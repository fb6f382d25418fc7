----------------------------- MODULE ThumbsProofs -----------------------------
(***************************************************************************)
(* Proofs about Thumbs, for any tiles, workers, keys and settings: the     *)
(* slots counted are the slots rendered with, a key has one winner at work,*)
(* and slots are handed out within the bound, to requests still wanted,    *)
(* tiles first.                                                            *)
(*                                                                         *)
(* What makes them inductive: the queue holds tiles before the warm-up, and*)
(* a call has its result exactly from when its winner has it until the     *)
(* winner takes the call away.                                             *)
(***************************************************************************)
EXTENDS Thumbs, FiniteSetTheorems, SequenceTheorems, WellFoundedInduction,
        TLAPS

Rendering == {p \in Asker : At(p, "render")}

------------------------------------------------------------------------------
(* The inductive invariant. *)

QueueTyped(q) ==
    /\ q \in Seq(Asker)
    /\ \A i, j \in DOMAIN q : q[i] = q[j] => i = j

\* Who waits in the queue is at it, tiles before the warm-up.
QueueOK ==
    /\ QueueTyped(queue)
    /\ \A i \in DOMAIN queue : At(queue[i], "queued")
    /\ \A i, j \in DOMAIN queue : i < j /\ req[queue[j]].urgent => req[queue[i]].urgent

SlotsOK ==
    /\ IsFiniteSet(Rendering) /\ inUse = Cardinality(Rendering)
    /\ capacity \in Parallelism
    /\ inUse < capacity => queue = <<>>

\* A call is that of a winner at work on its key, and has a result exactly when
\* the winner has it.
CallsOK ==
    \A k \in Key : call[k] # None =>
        LET p == call[k].winner IN
        /\ req[p] # None /\ req[p].key = k
        /\ ~At(p, "ask") /\ ~At(p, "joined")
        /\ call[k].result # None <=> At(p, "leave")

WarmOK == IsFiniteSet(Outstanding) /\ WarmupOwnsItsWork

Requests == req \in [Asker -> Request \cup {None}] /\ call \in [Key -> Call \cup {None}]

Others ==
    /\ dir \in Dir /\ jpg \subseteq Dir \X Key /\ fail \subseteq Dir \X Key
    /\ warm \in WarmUp
    /\ asks \in 0..MaxAsks /\ warmups \in 0..MaxWarmups /\ changes \in 0..MaxChanges

FlightOK == Requests /\ CallsOK /\ OneWinnerAtWork

Inv == FlightOK /\ QueueOK /\ SlotsOK /\ WarmOK /\ Others

------------------------------------------------------------------------------
(* The queue: what pump pops, and what removing or moving one leaves. *)

Below == {p \in Nat \X Nat : p[1] < p[2]}

LEMMA BelowIsWellFounded == IsWellFoundedOn(Below, Nat)
  BY NatLessThanWellFounded DEF Below, OpToRel

LEMMA LeastExists ==
  ASSUME NEW S \in SUBSET Nat, S # {}
  PROVE  \E i \in S : \A j \in S : i <= j
<1>1. PICK i \in S : \A j \in S : <<j, i>> \notin Below
  BY BelowIsWellFounded, WFMin
<1>2. ASSUME NEW j \in S PROVE i <= j
  <2>1. j < i => <<j, i>> \in Below
    BY DEF Below
  <2> QED BY <1>1, <2>1
<1> QED BY <1>2

\* The requests counted in front of a position are finitely many, and more of
\* them are counted further back.
LEMMA AheadGrows ==
  ASSUME NEW q, NEW i \in Nat, NEW j \in Nat, i <= j
  PROVE  /\ IsFiniteSet(Ahead(q, i)) /\ Cardinality(Ahead(q, i)) \in Nat
         /\ Cardinality(Ahead(q, i)) <= Cardinality(Ahead(q, j))
<1>1. \A n \in Nat : IsFiniteSet(Ahead(q, n)) /\ Cardinality(Ahead(q, n)) \in Nat
  <2> TAKE n \in Nat
  <2>1. IsFiniteSet(1..(n - 1))
    BY FS_Interval
  <2>2. Ahead(q, n) \subseteq 1..(n - 1)
    BY DEF Ahead
  <2> QED BY <2>1, <2>2, FS_Subset, FS_CardinalityType
<1>2. Ahead(q, i) \subseteq Ahead(q, j)
  BY DEF Ahead
<1> QED BY <1>1, <1>2, FS_Subset

\* What pump pops is the front of the queue (scheduler.pump).
LEMMA PoppedIsFront ==
  ASSUME NEW q \in Seq(Asker), NEW n \in Int
  PROVE  \E m \in 0..Len(q) : Popped(q, n) = 1..m /\ Cardinality(Popped(q, n)) = m
<1> DEFINE stops == {m \in Nat : m + 1 \notin Popped(q, n)}
<1>1. Len(q) \in Nat /\ DOMAIN q = 1..Len(q)
  OBVIOUS
<1>2. Popped(q, n) \subseteq 1..Len(q)
  BY <1>1 DEF Popped
<1>3. Len(q) \in stops
  BY <1>1, <1>2
<1>4. PICK m \in stops : \A k \in stops : m <= k
  <2>1. stops \in SUBSET Nat /\ stops # {}
    BY <1>3
  <2> HIDE DEF stops
  <2> QED BY <2>1, LeastExists
<1>5. m \in 0..Len(q)
  BY <1>1, <1>3, <1>4
<1>6. \A i \in 1..m : i \in Popped(q, n)
  <2> TAKE i \in 1..m
  <2>1. i - 1 \in Nat /\ ~(m <= i - 1)
    BY <1>5
  <2>2. i - 1 \notin stops
    BY <1>4, <2>1
  <2> QED BY <2>1, <2>2
<1>7. \A i \in Popped(q, n) : i \in 1..m
  <2> SUFFICES ASSUME NEW i \in Popped(q, n), i \notin 1..m PROVE FALSE
    OBVIOUS
  <2>1. i \in 1..Len(q) /\ m + 1 \in Nat /\ m + 1 <= i /\ m + 1 \in 1..Len(q)
    BY <1>1, <1>2, <1>5
  <2>2. m + 1 \notin Popped(q, n)
    BY <1>4
  <2>3. ~(Cardinality(Ahead(q, m + 1)) < n)
    BY <1>1, <2>1, <2>2 DEF Popped
  <2>4. Cardinality(Ahead(q, i)) < n
    BY DEF Popped
  <2>5. i \in Nat
    BY <2>1
  <2>6. /\ Cardinality(Ahead(q, m + 1)) <= Cardinality(Ahead(q, i))
        /\ Cardinality(Ahead(q, m + 1)) \in Nat /\ Cardinality(Ahead(q, i)) \in Nat
    BY <2>1, <2>5, AheadGrows
  <2> QED BY <2>3, <2>4, <2>6
<1>8. Popped(q, n) = 1..m
  BY <1>6, <1>7
<1>9. Cardinality(1..m) = m
  BY <1>5, FS_Interval
<1> QED BY <1>5, <1>8, <1>9

\* Distinct positions of a queue are distinct requests: they are as many.
LEMMA AsMany ==
  ASSUME NEW q, QueueTyped(q), NEW P \in SUBSET DOMAIN q
  PROVE  LET T == {q[i] : i \in P} IN IsFiniteSet(T) /\ Cardinality(T) = Cardinality(P)
<1> DEFINE T == {q[i] : i \in P}
           f == [i \in P |-> q[i]]
<1>1. IsFiniteSet(P)
  <2>1. IsFiniteSet(1..Len(q))
    BY FS_Interval DEF QueueTyped
  <2>2. P \subseteq 1..Len(q)
    BY DEF QueueTyped
  <2> QED BY <2>1, <2>2, FS_Subset
<1>2. f \in Bijection(P, T)
  BY DEF Bijection, Injection, Surjection, IsInjective, QueueTyped
<1> HIDE DEF f, T
<1>3. ExistsBijection(P, T)
  BY <1>2 DEF ExistsBijection
<1>4. IsFiniteSet(T) /\ Cardinality(P) = Cardinality(T)
  BY <1>1, <1>3, FS_Bijection
<1> QED BY <1>4 DEF T

\* Pump: some front of the queue is popped; those of it that are still wanted get
\* a slot, as many as there are slots unless nobody is left.
LEMMA Pumped ==
  ASSUME QueueTyped(queue), NEW n \in Int
  PROVE  \E m \in 0..Len(queue) :
            /\ Rest(queue, n) \in Seq(Asker) /\ Len(Rest(queue, n)) = Len(queue) - m
            /\ \A i \in 1..(Len(queue) - m) : Rest(queue, n)[i] = queue[m + i]
            /\ Granted(queue, n) = {queue[i] : i \in {j \in 1..m : req[queue[j]].live}}
            /\ IsFiniteSet(Granted(queue, n)) /\ Cardinality(Granted(queue, n)) \in Nat
            /\ Granted(queue, n) # {} => Cardinality(Granted(queue, n)) <= n
            /\ m < Len(queue) => Cardinality(Granted(queue, n)) >= n
<1> DEFINE L == Len(queue)
<1>1. L \in Nat /\ DOMAIN queue = 1..L /\ queue \in Seq(Asker)
  BY DEF QueueTyped
<1>2. PICK m \in 0..L : Popped(queue, n) = 1..m /\ Cardinality(Popped(queue, n)) = m
  BY <1>1, PoppedIsFront
<1>3. /\ Rest(queue, n) \in Seq(Asker) /\ Len(Rest(queue, n)) = L - m
      /\ \A i \in 1..(L - m) : Rest(queue, n)[i] = queue[m + i]
  <2>1. Rest(queue, n) = SubSeq(queue, m + 1, L)
    BY <1>1, <1>2 DEF Rest
  <2>2. m + 1 \in Int /\ L \in Int /\ \A i \in (m + 1)..L : queue[i] \in Asker
    BY <1>1, <1>2
  <2>3. /\ Rest(queue, n) \in Seq(Asker)
        /\ Len(Rest(queue, n)) = IF m + 1 <= L THEN L - (m + 1) + 1 ELSE 0
        /\ \A i \in 1..(L - (m + 1) + 1) : Rest(queue, n)[i] = queue[m + 1 + i - 1]
    BY <2>1, <2>2, SubSeqProperties
  <2>4. m \in Nat /\ L - (m + 1) + 1 = L - m /\ (IF m + 1 <= L THEN L - m ELSE 0) = L - m
    <3>1. L \in Nat /\ m \in 0..L
      BY <1>1, <1>2
    <3> HIDE DEF L
    <3> QED BY <3>1
  <2>5. ASSUME NEW i \in 1..(L - m) PROVE Rest(queue, n)[i] = queue[m + i]
    <3>1. Rest(queue, n)[i] = queue[m + 1 + i - 1]
      BY <2>3, <2>4
    <3>2. m + 1 + i - 1 = m + i
      <4>1. m \in Int /\ i \in Int
        <5>1. m \in Nat /\ L \in Nat
          BY <1>1, <2>4
        <5> HIDE DEF L
        <5> QED BY <5>1
      <4> QED BY <4>1
    <3> QED BY <3>1, <3>2
  <2> QED BY <2>3, <2>4, <2>5
<1>4. Granted(queue, n) = {queue[i] : i \in Ahead(queue, m + 1)}
  BY <1>1, <1>2 DEF Granted, Ahead
<1>5. Ahead(queue, m + 1) = {j \in 1..m : req[queue[j]].live}
  BY <1>1, <1>2 DEF Ahead
<1>6. /\ IsFiniteSet(Granted(queue, n))
      /\ Cardinality(Granted(queue, n)) = Cardinality(Ahead(queue, m + 1))
  <2>1. Ahead(queue, m + 1) \in SUBSET DOMAIN queue
    BY <1>1, <1>2, <1>5
  <2> DEFINE P == Ahead(queue, m + 1)
  <2>2. Granted(queue, n) = {queue[i] : i \in P} /\ P \in SUBSET DOMAIN queue
    BY <1>4, <2>1
  <2> HIDE DEF P
  <2>3. IsFiniteSet({queue[i] : i \in P}) /\ Cardinality({queue[i] : i \in P}) = Cardinality(P)
    BY <2>2, AsMany
  <2>4. IsFiniteSet(Granted(queue, n)) /\ Cardinality(Granted(queue, n)) = Cardinality(P)
    BY <2>2, <2>3
  <2> QED BY <2>4 DEF P
<1>7. Cardinality(Granted(queue, n)) \in Nat
  BY <1>6, FS_CardinalityType
<1>8. m < L => Cardinality(Granted(queue, n)) >= n
  <2> SUFFICES ASSUME m < L PROVE ~(Cardinality(Ahead(queue, m + 1)) < n)
    BY <1>6, <1>7
  <2>1. m + 1 \in DOMAIN queue /\ m + 1 \notin Popped(queue, n)
    BY <1>1, <1>2
  <2> QED BY <2>1 DEF Popped
<1>9. ASSUME Granted(queue, n) # {} PROVE Cardinality(Granted(queue, n)) <= n
  <2>1. m \in Nat /\ m >= 1
    BY <1>1, <1>2, <1>4, <1>5, <1>9
  <2>2. m \in Popped(queue, n)
    BY <1>2, <2>1
  <2>3. Cardinality(Ahead(queue, m)) < n
    BY <2>2 DEF Popped
  <2>4. IsFiniteSet(Ahead(queue, m)) /\ Cardinality(Ahead(queue, m)) \in Nat
    BY <2>1, AheadGrows
  <2>5. Ahead(queue, m + 1) \subseteq Ahead(queue, m) \cup {m}
    BY <2>1 DEF Ahead
  <2>6. /\ IsFiniteSet(Ahead(queue, m) \cup {m})
        /\ Cardinality(Ahead(queue, m) \cup {m}) = Cardinality(Ahead(queue, m)) + 1
    <3>1. m \notin Ahead(queue, m)
      BY <2>1 DEF Ahead
    <3> QED BY <2>4, <3>1, FS_AddElement
  <2>7. Cardinality(Ahead(queue, m + 1)) <= Cardinality(Ahead(queue, m)) + 1
    BY <2>5, <2>6, FS_Subset
  <2> QED BY <1>6, <1>7, <2>3, <2>4, <2>7
<1> QED BY <1>1, <1>2, <1>3, <1>4, <1>5, <1>6, <1>7, <1>8, <1>9

\* Removing a request leaves the others in their order.
LEMMA WithoutKeeps ==
  ASSUME QueueTyped(queue), NEW p
  PROVE  \E e \in 1..(Len(queue) + 1) :
            /\ p \in ToSet(queue) => e \in DOMAIN queue /\ queue[e] = p
            /\ p \notin ToSet(queue) => e = Len(queue) + 1
            /\ Without(p) \in Seq(Asker)
            /\ Len(Without(p)) = IF p \in ToSet(queue) THEN Len(queue) - 1 ELSE Len(queue)
            /\ \A i \in DOMAIN Without(p) : /\ (IF i < e THEN i ELSE i + 1) \in DOMAIN queue
                                            /\ Without(p)[i] = queue[IF i < e THEN i ELSE i + 1]
<1> DEFINE L == Len(queue)
<1>1. L \in Nat /\ DOMAIN queue = 1..L /\ queue \in Seq(Asker)
  BY DEF QueueTyped
<1>2. CASE p \notin ToSet(queue)
  <2>1. Without(p) = queue
    BY <1>2 DEF Without
  <2> QED BY <1>1, <1>2, <2>1
<1>3. CASE p \in ToSet(queue)
  <2> DEFINE e == CHOOSE i \in DOMAIN queue : queue[i] = p
  <2>1. e \in 1..L /\ queue[e] = p
    BY <1>1, <1>3 DEF ToSet
  <2>2. Without(p) = SubSeq(queue, 1, e - 1) \o SubSeq(queue, e + 1, L)
    BY <1>3 DEF Without, RemoveAt
  <2> HIDE DEF e
  <2> DEFINE a == SubSeq(queue, 1, e - 1)
             b == SubSeq(queue, e + 1, L)
  <2>3. a \in Seq(Asker) /\ Len(a) = e - 1 /\ \A i \in 1..(e - 1) : a[i] = queue[i]
    <3>1. e - 1 \in Int /\ \A i \in 1..(e - 1) : queue[i] \in Asker
      BY <1>1, <2>1
    <3>2. /\ a \in Seq(Asker) /\ Len(a) = IF 1 <= e - 1 THEN (e - 1) - 1 + 1 ELSE 0
          /\ \A i \in 1..((e - 1) - 1 + 1) : a[i] = queue[1 + i - 1]
      BY <3>1, SubSeqProperties
    <3> QED BY <2>1, <3>2
  <2>4. b \in Seq(Asker) /\ Len(b) = L - e /\ \A i \in 1..(L - e) : b[i] = queue[e + i]
    <3>1. e + 1 \in Int /\ L \in Int /\ \A i \in (e + 1)..L : queue[i] \in Asker
      BY <1>1, <2>1
    <3>2. /\ b \in Seq(Asker) /\ Len(b) = IF e + 1 <= L THEN L - (e + 1) + 1 ELSE 0
          /\ \A i \in 1..(L - (e + 1) + 1) : b[i] = queue[e + 1 + i - 1]
      BY <3>1, SubSeqProperties
    <3>3. e \in Nat /\ L - (e + 1) + 1 = L - e /\ (IF e + 1 <= L THEN L - e ELSE 0) = L - e
      <4>1. L \in Nat /\ e \in 1..L
        BY <1>1, <2>1
      <4> HIDE DEF L
      <4> QED BY <4>1
    <3>4. ASSUME NEW i \in 1..(L - e) PROVE b[i] = queue[e + i]
      <4>1. b[i] = queue[e + 1 + i - 1]
        BY <3>2, <3>3
      <4>2. e + 1 + i - 1 = e + i
        <5>1. e \in Int /\ i \in Int
          <6>1. e \in Nat /\ L \in Nat
            BY <1>1, <3>3
          <6> HIDE DEF L
          <6> QED BY <6>1
        <5> QED BY <5>1
      <4> QED BY <4>1, <4>2
    <3> QED BY <3>2, <3>3, <3>4
  <2> HIDE DEF a, b
  <2>5. /\ Without(p) \in Seq(Asker) /\ Len(Without(p)) = L - 1
        /\ \A i \in 1..(L - 1) : Without(p)[i] = IF i < e THEN queue[i] ELSE queue[i + 1]
    <3>1. Without(p) = a \o b
      BY <2>2 DEF a, b
    <3>2. /\ Without(p) \in Seq(Asker) /\ Len(Without(p)) = Len(a) + Len(b)
          /\ \A i \in 1..(Len(a) + Len(b)) :
                Without(p)[i] = IF i <= Len(a) THEN a[i] ELSE b[i - Len(a)]
      <4>1. a \in Seq(Asker) /\ b \in Seq(Asker)
        BY <2>3, <2>4
      <4>2. /\ a \o b \in Seq(Asker) /\ Len(a \o b) = Len(a) + Len(b)
            /\ \A i \in 1..(Len(a) + Len(b)) : (a \o b)[i] = IF i <= Len(a) THEN a[i] ELSE b[i - Len(a)]
        BY <4>1, ConcatProperties
      <4> QED BY <3>1, <4>2
    <3>3. ASSUME NEW i \in 1..(L - 1) PROVE Without(p)[i] = IF i < e THEN queue[i] ELSE queue[i + 1]
      <4>1. CASE i < e
        <5>1. i \in 1..(e - 1) /\ i <= Len(a)
          BY <1>1, <2>1, <2>3, <4>1
        <5>2. i \in 1..(Len(a) + Len(b))
          BY <1>1, <2>1, <2>3, <2>4
        <5>3. Without(p)[i] = a[i]
          BY <3>2, <5>1, <5>2
        <5> QED BY <2>3, <4>1, <5>1, <5>3
      <4>2. CASE ~(i < e)
        <5> DEFINE j == i - (e - 1)
        <5>1. j \in 1..(L - e) /\ ~(i <= Len(a)) /\ e + j = i + 1
          BY <1>1, <2>1, <2>3, <4>2
        <5>2. i \in 1..(Len(a) + Len(b)) /\ i - Len(a) = j
          BY <1>1, <2>1, <2>3, <2>4
        <5>3. Without(p)[i] = b[j]
          BY <3>2, <5>1, <5>2
        <5> HIDE DEF j
        <5>4. b[j] = queue[i + 1]
          BY <2>4, <5>1
        <5> QED BY <4>2, <5>3, <5>4
      <4> QED BY <4>1, <4>2
    <3>4. Len(a) + Len(b) = L - 1
      BY <1>1, <2>1, <2>3, <2>4
    <3>5. Without(p) \in Seq(Asker) /\ Len(Without(p)) = L - 1
      BY <3>2, <3>4
    <3> QED BY <3>3, <3>5
  <2>6. \A i \in DOMAIN Without(p) : /\ (IF i < e THEN i ELSE i + 1) \in DOMAIN queue
                                     /\ Without(p)[i] = queue[IF i < e THEN i ELSE i + 1]
    BY <1>1, <2>1, <2>5
  <2> QED BY <1>1, <1>3, <2>1, <2>5, <2>6
<1> QED BY <1>2, <1>3

\* Another queue keeps the order this one has.
InOrder(q) ==
    /\ QueueTyped(q)
    /\ \E f \in [DOMAIN q -> DOMAIN queue] :
          /\ \A i \in DOMAIN q : q[i] = queue[f[i]]
          /\ \A i, j \in DOMAIN q : i < j => f[i] < f[j]

LEMMA InOrderByPlaces ==
  ASSUME QueueTyped(queue), NEW q \in Seq(Asker), NEW f \in [DOMAIN q -> DOMAIN queue],
         \A i \in DOMAIN q : q[i] = queue[f[i]],
         \A i, j \in DOMAIN q : i < j => f[i] < f[j]
  PROVE  InOrder(q)
<1>1. ASSUME NEW i \in DOMAIN q, NEW j \in DOMAIN q, q[i] = q[j] PROVE i = j
  <2>1. f[i] \in DOMAIN queue /\ f[j] \in DOMAIN queue /\ queue[f[i]] = queue[f[j]]
    BY <1>1
  <2>2. f[i] = f[j]
    BY <2>1 DEF QueueTyped
  <2>3. f[i] \in Nat /\ f[j] \in Nat /\ i \in Nat /\ j \in Nat
    <3>1. DOMAIN queue = 1..Len(queue) /\ DOMAIN q = 1..Len(q)
      BY DEF QueueTyped
    <3> QED BY <2>1, <3>1
  <2>4. ~(i < j) /\ ~(j < i)
    BY <2>2, <2>3
  <2> QED BY <2>3, <2>4
<1> QED BY <1>1 DEF InOrder, QueueTyped

LEMMA ItselfInOrder ==
  ASSUME QueueTyped(queue) PROVE InOrder(queue)
<1> DEFINE f == [i \in DOMAIN queue |-> i]
<1>1. f \in [DOMAIN queue -> DOMAIN queue]
  OBVIOUS
<1>2. \A i \in DOMAIN queue : f[i] = i
  OBVIOUS
<1> HIDE DEF f
<1> QED BY <1>1, <1>2, InOrderByPlaces DEF QueueTyped

LEMMA EmptyInOrder ==
  ASSUME QueueTyped(queue) PROVE InOrder(<<>>)
<1> DEFINE f == [i \in {} |-> i]
<1>1. <<>> \in Seq(Asker) /\ DOMAIN <<>> = {}
  OBVIOUS
<1>2. f \in [{} -> DOMAIN queue]
  OBVIOUS
<1> HIDE DEF f
<1> QED BY <1>1, <1>2, InOrderByPlaces

\* What pump leaves keeps its order, and holds nobody who got a slot.
LEMMA RestInOrder ==
  ASSUME QueueTyped(queue), NEW n \in Int
  PROVE  /\ InOrder(Rest(queue, n))
         /\ Granted(queue, n) \subseteq ToSet(queue)
         /\ \A i \in DOMAIN Rest(queue, n) : Rest(queue, n)[i] \notin Granted(queue, n)
         /\ IsFiniteSet(Granted(queue, n)) /\ Cardinality(Granted(queue, n)) \in Nat
         /\ Granted(queue, n) # {} => Cardinality(Granted(queue, n)) <= n
         /\ Rest(queue, n) # <<>> => Cardinality(Granted(queue, n)) >= n
<1> DEFINE q == Rest(queue, n)
           L == Len(queue)
<1>1. L \in Nat /\ DOMAIN queue = 1..L
  BY DEF QueueTyped
<1>2. PICK m \in 0..L :
         /\ q \in Seq(Asker) /\ Len(q) = L - m
         /\ \A i \in 1..(L - m) : q[i] = queue[m + i]
         /\ Granted(queue, n) = {queue[i] : i \in {j \in 1..m : req[queue[j]].live}}
         /\ IsFiniteSet(Granted(queue, n)) /\ Cardinality(Granted(queue, n)) \in Nat
         /\ Granted(queue, n) # {} => Cardinality(Granted(queue, n)) <= n
         /\ m < L => Cardinality(Granted(queue, n)) >= n
  BY Pumped
<1> DEFINE f == [i \in 1..(L - m) |-> m + i]
<1>3. q \in Seq(Asker) /\ DOMAIN q = 1..(L - m)
  BY <1>2
<1>4. m \in Nat /\ m <= L
  BY <1>1, <1>2
<1>5. \A i \in 1..(L - m) : i \in Nat /\ f[i] = m + i /\ m + i \in 1..L /\ m + i > m
  <2>1. L \in Nat
    BY <1>1
  <2> HIDE DEF L
  <2> QED BY <1>4, <2>1
<1>6. \A i, j \in 1..(L - m) : i < j => f[i] < f[j]
  <2> HIDE DEF f, L
  <2> QED BY <1>4, <1>5
<1>7. f \in [1..(L - m) -> 1..L]
  BY <1>5
<1>8. InOrder(q)
  <2> HIDE DEF f, q, L
  <2>1. f \in [DOMAIN q -> DOMAIN queue]
    BY <1>1, <1>3, <1>7
  <2>2. \A i \in DOMAIN q : q[i] = queue[f[i]]
    BY <1>2, <1>3, <1>5
  <2>3. \A i, j \in DOMAIN q : i < j => f[i] < f[j]
    BY <1>3, <1>6
  <2> QED BY <1>3, <2>1, <2>2, <2>3, InOrderByPlaces
<1>9. Granted(queue, n) \subseteq ToSet(queue)
  <2>1. \A j \in 1..m : j \in DOMAIN queue
    <3>1. L \in Nat
      BY <1>1
    <3> HIDE DEF L
    <3> QED BY <1>1, <1>4, <3>1
  <2> QED BY <1>2, <2>1 DEF ToSet
<1>10. ASSUME NEW i \in DOMAIN q, q[i] \in Granted(queue, n) PROVE FALSE
  <2>1. PICK j \in 1..m : queue[j] = q[i]
    BY <1>2, <1>10
  <2>2. i \in 1..(L - m) /\ q[i] = queue[m + i]
    BY <1>2, <1>3
  <2>3. m + i \in 1..L /\ m + i > m
    BY <1>5, <2>2
  <2>4. j \in 1..L /\ j <= m /\ j \in Nat
    <3>1. L \in Nat
      BY <1>1
    <3> HIDE DEF L
    <3> QED BY <1>4, <3>1
  <2>5. j = m + i
    BY <1>1, <2>1, <2>2, <2>3, <2>4 DEF QueueTyped
  <2> QED BY <1>4, <2>3, <2>4, <2>5
<1>11. ASSUME q # <<>> PROVE m < L
  <2>1. Len(q) # 0
    BY <1>3, <1>11
  <2>2. L \in Nat /\ L - m # 0
    BY <1>1, <1>2, <2>1
  <2> HIDE DEF L
  <2> QED BY <1>4, <2>2
<1> QED BY <1>2, <1>8, <1>9, <1>10, <1>11

LEMMA WithoutInOrder ==
  ASSUME QueueTyped(queue), NEW p
  PROVE  /\ InOrder(Without(p))
         /\ \A i \in DOMAIN Without(p) : Without(p)[i] # p /\ Without(p)[i] \in ToSet(queue)
         /\ queue = <<>> => Without(p) = <<>>
<1> DEFINE q == Without(p)
           L == Len(queue)
<1>1. L \in Nat /\ DOMAIN queue = 1..L
  BY DEF QueueTyped
<1>2. PICK e \in 1..(L + 1) :
            /\ p \in ToSet(queue) => e \in DOMAIN queue /\ queue[e] = p
            /\ p \notin ToSet(queue) => e = L + 1
            /\ q \in Seq(Asker)
            /\ Len(q) = IF p \in ToSet(queue) THEN L - 1 ELSE L
            /\ \A i \in DOMAIN q : /\ (IF i < e THEN i ELSE i + 1) \in DOMAIN queue
                                   /\ q[i] = queue[IF i < e THEN i ELSE i + 1]
  BY WithoutKeeps
<1> DEFINE f == [i \in DOMAIN q |-> IF i < e THEN i ELSE i + 1]
<1>3. DOMAIN q = 1..Len(q) /\ \A i \in DOMAIN q : i \in Nat
  BY <1>2
<1>4. e \in Nat
  <2>1. L \in Nat /\ e \in 1..(L + 1)
    BY <1>1, <1>2
  <2> HIDE DEF L
  <2> QED BY <2>1
<1>5. /\ f \in [DOMAIN q -> DOMAIN queue]
      /\ \A i \in DOMAIN q : q[i] = queue[f[i]] /\ f[i] = IF i < e THEN i ELSE i + 1
  BY <1>2
<1>6. \A i, j \in DOMAIN q : i < j => f[i] < f[j]
  <2> HIDE DEF f
  <2> QED BY <1>3, <1>4, <1>5
<1>7. InOrder(q)
  <2> HIDE DEF f, q
  <2> QED BY <1>2, <1>5, <1>6, InOrderByPlaces
<1>8. ASSUME NEW i \in DOMAIN q PROVE q[i] # p /\ q[i] \in ToSet(queue)
  <2>1. f[i] \in DOMAIN queue /\ q[i] = queue[f[i]]
    BY <1>5
  <2>2. q[i] \in ToSet(queue)
    BY <2>1 DEF ToSet
  <2>3. ASSUME q[i] = p PROVE FALSE
    <3>1. e \in DOMAIN queue /\ queue[e] = queue[f[i]]
      BY <1>2, <2>1, <2>2, <2>3
    <3>2. e = f[i]
      BY <2>1, <3>1 DEF QueueTyped
    <3> HIDE DEF f
    <3> QED BY <1>3, <1>4, <1>5, <3>2
  <2> QED BY <2>2, <2>3
<1>9. ASSUME queue = <<>> PROVE q = <<>>
  BY <1>9 DEF Without, ToSet
<1> QED BY <1>7, <1>8, <1>9

\* The invariant of the queue over a step that drops requests from it, or none.
LEMMA QueueStays ==
  ASSUME QueueOK, InOrder(queue'),
         \A i \in DOMAIN queue' : LET p == queue'[i] IN
             req'[p] # None /\ req'[p].at = "queued" /\ req'[p].urgent = req[p].urgent
  PROVE  QueueOK'
<1>1. PICK f \in [DOMAIN queue' -> DOMAIN queue] :
          /\ \A i \in DOMAIN queue' : queue'[i] = queue[f[i]]
          /\ \A i, j \in DOMAIN queue' : i < j => f[i] < f[j]
  BY DEF InOrder
<1>2. ASSUME NEW i \in DOMAIN queue', NEW j \in DOMAIN queue', i < j, req'[queue'[j]].urgent
      PROVE  req'[queue'[i]].urgent
  <2>1. f[i] \in DOMAIN queue /\ f[j] \in DOMAIN queue /\ f[i] < f[j] /\ req[queue[f[j]]].urgent
    BY <1>1, <1>2
  <2>2. req[queue[f[i]]].urgent
    BY <2>1 DEF QueueOK
  <2> QED BY <1>1, <2>2
<1>3. \A i \in DOMAIN queue' : req'[queue'[i]] # None /\ req'[queue'[i]].at = "queued"
  BY DEF At
<1>4. QueueTyped(queue')
  BY DEF InOrder
<1> QED BY <1>2, <1>3, <1>4 DEF QueueOK, QueueTyped, At

\* A tile's request goes to the front: pushed, or bumped.
LEMMA QueueFronted ==
  ASSUME QueueOK, NEW q, InOrder(q), NEW p \in Asker, \A i \in DOMAIN q : q[i] # p,
         queue' = <<p>> \o q,
         req'[p] # None, req'[p].at = "queued", req'[p].urgent,
         \A i \in DOMAIN q : req'[q[i]] = req[q[i]]
  PROVE  QueueOK'
<1>1. q \in Seq(Asker) /\ Len(q) \in Nat /\ DOMAIN q = 1..Len(q)
  BY DEF InOrder, QueueTyped
<1>2. /\ queue' \in Seq(Asker) /\ Len(queue') = Len(q) + 1 /\ DOMAIN queue' = 1..(Len(q) + 1)
      /\ queue'[1] = p
      /\ \A i \in 1..Len(q) : queue'[i + 1] = q[i]
  <2>1. <<p>> \in Seq(Asker) /\ Len(<<p>>) = 1 /\ <<p>>[1] = p
    OBVIOUS
  <2>2. /\ queue' \in Seq(Asker) /\ Len(queue') = 1 + Len(q)
        /\ \A i \in 1..(1 + Len(q)) : queue'[i] = IF i <= 1 THEN <<p>>[i] ELSE q[i - 1]
    BY <1>1, <2>1, ConcatProperties
  <2>3. DOMAIN queue' = 1..(Len(q) + 1) /\ Len(queue') = Len(q) + 1
    BY <1>1, <2>2
  <2>4. queue'[1] = p
    BY <1>1, <2>1, <2>2
  <2>5. ASSUME NEW i \in 1..Len(q) PROVE queue'[i + 1] = q[i]
    <3>1. i + 1 \in 1..(1 + Len(q)) /\ ~(i + 1 <= 1) /\ i + 1 - 1 = i
      BY <1>1
    <3> QED BY <2>2, <3>1
  <2> QED BY <2>2, <2>3, <2>4, <2>5
<1>3. PICK f \in [DOMAIN q -> DOMAIN queue] :
          /\ \A i \in DOMAIN q : q[i] = queue[f[i]]
          /\ \A i, j \in DOMAIN q : i < j => f[i] < f[j]
  BY DEF InOrder
<1>4. \A i \in DOMAIN queue' : i = 1 \/ (i - 1 \in DOMAIN q /\ queue'[i] = q[i - 1])
  <2> TAKE i \in DOMAIN queue'
  <2>1. i = 1 \/ (i - 1 \in 1..Len(q) /\ (i - 1) + 1 = i)
    BY <1>1, <1>2
  <2> QED BY <1>1, <1>2, <2>1
<1>5. \A i \in DOMAIN q : q[i] \in Asker \ {p} /\ req'[q[i]] = req[q[i]] /\ At(q[i], "queued")
  BY <1>1, <1>3 DEF QueueOK, QueueTyped
<1>6. \A i \in DOMAIN queue' : req'[queue'[i]] # None /\ req'[queue'[i]].at = "queued"
  <2> TAKE i \in DOMAIN queue'
  <2>1. CASE i = 1
    BY <1>2, <2>1
  <2>2. CASE i - 1 \in DOMAIN q /\ queue'[i] = q[i - 1]
    BY <1>5, <2>2 DEF At
  <2> QED BY <1>4, <2>1, <2>2
<1>7. ASSUME NEW i \in DOMAIN queue', NEW j \in DOMAIN queue', queue'[i] = queue'[j] PROVE i = j
  <2>1. i \in Nat /\ j \in Nat
    BY <1>1, <1>2
  <2>2. CASE i = 1 \/ j = 1
    BY <1>2, <1>4, <1>5, <1>7, <2>2
  <2>3. CASE i # 1 /\ j # 1
    <3>1. i - 1 \in DOMAIN q /\ j - 1 \in DOMAIN q /\ q[i - 1] = q[j - 1]
      BY <1>4, <1>7, <2>3
    <3>2. i - 1 = j - 1
      BY <3>1 DEF InOrder, QueueTyped
    <3> QED BY <2>1, <3>2
  <2> QED BY <2>2, <2>3
<1>8. ASSUME NEW i \in DOMAIN queue', NEW j \in DOMAIN queue', i < j, req'[queue'[j]].urgent
      PROVE  req'[queue'[i]].urgent
  <2>1. i \in Nat /\ j \in Nat /\ i >= 1 /\ j # 1
    BY <1>1, <1>2, <1>8
  <2>2. CASE i = 1
    BY <1>2, <2>2
  <2>3. CASE i # 1
    <3>1. /\ i - 1 \in DOMAIN q /\ j - 1 \in DOMAIN q /\ i - 1 < j - 1
          /\ queue'[i] = q[i - 1] /\ queue'[j] = q[j - 1]
      BY <1>4, <1>8, <2>1, <2>3
    <3>2. /\ f[i - 1] \in DOMAIN queue /\ f[j - 1] \in DOMAIN queue /\ f[i - 1] < f[j - 1]
          /\ q[i - 1] = queue[f[i - 1]] /\ q[j - 1] = queue[f[j - 1]]
      BY <1>3, <3>1
    <3>3. req[queue[f[j - 1]]].urgent
      BY <1>5, <1>8, <3>1, <3>2
    <3>4. req[queue[f[i - 1]]].urgent
      BY <3>2, <3>3 DEF QueueOK
    <3> QED BY <1>5, <3>1, <3>2, <3>4
  <2> QED BY <2>2, <2>3
<1> QED BY <1>2, <1>6, <1>7, <1>8 DEF QueueOK, QueueTyped, At

\* A warm-up's request goes to the end.
LEMMA QueueAppended ==
  ASSUME QueueOK, NEW p \in Asker, \A i \in DOMAIN queue : queue[i] # p,
         queue' = Append(queue, p),
         req'[p] # None, req'[p].at = "queued", ~req'[p].urgent,
         \A r \in Asker \ {p} : req'[r] = req[r]
  PROVE  QueueOK'
<1> DEFINE L == Len(queue)
<1>1. queue \in Seq(Asker) /\ L \in Nat /\ DOMAIN queue = 1..L
  BY DEF QueueOK, QueueTyped
<1>2. /\ queue' \in Seq(Asker) /\ DOMAIN queue' = 1..(L + 1)
      /\ queue'[L + 1] = p
      /\ \A i \in 1..L : queue'[i] = queue[i]
  BY <1>1
<1>3. \A i \in DOMAIN queue' : i = L + 1 \/ (i \in DOMAIN queue /\ queue'[i] = queue[i])
  BY <1>1, <1>2
<1>4. \A i \in DOMAIN queue : /\ queue[i] \in Asker \ {p} /\ req'[queue[i]] = req[queue[i]]
                              /\ At(queue[i], "queued")
  BY <1>1 DEF QueueOK
<1>5. \A i \in DOMAIN queue' : req'[queue'[i]] # None /\ req'[queue'[i]].at = "queued"
  BY <1>2, <1>3, <1>4 DEF At
<1>6. ASSUME NEW i \in DOMAIN queue', NEW j \in DOMAIN queue', queue'[i] = queue'[j] PROVE i = j
  <2>1. CASE i = L + 1 \/ j = L + 1
    BY <1>2, <1>3, <1>4, <1>6, <2>1
  <2>2. CASE i # L + 1 /\ j # L + 1
    BY <1>3, <1>6, <2>2 DEF QueueOK, QueueTyped
  <2> QED BY <2>1, <2>2
<1>7. ASSUME NEW i \in DOMAIN queue', NEW j \in DOMAIN queue', i < j, req'[queue'[j]].urgent
      PROVE  req'[queue'[i]].urgent
  <2>1. j # L + 1
    BY <1>2, <1>7
  <2>2. j \in DOMAIN queue /\ i \in DOMAIN queue
    BY <1>1, <1>2, <1>3, <1>7, <2>1
  <2> QED BY <1>2, <1>1, <1>4, <1>7, <2>2 DEF QueueOK
<1> QED BY <1>2, <1>5, <1>6, <1>7 DEF QueueOK, QueueTyped, At

------------------------------------------------------------------------------
(* The calls. *)

\* What an asker is to the call of its key.
Kind(x) == IF x.at \in {"ask", "joined", "leave"} THEN x.at ELSE "work"

Alike(p) ==
    \/ req[p] = None /\ req'[p] = None
    \/ /\ req[p] # None /\ req'[p] # None
       /\ req'[p].key = req[p].key /\ Kind(req'[p]) = Kind(req[p])

Outside(p) == /\ req[p] = None \/ req[p].at = "ask"
              /\ req'[p] = None \/ req'[p].at = "ask"

Joins(p) == /\ At(p, "ask") /\ req'[p] # None /\ req'[p].at = "joined"
            /\ req'[p].key = req[p].key
            /\ call[req[p].key] # None /\ call[req[p].key].result = None

SameCalls ==
    \A k \in Key : /\ call'[k] = None <=> call[k] = None
                   /\ call[k] # None => /\ call'[k].winner = call[k].winner
                                        /\ call'[k].result = call[k].result

\* What the types say of one request and one call.
LEMMA Typed ==
  ASSUME Requests
  PROVE  /\ \A p \in Asker : req[p] # None => req[p] \in Request /\ req[p].key \in Key
         /\ \A k \in Key : call[k] # None => call[k] \in Call /\ call[k].winner \in Asker
  BY DEF Requests, Request, Call

\* Calls nobody opens, ends or takes away stand while askers only move on, come
\* to them or follow them.
LEMMA Steady ==
  ASSUME FlightOK, Requests', SameCalls,
         \A p \in Asker : Alike(p) \/ Outside(p) \/ Joins(p)
  PROVE  FlightOK'
<1>1. \A p \in Asker : req[p] # None => req[p].key \in Key
  BY Typed DEF FlightOK
<1>2. \A p \in Asker : req'[p] # None => req'[p].key \in Key
  BY DEF Requests, Request
<1>3. ASSUME NEW k \in Key, call'[k] # None
      PROVE  LET p == call'[k].winner IN
             /\ req'[p] # None /\ req'[p].key = k
             /\ req'[p].at # "ask" /\ req'[p].at # "joined"
             /\ call'[k].result # None <=> req'[p].at = "leave"
  <2> DEFINE p == call[k].winner
  <2>1. call[k] # None /\ call'[k].winner = p /\ call'[k].result = call[k].result
    BY <1>3 DEF SameCalls
  <2>2. p \in Asker
    BY <2>1, Typed DEF FlightOK
  <2>3. /\ req[p] # None /\ req[p].key = k /\ req[p].at # "ask" /\ req[p].at # "joined"
        /\ call[k].result # None <=> req[p].at = "leave"
    BY <2>1 DEF FlightOK, CallsOK, At
  <2> HIDE DEF p
  <2>4. Alike(p)
    BY <2>2, <2>3 DEF Outside, Joins, At
  <2>5. req'[p] # None /\ req'[p].key = k /\ Kind(req'[p]) = Kind(req[p])
    BY <2>3, <2>4 DEF Alike
  <2>6. /\ req'[p].at # "ask" /\ req'[p].at # "joined"
        /\ req'[p].at = "leave" <=> req[p].at = "leave"
    BY <2>3, <2>5 DEF Kind
  <2> QED BY <2>1, <2>3, <2>5, <2>6
<1>4. ASSUME NEW p \in Asker, req'[p] # None
      PROVE  LET c == call'[req'[p].key] IN
             /\ req'[p].at = "joined" => c # None /\ c.result = None
             /\ req'[p].at # "ask" /\ req'[p].at # "joined" => c # None /\ c.winner = p
  <2>1. CASE Outside(p)
    BY <1>4, <2>1 DEF Outside
  <2>2. CASE Joins(p)
    BY <1>1, <1>4, <2>2 DEF Joins, SameCalls, At
  <2>3. CASE Alike(p)
    <3>1. req[p] # None /\ req'[p].key = req[p].key /\ Kind(req'[p]) = Kind(req[p])
      BY <1>4, <2>3 DEF Alike
    <3>2. /\ req[p].at = "joined" => /\ call[req[p].key] # None
                                     /\ call[req[p].key].result = None
          /\ req[p].at # "ask" /\ req[p].at # "joined" =>
                /\ call[req[p].key] # None /\ call[req[p].key].winner = p
      BY <3>1 DEF FlightOK, OneWinnerAtWork, Busy, At
    <3>3. /\ req'[p].at = "joined" <=> req[p].at = "joined"
          /\ req'[p].at = "ask" <=> req[p].at = "ask"
      BY <3>1 DEF Kind
    <3> QED BY <1>1, <3>1, <3>2, <3>3 DEF SameCalls
  <2> QED BY <2>1, <2>2, <2>3
<1>5. CallsOK'
  BY <1>3 DEF CallsOK, At
<1>6. OneWinnerAtWork'
  BY <1>4 DEF OneWinnerAtWork, Busy, At
<1> QED BY <1>5, <1>6 DEF FlightOK

Waiting == {p \in Asker : At(p, "queued")}

\* flight.Do, with the result: the winner leaves with it, whoever follows is
\* answered, and those in `granted' go on.
LEMMA Settled ==
  ASSUME FlightOK, NEW p \in Asker, NEW r \in Result, NEW granted \in SUBSET Waiting,
         At(p, "won") \/ At(p, "acquire") \/ At(p, "queued") \/ At(p, "render"),
         p \notin granted, Settle(p, r, granted)
  PROVE  /\ FlightOK'
         /\ req'[p] = [req[p] EXCEPT !.at = "leave"] /\ req[p] \in Request
         /\ \A q \in Asker \ {p} :
              IF q \in granted THEN req'[q] = [req[q] EXCEPT !.at = "render"] /\ req[q] \in Request
              ELSE req'[q] = req[q] \/ (At(q, "joined") /\ req'[q] = None)
<1> DEFINE k == req[p].key
<1>1. req[p] \in Request /\ req[p] # None /\ k \in Key
  BY Typed DEF FlightOK, At
<1>2. call[k] # None /\ call[k].winner = p /\ call[k] \in Call
  BY <1>1, Typed DEF FlightOK, OneWinnerAtWork, Busy, At
<1>3. call' = [call EXCEPT ![k] = [call[k] EXCEPT !.result = r]]
  BY DEF Settle
<1>4. req' = [q \in Asker |->
                 CASE q = p             -> [req[p] EXCEPT !.at = "leave"]
                   [] q \in Followers(k) -> None
                   [] OTHER             -> Grant(req, granted)[q]]
  BY DEF Settle
<1> HIDE DEF k
<1>5. req'[p] = [req[p] EXCEPT !.at = "leave"]
  <2> DEFINE x == [req[p] EXCEPT !.at = "leave"]
             F(q) == CASE q = p             -> x
                       [] q \in Followers(k) -> None
                       [] OTHER             -> Grant(req, granted)[q]
  <2>1. req' = [q \in Asker |-> F(q)]
    BY <1>4
  <2>2. p \notin Followers(k)
    BY DEF Followers, At
  <2> HIDE DEF x
  <2>3. F(p) = x
    BY <2>2
  <2> HIDE DEF F
  <2>4. req'[p] = F(p)
    BY <2>1
  <2> QED BY <2>3, <2>4 DEF x
<1>6. ASSUME NEW q \in Asker \ {p}, q \in granted
      PROVE  req'[q] = [req[q] EXCEPT !.at = "render"] /\ req[q] \in Request /\ req[q].key # k
  <2>1. At(q, "queued") /\ q \notin Followers(k) /\ req[q] \in Request
    BY <1>6, Typed DEF Waiting, Followers, At, FlightOK
  <2>2. req'[q] = Grant(req, granted)[q]
    BY <1>4, <2>1
  <2>3. req'[q] = [req[q] EXCEPT !.at = "render"]
    BY <1>6, <2>2 DEF Grant
  <2>4. call[req[q].key].winner = q
    BY <2>1 DEF FlightOK, OneWinnerAtWork, Busy, At
  <2> QED BY <1>2, <2>1, <2>3, <2>4
<1>7. ASSUME NEW q \in Asker \ {p}, q \notin granted
      PROVE  IF q \in Followers(k) THEN At(q, "joined") /\ req[q].key = k /\ req'[q] = None
             ELSE req'[q] = req[q]
  BY <1>4, <1>7 DEF Grant, Followers
<1>8. Requests'
  <2>1. \A x \in Request : /\ [x EXCEPT !.at = "leave"] \in Request
                           /\ [x EXCEPT !.at = "render"] \in Request
    BY DEF Request
  <2>2. \A q \in Asker : req'[q] \in Request \cup {None}
    <3> TAKE q \in Asker
    <3>1. req[q] \in Request \cup {None}
      BY DEF FlightOK, Requests
    <3>2. CASE q = p
      BY <1>1, <1>5, <2>1, <3>2
    <3>3. CASE q # p /\ q \in granted
      BY <1>6, <2>1, <3>3
    <3>4. CASE q # p /\ q \notin granted
      BY <1>7, <3>1, <3>4
    <3> QED BY <3>2, <3>3, <3>4
  <2>3. req' \in [Asker -> Request \cup {None}]
    BY <1>4, <2>2
  <2>4. [call[k] EXCEPT !.result = r] \in Call
    BY <1>2 DEF Call
  <2>5. call' \in [Key -> Call \cup {None}]
    BY <1>3, <2>4 DEF FlightOK, Requests
  <2> QED BY <2>3, <2>5 DEF Requests
<1>9. r # None /\ [call[k] EXCEPT !.result = r] # None /\ req'[p] # None
  <2>1. [call[k] EXCEPT !.result = r] \in Call /\ [req[p] EXCEPT !.at = "leave"] \in Request
    BY <1>1, <1>2 DEF Call, Request
  <2> QED BY <1>5, <2>1, NoneAssumption
<1>10. /\ call'[k] # None /\ call'[k].winner = p /\ call'[k].result # None
       /\ \A l \in Key : l # k => call'[l] = call[l]
  BY <1>1, <1>2, <1>3, <1>9 DEF FlightOK, Requests, Call
<1>11. req'[p] # None /\ req'[p].key = k /\ req'[p].at = "leave"
  BY <1>1, <1>5, <1>9 DEF Request, k
<1>12. ASSUME NEW l \in Key, call'[l] # None
       PROVE  LET q == call'[l].winner IN
              /\ req'[q] # None /\ req'[q].key = l
              /\ req'[q].at # "ask" /\ req'[q].at # "joined"
              /\ call'[l].result # None <=> req'[q].at = "leave"
  <2>1. CASE l = k
    BY <1>10, <1>11, <2>1
  <2>2. CASE l # k
    <3> DEFINE q == call[l].winner
    <3>1. call'[l] = call[l] /\ call[l] # None
      BY <1>10, <1>12, <2>2
    <3>2. q \in Asker /\ req[q] # None /\ req[q].key = l
          /\ ~At(q, "ask") /\ ~At(q, "joined")
          /\ (call[l].result # None <=> At(q, "leave"))
      BY <3>1, Typed DEF FlightOK, CallsOK
    <3> HIDE DEF q
    <3>3. q # p
      BY <2>2, <3>2 DEF k
    <3>4. CASE q \in granted
      <4>1. /\ req'[q] = [req[q] EXCEPT !.at = "render"] /\ req[q] \in Request
            /\ At(q, "queued")
        BY <1>6, <3>2, <3>3, <3>4 DEF Waiting
      <4>2. req'[q].key = l /\ req'[q].at = "render" /\ req'[q] \in Request
        BY <3>2, <4>1 DEF Request
      <4>3. req'[q] # None
        BY <4>2, NoneAssumption
      <4>4. call[l].result = None
        BY <3>2, <4>1 DEF At
      <4> QED BY <3>1, <4>2, <4>3, <4>4 DEF q
    <3>5. CASE q \notin granted
      <4>1. req'[q] = req[q]
        BY <1>7, <3>2, <3>3, <3>5
      <4> QED BY <3>1, <3>2, <4>1 DEF q, At
    <3> QED BY <3>4, <3>5
  <2> QED BY <2>1, <2>2
<1>13. ASSUME NEW q \in Asker, req'[q] # None
       PROVE  LET c == call'[req'[q].key] IN
              /\ req'[q].at = "joined" => c # None /\ c.result = None
              /\ req'[q].at # "ask" /\ req'[q].at # "joined" => c # None /\ c.winner = q
  <2>1. CASE q = p
    BY <1>10, <1>11, <2>1
  <2>2. CASE q # p /\ q \in granted
    <3>1. /\ req'[q] = [req[q] EXCEPT !.at = "render"] /\ req[q] \in Request
          /\ req[q].key # k /\ At(q, "queued")
      BY <1>6, <2>2 DEF Waiting
    <3>2. req'[q].key = req[q].key /\ req'[q].at = "render" /\ req[q].key \in Key
      BY <3>1 DEF Request
    <3>3. call[req[q].key] # None /\ call[req[q].key].winner = q
      BY <3>1 DEF FlightOK, OneWinnerAtWork, Busy, At
    <3> QED BY <1>10, <3>1, <3>2, <3>3
  <2>3. CASE q # p /\ q \notin granted
    <3>1. req'[q] = req[q] /\ q \notin Followers(k) /\ req[q] # None /\ req[q].key \in Key
      BY <1>7, <1>13, <2>3, Typed DEF FlightOK
    <3>2. LET c == call[req[q].key] IN
          /\ req[q].at = "joined" => c # None /\ c.result = None
          /\ req[q].at # "ask" /\ req[q].at # "joined" => c # None /\ c.winner = q
      BY <3>1 DEF FlightOK, OneWinnerAtWork, Busy, At
    <3>3. req[q].at = "joined" => req[q].key # k
      BY <3>1 DEF Followers, At
    <3>4. req[q].at # "ask" /\ req[q].at # "joined" => req[q].key # k
      BY <1>2, <2>3, <3>2
    <3>5. req[q].at # "ask" => call'[req[q].key] = call[req[q].key]
      BY <1>10, <3>1, <3>3, <3>4
    <3> QED BY <3>1, <3>2, <3>5
  <2> QED BY <2>1, <2>2, <2>3
<1>14. CallsOK'
  BY <1>12 DEF CallsOK, At
<1>15. OneWinnerAtWork'
  BY <1>13 DEF OneWinnerAtWork, Busy, At
<1>16. ASSUME NEW q \in Asker \ {p}
       PROVE  IF q \in granted THEN req'[q] = [req[q] EXCEPT !.at = "render"] /\ req[q] \in Request
              ELSE req'[q] = req[q] \/ (At(q, "joined") /\ req'[q] = None)
  BY <1>6, <1>7
<1> QED BY <1>1, <1>5, <1>8, <1>14, <1>15, <1>16 DEF FlightOK

------------------------------------------------------------------------------
(* The slots, and the warm-up's own work. *)

LEMMA Capacities == Parallelism \subseteq Nat \ {0}
  BY ThumbsAssumption

\* Nobody starts or stops rendering.
LEMMA SlotsStay ==
  ASSUME SlotsOK, inUse' = inUse, capacity' = capacity,
         \A p \in Asker : At(p, "render") <=> req'[p] # None /\ req'[p].at = "render",
         inUse < capacity => queue' = <<>>
  PROVE  SlotsOK'
<1>1. Rendering' = Rendering
  BY DEF Rendering, At
<1> QED BY <1>1 DEF SlotsOK

\* Neither the queue nor who holds a slot changes.
LEMMA SchedStays ==
  ASSUME QueueOK, SlotsOK, UNCHANGED schedVars,
         \A p \in Asker : At(p, "queued") =>
             req'[p] # None /\ req'[p].at = "queued" /\ req'[p].urgent = req[p].urgent,
         \A p \in Asker : At(p, "render") <=> req'[p] # None /\ req'[p].at = "render"
  PROVE  QueueOK' /\ SlotsOK'
<1>1. queue' = queue /\ inUse' = inUse /\ capacity' = capacity
  BY DEF schedVars
<1>2. InOrder(queue')
  BY <1>1, ItselfInOrder DEF QueueOK
<1>3. \A i \in DOMAIN queue : queue[i] \in Asker /\ At(queue[i], "queued")
  BY DEF QueueOK, QueueTyped
<1>4. QueueOK'
  BY <1>1, <1>2, <1>3, QueueStays
<1>5. SlotsOK'
  BY <1>1, SlotsStay DEF SlotsOK
<1> QED BY <1>4, <1>5

\* Free slots are handed to the front of the queue: those who render afterwards
\* are counted, and a slot left free leaves nobody waiting.
LEMMA SlotsPumped ==
  ASSUME QueueTyped(queue), NEW base, IsFiniteSet(base), capacity' \in Parallelism,
         NEW granted, granted = Granted(queue, capacity' - Cardinality(base)),
         queue' = Rest(queue, capacity' - Cardinality(base)),
         base \cap granted = {}, Rendering' = base \cup granted,
         inUse' = Cardinality(base) + Cardinality(granted)
  PROVE  SlotsOK' /\ (granted # {} => inUse' <= capacity')
<1> DEFINE n == capacity' - Cardinality(base)
<1>1. capacity' \in Nat /\ Cardinality(base) \in Nat
  BY Capacities, FS_CardinalityType
<1>2. n \in Int
  BY <1>1
<1>3. /\ IsFiniteSet(granted) /\ Cardinality(granted) \in Nat
      /\ granted # {} => Cardinality(granted) <= n
      /\ queue' # <<>> => Cardinality(granted) >= n
  BY <1>2, RestInOrder
<1>4. IsFiniteSet(base \cup granted)
      /\ Cardinality(base \cup granted) = Cardinality(base) + Cardinality(granted)
  <2>1. /\ IsFiniteSet(base \cup granted)
        /\ Cardinality(base \cup granted)
              = Cardinality(base) + Cardinality(granted) - Cardinality(base \cap granted)
    BY <1>3, FS_Union
  <2>2. Cardinality(base \cap granted) = 0
    BY FS_EmptySet
  <2> QED BY <1>1, <1>3, <2>1, <2>2
<1>5. IsFiniteSet(Rendering') /\ inUse' = Cardinality(Rendering')
  BY <1>4
<1>6. inUse' < capacity' => queue' = <<>>
  BY <1>1, <1>3
<1>7. granted # {} => inUse' <= capacity'
  BY <1>1, <1>3
<1> QED BY <1>5, <1>6, <1>7 DEF SlotsOK

\* The warm-up has no more out than before.
LEMMA WarmStays ==
  ASSUME WarmOK, warm'.running = warm.running, warm'.width = warm.width, warm \in WarmUp,
         \A p \in Worker : req'[p] # None => req[p] # None
  PROVE  WarmOK'
<1>1. Outstanding' \subseteq Outstanding
  BY DEF Outstanding, Busy, Asker
<1>2. /\ IsFiniteSet(Outstanding') /\ Cardinality(Outstanding') <= Cardinality(Outstanding)
      /\ Cardinality(Outstanding) \in Nat /\ Cardinality(Outstanding') \in Nat
  BY <1>1, FS_Subset, FS_CardinalityType DEF WarmOK
<1>3. warm.width \in Nat
  BY DEF WarmUp
<1>4. Outstanding' # {} => warm.running /\ Cardinality(Outstanding) <= warm.width
  BY <1>1 DEF WarmOK, WarmupOwnsItsWork
<1> QED BY <1>2, <1>3, <1>4 DEF WarmOK, WarmupOwnsItsWork

\* What a change of one request's place, or of others' wishes, leaves alone.
LEMMA RequestAt ==
  ASSUME NEW x \in Request, NEW to \in {"ask", "won", "joined", "acquire", "queued", "render", "leave"}
  PROVE  LET y == [x EXCEPT !.at = to] IN
         /\ y \in Request /\ y # None
         /\ y.at = to /\ y.key = x.key /\ y.urgent = x.urgent /\ y.live = x.live
<1> DEFINE y == [x EXCEPT !.at = to]
<1>1. y \in Request /\ y.at = to /\ y.key = x.key /\ y.urgent = x.urgent /\ y.live = x.live
  BY DEF Request
<1>2. y # None
  BY <1>1, NoneAssumption
<1> QED BY <1>1, <1>2

\* One asker goes on, the others stay where they are.
LEMMA Gone ==
  ASSUME Requests, NEW p \in Asker, NEW from, At(p, from),
         NEW to \in {"ask", "won", "joined", "acquire", "queued", "render", "leave"}, Go(p, to)
  PROVE  /\ req[p] \in Request /\ req'[p] \in Request /\ req'[p] # None
         /\ req'[p].at = to /\ req'[p].key = req[p].key
         /\ req'[p].urgent = req[p].urgent /\ req'[p].live = req[p].live
         /\ \A q \in Asker \ {p} : req'[q] = req[q]
         /\ req' \in [Asker -> Request \cup {None}]
<1>1. req[p] \in Request
  BY DEF Requests, At
<1>2. req' = [req EXCEPT ![p] = [req[p] EXCEPT !.at = to]]
  BY DEF Go
<1>3. req'[p] = [req[p] EXCEPT !.at = to] /\ \A q \in Asker \ {p} : req'[q] = req[q]
  BY <1>2 DEF Requests
<1>4. req' \in [Asker -> Request \cup {None}]
  BY <1>1, <1>2, RequestAt DEF Requests
<1>5. LET y == [req[p] EXCEPT !.at = to] IN
      /\ y \in Request /\ y # None
      /\ y.at = to /\ y.key = req[p].key /\ y.urgent = req[p].urgent /\ y.live = req[p].live
  <2> DEFINE x == req[p]
  <2>1. x \in Request
    BY <1>1
  <2> HIDE DEF x
  <2> DEFINE y == [x EXCEPT !.at = to]
  <2>2. y \in Request /\ y.at = to /\ y.key = x.key /\ y.urgent = x.urgent /\ y.live = x.live
    BY <2>1 DEF Request
  <2>3. y # None
    BY <2>2, NoneAssumption
  <2> QED BY <2>2, <2>3 DEF x
<1> QED BY <1>1, <1>3, <1>4, <1>5

------------------------------------------------------------------------------
(* One action at a time. *)

\* A new asker, or nobody new (Cache.ensure).
LEMMA BeginStep ==
  ASSUME Inv, NEW p \in Asker \ Busy, NEW k \in Key, Begin(p, k)
  PROVE  /\ FlightOK' /\ QueueOK' /\ SlotsOK'
         /\ \A q \in Asker \ {p} : req'[q] = req[q]
<1> DEFINE x == [at |-> "ask", key |-> k, dst |-> dir,
                 urgent |-> p \in Tile, live |-> p \in Tile \/ warm.live]
<1>1. req[p] = None
  BY DEF Busy
<1>2. call' = call /\ UNCHANGED schedVars
  BY DEF Begin
<1>3. req' = [req EXCEPT ![p] = x] \/ req' = req
  BY DEF Begin
<1>4. x \in Request /\ x # None
  <2>1. (p \in Tile \/ warm.live) \in BOOLEAN /\ (p \in Tile) \in BOOLEAN
    OBVIOUS
  <2>2. dir \in Dir
    BY DEF Inv, Others
  <2>3. x \in Request
    BY <2>1, <2>2 DEF Request
  <2> QED BY <2>3, NoneAssumption
<1>5. x.at = "ask"
  OBVIOUS
<1> HIDE DEF x
<1>6. req \in [Asker -> Request \cup {None}] /\ call \in [Key -> Call \cup {None}]
  BY DEF Inv, FlightOK, Requests
<1>7. /\ \A q \in Asker \ {p} : req'[q] = req[q]
      /\ req'[p] = None \/ (req'[p] = x)
      /\ req' \in [Asker -> Request \cup {None}]
  BY <1>1, <1>3, <1>4, <1>6
<1>8. Requests' /\ SameCalls
  BY <1>2, <1>6, <1>7 DEF Requests, SameCalls
<1>9. \A q \in Asker : Alike(q) \/ Outside(q)
  BY <1>1, <1>5, <1>7 DEF Alike, Outside
<1>10. FlightOK'
  BY <1>8, <1>9, Steady DEF Inv
<1>11. \A q \in Asker : /\ At(q, "queued") => /\ req'[q] # None /\ req'[q].at = "queued"
                                               /\ req'[q].urgent = req[q].urgent
                        /\ At(q, "render") <=> req'[q] # None /\ req'[q].at = "render"
  BY <1>1, <1>5, <1>7 DEF At
<1>12. QueueOK' /\ SlotsOK'
  BY <1>2, <1>11, SchedStays DEF Inv
<1> QED BY <1>7, <1>10, <1>12

LEMMA AskStep == ASSUME Inv, NEW p \in Tile, NEW k \in Key, Ask(p, k) PROVE Inv'
<1>1. p \in Asker \ Busy /\ Begin(p, k) /\ p \notin Worker
  BY ThumbsAssumption DEF Ask, Asker
<1>2. /\ FlightOK' /\ QueueOK' /\ SlotsOK'
      /\ \A q \in Asker \ {p} : req'[q] = req[q]
  BY <1>1, BeginStep
<1>3. warm' = warm /\ warm \in WarmUp
  BY DEF Ask, Inv, Others
<1>4. WarmOK'
  <2>1. \A q \in Worker : req'[q] # None => req[q] # None
    BY <1>1, <1>2 DEF Asker
  <2> QED BY <1>3, <2>1, WarmStays DEF Inv
<1>5. Others'
  <2>1. UNCHANGED <<dir, jpg, fail, warm, warmups, changes>> /\ asks' = asks + 1 /\ asks + changes < MaxAsks
    BY DEF Ask, Begin, diskVars
  <2> QED BY <2>1, ThumbsAssumption DEF Inv, Others
<1> QED BY <1>2, <1>4, <1>5 DEF Inv

LEMMA SpawnStep == ASSUME Inv, NEW p \in Worker, NEW k \in Key, Spawn(p, k) PROVE Inv'
<1>1. p \in Asker \ Busy /\ Begin(p, k) /\ p \notin Outstanding
  BY DEF Spawn, Outstanding, Asker
<1>2. /\ FlightOK' /\ QueueOK' /\ SlotsOK'
      /\ \A q \in Asker \ {p} : req'[q] = req[q]
  BY <1>1, BeginStep
<1>3. /\ warm' = [warm EXCEPT !.todo = warm.todo \ {k}] /\ warm \in WarmUp
      /\ warm.running /\ Cardinality(Outstanding) < warm.width
  BY DEF Spawn, Inv, Others
<1>4. warm' \in WarmUp /\ warm'.running = warm.running /\ warm'.width = warm.width
  BY <1>3 DEF WarmUp
<1>5. WarmOK'
  <2>1. Outstanding' \subseteq Outstanding \cup {p}
    BY <1>2 DEF Outstanding, Busy, Asker
  <2>2. /\ IsFiniteSet(Outstanding \cup {p})
        /\ Cardinality(Outstanding \cup {p}) = Cardinality(Outstanding) + 1
    BY <1>1, FS_AddElement DEF Inv, WarmOK
  <2>3. IsFiniteSet(Outstanding') /\ Cardinality(Outstanding') <= Cardinality(Outstanding) + 1
    BY <2>1, <2>2, FS_Subset
  <2>4. /\ Cardinality(Outstanding) \in Nat /\ Cardinality(Outstanding') \in Nat
        /\ warm.width \in Nat
    BY <1>3, <2>3, FS_CardinalityType DEF Inv, WarmOK, WarmUp
  <2> QED BY <1>3, <1>4, <2>3, <2>4 DEF WarmOK, WarmupOwnsItsWork
<1>6. Others'
  <2>1. UNCHANGED <<dir, jpg, fail, asks, warmups, changes>>
    BY DEF Spawn, Begin, diskVars
  <2> QED BY <1>4, <2>1 DEF Inv, Others
<1> QED BY <1>2, <1>5, <1>6 DEF Inv

\* Requests cancelled, and nothing else.
LEMMA CancelledStep ==
  ASSUME Inv, NEW S, req' = [q \in Asker |-> IF q \in S /\ req[q] # None THEN [req[q] EXCEPT !.live = FALSE]
                                             ELSE req[q]],
         UNCHANGED <<call, schedVars>>
  PROVE  /\ FlightOK' /\ QueueOK' /\ SlotsOK'
         /\ \A q \in Asker : req'[q] # None => req[q] # None
<1>1. req \in [Asker -> Request \cup {None}] /\ call \in [Key -> Call \cup {None}]
  BY DEF Inv, FlightOK, Requests
<1>2. ASSUME NEW q \in Asker
      PROVE  /\ req[q] = None => req'[q] = None
             /\ req[q] # None => /\ req'[q] \in Request /\ req'[q] # None
                                 /\ req'[q].at = req[q].at /\ req'[q].key = req[q].key
                                 /\ req'[q].urgent = req[q].urgent
  <2>1. CASE q \in S /\ req[q] # None
    <3>1. req[q] \in Request /\ req'[q] = [req[q] EXCEPT !.live = FALSE]
      BY <1>1, <2>1
    <3>2. /\ req'[q] \in Request /\ req'[q].at = req[q].at /\ req'[q].key = req[q].key
          /\ req'[q].urgent = req[q].urgent
      BY <3>1 DEF Request
    <3> QED BY <2>1, <3>2, NoneAssumption
  <2>2. CASE ~(q \in S /\ req[q] # None)
    <3>1. req'[q] = req[q]
      BY <2>2
    <3> QED BY <1>1, <3>1
  <2> QED BY <2>1, <2>2
<1>3. Requests' /\ SameCalls
  <2>1. \A q \in Asker : req'[q] \in Request \cup {None}
    BY <1>2
  <2>2. req' \in [Asker -> Request \cup {None}]
    BY <2>1
  <2> QED BY <1>1, <2>2 DEF Requests, SameCalls
<1>4. \A q \in Asker : Alike(q)
  BY <1>2 DEF Alike, Kind
<1>5. FlightOK'
  BY <1>3, <1>4, Steady DEF Inv
<1>6. QueueOK' /\ SlotsOK'
  BY <1>2, SchedStays DEF Inv, At
<1> QED BY <1>2, <1>5, <1>6

LEMMA AbortStep == ASSUME Inv, NEW p \in Tile, Abort(p) PROVE Inv'
<1>1. req \in [Asker -> Request \cup {None}] /\ p \in Asker /\ req[p] # None
  BY DEF Inv, FlightOK, Requests, Abort, Busy
<1>2. req' = [req EXCEPT ![p].live = FALSE]
  BY DEF Abort
<1>3. req' = [q \in Asker |-> IF q \in {p} /\ req[q] # None THEN [req[q] EXCEPT !.live = FALSE] ELSE req[q]]
  BY <1>1, <1>2
<1>4. UNCHANGED <<call, schedVars, diskVars, warm, bounds>>
  BY DEF Abort
<1>5. /\ FlightOK' /\ QueueOK' /\ SlotsOK'
      /\ \A q \in Asker : req'[q] # None => req[q] # None
  BY <1>3, <1>4, CancelledStep
<1>6. WarmOK'
  BY <1>4, <1>5, WarmStays DEF Inv, Others, Asker
<1>7. Others'
  BY <1>4 DEF Inv, Others, diskVars, bounds
<1> QED BY <1>5, <1>6, <1>7 DEF Inv

LEMMA CancelWarmupStep == ASSUME Inv, CancelWarmup PROVE Inv'
<1>1. req' = [q \in Asker |-> IF q \in Outstanding THEN [req[q] EXCEPT !.live = FALSE] ELSE req[q]]
  BY DEF CancelWarmup
<1>2. \A q \in Asker : q \in Outstanding <=> q \in Outstanding /\ req[q] # None
  BY DEF Outstanding, Busy
<1>3. req' = [q \in Asker |-> IF q \in Outstanding /\ req[q] # None
                              THEN [req[q] EXCEPT !.live = FALSE] ELSE req[q]]
  BY <1>1, <1>2
<1>4. UNCHANGED <<call, schedVars, diskVars, bounds>> /\ warm' = [warm EXCEPT !.live = FALSE]
  BY DEF CancelWarmup
<1>5. /\ FlightOK' /\ QueueOK' /\ SlotsOK'
      /\ \A q \in Asker : req'[q] # None => req[q] # None
  BY <1>3, <1>4, CancelledStep
<1>6. warm \in WarmUp /\ warm' \in WarmUp /\ warm'.running = warm.running /\ warm'.width = warm.width
  BY <1>4 DEF Inv, Others, WarmUp
<1>7. WarmOK'
  BY <1>5, <1>6, WarmStays DEF Inv, Asker
<1>8. Others'
  BY <1>4, <1>6 DEF Inv, Others, diskVars, bounds
<1> QED BY <1>5, <1>7, <1>8 DEF Inv

\* Requests, calls and slots are left alone.
LEMMA ApartStep ==
  ASSUME Inv, UNCHANGED <<req, call, schedVars>>
  PROVE  FlightOK' /\ QueueOK' /\ SlotsOK'
<1>1. Requests' /\ SameCalls
  BY DEF Inv, FlightOK, Requests, SameCalls
<1>2. \A q \in Asker : Alike(q)
  BY DEF Alike
<1>3. FlightOK'
  BY <1>1, <1>2, Steady DEF Inv
<1>4. QueueOK' /\ SlotsOK'
  BY SchedStays DEF Inv, At
<1> QED BY <1>3, <1>4

LEMMA StartWarmupStep == ASSUME Inv, NEW ids \in SUBSET Key, StartWarmup(ids) PROVE Inv'
<1>1. /\ UNCHANGED <<req, call, schedVars, diskVars, asks, changes>> /\ ~warm.running
      /\ warmups' = warmups + 1 /\ warmups < MaxWarmups
      /\ warm' = [running |-> TRUE, live |-> TRUE, todo |-> ids, width |-> capacity]
  BY DEF StartWarmup
<1>2. FlightOK' /\ QueueOK' /\ SlotsOK'
  BY <1>1, ApartStep
<1>3. Outstanding = {} /\ Outstanding' = Outstanding
  BY <1>1 DEF Inv, WarmOK, WarmupOwnsItsWork, Outstanding, Busy
<1>4. WarmOK'
  BY <1>3 DEF Inv, WarmOK, WarmupOwnsItsWork
<1>5. warm' \in WarmUp
  BY <1>1, Capacities DEF Inv, SlotsOK, WarmUp
<1>6. Others'
  BY <1>1, <1>5, ThumbsAssumption DEF Inv, Others, diskVars
<1> QED BY <1>2, <1>4, <1>6 DEF Inv

LEMMA StopWarmupStep == ASSUME Inv, StopWarmup PROVE Inv'
<1>1. UNCHANGED <<req, call, schedVars, diskVars, bounds>> /\ warm' = [warm EXCEPT !.todo = {}]
  BY DEF StopWarmup
<1>2. FlightOK' /\ QueueOK' /\ SlotsOK'
  BY <1>1, ApartStep
<1>3. warm \in WarmUp /\ warm' \in WarmUp /\ warm'.running = warm.running /\ warm'.width = warm.width
  BY <1>1 DEF Inv, Others, WarmUp
<1>4. WarmOK'
  BY <1>1, <1>3, WarmStays DEF Inv
<1>5. Others'
  BY <1>1, <1>3 DEF Inv, Others, diskVars, bounds
<1> QED BY <1>2, <1>4, <1>5 DEF Inv

LEMMA EndWarmupStep == ASSUME Inv, EndWarmup PROVE Inv'
<1>1. UNCHANGED <<req, call, schedVars, diskVars, bounds>> /\ warm' = Idle /\ Outstanding = {}
  BY DEF EndWarmup
<1>2. FlightOK' /\ QueueOK' /\ SlotsOK'
  BY <1>1, ApartStep
<1>3. Outstanding' = {}
  BY <1>1 DEF Outstanding, Busy
<1>4. WarmOK'
  BY <1>3, FS_EmptySet DEF WarmOK, WarmupOwnsItsWork
<1>5. warm' \in WarmUp
  BY <1>1 DEF Idle, WarmUp
<1>6. Others'
  BY <1>1, <1>5 DEF Inv, Others, diskVars, bounds
<1> QED BY <1>2, <1>4, <1>6 DEF Inv

\* Changes of the settings that leave the scheduler alone.
LEMMA DiskStep ==
  ASSUME Inv, UNCHANGED <<req, call, schedVars, warm, asks, warmups>>, Change,
         dir' \in Dir, jpg' \subseteq jpg, fail' \subseteq fail
  PROVE  Inv'
<1>1. FlightOK' /\ QueueOK' /\ SlotsOK'
  BY ApartStep
<1>2. WarmOK'
  BY WarmStays DEF Inv, Others
<1>3. Others'
  BY ThumbsAssumption DEF Inv, Others, Change
<1> QED BY <1>1, <1>2, <1>3 DEF Inv

\* The winner settles its call without a slot; it may have left the queue.
LEMMA SettleStep ==
  ASSUME Inv, NEW p \in Asker, NEW r \in Result, Settle(p, r, {}),
         At(p, "won") \/ At(p, "acquire") \/ At(p, "queued"),
         InOrder(queue'),
         \A i \in DOMAIN queue' : queue'[i] # p /\ At(queue'[i], "queued"),
         queue = <<>> => queue' = <<>>,
         UNCHANGED <<inUse, capacity, diskVars, warm, bounds>>
  PROVE  Inv' /\ \A q \in Asker : At(q, "queued") => req'[q].at # "render"
<1>1. FlightOK /\ {} \in SUBSET Waiting /\ p \notin {}
  BY DEF Inv
<1>2. /\ FlightOK' /\ req'[p] = [req[p] EXCEPT !.at = "leave"] /\ req[p] \in Request
      /\ \A q \in Asker \ {p} :
           IF q \in {} THEN req'[q] = [req[q] EXCEPT !.at = "render"] /\ req[q] \in Request
           ELSE req'[q] = req[q] \/ (At(q, "joined") /\ req'[q] = None)
  <2> DEFINE g == {}
  <2>1. g \in SUBSET Waiting /\ p \notin g /\ Settle(p, r, g)
    OBVIOUS
  <2> HIDE DEF g
  <2>2. /\ FlightOK'
        /\ req'[p] = [req[p] EXCEPT !.at = "leave"] /\ req[p] \in Request
        /\ \A q \in Asker \ {p} :
             IF q \in g THEN req'[q] = [req[q] EXCEPT !.at = "render"] /\ req[q] \in Request
             ELSE req'[q] = req[q] \/ (At(q, "joined") /\ req'[q] = None)
    BY <1>1, <2>1, Settled
  <2> QED BY <2>2 DEF g
<1>3. req'[p] # None /\ req'[p].at = "leave"
  <2>1. req'[p] \in Request /\ req'[p].at = "leave"
    BY <1>2 DEF Request
  <2> QED BY <2>1, NoneAssumption
<1>4. \A q \in Asker \ {p} : req'[q] = req[q] \/ (At(q, "joined") /\ req'[q] = None)
  BY <1>2
<1>5. \A q \in Asker : At(q, "render") <=> req'[q] # None /\ req'[q].at = "render"
  BY <1>3, <1>4 DEF At
<1>6. \A q \in Asker : At(q, "queued") => req'[q].at # "render"
  BY <1>3, <1>4 DEF At
<1>7. QueueOK'
  <2>1. ASSUME NEW i \in DOMAIN queue'
        PROVE  LET q == queue'[i] IN
               req'[q] # None /\ req'[q].at = "queued" /\ req'[q].urgent = req[q].urgent
    <3>1. queue'[i] \in Asker \ {p} /\ At(queue'[i], "queued")
      BY DEF InOrder, QueueTyped
    <3>2. req'[queue'[i]] = req[queue'[i]]
      BY <1>4, <3>1 DEF At
    <3> QED BY <3>1, <3>2 DEF At
  <2> QED BY <2>1, QueueStays DEF Inv
<1>8. SlotsOK'
  BY <1>5, SlotsStay DEF Inv, SlotsOK
<1>9. WarmOK'
  <2>1. \A q \in Worker : req'[q] # None => req[q] # None
    BY <1>2, <1>4, NoneAssumption DEF Asker
  <2> QED BY <2>1, WarmStays DEF Inv, Others
<1>10. Others'
  BY DEF Inv, Others, diskVars, bounds
<1> QED BY <1>2, <1>6, <1>7, <1>8, <1>9, <1>10 DEF Inv

\* A winner goes on; its call stands.
LEMMA GoneFlight ==
  ASSUME Inv, NEW p \in Asker, NEW from \in {"won", "acquire", "queued", "render"}, At(p, from),
         NEW to \in {"won", "acquire", "queued", "render"}, Go(p, to),
         SameCalls, call' \in [Key -> Call \cup {None}],
         warm' = warm
  PROVE  /\ FlightOK' /\ WarmOK'
         /\ req'[p] # None /\ req'[p].at = to /\ req'[p].urgent = req[p].urgent
         /\ \A q \in Asker \ {p} : req'[q] = req[q]
<1>1. /\ req[p] \in Request /\ req'[p] \in Request /\ req'[p] # None
      /\ req'[p].at = to /\ req'[p].key = req[p].key /\ req'[p].urgent = req[p].urgent
      /\ \A q \in Asker \ {p} : req'[q] = req[q]
      /\ req' \in [Asker -> Request \cup {None}]
  BY Gone DEF Inv, FlightOK
<1>2. Requests'
  BY <1>1 DEF Requests
<1>3. \A q \in Asker : Alike(q)
  BY <1>1 DEF Alike, Kind, At
<1>4. FlightOK'
  BY <1>2, <1>3, Steady DEF Inv
<1>5. WarmOK'
  BY <1>1, WarmStays DEF Inv, Others, Asker, At
<1> QED BY <1>1, <1>4, <1>5

LEMMA CheckStep ==
  ASSUME Inv, NEW p \in Asker, Check(p)
  PROVE  Inv' /\ \A q \in Asker : At(q, "queued") /\ req'[q] # None => req'[q].at # "render"
<1>1. At(p, "won") /\ UNCHANGED <<schedVars, diskVars, warm, bounds>>
  BY DEF Check
<1>2. queue' = queue /\ inUse' = inUse /\ capacity' = capacity
  BY <1>1 DEF schedVars
<1>3. InOrder(queue') /\ \A i \in DOMAIN queue' : queue'[i] # p /\ At(queue'[i], "queued")
  BY <1>1, <1>2, ItselfInOrder DEF Inv, QueueOK, At
<1>4. CASE \E r \in Result : Settle(p, r, {})
  BY <1>1, <1>2, <1>3, <1>4, SettleStep
<1>5. CASE Go(p, "acquire") /\ call' = [call EXCEPT ![req[p].key].hook = TRUE]
  <2>1. req[p] # None /\ req[p].key \in Key /\ call[req[p].key] # None /\ call[req[p].key] \in Call
    BY <1>1, Typed DEF Inv, FlightOK, OneWinnerAtWork, Busy, At, Requests
  <2> DEFINE k == req[p].key
             c == [call[k] EXCEPT !.hook = TRUE]
  <2>2. call' = [call EXCEPT ![k] = c]
    BY <1>5
  <2>3. c \in Call /\ c.winner = call[k].winner /\ c.result = call[k].result
    BY <2>1 DEF Call
  <2>4. c # None
    BY <2>3, NoneAssumption
  <2>5. call \in [Key -> Call \cup {None}]
    BY DEF Inv, FlightOK, Requests
  <2> HIDE DEF c
  <2>6. SameCalls /\ call' \in [Key -> Call \cup {None}]
    BY <2>1, <2>2, <2>3, <2>4, <2>5 DEF SameCalls
  <2>7. /\ FlightOK' /\ WarmOK'
        /\ req'[p] # None /\ req'[p].at = "acquire" /\ req'[p].urgent = req[p].urgent
        /\ \A q \in Asker \ {p} : req'[q] = req[q]
    BY <1>1, <1>5, <2>6, GoneFlight
  <2>8. /\ \A q \in Asker : At(q, "queued") =>
               req'[q] # None /\ req'[q].at = "queued" /\ req'[q].urgent = req[q].urgent
        /\ \A q \in Asker : At(q, "render") <=> req'[q] # None /\ req'[q].at = "render"
    BY <1>1, <2>7 DEF At
  <2>9. QueueOK' /\ SlotsOK'
    BY <1>1, <2>8, SchedStays DEF Inv
  <2>10. Others'
    BY <1>1 DEF Inv, Others, diskVars, bounds
  <2> QED BY <2>7, <2>8, <2>9, <2>10 DEF Inv
<1> QED BY <1>4, <1>5 DEF Check, Result

LEMMA AcquireStep ==
  ASSUME Inv, NEW p \in Asker, Acquire(p)
  PROVE  Inv' /\ \A q \in Asker : At(q, "queued") /\ req'[q] # None => req'[q].at # "render"
<1>1. At(p, "acquire") /\ UNCHANGED <<capacity, diskVars, warm, bounds>>
  BY DEF Acquire
<1>2. \A i \in DOMAIN queue : queue[i] # p /\ At(queue[i], "queued")
  BY <1>1 DEF Inv, QueueOK, At
<1>3. CASE Settle(p, "cancelled", {}) /\ UNCHANGED <<queue, inUse>>
  <2>1. InOrder(queue')
    BY <1>3, ItselfInOrder DEF Inv, QueueOK
  <2> QED BY <1>1, <1>2, <1>3, <2>1, SettleStep DEF Result
<1>4. Requests /\ (call' = call => SameCalls /\ call' \in [Key -> Call \cup {None}])
  BY DEF Inv, FlightOK, Requests, SameCalls
<1>5. Others'
  BY <1>1 DEF Inv, Others, diskVars, bounds
<1>6. CASE /\ inUse < capacity /\ queue = <<>> /\ call' = call
           /\ inUse' = inUse + 1 /\ Go(p, "render") /\ queue' = queue
  <2>1. /\ FlightOK' /\ WarmOK'
        /\ req'[p] # None /\ req'[p].at = "render"
        /\ \A q \in Asker \ {p} : req'[q] = req[q]
    BY <1>1, <1>4, <1>6, GoneFlight
  <2>2. QueueOK'
    BY <1>6 DEF Inv, QueueOK, QueueTyped
  <2>3. Rendering' = Rendering \cup {p} /\ p \notin Rendering
    BY <1>1, <2>1 DEF Rendering, At
  <2>4. /\ IsFiniteSet(Rendering \cup {p})
        /\ Cardinality(Rendering \cup {p}) = Cardinality(Rendering) + 1
    BY <2>3, FS_AddElement DEF Inv, SlotsOK
  <2>5. SlotsOK'
    BY <1>1, <1>6, <2>3, <2>4 DEF Inv, SlotsOK
  <2>6. \A q \in Asker : At(q, "queued") /\ req'[q] # None => req'[q].at # "render"
    BY <1>1, <2>1 DEF At
  <2> QED BY <1>5, <2>1, <2>2, <2>5, <2>6 DEF Inv
<1>7. CASE /\ ~(inUse < capacity /\ queue = <<>>) /\ call' = call
           /\ inUse' = inUse /\ Go(p, "queued") /\ queue' = Enqueue(p)
  <2>1. /\ FlightOK' /\ WarmOK'
        /\ req'[p] # None /\ req'[p].at = "queued" /\ req'[p].urgent = req[p].urgent
        /\ \A q \in Asker \ {p} : req'[q] = req[q]
    BY <1>1, <1>4, <1>7, GoneFlight
  <2>2. QueueOK'
    <3>1. CASE req[p].urgent
      <4>1. queue' = <<p>> \o queue /\ InOrder(queue)
        BY <1>7, <3>1, ItselfInOrder DEF Enqueue, Inv, QueueOK
      <4>2. \A i \in DOMAIN queue : queue[i] # p /\ req'[queue[i]] = req[queue[i]]
        BY <1>2, <2>1 DEF Inv, QueueOK, QueueTyped
      <4> QED BY <2>1, <3>1, <4>1, <4>2, QueueFronted DEF Inv
    <3>2. CASE ~req[p].urgent
      <4>1. queue' = Append(queue, p)
        BY <1>7, <3>2 DEF Enqueue
      <4> QED BY <1>2, <2>1, <3>2, <4>1, QueueAppended DEF Inv
    <3> QED BY <3>1, <3>2
  <2>3. \A q \in Asker : At(q, "render") <=> req'[q] # None /\ req'[q].at = "render"
    BY <1>1, <2>1 DEF At
  <2>4. SlotsOK'
    BY <1>1, <1>7, <2>3, SlotsStay DEF Inv, SlotsOK
  <2>5. \A q \in Asker : At(q, "queued") /\ req'[q] # None => req'[q].at # "render"
    BY <1>1, <2>1 DEF At
  <2> QED BY <1>5, <2>1, <2>2, <2>4, <2>5 DEF Inv
<1> QED BY <1>3, <1>6, <1>7 DEF Acquire

LEMMA GiveUpStep ==
  ASSUME Inv, NEW p \in Asker, GiveUp(p)
  PROVE  Inv' /\ \A q \in Asker : At(q, "queued") /\ req'[q] # None => req'[q].at # "render"
<1>1. /\ At(p, "queued") /\ queue' = Without(p) /\ Settle(p, "cancelled", {})
      /\ UNCHANGED <<inUse, capacity, diskVars, warm, bounds>>
  BY DEF GiveUp
<1>2. /\ InOrder(queue')
      /\ \A i \in DOMAIN queue' : queue'[i] # p /\ queue'[i] \in ToSet(queue)
      /\ queue = <<>> => queue' = <<>>
  BY <1>1, WithoutInOrder DEF Inv, QueueOK
<1>3. \A i \in DOMAIN queue' : At(queue'[i], "queued")
  BY <1>2 DEF Inv, QueueOK, ToSet
<1> QED BY <1>1, <1>2, <1>3, SettleStep DEF Result
\* flight.Do: a call opened, or one followed.
LEMMA OpenStep ==
  ASSUME Inv, NEW p \in Asker, At(p, "ask"), call[req[p].key] = None,
         call' = [call EXCEPT ![req[p].key] = Open(p)], Go(p, "won")
  PROVE  FlightOK'
<1> DEFINE k == req[p].key
<1>1. /\ req[p] \in Request /\ req'[p] # None
      /\ req'[p].at = "won" /\ req'[p].key = req[p].key
      /\ \A q \in Asker \ {p} : req'[q] = req[q]
      /\ req' \in [Asker -> Request \cup {None}]
  BY Gone DEF Inv, FlightOK
<1>2. k \in Key /\ call \in [Key -> Call \cup {None}]
  BY <1>1 DEF Inv, FlightOK, Requests, Request
<1>3. Open(p) \in Call /\ Open(p) # None /\ Open(p).winner = p /\ Open(p).result = None
  <2>1. Open(p) \in Call /\ Open(p).winner = p /\ Open(p).result = None
    BY DEF Open, Call
  <2> QED BY <2>1, NoneAssumption
<1>4. call' \in [Key -> Call \cup {None}] /\ call'[k] = Open(p) /\ \A l \in Key \ {k} : call'[l] = call[l]
  BY <1>2, <1>3
<1>5. Requests'
  BY <1>1, <1>4 DEF Requests
<1>6. ASSUME NEW l \in Key, call'[l] # None
      PROVE  LET q == call'[l].winner IN
             /\ req'[q] # None /\ req'[q].key = l
             /\ req'[q].at # "ask" /\ req'[q].at # "joined"
             /\ call'[l].result # None <=> req'[q].at = "leave"
  <2>1. CASE l = k
    BY <1>1, <1>3, <1>4, <2>1
  <2>2. CASE l # k
    <3> DEFINE q == call[l].winner
    <3>1. call'[l] = call[l] /\ call[l] # None
      BY <1>4, <1>6, <2>2
    <3>2. /\ q \in Asker /\ req[q] # None /\ req[q].key = l
          /\ ~At(q, "ask") /\ ~At(q, "joined")
          /\ (call[l].result # None <=> At(q, "leave"))
      BY <3>1, Typed DEF Inv, FlightOK, CallsOK
    <3>3. q # p
      BY <3>2
    <3> HIDE DEF q
    <3>4. req'[q] = req[q]
      BY <1>1, <3>2, <3>3
    <3> QED BY <3>1, <3>2, <3>4 DEF q, At
  <2> QED BY <2>1, <2>2
<1>7. ASSUME NEW q \in Asker, req'[q] # None
      PROVE  LET c == call'[req'[q].key] IN
             /\ req'[q].at = "joined" => c # None /\ c.result = None
             /\ req'[q].at # "ask" /\ req'[q].at # "joined" => c # None /\ c.winner = q
  <2>1. CASE q = p
    BY <1>1, <1>3, <1>4, <2>1
  <2>2. CASE q # p
    <3>1. req'[q] = req[q] /\ req[q] # None /\ req[q].key \in Key
      BY <1>1, <1>7, <2>2, Typed DEF Inv, FlightOK
    <3>2. LET c == call[req[q].key] IN
          /\ req[q].at = "joined" => c # None /\ c.result = None
          /\ req[q].at # "ask" /\ req[q].at # "joined" => c # None /\ c.winner = q
      BY <3>1 DEF Inv, FlightOK, OneWinnerAtWork, Busy, At
    <3>3. req[q].at = "ask" \/ req[q].key # k
      BY <3>2
    <3> QED BY <1>4, <3>1, <3>2, <3>3
  <2> QED BY <2>1, <2>2
<1>8. CallsOK'
  BY <1>6 DEF CallsOK, At
<1>9. OneWinnerAtWork'
  BY <1>7 DEF OneWinnerAtWork, Busy, At
<1> QED BY <1>5, <1>8, <1>9 DEF FlightOK

\* A follower that moves its winner to the front.
LEMMA BumpStep ==
  ASSUME Inv, NEW p \in Asker, At(p, "ask"), NEW w \in Asker,
         call[req[p].key] # None, call[req[p].key].winner = w, call[req[p].key].result = None,
         At(w, "acquire") \/ w \in ToSet(queue),
         req' = [req EXCEPT ![p].at = "joined", ![w].urgent = TRUE],
         queue' = Bumped(w), UNCHANGED <<call, inUse, capacity, hung>>
  PROVE  /\ FlightOK' /\ QueueOK' /\ SlotsOK'
         /\ \A q \in Asker : (req'[q] # None <=> req[q] # None)
                             /\ (At(q, "queued") => req'[q].at # "render")
<1>1. At(w, "acquire") \/ At(w, "queued")
  BY DEF Inv, QueueOK, ToSet
<1>2. p # w /\ req[p] \in Request /\ req[w] \in Request /\ req \in [Asker -> Request \cup {None}]
  BY <1>1 DEF Inv, FlightOK, Requests, At
<1> DEFINE x == [req[p] EXCEPT !.at = "joined"]
           y == [req[w] EXCEPT !.urgent = TRUE]
<1>3. req'[p] = x /\ req'[w] = y /\ \A q \in Asker \ {p, w} : req'[q] = req[q]
  BY <1>2
<1>4. x \in Request /\ x.at = "joined" /\ x.key = req[p].key
  BY <1>2 DEF Request
<1>5. y \in Request /\ y.at = req[w].at /\ y.key = req[w].key /\ y.urgent = TRUE
  BY <1>2 DEF Request
<1>6. x # None /\ y # None /\ req[p] # None /\ req[w] # None
  BY <1>2, <1>4, <1>5, NoneAssumption
<1>7. req' \in [Asker -> Request \cup {None}]
  <2>1. req' = [[req EXCEPT ![p] = x] EXCEPT ![w] = y]
    BY <1>2
  <2> HIDE DEF x, y
  <2> QED BY <1>2, <1>4, <1>5, <2>1
<1> HIDE DEF x, y
<1>8. Requests' /\ SameCalls
  BY <1>7 DEF Inv, FlightOK, Requests, SameCalls
<1>9. \A q \in Asker : Alike(q) \/ Joins(q)
  <2>1. Joins(p)
    BY <1>3, <1>4, <1>6 DEF Joins
  <2>2. Alike(w)
    BY <1>3, <1>5, <1>6 DEF Alike, Kind
  <2>3. \A q \in Asker \ {p, w} : Alike(q)
    BY <1>3 DEF Alike
  <2> QED BY <2>1, <2>2, <2>3
<1>10. FlightOK'
  BY <1>8, <1>9, Steady DEF Inv
<1>11. ASSUME NEW q \in Asker
       PROVE  At(q, "render") <=> req'[q] # None /\ req'[q].at = "render"
  <2>1. CASE q = p
    BY <1>3, <1>4, <1>6, <2>1 DEF At
  <2>2. CASE q = w
    BY <1>3, <1>5, <1>6, <2>2 DEF At
  <2>3. CASE q \notin {p, w}
    BY <1>3, <2>3 DEF At
  <2> QED BY <2>1, <2>2, <2>3
<1>12. ASSUME w \in ToSet(queue) PROVE QueueOK' /\ SlotsOK'
  <2>1. queue' = <<w>> \o Without(w)
    BY <1>12 DEF Bumped
  <2>2. /\ InOrder(Without(w))
        /\ \A i \in DOMAIN Without(w) : Without(w)[i] # w /\ Without(w)[i] \in ToSet(queue)
    BY WithoutInOrder DEF Inv, QueueOK
  <2>3. ASSUME NEW i \in DOMAIN Without(w) PROVE req'[Without(w)[i]] = req[Without(w)[i]]
    <3>1. Without(w)[i] \in Asker /\ At(Without(w)[i], "queued") /\ Without(w)[i] # w
      BY <2>2 DEF Inv, QueueOK, QueueTyped, ToSet
    <3>2. Without(w)[i] # p
      BY <3>1 DEF At
    <3> QED BY <1>3, <3>1, <3>2
  <2>4. At(w, "queued")
    BY <1>12 DEF Inv, QueueOK, ToSet
  <2>5. req'[w] # None /\ req'[w].at = "queued" /\ req'[w].urgent
    BY <1>3, <1>5, <1>6, <2>4 DEF At
  <2>6. QueueOK'
    <3> DEFINE q == Without(w)
    <3>1. InOrder(q) /\ queue' = <<w>> \o q
      BY <2>1, <2>2
    <3>2. \A i \in DOMAIN q : q[i] # w /\ req'[q[i]] = req[q[i]]
      BY <2>2, <2>3
    <3>3. QueueOK
      BY DEF Inv
    <3> HIDE DEF q
    <3>4. \A i \in DOMAIN q : q[i] # w
      BY <3>2
    <3>5. \A i \in DOMAIN q : req'[q[i]] = req[q[i]]
      BY <3>2
    <3> QED BY <2>5, <3>1, <3>3, <3>4, <3>5, QueueFronted
  <2>7. queue # <<>>
    BY <1>12 DEF ToSet
  <2>8. SlotsOK'
    BY <1>11, <2>7, SlotsStay DEF Inv, SlotsOK
  <2> QED BY <2>6, <2>8
<1>13. ASSUME w \notin ToSet(queue) PROVE QueueOK' /\ SlotsOK'
  <2>1. UNCHANGED schedVars /\ At(w, "acquire")
    BY <1>13 DEF Bumped, schedVars
  <2>2. \A q \in Asker : At(q, "queued") =>
             req'[q] # None /\ req'[q].at = "queued" /\ req'[q].urgent = req[q].urgent
    BY <1>3, <2>1 DEF At
  <2> QED BY <1>11, <2>1, <2>2, SchedStays DEF Inv
<1>14. \A q \in Asker : (req'[q] # None <=> req[q] # None)
                        /\ (At(q, "queued") => req'[q].at # "render")
  <2> TAKE q \in Asker
  <2>1. CASE q = p
    BY <1>3, <1>4, <1>6, <2>1 DEF At
  <2>2. CASE q = w
    BY <1>3, <1>5, <1>6, <2>2 DEF At
  <2>3. CASE q \notin {p, w}
    BY <1>3, <2>3 DEF At
  <2> QED BY <2>1, <2>2, <2>3
<1> QED BY <1>10, <1>12, <1>13, <1>14

LEMMA EnterStep ==
  ASSUME Inv, NEW p \in Asker, Enter(p)
  PROVE  Inv' /\ \A q \in Asker : At(q, "queued") /\ req'[q] # None => req'[q].at # "render"
<1> DEFINE c == call[req[p].key]
<1>1. At(p, "ask") /\ UNCHANGED <<inUse, capacity, hung, diskVars, warm, bounds>>
  BY DEF Enter
<1>2. Requests /\ req[p] # None /\ req[p].key \in Key
  BY <1>1, Typed DEF Inv, FlightOK, At
<1>3. Others'
  BY <1>1 DEF Inv, Others, diskVars, bounds
<1>4. ASSUME /\ req'[p] = None \/ (req'[p].at # "queued" /\ req'[p].at # "render")
             /\ \A q \in Asker \ {p} : req'[q] = req[q]
             /\ queue' = queue /\ FlightOK'
      PROVE  Inv' /\ \A q \in Asker : At(q, "queued") /\ req'[q] # None => req'[q].at # "render"
  <2>1. UNCHANGED schedVars
    BY <1>1, <1>4 DEF schedVars
  <2>2. /\ \A q \in Asker : At(q, "queued") =>
               req'[q] # None /\ req'[q].at = "queued" /\ req'[q].urgent = req[q].urgent
        /\ \A q \in Asker : At(q, "render") <=> req'[q] # None /\ req'[q].at = "render"
    BY <1>1, <1>4 DEF At
  <2>3. QueueOK' /\ SlotsOK'
    BY <2>1, <2>2, SchedStays DEF Inv
  <2>4. WarmOK'
    <3>1. \A q \in Worker : req'[q] # None => req[q] # None
      BY <1>2, <1>4 DEF Asker
    <3> QED BY <1>1, <3>1, WarmStays DEF Inv, Others
  <2> QED BY <1>3, <1>4, <2>2, <2>3, <2>4 DEF Inv
<1>5. CASE /\ c = None /\ call' = [call EXCEPT ![req[p].key] = Open(p)]
           /\ Go(p, "won") /\ queue' = queue
  <2>1. FlightOK'
    BY <1>1, <1>5, OpenStep
  <2>2. req'[p].at = "won" /\ \A q \in Asker \ {p} : req'[q] = req[q]
    BY <1>1, <1>2, <1>5, Gone
  <2> QED BY <1>4, <1>5, <2>1, <2>2
<1>6. CASE c # None /\ req' = [req EXCEPT ![p] = None] /\ call' = call /\ queue' = queue
  <2>1. /\ req'[p] = None /\ \A q \in Asker \ {p} : req'[q] = req[q]
        /\ req' \in [Asker -> Request \cup {None}]
    BY <1>2, <1>6 DEF Requests
  <2>2. Requests' /\ SameCalls
    BY <1>2, <1>6, <2>1 DEF Requests, SameCalls
  <2>3. \A q \in Asker : Alike(q) \/ Outside(q)
    BY <1>1, <2>1 DEF Alike, Outside, At
  <2>4. FlightOK'
    BY <2>2, <2>3, Steady DEF Inv
  <2> QED BY <1>4, <1>6, <2>1, <2>4
<1>7. CASE c # None /\ c.result = None /\ call' = call /\ Go(p, "joined") /\ queue' = queue
  <2>1. /\ req'[p] # None /\ req'[p].at = "joined" /\ req'[p].key = req[p].key
        /\ \A q \in Asker \ {p} : req'[q] = req[q]
        /\ req' \in [Asker -> Request \cup {None}]
    BY <1>1, <1>2, <1>7, Gone
  <2>2. Requests' /\ SameCalls
    BY <1>2, <1>7, <2>1 DEF Requests, SameCalls
  <2>3. \A q \in Asker : Alike(q) \/ Joins(q)
    BY <1>1, <1>7, <2>1 DEF Alike, Joins
  <2>4. FlightOK'
    BY <2>2, <2>3, Steady DEF Inv
  <2> QED BY <1>4, <1>7, <2>1, <2>4
<1>8. CASE /\ c # None /\ c.result = None /\ call' = call
           /\ At(c.winner, "acquire") \/ c.winner \in ToSet(queue)
           /\ req' = [req EXCEPT ![p].at = "joined", ![c.winner].urgent = TRUE]
           /\ queue' = Bumped(c.winner)
  <2>1. c.winner \in Asker
    BY <1>2, <1>8, Typed
  <2>2. /\ FlightOK' /\ QueueOK' /\ SlotsOK'
        /\ \A q \in Asker : (req'[q] # None <=> req[q] # None)
                            /\ (At(q, "queued") => req'[q].at # "render")
    BY <1>1, <1>8, <2>1, BumpStep
  <2>3. WarmOK'
    BY <1>1, <2>2, WarmStays DEF Inv, Others, Asker
  <2> QED BY <1>3, <2>2, <2>3 DEF Inv
<1> QED BY <1>5, <1>6, <1>7, <1>8 DEF Enter
------------------------------------------------------------------------------
(* Slots handed out: pump, at a slot given back or a capacity changed. *)

\* Those in front who are still wanted get a slot; the rest stay.
LEMMA QueuePumped ==
  ASSUME QueueOK, NEW n \in Int, queue' = Rest(queue, n),
         \A q \in Asker : At(q, "queued") /\ q \notin Granted(queue, n) => req'[q] = req[q]
  PROVE  QueueOK'
<1>1. /\ InOrder(queue')
      /\ \A i \in DOMAIN queue' : queue'[i] \notin Granted(queue, n)
  BY RestInOrder DEF QueueOK
<1>2. ASSUME NEW i \in DOMAIN queue'
      PROVE  LET q == queue'[i] IN
             req'[q] # None /\ req'[q].at = "queued" /\ req'[q].urgent = req[q].urgent
  <2>1. queue'[i] \in Asker /\ At(queue'[i], "queued")
    BY <1>1 DEF InOrder, QueueTyped, QueueOK
  <2>2. req'[queue'[i]] = req[queue'[i]]
    BY <1>1, <2>1
  <2> QED BY <2>1, <2>2 DEF At
<1> QED BY <1>1, <1>2, QueueStays

\* Who is granted a slot still wants it, and is a tile unless every tile that
\* waits gets one too.
LEMMA GrantedFirst ==
  ASSUME QueueOK, NEW n \in Int, NEW p \in Granted(queue, n)
  PROVE  /\ req[p].live
         /\ req[p].urgent \/ \A q \in ToSet(queue) :
               req[q].live /\ req[q].urgent => q \in Granted(queue, n)
<1> DEFINE L == Len(queue)
<1>1. L \in Nat /\ DOMAIN queue = 1..L /\ QueueTyped(queue)
  BY DEF QueueOK, QueueTyped
<1>2. PICK m \in 0..L :
         Granted(queue, n) = {queue[i] : i \in {j \in 1..m : req[queue[j]].live}}
  BY <1>1, Pumped
<1>3. PICK i \in 1..m : p = queue[i] /\ req[queue[i]].live
  BY <1>2
<1>4. ASSUME NEW q \in ToSet(queue), req[q].live, req[q].urgent, ~req[p].urgent
      PROVE  q \in Granted(queue, n)
  <2>1. PICK j \in 1..L : q = queue[j]
    BY <1>1 DEF ToSet
  <2>2. i \in 1..L /\ ~(i < j)
    <3>1. L \in Nat /\ m \in 0..L
      BY <1>1
    <3>2. i \in 1..L
      <4> HIDE DEF L
      <4> QED BY <3>1
    <3>3. ~(i < j)
      BY <1>1, <1>3, <1>4, <2>1, <3>2 DEF QueueOK
    <3> QED BY <3>2, <3>3
  <2>3. j \in 1..m
    <3>1. L \in Nat /\ m \in 0..L /\ j \in 1..L
      BY <1>1, <2>1
    <3> HIDE DEF L
    <3> QED BY <2>2, <3>1
  <2> QED BY <1>2, <1>4, <2>1, <2>3
<1> QED BY <1>3, <1>4

\* What SlotsWellSpent says of a step that grants slots to `granted'.
WellSpent ==
    \A p \in ToSet(queue) : req'[p] # None /\ req'[p].at = "render" =>
      /\ inUse' <= capacity'
      /\ req[p].live
      /\ req[p].urgent \/ \A q \in ToSet(queue) :
            req[q].live /\ req[q].urgent => req'[q] # None /\ req'[q].at = "render"

LEMMA WellSpentByPump ==
  ASSUME QueueOK, NEW n \in Int, NEW granted, granted = Granted(queue, n),
         granted # {} => inUse' <= capacity',
         \A q \in Waiting : IF q \in granted THEN req'[q] # None /\ req'[q].at = "render"
                            ELSE req'[q] # None => req'[q].at # "render"
  PROVE  WellSpent
<1>1. ToSet(queue) \subseteq Waiting
  BY DEF QueueOK, QueueTyped, ToSet, Waiting
<1>2. ASSUME NEW p \in ToSet(queue), req'[p] # None, req'[p].at = "render"
      PROVE  /\ inUse' <= capacity'
             /\ req[p].live
             /\ req[p].urgent \/ \A q \in ToSet(queue) :
                   req[q].live /\ req[q].urgent => req'[q] # None /\ req'[q].at = "render"
  <2>1. p \in granted
    BY <1>1, <1>2
  <2>2. /\ req[p].live
        /\ req[p].urgent \/ \A q \in ToSet(queue) : req[q].live /\ req[q].urgent => q \in granted
    BY <2>1, GrantedFirst
  <2> QED BY <1>1, <2>1, <2>2
<1> QED BY <1>2 DEF WellSpent

LEMMA WellSpentByNobody ==
  ASSUME QueueOK, \A q \in Asker : At(q, "queued") /\ req'[q] # None => req'[q].at # "render"
  PROVE  WellSpent
<1>1. \A p \in ToSet(queue) : p \in Asker /\ At(p, "queued")
  BY DEF QueueOK, QueueTyped, ToSet
<1> QED BY <1>1 DEF WellSpent

LEMMA RenderStep == ASSUME Inv, NEW p \in Asker, Render(p) PROVE Inv' /\ WellSpent
<1>1. PICK granted \in SUBSET ToSet(queue) :
          /\ Release(granted)
          /\ \E r \in Result : Settle(p, r, granted)
  BY DEF Render, Result
<1>2. /\ At(p, "render") /\ UNCHANGED <<capacity, dir, warm, bounds>>
      /\ jpg' = jpg \/ jpg' = jpg \cup {<<req[p].dst, req[p].key>>}
      /\ fail' = fail \/ fail' = fail \cup {<<dir, req[p].key>>}
  BY DEF Render
<1>3. PICK r \in Result : Settle(p, r, granted)
  BY <1>1
<1> DEFINE base == Rendering \ {p}
           n == capacity' - Cardinality(base)
<1>4. /\ IsFiniteSet(base) /\ Cardinality(base) = inUse - 1 /\ Cardinality(base) \in Nat
      /\ inUse \in Nat /\ capacity \in Nat /\ n \in Int
  <2>1. p \in Rendering /\ IsFiniteSet(Rendering) /\ inUse = Cardinality(Rendering)
    BY <1>2 DEF Rendering, Inv, SlotsOK
  <2>2. /\ IsFiniteSet(base) /\ Cardinality(base) = Cardinality(Rendering) - 1
    BY <2>1, FS_RemoveElement
  <2>3. Cardinality(base) \in Nat /\ Cardinality(Rendering) \in Nat
    BY <2>1, <2>2, FS_CardinalityType
  <2>4. capacity \in Nat /\ capacity' = capacity
    BY <1>2, Capacities DEF Inv, SlotsOK
  <2> HIDE DEF base
  <2> QED BY <2>1, <2>2, <2>3, <2>4
<1>5. /\ granted = Granted(queue, n) /\ queue' = Rest(queue, n)
      /\ inUse' = Cardinality(base) + Cardinality(granted)
  <2>1. capacity - (inUse - 1) = n
    <3> HIDE DEF base
    <3> QED BY <1>2, <1>4
  <2> HIDE DEF n, base
  <2> QED BY <1>1, <1>4, <2>1 DEF Release
<1>6. granted \in SUBSET Waiting /\ p \notin granted
  <2>1. ToSet(queue) \subseteq Waiting
    BY DEF Inv, QueueOK, QueueTyped, ToSet, Waiting
  <2> QED BY <1>2, <2>1 DEF Waiting, At
<1>7. /\ FlightOK' /\ req'[p] = [req[p] EXCEPT !.at = "leave"] /\ req[p] \in Request
      /\ \A q \in Asker \ {p} :
           IF q \in granted THEN req'[q] = [req[q] EXCEPT !.at = "render"] /\ req[q] \in Request
           ELSE req'[q] = req[q] \/ (At(q, "joined") /\ req'[q] = None)
  BY <1>2, <1>3, <1>6, Settled DEF Inv
<1>8. req'[p] # None /\ req'[p].at = "leave"
  <2>1. req'[p] \in Request /\ req'[p].at = "leave"
    BY <1>7 DEF Request
  <2> QED BY <2>1, NoneAssumption
<1>9. ASSUME NEW q \in Asker \ {p}, q \in granted PROVE req'[q] # None /\ req'[q].at = "render"
  <2>1. req'[q] = [req[q] EXCEPT !.at = "render"] /\ req[q] \in Request
    BY <1>7, <1>9
  <2>2. req'[q] \in Request /\ req'[q].at = "render"
    BY <2>1 DEF Request
  <2> QED BY <2>2, NoneAssumption
<1>10. \A q \in Asker \ {p} : q \notin granted => req'[q] = req[q] \/ (At(q, "joined") /\ req'[q] = None)
  BY <1>7
<1>11. Rendering' = base \cup granted /\ base \cap granted = {}
  <2>1. \A q \in granted : q \in Asker \ {p} /\ ~At(q, "render")
    BY <1>6 DEF Waiting, At
  <2>2. \A q \in Asker : req'[q] # None /\ req'[q].at = "render" <=> q \in base \cup granted
    BY <1>8, <1>9, <1>10, <2>1 DEF Rendering, At
  <2> QED BY <2>1, <2>2 DEF Rendering, At
<1> HIDE DEF base
<1>12. SlotsOK' /\ (granted # {} => inUse' <= capacity')
  BY <1>2, <1>4, <1>5, <1>11, SlotsPumped DEF Inv, QueueOK, SlotsOK
<1> HIDE DEF n
<1>13. QueueOK'
  <2>1. \A q \in Asker : At(q, "queued") /\ q \notin Granted(queue, n) => req'[q] = req[q]
    BY <1>2, <1>5, <1>10 DEF At
  <2> QED BY <1>4, <1>5, <2>1, QueuePumped DEF Inv
<1>14. WellSpent
  <2>1. \A q \in Waiting : IF q \in granted THEN req'[q] # None /\ req'[q].at = "render"
                           ELSE req'[q] # None => req'[q].at # "render"
    BY <1>2, <1>6, <1>9, <1>10 DEF Waiting, At
  <2> QED BY <1>4, <1>5, <1>12, <2>1, WellSpentByPump DEF Inv
<1>15. WarmOK'
  <2>1. \A q \in Worker : req'[q] # None => req[q] # None
    <3> TAKE q \in Worker
    <3>1. \A x \in granted : req[x] # None
      BY <1>6 DEF Waiting, At
    <3> QED BY <1>2, <1>10, <3>1 DEF Asker, At
  <2> QED BY <1>2, <2>1, WarmStays DEF Inv, Others
<1>16. Others'
  <2>1. req[p].dst \in Dir /\ req[p].key \in Key
    BY <1>7 DEF Request
  <2> QED BY <1>2, <2>1 DEF Inv, Others, bounds
<1> QED BY <1>7, <1>12, <1>13, <1>14, <1>15, <1>16 DEF Inv

LEMMA SetParallelismStep ==
  ASSUME Inv, NEW c \in Parallelism, SetParallelism(c) PROVE Inv' /\ WellSpent
<1> DEFINE n == capacity' - Cardinality(Rendering)
           granted == Granted(queue, n)
<1>1. /\ capacity' = c /\ UNCHANGED <<call, diskVars, warm, asks, warmups>> /\ Change
      /\ inUse = Cardinality(Rendering) /\ inUse \in Nat /\ n \in Int /\ IsFiniteSet(Rendering)
  <2>1. IsFiniteSet(Rendering) /\ inUse = Cardinality(Rendering) /\ capacity' = c
    BY DEF Inv, SlotsOK, SetParallelism
  <2>2. Cardinality(Rendering) \in Nat /\ c \in Nat
    BY <2>1, Capacities, FS_CardinalityType
  <2> QED BY <2>1, <2>2 DEF SetParallelism
<1>2. /\ queue' = Rest(queue, n) /\ inUse' = Cardinality(Rendering) + Cardinality(granted)
      /\ req' = Grant(req, granted)
  BY <1>1 DEF SetParallelism
<1>3. granted \subseteq Waiting
  <2>1. granted \subseteq ToSet(queue)
    BY <1>1, RestInOrder DEF Inv, QueueOK
  <2> QED BY <2>1 DEF Inv, QueueOK, QueueTyped, ToSet, Waiting
<1> HIDE DEF granted
<1>4. ASSUME NEW q \in Asker, q \in granted
      PROVE  /\ req'[q] \in Request /\ req'[q] # None /\ req'[q].at = "render"
             /\ req'[q].key = req[q].key /\ At(q, "queued")
  <2>1. At(q, "queued") /\ req[q] \in Request
    BY <1>3, <1>4 DEF Waiting, At, Inv, FlightOK, Requests
  <2>2. req'[q] = [req[q] EXCEPT !.at = "render"]
    BY <1>2, <1>4 DEF Grant
  <2>3. req'[q] \in Request /\ req'[q].at = "render" /\ req'[q].key = req[q].key
    BY <2>1, <2>2 DEF Request
  <2> QED BY <2>1, <2>3, NoneAssumption
<1>5. \A q \in Asker : q \notin granted => req'[q] = req[q]
  BY <1>2 DEF Grant
<1>6. Requests' /\ SameCalls
  <2>1. \A q \in Asker : req'[q] \in Request \cup {None}
    BY <1>4, <1>5 DEF Inv, FlightOK, Requests
  <2>2. req' \in [Asker -> Request \cup {None}]
    BY <1>2, <2>1 DEF Grant
  <2> QED BY <1>1, <2>2 DEF Inv, FlightOK, Requests, SameCalls
<1>7. \A q \in Asker : Alike(q)
  BY <1>4, <1>5 DEF Alike, Kind, At
<1>8. FlightOK'
  BY <1>6, <1>7, Steady DEF Inv
<1>9. Rendering' = Rendering \cup granted /\ Rendering \cap granted = {}
  <2>1. \A q \in granted : q \in Asker /\ ~At(q, "render")
    BY <1>3 DEF Waiting, At
  <2>2. \A q \in Asker : req'[q] # None /\ req'[q].at = "render" <=> q \in Rendering \cup granted
    BY <1>4, <1>5 DEF Rendering, At
  <2> QED BY <2>1, <2>2 DEF Rendering, At
<1>10. SlotsOK' /\ (granted # {} => inUse' <= capacity')
  BY <1>1, <1>2, <1>9, SlotsPumped DEF Inv, QueueOK, granted
<1> HIDE DEF n
<1>11. QueueOK'
  BY <1>1, <1>2, <1>5, QueuePumped DEF Inv, granted
<1>12. WellSpent
  <2>1. \A q \in Waiting : IF q \in granted THEN req'[q] # None /\ req'[q].at = "render"
                           ELSE req'[q] # None => req'[q].at # "render"
    BY <1>4, <1>5 DEF Waiting, At
  <2> QED BY <1>1, <1>10, <2>1, WellSpentByPump DEF Inv, granted
<1>13. WarmOK'
  <2>1. \A q \in Worker : req'[q] # None => req[q] # None
    BY <1>4, <1>5 DEF Asker, At
  <2> QED BY <1>1, <2>1, WarmStays DEF Inv, Others
<1>14. Others'
  BY <1>1, ThumbsAssumption DEF Inv, Others, diskVars, Change
<1> QED BY <1>8, <1>10, <1>11, <1>12, <1>13, <1>14 DEF Inv
------------------------------------------------------------------------------
(* The invariant, and the theorems. *)

\* Nobody asks, nothing is open: the start, and what a restart comes back to.
LEMMA Restarted ==
  ASSUME req' = [p \in Asker |-> None], call' = [k \in Key |-> None], queue' = <<>>,
         inUse' = 0, capacity' \in Parallelism, warm' = Idle
  PROVE  FlightOK' /\ QueueOK' /\ SlotsOK' /\ WarmOK' /\ warm' \in WarmUp
<1>1. FlightOK'
  BY DEF FlightOK, Requests, CallsOK, OneWinnerAtWork, Busy
<1>2. QueueOK'
  BY DEF QueueOK, QueueTyped
<1>3. Rendering' = {} /\ Outstanding' = {}
  BY DEF Rendering, Outstanding, Busy, At
<1>4. SlotsOK' /\ WarmOK'
  BY <1>3, FS_EmptySet DEF SlotsOK, WarmOK, WarmupOwnsItsWork
<1>5. warm' \in WarmUp
  BY DEF Idle, WarmUp
<1> QED BY <1>1, <1>2, <1>4, <1>5

LEMMA RestartStep == ASSUME Inv, Restart PROVE Inv'
<1>1. FlightOK' /\ QueueOK' /\ SlotsOK' /\ WarmOK' /\ warm' \in WarmUp
  BY Restarted DEF Restart, Inv, SlotsOK
<1>2. Others'
  BY <1>1, ThumbsAssumption DEF Inv, Others, Restart, Change
<1> QED BY <1>1, <1>2 DEF Inv

LEMMA LeaveStep == ASSUME Inv, NEW p \in Asker, Leave(p) PROVE Inv'
<1> DEFINE k == req[p].key
<1>1. /\ At(p, "leave") /\ call' = [call EXCEPT ![k] = None] /\ req' = [req EXCEPT ![p] = None]
      /\ UNCHANGED <<schedVars, diskVars, warm, bounds>>
  BY DEF Leave
<1>2. /\ req \in [Asker -> Request \cup {None}] /\ call \in [Key -> Call \cup {None}]
      /\ req[p] # None /\ k \in Key
  BY <1>1, Typed DEF Inv, FlightOK, Requests, At
<1>3. /\ req'[p] = None /\ call'[k] = None
      /\ \A q \in Asker \ {p} : req'[q] = req[q]
      /\ \A l \in Key \ {k} : call'[l] = call[l]
  BY <1>1, <1>2
<1>4. Requests'
  BY <1>1, <1>2 DEF Requests
<1>5. call[k] # None /\ call[k].winner = p /\ call[k].result # None
  <2>1. call[k] # None /\ call[k].winner = p
    BY <1>1, <1>2 DEF Inv, FlightOK, OneWinnerAtWork, Busy, At
  <2> QED BY <1>1, <1>2, <2>1 DEF Inv, FlightOK, CallsOK
<1>6. ASSUME NEW l \in Key, call'[l] # None
      PROVE  LET q == call'[l].winner IN
             /\ req'[q] # None /\ req'[q].key = l
             /\ req'[q].at # "ask" /\ req'[q].at # "joined"
             /\ call'[l].result # None <=> req'[q].at = "leave"
  <2> DEFINE q == call[l].winner
  <2>1. l # k /\ call'[l] = call[l] /\ call[l] # None
    BY <1>3, <1>6
  <2>2. /\ q \in Asker /\ req[q] # None /\ req[q].key = l
        /\ ~At(q, "ask") /\ ~At(q, "joined")
        /\ (call[l].result # None <=> At(q, "leave"))
    BY <2>1, Typed DEF Inv, FlightOK, CallsOK
  <2>3. q # p
    BY <2>1, <2>2
  <2> HIDE DEF q
  <2>4. req'[q] = req[q]
    BY <1>3, <2>2, <2>3
  <2> QED BY <2>1, <2>2, <2>4 DEF q, At
<1>7. ASSUME NEW q \in Asker, req'[q] # None
      PROVE  LET c == call'[req'[q].key] IN
             /\ req'[q].at = "joined" => c # None /\ c.result = None
             /\ req'[q].at # "ask" /\ req'[q].at # "joined" => c # None /\ c.winner = q
  <2>1. q # p /\ req'[q] = req[q] /\ req[q] # None /\ req[q].key \in Key
    BY <1>3, <1>7, Typed DEF Inv, FlightOK
  <2>2. LET c == call[req[q].key] IN
        /\ req[q].at = "joined" => c # None /\ c.result = None
        /\ req[q].at # "ask" /\ req[q].at # "joined" => c # None /\ c.winner = q
    BY <2>1 DEF Inv, FlightOK, OneWinnerAtWork, Busy, At
  <2>3. req[q].at = "ask" \/ req[q].key # k
    BY <1>5, <2>1, <2>2
  <2> QED BY <1>3, <2>1, <2>2, <2>3
<1>8. CallsOK'
  BY <1>6 DEF CallsOK, At
<1>9. OneWinnerAtWork'
  BY <1>7 DEF OneWinnerAtWork, Busy, At
<1>10. QueueOK' /\ SlotsOK'
  <2>1. /\ \A q \in Asker : At(q, "queued") =>
               req'[q] # None /\ req'[q].at = "queued" /\ req'[q].urgent = req[q].urgent
        /\ \A q \in Asker : At(q, "render") <=> req'[q] # None /\ req'[q].at = "render"
    BY <1>1, <1>3 DEF At
  <2> QED BY <1>1, <2>1, SchedStays DEF Inv
<1>11. WarmOK'
  BY <1>1, <1>3, WarmStays DEF Inv, Others, Asker
<1>12. Others'
  BY <1>1 DEF Inv, Others, diskVars, bounds
<1> QED BY <1>4, <1>8, <1>9, <1>10, <1>11, <1>12 DEF Inv, FlightOK

LEMMA InitInv == Init => Inv
<1> SUFFICES ASSUME Init PROVE Inv
  OBVIOUS
<1>1. FlightOK
  BY DEF Init, FlightOK, Requests, CallsOK, OneWinnerAtWork, Busy
<1>2. QueueOK
  BY DEF Init, QueueOK, QueueTyped
<1>3. Rendering = {} /\ Outstanding = {}
  BY DEF Init, Rendering, Outstanding, Busy, At
<1>4. SlotsOK /\ WarmOK
  BY <1>3, FS_EmptySet DEF Init, SlotsOK, WarmOK, WarmupOwnsItsWork
<1>5. Others
  <2>1. dir \in Dir
    BY ThumbsAssumption DEF Init
  <2> QED BY <2>1, ThumbsAssumption DEF Init, Others, Idle, WarmUp
<1> QED BY <1>1, <1>2, <1>4, <1>5 DEF Inv

\* A tool that hangs changes nothing the invariant speaks of.
LEMMA HangStep == ASSUME Inv, NEW p \in Asker, Hang(p) PROVE Inv'
<1>1. UNCHANGED <<req, call, queue, inUse, capacity, diskVars, warm, bounds>>
  BY DEF Hang
<1>2. FlightOK'
  BY <1>1 DEF Inv, FlightOK, Requests, CallsOK, OneWinnerAtWork, At, Busy
<1>3. QueueOK'
  BY <1>1 DEF Inv, QueueOK, QueueTyped, At
<1>4. SlotsOK'
  BY <1>1 DEF Inv, SlotsOK, Rendering, At
<1>5. WarmOK'
  BY <1>1 DEF Inv, WarmOK, WarmupOwnsItsWork, Outstanding, Busy
<1>6. Others'
  BY <1>1 DEF Inv, Others, diskVars, bounds
<1> QED BY <1>2, <1>3, <1>4, <1>5, <1>6 DEF Inv

\* Every step keeps the invariant and hands slots out well.
LEMMA NextInv ==
  ASSUME Inv, [Next]_vars
  PROVE  Inv' /\ WellSpent
<1> QueueOK
  BY DEF Inv
<1>1. ASSUME req' = req PROVE WellSpent
  BY <1>1, WellSpentByNobody DEF At
<1>2. ASSUME NEW p \in Asker, Advance(p) PROVE Inv' /\ WellSpent
  <2>1. CASE Enter(p)
    BY <2>1, EnterStep, WellSpentByNobody
  <2>2. CASE Check(p)
    BY <2>2, CheckStep, WellSpentByNobody
  <2>3. CASE Acquire(p)
    BY <2>3, AcquireStep, WellSpentByNobody
  <2>4. CASE GiveUp(p)
    BY <2>4, GiveUpStep, WellSpentByNobody
  <2>5. CASE Render(p)
    BY <2>5, RenderStep
  <2>6. CASE Leave(p)
    <3>1. req' = [req EXCEPT ![p] = None]
      BY <2>6 DEF Leave
    <3>2. \A q \in Asker : At(q, "queued") /\ req'[q] # None => req'[q].at # "render"
      BY <3>1 DEF Inv, FlightOK, Requests, At
    <3> QED BY <2>6, <3>2, LeaveStep, WellSpentByNobody
  <2> QED BY <1>2, <2>1, <2>2, <2>3, <2>4, <2>5, <2>6 DEF Advance
<1>3. ASSUME NEW p \in Asker \ Busy, NEW k \in Key, Begin(p, k) PROVE WellSpent
  <2>1. \A q \in Asker \ {p} : req'[q] = req[q]
    BY <1>3, BeginStep
  <2>2. req[p] = None
    BY DEF Busy
  <2> QED BY <2>1, <2>2, WellSpentByNobody DEF At
<1>4. ASSUME NEW p \in Worker, NEW k \in Key, Spawn(p, k) PROVE Inv' /\ WellSpent
  <2>1. p \in Asker \ Busy /\ Begin(p, k)
    BY <1>4 DEF Spawn, Outstanding, Asker
  <2> QED BY <1>3, <1>4, <2>1, SpawnStep
<1>5. ASSUME NEW p \in Tile, NEW k \in Key, Ask(p, k) PROVE Inv' /\ WellSpent
  <2>1. p \in Asker \ Busy /\ Begin(p, k)
    BY <1>5 DEF Ask, Asker
  <2> QED BY <1>3, <1>5, <2>1, AskStep
<1>6. ASSUME NEW p \in Tile, Abort(p) PROVE Inv' /\ WellSpent
  <2>1. \A q \in Asker : At(q, "queued") /\ req'[q] # None => req'[q].at # "render"
    <3>1. req' = [req EXCEPT ![p].live = FALSE] /\ p \in Asker /\ req[p] \in Request
      BY <1>6 DEF Abort, Busy, Asker, Inv, FlightOK, Requests
    <3>2. [req[p] EXCEPT !.live = FALSE].at = req[p].at
      BY <3>1 DEF Request
    <3> QED BY <3>1, <3>2 DEF Inv, FlightOK, Requests, At
  <2> QED BY <1>6, <2>1, AbortStep, WellSpentByNobody
<1>7. ASSUME CancelWarmup PROVE Inv' /\ WellSpent
  <2>1. \A q \in Asker : At(q, "queued") /\ req'[q] # None => req'[q].at # "render"
    <3> SUFFICES ASSUME NEW q \in Asker, At(q, "queued") PROVE req'[q].at # "render"
      OBVIOUS
    <3>1. req[q] \in Request /\ req[q].at = "queued"
      BY DEF At, Inv, FlightOK, Requests
    <3>2. [req[q] EXCEPT !.live = FALSE].at = "queued"
      BY <3>1 DEF Request
    <3>3. req'[q] = [req[q] EXCEPT !.live = FALSE] \/ req'[q] = req[q]
      BY <1>7 DEF CancelWarmup
    <3> QED BY <3>1, <3>2, <3>3
  <2> QED BY <1>7, <2>1, CancelWarmupStep, WellSpentByNobody
<1>8. ASSUME Restart PROVE Inv' /\ WellSpent
  <2>1. \A q \in Asker : req'[q] = None
    BY <1>8 DEF Restart
  <2> QED BY <1>8, <2>1, RestartStep, WellSpentByNobody
<1>9. ASSUME NEW ids \in SUBSET Key, StartWarmup(ids) PROVE Inv' /\ WellSpent
  BY <1>1, <1>9, StartWarmupStep DEF StartWarmup
<1>10. CASE StopWarmup
  BY <1>1, <1>10, StopWarmupStep DEF StopWarmup
<1>11. CASE EndWarmup
  BY <1>1, <1>11, EndWarmupStep DEF EndWarmup
<1>12. ASSUME NEW d \in Dir, Repoint(d) PROVE Inv' /\ WellSpent
  <2>1. Inv'
    BY <1>12, DiskStep DEF Repoint
  <2> QED BY <1>1, <1>12, <2>1 DEF Repoint
<1>13. CASE ClearCache
  <2>1. dir \in Dir
    BY DEF Inv, Others
  <2>2. Inv'
    BY <1>13, <2>1, DiskStep DEF ClearCache
  <2> QED BY <1>1, <1>13, <2>2 DEF ClearCache
<1>14. CASE UNCHANGED vars
  <2>1. UNCHANGED <<req, call, schedVars, diskVars, warm, bounds>>
    BY <1>14 DEF vars
  <2>2. FlightOK' /\ QueueOK' /\ SlotsOK'
    BY <2>1, ApartStep
  <2>3. WarmOK'
    BY <2>1, WarmStays DEF Inv, Others
  <2>4. Others'
    BY <2>1 DEF Inv, Others, diskVars, bounds
  <2> QED BY <1>1, <2>1, <2>2, <2>3, <2>4 DEF Inv
<1>15. CASE System
  BY <1>2, <1>4, <1>10, <1>11, <1>15 DEF System
<1>16. ASSUME NEW p \in Asker, Hang(p) PROVE Inv' /\ WellSpent
  BY <1>1, <1>16, HangStep DEF Hang
<1> QED
  BY <1>16, <1>5, <1>6, <1>7, <1>8, <1>9, <1>12, <1>13, <1>14, <1>15, SetParallelismStep DEF Next

LEMMA InvHolds == Spec => []Inv
  BY InitInv, NextInv, PTL DEF Spec

\* Only somebody who asked has a tool that hangs.
LEMMA HungTyped == Spec => [](hung \subseteq Asker)
<1>1. Init => hung \subseteq Asker
  BY DEF Init
<1>2. ASSUME hung \subseteq Asker, [Next]_vars PROVE (hung \subseteq Asker)'
  <2>1. CASE \E p \in Asker : Advance(p)
    BY <1>2, <2>1 DEF Advance, Enter, Check, Acquire, GiveUp, Render, Leave, schedVars
  <2>2. CASE UNCHANGED vars
    BY <1>2, <2>2 DEF vars, schedVars
  <2> QED
    BY <1>2, <2>1, <2>2 DEF Next, System, Spawn, Begin, StopWarmup, EndWarmup, Ask, Abort, Hang,
       StartWarmup, CancelWarmup, SetParallelism, Repoint, ClearCache, Restart, schedVars
<1> QED BY <1>1, <1>2, PTL DEF Spec

LEMMA InvGivesThumbsInv == Inv /\ hung \subseteq Asker => ThumbsInv
<1> SUFFICES ASSUME Inv, hung \subseteq Asker PROVE ThumbsInv
  OBVIOUS
<1>1. ToSet(queue) \subseteq {p \in Asker : At(p, "queued")}
  BY DEF Inv, QueueOK, QueueTyped, ToSet
<1>2. IsInjective(queue)
  BY DEF Inv, QueueOK, QueueTyped, IsInjective
<1>3. inUse \in Nat
  BY FS_CardinalityType DEF Inv, SlotsOK
<1>4. TypeOK
  BY <1>1, <1>2, <1>3 DEF TypeOK, Inv, FlightOK, Requests, QueueOK, QueueTyped, SlotsOK, Others
<1>5. SlotsConserved /\ WarmupOwnsItsWork
  BY DEF SlotsConserved, Inv, SlotsOK, Rendering, WarmOK
<1> QED BY <1>4, <1>5 DEF ThumbsInv

\* The types hold; what scheduler.acquire, pump and release count is what is
\* rendered, nobody waits beside a free slot, and a warm-up (Warmer.Warm) has no
\* more out than its bound, whatever is cancelled or set meanwhile.
THEOREM ThumbsInvCorrect == Spec => []ThumbsInv
  BY InvHolds, HungTyped, InvGivesThumbsInv, PTL

\* Whoever follows a call (flight.Do) follows one whose winner is still at work,
\* and a key has one winner: no follower is left behind, no thumbnail is written
\* twice at once.
THEOREM OneWinnerAtWorkCorrect == Spec => []OneWinnerAtWork
<1>1. Inv => OneWinnerAtWork
  BY DEF Inv, FlightOK
<1> QED BY <1>1, InvHolds, PTL

\* A slot is handed out (scheduler.pump, at a release or a changed capacity)
\* within the bound, to a request still wanted, and to the warm-up only when no
\* tile is left waiting.
THEOREM SlotsWellSpentCorrect == Spec => SlotsWellSpent
<1>1. Inv /\ [Next]_vars => [WellSpent]_vars
  BY NextInv
<1> QED BY <1>1, InvHolds, PTL DEF Spec, SlotsWellSpent, WellSpent
=============================================================================
