-------------------------- MODULE DestinationsProofs --------------------------
(***************************************************************************)
(* Proofs about Destinations: a destination is held back only as long as   *)
(* all its remotes are and temp files have owners (DestinationsInv); a job *)
(* recorded as completed has its asset at the destination, through every   *)
(* move in the archive, retry, restart and failover (CompletedIsHeld).     *)
(***************************************************************************)
EXTENDS Destinations, FiniteSetTheorems, WellFoundedInduction, TLAPS

------------------------------------------------------------------------------
(* The invariant, by its parts. *)

\* The cached plugin is that of the provider's configuration, which was probed;
\* only a provider in use is held back.
PluginKnown ==
    \A p \in Provider :
       /\ Valid(config[p])
       /\ plugin[p] # None => plugin[p].pool = Pool(config[p])
       /\ paused[p] > 0 => plugin[p] # None

\* A worker has the plugin of its provider, its job is running, and it stands
\* at a remote of the pool or behind the last of them.
AttemptKnown ==
    \A w \in Worker : worker[w] # None =>
       /\ plugin[worker[w].key[2]] # None
       /\ job[worker[w].key] = "running"
       /\ worker[w].i \in 1..(Len(PoolOf(w)) + 1)
       /\ worker[w].step = "copy" => worker[w].i <= Len(PoolOf(w))

\* No job has two workers.
OneEach ==
    \A v, w \in Worker :
       v # w /\ worker[v] # None /\ worker[w] # None => worker[v].key # worker[w].key

\* The remotes a worker has passed cool at least until the soonest it met.
SoonestKnown ==
    \A w \in Worker : worker[w] # None =>
       \A j \in 1..(worker[w].i - 1) :
          worker[w].soonest # None /\ until[PoolOf(w)[j]] >= worker[w].soonest

\* Only folders have temp files.
TempInFolder == \A t \in partial : t[1] \in Folder

\* Assets have paths of their own, and their files, but for the one moving.
ArchiveKnown ==
    /\ \A a, b \in Asset : at[a] = at[b] => a = b
    /\ \A a \in Asset :
          IF moving # None /\ moving.asset = a
          THEN disk[at[a]] = None /\ disk[moving.to] = a
          ELSE disk[at[a]] = a

Lies(b, x) == disk[x] = b \/ at[b] = x
Sent(b, x) == \E v \in Worker : worker[v] # None /\ worker[v].path = x /\ worker[v].key[1] = b

\* Whatever else uses the path a worker has in hand was put there after the
\* worker read it, or left it before: both are on record as reused.
InHandKnown ==
    \A w \in Worker : worker[w] # None =>
       \A b \in Asset \ {worker[w].key[1]} :
          /\ Lies(b, worker[w].path) \/ Sent(b, worker[w].path) => worker[w].key \in reused
          /\ Lies(b, worker[w].path) => \A q \in Provider : <<b, q>> \in reused

Basics == /\ TypeOK /\ PluginKnown /\ AttemptKnown /\ OneEach /\ SoonestKnown
          /\ HeldBackAsNeeded /\ TempInFolder /\ TempFilesOwned

Places == ArchiveKnown /\ InHandKnown

\* A copy nobody else will overwrite: no other asset has the path.
Safe(a, x) == \A b \in Asset \ {a} : ~Lies(b, x) /\ ~Sent(b, x)
Kept(a, p) == \E r \in ToSet(Pool(config[p])), x \in Path : store[r][x] = a /\ Safe(a, x)

\* Completed, or verified and about to be.
Vouched(a, p) ==
    \/ job[<<a, p>>] = "completed"
    \/ \E w \in Worker : /\ worker[w] # None /\ worker[w].key = <<a, p>>
                         /\ worker[w].step = "record" /\ ~worker[w].note

VouchedIsKept ==
    \A a \in Asset, p \in Provider :
       Vouched(a, p) /\ <<a, p>> \notin noted \cup reused /\ Checked(p) => Kept(a, p)

------------------------------------------------------------------------------
(* The pool of a configuration. *)

Below == {p \in Nat \X Nat : p[1] < p[2]}

LEMMA BelowIsWellFounded == IsWellFoundedOn(Below, Nat)
  BY NatLessThanWellFounded DEF Below, OpToRel

\* A set of numbers that is not empty has a least one.
LEMMA LeastExists ==
  ASSUME NEW S \in SUBSET Nat, S # {}
  PROVE  \E i \in S : \A j \in S : i <= j
<1>1. PICK i \in S : \A j \in S : <<j, i>> \notin Below
  BY BelowIsWellFounded, WFMin
<1>2. ASSUME NEW j \in S PROVE i <= j
  <2>1. j < i => <<j, i>> \in Below
    BY DEF Below
  <2> QED BY <1>1, <2>1
<1> QED BY <1>2

\* Counted from the front, the elements of a finite set of places take every
\* rank up to their number.
LEMMA EveryRankTaken ==
  ASSUME NEW len \in Nat, NEW F \in SUBSET (1..len), NEW n \in 1..Cardinality(F)
  PROVE  \E i \in F : Cardinality({j \in F : j <= i}) = n
<1> DEFINE Upto(i) == {j \in F : j <= i}
           C(i)    == Cardinality(Upto(i))
           U       == {i \in 0..len : C(i) >= n}
<1>1. IsFiniteSet(F) /\ Cardinality(F) \in Nat
  <2>1. IsFiniteSet(1..len)
    BY FS_Interval
  <2>2. IsFiniteSet(F)
    BY <2>1, FS_Subset
  <2> QED BY <2>2, FS_CardinalityType
<1>2. ASSUME NEW i \in Int PROVE IsFiniteSet(Upto(i)) /\ C(i) \in Nat
  <2>1. Upto(i) \subseteq F
    OBVIOUS
  <2>2. IsFiniteSet(Upto(i))
    <3> HIDE DEF Upto
    <3> QED BY <1>1, <2>1, FS_Subset
  <2>3. C(i) \in Nat
    <3> HIDE DEF Upto
    <3> QED BY <2>2, FS_CardinalityType
  <2> QED BY <2>2, <2>3
<1>a. ASSUME NEW j \in F
      PROVE  j \in Int /\ j <= len /\ ~(j <= 0)
  OBVIOUS
<1>3. C(len) = Cardinality(F)
  <2>1. Upto(len) = F
    BY <1>a
  <2> QED BY <2>1
<1>4. C(0) = 0
  <2>1. Upto(0) = {}
    BY <1>a
  <2> QED BY <2>1, FS_EmptySet
<1>5. U \in SUBSET Nat /\ len \in U /\ 0 \notin U
  <2>1. C(len) >= n /\ ~(C(0) >= n)
    <3> HIDE DEF C
    <3> QED BY <1>1, <1>3, <1>4
  <2> QED BY <2>1
<1>6. PICK m \in U : \A j \in U : m <= j
  <2> HIDE DEF U
  <2> QED BY <1>5, LeastExists
<1>7. m \in 1..len /\ C(m) >= n /\ m - 1 \in 0..len /\ m - 1 \notin U /\ m - 1 \in Int
  <2>1. m # 0
    <3> HIDE DEF U
    <3> QED BY <1>5, <1>6
  <2>2. m \in 1..len /\ C(m) >= n
    BY <2>1
  <2>3. m - 1 \notin U
    <3> HIDE DEF U
    <3> QED BY <1>6, <2>2
  <2> QED BY <2>2, <2>3
<1>8. ~(C(m - 1) >= n)
  BY <1>7
<1>9. m \in F
  <2>1. SUFFICES ASSUME m \notin F PROVE FALSE
    OBVIOUS
  <2>2. ASSUME NEW j \in F PROVE j <= m <=> j <= m - 1
    <3>1. j # m
      BY <2>1
    <3>2. j \in Int /\ m \in Int
      BY <1>7
    <3> HIDE DEF U
    <3> QED BY <3>1, <3>2
  <2>4. Upto(m) = Upto(m - 1)
    BY <2>2
  <2>3. C(m) = C(m - 1)
    <3> HIDE DEF Upto
    <3> QED BY <2>4
  <2> QED
    <3> HIDE DEF C, U
    <3> QED BY <2>3, <1>7, <1>8
<1>10. C(m) = C(m - 1) + 1
  <2>2. m \in Int /\ m <= m /\ ~(m <= m - 1)
    BY <1>7
  <2>3. ASSUME NEW j \in F PROVE j <= m <=> j <= m - 1 \/ j = m
    <3>1. j \in Int
      OBVIOUS
    <3> HIDE DEF U
    <3> QED BY <2>2, <3>1
  <2>1. Upto(m) = Upto(m - 1) \cup {m} /\ m \notin Upto(m - 1)
    <3> HIDE DEF U
    <3> QED BY <2>2, <2>3, <1>9
  <2> HIDE DEF Upto
  <2> QED BY <2>1, <1>2, <1>7, FS_AddElement
<1>11. C(m) = n
  <2>1. C(m - 1) \in Nat /\ C(m) \in Nat
    <3>1. m \in Int /\ m - 1 \in Int
      BY <1>7
    <3> HIDE DEF C, U
    <3> QED BY <3>1, <1>2
  <2> HIDE DEF C, U
  <2> QED BY <2>1, <1>7, <1>8, <1>10
<1> QED BY <1>9, <1>11

\* poolFromConfig returns remotes of the configuration and nothing else.
LEMMA PoolIsOfRemotes ==
  ASSUME NEW S, NEW c, c.remotes \in Seq(S)
  PROVE  Pool(c) \in Seq(S)
<1> DEFINE s      == c.remotes
           first  == Firsts(s)
           UpTo(i) == Cardinality({j \in first : j <= i})
           nth(n) == CHOOSE i \in first : UpTo(i) = n
<1>1. first \in SUBSET (1..Len(s)) /\ Len(s) \in Nat
  BY DEF Firsts
<1>2. Cardinality(first) \in Nat
  <2>1. IsFiniteSet(1..Len(s))
    BY <1>1, FS_Interval
  <2>2. IsFiniteSet(first)
    BY <1>1, <2>1, FS_Subset
  <2> QED BY <2>2, FS_CardinalityType
<1>3. ASSUME NEW n \in 1..Cardinality(first) PROVE s[nth(n)] \in S
  <2>1. \E i \in first : UpTo(i) = n
    <3> HIDE DEF s, first
    <3> QED BY <1>1, EveryRankTaken
  <2>2. nth(n) \in first
    <3> HIDE DEF s, first, UpTo
    <3> QED BY <2>1
  <2>3. nth(n) \in 1..Len(s)
    <3> HIDE DEF nth, first
    <3> QED BY <2>2, <1>1
  <2> HIDE DEF nth
  <2> QED BY <2>3
<1>4. Pool(c) = [n \in 1..Cardinality(first) |-> s[nth(n)]]
  BY DEF Pool
<1> HIDE DEF s, first, nth
<1> QED BY <1>2, <1>3, <1>4

------------------------------------------------------------------------------
(* Types. *)

LEMMA Constants ==
  /\ None \notin Plugins /\ None \notin Attempt /\ None \notin Move
  /\ None \notin Asset /\ None \notin Ticks
  /\ Short \in Ticks /\ Day \in Ticks /\ Day \in Nat
<1>1. Short \in Ticks /\ Day \in Ticks /\ Day \in Nat
  BY DestinationsAssumption DEF Ticks
<1>2. /\ None \notin Plugins /\ None \notin Attempt /\ None \notin Move
      /\ None \notin Asset /\ None \notin Ticks
  BY NoneAssumption, Zenon
<1> QED BY <1>1, <1>2

LEMMA PoolTyped ==
  ASSUME TypeOK
  PROVE  \A p \in Provider : config[p] \in Configs /\ Pool(config[p]) \in Seq(Remote)
<1> SUFFICES ASSUME NEW p \in Provider
             PROVE  config[p] \in Configs /\ Pool(config[p]) \in Seq(Remote)
  OBVIOUS
<1>1. config[p] \in Configs
  BY DEF TypeOK
<1>2. config[p].remotes \in Seq(Remote)
  BY <1>1, DestinationsAssumption
<1> QED BY <1>1, <1>2, PoolIsOfRemotes

\* What is known of a worker at work.
LEMMA AtWork ==
  ASSUME TypeOK, PluginKnown, AttemptKnown, NEW w \in Worker, worker[w] # None
  PROVE  /\ worker[w] \in Attempt
         /\ worker[w].key \in JobKey /\ worker[w].path \in Path
         /\ worker[w].key[1] \in Asset /\ worker[w].key[2] \in Provider
         /\ worker[w].key = <<worker[w].key[1], worker[w].key[2]>>
         /\ worker[w].i \in Nat \ {0} /\ worker[w].i <= Len(PoolOf(w)) + 1
         /\ worker[w].soonest \in Ticks \cup {None}
         /\ worker[w].got \in Files /\ worker[w].note \in BOOLEAN
         /\ plugin[worker[w].key[2]] \in Plugins
         /\ PoolOf(w) = Pool(config[worker[w].key[2]])
         /\ PoolOf(w) \in Seq(Remote) /\ Len(PoolOf(w)) \in Nat \ {0}
         /\ worker[w].i <= Len(PoolOf(w)) => On(w) \in Remote
<1>1. worker[w] \in Attempt
  BY DEF TypeOK
<1>2. /\ worker[w].key \in JobKey /\ worker[w].path \in Path /\ worker[w].i \in Nat
      /\ worker[w].soonest \in Ticks \cup {None}
      /\ worker[w].got \in Files /\ worker[w].note \in BOOLEAN
  BY <1>1 DEF Attempt
<1>3. /\ worker[w].key[1] \in Asset /\ worker[w].key[2] \in Provider
      /\ worker[w].key = <<worker[w].key[1], worker[w].key[2]>>
  BY <1>2 DEF JobKey
<1>4. plugin[worker[w].key[2]] \in Plugins /\ PoolOf(w) = Pool(config[worker[w].key[2]])
  BY <1>3 DEF TypeOK, PluginKnown, AttemptKnown, PoolOf
<1>5. PoolOf(w) \in Seq(Remote)
  BY <1>3, <1>4, PoolTyped
<1>6. PoolOf(w) # <<>>
  BY <1>3, <1>4 DEF PluginKnown, Valid
<1>7. Len(PoolOf(w)) \in Nat \ {0}
  <2> HIDE DEF PoolOf
  <2> QED BY <1>5, <1>6
<1>8. worker[w].i \in 1..(Len(PoolOf(w)) + 1)
  BY DEF AttemptKnown
<1>9. worker[w].i \in Nat \ {0} /\ worker[w].i <= Len(PoolOf(w)) + 1
  <2> HIDE DEF PoolOf
  <2> QED BY <1>7, <1>8
<1>10. worker[w].i <= Len(PoolOf(w)) => On(w) \in Remote
  <2>1. On(w) = PoolOf(w)[worker[w].i]
    BY DEF On
  <2> HIDE DEF PoolOf, On
  <2> QED BY <1>5, <1>7, <1>9, <2>1
<1> QED BY <1>1, <1>2, <1>3, <1>4, <1>5, <1>7, <1>9, <1>10

\* The soonest of what was met before and what is met now.
LEMMA EarliestTyped ==
  ASSUME NEW s \in Ticks \cup {None}, NEW t \in Ticks
  PROVE  /\ Earliest(s, t) \in Ticks /\ Earliest(s, t) <= t
         /\ s # None => Earliest(s, t) <= s
  BY Constants DEF Earliest, Ticks

LEMMA LessTyped ==
  /\ \A t \in Ticks : Less(t) \in Ticks
  /\ Less(None) = None
  /\ \A s, t \in Ticks : s <= t => Less(s) <= Less(t)
  /\ \A t \in Ticks : Less(t) > 0 => t > 0
  BY Constants DEF Less, Ticks

------------------------------------------------------------------------------
(* Steps of a worker: the conjuncts about the attempts. *)

\* A worker that goes on, or stops, keeps what is known of all attempts.
LEMMA Proceeds ==
  ASSUME TypeOK, PluginKnown, AttemptKnown, OneEach, SoonestKnown,
         NEW w \in Worker, worker[w] # None, NEW rec,
         worker' = [worker EXCEPT ![w] = rec],
         UNCHANGED <<plugin, config>>,
         \A k \in JobKey : k # worker[w].key \/ rec # None => job'[k] = job[k],
         \A r \in Remote : until[r] \in Ticks /\ until'[r] \in Ticks /\ until'[r] >= until[r],
         rec # None =>
            /\ rec \in Attempt /\ rec.key = worker[w].key
            /\ rec.i \in 1..(Len(PoolOf(w)) + 1)
            /\ rec.step = "copy" => rec.i <= Len(PoolOf(w))
            /\ \A j \in 1..(rec.i - 1) : rec.soonest # None /\ until'[PoolOf(w)[j]] >= rec.soonest
  PROVE  AttemptKnown' /\ OneEach' /\ SoonestKnown'
<1>1. /\ worker'[w] = rec
      /\ \A v \in Worker \ {w} : worker'[v] = worker[v]
  BY DEF TypeOK
<1>2. \A v \in Worker : worker[v] # None => worker[v].key \in JobKey
  BY AtWork
<1>3. ASSUME NEW v \in Worker, worker'[v] # None
      PROVE  worker[v] # None /\ worker'[v].key = worker[v].key /\ PoolOf(v)' = PoolOf(v)
  BY <1>1, <1>3 DEF PoolOf
<1>4. OneEach'
  <2> SUFFICES ASSUME NEW u \in Worker, NEW v \in Worker,
                      u # v, worker'[u] # None, worker'[v] # None
               PROVE  worker'[u].key # worker'[v].key
    BY DEF OneEach
  <2> QED BY <1>3 DEF OneEach
<1>5. AttemptKnown'
  <2> SUFFICES ASSUME NEW v \in Worker, worker'[v] # None
               PROVE  /\ plugin'[worker'[v].key[2]] # None
                      /\ job'[worker'[v].key] = "running"
                      /\ worker'[v].i \in 1..(Len(PoolOf(v)') + 1)
                      /\ worker'[v].step = "copy" => worker'[v].i <= Len(PoolOf(v)')
    BY DEF AttemptKnown
  <2>1. /\ plugin[worker[v].key[2]] # None /\ job[worker[v].key] = "running"
        /\ worker[v].i \in 1..(Len(PoolOf(v)) + 1)
        /\ worker[v].step = "copy" => worker[v].i <= Len(PoolOf(v))
    BY <1>3 DEF AttemptKnown
  <2>2. job'[worker[v].key] = job[worker[v].key]
    <3>1. CASE v = w
      BY <3>1, <1>1, <1>2, <1>3
    <3>2. CASE v # w
      <4>1. worker[v].key # worker[w].key
        BY <3>2, <1>3 DEF OneEach
      <4> QED BY <4>1, <1>2, <1>3
    <3> QED BY <3>1, <3>2
  <2>3. CASE v = w
    BY <2>1, <2>2, <2>3, <1>1, <1>3
  <2>4. CASE v # w
    BY <2>1, <2>2, <2>4, <1>1, <1>3
  <2> QED BY <2>3, <2>4
<1>6. SoonestKnown'
  <2> SUFFICES ASSUME NEW v \in Worker, worker'[v] # None, NEW j \in 1..(worker'[v].i - 1)
               PROVE  worker'[v].soonest # None /\ until'[PoolOf(v)'[j]] >= worker'[v].soonest
    BY DEF SoonestKnown
  <2>1. CASE v = w
    BY <2>1, <1>1, <1>3
  <2>2. CASE v # w
    <3>1. worker'[v] = worker[v] /\ worker[v] # None /\ PoolOf(v)' = PoolOf(v)
      BY <1>1, <1>3, <2>2
    <3>2. worker[v].soonest # None /\ until[PoolOf(v)[j]] >= worker[v].soonest
      BY <3>1 DEF SoonestKnown
    <3>3. /\ PoolOf(v) \in Seq(Remote) /\ Len(PoolOf(v)) \in Nat
          /\ worker[v].i \in Nat /\ worker[v].i <= Len(PoolOf(v)) + 1
          /\ worker[v].soonest \in Ticks
      BY <3>1, <3>2, AtWork
    <3>4. PoolOf(v)[j] \in Remote
      <4>1. j \in 1..Len(PoolOf(v))
        <5> HIDE DEF PoolOf
        <5> QED BY <3>1, <3>3
      <4> HIDE DEF PoolOf
      <4> QED BY <3>3, <4>1
    <3>5. \A r \in Remote, s \in Ticks : until[r] >= s => until'[r] >= s
      BY DEF Ticks
    <3> QED
      <4> HIDE DEF PoolOf
      <4> QED BY <3>1, <3>2, <3>3, <3>4, <3>5
  <2> QED BY <2>1, <2>2
<1> QED BY <1>4, <1>5, <1>6

------------------------------------------------------------------------------
(* Steps of a worker: cooldowns and temp files. *)

LEMMA HeldStays ==
  ASSUME TypeOK, PluginKnown, HeldBackAsNeeded,
         UNCHANGED <<plugin, config>>,
         \A r \in Remote : until[r] \in Ticks /\ until'[r] \in Ticks /\ until'[r] >= until[r],
         \A p \in Provider :
            \/ paused'[p] = paused[p]
            \/ plugin[p] # None /\ \A r \in ToSet(plugin[p].pool) : until'[r] >= paused'[p]
  PROVE  PluginKnown' /\ HeldBackAsNeeded'
<1>1. PluginKnown'
  <2>1. ASSUME NEW p \in Provider PROVE paused'[p] > 0 => plugin[p] # None
    BY DEF PluginKnown
  <2>2. \A p \in Provider : /\ Valid(config'[p])
                           /\ plugin'[p] # None => plugin'[p].pool = Pool(config'[p])
    BY DEF PluginKnown
  <2> QED BY <2>1, <2>2 DEF PluginKnown
<1>2. ASSUME NEW p \in Provider, paused'[p] > 0, NEW r \in ToSet(plugin[p].pool)
      PROVE  until'[r] >= paused'[p]
  <2>1. CASE paused'[p] = paused[p]
    <3>1. plugin[p] # None /\ until[r] >= paused[p] /\ paused[p] \in Ticks
      BY <1>2, <2>1 DEF PluginKnown, HeldBackAsNeeded, TypeOK
    <3>2. plugin[p].pool \in Seq(Remote)
      BY <3>1 DEF TypeOK, Plugins
    <3>3. r \in Remote
      BY <1>2, <3>2 DEF ToSet
    <3>4. until[r] \in Int /\ until'[r] \in Int /\ paused[p] \in Int /\ until'[r] >= until[r]
      BY <3>1, <3>3 DEF Ticks
    <3> QED BY <2>1, <3>1, <3>4
  <2>2. CASE paused'[p] # paused[p]
    BY <1>2, <2>2
  <2> QED BY <2>1, <2>2
<1> QED BY <1>1, <1>2 DEF HeldBackAsNeeded

LEMMA TempsStay ==
  ASSUME TempInFolder, TempFilesOwned, UNCHANGED plugin, NEW w \in Worker,
         \A v \in Worker \ {w} : worker'[v] = worker[v],
         partial' \subseteq partial,
         w \notin Copying \/ Temp(w) \notin partial'
  PROVE  TempInFolder' /\ TempFilesOwned'
<1>1. TempInFolder'
  BY DEF TempInFolder
<1>2. ASSUME NEW t \in partial', t[3] # None
      PROVE  t \in {Temp(v)' : v \in Copying'}
  <2>1. PICK v \in Copying : t = Temp(v)
    BY <1>2 DEF TempFilesOwned
  <2>2. v # w /\ v \in Worker
    BY <2>1 DEF Copying
  <2>3. worker'[v] = worker[v]
    BY <2>2
  <2>4. v \in Copying' /\ Temp(v)' = Temp(v)
    BY <2>1, <2>2, <2>3 DEF Copying, Doing, Temp, On, PoolOf
  <2> QED BY <2>1, <2>4
<1> QED BY <1>1, <1>2 DEF TempFilesOwned

\* A remote that cools, while the next one is tried.
LEMMA FailOverKeeps ==
  ASSUME Basics, NEW w \in Worker, Doing(w, "copy"), FailOver(w),
         UNCHANGED <<plugin, config, job, paused>>
  PROVE  /\ until' \in [Remote -> Ticks] /\ worker' \in [Worker -> Attempt \cup {None}]
         /\ \A v \in Worker \ {w} : worker'[v] = worker[v]
         /\ AttemptKnown' /\ OneEach' /\ SoonestKnown' /\ PluginKnown' /\ HeldBackAsNeeded'
<1>0. TypeOK /\ PluginKnown /\ AttemptKnown /\ OneEach /\ SoonestKnown /\ HeldBackAsNeeded
  BY DEF Basics
<1>1. PICK d \in {Short, Day} :
         /\ until' = [until EXCEPT ![On(w)] = IF d > @ THEN d ELSE @]
         /\ worker' = [worker EXCEPT ![w] =
                         [worker[w] EXCEPT !.step = "next", !.i = @ + 1, !.got = None,
                                           !.soonest = Earliest(@, d)]]
  BY DEF FailOver, Go
<1>2. d \in Ticks
  BY <1>1, Constants
<1>3. worker[w] # None /\ worker[w].step = "copy"
  BY DEF Doing
<1>4. worker[w] \in Attempt /\ worker[w].i \in Nat \ {0} /\ worker[w].soonest \in Ticks \cup {None}
      /\ PoolOf(w) \in Seq(Remote) /\ Len(PoolOf(w)) \in Nat
  BY <1>0, <1>3, AtWork
<1>5. worker[w].i <= Len(PoolOf(w)) /\ On(w) \in Remote
  BY <1>0, <1>3, AtWork DEF AttemptKnown
<1>6. \A r \in Remote : until[r] \in Ticks
  BY <1>0 DEF TypeOK
<1>7. \A r \in Remote : until'[r] = IF r = On(w) THEN IF d > until[r] THEN d ELSE until[r] ELSE until[r]
  BY <1>0, <1>1 DEF TypeOK
<1>8. /\ until' \in [Remote -> Ticks]
      /\ \A r \in Remote : until[r] \in Ticks /\ until'[r] \in Ticks /\ until'[r] >= until[r]
      /\ until'[On(w)] >= d
  <2>1. until' \in [Remote -> Ticks]
    BY <1>0, <1>1, <1>2 DEF TypeOK
  <2>2. ASSUME NEW r \in Remote PROVE until'[r] >= until[r]
    BY <1>2, <1>6, <1>7 DEF Ticks
  <2>3. until'[On(w)] >= d
    <3> HIDE DEF On
    <3> QED BY <1>2, <1>5, <1>6, <1>7 DEF Ticks
  <2> QED BY <1>6, <2>1, <2>2, <2>3
<1> DEFINE rec == [worker[w] EXCEPT !.step = "next", !.i = @ + 1, !.got = None,
                                    !.soonest = Earliest(@, d)]
           e   == Earliest(worker[w].soonest, d)
<1>9. e \in Ticks /\ e <= d /\ (worker[w].soonest # None => e <= worker[w].soonest)
  BY <1>2, <1>4, EarliestTyped
<1>10. /\ rec \in Attempt /\ rec.key = worker[w].key /\ rec.i = worker[w].i + 1
       /\ rec.step = "next" /\ rec.soonest = e
  <2> HIDE DEF e
  <2>1. rec = [worker[w] EXCEPT !.step = "next", !.i = @ + 1, !.got = None, !.soonest = e]
    BY <1>4 DEF Attempt, e
  <2> HIDE DEF rec
  <2>2. worker[w].i + 1 \in Nat /\ None \in Files /\ e \in Ticks \cup {None}
    BY <1>4, <1>9 DEF Files
  <2>3. DOMAIN worker[w] = {"key", "path", "step", "i", "soonest", "got", "note"}
    BY <1>4 DEF Attempt
  <2>4. /\ rec.key = worker[w].key /\ rec.i = worker[w].i + 1
        /\ rec.step = "next" /\ rec.soonest = e
    BY <2>1, <2>3
  <2>5. rec \in Attempt
    BY <1>4, <2>1, <2>2 DEF Attempt
  <2> QED BY <2>4, <2>5
<1>11. ASSUME NEW j \in 1..(rec.i - 1)
       PROVE  rec.soonest # None /\ until'[PoolOf(w)[j]] >= rec.soonest
  <2> HIDE DEF rec, e
  <2>1. j \in 1..worker[w].i /\ j \in 1..Len(PoolOf(w))
    <3> HIDE DEF PoolOf
    <3> QED BY <1>4, <1>5, <1>10
  <2>2. rec.soonest \in Ticks /\ rec.soonest # None
    BY <1>9, <1>10, Constants
  <2>3. CASE j = worker[w].i
    <3>1. until'[PoolOf(w)[j]] >= d
      BY <1>8, <2>3 DEF On
    <3>2. until'[PoolOf(w)[j]] \in Ticks
      BY <1>5, <1>8, <2>3 DEF On
    <3> HIDE DEF PoolOf
    <3> QED BY <3>1, <3>2, <2>2, <1>2, <1>9, <1>10 DEF Ticks
  <2>4. CASE j # worker[w].i
    <3>1. j \in 1..(worker[w].i - 1)
      BY <1>4, <2>1, <2>4
    <3>2. worker[w].soonest # None /\ until[PoolOf(w)[j]] >= worker[w].soonest
      BY <1>0, <1>3, <3>1 DEF SoonestKnown
    <3>3. PoolOf(w)[j] \in Remote
      <4> HIDE DEF PoolOf
      <4> QED BY <1>4, <2>1
    <3>4. /\ until[PoolOf(w)[j]] \in Ticks /\ until'[PoolOf(w)[j]] \in Ticks
          /\ until'[PoolOf(w)[j]] >= until[PoolOf(w)[j]]
      BY <1>8, <3>3
    <3>5. e <= worker[w].soonest /\ worker[w].soonest \in Ticks
      BY <1>4, <1>9, <3>2
    <3> HIDE DEF PoolOf
    <3> QED BY <2>2, <3>2, <3>4, <3>5, <1>9, <1>10 DEF Ticks
  <2> QED BY <2>3, <2>4
<1>12. rec # None /\ rec.i \in 1..(Len(PoolOf(w)) + 1)
  <2>1. rec # None
    BY <1>10, Constants
  <2> HIDE DEF rec, PoolOf
  <2> QED BY <1>4, <1>5, <1>10, <2>1
<1>13. worker' = [worker EXCEPT ![w] = rec]
  BY <1>1
<1>14. AttemptKnown' /\ OneEach' /\ SoonestKnown'
  <2> HIDE DEF rec
  <2> QED BY <1>0, <1>3, <1>8, <1>10, <1>11, <1>12, <1>13, Proceeds
<1>15. PluginKnown' /\ HeldBackAsNeeded'
  BY <1>0, <1>8, HeldStays
<1>16. worker' \in [Worker -> Attempt \cup {None}] /\ \A v \in Worker \ {w} : worker'[v] = worker[v]
  <2> HIDE DEF rec
  <2> QED BY <1>0, <1>10, <1>13 DEF TypeOK
<1> QED BY <1>8, <1>14, <1>15, <1>16

------------------------------------------------------------------------------
(* Every step keeps the basics: the steps of a worker. *)

\* What a worker's settling its job leaves.
LEMMA SettleKeeps ==
  ASSUME Basics, NEW w \in Worker, worker[w] # None, NEW s \in JobStatus, Settle(w, s),
         UNCHANGED <<plugin, config, until>>
  PROVE  /\ job' \in [JobKey -> JobStatus] /\ worker' \in [Worker -> Attempt \cup {None}]
         /\ \A v \in Worker \ {w} : worker'[v] = worker[v]
         /\ AttemptKnown' /\ OneEach' /\ SoonestKnown'
<1>0. TypeOK /\ PluginKnown /\ AttemptKnown /\ OneEach /\ SoonestKnown
  BY DEF Basics
<1>1. worker[w].key \in JobKey
  BY <1>0, AtWork
<1>2. /\ job' = [job EXCEPT ![worker[w].key] = s]
      /\ worker' = [worker EXCEPT ![w] = None]
  BY DEF Settle, Go
<1>3. \A k \in JobKey : k # worker[w].key => job'[k] = job[k]
  BY <1>0, <1>1, <1>2 DEF TypeOK
<1>4. \A r \in Remote : until[r] \in Ticks /\ until'[r] \in Ticks /\ until'[r] >= until[r]
  BY <1>0 DEF TypeOK, Ticks
<1>5. AttemptKnown' /\ OneEach' /\ SoonestKnown'
  BY <1>0, <1>2, <1>3, <1>4, Proceeds
<1> QED BY <1>0, <1>1, <1>2, <1>5 DEF TypeOK

\* A step of the attempt at the remote it stands at.
LEMMA GoKeeps ==
  ASSUME Basics, NEW w \in Worker, worker[w] # None, NEW rec \in Attempt, Go(w, rec),
         rec.key = worker[w].key, rec.i = worker[w].i, rec.soonest = worker[w].soonest,
         rec.step = "copy" => rec.i <= Len(PoolOf(w)),
         UNCHANGED <<plugin, config, until, job>>
  PROVE  /\ worker' \in [Worker -> Attempt \cup {None}]
         /\ \A v \in Worker \ {w} : worker'[v] = worker[v]
         /\ AttemptKnown' /\ OneEach' /\ SoonestKnown'
<1>0. TypeOK /\ PluginKnown /\ AttemptKnown /\ OneEach /\ SoonestKnown
  BY DEF Basics
<1>1. worker' = [worker EXCEPT ![w] = rec]
  BY DEF Go
<1>2. \A r \in Remote : until[r] \in Ticks /\ until'[r] \in Ticks /\ until'[r] >= until[r]
  BY <1>0 DEF TypeOK, Ticks
<1>3. rec.i \in 1..(Len(PoolOf(w)) + 1)
  BY <1>0 DEF AttemptKnown
<1>4. \A j \in 1..(rec.i - 1) : rec.soonest # None /\ until'[PoolOf(w)[j]] >= rec.soonest
  BY <1>0 DEF SoonestKnown
<1>5. AttemptKnown' /\ OneEach' /\ SoonestKnown'
  BY <1>0, <1>1, <1>2, <1>3, <1>4, Proceeds
<1> QED BY <1>0, <1>1, <1>5 DEF TypeOK

\* Nothing of the cooldowns changes.
LEMMA HeldUnchanged ==
  ASSUME TypeOK, PluginKnown, HeldBackAsNeeded, UNCHANGED <<plugin, config, until, paused>>
  PROVE  PluginKnown' /\ HeldBackAsNeeded'
<1>1. \A r \in Remote : until[r] \in Ticks /\ until'[r] \in Ticks /\ until'[r] >= until[r]
  BY DEF TypeOK, Ticks
<1> QED BY <1>1, HeldStays

LEMMA PassOverBasics ==
  ASSUME Basics, NEW w \in Worker, PassOver(w)
  PROVE  Basics'
<1>0. /\ TypeOK /\ PluginKnown /\ AttemptKnown /\ OneEach /\ SoonestKnown
      /\ HeldBackAsNeeded /\ TempInFolder /\ TempFilesOwned
  BY DEF Basics
<1>1. /\ worker[w] # None /\ worker[w].step = "next"
      /\ worker[w].i <= Len(PoolOf(w)) /\ until[On(w)] > 0
      /\ UNCHANGED <<archive, config, job, noted, plugin, until, paused, remote, reused, counts>>
  BY DEF PassOver, Doing
<1> DEFINE t   == until[On(w)]
           e   == Earliest(worker[w].soonest, t)
           rec == [worker[w] EXCEPT !.i = @ + 1, !.soonest = Earliest(@, until[On(w)])]
<1>2. worker' = [worker EXCEPT ![w] = rec]
  BY DEF PassOver, Go
<1>3. /\ worker[w] \in Attempt /\ worker[w].i \in Nat \ {0}
      /\ worker[w].soonest \in Ticks \cup {None}
      /\ PoolOf(w) \in Seq(Remote) /\ Len(PoolOf(w)) \in Nat /\ On(w) \in Remote
  BY <1>0, <1>1, AtWork
<1>4. t \in Ticks
  BY <1>0, <1>3 DEF TypeOK
<1>5. e \in Ticks /\ e <= t /\ (worker[w].soonest # None => e <= worker[w].soonest)
  BY <1>3, <1>4, EarliestTyped
<1>6. /\ rec \in Attempt /\ rec.key = worker[w].key /\ rec.i = worker[w].i + 1
      /\ rec.step = "next" /\ rec.soonest = e
  <2>1. rec = [worker[w] EXCEPT !.i = @ + 1, !.soonest = e]
    BY <1>3 DEF Attempt
  <2> HIDE DEF rec, e
  <2>2. worker[w].i + 1 \in Nat /\ e \in Ticks \cup {None}
    BY <1>3, <1>5
  <2>3. DOMAIN worker[w] = {"key", "path", "step", "i", "soonest", "got", "note"}
    BY <1>3 DEF Attempt
  <2>4. /\ rec.key = worker[w].key /\ rec.i = worker[w].i + 1
        /\ rec.step = "next" /\ rec.soonest = e
    BY <1>1, <2>1, <2>3
  <2>5. rec \in Attempt
    BY <1>3, <2>1, <2>2 DEF Attempt
  <2> QED BY <2>4, <2>5
<1>7. ASSUME NEW j \in 1..(rec.i - 1)
      PROVE  rec.soonest # None /\ until'[PoolOf(w)[j]] >= rec.soonest
  <2> HIDE DEF rec, e
  <2>1. j \in 1..worker[w].i /\ j \in 1..Len(PoolOf(w))
    <3> HIDE DEF PoolOf
    <3> QED BY <1>1, <1>3, <1>6
  <2>2. rec.soonest \in Ticks /\ rec.soonest # None /\ until' = until
    BY <1>1, <1>5, <1>6, Constants
  <2>3. CASE j = worker[w].i
    <3>1. until[PoolOf(w)[j]] = t
      BY <2>3 DEF On
    <3> HIDE DEF PoolOf, t
    <3> QED BY <3>1, <2>2, <1>5, <1>6
  <2>4. CASE j # worker[w].i
    <3>1. j \in 1..(worker[w].i - 1)
      BY <1>3, <2>1, <2>4
    <3>2. worker[w].soonest # None /\ until[PoolOf(w)[j]] >= worker[w].soonest
      BY <1>0, <1>1, <3>1 DEF SoonestKnown
    <3>3. PoolOf(w)[j] \in Remote
      <4> HIDE DEF PoolOf
      <4> QED BY <1>3, <2>1
    <3>4. until[PoolOf(w)[j]] \in Ticks
      BY <1>0, <3>3 DEF TypeOK
    <3>5. e <= worker[w].soonest /\ worker[w].soonest \in Ticks
      BY <1>3, <1>5, <3>2
    <3> HIDE DEF PoolOf
    <3> QED BY <2>2, <3>2, <3>4, <3>5, <1>5, <1>6 DEF Ticks
  <2> QED BY <2>3, <2>4
<1>8. rec # None /\ rec.i \in 1..(Len(PoolOf(w)) + 1)
  <2>1. rec # None
    BY <1>6, Constants
  <2> HIDE DEF rec, PoolOf
  <2> QED BY <1>1, <1>3, <1>6, <2>1
<1>9. \A r \in Remote : until[r] \in Ticks /\ until'[r] \in Ticks /\ until'[r] >= until[r]
  BY <1>0, <1>1 DEF TypeOK, Ticks
<1>10. AttemptKnown' /\ OneEach' /\ SoonestKnown'
  <2> HIDE DEF rec
  <2> QED BY <1>0, <1>1, <1>2, <1>6, <1>7, <1>8, <1>9, Proceeds
<1>11. PluginKnown' /\ HeldBackAsNeeded'
  BY <1>0, <1>1, HeldUnchanged
<1>12. worker' \in [Worker -> Attempt \cup {None}] /\ \A v \in Worker \ {w} : worker'[v] = worker[v]
  <2> HIDE DEF rec
  <2> QED BY <1>0, <1>2, <1>6 DEF TypeOK
<1>13. TypeOK'
  BY <1>0, <1>1, <1>12 DEF TypeOK, archive, remote
<1>14. TempInFolder' /\ TempFilesOwned'
  <2>1. w \notin Copying /\ partial' = partial
    BY <1>1 DEF Copying, Doing, remote
  <2> QED BY <2>1, <1>0, <1>1, <1>12, TempsStay
<1> QED BY <1>10, <1>11, <1>13, <1>14 DEF Basics

LEMMA SendBasics ==
  ASSUME Basics, NEW w \in Worker, Send(w)
  PROVE  Basics'
<1>0. /\ TypeOK /\ PluginKnown /\ AttemptKnown /\ OneEach /\ SoonestKnown
      /\ HeldBackAsNeeded /\ TempInFolder /\ TempFilesOwned
  BY DEF Basics
<1>1. /\ worker[w] # None /\ worker[w].step = "next" /\ worker[w].i <= Len(PoolOf(w))
      /\ UNCHANGED <<archive, config, noted, plugin, until, paused, store, exhausted, reused, counts>>
  BY DEF Send, Doing
<1>2. /\ worker[w] \in Attempt /\ worker[w].path \in Path /\ worker[w].i \in Nat \ {0}
      /\ On(w) \in Remote
  BY <1>0, <1>1, AtWork
<1>3. PluginKnown' /\ HeldBackAsNeeded'
  BY <1>0, <1>1, HeldUnchanged
<1>4. w \notin Copying
  BY <1>1 DEF Copying, Doing
<1>5. CASE disk[worker[w].path] = None
  <2>1. Settle(w, "failed") /\ partial' = partial
    BY <1>5 DEF Send
  <2>2. /\ job' \in [JobKey -> JobStatus] /\ worker' \in [Worker -> Attempt \cup {None}]
        /\ \A v \in Worker \ {w} : worker'[v] = worker[v]
        /\ AttemptKnown' /\ OneEach' /\ SoonestKnown'
    BY <2>1, <1>1, SettleKeeps DEF JobStatus
  <2>3. TempInFolder' /\ TempFilesOwned'
    BY <2>1, <2>2, <1>0, <1>1, <1>4, TempsStay
  <2>4. TypeOK'
    BY <2>1, <2>2, <1>0, <1>1 DEF TypeOK, archive
  <2> QED BY <2>2, <2>3, <2>4, <1>3 DEF Basics
<1>6. CASE disk[worker[w].path] # None
  <2> DEFINE rec == [worker[w] EXCEPT !.step = "copy", !.got = disk[worker[w].path]]
  <2>1. /\ Go(w, rec) /\ job' = job
        /\ partial' = IF On(w) \in Folder THEN partial \cup {Temp(w)} ELSE partial
    BY <1>6 DEF Send
  <2>2. disk[worker[w].path] \in Files
    BY <1>0, <1>2 DEF TypeOK, Files
  <2>3. /\ rec \in Attempt /\ rec.key = worker[w].key /\ rec.i = worker[w].i
        /\ rec.soonest = worker[w].soonest /\ rec.step = "copy" /\ rec.path = worker[w].path
    BY <1>2, <2>2 DEF Attempt
  <2>4. /\ worker' \in [Worker -> Attempt \cup {None}]
        /\ \A v \in Worker \ {w} : worker'[v] = worker[v]
        /\ AttemptKnown' /\ OneEach' /\ SoonestKnown'
    <3> HIDE DEF rec
    <3> QED BY <2>1, <2>3, <1>1, GoKeeps
  <2>5. worker'[w] = rec /\ rec # None
    <3>1. rec # None
      BY <2>3, Constants
    <3> HIDE DEF rec
    <3> QED BY <3>1, <2>1, <1>0 DEF Go, TypeOK
  <2>6. w \in Copying' /\ Temp(w)' = Temp(w)
    <3> HIDE DEF rec
    <3> QED BY <2>3, <2>5, <1>1 DEF Copying, Doing, Temp, On, PoolOf
  <2>7. \A t \in partial' : t \in partial \/ t = Temp(w)
    BY <2>1
  <2>8. Temp(w) \in Remote \X Path \X (Worker \cup {None})
    BY <1>2 DEF Temp
  <2>9. TempInFolder'
    <3>1. Temp(w) \in partial' => Temp(w)[1] \in Folder \/ Temp(w) \in partial
      BY <2>1 DEF Temp
    <3> QED BY <2>7, <3>1, <1>0 DEF TempInFolder
  <2>10. TempFilesOwned'
    <3> SUFFICES ASSUME NEW t \in partial', t[3] # None, t # Temp(w)
                 PROVE  t \in {Temp(v)' : v \in Copying'}
      BY <2>6 DEF TempFilesOwned
    <3>1. PICK v \in Copying : t = Temp(v)
      BY <2>7, <1>0 DEF TempFilesOwned
    <3>2. v \in Worker \ {w}
      BY <3>1, <1>4 DEF Copying
    <3>3. v \in Copying' /\ Temp(v)' = Temp(v)
      BY <3>1, <3>2, <2>4, <1>1 DEF Copying, Doing, Temp, On, PoolOf
    <3> QED BY <3>1, <3>3
  <2>11. partial' \subseteq Remote \X Path \X (Worker \cup {None})
    BY <2>7, <2>8, <1>0 DEF TypeOK
  <2>12. TypeOK'
    BY <2>1, <2>4, <2>11, <1>0, <1>1 DEF TypeOK, archive
  <2> QED BY <2>4, <2>9, <2>10, <2>12, <1>3 DEF Basics
<1> QED BY <1>5, <1>6

LEMMA PublishBasics ==
  ASSUME Basics, NEW w \in Worker, NEW torn \in BOOLEAN, Publish(w, torn)
  PROVE  Basics'
<1>0. /\ TypeOK /\ PluginKnown /\ AttemptKnown /\ OneEach /\ SoonestKnown
      /\ HeldBackAsNeeded /\ TempInFolder /\ TempFilesOwned
  BY DEF Basics
<1> DEFINE rec == [worker[w] EXCEPT !.step = "verify", !.got = None]
           new == IF torn THEN "torn" ELSE worker[w].got
<1>1. /\ worker[w] # None /\ worker[w].step = "copy"
      /\ UNCHANGED <<archive, config, job, noted, plugin, until, paused, exhausted, reused>>
      /\ store' = [store EXCEPT ![On(w)][worker[w].path] = new]
      /\ partial' = partial \ {Temp(w)}
      /\ Go(w, rec)
  BY DEF Publish, Doing, Discard
<1>2. /\ worker[w] \in Attempt /\ worker[w].path \in Path /\ worker[w].got \in Files
  BY <1>0, <1>1, AtWork
<1>3. On(w) \in Remote
  BY <1>0, <1>1, AtWork DEF AttemptKnown
<1>4. PluginKnown' /\ HeldBackAsNeeded'
  BY <1>0, <1>1, HeldUnchanged
<1>5. /\ rec \in Attempt /\ rec.key = worker[w].key /\ rec.i = worker[w].i
      /\ rec.soonest = worker[w].soonest /\ rec.step = "verify"
  BY <1>2 DEF Attempt, Files
<1>6. /\ worker' \in [Worker -> Attempt \cup {None}]
      /\ \A v \in Worker \ {w} : worker'[v] = worker[v]
      /\ AttemptKnown' /\ OneEach' /\ SoonestKnown'
  <2>1. rec.step # "copy"
    BY <1>5
  <2> HIDE DEF rec
  <2> QED BY <2>1, <1>1, <1>5, GoKeeps
<1>7. TempInFolder' /\ TempFilesOwned'
  BY <1>0, <1>1, <1>6, TempsStay
<1>8. new \in Files
  BY <1>2 DEF Files
<1>9. store' \in [Remote -> [Path -> Files]]
  <2> HIDE DEF new
  <2> QED BY <1>0, <1>1, <1>2, <1>3, <1>8 DEF TypeOK
<1>10. TypeOK'
  BY <1>0, <1>1, <1>6, <1>9 DEF TypeOK, archive
<1> QED BY <1>4, <1>6, <1>7, <1>10 DEF Basics

LEMMA QuotaHitBasics ==
  ASSUME Basics, NEW w \in Worker, QuotaHit(w)
  PROVE  Basics'
<1>0. /\ TypeOK /\ PluginKnown /\ AttemptKnown /\ TempInFolder /\ TempFilesOwned
  BY DEF Basics
<1>1. /\ Doing(w, "copy") /\ FailOver(w) /\ On(w) \notin Folder
      /\ UNCHANGED <<archive, config, job, noted, plugin, paused, remote, reused, counts>>
  BY DEF QuotaHit
<1>2. /\ until' \in [Remote -> Ticks] /\ worker' \in [Worker -> Attempt \cup {None}]
      /\ \A v \in Worker \ {w} : worker'[v] = worker[v]
      /\ AttemptKnown' /\ OneEach' /\ SoonestKnown' /\ PluginKnown' /\ HeldBackAsNeeded'
  BY <1>1, FailOverKeeps
<1>3. partial' = partial /\ Temp(w) \notin partial
  BY <1>0, <1>1 DEF remote, TempInFolder, Temp
<1>4. TempInFolder' /\ TempFilesOwned'
  BY <1>0, <1>1, <1>2, <1>3, TempsStay
<1>5. TypeOK'
  BY <1>0, <1>1, <1>2 DEF TypeOK, archive, remote
<1> QED BY <1>2, <1>4, <1>5 DEF Basics

LEMMA RefuseBasics ==
  ASSUME Basics, NEW w \in Worker, NEW text \in {"plain", "429"}, Refuse(w, text)
  PROVE  Basics'
<1>0. /\ TypeOK /\ PluginKnown /\ AttemptKnown /\ HeldBackAsNeeded
      /\ TempInFolder /\ TempFilesOwned
  BY DEF Basics
<1>1. /\ Doing(w, "copy") /\ worker[w] # None
      /\ partial' = partial \ {Temp(w)}
      /\ UNCHANGED <<archive, config, noted, plugin, paused, store, exhausted, reused>>
  BY DEF Refuse, Discard, Doing
<1>2. /\ until' \in [Remote -> Ticks] /\ worker' \in [Worker -> Attempt \cup {None}]
      /\ job' \in [JobKey -> JobStatus]
      /\ \A v \in Worker \ {w} : worker'[v] = worker[v]
      /\ AttemptKnown' /\ OneEach' /\ SoonestKnown' /\ PluginKnown' /\ HeldBackAsNeeded'
  <2>1. CASE text = "429"
    <3>1. FailOver(w) /\ job' = job
      BY <2>1 DEF Refuse
    <3>2. job' \in [JobKey -> JobStatus]
      BY <3>1, <1>0 DEF TypeOK
    <3> QED BY <3>1, <3>2, <1>1, FailOverKeeps
  <2>2. CASE text # "429"
    <3>1. Settle(w, "failed") /\ until' = until
      BY <2>2 DEF Refuse
    <3>2. PluginKnown' /\ HeldBackAsNeeded'
      BY <3>1, <1>0, <1>1, HeldUnchanged
    <3>3. until' \in [Remote -> Ticks]
      BY <3>1, <1>0 DEF TypeOK
    <3> QED BY <3>1, <3>2, <3>3, <1>1, SettleKeeps DEF JobStatus
  <2> QED BY <2>1, <2>2
<1>4. TempInFolder' /\ TempFilesOwned'
  BY <1>0, <1>1, <1>2, TempsStay
<1>5. TypeOK'
  BY <1>0, <1>1, <1>2 DEF TypeOK, archive
<1> QED BY <1>2, <1>4, <1>5 DEF Basics

\* The provider waits for the soonest of its remotes, which all cool that long.
LEMMA CoolDownBasics ==
  ASSUME Basics, NEW w \in Worker, CoolDown(w)
  PROVE  Basics'
<1>0. /\ TypeOK /\ PluginKnown /\ AttemptKnown /\ OneEach /\ SoonestKnown
      /\ HeldBackAsNeeded /\ TempInFolder /\ TempFilesOwned
  BY DEF Basics
<1> DEFINE p == worker[w].key[2]
           t == worker[w].soonest
<1>1. /\ worker[w] # None /\ worker[w].step = "next" /\ worker[w].i > Len(PoolOf(w))
      /\ Settle(w, "pending")
      /\ paused' = [paused EXCEPT ![p] = IF t > @ THEN t ELSE @]
      /\ UNCHANGED <<archive, config, noted, plugin, until, remote, reused, counts>>
  BY DEF CoolDown, Doing
<1>2. /\ p \in Provider /\ t \in Ticks \cup {None}
      /\ worker[w].i \in Nat /\ worker[w].i <= Len(PoolOf(w)) + 1
      /\ PoolOf(w) \in Seq(Remote) /\ Len(PoolOf(w)) \in Nat \ {0}
      /\ plugin[p] \in Plugins
  BY <1>0, <1>1, AtWork
<1>3. worker[w].i - 1 = Len(PoolOf(w))
  <2> HIDE DEF PoolOf
  <2> QED BY <1>1, <1>2
<1>4. t \in Ticks /\ \A j \in 1..Len(PoolOf(w)) : until[PoolOf(w)[j]] >= t
  <2>1. \A j \in 1..Len(PoolOf(w)) : t # None /\ until[PoolOf(w)[j]] >= t
    BY <1>0, <1>1, <1>3 DEF SoonestKnown
  <2>2. 1 \in 1..Len(PoolOf(w))
    <3> HIDE DEF PoolOf
    <3> QED BY <1>2
  <2> QED BY <1>2, <2>1, <2>2
<1>5. /\ job' \in [JobKey -> JobStatus] /\ worker' \in [Worker -> Attempt \cup {None}]
      /\ \A v \in Worker \ {w} : worker'[v] = worker[v]
      /\ AttemptKnown' /\ OneEach' /\ SoonestKnown'
  BY <1>1, SettleKeeps DEF JobStatus
<1>6. paused' \in [Provider -> Ticks]
  BY <1>0, <1>1, <1>2, <1>4 DEF TypeOK
<1>7. \A q \in Provider : paused'[q] = IF q = p THEN IF t > paused[p] THEN t ELSE paused[p] ELSE paused[q]
  BY <1>0, <1>1 DEF TypeOK
<1>8. ASSUME NEW q \in Provider
      PROVE  \/ paused'[q] = paused[q]
             \/ plugin[q] # None /\ \A r \in ToSet(plugin[q].pool) : until'[r] >= paused'[q]
  <2>1. CASE q # p
    BY <1>7, <2>1
  <2>2. CASE q = p /\ ~(t > paused[p])
    BY <1>7, <2>2
  <2>3. CASE q = p /\ t > paused[p]
    <3>1. paused'[q] = t /\ plugin[q] # None
      BY <1>2, <1>7, <2>3, Constants
    <3>2. ASSUME NEW r \in ToSet(plugin[q].pool) PROVE until[r] >= t
      <4>1. PICK j \in 1..Len(PoolOf(w)) : r = PoolOf(w)[j]
        BY <1>2, <2>3 DEF ToSet, PoolOf
      <4> QED BY <4>1, <1>4
    <3> QED BY <3>1, <3>2, <1>1
  <2> QED BY <2>1, <2>2, <2>3
<1>9. \A r \in Remote : until[r] \in Ticks /\ until'[r] \in Ticks /\ until'[r] >= until[r]
  BY <1>0, <1>1 DEF TypeOK, Ticks
<1>10. PluginKnown' /\ HeldBackAsNeeded'
  BY <1>0, <1>1, <1>8, <1>9, HeldStays
<1>11. TempInFolder' /\ TempFilesOwned'
  <2>1. w \notin Copying /\ partial' = partial
    BY <1>1 DEF Copying, Doing, remote
  <2> QED BY <2>1, <1>0, <1>1, <1>5, TempsStay
<1>12. TypeOK'
  BY <1>0, <1>1, <1>5, <1>6 DEF TypeOK, archive, remote
<1> QED BY <1>5, <1>10, <1>11, <1>12 DEF Basics

LEMMA VerifyBasics ==
  ASSUME Basics, NEW w \in Worker, Verify(w)
  PROVE  Basics'
<1>0. /\ TypeOK /\ PluginKnown /\ AttemptKnown /\ HeldBackAsNeeded
      /\ TempInFolder /\ TempFilesOwned
  BY DEF Basics
<1>1. /\ worker[w] # None /\ worker[w].step = "verify"
      /\ UNCHANGED <<archive, config, noted, plugin, until, paused, remote, reused>>
  BY DEF Verify, Doing
<1>2. PICK ok \in BOOLEAN :
         IF ok \/ Mirror(w)
         THEN Go(w, [worker[w] EXCEPT !.step = "record", !.note = ~ok]) /\ job' = job
         ELSE Settle(w, "failed")
  BY DEF Verify
<1>3. /\ job' \in [JobKey -> JobStatus] /\ worker' \in [Worker -> Attempt \cup {None}]
      /\ \A v \in Worker \ {w} : worker'[v] = worker[v]
      /\ AttemptKnown' /\ OneEach' /\ SoonestKnown'
  <2>1. CASE ok \/ Mirror(w)
    <3> DEFINE rec == [worker[w] EXCEPT !.step = "record", !.note = ~ok]
    <3>1. Go(w, rec) /\ job' = job
      BY <1>2, <2>1
    <3>2. worker[w] \in Attempt /\ (~ok) \in BOOLEAN
      BY <1>0, <1>1, AtWork
    <3>3. /\ rec \in Attempt /\ rec.key = worker[w].key /\ rec.i = worker[w].i
          /\ rec.soonest = worker[w].soonest /\ rec.step = "record"
      BY <3>2 DEF Attempt
    <3>4. rec.step # "copy"
      BY <3>3
    <3>5. job' \in [JobKey -> JobStatus]
      BY <3>1, <1>0 DEF TypeOK
    <3> HIDE DEF rec
    <3> QED BY <3>1, <3>3, <3>4, <3>5, <1>1, GoKeeps
  <2>2. CASE ~(ok \/ Mirror(w))
    <3>1. Settle(w, "failed")
      BY <1>2, <2>2
    <3> QED BY <3>1, <1>1, SettleKeeps DEF JobStatus
  <2> QED BY <2>1, <2>2
<1>4. PluginKnown' /\ HeldBackAsNeeded'
  BY <1>0, <1>1, HeldUnchanged
<1>5. TempInFolder' /\ TempFilesOwned'
  <2>1. w \notin Copying /\ partial' = partial
    BY <1>1 DEF Copying, Doing, remote
  <2> QED BY <2>1, <1>0, <1>1, <1>3, TempsStay
<1>6. TypeOK'
  BY <1>0, <1>1, <1>3 DEF TypeOK, archive, remote
<1> QED BY <1>3, <1>4, <1>5, <1>6 DEF Basics

LEMMA RecordBasics ==
  ASSUME Basics, NEW w \in Worker, Record(w)
  PROVE  Basics'
<1>0. /\ TypeOK /\ PluginKnown /\ AttemptKnown /\ HeldBackAsNeeded
      /\ TempInFolder /\ TempFilesOwned
  BY DEF Basics
<1>1. /\ worker[w] # None /\ worker[w].step = "record" /\ Settle(w, "completed")
      /\ noted' \subseteq noted \cup {worker[w].key}
      /\ UNCHANGED <<archive, config, plugin, until, paused, remote, reused, counts>>
  BY DEF Record, Doing
<1>2. worker[w].key \in JobKey
  BY <1>0, <1>1, AtWork
<1>3. /\ job' \in [JobKey -> JobStatus] /\ worker' \in [Worker -> Attempt \cup {None}]
      /\ \A v \in Worker \ {w} : worker'[v] = worker[v]
      /\ AttemptKnown' /\ OneEach' /\ SoonestKnown'
  BY <1>1, SettleKeeps DEF JobStatus
<1>4. PluginKnown' /\ HeldBackAsNeeded'
  BY <1>0, <1>1, HeldUnchanged
<1>5. TempInFolder' /\ TempFilesOwned'
  <2>1. w \notin Copying /\ partial' = partial
    BY <1>1 DEF Copying, Doing, remote
  <2> QED BY <2>1, <1>0, <1>1, <1>3, TempsStay
<1>6. TypeOK'
  BY <1>0, <1>1, <1>2, <1>3 DEF TypeOK, archive, remote
<1> QED BY <1>3, <1>4, <1>5, <1>6 DEF Basics

(* Every step keeps the basics: a claim, the process, the world. *)

LEMMA Initialized ==
  ASSUME TypeOK, PluginKnown, NEW p \in Provider, Initialize(p)
  PROVE  /\ plugin' \in [Provider -> Plugins \cup {None}]
         /\ plugin'[p] # None
         /\ \A q \in Provider : plugin[q] # None \/ q # p => plugin'[q] = plugin[q]
         /\ \A q \in Provider : plugin'[q] # None => plugin'[q].pool = Pool(config[q])
<1>1. CASE plugin[p] # None
  <2>1. plugin' = plugin
    BY <1>1 DEF Initialize
  <2> QED BY <1>1, <2>1 DEF TypeOK, PluginKnown
<1>2. CASE plugin[p] = None
  <2>1. PICK album \in SUBSET (Photos \cap ToSet(Pool(config[p]))) :
           plugin' = [plugin EXCEPT ![p] = [pool |-> Pool(config[p]), album |-> album]]
    BY <1>2 DEF Initialize
  <2> DEFINE new == [pool |-> Pool(config[p]), album |-> album]
  <2>2. new \in Plugins /\ new # None
    BY PoolTyped, Constants DEF Plugins
  <2>3. new.pool = Pool(config[p])
    OBVIOUS
  <2>4. plugin' = [plugin EXCEPT ![p] = new]
    BY <2>1
  <2> HIDE DEF new
  <2> QED BY <1>2, <2>2, <2>3, <2>4 DEF TypeOK, PluginKnown
<1> QED BY <1>1, <1>2

LEMMA ClaimBasics ==
  ASSUME Basics, NEW w \in Worker, NEW k \in JobKey, Claim(w, k)
  PROVE  Basics'
<1>0. /\ TypeOK /\ PluginKnown /\ AttemptKnown /\ OneEach /\ SoonestKnown
      /\ HeldBackAsNeeded /\ TempInFolder /\ TempFilesOwned
  BY DEF Basics
<1> DEFINE rec == [key |-> k, path |-> at[k[1]], step |-> "next", i |-> 1,
                   soonest |-> None, got |-> None, note |-> FALSE]
<1>1. /\ worker[w] = None /\ job[k] = "pending" /\ Initialize(k[2])
      /\ job' = [job EXCEPT ![k] = "running"]
      /\ worker' = [worker EXCEPT ![w] = rec]
      /\ UNCHANGED <<archive, config, noted, until, paused, remote, reused, counts>>
  BY DEF Claim, Go
<1>2. k[1] \in Asset /\ k[2] \in Provider
  BY DEF JobKey
<1>3. /\ plugin' \in [Provider -> Plugins \cup {None}]
      /\ plugin'[k[2]] # None
      /\ \A q \in Provider : plugin[q] # None => plugin'[q] = plugin[q]
      /\ \A q \in Provider : plugin'[q] # None => plugin'[q].pool = Pool(config[q])
  BY <1>0, <1>1, <1>2, Initialized
<1>4. /\ rec \in Attempt /\ rec # None /\ rec.key = k /\ rec.i = 1 /\ rec.step = "next"
  <2>1. at[k[1]] \in Path
    BY <1>0, <1>2 DEF TypeOK
  <2>2. rec \in Attempt
    BY <2>1 DEF Attempt, Files
  <2> QED BY <2>2, Constants
<1>5. /\ worker'[w] = rec
      /\ \A v \in Worker \ {w} : worker'[v] = worker[v]
      /\ worker' \in [Worker -> Attempt \cup {None}]
  <2> HIDE DEF rec
  <2> QED BY <1>0, <1>1, <1>4 DEF TypeOK
<1>6. ASSUME NEW v \in Worker \ {w}, worker[v] # None
      PROVE  /\ worker[v].key # k /\ worker[v].key \in JobKey
             /\ job'[worker[v].key] = "running"
             /\ plugin'[worker[v].key[2]] = plugin[worker[v].key[2]]
             /\ plugin[worker[v].key[2]] # None
             /\ PoolOf(v)' = PoolOf(v)
  <2>1. worker[v].key \in JobKey /\ worker[v].key[2] \in Provider
    BY <1>0, <1>6, AtWork
  <2>2. job[worker[v].key] = "running" /\ plugin[worker[v].key[2]] # None
    BY <1>0, <1>6 DEF AttemptKnown
  <2>3. worker[v].key # k
    BY <1>1, <2>2
  <2>4. job'[worker[v].key] = "running"
    BY <1>0, <1>1, <2>1, <2>2, <2>3 DEF TypeOK
  <2>5. plugin'[worker[v].key[2]] = plugin[worker[v].key[2]]
    BY <1>3, <2>1, <2>2
  <2>6. PoolOf(v)' = PoolOf(v)
    BY <1>5, <2>5 DEF PoolOf
  <2> QED BY <2>1, <2>2, <2>3, <2>4, <2>5, <2>6
<1>7. Len(PoolOf(w)') \in Nat
  <2>1. PoolOf(w)' = plugin'[k[2]].pool
    <3> HIDE DEF rec
    <3> QED BY <1>4, <1>5 DEF PoolOf
  <2>2. plugin'[k[2]].pool \in Seq(Remote)
    BY <1>2, <1>3 DEF Plugins
  <2> QED BY <2>1, <2>2
<1>8. AttemptKnown'
  <2> SUFFICES ASSUME NEW v \in Worker, worker'[v] # None
               PROVE  /\ plugin'[worker'[v].key[2]] # None
                      /\ job'[worker'[v].key] = "running"
                      /\ worker'[v].i \in 1..(Len(PoolOf(v)') + 1)
                      /\ worker'[v].step = "copy" => worker'[v].i <= Len(PoolOf(v)')
    BY DEF AttemptKnown
  <2>1. CASE v = w
    <3>1. job'[k] = "running"
      BY <1>0, <1>1 DEF TypeOK
    <3> HIDE DEF rec
    <3>2. 1 \in 1..(Len(PoolOf(v)') + 1)
      <4> HIDE DEF PoolOf
      <4> QED BY <1>7, <2>1
    <3> QED BY <2>1, <3>1, <3>2, <1>3, <1>4, <1>5
  <2>2. CASE v # w
    BY <2>2, <1>0, <1>5, <1>6 DEF AttemptKnown
  <2> QED BY <2>1, <2>2
<1>9. OneEach'
  <2> SUFFICES ASSUME NEW u \in Worker, NEW v \in Worker,
                      u # v, worker'[u] # None, worker'[v] # None
               PROVE  worker'[u].key # worker'[v].key
    BY DEF OneEach
  <2> HIDE DEF rec
  <2>1. CASE u = w
    BY <2>1, <1>4, <1>5, <1>6
  <2>2. CASE v = w
    BY <2>2, <1>4, <1>5, <1>6
  <2>3. CASE u # w /\ v # w
    BY <2>3, <1>0, <1>5 DEF OneEach
  <2> QED BY <2>1, <2>2, <2>3
<1>10. SoonestKnown'
  <2> SUFFICES ASSUME NEW v \in Worker, worker'[v] # None, NEW j \in 1..(worker'[v].i - 1)
               PROVE  worker'[v].soonest # None /\ until'[PoolOf(v)'[j]] >= worker'[v].soonest
    BY DEF SoonestKnown
  <2> HIDE DEF rec
  <2>1. CASE v = w
    BY <2>1, <1>4, <1>5
  <2>2. CASE v # w
    BY <2>2, <1>0, <1>1, <1>5, <1>6 DEF SoonestKnown
  <2> QED BY <2>1, <2>2
<1>11. PluginKnown' /\ HeldBackAsNeeded'
  <2>1. ASSUME NEW q \in Provider, paused'[q] > 0
        PROVE  plugin'[q] # None /\ plugin'[q] = plugin[q]
    BY <2>1, <1>0, <1>1, <1>3 DEF PluginKnown
  <2>2. config' = config /\ paused' = paused /\ until' = until
    BY <1>1
  <2>3. ASSUME NEW q \in Provider
        PROVE  Valid(config'[q]) /\ (plugin'[q] # None => plugin'[q].pool = Pool(config'[q]))
    BY <2>2, <1>0, <1>3 DEF PluginKnown
  <2> QED BY <2>1, <2>2, <2>3, <1>0 DEF PluginKnown, HeldBackAsNeeded
<1>12. TempInFolder' /\ TempFilesOwned'
  <2>1. partial' = partial
    BY <1>1 DEF remote
  <2>2. ASSUME NEW v \in Copying PROVE v \in Copying' /\ Temp(v)' = Temp(v)
    <3>1. v \in Worker \ {w} /\ worker[v] # None
      BY <1>1 DEF Copying, Doing
    <3>2. worker'[v] = worker[v] /\ PoolOf(v)' = PoolOf(v)
      BY <3>1, <1>5, <1>6
    <3> QED BY <3>1, <3>2 DEF Copying, Doing, Temp, On
  <2> QED BY <2>1, <2>2, <1>0 DEF TempInFolder, TempFilesOwned
<1>13. TypeOK'
  <2>1. job' \in [JobKey -> JobStatus]
    BY <1>0, <1>1 DEF TypeOK, JobStatus
  <2> HIDE DEF rec
  <2> QED BY <2>1, <1>0, <1>1, <1>3, <1>5 DEF TypeOK, archive, remote
<1> QED BY <1>8, <1>9, <1>10, <1>11, <1>12, <1>13 DEF Basics

\* A step that is none of the workers', nor of their remotes.
LEMMA AsideBasics ==
  ASSUME Basics, TypeOK',
         UNCHANGED <<config, plugin, worker, until, paused, partial>>,
         \A k \in JobKey : job[k] = "running" => job'[k] = "running"
  PROVE  Basics'
<1>0. /\ TypeOK /\ PluginKnown /\ AttemptKnown /\ OneEach /\ SoonestKnown
      /\ HeldBackAsNeeded /\ TempInFolder /\ TempFilesOwned
  BY DEF Basics
<1>1. PluginKnown' /\ HeldBackAsNeeded'
  BY <1>0, HeldUnchanged
<1>2. OneEach' /\ SoonestKnown' /\ TempInFolder'
  BY <1>0 DEF OneEach, SoonestKnown, TempInFolder, PoolOf
<1>3. TempFilesOwned'
  BY <1>0 DEF TempFilesOwned, Copying, Doing, Temp, On, PoolOf
<1>4. AttemptKnown'
  <2>1. \A v \in Worker : worker[v] # None => worker[v].key \in JobKey
    BY <1>0, AtWork
  <2>2. \A v \in Worker : PoolOf(v)' = PoolOf(v)
    BY DEF PoolOf
  <2> QED BY <2>1, <2>2, <1>0 DEF AttemptKnown
<1> QED BY <1>1, <1>2, <1>3, <1>4 DEF Basics

LEMMA ClaimUnreadyBasics ==
  ASSUME Basics, NEW w \in Worker, NEW k \in JobKey, ClaimUnready(w, k)
  PROVE  Basics'
<1>1. TypeOK
  BY DEF Basics
<1>2. /\ job[k] = "pending" /\ job' = [job EXCEPT ![k] = "failed"]
      /\ UNCHANGED <<archive, config, noted, memory, remote, reused>>
  BY DEF ClaimUnready
<1>3. TypeOK'
  BY <1>1, <1>2 DEF TypeOK, archive, memory, remote, JobStatus
<1>4. \A q \in JobKey : job[q] = "running" => job'[q] = "running"
  BY <1>1, <1>2 DEF TypeOK
<1> QED BY <1>2, <1>3, <1>4, AsideBasics DEF memory, remote

LEMMA RetryBasics ==
  ASSUME Basics, NEW k \in JobKey, Retry(k)
  PROVE  Basics'
<1>1. TypeOK
  BY DEF Basics
<1>2. /\ job[k] = "failed" /\ job' = [job EXCEPT ![k] = "pending"]
      /\ UNCHANGED <<archive, config, noted, memory, remote, reused>>
  BY DEF Retry
<1>3. TypeOK'
  BY <1>1, <1>2 DEF TypeOK, archive, memory, remote, JobStatus
<1>4. \A q \in JobKey : job[q] = "running" => job'[q] = "running"
  BY <1>1, <1>2 DEF TypeOK
<1> QED BY <1>2, <1>3, <1>4, AsideBasics DEF memory, remote

LEMMA AtRiskTyped ==
  ASSUME TypeOK, NEW a \in Asset, NEW x
  PROVE  AtRisk(a, x) \subseteq JobKey
<1>1. InHand(a, x) \subseteq JobKey
  BY DEF InHand, TypeOK, Attempt
<1>2. {a} \X Provider \subseteq JobKey
  BY DEF JobKey
<1> QED BY <1>1, <1>2 DEF AtRisk

LEMMA MoveFileBasics ==
  ASSUME Basics, NEW a \in Asset, NEW to \in Path, MoveFile(a, to)
  PROVE  Basics'
<1>1. TypeOK
  BY DEF Basics
<1>2. /\ disk' = [disk EXCEPT ![at[a]] = None, ![to] = a]
      /\ moving' = [asset |-> a, to |-> to]
      /\ reused' = reused \cup AtRisk(a, to)
      /\ UNCHANGED <<at, config, job, noted, memory, remote>>
  BY DEF MoveFile
<1>3. TypeOK'
  <2>1. reused' \subseteq JobKey
    BY <1>1, <1>2, AtRiskTyped DEF TypeOK
  <2>2. disk' \in [Path -> Asset \cup {None}]
    BY <1>1, <1>2 DEF TypeOK
  <2>3. moving' \in Move \cup {None}
    BY <1>2 DEF Move
  <2> QED BY <2>1, <2>2, <2>3, <1>1, <1>2 DEF TypeOK, memory, remote
<1> QED BY <1>2, <1>3, AsideBasics DEF memory, remote

LEMMA MoveRowBasics ==
  ASSUME Basics, MoveRow
  PROVE  Basics'
<1>1. TypeOK
  BY DEF Basics
<1>2. /\ moving # None
      /\ at' = [at EXCEPT ![moving.asset] = moving.to] /\ moving' = None
      /\ UNCHANGED <<disk, config, job, noted, memory, remote, reused, counts>>
  BY DEF MoveRow
<1>3. moving.asset \in Asset /\ moving.to \in Path
  BY <1>1, <1>2 DEF TypeOK, Move
<1>4. TypeOK'
  BY <1>1, <1>2, <1>3 DEF TypeOK, memory, remote
<1> QED BY <1>2, <1>4, AsideBasics DEF memory, remote

LEMMA QuotaBasics ==
  ASSUME Basics, Refill \/ \E r \in Remote : Exhaust(r)
  PROVE  Basics'
<1>1. TypeOK
  BY DEF Basics
<1>2. /\ exhausted' \subseteq Remote
      /\ UNCHANGED <<archive, config, job, noted, memory, store, partial, reused>>
  BY <1>1 DEF Refill, Exhaust, TypeOK
<1>3. TypeOK'
  BY <1>1, <1>2 DEF TypeOK, archive, memory
<1> QED BY <1>2, <1>3, AsideBasics DEF memory

LEMMA RestartBasics ==
  ASSUME Basics, NEW crash \in BOOLEAN, Restart(crash)
  PROVE  Basics'
<1>0. TypeOK /\ PluginKnown /\ TempInFolder /\ TempFilesOwned
  BY DEF Basics
<1>1. /\ worker' = [w \in Worker |-> None]
      /\ job' = [k \in JobKey |-> IF job[k] = "running" THEN "pending" ELSE job[k]]
      /\ partial' = IF crash THEN {<<t[1], t[2], None>> : t \in partial}
                    ELSE partial \ {Temp(w) : w \in Copying}
      /\ plugin' = [p \in Provider |-> None]
      /\ until' = [r \in Remote |-> 0]
      /\ paused' = [p \in Provider |-> 0]
      /\ UNCHANGED <<archive, config, noted, store, exhausted, reused>>
  BY DEF Restart
<1>2. AttemptKnown' /\ OneEach' /\ SoonestKnown'
  BY <1>1 DEF AttemptKnown, OneEach, SoonestKnown
<1>3. HeldBackAsNeeded'
  BY <1>1 DEF HeldBackAsNeeded
<1>4. PluginKnown'
  <2>1. ASSUME NEW p \in Provider
        PROVE  Valid(config'[p]) /\ plugin'[p] = None /\ ~(paused'[p] > 0)
    BY <1>0, <1>1 DEF PluginKnown
  <2> QED BY <2>1 DEF PluginKnown
<1>5. /\ TempInFolder' /\ \A t \in partial' : t[3] = None
      /\ partial' \subseteq Remote \X Path \X (Worker \cup {None})
  <2>1. CASE crash
    <3>1. partial' = {<<t[1], t[2], None>> : t \in partial}
      BY <1>1, <2>1
    <3> QED BY <3>1, <1>0 DEF TempInFolder, TypeOK
  <2>2. CASE ~crash
    BY <2>2, <1>0, <1>1 DEF TempInFolder, TempFilesOwned, TypeOK
  <2> QED BY <2>1, <2>2
<1>6. TempFilesOwned'
  BY <1>5 DEF TempFilesOwned
<1>7. TypeOK'
  <2>1. 0 \in Ticks
    BY Constants DEF Ticks
  <2>2. job' \in [JobKey -> JobStatus]
    BY <1>0, <1>1 DEF TypeOK, JobStatus
  <2>3. /\ worker' \in [Worker -> Attempt \cup {None}] /\ plugin' \in [Provider -> Plugins \cup {None}]
        /\ until' \in [Remote -> Ticks] /\ paused' \in [Provider -> Ticks]
    BY <1>1, <2>1
  <2> QED BY <2>2, <2>3, <1>0, <1>1, <1>5 DEF TypeOK, archive
<1> QED BY <1>2, <1>3, <1>4, <1>5, <1>6, <1>7 DEF Basics

\* Time goes by alike for the remotes, the providers and what a worker met.
LEMMA TickBasics ==
  ASSUME Basics, Tick
  PROVE  Basics'
<1>0. /\ TypeOK /\ PluginKnown /\ AttemptKnown /\ OneEach /\ SoonestKnown
      /\ HeldBackAsNeeded /\ TempInFolder /\ TempFilesOwned
  BY DEF Basics
<1>1. /\ until' = [r \in Remote |-> Less(until[r])]
      /\ paused' = [p \in Provider |-> Less(paused[p])]
      /\ worker' = [w \in Worker |-> IF worker[w] = None THEN None
                                     ELSE [worker[w] EXCEPT !.soonest = Less(@)]]
      /\ UNCHANGED <<archive, config, job, noted, plugin, remote, reused, counts>>
  BY DEF Tick
<1>2. ASSUME NEW w \in Worker, worker[w] # None
      PROVE  /\ worker'[w] \in Attempt /\ worker'[w] # None
             /\ worker'[w].key = worker[w].key /\ worker'[w].path = worker[w].path
             /\ worker'[w].step = worker[w].step /\ worker'[w].i = worker[w].i
             /\ worker'[w].note = worker[w].note
             /\ worker'[w].soonest = Less(worker[w].soonest)
             /\ PoolOf(w)' = PoolOf(w)
  <2>1. worker[w] \in Attempt /\ worker[w].soonest \in Ticks \cup {None}
    BY <1>0, <1>2, AtWork
  <2>2. Less(worker[w].soonest) \in Ticks \cup {None}
    BY <2>1, LessTyped
  <2> DEFINE l == Less(worker[w].soonest)
  <2>3. worker'[w] = [worker[w] EXCEPT !.soonest = l]
    BY <1>1, <1>2, <2>1 DEF Attempt
  <2>4. /\ worker'[w] \in Attempt
        /\ worker'[w].key = worker[w].key /\ worker'[w].path = worker[w].path
        /\ worker'[w].step = worker[w].step /\ worker'[w].i = worker[w].i
        /\ worker'[w].note = worker[w].note /\ worker'[w].soonest = l
    <3> HIDE DEF l
    <3>1. l \in Ticks \cup {None}
      BY <2>2 DEF l
    <3> QED BY <2>1, <2>3, <3>1 DEF Attempt
  <2>5. PoolOf(w)' = PoolOf(w)
    BY <2>4, <1>1 DEF PoolOf
  <2> QED BY <2>4, <2>5, Constants
<1>3. \A w \in Worker : worker'[w] # None => worker[w] # None
  BY <1>1
<1>4. AttemptKnown'
  BY <1>0, <1>1, <1>2, <1>3 DEF AttemptKnown
<1>5. OneEach'
  BY <1>0, <1>2, <1>3 DEF OneEach
<1>6. SoonestKnown'
  <2> SUFFICES ASSUME NEW w \in Worker, worker'[w] # None, NEW j \in 1..(worker'[w].i - 1)
               PROVE  worker'[w].soonest # None /\ until'[PoolOf(w)'[j]] >= worker'[w].soonest
    BY DEF SoonestKnown
  <2>1. /\ worker[w] # None /\ j \in 1..(worker[w].i - 1)
        /\ worker'[w].soonest = Less(worker[w].soonest) /\ PoolOf(w)' = PoolOf(w)
    BY <1>2, <1>3
  <2>2. worker[w].soonest # None /\ until[PoolOf(w)[j]] >= worker[w].soonest
    BY <2>1, <1>0 DEF SoonestKnown
  <2>3. /\ PoolOf(w) \in Seq(Remote) /\ Len(PoolOf(w)) \in Nat
        /\ worker[w].i \in Nat /\ worker[w].i <= Len(PoolOf(w)) + 1
        /\ worker[w].soonest \in Ticks
    BY <2>1, <2>2, <1>0, AtWork
  <2>4. PoolOf(w)[j] \in Remote
    <3>1. j \in 1..Len(PoolOf(w))
      <4> HIDE DEF PoolOf
      <4> QED BY <2>1, <2>3
    <3> HIDE DEF PoolOf
    <3> QED BY <2>3, <3>1
  <2>5. until[PoolOf(w)[j]] \in Ticks /\ until'[PoolOf(w)[j]] = Less(until[PoolOf(w)[j]])
    BY <2>4, <1>0, <1>1 DEF TypeOK
  <2>6. /\ Less(worker[w].soonest) <= Less(until[PoolOf(w)[j]])
        /\ Less(worker[w].soonest) \in Ticks /\ Less(until[PoolOf(w)[j]]) \in Ticks
    <3> HIDE DEF PoolOf
    <3>1. worker[w].soonest <= until[PoolOf(w)[j]]
      BY <2>2, <2>3, <2>5 DEF Ticks
    <3> QED BY <3>1, <2>3, <2>5, LessTyped
  <2>7. Less(until[PoolOf(w)[j]]) >= Less(worker[w].soonest)
    <3> HIDE DEF PoolOf
    <3> QED BY <2>6 DEF Ticks
  <2> QED BY <2>1, <2>5, <2>6, <2>7, Constants
<1>7. \A p \in Provider : paused'[p] > 0 => paused[p] > 0
  BY <1>0, <1>1, LessTyped DEF TypeOK
<1>8. PluginKnown'
  <2>1. ASSUME NEW p \in Provider
        PROVE  /\ Valid(config'[p])
               /\ plugin'[p] # None => plugin'[p].pool = Pool(config'[p])
               /\ paused'[p] > 0 => plugin'[p] # None
    BY <1>0, <1>1, <1>7 DEF PluginKnown
  <2> QED BY <2>1 DEF PluginKnown
<1>9. HeldBackAsNeeded'
  <2> SUFFICES ASSUME NEW p \in Provider, paused'[p] > 0, NEW r \in ToSet(plugin'[p].pool)
               PROVE  until'[r] >= paused'[p]
    BY DEF HeldBackAsNeeded
  <2>1. paused[p] > 0 /\ plugin[p] # None /\ r \in ToSet(plugin[p].pool)
    BY <1>0, <1>1, <1>7 DEF PluginKnown
  <2>2. until[r] >= paused[p]
    BY <2>1, <1>0 DEF HeldBackAsNeeded
  <2>3. plugin[p].pool \in Seq(Remote)
    BY <2>1, <1>0 DEF TypeOK, Plugins
  <2>4. r \in Remote
    BY <2>1, <2>3 DEF ToSet
  <2>5. /\ until[r] \in Ticks /\ paused[p] \in Ticks
        /\ until'[r] = Less(until[r]) /\ paused'[p] = Less(paused[p])
    BY <2>4, <1>0, <1>1 DEF TypeOK
  <2>6. paused[p] <= until[r]
    BY <2>2, <2>5 DEF Ticks
  <2>7. Less(paused[p]) <= Less(until[r]) /\ Less(paused[p]) \in Ticks /\ Less(until[r]) \in Ticks
    BY <2>5, <2>6, LessTyped
  <2> QED BY <2>5, <2>7 DEF Ticks
<1>10. TempInFolder' /\ TempFilesOwned'
  <2>1. partial' = partial
    BY <1>1 DEF remote
  <2>2. ASSUME NEW v \in Copying PROVE v \in Copying' /\ Temp(v)' = Temp(v)
    <3>1. v \in Worker /\ worker[v] # None
      BY DEF Copying, Doing
    <3> QED BY <3>1, <1>2 DEF Copying, Doing, Temp, On
  <2> QED BY <2>1, <2>2, <1>0 DEF TempInFolder, TempFilesOwned
<1>11. TypeOK'
  <2>1. worker' \in [Worker -> Attempt \cup {None}]
    BY <1>1, <1>2
  <2>2. until' \in [Remote -> Ticks] /\ paused' \in [Provider -> Ticks]
    BY <1>0, <1>1, LessTyped DEF TypeOK
  <2> QED BY <2>1, <2>2, <1>0, <1>1 DEF TypeOK, archive, remote
<1> QED BY <1>4, <1>5, <1>6, <1>8, <1>9, <1>10, <1>11 DEF Basics

LEMMA InitBasics ==
  ASSUME Init
  PROVE  Basics
<1>1. /\ at = Home
      /\ disk = [x \in Path |-> IF \E a \in Asset : at[a] = x
                                THEN CHOOSE a \in Asset : at[a] = x ELSE None]
      /\ moving = None /\ config \in [Provider -> {c \in Configs : Valid(c)}]
      /\ plugin = [p \in Provider |-> None] /\ job = [k \in JobKey |-> "pending"]
      /\ noted = {} /\ worker = [w \in Worker |-> None]
      /\ store = [r \in Remote |-> [x \in Path |-> None]]
      /\ partial = {} /\ until = [r \in Remote |-> 0] /\ paused = [p \in Provider |-> 0]
      /\ exhausted = {} /\ reused = {}
  BY DEF Init
<1>2. disk \in [Path -> Asset \cup {None}]
  BY <1>1
<1>3. at \in [Asset -> Path]
  BY <1>1, DestinationsAssumption
<1>4. 0 \in Ticks /\ None \in Files /\ "pending" \in JobStatus
  BY Constants DEF Ticks, Files, JobStatus
<1>5. config \in [Provider -> Configs] /\ \A p \in Provider : Valid(config[p])
  BY <1>1
<1>6. TypeOK
  BY <1>1, <1>2, <1>3, <1>4, <1>5 DEF TypeOK
<1>7. PluginKnown
  <2>1. ASSUME NEW p \in Provider PROVE plugin[p] = None /\ ~(paused[p] > 0)
    BY <1>1
  <2> QED BY <2>1, <1>5 DEF PluginKnown
<1>8. AttemptKnown /\ OneEach /\ SoonestKnown
  BY <1>1 DEF AttemptKnown, OneEach, SoonestKnown
<1>9. HeldBackAsNeeded /\ TempInFolder /\ TempFilesOwned
  BY <1>1 DEF HeldBackAsNeeded, TempInFolder, TempFilesOwned
<1> QED BY <1>6, <1>7, <1>8, <1>9 DEF Basics

LEMMA NextBasics ==
  ASSUME Basics, [Next]_destVars
  PROVE  Basics'
<1>1. ASSUME NEW w \in Worker, NEW k \in JobKey, Claim(w, k) PROVE Basics'
  BY <1>1, ClaimBasics
<1>2. ASSUME NEW w \in Worker, NEW k \in JobKey, ClaimUnready(w, k) PROVE Basics'
  BY <1>2, ClaimUnreadyBasics
<1>3. ASSUME NEW w \in Worker, PassOver(w) \/ Send(w) \/ QuotaHit(w) \/ CoolDown(w)
                               \/ Verify(w) \/ Record(w)
      PROVE  Basics'
  BY <1>3, PassOverBasics, SendBasics, QuotaHitBasics, CoolDownBasics, VerifyBasics, RecordBasics
<1>4. ASSUME NEW w \in Worker, NEW torn \in BOOLEAN, Publish(w, torn) PROVE Basics'
  BY <1>4, PublishBasics
<1>5. ASSUME NEW w \in Worker, NEW text \in {"plain", "429"}, Refuse(w, text) PROVE Basics'
  BY <1>5, RefuseBasics
<1>6. CASE Work
  BY <1>6, <1>1, <1>2, <1>3, <1>4, <1>5 DEF Work
<1>7. CASE World
  <2>1. ASSUME NEW crash \in BOOLEAN, Restart(crash) PROVE Basics'
    BY <2>1, RestartBasics
  <2>2. ASSUME NEW k \in JobKey, Retry(k) PROVE Basics'
    BY <2>2, RetryBasics
  <2>3. ASSUME NEW a \in Asset, NEW to \in Path, MoveFile(a, to) PROVE Basics'
    BY <2>3, MoveFileBasics
  <2> QED BY <1>7, <2>1, <2>2, <2>3, MoveRowBasics, QuotaBasics DEF World
<1>8. CASE UNCHANGED destVars
  <2>1. UNCHANGED <<config, plugin, worker, until, paused, partial, job>>
    BY <1>8 DEF destVars, memory, remote
  <2>2. TypeOK
    BY DEF Basics
  <2>3. TypeOK'
    BY <2>2, <1>8 DEF TypeOK, destVars, archive, memory, remote, counts
  <2> QED BY <2>1, <2>3, AsideBasics
<1> QED BY <1>6, <1>7, <1>8, TickBasics, QuotaBasics DEF Next

\* Every state of every behaviour is typed, no destination is held back longer
\* than all its remotes are, and temp files are somebody's (rclone Upload and
\* setCooldown, localfs copyToTemp, Manager.process).
THEOREM DestinationsInvCorrect == Spec => []DestinationsInv
<1>1. Basics => DestinationsInv
  BY DEF Basics, DestinationsInv
<1> QED BY <1>1, InitBasics, NextBasics, PTL DEF Spec

------------------------------------------------------------------------------
(* What a step does to the attempts, apart from their cooldowns. *)

\* Every attempt that goes on is at the same job and path, ...
Carries ==
    \A v \in Worker : worker'[v] # None =>
       worker[v] # None /\ worker'[v].key = worker[v].key /\ worker'[v].path = worker[v].path

\* ... and nothing is verified or recorded as completed by the step.
VouchesNoMore ==
    /\ \A v \in Worker : worker'[v] # None /\ worker'[v].step = "record" =>
          worker[v].step = "record" /\ worker'[v].note = worker[v].note
    /\ \A k \in JobKey : job'[k] = "completed" => job[k] = "completed"

\* An attempt of worker w in one step: gone, or at another point of its way.
Moves(w, rec) ==
    /\ worker' = [worker EXCEPT ![w] = rec]
    /\ rec # None => rec.key = worker[w].key /\ rec.path = worker[w].path

LEMMA MovesCarries ==
  ASSUME TypeOK, NEW w \in Worker, worker[w] # None, NEW rec, Moves(w, rec)
  PROVE  Carries /\ worker'[w] = rec /\ \A v \in Worker \ {w} : worker'[v] = worker[v]
<1>1. worker'[w] = rec /\ \A v \in Worker \ {w} : worker'[v] = worker[v]
  BY DEF Moves, TypeOK
<1> QED BY <1>1 DEF Moves, Carries

LEMMA SettleMoves ==
  ASSUME TypeOK, NEW w \in Worker, worker[w] # None, worker[w].key \in JobKey,
         NEW s \in JobStatus, Settle(w, s)
  PROVE  /\ Carries /\ (s # "completed" => VouchesNoMore)
         /\ worker'[w] = None /\ job'[worker[w].key] = s
         /\ \A v \in Worker \ {w} : worker'[v] = worker[v]
         /\ \A k \in JobKey : k # worker[w].key => job'[k] = job[k]
<1>1. Moves(w, None)
  BY DEF Settle, Go, Moves
<1>2. Carries /\ worker'[w] = None /\ \A v \in Worker \ {w} : worker'[v] = worker[v]
  BY <1>1, MovesCarries
<1>3. /\ job'[worker[w].key] = s
      /\ \A k \in JobKey : k # worker[w].key => job'[k] = job[k]
  BY DEF Settle, TypeOK
<1> QED BY <1>2, <1>3 DEF VouchesNoMore

LEMMA GoMoves ==
  ASSUME TypeOK, NEW w \in Worker, worker[w] # None, NEW rec, rec \in Attempt,
         worker' = [worker EXCEPT ![w] = rec],
         rec.key = worker[w].key, rec.path = worker[w].path, rec.step # "record",
         UNCHANGED job
  PROVE  Carries /\ VouchesNoMore
<1>1. Moves(w, rec)
  BY DEF Moves
<1>2. Carries /\ worker'[w] = rec /\ \A v \in Worker \ {w} : worker'[v] = worker[v]
  BY <1>1, MovesCarries
<1> QED BY <1>2 DEF VouchesNoMore

LEMMA FailOverMoves ==
  ASSUME Basics, NEW w \in Worker, Doing(w, "copy"), FailOver(w), UNCHANGED job
  PROVE  Carries /\ VouchesNoMore
<1>0. TypeOK /\ PluginKnown /\ AttemptKnown
  BY DEF Basics
<1>1. PICK d \in {Short, Day} :
         worker' = [worker EXCEPT ![w] =
                         [worker[w] EXCEPT !.step = "next", !.i = @ + 1, !.got = None,
                                           !.soonest = Earliest(@, d)]]
  BY DEF FailOver, Go
<1>2. worker[w] # None
  BY DEF Doing
<1> DEFINE i   == worker[w].i + 1
           e   == Earliest(worker[w].soonest, d)
           rec == [worker[w] EXCEPT !.step = "next", !.i = i, !.got = None, !.soonest = e]
<1>3. /\ worker[w] \in Attempt /\ i \in Nat /\ e \in Ticks \cup {None} /\ None \in Files
  <2>1. worker[w] \in Attempt /\ worker[w].i \in Nat /\ worker[w].soonest \in Ticks \cup {None}
    BY <1>0, <1>2, AtWork
  <2>2. d \in Ticks
    BY Constants
  <2> QED BY <2>1, <2>2, EarliestTyped DEF Files
<1>4. worker' = [worker EXCEPT ![w] = rec]
  BY <1>1, <1>3 DEF Attempt
<1>5. /\ rec \in Attempt /\ rec.key = worker[w].key /\ rec.path = worker[w].path
      /\ rec.step = "next"
  <2> HIDE DEF i, e
  <2> QED BY <1>3 DEF Attempt
<1>6. rec.step # "record"
  BY <1>5
<1> HIDE DEF rec
<1> QED BY <1>0, <1>2, <1>4, <1>5, <1>6, GoMoves

\* The steps that leave the archive alone and vouch for nothing new.
Quiet == Carries /\ VouchesNoMore /\ UNCHANGED <<at, disk, moving, config, noted, reused>>

LEMMA UploadQuiet ==
  ASSUME Basics, NEW w \in Worker,
         \/ PassOver(w) \/ Send(w) \/ QuotaHit(w) \/ CoolDown(w)
         \/ \E text \in {"plain", "429"} : Refuse(w, text)
  PROVE  Quiet /\ store' = store
<1>0. TypeOK /\ PluginKnown /\ AttemptKnown
  BY DEF Basics
<1>1. CASE PassOver(w)
  <2> DEFINE i   == worker[w].i + 1
             e   == Earliest(worker[w].soonest, until[On(w)])
             rec == [worker[w] EXCEPT !.i = i, !.soonest = e]
  <2>1. /\ worker[w] # None /\ worker[w].step = "next" /\ worker[w].i <= Len(PoolOf(w))
        /\ UNCHANGED <<archive, config, job, noted, remote, reused>>
        /\ worker' = [worker EXCEPT ![w] =
                        [worker[w] EXCEPT !.i = @ + 1, !.soonest = Earliest(@, until[On(w)])]]
    BY <1>1 DEF PassOver, Doing, Go
  <2>2. /\ worker[w] \in Attempt /\ worker[w].i \in Nat
        /\ worker[w].soonest \in Ticks \cup {None} /\ On(w) \in Remote
    BY <1>0, <2>1, AtWork
  <2>3. until[On(w)] \in Ticks
    BY <1>0, <2>2 DEF TypeOK
  <2>4. i \in Nat /\ e \in Ticks \cup {None}
    <3>1. e \in Ticks
      BY <2>2, <2>3, EarliestTyped
    <3> HIDE DEF e
    <3> QED BY <2>2, <3>1
  <2>5. worker' = [worker EXCEPT ![w] = rec]
    BY <2>1, <2>2 DEF Attempt
  <2>6. /\ rec \in Attempt /\ rec.key = worker[w].key /\ rec.path = worker[w].path
        /\ rec.step = "next"
    <3> HIDE DEF i, e
    <3> QED BY <2>1, <2>2, <2>4 DEF Attempt
  <2>7. rec.step # "record" /\ job' = job
    BY <2>1, <2>6
  <2>8. Carries /\ VouchesNoMore
    <3> HIDE DEF rec
    <3> QED BY <1>0, <2>1, <2>5, <2>6, <2>7, GoMoves
  <2> QED BY <2>1, <2>8 DEF Quiet, archive, remote
<1>2. CASE Send(w)
  <2>1. /\ worker[w] # None
        /\ UNCHANGED <<archive, config, noted, store, reused>>
    BY <1>2 DEF Send, Doing
  <2>2. worker[w] \in Attempt /\ worker[w].path \in Path /\ worker[w].key \in JobKey
    BY <1>0, <2>1, AtWork
  <2>3. CASE disk[worker[w].path] = None
    <3>1. Settle(w, "failed") /\ "failed" \in JobStatus /\ "failed" # "completed"
      BY <1>2, <2>3 DEF Send, JobStatus
    <3>2. Carries /\ VouchesNoMore
      BY <3>1, <1>0, <2>1, <2>2, SettleMoves
    <3> QED BY <3>2, <2>1 DEF Quiet, archive
  <2>4. CASE disk[worker[w].path] # None
    <3> DEFINE rec == [worker[w] EXCEPT !.step = "copy", !.got = disk[worker[w].path]]
    <3>1. worker' = [worker EXCEPT ![w] = rec] /\ job' = job
      BY <1>2, <2>4 DEF Send, Go
    <3>2. disk[worker[w].path] \in Files
      BY <1>0, <2>2 DEF TypeOK, Files
    <3>3. /\ rec \in Attempt /\ rec.key = worker[w].key /\ rec.path = worker[w].path
          /\ rec.step = "copy"
      BY <2>2, <3>2 DEF Attempt
    <3>4. rec.step # "record"
      BY <3>3
    <3>5. Carries /\ VouchesNoMore
      <4> HIDE DEF rec
      <4> QED BY <1>0, <2>1, <3>1, <3>3, <3>4, GoMoves
    <3> QED BY <3>5, <2>1 DEF Quiet, archive
  <2> QED BY <2>3, <2>4
<1>3. CASE QuotaHit(w)
  <2>1. /\ Doing(w, "copy") /\ FailOver(w)
        /\ UNCHANGED <<archive, config, job, noted, remote, reused>>
    BY <1>3 DEF QuotaHit
  <2>2. Carries /\ VouchesNoMore
    BY <2>1, FailOverMoves
  <2> QED BY <2>1, <2>2 DEF Quiet, archive, remote
<1>4. CASE CoolDown(w)
  <2>1. /\ worker[w] # None /\ Settle(w, "pending")
        /\ UNCHANGED <<archive, config, noted, remote, reused>>
    BY <1>4 DEF CoolDown, Doing
  <2>2. worker[w].key \in JobKey /\ "pending" \in JobStatus /\ "pending" # "completed"
    BY <1>0, <2>1, AtWork DEF JobStatus
  <2>3. Carries /\ VouchesNoMore
    BY <2>1, <2>2, <1>0, SettleMoves
  <2> QED BY <2>1, <2>3 DEF Quiet, archive, remote
<1>5. ASSUME NEW text \in {"plain", "429"}, Refuse(w, text)
      PROVE  Quiet /\ store' = store
  <2>1. /\ Doing(w, "copy") /\ worker[w] # None
        /\ UNCHANGED <<archive, config, noted, store, reused>>
    BY <1>5 DEF Refuse, Doing
  <2>2. CASE text = "429"
    <3>1. FailOver(w) /\ job' = job
      BY <1>5, <2>2 DEF Refuse
    <3>2. Carries /\ VouchesNoMore
      BY <3>1, <2>1, FailOverMoves
    <3> QED BY <2>1, <3>2 DEF Quiet, archive
  <2>3. CASE text # "429"
    <3>1. Settle(w, "failed") /\ "failed" \in JobStatus /\ "failed" # "completed"
      BY <1>5, <2>3 DEF Refuse, JobStatus
    <3>2. worker[w].key \in JobKey
      BY <1>0, <2>1, AtWork
    <3>3. Carries /\ VouchesNoMore
      BY <3>1, <3>2, <2>1, <1>0, SettleMoves
    <3> QED BY <2>1, <3>3 DEF Quiet, archive
  <2> QED BY <2>2, <2>3
<1> QED BY <1>1, <1>2, <1>3, <1>4, <1>5

LEMMA OthersQuiet ==
  ASSUME Basics,
         \/ \E w \in Worker, k \in JobKey : ClaimUnready(w, k)
         \/ \E crash \in BOOLEAN : Restart(crash)
         \/ \E k \in JobKey : Retry(k)
         \/ \E r \in Remote : Exhaust(r)
         \/ Refill \/ Tick \/ UNCHANGED destVars
  PROVE  Quiet /\ store' = store
<1>0. TypeOK /\ PluginKnown /\ AttemptKnown
  BY DEF Basics
<1>1. ASSUME NEW w \in Worker, NEW k \in JobKey, ClaimUnready(w, k)
      PROVE  Quiet /\ store' = store
  <2>1. /\ job' = [job EXCEPT ![k] = "failed"]
        /\ UNCHANGED <<archive, config, noted, memory, remote, reused>>
    BY <1>1 DEF ClaimUnready
  <2>2. \A q \in JobKey : job'[q] = "completed" => job[q] = "completed"
    BY <1>0, <2>1 DEF TypeOK
  <2> QED BY <2>1, <2>2 DEF Quiet, Carries, VouchesNoMore, archive, memory, remote
<1>2. ASSUME NEW crash \in BOOLEAN, Restart(crash)
      PROVE  Quiet /\ store' = store
  <2>1. /\ worker' = [w \in Worker |-> None]
        /\ job' = [k \in JobKey |-> IF job[k] = "running" THEN "pending" ELSE job[k]]
        /\ UNCHANGED <<archive, config, noted, store, exhausted, reused>>
    BY <1>2 DEF Restart
  <2>2. \A q \in JobKey : job'[q] = "completed" => job[q] = "completed"
    BY <2>1
  <2>3. \A v \in Worker : worker'[v] = None
    BY <2>1
  <2> QED BY <2>1, <2>2, <2>3 DEF Quiet, Carries, VouchesNoMore, archive
<1>3. ASSUME NEW k \in JobKey, Retry(k)
      PROVE  Quiet /\ store' = store
  <2>1. /\ job' = [job EXCEPT ![k] = "pending"]
        /\ UNCHANGED <<archive, config, noted, memory, remote, reused>>
    BY <1>3 DEF Retry
  <2>2. \A q \in JobKey : job'[q] = "completed" => job[q] = "completed"
    BY <1>0, <2>1 DEF TypeOK
  <2> QED BY <2>1, <2>2 DEF Quiet, Carries, VouchesNoMore, archive, memory, remote
<1>4. ASSUME Refill \/ (\E r \in Remote : Exhaust(r)) \/ UNCHANGED destVars
      PROVE  Quiet /\ store' = store
  <2>1. UNCHANGED <<at, disk, moving, config, job, noted, worker, store, reused>>
    BY <1>4 DEF Refill, Exhaust, destVars, archive, memory, remote
  <2> QED BY <2>1 DEF Quiet, Carries, VouchesNoMore
<1>5. CASE Tick
  <2>1. /\ worker' = [w \in Worker |-> IF worker[w] = None THEN None
                                       ELSE [worker[w] EXCEPT !.soonest = Less(@)]]
        /\ UNCHANGED <<archive, config, job, noted, remote, reused>>
    BY <1>5 DEF Tick
  <2>2. ASSUME NEW v \in Worker, worker'[v] # None
        PROVE  /\ worker[v] # None /\ worker'[v].key = worker[v].key
               /\ worker'[v].path = worker[v].path /\ worker'[v].step = worker[v].step
               /\ worker'[v].note = worker[v].note
    <3>1. worker[v] # None
      BY <2>1, <2>2
    <3>2. worker[v] \in Attempt
      BY <1>0, <3>1, AtWork
    <3> DEFINE l == Less(worker[v].soonest)
    <3>3. worker'[v] = [worker[v] EXCEPT !.soonest = l]
      BY <2>1, <3>1, <3>2 DEF Attempt
    <3> HIDE DEF l
    <3> QED BY <3>1, <3>2, <3>3 DEF Attempt
  <2> QED BY <2>1, <2>2 DEF Quiet, Carries, VouchesNoMore, archive, remote
<1> QED BY <1>1, <1>2, <1>3, <1>4, <1>5

------------------------------------------------------------------------------
(* Who uses a path, and what was recorded as reused. *)

LEMMA ArchiveTyped ==
  ASSUME TypeOK, ArchiveKnown
  PROVE  /\ \A a, b \in Asset : at[a] = at[b] => a = b
         /\ \A a \in Asset : disk[at[a]] \in {a, None}
         /\ \A a, b \in Asset : a # b => disk[at[a]] # b
         /\ moving # None => moving.asset \in Asset /\ moving.to \in Path
                             /\ disk[moving.to] = moving.asset
<1>1. \A a, b \in Asset : at[a] = at[b] => a = b
  BY DEF ArchiveKnown
<1>2. \A a \in Asset : disk[at[a]] \in {a, None}
  BY DEF ArchiveKnown
<1>3. \A a, b \in Asset : a # b => disk[at[a]] # b
  BY <1>2, Constants
<1>4. moving # None => moving.asset \in Asset /\ moving.to \in Path
  BY DEF TypeOK, Move
<1> QED BY <1>1, <1>2, <1>3, <1>4 DEF ArchiveKnown

LEMMA InitPlaces ==
  ASSUME Init
  PROVE  Places
<1>1. at = Home /\ moving = None /\ worker = [w \in Worker |-> None]
      /\ disk = [x \in Path |-> IF \E a \in Asset : at[a] = x
                                THEN CHOOSE a \in Asset : at[a] = x ELSE None]
  BY DEF Init
<1>2. \A a, b \in Asset : at[a] = at[b] => a = b
  BY <1>1, DestinationsAssumption
<1>3. ASSUME NEW a \in Asset PROVE disk[at[a]] = a
  <2>1. at[a] \in Path
    BY <1>1, DestinationsAssumption
  <2>2. disk[at[a]] = CHOOSE b \in Asset : at[b] = at[a]
    BY <1>1, <2>1
  <2>3. (CHOOSE b \in Asset : at[b] = at[a]) = a
    BY <1>2
  <2> QED BY <2>2, <2>3
<1>4. ArchiveKnown
  BY <1>1, <1>2, <1>3 DEF ArchiveKnown
<1>5. InHandKnown
  BY <1>1 DEF InHandKnown
<1> QED BY <1>4, <1>5 DEF Places

LEMMA QuietPlaces ==
  ASSUME Places, Carries, UNCHANGED <<at, disk, moving, reused>>
  PROVE  Places' /\ \A a \in Asset, x \in Path : Safe(a, x) => Safe(a, x)'
<1>1. \A b, x : Lies(b, x)' <=> Lies(b, x)
  BY DEF Lies
<1>2. \A b, x : Sent(b, x)' => Sent(b, x)
  BY DEF Sent, Carries
<1>3. ArchiveKnown'
  BY DEF Places, ArchiveKnown
<1>4. InHandKnown'
  <2> SUFFICES ASSUME NEW w \in Worker, worker'[w] # None,
                      NEW b \in Asset \ {worker'[w].key[1]}, NEW x, x = worker'[w].path
               PROVE  /\ Lies(b, x)' \/ Sent(b, x)' => worker'[w].key \in reused'
                      /\ Lies(b, x)' => \A q \in Provider : <<b, q>> \in reused'
    BY DEF InHandKnown, Lies, Sent
  <2>1. worker[w] # None /\ worker'[w].key = worker[w].key /\ worker'[w].path = worker[w].path
    BY DEF Carries
  <2> QED BY <2>1, <1>1, <1>2 DEF Places, InHandKnown
<1>5. \A a \in Asset, x \in Path : Safe(a, x) => Safe(a, x)'
  BY <1>1, <1>2 DEF Safe
<1> QED BY <1>3, <1>4, <1>5 DEF Places

\* A worker that takes up a job uses the path its asset has.
LEMMA ClaimPlaces ==
  ASSUME Basics, Places, NEW w \in Worker, NEW k \in JobKey, Claim(w, k)
  PROVE  Places' /\ \A a \in Asset, x \in Path : Safe(a, x) => Safe(a, x)'
<1>0. TypeOK /\ ArchiveKnown /\ InHandKnown /\ PluginKnown /\ AttemptKnown
  BY DEF Basics, Places
<1> DEFINE rec == [key |-> k, path |-> at[k[1]], step |-> "next", i |-> 1,
                   soonest |-> None, got |-> None, note |-> FALSE]
<1>1. /\ worker[w] = None
      /\ worker' = [worker EXCEPT ![w] = rec]
      /\ UNCHANGED <<at, disk, moving, reused>>
  BY DEF Claim, Go, archive
<1>2. rec.key = k /\ rec.path = at[k[1]]
  OBVIOUS
<1>3. worker'[w] = rec /\ \A v \in Worker \ {w} : worker'[v] = worker[v]
  <2> HIDE DEF rec
  <2> QED BY <1>0, <1>1 DEF TypeOK
<1>4. k[1] \in Asset /\ k[2] \in Provider /\ k = <<k[1], k[2]>>
  BY DEF JobKey
<1> HIDE DEF rec
<1>5. \A b, x : Lies(b, x)' <=> Lies(b, x)
  BY <1>1 DEF Lies
<1>6. \A b, x : Sent(b, x)' => Sent(b, x) \/ (b = k[1] /\ x = at[k[1]])
  BY <1>2, <1>3 DEF Sent
<1>7. ArchiveKnown'
  BY <1>0, <1>1 DEF ArchiveKnown
<1>8. Lies(k[1], at[k[1]])
  BY DEF Lies
<1>9. InHandKnown'
  <2> SUFFICES ASSUME NEW v \in Worker, worker'[v] # None,
                      NEW b \in Asset \ {worker'[v].key[1]}, NEW x, x = worker'[v].path
               PROVE  /\ Lies(b, x)' \/ Sent(b, x)' => worker'[v].key \in reused'
                      /\ Lies(b, x)' => \A q \in Provider : <<b, q>> \in reused'
    BY DEF InHandKnown, Lies, Sent
  <2>0. Lies(b, x)' <=> Lies(b, x)
    BY <1>5
  <2>1. CASE v # w
    <3>1. worker'[v] = worker[v] /\ worker[v] # None /\ x = worker[v].path
      BY <1>3, <2>1
    <3>2. Sent(b, x)' => Sent(b, x) \/ Lies(b, x)
      BY <1>6, <1>8
    <3>3. /\ Lies(b, x) \/ Sent(b, x) => worker[v].key \in reused
          /\ Lies(b, x) => \A q \in Provider : <<b, q>> \in reused
      BY <3>1, <1>0 DEF InHandKnown
    <3> QED BY <3>1, <3>2, <3>3, <2>0, <1>1
  <2>2. CASE v = w
    <3>1. worker'[v].key = k /\ x = at[k[1]] /\ b # k[1]
      BY <1>2, <1>3, <2>2
    <3>2. ~Lies(b, x)
      BY <3>1, <1>0, <1>4, ArchiveTyped DEF Lies
    <3>3. ASSUME Sent(b, x)' PROVE k \in reused
      <4>1. Sent(b, x)
        BY <3>1, <3>3, <1>6
      <4>2. PICK u \in Worker : worker[u] # None /\ worker[u].path = x /\ worker[u].key[1] = b
        BY <4>1 DEF Sent
      <4>3. k[1] \in Asset \ {worker[u].key[1]} /\ Lies(k[1], worker[u].path)
        BY <4>2, <3>1, <1>4, <1>8
      <4>4. <<k[1], k[2]>> \in reused
        BY <4>2, <4>3, <1>0, <1>4 DEF InHandKnown
      <4> QED BY <4>4, <1>4
    <3> QED BY <3>1, <3>2, <3>3, <2>0, <1>1
  <2> QED BY <2>1, <2>2
<1>10. ASSUME NEW a \in Asset, NEW x \in Path, Safe(a, x) PROVE Safe(a, x)'
  <2> SUFFICES ASSUME NEW b \in Asset \ {a} PROVE ~Lies(b, x)' /\ ~Sent(b, x)'
    BY DEF Safe
  <2>1. ~Lies(b, x) /\ ~Sent(b, x)
    BY <1>10 DEF Safe
  <2> QED BY <2>1, <1>5, <1>6, <1>8
<1> QED BY <1>7, <1>9, <1>10 DEF Places

\* A file that comes to a path puts at risk all it should.
LEMMA MoveFilePlaces ==
  ASSUME Basics, Places, NEW c \in Asset, NEW to \in Path, MoveFile(c, to)
  PROVE  /\ Places'
         /\ \A a \in Asset, x \in Path : Safe(a, x) /\ (x # to \/ a = c) => Safe(a, x)'
<1>0. TypeOK /\ ArchiveKnown /\ InHandKnown /\ PluginKnown /\ AttemptKnown
  BY DEF Basics, Places
<1>1. /\ moving = None /\ disk[to] = None
      /\ disk' = [disk EXCEPT ![at[c]] = None, ![to] = c]
      /\ moving' = [asset |-> c, to |-> to]
      /\ reused' = reused \cup AtRisk(c, to)
      /\ UNCHANGED <<at, worker>>
  BY DEF MoveFile, memory
<1>2. /\ moving' # None /\ moving'.asset = c /\ moving'.to = to
  <2>1. [asset |-> c, to |-> to] \in Move
    BY DEF Move
  <2> QED BY <2>1, <1>1, Constants
<1>3. \A a \in Asset : disk[at[a]] = a /\ at[a] \in Path
  BY <1>0, <1>1 DEF ArchiveKnown, TypeOK
<1>4. \A x \in Path : disk'[x] = IF x = to THEN c ELSE IF x = at[c] THEN None ELSE disk[x]
  BY <1>0, <1>1 DEF TypeOK
<1>5. \A a \in Asset : at[a] # to
  BY <1>1, <1>3, Constants
<1>6. ArchiveKnown'
  <2>1. \A a, b \in Asset : at'[a] = at'[b] => a = b
    BY <1>0, <1>1 DEF ArchiveKnown
  <2>2. ASSUME NEW a \in Asset
        PROVE  IF moving' # None /\ moving'.asset = a
               THEN disk'[at'[a]] = None /\ disk'[moving'.to] = a
               ELSE disk'[at'[a]] = a
    <3>1. CASE a = c
      BY <3>1, <1>1, <1>2, <1>3, <1>4, <1>5
    <3>2. CASE a # c
      <4>1. at[a] # at[c]
        BY <3>2, <1>0 DEF ArchiveKnown
      <4>2. disk'[at[a]] = a
        BY <4>1, <1>3, <1>4, <1>5
      <4> QED BY <3>2, <4>2, <1>1, <1>2
    <3> QED BY <3>1, <3>2
  <2> QED BY <2>1, <2>2 DEF ArchiveKnown
<1>7. \A b \in Asset, x \in Path : Lies(b, x)' => Lies(b, x) \/ (b = c /\ x = to)
  BY <1>1, <1>4, Constants DEF Lies
<1>8. \A b, x : Sent(b, x)' <=> Sent(b, x)
  BY <1>1 DEF Sent
<1>9. InHandKnown'
  <2> SUFFICES ASSUME NEW v \in Worker, worker[v] # None,
                      NEW b \in Asset \ {worker[v].key[1]}, NEW x, x = worker[v].path
               PROVE  /\ Lies(b, x)' \/ Sent(b, x)' => worker[v].key \in reused'
                      /\ Lies(b, x)' => \A q \in Provider : <<b, q>> \in reused'
    BY ZenonT(60), <1>1 DEF InHandKnown, Lies, Sent
  <2>1. x \in Path /\ worker[v].key \in JobKey
    BY <1>0, AtWork
  <2>2. /\ Lies(b, x) \/ Sent(b, x) => worker[v].key \in reused
        /\ Lies(b, x) => \A q \in Provider : <<b, q>> \in reused
    BY <1>0 DEF InHandKnown
  <2>3. CASE b = c /\ x = to
    <3>1. worker[v].key \in InHand(c, to)
      BY <2>3 DEF InHand
    <3>2. worker[v].key \in reused'
      BY <3>1, <1>1 DEF AtRisk
    <3>3. ASSUME NEW q \in Provider PROVE <<b, q>> \in reused'
      <4>1. <<b, q>> \in {c} \X Provider /\ <<b, q>> \in JobKey
        BY <2>3 DEF JobKey
      <4>2. InHand(c, to) # {}
        BY <3>1
      <4>3. <<b, q>> \in AtRisk(c, to)
        BY <4>1, <4>2 DEF AtRisk
      <4> QED BY <4>3, <1>1
    <3> QED BY <3>2, <3>3
  <2>4. CASE ~(b = c /\ x = to)
    BY <2>1, <2>2, <2>4, <1>1, <1>7, <1>8
  <2> QED BY <2>3, <2>4
<1>10. ASSUME NEW a \in Asset, NEW x \in Path, Safe(a, x), x # to \/ a = c PROVE Safe(a, x)'
  <2> SUFFICES ASSUME NEW b \in Asset \ {a} PROVE ~Lies(b, x)' /\ ~Sent(b, x)'
    BY DEF Safe
  <2>1. ~Lies(b, x) /\ ~Sent(b, x)
    BY <1>10 DEF Safe
  <2> QED BY <2>1, <1>7, <1>8, <1>10
<1> QED BY <1>6, <1>9, <1>10 DEF Places

LEMMA MoveRowPlaces ==
  ASSUME Basics, Places, MoveRow
  PROVE  Places' /\ \A a \in Asset, x \in Path : Safe(a, x) => Safe(a, x)'
<1>0. TypeOK /\ ArchiveKnown /\ InHandKnown
  BY DEF Basics, Places
<1> DEFINE c  == moving.asset
           to == moving.to
<1>1. /\ moving # None /\ moving' = None
      /\ at' = [at EXCEPT ![c] = to]
      /\ UNCHANGED <<disk, worker, reused>>
  BY DEF MoveRow, memory
<1>2. c \in Asset /\ to \in Path /\ disk[to] = c
  BY <1>0, <1>1, ArchiveTyped
<1>3. /\ at'[c] = to /\ \A a \in Asset \ {c} : at'[a] = at[a] /\ disk[at[a]] = a
  BY <1>0, <1>1, <1>2 DEF TypeOK, ArchiveKnown
<1>4. ArchiveKnown'
  <2>1. \A a \in Asset : disk'[at'[a]] = a
    BY <1>1, <1>2, <1>3
  <2>2. \A a, b \in Asset : at'[a] = at'[b] => a = b
    BY <2>1
  <2> QED BY <2>1, <2>2, <1>1 DEF ArchiveKnown
<1>5. \A b \in Asset : \A x : Lies(b, x)' => Lies(b, x)
  BY <1>1, <1>2, <1>3 DEF Lies
<1>6. \A b, x : Sent(b, x)' <=> Sent(b, x)
  BY <1>1 DEF Sent
<1>7. InHandKnown'
  BY <1>0, <1>1, <1>5, <1>6 DEF InHandKnown
<1>8. \A a \in Asset, x \in Path : Safe(a, x) => Safe(a, x)'
  BY <1>5, <1>6 DEF Safe
<1> QED BY <1>4, <1>7, <1>8 DEF Places

------------------------------------------------------------------------------
(* What is vouched for is kept. *)

\* Without a new voucher, what was vouched for stays where it is, if the object
\* under its path stays and the path stays its own.
LEMMA KeptStays ==
  ASSUME VouchedIsKept, NEW a \in Asset, NEW p \in Provider,
         Vouched(a, p), <<a, p>> \notin noted \cup reused, Checked(p),
         config' = config,
         \A r \in ToSet(Pool(config[p])), x \in Path :
            store[r][x] = a /\ Safe(a, x) => store'[r][x] = a /\ Safe(a, x)'
  PROVE  Kept(a, p)'
<1>1. Kept(a, p)
  BY DEF VouchedIsKept
<1>2. PICK r \in ToSet(Pool(config[p])), x \in Path : store[r][x] = a /\ Safe(a, x)
  BY <1>1 DEF Kept
<1>3. store'[r][x] = a /\ Safe(a, x)'
  BY <1>2
<1> QED BY <1>2, <1>3 DEF Kept

LEMMA VouchesNoMoreMeans ==
  ASSUME Carries, VouchesNoMore, NEW a \in Asset, NEW p \in Provider, Vouched(a, p)'
  PROVE  Vouched(a, p)
<1>1. <<a, p>> \in JobKey
  BY DEF JobKey
<1> QED BY <1>1 DEF Vouched, Carries, VouchesNoMore

LEMMA QuietKept ==
  ASSUME Places, VouchedIsKept, Quiet, store' = store
  PROVE  VouchedIsKept'
<1> SUFFICES ASSUME NEW a \in Asset, NEW p \in Provider, Vouched(a, p)',
                    <<a, p>> \notin noted' \cup reused', Checked(p)'
             PROVE  Kept(a, p)'
  BY DEF VouchedIsKept
<1>1. Carries /\ VouchesNoMore /\ UNCHANGED <<at, disk, moving, config, noted, reused>>
  BY DEF Quiet
<1>2. Vouched(a, p)
  BY <1>1, VouchesNoMoreMeans
<1>3. Checked(p)
  BY <1>1 DEF Checked
<1>4. \A x \in Path : Safe(a, x) => Safe(a, x)'
  BY <1>1, QuietPlaces
<1> QED BY <1>1, <1>2, <1>3, <1>4, KeptStays

LEMMA ClaimKept ==
  ASSUME Basics, Places, VouchedIsKept, NEW w \in Worker, NEW k \in JobKey, Claim(w, k)
  PROVE  VouchedIsKept'
<1>0. TypeOK
  BY DEF Basics
<1> SUFFICES ASSUME NEW a \in Asset, NEW p \in Provider, Vouched(a, p)',
                    <<a, p>> \notin noted' \cup reused', Checked(p)'
             PROVE  Kept(a, p)'
  BY DEF VouchedIsKept
<1> DEFINE rec == [key |-> k, path |-> at[k[1]], step |-> "next", i |-> 1,
                   soonest |-> None, got |-> None, note |-> FALSE]
<1>1. /\ job' = [job EXCEPT ![k] = "running"]
      /\ worker' = [worker EXCEPT ![w] = rec]
      /\ UNCHANGED <<config, noted, store, reused>>
  BY DEF Claim, Go, remote
<1>2. rec.step # "record"
  OBVIOUS
<1>3. worker'[w] = rec /\ \A v \in Worker \ {w} : worker'[v] = worker[v]
  <2> HIDE DEF rec
  <2> QED BY <1>0, <1>1 DEF TypeOK
<1>4. Vouched(a, p)
  <2>1. <<a, p>> \in JobKey
    BY DEF JobKey
  <2>2. job'[<<a, p>>] = "completed" => job[<<a, p>>] = "completed"
    BY <2>1, <1>0, <1>1 DEF TypeOK
  <2> HIDE DEF rec
  <2> QED BY <2>2, <1>2, <1>3 DEF Vouched
<1>5. Checked(p)
  BY <1>1 DEF Checked
<1>6. \A x \in Path : Safe(a, x) => Safe(a, x)'
  BY ClaimPlaces
<1> QED BY <1>1, <1>4, <1>5, <1>6, KeptStays

\* A file comes to a path where the copy of another asset is: that is recorded.
LEMMA MoveFileKept ==
  ASSUME Basics, Places, VouchedIsKept, NEW c \in Asset, NEW to \in Path, MoveFile(c, to)
  PROVE  VouchedIsKept'
<1> SUFFICES ASSUME NEW a \in Asset, NEW p \in Provider, Vouched(a, p)',
                    <<a, p>> \notin noted' \cup reused', Checked(p)'
             PROVE  Kept(a, p)'
  BY DEF VouchedIsKept
<1>0. TypeOK
  BY DEF Basics
<1>1. /\ reused' = reused \cup AtRisk(c, to)
      /\ UNCHANGED <<config, job, noted, worker, store>>
  BY DEF MoveFile, memory, remote
<1>2. Vouched(a, p) /\ Checked(p) /\ <<a, p>> \notin noted \cup reused
  BY <1>1 DEF Vouched, Checked
<1>3. ASSUME NEW r \in ToSet(Pool(config[p])), NEW x \in Path, store[r][x] = a, Safe(a, x)
      PROVE  store'[r][x] = a /\ Safe(a, x)'
  <2>1. r \in Remote
    <3>1. Pool(config[p]) \in Seq(Remote)
      BY <1>0, PoolTyped
    <3> QED BY <3>1 DEF ToSet
  <2>2. x # to \/ a = c
    <3> SUFFICES ASSUME x = to, a # c PROVE FALSE
      OBVIOUS
    <3>1. <<a, p>> \in JobKey /\ <<a, p>>[1] = a
      BY DEF JobKey
    <3>2. <<a, p>> \in AtRisk(c, to)
      BY <3>1, <2>1, <1>3 DEF AtRisk
    <3> QED BY <3>2, <1>1
  <2> QED BY <2>2, <1>1, <1>3, MoveFilePlaces
<1> QED BY <1>1, <1>2, <1>3, KeptStays

LEMMA MoveRowKept ==
  ASSUME Basics, Places, VouchedIsKept, MoveRow
  PROVE  VouchedIsKept'
<1> SUFFICES ASSUME NEW a \in Asset, NEW p \in Provider, Vouched(a, p)',
                    <<a, p>> \notin noted' \cup reused', Checked(p)'
             PROVE  Kept(a, p)'
  BY DEF VouchedIsKept
<1>1. UNCHANGED <<config, job, noted, worker, store, reused>>
  BY DEF MoveRow, memory, remote
<1>2. Vouched(a, p) /\ Checked(p)
  BY <1>1 DEF Vouched, Checked
<1>3. \A x \in Path : Safe(a, x) => Safe(a, x)'
  BY MoveRowPlaces
<1> QED BY <1>1, <1>2, <1>3, KeptStays

\* An upload overwrites what was under its path: no copy another job vouches for.
LEMMA PublishKept ==
  ASSUME Apart, Basics, Places, VouchedIsKept,
         NEW w \in Worker, NEW torn \in BOOLEAN, Publish(w, torn)
  PROVE  VouchedIsKept' /\ Carries /\ UNCHANGED <<at, disk, moving, reused>>
<1>0. TypeOK /\ PluginKnown /\ AttemptKnown /\ OneEach
  BY DEF Basics
<1> DEFINE rec == [worker[w] EXCEPT !.step = "verify", !.got = None]
           new == IF torn THEN "torn" ELSE worker[w].got
<1>1. /\ worker[w] # None /\ worker[w].step = "copy"
      /\ UNCHANGED <<archive, config, job, noted, reused>>
      /\ store' = [store EXCEPT ![On(w)][worker[w].path] = new]
      /\ worker' = [worker EXCEPT ![w] = rec]
  BY DEF Publish, Doing, Go
<1>2. /\ worker[w] \in Attempt /\ worker[w].key \in JobKey /\ worker[w].path \in Path
      /\ worker[w].key[1] \in Asset /\ worker[w].key[2] \in Provider
      /\ worker[w].key = <<worker[w].key[1], worker[w].key[2]>>
      /\ PoolOf(w) = Pool(config[worker[w].key[2]])
      /\ PoolOf(w) \in Seq(Remote) /\ worker[w].i \in Nat \ {0} /\ Len(PoolOf(w)) \in Nat
  BY <1>0, <1>1, AtWork
<1>3. worker[w].i <= Len(PoolOf(w)) /\ job[worker[w].key] = "running"
  BY <1>0, <1>1 DEF AttemptKnown
<1>4. On(w) \in ToSet(Pool(config[worker[w].key[2]])) /\ On(w) \in Remote
  <2>1. worker[w].i \in DOMAIN PoolOf(w) /\ PoolOf(w)[worker[w].i] \in Remote
    <3> HIDE DEF PoolOf
    <3> QED BY <1>2, <1>3
  <2>2. On(w) \in ToSet(PoolOf(w))
    <3> HIDE DEF PoolOf
    <3> QED BY <2>1 DEF On, ToSet
  <2> QED BY <2>1, <2>2, <1>2 DEF On
<1>5. /\ rec \in Attempt /\ rec.key = worker[w].key /\ rec.path = worker[w].path
      /\ rec.step = "verify"
  BY <1>2 DEF Attempt, Files
<1>6. Carries /\ VouchesNoMore
  <2>1. rec.step # "record" /\ job' = job
    BY <1>1, <1>5
  <2> HIDE DEF rec
  <2> QED BY <2>1, <1>0, <1>1, <1>5, GoMoves
<1>7. UNCHANGED <<at, disk, moving, config, noted, reused>>
  BY <1>1 DEF archive
<1>8. ASSUME NEW r \in Remote, NEW x \in Path, r # On(w) \/ x # worker[w].path
      PROVE  store'[r][x] = store[r][x]
  <2> HIDE DEF new
  <2> QED BY <1>8, <1>0, <1>1 DEF TypeOK
<1>9. VouchedIsKept'
  <2> SUFFICES ASSUME NEW a \in Asset, NEW p \in Provider, Vouched(a, p)',
                      <<a, p>> \notin noted' \cup reused', Checked(p)'
               PROVE  Kept(a, p)'
    BY DEF VouchedIsKept
  <2>1. Vouched(a, p)
    BY <1>6, VouchesNoMoreMeans
  <2>2. Checked(p) /\ <<a, p>> \notin noted \cup reused
    BY <1>7 DEF Checked
  <2>3. worker[w].key # <<a, p>>
    <3> SUFFICES ASSUME worker[w].key = <<a, p>> PROVE FALSE
      OBVIOUS
    <3>1. job[<<a, p>>] # "completed"
      BY <1>3
    <3>2. PICK v \in Worker : /\ worker[v] # None /\ worker[v].key = <<a, p>>
                              /\ worker[v].step = "record"
      BY <2>1, <3>1 DEF Vouched
    <3>3. v = w
      BY <3>2, <1>0, <1>1 DEF OneEach
    <3> QED BY <3>2, <3>3, <1>1
  <2>4. ASSUME NEW r \in ToSet(Pool(config[p])), NEW x \in Path, store[r][x] = a, Safe(a, x)
        PROVE  store'[r][x] = a /\ Safe(a, x)'
    <3>1. r \in Remote
      <4>1. Pool(config[p]) \in Seq(Remote)
        BY <1>0, PoolTyped
      <4> QED BY <4>1 DEF ToSet
    <3>2. r # On(w) \/ x # worker[w].path
      <4> SUFFICES ASSUME r = On(w), x = worker[w].path PROVE FALSE
        OBVIOUS
      <4>1. worker[w].key[1] = a
        <5>1. Sent(worker[w].key[1], x)
          BY <1>1 DEF Sent
        <5> QED BY <5>1, <2>4, <1>2 DEF Safe
      <4>2. worker[w].key[2] = p
        BY <1>2, <1>4 DEF Apart
      <4> QED BY <4>1, <4>2, <2>3, <1>2
    <3>3. Safe(a, x)'
      BY <1>6, <1>7, <2>4, QuietPlaces
    <3> QED BY <3>1, <3>2, <3>3, <2>4, <1>8
  <2> QED BY <2>1, <2>2, <2>4, <1>7, KeptStays
<1> QED BY <1>6, <1>7, <1>9

\* What is confirmed equals the file at the path; unless it was reused, that is
\* the asset's, and the path nobody else's.
LEMMA VerifyKept ==
  ASSUME Basics, Places, VouchedIsKept, NEW w \in Worker, Verify(w)
  PROVE  VouchedIsKept' /\ Carries /\ UNCHANGED <<at, disk, moving, reused>>
<1>0. /\ TypeOK /\ PluginKnown /\ AttemptKnown /\ OneEach /\ ArchiveKnown /\ InHandKnown
  BY DEF Basics, Places
<1>1. /\ worker[w] # None /\ worker[w].step = "verify"
      /\ UNCHANGED <<archive, config, noted, remote, reused>>
  BY DEF Verify, Doing
<1>2. UNCHANGED <<at, disk, moving, config, noted, store, reused>>
  BY <1>1 DEF archive, remote
<1>3. /\ worker[w] \in Attempt /\ worker[w].key \in JobKey /\ worker[w].path \in Path
      /\ worker[w].key[1] \in Asset /\ worker[w].key[2] \in Provider
      /\ worker[w].key = <<worker[w].key[1], worker[w].key[2]>>
      /\ PoolOf(w) = Pool(config[worker[w].key[2]])
  BY <1>0, <1>1, AtWork
<1>4. PICK ok \in BOOLEAN :
         /\ ok => \E r \in ToSet(PoolOf(w)) : Matches(w, r)
         /\ IF ok \/ Mirror(w)
            THEN Go(w, [worker[w] EXCEPT !.step = "record", !.note = ~ok]) /\ job' = job
            ELSE Settle(w, "failed")
  BY DEF Verify
<1> DEFINE rec == [worker[w] EXCEPT !.step = "record", !.note = ~ok]
<1>5. /\ Carries
      /\ \A k \in JobKey : job'[k] = "completed" => job[k] = "completed"
      /\ \A v \in Worker \ {w} : worker'[v] = worker[v]
      /\ worker'[w] # None => worker'[w].note = ~ok
  <2>1. CASE ok \/ Mirror(w)
    <3>1. worker' = [worker EXCEPT ![w] = rec] /\ job' = job
      BY <1>4, <2>1 DEF Go
    <3>2. rec.key = worker[w].key /\ rec.path = worker[w].path /\ rec.note = ~ok
      BY <1>3 DEF Attempt
    <3>3. Moves(w, rec)
      <4> HIDE DEF rec
      <4> QED BY <3>1, <3>2 DEF Moves
    <3>4. Carries /\ worker'[w] = rec /\ \A v \in Worker \ {w} : worker'[v] = worker[v]
      <4> HIDE DEF rec
      <4> QED BY <3>3, <1>0, <1>1, MovesCarries
    <3> QED BY <3>1, <3>2, <3>4
  <2>2. CASE ~(ok \/ Mirror(w))
    <3>1. Settle(w, "failed") /\ "failed" \in JobStatus /\ "failed" # "completed"
      BY <1>4, <2>2 DEF JobStatus
    <3> QED BY <3>1, <1>0, <1>1, <1>3, SettleMoves DEF VouchesNoMore
  <2> QED BY <2>1, <2>2
<1>6. VouchedIsKept'
  <2> SUFFICES ASSUME NEW a \in Asset, NEW p \in Provider, Vouched(a, p)',
                      <<a, p>> \notin noted' \cup reused', Checked(p)'
               PROVE  Kept(a, p)'
    BY DEF VouchedIsKept
  <2>1. Checked(p) /\ <<a, p>> \notin noted \cup reused
    BY <1>2 DEF Checked
  <2>2. \A x \in Path : Safe(a, x) => Safe(a, x)'
    BY <1>2, <1>5, QuietPlaces
  <2>3. CASE Vouched(a, p)
    BY <2>1, <2>2, <2>3, <1>2, KeptStays
  <2>4. CASE ~Vouched(a, p)
    <3>1. <<a, p>> \in JobKey
      BY DEF JobKey
    <3>2. PICK v \in Worker : /\ worker'[v] # None /\ worker'[v].key = <<a, p>>
                              /\ worker'[v].step = "record" /\ ~worker'[v].note
      BY <2>4, <3>1, <1>5 DEF Vouched
    <3>3. v = w
      BY <3>2, <2>4, <1>5 DEF Vouched
    <3>4. ok /\ worker[w].key = <<a, p>>
      BY <3>2, <3>3, <1>5 DEF Carries
    <3>5. worker[w].key[1] = a /\ worker[w].key[2] = p
      BY <3>4
    <3>6. PICK r \in ToSet(Pool(config[p])) : Matches(w, r)
      BY <3>4, <3>5, <1>3, <1>4
    <3>7. PICK x \in Path : x = worker[w].path
      BY <1>3
    <3>8. disk[x] # None /\ store[r][x] = disk[x]
      BY <3>6, <3>7, <2>1 DEF Matches, Checked
    <3>9. \A b \in Asset \ {a} : ~Lies(b, x) /\ ~Sent(b, x)
      BY <3>4, <3>5, <3>7, <2>1, <1>0, <1>1 DEF InHandKnown
    <3>10. disk[x] = a
      <4>1. disk[x] \in Asset
        BY <3>8, <1>0 DEF TypeOK
      <4> QED BY <4>1, <3>9 DEF Lies
    <3>11. Safe(a, x)
      BY <3>9 DEF Safe
    <3>12. Safe(a, x)'
      BY <3>11, <2>2
    <3>13. store'[r][x] = a /\ r \in ToSet(Pool(config'[p]))
      BY <3>6, <3>8, <3>10, <1>2
    <3> QED BY <3>12, <3>13 DEF Kept
  <2> QED BY <2>3, <2>4
<1> QED BY <1>2, <1>5, <1>6

LEMMA RecordKept ==
  ASSUME Basics, Places, VouchedIsKept, NEW w \in Worker, Record(w)
  PROVE  VouchedIsKept' /\ Carries /\ UNCHANGED <<at, disk, moving, reused>>
<1>0. TypeOK /\ PluginKnown /\ AttemptKnown
  BY DEF Basics
<1>1. /\ worker[w] # None /\ worker[w].step = "record" /\ Settle(w, "completed")
      /\ noted' = IF worker[w].note THEN noted \cup {worker[w].key} ELSE noted
      /\ UNCHANGED <<archive, config, remote, reused>>
  BY DEF Record, Doing
<1>2. worker[w].key \in JobKey /\ worker[w].note \in BOOLEAN
  BY <1>0, <1>1, AtWork
<1>3. /\ Carries /\ worker'[w] = None
      /\ \A v \in Worker \ {w} : worker'[v] = worker[v]
      /\ \A k \in JobKey : k # worker[w].key => job'[k] = job[k]
  BY <1>0, <1>1, <1>2, SettleMoves DEF JobStatus
<1>4. UNCHANGED <<at, disk, moving, config, store, reused>>
  BY <1>1 DEF archive, remote
<1>5. VouchedIsKept'
  <2> SUFFICES ASSUME NEW a \in Asset, NEW p \in Provider, Vouched(a, p)',
                      <<a, p>> \notin noted' \cup reused', Checked(p)'
               PROVE  Kept(a, p)'
    BY DEF VouchedIsKept
  <2>1. Checked(p) /\ <<a, p>> \notin noted \cup reused
    BY <1>1, <1>4 DEF Checked
  <2>2. \A x \in Path : Safe(a, x) => Safe(a, x)'
    BY <1>3, <1>4, QuietPlaces
  <2>3. Vouched(a, p)
    <3>1. <<a, p>> \in JobKey
      BY DEF JobKey
    <3>2. CASE <<a, p>> = worker[w].key
      <4>1. ~worker[w].note
        BY <3>2, <1>1
      <4> QED BY <4>1, <3>2, <1>1 DEF Vouched
    <3>3. CASE <<a, p>> # worker[w].key
      BY <3>1, <3>3, <1>3 DEF Vouched
    <3> QED BY <3>2, <3>3
  <2> QED BY <2>1, <2>2, <2>3, <1>4, KeptStays
<1> QED BY <1>3, <1>4, <1>5

Standing == Basics /\ Places /\ VouchedIsKept

LEMMA NextKept ==
  ASSUME Apart, Standing, [Next]_destVars
  PROVE  Standing' /\ Apart'
<1>0. Basics /\ Places /\ VouchedIsKept
  BY DEF Standing
<1>1. Basics'
  BY <1>0, NextBasics
<1>2. ASSUME Quiet, store' = store PROVE Places' /\ VouchedIsKept'
  BY <1>0, <1>2, QuietPlaces, QuietKept DEF Quiet
<1>3. ASSUME NEW w \in Worker, NEW k \in JobKey, Claim(w, k) PROVE Places' /\ VouchedIsKept'
  BY <1>0, <1>3, ClaimPlaces, ClaimKept
<1>4. ASSUME NEW w \in Worker, Verify(w) PROVE Places' /\ VouchedIsKept'
  BY <1>0, <1>4, VerifyKept, QuietPlaces
<1>5. ASSUME NEW w \in Worker, Record(w) PROVE Places' /\ VouchedIsKept'
  BY <1>0, <1>5, RecordKept, QuietPlaces
<1>6. ASSUME NEW w \in Worker, NEW torn \in BOOLEAN, Publish(w, torn)
      PROVE  Places' /\ VouchedIsKept'
  BY <1>0, <1>6, PublishKept, QuietPlaces
<1>7. ASSUME NEW a \in Asset, NEW to \in Path, MoveFile(a, to) PROVE Places' /\ VouchedIsKept'
  BY <1>0, <1>7, MoveFilePlaces, MoveFileKept
<1>8. MoveRow => Places' /\ VouchedIsKept'
  BY <1>0, MoveRowPlaces, MoveRowKept
<1>9. ASSUME NEW w \in Worker,
             \/ PassOver(w) \/ Send(w) \/ QuotaHit(w) \/ CoolDown(w)
             \/ \E text \in {"plain", "429"} : Refuse(w, text)
      PROVE  Places' /\ VouchedIsKept'
  BY <1>0, <1>2, <1>9, UploadQuiet
<1>10. ASSUME \/ \E w \in Worker, k \in JobKey : ClaimUnready(w, k)
              \/ \E crash \in BOOLEAN : Restart(crash)
              \/ \E k \in JobKey : Retry(k)
              \/ \E r \in Remote : Exhaust(r)
              \/ Refill \/ Tick \/ UNCHANGED destVars
       PROVE  Places' /\ VouchedIsKept'
  BY <1>0, <1>2, <1>10, OthersQuiet
<1>11. ASSUME Work PROVE Places' /\ VouchedIsKept'
  <2>1. PICK w \in Worker :
           \/ \E k \in JobKey : Claim(w, k) \/ ClaimUnready(w, k)
           \/ PassOver(w) \/ Send(w) \/ QuotaHit(w) \/ CoolDown(w) \/ Verify(w) \/ Record(w)
           \/ \E torn \in BOOLEAN : Publish(w, torn)
           \/ \E text \in {"plain", "429"} : Refuse(w, text)
    BY <1>11 DEF Work
  <2>2. CASE \E k \in JobKey : Claim(w, k)
    BY <2>2, <1>3
  <2>3. CASE \E k \in JobKey : ClaimUnready(w, k)
    BY <2>3, <1>10
  <2>4. CASE \/ PassOver(w) \/ Send(w) \/ QuotaHit(w) \/ CoolDown(w)
             \/ \E text \in {"plain", "429"} : Refuse(w, text)
    BY <2>4, <1>9
  <2>5. CASE Verify(w) \/ Record(w)
    BY <2>5, <1>4, <1>5
  <2>6. CASE \E torn \in BOOLEAN : Publish(w, torn)
    BY <2>6, <1>6
  <2> QED BY <2>1, <2>2, <2>3, <2>4, <2>5, <2>6
<1>12. ASSUME World PROVE Places' /\ VouchedIsKept'
  <2>1. CASE \/ \E crash \in BOOLEAN : Restart(crash)
             \/ \E k \in JobKey : Retry(k)
             \/ \E r \in Remote : Exhaust(r)
    BY <2>1, <1>10
  <2>2. CASE \E a \in Asset, to \in Path : MoveFile(a, to)
    BY <2>2, <1>7
  <2> QED BY <1>12, <2>1, <2>2, <1>8 DEF World
<1>13. Places' /\ VouchedIsKept'
  <2>1. CASE Tick \/ Refill \/ UNCHANGED destVars
    BY <2>1, <1>10
  <2> QED BY <2>1, <1>11, <1>12 DEF Next
<1>14. config' = config
  <2>1. CASE Work
    BY <2>1 DEF Work, Claim, ClaimUnready, PassOver, Send, QuotaHit, CoolDown, Verify, Record,
                Publish, Refuse
  <2>2. CASE World
    BY <2>2 DEF World, Restart, Retry, MoveFile, MoveRow, Exhaust
  <2> QED BY <2>1, <2>2 DEF Next, Tick, Refill, destVars
<1>15. Apart'
  BY <1>14 DEF Apart
<1> QED BY <1>1, <1>13, <1>15 DEF Standing

LEMMA InitKept ==
  ASSUME Init
  PROVE  Standing
<1>1. job = [k \in JobKey |-> "pending"] /\ worker = [w \in Worker |-> None]
  BY DEF Init
<1>2. ASSUME NEW a \in Asset, NEW p \in Provider PROVE ~Vouched(a, p)
  <2>1. job[<<a, p>>] = "pending"
    BY <1>1 DEF JobKey
  <2> QED BY <2>1, <1>1 DEF Vouched
<1>3. VouchedIsKept
  BY <1>2 DEF VouchedIsKept
<1> QED BY <1>3, InitBasics, InitPlaces DEF Standing

\* Where no two providers write to the same place, a job completed without a
\* note has its asset at the destination, unless the archive gave its path to
\* another asset (Manager.process, the plugins' Upload and Verify, reorganizeOne).
THEOREM CompletedIsHeldCorrect == Spec /\ Apart => []CompletedIsHeld
<1>1. Standing => CompletedIsHeld
  <2> SUFFICES ASSUME VouchedIsKept, NEW a \in Asset, NEW p \in Provider,
                      job[<<a, p>>] = "completed", <<a, p>> \notin noted \cup reused, Checked(p)
               PROVE  Held(a, p)
    BY DEF Standing, CompletedIsHeld
  <2>1. Kept(a, p)
    BY DEF VouchedIsKept, Vouched
  <2> QED BY <2>1 DEF Kept, Held
<1> QED BY <1>1, InitKept, NextKept, PTL DEF Spec
=============================================================================
