--------------------------- MODULE OperationsProofs ---------------------------
(***************************************************************************)
(* Proofs about Operations and SourceIdentity: the slot, the assertion, the *)
(* analyze snapshot and the sessions are what the operations at work say    *)
(* they are (OperationsInv), and two sources that share an identifier come  *)
(* from identifications that overlapped (OneRowPerVolume).                  *)
(***************************************************************************)
EXTENDS Operations, FiniteSetTheorems, WellFoundedInduction, TLAPS

------------------------------------------------------------------------------
(* Least elements, and the two choices of the match. *)

Below == {p \in Nat \X Nat : p[1] < p[2]}

LEMMA BelowIsWellFounded == IsWellFoundedOn(Below, Nat)
  BY NatLessThanWellFounded DEF Below, OpToRel

\* A set of numbers that is not empty has a least one.
LEMMA LeastExists ==
  ASSUME NEW S \in SUBSET Nat, S # {}
  PROVE  \E i \in S : \A j \in S : i <= j
<1>1. PICK i \in S : \A j \in S : <<j, i>> \notin Below
  BY BelowIsWellFounded, WFMin
<1>2. ASSUME NEW j \in S PROVE i <= j
  <2>1. j < i => <<j, i>> \in Below
    BY DEF Below
  <2> QED BY <1>1, <2>1
<1> QED BY <1>2

\* FirstIn returns an element of the sequence that is wanted, if there is one
\* (matchByContent: the newest source first).
LEMMA FirstInIsFound ==
  ASSUME NEW S, NEW s \in Seq(S), NEW good
  PROVE  \/ FirstIn(s, good) = None
         \/ \E i \in DOMAIN s : FirstIn(s, good) = s[i] /\ s[i] \in good
<1> DEFINE hits == {i \in DOMAIN s : s[i] \in good}
<1>1. CASE hits = {}
  BY <1>1 DEF FirstIn
<1>2. CASE hits # {}
  <2>1. hits \in SUBSET Nat
    OBVIOUS
  <2>2. \E i \in hits : \A j \in hits : i <= j
    <3> HIDE DEF hits
    <3> QED BY <1>2, <2>1, LeastExists
  <2>3. (CHOOSE i \in hits : \A j \in hits : i <= j) \in hits
    <3> HIDE DEF hits
    <3> QED BY <2>2
  <2>4. FirstIn(s, good) = s[CHOOSE i \in hits : \A j \in hits : i <= j]
    BY <1>2 DEF FirstIn
  <2> QED BY <2>3, <2>4
<1> QED BY <1>1, <1>2

LEMMA ScoreIsNumber == \A x \in 0..100 : 100 - x \in Nat /\ x \in Int
  OBVIOUS

\* Best picks one of the pieces of evidence that name a row, if one does
\* (Identify: the strongest match wins, ties go to the first).
LEMMA BestIsFound ==
  ASSUME NEW n \in Nat, NEW E, DOMAIN E = 1..n,
         \A i \in 1..n : E[i].score \in 0..100
  PROVE  /\ \/ Best(E) = None
            \/ \E i \in 1..n : E[i].row # None /\ Best(E) = E[i].row
         /\ Best(E) = None => \A i \in 1..n : E[i].row = None
<1> DEFINE found == {i \in DOMAIN E : E[i].row # None}
           Beats(i, j) == \/ E[j].score < E[i].score
                          \/ E[j].score = E[i].score /\ i <= j
<1>1. CASE found = {}
  BY <1>1 DEF Best
<1>2. CASE found # {}
  <2> DEFINE gaps == {100 - E[i].score : i \in found}
  <2>0. \A i \in found : i \in 1..n /\ 100 - E[i].score \in Nat /\ E[i].score \in Int
    <3> SUFFICES ASSUME NEW i \in 1..n
                 PROVE  100 - E[i].score \in Nat /\ E[i].score \in Int
      OBVIOUS
    <3>1. E[i].score \in 0..100
      OBVIOUS
    <3> QED BY <3>1, ScoreIsNumber
  <2>1. gaps \in SUBSET Nat /\ gaps # {}
    <3> HIDE DEF found
    <3> QED BY <1>2, <2>0
  <2>2. PICK g \in gaps : \A h \in gaps : g <= h
    <3> HIDE DEF gaps
    <3> QED BY <2>1, LeastExists
  <2> DEFINE tops == {i \in found : 100 - E[i].score = g}
  <2>3. tops \in SUBSET Nat /\ tops # {}
    BY <2>2
  <2>4. PICK i \in tops : \A j \in tops : i <= j
    <3> HIDE DEF tops
    <3> QED BY <2>3, LeastExists
  <2>5. ASSUME NEW j \in found PROVE Beats(i, j)
    <3>1. 100 - E[j].score \in gaps
      OBVIOUS
    <3>2. g <= 100 - E[j].score
      <4> HIDE DEF gaps
      <4> QED BY <2>2, <3>1
    <3>0. i \in found /\ 100 - E[i].score = g /\ i \in Int /\ E[i].score \in Int
          /\ j \in Int /\ E[j].score \in Int
      <4> HIDE DEF found
      <4> QED BY <2>0
    <3>3. CASE 100 - E[j].score = g
      <4>1. j \in tops
        BY <3>3
      <4>2. i <= j
        <5> HIDE DEF tops
        <5> QED BY <2>4, <4>1
      <4> HIDE DEF found, tops
      <4> QED BY <3>0, <3>3, <4>2
    <3>4. CASE 100 - E[j].score # g
      <4> HIDE DEF found, tops, gaps
      <4> QED BY <3>0, <3>2, <3>4
    <3> QED BY <3>3, <3>4
  <2>6. i \in found
    OBVIOUS
  <2> DEFINE top == CHOOSE k \in found : \A j \in found : Beats(k, j)
  <2>7. top \in found
    <3> HIDE DEF found, Beats
    <3> QED BY <2>5, <2>6
  <2>8. Best(E) = E[top].row
    BY <1>2 DEF Best
  <2> QED
    <3> HIDE DEF top
    <3> QED BY <2>7, <2>8
<1> QED BY <1>1, <1>2

------------------------------------------------------------------------------
(* The inductive invariant of the identifications. *)

Row     == [serial : Name, vol : Name, fs : Name, size : Shows("size") \cup {0}, type : Name,
            print : Prints \cup {None}, looked : Nat]
Session == [root : Mount \cup {None}, source : Nat \cup {None},
            status : {"running", "completed", "cancelled", "interrupted"}]

\* None of the first n rows has an identifier of info.
Unseen(info, n, rs) ==
    \A r \in 1..n : \A k \in Identifier : info[k] = None \/ rs[r][k] # info[k]

\* An identification that knows of no row did look at all there were then.
Sound(x, rs) ==
    x # None => /\ x \in Attempt
                /\ x.row \in DOMAIN rs \cup {None}
                /\ x.looked <= Len(rs)
                /\ x.step = "save" /\ x.row = None => Unseen(x.info, x.looked, rs)
                /\ x.step = "linked" => x.auto

RowsOK ==
    /\ mounted \in [Mount -> Volume \cup {None}] /\ card \in [Volume -> Face]
    /\ rows \in Seq(Row) /\ recent \in Seq(Nat)
    /\ ToSet(recent) = DOMAIN rows /\ Len(recent) = Len(rows)

SessionsOK ==
    /\ sessions \in Seq(Session)
    /\ \A k \in DOMAIN sessions : sessions[k].source \in DOMAIN rows \cup {None}

\* The handle of SourcesService is for an identification a view asked for.
AttemptsOK ==
    /\ ident \in [Caller -> Attempt \cup {None}]
    /\ \A c \in Caller : Sound(ident[c], rows)
    /\ identifyCancel \in Caller \cup {None}
    /\ identifyCancel # None => ident[identifyCancel] # None /\ ~ident[identifyCancel].auto

IdentityInv == RowsOK /\ SessionsOK /\ AttemptsOK /\ OneRowPerVolume

------------------------------------------------------------------------------
(* What the lookups return. *)

\* findByColumn and the two fingerprint lookups return rows, and findByColumn
\* returns none only when no row has the identifier.
LEMMA LookupsFindRows ==
  ASSUME RowsOK, NEW info \in Info
  PROVE  /\ \A k \in Identifier : \A r \in FindBy(k, info) :
              /\ r \in DOMAIN rows \cup {None}
              /\ r = None => \A q \in DOMAIN rows : info[k] = None \/ rows[q][k] # info[k]
         /\ \A print : SameContent(print) \in DOMAIN rows \cup {None}
         /\ \A print : SamePaths(print) \in DOMAIN rows \cup {None}
<1>1. None \notin DOMAIN rows
  BY NoneAssumption DEF RowsOK
<1>2. ASSUME NEW k \in Identifier, NEW r \in FindBy(k, info)
      PROVE  /\ r \in DOMAIN rows \cup {None}
             /\ r = None => \A q \in DOMAIN rows : info[k] = None \/ rows[q][k] # info[k]
  BY <1>1, <1>2 DEF FindBy
<1>3. \A s : FirstIn(recent, s) \in DOMAIN rows \cup {None}
  <2> SUFFICES ASSUME NEW s PROVE FirstIn(recent, s) \in DOMAIN rows \cup {None}
    OBVIOUS
  <2>1. recent \in Seq(Nat) /\ \A i \in DOMAIN recent : recent[i] \in DOMAIN rows
    BY DEF RowsOK, ToSet
  <2> QED BY <2>1, FirstInIsFound
<1> QED BY <1>2, <1>3 DEF SameContent, SamePaths

\* Identify returns a row or none, and none only when no row has an identifier
\* the volume showed.
LEMMA MatchesAreKnown ==
  ASSUME RowsOK, NEW info \in Info, NEW print, NEW m \in Matches(info, print)
  PROVE  /\ m.row \in DOMAIN rows \cup {None} /\ m.sure \in BOOLEAN
         /\ m.row = None => Unseen(info, Len(rows), rows)
<1> DEFINE content == IF print = None THEN None ELSE SameContent(print)
           paths   == IF print = None \/ content # None THEN None ELSE SamePaths(print)
           E(hw, vol, fs) ==
             <<[row |-> hw, score |-> 100], [row |-> vol, score |-> 100],
               [row |-> fs, score |-> IF fs = None THEN 0 ELSE FilesystemScore(fs, info)],
               [row |-> content, score |-> 100], [row |-> paths, score |-> 70]>>
<1>1. PICK hw \in FindBy("serial", info), vol \in FindBy("vol", info), fs \in FindBy("fs", info) :
         m = [row |-> Best(E(hw, vol, fs)), sure |-> content # None]
  BY DEF Matches
<1>2. content \in DOMAIN rows \cup {None} /\ paths \in DOMAIN rows \cup {None}
  BY LookupsFindRows
<1>3. hw \in DOMAIN rows \cup {None} /\ vol \in DOMAIN rows \cup {None}
      /\ fs \in DOMAIN rows \cup {None}
  BY LookupsFindRows DEF Identifier
<1> DEFINE score == IF fs = None THEN 0 ELSE FilesystemScore(fs, info)
           F == E(hw, vol, fs)
<1>4. score \in 0..100
  BY DEF FilesystemScore
<1>5. /\ DOMAIN F = 1..5
      /\ F[1].row = hw /\ F[2].row = vol /\ F[3].row = fs /\ F[4].row = content /\ F[5].row = paths
      /\ F[1].score = 100 /\ F[2].score = 100 /\ F[3].score = score /\ F[4].score = 100
      /\ F[5].score = 70
  <2> HIDE DEF content, paths, score
  <2> QED BY DEF score
<1>6. \A i \in 1..5 : F[i].score \in 0..100
  <2> HIDE DEF F, score
  <2> QED BY <1>4, <1>5
<1>7. /\ Best(F) = None \/ \E i \in 1..5 : F[i].row # None /\ Best(F) = F[i].row
      /\ Best(F) = None => \A i \in 1..5 : F[i].row = None
  <2> HIDE DEF F
  <2>1. 5 \in Nat
    OBVIOUS
  <2> QED BY ZenonT(60), <1>5, <1>6, <2>1, BestIsFound
<1>8. \A i \in 1..5 : F[i].row \in DOMAIN rows \cup {None}
  <2> HIDE DEF F, content, paths
  <2> QED BY <1>2, <1>3, <1>5
<1>9. Best(F) \in DOMAIN rows \cup {None}
  <2> HIDE DEF F
  <2> QED BY <1>7, <1>8
<1>10. m.row = Best(F)
  <2> HIDE DEF content
  <2> QED BY <1>1
<1>11. m.sure \in BOOLEAN
  <2> HIDE DEF F, content
  <2>1. m.sure = (content # None)
    BY <1>1
  <2> QED BY <2>1, Zenon
<1>12. ASSUME Best(F) = None PROVE Unseen(info, Len(rows), rows)
  <2>1. hw = None /\ vol = None /\ fs = None
    <3> HIDE DEF F
    <3> QED BY <1>5, <1>7, <1>12
  <2>2. \A k \in Identifier : \A q \in DOMAIN rows : info[k] = None \/ rows[q][k] # info[k]
    BY <2>1, LookupsFindRows DEF Identifier
  <2>3. DOMAIN rows = 1..Len(rows)
    BY DEF RowsOK
  <2> QED BY <2>2, <2>3 DEF Unseen
<1> QED
  <2> HIDE DEF F
  <2> QED BY <1>9, <1>10, <1>11, <1>12

------------------------------------------------------------------------------
(* The steps of one identification. *)

\* What a volume may be found to say, and the fingerprint of its media.
LEMMA DescribedIsInfo ==
  ASSUME RowsOK, NEW m \in Mount
  PROVE  Bare \in Info /\ Described(m) \subseteq Info
<1>1. Bare \in Info
  <2>1. None \in Name /\ 0 \in Shows("size") \cup {0}
    BY DEF Name
  <2> QED BY <2>1 DEF Bare, Info
<1>2. CASE mounted[m] = None
  BY <1>1, <1>2 DEF Described
<1>3. CASE mounted[m] # None
  <2> DEFINE face == card[mounted[m]]
             said == [k \in DOMAIN Bare |-> face[k]]
  <2>1. face \in Face
    BY <1>3 DEF RowsOK
  <2>2. DOMAIN Bare = {"serial", "vol", "fs", "size", "type"}
    BY DEF Bare
  <2>3. \A k \in {"serial", "vol", "fs", "type"} : face[k] \in Name
    <3> SUFFICES ASSUME NEW k \in {"serial", "vol", "fs", "type"} PROVE face[k] \in Name
      OBVIOUS
    <3>1. face[k] \in Shows(k)
      <4> HIDE DEF face
      <4> QED BY <2>1 DEF Shows
    <3>2. k \in Identifier \cup {"type"}
      BY DEF Identifier
    <3> HIDE DEF face
    <3> QED BY <3>1, <3>2 DEF Name
  <2>4. face["size"] \in Shows("size") \cup {0} /\ None \in Name
    <3> HIDE DEF face
    <3>1. face["size"] \in Shows("size")
      BY <2>1 DEF Shows
    <3> QED BY <3>1 DEF Name
  <2>5. said \in Info
    <3> HIDE DEF face
    <3>1. said = [serial |-> face["serial"], vol |-> face["vol"], fs |-> face["fs"],
                  size |-> face["size"], type |-> face["type"]]
      BY <2>2
    <3> HIDE DEF said
    <3> QED BY <2>3, <2>4, <3>1 DEF Info
  <2>6. [said EXCEPT !.serial = None] \in Info
    <3> HIDE DEF said
    <3> QED BY <2>4, <2>5 DEF Info
  <2>7. Described(m) = {said, [said EXCEPT !.serial = None]}
    BY <1>3, Zenon DEF Described, Probed
  <2> QED
    <3> HIDE DEF said
    <3> QED BY <1>1, <2>5, <2>6, <2>7
<1> QED BY <1>2, <1>3

LEMMA FingerprintIsPrint ==
  ASSUME RowsOK, NEW m \in Mount, NEW readable \in BOOLEAN
  PROVE  Fingerprint(Files(m), readable) \in Prints
<1>1. Files(m) \in Shows("files") \cup {<<>>}
  BY DEF RowsOK, Files, Shows
<1>2. \A f \in Shows("files") \cup {<<>>} : Fingerprint(f, readable) \in Prints
  BY DEF Prints
<1> QED BY <1>1, <1>2

\* A step that leaves the catalog and the volumes alone and gives one caller's
\* identification a sound record.
LEMMA OneAttempt ==
  ASSUME IdentityInv, NEW c \in Caller, NEW x, x \in Attempt \cup {None}, Sound(x, rows),
         ident' = [ident EXCEPT ![c] = x],
         \/ identifyCancel' = None
         \/ /\ identifyCancel' = identifyCancel
            /\ identifyCancel = c => x # None /\ ~x.auto
         \/ /\ identifyCancel' = c
            /\ x # None /\ ~x.auto,
         UNCHANGED <<catalog, volumes>>
  PROVE  IdentityInv'
<1>1. rows' = rows /\ recent' = recent /\ sessions' = sessions /\ mounted' = mounted /\ card' = card
  BY DEF catalog, volumes
<1>2. AttemptsOK'
  <2>1. ident' \in [Caller -> Attempt \cup {None}]
    BY DEF IdentityInv, AttemptsOK
  <2>2. ASSUME NEW d \in Caller PROVE Sound(ident'[d], rows')
    BY <1>1 DEF IdentityInv, AttemptsOK
  <2>3. identifyCancel' \in Caller \cup {None}
    BY DEF IdentityInv, AttemptsOK
  <2>4. identifyCancel' # None => ident'[identifyCancel'] # None /\ ~ident'[identifyCancel'].auto
    BY NoneAssumption DEF IdentityInv, AttemptsOK
  <2> QED BY <2>1, <2>2, <2>3, <2>4 DEF AttemptsOK
<1> QED BY <1>1, <1>2 DEF IdentityInv, RowsOK, SessionsOK, OneRowPerVolume

\* Sound records stay sound when a row is added.
LEMMA SoundGrows ==
  ASSUME NEW rs \in Seq(Row), NEW new \in Row, NEW x, Sound(x, rs)
  PROVE  Sound(x, Append(rs, new))
<1>1. Len(Append(rs, new)) = Len(rs) + 1 /\ DOMAIN Append(rs, new) = 1..(Len(rs) + 1)
      /\ DOMAIN rs = 1..Len(rs) /\ Len(rs) \in Nat
      /\ \A i \in 1..Len(rs) : Append(rs, new)[i] = rs[i]
  OBVIOUS
<1>2. CASE x = None
  BY <1>2 DEF Sound
<1>3. CASE x # None
  <2>0. x \in Attempt /\ x.looked \in Nat /\ x.looked <= Len(rs) /\ x.row \in DOMAIN rs \cup {None}
        /\ (x.step = "save" /\ x.row = None => Unseen(x.info, x.looked, rs))
        /\ (x.step = "linked" => x.auto)
    BY <1>3 DEF Sound, Attempt
  <2>1. x.row \in DOMAIN Append(rs, new) \cup {None} /\ x.looked <= Len(Append(rs, new))
    BY <1>1, <2>0
  <2>2. ASSUME Unseen(x.info, x.looked, rs) PROVE Unseen(x.info, x.looked, Append(rs, new))
    BY <1>1, <2>0, <2>2 DEF Unseen
  <2> QED BY <2>0, <2>1, <2>2 DEF Sound
<1> QED BY <1>2, <1>3

LEMMA BeginStep ==
  ASSUME IdentityInv, NEW c \in Caller, NEW m \in Mount, NEW auto \in BOOLEAN, Begin(c, m, auto),
         \/ auto /\ identifyCancel' = identifyCancel
         \/ ~auto /\ identifyCancel' = c,
         UNCHANGED <<catalog, volumes>>
  PROVE  IdentityInv'
<1> DEFINE x == [mount |-> m, step |-> "describe", auto |-> auto, info |-> Bare, print |-> None,
                 row |-> None, sure |-> FALSE, looked |-> 0, cancelled |-> FALSE]
<1>1. x \in Attempt
  BY DescribedIsInfo DEF Attempt, IdentityInv
<1>2. ident[c] = None /\ ident' = [ident EXCEPT ![c] = x]
  BY DEF Begin, Step
<1>3. Sound(x, rows)
  BY <1>1 DEF Sound, IdentityInv, RowsOK
<1>4. x # None
  BY <1>1, NoneAssumption
<1>5. identifyCancel # c
  BY <1>2, NoneAssumption DEF IdentityInv, AttemptsOK
<1>6. x.auto = auto
  OBVIOUS
<1> HIDE DEF x
<1> QED BY <1>1, <1>2, <1>3, <1>4, <1>5, <1>6, OneAttempt

LEMMA IdentifyVolumeStep ==
  ASSUME IdentityInv, NEW c \in Caller, NEW m \in Mount, IdentifyVolume(c, m)
  PROVE  IdentityInv'
BY BeginStep DEF IdentifyVolume

\* What a caller in the middle of an identification holds.
LEMMA HeldAttempt ==
  ASSUME IdentityInv, NEW c \in Caller, ident[c] # None
  PROVE  /\ ident[c] \in Attempt /\ Sound(ident[c], rows)
         /\ ident[c].row \in DOMAIN rows \cup {None} /\ ident[c].looked \in Nat
         /\ ident[c].looked <= Len(rows)
         /\ identifyCancel = c => ~ident[c].auto
BY NoneAssumption DEF IdentityInv, AttemptsOK, Sound, Attempt

\* Describe, Walk, TimeOut and a cancellation change fields the match does not
\* rest on before it is made.
LEMMA EarlyStep ==
  ASSUME IdentityInv, NEW c \in Caller, ident[c] # None,
         NEW x \in Attempt, x.row = ident[c].row, x.looked = ident[c].looked,
         x.auto = ident[c].auto,
         x.step \notin {"save", "linked"} \/ (x.step = ident[c].step /\ x.info = ident[c].info),
         ident' = [ident EXCEPT ![c] = x],
         UNCHANGED <<catalog, volumes, identifyCancel>>
  PROVE  IdentityInv'
<1>1. Sound(x, rows)
  BY HeldAttempt DEF Sound
<1>2. x # None
  BY NoneAssumption
<1> QED BY <1>1, <1>2, HeldAttempt, OneAttempt

LEMMA DescribeStep ==
  ASSUME IdentityInv, NEW c \in Caller, Describe(c)
  PROVE  IdentityInv'
<1>1. ident[c] # None /\ ident[c] \in Attempt /\ At(c) \in Mount
  BY HeldAttempt DEF Describe, Doing, At, Attempt
<1>2. PICK info \in (IF ident[c].cancelled THEN {Bare} ELSE Described(At(c))) :
         ident' = [ident EXCEPT ![c] = [ident[c] EXCEPT !.step = "walk", !.info = info]]
  BY DEF Describe, Step
<1>3. info \in Info
  BY <1>1, DescribedIsInfo DEF IdentityInv
<1>4. [ident[c] EXCEPT !.step = "walk", !.info = info] \in Attempt
  BY <1>1, <1>3 DEF Attempt
<1>5. UNCHANGED <<catalog, volumes, identifyCancel>>
  BY DEF Describe
<1> DEFINE x == [ident[c] EXCEPT !.step = "walk", !.info = info]
<1>6. x.row = ident[c].row /\ x.looked = ident[c].looked /\ x.auto = ident[c].auto
      /\ x.step \notin {"save", "linked"}
  BY <1>1 DEF Attempt
<1> HIDE DEF x
<1>7. x \in Attempt /\ ident' = [ident EXCEPT ![c] = x]
  BY <1>2, <1>4 DEF x
<1> QED BY <1>1, <1>5, <1>6, <1>7, EarlyStep

LEMMA WalkStep ==
  ASSUME IdentityInv, NEW c \in Caller, Walk(c)
  PROVE  IdentityInv'
<1>1. ident[c] # None /\ ident[c] \in Attempt /\ At(c) \in Mount
  BY HeldAttempt DEF Walk, Doing, At, Attempt
<1>2. PICK readable \in BOOLEAN :
         ident' = [ident EXCEPT ![c] =
                     [ident[c] EXCEPT !.step = "look",
                        !.print = IF ident[c].cancelled /\ mounted[At(c)] # None THEN None
                                  ELSE Fingerprint(Files(At(c)), readable)]]
  BY DEF Walk, Step
<1> DEFINE print == IF ident[c].cancelled /\ mounted[At(c)] # None THEN None
                    ELSE Fingerprint(Files(At(c)), readable)
           x == [ident[c] EXCEPT !.step = "look", !.print = print]
<1>3. print \in Prints \cup {None}
  BY <1>1, FingerprintIsPrint DEF IdentityInv
<1>4. x \in Attempt /\ x.row = ident[c].row /\ x.looked = ident[c].looked
      /\ x.auto = ident[c].auto /\ x.step \notin {"save", "linked"}
  <2> HIDE DEF print
  <2> QED BY <1>1, <1>3 DEF Attempt
<1>5. UNCHANGED <<catalog, volumes, identifyCancel>>
  BY DEF Walk
<1>6. ident' = [ident EXCEPT ![c] = x]
  BY <1>2
<1> HIDE DEF x
<1> QED BY <1>1, <1>4, <1>5, <1>6, EarlyStep

LEMMA TimeOutStep ==
  ASSUME IdentityInv, NEW c \in Caller, TimeOut(c)
  PROVE  IdentityInv'
<1> DEFINE x == [ident[c] EXCEPT !.cancelled = TRUE]
<1>1. ident[c] # None /\ ident[c] \in Attempt
  BY HeldAttempt DEF TimeOut
<1>2. x \in Attempt /\ x.row = ident[c].row /\ x.looked = ident[c].looked
      /\ x.auto = ident[c].auto /\ x.step = ident[c].step /\ x.info = ident[c].info
  BY <1>1 DEF Attempt
<1>3. ident' = [ident EXCEPT ![c] = x] /\ UNCHANGED <<catalog, volumes, identifyCancel>>
  BY DEF TimeOut, Step
<1> HIDE DEF x
<1> QED BY <1>1, <1>2, <1>3, EarlyStep

LEMMA CancelIdentifyStep ==
  ASSUME IdentityInv, CancelIdentify
  PROVE  IdentityInv'
<1> DEFINE c == identifyCancel
           x == [ident[c] EXCEPT !.cancelled = TRUE]
<1>0. c \in Caller /\ ident[c] # None
  BY DEF CancelIdentify, IdentityInv, AttemptsOK
<1>1. ident[c] \in Attempt
  BY <1>0, HeldAttempt
<1>2. x \in Attempt /\ x.row = ident[c].row /\ x.looked = ident[c].looked
      /\ x.auto = ident[c].auto /\ x.step = ident[c].step /\ x.info = ident[c].info
  BY <1>1 DEF Attempt
<1>3. ident' = [ident EXCEPT ![c] = x] /\ UNCHANGED <<catalog, volumes, identifyCancel>>
  BY DEF CancelIdentify, Step
<1> HIDE DEF x
<1> QED BY <1>0, <1>1, <1>2, <1>3, EarlyStep

\* End, when nothing but the identification changes: a view's call is over, an
\* import takes the row along.
LEMMA EndStep ==
  ASSUME IdentityInv, NEW c \in Caller, ident[c] # None,
         NEW r \in DOMAIN rows \cup {None}, End(c, r),
         UNCHANGED <<catalog, volumes>>
  PROVE  IdentityInv'
<1> DEFINE x == [ident[c] EXCEPT !.step = "linked", !.row = r]
<1>1. ident[c] \in Attempt /\ ident[c].looked <= Len(rows) /\ r \in Nat \cup {None}
      /\ (identifyCancel = c => ~ident[c].auto)
  BY HeldAttempt DEF IdentityInv, RowsOK
<1>2. x \in Attempt /\ x.row = r /\ x.looked = ident[c].looked /\ x.auto = ident[c].auto
      /\ x.step = "linked"
  BY <1>1 DEF Attempt
<1>3. ident[c].auto => Sound(x, rows)
  <2> HIDE DEF x
  <2> QED BY <1>1, <1>2 DEF Sound
<1>4. CASE ident[c].auto
  <2>1. ident' = [ident EXCEPT ![c] = x] /\ identifyCancel' = identifyCancel
    BY <1>4 DEF End, Step
  <2>2. identifyCancel # c
    BY <1>1, <1>4
  <2> HIDE DEF x
  <2> QED BY <1>2, <1>3, <1>4, <2>1, <2>2, OneAttempt
<1>5. CASE ~ident[c].auto
  <2>1. ident' = [ident EXCEPT ![c] = None] /\ identifyCancel' = None
    BY <1>5 DEF End, Step
  <2>2. Sound(None, rows)
    BY DEF Sound
  <2> QED BY <2>1, <2>2, OneAttempt
<1> QED BY <1>4, <1>5

LEMMA LookStep ==
  ASSUME IdentityInv, NEW c \in Caller, Look(c)
  PROVE  IdentityInv'
<1>1. ident[c] # None /\ ident[c] \in Attempt /\ (identifyCancel = c => ~ident[c].auto)
  BY HeldAttempt DEF Look, Doing
<1>2. UNCHANGED <<catalog, volumes>>
  BY DEF Look
<1>3. CASE ident[c].cancelled /\ \E k \in Identifier : ident[c].info[k] # None
  <2>1. End(c, None)
    BY <1>3 DEF Look
  <2> QED BY <1>1, <1>2, <2>1, EndStep
<1>4. CASE ~(ident[c].cancelled /\ \E k \in Identifier : ident[c].info[k] # None)
  <2> DEFINE print == IF ident[c].cancelled THEN None ELSE ident[c].print
  <2>1. PICK m \in Matches(ident[c].info, print) :
           /\ ident' = [ident EXCEPT ![c] = [ident[c] EXCEPT !.step = "save", !.row = m.row,
                                                  !.sure = m.sure, !.looked = Len(rows)]]
           /\ identifyCancel' = identifyCancel
    BY <1>4 DEF Look, Step
  <2> DEFINE x == [ident[c] EXCEPT !.step = "save", !.row = m.row, !.sure = m.sure,
                                   !.looked = Len(rows)]
  <2>2. /\ m.row \in DOMAIN rows \cup {None} /\ m.sure \in BOOLEAN
        /\ m.row = None => Unseen(ident[c].info, Len(rows), rows)
    <3>1. ident[c].info \in Info
      BY <1>1 DEF Attempt
    <3> HIDE DEF print
    <3> QED BY <3>1, MatchesAreKnown DEF IdentityInv
  <2>3. Len(rows) \in Nat /\ DOMAIN rows = 1..Len(rows)
    BY DEF IdentityInv, RowsOK
  <2>4. /\ x \in Attempt /\ x.row = m.row /\ x.looked = Len(rows) /\ x.info = ident[c].info
        /\ x.auto = ident[c].auto /\ x.step = "save"
    <3> HIDE DEF print
    <3>1. m.row \in Nat \cup {None}
      BY <2>2, <2>3
    <3> QED BY <1>1, <2>2, <2>3, <3>1 DEF Attempt
  <2>5. Sound(x, rows)
    <3> HIDE DEF x, print
    <3> QED BY <2>2, <2>3, <2>4 DEF Sound
  <2>6. x # None
    <3> HIDE DEF x
    <3> QED BY <2>4, NoneAssumption
  <2>7. ident' = [ident EXCEPT ![c] = x] /\ identifyCancel' = identifyCancel
    BY <2>1
  <2> HIDE DEF x, print
  <2> QED BY <1>1, <1>2, <2>4, <2>5, <2>6, <2>7, OneAttempt
<1> QED BY <1>3, <1>4

\* The rows and sessions may change under the identifications as long as what
\* they hold stays sound; then one of them is given a record.
LEMMA CatalogStep ==
  ASSUME IdentityInv, NEW c \in Caller, NEW x, x \in Attempt \cup {None}, Sound(x, rows'),
         ident' = [ident EXCEPT ![c] = x],
         \/ identifyCancel' = None
         \/ /\ identifyCancel' = identifyCancel
            /\ identifyCancel = c => x # None /\ ~x.auto,
         \A y : Sound(y, rows) => Sound(y, rows')
  PROVE  AttemptsOK'
<1>1. ident' \in [Caller -> Attempt \cup {None}]
  BY DEF IdentityInv, AttemptsOK
<1>2. ASSUME NEW d \in Caller PROVE Sound(ident'[d], rows')
  BY DEF IdentityInv, AttemptsOK
<1>3. identifyCancel' \in Caller \cup {None}
  BY DEF IdentityInv, AttemptsOK
<1>4. identifyCancel' # None => ident'[identifyCancel'] # None /\ ~ident'[identifyCancel'].auto
  BY NoneAssumption DEF IdentityInv, AttemptsOK
<1> QED BY <1>1, <1>2, <1>3, <1>4 DEF AttemptsOK

\* Saved and End: the record they leave.
LEMMA SavedStep ==
  ASSUME IdentityInv, NEW c \in Caller, ident[c] # None, NEW r \in DOMAIN rows' \cup {None},
         rows' \in Seq(Row), Len(rows) <= Len(rows'),
         Saved(c, r) \/ End(c, r),
         \A y : Sound(y, rows) => Sound(y, rows')
  PROVE  AttemptsOK'
<1>1. ident[c] \in Attempt /\ ident[c].looked <= Len(rows') /\ r \in Nat \cup {None}
      /\ (identifyCancel = c => ~ident[c].auto) /\ ident[c].looked \in Nat
  <2>1. Len(rows) \in Nat /\ Len(rows') \in Nat /\ DOMAIN rows' = 1..Len(rows')
    BY DEF IdentityInv, RowsOK
  <2> QED BY <2>1, HeldAttempt
<1>2. ASSUME NEW s \in {"adopt", "linked"}, s = "linked" => ident[c].auto,
             ident' = [ident EXCEPT ![c] = [ident[c] EXCEPT !.step = s, !.row = r]],
             identifyCancel' = identifyCancel
      PROVE  AttemptsOK'
  <2> DEFINE x == [ident[c] EXCEPT !.step = s, !.row = r]
  <2>1. x \in Attempt /\ x.row = r /\ x.looked = ident[c].looked /\ x.auto = ident[c].auto
        /\ x.step # "save" /\ x.step = s
    BY <1>1 DEF Attempt
  <2>2. Sound(x, rows')
    <3> HIDE DEF x
    <3> QED BY <1>1, <1>2, <2>1 DEF Sound
  <2>3. x # None
    <3> HIDE DEF x
    <3> QED BY <2>1, NoneAssumption
  <2>4. ident' = [ident EXCEPT ![c] = x]
    BY <1>2
  <2> HIDE DEF x
  <2> QED BY <1>1, <1>2, <2>1, <2>2, <2>3, <2>4, CatalogStep
<1>3. ASSUME ident' = [ident EXCEPT ![c] = None], identifyCancel' = None
      PROVE  AttemptsOK'
  <2>1. Sound(None, rows')
    BY DEF Sound
  <2> QED BY <1>3, <2>1, CatalogStep
<1>4. \/ \E s \in {"adopt", "linked"} :
            /\ s = "linked" => ident[c].auto
            /\ ident' = [ident EXCEPT ![c] = [ident[c] EXCEPT !.step = s, !.row = r]]
            /\ identifyCancel' = identifyCancel
      \/ ident' = [ident EXCEPT ![c] = None] /\ identifyCancel' = None
  BY DEF Saved, End, Step
<1> QED BY <1>2, <1>3, <1>4

\* The row in front, the others keep their order: the same rows.
LEMMA ToFrontKeeps ==
  ASSUME NEW s \in Seq(Nat), NEW r \in ToSet(s)
  PROVE  /\ ToFront(s, r) \in Seq(Nat)
         /\ Len(ToFront(s, r)) = Len(s)
         /\ ToSet(ToFront(s, r)) = ToSet(s)
<1> DEFINE t == ToFront(s, r)
           n == Len(s)
           Before(i) == \E j \in 1..(i - 1) : s[j] = r
<1>1. n \in Nat /\ DOMAIN s = 1..n /\ \A i \in 1..n : s[i] \in Nat
  OBVIOUS
<1>2. DOMAIN t = 1..n
      /\ \A i \in 1..n : t[i] = IF i = 1 THEN r ELSE IF Before(i) THEN s[i] ELSE s[i - 1]
  BY <1>1 DEF ToFront
<1>3. PICK p \in 1..n : s[p] = r
  BY <1>1 DEF ToSet
<1> HIDE DEF n
<1>4. \A i \in 1..n : i = 1 \/ i - 1 \in 1..n
  BY <1>1
<1>5. ASSUME NEW i \in 1..n PROVE t[i] \in Nat /\ t[i] \in ToSet(s)
  <2>1. t[i] = r \/ t[i] = s[i] \/ (t[i] = s[i - 1] /\ i # 1)
    <3>1. t[i] = IF i = 1 THEN r ELSE IF Before(i) THEN s[i] ELSE s[i - 1]
      <4> HIDE DEF t, Before
      <4> QED BY <1>2
    <3> HIDE DEF t, Before
    <3> QED BY <3>1
  <2>2. r \in Nat
    BY <1>1, <1>3
  <2>3. s[i] \in ToSet(s) /\ (i # 1 => s[i - 1] \in ToSet(s) /\ s[i - 1] \in Nat)
    BY <1>1, <1>4 DEF ToSet
  <2> HIDE DEF t
  <2> QED BY <1>1, <2>1, <2>2, <2>3
<1>6. t \in Seq(Nat) /\ Len(t) = n
  <2>1. t = [i \in 1..n |-> t[i]]
    BY <1>1 DEF ToFront, n
  <2> HIDE DEF t
  <2>2. t \in [1..n -> Nat]
    BY <1>5, <2>1
  <2> QED BY <1>1, <2>2
<1>7. ASSUME NEW i \in 1..n PROVE \E k \in 1..n : t[k] = s[i]
  <2>1. CASE s[i] = r
    <3>1. 1 \in 1..n /\ t[1] = r
      <4> HIDE DEF t, Before
      <4> QED BY <1>1, <1>2
    <3> QED BY <2>1, <3>1
  <2>2. CASE s[i] # r /\ Before(i)
    <3>1. i # 1
      BY <2>2
    <3>2. t[i] = s[i]
      <4> HIDE DEF t, Before
      <4> QED BY <1>2, <2>2, <3>1
    <3> QED BY <3>2
  <2>3. CASE s[i] # r /\ ~Before(i)
    <3>1. i + 1 \in 1..n
      BY <1>1, <1>3, <2>3
    <3>2. ~Before(i + 1)
      <4> SUFFICES ASSUME NEW j \in 1..(i + 1 - 1) PROVE s[j] # r
        OBVIOUS
      <4>1. j \in 1..(i - 1) \/ j = i
        BY <1>1
      <4> QED BY <2>3, <4>1
    <3>3. t[i + 1] = s[i + 1 - 1]
      <4>1. i + 1 # 1
        BY <1>1
      <4> HIDE DEF t, Before
      <4> QED BY <1>2, <3>1, <3>2, <4>1
    <3>4. i + 1 - 1 = i
      BY <1>1
    <3> HIDE DEF t
    <3> QED BY <3>1, <3>3, <3>4
  <2> QED BY <2>1, <2>2, <2>3
<1>8. ToSet(t) = ToSet(s)
  <2>1. ToSet(t) \subseteq ToSet(s)
    <3> HIDE DEF t
    <3> QED BY <1>2, <1>5 DEF ToSet
  <2>2. ToSet(s) \subseteq ToSet(t)
    <3> SUFFICES ASSUME NEW i \in DOMAIN s PROVE s[i] \in ToSet(t)
      BY DEF ToSet
    <3>1. DOMAIN t = 1..n /\ i \in 1..n
      BY <1>1, <1>2
    <3> HIDE DEF t
    <3> QED BY <1>7, <3>1 DEF ToSet
  <2> QED BY <2>1, <2>2
<1> QED BY <1>6, <1>8 DEF n

LEMMA UpdateStep ==
  ASSUME IdentityInv, NEW c \in Caller, Update(c)
  PROVE  IdentityInv'
<1>1. /\ ident[c] # None /\ ident[c].row # None /\ ident[c].row \in DOMAIN rows
      /\ recent' = ToFront(recent, ident[c].row) /\ Saved(c, ident[c].row)
      /\ rows' = rows /\ sessions' = sessions /\ mounted' = mounted /\ card' = card
  BY HeldAttempt DEF Update, Doing, volumes
<1>2. AttemptsOK'
  <2>1. rows' \in Seq(Row) /\ Len(rows) <= Len(rows') /\ ident[c].row \in DOMAIN rows' \cup {None}
    BY <1>1 DEF IdentityInv, RowsOK
  <2>2. \A y : Sound(y, rows) => Sound(y, rows')
    BY <1>1
  <2> QED BY <1>1, <2>1, <2>2, SavedStep
<1>3. /\ recent' \in Seq(Nat) /\ Len(recent') = Len(recent) /\ ToSet(recent') = ToSet(recent)
  <2>1. recent \in Seq(Nat) /\ ident[c].row \in ToSet(recent)
    BY <1>1 DEF IdentityInv, RowsOK
  <2> QED BY <1>1, <2>1, ToFrontKeeps
<1>4. RowsOK'
  BY <1>1, <1>3 DEF IdentityInv, RowsOK
<1> QED BY <1>1, <1>2, <1>4 DEF IdentityInv, SessionsOK, OneRowPerVolume

\* The row an identification records has the identifiers it read.
LEMMA RecordedRow ==
  ASSUME NEW i \in Attempt, NEW new,
         new = [k \in DOMAIN i.info \cup {"print", "looked"} |->
                   IF k \in DOMAIN i.info THEN i.info[k] ELSE i[k]]
  PROVE  new \in Row /\ new.looked = i.looked /\ \A k \in Identifier : new[k] = i.info[k]
<1>1. i.info \in Info /\ i.print \in Prints \cup {None} /\ i.looked \in Nat
  BY DEF Attempt
<1>2. DOMAIN i.info = {"serial", "vol", "fs", "size", "type"}
  BY <1>1 DEF Info
<1>3. new = [serial |-> i.info.serial, vol |-> i.info.vol, fs |-> i.info.fs,
             size |-> i.info.size, type |-> i.info.type, print |-> i.print, looked |-> i.looked]
  BY <1>2
<1>4. new \in Row
  BY <1>1, <1>3 DEF Info, Row
<1> QED BY <1>3, <1>4 DEF Identifier

LEMMA CreateStep ==
  ASSUME IdentityInv, NEW c \in Caller, Create(c)
  PROVE  IdentityInv'
<1> DEFINE i   == ident[c]
           n   == Len(rows)
           new == [k \in DOMAIN i.info \cup {"print", "looked"} |->
                      IF k \in DOMAIN i.info THEN i.info[k] ELSE i[k]]
<1>1. /\ i # None /\ i.step = "save" /\ i.row = None
      /\ rows' = Append(rows, new) /\ recent' = <<Len(rows')>> \o recent /\ Saved(c, Len(rows'))
      /\ sessions' = sessions /\ mounted' = mounted /\ card' = card
  BY DEF Create, Doing, volumes
<1>2. i \in Attempt /\ i.looked \in Nat /\ i.looked <= n /\ Unseen(i.info, i.looked, rows)
  BY <1>1, HeldAttempt DEF Sound
<1>3. new \in Row /\ new.looked = i.looked /\ \A k \in Identifier : new[k] = i.info[k]
  <2> HIDE DEF i
  <2> QED BY <1>2, RecordedRow
<1> HIDE DEF i, new
<1>4. rows \in Seq(Row) /\ n \in Nat /\ DOMAIN rows = 1..n
  BY DEF IdentityInv, RowsOK
<1>5. /\ rows' \in Seq(Row) /\ Len(rows') = n + 1 /\ DOMAIN rows' = 1..(n + 1)
      /\ rows'[n + 1] = new /\ \A r \in 1..n : rows'[r] = rows[r]
  BY <1>1, <1>3, <1>4
<1>6. \A y : Sound(y, rows) => Sound(y, rows')
  BY <1>1, <1>3, <1>4, SoundGrows
<1>7. AttemptsOK'
  <2>1. Len(rows') \in DOMAIN rows' \cup {None} /\ Len(rows) <= Len(rows')
    BY <1>4, <1>5
  <2> QED BY <1>1, <1>5, <1>6, <2>1, SavedStep DEF i
<1>8. RowsOK'
  <2>1. recent \in Seq(Nat) /\ Len(recent) = n /\ ToSet(recent) = 1..n
    BY <1>4 DEF IdentityInv, RowsOK
  <2>2. recent' = <<n + 1>> \o recent
    BY <1>1, <1>5
  <2>3. /\ recent' \in Seq(Nat) /\ Len(recent') = n + 1 /\ recent'[1] = n + 1
        /\ \A k \in 1..n : recent'[k + 1] = recent[k]
    BY <1>4, <2>1, <2>2
  <2>4. ToSet(recent') = 1..(n + 1)
    <3>1. ASSUME NEW k \in 1..(n + 1) PROVE recent'[k] \in 1..(n + 1)
      <4>1. k = 1 \/ (k - 1 \in 1..n /\ k = (k - 1) + 1)
        BY <1>4
      <4>2. \A q \in 1..n : recent[q] \in 1..n
        BY <2>1 DEF ToSet
      <4>3. ASSUME k - 1 \in 1..n, k = (k - 1) + 1 PROVE recent'[k] \in 1..n
        <5>1. recent'[(k - 1) + 1] = recent[k - 1]
          BY <2>3, <4>3
        <5> QED BY <4>2, <4>3, <5>1
      <4> QED BY <1>4, <2>3, <4>1, <4>3
    <3>2. ASSUME NEW r \in 1..(n + 1) PROVE \E k \in 1..(n + 1) : recent'[k] = r
      <4>1. CASE r = n + 1
        BY <1>4, <2>3, <4>1
      <4>2. CASE r # n + 1
        <5>1. r \in 1..n
          BY <1>4, <4>2
        <5>2. PICK k \in 1..n : recent[k] = r
          BY <2>1, <5>1 DEF ToSet
        <5>3. recent'[k + 1] = r /\ k + 1 \in 1..(n + 1)
          BY <1>4, <2>3, <5>2
        <5> QED BY <5>3
      <4> QED BY <4>1, <4>2
    <3>3. DOMAIN recent' = 1..(n + 1)
      BY <2>3
    <3> QED BY <3>1, <3>2, <3>3 DEF ToSet
  <2> QED BY <1>1, <1>5, <2>3, <2>4 DEF IdentityInv, RowsOK
<1>9. SessionsOK'
  BY <1>1, <1>4, <1>5 DEF IdentityInv, SessionsOK
<1>10. OneRowPerVolume'
  <2> SUFFICES ASSUME NEW p \in 1..(n + 1), NEW q \in 1..(n + 1), p < q,
                      NEW k \in Identifier, rows'[p][k] # None, rows'[p][k] = rows'[q][k]
               PROVE  rows'[q].looked < p
    BY <1>5 DEF OneRowPerVolume
  <2>1. CASE q \in 1..n
    <3>1. p \in 1..n /\ rows'[p] = rows[p] /\ rows'[q] = rows[q]
      BY <1>4, <1>5, <2>1
    <3> QED BY <1>4, <2>1, <3>1 DEF IdentityInv, OneRowPerVolume
  <2>2. CASE q = n + 1
    <3>1. p \in 1..n /\ rows'[p] = rows[p] /\ rows'[q] = new
      BY <1>4, <1>5, <2>2
    <3>2. i.info[k] # None /\ rows[p][k] = i.info[k]
      BY <1>3, <3>1
    <3>3. ~(p \in 1..i.looked)
      BY <1>2, <3>2 DEF Unseen
    <3> QED BY <1>2, <1>3, <1>4, <3>1, <3>3
  <2> QED BY <1>4, <2>1, <2>2
<1> QED BY <1>7, <1>8, <1>9, <1>10 DEF IdentityInv

LEMMA AdoptStep ==
  ASSUME IdentityInv, NEW c \in Caller, Adopt(c)
  PROVE  IdentityInv'
<1>1. /\ ident[c] # None /\ End(c, ident[c].row)
      /\ sessions' = [k \in DOMAIN sessions |->
                        IF sessions[k].source = None /\ sessions[k].root = At(c)
                        THEN [sessions[k] EXCEPT !.source = ident[c].row] ELSE sessions[k]]
      /\ rows' = rows /\ recent' = recent /\ mounted' = mounted /\ card' = card
  BY DEF Adopt, Doing, volumes
<1>2. ident[c].row \in DOMAIN rows \cup {None} /\ DOMAIN rows \subseteq Nat
  BY <1>1, HeldAttempt DEF IdentityInv, RowsOK
<1>3. AttemptsOK'
  <2>1. rows' \in Seq(Row) /\ Len(rows) <= Len(rows') /\ ident[c].row \in DOMAIN rows' \cup {None}
    BY <1>1, <1>2 DEF IdentityInv, RowsOK
  <2>2. \A y : Sound(y, rows) => Sound(y, rows')
    BY <1>1
  <2> QED BY <1>1, <2>1, <2>2, SavedStep
<1>4. SessionsOK'
  <2>1. sessions \in Seq(Session) /\ DOMAIN sessions = 1..Len(sessions) /\ Len(sessions) \in Nat
        /\ \A k \in DOMAIN sessions : sessions[k] \in Session
                                      /\ sessions[k].source \in DOMAIN rows \cup {None}
    BY DEF IdentityInv, SessionsOK
  <2>2. DOMAIN sessions' = 1..Len(sessions)
    BY <1>1, <2>1
  <2>3. ASSUME NEW k \in 1..Len(sessions)
        PROVE  sessions'[k] \in Session /\ sessions'[k].source \in DOMAIN rows \cup {None}
    <3>1. sessions'[k] = sessions[k] \/ sessions'[k] = [sessions[k] EXCEPT !.source = ident[c].row]
      BY <1>1, <2>1
    <3> QED BY <1>2, <2>1, <3>1 DEF Session
  <2>4. sessions' = [k \in 1..Len(sessions) |-> sessions'[k]]
    BY <1>1, <2>1, <2>2
  <2>5. sessions' \in [1..Len(sessions) -> Session]
    BY <2>3, <2>4
  <2>6. sessions' \in Seq(Session)
    BY <2>1, <2>5
  <2> QED BY <1>1, <2>2, <2>3, <2>6 DEF SessionsOK
<1> QED BY <1>1, <1>3, <1>4 DEF IdentityInv, RowsOK, OneRowPerVolume

LEMMA VolumesStep ==
  ASSUME IdentityInv, Volumes
  PROVE  IdentityInv'
<1>1. rows' = rows /\ recent' = recent /\ sessions' = sessions /\ ident' = ident
      /\ identifyCancel' = identifyCancel
  BY DEF Volumes, catalog
<1>2. mounted' \in [Mount -> Volume \cup {None}] /\ card' \in [Volume -> Face]
  BY DEF Volumes, PutIn, TakeOut, Alter, IdentityInv, RowsOK
<1> QED BY <1>1, <1>2 DEF IdentityInv, RowsOK, SessionsOK, AttemptsOK, OneRowPerVolume

------------------------------------------------------------------------------
(* The inductive invariant of the operations. *)

Owners  == {"session", "handle"} \cup Working
Drivers == {"handle", "acquire", "run"}
AtWork  == {"run", "close", "release"}

CallsOK ==
    /\ call \in [Caller -> Call \cup {None}]
    /\ \A c \in Caller : call[c] # None =>
           /\ call[c].session \in DOMAIN sessions \cup {None}
           /\ call[c].source \in DOMAIN rows \cup {None}
    /\ active \in BOOLEAN /\ kind \in {"import", "analyze", "reorganize"}
    /\ cancel \in Caller \cup {None}
    /\ analyze \in [of : Caller \cup {None}, running : BOOLEAN]
    /\ count \in Nat /\ awake \in BOOLEAN
    /\ app \in {"up", "confirm", "closing", "down", "gone"}

\* One operation at most has the slot, and the handle is its own.
SlotOK ==
    /\ \A c, d \in Holders(Owners) : c = d
    /\ active <=> Holders(Owners) # {}
    /\ \A c \in Holders(Working) : cancel = c
    /\ cancel # None => cancel \in Holders(Working)

\* A session is running only while an operation that has not ended drives it.
Driven ==
    app # "gone" => \A s \in DOMAIN sessions : sessions[s].status = "running" =>
        s \in left \/ \E c \in Holders(Drivers) : call[c].session = s

GoneIsIdle == app = "gone" => count = 0 /\ \A c \in Caller : call[c] = None

OpsInv == CallsOK /\ SlotOK /\ AwakeForWork /\ AnalyzeIsOwned /\ Driven /\ GoneIsIdle

\* What a stage says of the call.
LEMMA StageHeld ==
  ASSUME OpsInv, NEW c \in Caller, NEW s, Stage(c, s)
  PROVE  /\ call[c] # None /\ call[c] \in Call /\ call[c].step = s
         /\ \A steps : s \in steps => c \in Holders(steps)
         /\ call[c].session \in DOMAIN sessions \cup {None}
         /\ call[c].source \in DOMAIN rows \cup {None}
BY DEF OpsInv, CallsOK, Stage, Holders

\* The holders after one call changed.
LEMMA HoldersOne ==
  ASSUME OpsInv, NEW c \in Caller, NEW x, call' = [call EXCEPT ![c] = x],
         NEW CONSTANT steps
  PROVE  /\ \A d \in Caller : d # c => call'[d] = call[d] /\ (d \in Holders(steps)' <=> d \in Holders(steps))
         /\ call'[c] = x /\ (c \in Holders(steps)' <=> x # None /\ x.step \in steps)
         /\ Holders(steps)' \subseteq Caller /\ Holders(steps) \subseteq Caller
BY DEF OpsInv, CallsOK, Holders

\* How many there are.
LEMMA HoldersCounted ==
  ASSUME OpsInv, NEW c \in Caller, NEW x, call' = [call EXCEPT ![c] = x],
         NEW CONSTANT steps
  PROVE  /\ IsFiniteSet(Holders(steps)) /\ Cardinality(Holders(steps)) \in Nat
         /\ (x # None /\ x.step \in steps) <=> c \in Holders(steps)
              => Cardinality(Holders(steps)') = Cardinality(Holders(steps))
         /\ x # None /\ x.step \in steps /\ c \notin Holders(steps)
              => Cardinality(Holders(steps)') = Cardinality(Holders(steps)) + 1
         /\ ~(x # None /\ x.step \in steps) /\ c \in Holders(steps)
              => Cardinality(Holders(steps)') = Cardinality(Holders(steps)) - 1
<1>1. IsFiniteSet(Holders(steps))
  BY CallAssumption, HoldersOne, FS_Subset
<1>2. Cardinality(Holders(steps)) \in Nat
  BY <1>1, FS_CardinalityType
<1>3. ASSUME (x # None /\ x.step \in steps) <=> c \in Holders(steps)
      PROVE  Holders(steps)' = Holders(steps)
  <2>1. \A d : d \in Holders(steps)' <=> d \in Holders(steps)
    BY <1>3, HoldersOne
  <2> QED BY <2>1
<1>4. ASSUME x # None /\ x.step \in steps, c \notin Holders(steps)
      PROVE  Holders(steps)' = Holders(steps) \cup {c}
  <2>1. \A d : d \in Holders(steps)' <=> d \in Holders(steps) \cup {c}
    BY <1>4, HoldersOne
  <2> QED BY <2>1
<1>5. ASSUME ~(x # None /\ x.step \in steps), c \in Holders(steps)
      PROVE  Holders(steps)' = Holders(steps) \ {c}
  <2>1. \A d : d \in Holders(steps)' <=> d \in Holders(steps) \ {c}
    BY <1>5, HoldersOne
  <2> QED BY <2>1
<1>6. c \notin Holders(steps)
        => Cardinality(Holders(steps) \cup {c}) = Cardinality(Holders(steps)) + 1
  BY <1>1, FS_AddElement
<1>7. c \in Holders(steps)
        => Cardinality(Holders(steps) \ {c}) = Cardinality(Holders(steps)) - 1
  BY <1>1, FS_RemoveElement
<1> QED BY <1>1, <1>2, <1>3, <1>4, <1>5, <1>6, <1>7

------------------------------------------------------------------------------
(* Each step keeps the invariant of the operations. *)

\* A record of a call with another step is a call.
LEMMA CallAt ==
  ASSUME NEW x \in Call, NEW s \in {"link", "session", "handle", "acquire", "run", "close", "release"}
  PROVE  /\ [x EXCEPT !.step = s] \in Call /\ [x EXCEPT !.step = s].step = s
         /\ [x EXCEPT !.step = s].session = x.session /\ [x EXCEPT !.step = s].source = x.source
         /\ [x EXCEPT !.step = s].kind = x.kind /\ [x EXCEPT !.step = s] # None
BY CallAssumption DEF Call

\* The critical section that takes the slot or refuses, for a call that has
\* nothing yet.
LEMMA ReserveStep ==
  ASSUME OpsInv, app # "gone", NEW c \in Caller, call[c] = None \/ call[c].step = "link",
         NEW op \in Call, op.session \in DOMAIN sessions \cup {None},
         op.source \in DOMAIN rows \cup {None},
         Reserve(c, op), UNCHANGED <<rows, sessions, sleep, app, left>>
  PROVE  OpsInv'
<1>0. UNCHANGED <<rows, sessions, count, awake, app, left>>
  BY DEF sleep
<1>1. c \notin Holders(Owners) /\ c \notin Holders(AtWork) /\ c \notin Holders(Working)
      /\ c \notin Holders(Drivers) /\ c \notin Holders({"acquire", "run"})
  BY DEF Holders, Owners, Working, AtWork, Drivers
<1>2. CASE ~Free
  <2>1. call' = [call EXCEPT ![c] = None] /\ UNCHANGED <<active, kind, cancel, analyze>>
    BY <1>2 DEF Reserve, To, slot
  <2>2. \A d \in Caller : d # c => call'[d] = call[d]
    BY <2>1, HoldersOne
  <2>3. call'[c] = None
    BY <2>1, HoldersOne
  <2>4. CallsOK'
    BY <1>0, <2>1, <2>2, <2>3 DEF OpsInv, CallsOK
  <2>5. /\ Holders(Owners)' = Holders(Owners) /\ Holders(Working)' = Holders(Working)
        /\ Holders(Drivers)' = Holders(Drivers) /\ Holders(AtWork)' = Holders(AtWork)
        /\ Holders({"acquire", "run"})' = Holders({"acquire", "run"})
    BY <1>1, <2>2, <2>3 DEF Holders
  <2>6. SlotOK'
    BY <2>1, <2>5 DEF OpsInv, SlotOK
  <2>7. AwakeForWork'
    BY <1>0, <2>5 DEF OpsInv, AwakeForWork, AtWork
  <2>8. AnalyzeIsOwned'
    BY <1>1, <2>1, <2>2, <2>5 DEF OpsInv, AnalyzeIsOwned, Holders
  <2>9. Driven'
    BY <1>0, <1>1, <2>2, <2>5 DEF OpsInv, Driven, Holders
  <2> QED BY <1>0, <2>4, <2>6, <2>7, <2>8, <2>9 DEF OpsInv, GoneIsIdle
<1>3. CASE Free
  <2>0. active = FALSE /\ Holders(Owners) = {}
    BY <1>3 DEF Free, OpsInv, SlotOK, CallsOK
  <2>1. PICK s \in {"session", "acquire"} :
          /\ call' = [call EXCEPT ![c] = [op EXCEPT !.step = s]]
          /\ active' = TRUE /\ kind' \in {"import", "analyze", "reorganize"}
          /\ s = "session" => UNCHANGED <<cancel, analyze>>
          /\ s = "acquire" => /\ cancel' = c
                              /\ \/ op.kind = "analyze" /\ analyze' = [of |-> c, running |-> TRUE]
                                 \/ analyze' \in {analyze, NoAnalyze}
    BY <1>3 DEF Reserve, To
  <2> DEFINE x == [op EXCEPT !.step = s]
  <2>2. x \in Call /\ x.step = s /\ x.session = op.session /\ x.source = op.source
        /\ x.kind = op.kind /\ x # None
    <3>1. s \in {"link", "session", "handle", "acquire", "run", "close", "release"}
      OBVIOUS
    <3> HIDE <2>1
    <3>2. /\ [op EXCEPT !.step = s] \in Call /\ [op EXCEPT !.step = s].step = s
          /\ [op EXCEPT !.step = s].session = op.session /\ [op EXCEPT !.step = s].source = op.source
          /\ [op EXCEPT !.step = s].kind = op.kind /\ [op EXCEPT !.step = s] # None
      BY <3>1, CallAt, ZenonT(40)
    <3> QED BY <3>2
  <2>3. call' = [call EXCEPT ![c] = x]
    BY <2>1
  <2> HIDE DEF x
  <2>4. /\ \A d \in Caller : d # c => call'[d] = call[d]
        /\ call'[c] = x
    BY ZenonT(60), <2>3, HoldersOne
  <2>5. CallsOK'
    <3>1. analyze' \in [of : Caller \cup {None}, running : BOOLEAN]
      <4>1. analyze' = [of |-> c, running |-> TRUE] \/ analyze' = analyze \/ analyze' = NoAnalyze
        BY <2>1
      <4>2. NoAnalyze \in [of : Caller \cup {None}, running : BOOLEAN]
        BY DEF NoAnalyze
      <4>3. [of |-> c, running |-> TRUE] \in [of : Caller \cup {None}, running : BOOLEAN]
        OBVIOUS
      <4> QED BY <4>1, <4>2, <4>3 DEF OpsInv, CallsOK
    <3>2. cancel' \in Caller \cup {None}
      BY <2>1 DEF OpsInv, CallsOK
    <3>3. call' \in [Caller -> Call \cup {None}]
      BY <2>2, <2>3 DEF OpsInv, CallsOK
    <3>4. \A d \in Caller : call'[d] # None =>
             /\ call'[d].session \in DOMAIN sessions \cup {None}
             /\ call'[d].source \in DOMAIN rows \cup {None}
      BY <2>2, <2>4 DEF OpsInv, CallsOK
    <3> QED BY <1>0, <2>1, <3>1, <3>2, <3>3, <3>4 DEF OpsInv, CallsOK
  <2>6. /\ Holders(Owners)' = {c}
        /\ Holders(Working)' = IF s = "acquire" THEN {c} ELSE {}
        /\ Holders(AtWork)' = Holders(AtWork)
        /\ Holders({"acquire", "run"})' = IF s = "acquire" THEN {c} ELSE {}
    <3>1. \A d \in Caller : ~(call[d] # None /\ call[d].step \in Owners)
      BY <2>0 DEF Holders
    <3>2. \A d \in Caller : d # c => ~(call'[d] # None /\ call'[d].step \in Owners)
      BY <2>4, <3>1
    <3>3. Holders(Owners)' = {c}
      BY <2>2, <2>4, <3>2 DEF Holders, Owners, Working
    <3>4. Holders(Working)' = IF s = "acquire" THEN {c} ELSE {}
      BY <2>2, <2>4, <3>2 DEF Holders, Owners, Working
    <3>5. Holders({"acquire", "run"})' = IF s = "acquire" THEN {c} ELSE {}
      BY <2>2, <2>4, <3>2 DEF Holders, Owners, Working
    <3>6. Holders(AtWork)' = Holders(AtWork)
      BY <1>1, <2>2, <2>4 DEF Holders, AtWork
    <3> QED BY <3>3, <3>4, <3>5, <3>6
  <2>7. Holders(Working) = {} /\ Holders({"acquire", "run"}) = {} /\ Holders(Drivers) = {}
    BY <2>0 DEF Holders, Owners, Working, Drivers
  <2>8. SlotOK'
    BY <2>1, <2>6, <2>7 DEF OpsInv, SlotOK
  <2>9. AwakeForWork'
    BY <1>0, <2>6 DEF OpsInv, AwakeForWork, AtWork
  <2>10. AnalyzeIsOwned'
    <3>1. ~analyze.running
      BY <2>7 DEF OpsInv, AnalyzeIsOwned
    <3>2. CASE analyze' = [of |-> c, running |-> TRUE] /\ s = "acquire" /\ op.kind = "analyze"
      BY <2>2, <2>4, <2>6, <3>2 DEF AnalyzeIsOwned
    <3>3. CASE analyze' \in {analyze, NoAnalyze}
      BY <3>1, <3>3 DEF AnalyzeIsOwned, NoAnalyze
    <3> QED BY <2>1, <3>2, <3>3
  <2>11. Driven'
    BY <1>0, <2>7 DEF OpsInv, Driven
  <2> QED BY <1>0, <2>5, <2>8, <2>9, <2>10, <2>11 DEF OpsInv, GoneIsIdle
<1> QED BY <1>2, <1>3

\* The types after one call moved.
LEMMA CallsMove ==
  ASSUME OpsInv, NEW c \in Caller, NEW x \in Call \cup {None}, call' = [call EXCEPT ![c] = x],
         rows' = rows, DOMAIN sessions \subseteq DOMAIN sessions',
         x # None => /\ x.session \in DOMAIN sessions' \cup {None}
                     /\ x.source \in DOMAIN rows \cup {None},
         active' \in BOOLEAN, kind' = kind,
         cancel' \in Caller \cup {None},
         analyze' \in {analyze, NoAnalyze},
         count' \in Nat, awake' \in BOOLEAN, app' = app
  PROVE  CallsOK'
<1>1. analyze' \in [of : Caller \cup {None}, running : BOOLEAN]
  <2>1. NoAnalyze \in [of : Caller \cup {None}, running : BOOLEAN]
    BY DEF NoAnalyze
  <2> QED BY <2>1 DEF OpsInv, CallsOK
<1>2. call' \in [Caller -> Call \cup {None}]
  BY DEF OpsInv, CallsOK
<1>3. ASSUME NEW d \in Caller, call'[d] # None
      PROVE  /\ call'[d].session \in DOMAIN sessions' \cup {None}
             /\ call'[d].source \in DOMAIN rows \cup {None}
  BY <1>3 DEF OpsInv, CallsOK
<1> QED BY <1>1, <1>2, <1>3 DEF OpsInv, CallsOK

LEMMA CreateSessionStep ==
  ASSUME OpsInv, SessionsOK, RowsOK, NEW c \in Caller, CreateSession(c)
  PROVE  OpsInv' /\ SessionsOK'
<1> DEFINE n == Len(sessions)
           new == [root |-> call[c].root, source |-> call[c].source, status |-> "running"]
           x == [call[c] EXCEPT !.step = "handle", !.session = Len(sessions')]
<1>1. /\ Stage(c, "session") /\ sessions' = Append(sessions, new)
      /\ call' = [call EXCEPT ![c] = x]
      /\ UNCHANGED <<rows, active, kind, cancel, analyze, count, awake, app, left>>
  BY DEF CreateSession, To, slot, sleep
<1>2. /\ call[c] \in Call /\ call[c] # None /\ call[c].step = "session"
      /\ call[c].source \in DOMAIN rows \cup {None}
  BY <1>1, StageHeld
<1>3. sessions \in Seq(Session) /\ n \in Nat /\ DOMAIN sessions = 1..n
  BY DEF SessionsOK
<1>4. new \in Session /\ new.source = call[c].source /\ new.status = "running"
  BY <1>2 DEF Session, Call
<1> HIDE DEF new
<1>5. /\ sessions' \in Seq(Session) /\ Len(sessions') = n + 1 /\ DOMAIN sessions' = 1..(n + 1)
      /\ sessions'[n + 1] = new /\ \A k \in 1..n : sessions'[k] = sessions[k]
  BY <1>1, <1>3, <1>4
<1>6. SessionsOK'
  <2>1. \A k \in 1..(n + 1) : sessions'[k].source \in DOMAIN rows \cup {None}
    <3> SUFFICES ASSUME NEW k \in 1..(n + 1) PROVE sessions'[k].source \in DOMAIN rows \cup {None}
      OBVIOUS
    <3>1. CASE k = n + 1
      BY <1>2, <1>4, <1>5, <3>1
    <3>2. CASE k # n + 1
      <4>1. k \in 1..n
        BY <1>3, <3>2
      <4> QED BY <1>3, <1>5, <4>1 DEF SessionsOK
    <3> QED BY <3>1, <3>2
  <2> QED BY <1>1, <1>5, <2>1 DEF SessionsOK
<1>7. /\ x \in Call /\ x.step = "handle" /\ x.session = n + 1 /\ x.source = call[c].source
      /\ x.kind = call[c].kind
  <2>1. Len(sessions') = n + 1 /\ Len(sessions') \in Nat
    BY <1>3, <1>5
  <2>2. \A y \in Call : \A k \in Nat :
           LET z == [y EXCEPT !.step = "handle", !.session = k]
           IN  /\ z \in Call /\ z.step = "handle" /\ z.session = k
               /\ z.source = y.source /\ z.kind = y.kind
    BY DEF Call
  <2> QED BY <1>2, <2>1, <2>2
<1>8. x # None
  <2> HIDE DEF x
  <2> QED BY <1>7, CallAssumption
<1> HIDE DEF x
<1>9. CallsOK'
  <2>1. DOMAIN sessions \subseteq DOMAIN sessions'
    BY <1>3, <1>5
  <2>2. x.session \in DOMAIN sessions' \cup {None}
    BY <1>3, <1>5, <1>7
  <2>3. /\ active \in BOOLEAN /\ cancel \in Caller \cup {None}
        /\ count \in Nat /\ awake \in BOOLEAN
    BY DEF OpsInv, CallsOK
  <2> QED BY <1>1, <1>2, <1>7, <2>1, <2>2, <2>3, CallsMove
<1>10. /\ \A d \in Caller : d # c => call'[d] = call[d]
       /\ call'[c] = x
  BY <1>1, HoldersOne
<1>11. /\ Holders(Owners)' = Holders(Owners) /\ Holders(Working)' = Holders(Working)
       /\ Holders(AtWork)' = Holders(AtWork)
       /\ Holders({"acquire", "run"})' = Holders({"acquire", "run"})
       /\ Holders(Drivers)' = Holders(Drivers) \cup {c}
       /\ c \notin Holders(Drivers) /\ c \notin Holders({"acquire", "run"})
  BY <1>2, <1>7, <1>8, <1>10 DEF Holders, Owners, Working, AtWork, Drivers
<1>12. SlotOK'
  BY <1>1, <1>11 DEF OpsInv, SlotOK
<1>13. AwakeForWork'
  BY <1>1, <1>11 DEF OpsInv, AwakeForWork, AtWork
<1>14. AnalyzeIsOwned'
  <2>1. ASSUME analyze.running
        PROVE  /\ analyze.of \in Holders({"acquire", "run"})'
               /\ call'[analyze.of].kind = "analyze"
    <3>1. analyze.of \in Holders({"acquire", "run"}) /\ call[analyze.of].kind = "analyze"
      BY <2>1 DEF OpsInv, AnalyzeIsOwned
    <3>2. analyze.of \in Caller /\ analyze.of # c
      BY <1>11, <3>1 DEF Holders
    <3> QED BY <1>10, <1>11, <3>1, <3>2
  <2> QED BY <1>1, <2>1 DEF AnalyzeIsOwned
<1>15. Driven'
  <2> SUFFICES ASSUME app # "gone", NEW s \in 1..(n + 1), sessions'[s].status = "running"
               PROVE  s \in left \/ \E d \in Holders(Drivers)' : call'[d].session = s
    BY <1>1, <1>5 DEF Driven
  <2>1. CASE s = n + 1
    BY <1>7, <1>10, <1>11, <2>1
  <2>2. CASE s # n + 1
    <3>1. s \in DOMAIN sessions /\ sessions[s].status = "running"
      BY <1>3, <1>5, <2>2
    <3>2. s \in left \/ \E d \in Holders(Drivers) : call[d].session = s
      BY <3>1 DEF OpsInv, Driven
    <3>3. \A d \in Holders(Drivers) : d \in Caller /\ d # c
      BY <1>11 DEF Holders
    <3> QED BY <1>10, <1>11, <3>2, <3>3
  <2> QED BY <2>1, <2>2
<1>16. GoneIsIdle'
  BY <1>1, <1>2 DEF OpsInv, GoneIsIdle
<1> QED BY <1>6, <1>9, <1>12, <1>13, <1>14, <1>15, <1>16 DEF OpsInv

\* One call moves from a stage to the next, keeping the rest of its record.
LEMMA GoToStep ==
  ASSUME OpsInv, NEW c \in Caller, NEW s, Stage(c, s),
         NEW t \in {"link", "session", "handle", "acquire", "run", "close", "release"}, GoTo(c, t),
         NEW CONSTANT steps
  PROVE  /\ call[c] # None /\ call[c].step = s
         /\ call' \in [Caller -> Call \cup {None}]
         /\ call'[c] # None /\ call'[c].step = t /\ call'[c].kind = call[c].kind
         /\ call'[c].session = call[c].session /\ call'[c].source = call[c].source
         /\ call[c].session \in DOMAIN sessions \cup {None}
         /\ call[c].source \in DOMAIN rows \cup {None}
         /\ \A d \in Caller : d # c => call'[d] = call[d]
         /\ Holders(steps) \subseteq Caller /\ Holders(steps)' \subseteq Caller
         /\ (c \in Holders(steps) <=> s \in steps) /\ (c \in Holders(steps)' <=> t \in steps)
         /\ \A d \in Caller : d # c => (d \in Holders(steps)' <=> d \in Holders(steps))
         /\ IsFiniteSet(Holders(steps)) /\ Cardinality(Holders(steps)) \in Nat
         /\ (s \in steps <=> t \in steps)
              => Holders(steps)' = Holders(steps)
         /\ t \in steps /\ s \notin steps
              => Cardinality(Holders(steps)') = Cardinality(Holders(steps)) + 1
         /\ t \notin steps /\ s \in steps
              => Cardinality(Holders(steps)') = Cardinality(Holders(steps)) - 1
<1> DEFINE x == [call[c] EXCEPT !.step = t]
<1>1. call[c] \in Call /\ call[c] # None /\ call[c].step = s
      /\ call[c].session \in DOMAIN sessions \cup {None}
      /\ call[c].source \in DOMAIN rows \cup {None}
  BY StageHeld
<1>2. x \in Call /\ x.step = t /\ x.session = call[c].session /\ x.source = call[c].source
      /\ x.kind = call[c].kind /\ x # None
  <2>1. \A y \in Call : /\ [y EXCEPT !.step = t] \in Call /\ [y EXCEPT !.step = t].step = t
                        /\ [y EXCEPT !.step = t].session = y.session
                        /\ [y EXCEPT !.step = t].source = y.source
                        /\ [y EXCEPT !.step = t].kind = y.kind /\ [y EXCEPT !.step = t] # None
    BY CallAssumption DEF Call
  <2> QED BY <1>1, <2>1
<1>3. call' = [call EXCEPT ![c] = x]
  BY DEF GoTo, To
<1> HIDE DEF x
<1>4. /\ \A d \in Caller : d # c => call'[d] = call[d] /\ (d \in Holders(steps)' <=> d \in Holders(steps))
      /\ call'[c] = x /\ (c \in Holders(steps)' <=> x # None /\ x.step \in steps)
      /\ Holders(steps)' \subseteq Caller /\ Holders(steps) \subseteq Caller
  BY <1>3, HoldersOne
<1>5. c \in Holders(steps) <=> s \in steps
  BY <1>1 DEF Holders
<1>6. (s \in steps <=> t \in steps) => Holders(steps)' = Holders(steps)
  <2>1. ASSUME s \in steps <=> t \in steps
        PROVE  \A d : d \in Holders(steps)' <=> d \in Holders(steps)
    BY <1>2, <1>4, <1>5, <2>1
  <2> QED BY <2>1
<1>7. /\ IsFiniteSet(Holders(steps)) /\ Cardinality(Holders(steps)) \in Nat
      /\ t \in steps /\ s \notin steps
              => Cardinality(Holders(steps)') = Cardinality(Holders(steps)) + 1
      /\ t \notin steps /\ s \in steps
              => Cardinality(Holders(steps)') = Cardinality(Holders(steps)) - 1
  BY <1>2, <1>3, <1>5, HoldersCounted
<1>8. call' \in [Caller -> Call \cup {None}]
  BY <1>2, <1>3 DEF OpsInv, CallsOK
<1> QED BY <1>1, <1>2, <1>4, <1>5, <1>6, <1>7, <1>8

\* The analyze snapshot and the sessions stay driven while their operations do.
LEMMA StillDriven ==
  ASSUME OpsInv, NEW c \in Caller,
         \A d \in Caller : d # c => call'[d] = call[d],
         call'[c] # None, call'[c].kind = call[c].kind, call'[c].session = call[c].session,
         UNCHANGED <<sessions, analyze, left, app>>
  PROVE  /\ (c \in Holders({"acquire", "run"}) => c \in Holders({"acquire", "run"})') => AnalyzeIsOwned'
         /\ (c \in Holders(Drivers) => c \in Holders(Drivers)') => Driven'
<1>1. \A d \in Caller : d # c =>
         /\ d \in Holders({"acquire", "run"}) => d \in Holders({"acquire", "run"})'
         /\ d \in Holders(Drivers) => d \in Holders(Drivers)'
  BY DEF Holders
<1>2. ASSUME c \in Holders({"acquire", "run"}) => c \in Holders({"acquire", "run"})', analyze.running
      PROVE  analyze.of \in Holders({"acquire", "run"})' /\ call'[analyze.of].kind = "analyze"
  <2>1. analyze.of \in Holders({"acquire", "run"}) /\ call[analyze.of].kind = "analyze"
    BY <1>2 DEF OpsInv, AnalyzeIsOwned
  <2>2. analyze.of \in Caller
    BY <2>1 DEF Holders
  <2> QED BY <1>1, <1>2, <2>1, <2>2
<1>3. ASSUME c \in Holders(Drivers) => c \in Holders(Drivers)', app # "gone",
             NEW s \in DOMAIN sessions, sessions[s].status = "running"
      PROVE  s \in left \/ \E d \in Holders(Drivers)' : call'[d].session = s
  <2>1. s \in left \/ \E d \in Holders(Drivers) : call[d].session = s
    BY <1>3 DEF OpsInv, Driven
  <2>2. Holders(Drivers) \subseteq Caller
    BY DEF Holders
  <2> QED BY <1>1, <1>3, <2>1, <2>2
<1>4. (c \in Holders({"acquire", "run"}) => c \in Holders({"acquire", "run"})') => AnalyzeIsOwned'
  BY <1>2 DEF AnalyzeIsOwned
<1>5. (c \in Holders(Drivers) => c \in Holders(Drivers)') => Driven'
  BY <1>3 DEF Driven
<1> QED BY <1>4, <1>5

LEMMA SetHandleStep ==
  ASSUME OpsInv, NEW c \in Caller, SetHandle(c)
  PROVE  OpsInv'
<1>1. /\ Stage(c, "handle") /\ GoTo(c, "acquire")
      /\ cancel' = c /\ analyze' = NoAnalyze
      /\ UNCHANGED <<rows, sessions, active, kind, count, awake, app, left>>
  BY DEF SetHandle, identity, catalog, sleep
<1>2. /\ call[c] # None /\ call'[c] # None /\ call'[c].step = "acquire" /\ call[c].step = "handle"
      /\ call'[c].kind = call[c].kind /\ call'[c].session = call[c].session
      /\ call'[c].source = call[c].source
      /\ call' \in [Caller -> Call \cup {None}]
      /\ \A d \in Caller : d # c => call'[d] = call[d]
  BY <1>1, GoToStep
<1>3. Holders(Owners)' = Holders(Owners) /\ Holders(AtWork)' = Holders(AtWork)
      /\ Holders(Drivers)' = Holders(Drivers)
  <2>1. /\ "acquire" \in Owners /\ "handle" \in Owners
        /\ "acquire" \notin AtWork /\ "handle" \notin AtWork
        /\ "acquire" \in Drivers /\ "handle" \in Drivers
    BY DEF Owners, Working, AtWork, Drivers
  <2>2. "acquire" \in {"link", "session", "handle", "acquire", "run", "close", "release"}
    OBVIOUS
  <2>3. Holders(Owners)' = Holders(Owners)
    BY <1>1, <2>1, <2>2, GoToStep
  <2>4. Holders(AtWork)' = Holders(AtWork)
    BY <1>1, <2>1, <2>2, GoToStep
  <2>5. Holders(Drivers)' = Holders(Drivers)
    BY <1>1, <2>1, <2>2, GoToStep
  <2> QED BY <2>3, <2>4, <2>5
<1>4. c \in Holders(Owners) /\ Holders(Working) \subseteq Holders(Owners)
      /\ Holders(Working)' \subseteq Holders(Owners)' /\ c \in Holders(Working)'
  BY <1>2 DEF Holders, Owners, Working
<1>5. CallsOK'
  BY <1>1, <1>2 DEF OpsInv, CallsOK, NoAnalyze
<1>6. SlotOK'
  BY <1>1, <1>3, <1>4 DEF OpsInv, SlotOK
<1>7. AwakeForWork'
  BY <1>1, <1>3 DEF OpsInv, AwakeForWork, AtWork
<1>8. AnalyzeIsOwned'
  BY <1>1 DEF AnalyzeIsOwned, NoAnalyze
<1>9. Driven'
  <2>1. Holders(Drivers) \subseteq Caller
    BY DEF Holders
  <2> QED BY <1>1, <1>2, <1>3, <2>1 DEF OpsInv, Driven
<1>10. GoneIsIdle'
  BY <1>1, <1>2 DEF OpsInv, GoneIsIdle
<1> QED BY <1>5, <1>6, <1>7, <1>8, <1>9, <1>10 DEF OpsInv

\* Acquire, Ends and Close: the stages whose membership does not change.
LEMMA AcquireStep ==
  ASSUME OpsInv, NEW c \in Caller, Acquire(c)
  PROVE  OpsInv'
<1>1. /\ Stage(c, "acquire") /\ GoTo(c, "run") /\ count' = count + 1
      /\ awake' \in {TRUE, awake} /\ (count # 0 => awake' = awake)
      /\ UNCHANGED <<rows, sessions, active, kind, cancel, analyze, app, left>>
  BY DEF Acquire, identity, catalog, slot
<1>2. "run" \in {"link", "session", "handle", "acquire", "run", "close", "release"}
  OBVIOUS
<1>3. /\ call[c] # None /\ call'[c] # None /\ call'[c].step = "run" /\ call[c].step = "acquire"
      /\ call'[c].kind = call[c].kind /\ call'[c].session = call[c].session
      /\ call'[c].source = call[c].source
      /\ call' \in [Caller -> Call \cup {None}]
      /\ \A d \in Caller : d # c => call'[d] = call[d]
  BY <1>1, <1>2, GoToStep
<1>4. /\ "acquire" \in Owners /\ "run" \in Owners /\ "acquire" \in Working /\ "run" \in Working
      /\ "acquire" \in Drivers /\ "run" \in Drivers /\ "acquire" \notin AtWork /\ "run" \in AtWork
  BY DEF Owners, Working, AtWork, Drivers
<1>5. Holders(Owners)' = Holders(Owners)
  BY <1>1, <1>2, <1>4, GoToStep
<1>6. Holders(Working)' = Holders(Working)
  BY <1>1, <1>2, <1>4, GoToStep
<1>7. /\ Cardinality(Holders(AtWork))' = Cardinality(Holders(AtWork)) + 1
      /\ Cardinality(Holders(AtWork)) \in Nat
  BY <1>1, <1>2, <1>4, GoToStep
<1>8. c \in Holders(Drivers)' /\ c \in Holders({"acquire", "run"})'
  BY <1>3, <1>4 DEF Holders
<1>9. CallsOK'
  <2>0. awake \in BOOLEAN /\ count \in Nat
    BY DEF OpsInv, CallsOK
  <2>1. awake' \in BOOLEAN /\ count' \in Nat
    <3>1. awake' = TRUE \/ awake' = FALSE \/ awake' = awake
      BY <1>1
    <3>2. awake' \in BOOLEAN
      BY <2>0, <3>1, Zenon
    <3>3. count' \in Nat
      BY <1>1, <2>0
    <3> QED BY <3>2, <3>3
  <2> QED BY <1>1, <1>3, <2>1 DEF OpsInv, CallsOK
<1>10. SlotOK'
  BY <1>1, <1>5, <1>6 DEF OpsInv, SlotOK
<1>11. AwakeForWork'
  BY <1>1, <1>7 DEF OpsInv, CallsOK, AwakeForWork, AtWork
<1>12. AnalyzeIsOwned' /\ Driven'
  BY <1>1, <1>3, <1>8, StillDriven
<1>13. GoneIsIdle'
  BY <1>1, <1>3 DEF OpsInv, GoneIsIdle
<1> QED BY <1>9, <1>10, <1>11, <1>12, <1>13 DEF OpsInv

LEMMA CloseStep ==
  ASSUME OpsInv, NEW c \in Caller, Close(c)
  PROVE  OpsInv'
<1>1. /\ Stage(c, "close") /\ GoTo(c, "release") /\ active' = FALSE /\ cancel' = None
      /\ UNCHANGED <<rows, sessions, kind, analyze, count, awake, app, left>>
  BY DEF Close, identity, catalog, sleep
<1>2. "release" \in {"link", "session", "handle", "acquire", "run", "close", "release"}
  OBVIOUS
<1>3. /\ call[c] # None /\ call'[c] # None /\ call'[c].step = "release" /\ call[c].step = "close"
      /\ call'[c].kind = call[c].kind /\ call'[c].session = call[c].session
      /\ call'[c].source = call[c].source
      /\ call' \in [Caller -> Call \cup {None}]
      /\ \A d \in Caller : d # c => call'[d] = call[d]
  BY <1>1, <1>2, GoToStep
<1>4. /\ "close" \in AtWork /\ "release" \in AtWork
  BY DEF AtWork
<1>5. Holders(AtWork)' = Holders(AtWork)
  BY <1>1, <1>2, <1>4, GoToStep
<1>6. c \in Holders(Owners) /\ c \notin Holders(Owners)' /\ Holders(Working)' \subseteq Holders(Owners)'
      /\ c \notin Holders(Drivers) /\ c \notin Holders({"acquire", "run"})
  BY <1>3 DEF Holders, Owners, Working, Drivers
<1>7. Holders(Owners)' = {}
  <2>1. \A d \in Holders(Owners)' : d \in Caller /\ d \in Holders(Owners)
    BY <1>3, <1>6 DEF Holders
  <2> QED BY <1>6, <2>1 DEF OpsInv, SlotOK
<1>8. Holders(Working)' = {}
  BY <1>6, <1>7
<1>9. CallsOK'
  BY <1>1, <1>3 DEF OpsInv, CallsOK
<1>10. SlotOK'
  BY <1>1, <1>7, <1>8 DEF SlotOK
<1>11. AwakeForWork'
  BY <1>1, <1>5 DEF OpsInv, AwakeForWork, AtWork
<1>12. AnalyzeIsOwned' /\ Driven'
  BY <1>1, <1>3, <1>6, StillDriven
<1>13. GoneIsIdle'
  BY <1>1, <1>3 DEF OpsInv, GoneIsIdle
<1> QED BY <1>9, <1>10, <1>11, <1>12, <1>13 DEF OpsInv

LEMMA EndsStep ==
  ASSUME OpsInv, SessionsOK, NEW c \in Caller, Ends(c)
  PROVE  OpsInv' /\ SessionsOK'
<1>1. /\ Stage(c, "run") /\ GoTo(c, "close")
      /\ analyze' = IF call[c].kind = "analyze" /\ analyze # NoAnalyze
                    THEN [analyze EXCEPT !.running = FALSE] ELSE analyze
      /\ UNCHANGED <<rows, active, kind, cancel, count, awake, app>>
  BY DEF Ends, sleep
<1>2. PICK status \in {"completed", "cancelled", "interrupted", "asis"} :
        /\ IF call[c].session = None \/ status = "asis" THEN UNCHANGED sessions
           ELSE sessions' = [sessions EXCEPT ![call[c].session].status = status]
        /\ left' = IF status = "asis" /\ sessions[call[c].session].status = "running"
                   THEN left \cup {call[c].session} ELSE left \ {call[c].session}
  BY DEF Ends
<1>3. "close" \in {"link", "session", "handle", "acquire", "run", "close", "release"}
  OBVIOUS
<1>4. /\ call[c] # None /\ call'[c] # None /\ call'[c].step = "close" /\ call[c].step = "run"
      /\ call'[c].kind = call[c].kind /\ call'[c].session = call[c].session
      /\ call'[c].source = call[c].source
      /\ call[c].session \in DOMAIN sessions \cup {None}
      /\ call' \in [Caller -> Call \cup {None}]
      /\ \A d \in Caller : d # c => call'[d] = call[d]
  BY <1>1, <1>3, GoToStep
<1>5. /\ "run" \in Owners /\ "close" \in Owners /\ "run" \in Working /\ "close" \in Working
      /\ "run" \in AtWork /\ "close" \in AtWork
  BY DEF Owners, Working, AtWork
<1>6. Holders(Owners)' = Holders(Owners)
  BY <1>1, <1>3, <1>5, GoToStep
<1>7. Holders(Working)' = Holders(Working)
  BY <1>1, <1>3, <1>5, GoToStep
<1>8. Holders(AtWork)' = Holders(AtWork)
  BY <1>1, <1>3, <1>5, GoToStep
<1>9. /\ DOMAIN sessions' = DOMAIN sessions
      /\ \A s \in DOMAIN sessions : sessions'[s] = sessions[s]
            \/ (s = call[c].session /\ status # "asis"
                /\ sessions'[s] = [sessions[s] EXCEPT !.status = status])
  BY <1>2
<1>10. sessions \in Seq(Session) /\ DOMAIN sessions \subseteq Nat
       /\ \A s \in DOMAIN sessions : sessions[s] \in Session
  BY DEF SessionsOK
<1>11. SessionsOK'
  <2>1. CASE call[c].session = None \/ status = "asis"
    BY <1>1, <1>2, <2>1 DEF SessionsOK
  <2>2. CASE ~(call[c].session = None \/ status = "asis")
    <3> DEFINE s == call[c].session
               new == [sessions[s] EXCEPT !.status = status]
    <3>1. s \in DOMAIN sessions /\ sessions' = [sessions EXCEPT ![s] = new]
      BY <1>2, <1>4, <2>2
    <3>2. new \in Session /\ new.source = sessions[s].source
      BY <1>10, <2>2, <3>1 DEF Session
    <3> HIDE DEF new, s
    <3>3. sessions' \in Seq(Session)
      BY <1>10, <3>1, <3>2
    <3>4. \A k \in DOMAIN sessions : sessions'[k].source = sessions[k].source
      BY <3>1, <3>2
    <3> QED BY <1>1, <1>9, <3>3, <3>4 DEF SessionsOK
  <2> QED BY <2>1, <2>2
<1>12. CallsOK'
  <2>1. analyze' \in [of : Caller \cup {None}, running : BOOLEAN]
    BY <1>1 DEF OpsInv, CallsOK
  <2> QED BY <1>1, <1>4, <1>9, <2>1 DEF OpsInv, CallsOK
<1>13. SlotOK'
  BY <1>1, <1>6, <1>7 DEF OpsInv, SlotOK
<1>14. AwakeForWork'
  BY <1>1, <1>8 DEF OpsInv, AwakeForWork, AtWork
<1>15. AnalyzeIsOwned'
  <2>1. ASSUME analyze.running PROVE analyze.of = c /\ call[c].kind = "analyze"
    <3>1. analyze.of \in Holders({"acquire", "run"}) /\ call[analyze.of].kind = "analyze"
      BY <2>1 DEF OpsInv, AnalyzeIsOwned
    <3>2. analyze.of \in Holders(Owners) /\ c \in Holders(Owners)
      BY <1>4, <3>1 DEF Holders, Owners, Working
    <3> QED BY <3>1, <3>2 DEF OpsInv, SlotOK
  <2>2. ~analyze'.running
    <3>1. CASE analyze.running
      <4>1. analyze # NoAnalyze
        BY <3>1 DEF NoAnalyze
      <4> QED BY <1>1, <2>1, <3>1, <4>1 DEF OpsInv, CallsOK
    <3>2. CASE ~analyze.running
      BY <1>1, <3>2 DEF OpsInv, CallsOK
    <3> QED BY <3>1, <3>2
  <2> QED BY <2>2 DEF AnalyzeIsOwned
<1>16. Driven'
  <2> SUFFICES ASSUME app # "gone", NEW s \in DOMAIN sessions, sessions'[s].status = "running"
               PROVE  s \in left' \/ \E d \in Holders(Drivers)' : call'[d].session = s
    BY <1>1, <1>9 DEF Driven
  <2>0. s # None /\ s \in Nat
    BY <1>10, NoneAssumption
  <2>1. CASE s = call[c].session
    <3>1. CASE status = "asis"
      <4>1. sessions'[s].status = sessions[s].status
        BY <1>2, <3>1
      <4> QED BY <1>2, <2>1, <3>1, <4>1
    <3>2. CASE status # "asis"
      <4>1. sessions'[s].status = status
        <5>1. sessions' = [sessions EXCEPT ![s].status = status]
          BY <1>2, <2>0, <2>1, <3>2
        <5>2. sessions[s] \in Session
          BY <1>10
        <5> QED BY <5>1, <5>2 DEF Session
      <4> QED BY <4>1
    <3> QED BY <3>1, <3>2
  <2>2. CASE s # call[c].session
    <3>1. sessions[s].status = "running"
      BY <1>9, <2>2
    <3>2. s \in left \/ \E d \in Holders(Drivers) : call[d].session = s
      BY <3>1 DEF OpsInv, Driven
    <3>3. \A d \in Holders(Drivers) : call[d].session = s
             => d \in Holders(Drivers)' /\ call'[d].session = s
      BY <1>4, <2>2 DEF Holders
    <3> QED BY <1>2, <2>2, <3>2, <3>3
  <2> QED BY <2>1, <2>2
<1>17. GoneIsIdle'
  BY <1>1, <1>4 DEF OpsInv, GoneIsIdle
<1> QED BY <1>11, <1>12, <1>13, <1>14, <1>15, <1>16, <1>17 DEF OpsInv

\* A session taken up again is driven by the operation that takes it up.
LEMMA ResumedStep ==
  ASSUME OpsInv, SessionsOK, NEW c \in Caller, Resumed(c)
  PROVE  OpsInv' /\ SessionsOK'
<1> DEFINE s == call[c].session
           new == [sessions[s] EXCEPT !.status = "running"]
<1>1. /\ Stage(c, "run") /\ s # None /\ sessions' = [sessions EXCEPT ![s] = new]
      /\ UNCHANGED <<rows, call, active, kind, cancel, analyze, count, awake, app, left>>
  BY DEF Resumed, slot, sleep
<1>2. /\ call[c] # None /\ call[c].step = "run" /\ s \in DOMAIN sessions
      /\ c \in Holders(Drivers)
  BY <1>1, StageHeld DEF Drivers
<1>3. /\ sessions \in Seq(Session) /\ DOMAIN sessions \subseteq Nat
      /\ \A k \in DOMAIN sessions : sessions[k] \in Session
  BY DEF SessionsOK
<1>4. new \in Session /\ new.source = sessions[s].source
  BY <1>2, <1>3 DEF Session
<1> HIDE DEF new
<1>5. /\ DOMAIN sessions' = DOMAIN sessions /\ sessions' \in Seq(Session)
      /\ \A k \in DOMAIN sessions : /\ sessions'[k].source = sessions[k].source
                                    /\ k # s => sessions'[k] = sessions[k]
  BY <1>1, <1>2, <1>3, <1>4
<1>6. SessionsOK'
  BY <1>1, <1>5 DEF SessionsOK
<1>7. CallsOK'
  BY <1>1, <1>5 DEF OpsInv, CallsOK
<1>8. SlotOK' /\ AwakeForWork' /\ AnalyzeIsOwned' /\ GoneIsIdle'
  BY <1>1 DEF OpsInv, SlotOK, AwakeForWork, AnalyzeIsOwned, GoneIsIdle, Holders
<1>9. Driven'
  <2> SUFFICES ASSUME app # "gone", NEW k \in DOMAIN sessions, sessions'[k].status = "running"
               PROVE  k \in left \/ \E d \in Holders(Drivers)' : call[d].session = k
    BY <1>1, <1>5 DEF Driven
  <2>1. Holders(Drivers)' = Holders(Drivers)
    BY <1>1 DEF Holders
  <2>2. CASE k = s
    BY <1>2, <2>1, <2>2
  <2>3. CASE k # s
    BY <1>5, <2>1, <2>3 DEF OpsInv, Driven
  <2> QED BY <2>2, <2>3
<1> QED BY <1>6, <1>7, <1>8, <1>9 DEF OpsInv

LEMMA ReleaseStep ==
  ASSUME OpsInv, NEW c \in Caller, Release(c)
  PROVE  OpsInv'
<1>1. /\ Stage(c, "release") /\ call' = [call EXCEPT ![c] = None]
      /\ count' = (IF count = 0 THEN 0 ELSE count - 1)
      /\ awake' = (IF count = 1 THEN FALSE ELSE awake)
      /\ UNCHANGED <<rows, sessions, active, kind, cancel, analyze, app, left>>
  BY DEF Release, To, identity, catalog, slot
<1>2. call[c] # None /\ call[c].step = "release"
  BY <1>1, StageHeld
<1>3. /\ \A d \in Caller : d # c => call'[d] = call[d]
      /\ call'[c] = None
  BY <1>1, HoldersOne
<1>4. /\ Holders(Owners)' = Holders(Owners) /\ Holders(Working)' = Holders(Working)
      /\ Holders(Drivers)' = Holders(Drivers)
      /\ Holders({"acquire", "run"})' = Holders({"acquire", "run"})
      /\ c \notin Holders(Drivers) /\ c \notin Holders({"acquire", "run"})
      /\ c \in Holders(AtWork) \cup Holders({"release"})
  BY <1>2, <1>3 DEF Holders, Owners, Working, Drivers, AtWork
<1>5. Cardinality(Holders(AtWork))' = Cardinality(Holders(AtWork)) - 1
      /\ Cardinality(Holders(AtWork)) \in Nat /\ Cardinality(Holders(AtWork))' \in Nat
  <2>1. c \in Holders(AtWork)
    BY <1>2 DEF Holders, AtWork
  <2>2. Cardinality(Holders(AtWork))' = Cardinality(Holders(AtWork)) - 1
        /\ Cardinality(Holders(AtWork)) \in Nat
    BY <1>1, <2>1, HoldersCounted
  <2>3. IsFiniteSet(Holders(AtWork)')
    BY CallAssumption, FS_Subset DEF Holders
  <2> QED BY <2>2, <2>3, FS_CardinalityType
<1>6. CallsOK'
  <2>0. awake \in BOOLEAN /\ count \in Nat
    BY DEF OpsInv, CallsOK
  <2>1. awake' \in BOOLEAN /\ count' \in Nat
    <3>1. awake' = TRUE \/ awake' = FALSE \/ awake' = awake
      BY <1>1
    <3>2. awake' \in BOOLEAN
      BY <2>0, <3>1, Zenon
    <3>3. count' \in Nat
      BY <1>1, <2>0
    <3> QED BY <3>2, <3>3
  <2>2. call' \in [Caller -> Call \cup {None}]
    BY <1>1 DEF OpsInv, CallsOK
  <2> QED BY <1>1, <1>3, <2>1, <2>2 DEF OpsInv, CallsOK
<1>7. SlotOK'
  BY <1>1, <1>4 DEF OpsInv, SlotOK
<1>8. AwakeForWork'
  <2> SUFFICES ASSUME app \in {"up", "confirm", "closing"}
               PROVE  count' = Cardinality(Holders(AtWork))' /\ (awake' => count' > 0)
    BY <1>1 DEF AwakeForWork, AtWork
  <2>1. count = Cardinality(Holders(AtWork)) /\ (awake => count > 0) /\ count \in Nat
    BY DEF OpsInv, CallsOK, AwakeForWork, AtWork
  <2> QED BY <1>1, <1>5, <2>1
<1>9. AnalyzeIsOwned'
  BY <1>1, <1>3, <1>4 DEF OpsInv, AnalyzeIsOwned
<1>10. Driven'
  BY <1>1, <1>3, <1>4 DEF OpsInv, Driven
<1>11. GoneIsIdle'
  BY <1>1, <1>2 DEF OpsInv, GoneIsIdle
<1> QED BY <1>6, <1>7, <1>8, <1>9, <1>10, <1>11 DEF OpsInv

LEMMA CreateFailsStep ==
  ASSUME OpsInv, NEW c \in Caller, CreateFails(c)
  PROVE  OpsInv'
<1>1. /\ Stage(c, "session") /\ call' = [call EXCEPT ![c] = None] /\ active' = FALSE
      /\ UNCHANGED <<rows, sessions, kind, cancel, analyze, count, awake, app, left>>
  BY DEF CreateFails, To, identity, catalog, sleep
<1>2. call[c] # None /\ call[c].step = "session"
  BY <1>1, StageHeld
<1>3. /\ \A d \in Caller : d # c => call'[d] = call[d]
      /\ call'[c] = None
  BY <1>1, HoldersOne
<1>4. /\ Holders(Working)' = Holders(Working) /\ Holders(AtWork)' = Holders(AtWork)
      /\ Holders(Drivers)' = Holders(Drivers)
      /\ Holders({"acquire", "run"})' = Holders({"acquire", "run"})
      /\ c \notin Holders(Drivers) /\ c \notin Holders({"acquire", "run"})
      /\ c \in Holders(Owners) /\ c \notin Holders(Owners)'
      /\ Holders(Owners)' \subseteq Holders(Owners)
  BY <1>2, <1>3 DEF Holders, Owners, Working, Drivers, AtWork
<1>5. CallsOK'
  <2>1. call' \in [Caller -> Call \cup {None}]
    BY <1>1 DEF OpsInv, CallsOK
  <2> QED BY <1>1, <1>3, <2>1 DEF OpsInv, CallsOK
<1>6. SlotOK'
  BY <1>1, <1>4 DEF OpsInv, SlotOK
<1>7. AwakeForWork'
  BY <1>1, <1>4 DEF OpsInv, AwakeForWork, AtWork
<1>8. AnalyzeIsOwned'
  BY <1>1, <1>3, <1>4 DEF OpsInv, AnalyzeIsOwned
<1>9. Driven'
  BY <1>1, <1>3, <1>4 DEF OpsInv, Driven
<1>10. GoneIsIdle'
  BY <1>1, <1>2 DEF OpsInv, GoneIsIdle
<1> QED BY <1>5, <1>6, <1>7, <1>8, <1>9, <1>10 DEF OpsInv

\* CancelImport and ConfirmQuit mark the operation of the handle, nothing else
\* of any call.
LEMMA CancelledStep ==
  ASSUME OpsInv, call' = Cancelled(cancel),
         app' = app \/ (app = "up" /\ app' = "confirm"),
         UNCHANGED <<rows, sessions, slot, sleep, left>>
  PROVE  OpsInv'
<1>0. UNCHANGED <<rows, sessions, active, kind, cancel, analyze, count, awake, left>>
  BY DEF slot, sleep
<1>1. call' \in [Caller -> Call \cup {None}]
      /\ \A d \in Caller : /\ call'[d] = None <=> call[d] = None
                           /\ call[d] # None => /\ call'[d].step = call[d].step
                                                /\ call'[d].kind = call[d].kind
                                                /\ call'[d].session = call[d].session
                                                /\ call'[d].source = call[d].source
  <2>1. CASE cancel = None
    BY <2>1 DEF Cancelled, OpsInv, CallsOK
  <2>2. CASE cancel # None
    <3> DEFINE x == [call[cancel] EXCEPT !.cancelled = TRUE]
    <3>1. cancel \in Caller /\ call[cancel] \in Call /\ call[cancel] # None
      BY <2>2 DEF OpsInv, CallsOK, SlotOK, Holders
    <3>2. /\ x \in Call /\ x.step = call[cancel].step /\ x.kind = call[cancel].kind
          /\ x.session = call[cancel].session /\ x.source = call[cancel].source
      BY <3>1 DEF Call
    <3>3. call' = [call EXCEPT ![cancel] = x]
      BY <2>2 DEF Cancelled
    <3> HIDE DEF x
    <3>4. x # None
      BY <3>2, CallAssumption
    <3> QED BY <3>1, <3>2, <3>3, <3>4 DEF OpsInv, CallsOK
  <2> QED BY <2>1, <2>2
<1>2. /\ Holders(Owners)' = Holders(Owners) /\ Holders(Working)' = Holders(Working)
      /\ Holders(AtWork)' = Holders(AtWork) /\ Holders(Drivers)' = Holders(Drivers)
      /\ Holders({"acquire", "run"})' = Holders({"acquire", "run"})
      /\ Holders(Drivers) \subseteq Caller /\ Holders({"acquire", "run"}) \subseteq Caller
      /\ \A d \in Holders(Drivers) \cup Holders({"acquire", "run"}) : call[d] # None
  BY <1>1 DEF Holders
<1>3. CallsOK'
  BY <1>0, <1>1 DEF OpsInv, CallsOK
<1>4. SlotOK'
  BY <1>0, <1>2 DEF OpsInv, SlotOK
<1>5. AwakeForWork'
  BY <1>0, <1>2 DEF OpsInv, AwakeForWork, AtWork
<1>6. AnalyzeIsOwned'
  BY <1>0, <1>1, <1>2 DEF OpsInv, AnalyzeIsOwned
<1>7. Driven'
  BY <1>0, <1>1, <1>2 DEF OpsInv, Driven
<1>8. GoneIsIdle'
  BY <1>0, <1>1 DEF OpsInv, GoneIsIdle
<1> QED BY <1>3, <1>4, <1>5, <1>6, <1>7, <1>8 DEF OpsInv

\* The steps that leave the calls alone: a snapshot that lapses,
\* quitting, the end of the assertion.
LEMMA QuietStep ==
  ASSUME OpsInv, UNCHANGED <<rows, sessions, call, active, kind, cancel, left>>,
         analyze' \in {analyze, NoAnalyze},
         \/ /\ UNCHANGED <<count, awake>>
            /\ app' = app \/ (app' = "closing" /\ app \in {"up", "confirm"})
         \/ app = "closing" /\ app' = "down" /\ count' = 0 /\ awake' = FALSE
  PROVE  OpsInv'
<1>1. call' = call /\ \A steps : Holders(steps) = {c \in Caller : call[c] # None /\ call[c].step \in steps}
  BY DEF Holders
<1>2. /\ Holders(Owners)' = Holders(Owners) /\ Holders(Working)' = Holders(Working)
      /\ Holders(AtWork)' = Holders(AtWork) /\ Holders(Drivers)' = Holders(Drivers)
      /\ Holders({"acquire", "run"})' = Holders({"acquire", "run"})
  BY <1>1 DEF Holders
<1>3. analyze' \in [of : Caller \cup {None}, running : BOOLEAN]
  <2>1. NoAnalyze \in [of : Caller \cup {None}, running : BOOLEAN]
    BY DEF NoAnalyze
  <2> QED BY <2>1 DEF OpsInv, CallsOK
<1>4. CallsOK'
  <2>1. awake \in BOOLEAN /\ count \in Nat
    BY DEF OpsInv, CallsOK
  <2>2. awake' = awake \/ awake' = FALSE
    OBVIOUS
  <2>3. awake' \in BOOLEAN
    BY <2>1, <2>2, Zenon
  <2>4. count' \in Nat
    BY <2>1
  <2>5. app' \in {"up", "confirm", "closing", "down", "gone"}
    BY DEF OpsInv, CallsOK
  <2> QED BY <1>3, <2>3, <2>4, <2>5 DEF OpsInv, CallsOK
<1>5. SlotOK'
  BY <1>2 DEF OpsInv, SlotOK
<1>6. AwakeForWork'
  BY <1>2 DEF OpsInv, AwakeForWork, AtWork
<1>7. AnalyzeIsOwned'
  BY <1>2 DEF OpsInv, AnalyzeIsOwned, NoAnalyze
<1>8. Driven'
  BY <1>2 DEF OpsInv, Driven
<1>9. GoneIsIdle'
  BY DEF OpsInv, GoneIsIdle
<1> QED BY <1>4, <1>5, <1>6, <1>7, <1>8, <1>9 DEF OpsInv

\* What an identification does to the operations: rows are added, the sources of
\* sessions set.
LEMMA IdentityOnly ==
  ASSUME OpsInv, RowsOK, SessionsOK, RowsOK', UNCHANGED OpsRest,
         Len(rows) <= Len(rows'),
         DOMAIN sessions' = DOMAIN sessions,
         \A s \in DOMAIN sessions : sessions'[s].status = sessions[s].status
  PROVE  OpsInv'
<1>0. UNCHANGED <<call, active, kind, cancel, analyze, count, awake, app, left>>
  BY DEF OpsRest, slot, sleep
<1>1. DOMAIN rows \subseteq DOMAIN rows'
  BY DEF RowsOK
<1>2. /\ Holders(Owners)' = Holders(Owners) /\ Holders(Working)' = Holders(Working)
      /\ Holders(AtWork)' = Holders(AtWork) /\ Holders(Drivers)' = Holders(Drivers)
      /\ Holders({"acquire", "run"})' = Holders({"acquire", "run"})
  BY <1>0 DEF Holders
<1>3. CallsOK'
  BY <1>0, <1>1 DEF OpsInv, CallsOK
<1>4. SlotOK'
  BY <1>0, <1>2 DEF OpsInv, SlotOK
<1>5. AwakeForWork'
  BY <1>0, <1>2 DEF OpsInv, AwakeForWork, AtWork
<1>6. AnalyzeIsOwned'
  BY <1>0, <1>2 DEF OpsInv, AnalyzeIsOwned
<1>7. Driven'
  BY <1>0, <1>2 DEF OpsInv, Driven
<1>8. GoneIsIdle'
  BY <1>0 DEF OpsInv, GoneIsIdle
<1> QED BY <1>3, <1>4, <1>5, <1>6, <1>7, <1>8 DEF OpsInv

Inv == IdentityInv /\ OpsInv

LEMMA IdentifyingStep ==
  ASSUME Inv, NEW c \in Caller, Identifying(c), UNCHANGED OpsRest
  PROVE  Inv'
<1>1. IdentityInv'
  BY DescribeStep, WalkStep, LookStep, UpdateStep, CreateStep, AdoptStep, TimeOutStep
     DEF Inv, Identifying
<1>2. /\ Len(rows) <= Len(rows')
      /\ DOMAIN sessions' = DOMAIN sessions
      /\ \A s \in DOMAIN sessions : sessions'[s].status = sessions[s].status
  <2>0. rows \in Seq(Row) /\ Len(rows) \in Nat
        /\ \A s \in DOMAIN sessions : sessions[s] \in Session
    BY DEF Inv, IdentityInv, RowsOK, SessionsOK
  <2>1. CASE Describe(c) \/ Walk(c) \/ Look(c) \/ TimeOut(c)
    <3>1. rows' = rows /\ sessions' = sessions
      <4>1. UNCHANGED catalog
        BY <2>1 DEF Describe, Walk, Look, TimeOut
      <4> QED BY <4>1 DEF catalog
    <3> QED BY <2>0, <3>1
  <2>2. CASE Update(c)
    BY <2>0, <2>2 DEF Update
  <2>3. CASE Create(c)
    <3>1. sessions' = sessions /\ \E new : rows' = Append(rows, new)
      BY <2>3 DEF Create
    <3>2. Len(rows') = Len(rows) + 1
      BY <2>0, <3>1
    <3> QED BY <2>0, <3>1, <3>2
  <2>4. CASE Adopt(c)
    <3>1. /\ rows' = rows
          /\ sessions' = [k \in DOMAIN sessions |->
                            IF sessions[k].source = None /\ sessions[k].root = At(c)
                            THEN [sessions[k] EXCEPT !.source = ident[c].row] ELSE sessions[k]]
      BY <2>4 DEF Adopt
    <3>2. ASSUME NEW s \in DOMAIN sessions PROVE sessions'[s].status = sessions[s].status
      <4>1. sessions'[s] = sessions[s] \/ sessions'[s] = [sessions[s] EXCEPT !.source = ident[c].row]
        BY <3>1
      <4> QED BY <2>0, <4>1 DEF Session
    <3> QED BY <2>0, <3>1, <3>2
  <2> QED BY <2>1, <2>2, <2>3, <2>4 DEF Identifying
<1>3. OpsInv'
  BY <1>1, <1>2, IdentityOnly DEF Inv, IdentityInv
<1> QED BY <1>1, <1>3 DEF Inv

LEMMA WorldStep ==
  ASSUME Inv, UNCHANGED OpsRest,
         \/ CancelIdentify
         \/ Volumes
         \/ \E c \in Caller, m \in Mount : IdentifyVolume(c, m)
  PROVE  Inv'
<1>1. IdentityInv'
  BY CancelIdentifyStep, VolumesStep, IdentifyVolumeStep DEF Inv
<1>2. rows' = rows /\ sessions' = sessions
  BY DEF CancelIdentify, Volumes, IdentifyVolume, catalog
<1>3. Len(rows) <= Len(rows')
  BY <1>2 DEF Inv, IdentityInv, RowsOK
<1>4. OpsInv'
  BY <1>1, <1>2, <1>3, IdentityOnly DEF Inv, IdentityInv
<1> QED BY <1>1, <1>4 DEF Inv

------------------------------------------------------------------------------
(* Starting an operation. *)

\* A new call that has nothing yet takes no part in anything.
LEMMA LinkStep ==
  ASSUME OpsInv, app # "gone", NEW c \in Caller, call[c] = None, NEW x \in Call,
         x.step = "link", x.session = None, x.source \in DOMAIN rows \cup {None},
         call' = [call EXCEPT ![c] = x],
         UNCHANGED <<rows, sessions, slot, sleep, app, left>>
  PROVE  OpsInv'
<1>0. UNCHANGED <<rows, sessions, active, kind, cancel, analyze, count, awake, app, left>>
  BY DEF slot, sleep
<1>1. x # None
  BY CallAssumption
<1>2. /\ \A d \in Caller : d # c => call'[d] = call[d]
      /\ call'[c] = x
  BY ZenonT(60), HoldersOne
<1>3. /\ Holders(Owners)' = Holders(Owners) /\ Holders(Working)' = Holders(Working)
      /\ Holders(AtWork)' = Holders(AtWork) /\ Holders(Drivers)' = Holders(Drivers)
      /\ Holders({"acquire", "run"})' = Holders({"acquire", "run"})
      /\ c \notin Holders(Drivers) /\ c \notin Holders({"acquire", "run"})
      /\ Holders(Drivers) \subseteq Caller /\ Holders({"acquire", "run"}) \subseteq Caller
  BY <1>1, <1>2 DEF Holders, Owners, Working, AtWork, Drivers
<1>4. CallsOK'
  <2>1. /\ active \in BOOLEAN /\ cancel \in Caller \cup {None}
        /\ count \in Nat /\ awake \in BOOLEAN
    BY DEF OpsInv, CallsOK
  <2> QED BY <1>0, <2>1, CallsMove
<1>5. SlotOK'
  BY <1>0, <1>3 DEF OpsInv, SlotOK
<1>6. AwakeForWork'
  BY <1>0, <1>3 DEF OpsInv, AwakeForWork, AtWork
<1>7. AnalyzeIsOwned'
  BY <1>0, <1>2, <1>3 DEF OpsInv, AnalyzeIsOwned
<1>8. Driven'
  BY <1>0, <1>2, <1>3 DEF OpsInv, Driven
<1>9. GoneIsIdle'
  BY <1>0 DEF OpsInv, GoneIsIdle
<1> QED BY <1>4, <1>5, <1>6, <1>7, <1>8, <1>9 DEF OpsInv

LEMMA StartImportStep ==
  ASSUME Inv, NEW c \in Caller, NEW m \in Mount, NEW r \in DOMAIN rows \cup {None},
         NEW copy \in BOOLEAN, StartImport(c, m, r, copy)
  PROVE  Inv'
<1> DEFINE op == Operation("import", m, r, None)
<1>1. /\ app # "gone" /\ call[c] = None /\ ident[c] = None
      /\ UNCHANGED <<catalog, volumes, identifyCancel, sleep, app, left>>
      /\ IF copy /\ r = None /\ mounted[m] # None
         THEN To(c, op) /\ Begin(c, m, TRUE) /\ UNCHANGED slot
         ELSE Reserve(c, op) /\ UNCHANGED ident
  BY DEF StartImport, Idle, Listening
<1>2. op \in Call /\ op.session = None /\ op.source = r /\ op.step = "link"
  <2>1. r \in Nat \cup {None}
    BY DEF Inv, IdentityInv, RowsOK
  <2>2. "import" \in Kinds /\ m \in Mount \cup {None} /\ None \in Nat \cup {None}
    BY DEF Kinds
  <2> QED BY <2>1, <2>2 DEF Operation, Call
<1>3. rows' = rows /\ sessions' = sessions
  BY <1>1 DEF catalog
<1> HIDE DEF op
<1>4. CASE copy /\ r = None /\ mounted[m] # None
  <2>1. call' = [call EXCEPT ![c] = op] /\ Begin(c, m, TRUE) /\ UNCHANGED slot
    BY <1>1, <1>4 DEF To
  <2>2. IdentityInv'
    BY <1>1, <2>1, BeginStep DEF Inv
  <2>3. OpsInv'
    BY <1>1, <1>2, <1>3, <2>1, LinkStep DEF Inv
  <2> QED BY <2>2, <2>3 DEF Inv
<1>5. CASE ~(copy /\ r = None /\ mounted[m] # None)
  <2>1. Reserve(c, op) /\ UNCHANGED ident
    BY <1>1, <1>5
  <2>2. OpsInv'
    BY <1>1, <1>2, <1>3, <2>1, ReserveStep DEF Inv
  <2>3. IdentityInv'
    BY <1>1, <2>1 DEF Inv, IdentityInv, RowsOK, SessionsOK, AttemptsOK, OneRowPerVolume, catalog, volumes
  <2> QED BY <2>2, <2>3 DEF Inv
<1> QED BY <1>4, <1>5

LEMMA StartOtherStep ==
  ASSUME Inv, NEW c \in Caller, NEW k \in Kinds, NEW s \in DOMAIN sessions \cup {None},
         StartOther(c, k, s)
  PROVE  Inv'
<1> DEFINE op == Operation(k, None, None, s)
<1>1. /\ app # "gone" /\ call[c] = None /\ Reserve(c, op)
      /\ UNCHANGED <<catalog, volumes, ident, identifyCancel, sleep, app, left>>
  BY DEF StartOther, Idle, Listening
<1>2. op \in Call /\ op.session = s /\ op.source = None
  <2>1. s \in Nat \cup {None}
    BY DEF Inv, IdentityInv, SessionsOK
  <2>2. None \in Mount \cup {None} /\ None \in Nat \cup {None}
    OBVIOUS
  <2> QED BY <2>1, <2>2 DEF Operation, Call
<1>3. rows' = rows /\ sessions' = sessions
  BY <1>1 DEF catalog
<1> HIDE DEF op
<1>4. OpsInv'
  BY <1>1, <1>2, <1>3, ReserveStep DEF Inv
<1>5. IdentityInv'
  BY <1>1 DEF Inv, IdentityInv, RowsOK, SessionsOK, AttemptsOK, OneRowPerVolume, catalog, volumes
<1> QED BY <1>4, <1>5 DEF Inv

LEMMA LinkedStep ==
  ASSUME Inv, Running, NEW c \in Caller, Linked(c)
  PROVE  Inv'
<1> DEFINE op == [call[c] EXCEPT !.source = ident[c].row]
<1>1. /\ Stage(c, "link") /\ ident[c] # None /\ Reserve(c, op)
      /\ ident' = [ident EXCEPT ![c] = None] /\ ident[c].step = "linked" /\ app # "gone"
      /\ UNCHANGED <<catalog, volumes, identifyCancel, sleep, app, left>>
  BY DEF Linked, Doing, Step, Running
<1>2. call[c] \in Call /\ call[c].step = "link" /\ call[c].session \in DOMAIN sessions \cup {None}
  BY <1>1, StageHeld DEF Inv
<1>3. ident[c].row \in DOMAIN rows \cup {None} /\ ident[c].row \in Nat \cup {None}
  BY <1>1, HeldAttempt DEF Inv, IdentityInv, RowsOK
<1>4. op \in Call /\ op.session = call[c].session /\ op.source = ident[c].row
  BY <1>2, <1>3 DEF Call
<1>5. rows' = rows /\ sessions' = sessions
  BY <1>1 DEF catalog
<1> HIDE DEF op
<1>6. OpsInv'
  BY <1>1, <1>2, <1>3, <1>4, <1>5, ReserveStep DEF Inv
<1>7. identifyCancel # c
  BY <1>1, HeldAttempt DEF Inv, Sound
<1>8. IdentityInv'
  BY <1>1, <1>7, OneAttempt DEF Inv, Sound
<1> QED BY <1>6, <1>8 DEF Inv

------------------------------------------------------------------------------
(* The end of the process and the next start. *)

LEMMA ExitStep ==
  ASSUME Inv, Exit
  PROVE  Inv'
<1>1. /\ app' = "gone" /\ call' = [c \in Caller |-> None] /\ ident' = [c \in Caller |-> None]
      /\ identifyCancel' = None /\ active' = FALSE /\ cancel' = None
      /\ analyze' = NoAnalyze /\ count' = 0
      /\ UNCHANGED <<rows, recent, sessions, mounted, card, kind, awake, left>>
  BY DEF Exit, Memory, catalog, volumes
<1>2. \A c \in Caller : ident'[c] = None /\ call'[c] = None
  BY <1>1
<1>3. IdentityInv'
  <2>1. AttemptsOK'
    BY <1>1, <1>2 DEF AttemptsOK, Sound
  <2> QED BY <1>1, <2>1 DEF Inv, IdentityInv, RowsOK, SessionsOK, OneRowPerVolume
<1>4. Holders(Owners)' = {} /\ Holders(Working)' = {}
  BY <1>2 DEF Holders
<1>5. CallsOK'
  <2>1. NoAnalyze \in [of : Caller \cup {None}, running : BOOLEAN]
    BY DEF NoAnalyze
  <2> QED BY <1>1, <1>2, <2>1 DEF Inv, OpsInv, CallsOK
<1>6. SlotOK'
  BY <1>1, <1>4 DEF SlotOK
<1>7. AwakeForWork' /\ Driven' /\ GoneIsIdle'
  BY <1>1, <1>2 DEF AwakeForWork, Driven, GoneIsIdle
<1>8. AnalyzeIsOwned'
  BY <1>1 DEF AnalyzeIsOwned, NoAnalyze
<1> QED BY <1>3, <1>5, <1>6, <1>7, <1>8 DEF Inv, OpsInv

LEMMA LaunchStep ==
  ASSUME Inv, Launch
  PROVE  Inv'
<1>1. /\ app = "gone" /\ app' = "up" /\ awake' = FALSE /\ left' = {}
      /\ sessions' = [s \in DOMAIN sessions |-> [sessions[s] EXCEPT !.status = Recovered(@)]]
      /\ UNCHANGED <<rows, recent, mounted, card, ident, identifyCancel, call,
                     active, kind, cancel, analyze, count>>
  BY DEF Launch, volumes, slot
<1>2. count = 0 /\ \A c \in Caller : call[c] = None
  BY <1>1 DEF Inv, OpsInv, GoneIsIdle
<1>3. sessions \in Seq(Session) /\ Len(sessions) \in Nat /\ DOMAIN sessions = 1..Len(sessions)
      /\ \A s \in DOMAIN sessions : sessions[s] \in Session
                                    /\ sessions[s].source \in DOMAIN rows \cup {None}
  BY DEF Inv, IdentityInv, SessionsOK
<1>4. ASSUME NEW s \in DOMAIN sessions
      PROVE  /\ sessions'[s] \in Session /\ sessions'[s].source = sessions[s].source
             /\ sessions'[s].status # "running"
  <2>1. sessions[s].status \in {"running", "completed", "cancelled", "interrupted"}
    BY <1>3 DEF Session
  <2>2. /\ Recovered(sessions[s].status) \in {"completed", "cancelled", "interrupted"}
    BY <2>1 DEF Recovered
  <2>3. sessions'[s] = [sessions[s] EXCEPT !.status = Recovered(sessions[s].status)]
    BY <1>1
  <2> DEFINE t == Recovered(sessions[s].status)
  <2> HIDE DEF t
  <2>4. t \in {"completed", "cancelled", "interrupted"} /\ sessions'[s] = [sessions[s] EXCEPT !.status = t]
    BY <2>2, <2>3 DEF t
  <2>5. sessions[s] \in Session
    BY <1>3
  <2> QED BY <2>4, <2>5 DEF Session
<1>5. SessionsOK'
  <2>1. DOMAIN sessions' = 1..Len(sessions)
    BY <1>1, <1>3
  <2>2. sessions' = [s \in 1..Len(sessions) |-> sessions'[s]]
    BY <1>1, <1>3
  <2>3. sessions' \in [1..Len(sessions) -> Session]
    BY <1>3, <1>4, <2>2
  <2>4. sessions' \in Seq(Session)
    BY <1>3, <2>3
  <2> QED BY <1>1, <1>3, <1>4, <2>1, <2>4 DEF SessionsOK
<1>6. IdentityInv'
  BY <1>1, <1>5 DEF Inv, IdentityInv, RowsOK, AttemptsOK, OneRowPerVolume
<1>7. Holders({"run", "close", "release"}) = {} /\ Holders({"acquire", "run"}) = {}
      /\ Holders({"run", "close", "release"})' = {}
  BY <1>1, <1>2 DEF Holders
<1>8. CallsOK'
  <2>1. DOMAIN sessions' = DOMAIN sessions
    BY <1>1
  <2>2. awake' \in BOOLEAN
    BY <1>1
  <2> QED BY <1>1, <2>1, <2>2 DEF Inv, OpsInv, CallsOK
<1>9. SlotOK'
  BY <1>1 DEF Inv, OpsInv, SlotOK, Holders
<1>10. AwakeForWork'
  BY <1>1, <1>2, <1>7, FS_EmptySet DEF AwakeForWork
<1>11. AnalyzeIsOwned'
  BY <1>1, <1>7 DEF Inv, OpsInv, AnalyzeIsOwned
<1>12. Driven'
  <2>1. DOMAIN sessions' = DOMAIN sessions
    BY <1>1
  <2> QED BY <1>4, <2>1 DEF Driven
<1>13. GoneIsIdle'
  BY <1>1 DEF GoneIsIdle
<1> QED BY <1>6, <1>8, <1>9, <1>10, <1>11, <1>12, <1>13 DEF Inv, OpsInv

------------------------------------------------------------------------------
(* The theorems. *)

LEMMA InitIsGood == Init => Inv
<1> SUFFICES ASSUME Init PROVE Inv
  OBVIOUS
<1>1. /\ mounted = StartMounted /\ card = StartCard /\ rows = <<>> /\ recent = <<>>
      /\ sessions = <<>> /\ ident = [c \in Caller |-> None] /\ identifyCancel = None
      /\ call = [c \in Caller |-> None] /\ active = FALSE /\ kind = "import" /\ cancel = None
      /\ analyze = NoAnalyze /\ count = 0 /\ awake = FALSE /\ app = "up"
  BY DEF Init, IdentityInit
<1>2. /\ rows \in Seq(Row) /\ recent \in Seq(Nat) /\ sessions \in Seq(Session)
      /\ DOMAIN rows = {} /\ DOMAIN recent = {} /\ DOMAIN sessions = {} /\ Len(recent) = Len(rows)
  BY <1>1
<1>3. \A c \in Caller : ident[c] = None /\ call[c] = None
  BY <1>1
<1>4. RowsOK
  BY <1>1, <1>2, IdentityAssumption DEF RowsOK, ToSet
<1>5. SessionsOK /\ OneRowPerVolume
  BY <1>2 DEF SessionsOK, OneRowPerVolume
<1>6. AttemptsOK
  BY <1>1, <1>3 DEF AttemptsOK, Sound
<1>7. /\ Holders(Owners) = {} /\ Holders(Working) = {} /\ Holders({"run", "close", "release"}) = {}
  BY <1>3 DEF Holders
<1>8. CallsOK
  <2>1. NoAnalyze \in [of : Caller \cup {None}, running : BOOLEAN]
    BY DEF NoAnalyze
  <2> QED BY <1>1, <1>3, <2>1 DEF CallsOK
<1>9. SlotOK
  BY <1>1, <1>7 DEF SlotOK
<1>10. AwakeForWork
  BY <1>1, <1>7, FS_EmptySet DEF AwakeForWork
<1>11. AnalyzeIsOwned /\ Driven /\ GoneIsIdle
  BY <1>1, <1>2 DEF AnalyzeIsOwned, NoAnalyze, Driven, GoneIsIdle
<1> QED BY <1>4, <1>5, <1>6, <1>8, <1>9, <1>10, <1>11 DEF Inv, IdentityInv, OpsInv

\* One step of a caller at work.
LEMMA OperateStep ==
  ASSUME Inv, Running, NEW c \in Caller, Operate(c) \/ CreateFails(c)
  PROVE  Inv'
<1>0. ASSUME UNCHANGED identity PROVE IdentityInv'
  BY <1>0 DEF identity, catalog, volumes, Inv, IdentityInv, RowsOK, SessionsOK, AttemptsOK,
              OneRowPerVolume
<1>1. CASE Linked(c)
  BY <1>1, LinkedStep
<1>2. CASE CreateSession(c)
  <2>1. OpsInv' /\ SessionsOK'
    BY <1>2, CreateSessionStep DEF Inv, IdentityInv
  <2>2. UNCHANGED <<rows, recent, volumes, ident, identifyCancel>>
    BY <1>2 DEF CreateSession
  <2> QED BY <2>1, <2>2 DEF Inv, IdentityInv, RowsOK, AttemptsOK, OneRowPerVolume, volumes
<1>3. CASE SetHandle(c)
  BY <1>0, <1>3, SetHandleStep DEF SetHandle, Inv
<1>4. CASE Acquire(c)
  BY <1>0, <1>4, AcquireStep DEF Acquire, Inv
<1>5. CASE Ends(c)
  <2>1. OpsInv' /\ SessionsOK'
    BY <1>5, EndsStep DEF Inv, IdentityInv
  <2>2. UNCHANGED <<rows, recent, volumes, ident, identifyCancel>>
    BY <1>5 DEF Ends
  <2> QED BY <2>1, <2>2 DEF Inv, IdentityInv, RowsOK, AttemptsOK, OneRowPerVolume, volumes
<1>6. CASE Close(c)
  BY <1>0, <1>6, CloseStep DEF Close, Inv
<1>7. CASE Release(c)
  BY <1>0, <1>7, ReleaseStep DEF Release, Inv
<1>8. CASE Identifying(c) /\ UNCHANGED OpsRest
  BY <1>8, IdentifyingStep
<1>9. CASE CreateFails(c)
  BY <1>0, <1>9, CreateFailsStep DEF CreateFails, Inv
<1>10. CASE Resumed(c)
  <2>1. OpsInv' /\ SessionsOK'
    BY <1>10, ResumedStep DEF Inv, IdentityInv
  <2>2. UNCHANGED <<rows, recent, volumes, ident, identifyCancel>>
    BY <1>10 DEF Resumed
  <2> QED BY <2>1, <2>2 DEF Inv, IdentityInv, RowsOK, AttemptsOK, OneRowPerVolume, volumes
<1> QED BY <1>1, <1>2, <1>3, <1>4, <1>5, <1>6, <1>7, <1>8, <1>9, <1>10 DEF Operate

LEMMA RequestStep ==
  ASSUME Inv, NEW c \in Caller, Request(c)
  PROVE  Inv'
<1>1. CASE Identify(c)
  BY <1>1, WorldStep DEF Identify
<1>2. ASSUME NEW m \in Mount, NEW r \in DOMAIN rows \cup {None}, NEW copy \in BOOLEAN,
             StartImport(c, m, r, copy)
      PROVE  Inv'
  BY <1>2, StartImportStep
<1>3. ASSUME NEW k \in {"analyze", "reorganize", "retry"}, StartOther(c, k, None)
      PROVE  Inv'
  <2>1. k \in Kinds /\ None \in DOMAIN sessions \cup {None}
    BY DEF Kinds
  <2> QED BY <1>3, <2>1, StartOtherStep
<1>4. ASSUME NEW s \in DOMAIN sessions, StartOther(c, "resume", s)
      PROVE  Inv'
  <2>1. "resume" \in Kinds /\ s \in DOMAIN sessions \cup {None}
    BY DEF Kinds
  <2> QED BY <1>4, <2>1, StartOtherStep
<1> QED BY <1>1, <1>2, <1>3, <1>4 DEF Request

LEMMA InvNext == Inv /\ [Next]_opsVars => Inv'
<1> SUFFICES ASSUME Inv, [Next]_opsVars PROVE Inv'
  OBVIOUS
<1>0. ASSUME UNCHANGED identity PROVE IdentityInv'
  BY <1>0 DEF identity, catalog, volumes, Inv, IdentityInv, RowsOK, SessionsOK, AttemptsOK,
              OneRowPerVolume
<1>1. ASSUME NEW c \in Caller, Running /\ (Operate(c) \/ CreateFails(c)) PROVE Inv'
  BY <1>1, OperateStep
<1>2. ASSUME NEW c \in Caller, Request(c) PROVE Inv'
  BY <1>2, RequestStep
<1>3. CASE (CancelIdentify \/ Volumes) /\ UNCHANGED OpsRest
  BY <1>3, WorldStep
<1>4. CASE AnalyzeLapses
  <2>1. UNCHANGED <<identity, call, active, kind, cancel, sleep, app, left>>
        /\ analyze' = NoAnalyze
    BY <1>4 DEF AnalyzeLapses
  <2>2. UNCHANGED <<rows, sessions, call, active, kind, cancel, count, awake, app, left>>
    BY <2>1 DEF identity, catalog, sleep
  <2>3. OpsInv'
    BY <2>1, <2>2, QuietStep DEF Inv
  <2> QED BY <1>0, <2>1, <2>3 DEF Inv
<1>5. CASE CancelImport
  <2>1. UNCHANGED <<identity, slot, sleep, app, left>> /\ call' = Cancelled(cancel)
    BY <1>5 DEF CancelImport
  <2>2. OpsInv'
    BY <2>1, CancelledStep DEF Inv, identity, catalog
  <2> QED BY <1>0, <2>1, <2>2 DEF Inv
<1>6. CASE ConfirmQuit
  <2>1. UNCHANGED <<identity, slot, sleep, left>> /\ call' = Cancelled(cancel)
        /\ app = "up" /\ app' = "confirm"
    BY <1>6 DEF ConfirmQuit
  <2>2. OpsInv'
    BY <2>1, CancelledStep DEF Inv, identity, catalog
  <2> QED BY <1>0, <2>1, <2>2 DEF Inv
<1>7. CASE RequestQuit \/ QuitDrained
  <2>1. UNCHANGED <<identity, call, slot, sleep, left>> /\ app \in {"up", "confirm"} /\ app' = "closing"
    BY <1>7 DEF RequestQuit, QuitDrained
  <2>2. UNCHANGED <<rows, sessions, call, active, kind, cancel, analyze, count, awake, left>>
    BY <2>1 DEF identity, catalog, sleep, slot
  <2>3. OpsInv'
    BY <2>1, <2>2, QuietStep DEF Inv
  <2> QED BY <1>0, <2>1, <2>3 DEF Inv
<1>8. CASE SleepShutdown
  <2>1. UNCHANGED <<identity, call, slot, left>> /\ app = "closing" /\ app' = "down"
        /\ count' = 0 /\ awake' = FALSE
    BY <1>8 DEF SleepShutdown
  <2>2. UNCHANGED <<rows, sessions, call, active, kind, cancel, analyze, left>>
    BY <2>1 DEF identity, catalog, slot
  <2>3. OpsInv'
    BY <2>1, <2>2, QuietStep DEF Inv
  <2> QED BY <1>0, <2>1, <2>3 DEF Inv
<1>9. CASE Exit
  BY <1>9, ExitStep
<1>10. CASE Launch
  BY <1>10, LaunchStep
<1>11. CASE UNCHANGED opsVars
  <2>1. UNCHANGED <<identity, call, slot, sleep, app, left>>
    BY <1>11 DEF opsVars
  <2>2. UNCHANGED <<rows, sessions, call, active, kind, cancel, analyze, count, awake, app, left>>
    BY <2>1 DEF identity, catalog, slot, sleep
  <2>3. OpsInv'
    BY <2>2, QuietStep DEF Inv
  <2> QED BY <1>0, <2>1, <2>3 DEF Inv
<1> QED
  BY <1>1, <1>2, <1>3, <1>4, <1>5, <1>6, <1>7, <1>8, <1>9, <1>10, <1>11 DEF Next

\* The properties follow from the invariant.
LEMMA InvImplies == Inv => OperationsInv /\ OneRowPerVolume
<1> SUFFICES ASSUME Inv PROVE OperationsInv /\ OneRowPerVolume
  OBVIOUS
<1>1. TypeOK
  BY DEF Inv, OpsInv, CallsOK, IdentityInv, RowsOK, SessionsOK, AttemptsOK, Sound,
         TypeOK, IdentityTypeOK
<1>2. SlotIsOwned
  <2>1. Gate <=> active
    BY DEF Gate, Snapshot, Inv, OpsInv, CallsOK
  <2>2. Holders({"session", "handle"} \cup Working) = Holders(Owners)
    BY DEF Owners
  <2>3. CASE active
    <3>1. PICK c : c \in Holders(Owners)
      BY <2>3 DEF Inv, OpsInv, SlotOK
    <3>2. Holders(Owners) = {c}
      BY <3>1 DEF Inv, OpsInv, SlotOK
    <3>3. Cardinality(Holders(Owners)) = 1
      BY <3>2, FS_Singleton
    <3> QED BY <2>1, <2>2, <2>3, <3>3 DEF SlotIsOwned, Inv, OpsInv, SlotOK
  <2>4. CASE ~active
    <3>1. Holders(Owners) = {}
      BY <2>4 DEF Inv, OpsInv, SlotOK
    <3>2. Cardinality(Holders(Owners)) = 0
      BY <3>1, FS_EmptySet
    <3> QED BY <2>1, <2>2, <2>4, <3>2 DEF SlotIsOwned, Inv, OpsInv, SlotOK
  <2> QED BY <2>3, <2>4
<1>3. RunningIsDriven
  <2>1. Holders(Drivers) \subseteq Holders({"handle"} \cup Working)
    BY DEF Holders, Drivers, Working
  <2> QED BY <2>1 DEF Inv, OpsInv, Driven, RunningIsDriven
<1> QED BY <1>1, <1>2, <1>3 DEF OperationsInv, Inv, OpsInv, IdentityInv

\* The slot, the assertion that keeps the machine awake, the analyze snapshot and
\* the running sessions belong to operations at work, however they are started,
\* cancelled, ended or cut short.
THEOREM OperationsInvCorrect == Spec => []OperationsInv
<1>1. Spec => []Inv
  BY InitIsGood, InvNext, PTL DEF Spec
<1> QED BY <1>1, InvImplies, PTL

\* Two sources that share an identifier were recorded by identifications that
\* overlapped.
THEOREM OneRowPerVolumeCorrect == Spec => []OneRowPerVolume
<1>1. Spec => []Inv
  BY InitIsGood, InvNext, PTL DEF Spec
<1> QED BY <1>1, InvImplies, PTL
=============================================================================
