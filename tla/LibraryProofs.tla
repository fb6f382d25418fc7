---------------------------- MODULE LibraryProofs ----------------------------
(***************************************************************************)
(* Proofs about Library and CatalogSnapshot, for every value of their      *)
(* constants.  That there is one holder needs one PAIM on each Mac at a    *)
(* time; two on one Mac do take the lock from each other (library_onemac). *)
(*                                                                         *)
(* OneHolder is not inductive: nothing in it says that the lock a process  *)
(* removes is its own, or that of a process that is gone.  What is         *)
(* inductive is whose file the lock is, at each step of taking, reclaiming *)
(* and giving it back.                                                     *)
(***************************************************************************)
EXTENDS CatalogSnapshot, FiniteSetTheorems, TLAPS

(* One PAIM on each Mac at a time. *)
OnePerMac == \A p, q \in Proc : HostOf[p] = HostOf[q] => p = q

------------------------------------------------------------------------------
(* The inductive invariant. *)

LockTyped ==
    /\ pc \in [Proc -> Phase]
    /\ pid \in [Proc -> 0..MaxLaunches]
    /\ tries \in [Proc -> 0..3]
    /\ lockFile \in Lock \cup {None}

DbTyped ==
    /\ catalog \in Catalog
    /\ read \in [Proc -> 0..LatestSchema]
    /\ applied \in [Migration -> Nat]
    /\ saved \subseteq Copy
    /\ legacy \in {"none", "inPlace", "setAside"}

WorkTyped == running \subseteq Pid /\ busy \subseteq Proc /\ sessions \in 0..MaxSessions

UsedTyped ==
    launches \in 0..MaxLaunches /\ forces \in 0..MaxTrouble /\ faults \in 0..MaxTrouble

\* A process has an identifier exactly while it runs, its own and never used
\* before; nobody else's is in the lock.
PidsKnown ==
    /\ \A p \in Proc : /\ pc[p] = "off" <=> pid[p] = 0
                       /\ pid[p] <= launches
    /\ \A p, q \in Proc : pid[p] = pid[q] /\ pid[p] # 0 => p = q
    /\ lockFile # None => /\ lockFile.maker <= launches
                          /\ lockFile.holder # None => lockFile.holder <= launches

\* The lock is taken at most three times over.
TriesKnown == \A p \in Proc : pc[p] # "welcome" => tries[p] <= 2

\* Whose the lock is, while nobody forces it: that of the one process that fills
\* it in or holds it; one found dead stays in its place until it is reclaimed.
LockKnown ==
    forces = 0 => \A p \in Proc :
        /\ pc[p] # "break"
        /\ pc[p] = "write" \/ Holds(p) =>
              /\ lockFile # None
              /\ lockFile.maker = pid[p]
              /\ lockFile.holder = IF pc[p] = "write" THEN None ELSE pid[p]
        /\ pc[p] = "reclaim" => DeadHere(p)

\* The catalog is whole but for the copy under way, and whole once it is opened.
CatalogKnown ==
    /\ \A p \in Proc : pc[p] = "copy" => catalog.there /\ ~catalog.whole
    /\ \A p, q \in Proc : pc[p] = "copy" /\ pc[q] = "copy" => p = q
    /\ \A p \in Proc : pc[p] \in {"stamp", "backup", "migrate"} => catalog.there /\ catalog.whole
    /\ \A p \in Proc : pc[p] \in {"backup", "migrate"} =>
          read[p] < LatestSchema /\ catalog.schema <= LatestSchema
    /\ ~(catalog.there /\ catalog.whole) => \A m \in Migration : applied[m] = 0

\* A migration in the catalog's version is applied once, and the one in hand goes
\* by the version the catalog has.
UpgradeKnown ==
    forces = 0 =>
        /\ \A p \in Proc : pc[p] \in {"backup", "migrate"} => read[p] = catalog.schema
        /\ \A p \in Proc : pc[p] = "migrate" => \E copy \in saved : copy.schema <= read[p]
        /\ \A m \in Migration : applied[m] > 0 => m <= catalog.schema

\* A process works while it is open or on its way out.
BusyKnown == \A p \in busy : pc[p] \in {"open"} \cup Closing

\* The parts, by the variables they are about.
LockPart == LockTyped /\ PidsKnown /\ TriesKnown /\ LockKnown
DbPart   == DbTyped /\ CatalogKnown /\ UpgradeKnown /\ UpgradedOnce
WorkPart == WorkTyped /\ BusyKnown /\ LiveSessionRunning
LInv     == LockPart /\ UsedTyped /\ DbPart /\ WorkPart

------------------------------------------------------------------------------
(* Lemmas. *)

LEMMA TypesAre == TypeOK <=> LockTyped /\ DbTyped /\ WorkTyped /\ UsedTyped
  BY DEF TypeOK, LockTyped, DbTyped, WorkTyped, UsedTyped

\* A process at the next phase, the others where they were.
LEMMA AtPhase ==
    ASSUME LockTyped, NEW p \in Proc, NEW to \in Phase, Goto(p, to)
    PROVE  /\ pc' \in [Proc -> Phase]
           /\ pc'[p] = to
           /\ \A q \in Proc \ {p} : pc'[q] = pc[q]
           /\ \A q \in Proc \ {p} : Holds(q)' <=> Holds(q)
  BY DEF LockTyped, Goto, Holds

LEMMA FaultTyped ==
    ASSUME UsedTyped, Fault \/ NoFault, UNCHANGED <<launches, forces>>
    PROVE  UsedTyped'
  BY LibraryBounds DEF UsedTyped, Fault, NoFault

\* While nobody forces the lock, whoever writes or holds it is the one it names.
LEMMA OneOwner ==
    ASSUME LockPart, forces = 0, NEW p \in Proc, NEW q \in Proc,
           pc[p] = "write" \/ Holds(p), pc[q] = "write" \/ Holds(q)
    PROVE  p = q
<1>1. lockFile.maker = pid[p] /\ lockFile.maker = pid[q]
  BY DEF LockPart, LockKnown
<1>2. pid[p] # 0
  BY DEF LockPart, PidsKnown, Holds
<1> QED
  BY <1>1, <1>2 DEF LockPart, PidsKnown

\* A process with the lock, or filling it in, keeps anybody from reclaiming it.
LEMMA NoReclaim ==
    ASSUME LockPart, forces = 0, NEW p \in Proc, NEW q \in Proc,
           pc[p] = "reclaim", pc[q] = "write" \/ Holds(q)
    PROVE  FALSE
<1>1. DeadHere(p)
  BY DEF LockPart, LockKnown
<1>2. lockFile.holder = IF pc[q] = "write" THEN None ELSE pid[q]
  BY DEF LockPart, LockKnown
<1> QED
  BY <1>1, <1>2 DEF DeadHere, Alive

\* The lock of a process that is gone is reclaimed from one place only.
LEMMA OneReclaims ==
    ASSUME OnePerMac, LockPart, forces = 0, NEW p \in Proc, NEW q \in Proc,
           pc[p] = "reclaim", pc[q] = "reclaim"
    PROVE  p = q
<1>1. DeadHere(p) /\ DeadHere(q)
  BY DEF LockPart, LockKnown
<1> QED
  BY <1>1 DEF DeadHere, OnePerMac

\* A step on which the lock file and its owners stay as they are.
LEMMA LockKept ==
    ASSUME LockPart, NEW p \in Proc, NEW to \in Phase \ {"off", "break", "write", "reclaim"},
           pc[p] # "off", Goto(p, to), UNCHANGED <<pid, lockFile, launches, forces>>,
           to \in {"opendb", "stamp", "backup", "migrate", "undo", "recover",
                   "open", "stop", "release"} => Holds(p),
           tries' \in [Proc -> 0..3], to # "welcome" => tries'[p] <= 2,
           \A q \in Proc \ {p} : tries'[q] = tries[q]
    PROVE  LockPart'
<1>1. /\ pc' \in [Proc -> Phase] /\ pc'[p] = to
      /\ \A q \in Proc \ {p} : pc'[q] = pc[q] /\ (Holds(q)' <=> Holds(q))
  BY AtPhase DEF LockPart
<1>2. LockTyped'
  BY <1>1 DEF LockPart, LockTyped
<1>3. PidsKnown' /\ TriesKnown'
  BY <1>1 DEF LockPart, PidsKnown, TriesKnown
<1>4. LockKnown'
  <2> SUFFICES ASSUME forces = 0, NEW q \in Proc
               PROVE  /\ pc'[q] # "break"
                      /\ pc'[q] = "write" \/ Holds(q)' =>
                            /\ lockFile # None
                            /\ lockFile.maker = pid[q]
                            /\ lockFile.holder = IF pc'[q] = "write" THEN None ELSE pid[q]
                      /\ pc'[q] = "reclaim" => DeadHere(q)
    BY DEF LockKnown, DeadHere, Alive
  <2>1. CASE q # p
    BY <1>1, <2>1 DEF LockPart, LockKnown
  <2>2. CASE q = p
    <3>1. Holds(p)' => Holds(p)
      BY <1>1 DEF Holds
    <3>2. Holds(p) => pc[p] # "write"
      BY DEF Holds
    <3> QED
      BY <1>1, <2>2, <3>1, <3>2 DEF LockPart, LockKnown
  <2> QED
    BY <2>1, <2>2
<1> QED
  BY <1>2, <1>3, <1>4 DEF LockPart

\* A process removes the lock, its own or that of a process that is gone, or
\* whatever is there if the user forces it.
LEMMA LockRemoved ==
    ASSUME OnePerMac, LockPart, NEW p \in Proc, NEW to \in {"welcome", "create", "flush"},
           Goto(p, to), UNCHANGED <<pid, launches, forces>>, lockFile' = None,
           pc[p] \in {"break", "write", "reclaim"} \/ Holds(p),
           tries' \in [Proc -> 0..3], to # "welcome" => tries'[p] <= 2,
           \A q \in Proc \ {p} : tries'[q] = tries[q]
    PROVE  LockPart'
<1>0. to \in Phase /\ to # "off" /\ pc[p] # "off"
  BY DEF Phase, Opening, Closing, Holds
<1>1. /\ pc' \in [Proc -> Phase] /\ pc'[p] = to
      /\ \A q \in Proc \ {p} : pc'[q] = pc[q] /\ (Holds(q)' <=> Holds(q))
  BY <1>0, AtPhase DEF LockPart
<1>2. LockTyped'
  BY <1>1 DEF LockPart, LockTyped
<1>3. PidsKnown' /\ TriesKnown'
  BY <1>0, <1>1 DEF LockPart, PidsKnown, TriesKnown
<1>4. LockKnown'
  <2> SUFFICES ASSUME forces = 0, NEW q \in Proc
               PROVE  pc'[q] \notin {"break", "write", "reclaim"} /\ ~Holds(q)'
    BY DEF LockKnown
  <2>1. CASE q = p
    BY <1>1, <2>1 DEF Holds
  <2>2. CASE q # p
    <3>1. pc'[q] = pc[q] /\ (Holds(q)' <=> Holds(q)) /\ pc[q] # "break" /\ pc[p] # "break"
      BY <1>1, <2>2 DEF LockPart, LockKnown
    <3>2. CASE pc[p] = "reclaim"
      BY <2>2, <3>1, <3>2, NoReclaim, OneReclaims
    <3>3. CASE pc[p] = "write" \/ Holds(p)
      BY <2>2, <3>1, <3>3, NoReclaim, OneOwner
    <3> QED
      BY <3>1, <3>2, <3>3
  <2> QED
    BY <2>1, <2>2
<1> QED
  BY <1>2, <1>3, <1>4 DEF LockPart

\* A step that leaves the catalog alone and begins nothing with it.
LEMMA DbKept ==
    ASSUME DbPart, LockTyped, NEW p \in Proc, NEW to \in Phase \ {"copy", "stamp", "backup", "migrate"},
           Goto(p, to), UNCHANGED dbVars, forces' = 0 => forces = 0
    PROVE  DbPart'
<1>1. /\ pc' \in [Proc -> Phase] /\ pc'[p] = to
      /\ \A q \in Proc \ {p} : pc'[q] = pc[q]
  BY AtPhase
<1>2. UNCHANGED <<catalog, read, applied, saved, legacy>>
  BY DEF dbVars
<1>3. DbTyped'
  BY <1>2 DEF DbPart, DbTyped
<1>4. CatalogKnown'
  BY <1>1, <1>2 DEF DbPart, CatalogKnown
<1>5. UpgradeKnown'
  BY <1>1, <1>2 DEF DbPart, UpgradeKnown
<1>6. UpgradedOnce'
  BY <1>1, <1>2 DEF DbPart, UpgradedOnce
<1> QED
  BY <1>3, <1>4, <1>5, <1>6 DEF DbPart

\* A step that begins and ends no work.
LEMMA WorkKept ==
    ASSUME WorkPart, LockTyped, NEW p \in Proc, NEW to \in Phase,
           Goto(p, to), UNCHANGED <<workVars, pid>>, forces' = 0 => forces = 0,
           p \in busy => Holds(p) /\ to \in {"open"} \cup Closing
    PROVE  WorkPart'
<1>1. /\ pc' \in [Proc -> Phase] /\ pc'[p] = to
      /\ \A q \in Proc \ {p} : pc'[q] = pc[q] /\ (Holds(q)' <=> Holds(q))
  BY AtPhase
<1>2. UNCHANGED <<running, busy, sessions, pid>>
  BY DEF workVars
<1>3. WorkTyped'
  BY <1>2 DEF WorkPart, WorkTyped
<1>4. BusyKnown'
  BY <1>1, <1>2 DEF WorkPart, WorkTyped, BusyKnown, Closing
<1>5. LiveSessionRunning'
  <2> SUFFICES ASSUME forces = 0, NEW q \in busy, Holds(q)'
               PROVE  pid[q] \in running
    BY <1>2 DEF LiveSessionRunning
  <2>1. Holds(q)
    BY <1>1 DEF Holds, WorkPart, WorkTyped
  <2> QED
    BY <2>1 DEF WorkPart, LiveSessionRunning
<1> QED
  BY <1>3, <1>4, <1>5 DEF WorkPart

------------------------------------------------------------------------------
(* Init, and the process and its user. *)

LEMMA InitLInv == ASSUME Init PROVE LInv
<1>1. /\ pc = [p \in Proc |-> "off"] /\ pid = [p \in Proc |-> 0] /\ tries = [p \in Proc |-> 0]
      /\ lockFile = None /\ launches = 0 /\ forces = 0 /\ faults = 0 /\ sessions = 0
      /\ running = {} /\ busy = {} /\ saved = {}
      /\ read = [p \in Proc |-> 0] /\ applied = [m \in Migration |-> 0]
      /\ legacy \in {"none", "inPlace", "setAside"}
  BY DEF Init
<1>2. LockTyped
  BY <1>1, LibraryBounds DEF LockTyped, Phase
<1>3. PidsKnown /\ TriesKnown /\ LockKnown
  BY <1>1 DEF PidsKnown, TriesKnown, LockKnown, Holds
<1>4. catalog \in Catalog
  <2>1. PICK v \in StartSchema : catalog = IF v = None THEN NoCatalog ELSE AtVersion(v)
    BY DEF Init
  <2>2. v = None \/ v \in 0..LatestSchema + 1
    BY LibraryAssumption
  <2>3. 0 \in 0..LatestSchema + 1
    BY LibraryAssumption
  <2> QED
    BY <2>1, <2>2, <2>3 DEF NoCatalog, AtVersion, Catalog
<1>5. DbTyped
  BY <1>1, <1>4, LibraryAssumption DEF DbTyped
<1>6. CatalogKnown /\ UpgradeKnown /\ UpgradedOnce
  BY <1>1 DEF CatalogKnown, UpgradeKnown, UpgradedOnce
<1>7. WorkTyped /\ UsedTyped /\ BusyKnown /\ LiveSessionRunning
  BY <1>1, LibraryBounds DEF WorkTyped, UsedTyped, BusyKnown, LiveSessionRunning
<1> QED
  BY <1>2, <1>3, <1>5, <1>6, <1>7 DEF LInv, LockPart, DbPart, WorkPart

LEMMA LaunchStep == ASSUME LInv, NEW p \in Proc, Launch(p) PROVE LInv'
<1>0. LockPart /\ UsedTyped /\ DbPart /\ WorkPart
  BY DEF LInv
<1>1. /\ pc[p] = "off" /\ launches < MaxLaunches /\ launches' = launches + 1
      /\ pid' = [pid EXCEPT ![p] = launches + 1] /\ Goto(p, "welcome")
      /\ UNCHANGED <<tries, lockFile, dbVars, workVars, forces, faults>>
  BY DEF Launch
<1>2. "welcome" \in Phase
  BY DEF Phase
<1>3. /\ pc' \in [Proc -> Phase] /\ pc'[p] = "welcome"
      /\ \A q \in Proc \ {p} : pc'[q] = pc[q] /\ (Holds(q)' <=> Holds(q))
  BY <1>0, <1>1, <1>2, AtPhase DEF LockPart
<1>4. launches \in 0..MaxLaunches /\ MaxLaunches \in Nat /\ launches + 1 \in 0..MaxLaunches
  BY <1>0, <1>1, LibraryBounds DEF UsedTyped
<1>5. pid' \in [Proc -> 0..MaxLaunches] /\ pid'[p] = launches + 1 /\ \A q \in Proc \ {p} : pid'[q] = pid[q]
  BY <1>0, <1>1, <1>4 DEF LockPart, LockTyped
<1>6. LockTyped' /\ UsedTyped'
  BY <1>0, <1>1, <1>3, <1>4, <1>5 DEF LockPart, LockTyped, UsedTyped
<1>7. /\ \A q \in Proc : pid[q] \in 0..MaxLaunches /\ pid[q] <= launches
      /\ lockFile # None => /\ lockFile.maker \in Pid /\ lockFile.maker <= launches
                            /\ lockFile.holder # None => lockFile.holder \in Pid /\ lockFile.holder <= launches
  BY <1>0 DEF LockPart, LockTyped, PidsKnown, Lock
<1>8. PidsKnown'
  <2>1. \A q \in Proc : (pc'[q] = "off" <=> pid'[q] = 0) /\ pid'[q] <= launches'
    BY <1>0, <1>1, <1>3, <1>4, <1>5, <1>7 DEF LockPart, PidsKnown
  <2>2. \A q, r \in Proc : pid'[q] = pid'[r] /\ pid'[q] # 0 => q = r
    <3> SUFFICES ASSUME NEW q \in Proc, NEW r \in Proc, pid'[q] = pid'[r], pid'[q] # 0 PROVE q = r
      OBVIOUS
    <3>1. CASE q # p /\ r # p
      BY <1>0, <1>5, <3>1 DEF LockPart, PidsKnown
    <3>2. CASE (q = p) # (r = p)
      BY <1>4, <1>5, <1>7, <3>2
    <3> QED
      BY <3>1, <3>2
  <2>3. lockFile' # None => /\ lockFile'.maker <= launches'
                            /\ lockFile'.holder # None => lockFile'.holder <= launches'
    BY <1>1, <1>4, <1>7 DEF Pid
  <2> QED
    BY <2>1, <2>2, <2>3 DEF PidsKnown
<1>9. TriesKnown'
  BY <1>0, <1>1, <1>3 DEF LockPart, TriesKnown
<1>10. LockKnown'
  <2> SUFFICES ASSUME forces = 0, NEW q \in Proc
               PROVE  /\ pc'[q] # "break"
                      /\ pc'[q] = "write" \/ Holds(q)' =>
                            /\ lockFile # None
                            /\ lockFile.maker = pid'[q]
                            /\ lockFile.holder = IF pc'[q] = "write" THEN None ELSE pid'[q]
                      /\ pc'[q] = "reclaim" => DeadHere(q)'
    BY <1>1 DEF LockKnown
  <2>1. CASE q = p
    BY <1>3, <2>1 DEF Holds
  <2>2. CASE q # p
    <3>1. pc'[q] = "reclaim" => DeadHere(q)
      BY <1>0, <1>3, <2>2 DEF LockPart, LockKnown
    <3>2. DeadHere(q) => DeadHere(q)'
      <4> SUFFICES ASSUME DeadHere(q), NEW r \in Proc PROVE pid'[r] # lockFile.holder
        BY <1>1 DEF DeadHere, Alive
      <4>1. pid[r] # lockFile.holder /\ lockFile # None /\ lockFile.holder # None
        BY DEF DeadHere, Alive
      <4> QED
        BY <1>4, <1>5, <1>7, <4>1 DEF Pid
    <3> QED
      BY <1>0, <1>1, <1>3, <1>5, <2>2, <3>1, <3>2 DEF LockPart, LockKnown
  <2> QED
    BY <2>1, <2>2
<1>11. DbPart'
  BY <1>0, <1>1, <1>2, DbKept DEF LockPart
<1>12. WorkPart'
  <2>1. p \notin busy
    BY <1>0, <1>1 DEF WorkPart, BusyKnown, Closing
  <2>2. WorkTyped' /\ BusyKnown'
    BY <1>0, <1>1, <1>3, <2>1 DEF WorkPart, WorkTyped, BusyKnown, workVars, Closing
  <2>3. LiveSessionRunning'
    BY <1>0, <1>1, <1>3, <1>5, <2>1 DEF WorkPart, WorkTyped, LiveSessionRunning, workVars
  <2> QED
    BY <2>2, <2>3 DEF WorkPart
<1> QED
  BY <1>6, <1>8, <1>9, <1>10, <1>11, <1>12 DEF LInv, LockPart

\* A process that is gone holds nothing; what it left in the lock is dead.
LEMMA GoneStep ==
    ASSUME LInv, NEW p \in Proc, Gone(p), pc[p] # "off",
           UNCHANGED <<lockFile, dbVars, running, sessions, launches, forces, faults>>
    PROVE  LInv'
<1>0. LockPart /\ UsedTyped /\ DbPart /\ WorkPart
  BY DEF LInv
<1>1. /\ Goto(p, "off") /\ pid' = [pid EXCEPT ![p] = 0] /\ tries' = [tries EXCEPT ![p] = 0]
      /\ busy' = busy \ {p}
  BY DEF Gone
<1>2. "off" \in Phase /\ MaxLaunches \in Nat
  BY LibraryBounds DEF Phase
<1>3. /\ pc' \in [Proc -> Phase] /\ pc'[p] = "off"
      /\ \A q \in Proc \ {p} : pc'[q] = pc[q] /\ (Holds(q)' <=> Holds(q))
  BY <1>0, <1>1, <1>2, AtPhase DEF LockPart
<1>4. pid' \in [Proc -> 0..MaxLaunches] /\ pid'[p] = 0 /\ \A q \in Proc \ {p} : pid'[q] = pid[q]
  BY <1>0, <1>1, <1>2 DEF LockPart, LockTyped
<1>5. tries' \in [Proc -> 0..3] /\ tries'[p] = 0 /\ \A q \in Proc \ {p} : tries'[q] = tries[q]
  BY <1>0, <1>1 DEF LockPart, LockTyped
<1>6. LockTyped' /\ UsedTyped' /\ TriesKnown'
  BY <1>0, <1>3, <1>4, <1>5 DEF LockPart, LockTyped, UsedTyped, TriesKnown
<1>7. PidsKnown'
  <2>1. launches \in 0..MaxLaunches
    BY <1>0 DEF UsedTyped
  <2> QED
    BY <1>0, <1>2, <1>3, <1>4, <2>1 DEF LockPart, PidsKnown
<1>8. LockKnown'
  <2> SUFFICES ASSUME forces = 0, NEW q \in Proc
               PROVE  /\ pc'[q] # "break"
                      /\ pc'[q] = "write" \/ Holds(q)' =>
                            /\ lockFile # None
                            /\ lockFile.maker = pid'[q]
                            /\ lockFile.holder = IF pc'[q] = "write" THEN None ELSE pid'[q]
                      /\ pc'[q] = "reclaim" => DeadHere(q)'
    BY DEF LockKnown
  <2>1. CASE q = p
    BY <1>3, <2>1 DEF Holds
  <2>2. CASE q # p
    <3>1. pc'[q] = "reclaim" => DeadHere(q)
      BY <1>0, <1>3, <2>2 DEF LockPart, LockKnown
    <3>2. DeadHere(q) => DeadHere(q)'
      <4> SUFFICES ASSUME DeadHere(q), NEW r \in Proc PROVE pid'[r] # lockFile.holder
        BY DEF DeadHere, Alive
      <4>1. pid[r] # lockFile.holder /\ lockFile # None /\ lockFile.holder # None
        BY DEF DeadHere, Alive
      <4>2. lockFile.holder # 0
        BY <1>0, <4>1 DEF LockPart, LockTyped, Lock, Pid
      <4> QED
        BY <1>4, <4>1, <4>2
    <3> QED
      BY <1>0, <1>3, <1>4, <2>2, <3>1, <3>2 DEF LockPart, LockKnown
  <2> QED
    BY <2>1, <2>2
<1>9. DbPart'
  BY <1>0, <1>1, <1>2, DbKept DEF LockPart
<1>10. WorkPart'
  <2>1. WorkTyped' /\ BusyKnown'
    BY <1>0, <1>1, <1>3 DEF WorkPart, WorkTyped, BusyKnown
  <2>2. LiveSessionRunning'
    BY <1>0, <1>1, <1>3, <1>4 DEF WorkPart, WorkTyped, LiveSessionRunning
  <2> QED
    BY <2>1, <2>2 DEF WorkPart
<1> QED
  BY <1>6, <1>7, <1>8, <1>9, <1>10 DEF LInv, LockPart

LEMMA DieStep == ASSUME LInv, NEW p \in Proc, Die(p) \/ Exit(p) PROVE LInv'
  BY GoneStep DEF Die, Exit

LEMMA AskStep ==
    ASSUME LInv, NEW p \in Proc, OpenOrCreate(p) \/ ForceOpen(p) \/ MigrateLegacy(p)
    PROVE  LInv'
<1>0. LockPart /\ UsedTyped /\ DbPart /\ WorkPart
  BY DEF LInv
<1>1. PICK to \in {"create", "break", "legacy"} :
          /\ pc[p] = "welcome" /\ Goto(p, to)
          /\ tries' = [tries EXCEPT ![p] = 0]
          /\ UNCHANGED <<pid, lockFile, dbVars, workVars, launches, faults>>
          /\ \/ to # "break" /\ UNCHANGED forces
             \/ to = "break" /\ faults + forces < MaxTrouble /\ forces' = forces + 1
  BY DEF OpenOrCreate, ForceOpen, MigrateLegacy, Ask
<1>2. to \in Phase
  BY DEF Phase, Opening
<1>3. /\ tries' \in [Proc -> 0..3] /\ tries'[p] = 0
      /\ \A q \in Proc \ {p} : tries'[q] = tries[q]
  BY <1>0, <1>1 DEF LockPart, LockTyped
<1>4. UsedTyped' /\ (forces' = 0 => forces = 0)
  BY <1>0, <1>1, LibraryBounds DEF UsedTyped
<1>5. DbPart'
  BY <1>0, <1>1, <1>2, <1>4, DbKept DEF LockPart
<1>6. WorkPart'
  <2>1. p \notin busy
    BY <1>0, <1>1 DEF WorkPart, BusyKnown, Closing
  <2> QED
    BY <1>0, <1>1, <1>2, <1>4, <2>1, WorkKept DEF LockPart
<1>7. LockPart'
  <2>1. CASE to # "break"
    BY <1>0, <1>1, <1>2, <1>3, <2>1, LockKept
  <2>2. CASE to = "break"
    <3>1. /\ pc' \in [Proc -> Phase] /\ pc'[p] = "break"
          /\ \A q \in Proc \ {p} : pc'[q] = pc[q]
      BY <1>0, <1>1, <1>2, <2>2, AtPhase DEF LockPart
    <3>2. LockTyped'
      BY <1>0, <1>1, <1>3, <3>1 DEF LockPart, LockTyped
    <3>3. PidsKnown' /\ TriesKnown'
      BY <1>0, <1>1, <1>3, <3>1 DEF LockPart, PidsKnown, TriesKnown
    <3>4. forces' # 0
      BY <1>0, <1>1, <2>2 DEF UsedTyped
    <3> QED
      BY <3>2, <3>3, <3>4 DEF LockPart, LockKnown
  <2> QED
    BY <2>1, <2>2
<1> QED
  BY <1>4, <1>5, <1>6, <1>7 DEF LInv

------------------------------------------------------------------------------
(* InstallLegacy. *)

LEMMA InstallKeeps ==
    ASSUME LInv, NEW p \in Proc, NEW from \in {"legacy", "copy", "preserve"},
           NEW to \in {"welcome", "create", "copy", "preserve"}, InstallStep(p, from), Goto(p, to),
           Fault \/ NoFault
    PROVE  LockPart' /\ UsedTyped' /\ WorkPart' /\ to \in Phase
<1>0. LockPart /\ UsedTyped /\ DbPart /\ WorkPart
  BY DEF LInv
<1>1. pc[p] = from /\ UNCHANGED <<pid, tries, lockFile, workVars, launches, forces>>
  BY DEF InstallStep, lockVars
<1>2. to \in Phase \ {"off", "break", "write", "reclaim"}
  BY DEF Phase, Opening
<1>3. tries \in [Proc -> 0..3] /\ tries[p] <= 2
  BY <1>0, <1>1 DEF LockPart, LockTyped, TriesKnown
<1>4. LockPart'
  BY <1>0, <1>1, <1>2, <1>3, LockKept
<1>5. UsedTyped'
  BY <1>0, <1>1, FaultTyped
<1>6. WorkPart'
  <2>1. p \notin busy
    BY <1>0, <1>1 DEF WorkPart, BusyKnown, Closing
  <2> QED
    BY <1>0, <1>1, <1>2, <2>1, WorkKept DEF LockPart
<1> QED
  BY <1>2, <1>4, <1>5, <1>6

LEMMA InstallBeginStep == ASSUME LInv, NEW p \in Proc, InstallBegin(p) PROVE LInv'
<1>0. LockPart /\ DbPart /\ LockTyped
  BY DEF LInv, LockPart
<1>1. /\ InstallStep(p, "legacy") /\ UNCHANGED legacy /\ NoFault /\ pc[p] = "legacy"
      /\ UNCHANGED <<read, applied, saved, forces>>
  BY DEF InstallBegin, InstallStep
<1>2. CASE legacy = "inPlace" /\ ~HasLibrary
  <2>1. catalog' = [AtVersion(0) EXCEPT !.whole = FALSE] /\ Goto(p, "copy")
    BY <1>2 DEF InstallBegin
  <2>2. LockPart' /\ UsedTyped' /\ WorkPart' /\ "copy" \in Phase
    BY <1>1, <2>1, InstallKeeps
  <2>3. pc'[p] = "copy" /\ \A q \in Proc \ {p} : pc'[q] = pc[q]
    BY <1>0, <2>1, <2>2, AtPhase
  <2>4. DbTyped'
    <3>1. catalog' = [there |-> TRUE, whole |-> FALSE, schema |-> 0, grown |-> FALSE]
      BY <2>1 DEF AtVersion
    <3>2. 0 \in 0..LatestSchema + 1
      BY LibraryAssumption
    <3>3. catalog' \in Catalog
      BY <3>1, <3>2 DEF Catalog
    <3> QED
      BY <1>0, <1>1, <3>3 DEF DbPart, DbTyped
  <2>5. /\ ~catalog.there /\ catalog'.there /\ ~catalog'.whole
        /\ \A q \in Proc : pc[q] \notin {"copy", "stamp", "backup", "migrate"}
        /\ \A m \in Migration : applied[m] = 0
    BY <1>0, <1>2, <2>1 DEF HasLibrary, AtVersion, DbPart, CatalogKnown
  <2>6. \A q \in Proc : pc'[q] \notin {"stamp", "backup", "migrate"} /\ (pc'[q] = "copy" => q = p)
    BY <2>3, <2>5
  <2>7. CatalogKnown'
    BY <1>1, <2>5, <2>6 DEF CatalogKnown
  <2>8. UpgradeKnown' /\ UpgradedOnce'
    BY <1>1, <2>5, <2>6 DEF UpgradeKnown, UpgradedOnce
  <2> QED
    BY <2>2, <2>4, <2>7, <2>8 DEF LInv, DbPart
<1>3. CASE ~(legacy = "inPlace" /\ ~HasLibrary)
  <2>1. UNCHANGED catalog /\ Goto(p, "welcome")
    BY <1>3 DEF InstallBegin
  <2>2. LockPart' /\ UsedTyped' /\ WorkPart' /\ "welcome" \in Phase
    BY <1>1, <2>1, InstallKeeps
  <2>3. DbPart'
    BY <1>0, <1>1, <2>1, <2>2, DbKept DEF dbVars
  <2> QED
    BY <2>2, <2>3 DEF LInv
<1> QED
  BY <1>2, <1>3

LEMMA InstallCopiedStep == ASSUME LInv, NEW p \in Proc, InstallCopied(p) PROVE LInv'
<1>0. LockPart /\ DbPart /\ LockTyped
  BY DEF LInv, LockPart
<1>1. /\ InstallStep(p, "copy") /\ UNCHANGED legacy /\ pc[p] = "copy"
      /\ UNCHANGED <<read, applied, saved, forces>>
  BY DEF InstallCopied, InstallStep
<1>2. PICK to \in {"preserve", "welcome"} :
          /\ Goto(p, to) /\ (Fault \/ NoFault)
          /\ catalog' = IF to = "preserve" THEN [catalog EXCEPT !.whole = TRUE] ELSE NoCatalog
  BY DEF InstallCopied
<1>3. LockPart' /\ UsedTyped' /\ WorkPart' /\ to \in Phase
  BY <1>1, <1>2, InstallKeeps
<1>4. pc'[p] = to /\ \A q \in Proc \ {p} : pc'[q] = pc[q]
  BY <1>0, <1>2, <1>3, AtPhase
<1>5. /\ catalog \in Catalog
      /\ ~catalog.whole
      /\ \A q \in Proc : pc[q] \notin {"stamp", "backup", "migrate"} /\ (pc[q] = "copy" => q = p)
      /\ \A m \in Migration : applied[m] = 0
  BY <1>0, <1>1 DEF DbPart, DbTyped, CatalogKnown
<1>6. DbTyped'
  <2>1. catalog' \in Catalog
    <3>1. 0 \in 0..LatestSchema + 1
      BY LibraryAssumption
    <3>2. CASE to = "preserve"
      BY <1>2, <1>5, <3>2 DEF Catalog
    <3>3. CASE to = "welcome"
      BY <1>2, <3>1, <3>3 DEF NoCatalog, Catalog
    <3> QED
      BY <3>2, <3>3
  <2> QED
    BY <1>0, <1>1, <2>1 DEF DbPart, DbTyped
<1>7. \A q \in Proc : pc'[q] \notin {"copy", "stamp", "backup", "migrate"}
  BY <1>2, <1>4, <1>5
<1>8. CatalogKnown'
  BY <1>1, <1>5, <1>7 DEF CatalogKnown
<1>9. UpgradeKnown' /\ UpgradedOnce'
  BY <1>1, <1>5, <1>7 DEF UpgradeKnown, UpgradedOnce
<1> QED
  BY <1>3, <1>6, <1>8, <1>9 DEF LInv, DbPart

LEMMA InstallPreserveStep == ASSUME LInv, NEW p \in Proc, InstallPreserve(p) PROVE LInv'
<1>0. LockPart /\ DbPart /\ LockTyped
  BY DEF LInv, LockPart
<1>1. /\ InstallStep(p, "preserve") /\ UNCHANGED catalog /\ pc[p] = "preserve"
      /\ UNCHANGED <<read, applied, saved, forces>>
  BY DEF InstallPreserve, InstallStep
<1>2. PICK to \in {"create", "welcome"} :
          Goto(p, to) /\ (Fault \/ NoFault) /\ legacy' \in {legacy, "setAside"}
  BY DEF InstallPreserve
<1>3. LockPart' /\ UsedTyped' /\ WorkPart' /\ to \in Phase
  BY <1>1, <1>2, InstallKeeps
<1>4. pc'[p] = to /\ \A q \in Proc \ {p} : pc'[q] = pc[q]
  BY <1>0, <1>2, <1>3, AtPhase
<1>5. DbTyped'
  BY <1>0, <1>1, <1>2 DEF DbPart, DbTyped
<1>6. CatalogKnown' /\ UpgradeKnown' /\ UpgradedOnce'
  BY <1>0, <1>1, <1>2, <1>4 DEF DbPart, CatalogKnown, UpgradeKnown, UpgradedOnce
<1> QED
  BY <1>3, <1>5, <1>6 DEF LInv, DbPart

------------------------------------------------------------------------------
(* The lock. *)

\* What the steps of the lock leave alone; a process that has not opened the
\* catalog yet has no work either.
LEMMA LockStepKeeps ==
    ASSUME LInv, NEW p \in Proc, NEW from \in {"break", "create", "write", "inspect", "reclaim", "undo", "release"},
           NEW to \in {"welcome", "create", "write", "inspect", "reclaim", "opendb", "flush"},
           LockStep(p, from), Goto(p, to), Fault \/ NoFault,
           from = "release" => to = "flush"
    PROVE  UsedTyped' /\ DbPart' /\ WorkPart' /\ to \in Phase
<1>0. LockPart /\ UsedTyped /\ DbPart /\ WorkPart /\ LockTyped
  BY DEF LInv, LockPart
<1>1. pc[p] = from /\ UNCHANGED <<pid, dbVars, workVars, launches, forces>>
  BY DEF LockStep
<1>2. to \in Phase
  BY DEF Phase, Opening, Closing
<1>3. UsedTyped' /\ DbPart'
  BY <1>0, <1>1, <1>2, FaultTyped, DbKept
<1>4. WorkPart'
  <2>1. p \in busy => from = "release"
    BY <1>0, <1>1 DEF WorkPart, BusyKnown, Closing
  <2>2. p \in busy => Holds(p) /\ to \in {"open"} \cup Closing
    BY <1>1, <2>1 DEF Holds, Closing
  <2>3. UNCHANGED <<workVars, pid>> /\ (forces' = 0 => forces = 0)
    BY <1>1
  <2>4. WorkPart /\ LockTyped
    BY <1>0
  <2> QED
    BY <1>2, <2>2, <2>3, <2>4, WorkKept
<1> QED
  BY <1>2, <1>3, <1>4

LEMMA BreakLockStep == ASSUME OnePerMac, LInv, NEW p \in Proc, BreakLock(p) PROVE LInv'
<1>0. LockPart /\ LockTyped /\ tries \in [Proc -> 0..3] /\ TriesKnown
  BY DEF LInv, LockPart, LockTyped
<1>1. /\ LockStep(p, "break") /\ UNCHANGED tries /\ pc[p] = "break"
      /\ UNCHANGED <<pid, launches, forces>>
  BY DEF BreakLock, LockStep
<1>2. PICK to \in {"create", "welcome"} :
          /\ Goto(p, to) /\ (Fault \/ NoFault)
          /\ lockFile' = None \/ (to = "welcome" /\ UNCHANGED lockFile)
  BY DEF BreakLock, RemoveLock
<1>3. UsedTyped' /\ DbPart' /\ WorkPart' /\ to \in Phase
  BY <1>1, <1>2, LockStepKeeps
<1>4. tries[p] <= 2
  BY <1>0, <1>1 DEF TriesKnown
<1>5. LockPart'
  BY <1>0, <1>1, <1>2, <1>3, <1>4, LockKept, LockRemoved
<1> QED
  BY <1>3, <1>5 DEF LInv

LEMMA CreateLockStep == ASSUME LInv, NEW p \in Proc, CreateLock(p) PROVE LInv'
<1>0. LockPart /\ LockTyped /\ tries \in [Proc -> 0..3] /\ TriesKnown
  BY DEF LInv, LockPart, LockTyped
<1>1. /\ LockStep(p, "create") /\ UNCHANGED tries /\ pc[p] = "create"
      /\ UNCHANGED <<pid, launches, forces>>
  BY DEF CreateLock, LockStep
<1>2. tries[p] <= 2
  BY <1>0, <1>1 DEF TriesKnown
<1>3. ASSUME NEW to \in {"inspect", "welcome"}, Goto(p, to), UNCHANGED lockFile, Fault \/ NoFault
      PROVE  LInv'
  <2>1. UsedTyped' /\ DbPart' /\ WorkPart' /\ to \in Phase
    BY <1>1, <1>3, LockStepKeeps
  <2>2. LockPart'
    BY <1>0, <1>1, <1>2, <1>3, <2>1, LockKept
  <2> QED
    BY <2>1, <2>2 DEF LInv
<1>4. CASE /\ lockFile = None
           /\ lockFile' = [maker |-> pid[p], host |-> HostOf[p], holder |-> None]
           /\ Goto(p, "write") /\ NoFault
  <2>1. UsedTyped' /\ DbPart' /\ WorkPart' /\ "write" \in Phase
    BY <1>1, <1>4, LockStepKeeps
  <2>2. /\ pc' \in [Proc -> Phase] /\ pc'[p] = "write"
        /\ \A q \in Proc \ {p} : pc'[q] = pc[q] /\ (Holds(q)' <=> Holds(q))
    BY <1>0, <1>4, <2>1, AtPhase
  <2>3. pid[p] \in Pid /\ pid[p] <= launches
    BY <1>0, <1>1, LibraryBounds DEF LockPart, LockTyped, PidsKnown, Pid
  <2>4. lockFile' \in Lock
    BY <1>4, <2>3, LibraryAssumption DEF Lock
  <2>5. lockFile' # None /\ lockFile'.maker = pid[p] /\ lockFile'.holder = None
    BY <1>4, <2>4, LibraryAssumption
  <2>6. LockTyped'
    BY <1>0, <1>1, <2>2, <2>4 DEF LockTyped
  <2>7. PidsKnown' /\ TriesKnown'
    BY <1>0, <1>1, <2>2, <2>3, <2>5 DEF LockPart, PidsKnown, TriesKnown
  <2>8. LockKnown'
    <3> SUFFICES ASSUME forces = 0, NEW q \in Proc
                 PROVE  /\ pc'[q] # "break"
                        /\ pc'[q] = "write" \/ Holds(q)' => q = p
                        /\ pc'[q] # "reclaim"
      BY <1>1, <2>2, <2>5 DEF LockKnown
    <3>1. \A r \in Proc : pc[r] \notin {"break", "write", "reclaim"} /\ ~Holds(r)
      BY <1>1, <1>4 DEF LInv, LockPart, LockKnown, DeadHere
    <3> QED
      BY <2>2, <3>1
  <2> QED
    BY <2>1, <2>6, <2>7, <2>8 DEF LInv, LockPart
<1> QED
  BY <1>3, <1>4 DEF CreateLock

LEMMA WriteLockStep == ASSUME OnePerMac, LInv, NEW p \in Proc, WriteLock(p) PROVE LInv'
<1>0. LockPart /\ LockTyped /\ TriesKnown
  BY DEF LInv, LockPart
<1>1. /\ LockStep(p, "write") /\ tries' = [tries EXCEPT ![p] = 0] /\ pc[p] = "write"
      /\ UNCHANGED <<pid, launches, forces>>
  BY DEF WriteLock, LockStep
<1>2. tries' \in [Proc -> 0..3] /\ tries'[p] = 0 /\ \A q \in Proc \ {p} : tries'[q] = tries[q]
  BY <1>0, <1>1 DEF LockTyped
<1>3. CASE lockFile' = None /\ Goto(p, "welcome") /\ Fault
  <2>1. UsedTyped' /\ DbPart' /\ WorkPart'
    BY <1>1, <1>3, LockStepKeeps
  <2>2. LockPart'
    BY <1>0, <1>1, <1>2, <1>3, LockRemoved
  <2> QED
    BY <2>1, <2>2 DEF LInv
<1>4. CASE /\ lockFile' = IF lockFile # None /\ lockFile.maker = pid[p]
                          THEN [lockFile EXCEPT !.holder = pid[p]] ELSE lockFile
           /\ Goto(p, "opendb") /\ NoFault
  <2>1. UsedTyped' /\ DbPart' /\ WorkPart' /\ "opendb" \in Phase
    BY <1>1, <1>4, LockStepKeeps
  <2>2. /\ pc' \in [Proc -> Phase] /\ pc'[p] = "opendb"
        /\ \A q \in Proc \ {p} : pc'[q] = pc[q] /\ (Holds(q)' <=> Holds(q))
    BY <1>0, <1>4, <2>1, AtPhase
  <2>3. pid[p] \in Pid /\ pid[p] <= launches
    BY <1>0, <1>1, LibraryBounds DEF LockPart, LockTyped, PidsKnown, Pid
  <2>4. CASE lockFile # None /\ lockFile.maker = pid[p]
    <3>1. lockFile' = [lockFile EXCEPT !.holder = pid[p]] /\ lockFile \in Lock
      BY <1>0, <1>4, <2>4 DEF LockTyped
    <3>2. lockFile' \in Lock /\ lockFile'.maker = lockFile.maker /\ lockFile'.holder = pid[p]
      BY <2>3, <3>1 DEF Lock
    <3>3. lockFile' # None
      BY <3>2, LibraryAssumption
    <3>4. LockTyped'
      BY <1>0, <1>1, <1>2, <2>2, <3>2 DEF LockTyped
    <3>5. PidsKnown' /\ TriesKnown'
      BY <1>0, <1>1, <1>2, <2>2, <2>3, <2>4, <3>2 DEF LockPart, PidsKnown, TriesKnown
    <3>6. LockKnown'
      <4> SUFFICES ASSUME forces = 0, NEW q \in Proc
                   PROVE  /\ pc'[q] # "break"
                          /\ pc'[q] = "write" \/ Holds(q)' => q = p
                          /\ pc'[q] # "reclaim"
        BY <1>1, <2>2, <2>4, <3>2, <3>3 DEF LockKnown
      <4>1. \A r \in Proc \ {p} : pc[r] \notin {"break", "write", "reclaim"} /\ ~Holds(r)
        BY <1>0, <1>1, NoReclaim, OneOwner DEF LockPart, LockKnown
      <4> QED
        BY <2>2, <4>1
    <3> QED
      BY <2>1, <3>4, <3>5, <3>6 DEF LInv, LockPart
  <2>5. CASE ~(lockFile # None /\ lockFile.maker = pid[p])
    <3>1. UNCHANGED lockFile
      BY <1>4, <2>5
    <3>2. forces # 0
      BY <1>0, <1>1, <2>5 DEF LockPart, LockKnown
    <3>3. LockTyped' /\ PidsKnown' /\ TriesKnown'
      BY <1>0, <1>1, <1>2, <2>2, <3>1 DEF LockPart, LockTyped, PidsKnown, TriesKnown
    <3>4. LockKnown'
      BY <1>1, <3>2 DEF LockKnown
    <3> QED
      BY <2>1, <3>3, <3>4 DEF LInv, LockPart
  <2> QED
    BY <2>4, <2>5
<1> QED
  BY <1>3, <1>4 DEF WriteLock

LEMMA InspectLockStep == ASSUME LInv, NEW p \in Proc, InspectLock(p) PROVE LInv'
<1>0. LockPart /\ LockTyped /\ TriesKnown
  BY DEF LInv, LockPart
<1>1. /\ LockStep(p, "inspect") /\ NoFault /\ UNCHANGED lockFile /\ pc[p] = "inspect"
      /\ UNCHANGED <<pid, launches, forces>>
  BY DEF InspectLock, LockStep
<1>2. CASE DeadHere(p)
  <2>1. Goto(p, "reclaim") /\ UNCHANGED tries
    BY <1>2 DEF InspectLock
  <2>2. UsedTyped' /\ DbPart' /\ WorkPart' /\ "reclaim" \in Phase
    BY <1>1, <2>1, LockStepKeeps
  <2>3. /\ pc' \in [Proc -> Phase] /\ pc'[p] = "reclaim"
        /\ \A q \in Proc \ {p} : pc'[q] = pc[q] /\ (Holds(q)' <=> Holds(q))
    BY <1>0, <2>1, <2>2, AtPhase
  <2>4. LockTyped' /\ PidsKnown' /\ TriesKnown'
    BY <1>0, <1>1, <2>1, <2>3 DEF LockPart, LockTyped, PidsKnown, TriesKnown
  <2>5. LockKnown'
    <3> SUFFICES ASSUME forces = 0, NEW q \in Proc
                 PROVE  /\ pc'[q] # "break"
                        /\ pc'[q] = "write" \/ Holds(q)' =>
                              /\ lockFile # None
                              /\ lockFile.maker = pid[q]
                              /\ lockFile.holder = IF pc'[q] = "write" THEN None ELSE pid[q]
                        /\ pc'[q] = "reclaim" => DeadHere(q)
      BY <1>1 DEF LockKnown, DeadHere, Alive
    <3>1. CASE q = p
      BY <1>2, <2>3, <3>1 DEF Holds
    <3>2. CASE q # p
      BY <1>0, <2>3, <3>2 DEF LockPart, LockKnown
    <3> QED
      BY <3>1, <3>2
  <2> QED
    BY <2>2, <2>4, <2>5 DEF LInv, LockPart
<1>3. CASE ~DeadHere(p)
  <2>1. Goto(p, "welcome") /\ tries' = [tries EXCEPT ![p] = 0]
    BY <1>3 DEF InspectLock
  <2>2. UsedTyped' /\ DbPart' /\ WorkPart' /\ "welcome" \in Phase
    BY <1>1, <2>1, LockStepKeeps
  <2>3. tries' \in [Proc -> 0..3] /\ \A q \in Proc \ {p} : tries'[q] = tries[q]
    BY <1>0, <2>1 DEF LockTyped
  <2>4. LockPart'
    BY <1>0, <1>1, <2>1, <2>2, <2>3, LockKept
  <2> QED
    BY <2>2, <2>4 DEF LInv
<1> QED
  BY <1>2, <1>3

LEMMA ReclaimLockStep == ASSUME OnePerMac, LInv, NEW p \in Proc, ReclaimLock(p) PROVE LInv'
<1>0. LockPart /\ LockTyped /\ TriesKnown
  BY DEF LInv, LockPart
<1>1. /\ LockStep(p, "reclaim") /\ tries' = [tries EXCEPT ![p] = @ + 1] /\ pc[p] = "reclaim"
      /\ UNCHANGED <<pid, launches, forces>>
  BY DEF ReclaimLock, LockStep
<1>2. PICK to \in {"create", "welcome"} :
          /\ Goto(p, to) /\ (Fault \/ NoFault)
          /\ to = "create" => tries[p] + 1 < 3
          /\ lockFile' = None \/ (to = "welcome" /\ UNCHANGED lockFile)
  BY DEF ReclaimLock, RemoveLock
<1>3. UsedTyped' /\ DbPart' /\ WorkPart' /\ to \in Phase
  BY <1>1, <1>2, LockStepKeeps
<1>4. /\ tries' \in [Proc -> 0..3] /\ tries'[p] = tries[p] + 1 /\ tries[p] \in 0..2
      /\ \A q \in Proc \ {p} : tries'[q] = tries[q]
  BY <1>0, <1>1 DEF LockTyped, TriesKnown
<1>5. LockPart'
  BY <1>0, <1>1, <1>2, <1>3, <1>4, LockKept, LockRemoved
<1> QED
  BY <1>3, <1>5 DEF LInv

LEMMA GiveBackStep == ASSUME OnePerMac, LInv, NEW p \in Proc, Undo(p) \/ ReleaseLock(p) PROVE LInv'
<1>0. LockPart /\ LockTyped /\ TriesKnown
  BY DEF LInv, LockPart
<1>1. PICK from \in {"undo", "release"} :
          /\ LockStep(p, from) /\ UNCHANGED tries /\ pc[p] = from
          /\ UNCHANGED <<pid, launches, forces>>
          /\ Goto(p, IF from = "undo" THEN "welcome" ELSE "flush") /\ (Fault \/ NoFault)
          /\ lockFile' \in {None, lockFile}
  BY DEF Undo, ReleaseLock, RemoveLock, LockStep
<1> DEFINE to == IF from = "undo" THEN "welcome" ELSE "flush"
<1>2. UsedTyped' /\ DbPart' /\ WorkPart' /\ to \in Phase
  BY <1>1, LockStepKeeps
<1>3. tries \in [Proc -> 0..3] /\ tries[p] <= 2 /\ Holds(p)
  BY <1>0, <1>1 DEF LockTyped, TriesKnown, Holds
<1>4. LockPart'
  <2>1. CASE lockFile' = None
    BY <1>0, <1>1, <1>3, <2>1, LockRemoved
  <2>2. CASE lockFile' = lockFile
    BY <1>0, <1>1, <1>2, <1>3, <2>2, LockKept
  <2> QED
    BY <1>1, <2>1, <2>2
<1> QED
  BY <1>2, <1>4 DEF LInv

------------------------------------------------------------------------------
(* The catalog. *)

\* A step of a process that holds the library, with the lock as it is.
LEMMA HoldingKeeps ==
    ASSUME LInv, NEW p \in Proc, Holds(p),
           NEW to \in {"opendb", "stamp", "backup", "migrate", "undo", "recover", "open", "stop", "release"},
           Goto(p, to), UNCHANGED <<lockVars, launches, forces>>, Fault \/ NoFault
    PROVE  LockPart' /\ UsedTyped' /\ to \in Phase
<1>0. LockPart /\ UsedTyped /\ LockTyped /\ TriesKnown
  BY DEF LInv, LockPart
<1>1. to \in Phase \ {"off", "break", "write", "reclaim"} /\ pc[p] # "off" /\ pc[p] # "welcome"
  BY DEF Phase, Opening, Closing, Holds
<1>2. UNCHANGED <<pid, tries, lockFile>> /\ tries \in [Proc -> 0..3] /\ tries[p] <= 2
  BY <1>0, <1>1 DEF lockVars, LockTyped, TriesKnown
<1>3. LockPart'
  BY <1>0, <1>1, <1>2, LockKept
<1> QED
  BY <1>0, <1>1, <1>3, FaultTyped

LEMMA DbStepKeeps ==
    ASSUME LInv, NEW p \in Proc, NEW from \in {"opendb", "stamp", "backup", "migrate", "recover"},
           NEW to \in {"stamp", "backup", "migrate", "undo", "recover"},
           DbStep(p, from), Goto(p, to), Fault \/ NoFault
    PROVE  /\ LockPart' /\ UsedTyped' /\ WorkPart' /\ to \in Phase
           /\ pc[p] = from /\ pc'[p] = to /\ \A q \in Proc \ {p} : pc'[q] = pc[q]
           /\ forces' = forces /\ legacy' = legacy
<1>0. LockPart /\ WorkPart /\ LockTyped
  BY DEF LInv, LockPart
<1>1. pc[p] = from /\ UNCHANGED <<lockVars, workVars, pid, legacy, launches, forces>> /\ Holds(p)
  BY DEF DbStep, lockVars, Holds
<1>2. LockPart' /\ UsedTyped' /\ to \in Phase
  BY <1>1, HoldingKeeps
<1>3. WorkPart'
  <2>1. p \notin busy
    BY <1>0, <1>1 DEF WorkPart, BusyKnown, Closing
  <2> QED
    BY <1>0, <1>1, <1>2, <2>1, WorkKept
<1> QED
  BY <1>0, <1>1, <1>2, <1>3, AtPhase

LEMMA DbFailsStep ==
    ASSUME LInv, NEW p \in Proc, NEW from \in {"opendb", "stamp", "backup", "migrate", "recover"},
           DbStep(p, from), DbFails(p), Fault \/ NoFault
    PROVE  LInv'
<1>1. Goto(p, "undo") /\ UNCHANGED <<catalog, read, applied, saved>>
  BY DEF DbFails
<1>2. LockPart' /\ UsedTyped' /\ WorkPart' /\ "undo" \in Phase /\ forces' = forces /\ legacy' = legacy
  BY <1>1, DbStepKeeps
<1>3. DbPart'
  BY <1>1, <1>2, DbKept DEF LInv, LockPart, dbVars
<1> QED
  BY <1>2, <1>3 DEF LInv

\* What opening the file does to it before its version is read.
LEMMA AutoMigratedIs ==
    ASSUME catalog \in Catalog, NEW c \in AutoMigrated(catalog)
    PROVE  /\ c \in Catalog
           /\ \/ /\ c.there = catalog.there
                 /\ c.whole = catalog.whole
                 /\ c.schema = catalog.schema
              \/ ~catalog.there /\ c = AtVersion(0)
<1>1. CASE c = catalog
  BY <1>1
<1>2. CASE ~catalog.there /\ c = AtVersion(0)
  <2>1. 0 \in 0..LatestSchema + 1
    BY LibraryAssumption
  <2>2. AtVersion(0) \in Catalog
    BY <2>1 DEF AtVersion, Catalog
  <2> QED
    BY <1>2, <2>2
<1>3. CASE c = [catalog EXCEPT !.grown = TRUE]
  BY <1>3 DEF Catalog
<1> QED
  BY <1>1, <1>2, <1>3 DEF AutoMigrated

\* A migrated or new catalog.
LEMMA MigratedIs ==
    ASSUME catalog \in Catalog, NEW v \in 0..LatestSchema,
           catalog' = [catalog EXCEPT !.schema = v, !.grown = FALSE]
    PROVE  /\ catalog' \in Catalog
           /\ catalog'.there = catalog.there /\ catalog'.whole = catalog.whole
           /\ catalog'.schema = v
<1>1. v \in 0..LatestSchema + 1
  BY LibraryAssumption
<1> QED
  BY <1>1 DEF Catalog

LEMMA OpenDbStep == ASSUME LInv, NEW p \in Proc, OpenDb(p) PROVE LInv'
<1>0. DbPart /\ DbStep(p, "opendb") /\ UNCHANGED <<applied, saved>>
  BY DEF LInv, OpenDb
<1>1. /\ catalog' \in Catalog
      /\ \/ /\ catalog'.there = catalog.there
            /\ catalog'.whole = catalog.whole
            /\ catalog'.schema = catalog.schema
         \/ ~catalog.there /\ catalog' = AtVersion(0)
  <2>1. catalog \in Catalog
    BY <1>0 DEF DbPart, DbTyped
  <2>2. catalog' \in AutoMigrated(catalog)
    BY DEF OpenDb
  <2> QED
    BY <2>1, <2>2, AutoMigratedIs
<1>2. CASE /\ catalog.there /\ catalog.whole
           /\ catalog.schema <= LatestSchema
           /\ read' = [read EXCEPT ![p] = catalog.schema]
           /\ Goto(p, IF catalog.schema = LatestSchema THEN "recover" ELSE "backup")
           /\ NoFault
  <2> DEFINE to == IF catalog.schema = LatestSchema THEN "recover" ELSE "backup"
  <2>1. /\ LockPart' /\ UsedTyped' /\ WorkPart' /\ pc'[p] = to
        /\ \A q \in Proc \ {p} : pc'[q] = pc[q]
        /\ forces' = forces /\ legacy' = legacy
    BY <1>0, <1>2, DbStepKeeps
  <2>2. catalog.schema \in 0..LatestSchema /\ LatestSchema \in Nat
    BY <1>0, <1>2, LibraryAssumption DEF DbPart, DbTyped, Catalog
  <2>3. /\ read' \in [Proc -> 0..LatestSchema] /\ read'[p] = catalog.schema
        /\ \A q \in Proc \ {p} : read'[q] = read[q]
    BY <1>0, <1>2, <2>2 DEF DbPart, DbTyped
  <2>4. DbTyped'
    BY <1>0, <1>1, <2>1, <2>3 DEF DbPart, DbTyped
  <2>5. CatalogKnown'
    <3>1. to = "backup" => catalog.schema < LatestSchema
      BY <2>2
    <3> QED
      BY <1>0, <1>1, <1>2, <2>1, <2>2, <2>3, <3>1 DEF DbPart, CatalogKnown
  <2>6. UpgradeKnown' /\ UpgradedOnce'
    BY <1>0, <1>1, <1>2, <2>1, <2>3 DEF DbPart, UpgradeKnown, UpgradedOnce
  <2> QED
    BY <2>1, <2>4, <2>5, <2>6 DEF LInv, DbPart
<1>3. ASSUME NEW to \in {"stamp", "undo"}, Goto(p, to), Fault \/ NoFault, UNCHANGED read,
             to = "stamp" => ~catalog.there /\ catalog'.there
      PROVE  LInv'
  <2>1. /\ LockPart' /\ UsedTyped' /\ WorkPart' /\ pc'[p] = to
        /\ \A q \in Proc \ {p} : pc'[q] = pc[q]
        /\ forces' = forces /\ legacy' = legacy
    BY <1>0, <1>3, DbStepKeeps
  <2>2. DbTyped'
    BY <1>0, <1>1, <1>3, <2>1 DEF DbPart, DbTyped
  <2>3. CASE ~catalog.there /\ catalog' = AtVersion(0)
    <3>1. /\ \A q \in Proc : pc[q] \notin {"copy", "stamp", "backup", "migrate"}
          /\ \A m \in Migration : applied[m] = 0
      BY <1>0, <2>3 DEF DbPart, CatalogKnown
    <3>2. \A q \in Proc : pc'[q] \notin {"copy", "backup", "migrate"}
      BY <2>1, <3>1
    <3>3. CatalogKnown'
      BY <2>3, <3>2 DEF CatalogKnown, AtVersion
    <3>4. UpgradeKnown' /\ UpgradedOnce'
      BY <1>0, <3>1, <3>2 DEF UpgradeKnown, UpgradedOnce
    <3> QED
      BY <2>1, <2>2, <3>3, <3>4 DEF LInv, DbPart
  <2>4. CASE /\ catalog'.there = catalog.there
             /\ catalog'.whole = catalog.whole
             /\ catalog'.schema = catalog.schema
    <3>1. to = "undo"
      BY <1>3, <2>4
    <3>2. CatalogKnown'
      BY <1>0, <1>3, <2>1, <2>4, <3>1 DEF DbPart, CatalogKnown
    <3>3. UpgradeKnown' /\ UpgradedOnce'
      BY <1>0, <1>3, <2>1, <2>4, <3>1 DEF DbPart, UpgradeKnown, UpgradedOnce
    <3> QED
      BY <2>1, <2>2, <3>2, <3>3 DEF LInv, DbPart
  <2> QED
    BY <1>1, <2>3, <2>4
<1> QED
  BY <1>2, <1>3 DEF OpenDb

LEMMA StampNewStep == ASSUME LInv, NEW p \in Proc, StampNew(p) PROVE LInv'
<1>0. LockPart /\ DbPart /\ DbStep(p, "stamp") /\ pc[p] = "stamp"
  BY DEF LInv, StampNew, DbStep
<1>1. CASE /\ catalog' = [catalog EXCEPT !.schema = LatestSchema, !.grown = FALSE]
           /\ Goto(p, "recover") /\ NoFault
           /\ UNCHANGED <<read, applied, saved>>
  <2>1. /\ LockPart' /\ UsedTyped' /\ WorkPart' /\ pc'[p] = "recover"
        /\ \A q \in Proc \ {p} : pc'[q] = pc[q]
        /\ forces' = forces /\ legacy' = legacy
    BY <1>0, <1>1, DbStepKeeps
  <2>2. /\ catalog \in Catalog
        /\ catalog.there /\ catalog.whole /\ LatestSchema \in Nat
    BY <1>0, LibraryAssumption DEF DbPart, DbTyped, CatalogKnown
  <2>3. /\ catalog' \in Catalog
        /\ catalog'.there /\ catalog'.whole /\ catalog'.schema = LatestSchema
    <3>1. LatestSchema \in 0..LatestSchema
      BY <2>2
    <3> QED
      BY <1>1, <2>2, <3>1, MigratedIs
  <2>4. DbTyped'
    BY <1>0, <1>1, <2>1, <2>3 DEF DbPart, DbTyped
  <2>5. CatalogKnown'
    BY <1>0, <1>1, <2>1, <2>2, <2>3 DEF DbPart, CatalogKnown
  <2>6. UpgradeKnown'
    <3>1. forces = 0 => \A q \in Proc : pc'[q] \notin {"backup", "migrate"}
      <4>1. ASSUME forces = 0, NEW q \in Proc, Holds(q) PROVE q = p
        BY <1>0, <4>1, OneOwner DEF Holds
      <4> QED
        BY <2>1, <4>1 DEF Holds
    <3>2. \A m \in Migration : m <= LatestSchema
      BY DEF Migration
    <3> QED
      BY <2>1, <2>3, <3>1, <3>2 DEF UpgradeKnown
  <2>7. UpgradedOnce'
    BY <1>0, <1>1, <2>1 DEF DbPart, UpgradedOnce
  <2> QED
    BY <2>1, <2>4, <2>5, <2>6, <2>7 DEF LInv, DbPart
<1>2. CASE DbFails(p) /\ Fault
  BY <1>0, <1>2, DbFailsStep
<1> QED
  BY <1>1, <1>2 DEF StampNew

LEMMA BackUpStep == ASSUME LInv, NEW p \in Proc, BackUp(p) PROVE LInv'
<1>0. LockPart /\ DbPart /\ DbStep(p, "backup") /\ pc[p] = "backup"
  BY DEF LInv, BackUp, DbStep
<1>1. CASE /\ saved' = saved \cup {CopyOf(catalog)}
           /\ Goto(p, "migrate") /\ NoFault
           /\ UNCHANGED <<catalog, read, applied>>
  <2>1. /\ LockPart' /\ UsedTyped' /\ WorkPart' /\ pc'[p] = "migrate"
        /\ \A q \in Proc \ {p} : pc'[q] = pc[q]
        /\ forces' = forces /\ legacy' = legacy
    BY <1>0, <1>1, DbStepKeeps
  <2>2. /\ catalog.schema \in 0..LatestSchema /\ read[p] \in 0..LatestSchema
        /\ CopyOf(catalog) \in Copy /\ CopyOf(catalog).schema = catalog.schema
    BY <1>0, LibraryAssumption DEF DbPart, DbTyped, CatalogKnown, Catalog, Copy, CopyOf
  <2>3. DbTyped'
    BY <1>0, <1>1, <2>1, <2>2 DEF DbPart, DbTyped
  <2>4. CatalogKnown'
    BY <1>0, <1>1, <2>1 DEF DbPart, CatalogKnown
  <2>5. UpgradeKnown'
    <3>1. forces = 0 => CopyOf(catalog) \in saved' /\ CopyOf(catalog).schema <= read[p]
      BY <1>0, <1>1, <2>2 DEF DbPart, UpgradeKnown
    <3> QED
      BY <1>0, <1>1, <2>1, <3>1 DEF DbPart, UpgradeKnown
  <2>6. UpgradedOnce'
    BY <1>0, <1>1, <2>1 DEF DbPart, UpgradedOnce
  <2> QED
    BY <2>1, <2>3, <2>4, <2>5, <2>6 DEF LInv, DbPart
<1>2. CASE DbFails(p) /\ Fault
  BY <1>0, <1>2, DbFailsStep
<1> QED
  BY <1>1, <1>2 DEF BackUp

LEMMA MigrateStep == ASSUME LInv, NEW p \in Proc, Migrate(p) PROVE LInv'
<1>0. LockPart /\ DbPart /\ DbStep(p, "migrate") /\ pc[p] = "migrate"
  BY DEF LInv, Migrate, DbStep
<1> DEFINE m  == read[p] + 1
           to == IF m = LatestSchema THEN "recover" ELSE "migrate"
<1>1. CASE MigrateTo(p, m, to)
  <2>0. /\ catalog' = [catalog EXCEPT !.schema = m, !.grown = FALSE]
        /\ read' = [read EXCEPT ![p] = m]
        /\ applied' = [applied EXCEPT ![m] = @ + 1]
        /\ Goto(p, to) /\ NoFault /\ UNCHANGED saved
    BY <1>1 DEF MigrateTo
  <2>1. /\ LockPart' /\ UsedTyped' /\ WorkPart' /\ pc'[p] = to
        /\ \A q \in Proc \ {p} : pc'[q] = pc[q]
        /\ forces' = forces /\ legacy' = legacy
    BY <1>0, <2>0, DbStepKeeps
  <2>2. /\ catalog \in Catalog
        /\ catalog.there /\ catalog.whole /\ LatestSchema \in Nat
        /\ read \in [Proc -> 0..LatestSchema] /\ read[p] < LatestSchema
        /\ applied \in [Migration -> Nat]
    BY <1>0, LibraryAssumption DEF DbPart, DbTyped, CatalogKnown
  <2>3. m \in 1..LatestSchema /\ m \in Migration /\ (to = "migrate" => m < LatestSchema)
        /\ read[p] \in Nat /\ read[p] < m
    BY <2>2 DEF Migration
  <2> HIDE DEF m
  <2>4. /\ catalog' \in Catalog
        /\ catalog'.there /\ catalog'.whole /\ catalog'.schema = m
    <3>1. m \in 0..LatestSchema
      BY <2>2, <2>3
    <3> QED
      BY <2>0, <2>2, <3>1, MigratedIs
  <2>5. /\ read' \in [Proc -> 0..LatestSchema] /\ read'[p] = m
        /\ \A q \in Proc \ {p} : read'[q] = read[q]
    BY <2>0, <2>2, <2>3
  <2>6. /\ applied' \in [Migration -> Nat] /\ applied'[m] = applied[m] + 1
        /\ \A k \in Migration \ {m} : applied'[k] = applied[k]
    BY <2>0, <2>2, <2>3
  <2>7. DbTyped'
    BY <1>0, <2>0, <2>1, <2>4, <2>5, <2>6 DEF DbPart, DbTyped
  <2>8. CatalogKnown'
    BY <1>0, <2>1, <2>2, <2>3, <2>4, <2>5 DEF DbPart, CatalogKnown
  <2>9. forces = 0 =>
          /\ \A q \in Proc \ {p} : pc[q] \notin {"backup", "migrate"}
          /\ catalog.schema = read[p]
          /\ applied[m] = 0
          /\ \E copy \in saved : copy.schema <= read[p]
    <3>1. ASSUME forces = 0, NEW q \in Proc, Holds(q) PROVE q = p
      BY <1>0, <3>1, OneOwner DEF Holds
    <3>2. forces = 0 => /\ catalog.schema = read[p]
                        /\ \E copy \in saved : copy.schema <= read[p]
                        /\ applied[m] > 0 => m <= catalog.schema
      BY <1>0, <2>3 DEF DbPart, UpgradeKnown
    <3>3. applied[m] \in Nat
      BY <2>2, <2>3
    <3> QED
      BY <2>3, <3>1, <3>2, <3>3 DEF Holds
  <2>10. UpgradeKnown'
    <3> SUFFICES ASSUME forces = 0 PROVE UpgradeKnown'
      BY <2>1 DEF UpgradeKnown
    <3>1. \A q \in Proc : pc'[q] \in {"backup", "migrate"} => q = p
      BY <2>1, <2>9
    <3>2. \E copy \in saved : copy.schema <= m
      <4>1. PICK copy \in saved : copy.schema <= read[p]
        BY <2>9
      <4>2. copy.schema \in Int
        BY <1>0, LibraryAssumption DEF DbPart, DbTyped, Copy
      <4> QED
        BY <2>3, <4>1, <4>2
    <3>3. \A k \in Migration : applied'[k] > 0 => k <= m
      <4> SUFFICES ASSUME NEW k \in Migration, applied'[k] > 0, k # m PROVE k <= m
        BY <2>3
      <4>1. applied[k] > 0
        BY <2>6
      <4>2. k <= catalog.schema
        BY <1>0, <4>1 DEF DbPart, UpgradeKnown
      <4> QED
        BY <2>3, <2>9, <4>2 DEF Migration
    <3> QED
      BY <2>0, <2>4, <2>5, <3>1, <3>2, <3>3 DEF UpgradeKnown
  <2>11. UpgradedOnce'
    <3> SUFFICES ASSUME forces = 0, NEW k \in Migration, applied'[k] > 0
                 PROVE  applied'[k] = 1 /\ \E copy \in saved : copy.schema < k
      BY <2>0, <2>1 DEF UpgradedOnce
    <3>1. CASE k = m
      <4>1. PICK copy \in saved : copy.schema <= read[p]
        BY <2>9
      <4>2. copy.schema \in Int
        BY <1>0, LibraryAssumption DEF DbPart, DbTyped, Copy
      <4>3. copy.schema < m
        BY <2>3, <4>1, <4>2
      <4> QED
        BY <2>6, <2>9, <3>1, <4>3
    <3>2. CASE k # m
      BY <1>0, <2>6, <3>2 DEF DbPart, UpgradedOnce
    <3> QED
      BY <3>1, <3>2
  <2> QED
    BY <2>1, <2>7, <2>8, <2>10, <2>11 DEF LInv, DbPart
<1>2. CASE DbFails(p) /\ Fault
  BY <1>0, <1>2, DbFailsStep
<1> QED
  BY <1>1, <1>2 DEF Migrate

------------------------------------------------------------------------------
(* The work, and the way out. *)

LEMMA RecoverStep == ASSUME LInv, NEW p \in Proc, Recover(p) PROVE LInv'
<1>0. LockPart /\ DbPart /\ WorkPart /\ LockTyped
  BY DEF LInv, LockPart
<1>1. /\ pc[p] = "recover" /\ Goto(p, "open") /\ (Fault \/ NoFault)
      /\ running' \in {{}, running}
      /\ UNCHANGED <<lockVars, dbVars, busy, sessions, launches, forces>>
  BY DEF Recover
<1>2. LockPart' /\ UsedTyped' /\ "open" \in Phase
  BY <1>1, HoldingKeeps DEF Holds
<1>3. DbPart'
  BY <1>0, <1>1, <1>2, DbKept
<1>4. /\ pc'[p] = "open" /\ \A q \in Proc \ {p} : pc'[q] = pc[q] /\ (Holds(q)' <=> Holds(q))
  BY <1>0, <1>1, <1>2, AtPhase
<1>5. WorkTyped' /\ BusyKnown'
  BY <1>0, <1>1, <1>4 DEF WorkPart, WorkTyped, BusyKnown
<1>6. LiveSessionRunning'
  <2> SUFFICES ASSUME forces = 0, NEW q \in busy, Holds(q)' PROVE FALSE
    BY <1>1 DEF LiveSessionRunning
  <2>1. q \in Proc /\ q # p
    BY <1>0, <1>1 DEF WorkPart, WorkTyped, BusyKnown, Closing
  <2>2. Holds(q) /\ Holds(p)
    BY <1>1, <1>4, <2>1 DEF Holds
  <2> QED
    BY <1>0, <2>1, <2>2, OneOwner
<1> QED
  BY <1>2, <1>3, <1>5, <1>6 DEF LInv, WorkPart

\* A step that changes nothing but the work.
LEMMA OnlyWork ==
    ASSUME LInv, UNCHANGED <<pc, lockVars, dbVars, launches, forces, faults>>
    PROVE  LockPart' /\ UsedTyped' /\ DbPart'
<1>1. LockPart /\ UsedTyped /\ DbPart
  BY DEF LInv
<1>2. UNCHANGED <<pc, pid, tries, lockFile, catalog, read, applied, saved, legacy,
                  launches, forces, faults>>
  BY DEF lockVars, dbVars
<1>3. LockPart'
  BY <1>1, <1>2 DEF LockPart, LockTyped, PidsKnown, TriesKnown, LockKnown, Holds, DeadHere, Alive
<1>4. UsedTyped'
  BY <1>1, <1>2 DEF UsedTyped
<1>5. DbPart'
  BY <1>1, <1>2 DEF DbPart, DbTyped, CatalogKnown, UpgradeKnown, UpgradedOnce
<1> QED
  BY <1>3, <1>4, <1>5

LEMMA BeginWorkStep == ASSUME LInv, NEW p \in Proc, BeginWork(p) PROVE LInv'
<1>0. LockPart /\ WorkPart
  BY DEF LInv
<1>1. /\ pc[p] = "open" /\ sessions < MaxSessions /\ sessions' = sessions + 1
      /\ busy' = busy \cup {p} /\ running' = running \cup {pid[p]}
      /\ UNCHANGED <<pc, pid, lockVars, dbVars, launches, forces, faults>>
  BY DEF BeginWork, WorkStep, lockVars
<1>2. LockPart' /\ UsedTyped' /\ DbPart'
  BY <1>1, OnlyWork
<1>3. pid[p] \in Pid
  BY <1>0, <1>1, LibraryBounds DEF LockPart, LockTyped, PidsKnown, Pid
<1>4. WorkTyped'
  BY <1>0, <1>1, <1>3, LibraryBounds DEF WorkPart, WorkTyped
<1>5. BusyKnown'
  BY <1>0, <1>1 DEF WorkPart, BusyKnown
<1>6. LiveSessionRunning'
  BY <1>0, <1>1 DEF WorkPart, LiveSessionRunning, Holds
<1> QED
  BY <1>2, <1>4, <1>5, <1>6 DEF LInv, WorkPart

LEMMA EndWorkStep == ASSUME LInv, NEW p \in Proc, EndWork(p) PROVE LInv'
<1>0. LockPart /\ WorkPart
  BY DEF LInv
<1>1. /\ p \in busy /\ pc[p] # "off"
      /\ busy' = busy \ {p} /\ running' = running \ {pid[p]}
      /\ UNCHANGED <<pc, pid, lockVars, dbVars, sessions, launches, forces, faults>>
  BY DEF EndWork, WorkStep, lockVars, Closing
<1>2. LockPart' /\ UsedTyped' /\ DbPart'
  BY <1>1, OnlyWork
<1>3. WorkTyped' /\ BusyKnown'
  BY <1>0, <1>1 DEF WorkPart, WorkTyped, BusyKnown
<1>4. \A q \in Proc \ {p} : pid[q] # pid[p]
  BY <1>0, <1>1 DEF LockPart, PidsKnown
<1>5. LiveSessionRunning'
  BY <1>0, <1>1, <1>4 DEF WorkPart, WorkTyped, LiveSessionRunning, Holds
<1> QED
  BY <1>2, <1>3, <1>5 DEF LInv, WorkPart

LEMMA WayOutStep == ASSUME LInv, NEW p \in Proc, Quit(p) \/ StopEngines(p) PROVE LInv'
<1>0. LockPart /\ DbPart /\ WorkPart /\ LockTyped
  BY DEF LInv, LockPart
<1>1. PICK to \in {"stop", "release"} :
          /\ Holds(p) /\ Goto(p, to)
          /\ UNCHANGED <<pid, lockVars, dbVars, workVars, launches, forces, faults>>
  BY DEF Quit, StopEngines, WorkStep, Holds, lockVars
<1>2. NoFault
  BY <1>1 DEF NoFault
<1>3. LockPart' /\ UsedTyped' /\ to \in Phase
  BY <1>1, <1>2, HoldingKeeps
<1>4. DbPart'
  BY <1>0, <1>1, <1>3, DbKept
<1>5. WorkPart'
  <2>1. to \in {"open"} \cup Closing
    BY DEF Closing
  <2> QED
    BY <1>0, <1>1, <1>3, <2>1, WorkKept
<1> QED
  BY <1>3, <1>4, <1>5 DEF LInv

------------------------------------------------------------------------------
(* The theorems. *)

LEMMA LInvKept == ASSUME OnePerMac, LInv, [Next]_vars PROVE LInv'
<1>1. ASSUME NEW p \in Proc, Step(p) PROVE LInv'
  <2>1. CASE InstallBegin(p) \/ InstallCopied(p) \/ InstallPreserve(p)
    BY <2>1, InstallBeginStep, InstallCopiedStep, InstallPreserveStep
  <2>2. CASE BreakLock(p) \/ CreateLock(p) \/ WriteLock(p) \/ InspectLock(p) \/ ReclaimLock(p)
    BY <2>2, BreakLockStep, CreateLockStep, WriteLockStep, InspectLockStep, ReclaimLockStep
  <2>3. CASE OpenDb(p) \/ StampNew(p) \/ BackUp(p) \/ Migrate(p) \/ BuildFails(p)
    BY <2>3, OpenDbStep, StampNewStep, BackUpStep, MigrateStep, DbFailsStep DEF BuildFails
  <2>4. CASE Undo(p) \/ ReleaseLock(p) \/ Recover(p) \/ EndWork(p) \/ StopEngines(p) \/ Exit(p)
    BY <2>4, GiveBackStep, RecoverStep, EndWorkStep, WayOutStep, DieStep
  <2> QED
    BY <1>1, <2>1, <2>2, <2>3, <2>4 DEF Step
<1>2. ASSUME NEW p \in Proc, UserStep(p) PROVE LInv'
  BY <1>2, LaunchStep, DieStep, WayOutStep, BeginWorkStep, AskStep DEF UserStep
<1>3. CASE UNCHANGED vars
  <2>1. UNCHANGED <<pc, lockVars, dbVars, workVars, launches, forces, faults>>
    BY <1>3 DEF vars
  <2>2. LockPart' /\ UsedTyped' /\ DbPart'
    BY <2>1, OnlyWork
  <2>3. WorkPart'
    BY <2>1 DEF LInv, WorkPart, WorkTyped, BusyKnown, LiveSessionRunning, Holds, workVars, lockVars
  <2> QED
    BY <2>2, <2>3 DEF LInv
<1> QED
  BY <1>1, <1>2, <1>3 DEF Next

LEMMA LibraryAlways == ASSUME OnePerMac PROVE Spec => []LInv
<1>1. Init => LInv
  BY InitLInv
<1>2. LInv /\ [Next]_vars => LInv'
  BY LInvKept
<1> QED
  BY <1>1, <1>2, PTL DEF Spec

(* The library with snapshots implements the library: taking, verifying and
   pruning them changes nothing of how it is opened, upgraded, worked in and
   closed (services/snapshot.go beside main.go and library/lock.go). *)
THEOREM SnapshotsAside == SnapSpec => Spec
<1>1. SnapInit => Init
  BY DEF SnapInit
<1>2. [SnapNext]_allVars => [Next]_vars
  BY DEF SnapNext, allVars, Next, Commit, FoldBegin, FoldPage, SnapBegin, SnapStep,
         SnapCreate, SnapCopy, SnapCompare, SnapFails
<1> QED
  BY <1>1, <1>2, PTL DEF SnapSpec, Spec

LEMMA SnapLibraryAlways == ASSUME OnePerMac PROVE SnapSpec => []LInv
  BY LibraryAlways, SnapshotsAside, PTL

(* With one PAIM on each Mac at a time, and while nobody forces the library open,
   at most one process holds its lock, whatever processes die, however their
   locks are reclaimed and opens fail (lock.go: acquireLock, inspectLock,
   Release). *)
THEOREM OneHolderCorrect == ASSUME OnePerMac PROVE SnapSpec => []OneHolder
<1>1. LInv => OneHolder
  BY OneOwner DEF LInv, OneHolder
<1> QED
  BY <1>1, SnapLibraryAlways, PTL

(* Under the same condition recover never marks the session of a process that
   still holds the library as interrupted (main.go: recover; repo/session.go:
   MarkInterruptedOnStartup): the one that recovers is the one that holds. *)
THEOREM LiveSessionRunningCorrect == ASSUME OnePerMac PROVE SnapSpec => []LiveSessionRunning
<1>1. LInv => LiveSessionRunning
  BY DEF LInv, WorkPart
<1> QED
  BY <1>1, SnapLibraryAlways, PTL

(* Under the same condition each migration commits at most once, and only with a
   copy of an earlier version of the catalog kept (db/migrate.go: Migrate), for
   every number of versions and however often an upgrade is broken off. *)
THEOREM UpgradedOnceCorrect == ASSUME OnePerMac PROVE SnapSpec => []UpgradedOnce
<1>1. LInv => UpgradedOnce
  BY DEF LInv, DbPart
<1> QED
  BY <1>1, SnapLibraryAlways, PTL

------------------------------------------------------------------------------
(* Catalog snapshots. *)

SnapTyped ==
    /\ commits \in 0..MaxCommits
    /\ main \in [Page -> 0..commits]
    /\ fold \in Fold \cup {None}
    /\ made \in 0..MaxSnapshots
    /\ files \subseteq File
    /\ job \in [Proc -> Job \cup {None}]
    /\ ever \in BOOLEAN
    /\ late \in BOOLEAN

\* The main file is one state while no checkpoint is begun and unfinished; one under
\* way has folded the pages before its next and none beyond its transaction.
FoldKnown ==
    /\ fold = None => \A pg, pg2 \in Page : main[pg] = main[pg2]
    /\ fold # None =>
          /\ fold.to <= commits
          /\ \A pg \in Page : main[pg] <= fold.to
          /\ fold.by # None => \A pg \in Page : pg < fold.next => main[pg] = fold.to

\* What is copied is never ahead of the main file; and if the main file was one state
\* when the copy was complete, it is beyond that one and the copy is not, so that
\* the pages found the same are of just that state.
CopyKnown(j) ==
    /\ j.step \in {"fold", "create"} => j.next = 1
    /\ j.step = "copy" => \A pg \in Page : pg < j.next => j.copied[pg] <= main[pg]
    /\ j.step = "compare" /\ ~j.amid =>
          \E n \in 0..MaxCommits : \A pg \in Page :
              j.copied[pg] <= n /\ n <= main[pg] /\ (pg < j.next => j.copied[pg] = n)

CopiesKnown == \A p \in Proc : job[p] # None => CopyKnown(job[p])

\* A snapshot is in hand while its process is open or on its way out, the last one
\* only before the lock is given back; a checkpoint of its own is under way while it
\* waits for it; no name is later than the last begun; and while nobody forces the
\* library open or begins one without the lock, the one in hand of the process that
\* holds the library is the last begun.
JobKnown(p) ==
    /\ AtWork(p)
    /\ job[p].stamp <= made
    /\ job[p].last => pc[p] = "stop"
    /\ job[p].step = "fold" => fold # None /\ fold.by = p
    /\ job[p].step \in {"copy", "compare"} => job[p].stamp \in Stamp
    /\ forces = 0 /\ ~late /\ Holds(p) /\ job[p].step \in {"copy", "compare"} =>
          job[p].stamp = made

JobsKnown == \A p \in Proc : job[p] # None => JobKnown(p)

FilesKnown == (\A f \in files : f.stamp <= made) /\ RestorePoint /\ OneStateUnlessAmid

SInv == SnapTyped /\ FoldKnown /\ CopiesKnown /\ JobsKnown /\ FilesKnown

LEMMA InitSInv == ASSUME SnapInit PROVE SInv
<1>1. /\ commits = 0 /\ main = [pg \in Page |-> 0] /\ fold = None /\ made = 0 /\ files = {}
      /\ ever = FALSE /\ late = FALSE /\ job = [p \in Proc |-> None]
  BY DEF SnapInit
<1>2. SnapTyped
  <2>1. 0 \in 0..MaxCommits /\ 0 \in 0..0 /\ 0 \in 0..MaxSnapshots
    BY SnapshotAssumption
  <2> QED
    BY <1>1, <2>1 DEF SnapTyped
<1>3. FoldKnown
  BY <1>1 DEF FoldKnown
<1>4. CopiesKnown /\ JobsKnown
  BY <1>1 DEF CopiesKnown, JobsKnown
<1>5. FilesKnown
  BY <1>1 DEF FilesKnown, RestorePoint, OneStateUnlessAmid
<1> QED
  BY <1>2, <1>3, <1>4, <1>5 DEF SInv

\* How a process leaves the open library.
LEMMA LeavingSteps ==
    ASSUME LInv, NEW p \in Proc, Step(p) \/ UserStep(p)
    PROVE  /\ \A q \in Proc \ {p} : pc'[q] = pc[q]
           /\ pc[p] \in {"open"} \cup Closing => pc'[p] \in {"off", "open"} \cup Closing
           /\ pc[p] \in {"open"} \cup Closing /\ Holds(p)' => Holds(p)
           /\ pc[p] = "stop" => pc'[p] \in {"off", "stop", "release"}
           /\ forces' = 0 => forces = 0
<1>1. pc \in [Proc -> Phase] /\ forces \in 0..MaxTrouble /\ MaxTrouble \in Nat
  BY LibraryBounds DEF LInv, LockPart, LockTyped, UsedTyped
<1>2. CASE InstallBegin(p) \/ InstallCopied(p) \/ InstallPreserve(p)
  BY <1>1, <1>2 DEF InstallBegin, InstallCopied, InstallPreserve, InstallStep, Goto, Closing, Holds
<1>3. CASE BreakLock(p) \/ CreateLock(p) \/ WriteLock(p) \/ InspectLock(p) \/ ReclaimLock(p)
  BY <1>1, <1>3 DEF BreakLock, CreateLock, WriteLock, InspectLock, ReclaimLock, LockStep, RemoveLock,
                    Goto, Closing, Holds
<1>4. CASE OpenDb(p) \/ StampNew(p) \/ BackUp(p) \/ Migrate(p) \/ BuildFails(p)
  BY <1>1, <1>4 DEF OpenDb, StampNew, BackUp, Migrate, MigrateTo, BuildFails, DbStep, DbFails, Goto, Closing, Holds
<1>5. CASE Undo(p) \/ ReleaseLock(p) \/ Recover(p)
  BY <1>1, <1>5 DEF Undo, ReleaseLock, Recover, LockStep, RemoveLock, Goto, Closing, Holds
<1>6. CASE Launch(p) \/ Die(p) \/ Exit(p) \/ Quit(p) \/ StopEngines(p) \/ BeginWork(p) \/ EndWork(p)
  BY <1>1, <1>6 DEF Launch, Die, Exit, Gone, Quit, StopEngines, BeginWork, EndWork, WorkStep, Goto, Closing, Holds
<1>7. CASE OpenOrCreate(p) \/ ForceOpen(p) \/ MigrateLegacy(p)
  BY <1>1, <1>7 DEF OpenOrCreate, ForceOpen, MigrateLegacy, Ask, Goto, Closing, Holds
<1> QED
  BY <1>2, <1>3, <1>4, <1>5, <1>6, <1>7 DEF Step, UserStep

LEMMA MeanwhileStep ==
    ASSUME LInv, SInv, NEW p \in Proc, Step(p) \/ UserStep(p), Meanwhile(p)
    PROVE  SInv'
<1> DEFINE cutOff == fold # None /\ fold.by = p /\ pc'[p] = "off"
<1>1. /\ job' = [q \in Proc |-> IF pc'[q] = "off" THEN None ELSE job[q]]
      /\ fold' = IF cutOff THEN [fold EXCEPT !.by = None] ELSE fold
      /\ pc'[p] = "release" /\ job[p] # None => ~job[p].last
      /\ UNCHANGED <<commits, main, made, files, ever, late>>
  BY DEF Meanwhile
<1>2. /\ cutOff => /\ fold \in Fold /\ fold' \in Fold /\ fold'.by = None
                   /\ fold'.to = fold.to /\ fold'.next = fold.next
      /\ ~cutOff => fold' = fold
  <2>1. fold # None => fold \in Fold
    BY DEF SInv, SnapTyped
  <2> QED
    BY <1>1, <2>1 DEF Fold
<1>3. cutOff => fold # None /\ fold' # None
  BY <1>2, SnapshotAssumption
<1> HIDE DEF cutOff
<1>4. SnapTyped'
  BY <1>1, <1>2 DEF SInv, SnapTyped
<1>5. FoldKnown'
  BY <1>1, <1>2, <1>3 DEF SInv, FoldKnown
<1>6. \A q \in Proc : job'[q] # None => job'[q] = job[q] /\ job[q] # None /\ pc'[q] # "off"
  BY <1>1
<1>7. CopiesKnown'
  BY <1>1, <1>6 DEF SInv, CopiesKnown, CopyKnown
<1>8. JobsKnown'
  <2> SUFFICES ASSUME NEW q \in Proc, job'[q] # None PROVE JobKnown(q)'
    BY DEF JobsKnown
  <2>1. job'[q] = job[q] /\ job[q] # None /\ pc'[q] # "off" /\ JobKnown(q)
    BY <1>6 DEF SInv, JobsKnown
  <2>2. job[q].step = "fold" => fold' # None /\ fold'.by = q
    <3> SUFFICES ASSUME job[q].step = "fold" PROVE ~cutOff
      BY <1>2, <2>1 DEF JobKnown
    <3>1. fold.by = q
      BY <2>1 DEF JobKnown
    <3> QED
      BY <2>1, <3>1 DEF cutOff
  <2>3. CASE q # p
    <3>1. pc'[q] = pc[q] /\ (forces' = 0 => forces = 0)
      BY <2>3, LeavingSteps
    <3> QED
      BY <1>1, <2>1, <2>2, <3>1 DEF JobKnown, AtWork, Holds
  <2>4. CASE q = p
    <3>1. /\ pc[p] \in {"open"} \cup Closing => pc'[p] \in {"off", "open"} \cup Closing
          /\ pc[p] \in {"open"} \cup Closing /\ Holds(p)' => Holds(p)
          /\ pc[p] = "stop" => pc'[p] \in {"off", "stop", "release"}
          /\ forces' = 0 => forces = 0
      BY LeavingSteps
    <3>2. AtWork(p) /\ AtWork(p)'
      BY <2>1, <2>4, <3>1 DEF JobKnown, AtWork
    <3>3. job[p].last => pc'[p] = "stop"
      BY <1>1, <2>1, <2>4, <3>1 DEF JobKnown
    <3> QED
      BY <1>1, <2>1, <2>2, <2>4, <3>1, <3>2, <3>3 DEF JobKnown, AtWork
  <2> QED
    BY <2>3, <2>4
<1>9. FilesKnown'
  <2>1. forces' = 0 => forces = 0
    BY LeavingSteps
  <2> QED
    BY <1>1, <2>1 DEF SInv, FilesKnown, RestorePoint, OneStateUnlessAmid
<1> QED
  BY <1>4, <1>5, <1>7, <1>8, <1>9 DEF SInv

\* The steps of the catalog and of snapshots leave the library's variables alone.
LEMMA AsideUnchanged ==
    ASSUME UNCHANGED vars
    PROVE  /\ UNCHANGED <<pc, forces, faults>>
           /\ \A p \in Proc : (AtWork(p)' <=> AtWork(p)) /\ (Holds(p)' <=> Holds(p))
  BY DEF vars, AtWork, Holds

LEMMA CommitStep == ASSUME SInv, NEW p \in Proc, Commit(p) PROVE SInv'
<1>1. /\ commits < MaxCommits /\ commits' = commits + 1
      /\ UNCHANGED <<vars, main, fold, made, files, job, ever, late>>
  BY DEF Commit
<1>2. commits \in Nat /\ MaxCommits \in Nat
  BY SnapshotAssumption DEF SInv, SnapTyped
<1>3. SnapTyped'
  BY <1>1, <1>2 DEF SInv, SnapTyped
<1>4. FoldKnown'
  <2>1. fold # None => fold.to \in Nat
    BY SnapshotAssumption DEF SInv, SnapTyped, Fold
  <2> QED
    BY <1>1, <1>2, <2>1 DEF SInv, FoldKnown
<1>5. CopiesKnown' /\ FilesKnown'
  BY <1>1, AsideUnchanged DEF SInv, CopiesKnown, CopyKnown, FilesKnown, RestorePoint, OneStateUnlessAmid
<1>6. JobsKnown'
  BY <1>1, AsideUnchanged DEF SInv, JobsKnown, JobKnown
<1> QED
  BY <1>3, <1>4, <1>5, <1>6 DEF SInv

\* A checkpoint begins, where none is under way.
LEMMA FoldBegun ==
    ASSUME SInv, NEW p \in Proc, Foldable, fold' \in FoldFrom(p), UNCHANGED <<commits, main>>
    PROVE  /\ fold' \in Fold /\ fold' # None /\ fold'.by = p
           /\ FoldKnown'
           /\ \A q \in Proc : job[q] # None => job[q].step # "fold"
<1>1. PICK n \in 0..commits :
          /\ \A pg \in Page : main[pg] <= n
          /\ fold' = [by |-> p, to |-> n, next |-> 1]
  BY DEF FoldFrom
<1>2. /\ commits \in 0..MaxCommits /\ MaxCommits \in Nat /\ 1 \in Page
  BY SnapshotAssumption DEF SInv, SnapTyped, Page
<1>3. fold' \in Fold /\ fold'.by = p /\ fold'.to = n /\ fold'.next = 1
  BY <1>1, <1>2 DEF Fold
<1>4. fold' # None /\ None \notin Proc
  BY <1>3, SnapshotAssumption
<1>5. FoldKnown'
  BY <1>1, <1>3, <1>4 DEF FoldKnown, Page
<1>6. \A q \in Proc : job[q] # None => job[q].step # "fold"
  BY <1>4 DEF Foldable, SInv, JobsKnown, JobKnown
<1> QED
  BY <1>3, <1>4, <1>5, <1>6

LEMMA FoldBeginStep == ASSUME SInv, NEW p \in Proc, FoldBegin(p) PROVE SInv'
<1>1. /\ Foldable /\ fold' \in FoldFrom(p)
      /\ UNCHANGED <<vars, commits, main, made, files, job, ever, late>>
  BY DEF FoldBegin
<1>2. /\ fold' \in Fold /\ FoldKnown'
      /\ \A q \in Proc : job[q] # None => job[q].step # "fold"
  BY <1>1, FoldBegun
<1>3. SnapTyped'
  BY <1>1, <1>2 DEF SInv, SnapTyped
<1>4. CopiesKnown' /\ FilesKnown'
  BY <1>1, AsideUnchanged DEF SInv, CopiesKnown, CopyKnown, FilesKnown, RestorePoint, OneStateUnlessAmid
<1>5. JobsKnown'
  BY <1>1, <1>2, AsideUnchanged DEF SInv, JobsKnown, JobKnown
<1> QED
  BY <1>2, <1>3, <1>4, <1>5 DEF SInv

\* What the page after a page is, and what lies before it: stated once, for a checkpoint, a copy
\* and a comparison walk the pages alike.
LEMMA PageSteps ==
    \A n \in Page :
        /\ n < Pages => n + 1 \in Page
        /\ \A pg \in Page : /\ ~(pg < 1)
                            /\ pg < n + 1 => pg < n \/ pg = n
                            /\ ~(n < Pages) => pg < n + 1
  BY SnapshotAssumption DEF Page

LEMMA FoldPageStep == ASSUME SInv, NEW p \in Proc, FoldPage(p) PROVE SInv'
<1>1. /\ fold # None /\ fold.by = p
      /\ main' = [main EXCEPT ![fold.next] = fold.to]
      /\ IF fold.next < Pages
         THEN fold' = [fold EXCEPT !.next = @ + 1] /\ job' = job
         ELSE /\ fold' = None
              /\ job' = IF job[p] # None /\ job[p].step = "fold"
                        THEN [job EXCEPT ![p] = [job[p] EXCEPT !.step = "create"]] ELSE job
      /\ UNCHANGED <<vars, commits, made, files, ever, late>>
  BY DEF FoldPage
<1>2. /\ fold \in Fold /\ fold.next \in Page /\ fold.to \in 0..commits /\ p # None
      /\ commits \in 0..MaxCommits /\ MaxCommits \in Nat /\ Pages \in Nat
      /\ main \in [Page -> 0..commits]
      /\ \A pg \in Page : main[pg] <= fold.to
      /\ \A pg \in Page : pg < fold.next => main[pg] = fold.to
  <2>1. fold \in Fold /\ fold.to \in 0..MaxCommits /\ fold.next \in Page
    BY <1>1 DEF SInv, SnapTyped, Fold
  <2>2. fold.to <= commits /\ p # None /\ commits \in 0..MaxCommits /\ MaxCommits \in Nat
    BY <1>1, SnapshotAssumption DEF SInv, SnapTyped, FoldKnown
  <2>3. fold.to \in 0..commits
    BY <2>1, <2>2
  <2> QED
    BY <1>1, <2>1, <2>2, <2>3, SnapshotAssumption DEF SInv, SnapTyped, FoldKnown
<1>3. /\ main' \in [Page -> 0..commits]
      /\ \A pg \in Page : main[pg] <= main'[pg] /\ main'[pg] <= fold.to
      /\ \A pg \in Page : pg < fold.next + 1 => main'[pg] = fold.to
  <2>1. main' \in [Page -> 0..commits] /\ main'[fold.next] = fold.to
        /\ \A pg \in Page \ {fold.next} : main'[pg] = main[pg]
    BY <1>1, <1>2
  <2>2. fold.to \in Nat /\ \A pg \in Page : main[pg] \in Nat
    BY <1>2
  <2>3. \A pg \in Page : pg < fold.next + 1 => pg < fold.next \/ pg = fold.next
    BY <1>2, PageSteps DEF Fold
  <2>4. \A pg \in Page : main[pg] <= main'[pg] /\ main'[pg] <= fold.to
    BY <1>2, <2>1, <2>2
  <2>5. \A pg \in Page : pg < fold.next + 1 => main'[pg] = fold.to
    BY <1>2, <2>1, <2>3
  <2> QED
    BY <2>1, <2>4, <2>5
<1>4. /\ job' \in [Proc -> Job \cup {None}]
      /\ \A q \in Proc \ {p} : job'[q] = job[q]
      /\ \/ job'[p] = job[p] /\ (fold' = None /\ job[p] # None => job[p].step # "fold")
         \/ /\ job[p] # None /\ job'[p] # None
            /\ job'[p] = [job[p] EXCEPT !.step = "create"] /\ job[p] \in Job
  <2>1. job \in [Proc -> Job \cup {None}]
    BY DEF SInv, SnapTyped
  <2>2. CASE job' = job /\ (fold' = None /\ job[p] # None => job[p].step # "fold")
    BY <2>1, <2>2
  <2>3. CASE job[p] # None /\ job' = [job EXCEPT ![p] = [job[p] EXCEPT !.step = "create"]]
    <3>1. [job[p] EXCEPT !.step = "create"] \in Job /\ job[p] \in Job
      BY <2>1, <2>3 DEF Job
    <3>2. [job[p] EXCEPT !.step = "create"] # None
      BY <3>1, SnapshotAssumption
    <3> QED
      BY <2>1, <2>3, <3>1, <3>2
  <2>4. fold.next < Pages => fold' # None
    <3>1. fold.next < Pages => [fold EXCEPT !.next = @ + 1] \in Fold
      BY <1>2, PageSteps DEF Fold
    <3> QED
      BY <1>1, <3>1, SnapshotAssumption
  <2> QED
    BY <1>1, <2>2, <2>3, <2>4
<1>5. FoldKnown' /\ fold' \in Fold \cup {None}
  <2>1. CASE fold.next < Pages
    <3>1. fold' \in Fold /\ fold'.to = fold.to /\ fold'.next = fold.next + 1
      BY <1>1, <1>2, <2>1, PageSteps DEF Fold
    <3>2. fold' # None
      BY <3>1, SnapshotAssumption
    <3> QED
      BY <1>1, <1>2, <1>3, <3>1, <3>2 DEF FoldKnown
  <2>2. CASE ~(fold.next < Pages)
    <3>1. \A pg \in Page : pg < fold.next + 1
      BY <1>2, <2>2, PageSteps DEF Fold
    <3> QED
      BY <1>1, <1>3, <2>2, <3>1 DEF FoldKnown
  <2> QED
    BY <2>1, <2>2
<1>6. SnapTyped'
  BY <1>1, <1>3, <1>4, <1>5 DEF SInv, SnapTyped
<1>7. \A q \in Proc : job'[q] # None =>
          /\ job[q] # None /\ job'[q].next = job[q].next /\ job'[q].stamp = job[q].stamp
          /\ job'[q].copied = job[q].copied /\ job'[q].amid = job[q].amid
          /\ job'[q].last = job[q].last /\ job'[q].step \in {job[q].step, "create"}
  BY <1>4 DEF Job
<1>8. CopiesKnown'
  <2> SUFFICES ASSUME NEW q \in Proc, job'[q] # None PROVE CopyKnown(job[q])'
    BY DEF CopiesKnown
  <2>1. CASE job'[q] = job[q]
    <3>1. CopyKnown(job[q]) /\ job[q] \in Job
      BY <2>1 DEF SInv, CopiesKnown, SnapTyped
    <3>2. \A pg \in Page : job[q].copied[pg] \in Nat /\ main[pg] \in Nat /\ main'[pg] \in Nat
      BY <1>2, <1>3, <3>1 DEF Job
    <3>3. job[q].step = "copy" => \A pg \in Page : pg < job[q].next => job[q].copied[pg] <= main'[pg]
      BY <1>3, <3>1, <3>2 DEF CopyKnown
    <3>4. ASSUME job[q].step = "compare" /\ ~job[q].amid
          PROVE  \E n \in 0..MaxCommits : \A pg \in Page :
                    job[q].copied[pg] <= n /\ n <= main'[pg] /\ (pg < job[q].next => job[q].copied[pg] = n)
      <4>1. PICK n \in 0..MaxCommits : \A pg \in Page :
                    job[q].copied[pg] <= n /\ n <= main[pg] /\ (pg < job[q].next => job[q].copied[pg] = n)
        BY <3>1, <3>4 DEF CopyKnown
      <4>2. \A pg \in Page : n <= main'[pg]
        BY <1>3, <3>2, <4>1
      <4> QED
        BY <4>1, <4>2
    <3> QED
      BY <2>1, <3>1, <3>3, <3>4 DEF CopyKnown
  <2>2. CASE job'[q] # job[q]
    <3>1. job'[q].step = "create" /\ job'[q].next = job[q].next /\ job[q].step = "fold" /\ job[q] # None
      BY <1>1, <1>4, <2>2 DEF Job
    <3> QED
      BY <3>1 DEF SInv, CopiesKnown, CopyKnown
  <2> QED
    BY <2>1, <2>2
<1>9. JobsKnown'
  <2> SUFFICES ASSUME NEW q \in Proc, job'[q] # None PROVE JobKnown(q)'
    BY DEF JobsKnown
  <2>1. JobKnown(q) /\ job[q] # None
    BY <1>7 DEF SInv, JobsKnown
  <2>2. job'[q].step = "fold" => fold' # None /\ fold'.by = q
    <3> SUFFICES ASSUME job'[q].step = "fold" PROVE fold' # None /\ fold'.by = q
      OBVIOUS
    <3>1. job[q].step = "fold" /\ q = p
      BY <1>1, <1>7, <2>1 DEF JobKnown
    <3>2. fold' # None
      BY <1>4, <3>1 DEF Job
    <3>3. fold' = [fold EXCEPT !.next = @ + 1]
      BY <1>1, <3>2
    <3> QED
      BY <1>1, <1>2, <3>1, <3>2, <3>3 DEF Fold
  <2> QED
    BY <1>1, <1>7, <2>1, <2>2, AsideUnchanged DEF JobKnown
<1>10. FilesKnown'
  BY <1>1, AsideUnchanged DEF SInv, FilesKnown, RestorePoint, OneStateUnlessAmid
<1> QED
  BY <1>5, <1>6, <1>8, <1>9, <1>10 DEF SInv

\* The process's own snapshot goes on; those of the others are as they were.
LEMMA JobMoves ==
    ASSUME SInv, NEW p \in Proc, NEW j \in Job, job' = [job EXCEPT ![p] = j]
    PROVE  /\ job' \in [Proc -> Job \cup {None}]
           /\ job'[p] = j /\ j # None
           /\ \A q \in Proc \ {p} : job'[q] = job[q]
  BY SnapshotAssumption DEF SInv, SnapTyped

LEMMA SnapBeginStep == ASSUME SInv, NEW p \in Proc, SnapBegin(p) PROVE SInv'
<1>1. PICK last \in {FALSE, pc[p] = "stop"}, step \in {"fold", "create"} :
          /\ job' = [job EXCEPT ![p] =
                       [step |-> step, next |-> 1, stamp |-> 0,
                        copied |-> [pg \in Page |-> 0], amid |-> FALSE, last |-> last]]
          /\ IF step = "fold" THEN Foldable /\ fold' \in FoldFrom(p) ELSE fold' = fold
  BY DEF SnapBegin
<1> DEFINE j == [step |-> step, next |-> 1, stamp |-> 0,
                 copied |-> [pg \in Page |-> 0], amid |-> FALSE, last |-> last]
<1>2. AtWork(p) /\ UNCHANGED <<vars, commits, main, made, files, ever, late>>
  BY DEF SnapBegin
<1>3. last \in BOOLEAN /\ (last => pc[p] = "stop")
  BY Zenon
<1>4. /\ j \in Job /\ j.step = step /\ j.stamp = 0 /\ j.last = last /\ j.next = 1
  <2>1. 1 \in Page /\ 0 \in 0..MaxCommits
    BY SnapshotAssumption DEF Page
  <2> QED
    BY <1>3, <2>1 DEF Job
<1>5. job' = [job EXCEPT ![p] = j]
  BY <1>1
<1> HIDE DEF j
<1>6. /\ job' \in [Proc -> Job \cup {None}] /\ job'[p] = j
      /\ \A q \in Proc \ {p} : job'[q] = job[q]
  BY <1>4, <1>5, JobMoves
<1>7. /\ fold' \in Fold \cup {None} /\ FoldKnown'
      /\ step = "fold" => /\ fold' # None /\ fold'.by = p
                          /\ \A q \in Proc : job[q] # None => job[q].step # "fold"
      /\ step # "fold" => fold' = fold
  <2>1. CASE step = "fold"
    BY <1>1, <1>2, <2>1, FoldBegun
  <2>2. CASE step # "fold"
    BY <1>1, <1>2, <2>2 DEF SInv, SnapTyped, FoldKnown
  <2> QED
    BY <2>1, <2>2
<1>8. SnapTyped'
  BY <1>2, <1>6, <1>7 DEF SInv, SnapTyped
<1>9. CopiesKnown'
  BY <1>2, <1>4, <1>6 DEF SInv, CopiesKnown, CopyKnown
<1>10. JobsKnown'
  <2> SUFFICES ASSUME NEW q \in Proc, job'[q] # None PROVE JobKnown(q)'
    BY DEF JobsKnown
  <2>1. CASE q = p
    <3>1. made \in Nat
      BY DEF SInv, SnapTyped
    <3> QED
      BY <1>2, <1>3, <1>4, <1>6, <1>7, <2>1, <3>1, AsideUnchanged DEF JobKnown
  <2>2. CASE q # p
    BY <1>2, <1>6, <1>7, <2>2, AsideUnchanged DEF SInv, JobsKnown, JobKnown
  <2> QED
    BY <2>1, <2>2
<1>11. FilesKnown'
  BY <1>2, AsideUnchanged DEF SInv, FilesKnown, RestorePoint, OneStateUnlessAmid
<1> QED
  BY <1>7, <1>8, <1>9, <1>10, <1>11 DEF SInv

LEMMA SnapCreateStep == ASSUME LInv, SInv, NEW p \in Proc, SnapCreate(p) PROVE SInv'
<1> DEFINE j == [job[p] EXCEPT !.step = "copy", !.stamp = made + 1]
<1>1. /\ job[p] # None /\ job[p].step = "create"
      /\ made < MaxSnapshots /\ made' = made + 1
      /\ files' = files \cup {Torn(made + 1)}
      /\ job' = [job EXCEPT ![p].step = "copy", ![p].stamp = made + 1]
      /\ late' = (late \/ ~Holds(p))
      /\ UNCHANGED <<vars, commits, main, fold, ever>>
  BY DEF SnapCreate, SnapStep
<1>2. /\ made \in Nat /\ MaxSnapshots \in Nat /\ made + 1 \in Stamp
      /\ job[p] \in Job /\ job \in [Proc -> Job \cup {None}]
  BY <1>1, SnapshotAssumption DEF SInv, SnapTyped, Stamp
<1>3. /\ j \in Job /\ j.step = "copy" /\ j.stamp = made + 1 /\ j.last = job[p].last
      /\ j.next = job[p].next
  BY <1>2 DEF Job
<1>4. job' = [job EXCEPT ![p] = j]
  BY <1>1, <1>2
<1> HIDE DEF j
<1>5. /\ job' \in [Proc -> Job \cup {None}] /\ job'[p] = j
      /\ \A q \in Proc \ {p} : job'[q] = job[q]
  BY <1>3, <1>4, JobMoves
<1>6. Torn(made + 1) \in File /\ ~Torn(made + 1).whole /\ Torn(made + 1).stamp = made + 1
  BY <1>2 DEF Torn, File
<1>7. SnapTyped'
  <2>1. late' \in BOOLEAN
    BY <1>1, Zenon
  <2> QED
    BY <1>1, <1>2, <1>5, <1>6, <2>1 DEF SInv, SnapTyped, Stamp
<1>8. FoldKnown'
  BY <1>1 DEF SInv, FoldKnown
<1>9. CopiesKnown'
  <2>1. j.next = 1
    BY <1>1, <1>3 DEF SInv, CopiesKnown, CopyKnown
  <2>2. CopyKnown(job[p])'
    BY <1>3, <1>5, <2>1 DEF CopyKnown, Page
  <2> QED
    BY <1>1, <1>5, <2>2 DEF SInv, CopiesKnown, CopyKnown
<1>10. JobsKnown'
  <2> SUFFICES ASSUME NEW q \in Proc, job'[q] # None PROVE JobKnown(q)'
    BY DEF JobsKnown
  <2>1. CASE q = p
    BY <1>1, <1>2, <1>3, <1>5, <2>1, AsideUnchanged DEF SInv, JobsKnown, JobKnown
  <2>2. CASE q # p
    <3>1. forces = 0 /\ ~late' => ~Holds(q)
      BY <1>1, <2>2, OneOwner DEF LInv
    <3>2. job'[q] = job[q] /\ job[q] # None /\ JobKnown(q) /\ job[q] \in Job
      BY <1>5, <2>2 DEF SInv, JobsKnown, SnapTyped
    <3>3. job[q].stamp \in Nat
      BY <3>2 DEF Job, Stamp
    <3> QED
      BY <1>1, <1>2, <3>1, <3>2, <3>3, AsideUnchanged DEF JobKnown
  <2> QED
    BY <2>1, <2>2
<1>11. FilesKnown'
  <2>1. \A f \in files' : f.stamp <= made'
    <3>1. \A f \in files : f.stamp \in Nat /\ f.stamp <= made
      BY DEF SInv, SnapTyped, FilesKnown, File, Stamp
    <3> QED
      BY <1>1, <1>2, <1>6, <3>1
  <2>2. RestorePoint' /\ OneStateUnlessAmid'
    BY <1>1, <1>6, AsideUnchanged DEF SInv, FilesKnown, RestorePoint, OneStateUnlessAmid
  <2> QED
    BY <2>1, <2>2 DEF FilesKnown
<1> QED
  BY <1>7, <1>8, <1>9, <1>10, <1>11 DEF SInv

LEMMA SnapCopyStep == ASSUME SInv, NEW p \in Proc, SnapCopy(p) PROVE SInv'
<1> DEFINE k      == job[p].next
           copied == [job[p].copied EXCEPT ![k] = main[k]]
           j      == Copied(job[p])
<1>1. /\ job[p] # None /\ job[p].step = "copy"
      /\ job' = [job EXCEPT ![p] = j]
      /\ UNCHANGED <<vars, commits, main, fold, made, files, ever, late>>
  BY DEF SnapCopy, SnapStep
<1>2. /\ job[p] \in Job /\ k \in Page /\ job[p].copied \in [Page -> 0..MaxCommits]
      /\ Pages \in Nat /\ MaxCommits \in Nat /\ commits \in 0..MaxCommits
      /\ main \in [Page -> 0..commits] /\ 1 \in Page
      /\ \A pg \in Page : pg < k => job[p].copied[pg] <= main[pg]
  <2>1. job[p] \in Job /\ CopyKnown(job[p])
    BY <1>1 DEF SInv, SnapTyped, CopiesKnown
  <2>2. k \in Page /\ job[p].copied \in [Page -> 0..MaxCommits]
    BY <2>1 DEF Job
  <2>3. Pages \in Nat /\ MaxCommits \in Nat /\ 1 \in Page
    BY SnapshotAssumption DEF Page
  <2>4. \A pg \in Page : pg < k => job[p].copied[pg] <= main[pg]
    BY <1>1, <2>1 DEF CopyKnown
  <2> QED
    BY <2>1, <2>2, <2>3, <2>4 DEF SInv, SnapTyped
<1>3. /\ copied \in [Page -> 0..MaxCommits]
      /\ \A pg \in Page : pg < k + 1 => copied[pg] <= main[pg]
  <2>1. main[k] \in 0..MaxCommits
    BY <1>2
  <2>2. copied \in [Page -> 0..MaxCommits] /\ copied[k] = main[k]
        /\ \A pg \in Page \ {k} : copied[pg] = job[p].copied[pg]
    BY <1>2, <2>1
  <2>3. \A pg \in Page : pg < k + 1 => pg < k \/ pg = k
    BY <1>2, PageSteps
  <2>4. main[k] <= main[k]
    BY <2>1
  <2> QED
    BY <1>2, <2>2, <2>3, <2>4
<1>4. /\ j \in Job /\ j.copied = copied /\ j.stamp = job[p].stamp /\ j.last = job[p].last
      /\ k < Pages => j.step = "copy" /\ j.next = k + 1
      /\ ~(k < Pages) => j.step = "compare" /\ j.next = 1 /\ (~j.amid => fold = None)
  <2>1. CASE k < Pages
    <3>1. j = [job[p] EXCEPT !.copied = copied, !.next = k + 1]
      BY <2>1 DEF Copied
    <3>2. k + 1 \in Page
      BY <1>2, <2>1, PageSteps
    <3> HIDE DEF copied, j, k
    <3> QED
      BY <1>1, <1>2, <1>3, <2>1, <3>1, <3>2 DEF Job
  <2>2. CASE ~(k < Pages)
    <3>1. j = [job[p] EXCEPT !.copied = copied, !.next = 1, !.step = "compare", !.amid = fold # None]
      BY <2>2 DEF Copied
    <3>2. (fold # None) \in BOOLEAN
      BY Zenon
    <3> HIDE DEF copied, j, k
    <3> QED
      BY <1>2, <1>3, <2>2, <3>1, <3>2 DEF Job
  <2> QED
    BY <2>1, <2>2
<1> HIDE DEF copied, k, j
<1>5. /\ job' \in [Proc -> Job \cup {None}] /\ job'[p] = j
      /\ \A q \in Proc \ {p} : job'[q] = job[q]
  BY <1>1, <1>4, JobMoves
<1>6. SnapTyped' /\ FoldKnown'
  BY <1>1, <1>5 DEF SInv, SnapTyped, FoldKnown
<1>7. CopiesKnown'
  <2>1. CopyKnown(job[p])'
    <3>1. CASE k < Pages
      BY <1>1, <1>3, <1>4, <1>5, <3>1 DEF CopyKnown
    <3>2. CASE ~(k < Pages)
      <4>1. \A pg \in Page : copied[pg] <= main[pg] /\ ~(pg < 1)
        BY <1>2, <1>3, <3>2, PageSteps
      <4>2. ASSUME ~j.amid
            PROVE  \E n \in 0..MaxCommits : \A pg \in Page :
                      copied[pg] <= n /\ n <= main[pg] /\ (pg < 1 => copied[pg] = n)
        <5>1. \A pg \in Page : main[pg] = main[1]
          BY <1>2, <1>4, <3>2, <4>2 DEF SInv, FoldKnown
        <5>2. main[1] \in 0..MaxCommits /\ \A pg \in Page : main[1] <= main[pg]
          BY <1>2, <5>1
        <5> QED
          BY <4>1, <5>1, <5>2
      <4> QED
        BY <1>1, <1>4, <1>5, <3>2, <4>1, <4>2 DEF CopyKnown
    <3> QED
      BY <3>1, <3>2
  <2> QED
    BY <1>1, <1>5, <2>1 DEF SInv, CopiesKnown, CopyKnown
<1>8. JobsKnown'
  <2> SUFFICES ASSUME NEW q \in Proc, job'[q] # None PROVE JobKnown(q)'
    BY DEF JobsKnown
  <2>1. CASE q = p
    BY <1>1, <1>4, <1>5, <2>1, AsideUnchanged DEF SInv, JobsKnown, JobKnown
  <2>2. CASE q # p
    BY <1>1, <1>5, <2>2, AsideUnchanged DEF SInv, JobsKnown, JobKnown
  <2> QED
    BY <2>1, <2>2
<1>9. FilesKnown'
  BY <1>1, AsideUnchanged DEF SInv, FilesKnown, RestorePoint, OneStateUnlessAmid
<1> QED
  BY <1>6, <1>7, <1>8, <1>9 DEF SInv

\* The newest is never among those that pruning removes.
LEMMA NewestKept ==
    ASSUME NEW all, NEW f \in all, \A g \in all : ~(g.stamp > f.stamp)
    PROVE  f \in Pruned(all)
<1>1. {g \in all : g.stamp > f.stamp} = {}
  OBVIOUS
<1>2. Cardinality({g \in all : g.stamp > f.stamp}) = 0
  BY <1>1, FS_EmptySet
<1> QED
  BY <1>2, SnapshotAssumption DEF Pruned

\* The process's snapshot is over, finished or given up.
LEMMA JobOver ==
    ASSUME SInv, NEW p \in Proc, job' = [job EXCEPT ![p] = None], UNCHANGED <<vars, main, made>>,
           ~late' => ~late,
           fold' = fold \/ \A q \in Proc \ {p} : job[q] # None => job[q].step # "fold"
    PROVE  job' \in [Proc -> Job \cup {None}] /\ CopiesKnown' /\ JobsKnown'
<1>1. /\ job' \in [Proc -> Job \cup {None}] /\ job'[p] = None
      /\ \A q \in Proc \ {p} : job'[q] = job[q]
  BY DEF SInv, SnapTyped
<1>2. CopiesKnown'
  BY <1>1 DEF SInv, CopiesKnown, CopyKnown
<1>3. JobsKnown'
  <2> SUFFICES ASSUME NEW q \in Proc, job'[q] # None PROVE JobKnown(q)'
    BY DEF JobsKnown
  <2>1. q # p /\ job'[q] = job[q] /\ JobKnown(q)
    BY <1>1 DEF SInv, JobsKnown
  <2> QED
    BY <1>1, <2>1, AsideUnchanged DEF JobKnown
<1> QED
  BY <1>1, <1>2, <1>3

LEMMA SnapCompareStep == ASSUME SInv, NEW p \in Proc, SnapCompare(p) PROVE SInv'
<1> DEFINE k == job[p].next
<1>1. /\ job[p] # None /\ job[p].step = "compare" /\ main[k] = job[p].copied[k]
      /\ UNCHANGED <<vars, commits, main, fold, made>>
  BY DEF SnapCompare, SnapStep
<1>2. /\ job[p] \in Job /\ k \in Page /\ job[p].copied \in [Page -> 0..MaxCommits]
      /\ job[p].stamp \in Stamp /\ Pages \in Nat /\ MaxCommits \in Nat
      /\ main \in [Page -> 0..commits] /\ JobKnown(p) /\ CopyKnown(job[p])
  BY <1>1, SnapshotAssumption DEF SInv, SnapTyped, Job, JobsKnown, JobKnown, CopiesKnown
<1>3. ~job[p].amid => \E n \in 0..MaxCommits : \A pg \in Page :
          /\ job[p].copied[pg] <= n /\ n <= main[pg]
          /\ pg < k + 1 => job[p].copied[pg] = n
  <2> SUFFICES ASSUME ~job[p].amid
               PROVE  \E n \in 0..MaxCommits : \A pg \in Page :
                          /\ job[p].copied[pg] <= n /\ n <= main[pg]
                          /\ pg < k + 1 => job[p].copied[pg] = n
    OBVIOUS
  <2>1. PICK n \in 0..MaxCommits : \A pg \in Page :
            job[p].copied[pg] <= n /\ n <= main[pg] /\ (pg < k => job[p].copied[pg] = n)
    BY <1>1, <1>2 DEF CopyKnown
  <2>2. job[p].copied[k] = n
    <3>1. job[p].copied[k] \in Nat /\ job[p].copied[k] <= n /\ n <= job[p].copied[k]
      BY <1>1, <1>2, <2>1
    <3> QED
      BY <3>1
  <2>3. \A pg \in Page : pg < k + 1 => pg < k \/ pg = k
    BY <1>2, PageSteps
  <2> QED
    BY <2>1, <2>2, <2>3
<1>4. CASE k < Pages
  <2> DEFINE j == [job[p] EXCEPT !.next = k + 1]
  <2>1. job' = [job EXCEPT ![p] = j] /\ UNCHANGED <<files, ever, late>>
    <3>1. job' = [job EXCEPT ![p].next = @ + 1] /\ UNCHANGED <<files, ever, late>>
      BY <1>4 DEF SnapCompare
    <3> QED
      BY <3>1
  <2>2. /\ j \in Job /\ j.step = "compare" /\ j.next = k + 1 /\ j.copied = job[p].copied
        /\ j.stamp = job[p].stamp /\ j.last = job[p].last /\ j.amid = job[p].amid
    <3>1. k + 1 \in Page
      BY <1>2, <1>4, PageSteps
    <3> HIDE DEF k
    <3> QED
      BY <1>1, <1>2, <3>1 DEF Job
  <2> HIDE DEF j, k
  <2>3. /\ job' \in [Proc -> Job \cup {None}] /\ job'[p] = j
        /\ \A q \in Proc \ {p} : job'[q] = job[q]
    BY <2>1, <2>2, JobMoves
  <2>4. SnapTyped' /\ FoldKnown'
    BY <1>1, <2>1, <2>3 DEF SInv, SnapTyped, FoldKnown
  <2>5. CopyKnown(job[p])'
    BY <1>1, <1>3, <2>2, <2>3 DEF CopyKnown
  <2>6. CopiesKnown'
    BY <1>1, <2>3, <2>5 DEF SInv, CopiesKnown, CopyKnown
  <2>7. JobsKnown'
    <3> SUFFICES ASSUME NEW q \in Proc, job'[q] # None PROVE JobKnown(q)'
      BY DEF JobsKnown
    <3>1. CASE q = p
      BY <1>1, <1>2, <2>1, <2>2, <2>3, <3>1, AsideUnchanged DEF JobKnown
    <3>2. CASE q # p
      BY <1>1, <2>1, <2>3, <3>2, AsideUnchanged DEF SInv, JobsKnown, JobKnown
    <3> QED
      BY <3>1, <3>2
  <2>8. FilesKnown'
    BY <1>1, <2>1, AsideUnchanged DEF SInv, FilesKnown, RestorePoint, OneStateUnlessAmid
  <2> QED
    BY <2>4, <2>6, <2>7, <2>8 DEF SInv
<1>5. CASE ~(k < Pages)
  <2> DEFINE done == Finished(job[p])
             rest == files \ {Torn(job[p].stamp)}
  <2>1. /\ files' = Pruned(rest \cup {done})
        /\ ever' = TRUE
        /\ late' = (late \/ ~Holds(p))
        /\ job' = [job EXCEPT ![p] = None]
    BY <1>5 DEF SnapCompare
  <2>2. /\ done \in File /\ done.stamp = job[p].stamp /\ done.whole = TRUE
        /\ done.pure \/ done.amid
    <3>1. (\A pg, pg2 \in Page : job[p].copied[pg] = job[p].copied[pg2]) \in BOOLEAN
      BY Zenon
    <3>2. ~job[p].amid => \A pg, pg2 \in Page : job[p].copied[pg] = job[p].copied[pg2]
      <4>1. \A pg \in Page : pg < k + 1
        BY <1>2, <1>5, PageSteps
      <4> QED
        BY <1>3, <4>1
    <3>3. job[p].amid \in BOOLEAN
      BY <1>2 DEF Job
    <3> QED
      BY <1>2, <3>1, <3>2, <3>3 DEF Finished, File
  <2> HIDE DEF done, rest
  <2>3. job' \in [Proc -> Job \cup {None}] /\ CopiesKnown' /\ JobsKnown'
    <3>1. ~late' => ~late
      BY <2>1
    <3> QED
      BY <1>1, <2>1, <3>1, JobOver
  <2>4. files' \subseteq files \cup {done}
    BY <2>1 DEF Pruned, rest
  <2>5. SnapTyped' /\ FoldKnown'
    <3>1. late' \in BOOLEAN
      BY <2>1, Zenon
    <3> QED
      BY <1>1, <2>1, <2>2, <2>3, <2>4, <3>1 DEF SInv, SnapTyped, FoldKnown
  <2>6. FilesKnown'
    <3>1. \A f \in files \cup {done} : f.stamp \in Nat /\ f.stamp <= made
      BY <1>2, <2>2 DEF SInv, SnapTyped, FilesKnown, File, Stamp, JobKnown
    <3>2. RestorePoint'
      <4> SUFFICES ASSUME forces = 0, ~late' PROVE \E f \in files' : f.whole
        BY <1>1, AsideUnchanged DEF RestorePoint
      <4>1. Holds(p) /\ ~late
        BY <2>1
      <4>2. done.stamp = made
        BY <1>1, <1>2, <2>2, <4>1 DEF JobKnown
      <4>3. \A g \in rest \cup {done} : ~(g.stamp > done.stamp)
        BY <3>1, <4>2 DEF rest
      <4>4. done \in files'
        BY <2>1, <4>3, NewestKept
      <4> QED
        BY <2>2, <4>4
    <3>3. OneStateUnlessAmid'
      BY <2>2, <2>4 DEF SInv, FilesKnown, OneStateUnlessAmid
    <3> QED
      BY <1>1, <2>4, <3>1, <3>2, <3>3 DEF FilesKnown
  <2> QED
    BY <2>3, <2>5, <2>6 DEF SInv
<1> QED
  BY <1>4, <1>5

LEMMA SnapFailsStep == ASSUME SInv, NEW p \in Proc, SnapFails(p) PROVE SInv'
<1>1. /\ job[p] # None
      /\ files' = files \ {Torn(job[p].stamp)}
      /\ fold' = IF job[p].step = "fold" THEN [fold EXCEPT !.by = None] ELSE fold
      /\ job' = [job EXCEPT ![p] = None]
      /\ UNCHANGED <<vars, commits, main, made, ever, late>>
  BY DEF SnapFails
<1>2. /\ fold' \in Fold \cup {None} /\ FoldKnown'
      /\ fold' = fold \/ \A q \in Proc \ {p} : job[q] # None => job[q].step # "fold"
  <2>1. CASE job[p].step = "fold"
    <3>1. fold # None /\ fold.by = p /\ fold \in Fold
      BY <1>1, <2>1 DEF SInv, SnapTyped, JobsKnown, JobKnown
    <3>2. /\ fold' \in Fold /\ fold'.by = None /\ fold'.to = fold.to /\ fold'.next = fold.next
      BY <1>1, <2>1, <3>1 DEF Fold
    <3>3. fold' # None
      BY <3>2, SnapshotAssumption
    <3>4. FoldKnown'
      BY <1>1, <3>1, <3>2, <3>3 DEF SInv, FoldKnown
    <3>5. \A q \in Proc \ {p} : job[q] # None => job[q].step # "fold"
      BY <3>1 DEF SInv, JobsKnown, JobKnown
    <3> QED
      BY <3>2, <3>4, <3>5
  <2>2. CASE job[p].step # "fold"
    BY <1>1, <2>2 DEF SInv, SnapTyped, FoldKnown
  <2> QED
    BY <2>1, <2>2
<1>3. job' \in [Proc -> Job \cup {None}] /\ CopiesKnown' /\ JobsKnown'
  BY <1>1, <1>2, JobOver
<1>4. SnapTyped'
  BY <1>1, <1>2, <1>3 DEF SInv, SnapTyped
<1>5. FilesKnown'
  <2>1. ~Torn(job[p].stamp).whole
    BY DEF Torn
  <2> QED
    BY <1>1, <2>1, AsideUnchanged DEF SInv, FilesKnown, RestorePoint, OneStateUnlessAmid
<1> QED
  BY <1>2, <1>3, <1>4, <1>5 DEF SInv

LEMMA SInvKept == ASSUME LInv, SInv, [SnapNext]_allVars PROVE SInv'
<1>1. CASE SnapNext
  BY <1>1, MeanwhileStep, CommitStep, FoldBeginStep, FoldPageStep, SnapBeginStep, SnapCreateStep,
     SnapCopyStep, SnapCompareStep, SnapFailsStep DEF SnapNext
<1>2. CASE UNCHANGED allVars
  <2>1. UNCHANGED <<vars, commits, main, fold, made, files, job, ever, late>>
    BY <1>2 DEF allVars, snapVars
  <2>2. SnapTyped' /\ FoldKnown' /\ CopiesKnown'
    BY <2>1 DEF SInv, SnapTyped, FoldKnown, CopiesKnown, CopyKnown
  <2>3. JobsKnown' /\ FilesKnown'
    BY <2>1, AsideUnchanged DEF SInv, JobsKnown, JobKnown, FilesKnown, RestorePoint, OneStateUnlessAmid
  <2> QED
    BY <2>2, <2>3 DEF SInv
<1> QED
  BY <1>1, <1>2

(* With one PAIM on each Mac at a time, nobody forcing the library open, and no
   snapshot begun or finished by a process that has given the lock back: once one
   has been reported as written there is always a finished one.  Forced or late, a
   finished one is a single state of the catalog, unless a checkpoint was begun and
   not finished when its copy was complete.  Both for any number of pages, kept
   snapshots and processes, whatever commits, checkpoints, deaths and pruning go on
   meanwhile (library/snapshot.go: Snapshot, pruneSnapshots; library/migrate.go:
   copyVerify). *)
THEOREM SnapInvCorrect == ASSUME OnePerMac PROVE SnapSpec => []SnapInv
<1>1. SnapInit => SInv
  BY InitSInv
<1>2. LInv /\ SInv /\ [SnapNext]_allVars => SInv'
  BY SInvKept
<1>3. LInv /\ SInv => SnapInv
  BY TypesAre DEF LInv, LockPart, DbPart, WorkPart, SInv, SnapInv, SnapTypeOK, SnapTyped, FilesKnown
<1> QED
  BY <1>1, <1>2, <1>3, SnapLibraryAlways, PTL DEF SnapSpec
==============================================================================
