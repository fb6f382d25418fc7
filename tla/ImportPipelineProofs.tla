------------------------ MODULE ImportPipelineProofs ------------------------
(***************************************************************************)
(* Proofs about ImportPipeline, for every value of its constants: its      *)
(* types and the tally of its failures under any options; and, unless      *)
(* imports by copy are mixed with adoptions that move files (Unmixed),     *)
(* that every row finds a durable file, that no content has two rows, that *)
(* no content is lost and that nothing is left behind.                     *)
(* Under the same condition an import is an implementation of Archive.     *)
(*                                                                         *)
(* RecordedIsDurable is about the catalog alone.  What is inductive also   *)
(* says, step by step, what is known of the file in hand: what it was read *)
(* as, whose name it has, and that no row stands for it yet.               *)
(***************************************************************************)
EXTENDS ImportPipeline, FiniteSetTheorems, TLAPS

------------------------------------------------------------------------------
(* What is known of the session, the failures and the retries. *)

Owed == {f \in Failure : failure[f].status \in {"open", "dismissed"}}

SessionKnown ==
    /\ session.status # "none" => [mode |-> session.mode, reorganize |-> session.reorganize] \in Plan
    /\ Active => session.status # "none"
    /\ \A f \in Failure : failure[f].status # "none" =>
          session.status # "none" /\ failure[f].path \in Place
    /\ \A q \in Request : asked[q] # None => failure[asked[q]].status # "none"

\* Each failure that is open, or was dismissed, is counted, until it is retried.
Tally ==
    /\ IsFiniteSet(Owed)
    /\ ~twice => session.failures >= Cardinality(Owed) + (IF run.pc = "uncounting" THEN 1 ELSE 0)

(* What is known of the run. *)

FilePcs == {"file", "skipping", "failing", "copying", "writing", "copied", "verified",
            "published", "adopting", "placing", "linked", "moved", "recording"}
CopyPcs  == {"copying", "writing", "copied", "verified", "published"}
AdoptPcs == {"adopting", "placing", "linked", "moved"}

Linkable(p) ==
    /\ p \in Path /\ PartnerOf[p] # None
    /\ run.got[p] # None /\ run.got[PartnerOf[p]] # None

RunKnown ==
    /\ ~Active => run = NoRun
    /\ Retrying => failure[run.retry].status # "none"
    /\ run.pc \in {"resolved", "uncounting"} => Retrying
    /\ run.pc \in FilePcs => run.at \in Place
    /\ run.pc \in {"published", "recording", "linked", "moved"} => run.dest \in Place
    /\ \A p \in Place : run.got[p] # None => run.got[p] \in Recorded
    /\ run.pc \in {"linking", "halflinked"} => \A p \in run.todo : Linkable(p)
    /\ run.pc = "halflinked" => Linkable(run.at)
    /\ run.pc \in CopyPcs => session.mode = "copy"
    /\ run.pc \in AdoptPcs => session.mode = "adopt"

(* What is known of the rows. *)

RowsPlaced == \A r \in Recorded : row[r].place \in Place

Moving  == \E o \in Plan : o.mode = "adopt" /\ o.reorganize
Unmixed == Moving => \A o \in Plan : o.mode = "adopt"

\* What a row says of its place: where the file was put there durably, or while
\* the power stays.
Placed(r)    == row[r].place # row[r].origin
Claimed(r)   == Placed(r) \/ outages = 0
Unclaimed(p) == \A r \in Recorded : Claimed(r) => row[r].place # p

SyncedThere == \A p \in synced : file[p] # None

RowsKnown ==
    \A r \in Recorded :
       /\ row[r].source \in Content
       /\ Placed(r) => row[r].place \in synced
       /\ Moving => row[r].full # None
       /\ row[r].full = None => Placed(r)
       /\ Claimed(r) => /\ file[row[r].place] # None
                        /\ QuickOf[file[row[r].place]] = QuickOf[row[r].source]
                        /\ row[r].full # None => file[row[r].place] = row[r].full
       /\ faults = 0 => /\ row[r].full \in {None, row[r].source}
                        /\ Claimed(r) => file[row[r].place] = row[r].source

(* What is known of the file in hand. *)

Like(c) == QuickOf[c] = QuickOf[run.source] /\ (run.full # None => c = run.full)

Undisturbed == faults = 0 /\ ~cancelled

\* Until it is moved, the file is what it was read as.
HandRead ==
    /\ run.pc = "file" => run.source = Cur
    /\ run.pc \in CopyPcs \cup {"adopting", "placing", "linked"} =>
          Cur # None /\ run.source = Cur /\ (run.full # None => run.full = Cur)
    /\ run.pc \in {"placing", "linked", "moved"} => run.full # None

\* The partial is a file and, once verified, like the source.
HandCopied ==
    /\ run.pc \in {"writing", "copied", "verified"} => partial # None
    /\ run.pc = "verified" => Like(partial)
    /\ run.pc \in {"copied", "verified"} /\ faults = 0 => partial = run.source

\* The new name is a slot nobody claims, with the file or its copy.
HandNamed ==
    /\ run.pc \in {"published", "linked", "moved"} => run.dest \in Slot /\ run.dest # run.at
    /\ run.pc \in {"published", "recording", "linked", "moved"} =>
          /\ run.source \in Content
          /\ file[run.dest] # None /\ Like(file[run.dest])
          /\ faults = 0 => file[run.dest] = run.source
          /\ run.dest # run.at => Unclaimed(run.dest)
    /\ run.pc = "linked" => session.reorganize
    /\ run.pc = "recording" =>
          /\ run.dest # run.at => run.dest \in synced /\ run.dest \in Slot
          /\ session.mode = "copy" => run.dest # run.at
          /\ session.mode = "adopt" => run.full # None

\* The file adopted is no row's file, and what is new has no row.
HandNew ==
    /\ run.pc \in {"adopting", "placing", "linked"} /\ (Moving \/ Undisturbed) => Unclaimed(run.at)
    /\ run.pc = "recording" /\ run.dest = run.at /\ Undisturbed => Unclaimed(run.dest)
    /\ run.pc \in CopyPcs \cup AdoptPcs \cup {"recording"} /\ run.match = None /\ Undisturbed =>
          \A r \in Recorded : row[r].source # run.source

\* A copy has its name, and no row yet.
Written == run.pc = "published" \/ (run.pc = "recording" /\ session.mode = "copy")

\* What a failed copy removes is not the last of anything.
Spare ==
    outages = 0 /\ Written =>
       \A p \in Path : \E q \in Place : q # run.dest /\ file[q] = StartFile[p]

\* At the places imported from nothing appears.
PathsKept == \A p \in Path : file[p] \in {StartFile[p], None}

PartialPcs == {"writing", "copied", "verified", "published"}

PartialHeld == partial # None => run.pc \in PartialPcs

(* What no row owns, but the new name of the file in hand. *)

Quiet  == crashes = 0 /\ outages = 0 /\ faults = 0
OnHand == IF Written \/ run.pc = "linked" THEN run.dest ELSE None

Loose(c) == {s \in Slot : file[s] = c /\ s # OnHand /\ \A r \in Recorded : row[r].place # s}
Gone(c)  == {p \in Path : StartFile[p] = c /\ file[p] = None}

Balance ==
    Quiet => /\ ~stray
             /\ \A c \in Content : /\ IsFiniteSet(Loose(c)) /\ IsFiniteSet(Gone(c))
                                   /\ Cardinality(Loose(c)) <= Cardinality(Gone(c))

BasicInv == TypeOK /\ SessionKnown /\ Tally /\ RunKnown /\ RowsPlaced

HandKnown == HandRead /\ HandCopied /\ HandNamed /\ HandNew

DurableInv == SyncedThere /\ RowsKnown /\ HandKnown

KeptInv == OneRowPerContent /\ ContentKept /\ Spare /\ PathsKept /\ PartialHeld /\ Balance

PInv == BasicInv /\ DurableInv /\ KeptInv

------------------------------------------------------------------------------
(* Types. *)

RowSet == [source : Content \cup {None}, place : Place \cup {None},
           origin : Place \cup {None}, full : Content \cup {None},
           original : Row \cup {None}, partner : Row \cup {None}]

RunSet == [pc : Steps, retry : Failure \cup {None},
           call : Request \cup {None}, todo : SUBSET Place,
           at : Place \cup {None}, full : Content \cup {None},
           match : Row \cup {None}, dest : Place \cup {None},
           source : Content \cup {None}, got : [Place -> Row \cup {None}]]

SessionSet == [status : SessionStatus, mode : {"copy", "adopt"},
               reorganize : BOOLEAN, imported : Nat, failures : Int]

FailureSet == [path : Place \cup {None}, status : {"none", "open", "retried", "dismissed"}]

DiskTyped ==
    /\ file \in [Place -> Content \cup {None}]
    /\ synced \subseteq Place
    /\ partial \in Content \cup {None}
    /\ stray \in BOOLEAN

CatalogTyped == row \in [Row -> RowSet] /\ session \in SessionSet /\ failure \in [Failure -> FailureSet]

BoundsTyped ==
    /\ twice \in BOOLEAN
    /\ requests \in 0 .. MaxRequests
    /\ faults \in 0 .. MaxFaults
    /\ crashes \in 0 .. MaxCrashes
    /\ outages \in 0 .. MaxOutages

LEMMA TypesAre ==
    TypeOK <=> /\ phase \in {"up", "down"} /\ DiskTyped /\ CatalogTyped
               /\ cancelled \in BOOLEAN /\ run \in RunSet
               /\ asked \in [Request -> Failure \cup {None}] /\ BoundsTyped
  BY DEF TypeOK, DiskTyped, CatalogTyped, BoundsTyped, RowSet, RunSet, SessionSet, FailureSet

LEMMA TypesAreNext ==
    TypeOK' <=> /\ phase' \in {"up", "down"} /\ DiskTyped' /\ CatalogTyped'
                /\ cancelled' \in BOOLEAN /\ run' \in RunSet
                /\ asked' \in [Request -> Failure \cup {None}] /\ BoundsTyped'
  BY DEF TypeOK, DiskTyped, CatalogTyped, BoundsTyped, RowSet, RunSet, SessionSet, FailureSet

LEMMA NoRunTyped ==
    /\ NoRun \in RunSet /\ NoRun.pc = "idle" /\ NoRun.retry = None /\ NoRun.at = None
    /\ \A p \in Place : NoRun.got[p] = None
  BY DEF NoRun, RunSet, Steps

LEMMA NoRowTyped == NoRow \in RowSet /\ NoRow.source = None
  BY DEF NoRow, RowSet

\* A step of the run to another pc, all else of it kept.
LEMMA GotoIs ==
    ASSUME TypeOK, NEW pc \in Steps, Goto(pc)
    PROVE  /\ run' \in RunSet /\ run'.pc = pc
           /\ run'.retry = run.retry /\ run'.call = run.call /\ run'.todo = run.todo
           /\ run'.at = run.at /\ run'.full = run.full /\ run'.match = run.match
           /\ run'.dest = run.dest /\ run'.source = run.source /\ run'.got = run.got
<1>1. run \in RunSet
  BY TypesAre
<1> QED
  BY <1>1 DEF Goto, RunSet

LEMMA FileDoneIs ==
    ASSUME TypeOK, NEW r \in Row \cup {None}, FileDone(r), run.at \in Place
    PROVE  /\ run' \in RunSet /\ run'.pc = (IF Retrying THEN "resolved" ELSE "next")
           /\ run'.retry = run.retry /\ run'.todo = run.todo
           /\ run'.got[run.at] = r
           /\ \A p \in Place : p # run.at => run'.got[p] = run.got[p]
<1>1. run \in RunSet
  BY TypesAre
<1> QED
  BY ZenonT(60), <1>1 DEF FileDone, RunSet, Steps

LEMMA FaultTyped ==
    ASSUME TypeOK
    PROVE  /\ Fault => BoundsTyped' /\ faults' # 0
           /\ UserRequest => BoundsTyped'
           /\ UNCHANGED bounds => BoundsTyped'
<1>1. BoundsTyped
  BY TypesAre
<1> QED
  BY <1>1, BoundAssumption DEF BoundsTyped, Fault, UserRequest, bounds

LEMMA Charged ==
    ASSUME TypeOK, UNCHANGED bounds \/ Fault
    PROVE  /\ BoundsTyped' /\ UNCHANGED <<twice, requests, crashes, outages>>
           /\ faults' = 0 => faults = 0 /\ UNCHANGED bounds
<1>1. BoundsTyped
  BY TypesAre
<1> QED
  BY <1>1, FaultTyped DEF BoundsTyped, bounds, Fault

------------------------------------------------------------------------------
(* Types, session, failures and run: the common shapes of a step. *)

LEMMA InitBasic == Init => BasicInv
<1> SUFFICES ASSUME Init PROVE BasicInv
  OBVIOUS
<1>1. DiskTyped /\ BoundsTyped
  <2>1. \A p \in Path : StartFile[p] \in Content
    BY FileAssumption
  <2>2. DiskTyped
    BY <2>1 DEF Init, DiskTyped, Place
  <2>3. twice \in BOOLEAN /\ requests = 0 /\ faults = 0 /\ crashes = 0 /\ outages = 0
    BY DEF Init
  <2>4. BoundsTyped
    BY <2>3, BoundAssumption DEF BoundsTyped
  <2> QED
    BY <2>2, <2>4
<1>0. CatalogTyped
  <2>1. NoSession \in SessionSet
    BY DEF NoSession, SessionSet, SessionStatus
  <2>2. NoFailure \in FailureSet
    BY DEF NoFailure, FailureSet
  <2> QED
    BY <2>1, <2>2, NoRowTyped DEF Init, CatalogTyped
<1>2. TypeOK
  BY <1>0, <1>1, NoRunTyped, TypesAre DEF Init
<1>3. SessionKnown
  BY NoRunTyped DEF Init, SessionKnown, NoSession, NoFailure, Active
<1>4. Tally
  <2>1. Owed = {}
    BY DEF Init, Owed, NoFailure
  <2> QED
    BY <2>1, FS_EmptySet, NoRunTyped DEF Init, Tally, NoSession
<1>5. RunKnown /\ RowsPlaced
  BY NoRunTyped
     DEF Init, RunKnown, Active, Retrying, FilePcs, CopyPcs, AdoptPcs, RowsPlaced, Recorded
<1> QED
  BY <1>2, <1>3, <1>4, <1>5 DEF BasicInv

\* A step of the operation leaves failures and the options of the session alone.
LEMMA SessionStep ==
    ASSUME SessionKnown, Active, UNCHANGED <<failure, asked>>, session'.status # "none",
           session'.mode = session.mode, session'.reorganize = session.reorganize
    PROVE  SessionKnown'
  BY DEF SessionKnown

LEMMA TallySame ==
    ASSUME TypeOK, TypeOK', Tally, UNCHANGED <<failure, twice>>,
           session'.failures >= session.failures, run'.pc # "uncounting"
    PROVE  Tally'
<1>1. Owed' = Owed
  BY DEF Owed
<1>2. session.failures \in Int /\ session'.failures \in Int
  BY TypesAre, TypesAreNext DEF CatalogTyped, SessionSet
<1>3. IsFiniteSet(Owed) => Cardinality(Owed) \in Nat
  BY FS_CardinalityType
<1> QED
  BY <1>1, <1>2, <1>3 DEF Tally

\* The file in hand goes on.
LEMMA FileStep ==
    ASSUME BasicInv, run.pc \in FilePcs, run' \in RunSet, run'.pc \in FilePcs,
           run'.at = run.at, run'.got = run.got, run'.retry = run.retry,
           DiskTyped', row' \in [Row -> RowSet], RowsPlaced', Recorded \subseteq Recorded',
           UNCHANGED bounds \/ Fault, UNCHANGED <<phase, session, failure, cancelled, asked>>,
           run'.pc \in {"published", "recording", "linked", "moved"} => run'.dest \in Place,
           run'.pc \in CopyPcs => session.mode = "copy",
           run'.pc \in AdoptPcs => session.mode = "adopt"
    PROVE  BasicInv'
<1>1. BoundsTyped' /\ twice' = twice
  BY Charged DEF BasicInv
<1>2. TypeOK'
  BY <1>1, TypesAre, TypesAreNext DEF BasicInv, CatalogTyped
<1>3. Active /\ Active' /\ session.status # "none" /\ session.failures \in Int
  BY TypesAre DEF BasicInv, FilePcs, Active, SessionKnown, CatalogTyped, SessionSet
<1>4. SessionKnown'
  BY <1>3, SessionStep DEF BasicInv
<1>5. Tally'
  BY <1>1, <1>2, <1>3, TallySame DEF BasicInv, FilePcs
<1>6. RunKnown'
  BY <1>3 DEF BasicInv, RunKnown, FilePcs, Retrying, Active
<1> QED
  BY <1>2, <1>4, <1>5, <1>6 DEF BasicInv

\* The file in hand is dealt with.
LEMMA FileEnds ==
    ASSUME BasicInv, run.pc \in FilePcs, NEW r \in Row \cup {None}, FileDone(r),
           r # None => r \in Recorded',
           DiskTyped', row' \in [Row -> RowSet], RowsPlaced', Recorded \subseteq Recorded',
           UNCHANGED bounds \/ Fault, UNCHANGED <<phase, failure, cancelled, asked>>,
           session' \in SessionSet, session'.status = session.status, session'.mode = session.mode,
           session'.reorganize = session.reorganize, session'.failures = session.failures
    PROVE  BasicInv'
<1>1. BoundsTyped' /\ twice' = twice
  BY Charged DEF BasicInv
<1>2. run.at \in Place
  BY DEF BasicInv, RunKnown
<1>3. /\ run' \in RunSet /\ run'.pc = (IF Retrying THEN "resolved" ELSE "next")
      /\ run'.retry = run.retry
      /\ \A p \in Place : run'.got[p] \in {r, run.got[p]}
  BY <1>2, FileDoneIs DEF BasicInv
<1>4. TypeOK'
  BY <1>1, <1>3, TypesAre, TypesAreNext DEF BasicInv, CatalogTyped
<1>5. Active /\ Active' /\ session.status # "none" /\ session.failures \in Int
  BY <1>3, TypesAre DEF BasicInv, FilePcs, Active, SessionKnown, CatalogTyped, SessionSet
<1>6. SessionKnown'
  BY <1>5, SessionStep DEF BasicInv
<1>7. Tally'
  BY <1>1, <1>3, <1>4, <1>5, TallySame DEF BasicInv
<1>8. RunKnown'
  BY <1>3, <1>5 DEF BasicInv, RunKnown, FilePcs, CopyPcs, AdoptPcs, Retrying, Active
<1> QED
  BY <1>4, <1>6, <1>7, <1>8 DEF BasicInv

\* The import is between files, or past them.
OpenPcs == {"preparing", "scanning", "next", "linking", "halflinked", "aborting"}

LEMMA LoopStep ==
    ASSUME BasicInv, Active, run' \in RunSet,
           run'.pc \in OpenPcs \/ (run'.pc = "file" /\ run'.at \in Place),
           run'.retry = run.retry,
           \A p \in Place : run'.got[p] # None => run'.got[p] \in Recorded',
           run'.pc \in {"linking", "halflinked"} => \A p \in run'.todo : Linkable(p)',
           run'.pc = "halflinked" => Linkable(run.at)',
           DiskTyped', row' \in [Row -> RowSet], RowsPlaced', Recorded \subseteq Recorded',
           UNCHANGED bounds \/ Fault, UNCHANGED <<phase, failure, cancelled, asked>>,
           session' \in SessionSet, session'.status # "none", session'.mode = session.mode,
           session'.reorganize = session.reorganize, session'.failures = session.failures
    PROVE  BasicInv'
<1>1. BoundsTyped' /\ twice' = twice
  BY Charged DEF BasicInv
<1>2. TypeOK'
  BY <1>1, TypesAre, TypesAreNext DEF BasicInv, CatalogTyped
<1>3. session.failures \in Int
  BY TypesAre DEF BasicInv, CatalogTyped, SessionSet
<1>4. SessionKnown'
  BY SessionStep DEF BasicInv
<1>5. Tally'
  BY <1>1, <1>2, <1>3, TallySame DEF BasicInv, OpenPcs
<1>6. RunKnown'
  BY DEF BasicInv, RunKnown, OpenPcs, FilePcs, CopyPcs, AdoptPcs, Retrying, Active
<1> QED
  BY <1>2, <1>4, <1>5, <1>6 DEF BasicInv

\* The operation ends.
LEMMA RunEnds ==
    ASSUME BasicInv, Active, run' = NoRun, DiskTyped', UNCHANGED row,
           UNCHANGED bounds \/ Fault, UNCHANGED <<phase, failure, cancelled, asked>>,
           session' \in SessionSet, session'.status # "none", session'.mode = session.mode,
           session'.reorganize = session.reorganize,
           session'.failures >= session.failures - (IF run.pc = "uncounting" THEN 1 ELSE 0)
    PROVE  BasicInv'
<1>1. BoundsTyped' /\ twice' = twice
  BY Charged DEF BasicInv
<1>2. TypeOK'
  BY <1>1, NoRunTyped, TypesAre, TypesAreNext DEF BasicInv, CatalogTyped
<1>3. session.failures \in Int /\ session'.failures \in Int
  BY TypesAre DEF BasicInv, CatalogTyped, SessionSet
<1>4. SessionKnown'
  BY SessionStep DEF BasicInv
<1>5. Tally'
  <2>1. Owed' = Owed
    BY DEF Owed
  <2>2. IsFiniteSet(Owed) => Cardinality(Owed) \in Nat
    BY FS_CardinalityType
  <2> QED
    BY <1>1, <1>3, <2>1, <2>2, NoRunTyped DEF BasicInv, Tally
<1>6. RunKnown'
  BY NoRunTyped DEF RunKnown, FilePcs, CopyPcs, AdoptPcs, Retrying, Active
<1>7. RowsPlaced'
  BY DEF BasicInv, RowsPlaced, Recorded
<1> QED
  BY <1>2, <1>4, <1>5, <1>6, <1>7 DEF BasicInv

------------------------------------------------------------------------------
(* Types, session, failures and run: every step of the operation. *)

LEMMA Known ==
    ASSUME BasicInv
    PROVE  /\ TypeOK /\ DiskTyped /\ row \in [Row -> RowSet] /\ session \in SessionSet
           /\ failure \in [Failure -> FailureSet] /\ run \in RunSet
           /\ run.pc \in FilePcs => run.at \in Place /\ Active
           /\ Active => session.status # "none"
           /\ session.failures \in Int
<1>1. TypeOK
  BY DEF BasicInv
<1>2. DiskTyped /\ CatalogTyped /\ run \in RunSet
  BY <1>1, TypesAre
<1>3. session.failures \in Int
  BY <1>2 DEF CatalogTyped, SessionSet
<1> QED
  BY <1>1, <1>2, <1>3 DEF CatalogTyped, BasicInv, RunKnown, SessionKnown, FilePcs, Active

LEMMA RowsSame ==
    ASSUME BasicInv, UNCHANGED row
    PROVE  row' \in [Row -> RowSet] /\ RowsPlaced' /\ Recorded' = Recorded
  BY Known DEF Recorded, RowsPlaced, BasicInv

LEMMA Created ==
    ASSUME BasicInv, NEW p \in Place, NEW c \in Content \cup {None}, UNCHANGED stray,
           partial' \in Content \cup {None}, Create(p, c)
    PROVE  DiskTyped' /\ file'[p] = c /\ \A q \in Place : q # p => file'[q] = file[q]
  BY Known DEF DiskTyped, Create

LEMMA Removed ==
    ASSUME BasicInv, NEW p \in Place, UNCHANGED stray, partial' \in Content \cup {None}, Remove(p)
    PROVE  DiskTyped' /\ file'[p] = None /\ \A q \in Place : q # p => file'[q] = file[q]
  BY Known DEF DiskTyped, Remove

\* The file in hand goes to another of its steps, on a disk of files.
LEMMA GotoFile ==
    ASSUME BasicInv, run.pc \in FilePcs, NEW pc \in FilePcs, Goto(pc), DiskTyped',
           UNCHANGED <<row, phase, session, failure, cancelled, asked>>,
           UNCHANGED bounds \/ Fault,
           pc \in {"published", "recording", "linked", "moved"} => run.dest \in Place,
           pc \in CopyPcs => session.mode = "copy",
           pc \in AdoptPcs => session.mode = "adopt"
    PROVE  BasicInv'
<1>1. pc \in Steps
  BY DEF FilePcs, Steps
<1> QED
  BY <1>1, GotoIs, Known, RowsSame, FileStep

LEMMA PrepareBasic == ASSUME BasicInv, Prepare PROVE BasicInv'
<1>1. /\ UNCHANGED <<phase, row, failure, cancelled, asked>> /\ Active
      /\ RowsPlaced' /\ row' \in [Row -> RowSet] /\ Recorded' = Recorded
  BY RowsSame DEF Prepare, Active
<1>2. DiskTyped'
  BY Known DEF Prepare, DiskTyped
<1>3. CASE Goto("scanning") /\ UNCHANGED bounds /\ session' = [session EXCEPT !.status = "running"]
  <2>1. /\ session' \in SessionSet /\ session'.status = "running" /\ session'.mode = session.mode
        /\ session'.reorganize = session.reorganize /\ session'.failures = session.failures
    BY <1>3, Known DEF SessionSet, SessionStatus
  <2>2. run' \in RunSet /\ run'.pc = "scanning" /\ run'.retry = run.retry /\ run'.got = run.got
    BY <1>3, Known, GotoIs DEF Steps
  <2>3. \A p \in Place : run'.got[p] # None => run'.got[p] \in Recorded'
    BY <1>1, <2>2 DEF BasicInv, RunKnown
  <2> QED
    BY <1>1, <1>2, <1>3, <2>1, <2>2, <2>3, LoopStep DEF OpenPcs
<1>4. CASE run' = NoRun /\ UNCHANGED session /\ (UNCHANGED bounds \/ Fault)
  BY <1>1, <1>2, <1>4, Known, RunEnds
<1> QED
  BY <1>3, <1>4 DEF Prepare

LEMMA ScanBasic == ASSUME BasicInv, Scan PROVE BasicInv'
<1>1. /\ UNCHANGED <<phase, row, failure, cancelled, asked>> /\ Active
      /\ RowsPlaced' /\ row' \in [Row -> RowSet] /\ Recorded' = Recorded /\ DiskTyped'
  BY RowsSame, Known DEF Scan, Active, disk, DiskTyped
<1>2. CASE /\ run' = [run EXCEPT !.pc = "next", !.todo = Scanned]
           /\ UNCHANGED <<session, bounds>>
  <2>1. Scanned \subseteq Place
    BY DEF Scanned, Place
  <2>2. run' \in RunSet /\ run'.pc = "next" /\ run'.retry = run.retry /\ run'.got = run.got
    BY <1>2, <2>1, Known DEF RunSet, Steps
  <2>3. \A p \in Place : run'.got[p] # None => run'.got[p] \in Recorded'
    BY <1>1, <2>2 DEF BasicInv, RunKnown
  <2> QED
    BY <1>1, <1>2, <2>2, <2>3, Known, LoopStep DEF OpenPcs
<1>3. CASE /\ run' = NoRun /\ session' = [session EXCEPT !.status = "interrupted"]
           /\ UNCHANGED bounds \/ Fault
  <2>1. /\ session' \in SessionSet /\ session'.status # "none" /\ session'.mode = session.mode
        /\ session'.reorganize = session.reorganize /\ session'.failures = session.failures
    BY <1>3, Known DEF SessionSet, SessionStatus
  <2> QED
    BY <1>1, <1>3, <2>1, Known, RunEnds
<1> QED
  BY <1>2, <1>3 DEF Scan

LEMMA NextFileBasic == ASSUME BasicInv, NEW p \in Place, NextFile(p) PROVE BasicInv'
<1>1. /\ UNCHANGED <<phase, row, session, failure, cancelled, asked, bounds>> /\ Active
      /\ RowsPlaced' /\ row' \in [Row -> RowSet] /\ Recorded' = Recorded /\ DiskTyped'
  BY RowsSame, Known DEF NextFile, Active, disk, catalog, DiskTyped
<1>2. run' = [run EXCEPT !.pc = "file", !.at = p, !.source = file[p], !.todo = @ \ {p}]
  BY DEF NextFile
<1>3. /\ run' \in RunSet /\ run'.pc = "file" /\ run'.retry = run.retry /\ run'.got = run.got
      /\ run'.at \in Place
  BY <1>2, Known DEF RunSet, Steps, DiskTyped
<1>4. \A q \in Place : run'.got[q] # None => run'.got[q] \in Recorded'
  BY <1>1, <1>3 DEF BasicInv, RunKnown
<1> QED
  BY <1>1, <1>3, <1>4, Known, LoopStep

LEMMA FinishBasic ==
    ASSUME BasicInv, Active, run.pc # "uncounting", NEW st \in SessionStatus \ {"none"}, Finish(st)
    PROVE  BasicInv'
<1>1. UNCHANGED <<phase, row, failure, cancelled, asked>> /\ DiskTyped' /\ run' = NoRun
  BY Known DEF Finish, disk, DiskTyped
<1>2. UNCHANGED bounds \/ Fault
  BY DEF Finish
<1>3. /\ session' \in SessionSet /\ session'.status # "none" /\ session'.mode = session.mode
      /\ session'.reorganize = session.reorganize /\ session'.failures = session.failures
  BY Known DEF Finish, SessionSet
<1> QED
  BY <1>1, <1>2, <1>3, Known, RunEnds

LEMMA LoopEndsBasic == ASSUME BasicInv, LoopEnds PROVE BasicInv'
<1>1. /\ UNCHANGED <<phase, row, session, failure, cancelled, asked, bounds>> /\ Active
      /\ RowsPlaced' /\ row' \in [Row -> RowSet] /\ Recorded' = Recorded /\ DiskTyped'
  BY RowsSame, Known DEF LoopEnds, Active, disk, catalog, DiskTyped
<1>2. run' = [run EXCEPT !.pc = "linking", !.todo = ToLink]
  BY DEF LoopEnds
<1>3. ToLink \subseteq Place /\ \A p \in ToLink : Linkable(p)
  BY DEF ToLink, Place, Linkable
<1>4. /\ run' \in RunSet /\ run'.pc = "linking" /\ run'.retry = run.retry /\ run'.got = run.got
      /\ run'.todo = ToLink
  BY <1>2, <1>3, Known DEF RunSet, Steps
<1>5. \A q \in Place : run'.got[q] # None => run'.got[q] \in Recorded'
  BY <1>1, <1>4 DEF BasicInv, RunKnown
<1>6. \A p \in run'.todo : Linkable(p)'
  BY <1>3, <1>4 DEF Linkable
<1> QED
  BY <1>1, <1>4, <1>5, <1>6, Known, LoopStep DEF OpenPcs

\* The partner of a row is set.
LEMMA PartnerSet ==
    ASSUME BasicInv, NEW r \in Recorded, NEW s \in Row \cup {None}, row' = [row EXCEPT ![r].partner = s]
    PROVE  /\ row' \in [Row -> RowSet] /\ RowsPlaced' /\ Recorded' = Recorded
           /\ \A q \in Row : /\ row'[q].source = row[q].source /\ row'[q].place = row[q].place
                             /\ row'[q].origin = row[q].origin /\ row'[q].full = row[q].full
                             /\ row'[q].original = row[q].original
<1>1. row \in [Row -> RowSet] /\ r \in Row
  BY Known DEF Recorded
<1>2. /\ row' \in [Row -> RowSet]
      /\ \A q \in Row : /\ row'[q].source = row[q].source /\ row'[q].place = row[q].place
                        /\ row'[q].origin = row[q].origin /\ row'[q].full = row[q].full
                        /\ row'[q].original = row[q].original
                        /\ q # r => row'[q] = row[q]
  BY <1>1 DEF RowSet
<1>3. row[r].place \in Place /\ NoRow.place = None
  BY DEF BasicInv, RowsPlaced, NoRow
<1>4. Recorded' = Recorded
  BY <1>1, <1>2, <1>3, NoneAssumption DEF Recorded
<1> QED
  BY <1>2, <1>4 DEF BasicInv, RowsPlaced

LEMMA Linked ==
    ASSUME BasicInv, NEW p, Linkable(p)
    PROVE  /\ p \in Place /\ PartnerOf[p] \in Path /\ PartnerOf[p] \in Place
           /\ run.got[p] \in Recorded /\ run.got[PartnerOf[p]] \in Recorded
  BY FileAssumption DEF BasicInv, RunKnown, Linkable, Place

LEMMA LinkOneBasic == ASSUME BasicInv, NEW p \in Path, LinkOne(p) PROVE BasicInv'
<1>1. UNCHANGED <<phase, session, failure, cancelled, asked>> /\ Active /\ DiskTyped'
  BY Known DEF LinkOne, Active, disk, DiskTyped
<1>2. Linkable(p) /\ run.pc = "linking" /\ \A q \in run.todo : Linkable(q)
  BY DEF LinkOne, BasicInv, RunKnown
<1>3. PICK r \in Recorded, s \in Recorded : r = run.got[p] /\ s = run.got[PartnerOf[p]]
  BY <1>2, Linked
<1>4. row' = [row EXCEPT ![r].partner = s] \/ UNCHANGED row
  BY <1>3 DEF LinkOne
<1>5. row' \in [Row -> RowSet] /\ RowsPlaced' /\ Recorded' = Recorded
  <2>1. s \in Row \cup {None}
    BY DEF Recorded
  <2> QED
    BY <1>4, <2>1, PartnerSet, RowsSame
<1>6. \/ run' = [run EXCEPT !.pc = "halflinked", !.at = p, !.todo = @ \ {p}]
      \/ run' = [run EXCEPT !.todo = @ \ {p}]
  BY DEF LinkOne
<1>7. /\ run' \in RunSet /\ run'.pc \in {"linking", "halflinked"} /\ run'.retry = run.retry
      /\ run'.got = run.got /\ run'.todo \subseteq run.todo
      /\ run'.pc = "halflinked" => run'.at = p
  <2>1. p \in Place /\ run \in RunSet
    BY <1>2, Linked, Known
  <2>2. CASE run' = [run EXCEPT !.pc = "halflinked", !.at = p, !.todo = @ \ {p}]
    BY <2>1, <2>2 DEF RunSet, Steps
  <2>3. CASE run' = [run EXCEPT !.todo = @ \ {p}]
    BY <1>2, <2>1, <2>3 DEF RunSet
  <2> QED
    BY <1>6, <2>2, <2>3
<1>8. (\A q \in run'.todo : Linkable(q)') /\ (run'.pc = "halflinked" => Linkable(run.at)')
  BY <1>2, <1>7 DEF Linkable
<1>9. \A q \in Place : run'.got[q] # None => run'.got[q] \in Recorded'
  BY <1>5, <1>7 DEF BasicInv, RunKnown
<1>10. UNCHANGED bounds \/ Fault
  BY DEF LinkOne
<1> QED
  BY <1>1, <1>5, <1>7, <1>8, <1>9, <1>10, Known, LoopStep DEF OpenPcs

LEMMA LinkOtherBasic == ASSUME BasicInv, LinkOther PROVE BasicInv'
<1>1. UNCHANGED <<phase, session, failure, cancelled, asked>> /\ Active /\ DiskTyped'
  BY Known DEF LinkOther, Active, disk, DiskTyped
<1>2. Linkable(run.at) /\ run.pc = "halflinked" /\ \A q \in run.todo : Linkable(q)
  BY DEF LinkOther, BasicInv, RunKnown
<1>3. PICK r \in Recorded, s \in Recorded : r = run.got[PartnerOf[run.at]] /\ s = run.got[run.at]
  BY <1>2, Linked
<1>4. row' = [row EXCEPT ![r].partner = s] \/ UNCHANGED row
  BY <1>3 DEF LinkOther
<1>5. row' \in [Row -> RowSet] /\ RowsPlaced' /\ Recorded' = Recorded
  <2>1. s \in Row \cup {None}
    BY DEF Recorded
  <2> QED
    BY <1>4, <2>1, PartnerSet, RowsSame
<1>6. \/ run' = [run EXCEPT !.pc = "linking", !.at = None, !.todo = @ \ {PartnerOf[run.at]}]
      \/ run' = [run EXCEPT !.pc = "linking", !.at = None]
  BY DEF LinkOther
<1>7. /\ run' \in RunSet /\ run'.pc = "linking" /\ run'.retry = run.retry
      /\ run'.got = run.got /\ run'.todo \subseteq run.todo
  BY ZenonT(60), <1>2, <1>6, Known DEF RunSet, Steps
<1>8. \A q \in run'.todo : Linkable(q)'
  BY <1>2, <1>7 DEF Linkable
<1>9. \A q \in Place : run'.got[q] # None => run'.got[q] \in Recorded'
  BY <1>5, <1>7 DEF BasicInv, RunKnown
<1>10. UNCHANGED bounds \/ Fault
  BY DEF LinkOther
<1> QED
  BY <1>1, <1>5, <1>7, <1>8, <1>9, <1>10, Known, LoopStep DEF OpenPcs


\* Comparing fills in full hashes; of the operation only the hash and the match change.
LEMMA ComparedIs ==
    ASSUME BasicInv, run.pc = "file", Cur # None,
           NEW looked \in SUBSET Candidates, NEW unread \in SUBSET looked, Compared(looked, unread)
    PROVE  /\ row' \in [Row -> RowSet] /\ RowsPlaced' /\ Recorded' = Recorded
           /\ run' \in RunSet /\ run'.retry = run.retry /\ run'.at = run.at /\ run'.got = run.got
           /\ run'.dest = run.dest /\ run'.source = run.source /\ run'.todo = run.todo
           /\ \/ run'.pc = "skipping"
              \/ /\ run'.pc = (IF session.mode = "copy" THEN "copying" ELSE "adopting")
                 /\ run'.full = Cur /\ looked = Candidates
                 /\ \A r \in looked \ unread : FullOf(r) = Cur => ~SamePath(r) /\ run'.match # None
           /\ \A r \in Row : /\ row'[r].source = row[r].source /\ row'[r].place = row[r].place
                             /\ row'[r].origin = row[r].origin /\ row'[r].original = row[r].original
                             /\ row'[r].full \in {row[r].full, FullOf(r)}
<1> DEFINE equal == {r \in looked \ unread : FullOf(r) = Cur}
<1>1. row \in [Row -> RowSet] /\ run \in RunSet /\ DiskTyped /\ looked \subseteq Recorded
  BY Known DEF Candidates
<1>2. \A r \in Recorded : r \in Row /\ row[r].place \in Place
  BY DEF BasicInv, RowsPlaced, Recorded
<1>3. \A r \in Recorded : FullOf(r) \in Content \cup {None}
  BY <1>1, <1>2 DEF DiskTyped, FullOf, RowSet
<1>4. row' = [r \in Row |-> IF r \in looked \ unread
                            THEN [row[r] EXCEPT !.full = FullOf(r)] ELSE row[r]]
  BY DEF Compared
<1>5. /\ row' \in [Row -> RowSet]
      /\ \A r \in Row : /\ row'[r].source = row[r].source /\ row'[r].place = row[r].place
                        /\ row'[r].origin = row[r].origin /\ row'[r].original = row[r].original
                        /\ row'[r].full \in {row[r].full, FullOf(r)}
                        /\ r \notin Recorded => row'[r] = row[r]
  <2> SUFFICES ASSUME NEW r \in Row
               PROVE  /\ row'[r] \in RowSet
                      /\ row'[r].source = row[r].source /\ row'[r].place = row[r].place
                      /\ row'[r].origin = row[r].origin /\ row'[r].original = row[r].original
                      /\ row'[r].full \in {row[r].full, FullOf(r)}
                      /\ r \notin Recorded => row'[r] = row[r]
    BY <1>4
  <2>1. row[r] \in RowSet
    BY <1>1
  <2>2. CASE r \in looked \ unread
    <3>1. row'[r] = [row[r] EXCEPT !.full = FullOf(r)] /\ r \in Recorded
      BY <1>1, <1>4, <2>2
    <3> QED
      BY <1>3, <2>1, <3>1 DEF RowSet
  <2>3. CASE r \notin looked \ unread
    <3>1. row'[r] = row[r]
      BY <1>4, <2>3
    <3> QED
      BY <2>1, <3>1
  <2> QED
    BY <2>2, <2>3
<1>6. Recorded' = Recorded
  BY <1>2, <1>5, NoneAssumption DEF Recorded, NoRow
<1>7. RowsPlaced'
  BY <1>2, <1>5, <1>6 DEF RowsPlaced
<1>8. Cur \in Content /\ \A r \in equal : r \in Row
  BY <1>1, <1>2, Known DEF DiskTyped, FilePcs, Cur
<1>9. /\ run' \in RunSet /\ run'.retry = run.retry /\ run'.at = run.at /\ run'.got = run.got
      /\ run'.dest = run.dest /\ run'.source = run.source /\ run'.todo = run.todo
      /\ \/ run'.pc = "skipping"
         \/ /\ run'.pc = (IF session.mode = "copy" THEN "copying" ELSE "adopting")
            /\ run'.full = Cur /\ looked = Candidates
            /\ \A r \in looked \ unread : FullOf(r) = Cur => ~SamePath(r) /\ run'.match # None
  <2>0. {r \in equal : SamePath(r)} = {} => looked = Candidates
    <3> DEFINE here == {r \in equal : SamePath(r)}
    <3>1. (looked = Candidates /\ here = {}) \/ Cardinality(here) = 1
      BY DEF Compared
    <3>2. here = {} => Cardinality(here) = 0
      BY FS_EmptySet
    <3> HIDE DEF here
    <3>3. here = {} => looked = Candidates
      BY <3>1, <3>2
    <3> QED
      BY <3>3 DEF here
  <2>1. CASE Goto("skipping")
    BY <2>1, Known, GotoIs DEF Steps
  <2>2. CASE /\ equal # {} /\ {r \in equal : SamePath(r)} = {} /\ session.mode = "adopt"
             /\ run' = [run EXCEPT !.pc = "adopting", !.full = Cur, !.match = CHOOSE r \in equal : TRUE]
    <3>1. PICK m \in Row : m = CHOOSE r \in equal : TRUE
      <4>1. (CHOOSE r \in equal : TRUE) \in equal
        BY <2>2
      <4> QED
        BY <1>8, <4>1
    <3>2. run' = [run EXCEPT !.pc = "adopting", !.full = Cur, !.match = m]
      BY <2>2, <3>1
    <3>3. looked = Candidates /\ \A r \in looked \ unread : FullOf(r) = Cur => ~SamePath(r)
      BY <2>0, <2>2
    <3>4. m # None
      BY <3>1, NoneAssumption
    <3> HIDE DEF equal
    <3>5. /\ run' \in RunSet /\ run'.pc = "adopting" /\ run'.match = m /\ run'.full = Cur
          /\ run'.retry = run.retry /\ run'.at = run.at /\ run'.got = run.got
          /\ run'.dest = run.dest /\ run'.source = run.source /\ run'.todo = run.todo
      BY <1>1, <1>8, <3>2 DEF RunSet, Steps
    <3> QED
      BY <2>2, <3>3, <3>4, <3>5
  <2>3. CASE /\ equal = {}
             /\ run' = [run EXCEPT !.pc = IF session.mode = "copy" THEN "copying" ELSE "adopting",
                                   !.full = Cur]
    <3>1. PICK pc \in {"copying", "adopting"} : pc = IF session.mode = "copy" THEN "copying" ELSE "adopting"
      OBVIOUS
    <3>2. run' = [run EXCEPT !.pc = pc, !.full = Cur]
      BY <2>3, <3>1
    <3>3. pc \in Steps
      BY DEF Steps
    <3>4. run' \in RunSet /\ run'.pc = pc
      BY <1>1, <1>8, <3>2, <3>3 DEF RunSet
    <3>5. looked = Candidates /\ \A r \in looked \ unread : FullOf(r) # Cur
      BY <2>0, <2>3
    <3> HIDE DEF equal
    <3> QED
      BY <1>1, <3>1, <3>2, <3>4, <3>5 DEF RunSet
  <2> QED
    BY <2>1, <2>2, <2>3 DEF Compared
<1> QED
  BY <1>5, <1>6, <1>7, <1>9

LEMMA ModeKnown == ASSUME BasicInv PROVE session.mode \in {"copy", "adopt"}
  BY Known DEF SessionSet

LEMMA ClassifyKnownBasic == ASSUME BasicInv, ClassifyKnown PROVE BasicInv'
<1>1. UNCHANGED <<phase, session, failure, cancelled, asked>> /\ DiskTyped' /\ run.pc = "file" /\ Cur # None
  BY Known DEF ClassifyKnown, disk, DiskTyped
<1>2. UNCHANGED bounds \/ Fault
  BY DEF ClassifyKnown
<1>3. PICK looked \in SUBSET Candidates :
         \E unread \in SUBSET looked : Compared(looked, unread)
  BY DEF ClassifyKnown
<1>5. PICK unread \in SUBSET looked : Compared(looked, unread)
  BY <1>3
<1>4. /\ row' \in [Row -> RowSet] /\ RowsPlaced' /\ Recorded' = Recorded
      /\ run' \in RunSet /\ run'.retry = run.retry /\ run'.at = run.at /\ run'.got = run.got
      /\ run'.pc \in {"skipping", IF session.mode = "copy" THEN "copying" ELSE "adopting"}
  BY <1>1, <1>5, ComparedIs
<1> QED
  BY <1>1, <1>2, <1>4, ModeKnown, FileStep DEF FilePcs, CopyPcs, AdoptPcs

LEMMA ClassifyNewBasic == ASSUME BasicInv, ClassifyNew PROVE BasicInv'
<1>1. /\ UNCHANGED <<phase, row, session, failure, cancelled, asked, bounds>> /\ DiskTyped'
      /\ run.pc = "file" /\ Cur # None
  BY Known DEF ClassifyNew, disk, catalog, DiskTyped
<1>2. PICK full \in {None, Cur} :
         run' = [run EXCEPT !.pc = IF session.mode = "copy" THEN "copying" ELSE "adopting",
                            !.full = full]
  BY DEF ClassifyNew
<1>3. full \in Content \cup {None}
  BY <1>1, Known DEF DiskTyped, FilePcs, Cur
<1>4. /\ run' \in RunSet /\ run'.retry = run.retry /\ run'.at = run.at /\ run'.got = run.got
      /\ run'.pc = (IF session.mode = "copy" THEN "copying" ELSE "adopting")
  <2>1. PICK pc \in {"copying", "adopting"} : pc = IF session.mode = "copy" THEN "copying" ELSE "adopting"
    OBVIOUS
  <2>2. run' = [run EXCEPT !.pc = pc, !.full = full] /\ pc \in Steps
    BY <1>2, <2>1 DEF Steps
  <2> QED
    BY ZenonT(60), <1>3, <2>1, <2>2, Known DEF RunSet
<1> QED
  BY <1>1, <1>4, RowsSame, ModeKnown, FileStep DEF FilePcs, CopyPcs, AdoptPcs

LEMMA ClassifyFailsBasic == ASSUME BasicInv, ClassifyFails PROVE BasicInv'
<1>1. /\ UNCHANGED <<phase, row, session, failure, cancelled, asked>> /\ DiskTyped'
      /\ run.pc = "file" /\ Goto("failing")
  BY Known DEF ClassifyFails, disk, catalog, DiskTyped
<1>2. UNCHANGED bounds \/ Fault
  BY DEF ClassifyFails
<1> QED
  BY <1>1, <1>2, GotoFile DEF FilePcs, CopyPcs, AdoptPcs

LEMMA SkipBasic == ASSUME BasicInv, Skip PROVE BasicInv'
<1>1. /\ UNCHANGED <<phase, row, session, failure, cancelled, asked, bounds>> /\ DiskTyped'
      /\ run.pc = "skipping" /\ FileDone(None)
  BY Known DEF Skip, disk, catalog, DiskTyped
<1> QED
  BY <1>1, RowsSame, Known, FileEnds DEF FilePcs

LEMMA RecordFailureBasic == ASSUME BasicInv, RecordFailure PROVE BasicInv'
<1>1. /\ UNCHANGED <<phase, row, cancelled, asked>> /\ DiskTyped'
      /\ run.pc = "failing" /\ run.at \in Place /\ Active /\ session.status # "none"
  BY Known DEF RecordFailure, disk, DiskTyped, FilePcs
<1>2. CASE Retrying
  BY <1>1, <1>2, Known, RunEnds DEF RecordFailure
<1>3. CASE ~Retrying
  <2>1. run' = [NoRun EXCEPT !.pc = "next", !.todo = run.todo, !.got = run.got]
    BY <1>3 DEF RecordFailure
  <2>2. /\ run' \in RunSet /\ run'.pc = "next" /\ run'.retry = None /\ run'.got = run.got
    BY ZenonT(60), <2>1, Known, NoRunTyped DEF RunSet, Steps, NoRun
  <2>3. run.retry = None
    BY <1>3 DEF Retrying
  <2>4. /\ row' \in [Row -> RowSet] /\ RowsPlaced' /\ Recorded' = Recorded
        /\ \A q \in Place : run'.got[q] # None => run'.got[q] \in Recorded'
    BY <1>1, <2>2, RowsSame DEF BasicInv, RunKnown
  <2>5. CASE UNCHANGED <<session, failure>> /\ Fault
    BY <1>1, <2>2, <2>3, <2>4, <2>5, Known, LoopStep DEF OpenPcs
  <2>6. CASE session' = [session EXCEPT !.failures = @ + 1]
    <3>1. /\ session' \in SessionSet /\ session'.status = session.status
          /\ session'.mode = session.mode /\ session'.reorganize = session.reorganize
          /\ session'.failures = session.failures + 1
      BY <2>6, Known DEF SessionSet
    <3>2. CASE UNCHANGED failure /\ Fault
      <4>1. BoundsTyped' /\ twice' = twice
        BY <3>2, Charged, Known
      <4>2. TypeOK'
        BY <1>1, <2>2, <2>4, <3>1, <3>2, <4>1, TypesAre, TypesAreNext, Known DEF CatalogTyped
      <4>3. SessionKnown'
        BY <1>1, <3>1, <3>2, SessionStep DEF BasicInv
      <4>4. Tally'
        BY <2>2, <3>1, <3>2, <4>1, <4>2, Known, TallySame DEF BasicInv
      <4>5. RunKnown'
        BY <2>2, <2>4 DEF RunKnown, FilePcs, CopyPcs, AdoptPcs, Retrying, Active
      <4> QED
        BY <2>4, <4>2, <4>3, <4>4, <4>5 DEF BasicInv
    <3>3. CASE /\ \E f \in Failure : /\ failure[f] = NoFailure
                                     /\ failure' = [failure EXCEPT ![f] = [path |-> run.at, status |-> "open"]]
               /\ UNCHANGED bounds
      <4>1. PICK f \in Failure : /\ failure[f] = NoFailure
                                 /\ failure' = [failure EXCEPT ![f] = [path |-> run.at, status |-> "open"]]
        BY <3>3
      <4>2. /\ failure' \in [Failure -> FailureSet]
            /\ failure'[f].status = "open" /\ failure'[f].path = run.at /\ failure[f].status = "none"
            /\ \A g \in Failure : g # f => failure'[g] = failure[g]
        BY <1>1, <4>1, Known DEF FailureSet, NoFailure
      <4>3. BoundsTyped' /\ twice' = twice
        BY <3>3, Charged, Known
      <4>4. TypeOK'
        BY <1>1, <2>2, <2>4, <3>1, <4>2, <4>3, TypesAre, TypesAreNext, Known DEF CatalogTyped
      <4>5. SessionKnown'
        <5>1. [mode |-> session.mode, reorganize |-> session.reorganize] \in Plan
          BY <1>1 DEF BasicInv, SessionKnown
        <5>2. \A g \in Failure : failure'[g].status # "none" => failure'[g].path \in Place
          BY <1>1, <4>2 DEF BasicInv, SessionKnown
        <5>3. \A q \in Request : asked[q] # None => asked[q] \in Failure /\ failure'[asked[q]].status # "none"
          <6>1. \A q \in Request : asked[q] \in Failure \cup {None}
            BY TypesAre DEF BasicInv
          <6> QED
            BY <4>2, <6>1 DEF BasicInv, SessionKnown
        <5> QED
          BY <1>1, <3>1, <5>1, <5>2, <5>3 DEF SessionKnown
      <4>6. Owed' = Owed \cup {f} /\ f \notin Owed
        BY <4>2 DEF Owed
      <4>7. IsFiniteSet(Owed) => /\ IsFiniteSet(Owed') /\ Cardinality(Owed) \in Nat
                                 /\ Cardinality(Owed') = Cardinality(Owed) + 1
        BY <4>6, FS_AddElement, FS_CardinalityType
      <4>8. Tally'
        BY <1>1, <2>2, <3>1, <4>3, <4>7, Known DEF BasicInv, Tally
      <4>9. RunKnown'
        BY <2>2, <2>4 DEF RunKnown, FilePcs, CopyPcs, AdoptPcs, Retrying, Active
      <4> QED
        BY <2>4, <4>4, <4>5, <4>8, <4>9 DEF BasicInv
    <3> QED
      BY <1>3, <2>6, <3>1, <3>2, <3>3, Known DEF RecordFailure
  <2> QED
    BY <1>3, <2>5, <2>6 DEF RecordFailure
<1> QED
  BY <1>2, <1>3

\* The import is ended where it is.
LEMMA GotoAbort ==
    ASSUME BasicInv, run.pc \in CopyPcs, NEW pc \in {AbortOrFail, "failing"}, Goto(pc), DiskTyped',
           UNCHANGED <<row, phase, session, failure, cancelled, asked>>,
           UNCHANGED bounds \/ Fault
    PROVE  BasicInv'
<1>1. run.pc \in FilePcs
  BY DEF FilePcs, CopyPcs
<1>2. CASE pc = "failing"
  BY <1>1, <1>2, GotoFile DEF FilePcs, CopyPcs, AdoptPcs
<1>3. CASE pc = "aborting"
  <2>1. /\ run' \in RunSet /\ run'.pc = "aborting" /\ run'.retry = run.retry /\ run'.got = run.got
    BY <1>3, Known, GotoIs DEF Steps
  <2>2. Recorded' = Recorded /\ row' \in [Row -> RowSet] /\ RowsPlaced'
    BY RowsSame
  <2>3. \A p \in Place : run'.got[p] # None => run'.got[p] \in Recorded'
    BY <2>1, <2>2 DEF BasicInv, RunKnown
  <2> QED
    BY <1>1, <2>1, <2>2, <2>3, Known, LoopStep DEF OpenPcs
<1> QED
  BY <1>2, <1>3 DEF AbortOrFail

\* What holds of the disk when only the partial changes.
LEMMA PartialOnly ==
    ASSUME BasicInv, UNCHANGED <<file, synced, stray>>, partial' \in Content \cup {None}
    PROVE  DiskTyped'
  BY Known DEF DiskTyped

LEMMA CopyBasic ==
    ASSUME BasicInv,
           CopyRefused \/ OpenPartial \/ CopyDone \/ CopyGivenUp \/ VerifyCopy \/ VerifyFails
    PROVE  BasicInv'
<1>1. CASE CopyRefused
  BY <1>1, Known, GotoAbort DEF CopyRefused, CopyPcs, disk, catalog, DiskTyped
<1>2. CASE OpenPartial
  <2>1. run.pc = "copying" /\ Goto("writing") /\ session.mode = "copy"
    BY <1>2 DEF OpenPartial, BasicInv, RunKnown, CopyPcs
  <2>2. /\ UNCHANGED <<file, synced, stray>> /\ partial' \in Content \cup {None}
        /\ UNCHANGED <<row, phase, session, failure, cancelled, asked, bounds>>
    BY <1>2, <2>1, Known DEF OpenPartial, catalog, DiskTyped, Cur, FilePcs
  <2> QED
    BY <2>1, <2>2, PartialOnly, GotoFile DEF FilePcs, CopyPcs, AdoptPcs
<1>3. CASE CopyDone
  <2>1. run.pc = "writing" /\ Goto("copied") /\ session.mode = "copy"
    BY <1>3 DEF CopyDone, BasicInv, RunKnown, CopyPcs
  <2>2. /\ UNCHANGED <<file, synced, stray>> /\ partial' \in Content \cup {None}
        /\ UNCHANGED <<row, phase, session, failure, cancelled, asked>>
        /\ UNCHANGED bounds \/ Fault
    BY <1>3 DEF CopyDone, catalog
  <2> QED
    BY <2>1, <2>2, PartialOnly, GotoFile DEF FilePcs, CopyPcs, AdoptPcs
<1>4. CASE CopyGivenUp
  <2>1. run.pc = "writing"
    BY <1>4 DEF CopyGivenUp
  <2>2. /\ UNCHANGED <<file, synced, stray>> /\ partial' \in Content \cup {None}
        /\ UNCHANGED <<row, phase, session, failure, cancelled, asked>>
    BY <1>4 DEF CopyGivenUp, catalog
  <2>3. CASE Fault /\ \E pc \in {AbortOrFail, "failing"} : Goto(pc)
    BY <2>1, <2>2, <2>3, PartialOnly, GotoAbort DEF CopyPcs
  <2>4. CASE FileDone(None) /\ UNCHANGED bounds
    BY <2>1, <2>2, <2>4, PartialOnly, RowsSame, Known, FileEnds DEF FilePcs
  <2> QED
    BY <1>4, <2>3, <2>4 DEF CopyGivenUp
<1>5. CASE VerifyCopy
  <2>1. run.pc = "copied" /\ Goto("verified") /\ session.mode = "copy"
    BY <1>5 DEF VerifyCopy, BasicInv, RunKnown, CopyPcs
  <2>2. UNCHANGED <<row, phase, session, failure, cancelled, asked, bounds>> /\ DiskTyped'
    BY <1>5, Known DEF VerifyCopy, disk, catalog, DiskTyped
  <2> QED
    BY <2>1, <2>2, GotoFile DEF FilePcs, CopyPcs, AdoptPcs
<1>6. CASE VerifyFails
  <2>1. run.pc = "copied" /\ Goto("failing")
    BY <1>6 DEF VerifyFails
  <2>2. /\ UNCHANGED <<file, synced, stray>> /\ partial' \in Content \cup {None}
        /\ UNCHANGED <<row, phase, session, failure, cancelled, asked>>
        /\ UNCHANGED bounds \/ Fault
    BY <1>6 DEF VerifyFails, catalog
  <2> QED
    BY <2>1, <2>2, PartialOnly, GotoFile DEF FilePcs, CopyPcs, AdoptPcs
<1> QED
  BY <1>1, <1>2, <1>3, <1>4, <1>5, <1>6

\* The file in hand gets a new name.
LEMMA Named ==
    ASSUME BasicInv, NEW pc \in Steps, NEW p \in Place, run' = [run EXCEPT !.pc = pc, !.dest = p]
    PROVE  /\ run' \in RunSet /\ run'.pc = pc /\ run'.dest = p
           /\ run'.retry = run.retry /\ run'.call = run.call /\ run'.todo = run.todo
           /\ run'.at = run.at /\ run'.full = run.full /\ run'.match = run.match
           /\ run'.source = run.source /\ run'.got = run.got
  BY Known DEF RunSet

LEMMA PublishBasic == ASSUME BasicInv, Publish PROVE BasicInv'
<1>1. /\ UNCHANGED <<phase, stray, row, session, failure, cancelled, asked>>
      /\ run.pc = "verified" /\ session.mode = "copy"
  BY DEF Publish, catalog, BasicInv, RunKnown, CopyPcs
<1>2. CASE \E s \in FreeSlots : /\ Create(s, partial)
                                /\ run' = [run EXCEPT !.pc = "published", !.dest = s]
                                /\ UNCHANGED <<partial, bounds>>
  <2>1. PICK s \in FreeSlots : /\ Create(s, partial)
                               /\ run' = [run EXCEPT !.pc = "published", !.dest = s]
                               /\ UNCHANGED <<partial, bounds>>
    BY <1>2
  <2>2. s \in Place
    BY DEF FreeSlots, Place
  <2>3. partial \in Content \cup {None}
    BY Known DEF DiskTyped
  <2>4. DiskTyped'
    BY <1>1, <2>1, <2>2, <2>3, Created
  <2> QED
    BY <1>1, <2>1, <2>2, <2>4, RowsSame, Named, FileStep DEF FilePcs, Steps, CopyPcs, AdoptPcs
<1>3. CASE Fault /\ partial' = None /\ Goto("failing") /\ UNCHANGED <<file, synced>>
  BY <1>1, <1>3, PartialOnly, GotoFile DEF FilePcs, CopyPcs, AdoptPcs
<1> QED
  BY <1>2, <1>3 DEF Publish

LEMMA SyncPublishedBasic == ASSUME BasicInv, SyncPublished PROVE BasicInv'
<1>1. /\ UNCHANGED <<phase, row, session, failure, cancelled, asked>>
      /\ run.pc = "published" /\ session.mode = "copy" /\ run.dest \in Place /\ partial' = None
  BY DEF SyncPublished, catalog, BasicInv, RunKnown, CopyPcs
<1>2. CASE /\ synced' = synced \cup {run.dest} /\ Goto("recording") /\ UNCHANGED file
           /\ stray' \in {stray, TRUE} /\ (UNCHANGED bounds \/ Fault)
  <2>1. DiskTyped'
    BY <1>1, <1>2, Known DEF DiskTyped
  <2> QED
    BY <1>1, <1>2, <2>1, GotoFile DEF FilePcs, CopyPcs, AdoptPcs
<1>3. CASE Fault /\ Remove(run.dest) /\ Goto("failing") /\ UNCHANGED stray
  BY <1>1, <1>3, Removed, GotoFile DEF FilePcs, CopyPcs, AdoptPcs
<1> QED
  BY <1>2, <1>3 DEF SyncPublished

LEMMA AdoptBasic ==
    ASSUME BasicInv, Baseline \/ StayInPlace \/ MoveLink \/ MoveUnlink \/ MoveSync
    PROVE  BasicInv'
<1>1. CASE Baseline
  <2>1. /\ UNCHANGED <<phase, row, session, failure, cancelled, asked>> /\ DiskTyped'
        /\ run.pc = "adopting" /\ session.mode = "adopt" /\ run.at \in Place
    BY <1>1, Known DEF Baseline, disk, catalog, DiskTyped, BasicInv, RunKnown, AdoptPcs, FilePcs
  <2>2. CASE run' = [run EXCEPT !.pc = "placing", !.full = Cur] /\ UNCHANGED bounds
    <3>1. Cur \in Content \cup {None}
      BY <2>1, Known DEF DiskTyped, Cur
    <3>2. /\ run' \in RunSet /\ run'.pc = "placing" /\ run'.retry = run.retry /\ run'.at = run.at
          /\ run'.got = run.got
      BY <2>2, <3>1, Known DEF RunSet, Steps
    <3> QED
      BY <2>1, <2>2, <3>2, RowsSame, FileStep DEF FilePcs, CopyPcs, AdoptPcs
  <2>3. CASE Goto("failing") /\ (UNCHANGED bounds \/ Fault)
    BY <2>1, <2>3, GotoFile DEF FilePcs, CopyPcs, AdoptPcs
  <2> QED
    BY <1>1, <2>2, <2>3 DEF Baseline
<1>2. CASE StayInPlace
  <2>1. /\ UNCHANGED <<phase, row, session, failure, cancelled, asked, bounds>> /\ DiskTyped'
        /\ run.pc = "placing" /\ run.at \in Place
        /\ run' = [run EXCEPT !.pc = "recording", !.dest = run.at]
    BY <1>2, Known DEF StayInPlace, disk, catalog, DiskTyped, FilePcs
  <2> QED
    BY <2>1, RowsSame, Named, FileStep DEF FilePcs, Steps, CopyPcs, AdoptPcs
<1>3. CASE MoveLink
  <2>1. /\ UNCHANGED <<phase, partial, stray, row, session, failure, cancelled, asked>>
        /\ run.pc = "placing" /\ session.mode = "adopt" /\ run.at \in Place
    BY <1>3, Known DEF MoveLink, catalog, BasicInv, RunKnown, AdoptPcs, FilePcs
  <2>2. CASE \E s \in FreeSlots : /\ Create(s, Cur)
                                  /\ run' = [run EXCEPT !.pc = "linked", !.dest = s]
                                  /\ UNCHANGED bounds
    <3>1. PICK s \in FreeSlots : /\ Create(s, Cur)
                                 /\ run' = [run EXCEPT !.pc = "linked", !.dest = s]
                                 /\ UNCHANGED bounds
      BY <2>2
    <3>2. s \in Place /\ Cur \in Content \cup {None} /\ partial \in Content \cup {None}
      BY <2>1, Known DEF FreeSlots, Place, Cur, DiskTyped
    <3>3. DiskTyped'
      BY <2>1, <3>1, <3>2, Created
    <3> QED
      BY <2>1, <3>1, <3>2, <3>3, RowsSame, Named, FileStep DEF FilePcs, Steps, CopyPcs, AdoptPcs
  <2>3. CASE Fault /\ Goto("failing") /\ UNCHANGED <<file, synced>>
    BY <2>1, <2>3, Known, GotoFile DEF FilePcs, CopyPcs, AdoptPcs, DiskTyped
  <2> QED
    BY <1>3, <2>2, <2>3 DEF MoveLink
<1>4. CASE MoveUnlink
  <2>1. /\ UNCHANGED <<phase, partial, stray, row, session, failure, cancelled, asked>>
        /\ run.pc = "linked" /\ session.mode = "adopt" /\ run.at \in Place /\ run.dest \in Place
    BY <1>4, Known DEF MoveUnlink, catalog, BasicInv, RunKnown, AdoptPcs, FilePcs
  <2>2. CASE Remove(run.at) /\ Goto("moved") /\ UNCHANGED bounds
    <3>1. DiskTyped'
      BY <2>1, <2>2, Known, Removed DEF DiskTyped
    <3> QED
      BY <2>1, <2>2, <3>1, GotoFile DEF FilePcs, CopyPcs, AdoptPcs
  <2>3. CASE Fault /\ Goto("failing") /\ UNCHANGED <<file, synced>>
    BY <2>1, <2>3, Known, GotoFile DEF FilePcs, CopyPcs, AdoptPcs, DiskTyped
  <2> QED
    BY <1>4, <2>2, <2>3 DEF MoveUnlink
<1>5. CASE MoveSync
  <2>1. /\ UNCHANGED <<phase, file, partial, stray, row, session, failure, cancelled, asked>>
        /\ run.pc = "moved" /\ session.mode = "adopt" /\ run.dest \in Place
    BY <1>5 DEF MoveSync, catalog, BasicInv, RunKnown, AdoptPcs
  <2>2. \E pc \in {"recording", "failing"} : Goto(pc) /\ (UNCHANGED bounds \/ Fault)
    BY <1>5 DEF MoveSync
  <2>3. DiskTyped'
    BY <1>5, <2>1, Known DEF MoveSync, DiskTyped
  <2> QED
    BY <2>1, <2>2, <2>3, GotoFile DEF FilePcs, CopyPcs, AdoptPcs
<1> QED
  BY <1>1, <1>2, <1>3, <1>4, <1>5

LEMMA RecordBasic == ASSUME BasicInv, Record PROVE BasicInv'
<1>1. /\ UNCHANGED <<phase, failure, cancelled, asked, bounds>> /\ DiskTyped'
      /\ run.pc = "recording" /\ run.at \in Place /\ run.dest \in Place
  BY Known DEF Record, disk, DiskTyped, FilePcs, BasicInv, RunKnown
<1>2. PICK r \in FreeRows :
         /\ row' = [row EXCEPT ![r] = [source |-> run.source, place |-> run.dest,
                                       origin |-> run.at, full |-> run.full,
                                       original |-> run.match, partner |-> None]]
         /\ FileDone(r)
  BY DEF Record
<1>3. r \in Row /\ row \in [Row -> RowSet] /\ run \in RunSet
  BY Known DEF FreeRows
<1>4. /\ row' \in [Row -> RowSet] /\ row'[r].place = run.dest
      /\ \A q \in Row : q # r => row'[q] = row[q]
  BY <1>2, <1>3 DEF RunSet, RowSet
<1>5. Recorded' = Recorded \cup {r}
  BY <1>1, <1>3, <1>4, NoneAssumption DEF Recorded, NoRow, FreeRows
<1>6. RowsPlaced'
  BY <1>1, <1>3, <1>4, <1>5 DEF BasicInv, RowsPlaced, Recorded
<1>7. /\ session' \in SessionSet /\ session'.status = session.status /\ session'.mode = session.mode
      /\ session'.reorganize = session.reorganize /\ session'.failures = session.failures
  <2>1. session' = [session EXCEPT !.imported = session.imported + 1] \/ session' = session
    BY Known DEF Record, SessionSet
  <2> QED
    BY <2>1, Known DEF SessionSet
<1> QED
  BY <1>1, <1>2, <1>3, <1>4, <1>5, <1>6, <1>7, FileEnds DEF FilePcs

LEMMA RecordFailsBasic == ASSUME BasicInv, RecordFails PROVE BasicInv'
<1>1. /\ UNCHANGED <<phase, partial, stray, row, session, failure, cancelled, asked>>
      /\ run.pc = "recording" /\ run.dest \in Place /\ Goto("failing")
      /\ UNCHANGED bounds \/ Fault
  BY DEF RecordFails, catalog, BasicInv, RunKnown
<1>2. DiskTyped'
  <2>1. CASE Remove(run.dest)
    BY <1>1, <2>1, Known, Removed DEF DiskTyped
  <2>2. CASE UNCHANGED <<file, synced>>
    BY <1>1, <2>2, Known DEF DiskTyped
  <2> QED
    BY <2>1, <2>2 DEF RecordFails
<1> QED
  BY <1>1, <1>2, GotoFile DEF FilePcs, CopyPcs, AdoptPcs

LEMMA MarkRetriedBasic == ASSUME BasicInv, MarkRetried PROVE BasicInv'
<1>1. /\ UNCHANGED <<phase, row, session, cancelled, asked>> /\ DiskTyped' /\ Active
      /\ run.pc = "resolved" /\ session.status # "none"
      /\ row' \in [Row -> RowSet] /\ RowsPlaced' /\ Recorded' = Recorded
  BY Known, RowsSame DEF MarkRetried, disk, DiskTyped, Active
<1>2. run.retry \in Failure /\ failure[run.retry].status # "none" /\ run.retry # None
  BY <1>1, Known DEF BasicInv, RunKnown, Retrying, RunSet
<1>3. CASE Fault /\ run' = NoRun /\ UNCHANGED failure
  BY <1>1, <1>3, Known, RunEnds
<1>4. CASE /\ failure' = [failure EXCEPT ![run.retry].status = "retried"]
           /\ twice' = (twice \/ failure[run.retry].status = "retried")
           /\ Goto("uncounting")
           /\ UNCHANGED <<requests, faults, crashes, outages>>
  <2>1. /\ failure' \in [Failure -> FailureSet] /\ failure'[run.retry].status = "retried"
        /\ \A f \in Failure : /\ failure'[f].path = failure[f].path
                              /\ f # run.retry => failure'[f] = failure[f]
    BY <1>2, <1>4, Known DEF FailureSet
  <2>2. /\ run' \in RunSet /\ run'.pc = "uncounting" /\ run'.retry = run.retry /\ run'.got = run.got
    BY <1>4, Known, GotoIs DEF Steps
  <2>3. BoundsTyped'
    BY <1>4, TypesAre DEF BasicInv, BoundsTyped
  <2>4. TypeOK'
    BY <1>1, <2>1, <2>2, <2>3, Known, TypesAre, TypesAreNext DEF CatalogTyped
  <2>5. SessionKnown'
    <3>1. \A q \in Request : asked[q] \in Failure \cup {None}
      BY TypesAre DEF BasicInv
    <3>2. \A f \in Failure : failure'[f].status # "none" <=> failure[f].status # "none"
      BY <1>2, <2>1
    <3>3. \A f \in Failure : failure'[f].status # "none" => failure'[f].path \in Place
      BY <2>1, <3>2 DEF BasicInv, SessionKnown
    <3>4. \A q \in Request : asked[q] # None => failure'[asked[q]].status # "none"
      BY <3>1, <3>2 DEF BasicInv, SessionKnown
    <3>5. [mode |-> session.mode, reorganize |-> session.reorganize] \in Plan
      BY <1>1 DEF BasicInv, SessionKnown
    <3> QED
      BY <1>1, <3>3, <3>4, <3>5 DEF SessionKnown
  <2>6. Tally'
    <3>1. Owed' = Owed \ {run.retry}
      BY <1>2, <2>1 DEF Owed
    <3>2. ~twice' => run.retry \in Owed /\ ~twice
      <4>1. failure[run.retry].status \in {"none", "open", "retried", "dismissed"}
        BY <1>2, Known DEF FailureSet
      <4> QED
        BY <1>2, <1>4, <4>1 DEF Owed
    <3>3. IsFiniteSet(Owed) /\ IsFiniteSet(Owed') /\ Cardinality(Owed) \in Nat
      BY <3>1, FS_Subset, FS_CardinalityType DEF BasicInv, Tally
    <3>4. run.retry \in Owed => Cardinality(Owed') = Cardinality(Owed) - 1
      BY <3>1, <3>3, FS_RemoveElement
    <3> QED
      BY <1>1, <2>2, <3>2, <3>3, <3>4, Known DEF BasicInv, Tally
  <2>7. RunKnown'
    BY <1>1, <1>2, <2>1, <2>2 DEF BasicInv, RunKnown, FilePcs, CopyPcs, AdoptPcs, Retrying, Active
  <2> QED
    BY <1>1, <2>4, <2>5, <2>6, <2>7 DEF BasicInv
<1> QED
  BY <1>3, <1>4 DEF MarkRetried

LEMMA UncountBasic == ASSUME BasicInv, Uncount PROVE BasicInv'
<1>1. /\ UNCHANGED <<phase, row, failure, cancelled, asked>> /\ DiskTyped' /\ Active
      /\ run.pc = "uncounting" /\ run' = NoRun /\ (UNCHANGED bounds \/ Fault)
  BY Known DEF Uncount, disk, DiskTyped, Active
<1>2. /\ session' \in SessionSet /\ session'.status = session.status /\ session'.mode = session.mode
      /\ session'.reorganize = session.reorganize /\ session'.failures >= session.failures - 1
  <2>1. session' = [session EXCEPT !.failures = session.failures - 1] \/ session' = session
    BY Known DEF Uncount, SessionSet
  <2> QED
    BY <2>1, Known DEF SessionSet
<1> QED
  BY <1>1, <1>2, Known, RunEnds

------------------------------------------------------------------------------
(* Types, session, failures and run: the end of the process, and its user. *)

LEMMA StoppedBasic == ASSUME BasicInv, Crash \/ PowerLoss PROVE BasicInv'
<1>1. /\ phase' = "down" /\ partial' = None /\ cancelled' = FALSE /\ run' = NoRun
      /\ asked' = [q \in Request |-> None]
      /\ UNCHANGED <<row, session, failure, twice, requests, faults>>
  BY DEF Crash, PowerLoss, Stopped, catalog
<1>2. BoundsTyped'
  <2>1. BoundsTyped
    BY TypesAre DEF BasicInv
  <2> QED
    BY <1>1, <2>1, BoundAssumption DEF Crash, PowerLoss, BoundsTyped
<1>3. DiskTyped'
  <2>1. CASE Crash
    BY <1>1, <2>1, Known DEF Crash, DiskTyped
  <2>2. CASE PowerLoss
    <3>1. PICK lost \in SUBSET (Place \ synced) :
             file' = [p \in Place |-> IF p \in lost THEN None ELSE file[p]]
      BY <2>2 DEF PowerLoss
    <3>2. file' \in [Place -> Content \cup {None}]
      BY <3>1, Known DEF DiskTyped
    <3> QED
      BY <1>1, <2>2, <3>2, Known DEF PowerLoss, DiskTyped
  <2> QED
    BY <2>1, <2>2
<1>4. TypeOK'
  BY <1>1, <1>2, <1>3, Known, NoRunTyped, TypesAreNext DEF CatalogTyped
<1>5. SessionKnown'
  BY <1>1, NoRunTyped DEF BasicInv, SessionKnown, Active
<1>6. Tally'
  <2>1. Owed' = Owed
    BY <1>1 DEF Owed
  <2> QED
    BY <1>1, <2>1, Known, NoRunTyped, FS_CardinalityType DEF BasicInv, Tally
<1>7. RunKnown' /\ RowsPlaced'
  <2>1. RunKnown'
    BY <1>1, NoRunTyped DEF RunKnown, FilePcs, CopyPcs, AdoptPcs, Retrying, Active
  <2> QED
    BY <1>1, <2>1, RowsSame
<1> QED
  BY <1>4, <1>5, <1>6, <1>7 DEF BasicInv

\* The catalog and the run stay, the session may only be marked.
LEMMA CatalogStays ==
    ASSUME BasicInv, UNCHANGED <<file, synced, partial, stray, row, failure, twice, run>>,
           phase' \in {"up", "down"}, cancelled' \in BOOLEAN, BoundsTyped',
           asked' \in [Request -> Failure \cup {None}],
           \A q \in Request : asked'[q] # None => failure[asked'[q]].status # "none",
           session' \in SessionSet, session'.mode = session.mode,
           session'.reorganize = session.reorganize, session'.failures = session.failures,
           session'.status = "none" <=> session.status = "none"
    PROVE  BasicInv'
<1>1. TypeOK'
  BY Known, TypesAreNext DEF DiskTyped, CatalogTyped
<1>2. SessionKnown'
  BY DEF BasicInv, SessionKnown, Active
<1>3. Tally'
  <2>1. Owed' = Owed
    BY DEF Owed
  <2> QED
    BY <2>1 DEF BasicInv, Tally
<1>4. RunKnown' /\ RowsPlaced'
  BY RowsSame DEF BasicInv, RunKnown, FilePcs, CopyPcs, AdoptPcs, Retrying, Active, Linkable
<1> QED
  BY <1>1, <1>2, <1>3, <1>4 DEF BasicInv

LEMMA OpenBasic == ASSUME BasicInv, Open PROVE BasicInv'
<1>1. /\ UNCHANGED <<file, synced, partial, stray, row, failure, twice, run, cancelled, asked, bounds>>
      /\ phase' = "up" /\ session' = [session EXCEPT !.status = IF @ = "running" THEN "interrupted" ELSE @]
  BY DEF Open, disk, memory, bounds
<1>2. /\ session' \in SessionSet /\ session'.mode = session.mode
      /\ session'.reorganize = session.reorganize /\ session'.failures = session.failures
      /\ session'.status = "none" <=> session.status = "none"
  <2>1. session' = [session EXCEPT !.status = "interrupted"] \/ session' = session
    BY <1>1, Known DEF SessionSet
  <2>2. session' = session => session'.status = session.status
    OBVIOUS
  <2>3. session' # session => session.status = "running"
    BY <1>1, Known DEF SessionSet
  <2> QED
    BY <2>1, <2>2, <2>3, Known DEF SessionSet, SessionStatus
<1>3. BoundsTyped' /\ cancelled \in BOOLEAN /\ asked \in [Request -> Failure \cup {None}]
  BY <1>1, Known, FaultTyped, TypesAre
<1> QED
  BY <1>1, <1>2, <1>3, CatalogStays DEF BasicInv, SessionKnown

LEMMA RequestTyped ==
    ASSUME BasicInv, UserRequest
    PROVE  BoundsTyped' /\ UNCHANGED <<twice, faults, crashes, outages>>
  BY Known, FaultTyped DEF UserRequest

LEMMA StartImportBasic == ASSUME BasicInv, NEW plan \in Plan, StartImport(plan) PROVE BasicInv'
<1>1. /\ UNCHANGED <<phase, file, synced, partial, stray, row, asked>>
      /\ session' = [NoSession EXCEPT !.status = "running", !.mode = plan.mode,
                                      !.reorganize = plan.reorganize]
      /\ failure' = [f \in Failure |-> NoFailure] /\ cancelled' = FALSE /\ Goto("preparing")
      /\ ~Active /\ \A q \in Request : asked[q] = None
  BY DEF StartImport, disk
<1>2. BoundsTyped' /\ twice' = twice
  BY RequestTyped DEF StartImport
<1>3. plan \in [mode : {"copy", "adopt"}, reorganize : BOOLEAN]
  BY FileAssumption
<1>4. /\ session' \in SessionSet /\ session'.status = "running" /\ session'.failures = 0
      /\ [mode |-> session'.mode, reorganize |-> session'.reorganize] = plan
  <2>1. /\ plan.mode \in {"copy", "adopt"} /\ plan.reorganize \in BOOLEAN
        /\ plan = [mode |-> plan.mode, reorganize |-> plan.reorganize]
    BY <1>3
  <2>2. session' = [status |-> "running", mode |-> plan.mode, reorganize |-> plan.reorganize,
                    imported |-> 0, failures |-> 0]
    BY <1>1 DEF NoSession
  <2> QED
    BY <2>1, <2>2 DEF SessionSet, SessionStatus
<1>5. failure' \in [Failure -> FailureSet] /\ \A f \in Failure : failure'[f].status = "none"
  BY <1>1 DEF NoFailure, FailureSet
<1>6. run = NoRun
  BY <1>1 DEF BasicInv, RunKnown
<1>7. /\ run' \in RunSet /\ run'.pc = "preparing" /\ run'.retry = None
      /\ \A p \in Place : run'.got[p] = None
  BY <1>1, <1>6, Known, GotoIs, NoRunTyped DEF Steps
<1>8. TypeOK'
  BY <1>1, <1>2, <1>4, <1>5, <1>7, Known, TypesAre, TypesAreNext DEF CatalogTyped, DiskTyped
<1>9. SessionKnown'
  BY <1>1, <1>4, <1>5 DEF SessionKnown
<1>10. Tally'
  <2>1. Owed' = {}
    BY <1>5 DEF Owed
  <2> QED
    BY <1>4, <1>7, <2>1, FS_EmptySet DEF Tally
<1>11. RunKnown' /\ RowsPlaced'
  BY <1>1, <1>7, RowsSame DEF RunKnown, FilePcs, CopyPcs, AdoptPcs, Retrying, Active
<1> QED
  BY <1>8, <1>9, <1>10, <1>11 DEF BasicInv

LEMMA ResumeBasic == ASSUME BasicInv, Resume PROVE BasicInv'
<1>1. /\ UNCHANGED <<phase, file, synced, partial, stray, row, session, failure, asked>>
      /\ session.status # "none" /\ cancelled' = FALSE /\ Goto("preparing") /\ ~Active
  BY DEF Resume, disk, catalog
<1>2. BoundsTyped' /\ twice' = twice
  BY RequestTyped DEF Resume
<1>3. run = NoRun
  BY <1>1 DEF BasicInv, RunKnown
<1>4. /\ run' \in RunSet /\ run'.pc = "preparing" /\ run'.retry = None
      /\ \A p \in Place : run'.got[p] = None
  BY <1>1, <1>3, Known, GotoIs, NoRunTyped DEF Steps
<1>5. TypeOK'
  BY <1>1, <1>2, <1>4, Known, TypesAre, TypesAreNext DEF CatalogTyped, DiskTyped
<1>6. SessionKnown'
  BY <1>1 DEF BasicInv, SessionKnown
<1>7. Tally'
  BY <1>1, <1>2, <1>4, <1>5, Known, TallySame DEF BasicInv
<1>8. RunKnown' /\ RowsPlaced'
  BY <1>1, <1>4, RowsSame DEF RunKnown, FilePcs, CopyPcs, AdoptPcs, Retrying, Active
<1> QED
  BY <1>5, <1>6, <1>7, <1>8 DEF BasicInv

LEMMA CancelImportBasic == ASSUME BasicInv, CancelImport PROVE BasicInv'
<1>1. UNCHANGED <<phase, file, synced, partial, stray, row, session, failure, run, asked>> /\ cancelled' = TRUE
  BY DEF CancelImport, disk, catalog
<1>2. BoundsTyped' /\ twice' = twice
  BY RequestTyped DEF CancelImport
<1> QED
  BY <1>1, <1>2, Known, TypesAre, CatalogStays DEF BasicInv, SessionKnown

LEMMA RetryCheckBasic ==
    ASSUME BasicInv, NEW q \in Request, NEW f \in Failure, RetryCheck(q, f)
    PROVE  BasicInv'
<1>1. /\ UNCHANGED <<phase, file, synced, partial, stray, row, session, failure, run, cancelled>>
      /\ asked' = [asked EXCEPT ![q] = f] /\ failure[f].status = "open"
  BY DEF RetryCheck, disk, catalog, OpenOnes
<1>2. BoundsTyped' /\ twice' = twice
  BY RequestTyped DEF RetryCheck
<1>3. asked \in [Request -> Failure \cup {None}] /\ phase \in {"up", "down"} /\ cancelled \in BOOLEAN
  BY TypesAre DEF BasicInv
<1>4. /\ asked' \in [Request -> Failure \cup {None}]
      /\ \A g \in Request : asked'[g] # None => failure[asked'[g]].status # "none"
  BY <1>1, <1>3 DEF BasicInv, SessionKnown
<1> QED
  BY <1>1, <1>2, <1>3, <1>4, Known, CatalogStays

LEMMA DismissBasic == ASSUME BasicInv, NEW f \in Failure, Dismiss(f) PROVE BasicInv'
<1>1. /\ UNCHANGED <<phase, file, synced, partial, stray, row, session, run, cancelled, asked>>
      /\ failure' = [failure EXCEPT ![f].status = "dismissed"] /\ failure[f].status = "open"
  BY DEF Dismiss, disk, memory, OpenOnes
<1>2. BoundsTyped' /\ twice' = twice
  BY RequestTyped DEF Dismiss
<1>3. /\ failure' \in [Failure -> FailureSet] /\ failure'[f].status = "dismissed"
      /\ \A g \in Failure : failure'[g].path = failure[g].path /\ (g # f => failure'[g] = failure[g])
  BY <1>1, Known DEF FailureSet
<1>4. TypeOK'
  BY <1>1, <1>2, <1>3, Known, TypesAre, TypesAreNext DEF CatalogTyped, DiskTyped
<1>5. \A g \in Failure : failure'[g].status # "none" <=> failure[g].status # "none"
  BY <1>1, <1>3
<1>6. SessionKnown'
  <2>1. \A q \in Request : asked[q] \in Failure \cup {None}
    BY TypesAre DEF BasicInv
  <2>2. \A g \in Failure : failure'[g].status # "none" =>
           session.status # "none" /\ failure'[g].path \in Place
    BY <1>3, <1>5 DEF BasicInv, SessionKnown
  <2>3. \A q \in Request : asked[q] # None => failure'[asked[q]].status # "none"
    BY <1>5, <2>1 DEF BasicInv, SessionKnown
  <2> QED
    BY <1>1, <2>2, <2>3 DEF BasicInv, SessionKnown, Active
<1>7. Tally'
  <2>1. Owed' = Owed
    BY <1>1, <1>3 DEF Owed
  <2> QED
    BY <1>1, <1>2, <2>1 DEF BasicInv, Tally
<1>8. RunKnown' /\ RowsPlaced'
  <2>1. run \in RunSet
    BY Known
  <2>2. Retrying => run.retry \in Failure
    BY <2>1 DEF Retrying, RunSet
  <2>3. RunKnown'
    BY <1>1, <1>5, <2>2
       DEF BasicInv, RunKnown, FilePcs, CopyPcs, AdoptPcs, Retrying, Active, Linkable, Recorded
  <2> QED
    BY <1>1, <2>3, RowsSame
<1> QED
  BY <1>4, <1>6, <1>7, <1>8 DEF BasicInv

LEMMA RetryRunBasic == ASSUME BasicInv, NEW q \in Request, RetryRun(q) PROVE BasicInv'
<1>1. /\ UNCHANGED <<phase, file, synced, partial, stray, row, session, failure, bounds, twice>>
      /\ asked' = [asked EXCEPT ![q] = None] /\ asked[q] # None
  BY DEF RetryRun, disk, catalog, bounds
<1>2. asked \in [Request -> Failure \cup {None}] /\ phase \in {"up", "down"} /\ cancelled \in BOOLEAN
  BY TypesAre DEF BasicInv
<1>3. BoundsTyped'
  BY <1>1, Known, FaultTyped
<1>4. /\ asked' \in [Request -> Failure \cup {None}]
      /\ \A g \in Request : asked'[g] # None => failure[asked'[g]].status # "none"
  BY <1>1, <1>2 DEF BasicInv, SessionKnown
<1>5. CASE Active
  <2>1. UNCHANGED <<cancelled, run>>
    BY <1>5 DEF RetryRun
  <2> QED
    BY <1>1, <1>2, <1>3, <1>4, <2>1, Known, CatalogStays
<1>6. CASE ~Active
  <2> DEFINE f == asked[q]
  <2>1. /\ cancelled' = FALSE
        /\ run' = [NoRun EXCEPT !.pc = "file", !.retry = f, !.call = q,
                                !.at = failure[f].path, !.source = file[failure[f].path]]
    BY <1>6 DEF RetryRun
  <2>2. f \in Failure /\ failure[f].status # "none" /\ failure[f].path \in Place /\ session.status # "none"
    BY <1>1, <1>2 DEF BasicInv, SessionKnown
  <2>3. file[failure[f].path] \in Content \cup {None}
    BY <2>2, Known DEF DiskTyped
  <2> HIDE DEF f
  <2>4. /\ run' \in RunSet /\ run'.pc = "file" /\ run'.retry = f /\ run'.at = failure[f].path
        /\ \A p \in Place : run'.got[p] = None
    BY <2>1, <2>2, <2>3 DEF RunSet, NoRun, Steps
  <2>5. TypeOK'
    BY <1>1, <1>2, <1>3, <1>4, <2>1, <2>4, Known, TypesAre, TypesAreNext DEF CatalogTyped, DiskTyped
  <2>6. SessionKnown'
    BY <1>1, <1>4, <2>2 DEF BasicInv, SessionKnown
  <2>7. Tally'
    BY <1>1, <2>4, <2>5, Known, TallySame DEF BasicInv
  <2>8. RunKnown' /\ RowsPlaced'
    BY <1>1, <2>2, <2>4, RowsSame DEF RunKnown, FilePcs, CopyPcs, AdoptPcs, Retrying, Active
  <2> QED
    BY <2>5, <2>6, <2>7, <2>8 DEF BasicInv
<1> QED
  BY <1>5, <1>6

------------------------------------------------------------------------------
(* Types, session, failures and run: the theorems. *)

LEMMA PipelineBasic == ASSUME BasicInv, PipelineStep PROVE BasicInv'
<1>1. CASE Prepare \/ Scan \/ LoopEnds \/ LinkOther \/ ClassifyNew \/ ClassifyKnown \/ ClassifyFails
           \/ Skip \/ RecordFailure \/ Record \/ RecordFails \/ MarkRetried \/ Uncount
  BY <1>1, PrepareBasic, ScanBasic, LoopEndsBasic, LinkOtherBasic, ClassifyNewBasic, ClassifyKnownBasic,
     ClassifyFailsBasic, SkipBasic, RecordFailureBasic, RecordBasic, RecordFailsBasic,
     MarkRetriedBasic, UncountBasic
<1>2. CASE \E p \in Place : NextFile(p)
  BY <1>2, NextFileBasic
<1>3. CASE \E p \in Path : LinkOne(p)
  BY <1>3, LinkOneBasic
<1>4. CASE StopEarly \/ Abort \/ Complete
  <2>1. Active /\ run.pc # "uncounting"
    BY <1>4 DEF StopEarly, Abort, Complete, Active
  <2>2. \E st \in SessionStatus \ {"none"} : Finish(st)
    BY <1>4 DEF StopEarly, Abort, Complete, SessionStatus
  <2> QED
    BY <2>1, <2>2, FinishBasic
<1>5. CASE CopyStep
  BY <1>5, CopyBasic, PublishBasic, SyncPublishedBasic DEF CopyStep
<1>6. CASE AdoptStep
  BY <1>6, AdoptBasic DEF AdoptStep
<1> QED
  BY <1>1, <1>2, <1>3, <1>4, <1>5, <1>6 DEF PipelineStep

LEMMA StepBasic == ASSUME BasicInv, [Next]_vars PROVE BasicInv'
<1>1. CASE Crash \/ PowerLoss \/ Open
  BY <1>1, StoppedBasic, OpenBasic
<1>2. CASE UserStep
  BY <1>2, StartImportBasic, ResumeBasic, CancelImportBasic, RetryCheckBasic, DismissBasic DEF UserStep
<1>3. CASE \E q \in Request : RetryRun(q)
  BY <1>3, RetryRunBasic
<1>4. CASE PipelineStep
  BY <1>4, PipelineBasic
<1>5. CASE UNCHANGED vars
  <2>1. /\ UNCHANGED <<phase, file, synced, partial, stray, row, session, failure, cancelled, run, asked>>
        /\ UNCHANGED bounds /\ UNCHANGED twice
    BY <1>5 DEF vars, disk, catalog, memory, bounds
  <2> QED
    BY <2>1, Known, TypesAre, FaultTyped, CatalogStays DEF BasicInv, SessionKnown
<1> QED
  BY <1>1, <1>2, <1>3, <1>4, <1>5 DEF Next

LEMMA BasicHolds == Spec => []BasicInv
  BY InitBasic, StepBasic, PTL DEF Spec

\* Every variable keeps values of its kind, whatever is started, cancelled, retried
\* or cut short and whichever options imports are started with.
THEOREM ImportTypeCorrect == Spec => []TypeOK
<1>1. BasicInv => TypeOK
  BY DEF BasicInv
<1> QED
  BY <1>1, BasicHolds, PTL

\* Unless two calls resolved one failure one after the other, the failure counter of
\* the session (ImportSession.FailureCount, recordFailure and IncFailures) stands for
\* at least the failures still open, however many calls and dismissals interleave.
THEOREM FailureTallyKeptCorrect == Spec => []FailureTallyKept
<1>1. BasicInv => FailureTallyKept
  <2> SUFFICES ASSUME BasicInv, ~twice PROVE session.failures >= Cardinality(OpenOnes)
    BY DEF FailureTallyKept, CountersCoherent
  <2>1. OpenOnes \subseteq Owed
    BY DEF OpenOnes, Owed
  <2>2. IsFiniteSet(Owed) /\ session.failures \in Int
    BY Known DEF BasicInv, Tally
  <2>3. Cardinality(OpenOnes) <= Cardinality(Owed) /\ Cardinality(Owed) \in Nat /\ Cardinality(OpenOnes) \in Nat
    BY <2>1, <2>2, FS_Subset, FS_CardinalityType
  <2> QED
    BY <2>2, <2>3 DEF BasicInv, Tally
<1> QED
  BY <1>1, BasicHolds, PTL

------------------------------------------------------------------------------
(* Rows find durable files: the disk, the rows and the hand, step by step. *)

HandPcs == {"copying", "writing", "copied", "verified", "published", "adopting", "placing",
            "linked", "moved", "recording"}

LEMMA RowsKept ==
    ASSUME RowsKnown, SyncedThere, UNCHANGED <<file, synced, row, outages>>, faults' = 0 => faults = 0
    PROVE  RowsKnown' /\ SyncedThere'
  BY DEF RowsKnown, SyncedThere, Recorded, Placed, Claimed

\* Nothing is in hand.
LEMMA HandFree ==
    ASSUME run'.pc \notin HandPcs, run'.pc = "file" => run'.source = Cur'
    PROVE  HandKnown'
<1>1. HandRead'
  BY DEF HandRead, HandPcs, CopyPcs
<1>2. HandCopied' /\ HandNamed' /\ HandNew'
  BY DEF HandCopied, HandNamed, HandNew, HandPcs, CopyPcs, AdoptPcs
<1> QED
  BY <1>1, <1>2 DEF HandKnown

\* What is in hand stays.
LEMMA HandSame ==
    ASSUME HandKnown, UNCHANGED <<file, synced, partial, row, outages, faults, run>>,
           session'.mode = session.mode, session'.reorganize = session.reorganize,
           cancelled => cancelled'
    PROVE  HandKnown'
<1>1. HandRead' /\ HandCopied'
  BY DEF HandKnown, HandRead, HandCopied, Cur, Like
<1>2. \A p : Unclaimed(p)' <=> Unclaimed(p)
  BY DEF Unclaimed, Recorded, Claimed, Placed
<1>3. HandNamed'
  BY <1>2 DEF HandKnown, HandNamed, Like
<1>4. HandNew'
  BY <1>2 DEF HandKnown, HandNew, Undisturbed, Recorded
<1> QED
  BY <1>1, <1>3, <1>4 DEF HandKnown

LEMMA Idles ==
    ASSUME DurableInv, UNCHANGED <<file, synced, row, outages>>, faults' = 0 => faults = 0,
           run'.pc \notin HandPcs, run'.pc = "file" => run'.source = Cur'
    PROVE  DurableInv'
  BY RowsKept, HandFree DEF DurableInv

LEMMA Stays ==
    ASSUME DurableInv, UNCHANGED <<file, synced, partial, row, outages, faults, run>>,
           session'.mode = session.mode, session'.reorganize = session.reorganize,
           cancelled => cancelled'
    PROVE  DurableInv'
  BY RowsKept, HandSame DEF DurableInv

LEMMA FaultsGrow ==
    ASSUME BasicInv, UNCHANGED bounds \/ Fault
    PROVE  UNCHANGED <<outages, crashes>> /\ (faults' = 0 => faults = 0 /\ UNCHANGED bounds)
  BY Charged DEF BasicInv, bounds

\* A place no row claims may be written to, or be lost.
LEMMA RowsElsewhere ==
    ASSUME BasicInv, DurableInv, NEW p \in Place, Unclaimed(p), UNCHANGED <<row, outages>>,
           faults' = 0 => faults = 0, synced' = synced \ {p},
           \A q \in Place : q # p => file'[q] = file[q]
    PROVE  RowsKnown' /\ SyncedThere'
<1>1. \A r \in Recorded : row[r].place \in Place /\ (Claimed(r) => row[r].place # p)
  BY DEF BasicInv, RowsPlaced, Unclaimed
<1>2. synced \subseteq Place
  BY Known DEF DiskTyped
<1>3. SyncedThere'
  BY <1>2 DEF DurableInv, SyncedThere
<1>4. \A r \in Recorded : Claimed(r) => file'[row[r].place] = file[row[r].place]
  BY <1>1
<1>5. \A r \in Recorded : Placed(r) => row[r].place \in synced'
  BY <1>1 DEF DurableInv, RowsKnown, Claimed
<1>6. RowsKnown'
  BY <1>4, <1>5 DEF DurableInv, RowsKnown, Recorded, Claimed, Placed
<1> QED
  BY <1>3, <1>6

\* A free name is nobody's.
LEMMA FreeUnclaimed ==
    ASSUME DurableInv, NEW s \in FreeSlots
    PROVE  Unclaimed(s)
  BY DEF DurableInv, RowsKnown, Unclaimed, FreeSlots

LEMMA UnclaimedSame == ASSUME UNCHANGED <<row, outages>>, NEW p PROVE Unclaimed(p)' <=> Unclaimed(p)
  BY DEF Unclaimed, Recorded, Claimed, Placed

\* The steps that leave nothing in hand.
LEMMA LoopIs ==
    ASSUME BasicInv,
           \/ Prepare \/ Scan \/ StopEarly \/ Abort \/ LoopEnds \/ Complete \/ ClassifyFails \/ Skip
           \/ RecordFailure \/ MarkRetried \/ Uncount \/ CopyRefused \/ CopyGivenUp \/ VerifyFails
    PROVE  /\ UNCHANGED <<file, synced, row, outages, crashes>> /\ (faults' = 0 => faults = 0)
           /\ run'.pc \notin HandPcs /\ run'.pc # "file"
           /\ run.pc \notin {"published", "linked", "recording"}
           /\ partial' \in {partial, None} /\ (partial' # None => run.pc \notin PartialPcs)
           /\ stray' => stray
<1>1. UNCHANGED <<file, synced, row>>
  BY DEF Prepare, Scan, StopEarly, Abort, LoopEnds, Complete, Finish, ClassifyFails, Skip, RecordFailure,
         MarkRetried, Uncount, CopyRefused, CopyGivenUp, VerifyFails, disk, catalog
<1>2. UNCHANGED <<outages, crashes>> /\ (faults' = 0 => faults = 0)
  <2>1. CASE MarkRetried
    BY <2>1, FaultsGrow DEF MarkRetried, Fault
  <2>2. CASE ~MarkRetried
    <3>1. UNCHANGED bounds \/ Fault
      BY <2>2 DEF Prepare, Scan, StopEarly, Abort, LoopEnds, Complete, Finish, ClassifyFails, Skip,
                  RecordFailure, Uncount, CopyRefused, CopyGivenUp, VerifyFails
    <3> QED
      BY <3>1, FaultsGrow
  <2> QED
    BY <2>1, <2>2
<1>3. run'.pc \in {"idle", "scanning", "next", "linking", "failing", "resolved", "uncounting", "aborting"}
  <2>1. run \in RunSet
    BY Known
  <2>2. CASE Prepare \/ Scan \/ LoopEnds
    BY <2>1, <2>2, NoRunTyped DEF Prepare, Scan, LoopEnds, Goto, RunSet
  <2>3. CASE StopEarly \/ Abort \/ Complete \/ Uncount
    BY <2>3, NoRunTyped DEF StopEarly, Abort, Complete, Finish, Uncount
  <2>4. CASE ClassifyFails \/ CopyRefused \/ VerifyFails \/ MarkRetried
    BY <2>1, <2>4, NoRunTyped DEF ClassifyFails, CopyRefused, VerifyFails, MarkRetried, AbortOrFail, Goto, RunSet
  <2>5. CASE Skip
    BY <2>1, <2>5 DEF Skip, FileDone, RunSet
  <2>6. CASE CopyGivenUp
    BY <2>1, <2>6 DEF CopyGivenUp, FileDone, AbortOrFail, Goto, RunSet
  <2>7. CASE RecordFailure
    BY <2>7, NoRunTyped DEF RecordFailure, NoRun
  <2> QED
    BY <2>2, <2>3, <2>4, <2>5, <2>6, <2>7
<1>4. run'.pc \notin HandPcs /\ run'.pc # "file"
  BY <1>3 DEF HandPcs
<1>5. /\ run.pc \notin {"published", "linked", "recording"}
      /\ partial' \in {partial, None} /\ (partial' # None => run.pc \notin PartialPcs)
  BY DEF Prepare, Scan, StopEarly, Abort, LoopEnds, Complete, Finish, ClassifyFails, Skip, RecordFailure,
         MarkRetried, Uncount, CopyRefused, CopyGivenUp, VerifyFails, disk, PartialPcs
<1>6. stray' => stray
  BY DEF Prepare, Scan, StopEarly, Abort, LoopEnds, Complete, Finish, ClassifyFails, Skip, RecordFailure,
         MarkRetried, Uncount, CopyRefused, CopyGivenUp, VerifyFails, disk
<1> QED
  BY <1>1, <1>2, <1>4, <1>5, <1>6

LEMMA LoopDurable ==
    ASSUME BasicInv, DurableInv,
           \/ Prepare \/ Scan \/ StopEarly \/ Abort \/ LoopEnds \/ Complete \/ ClassifyFails \/ Skip
           \/ RecordFailure \/ MarkRetried \/ Uncount \/ CopyRefused \/ CopyGivenUp \/ VerifyFails
    PROVE  DurableInv'
  BY LoopIs, Idles

LEMMA NextFileDurable == ASSUME BasicInv, DurableInv, NEW p \in Place, NextFile(p) PROVE DurableInv'
<1>1. UNCHANGED <<file, synced, row, outages, faults>>
  BY DEF NextFile, disk, catalog, bounds
<1>2. run'.pc = "file" /\ run'.at = p /\ run'.source = file[p]
  BY Known DEF NextFile, RunSet
<1> QED
  BY <1>1, <1>2, Idles DEF HandPcs, Cur

\* A change of partners keeps what is known of the rows.
LEMMA LinkDurable ==
    ASSUME BasicInv, DurableInv, NEW r \in Recorded, NEW s \in Row \cup {None},
           row' = [row EXCEPT ![r].partner = s] \/ UNCHANGED row,
           UNCHANGED <<file, synced, outages>>, faults' = 0 => faults = 0,
           run'.pc \in {"linking", "halflinked"}
    PROVE  DurableInv'
<1>1. /\ Recorded' = Recorded
      /\ \A q \in Row : /\ row'[q].source = row[q].source /\ row'[q].place = row[q].place
                        /\ row'[q].origin = row[q].origin /\ row'[q].full = row[q].full
  BY PartnerSet DEF Recorded
<1>2. \A q \in Recorded : (Placed(q)' <=> Placed(q)) /\ (Claimed(q)' <=> Claimed(q))
  BY <1>1 DEF Placed, Claimed, Recorded
<1>3. RowsKnown'
  BY <1>1, <1>2 DEF DurableInv, RowsKnown, Recorded
<1> QED
  BY <1>3, HandFree DEF DurableInv, SyncedThere, HandPcs

LEMMA LinksDurable ==
    ASSUME BasicInv, DurableInv, (\E p \in Path : LinkOne(p)) \/ LinkOther
    PROVE  DurableInv'
<1>1. run \in RunSet
  BY Known
<1>2. CASE \E p \in Path : LinkOne(p)
  <2>1. PICK p \in Path : LinkOne(p)
    BY <1>2
  <2>2. Linkable(p)
    BY <2>1 DEF LinkOne, BasicInv, RunKnown
  <2>3. PICK r \in Recorded : r = run.got[p]
    BY <2>2, Linked
  <2>4. PICK s \in Row \cup {None} : s = run.got[PartnerOf[p]]
    BY <2>2, Linked DEF Recorded
  <2>5. row' = [row EXCEPT ![r].partner = s] \/ UNCHANGED row
    BY <2>1, <2>3, <2>4 DEF LinkOne
  <2>6. UNCHANGED <<file, synced>> /\ (UNCHANGED bounds \/ Fault)
    BY <2>1 DEF LinkOne, disk
  <2>7. run'.pc \in {"linking", "halflinked"}
    BY <1>1, <2>1 DEF LinkOne, RunSet
  <2> QED
    BY <2>5, <2>6, <2>7, FaultsGrow, LinkDurable
<1>3. CASE LinkOther
  <2>2. Linkable(run.at)
    BY <1>3 DEF LinkOther, BasicInv, RunKnown
  <2>3. PICK r \in Recorded : r = run.got[PartnerOf[run.at]]
    BY <2>2, Linked
  <2>4. PICK s \in Row \cup {None} : s = run.got[run.at]
    BY <2>2, Linked DEF Recorded
  <2>5. row' = [row EXCEPT ![r].partner = s] \/ UNCHANGED row
    BY <1>3, <2>3, <2>4 DEF LinkOther
  <2>6. UNCHANGED <<file, synced>> /\ (UNCHANGED bounds \/ Fault)
    BY <1>3 DEF LinkOther, disk
  <2>7. run'.pc \in {"linking", "halflinked"}
    BY <1>1, <1>3 DEF LinkOther, RunSet
  <2> QED
    BY <2>5, <2>6, <2>7, FaultsGrow, LinkDurable
<1> QED
  BY <1>2, <1>3

------------------------------------------------------------------------------
(* Rows find durable files: classification. *)

ClassPc == IF session.mode = "copy" THEN "copying" ELSE "adopting"

\* The file in hand, read and unmoved.
LEMMA Reading ==
    ASSUME BasicInv, DurableInv, run.pc \in {"file"} \cup CopyPcs \cup {"adopting", "placing", "linked"}, Cur # None
    PROVE  run.at \in Place /\ Cur \in Content /\ run.source = Cur
  BY Known DEF DurableInv, HandKnown, HandRead, DiskTyped, Cur, FilePcs, CopyPcs

LEMMA ClassifyNewDurable == ASSUME BasicInv, DurableInv, ClassifyNew PROVE DurableInv'
<1>1. /\ UNCHANGED <<file, synced, row, outages, faults, session, cancelled>> /\ run.pc = "file" /\ Cur # None
      /\ Candidates = {}
  BY DEF ClassifyNew, disk, catalog, bounds
<1>2. run.at \in Place /\ Cur \in Content /\ run.source = Cur
  BY <1>1, Reading
<1>3. /\ run'.pc = ClassPc /\ run'.full \in {None, Cur}
      /\ run'.at = run.at /\ run'.source = run.source /\ run'.dest = run.dest
  BY Known DEF ClassifyNew, ClassPc, RunSet
<1>4. run'.pc \in {"copying", "adopting"} /\ Cur' = Cur
  BY <1>1, <1>3 DEF ClassPc, Cur
<1>5. HandRead' /\ HandCopied' /\ HandNamed'
  BY <1>1, <1>2, <1>3, <1>4 DEF HandRead, HandCopied, HandNamed, CopyPcs
<1>6. \A r \in Recorded : QuickOf[row[r].source] # QuickOf[Cur]
  BY <1>1 DEF Candidates
<1>7. Unclaimed(run.at) /\ \A r \in Recorded : row[r].source # run.source
  BY <1>2, <1>6 DEF DurableInv, RowsKnown, Unclaimed, Cur
<1>8. HandNew'
  BY <1>1, <1>3, <1>4, <1>7, UnclaimedSame DEF HandNew, Recorded
<1> QED
  BY <1>1, <1>5, <1>8, RowsKept DEF DurableInv, HandKnown

\* A hash taken of the archived file is what the row stands for.
LEMMA FilledIn ==
    ASSUME BasicInv, DurableInv, UNCHANGED <<file, synced, outages>>, faults' = 0 => faults = 0,
           Recorded' = Recorded,
           \A r \in Row : /\ row'[r].source = row[r].source /\ row'[r].place = row[r].place
                          /\ row'[r].origin = row[r].origin
                          /\ row'[r].full \in {row[r].full, FullOf(r)}
    PROVE  RowsKnown' /\ \A p : Unclaimed(p)' <=> Unclaimed(p)
<1>1. \A r \in Recorded : r \in Row /\ (Placed(r)' <=> Placed(r)) /\ (Claimed(r)' <=> Claimed(r))
  BY DEF Placed, Claimed, Recorded
<1>2. \A p : Unclaimed(p)' <=> Unclaimed(p)
  BY <1>1 DEF Unclaimed
<1>3. ASSUME NEW r \in Recorded
      PROVE  row'[r].full = row[r].full \/ (row[r].full = None /\ row'[r].full = file[row[r].place])
  BY <1>1 DEF FullOf
<1>4. ASSUME NEW r \in Recorded
      PROVE  /\ row'[r].source \in Content
             /\ Placed(r)' => row'[r].place \in synced'
             /\ Moving => row'[r].full # None
             /\ row'[r].full = None => Placed(r)'
             /\ Claimed(r)' => /\ file'[row'[r].place] # None
                               /\ QuickOf[file'[row'[r].place]] = QuickOf[row'[r].source]
                               /\ row'[r].full # None => file'[row'[r].place] = row'[r].full
             /\ faults' = 0 => /\ row'[r].full \in {None, row'[r].source}
                               /\ Claimed(r)' => file'[row'[r].place] = row'[r].source
  BY <1>1, <1>3 DEF DurableInv, RowsKnown, Claimed
<1>5. RowsKnown'
  BY <1>4 DEF RowsKnown
<1> QED
  BY <1>2, <1>5

LEMMA ClassifyKnownDurable == ASSUME BasicInv, DurableInv, ClassifyKnown PROVE DurableInv'
<1>1. UNCHANGED <<file, synced, session, cancelled>> /\ run.pc = "file" /\ Cur # None
  BY DEF ClassifyKnown, disk
<1>2. run.at \in Place /\ Cur \in Content /\ run.source = Cur
  BY <1>1, Reading
<1>3. PICK looked \in SUBSET Candidates :
         \E unread \in SUBSET looked : /\ Compared(looked, unread)
                                       /\ IF unread = {} \/ cancelled THEN UNCHANGED bounds ELSE Fault
  BY DEF ClassifyKnown
<1>4. PICK unread \in SUBSET looked : /\ Compared(looked, unread)
                                      /\ IF unread = {} \/ cancelled THEN UNCHANGED bounds ELSE Fault
  BY <1>3
<1>5. outages' = outages /\ (faults' = 0 => faults = 0)
  BY <1>4, FaultsGrow
<1>6. /\ Recorded' = Recorded
      /\ run'.at = run.at /\ run'.dest = run.dest /\ run'.source = run.source
      /\ \/ run'.pc = "skipping"
         \/ /\ run'.pc = ClassPc /\ run'.full = Cur /\ looked = Candidates
            /\ \A r \in looked \ unread : FullOf(r) = Cur => ~SamePath(r) /\ run'.match # None
      /\ \A r \in Row : /\ row'[r].source = row[r].source /\ row'[r].place = row[r].place
                        /\ row'[r].origin = row[r].origin
                        /\ row'[r].full \in {row[r].full, FullOf(r)}
  BY <1>1, <1>4, ComparedIs DEF ClassPc
<1>7. RowsKnown' /\ \A p : Unclaimed(p)' <=> Unclaimed(p)
  BY <1>1, <1>5, <1>6, FilledIn
<1>8. SyncedThere'
  BY <1>1 DEF DurableInv, SyncedThere
<1>9. CASE run'.pc = "skipping"
  BY <1>7, <1>8, <1>9, HandFree DEF DurableInv, HandPcs
<1>10. CASE /\ run'.pc = ClassPc /\ run'.full = Cur /\ looked = Candidates
            /\ \A r \in looked \ unread : FullOf(r) = Cur => ~SamePath(r) /\ run'.match # None
  <2>1. run'.pc \in {"copying", "adopting"} /\ Cur' = Cur
    BY <1>1, <1>6, <1>10 DEF ClassPc, Cur
  <2>2. HandRead' /\ HandCopied' /\ HandNamed'
    BY <1>1, <1>2, <1>6, <1>10, <2>1 DEF HandRead, HandCopied, HandNamed, CopyPcs
  <2>4. ASSUME Moving \/ Undisturbed' PROVE Unclaimed(run.at)
    <3> SUFFICES ASSUME NEW r \in Recorded, Claimed(r), row[r].place = run.at PROVE FALSE
      BY DEF Unclaimed
    <3>1. r \in Candidates /\ FullOf(r) = Cur
      BY <1>1 DEF DurableInv, RowsKnown, Candidates, FullOf, Cur
    <3>2. r \notin unread
      <4>1. CASE Moving
        BY <1>4, <3>1, <4>1 DEF DurableInv, RowsKnown, Compared
      <4>2. CASE Undisturbed'
        BY <1>1, <1>4, <4>2, Known, FaultTyped DEF Undisturbed
      <4> QED
        BY <2>4, <4>1, <4>2
    <3>3. ~SamePath(r)
      BY <1>10, <3>1, <3>2
    <3> QED
      BY <3>3 DEF SamePath
  <2>5. ASSUME run'.match = None, Undisturbed', NEW r \in Recorded PROVE row[r].source # run.source
    <3> SUFFICES ASSUME row[r].source = run.source PROVE FALSE
      OBVIOUS
    <3>1. faults = 0 /\ unread = {}
      BY <1>1, <1>4, <1>5, <2>5, Known, FaultTyped DEF Undisturbed
    <3>2. r \in Candidates /\ FullOf(r) = Cur
      BY <1>1, <1>2, <3>1 DEF DurableInv, RowsKnown, Candidates, FullOf, Claimed
    <3> QED
      BY <1>10, <2>5, <3>1, <3>2
  <2>6. HandNew'
    <3>1. (Moving \/ Undisturbed') => Unclaimed(run.at)'
      BY <1>6, <1>7, <2>4
    <3>2. run'.match = None /\ Undisturbed' => \A r \in Recorded' : row'[r].source # run'.source
      BY <1>6, <2>5 DEF Recorded
    <3> QED
      BY <2>1, <3>1, <3>2 DEF HandNew
  <2> QED
    BY <1>7, <1>8, <2>2, <2>6 DEF DurableInv, HandKnown
<1> QED
  BY <1>6, <1>9, <1>10

------------------------------------------------------------------------------
(* Rows find durable files: copying. *)

\* What every step of the hand but the last ones keeps of the operation.
LEMMA GotoKept ==
    ASSUME BasicInv, NEW pc \in Steps, Goto(pc), UNCHANGED file
    PROVE  /\ run'.pc = pc /\ run'.at = run.at /\ run'.full = run.full /\ run'.match = run.match
           /\ run'.dest = run.dest /\ run'.source = run.source /\ Cur' = Cur
  BY Known, GotoIs DEF Cur

LEMMA PartialDurable ==
    ASSUME BasicInv, DurableInv, OpenPartial \/ CopyDone \/ VerifyCopy
    PROVE  DurableInv'
<1>1. UNCHANGED <<file, synced, row, session, cancelled>> /\ run.pc \in {"copying", "writing", "copied"}
  BY DEF OpenPartial, CopyDone, VerifyCopy, disk, catalog
<1>2. outages' = outages /\ (faults' = 0 => faults = 0)
  <2>1. UNCHANGED bounds \/ Fault
    BY DEF OpenPartial, CopyDone, VerifyCopy
  <2> QED
    BY <2>1, FaultsGrow
<1>3. Cur # None /\ run.at \in Place /\ Cur \in Content /\ run.source = Cur
  BY <1>1, Reading DEF DurableInv, HandKnown, HandRead, CopyPcs
<1>4. /\ run'.pc \in {"writing", "copied", "verified"} /\ run'.at = run.at /\ run'.full = run.full
      /\ run'.match = run.match /\ run'.dest = run.dest /\ run'.source = run.source /\ Cur' = Cur
  <2>1. \E pc \in {"writing", "copied", "verified"} : Goto(pc) /\ pc \in Steps
    BY DEF OpenPartial, CopyDone, VerifyCopy, Steps
  <2> QED
    BY <1>1, <2>1, GotoKept
<1>5. HandRead'
  BY <1>1, <1>3, <1>4 DEF DurableInv, HandKnown, HandRead, CopyPcs
<1>6. HandCopied'
  <2>1. CASE OpenPartial
    <3>1. partial' = Cur /\ run'.pc = "writing"
      BY <2>1, GotoKept DEF OpenPartial, Steps
    <3> QED
      BY <1>3, <3>1 DEF HandCopied
  <2>2. CASE CopyDone
    <3>1. run'.pc = "copied"
      BY <1>1, <2>2, GotoKept DEF CopyDone, Steps
    <3>2. partial' \in Content /\ partial' # None
      BY <2>2, NoneAssumption DEF CopyDone
    <3>3. faults' = 0 => partial' = Cur
      BY <2>2, Known, FaultTyped DEF CopyDone
    <3> QED
      BY <1>3, <1>4, <3>1, <3>2, <3>3 DEF HandCopied
  <2>3. CASE VerifyCopy
    <3>1. run'.pc = "verified" /\ run.pc = "copied" /\ Verified /\ partial' = partial
      BY <1>1, <2>3, GotoKept DEF VerifyCopy, Steps, disk
    <3>2. Like(partial)'
      BY <1>3, <1>4, <3>1 DEF Verified, Like
    <3>3. partial # None /\ (faults = 0 => partial = run.source)
      BY <3>1 DEF DurableInv, HandKnown, HandCopied
    <3> QED
      BY <1>2, <1>4, <3>1, <3>2, <3>3 DEF HandCopied
  <2> QED
    BY <2>1, <2>2, <2>3
<1>7. HandNamed'
  BY <1>4 DEF HandNamed
<1>8. HandNew'
  <2>1. Undisturbed' => Undisturbed
    BY <1>1, <1>2 DEF Undisturbed
  <2>2. run.match = None /\ Undisturbed => \A r \in Recorded : row[r].source # run.source
    BY <1>1 DEF DurableInv, HandKnown, HandNew, CopyPcs
  <2> QED
    BY <1>1, <1>4, <2>1, <2>2 DEF HandNew, Recorded
<1> QED
  BY <1>1, <1>2, <1>5, <1>6, <1>7, <1>8, RowsKept DEF DurableInv, HandKnown

LEMMA PublishDurable == ASSUME BasicInv, DurableInv, Publish PROVE DurableInv'
<1>1. UNCHANGED <<row, session, cancelled>> /\ run.pc = "verified"
  BY DEF Publish, catalog
<1>2. Cur # None /\ run.at \in Place /\ Cur \in Content /\ run.source = Cur
  BY <1>1, Reading DEF DurableInv, HandKnown, HandRead, CopyPcs
<1>3. CASE Fault /\ Goto("failing") /\ UNCHANGED <<file, synced>>
  <2>1. run'.pc = "failing"
    BY <1>3, GotoKept DEF Steps
  <2> QED
    BY <1>1, <1>3, <2>1, FaultsGrow, Idles DEF HandPcs
<1>4. CASE \E s \in FreeSlots : /\ Create(s, partial)
                                /\ run' = [run EXCEPT !.pc = "published", !.dest = s]
                                /\ UNCHANGED <<partial, bounds>>
  <2>1. PICK s \in FreeSlots : /\ Create(s, partial)
                               /\ run' = [run EXCEPT !.pc = "published", !.dest = s]
                               /\ UNCHANGED <<partial, bounds>>
    BY <1>4
  <2>2. s \in Slot /\ s \in Place /\ s # run.at /\ Unclaimed(s)
    BY <1>2, FreeUnclaimed DEF FreeSlots, Place, Cur
  <2>3. /\ partial # None /\ Like(partial) /\ partial \in Content \cup {None}
        /\ faults = 0 => partial = run.source
    BY <1>1, Known DEF DurableInv, HandKnown, HandCopied, DiskTyped
  <2>4. /\ file'[s] = partial /\ \A q \in Place : q # s => file'[q] = file[q]
        /\ synced' = synced \ {s}
    BY <1>1, <2>1, <2>2, <2>3, Known DEF Create, DiskTyped
  <2>5. UNCHANGED <<outages, faults>>
    BY <2>1 DEF bounds
  <2>6. RowsKnown' /\ SyncedThere'
    BY <1>1, <2>2, <2>4, <2>5, RowsElsewhere
  <2>7. /\ run'.pc = "published" /\ run'.dest = s /\ run'.at = run.at /\ run'.full = run.full
        /\ run'.match = run.match /\ run'.source = run.source
    BY <2>1, <2>2, Named DEF Steps
  <2>8. Cur' = Cur
    BY <1>2, <2>2, <2>4, <2>7 DEF Cur
  <2>9. HandRead' /\ HandCopied'
    BY <1>1, <1>2, <2>7, <2>8 DEF DurableInv, HandKnown, HandRead, HandCopied, CopyPcs
  <2>10. HandNamed'
    <3>1. file'[run'.dest] # None /\ Like(file[run.dest])'
      BY <2>3, <2>4, <2>7 DEF Like
    <3>2. Unclaimed(run.dest)'
      BY <1>1, <2>2, <2>5, <2>7, UnclaimedSame
    <3> QED
      BY <1>2, <2>2, <2>3, <2>4, <2>5, <2>7, <3>1, <3>2 DEF HandNamed
  <2>11. HandNew'
    <3>1. run.match = None /\ Undisturbed => \A r \in Recorded : row[r].source # run.source
      BY <1>1 DEF DurableInv, HandKnown, HandNew, CopyPcs
    <3> QED
      BY <1>1, <2>5, <2>7, <3>1 DEF HandNew, Recorded, Undisturbed
  <2> QED
    BY <2>6, <2>9, <2>10, <2>11 DEF DurableInv, HandKnown
<1> QED
  BY <1>3, <1>4 DEF Publish

\* The new name has become durable.
LEMMA SyncDurable ==
    ASSUME BasicInv, DurableInv, UNCHANGED <<file, row, session, cancelled>>,
           run.pc \in {"published", "moved"}, Goto("recording"), synced' = synced \cup {run.dest},
           outages' = outages, faults' = 0 => faults = 0,
           run.pc = "published" => session.mode = "copy", run.pc = "moved" => session.mode = "adopt"
    PROVE  DurableInv'
<1>1. /\ run'.pc = "recording" /\ run'.at = run.at /\ run'.full = run.full /\ run'.match = run.match
      /\ run'.dest = run.dest /\ run'.source = run.source /\ Cur' = Cur
  BY GotoKept DEF Steps
<1>2. /\ run.dest \in Slot /\ run.dest # run.at /\ run.source \in Content
      /\ file[run.dest] # None /\ Like(file[run.dest]) /\ Unclaimed(run.dest)
      /\ faults = 0 => file[run.dest] = run.source
      /\ run.pc = "moved" => run.full # None
  BY DEF DurableInv, HandKnown, HandNamed, HandRead
<1>3. RowsKnown' /\ SyncedThere'
  <2>1. SyncedThere'
    BY <1>2 DEF DurableInv, SyncedThere
  <2>2. \A r \in Recorded : (Placed(r)' <=> Placed(r)) /\ (Claimed(r)' <=> Claimed(r))
    BY DEF Placed, Claimed
  <2>3. RowsKnown'
    BY <2>2 DEF DurableInv, RowsKnown, Recorded
  <2> QED
    BY <2>1, <2>3
<1>4. HandRead' /\ HandCopied'
  BY <1>1 DEF HandRead, HandCopied, CopyPcs
<1>5. HandNamed'
  <2>1. Like(file[run.dest])' /\ Unclaimed(run.dest)'
    BY <1>1, <1>2, UnclaimedSame DEF Like
  <2> QED
    BY <1>1, <1>2, <2>1 DEF HandNamed
<1>6. HandNew'
  <2>1. run.match = None /\ Undisturbed => \A r \in Recorded : row[r].source # run.source
    BY DEF DurableInv, HandKnown, HandNew, CopyPcs, AdoptPcs
  <2> QED
    BY <1>1, <1>2, <2>1 DEF HandNew, Recorded, Undisturbed
<1> QED
  BY <1>3, <1>4, <1>5, <1>6 DEF DurableInv, HandKnown

LEMMA SyncPublishedDurable == ASSUME BasicInv, DurableInv, SyncPublished PROVE DurableInv'
<1>1. UNCHANGED <<row, session, cancelled>> /\ run.pc = "published" /\ session.mode = "copy"
  BY DEF SyncPublished, catalog, BasicInv, RunKnown, CopyPcs
<1>2. outages' = outages /\ (faults' = 0 => faults = 0)
  <2>1. UNCHANGED bounds \/ Fault
    BY DEF SyncPublished
  <2> QED
    BY <2>1, FaultsGrow
<1>3. CASE synced' = synced \cup {run.dest} /\ Goto("recording") /\ UNCHANGED file
  BY <1>1, <1>2, <1>3, SyncDurable
<1>4. CASE Remove(run.dest) /\ Goto("failing")
  <2>1. run.dest \in Place /\ Unclaimed(run.dest)
    BY <1>1 DEF DurableInv, HandKnown, HandNamed, Place
  <2>2. synced' = synced \ {run.dest} /\ \A q \in Place : q # run.dest => file'[q] = file[q]
    BY <1>4, <2>1, Known DEF Remove, DiskTyped
  <2>3. run'.pc = "failing"
    BY <1>4, Known, GotoIs DEF Steps
  <2> QED
    BY <1>1, <1>2, <2>1, <2>2, <2>3, RowsElsewhere, HandFree DEF DurableInv, HandPcs
<1> QED
  BY <1>3, <1>4 DEF SyncPublished

------------------------------------------------------------------------------
(* Rows find durable files: adoption. *)

LEMMA BaselineDurable == ASSUME BasicInv, DurableInv, Baseline PROVE DurableInv'
<1>1. UNCHANGED <<file, synced, row, session, cancelled>> /\ run.pc = "adopting"
  BY DEF Baseline, disk, catalog
<1>2. Cur # None /\ run.at \in Place /\ Cur \in Content /\ run.source = Cur
  BY <1>1, Reading DEF DurableInv, HandKnown, HandRead, CopyPcs
<1>3. CASE run' = [run EXCEPT !.pc = "placing", !.full = Cur] /\ UNCHANGED bounds
  <2>1. /\ run'.pc = "placing" /\ run'.full = Cur /\ run'.at = run.at /\ run'.match = run.match
        /\ run'.dest = run.dest /\ run'.source = run.source
    BY <1>3, Known DEF RunSet
  <2>2. Cur' = Cur /\ UNCHANGED <<outages, faults>>
    BY <1>1, <1>3, <2>1 DEF Cur, bounds
  <2>3. HandRead' /\ HandCopied' /\ HandNamed'
    BY <1>2, <2>1, <2>2 DEF HandRead, HandCopied, HandNamed, CopyPcs
  <2>4. HandNew'
    <3>1. /\ Moving \/ Undisturbed => Unclaimed(run.at)
          /\ run.match = None /\ Undisturbed => \A r \in Recorded : row[r].source # run.source
      BY <1>1 DEF DurableInv, HandKnown, HandNew, AdoptPcs
    <3>2. Unclaimed(run.at)' <=> Unclaimed(run.at)
      BY <1>1, <2>1, <2>2, UnclaimedSame
    <3> QED
      BY <1>1, <2>1, <2>2, <3>1, <3>2 DEF HandNew, Recorded, Undisturbed
  <2> QED
    BY <1>1, <2>2, <2>3, <2>4, RowsKept DEF DurableInv, HandKnown
<1>4. CASE Goto("failing") /\ (UNCHANGED bounds \/ Fault)
  <2>1. run'.pc = "failing"
    BY <1>1, <1>4, GotoKept DEF Steps
  <2> QED
    BY <1>1, <1>4, <2>1, FaultsGrow, Idles DEF HandPcs
<1> QED
  BY <1>3, <1>4 DEF Baseline

LEMMA StayInPlaceDurable == ASSUME BasicInv, DurableInv, StayInPlace PROVE DurableInv'
<1>1. /\ UNCHANGED <<file, synced, row, session, cancelled, outages, faults>> /\ run.pc = "placing"
      /\ run' = [run EXCEPT !.pc = "recording", !.dest = run.at] /\ session.mode = "adopt"
  BY DEF StayInPlace, disk, catalog, bounds, BasicInv, RunKnown, AdoptPcs
<1>2. /\ Cur # None /\ run.at \in Place /\ Cur \in Content /\ run.source = Cur
      /\ run.full = Cur /\ run.full # None
  BY <1>1, Reading DEF DurableInv, HandKnown, HandRead, CopyPcs
<1>3. /\ run'.pc = "recording" /\ run'.dest = run.at /\ run'.at = run.at /\ run'.full = run.full
      /\ run'.match = run.match /\ run'.source = run.source
  BY <1>1, <1>2, Named DEF Steps
<1>4. HandRead' /\ HandCopied'
  BY <1>3 DEF HandRead, HandCopied, CopyPcs
<1>5. HandNamed'
  <2>1. Like(file[run.dest])' /\ file'[run'.dest] = Cur
    BY <1>1, <1>2, <1>3 DEF Like, Cur
  <2> QED
    BY <1>1, <1>2, <1>3, <2>1 DEF HandNamed
<1>6. HandNew'
  <2>1. /\ Undisturbed => Unclaimed(run.at)
        /\ run.match = None /\ Undisturbed => \A r \in Recorded : row[r].source # run.source
    BY <1>1 DEF DurableInv, HandKnown, HandNew, AdoptPcs
  <2>2. Unclaimed(run.dest)' <=> Unclaimed(run.at)
    BY <1>1, <1>3, UnclaimedSame
  <2> QED
    BY <1>1, <1>3, <2>1, <2>2 DEF HandNew, Recorded, Undisturbed
<1> QED
  BY <1>1, <1>4, <1>5, <1>6, RowsKept DEF DurableInv, HandKnown

LEMMA MoveLinkDurable == ASSUME BasicInv, DurableInv, MoveLink PROVE DurableInv'
<1>1. UNCHANGED <<row, session, cancelled>> /\ run.pc = "placing" /\ session.reorganize
  BY DEF MoveLink, catalog
<1>2. /\ Cur # None /\ run.at \in Place /\ Cur \in Content /\ run.source = Cur
      /\ run.full = Cur /\ run.full # None
  BY <1>1, Reading DEF DurableInv, HandKnown, HandRead, CopyPcs
<1>3. CASE Fault /\ Goto("failing") /\ UNCHANGED <<file, synced>>
  <2>1. run'.pc = "failing"
    BY <1>3, GotoKept DEF Steps
  <2> QED
    BY <1>1, <1>3, <2>1, FaultsGrow, Idles DEF HandPcs
<1>4. CASE \E s \in FreeSlots : /\ Create(s, Cur)
                                /\ run' = [run EXCEPT !.pc = "linked", !.dest = s]
                                /\ UNCHANGED bounds
  <2>1. PICK s \in FreeSlots : /\ Create(s, Cur)
                               /\ run' = [run EXCEPT !.pc = "linked", !.dest = s]
                               /\ UNCHANGED bounds
    BY <1>4
  <2>2. s \in Slot /\ s \in Place /\ s # run.at /\ Unclaimed(s)
    BY <1>2, FreeUnclaimed DEF FreeSlots, Place, Cur
  <2>3. file'[s] = Cur /\ (\A q \in Place : q # s => file'[q] = file[q]) /\ synced' = synced \ {s}
    BY <2>1, <2>2, Known DEF Create, DiskTyped
  <2>4. UNCHANGED <<outages, faults>>
    BY <2>1 DEF bounds
  <2>5. RowsKnown' /\ SyncedThere'
    BY <1>1, <2>2, <2>3, <2>4, RowsElsewhere
  <2>6. /\ run'.pc = "linked" /\ run'.dest = s /\ run'.at = run.at /\ run'.full = run.full
        /\ run'.match = run.match /\ run'.source = run.source
    BY <2>1, <2>2, Named DEF Steps
  <2>7. Cur' = Cur
    BY <1>2, <2>2, <2>3, <2>6 DEF Cur
  <2>8. HandRead' /\ HandCopied'
    BY <1>2, <2>6, <2>7 DEF HandRead, HandCopied, CopyPcs
  <2>9. HandNamed'
    <3>1. file'[run'.dest] # None /\ Like(file[run.dest])'
      BY <1>2, <2>3, <2>6 DEF Like
    <3>2. Unclaimed(run.dest)'
      BY <1>1, <2>2, <2>4, <2>6, UnclaimedSame
    <3> QED
      BY <1>1, <1>2, <2>2, <2>3, <2>6, <3>1, <3>2 DEF HandNamed
  <2>10. HandNew'
    <3>1. /\ Moving \/ Undisturbed => Unclaimed(run.at)
          /\ run.match = None /\ Undisturbed => \A r \in Recorded : row[r].source # run.source
      BY <1>1 DEF DurableInv, HandKnown, HandNew, AdoptPcs
    <3>2. Unclaimed(run.at)' <=> Unclaimed(run.at)
      BY <1>1, <2>4, <2>6, UnclaimedSame
    <3> QED
      BY <1>1, <2>4, <2>6, <3>1, <3>2 DEF HandNew, Recorded, Undisturbed
  <2> QED
    BY <2>5, <2>8, <2>9, <2>10 DEF DurableInv, HandKnown
<1> QED
  BY <1>3, <1>4 DEF MoveLink

\* The operation's options are one of the plans.
LEMMA PlanKnown ==
    ASSUME BasicInv, Active
    PROVE  /\ session.mode = "adopt" /\ session.reorganize => Moving
           /\ Unmixed /\ Moving => session.mode = "adopt"
<1> DEFINE o == [mode |-> session.mode, reorganize |-> session.reorganize]
<1>1. o \in Plan /\ o.mode = session.mode /\ o.reorganize = session.reorganize
  BY DEF BasicInv, SessionKnown
<1> QED
  BY <1>1 DEF Moving, Unmixed

LEMMA MoveUnlinkDurable == ASSUME BasicInv, DurableInv, MoveUnlink PROVE DurableInv'
<1>1. /\ UNCHANGED <<row, session, cancelled>> /\ run.pc = "linked" /\ session.mode = "adopt"
  BY DEF MoveUnlink, catalog, BasicInv, RunKnown, AdoptPcs
<1>2. Cur # None /\ run.at \in Place /\ run.source = Cur /\ run.full # None
  BY <1>1, Reading DEF DurableInv, HandKnown, HandRead, CopyPcs
<1>3. CASE Fault /\ Goto("failing") /\ UNCHANGED <<file, synced>>
  <2>1. run'.pc = "failing"
    BY <1>3, GotoKept DEF Steps
  <2> QED
    BY <1>1, <1>3, <2>1, FaultsGrow, Idles DEF HandPcs
<1>4. CASE Remove(run.at) /\ Goto("moved") /\ UNCHANGED bounds
  <2>1. Moving /\ Unclaimed(run.at)
    BY <1>1, PlanKnown DEF DurableInv, HandKnown, HandNamed, HandNew, Active
  <2>2. (\A q \in Place : q # run.at => file'[q] = file[q]) /\ synced' = synced \ {run.at}
    BY <1>2, <1>4, Known DEF Remove, DiskTyped
  <2>3. UNCHANGED <<outages, faults>>
    BY <1>4 DEF bounds
  <2>4. RowsKnown' /\ SyncedThere'
    BY <1>1, <1>2, <2>1, <2>2, <2>3, RowsElsewhere
  <2>5. /\ run'.pc = "moved" /\ run'.dest = run.dest /\ run'.at = run.at /\ run'.full = run.full
        /\ run'.match = run.match /\ run'.source = run.source
    BY <1>4, Known, GotoIs DEF Steps
  <2>6. HandRead' /\ HandCopied'
    BY <1>2, <2>5 DEF HandRead, HandCopied, CopyPcs
  <2>7. HandNamed'
    <3>1. /\ run.dest \in Slot /\ run.dest # run.at /\ run.source \in Content
          /\ file[run.dest] # None /\ Like(file[run.dest]) /\ Unclaimed(run.dest)
          /\ faults = 0 => file[run.dest] = run.source
      BY <1>1 DEF DurableInv, HandKnown, HandNamed
    <3>2. file'[run'.dest] = file[run.dest]
      BY <2>2, <2>5, <3>1 DEF Place
    <3>3. Like(file[run.dest])' /\ Unclaimed(run.dest)'
      BY <1>1, <2>3, <2>5, <3>1, <3>2, UnclaimedSame DEF Like
    <3> QED
      BY <2>3, <2>5, <3>1, <3>2, <3>3 DEF HandNamed
  <2>8. HandNew'
    <3>1. run.match = None /\ Undisturbed => \A r \in Recorded : row[r].source # run.source
      BY <1>1 DEF DurableInv, HandKnown, HandNew, AdoptPcs
    <3> QED
      BY <1>1, <2>3, <2>5, <3>1 DEF HandNew, Recorded, Undisturbed
  <2> QED
    BY <2>4, <2>6, <2>7, <2>8 DEF DurableInv, HandKnown
<1> QED
  BY <1>3, <1>4 DEF MoveUnlink

LEMMA MoveSyncDurable == ASSUME BasicInv, DurableInv, MoveSync PROVE DurableInv'
<1>1. UNCHANGED <<file, row, session, cancelled>> /\ run.pc = "moved" /\ session.mode = "adopt"
  BY DEF MoveSync, catalog, BasicInv, RunKnown, AdoptPcs
<1>2. outages' = outages /\ (faults' = 0 => faults = 0)
  <2>1. UNCHANGED bounds \/ Fault
    BY DEF MoveSync
  <2> QED
    BY <2>1, FaultsGrow
<1>3. CASE synced' = synced \cup {run.dest} /\ Goto("recording")
  BY <1>1, <1>2, <1>3, SyncDurable
<1>4. CASE synced' \in {synced, synced \cup {run.dest}} /\ Goto("failing")
  <2>1. run'.pc = "failing"
    BY <1>1, <1>4, GotoKept DEF Steps
  <2>2. file[run.dest] # None
    BY <1>1 DEF DurableInv, HandKnown, HandNamed
  <2>3. SyncedThere'
    BY <1>1, <1>4, <2>2 DEF DurableInv, SyncedThere
  <2>4. \A r \in Recorded : (Placed(r)' <=> Placed(r)) /\ (Claimed(r)' <=> Claimed(r))
    BY <1>1, <1>2 DEF Placed, Claimed
  <2>5. RowsKnown'
    BY <1>1, <1>2, <1>4, <2>4 DEF DurableInv, RowsKnown, Recorded
  <2> QED
    BY <2>1, <2>3, <2>5, HandFree DEF DurableInv, HandPcs
<1> QED
  BY <1>3, <1>4 DEF MoveSync

------------------------------------------------------------------------------
(* Rows find durable files: recording. *)

LEMMA RecordDurable == ASSUME BasicInv, DurableInv, Unmixed, Record PROVE DurableInv'
<1>1. UNCHANGED <<file, synced, outages, faults>> /\ run.pc = "recording" /\ Active
  BY DEF Record, disk, bounds, Active
<1>2. PICK r \in FreeRows :
         /\ row' = [row EXCEPT ![r] = [source |-> run.source, place |-> run.dest,
                                       origin |-> run.at, full |-> run.full,
                                       original |-> run.match, partner |-> None]]
         /\ FileDone(r)
  BY DEF Record
<1>3. r \in Row /\ r \notin Recorded /\ row \in [Row -> RowSet] /\ run.at \in Place /\ run.dest \in Place
  BY <1>1, Known DEF FreeRows, FilePcs, BasicInv, RunKnown
<1>4. /\ row'[r].source = run.source /\ row'[r].place = run.dest /\ row'[r].origin = run.at
      /\ row'[r].full = run.full
      /\ \A q \in Row : q # r => row'[q] = row[q]
  BY <1>2, <1>3
<1>5. Recorded' \subseteq Recorded \cup {r}
  BY <1>3, <1>4 DEF Recorded
<1>6. /\ run.source \in Content /\ file[run.dest] # None /\ Like(file[run.dest])
      /\ faults = 0 => file[run.dest] = run.source
      /\ run.dest # run.at => run.dest \in synced
      /\ session.mode = "copy" => run.dest # run.at
      /\ session.mode = "adopt" => run.full # None
  BY <1>1 DEF DurableInv, HandKnown, HandNamed
<1>7. ASSUME NEW q \in Recorded'
      PROVE  /\ row'[q].source \in Content
             /\ Placed(q)' => row'[q].place \in synced'
             /\ Moving => row'[q].full # None
             /\ row'[q].full = None => Placed(q)'
             /\ Claimed(q)' => /\ file'[row'[q].place] # None
                               /\ QuickOf[file'[row'[q].place]] = QuickOf[row'[q].source]
                               /\ row'[q].full # None => file'[row'[q].place] = row'[q].full
             /\ faults' = 0 => /\ row'[q].full \in {None, row'[q].source}
                               /\ Claimed(q)' => file'[row'[q].place] = row'[q].source
  <2>1. CASE q = r
    <3>1. Placed(q)' <=> run.dest # run.at
      BY <1>4, <2>1 DEF Placed
    <3>2. Moving => run.full # None
      BY <1>1, <1>6, PlanKnown
    <3>3. run.full = None => run.dest # run.at
      BY <1>6, ModeKnown
    <3> QED
      BY <1>1, <1>4, <1>6, <2>1, <3>1, <3>2, <3>3 DEF Like
  <2>2. CASE q # r
    <3>1. q \in Recorded /\ row'[q] = row[q]
      BY <1>4, <1>5, <2>2 DEF Recorded
    <3> QED
      BY <1>1, <3>1 DEF DurableInv, RowsKnown, Placed, Claimed
  <2> QED
    BY <2>1, <2>2
<1>8. RowsKnown' /\ SyncedThere'
  BY <1>1, <1>7 DEF DurableInv, RowsKnown, SyncedThere
<1>9. run'.pc \in {"resolved", "next"}
  BY <1>2, Known DEF FileDone, RunSet
<1> QED
  BY <1>8, <1>9, HandFree DEF DurableInv, HandPcs

LEMMA RecordFailsDurable == ASSUME BasicInv, DurableInv, RecordFails PROVE DurableInv'
<1>1. UNCHANGED row /\ run.pc = "recording" /\ Goto("failing") /\ run.dest \in Place
  BY DEF RecordFails, catalog, BasicInv, RunKnown
<1>2. outages' = outages /\ (faults' = 0 => faults = 0)
  <2>1. UNCHANGED bounds \/ Fault
    BY DEF RecordFails
  <2> QED
    BY <2>1, FaultsGrow
<1>3. run'.pc = "failing"
  BY <1>1, Known, GotoIs DEF Steps
<1>4. CASE session.mode = "copy"
  <2>1. Unclaimed(run.dest)
    BY <1>1, <1>4 DEF DurableInv, HandKnown, HandNamed
  <2>2. synced' = synced \ {run.dest} /\ \A q \in Place : q # run.dest => file'[q] = file[q]
    BY <1>1, <1>4, Known DEF RecordFails, Remove, DiskTyped
  <2> QED
    BY <1>1, <1>2, <1>3, <2>1, <2>2, RowsElsewhere, HandFree DEF DurableInv, HandPcs
<1>5. CASE session.mode # "copy"
  <2>1. UNCHANGED <<file, synced>>
    BY <1>5 DEF RecordFails
  <2> QED
    BY <1>1, <1>2, <1>3, <2>1, Idles DEF HandPcs
<1> QED
  BY <1>4, <1>5

LEMMA PowerLossDurable == ASSUME BasicInv, DurableInv, PowerLoss PROVE DurableInv'
<1>1. UNCHANGED <<row, faults>> /\ run' = NoRun /\ outages' = outages + 1
  BY DEF PowerLoss, Stopped, catalog
<1>2. PICK lost \in SUBSET (Place \ synced) :
         file' = [p \in Place |-> IF p \in lost THEN None ELSE file[p]]
  BY DEF PowerLoss
<1>3. synced' = {p \in Place : file'[p] # None} /\ synced \subseteq Place
  BY Known DEF PowerLoss, DiskTyped
<1>4. \A p \in synced : file'[p] = file[p] /\ p \in synced'
  BY <1>2, <1>3 DEF DurableInv, SyncedThere
<1>5. outages' # 0
  <2>1. outages \in Nat
    BY TypesAre, BoundAssumption DEF BasicInv, BoundsTyped
  <2> QED
    BY <1>1, <2>1
<1>6. \A r \in Recorded : (Placed(r)' <=> Placed(r)) /\ (Claimed(r)' <=> Placed(r))
  BY <1>1, <1>5 DEF Placed, Claimed
<1>7. RowsKnown'
  BY <1>1, <1>4, <1>6 DEF DurableInv, RowsKnown, Recorded, Claimed
<1>8. SyncedThere'
  BY <1>3 DEF SyncedThere
<1>9. HandKnown'
  BY <1>1, NoRunTyped, HandFree DEF HandPcs
<1> QED
  BY <1>7, <1>8, <1>9 DEF DurableInv

LEMMA UserDurable ==
    ASSUME BasicInv, DurableInv, Crash \/ Open \/ UserStep \/ \E q \in Request : RetryRun(q)
    PROVE  DurableInv'
<1>1. CASE Crash
  <2>1. UNCHANGED <<file, synced, row, outages, faults>> /\ run' = NoRun
    BY <1>1 DEF Crash, Stopped, catalog
  <2> QED
    BY <2>1, NoRunTyped, Idles DEF HandPcs
<1>2. CASE Open
  <2>1. /\ UNCHANGED <<file, synced, partial, row, outages, faults, run, cancelled>>
        /\ session' = [session EXCEPT !.status = IF @ = "running" THEN "interrupted" ELSE @]
    BY <1>2 DEF Open, disk, memory, bounds
  <2>2. session'.mode = session.mode /\ session'.reorganize = session.reorganize
    BY <2>1, Known DEF SessionSet
  <2> QED
    BY <2>1, <2>2, Stays
<1>3. CASE \E plan \in Plan : StartImport(plan)
  <2>1. UNCHANGED <<file, synced, row, outages, faults>> /\ Goto("preparing")
    BY <1>3 DEF StartImport, UserRequest, disk
  <2>2. run'.pc = "preparing"
    BY <2>1, GotoKept DEF Steps
  <2> QED
    BY <2>1, <2>2, Idles DEF HandPcs
<1>4. CASE Resume
  <2>1. UNCHANGED <<file, synced, row, outages, faults>> /\ Goto("preparing")
    BY <1>4 DEF Resume, UserRequest, disk, catalog
  <2>2. run'.pc = "preparing"
    BY <2>1, GotoKept DEF Steps
  <2> QED
    BY <2>1, <2>2, Idles DEF HandPcs
<1>5. CASE CancelImport \/ (\E q \in Request, f \in Failure : RetryCheck(q, f)) \/ \E f \in Failure : Dismiss(f)
  <2>1. /\ UNCHANGED <<file, synced, partial, row, session, outages, faults, run>>
        /\ cancelled => cancelled'
    BY <1>5 DEF CancelImport, RetryCheck, Dismiss, UserRequest, disk, catalog, memory
  <2> QED
    BY <2>1, Stays
<1>6. CASE \E q \in Request : RetryRun(q)
  <2>1. PICK q \in Request : RetryRun(q)
    BY <1>6
  <2>2. UNCHANGED <<file, synced, partial, row, session, outages, faults>> /\ asked[q] # None
    BY <2>1 DEF RetryRun, disk, catalog, bounds
  <2>3. CASE Active
    <3>1. UNCHANGED <<cancelled, run>>
      BY <2>1, <2>3 DEF RetryRun
    <3> QED
      BY <2>2, <3>1, Stays
  <2>4. CASE ~Active
    <3>1. run'.pc = "file" /\ run'.source = file[run'.at]
      <4>1. run' = [NoRun EXCEPT !.pc = "file", !.retry = asked[q], !.call = q,
                                 !.at = failure[asked[q]].path,
                                 !.source = file[failure[asked[q]].path]]
        BY <2>1, <2>4 DEF RetryRun
      <4> QED
        BY <4>1 DEF NoRun
    <3> QED
      BY <2>2, <3>1, Idles DEF HandPcs, Cur
  <2> QED
    BY <2>3, <2>4
<1> QED
  BY <1>1, <1>2, <1>3, <1>4, <1>5, <1>6 DEF UserStep

LEMMA StepDurable == ASSUME BasicInv, DurableInv, Unmixed, [Next]_vars PROVE DurableInv'
<1>1. CASE Crash \/ Open \/ UserStep \/ \E q \in Request : RetryRun(q)
  BY <1>1, UserDurable
<1>2. CASE PowerLoss
  BY <1>2, PowerLossDurable
<1>3. CASE UNCHANGED vars
  BY <1>3, Stays DEF vars, disk, catalog, memory, bounds
<1>4. CASE PipelineStep
  <2>1. CASE \/ Prepare \/ Scan \/ StopEarly \/ Abort \/ LoopEnds \/ Complete \/ ClassifyFails \/ Skip
             \/ RecordFailure \/ MarkRetried \/ Uncount
    BY <2>1, LoopDurable
  <2>2. CASE \/ ClassifyNew \/ ClassifyKnown \/ Record \/ RecordFails \/ LinkOther
             \/ (\E p \in Path : LinkOne(p)) \/ \E p \in Place : NextFile(p)
    BY <2>2, ClassifyNewDurable, ClassifyKnownDurable, RecordDurable, RecordFailsDurable, LinksDurable,
       NextFileDurable
  <2>3. CASE CopyStep
    BY <2>3, LoopDurable, PartialDurable, PublishDurable, SyncPublishedDurable DEF CopyStep
  <2>4. CASE AdoptStep
    BY <2>4, BaselineDurable, StayInPlaceDurable, MoveLinkDurable, MoveUnlinkDurable, MoveSyncDurable
       DEF AdoptStep
  <2> QED
    BY <1>4, <2>1, <2>2, <2>3, <2>4 DEF PipelineStep
<1> QED
  BY <1>1, <1>2, <1>3, <1>4 DEF Next

LEMMA InitDurable == Init => DurableInv
<1> SUFFICES ASSUME Init PROVE DurableInv
  OBVIOUS
<1>1. \A p \in synced : file[p] # None
  <2>1. \A p \in Path : p \in Place /\ StartFile[p] \in Content /\ StartFile[p] # None
    BY FileAssumption, NoneAssumption DEF Place
  <2>2. synced = Path /\ file = [p \in Place |-> IF p \in Path THEN StartFile[p] ELSE None]
    BY DEF Init
  <2> QED
    BY <2>1, <2>2
<1>2. Recorded = {}
  BY DEF Init, Recorded
<1>3. HandKnown
  <2>1. run.pc = "idle"
    BY NoRunTyped DEF Init
  <2> QED
    BY <2>1 DEF HandKnown, HandRead, HandCopied, HandNamed, HandNew, CopyPcs, AdoptPcs
<1> QED
  BY <1>1, <1>2, <1>3 DEF DurableInv, SyncedThere, RowsKnown

LEMMA DurableHolds == ASSUME Unmixed PROVE Spec => [](BasicInv /\ DurableInv)
<1>1. Init => BasicInv /\ DurableInv
  BY InitBasic, InitDurable
<1>2. BasicInv /\ DurableInv /\ [Next]_vars => (BasicInv /\ DurableInv)'
  BY StepBasic, StepDurable
<1> QED
  BY <1>1, <1>2, PTL DEF Spec

\* A row is never ahead of the disk (recordAsset after publish and fsyncDir, or after
\* the move of reorganizeInPlace): where it says a file was put there is one no loss
\* of power can take, with the hashes the row has.  Only imports by copy mixed with
\* adoptions that move files are left out: there the run import_archived shows an
\* adoption that moves an archived file away from its row.
THEOREM RecordedIsDurableCorrect ==
    ASSUME Unmixed PROVE Spec => []RecordedIsDurable
<1>1. DurableInv => RecordedIsDurable
  BY DEF DurableInv, RowsKnown, RecordedIsDurable, Placed, Claimed
<1> QED
  BY <1>1, DurableHolds, PTL

------------------------------------------------------------------------------
(* No content twice, none lost, nothing left behind: the common shapes of a step. *)

\* The files stay, and the rows with what they stand for.
LEMMA KeptSame ==
    ASSUME BasicInv, KeptInv, UNCHANGED file, Recorded' = Recorded,
           \A r \in Row : /\ row'[r].source = row[r].source /\ row'[r].place = row[r].place
                          /\ row'[r].original = row[r].original,
           outages' = 0 => outages = 0, faults' = 0 => faults = 0, crashes' = 0 => crashes = 0,
           Quiet' => OnHand' = OnHand /\ (stray' => stray),
           Written' => Written /\ run'.dest = run.dest,
           partial' # None => run'.pc \in PartialPcs
    PROVE  KeptInv'
<1>1. \A r \in Recorded : r \in Row
  BY DEF Recorded
<1>2. OneRowPerContent'
  BY <1>1 DEF KeptInv, OneRowPerContent
<1>3. ContentKept' /\ Spare' /\ PathsKept' /\ PartialHeld'
  BY DEF KeptInv, ContentKept, Spare, PathsKept, PartialHeld
<1>4. Balance'
  <2> SUFFICES ASSUME Quiet'
               PROVE  /\ ~stray'
                      /\ \A c \in Content : /\ IsFiniteSet(Loose(c))' /\ IsFiniteSet(Gone(c))'
                                            /\ (Cardinality(Loose(c)) <= Cardinality(Gone(c)))'
    BY DEF Balance
  <2>1. Quiet
    BY DEF Quiet
  <2>2. OnHand' = OnHand /\ (stray' => stray)
    OBVIOUS
  <2>3. ASSUME NEW c \in Content PROVE Loose(c)' = Loose(c) /\ Gone(c)' = Gone(c)
    <3>1. \A s : (\A r \in Recorded' : row'[r].place # s) <=> \A r \in Recorded : row[r].place # s
      BY <1>1
    <3>2. Loose(c)' = Loose(c)
      BY <2>2, <3>1 DEF Loose
    <3> QED
      BY <3>2 DEF Gone
  <2> QED
    BY <2>1, <2>2, <2>3 DEF KeptInv, Balance
<1> QED
  BY <1>2, <1>3, <1>4 DEF KeptInv

\* ... and nothing of the hand has a new name before or after.
LEMMA KeptCalm ==
    ASSUME BasicInv, KeptInv, UNCHANGED <<file, row, outages>>, faults' = 0 => faults = 0,
           crashes' = 0 => crashes = 0, Quiet' => (stray' => stray),
           Quiet' => run.pc \notin {"published", "linked", "recording"},
           run'.pc \notin {"published", "linked", "recording"},
           partial' # None => run'.pc \in PartialPcs
    PROVE  KeptInv'
<1>1. Quiet' => OnHand' = OnHand
  BY DEF OnHand, Written
<1>2. ~Written' /\ Recorded' = Recorded
  BY DEF Written, Recorded
<1> QED
  BY <1>1, <1>2, KeptSame

\* The operation stays where it is.
LEMMA KeptStays ==
    ASSUME BasicInv, KeptInv, UNCHANGED <<file, partial, stray, row, outages, crashes, faults, run>>,
           session'.mode = session.mode
    PROVE  KeptInv'
<1>1. OnHand' = OnHand /\ (Written' <=> Written) /\ Recorded' = Recorded
  BY DEF OnHand, Written, Recorded
<1> QED
  BY <1>1, KeptSame DEF KeptInv, PartialHeld

LEMMA LoopKept ==
    ASSUME BasicInv, KeptInv,
           \/ Prepare \/ Scan \/ StopEarly \/ Abort \/ LoopEnds \/ Complete \/ ClassifyFails \/ Skip
           \/ RecordFailure \/ MarkRetried \/ Uncount \/ CopyRefused \/ CopyGivenUp \/ VerifyFails
    PROVE  KeptInv'
<1>1. partial' = None
  BY LoopIs DEF KeptInv, PartialHeld
<1> QED
  BY <1>1, LoopIs, KeptCalm DEF HandPcs

LEMMA NextFileKept == ASSUME BasicInv, KeptInv, NEW p \in Place, NextFile(p) PROVE KeptInv'
<1>1. UNCHANGED <<file, row, outages, faults, crashes, stray, partial>> /\ run.pc = "next" /\ run'.pc = "file"
  BY Known DEF NextFile, disk, catalog, bounds, RunSet
<1>2. partial' = None
  BY <1>1 DEF KeptInv, PartialHeld, PartialPcs
<1> QED
  BY <1>1, <1>2, KeptCalm

LEMMA ClassifyNewKept == ASSUME BasicInv, KeptInv, ClassifyNew PROVE KeptInv'
<1>1. /\ UNCHANGED <<file, row, outages, faults, crashes, stray, partial>> /\ run.pc = "file"
      /\ run'.pc = ClassPc
  BY Known DEF ClassifyNew, ClassPc, disk, catalog, bounds, RunSet
<1>2. partial' = None /\ run'.pc \in {"copying", "adopting"}
  BY <1>1 DEF KeptInv, PartialHeld, PartialPcs, ClassPc
<1> QED
  BY <1>1, <1>2, KeptCalm

LEMMA ClassifyKnownKept == ASSUME BasicInv, KeptInv, ClassifyKnown PROVE KeptInv'
<1>1. /\ UNCHANGED <<file, stray, partial>> /\ run.pc = "file" /\ Cur # None
  BY DEF ClassifyKnown, disk
<1>2. UNCHANGED <<outages, crashes>> /\ (faults' = 0 => faults = 0)
  <2>1. UNCHANGED bounds \/ Fault
    BY DEF ClassifyKnown
  <2> QED
    BY <2>1, FaultsGrow
<1>3. PICK looked \in SUBSET Candidates :
         \E unread \in SUBSET looked : Compared(looked, unread)
  BY DEF ClassifyKnown
<1>4. PICK unread \in SUBSET looked : Compared(looked, unread)
  BY <1>3
<1>5. /\ Recorded' = Recorded
      /\ run'.pc \in {"skipping", ClassPc}
      /\ \A r \in Row : /\ row'[r].source = row[r].source /\ row'[r].place = row[r].place
                        /\ row'[r].original = row[r].original
  BY <1>1, <1>4, ComparedIs DEF ClassPc
<1>6. run'.pc \in {"skipping", "copying", "adopting"} /\ partial' = None
  BY <1>1, <1>5 DEF ClassPc, KeptInv, PartialHeld, PartialPcs
<1>7. OnHand' = OnHand /\ ~Written'
  BY <1>1, <1>6 DEF OnHand, Written
<1> QED
  BY <1>1, <1>2, <1>5, <1>6, <1>7, KeptSame

LEMMA LinksKept ==
    ASSUME BasicInv, KeptInv, (\E p \in Path : LinkOne(p)) \/ LinkOther
    PROVE  KeptInv'
<1>1. /\ UNCHANGED <<file, stray, partial>> /\ run.pc \in {"linking", "halflinked"}
      /\ UNCHANGED bounds \/ Fault
  BY DEF LinkOne, LinkOther, disk
<1>2. run \in RunSet
  BY Known
<1>3. run'.pc \in {"linking", "halflinked"}
  BY <1>1, <1>2 DEF LinkOne, LinkOther, RunSet
<1>4. \/ UNCHANGED row
      \/ \E r \in Recorded, s \in Row \cup {None} : row' = [row EXCEPT ![r].partner = s]
  <2>1. CASE \E p \in Path : LinkOne(p)
    <3>1. PICK p \in Path : LinkOne(p)
      BY <2>1
    <3>2. Linkable(p)
      BY <3>1 DEF LinkOne, BasicInv, RunKnown
    <3>3. run.got[p] \in Recorded /\ run.got[PartnerOf[p]] \in Row
      BY <3>2, Linked DEF Recorded
    <3> QED
      BY <3>1, <3>3 DEF LinkOne
  <2>2. CASE LinkOther
    <3>1. Linkable(run.at)
      BY <2>2 DEF LinkOther, BasicInv, RunKnown
    <3>2. run.got[PartnerOf[run.at]] \in Recorded /\ run.got[run.at] \in Row
      BY <3>1, Linked DEF Recorded
    <3> QED
      BY <2>2, <3>2 DEF LinkOther
  <2> QED
    BY <2>1, <2>2
<1>5. /\ Recorded' = Recorded
      /\ \A r \in Row : /\ row'[r].source = row[r].source /\ row'[r].place = row[r].place
                        /\ row'[r].original = row[r].original
  BY <1>4, PartnerSet, RowsSame
<1>6. OnHand' = OnHand /\ ~Written' /\ partial' = None
  BY <1>1, <1>3 DEF OnHand, Written, KeptInv, PartialHeld, PartialPcs
<1> QED
  BY <1>1, <1>5, <1>6, FaultsGrow, KeptSame

------------------------------------------------------------------------------
(* No content twice, none lost, nothing left behind: copying. *)

LEMMA PartialKept ==
    ASSUME BasicInv, KeptInv, OpenPartial \/ CopyDone \/ VerifyCopy
    PROVE  KeptInv'
<1>1. /\ UNCHANGED <<file, row, stray>> /\ run.pc \in {"copying", "writing", "copied"}
      /\ UNCHANGED bounds \/ Fault
  BY DEF OpenPartial, CopyDone, VerifyCopy, disk, catalog
<1>2. run'.pc \in {"writing", "copied", "verified"}
  <2>1. \E pc \in {"writing", "copied", "verified"} : Goto(pc) /\ pc \in Steps
    BY DEF OpenPartial, CopyDone, VerifyCopy, Steps
  <2> QED
    BY <1>1, <2>1, GotoKept
<1> QED
  BY <1>1, <1>2, FaultsGrow, KeptCalm DEF PartialPcs

\* A file appears at a free name that is in hand.
LEMMA FileAppears ==
    ASSUME BasicInv, DurableInv, KeptInv, NEW s \in FreeSlots, NEW c \in Content,
           UNCHANGED <<row, stray, outages, faults, crashes>>,
           file' = [file EXCEPT ![s] = c], run'.dest = s, run'.pc \in {"published", "linked"},
           run.pc \in {"verified", "placing"}, partial' # None => run'.pc \in PartialPcs
    PROVE  KeptInv'
<1>1. s \in Slot /\ s \in Place /\ s \notin Path /\ file[s] = None /\ c # None
  BY FileAssumption, NoneAssumption DEF FreeSlots, Place
<1>2. file'[s] = c /\ \A q \in Place : q # s => file'[q] = file[q]
  BY <1>1, Known DEF DiskTyped
<1>3. Recorded' = Recorded /\ \A p \in Path : StartFile[p] # None /\ p \in Place
  BY FileAssumption, NoneAssumption DEF Recorded, Place
<1>4. OneRowPerContent'
  BY <1>3 DEF KeptInv, OneRowPerContent
<1>5. outages = 0 => \A p \in Path : \E q \in Place : q # s /\ file'[q] = StartFile[p]
  BY <1>1, <1>2, <1>3 DEF KeptInv, ContentKept
<1>6. ContentKept' /\ Spare'
  BY <1>5 DEF ContentKept, Spare
<1>7. PathsKept' /\ PartialHeld'
  BY <1>1, <1>2, <1>3 DEF KeptInv, PathsKept, PartialHeld
<1>8. Balance'
  <2>1. OnHand = None /\ OnHand' = s
    BY DEF OnHand, Written
  <2>2. ASSUME NEW d \in Content PROVE Loose(d)' = Loose(d) /\ Gone(d)' = Gone(d)
    <3>1. \A x \in Slot : x \in Place /\ x # None
      BY NoneAssumption DEF Place
    <3>2. Loose(d)' = Loose(d)
      <4>1. s \notin Loose(d) /\ s \notin Loose(d)'
        BY <1>1, <2>1, NoneAssumption DEF Loose
      <4>2. \A x \in Slot : x # s => (x \in Loose(d)' <=> x \in Loose(d))
        BY <1>2, <1>3, <2>1, <3>1 DEF Loose
      <4>3. Loose(d) \subseteq Slot /\ Loose(d)' \subseteq Slot
        BY DEF Loose
      <4> QED
        BY <4>1, <4>2, <4>3
    <3>3. Gone(d)' = Gone(d)
      BY <1>1, <1>2, <1>3 DEF Gone
    <3> QED
      BY <3>2, <3>3
  <2> QED
    BY <2>2 DEF KeptInv, Balance, Quiet
<1> QED
  BY <1>4, <1>6, <1>7, <1>8 DEF KeptInv

LEMMA PublishKept == ASSUME BasicInv, DurableInv, KeptInv, Publish PROVE KeptInv'
<1>1. UNCHANGED <<row, stray>> /\ run.pc = "verified"
  BY DEF Publish, catalog
<1>2. CASE Fault /\ partial' = None /\ Goto("failing") /\ UNCHANGED <<file, synced>>
  <2>1. run'.pc = "failing"
    BY <1>2, GotoKept DEF Steps
  <2> QED
    BY <1>1, <1>2, <2>1, FaultsGrow, KeptCalm
<1>3. CASE \E s \in FreeSlots : /\ Create(s, partial)
                                /\ run' = [run EXCEPT !.pc = "published", !.dest = s]
                                /\ UNCHANGED <<partial, bounds>>
  <2>1. PICK s \in FreeSlots : /\ Create(s, partial)
                               /\ run' = [run EXCEPT !.pc = "published", !.dest = s]
                               /\ UNCHANGED <<partial, bounds>>
    BY <1>3
  <2>2. partial \in Content
    BY <1>1, Known DEF DurableInv, HandKnown, HandCopied, DiskTyped
  <2>3. run'.pc = "published" /\ run'.dest = s
    BY <2>1, Known DEF RunSet
  <2>4. file' = [file EXCEPT ![s] = partial] /\ UNCHANGED <<outages, faults, crashes>>
    BY <2>1 DEF Create, bounds
  <2> QED
    BY <1>1, <2>2, <2>3, <2>4, FileAppears DEF PartialPcs
<1> QED
  BY <1>2, <1>3 DEF Publish

\* A copy that cannot be kept is removed again.
LEMMA CopyRemoved ==
    ASSUME BasicInv, KeptInv, Written, run.dest \in Slot, UNCHANGED <<row, stray, outages, crashes>>,
           faults' = 0 => faults = 0, Quiet' => run.pc = "recording",
           file' = [file EXCEPT ![run.dest] = None], run'.pc = "failing", partial' = None
    PROVE  KeptInv'
<1>1. run.dest \in Place /\ run.dest \notin Path
  BY FileAssumption DEF Place
<1>2. file'[run.dest] = None /\ \A q \in Place : q # run.dest => file'[q] = file[q]
  BY <1>1, Known DEF DiskTyped
<1>3. Recorded' = Recorded /\ \A p \in Path : p \in Place
  BY DEF Recorded, Place
<1>4. OneRowPerContent'
  BY <1>3 DEF KeptInv, OneRowPerContent
<1>5. ContentKept'
  BY <1>2 DEF KeptInv, Spare, ContentKept
<1>6. Spare' /\ PathsKept' /\ PartialHeld'
  BY <1>1, <1>2, <1>3 DEF KeptInv, Spare, Written, PathsKept, PartialHeld
<1>7. Balance'
  <2>1. OnHand = run.dest /\ OnHand' = None
    BY DEF OnHand, Written
  <2>2. ASSUME NEW d \in Content PROVE Loose(d)' = Loose(d) /\ Gone(d)' = Gone(d)
    <3>1. d # None /\ \A x \in Slot : x \in Place /\ x # None
      BY NoneAssumption DEF Place
    <3>2. run.dest \notin Loose(d) /\ run.dest \notin Loose(d)'
      BY <1>2, <2>1, <3>1 DEF Loose
    <3>3. \A x \in Slot : x # run.dest => (x \in Loose(d)' <=> x \in Loose(d))
      BY <1>2, <1>3, <2>1, <3>1 DEF Loose
    <3>4. Loose(d) \subseteq Slot /\ Loose(d)' \subseteq Slot
      BY DEF Loose
    <3>5. Gone(d)' = Gone(d)
      BY <1>1, <1>2, <1>3 DEF Gone
    <3> QED
      BY <3>2, <3>3, <3>4, <3>5
  <2> QED
    BY <2>2 DEF KeptInv, Balance, Quiet
<1> QED
  BY <1>4, <1>5, <1>6, <1>7 DEF KeptInv

LEMMA FaultHeard == ASSUME BasicInv, Fault PROVE ~Quiet'
  BY Known, FaultTyped DEF Quiet

LEMMA SyncPublishedKept == ASSUME BasicInv, DurableInv, KeptInv, SyncPublished PROVE KeptInv'
<1>1. UNCHANGED row /\ run.pc = "published" /\ session.mode = "copy" /\ session' = session /\ partial' = None
  BY DEF SyncPublished, catalog, BasicInv, RunKnown, CopyPcs
<1>2. UNCHANGED <<outages, crashes>> /\ (faults' = 0 => faults = 0)
  <2>1. UNCHANGED bounds \/ Fault
    BY DEF SyncPublished
  <2> QED
    BY <2>1, FaultsGrow
<1>3. CASE Goto("recording") /\ UNCHANGED file /\ (Fault \/ UNCHANGED stray)
  <2>1. run'.pc = "recording" /\ run'.dest = run.dest
    BY <1>3, GotoKept DEF Steps
  <2>2. Written /\ Written' /\ OnHand' = OnHand /\ Recorded' = Recorded
    BY <1>1, <2>1 DEF Written, OnHand, Recorded
  <2> QED
    BY <1>1, <1>2, <1>3, <2>1, <2>2, FaultHeard, KeptSame
<1>4. CASE Fault /\ Remove(run.dest) /\ Goto("failing") /\ UNCHANGED stray
  <2>1. run'.pc = "failing"
    BY <1>4, Known, GotoIs DEF Steps
  <2>2. Written /\ run.dest \in Slot
    BY <1>1 DEF Written, DurableInv, HandKnown, HandNamed
  <2> QED
    BY <1>1, <1>2, <1>4, <2>1, <2>2, FaultHeard, CopyRemoved DEF Remove
<1> QED
  BY <1>3, <1>4 DEF SyncPublished

------------------------------------------------------------------------------
(* No content twice, none lost, nothing left behind: adoption and recording. *)

LEMMA AdoptKept ==
    ASSUME BasicInv, KeptInv, Baseline \/ StayInPlace \/ MoveSync
    PROVE  KeptInv'
<1>1. /\ UNCHANGED <<file, partial, stray, row, session>> /\ run.pc \in {"adopting", "placing", "moved"}
      /\ session.mode = "adopt" /\ (UNCHANGED bounds \/ Fault)
  BY DEF Baseline, StayInPlace, MoveSync, disk, catalog, BasicInv, RunKnown, AdoptPcs
<1>2. run'.pc \in {"placing", "recording", "failing"}
  <2>1. run \in RunSet
    BY Known
  <2> QED
    BY <2>1 DEF Baseline, StayInPlace, MoveSync, Goto, RunSet
<1>3. OnHand' = OnHand /\ ~Written' /\ Recorded' = Recorded /\ partial' = None
  BY <1>1, <1>2 DEF OnHand, Written, Recorded, KeptInv, PartialHeld, PartialPcs
<1> QED
  BY <1>1, <1>3, FaultsGrow, KeptSame

LEMMA MoveLinkKept == ASSUME BasicInv, DurableInv, KeptInv, MoveLink PROVE KeptInv'
<1>1. UNCHANGED <<row, stray, partial>> /\ run.pc = "placing"
  BY DEF MoveLink, catalog
<1>2. partial' = None
  BY <1>1 DEF KeptInv, PartialHeld, PartialPcs
<1>3. CASE Fault /\ Goto("failing") /\ UNCHANGED <<file, synced>>
  <2>1. run'.pc = "failing"
    BY <1>3, GotoKept DEF Steps
  <2> QED
    BY <1>1, <1>2, <1>3, <2>1, FaultsGrow, KeptCalm
<1>4. CASE \E s \in FreeSlots : /\ Create(s, Cur)
                                /\ run' = [run EXCEPT !.pc = "linked", !.dest = s]
                                /\ UNCHANGED bounds
  <2>1. PICK s \in FreeSlots : /\ Create(s, Cur)
                               /\ run' = [run EXCEPT !.pc = "linked", !.dest = s]
                               /\ UNCHANGED bounds
    BY <1>4
  <2>2. Cur \in Content
    BY <1>1, Reading DEF DurableInv, HandKnown, HandRead
  <2>3. run'.pc = "linked" /\ run'.dest = s
    BY <2>1, Known DEF RunSet
  <2>4. file' = [file EXCEPT ![s] = Cur] /\ UNCHANGED <<outages, faults, crashes>>
    BY <2>1 DEF Create, bounds
  <2> QED
    BY <1>1, <1>2, <2>2, <2>3, <2>4, FileAppears
<1> QED
  BY <1>3, <1>4 DEF MoveLink

LEMMA MoveUnlinkKept == ASSUME BasicInv, DurableInv, KeptInv, MoveUnlink PROVE KeptInv'
<1>1. /\ UNCHANGED <<row, stray, partial>> /\ run.pc = "linked" /\ session.mode = "adopt"
  BY DEF MoveUnlink, catalog, BasicInv, RunKnown, AdoptPcs
<1>2. partial' = None
  BY <1>1 DEF KeptInv, PartialHeld, PartialPcs
<1>3. /\ Cur \in Content /\ run.at \in Place /\ run.dest \in Slot /\ run.dest # run.at
      /\ run.dest \in Place /\ run.dest \notin Path
  BY <1>1, Reading, FileAssumption DEF DurableInv, HandKnown, HandRead, HandNamed, Place
<1>4. file[run.dest] = Cur
  BY <1>1 DEF DurableInv, HandKnown, HandRead, HandNamed, Like
<1>5. CASE Fault /\ Goto("failing") /\ UNCHANGED <<file, synced>>
  <2>1. run'.pc = "failing"
    BY <1>5, GotoKept DEF Steps
  <2> QED
    BY <1>1, <1>2, <1>5, <2>1, FaultsGrow, FaultHeard, KeptCalm
<1>6. CASE Remove(run.at) /\ Goto("moved") /\ UNCHANGED bounds
  <2>1. file'[run.at] = None /\ \A q \in Place : q # run.at => file'[q] = file[q]
    BY <1>3, <1>6, Known DEF Remove, DiskTyped
  <2>2. run'.pc = "moved" /\ UNCHANGED <<outages, faults, crashes>> /\ Recorded' = Recorded
    BY <1>1, <1>6, Known, GotoIs DEF Steps, bounds, Recorded
  <2>3. OneRowPerContent'
    BY <1>1, <2>2 DEF KeptInv, OneRowPerContent
  <2>4. ContentKept'
    BY <1>3, <1>4, <2>1, <2>2 DEF KeptInv, ContentKept, Cur
  <2>5. Spare' /\ PathsKept' /\ PartialHeld'
    BY <1>2, <1>3, <2>1, <2>2 DEF KeptInv, Spare, Written, PathsKept, PartialHeld, Place
  <2>6. Balance'
    <3> SUFFICES ASSUME Quiet
                 PROVE  /\ ~stray'
                        /\ \A c \in Content : /\ IsFiniteSet(Loose(c))' /\ IsFiniteSet(Gone(c))'
                                              /\ (Cardinality(Loose(c)) <= Cardinality(Gone(c)))'
      BY <2>2 DEF Balance, Quiet
    <3>1. ~stray' /\ OnHand = run.dest /\ OnHand' = None
      BY <1>1, <2>2 DEF KeptInv, Balance, OnHand, Written
    <3>2. ASSUME NEW c \in Content
          PROVE  /\ IsFiniteSet(Loose(c))' /\ IsFiniteSet(Gone(c))'
                 /\ (Cardinality(Loose(c)) <= Cardinality(Gone(c)))'
      <4>1. /\ IsFiniteSet(Loose(c)) /\ IsFiniteSet(Gone(c)) /\ Cardinality(Loose(c)) <= Cardinality(Gone(c))
            /\ Cardinality(Loose(c)) \in Nat /\ Cardinality(Gone(c)) \in Nat
        BY FS_CardinalityType DEF KeptInv, Balance
      <4>2. c # None /\ Cur # None /\ \A x \in Slot : x \in Place /\ x # None
        BY <1>3, NoneAssumption DEF Place
      <4>3. CASE c # Cur
        <5>1. Loose(c)' = Loose(c)
          <6>1. run.dest \notin Loose(c) /\ run.dest \notin Loose(c)'
            BY <1>3, <1>4, <2>1, <4>3 DEF Loose
          <6>2. run.at \notin Loose(c) /\ run.at \notin Loose(c)'
            BY <2>1, <4>2, <4>3 DEF Loose, Cur
          <6>3. \A x \in Slot : x # run.dest /\ x # run.at => (x \in Loose(c)' <=> x \in Loose(c))
            BY <1>1, <2>1, <2>2, <3>1, <4>2 DEF Loose
          <6>4. Loose(c) \subseteq Slot /\ Loose(c)' \subseteq Slot
            BY DEF Loose
          <6> QED
            BY <6>1, <6>2, <6>3, <6>4
        <5>2. Gone(c)' = Gone(c)
          <6>1. run.at \notin Gone(c) /\ run.at \notin Gone(c)'
            BY <1>3, <4>2, <4>3 DEF Gone, KeptInv, PathsKept, Cur
          <6>2. \A x \in Path : x # run.at => (x \in Gone(c)' <=> x \in Gone(c))
            BY <2>1 DEF Gone, Place
          <6> QED
            BY <6>1, <6>2 DEF Gone
        <5> QED
          BY <4>1, <5>1, <5>2
      <4>4. CASE c = Cur
        <5>1. Loose(c)' \subseteq (Loose(c) \ {run.at}) \cup {run.dest}
          BY <1>1, <2>1, <2>2, <3>1, <4>2 DEF Loose
        <5>2. run.dest \notin Loose(c)
          BY <3>1 DEF Loose
        <5>3. CASE run.at \in Path
          <6>1. Gone(c)' = Gone(c) \cup {run.at} /\ run.at \notin Gone(c)
            <7>1. StartFile[run.at] = c /\ file[run.at] = c
              BY <4>2, <4>4, <5>3 DEF KeptInv, PathsKept, Cur
            <7>2. run.at \in Gone(c)' /\ run.at \notin Gone(c)
              BY <2>1, <4>2, <5>3, <7>1 DEF Gone
            <7>3. \A x \in Path : x # run.at => (x \in Gone(c)' <=> x \in Gone(c))
              BY <2>1 DEF Gone, Place
            <7> QED
              BY <7>2, <7>3 DEF Gone
          <6>2. IsFiniteSet(Gone(c)') /\ Cardinality(Gone(c)') = Cardinality(Gone(c)) + 1
            <7>1. /\ IsFiniteSet(Gone(c) \cup {run.at})
                  /\ Cardinality(Gone(c) \cup {run.at}) = Cardinality(Gone(c)) + 1
              BY <4>1, <6>1, FS_AddElement
            <7> QED
              BY <6>1, <7>1
          <6>3. IsFiniteSet(Loose(c) \cup {run.dest}) /\ Cardinality(Loose(c) \cup {run.dest}) = Cardinality(Loose(c)) + 1
            BY <4>1, <5>2, FS_AddElement
          <6>4. Loose(c)' \subseteq Loose(c) \cup {run.dest}
            BY <5>1
          <6>5. IsFiniteSet(Loose(c)') /\ Cardinality(Loose(c)') <= Cardinality(Loose(c)) + 1
            BY <6>3, <6>4, FS_Subset
          <6> QED
            BY <4>1, <6>2, <6>5, FS_CardinalityType
        <5>4. CASE run.at \notin Path
          <6>1. Gone(c)' = Gone(c)
            BY <2>1, <5>4 DEF Gone, Place
          <6>2. run.at \in Loose(c)
            <7>1. Moving /\ Unclaimed(run.at) /\ outages = 0
              BY <1>1, PlanKnown DEF DurableInv, HandKnown, HandNamed, HandNew, Active, Quiet
            <7>2. \A r \in Recorded : row[r].place # run.at
              BY <7>1 DEF Unclaimed, Claimed
            <7>3. run.at \in Slot
              BY <1>3, <5>4 DEF Place
            <7> QED
              BY <1>3, <3>1, <4>4, <7>2, <7>3 DEF Loose, Cur
          <6>3. IsFiniteSet(Loose(c) \ {run.at}) /\ Cardinality(Loose(c) \ {run.at}) = Cardinality(Loose(c)) - 1
            BY <4>1, <6>2, FS_RemoveElement
          <6>4. /\ IsFiniteSet((Loose(c) \ {run.at}) \cup {run.dest})
                /\ Cardinality((Loose(c) \ {run.at}) \cup {run.dest}) = Cardinality(Loose(c) \ {run.at}) + 1
            BY <5>2, <6>3, FS_AddElement
          <6>5. IsFiniteSet(Loose(c)') /\ Cardinality(Loose(c)') <= Cardinality((Loose(c) \ {run.at}) \cup {run.dest})
            BY <5>1, <6>4, FS_Subset
          <6> QED
            BY <4>1, <6>1, <6>3, <6>4, <6>5, FS_CardinalityType
        <5> QED
          BY <5>3, <5>4
      <4> QED
        BY <4>3, <4>4
    <3> QED
      BY <3>1, <3>2
  <2> QED
    BY <2>3, <2>4, <2>5, <2>6 DEF KeptInv
<1> QED
  BY <1>5, <1>6 DEF MoveUnlink

LEMMA RecordKept == ASSUME BasicInv, DurableInv, KeptInv, Record PROVE KeptInv'
<1>1. UNCHANGED <<file, partial, stray, outages, faults, crashes>> /\ run.pc = "recording" /\ ~cancelled
  BY DEF Record, disk, bounds
<1>2. PICK r \in FreeRows :
         /\ row' = [row EXCEPT ![r] = [source |-> run.source, place |-> run.dest,
                                       origin |-> run.at, full |-> run.full,
                                       original |-> run.match, partner |-> None]]
         /\ FileDone(r)
  BY DEF Record
<1>3. r \in Row /\ r \notin Recorded /\ row \in [Row -> RowSet] /\ run.dest \in Place
  BY <1>1, Known DEF FreeRows, BasicInv, RunKnown
<1>4. /\ row'[r].source = run.source /\ row'[r].place = run.dest /\ row'[r].original = run.match
      /\ \A q \in Row : q # r => row'[q] = row[q]
  BY <1>2, <1>3
<1>5. Recorded' = Recorded \cup {r}
  <2>1. row'[r] # NoRow
    BY <1>3, <1>4, NoneAssumption DEF NoRow
  <2> QED
    BY <1>3, <1>4, <2>1 DEF Recorded
<1>6. run'.pc \in {"resolved", "next"} /\ partial' = None
  BY <1>1, <1>2, Known DEF FileDone, RunSet, KeptInv, PartialHeld, PartialPcs
<1>7. OneRowPerContent'
  <2> SUFFICES ASSUME faults = 0, NEW q \in Recorded', NEW t \in Recorded', q # t
               PROVE  /\ row'[q].original = None /\ row'[t].original = None => row'[q].source # row'[t].source
                      /\ outages = 0 => row'[q].place # row'[t].place
    BY <1>1 DEF OneRowPerContent
  <2>1. ASSUME NEW u \in Recorded
        PROVE  /\ row'[u] = row[u]
               /\ run.match = None => row[u].source # run.source
               /\ outages = 0 => row[u].place # run.dest
    <3>1. row'[u] = row[u]
      BY <1>3, <1>4 DEF Recorded
    <3>2. Undisturbed
      BY <1>1 DEF Undisturbed
    <3>3. run.match = None => row[u].source # run.source
      BY <1>1, <3>2 DEF DurableInv, HandKnown, HandNew
    <3>4. Unclaimed(run.dest)
      BY <1>1, <3>2 DEF DurableInv, HandKnown, HandNew, HandNamed
    <3> QED
      BY <3>1, <3>3, <3>4 DEF Unclaimed, Claimed
  <2>2. CASE q = r
    BY <1>4, <1>5, <2>1, <2>2
  <2>3. CASE t = r
    BY <1>4, <1>5, <2>1, <2>3
  <2>4. CASE q # r /\ t # r
    BY <1>5, <2>1, <2>4 DEF KeptInv, OneRowPerContent
  <2> QED
    BY <2>2, <2>3, <2>4
<1>8. ContentKept' /\ Spare' /\ PathsKept' /\ PartialHeld'
  BY <1>1, <1>6 DEF KeptInv, ContentKept, Spare, Written, PathsKept, PartialHeld
<1>9. Balance'
  <2>1. ASSUME NEW c \in Content PROVE Loose(c)' \subseteq Loose(c) /\ Gone(c)' = Gone(c)
    <3>1. Gone(c)' = Gone(c)
      BY <1>1 DEF Gone
    <3>2. \A x \in Loose(c)' : x # run.dest /\ \A q \in Recorded : row[q].place # x
      BY <1>3, <1>4, <1>5 DEF Loose, Recorded
    <3>3. OnHand \in {run.dest, None} /\ \A x \in Slot : x # None
      BY NoneAssumption DEF OnHand, Place
    <3> QED
      BY <1>1, <3>1, <3>2, <3>3 DEF Loose
  <2>2. ASSUME Quiet, NEW c \in Content
        PROVE  IsFiniteSet(Loose(c)') /\ IsFiniteSet(Gone(c)') /\ Cardinality(Loose(c)') <= Cardinality(Gone(c)')
    <3>1. IsFiniteSet(Loose(c)) /\ IsFiniteSet(Gone(c)) /\ Cardinality(Loose(c)) <= Cardinality(Gone(c))
      BY <2>2 DEF KeptInv, Balance
    <3>2. IsFiniteSet(Loose(c)') /\ Cardinality(Loose(c)') <= Cardinality(Loose(c))
      BY <2>1, <3>1, FS_Subset
    <3> QED
      BY <2>1, <3>1, <3>2, FS_CardinalityType
  <2> QED
    BY <1>1, <2>2 DEF KeptInv, Balance, Quiet
<1> QED
  BY <1>7, <1>8, <1>9 DEF KeptInv

LEMMA RecordFailsKept == ASSUME BasicInv, DurableInv, KeptInv, RecordFails PROVE KeptInv'
<1>1. UNCHANGED <<row, partial, stray, session>> /\ run.pc = "recording" /\ Goto("failing")
  BY DEF RecordFails, catalog
<1>2. UNCHANGED <<outages, crashes>> /\ (faults' = 0 => faults = 0)
  <2>1. UNCHANGED bounds \/ Fault
    BY DEF RecordFails
  <2> QED
    BY <2>1, FaultsGrow
<1>3. run'.pc = "failing" /\ partial' = None
  BY <1>1, Known, GotoIs DEF Steps, KeptInv, PartialHeld, PartialPcs
<1>4. CASE session.mode = "copy"
  <2>1. Written /\ run.dest \in Slot
    BY <1>1, <1>4 DEF Written, DurableInv, HandKnown, HandNamed
  <2>2. file' = [file EXCEPT ![run.dest] = None]
    BY <1>4 DEF RecordFails, Remove
  <2> QED
    BY <1>1, <1>2, <1>3, <2>1, <2>2, CopyRemoved
<1>5. CASE session.mode # "copy"
  <2>1. UNCHANGED file
    BY <1>5 DEF RecordFails
  <2>2. OnHand' = OnHand /\ ~Written' /\ Recorded' = Recorded
    BY <1>1, <1>3, <1>5 DEF OnHand, Written, Recorded
  <2> QED
    BY <1>1, <1>2, <1>3, <2>1, <2>2, KeptSame
<1> QED
  BY <1>4, <1>5

------------------------------------------------------------------------------
(* No content twice, none lost, nothing left behind: the process and its user. *)

\* The process ends: what it counts is counted, and a loss of power releases the rest.
LEMMA StoppedKept == ASSUME BasicInv, KeptInv, Crash \/ PowerLoss PROVE KeptInv'
<1>1. UNCHANGED <<row, faults>> /\ run' = NoRun /\ partial' = None
  BY DEF Crash, PowerLoss, Stopped, catalog
<1>2. crashes \in Nat /\ outages \in Nat
  BY TypesAre, BoundAssumption DEF BasicInv, BoundsTyped
<1>3. ~Quiet' /\ (outages' = 0 => outages = 0 /\ file' = file)
  BY <1>2 DEF Crash, PowerLoss, Quiet
<1>4. OneRowPerContent'
  <2>1. Recorded' = Recorded
    BY <1>1 DEF Recorded
  <2> QED
    BY <1>1, <1>3, <2>1 DEF KeptInv, OneRowPerContent
<1>5. ContentKept'
  BY <1>3 DEF KeptInv, ContentKept
<1>6. Spare' /\ PartialHeld' /\ Balance'
  BY <1>1, <1>3, NoRunTyped DEF Spare, Written, PartialHeld, Balance
<1>7. PathsKept'
  <2>1. CASE Crash
    BY <2>1 DEF Crash, KeptInv, PathsKept
  <2>2. CASE PowerLoss
    <3>1. PICK lost \in SUBSET (Place \ synced) :
             file' = [p \in Place |-> IF p \in lost THEN None ELSE file[p]]
      BY <2>2 DEF PowerLoss
    <3> QED
      BY <3>1 DEF KeptInv, PathsKept, Place
  <2> QED
    BY <2>1, <2>2
<1> QED
  BY <1>4, <1>5, <1>6, <1>7 DEF KeptInv

LEMMA UserKept ==
    ASSUME BasicInv, KeptInv, Open \/ UserStep \/ \E q \in Request : RetryRun(q)
    PROVE  KeptInv'
<1>1. CASE Open
  <2>1. /\ UNCHANGED <<file, partial, stray, row, outages, crashes, faults, run>>
        /\ session' = [session EXCEPT !.status = IF @ = "running" THEN "interrupted" ELSE @]
    BY <1>1 DEF Open, disk, memory, bounds
  <2>2. session'.mode = session.mode
    BY <2>1, Known DEF SessionSet
  <2> QED
    BY <2>1, <2>2, KeptStays
<1>2. CASE (\E plan \in Plan : StartImport(plan)) \/ Resume
  <2>1. UNCHANGED <<file, partial, stray, row, outages, faults, crashes>> /\ Goto("preparing") /\ ~Active
    BY <1>2 DEF StartImport, Resume, UserRequest, disk, catalog
  <2>2. run'.pc = "preparing" /\ run.pc = "idle"
    BY <2>1, GotoKept DEF Steps, Active
  <2>3. partial' = None
    BY <2>1, <2>2 DEF KeptInv, PartialHeld, PartialPcs
  <2> QED
    BY <2>1, <2>2, <2>3, KeptCalm
<1>3. CASE CancelImport \/ (\E q \in Request, f \in Failure : RetryCheck(q, f)) \/ \E f \in Failure : Dismiss(f)
  <2>1. UNCHANGED <<file, partial, stray, row, session, outages, crashes, faults, run>>
    BY <1>3 DEF CancelImport, RetryCheck, Dismiss, UserRequest, disk, catalog, memory
  <2> QED
    BY <2>1, KeptStays
<1>4. CASE \E q \in Request : RetryRun(q)
  <2>1. PICK q \in Request : RetryRun(q)
    BY <1>4
  <2>2. UNCHANGED <<file, partial, stray, row, session, outages, crashes, faults>>
    BY <2>1 DEF RetryRun, disk, catalog, bounds
  <2>3. CASE Active
    <3>1. UNCHANGED run
      BY <2>1, <2>3 DEF RetryRun
    <3> QED
      BY <2>2, <3>1, KeptStays
  <2>4. CASE ~Active
    <3>1. run'.pc = "file" /\ run.pc = "idle"
      BY <2>1, <2>4 DEF RetryRun, NoRun, Active
    <3>2. partial' = None
      BY <2>2, <3>1 DEF KeptInv, PartialHeld, PartialPcs
    <3> QED
      BY <2>2, <3>1, <3>2, KeptCalm
  <2> QED
    BY <2>3, <2>4
<1> QED
  BY <1>1, <1>2, <1>3, <1>4 DEF UserStep

LEMMA StepKept == ASSUME BasicInv, DurableInv, KeptInv, [Next]_vars PROVE KeptInv'
<1>1. CASE Open \/ UserStep \/ \E q \in Request : RetryRun(q)
  BY <1>1, UserKept
<1>2. CASE Crash \/ PowerLoss
  BY <1>2, StoppedKept
<1>3. CASE UNCHANGED vars
  BY <1>3, KeptStays DEF vars, disk, catalog, memory, bounds
<1>4. CASE PipelineStep
  <2>1. CASE \/ Prepare \/ Scan \/ StopEarly \/ Abort \/ LoopEnds \/ Complete \/ ClassifyFails \/ Skip
             \/ RecordFailure \/ MarkRetried \/ Uncount
    BY <2>1, LoopKept
  <2>2. CASE \/ ClassifyNew \/ ClassifyKnown \/ Record \/ RecordFails \/ LinkOther
             \/ (\E p \in Path : LinkOne(p)) \/ \E p \in Place : NextFile(p)
    BY <2>2, ClassifyNewKept, ClassifyKnownKept, RecordKept, RecordFailsKept, LinksKept, NextFileKept
  <2>3. CASE CopyStep
    BY <2>3, LoopKept, PartialKept, PublishKept, SyncPublishedKept DEF CopyStep
  <2>4. CASE AdoptStep
    BY <2>4, AdoptKept, MoveLinkKept, MoveUnlinkKept DEF AdoptStep
  <2> QED
    BY <1>4, <2>1, <2>2, <2>3, <2>4 DEF PipelineStep
<1> QED
  BY <1>1, <1>2, <1>3, <1>4 DEF Next

LEMMA InitKept == Init => KeptInv
<1> SUFFICES ASSUME Init PROVE KeptInv
  OBVIOUS
<1>1. /\ file = [p \in Place |-> IF p \in Path THEN StartFile[p] ELSE None] /\ partial = None
      /\ stray = FALSE /\ run.pc = "idle" /\ Recorded = {}
  BY NoRunTyped DEF Init, Recorded
<1>2. \A p \in Path : p \in Place /\ StartFile[p] \in Content /\ file[p] = StartFile[p]
  BY <1>1, FileAssumption DEF Place
<1>3. \A s \in Slot : file[s] = None
  BY <1>1, FileAssumption DEF Place
<1>4. OneRowPerContent /\ ContentKept /\ Spare /\ PathsKept /\ PartialHeld
  BY <1>1, <1>2 DEF OneRowPerContent, ContentKept, Spare, Written, PathsKept, PartialHeld
<1>5. \A c \in Content : Loose(c) = {} /\ Gone(c) = {}
  BY <1>2, <1>3, NoneAssumption DEF Loose, Gone
<1>6. Balance
  BY <1>1, <1>5, FS_EmptySet DEF Balance
<1> QED
  BY <1>4, <1>6 DEF KeptInv

LEMMA ImportHolds == ASSUME Unmixed PROVE Spec => [](DurableInv /\ KeptInv)
<1>1. Init => BasicInv /\ DurableInv /\ KeptInv
  BY InitBasic, InitDurable, InitKept
<1>2. BasicInv /\ DurableInv /\ KeptInv /\ [Next]_vars => (BasicInv /\ DurableInv /\ KeptInv)'
  BY StepBasic, StepDurable, StepKept
<1> QED
  BY <1>1, <1>2, PTL DEF Spec

\* Unless a read failed, no content gets two rows of which neither is flagged the
\* duplicate of the other (classify and recordAsset), and while the power stays no
\* place has two rows: through every cancel, resume, retry and crash.
THEOREM OneRowPerContentCorrect ==
    ASSUME Unmixed PROVE Spec => []OneRowPerContent
<1>1. KeptInv => OneRowPerContent
  BY DEF KeptInv
<1> QED
  BY <1>1, ImportHolds, PTL

\* Adoption (adoptFile, reorganizeInPlace) keeps rows on durable files, takes no
\* content for two and, while the power stays, loses no content.
THEOREM AdoptSafeCorrect ==
    ASSUME Unmixed PROVE Spec => []AdoptSafe
<1>1. DurableInv => RecordedIsDurable
  BY DEF DurableInv, RowsKnown, RecordedIsDurable, Placed, Claimed
<1>2. DurableInv /\ KeptInv => AdoptSafe
  BY <1>1 DEF KeptInv, AdoptSafe
<1> QED
  BY <1>2, ImportHolds, PTL

\* Once nothing runs, and nothing failed or was cut short, what is in the archive
\* without a row was moved there, as many files of a content as left their place
\* (removeFailedCopy, discardPartial): whenever a cancel came.
THEOREM NothingLeftBehindCorrect ==
    ASSUME Unmixed PROVE Spec => []NothingLeftBehind
<1>1. ASSUME KeptInv PROVE NothingLeftBehind
  <2> SUFFICES ASSUME Quiet, ~Active
               PROVE  /\ ~stray /\ partial = None
                      /\ \A c \in Content :
                           Cardinality({s \in Slot : file[s] = c /\ \A r \in Recorded : row[r].place # s})
                             <= Cardinality({p \in Path : StartFile[p] = c /\ file[p] = None})
    BY DEF NothingLeftBehind, Quiet
  <2>1. ~stray /\ \A c \in Content : Cardinality(Loose(c)) <= Cardinality(Gone(c))
    BY <1>1 DEF KeptInv, Balance
  <2>2. partial = None /\ OnHand = None
    BY <1>1 DEF KeptInv, PartialHeld, PartialPcs, Active, OnHand, Written
  <2>3. \A s \in Slot : s # None
    BY NoneAssumption DEF Place
  <2>4. ASSUME NEW c \in Content
        PROVE  Loose(c) = {s \in Slot : file[s] = c /\ \A r \in Recorded : row[r].place # s}
    BY <2>2, <2>3 DEF Loose
  <2> QED
    BY <2>1, <2>2, <2>4 DEF Gone
<1> QED
  BY <1>1, ImportHolds, PTL

------------------------------------------------------------------------------
(* An import implements Archive: the mapping. *)

LEMMA EntryIs ==
    \A r \in Row : /\ Entry[r].content = row[r].source /\ Entry[r].place = row[r].place
                   /\ Entry[r].put = Placed(r) /\ Entry[r].full = row[r].full
  BY DEF Entry, Placed

\* The guarded places are those some row claims.
LEMMA GuardedIs ==
    ASSUME BasicInv, DurableInv
    PROVE  /\ Promised!Used = Recorded
           /\ \A r \in Recorded : Entry[r].put \/ ~Cut <=> Claimed(r)
           /\ \A p : p \in Promised!Guarded <=> ~Unclaimed(p)
<1>1. Promised!Used = Recorded
  <2>1. ASSUME NEW r \in Row PROVE row[r] # NoRow <=> row[r].source # None
    <3>1. CASE r \in Recorded
      BY <3>1, NoneAssumption DEF DurableInv, RowsKnown, Recorded
    <3>2. CASE r \notin Recorded
      BY <3>2, NoRowTyped DEF Recorded
    <3> QED
      BY <3>1, <3>2
  <2> QED
    BY <2>1, EntryIs DEF Promised!Used, Recorded
<1>2. ~Cut <=> outages = 0
  BY TypesAre, BoundAssumption DEF BasicInv, BoundsTyped, Cut
<1>3. \A r \in Recorded : Entry[r].put \/ ~Cut <=> Claimed(r)
  BY <1>2, EntryIs DEF Claimed, Recorded
<1>4. \A p : p \in Promised!Guarded <=> \E r \in Recorded : Claimed(r) /\ row[r].place = p
  <2>1. Promised!Guarded = {Entry[r].place : r \in {q \in Recorded : Entry[q].put \/ ~Cut}}
    BY <1>1 DEF Promised!Guarded
  <2> QED
    BY <1>3, <2>1, EntryIs DEF Recorded
<1> QED
  BY <1>1, <1>3, <1>4 DEF Unclaimed

LEMMA EntrySame ==
    ASSUME \A r \in Row : /\ row'[r].source = row[r].source /\ row'[r].place = row[r].place
                          /\ row'[r].origin = row[r].origin /\ row'[r].full = row[r].full
    PROVE  Entry' = Entry
  BY DEF Entry

(* The steps that change neither the disk nor what is said of a file. *)

LEMMA Quiescent ==
    ASSUME UNCHANGED <<file, synced, outages>>,
           \A r \in Row : /\ row'[r].source = row[r].source /\ row'[r].place = row[r].place
                          /\ row'[r].origin = row[r].origin /\ row'[r].full = row[r].full
    PROVE  UNCHANGED <<Entry, file, synced, Cut>>
  BY EntrySame DEF Cut

LEMMA LinksQuiet ==
    ASSUME BasicInv, (\E p \in Path : LinkOne(p)) \/ LinkOther
    PROVE  UNCHANGED <<Entry, file, synced, Cut>>
<1>1. run \in RunSet
  BY Known
<1>2. PICK p \in Path : IF run.pc = "linking" THEN LinkOne(p) ELSE LinkOther
  <2>1. CASE \E p \in Path : LinkOne(p)
    BY <2>1 DEF LinkOne
  <2>2. CASE LinkOther
    BY <2>2 DEF LinkOther, BasicInv, RunKnown, Linkable
  <2> QED
    BY <2>1, <2>2
<1>3. \E r \in Recorded, s \in Row \cup {None} : row' = [row EXCEPT ![r].partner = s] \/ UNCHANGED row
  <2>1. CASE run.pc = "linking"
    <3>1. Linkable(p) /\ (row' = [row EXCEPT ![run.got[p]].partner = run.got[PartnerOf[p]]] \/ UNCHANGED row)
      BY <1>2, <2>1 DEF LinkOne, BasicInv, RunKnown
    <3> QED
      BY <3>1, Linked DEF Recorded
  <2>2. CASE run.pc # "linking"
    <3>1. /\ Linkable(run.at)
          /\ row' = [row EXCEPT ![run.got[PartnerOf[run.at]]].partner = run.got[run.at]] \/ UNCHANGED row
      BY <1>2, <2>2 DEF LinkOther, BasicInv, RunKnown
    <3> QED
      BY <3>1, Linked DEF Recorded
  <2> QED
    BY <2>1, <2>2
<1>4. \A r \in Row : /\ row'[r].source = row[r].source /\ row'[r].place = row[r].place
                     /\ row'[r].origin = row[r].origin /\ row'[r].full = row[r].full
  BY <1>3, PartnerSet
<1>5. UNCHANGED <<file, synced>> /\ (UNCHANGED bounds \/ Fault)
  BY <1>2 DEF LinkOne, LinkOther, disk
<1> QED
  BY <1>4, <1>5, FaultsGrow, Quiescent

LEMMA OthersQuiet ==
    ASSUME BasicInv,
           \/ Crash \/ Open \/ UserStep \/ \E q \in Request : RetryRun(q)
           \/ Prepare \/ Scan \/ StopEarly \/ Abort \/ LoopEnds \/ Complete \/ ClassifyFails \/ Skip
           \/ RecordFailure \/ MarkRetried \/ Uncount \/ CopyRefused \/ CopyGivenUp \/ VerifyFails
           \/ (\E p \in Place : NextFile(p)) \/ ClassifyNew \/ OpenPartial \/ CopyDone \/ VerifyCopy
           \/ Baseline \/ StayInPlace
    PROVE  UNCHANGED <<Entry, file, synced, Cut>>
<1>1. UNCHANGED <<file, synced, row, outages>>
  <2>1. CASE Crash \/ Open \/ UserStep \/ \E q \in Request : RetryRun(q)
    BY <2>1 DEF Crash, Stopped, Open, UserStep, StartImport, Resume, CancelImport, RetryCheck, Dismiss, RetryRun,
                UserRequest, disk, catalog, bounds
  <2>2. CASE \/ Prepare \/ Scan \/ StopEarly \/ Abort \/ LoopEnds \/ Complete \/ ClassifyFails \/ Skip
             \/ RecordFailure \/ MarkRetried \/ Uncount \/ CopyRefused \/ CopyGivenUp \/ VerifyFails
    BY <2>2, LoopIs
  <2>3. CASE \/ (\E p \in Place : NextFile(p)) \/ ClassifyNew \/ OpenPartial \/ CopyDone \/ VerifyCopy
             \/ Baseline \/ StayInPlace
    <3>1. UNCHANGED <<file, synced, row>> /\ (UNCHANGED bounds \/ Fault)
      BY <2>3 DEF NextFile, ClassifyNew, OpenPartial, CopyDone, VerifyCopy, Baseline, StayInPlace, disk, catalog
    <3> QED
      BY <3>1, FaultsGrow
  <2> QED
    BY <2>1, <2>2, <2>3
<1> QED
  BY <1>1, Quiescent

(* The steps that work on the disk. *)

\* At a place no row claims anything may be done.
LEMMA Worked ==
    ASSUME BasicInv, BasicInv', DurableInv, NEW p \in Place, Unclaimed(p), UNCHANGED <<row, outages>>,
           \A q \in Place \ {p} : file'[q] = file[q] /\ (q \in synced => q \in synced')
    PROVE  Promised!Work
<1>1. UNCHANGED <<Entry, Cut>>
  BY EntrySame DEF Cut
<1>2. file' \in Promised!Disks /\ synced' \subseteq Place
  BY TypesAreNext DEF BasicInv, DiskTyped, Promised!Disks
<1>3. \A q \in Promised!Guarded : q \in Place \ {p}
  BY GuardedIs DEF Unclaimed, BasicInv, RowsPlaced
<1> QED
  BY <1>1, <1>2, <1>3 DEF Promised!Work

\* A name is given to a file, where there was none, or taken away.
LEMMA CreateWorks ==
    ASSUME BasicInv, BasicInv', DurableInv, NEW s \in FreeSlots, NEW c, Create(s, c), UNCHANGED <<row, outages>>
    PROVE  Promised!Work
<1>1. s \in Place /\ Unclaimed(s)
  BY FreeUnclaimed DEF FreeSlots, Place
<1>2. \A q \in Place \ {s} : file'[q] = file[q] /\ (q \in synced => q \in synced')
  BY Known DEF Create, DiskTyped
<1> QED
  BY <1>1, <1>2, Worked

LEMMA RemoveWorks ==
    ASSUME BasicInv, BasicInv', DurableInv, NEW p \in Place, Unclaimed(p), Remove(p), UNCHANGED <<row, outages>>
    PROVE  Promised!Work
<1>1. \A q \in Place \ {p} : file'[q] = file[q] /\ (q \in synced => q \in synced')
  BY Known DEF Remove, DiskTyped
<1> QED
  BY <1>1, Worked

LEMMA SyncWorks ==
    ASSUME BasicInv, BasicInv', DurableInv, run.pc \in {"published", "moved"},
           synced' \in {synced, synced \cup {run.dest}}, UNCHANGED <<file, row, outages>>
    PROVE  Promised!Work
<1>1. run.dest \in Place /\ Unclaimed(run.dest)
  BY DEF DurableInv, HandKnown, HandNamed, Place
<1> QED
  BY <1>1, Worked

LEMMA DiskWorks ==
    ASSUME BasicInv, BasicInv', DurableInv,
           Publish \/ SyncPublished \/ MoveLink \/ MoveUnlink \/ MoveSync \/ RecordFails
    PROVE  Promised!Work \/ UNCHANGED <<Entry, file, synced, Cut>>
<1>1. UNCHANGED <<row, outages>>
  <2>1. UNCHANGED row /\ (UNCHANGED bounds \/ Fault)
    BY DEF Publish, SyncPublished, MoveLink, MoveUnlink, MoveSync, RecordFails, catalog
  <2> QED
    BY <2>1, FaultsGrow
<1>2. CASE UNCHANGED <<file, synced>>
  BY <1>1, <1>2, Quiescent
<1>3. CASE Publish /\ ~UNCHANGED <<file, synced>>
  BY <1>1, <1>3, CreateWorks DEF Publish
<1>4. CASE MoveLink /\ ~UNCHANGED <<file, synced>>
  BY <1>1, <1>4, CreateWorks DEF MoveLink
<1>5. CASE SyncPublished
  <2>1. run.dest \in Place /\ Unclaimed(run.dest) /\ run.pc = "published"
    BY <1>5 DEF SyncPublished, DurableInv, HandKnown, HandNamed, Place
  <2>2. Remove(run.dest) \/ (synced' = synced \cup {run.dest} /\ UNCHANGED file)
    BY <1>5 DEF SyncPublished
  <2> QED
    BY <1>1, <2>1, <2>2, RemoveWorks, SyncWorks
<1>6. CASE MoveSync
  <2>1. run.pc = "moved" /\ synced' \in {synced, synced \cup {run.dest}} /\ UNCHANGED file
    BY <1>6 DEF MoveSync
  <2> QED
    BY <1>1, <2>1, SyncWorks
<1>7. CASE MoveUnlink /\ ~UNCHANGED <<file, synced>>
  <2>1. run.pc = "linked" /\ Remove(run.at)
    BY <1>7 DEF MoveUnlink
  <2>2. run.at \in Place /\ Unclaimed(run.at)
    BY <2>1, PlanKnown DEF DurableInv, HandKnown, HandNamed, HandNew, Active, BasicInv, RunKnown, FilePcs, AdoptPcs
  <2> QED
    BY <1>1, <2>1, <2>2, RemoveWorks
<1>8. CASE RecordFails /\ ~UNCHANGED <<file, synced>>
  <2>1. run.pc = "recording" /\ session.mode = "copy" /\ Remove(run.dest)
    BY <1>8 DEF RecordFails
  <2>2. run.dest \in Place /\ Unclaimed(run.dest)
    BY <2>1 DEF DurableInv, HandKnown, HandNamed, BasicInv, RunKnown
  <2> QED
    BY <1>1, <2>1, <2>2, RemoveWorks
<1> QED
  BY <1>2, <1>3, <1>4, <1>5, <1>6, <1>7, <1>8

(* A loss of power, a hash that is filled in, a new row. *)

LEMMA PowerLossMaps ==
    ASSUME BasicInv, BasicInv', DurableInv, PowerLoss
    PROVE  Promised!PowerLoss
<1>1. UNCHANGED Entry
  <2>1. UNCHANGED row
    BY DEF PowerLoss, Stopped, catalog
  <2> QED
    BY <2>1, EntrySame
<1>2. Cut' = TRUE
  <2>1. outages \in Nat /\ outages' = outages + 1
    BY TypesAre, BoundAssumption DEF BasicInv, BoundsTyped, PowerLoss
  <2> QED
    BY <2>1 DEF Cut
<1>3. PICK lost \in SUBSET (Place \ synced) :
         file' = [p \in Place |-> IF p \in lost THEN None ELSE file[p]]
  BY DEF PowerLoss
<1>4. synced' = {p \in Place : file'[p] # None} /\ synced \subseteq Place
  BY Known DEF PowerLoss, DiskTyped
<1>5. \A p \in Place : file'[p] \in IF p \in synced THEN {file[p]} ELSE {file[p], None}
  BY <1>3
<1>6. synced \subseteq synced'
  BY <1>4, <1>5 DEF DurableInv, SyncedThere
<1>7. file' \in Promised!Disks
  BY TypesAreNext DEF BasicInv, DiskTyped, Promised!Disks
<1> QED
  BY <1>1, <1>2, <1>4, <1>5, <1>6, <1>7 DEF Promised!PowerLoss

LEMMA FillInMaps ==
    ASSUME BasicInv, DurableInv, ClassifyKnown
    PROVE  \E some \in SUBSET Promised!Used : Promised!FillIn(some)
<1> DEFINE some == {r \in Row : row'[r].full # row[r].full}
<1>1. UNCHANGED <<file, synced>> /\ run.pc = "file" /\ Cur # None
  BY DEF ClassifyKnown, disk
<1>2. PICK looked \in SUBSET Candidates : \E unread \in SUBSET looked :
         Compared(looked, unread) /\ (UNCHANGED bounds \/ Fault)
  BY DEF ClassifyKnown
<1>3. PICK unread \in SUBSET looked : Compared(looked, unread) /\ (UNCHANGED bounds \/ Fault)
  BY <1>2
<1>4. /\ Recorded' = Recorded
      /\ \A r \in Row : /\ row'[r].source = row[r].source /\ row'[r].place = row[r].place
                        /\ row'[r].origin = row[r].origin
                        /\ row'[r].full \in {row[r].full, FullOf(r)}
  BY <1>1, <1>3, ComparedIs
<1>5. UNCHANGED Cut
  BY <1>3, FaultsGrow DEF Cut
<1>6. ASSUME NEW r \in some
      PROVE  /\ r \in Recorded /\ Claimed(r) /\ row[r].full = None
             /\ row'[r].full = file[row[r].place]
  <2>1. r \in Row /\ row[r].full = None /\ row'[r].full = file[row[r].place]
    BY <1>4 DEF FullOf
  <2>2. r \in Recorded
    BY <1>4, <2>1 DEF Recorded
  <2> QED
    BY <2>1, <2>2 DEF DurableInv, RowsKnown, Claimed
<1>7. some \in SUBSET Promised!Used
  BY <1>6, GuardedIs
<1>8. \A r \in some : Entry[r].full = None /\ Entry[r].place \in Promised!Guarded
  BY <1>6, GuardedIs, EntryIs DEF Unclaimed
<1>9. Entry' = [r \in Row |-> IF r \in some THEN [Entry[r] EXCEPT !.full = file[Entry[r].place]] ELSE Entry[r]]
  BY <1>4, <1>6 DEF Entry
<1> HIDE DEF some
<1>10. Promised!FillIn(some)
  BY <1>1, <1>5, <1>8, <1>9 DEF Promised!FillIn
<1> QED
  BY <1>7, <1>10

LEMMA RegisterMaps ==
    ASSUME BasicInv, DurableInv, Record
    PROVE  \E r \in Row, c \in Content, p \in Place, put \in BOOLEAN, full \in Content \cup {None} :
              Promised!Register(r, c, p, put, full)
<1>1. UNCHANGED <<file, synced, outages>> /\ run.pc = "recording"
  BY DEF Record, disk, bounds
<1>2. PICK r \in FreeRows :
         row' = [row EXCEPT ![r] = [source |-> run.source, place |-> run.dest,
                                    origin |-> run.at, full |-> run.full,
                                    original |-> run.match, partner |-> None]]
  BY DEF Record
<1>3. /\ r \in Row /\ r \notin Recorded /\ row \in [Row -> RowSet]
      /\ run.dest \in Place /\ run.full \in Content \cup {None}
  BY <1>1, Known DEF FreeRows, BasicInv, RunKnown, RunSet
<1>4. /\ run.source \in Content /\ file[run.dest] # None /\ Like(file[run.dest])
      /\ run.dest # run.at => run.dest \in synced /\ Unclaimed(run.dest)
      /\ run.full = None => run.dest # run.at
  BY <1>1, ModeKnown DEF DurableInv, HandKnown, HandNamed
<1> DEFINE put == run.dest # run.at
<1>5. Entry' = [Entry EXCEPT ![r] = [content |-> run.source, place |-> run.dest,
                                     put |-> put, full |-> run.full]]
  BY <1>2, <1>3 DEF Entry
<1>6. r \notin Promised!Used
  BY <1>3, GuardedIs
<1>7. put => run.dest \in synced \ Promised!Guarded
  BY <1>4, GuardedIs
<1>8. /\ QuickOf[file[run.dest]] = QuickOf[run.source] /\ run.full \in {None, file[run.dest]}
      /\ run.full = None => put
  BY <1>4 DEF Like
<1>9. UNCHANGED Cut
  BY <1>1 DEF Cut
<1> HIDE DEF put
<1>10. Promised!Register(r, run.source, run.dest, put, run.full)
  BY <1>1, <1>4, <1>5, <1>6, <1>7, <1>8, <1>9 DEF Promised!Register
<1>11. put \in BOOLEAN
  BY DEF put
<1> QED
  BY <1>3, <1>4, <1>10, <1>11

LEMMA ArchiveStep ==
    ASSUME BasicInv, BasicInv', DurableInv, [Next]_vars
    PROVE  [Promised!Next]_<<Entry, file, synced, Cut>>
<1>1. CASE Crash \/ Open \/ UserStep \/ \E q \in Request : RetryRun(q)
  BY <1>1, OthersQuiet
<1>2. CASE PowerLoss
  BY <1>2, PowerLossMaps DEF Promised!Next
<1>3. CASE UNCHANGED vars
  BY <1>3, Quiescent DEF vars, disk, catalog, bounds
<1>4. CASE PipelineStep
  <2>1. CASE \/ Prepare \/ Scan \/ StopEarly \/ Abort \/ LoopEnds \/ Complete \/ ClassifyFails \/ Skip
             \/ RecordFailure \/ MarkRetried \/ Uncount \/ ClassifyNew \/ \E p \in Place : NextFile(p)
    BY <2>1, OthersQuiet
  <2>2. CASE LinkOther \/ \E p \in Path : LinkOne(p)
    BY <2>2, LinksQuiet
  <2>3. CASE ClassifyKnown
    BY <2>3, FillInMaps DEF Promised!Next
  <2>4. CASE Record
    BY <2>4, RegisterMaps DEF Promised!Next
  <2>5. CASE RecordFails
    BY <2>5, DiskWorks DEF Promised!Next
  <2>6. CASE CopyStep
    BY <2>6, OthersQuiet, DiskWorks DEF CopyStep, Promised!Next
  <2>7. CASE AdoptStep
    BY <2>7, OthersQuiet, DiskWorks DEF AdoptStep, Promised!Next
  <2> QED
    BY <1>4, <2>1, <2>2, <2>3, <2>4, <2>5, <2>6, <2>7 DEF PipelineStep
<1> QED
  BY <1>1, <1>2, <1>3, <1>4 DEF Next

LEMMA ArchiveInit == Init => Promised!Init
<1> SUFFICES ASSUME Init PROVE Promised!Init
  OBVIOUS
<1>1. BasicInv
  BY InitBasic
<1>2. Entry = [r \in Row |-> Promised!Blank]
  <2>1. \A r \in Row : row[r] = NoRow
    BY DEF Init
  <2>2. \A r \in Row : (row[r].place # row[r].origin) = FALSE
    BY <2>1 DEF NoRow
  <2>3. \A r \in Row : row[r].source = None /\ row[r].place = None /\ row[r].full = None
    BY <2>1 DEF NoRow
  <2> QED
    BY <2>2, <2>3, Zenon DEF Entry, Promised!Blank
<1>3. file \in Promised!Disks /\ synced \subseteq Place
  BY <1>1, Known DEF DiskTyped, Promised!Disks
<1>4. Cut = FALSE
  BY DEF Init, Cut
<1> QED
  BY <1>2, <1>3, <1>4 DEF Promised!Init

\* An import implements Archive, wherever it is cancelled, fails or is cut short: what
\* a row says is written once, of a file that is there, and the file is never touched
\* again nor, where the import put it, lost (recordAsset, publish, reorganizeInPlace).
\* Left out are, as in RecordedIsDurableCorrect, imports by copy mixed with adoptions
\* that move files: such an adoption may move away the file of a row.
THEOREM ImplementsArchiveCorrect ==
    ASSUME Unmixed PROVE Spec => ImplementsArchive
<1>1. BasicInv /\ BasicInv' /\ DurableInv /\ [Next]_vars => [Promised!Next]_<<Entry, file, synced, Cut>>
  BY ArchiveStep
<1> QED
  BY <1>1, ArchiveInit, DurableHolds, PTL DEF Spec, ImplementsArchive, Promised!Spec, Promised!vars

------------------------------------------------------------------------------
(* What implementing Archive is worth. *)

EntrySet == [content : Content \cup {None}, place : Place \cup {None},
             put : BOOLEAN, full : Content \cup {None}]

\* A loss of power spares whatever was put in place; only then may a file that was
\* found in its place go.
ArchiveInv ==
    /\ Entry \in [Row -> EntrySet] /\ Cut \in BOOLEAN
    /\ file \in Promised!Disks /\ synced \subseteq Place
    /\ \A r \in Promised!Used :
          /\ Entry[r].place \in Place
          /\ Entry[r].put => Entry[r].place \in synced
          /\ Entry[r].put \/ ~Cut =>
                /\ file[Entry[r].place] # None
                /\ QuickOf[file[Entry[r].place]] = QuickOf[Entry[r].content]
                /\ Entry[r].full # None => file[Entry[r].place] = Entry[r].full

LEMMA ArchiveInvInit == Promised!Init => ArchiveInv
<1> SUFFICES ASSUME Promised!Init PROVE ArchiveInv
  OBVIOUS
<1>1. /\ Entry = [r \in Row |-> Promised!Blank] /\ Cut = FALSE
      /\ file \in Promised!Disks /\ synced \subseteq Place
  BY DEF Promised!Init
<1>2. Promised!Blank \in EntrySet /\ Promised!Blank.content = None
  BY DEF Promised!Blank, EntrySet
<1>3. Entry \in [Row -> EntrySet] /\ \A r \in Row : Entry[r].content = None
  BY <1>1, <1>2
<1>4. Promised!Used = {}
  BY <1>3 DEF Promised!Used
<1> QED
  BY <1>1, <1>3, <1>4 DEF ArchiveInv

LEMMA ArchiveInvStep ==
    ASSUME ArchiveInv, [Promised!Next]_<<Entry, file, synced, Cut>>
    PROVE  ArchiveInv'
<1>1. CASE UNCHANGED <<Entry, file, synced, Cut>>
  BY <1>1 DEF ArchiveInv, Promised!Used, Promised!Disks
<1>2. ASSUME NEW s \in Row, NEW c \in Content, NEW p \in Place, NEW put \in BOOLEAN,
             NEW full \in Content \cup {None}, Promised!Register(s, c, p, put, full)
      PROVE  ArchiveInv'
  <2> DEFINE y == [content |-> c, place |-> p, put |-> put, full |-> full]
  <2>1. Entry' = [Entry EXCEPT ![s] = y] /\ UNCHANGED <<file, synced, Cut>>
    BY <1>2 DEF Promised!Register
  <2>2. y \in EntrySet /\ y.content = c /\ y.place = p /\ y.put = put /\ y.full = full
    BY DEF EntrySet
  <2>3. /\ file[p] # None /\ QuickOf[file[p]] = QuickOf[c] /\ full \in {None, file[p]}
        /\ put => p \in synced
    BY <1>2 DEF Promised!Register
  <2> HIDE DEF y
  <2>4. Entry' \in [Row -> EntrySet] /\ Entry'[s] = y /\ \A r \in Row : r # s => Entry'[r] = Entry[r]
    BY <2>1, <2>2 DEF ArchiveInv
  <2>5. ASSUME NEW r \in Promised!Used'
        PROVE  /\ Entry'[r].place \in Place
               /\ Entry'[r].put => Entry'[r].place \in synced'
               /\ Entry'[r].put \/ ~Cut' =>
                     /\ file'[Entry'[r].place] # None
                     /\ QuickOf[file'[Entry'[r].place]] = QuickOf[Entry'[r].content]
                     /\ Entry'[r].full # None => file'[Entry'[r].place] = Entry'[r].full
    <3>1. r \in Row /\ (r # s => r \in Promised!Used)
      BY <2>4 DEF Promised!Used
    <3>2. CASE r = s
      BY <2>1, <2>2, <2>3, <2>4, <3>2
    <3>3. CASE r # s
      BY <2>1, <2>4, <3>1, <3>3 DEF ArchiveInv
    <3> QED
      BY <3>2, <3>3
  <2> QED
    BY <2>1, <2>4, <2>5 DEF ArchiveInv, Promised!Disks
<1>3. ASSUME NEW some \in SUBSET Promised!Used, Promised!FillIn(some) PROVE ArchiveInv'
  <2>1. /\ UNCHANGED <<file, synced, Cut>>
        /\ Entry' = [r \in Row |-> IF r \in some THEN [Entry[r] EXCEPT !.full = file[Entry[r].place]]
                                                 ELSE Entry[r]]
    BY <1>3 DEF Promised!FillIn
  <2>2. ASSUME NEW r \in Row
        PROVE  /\ Entry'[r].content = Entry[r].content /\ Entry'[r].place = Entry[r].place
               /\ Entry'[r].put = Entry[r].put
               /\ Entry'[r].full \in {Entry[r].full, file[Entry[r].place]}
    BY <2>1 DEF ArchiveInv, EntrySet
  <2>3. Promised!Used' = Promised!Used
    BY <2>2 DEF Promised!Used
  <2>4. Entry' \in [Row -> EntrySet]
    <3>1. \A r \in some : file[Entry[r].place] \in Content \cup {None}
      BY DEF ArchiveInv, Promised!Disks
    <3> QED
      BY <2>1, <3>1 DEF ArchiveInv, EntrySet, Promised!Used
  <2>5. file' \in Promised!Disks /\ synced' \subseteq Place /\ Cut' \in BOOLEAN
    BY <2>1 DEF ArchiveInv
  <2> QED
    BY <2>1, <2>2, <2>3, <2>4, <2>5 DEF ArchiveInv, Promised!Used
<1>4. CASE Promised!Work
  <2>1. UNCHANGED <<Entry, Cut>> /\ Promised!Used' = Promised!Used
    BY <1>4 DEF Promised!Work, Promised!Used
  <2>2. \A p \in Promised!Guarded : file'[p] = file[p] /\ (p \in synced => p \in synced')
    BY <1>4 DEF Promised!Work
  <2>3. \A r \in Promised!Used : Entry[r].put \/ ~Cut => Entry[r].place \in Promised!Guarded
    BY DEF Promised!Guarded
  <2>4. file' \in Promised!Disks /\ synced' \subseteq Place
    BY <1>4 DEF Promised!Work, Promised!Disks
  <2> QED
    BY <2>1, <2>2, <2>3, <2>4 DEF ArchiveInv
<1>5. CASE Promised!PowerLoss
  <2>1. UNCHANGED Entry /\ Promised!Used' = Promised!Used /\ Cut' = TRUE
    BY <1>5 DEF Promised!PowerLoss, Promised!Used
  <2>2. \A p \in Place : p \in synced => file'[p] = file[p] /\ p \in synced'
    BY <1>5 DEF Promised!PowerLoss
  <2>3. file' \in Promised!Disks /\ synced' \subseteq Place
    BY <1>5 DEF Promised!PowerLoss, Promised!Disks
  <2> QED
    BY <2>1, <2>2, <2>3 DEF ArchiveInv
<1> QED
  BY <1>1, <1>2, <1>3, <1>4, <1>5 DEF Promised!Next

\* Whatever implements Archive keeps the files of its entries: those put in place from
\* every loss of power, those found in place while the power stays.
THEOREM ArchiveKeeps == ImplementsArchive => []Promised!Kept
<1>1. ArchiveInv => Promised!Kept
  BY DEF ArchiveInv, Promised!Kept
<1> QED
  BY <1>1, ArchiveInvInit, ArchiveInvStep, PTL DEF ImplementsArchive, Promised!Spec, Promised!vars
=============================================================================
