---------------------------- MODULE ImportPipeline ----------------------------
(***************************************************************************)
(* The import of internal/importer (Pipeline) with the part of             *)
(* services/import.go that starts, cancels, resumes and retries it.        *)
(*                                                                         *)
(* An import works file by file: classify against the catalog, then copy,  *)
(* verify, publish and record - or, in adopt mode, optionally move and     *)
(* record where the file is.  Each step is one action, since a cancel, a   *)
(* crash or a loss of power may come between any two of them; the catalog  *)
(* survives all three, a directory entry survives a loss of power for sure *)
(* only once its directory was synced.                                     *)
(*                                                                         *)
(* A file is its content.  Two contents may share a quick hash, never a    *)
(* full one.  The model follows the latest session; a new one forgets the  *)
(* failures of the one before.                                             *)
(***************************************************************************)
EXTENDS Integers, FiniteSets

CONSTANTS
    Path,           \* places of the files to import
    Slot,           \* free names in the archive layout; bounds how many are made
    Content,
    QuickOf,        \* the quick hash of each content
    StartFile,      \* [Path -> Content], the files at the start
    PartnerOf,      \* [Path -> Path or None], the Live Photo pairs
    Row,            \* identifiers of Asset rows
    Failure,        \* identifiers of ImportFailure rows
    Request,        \* concurrent calls of RetryFailedFile
    Plan,           \* the options an import is started with: [mode, reorganize]
    MaxRequests,    \* bound: user requests
    MaxFaults,      \* bound: failed or wrong reads, writes and statements
    MaxCrashes,     \* bound: ends of the process alone
    MaxOutages,     \* bound: losses of power
    None

Place == Path \cup Slot

ASSUME FileAssumption ==
    /\ Path \cap Slot = {}
    /\ StartFile \in [Path -> Content]
    /\ PartnerOf \in [Path -> Path \cup {None}]
    /\ DOMAIN QuickOf = Content
    /\ Plan \subseteq [mode : {"copy", "adopt"}, reorganize : BOOLEAN]

ASSUME BoundAssumption ==
    /\ MaxRequests \in Nat
    /\ MaxFaults \in Nat
    /\ MaxCrashes \in Nat
    /\ MaxOutages \in Nat

ASSUME NoneAssumption ==
    None \notin Place \cup Content \cup Row \cup Failure \cup Request

VARIABLES
    phase,      \* the process: "up" or "down"
    file,       \* the content at each place
    synced,     \* places whose directory entry is durable
    partial,    \* the .paim-partial file in progress
    stray,      \* partials nobody is writing any more
    row,        \* Asset rows
    session,    \* the ImportSession row
    failure,    \* ImportFailure rows
    cancelled,  \* the context of the active operation
    run,        \* the active operation and its locals
    asked,      \* retries between their check and their turn
    twice,      \* history: a failure marked retried was marked so again
    requests, faults, crashes, outages

disk    == <<file, synced, partial, stray>>
catalog == <<row, session, failure>>
memory  == <<cancelled, run, asked>>
bounds  == <<twice, requests, faults, crashes, outages>>
vars    == <<phase, disk, catalog, memory, bounds>>

------------------------------------------------------------------------------
(* Values and queries *)

SessionStatus == {"none", "running", "completed", "failed", "cancelled", "interrupted"}

\* source is the content the quick hash was taken of, full the stored full hash.
NoRow == [source |-> None, place |-> None, origin |-> None, full |-> None,
          original |-> None, partner |-> None]

NoFailure == [path |-> None, status |-> "none"]

NoSession == [status |-> "none", mode |-> "copy", reorganize |-> FALSE,
              imported |-> 0, failures |-> 0]

\* ImportService.active is pc # "idle"; todo are the scanned files left.
NoRun == [pc |-> "idle", retry |-> None, call |-> None, todo |-> {}, at |-> None, full |-> None,
          match |-> None, dest |-> None, source |-> None, got |-> [p \in Place |-> None]]

Active      == run.pc # "idle"
Retrying    == run.retry # None
Recorded    == {r \in Row : row[r] # NoRow}
FreeRows    == Row \ Recorded
FreeSlots   == {s \in Slot : file[s] = None}
OpenOnes    == {f \in Failure : failure[f].status = "open"}
Archived(c) == \E r \in Recorded : row[r].source = c
Cur         == file[run.at]

\* Scan of the source root, which in adopt mode is the library itself.
Scanned == {p \in IF session.mode = "copy" THEN Path ELSE Place : file[p] # None}

Fault ==
    /\ faults < MaxFaults
    /\ faults' = faults + 1
    /\ UNCHANGED <<twice, requests, crashes, outages>>
UserRequest ==
    /\ phase = "up"
    /\ requests < MaxRequests
    /\ requests' = requests + 1
    /\ UNCHANGED <<twice, faults, crashes, outages>>

Goto(pc) == run' = [run EXCEPT !.pc = pc]

\* A file is dealt with: an import turns to the next one, a retry is resolved.
FileDone(r) ==
    run' = [run EXCEPT !.pc = IF Retrying THEN "resolved" ELSE "next",
                       !.at = None, !.full = None, !.match = None, !.dest = None, !.source = None,
                       !.got[run.at] = r]

Create(place, c) == file' = [file EXCEPT ![place] = c] /\ synced' = synced \ {place}
Remove(place)    == file' = [file EXCEPT ![place] = None] /\ synced' = synced \ {place}

------------------------------------------------------------------------------
(* The process *)

Init ==
    /\ phase = "up"
    /\ file = [p \in Place |-> IF p \in Path THEN StartFile[p] ELSE None]
    /\ synced = Path
    /\ partial = None
    /\ stray = FALSE
    /\ row = [r \in Row |-> NoRow]
    /\ session = NoSession
    /\ failure = [f \in Failure |-> NoFailure]
    /\ cancelled = FALSE
    /\ run = NoRun
    /\ asked = [q \in Request |-> None]
    /\ twice = FALSE
    /\ requests = 0
    /\ faults = 0
    /\ crashes = 0
    /\ outages = 0

\* The process ends; what is in memory, and the partial's writer, are gone.
Stopped ==
    /\ phase = "up"
    /\ phase' = "down"
    /\ partial' = None
    /\ cancelled' = FALSE
    /\ run' = NoRun
    /\ asked' = [q \in Request |-> None]
    /\ UNCHANGED <<catalog, twice, requests, faults>>

Crash ==
    /\ Stopped
    /\ crashes < MaxCrashes
    /\ crashes' = crashes + 1
    /\ stray' = (stray \/ partial # None)
    /\ UNCHANGED <<file, synced, outages>>

\* A loss of power takes any of the entries not synced with it; those it leaves
\* are on disk for good.
PowerLoss ==
    /\ Stopped
    /\ outages < MaxOutages
    /\ outages' = outages + 1
    /\ \E lost \in SUBSET (Place \ synced) :
         file' = [p \in Place |-> IF p \in lost THEN None ELSE file[p]]
    /\ synced' = {p \in Place : file'[p] # None}
    /\ stray' \in {stray, stray \/ partial # None}
    /\ UNCHANGED crashes

\* composition.recover: MarkInterruptedOnStartup.
Open ==
    /\ phase = "down"
    /\ phase' = "up"
    /\ session' = [session EXCEPT !.status = IF @ = "running" THEN "interrupted" ELSE @]
    /\ UNCHANGED <<disk, row, failure, memory, bounds>>

------------------------------------------------------------------------------
(* ImportService: the user's requests *)

\* StartImport: launch takes the one slot and creates the session.
StartImport(plan) ==
    /\ UserRequest
    /\ ~Active
    /\ \A q \in Request : asked[q] = None
    /\ session' = [NoSession EXCEPT !.status = "running", !.mode = plan.mode,
                                    !.reorganize = plan.reorganize]
    /\ failure' = [f \in Failure |-> NoFailure]
    /\ cancelled' = FALSE
    /\ Goto("preparing")
    /\ UNCHANGED <<phase, disk, row, asked>>

\* ResumeSession of an interrupted or cancelled session.
Resume ==
    /\ UserRequest
    /\ ~Active
    /\ session.status \in {"interrupted", "cancelled"}
    /\ cancelled' = FALSE
    /\ Goto("preparing")
    /\ UNCHANGED <<phase, disk, catalog, asked>>

CancelImport ==
    /\ UserRequest
    /\ Active
    /\ ~cancelled
    /\ cancelled' = TRUE
    /\ UNCHANGED <<phase, disk, catalog, run, asked>>

\* RetryFailedFile reads the failure and looks for the file ...
RetryCheck(q, f) ==
    /\ UserRequest
    /\ asked[q] = None
    /\ run.call # q
    /\ f \in OpenOnes
    /\ file[failure[f].path] # None
    /\ asked' = [asked EXCEPT ![q] = f]
    /\ UNCHANGED <<phase, disk, catalog, cancelled, run>>

\* ... then takes the slot, or is refused while another operation has it.
RetryRun(q) ==
    /\ asked[q] # None
    /\ asked' = [asked EXCEPT ![q] = None]
    /\ IF Active
       THEN UNCHANGED <<cancelled, run>>
       ELSE /\ cancelled' = FALSE
            /\ run' = [NoRun EXCEPT !.pc = "file", !.retry = asked[q], !.call = q,
                                    !.at = failure[asked[q]].path,
                                    !.source = file[failure[asked[q]].path]]
    /\ UNCHANGED <<phase, disk, catalog, bounds>>

\* MarkRetried, whatever the status is by now; its error ends the call ...
MarkRetried ==
    /\ run.pc = "resolved"
    /\ \/ /\ failure' = [failure EXCEPT ![run.retry].status = "retried"]
          /\ twice' = (twice \/ failure[run.retry].status = "retried")
          /\ Goto("uncounting")
          /\ UNCHANGED <<requests, faults, crashes, outages>>
       \/ Fault /\ run' = NoRun /\ UNCHANGED failure
    /\ UNCHANGED <<phase, disk, row, session, cancelled, asked>>

\* ... and IncFailures(-1), whose error is logged.
Uncount ==
    /\ run.pc = "uncounting"
    /\ \/ session' = [session EXCEPT !.failures = @ - 1] /\ UNCHANGED bounds
       \/ Fault /\ UNCHANGED session
    /\ run' = NoRun
    /\ UNCHANGED <<phase, disk, row, failure, cancelled, asked>>

\* HistoryService.DismissFailure
Dismiss(f) ==
    /\ UserRequest
    /\ f \in OpenOnes
    /\ failure' = [failure EXCEPT ![f].status = "dismissed"]
    /\ UNCHANGED <<phase, disk, row, session, memory>>

------------------------------------------------------------------------------
(* resumeSession and the loop of runImport *)

\* cleanStrayPartials, cut short by a cancel, and SetStatus(running), whose
\* error - the cancelled context included - ends the operation.
Prepare ==
    /\ run.pc = "preparing"
    /\ stray' \in IF cancelled THEN {stray, FALSE} ELSE {FALSE}
    /\ \/ /\ ~cancelled
          /\ session' = [session EXCEPT !.status = "running"]
          /\ Goto("scanning")
          /\ UNCHANGED bounds
       \/ /\ IF cancelled THEN UNCHANGED bounds ELSE Fault
          /\ run' = NoRun
          /\ UNCHANGED session
    /\ UNCHANGED <<phase, file, synced, partial, row, failure, cancelled, asked>>

\* A scan that fails or is cancelled leaves the session interrupted.
Scan ==
    /\ run.pc = "scanning"
    /\ \/ /\ ~cancelled
          /\ run' = [run EXCEPT !.pc = "next", !.todo = Scanned]
          /\ UNCHANGED <<session, bounds>>
       \/ /\ IF cancelled THEN UNCHANGED bounds ELSE Fault
          /\ session' = [session EXCEPT !.status = "interrupted"]
          /\ run' = NoRun
    /\ UNCHANGED <<phase, disk, row, failure, cancelled, asked>>

NextFile(p) ==
    /\ run.pc = "next"
    /\ ~cancelled
    /\ p \in run.todo
    /\ run' = [run EXCEPT !.pc = "file", !.at = p, !.source = file[p], !.todo = @ \ {p}]
    /\ UNCHANGED <<phase, disk, catalog, cancelled, asked, bounds>>

\* finishSession: an error completing the session is logged.
Finish(status) ==
    /\ \/ session' = [session EXCEPT !.status = status] /\ UNCHANGED bounds
       \/ Fault /\ UNCHANGED session
    /\ run' = NoRun
    /\ UNCHANGED <<phase, disk, row, failure, cancelled, asked>>

\* Mutant: a cancelled import returns without finishing its session.
StopQuietly ==
    /\ run.pc = "next"
    /\ cancelled
    /\ run.todo # {}
    /\ run' = NoRun
    /\ UNCHANGED <<phase, disk, catalog, cancelled, asked, bounds>>

\* The context is looked at before each file, not after the last.
StopEarly ==
    /\ run.pc = "next"
    /\ cancelled
    /\ run.todo # {}
    /\ Finish("cancelled")

\* Mutant: a status the catalog does not know.
AbortNamed == run.pc = "aborting" /\ Finish("aborted")

Abort == run.pc = "aborting" /\ Finish("interrupted")

\* The halves of Live Photo pairs that this run recorded both of.
ToLink ==
    {p \in Path : /\ PartnerOf[p] # None
                  /\ run.got[p] # None
                  /\ run.got[PartnerOf[p]] # None}

LoopEnds ==
    /\ run.pc = "next"
    /\ run.todo = {}
    /\ run' = [run EXCEPT !.pc = "linking", !.todo = ToLink]
    /\ UNCHANGED <<phase, disk, catalog, cancelled, asked, bounds>>

\* linkPairs sets the one partner, then the other; a failed update skips the
\* pair, which is tried once more from its other half.
LinkOne(p) ==
    LET q == PartnerOf[p]
    IN  /\ run.pc = "linking"
        /\ p \in run.todo
        /\ \/ /\ ~cancelled
              /\ row' = [row EXCEPT ![run.got[p]].partner = run.got[q]]
              /\ run' = [run EXCEPT !.pc = "halflinked", !.at = p, !.todo = @ \ {p}]
              /\ UNCHANGED bounds
           \/ /\ IF cancelled THEN UNCHANGED bounds ELSE Fault
              /\ run' = [run EXCEPT !.todo = @ \ {p}]
              /\ UNCHANGED row
        /\ UNCHANGED <<phase, disk, session, failure, cancelled, asked>>

LinkOther ==
    LET p == run.at
        q == PartnerOf[p]
    IN  /\ run.pc = "halflinked"
        /\ \/ /\ ~cancelled
              /\ row' = [row EXCEPT ![run.got[q]].partner = run.got[p]]
              /\ run' = [run EXCEPT !.pc = "linking", !.at = None, !.todo = @ \ {q}]
              /\ UNCHANGED bounds
           \/ /\ IF cancelled THEN UNCHANGED bounds ELSE Fault
              /\ run' = [run EXCEPT !.pc = "linking", !.at = None]
              /\ UNCHANGED row
        /\ UNCHANGED <<phase, disk, session, failure, cancelled, asked>>

\* An import that recorded nothing but failures has failed.
Complete ==
    /\ run.pc = "linking"
    /\ run.todo = {}
    /\ Finish(IF session.imported = 0 /\ session.failures > 0 THEN "failed" ELSE "completed")

------------------------------------------------------------------------------
(* processFile: classify *)

Candidates == {r \in Recorded : Cur # None /\ QuickOf[row[r].source] = QuickOf[Cur]}

\* Mutant: a full hash that was never stored is not computed.
FullStored(r) == row[r].full

\* The full hash of a candidate, stored or computed from its archived file.
FullOf(r) == IF row[r].full # None THEN row[r].full ELSE file[row[r].place]

SamePath(r) == run.at \in {row[r].origin, row[r].place}

\* The candidates are compared in turn up to one that is this very file; one
\* that cannot be read, or no longer because of a cancel, is passed over.
Compared(looked, unread) ==
    LET equal == {r \in looked \ unread : FullOf(r) = Cur}
        here  == {r \in equal : SamePath(r)}
    IN  /\ unread \subseteq {r \in looked : row[r].full = None}
        /\ \/ looked = Candidates /\ here = {}
           \/ Cardinality(here) = 1
        /\ \/ /\ here # {} \/ (equal # {} /\ session.mode = "copy")
              /\ Goto("skipping")
           \/ /\ here = {} /\ equal # {} /\ session.mode = "adopt"
              /\ run' = [run EXCEPT !.pc = "adopting", !.full = Cur,
                                    !.match = CHOOSE r \in equal : TRUE]
           \/ /\ equal = {}
              /\ run' = [run EXCEPT !.pc = IF session.mode = "copy" THEN "copying" ELSE "adopting",
                                    !.full = Cur]
        /\ row' = [r \in Row |-> IF r \in looked \ unread
                                 THEN [row[r] EXCEPT !.full = FullOf(r)] ELSE row[r]]

\* A file with no candidate is new; a dry run may have left its full hash.
ClassifyNew ==
    /\ run.pc = "file"
    /\ ~cancelled
    /\ Cur # None
    /\ Candidates = {}
    /\ \E full \in {None, Cur} :
         run' = [run EXCEPT !.pc = IF session.mode = "copy" THEN "copying" ELSE "adopting",
                            !.full = full]
    /\ UNCHANGED <<phase, disk, catalog, cancelled, asked, bounds>>

ClassifyKnown ==
    /\ run.pc = "file"
    /\ Cur # None
    /\ Candidates # {}
    /\ \E looked \in SUBSET Candidates : \E unread \in SUBSET looked :
         /\ Compared(looked, unread)
         /\ IF unread = {} \/ cancelled THEN UNCHANGED bounds ELSE Fault
    /\ UNCHANGED <<phase, disk, session, failure, cancelled, asked>>

\* The file is gone or unreadable, or the lookup fails, as it does once cancelled.
ClassifyFails ==
    /\ run.pc = "file"
    /\ IF cancelled \/ Cur = None THEN UNCHANGED bounds ELSE Fault
    /\ Goto("failing")
    /\ UNCHANGED <<phase, disk, catalog, cancelled, asked>>

\* recordAlreadyImported: no row, the file is left alone.
Skip ==
    /\ run.pc = "skipping"
    /\ FileDone(None)
    /\ UNCHANGED <<phase, disk, catalog, cancelled, asked, bounds>>

\* Mutant: the failure row without the counter.
RecordUncounted ==
    /\ run.pc = "failing"
    /\ \E f \in Failure :
         /\ failure[f] = NoFailure
         /\ failure' = [failure EXCEPT ![f] = [path |-> run.at, status |-> "open"]]
    /\ run' = IF Retrying THEN NoRun ELSE [run EXCEPT !.pc = "next", !.at = None]
    /\ UNCHANGED <<phase, disk, row, session, cancelled, asked, bounds>>

\* recordFailure counts and records in one transaction, else only counts, else
\* nothing; a retry that fails again leaves its record open.
RecordFailure ==
    /\ run.pc = "failing"
    /\ IF Retrying
       THEN run' = NoRun /\ UNCHANGED <<session, failure, bounds>>
       ELSE /\ run' = [NoRun EXCEPT !.pc = "next", !.todo = run.todo, !.got = run.got]
            /\ \/ /\ session' = [session EXCEPT !.failures = @ + 1]
                  /\ \/ /\ \E f \in Failure :
                             /\ failure[f] = NoFailure
                             /\ failure' = [failure EXCEPT
                                              ![f] = [path |-> run.at, status |-> "open"]]
                        /\ UNCHANGED bounds
                     \/ Fault /\ UNCHANGED failure
               \/ Fault /\ UNCHANGED <<session, failure>>
    /\ UNCHANGED <<phase, disk, row, cancelled, asked>>

------------------------------------------------------------------------------
(* copyFile *)

\* A retry has no session to interrupt: to it an abort is one more failure.
AbortOrFail == IF Retrying THEN "failing" ELSE "aborting"

\* The destination root is looked at before copyToPartial opens its file.
CopyRefused ==
    /\ run.pc = "copying"
    /\ Fault
    /\ \E pc \in {AbortOrFail, "failing"} : Goto(pc)
    /\ UNCHANGED <<phase, disk, catalog, cancelled, asked>>

OpenPartial ==
    /\ run.pc = "copying"
    /\ partial' = Cur
    /\ Goto("writing")
    /\ UNCHANGED <<phase, file, synced, stray, catalog, cancelled, asked, bounds>>

\* The copy arrives, as it was or not, and is synced with its directory ...
CopyDone ==
    /\ run.pc = "writing"
    /\ \E c \in Content :
         /\ partial' = c
         /\ IF c = Cur THEN UNCHANGED bounds ELSE Fault
    /\ Goto("copied")
    /\ UNCHANGED <<phase, file, synced, stray, catalog, cancelled, asked>>

\* ... or is given up: on an error the file fails, on a full disk the import
\* ends, on a cancel the file has neither failed nor been imported.
CopyGivenUp ==
    /\ run.pc = "writing"
    /\ partial' = None
    /\ \/ Fault /\ \E pc \in {AbortOrFail, "failing"} : Goto(pc)
       \/ cancelled /\ FileDone(None) /\ UNCHANGED bounds
    /\ UNCHANGED <<phase, file, synced, stray, catalog, cancelled, asked>>

\* VerifyCopy: quick hashes always, full ones only when the source's is known.
Verified ==
    /\ QuickOf[partial] = QuickOf[Cur]
    /\ run.full # None => partial = run.full

VerifyCopy ==
    /\ run.pc = "copied"
    /\ Verified
    /\ run.full # None => ~cancelled
    /\ Goto("verified")
    /\ UNCHANGED <<phase, disk, catalog, cancelled, asked, bounds>>

VerifyFails ==
    /\ run.pc = "copied"
    /\ IF ~Verified \/ (run.full # None /\ cancelled) THEN UNCHANGED bounds ELSE Fault
    /\ partial' = None
    /\ Goto("failing")
    /\ UNCHANGED <<phase, file, synced, stray, catalog, cancelled, asked>>

\* linkExclusive never takes a name that is in use.
Publish ==
    /\ run.pc = "verified"
    /\ \/ \E s \in FreeSlots :
            /\ Create(s, partial)
            /\ run' = [run EXCEPT !.pc = "published", !.dest = s]
            /\ UNCHANGED <<partial, bounds>>
       \/ /\ Fault
          /\ partial' = None
          /\ Goto("failing")
          /\ UNCHANGED <<file, synced>>
    /\ UNCHANGED <<phase, stray, catalog, cancelled, asked>>

\* Mutant: recorded without waiting for the directory.
SyncSkipped ==
    /\ run.pc = "published"
    /\ partial' = None
    /\ Goto("recording")
    /\ UNCHANGED <<phase, file, synced, stray, catalog, cancelled, asked, bounds>>

\* The partial goes, if it can; then fsyncDir.
SyncPublished ==
    /\ run.pc = "published"
    /\ partial' = None
    /\ \/ /\ synced' = synced \cup {run.dest}
          /\ Goto("recording")
          /\ UNCHANGED <<file, stray, bounds>>
       \/ /\ Fault
          /\ stray' = TRUE
          /\ synced' = synced \cup {run.dest}
          /\ Goto("recording")
          /\ UNCHANGED file
       \/ /\ Fault
          /\ Remove(run.dest)
          /\ Goto("failing")
          /\ UNCHANGED stray
    /\ UNCHANGED <<phase, catalog, cancelled, asked>>

------------------------------------------------------------------------------
(* adoptFile *)

\* The full hash taken as the baseline, unless the classification had it.
Baseline ==
    /\ run.pc = "adopting"
    /\ \/ /\ run.full # None \/ ~cancelled
          /\ run' = [run EXCEPT !.pc = "placing", !.full = Cur]
          /\ UNCHANGED bounds
       \/ /\ run.full = None
          /\ IF cancelled THEN UNCHANGED bounds ELSE Fault
          /\ Goto("failing")
    /\ UNCHANGED <<phase, disk, catalog, cancelled, asked>>

\* The file stays: no reorganize, a duplicate, its place already or another volume.
StayInPlace ==
    /\ run.pc = "placing"
    /\ run' = [run EXCEPT !.pc = "recording", !.dest = run.at]
    /\ UNCHANGED <<phase, disk, catalog, cancelled, asked, bounds>>

\* Mutant: the old name is removed before there is a new one.
MoveRemoveFirst ==
    /\ run.pc = "placing"
    /\ session.reorganize
    /\ run.match = None
    /\ Remove(run.at)
    /\ Goto("failing")
    /\ UNCHANGED <<phase, partial, stray, catalog, cancelled, asked, bounds>>

\* reorganizeInPlace links the file to its new name ...
MoveLink ==
    /\ run.pc = "placing"
    /\ session.reorganize
    /\ run.match = None
    /\ \/ \E s \in FreeSlots :
            /\ Create(s, Cur)
            /\ run' = [run EXCEPT !.pc = "linked", !.dest = s]
            /\ UNCHANGED bounds
       \/ /\ Fault
          /\ Goto("failing")
          /\ UNCHANGED <<file, synced>>
    /\ UNCHANGED <<phase, partial, stray, catalog, cancelled, asked>>

\* ... removes the old name ...
MoveUnlink ==
    /\ run.pc = "linked"
    /\ \/ /\ Remove(run.at)
          /\ Goto("moved")
          /\ UNCHANGED bounds
       \/ /\ Fault
          /\ Goto("failing")
          /\ UNCHANGED <<file, synced>>
    /\ UNCHANGED <<phase, partial, stray, catalog, cancelled, asked>>

\* ... syncs the directory and hashes the file again.
MoveSync ==
    /\ run.pc = "moved"
    /\ \/ /\ synced' = synced \cup {run.dest}
          /\ Goto("recording")
          /\ UNCHANGED bounds
       \/ /\ Fault
          /\ synced' \in {synced, synced \cup {run.dest}}
          /\ Goto("failing")
    /\ UNCHANGED <<phase, file, partial, stray, catalog, cancelled, asked>>

\* recordAsset: row and counter in one transaction.  A copy that cannot be
\* recorded is removed again, an adopted file stays where it is.
Record ==
    /\ run.pc = "recording"
    /\ ~cancelled
    /\ \E r \in FreeRows :
         /\ row' = [row EXCEPT ![r] = [source |-> run.source, place |-> run.dest,
                                       origin |-> run.at, full |-> run.full,
                                       original |-> run.match, partner |-> None]]
         /\ FileDone(r)
    /\ session' = [session EXCEPT !.imported = IF run.match = None THEN @ + 1 ELSE @]
    /\ UNCHANGED <<phase, disk, failure, cancelled, asked, bounds>>

\* Mutant: the copy stays when it could not be recorded.
RecordFailsKeeping ==
    /\ run.pc = "recording"
    /\ IF cancelled THEN UNCHANGED bounds ELSE Fault
    /\ Goto("failing")
    /\ UNCHANGED <<phase, disk, catalog, cancelled, asked>>

RecordFails ==
    /\ run.pc = "recording"
    /\ IF cancelled THEN UNCHANGED bounds ELSE Fault
    /\ IF session.mode = "copy" THEN Remove(run.dest) ELSE UNCHANGED <<file, synced>>
    /\ Goto("failing")
    /\ UNCHANGED <<phase, partial, stray, catalog, cancelled, asked>>

------------------------------------------------------------------------------

UserStep ==
    \/ \E plan \in Plan : StartImport(plan)
    \/ Resume
    \/ CancelImport
    \/ \E q \in Request, f \in Failure : RetryCheck(q, f)
    \/ \E f \in Failure : Dismiss(f)

CopyStep ==
    \/ CopyRefused
    \/ OpenPartial
    \/ CopyDone
    \/ CopyGivenUp
    \/ VerifyCopy
    \/ VerifyFails
    \/ Publish
    \/ SyncPublished

AdoptStep ==
    \/ Baseline
    \/ StayInPlace
    \/ MoveLink
    \/ MoveUnlink
    \/ MoveSync

PipelineStep ==
    \/ Prepare
    \/ Scan
    \/ \E p \in Place : NextFile(p)
    \/ StopEarly
    \/ Abort
    \/ LoopEnds
    \/ \E p \in Path : LinkOne(p)
    \/ LinkOther
    \/ Complete
    \/ ClassifyNew
    \/ ClassifyKnown
    \/ ClassifyFails
    \/ Skip
    \/ RecordFailure
    \/ CopyStep
    \/ AdoptStep
    \/ Record
    \/ RecordFails
    \/ MarkRetried
    \/ Uncount

Next ==
    \/ Crash
    \/ PowerLoss
    \/ Open
    \/ UserStep
    \/ \E q \in Request : RetryRun(q)
    \/ PipelineStep

Spec == Init /\ [][Next]_vars

\* The one goroutine of an operation runs as long as the process does; nobody
\* has to open the application again or to ask for anything.
Fairness == WF_vars(PipelineStep) /\ \A q \in Request : WF_vars(RetryRun(q))

FairSpec == Spec /\ Fairness

------------------------------------------------------------------------------
(* Properties *)

Steps == {"idle", "preparing", "scanning", "next", "linking", "halflinked",
          "aborting", "file", "skipping", "failing", "copying", "writing", "copied",
          "verified", "published", "adopting", "placing", "linked", "moved",
          "recording", "resolved", "uncounting"}

\* Every variable has values of its kind.
TypeOK ==
    /\ phase \in {"up", "down"}
    /\ file \in [Place -> Content \cup {None}]
    /\ synced \subseteq Place
    /\ partial \in Content \cup {None}
    /\ stray \in BOOLEAN
    /\ row \in [Row -> [source : Content \cup {None}, place : Place \cup {None},
                        origin : Place \cup {None}, full : Content \cup {None},
                        original : Row \cup {None}, partner : Row \cup {None}]]
    /\ session \in [status : SessionStatus, mode : {"copy", "adopt"},
                    reorganize : BOOLEAN, imported : Nat, failures : Int]
    /\ failure \in [Failure -> [path : Place \cup {None},
                                status : {"none", "open", "retried", "dismissed"}]]
    /\ cancelled \in BOOLEAN
    /\ run \in [pc : Steps, retry : Failure \cup {None},
                call : Request \cup {None}, todo : SUBSET Place,
                at : Place \cup {None}, full : Content \cup {None},
                match : Row \cup {None}, dest : Place \cup {None},
                source : Content \cup {None}, got : [Place -> Row \cup {None}]]
    /\ asked \in [Request -> Failure \cup {None}]
    /\ twice \in BOOLEAN
    /\ requests \in 0 .. MaxRequests
    /\ faults \in 0 .. MaxFaults
    /\ crashes \in 0 .. MaxCrashes
    /\ outages \in 0 .. MaxOutages

\* A row of the catalog is never ahead of the disk: where it says a file was
\* copied or moved to, there is a file no loss of power can take, with the quick
\* hash that was recorded and, where a full hash is, with that one.  Of a file
\* adopted where it was this holds while the power stays: no directory is synced
\* for it, and a move cut short may have left it there.
RecordedIsDurable ==
    \A r \in Recorded :
       LET p == row[r].place
           placed == p # row[r].origin
       IN  /\ placed => p \in synced
           /\ placed \/ outages = 0 =>
                 /\ file[p] # None
                 /\ QuickOf[file[p]] = QuickOf[row[r].source]
                 /\ row[r].full # None => file[p] = row[r].full

\* However an import was cancelled, resumed, retried or cut short, as long as
\* every read succeeded no content has two rows of which neither is flagged the
\* duplicate of another and, as long as the power stayed, no place has two rows.
OneRowPerContent ==
    faults = 0 => \A r, s \in Recorded : r # s =>
       /\ row[r].original = None /\ row[s].original = None => row[r].source # row[s].source
       /\ outages = 0 => row[r].place # row[s].place

\* An import moves files, it never loses one: as long as the power stays, every
\* content there was at the start is still at some place.
ContentKept ==
    outages = 0 => \A p \in Path : \E at \in Place : file[at] = StartFile[p]

\* Adoption, where the file itself is what is registered and moved (adoptFile,
\* reorganizeInPlace): rows find durable files, no content is taken for two and
\* none is lost, together.
AdoptSafe == RecordedIsDurable /\ OneRowPerContent /\ ContentKept

\* When nothing runs, the process was never cut short and nothing failed, every
\* copy in the archive was recorded, whenever a cancel came: what no row owns are
\* files moved there, as many of a content as left their place; and no partial
\* is left.
NothingLeftBehind ==
    (crashes = 0 /\ outages = 0 /\ faults = 0 /\ ~Active) =>
       /\ ~stray
       /\ partial = None
       /\ \A c \in Content :
            Cardinality({s \in Slot : file[s] = c /\ \A r \in Recorded : row[r].place # s})
              <= Cardinality({p \in Path : StartFile[p] = c /\ file[p] = None})

\* retry.go says that a retry updates "the pre-existing failure record" to "keep
\* counters coherent": the counter the history shows stands for at least the
\* failures still open.
CountersCoherent == session.failures >= Cardinality(OpenOnes)

\* It does, also while a failure is being retried and dismissed at once; only
\* two calls that both found a failure open, and resolved it one after the other,
\* count it off twice.
FailureTallyKept == ~twice => CountersCoherent

\* Once an import scans, its session settles - completed, failed, cancelled or
\* interrupted - unless the process ends or a statement fails.
SessionSettles ==
    run.pc = "scanning" ~> session.status # "running" \/ phase = "down" \/ faults > 0

\* services/import.go says of CancelImport that "the pipeline finalizes the
\* session as cancelled": no operation ends with its session running, unless a
\* statement failed.
CancelSettles == ~Active /\ phase = "up" /\ faults = 0 => session.status # "running"

\* docs/ARCHITECTURE.md says of adoption that "files already inside the Master
\* Library that were imported normally are recognized as already-archived and
\* skipped": unless a read failed or the power was lost, the file a row stands for
\* stays where the row says.
ArchivedStaysPut ==
    faults = 0 /\ outages = 0 => \A r \in Recorded : file[row[r].place] # None

------------------------------------------------------------------------------
(* Abstract specification *)

\* What Archive knows of a row.
Entry == [r \in Row |-> [content |-> row[r].source, place |-> row[r].place,
                         put |-> row[r].place # row[r].origin, full |-> row[r].full]]

Cut == outages > 0

Promised == INSTANCE Archive WITH
    Entries <- Row, Places <- Place, Contents <- Content, HashOf <- QuickOf, Absent <- None,
    entry <- Entry, held <- file, durable <- synced, cut <- Cut

\* Whatever an import does between two statements, and wherever it is cut short, to
\* the catalog and the disk it is one of four steps: a file that is there is
\* registered, a missing hash is taken, files no row stands for are worked on, or
\* what was not synced is lost.
ImplementsArchive == Promised!Spec
=============================================================================
