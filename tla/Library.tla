------------------------------- MODULE Library -------------------------------
(***************************************************************************)
(* Opening and closing a portable library: main.go (composition),          *)
(* library/lock.go, library/migrate.go, db/library.go and db/migrate.go.   *)
(*                                                                         *)
(* Several PAIM processes, on one Mac or on several, ask for one library.  *)
(* The lock is a file: it is made exclusively, filled in, read, and        *)
(* removed by separate system calls, so each is an action; a process may   *)
(* end between any two.  The catalog is a file with a schema version.      *)
(***************************************************************************)
EXTENDS Integers, FiniteSets

CONSTANTS
    Proc,           \* places a PAIM process runs in
    Host,           \* Macs
    HostOf,         \* [Proc -> Host]
    LatestSchema,   \* the schema version this build writes
    StartSchema,    \* versions the catalog may have at the start, None if there is none
    MaxLaunches,    \* bound: starts of a process
    MaxTrouble,     \* bound: Force Opens and failed reads, writes and statements
    MaxSessions,    \* bound: operations that keep a session
    None

Pid == 1..MaxLaunches
Migration == 1..LatestSchema

(* A lock file: who made it, on which Mac, and whose identity is in it. *)
Lock == [maker : Pid, host : Host, holder : Pid \cup {None}]

ASSUME LibraryAssumption ==
    /\ HostOf \in [Proc -> Host]
    /\ LatestSchema \in Nat \ {0}
    /\ StartSchema \subseteq (0..LatestSchema + 1) \cup {None}
    /\ None \notin Int /\ None \notin Lock

ASSUME LibraryBounds ==
    /\ MaxLaunches \in Nat
    /\ MaxTrouble \in Nat
    /\ MaxSessions \in Nat

VARIABLES
    pc,         \* what each process is doing
    pid,        \* the process identifier of the one running there, 0 if none is
    tries,      \* attempts of acquireLock that found the lock taken
    lockFile,   \* the lock file: who made it and whose identity it holds
    catalog,    \* paim.db: is it there, whole, at which schema version, and has a
                \* build added to it since, outside the migrations
    read,       \* the schema version Migrate goes by, read once
    applied,    \* how often each migration committed
    saved,      \* the copies under backups/: version, and what was added to it
    legacy,     \* the catalog from before libraries: in its place or set aside
    running,    \* processes whose session row says running
    busy,       \* processes with an operation under way
    launches, forces, faults, sessions      \* used so far

lockVars == <<pid, tries, lockFile>>
dbVars   == <<catalog, read, applied, saved, legacy>>
workVars == <<running, busy, sessions>>
vars     == <<pc, lockVars, dbVars, workVars, launches, forces, faults>>

------------------------------------------------------------------------------

Opening == {"legacy", "copy", "preserve", "break", "create", "write", "inspect",
            "reclaim", "opendb", "stamp", "backup", "migrate", "undo", "recover"}
Closing == {"stop", "release", "flush"}
Phase   == {"off", "welcome", "open"} \cup Opening \cup Closing

Alive(n) == \E p \in Proc : pid[p] = n

(* A process that believes it holds the lock. *)
Holds(p) == pc[p] \in {"opendb", "stamp", "backup", "migrate", "undo", "recover",
                       "open", "stop", "release"}

Catalog     == [there : BOOLEAN, whole : BOOLEAN, schema : 0..LatestSchema + 1, grown : BOOLEAN]
Copy        == [schema : 0..LatestSchema, grown : BOOLEAN]
NoCatalog   == [there |-> FALSE, whole |-> FALSE, schema |-> 0, grown |-> FALSE]
AtVersion(v) == [there |-> TRUE, whole |-> TRUE, schema |-> v, grown |-> FALSE]
HasLibrary  == catalog.there
Goto(p, to) == pc' = [pc EXCEPT ![p] = to]
Fault       == faults + forces < MaxTrouble /\ faults' = faults + 1
NoFault     == UNCHANGED faults

Init ==
    /\ pc = [p \in Proc |-> "off"]
    /\ pid = [p \in Proc |-> 0]
    /\ tries = [p \in Proc |-> 0]
    /\ lockFile = None
    /\ \E v \in StartSchema :
          catalog = IF v = None THEN NoCatalog ELSE AtVersion(v)
    /\ read = [p \in Proc |-> 0]
    /\ applied = [m \in Migration |-> 0]
    /\ saved = {}
    /\ legacy \in {"none", "inPlace"}
    /\ HasLibrary => legacy = "none"    \* where it makes no difference
    /\ running = {}
    /\ busy = {}
    /\ launches = 0 /\ forces = 0 /\ faults = 0 /\ sessions = 0

------------------------------------------------------------------------------
(* The process and what the user asks of it *)

Launch(p) ==
    /\ pc[p] = "off"
    /\ launches < MaxLaunches
    /\ launches' = launches + 1
    /\ pid' = [pid EXCEPT ![p] = launches + 1]
    /\ Goto(p, "welcome")
    /\ UNCHANGED <<tries, lockFile, dbVars, workVars, forces, faults>>

Gone(p) ==
    /\ Goto(p, "off")
    /\ pid' = [pid EXCEPT ![p] = 0]
    /\ tries' = [tries EXCEPT ![p] = 0]
    /\ busy' = busy \ {p}

(* The process is killed: what is on disk stays as it is. *)
Die(p) ==
    /\ pc[p] # "off"
    /\ Gone(p)
    /\ UNCHANGED <<lockFile, dbVars, running, sessions, launches, forces, faults>>

Ask(p, first) ==
    /\ pc[p] = "welcome"
    /\ tries' = [tries EXCEPT ![p] = 0]
    /\ Goto(p, first)
    /\ UNCHANGED <<pid, lockFile, dbVars, workVars, launches, faults>>

OpenOrCreate(p) == Ask(p, "create") /\ UNCHANGED forces
ForceOpen(p)    == Ask(p, "break") /\ faults + forces < MaxTrouble /\ forces' = forces + 1
MigrateLegacy(p) == Ask(p, "legacy") /\ ~HasLibrary /\ UNCHANGED forces

------------------------------------------------------------------------------
(* InstallLegacy: before the lock is taken *)

InstallStep(p, from) ==
    /\ pc[p] = from
    /\ UNCHANGED <<lockVars, workVars, read, applied, saved, launches, forces>>

(* The copy is made under the catalog's own name, exclusively. *)
InstallBegin(p) ==
    /\ InstallStep(p, "legacy")
    /\ UNCHANGED legacy
    /\ NoFault
    /\ IF legacy = "inPlace" /\ ~HasLibrary
       THEN /\ catalog' = [AtVersion(0) EXCEPT !.whole = FALSE]
            /\ Goto(p, "copy")
       ELSE Goto(p, "welcome") /\ UNCHANGED catalog

InstallCopied(p) ==
    /\ InstallStep(p, "copy")
    /\ UNCHANGED legacy
    /\ \/ /\ catalog' = [catalog EXCEPT !.whole = TRUE]
          /\ Goto(p, "preserve")
          /\ NoFault
       \/ catalog' = NoCatalog /\ Goto(p, "welcome") /\ Fault

InstallPreserve(p) ==
    /\ InstallStep(p, "preserve")
    /\ UNCHANGED catalog
    /\ \/ legacy' = "setAside" /\ Goto(p, "create") /\ NoFault
       \/ UNCHANGED legacy /\ Goto(p, "welcome") /\ Fault

------------------------------------------------------------------------------
(* The lock file *)

LockStep(p, from) ==
    /\ pc[p] = from
    /\ UNCHANGED <<pid, dbVars, workVars, launches, forces>>

(* Removes whatever is in the lock's place, or fails to. *)
RemoveLock(p, done, failed) ==
    \/ lockFile' = None /\ Goto(p, done) /\ NoFault
    \/ UNCHANGED lockFile /\ Goto(p, failed) /\ Fault

BreakLock(p) ==
    /\ LockStep(p, "break")
    /\ RemoveLock(p, "create", "welcome")
    /\ UNCHANGED tries

CreateLock(p) ==
    /\ LockStep(p, "create")
    /\ UNCHANGED tries
    /\ \/ /\ lockFile = None
          /\ lockFile' = [maker |-> pid[p], host |-> HostOf[p], holder |-> None]
          /\ Goto(p, "write")
          /\ NoFault
       \/ lockFile # None /\ UNCHANGED lockFile /\ Goto(p, "inspect") /\ NoFault
       \/ UNCHANGED lockFile /\ Goto(p, "welcome") /\ Fault

(* The identity goes to the file this process made, which may have been removed
   from its place since; a failed write removes whatever is in that place. *)
WriteLock(p) ==
    /\ LockStep(p, "write")
    /\ tries' = [tries EXCEPT ![p] = 0]
    /\ \/ /\ lockFile' = IF lockFile # None /\ lockFile.maker = pid[p]
                         THEN [lockFile EXCEPT !.holder = pid[p]] ELSE lockFile
          /\ Goto(p, "opendb")
          /\ NoFault
       \/ lockFile' = None /\ Goto(p, "welcome") /\ Fault

(* Mutant: another Mac's process identifier is looked up on this one. *)
Mut_DeadHere(p) ==
    /\ lockFile # None
    /\ lockFile.holder # None
    /\ ~Alive(lockFile.holder) \/ lockFile.host # HostOf[p]

(* Mutant: a lock not yet filled in is taken for a dead one. *)
Mut_DeadHereEmpty(p) ==
    /\ lockFile # None
    /\ \/ lockFile.holder = None
       \/ lockFile.host = HostOf[p] /\ ~Alive(lockFile.holder)

(* Is the lock that of a process of this Mac that is gone?  A lock that is
   missing or not yet filled in names nobody and is refused. *)
DeadHere(p) ==
    /\ lockFile # None
    /\ lockFile.holder # None
    /\ lockFile.host = HostOf[p]
    /\ ~Alive(lockFile.holder)

InspectLock(p) ==
    /\ LockStep(p, "inspect")
    /\ IF DeadHere(p) THEN Goto(p, "reclaim") /\ UNCHANGED tries
       ELSE Goto(p, "welcome") /\ tries' = [tries EXCEPT ![p] = 0]
    /\ NoFault
    /\ UNCHANGED lockFile

ReclaimLock(p) ==
    /\ LockStep(p, "reclaim")
    /\ tries' = [tries EXCEPT ![p] = @ + 1]
    /\ RemoveLock(p, IF tries[p] + 1 < 3 THEN "create" ELSE "welcome", "welcome")

------------------------------------------------------------------------------
(* OpenLibrary: the catalog and its schema *)

DbStep(p, from) ==
    /\ pc[p] = from
    /\ UNCHANGED <<lockVars, workVars, legacy, launches, forces>>

DbFails(p) == Goto(p, "undo") /\ UNCHANGED <<catalog, read, applied, saved>>

(* db.Open and ensureMetaTable: AutoMigrate and createIndexes add what this build
   knows and the file has not, before anything asks for its version.  A catalog of
   this build's version has it all; one that is not there is made. *)
AutoMigrated(c) ==
    {c} \cup (IF ~c.there THEN {AtVersion(0)}
             ELSE IF c.whole /\ c.schema # LatestSchema THEN {[c EXCEPT !.grown = TRUE]} ELSE {})

OpenDb(p) ==
    /\ DbStep(p, "opendb")
    /\ UNCHANGED <<applied, saved>>
    /\ catalog' \in AutoMigrated(catalog)
    /\ \/ /\ ~catalog.there /\ catalog'.there
          /\ Goto(p, "stamp")
          /\ NoFault
          /\ UNCHANGED read
       \/ /\ catalog.there /\ catalog.whole
          /\ catalog.schema <= LatestSchema
          /\ read' = [read EXCEPT ![p] = catalog.schema]
          /\ Goto(p, IF catalog.schema = LatestSchema THEN "recover" ELSE "backup")
          /\ NoFault
       \/ /\ catalog.there
          /\ ~catalog.whole \/ catalog.schema > LatestSchema
          /\ Goto(p, "undo")
          /\ NoFault
          /\ UNCHANGED read
       \/ Goto(p, "undo") /\ Fault /\ UNCHANGED read

(* A catalog made just now has every table: only the version is written. *)
StampNew(p) ==
    /\ DbStep(p, "stamp")
    /\ \/ /\ catalog' = [catalog EXCEPT !.schema = LatestSchema, !.grown = FALSE]
          /\ Goto(p, "recover")
          /\ NoFault
          /\ UNCHANGED <<read, applied, saved>>
       \/ DbFails(p) /\ Fault

(* The file as it is copied: opening it has added to it already. *)
CopyOf(c) == [schema |-> c.schema, grown |-> c.grown]

(* Mutant: a failed backup does not stop the upgrade. *)
Mut_BackUp(p) ==
    /\ DbStep(p, "backup")
    /\ Goto(p, "migrate")
    /\ UNCHANGED <<catalog, read, applied>>
    /\ \/ saved' = saved \cup {CopyOf(catalog)} /\ NoFault
       \/ UNCHANGED saved /\ Fault

BackUp(p) ==
    /\ DbStep(p, "backup")
    /\ \/ /\ saved' = saved \cup {CopyOf(catalog)}
          /\ Goto(p, "migrate")
          /\ NoFault
          /\ UNCHANGED <<catalog, read, applied>>
       \/ DbFails(p) /\ Fault

(* One migration and the version it brings are one transaction. *)
MigrateTo(p, m, next) ==
    /\ catalog' = [catalog EXCEPT !.schema = m, !.grown = FALSE]
    /\ read' = [read EXCEPT ![p] = m]
    /\ applied' = [applied EXCEPT ![m] = @ + 1]
    /\ Goto(p, next)
    /\ NoFault
    /\ UNCHANGED saved

Migrate(p) ==
    /\ DbStep(p, "migrate")
    /\ \/ LET m == read[p] + 1 IN
          MigrateTo(p, m, IF m = LatestSchema THEN "recover" ELSE "migrate")
       \/ DbFails(p) /\ Fault

(* The stamps, the reading of the meta row and the rest of BuildCore fail. *)
BuildFails(p) == DbStep(p, "recover") /\ DbFails(p) /\ Fault

(* Open gives the lock back when the catalog would not open. *)
Undo(p) ==
    /\ LockStep(p, "undo")
    /\ RemoveLock(p, "welcome", "welcome")
    /\ UNCHANGED tries

(* recover, then every service is bound and the gate opens.  Its statements may
   fail; they are logged and the library opens all the same. *)
Recover(p) ==
    /\ pc[p] = "recover"
    /\ Goto(p, "open")
    /\ \/ running' = {} /\ NoFault
       \/ UNCHANGED running /\ Fault
    /\ UNCHANGED <<lockVars, dbVars, busy, sessions, launches, forces>>

------------------------------------------------------------------------------
(* Work in an open library, and the way out *)

WorkStep(p) == UNCHANGED <<lockVars, dbVars, launches, forces, faults>>

BeginWork(p) ==
    /\ pc[p] = "open"
    /\ p \notin busy
    /\ sessions < MaxSessions
    /\ sessions' = sessions + 1
    /\ busy' = busy \cup {p}
    /\ running' = running \cup {pid[p]}
    /\ UNCHANGED pc
    /\ WorkStep(p)

(* The operation goes on while the process shuts down. *)
EndWork(p) ==
    /\ pc[p] \in {"open"} \cup Closing
    /\ p \in busy
    /\ busy' = busy \ {p}
    /\ running' = running \ {pid[p]}
    /\ UNCHANGED <<pc, sessions>>
    /\ WorkStep(p)

(* ShouldQuit lets an idle process go; ConfirmQuit cancels what runs, waits a
   while, and goes whether or not it has ended. *)
Quit(p) ==
    /\ pc[p] = "open"
    /\ Goto(p, "stop")
    /\ UNCHANGED workVars
    /\ WorkStep(p)

StopEngines(p) ==
    /\ pc[p] = "stop"
    /\ Goto(p, "release")
    /\ UNCHANGED workVars
    /\ WorkStep(p)

(* Release removes what is in the lock's place, whoever made it. *)
ReleaseLock(p) ==
    /\ LockStep(p, "release")
    /\ RemoveLock(p, "flush", "flush")
    /\ UNCHANGED tries

(* The log is written out to the catalog last, then the process ends. *)
Exit(p) ==
    /\ pc[p] = "flush"
    /\ Gone(p)
    /\ UNCHANGED <<lockFile, dbVars, running, sessions, launches, forces, faults>>

Step(p) ==
    \/ InstallBegin(p) \/ InstallCopied(p) \/ InstallPreserve(p)
    \/ BreakLock(p) \/ CreateLock(p) \/ WriteLock(p)
    \/ InspectLock(p) \/ ReclaimLock(p)
    \/ OpenDb(p) \/ StampNew(p) \/ BackUp(p) \/ Migrate(p) \/ BuildFails(p)
    \/ Undo(p) \/ Recover(p)
    \/ EndWork(p) \/ StopEngines(p) \/ ReleaseLock(p) \/ Exit(p)

UserStep(p) ==
    \/ Launch(p) \/ Die(p) \/ Quit(p) \/ BeginWork(p)
    \/ OpenOrCreate(p) \/ ForceOpen(p) \/ MigrateLegacy(p)

Next == \E p \in Proc : Step(p) \/ UserStep(p)

Spec == Init /\ [][Next]_vars

------------------------------------------------------------------------------
(* Properties *)

(* Every variable keeps to its type. *)
TypeOK ==
    /\ pc \in [Proc -> Phase]
    /\ pid \in [Proc -> 0..MaxLaunches]
    /\ tries \in [Proc -> 0..3]
    /\ lockFile \in Lock \cup {None}
    /\ catalog \in Catalog
    /\ read \in [Proc -> 0..LatestSchema]
    /\ applied \in [Migration -> Nat]
    /\ saved \subseteq Copy
    /\ legacy \in {"none", "inPlace", "setAside"}
    /\ running \subseteq Pid
    /\ busy \subseteq Proc
    /\ launches \in 0..MaxLaunches
    /\ forces \in 0..MaxTrouble
    /\ faults \in 0..MaxTrouble
    /\ sessions \in 0..MaxSessions

(* Unless the user forces a library open, at most one process holds its lock,
   through crashes, reclaimed locks and failed opens (lock.go: acquireLock,
   inspectLock and Release against one another).  So while each Mac runs one
   PAIM at a time; two on one Mac may both reclaim the lock of a process that
   is gone, the second removing what the first has just made. *)
OneHolder == forces = 0 => \A p, q \in Proc : Holds(p) /\ Holds(q) => p = q

(* Unless the user forces a library open, recover never marks the session of a
   process that still holds the library as interrupted (main.go: recover;
   repo/session.go: MarkInterruptedOnStartup). *)
LiveSessionRunning ==
    forces = 0 => \A p \in busy : Holds(p) => pid[p] \in running

(* Unless the user forces a library open, a migration commits at most once, and
   only into a catalog whose earlier version has a copy (db/migrate.go: Migrate),
   however often the upgrade is broken off and taken up again.  The copy is of the
   file as opening it left it, see UntouchedBefore. *)
UpgradedOnce ==
    forces = 0 =>
        \A m \in Migration : applied[m] > 0 =>
            /\ applied[m] = 1
            /\ \E copy \in saved : copy.schema < m

(* What Migrate promises (db/migrate.go: "REFUSES (error, no changes) if the DB is
   newer", a copy "BEFORE any change"): a newer catalog stays as it is, and a copy
   is of the catalog as its own build left it.  It does not hold: db.Open has added
   to the file before Migrate is called. *)
UntouchedBefore ==
    /\ catalog.schema > LatestSchema => ~catalog.grown
    /\ \A copy \in saved : ~copy.grown
==============================================================================
