------------------------------ MODULE Operations ------------------------------
(***************************************************************************)
(* The operations a user starts on the library - import, resume, analyze,  *)
(* reorganize, retry of one file (services/import.go, reorganize.go) - with *)
(* the one slot they share, its cancel handle and the snapshots views      *)
(* attach to; the assertion that keeps the machine awake meanwhile         *)
(* (services/caffeinate.go); the activity everybody asks about             *)
(* (services/activity.go), the yield of the backups, and quitting          *)
(* (services/app.go, main.go).                                             *)
(*                                                                         *)
(* What the pipeline does with the files is ImportPipeline's and Custody's; *)
(* here an operation runs, can be cancelled, and ends.  Composed with      *)
(* SourceIdentity: an import by copy first identifies its source.          *)
(***************************************************************************)
EXTENDS SourceIdentity

CONSTANT MaxSessions    \* bound: sessions created

VARIABLES
    call,     \* the operation of each caller, from the request to its last line
    active, kind, cancel,  \* ImportService: the slot, whose context the handle cancels
    analyze,  \* the analyze snapshot: its operation, and whether it runs
    count, awake,          \* SleepGuard: the holders, and the caffeinate process
    app,      \* the process
    left      \* history: running sessions whose operation ended without settling them

slot    == <<active, kind, cancel, analyze>>
sleep   == <<count, awake>>
opsVars == <<identity, events, call, slot, sleep, app, left>>

Kinds     == {"import", "resume", "analyze", "reorganize", "retry"}
NoAnalyze == [of |-> None, running |-> FALSE]

Call == [kind : Kinds, root : Mount \cup {None}, source : Nat \cup {None},
         step : {"link", "session", "handle", "acquire", "run", "close", "release"},
         session : Nat \cup {None}, cancelled : BOOLEAN]

ASSUME CallAssumption == IsFiniteSet(Caller) /\ None \notin Call /\ MaxSessions \in Nat

Running   == app # "gone"
Listening == app \in {"up", "confirm", "closing"}

Stage(c, s)      == call[c] # None /\ call[c].step = s
To(c, rec)     == call' = [call EXCEPT ![c] = rec]
GoTo(c, s)     == To(c, [call[c] EXCEPT !.step = s])
Holders(steps) == {c \in Caller : call[c] # None /\ call[c].step \in steps}
Working        == {"acquire", "run", "close"}

-----------------------------------------------------------------------------
(* Starting. *)

Free == ~active

(* The critical section that takes the slot, or refuses.  launch and        *)
(* StartReorganize create a session before they set the handle; the others  *)
(* set it here.                                                             *)
Reserve(c, op) ==
    IF Free
    THEN /\ active' = TRUE
         /\ kind' = IF op.kind \in {"analyze", "reorganize"} THEN op.kind ELSE "import"
         /\ IF op.kind \in {"import", "reorganize"}
            THEN To(c, [op EXCEPT !.step = "session"]) /\ UNCHANGED <<cancel, analyze>>
            ELSE /\ To(c, [op EXCEPT !.step = "acquire"])
                 /\ cancel' = c
                 /\ analyze' = CASE op.kind = "analyze" -> [of |-> c, running |-> TRUE]
                                 [] op.kind = "resume"  -> NoAnalyze
                                 [] OTHER               -> analyze
    ELSE To(c, None) /\ UNCHANGED slot

Operation(k, m, r, s) ==
    [kind |-> k, step |-> "link", root |-> m, source |-> r, session |-> s, cancelled |-> FALSE]

Idle(c) == Listening /\ call[c] = None /\ ident[c] = None

(* StartImport: an import by copy that was not told its source looks for it *)
(* when its root is on a volume; ...                                        *)
StartImport(c, m, r, copy) ==
    /\ Idle(c)
    /\ Event
    /\ LET op == Operation("import", m, r, None)
       IN  IF copy /\ r = None /\ mounted[m] # None
           THEN To(c, op) /\ Begin(c, m, TRUE) /\ UNCHANGED slot
           ELSE Reserve(c, op) /\ UNCHANGED ident
    /\ UNCHANGED <<catalog, volumes, identifyCancel, sleep, app, left>>

(* ... found or not, launch takes the slot. *)
Linked(c) ==
    /\ Stage(c, "link")
    /\ Doing(c, "linked")
    /\ Reserve(c, [call[c] EXCEPT !.source = ident[c].row])
    /\ Step(c, None)
    /\ UNCHANGED <<catalog, volumes, identifyCancel, sleep, app, left, events>>

(* StartAnalyze, StartReorganize, RetryFailedFile, and ResumeSession,       *)
(* whatever the status of the session.                                      *)
StartOther(c, k, s) ==
    /\ Idle(c)
    /\ Event
    /\ Reserve(c, Operation(k, None, None, s))
    /\ UNCHANGED <<catalog, volumes, ident, identifyCancel, sleep, app, left>>

(* newSession, newReorgSession *)
CreateSession(c) ==
    /\ Stage(c, "session")
    /\ Len(sessions) < MaxSessions
    /\ sessions' = Append(sessions, [root |-> call[c].root, source |-> call[c].source,
                                     status |-> "running"])
    /\ To(c, [call[c] EXCEPT !.step = "handle", !.session = Len(sessions')])
    /\ UNCHANGED <<rows, recent, volumes, ident, identifyCancel, slot, sleep, app, left, events>>

(* No session (or no plan): the slot is given back. *)
CreateFails(c) ==
    /\ Stage(c, "session")
    /\ Event
    /\ active' = FALSE
    /\ To(c, None)
    /\ UNCHANGED <<identity, kind, cancel, analyze, sleep, app, left>>

SetHandle(c) ==
    /\ Stage(c, "handle")
    /\ cancel' = c
    /\ analyze' = NoAnalyze
    /\ GoTo(c, "acquire")
    /\ UNCHANGED <<identity, active, kind, sleep, app, left, events>>

(* SleepGuard.Acquire: the first holder starts caffeinate. *)
Acquire(c) ==
    /\ Stage(c, "acquire")
    /\ count' = count + 1
    /\ IF count = 0
       THEN \/ awake' = TRUE /\ UNCHANGED events
            \/ Event /\ UNCHANGED awake
       ELSE UNCHANGED <<awake, events>>
    /\ GoTo(c, "run")
    /\ UNCHANGED <<identity, slot, app, left>>

-----------------------------------------------------------------------------
(* Running and ending. *)

(* resumeSession, for a session that is read, names its source and takes    *)
(* the update: it is running, as a new one is already.                      *)
Resumed(c) ==
    /\ Stage(c, "run")
    /\ call[c].session # None
    /\ sessions[call[c].session].status # "running"
    /\ sessions' = [sessions EXCEPT ![call[c].session].status = "running"]
    /\ UNCHANGED <<rows, recent, volumes, ident, identifyCancel,
                   call, slot, sleep, app, left, events>>

(* The pipeline returns.  It settles a running session - completed, or      *)
(* failed, which is no different here; cancelled, or interrupted by a scan  *)
(* that fails or an archive that is full or gone - or leaves a session as it is: every operation does when a *)
(* statement of it fails (the load, the update to running, the settling     *)
(* itself), an import also when it is cancelled before that update, a       *)
(* resume of a session with nothing to resume always.  finishAnalyze keeps  *)
(* the report.                                                              *)
Ends(c) ==
    /\ Stage(c, "run")
    /\ \E status \in {"completed", "cancelled", "interrupted", "asis"} :
          /\ status = "cancelled" => call[c].cancelled
          /\ status = "interrupted" => call[c].kind \in {"import", "resume"}
          /\ IF call[c].session = None THEN status = "completed"
             ELSE status = "asis" \/ sessions[call[c].session].status = "running"
          /\ IF call[c].session = None \/ status = "asis" THEN UNCHANGED sessions
             ELSE sessions' = [sessions EXCEPT ![call[c].session].status = status]
          /\ left' = IF status = "asis" /\ sessions[call[c].session].status = "running"
                     THEN left \cup {call[c].session} ELSE left \ {call[c].session}
    /\ analyze' = IF call[c].kind = "analyze" /\ analyze # NoAnalyze
                  THEN [analyze EXCEPT !.running = FALSE] ELSE analyze
    /\ GoTo(c, "close")
    /\ UNCHANGED <<rows, recent, volumes, ident, identifyCancel,
                   active, kind, cancel, sleep, app, events>>

(* Mutant: the handle stays for the next operation. *)
Mut_Close(c) ==
    /\ Stage(c, "close")
    /\ active' = FALSE
    /\ GoTo(c, "release")
    /\ UNCHANGED <<identity, kind, cancel, analyze, sleep, app, left, events>>

(* The deferred function of the run. *)
Close(c) ==
    /\ Stage(c, "close")
    /\ active' = FALSE
    /\ cancel' = None
    /\ GoTo(c, "release")
    /\ UNCHANGED <<identity, kind, analyze, sleep, app, left, events>>

(* SleepGuard.Release: the last holder stops caffeinate. *)
Release(c) ==
    /\ Stage(c, "release")
    /\ count' = IF count = 0 THEN 0 ELSE count - 1
    /\ awake' = IF count = 1 THEN FALSE ELSE awake
    /\ To(c, None)
    /\ UNCHANGED <<identity, slot, app, left, events>>

(* ActiveAnalyze: the snapshot lapses fifteen minutes after it was taken. *)
AnalyzeLapses ==
    /\ analyze.of # None /\ ~analyze.running
    /\ analyze' = NoAnalyze
    /\ UNCHANGED <<identity, call, active, kind, cancel, sleep, app, left, events>>

(* CancelImport, whatever the operation. *)
Cancelled(c) == IF c = None THEN call ELSE [call EXCEPT ![c].cancelled = TRUE]

CancelImport ==
    /\ Running
    /\ Event
    /\ cancel # None
    /\ call' = Cancelled(cancel)
    /\ UNCHANGED <<identity, slot, sleep, app, left>>

-----------------------------------------------------------------------------
(* Activity and quitting. *)

(* ActivityTracker.Snapshot, of this service. *)
Snapshot == IF active THEN {kind} ELSE {}

(* ForegroundYield.Gate, with the preference on: each of these kinds is a   *)
(* foreground kind.                                                         *)
Gate == Snapshot \cap {"import", "analyze", "reorganize"} # {}

(* ShouldQuit, with nothing at work; otherwise the views ask the user. *)
RequestQuit ==
    /\ app = "up"
    /\ Snapshot = {}
    /\ Event
    /\ app' = "closing"
    /\ UNCHANGED <<identity, call, slot, sleep, left>>

(* ConfirmQuit: cancel everything, ... *)
ConfirmQuit ==
    /\ app = "up"
    /\ Snapshot # {}
    /\ Event
    /\ call' = Cancelled(cancel)
    /\ app' = "confirm"
    /\ UNCHANGED <<identity, slot, sleep, left>>

(* ... and go when it has drained or the grace period is over. *)
QuitDrained ==
    /\ app = "confirm"
    /\ app' = "closing"
    /\ UNCHANGED <<identity, call, slot, sleep, left, events>>

(* comp.shutdown, up to SleepGuard.Shutdown. *)
SleepShutdown ==
    /\ app = "closing"
    /\ app' = "down"
    /\ count' = 0 /\ awake' = FALSE
    /\ UNCHANGED <<identity, call, slot, left, events>>

Memory(state) ==
    /\ app' = state
    /\ call' = [c \in Caller |-> None]
    /\ ident' = [c \in Caller |-> None]
    /\ identifyCancel' = None
    /\ active' = FALSE /\ cancel' = None /\ analyze' = NoAnalyze
    /\ count' = 0

(* The process ends, in order or not; a caffeinate process still there      *)
(* stays.                                                                   *)
Exit ==
    /\ \/ app = "down" /\ UNCHANGED events
       \/ app \in {"up", "confirm", "closing"} /\ Event
    /\ Memory("gone")
    /\ UNCHANGED <<catalog, volumes, kind, awake, left>>

(* SessionRepo.MarkInterruptedOnStartup *)
Recovered(status) == IF status = "running" THEN "interrupted" ELSE status

Launch ==
    /\ app = "gone"
    /\ app' = "up"
    /\ awake' = FALSE
    /\ sessions' = [s \in DOMAIN sessions |->
                      [sessions[s] EXCEPT !.status = Recovered(@)]]
    /\ left' = {}
    /\ UNCHANGED <<rows, recent, volumes, ident, identifyCancel, call, slot, count, events>>

-----------------------------------------------------------------------------
Init ==
    /\ IdentityInit
    /\ call = [c \in Caller |-> None]
    /\ active = FALSE /\ kind = "import" /\ cancel = None
    /\ analyze = NoAnalyze
    /\ count = 0 /\ awake = FALSE
    /\ app = "up"
    /\ left = {}

OpsRest == <<call, slot, sleep, app, left>>

(* An identification asked for by a view. *)
Identify(c) ==
    /\ Idle(c)
    /\ \E m \in Mount : IdentifyVolume(c, m)
    /\ UNCHANGED OpsRest

Request(c) ==
    \/ Identify(c)
    \/ \E m \in Mount, r \in DOMAIN rows \cup {None}, copy \in BOOLEAN : StartImport(c, m, r, copy)
    \/ \E k \in {"analyze", "reorganize", "retry"} : StartOther(c, k, None)
    \/ \E s \in DOMAIN sessions : StartOther(c, "resume", s)

Operate(c) ==
    \/ Linked(c) \/ CreateSession(c) \/ SetHandle(c) \/ Acquire(c)
    \/ Resumed(c) \/ Ends(c) \/ Close(c) \/ Release(c)
    \/ Identifying(c) /\ UNCHANGED OpsRest

Next ==
    \/ \E c \in Caller :
          \/ Running /\ (Operate(c) \/ CreateFails(c))
          \/ Request(c)
    \/ (CancelIdentify \/ Volumes) /\ UNCHANGED OpsRest
    \/ AnalyzeLapses \/ CancelImport
    \/ RequestQuit \/ ConfirmQuit \/ QuitDrained \/ SleepShutdown \/ Exit \/ Launch

Spec == Init /\ [][Next]_opsVars

-----------------------------------------------------------------------------
(* Properties *)

TypeOK ==
    /\ IdentityTypeOK
    /\ call \in [Caller -> Call \cup {None}]
    /\ \A c \in Caller : call[c] # None => call[c].session \in DOMAIN sessions \cup {None}
    /\ active \in BOOLEAN /\ kind \in {"import", "analyze", "reorganize"}
    /\ cancel \in Caller \cup {None}
    /\ analyze \in [of : Caller \cup {None}, running : BOOLEAN]
    /\ count \in Nat /\ awake \in BOOLEAN
    /\ app \in {"up", "confirm", "closing", "down", "gone"}

(* Reserve, launch, the deferred Close: however the operations are started, *)
(* fail and end, the slot is taken exactly while one of them has it, so the *)
(* backups yield to it and quitting asks about it; a cancel never reaches   *)
(* another operation than that one, and reaches it once it works.           *)
SlotIsOwned ==
    /\ Cardinality(Holders({"session", "handle"} \cup Working)) = IF Gate THEN 1 ELSE 0
    /\ \A c \in Holders(Working) : cancel = c
    /\ cancel # None => cancel \in Holders(Working)

(* Acquire, Release: the holders of the assertion are the operations at     *)
(* work or about to let go, and caffeinate runs for nobody else.            *)
AwakeForWork ==
    app \in {"up", "confirm", "closing"} =>
        /\ count = Cardinality(Holders({"run", "close", "release"}))
        /\ awake => count > 0

(* finishAnalyze, launch, Reserve: a view attaching to an analyze that runs *)
(* finds the one in the slot.                                               *)
AnalyzeIsOwned ==
    analyze.running => /\ analyze.of \in Holders({"acquire", "run"})
                       /\ call[analyze.of].kind = "analyze"

(* CreateSession, Resumed, Ends, recovery: a session is running only while  *)
(* an operation drives it, or after one ended, in this life of the process, *)
(* without settling it (it was cancelled before it could, or a statement of *)
(* it failed).                                                              *)
RunningIsDriven ==
    app # "gone" => \A s \in DOMAIN sessions : sessions[s].status = "running" =>
        s \in left \/ \E c \in Holders({"handle"} \cup Working) : call[c].session = s

OperationsInv == TypeOK /\ SlotIsOwned /\ AwakeForWork /\ AnalyzeIsOwned /\ RunningIsDriven
=============================================================================
