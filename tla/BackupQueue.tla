----------------------------- MODULE BackupQueue -----------------------------
(***************************************************************************)
(* The backup queue of internal/backup (Manager) over the BackupJob rows   *)
(* of internal/repo (BackupRepo), with the callers in internal/services    *)
(* that change the queue or the providers while the workers run.           *)
(*                                                                         *)
(* The queue is the table: job is what SQLite holds and survives a crash;  *)
(* the workers, the plugin cache, the cooldowns, the backoff timers and a  *)
(* running backfill are memory and do not.  A worker's handler is split    *)
(* where the code does I/O, since between two statements any other worker, *)
(* the scheduler, a user's request or the end of the process may come.     *)
(*                                                                         *)
(* Which pending job of a provider a worker claims first (upload order,    *)
(* provider rotation) is left open, as are times: a backoff or a cooldown  *)
(* may end whenever the clock would let it.                                *)
(***************************************************************************)
EXTENDS Naturals, FiniteSets

CONSTANTS
    Asset,          \* catalog assets
    Provider,       \* configured backup providers (destinations)
    Worker,         \* the worker pool, Options.Workers
    Job,            \* identifiers of queue rows; bounds how many are created
    Kind, KindOf,   \* media kinds (a provider's scope is the set it takes), each asset's kind
    Target,         \* places a provider's config_json may point to
    Config,         \* provider configurations the user may save
    StartConfig,    \* [Provider -> Config] at the first start
    Unfit,          \* <<asset, provider>>: a file over the plugin's MaxFileSize
    MaxRetries,     \* Options.MaxRetries
    MaxOps,         \* bound: user requests
    MaxFaults,      \* bound: failed database statements per process life
    MaxRestarts,    \* bound: crashes and shutdowns
    None

Configuration == [enabled: BOOLEAN, mirror: BOOLEAN, scope: SUBSET Kind, target: Target]

ASSUME ConfigAssumption ==
    /\ Config \subseteq Configuration
    /\ StartConfig \in [Provider -> Config]
    /\ KindOf \in [Asset -> Kind]
    /\ Unfit \subseteq Asset \X Provider

ASSUME BoundAssumption ==
    /\ MaxRetries \in Nat \ {0}
    /\ MaxOps \in Nat
    /\ MaxFaults \in Nat
    /\ MaxRestarts \in Nat

ASSUME NoneAssumption ==
    /\ None \notin Asset
    /\ None \notin Provider
    /\ None \notin Job
    /\ None \notin Target
    /\ {"none", "noted"} \cap Target = {}

VARIABLES
    phase,      \* "running", "stopping" (Manager.Stop in progress) or "down"
    provider,   \* BackupProvider rows
    asset,      \* "absent", "active" or "deleted" (soft delete)
    backup,     \* Asset.BackupStatus, the stored aggregate
    job,        \* BackupJob rows
    plugin,     \* Manager.pluginCache: the target an initialized plugin writes to
    cooling,    \* Manager.cooldowns not yet over
    backoff,    \* Manager.backoff: failed jobs with a retry timer
    promoting,  \* promoteReady's local list of ready jobs
    foreground, \* Options.ForegroundGate
    worker,     \* each worker's place in handle/process and its locals
    backfill,   \* the one running backfill or reconcile
    ops, faults, restarts

database == <<provider, asset, backup, job>>
gates    == <<cooling, foreground>>
timers   == <<backoff, promoting>>
bounds   == <<ops, faults, restarts>>
vars     == <<phase, database, plugin, gates, timers, worker, backfill, bounds>>

------------------------------------------------------------------------------
(* Values *)

JobStatus    == {"pending", "running", "paused", "completed", "failed",
                 "cancelled", "opted_out"}
BackupStatus == {"none", "pending", "partial", "complete", "failed"}

\* retries is the column; again counts the requeues a user asked for and copy
\* what the recorded completion left at the destination (both history only).
NoRow == [asset |-> None, dest |-> None, status |-> "absent",
          retries |-> 0, again |-> 0, copy |-> "none"]

\* Mutant: the two foreign keys swapped.
NewRowSwapped(a, p, status) == [NoRow EXCEPT !.asset = p, !.dest = a, !.status = status]

NewRow(a, p, status) == [NoRow EXCEPT !.asset = a, !.dest = p, !.status = status]

Idle == [pc |-> "idle", job |-> None, tries |-> 0, mirror |-> FALSE,
         target |-> None, result |-> "none", agg |-> "none"]

NoBackfill == [dest |-> None, scope |-> {}, seen |-> {}, cancelling |-> FALSE]

\* A worker is active in these places: what it does next depends on having
\* claimed the job.
Active == {"claimed", "uploading", "uploaded", "marking", "noting", "failing"}

------------------------------------------------------------------------------
(* Queries *)

Exists(j)      == job[j].status # "absent"
JobsOf(a)      == {j \in Job : Exists(j) /\ job[j].asset = a}
FreeRows       == {j \in Job : ~Exists(j)}
Accepts(p, a)  == KindOf[a] \in provider[p].scope
Mirrors        == {p \in Provider : provider[p].mirror}
Holds(w, j)    == worker[w].pc \in Active /\ worker[w].job = j

\* Mutant: an opted-out row does not count as enqueued.
EnqueuedButOptedOut == {"pending", "running", "completed"}

\* enqueueIdempotencyStatuses: a row in one of these makes a re-enqueue a no-op
Enqueued == {"pending", "running", "completed", "opted_out"}

HasEnqueued(a, p) ==
    \E j \in JobsOf(a) : job[j].dest = p /\ job[j].status \in Enqueued

\* AggregateBackupStatus over the jobs of a, mirrors' jobs left out
Required(a, mirrors) ==
    {j \in JobsOf(a) : /\ job[j].status \notin {"cancelled", "opted_out"}
                       /\ job[j].dest \notin mirrors}

\* Mutant: all of no required jobs are complete.
AggregateOfNone(a, mirrors) ==
    IF \A j \in Required(a, mirrors) : job[j].status = "completed"
    THEN "complete" ELSE "pending"

Aggregate(a, mirrors) ==
    LET required == Required(a, mirrors)
        With(s)  == {j \in required : job[j].status = s}
    IN  CASE required = {}                    -> "none"
          [] required # {} /\ With("completed") = required -> "complete"
          [] With("completed") \notin {{}, required}       -> "partial"
          [] With("completed") = {} /\ With("failed") # {} -> "failed"
          [] OTHER                            -> "pending"

------------------------------------------------------------------------------
(* Effects shared by the actions *)

\* Status updates guarded by the status a row must be in (BackupRepo.transition
\* and the bulk UPDATEs): rows of S in another status are left alone.
Transition(S, from, to) ==
    job' = [j \in Job |-> IF j \in S /\ job[j].status \in from
                          THEN [job[j] EXCEPT !.status = to] ELSE job[j]]

\* Mutant: RequeueAllFailed takes running jobs too.
ReopenRunning(S) ==
    job' = [j \in Job |-> IF j \in S /\ job[j].status \in {"failed", "running"}
                          THEN [job[j] EXCEPT !.status = "pending", !.again = @ + 1]
                          ELSE job[j]]

\* The same from failed to pending, asked for by a user.
Reopen(S) ==
    job' = [j \in Job |-> IF j \in S /\ job[j].status = "failed"
                          THEN [job[j] EXCEPT !.status = "pending", !.again = @ + 1]
                          ELSE job[j]]

Fault == faults < MaxFaults /\ faults' = faults + 1
UserRequest ==
    /\ phase # "down"
    /\ ops < MaxOps
    /\ ops' = ops + 1
    /\ UNCHANGED <<faults, restarts>>

\* A worker's next place; locals it will not read again are dropped.
At(pc, j)    == [Idle EXCEPT !.pc = pc, !.job = j]
Goto(w, pc)  == worker' = [worker EXCEPT ![w].pc = pc]
WindUp(w, pc) == worker' = [worker EXCEPT ![w] = At(pc, worker[w].job)]
GoIdle(w)    == worker' = [worker EXCEPT ![w] = Idle]

\* process returned an error.  handle drops it when the context is already
\* cancelled and leaves the row running for Stop to revert.
Fail(w, result) ==
    worker' = [worker EXCEPT ![w] =
                 IF phase = "stopping" THEN Idle
                 ELSE [At("failing", @.job) EXCEPT !.tries = worker[w].tries,
                                                   !.result = result]]

JobOf(w)  == worker[w].job
RowOf(w)  == job[JobOf(w)]

------------------------------------------------------------------------------
(* Manager.Start, Manager.Stop and the end of the process *)

Init ==
    /\ phase = "running"
    /\ provider = StartConfig
    /\ asset = [a \in Asset |-> "absent"]
    /\ backup = [a \in Asset |-> "none"]
    /\ job = [j \in Job |-> NoRow]
    /\ plugin = [p \in Provider |-> None]
    /\ cooling = {}
    /\ backoff = {}
    /\ promoting = {}
    /\ foreground = FALSE
    /\ worker = [w \in Worker |-> Idle]
    /\ backfill = NoBackfill
    /\ ops = 0
    /\ faults = 0
    /\ restarts = 0

\* What dies with the process.
LoseMemory ==
    /\ phase' = "down"
    /\ plugin' = [p \in Provider |-> None]
    /\ cooling' = {}
    /\ backoff' = {}
    /\ promoting' = {}
    /\ foreground' = FALSE
    /\ worker' = [w \in Worker |-> Idle]
    /\ backfill' = NoBackfill

\* Mutant: nothing is reverted.
ResetNothing == UNCHANGED job

\* ResetRunningOnStartup
ResetRunning == Transition(Job, {"running"}, "pending")

Start ==
    /\ phase = "down"
    /\ phase' = "running"
    /\ faults' = 0
    /\ ResetRunning
    /\ UNCHANGED <<provider, asset, backup, plugin, gates, timers, worker, backfill,
                   ops, restarts>>

Crash ==
    /\ phase # "down"
    /\ restarts < MaxRestarts
    /\ restarts' = restarts + 1
    /\ LoseMemory
    /\ UNCHANGED <<database, ops, faults>>

\* Stop cancels the workers' context ...
Stop ==
    /\ phase = "running"
    /\ restarts < MaxRestarts
    /\ restarts' = restarts + 1
    /\ phase' = "stopping"
    /\ UNCHANGED <<database, plugin, gates, timers, worker, backfill, ops, faults>>

\* ... waits for them and the scheduler, then reverts what they left running.
StopDone ==
    /\ phase = "stopping"
    /\ \A w \in Worker : worker[w] = Idle
    /\ promoting = {}
    /\ ResetRunning
    /\ LoseMemory
    /\ UNCHANGED <<provider, asset, backup, bounds>>

------------------------------------------------------------------------------
(* A worker: claimNext, handle, process *)

\* Mutant: the claim does not require the job to be pending still.
ClaimableTwice(j) ==
    /\ phase = "running"
    /\ ~foreground
    /\ job[j].status \in {"pending", "running"}
    /\ provider[job[j].dest].enabled
    /\ job[j].dest \notin cooling

\* Mutant: a job out of automatic retries is not claimed, also when a user retries it.
ClaimableInBudget(j) ==
    /\ phase = "running"
    /\ ~foreground
    /\ job[j].status = "pending"
    /\ job[j].retries < MaxRetries
    /\ provider[job[j].dest].enabled
    /\ job[j].dest \notin cooling

\* claimNext passes the foreground gate, the providers in cooldown and the
\* disabled ones; ClaimNextForProvider is one UPDATE ... RETURNING.
Claimable(j) ==
    /\ phase = "running"
    /\ ~foreground
    /\ job[j].status = "pending"
    /\ provider[job[j].dest].enabled
    /\ job[j].dest \notin cooling

Claim(w, j) ==
    /\ worker[w] = Idle
    /\ Claimable(j)
    /\ Transition({j}, {"pending"}, "running")
    /\ worker' = [worker EXCEPT ![w] =
                    [At("claimed", j) EXCEPT !.tries = job[j].retries]]
    /\ UNCHANGED <<phase, provider, asset, backup, plugin, gates, timers, backfill, bounds>>

\* The UPDATE committed but reloading the claimed row failed: the error goes to
\* the worker loop and nobody handles the row.
ClaimLost(w, j) ==
    /\ worker[w] = Idle
    /\ Claimable(j)
    /\ Fault
    /\ Transition({j}, {"pending"}, "running")
    /\ UNCHANGED <<phase, provider, asset, backup, plugin, gates, timers, worker, backfill,
                   ops, restarts>>

\* pluginFor: the plugin is initialized once per provider and cached, so it keeps
\* the target it was first given.
Sender(p)     == IF plugin[p] = None THEN provider[p].target ELSE plugin[p]
KeepSender(p) == plugin' = [plugin EXCEPT ![p] = Sender(p)]

\* The asset is gone or its provider takes no file like it.
Unsendable(row) == asset[row.asset] # "active" \/ <<row.asset, row.dest>> \in Unfit

\* process refuses the job for good: a disabled provider or, once it has the
\* plugin, an unsendable asset - or any error reading the provider or the asset.
Refuse(w) ==
    LET row == RowOf(w)
        p   == row.dest
    IN  /\ worker[w].pc = "claimed"
        /\ \/ ~provider[p].enabled /\ UNCHANGED <<plugin, bounds>>
           \/ Fault /\ UNCHANGED <<plugin, ops, restarts>>
           \/ provider[p].enabled /\ Unsendable(row) /\ KeepSender(p) /\ UNCHANGED bounds
           \/ provider[p].enabled /\ Fault /\ KeepSender(p) /\ UNCHANGED <<ops, restarts>>
        /\ Fail(w, "terminal")
        /\ UNCHANGED <<phase, database, gates, timers, backfill>>

\* pluginFor could not initialize or authenticate a plugin not cached yet.
PluginUnavailable(w) ==
    /\ worker[w].pc = "claimed"
    /\ provider[RowOf(w).dest].enabled
    /\ plugin[RowOf(w).dest] = None
    /\ Fail(w, "transient")
    /\ UNCHANGED <<phase, database, plugin, gates, timers, backfill, bounds>>

\* The provider row is read now: its mirror flag decides what a failed
\* verification means, however the row changes during the upload.
Resolve(w) ==
    LET p == RowOf(w).dest
    IN  /\ worker[w].pc = "claimed"
        /\ provider[p].enabled
        /\ ~Unsendable(RowOf(w))
        /\ KeepSender(p)
        /\ worker' = [worker EXCEPT ![w] = [@ EXCEPT !.pc = "uploading",
                                                     !.mirror = provider[p].mirror,
                                                     !.target = Sender(p)]]
        /\ UNCHANGED <<phase, database, gates, timers, backfill, bounds>>

\* Upload and Verify succeed, or Verify does not and the provider is a mirror.
Upload(w) ==
    /\ worker[w].pc = "uploading"
    /\ \E result \in {"verified", "noted"} :
         /\ result = "noted" => worker[w].mirror
         /\ worker' = [worker EXCEPT ![w] =
                         [@ EXCEPT !.pc = "uploaded", !.mirror = FALSE, !.result = result]]
    /\ UNCHANGED <<phase, database, plugin, gates, timers, backfill, bounds>>

\* Upload fails, or Verify fails or finds a difference.
UploadFails(w) ==
    /\ worker[w].pc = "uploading"
    /\ Fail(w, "transient")
    /\ UNCHANGED <<phase, database, plugin, gates, timers, backfill, bounds>>

\* A quota answer: setCooldown, then RevertToPending (whose error is logged).
UploadCoolsDown(w) ==
    LET j == JobOf(w)
    IN  /\ worker[w].pc = "uploading"
        /\ phase # "stopping"
        /\ cooling' = cooling \cup {job[j].dest}
        /\ \/ Transition({j}, {"running"}, "pending") /\ UNCHANGED bounds
           \/ Fault /\ UNCHANGED <<job, ops, restarts>>
        /\ GoIdle(w)
        /\ UNCHANGED <<phase, provider, asset, backup, plugin, foreground, timers, backfill>>

\* Shutdown cancels the context under a claim or an upload.
Interrupted(w) ==
    /\ phase = "stopping"
    /\ worker[w].pc \in {"claimed", "uploading"}
    /\ GoIdle(w)
    /\ UNCHANGED <<phase, database, plugin, gates, timers, backfill, bounds>>

\* Mutant: the worker waits for a cancelled job to be running again.
ReloadUntilRunning(w) ==
    /\ worker[w].pc = "uploaded"
    /\ RowOf(w).status = "running"
    /\ Goto(w, "marking")
    /\ UNCHANGED <<phase, database, plugin, gates, timers, backfill, bounds>>

\* The uploaded job is read again, to respect a cancel.
Reload(w) ==
    /\ worker[w].pc = "uploaded"
    /\ IF RowOf(w).status = "running" THEN Goto(w, "marking") ELSE WindUp(w, "tallying")
    /\ UNCHANGED <<phase, database, plugin, gates, timers, backfill, bounds>>

\* MarkCompleted is an update by id alone; a mirror's note is a second one.
MarkCompleted(w) ==
    LET noted == worker[w].result = "noted"
        left  == IF noted THEN "noted" ELSE worker[w].target
    IN  /\ worker[w].pc = "marking"
        /\ job' = [job EXCEPT ![JobOf(w)].status = "completed",
                              ![JobOf(w)].copy = left]
        /\ IF noted THEN Goto(w, "noting") ELSE WindUp(w, "tallying")
        /\ UNCHANGED <<phase, provider, asset, backup, plugin, gates, timers, backfill, bounds>>

MarkNote(w) ==
    /\ worker[w].pc = "noting"
    /\ job' = [job EXCEPT ![JobOf(w)].status = "completed", ![JobOf(w)].copy = "noted"]
    /\ WindUp(w, "tallying")
    /\ UNCHANGED <<phase, provider, asset, backup, plugin, gates, timers, backfill, bounds>>

\* The reload or the last update failed: an upload that happened is handled as a
\* failed attempt.  The error of a mirror's first update is overwritten by the
\* second one's.
RecordingFails(w) ==
    LET first == worker[w].pc = "marking" /\ worker[w].result = "noted"
    IN  /\ worker[w].pc \in {"uploaded", "marking", "noting"}
        /\ Fault
        /\ IF first THEN Goto(w, "noting") ELSE Fail(w, "transient")
        /\ UNCHANGED <<phase, database, plugin, gates, timers, backfill, ops, restarts>>

\* Mutant: one retry too many.
ExhaustedLate(w) ==
    worker[w].result = "terminal" \/ worker[w].tries + 1 > MaxRetries

\* MarkFailed is an update by id alone too; what follows depends on the retry
\* count the job had when it was claimed.
Exhausted(w) ==
    worker[w].result = "terminal" \/ worker[w].tries + 1 >= MaxRetries

MarkFailed(w) ==
    /\ worker[w].pc = "failing"
    /\ job' = [job EXCEPT ![JobOf(w)].status = "failed", ![JobOf(w)].retries = @ + 1]
    /\ WindUp(w, IF Exhausted(w) THEN "tallying" ELSE "backingoff")
    /\ UNCHANGED <<phase, provider, asset, backup, plugin, gates, timers, backfill, bounds>>

\* MarkFailed itself failed: handle logs it and gives the job up, still running.
MarkFailedFails(w) ==
    /\ worker[w].pc = "failing"
    /\ Fault
    /\ GoIdle(w)
    /\ UNCHANGED <<phase, database, plugin, gates, timers, backfill, ops, restarts>>

\* Mutant: the timer is not kept.
ScheduleNothing(w) ==
    /\ worker[w].pc = "backingoff"
    /\ GoIdle(w)
    /\ UNCHANGED <<phase, database, plugin, gates, timers, backfill, bounds>>

ScheduleRetry(w) ==
    /\ worker[w].pc = "backingoff"
    /\ backoff' = backoff \cup {JobOf(w)}
    /\ GoIdle(w)
    /\ UNCHANGED <<phase, database, plugin, gates, promoting, backfill, bounds>>

\* recomputeAsset reads the jobs and the mirrors, then writes the aggregate in
\* a statement of its own; unread mirrors are taken for none.
Tally(w) ==
    /\ worker[w].pc = "tallying"
    /\ \E mirrors \in {Mirrors, {}} :
         /\ \/ mirrors = Mirrors /\ UNCHANGED bounds
            \/ mirrors # Mirrors /\ Fault /\ UNCHANGED <<ops, restarts>>
         /\ worker' = [worker EXCEPT ![w] =
                         [@ EXCEPT !.pc = "storing",
                                   !.agg = Aggregate(RowOf(w).asset, mirrors)]]
    /\ UNCHANGED <<phase, database, plugin, gates, timers, backfill>>

Store(w) ==
    LET a == RowOf(w).asset
    IN  /\ worker[w].pc = "storing"
        /\ backup' = IF asset[a] = "active" THEN [backup EXCEPT ![a] = worker[w].agg]
                                            ELSE backup
        /\ GoIdle(w)
        /\ UNCHANGED <<phase, provider, asset, job, plugin, gates, timers, backfill, bounds>>

\* A failed read of the jobs or a failed write: logged, not retried.
TallyFails(w) ==
    /\ worker[w].pc \in {"tallying", "storing"}
    /\ Fault
    /\ GoIdle(w)
    /\ UNCHANGED <<phase, database, plugin, gates, timers, backfill, ops, restarts>>

------------------------------------------------------------------------------
(* The scheduler and the clocks *)

\* promoteReady takes every timer that has run out off the map ...
PromoteSnapshot ==
    /\ phase = "running"
    /\ promoting = {}
    /\ \E ready \in (SUBSET backoff) \ {{}} :
         /\ promoting' = ready
         /\ backoff' = backoff \ ready
    /\ UNCHANGED <<phase, database, plugin, gates, worker, backfill, bounds>>

\* Mutant: the requeue does not require the job to be failed.
PromoteUnguarded(j) ==
    /\ j \in promoting
    /\ promoting' = promoting \ {j}
    /\ job' = [job EXCEPT ![j].status = "pending"]
    /\ UNCHANGED <<phase, provider, asset, backup, plugin, gates, backoff, worker, backfill,
                   bounds>>

\* ... then requeues the jobs one by one.  Requeue needs a failed job; its error
\* - a database error, or the context cancelled by Stop - is logged.
Promote(j) ==
    /\ j \in promoting
    /\ promoting' = promoting \ {j}
    /\ \/ Transition({j}, {"failed"}, "pending") /\ UNCHANGED bounds
       \/ phase = "stopping" /\ UNCHANGED <<job, bounds>>
       \/ Fault /\ UNCHANGED <<job, ops, restarts>>
    /\ UNCHANGED <<phase, provider, asset, backup, plugin, gates, backoff, worker, backfill>>

CooldownEnds(p) ==
    /\ p \in cooling
    /\ cooling' = cooling \ {p}
    /\ UNCHANGED <<phase, database, plugin, foreground, timers, worker, backfill, bounds>>

ForegroundBegins ==
    /\ ~foreground
    /\ UserRequest
    /\ foreground' = TRUE
    /\ UNCHANGED <<phase, database, plugin, cooling, timers, worker, backfill>>

ForegroundEnds ==
    /\ foreground
    /\ foreground' = FALSE
    /\ UNCHANGED <<phase, database, plugin, cooling, timers, worker, backfill, bounds>>

------------------------------------------------------------------------------
(* The importer and the Backup Queue page *)

\* recordAsset: the asset row, one job per enabled provider in scope (opted out
\* for the skipped ones) and the stored aggregate, in one transaction.
Import(a, skip) ==
    LET into == {p \in Provider : provider[p].enabled /\ Accepts(p, a)}
    IN  /\ phase # "down"
        /\ asset[a] = "absent"
        /\ asset' = [asset EXCEPT ![a] = "active"]
        /\ \E row \in [into -> FreeRows] :
             /\ \A p, q \in into : row[p] = row[q] => p = q
             /\ job' = [j \in Job |->
                          IF \E p \in into : row[p] = j
                          THEN LET p == CHOOSE q \in into : row[q] = j
                               IN  NewRow(a, p, IF p \in skip THEN "opted_out" ELSE "pending")
                          ELSE job[j]]
        /\ backup' = [backup EXCEPT ![a] = IF into \subseteq skip THEN "none" ELSE "pending"]
        /\ UNCHANGED <<phase, provider, plugin, gates, timers, worker, backfill, bounds>>

InStatus(statuses) == {j \in Job : job[j].status \in statuses}

\* Pause of one job and PauseAll, which pauses the jobs it listed one by one and
\* skips those that moved on; a request that finds nothing to change is no step.
Pause(S) ==
    /\ UserRequest
    /\ S \subseteq InStatus({"pending"})
    /\ Transition(S, {"pending"}, "paused")
    /\ UNCHANGED <<phase, provider, asset, backup, plugin, gates, timers, worker, backfill>>

Resume(S) ==
    /\ UserRequest
    /\ S \subseteq InStatus({"paused"})
    /\ Transition(S, {"paused"}, "pending")
    /\ UNCHANGED <<phase, provider, asset, backup, plugin, gates, timers, worker, backfill>>

\* Retry: the timer goes first, then the guarded update.
Retry(j) ==
    /\ UserRequest
    /\ j \in backoff \cup InStatus({"failed"})
    /\ backoff' = backoff \ {j}
    /\ Reopen({j})
    /\ UNCHANGED <<phase, provider, asset, backup, plugin, gates, promoting, worker, backfill>>

RetryAllFailed ==
    /\ UserRequest
    /\ backoff \cup InStatus({"failed"}) # {}
    /\ backoff' = {}
    /\ Reopen(Job)
    /\ UNCHANGED <<phase, provider, asset, backup, plugin, gates, promoting, worker, backfill>>

\* Mutant: a completed job can be cancelled.
CancellableAlways == {"pending", "running", "paused", "failed", "completed"}

\* Cancel, from any non-terminal state, a running job included.
Cancellable == {"pending", "running", "paused", "failed"}

Cancel(j) ==
    /\ UserRequest
    /\ j \in backoff \cup InStatus(Cancellable)
    /\ backoff' = backoff \ {j}
    /\ Transition({j}, Cancellable, "cancelled")
    /\ UNCHANGED <<phase, provider, asset, backup, plugin, gates, promoting, worker, backfill>>

CancelAllPending ==
    /\ UserRequest
    /\ InStatus({"pending", "paused"}) # {}
    /\ Transition(Job, {"pending", "paused"}, "cancelled")
    /\ UNCHANGED <<phase, provider, asset, backup, plugin, gates, timers, worker, backfill>>

RequeueOptedOut(p) ==
    /\ UserRequest
    /\ \E j \in InStatus({"opted_out"}) : job[j].dest = p
    /\ Transition({j \in Job : job[j].dest = p}, {"opted_out"}, "pending")
    /\ UNCHANGED <<phase, provider, asset, backup, plugin, gates, timers, worker, backfill>>

\* ProviderService.Update changes the row and nothing else.
UpdateProvider(p, config) ==
    /\ UserRequest
    /\ config # provider[p]
    /\ provider' = [provider EXCEPT ![p] = config]
    /\ UNCHANGED <<phase, asset, backup, job, plugin, gates, timers, worker, backfill>>

\* Resolving a duplicate by deletion soft-deletes the asset, not its jobs.
DeleteAsset(a) ==
    /\ UserRequest
    /\ asset[a] = "active"
    /\ asset' = [asset EXCEPT ![a] = "deleted"]
    /\ UNCHANGED <<phase, provider, backup, job, plugin, gates, timers, worker, backfill>>

------------------------------------------------------------------------------
(* Backfill and reconcile: one at a time, over the scope read at the start *)

StartBackfill(p, reconcile) ==
    /\ UserRequest
    /\ backfill = NoBackfill
    /\ provider[p].enabled
    /\ backfill' = [dest |-> p, scope |-> provider[p].scope, seen |-> {},
                    cancelling |-> reconcile]
    /\ UNCHANGED <<phase, database, plugin, gates, timers, worker>>

\* CancelOutOfScopePending, or its error, which is logged.
ReconcileCancels ==
    /\ backfill.cancelling
    /\ backfill' = [backfill EXCEPT !.cancelling = FALSE]
    /\ \/ /\ Transition({j \in Job : /\ Exists(j)
                                     /\ job[j].dest = backfill.dest
                                     /\ asset[job[j].asset] = "active"
                                     /\ KindOf[job[j].asset] \notin backfill.scope},
                        {"pending", "paused"}, "cancelled")
          /\ UNCHANGED bounds
       \/ Fault /\ UNCHANGED <<job, ops, restarts>>
    /\ UNCHANGED <<phase, provider, asset, backup, plugin, gates, timers, worker>>

\* A page of one asset: Enqueue, a no-op when a row in Enqueued exists.
BackfillPage(a) ==
    LET p == backfill.dest
    IN  /\ backfill # NoBackfill
        /\ ~backfill.cancelling
        /\ asset[a] = "active"
        /\ KindOf[a] \in backfill.scope
        /\ a \notin backfill.seen
        /\ backfill' = [backfill EXCEPT !.seen = @ \cup {a}]
        /\ IF HasEnqueued(a, p)
           THEN UNCHANGED job
           ELSE \E j \in FreeRows : job' = [job EXCEPT ![j] = NewRow(a, p, "pending")]
        /\ UNCHANGED <<phase, provider, asset, backup, plugin, gates, timers, worker, bounds>>

\* Drained, cancelled or given up on an error.
BackfillEnds ==
    /\ backfill # NoBackfill
    /\ backfill' = NoBackfill
    /\ UNCHANGED <<phase, database, plugin, gates, timers, worker, bounds>>

------------------------------------------------------------------------------
(* The system *)

\* What a worker does by itself when no statement of the database fails.
WorkerStep(w) ==
    \/ Refuse(w) \/ PluginUnavailable(w) \/ Resolve(w)
    \/ Upload(w) \/ UploadFails(w) \/ UploadCoolsDown(w) \/ Interrupted(w)
    \/ Reload(w) \/ MarkCompleted(w) \/ MarkNote(w)
    \/ MarkFailed(w) \/ ScheduleRetry(w)
    \/ Tally(w) \/ Store(w)

WorkerFault(w) == RecordingFails(w) \/ MarkFailedFails(w) \/ TallyFails(w)

QueueRequest ==
    \/ \E S \in (SUBSET Job) \ {{}} : Pause(S) \/ Resume(S)
    \/ \E j \in Job : Retry(j) \/ Cancel(j)
    \/ RetryAllFailed \/ CancelAllPending
    \/ \E p \in Provider : RequeueOptedOut(p)

BackfillStep ==
    \/ \E p \in Provider, reconcile \in BOOLEAN : StartBackfill(p, reconcile)
    \/ ReconcileCancels
    \/ \E a \in Asset : BackfillPage(a)
    \/ BackfillEnds

Next ==
    \/ Start \/ Crash \/ Stop \/ StopDone
    \/ \E w \in Worker, j \in Job : Claim(w, j) \/ ClaimLost(w, j)
    \/ \E w \in Worker : WorkerStep(w) \/ WorkerFault(w)
    \/ PromoteSnapshot
    \/ \E j \in Job : Promote(j)
    \/ \E p \in Provider : CooldownEnds(p)
    \/ ForegroundBegins \/ ForegroundEnds
    \/ \E a \in Asset, skip \in SUBSET Provider : Import(a, skip)
    \/ QueueRequest
    \/ \E p \in Provider, config \in Config : UpdateProvider(p, config)
    \/ \E a \in Asset : DeleteAsset(a)
    \/ BackfillStep

Spec == Init /\ [][Next]_vars

------------------------------------------------------------------------------
(* Invariants *)

WorkerType ==
    [pc : {"idle", "claimed", "uploading", "uploaded", "marking", "noting", "failing",
           "backingoff", "tallying", "storing"},
     job : Job \cup {None}, tries : Nat, mirror : BOOLEAN, target : Target \cup {None},
     result : {"none", "verified", "noted", "transient", "terminal"},
     agg : BackupStatus]

RowType ==
    [asset : Asset \cup {None}, dest : Provider \cup {None},
     status : JobStatus \cup {"absent"}, retries : Nat, again : Nat,
     copy : Target \cup {"none", "noted"}]

\* The places where a worker has a plugin.
Sending == {"uploading", "uploaded", "marking", "noting"}

BackfillType ==
    [dest : Provider \cup {None}, scope : SUBSET Kind, seen : SUBSET Asset,
     cancelling : BOOLEAN]

CatalogTypeOK ==
    /\ provider \in [Provider -> Configuration]
    /\ asset \in [Asset -> {"absent", "active", "deleted"}]
    /\ backup \in [Asset -> BackupStatus]

RowsTypeOK ==
    /\ job \in [Job -> RowType]
    /\ \A j \in Job : Exists(j) => job[j].asset \in Asset /\ job[j].dest \in Provider

MemoryTypeOK ==
    /\ phase \in {"running", "stopping", "down"}
    /\ plugin \in [Provider -> Target \cup {None}]
    /\ cooling \subseteq Provider
    /\ backoff \subseteq Job
    /\ promoting \subseteq Job
    /\ foreground \in BOOLEAN
    /\ backfill \in BackfillType
    /\ backfill # NoBackfill => backfill.dest \in Provider

WorkersTypeOK ==
    /\ worker \in [Worker -> WorkerType]
    /\ \A w \in Worker :
         /\ worker[w].pc # "idle" => JobOf(w) \in Job /\ Exists(JobOf(w))
         /\ worker[w].pc \in Sending => worker[w].target \in Target

BoundsTypeOK == ops \in Nat /\ faults \in Nat /\ restarts \in Nat

\* Every variable has its type, a row that exists belongs to an asset and a
\* provider, and a worker that is not idle works on a row that exists, with a
\* plugin once it uploads.
TypeOK == CatalogTypeOK /\ RowsTypeOK /\ MemoryTypeOK /\ WorkersTypeOK /\ BoundsTypeOK

\* No two workers ever process the same job, whatever users cancel, retry or
\* requeue meanwhile ("concurrent callers never claim the same job"): the status
\* guards of the requeues, not only the claim's single UPDATE, are what keeps a
\* job from being offered again while its worker is still on it.
OneWorkerPerJob ==
    \A w, v \in Worker : \A j \in Job : Holds(w, j) /\ Holds(v, j) => w = v

\* While the manager runs and no statement has failed, a job in state running has
\* a worker on it: none is stranded by a shutdown, a crash, a cooldown or a
\* cancel (ResetRunningOnStartup runs before any worker claims).
RunningIsOwned ==
    phase = "running" /\ faults = 0 =>
        \A j \in Job : job[j].status = "running" => \E w \in Worker : Holds(w, j)

\* An asset whose stored status is complete has a job whose completion was
\* recorded, however the reads and writes of several recomputeAsset calls, new
\* jobs, cancels and opt-outs interleave: nothing is green without an upload.
HasCustody(a)   == \E j \in JobsOf(a) : job[j].copy # "none"
GreenHasCustody == \A a \in Asset : backup[a] = "complete" => HasCustody(a)

\* A job a worker holds was neither requeued nor finished under it: users can
\* only have cancelled it, and only a mirror's note can be outstanding on a
\* completion.
HeldIsOpen ==
    \A w \in Worker : \A j \in Job : Holds(w, j) =>
        /\ job[j].status \in {"running", "cancelled", "completed"}
        /\ job[j].status = "completed" => job[j].copy = "noted"

DownIsIdle       == phase = "down" => \A w \in Worker : worker[w] = Idle
CompletedHasCopy == \A j \in Job : job[j].status = "completed" => job[j].copy # "none"
TallyHasCustody  ==
    \A w \in Worker : worker[w].pc = "storing" /\ worker[w].agg = "complete"
                         => HasCustody(RowOf(w).asset)

\* The inductive invariant behind OneWorkerPerJob, GreenHasCustody and
\* CompletedIsFinal: what requeueing may find held, what a shutdown leaves, and
\* what an aggregate computed but not yet written stands for.
QueueInv ==
    /\ HeldIsOpen
    /\ OneWorkerPerJob
    /\ DownIsIdle
    /\ CompletedHasCopy
    /\ TallyHasCustody
    /\ GreenHasCustody

\* An opted-out job is the only job of its asset and destination: neither an
\* import, a backfill nor a reconcile puts a competing job beside it
\* (enqueueIdempotencyStatuses includes opted_out).
OptOutRespected ==
    \A j, k \in Job :
        /\ job[j].status = "opted_out"
        /\ Exists(k)
        /\ job[k].asset = job[j].asset
        /\ job[k].dest = job[j].dest
        => j = k

\* Automatic retries stop at MaxRetries: every failure beyond them was asked for
\* by a user's Retry or RetryAllFailed, also when a requeue overtakes a worker
\* that has yet to schedule the backoff of the same job.
RetryBudget ==
    \A j \in Job : job[j].retries <= MaxRetries + job[j].again

\* A completion that left a verified copy is final: no worker, retry, cancel or
\* restart takes the job back.
CompletedIsFinal ==
    [][\A j \in Job : job[j].status = "completed" /\ job[j].copy \in Target
                         => job'[j].status = "completed"]_vars

\* Cancelling a job no worker is on sticks: only the worker that was processing
\* a job when it was cancelled can move it out of cancelled.
IdleCancelSticks ==
    [][\A j \in Job : job[j].status = "cancelled" /\ job'[j].status # "cancelled"
                         => \E w \in Worker : Holds(w, j)]_vars

------------------------------------------------------------------------------
(* The ledger this queue implements *)

EntryOf(row) ==
    CASE row.status = "absent"  -> "absent"
      [] row.status = "pending" -> "queued"
      [] row.status = "running" -> "sending"
      [] row.status = "completed" /\ row.copy \in Target    -> "stored"
      [] row.status = "completed" /\ row.copy \notin Target -> "noted"
      [] OTHER -> "parked"

Entry  == [j \in Job |-> EntryOf(job[j])]
Flight == {j \in Job : \E w \in Worker : Holds(w, j)}

Ledger == INSTANCE BackupLedger WITH Entries <- Job, entry <- Entry, flight <- Flight

\* The queue is a ledger: a job is sent by one worker at a time, a verified
\* completion is reached only from an upload in flight and is never undone, and
\* no request or restart requeues a job a worker still holds.
ImplementsLedger == Ledger!Spec

------------------------------------------------------------------------------
(* Liveness.  Workers, scheduler and clocks make progress; users, crashes and  *)
(* failed statements are never forced.  The claim is by job: a provider's rows *)
(* are claimed in a fixed order and requests are bounded, so a pending row is  *)
(* not passed over for ever.  Start: the application is opened again.          *)

Fairness ==
    /\ WF_vars(Start)
    /\ WF_vars(StopDone)
    /\ \A w \in Worker : WF_vars(WorkerStep(w))
    /\ \A j \in Job : SF_vars(\E w \in Worker : Claim(w, j))
    /\ \A j \in Job : SF_vars(PromoteSnapshot /\ j \in promoting')
    /\ \A j \in Job : WF_vars(Promote(j))
    /\ \A p \in Provider : WF_vars(CooldownEnds(p))
    /\ WF_vars(ForegroundEnds)

FairSpec == Spec /\ Fairness

\* No job stays in state running for ever: its worker records an outcome, or a
\* shutdown or the next start reverts it.
RunningSettles ==
    \A j \in Job : job[j].status = "running" ~> job[j].status # "running"

\* A pending job of a provider that stays enabled is taken up, through cooldowns,
\* foreground yields, crashes and shutdowns.
PendingIsServed ==
    \A j \in Job :
        (job[j].status = "pending" /\ provider[job[j].dest].enabled)
            ~> (job[j].status = "pending" => ~provider[job[j].dest].enabled)

\* Stop terminates: every worker and the scheduler return, also when a promotion
\* or an upload is under way.
StopTerminates == phase = "stopping" ~> phase = "down"

\* A failed job whose backoff is being scheduled, or is, or was.
AwaitsRetry(j) ==
    \/ j \in backoff \cup promoting
    \/ \E w \in Worker : worker[w].pc = "backingoff" /\ JobOf(w) = j

\* A job that failed with retries left is requeued, unless the manager stops.
RetryHappens ==
    \A j \in Job : AwaitsRetry(j) ~> (job[j].status # "failed" \/ phase # "running")

\* Manager: "A process restart therefore resets outstanding backoff timers and
\* requeues those jobs immediately."
RestartRequeues == \A j \in Job : AwaitsRetry(j) ~> job[j].status # "failed"

------------------------------------------------------------------------------
(* What comments and documents say and the code does not do *)

\* Manager.Cancel: "a job currently running finishes its upload but will not be
\* recorded as completed".
CancelledNotCompleted ==
    [][\A j \in Job : job[j].status = "cancelled" => job'[j].status # "completed"]_vars

\* recomputeAsset "recomputes and persists the asset's aggregate BackupStatus from
\* the current state of all its jobs": with no worker at work, an asset whose
\* required jobs are all completed is stored as complete.
StatusCatchesUp ==
    phase = "running" /\ (\A w \in Worker : worker[w] = Idle) =>
        \A a \in Asset : Aggregate(a, Mirrors) = "complete" => backup[a] = "complete"

\* recomputeAsset: an unread mirror list "can only make the status look less
\* complete, never falsely green": a complete asset has a required completion.
NeverFalselyGreen ==
    \A a \in Asset : backup[a] = "complete" =>
        \E j \in JobsOf(a) : job[j].status = "completed" /\ job[j].dest \notin Mirrors

\* JobStatusOptedOut: "opting a REQUIRED provider out leaves the asset
\* not-complete and therefore not safe-to-erase".
OptOutIsNeverComplete ==
    \A a \in Asset :
        (\E j \in JobsOf(a) : job[j].status = "opted_out" /\ job[j].dest \notin Mirrors)
            => backup[a] # "complete"
=============================================================================
