-------------------------- MODULE BackupQueueProofs --------------------------
(***************************************************************************)
(* Proofs about BackupQueue, for every value of its constants: its types,  *)
(* one worker per job, verified completions are final, nothing is green    *)
(* without an upload.                                                      *)
(*                                                                         *)
(* Then, from what one step may do, worker, request or scheduler: no       *)
(* running job without a worker, nothing beside an opted-out job,          *)
(* automatic retries within their budget, and that the queue implements    *)
(* BackupLedger step by step.                                              *)
(*                                                                         *)
(* RetryBudget is not inductive: a job may have timers outstanding that an *)
(* earlier failure set and a requeue overtook.  What is inductive counts   *)
(* them: every failure was paid for by the first attempt, by a requeue a   *)
(* user asked for, or by a timer, and those not spent yet are owed.        *)
(***************************************************************************)
EXTENDS BackupQueue, FiniteSetTheorems, TLAPS

------------------------------------------------------------------------------
(* The effects shared by the actions keep the rows' type and owners. *)

\* A guarded status update keeps every row's type and leaves absent rows absent.
LEMMA TransitionType ==
    ASSUME RowsTypeOK, NEW S, NEW from, NEW to \in JobStatus,
           "absent" \notin from, Transition(S, from, to)
    PROVE  /\ RowsTypeOK'
           /\ \A j \in Job : Exists(j)' <=> Exists(j)
  BY DEF RowsTypeOK, Transition, Exists, RowType, JobStatus

\* So does a user's requeue of failed jobs.
LEMMA ReopenType ==
    ASSUME RowsTypeOK, NEW S, Reopen(S)
    PROVE  /\ RowsTypeOK'
           /\ \A j \in Job : Exists(j)' <=> Exists(j)
<1>1. ASSUME NEW j \in Job
      PROVE  /\ job'[j] \in RowType
             /\ job'[j].asset = job[j].asset
             /\ job'[j].dest = job[j].dest
             /\ job'[j].status = "absent" <=> job[j].status = "absent"
  <2>1. CASE j \in S /\ job[j].status = "failed"
    <3>1. job'[j] = [job[j] EXCEPT !.status = "pending", !.again = job[j].again + 1]
      BY <2>1 DEF Reopen
    <3>2. job[j] \in RowType
      BY DEF RowsTypeOK
    <3>3. job[j].again + 1 \in Nat
      BY <3>2 DEF RowType
    <3>4. job'[j] \in RowType
      BY <3>1, <3>2, <3>3 DEF RowType, JobStatus
    <3>5. /\ job'[j].asset = job[j].asset
          /\ job'[j].dest = job[j].dest
          /\ job'[j].status = "pending"
      BY <3>1, <3>2 DEF RowType
    <3> QED
      BY <2>1, <3>4, <3>5
  <2>2. CASE ~(j \in S /\ job[j].status = "failed")
    BY <2>2 DEF Reopen, RowsTypeOK
  <2> QED
    BY <2>1, <2>2
<1>2. job' = [j \in Job |-> job'[j]]
  BY DEF Reopen
<1> QED
  BY <1>1, <1>2 DEF RowsTypeOK, Exists

\* A new row on a free identifier leaves the other rows as they were.
LEMMA NewRowType ==
    ASSUME NEW a \in Asset, NEW p \in Provider, NEW s \in JobStatus
    PROVE  /\ NewRow(a, p, s) \in RowType
           /\ NewRow(a, p, s).asset = a
           /\ NewRow(a, p, s).dest = p
           /\ NewRow(a, p, s).status = s
           /\ NewRow(a, p, s).copy = "none"
  BY DEF NewRow, NoRow, RowType, JobStatus

\* Workers keep their type when rows persist.
LEMMA WorkersKeepType ==
    ASSUME WorkersTypeOK, UNCHANGED worker, \A j \in Job : Exists(j) => Exists(j)'
    PROVE  WorkersTypeOK'
  BY DEF WorkersTypeOK, JobOf

\* One worker's record changes.
LEMMA WorkerUpdateType ==
    ASSUME WorkersTypeOK, NEW w \in Worker, NEW r \in WorkerType,
           worker' = [worker EXCEPT ![w] = r],
           r.pc # "idle" => r.job \in Job /\ job'[r.job].status # "absent",
           r.pc \in Sending => r.target \in Target,
           \A j \in Job : Exists(j) => Exists(j)'
    PROVE  WorkersTypeOK'
  BY DEF WorkersTypeOK, JobOf, Exists

\* An idle worker has the type of a worker.
LEMMA IdleType == Idle \in WorkerType /\ Idle.pc = "idle" /\ Idle.pc \notin Sending
  BY DEF Idle, WorkerType, BackupStatus, Sending

PlaceType == {"claimed", "failing", "backingoff", "tallying", "storing"}

\* A worker that starts on, goes on with or gives up a job has its type.
LEMMA AtType ==
    ASSUME NEW pc \in PlaceType, NEW j \in Job
    PROVE  At(pc, j) \in WorkerType /\ At(pc, j).pc = pc /\ At(pc, j).job = j /\ pc \notin Sending
  BY DEF At, Idle, WorkerType, PlaceType, BackupStatus, Sending

LEMMA GotoType ==
    ASSUME WorkersTypeOK, NEW w \in Worker, worker[w].pc \in Sending,
           NEW pc \in Sending, Goto(w, pc),
           \A j \in Job : Exists(j) => Exists(j)'
    PROVE  WorkersTypeOK'
<1>1. [worker[w] EXCEPT !.pc = pc] \in WorkerType
  BY DEF WorkersTypeOK, WorkerType, Sending
<1>2. worker' = [worker EXCEPT ![w] = [worker[w] EXCEPT !.pc = pc]]
  BY DEF Goto, WorkersTypeOK
<1> QED
  BY <1>1, <1>2, WorkerUpdateType DEF WorkersTypeOK, WorkerType, JobOf, Sending, Exists

LEMMA WindUpType ==
    ASSUME WorkersTypeOK, NEW w \in Worker, worker[w].pc # "idle",
           NEW pc \in PlaceType, WindUp(w, pc),
           \A j \in Job : Exists(j) => Exists(j)'
    PROVE  WorkersTypeOK'
  BY AtType, WorkerUpdateType DEF WorkersTypeOK, WindUp, JobOf, Exists

LEMMA GoIdleType ==
    ASSUME WorkersTypeOK, NEW w \in Worker, GoIdle(w),
           \A j \in Job : Exists(j) => Exists(j)'
    PROVE  WorkersTypeOK'
  BY IdleType, WorkerUpdateType DEF GoIdle

LEMMA FailType ==
    ASSUME WorkersTypeOK, NEW w \in Worker, worker[w].pc # "idle",
           NEW result \in {"transient", "terminal"}, Fail(w, result),
           \A j \in Job : Exists(j) => Exists(j)'
    PROVE  WorkersTypeOK'
<1> DEFINE r == [At("failing", worker[w].job) EXCEPT !.tries = worker[w].tries,
                                                    !.result = result]
<1>1. r \in WorkerType /\ r.job = worker[w].job /\ r.pc \notin Sending
  BY DEF WorkersTypeOK, WorkerType, At, Idle, BackupStatus, Sending
<1>2. worker' = [worker EXCEPT ![w] = IF phase = "stopping" THEN Idle ELSE r]
  BY DEF Fail
<1> QED
  BY <1>1, <1>2, IdleType, WorkerUpdateType DEF WorkersTypeOK, JobOf, Exists

------------------------------------------------------------------------------
(* Type correctness *)

\* The initial state has its type.
LEMMA TypeInit == Init => TypeOK
<1> USE ConfigAssumption, NoneAssumption
<1> SUFFICES ASSUME Init PROVE TypeOK
  OBVIOUS
<1>1. CatalogTypeOK
  BY DEF Init, CatalogTypeOK, BackupStatus
<1>2. RowsTypeOK
  BY DEF Init, RowsTypeOK, NoRow, RowType, Exists
<1>3. MemoryTypeOK
  BY DEF Init, MemoryTypeOK, NoBackfill, BackfillType
<1>4. WorkersTypeOK
  BY IdleType DEF Init, WorkersTypeOK
<1>5. BoundsTypeOK
  BY DEF Init, BoundsTypeOK
<1> QED
  BY <1>1, <1>2, <1>3, <1>4, <1>5 DEF TypeOK

\* A restart and a shutdown keep the types.
LEMMA TypeRestart == TypeOK /\ (Start \/ Crash \/ Stop \/ StopDone) => TypeOK'
<1> SUFFICES ASSUME TypeOK, Start \/ Crash \/ Stop \/ StopDone PROVE TypeOK'
  OBVIOUS
<1> USE DEF TypeOK
<1>1. CASE Start
  <2>1. RowsTypeOK' /\ \A j \in Job : Exists(j)' <=> Exists(j)
    BY <1>1, TransitionType DEF Start, ResetRunning, JobStatus
  <2>2. WorkersTypeOK'
    BY <1>1, <2>1, WorkersKeepType DEF Start
  <2> QED
    BY <1>1, <2>1, <2>2 DEF Start, CatalogTypeOK, MemoryTypeOK, BoundsTypeOK, gates, timers
<1>2. CASE Crash
  <2>1. WorkersTypeOK'
    BY <1>2, IdleType DEF Crash, LoseMemory, WorkersTypeOK
  <2>2. CatalogTypeOK' /\ RowsTypeOK'
    BY <1>2 DEF Crash, database, CatalogTypeOK, RowsTypeOK, Exists
  <2>3. MemoryTypeOK'
    BY <1>2 DEF Crash, LoseMemory, MemoryTypeOK, NoBackfill, BackfillType
  <2>4. BoundsTypeOK'
    BY <1>2 DEF Crash, BoundsTypeOK
  <2> QED
    BY <2>1, <2>2, <2>3, <2>4
<1>3. CASE Stop
  BY <1>3 DEF Stop, database, gates, timers, CatalogTypeOK, RowsTypeOK, Exists,
     MemoryTypeOK, BoundsTypeOK, WorkersTypeOK, JobOf
<1>4. CASE StopDone
  <2>1. RowsTypeOK'
    BY <1>4, TransitionType DEF StopDone, ResetRunning, JobStatus
  <2>2. WorkersTypeOK'
    BY <1>4, IdleType DEF StopDone, LoseMemory, WorkersTypeOK
  <2> QED
    BY <1>4, <2>1, <2>2 DEF StopDone, LoseMemory, bounds, CatalogTypeOK, MemoryTypeOK,
       BoundsTypeOK, NoBackfill, BackfillType
<1> QED
  BY <1>1, <1>2, <1>3, <1>4

\* Claims keep the types.
LEMMA TypeClaim ==
    ASSUME TypeOK, NEW w \in Worker, NEW j \in Job, Claim(w, j) \/ ClaimLost(w, j)
    PROVE  TypeOK'
<1> USE DEF TypeOK
<1>1. Transition({j}, {"pending"}, "running") /\ job[j].status = "pending"
  BY DEF Claim, ClaimLost, Claimable
<1>2. RowsTypeOK' /\ \A i \in Job : Exists(i)' <=> Exists(i)
  BY <1>1, TransitionType DEF JobStatus
<1>3. WorkersTypeOK'
  <2>1. CASE Claim(w, j)
    <3> DEFINE r == [At("claimed", j) EXCEPT !.tries = job[j].retries]
    <3>1. r \in WorkerType /\ r.job = j /\ r.pc \notin Sending
      <4>1. job[j].retries \in Nat
        BY DEF RowsTypeOK, RowType
      <4> QED
        BY <4>1 DEF At, Idle, WorkerType, BackupStatus, Sending
    <3>2. worker' = [worker EXCEPT ![w] = r]
      BY <2>1 DEF Claim
    <3>3. job'[r.job].status # "absent"
      BY <1>1, <1>2, <3>1 DEF Exists
    <3> HIDE DEF r
    <3> QED
      BY <1>2, <3>1, <3>2, <3>3, WorkerUpdateType
  <2>2. CASE ClaimLost(w, j)
    BY <1>2, <2>2, WorkersKeepType DEF ClaimLost
  <2> QED
    BY <2>1, <2>2
<1>4. CatalogTypeOK' /\ MemoryTypeOK' /\ BoundsTypeOK'
  BY DEF Claim, ClaimLost, Fault, gates, timers, bounds, CatalogTypeOK, MemoryTypeOK,
     BoundsTypeOK
<1> QED
  BY <1>2, <1>3, <1>4

\* A provider's plugin has a target of the provider's.
LEMMA SenderType ==
    ASSUME TypeOK, NEW p \in Provider
    PROVE  /\ Sender(p) \in Target
           /\ provider[p].mirror \in BOOLEAN
           /\ KeepSender(p) => plugin' \in [Provider -> Target \cup {None}]
<1>1. provider[p].target \in Target /\ provider[p].mirror \in BOOLEAN
  BY DEF TypeOK, CatalogTypeOK, Configuration
<1>2. Sender(p) \in Target
  BY <1>1 DEF Sender, TypeOK, MemoryTypeOK
<1> QED
  BY <1>1, <1>2 DEF KeepSender, TypeOK, MemoryTypeOK

\* So does every step of a worker on its job.
LEMMA TypeWorker ==
    ASSUME TypeOK, NEW w \in Worker, WorkerStep(w) \/ WorkerFault(w)
    PROVE  TypeOK'
<1> USE DEF TypeOK
<1>0. worker[w].pc # "idle" => JobOf(w) \in Job /\ Exists(JobOf(w))
  BY DEF WorkersTypeOK
<1> DEFINE SameRows == job' = job
           Rest == CatalogTypeOK' /\ MemoryTypeOK' /\ BoundsTypeOK'
<1>1. SameRows => RowsTypeOK' /\ \A i \in Job : Exists(i)' <=> Exists(i)
  BY DEF RowsTypeOK, Exists
<1>2. CASE Refuse(w)
  <2>1. RowOf(w).dest \in Provider
    BY <1>0, <1>2 DEF Refuse, RowsTypeOK, RowOf
  <2>2. plugin' \in [Provider -> Target \cup {None}]
    <3>1. UNCHANGED plugin \/ KeepSender(RowOf(w).dest)
      BY <1>2 DEF Refuse
    <3> QED
      BY <2>1, <3>1, SenderType DEF MemoryTypeOK
  <2>3. BoundsTypeOK'
    BY <1>2 DEF Refuse, Fault, bounds, BoundsTypeOK
  <2>4. Rest /\ SameRows
    BY <1>2, <2>2, <2>3 DEF Refuse, database, gates, timers, CatalogTypeOK, MemoryTypeOK
  <2>5. WorkersTypeOK'
    BY <1>1, <1>2, <2>4, FailType DEF Refuse
  <2> QED
    BY <1>1, <2>4, <2>5
<1>3. CASE PluginUnavailable(w)
  <2>1. Rest /\ SameRows
    BY <1>3 DEF PluginUnavailable, database, gates, timers, bounds, CatalogTypeOK,
       MemoryTypeOK, BoundsTypeOK
  <2>2. WorkersTypeOK'
    BY <1>1, <1>3, <2>1, FailType DEF PluginUnavailable
  <2> QED
    BY <1>1, <2>1, <2>2
<1>4. CASE Resolve(w)
  <2> DEFINE p == RowOf(w).dest
             r == [worker[w] EXCEPT !.pc = "uploading", !.mirror = provider[p].mirror,
                                    !.target = Sender(p)]
  <2>1. p \in Provider
    BY <1>0, <1>4 DEF Resolve, RowsTypeOK, RowOf
  <2>2. /\ Sender(p) \in Target /\ provider[p].mirror \in BOOLEAN
        /\ plugin' \in [Provider -> Target \cup {None}]
    BY <1>4, <2>1, SenderType DEF Resolve
  <2>3. worker' = [worker EXCEPT ![w] = r]
    BY <1>4 DEF Resolve, WorkersTypeOK
  <2>4. r \in WorkerType /\ r.job = JobOf(w) /\ r.target \in Target
    BY ZenonT(60), <2>2 DEF WorkersTypeOK, WorkerType, JobOf
  <2>5. Rest /\ SameRows
    BY <1>4, <2>2 DEF Resolve, database, gates, timers, bounds, CatalogTypeOK,
       MemoryTypeOK, BoundsTypeOK
  <2>6. job'[r.job].status # "absent" /\ r.job \in Job
    BY <1>0, <1>1, <1>4, <2>4, <2>5 DEF Resolve, Exists
  <2> HIDE DEF r
  <2>7. WorkersTypeOK'
    BY <1>1, <2>3, <2>4, <2>5, <2>6, WorkerUpdateType
  <2> QED
    BY <1>1, <2>5, <2>7
<1>5. CASE Upload(w)
  <2>1. Rest /\ SameRows
    BY <1>5 DEF Upload, database, gates, timers, bounds, CatalogTypeOK, MemoryTypeOK,
       BoundsTypeOK
  <2>2. PICK result \in {"verified", "noted"} :
          worker' = [worker EXCEPT ![w] =
                       [worker[w] EXCEPT !.pc = "uploaded", !.mirror = FALSE,
                                         !.result = result]]
    BY <1>5 DEF Upload, WorkersTypeOK
  <2> DEFINE r == [worker[w] EXCEPT !.pc = "uploaded", !.mirror = FALSE, !.result = result]
  <2>3. r \in WorkerType /\ r.job = JobOf(w) /\ r.target \in Target
    BY ZenonT(60), <1>5 DEF Upload, WorkersTypeOK, WorkerType, JobOf, Sending
  <2>4. WorkersTypeOK'
    BY <1>0, <1>1, <1>5, <2>1, <2>2, <2>3, WorkerUpdateType DEF Upload, Exists
  <2> QED
    BY <1>1, <2>1, <2>4
<1>6. CASE UploadFails(w)
  <2>1. Rest /\ SameRows
    BY <1>6 DEF UploadFails, database, gates, timers, bounds, CatalogTypeOK, MemoryTypeOK,
       BoundsTypeOK
  <2>2. WorkersTypeOK'
    BY <1>1, <1>6, <2>1, FailType DEF UploadFails
  <2> QED
    BY <1>1, <2>1, <2>2
<1>7. CASE UploadCoolsDown(w)
  <2>1. JobOf(w) \in Job /\ job[JobOf(w)].dest \in Provider
    BY <1>0, <1>7 DEF UploadCoolsDown, RowsTypeOK
  <2>2. Rest
    BY <1>7, <2>1 DEF UploadCoolsDown, Fault, gates, timers, bounds, CatalogTypeOK,
       MemoryTypeOK, BoundsTypeOK
  <2>3. RowsTypeOK' /\ \A i \in Job : Exists(i)' <=> Exists(i)
    BY <1>1, <1>7, TransitionType DEF UploadCoolsDown, JobStatus
  <2>4. WorkersTypeOK'
    BY <1>7, <2>3, GoIdleType DEF UploadCoolsDown
  <2> QED
    BY <2>2, <2>3, <2>4
<1>8. CASE Interrupted(w) \/ MarkFailedFails(w) \/ TallyFails(w)
  <2>1. Rest /\ SameRows
    BY <1>8 DEF Interrupted, MarkFailedFails, TallyFails, Fault, database, gates, timers,
       bounds, CatalogTypeOK, MemoryTypeOK, BoundsTypeOK
  <2>2. WorkersTypeOK'
    BY <1>1, <1>8, <2>1, GoIdleType DEF Interrupted, MarkFailedFails, TallyFails
  <2> QED
    BY <1>1, <2>1, <2>2
<1>9. CASE Reload(w)
  <2>1. Rest /\ SameRows
    BY <1>9 DEF Reload, database, gates, timers, bounds, CatalogTypeOK, MemoryTypeOK,
       BoundsTypeOK
  <2>2. WorkersTypeOK'
    BY <1>1, <1>9, <2>1, GotoType, WindUpType DEF Reload, PlaceType, Sending
  <2> QED
    BY <1>1, <2>1, <2>2
<1>10. CASE MarkCompleted(w) \/ MarkNote(w) \/ MarkFailed(w)
  <2>1. Rest
    BY <1>10 DEF MarkCompleted, MarkNote, MarkFailed, gates, timers, bounds, CatalogTypeOK,
       MemoryTypeOK, BoundsTypeOK
  <2>2. JobOf(w) \in Job /\ job[JobOf(w)] \in RowType /\ Exists(JobOf(w))
    BY <1>0, <1>10 DEF MarkCompleted, MarkNote, MarkFailed, RowsTypeOK
  <2> DEFINE Owned(r) == r.asset = job[JobOf(w)].asset /\ r.dest = job[JobOf(w)].dest
  <2>3. \E r \in RowType : /\ job' = [job EXCEPT ![JobOf(w)] = r]
                           /\ Owned(r)
                           /\ r.status \in JobStatus
    <3>1. CASE MarkCompleted(w)
      <4> DEFINE left == IF worker[w].result = "noted" THEN "noted" ELSE worker[w].target
                 r    == [job[JobOf(w)] EXCEPT !.status = "completed", !.copy = left]
      <4>1. left \in Target \cup {"noted"}
        BY <3>1 DEF MarkCompleted, WorkersTypeOK, Sending
      <4>2. job' = [job EXCEPT ![JobOf(w)] = r]
        BY <2>2, <3>1 DEF MarkCompleted, RowsTypeOK
      <4> HIDE DEF left
      <4>3. r \in RowType /\ Owned(r) /\ r.status \in JobStatus
        BY <2>2, <4>1 DEF RowType, JobStatus
      <4> HIDE DEF r
      <4> QED
        BY <4>2, <4>3
    <3>2. CASE MarkNote(w)
      <4> DEFINE r == [job[JobOf(w)] EXCEPT !.status = "completed", !.copy = "noted"]
      <4>1. job' = [job EXCEPT ![JobOf(w)] = r]
        BY <2>2, <3>2 DEF MarkNote, RowsTypeOK
      <4>2. r \in RowType /\ Owned(r) /\ r.status \in JobStatus
        BY <2>2 DEF RowType, JobStatus
      <4> HIDE DEF r
      <4> QED
        BY <4>1, <4>2
    <3>3. CASE MarkFailed(w)
      <4> DEFINE n == job[JobOf(w)].retries + 1
                 r == [job[JobOf(w)] EXCEPT !.status = "failed", !.retries = n]
      <4>1. job' = [job EXCEPT ![JobOf(w)] = r]
        BY <2>2, <3>3 DEF MarkFailed, RowsTypeOK
      <4>2. n \in Nat
        BY <2>2 DEF RowType
      <4> HIDE DEF n
      <4>3. r \in RowType /\ Owned(r) /\ r.status \in JobStatus
        BY <2>2, <4>2 DEF RowType, JobStatus
      <4> HIDE DEF r
      <4> QED
        BY <4>1, <4>3
    <3> QED
      BY <1>10, <3>1, <3>2, <3>3
  <2>4. RowsTypeOK' /\ \A i \in Job : Exists(i)' <=> Exists(i)
    BY <2>2, <2>3 DEF RowsTypeOK, Exists, JobStatus
  <2>5. WorkersTypeOK'
    BY <1>10, <2>4, GotoType, WindUpType
       DEF MarkCompleted, MarkNote, MarkFailed, PlaceType, Sending
  <2> QED
    BY <2>1, <2>4, <2>5
<1>11. CASE RecordingFails(w)
  <2>1. Rest /\ SameRows
    BY <1>11 DEF RecordingFails, Fault, database, gates, timers, CatalogTypeOK,
       MemoryTypeOK, BoundsTypeOK
  <2>2. WorkersTypeOK'
    <3>1. CASE Goto(w, "noting") /\ worker[w].pc = "marking"
      BY <1>1, <2>1, <3>1, GotoType DEF Sending
    <3>2. CASE Fail(w, "transient")
      BY <1>1, <1>11, <2>1, <3>2, FailType DEF RecordingFails
    <3> QED
      BY <1>11, <3>1, <3>2 DEF RecordingFails
  <2> QED
    BY <1>1, <2>1, <2>2
<1>12. CASE ScheduleRetry(w)
  <2>1. Rest /\ SameRows
    BY <1>0, <1>12 DEF ScheduleRetry, database, gates, timers, bounds, CatalogTypeOK,
       MemoryTypeOK, BoundsTypeOK
  <2>2. WorkersTypeOK'
    BY <1>1, <1>12, <2>1, GoIdleType DEF ScheduleRetry
  <2> QED
    BY <1>1, <2>1, <2>2
<1>13. CASE Tally(w)
  <2>1. Rest /\ SameRows
    BY <1>13 DEF Tally, Fault, database, gates, timers, bounds, CatalogTypeOK, MemoryTypeOK,
       BoundsTypeOK
  <2>2. PICK mirrors \in {Mirrors, {}} :
          worker' = [worker EXCEPT ![w] =
                       [worker[w] EXCEPT !.pc = "storing",
                                         !.agg = Aggregate(RowOf(w).asset, mirrors)]]
    BY <1>13 DEF Tally, WorkersTypeOK
  <2>3. Aggregate(RowOf(w).asset, mirrors) \in BackupStatus
    BY DEF Aggregate, BackupStatus
  <2> DEFINE r == [worker[w] EXCEPT !.pc = "storing",
                                    !.agg = Aggregate(RowOf(w).asset, mirrors)]
  <2>4. r \in WorkerType /\ r.job = JobOf(w) /\ r.pc \notin Sending
    BY <2>3 DEF WorkersTypeOK, WorkerType, JobOf, Sending
  <2>5. WorkersTypeOK'
    BY <1>0, <1>1, <1>13, <2>1, <2>2, <2>4, WorkerUpdateType DEF Tally, Exists
  <2> QED
    BY <1>1, <2>1, <2>5
<1>14. CASE Store(w)
  <2>1. worker[w].agg \in BackupStatus
    BY DEF WorkersTypeOK, WorkerType
  <2>2. Rest /\ SameRows
    BY <1>14, <2>1 DEF Store, gates, timers, bounds, CatalogTypeOK, MemoryTypeOK, BoundsTypeOK
  <2>3. WorkersTypeOK'
    BY <1>1, <1>14, <2>2, GoIdleType DEF Store
  <2> QED
    BY <1>1, <2>2, <2>3
<1> QED
  BY <1>2, <1>3, <1>4, <1>5, <1>6, <1>7, <1>8, <1>9, <1>10, <1>11, <1>12, <1>13, <1>14
     DEF WorkerStep, WorkerFault

\* The scheduler and the clocks.
LEMMA TypeClocks ==
    ASSUME TypeOK,
           \/ PromoteSnapshot
           \/ \E j \in Job : Promote(j)
           \/ \E p \in Provider : CooldownEnds(p)
           \/ ForegroundBegins \/ ForegroundEnds
    PROVE  TypeOK'
<1> USE DEF TypeOK
<1>1. CASE PromoteSnapshot
  BY <1>1 DEF PromoteSnapshot, database, gates, bounds, CatalogTypeOK, RowsTypeOK, Exists,
     MemoryTypeOK, BoundsTypeOK, WorkersTypeOK, JobOf
<1>2. ASSUME NEW j \in Job, Promote(j) PROVE TypeOK'
  <2>1. RowsTypeOK' /\ \A i \in Job : Exists(i)' <=> Exists(i)
    <3>1. CASE UNCHANGED job
      BY <3>1 DEF RowsTypeOK, Exists
    <3>2. CASE Transition({j}, {"failed"}, "pending")
      BY <3>2, TransitionType DEF JobStatus
    <3> QED
      BY <1>2, <3>1, <3>2 DEF Promote
  <2>2. WorkersTypeOK'
    BY <1>2, <2>1, WorkersKeepType DEF Promote
  <2> QED
    BY <1>2, <2>1, <2>2 DEF Promote, Fault, gates, bounds, CatalogTypeOK, MemoryTypeOK,
       BoundsTypeOK
<1>3. CASE ForegroundBegins \/ ForegroundEnds \/ \E p \in Provider : CooldownEnds(p)
  <2>1. UNCHANGED <<database, worker>>
    BY <1>3 DEF ForegroundBegins, ForegroundEnds, CooldownEnds
  <2>2. CatalogTypeOK' /\ RowsTypeOK' /\ WorkersTypeOK'
    BY <2>1 DEF database, CatalogTypeOK, RowsTypeOK, Exists, WorkersTypeOK, JobOf
  <2>3. CASE ForegroundBegins
    BY <2>2, <2>3 DEF ForegroundBegins, UserRequest, timers, MemoryTypeOK, BoundsTypeOK
  <2>4. CASE ForegroundEnds
    BY <2>2, <2>4 DEF ForegroundEnds, timers, bounds, MemoryTypeOK, BoundsTypeOK
  <2>5. ASSUME NEW p \in Provider, CooldownEnds(p) PROVE TypeOK'
    BY <2>2, <2>5 DEF CooldownEnds, timers, bounds, MemoryTypeOK, BoundsTypeOK
  <2> QED
    BY <1>3, <2>3, <2>4, <2>5
<1> QED
  BY <1>1, <1>2, <1>3

\* An import only adds rows.
LEMMA TypeImport ==
    ASSUME TypeOK, NEW a \in Asset, NEW skip \in SUBSET Provider, Import(a, skip)
    PROVE  TypeOK'
<1> USE DEF TypeOK
<1> DEFINE into == {p \in Provider : provider[p].enabled /\ Accepts(p, a)}
           Added(row, j) ==
             IF \E p \in into : row[p] = j
             THEN LET p == CHOOSE q \in into : row[q] = j
                  IN  NewRow(a, p, IF p \in skip THEN "opted_out" ELSE "pending")
             ELSE job[j]
<1>1. PICK row \in [into -> FreeRows] : job' = [j \in Job |-> Added(row, j)]
  BY DEF Import
<1>2. ASSUME NEW j \in Job
      PROVE  /\ Added(row, j) \in RowType
             /\ Exists(j) => Added(row, j) = job[j]
             /\ Added(row, j).status # "absent" =>
                  Added(row, j).asset \in Asset /\ Added(row, j).dest \in Provider
  <2>1. CASE \E p \in into : row[p] = j
    <3>1. PICK p \in into :
            Added(row, j) = NewRow(a, p, IF p \in skip THEN "opted_out" ELSE "pending")
      BY <2>1
    <3>2. ~Exists(j)
      BY <1>1, <2>1 DEF FreeRows
    <3> QED
      BY <3>1, <3>2, NewRowType DEF JobStatus
  <2>2. CASE ~\E p \in into : row[p] = j
    BY <2>2 DEF RowsTypeOK, Exists
  <2> QED
    BY <2>1, <2>2
<1>3. RowsTypeOK' /\ \A j \in Job : Exists(j) => Exists(j)'
  <2> HIDE DEF Added
  <2> QED
    BY <1>1, <1>2 DEF RowsTypeOK, Exists
<1>4. WorkersTypeOK'
  BY <1>3, WorkersKeepType DEF Import
<1>5. CatalogTypeOK' /\ MemoryTypeOK' /\ BoundsTypeOK'
  BY DEF Import, gates, timers, bounds, CatalogTypeOK, MemoryTypeOK, BoundsTypeOK, BackupStatus
<1> QED
  BY <1>3, <1>4, <1>5

\* The requests of the queue page and of the providers page.
LEMMA TypeRequest ==
    ASSUME TypeOK,
           \/ QueueRequest
           \/ \E p \in Provider, config \in Config : UpdateProvider(p, config)
           \/ \E a \in Asset : DeleteAsset(a)
    PROVE  TypeOK'
<1> USE DEF TypeOK
<1> DEFINE Rest == CatalogTypeOK' /\ MemoryTypeOK' /\ BoundsTypeOK' /\ UNCHANGED worker
<1>1. CASE QueueRequest
  <2>1. /\ UNCHANGED <<phase, provider, asset, backup, plugin, gates, promoting, worker, backfill>>
        /\ UserRequest
        /\ backoff' \subseteq backoff
    BY <1>1 DEF QueueRequest, Pause, Resume, Retry, RetryAllFailed, Cancel, CancelAllPending,
       RequeueOptedOut, timers
  <2>3. Rest
    BY <2>1 DEF UserRequest, gates, CatalogTypeOK, MemoryTypeOK, BoundsTypeOK
  <2>2. RowsTypeOK' /\ \A j \in Job : Exists(j)' <=> Exists(j)
    BY <1>1, TransitionType, ReopenType DEF QueueRequest, Pause, Resume, Retry,
       RetryAllFailed, Cancel, Cancellable, CancelAllPending, RequeueOptedOut, JobStatus
  <2> QED
    BY <2>2, <2>3, WorkersKeepType
<1>2. ASSUME NEW p \in Provider, NEW config \in Config, UpdateProvider(p, config)
      PROVE  TypeOK'
  BY <1>2, ConfigAssumption DEF UpdateProvider, UserRequest, gates, timers, CatalogTypeOK,
     RowsTypeOK, Exists, MemoryTypeOK, BoundsTypeOK, WorkersTypeOK, JobOf
<1>3. ASSUME NEW a \in Asset, DeleteAsset(a) PROVE TypeOK'
  BY <1>3 DEF DeleteAsset, UserRequest, gates, timers, CatalogTypeOK, RowsTypeOK, Exists,
     MemoryTypeOK, BoundsTypeOK, WorkersTypeOK, JobOf
<1> QED
  BY <1>1, <1>2, <1>3

\* Backfill and reconcile.
LEMMA TypeBackfill == TypeOK /\ BackfillStep => TypeOK'
<1> SUFFICES ASSUME TypeOK, BackfillStep PROVE TypeOK'
  OBVIOUS
<1> USE DEF TypeOK
<1>1. ASSUME NEW p \in Provider, NEW reconcile \in BOOLEAN, StartBackfill(p, reconcile)
      PROVE  TypeOK'
  <2>1. provider[p].scope \in SUBSET Kind
    BY DEF CatalogTypeOK, Configuration
  <2>2. backfill' \in BackfillType /\ backfill'.dest = p
    BY <1>1, <2>1 DEF StartBackfill, BackfillType
  <2> QED
    BY <1>1, <2>2 DEF StartBackfill, UserRequest, database, gates, timers, CatalogTypeOK,
       RowsTypeOK, Exists, MemoryTypeOK, BoundsTypeOK, WorkersTypeOK, JobOf
<1>2. CASE ReconcileCancels
  <2>1. RowsTypeOK' /\ \A j \in Job : Exists(j)' <=> Exists(j)
    <3>1. CASE UNCHANGED job
      BY <3>1 DEF RowsTypeOK, Exists
    <3> QED
      BY <1>2, <3>1, TransitionType DEF ReconcileCancels, JobStatus
  <2>2. WorkersTypeOK'
    BY <1>2, <2>1, WorkersKeepType DEF ReconcileCancels
  <2>3. backfill' \in BackfillType /\ backfill'.dest = backfill.dest
    BY <1>2 DEF ReconcileCancels, MemoryTypeOK, BackfillType
  <2>4. backfill # NoBackfill
    BY <1>2 DEF ReconcileCancels, NoBackfill
  <2> QED
    BY <1>2, <2>1, <2>2, <2>3, <2>4 DEF ReconcileCancels, Fault, gates, timers, bounds,
       CatalogTypeOK, MemoryTypeOK, BoundsTypeOK
<1>3. ASSUME NEW a \in Asset, BackfillPage(a) PROVE TypeOK'
  <2>1. backfill.dest \in Provider
    BY <1>3 DEF BackfillPage, MemoryTypeOK
  <2>2. RowsTypeOK' /\ \A j \in Job : Exists(j) => Exists(j)'
    <3>1. CASE UNCHANGED job
      BY <3>1 DEF RowsTypeOK, Exists
    <3>2. ASSUME NEW j \in FreeRows,
                 job' = [job EXCEPT ![j] = NewRow(a, backfill.dest, "pending")]
          PROVE  RowsTypeOK' /\ \A i \in Job : Exists(i) => Exists(i)'
      BY <2>1, <3>2, NewRowType DEF RowsTypeOK, Exists, FreeRows, JobStatus
    <3> QED
      BY <1>3, <3>1, <3>2 DEF BackfillPage
  <2>3. WorkersTypeOK'
    BY <1>3, <2>2, WorkersKeepType DEF BackfillPage
  <2>4. backfill' \in BackfillType /\ backfill'.dest = backfill.dest
    BY <1>3 DEF BackfillPage, MemoryTypeOK, BackfillType
  <2> QED
    BY <1>3, <2>1, <2>2, <2>3, <2>4 DEF BackfillPage, gates, timers, bounds, CatalogTypeOK,
       MemoryTypeOK, BoundsTypeOK
<1>4. CASE BackfillEnds
  <2>1. NoBackfill \in BackfillType
    BY DEF NoBackfill, BackfillType
  <2> QED
    BY <1>4, <2>1 DEF BackfillEnds, database, gates, timers, bounds, CatalogTypeOK,
       RowsTypeOK, Exists, MemoryTypeOK, BoundsTypeOK, WorkersTypeOK, JobOf
<1> QED
  BY <1>1, <1>2, <1>3, <1>4 DEF BackfillStep

\* No step of the system leaves the types.
LEMMA TypeNext == TypeOK /\ [Next]_vars => TypeOK'
<1> SUFFICES ASSUME TypeOK, [Next]_vars PROVE TypeOK'
  OBVIOUS
<1>1. CASE UNCHANGED vars
  BY <1>1 DEF vars, database, gates, timers, bounds, TypeOK, CatalogTypeOK, RowsTypeOK,
     Exists, MemoryTypeOK, BoundsTypeOK, WorkersTypeOK, JobOf
<1>2. CASE Next
  BY <1>2, TypeRestart, TypeClaim, TypeWorker, TypeClocks, TypeImport, TypeRequest,
     TypeBackfill DEF Next
<1> QED
  BY <1>1, <1>2

\* Rows, workers, caches and timers keep their types whatever the users, the
\* faults and the restarts, for any pool, any providers and any number of jobs.
THEOREM TypeCorrect == Spec => []TypeOK
  BY TypeInit, TypeNext, PTL DEF Spec

------------------------------------------------------------------------------
(* Holders *)

HoldersInv == HeldIsOpen /\ OneWorkerPerJob

\* A worker's row may look like this while it is held.
OpenRow(row) ==
    /\ row.status \in {"running", "cancelled", "completed"}
    /\ row.status = "completed" => row.copy = "noted"

\* When no worker gains a job and the rows still held stay open, the holders'
\* part of the invariant is kept.
LEMMA HoldersKept ==
    ASSUME HoldersInv,
           \A w \in Worker, j \in Job :
               Holds(w, j)' => Holds(w, j) /\ OpenRow(job'[j])
    PROVE  HoldersInv'
  BY DEF HoldersInv, HeldIsOpen, OneWorkerPerJob, OpenRow

\* A worker that winds up or goes idle holds nothing; the others are untouched.
LEMMA Released ==
    ASSUME WorkersTypeOK, NEW w \in Worker,
           GoIdle(w) \/ \E pc \in {"tallying", "backingoff"} : WindUp(w, pc)
    PROVE  \A v \in Worker, j \in Job : Holds(v, j)' => Holds(v, j) /\ v # w
<1>1. worker'[w].pc \notin Active
  <2>1. CASE GoIdle(w)
    BY <2>1 DEF WorkersTypeOK, GoIdle, Idle, Active
  <2>2. ASSUME NEW pc \in {"tallying", "backingoff"}, WindUp(w, pc)
        PROVE  worker'[w].pc \notin Active
    <3>1. worker'[w] = At(pc, worker[w].job)
      BY <2>2 DEF WorkersTypeOK, WindUp
    <3>2. At(pc, worker[w].job).pc = pc
      BY DEF At, Idle
    <3> QED
      BY <2>2, <3>1, <3>2 DEF Active
  <2> QED
    BY <2>1, <2>2
<1>2. \A v \in Worker : v # w => worker'[v] = worker[v]
  BY DEF WorkersTypeOK, GoIdle, WindUp
<1> QED
  BY <1>1, <1>2 DEF Holds

\* A failing worker keeps its job or, during a shutdown, lets it go.
LEMMA FailHolds ==
    ASSUME WorkersTypeOK, NEW w \in Worker, worker[w].pc \in Active, NEW result,
           Fail(w, result)
    PROVE  \A v \in Worker, j \in Job : Holds(v, j)' => Holds(v, j)
  BY DEF WorkersTypeOK, Fail, At, Idle, Holds, Active

\* A worker that goes on within its job keeps it.
LEMMA GoesOn ==
    ASSUME WorkersTypeOK, NEW w \in Worker, worker[w].pc \in Active, NEW r,
           worker' = [worker EXCEPT ![w] = r], r.job = worker[w].job
    PROVE  \A v \in Worker, j \in Job : Holds(v, j)' => Holds(v, j)
  BY DEF WorkersTypeOK, Holds, Active

\* Guarded updates that neither reopen a held row nor complete one are safe
\* while the workers stand still.
LEMMA GuardedKeepsHolders ==
    ASSUME HoldersInv, UNCHANGED worker, NEW S, NEW from, NEW to,
           job \in [Job -> RowType],
           Transition(S, from, to),
           to # "cancelled" => from \cap {"running", "cancelled", "completed"} = {},
           to = "cancelled" => "completed" \notin from
    PROVE  HoldersInv'
<1>1. ASSUME NEW w \in Worker, NEW j \in Job, Holds(w, j)'
      PROVE  Holds(w, j) /\ OpenRow(job'[j])
  <2>1. Holds(w, j) /\ OpenRow(job[j])
    BY <1>1 DEF Holds, HoldersInv, HeldIsOpen, OpenRow
  <2>2. CASE job'[j] = job[j]
    BY <2>1, <2>2
  <2>3. CASE job'[j] # job[j]
    <3>1. job[j].status \in from /\ job'[j] = [job[j] EXCEPT !.status = to]
      BY <2>3 DEF Transition
    <3>2. to = "cancelled"
      BY <2>1, <3>1 DEF OpenRow
    <3>3. job'[j].status = "cancelled"
      BY <3>1, <3>2 DEF RowType
    <3> QED
      BY <2>1, <3>3 DEF OpenRow
  <2> QED
    BY <2>2, <2>3
<1> QED
  BY <1>1, HoldersKept

\* Claims: the claimed row was pending, so nobody held it.
LEMMA HoldersClaim ==
    ASSUME TypeOK, HoldersInv, NEW w \in Worker, NEW j \in Job,
           Claim(w, j) \/ ClaimLost(w, j)
    PROVE  HoldersInv'
<1>1. job[j].status = "pending" /\ Transition({j}, {"pending"}, "running")
  BY DEF Claim, ClaimLost, Claimable
<1>2. \A v \in Worker : ~Holds(v, j)
  BY <1>1 DEF HoldersInv, HeldIsOpen
<1>3. /\ job'[j].status = "running"
      /\ \A i \in Job : i # j => job'[i] = job[i]
  BY <1>1 DEF Transition, TypeOK, RowsTypeOK, RowType
<1>4. \A v \in Worker, i \in Job : Holds(v, i)' =>
         Holds(v, i) \/ (v = w /\ i = j)
  <2>1. CASE ClaimLost(w, j)
    BY <2>1 DEF ClaimLost, Holds
  <2>2. CASE Claim(w, j)
    <3>1. worker'[w] = [At("claimed", j) EXCEPT !.tries = job[j].retries]
      BY <2>2 DEF Claim, TypeOK, WorkersTypeOK
    <3>2. worker'[w].job = j
      BY <3>1 DEF At, Idle
    <3>3. \A v \in Worker : v # w => worker'[v] = worker[v]
      BY <2>2 DEF Claim, TypeOK, WorkersTypeOK
    <3> QED
      BY <3>2, <3>3 DEF Holds
  <2> QED
    BY <2>1, <2>2
<1> QED
  BY <1>2, <1>3, <1>4 DEF HoldersInv, HeldIsOpen, OneWorkerPerJob

\* A worker's own steps.
LEMMA HoldersWorker ==
    ASSUME TypeOK, HoldersInv, NEW w \in Worker, WorkerStep(w) \/ WorkerFault(w)
    PROVE  HoldersInv'
<1> DEFINE Kept == \A v \in Worker, j \in Job : Holds(v, j)' => Holds(v, j)
           Left == \A v \in Worker, j \in Job : Holds(v, j)' => Holds(v, j) /\ v # w
<1>1. WorkersTypeOK /\ RowsTypeOK
  BY DEF TypeOK
<1>2. Kept /\ UNCHANGED job => HoldersInv'
  BY HoldersKept DEF HoldersInv, HeldIsOpen, OpenRow
<1>3. ASSUME Left, worker[w].pc \in Active,
             \A j \in Job : j # JobOf(w) => job'[j] = job[j]
      PROVE  HoldersInv'
  <2>1. ASSUME NEW v \in Worker, NEW j \in Job, Holds(v, j)'
        PROVE  Holds(v, j) /\ OpenRow(job'[j])
    <3>1. Holds(v, j) /\ v # w
      BY <1>3, <2>1
    <3>2. j # JobOf(w)
      BY <1>3, <3>1 DEF HoldersInv, OneWorkerPerJob, Holds, JobOf
    <3> QED
      BY <1>3, <3>1, <3>2 DEF HoldersInv, HeldIsOpen, OpenRow
  <2> QED
    BY <2>1, HoldersKept
<1>4. CASE Refuse(w) \/ PluginUnavailable(w) \/ UploadFails(w) \/ RecordingFails(w)
  <2>1. worker[w].pc \in Active /\ UNCHANGED job
    BY <1>4 DEF Refuse, PluginUnavailable, UploadFails, RecordingFails, Active, database
  <2>2. CASE \E result \in {"transient", "terminal"} : Fail(w, result)
    BY <1>1, <1>2, <2>1, <2>2, FailHolds
  <2>3. CASE Goto(w, "noting")
    <3>1. Kept
      BY <1>1, <2>1, <2>3 DEF Goto, WorkersTypeOK, WorkerType, Holds, Active
    <3> QED
      BY <1>2, <2>1, <3>1
  <2> QED
    BY <1>4, <2>2, <2>3 DEF Refuse, PluginUnavailable, UploadFails, RecordingFails
<1>5. CASE Resolve(w) \/ Upload(w)
  <2>1. worker[w].pc \in Active /\ UNCHANGED job
    BY <1>5 DEF Resolve, Upload, Active, database
  <2>2. \E r : worker' = [worker EXCEPT ![w] = r] /\ r.job = worker[w].job
    <3>1. CASE Resolve(w)
      <4> DEFINE r == [worker[w] EXCEPT
                         !.pc = "uploading", !.mirror = provider[RowOf(w).dest].mirror,
                         !.target = Sender(RowOf(w).dest)]
      <4>1. worker' = [worker EXCEPT ![w] = r]
        BY <1>1, <3>1 DEF Resolve, WorkersTypeOK
      <4>2. r.job = worker[w].job
        BY <1>1 DEF WorkersTypeOK, WorkerType
      <4> HIDE DEF r
      <4> QED
        BY <4>1, <4>2
    <3>2. CASE Upload(w)
      <4>1. PICK result \in {"verified", "noted"} :
              worker' = [worker EXCEPT ![w] =
                           [worker[w] EXCEPT !.pc = "uploaded", !.mirror = FALSE,
                                             !.result = result]]
        BY <1>1, <3>2 DEF Upload, WorkersTypeOK
      <4> DEFINE r == [worker[w] EXCEPT !.pc = "uploaded", !.mirror = FALSE,
                                        !.result = result]
      <4>2. r.job = worker[w].job
        BY <1>1 DEF WorkersTypeOK, WorkerType
      <4>3. worker' = [worker EXCEPT ![w] = r]
        BY <4>1
      <4> HIDE DEF r
      <4> QED
        BY <4>2, <4>3
    <3> QED
      BY <1>5, <3>1, <3>2
  <2>3. Kept
    BY <1>1, <2>1, <2>2, GoesOn
  <2> QED
    BY <1>2, <2>1, <2>3
<1>6. CASE Interrupted(w) \/ MarkFailedFails(w) \/ TallyFails(w) \/ ScheduleRetry(w) \/ Store(w)
  <2>1. GoIdle(w) /\ UNCHANGED job
    BY <1>6 DEF Interrupted, MarkFailedFails, TallyFails, ScheduleRetry, Store, database
  <2> QED
    BY <1>1, <1>2, <2>1, Released
<1>7. CASE UploadCoolsDown(w)
  <2>1. /\ worker[w].pc \in Active
        /\ GoIdle(w)
        /\ \A j \in Job : j # JobOf(w) => job'[j] = job[j]
    BY <1>7 DEF UploadCoolsDown, Transition, Active
  <2> QED
    BY <1>1, <1>3, <2>1, Released
<1>8. CASE Reload(w)
  <2>1. worker[w].pc \in Active /\ UNCHANGED job
    BY <1>8 DEF Reload, Active, database
  <2>2. Kept
    <3>1. CASE WindUp(w, "tallying")
      BY <1>1, <3>1, Released
    <3>2. CASE Goto(w, "marking")
      BY <1>1, <2>1, <3>2 DEF Goto, WorkersTypeOK, WorkerType, Holds, Active
    <3> QED
      BY <1>8, <3>1, <3>2 DEF Reload
  <2> QED
    BY <1>2, <2>1, <2>2
<1>9. CASE MarkCompleted(w)
  <2>1. /\ worker[w].pc \in Active /\ JobOf(w) \in Job
        /\ \A j \in Job : j # JobOf(w) => job'[j] = job[j]
    BY <1>1, <1>9 DEF MarkCompleted, Active, WorkersTypeOK, RowsTypeOK
  <2>2. CASE worker[w].result # "noted"
    <3>1. WindUp(w, "tallying")
      BY <1>9, <2>2 DEF MarkCompleted
    <3> QED
      BY <1>1, <1>3, <2>1, <3>1, Released
  <2>3. CASE worker[w].result = "noted"
    <3>1. Goto(w, "noting")
      BY <1>9, <2>3 DEF MarkCompleted
    <3>2. Kept
      BY <1>1, <2>1, <3>1 DEF Goto, WorkersTypeOK, WorkerType, Holds, Active
    <3>3. job'[JobOf(w)].status = "completed" /\ job'[JobOf(w)].copy = "noted"
      BY <1>1, <1>9, <2>1, <2>3 DEF MarkCompleted, RowsTypeOK, RowType
    <3>4. ASSUME NEW v \in Worker, NEW j \in Job, Holds(v, j)'
          PROVE  Holds(v, j) /\ OpenRow(job'[j])
      BY <2>1, <3>2, <3>3, <3>4 DEF HoldersInv, HeldIsOpen, OpenRow
    <3> QED
      BY <3>4, HoldersKept
  <2> QED
    BY <2>2, <2>3
<1>10. CASE MarkNote(w) \/ MarkFailed(w)
  <2>1. /\ worker[w].pc \in Active /\ JobOf(w) \in Job
        /\ \A j \in Job : j # JobOf(w) => job'[j] = job[j]
    BY <1>1, <1>10 DEF MarkNote, MarkFailed, Active, WorkersTypeOK, RowsTypeOK
  <2>2. \E pc \in {"tallying", "backingoff"} : WindUp(w, pc)
    BY <1>10 DEF MarkNote, MarkFailed
  <2> QED
    BY <1>1, <1>3, <2>1, <2>2, Released
<1>11. CASE Tally(w)
  <2>1. UNCHANGED job /\ worker[w].pc = "tallying"
    BY <1>11 DEF Tally, database
  <2>2. PICK mirrors \in {Mirrors, {}} :
          worker' = [worker EXCEPT ![w] =
                       [worker[w] EXCEPT !.pc = "storing",
                                         !.agg = Aggregate(RowOf(w).asset, mirrors)]]
    BY <1>1, <1>11 DEF Tally, WorkersTypeOK
  <2>3. worker'[w].pc = "storing"
    BY <1>1, <2>2 DEF WorkersTypeOK, WorkerType
  <2>4. \A v \in Worker : v # w => worker'[v] = worker[v]
    BY <1>1, <2>2 DEF WorkersTypeOK
  <2>5. Kept
    BY <2>3, <2>4 DEF Holds, Active
  <2> QED
    BY <1>2, <2>1, <2>5
<1> QED
  BY <1>4, <1>5, <1>6, <1>7, <1>8, <1>9, <1>10, <1>11 DEF WorkerStep, WorkerFault

\* Every other step: the workers stand still or all fall idle, and no request
\* reopens or completes a held row.
LEMMA HoldersNext ==
    ASSUME TypeOK, QueueInv, [Next]_vars
    PROVE  HoldersInv'
<1> USE DEF TypeOK
<1>1. HoldersInv /\ job \in [Job -> RowType]
  BY DEF QueueInv, HoldersInv, RowsTypeOK
<1>2. UNCHANGED <<job, worker>> => HoldersInv'
  BY <1>1, HoldersKept DEF HoldersInv, HeldIsOpen, OpenRow, Holds
<1>3. (\A v \in Worker : worker'[v] = Idle) => HoldersInv'
  BY DEF HoldersInv, HeldIsOpen, OneWorkerPerJob, Holds, Idle, Active
<1>4. CASE Start
  BY <1>3, <1>4 DEF Start, QueueInv, DownIsIdle
<1>5. CASE Crash \/ StopDone
  BY <1>3, <1>5 DEF Crash, StopDone, LoseMemory
<1>6. ASSUME NEW w \in Worker, NEW j \in Job, Claim(w, j) \/ ClaimLost(w, j)
      PROVE  HoldersInv'
  BY <1>1, <1>6, HoldersClaim
<1>7. ASSUME NEW w \in Worker, WorkerStep(w) \/ WorkerFault(w) PROVE HoldersInv'
  BY <1>1, <1>7, HoldersWorker
<1>8. ASSUME NEW j \in Job, Promote(j) PROVE HoldersInv'
  <2>1. CASE UNCHANGED job
    BY <1>2, <1>8, <2>1 DEF Promote
  <2>2. CASE Transition({j}, {"failed"}, "pending")
    BY <1>1, <1>8, <2>2, GuardedKeepsHolders DEF Promote
  <2> QED
    BY <1>8, <2>1, <2>2 DEF Promote
<1>9. ASSUME NEW a \in Asset, NEW skip \in SUBSET Provider, Import(a, skip)
      PROVE  HoldersInv'
  <2>1. UNCHANGED worker
    BY <1>9 DEF Import
  <2>2. \A j \in Job : Exists(j) => job'[j] = job[j]
    <3>1. PICK row \in [{p \in Provider : provider[p].enabled /\ Accepts(p, a)} -> FreeRows] :
            \A j \in Job :
              (~\E p \in {q \in Provider : provider[q].enabled /\ Accepts(q, a)} : row[p] = j)
                => job'[j] = job[j]
      BY <1>9 DEF Import
    <3> QED
      BY <3>1 DEF FreeRows
  <2>3. ASSUME NEW v \in Worker, NEW j \in Job, Holds(v, j)'
        PROVE  Holds(v, j) /\ OpenRow(job'[j])
    BY <1>1, <2>1, <2>2, <2>3 DEF Holds, HoldersInv, HeldIsOpen, OpenRow, Exists
  <2> QED
    BY <1>1, <2>3, HoldersKept
<1>10. CASE QueueRequest
  <2>1. UNCHANGED worker
    BY <1>10 DEF QueueRequest, Pause, Resume, Retry, RetryAllFailed, Cancel,
       CancelAllPending, RequeueOptedOut
  <2>2. CASE \E S : Reopen(S)
    <3>1. ASSUME NEW v \in Worker, NEW j \in Job, Holds(v, j)'
          PROVE  Holds(v, j) /\ OpenRow(job'[j])
      BY <1>1, <2>1, <2>2, <3>1 DEF Holds, HoldersInv, HeldIsOpen, OpenRow, Reopen
    <3> QED
      BY <1>1, <3>1, HoldersKept
  <2>3. CASE \E S : \/ Transition(S, {"pending"}, "paused")
                    \/ Transition(S, {"paused"}, "pending")
                    \/ Transition(S, {"opted_out"}, "pending")
                    \/ Transition(S, {"pending", "paused"}, "cancelled")
                    \/ Transition(S, Cancellable, "cancelled")
    BY <1>1, <2>1, <2>3, GuardedKeepsHolders DEF Cancellable
  <2> QED
    BY <1>10, <2>2, <2>3 DEF QueueRequest, Pause, Resume, Retry, RetryAllFailed, Cancel,
       CancelAllPending, RequeueOptedOut
<1>11. CASE ReconcileCancels
  <2>1. UNCHANGED worker
    BY <1>11 DEF ReconcileCancels
  <2>2. CASE UNCHANGED job
    BY <1>2, <2>1, <2>2
  <2>3. CASE \E S : Transition(S, {"pending", "paused"}, "cancelled")
    BY <1>1, <2>1, <2>3, GuardedKeepsHolders
  <2> QED
    BY <1>11, <2>2, <2>3 DEF ReconcileCancels
<1>12. ASSUME NEW a \in Asset, BackfillPage(a) PROVE HoldersInv'
  <2>1. UNCHANGED worker
    BY <1>12 DEF BackfillPage
  <2>2. \A j \in Job : Exists(j) => job'[j] = job[j]
    BY <1>1, <1>12 DEF BackfillPage, FreeRows
  <2>3. ASSUME NEW v \in Worker, NEW j \in Job, Holds(v, j)'
        PROVE  Holds(v, j) /\ OpenRow(job'[j])
    BY <1>1, <2>1, <2>2, <2>3 DEF Holds, HoldersInv, HeldIsOpen, OpenRow, Exists
  <2> QED
    BY <1>1, <2>3, HoldersKept
<1>13. CASE \/ UNCHANGED vars \/ Stop \/ PromoteSnapshot
            \/ \E p \in Provider : CooldownEnds(p)
            \/ ForegroundBegins \/ ForegroundEnds
            \/ \E p \in Provider, config \in Config : UpdateProvider(p, config)
            \/ \E a \in Asset : DeleteAsset(a)
            \/ \E p \in Provider, reconcile \in BOOLEAN : StartBackfill(p, reconcile)
            \/ BackfillEnds
  BY <1>2, <1>13 DEF vars, Stop, PromoteSnapshot, CooldownEnds, ForegroundBegins,
     ForegroundEnds, UpdateProvider, DeleteAsset, StartBackfill, BackfillEnds, database
<1> QED
  BY <1>4, <1>5, <1>6, <1>7, <1>8, <1>9, <1>10, <1>11, <1>12, <1>13
     DEF Next, BackfillStep

------------------------------------------------------------------------------
(* What one step may do to a row *)

SameJob(j) ==
    /\ job'[j].asset = job[j].asset
    /\ job'[j].dest = job[j].dest

Created(j) ==
    /\ ~Exists(j)
    /\ job'[j].status \in {"pending", "opted_out"}
    /\ job'[j].copy = "none"

Moved(j) ==
    /\ job[j].status \in {"pending", "running", "paused", "failed", "opted_out"}
    /\ job'[j].status \in {"pending", "running", "paused", "cancelled"}
    /\ SameJob(j)
    /\ job'[j].copy = job[j].copy

MarkedCompleted(j) ==
    \E w \in Worker :
        /\ worker[w].pc = "marking" /\ JobOf(w) = j
        /\ job'[j].status = "completed"
        /\ SameJob(j)
        /\ job'[j].copy = IF worker[w].result = "noted" THEN "noted" ELSE worker[w].target

MarkedNoted(j) ==
    \E w \in Worker :
        /\ worker[w].pc = "noting" /\ JobOf(w) = j
        /\ job'[j].status = "completed"
        /\ SameJob(j)
        /\ job'[j].copy = "noted"

MarkedFailed(j) ==
    \E w \in Worker :
        /\ worker[w].pc = "failing" /\ JobOf(w) = j
        /\ job'[j].status = "failed"
        /\ SameJob(j)
        /\ job'[j].copy = job[j].copy

RowStep(j) ==
    \/ job'[j] = job[j]
    \/ Created(j) \/ Moved(j)
    \/ MarkedCompleted(j) \/ MarkedNoted(j) \/ MarkedFailed(j)

\* A guarded update moves rows or leaves them alone.
LEMMA TransitionMoves ==
    ASSUME RowsTypeOK, NEW S, NEW from,
           from \subseteq {"pending", "running", "paused", "failed", "opted_out"},
           NEW to \in {"pending", "running", "paused", "cancelled"},
           Transition(S, from, to), NEW j \in Job
    PROVE  RowStep(j)
<1>1. job[j] \in RowType
  BY DEF RowsTypeOK
<1>2. CASE j \in S /\ job[j].status \in from
  <2>1. job'[j] = [job[j] EXCEPT !.status = to]
    BY <1>2 DEF Transition
  <2> QED
    BY <1>1, <1>2, <2>1 DEF RowType, RowStep, Moved, SameJob
<1>3. CASE ~(j \in S /\ job[j].status \in from)
  BY <1>3 DEF Transition, RowStep
<1> QED
  BY <1>2, <1>3

LEMMA ReopenMoves ==
    ASSUME RowsTypeOK, NEW S, Reopen(S), NEW j \in Job
    PROVE  RowStep(j)
<1>1. job[j] \in RowType
  BY DEF RowsTypeOK
<1>2. CASE j \in S /\ job[j].status = "failed"
  <2>1. job'[j] = [job[j] EXCEPT !.status = "pending", !.again = job[j].again + 1]
    BY <1>2 DEF Reopen
  <2> QED
    BY <1>1, <1>2, <2>1 DEF RowType, RowStep, Moved, SameJob
<1>3. CASE ~(j \in S /\ job[j].status = "failed")
  BY <1>3 DEF Reopen, RowStep
<1> QED
  BY <1>2, <1>3

\* The three updates by id alone are made by a worker at its place.
LEMMA MarkMoves ==
    ASSUME TypeOK, NEW w \in Worker, MarkCompleted(w) \/ MarkNote(w) \/ MarkFailed(w),
           NEW j \in Job
    PROVE  RowStep(j)
<1>1. JobOf(w) \in Job /\ job[JobOf(w)] \in RowType /\ job \in [Job -> RowType]
  BY DEF TypeOK, WorkersTypeOK, RowsTypeOK, MarkCompleted, MarkNote, MarkFailed
<1>2. CASE j # JobOf(w)
  BY <1>1, <1>2 DEF MarkCompleted, MarkNote, MarkFailed, RowStep
<1>3. CASE j = JobOf(w) /\ MarkCompleted(w)
  <2> DEFINE left == IF worker[w].result = "noted" THEN "noted" ELSE worker[w].target
  <2>1. job'[j] = [job[j] EXCEPT !.status = "completed", !.copy = left]
    BY <1>1, <1>3 DEF MarkCompleted
  <2> HIDE DEF left
  <2>2. job'[j].status = "completed" /\ SameJob(j) /\ job'[j].copy = left
    BY <1>1, <1>3, <2>1 DEF RowType, SameJob
  <2> QED
    BY <1>3, <2>2 DEF MarkCompleted, MarkedCompleted, RowStep, left
<1>4. CASE j = JobOf(w) /\ MarkNote(w)
  <2>1. job'[j] = [job[j] EXCEPT !.status = "completed", !.copy = "noted"]
    BY <1>1, <1>4 DEF MarkNote
  <2>2. job'[j].status = "completed" /\ SameJob(j) /\ job'[j].copy = "noted"
    BY <1>1, <1>4, <2>1 DEF RowType, SameJob
  <2> QED
    BY <1>4, <2>2 DEF MarkNote, MarkedNoted, RowStep
<1>5. CASE j = JobOf(w) /\ MarkFailed(w)
  <2>1. job'[j] = [job[j] EXCEPT !.status = "failed", !.retries = job[j].retries + 1]
    BY <1>1, <1>5 DEF MarkFailed
  <2>2. job'[j].status = "failed" /\ SameJob(j) /\ job'[j].copy = job[j].copy
    BY <1>1, <1>5, <2>1 DEF RowType, SameJob
  <2> QED
    BY <1>5, <2>2 DEF MarkFailed, MarkedFailed, RowStep
<1> QED
  BY <1>2, <1>3, <1>4, <1>5

\* New rows are pending or opted out, on identifiers that were free.
LEMMA CreateMoves ==
    ASSUME TypeOK, NEW j \in Job,
           \/ \E a \in Asset, skip \in SUBSET Provider : Import(a, skip)
           \/ \E a \in Asset : BackfillPage(a)
    PROVE  RowStep(j)
<1> USE DEF TypeOK
<1>1. ASSUME NEW a \in Asset, NEW skip \in SUBSET Provider, Import(a, skip)
      PROVE  RowStep(j)
  <2> DEFINE into == {p \in Provider : provider[p].enabled /\ Accepts(p, a)}
             Status(p) == IF p \in skip THEN "opted_out" ELSE "pending"
  <2>1. PICK row \in [into -> FreeRows] :
          job' = [i \in Job |->
                    IF \E p \in into : row[p] = i
                    THEN NewRow(a, CHOOSE q \in into : row[q] = i,
                                Status(CHOOSE q \in into : row[q] = i))
                    ELSE job[i]]
    BY <1>1 DEF Import
  <2>2. CASE \E p \in into : row[p] = j
    <3>1. PICK p \in into : job'[j] = NewRow(a, p, Status(p))
      BY <2>1, <2>2
    <3>2. ~Exists(j)
      BY <2>1, <2>2 DEF FreeRows
    <3>3. Status(p) \in {"pending", "opted_out"}
      OBVIOUS
    <3> QED
      BY <3>1, <3>2, <3>3, NewRowType DEF Created, RowStep, JobStatus
  <2>3. CASE ~\E p \in into : row[p] = j
    BY <2>1, <2>3 DEF RowStep
  <2> QED
    BY <2>2, <2>3
<1>2. ASSUME NEW a \in Asset, BackfillPage(a) PROVE RowStep(j)
  <2>1. backfill.dest \in Provider
    BY <1>2 DEF BackfillPage, MemoryTypeOK
  <2>2. CASE UNCHANGED job
    BY <2>2 DEF RowStep
  <2>3. ASSUME NEW i \in FreeRows, job' = [job EXCEPT ![i] = NewRow(a, backfill.dest, "pending")]
        PROVE  RowStep(j)
    BY <2>1, <2>3, NewRowType DEF RowsTypeOK, FreeRows, RowStep, Created, JobStatus
  <2> QED
    BY <1>2, <2>2, <2>3 DEF BackfillPage
<1> QED
  BY <1>1, <1>2

\* Every step of the system does one of these things to a row.
LEMMA RowSteps ==
    ASSUME TypeOK, [Next]_vars, NEW j \in Job
    PROVE  RowStep(j)
<1>1. RowsTypeOK
  BY DEF TypeOK
<1>2. CASE UNCHANGED job
  BY <1>2 DEF RowStep
<1>3. CASE Start \/ StopDone
  BY <1>1, <1>3, TransitionMoves DEF Start, StopDone, ResetRunning
<1>4. CASE \E w \in Worker, i \in Job : Claim(w, i) \/ ClaimLost(w, i)
  BY <1>1, <1>4, TransitionMoves DEF Claim, ClaimLost
<1>5. ASSUME NEW w \in Worker, WorkerStep(w) \/ WorkerFault(w) PROVE RowStep(j)
  <2>1. CASE MarkCompleted(w) \/ MarkNote(w) \/ MarkFailed(w)
    BY <2>1, MarkMoves
  <2>2. CASE UploadCoolsDown(w)
    BY <1>1, <1>2, <2>2, TransitionMoves DEF UploadCoolsDown
  <2>3. CASE \/ Refuse(w) \/ PluginUnavailable(w) \/ Resolve(w) \/ Upload(w)
             \/ UploadFails(w) \/ Interrupted(w) \/ Reload(w) \/ ScheduleRetry(w)
             \/ Tally(w) \/ Store(w) \/ WorkerFault(w)
    BY <1>2, <2>3 DEF Refuse, PluginUnavailable, Resolve, Upload, UploadFails, Interrupted,
       Reload, ScheduleRetry, Tally, Store, WorkerFault, RecordingFails, MarkFailedFails,
       TallyFails, database
  <2> QED
    BY <1>5, <2>1, <2>2, <2>3 DEF WorkerStep
<1>6. CASE \E i \in Job : Promote(i)
  BY <1>1, <1>2, <1>6, TransitionMoves DEF Promote
<1>7. CASE \/ \E a \in Asset, skip \in SUBSET Provider : Import(a, skip)
           \/ \E a \in Asset : BackfillPage(a)
  BY <1>7, CreateMoves
<1>8. CASE QueueRequest
  BY <1>1, <1>8, TransitionMoves, ReopenMoves DEF QueueRequest, Pause, Resume, Retry,
     RetryAllFailed, Cancel, Cancellable, CancelAllPending, RequeueOptedOut
<1>9. CASE ReconcileCancels
  BY <1>1, <1>2, <1>9, TransitionMoves DEF ReconcileCancels
<1>10. CASE \/ UNCHANGED vars \/ Crash \/ Stop \/ PromoteSnapshot
            \/ \E p \in Provider : CooldownEnds(p)
            \/ ForegroundBegins \/ ForegroundEnds
            \/ \E p \in Provider, config \in Config : UpdateProvider(p, config)
            \/ \E a \in Asset : DeleteAsset(a)
            \/ \E p \in Provider, reconcile \in BOOLEAN : StartBackfill(p, reconcile)
            \/ BackfillEnds
  BY <1>2, <1>10 DEF vars, Crash, Stop, PromoteSnapshot, CooldownEnds, ForegroundBegins,
     ForegroundEnds, UpdateProvider, DeleteAsset, StartBackfill, BackfillEnds, database
<1> QED
  BY <1>3, <1>4, <1>5, <1>6, <1>7, <1>8, <1>9, <1>10 DEF Next, BackfillStep

------------------------------------------------------------------------------
(* Where a worker arrives *)

\* Only Tally brings a worker to storing.
LEMMA Arrives ==
    ASSUME TypeOK, [Next]_vars, NEW w \in Worker, worker'[w].pc = "storing"
    PROVE  worker'[w] = worker[w] \/ Tally(w)
<1>1. WorkersTypeOK
  BY DEF TypeOK
<1>2. worker'[w] # Idle
  BY DEF Idle
<1>3. CASE UNCHANGED worker
  BY <1>3
<1>4. CASE Crash \/ StopDone
  BY <1>2, <1>4 DEF Crash, StopDone, LoseMemory
<1>5. ASSUME NEW v \in Worker, NEW j \in Job, Claim(v, j) \/ ClaimLost(v, j)
      PROVE  worker'[w] = worker[w]
  <2>1. CASE ClaimLost(v, j)
    BY <2>1 DEF ClaimLost
  <2>2. CASE Claim(v, j)
    <3>1. CASE v = w
      <4>1. worker'[w] = [At("claimed", j) EXCEPT !.tries = job[j].retries]
        BY <1>1, <2>2, <3>1 DEF Claim, WorkersTypeOK
      <4> QED
        BY <4>1 DEF At, Idle
    <3>2. CASE v # w
      BY <1>1, <2>2, <3>2 DEF Claim, WorkersTypeOK
    <3> QED
      BY <3>1, <3>2
  <2> QED
    BY <1>5, <2>1, <2>2
<1>6. ASSUME NEW v \in Worker, WorkerStep(v) \/ WorkerFault(v), v # w
      PROVE  worker'[w] = worker[w]
  <2>1. \E r : worker' = [worker EXCEPT ![v] = r]
    <3>1. CASE Refuse(v) \/ PluginUnavailable(v) \/ UploadFails(v) \/ RecordingFails(v)
      BY <3>1 DEF Refuse, PluginUnavailable, UploadFails, RecordingFails, Fail, Goto
    <3>2. CASE \/ UploadCoolsDown(v) \/ Interrupted(v) \/ MarkFailedFails(v)
               \/ ScheduleRetry(v) \/ Store(v) \/ TallyFails(v)
      BY <3>2 DEF UploadCoolsDown, Interrupted, MarkFailedFails, ScheduleRetry, Store,
         TallyFails, GoIdle
    <3>3. CASE Resolve(v) \/ Upload(v) \/ Tally(v)
      BY <3>3 DEF Resolve, Upload, Tally
    <3>4. CASE Reload(v) \/ MarkCompleted(v) \/ MarkNote(v) \/ MarkFailed(v)
      BY <3>4 DEF Reload, MarkCompleted, MarkNote, MarkFailed, WindUp, Goto
    <3> QED
      BY <1>6, <3>1, <3>2, <3>3, <3>4 DEF WorkerStep, WorkerFault
  <2> QED
    BY <1>1, <1>6, <2>1 DEF WorkersTypeOK
<1>7. CASE WorkerStep(w) \/ WorkerFault(w)
  <2>1. CASE Refuse(w) \/ PluginUnavailable(w) \/ UploadFails(w) \/ RecordingFails(w)
    <3>1. (\E result : Fail(w, result)) \/ Goto(w, "noting")
      BY <2>1 DEF Refuse, PluginUnavailable, UploadFails, RecordingFails
    <3>2. worker'[w] = Idle \/ worker'[w].pc \in {"failing", "noting"}
      BY ZenonT(60), <1>1, <3>1 DEF Fail, Goto, At, Idle, WorkersTypeOK, WorkerType
    <3> QED
      BY <1>2, <3>2
  <2>2. CASE \/ UploadCoolsDown(w) \/ Interrupted(w) \/ MarkFailedFails(w)
             \/ ScheduleRetry(w) \/ Store(w) \/ TallyFails(w)
    BY <1>1, <1>2, <2>2 DEF UploadCoolsDown, Interrupted, MarkFailedFails, ScheduleRetry,
       Store, TallyFails, GoIdle, WorkersTypeOK
  <2>3. CASE Resolve(w)
    <3>1. worker'[w].pc = "uploading"
      BY <1>1, <2>3 DEF Resolve, WorkersTypeOK, WorkerType
    <3> QED
      BY <3>1
  <2>4. CASE Upload(w)
    <3>1. worker'[w].pc = "uploaded"
      BY <1>1, <2>4 DEF Upload, WorkersTypeOK, WorkerType
    <3> QED
      BY <3>1
  <2>5. CASE Tally(w)
    BY <2>5
  <2>6. ASSUME NEW pc \in {"tallying", "backingoff"}, WindUp(w, pc)
        PROVE  FALSE
    <3>1. worker'[w] = At(pc, worker[w].job)
      BY <1>1, <2>6 DEF WindUp, WorkersTypeOK
    <3>2. At(pc, worker[w].job).pc = pc
      BY DEF At, Idle
    <3> QED
      BY <2>6, <3>1, <3>2
  <2>7. CASE Reload(w)
    <3>1. Goto(w, "marking") => worker'[w].pc = "marking"
      BY <1>1 DEF Goto, WorkersTypeOK, WorkerType
    <3> QED
      BY <2>6, <2>7, <3>1 DEF Reload
  <2>8. CASE MarkCompleted(w)
    <3>1. Goto(w, "noting") => worker'[w].pc = "noting"
      BY <1>1 DEF Goto, WorkersTypeOK, WorkerType
    <3> QED
      BY <2>6, <2>8, <3>1 DEF MarkCompleted
  <2>9. CASE MarkNote(w) \/ MarkFailed(w)
    BY <2>6, <2>9 DEF MarkNote, MarkFailed
  <2> QED
    BY <1>7, <2>1, <2>2, <2>3, <2>4, <2>5, <2>7, <2>8, <2>9 DEF WorkerStep, WorkerFault
<1>8. CASE \/ Start \/ Stop \/ PromoteSnapshot \/ \E j \in Job : Promote(j)
           \/ \E p \in Provider : CooldownEnds(p)
           \/ ForegroundBegins \/ ForegroundEnds
           \/ \E a \in Asset, skip \in SUBSET Provider : Import(a, skip)
           \/ QueueRequest
           \/ \E p \in Provider, config \in Config : UpdateProvider(p, config)
           \/ \E a \in Asset : DeleteAsset(a)
           \/ BackfillStep
  BY <1>3, <1>8 DEF Start, Stop, PromoteSnapshot, Promote, CooldownEnds, ForegroundBegins,
     ForegroundEnds, Import, QueueRequest, Pause, Resume, Retry, RetryAllFailed, Cancel,
     CancelAllPending, RequeueOptedOut, UpdateProvider, DeleteAsset, BackfillStep,
     StartBackfill, ReconcileCancels, BackfillPage, BackfillEnds
<1> QED
  BY <1>3, <1>4, <1>5, <1>6, <1>7, <1>8 DEF Next, vars

\* The process is down only with its workers gone.
LEMMA DownNext ==
    ASSUME TypeOK, QueueInv, [Next]_vars
    PROVE  DownIsIdle'
<1>1. DownIsIdle
  BY DEF QueueInv
<1>2. CASE UNCHANGED <<phase, worker>>
  BY <1>1, <1>2 DEF DownIsIdle
<1>3. CASE Crash \/ StopDone
  BY <1>3 DEF Crash, StopDone, LoseMemory, DownIsIdle
<1>4. CASE Start \/ Stop
  BY <1>4 DEF Start, Stop, DownIsIdle
<1>5. ASSUME NEW w \in Worker, NEW j \in Job, Claim(w, j) \/ ClaimLost(w, j)
      PROVE  DownIsIdle'
  BY <1>5 DEF Claim, ClaimLost, Claimable, DownIsIdle
<1>6. ASSUME NEW w \in Worker, WorkerStep(w) \/ WorkerFault(w)
      PROVE  DownIsIdle'
  <2>1. worker[w].pc # "idle"
    BY <1>6 DEF WorkerStep, WorkerFault, Refuse, PluginUnavailable, Resolve, Upload,
       UploadFails, UploadCoolsDown, Interrupted, Reload, MarkCompleted, MarkNote,
       MarkFailed, ScheduleRetry, Tally, Store, RecordingFails, MarkFailedFails, TallyFails
  <2>2. phase # "down"
    BY <1>1, <2>1 DEF DownIsIdle, Idle
  <2>3. phase' = phase
    BY <1>6 DEF WorkerStep, WorkerFault, Refuse, PluginUnavailable, Resolve, Upload,
       UploadFails, UploadCoolsDown, Interrupted, Reload, MarkCompleted, MarkNote,
       MarkFailed, ScheduleRetry, Tally, Store, RecordingFails, MarkFailedFails, TallyFails
  <2> QED
    BY <2>2, <2>3 DEF DownIsIdle
<1>7. CASE \/ UNCHANGED vars \/ PromoteSnapshot \/ \E j \in Job : Promote(j)
           \/ \E p \in Provider : CooldownEnds(p)
           \/ ForegroundBegins \/ ForegroundEnds
           \/ \E a \in Asset, skip \in SUBSET Provider : Import(a, skip)
           \/ QueueRequest
           \/ \E p \in Provider, config \in Config : UpdateProvider(p, config)
           \/ \E a \in Asset : DeleteAsset(a)
           \/ BackfillStep
  BY <1>2, <1>7 DEF vars, PromoteSnapshot, Promote, CooldownEnds, ForegroundBegins,
     ForegroundEnds, Import, QueueRequest, Pause, Resume, Retry, RetryAllFailed, Cancel,
     CancelAllPending, RequeueOptedOut, UpdateProvider, DeleteAsset, BackfillStep,
     StartBackfill, ReconcileCancels, BackfillPage, BackfillEnds
<1> QED
  BY <1>3, <1>4, <1>5, <1>6, <1>7 DEF Next

------------------------------------------------------------------------------
(* Custody: copies are never taken back, and green follows them *)

\* A row a worker is on keeps its asset, and its copy unless it is marked.
LEMMA HeldRow ==
    ASSUME TypeOK, [Next]_vars, NEW w \in Worker, worker[w].pc # "idle"
    PROVE  /\ JobOf(w) \in Job
           /\ job'[JobOf(w)].asset = job[JobOf(w)].asset
<1>1. JobOf(w) \in Job /\ Exists(JobOf(w))
  BY DEF TypeOK, WorkersTypeOK
<1>2. RowStep(JobOf(w))
  BY <1>1, RowSteps
<1> QED
  BY <1>1, <1>2 DEF RowStep, Created, Moved, MarkedCompleted, MarkedNoted, MarkedFailed, SameJob

\* What a recorded completion left is not "none".
LEMMA MarkLeavesCopy ==
    ASSUME TypeOK, NEW j \in Job, MarkedCompleted(j)
    PROVE  job'[j].copy # "none"
<1>1. PICK w \in Worker :
        /\ worker[w].pc = "marking"
        /\ job'[j].copy = IF worker[w].result = "noted" THEN "noted" ELSE worker[w].target
  BY DEF MarkedCompleted
<1>2. worker[w].target \in Target
  BY <1>1 DEF TypeOK, WorkersTypeOK, Sending
<1> QED
  BY <1>1, <1>2, NoneAssumption

LEMMA CompletedNext ==
    ASSUME TypeOK, QueueInv, [Next]_vars
    PROVE  CompletedHasCopy'
<1>1. ASSUME NEW j \in Job, job'[j].status = "completed"
      PROVE  job'[j].copy # "none"
  <2>1. RowStep(j)
    BY RowSteps
  <2>2. CASE job'[j] = job[j]
    BY <1>1, <2>2 DEF QueueInv, CompletedHasCopy
  <2>3. CASE Created(j) \/ Moved(j) \/ MarkedFailed(j)
    BY <1>1, <2>3 DEF Created, Moved, MarkedFailed
  <2>4. CASE MarkedCompleted(j)
    BY <2>4, MarkLeavesCopy
  <2>5. CASE MarkedNoted(j)
    BY <2>5 DEF MarkedNoted
  <2> QED
    BY <2>1, <2>2, <2>3, <2>4, <2>5 DEF RowStep
<1> QED
  BY <1>1 DEF CompletedHasCopy

\* Custody is never lost.
LEMMA CustodyStays ==
    ASSUME TypeOK, [Next]_vars, NEW a \in Asset, HasCustody(a)
    PROVE  HasCustody(a)'
<1>1. PICK j \in Job : Exists(j) /\ job[j].asset = a /\ job[j].copy # "none"
  BY DEF HasCustody, JobsOf
<1>2. RowStep(j)
  BY RowSteps
<1>3. job'[j].status # "absent" /\ job'[j].asset = a /\ job'[j].copy # "none"
  BY <1>1, <1>2, MarkLeavesCopy DEF Exists, RowStep, Created, Moved, MarkedCompleted,
     MarkedNoted, MarkedFailed, SameJob
<1> QED
  BY <1>3 DEF HasCustody, JobsOf, Exists

\* An aggregate is complete only over a completed job, whatever mirrors are read.
LEMMA AggregateComplete ==
    ASSUME NEW a, NEW mirrors, CompletedHasCopy, Aggregate(a, mirrors) = "complete"
    PROVE  HasCustody(a)
<1> DEFINE required == Required(a, mirrors)
           With(s)  == {j \in required : job[j].status = s}
<1>1. required # {} /\ With("completed") = required
  BY DEF Aggregate
<1>2. PICK j \in required : job[j].status = "completed"
  BY <1>1
<1> QED
  BY <1>2 DEF Required, JobsOf, HasCustody, CompletedHasCopy

\* Green is written by Store alone.
LEMMA GreenByStore ==
    ASSUME TypeOK, [Next]_vars, NEW a \in Asset, backup'[a] = "complete"
    PROVE  \/ backup[a] = "complete"
           \/ \E w \in Worker : /\ worker[w].pc = "storing"
                                /\ worker[w].agg = "complete"
                                /\ RowOf(w).asset = a
<1>1. backup \in [Asset -> BackupStatus]
  BY DEF TypeOK, CatalogTypeOK
<1>2. CASE UNCHANGED backup
  BY <1>2
<1>3. ASSUME NEW w \in Worker, Store(w)
      PROVE  \/ backup[a] = "complete"
             \/ /\ worker[w].pc = "storing" /\ worker[w].agg = "complete"
                /\ RowOf(w).asset = a
  BY <1>1, <1>3 DEF Store
<1>4. ASSUME NEW b \in Asset, NEW skip \in SUBSET Provider, Import(b, skip)
      PROVE  backup[a] = "complete"
  BY <1>1, <1>4 DEF Import
<1>5. CASE \/ Start \/ Crash \/ Stop \/ StopDone
           \/ \E w \in Worker, j \in Job : Claim(w, j) \/ ClaimLost(w, j)
           \/ PromoteSnapshot \/ \E j \in Job : Promote(j)
           \/ \E p \in Provider : CooldownEnds(p)
           \/ ForegroundBegins \/ ForegroundEnds
           \/ QueueRequest
           \/ \E p \in Provider, config \in Config : UpdateProvider(p, config)
           \/ \E b \in Asset : DeleteAsset(b)
           \/ BackfillStep
  BY <1>2, <1>5 DEF Start, Crash, Stop, StopDone, Claim, ClaimLost, PromoteSnapshot,
     Promote, CooldownEnds, ForegroundBegins, ForegroundEnds, QueueRequest, Pause, Resume,
     Retry, RetryAllFailed, Cancel, CancelAllPending, RequeueOptedOut, UpdateProvider,
     DeleteAsset, BackfillStep, StartBackfill, ReconcileCancels, BackfillPage,
     BackfillEnds, database
<1>6. ASSUME NEW w \in Worker, WorkerStep(w) \/ WorkerFault(w), ~Store(w)
      PROVE  UNCHANGED backup
  BY <1>6 DEF WorkerStep, WorkerFault, Refuse, PluginUnavailable, Resolve, Upload,
     UploadFails, UploadCoolsDown, Interrupted, Reload, MarkCompleted, MarkNote,
     MarkFailed, ScheduleRetry, Tally, RecordingFails, MarkFailedFails, TallyFails, database
<1> QED
  BY <1>2, <1>3, <1>4, <1>5, <1>6 DEF Next, vars, database

LEMMA TallyNext ==
    ASSUME TypeOK, QueueInv, [Next]_vars
    PROVE  TallyHasCustody'
<1>1. ASSUME NEW w \in Worker, worker'[w].pc = "storing", worker'[w].agg = "complete"
      PROVE  HasCustody(RowOf(w).asset)'
  <2>1. /\ worker[w].pc # "idle"
        /\ worker'[w].job = worker[w].job
        /\ HasCustody(RowOf(w).asset)
    <3>1. CASE worker'[w] = worker[w]
      BY <1>1, <3>1 DEF QueueInv, TallyHasCustody
    <3>2. CASE Tally(w)
      <4>1. PICK mirrors \in {Mirrors, {}} :
              worker' = [worker EXCEPT ![w] =
                           [worker[w] EXCEPT !.pc = "storing",
                                             !.agg = Aggregate(RowOf(w).asset, mirrors)]]
        BY <3>2 DEF Tally, TypeOK, WorkersTypeOK
      <4>2. /\ worker'[w].agg = Aggregate(RowOf(w).asset, mirrors)
            /\ worker'[w].job = worker[w].job
        BY <4>1 DEF TypeOK, WorkersTypeOK, WorkerType
      <4>3. HasCustody(RowOf(w).asset)
        BY <1>1, <4>2, AggregateComplete DEF QueueInv
      <4> QED
        BY <3>2, <4>2, <4>3 DEF Tally
    <3> QED
      BY <1>1, <3>1, <3>2, Arrives
  <2>2. /\ JobOf(w) \in Job
        /\ job'[JobOf(w)].asset = job[JobOf(w)].asset
    BY <2>1, HeldRow
  <2>3. PICK a \in Asset : a = job[JobOf(w)].asset
    BY <2>1 DEF TypeOK, WorkersTypeOK, RowsTypeOK
  <2>4. HasCustody(a)'
    BY <2>1, <2>3, CustodyStays DEF RowOf
  <2>5. job'[worker'[w].job].asset = a
    BY <2>1, <2>2, <2>3 DEF JobOf
  <2> QED
    BY <2>4, <2>5 DEF RowOf, JobOf, HasCustody, JobsOf, Exists
<1> QED
  BY <1>1 DEF TallyHasCustody

LEMMA GreenNext ==
    ASSUME TypeOK, QueueInv, [Next]_vars
    PROVE  GreenHasCustody'
<1>1. ASSUME NEW a \in Asset, backup'[a] = "complete"
      PROVE  HasCustody(a)'
  <2>1. HasCustody(a)
    BY <1>1, GreenByStore DEF QueueInv, GreenHasCustody, TallyHasCustody
  <2> QED
    BY <2>1, CustodyStays
<1> QED
  BY <1>1 DEF GreenHasCustody

------------------------------------------------------------------------------
(* The theorems *)

LEMMA QueueInvInit ==
    ASSUME Init
    PROVE  QueueInv
<1>1. \A w \in Worker : worker[w] = Idle
  BY DEF Init
<1>2. \A j \in Job : job[j].status = "absent"
  BY DEF Init, NoRow
<1>3. \A a \in Asset : backup[a] = "none"
  BY DEF Init
<1>4. Idle.pc = "idle"
  BY DEF Idle
<1> QED
  BY <1>1, <1>2, <1>3, <1>4 DEF QueueInv, HeldIsOpen, OneWorkerPerJob, DownIsIdle,
     CompletedHasCopy, TallyHasCustody, GreenHasCustody, Holds, Active

LEMMA QueueInvNext ==
    ASSUME TypeOK, QueueInv, [Next]_vars
    PROVE  QueueInv'
  BY HoldersNext, DownNext, CompletedNext, TallyNext, GreenNext
     DEF QueueInv, HoldersInv

\* The inductive invariant holds of the whole queue, for any number of assets,
\* providers, workers, jobs, requests, failed statements and restarts.
THEOREM QueueInvCorrect == Spec => []QueueInv
<1>1. Init => QueueInv
  BY QueueInvInit
<1>2. TypeOK /\ QueueInv /\ [Next]_vars => QueueInv'
  BY QueueInvNext
<1> QED
  BY <1>1, <1>2, TypeCorrect, PTL DEF Spec

\* No two workers ever process the same job (BackupRepo.ClaimNextForProvider and
\* the status guards of every requeue).
THEOREM OneWorkerPerJobCorrect == Spec => []OneWorkerPerJob
<1>1. QueueInv => OneWorkerPerJob
  BY DEF QueueInv
<1> QED
  BY <1>1, QueueInvCorrect, PTL

\* An asset stored as complete has a job whose completion was recorded
\* (Manager.recomputeAsset and AggregateBackupStatus).
THEOREM GreenHasCustodyCorrect == Spec => []GreenHasCustody
<1>1. QueueInv => GreenHasCustody
  BY DEF QueueInv
<1> QED
  BY <1>1, QueueInvCorrect, PTL

\* A step takes no verified completion back: MarkFailed by id alone cannot,
\* since a worker never holds a job whose completion was verified.
LEMMA CompletedStays ==
    ASSUME TypeOK, QueueInv, [Next]_vars, NEW j \in Job,
           job[j].status = "completed", job[j].copy \in Target
    PROVE  job'[j].status = "completed"
<1>1. RowStep(j)
  BY RowSteps
<1>2. job[j].copy # "noted"
  BY NoneAssumption
<1>3. \A w \in Worker : ~Holds(w, j)
  BY <1>2 DEF QueueInv, HeldIsOpen
<1>4. ~MarkedFailed(j)
  BY <1>3 DEF MarkedFailed, Holds, Active, JobOf
<1> QED
  BY <1>1, <1>4 DEF RowStep, Created, Moved, MarkedCompleted, MarkedNoted, Exists

\* A completion that left a verified copy is final (Manager.handle's guards and
\* the repository's).
THEOREM CompletedIsFinalCorrect == Spec => CompletedIsFinal
<1>1. TypeOK /\ QueueInv /\ [Next]_vars =>
        [\A j \in Job : job[j].status = "completed" /\ job[j].copy \in Target
                          => job'[j].status = "completed"]_vars
  BY CompletedStays
<1> QED
  BY <1>1, TypeCorrect, QueueInvCorrect, PTL DEF Spec, CompletedIsFinal

\* Only the worker that holds a cancelled job can move it out of cancelled: the
\* three updates by id alone are its own.
LEMMA CancelledStays ==
    ASSUME TypeOK, [Next]_vars, NEW j \in Job,
           job[j].status = "cancelled", job'[j].status # "cancelled"
    PROVE  \E w \in Worker : Holds(w, j)
<1>1. RowStep(j)
  BY RowSteps
<1> QED
  BY <1>1 DEF RowStep, Created, Moved, MarkedCompleted, MarkedNoted, MarkedFailed, Exists,
     Holds, Active, JobOf

\* Cancelling a job that no worker is processing sticks (BackupRepo.Cancel).
THEOREM IdleCancelSticksCorrect == Spec => IdleCancelSticks
<1>1. TypeOK /\ [Next]_vars =>
        [\A j \in Job : job[j].status = "cancelled" /\ job'[j].status # "cancelled"
                          => \E w \in Worker : Holds(w, j)]_vars
  BY CancelledStays
<1> QED
  BY <1>1, TypeCorrect, PTL DEF Spec, IdleCancelSticks

------------------------------------------------------------------------------
(* What one step may do to a worker and its job *)

\* A row moves to a status and keeps everything else.
Became(j, status) == job'[j] = [job[j] EXCEPT !.status = status]

LEMMA BecameRow ==
    ASSUME RowsTypeOK, NEW j \in Job, NEW status, Became(j, status)
    PROVE  /\ job'[j].status = status
           /\ SameJob(j)
           /\ job'[j].copy = job[j].copy
           /\ job'[j].retries = job[j].retries
           /\ job'[j].again = job[j].again
  BY DEF RowsTypeOK, RowType, Became, SameJob

LEMMA TransitionSplits ==
    ASSUME NEW S, NEW from, NEW to, Transition(S, from, to), NEW j \in Job
    PROVE  \/ job'[j] = job[j]
           \/ j \in S /\ job[j].status \in from /\ Became(j, to)
  BY DEF Transition, Became

\* The worker goes on with its job, is done with it, or had none to be done with.
Continues(w) ==
    /\ worker[w].pc \in Active
    /\ worker'[w].pc \in Active
    /\ worker'[w].job = worker[w].job
    /\ worker'[w].tries = worker[w].tries

Leaves(w) ==
    /\ worker[w].pc \in Active
    /\ worker'[w].pc \notin Active

OnlyRow(w) == \A j \in Job : j # JobOf(w) => job'[j] = job[j]

CompletesUnverified(w) ==
    /\ Continues(w) \/ Leaves(w)
    /\ worker'[w].pc # "backingoff"
    /\ OnlyRow(w)
    /\ job'[JobOf(w)] = [RowOf(w) EXCEPT !.status = "completed", !.copy = "noted"]

CompletesVerified(w) ==
    /\ Leaves(w)
    /\ worker'[w].pc # "backingoff"
    /\ OnlyRow(w)
    /\ worker[w].target \in Target
    /\ job'[JobOf(w)] = [RowOf(w) EXCEPT !.status = "completed", !.copy = worker[w].target]

\* A job given up without an outcome: during a shutdown, after a failed
\* statement, or because it was cancelled.
Drops(w) ==
    /\ Leaves(w)
    /\ worker'[w].pc # "backingoff"
    /\ UNCHANGED job
    /\ phase = "stopping" \/ faults' # 0 \/ RowOf(w).status # "running"

Yields(w) ==
    /\ Leaves(w)
    /\ worker'[w].pc # "backingoff"
    /\ OnlyRow(w)
    /\ \/ RowOf(w).status # "running" /\ UNCHANGED job
       \/ RowOf(w).status = "running" /\ Became(JobOf(w), "pending")

Fails(w) ==
    /\ Leaves(w)
    /\ worker'[w].job = worker[w].job
    /\ worker'[w].pc = IF Exhausted(w) THEN "tallying" ELSE "backingoff"
    /\ OnlyRow(w)
    /\ job'[JobOf(w)] = [RowOf(w) EXCEPT !.status = "failed", !.retries = @ + 1]

Idles(w) ==
    /\ worker[w].pc \notin Active
    /\ worker'[w].pc \notin Active
    /\ worker'[w].pc # "backingoff"
    /\ UNCHANGED job

WorkerDoes(w) ==
    /\ worker[w].pc # "idle"
    /\ UNCHANGED <<phase, asset, promoting>>
    /\ \A v \in Worker : v # w => worker'[v] = worker[v]
    /\ faults' = faults \/ faults' # 0
    /\ \/ UNCHANGED backoff
       \/ /\ worker[w].pc = "backingoff" /\ Idles(w)
          /\ backoff' = backoff \cup {JobOf(w)}
    /\ \/ Continues(w) /\ UNCHANGED job
       \/ CompletesUnverified(w) \/ CompletesVerified(w)
       \/ Drops(w) \/ Yields(w) \/ Fails(w) \/ Idles(w)

\* A failing worker goes on to record the failure or, during a shutdown, drops
\* the job.
LEMMA FailDoes ==
    ASSUME WorkersTypeOK, NEW w \in Worker, worker[w].pc \in Active, UNCHANGED job,
           NEW result, Fail(w, result)
    PROVE  Continues(w) \/ Drops(w)
<1>1. CASE phase = "stopping"
  <2>1. worker'[w] = Idle
    BY <1>1 DEF WorkersTypeOK, Fail
  <2> QED
    BY <1>1, <2>1 DEF Drops, Leaves, Idle, Active
<1>2. CASE phase # "stopping"
  <2>1. worker'[w] = [At("failing", worker[w].job) EXCEPT !.tries = worker[w].tries,
                                                          !.result = result]
    BY <1>2 DEF WorkersTypeOK, Fail
  <2>2. worker'[w].pc = "failing" /\ worker'[w].job = worker[w].job
        /\ worker'[w].tries = worker[w].tries
    BY <2>1 DEF At, Idle
  <2> QED
    BY <2>2 DEF Continues, Active
<1> QED
  BY <1>1, <1>2

LEMMA GotoDoes ==
    ASSUME WorkersTypeOK, NEW w \in Worker, worker[w].pc \in Active,
           NEW pc \in Active, Goto(w, pc)
    PROVE  Continues(w)
  BY DEF WorkersTypeOK, WorkerType, Goto, Continues

LEMMA WindUpDoes ==
    ASSUME WorkersTypeOK, NEW w \in Worker,
           NEW pc \in {"tallying", "backingoff"}, WindUp(w, pc)
    PROVE  worker'[w].pc = pc /\ worker'[w].job = worker[w].job /\ pc \notin Active
<1>1. worker'[w] = At(pc, worker[w].job)
  BY DEF WorkersTypeOK, WindUp
<1> QED
  BY <1>1 DEF At, Idle, Active

LEMMA GoIdleDoes ==
    ASSUME WorkersTypeOK, NEW w \in Worker, GoIdle(w)
    PROVE  worker'[w].pc = "idle" /\ worker'[w].pc \notin Active
  BY DEF WorkersTypeOK, GoIdle, Idle, Active

\* A worker's step changes its own place, and rows and timers as one of the
\* outcomes above.
LEMMA WorkerDid ==
    ASSUME TypeOK, NEW w \in Worker, WorkerStep(w) \/ WorkerFault(w)
    PROVE  WorkerDoes(w)
<1> DEFINE Did == \/ Continues(w) /\ UNCHANGED job
                  \/ CompletesUnverified(w) \/ CompletesVerified(w)
                  \/ Drops(w) \/ Yields(w) \/ Fails(w) \/ Idles(w)
<1>1. WorkersTypeOK /\ RowsTypeOK /\ faults \in Nat
  BY DEF TypeOK, BoundsTypeOK
<1>2. worker[w].pc # "idle" /\ UNCHANGED <<phase, asset, promoting>>
  BY DEF WorkerStep, WorkerFault, Refuse, PluginUnavailable, Resolve, Upload,
     UploadFails, UploadCoolsDown, Interrupted, Reload, MarkCompleted, MarkNote,
     MarkFailed, ScheduleRetry, Tally, Store, RecordingFails, MarkFailedFails, TallyFails,
     database, timers, bounds
<1>3. \A v \in Worker : v # w => worker'[v] = worker[v]
  <2>1. \E r : worker' = [worker EXCEPT ![w] = r]
    <3>1. CASE Refuse(w) \/ PluginUnavailable(w) \/ UploadFails(w) \/ RecordingFails(w)
      BY <3>1 DEF Refuse, PluginUnavailable, UploadFails, RecordingFails, Fail, Goto
    <3>2. CASE \/ UploadCoolsDown(w) \/ Interrupted(w) \/ MarkFailedFails(w)
               \/ ScheduleRetry(w) \/ Store(w) \/ TallyFails(w)
      BY <3>2 DEF UploadCoolsDown, Interrupted, MarkFailedFails, ScheduleRetry, Store,
         TallyFails, GoIdle
    <3>3. CASE Resolve(w) \/ Upload(w) \/ Tally(w)
      BY <3>3 DEF Resolve, Upload, Tally
    <3>4. CASE Reload(w) \/ MarkCompleted(w) \/ MarkNote(w) \/ MarkFailed(w)
      BY <3>4 DEF Reload, MarkCompleted, MarkNote, MarkFailed, WindUp, Goto
    <3> QED
      BY <3>1, <3>2, <3>3, <3>4 DEF WorkerStep, WorkerFault
  <2> QED
    BY <1>1, <2>1 DEF WorkersTypeOK
<1>4. Fault => faults' # 0
  BY <1>1 DEF Fault
<1>5. faults' = faults \/ faults' # 0
  BY <1>4 DEF WorkerStep, WorkerFault, Refuse, PluginUnavailable, Resolve, Upload,
     UploadFails, UploadCoolsDown, Interrupted, Reload, MarkCompleted, MarkNote,
     MarkFailed, ScheduleRetry, Tally, Store, RecordingFails, MarkFailedFails, TallyFails,
     bounds
<1>6. CASE Refuse(w) \/ PluginUnavailable(w) \/ UploadFails(w) \/ RecordingFails(w)
  <2>1. worker[w].pc \in Active /\ UNCHANGED <<job, backoff>>
    BY <1>6 DEF Refuse, PluginUnavailable, UploadFails, RecordingFails, Active, database,
       timers
  <2>2. (\E result : Fail(w, result)) \/ Goto(w, "noting")
    BY <1>6 DEF Refuse, PluginUnavailable, UploadFails, RecordingFails
  <2>3. Continues(w) \/ Drops(w)
    BY <1>1, <2>1, <2>2, FailDoes, GotoDoes DEF Active
  <2> QED
    BY <1>2, <1>3, <1>5, <2>1, <2>3 DEF WorkerDoes
<1>7. CASE Resolve(w) \/ Upload(w)
  <2>1. worker[w].pc \in Active /\ UNCHANGED <<job, backoff>>
    BY <1>7 DEF Resolve, Upload, Active, database, timers
  <2>2. Continues(w)
    BY ZenonT(60), <1>1, <1>7, <2>1 DEF Resolve, Upload, Continues, Active, WorkersTypeOK, WorkerType
  <2> QED
    BY <1>2, <1>3, <1>5, <2>1, <2>2 DEF WorkerDoes
<1>8. CASE UploadCoolsDown(w)
  <2>1. Leaves(w) /\ worker'[w].pc # "backingoff" /\ UNCHANGED backoff
    BY <1>1, <1>8, GoIdleDoes DEF UploadCoolsDown, Leaves, Active, timers
  <2>2. CASE Transition({JobOf(w)}, {"running"}, "pending")
    <3>1. OnlyRow(w)
      BY <2>2 DEF OnlyRow, Transition
    <3>2. RowOf(w).status = "running" => Became(JobOf(w), "pending")
      BY <1>1, <1>2, <2>2 DEF Transition, Became, RowOf, JobOf, WorkersTypeOK
    <3>3. RowOf(w).status # "running" => UNCHANGED job
      BY <1>1, <2>2 DEF Transition, RowOf, JobOf, RowsTypeOK
    <3>4. Yields(w)
      BY <2>1, <3>1, <3>2, <3>3 DEF Yields
    <3> QED
      BY <1>2, <1>3, <1>5, <2>1, <3>4 DEF WorkerDoes
  <2>3. CASE Fault /\ UNCHANGED job
    BY <1>2, <1>3, <1>4, <1>5, <2>1, <2>3 DEF WorkerDoes, Drops
  <2> QED
    BY <1>8, <2>2, <2>3 DEF UploadCoolsDown
<1>9. CASE Interrupted(w) \/ MarkFailedFails(w)
  <2>1. /\ worker[w].pc \in Active /\ GoIdle(w) /\ UNCHANGED <<job, backoff>>
        /\ phase = "stopping" \/ Fault
    BY <1>9 DEF Interrupted, MarkFailedFails, Active, database, timers
  <2> QED
    BY <1>1, <1>2, <1>3, <1>4, <1>5, <2>1, GoIdleDoes DEF WorkerDoes, Drops, Leaves
<1>10. CASE Reload(w)
  <2>1. worker[w].pc \in Active /\ UNCHANGED <<job, backoff>>
    BY <1>10 DEF Reload, Active, database, timers
  <2>2. CASE RowOf(w).status = "running"
    <3>1. Continues(w)
      BY <1>1, <1>10, <2>1, <2>2, GotoDoes DEF Reload, Active
    <3> QED
      BY <1>2, <1>3, <1>5, <2>1, <3>1 DEF WorkerDoes
  <2>3. CASE RowOf(w).status # "running"
    <3>1. WindUp(w, "tallying")
      BY <1>10, <2>3 DEF Reload
    <3> QED
      BY <1>1, <1>2, <1>3, <1>5, <2>1, <2>3, <3>1, WindUpDoes DEF WorkerDoes, Drops, Leaves
  <2> QED
    BY <2>2, <2>3
<1>11. CASE MarkCompleted(w) \/ MarkNote(w)
  <2>1. worker[w].pc \in {"marking", "noting"} /\ UNCHANGED backoff
    BY <1>11 DEF MarkCompleted, MarkNote, timers
  <2>2. worker[w].pc \in Active /\ JobOf(w) \in Job /\ worker[w].target \in Target
    BY <1>1, <2>1 DEF Active, WorkersTypeOK, Sending
  <2>3. OnlyRow(w)
    BY <1>1, <1>11, <2>2 DEF MarkCompleted, MarkNote, OnlyRow, RowsTypeOK
  <2>4. CASE MarkNote(w) \/ worker[w].result = "noted"
    <3>1. job'[JobOf(w)] = [RowOf(w) EXCEPT !.status = "completed", !.copy = "noted"]
      BY <1>1, <1>11, <2>2, <2>4 DEF MarkCompleted, MarkNote, RowsTypeOK, RowOf
    <3>2. Goto(w, "noting") \/ WindUp(w, "tallying")
      BY <1>11, <2>4 DEF MarkCompleted, MarkNote
    <3>3. (Continues(w) \/ Leaves(w)) /\ worker'[w].pc # "backingoff"
      BY <1>1, <2>2, <3>2, GotoDoes, WindUpDoes DEF Leaves, Active, Continues
    <3> QED
      BY <1>2, <1>3, <1>5, <2>1, <2>3, <3>1, <3>3 DEF WorkerDoes, CompletesUnverified
  <2>5. CASE MarkCompleted(w) /\ worker[w].result # "noted"
    <3>1. job'[JobOf(w)] = [RowOf(w) EXCEPT !.status = "completed",
                                            !.copy = worker[w].target]
      BY <1>1, <2>2, <2>5 DEF MarkCompleted, RowsTypeOK, RowOf
    <3>2. WindUp(w, "tallying")
      BY <2>5 DEF MarkCompleted
    <3>3. Leaves(w) /\ worker'[w].pc # "backingoff"
      BY <1>1, <2>2, <3>2, WindUpDoes DEF Leaves
    <3> QED
      BY <1>2, <1>3, <1>5, <2>1, <2>2, <2>3, <3>1, <3>3 DEF WorkerDoes, CompletesVerified
  <2> QED
    BY <1>11, <2>4, <2>5
<1>12. CASE MarkFailed(w)
  <2>1. worker[w].pc \in Active /\ UNCHANGED backoff /\ JobOf(w) \in Job
    BY <1>1, <1>12 DEF MarkFailed, Active, timers, WorkersTypeOK
  <2>2. OnlyRow(w)
    BY <1>1, <1>12, <2>1 DEF MarkFailed, OnlyRow, RowsTypeOK
  <2>3. job'[JobOf(w)] = [RowOf(w) EXCEPT !.status = "failed", !.retries = @ + 1]
    BY <1>1, <1>12, <2>1 DEF MarkFailed, RowsTypeOK, RowOf
  <2>4. WindUp(w, IF Exhausted(w) THEN "tallying" ELSE "backingoff")
    BY <1>12 DEF MarkFailed
  <2>5. Fails(w)
    BY <1>1, <2>1, <2>2, <2>3, <2>4, WindUpDoes DEF Fails, Leaves
  <2> QED
    BY <1>2, <1>3, <1>5, <2>1, <2>5 DEF WorkerDoes
<1>13. CASE ScheduleRetry(w) \/ Store(w) \/ TallyFails(w)
  <2>1. GoIdle(w) /\ UNCHANGED job /\ worker[w].pc \notin Active
    BY <1>13 DEF ScheduleRetry, Store, TallyFails, Active, database
  <2>2. Idles(w)
    BY <1>1, <2>1, GoIdleDoes DEF Idles
  <2>3. \/ UNCHANGED backoff
        \/ worker[w].pc = "backingoff" /\ backoff' = backoff \cup {JobOf(w)}
    BY <1>13 DEF ScheduleRetry, Store, TallyFails, timers
  <2> QED
    BY <1>2, <1>3, <1>5, <2>2, <2>3 DEF WorkerDoes
<1>14. CASE Tally(w)
  <2>1. worker'[w].pc = "storing"
    BY <1>1, <1>14 DEF Tally, WorkersTypeOK, WorkerType
  <2>2. Idles(w) /\ UNCHANGED backoff
    BY <1>14, <2>1 DEF Tally, Idles, Active, database, timers
  <2> QED
    BY <1>2, <1>3, <1>5, <2>2 DEF WorkerDoes
<1> QED
  BY <1>6, <1>7, <1>8, <1>9, <1>10, <1>11, <1>12, <1>13, <1>14 DEF WorkerStep, WorkerFault

------------------------------------------------------------------------------
(* What the other steps may do *)

Fresh(j) ==
    /\ ~Exists(j)
    /\ \E a \in Asset, p \in Provider, status \in {"pending", "opted_out"} :
         job'[j] = NewRow(a, p, status)

Shelved(j) ==
    /\ job[j].status \in {"pending", "running", "paused", "failed"}
    /\ \/ job[j].status = "pending" /\ Became(j, "paused")
       \/ Became(j, "cancelled")

Requeued(j) ==
    /\ job[j].status \in {"paused", "opted_out"}
    /\ Became(j, "pending")

Reopened(j) ==
    /\ job[j].status = "failed"
    /\ job'[j] = [job[j] EXCEPT !.status = "pending", !.again = @ + 1]

Asked(j) == job'[j] = job[j] \/ Fresh(j) \/ Shelved(j) \/ Requeued(j) \/ Reopened(j)

\* A request of a user, an importer or a backfill: rows change by Asked alone,
\* no worker moves and no timer is set.
RequestDoes ==
    /\ UNCHANGED <<phase, worker, promoting>>
    /\ backoff' \subseteq backoff
    /\ faults' = faults \/ faults' # 0
    /\ \A j \in Job : Asked(j)

PromoteDoes ==
    /\ UNCHANGED <<phase, worker, backoff>>
    /\ faults' = faults \/ faults' # 0
    /\ \E j \in promoting :
         /\ promoting' = promoting \ {j}
         /\ \A i \in Job : i # j => job'[i] = job[i]
         /\ \/ job'[j] = job[j]
            \/ job[j].status = "failed" /\ Became(j, "pending")

\* No row and no worker is touched; timers may run out.
QuietDoes ==
    /\ UNCHANGED <<job, worker, faults>>
    /\ phase' = phase \/ (phase = "running" /\ phase' = "stopping")
    /\ \/ UNCHANGED <<backoff, promoting>>
       \/ /\ promoting = {} /\ promoting' \subseteq backoff
          /\ backoff' = backoff \ promoting'

LEMMA ImportDid ==
    ASSUME TypeOK, NEW a \in Asset, NEW skip \in SUBSET Provider, Import(a, skip)
    PROVE  RequestDoes
<1> DEFINE into == {p \in Provider : provider[p].enabled /\ Accepts(p, a)}
           Status(p) == IF p \in skip THEN "opted_out" ELSE "pending"
<1>1. PICK row \in [into -> FreeRows] :
        job' = [i \in Job |->
                  IF \E p \in into : row[p] = i
                  THEN NewRow(a, CHOOSE q \in into : row[q] = i,
                              Status(CHOOSE q \in into : row[q] = i))
                  ELSE job[i]]
  BY DEF Import
<1>2. ASSUME NEW j \in Job PROVE Asked(j)
  <2>1. CASE \E p \in into : row[p] = j
    <3>1. PICK p \in into : job'[j] = NewRow(a, p, Status(p))
      BY <1>1, <2>1
    <3>2. ~Exists(j)
      BY <1>1, <2>1 DEF FreeRows
    <3>3. Status(p) \in {"pending", "opted_out"}
      OBVIOUS
    <3> HIDE DEF Status
    <3> QED
      BY <3>1, <3>2, <3>3 DEF Fresh, Asked
  <2>2. CASE ~\E p \in into : row[p] = j
    BY <1>1, <2>2 DEF Asked
  <2> QED
    BY <2>1, <2>2
<1>3. UNCHANGED <<phase, worker, promoting, backoff, faults>>
  BY DEF Import, timers, bounds
<1> QED
  BY <1>2, <1>3 DEF RequestDoes

LEMMA BackfillDid ==
    ASSUME TypeOK, NEW a \in Asset, BackfillPage(a)
    PROVE  RequestDoes
<1>1. backfill.dest \in Provider
  BY DEF BackfillPage, TypeOK, MemoryTypeOK
<1>2. ASSUME NEW j \in Job PROVE Asked(j)
  <2>1. CASE UNCHANGED job
    BY <2>1 DEF Asked
  <2>2. ASSUME NEW i \in FreeRows, job' = [job EXCEPT ![i] = NewRow(a, backfill.dest, "pending")]
        PROVE  Asked(j)
    BY <1>1, <2>2 DEF TypeOK, RowsTypeOK, FreeRows, Asked, Fresh
  <2> QED
    BY <2>1, <2>2 DEF BackfillPage
<1>3. UNCHANGED <<phase, worker, promoting, backoff, faults>>
  BY DEF BackfillPage, timers, bounds
<1> QED
  BY <1>2, <1>3 DEF RequestDoes

LEMMA QueueDid ==
    ASSUME TypeOK, QueueRequest
    PROVE  RequestDoes
<1>1. UNCHANGED <<phase, worker, promoting, faults>> /\ backoff' \subseteq backoff
  BY DEF QueueRequest, Pause, Resume, Retry, RetryAllFailed, Cancel, CancelAllPending,
     RequeueOptedOut, UserRequest, timers
<1>2. ASSUME NEW j \in Job PROVE Asked(j)
  <2>1. CASE \E S : Reopen(S)
    BY <2>1 DEF Reopen, Asked, Reopened
  <2>2. CASE \E S : \/ Transition(S, {"paused"}, "pending")
                    \/ Transition(S, {"opted_out"}, "pending")
    BY <2>2, TransitionSplits DEF Asked, Requeued
  <2>3. CASE \E S : \/ Transition(S, {"pending"}, "paused")
                    \/ Transition(S, {"pending", "paused"}, "cancelled")
                    \/ Transition(S, Cancellable, "cancelled")
    BY <2>3, TransitionSplits DEF Asked, Shelved, Cancellable
  <2> QED
    BY <2>1, <2>2, <2>3 DEF QueueRequest, Pause, Resume, Retry, RetryAllFailed, Cancel,
       CancelAllPending, RequeueOptedOut
<1> QED
  BY <1>1, <1>2 DEF RequestDoes

LEMMA ReconcileDid ==
    ASSUME TypeOK, ReconcileCancels
    PROVE  RequestDoes
<1>1. /\ UNCHANGED <<phase, worker, promoting, backoff>>
      /\ UNCHANGED faults \/ faults' = faults + 1
  BY DEF ReconcileCancels, Fault, timers, bounds
<1>2. faults' = faults \/ faults' # 0
  BY <1>1 DEF TypeOK, BoundsTypeOK
<1>3. ASSUME NEW j \in Job PROVE Asked(j)
  <2>1. CASE UNCHANGED job
    BY <2>1 DEF Asked
  <2>2. CASE \E S : Transition(S, {"pending", "paused"}, "cancelled")
    BY <2>2, TransitionSplits DEF Asked, Shelved
  <2> QED
    BY <2>1, <2>2 DEF ReconcileCancels
<1> QED
  BY <1>1, <1>2, <1>3 DEF RequestDoes

LEMMA PromoteDid ==
    ASSUME TypeOK, NEW j \in Job, Promote(j)
    PROVE  PromoteDoes
<1>1. /\ UNCHANGED <<phase, worker, backoff>>
      /\ UNCHANGED faults \/ faults' = faults + 1
      /\ j \in promoting /\ promoting' = promoting \ {j}
  BY DEF Promote, Fault, bounds
<1>2. faults' = faults \/ faults' # 0
  BY <1>1 DEF TypeOK, BoundsTypeOK
<1>3. UNCHANGED job \/ Transition({j}, {"failed"}, "pending")
  BY DEF Promote
<1>4. /\ \A i \in Job : i # j => job'[i] = job[i]
      /\ job'[j] = job[j] \/ (job[j].status = "failed" /\ Became(j, "pending"))
  BY <1>3, TransitionSplits
<1> QED
  BY <1>1, <1>2, <1>4 DEF PromoteDoes

\* Every step of the system is one of these.
LEMMA StepDid ==
    ASSUME TypeOK, [Next]_vars
    PROVE  \/ Start \/ Crash \/ StopDone
           \/ \E w \in Worker, j \in Job : Claim(w, j) \/ ClaimLost(w, j)
           \/ \E w \in Worker : WorkerDoes(w)
           \/ RequestDoes \/ PromoteDoes \/ QuietDoes
<1>1. CASE \/ UNCHANGED vars \/ Stop \/ PromoteSnapshot
           \/ \E p \in Provider : CooldownEnds(p)
           \/ ForegroundBegins \/ ForegroundEnds
           \/ \E p \in Provider, config \in Config : UpdateProvider(p, config)
           \/ \E a \in Asset : DeleteAsset(a)
           \/ \E p \in Provider, reconcile \in BOOLEAN : StartBackfill(p, reconcile)
           \/ BackfillEnds
  <2>1. UNCHANGED <<job, worker, faults>>
    BY <1>1 DEF vars, Stop, PromoteSnapshot, CooldownEnds, ForegroundBegins,
       ForegroundEnds, UpdateProvider, DeleteAsset, StartBackfill, BackfillEnds, database,
       UserRequest, bounds
  <2>2. phase' = phase \/ (phase = "running" /\ phase' = "stopping")
    BY <1>1 DEF vars, Stop, PromoteSnapshot, CooldownEnds, ForegroundBegins,
       ForegroundEnds, UpdateProvider, DeleteAsset, StartBackfill, BackfillEnds
  <2>3. CASE PromoteSnapshot
    <3>1. promoting = {} /\ promoting' \subseteq backoff /\ backoff' = backoff \ promoting'
      BY <2>3 DEF PromoteSnapshot
    <3> QED
      BY <2>1, <2>2, <3>1 DEF QuietDoes
  <2>4. CASE ~PromoteSnapshot
    <3>1. UNCHANGED <<backoff, promoting>>
      BY <1>1, <2>4 DEF vars, Stop, CooldownEnds, ForegroundBegins,
         ForegroundEnds, UpdateProvider, DeleteAsset, StartBackfill, BackfillEnds, timers
    <3> QED
      BY <2>1, <2>2, <3>1 DEF QuietDoes
  <2> QED
    BY <2>3, <2>4
<1> QED
  BY <1>1, WorkerDid, ImportDid, BackfillDid, QueueDid, ReconcileDid, PromoteDid
     DEF Next, BackfillStep

------------------------------------------------------------------------------
(* RunningIsOwned *)

\* Holding is a matter of the worker's own place.
LEMMA StillHeld ==
    ASSUME NEW w \in Worker, NEW j \in Job, Holds(w, j), worker'[w] = worker[w]
    PROVE  Holds(w, j)'
  BY DEF Holds

LEMMA OwnedNext ==
    ASSUME TypeOK, RunningIsOwned, [Next]_vars
    PROVE  RunningIsOwned'
<1>1. RowsTypeOK /\ WorkersTypeOK /\ faults \in Nat
  BY DEF TypeOK, BoundsTypeOK
<1>2. SUFFICES ASSUME phase' = "running", faults' = 0,
                      NEW j \in Job, job'[j].status = "running"
               PROVE  \E w \in Worker : Holds(w, j)'
  BY DEF RunningIsOwned
<1>3. ASSUME phase = "running", faults = 0, job'[j] = job[j],
             \A v \in Worker : Holds(v, j) => Holds(v, j)'
      PROVE  \E w \in Worker : Holds(w, j)'
  BY <1>2, <1>3 DEF RunningIsOwned
<1>4. CASE Crash \/ StopDone
  BY <1>2, <1>4 DEF Crash, StopDone, LoseMemory
<1>5. CASE Start
  <2>1. \/ job'[j] = job[j] /\ job[j].status # "running"
        \/ Became(j, "pending")
    BY <1>5 DEF Start, ResetRunning, Transition, Became
  <2> QED
    BY <1>1, <1>2, <2>1, BecameRow
<1>6. ASSUME NEW w \in Worker, NEW i \in Job, ClaimLost(w, i) PROVE FALSE
  BY <1>1, <1>2, <1>6 DEF ClaimLost, Fault
<1>7. ASSUME NEW w \in Worker, NEW i \in Job, Claim(w, i)
      PROVE  \E v \in Worker : Holds(v, j)'
  <2>1. phase = "running" /\ faults = 0
    BY <1>2, <1>7 DEF Claim, Claimable, bounds
  <2>2. /\ worker'[w] = [At("claimed", i) EXCEPT !.tries = job[i].retries]
        /\ \A v \in Worker : v # w => worker'[v] = worker[v]
        /\ worker[w] = Idle
    BY <1>1, <1>7 DEF Claim, WorkersTypeOK
  <2>3. Holds(w, i)'
    BY <2>2 DEF Holds, At, Idle, Active
  <2>4. \A v \in Worker : Holds(v, j) => Holds(v, j)'
    BY <2>2, StillHeld DEF Holds, Idle, Active
  <2>5. i # j => job'[j] = job[j]
    BY <1>7 DEF Claim, Transition
  <2> QED
    BY <1>3, <2>1, <2>3, <2>4, <2>5
<1>8. ASSUME NEW w \in Worker, WorkerDoes(w)
      PROVE  \E v \in Worker : Holds(v, j)'
  <2>1. /\ phase = "running" /\ faults = 0
        /\ \A v \in Worker : v # w /\ Holds(v, j) => Holds(v, j)'
    BY <1>2, <1>8, StillHeld DEF WorkerDoes
  <2>2. CASE j # JobOf(w) \/ worker[w].pc \notin Active
    <3>1. ~Holds(w, j)
      BY <2>2 DEF Holds, JobOf
    <3>2. job'[j] = job[j]
      BY <1>8, <2>2 DEF WorkerDoes, CompletesUnverified, CompletesVerified, Drops, Yields,
         Fails, Idles, OnlyRow, Continues, Leaves
    <3> QED
      BY <1>3, <2>1, <3>1, <3>2
  <2>3. CASE j = JobOf(w) /\ worker[w].pc \in Active
    <3>1. CASE Continues(w)
      BY <2>3, <3>1 DEF Continues, Holds, JobOf
    <3>2. CASE CompletesUnverified(w) \/ CompletesVerified(w) \/ Fails(w)
      <4>1. job'[j].status \in {"completed", "failed"}
        BY <1>1, <2>3, <3>2 DEF CompletesUnverified, CompletesVerified, Fails, RowOf,
           RowsTypeOK, RowType
      <4> QED
        BY <1>2, <4>1
    <3>3. CASE Drops(w)
      BY <1>2, <2>1, <2>3, <3>3 DEF Drops, RowOf
    <3>4. CASE Yields(w)
      BY <1>1, <1>2, <2>3, <3>4, BecameRow DEF Yields, RowOf
    <3> QED
      BY <1>8, <2>3, <3>1, <3>2, <3>3, <3>4 DEF WorkerDoes, Idles
  <2> QED
    BY <2>2, <2>3
<1>9. CASE RequestDoes
  <2>1. phase = "running" /\ faults = 0 /\ \A v \in Worker : Holds(v, j) => Holds(v, j)'
    BY <1>2, <1>9 DEF RequestDoes, Holds
  <2>2. job'[j] = job[j]
    <3>1. \A a, p, s : NewRow(a, p, s).status = s
      BY DEF NewRow, NoRow
    <3>2. ~Fresh(j)
      BY <1>2, <3>1 DEF Fresh
    <3>3. ~Shelved(j) /\ ~Requeued(j)
      BY <1>1, <1>2, BecameRow DEF Shelved, Requeued
    <3>4. ~Reopened(j)
      BY <1>1, <1>2 DEF Reopened, RowsTypeOK, RowType
    <3> QED
      BY <1>9, <3>2, <3>3, <3>4 DEF RequestDoes, Asked
  <2> QED
    BY <1>3, <2>1, <2>2
<1>10. CASE PromoteDoes
  <2>1. phase = "running" /\ faults = 0 /\ \A v \in Worker : Holds(v, j) => Holds(v, j)'
    BY <1>2, <1>10 DEF PromoteDoes, Holds
  <2>2. job'[j] = job[j]
    BY <1>1, <1>2, <1>10, BecameRow DEF PromoteDoes
  <2> QED
    BY <1>3, <2>1, <2>2
<1>11. CASE QuietDoes
  <2>1. phase = "running" /\ faults = 0 /\ job'[j] = job[j]
    BY <1>2, <1>11 DEF QuietDoes
  <2>2. \A v \in Worker : Holds(v, j) => Holds(v, j)'
    BY <1>11 DEF QuietDoes, Holds
  <2> QED
    BY <1>3, <2>1, <2>2
<1> QED
  BY <1>4, <1>5, <1>6, <1>7, <1>8, <1>9, <1>10, <1>11, StepDid

\* While the manager runs and no statement has failed, a running job has a worker
\* on it (Manager.Start's reset, Stop's revert and handle's outcomes leave none
\* stranded).
THEOREM RunningIsOwnedCorrect == Spec => []RunningIsOwned
<1>1. Init => RunningIsOwned
  BY DEF Init, NoRow, RunningIsOwned
<1>2. TypeOK /\ RunningIsOwned /\ [Next]_vars => RunningIsOwned'
  BY OwnedNext
<1> QED
  BY <1>1, <1>2, TypeCorrect, PTL DEF Spec

------------------------------------------------------------------------------
(* OptOutRespected *)

\* A row belongs to an asset that was imported; an identifier not in use holds
\* the null row.
RowsKnown ==
    \A j \in Job : /\ Exists(j) => asset[job[j].asset] # "absent"
                   /\ Exists(j) \/ job[j] = NoRow

OptOutInv == RowsKnown /\ OptOutRespected

\* An imported asset is never absent again.
LEMMA AssetStays ==
    ASSUME TypeOK, [Next]_vars, NEW a \in Asset, asset[a] # "absent"
    PROVE  asset'[a] # "absent"
<1>1. asset \in [Asset -> {"absent", "active", "deleted"}]
  BY DEF TypeOK, CatalogTypeOK
<1>2. ASSUME NEW b \in Asset, NEW skip \in SUBSET Provider, Import(b, skip)
      PROVE  asset'[a] # "absent"
  BY <1>1, <1>2 DEF Import
<1>3. ASSUME NEW b \in Asset, DeleteAsset(b)
      PROVE  asset'[a] # "absent"
  BY <1>1, <1>3 DEF DeleteAsset
<1>4. ASSUME NEW w \in Worker, WorkerStep(w) \/ WorkerFault(w)
      PROVE  UNCHANGED asset
  BY <1>4, WorkerDid DEF WorkerDoes
<1>5. CASE \/ UNCHANGED vars \/ Start \/ Crash \/ Stop \/ StopDone
           \/ \E w \in Worker, j \in Job : Claim(w, j) \/ ClaimLost(w, j)
           \/ PromoteSnapshot \/ \E j \in Job : Promote(j)
           \/ \E p \in Provider : CooldownEnds(p)
           \/ ForegroundBegins \/ ForegroundEnds
           \/ QueueRequest
           \/ \E p \in Provider, config \in Config : UpdateProvider(p, config)
           \/ BackfillStep
  BY <1>5 DEF vars, Start, Crash, Stop, StopDone, Claim, ClaimLost, PromoteSnapshot,
     Promote, CooldownEnds, ForegroundBegins, ForegroundEnds, QueueRequest, Pause, Resume,
     Retry, RetryAllFailed, Cancel, CancelAllPending, RequeueOptedOut, UpdateProvider,
     BackfillStep, StartBackfill, ReconcileCancels, BackfillPage, BackfillEnds, database
<1> QED
  BY <1>2, <1>3, <1>4, <1>5 DEF Next

\* Rows are created by imports and backfills alone.
LEMMA AbsentStays ==
    ASSUME TypeOK, [Next]_vars, NEW j \in Job, ~Exists(j),
           \A a \in Asset, skip \in SUBSET Provider : ~Import(a, skip),
           \A a \in Asset : ~BackfillPage(a)
    PROVE  job'[j] = job[j]
<1>1. \A S, from, to : "absent" \notin from /\ Transition(S, from, to) => job'[j] = job[j]
  BY TransitionSplits DEF Exists
<1>2. CASE Start \/ StopDone
  BY <1>1, <1>2 DEF Start, StopDone, ResetRunning
<1>3. ASSUME NEW w \in Worker, NEW i \in Job, Claim(w, i) \/ ClaimLost(w, i)
      PROVE  job'[j] = job[j]
  BY <1>1, <1>3 DEF Claim, ClaimLost
<1>4. ASSUME NEW w \in Worker, WorkerStep(w) \/ WorkerFault(w)
      PROVE  job'[j] = job[j]
  <2>1. WorkerDoes(w)
    BY <1>4, WorkerDid
  <2>2. j # JobOf(w)
    BY <2>1 DEF TypeOK, WorkersTypeOK, WorkerDoes
  <2> QED
    BY <2>1, <2>2 DEF WorkerDoes, OnlyRow, CompletesUnverified, CompletesVerified, Drops,
       Yields, Fails, Idles
<1>5. CASE QueueRequest
  <2>1. \A S : Reopen(S) => job'[j] = job[j]
    BY DEF Reopen, Exists
  <2> QED
    BY <1>1, <1>5, <2>1 DEF QueueRequest, Pause, Resume, Retry, RetryAllFailed, Cancel,
       CancelAllPending, RequeueOptedOut, Cancellable
<1>6. CASE ReconcileCancels \/ \E i \in Job : Promote(i)
  BY <1>1, <1>6 DEF ReconcileCancels, Promote
<1>7. CASE \/ UNCHANGED vars \/ Crash \/ Stop \/ PromoteSnapshot
           \/ \E p \in Provider : CooldownEnds(p)
           \/ ForegroundBegins \/ ForegroundEnds
           \/ \E p \in Provider, config \in Config : UpdateProvider(p, config)
           \/ \E a \in Asset : DeleteAsset(a)
           \/ \E p \in Provider, reconcile \in BOOLEAN : StartBackfill(p, reconcile)
           \/ BackfillEnds
  BY <1>7 DEF vars, Crash, Stop, PromoteSnapshot, CooldownEnds, ForegroundBegins,
     ForegroundEnds, UpdateProvider, DeleteAsset, StartBackfill, BackfillEnds, database
<1> QED
  BY <1>2, <1>3, <1>4, <1>5, <1>6, <1>7 DEF Next, BackfillStep

\* A row that exists keeps its asset and destination, and is not opted out later.
LEMMA ExistingStays ==
    ASSUME TypeOK, [Next]_vars, NEW j \in Job, Exists(j)
    PROVE  /\ SameJob(j)
           /\ job'[j].status # "absent"
           /\ job'[j].status = "opted_out" => job[j].status = "opted_out"
<1>1. RowStep(j)
  BY RowSteps
<1> QED
  BY <1>1 DEF RowStep, Created, Moved, MarkedCompleted, MarkedNoted, MarkedFailed, SameJob,
     Exists

LEMMA NewRowIs ==
    ASSUME NEW a, NEW p, NEW status
    PROVE  /\ NewRow(a, p, status).asset = a
           /\ NewRow(a, p, status).dest = p
           /\ NewRow(a, p, status).status = status
           /\ NewRow(a, p, status).retries = 0
           /\ NewRow(a, p, status).again = 0
           /\ NewRow(a, p, status).copy = "none"
  BY DEF NewRow, NoRow

\* An import creates rows of an asset that had none, one for each destination.
LEMMA ImportOptsOut ==
    ASSUME TypeOK, OptOutInv, NEW a \in Asset, NEW skip \in SUBSET Provider,
           Import(a, skip)
    PROVE  OptOutInv'
<1> DEFINE into == {p \in Provider : provider[p].enabled /\ Accepts(p, a)}
           Status(p) == IF p \in skip THEN "opted_out" ELSE "pending"
<1>1. PICK row \in [into -> FreeRows] :
        job' = [i \in Job |->
                  IF \E p \in into : row[p] = i
                  THEN NewRow(a, CHOOSE q \in into : row[q] = i,
                              Status(CHOOSE q \in into : row[q] = i))
                  ELSE job[i]]
  BY DEF Import
<1>2. asset[a] = "absent" /\ asset' = [asset EXCEPT ![a] = "active"]
  BY DEF Import
<1>3. asset \in [Asset -> {"absent", "active", "deleted"}]
  BY DEF TypeOK, CatalogTypeOK
<1>4. ASSUME NEW j \in Job
      PROVE  \/ /\ \A p \in into : row[p] # j
                /\ job'[j] = job[j]
             \/ \E p \in into : row[p] = j /\ job'[j] = NewRow(a, p, Status(p))
  <2>1. CASE \E p \in into : row[p] = j
    <3>1. PICK p \in into : row[p] = j /\ p = CHOOSE q \in into : row[q] = j
      BY <2>1
    <3>2. job'[j] = NewRow(a, p, Status(p))
      BY <1>1, <2>1, <3>1
    <3> QED
      BY <3>1, <3>2
  <2>2. CASE ~\E p \in into : row[p] = j
    BY <1>1, <2>2
  <2> QED
    BY <2>1, <2>2
<1> HIDE DEF Status
<1>5. RowsKnown'
  <2>1. ASSUME NEW j \in Job
        PROVE  /\ job'[j].status # "absent" => asset'[job'[j].asset] # "absent"
               /\ job'[j].status # "absent" \/ job'[j] = NoRow
    <3>1. CASE job'[j] = job[j]
      <4>1. Exists(j) => job[j].asset \in Asset /\ asset[job[j].asset] # "absent"
        BY DEF OptOutInv, RowsKnown, TypeOK, RowsTypeOK
      <4> QED
        BY <1>2, <1>3, <3>1, <4>1 DEF OptOutInv, RowsKnown, Exists
    <3>2. CASE \E p \in into : job'[j] = NewRow(a, p, Status(p))
      <4>1. PICK p \in into : job'[j] = NewRow(a, p, Status(p))
        BY <3>2
      <4>2. Status(p) # "absent"
        BY DEF Status
      <4> QED
        BY <1>2, <1>3, <4>1, <4>2, NewRowIs
    <3> QED
      BY <1>4, <3>1, <3>2
  <2> QED
    BY <2>1 DEF RowsKnown, Exists
<1>6. ASSUME NEW j \in Job, NEW k \in Job, job'[j].status = "opted_out",
             job'[k].status # "absent", job'[k].asset = job'[j].asset,
             job'[k].dest = job'[j].dest
      PROVE  j = k
  <2>1. \A i \in Job : job'[i] = job[i] /\ Exists(i) => job'[i].asset # a
    BY <1>2 DEF OptOutInv, RowsKnown
  <2>2. \A i \in Job, p \in into : job'[i] = NewRow(a, p, Status(p)) => job'[i].asset = a
    BY NewRowIs
  <2>3. CASE job'[j] = job[j] /\ job'[k] = job[k]
    BY <1>6, <2>3 DEF OptOutInv, OptOutRespected, Exists
  <2>4. CASE job'[j] = job[j] /\ \E p \in into : job'[k] = NewRow(a, p, Status(p))
    BY <1>6, <2>1, <2>2, <2>4 DEF Exists
  <2>5. CASE job'[k] = job[k] /\ \E p \in into : job'[j] = NewRow(a, p, Status(p))
    BY <1>6, <2>1, <2>2, <2>5 DEF Exists
  <2>6. CASE /\ \E p \in into : row[p] = j /\ job'[j] = NewRow(a, p, Status(p))
             /\ \E p \in into : row[p] = k /\ job'[k] = NewRow(a, p, Status(p))
    BY <1>6, <2>6, NewRowIs
  <2> QED
    BY <1>4, <2>3, <2>4, <2>5, <2>6
<1> QED
  BY <1>5, <1>6 DEF OptOutInv, OptOutRespected, Exists

\* A backfill creates a row only where none counts as enqueued.
LEMMA BackfillOptsOut ==
    ASSUME TypeOK, OptOutInv, NEW a \in Asset, BackfillPage(a)
    PROVE  OptOutInv'
<1>1. UNCHANGED asset /\ asset[a] = "active"
  BY DEF BackfillPage
<1>2. CASE UNCHANGED job
  BY <1>1, <1>2 DEF OptOutInv, RowsKnown, OptOutRespected, Exists
<1>3. CASE ~UNCHANGED job
  <2>1. PICK i \in FreeRows : job' = [job EXCEPT ![i] = NewRow(a, backfill.dest, "pending")]
    BY <1>3 DEF BackfillPage
  <2>2. ~HasEnqueued(a, backfill.dest)
    BY <1>3 DEF BackfillPage
  <2>3. /\ i \in Job /\ job'[i] = NewRow(a, backfill.dest, "pending")
        /\ \A j \in Job : j # i => job'[j] = job[j]
    BY <2>1 DEF FreeRows, TypeOK, RowsTypeOK
  <2>4. /\ job'[i].asset = a /\ job'[i].dest = backfill.dest /\ job'[i].status = "pending"
    BY <2>3, NewRowIs
  <2>5. RowsKnown'
    BY <1>1, <2>3, <2>4 DEF OptOutInv, RowsKnown, Exists
  <2>6. ASSUME NEW j \in Job, NEW k \in Job, job'[j].status = "opted_out",
               job'[k].status # "absent", job'[k].asset = job'[j].asset,
               job'[k].dest = job'[j].dest
        PROVE  j = k
    <3>1. j # i /\ job'[j] = job[j]
      BY <2>3, <2>4, <2>6
    <3>2. k # i
      <4> SUFFICES ASSUME k = i PROVE FALSE
        OBVIOUS
      <4>1. /\ j \in JobsOf(a) /\ job[j].dest = backfill.dest
            /\ job[j].status = "opted_out"
        BY <2>4, <2>6, <3>1 DEF JobsOf, Exists
      <4> QED
        BY <2>2, <4>1 DEF HasEnqueued, Enqueued
    <3>3. job'[k] = job[k]
      BY <2>3, <3>2
    <3> QED
      BY <2>6, <3>1, <3>3 DEF OptOutInv, OptOutRespected, Exists
  <2> QED
    BY <2>5, <2>6 DEF OptOutInv, OptOutRespected, Exists
<1> QED
  BY <1>2, <1>3

LEMMA OptOutNext ==
    ASSUME TypeOK, OptOutInv, [Next]_vars
    PROVE  OptOutInv'
<1>1. CASE \E a \in Asset, skip \in SUBSET Provider : Import(a, skip)
  BY <1>1, ImportOptsOut
<1>2. CASE \E a \in Asset : BackfillPage(a)
  BY <1>2, BackfillOptsOut
<1>3. CASE /\ \A a \in Asset, skip \in SUBSET Provider : ~Import(a, skip)
           /\ \A a \in Asset : ~BackfillPage(a)
  <2>1. \A j \in Job : ~Exists(j) => job'[j] = job[j]
    BY <1>3, AbsentStays
  <2>2. \A j \in Job : Exists(j) =>
          /\ job'[j].asset = job[j].asset /\ job'[j].dest = job[j].dest
          /\ job'[j].status # "absent"
          /\ job'[j].status = "opted_out" => job[j].status = "opted_out"
    BY ExistingStays DEF SameJob
  <2>3. RowsKnown'
    <3>1. ASSUME NEW j \in Job, Exists(j)
          PROVE  asset'[job'[j].asset] # "absent"
      BY <2>2, <3>1, AssetStays DEF OptOutInv, RowsKnown, TypeOK, RowsTypeOK
    <3> QED
      BY <2>1, <2>2, <3>1 DEF OptOutInv, RowsKnown, Exists
  <2>4. OptOutRespected'
    BY <2>1, <2>2 DEF OptOutInv, OptOutRespected, Exists
  <2> QED
    BY <2>3, <2>4 DEF OptOutInv
<1> QED
  BY <1>1, <1>2, <1>3

LEMMA OptOutInvCorrect == Spec => []OptOutInv
<1>1. ASSUME Init PROVE OptOutInv
  <2>1. \A j \in Job : job[j] = NoRow /\ NoRow.status = "absent"
    BY <1>1 DEF Init, NoRow
  <2> QED
    BY <2>1 DEF OptOutInv, RowsKnown, OptOutRespected, Exists
<1>2. TypeOK /\ OptOutInv /\ [Next]_vars => OptOutInv'
  BY OptOutNext
<1> QED
  BY <1>1, <1>2, TypeCorrect, PTL DEF Spec

\* No import, backfill or reconcile puts a row beside an opted-out one
\* (importer's recordAsset, BackupRepo.Enqueue and enqueueIdempotencyStatuses).
THEOREM OptOutRespectedCorrect == Spec => []OptOutRespected
<1>1. OptOutInv => OptOutRespected
  BY DEF OptOutInv
<1> QED
  BY <1>1, OptOutInvCorrect, PTL

------------------------------------------------------------------------------
(* RetryBudget *)

\* The workers that have yet to schedule the backoff of a job, and its retry
\* timers in all: each may requeue the job once more without being asked.
Waiting(j) == {w \in Worker : worker[w].pc = "backingoff" /\ JobOf(w) = j}
OneIf(b)   == IF b THEN 1 ELSE 0
Timers(j)  == Cardinality(Waiting(j)) + OneIf(j \in backoff) + OneIf(j \in promoting)

\* A row in one of these places may fail without being requeued first.
MayFail(j) ==
    \/ job[j].status \in {"absent", "pending", "running", "paused", "opted_out"}
    \/ \E w \in Worker : Holds(w, j)
Attempt(j) == OneIf(MayFail(j))

\* Failures that set a timer: all but the last that MaxRetries allows.
Rearmed(retries) == IF retries < MaxRetries THEN retries ELSE MaxRetries - 1

\* Every failure is paid for: by the first attempt, by a user's requeue, or by a
\* timer that an earlier failure set; those that are not spent yet are counted.
Balanced(j) ==
    job[j].retries + Attempt(j) + Timers(j) <= 1 + job[j].again + Rearmed(job[j].retries)

TriesKnown ==
    \A w \in Worker, j \in Job : Holds(w, j) => worker[w].tries = job[j].retries

BudgetInv ==
    /\ TriesKnown
    /\ \A j \in Job : IsFiniteSet(Waiting(j)) /\ Balanced(j)

Numbers(j) == job[j].retries \in Nat /\ job[j].again \in Nat

LEMMA TimersNat ==
    ASSUME NEW j, IsFiniteSet(Waiting(j))
    PROVE  Timers(j) \in Nat /\ Cardinality(Waiting(j)) \in Nat
  BY FS_CardinalityType DEF Timers, OneIf

LEMMA AttemptNat == ASSUME NEW j PROVE Attempt(j) \in {0, 1}
  BY DEF Attempt, OneIf

\* How a step may move a job's count of failures.
Frugal(j) ==
    LET before == Attempt(j) + Timers(j)
        after  == (Attempt(j) + Timers(j))'
    IN  \/ /\ job'[j].retries = job[j].retries /\ job'[j].again = job[j].again
           /\ after <= before
        \/ /\ job'[j].retries = job[j].retries /\ job'[j].again = job[j].again + 1
           /\ after <= before + 1
        \/ /\ job'[j].retries = job[j].retries + 1 /\ job'[j].again = job[j].again
           /\ after + 1 <= before
        \/ /\ job'[j].retries = job[j].retries + 1 /\ job'[j].again = job[j].again
           /\ job[j].retries + 1 < MaxRetries
           /\ after <= before

LEMMA BalanceKept ==
    ASSUME NEW j \in Job, Numbers(j), Balanced(j), IsFiniteSet(Waiting(j)),
           IsFiniteSet(Waiting(j))', Frugal(j)
    PROVE  Balanced(j)'
<1>1. Timers(j) \in Nat /\ Attempt(j) \in {0, 1}
  BY TimersNat, AttemptNat
<1>2. Timers(j)' \in Nat /\ Attempt(j)' \in {0, 1}
  <2>1. Cardinality(Waiting(j))' \in Nat
    BY FS_CardinalityType
  <2> QED
    BY <2>1 DEF Timers, OneIf, Attempt
<1>3. MaxRetries \in Nat \ {0}
  BY BoundAssumption
<1> QED
  BY <1>1, <1>2, <1>3 DEF Balanced, Frugal, Rearmed, Numbers

\* When no worker starts waiting and no timer is set, a job's timers get fewer.
LEMMA TimersShrink ==
    ASSUME NEW j \in Job, IsFiniteSet(Waiting(j)), Waiting(j)' \subseteq Waiting(j),
           OneIf(j \in backoff') + OneIf(j \in promoting')
             <= OneIf(j \in backoff) + OneIf(j \in promoting)
    PROVE  IsFiniteSet(Waiting(j))' /\ Timers(j)' <= Timers(j)
<1>1. /\ IsFiniteSet(Waiting(j)')
      /\ Cardinality(Waiting(j)') <= Cardinality(Waiting(j))
      /\ Cardinality(Waiting(j)') \in Nat /\ Cardinality(Waiting(j)) \in Nat
  BY FS_Subset, FS_CardinalityType
<1> QED
  BY <1>1 DEF Timers, OneIf

\* A row that did not change and no worker took up counts for no more.
LEMMA AttemptShrinks ==
    ASSUME NEW j \in Job, MayFail(j)' => MayFail(j)
    PROVE  Attempt(j)' <= Attempt(j)
  BY DEF Attempt, OneIf

LEMMA SameNumbers ==
    ASSUME NEW j \in Job, IsFiniteSet(Waiting(j)), IsFiniteSet(Waiting(j))',
           job'[j].retries = job[j].retries, job'[j].again = job[j].again,
           MayFail(j)' => MayFail(j), Timers(j)' <= Timers(j)
    PROVE  Frugal(j)
<1>1. Timers(j) \in Nat /\ Attempt(j) \in {0, 1}
  BY TimersNat, AttemptNat
<1>2. Timers(j)' \in Nat /\ Attempt(j)' \in {0, 1}
  <2>1. Cardinality(Waiting(j))' \in Nat
    BY FS_CardinalityType
  <2> QED
    BY <2>1 DEF Timers, OneIf, Attempt
<1>3. Attempt(j)' <= Attempt(j)
  BY AttemptShrinks
<1> QED
  BY <1>1, <1>2, <1>3 DEF Frugal

\* Waiting is a matter of the workers' places.
LEMMA WaitingStays ==
    ASSUME NEW j \in Job, UNCHANGED worker
    PROVE  Waiting(j)' = Waiting(j) /\ \A w \in Worker : Holds(w, j)' = Holds(w, j)
  BY DEF Waiting, JobOf, Holds

\* Nothing about the job changes but that timers may go.
LEMMA RowStays ==
    ASSUME NEW j \in Job, IsFiniteSet(Waiting(j)), UNCHANGED worker, job'[j] = job[j],
           OneIf(j \in backoff') + OneIf(j \in promoting')
             <= OneIf(j \in backoff) + OneIf(j \in promoting)
    PROVE  IsFiniteSet(Waiting(j))' /\ Frugal(j)
<1>1. Waiting(j)' = Waiting(j) /\ \A w \in Worker : Holds(w, j)' = Holds(w, j)
  BY WaitingStays
<1>2. IsFiniteSet(Waiting(j))' /\ Timers(j)' <= Timers(j)
  BY <1>1, TimersShrink
<1>3. MayFail(j)' => MayFail(j)
  BY <1>1 DEF MayFail
<1> QED
  BY <1>2, <1>3, SameNumbers

\* The process ends, or starts with the rows its predecessor left running.
LEMMA RestartFrugal ==
    ASSUME TypeOK, BudgetInv, Start \/ Crash \/ StopDone, NEW j \in Job
    PROVE  IsFiniteSet(Waiting(j))' /\ Frugal(j)
<1>1. RowsTypeOK /\ IsFiniteSet(Waiting(j))
  BY DEF TypeOK, BudgetInv
<1>2. job'[j] = job[j] \/ (job[j].status = "running" /\ Became(j, "pending"))
  BY TransitionSplits DEF Start, Crash, StopDone, ResetRunning, database
<1>3. /\ job'[j].retries = job[j].retries /\ job'[j].again = job[j].again
      /\ job'[j].status = job[j].status \/ job[j].status = "running"
  BY <1>1, <1>2, BecameRow
<1>4. /\ UNCHANGED worker \/ \A w \in Worker : worker'[w] = Idle
      /\ backoff' \subseteq backoff /\ promoting' \subseteq promoting
  BY DEF Start, Crash, StopDone, LoseMemory, timers
<1>5. /\ Waiting(j)' \subseteq Waiting(j)
      /\ \A w \in Worker : Holds(w, j)' => Holds(w, j)
  BY <1>4 DEF Waiting, Holds, JobOf, Idle, Active
<1>6. OneIf(j \in backoff') + OneIf(j \in promoting')
         <= OneIf(j \in backoff) + OneIf(j \in promoting)
  BY <1>4 DEF OneIf
<1>7. MayFail(j)' => MayFail(j)
  BY <1>3, <1>5 DEF MayFail
<1>8. IsFiniteSet(Waiting(j))' /\ Timers(j)' <= Timers(j)
  BY <1>1, <1>5, <1>6, TimersShrink
<1> QED
  BY <1>1, <1>3, <1>7, <1>8, SameNumbers

LEMMA ClaimFrugal ==
    ASSUME TypeOK, BudgetInv, NEW w \in Worker, NEW i \in Job,
           Claim(w, i) \/ ClaimLost(w, i), NEW j \in Job
    PROVE  IsFiniteSet(Waiting(j))' /\ Frugal(j)
<1>1. RowsTypeOK /\ WorkersTypeOK /\ IsFiniteSet(Waiting(j))
  BY DEF TypeOK, BudgetInv
<1>2. job[i].status = "pending" /\ worker[w] = Idle /\ UNCHANGED <<backoff, promoting>>
  BY DEF Claim, ClaimLost, Claimable, timers
<1>3. job'[j] = job[j] \/ (j = i /\ Became(j, "running"))
  BY TransitionSplits DEF Claim, ClaimLost
<1>4. job'[j].retries = job[j].retries /\ job'[j].again = job[j].again
  BY <1>1, <1>3, BecameRow
<1>5. /\ \A v \in Worker : v # w => worker'[v] = worker[v]
      /\ worker'[w] = Idle \/ (worker'[w].pc = "claimed" /\ worker'[w].job = i)
  BY <1>1, <1>2 DEF Claim, ClaimLost, WorkersTypeOK, At, Idle
<1>6. /\ Waiting(j)' \subseteq Waiting(j)
      /\ j # i => \A v \in Worker : Holds(v, j)' => Holds(v, j)
  BY <1>5 DEF Waiting, JobOf, Holds, Idle, Active
<1>7. MayFail(j)' => MayFail(j)
  BY <1>2, <1>3, <1>6 DEF MayFail
<1>8. IsFiniteSet(Waiting(j))' /\ Timers(j)' <= Timers(j)
  BY <1>1, <1>2, <1>6, TimersShrink DEF OneIf
<1> QED
  BY <1>1, <1>4, <1>7, <1>8, SameNumbers

\* A failure of the only worker on a job ends its attempt, and sets a timer only
\* while the count the job was claimed with leaves one.
LEMMA FailFrugal ==
    ASSUME TypeOK, HoldersInv, BudgetInv, NEW w \in Worker, WorkerDoes(w), Fails(w),
           UNCHANGED backoff, NEW j \in Job, j = JobOf(w)
    PROVE  IsFiniteSet(Waiting(j))' /\ Frugal(j)
<1>1. RowsTypeOK /\ WorkersTypeOK /\ IsFiniteSet(Waiting(j)) /\ UNCHANGED promoting
  BY DEF TypeOK, BudgetInv, WorkerDoes
<1>2. /\ job'[j].retries = job[j].retries + 1 /\ job'[j].again = job[j].again
      /\ job'[j].status = "failed"
  <2>1. job'[j] = [job[j] EXCEPT !.status = "failed", !.retries = job[j].retries + 1]
    BY DEF Fails, RowOf
  <2> QED
    BY <1>1, <2>1 DEF RowsTypeOK, RowType
<1>3. Holds(w, j) /\ MayFail(j)
  BY DEF Fails, Leaves, Holds, JobOf, MayFail
<1>4. ~MayFail(j)'
  <2>1. ASSUME NEW v \in Worker, Holds(v, j)' PROVE FALSE
    <3>1. v # w
      BY <2>1 DEF Fails, Leaves, Holds
    <3>2. Holds(v, j)
      BY <2>1, <3>1 DEF WorkerDoes, Holds
    <3> QED
      BY <1>3, <3>1, <3>2 DEF HoldersInv, OneWorkerPerJob
  <2> QED
    BY <1>2, <2>1 DEF MayFail
<1>5. Attempt(j) = 1 /\ Attempt(j)' = 0
  BY <1>3, <1>4 DEF Attempt, OneIf
<1>6. w \notin Waiting(j)
  BY DEF Waiting, Fails, Leaves, Active
<1>7. OneIf(j \in backoff') = OneIf(j \in backoff) /\ OneIf(j \in promoting') = OneIf(j \in promoting)
  BY <1>1
<1>8. Timers(j) \in Nat
  BY <1>1, TimersNat
<1>9. CASE Exhausted(w)
  <2>1. Waiting(j)' = Waiting(j)
    BY <1>6, <1>9 DEF Waiting, JobOf, WorkerDoes, Fails
  <2>2. IsFiniteSet(Waiting(j))' /\ Timers(j)' = Timers(j)
    BY <1>1, <1>7, <2>1 DEF Timers
  <2> QED
    BY <1>2, <1>5, <1>8, <2>2 DEF Frugal
<1>10. CASE ~Exhausted(w)
  <2>1. worker[w].tries = job[j].retries /\ job[j].retries + 1 < MaxRetries
    BY <1>1, <1>3, <1>10, BoundAssumption DEF BudgetInv, TriesKnown, Exhausted,
       WorkersTypeOK, WorkerType
  <2>2. Waiting(j)' = Waiting(j) \cup {w}
    BY <1>10 DEF Waiting, JobOf, WorkerDoes, Fails
  <2>3. /\ IsFiniteSet(Waiting(j))'
        /\ Cardinality(Waiting(j))' = Cardinality(Waiting(j)) + 1
    BY <1>1, <1>6, <2>2, FS_AddElement
  <2>4. Timers(j)' = Timers(j) + 1
    BY <1>1, <1>7, <2>3, TimersNat DEF Timers, OneIf
  <2> QED
    BY <1>2, <1>5, <1>8, <2>1, <2>3, <2>4 DEF Frugal
<1> QED
  BY <1>9, <1>10

LEMMA WorkerFrugal ==
    ASSUME TypeOK, HoldersInv, BudgetInv, NEW w \in Worker, WorkerDoes(w), NEW j \in Job
    PROVE  IsFiniteSet(Waiting(j))' /\ Frugal(j)
<1>1. /\ RowsTypeOK /\ WorkersTypeOK /\ IsFiniteSet(Waiting(j)) /\ UNCHANGED promoting
      /\ \A v \in Worker : v # w => worker'[v] = worker[v]
  BY DEF TypeOK, BudgetInv, WorkerDoes
<1>2. CASE Fails(w) /\ j = JobOf(w)
  <2>1. UNCHANGED backoff
    BY <1>2 DEF WorkerDoes, Fails, Idles, Leaves
  <2> QED
    BY <1>2, <2>1, FailFrugal
<1>3. CASE ~(Fails(w) /\ j = JobOf(w))
  <2>1. job'[j].retries = job[j].retries /\ job'[j].again = job[j].again
    <3>1. CASE j # JobOf(w)
      BY <3>1 DEF WorkerDoes, OnlyRow, CompletesUnverified, CompletesVerified, Drops,
         Yields, Fails, Idles
    <3>2. CASE j = JobOf(w)
      BY ZenonT(60), <1>1, <1>3, <3>2, BecameRow DEF WorkerDoes, CompletesUnverified,
         CompletesVerified, Drops, Yields, Idles, RowOf, RowsTypeOK, RowType
    <3> QED
      BY <3>1, <3>2
  <2>2. worker'[w].pc = "backingoff" => j # JobOf(w) /\ worker'[w].job # j
    BY <1>3 DEF WorkerDoes, Continues, Active, CompletesUnverified, CompletesVerified,
       Drops, Yields, Fails, Idles, JobOf
  <2>3. w \notin Waiting(j)'
    BY <2>2 DEF Waiting, JobOf
  <2>4. Waiting(j)' \subseteq Waiting(j) \ {w}
    BY <1>1, <2>3 DEF Waiting, JobOf
  <2>5. MayFail(j)' => MayFail(j)
    <3>1. CASE Holds(w, j)
      BY <3>1 DEF MayFail
    <3>2. CASE ~Holds(w, j)
      <4>1. ~Holds(w, j)'
        BY <3>2 DEF WorkerDoes, Continues, Leaves, CompletesUnverified, CompletesVerified,
           Drops, Yields, Fails, Idles, Holds
      <4>2. job'[j] = job[j]
        BY <3>2 DEF WorkerDoes, Continues, Leaves, CompletesUnverified, CompletesVerified,
           Drops, Yields, Fails, Idles, Holds, OnlyRow, JobOf
      <4>3. \A v \in Worker : Holds(v, j)' => Holds(v, j)
        BY <1>1, <4>1 DEF Holds
      <4> QED
        BY <4>2, <4>3 DEF MayFail
    <3> QED
      BY <3>1, <3>2
  <2>6. IsFiniteSet(Waiting(j))' /\ Timers(j)' <= Timers(j)
    <3>1. CASE j \in backoff' => j \in backoff
      <4>1. OneIf(j \in backoff') + OneIf(j \in promoting')
              <= OneIf(j \in backoff) + OneIf(j \in promoting)
        BY <1>1, <3>1 DEF OneIf
      <4> QED
        BY <1>1, <2>4, <4>1, TimersShrink
    <3>2. CASE j \in backoff' /\ j \notin backoff
      <4>1. worker[w].pc = "backingoff" /\ j = JobOf(w)
        BY <3>2 DEF WorkerDoes
      <4>2. w \in Waiting(j)
        BY <4>1 DEF Waiting
      <4>3. /\ IsFiniteSet(Waiting(j) \ {w})
            /\ Cardinality(Waiting(j) \ {w}) = Cardinality(Waiting(j)) - 1
        BY <1>1, <4>2, FS_RemoveElement
      <4>4. /\ IsFiniteSet(Waiting(j)')
            /\ Cardinality(Waiting(j)') <= Cardinality(Waiting(j) \ {w})
        BY <2>4, <4>3, FS_Subset
      <4>5. Cardinality(Waiting(j)') \in Nat /\ Cardinality(Waiting(j)) \in Nat
        BY <1>1, <4>4, FS_CardinalityType
      <4>6. OneIf(j \in promoting') = OneIf(j \in promoting)
        BY <1>1
      <4> QED
        BY <3>2, <4>3, <4>4, <4>5, <4>6 DEF Timers, OneIf
    <3> QED
      BY <3>1, <3>2
  <2> QED
    BY <1>1, <2>1, <2>5, <2>6, SameNumbers
<1> QED
  BY <1>2, <1>3

\* A user's requeue pays for the attempt it gives.
LEMMA RequestFrugal ==
    ASSUME TypeOK, RowsKnown, BudgetInv, RequestDoes, NEW j \in Job
    PROVE  IsFiniteSet(Waiting(j))' /\ Frugal(j)
<1>1. /\ RowsTypeOK /\ IsFiniteSet(Waiting(j)) /\ UNCHANGED <<worker, promoting>>
      /\ backoff' \subseteq backoff /\ Asked(j)
  BY DEF TypeOK, BudgetInv, RequestDoes
<1>2. Waiting(j)' = Waiting(j) /\ \A w \in Worker : Holds(w, j)' = Holds(w, j)
  BY <1>1, WaitingStays
<1>3. OneIf(j \in backoff') + OneIf(j \in promoting')
         <= OneIf(j \in backoff) + OneIf(j \in promoting)
  BY <1>1 DEF OneIf
<1>4. IsFiniteSet(Waiting(j))' /\ Timers(j)' <= Timers(j)
  BY <1>1, <1>2, <1>3, TimersShrink
<1>5. CASE job'[j] = job[j]
  BY <1>1, <1>3, <1>5, RowStays
<1>6. CASE Fresh(j)
  <2>1. job[j] = NoRow /\ job[j].status = "absent" /\ job[j].retries = 0 /\ job[j].again = 0
    BY <1>6 DEF Fresh, RowsKnown, NoRow
  <2>2. job'[j].retries = 0 /\ job'[j].again = 0
    BY <1>6, NewRowIs DEF Fresh
  <2> QED
    BY <1>1, <1>4, <2>1, <2>2, SameNumbers DEF MayFail
<1>7. CASE Shelved(j) \/ Requeued(j)
  <2>1. /\ job'[j].retries = job[j].retries /\ job'[j].again = job[j].again
        /\ job'[j].status \in {"paused", "cancelled", "pending"}
        /\ job'[j].status # "cancelled" => job[j].status \in {"pending", "paused", "opted_out"}
    BY <1>1, <1>7, BecameRow DEF Shelved, Requeued
  <2>2. MayFail(j)' => MayFail(j)
    BY <1>2, <2>1 DEF MayFail
  <2> QED
    BY <1>1, <1>4, <2>1, <2>2, SameNumbers
<1>8. CASE Reopened(j)
  <2>1. job'[j].retries = job[j].retries /\ job'[j].again = job[j].again + 1
    BY <1>1, <1>8 DEF Reopened, RowsTypeOK, RowType
  <2>2. Attempt(j) \in {0, 1} /\ Attempt(j)' \in {0, 1}
    BY DEF Attempt, OneIf
  <2>3. Timers(j) \in Nat /\ Timers(j)' \in Nat
    <3>1. Cardinality(Waiting(j))' \in Nat
      BY <1>4, FS_CardinalityType
    <3> QED
      BY <1>1, <3>1, TimersNat DEF Timers, OneIf
  <2> QED
    BY <1>4, <2>1, <2>2, <2>3 DEF Frugal
<1> QED
  BY <1>1, <1>5, <1>6, <1>7, <1>8 DEF Asked

\* The scheduler's requeue spends the timer.
LEMMA PromoteFrugal ==
    ASSUME TypeOK, BudgetInv, PromoteDoes, NEW j \in Job
    PROVE  IsFiniteSet(Waiting(j))' /\ Frugal(j)
<1>1. RowsTypeOK /\ IsFiniteSet(Waiting(j)) /\ UNCHANGED <<worker, backoff>>
  BY DEF TypeOK, BudgetInv, PromoteDoes
<1>2. PICK i \in promoting :
        /\ promoting' = promoting \ {i}
        /\ \A k \in Job : k # i => job'[k] = job[k]
        /\ job'[i] = job[i] \/ (job[i].status = "failed" /\ Became(i, "pending"))
  BY DEF PromoteDoes
<1>3. CASE job'[j] = job[j]
  <2>1. OneIf(j \in backoff') + OneIf(j \in promoting')
          <= OneIf(j \in backoff) + OneIf(j \in promoting)
    BY <1>1, <1>2 DEF OneIf
  <2> QED
    BY <1>1, <1>3, <2>1, RowStays
<1>4. CASE job'[j] # job[j]
  <2>1. j = i /\ Became(j, "pending")
    BY <1>2, <1>4
  <2>2. job'[j].retries = job[j].retries /\ job'[j].again = job[j].again
    BY <1>1, <2>1, BecameRow
  <2>3. Waiting(j)' = Waiting(j)
    BY <1>1, WaitingStays
  <2>4. Timers(j)' = Timers(j) - 1
    BY <1>1, <1>2, <2>1, <2>3, TimersNat DEF Timers, OneIf
  <2>5. Attempt(j) \in {0, 1} /\ Attempt(j)' \in {0, 1}
    BY DEF Attempt, OneIf
  <2>6. Timers(j) \in Nat
    BY <1>1, TimersNat
  <2>7. Attempt(j)' + Timers(j)' <= Attempt(j) + Timers(j)
    BY <2>4, <2>5, <2>6
  <2> QED
    BY <1>1, <2>2, <2>3, <2>7 DEF Frugal
<1> QED
  BY <1>3, <1>4

LEMMA QuietFrugal ==
    ASSUME TypeOK, BudgetInv, QuietDoes, NEW j \in Job
    PROVE  IsFiniteSet(Waiting(j))' /\ Frugal(j)
<1>1. /\ IsFiniteSet(Waiting(j)) /\ UNCHANGED worker /\ job'[j] = job[j]
      /\ \/ UNCHANGED <<backoff, promoting>>
         \/ /\ promoting = {} /\ promoting' \subseteq backoff
            /\ backoff' = backoff \ promoting'
  BY DEF BudgetInv, QuietDoes
<1>2. OneIf(j \in backoff') + OneIf(j \in promoting')
         <= OneIf(j \in backoff) + OneIf(j \in promoting)
  BY <1>1 DEF OneIf
<1> QED
  BY <1>1, <1>2, RowStays

\* A worker knows the retry count of the job it holds: nobody else fails it.
LEMMA TriesNext ==
    ASSUME TypeOK, HoldersInv, BudgetInv, [Next]_vars
    PROVE  TriesKnown'
<1>1. RowsTypeOK /\ WorkersTypeOK /\ TriesKnown
  BY DEF TypeOK, BudgetInv
<1>2. ASSUME UNCHANGED worker, \A j \in Job : Exists(j) => job'[j].retries = job[j].retries
      PROVE  TriesKnown'
  <2>1. \A w \in Worker, j \in Job : Holds(w, j) => Exists(j)
    BY <1>1 DEF Holds, Active, WorkersTypeOK, JobOf
  <2> QED
    BY <1>1, <1>2, <2>1 DEF TriesKnown, Holds
<1>3. ASSUME \A w \in Worker : worker'[w] = Idle PROVE TriesKnown'
  BY <1>3 DEF TriesKnown, Holds, Idle, Active
<1>4. CASE Start
  <2>1. \A j \in Job : job'[j].retries = job[j].retries
    BY <1>1, <1>4, TransitionSplits, BecameRow DEF Start, ResetRunning
  <2> QED
    BY <1>2, <1>4, <2>1 DEF Start
<1>5. CASE Crash \/ StopDone
  BY <1>3, <1>5 DEF Crash, StopDone, LoseMemory
<1>6. ASSUME NEW w \in Worker, NEW i \in Job, Claim(w, i) \/ ClaimLost(w, i)
      PROVE  TriesKnown'
  <2>1. \A j \in Job : job'[j].retries = job[j].retries
    BY <1>1, <1>6, TransitionSplits, BecameRow DEF Claim, ClaimLost
  <2>2. CASE ClaimLost(w, i)
    BY <1>2, <2>1, <2>2 DEF ClaimLost
  <2>3. CASE Claim(w, i)
    <3>1. /\ \A v \in Worker : v # w => worker'[v] = worker[v]
          /\ worker'[w] = [At("claimed", i) EXCEPT !.tries = job[i].retries]
      BY <1>1, <2>3 DEF Claim, WorkersTypeOK
    <3>2. worker'[w].job = i /\ worker'[w].tries = job[i].retries
      BY <3>1 DEF At, Idle
    <3>3. ASSUME NEW v \in Worker, NEW j \in Job, Holds(v, j)'
          PROVE  worker'[v].tries = job'[j].retries
      <4>1. CASE v = w
        BY <2>1, <3>2, <3>3, <4>1 DEF Holds
      <4>2. CASE v # w
        BY <1>1, <2>1, <3>1, <3>3, <4>2 DEF TriesKnown, Holds
      <4> QED
        BY <4>1, <4>2
    <3> QED
      BY <3>3 DEF TriesKnown
  <2> QED
    BY <1>6, <2>2, <2>3
<1>7. ASSUME NEW w \in Worker, WorkerDoes(w) PROVE TriesKnown'
  <2> SUFFICES ASSUME NEW v \in Worker, NEW j \in Job, Holds(v, j)'
               PROVE  worker'[v].tries = job'[j].retries
    BY DEF TriesKnown
  <2>1. CASE v = w
    <3>1. Continues(w)
      BY <1>7, <2>1 DEF WorkerDoes, CompletesUnverified, CompletesVerified, Drops, Yields,
         Fails, Idles, Leaves, Holds
    <3>2. Holds(w, j) /\ worker'[w].tries = worker[w].tries /\ JobOf(w) = j
      BY <2>1, <3>1 DEF Continues, Holds, JobOf
    <3>3. UNCHANGED job \/ CompletesUnverified(w)
      BY <1>7, <3>1 DEF WorkerDoes, CompletesVerified, Drops, Yields, Fails, Idles, Leaves,
         Continues
    <3>4. job'[j].retries = job[j].retries
      BY <1>1, <3>2, <3>3 DEF CompletesUnverified, RowOf, RowsTypeOK, RowType
    <3> QED
      BY <1>1, <2>1, <3>2, <3>4 DEF TriesKnown
  <2>2. CASE v # w
    <3>1. Holds(v, j) /\ worker'[v] = worker[v]
      BY <1>7, <2>2 DEF WorkerDoes, Holds
    <3>2. ~Holds(w, j)
      BY <2>2, <3>1 DEF HoldersInv, OneWorkerPerJob
    <3>3. job'[j] = job[j]
      BY <1>7, <3>2 DEF WorkerDoes, Continues, Leaves, CompletesUnverified,
         CompletesVerified, Drops, Yields, Fails, Idles, Holds, OnlyRow, JobOf
    <3> QED
      BY <1>1, <3>1, <3>3 DEF TriesKnown
  <2> QED
    BY <2>1, <2>2
<1>8. CASE RequestDoes
  <2>1. ASSUME NEW j \in Job, Exists(j) PROVE job'[j].retries = job[j].retries
    <3>1. \/ job'[j] = job[j] \/ Reopened(j)
          \/ \E status : Became(j, status)
      BY <1>8, <2>1 DEF RequestDoes, Asked, Fresh, Shelved, Requeued
    <3> QED
      BY <1>1, <3>1, BecameRow DEF Reopened, RowsTypeOK, RowType
  <2> QED
    BY <1>2, <1>8, <2>1 DEF RequestDoes
<1>9. CASE PromoteDoes
  <2>1. ASSUME NEW j \in Job PROVE job'[j].retries = job[j].retries
    BY <1>1, <1>9, BecameRow DEF PromoteDoes
  <2> QED
    BY <1>2, <1>9, <2>1 DEF PromoteDoes
<1>10. CASE QuietDoes
  BY <1>2, <1>10 DEF QuietDoes
<1> QED
  BY <1>4, <1>5, <1>6, <1>7, <1>8, <1>9, <1>10, StepDid

LEMMA BudgetNext ==
    ASSUME TypeOK, QueueInv, OptOutInv, BudgetInv, [Next]_vars
    PROVE  BudgetInv'
<1>1. HoldersInv /\ RowsKnown
  BY DEF QueueInv, HoldersInv, OptOutInv
<1>2. ASSUME NEW j \in Job PROVE IsFiniteSet(Waiting(j))' /\ Balanced(j)'
  <2>1. IsFiniteSet(Waiting(j))' /\ Frugal(j)
    BY <1>1, StepDid, RestartFrugal, ClaimFrugal, WorkerFrugal, RequestFrugal,
       PromoteFrugal, QuietFrugal
  <2>2. Numbers(j)
    BY DEF TypeOK, RowsTypeOK, RowType, Numbers
  <2> QED
    BY <2>1, <2>2, BalanceKept DEF BudgetInv
<1> QED
  BY <1>1, <1>2, TriesNext DEF BudgetInv

LEMMA BudgetInvCorrect == Spec => []BudgetInv
<1>1. ASSUME Init PROVE BudgetInv
  <2>1. /\ \A w \in Worker : worker[w] = Idle
        /\ \A j \in Job : job[j] = NoRow
        /\ backoff = {} /\ promoting = {}
    BY <1>1 DEF Init
  <2>2. TriesKnown
    BY <2>1 DEF TriesKnown, Holds, Idle, Active
  <2>3. ASSUME NEW j \in Job PROVE IsFiniteSet(Waiting(j)) /\ Balanced(j)
    <3>1. Waiting(j) = {}
      BY <2>1 DEF Waiting, Idle
    <3>2. IsFiniteSet(Waiting(j)) /\ Cardinality(Waiting(j)) = 0
      BY <3>1, FS_EmptySet
    <3>3. Timers(j) = 0
      BY <2>1, <3>2 DEF Timers, OneIf
    <3>4. Attempt(j) = 1
      BY <2>1 DEF Attempt, OneIf, MayFail, NoRow
    <3>5. job[j].retries = 0 /\ job[j].again = 0
      BY <2>1 DEF NoRow
    <3> QED
      BY <3>2, <3>3, <3>4, <3>5, BoundAssumption DEF Balanced, Rearmed
  <2> QED
    BY <2>2, <2>3 DEF BudgetInv
<1>2. TypeOK /\ QueueInv /\ OptOutInv /\ BudgetInv /\ [Next]_vars => BudgetInv'
  BY BudgetNext
<1> QED
  BY <1>1, <1>2, TypeCorrect, QueueInvCorrect, OptOutInvCorrect, PTL DEF Spec

\* Automatic retries stop at MaxRetries: a row's retry count exceeds it by no more
\* than the requeues its users asked for (Manager.handle, promoteReady and
\* BackupRepo.Requeue), whatever timers a requeue overtakes.
THEOREM RetryBudgetCorrect == Spec => []RetryBudget
<1>1. TypeOK /\ BudgetInv => RetryBudget
  <2> SUFFICES ASSUME TypeOK, BudgetInv, NEW j \in Job
               PROVE  job[j].retries <= MaxRetries + job[j].again
    BY DEF RetryBudget
  <2>1. job[j].retries \in Nat /\ job[j].again \in Nat
    BY DEF TypeOK, RowsTypeOK, RowType
  <2>2. Timers(j) \in Nat /\ Attempt(j) \in {0, 1} /\ Balanced(j)
    BY TimersNat, AttemptNat DEF BudgetInv
  <2> QED
    BY <2>1, <2>2, BoundAssumption DEF Balanced, Rearmed
<1> QED
  BY <1>1, TypeCorrect, BudgetInvCorrect, PTL

------------------------------------------------------------------------------
(* The queue implements the ledger *)

LEMMA EntryIs ==
    ASSUME NEW row
    PROVE  /\ row.status = "absent" => EntryOf(row) = "absent"
           /\ row.status = "pending" => EntryOf(row) = "queued"
           /\ row.status = "running" => EntryOf(row) = "sending"
           /\ row.status = "completed" /\ row.copy \in Target => EntryOf(row) = "stored"
           /\ row.status = "completed" /\ row.copy \notin Target => EntryOf(row) = "noted"
           /\ row.status \in {"paused", "failed", "cancelled", "opted_out"}
                => EntryOf(row) = "parked"
  BY DEF EntryOf

LEMMA EntryTyped ==
    ASSUME NEW row, row.status \in JobStatus \cup {"absent"}
    PROVE  EntryOf(row) \in Ledger!States
  BY EntryIs DEF JobStatus, Ledger!States

\* A row is being sent exactly when it is running.
LEMMA SendingIsRunning ==
    ASSUME TypeOK, NEW j \in Job, EntryOf(job[j]) = "sending"
    PROVE  job[j].status = "running"
<1>1. job[j].status \in JobStatus \cup {"absent"}
  BY DEF TypeOK, RowsTypeOK, RowType
<1> QED
  BY <1>1, EntryIs DEF JobStatus

LEMMA FlightStays ==
    ASSUME \A w \in Worker, j \in Job : Holds(w, j)' <=> Holds(w, j)
    PROVE  Flight' = Flight
  BY DEF Flight

\* A worker that lets go of its job takes it, and nothing else, out of flight.
LEMMA FlightEnds ==
    ASSUME TypeOK, HoldersInv, NEW w \in Worker, WorkerDoes(w), Leaves(w)
    PROVE  /\ JobOf(w) \in Flight
           /\ Flight' = Flight \ {JobOf(w)}
<1>1. JobOf(w) \in Job
  BY DEF TypeOK, WorkersTypeOK, WorkerDoes
<1>2. Holds(w, JobOf(w))
  BY DEF Leaves, Holds, JobOf
<1>3. \A v \in Worker, j \in Job : Holds(v, j)' <=> (Holds(v, j) /\ v # w)
  BY DEF WorkerDoes, Leaves, Holds
<1>4. \A v \in Worker, j \in Job : Holds(v, j) /\ v # w => j # JobOf(w)
  BY <1>1, <1>2 DEF HoldersInv, OneWorkerPerJob
<1>5. \A v \in Worker, j \in Job : Holds(v, j) /\ j # JobOf(w) => v # w
  BY DEF Holds, JobOf
<1> QED
  BY <1>1, <1>2, <1>3, <1>4, <1>5 DEF Flight

\* The other entries follow their rows.
LEMMA OneEntry ==
    ASSUME TypeOK, NEW i \in Job, \A j \in Job : j # i => job'[j] = job[j]
    PROVE  Entry' = [Entry EXCEPT ![i] = EntryOf(job'[i])]
  BY DEF Entry

LEMMA WorkerLedger ==
    ASSUME TypeOK, HoldersInv, NEW w \in Worker, WorkerDoes(w)
    PROVE  [Ledger!Next]_<<Entry, Flight>>
<1> DEFINE e == JobOf(w)
<1>1. /\ e \in Job /\ RowsTypeOK /\ WorkersTypeOK
      /\ \A v \in Worker : v # w => worker'[v] = worker[v]
  BY DEF TypeOK, WorkersTypeOK, WorkerDoes
<1>2. UNCHANGED job => UNCHANGED Entry
  BY DEF Entry
<1>3. Continues(w) => UNCHANGED Flight /\ e \in Flight
  <2>1. ASSUME Continues(w) PROVE \A v \in Worker, j \in Job : Holds(v, j)' <=> Holds(v, j)
    BY <1>1, <2>1 DEF Continues, Holds
  <2>2. ASSUME Continues(w) PROVE e \in Flight
    BY <1>1, <2>2 DEF Continues, Flight, Holds, JobOf
  <2> QED
    BY <2>1, <2>2, FlightStays
<1>4. Leaves(w) => e \in Flight /\ Flight' = Flight \ {e}
  BY FlightEnds
<1>5. OnlyRow(w) => Entry' = [Entry EXCEPT ![e] = EntryOf(job'[e])]
  BY <1>1, OneEntry DEF OnlyRow
<1> HIDE DEF e
<1>6. CASE Continues(w) /\ UNCHANGED job
  BY <1>2, <1>3, <1>6
<1>7. CASE CompletesUnverified(w)
  <2>1. EntryOf(job'[e]) = "noted"
    <3>1. job'[e].status = "completed" /\ job'[e].copy = "noted"
      BY <1>1, <1>7 DEF CompletesUnverified, RowOf, RowsTypeOK, RowType, e
    <3> QED
      BY <3>1, EntryIs, NoneAssumption
  <2>2. /\ Entry' = [Entry EXCEPT ![e] = "noted"]
        /\ e \in Flight /\ Flight' \in {Flight, Flight \ {e}}
    BY <1>3, <1>4, <1>5, <1>7, <2>1 DEF CompletesUnverified
  <2>3. Ledger!DeliverUnverified(e)
    BY <2>2 DEF Ledger!DeliverUnverified
  <2> QED
    BY <1>1, <2>3 DEF Ledger!Next
<1>8. CASE CompletesVerified(w)
  <2>1. EntryOf(job'[e]) = "stored"
    <3>1. job'[e].status = "completed" /\ job'[e].copy \in Target
      BY <1>1, <1>8 DEF CompletesVerified, RowOf, RowsTypeOK, RowType, e
    <3> QED
      BY <3>1, EntryIs
  <2>2. Ledger!Deliver(e)
    BY <1>4, <1>5, <1>8, <2>1 DEF CompletesVerified, Ledger!Deliver
  <2> QED
    BY <1>1, <2>2 DEF Ledger!Next
<1>9. CASE Drops(w)
  <2>1. Ledger!LetGo(e)
    BY <1>2, <1>4, <1>9 DEF Drops, Ledger!LetGo
  <2> QED
    BY <1>1, <2>1 DEF Ledger!Next
<1>10. CASE Yields(w)
  <2>1. CASE UNCHANGED job
    <3>1. Ledger!LetGo(e)
      BY <1>2, <1>4, <1>10, <2>1 DEF Yields, Ledger!LetGo
    <3> QED
      BY <1>1, <3>1 DEF Ledger!Next
  <2>2. CASE RowOf(w).status = "running" /\ Became(e, "pending")
    <3>1. EntryOf(job[e]) = "sending" /\ EntryOf(job'[e]) = "queued"
      BY <1>1, <2>2, EntryIs, BecameRow DEF RowOf, e
    <3>2. Entry[e] = "sending" /\ Entry' = [Entry EXCEPT ![e] = "queued"]
      BY <1>1, <1>5, <1>10, <3>1 DEF Yields, Entry
    <3>3. Ledger!LetGo(e)
      BY <1>4, <1>10, <3>2 DEF Yields, Ledger!LetGo
    <3> QED
      BY <1>1, <3>3 DEF Ledger!Next
  <2> QED
    BY <1>10, <2>1, <2>2 DEF Yields, e
<1>11. CASE Fails(w)
  <2>1. EntryOf(job'[e]) = "parked"
    <3>1. job'[e] = [job[e] EXCEPT !.status = "failed", !.retries = job[e].retries + 1]
      BY <1>11 DEF Fails, RowOf, e
    <3>2. job'[e].status = "failed"
      BY <1>1, <3>1 DEF RowsTypeOK, RowType
    <3> QED
      BY <3>2, EntryIs
  <2>2. Ledger!LetGo(e)
    BY <1>4, <1>5, <1>11, <2>1 DEF Fails, Ledger!LetGo
  <2> QED
    BY <1>1, <2>2 DEF Ledger!Next
<1>12. CASE Idles(w)
  <2>1. \A v \in Worker, j \in Job : Holds(v, j)' <=> Holds(v, j)
    BY <1>1, <1>12 DEF Idles, Holds
  <2> QED
    BY <1>2, <1>12, <2>1, FlightStays DEF Idles
<1> QED
  BY <1>6, <1>7, <1>8, <1>9, <1>10, <1>11, <1>12 DEF WorkerDoes

\* Requests of any kind move entries in the ways a ledger allows.
LEMMA AskedLedger ==
    ASSUME TypeOK, TypeOK', HoldersInv, UNCHANGED worker,
           \A j \in Job : Asked(j) \/ (job[j].status = "failed" /\ Became(j, "pending"))
    PROVE  Ledger!Request
<1>1. RowsTypeOK
  BY DEF TypeOK
<1>2. UNCHANGED Flight
  BY FlightStays DEF Holds
<1>3. Entry' \in [Job -> Ledger!States]
  <2>1. \A j \in Job : job'[j].status \in JobStatus \cup {"absent"}
    BY DEF TypeOK, RowsTypeOK, RowType
  <2> QED
    BY <2>1, EntryTyped DEF Entry
<1>4. ASSUME NEW j \in Job
      PROVE  Entry'[j] = Entry[j] \/ Ledger!Requested(j)
  <2>1. Entry[j] = EntryOf(job[j]) /\ Entry'[j] = EntryOf(job'[j])
    BY DEF Entry
  <2>2. job[j].status \in {"paused", "failed", "opted_out"} => j \notin Flight
    BY DEF Flight, HoldersInv, HeldIsOpen
  <2>3. CASE job'[j] = job[j]
    BY <2>1, <2>3
  <2>4. CASE Fresh(j)
    <3>1. job[j].status = "absent" /\ job'[j].status \in {"pending", "opted_out"}
      BY <2>4, NewRowIs DEF Fresh, Exists
    <3> QED
      BY <2>1, <3>1, EntryIs DEF Ledger!Requested
  <2>5. CASE Shelved(j)
    <3>1. /\ job[j].status \in {"pending", "running", "paused", "failed"}
          /\ job'[j].status \in {"paused", "cancelled"}
      BY <1>1, <2>5, BecameRow DEF Shelved
    <3> QED
      BY <2>1, <3>1, EntryIs DEF Ledger!Requested
  <2>6. ASSUME job[j].status \in {"paused", "failed", "opted_out"},
               job'[j].status = "pending"
        PROVE  Ledger!Requested(j)
    BY <2>1, <2>2, <2>6, EntryIs DEF Ledger!Requested
  <2>7. CASE Requeued(j) \/ (job[j].status = "failed" /\ Became(j, "pending"))
    BY <1>1, <2>6, <2>7, BecameRow DEF Requeued
  <2>8. CASE Reopened(j)
    <3>1. job'[j].status = "pending"
      BY <1>1, <2>8 DEF Reopened, RowsTypeOK, RowType
    <3> QED
      BY <2>6, <2>8, <3>1 DEF Reopened
  <2> QED
    BY <2>3, <2>4, <2>5, <2>7, <2>8 DEF Asked
<1> QED
  BY <1>2, <1>3, <1>4 DEF Ledger!Request

LEMMA ClaimLedger ==
    ASSUME TypeOK, NEW w \in Worker, NEW i \in Job, Claim(w, i) \/ ClaimLost(w, i)
    PROVE  Ledger!Dispatch(i)
<1>1. RowsTypeOK /\ WorkersTypeOK /\ job[i].status = "pending" /\ worker[w] = Idle
  BY DEF TypeOK, Claim, ClaimLost, Claimable
<1>2. Transition({i}, {"pending"}, "running")
  BY DEF Claim, ClaimLost
<1>3. Became(i, "running") /\ \A j \in Job : j # i => job'[j] = job[j]
  BY <1>1, <1>2 DEF Became, Transition
<1>4. Entry' = [Entry EXCEPT ![i] = "sending"]
  <2>1. EntryOf(job'[i]) = "sending"
    BY <1>1, <1>3, BecameRow, EntryIs
  <2> QED
    BY <1>3, <2>1, OneEntry
<1>5. Entry[i] = "queued"
  BY <1>1, EntryIs DEF Entry
<1>6. Flight' \in {Flight, Flight \cup {i}}
  <2>1. CASE ClaimLost(w, i)
    BY <2>1, FlightStays DEF ClaimLost, Holds
  <2>2. CASE Claim(w, i)
    <3>1. /\ \A v \in Worker : v # w => worker'[v] = worker[v]
          /\ worker'[w] = [At("claimed", i) EXCEPT !.tries = job[i].retries]
      BY <1>1, <2>2 DEF Claim, WorkersTypeOK
    <3>2. worker'[w].job = i /\ worker'[w].pc = "claimed"
      BY <3>1 DEF At, Idle
    <3>3. \A v \in Worker, j \in Job : v # w => (Holds(v, j)' <=> Holds(v, j))
      BY <3>1 DEF Holds
    <3>4. \A j \in Job : ~Holds(w, j)
      BY <1>1 DEF Holds, Active, Idle
    <3>5. \A j \in Job : Holds(w, j)' <=> j = i
      BY <3>2 DEF Holds, Active
    <3> QED
      BY <3>3, <3>4, <3>5 DEF Flight
  <2> QED
    BY <2>1, <2>2
<1> QED
  BY <1>4, <1>5, <1>6 DEF Ledger!Dispatch

\* What a start or the end of a shutdown reverts had no sender any more.
LEMMA RecoverLedger ==
    ASSUME TypeOK, ResetRunning, \A w \in Worker : worker[w] = Idle,
           \A w \in Worker : worker'[w] = Idle
    PROVE  Ledger!Recover
<1>1. Flight = {} /\ Flight' = {}
  BY DEF Flight, Holds, Idle, Active
<1>2. ASSUME NEW j \in Job
      PROVE  EntryOf(job'[j]) = IF EntryOf(job[j]) = "sending" THEN "queued"
                                ELSE EntryOf(job[j])
  <2>1. CASE job[j].status = "running"
    <3>1. Became(j, "pending")
      BY <2>1 DEF ResetRunning, Transition, Became
    <3> QED
      BY <2>1, <3>1, BecameRow, EntryIs DEF TypeOK
  <2>2. CASE job[j].status # "running"
    <3>1. job'[j] = job[j]
      BY <2>2 DEF ResetRunning, Transition
    <3> QED
      BY <2>2, <3>1, SendingIsRunning
  <2> QED
    BY <2>1, <2>2
<1>3. Entry' = [j \in Job |-> IF Entry[j] = "sending" THEN "queued" ELSE Entry[j]]
  BY <1>2 DEF Entry
<1> QED
  BY <1>1, <1>3 DEF Ledger!Recover

\* Every step of the queue is a step of the ledger or leaves it alone.
LEMMA LedgerStep ==
    ASSUME TypeOK, TypeOK', QueueInv, [Next]_vars
    PROVE  [Ledger!Next]_<<Entry, Flight>>
<1>1. HoldersInv /\ DownIsIdle
  BY DEF QueueInv, HoldersInv
<1>2. CASE Start
  <2>1. Ledger!Recover
    BY <1>1, <1>2, RecoverLedger DEF Start, DownIsIdle
  <2> QED
    BY <2>1 DEF Ledger!Next
<1>3. CASE StopDone
  <2>1. \A w \in Worker : worker'[w] = Idle
    BY <1>3 DEF StopDone, LoseMemory
  <2>2. Ledger!Recover
    BY <1>3, <2>1, RecoverLedger DEF StopDone
  <2> QED
    BY <2>2 DEF Ledger!Next
<1>4. CASE Crash
  <2>1. \A w \in Worker : worker'[w].pc \notin Active
    BY <1>4 DEF Crash, LoseMemory, Idle, Active
  <2>2. Flight' = {} /\ UNCHANGED Entry
    BY <1>4, <2>1 DEF Crash, database, Flight, Holds, Entry
  <2> QED
    BY <2>2 DEF Ledger!Next, Ledger!Break
<1>5. CASE \E w \in Worker, i \in Job : Claim(w, i) \/ ClaimLost(w, i)
  BY <1>5, ClaimLedger DEF Ledger!Next
<1>6. CASE \E w \in Worker : WorkerDoes(w)
  BY <1>1, <1>6, WorkerLedger
<1>7. CASE RequestDoes
  <2>1. Ledger!Request
    BY <1>1, <1>7, AskedLedger DEF RequestDoes
  <2> QED
    BY <2>1 DEF Ledger!Next
<1>8. CASE PromoteDoes
  <2>1. Ledger!Request
    BY <1>1, <1>8, AskedLedger DEF PromoteDoes, Asked
  <2> QED
    BY <2>1 DEF Ledger!Next
<1>9. CASE QuietDoes
  BY <1>9 DEF QuietDoes, Entry, Flight, Holds
<1> QED
  BY <1>2, <1>3, <1>4, <1>5, <1>6, <1>7, <1>8, <1>9, StepDid

\* The queue implements BackupLedger, step by step: one sender for each entry,
\* stored only out of flight and for good, nothing in flight reopened.
THEOREM ImplementsLedgerCorrect == Spec => ImplementsLedger
<1>1. Init => Ledger!Init
  <2> SUFFICES ASSUME Init PROVE Ledger!Init
    OBVIOUS
  <2>1. (\A j \in Job : job[j] = NoRow) /\ \A w \in Worker : worker[w] = Idle
    BY DEF Init
  <2>2. EntryOf(NoRow) = "absent"
    BY EntryIs DEF NoRow
  <2>3. \A w \in Worker, j \in Job : ~Holds(w, j)
    BY <2>1 DEF Holds, Idle, Active
  <2> QED
    BY <2>1, <2>2, <2>3 DEF Ledger!Init, Entry, Flight
<1>2. TypeOK /\ TypeOK' /\ QueueInv /\ [Next]_vars => [Ledger!Next]_<<Entry, Flight>>
  BY LedgerStep
<1> QED
  BY <1>1, <1>2, TypeCorrect, QueueInvCorrect, PTL
     DEF Spec, ImplementsLedger, Ledger!Spec, Ledger!vars
=============================================================================
