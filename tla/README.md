# Formal model of PAIM

PAIM imports photos and videos into a Master Library on a local volume, keeps a
SQLite catalog of them, and copies every asset to one or more backup
destinations. This directory holds TLA+ modules of its core, TLC
configurations that check them on small instances, and proofs that TLAPS checks
for every instance. Paths below are relative to `src/`.

| Module | What it is |
| --- | --- |
| `BackupQueue` | the backup queue: manager, workers, retry scheduler, and everything that changes queue rows |
| `BackupLedger` | what the queue promises, without workers, timers or faults; `BackupQueue` implements it |
| `Destinations` | one upload as the plugins carry it out: folder, rclone pool, cooldowns, verification |
| `ImportPipeline` | import by copy and by adoption, with start, cancel, resume and retry |
| `Archive` | what an import promises of catalog and disk, without sessions or steps; `ImportPipeline` implements it |
| `Operations` | the operations a user starts: the slot, its cancel handle, the assertion against sleep, quitting; EXTENDS `SourceIdentity` |
| `SourceIdentity` | recognising the volume at a mount point, and the sources it is recorded as |
| `Custody` | who may move, trash and re-record files of the archive: duplicate resolution, reorganize, folder rename |
| `SourceErase` | safe-to-erase, clearing a card, the cleanup assistant, ejecting |
| `Library` | opening and closing a library: lock file, legacy installation, schema migration, recovery |
| `CatalogSnapshot` | snapshots of an open catalog; EXTENDS `Library` |
| `Thumbs` | the thumbnail cache: shared calls, slot scheduler, warm-up |
| `BackupQueueProofs` | `BackupQueue`: types, the inductive invariant, custody, finality; owned jobs, opt-outs, the retry budget, and that it implements `BackupLedger` |
| `CustodyProofs` | `Custody`: one record of each content, and what becomes of the files |
| `ImportPipelineProofs` | `ImportPipeline`: types, the tally, that rows find durable files, once each, with nothing lost, and that it implements `Archive` |
| `SourceEraseProofs` | what a report, a clear and a verdict of `SourceErase` are worth |
| `LibraryProofs` | `Library` and `CatalogSnapshot`: one holder, one upgrade, a snapshot to restore from |
| `OperationsProofs` | `Operations` and `SourceIdentity`: who owns the slot, one row for a volume |
| `DestinationsProofs` | `Destinations`: when a destination is held back, what a completed job vouches for |
| `ThumbsProofs` | `Thumbs`: slots, calls, and to whom slots go |
| `MCBackupQueue`, `MCImportPipeline`, `MCLibrary`, `MCThumbs`, `MCCustody`, `MCSourceErase`, `MCDestinations`, `MCOperations` | instances for TLC |

To check: `tlc -config queue_faults.cfg MCBackupQueue`,
`tlc -config custody.cfg MCCustody`, and so on (the module of each configuration
is in `PROJECT.json` and in the tables below); `tlapm` with each of the modules
`...Proofs.tla` (`ImportPipelineProofs` and `DestinationsProofs` take the longest,
some minutes each).

## The system

One desktop process (Wails; Go behind, TypeScript in front) has one library open
at a time. `main.go` composes the services; a lock file keeps a second process
out. The parts, the state each keeps and what makes it correct:

| Component | State | Operations | What is hard | Correct if |
| --- | --- | --- | --- | --- |
| Backup queue (`internal/backup/manager.go`, `internal/repo/backup.go`) | BackupJob rows; in memory the workers, cooldowns, backoff timers, plugin cache, uploads in progress | claim, upload, verify, record, fail, back off, promote, recompute the asset's status, start, stop | several workers and the scheduler on one table; requests in between; a crash at any statement; statements that fail | one worker per job; a completion is never undone; no job is stranded; an asset is called complete only with a recorded copy; pending jobs are served |
| Backup requests (`services/backup.go`, `provider.go`, `backfill.go`, `reconcile.go`) | provider rows, one backfill | cancel, retry, pause, opt out, re-queue, change or disable a provider, backfill, reconcile | they race the workers and each other, and read the queue before they write it | an opt-out holds; a cancel holds; re-enqueueing never makes a second job |
| Plugins (`internal/backup/plugins`) | files at the destination, an rclone process | upload, verify, delete | partial uploads, rate limits, a process that dies | what was verified is there |
| Import pipeline (`internal/importer`) | archive files, partials, Asset, ImportSession and ImportFailure rows | scan, classify, copy, verify, publish, record; adopt and move; link Live Photos; resume; retry | a crash or power loss between disk and catalog; a cancel at any step; runs repeated over what the last one left | the catalog is never ahead of the disk, nothing is lost, nothing is recorded twice |
| Import service (`services/import.go`) | the one active operation, its cancel function | start, cancel, resume, retry a failed file | the state read before the slot is taken | one operation at a time; every session settles; the failure count matches the failures |
| Reorganize (`importer/reorganize.go`) | moves files of existing rows | plan, move, update the row | a crash between move and row | every row finds its file |
| Safe-to-erase, clearing, cleanup (`internal/source`, `internal/cleanup`, `services/sourceclear.go`) | a report kept for minutes | judge a card's files, move them to the trash | the report is stale when it is used; quick hashes only | only files with a verified archive copy and complete backups are moved |
| Duplicates (`services/duplicate.go`) | soft-deleted rows, files in the trash | resolve one, resolve in bulk | the row, its jobs and its file change apart | one copy of each content stays |
| Library lock (`library/lock.go`) | the lock file, a heartbeat | acquire, reclaim, force, release | two processes reclaiming; a forced lock released by its old holder | one holder |
| Snapshots (`library/snapshot.go`) | catalog copies | checkpoint, copy, compare, prune | writers and checkpoints go on; a process ends in the middle of either, or gives the lock back meanwhile | a finished snapshot is one state of the catalog, and once there was one there always is (each but for one case, see below) |
| Thumbnails (`internal/thumbs`) | slots, a priority heap, calls in flight | acquire, release, bump, resize, cancel | a grant racing a cancel; shared calls; a tool that never returns | slots are neither lost nor exceeded; nobody waits for ever but for a hung tool |
| Catalog (`internal/db`, `internal/repo`) | SQLite | statements and transactions | one writer | each statement is atomic |
| Sources (`internal/source/identify.go`, `fingerprint.go`, `services/sources.go`) | source rows, the identification under way | probe, fingerprint, look up, score, create or update, adopt sessions | two identifications at once; cards that are swapped and formatted; a probe cancelled half way | a volume is one source |
| Operations (`services/import.go`, `activity.go`, `caffeinate.go`, `app.go`) | the slot, its cancel function, the holders of the sleep assertion | start, cancel, end, quit | the slot is taken before there is anything to cancel; quitting with an operation at work | a cancel reaches the operation at work and no other; the machine stays awake exactly meanwhile |
| Volume watcher, layout, metadata, browsing, UI | none that others rely on | probes, pure functions, queries | - | not modelled |

How they interact: an import records a row and its backup jobs in one
transaction; the queue's workers read the row's file and write the asset's
aggregate status; safe-to-erase reads both. User requests reach the tables
directly, not through the workers, so almost every property of the queue is
about a row that changes while somebody holds a copy of it. The foreground gate
(`services/activity.go`) makes the workers yield to imports. Files of the archive
are moved by reorganize, by duplicate resolution and by a folder rename, each
with a flag of its own (`Custody`), while uploads read them (`Destinations`).

`PROJECT.json` lists every component with its status and every hazard with the
properties that would catch it.

## BackupQueue

The table is the queue: `job` is what SQLite holds and survives a crash. Worker
locals, `cooling` (provider cooldowns), `backoff` (timers), the plugin cache and
a running backfill are memory and are lost. A worker's handler (`Manager.handle`,
`process`) is split wherever the code does I/O, as between two statements
another worker, the scheduler, a request, a failing statement or the end of the
process may come. Actions carry the names of the code: `Claim`, the steps of
`process` (provider and asset read, plugin, upload, verification, reload,
`MarkCompleted`), `Fail` with `ScheduleRetry`, `Promote` and `PromoteSnapshot`
(`promoteReady`), the two statements of `recomputeAsset`, `Start`, `Stop`,
`StopDone`, `Crash`, and one action per user request.

Left open or merged, each making more behaviours possible or dropping something
no property is about:

* Which pending job a worker claims (upload order, provider rotation) and how long a
  backoff, a cooldown or a foreground activity lasts.
* The gates of `claimNext` and its UPDATE are one step, as are the reads of provider
  and asset, a cooldown with the revert to pending it causes, and the removal of a
  timer with the request's UPDATE.
* A request that would change nothing is no step. A page of a backfill is one asset,
  and its reading (`services/backfill.go:179`) and the transaction that enqueues it
  (line 194) are one step: a row added in between is found by `Enqueue`, and an
  asset deleted in between gets its job as if deleted right after. Adding a provider
  is enabling one that was disabled.
* Progress, rate estimate and the failing-provider toast are left out.
* `Manager.Start` does not fail on the database; both plugins support verification
  and have no size limit, so `Unfit` is empty in the runs.

`BackupLedger` states what is left when workers, timers and faults are taken
away: an entry is in at most one sender's hands, only an entry in flight becomes
stored, stored is final, a request never reopens an entry in flight. The
refinement mapping (`ImplementsLedger`) maps a row's status and the busy workers
to an entry and `flight`.

## ImportPipeline

A file is its content; two contents may share a quick hash, never a full one.
`file` maps places to contents, `synced` is the set of places whose directory
entry would survive a loss of power, `partial` is the `.paim-partial` being
written and `stray` says whether abandoned ones lie about. `row`, `session` and
`failure` are the catalog, `run` holds the locals of the one active operation
(`pc = "idle"` is `ImportService.active = false`), `asked` the calls of
`RetryFailedFile` that have checked their failure but not yet taken the slot;
`twice` is the history of a failure that two of them retried.

`resumeSession` is `Prepare` and `Scan`; the loop of `runImport` is `NextFile`,
`StopEarly`, `Abort`, `LoopEnds`, `LinkOne`/`LinkOther` and `Complete`;
`classify` is `ClassifyNew`, `ClassifyKnown` (every order in which candidates
can be compared) and `ClassifyFails`; `copyFile` is `CopyRefused` to
`SyncPublished`; `adoptFile` and `reorganizeInPlace` are `Baseline` to
`MoveSync`; `recordAsset` is `Record` and `RecordFails`. A cancel, a fault, a
crash or a loss of power may come between any two of them. A fault is a failed
or wrong read, write or statement, also a copy that arrives as another content.

Abstractions:

* The model follows the latest session, and its failures; nobody else writes the
  archive. A session is resumed when interrupted or cancelled, as the interface
  offers; the source's contents do not change during an import.
* Names are free slots: `linkExclusive` never takes one in use. Whether the
  computed destination is the file's own place or on another volume is left open
  (`StayInPlace`).
* A committed transaction survives a loss of power. Removing a file succeeds,
  but for the published partial's, whose failure leaves it stray.
* The failure of a statement that only backfills a hash or counts skipped files
  changes nothing a property is about and is left out.

`Archive` states what is left when sessions, steps and faults are taken away: an
entry is made once, of a file that is there like the content it was read as; its
file is never written, moved or removed again; a missing full hash is filled in from
that file; a loss of power takes what is not durable, which the file of an entry is,
if the import put it there. The refinement mapping (`ImplementsArchive`) takes of a
row its content, place and hash and whether its place is another than it was found
at. It leaves out which row is whose duplicate and the partners of Live Photos, and
says nothing of files without a row: those are `OneRowPerContent`, `ContentKept` and
`NothingLeftBehind`.

## Operations and SourceIdentity

`SourceIdentity` is one identification in the steps between which its thread
waits: `Describe` (`volumes.Describe`), `Walk` (`ComputeFingerprint`), `Look`
(`Identifier.Identify`), then `Update` or `Create` and `Adopt`
(`SourcesService.IdentifyVolume`, `autoLinkSource`). The score is
`Matches`/`Best`: the lookups in the order of the code, the strongest piece of
evidence, the first of equals. The fingerprint samples evenly like
`evenSampleIndexes`; the digest of a sequence is the sequence. Cards are pulled,
put in, formatted and shot again at any time (`Volumes`). A row keeps in `looked`
how many rows there were when its identification looked, which is what
`OneRowPerVolume` is about.

`Operations` adds what a start does after that: `Reserve` is the critical section
that takes the slot; `CreateSession`, `SetHandle` and `Acquire` are the three steps
of `launch` after it, in which there is a slot but nothing to cancel and no
assertion against sleep; `Resumed` is `resumeSession` setting its session running;
`Ends`, `Close` and `Release` are the end of the run and its deferred functions. An
operation settles its session or leaves it as it is, which any of them does when a
statement fails, also the load and the update at the start of `resumeSession`,
through which a fresh import goes too. `left` is the history of running sessions
left so; `RunningIsDriven` says that a session shown as running is one of them or is
being driven. What the pipeline does meanwhile is `ImportPipeline`'s. Quitting is
`RequestQuit`/`ConfirmQuit`, `QuitDrained`, `SleepShutdown` and `Exit`, which may
also come at any time as a crash.

Left out: progress counters, whose progress a view shows, the contents of a report,
dock badge, the volume watcher (a view asks when it likes). Two volumes with one
serial are not generated. `ContentSample` and `PathSample` are 1 and 2 instead of 20 and 200.

## Custody

A place is a folder and a name; `disk` maps places to contents, `at` is the
`current_archive_path` of a row, `dup` its duplicate flag, `trash` what the trash
holds and for which row. The two resolvers are a single resolution and the bulk
job (`job`), each between its steps: row read, file moved or trashed, row written,
undone. `plan` and `reorg` are reorganize, `rename` a folder rename. None of them
looks at the others but for the rename, once. A database statement may fail (the
retries of `updateArchivePathWithRetry` are one), a context may be cancelled
between any two steps, the process may end.

The history variable `harm` records the six things no step of the code guards
against: a file replaced by a move, a file removed by an undo because it took
the place of the copy that failed, a folder renamed under a resolver, a duplicate
resolved twice at once, a reorganize that goes by a plan of a row that has moved
on since, a file moved with its row not written. The second and the
fifth were found by trying to prove that there are four. The properties with
`harm = {}` say that there is no seventh; `OnlyReplacedIsLost` says of the two
losses of data, by replacing and by removing, that they are the only ones, and
`move_overwrites` that the first does happen.

Abstractions: the trash never collides (its names carry a timestamp); operations
on files succeed unless the file is gone; a deleted duplicate is not restored (the
code has no such operation); an import does not run meanwhile (it only adds files
under names that are free, and reorganize and import share the slot of
`Operations`).

## SourceErase

A file on a card is its content and whether it was changed after the import that
recorded its path; contents fall into classes of equal quick hash and of equal size,
so that every shortcut of `safeerase.go` (`Fast`, one candidate, full hash on
record) can go wrong. `StartEval`, `JudgeOne`, `EndEval` are the two phases of an
evaluation (`Walks` is what its walk may list), `StartClear`, `ClearOne`, `EndClear`
the clear its report gates, `StartCleanup`, `CleanupOne`, `EndCleanup` the analysis
of a folder. `Lookalike` names what the code accepts without a full comparison; the
properties say that nothing else is mistaken. `still` is the history of what nothing
has changed under since it began: of a report overtaken by a change nothing can be
asked but that cleared files land in the trash of their own card.

Neither walk fails on a directory or an entry it cannot read: it passes it over,
the evaluation without a word (`safeerase.go:189-195`), the analysis with a line in
the log (`analyzer.go:217-223`). Any part of the card, or all of it, may be passed
over in the model. So what is proved of a safe report and of a recommendation is
about the files that were met; that a file passed over bars neither, which the
comments deny, is `sources_unread` and `cleanup_unread`.

Between an evaluation and its use the card may be swapped, a file added, a backup
required again, a duplicate deleted, an archived copy lost, a destination switched
(`SwapCard`, `NewFile`, `CatalogChanges`). Abstractions: the catalog begins as
imports leave it (`Imported`); the folder the cleanup looks at is the card.

## Destinations

The part of `Manager.process` and `handle` that drives a plugin, the local-folder
plugin with its temp file and rename, and the rclone plugin with its pool, its
cooldown per remote and its verification. An object lies at the path its asset had
when the worker read the row; `MoveFile`/`MoveRow` (reorganize) move files under
it. `Initialize` builds the pool and probes for Google Photos remotes, `FailOver`
and `CoolDown` are the two levels of cooldown. Times are ticks left to run.

`reused` is the history of jobs whose path the archive gave to another asset, the
one way a completed copy is overwritten or never made. Abstractions: rclone itself
(external) accepts, refuses, is out of quota or corrupts; credentials and
configuration files are left out; a worker that fails is retried by anybody
(`Retry`), since backoff and retry budget are `BackupQueue`'s; a move whose row is
not written is in `Custody`, not here.

`CompletedIsHeld` is about providers that do not write to the same place, as in
`destinations` and in the hypothesis `Apart` of its theorem. Nothing in the code keeps
two providers from being given one remote; then an upload of the one that is torn
takes the place of a copy the other has verified.

## Library and CatalogSnapshot

Processes on several Macs, each step of `acquireLock`, `inspectLock`,
`finishAcquire` and `Release` a system call on the lock file: made, filled in,
read, removed, with the process gone after any of them. `lockFile` remembers who
made the file (the inode) apart from whose identity it holds, as a write goes to
the file that was opened, also after it was removed. Then `OpenDb`, `StampNew`,
`BackUp`, `Migrate` (one transaction each), `BuildFails`, `Recover`, the work that keeps a
session, and the way out: `Quit`, `StopEngines`, `ReleaseLock`, `Exit` (the lock
goes before the log is flushed). Properties are asked while the user has not
forced a library open; a Force Open does break them, as its dialog says.

`db.Open` migrates tables and indexes (`AutoMigrated`) before `Migrate` reads the
version, refuses a newer catalog or makes the copy. A catalog and a copy remember in
`grown` that they were added to so; `UpgradedOnce` asks for a copy from before each
migration and not for one from before `db.Open`, and `library_newer` shows that
neither the refusal nor the copy is "before any change".

`CatalogSnapshot` EXTENDS this with commits, SQLite's checkpoints and the snapshot.
`main` is which transaction each page of the main file is from. A checkpoint
(`FoldBegin`, `FoldPage`; one at a time, SQLite's own or the snapshot's) writes page
by page and stays half done (`fold` with no owner) when its process ends or gives it
up; a snapshot that finds one under way copies all the same, since the pragma
reports that without an error. The copy (`SnapCopy`) and the comparison
(`SnapCompare`) read the main file page by page, twice, with commits and checkpoints
in between; so what the comparison is worth comes out of the model and is not put
into it. A finished file is `pure` if its pages are of one transaction, `amid` if a
checkpoint was begun and not finished as the copy was complete. `OneStateUnlessAmid`
says that there is no other way to a mixed copy; `snapshot_mixed` shows this one.
A snapshot by the button or the timer may go on, and finish and prune, while the
process shuts down and after it has given the lock back: the way out waits only for
the last one, and a cancelled context is looked at only by the comparison. `late` is
the history of that, `RestorePoint` excepts it, and `snapshot_late` shows the
finished snapshots giving way to an unfinished one.

Abstractions: a transaction writes every page, which is what makes a mixture of two
visible; a snapshot's name is its number, and two in one second, which fail on the
exclusive create, are among `SnapFails`; the log's shared memory is taken to work
across processes, which matters only where two have the catalog open, after a Force
Open or with one that is late. Process identifiers are not used again; the lock's
age is only shown to the user; a failed statement when opening is one fault.

## Thumbs

`call` is the singleflight table, `queue` the heap as the sequence it would be
popped in (tiles newest first, the warm-up oldest first: the order of `Less`),
`inUse` and `capacity` the slots. An asker goes through `Enter`, `Check`, `Acquire`,
`GiveUp`, `Render`, `Leave`; `Release` is `release` with `pump`, granting in one
critical section: with n slots free, `Popped` are the places pump pops, `Granted`
those of them still wanted, `Rest` what it leaves. A parallelism raised by several
slots grants several at once, a tile's and then the warm-up's; so `SlotsWellSpent`
lets the warm-up have one when every tile that waits and is still wanted gets one in
the same step. A winner that was aborted while it waits takes its followers with it
(their answer is its cancellation, after which a tile asks again). A render that has
begun goes on, whoever asked for it: it ends, or hangs (`Hang`), as qlmanage may
"block indefinitely" (`generator.go:38-40`) and nothing ends it.
`AnsweredUnlessHung` says that a hung render costs its own asker, the followers of
its call and one slot, that those who wait for a slot are kept only once all slots
are hung, and that everybody else is answered. The warm-up's worker pool, its cancel
and the atomic flag are `StartWarmup` to `EndWarmup`.

Abstractions: the tools of macOS succeed, fail or hang; a size is part of a
key; the restart keeps the settings.

## Runs

Each run asks one thing of a module; a name in code type is a definition.

| Run (module) | Shows | States |
| --- | --- | --- |
| `queue_faults` (`MCBackupQueue`) | with two workers, a required and a mirror destination, one request, one failed statement per life and one crash or shutdown: `QueueInv`, `TypeOK`, `OneWorkerPerJob`, `RunningIsOwned`, `GreenHasCustody`, `CompletedIsFinal`, and the refinement `ImplementsLedger` | 1.1 M |
| `queue_requests` (`MCBackupQueue`) | three requests in any order around two workers: `OptOutRespected`, `RetryBudget`, `IdleCancelSticks` | 667 k |
| `queue_liveness` (`MCBackupQueue`) | `RunningSettles`, `PendingIsServed`, `StopTerminates`, `RetryHappens` | 3.7 k |
| `import_copy` (`MCImportPipeline`) | imports by copy, three requests, two calls of retry, one fault, one crash, one power loss: `TypeOK`, `RecordedIsDurable`, `OneRowPerContent`, `NothingLeftBehind`, `FailureTallyKept`, `SessionSettles` | 1.1 M |
| `import_adopt` (`MCImportPipeline`) | adoption with and without moves, same bounds: `AdoptSafe`, that is `RecordedIsDurable`, `OneRowPerContent` and `ContentKept` | 1.3 M |
| `operations` (`MCOperations`) | two callers, one card, four events, with failed statements: `OperationsInv` (the slot is owned, the assertion held for work only, a running session driven or left unsettled) and `OneRowPerVolume` | 1.4 M |
| `custody` (`MCCustody`) | two operations in any overlap with one failed statement or crash: `CustodyInv`, `RowsFindFiles`, `OnlyReplacedIsLost`, `DeletedIsRecoverable` | 1.1 M |
| `sources` (`MCSourceErase`) | two checks and one change, with files the walk cannot read: `EraseInv`, `CleanupSound`, `ClearedIsPreserved` | 2.9 M |
| `destinations` (`MCDestinations`) | two workers, two moves, restarts or retries, a fault, a quota: `DestinationsInv`, `CompletedIsHeld` | 1.5 M |
| `library` (`MCLibrary`) | two Macs, three launches, one fault or Force Open, two snapshots of two pages: `OneHolder`, `LiveSessionRunning`, `UpgradedOnce`, `SnapInv` | 1.3 M |
| `thumbs` (`MCThumbs`) | two tiles, a warm-up of two, a change of settings, a render that hangs: `ThumbsInv`, `OneWinnerAtWork`, `SlotsWellSpent`, `AnsweredUnlessHung` | 727 k |
| `move_overwrites` (`MCCustody`) | `NothingLost` is violated: a moved duplicate replaces a file of the same name (`PROJECT.json` has the finding) | - |

Sixteen further divergences between the code and what its comments or documents say
have a configuration of their own. TLC finds each property violated in at most a
minute; they are kept beside the runs, to be tried when the code they are about
changes.

| Configuration (module) | Violated | What happens |
| --- | --- | --- |
| `queue_restart` (`MCBackupQueue`) | `RestartRequeues` | a job waiting for its backoff at a restart is never retried by itself, against `backup/manager.go:157-164` |
| `queue_cancel` (`MCBackupQueue`) | `CancelledNotCompleted` | a cancel between the worker's reload and its update is overwritten, against `manager.go:1105-1107` |
| `queue_tally` (`MCBackupQueue`) | `StatusCatchesUp` | two workers write an asset's status in the wrong order; it stays partial (`manager.go:891-895`) |
| `queue_mirror` (`MCBackupQueue`) | `NeverFalselyGreen` | an unreadable mirror list lets a mirror's copy make an asset complete, against `manager.go:903-906` |
| `queue_optout` (`MCBackupQueue`) | `OptOutIsNeverComplete` | opted-out required destinations do not keep an asset from complete, against `domain/enums.go:76-78` |
| `import_cancel` (`MCImportPipeline`) | `CancelSettles` | a cancel during the sweep for partials leaves the session running, against `services/import.go:945-946` |
| `import_tally` (`MCImportPipeline`) | `CountersCoherent` | two calls retry one failure: the second checks it before the first has resolved it and takes it off the counter again (`services/import.go:861-930`, against `importer/retry.go:38`) |
| `import_archived` (`MCImportPipeline`) | `ArchivedStaysPut` | a cancel while a hash is backfilled makes a known file new, and it is moved away from its row, against `docs/ARCHITECTURE.md:181-182` |
| `sources_swap` (`MCSourceErase`) | `NotJudgedNotTouched` | a report is used on the card swapped in for the one it judged, against `services/sourceclear.go:152` |
| `sources_unread` (`MCSourceErase`) | `EveryFileJudged` | a directory that cannot be read is passed over and the card reported safe, against `source/safeerase.go:66-68` |
| `cleanup_unread` (`MCSourceErase`) | `EveryFileAnalysed` | a subtree that cannot be read is skipped and the folder recommended for deletion, against `cleanup/recommendation.go:24-28` |
| `dest_quota` (`MCDestinations`) | `OnlyQuotaCools` | an error whose text contains 429 by chance cools a remote down, against the comment of `Upload` in `rclone.go` |
| `library_onemac` (`MCLibrary`) | `OneHolder` | two PAIMs on one Mac find the same dead holder; the second removes the lock the first has just made, and both open the library |
| `library_newer` (`MCLibrary`) | `UntouchedBefore` | a catalog from a newer version is added to before it is refused, and an older one before it is copied, against `db/migrate.go:111-118` and `docs/ARCHITECTURE.md:236-241` |
| `snapshot_mixed` (`MCLibrary`) | `OneState` | a checkpoint cut off leaves the main file between two states; the next snapshot copies it and both readings agree, against `library/snapshot.go:64-65` |
| `snapshot_late` (`MCLibrary`) | `AlwaysRestorable` | a snapshot of a process on its way out finishes without the lock and is pruned for an unfinished one of the next process (`library/snapshot.go:107-124`) |

`import_archive` (`MCImportPipeline`) is kept beside the runs too: with one file, it
checks `ImplementsArchive`, which is proved.

Bounds. In the queue two workers and two jobs give every race of two actors on one
row or on one asset; one request, fault and restart each place one disturbance
anywhere in that race, and `queue_requests` trades them for three requests and a
third row, enough for opt out, backfill, re-queue. The retry budget is two, so it is
both used and exhausted. In the import two files are a Live Photo pair and a
quick-hash collision at once; three requests are a start, a cancel and a resume, or
a start, a retry and a dismissal; the crash and the power loss each leave an orphan
in one of the three slots, after which a fourth publication can only fail. `Request`
has two elements, as two calls of `RetryFailedFile` for one failure may overlap;
`FailureTallyKept` excepts the double count this leads to (`twice`), which is
`import_tally`. `custody` begins two operations, which may be of any two of the four
kinds, and `sources` two of its three; both are about pairs that overlap. Three
assets are an original, its duplicate and a bystander; two names let files collide;
one of three folders is on another volume. `sources` starts from every combination
of four catalogs and two card contents that between them hold an archived file, a
changed one, a duplicate and a new lookalike; places become empty by clears and
changes. `destinations` has a path more than assets, so that a path is freed and
taken again. `library` needs three launches for a crash, a reclaim and a second
process. Two snapshots with one kept let pruning remove a finished and an unfinished
one; two pages and one transaction make a mixture. `MaxEvents` keeps
the product small: in a run in which anything is committed or copied, or a snapshot
begun, no more than two launches, sessions, forced opens and faults happen; without
any, the first three bounds alone apply. `operations` has four events, two
sessions and identifications of two callers, enough for an overlap on a card that is
formatted in between. `thumbs` has two keys, each wanted by both tiles and the warm-up, and one
or two slots, of which one may hang, so that none is left or one is. Deadlock is not
checked: with its bounds used up and nothing to do, each system rests.

Symmetry is used for interchangeable jobs, slots, rows, failures, names, cards,
callers, workers and processes, and never in a run with a liveness property.

Fairness. The queue assumes weak fairness of every worker's own steps, of starting,
of the end of a shutdown, of the scheduler's tick and of the ends of cooldown and
foreground activity: goroutines, tickers and clocks go on. Claims and the
scheduler's pick-up of a job whose backoff is over are strongly fair, since a
cooldown or foreground activity may close their gate again and again while other
jobs go ahead; the rotation in `claimNext` is what justifies it. The import assumes
weak fairness of its one goroutine and of pending retries. The thumbnail cache
assumes weak fairness of its own steps together (`System`): some goroutine goes on
while one can, and a tool that has not hung returns. Nothing is assumed of one that
has: the code sets no time limit. As requests are bounded, the weak fairness of all
together brings each to its end. Users, crashes, settings and faults are never
forced.

Every property of a passing run has a mutant in `PROJECT.json`: a definition
with a plausible mistake (operators marked `Mutant` in the modules) under which
TLC finds the property violated.

## What is proved

Every invariant and action property of the runs that pass is a theorem: it holds for
any assets, providers, processes, places and bounds, from the named `ASSUME`s of its
module. Some theorems have a hypothesis more, named below.

| Theorem | Statement, after `Spec =>` |
| --- | --- |
| **`BackupQueueProofs`** | |
| `TypeCorrect`, `QueueInvCorrect` | the state is well typed; the inductive invariant |
| `OneWorkerPerJobCorrect` | no two workers process one job |
| `GreenHasCustodyCorrect` | an asset stored as complete has a job whose completion was recorded |
| `CompletedIsFinalCorrect` | no step takes a completed job with a verified copy back |
| `IdleCancelSticksCorrect` | only a worker already on a job can move it out of cancelled |
| `RunningIsOwnedCorrect` | while the manager runs and no statement has failed, a running job has a worker |
| `OptOutRespectedCorrect` | no second job is put beside an opted-out one |
| `RetryBudgetCorrect` | automatic retries stay within the budget |
| `ImplementsLedgerCorrect` | the refinement of `BackupLedger` (its safety; the ledger promises no progress) |
| **`CustodyProofs`** | |
| `CustodyInvCorrect` | types, and each content keeps a live row that is nobody's duplicate |
| `OnlyReplacedIsLostCorrect` | no content is lost but by a replacing move or a removing undo |
| `DeletedIsRecoverableCorrect` | with no harm, what a resolution deleted is in the trash |
| `RowsFindFilesCorrect` | with no harm and nothing in flight, rows find files of their content |
| **`ImportPipelineProofs`** | |
| `ImportTypeCorrect`, `FailureTallyKeptCorrect` | types; the counter never falls below the failures |
| `RecordedIsDurableCorrect`, `OneRowPerContentCorrect` (`Unmixed`) | a row finds a durable file of its content; no content is recorded twice |
| `AdoptSafeCorrect`, `NothingLeftBehindCorrect` (`Unmixed`) | both of them, and no content lost; nothing unowned is left unless something failed |
| `ImplementsArchiveCorrect` (`Unmixed`) | the refinement of `Archive` |
| `ArchiveKeeps` | (after `ImplementsArchive =>`) the file of an entry is there, durably if the import put it there, with the hashes of the entry |
| **`SourceEraseProofs`** | |
| `EraseInvCorrect` | types, and a report that says safe and is not overtaken names every file the walk listed, each with a preserved asset or a lookalike |
| `CleanupSoundCorrect` | a folder recommended for deletion holds archived, backed-up contents only, where the walk could read it |
| `ClearedIsPreservedCorrect` | a clear moves files to the trash of their own card, and only preserved ones while nothing changes |
| **`LibraryProofs`** | |
| `SnapshotsAside` | `CatalogSnapshot` implements `Library` |
| `OneHolderCorrect`, `LiveSessionRunningCorrect`, `UpgradedOnceCorrect` (`OnePerMac`) | unless forced open: one holder; no live session interrupted; each migration once, after a copy |
| `SnapInvCorrect` (`OnePerMac`) | unless forced open or written without the lock, after the first snapshot there is always one; each is one state of the catalog, unless a checkpoint was amid |
| **`OperationsProofs`** | |
| `OperationsInvCorrect` | slot, cancel handle, assertion against sleep and analyze belong together, and a running session to an operation or to one that ended without settling it |
| `OneRowPerVolumeCorrect` | two sources share an identifier only if their identifications overlapped |
| **`DestinationsProofs`** | |
| `DestinationsInvCorrect` | a destination is held back only while its whole pool is; temp files are owned |
| `CompletedIsHeldCorrect` (`Apart`) | a job completed without a note has its content at the destination |
| **`ThumbsProofs`** | |
| `ThumbsInvCorrect` | types; slots counted are slots rendered with, none is free while somebody waits; the warm-up keeps to its bound |
| `OneWinnerAtWorkCorrect` | a key has one winner, and who follows a call follows a winner still at work |
| `SlotsWellSpentCorrect` | slots go out within the bound, to requests still wanted, tiles first |

Hypotheses. `Unmixed`: where a library is given a plan that adopts and moves files,
all its plans adopt. Otherwise a run may move a file that an earlier one archived by
copy away from its row, as `import_archived` shows once a cancel has made the file
look new; the plans of both import runs satisfy it. The code does not enforce it: a
user may adopt with moves into a library filled by copy, and of such a library the
five theorems say nothing. `OnePerMac`: one PAIM on each Mac;
the code has no guard that there is only one,
and `library_onemac` shows that two are not kept apart. `Apart`: see `Destinations`
above. Finiteness is assumed only of sets that are counted: the paths of a card
(`SourceAssumption`) and the callers (`CallAssumption`). The operations and
identifications, pools, histories and bounds are arbitrary.

### The arguments

*BackupQueue.* `OneWorkerPerJob` is not inductive: nothing in it keeps a request from
reopening a row that a worker still holds. `QueueInv` adds `HeldIsOpen` (a row some
worker holds is running, was cancelled by a user, or is completed with a mirror's
note still outstanding; it is never pending or failed, so nothing can claim or
requeue it), `DownIsIdle` (nobody works while the process is down, so startup may
revert running rows), and for custody `CompletedHasCopy`, `TallyHasCustody` (an
aggregate in a worker's hands, computed from rows it read earlier, stands for a
completion that still exists) and `GreenHasCustody`. `CompletedHasCopy` makes
completions permanent, which carries `TallyHasCustody` over the steps of all other
workers.

The second half of `BackupQueueProofs` first sorts the steps: `StepDid` says that each is a
worker's (`WorkerDoes`: it goes on, completes, drops, yields, fails or leaves its
job), a request's, a promotion, or quiet, and what each may do to row, worker and
timer. The refinement, `RunningIsOwned` and the budget are then cases over a
handful of kinds. `OptOutInv` adds that a row's asset exists (`RowsKnown`), as an
import could otherwise put a job beside an opted-out one. `BudgetInv` counts: each
failure, made or still to come, is paid for by the first attempt, by a user's requeue
or by a timer an earlier failure set (`Balanced`), and a worker goes by the number of
failures its row has (`TriesKnown`).

*Custody.* The second half of `CustodyInv` (`OneRecordKept`) is not inductive: the
resolver that works off a stale selection may hold, or have left on its list, the
only row of a content that is not flagged, and would delete it next. `CInv` asks
that each content has a live, unflagged row that no resolver has selected
(`RecordSafe`). For the files, `Owns` says which place a row has a claim to: the
one it names, unless its file is being carried, and then the one it is carried to.
While no harm has happened each owned place holds the content of its owner
(`Belong`) and has one owner (`Alone`), seen as they will be when a rename that is
under way is undone (`View`). The harms are what breaks `Alone`, so each of the six
is met in the proof at the one action that records it.

*ImportPipeline.* Three layers. `BasicInv`: types, what a run at each `pc` has in
hand, and that the counter covers the failures still open or about to be resolved.
`DurableInv`: what the steps since the file was read have established (`HandRead`,
`HandCopied`, `HandNamed`, `HandNew`) - a file about to be recorded is where it
will be recorded, holds the content that was verified, is synced, and no row has
its place, so recording it is right and removing it after a failure takes nothing
from anybody. `KeptInv`: a copy that may be removed has an original elsewhere
(`Spare`), nothing appears at the places imported from, and the files without a row
are not more than those moved away (`Balance`, a count over sets that each step
changes by one element).

That an import implements `Archive` follows from `DurableInv`: the steps that change
the disk do so at a place no row claims (`Worked`), `PowerLoss` spares what is synced,
`Record` finds in hand what `Register` asks for, and a hash that is filled in is of a
place that is guarded (`FillInMaps`); every other step is a stutter. `ArchiveKeeps` is
then about `Archive` alone: it needs no step of the import.

*SourceErase.* `EInv` is `CountInv` (types, and counters within the files judged, which
is what needs `Path` finite) and `KnowInv`: while nothing has changed since it began, an
evaluation has each file its walk listed still to judge, or judged with good reason, or
counted against the card (`EvalKnown`); each file on a clear's list was judged so
(`ClearKnown`); and the same for the analysis of a folder (`CleanupKnown`).

*Library.* `LockPart`: what each process at each step of acquiring has read or made,
and whose the lock file is; at most two tries. With one process to a Mac a dead
holder is reclaimed by its successor alone. `DbPart` (what was backed up before
which migration) and `WorkPart` (a session is that of the holder) follow the phases.
For snapshots `RestorePoint`: while none is late only the holder writes one, and the
copy in its hand is newer than all finished ones, so pruning keeps either it or one
finished before. For `OneStateUnlessAmid`: a checkpoint folds up to a transaction no
older than any page, so with none under way all pages are of one; and pages only get
newer, so a page copied, which was at most what the page is when the copy is complete,
and which is found the same when read again, was the same then. Whatever is read with
no checkpoint amid is that one state.

*Operations.* `IdentityInv`: what an identification holds was true of the rows when
it looked (`Sound`), and a row it has not seen was recorded since. `OpsInv`: each
call's step says what it may hold (`CallsOK`), at most one call holds the slot
(`SlotOK`), the count of the assertion is the number of calls between `Acquire` and
`Release` (`AwakeForWork`), and an operation shown or recorded as running has a call
that drives it (`AnalyzeIsOwned`, `Driven`).

*Destinations.* `Basics`: a worker at work on a provider knows its plugin, each job
is in at most one worker's hands, and a remote that was passed over while cooling
cools at least as long as the time remembered for the provider (`SoonestKnown`).
`Places`: the paths rows and workers name; whatever else uses a path in a worker's
hands is recorded in `reused`. `VouchedIsKept`: a job completed, or verified and about
to be, has its content at a path no other job may write to (`Safe`). A torn write
then lands on a path of its own job, which is not vouched for.

*Thumbs.* `QueueOK`: whoever is in the queue waits, once, and tiles are before the
warm-up. The queue is reasoned about by places: what pump pops is a front of it
(`PoppedIsFront`), as many of the popped as are still wanted get a slot and that is
all the slots or all the queue (`Pumped`), and pushing, bumping and giving up keep
the order (`InOrder`, `QueueFronted`, `QueueAppended`). `SlotsOK` counts `Rendering`, a
finite set whatever the tiles are. `CallsOK` is what `OneWinnerAtWork` needs to be
inductive: a call belongs to an asker at work on its key, and has a result exactly
while that asker has it and has not yet taken the call away; a follower that comes
in between is answered at once.

In each module there is one lemma or step for an action, and under it one step for a
conjunct it can disturb; lemmas state what the operators of the model return
(lookups, scores, pools, moves, counts of finite sets). Where an argument needs a
least or last element, as with the remotes of a pool in order or the last place pump
pops, it takes one by well-foundedness of the naturals (`LeastExists`) instead of by
induction.

### What is only model-checked

* Liveness: `SessionSettles`, `RunningSettles`, `PendingIsServed`, `StopTerminates`,
  `RetryHappens`, `AnsweredUnlessHung`. Fairness and `ENABLED` are out of the prover's
  reach.
* The divergences in the second table under *Runs* are counterexamples, not theorems.

## Plan

Done: the modules above; every invariant and action property of the passing runs
proved; the refinements of `BackupLedger` and `Archive` and the projection of `CatalogSnapshot` on
`Library`.

Left: what `OnePerMac` and `Apart` stand for, should the code come to guarantee it;
and `Archive` for `Custody`, whose moves carry a file with its row, once the overlaps
recorded in `harm` are closed in the code.

## Not modelled, and why

* Dry run: read-only, with the import's classifier. Rate and completion estimate:
  arithmetic for display.
* Browsing, dashboard, history, logs and settings but for the operations named in
  `PROJECT.json` (renaming a folder, dismissing a failure, thumbnail settings):
  queries and data transfer objects.
* The volume watcher's polling and events, the parsing of what diskutil,
  system_profiler, exiftool and rclone print, EXIF dates, label formatting:
  conversions of text at the edge of the system, without state. What the rest of
  the system makes of their results, failures included, is modelled.
* The plugins' Delete and the listing and creation of rclone remotes: requests to
  an external program with no state here.
* `library.json`, path relativizing, window handling, dock badge, sidecar files.
* The user interface: its requests are the user requests of the models.
