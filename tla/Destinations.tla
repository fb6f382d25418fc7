----------------------------- MODULE Destinations -----------------------------
(***************************************************************************)
(* One upload, from the claim to the record, as the plugins carry it out:  *)
(* a folder (backup/plugins/localfs), or rclone over a pool of remotes     *)
(* with a cooldown per remote (backup/plugins/rclone), under the part of   *)
(* Manager.process and handle that drives them (backup/manager.go).        *)
(* BackupQueue has the queue around it and takes the outcome of an upload  *)
(* as given; here it is worked out, while the files of the archive move.   *)
(*                                                                         *)
(* An object sits at the path its asset had in the archive when the worker *)
(* read the row.  A file is the asset whose content it is, or "torn".      *)
(* Times are ticks left to run, so they need no bound.                     *)
(***************************************************************************)
EXTENDS Integers, Sequences, SequencesExt, FiniteSets

CONSTANTS
    Asset, Path, Remote, Provider, Worker,
    Home,        \* where an import put each asset
    Folder,      \* remotes that are a folder of the localfs plugin
    Photos,      \* Google Photos remotes: no checksum, an album for a root
    Configs,     \* the configurations a provider may be given
    Known,       \* what `rclone listremotes` knows
    Short, Day,  \* the two lengths of a cooldown, in ticks
    MaxOps,      \* bound: moves in the archive, retries, shutdowns
    MaxFaults,   \* bound: refused or torn uploads, failed verifications
    MaxQuotas,   \* bound: times a remote runs out of quota
    None

ASSUME DestinationsAssumption ==
    /\ Home \in [Asset -> Path] /\ \A a, b \in Asset : Home[a] = Home[b] => a = b
    /\ Folder \subseteq Remote /\ Photos \subseteq Remote \ Folder
    /\ Configs \subseteq [remotes : Seq(Remote), mirror : BOOLEAN]
    /\ Known \subseteq Remote
    /\ Short \in Nat \ {0} /\ Day \in Nat /\ Day >= Short
    /\ MaxOps \in Nat /\ MaxFaults \in Nat /\ MaxQuotas \in Nat

VARIABLES
    at,         \* current_archive_path of each asset
    disk,       \* the file at each path of the archive
    moving,     \* a file reorganize has moved and not recorded yet
    config,     \* the provider rows
    plugin,     \* Manager.pluginCache
    job,        \* the job of each asset and provider
    noted,      \* jobs completed with the note that they are not verified
    worker,
    store,      \* the objects of each remote
    partial,    \* temp files of localfs: remote, path and who writes it
    until,      \* rclone Plugin.remoteCooldowns
    paused,     \* Manager.cooldowns
    exhausted,  \* remotes out of quota
    reused,     \* history: jobs whose path the archive gave to another asset
    ops, faults, quotas

archive == <<at, disk, moving>>
memory  == <<plugin, worker, until, paused>>
remote  == <<store, partial, exhausted>>
counts  == <<ops, faults, quotas>>
destVars == <<archive, config, job, noted, memory, remote, reused, counts>>

JobStatus == {"pending", "running", "completed", "failed"}
JobKey    == Asset \X Provider
Files     == Asset \cup {"torn", None}
Ticks     == 0..Day

Op    == ops < MaxOps /\ ops' = ops + 1 /\ UNCHANGED <<faults, quotas>>
Fault == faults < MaxFaults /\ faults' = faults + 1 /\ UNCHANGED <<ops, quotas>>

-----------------------------------------------------------------------------
(* The plugin of a provider. *)

(* The places of a sequence that hold something for the first time. *)
Firsts(s) == {i \in DOMAIN s : \A j \in 1..(i - 1) : s[j] # s[i]}

(* poolFromConfig: repeated remotes once, in order. *)
Pool(c) ==
    LET first     == Firsts(c.remotes)
        UpTo(i)   == Cardinality({j \in first : j <= i})
    IN  [n \in 1..Cardinality(first) |-> c.remotes[CHOOSE i \in first : UpTo(i) = n]]

(* Initialize; ProviderService.probe keeps other configurations out of the rows. *)
Valid(c) ==
    LET pool == Pool(c)
    IN  /\ pool # <<>>
        /\ Len(pool) > 1 => c.mirror
        /\ ToSet(pool) \subseteq Known
        /\ ToSet(pool) \cap Folder # {} => Len(pool) = 1

(* What Initialize leaves: the pool, and the remotes found to be Google      *)
(* Photos - a probe that fails counts as none.                               *)
Plugins == [pool : Seq(Remote), album : SUBSET Photos]

(* pluginFor caches the plugin of the provider's first upload. *)
Initialize(p) ==
    IF plugin[p] # None THEN UNCHANGED plugin
    ELSE \E album \in SUBSET (Photos \cap ToSet(Pool(config[p]))) :
           plugin' = [plugin EXCEPT ![p] = [pool |-> Pool(config[p]), album |-> album]]

Init ==
    /\ at = Home
    /\ disk = [x \in Path |-> IF \E a \in Asset : at[a] = x
                              THEN CHOOSE a \in Asset : at[a] = x ELSE None]
    /\ moving = None
    /\ config \in [Provider -> {c \in Configs : Valid(c)}]
    /\ plugin = [p \in Provider |-> None]
    /\ job = [k \in JobKey |-> "pending"]
    /\ noted = {}
    /\ worker = [w \in Worker |-> None]
    /\ store = [r \in Remote |-> [x \in Path |-> None]]
    /\ partial = {}
    /\ until = [r \in Remote |-> 0]
    /\ paused = [p \in Provider |-> 0]
    /\ exhausted = {}
    /\ reused = {}
    /\ ops = 0 /\ faults = 0 /\ quotas = 0

-----------------------------------------------------------------------------
(* A worker's attempt. *)

(* The job, the path read from the row, the next remote of the pool, the     *)
(* soonest end of the cooldowns met (None: none met), the bytes on their way.*)
Attempt == [key : JobKey, path : Path, step : {"next", "copy", "verify", "record"},
            i : Nat, soonest : Ticks \cup {None}, got : Files, note : BOOLEAN]

Move == [asset : Asset, to : Path]

ASSUME NoneAssumption == None \notin Plugins \cup Attempt \cup Move \cup Asset \cup Ticks

Doing(w, s)   == worker[w] # None /\ worker[w].step = s
PoolOf(w)     == plugin[worker[w].key[2]].pool
On(w)         == PoolOf(w)[worker[w].i]
Temp(w)       == <<On(w), worker[w].path, w>>
Copying       == {w \in Worker : Doing(w, "copy")}
Mirror(w)     == config[worker[w].key[2]].mirror
Go(w, rec)    == worker' = [worker EXCEPT ![w] = rec]
Settle(w, s)  == /\ job' = [job EXCEPT ![worker[w].key] = s]
                 /\ Go(w, None)

(* claimNext passes a provider in cooldown; process takes the plugin and    *)
(* reads the row of the asset.                                              *)
Claim(w, k) ==
    /\ worker[w] = None
    /\ job[k] = "pending"
    /\ paused[k[2]] = 0
    /\ Initialize(k[2])
    /\ job' = [job EXCEPT ![k] = "running"]
    /\ Go(w, [key |-> k, path |-> at[k[1]], step |-> "next", i |-> 1,
              soonest |-> None, got |-> None, note |-> FALSE])
    /\ UNCHANGED <<archive, config, noted, until, paused, remote, reused, counts>>

(* Initialize, or Authenticate on every remote of the pool, fails: nothing  *)
(* is cached.                                                               *)
ClaimUnready(w, k) ==
    /\ worker[w] = None
    /\ job[k] = "pending"
    /\ paused[k[2]] = 0
    /\ plugin[k[2]] = None
    /\ Fault
    /\ job' = [job EXCEPT ![k] = "failed"]
    /\ UNCHANGED <<archive, config, noted, memory, remote, reused>>

(* Mutant: the last of the cooldowns met counts. *)
Mut_Earliest(soonest, t) == IF soonest = None \/ t > soonest THEN t ELSE soonest

Earliest(soonest, t) == IF soonest = None \/ t < soonest THEN t ELSE soonest

(* A remote still cooling is passed over. *)
PassOver(w) ==
    /\ Doing(w, "next")
    /\ worker[w].i <= Len(PoolOf(w))
    /\ until[On(w)] > 0
    /\ Go(w, [worker[w] EXCEPT !.i = @ + 1, !.soonest = Earliest(@, until[On(w)])])
    /\ UNCHANGED <<archive, config, job, noted, plugin, until, paused, remote, reused, counts>>

(* The local file is opened; it may not be where the row said any more.     *)
(* localfs copies it into a temp file beside its destination.               *)
Send(w) ==
    /\ Doing(w, "next")
    /\ worker[w].i <= Len(PoolOf(w))
    /\ until[On(w)] = 0
    /\ LET got == disk[worker[w].path]
       IN  IF got = None
           THEN Settle(w, "failed") /\ UNCHANGED partial
           ELSE /\ Go(w, [worker[w] EXCEPT !.step = "copy", !.got = got])
                /\ partial' = IF On(w) \in Folder THEN partial \cup {Temp(w)} ELSE partial
                /\ UNCHANGED job
    /\ UNCHANGED <<archive, config, noted, plugin, until, paused, store, exhausted, reused, counts>>

Discard(w) == partial' = partial \ {Temp(w)}

(* Google Photos takes nothing outside an album. *)
Takes(w) == On(w) \in Photos => On(w) \in plugin[worker[w].key[2]].album

(* The object is renamed into place, or rclone reports success: what was    *)
(* under its name is gone.  A copy may come out wrong without an error.     *)
Publish(w, torn) ==
    /\ Doing(w, "copy")
    /\ On(w) \notin exhausted
    /\ Takes(w)
    /\ IF torn THEN Fault ELSE UNCHANGED counts
    /\ store' = [store EXCEPT ![On(w)][worker[w].path] = IF torn THEN "torn" ELSE worker[w].got]
    /\ Discard(w)
    /\ Go(w, [worker[w] EXCEPT !.step = "verify", !.got = None])
    /\ UNCHANGED <<archive, config, job, noted, plugin, until, paused, exhausted, reused>>

(* The remote cools, at least as long as it did; the next one is tried. *)
FailOver(w) ==
    \E d \in {Short, Day} :
       /\ until' = [until EXCEPT ![On(w)] = IF d > @ THEN d ELSE @]
       /\ Go(w, [worker[w] EXCEPT !.step = "next", !.i = @ + 1, !.got = None,
                                  !.soonest = Earliest(@, d)])

QuotaHit(w) ==
    /\ Doing(w, "copy")
    /\ On(w) \in exhausted \ Folder
    /\ FailOver(w)
    /\ UNCHANGED <<archive, config, job, noted, plugin, paused, remote, reused, counts>>

(* Any other error fails the job - unless the text rclone printed contains  *)
(* one of the patterns of classifyCooldown by chance, "429" among them: the *)
(* names and byte counts of its log lines are part of that text.            *)
Refuse(w, text) ==
    /\ Doing(w, "copy")
    /\ IF Takes(w) THEN Fault ELSE UNCHANGED counts
    /\ text = "429" => On(w) \notin Folder
    /\ IF text = "429"
       THEN FailOver(w) /\ UNCHANGED job
       ELSE Settle(w, "failed") /\ UNCHANGED until
    /\ Discard(w)
    /\ UNCHANGED <<archive, config, noted, plugin, paused, store, exhausted, reused>>

(* Every remote of the pool is cooling: the job waits, and so does the whole *)
(* provider until the soonest of them.                                       *)
CoolDown(w) ==
    /\ Doing(w, "next")
    /\ worker[w].i > Len(PoolOf(w))
    /\ Settle(w, "pending")
    /\ LET p == worker[w].key[2]
           t == worker[w].soonest
       IN  paused' = [paused EXCEPT ![p] = IF t > @ THEN t ELSE @]
    /\ UNCHANGED <<archive, config, noted, plugin, until, remote, reused, counts>>

(* Mutant: an object of the right size will do. *)
Mut_Matches(w, r) == store[r][worker[w].path] # None

(* localfs hashes both, rclone compares size and the checksum there is. *)
Matches(w, r) ==
    /\ disk[worker[w].path] # None
    /\ store[r][worker[w].path] # None
    /\ r \notin Photos => store[r][worker[w].path] = disk[worker[w].path]

(* Verify: one remote of the pool confirming is enough. *)
Verify(w) ==
    /\ Doing(w, "verify")
    /\ \E ok \in {\E r \in ToSet(PoolOf(w)) : Matches(w, r), FALSE} :
          /\ IF ok \/ ~\E r \in ToSet(PoolOf(w)) : Matches(w, r) THEN UNCHANGED counts ELSE Fault
          /\ IF ok \/ Mirror(w)
             THEN Go(w, [worker[w] EXCEPT !.step = "record", !.note = ~ok]) /\ UNCHANGED job
             ELSE Settle(w, "failed")
    /\ UNCHANGED <<archive, config, noted, plugin, until, paused, remote, reused>>

Record(w) ==
    /\ Doing(w, "record")
    /\ Settle(w, "completed")
    /\ noted' = IF worker[w].note THEN noted \cup {worker[w].key} ELSE noted
    /\ UNCHANGED <<archive, config, plugin, until, paused, remote, reused, counts>>

-----------------------------------------------------------------------------
(* The process, the archive and the world. *)

(* A shutdown cancels the copies, which drop their temp files; a crash does *)
(* not.  Both forget every cooldown, and running jobs are reverted.         *)
Restart(crash) ==
    /\ Op
    /\ worker' = [w \in Worker |-> None]
    /\ job' = [k \in JobKey |-> IF job[k] = "running" THEN "pending" ELSE job[k]]
    /\ partial' = IF crash THEN {<<t[1], t[2], None>> : t \in partial}
                  ELSE partial \ {Temp(w) : w \in Copying}
    /\ plugin' = [p \in Provider |-> None]
    /\ until' = [r \in Remote |-> 0]
    /\ paused' = [p \in Provider |-> 0]
    /\ UNCHANGED <<archive, config, noted, store, exhausted, reused>>

(* RequeueFailed, by the scheduler or a user. *)
Retry(k) ==
    /\ job[k] = "failed"
    /\ Op
    /\ job' = [job EXCEPT ![k] = "pending"]
    /\ UNCHANGED <<archive, config, noted, memory, remote, reused>>

(* The jobs a second use of path x by asset a puts at risk: those of others  *)
(* with an object under it, and, while a worker has the path in hand for     *)
(* another asset, that job and those of a itself.                            *)
InHand(a, x)  == {worker[w].key : w \in {v \in Worker : worker[v] # None /\ worker[v].path = x
                                                       /\ worker[v].key[1] # a}}
AtRisk(a, x) ==
    {k \in JobKey : k[1] # a /\ \E r \in Remote : store[r][x] = k[1]}
        \cup InHand(a, x) \cup {k \in {a} \X Provider : InHand(a, x) # {}}

(* reorganizeOne: the file first, to a free path, then the row. *)
MoveFile(a, to) ==
    /\ moving = None
    /\ disk[to] = None
    /\ Op
    /\ disk' = [disk EXCEPT ![at[a]] = None, ![to] = a]
    /\ moving' = [asset |-> a, to |-> to]
    /\ reused' = reused \cup AtRisk(a, to)
    /\ UNCHANGED <<at, config, job, noted, memory, remote>>

MoveRow ==
    /\ moving # None
    /\ at' = [at EXCEPT ![moving.asset] = moving.to]
    /\ moving' = None
    /\ UNCHANGED <<disk, config, job, noted, memory, remote, reused, counts>>

Exhaust(r) ==
    /\ quotas < MaxQuotas
    /\ r \notin Folder \cup exhausted
    /\ quotas' = quotas + 1
    /\ exhausted' = exhausted \cup {r}
    /\ UNCHANGED <<archive, config, job, noted, memory, store, partial, reused, ops, faults>>

Refill ==
    /\ exhausted # {}
    /\ exhausted' = {}
    /\ UNCHANGED <<archive, config, job, noted, memory, store, partial, reused, counts>>

Less(t) == IF t = None \/ t = 0 THEN t ELSE t - 1

Tick ==
    /\ (\E r \in Remote : until[r] > 0) \/ (\E p \in Provider : paused[p] > 0)
    /\ until' = [r \in Remote |-> Less(until[r])]
    /\ paused' = [p \in Provider |-> Less(paused[p])]
    /\ worker' = [w \in Worker |-> IF worker[w] = None THEN None
                                   ELSE [worker[w] EXCEPT !.soonest = Less(@)]]
    /\ UNCHANGED <<archive, config, job, noted, plugin, remote, reused, counts>>

Work ==
    \E w \in Worker :
       \/ \E k \in JobKey : Claim(w, k) \/ ClaimUnready(w, k)
       \/ PassOver(w) \/ Send(w) \/ QuotaHit(w) \/ CoolDown(w) \/ Verify(w) \/ Record(w)
       \/ \E torn \in BOOLEAN : Publish(w, torn)
       \/ \E text \in {"plain", "429"} : Refuse(w, text)

World ==
    \/ \E crash \in BOOLEAN : Restart(crash)
    \/ \E k \in JobKey : Retry(k)
    \/ \E a \in Asset, to \in Path : MoveFile(a, to)
    \/ MoveRow
    \/ \E r \in Remote : Exhaust(r)

Next == Work \/ Tick \/ Refill \/ World

Spec == Init /\ [][Next]_destVars

-----------------------------------------------------------------------------
(* Properties *)

TypeOK ==
    /\ at \in [Asset -> Path] /\ disk \in [Path -> Asset \cup {None}]
    /\ moving \in Move \cup {None}
    /\ config \in [Provider -> Configs]
    /\ plugin \in [Provider -> Plugins \cup {None}]
    /\ job \in [JobKey -> JobStatus] /\ noted \subseteq JobKey
    /\ worker \in [Worker -> Attempt \cup {None}]
    /\ store \in [Remote -> [Path -> Files]]
    /\ partial \subseteq Remote \X Path \X (Worker \cup {None})
    /\ until \in [Remote -> Ticks] /\ paused \in [Provider -> Ticks]
    /\ exhausted \subseteq Remote /\ reused \subseteq JobKey

(* Upload and setCooldown: a destination is held back only as long as every *)
(* remote of its pool is; none of them is ready earlier, whatever two       *)
(* workers saw of the pool and when.                                        *)
HeldBackAsNeeded ==
    \A p \in Provider : paused[p] > 0 =>
        \A r \in ToSet(plugin[p].pool) : until[r] >= paused[p]

(* copyToTemp, Upload: a temp file is one that a worker is writing, or that *)
(* a crash left (owner None; nothing removes those); no error, no quota and *)
(* no shutdown leaves one behind.                                           *)
TempFilesOwned == \A t \in partial : t[3] = None \/ t \in {Temp(w) : w \in Copying}

DestinationsInv == TypeOK /\ HeldBackAsNeeded /\ TempFilesOwned

Held(a, p) == \E r \in ToSet(Pool(config[p])), x \in Path : store[r][x] = a
Checked(p) == ToSet(Pool(config[p])) \cap Photos = {}

(* No two providers write to the same place. *)
Apart == \A p, q \in Provider :
             p # q => ToSet(Pool(config[p])) \cap ToSet(Pool(config[q])) = {}

(* process: a job recorded as completed and not noted as unverified has its *)
(* asset's content at the destination for good, whatever was torn, refused, *)
(* retried, interrupted or moved in the archive meanwhile - except where    *)
(* the archive gave the path to another asset once it was in use (reused),  *)
(* the one way a copy is lost or never made, and on remotes that have no    *)
(* checksum.                                                                *)
CompletedIsHeld ==
    \A a \in Asset, p \in Provider :
        job[<<a, p>>] = "completed" /\ <<a, p>> \notin noted \cup reused /\ Checked(p)
            => Held(a, p)

(* rclone.go, Upload: "A non-quota error fails the upload immediately"; a   *)
(* remote is put into cooldown only when it is out of quota.                *)
OnlyQuotaCools == [][\A r \in Remote : until'[r] > until[r] => r \in exhausted]_destVars
=============================================================================
