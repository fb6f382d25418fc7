--------------------------- MODULE CatalogSnapshot ---------------------------
(***************************************************************************)
(* Catalog snapshots of an open library: library/snapshot.go and           *)
(* services/snapshot.go, composed with opening and closing it (Library).   *)
(*                                                                         *)
(* The catalog is a main file and a write-ahead log.  A checkpoint folds   *)
(* the log into the main file page by page; SQLite takes one now and then  *)
(* by itself, and a snapshot begins with one.  The snapshot then copies    *)
(* the main file under its own name, reads both again and compares, and    *)
(* removes the oldest snapshots.  Commits and checkpoints go on meanwhile, *)
(* and a process that ends in the middle of either leaves it half done.    *)
(***************************************************************************)
EXTENDS Library

CONSTANTS
    Pages,              \* pages of the main file
    Keep,               \* snapshots kept
    MaxCommits,         \* bound: transactions
    MaxSnapshots,       \* bound: snapshot files begun
    MaxEvents           \* bound: what else happens in a run with any of these

VARIABLES
    commits,    \* transactions committed, each of which writes every page
    main,       \* the last transaction folded into each page of the main file
    fold,       \* the checkpoint begun and not finished
    made,       \* snapshot files begun; their names follow the clock
    files,      \* the snapshot files
    job,        \* the snapshot each process is writing (snapMu: one at a time)
    ever,       \* has one been reported as written
    late        \* history: one was begun or finished without the lock

snapVars == <<commits, main, fold, made, files, job, ever, late>>
allVars  == <<vars, snapVars>>

Page  == 1..Pages
Stamp == 1..MaxSnapshots

(* A finished copy or not; of one state of the catalog or of several; and was a
   checkpoint begun and not finished when the copy was complete? *)
File == [stamp : Stamp, whole : BOOLEAN, pure : BOOLEAN, amid : BOOLEAN]

(* Whose it is, None once that process has ended or given it up; the transaction
   it folds up to; the next page. *)
Fold == [by : Proc \cup {None}, to : 0..MaxCommits, next : Page]

(* The next page to copy or to compare, what was copied, and whether the way out
   waits for it. *)
Job == [step : {"fold", "create", "copy", "compare"}, next : Page, stamp : Stamp \cup {0},
        copied : [Page -> 0..MaxCommits], amid : BOOLEAN, last : BOOLEAN]

ASSUME SnapshotAssumption ==
    /\ Pages \in Nat \ {0}
    /\ Keep \in Nat \ {0}
    /\ MaxCommits \in Nat
    /\ MaxSnapshots \in Nat
    /\ MaxEvents \in Nat
    /\ None \notin Job /\ None \notin Fold /\ None \notin Proc

Torn(n) == [stamp |-> n, whole |-> FALSE, pure |-> FALSE, amid |-> FALSE]

SnapInit ==
    /\ Init
    /\ commits = 0
    /\ main = [pg \in Page |-> 0]
    /\ fold = None
    /\ made = 0
    /\ files = {}
    /\ job = [p \in Proc |-> None]
    /\ ever = FALSE
    /\ late = FALSE

------------------------------------------------------------------------------
(* The catalog at work *)

AtWork(p) == pc[p] \in {"open"} \cup Closing
Events    == launches + sessions + forces + faults

Commit(p) ==
    /\ AtWork(p)
    /\ commits < MaxCommits
    /\ Events <= MaxEvents
    /\ commits' = commits + 1
    /\ UNCHANGED <<vars, main, fold, made, files, job, ever, late>>

(* One checkpoint at a time; one that was cut off is taken up from its start.
   Readers may keep it from the newest transactions. *)
Foldable     == fold # None => fold.by = None
FoldFrom(p)  == {[by |-> p, to |-> n, next |-> 1] : n \in
                    {n \in 0..commits : /\ \A pg \in Page : main[pg] <= n
                                        /\ fold = None => \E pg \in Page : main[pg] < n}}

(* SQLite's own, after a commit. *)
FoldBegin(p) ==
    /\ AtWork(p)
    /\ Foldable
    /\ fold' \in FoldFrom(p)
    /\ UNCHANGED <<vars, commits, main, made, files, job, ever, late>>

FoldPage(p) ==
    /\ fold # None
    /\ fold.by = p
    /\ main' = [main EXCEPT ![fold.next] = fold.to]
    /\ IF fold.next < Pages
       THEN fold' = [fold EXCEPT !.next = @ + 1] /\ UNCHANGED job
       ELSE /\ fold' = None
            /\ job' = IF job[p] # None /\ job[p].step = "fold"
                      THEN [job EXCEPT ![p].step = "create"] ELSE job
    /\ UNCHANGED <<vars, commits, made, files, ever, late>>

------------------------------------------------------------------------------
(* Snapshots *)

(* runSnapshot: by the button at any time, by the timer while open, and once more
   on the way out.  The checkpoint is its own, or finds nothing to fold, or finds
   another under way and leaves it to that, without an error. *)
SnapBegin(p) ==
    /\ AtWork(p)
    /\ job[p] = None
    /\ made < MaxSnapshots
    /\ Events <= MaxEvents
    /\ \E last \in {FALSE, pc[p] = "stop"}, step \in {"fold", "create"} :
          /\ job' = [job EXCEPT ![p] =
                       [step |-> step, next |-> 1, stamp |-> 0,
                        copied |-> [pg \in Page |-> 0], amid |-> FALSE, last |-> last]]
          /\ IF step = "fold" THEN Foldable /\ fold' \in FoldFrom(p)
             ELSE (fold # None => fold.by # None) /\ UNCHANGED fold
    /\ UNCHANGED <<vars, commits, main, made, files, ever, late>>

SnapStep(p, step) ==
    /\ job[p] # None
    /\ job[p].step = step
    /\ UNCHANGED <<vars, commits, main>>

(* copyVerify: the file is made under the name of this second, exclusively. *)
SnapCreate(p) ==
    /\ SnapStep(p, "create")
    /\ made < MaxSnapshots
    /\ made' = made + 1
    /\ files' = files \cup {Torn(made')}
    /\ job' = [job EXCEPT ![p].step = "copy", ![p].stamp = made']
    /\ late' = (late \/ ~Holds(p))
    /\ UNCHANGED <<fold, ever>>

Copied(j) ==
    LET copied == [j.copied EXCEPT ![j.next] = main[j.next]] IN
    IF j.next < Pages THEN [j EXCEPT !.copied = copied, !.next = @ + 1]
    ELSE [j EXCEPT !.copied = copied, !.next = 1, !.step = "compare", !.amid = fold # None]

SnapCopy(p) ==
    /\ SnapStep(p, "copy")
    /\ job' = [job EXCEPT ![p] = Copied(@)]
    /\ UNCHANGED <<fold, made, files, ever, late>>

(* Mutant: the newest are removed and the oldest kept. *)
Mut_Pruned(all) == {f \in all : Cardinality({g \in all : g.stamp < f.stamp}) < Keep}

(* pruneSnapshots removes all but the newest Keep, finished or not. *)
Pruned(all) == {f \in all : Cardinality({g \in all : g.stamp > f.stamp}) < Keep}

Finished(j) ==
    [stamp |-> j.stamp, whole |-> TRUE, amid |-> j.amid,
     pure |-> \A pg, pg2 \in Page : j.copied[pg] = j.copied[pg2]]

(* The main file is read again, then the copy: they agree page by page. *)
SnapCompare(p) ==
    /\ SnapStep(p, "compare")
    /\ main[job[p].next] = job[p].copied[job[p].next]
    /\ IF job[p].next < Pages
       THEN job' = [job EXCEPT ![p].next = @ + 1] /\ UNCHANGED <<files, ever, late>>
       ELSE /\ Torn(job[p].stamp) \in files
            /\ files' = Pruned((files \ {Torn(job[p].stamp)}) \cup {Finished(job[p])})
            /\ ever' = TRUE
            /\ late' = (late \/ ~Holds(p))
            /\ job' = [job EXCEPT ![p] = None]
    /\ UNCHANGED <<fold, made>>

(* A checkpoint, a copy or a comparison that fails - or whose context is done, which
   only reading again heeds - and a name already taken: what there is of the file is
   removed, and a checkpoint of its own is given up where it is. *)
SnapFails(p) ==
    /\ job[p] # None
    /\ files' = files \ {Torn(job[p].stamp)}
    /\ fold' = IF job[p].step = "fold" THEN [fold EXCEPT !.by = None] ELSE fold
    /\ job' = [job EXCEPT ![p] = None]
    /\ UNCHANGED <<vars, commits, main, made, ever, late>>

(* The way out waits for the last snapshot, not for one the timer or the button
   began; a process that ends leaves what it has copied and folded so far. *)
Meanwhile(p) ==
    /\ commits + made > 0 \/ (\E q \in Proc : job[q] # None) => Events' <= MaxEvents
    /\ pc'[p] = "release" /\ job[p] # None => ~job[p].last
    /\ job' = [q \in Proc |-> IF pc'[q] = "off" THEN None ELSE job[q]]
    /\ fold' = IF fold # None /\ fold.by = p /\ pc'[p] = "off"
               THEN [fold EXCEPT !.by = None] ELSE fold
    /\ UNCHANGED <<commits, main, made, files, ever, late>>

SnapNext ==
    \E p \in Proc :
        \/ (Step(p) \/ UserStep(p)) /\ Meanwhile(p)
        \/ Commit(p) \/ FoldBegin(p) \/ FoldPage(p)
        \/ SnapBegin(p) \/ SnapCreate(p) \/ SnapCopy(p) \/ SnapCompare(p) \/ SnapFails(p)

SnapSpec == SnapInit /\ [][SnapNext]_allVars

------------------------------------------------------------------------------
(* Properties *)

(* Every variable keeps to its type. *)
SnapTypeOK ==
    /\ TypeOK
    /\ commits \in 0..MaxCommits
    /\ main \in [Page -> 0..commits]
    /\ fold \in Fold \cup {None}
    /\ made \in 0..MaxSnapshots
    /\ files \subseteq File
    /\ job \in [Proc -> Job \cup {None}]
    /\ ever \in BOOLEAN
    /\ late \in BOOLEAN

(* Unless the user forces a library open, and while no snapshot is begun or finished
   by a process that has given the lock back: once one has been reported as written
   there is always a finished one, whatever processes end in the middle of others
   and however those are pruned (library/snapshot.go: pruneSnapshots, which counts
   unfinished files). *)
RestorePoint ==
    forces = 0 /\ ~late => (ever => \E f \in files : f.whole)

(* A finished snapshot is one state of the catalog, unless a checkpoint was begun
   and not finished at the moment its copy was complete: comparing afterwards
   finds whatever else commits, checkpoints and their breaking off do to the main
   file during the copy (library/snapshot.go: Snapshot; library/migrate.go:
   copyVerify). *)
OneStateUnlessAmid == \A f \in files : f.whole => f.pure \/ f.amid

SnapInv == SnapTypeOK /\ RestorePoint /\ OneStateUnlessAmid

(* What Snapshot promises (library/snapshot.go: the log is folded first "so the copy
   is a complete snapshot").  It does not hold: the checkpoint that finds another
   under way is no error. *)
OneState == \A f \in files : f.whole => f.pure

(* A finished snapshot, once there was one.  It does not hold without the condition
   on late: the one that a process on its way out finishes, or one before it, may
   give way to an unfinished one of the next process. *)
AlwaysRestorable == forces = 0 => (ever => \E f \in files : f.whole)
==============================================================================
