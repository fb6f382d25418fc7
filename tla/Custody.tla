------------------------------- MODULE Custody -------------------------------
(***************************************************************************)
(* Who may move, trash and re-record the files of the archive: resolving   *)
(* duplicates one by one or in bulk (services/duplicate.go,                *)
(* duplicate_bulk.go, fsutil.go), reorganizing (importer/reorganize.go,    *)
(* services/reorganize.go) and renaming an event folder                    *)
(* (services/browser.go).  Each moves a file first and updates its row     *)
(* afterwards; each has its own one-at-a-time flag, and only the rename    *)
(* looks at the flags of the others, once, before it begins.               *)
(*                                                                         *)
(* A file is its content; a place is a folder and a name.  The trash keeps *)
(* everything put into it under a name of its own.                         *)
(***************************************************************************)
EXTENDS Integers, FiniteSets, Functions

CONSTANTS
    Asset, Content, Folder, Name,
    Outside,        \* folders on another volume
    ContentOf,      \* the content each asset was imported with
    Home,           \* the folder the standard layout gives each asset
    MaxOps,         \* bound: operations begun
    MaxFaults,      \* bound: failed database statements and crashes
    None

ASSUME CustodyAssumption ==
    /\ None \notin Asset \cup Content
    /\ Outside \subseteq Folder
    /\ ContentOf \in [Asset -> Content]
    /\ Home \in [Asset -> Folder \ Outside]
    /\ MaxOps \in Nat /\ MaxFaults \in Nat

VARIABLES
    live,       \* rows not soft-deleted
    dup,        \* duplicate_of_asset_id, or None
    at,         \* current_archive_path: a place, "trash", or None
    disk,       \* the file at each place, or None
    trash,      \* what .paim-trash holds: for which row, from where, which content
    job,        \* the two resolvers of duplicates
    plan,       \* the reorganize plan shown last, and the one being carried out
    reorg,      \* the move a reorganize has on disk but not yet on its row
    rename,     \* a folder rename under way
    harm,       \* history: what no step guards against has happened
    ops, faults

custodyVars == <<live, dup, at, disk, trash, job, plan, reorg, rename, harm, ops, faults>>

Resolver == {"single", "bulk"}
Place    == Folder \X Name
Where    == Place \cup {"trash", None}
Action   == {"delete", "move", "keep"}

ASSUME WhereAssumption == "trash" # None /\ {"trash", None} \cap Place = {}

(* A resolver: the action asked for, what is left of the selection, and the *)
(* item in hand, between which steps it stands.                             *)
Job == [act : Action, to : Folder, left : SUBSET Asset,
        asset : Asset \cup {None}, from : Where,
        step : {"next", "file", "trash", "record", "undo"}, cancelled : BOOLEAN]

Entry  == [asset : Asset, from : Place, to : Place]
Plan   == [shown : SUBSET Entry, moves : SUBSET Entry, running : BOOLEAN]
Rename == [old : Folder, new : Folder, step : {"checked", "moved", "undo"}]

ASSUME NoneAssumption == None \notin Job /\ None \notin Entry /\ None \notin Rename

Free(s)   == disk[s] = None
Active(r) == job[r] # None
Activity  == Active("bulk") \/ plan.running
NoPlan    == [shown |-> {}, moves |-> {}, running |-> FALSE]
Fault     == faults < MaxFaults /\ faults' = faults + 1

(* What no step guards against: a file replaced by another, or removed in    *)
(* its place; a folder renamed or a duplicate resolved while it is being     *)
(* resolved; a file planned for a row that has moved on; a row not updated.  *)
Harm     == {"replaced", "removed", "renamed under", "resolved twice", "moved on", "unrecorded"}
Hurt(cond, what) == harm' = IF cond THEN harm \cup {what} ELSE harm

Selected(r) == IF Active(r) THEN job[r].left \cup {job[r].asset} ELSE {}

Begun == ops < MaxOps /\ ops' = ops + 1

(* What imports leave: one original per content, each duplicate flagged with *)
(* the original it repeats, every file in a place of its own; a duplicate    *)
(* recorded by an old version may have no file at all.                       *)
CustodyInit ==
    /\ live = Asset
    /\ dup \in {d \in [Asset -> Asset \cup {None}] :
                  \A a \in Asset : d[a] # None => /\ d[a] # a
                                                  /\ d[d[a]] = None
                                                  /\ ContentOf[d[a]] = ContentOf[a]}
    /\ \A a, b \in Asset : a # b /\ ContentOf[a] = ContentOf[b] => dup[a] # None \/ dup[b] # None
    /\ at \in {p \in [Asset -> ((Folder \ Outside) \X Name) \cup {None}] :
                 \A a, b \in Asset : /\ p[a] = None => dup[a] # None
                                     /\ a # b /\ p[a] = p[b] => p[a] = None}
    /\ disk = [s \in Place |-> IF \E a \in Asset : at[a] = s
                               THEN ContentOf[CHOOSE a \in Asset : at[a] = s] ELSE None]
    /\ trash = {}
    /\ harm = {}
    /\ job = [r \in Resolver |-> None]
    /\ plan = NoPlan
    /\ reorg = None
    /\ rename = None
    /\ ops = 0 /\ faults = 0

-----------------------------------------------------------------------------
(* Resolving duplicates.  A step that ends the item leaves the next one. *)

Set(r, j)  == job' = [job EXCEPT ![r] = j]
Step(r, s) == Set(r, [job[r] EXCEPT !.step = s])
At(r, s)   == Active(r) /\ job[r].step = s

Done(r) == Set(r, [job[r] EXCEPT !.asset = None, !.from = None, !.step = "next"])

Others == <<plan, reorg, rename, ops>>

(* Mutant: the originals of the pairs are listed, not their duplicates. *)
Mut_DuplicateIDs == {a \in live : \E b \in live : dup[b] = a}

DuplicateIDs == {a \in live : dup[a] # None /\ at[a] # None}

(* ResolveDuplicate takes the asset it is given, StartBulkResolve a list    *)
(* collected earlier; neither looks at the duplicate flag again.            *)
StartResolve(r, act, to, ids) ==
    /\ ~Active(r)
    /\ Begun
    /\ ids # {} /\ ids \subseteq DuplicateIDs
    /\ r = "single" => Cardinality(ids) = 1
    /\ Set(r, [act |-> act, to |-> to, left |-> ids, asset |-> None, from |-> None,
               step |-> "next", cancelled |-> FALSE])
    /\ harm' = harm \cup {h \in {"renamed under"} : rename # None}
                   \cup {h \in {"resolved twice"} : \E q \in Resolver : ids \cap Selected(q) # {}}
    /\ UNCHANGED <<live, dup, at, disk, trash, plan, reorg, rename, faults>>

(* CancelBulkResolve, or the end of the call that resolves one: looked at   *)
(* between items, and by every statement and copy of the item in hand.      *)
CancelResolve(r) ==
    /\ Active(r) /\ ~job[r].cancelled
    /\ Set(r, [job[r] EXCEPT !.cancelled = TRUE])
    /\ UNCHANGED <<live, dup, at, disk, trash, harm, Others, faults>>

(* The row is read; the item fails if it is gone. *)
TakeItem(r) ==
    /\ At(r, "next") /\ ~job[r].cancelled
    /\ \E a \in job[r].left :
          LET rest == [job[r] EXCEPT !.left = @ \ {a}] IN
          IF a \in live THEN Set(r, [rest EXCEPT !.asset = a, !.from = at[a], !.step = "file"])
                        ELSE Set(r, rest)
    /\ UNCHANGED <<live, dup, at, disk, trash, harm, Others, faults>>

EndResolve(r) ==
    /\ At(r, "next")
    /\ job[r].left = {} \/ job[r].cancelled
    /\ Set(r, None)
    /\ UNCHANGED <<live, dup, at, disk, trash, harm, Others, faults>>

(* A statement of the item about its live row, or its failure. *)
Writes(r) == job[r].asset \in live /\ ~job[r].cancelled /\ UNCHANGED faults
Fails(r)  == \/ job[r].asset \notin live /\ UNCHANGED faults
             \/ job[r].cancelled /\ UNCHANGED faults
             \/ Fault

(* Ignore and keep both: the flag is cleared. *)
KeepItem(r) ==
    /\ At(r, "file")
    /\ job[r].act = "keep"
    /\ \/ Writes(r) /\ dup' = [dup EXCEPT ![job[r].asset] = None]
       \/ Fails(r) /\ UNCHANGED dup
    /\ Done(r)
    /\ UNCHANGED <<live, at, disk, trash, harm, Others>>

(* Mutant: the file is removed. *)
Mut_Trashed(a, s) == trash

Trashed(a, s) == trash \cup {<<a, s, disk[s]>>}

(* The file goes to the trash first; the item fails if it is not where it   *)
(* was.  A row without a file is never listed, so never resolved.           *)
TrashItem(r) ==
    LET a == job[r].asset  s == job[r].from IN
    /\ At(r, "file")
    /\ job[r].act = "delete"
    /\ IF Free(s) THEN Done(r) /\ UNCHANGED <<disk, trash>>
       ELSE /\ trash' = Trashed(a, s)
            /\ disk' = [disk EXCEPT ![s] = None]
            /\ Step(r, "record")
    /\ UNCHANGED <<live, dup, at, harm, Others, faults>>

(* The row is soft-deleted with the file's place in the trash; a failure    *)
(* leaves it naming the old place.                                          *)
RecordDelete(r) ==
    LET a == job[r].asset IN
    /\ At(r, "record")
    /\ job[r].act = "delete"
    /\ \/ Writes(r) /\ live' = live \ {a} /\ at' = [at EXCEPT ![a] = "trash"] /\ UNCHANGED harm
       \/ Fails(r) /\ Hurt(TRUE, "unrecorded") /\ UNCHANGED <<live, at>>
    /\ Done(r)
    /\ UNCHANGED <<dup, disk, trash, Others>>

Target(r)   == <<job[r].to, job[r].from[2]>>
Across(r)   == (job[r].to \in Outside) # (job[r].from[1] \in Outside)
Moved(s, d) == IF s = d THEN disk ELSE [disk EXCEPT ![d] = disk[s], ![s] = None]

(* copyVerify: a temporary copy, compared by hash, renamed into place. *)
Copied(s, d) == [disk EXCEPT ![d] = disk[s]]

(* A file is moved under its own name by a rename, or copied to another     *)
(* volume; either replaces what was there.                                  *)
MoveItem(r) ==
    LET s == job[r].from  d == Target(r) IN
    /\ At(r, "file")
    /\ job[r].act = "move"
    /\ IF Free(s) \/ (Across(r) /\ job[r].cancelled)
       THEN Done(r) /\ UNCHANGED <<disk, harm>>
       ELSE /\ Hurt(s # d /\ ~Free(d), "replaced")
            /\ IF Across(r) THEN disk' = Copied(s, d) /\ Step(r, "trash")
                            ELSE disk' = Moved(s, d) /\ Step(r, "record")
    /\ UNCHANGED <<live, dup, at, trash, Others, faults>>

(* After the copy, the original goes to a trash beside it. *)
TrashCopied(r) ==
    LET s == job[r].from IN
    /\ At(r, "trash")
    /\ IF Free(s) THEN Done(r) /\ UNCHANGED <<disk, trash>>
       ELSE /\ trash' = Trashed(job[r].asset, s)
            /\ disk' = [disk EXCEPT ![s] = None]
            /\ Step(r, "record")
    /\ UNCHANGED <<live, dup, at, harm, Others, faults>>

(* The new path is recorded; after three failures, or if the row is gone,   *)
(* the move is undone.                                                      *)
RecordMove(r) ==
    /\ At(r, "record")
    /\ job[r].act = "move"
    /\ \/ Writes(r) /\ at' = [at EXCEPT ![job[r].asset] = Target(r)] /\ Done(r)
       \/ Fails(r) /\ Step(r, "undo") /\ UNCHANGED at
    /\ UNCHANGED <<live, dup, disk, trash, harm, Others>>

UndoMove(r) ==
    LET s == job[r].from  d == Target(r) IN
    /\ At(r, "undo")
    /\ IF Across(r)
       THEN \E e \in trash : /\ e[1] = job[r].asset /\ e[2] = s
                             /\ trash' = trash \ {e}
                             /\ disk' = [disk EXCEPT ![s] = e[3], ![d] = None]
                             /\ harm' = harm \cup {h \in {"replaced"} : ~Free(s)}
                                            \cup {h \in {"removed"} : disk[d] \notin {None, e[3]}}
       ELSE /\ disk' = (IF Free(d) THEN disk ELSE Moved(d, s))
            /\ Hurt(s # d /\ ~Free(s) /\ ~Free(d), "replaced")
            /\ UNCHANGED trash
    /\ Done(r)
    /\ UNCHANGED <<live, dup, at, Others, faults>>

(* RemoveSourceOnlyRecords: one transaction, no file touched. *)
RemoveSourceOnly ==
    LET only == {a \in live : dup[a] # None /\ at[a] = None} IN
    /\ only # {}
    /\ live' = live \ only
    /\ UNCHANGED <<dup, at, disk, trash, job, plan, reorg, rename, harm, ops, faults>>

Resolve(r) ==
    \/ CancelResolve(r) \/ TakeItem(r) \/ EndResolve(r) \/ KeepItem(r)
    \/ TrashItem(r) \/ RecordDelete(r)
    \/ MoveItem(r) \/ TrashCopied(r) \/ RecordMove(r) \/ UndoMove(r)

-----------------------------------------------------------------------------
(* Reorganize. *)

(* Flagged duplicates and missing files are skipped, files already home     *)
(* stay, and a file on another volume is not moved.                         *)
Movable(a) ==
    /\ a \in live /\ dup[a] = None
    /\ at[a] \in Place /\ ~Free(at[a])
    /\ at[a][1] \notin Outside
    /\ at[a][1] # Home[a]

(* The plans there can be: each file keeps its name or gets another, not on *)
(* disk and not promised to another file.                                   *)
Planned ==
    LET movable == {a \in Asset : Movable(a)}
        promises == {to \in [movable -> Place] :
                        /\ IsInjective(to)
                        /\ \A a \in movable : to[a][1] = Home[a] /\ Free(to[a])}
    IN {{[asset |-> a, from |-> at[a], to |-> to[a]] : a \in movable} : to \in promises}

(* A preview, at any time. *)
PlanReorganize ==
    /\ ops < MaxOps
    /\ \E p \in Planned : p # plan.shown /\ plan' = [plan EXCEPT !.shown = p]
    /\ UNCHANGED <<live, dup, at, disk, trash, job, reorg, rename, harm, ops, faults>>

(* The plan shown is carried out if it is young enough, else a new one. *)
StartReorganize ==
    /\ ~plan.running
    /\ Begun
    /\ \E p \in Planned \cup {plan.shown} :
          p # {} /\ plan' = [shown |-> {}, moves |-> p, running |-> TRUE]
    /\ Hurt(rename # None, "renamed under")
    /\ UNCHANGED <<live, dup, at, disk, trash, job, reorg, rename, faults>>

(* Mutant: the file is renamed to the name planned, taken or not. *)
Mut_Landing(d) == {d}

(* linkExclusive: a name taken meanwhile is never replaced. *)
Landing(d) == IF Free(d) THEN {d} ELSE {e \in {d[1]} \X Name : Free(e)}

(* A file that is gone fails.  What arrives must be the content planned,    *)
(* or the file stays where it arrived, unrecorded.                          *)
ReorganizeMove ==
    /\ plan.running
    /\ reorg = None
    /\ \E e \in plan.moves :
          /\ plan' = [plan EXCEPT !.moves = @ \ {e}]
          /\ IF Free(e.from) THEN UNCHANGED <<disk, reorg, harm>>
             ELSE \E d \in Landing(e.to) :
                    LET same == disk[e.from] = ContentOf[e.asset] IN
                    /\ disk' = Moved(e.from, d)
                    /\ reorg' = IF same THEN [e EXCEPT !.to = d] ELSE None
                    /\ harm' = harm \cup {h \in {"unrecorded"} : ~same}
                                   \cup {h \in {"moved on"} : at[e.asset] # e.from}
    /\ UNCHANGED <<live, dup, at, trash, job, rename, ops, faults>>

(* Mutant: the statement is run under the cancelled context of the run. *)
Mut_ReorganizeRecord ==
    /\ reorg # None
    /\ reorg' = None
    /\ UNCHANGED <<live, dup, at, disk, trash, job, plan, rename, harm, ops, faults>>

ReorganizeRecord ==
    /\ reorg # None
    /\ \/ /\ at' = IF reorg.asset \in live THEN [at EXCEPT ![reorg.asset] = reorg.to] ELSE at
          /\ UNCHANGED <<harm, faults>>
       \/ Fault /\ Hurt(TRUE, "unrecorded") /\ UNCHANGED at
    /\ reorg' = None
    /\ UNCHANGED <<live, dup, disk, trash, job, plan, rename, ops>>

(* Finished, or cancelled between two files. *)
EndReorganize ==
    /\ plan.running
    /\ reorg = None
    /\ plan' = [plan EXCEPT !.moves = {}, !.running = FALSE]
    /\ UNCHANGED <<live, dup, at, disk, trash, job, reorg, rename, harm, ops, faults>>

-----------------------------------------------------------------------------
(* Renaming an event folder. *)

Occupied(f) == \E n \in Name : ~Free(<<f, n>>)

(* Refused while a tracked operation runs (the resolution of one duplicate  *)
(* is not tracked), and when the new folder is there already.               *)
RenameBegin(f, g) ==
    /\ rename = None
    /\ ~Activity
    /\ f # g /\ {f, g} \cap Outside = {}
    /\ Occupied(f) /\ ~Occupied(g)
    /\ Begun
    /\ rename' = [old |-> f, new |-> g, step |-> "checked"]
    /\ Hurt(Active("single"), "renamed under")
    /\ UNCHANGED <<live, dup, at, disk, trash, job, plan, reorg, faults>>

Swapped(f, g) ==
    [s \in Place |-> IF s[1] = g THEN disk[<<f, s[2]>>]
                     ELSE IF s[1] = f THEN None ELSE disk[s]]

(* The directory is renamed, unless it is gone or the new one is there now. *)
RenameFolder ==
    /\ rename # None /\ rename.step = "checked"
    /\ IF Occupied(rename.new) \/ ~Occupied(rename.old)
       THEN rename' = None /\ UNCHANGED disk
       ELSE disk' = Swapped(rename.old, rename.new) /\ rename' = [rename EXCEPT !.step = "moved"]
    /\ UNCHANGED <<live, dup, at, trash, job, plan, reorg, harm, ops, faults>>

(* Every row under the folder is rewritten in one transaction. *)
RenameRecord ==
    /\ rename # None /\ rename.step = "moved"
    /\ \/ at' = [a \in Asset |-> IF a \in live /\ at[a] \in Place /\ at[a][1] = rename.old
                                 THEN <<rename.new, at[a][2]>> ELSE at[a]]
          /\ rename' = None
          /\ UNCHANGED faults
       \/ Fault /\ rename' = [rename EXCEPT !.step = "undo"] /\ UNCHANGED at
    /\ UNCHANGED <<live, dup, disk, trash, job, plan, reorg, harm, ops>>

RenameUndo ==
    /\ rename # None /\ rename.step = "undo"
    /\ disk' = IF Occupied(rename.old) THEN disk ELSE Swapped(rename.new, rename.old)
    /\ rename' = None
    /\ UNCHANGED <<live, dup, at, trash, job, plan, reorg, harm, ops, faults>>

-----------------------------------------------------------------------------

(* A file is between two places of which its row knows the first. *)
InFlight ==
    \/ \E r \in Resolver : Active(r) /\ job[r].step \in {"trash", "record", "undo"}
    \/ reorg # None
    \/ rename # None /\ rename.step \in {"moved", "undo"}

(* PAIM ends, between any two steps; nothing is repaired at the next start. *)
Crash ==
    /\ Fault
    /\ job' = [r \in Resolver |-> None]
    /\ plan' = NoPlan
    /\ reorg' = None
    /\ rename' = None
    /\ Hurt(InFlight, "unrecorded")
    /\ UNCHANGED <<live, dup, at, disk, trash, ops>>

CustodyNext ==
    \/ \E r \in Resolver :
          \/ Resolve(r)
          \/ \E act \in Action, to \in Folder, ids \in SUBSET Asset : StartResolve(r, act, to, ids)
    \/ RemoveSourceOnly
    \/ PlanReorganize \/ StartReorganize \/ ReorganizeMove \/ ReorganizeRecord \/ EndReorganize
    \/ \E f, g \in Folder : RenameBegin(f, g)
    \/ RenameFolder \/ RenameRecord \/ RenameUndo
    \/ Crash

CustodySpec == CustodyInit /\ [][CustodyNext]_custodyVars

-----------------------------------------------------------------------------
(* Properties. *)

(* Types; and the step of a resolver stands for what it has in hand. *)
CustodyTypeOK ==
    /\ live \subseteq Asset
    /\ dup \in [Asset -> Asset \cup {None}]
    /\ at \in [Asset -> Where]
    /\ disk \in [Place -> Content \cup {None}]
    /\ trash \subseteq Asset \X Place \X Content
    /\ job \in [Resolver -> Job \cup {None}]
    /\ \A r \in Resolver : Active(r) => (job[r].asset = None) = (job[r].step = "next")
    /\ plan \in Plan
    /\ reorg \in Entry \cup {None}
    /\ rename \in Rename \cup {None}
    /\ harm \subseteq Harm
    /\ ops \in 0..MaxOps /\ faults \in 0..MaxFaults

Kept(a) == \/ ContentOf[a] \in Range(disk)
           \/ \E e \in trash : e[3] = ContentOf[a]

(* No content with a file is ever lost, whatever overlaps, fails or is      *)
(* interrupted: files are "moved ... rather than removed, so nothing is     *)
(* ever irreversibly lost" (fsutil.go), "Files are never hard-deleted"      *)
(* (duplicate_bulk.go).                                                     *)
NothingLost == \A a \in Asset : at[a] # None => Kept(a)

(* Only a move onto a file of the same name, or the undo of a copy whose    *)
(* place another file took, can lose one: trash, reorganize and rename      *)
(* never do, in any order, with any failure.                                *)
OnlyReplacedIsLost == {"replaced", "removed"} \cap harm = {} => NothingLost

(* The library never forgets a content: deleting duplicates, one by one, in *)
(* bulk from a stale selection or as records without files, leaves a live   *)
(* row that is nobody's duplicate.                                          *)
OneRecordKept == \A a \in Asset : \E b \in live : ContentOf[b] = ContentOf[a] /\ dup[b] = None

(* The types of the state, and a record kept of every content. *)
CustodyInv == CustodyTypeOK /\ OneRecordKept

(* A live row finds its own file whenever none is in flight, though the two *)
(* resolvers and a reorganize run at once, over selections gone stale, and  *)
(* moves are undone; unless one of the harms happened.                      *)
RowsFindFiles ==
    harm = {} /\ ~InFlight => \A a \in live : at[a] # None => disk[at[a]] = ContentOf[a]

(* A deleted duplicate can be found again: the trash holds its file. *)
DeletedIsRecoverable ==
    harm = {} => \A a \in Asset : at[a] = "trash" => \E e \in trash : e[1] = a /\ e[3] = ContentOf[a]
=============================================================================
