---------------------------- MODULE CustodyProofs ----------------------------
(***************************************************************************)
(* Proofs about Custody, for every value of its constants: its rows, then  *)
(* its files.                                                              *)
(*                                                                         *)
(* OneRecordKept is not inductive: the duplicate in a resolver's hands may *)
(* by now be the only row of its content that is not flagged.  What is     *)
(* inductive is that each content keeps a row nobody has selected.         *)
(*                                                                         *)
(* RowsFindFiles is about states without a file in flight, so it says      *)
(* nothing of the steps in between.  What is inductive says which places   *)
(* each row owns at every step, that it owns them alone, and that its file *)
(* is there (seen as it will be once a rename under way is recorded or     *)
(* undone).                                                                *)
(***************************************************************************)
EXTENDS Custody, TLAPS

------------------------------------------------------------------------------
(* The inductive invariant. *)

\* A live row names a place or nothing, and a place if a resolver selected it.
LivePlaced ==
    \A a \in live : /\ at[a] # "trash"
                    /\ \A r \in Resolver : Active(r) /\ a \in job[r].left => at[a] # None

\* The item in hand came from a place.
HandPlaced == \A r \in Resolver : Active(r) /\ job[r].step # "next" => job[r].from \in Place

\* A live row of the content, nobody's duplicate, that no resolver selected.
Safe(b) == b \in live /\ dup[b] = None /\ \A r \in Resolver : b \notin Selected(r)

RecordSafe == \A a \in Asset : \E b \in Asset : ContentOf[b] = ContentOf[a] /\ Safe(b)

CInv == CustodyTypeOK /\ LivePlaced /\ HandPlaced /\ RecordSafe

------------------------------------------------------------------------------
\* The resolvers of a state that is well typed, and what they hold.
LEMMA JobTyped ==
    ASSUME CInv, NEW r \in Resolver, Active(r)
    PROVE  /\ job[r] \in Job
           /\ job[r].step # "next" => job[r].asset \in Asset /\ job[r].from \in Place
           /\ job[r].step = "next" => job[r].asset = None
           /\ job[r].left \subseteq Asset
  BY DEF CInv, CustodyTypeOK, Active, HandPlaced, Job

------------------------------------------------------------------------------
(* Init. *)

LEMMA InitCInv == CustodyInit => CInv
<1> SUFFICES ASSUME CustodyInit PROVE CInv
  OBVIOUS
<1>1. /\ \A r \in Resolver : ~Active(r)
      /\ \A r \in Resolver : Selected(r) = {}
  BY DEF CustodyInit, Active, Selected
<1>2. disk \in [Place -> Content \cup {None}]
  <2>1. ASSUME NEW s \in Place
        PROVE  (IF \E a \in Asset : at[a] = s
                THEN ContentOf[CHOOSE a \in Asset : at[a] = s] ELSE None) \in Content \cup {None}
    BY CustodyAssumption
  <2> QED
    BY <2>1 DEF CustodyInit
<1>3. at \in [Asset -> Where]
  BY DEF CustodyInit, Where, Place
<1>4. CustodyTypeOK
  BY <1>1, <1>2, <1>3, CustodyAssumption DEF CustodyInit, CustodyTypeOK, NoPlan, Plan
<1>5. LivePlaced /\ HandPlaced
  <2>1. \A a \in Asset : at[a] # "trash"
    BY WhereAssumption DEF CustodyInit, Place
  <2> QED
    BY <1>1, <2>1 DEF LivePlaced, HandPlaced, CustodyInit
<1>6. RecordSafe
  <2>1. ASSUME NEW a \in Asset PROVE \E b \in Asset : ContentOf[b] = ContentOf[a] /\ Safe(b)
    <3>1. CASE dup[a] = None
      BY <1>1, <3>1 DEF CustodyInit, Safe
    <3>2. CASE dup[a] # None
      <4>1. dup[a] \in Asset /\ dup[dup[a]] = None /\ ContentOf[dup[a]] = ContentOf[a]
        BY <3>2 DEF CustodyInit
      <4> QED
        BY <1>1, <4>1 DEF CustodyInit, Safe
    <3> QED
      BY <3>1, <3>2
  <2> QED
    BY <2>1 DEF RecordSafe
<1> QED
  BY <1>4, <1>5, <1>6 DEF CInv

------------------------------------------------------------------------------
(* What a step has to keep: of the resolvers, the rows, the files, the rest. *)

RowsStep ==
    /\ live' \subseteq live
    /\ dup' \in [Asset -> Asset \cup {None}]
    /\ at' \in [Asset -> Where]
    /\ \A a \in live' : at'[a] = at[a] \/ at'[a] \in Place
    /\ \A b \in Asset : Safe(b) => b \in live' /\ dup'[b] = None

FilesStep ==
    /\ disk' \in [Place -> Content \cup {None}]
    /\ trash' \subseteq Asset \X Place \X Content
    /\ harm' \subseteq Harm

RestStep ==
    /\ plan' \in Plan
    /\ reorg' \in Entry \cup {None}
    /\ rename' \in Rename \cup {None}
    /\ ops' \in 0..MaxOps /\ faults' \in 0..MaxFaults

JobStep ==
    /\ job' \in [Resolver -> Job \cup {None}]
    /\ \A r \in Resolver : Active(r)' => (job'[r].asset = None) = (job'[r].step = "next")
    /\ HandPlaced'
    /\ RowsStep => LivePlaced' /\ RecordSafe'

LEMMA Assembled ==
    ASSUME CInv, JobStep, RowsStep, FilesStep, RestStep PROVE CInv'
  BY DEF CInv, CustodyTypeOK, JobStep, RowsStep, FilesStep, RestStep

LEMMA RowsSame == ASSUME CInv, UNCHANGED <<live, dup, at>> PROVE RowsStep
  BY DEF CInv, CustodyTypeOK, RowsStep, Safe

LEMMA FilesSame == ASSUME CInv, UNCHANGED <<disk, trash, harm>> PROVE FilesStep
  BY DEF CInv, CustodyTypeOK, FilesStep

LEMMA RestSame ==
    ASSUME CInv, UNCHANGED <<plan, reorg, rename, ops>>, Fault \/ UNCHANGED faults PROVE RestStep
  BY CustodyAssumption DEF CInv, CustodyTypeOK, RestStep, Fault

LEMMA Counted == ASSUME CInv PROVE /\ Begun => ops' \in 0..MaxOps
                                   /\ Fault => faults' \in 0..MaxFaults
<1>1. ops \in 0..MaxOps /\ faults \in 0..MaxFaults /\ MaxOps \in Nat /\ MaxFaults \in Nat
  BY CustodyAssumption DEF CInv, CustodyTypeOK
<1> QED
  BY <1>1 DEF Begun, Fault

LEMMA Begin == ASSUME CInv, Begun, UNCHANGED <<plan, reorg, rename, faults>> PROVE RestStep
  BY Counted DEF CInv, CustodyTypeOK, RestStep

\* A place that stays a place, and rows that nobody touches, whatever is selected.
LEMMA SelectionKept ==
    ASSUME CInv, RowsStep,
           \A r \in Resolver : Active(r)' => Active(r) /\ job'[r].left \subseteq job[r].left,
           \A r \in Resolver : Selected(r)' \subseteq Selected(r) \cup {None}
    PROVE  LivePlaced' /\ RecordSafe'
<1>1. ASSUME NEW a \in live' PROVE /\ at'[a] # "trash"
                                   /\ \A r \in Resolver : Active(r)' /\ a \in job'[r].left => at'[a] # None
  <2>1. a \in live /\ (at'[a] = at[a] \/ at'[a] \in Place)
    BY DEF RowsStep
  <2>2. CASE at'[a] \in Place
    BY <2>2, WhereAssumption
  <2>3. CASE at'[a] = at[a]
    BY <2>1, <2>3 DEF CInv, LivePlaced
  <2> QED
    BY <2>1, <2>2, <2>3
<1>2. \A b \in Asset : Safe(b) => Safe(b)'
  BY CustodyAssumption DEF RowsStep, Safe
<1> QED
  BY <1>1, <1>2 DEF CInv, LivePlaced, RecordSafe

LEMMA JobSame == ASSUME CInv, UNCHANGED job PROVE JobStep
<1>1. \A r \in Resolver : Selected(r)' = Selected(r) /\ Active(r)' = Active(r)
  BY DEF Selected, Active
<1>2. RowsStep => LivePlaced' /\ RecordSafe'
  BY <1>1, SelectionKept
<1>3. HandPlaced'
  BY <1>1 DEF CInv, HandPlaced
<1> QED
  BY <1>1, <1>2, <1>3 DEF CInv, CustodyTypeOK, JobStep

\* A resolver goes on with what it had selected, or ends.
LEMMA JobSet ==
    ASSUME CInv, NEW r \in Resolver, NEW j \in Job \cup {None}, Set(r, j),
           j # None => /\ Active(r)
                       /\ j.left \subseteq job[r].left
                       /\ j.asset \in {job[r].asset, None} \cup job[r].left
                       /\ (j.asset = None) = (j.step = "next")
                       /\ j.step # "next" => j.from \in Place
    PROVE  JobStep
<1>1. job' \in [Resolver -> Job \cup {None}] /\ job'[r] = j
  BY DEF CInv, CustodyTypeOK, Set
<1>2. \A q \in Resolver : q # r => job'[q] = job[q]
  BY DEF CInv, CustodyTypeOK, Set
<1>3. \A q \in Resolver : Active(q)' => Active(q) /\ job'[q].left \subseteq job[q].left
  BY <1>1, <1>2 DEF Active
<1>4. \A q \in Resolver : Selected(q)' \subseteq Selected(q) \cup {None}
  BY <1>1, <1>2 DEF Selected, Active
<1>5. \A q \in Resolver : Active(q)' => (job'[q].asset = None) = (job'[q].step = "next")
  BY <1>1, <1>2 DEF CInv, CustodyTypeOK, Active
<1>6. HandPlaced'
  BY <1>1, <1>2 DEF CInv, HandPlaced, Active
<1>7. RowsStep => LivePlaced' /\ RecordSafe'
  BY <1>3, <1>4, SelectionKept
<1> QED
  BY <1>1, <1>5, <1>6, <1>7 DEF JobStep

LEMMA DoneStep == ASSUME CInv, NEW r \in Resolver, Active(r), Done(r) PROVE JobStep
<1> DEFINE j == [job[r] EXCEPT !.asset = None, !.from = None, !.step = "next"]
<1>1. job[r] \in Job
  BY JobTyped
<1>2. /\ j \in Job /\ j.left = job[r].left /\ j.asset = None /\ j.step = "next"
  BY <1>1 DEF Job, Where
<1>3. Set(r, j)
  BY DEF Done
<1> HIDE DEF j
<1> QED
  BY <1>2, <1>3, JobSet

LEMMA NextStep ==
    ASSUME CInv, NEW r \in Resolver, Active(r), job[r].step # "next",
           NEW s \in {"file", "trash", "record", "undo"}, Step(r, s)
    PROVE  JobStep
<1> DEFINE j == [job[r] EXCEPT !.step = s]
<1>1. job[r] \in Job /\ job[r].from \in Place /\ job[r].asset # None
  BY JobTyped, CustodyAssumption
<1>2. j \in Job /\ j.left = job[r].left /\ j.asset = job[r].asset /\ j.step = s /\ j.from = job[r].from
  BY <1>1 DEF Job
<1>3. Set(r, j)
  BY DEF Step
<1> HIDE DEF j
<1> QED
  BY <1>1, <1>2, <1>3, JobSet

------------------------------------------------------------------------------
(* The steps of a resolver. *)

\* A selection is of duplicates only, so it leaves the safe rows out.
LEMMA StartResolveInv ==
    ASSUME CInv, NEW r \in Resolver, NEW act \in Action, NEW to \in Folder, NEW ids \in SUBSET Asset,
           StartResolve(r, act, to, ids)
    PROVE  CInv'
<1> DEFINE j == [act |-> act, to |-> to, left |-> ids, asset |-> None, from |-> None,
                 step |-> "next", cancelled |-> FALSE]
<1>1. j \in Job
  BY DEF Job, Where
<1>2. job' \in [Resolver -> Job \cup {None}] /\ job'[r] = j
  BY <1>1 DEF StartResolve, Set, CInv, CustodyTypeOK
<1>3. \A q \in Resolver : q # r => job'[q] = job[q]
  BY DEF StartResolve, Set, CInv, CustodyTypeOK
<1>4. \A q \in Resolver : Active(q)' => (job'[q].asset = None) = (job'[q].step = "next")
  BY <1>2, <1>3 DEF CInv, CustodyTypeOK, Active
<1>5. HandPlaced'
  BY <1>2, <1>3 DEF CInv, HandPlaced, Active
<1>6. LivePlaced'
  <2>1. ASSUME NEW a \in live, NEW q \in Resolver, Active(q)', a \in job'[q].left
        PROVE  at[a] # None
    <3>1. CASE q = r
      <4>1. ids \subseteq DuplicateIDs
        BY DEF StartResolve
      <4>2. job'[q].left = ids
        BY <1>2, <3>1
      <4> QED
        BY <2>1, <4>1, <4>2 DEF DuplicateIDs
    <3>2. CASE q # r
      BY <1>3, <2>1, <3>2 DEF CInv, LivePlaced, Active
    <3> QED
      BY <3>1, <3>2
  <2>2. UNCHANGED <<live, at>>
    BY DEF StartResolve
  <2> QED
    BY <2>1, <2>2 DEF CInv, LivePlaced
<1>7. ASSUME NEW b \in Asset, Safe(b) PROVE Safe(b)'
  <2>1. b \notin ids
    BY <1>7 DEF Safe, StartResolve, DuplicateIDs
  <2>2. \A q \in Resolver : b \notin Selected(q)'
    BY <1>2, <1>3, <1>7, <2>1, CustodyAssumption DEF Selected, Active, Safe
  <2> QED
    BY <1>7, <2>2 DEF Safe, StartResolve
<1>8. RecordSafe'
  BY <1>7 DEF CInv, RecordSafe
<1>9. JobStep
  BY <1>2, <1>4, <1>5, <1>6, <1>8 DEF JobStep
<1>10. FilesStep
  BY DEF StartResolve, FilesStep, Harm, CInv, CustodyTypeOK
<1>11. RestStep
  BY Begin DEF StartResolve
<1>12. RowsStep
  BY RowsSame DEF StartResolve
<1> QED
  BY <1>9, <1>10, <1>11, <1>12, Assembled

\* Steps that only pass from one item to another.
LEMMA CancelResolveInv == ASSUME CInv, NEW r \in Resolver, CancelResolve(r) PROVE CInv'
<1> DEFINE j == [job[r] EXCEPT !.cancelled = TRUE]
<1>1. /\ job[r] \in Job /\ Active(r)
      /\ job[r].step # "next" => job[r].from \in Place
      /\ (job[r].asset = None) = (job[r].step = "next")
  BY JobTyped DEF CancelResolve, CInv, CustodyTypeOK
<1>2. /\ j \in Job /\ j.left = job[r].left /\ j.asset = job[r].asset
      /\ j.step = job[r].step /\ j.from = job[r].from
  BY <1>1 DEF Job
<1>3. Set(r, j)
  BY DEF CancelResolve
<1>4. JobStep
  <2> HIDE DEF j
  <2> QED
    BY <1>1, <1>2, <1>3, JobSet
<1> QED
  BY <1>4, Assembled, RowsSame, FilesSame, RestSame DEF CancelResolve, Others

LEMMA TakeItemInv == ASSUME CInv, NEW r \in Resolver, TakeItem(r) PROVE CInv'
<1>1. /\ job[r] \in Job /\ Active(r) /\ job[r].step = "next" /\ job[r].asset = None
      /\ job[r].left \subseteq Asset
  BY JobTyped DEF TakeItem, At
<1>2. PICK a \in job[r].left :
         LET rest == [job[r] EXCEPT !.left = @ \ {a}] IN
         IF a \in live THEN Set(r, [rest EXCEPT !.asset = a, !.from = at[a], !.step = "file"])
                       ELSE Set(r, rest)
  BY DEF TakeItem
<1>3. a \in live => at[a] \in Place
  BY <1>1 DEF CInv, CustodyTypeOK, LivePlaced, Where
<1>4. JobStep
  <2>1. CASE a \in live
    <3> DEFINE j == [job[r] EXCEPT !.left = @ \ {a}, !.asset = a, !.from = at[a], !.step = "file"]
    <3>1. /\ j \in Job /\ j.left \subseteq job[r].left /\ j.asset = a
          /\ j.step = "file" /\ j.from \in Place
      BY <1>1, <1>3, <2>1 DEF Job, Where
    <3>2. Set(r, j)
      BY <1>1, <1>2, <2>1 DEF Job
    <3>3. a \in Asset /\ a # None
      BY <1>1, CustodyAssumption
    <3> HIDE DEF j
    <3> QED
      BY <1>1, <3>1, <3>2, <3>3, JobSet
  <2>2. CASE a \notin live
    <3> DEFINE j == [job[r] EXCEPT !.left = @ \ {a}]
    <3>1. /\ j \in Job /\ j.left \subseteq job[r].left /\ j.asset = None /\ j.step = "next"
      BY <1>1 DEF Job
    <3>2. Set(r, j)
      BY <1>2, <2>2
    <3> HIDE DEF j
    <3> QED
      BY <1>1, <3>1, <3>2, JobSet
  <2> QED
    BY <2>1, <2>2
<1> QED
  BY <1>4, Assembled, RowsSame, FilesSame, RestSame DEF TakeItem, Others

LEMMA EndResolveInv == ASSUME CInv, NEW r \in Resolver, EndResolve(r) PROVE CInv'
<1>1. JobStep
  BY JobSet DEF EndResolve
<1> QED
  BY <1>1, Assembled, RowsSame, FilesSame, RestSame DEF EndResolve, Others

LEMMA KeepItemInv == ASSUME CInv, NEW r \in Resolver, KeepItem(r) PROVE CInv'
<1>1. JobStep
  BY DoneStep DEF KeepItem, At
<1>2. RowsStep
  BY JobTyped DEF KeepItem, At, RowsStep, CInv, CustodyTypeOK, Safe
<1>3. FilesStep
  BY FilesSame DEF KeepItem
<1>4. RestStep
  BY RestSame DEF KeepItem, Others, Writes, Fails
<1> QED
  BY <1>1, <1>2, <1>3, <1>4, Assembled

\* Steps on the file in hand.
LEMMA InHand ==
    ASSUME CInv, NEW r \in Resolver, NEW s, At(r, s), s # "next"
    PROVE  /\ job[r] \in Job /\ Active(r) /\ job[r].step = s
           /\ job[r].asset \in Asset /\ job[r].from \in Place
           /\ Target(r) \in Place
  BY JobTyped DEF At, Job, Target, Place

LEMMA DiskTyped == ASSUME CInv PROVE /\ disk \in [Place -> Content \cup {None}]
                                     /\ trash \subseteq Asset \X Place \X Content
                                     /\ harm \subseteq Harm
  BY DEF CInv, CustodyTypeOK

LEMMA TrashItemInv == ASSUME CInv, NEW r \in Resolver, TrashItem(r) PROVE CInv'
<1>1. /\ Active(r) /\ job[r].step = "file" /\ job[r].asset \in Asset /\ job[r].from \in Place
  BY InHand DEF TrashItem
<1>2. JobStep
  BY <1>1, DoneStep, NextStep DEF TrashItem
<1>3. FilesStep
  BY <1>1, DiskTyped DEF TrashItem, Trashed, Free, FilesStep
<1> QED
  BY <1>2, <1>3, Assembled, RowsSame, RestSame DEF TrashItem, Others

LEMMA TrashCopiedInv == ASSUME CInv, NEW r \in Resolver, TrashCopied(r) PROVE CInv'
<1>1. /\ Active(r) /\ job[r].step = "trash" /\ job[r].asset \in Asset /\ job[r].from \in Place
  BY InHand DEF TrashCopied
<1>2. JobStep
  BY <1>1, DoneStep, NextStep DEF TrashCopied
<1>3. FilesStep
  BY <1>1, DiskTyped DEF TrashCopied, Trashed, Free, FilesStep
<1> QED
  BY <1>2, <1>3, Assembled, RowsSame, RestSame DEF TrashCopied, Others

\* The row deleted is one that a resolver selected.
LEMMA RecordDeleteInv == ASSUME CInv, NEW r \in Resolver, RecordDelete(r) PROVE CInv'
<1>1. /\ Active(r) /\ job[r].step = "record" /\ job[r].asset \in Asset
  BY InHand DEF RecordDelete
<1>2. JobStep
  BY <1>1, DoneStep DEF RecordDelete
<1>3. \A b \in Asset : Safe(b) => b # job[r].asset
  BY <1>1 DEF Safe, Selected
<1>4. RowsStep
  BY <1>1, <1>3 DEF RecordDelete, RowsStep, CInv, CustodyTypeOK, Safe, Where
<1>5. FilesStep
  BY DiskTyped DEF RecordDelete, Hurt, Harm, FilesStep
<1>6. RestStep
  BY RestSame DEF RecordDelete, Others, Writes, Fails
<1> QED
  BY <1>2, <1>4, <1>5, <1>6, Assembled

LEMMA MoveTyped ==
    ASSUME CInv, NEW s \in Place, NEW d \in Place
    PROVE  /\ Moved(s, d) \in [Place -> Content \cup {None}]
           /\ Copied(s, d) \in [Place -> Content \cup {None}]
  BY DiskTyped DEF Moved, Copied

LEMMA MoveItemInv == ASSUME CInv, NEW r \in Resolver, MoveItem(r) PROVE CInv'
<1>1. /\ Active(r) /\ job[r].step = "file" /\ job[r].from \in Place /\ Target(r) \in Place
  BY InHand DEF MoveItem
<1>2. JobStep
  BY <1>1, DoneStep, NextStep DEF MoveItem
<1>3. FilesStep
  BY ZenonT(60), <1>1, DiskTyped, MoveTyped DEF MoveItem, Hurt, Harm, FilesStep
<1> QED
  BY <1>2, <1>3, Assembled, RowsSame, RestSame DEF MoveItem, Others

LEMMA RecordMoveInv == ASSUME CInv, NEW r \in Resolver, RecordMove(r) PROVE CInv'
<1>1. /\ Active(r) /\ job[r].step = "record" /\ job[r].asset \in Asset /\ Target(r) \in Place
  BY InHand DEF RecordMove
<1>2. JobStep
  BY <1>1, DoneStep, NextStep DEF RecordMove
<1>3. RowsStep
  BY <1>1 DEF RecordMove, RowsStep, CInv, CustodyTypeOK, Safe, Where
<1>4. FilesStep
  BY FilesSame DEF RecordMove
<1>5. RestStep
  BY RestSame DEF RecordMove, Others, Writes, Fails
<1> QED
  BY <1>2, <1>3, <1>4, <1>5, Assembled

LEMMA UndoMoveInv == ASSUME CInv, NEW r \in Resolver, UndoMove(r) PROVE CInv'
<1>1. /\ Active(r) /\ job[r].from \in Place /\ Target(r) \in Place
  BY InHand DEF UndoMove
<1>2. JobStep
  BY <1>1, DoneStep DEF UndoMove
<1>3. FilesStep
  <2>1. CASE Across(r)
    BY <1>1, <2>1, DiskTyped DEF UndoMove, Hurt, Harm, FilesStep
  <2>2. CASE ~Across(r)
    BY <1>1, <2>2, DiskTyped, MoveTyped DEF UndoMove, Hurt, Harm, FilesStep
  <2> QED
    BY <2>1, <2>2
<1> QED
  BY <1>2, <1>3, Assembled, RowsSame, RestSame DEF UndoMove, Others

------------------------------------------------------------------------------
(* Records without files, reorganize, rename, crash. *)

LEMMA RemoveSourceOnlyInv == ASSUME CInv, RemoveSourceOnly PROVE CInv'
<1>1. RowsStep
  BY DEF RemoveSourceOnly, RowsStep, CInv, CustodyTypeOK, Safe
<1> QED
  BY <1>1, Assembled, JobSame, FilesSame, RestSame DEF RemoveSourceOnly

LEMMA RestTyped ==
    ASSUME CInv
    PROVE  /\ plan \in Plan /\ reorg \in Entry \cup {None} /\ rename \in Rename \cup {None}
           /\ ops \in 0..MaxOps /\ faults \in 0..MaxFaults
  BY DEF CInv, CustodyTypeOK

LEMMA PlannedTyped == ASSUME CInv, NEW p \in Planned PROVE p \subseteq Entry
<1> DEFINE movable == {a \in Asset : Movable(a)}
<1>1. PICK to \in [movable -> Place] : p = {[asset |-> a, from |-> at[a], to |-> to[a]] : a \in movable}
  BY DEF Planned
<1>2. \A a \in movable : a \in Asset /\ at[a] \in Place /\ to[a] \in Place
  BY DEF Movable
<1> QED
  BY <1>1, <1>2 DEF Entry

LEMMA PlanReorganizeInv == ASSUME CInv, PlanReorganize PROVE CInv'
<1>1. plan' \in Plan
  BY PlannedTyped, RestTyped DEF PlanReorganize, Plan
<1>2. RestStep
  BY <1>1, RestTyped DEF PlanReorganize, RestStep
<1> QED
  BY <1>2, Assembled, JobSame, RowsSame, FilesSame DEF PlanReorganize

LEMMA StartReorganizeInv == ASSUME CInv, StartReorganize PROVE CInv'
<1>1. plan' \in Plan
  <2>1. PICK p \in Planned \cup {plan.shown} :
                plan' = [shown |-> {}, moves |-> p, running |-> TRUE]
    BY DEF StartReorganize
  <2>2. p \subseteq Entry
    BY PlannedTyped, RestTyped DEF Plan
  <2> QED
    BY <2>1, <2>2 DEF Plan
<1>2. ops' \in 0..MaxOps
  BY Counted DEF StartReorganize
<1>3. RestStep
  BY <1>1, <1>2, RestTyped DEF StartReorganize, RestStep
<1>4. FilesStep
  BY DiskTyped DEF StartReorganize, Hurt, Harm, FilesStep
<1> QED
  BY <1>3, <1>4, Assembled, JobSame, RowsSame DEF StartReorganize

LEMMA ReorganizeMoveInv == ASSUME CInv, ReorganizeMove PROVE CInv'
<1>1. PICK e \in plan.moves :
          /\ plan' = [plan EXCEPT !.moves = @ \ {e}]
          /\ IF Free(e.from) THEN UNCHANGED <<disk, reorg, harm>>
             ELSE \E d \in Landing(e.to) :
                    LET same == disk[e.from] = ContentOf[e.asset] IN
                    /\ disk' = Moved(e.from, d)
                    /\ reorg' = IF same THEN [e EXCEPT !.to = d] ELSE None
                    /\ harm' \subseteq harm \cup {"unrecorded", "moved on"}
  BY ZenonT(60) DEF ReorganizeMove
<1>2. e \in Entry /\ e.from \in Place /\ e.to \in Place
  BY RestTyped DEF Plan, Entry
<1>3. \A d \in Landing(e.to) : d \in Place
  BY <1>2 DEF Landing, Place
<1>4. FilesStep
  <2>1. CASE Free(e.from)
    BY <1>1, <2>1, DiskTyped DEF ReorganizeMove, FilesStep
  <2>2. CASE ~Free(e.from)
    <3>1. PICK d \in Landing(e.to) : /\ disk' = Moved(e.from, d)
                                     /\ harm' \subseteq harm \cup {"unrecorded", "moved on"}
      BY <1>1, <2>2
    <3>2. disk' \in [Place -> Content \cup {None}]
      BY <1>2, <1>3, <3>1, MoveTyped
    <3>3. harm' \subseteq Harm
      BY <3>1, DiskTyped DEF Harm
    <3> QED
      BY <3>2, <3>3, DiskTyped DEF ReorganizeMove, FilesStep
  <2> QED
    BY <2>1, <2>2
<1>5. plan' \in Plan
  BY <1>1, RestTyped DEF Plan
<1>6. reorg' \in Entry \cup {None}
  BY <1>1, <1>2, <1>3, RestTyped DEF Entry
<1>7. RestStep
  BY <1>5, <1>6, RestTyped DEF ReorganizeMove, RestStep
<1> QED
  BY <1>4, <1>7, Assembled, JobSame, RowsSame DEF ReorganizeMove

LEMMA ReorganizeRecordInv == ASSUME CInv, ReorganizeRecord PROVE CInv'
<1>1. reorg \in Entry /\ reorg.to \in Place
  BY RestTyped DEF ReorganizeRecord, Entry
<1>2. RowsStep
  BY <1>1 DEF ReorganizeRecord, RowsStep, CInv, CustodyTypeOK, Safe, Where
<1>3. FilesStep
  BY DiskTyped DEF ReorganizeRecord, Hurt, Harm, FilesStep
<1>4. faults' \in 0..MaxFaults
  BY Counted, RestTyped DEF ReorganizeRecord
<1>5. RestStep
  BY <1>4, RestTyped DEF ReorganizeRecord, RestStep
<1> QED
  BY <1>2, <1>3, <1>5, Assembled, JobSame DEF ReorganizeRecord

LEMMA EndReorganizeInv == ASSUME CInv, EndReorganize PROVE CInv'
<1>1. RestStep
  BY RestTyped DEF EndReorganize, RestStep, Plan
<1> QED
  BY <1>1, Assembled, JobSame, RowsSame, FilesSame DEF EndReorganize

LEMMA RenameBeginInv ==
    ASSUME CInv, NEW f \in Folder, NEW g \in Folder, RenameBegin(f, g) PROVE CInv'
<1>1. rename' \in Rename
  BY DEF RenameBegin, Rename
<1>2. ops' \in 0..MaxOps
  BY Counted DEF RenameBegin
<1>3. RestStep
  BY <1>1, <1>2, RestTyped DEF RenameBegin, RestStep
<1>4. FilesStep
  BY DiskTyped DEF RenameBegin, Hurt, Harm, FilesStep
<1> QED
  BY <1>3, <1>4, Assembled, JobSame, RowsSame DEF RenameBegin

LEMMA SwappedTyped ==
    ASSUME CInv, NEW f \in Folder, NEW g \in Folder
    PROVE  Swapped(f, g) \in [Place -> Content \cup {None}]
<1>1. \A s \in Place : <<f, s[2]>> \in Place
  BY DEF Place
<1> QED
  BY <1>1, DiskTyped DEF Swapped

LEMMA RenameFolderInv == ASSUME CInv, RenameFolder PROVE CInv'
<1>1. rename \in Rename /\ rename.old \in Folder /\ rename.new \in Folder
  BY RestTyped DEF RenameFolder, Rename
<1>2. FilesStep
  BY <1>1, DiskTyped, SwappedTyped DEF RenameFolder, FilesStep
<1>3. RestStep
  BY <1>1, RestTyped DEF RenameFolder, RestStep, Rename
<1> QED
  BY <1>2, <1>3, Assembled, JobSame, RowsSame DEF RenameFolder

LEMMA RenameRecordInv == ASSUME CInv, RenameRecord PROVE CInv'
<1>1. rename \in Rename /\ rename.new \in Folder
  BY RestTyped DEF RenameRecord, Rename
<1>2. \A a \in Asset : at[a] \in Place => <<rename.new, at[a][2]>> \in Place
  BY <1>1 DEF Place
<1>3. RowsStep
  BY <1>2 DEF RenameRecord, RowsStep, CInv, CustodyTypeOK, Safe, Where
<1>4. faults' \in 0..MaxFaults
  BY Counted, RestTyped DEF RenameRecord
<1>5. RestStep
  BY <1>1, <1>4, RestTyped DEF RenameRecord, RestStep, Rename
<1> QED
  BY <1>3, <1>5, Assembled, JobSame, FilesSame DEF RenameRecord

LEMMA RenameUndoInv == ASSUME CInv, RenameUndo PROVE CInv'
<1>1. rename.old \in Folder /\ rename.new \in Folder
  BY RestTyped DEF RenameUndo, Rename
<1>2. FilesStep
  BY <1>1, DiskTyped, SwappedTyped DEF RenameUndo, FilesStep
<1>3. RestStep
  BY RestTyped DEF RenameUndo, RestStep
<1> QED
  BY <1>2, <1>3, Assembled, JobSame, RowsSame DEF RenameUndo

LEMMA CrashInv == ASSUME CInv, Crash PROVE CInv'
<1>1. \A r \in Resolver : job'[r] = None
  BY DEF Crash
<1>2. RowsStep
  BY RowsSame DEF Crash
<1>3. LivePlaced' /\ RecordSafe'
  BY <1>1, <1>2, SelectionKept DEF Active, Selected
<1>4. JobStep
  BY <1>1, <1>3 DEF Crash, JobStep, Active, HandPlaced
<1>5. FilesStep
  BY DiskTyped DEF Crash, Hurt, Harm, FilesStep
<1>6. faults' \in 0..MaxFaults
  BY Counted, RestTyped DEF Crash
<1>7. RestStep
  BY <1>6, RestTyped DEF Crash, RestStep, NoPlan, Plan
<1> QED
  BY <1>2, <1>4, <1>5, <1>7, Assembled

------------------------------------------------------------------------------

LEMMA StepCInv == CInv /\ [CustodyNext]_custodyVars => CInv'
<1> SUFFICES ASSUME CInv, [CustodyNext]_custodyVars PROVE CInv'
  OBVIOUS
<1>1. ASSUME NEW r \in Resolver, Resolve(r) PROVE CInv'
  BY <1>1, CancelResolveInv, TakeItemInv, EndResolveInv, KeepItemInv, TrashItemInv, RecordDeleteInv,
     MoveItemInv, TrashCopiedInv, RecordMoveInv, UndoMoveInv DEF Resolve
<1>2. ASSUME NEW r \in Resolver, NEW act \in Action, NEW to \in Folder, NEW ids \in SUBSET Asset,
             StartResolve(r, act, to, ids)
      PROVE  CInv'
  BY <1>2, StartResolveInv
<1>3. CASE RemoveSourceOnly
  BY <1>3, RemoveSourceOnlyInv
<1>4. CASE PlanReorganize \/ StartReorganize \/ ReorganizeMove \/ ReorganizeRecord \/ EndReorganize
  BY <1>4, PlanReorganizeInv, StartReorganizeInv, ReorganizeMoveInv, ReorganizeRecordInv,
     EndReorganizeInv
<1>5. CASE (\E f, g \in Folder : RenameBegin(f, g)) \/ RenameFolder \/ RenameRecord \/ RenameUndo
  BY <1>5, RenameBeginInv, RenameFolderInv, RenameRecordInv, RenameUndoInv
<1>6. CASE Crash
  BY <1>6, CrashInv
<1>7. CASE UNCHANGED custodyVars
  BY <1>7, Assembled, JobSame, RowsSame, FilesSame, RestSame DEF custodyVars
<1> QED
  BY <1>1, <1>2, <1>3, <1>4, <1>5, <1>6, <1>7 DEF CustodyNext

LEMMA CInvCorrect == CustodySpec => []CInv
<1>1. CustodyInit => CInv
  BY InitCInv
<1>2. CInv /\ [CustodyNext]_custodyVars => CInv'
  BY StepCInv
<1> QED
  BY <1>1, <1>2, PTL DEF CustodySpec

\* Duplicate resolution, one by one and in bulk, removal of records without
\* files, reorganize and rename, overlapping and interrupted anywhere: the
\* library keeps, of every content it ever had, a live record that is nobody's
\* duplicate; for any number of assets, contents, folders, operations, faults.
THEOREM CustodyInvCorrect == CustodySpec => []CustodyInv
<1>1. CInv => CustodyInv
  BY DEF CInv, RecordSafe, Safe, CustodyInv, OneRecordKept
<1> QED
  BY <1>1, CInvCorrect, PTL

------------------------------------------------------------------------------
(* What holds whatever happens. *)

\* A deleted row names no place; what is in hand, planned or being reorganized
\* had a file, and what is planned is nobody's duplicate; a reorganize under way
\* is running; a rename is from one folder to another.
HandHadFile == \A r \in Resolver : Active(r) /\ job[r].step # "next" => at[job[r].asset] # None
PlanHadFile == \A e \in plan.shown \cup plan.moves : at[e.asset] # None /\ dup[e.asset] = None

Standing ==
    /\ \A a \in Asset \ live : at[a] \notin Place
    /\ HandHadFile
    /\ PlanHadFile
    /\ reorg # None => plan.running /\ at[reorg.asset] # None
    /\ rename # None => rename.old # rename.new

------------------------------------------------------------------------------
(* What holds while no harm is done. *)

Handed(jobs, a) ==
    \E r \in Resolver : jobs[r] # None /\ jobs[r].asset = a /\ jobs[r].step \in {"record", "undo"}

Carried(jobs, a, s) ==
    \E r \in Resolver : /\ jobs[r] # None /\ jobs[r].asset = a /\ jobs[r].act = "move"
                        /\ jobs[r].step \in {"trash", "record", "undo"}
                        /\ s = <<jobs[r].to, jobs[r].from[2]>>

\* A row owns the place it names until its file leaves it, and the places its
\* file was moved or copied to; of what the resolvers hold, what the rows say
\* and the move a reorganize has on disk.
OwnsIn(jobs, rows, move, a, s) ==
    \/ s = rows[a] /\ ~Handed(jobs, a) /\ ~(move # None /\ move.asset = a)
    \/ Carried(jobs, a, s)
    \/ move # None /\ move.asset = a /\ s = move.to

Owns(a, s) == OwnsIn(job, at, reorg, a, s)

\* The files, where they are when a rename that moved its folder is undone.
Away == rename # None /\ rename.step \in {"moved", "undo"}
View == IF Away THEN Swapped(rename.new, rename.old) ELSE disk

Belong == \A a \in Asset, s \in Place : Owns(a, s) => View[s] = ContentOf[a]
Alone  == \A a, b \in Asset, s \in Place : Owns(a, s) /\ Owns(b, s) => a = b

InTrash(a) == \E e \in trash : e[1] = a /\ e[3] = ContentOf[a]

\* What a resolver selected are live duplicates; the item in hand is where it
\* was taken from, and its file in the trash before its row is deleted.
JobOrderly(r) ==
    Active(r) =>
      /\ Selected(r) \ {None} \subseteq {a \in live : dup[a] # None}
      /\ job[r].asset \notin job[r].left
      /\ job[r].step # "next" => job[r].from = at[job[r].asset]
      /\ job[r].step = "trash" => job[r].act = "move" /\ Across(r)
      /\ job[r].step = "undo" => job[r].act = "move"
      /\ job[r].step = "record" => job[r].act # "keep"
      /\ job[r].step = "record" /\ job[r].act = "delete" => InTrash(job[r].asset)

Apart == \A r, q \in Resolver : r # q => Selected(r) \cap Selected(q) \subseteq {None}

ReorgOrderly ==
    reorg # None => /\ reorg.asset \in live /\ dup[reorg.asset] = None
                    /\ at[reorg.asset] = reorg.from

RenameOrderly ==
    /\ rename # None => (\A r \in Resolver : ~Active(r)) /\ ~plan.running
    /\ Away => ~Occupied(rename.old)

TrashOrderly ==
    /\ \A e \in trash : e[3] = ContentOf[e[1]]
    /\ \A a \in Asset : at[a] = "trash" => InTrash(a)

Calm ==
    /\ Belong /\ Alone
    /\ (\A r \in Resolver : JobOrderly(r)) /\ Apart
    /\ ReorgOrderly /\ RenameOrderly /\ TrashOrderly

Orderly == harm = {} => Calm

FInv == CInv /\ Standing /\ OnlyReplacedIsLost /\ Orderly

------------------------------------------------------------------------------
(* Nothing is lost. *)

\* A row that never had a file never gets one, and no content that has a file
\* loses it unless a file is replaced or removed.
OnDisk(c)  == \E s \in Place : disk[s] = c
InTheTrash(c) == \E e \in trash : e[3] = c
FilesKept  == \A c \in Content : OnDisk(c) \/ InTheTrash(c) => OnDisk(c)' \/ InTheTrash(c)'

LossStep ==
    /\ harm \subseteq harm'
    /\ \A a \in Asset : at'[a] # None => at[a] # None
    /\ {"replaced", "removed"} \cap harm' = {} => FilesKept

LEMMA KeptIs == 
    ASSUME disk \in [Place -> Content \cup {None}], NEW a \in Asset
    PROVE  Kept(a) <=> OnDisk(ContentOf[a]) \/ InTheTrash(ContentOf[a])
  BY DEF Kept, Range, OnDisk, InTheTrash

LEMMA KeptIsNext ==
    ASSUME disk' \in [Place -> Content \cup {None}], NEW a \in Asset
    PROVE  Kept(a)' <=> OnDisk(ContentOf[a])' \/ InTheTrash(ContentOf[a])'
  BY DEF Kept, Range, OnDisk, InTheTrash

LEMMA LossInv == ASSUME CInv, CInv', OnlyReplacedIsLost, LossStep PROVE OnlyReplacedIsLost'
<1> SUFFICES ASSUME {"replaced", "removed"} \cap harm' = {}, NEW a \in Asset, at'[a] # None
             PROVE  Kept(a)'
  BY DEF OnlyReplacedIsLost, NothingLost
<1>1. Kept(a)
  BY DEF OnlyReplacedIsLost, NothingLost, LossStep
<1>2. ContentOf[a] \in Content
  BY CustodyAssumption
<1>3. disk' \in [Place -> Content \cup {None}] /\ disk \in [Place -> Content \cup {None}]
  BY DEF CInv, CustodyTypeOK
<1> QED
  BY <1>1, <1>2, <1>3, KeptIs, KeptIsNext DEF LossStep, FilesKept

LEMMA LossSame ==
    ASSUME harm \subseteq harm', UNCHANGED <<disk, trash>>,
           \A a \in Asset : at'[a] # None => at[a] # None
    PROVE  LossStep
  BY DEF LossStep, FilesKept, OnDisk, InTheTrash

LEMMA TrashingKeeps ==
    ASSUME CInv, NEW a \in Asset, NEW s \in Place,
           trash' = Trashed(a, s), disk' = [disk EXCEPT ![s] = None]
    PROVE  FilesKept
<1> SUFFICES ASSUME NEW c \in Content, OnDisk(c) \/ InTheTrash(c) PROVE OnDisk(c)' \/ InTheTrash(c)'
  BY DEF FilesKept
<1>1. CASE InTheTrash(c)
  BY <1>1 DEF InTheTrash, Trashed
<1>2. CASE OnDisk(c)
  <2>1. PICK p \in Place : disk[p] = c
    BY <1>2 DEF OnDisk
  <2>2. CASE p = s
    <3>1. <<a, s, c>> \in trash' /\ <<a, s, c>>[3] = c
      BY <2>1, <2>2 DEF Trashed
    <3> QED
      BY <3>1 DEF InTheTrash
  <2>3. CASE p # s
    BY <2>1, <2>3, DiskTyped DEF OnDisk
  <2> QED
    BY <2>2, <2>3
<1> QED
  BY <1>1, <1>2

LEMMA MovingKeeps ==
    ASSUME CInv, NEW s \in Place, NEW d \in Place, s = d \/ Free(d),
           disk' = Moved(s, d) \/ disk' = Copied(s, d), UNCHANGED trash
    PROVE  FilesKept
<1> SUFFICES ASSUME NEW c \in Content, OnDisk(c) PROVE OnDisk(c)'
  BY DEF FilesKept, InTheTrash
<1>1. PICK p \in Place : disk[p] = c
  BY DEF OnDisk
<1>2. c # None
  BY CustodyAssumption
<1>3. CASE p = s
  <2>1. disk'[d] = c
    BY <1>1, <1>3, DiskTyped DEF Moved, Copied
  <2> QED
    BY <2>1 DEF OnDisk
<1>4. CASE p # s
  <2>1. disk'[p] = c
    BY <1>1, <1>2, <1>4, DiskTyped DEF Moved, Copied, Free
  <2> QED
    BY <2>1 DEF OnDisk
<1> QED
  BY <1>3, <1>4

LEMMA SwappingKeeps ==
    ASSUME CInv, NEW f \in Folder, NEW g \in Folder, ~Occupied(g),
           disk' = Swapped(f, g), UNCHANGED trash
    PROVE  FilesKept
<1> SUFFICES ASSUME NEW c \in Content, OnDisk(c) PROVE OnDisk(c)'
  BY DEF FilesKept, InTheTrash
<1>1. PICK p \in Place : disk[p] = c
  BY DEF OnDisk
<1>2. c # None /\ p[1] \in Folder /\ p[2] \in Name /\ p = <<p[1], p[2]>>
  BY CustodyAssumption DEF Place
<1>3. p[1] # g
  BY <1>1, <1>2 DEF Occupied, Free
<1>4. CASE p[1] = f
  <2> DEFINE q == <<g, p[2]>>
  <2>1. q \in Place /\ q[1] = g /\ q[2] = p[2]
    BY <1>2 DEF Place
  <2> HIDE DEF q
  <2>2. disk'[q] = disk[<<f, p[2]>>]
    BY <2>1 DEF Swapped
  <2>3. disk'[q] = c
    BY <1>1, <1>2, <1>4, <2>2
  <2> QED
    BY <2>1, <2>3 DEF OnDisk
<1>5. CASE p[1] # f
  <2>1. disk'[p] = c
    BY <1>1, <1>3, <1>5 DEF Swapped
  <2> QED
    BY <2>1 DEF OnDisk
<1> QED
  BY <1>4, <1>5

------------------------------------------------------------------------------
(* The steps of a resolver keep Standing and lose nothing. *)

LEMMA PlaceTyped == ASSUME NEW s \in Place PROVE s # None /\ s # "trash"
  BY WhereAssumption

LEMMA OthersStand ==
    ASSUME CInv, NEW r \in Resolver, NEW j, Set(r, j)
    PROVE  job'[r] = j /\ \A q \in Resolver : q # r => job'[q] = job[q]
  BY DEF CInv, CustodyTypeOK, Set

LEMMA StandingJob ==
    ASSUME CInv, Standing, NEW r \in Resolver, UNCHANGED <<plan, reorg, rename>>,
           \A a \in Asset : dup'[a] \in {dup[a], None} /\ (at[a] # None => at'[a] # None),
           \A a \in Asset \ live' : at'[a] \notin Place,
           \A q \in Resolver : q # r => job'[q] = job[q],
           Active(r)' /\ job'[r].step # "next" => at'[job'[r].asset] # None
    PROVE  Standing'
<1>1. HandHadFile'
  <2> SUFFICES ASSUME NEW q \in Resolver, Active(q)', job'[q].step # "next"
               PROVE  at'[job'[q].asset] # None
    BY DEF HandHadFile
  <2>1. CASE q = r
    BY <2>1
  <2>2. CASE q # r
    <3>1. Active(q) /\ job[q].step # "next" /\ job'[q] = job[q]
      BY <2>2 DEF Active
    <3>2. job[q].asset \in Asset
      BY <3>1, JobTyped
    <3> QED
      BY <3>1, <3>2 DEF Standing, HandHadFile
  <2> QED
    BY <2>1, <2>2
<1>2. PlanHadFile'
  <2>1. \A e \in plan.shown \cup plan.moves : e.asset \in Asset
    BY RestTyped DEF Plan, Entry
  <2> QED
    BY <2>1 DEF Standing, PlanHadFile
<1>3. reorg # None => reorg.asset \in Asset
  BY RestTyped DEF Entry
<1> QED
  BY <1>1, <1>2, <1>3 DEF Standing

\* Steps that leave the rows alone.
LEMMA StandingRows ==
    ASSUME CInv, Standing, NEW r \in Resolver, NEW j, Set(r, j),
           UNCHANGED <<live, dup, at, plan, reorg, rename>>,
           j # None /\ j.step # "next" => at[j.asset] # None
    PROVE  Standing'
<1>1. job'[r] = j /\ \A q \in Resolver : q # r => job'[q] = job[q]
  BY OthersStand
<1> QED
  BY <1>1, StandingJob DEF Standing, Active

LEMMA HandFiled ==
    ASSUME CInv, Standing, NEW r \in Resolver, Active(r), job[r].step # "next"
    PROVE  job[r].asset \in Asset /\ at[job[r].asset] # None /\ job[r] \in Job
  BY JobTyped DEF Standing, HandHadFile

LEMMA StandingDone ==
    ASSUME CInv, Standing, NEW r \in Resolver, Active(r), Done(r),
           UNCHANGED <<live, dup, at, plan, reorg, rename>>
    PROVE  Standing'
<1> DEFINE j == [job[r] EXCEPT !.asset = None, !.from = None, !.step = "next"]
<1>1. j.step = "next" /\ Set(r, j)
  BY JobTyped DEF Done, Job
<1> HIDE DEF j
<1> QED
  BY <1>1, StandingRows

LEMMA StandingStep ==
    ASSUME CInv, Standing, NEW r \in Resolver, Active(r), job[r].step # "next", NEW s, Step(r, s),
           UNCHANGED <<live, dup, at, plan, reorg, rename>>
    PROVE  Standing'
<1> DEFINE j == [job[r] EXCEPT !.step = s]
<1>1. j.asset = job[r].asset /\ Set(r, j) /\ at[job[r].asset] # None
  BY HandFiled DEF Step, Job
<1> HIDE DEF j
<1> QED
  BY <1>1, StandingRows

LEMMA StartResolveStands ==
    ASSUME CInv, Standing, NEW r \in Resolver, NEW act \in Action, NEW to \in Folder,
           NEW ids \in SUBSET Asset, StartResolve(r, act, to, ids)
    PROVE  Standing' /\ LossStep
<1> DEFINE j == [act |-> act, to |-> to, left |-> ids, asset |-> None, from |-> None,
                 step |-> "next", cancelled |-> FALSE]
<1>1. j.step = "next" /\ Set(r, j)
  BY DEF StartResolve
<1>2. Standing'
  <2> HIDE DEF j
  <2> QED
    BY <1>1, StandingRows DEF StartResolve
<1>3. LossStep
  BY LossSame DEF StartResolve
<1> QED
  BY <1>2, <1>3

LEMMA CancelResolveStands ==
    ASSUME CInv, Standing, NEW r \in Resolver, CancelResolve(r) PROVE Standing' /\ LossStep
<1> DEFINE j == [job[r] EXCEPT !.cancelled = TRUE]
<1>1. /\ j.step = job[r].step /\ j.asset = job[r].asset /\ Set(r, j)
      /\ Active(r)
  BY JobTyped DEF CancelResolve, Job
<1>2. Standing'
  <2> HIDE DEF j
  <2> QED
    BY <1>1, HandFiled, StandingRows DEF CancelResolve, Others
<1>3. LossStep
  BY LossSame DEF CancelResolve
<1> QED
  BY <1>2, <1>3

LEMMA TakeItemStands ==
    ASSUME CInv, Standing, NEW r \in Resolver, TakeItem(r) PROVE Standing' /\ LossStep
<1>1. job[r] \in Job /\ Active(r) /\ job[r].step = "next"
  BY JobTyped DEF TakeItem, At
<1>2. PICK a \in job[r].left :
         LET rest == [job[r] EXCEPT !.left = @ \ {a}] IN
         IF a \in live THEN Set(r, [rest EXCEPT !.asset = a, !.from = at[a], !.step = "file"])
                       ELSE Set(r, rest)
  BY DEF TakeItem
<1>3. \E j : Set(r, j) /\ (j # None /\ j.step # "next" => a \in live /\ j.asset = a)
  <2>1. CASE a \in live
    <3> DEFINE j == [job[r] EXCEPT !.left = @ \ {a}, !.asset = a, !.from = at[a], !.step = "file"]
    <3>1. j.asset = a /\ Set(r, j)
      BY <1>1, <1>2, <2>1 DEF Job
    <3> HIDE DEF j
    <3> QED
      BY <2>1, <3>1
  <2>2. CASE a \notin live
    <3> DEFINE j == [job[r] EXCEPT !.left = @ \ {a}]
    <3>1. j.step = "next" /\ Set(r, j)
      BY <1>1, <1>2, <2>2 DEF Job
    <3> HIDE DEF j
    <3> QED
      BY <3>1
  <2> QED
    BY <2>1, <2>2
<1>4. a \in live => at[a] # None
  BY <1>1 DEF CInv, LivePlaced
<1>5. Standing'
  BY <1>3, <1>4, StandingRows DEF TakeItem, Others
<1>6. LossStep
  BY LossSame DEF TakeItem
<1> QED
  BY <1>5, <1>6

LEMMA EndResolveStands ==
    ASSUME CInv, Standing, NEW r \in Resolver, EndResolve(r) PROVE Standing' /\ LossStep
<1>1. Standing'
  BY StandingRows DEF EndResolve, Others
<1> QED
  BY <1>1, LossSame DEF EndResolve

LEMMA DoneSets ==
    ASSUME CInv, NEW r \in Resolver, Active(r), Done(r)
    PROVE  /\ \A q \in Resolver : q # r => job'[q] = job[q]
           /\ job'[r] \in Job /\ job'[r].step = "next" /\ job'[r].asset = None
           /\ job'[r].left = job[r].left
<1> DEFINE j == [job[r] EXCEPT !.asset = None, !.from = None, !.step = "next"]
<1>1. j \in Job /\ j.step = "next" /\ j.asset = None /\ j.left = job[r].left /\ Set(r, j)
  BY JobTyped DEF Done, Job, Where
<1> HIDE DEF j
<1> QED
  BY <1>1, OthersStand

LEMMA KeepItemStands ==
    ASSUME CInv, Standing, NEW r \in Resolver, KeepItem(r) PROVE Standing' /\ LossStep
<1>1. Active(r) /\ job[r].step = "file" /\ job[r].asset \in Asset
  BY InHand DEF KeepItem
<1>2. \A a \in Asset : dup'[a] \in {dup[a], None}
  BY <1>1 DEF KeepItem, CInv, CustodyTypeOK
<1>3. Standing'
  BY <1>1, <1>2, DoneSets, StandingJob DEF KeepItem, Others, Standing
<1> QED
  BY <1>3, LossSame DEF KeepItem

LEMMA TrashItemStands ==
    ASSUME CInv, Standing, NEW r \in Resolver, TrashItem(r) PROVE Standing' /\ LossStep
<1>1. Active(r) /\ job[r].step = "file" /\ job[r].asset \in Asset /\ job[r].from \in Place
  BY InHand DEF TrashItem
<1>2. Standing'
  BY <1>1, StandingDone, StandingStep DEF TrashItem, Others
<1>3. FilesKept
  <2>1. CASE Free(job[r].from)
    BY <2>1 DEF TrashItem, FilesKept, OnDisk, InTheTrash
  <2>2. CASE ~Free(job[r].from)
    BY <1>1, <2>2, TrashingKeeps DEF TrashItem
  <2> QED
    BY <2>1, <2>2
<1> QED
  BY <1>2, <1>3 DEF TrashItem, LossStep

LEMMA TrashCopiedStands ==
    ASSUME CInv, Standing, NEW r \in Resolver, TrashCopied(r) PROVE Standing' /\ LossStep
<1>1. Active(r) /\ job[r].step = "trash" /\ job[r].asset \in Asset /\ job[r].from \in Place
  BY InHand DEF TrashCopied
<1>2. Standing'
  BY <1>1, StandingDone, StandingStep DEF TrashCopied, Others
<1>3. FilesKept
  <2>1. CASE Free(job[r].from)
    BY <2>1 DEF TrashCopied, FilesKept, OnDisk, InTheTrash
  <2>2. CASE ~Free(job[r].from)
    BY <1>1, <2>2, TrashingKeeps DEF TrashCopied
  <2> QED
    BY <2>1, <2>2
<1> QED
  BY <1>2, <1>3 DEF TrashCopied, LossStep

LEMMA RecordDeleteStands ==
    ASSUME CInv, Standing, NEW r \in Resolver, RecordDelete(r) PROVE Standing' /\ LossStep
<1>1. Active(r) /\ job[r].step = "record" /\ job[r].asset \in Asset /\ at[job[r].asset] # None
  BY InHand, HandFiled DEF RecordDelete
<1>2. /\ \A a \in Asset : (at'[a] # None) = (at[a] # None)
      /\ \A a \in Asset \ live' : at'[a] \notin Place
  BY ZenonT(60), <1>1, WhereAssumption DEF RecordDelete, CInv, CustodyTypeOK, Standing
<1>3. Standing'
  BY <1>1, <1>2, DoneSets, StandingJob DEF RecordDelete, Others
<1>4. harm \subseteq harm'
  BY DEF RecordDelete, Hurt
<1> QED
  BY <1>2, <1>3, <1>4, LossSame DEF RecordDelete

LEMMA MoveItemStands ==
    ASSUME CInv, Standing, NEW r \in Resolver, MoveItem(r) PROVE Standing' /\ LossStep
<1>1. /\ Active(r) /\ job[r].step = "file" /\ job[r].asset \in Asset
      /\ job[r].from \in Place /\ Target(r) \in Place
  BY InHand DEF MoveItem
<1>2. Standing'
  BY <1>1, StandingDone, StandingStep DEF MoveItem, Others
<1>3. harm \subseteq harm'
  BY DEF MoveItem, Hurt
<1>4. ASSUME "replaced" \notin harm' PROVE FilesKept
  <2>1. CASE UNCHANGED disk
    BY <2>1 DEF MoveItem, FilesKept, OnDisk, InTheTrash
  <2>2. CASE ~UNCHANGED disk
    <3>1. /\ Hurt(job[r].from # Target(r) /\ ~Free(Target(r)), "replaced")
          /\ disk' = Moved(job[r].from, Target(r)) \/ disk' = Copied(job[r].from, Target(r))
      BY <2>2 DEF MoveItem
    <3> QED
      BY <1>1, <1>4, <3>1, MovingKeeps DEF MoveItem, Hurt
  <2> QED
    BY <2>1, <2>2
<1> QED
  BY <1>2, <1>3, <1>4 DEF MoveItem, LossStep

LEMMA RecordMoveStands ==
    ASSUME CInv, Standing, NEW r \in Resolver, RecordMove(r) PROVE Standing' /\ LossStep
<1>1. /\ Active(r) /\ job[r].step = "record" /\ job[r].asset \in Asset
      /\ at[job[r].asset] # None /\ Target(r) \in Place
  BY InHand, HandFiled DEF RecordMove
<1>2. CASE Writes(r) /\ at' = [at EXCEPT ![job[r].asset] = Target(r)] /\ Done(r)
  <2>1. /\ \A a \in Asset : (at'[a] # None) = (at[a] # None)
        /\ \A a \in Asset \ live' : at'[a] \notin Place
    BY <1>1, <1>2, PlaceTyped DEF RecordMove, Writes, CInv, CustodyTypeOK, Standing
  <2>2. Standing'
    BY <1>1, <1>2, <2>1, DoneSets, StandingJob DEF RecordMove, Others
  <2> QED
    BY <2>1, <2>2, LossSame DEF RecordMove
<1>3. CASE Step(r, "undo") /\ UNCHANGED at
  <2>1. Standing'
    BY <1>1, <1>3, StandingStep DEF RecordMove, Others
  <2> QED
    BY <1>3, <2>1, LossSame DEF RecordMove
<1> QED
  BY <1>2, <1>3 DEF RecordMove

\* Undone across volumes, the file comes back from the trash, and what is removed is its copy.
LEMMA UndoMoveStands ==
    ASSUME CInv, Standing, NEW r \in Resolver, UndoMove(r) PROVE Standing' /\ LossStep
<1>1. /\ Active(r) /\ job[r].step = "undo" /\ job[r].asset \in Asset
      /\ job[r].from \in Place /\ Target(r) \in Place
  BY InHand DEF UndoMove
<1>2. Standing'
  BY <1>1, StandingDone DEF UndoMove, Others
<1>3. harm \subseteq harm'
  BY DEF UndoMove, Hurt
<1>4. ASSUME {"replaced", "removed"} \cap harm' = {} PROVE FilesKept
  <2>1. CASE Across(r)
    <3> DEFINE s == job[r].from  d == Target(r)
    <3>1. PICK e \in trash : /\ trash' = trash \ {e}
                             /\ disk' = [disk EXCEPT ![s] = e[3], ![d] = None]
                             /\ harm' = harm \cup {h \in {"replaced"} : ~Free(s)}
                                            \cup {h \in {"removed"} : disk[d] \notin {None, e[3]}}
      BY <2>1 DEF UndoMove
    <3>2. Free(s) /\ disk[d] \in {None, e[3]} /\ s # d
      BY <1>4, <2>1, <3>1 DEF Across, Target
    <3>3. disk'[s] = e[3] /\ \A p \in Place : p # s /\ p # d => disk'[p] = disk[p]
      BY <1>1, <3>1, <3>2, DiskTyped
    <3>4. ASSUME NEW c \in Content, OnDisk(c) PROVE OnDisk(c)'
      <4>1. PICK p \in Place : disk[p] = c
        BY <3>4 DEF OnDisk
      <4>2. c # None
        BY CustodyAssumption
      <4> QED
        BY <1>1, <3>2, <3>3, <4>1, <4>2 DEF OnDisk, Free
    <3>5. ASSUME NEW c \in Content, InTheTrash(c) PROVE OnDisk(c)' \/ InTheTrash(c)'
      BY <1>1, <3>1, <3>3, <3>5 DEF OnDisk, InTheTrash
    <3> QED
      BY <3>4, <3>5 DEF FilesKept
  <2>2. CASE ~Across(r)
    <3>1. CASE Free(Target(r))
      BY <2>2, <3>1 DEF UndoMove, FilesKept, OnDisk, InTheTrash
    <3>2. CASE ~Free(Target(r))
      <4>1. job[r].from = Target(r) \/ Free(job[r].from)
        BY <1>4, <2>2, <3>2 DEF UndoMove, Hurt
      <4> QED
        BY <1>1, <2>2, <3>2, <4>1, MovingKeeps DEF UndoMove
    <3> QED
      BY <3>1, <3>2
  <2> QED
    BY <2>1, <2>2
<1> QED
  BY <1>2, <1>3, <1>4 DEF LossStep, UndoMove

------------------------------------------------------------------------------
(* The other steps keep Standing and lose nothing. *)

LEMMA RemoveSourceOnlyStands == ASSUME CInv, Standing, RemoveSourceOnly PROVE Standing' /\ LossStep
<1>1. \A a \in Asset \ live' : at'[a] \notin Place
  BY PlaceTyped DEF RemoveSourceOnly, Standing
<1>2. HandHadFile' /\ PlanHadFile'
  BY DEF RemoveSourceOnly, Standing, HandHadFile, PlanHadFile, Active
<1>3. Standing'
  BY <1>1, <1>2 DEF RemoveSourceOnly, Standing
<1> QED
  BY <1>3, LossSame DEF RemoveSourceOnly

LEMMA PlannedHadFile ==
    ASSUME CInv, NEW p \in Planned
    PROVE  \A e \in p : at[e.asset] # None /\ dup[e.asset] = None
<1> DEFINE movable == {a \in Asset : Movable(a)}
<1>1. PICK to \in [movable -> Place] : p = {[asset |-> a, from |-> at[a], to |-> to[a]] : a \in movable}
  BY DEF Planned
<1>2. \A a \in movable : at[a] # None /\ dup[a] = None
  BY PlaceTyped DEF Movable
<1> QED
  BY <1>1, <1>2

LEMMA PlanReorganizeStands == ASSUME CInv, Standing, PlanReorganize PROVE Standing' /\ LossStep
<1>1. PICK p \in Planned : plan' = [plan EXCEPT !.shown = p]
  BY DEF PlanReorganize
<1>2. plan'.shown = p /\ plan'.moves = plan.moves /\ plan'.running = plan.running
  BY <1>1, RestTyped DEF Plan
<1>3. PlanHadFile'
  BY <1>2, PlannedHadFile DEF PlanReorganize, Standing, PlanHadFile
<1>4. Standing'
  BY <1>2, <1>3 DEF PlanReorganize, Standing, HandHadFile, Active
<1> QED
  BY <1>4, LossSame DEF PlanReorganize

LEMMA StartReorganizeStands == ASSUME CInv, Standing, StartReorganize PROVE Standing' /\ LossStep
<1>1. PICK p \in Planned \cup {plan.shown} : plan' = [shown |-> {}, moves |-> p, running |-> TRUE]
  BY DEF StartReorganize
<1>2. PlanHadFile'
  BY <1>1, PlannedHadFile DEF StartReorganize, Standing, PlanHadFile
<1>3. Standing'
  BY <1>1, <1>2 DEF StartReorganize, Standing, HandHadFile, Active
<1>4. harm \subseteq harm'
  BY DEF StartReorganize, Hurt
<1> QED
  BY <1>3, <1>4, LossSame DEF StartReorganize

\* The file planned and where it lands, which is free.
LEMMA ReorganizeMoveIs ==
    ASSUME CInv, ReorganizeMove
    PROVE  \E e \in plan.moves :
             /\ e \in Entry /\ plan' = [plan EXCEPT !.moves = @ \ {e}]
             /\ \/ UNCHANGED <<disk, reorg, harm>>
                \/ \E d \in Place : 
                     /\ Free(d) /\ ~Free(e.from)
                     /\ disk' = Moved(e.from, d)
                     /\ reorg' = IF disk[e.from] = ContentOf[e.asset] THEN [e EXCEPT !.to = d] ELSE None
                     /\ harm' = harm \cup {h \in {"unrecorded"} : disk[e.from] # ContentOf[e.asset]}
                                    \cup {h \in {"moved on"} : at[e.asset] # e.from}
<1>1. PICK e \in plan.moves :
          /\ plan' = [plan EXCEPT !.moves = @ \ {e}]
          /\ IF Free(e.from) THEN UNCHANGED <<disk, reorg, harm>>
             ELSE \E d \in Landing(e.to) :
                    LET same == disk[e.from] = ContentOf[e.asset] IN
                    /\ disk' = Moved(e.from, d)
                    /\ reorg' = IF same THEN [e EXCEPT !.to = d] ELSE None
                    /\ harm' = harm \cup {h \in {"unrecorded"} : ~same}
                                   \cup {h \in {"moved on"} : at[e.asset] # e.from}
  BY DEF ReorganizeMove
<1>2. e \in Entry /\ e.to \in Place
  BY RestTyped DEF Plan, Entry
<1>3. \A d \in Landing(e.to) : d \in Place /\ Free(d)
  BY <1>2 DEF Landing, Place
<1> QED
  BY <1>1, <1>2, <1>3

LEMMA ReorganizeMoveStands == ASSUME CInv, Standing, ReorganizeMove PROVE Standing' /\ LossStep
<1>1. PICK e \in plan.moves :
             /\ e \in Entry /\ plan' = [plan EXCEPT !.moves = @ \ {e}]
             /\ \/ UNCHANGED <<disk, reorg, harm>>
                \/ \E d \in Place : 
                     /\ Free(d) /\ ~Free(e.from)
                     /\ disk' = Moved(e.from, d)
                     /\ reorg' = IF disk[e.from] = ContentOf[e.asset] THEN [e EXCEPT !.to = d] ELSE None
                     /\ harm' = harm \cup {h \in {"unrecorded"} : disk[e.from] # ContentOf[e.asset]}
                                    \cup {h \in {"moved on"} : at[e.asset] # e.from}
  BY ReorganizeMoveIs
<1>2. plan'.shown = plan.shown /\ plan'.moves \subseteq plan.moves /\ plan'.running = plan.running
  BY <1>1, RestTyped DEF Plan
<1>3. PlanHadFile'
  BY <1>2 DEF ReorganizeMove, Standing, PlanHadFile
<1>4. reorg' # None => plan'.running /\ at'[reorg'.asset] # None
  <2>1. reorg' # None => reorg'.asset = e.asset
    BY <1>1 DEF Entry, ReorganizeMove
  <2> QED
    BY ZenonT(60), <1>1, <1>2, <2>1 DEF ReorganizeMove, Standing, PlanHadFile
<1>5. Standing'
  BY <1>3, <1>4 DEF ReorganizeMove, Standing, HandHadFile, Active
<1>6. FilesKept
  <2>1. CASE UNCHANGED disk
    BY <2>1 DEF ReorganizeMove, FilesKept, OnDisk, InTheTrash
  <2>2. CASE \E d \in Place : Free(d) /\ disk' = Moved(e.from, d)
    BY <1>1, <2>2, MovingKeeps DEF ReorganizeMove, Entry
  <2> QED
    BY <1>1, <2>1, <2>2
<1>7. harm \subseteq harm' /\ UNCHANGED at
  BY <1>1 DEF ReorganizeMove
<1> QED
  BY <1>5, <1>6, <1>7 DEF LossStep

LEMMA ReorganizeRecordStands ==
    ASSUME CInv, Standing, ReorganizeRecord PROVE Standing' /\ LossStep
<1>1. reorg \in Entry /\ reorg.asset \in Asset /\ reorg.to \in Place /\ at[reorg.asset] # None
  BY RestTyped DEF ReorganizeRecord, Entry, Standing
<1>2. /\ \A a \in Asset : (at'[a] # None) = (at[a] # None)
      /\ \A a \in Asset \ live' : at'[a] \notin Place
  BY <1>1, PlaceTyped DEF ReorganizeRecord, CInv, CustodyTypeOK, Standing
<1>3. HandHadFile'
  BY <1>2, JobTyped DEF ReorganizeRecord, Standing, HandHadFile, Active
<1>4. \A e \in plan.shown \cup plan.moves : e.asset \in Asset
  BY RestTyped DEF Plan, Entry
<1>5. PlanHadFile'
  BY <1>2, <1>4 DEF ReorganizeRecord, Standing, PlanHadFile
<1>6. Standing'
  BY <1>2, <1>3, <1>5 DEF ReorganizeRecord, Standing
<1>7. harm \subseteq harm'
  BY DEF ReorganizeRecord, Hurt
<1> QED
  BY <1>2, <1>6, <1>7, LossSame DEF ReorganizeRecord

LEMMA EndReorganizeStands == ASSUME CInv, Standing, EndReorganize PROVE Standing' /\ LossStep
<1>1. plan'.shown = plan.shown /\ plan'.moves = {}
  BY RestTyped DEF EndReorganize, Plan
<1>2. Standing'
  BY <1>1 DEF EndReorganize, Standing, HandHadFile, PlanHadFile, Active
<1> QED
  BY <1>2, LossSame DEF EndReorganize

LEMMA RenameBeginStands ==
    ASSUME CInv, Standing, NEW f \in Folder, NEW g \in Folder, RenameBegin(f, g)
    PROVE  Standing' /\ LossStep
<1>1. Standing'
  BY DEF RenameBegin, Standing, HandHadFile, PlanHadFile, Active
<1>2. harm \subseteq harm'
  BY DEF RenameBegin, Hurt
<1> QED
  BY <1>1, <1>2, LossSame DEF RenameBegin

LEMMA RenameTyped ==
    ASSUME CInv, rename # None
    PROVE  rename \in Rename /\ rename.old \in Folder /\ rename.new \in Folder
  BY RestTyped DEF Rename

LEMMA RenameFolderStands == ASSUME CInv, Standing, RenameFolder PROVE Standing' /\ LossStep
<1>1. rename \in Rename /\ rename.old \in Folder /\ rename.new \in Folder
  BY RenameTyped DEF RenameFolder
<1>2. Standing'
  BY <1>1 DEF RenameFolder, Standing, HandHadFile, PlanHadFile, Active, Rename
<1>3. FilesKept
  <2>1. CASE UNCHANGED disk
    BY <2>1 DEF RenameFolder, FilesKept, OnDisk, InTheTrash
  <2>2. CASE ~Occupied(rename.new) /\ disk' = Swapped(rename.old, rename.new)
    BY <1>1, <2>2, SwappingKeeps DEF RenameFolder
  <2> QED
    BY <2>1, <2>2 DEF RenameFolder
<1> QED
  BY <1>2, <1>3 DEF LossStep, RenameFolder

LEMMA RenameRecordStands == ASSUME CInv, Standing, RenameRecord PROVE Standing' /\ LossStep
<1>1. rename \in Rename /\ rename.new \in Folder
  BY RenameTyped DEF RenameRecord
<1>2. \A a \in Asset : at[a] \in Place => <<rename.new, at[a][2]>> \in Place
  BY <1>1 DEF Place
<1>3. /\ \A a \in Asset : (at'[a] # None) = (at[a] # None)
      /\ \A a \in Asset \ live' : at'[a] \notin Place
  BY <1>2, PlaceTyped DEF RenameRecord, CInv, CustodyTypeOK, Standing
<1>4. HandHadFile'
  BY <1>3, JobTyped DEF RenameRecord, Standing, HandHadFile, Active
<1>5. \A e \in plan.shown \cup plan.moves : e.asset \in Asset
  BY RestTyped DEF Plan, Entry
<1>6. PlanHadFile'
  BY <1>3, <1>5 DEF RenameRecord, Standing, PlanHadFile
<1>7. reorg # None => reorg.asset \in Asset
  BY RestTyped DEF Entry
<1>8. Standing'
  BY <1>1, <1>3, <1>4, <1>6, <1>7 DEF RenameRecord, Standing, Rename
<1> QED
  BY <1>3, <1>8, LossSame DEF RenameRecord

LEMMA RenameUndoStands == ASSUME CInv, Standing, RenameUndo PROVE Standing' /\ LossStep
<1>1. rename.old \in Folder /\ rename.new \in Folder
  BY RenameTyped DEF RenameUndo
<1>2. Standing'
  BY DEF RenameUndo, Standing, HandHadFile, PlanHadFile, Active
<1>3. FilesKept
  <2>1. CASE UNCHANGED disk
    BY <2>1 DEF RenameUndo, FilesKept, OnDisk, InTheTrash
  <2>2. CASE ~Occupied(rename.old) /\ disk' = Swapped(rename.new, rename.old)
    BY <1>1, <2>2, SwappingKeeps DEF RenameUndo
  <2> QED
    BY <2>1, <2>2 DEF RenameUndo
<1> QED
  BY <1>2, <1>3 DEF LossStep, RenameUndo

LEMMA CrashStands == ASSUME CInv, Standing, Crash PROVE Standing' /\ LossStep
<1>1. Standing'
  BY DEF Crash, Standing, HandHadFile, PlanHadFile, Active, NoPlan
<1>2. harm \subseteq harm'
  BY DEF Crash, Hurt
<1> QED
  BY <1>1, <1>2, LossSame DEF Crash

------------------------------------------------------------------------------
(* What a row owns, before or after a step. *)

LEMMA IdleOwns ==
    ASSUME NEW jobs, NEW rows, NEW move, NEW a, NEW s,
           \A r \in Resolver : jobs[r] # None => jobs[r].asset # a,
           move # None => move.asset # a
    PROVE  OwnsIn(jobs, rows, move, a, s) <=> s = rows[a]
  BY DEF OwnsIn, Handed, Carried

\* What the row in hand owns: the place it names until the file leaves it, and
\* the place the file is moved or copied to.
HeldIn(j, rows, a, s) ==
    \/ s = rows[a] /\ j.step \notin {"record", "undo"}
    \/ /\ j.act = "move" /\ j.step \in {"trash", "record", "undo"}
       /\ s = <<j.to, j.from[2]>>

LEMMA HeldOwns ==
    ASSUME NEW jobs, NEW rows, NEW move, NEW a, NEW s, NEW r \in Resolver,
           jobs[r] # None, jobs[r].asset = a,
           \A q \in Resolver : q # r /\ jobs[q] # None => jobs[q].asset # a,
           move # None => move.asset # a
    PROVE  OwnsIn(jobs, rows, move, a, s) <=> HeldIn(jobs[r], rows, a, s)
<1>1. Handed(jobs, a) <=> jobs[r].step \in {"record", "undo"}
  BY DEF Handed
<1>2. Carried(jobs, a, s) <=> /\ jobs[r].act = "move" /\ jobs[r].step \in {"trash", "record", "undo"}
                              /\ s = <<jobs[r].to, jobs[r].from[2]>>
  BY DEF Carried
<1> QED
  BY <1>1, <1>2 DEF OwnsIn, HeldIn

LEMMA ReorganizedOwns ==
    ASSUME NEW jobs, NEW rows, NEW move, NEW a, NEW s,
           \A r \in Resolver : jobs[r] # None => jobs[r].asset # a,
           move # None, move.asset = a
    PROVE  OwnsIn(jobs, rows, move, a, s) <=> s = move.to
  BY DEF OwnsIn, Handed, Carried

\* A step of one resolver is nothing to the rows it does not hold.
LEMMA OtherOwns ==
    ASSUME NEW jobs, NEW jobs2, NEW rows, NEW rows2, NEW move, NEW a, NEW s, NEW r \in Resolver,
           \A q \in Resolver : q # r => jobs2[q] = jobs[q],
           jobs[r] # None => jobs[r].asset # a,
           jobs2[r] # None => jobs2[r].asset # a,
           rows2[a] = rows[a]
    PROVE  OwnsIn(jobs2, rows2, move, a, s) <=> OwnsIn(jobs, rows, move, a, s)
<1>1. Handed(jobs2, a) <=> Handed(jobs, a)
  BY DEF Handed
<1>2. Carried(jobs2, a, s) <=> Carried(jobs, a, s)
  BY DEF Carried
<1> QED
  BY <1>1, <1>2 DEF OwnsIn

\* Nobody owns a place without a file.
LEMMA FreeUnowned ==
    ASSUME Belong, NEW s \in Place, View[s] = None, NEW a \in Asset PROVE ~Owns(a, s)
  BY CustodyAssumption DEF Belong

\* One row changes the places it owns, the files of the others stay.
LEMMA OneMoves ==
    ASSUME Belong, Alone, NEW a0,
           \A a \in Asset, s \in Place : a # a0 => (Owns(a, s)' <=> Owns(a, s)),
           \A a \in Asset, s \in Place : a # a0 /\ Owns(a, s) => View'[s] = View[s],
           \A s \in Place : a0 \in Asset /\ Owns(a0, s)' =>
               View'[s] = ContentOf[a0] /\ (Owns(a0, s) \/ View[s] = None)
    PROVE  Belong' /\ Alone'
<1>1. Belong'
  BY DEF Belong
<1>2. ASSUME NEW a \in Asset, NEW b \in Asset, NEW s \in Place, Owns(a, s)', Owns(b, s)'
      PROVE  a = b
  <2>1. CASE a # a0 /\ b # a0
    BY <1>2, <2>1 DEF Alone
  <2>2. CASE a = a0 /\ b # a0
    BY <1>2, <2>2, FreeUnowned DEF Alone
  <2>3. CASE a # a0 /\ b = a0
    BY <1>2, <2>3, FreeUnowned DEF Alone
  <2> QED
    BY <2>1, <2>2, <2>3
<1> QED
  BY <1>1, <1>2 DEF Alone

LEMMA ViewIsDisk == ASSUME ~Away PROVE View = disk
  BY DEF View

------------------------------------------------------------------------------
(* The steps of a resolver keep order. *)

\* What a resolver selected are assets.
LEMMA SelectedTyped == ASSUME CInv, NEW r \in Resolver PROVE Selected(r) \subseteq Asset \cup {None}
  BY JobTyped DEF Selected

\* The item in hand is nobody else's.
LEMMA HeldAlone ==
    ASSUME CInv, Calm, NEW r \in Resolver, Active(r), NEW a \in Selected(r), a # None
    PROVE  /\ a \in Asset /\ a \in live /\ dup[a] # None
           /\ \A q \in Resolver : q # r => a \notin Selected(q)
           /\ \A q \in Resolver : q # r /\ job[q] # None => job[q].asset # a
           /\ reorg # None => reorg.asset # a
           /\ rename = None
<1>1. a \in live /\ dup[a] # None /\ a \in Asset
  BY SelectedTyped DEF Calm, JobOrderly, CInv, CustodyTypeOK
<1>2. \A q \in Resolver : q # r => a \notin Selected(q)
  BY DEF Calm, Apart
<1>3. \A q \in Resolver : q # r /\ job[q] # None => job[q].asset # a
  BY <1>2 DEF Selected, Active
<1>4. rename = None
  BY DEF Calm, RenameOrderly
<1> QED
  BY <1>1, <1>2, <1>3, <1>4 DEF Calm, ReorgOrderly

\* A step leaves a row alone.
Untouched(a) == /\ (a \in live => a \in live')
                /\ dup'[a] = dup[a] /\ at'[a] = at[a]
                /\ (InTrash(a) => InTrash(a)')

LEMMA JobStepCalm ==
    ASSUME CInv, Calm, rename = None, UNCHANGED <<plan, reorg, rename>>,
           NEW r \in Resolver, NEW a0,
           \A q \in Resolver : q # r => job'[q] = job[q],
           Active(r) => job[r].asset \in {a0, None},
           Active(r)' => job'[r].asset \in {a0, None},
           a0 \in Asset => Active(r) /\ a0 \in Selected(r),
           \A q \in Resolver : q # r => Selected(r)' \cap Selected(q) \subseteq {None},
           JobOrderly(r)', TrashOrderly',
           \A a \in Asset : a # a0 => Untouched(a),
           \A s \in Place : a0 \in Asset /\ Owns(a0, s)' =>
               disk'[s] = ContentOf[a0] /\ (Owns(a0, s) \/ disk[s] = None),
           \A a \in Asset, s \in Place : a # a0 /\ Owns(a, s) => disk'[s] = disk[s]
    PROVE  Calm'
<1>1. View = disk /\ View' = disk'
  BY DEF View, Away
<1>2. ASSUME NEW a \in Asset, NEW s \in Place, a # a0 PROVE Owns(a, s)' <=> Owns(a, s)
  <2>1. a # None
    BY CustodyAssumption
  <2>2. /\ job[r] # None => job[r].asset # a
        /\ job'[r] # None => job'[r].asset # a
        /\ at'[a] = at[a]
    BY <1>2, <2>1 DEF Active, Untouched
  <2>3. OwnsIn(job', at', reorg, a, s) <=> OwnsIn(job, at, reorg, a, s)
    BY <2>2, OtherOwns
  <2> QED
    BY <2>3 DEF Owns
<1>3. Belong' /\ Alone'
  BY <1>1, <1>2, OneMoves DEF Calm
<1>4. ASSUME NEW q \in Resolver, q # r PROVE JobOrderly(q)'
  <2>1. /\ job'[q] = job[q] /\ (Active(q)' <=> Active(q)) /\ Selected(q)' = Selected(q)
        /\ Across(q)' <=> Across(q)
    BY <1>4 DEF Active, Selected, Across
  <2>2. \A a \in Selected(q) : a # None => a \in Asset /\ a # a0
    BY <1>4, SelectedTyped, HeldAlone DEF Calm, Apart
  <2> SUFFICES ASSUME Active(q) PROVE JobOrderly(q)'
    BY <2>1 DEF JobOrderly
  <2>3. job[q].asset # None => job[q].asset \in Asset /\ job[q].asset # a0
    BY <2>2 DEF Selected
  <2>4. job[q].step # "next" => job[q].asset # None
    BY DEF CInv, CustodyTypeOK
  <2>5. JobOrderly(q)
    BY DEF Calm
  <2> QED
    BY <2>1, <2>2, <2>3, <2>4, <2>5 DEF JobOrderly, Untouched
<1>5. \A q \in Resolver : JobOrderly(q)'
  BY <1>4
<1>6. Apart'
  <2>1. \A q \in Resolver : q # r => Selected(q)' = Selected(q)
    BY DEF Selected, Active
  <2> QED
    BY <2>1 DEF Calm, Apart
<1>7. ReorgOrderly'
  <2>1. reorg # None => reorg.asset \in Asset /\ reorg.asset # a0
    BY RestTyped, HeldAlone, CustodyAssumption DEF Entry
  <2> QED
    BY <2>1 DEF Calm, ReorgOrderly, Untouched
<1>8. RenameOrderly'
  BY DEF RenameOrderly, Away
<1> QED
  BY <1>3, <1>5, <1>6, <1>7, <1>8 DEF Calm

\* The item in hand, while no harm is done.
LEMMA HandCalm ==
    ASSUME CInv, Calm, NEW r \in Resolver, Active(r), job[r].step # "next"
    PROVE  /\ job[r] \in Job
           /\ job[r].asset \in Asset /\ job[r].asset # None /\ job[r].asset \in Selected(r)
           /\ job[r].asset \in live /\ dup[job[r].asset] # None /\ job[r].asset \notin job[r].left
           /\ job[r].from = at[job[r].asset] /\ job[r].from \in Place /\ Target(r) \in Place
           /\ rename = None
           /\ \A q \in Resolver : q # r /\ job[q] # None => job[q].asset # job[r].asset
           /\ reorg # None => reorg.asset # job[r].asset
           /\ \A p \in Place : Owns(job[r].asset, p) <=>
                \/ p = job[r].from /\ job[r].step \notin {"record", "undo"}
                \/ /\ job[r].act = "move" /\ job[r].step \in {"trash", "record", "undo"}
                   /\ p = Target(r)
<1> DEFINE a == job[r].asset
<1>1. job[r] \in Job /\ a \in Asset /\ a # None /\ job[r].from \in Place /\ Target(r) \in Place
  BY JobTyped, CustodyAssumption DEF Target, Place, Job
<1>2. a \in Selected(r)
  BY DEF Selected
<1>3. a \notin job[r].left /\ job[r].from = at[a]
  BY DEF Calm, JobOrderly
<1>4. /\ a \in live /\ dup[a] # None /\ rename = None
      /\ \A q \in Resolver : q # r /\ job[q] # None => job[q].asset # a
      /\ reorg # None => reorg.asset # a
  BY <1>1, <1>2, HeldAlone
<1>5. ASSUME NEW p \in Place
      PROVE  Owns(a, p) <=> \/ p = at[a] /\ job[r].step \notin {"record", "undo"}
                            \/ /\ job[r].act = "move" /\ job[r].step \in {"trash", "record", "undo"}
                               /\ p = Target(r)
  <2>1. OwnsIn(job, at, reorg, a, p) <=> HeldIn(job[r], at, a, p)
    <3> HIDE DEF a
    <3>1. job[r] # None /\ job[r].asset = a
      BY DEF Active, a
    <3> QED
      BY <1>4, <3>1, HeldOwns
  <2> HIDE DEF a
  <2> QED
    BY <2>1 DEF Owns, Target, HeldIn
<1> QED
  BY <1>1, <1>2, <1>3, <1>4, <1>5

\* The item done: its row owns the place it now names.
LEMMA DoneCalm ==
    ASSUME CInv, Calm, NEW r \in Resolver, Active(r), job[r].step # "next", Done(r),
           NEW a, a = job[r].asset,
           UNCHANGED <<plan, reorg, rename>>, TrashOrderly',
           \A b \in Asset : b # a => Untouched(b),
           \A p \in Place : p = at'[a] => disk'[p] = ContentOf[a] /\ (Owns(a, p) \/ disk[p] = None),
           \A b \in Asset, p \in Place : b # a /\ Owns(b, p) => disk'[p] = disk[p]
    PROVE  Calm'
<1>1. /\ a \in Asset /\ a # None /\ a \in Selected(r) /\ rename = None /\ a \notin job[r].left
      /\ \A q \in Resolver : q # r /\ job[q] # None => job[q].asset # a
      /\ reorg # None => reorg.asset # a
  BY HandCalm
<1>2. /\ \A q \in Resolver : q # r => job'[q] = job[q]
      /\ job'[r] \in Job /\ job'[r].step = "next" /\ job'[r].asset = None
      /\ job'[r].left = job[r].left
  BY DoneSets
<1>3. \A q \in Resolver : job'[q] # None => job'[q].asset # a
  BY <1>1, <1>2
<1>4. ASSUME NEW p \in Place PROVE Owns(a, p)' <=> p = at'[a]
  <2>1. OwnsIn(job', at', reorg', a, p) <=> p = at'[a]
    BY <1>1, <1>3, IdleOwns
  <2> QED
    BY <2>1 DEF Owns
<1>5. Selected(r)' \subseteq job[r].left \cup {None}
  BY <1>2 DEF Selected, Active
<1>6. job[r].left \subseteq Selected(r) /\ job[r].left \subseteq Asset
  BY JobTyped DEF Selected
<1>7. JobOrderly(r)'
  <2>1. \A b \in job[r].left : b \in live /\ dup[b] # None /\ b # a /\ b # None
    BY <1>1, <1>6, CustodyAssumption DEF Calm, JobOrderly
  <2>2. ASSUME NEW b \in job[r].left PROVE b \in live' /\ dup'[b] # None
    <3>1. b \in Asset /\ b # a
      BY <1>6, <2>1
    <3>2. b \in live' /\ dup'[b] = dup[b]
      BY <2>1, <3>1 DEF Untouched
    <3> QED
      BY <2>1, <3>2
  <2> QED
    BY <1>2, <1>5, <1>6, <2>1, <2>2 DEF JobOrderly
<1>8. \A q \in Resolver : q # r => Selected(r)' \cap Selected(q) \subseteq {None}
  BY <1>5, <1>6 DEF Calm, Apart
<1>9. job'[r].asset \in {a, None}
  BY <1>2
<1> QED
  <2>1. \A p \in Place : Owns(a, p)' => disk'[p] = ContentOf[a] /\ (Owns(a, p) \/ disk[p] = None)
    BY <1>4
  <2>2. a \in Asset => Active(r) /\ a \in Selected(r)
    BY <1>1
  <2> QED
    BY <1>1, <1>2, <1>7, <1>8, <1>9, <2>1, <2>2, JobStepCalm

\* The item goes on to its next step: its row owns what the new step says.
LEMMA StepCalmInv ==
    ASSUME CInv, Calm, NEW r \in Resolver, Active(r), job[r].step # "next",
           NEW st \in {"trash", "record", "undo"}, Step(r, st),
           NEW a, a = job[r].asset,
           UNCHANGED <<live, dup, at, plan, reorg, rename>>, TrashOrderly',
           \A b \in Asset : InTrash(b) => InTrash(b)',
           st = "trash" => job[r].act = "move" /\ Across(r),
           st = "undo" => job[r].act = "move",
           st = "record" => job[r].act = "move" \/ (job[r].act = "delete" /\ InTrash(a)'),
           st = "trash" => disk'[job[r].from] = ContentOf[a]
                           /\ (Owns(a, job[r].from) \/ disk[job[r].from] = None),
           job[r].act = "move" => disk'[Target(r)] = ContentOf[a]
                                  /\ (Owns(a, Target(r)) \/ disk[Target(r)] = None),
           \A b \in Asset, p \in Place : b # a /\ Owns(b, p) => disk'[p] = disk[p]
    PROVE  Calm'
<1> DEFINE j == [job[r] EXCEPT !.step = st]
<1>1. /\ job[r] \in Job /\ a \in Asset /\ a # None /\ a \in Selected(r) /\ rename = None
      /\ a \notin job[r].left /\ job[r].from = at[a] /\ job[r].from \in Place /\ Target(r) \in Place
      /\ \A q \in Resolver : q # r /\ job[q] # None => job[q].asset # a
      /\ reorg # None => reorg.asset # a
  BY HandCalm
<1>2. /\ j \in Job /\ j.step = st /\ j.asset = a /\ j.left = job[r].left /\ j.act = job[r].act
      /\ j.to = job[r].to /\ j.from = job[r].from
      /\ Set(r, j)
  BY <1>1 DEF Step, Job
<1> HIDE DEF j
<1>3. job'[r] = j /\ \A q \in Resolver : q # r => job'[q] = job[q]
  BY <1>2, OthersStand
<1>4. ASSUME Active(r)', NEW p \in Place
      PROVE  Owns(a, p)' <=> \/ p = job[r].from /\ st = "trash"
                             \/ job[r].act = "move" /\ p = Target(r)
  <2>1. /\ job'[r] # None /\ job'[r].asset = a
        /\ \A q \in Resolver : q # r /\ job'[q] # None => job'[q].asset # a
    BY <1>1, <1>2, <1>3, <1>4 DEF Active
  <2>2. OwnsIn(job', at', reorg', a, p) <=> HeldIn(job'[r], at', a, p)
    BY <1>1, <2>1, HeldOwns
  <2> QED
    BY <1>1, <1>2, <1>3, <2>2 DEF Owns, HeldIn, Target
<1>5. Active(r)'
  BY <1>2, <1>3, NoneAssumption DEF Active
<1>6. Selected(r)' = Selected(r) /\ (Across(r)' <=> Across(r))
  BY <1>2, <1>3, <1>5 DEF Selected, Active, Across
<1>7. JobOrderly(r)'
  <2>1. Selected(r) \ {None} \subseteq {b \in live : dup[b] # None}
    BY DEF Calm, JobOrderly
  <2> QED
    BY <1>1, <1>2, <1>3, <1>6, <2>1 DEF JobOrderly
<1>8. \A q \in Resolver : q # r => Selected(r)' \cap Selected(q) \subseteq {None}
  BY <1>6 DEF Calm, Apart
<1>9. \A b \in Asset : b # a => Untouched(b)
  BY DEF Untouched
<1>10. \A p \in Place : Owns(a, p)' => disk'[p] = ContentOf[a] /\ (Owns(a, p) \/ disk[p] = None)
  BY <1>4, <1>5
<1>11. /\ a \in Asset => Active(r) /\ a \in Selected(r)
       /\ job'[r].asset \in {a, None}
  BY <1>1, <1>2, <1>3
<1> QED
  BY <1>1, <1>3, <1>7, <1>8, <1>9, <1>10, <1>11, JobStepCalm

\* Nothing in the files or the trash changes.
LEMMA TrashSame ==
    ASSUME Calm, UNCHANGED trash, \A a \in Asset : at'[a] = "trash" => at[a] = "trash"
    PROVE  TrashOrderly' /\ \A a \in Asset : InTrash(a) => InTrash(a)'
  BY DEF Calm, TrashOrderly, InTrash

LEMMA TrashGrows ==
    ASSUME CInv, Calm, NEW a \in Asset, NEW s \in Place, disk[s] = ContentOf[a],
           trash' = Trashed(a, s), UNCHANGED at
    PROVE  TrashOrderly' /\ InTrash(a)' /\ \A b \in Asset : InTrash(b) => InTrash(b)'
<1>1. <<a, s, ContentOf[a]>> \in trash' /\ trash \subseteq trash'
  BY DEF Trashed
<1>2. \A e \in trash' : e[3] = ContentOf[e[1]]
  BY DEF Trashed, Calm, TrashOrderly
<1>3. \A b \in Asset : InTrash(b) => InTrash(b)'
  BY <1>1 DEF InTrash
<1>4. InTrash(a)'
  <2> DEFINE e == <<a, s, ContentOf[a]>>
  <2>1. e \in trash' /\ e[1] = a /\ e[3] = ContentOf[a]
    BY <1>1
  <2> HIDE DEF e
  <2> QED
    BY <2>1 DEF InTrash
<1> QED
  BY <1>2, <1>3, <1>4 DEF Calm, TrashOrderly

LEMMA StartResolveCalm ==
    ASSUME CInv, Standing, Calm, NEW r \in Resolver, NEW act \in Action, NEW to \in Folder,
           NEW ids \in SUBSET Asset, StartResolve(r, act, to, ids), harm' = {}
    PROVE  Calm'
<1> DEFINE j == [act |-> act, to |-> to, left |-> ids, asset |-> None, from |-> None,
                 step |-> "next", cancelled |-> FALSE]
<1>1. j.left = ids /\ j.asset = None /\ j.step = "next" /\ Set(r, j)
  BY DEF StartResolve
<1> HIDE DEF j
<1>2. job'[r] = j /\ \A q \in Resolver : q # r => job'[q] = job[q]
  BY <1>1, OthersStand
<1>3. rename = None /\ \A q \in Resolver : ids \cap Selected(q) = {}
  BY DEF StartResolve
<1>4. Selected(r)' \subseteq ids \cup {None}
  BY <1>1, <1>2 DEF Selected, Active
<1>5. \A b \in ids : b \in live /\ dup[b] # None /\ b # None
  BY CustodyAssumption DEF StartResolve, DuplicateIDs
<1>6. JobOrderly(r)'
  BY <1>1, <1>2, <1>4, <1>5 DEF JobOrderly, StartResolve
<1>7. TrashOrderly' /\ \A a \in Asset : Untouched(a)
  BY TrashSame DEF StartResolve, Untouched
<1>8. ~Active(r) /\ job'[r].asset \in {None}
  BY <1>1, <1>2 DEF StartResolve
<1> QED
  BY <1>2, <1>3, <1>4, <1>6, <1>7, <1>8, CustodyAssumption, JobStepCalm DEF StartResolve

LEMMA KeptOrder ==
    ASSUME CInv, Calm, NEW r \in Resolver, Active(r), NEW j, Set(r, j), j # None,
           j.left = job[r].left, j.asset = job[r].asset, j.step = job[r].step, j.act = job[r].act,
           j.to = job[r].to, j.from = job[r].from,
           UNCHANGED <<live, dup, at, disk, trash, plan, reorg, rename>>
    PROVE  Calm'
<1>1. job'[r] = j /\ \A q \in Resolver : q # r => job'[q] = job[q]
  BY OthersStand
<1>2. \A q \in Resolver : /\ (job'[q] # None) <=> (job[q] # None)
                          /\ job[q] # None => /\ job'[q].left = job[q].left
                                              /\ job'[q].asset = job[q].asset
                                              /\ job'[q].step = job[q].step
                                              /\ job'[q].act = job[q].act
                                              /\ job'[q].to = job[q].to
                                              /\ job'[q].from = job[q].from
  BY <1>1 DEF Active
<1>3. \A q \in Resolver : /\ (Active(q)' <=> Active(q)) /\ Selected(q)' = Selected(q)
                          /\ Active(q) => (Across(q)' <=> Across(q))
  BY <1>2 DEF Active, Selected, Across
<1>4. ASSUME NEW a \in Asset, NEW s \in Place PROVE Owns(a, s)' <=> Owns(a, s)
  <2>1. (Handed(job', a) <=> Handed(job, a)) /\ (Carried(job', a, s) <=> Carried(job, a, s))
    BY <1>2 DEF Handed, Carried
  <2> QED
    BY <2>1 DEF Owns, OwnsIn
<1>5. View' = View
  BY DEF View, Away, Swapped
<1>6. Belong' /\ Alone'
  BY <1>4, <1>5 DEF Calm, Belong, Alone
<1>7. ASSUME NEW q \in Resolver PROVE JobOrderly(q)'
  BY <1>2, <1>3 DEF Calm, JobOrderly, InTrash, Active
<1>8. Apart'
  BY <1>3 DEF Calm, Apart
<1>9. ReorgOrderly' /\ RenameOrderly' /\ TrashOrderly'
  BY <1>3 DEF Calm, ReorgOrderly, RenameOrderly, TrashOrderly, Away, Occupied, Free, InTrash
<1> QED
  BY <1>6, <1>7, <1>8, <1>9 DEF Calm

LEMMA CancelResolveCalm ==
    ASSUME CInv, Standing, Calm, NEW r \in Resolver, CancelResolve(r), harm' = {} PROVE Calm'
<1> DEFINE j == [job[r] EXCEPT !.cancelled = TRUE]
<1>1. job[r] \in Job /\ Active(r)
  BY JobTyped DEF CancelResolve
<1>2. /\ j \in Job /\ j.left = job[r].left /\ j.asset = job[r].asset /\ j.step = job[r].step
      /\ j.act = job[r].act /\ j.to = job[r].to /\ j.from = job[r].from
      /\ Set(r, j)
  BY <1>1 DEF CancelResolve, Job
<1> HIDE DEF j
<1> QED
  BY <1>1, <1>2, NoneAssumption, KeptOrder DEF CancelResolve, Others

LEMMA TakeItemCalm ==
    ASSUME CInv, Standing, Calm, NEW r \in Resolver, TakeItem(r), harm' = {} PROVE Calm'
<1>1. /\ job[r] \in Job /\ Active(r) /\ job[r].step = "next" /\ job[r].asset = None
      /\ job[r].left \subseteq Asset
  BY JobTyped DEF TakeItem, At
<1>2. PICK a \in job[r].left :
         LET rest == [job[r] EXCEPT !.left = @ \ {a}] IN
         IF a \in live THEN Set(r, [rest EXCEPT !.asset = a, !.from = at[a], !.step = "file"])
                       ELSE Set(r, rest)
  BY DEF TakeItem
<1>3. a \in Selected(r) /\ a # None /\ a \in Asset
  BY <1>1, CustodyAssumption DEF Selected
<1>4. /\ a \in live
      /\ \A q \in Resolver : q # r /\ job[q] # None => job[q].asset # a
      /\ reorg # None => reorg.asset # a
      /\ rename = None
  BY <1>1, <1>3, HeldAlone
<1> DEFINE j == [job[r] EXCEPT !.left = @ \ {a}, !.asset = a, !.from = at[a], !.step = "file"]
<1>5. /\ j.left = job[r].left \ {a} /\ j.asset = a /\ j.from = at[a] /\ j.step = "file"
      /\ Set(r, j)
  <2>1. Set(r, j)
    BY <1>1, <1>2, <1>4 DEF Job
  <2>2. j.left = job[r].left \ {a} /\ j.asset = a /\ j.from = at[a] /\ j.step = "file"
    BY <1>1 DEF Job
  <2> QED
    BY <2>1, <2>2
<1> HIDE DEF j
<1>6. job'[r] = j /\ \A q \in Resolver : q # r => job'[q] = job[q]
  BY <1>5, OthersStand
<1>7. UNCHANGED <<live, dup, at, disk, trash, plan, reorg, rename>>
  BY DEF TakeItem, Others
<1>8. Owns(a, at[a]) \/ at[a] \notin Place
  <2>1. \A q \in Resolver : job[q] # None => job[q].asset # a
    BY <1>1, <1>3, <1>4
  <2>2. OwnsIn(job, at, reorg, a, at[a]) <=> at[a] = at[a]
    BY <1>4, <2>1, IdleOwns
  <2> QED
    BY <2>2 DEF Owns
<1>9. ASSUME NEW s \in Place, Owns(a, s)' PROVE s = at[a] /\ Owns(a, s)
  <2>1. CASE job'[r] # None
    <3>1. /\ job'[r].asset = a
          /\ \A q \in Resolver : q # r /\ job'[q] # None => job'[q].asset # a
      BY <1>4, <1>5, <1>6
    <3>2. OwnsIn(job', at', reorg', a, s) <=> HeldIn(job'[r], at', a, s)
      BY <1>4, <1>7, <2>1, <3>1, HeldOwns
    <3> QED
      BY <1>5, <1>6, <1>7, <1>8, <1>9, <3>2 DEF Owns, HeldIn
  <2>2. CASE job'[r] = None
    <3>1. \A q \in Resolver : job'[q] # None => job'[q].asset # a
      BY <1>4, <1>6, <2>2
    <3>2. OwnsIn(job', at', reorg', a, s) <=> s = at'[a]
      BY <1>4, <1>7, <3>1, IdleOwns
    <3> QED
      BY <1>7, <1>8, <1>9, <3>2 DEF Owns
  <2> QED
    BY <2>1, <2>2
<1>10. \A s \in Place : Owns(a, s)' => disk'[s] = ContentOf[a] /\ (Owns(a, s) \/ disk[s] = None)
  BY <1>3, <1>4, <1>7, <1>9, ViewIsDisk DEF Calm, Belong, Away
<1>11. Selected(r)' \subseteq Selected(r)
  BY <1>1, <1>5, <1>6 DEF Selected, Active
<1>12. JobOrderly(r)'
  <2>1. Selected(r) \ {None} \subseteq {b \in live : dup[b] # None}
    BY <1>1 DEF Calm, JobOrderly
  <2> QED
    BY <1>5, <1>6, <1>7, <1>11, <2>1 DEF JobOrderly
<1>13. TrashOrderly' /\ \A b \in Asset : Untouched(b)
  BY <1>7, TrashSame DEF Untouched
<1>14. \A q \in Resolver : q # r => Selected(r)' \cap Selected(q) \subseteq {None}
  BY <1>11 DEF Calm, Apart
<1>15. job[r].asset \in {a, None} /\ job'[r].asset \in {a, None}
  BY <1>1, <1>5, <1>6
<1> QED
  BY <1>1, <1>3, <1>4, <1>6, <1>7, <1>10, <1>12, <1>13, <1>14, <1>15, JobStepCalm

LEMMA EndResolveCalm ==
    ASSUME CInv, Standing, Calm, NEW r \in Resolver, EndResolve(r), harm' = {} PROVE Calm'
<1>1. Active(r) /\ job[r].asset = None
  BY JobTyped DEF EndResolve, At
<1>2. job'[r] = None /\ \A q \in Resolver : q # r => job'[q] = job[q]
  BY OthersStand DEF EndResolve
<1>3. ~Active(r)' /\ Selected(r)' = {}
  BY <1>2 DEF Active, Selected
<1>4. TrashOrderly' /\ \A a \in Asset : Untouched(a)
  BY TrashSame DEF EndResolve, Untouched
<1>5. JobOrderly(r)'
  BY <1>3 DEF JobOrderly
<1>6. rename = None /\ None \notin Asset
  BY <1>1, CustodyAssumption DEF Calm, RenameOrderly
<1> QED
  BY <1>1, <1>2, <1>3, <1>4, <1>5, <1>6, JobStepCalm DEF EndResolve, Others

LEMMA HeldFile ==
    ASSUME CInv, Calm, NEW r \in Resolver, Active(r), job[r].step # "next",
           NEW p \in Place, Owns(job[r].asset, p)
    PROVE  disk[p] = ContentOf[job[r].asset] /\ ~Free(p)
<1>1. job[r].asset \in Asset /\ rename = None
  BY HandCalm
<1>2. disk[p] = ContentOf[job[r].asset]
  BY <1>1, ViewIsDisk DEF Calm, Belong, Away
<1> QED
  BY <1>1, <1>2, CustodyAssumption DEF Free

\* The files of the other rows are elsewhere.
LEMMA OthersElsewhere ==
    ASSUME Calm, NEW a \in Asset, NEW b \in Asset, b # a, NEW p \in Place, Owns(b, p)
    PROVE  ~Owns(a, p)
  BY DEF Calm, Alone

LEMMA FreeIsUnowned ==
    ASSUME Calm, rename = None, NEW p \in Place, Free(p), NEW b \in Asset PROVE ~Owns(b, p)
  BY FreeUnowned, ViewIsDisk DEF Calm, Free, Away

LEMMA KeepItemCalm ==
    ASSUME CInv, Standing, Calm, NEW r \in Resolver, KeepItem(r), harm' = {} PROVE Calm'
<1>1. Active(r) /\ job[r].step = "file" /\ Done(r) /\ job[r].asset \in Asset
  BY InHand DEF KeepItem
<1>2. PICK a \in Asset : a = job[r].asset
  BY <1>1
<1>3. Owns(a, at[a]) \/ at[a] \notin Place
  BY <1>1, <1>2, HandCalm
<1>4. \A b \in Asset : b # a => Untouched(b)
  BY <1>2 DEF KeepItem, Untouched, CInv, CustodyTypeOK, InTrash
<1>5. TrashOrderly'
  BY TrashSame DEF KeepItem
<1>6. UNCHANGED <<plan, reorg, rename, disk, at>>
  BY DEF KeepItem, Others
<1>7. \A p \in Place : p = at'[a] => disk'[p] = ContentOf[a] /\ (Owns(a, p) \/ disk[p] = None)
  BY <1>1, <1>2, <1>3, <1>6, HeldFile
<1> QED
  BY <1>1, <1>2, <1>4, <1>5, <1>6, <1>7, DoneCalm

LEMMA TrashItemCalm ==
    ASSUME CInv, Standing, Calm, NEW r \in Resolver, TrashItem(r), harm' = {} PROVE Calm'
<1>1. /\ Active(r) /\ job[r].step = "file" /\ job[r].asset \in Asset /\ job[r].from \in Place
      /\ job[r].act = "delete"
  BY InHand DEF TrashItem
<1>2. PICK a \in Asset : a = job[r].asset
  BY <1>1
<1>3. Owns(a, job[r].from) /\ disk[job[r].from] = ContentOf[a] /\ ~Free(job[r].from)
  BY <1>1, <1>2, HandCalm, HeldFile
<1>4. /\ trash' = Trashed(a, job[r].from) /\ Step(r, "record")
      /\ disk' = [disk EXCEPT ![job[r].from] = None]
  BY <1>2, <1>3 DEF TrashItem
<1>5. TrashOrderly' /\ InTrash(a)' /\ \A b \in Asset : InTrash(b) => InTrash(b)'
  BY <1>1, <1>3, <1>4, TrashGrows DEF TrashItem
<1>6. \A b \in Asset, p \in Place : b # a /\ Owns(b, p) => disk'[p] = disk[p]
  BY <1>1, <1>3, <1>4, OthersElsewhere, DiskTyped
<1>7. UNCHANGED <<live, dup, at, plan, reorg, rename>>
  BY DEF TrashItem, Others
<1> QED
  BY <1>1, <1>2, <1>4, <1>5, <1>6, <1>7, StepCalmInv

LEMMA TrashCopiedCalm ==
    ASSUME CInv, Standing, Calm, NEW r \in Resolver, TrashCopied(r), harm' = {} PROVE Calm'
<1>1. /\ Active(r) /\ job[r].step = "trash" /\ job[r].asset \in Asset /\ job[r].from \in Place
      /\ Target(r) \in Place
  BY InHand DEF TrashCopied
<1>2. PICK a \in Asset : a = job[r].asset
  BY <1>1
<1>3. job[r].act = "move" /\ job[r].from # Target(r)
  BY <1>1 DEF Calm, JobOrderly, Across, Target
<1>4. /\ Owns(a, job[r].from) /\ disk[job[r].from] = ContentOf[a] /\ ~Free(job[r].from)
      /\ Owns(a, Target(r)) /\ disk[Target(r)] = ContentOf[a]
  BY <1>1, <1>2, <1>3, HandCalm, HeldFile
<1>5. /\ trash' = Trashed(a, job[r].from) /\ Step(r, "record")
      /\ disk' = [disk EXCEPT ![job[r].from] = None]
  BY <1>2, <1>4 DEF TrashCopied
<1>6. TrashOrderly' /\ InTrash(a)' /\ \A b \in Asset : InTrash(b) => InTrash(b)'
  BY <1>1, <1>4, <1>5, TrashGrows DEF TrashCopied
<1>7. \A b \in Asset, p \in Place : b # a /\ Owns(b, p) => disk'[p] = disk[p]
  BY <1>1, <1>4, <1>5, OthersElsewhere, DiskTyped
<1>8. disk'[Target(r)] = ContentOf[a]
  BY <1>1, <1>3, <1>4, <1>5, DiskTyped
<1>9. UNCHANGED <<live, dup, at, plan, reorg, rename>>
  BY DEF TrashCopied, Others
<1> QED
  BY <1>1, <1>2, <1>3, <1>4, <1>5, <1>6, <1>7, <1>8, <1>9, StepCalmInv

LEMMA RecordDeleteCalm ==
    ASSUME CInv, Standing, Calm, NEW r \in Resolver, RecordDelete(r), harm' = {} PROVE Calm'
<1>1. /\ Active(r) /\ job[r].step = "record" /\ job[r].asset \in Asset /\ Done(r)
      /\ job[r].act = "delete"
  BY InHand DEF RecordDelete
<1>2. PICK a \in Asset : a = job[r].asset
  BY <1>1
<1>3. live' = live \ {a} /\ at' = [at EXCEPT ![a] = "trash"]
  BY <1>2 DEF RecordDelete, Hurt
<1>4. InTrash(a)
  BY <1>1, <1>2 DEF Calm, JobOrderly
<1>5. at'[a] = "trash" /\ \A b \in Asset : b # a => at'[b] = at[b]
  BY <1>3 DEF CInv, CustodyTypeOK
<1>6. UNCHANGED <<dup, disk, trash, plan, reorg, rename>>
  BY DEF RecordDelete, Others
<1>7. TrashOrderly'
  BY <1>4, <1>5, <1>6 DEF Calm, TrashOrderly, InTrash
<1>8. \A b \in Asset : b # a => Untouched(b)
  BY <1>3, <1>5, <1>6 DEF Untouched, InTrash
<1>9. at'[a] \notin Place
  BY <1>5, WhereAssumption
<1> QED
  BY <1>1, <1>2, <1>6, <1>7, <1>8, <1>9, DoneCalm

LEMMA MoveItemCalm ==
    ASSUME CInv, Standing, Calm, NEW r \in Resolver, MoveItem(r), harm' = {} PROVE Calm'
<1>1. /\ Active(r) /\ job[r].step = "file" /\ job[r].asset \in Asset /\ job[r].from \in Place
      /\ job[r].act = "move" /\ Target(r) \in Place
  BY InHand DEF MoveItem
<1>2. PICK a \in Asset : a = job[r].asset
  BY <1>1
<1> DEFINE s == job[r].from  d == Target(r)
<1>3. Owns(a, s) /\ disk[s] = ContentOf[a] /\ ~Free(s) /\ at[a] = s /\ rename = None
  BY <1>1, <1>2, HandCalm, HeldFile
<1>4. UNCHANGED <<live, dup, at, trash, plan, reorg, rename>>
  BY DEF MoveItem, Others
<1>5. TrashOrderly' /\ \A b \in Asset : InTrash(b) => InTrash(b)'
  BY <1>4, TrashSame
<1>6. CASE Across(r) /\ job[r].cancelled
  <2>1. Done(r) /\ UNCHANGED disk
    BY <1>6 DEF MoveItem
  <2>2. \A b \in Asset : b # a => Untouched(b)
    BY <1>4, <1>5 DEF Untouched
  <2>3. \A p \in Place : p = at'[a] => disk'[p] = ContentOf[a] /\ (Owns(a, p) \/ disk[p] = None)
    BY <1>3, <1>4, <2>1
  <2> QED
    BY <1>1, <1>2, <1>4, <1>5, <2>1, <2>2, <2>3, DoneCalm
<1>7. CASE ~(Across(r) /\ job[r].cancelled)
  <2>1. /\ s = d \/ Free(d)
        /\ IF Across(r) THEN disk' = Copied(s, d) /\ Step(r, "trash")
                        ELSE disk' = Moved(s, d) /\ Step(r, "record")
    BY <1>3, <1>7 DEF MoveItem, Hurt
  <2>2. \A b \in Asset, p \in Place : b # a /\ Owns(b, p) => p # s /\ p # d
    BY <1>1, <1>3, <2>1, OthersElsewhere, FreeIsUnowned
  <2>3. \A b \in Asset, p \in Place : b # a /\ Owns(b, p) => disk'[p] = disk[p]
    BY <1>1, <2>1, <2>2, DiskTyped DEF Copied, Moved
  <2>4. disk'[d] = ContentOf[a] /\ (Owns(a, d) \/ disk[d] = None)
    BY <1>1, <1>3, <2>1, DiskTyped DEF Copied, Moved, Free
  <2>5. CASE Across(r)
    <3>1. s # d /\ disk'[s] = ContentOf[a]
      BY <1>1, <1>3, <2>1, <2>5, DiskTyped DEF Across, Target, Copied
    <3>2. Step(r, "trash")
      BY <2>1, <2>5
    <3> QED
      BY <1>1, <1>2, <1>3, <1>4, <1>5, <2>3, <2>4, <2>5, <3>1, <3>2, StepCalmInv
  <2>6. CASE ~Across(r)
    <3>1. Step(r, "record")
      BY <2>1, <2>6
    <3> QED
      BY <1>1, <1>2, <1>4, <1>5, <2>3, <2>4, <3>1, StepCalmInv
  <2> QED
    BY <2>5, <2>6
<1> QED
  BY <1>6, <1>7

LEMMA RecordMoveCalm ==
    ASSUME CInv, Standing, Calm, NEW r \in Resolver, RecordMove(r), harm' = {} PROVE Calm'
<1>1. /\ Active(r) /\ job[r].step = "record" /\ job[r].asset \in Asset
      /\ job[r].act = "move" /\ Target(r) \in Place
  BY InHand DEF RecordMove
<1>2. PICK a \in Asset : a = job[r].asset
  BY <1>1
<1>3. Owns(a, Target(r)) /\ disk[Target(r)] = ContentOf[a]
  BY <1>1, <1>2, HandCalm, HeldFile
<1>4. UNCHANGED <<live, dup, disk, trash, plan, reorg, rename>>
  BY DEF RecordMove, Others
<1>5. CASE at' = [at EXCEPT ![a] = Target(r)] /\ Done(r)
  <2>1. at'[a] = Target(r) /\ \A b \in Asset : b # a => at'[b] = at[b]
    BY <1>5 DEF CInv, CustodyTypeOK
  <2>2. \A b \in Asset : at'[b] = "trash" => at[b] = "trash"
    BY <1>1, <2>1, PlaceTyped
  <2>3. TrashOrderly' /\ \A b \in Asset : InTrash(b) => InTrash(b)'
    BY <1>4, <2>2, TrashSame
  <2>4. \A b \in Asset : b # a => Untouched(b)
    BY <1>4, <2>1, <2>3 DEF Untouched
  <2>5. \A p \in Place : p = at'[a] => disk'[p] = ContentOf[a] /\ (Owns(a, p) \/ disk[p] = None)
    BY <1>3, <1>4, <2>1
  <2> QED
    BY <1>1, <1>2, <1>4, <1>5, <2>3, <2>4, <2>5, DoneCalm
<1>6. CASE Step(r, "undo") /\ UNCHANGED at
  <2>1. TrashOrderly' /\ \A b \in Asset : InTrash(b) => InTrash(b)'
    BY <1>4, <1>6, TrashSame
  <2> QED
    BY <1>1, <1>2, <1>3, <1>4, <1>6, <2>1, StepCalmInv
<1> QED
  BY <1>2, <1>5, <1>6 DEF RecordMove

LEMMA UndoMoveCalm ==
    ASSUME CInv, Standing, Calm, NEW r \in Resolver, UndoMove(r), harm' = {} PROVE Calm'
<1>1. /\ Active(r) /\ job[r].step = "undo" /\ job[r].asset \in Asset /\ Done(r)
      /\ job[r].from \in Place /\ Target(r) \in Place
  BY InHand DEF UndoMove
<1>2. PICK a \in Asset : a = job[r].asset
  BY <1>1
<1>3. job[r].act = "move"
  BY <1>1 DEF Calm, JobOrderly
<1> DEFINE s == job[r].from  d == Target(r)
<1>4. Owns(a, d) /\ disk[d] = ContentOf[a] /\ ~Free(d) /\ at[a] = s /\ rename = None
  BY <1>1, <1>2, <1>3, HandCalm, HeldFile
<1>5. UNCHANGED <<live, dup, at, plan, reorg, rename>>
  BY DEF UndoMove, Others
<1>6. /\ TrashOrderly' /\ \A b \in Asset : b # a /\ InTrash(b) => InTrash(b)'
      /\ s = d \/ Free(s)
      /\ disk'[s] = ContentOf[a]
      /\ \A p \in Place : p # s /\ p # d => disk'[p] = disk[p]
  <2>1. CASE Across(r)
    <3>1. PICK e \in trash : /\ e[1] = a /\ e[2] = s
                             /\ trash' = trash \ {e}
                             /\ disk' = [disk EXCEPT ![s] = e[3], ![d] = None]
                             /\ harm' = harm \cup {h \in {"replaced"} : ~Free(s)}
                                            \cup {h \in {"removed"} : disk[d] \notin {None, e[3]}}
      BY <1>2, <2>1 DEF UndoMove
    <3>2. Free(s) /\ s # d /\ e[3] = ContentOf[a]
      BY <2>1, <3>1 DEF Across, Target, Calm, TrashOrderly
    <3>3. disk'[s] = ContentOf[a] /\ \A p \in Place : p # s /\ p # d => disk'[p] = disk[p]
      BY <1>1, <3>1, <3>2, DiskTyped
    <3>4. \A b \in Asset : b # a /\ InTrash(b) => InTrash(b)'
      BY <3>1 DEF InTrash
    <3>5. \A b \in Asset : at[b] = "trash" => b # a
      BY <1>1, <1>4, PlaceTyped
    <3>6. TrashOrderly'
      BY <1>5, <3>1, <3>4, <3>5 DEF Calm, TrashOrderly
    <3> QED
      BY <3>2, <3>3, <3>4, <3>6
  <2>2. CASE ~Across(r)
    <3>1. disk' = Moved(d, s) /\ (s = d \/ Free(s)) /\ UNCHANGED trash
      BY <1>4, <2>2 DEF UndoMove, Hurt
    <3>2. disk'[s] = ContentOf[a] /\ \A p \in Place : p # s /\ p # d => disk'[p] = disk[p]
      BY <1>1, <1>4, <3>1, DiskTyped DEF Moved
    <3>3. TrashOrderly' /\ \A b \in Asset : InTrash(b) => InTrash(b)'
      BY <1>5, <3>1, TrashSame
    <3> QED
      BY <3>1, <3>2, <3>3
  <2> QED
    BY <2>1, <2>2
<1>7. \A b \in Asset : b # a => Untouched(b)
  BY <1>5, <1>6 DEF Untouched
<1>8. \A b \in Asset, p \in Place : b # a /\ Owns(b, p) => p # s /\ p # d
  BY <1>1, <1>4, <1>6, OthersElsewhere, FreeIsUnowned
<1>9. \A p \in Place : p = at'[a] => disk'[p] = ContentOf[a] /\ (Owns(a, p) \/ disk[p] = None)
  BY <1>4, <1>5, <1>6 DEF Free
<1>10. \A b \in Asset, p \in Place : b # a /\ Owns(b, p) => disk'[p] = disk[p]
  BY <1>6, <1>8
<1> QED
  BY <1>1, <1>2, <1>5, <1>6, <1>7, <1>9, <1>10, DoneCalm

------------------------------------------------------------------------------
(* The other steps keep order. *)

\* The files and what the resolvers and the rows say of them unchanged.
LEMMA FilesSameCalm ==
    ASSUME Calm, UNCHANGED <<at, disk, job, reorg>>, View' = View PROVE Belong' /\ Alone'
<1>1. \A a \in Asset, s \in Place : Owns(a, s)' <=> Owns(a, s)
  BY DEF Owns
<1> QED
  BY <1>1 DEF Calm, Belong, Alone

\* The resolvers at rest, and what they selected still live.
LEMMA JobsSameCalm ==
    ASSUME Calm, UNCHANGED <<at, dup, job, trash>>,
           \A r \in Resolver : \A a \in Selected(r) : a \in live => a \in live'
    PROVE  (\A r \in Resolver : JobOrderly(r)') /\ Apart' /\ TrashOrderly'
<1>1. \A r \in Resolver : (Active(r)' <=> Active(r)) /\ Selected(r)' = Selected(r)
  BY DEF Active, Selected
<1>2. ASSUME NEW r \in Resolver PROVE JobOrderly(r)'
  BY <1>1 DEF Calm, JobOrderly, Across, InTrash
<1>3. Apart'
  BY <1>1 DEF Calm, Apart
<1> QED
  BY <1>2, <1>3 DEF Calm, TrashOrderly, InTrash

\* A selected row has a file, so none of the rows removed is selected.
LEMMA RemoveSourceOnlyCalm ==
    ASSUME CInv, Standing, Calm, RemoveSourceOnly, harm' = {} PROVE Calm'
<1>1. UNCHANGED <<dup, at, disk, trash, job, plan, reorg, rename>>
  BY DEF RemoveSourceOnly
<1>2. \A a \in live : at[a] # None => a \in live'
  BY DEF RemoveSourceOnly
<1>3. ASSUME NEW r \in Resolver, NEW a \in Selected(r), a \in live PROVE a \in live'
  <2>1. Active(r) /\ (a \in job[r].left \/ a = job[r].asset)
    BY <1>3 DEF Selected
  <2>2. a \in Asset /\ a # None
    BY <1>3, CustodyAssumption DEF CInv, CustodyTypeOK
  <2>3. at[a] # None
    BY <1>3, <2>1, <2>2, JobTyped DEF CInv, LivePlaced, Standing, HandHadFile
  <2> QED
    BY <1>2, <1>3, <2>3
<1>4. Belong' /\ Alone'
  BY <1>1, FilesSameCalm DEF View, Away, Swapped
<1>5. (\A r \in Resolver : JobOrderly(r)') /\ Apart' /\ TrashOrderly'
  BY <1>1, <1>3, JobsSameCalm
<1>6. ReorgOrderly'
  BY <1>1, <1>2 DEF Calm, ReorgOrderly, Standing
<1>7. RenameOrderly'
  BY <1>1 DEF Calm, RenameOrderly, Active, Away, Occupied, Free
<1> QED
  BY <1>4, <1>5, <1>6, <1>7 DEF Calm

LEMMA PlanReorganizeCalm ==
    ASSUME CInv, Standing, Calm, PlanReorganize, harm' = {} PROVE Calm'
<1>1. UNCHANGED <<live, dup, at, disk, trash, job, reorg, rename>>
  BY DEF PlanReorganize
<1>2. plan'.running = plan.running
  BY RestTyped DEF PlanReorganize, Plan
<1>3. Belong' /\ Alone'
  BY <1>1, FilesSameCalm DEF View, Away, Swapped
<1>4. (\A r \in Resolver : JobOrderly(r)') /\ Apart' /\ TrashOrderly'
  BY <1>1, JobsSameCalm
<1>5. ReorgOrderly' /\ RenameOrderly'
  BY <1>1, <1>2 DEF Calm, ReorgOrderly, RenameOrderly, Active, Away, Occupied, Free
<1> QED
  BY <1>3, <1>4, <1>5 DEF Calm

LEMMA StartReorganizeCalm ==
    ASSUME CInv, Standing, Calm, StartReorganize, harm' = {} PROVE Calm'
<1>1. UNCHANGED <<live, dup, at, disk, trash, job, reorg, rename>> /\ rename = None
  BY DEF StartReorganize, Hurt
<1>2. Belong' /\ Alone'
  BY <1>1, FilesSameCalm DEF View, Away, Swapped
<1>3. (\A r \in Resolver : JobOrderly(r)') /\ Apart' /\ TrashOrderly'
  BY <1>1, JobsSameCalm
<1>4. ReorgOrderly' /\ RenameOrderly'
  BY <1>1 DEF Calm, ReorgOrderly, RenameOrderly, Away
<1> QED
  BY <1>2, <1>3, <1>4 DEF Calm

LEMMA EndReorganizeCalm ==
    ASSUME CInv, Standing, Calm, EndReorganize, harm' = {} PROVE Calm'
<1>1. UNCHANGED <<live, dup, at, disk, trash, job, reorg, rename>> /\ plan.running
  BY DEF EndReorganize
<1>2. rename = None
  BY <1>1 DEF Calm, RenameOrderly
<1>3. Belong' /\ Alone'
  BY <1>1, FilesSameCalm DEF View, Away, Swapped
<1>4. (\A r \in Resolver : JobOrderly(r)') /\ Apart' /\ TrashOrderly'
  BY <1>1, JobsSameCalm
<1>5. ReorgOrderly' /\ RenameOrderly'
  BY <1>1, <1>2 DEF Calm, ReorgOrderly, RenameOrderly, Away
<1> QED
  BY <1>3, <1>4, <1>5 DEF Calm

\* The row planned for is nobody's duplicate, so no resolver holds it.
LEMMA ReorganizeMoveCalm ==
    ASSUME CInv, Standing, Calm, ReorganizeMove, harm' = {} PROVE Calm'
<1>1. PICK e \in plan.moves :
             /\ e \in Entry /\ plan' = [plan EXCEPT !.moves = @ \ {e}]
             /\ \/ UNCHANGED <<disk, reorg, harm>>
                \/ \E d \in Place : 
                     /\ Free(d) /\ ~Free(e.from)
                     /\ disk' = Moved(e.from, d)
                     /\ reorg' = IF disk[e.from] = ContentOf[e.asset] THEN [e EXCEPT !.to = d] ELSE None
                     /\ harm' = harm \cup {h \in {"unrecorded"} : disk[e.from] # ContentOf[e.asset]}
                                    \cup {h \in {"moved on"} : at[e.asset] # e.from}
  BY ReorganizeMoveIs
<1>2. UNCHANGED <<live, dup, at, trash, job, rename>> /\ reorg = None /\ plan.running
  BY DEF ReorganizeMove
<1>3. rename = None
  BY <1>2 DEF Calm, RenameOrderly
<1>4. (\A r \in Resolver : JobOrderly(r)') /\ Apart' /\ TrashOrderly' /\ RenameOrderly'
  BY <1>2, <1>3, JobsSameCalm DEF RenameOrderly, Away
<1>5. View = disk /\ View' = disk'
  BY <1>2, <1>3 DEF View, Away
<1>6. CASE UNCHANGED <<disk, reorg>>
  BY <1>2, <1>4, <1>5, <1>6, FilesSameCalm DEF Calm, ReorgOrderly
<1>7. CASE \E d \in Place :
                /\ Free(d) /\ ~Free(e.from)
                /\ disk' = Moved(e.from, d)
                /\ reorg' = IF disk[e.from] = ContentOf[e.asset] THEN [e EXCEPT !.to = d] ELSE None
                /\ disk[e.from] = ContentOf[e.asset] /\ at[e.asset] = e.from
  <2>1. PICK d \in Place :
                /\ Free(d) /\ ~Free(e.from)
                /\ disk' = Moved(e.from, d)
                /\ reorg' = [e EXCEPT !.to = d]
                /\ disk[e.from] = ContentOf[e.asset] /\ at[e.asset] = e.from
    BY <1>7
  <2>2. PICK a \in Asset, s \in Place : a = e.asset /\ s = e.from
    BY <1>1 DEF Entry
  <2>3. reorg'.asset = a /\ reorg'.from = s /\ reorg'.to = d /\ reorg' # None
    BY <1>1, <2>1, <2>2, NoneAssumption DEF Entry
  <2>4. a \in live /\ dup[a] = None
    BY <2>1, <2>2 DEF Standing, PlanHadFile
  <2>5. \A r \in Resolver : job[r] # None => job[r].asset # a
    BY <2>4, CustodyAssumption DEF Calm, JobOrderly, Selected, Active
  <2>6. ReorgOrderly'
    BY <1>2, <2>1, <2>2, <2>3, <2>4 DEF ReorgOrderly
  <2>7. ASSUME NEW p \in Place PROVE Owns(a, p) <=> p = s
    <3>1. OwnsIn(job, at, reorg, a, p) <=> p = at[a]
      BY <1>2, <2>5, IdleOwns
    <3> QED
      BY <2>1, <2>2, <3>1 DEF Owns
  <2>8. ASSUME NEW p \in Place PROVE Owns(a, p)' <=> p = d
    <3>1. OwnsIn(job', at', reorg', a, p) <=> p = reorg'.to
      BY <1>2, <2>3, <2>5, ReorganizedOwns
    <3> QED
      BY <2>3, <3>1 DEF Owns
  <2>9. \A b \in Asset, p \in Place : b # a => (Owns(b, p)' <=> Owns(b, p))
    BY <1>2, <2>3 DEF Owns, OwnsIn
  <2>10. s # d /\ disk'[d] = ContentOf[a] /\ \A p \in Place : p # s /\ p # d => disk'[p] = disk[p]
    BY <2>1, <2>2, DiskTyped DEF Moved
  <2>11. \A b \in Asset, p \in Place : b # a /\ Owns(b, p) => p # s /\ p # d
    BY <1>3, <2>1, <2>7, OthersElsewhere, FreeIsUnowned
  <2>12. Belong' /\ Alone'
    <3>1. \A b \in Asset, p \in Place : b # a /\ Owns(b, p) => View'[p] = View[p]
      BY <1>5, <2>10, <2>11
    <3>2. \A p \in Place : a \in Asset /\ Owns(a, p)' =>
               View'[p] = ContentOf[a] /\ (Owns(a, p) \/ View[p] = None)
      BY <1>5, <2>1, <2>8, <2>10 DEF Free
    <3> QED
      BY <2>9, <3>1, <3>2, OneMoves DEF Calm
  <2> QED
    BY <1>4, <2>6, <2>12 DEF Calm
<1> QED
  BY <1>1, <1>6, <1>7

LEMMA ReorganizeRecordCalm ==
    ASSUME CInv, Standing, Calm, ReorganizeRecord, harm' = {} PROVE Calm'
<1>1. reorg \in Entry /\ reorg # None /\ reorg.to \in Place
  BY RestTyped DEF ReorganizeRecord, Entry
<1>2. PICK a \in Asset : a = reorg.asset
  BY <1>1 DEF Entry
<1>3. a \in live /\ dup[a] = None /\ plan.running
  BY <1>1, <1>2 DEF Calm, ReorgOrderly, Standing
<1>4. at' = [at EXCEPT ![a] = reorg.to]
  BY <1>2, <1>3 DEF ReorganizeRecord, Hurt
<1>5. at'[a] = reorg.to /\ \A b \in Asset : b # a => at'[b] = at[b]
  BY <1>4 DEF CInv, CustodyTypeOK
<1>6. UNCHANGED <<live, dup, disk, trash, job, plan, rename>> /\ reorg' = None
  BY DEF ReorganizeRecord
<1>7. rename = None
  BY <1>3 DEF Calm, RenameOrderly
<1>8. View = disk /\ View' = disk'
  BY <1>6, <1>7 DEF View, Away
<1>9. \A r \in Resolver : a \notin Selected(r)
  BY <1>3, CustodyAssumption DEF Calm, JobOrderly, Selected
<1>10. \A r \in Resolver : job[r] # None => job[r].asset # a
  BY <1>9 DEF Selected, Active
<1>11. ASSUME NEW p \in Place PROVE Owns(a, p) <=> p = reorg.to
  <2>1. OwnsIn(job, at, reorg, a, p) <=> p = reorg.to
    BY <1>1, <1>2, <1>10, ReorganizedOwns
  <2> QED
    BY <2>1 DEF Owns
<1>12. ASSUME NEW p \in Place PROVE Owns(a, p)' <=> p = reorg.to
  <2>1. OwnsIn(job', at', reorg', a, p) <=> p = at'[a]
    BY <1>6, <1>10, IdleOwns
  <2> QED
    BY <1>5, <2>1 DEF Owns
<1>13. \A b \in Asset, p \in Place : b # a => (Owns(b, p)' <=> Owns(b, p))
  BY <1>2, <1>5, <1>6 DEF Owns, OwnsIn
<1>14. Belong' /\ Alone'
  BY <1>6, <1>8, <1>11, <1>12, <1>13, OneMoves DEF Calm, Belong
<1>15. (\A r \in Resolver : JobOrderly(r)') /\ Apart'
  <2>1. \A r \in Resolver : (Active(r)' <=> Active(r)) /\ Selected(r)' = Selected(r)
    BY <1>6 DEF Active, Selected
  <2>2. \A r \in Resolver : Active(r) /\ job[r].step # "next" => at'[job[r].asset] = at[job[r].asset]
    BY <1>5, <1>10, JobTyped DEF Active
  <2>3. ASSUME NEW r \in Resolver PROVE JobOrderly(r)'
    BY <1>6, <2>1, <2>2 DEF Calm, JobOrderly, Across, InTrash
  <2> QED
    BY <2>1, <2>3 DEF Calm, Apart
<1>16. TrashOrderly'
  BY <1>1, <1>5, <1>6, PlaceTyped, TrashSame
<1> QED
  BY <1>6, <1>7, <1>14, <1>15, <1>16 DEF Calm, ReorgOrderly, RenameOrderly, Away

------------------------------------------------------------------------------
(* A rename keeps order: nothing else is at work while it is. *)

LEMMA RenamingAlone ==
    ASSUME Standing, Calm, rename # None
    PROVE  /\ \A r \in Resolver : job[r] = None
           /\ ~plan.running /\ reorg = None
           /\ \A a \in Asset, s \in Place : Owns(a, s) <=> s = at[a]
<1>1. /\ \A r \in Resolver : job[r] = None
      /\ ~plan.running /\ reorg = None
  BY DEF Calm, RenameOrderly, Active, Standing
<1> QED
  BY <1>1 DEF Owns, OwnsIn, Handed, Carried

LEMMA RenameBeginCalm ==
    ASSUME CInv, Standing, Calm, NEW f \in Folder, NEW g \in Folder, RenameBegin(f, g), harm' = {}
    PROVE  Calm'
<1>1. UNCHANGED <<live, dup, at, disk, trash, job, plan, reorg>> /\ rename = None
  BY DEF RenameBegin
<1>2. (\A r \in Resolver : ~Active(r)) /\ ~plan.running
  BY DEF RenameBegin, Hurt, Activity, Resolver
<1>3. rename'.step = "checked"
  BY DEF RenameBegin
<1>4. ~Away /\ ~Away'
  BY <1>1, <1>3 DEF Away
<1>5. Belong' /\ Alone'
  BY <1>1, <1>4, FilesSameCalm DEF View
<1>6. (\A r \in Resolver : JobOrderly(r)') /\ Apart' /\ TrashOrderly'
  BY <1>1, JobsSameCalm
<1>7. ReorgOrderly' /\ RenameOrderly'
  BY <1>1, <1>2, <1>4 DEF Calm, ReorgOrderly, RenameOrderly, Active
<1> QED
  BY <1>5, <1>6, <1>7 DEF Calm

\* Seen as it will be when undone, the folder moved has not moved.
LEMMA SwappedBack ==
    ASSUME CInv, NEW f \in Folder, NEW g \in Folder, f # g, ~Occupied(g), disk' = Swapped(f, g)
    PROVE  Swapped(g, f)' = disk /\ ~Occupied(f)'
<1> SUFFICES ASSUME NEW s \in Place PROVE Swapped(g, f)'[s] = disk[s] /\ (s[1] = f => disk'[s] = None)
  BY DiskTyped DEF Swapped, Occupied, Free, Place
<1>1. /\ s = <<s[1], s[2]>> /\ s[1] \in Folder /\ s[2] \in Name
      /\ <<f, s[2]>> \in Place /\ <<g, s[2]>> \in Place
  BY DEF Place
<1>2. disk'[<<g, s[2]>>] = disk[<<f, s[2]>>]
  <2> DEFINE p == <<g, s[2]>>
  <2>1. p \in Place /\ p[1] = g /\ p[2] = s[2]
    BY <1>1
  <2> HIDE DEF p
  <2>2. disk'[p] = disk[<<f, s[2]>>]
    BY <2>1 DEF Swapped
  <2> QED
    BY <2>2 DEF p
<1>3. Swapped(g, f)'[s] = IF s[1] = f THEN disk'[<<g, s[2]>>]
                          ELSE IF s[1] = g THEN None ELSE disk'[s]
  BY DEF Swapped
<1>4. s[1] = g => disk[s] = None
  BY <1>1 DEF Occupied, Free
<1>5. s[1] # f /\ s[1] # g => disk'[s] = disk[s]
  BY DEF Swapped
<1>6. s[1] = f => disk'[s] = None
  BY DEF Swapped
<1> QED
  BY <1>1, <1>2, <1>3, <1>4, <1>5, <1>6

LEMMA RenameFolderCalm ==
    ASSUME CInv, Standing, Calm, RenameFolder, harm' = {} PROVE Calm'
<1>1. UNCHANGED <<live, dup, at, trash, job, plan, reorg>> /\ rename # None /\ ~Away
  BY DEF RenameFolder, Away
<1>2. rename \in Rename /\ rename.old \in Folder /\ rename.new \in Folder /\ rename.old # rename.new
  BY <1>1, RenameTyped DEF Standing
<1>3. View' = View /\ (Away => ~Occupied(rename.old))'
  <2>1. CASE rename' = None /\ UNCHANGED disk
    BY <1>1, <2>1 DEF View, Away
  <2>2. CASE /\ ~Occupied(rename.new) /\ disk' = Swapped(rename.old, rename.new)
             /\ rename' = [rename EXCEPT !.step = "moved"]
    <3>1. rename'.old = rename.old /\ rename'.new = rename.new
      BY <1>2, <2>2 DEF Rename
    <3>2. Away'
      BY <1>2, <2>2, NoneAssumption DEF Away, Rename
    <3>3. \A f, g \in Folder : f = rename.old /\ g = rename.new => Swapped(g, f)' = disk /\ ~Occupied(f)'
      BY <1>2, <2>2, SwappedBack
    <3>4. PICK f, g \in Folder : f = rename.old /\ g = rename.new
      BY <1>2
    <3>5. View' = disk /\ ~Occupied(f)'
      BY <3>1, <3>2, <3>3, <3>4 DEF View
    <3> QED
      BY <1>1, <3>1, <3>4, <3>5 DEF View, Occupied, Free
  <2> QED
    BY <2>1, <2>2 DEF RenameFolder
<1>4. Belong' /\ Alone'
  <2>1. \A a \in Asset, s \in Place : Owns(a, s)' <=> Owns(a, s)
    BY <1>1 DEF Owns
  <2> QED
    BY <1>3, <2>1 DEF Calm, Belong, Alone
<1>5. (\A r \in Resolver : JobOrderly(r)') /\ Apart' /\ TrashOrderly'
  BY <1>1, JobsSameCalm
<1>6. ReorgOrderly' /\ RenameOrderly'
  BY <1>1, <1>3 DEF Calm, ReorgOrderly, RenameOrderly, Active
<1> QED
  BY <1>4, <1>5, <1>6 DEF Calm

LEMMA RenameRecordCalm ==
    ASSUME CInv, Standing, Calm, RenameRecord, harm' = {} PROVE Calm'
<1>1. UNCHANGED <<live, dup, disk, trash, job, plan, reorg>> /\ rename # None /\ Away
  BY DEF RenameRecord, Away
<1>2. PICK f, g \in Folder : f = rename.old /\ g = rename.new /\ f # g /\ rename \in Rename
  BY <1>1, RenameTyped DEF Standing
<1>3. /\ \A r \in Resolver : job[r] = None
      /\ ~plan.running /\ reorg = None
      /\ \A a \in Asset, s \in Place : Owns(a, s) <=> s = at[a]
  BY <1>1, RenamingAlone
<1>4. View = Swapped(g, f)
  BY <1>1, <1>2 DEF View
<1>5. \A a \in Asset : at'[a] = "trash" => at[a] = "trash"
  <2>1. \A a \in Asset : at[a] \in Place => <<g, at[a][2]>> \in Place
    BY DEF Place
  <2> QED
    BY <1>2, <2>1, PlaceTyped DEF RenameRecord
<1>6. (\A r \in Resolver : JobOrderly(r)') /\ Apart' /\ ReorgOrderly' /\ TrashOrderly'
  BY <1>1, <1>3, <1>5, TrashSame DEF JobOrderly, Apart, Selected, Active, ReorgOrderly
<1>7. CASE rename' = [rename EXCEPT !.step = "undo"] /\ UNCHANGED at
  <2>1. rename'.old = f /\ rename'.new = g
    BY <1>2, <1>7 DEF Rename
  <2>2. Away'
    BY <1>2, <1>7, NoneAssumption DEF Away, Rename
  <2>3. View' = View
    BY <1>1, <1>4, <2>1, <2>2 DEF View, Swapped
  <2>4. Belong' /\ Alone'
    <3>1. \A a \in Asset, s \in Place : Owns(a, s)' <=> Owns(a, s)
      BY <1>1, <1>7 DEF Owns
    <3> QED
      BY <2>3, <3>1 DEF Calm, Belong, Alone
  <2>5. RenameOrderly'
    BY <1>1, <1>2, <2>1, <2>2 DEF Calm, RenameOrderly, Active, Occupied, Free
  <2> QED
    BY <1>6, <2>4, <2>5 DEF Calm
<1>8. CASE /\ rename' = None
           /\ at' = [a \in Asset |-> IF a \in live /\ at[a] \in Place /\ at[a][1] = f
                                     THEN <<g, at[a][2]>> ELSE at[a]]
  <2>1. View' = disk /\ RenameOrderly'
    BY <1>1, <1>8 DEF View, RenameOrderly, Away
  <2>2. \A a \in Asset, s \in Place : Owns(a, s)' <=> s = at'[a]
    BY <1>1, <1>3 DEF Owns, OwnsIn, Handed, Carried
  <2>3. ASSUME NEW a \in Asset, NEW s \in Place, s = at'[a]
        PROVE  /\ at[a] \in Place /\ a \in live /\ View[at[a]] = ContentOf[a] /\ at[a][1] # g
               /\ IF at[a][1] = f THEN s = <<g, at[a][2]>> ELSE s = at[a]
               /\ disk[s] = ContentOf[a]
    <3>1. /\ IF at[a] \in Place /\ at[a][1] = f /\ a \in live THEN s = <<g, at[a][2]>> ELSE s = at[a]
          /\ at[a] \in Place
      BY <1>8, <2>3
    <3>2. a \in live
      BY <3>1 DEF Standing
    <3>3. PICK p \in Place : p = at[a]
      BY <3>1
    <3>4. View[p] = ContentOf[a] /\ ContentOf[a] # None
      BY <1>3, <3>3, CustodyAssumption DEF Calm, Belong
    <3>5. View[p] = IF p[1] = f THEN disk[<<g, p[2]>>] ELSE IF p[1] = g THEN None ELSE disk[p]
      BY <1>4 DEF Swapped
    <3> QED
      BY <1>2, <3>1, <3>2, <3>3, <3>4, <3>5
  <2>4. ASSUME NEW a \in Asset, NEW b \in Asset, NEW s \in Place, s = at'[a], s = at'[b]
        PROVE  a = b
    <3>1. PICK p \in Place, q \in Place : p = at[a] /\ q = at[b]
      BY <2>3, <2>4
    <3>2. /\ p[1] # g /\ q[1] # g
          /\ IF p[1] = f THEN s = <<g, p[2]>> ELSE s = p
          /\ IF q[1] = f THEN s = <<g, q[2]>> ELSE s = q
      BY <2>3, <2>4, <3>1
    <3>3. p = <<p[1], p[2]>> /\ q = <<q[1], q[2]>>
      BY DEF Place
    <3>4. p = q
      BY <3>2, <3>3
    <3> QED
      BY <1>3, <3>1, <3>4 DEF Calm, Alone
  <2>5. Belong' /\ Alone'
    BY <2>1, <2>2, <2>3, <2>4 DEF Belong, Alone
  <2> QED
    BY <1>6, <2>1, <2>5 DEF Calm
<1> QED
  BY <1>2, <1>7, <1>8 DEF RenameRecord

LEMMA RenameUndoCalm ==
    ASSUME CInv, Standing, Calm, RenameUndo, harm' = {} PROVE Calm'
<1>1. /\ UNCHANGED <<live, dup, at, trash, job, plan, reorg>> /\ rename # None /\ Away
      /\ rename' = None
  BY DEF RenameUndo, Away
<1>2. disk' = View /\ View' = disk'
  BY <1>1 DEF RenameUndo, Calm, RenameOrderly, View, Away
<1>3. Belong' /\ Alone'
  <2>1. \A a \in Asset, s \in Place : Owns(a, s)' <=> Owns(a, s)
    BY <1>1 DEF Owns
  <2> QED
    BY <1>2, <2>1 DEF Calm, Belong, Alone
<1>4. (\A r \in Resolver : JobOrderly(r)') /\ Apart' /\ TrashOrderly'
  BY <1>1, JobsSameCalm
<1>5. ReorgOrderly' /\ RenameOrderly'
  BY <1>1 DEF Calm, ReorgOrderly, RenameOrderly, Away
<1> QED
  BY <1>3, <1>4, <1>5 DEF Calm

\* With no file in flight, every row owns the place it names.
LEMMA LandedOwns ==
    ASSUME ~InFlight, NEW a \in Asset, NEW s \in Place, s = at[a]
    PROVE  Owns(a, s) /\ View = disk
  BY DEF InFlight, Owns, OwnsIn, Handed, Active, View, Away

LEMMA CrashCalm ==
    ASSUME CInv, Standing, Calm, Crash, harm' = {} PROVE Calm'
<1>1. /\ UNCHANGED <<live, dup, at, disk, trash>> /\ ~InFlight
      /\ \A r \in Resolver : job'[r] = None
      /\ reorg' = None /\ rename' = None
  BY DEF Crash, Hurt
<1>2. \A a \in Asset, s \in Place : Owns(a, s)' => Owns(a, s) /\ View = disk
  <2>1. \A a \in Asset, s \in Place : Owns(a, s)' => s = at[a]
    BY <1>1 DEF Owns, OwnsIn, Carried
  <2> QED
    BY <1>1, <2>1, LandedOwns
<1>3. View' = disk
  BY <1>1 DEF View, Away
<1>4. Belong' /\ Alone'
  BY <1>2, <1>3 DEF Calm, Belong, Alone
<1>5. (\A r \in Resolver : JobOrderly(r)') /\ Apart'
  BY <1>1 DEF JobOrderly, Apart, Selected, Active
<1>6. TrashOrderly'
  BY <1>1, TrashSame
<1>7. ReorgOrderly' /\ RenameOrderly'
  BY <1>1 DEF ReorgOrderly, RenameOrderly, Away
<1> QED
  BY <1>4, <1>5, <1>6, <1>7 DEF Calm

------------------------------------------------------------------------------
(* The invariant, and the theorems. *)

LEMMA InitFInv == CustodyInit => FInv
<1> SUFFICES ASSUME CustodyInit PROVE FInv
  OBVIOUS
<1>1. CInv
  BY InitCInv
<1>2. /\ \A r \in Resolver : job[r] = None
      /\ plan = NoPlan /\ reorg = None /\ rename = None
      /\ live = Asset /\ trash = {}
  BY DEF CustodyInit
<1>3. Standing
  BY <1>2 DEF Standing, HandHadFile, PlanHadFile, Active, NoPlan
<1>4. View = disk /\ \A a \in Asset, s \in Place : Owns(a, s) <=> s = at[a]
  BY <1>2 DEF View, Away, Owns, OwnsIn, Handed, Carried
<1>5. \A a, b \in Asset, s \in Place : s = at[a] /\ s = at[b] => a = b
  BY PlaceTyped DEF CustodyInit
<1>6. ASSUME NEW a \in Asset, NEW s \in Place, s = at[a] PROVE disk[s] = ContentOf[a]
  <2>1. disk[s] = ContentOf[CHOOSE b \in Asset : at[b] = s]
    BY <1>6 DEF CustodyInit
  <2>2. (CHOOSE b \in Asset : at[b] = s) = a
    BY <1>5, <1>6
  <2> QED
    BY <2>1, <2>2
<1>7. Belong /\ Alone
  BY <1>4, <1>5, <1>6 DEF Belong, Alone
<1>8. \A a \in Asset : at[a] # "trash"
  BY PlaceTyped, WhereAssumption DEF CustodyInit, Place
<1>9. Calm
  BY <1>2, <1>7, <1>8 DEF Calm, JobOrderly, Apart, Selected, Active, ReorgOrderly, RenameOrderly,
                          Away, TrashOrderly
<1>10. OnlyReplacedIsLost
  <2> SUFFICES ASSUME NEW a \in Asset, at[a] # None PROVE Kept(a)
    BY DEF OnlyReplacedIsLost, NothingLost
  <2>1. at[a] \in Place
    BY DEF CustodyInit, Place
  <2>2. OnDisk(ContentOf[a])
    BY <1>6, <2>1 DEF OnDisk
  <2> QED
    BY <1>1, <2>2, KeptIs, DiskTyped
<1> QED
  BY <1>1, <1>3, <1>9, <1>10 DEF FInv, Orderly

\* The harms are never forgotten, and each step taken in order leaves order.
LEMMA StepStands == ASSUME CInv, Standing, CustodyNext PROVE Standing' /\ LossStep
<1>1. ASSUME NEW r \in Resolver, Resolve(r) PROVE Standing' /\ LossStep
  BY <1>1, CancelResolveStands, TakeItemStands, EndResolveStands, KeepItemStands, TrashItemStands,
     RecordDeleteStands, MoveItemStands, TrashCopiedStands, RecordMoveStands, UndoMoveStands
     DEF Resolve
<1>2. ASSUME NEW r \in Resolver, NEW act \in Action, NEW to \in Folder, NEW ids \in SUBSET Asset,
             StartResolve(r, act, to, ids)
      PROVE  Standing' /\ LossStep
  BY <1>2, StartResolveStands
<1>3. CASE RemoveSourceOnly
  BY <1>3, RemoveSourceOnlyStands
<1>4. CASE PlanReorganize \/ StartReorganize \/ ReorganizeMove \/ ReorganizeRecord \/ EndReorganize
  BY <1>4, PlanReorganizeStands, StartReorganizeStands, ReorganizeMoveStands, ReorganizeRecordStands,
     EndReorganizeStands
<1>5. CASE (\E f, g \in Folder : RenameBegin(f, g)) \/ RenameFolder \/ RenameRecord \/ RenameUndo
  BY <1>5, RenameBeginStands, RenameFolderStands, RenameRecordStands, RenameUndoStands
<1>6. CASE Crash
  BY <1>6, CrashStands
<1> QED
  BY <1>1, <1>2, <1>3, <1>4, <1>5, <1>6 DEF CustodyNext

LEMMA StepCalm == ASSUME CInv, Standing, Calm, CustodyNext, harm' = {} PROVE Calm'
<1>1. ASSUME NEW r \in Resolver, Resolve(r) PROVE Calm'
  BY <1>1, CancelResolveCalm, TakeItemCalm, EndResolveCalm, KeepItemCalm, TrashItemCalm,
     RecordDeleteCalm, MoveItemCalm, TrashCopiedCalm, RecordMoveCalm, UndoMoveCalm DEF Resolve
<1>2. ASSUME NEW r \in Resolver, NEW act \in Action, NEW to \in Folder, NEW ids \in SUBSET Asset,
             StartResolve(r, act, to, ids)
      PROVE  Calm'
  BY <1>2, StartResolveCalm
<1>3. CASE RemoveSourceOnly
  BY <1>3, RemoveSourceOnlyCalm
<1>4. CASE PlanReorganize \/ StartReorganize \/ ReorganizeMove \/ ReorganizeRecord \/ EndReorganize
  BY <1>4, PlanReorganizeCalm, StartReorganizeCalm, ReorganizeMoveCalm, ReorganizeRecordCalm,
     EndReorganizeCalm
<1>5. CASE (\E f, g \in Folder : RenameBegin(f, g)) \/ RenameFolder \/ RenameRecord \/ RenameUndo
  BY <1>5, RenameBeginCalm, RenameFolderCalm, RenameRecordCalm, RenameUndoCalm
<1>6. CASE Crash
  BY <1>6, CrashCalm
<1> QED
  BY <1>1, <1>2, <1>3, <1>4, <1>5, <1>6 DEF CustodyNext

LEMMA StillFInv == ASSUME FInv, UNCHANGED custodyVars PROVE FInv'
<1>1. CInv'
  BY StepCInv DEF FInv
<1>2. Standing'
  BY DEF FInv, custodyVars, Standing, HandHadFile, PlanHadFile, Active
<1>3. OnlyReplacedIsLost'
  BY DEF FInv, custodyVars, OnlyReplacedIsLost, NothingLost, Kept, Range
<1>4. ASSUME Calm PROVE Calm'
  <2>1. Belong' /\ Alone'
    BY <1>4, FilesSameCalm DEF custodyVars, View, Away, Swapped
  <2>2. (\A r \in Resolver : JobOrderly(r)') /\ Apart' /\ TrashOrderly'
    BY <1>4, JobsSameCalm DEF custodyVars
  <2>3. ReorgOrderly' /\ RenameOrderly'
    BY <1>4 DEF custodyVars, Calm, ReorgOrderly, RenameOrderly, Active, Away, Occupied, Free
  <2> QED
    BY <2>1, <2>2, <2>3 DEF Calm
<1> QED
  BY <1>1, <1>2, <1>3, <1>4 DEF FInv, Orderly, custodyVars

LEMMA StepFInv == FInv /\ [CustodyNext]_custodyVars => FInv'
<1> SUFFICES ASSUME FInv, CustodyNext PROVE FInv'
  BY StillFInv
<1>1. CInv' 
  BY StepCInv DEF FInv
<1>2. Standing' /\ LossStep
  BY StepStands DEF FInv
<1>3. OnlyReplacedIsLost'
  BY <1>1, <1>2, LossInv DEF FInv
<1>4. Orderly'
  <2>1. harm' = {} => harm = {}
    BY <1>2 DEF LossStep
  <2> QED
    BY <2>1, StepCalm DEF FInv, Orderly
<1> QED
  BY <1>1, <1>2, <1>3, <1>4 DEF FInv

LEMMA FInvCorrect == CustodySpec => []FInv
<1>1. CustodyInit => FInv
  BY InitFInv
<1>2. FInv /\ [CustodyNext]_custodyVars => FInv'
  BY StepFInv
<1> QED
  BY <1>1, <1>2, PTL DEF CustodySpec

\* Whatever the resolvers, a reorganize and a rename do, in any order, failing
\* or interrupted anywhere: a content that has a file loses its last one only
\* when a move replaced another file of the same name, or the undo of a copy
\* removed a file that took the place of the copy.
THEOREM OnlyReplacedIsLostCorrect == CustodySpec => []OnlyReplacedIsLost
<1>1. FInv => OnlyReplacedIsLost
  BY DEF FInv
<1> QED
  BY <1>1, FInvCorrect, PTL

\* While none of the harms happened, the row of a deleted duplicate finds its
\* file in the trash.
THEOREM DeletedIsRecoverableCorrect == CustodySpec => []DeletedIsRecoverable
<1>1. FInv => DeletedIsRecoverable
  BY DEF FInv, Orderly, Calm, TrashOrderly, InTrash, DeletedIsRecoverable
<1> QED
  BY <1>1, FInvCorrect, PTL

\* While none of the harms happened and no file is in flight, every live row
\* that names a place finds its own content there.
THEOREM RowsFindFilesCorrect == CustodySpec => []RowsFindFiles
<1>1. ASSUME FInv, harm = {}, ~InFlight, NEW a \in live, at[a] # None PROVE disk[at[a]] = ContentOf[a]
  <2>1. a \in Asset /\ at[a] \in Place
    BY <1>1 DEF FInv, CInv, CustodyTypeOK, LivePlaced, Where
  <2>2. PICK s \in Place : s = at[a]
    BY <2>1
  <2>3. Owns(a, s) /\ View = disk
    BY <1>1, <2>1, <2>2, LandedOwns
  <2>4. View[s] = ContentOf[a]
    BY <1>1, <2>1, <2>3 DEF FInv, Orderly, Calm, Belong
  <2> QED
    BY <2>2, <2>3, <2>4
<1>2. FInv => RowsFindFiles
  BY <1>1 DEF RowsFindFiles
<1> QED
  BY <1>2, FInvCorrect, PTL
=============================================================================
