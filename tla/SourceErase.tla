----------------------------- MODULE SourceErase -----------------------------
(***************************************************************************)
(* May the user erase this card, or delete this folder?  The safe-to-erase *)
(* evaluation (source/safeerase.go, services/sources.go), the clear that   *)
(* moves what it judged safe into a trash on the card                      *)
(* (services/sourceclear.go), the cleanup analysis of a folder             *)
(* (cleanup/analyzer.go, recommendation.go, services/cleanup.go) and       *)
(* ejecting (services/eject.go), while the catalog, the backups, the       *)
(* archive and the card in the reader change underneath.                   *)
(*                                                                         *)
(* A file is its content and whether it was modified after the import that *)
(* recorded its path.  Two contents may share a quick hash, or a size.     *)
(***************************************************************************)
EXTENDS Integers, FiniteSets

CONSTANTS
    Asset, Content, Card, Path,
    ContentOf, OrigOf,      \* of each asset: its content, the path it came from
    QuickOf, SizeOf,        \* of each content
    Catalogs, Holdings,     \* bounds: catalogs and cards to begin with
    MaxRuns,                \* bound: evaluations, clears and analyses begun
    MaxChanges,             \* bound: changes around them
    None

File == [content : Content, new : BOOLEAN]
Row  == [live : BOOLEAN, verified : {"pending", "verified", "failed"}, green : BOOLEAN,
         dup : BOOLEAN, archived : BOOLEAN, full : BOOLEAN]

(* What imports leave: one original per content, with an archived copy; the *)
(* full hash is known once a second file with its quick hash has been seen. *)
Imported(r) ==
    /\ \A a \in Asset : /\ r[a].live
                        /\ ~r[a].dup \/ r[a].green => r[a].archived
                        /\ r[a].dup => \E b \in Asset : ~r[b].dup /\ ContentOf[b] = ContentOf[a]
                        /\ r[a].full <=> \E b \in Asset \ {a} :
                                             QuickOf[ContentOf[b]] = QuickOf[ContentOf[a]]
    /\ \A a, b \in Asset : a # b /\ ContentOf[a] = ContentOf[b] => r[a].dup \/ r[b].dup

ASSUME SourceAssumption ==
    /\ ContentOf \in [Asset -> Content] /\ OrigOf \in [Asset -> Path]
    /\ \A c, d \in Content : QuickOf[c] = QuickOf[d] => SizeOf[c] = SizeOf[d]
    /\ Catalogs \subseteq [Asset -> Row] /\ \A r \in Catalogs : Imported(r)
    /\ Holdings \subseteq [Path -> File \cup {None}]
    /\ IsFiniteSet(Path)
    /\ MaxRuns \in Nat /\ MaxChanges \in Nat

VARIABLES
    rows,       \* the catalog
    kept,       \* assets whose archived copy is on disk
    dest,       \* is a required backup destination enabled?
    cards,      \* what each card holds
    trash,      \* what was cleared from it, still on it
    mounted,    \* the card at the mount point, or None
    eval, report,       \* the evaluation under way, and the last one
    clear,              \* the clear under way
    cleanup, verdict,   \* the analysis under way, and the last one (`missed'
                        \* in them is history: the files the walk passed over)
    ejecting,           \* an eject that has passed its guards
    still,      \* history: what nothing has changed under since it began
    runs, changes

vars == <<rows, kept, dest, cards, trash, mounted, eval, report, clear, cleanup, verdict,
          ejecting, still, runs, changes>>

Class   == {"archived", "new", "unverified", "incomplete"}
Counter == {"media", "archived", "duplicate", "new", "failed", "unreadable",
            "dupSafe", "notVerified", "notBackedUp", "inconsistent"}
Upto    == 0..Cardinality(Path)
Eval    == [walked : UNION {[S -> File] : S \in SUBSET Path}, dest : BOOLEAN,
            count : [Class -> Upto], files : SUBSET Path]
Report  == [safe : BOOLEAN, noDest : BOOLEAN, total : Upto, files : SUBSET Path]
Clear   == [left : SUBSET Path]
Cleanup == [left : SUBSET Path, seen : SUBSET Content, count : [Counter -> Upto],
            missed : SUBSET Path]
Verdict == [safe : BOOLEAN, missed : SUBSET Path]

At(p)   == IF mounted = None THEN None ELSE cards[mounted][p]
Present == {p \in Path : At(p) # None}
Live    == {a \in Asset : rows[a].live}

catalog == <<rows, kept, dest>>
media   == <<cards, trash, mounted>>
checks  == <<eval, report, clear, cleanup, verdict, ejecting>>

Init ==
    /\ rows \in Catalogs
    /\ kept = {a \in Asset : rows[a].archived}
    /\ dest \in BOOLEAN
    /\ cards \in [Card -> Holdings]
    /\ trash = [c \in Card |-> {}]
    /\ mounted \in Card
    /\ eval = None /\ report = None /\ clear = None /\ cleanup = None /\ verdict = None
    /\ ejecting = FALSE
    /\ still = {}
    /\ runs = 0 /\ changes = 0

Begun == runs < MaxRuns /\ runs' = runs + 1

-----------------------------------------------------------------------------
(* Safe to erase. *)

(* What a walk may list, with size and time: a directory or an entry that   *)
(* cannot be read is passed over without a word, even the top of the card.  *)
Walks == {[p \in listed |-> At(p)] : listed \in SUBSET Present}

(* Two phases: the media files are listed, then judged one by one.          *)
StartEval ==
    /\ eval = None
    /\ Begun
    /\ \E walked \in Walks :
          eval' = [walked |-> walked, dest |-> dest,
                   count |-> [c \in Class |-> 0], files |-> {}]
    /\ report' = None
    /\ still' = (still \ {"report"}) \cup {"eval"}
    /\ UNCHANGED <<catalog, media, clear, cleanup, verdict, ejecting, changes>>

(* Mutant: a match is enough. *)
Mut_Bucket(a) == IF rows[a].verified = "verified" THEN "archived" ELSE "unverified"

Bucket(a) ==
    IF rows[a].verified # "verified" THEN "unverified"
    ELSE IF ~rows[a].green THEN "incomplete"
    ELSE "archived"

(* The assets a file is taken for without reading it: imported from this    *)
(* very path, with its size, not modified since.                            *)
Fast(p, f) ==
    {a \in Live : /\ rows[a].archived /\ OrigOf[a] = p
                  /\ SizeOf[ContentOf[a]] = SizeOf[f.content] /\ ~f.new}

Candidates(c) == {a \in Live : QuickOf[ContentOf[a]] = QuickOf[c]}

(* What reading the file finds: one candidate is taken at its quick hash,   *)
(* several are told apart by the full hashes on record.                     *)
ByHash(c) ==
    LET found == Candidates(c)
        same  == {a \in found : Cardinality(found) = 1 \/ (rows[a].full /\ ContentOf[a] = c)}
    IN IF found = {} THEN {"new"}
       ELSE IF same = {} THEN {"unverified"}
       ELSE {Bucket(a) : a \in same}

(* The classes a listed file may get now: it may have become unreadable, its *)
(* size may not be known, and a lookup that fails finds nothing.             *)
Judged(p, f) ==
    {Bucket(a) : a \in Fast(p, f)} \cup {"unverified", "new"}
    \cup (IF At(p) = None THEN {} ELSE ByHash(At(p).content))

Without(f, x) == [y \in DOMAIN f \ {x} |-> f[y]]

JudgeOne ==
    /\ eval # None
    /\ \E p \in DOMAIN eval.walked : \E c \in Judged(p, eval.walked[p]) :
          eval' = [eval EXCEPT !.walked = Without(@, p), !.count[c] = @ + 1,
                               !.files = IF c = "archived" THEN @ \cup {p} ELSE @]
    /\ UNCHANGED <<catalog, media, report, clear, cleanup, verdict, ejecting, still, runs, changes>>

(* finalizeReport *)
Concluded(e) ==
    LET n     == e.count
        total == n["archived"] + n["new"] + n["unverified"] + n["incomplete"]
        known == n["new"] = 0 /\ n["unverified"] = 0
    IN [total |-> total, files |-> e.files,
        safe   |-> total = 0 \/ (known /\ e.dest /\ n["incomplete"] = 0),
        noDest |-> total # 0 /\ known /\ ~e.dest]

(* All are judged, or it is cancelled between two. *)
EndEval ==
    /\ eval # None
    /\ \/ report' = None
       \/ /\ DOMAIN eval.walked = {}
          /\ report' = Concluded(eval)
    /\ eval' = None
    /\ still' = (still \ {"eval"}) \cup {s \in {"report"} : "eval" \in still /\ report' # None}
    /\ UNCHANGED <<catalog, media, clear, cleanup, verdict, ejecting, runs, changes>>

(* Fifteen minutes. *)
ReportLapses ==
    /\ report # None
    /\ report' = None
    /\ still' = still \ {"report"}
    /\ UNCHANGED <<catalog, media, eval, clear, cleanup, verdict, ejecting, runs, changes>>

-----------------------------------------------------------------------------
(* Clearing: the report kept by the service is the gate. *)

GateOpen == report # None /\ report.safe

StartClear ==
    /\ clear = None
    /\ GateOpen
    /\ Begun
    /\ clear' = [left |-> report.files]
    /\ still' = (still \ {"clear"}) \cup {s \in {"clear"} : "report" \in still}
    /\ UNCHANGED <<catalog, media, eval, report, cleanup, verdict, ejecting, changes>>

(* A file that is gone is an error of that file alone. *)
ClearOne ==
    /\ clear # None
    /\ \E p \in clear.left :
          /\ clear' = [clear EXCEPT !.left = @ \ {p}]
          /\ IF At(p) = None THEN UNCHANGED <<cards, trash>>
             ELSE /\ trash' = [trash EXCEPT ![mounted] = @ \cup {<<p, At(p)>>}]
                  /\ cards' = [cards EXCEPT ![mounted][p] = None]
    /\ still' = still \ {"eval", "cleanup", "verdict"}
    /\ UNCHANGED <<catalog, mounted, eval, report, cleanup, verdict, ejecting, runs, changes>>

(* Nothing left, or cancelled between two files. *)
EndClear ==
    /\ clear # None
    /\ clear' = None
    /\ still' = still \ {"clear"}
    /\ UNCHANGED <<catalog, media, eval, report, cleanup, verdict, ejecting, runs, changes>>

-----------------------------------------------------------------------------
(* The cleanup assistant: one walk of the folder, here the card with        *)
(* nothing cleared from it, each file read and judged as it is met.         *)

StartCleanup ==
    /\ cleanup = None
    /\ Begun
    /\ cleanup' = [left |-> Path, seen |-> {}, count |-> [k \in Counter |-> 0], missed |-> {}]
    /\ verdict' = None
    /\ still' = (still \ {"verdict"}) \cup {"cleanup"}
    /\ UNCHANGED <<catalog, media, eval, report, clear, ejecting, changes>>

(* Is the content of a duplicate safe in the archive? *)
SafelyArchived(c) ==
    \E a \in Candidates(c) :
        /\ ~rows[a].dup /\ rows[a].verified = "verified" /\ rows[a].green
        /\ ContentOf[a] = c
        /\ a \in kept

Duplicate(c) == {"duplicate"} \cup {k \in {"dupSafe"} : SafelyArchived(c)}

(* Mutant: the presence of the archived copy is not looked at. *)
Mut_Matched(a, c) ==
    IF rows[a].verified = "failed" THEN {"failed"}
    ELSE IF rows[a].dup THEN Duplicate(c)
    ELSE {"archived"} \cup {k \in {"notVerified"}  : rows[a].verified # "verified"}
                      \cup {k \in {"notBackedUp"}  : ~rows[a].green}

Matched(a, c) ==
    IF rows[a].verified = "failed" THEN {"failed"}
    ELSE IF rows[a].dup THEN Duplicate(c)
    ELSE {"archived"} \cup {k \in {"notVerified"}  : rows[a].verified # "verified"}
                      \cup {k \in {"notBackedUp"}  : ~rows[a].green}
                      \cup {k \in {"inconsistent"} : a \notin kept}

(* The rows a file is matched with: by the full hash on record, else by     *)
(* reading the archived copy.                                               *)
Matches(c) == {a \in Candidates(c) : ContentOf[a] = c /\ (rows[a].full \/ a \in kept)}

(* What a file of content c may be counted as; reading it may fail at once, *)
(* or in the middle of a full hash that was needed.                         *)
Counted(c) ==
    LET again == c \in cleanup.seen
        full  == Candidates(c) # {} \/ \E d \in cleanup.seen : QuickOf[d] = QuickOf[c]
    IN {{"unreadable"}}
       \cup {k \in {{"failed"}} : full}
       \cup (IF again THEN {Duplicate(c)}
             ELSE IF Matches(c) = {} THEN {{"new"}}
             ELSE {Matched(a, c) : a \in Matches(c)})

(* The walk meets a file, or passes it over with a directory or an entry it *)
(* cannot read: that is logged, and counted nowhere.                        *)
CleanupOne ==
    /\ cleanup # None
    /\ \E p \in cleanup.left :
          \/ cleanup' = [cleanup EXCEPT !.left = @ \ {p}, !.missed = @ \cup ({p} \cap Present)]
          \/ /\ At(p) # None
             /\ \E ks \in Counted(At(p).content) :
                  cleanup' = [cleanup EXCEPT
                     !.left = @ \ {p},
                     !.seen = IF ks = {"unreadable"} THEN @ ELSE @ \cup {At(p).content},
                     !.count = [k \in Counter |-> @[k] + (IF k \in ks \cup {"media"} THEN 1 ELSE 0)]]
    /\ UNCHANGED <<catalog, media, eval, report, clear, verdict, ejecting, still, runs, changes>>

(* Recommendation: no blocker, and every media file is accounted for. *)
SafeToDelete(n) ==
    /\ n["media"] > 0
    /\ \A k \in {"new", "failed", "unreadable", "notVerified", "notBackedUp", "inconsistent"} : n[k] = 0
    /\ n["duplicate"] = n["dupSafe"]
    /\ n["archived"] + n["dupSafe"] = n["media"]

EndCleanup ==
    /\ cleanup # None
    /\ \/ verdict' = None
       \/ cleanup.left = {} /\ verdict' = [safe |-> SafeToDelete(cleanup.count), missed |-> cleanup.missed]
    /\ cleanup' = None
    /\ still' = (still \ {"cleanup"}) \cup {s \in {"verdict"} : "cleanup" \in still}
    /\ UNCHANGED <<catalog, media, eval, report, clear, ejecting, runs, changes>>

-----------------------------------------------------------------------------
(* Ejecting, and what else changes. *)

(* Bounded, and only while a check or its result is there to be overtaken:  *)
(* before that a change is another first state.                             *)
Change ==
    /\ changes < MaxChanges /\ still # {}
    /\ changes' = changes + 1 /\ still' = {}

(* Guarded once: the volume of the library, or of an operation under way,   *)
(* is refused; then diskutil decides, and refuses a volume in use.          *)
EjectBegin ==
    /\ ~ejecting
    /\ mounted # None
    /\ eval = None /\ clear = None /\ cleanup = None
    /\ changes < MaxChanges
    /\ ejecting' = TRUE
    /\ UNCHANGED <<catalog, media, eval, report, clear, cleanup, verdict, still, runs, changes>>

EjectEnd ==
    /\ ejecting
    /\ ejecting' = FALSE
    /\ \/ mounted' = None /\ Change
       \/ UNCHANGED <<mounted, still, changes>>
    /\ UNCHANGED <<catalog, cards, trash, eval, report, clear, cleanup, verdict, runs>>

(* The user pulls the card out, or puts another into the reader. *)
SwapCard ==
    /\ Change
    /\ \E c \in Card \cup {None} : c # mounted /\ mounted' = c
    /\ UNCHANGED <<catalog, cards, trash, checks, runs>>

(* The files there are. *)
Files == {h[q] : h \in Holdings, q \in Path} \ {None}

(* A file is put on the card; copied there it keeps an older time. *)
NewFile ==
    /\ Change
    /\ mounted # None
    /\ \E p \in Path, f \in Files : cards' = [cards EXCEPT ![mounted][p] = f]
    /\ UNCHANGED <<catalog, trash, mounted, checks, runs>>

(* Backups complete or are required again; destinations come and go; a      *)
(* duplicate is deleted; an archived copy is lost.                          *)
CatalogChanges ==
    /\ Change
    /\ \/ \E a \in Asset : rows' = [rows EXCEPT ![a].green = ~@] /\ rows[a].archived
          /\ UNCHANGED <<kept, dest>>
       \/ dest' = ~dest /\ UNCHANGED <<rows, kept>>
       \/ \E a \in Live : /\ rows[a].dup
                          /\ rows' = [rows EXCEPT ![a].live = FALSE]
                          /\ kept' = kept \ {a}
          /\ UNCHANGED dest
       \/ \E a \in kept : kept' = kept \ {a} /\ UNCHANGED <<rows, dest>>
    /\ UNCHANGED <<media, checks, runs>>

Next ==
    \/ StartEval \/ JudgeOne \/ EndEval \/ ReportLapses
    \/ StartClear \/ ClearOne \/ EndClear
    \/ StartCleanup \/ CleanupOne \/ EndCleanup
    \/ EjectBegin \/ EjectEnd \/ SwapCard \/ NewFile \/ CatalogChanges

Spec == Init /\ [][Next]_vars

-----------------------------------------------------------------------------
(* Properties. *)

TypeOK ==
    /\ rows \in [Asset -> Row] /\ kept \subseteq Asset /\ dest \in BOOLEAN
    /\ cards \in [Card -> [Path -> File \cup {None}]]
    /\ trash \in [Card -> SUBSET (Path \X File)]
    /\ mounted \in Card \cup {None}
    /\ eval \in Eval \cup {None} /\ report \in Report \cup {None}
    /\ clear \in Clear \cup {None} /\ cleanup \in Cleanup \cup {None}
    /\ verdict \in Verdict \cup {None}
    /\ ejecting \in BOOLEAN
    /\ still \subseteq {"eval", "report", "clear", "cleanup", "verdict"}
    /\ runs \in 0..MaxRuns /\ changes \in 0..MaxChanges

(* A content that erasing the card does not lose. *)
Preserved(c) ==
    \E a \in Live : ContentOf[a] = c /\ rows[a].verified = "verified" /\ rows[a].green

(* A file that looks like an asset and is not: the same quick hash, or the  *)
(* same path and size and an older time.                                    *)
Lookalike(p, f) ==
    \E a \in Live : ContentOf[a] # f.content /\ (a \in Fast(p, f) \/ a \in Candidates(f.content))

(* What "safe" is worth ("every media file maps to a verified, fully        *)
(* backed-up archived asset", safeerase.go): every file the walk listed is   *)
(* named in the report, and preserved, whatever the order they are judged in *)
(* and whatever else ran, as long as nothing changed since the walk; only a  *)
(* lookalike is mistaken.                                                   *)
SafeMeansPreserved ==
    report # None /\ report.safe =>
        /\ Cardinality(report.files) = report.total
        /\ "report" \in still =>
              \A p \in report.files \cap Present :
                  Preserved(At(p).content) \/ Lookalike(p, At(p))

(* "Safe is true only when every media file maps to a verified, fully        *)
(* backed-up archived asset" (SafeToEraseReport in safeerase.go).  Violated: *)
(* what lies in a directory that cannot be read is not looked at and stands  *)
(* nowhere in the report, and a card whose top cannot be read is safe.       *)
EveryFileJudged ==
    report # None /\ report.safe /\ "report" \in still =>
        \A p \in Present : Preserved(At(p).content) \/ Lookalike(p, At(p))

(* The types of the state, and what "safe" is worth. *)
EraseInv == TypeOK /\ SafeMeansPreserved

(* Files moved by a clear "are provably safe" (sourceclear.go): one whose  *)
(* report nothing has overtaken moves only files preserved elsewhere, or    *)
(* lookalikes; whatever has, each goes to the trash of the card it was on.  *)
ClearedIsPreserved ==
    [][\A p \in Path :
          clear' # clear /\ At(p) # None /\ At(p)' = None =>
              /\ <<p, At(p)>> \in trash'[mounted]
              /\ "clear" \in still => Preserved(At(p).content) \/ Lookalike(p, At(p))]_vars

(* "Files that are not evaluated-safe are never touched" (sourceclear.go):  *)
(* no file of a content that was never imported is moved.  Violated: the    *)
(* report lists paths, good for fifteen minutes of whatever card is mounted.*)
NotJudgedNotTouched ==
    [][\A p \in Path :
          clear' # clear /\ At(p) # None /\ At(p)' = None =>
              \E a \in Asset : ContentOf[a] = At(p).content]_vars

(* The content at p is on disk in the archive under a verified, backed-up   *)
(* row that is no duplicate.                                                *)
InArchive(p) ==
    \E a \in kept \cap Live :
        /\ ContentOf[a] = At(p).content /\ ~rows[a].dup
        /\ rows[a].verified = "verified" /\ rows[a].green

(* What a recommendation to delete is worth ("every media file is           *)
(* already_archived with the matched assets verified, their required backups *)
(* complete, and no DB inconsistencies", recommendation.go), duplicates      *)
(* inside the folder and several candidates included: each file the walk met *)
(* is in the archive.                                                       *)
CleanupSound ==
    verdict # None /\ verdict.safe /\ "verdict" \in still =>
        \A p \in Present \ verdict.missed : InArchive(p)

(* "Deletion is recommended only when ... every media file is                *)
(* already_archived" (Recommendation).  Violated: the files of a directory   *)
(* that cannot be read are skipped with a line in the log and bar nothing.   *)
EveryFileAnalysed ==
    verdict # None /\ verdict.safe /\ "verdict" \in still => \A p \in Present : InArchive(p)

=============================================================================
