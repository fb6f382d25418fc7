-------------------------- MODULE SourceEraseProofs --------------------------
(***************************************************************************)
(* Proofs about SourceErase, for every value of its constants: what a      *)
(* report, a clear and a verdict are worth while nothing has overtaken     *)
(* them.                                                                   *)
(*                                                                         *)
(* The properties speak of what is concluded at the end.  What is          *)
(* inductive is about the evaluation and the analysis half done: each file *)
(* is still to be judged, or accounted for, or in a counter that bars the  *)
(* conclusion.                                                             *)
(***************************************************************************)
EXTENDS SourceErase, FiniteSetTheorems, TLAPS

------------------------------------------------------------------------------
(* The inductive invariant. *)

CatalogTyped == rows \in [Asset -> Row] /\ kept \subseteq Asset /\ dest \in BOOLEAN

MediaTyped ==
    /\ cards \in [Card -> [Path -> File \cup {None}]]
    /\ trash \in [Card -> SUBSET (Path \X File)]
    /\ mounted \in Card \cup {None}

EvalTyped    == eval \in Eval \cup {None} /\ report \in Report \cup {None}
ClearTyped   == clear \in Clear \cup {None}
CleanupTyped == cleanup \in Cleanup \cup {None} /\ verdict \in Verdict \cup {None}

RestTyped ==
    /\ ejecting \in BOOLEAN
    /\ still \subseteq {"eval", "report", "clear", "cleanup", "verdict"}
    /\ runs \in 0..MaxRuns /\ changes \in 0..MaxChanges

\* A file is judged once and met once: the counters cannot exceed the paths.
Sum(n) == n["archived"] + n["new"] + n["unverified"] + n["incomplete"]

EvalBounded ==
    eval # None => Sum(eval.count) + Cardinality(DOMAIN eval.walked) <= Cardinality(Path)

CleanupBounded ==
    cleanup # None =>
        \A k \in Counter : cleanup.count[k] + Cardinality(cleanup.left) <= Cardinality(Path)

\* The file at a path may go, as far as the code can tell.
Proven(p) == Preserved(At(p).content) \/ Lookalike(p, At(p))

EvalKnown ==
    eval # None =>
        /\ "report" \notin still
        /\ eval.files \cap DOMAIN eval.walked = {}
        /\ Cardinality(eval.files) = eval.count["archived"]
        /\ "eval" \in still =>
              /\ \A p \in DOMAIN eval.walked : At(p) = eval.walked[p]
              /\ \A p \in eval.files \cap Present : Proven(p)

ClearKnown ==
    clear # None /\ "clear" \in still => \A p \in clear.left \cap Present : Proven(p)

Blocker    == {"new", "failed", "unreadable", "notVerified", "notBackedUp", "inconsistent"}
Blocked(n) == (\E k \in Blocker : n[k] > 0) \/ n["duplicate"] > n["dupSafe"]

CleanupKnown ==
    cleanup # None =>
        /\ "verdict" \notin still
        /\ cleanup.count["dupSafe"] <= cleanup.count["duplicate"]
        /\ "cleanup" \in still =>
              \A p \in Present \ cleanup.missed :
                  p \in cleanup.left \/ InArchive(p) \/ Blocked(cleanup.count)

CountInv == TypeOK /\ EvalBounded /\ CleanupBounded
KnowInv  == EvalKnown /\ SafeMeansPreserved /\ ClearKnown /\ CleanupKnown /\ CleanupSound
EInv     == CountInv /\ KnowInv

------------------------------------------------------------------------------
(* The types in parts, and lemmas about the operators. *)

LEMMA TypesAre ==
    TypeOK <=> CatalogTyped /\ MediaTyped /\ EvalTyped /\ ClearTyped /\ CleanupTyped /\ RestTyped
  BY DEF TypeOK, CatalogTyped, MediaTyped, EvalTyped, ClearTyped, CleanupTyped, RestTyped

LEMMA PathsFinite == IsFiniteSet(Path) /\ Cardinality(Path) \in Nat
  BY SourceAssumption, FS_CardinalityType

\* What is at a path is a file, of the card at the mount point.
LEMMA AtTyped ==
    ASSUME MediaTyped, NEW p \in Path
    PROVE  /\ At(p) \in File \cup {None}
           /\ At(p) # None => mounted \in Card /\ At(p) = cards[mounted][p]
  BY DEF MediaTyped, At

\* One path less is one less to count.
LEMMA OneLess ==
    ASSUME NEW S \in SUBSET Path, NEW p \in S
    PROVE  /\ Cardinality(S \ {p}) = Cardinality(S) - 1
           /\ Cardinality(S) \in Nat /\ Cardinality(S \ {p}) \in Nat
<1>1. IsFiniteSet(S)
  BY PathsFinite, FS_Subset
<1>2. Cardinality(S) \in Nat
  BY <1>1, FS_CardinalityType
<1>3. IsFiniteSet(S \ {p}) /\ Cardinality(S \ {p}) = Cardinality(S) - 1
  BY <1>1, FS_RemoveElement
<1> QED
  BY <1>2, <1>3, FS_CardinalityType

LEMMA SomeLess ==
    ASSUME NEW S \in SUBSET Path
    PROVE  Cardinality(S) \in Nat /\ Cardinality(S) <= Cardinality(Path)
  BY PathsFinite, FS_Subset, FS_CardinalityType

LEMMA SumZero ==
    ASSUME NEW a \in Nat, NEW b \in Nat, NEW c \in Nat, NEW d \in Nat, a + b + c + d = 0
    PROVE  b = 0 /\ c = 0 /\ d = 0
  OBVIOUS

\* An evaluation and its parts.
LEMMA EvalParts ==
    ASSUME EvalTyped, eval # None
    PROVE  /\ eval.walked \in [DOMAIN eval.walked -> File]
           /\ DOMAIN eval.walked \subseteq Path
           /\ eval.dest \in BOOLEAN
           /\ eval.count \in [Class -> Upto]
           /\ eval.files \subseteq Path
           /\ eval = [walked |-> eval.walked, dest |-> eval.dest,
                      count |-> eval.count, files |-> eval.files]
  BY DEF EvalTyped, Eval

LEMMA CleanupParts ==
    ASSUME CleanupTyped, cleanup # None
    PROVE  /\ cleanup.left \subseteq Path
           /\ cleanup.seen \subseteq Content
           /\ cleanup.count \in [Counter -> Upto]
           /\ cleanup.missed \subseteq Path
           /\ cleanup = [left |-> cleanup.left, seen |-> cleanup.seen, count |-> cleanup.count,
                         missed |-> cleanup.missed]
  BY DEF CleanupTyped, Cleanup

\* A file is put into one of the four classes.
LEMMA JudgedTyped ==
    ASSUME NEW p, NEW f, NEW c \in Judged(p, f)
    PROVE  c \in Class
<1>1. \A a \in Asset : Bucket(a) \in Class
  BY DEF Bucket, Class
<1>2. Fast(p, f) \subseteq Asset /\ \A x : Candidates(x) \subseteq Asset
  BY DEF Fast, Candidates, Live
<1>3. ASSUME NEW x, c \in ByHash(x) PROVE c \in Class
  <2> DEFINE same == {a \in Candidates(x) : Cardinality(Candidates(x)) = 1 \/ (rows[a].full /\ ContentOf[a] = x)}
  <2>1. ByHash(x) \subseteq {"new", "unverified"} \cup {Bucket(a) : a \in same}
    BY DEF ByHash
  <2>2. same \subseteq Asset
    BY <1>2
  <2> QED
    BY <1>1, <1>3, <2>1, <2>2 DEF Class
<1> QED
  BY <1>1, <1>2, <1>3 DEF Judged, Class

\* A file found archived may go.
LEMMA ArchivedProven ==
    ASSUME NEW p \in Path, NEW f, f = At(p), "archived" \in Judged(p, f), f # None
    PROVE  Proven(p)
<1>1. ASSUME NEW a \in Asset, Bucket(a) = "archived"
      PROVE  rows[a].verified = "verified" /\ rows[a].green
  BY <1>1 DEF Bucket
<1>2. CASE \E a \in Fast(p, f) : Bucket(a) = "archived"
  <2>1. PICK a \in Fast(p, f) : Bucket(a) = "archived"
    BY <1>2
  <2>2. a \in Live /\ a \in Asset
    BY DEF Fast, Live
  <2> QED
    BY <1>1, <2>1, <2>2 DEF Proven, Preserved, Lookalike
<1>3. CASE "archived" \in ByHash(f.content)
  <2> DEFINE same == {a \in Candidates(f.content) :
                         Cardinality(Candidates(f.content)) = 1 \/ (rows[a].full /\ ContentOf[a] = f.content)}
  <2>2. PICK a \in same : Bucket(a) = "archived"
    BY <1>3 DEF ByHash
  <2>3. a \in Live /\ a \in Asset /\ a \in Candidates(f.content)
    BY DEF Candidates, Live
  <2> QED
    BY <1>1, <2>2, <2>3 DEF Proven, Preserved, Lookalike
<1> QED
  BY <1>2, <1>3 DEF Judged

\* A file that is counted with nothing to bar the deletion is in the archive.
LEMMA CountedInArchive ==
    ASSUME NEW p \in Path, At(p) # None,
           NEW ks \in Counted(At(p).content),
           ks \cap Blocker = {}, "duplicate" \in ks => "dupSafe" \in ks
    PROVE  InArchive(p)
<1> DEFINE c == At(p).content
<1>1. ASSUME SafelyArchived(c) PROVE InArchive(p)
  BY <1>1 DEF SafelyArchived, InArchive, Candidates
<1>2. CASE ks = Duplicate(c)
  BY <1>1, <1>2 DEF Duplicate
<1>3. ASSUME NEW a \in Matches(c), ks = Matched(a, c) PROVE InArchive(p)
  <2>1. a \in Live /\ a \in Asset /\ ContentOf[a] = c
    BY DEF Matches, Candidates, Live
  <2>2. rows[a].verified # "failed"
    BY <1>3 DEF Matched, Blocker
  <2>3. CASE rows[a].dup
    BY <1>2, <1>3, <2>2, <2>3 DEF Matched
  <2>4. CASE ~rows[a].dup
    <3>1. ks = {"archived"} \cup {k \in {"notVerified"}  : rows[a].verified # "verified"}
                            \cup {k \in {"notBackedUp"}  : ~rows[a].green}
                            \cup {k \in {"inconsistent"} : a \notin kept}
      BY <1>3, <2>2, <2>4 DEF Matched
    <3>2. rows[a].verified = "verified" /\ rows[a].green /\ a \in kept
      BY <3>1 DEF Blocker
    <3> QED
      BY <2>1, <2>4, <3>2 DEF InArchive
  <2> QED
    BY <2>3, <2>4
<1>4. ks \notin {{"unreadable"}, {"failed"}, {"new"}}
  BY DEF Blocker
<1> QED
  BY <1>2, <1>3, <1>4 DEF Counted

\* What a file is counted as: a set of counters, in which safe duplicates are
\* duplicates.
LEMMA CountedTyped ==
    ASSUME NEW c, NEW ks \in Counted(c)
    PROVE  ks \subseteq Counter /\ ("dupSafe" \in ks => "duplicate" \in ks)
<1>1. Duplicate(c) \subseteq {"duplicate", "dupSafe"} /\ "duplicate" \in Duplicate(c)
  BY DEF Duplicate
<1>2. ASSUME NEW a PROVE /\ Matched(a, c) \subseteq Counter
                         /\ "dupSafe" \in Matched(a, c) => "duplicate" \in Matched(a, c)
  BY <1>1 DEF Matched, Counter
<1> QED
  BY <1>1, <1>2 DEF Counted, Counter

------------------------------------------------------------------------------
(* What a step leaves alone. *)

\* Neither catalog nor card changed: every judgement stays what it was.
LEMMA SameWorld ==
    ASSUME UNCHANGED <<catalog, media>>
    PROVE  /\ \A p : At(p)' = At(p)
           /\ Present' = Present
           /\ \A p : Proven(p)' <=> Proven(p)
           /\ \A p : InArchive(p)' <=> InArchive(p)
           /\ CatalogTyped => CatalogTyped'
           /\ MediaTyped => MediaTyped'
<1>1. UNCHANGED <<rows, kept, dest, cards, trash, mounted>>
  BY DEF catalog, media
<1>2. \A p : At(p)' = At(p)
  BY <1>1 DEF At
<1>3. Present' = Present /\ Live' = Live
  BY <1>1, <1>2 DEF Present, Live
<1>4. \A c : Preserved(c)' <=> Preserved(c)
  BY <1>1, <1>3 DEF Preserved
<1>5. \A p, f : Lookalike(p, f)' <=> Lookalike(p, f)
  BY <1>1, <1>3 DEF Lookalike, Fast, Candidates
<1>6. \A p : Proven(p)' <=> Proven(p)
  BY <1>2, <1>4, <1>5 DEF Proven
<1>7. \A p : InArchive(p)' <=> InArchive(p)
  BY <1>1, <1>2, <1>3 DEF InArchive
<1> QED
  BY <1>1, <1>2, <1>3, <1>6, <1>7 DEF CatalogTyped, MediaTyped

\* SafeMeansPreserved and CleanupSound in the terms of the invariant.
LEMMA ReportMeans ==
    SafeMeansPreserved <=>
        (report # None /\ report.safe =>
            /\ Cardinality(report.files) = report.total
            /\ "report" \in still => \A p \in report.files \cap Present : Proven(p))
  BY DEF SafeMeansPreserved, Proven

LEMMA VerdictMeans ==
    CleanupSound <=>
        (verdict # None /\ verdict.safe /\ "verdict" \in still =>
            \A p \in Present \ verdict.missed : InArchive(p))
  BY DEF CleanupSound

\* The parts about the evaluation, the clear and the analysis, each kept by a
\* step that leaves its check alone and overtakes it or leaves the world alone.
EvalPart    == EvalTyped /\ EvalBounded /\ EvalKnown /\ SafeMeansPreserved
ClearPart   == ClearTyped /\ ClearKnown
CleanupPart == CleanupTyped /\ CleanupBounded /\ CleanupKnown /\ CleanupSound

LEMMA PartsAre ==
    EInv <=> CatalogTyped /\ MediaTyped /\ RestTyped /\ EvalPart /\ ClearPart /\ CleanupPart
  BY TypesAre DEF EInv, CountInv, KnowInv, EvalPart, ClearPart, CleanupPart

Kept(s) == s \in still' => s \in still /\ UNCHANGED <<catalog, media>>

LEMMA EvalKept ==
    ASSUME EvalPart, UNCHANGED <<eval, report>>, Kept("eval"), Kept("report")
    PROVE  EvalPart'
<1>1. EvalTyped' /\ EvalBounded'
  BY DEF EvalPart, EvalTyped, EvalBounded
<1>2. EvalKnown'
  <2> SUFFICES ASSUME eval # None, "eval" \in still'
               PROVE  /\ \A p \in DOMAIN eval.walked : At(p)' = eval.walked[p]
                      /\ \A p \in eval.files \cap Present' : Proven(p)'
    BY DEF EvalPart, EvalKnown, Kept
  <2>1. "eval" \in still /\ UNCHANGED <<catalog, media>>
    BY DEF Kept
  <2> QED
    BY <2>1, SameWorld DEF EvalPart, EvalKnown
<1>3. SafeMeansPreserved'
  <2>1. SUFFICES ASSUME report # None, report.safe, "report" \in still'
                 PROVE  \A p \in report.files \cap Present' : Proven(p)'
    BY DEF EvalPart, SafeMeansPreserved, Proven
  <2>2. "report" \in still /\ UNCHANGED <<catalog, media>>
    BY <2>1 DEF Kept
  <2> QED
    BY <2>1, <2>2, SameWorld, ReportMeans DEF EvalPart
<1> QED
  BY <1>1, <1>2, <1>3 DEF EvalPart

LEMMA ClearKept ==
    ASSUME ClearPart, UNCHANGED clear, Kept("clear")
    PROVE  ClearPart'
<1>1. ClearTyped'
  BY DEF ClearPart, ClearTyped
<1>2. ClearKnown'
  <2> SUFFICES ASSUME clear # None, "clear" \in still'
               PROVE  \A p \in clear.left \cap Present' : Proven(p)'
    BY DEF ClearKnown
  <2>1. "clear" \in still /\ UNCHANGED <<catalog, media>>
    BY DEF Kept
  <2> QED
    BY <2>1, SameWorld DEF ClearPart, ClearKnown
<1> QED
  BY <1>1, <1>2 DEF ClearPart

LEMMA CleanupKept ==
    ASSUME CleanupPart, UNCHANGED <<cleanup, verdict>>, Kept("cleanup"), Kept("verdict")
    PROVE  CleanupPart'
<1>1. CleanupTyped' /\ CleanupBounded'
  BY DEF CleanupPart, CleanupTyped, CleanupBounded
<1>2. CleanupKnown'
  <2>1. SUFFICES ASSUME cleanup # None, "cleanup" \in still'
                 PROVE  \A p \in Present' \ cleanup.missed :
                            p \in cleanup.left \/ InArchive(p)' \/ Blocked(cleanup.count)
    BY DEF CleanupKnown, CleanupPart, Blocked, Blocker, Kept
  <2>2. "cleanup" \in still /\ UNCHANGED <<catalog, media>>
    BY <2>1 DEF Kept
  <2> QED
    BY <2>1, <2>2, SameWorld DEF CleanupPart, CleanupKnown
<1>3. CleanupSound'
  <2>1. SUFFICES ASSUME verdict # None, verdict.safe, "verdict" \in still'
                 PROVE  \A p \in Present' \ verdict.missed : InArchive(p)'
    BY DEF CleanupSound
  <2>2. "verdict" \in still /\ UNCHANGED <<catalog, media>>
    BY <2>1 DEF Kept
  <2> QED
    BY <2>1, <2>2, SameWorld, VerdictMeans DEF CleanupPart
<1> QED
  BY <1>1, <1>2, <1>3 DEF CleanupPart

------------------------------------------------------------------------------
(* Init and the evaluation. *)

LEMMA InitEInv == ASSUME Init PROVE EInv
<1>1. CatalogTyped /\ MediaTyped /\ RestTyped
  <2>1. CatalogTyped
    BY SourceAssumption DEF Init, CatalogTyped
  <2>2. [Card -> Holdings] \subseteq [Card -> [Path -> File \cup {None}]]
    BY SourceAssumption
  <2>3. MediaTyped
    BY <2>2 DEF Init, MediaTyped
  <2>4. RestTyped
    <3>1. MaxRuns \in Nat /\ MaxChanges \in Nat
      BY SourceAssumption
    <3>2. ejecting = FALSE /\ still = {} /\ runs = 0 /\ changes = 0
      BY DEF Init
    <3>3. ejecting \in BOOLEAN /\ still \subseteq {"eval", "report", "clear", "cleanup", "verdict"}
      BY <3>2
    <3>4. runs \in 0..MaxRuns /\ changes \in 0..MaxChanges
      BY <3>1, <3>2
    <3> QED
      BY <3>3, <3>4 DEF RestTyped
  <2> QED
    BY <2>1, <2>3, <2>4
<1>2. eval = None /\ report = None /\ clear = None /\ cleanup = None /\ verdict = None
  BY DEF Init
<1>3. EvalPart /\ ClearPart /\ CleanupPart
  BY <1>2 DEF EvalPart, EvalTyped, EvalBounded, EvalKnown, SafeMeansPreserved, ClearPart, ClearTyped,
     ClearKnown, CleanupPart, CleanupTyped, CleanupBounded, CleanupKnown, CleanupSound
<1> QED
  BY <1>1, <1>3, PartsAre

LEMMA StartEvalStep == ASSUME EInv, StartEval PROVE EInv'
<1>0. CatalogTyped /\ MediaTyped /\ RestTyped /\ EvalPart /\ ClearPart /\ CleanupPart
  BY PartsAre
<1>1. /\ UNCHANGED <<catalog, media>> /\ UNCHANGED <<clear, cleanup, verdict, ejecting, changes>>
      /\ report' = None
      /\ still' = (still \ {"report"}) \cup {"eval"}
      /\ runs < MaxRuns /\ runs' = runs + 1
  BY DEF StartEval, Begun, catalog, media
<1>1a. PICK listed \in SUBSET Present :
          eval' = [walked |-> [p \in listed |-> At(p)], dest |-> dest,
                   count |-> [c \in Class |-> 0], files |-> {}]
  BY DEF StartEval, Walks
<1>2. CatalogTyped' /\ MediaTyped'
  BY <1>0, <1>1, SameWorld
<1>3. RestTyped'
  BY <1>0, <1>1, SourceAssumption DEF RestTyped
<1>4. ClearPart' /\ CleanupPart'
  BY <1>0, <1>1, ClearKept, CleanupKept DEF Kept
<1>5. listed \subseteq Path /\ \A p \in listed : At(p) \in File
  BY <1>0, AtTyped DEF Present
<1>6. Cardinality(listed) \in Nat /\ Cardinality(listed) <= Cardinality(Path)
  BY <1>5, SomeLess
<1>7. EvalPart'
  <2>1. [p \in listed |-> At(p)] \in [listed -> File]
    BY <1>5
  <2>2. 0 \in Upto
    BY PathsFinite DEF Upto
  <2>3. EvalTyped'
    <3>1. [p \in listed |-> At(p)] \in UNION {[S -> File] : S \in SUBSET Path}
      BY <1>5, <2>1
    <3>2. [c \in Class |-> 0] \in [Class -> Upto]
      BY <2>2
    <3>3. dest \in BOOLEAN
      BY <1>0 DEF CatalogTyped
    <3> QED
      BY <1>1, <1>1a, <3>1, <3>2, <3>3 DEF EvalTyped, Eval
  <2>4. EvalBounded'
    <3>1. Sum(eval'.count) = 0
      BY <1>1a DEF Sum, Class
    <3>2. DOMAIN eval'.walked = listed
      BY <1>1a
    <3> QED
      BY <1>6, <3>1, <3>2 DEF EvalBounded, Sum
  <2>5. EvalKnown'
    <3>1. DOMAIN eval'.walked = listed /\ \A p \in listed : eval'.walked[p] = At(p)
      BY <1>1a
    <3>2. eval'.files = {} /\ eval'.count["archived"] = 0 /\ Cardinality({}) = 0
      BY <1>1a, FS_EmptySet DEF Class
    <3> QED
      BY <1>1, <3>1, <3>2, SameWorld DEF EvalKnown
  <2>6. SafeMeansPreserved'
    BY <1>1 DEF SafeMeansPreserved
  <2> QED
    BY <2>3, <2>4, <2>5, <2>6 DEF EvalPart
<1> QED
  BY <1>2, <1>3, <1>4, <1>7, PartsAre, PTL

LEMMA JudgeOneStep == ASSUME EInv, JudgeOne PROVE EInv'
<1>0. CatalogTyped /\ MediaTyped /\ RestTyped /\ EvalPart /\ ClearPart /\ CleanupPart
  BY PartsAre
<1>1. /\ UNCHANGED <<catalog, media>> /\ UNCHANGED <<report, clear, cleanup, verdict, ejecting, still, runs, changes>>
      /\ eval # None
  BY DEF JudgeOne, catalog, media
<1>2a. PICK p \in DOMAIN eval.walked : \E c \in Judged(p, eval.walked[p]) :
          eval' = [eval EXCEPT !.walked = Without(@, p), !.count[c] = @ + 1,
                               !.files = IF c = "archived" THEN @ \cup {p} ELSE @]
  BY DEF JudgeOne
<1>2b. PICK c \in Judged(p, eval.walked[p]) :
          eval' = [eval EXCEPT !.walked = Without(@, p), !.count[c] = @ + 1,
                               !.files = IF c = "archived" THEN @ \cup {p} ELSE @]
  BY <1>2a
<1>2. c \in Class
  BY JudgedTyped
<1>3. CatalogTyped' /\ MediaTyped' /\ RestTyped'
  BY <1>0, <1>1, SameWorld DEF RestTyped
<1>4. ClearPart' /\ CleanupPart'
  BY <1>0, <1>1, ClearKept, CleanupKept DEF Kept
<1> DEFINE listed == DOMAIN eval.walked
           judged == IF c = "archived" THEN eval.files \cup {p} ELSE eval.files
           count  == [eval.count EXCEPT ![c] = @ + 1]
<1>5. /\ eval.walked \in [listed -> File] /\ listed \subseteq Path /\ eval.dest \in BOOLEAN
      /\ eval.count \in [Class -> Upto] /\ eval.files \subseteq Path
  BY <1>0, <1>1, EvalParts DEF EvalPart
<1>6. eval' = [walked |-> Without(eval.walked, p), dest |-> eval.dest, count |-> count, files |-> judged]
  <2>1. eval = [walked |-> eval.walked, dest |-> eval.dest, count |-> eval.count, files |-> eval.files]
    BY <1>0, <1>1, EvalParts DEF EvalPart
  <2> QED
    BY <1>2b, <2>1
<1>7. /\ Without(eval.walked, p) \in [listed \ {p} -> File]
      /\ DOMAIN Without(eval.walked, p) = listed \ {p}
      /\ \A q \in listed \ {p} : Without(eval.walked, p)[q] = eval.walked[q]
  BY <1>5 DEF Without
<1>8. Cardinality(listed \ {p}) = Cardinality(listed) - 1 /\ Cardinality(listed) \in Nat
      /\ Cardinality(listed \ {p}) \in Nat
  BY <1>5, OneLess
<1>9. eval'.count = count /\ eval'.walked = Without(eval.walked, p) /\ eval'.files = judged
  BY <1>6
<1>10. /\ \A k \in Class : eval.count[k] \in Nat /\ count[k] = (IF k = c THEN eval.count[k] + 1 ELSE eval.count[k])
       /\ Sum(count) = Sum(eval.count) + 1
       /\ \A k \in Class : count[k] <= Sum(count)
  <2>1. \A k \in Class : eval.count[k] \in Nat
    BY <1>5, PathsFinite DEF Upto
  <2>2. \A k \in Class : count[k] = IF k = c THEN eval.count[k] + 1 ELSE eval.count[k]
    BY <1>5
  <2>3. {"archived", "new", "unverified", "incomplete"} = Class /\ c \in Class
    BY <1>2 DEF Class
  <2> HIDE DEF count
  <2>4. Sum(count) = Sum(eval.count) + 1
    BY <2>1, <2>2, <2>3 DEF Sum
  <2>5. \A k \in Class : count[k] <= Sum(count)
    BY <2>1, <2>2, <2>3 DEF Sum
  <2> QED
    BY <2>1, <2>2, <2>4, <2>5
<1>11. EvalTyped' /\ EvalBounded'
  <2> HIDE DEF count
  <2>0. Sum(eval.count) \in Nat
    BY <1>10 DEF Sum, Class
  <2>1. Sum(count) + Cardinality(listed \ {p}) <= Cardinality(Path)
    BY <1>0, <1>1, <1>8, <1>10, <2>0, PathsFinite DEF EvalPart, EvalBounded
  <2>2. \A k \in Class : count[k] \in Upto
    BY <1>8, <1>10, <2>0, <2>1, PathsFinite DEF Upto
  <2>3. count \in [Class -> Upto]
    BY <1>5, <2>2 DEF count
  <2>4. Without(eval.walked, p) \in UNION {[S -> File] : S \in SUBSET Path}
    BY <1>5, <1>7
  <2>5. judged \subseteq Path
    BY <1>5
  <2>6. eval' \in Eval
    BY <1>5, <1>6, <2>3, <2>4, <2>5 DEF Eval
  <2>7. EvalTyped'
    BY <1>0, <1>1, <2>6 DEF EvalPart, EvalTyped
  <2>8. EvalBounded'
    BY <1>7, <1>9, <2>1 DEF EvalBounded, Sum
  <2> QED
    BY <2>7, <2>8
<1>12. EvalKnown'
  <2>0. /\ "report" \notin still /\ eval.files \cap listed = {}
        /\ Cardinality(eval.files) = eval.count["archived"]
    BY <1>0, <1>1 DEF EvalPart, EvalKnown
  <2>1. judged \cap (listed \ {p}) = {}
    BY <2>0
  <2>2. Cardinality(judged) = count["archived"]
    <3>1. IsFiniteSet(eval.files)
      BY <1>5, PathsFinite, FS_Subset
    <3>2. Cardinality(eval.files \cup {p}) = Cardinality(eval.files) + 1
      BY <2>0, <3>1, FS_AddElement
    <3> HIDE DEF count
    <3> QED
      BY <1>10, <2>0, <3>2 DEF Class
  <2>3. ASSUME "eval" \in still
        PROVE  /\ \A q \in listed \ {p} : At(q) = eval.walked[q]
               /\ \A q \in judged \cap Present : Proven(q)
    <3>1. /\ \A q \in listed : At(q) = eval.walked[q]
          /\ \A q \in eval.files \cap Present : Proven(q)
      BY <1>0, <1>1, <2>3 DEF EvalPart, EvalKnown
    <3>2. c = "archived" /\ p \in Present => Proven(p)
      BY <1>2b, <1>5, <3>1, ArchivedProven DEF Present
    <3> QED
      BY <3>1, <3>2
  <2> HIDE DEF count, judged, listed
  <2> QED
    BY <1>1, <1>7, <1>9, <2>0, <2>1, <2>2, <2>3, SameWorld DEF EvalKnown
<1>13. SafeMeansPreserved'
  BY <1>0, <1>1, SameWorld, ReportMeans DEF EvalPart, SafeMeansPreserved, Proven
<1> QED
  BY <1>3, <1>4, <1>11, <1>12, <1>13, PartsAre, PTL DEF EvalPart

LEMMA EndEvalStep == ASSUME EInv, EndEval PROVE EInv'
<1>0. CatalogTyped /\ MediaTyped /\ RestTyped /\ EvalPart /\ ClearPart /\ CleanupPart
  BY PartsAre
<1>1. /\ UNCHANGED <<catalog, media>> /\ UNCHANGED <<clear, cleanup, verdict, ejecting, runs, changes>>
      /\ eval # None /\ eval' = None
      /\ \/ report' = None
         \/ /\ DOMAIN eval.walked = {}
            /\ report' = Concluded(eval)
      /\ still' = (still \ {"eval"}) \cup {s \in {"report"} : "eval" \in still /\ report' # None}
  BY DEF EndEval, catalog, media
<1>2. CatalogTyped' /\ MediaTyped' /\ RestTyped'
  <2>1. still' \subseteq still \cup {"report"}
    BY <1>1
  <2> QED
    BY <1>0, <1>1, <2>1, SameWorld DEF RestTyped
<1>3. ClearPart' /\ CleanupPart'
  <2>1. \A s \in {"clear", "cleanup", "verdict"} : s \in still' => s \in still
    BY <1>1
  <2> QED
    BY <1>0, <1>1, <2>1, ClearKept, CleanupKept DEF Kept
<1>4. CASE report' = None
  <2>1. EvalPart'
    BY <1>1, <1>4 DEF EvalPart, EvalTyped, EvalBounded, EvalKnown, SafeMeansPreserved
  <2> QED
    BY <1>2, <1>3, <2>1, PartsAre, PTL
<1>5. CASE DOMAIN eval.walked = {} /\ report' = Concluded(eval)
  <2> DEFINE n == eval.count
  <2>1. n \in [Class -> Upto] /\ eval.files \subseteq Path /\ eval.dest \in BOOLEAN
    BY <1>0, <1>1, EvalParts DEF EvalPart
  <2>2. \A k \in {"archived", "new", "unverified", "incomplete"} : n[k] \in Nat
    BY <2>1, PathsFinite DEF Class, Upto
  <2>3. Sum(n) \in Upto
    <3>1. Sum(n) \in Nat
      BY <2>2 DEF Sum
    <3>2. Cardinality(DOMAIN eval.walked) = 0
      BY <1>5, FS_EmptySet
    <3>3. Sum(n) <= Cardinality(Path)
      BY <1>0, <1>1, <3>1, <3>2 DEF EvalPart, EvalBounded
    <3> QED
      BY <3>1, <3>3, PathsFinite DEF Upto
  <2>4. /\ report'.total = Sum(n) /\ report'.files = eval.files
        /\ report'.safe = (Sum(n) = 0 \/ (n["new"] = 0 /\ n["unverified"] = 0 /\ eval.dest /\ n["incomplete"] = 0))
        /\ report' = [total |-> report'.total, files |-> report'.files,
                      safe |-> report'.safe, noDest |-> report'.noDest]
        /\ report'.noDest = (Sum(n) # 0 /\ n["new"] = 0 /\ n["unverified"] = 0 /\ ~eval.dest)
    <3>1. report' = [total |-> Sum(n), files |-> eval.files,
                     safe |-> Sum(n) = 0 \/ ((n["new"] = 0 /\ n["unverified"] = 0) /\ eval.dest /\ n["incomplete"] = 0),
                     noDest |-> Sum(n) # 0 /\ (n["new"] = 0 /\ n["unverified"] = 0) /\ ~eval.dest]
      BY <1>5 DEF Concluded, Sum
    <3> QED
      BY <3>1
  <2>5. report' \in Report
    <3>1. report'.safe \in BOOLEAN /\ report'.noDest \in BOOLEAN
      BY <2>1, <2>4
    <3> HIDE DEF n
    <3> QED
      BY <2>1, <2>3, <2>4, <3>1 DEF Report
  <2>6. EvalTyped' /\ EvalBounded' /\ EvalKnown'
    BY <1>1, <2>5 DEF EvalTyped, EvalBounded, EvalKnown
  <2>7. SafeMeansPreserved'
    <3>1. SUFFICES ASSUME report'.safe
                   PROVE  /\ Cardinality(eval.files) = Sum(n)
                          /\ "report" \in still' => \A p \in eval.files \cap Present : Proven(p)
      BY <1>1, <2>4, SameWorld DEF SafeMeansPreserved, Proven
    <3>2. "report" \in still' => "eval" \in still
      BY <1>0, <1>1 DEF EvalPart, EvalKnown
    <3>3. Sum(n) = n["archived"]
      <4>0. n["archived"] \in Nat /\ n["new"] \in Nat /\ n["unverified"] \in Nat /\ n["incomplete"] \in Nat
        BY <2>2
      <4>1. n["new"] = 0 /\ n["unverified"] = 0 /\ n["incomplete"] = 0
        <5>1. Sum(n) = 0 \/ (n["new"] = 0 /\ n["unverified"] = 0 /\ n["incomplete"] = 0)
          BY <2>4, <3>1, Zenon
        <5>2. ASSUME Sum(n) = 0 PROVE n["new"] = 0 /\ n["unverified"] = 0 /\ n["incomplete"] = 0
          <6> HIDE DEF n
          <6> QED
            BY <4>0, <5>2, SumZero DEF Sum
        <5> QED
          BY <5>1, <5>2, Zenon
      <4> HIDE DEF n
      <4> QED
        BY <4>0, <4>1 DEF Sum
    <3> QED
      BY <1>0, <1>1, <3>2, <3>3 DEF EvalPart, EvalKnown
  <2> QED
    BY <1>2, <1>3, <2>6, <2>7, PartsAre, PTL DEF EvalPart
<1> QED
  BY <1>1, <1>4, <1>5

LEMMA ReportLapsesStep == ASSUME EInv, ReportLapses PROVE EInv'
<1>0. CatalogTyped /\ MediaTyped /\ RestTyped /\ EvalPart /\ ClearPart /\ CleanupPart
  BY PartsAre
<1>1. /\ UNCHANGED <<catalog, media>> /\ UNCHANGED <<eval, clear, cleanup, verdict, ejecting, runs, changes>>
      /\ report' = None /\ still' = still \ {"report"}
  BY DEF ReportLapses, catalog, media
<1>2. CatalogTyped' /\ MediaTyped' /\ RestTyped'
  BY <1>0, <1>1, SameWorld DEF RestTyped
<1>3. ClearPart' /\ CleanupPart'
  BY <1>0, <1>1, ClearKept, CleanupKept DEF Kept
<1>4. EvalTyped' /\ EvalBounded' /\ SafeMeansPreserved'
  BY <1>0, <1>1 DEF EvalPart, EvalTyped, EvalBounded, SafeMeansPreserved
<1>5. EvalKnown'
  BY <1>0, <1>1, SameWorld DEF EvalPart, EvalKnown
<1> QED
  BY <1>2, <1>3, <1>4, <1>5, PartsAre, PTL DEF EvalPart

------------------------------------------------------------------------------
(* The clear. *)

LEMMA StartClearStep == ASSUME EInv, StartClear PROVE EInv'
<1>0. CatalogTyped /\ MediaTyped /\ RestTyped /\ EvalPart /\ ClearPart /\ CleanupPart
  BY PartsAre
<1>1. /\ UNCHANGED <<catalog, media>>
      /\ UNCHANGED <<eval, report, cleanup, verdict, ejecting, changes>>
      /\ report # None /\ report.safe
      /\ clear' = [left |-> report.files]
      /\ still' = (still \ {"clear"}) \cup {s \in {"clear"} : "report" \in still}
      /\ runs < MaxRuns /\ runs' = runs + 1
  BY DEF StartClear, GateOpen, Begun, catalog, media
<1>2. CatalogTyped' /\ MediaTyped'
  BY <1>0, <1>1, SameWorld
<1>3. RestTyped'
  <2>1. still' \subseteq still \cup {"clear"}
    BY <1>1
  <2>2. MaxRuns \in Nat
    BY SourceAssumption
  <2>3. runs' \in 0..MaxRuns
    BY <1>0, <1>1, <2>2 DEF RestTyped
  <2> QED
    BY <1>0, <1>1, <2>1, <2>3 DEF RestTyped
<1>4. EvalPart' /\ CleanupPart'
  <2>1. \A s \in {"eval", "report", "cleanup", "verdict"} : s \in still' => s \in still
    BY <1>1
  <2> QED
    BY <1>0, <1>1, <2>1, EvalKept, CleanupKept DEF Kept
<1>5. ClearPart'
  <2>1. report.files \subseteq Path
    BY <1>0, <1>1 DEF EvalPart, EvalTyped, Report
  <2>2. ClearTyped'
    BY <1>1, <2>1 DEF ClearTyped, Clear
  <2>3. ClearKnown'
    <3>1. SUFFICES ASSUME "clear" \in still'
                   PROVE  \A p \in report.files \cap Present : Proven(p)
      BY <1>1, SameWorld DEF ClearKnown
    <3>2. "report" \in still
      BY <1>1, <3>1
    <3> QED
      BY <1>0, <1>1, <3>2, ReportMeans DEF EvalPart
  <2> QED
    BY <2>2, <2>3 DEF ClearPart
<1> QED
  BY <1>2, <1>3, <1>4, <1>5, PartsAre, PTL

\* One file goes from the card at the mount point, if it is there; nothing else
\* changes on any card, and it lands in the trash of its own card.
LEMMA ClearMoves ==
    ASSUME MediaTyped, ClearTyped, ClearOne
    PROVE  \E p \in clear.left :
              /\ p \in Path
              /\ clear' = [left |-> clear.left \ {p}]
              /\ At(p)' = None
              /\ \A q \in Path \ {p} : At(q)' = At(q)
              /\ At(p) # None => <<p, At(p)>> \in trash'[mounted]
              /\ MediaTyped'
<1>1. clear # None /\ clear.left \subseteq Path /\ clear = [left |-> clear.left]
  BY DEF ClearOne, ClearTyped, Clear
<1>2. PICK p \in clear.left :
          /\ clear' = [clear EXCEPT !.left = @ \ {p}]
          /\ IF At(p) = None THEN UNCHANGED <<cards, trash>>
             ELSE /\ trash' = [trash EXCEPT ![mounted] = @ \cup {<<p, At(p)>>}]
                  /\ cards' = [cards EXCEPT ![mounted][p] = None]
  BY DEF ClearOne
<1>3. UNCHANGED mounted
  BY DEF ClearOne
<1>4. clear' = [left |-> clear.left \ {p}] /\ p \in Path
  BY <1>1, <1>2
<1>5. CASE At(p) = None
  <2>1. UNCHANGED <<cards, trash>>
    BY <1>2, <1>5
  <2>2. \A q : At(q)' = At(q)
    BY <1>3, <2>1 DEF At
  <2> QED
    BY <1>3, <1>4, <1>5, <2>1, <2>2 DEF MediaTyped
<1>6. CASE At(p) # None
  <2>1. /\ trash' = [trash EXCEPT ![mounted] = @ \cup {<<p, At(p)>>}]
        /\ cards' = [cards EXCEPT ![mounted][p] = None]
    BY <1>2, <1>6
  <2>2. mounted \in Card /\ At(p) \in File /\ mounted # None
    BY <1>4, <1>6, AtTyped DEF At
  <2>3. /\ cards \in [Card -> [Path -> File \cup {None}]]
        /\ trash \in [Card -> SUBSET (Path \X File)]
    BY DEF MediaTyped
  <2>4. cards'[mounted] = [cards[mounted] EXCEPT ![p] = None]
    BY <2>1, <2>2, <2>3
  <2>5. At(p)' = None /\ \A q \in Path \ {p} : At(q)' = At(q)
    BY <1>3, <1>4, <2>2, <2>3, <2>4 DEF At
  <2>6. <<p, At(p)>> \in trash'[mounted]
    BY <2>1, <2>2, <2>3
  <2>7. trash' \in [Card -> SUBSET (Path \X File)]
    BY <1>4, <2>1, <2>2, <2>3
  <2>8. cards' \in [Card -> [Path -> File \cup {None}]]
    BY <1>4, <2>1, <2>2, <2>3
  <2> QED
    BY <1>3, <1>4, <2>5, <2>6, <2>7, <2>8 DEF MediaTyped
<1> QED
  BY <1>5, <1>6

LEMMA ClearOneStep == ASSUME EInv, ClearOne PROVE EInv'
<1>0. CatalogTyped /\ MediaTyped /\ RestTyped /\ EvalPart /\ ClearPart /\ CleanupPart
  BY PartsAre
<1>1. /\ UNCHANGED <<rows, kept, dest>>
      /\ UNCHANGED <<eval, report, cleanup, verdict, ejecting, runs, changes>>
      /\ still' = still \ {"eval", "cleanup", "verdict"}
      /\ clear # None
  BY DEF ClearOne, catalog
<1>2. PICK p \in clear.left :
          /\ p \in Path
          /\ clear' = [left |-> clear.left \ {p}]
          /\ At(p)' = None
          /\ \A q \in Path \ {p} : At(q)' = At(q)
          /\ MediaTyped'
  BY <1>0, ClearMoves DEF ClearPart
<1>3. CatalogTyped' /\ RestTyped'
  BY <1>0, <1>1 DEF CatalogTyped, RestTyped
<1>4. Present' \subseteq Present /\ \A q \in Present' : At(q)' = At(q)
  BY <1>2 DEF Present
<1>5. \A q \in Present' : Proven(q) => Proven(q)'
  <2>1. Live' = Live
    BY <1>1 DEF Live
  <2>2. \A c : Preserved(c) => Preserved(c)'
    BY <1>1, <2>1 DEF Preserved
  <2>3. \A q, f : Lookalike(q, f) => Lookalike(q, f)'
    BY <1>1, <2>1 DEF Lookalike, Fast, Candidates
  <2> QED
    BY <1>4, <2>2, <2>3 DEF Proven
<1>6. EvalPart'
  <2>1. EvalTyped' /\ EvalBounded'
    BY <1>0, <1>1 DEF EvalPart, EvalTyped, EvalBounded
  <2>2. EvalKnown'
    BY <1>0, <1>1 DEF EvalPart, EvalKnown
  <2>3. SafeMeansPreserved'
    <3>1. SUFFICES ASSUME report # None, report.safe, "report" \in still
                   PROVE  \A q \in report.files \cap Present' : Proven(q)'
      BY <1>0, <1>1 DEF EvalPart, SafeMeansPreserved, Proven
    <3> QED
      BY <1>0, <1>4, <1>5, <3>1, ReportMeans DEF EvalPart
  <2> QED
    BY <2>1, <2>2, <2>3 DEF EvalPart
<1>7. ClearPart'
  <2>1. clear.left \subseteq Path
    BY <1>0, <1>1 DEF ClearPart, ClearTyped, Clear
  <2>2. ClearTyped'
    BY <1>2, <2>1 DEF ClearTyped, Clear
  <2>3. ClearKnown'
    BY <1>0, <1>1, <1>2, <1>4, <1>5 DEF ClearPart, ClearKnown
  <2> QED
    BY <2>2, <2>3 DEF ClearPart
<1>8. CleanupPart'
  <2>1. CleanupTyped' /\ CleanupBounded' /\ CleanupSound'
    BY <1>0, <1>1 DEF CleanupPart, CleanupTyped, CleanupBounded, CleanupSound
  <2>2. CleanupKnown'
    BY <1>0, <1>1 DEF CleanupPart, CleanupKnown
  <2> QED
    BY <2>1, <2>2 DEF CleanupPart
<1> QED
  BY <1>2, <1>3, <1>6, <1>7, <1>8, PartsAre, PTL

LEMMA EndClearStep == ASSUME EInv, EndClear PROVE EInv'
<1>0. CatalogTyped /\ MediaTyped /\ RestTyped /\ EvalPart /\ ClearPart /\ CleanupPart
  BY PartsAre
<1>1. /\ UNCHANGED <<catalog, media>>
      /\ UNCHANGED <<eval, report, cleanup, verdict, ejecting, runs, changes>>
      /\ clear' = None /\ still' = still \ {"clear"}
  BY DEF EndClear, catalog, media
<1>2. CatalogTyped' /\ MediaTyped' /\ RestTyped'
  BY <1>0, <1>1, SameWorld DEF RestTyped
<1>3. EvalPart' /\ CleanupPart'
  BY <1>0, <1>1, EvalKept, CleanupKept DEF Kept
<1>4. ClearPart'
  BY <1>1 DEF ClearPart, ClearTyped, ClearKnown
<1> QED
  BY <1>2, <1>3, <1>4, PartsAre, PTL

------------------------------------------------------------------------------
(* The cleanup analysis. *)

LEMMA StartCleanupStep == ASSUME EInv, StartCleanup PROVE EInv'
<1>0. CatalogTyped /\ MediaTyped /\ RestTyped /\ EvalPart /\ ClearPart /\ CleanupPart
  BY PartsAre
<1>1. /\ UNCHANGED <<catalog, media>>
      /\ UNCHANGED <<eval, report, clear, ejecting, changes>>
      /\ cleanup' = [left |-> Path, seen |-> {}, count |-> [k \in Counter |-> 0], missed |-> {}]
      /\ verdict' = None
      /\ still' = (still \ {"verdict"}) \cup {"cleanup"}
      /\ runs < MaxRuns /\ runs' = runs + 1
  BY DEF StartCleanup, Begun, catalog, media
<1>2. CatalogTyped' /\ MediaTyped'
  BY <1>0, <1>1, SameWorld
<1>3. RestTyped'
  <2>1. MaxRuns \in Nat
    BY SourceAssumption
  <2> QED
    BY <1>0, <1>1, <2>1 DEF RestTyped
<1>4. EvalPart' /\ ClearPart'
  BY <1>0, <1>1, EvalKept, ClearKept DEF Kept
<1>5. CleanupPart'
  <2>1. 0 \in Upto
    BY PathsFinite DEF Upto
  <2>2. CleanupTyped'
    BY <1>1, <2>1 DEF CleanupTyped, Cleanup
  <2>3. CleanupBounded'
    BY <1>1, PathsFinite DEF CleanupBounded
  <2>4. CleanupKnown'
    BY <1>1 DEF CleanupKnown, Counter, Present
  <2>5. CleanupSound'
    BY <1>1 DEF CleanupSound
  <2> QED
    BY <2>2, <2>3, <2>4, <2>5 DEF CleanupPart
<1> QED
  BY <1>2, <1>3, <1>4, <1>5, PartsAre, PTL

\* One path less to meet; the file there, if any, is counted.
LEMMA CleanupMeets ==
    ASSUME CleanupTyped, CleanupOne
    PROVE  /\ cleanup # None
           /\ \E p \in cleanup.left :
                /\ cleanup'.left = cleanup.left \ {p}
                /\ cleanup' = [left |-> cleanup'.left, seen |-> cleanup'.seen, count |-> cleanup'.count,
                               missed |-> cleanup'.missed]
                /\ \/ /\ cleanup'.count = cleanup.count /\ cleanup'.seen = cleanup.seen
                      /\ cleanup'.missed = cleanup.missed \cup ({p} \cap Present)
                   \/ /\ At(p) # None
                      /\ cleanup'.seen \subseteq cleanup.seen \cup {At(p).content}
                      /\ cleanup'.missed = cleanup.missed
                      /\ \E ks \in Counted(At(p).content) :
                            cleanup'.count = [k \in Counter |-> cleanup.count[k] + (IF k \in ks \cup {"media"} THEN 1 ELSE 0)]
<1>1. cleanup # None
  BY DEF CleanupOne
<1>2. cleanup = [left |-> cleanup.left, seen |-> cleanup.seen, count |-> cleanup.count,
                 missed |-> cleanup.missed]
  BY <1>1, CleanupParts
<1>3. PICK p \in cleanup.left :
          \/ cleanup' = [cleanup EXCEPT !.left = @ \ {p}, !.missed = @ \cup ({p} \cap Present)]
          \/ /\ At(p) # None
             /\ \E ks \in Counted(At(p).content) :
                  cleanup' = [cleanup EXCEPT
                     !.left = @ \ {p},
                     !.seen = IF ks = {"unreadable"} THEN @ ELSE @ \cup {At(p).content},
                     !.count = [k \in Counter |-> @[k] + (IF k \in ks \cup {"media"} THEN 1 ELSE 0)]]
  BY DEF CleanupOne
<1> DEFINE Same   == /\ cleanup'.left = cleanup.left \ {p}
                     /\ cleanup' = [left |-> cleanup'.left, seen |-> cleanup'.seen, count |-> cleanup'.count,
                                    missed |-> cleanup'.missed]
           Passed == /\ cleanup'.count = cleanup.count /\ cleanup'.seen = cleanup.seen
                     /\ cleanup'.missed = cleanup.missed \cup ({p} \cap Present)
           Counts(ks) == cleanup'.count =
               [k \in Counter |-> cleanup.count[k] + (IF k \in ks \cup {"media"} THEN 1 ELSE 0)]
           Met(ks) == /\ cleanup'.seen \subseteq cleanup.seen \cup {At(p).content}
                      /\ cleanup'.missed = cleanup.missed
                      /\ Counts(ks)
<1>4. ASSUME cleanup' = [cleanup EXCEPT !.left = @ \ {p}, !.missed = @ \cup ({p} \cap Present)]
      PROVE  Same /\ Passed
  <2>1. cleanup' = [left |-> cleanup.left \ {p}, seen |-> cleanup.seen, count |-> cleanup.count,
                    missed |-> cleanup.missed \cup ({p} \cap Present)]
    BY <1>2, <1>4
  <2> QED
    BY <2>1
<1>5. ASSUME NEW ks \in Counted(At(p).content),
             cleanup' = [cleanup EXCEPT
                     !.left = @ \ {p},
                     !.seen = IF ks = {"unreadable"} THEN @ ELSE @ \cup {At(p).content},
                     !.count = [k \in Counter |-> @[k] + (IF k \in ks \cup {"media"} THEN 1 ELSE 0)]]
      PROVE  Same /\ Met(ks)
  <2> DEFINE count == [k \in Counter |-> cleanup.count[k] + (IF k \in ks \cup {"media"} THEN 1 ELSE 0)]
             seen  == IF ks = {"unreadable"} THEN cleanup.seen ELSE cleanup.seen \cup {At(p).content}
  <2>1. cleanup' = [left |-> cleanup.left \ {p}, seen |-> seen, count |-> count, missed |-> cleanup.missed]
    BY <1>2, <1>5
  <2>2. seen \subseteq cleanup.seen \cup {At(p).content}
    OBVIOUS
  <2> QED
    BY <2>1, <2>2
<1>6. Same /\ (Passed \/ (At(p) # None /\ \E ks \in Counted(At(p).content) : Met(ks)))
  <2> HIDE DEF Same, Passed, Met
  <2> QED
    BY <1>3, <1>4, <1>5
<1> QED
  BY <1>1, <1>6

LEMMA CleanupOneStep == ASSUME EInv, CleanupOne PROVE EInv'
<1>0. CatalogTyped /\ MediaTyped /\ RestTyped /\ EvalPart /\ ClearPart /\ CleanupPart
  BY PartsAre
<1>1. /\ UNCHANGED <<catalog, media>>
      /\ UNCHANGED <<eval, report, clear, verdict, ejecting, still, runs, changes>>
  BY DEF CleanupOne, catalog, media
<1>2. CatalogTyped' /\ MediaTyped' /\ RestTyped'
  BY <1>0, <1>1, SameWorld DEF RestTyped
<1>3. EvalPart' /\ ClearPart'
  BY <1>0, <1>1, EvalKept, ClearKept DEF Kept
<1>4. cleanup # None /\ cleanup.left \subseteq Path /\ cleanup.seen \subseteq Content
      /\ cleanup.count \in [Counter -> Upto] /\ cleanup.missed \subseteq Path
  BY <1>0, CleanupParts DEF CleanupPart, CleanupOne
<1>5. PICK p \in cleanup.left :
          /\ cleanup'.left = cleanup.left \ {p}
          /\ cleanup' = [left |-> cleanup'.left, seen |-> cleanup'.seen, count |-> cleanup'.count,
                         missed |-> cleanup'.missed]
          /\ \/ /\ cleanup'.count = cleanup.count /\ cleanup'.seen = cleanup.seen
                /\ cleanup'.missed = cleanup.missed \cup ({p} \cap Present)
             \/ /\ At(p) # None
                /\ cleanup'.seen \subseteq cleanup.seen \cup {At(p).content}
                /\ cleanup'.missed = cleanup.missed
                /\ \E ks \in Counted(At(p).content) :
                      cleanup'.count = [k \in Counter |-> cleanup.count[k] + (IF k \in ks \cup {"media"} THEN 1 ELSE 0)]
  BY <1>0, CleanupMeets DEF CleanupPart
<1>6. PICK ks \in SUBSET Counter :
          /\ "dupSafe" \in ks => "duplicate" \in ks
          /\ \A k \in Counter : cleanup'.count[k] = cleanup.count[k] + (IF k \in ks THEN 1 ELSE 0)
          /\ cleanup'.count \in [Counter -> Nat]
          /\ p \in Present \ cleanup'.missed =>
                             \/ ks \cap Blocker # {}
                             \/ "duplicate" \in ks /\ "dupSafe" \notin ks
                             \/ InArchive(p)
  <2>0. \A k \in Counter : cleanup.count[k] \in Nat
    BY <1>4, PathsFinite DEF Upto
  <2>1. CASE cleanup'.count = cleanup.count /\ cleanup'.missed = cleanup.missed \cup ({p} \cap Present)
    <3>1. cleanup'.count = cleanup.count
      BY <2>1
    <3>2. cleanup.count \in [Counter -> Nat]
      BY <1>4, <2>0
    <3>3. \A k \in Counter : cleanup'.count[k] = cleanup.count[k] + (IF k \in {} THEN 1 ELSE 0)
      BY <2>0, <3>1
    <3> WITNESS {} \in SUBSET Counter
    <3> QED
      BY <2>1, <3>1, <3>2, <3>3
  <2>2. CASE /\ At(p) # None
             /\ \E ks \in Counted(At(p).content) :
                   cleanup'.count = [k \in Counter |-> cleanup.count[k] + (IF k \in ks \cup {"media"} THEN 1 ELSE 0)]
    <3>1. PICK ks \in Counted(At(p).content) :
              cleanup'.count = [k \in Counter |-> cleanup.count[k] + (IF k \in ks \cup {"media"} THEN 1 ELSE 0)]
      BY <2>2
    <3>2. ks \subseteq Counter /\ ("dupSafe" \in ks => "duplicate" \in ks)
      BY CountedTyped
    <3>3. \/ ks \cap Blocker # {}
          \/ "duplicate" \in ks /\ "dupSafe" \notin ks
          \/ InArchive(p)
      BY <1>4, <2>2, CountedInArchive
    <3> DEFINE all == ks \cup {"media"}
    <3>4. /\ all \in SUBSET Counter /\ ("dupSafe" \in all => "duplicate" \in all)
          /\ \/ all \cap Blocker # {}
             \/ "duplicate" \in all /\ "dupSafe" \notin all
             \/ InArchive(p)
      BY <3>2, <3>3 DEF Counter, Blocker
    <3>5. cleanup'.count \in [Counter -> Nat]
      BY <2>0, <3>1
    <3>6. \A k \in Counter : cleanup'.count[k] = cleanup.count[k] + (IF k \in all THEN 1 ELSE 0)
      BY <3>1
    <3> QED
      BY <3>4, <3>5, <3>6
  <2> QED
    BY <1>5, <2>1, <2>2
<1>7. /\ Cardinality(cleanup.left \ {p}) = Cardinality(cleanup.left) - 1
      /\ Cardinality(cleanup.left) \in Nat /\ Cardinality(cleanup.left \ {p}) \in Nat
  BY <1>4, OneLess
<1>8. \A k \in Counter : cleanup.count[k] \in Nat /\ cleanup'.count[k] \in Nat
  BY <1>4, <1>6, PathsFinite DEF Upto
<1>9. CleanupBounded'
  <2> SUFFICES ASSUME NEW k \in Counter
               PROVE  cleanup'.count[k] + Cardinality(cleanup.left \ {p}) <= Cardinality(Path)
    BY <1>5 DEF CleanupBounded
  <2>1. cleanup.count[k] + Cardinality(cleanup.left) <= Cardinality(Path)
    BY <1>0, <1>4 DEF CleanupPart, CleanupBounded
  <2>2. cleanup'.count[k] <= cleanup.count[k] + 1
    BY <1>6, <1>8
  <2> QED
    BY <1>7, <1>8, <2>1, <2>2, PathsFinite
<1>10. CleanupTyped'
  <2>1. \A k \in Counter : cleanup'.count[k] \in Upto
    <3> TAKE k \in Counter
    <3>1. cleanup.count[k] + Cardinality(cleanup.left) <= Cardinality(Path)
      BY <1>0, <1>4 DEF CleanupPart, CleanupBounded
    <3>2. cleanup'.count[k] <= cleanup.count[k] + 1
      BY <1>6, <1>8
    <3>3. cleanup'.count[k] <= Cardinality(Path)
      BY <1>7, <1>8, <3>1, <3>2, PathsFinite
    <3> QED
      BY <1>8, <3>3, PathsFinite DEF Upto
  <2>2. cleanup'.count \in [Counter -> Upto]
    BY <1>6, <2>1
  <2>3. cleanup'.seen \subseteq Content
    <3>1. At(p) # None => At(p).content \in Content
      BY <1>0, <1>4, AtTyped DEF File
    <3> QED
      BY <1>4, <1>5, <3>1
  <2>3a. cleanup'.missed \subseteq Path
    BY <1>4, <1>5
  <2>4. cleanup' \in Cleanup
    BY <1>4, <1>5, <2>2, <2>3, <2>3a DEF Cleanup
  <2> QED
    BY <1>0, <1>1, <2>4 DEF CleanupPart, CleanupTyped
<1>11. CleanupKnown'
  <2>0. {"duplicate", "dupSafe"} \cup Blocker \subseteq Counter
    BY DEF Counter, Blocker
  <2>1. /\ cleanup.count["dupSafe"] <= cleanup.count["duplicate"]
        /\ "cleanup" \in still =>
              \A q \in Present \ cleanup.missed :
                  q \in cleanup.left \/ InArchive(q) \/ Blocked(cleanup.count)
    BY <1>0, <1>4 DEF CleanupPart, CleanupKnown
  <2>1a. "verdict" \notin still
    BY <1>0, <1>4 DEF CleanupPart, CleanupKnown
  <2>2. cleanup'.count["dupSafe"] <= cleanup'.count["duplicate"]
    BY <1>6, <1>8, <2>0, <2>1
  <2>3. Blocked(cleanup.count) => Blocked(cleanup'.count)
    BY <1>6, <1>8, <2>0 DEF Blocked
  <2>4. ks \cap Blocker # {} => Blocked(cleanup'.count)
    BY <1>6, <1>8, <2>0 DEF Blocked
  <2>5. "duplicate" \in ks /\ "dupSafe" \notin ks => Blocked(cleanup'.count)
    BY <1>6, <1>8, <2>0, <2>1 DEF Blocked
  <2>6. p \in Present \ cleanup'.missed => InArchive(p) \/ Blocked(cleanup'.count)
    BY <1>6, <2>4, <2>5
  <2>6a. cleanup.missed \subseteq cleanup'.missed
    BY <1>5
  <2>7. "cleanup" \in still =>
            \A q \in Present \ cleanup'.missed : q \in cleanup.left \ {p} \/ InArchive(q) \/ Blocked(cleanup'.count)
    BY <2>1, <2>3, <2>6, <2>6a
  <2>8. /\ Blocked(cleanup.count)' <=> Blocked(cleanup'.count)
        /\ \A q : InArchive(q)' <=> InArchive(q)
        /\ Present' = Present
    BY <1>1, SameWorld DEF Blocked
  <2> QED
    BY <1>1, <1>5, <2>1a, <2>2, <2>7, <2>8 DEF CleanupKnown
<1>12. CleanupSound'
  BY <1>0, <1>1, SameWorld, VerdictMeans DEF CleanupPart, CleanupSound, InArchive
<1> QED
  BY <1>2, <1>3, <1>9, <1>10, <1>11, <1>12, PartsAre, PTL DEF CleanupPart

LEMMA EndCleanupStep == ASSUME EInv, EndCleanup PROVE EInv'
<1>0. CatalogTyped /\ MediaTyped /\ RestTyped /\ EvalPart /\ ClearPart /\ CleanupPart
  BY PartsAre
<1>1. /\ UNCHANGED <<catalog, media>>
      /\ UNCHANGED <<eval, report, clear, ejecting, runs, changes>>
      /\ cleanup # None /\ cleanup' = None
      /\ \/ verdict' = None
         \/ cleanup.left = {} /\ verdict' = [safe |-> SafeToDelete(cleanup.count), missed |-> cleanup.missed]
      /\ still' = (still \ {"cleanup"}) \cup {s \in {"verdict"} : "cleanup" \in still}
  BY DEF EndCleanup, catalog, media
<1>2. CatalogTyped' /\ MediaTyped' /\ RestTyped'
  <2>1. still' \subseteq still \cup {"verdict"}
    BY <1>1
  <2> QED
    BY <1>0, <1>1, <2>1, SameWorld DEF RestTyped
<1>3. EvalPart' /\ ClearPart'
  <2>1. \A s \in {"eval", "report", "clear"} : s \in still' => s \in still
    BY <1>1
  <2> QED
    BY <1>0, <1>1, <2>1, EvalKept, ClearKept DEF Kept
<1>4. CleanupTyped' /\ CleanupBounded' /\ CleanupKnown'
  <2>1. SafeToDelete(cleanup.count) \in BOOLEAN
    BY DEF SafeToDelete
  <2>2. cleanup.missed \subseteq Path
    BY <1>0, <1>1, CleanupParts DEF CleanupPart
  <2> QED
    BY <1>0, <1>1, <2>1, <2>2 DEF CleanupPart, CleanupTyped, CleanupBounded, CleanupKnown, Verdict
<1>5. CleanupSound'
  <2>1. SUFFICES ASSUME verdict' # None, verdict'.safe, "verdict" \in still'
                 PROVE  \A p \in Present \ cleanup.missed : InArchive(p)
    BY <1>1, SameWorld DEF CleanupSound
  <2>2. cleanup.left = {} /\ SafeToDelete(cleanup.count)
    BY <1>1, <2>1
  <2>3. "cleanup" \in still
    BY <1>0, <1>1, <2>1 DEF CleanupPart, CleanupKnown
  <2>4. \A p \in Present \ cleanup.missed : InArchive(p) \/ Blocked(cleanup.count)
    BY <1>0, <1>1, <2>2, <2>3 DEF CleanupPart, CleanupKnown
  <2>5. ~Blocked(cleanup.count)
    <3>1. cleanup.count \in [Counter -> Upto]
      BY <1>0, <1>1, CleanupParts DEF CleanupPart
    <3>2. \A k \in Counter : cleanup.count[k] \in Nat
      BY <3>1, PathsFinite DEF Upto
    <3>3. Blocker \subseteq Counter /\ {"duplicate", "dupSafe"} \subseteq Counter
      BY DEF Blocker, Counter
    <3>4. \A k \in Blocker : cleanup.count[k] = 0
      BY <2>2 DEF SafeToDelete, Blocker
    <3>5. cleanup.count["duplicate"] = cleanup.count["dupSafe"]
      BY <2>2 DEF SafeToDelete
    <3> QED
      BY <3>2, <3>3, <3>4, <3>5 DEF Blocked
  <2> QED
    BY <2>4, <2>5
<1> QED
  BY <1>2, <1>3, <1>4, <1>5, PartsAre, PTL DEF CleanupPart

------------------------------------------------------------------------------
(* Ejecting, and what else changes. *)

\* A change overtakes every check and every result.
LEMMA Overtaken ==
    ASSUME EvalPart, ClearPart, CleanupPart,
           UNCHANGED <<eval, report, clear, cleanup, verdict>>, still' = {}
    PROVE  EvalPart' /\ ClearPart' /\ CleanupPart'
  BY EvalKept, ClearKept, CleanupKept DEF Kept

LEMMA EjectBeginStep == ASSUME EInv, EjectBegin PROVE EInv'
<1>0. CatalogTyped /\ MediaTyped /\ RestTyped /\ EvalPart /\ ClearPart /\ CleanupPart
  BY PartsAre
<1>1. /\ UNCHANGED <<catalog, media>>
      /\ UNCHANGED <<eval, report, clear, cleanup, verdict, still, runs, changes>>
      /\ ejecting' = TRUE
  BY DEF EjectBegin, catalog, media
<1>2. CatalogTyped' /\ MediaTyped' /\ RestTyped'
  BY <1>0, <1>1, SameWorld DEF RestTyped
<1>3. EvalPart' /\ ClearPart' /\ CleanupPart'
  BY <1>0, <1>1, EvalKept, ClearKept, CleanupKept DEF Kept
<1> QED
  BY <1>2, <1>3, PartsAre, PTL

LEMMA EjectEndStep == ASSUME EInv, EjectEnd PROVE EInv'
<1>0. CatalogTyped /\ MediaTyped /\ RestTyped /\ EvalPart /\ ClearPart /\ CleanupPart
  BY PartsAre
<1>1. /\ UNCHANGED <<catalog, cards, trash, eval, report, clear, cleanup, verdict, runs>>
      /\ ejecting' = FALSE
      /\ \/ mounted' = None /\ Change
         \/ UNCHANGED <<mounted, still, changes>>
  BY DEF EjectEnd
<1>2. CatalogTyped'
  BY <1>0, <1>1 DEF CatalogTyped, catalog
<1>3. MediaTyped'
  BY <1>0, <1>1 DEF MediaTyped
<1>4. RestTyped'
  <2>1. MaxChanges \in Nat
    BY SourceAssumption
  <2>2. changes' \in 0..MaxChanges
    BY <1>0, <1>1, <2>1 DEF RestTyped, Change
  <2>3. still' \subseteq still
    BY <1>1 DEF Change
  <2> QED
    BY <1>0, <1>1, <2>2, <2>3 DEF RestTyped
<1>5. CASE mounted' = None /\ Change
  <2>1. EvalPart' /\ ClearPart' /\ CleanupPart'
    BY <1>0, <1>1, <1>5, Overtaken DEF Change
  <2> QED
    BY <1>2, <1>3, <1>4, <2>1, PartsAre, PTL
<1>6. CASE UNCHANGED <<mounted, still, changes>>
  <2>1. UNCHANGED <<catalog, media>>
    BY <1>1, <1>6 DEF media
  <2>2. EvalPart' /\ ClearPart' /\ CleanupPart'
    BY <1>0, <1>1, <1>6, <2>1, EvalKept, ClearKept, CleanupKept DEF Kept
  <2> QED
    BY <1>2, <1>3, <1>4, <2>2, PartsAre, PTL
<1> QED
  BY <1>1, <1>5, <1>6

\* A change keeps the types that do not depend on what it changes.
LEMMA ChangeRest ==
    ASSUME EInv, Change, UNCHANGED <<checks, runs>>
    PROVE  RestTyped' /\ EvalPart' /\ ClearPart' /\ CleanupPart'
<1>0. RestTyped /\ EvalPart /\ ClearPart /\ CleanupPart
  BY PartsAre
<1>1. /\ UNCHANGED <<eval, report, clear, cleanup, verdict, ejecting, runs>>
      /\ still' = {} /\ changes < MaxChanges /\ changes' = changes + 1
  BY DEF Change, checks
<1>2. MaxChanges \in Nat
  BY SourceAssumption
<1>3. RestTyped'
  BY <1>0, <1>1, <1>2 DEF RestTyped
<1> QED
  BY <1>0, <1>1, <1>3, Overtaken

LEMMA SwapCardStep == ASSUME EInv, SwapCard PROVE EInv'
<1>0. CatalogTyped /\ MediaTyped
  BY PartsAre
<1>1. Change /\ UNCHANGED <<catalog, cards, trash, checks, runs>> /\ mounted' \in Card \cup {None}
  BY DEF SwapCard
<1>2. CatalogTyped' /\ MediaTyped'
  BY <1>0, <1>1 DEF CatalogTyped, MediaTyped, catalog
<1>3. RestTyped' /\ EvalPart' /\ ClearPart' /\ CleanupPart'
  BY <1>1, ChangeRest
<1> QED
  BY <1>2, <1>3, PartsAre, PTL

LEMMA NewFileStep == ASSUME EInv, NewFile PROVE EInv'
<1>0. CatalogTyped /\ MediaTyped
  BY PartsAre
<1>1. Change /\ UNCHANGED <<catalog, trash, mounted, checks, runs>> /\ mounted # None
  BY DEF NewFile
<1>3. PICK p \in Path, f \in Files : cards' = [cards EXCEPT ![mounted][p] = f]
  BY DEF NewFile
<1>4. f \in File
  BY SourceAssumption DEF Files
<1>5. CatalogTyped' /\ MediaTyped'
  <2>1. CatalogTyped' /\ trash' = trash /\ mounted' = mounted
    BY <1>0, <1>1 DEF CatalogTyped, catalog
  <2>2. mounted \in Card /\ cards \in [Card -> [Path -> File \cup {None}]]
    BY <1>0, <1>1 DEF MediaTyped
  <2>3. cards' \in [Card -> [Path -> File \cup {None}]]
    BY <1>3, <1>4, <2>2
  <2> QED
    BY <1>0, <2>1, <2>3 DEF MediaTyped
<1>6. RestTyped' /\ EvalPart' /\ ClearPart' /\ CleanupPart'
  BY <1>1, ChangeRest
<1> QED
  BY <1>5, <1>6, PartsAre, PTL

LEMMA CatalogChangesStep == ASSUME EInv, CatalogChanges PROVE EInv'
<1>0. CatalogTyped /\ MediaTyped
  BY PartsAre
<1>1. Change /\ UNCHANGED <<media, checks, runs>>
  BY DEF CatalogChanges
<1>2. CatalogTyped'
  <2>0. Live \subseteq Asset
    BY DEF Live
  <2>1. CASE \E a \in Asset : rows' = [rows EXCEPT ![a].green = ~@] /\ UNCHANGED <<kept, dest>>
    <3>1. PICK a \in Asset : rows' = [rows EXCEPT ![a].green = ~@] /\ UNCHANGED <<kept, dest>>
      BY <2>1
    <3>2. rows \in [Asset -> Row] /\ [rows[a] EXCEPT !.green = ~@] \in Row
      BY <1>0 DEF CatalogTyped, Row
    <3>3. rows' \in [Asset -> Row]
      BY <3>1, <3>2
    <3> QED
      BY <1>0, <3>1, <3>3 DEF CatalogTyped
  <2>2. CASE dest' = ~dest /\ UNCHANGED <<rows, kept>>
    BY <1>0, <2>2 DEF CatalogTyped
  <2>3. CASE \E a \in Live : rows' = [rows EXCEPT ![a].live = FALSE] /\ kept' = kept \ {a} /\ UNCHANGED dest
    <3>1. PICK a \in Live : rows' = [rows EXCEPT ![a].live = FALSE] /\ kept' = kept \ {a} /\ UNCHANGED dest
      BY <2>3
    <3>2. rows \in [Asset -> Row] /\ [rows[a] EXCEPT !.live = FALSE] \in Row
      BY <1>0, <2>0 DEF CatalogTyped, Row
    <3>3. rows' \in [Asset -> Row]
      BY <2>0, <3>1, <3>2
    <3> QED
      BY <1>0, <3>1, <3>3 DEF CatalogTyped
  <2>4. CASE \E a \in kept : kept' = kept \ {a} /\ UNCHANGED <<rows, dest>>
    BY <1>0, <2>4 DEF CatalogTyped
  <2> QED
    BY <2>1, <2>2, <2>3, <2>4 DEF CatalogChanges
<1>3. MediaTyped'
  BY <1>0, <1>1 DEF MediaTyped, media
<1>4. RestTyped' /\ EvalPart' /\ ClearPart' /\ CleanupPart'
  BY <1>1, ChangeRest
<1> QED
  BY <1>2, <1>3, <1>4, PartsAre, PTL

------------------------------------------------------------------------------
(* The theorems. *)

LEMMA NextEInv == ASSUME EInv, [Next]_vars PROVE EInv'
<1>1. CASE UNCHANGED vars
  <2>1. UNCHANGED <<catalog, media>>
        /\ UNCHANGED <<eval, report, clear, cleanup, verdict, ejecting, still, runs, changes>>
    BY <1>1 DEF vars, catalog, media
  <2>2. CatalogTyped /\ MediaTyped /\ RestTyped /\ EvalPart /\ ClearPart /\ CleanupPart
    BY PartsAre
  <2>3. CatalogTyped' /\ MediaTyped' /\ RestTyped'
    BY <2>1, <2>2, SameWorld DEF RestTyped
  <2>4. EvalPart' /\ ClearPart' /\ CleanupPart'
    BY <2>1, <2>2, EvalKept, ClearKept, CleanupKept DEF Kept
  <2> QED
    BY <2>3, <2>4, PartsAre, PTL
<1>2. CASE Next
  BY <1>2, StartEvalStep, JudgeOneStep, EndEvalStep, ReportLapsesStep, StartClearStep, ClearOneStep,
     EndClearStep, StartCleanupStep, CleanupOneStep, EndCleanupStep, EjectBeginStep, EjectEndStep,
     SwapCardStep, NewFileStep, CatalogChangesStep DEF Next
<1> QED
  BY <1>1, <1>2

LEMMA EraseInductive == Spec => []EInv
<1>1. Init => EInv
  BY InitEInv
<1>2. EInv /\ [Next]_vars => EInv'
  BY NextEInv
<1> QED
  BY <1>1, <1>2, PTL DEF Spec

(* Types, and what "safe to erase" is worth: a report that says safe names   *)
(* every media file its walk listed, and each of them, while no change has   *)
(* overtaken the report, has a live, verified, fully backed-up asset or one  *)
(* it cannot be told from by size and time or by its quick hash.  Of what    *)
(* the walk could not read it says nothing (source/safeerase.go).            *)
THEOREM EraseInvCorrect == Spec => []EraseInv
<1>1. EInv => EraseInv
  BY DEF EInv, CountInv, KnowInv, EraseInv
<1> QED
  BY <1>1, EraseInductive, PTL

(* A folder the cleanup assistant recommends to delete, with nothing changed *)
(* since the analysis began, holds, where the walk could read it, only       *)
(* contents that are on disk in the archive under a verified, backed-up row  *)
(* that is no duplicate (cleanup/analyzer.go, recommendation.go).            *)
THEOREM CleanupSoundCorrect == Spec => []CleanupSound
<1>1. EInv => CleanupSound
  BY DEF EInv, KnowInv
<1> QED
  BY <1>1, EraseInductive, PTL

(* A clear moves each file to the trash of the card it was on, whatever has  *)
(* happened to card and catalog; and while nothing has overtaken the report  *)
(* it goes by, only files whose content is preserved elsewhere, or           *)
(* lookalikes (services/sourceclear.go).                                     *)
THEOREM ClearedIsPreservedCorrect == Spec => ClearedIsPreserved
<1> DEFINE Step ==
       \A p \in Path :
          clear' # clear /\ At(p) # None /\ At(p)' = None =>
              /\ <<p, At(p)>> \in trash'[mounted]
              /\ "clear" \in still => Preserved(At(p).content) \/ Lookalike(p, At(p))
<1>1. ASSUME EInv, [Next]_vars PROVE [Step]_vars
  <2>0. MediaTyped /\ ClearPart
    BY <1>1, PartsAre
  <2> SUFFICES ASSUME NEW p \in Path, clear' # clear, At(p) # None, At(p)' = None
               PROVE  /\ <<p, At(p)>> \in trash'[mounted]
                      /\ "clear" \in still => Proven(p)
    BY DEF Proven
  <2>1. ~UNCHANGED media
    BY DEF media, At
  <2>2. ClearOne
    <3>1. ~UNCHANGED vars
      BY DEF vars
    <3>2. Next
      BY <1>1, <3>1
    <3>3. ASSUME SwapCard \/ NewFile \/ CatalogChanges PROVE FALSE
      BY <3>3 DEF SwapCard, NewFile, CatalogChanges, checks
    <3> QED
      BY <2>1, <3>2, <3>3 DEF Next, StartEval, JudgeOne, EndEval, ReportLapses, StartClear, EndClear,
         StartCleanup, CleanupOne, EndCleanup, EjectBegin, EjectEnd
  <2>3. PICK q \in clear.left :
          /\ q \in Path
          /\ At(q)' = None
          /\ \A r \in Path \ {q} : At(r)' = At(r)
          /\ At(q) # None => <<q, At(q)>> \in trash'[mounted]
    BY <2>0, <2>2, ClearMoves DEF ClearPart
  <2>4. p = q
    BY <2>3
  <2>5. clear # None
    BY <2>2 DEF ClearOne
  <2> QED
    BY <2>0, <2>3, <2>4, <2>5 DEF ClearPart, ClearKnown, Present
<1> QED
  BY <1>1, EraseInductive, PTL DEF Spec, ClearedIsPreserved

==============================================================================
