--------------------------- MODULE MCImportPipeline ---------------------------
(***************************************************************************)
(* Instances of ImportPipeline for TLC.  Twins: two files of one content;  *)
(* Alike: two contents of one quick hash.                                  *)
(***************************************************************************)
EXTENDS ImportPipeline, TLC

CONSTANTS p1, p2, c1, c2, h1

Alike == c1 :> h1 @@ c2 :> h1

Different == c1 :> c1 @@ c2 :> c2

OneFile == p1 :> c1

TwoFiles == p1 :> c1 @@ p2 :> c2

Twins == p1 :> c1 @@ p2 :> c1

APair == p1 :> p2 @@ p2 :> p1

NoPair == [p \in Path |-> None]

Copy == {[mode |-> "copy", reorganize |-> FALSE]}

Adopt == [mode : {"adopt"}, reorganize : BOOLEAN]

CopyThenMove == Copy \cup {[mode |-> "adopt", reorganize |-> TRUE]}

Symmetry == Permutations(Slot) \cup Permutations(Row) \cup Permutations(Failure)
=============================================================================
