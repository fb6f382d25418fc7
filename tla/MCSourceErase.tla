---------------------------- MODULE MCSourceErase ----------------------------
(* Small instances of SourceErase: an original with its duplicate, another  *)
(* asset, and a content that is not archived and looks like one that is.    *)
EXTENDS SourceErase, TLC

CONSTANTS a1, a2, a3, c1, c2, c3, p1, p2, card1, card2

Contents == a1 :> c1 @@ a2 :> c1 @@ a3 :> c2
Origins  == a1 :> p1 @@ a2 :> p2 @@ a3 :> p2
Quicks   == c1 :> 1 @@ c2 :> 2 @@ c3 :> 1
Sizes    == c1 :> 1 @@ c2 :> 1 @@ c3 :> 1

Cards == Permutations(Card)

(* The original as imported, waiting for its backup, or failed; its         *)
(* duplicate with a copy of its own, or recorded only.                      *)
Original(v, g) == [live |-> TRUE, verified |-> v, green |-> g, dup |-> FALSE, archived |-> TRUE, full |-> TRUE]
SomeCatalogs ==
    {a1 :> Original(o[1], o[2]) @@
     a2 :> [Original("verified", o[3]) EXCEPT !.dup = TRUE, !.archived = o[3]] @@
     a3 :> [Original("verified", TRUE) EXCEPT !.full = FALSE] :
        o \in {<<"verified", TRUE, TRUE>>, <<"verified", TRUE, FALSE>>,
               <<"verified", FALSE, FALSE>>, <<"failed", TRUE, TRUE>>}}

Old(c) == [content |-> c, new |-> FALSE]
New(c) == [content |-> c, new |-> TRUE]
SomeHoldings == {p1 :> New(c1) @@ p2 :> Old(c1), p1 :> Old(c2) @@ p2 :> New(c3)}
==============================================================================
