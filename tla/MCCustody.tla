------------------------------ MODULE MCCustody ------------------------------
(* Small instances of Custody: an original, its duplicate and another asset. *)
EXTENDS Custody, TLC

CONSTANTS a1, a2, a3, c1, c2, day1, day2, disk2, n1, n2

Contents == a1 :> c1 @@ a2 :> c1 @@ a3 :> c2
Homes    == [a \in Asset |-> day1]
Names    == Permutations({n1, n2})
==============================================================================
