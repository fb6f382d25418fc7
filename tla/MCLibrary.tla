------------------------------ MODULE MCLibrary ------------------------------
(* Small instances of CatalogSnapshot, and through it of Library. *)
EXTENDS CatalogSnapshot, TLC

CONSTANTS p1, p2, mac

(* One PAIM on each Mac. *)
OwnMac == [p \in Proc |-> p]

(* Two PAIMs on one Mac. *)
OneMac == [p \in Proc |-> mac]

Symmetry == Permutations(Proc)
==============================================================================
