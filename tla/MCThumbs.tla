------------------------------- MODULE MCThumbs -------------------------------
(* Small instances of Thumbs. *)
EXTENDS Thumbs, TLC

CONSTANTS t1, t2, t3, w1, w2, k1, k2, library, local
=============================================================================
