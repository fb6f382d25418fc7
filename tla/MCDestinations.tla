---------------------------- MODULE MCDestinations ----------------------------
(* Small instances of Destinations. *)
EXTENDS Destinations, TLC

CONSTANTS a1, a2, x1, x2, x3, w1, w2, disk1, drive, gp1, p1

FirstHome == a1 :> x1 @@ a2 :> x2

(* A folder, a drive with checksums, a mirror over a pool of two; a folder  *)
(* in a pool and a pool that is no mirror are refused.                      *)
SomeConfigs ==
    {[remotes |-> <<disk1>>, mirror |-> FALSE],
     [remotes |-> <<drive, drive>>, mirror |-> FALSE],
     [remotes |-> <<drive, gp1>>, mirror |-> TRUE],
     [remotes |-> <<drive, gp1>>, mirror |-> FALSE]}

Workers == Permutations(Worker)
=============================================================================
