---------------------------- MODULE MCBackupQueue ----------------------------
(* Instances of BackupQueue small enough for TLC. *)
EXTENDS BackupQueue, TLC

CONSTANTS a1, p1, p2, w1, w2, j1, j2, j3

Photo   == "photo"
Video   == "video"
KindsOf == [a \in Asset |-> Photo]

Saved(enabled, mirror, scope) ==
    [enabled |-> enabled, mirror |-> mirror, scope |-> scope, target |-> "vault"]

Required1 == Saved(TRUE, FALSE, {Photo, Video})
Mirror1   == Saved(TRUE, TRUE, {Photo, Video})
Disabled1 == Saved(FALSE, FALSE, {Photo, Video})
Narrow1   == Saved(TRUE, FALSE, {Video})

SomeConfigs == {Required1, Mirror1, Disabled1, Narrow1}
AllRequired == [p \in Provider |-> Required1]
OneMirror   == [p \in Provider |-> IF p = p1 THEN Required1 ELSE Mirror1]
NoneUnfit   == {}

Symmetric == Permutations(Worker) \cup Permutations(Job)
=============================================================================
