----------------------------- MODULE MCOperations -----------------------------
(* Small instances of Operations with SourceIdentity. *)
EXTENDS Operations, TLC

CONSTANTS v1, v2, m1, m2, c1, c2

Shot(n) == [name |-> n, hash |-> n]

(* A card with a serial and a UUID, a share with neither, a blank card that *)
(* was formatted in the reader of the first.                                *)
Shown(serial, vol, fs, size, files) ==
    [serial |-> serial, vol |-> vol, fs |-> fs, size |-> size, type |-> "exfat", files |-> files]

Full  == Shown("s1", "u1", "f1", 1, <<Shot("a"), Shot("b")>>)
More  == Shown("s1", "u1", "f1", 1, <<Shot("a"), Shot("b"), Shot("c")>>)
Blank == Shown("s1", None, "f1", 2, <<>>)
Share == Shown(None, None, None, 0, <<Shot("a")>>)

Faces     == {Full, More, Blank, Share}
OneCard   == v1 :> Full
OneMount  == m1 :> v1
Callers   == Permutations(Caller)
=============================================================================
