----------------------------- MODULE MCPathWalk -----------------------------
(* Instances of PathWalk for TLC: directory 2 in the root and 3 beside it, *)
(* file 4 in 2, number 5 for a file to be made.                            *)
EXTENDS PathWalk, TLC

Symmetry == Permutations(Thread)

Dirs == {1, 2, 3}
WalkFs ==
  [d \in Dirs |-> [m \in Name |->
    CASE <<d, m>> = <<1, "a">> -> 2 [] <<d, m>> = <<1, "b">> -> 3
      [] <<d, m>> = <<2, "a">> -> 4 [] OTHER -> NoIno]]

(* The file moves to the other directory; a directory moves into the other *)
(* and back, or takes its name.                                            *)
WalkMoves == {<<2, "a", 3, "a">>, <<1, "a", 3, "b">>, <<3, "b", 1, "a">>, <<1, "b", 1, "a">>}
(* The file changes directories, then its old directory moves.             *)
MixedMoves == {<<2, "a", 3, "a">>, <<1, "a", 3, "b">>}
WalkLinks == {<<4, 3, "a">>}
WalkEntries == {<<1, "a">>, <<2, "a">>}
AllOps == EntryOps \cup {"Rename", "Link", "Use", "OpenDir", "ReadPlus"}
=============================================================================
