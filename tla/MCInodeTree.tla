---------------------------- MODULE MCInodeTree ----------------------------
(* Instances of InodeTree for TLC.  The root is inode 1; 2 (and 4) may be  *)
(* directories, 3 is a file.                                               *)
EXTENDS InodeTreeRefinement, TLC

Symmetry == Permutations(Thread)
AllOps == OpKind \ {"None"}

(* Flat: two files in the root, one of them under two names (a hard link), *)
(* one name that changes hands, and both names may vanish.                 *)
FlatBackend == {<<1, "a", 2>>, <<1, "b", 2>>, <<1, "b", 3>>}
               \cup {1} \X {"a", "b"} \X {NoIno}
FlatMoves == {<<1, "a", 1, "b">>}

(* Nested: directory 2 in the root, file 3 in it or, after a rename or by  *)
(* a hard link, in the root; every name may vanish.                        *)
NestedBackend == {<<1, "a", 2>>, <<2, "a", 3>>, <<1, "b", 3>>}
                 \cup {1, 2} \X {"a", "b"} \X {NoIno}
NestedMoves == {<<2, "a", 1, "b">>}

(* Chain: the least tree whose inner node can be forgotten.  No name ever  *)
(* vanishes, so that only the FORGETs change the tree behind a lookup.     *)
ChainBackend == {<<1, "a", 2>>, <<2, "a", 3>>}
=============================================================================
