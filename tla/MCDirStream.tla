---------------------------- MODULE MCDirStream ----------------------------
(* Instances of DirStream for TLC.                                         *)
EXTENDS DirStream, TLC

Symmetry == Permutations(Reader)
=============================================================================
