--------------------------- MODULE MCDumpRestore ---------------------------
(* Instances of DumpRestore for TLC.                                       *)
EXTENDS DumpRestore

Symmetry == Permutations(Obj \ {RootObj})
=============================================================================
