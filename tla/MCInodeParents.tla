--------------------------- MODULE MCInodeParents ---------------------------
(* Instances of InodeParents for TLC: the configurations give the bounds.  *)
EXTENDS InodeParents
=============================================================================
