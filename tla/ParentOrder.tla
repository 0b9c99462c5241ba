---------------------------- MODULE ParentOrder ----------------------------
(* The parents of an inode as a sequence in the order in which they were   *)
(* added last: what inodeParents stands for when its clock advances        *)
(* (ParentRecency, proved of InodeParents).  The newest is the last.       *)
EXTENDS Sequences, Naturals

NoParents == <<>>

(* A parent is there once at most: add takes it out before it appends it.  *)
PlaceOf(s, e) == CHOOSE k \in DOMAIN s : s[k] = e
Without(s, e) ==
  IF \A k \in DOMAIN s : s[k] # e THEN s
  ELSE [k \in 1..Len(s) - 1 |-> IF k < PlaceOf(s, e) THEN s[k] ELSE s[k + 1]]

AddParent(s, e) == Append(Without(s, e), e)
DelParent(s, e) == Without(s, e)

(* inodeParents.get: there is none where s is empty.                       *)
Newest_oldest(s) == s[1]
Newest(s) == s[Len(s)]
=============================================================================
