--------------------------- MODULE ParentRecency ---------------------------
(* What inodeParents (inode_parents.go) promises: a set of parents that    *)
(* remembers in which order they were added last, so that the most recent  *)
(* one can be told when it goes away.                                      *)
CONSTANT Entry          \* <<name, directory>> pairs

VARIABLES
  members,              \* the parents
  older,                \* <<a, b>>: a was added, for the last time, before b
  last                  \* the call just made

vars == <<members, older, last>>

Called(op, e) == last' = <<op, e>>
Without(e) == {p \in older : p[1] # e /\ p[2] # e}

Init == members = {} /\ older = {} /\ last = <<"none">>

(* A parent added again becomes the most recent one.                       *)
Add(e) ==
  /\ members' = members \cup {e}
  /\ older' = Without(e) \cup ((members \ {e}) \X {e})
  /\ Called("add", e)

Delete(e) ==
  /\ members' = members \ {e}
  /\ older' = Without(e)
  /\ Called("delete", e)

Clear == members' = {} /\ older' = {} /\ last' = <<"clear">>

(* A dump, restored elsewhere, is the same.                                *)
Copy == UNCHANGED <<members, older>> /\ last' = <<"copy">>

Next == (\E e \in Entry : Add(e) \/ Delete(e)) \/ Clear \/ Copy
Spec == Init /\ [][Next]_vars

(* The promise without the order: what InodeTree takes inode.parents for.  *)
SetInit == members = {} /\ last = <<"none">>
SetNext ==
  \/ \E e \in Entry : members' = members \cup {e} /\ Called("add", e)
  \/ \E e \in Entry : members' = members \ {e} /\ Called("delete", e)
  \/ members' = {} /\ last' = <<"clear">>
  \/ members' = members /\ last' = <<"copy">>
SetSpec == SetInit /\ [][SetNext]_<<members, last>>
=============================================================================
