------------------------ MODULE InodeTreeRefinement ------------------------
(* The inode tree with its mutexes, its retry loops and its copies in      *)
(* local variables implements the tree whose operations are atomic: each   *)
(* commit of InodeTree is one step of AtomicTree, the other steps change   *)
(* nothing a caller sees.  There is one exception, which the code shows in *)
(* the run tree_forget_race: LateDelete.                                   *)
EXTENDS InodeTree

SetAdd(S, e) == S \cup {e}
SetDel(S, e) == S \ {e}

A == INSTANCE AtomicTree WITH
       NoParents <- {}, AddParent <- SetAdd, DelParent <- SetDel

(* delete(b.nodes, n.ino) goes by number (inode.go:165): goroutine t comes *)
(* to a dead parent which another removeRef took out of the table already, *)
(* and takes the inode out that has the number now.                        *)
LateDelete(t) ==
  LET n == Head(fr[t].todo)
  IN  /\ pc[t] = "refDec" /\ fr[t].todo # <<>>
      /\ nodes[ino[n]] \notin {n, Nil}
      /\ DecDead(t)

LateDeletes == \E t \in Thread : LateDelete(t)

(* Every step of every goroutine is, for the table and the links, one      *)
(* operation on the tree as it is at that moment, or none: what addChild,  *)
(* rmChild, mvChild and removeRef read before they dropped a mutex         *)
(* (inode.go:112-123, 170-187, 216-229, 252-270) is never what they act on *)
(* unless it is still true.                                                *)
KeepsTree == A!Init /\ [][A!Next \/ LateDeletes]_A!vars

(* What the bridge and the kernel count for every number, known or not.    *)
CountOf(i) == IF nodes[i] = Nil THEN 0 ELSE lookupCount[nodes[i]]
CountsAgree ==
  \A i \in Ino : CountOf(i) = kcount[i] + RepliesOf(i) + ForgetsOf(i)

(* Only a late delete makes the bridge and the kernel disagree on the      *)
(* lookups of a number: until there is one, the counts agree, whatever a   *)
(* goroutine stalls over (inode.go:130, 155).                              *)
KeepsCounts == [][CountsAgree /\ ~LateDeletes => CountsAgree']_vars

(* Neither of the panics of the code, b.inode's "unknown node"             *)
(* (bridge.go:67-69) and removeRef's underflow (inode.go:152-154), happens *)
(* while the counts agree.                                                 *)
PanicsLate == [][CountsAgree /\ panic = "none" => panic' = "none"]_vars

(* Only a late delete makes an entry of a directory lead to an inode that  *)
(* is in no table, other than on its way out (inode.go:165-195).           *)
KeepsEntries == [][LinkedIsFindable /\ ~LateDeletes => LinkedIsFindable']_vars
=============================================================================
