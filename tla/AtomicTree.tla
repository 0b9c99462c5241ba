----------------------------- MODULE AtomicTree -----------------------------
(***************************************************************************)
(* The inode tree of the bridge as its callers think of it: addChild,      *)
(* rmChild and mvChild are one step each, removeRef is two (the inode      *)
(* leaves the table, then its links go), and no step acts on anything but  *)
(* the tree as it is.  InodeTree, with its mutexes, retries and local      *)
(* variables, is shown to implement it (InodeTreeRefinement); PathWalk and *)
(* DumpRestore are built on it.                                            *)
(*                                                                         *)
(* How the parents of an inode are kept is a parameter: as a set where     *)
(* their order does not matter, as a sequence where it does.               *)
(***************************************************************************)
EXTENDS Naturals

CONSTANTS
  Obj,              \* inode objects
  Ino,              \* inode numbers
  Name,             \* names of directory entries
  Nil,              \* no object
  RootObj, RootIno, \* b.root and its number
  NoParents,        \* an inodeParents that holds none
  AddParent(_, _),  \* inodeParents.add
  DelParent(_, _)   \* inodeParents.delete

VARIABLES
  alloc,        \* objects created so far
  ino,          \* inode.ino
  lookupCount,  \* inode.lookupCount
  parents,      \* inode.parents
  children,     \* inode.children
  nodes         \* b.nodes

vars == <<alloc, ino, lookupCount, parents, children, nodes>>

EntryOf(m, p) == [name |-> m, node |-> p]
Live(o, counts, kids) == counts[o] > 0 \/ \E m \in Name : kids[o][m] # Nil

(* A lookup of number i under <<p, m>>: counted, linked, and found in the  *)
(* table again, where an unknown number gets a new object.                 *)
Add(p, m, i) == \E c \in Obj :
  /\ p \in alloc
  /\ IF nodes[i] = Nil THEN c \notin alloc ELSE c = nodes[i]
  /\ alloc' = alloc \cup {c}
  /\ ino' = [ino EXCEPT ![c] = i]
  /\ nodes' = [nodes EXCEPT ![i] = c]
  /\ lookupCount' = [lookupCount EXCEPT ![c] = @ + 1]
  /\ children' = [children EXCEPT ![p][m] = c]
  /\ parents' = [parents EXCEPT ![c] = AddParent(@, EntryOf(m, p))]

(* The entry <<p, m>> goes, on both sides.                                 *)
Remove_oneSide(p, m) ==
  /\ children[p][m] # Nil
  /\ children' = [children EXCEPT ![p][m] = Nil]
  /\ UNCHANGED <<alloc, ino, lookupCount, nodes, parents>>
Remove(p, m) ==
  LET c == children[p][m]
  IN  /\ c # Nil
      /\ children' = [children EXCEPT ![p][m] = Nil]
      /\ parents' = [parents EXCEPT ![c] = DelParent(@, EntryOf(m, p))]
      /\ UNCHANGED <<alloc, ino, lookupCount, nodes>>

(* The entry <<p, m>>, if there is one, moves to <<q, k>>; what was there  *)
(* goes, with or without one.                                              *)
Move_destKept(p, m, q, k) ==
  LET c == children[p][m]
  IN  /\ children' = [children EXCEPT ![p][m] = Nil, ![q][k] = c]
      /\ parents' = [o \in Obj |->
           IF o # c THEN parents[o]
           ELSE AddParent(DelParent(parents[o], EntryOf(m, p)), EntryOf(k, q))]
      /\ UNCHANGED <<alloc, ino, lookupCount, nodes>>
Move(p, m, q, k) ==
  LET c == children[p][m]
      d == children[q][k]
      left(o) == IF o = c THEN DelParent(parents[o], EntryOf(m, p)) ELSE parents[o]
      replaced(o) == IF o = d THEN DelParent(left(o), EntryOf(k, q)) ELSE left(o)
  IN  /\ children' = [children EXCEPT ![p][m] = Nil, ![q][k] = c]
      /\ parents' = [o \in Obj |-> IF o = c THEN AddParent(replaced(o), EntryOf(k, q))
                                            ELSE replaced(o)]
      /\ UNCHANGED <<alloc, ino, lookupCount, nodes>>

(* n lookups are given back; an inode that nothing keeps leaves the table. *)
Forget(o, n) ==
  /\ o \in alloc /\ n <= lookupCount[o]
  /\ lookupCount' = [lookupCount EXCEPT ![o] = @ - n]
  /\ nodes' = IF Live(o, lookupCount', children) \/ nodes[ino[o]] # o
              THEN nodes ELSE [nodes EXCEPT ![ino[o]] = Nil]
  /\ UNCHANGED <<alloc, ino, parents, children>>

(* Every entry that leads to an inode that left the table goes with it.    *)
Detach(o) ==
  /\ o \in alloc /\ nodes[ino[o]] # o /\ lookupCount[o] = 0
  /\ children' = [d \in Obj |-> [m \in Name |->
       IF children[d][m] = o THEN Nil ELSE children[d][m]]]
  /\ parents' = [parents EXCEPT ![o] = NoParents]
  /\ UNCHANGED <<alloc, ino, lookupCount, nodes>>

(* NewPathFS.                                                              *)
Init ==
  /\ alloc = {RootObj}
  /\ ino = [o \in Obj |-> RootIno]
  /\ lookupCount = [o \in Obj |-> IF o = RootObj THEN 1 ELSE 0]
  /\ parents = [o \in Obj |-> NoParents]
  /\ children = [o \in Obj |-> [m \in Name |-> Nil]]
  /\ nodes = [i \in Ino |-> IF i = RootIno THEN RootObj ELSE Nil]

Next ==
  \/ \E p \in Obj, m \in Name, i \in Ino : Add(p, m, i)
  \/ \E p \in Obj, m \in Name : Remove(p, m)
  \/ \E p, q \in Obj, m, k \in Name : Move(p, m, q, k)
  \/ \E o \in Obj : \E n \in 0..lookupCount[o] : Forget(o, n)
  \/ \E o \in Obj : Detach(o)

Spec == Init /\ [][Next]_vars
=============================================================================
