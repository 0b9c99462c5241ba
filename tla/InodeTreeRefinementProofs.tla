---------------------- MODULE InodeTreeRefinementProofs ----------------------
(* Proofs that InodeTree implements AtomicTree but for late deletes, for   *)
(* any number of goroutines, objects, inodes and names, of what a caller   *)
(* may rely on until there is a late delete, and of the lookup counts: the *)
(* bridge and the kernel agree on them until a late delete, and even then  *)
(* nothing is overcounted.                                                 *)
EXTENDS InodeTreeRefinement, InodeTreeProofs

USE ThreadAssumption, AddressAssumption, InoAssumption, NameAssumption,
    EnvironmentAssumption

-----------------------------------------------------------------------------
(* Each commit of InodeTree is the operation of AtomicTree it stands for.  *)

(* addChild looks the number up again before it commits (inode.go:112-135). *)
LEMMA AddIsAtomic ==
  ASSUME Tree, NEW t \in Thread, AddCommit(t)
  PROVE  A!Next
<1> DEFINE f == fr[t]
<1>1. f.parent \in alloc /\ f.name \in Name /\ f.cino \in Ino /\ f.parent \in Obj
  BY AddCommitEffect DEF Tree, Shape, TypeOK
<1>2. PICK c \in Obj :
        /\ IF f.child = Nil THEN c \notin alloc ELSE c = f.child
        /\ alloc' = alloc \cup {c}
        /\ ino' = [ino EXCEPT ![c] = f.cino]
        /\ lookupCount' = [lookupCount EXCEPT ![c] = @ + 1]
        /\ nodes' = [nodes EXCEPT ![f.cino] = c]
        /\ children' = [children EXCEPT ![f.parent][f.name] = c]
        /\ parents' = [parents EXCEPT ![c] = @ \cup {EntryOf(f.name, f.parent)}]
  BY DEF AddCommit
<1>3. nodes[f.cino] = f.child
  BY DEF AddCommit, ChildLocked
<1>4. A!Add(f.parent, f.name, f.cino)
  BY <1>1, <1>2, <1>3 DEF A!Add, A!EntryOf, SetAdd, EntryOf
<1>5. QED
  BY <1>1, <1>4 DEF A!Next

(* The entry rmChild takes away is the one that is there (inode.go:218-236). *)
LEMMA RmIsAtomic ==
  ASSUME Tree, NEW t \in Thread, RmCommit(t)
  PROVE  A!Next
<1> DEFINE f == fr[t]
<1>1. /\ children' = [children EXCEPT ![f.parent][f.name] = Nil]
      /\ parents' = [parents EXCEPT ![f.child] = @ \ {EntryOf(f.name, f.parent)}]
      /\ UNCHANGED <<alloc, ino, lookupCount, nodes>>
      /\ pc[t] = "rmCommit" /\ Unchanged(f.parent, f.rev)
  BY DEF RmCommit, At, tableVars
<1>2. f.parent \in Obj /\ f.name \in Name /\ f.child # Nil
  BY <1>1, Frames DEF Tree, FrameOK, Shape, TypeOK, Nil
<1>3. children[f.parent][f.name] = f.child
  BY <1>1 DEF Tree, ReadOK
<1>4. A!Remove(f.parent, f.name)
  BY <1>1, <1>2, <1>3 DEF A!Remove, A!EntryOf, SetDel, EntryOf
<1>5. QED
  BY <1>2, <1>4 DEF A!Next

(* mvChild moves the entry that is there over the one that is there        *)
(* (inode.go:252-290).                                                     *)
LEMMA MvIsAtomic ==
  ASSUME Tree, NEW t \in Thread, MvCommit(t)
  PROVE  A!Next
<1> DEFINE f == fr[t]
           from == EntryOf(f.name, f.parent)
           to == EntryOf(f.nname, f.newParent)
<1>1. /\ children' = [children EXCEPT ![f.parent][f.name] = Nil,
                                      ![f.newParent][f.nname] = f.child]
      /\ parents' = [o \in Obj |->
           LET kept == IF o = f.child THEN parents[o] \ {from} ELSE parents[o]
               rest == IF o = f.dest THEN kept \ {to} ELSE kept
           IN  IF o = f.child THEN rest \cup {to} ELSE rest]
      /\ UNCHANGED <<alloc, ino, lookupCount, nodes>>
      /\ pc[t] = "mvCommit"
      /\ Unchanged(f.parent, f.rev) /\ Unchanged(f.newParent, f.nrev)
  BY DEF MvCommit, At, tableVars
<1>2. /\ f.parent \in Obj /\ f.name \in Name
      /\ f.newParent \in Obj /\ f.nname \in Name
  BY <1>1, CommitFrame DEF Tree
<1>3. /\ children[f.parent][f.name] = f.child
      /\ children[f.newParent][f.nname] = f.dest
  BY <1>1 DEF Tree, ReadOK
<1>4. A!Move(f.parent, f.name, f.newParent, f.nname)
  BY <1>1, <1>2, <1>3 DEF A!Move, A!EntryOf, SetAdd, SetDel, EntryOf
<1>5. QED
  BY <1>2, <1>4 DEF A!Next

(* Lookups are given back to the inode removeRef has locked, which leaves  *)
(* the table if nothing keeps it; but a late delete takes another inode    *)
(* out (inode.go:150-168).                                                 *)
LEMMA DecIsAtomic ==
  ASSUME Tree, NEW t \in Thread, DecLive(t) \/ DecDead(t)
  PROVE  A!Next \/ LateDeletes
<1> DEFINE f == fr[t]
           n == Head(f.todo)
<1>1. /\ lookupCount' = [lookupCount EXCEPT ![n] = @ - f.nl]
      /\ f.nl <= lookupCount[n]
      /\ UNCHANGED <<alloc, ino, parents, children>>
      /\ pc[t] = "refDec"
  BY DEF DecLive, DecDead, At
<1>2. /\ n \in alloc /\ n \in Obj /\ f.todo # <<>>
      /\ f.nl \in Nat /\ lookupCount[n] \in Nat
      /\ nodes \in [Ino -> Obj \cup {Nil}]
  BY <1>1, HeadOK, Frames DEF Tree, Shape, TypeOK, Frame
<1> HIDE DEF n
<1>3. f.nl \in 0..lookupCount[n]
  BY <1>1, <1>2
<1>4. CASE DecLive(t)
  <2>1. IsLive(n, lookupCount', children) /\ nodes' = nodes
    BY <1>4 DEF DecLive, tableVars, n
  <2>2. A!Forget(n, f.nl)
    BY <1>1, <1>2, <2>1 DEF A!Forget, A!Live, IsLive
  <2>3. QED
    BY <1>2, <1>3, <2>2 DEF A!Next
<1>5. CASE DecDead(t)
  <2>1. ~IsLive(n, lookupCount', children) /\ nodes' = [nodes EXCEPT ![ino[n]] = Nil]
    BY <1>5 DEF DecDead, n
  <2>2. CASE nodes[ino[n]] \in {n, Nil}
    <3>1. n # Nil
      BY <1>2 DEF Nil
    <3>2. nodes[ino[n]] = Nil => nodes' = nodes
      BY <1>2, <2>1
    <3>3. A!Forget(n, f.nl)
      BY <1>1, <1>2, <2>1, <2>2, <3>1, <3>2 DEF A!Forget, A!Live, IsLive
    <3>4. QED
      BY <1>2, <1>3, <3>3 DEF A!Next
  <2>3. CASE nodes[ino[n]] \notin {n, Nil}
    <3>1. LateDelete(t)
      BY <1>1, <1>2, <1>5, <2>3 DEF LateDelete, n
    <3>2. QED
      BY <3>1 DEF LateDeletes
  <2>4. QED
    BY <2>2, <2>3
<1>6. QED
  BY <1>4, <1>5

(* The entries removeRef unlinks are all those that lead to its inode      *)
(* (inode.go:170-197).                                                     *)
LEMMA UnlinkedAreAll ==
  ASSUME Tree, NEW t \in Thread, Unlink(t), NEW o \in Obj, NEW m \in Name
  PROVE  EntryOf(m, o) \in Linked(Head(fr[t].todo), fr[t].pes)
           <=> children[o][m] = Head(fr[t].todo)
<1> DEFINE n == Head(fr[t].todo)
<1>1. n # Nil /\ n \in Obj
  BY HeadOK DEF Unlink, At, Tree, Nil
<1>2. fr[t].pes = parents[n]
  BY DEF Unlink, At, Tree, RereadOK
<1>3. children[o][m] = n => EntryOf(m, o) \in parents[n]
  BY <1>1 DEF Tree, LinkConsistent
<1>4. EntryOf(m, o).name = m /\ EntryOf(m, o).node = o
  BY DEF EntryOf
<1>5. QED
  BY <1>2, <1>3, <1>4 DEF Linked

(* removeRef detaches an inode that left the table and has no lookup.      *)
LEMMA UnlinkIsAtomic ==
  ASSUME Tree, NEW t \in Thread, Unlink(t)
  PROVE  A!Next
<1> DEFINE n == Head(fr[t].todo)
           mine == Linked(n, fr[t].pes)
<1>1. /\ children' = [o \in Obj |-> [m \in Name |->
             IF EntryOf(m, o) \in mine THEN Nil ELSE children[o][m]]]
      /\ parents' = [parents EXCEPT ![n] = {}]
      /\ UNCHANGED <<alloc, ino, lookupCount, nodes>>
      /\ pc[t] = "refUnlink"
  BY DEF Unlink, At, tableVars
<1>2. /\ n \in alloc /\ n \in Obj
      /\ nodes[ino[n]] # n /\ lookupCount[n] = 0
  BY <1>1, HeadOK DEF Tree, DeadStaysDead
<1>3. \A o \in Obj, m \in Name : EntryOf(m, o) \in mine <=> children[o][m] = n
  BY UnlinkedAreAll
<1> HIDE DEF mine, n
<1>4. children' = [o \in Obj |-> [m \in Name |->
             IF children[o][m] = n THEN Nil ELSE children[o][m]]]
  BY <1>1, <1>3
<1>5. A!Detach(n)
  BY <1>1, <1>2, <1>4 DEF A!Detach
<1>6. QED
  BY <1>2, <1>5 DEF A!Next

(* Every other step leaves the tree as its callers see it alone.           *)
LEMMA OthersStutter ==
  ASSUME NEW t \in Thread, Step(t) \/ Kernel(t),
         ~(AddCommit(t) \/ RmCommit(t) \/ MvCommit(t) \/ Unlink(t)),
         ~(DecLive(t) \/ DecDead(t))
  PROVE  UNCHANGED A!vars
  BY TreeWriters, CountWriters DEF A!vars

(* The bridge implements the tree of atomic operations, late deletes       *)
(* aside: every step of addChild, rmChild, mvChild and removeRef           *)
(* (inode.go:104-303) is one operation on the tree as it is, or none.      *)
THEOREM ImplementsAtomicTree == Spec => KeepsTree
<1>1. Init => A!Init
  BY DEF Init, A!Init, One
<1>2. Tree /\ [Next]_vars => [A!Next \/ LateDeletes]_(A!vars)
  <2> SUFFICES ASSUME Tree, [Next]_vars
               PROVE  A!Next \/ LateDeletes \/ UNCHANGED A!vars
    OBVIOUS
  <2>1. CASE UNCHANGED vars
    BY <2>1 DEF vars, inodeVars, tableVars, A!vars
  <2>2. ASSUME NEW t \in Thread, Step(t) \/ Kernel(t)
        PROVE  A!Next \/ LateDeletes \/ UNCHANGED A!vars
    BY <2>2, AddIsAtomic, RmIsAtomic, MvIsAtomic, DecIsAtomic, UnlinkIsAtomic,
       OthersStutter
  <2>3. QED
    BY <2>1, <2>2 DEF Next
<1>3. QED
  BY InitTree, TreeStep, <1>1, <1>2, PTL DEF Spec, KeepsTree
-----------------------------------------------------------------------------
(* Entries.                                                                *)

(* A goroutine that has let go of a dead inode in order to unlink it.      *)
Unlinking(u, c) == pc[u] \in {"refUnlink", "refRetry"} /\ Head(fr[u].todo) = c

(* A step moves one goroutine, to one label, or none.                      *)
LEMMA MovesAlone ==
  ASSUME NEW t \in Thread, Step(t) \/ Kernel(t)
  PROVE  \/ UNCHANGED <<pc, fr>>
         \/ \E l, group, f : Goto(t, l, group, f)
<1>1. ASSUME NEW f, NEW todo, Deref(t, f, todo)
      PROVE  \E l, group, g : Goto(t, l, group, g)
  BY <1>1 DEF Deref, Done
<1>2. CASE Acquire(t)
  BY <1>2 DEF Acquire
<1>3. CASE Kernel(t)
  BY <1>3 DEF Kernel, SendEntry, SendRename, SendForget, Send
<1>4. CASE UnknownNode(t) \/ LookupUnderflow(t)
  BY <1>4 DEF UnknownNode, LookupUnderflow, Fail, threadVars
<1>5. CASE RmCommit(t) \/ MvCommit(t) \/ DecLive(t) \/ Unlink(t)
  <2>1. \E f, todo : Deref(t, f, todo)
    BY <1>5 DEF RmCommit, MvCommit, DecLive, Unlink
  <2>2. QED
    BY <1>1, <2>1
<1>6. CASE Handler(t) /\ ~UnknownNode(t)
  <2>1. CASE EntryFound(t) \/ EntryGone(t)
    BY <2>1 DEF EntryFound, EntryGone, Serve
  <2>2. CASE Refused(t) \/ RenameFrom(t) \/ RenameTo(t)
    BY <2>2 DEF Refused, RenameFrom, RenameTo, Serve
  <2>3. CASE ForgetUnknown(t) \/ ForgetKnown(t) \/ Compact(t) \/ Reply(t)
    BY <2>3 DEF ForgetUnknown, ForgetKnown, Compact, Reply, Done, Serve
  <2>4. QED
    BY <1>6, <2>1, <2>2, <2>3 DEF Handler
<1>7. CASE AddRetry(t) \/ AddCommit(t)
  BY <1>7 DEF AddRetry, AddCommit, Serve, Done
<1>8. CASE RmRead(t) \/ RmRetry(t)
  BY <1>8 DEF RmRead, RmRetry, Serve
<1>9. CASE MvRead(t) \/ MvRetry(t)
  BY <1>9 DEF MvRead, MvRetry, Serve
<1>10. CASE DecDead(t) \/ UnlinkRetry(t) \/ Reread(t)
  BY <1>10 DEF DecDead, UnlinkRetry, Reread, Serve
<1>11. QED
  BY <1>2, <1>3, <1>4, <1>5, <1>6, <1>7, <1>8, <1>9, <1>10
     DEF Step, AddChild, RmChild, MvChild, RemoveRef

(* The other goroutines stay where they are.                               *)
LEMMA OthersStay ==
  ASSUME Shape, NEW t \in Thread, Step(t) \/ Kernel(t), NEW u \in Thread \ {t}
  PROVE  pc'[u] = pc[u] /\ fr'[u] = fr[u]
  BY MovesAlone, GotoEffect, ShapeThreads

(* Who lets go of a dead inode comes back to unlink it, or to see why not. *)
LEMMA UnlinkingKept ==
  ASSUME Shape, NEW t \in Thread, Step(t) \/ Kernel(t), NEW u \in Thread, NEW c,
         Unlinking(u, c), u = t => ~Unlink(t)
  PROVE  Unlinking(u, c)'
<1>1. CASE u # t
  BY <1>1, OthersStay DEF Unlinking
<1>2. CASE u = t
  <2>1. pc[t] \in {"refUnlink", "refRetry"}
    BY <1>2 DEF Unlinking
  <2>2. Acquire(t) \/ UnlinkRetry(t) \/ Reread(t)
    <3>1. ~Kernel(t) /\ ~Handler(t)
      BY <2>1 DEF Kernel, SendEntry, SendRename, SendForget, Send, Handler, UnknownNode,
                  EntryFound, EntryGone, Refused, RenameFrom, RenameTo, ForgetUnknown,
                  ForgetKnown, Compact, Reply, At
    <3>2. ~AddChild(t) /\ ~RmChild(t) /\ ~MvChild(t)
      BY <2>1 DEF AddChild, AddRetry, AddCommit, RmChild, RmRead, RmRetry, RmCommit,
                  MvChild, MvRead, MvRetry, MvCommit, At
    <3>3. ~LookupUnderflow(t) /\ ~DecLive(t) /\ ~DecDead(t)
      BY <2>1 DEF LookupUnderflow, DecLive, DecDead, At
    <3>4. QED
      BY <1>2, <3>1, <3>2, <3>3 DEF Step, RemoveRef
  <2>3. CASE Acquire(t)
    BY <1>2, <2>3 DEF Acquire, Unlinking
  <2>4. CASE UnlinkRetry(t)
    <3>1. Goto(t, "refRetry", {Head(fr[t].todo)}, fr[t])
      BY <2>4 DEF UnlinkRetry, Serve
    <3>2. pc'[t] = "refRetry" /\ fr'[t] = fr[t]
      BY <3>1, GotoEffect, ShapeThreads
    <3>3. QED
      BY <1>2, <3>2 DEF Unlinking
  <2>5. CASE Reread(t)
    <3> DEFINE n == Head(fr[t].todo)
               g == [fr[t] EXCEPT !.pes = parents[n], !.rev = revision[n]]
    <3>1. Goto(t, "refUnlink", LockGroup(n), g)
      BY <2>5 DEF Reread, Serve
    <3>2. g.todo = fr[t].todo
      BY Frames DEF Frame
    <3> HIDE DEF g
    <3>3. pc'[t] = "refUnlink" /\ fr'[t] = g
      BY <3>1, GotoEffect, ShapeThreads
    <3>4. QED
      BY <1>2, <3>2, <3>3 DEF Unlinking
  <2>6. QED
    BY <2>2, <2>3, <2>4, <2>5
<1>3. QED
  BY <1>1, <1>2

(* An inode of the table stays there, and one that is about to be unlinked *)
(* is still about to be, unless a removeRef takes it out in time.          *)
LEMMA FindableKept ==
  ASSUME Tree, NEW t \in Thread, Step(t) \/ Kernel(t), ~LateDeletes,
         NEW c \in alloc, Unlink(t) => c # Head(fr[t].todo),
         nodes[ino[c]] = c \/ \E u \in Thread : Unlinking(u, c)
  PROVE  (nodes[ino[c]] = c \/ \E u \in Thread : Unlinking(u, c))'
<1>0. /\ c \in Obj /\ c # Nil /\ ino \in [Obj -> Ino] /\ nodes \in [Ino -> Obj \cup {Nil}]
      /\ Shape
  BY DEF Tree, Shape, TypeOK, Nil
<1>1. ASSUME NEW u \in Thread, Unlinking(u, c) PROVE Unlinking(u, c)'
  <2>1. u = t => ~Unlink(t)
    BY <1>1 DEF Unlinking
  <2>2. QED
    BY <1>0, <1>1, <2>1, UnlinkingKept
<1>2. CASE \E u \in Thread : Unlinking(u, c)
  BY <1>1, <1>2
<1>3. CASE nodes[ino[c]] = c
  <2>1. CASE AddCommit(t)
    <3>1. PICK d \in Obj :
             /\ d \in alloc => nodes[ino[d]] = d
             /\ ino' = [ino EXCEPT ![d] = fr[t].cino]
             /\ nodes' = [nodes EXCEPT ![fr[t].cino] = d]
             /\ d = IF nodes[fr[t].cino] = Nil THEN d ELSE nodes[fr[t].cino]
      <4>1. PICK d \in Obj :
               /\ IF fr[t].child = Nil THEN d \notin alloc ELSE d = fr[t].child
               /\ ino' = [ino EXCEPT ![d] = fr[t].cino]
               /\ nodes' = [nodes EXCEPT ![fr[t].cino] = d]
        BY <2>1 DEF AddCommit
      <4>2. nodes[fr[t].cino] = fr[t].child /\ fr[t].cino \in Ino
        BY <1>0, <2>1, AddCommitEffect DEF AddCommit, ChildLocked
      <4>3. d \in alloc => nodes[ino[d]] = d
        BY <1>0, <4>1, <4>2 DEF Shape, TableOK
      <4>4. QED
        BY <4>1, <4>2, <4>3
    <3>2. fr[t].cino \in Ino
      BY <1>0, <2>1, AddCommitEffect
    <3>3. nodes'[ino'[c]] = c
      BY <1>0, <1>3, <3>1, <3>2
    <3>4. QED
      BY <3>3
  <2>2. CASE DecLive(t)
    BY <1>3, <2>2 DEF DecLive, tableVars
  <2>3. CASE DecDead(t)
    <3> DEFINE n == Head(fr[t].todo)
               g == [fr[t] EXCEPT !.nl = 0, !.pes = parents[n], !.rev = revision'[n]]
    <3>1. /\ nodes' = [nodes EXCEPT ![ino[n]] = Nil] /\ ino' = ino
          /\ Goto(t, "refUnlink", LockGroup(n), g)
          /\ pc[t] = "refDec"
      BY <2>3 DEF DecDead, At
    <3>2. n \in Obj /\ fr[t].todo # <<>>
      BY <1>0, <3>1, HeadOK
    <3>3. nodes[ino[n]] \in {n, Nil}
      BY <2>3, <3>1, <3>2 DEF LateDeletes, LateDelete
    <3>4. CASE c = n
      <4>1. g.todo = fr[t].todo
        BY <1>0, Frames DEF Frame
      <4> HIDE DEF g
      <4>2. pc'[t] = "refUnlink" /\ fr'[t] = g
        BY <1>0, <3>1, GotoEffect, ShapeThreads
      <4>3. Unlinking(t, c)'
        BY <3>4, <4>1, <4>2 DEF Unlinking
      <4>4. QED
        BY <4>3
    <3>5. CASE c # n
      <4> HIDE DEF n, g
      <4>1. ino[c] # ino[n]
        BY <1>0, <1>3, <3>3, <3>5
      <4>2. nodes'[ino'[c]] = c
        BY <1>0, <1>3, <3>1, <3>2, <4>1
      <4>3. QED
        BY <4>2
    <3>6. QED
      BY <3>4, <3>5
  <2>4. CASE UNCHANGED <<ino, lookupCount, nodes>>
    BY <1>3, <2>4
  <2>5. QED
    BY <2>1, <2>2, <2>3, <2>4, CountWriters
<1>4. QED
  BY <1>2, <1>3

(* Where an entry comes from: it was there, or addChild or mvChild put an  *)
(* inode there that another entry led to or that is in the table.          *)
LEMMA EntrySource ==
  ASSUME Tree, NEW t \in Thread, Step(t) \/ Kernel(t),
         NEW o \in Obj, NEW m \in Name, children'[o][m] # Nil
  PROVE  \/ \E q \in Obj, k \in Name :
              /\ children[q][k] = children'[o][m]
              /\ Unlink(t) => children[q][k] # Head(fr[t].todo)
         \/ AddCommit(t) /\ nodes'[ino'[children'[o][m]]] = children'[o][m]
<1>0. /\ children \in [Obj -> [Name -> Obj \cup {Nil}]]
      /\ ino \in [Obj -> Ino] /\ nodes \in [Ino -> Obj \cup {Nil}]
      /\ Shape /\ alloc \subseteq Obj
  BY DEF Tree, Shape, TypeOK
<1>1. CASE AddCommit(t)
  <2>1. PICK c \in Obj :
          /\ ino' = [ino EXCEPT ![c] = fr[t].cino]
          /\ nodes' = [nodes EXCEPT ![fr[t].cino] = c]
          /\ children' = [children EXCEPT ![fr[t].parent][fr[t].name] = c]
    BY <1>0, <1>1, AddCommitEffect
  <2>2. fr[t].parent \in Obj /\ fr[t].name \in Name /\ fr[t].cino \in Ino
    BY <1>0, <1>1, AddCommitEffect
  <2>3. nodes'[ino'[c]] = c
    BY <1>0, <2>1, <2>2
  <2>4. children'[o][m] = c \/ children'[o][m] = children[o][m]
    BY <1>0, <2>1, <2>2
  <2>5. ~Unlink(t)
    BY <1>1 DEF AddCommit, Unlink, At
  <2>6. QED
    BY <1>1, <2>3, <2>4, <2>5
<1>2. CASE RmCommit(t)
  <2>1. /\ children' = [children EXCEPT ![fr[t].parent][fr[t].name] = Nil]
        /\ pc[t] = "rmCommit"
    BY <1>2 DEF RmCommit, At
  <2>2. fr[t].parent \in Obj /\ fr[t].name \in Name
    BY <1>0, <2>1, CommitFrame
  <2>3. children'[o][m] = children[o][m]
    BY <1>0, <2>1, <2>2
  <2>4. ~Unlink(t)
    BY <2>1 DEF Unlink, At
  <2>5. QED
    BY <2>3, <2>4
<1>3. CASE MvCommit(t)
  <2> DEFINE f == fr[t]
  <2>1. /\ children' = [children EXCEPT ![f.parent][f.name] = Nil,
                                        ![f.newParent][f.nname] = f.child]
        /\ pc[t] = "mvCommit" /\ Unchanged(f.parent, f.rev)
    BY <1>3 DEF MvCommit, At
  <2>2. /\ f.parent \in Obj /\ f.name \in Name
        /\ f.newParent \in Obj /\ f.nname \in Name
    BY <1>0, <2>1, CommitFrame
  <2>3. children[f.parent][f.name] = f.child
    BY <2>1 DEF Tree, ReadOK
  <2>4. ~Unlink(t)
    BY <2>1 DEF Unlink, At
  <2> HIDE DEF f
  <2>5. children'[o][m] = f.child \/ children'[o][m] = children[o][m]
    BY <1>0, <2>1, <2>2
  <2>6. QED
    BY <2>2, <2>3, <2>4, <2>5
<1>4. CASE Unlink(t)
  <2> DEFINE n == Head(fr[t].todo)
  <2>1. children'[o][m] =
          IF EntryOf(m, o) \in Linked(n, fr[t].pes) THEN Nil ELSE children[o][m]
    BY <1>4 DEF Unlink
  <2>2. EntryOf(m, o) \in Linked(n, fr[t].pes) <=> children[o][m] = n
    BY <1>4, UnlinkedAreAll
  <2>3. QED
    BY <2>1, <2>2
<1>5. CASE UNCHANGED <<alloc, ino, parents, children>> /\ ~Unlink(t)
  BY <1>5
<1>6. QED
  BY <1>1, <1>2, <1>3, <1>4, <1>5, TreeWriters

(* Only a late delete makes an entry lead out of the table.                *)
LEMMA EntriesStep ==
  ASSUME Tree, LinkedIsFindable, ~LateDeletes, [Next]_vars
  PROVE  LinkedIsFindable'
<1>1. CASE UNCHANGED vars
  BY <1>1 DEF vars, inodeVars, tableVars, threadVars, LinkedIsFindable
<1>2. ASSUME NEW t \in Thread, Step(t) \/ Kernel(t), NEW o \in Obj, NEW m \in Name,
             children'[o][m] # Nil
      PROVE  (\/ nodes[ino[children[o][m]]] = children[o][m]
              \/ \E u \in Thread : Unlinking(u, children[o][m]))'
  <2> DEFINE c == children'[o][m]
  <2>1. CASE nodes'[ino'[c]] = c
    BY <2>1
  <2>2. CASE nodes'[ino'[c]] # c
    <3>1. PICK q \in Obj, k \in Name :
            /\ children[q][k] = c
            /\ Unlink(t) => c # Head(fr[t].todo)
      <4>1. \/ \E q \in Obj, k \in Name :
                  /\ children[q][k] = c
                  /\ Unlink(t) => children[q][k] # Head(fr[t].todo)
            \/ nodes'[ino'[c]] = c
        <5>1. Tree
          OBVIOUS
        <5>2. \/ \E q \in Obj, k \in Name :
                    /\ children[q][k] = children'[o][m]
                    /\ Unlink(t) => children[q][k] # Head(fr[t].todo)
              \/ AddCommit(t) /\ nodes'[ino'[children'[o][m]]] = children'[o][m]
          BY <1>2, <5>1, EntrySource
        <5>3. QED
          BY <5>2
      <4> HIDE DEF c
      <4>2. QED
        BY <2>2, <4>1
    <3>2. nodes[ino[c]] = c \/ \E u \in Thread : Unlinking(u, c)
      BY <1>2, <3>1 DEF LinkedIsFindable, Unlinking
    <3>3. c \in alloc
      BY <1>2, <3>1 DEF Tree, Shape, PointersOK
    <3>4. PICK d \in alloc : d = c
      BY <3>3
    <3>5. (nodes[ino[d]] = d \/ \E u \in Thread : Unlinking(u, d))'
      BY <1>2, <3>1, <3>2, <3>4, FindableKept
    <3>6. QED
      BY <3>4, <3>5
  <2>3. QED
    BY <2>1, <2>2
<1>3. ASSUME NEW t \in Thread, Step(t) \/ Kernel(t) PROVE LinkedIsFindable'
  BY <1>2, <1>3 DEF LinkedIsFindable, Unlinking
<1>4. QED
  BY <1>1, <1>3 DEF Next

(* Until a late delete, every entry leads to an inode of the table or to   *)
(* one that is about to be unlinked (inode.go:165-195).                    *)
THEOREM EntriesKept == Spec => KeepsEntries
<1>1. Tree /\ [Next]_vars => [LinkedIsFindable /\ ~LateDeletes => LinkedIsFindable']_vars
  BY EntriesStep
<1>2. QED
  BY InitTree, TreeStep, <1>1, PTL DEF Spec, KeepsEntries

(* And all along a behaviour that has no late delete.                      *)
THEOREM EntriesFindable == Spec /\ [][~LateDeletes]_vars => []LinkedIsFindable
<1>1. Init => LinkedIsFindable
  BY DEF Init, LinkedIsFindable
<1>2. Tree /\ LinkedIsFindable /\ [Next]_vars /\ [~LateDeletes]_vars => LinkedIsFindable'
  <2>1. UNCHANGED vars /\ LinkedIsFindable => LinkedIsFindable'
    BY DEF vars, inodeVars, tableVars, threadVars, LinkedIsFindable
  <2>2. QED
    BY <2>1, EntriesStep
<1>3. QED
  BY InitTree, TreeStep, <1>1, <1>2, PTL DEF Spec

-----------------------------------------------------------------------------
(* Sums over the goroutines, as cardinalities.                             *)

(* n lookups of one goroutine are n.                                       *)
LEMMA ChunkSize ==
  ASSUME NEW t, NEW n \in Nat
  PROVE  IsFiniteSet({t} \X (1..n)) /\ Cardinality({t} \X (1..n)) = n
<1>1. IsFiniteSet({t}) /\ Cardinality({t}) = 1
  BY FS_Singleton
<1>2. IsFiniteSet(1..n) /\ Cardinality(1..n) = n
  BY FS_Interval
<1>3. /\ IsFiniteSet({t} \X (1..n))
      /\ Cardinality({t} \X (1..n)) = Cardinality({t}) * Cardinality(1..n)
  BY <1>1, <1>2, FS_Product
<1>4. QED
  BY <1>1, <1>2, <1>3

(* What any goroutines give back is finite.                                *)
LEMMA SumFinite ==
  ASSUME NEW f \in [Thread -> Frame], NEW S \in SUBSET Thread
  PROVE  IsFiniteSet(GivenBack(S, f)) /\ Cardinality(GivenBack(S, f)) \in Nat
<1> DEFINE chunk == [t \in S |-> {t} \X (1..f[t].nl)]
           T == {{t} \X (1..f[t].nl) : t \in S}
<1>1. chunk \in Surjection(S, T)
  BY DEF Surjection
<1>2. IsFiniteSet(S)
  BY FS_Subset
<1>3. IsFiniteSet(T)
  <2> HIDE DEF chunk, T
  <2>1. QED
    BY <1>1, <1>2, FS_Surjection
<1>4. \A C \in T : IsFiniteSet(C)
  <2>1. \A t \in S : f[t].nl \in Nat
    BY DEF Frame
  <2>2. \A t \in S : IsFiniteSet({t} \X (1..f[t].nl))
    BY <2>1, ChunkSize
  <2>3. QED
    BY <2>2
<1>5. IsFiniteSet(UNION T)
  <2> HIDE DEF T
  <2>1. QED
    BY <1>3, <1>4, FS_UNION
<1>6. QED
  BY <1>5, FS_CardinalityType DEF GivenBack

(* One goroutine's share of a sum.                                         *)
LEMMA SumSplit ==
  ASSUME NEW f \in [Thread -> Frame], NEW S \in SUBSET Thread, NEW t \in S
  PROVE  Cardinality(GivenBack(S, f)) = Cardinality(GivenBack(S \ {t}, f)) + f[t].nl
<1> DEFINE C == {t} \X (1..f[t].nl)
           R == GivenBack(S \ {t}, f)
<1>1. GivenBack(S, f) = R \cup C
  BY DEF GivenBack
<1>2. R \cap C = {}
  BY DEF GivenBack
<1>3. IsFiniteSet(C) /\ Cardinality(C) = f[t].nl /\ f[t].nl \in Nat
  <2>1. f[t].nl \in Nat
    BY DEF Frame
  <2>2. QED
    BY <2>1, ChunkSize
<1>4. IsFiniteSet(R) /\ Cardinality(R) \in Nat
  <2>1. S \ {t} \in SUBSET Thread
    OBVIOUS
  <2>2. QED
    BY <2>1, SumFinite
<1> HIDE DEF C, R
<1>5. Cardinality(R \cup C) = Cardinality(R) + Cardinality(C) - Cardinality(R \cap C)
  BY <1>3, <1>4, FS_Union
<1>6. Cardinality(R \cap C) = 0
  BY <1>2, FS_EmptySet
<1>7. Cardinality(GivenBack(S, f)) = Cardinality(R) + f[t].nl
  BY <1>1, <1>3, <1>4, <1>5, <1>6
<1>8. QED
  BY <1>7 DEF R

(* The sum over fewer goroutines is smaller, by the share of each one that *)
(* is missing.                                                             *)
LEMMA SumMono ==
  ASSUME NEW f \in [Thread -> Frame], NEW S \in SUBSET Thread, NEW T \in SUBSET S
  PROVE  /\ Cardinality(GivenBack(T, f)) <= Cardinality(GivenBack(S, f))
         /\ \A t \in S \ T :
              Cardinality(GivenBack(T, f)) + f[t].nl <= Cardinality(GivenBack(S, f))
<1>1. ASSUME NEW U \in SUBSET S, NEW V \in SUBSET U
      PROVE  Cardinality(GivenBack(V, f)) <= Cardinality(GivenBack(U, f))
  <2>1. U \in SUBSET Thread
    OBVIOUS
  <2>2. IsFiniteSet(GivenBack(U, f))
    BY <2>1, SumFinite
  <2>3. GivenBack(V, f) \in SUBSET GivenBack(U, f)
    BY DEF GivenBack
  <2>4. QED
    BY <2>2, <2>3, FS_Subset
<1>2. ASSUME NEW t \in S \ T
      PROVE  Cardinality(GivenBack(T, f)) + f[t].nl <= Cardinality(GivenBack(S, f))
  <2>1. Cardinality(GivenBack(S, f)) = Cardinality(GivenBack(S \ {t}, f)) + f[t].nl
    BY SumSplit
  <2>2. Cardinality(GivenBack(T, f)) <= Cardinality(GivenBack(S \ {t}, f))
    BY <1>1
  <2>3. /\ Cardinality(GivenBack(T, f)) \in Nat /\ f[t].nl \in Nat
        /\ Cardinality(GivenBack(S \ {t}, f)) \in Nat
    <3>1. T \in SUBSET Thread /\ S \ {t} \in SUBSET Thread /\ t \in Thread
      OBVIOUS
    <3>2. QED
      BY <3>1, SumFinite DEF Frame
  <2>4. QED
    BY <2>1, <2>2, <2>3
<1>3. QED
  BY <1>1, <1>2

(* When one goroutine moves, a sum changes by what its share changes.      *)
LEMMA SumMove ==
  ASSUME NEW f \in [Thread -> Frame], NEW g \in [Thread -> Frame],
         NEW S \in SUBSET Thread, NEW T \in SUBSET Thread, NEW t \in Thread,
         S \ {t} = T \ {t}, \A u \in Thread \ {t} : f[u] = g[u]
  PROVE  Cardinality(GivenBack(S, f)) + (IF t \in T THEN g[t].nl ELSE 0)
           = Cardinality(GivenBack(T, g)) + (IF t \in S THEN f[t].nl ELSE 0)
<1> DEFINE R == GivenBack(S \ {t}, f)
<1>1. Cardinality(GivenBack(S, f)) = Cardinality(R) + (IF t \in S THEN f[t].nl ELSE 0)
  <2>1. CASE t \in S
    BY <2>1, SumSplit
  <2>2. CASE t \notin S
    <3>1. R = GivenBack(S, f)
      BY <2>2 DEF GivenBack
    <3>2. Cardinality(GivenBack(S, f)) \in Nat
      BY SumFinite
    <3> HIDE DEF R
    <3>3. QED
      BY <2>2, <3>1, <3>2
  <2>3. QED
    BY <2>1, <2>2
<1>2. R = GivenBack(T \ {t}, g)
  BY DEF GivenBack
<1>3. Cardinality(GivenBack(T, g)) = Cardinality(R) + (IF t \in T THEN g[t].nl ELSE 0)
  <2>1. CASE t \in T
    BY <1>2, <2>1, SumSplit
  <2>2. CASE t \notin T
    <3>1. GivenBack(T \ {t}, g) = GivenBack(T, g)
      BY <2>2 DEF GivenBack
    <3>2. Cardinality(GivenBack(T, g)) \in Nat
      BY SumFinite
    <3> HIDE DEF R
    <3>3. QED
      BY <1>2, <2>2, <3>1, <3>2
  <2>3. QED
    BY <2>1, <2>2
<1>4. Cardinality(R) \in Nat /\ f[t].nl \in Nat /\ g[t].nl \in Nat
  <2>1. S \ {t} \in SUBSET Thread
    OBVIOUS
  <2>2. QED
    BY <2>1, SumFinite DEF Frame
<1> HIDE DEF R
<1>5. QED
  BY <1>1, <1>3, <1>4

(* The same for a number of goroutines.                                    *)
LEMMA CountMove ==
  ASSUME NEW S \in SUBSET Thread, NEW T \in SUBSET Thread, NEW t \in Thread,
         S \ {t} = T \ {t}
  PROVE  /\ Cardinality(S) \in Nat /\ Cardinality(T) \in Nat
         /\ Cardinality(S) + (IF t \in T THEN 1 ELSE 0)
              = Cardinality(T) + (IF t \in S THEN 1 ELSE 0)
         /\ t \in S => 1 <= Cardinality(S)
<1>1. /\ IsFiniteSet(S) /\ IsFiniteSet(T)
      /\ Cardinality(S) \in Nat /\ Cardinality(T) \in Nat
  BY FS_Subset, FS_CardinalityType
<1>2. /\ Cardinality(S \ {t}) = IF t \in S THEN Cardinality(S) - 1 ELSE Cardinality(S)
      /\ Cardinality(T \ {t}) = IF t \in T THEN Cardinality(T) - 1 ELSE Cardinality(T)
  BY <1>1, FS_RemoveElement
<1>3. Cardinality(S) = 0 => t \notin S
  BY <1>1, FS_EmptySet
<1> DEFINE a == Cardinality(S \ {t})
           b == Cardinality(T \ {t})
           x == Cardinality(S)
           y == Cardinality(T)
<1>4. a = b
  OBVIOUS
<1>5. /\ x \in Nat /\ y \in Nat
      /\ (t \in S => a = x - 1 /\ 1 <= x) /\ (t \notin S => a = x)
      /\ (t \in T => b = y - 1) /\ (t \notin T => b = y)
  BY <1>1, <1>2, <1>3
<1> HIDE DEF a, b, x, y
<1>6. /\ x \in Nat /\ y \in Nat
      /\ x + (IF t \in T THEN 1 ELSE 0) = y + (IF t \in S THEN 1 ELSE 0)
      /\ t \in S => 1 <= x
  <2>1. CASE t \in S /\ t \in T
    BY <1>4, <1>5, <2>1
  <2>2. CASE t \in S /\ t \notin T
    BY <1>4, <1>5, <2>2
  <2>3. CASE t \notin S /\ t \in T
    BY <1>4, <1>5, <2>3
  <2>4. CASE t \notin S /\ t \notin T
    BY <1>4, <1>5, <2>4
  <2>5. QED
    BY <2>1, <2>2, <2>3, <2>4
<1>7. QED
  BY <1>6 DEF x, y

-----------------------------------------------------------------------------
(* One goroutine's share of what is in flight.                             *)

RepAt(t, i) == IF pc[t] = "done" /\ fr[t].cino = i THEN 1 ELSE 0
FgtAt(t, i) == IF fr[t].pino = i THEN fr[t].nl ELSE 0
AimAt(t, i) == IF fr[t].pino = i /\ ~Stray(t, i) THEN fr[t].nl ELSE 0

(* What is in flight changes by what the goroutine that moves changes.     *)
LEMMA InFlight ==
  ASSUME Shape, Shape', NEW t \in Thread, Step(t) \/ Kernel(t), NEW i \in Ino
  PROVE  /\ RepliesOf(i)' + RepAt(t, i) = RepliesOf(i) + RepAt(t, i)'
         /\ ForgetsOf(i)' + FgtAt(t, i) = ForgetsOf(i) + FgtAt(t, i)'
         /\ nodes'[i] = nodes[i] =>
              AimedAt(i)' + AimAt(t, i) = AimedAt(i) + AimAt(t, i)'
         /\ RepliesOf(i) \in Nat /\ ForgetsOf(i) \in Nat /\ AimedAt(i) \in Nat
         /\ RepliesOf(i)' \in Nat /\ ForgetsOf(i)' \in Nat /\ AimedAt(i)' \in Nat
<1>1. \A u \in Thread \ {t} : pc'[u] = pc[u] /\ fr'[u] = fr[u]
  BY OthersStay
<1>2. fr \in [Thread -> Frame] /\ fr' \in [Thread -> Frame]
  BY DEF Shape, TypeOK
<1>3. /\ RepliesOf(i)' + RepAt(t, i) = RepliesOf(i) + RepAt(t, i)'
      /\ RepliesOf(i) \in Nat /\ RepliesOf(i)' \in Nat
  <2> DEFINE S == {u \in Thread : pc[u] = "done" /\ fr[u].cino = i}
             T == {u \in Thread : pc'[u] = "done" /\ fr'[u].cino = i}
  <2>1. S \in SUBSET Thread /\ T \in SUBSET Thread /\ S \ {t} = T \ {t}
    BY <1>1
  <2>2. /\ (t \in S <=> pc[t] = "done" /\ fr[t].cino = i)
        /\ (t \in T <=> pc'[t] = "done" /\ fr'[t].cino = i)
    OBVIOUS
  <2>3. RepliesOf(i) = Cardinality(S) /\ RepliesOf(i)' = Cardinality(T)
    BY DEF RepliesOf
  <2> HIDE DEF S, T
  <2>4. /\ Cardinality(S) \in Nat /\ Cardinality(T) \in Nat
        /\ Cardinality(S) + (IF t \in T THEN 1 ELSE 0)
             = Cardinality(T) + (IF t \in S THEN 1 ELSE 0)
    BY <2>1, CountMove
  <2>5. QED
    BY <2>2, <2>3, <2>4 DEF RepAt
<1>4. /\ ForgetsOf(i)' + FgtAt(t, i) = ForgetsOf(i) + FgtAt(t, i)'
      /\ ForgetsOf(i) \in Nat /\ ForgetsOf(i)' \in Nat
  <2> DEFINE S == {u \in Thread : fr[u].pino = i}
             T == {u \in Thread : fr'[u].pino = i}
  <2>1. S \in SUBSET Thread /\ T \in SUBSET Thread /\ S \ {t} = T \ {t}
    BY <1>1
  <2>2. (t \in S <=> fr[t].pino = i) /\ (t \in T <=> fr'[t].pino = i)
    OBVIOUS
  <2>3. /\ ForgetsOf(i) = Cardinality(GivenBack(S, fr))
        /\ ForgetsOf(i)' = Cardinality(GivenBack(T, fr'))
    BY DEF ForgetsOf, GivenBack
  <2> HIDE DEF S, T
  <2>4. Cardinality(GivenBack(S, fr)) \in Nat /\ Cardinality(GivenBack(T, fr')) \in Nat
    BY <1>2, <2>1, SumFinite
  <2>5. Cardinality(GivenBack(S, fr)) + (IF t \in T THEN fr'[t].nl ELSE 0)
          = Cardinality(GivenBack(T, fr')) + (IF t \in S THEN fr[t].nl ELSE 0)
    BY <1>1, <1>2, <2>1, SumMove
  <2>6. QED
    BY <2>2, <2>3, <2>4, <2>5 DEF FgtAt
<1>5. /\ nodes'[i] = nodes[i] =>
           AimedAt(i)' + AimAt(t, i) = AimedAt(i) + AimAt(t, i)'
      /\ AimedAt(i) \in Nat /\ AimedAt(i)' \in Nat
  <2> DEFINE S == {u \in Thread : fr[u].pino = i /\ ~Stray(u, i)}
             T == {u \in Thread : fr'[u].pino = i /\ ~Stray(u, i)'}
  <2>1. S \in SUBSET Thread /\ T \in SUBSET Thread
    OBVIOUS
  <2>2. ASSUME nodes'[i] = nodes[i] PROVE S \ {t} = T \ {t}
    <3>1. \A u \in Thread \ {t} : Stray(u, i) <=> Stray(u, i)'
      BY <1>1, <2>2 DEF Stray
    <3>2. QED
      BY <1>1, <3>1
  <2>3. /\ (t \in S <=> fr[t].pino = i /\ ~Stray(t, i))
        /\ (t \in T <=> fr'[t].pino = i /\ ~Stray(t, i)')
    OBVIOUS
  <2>4. /\ AimedAt(i) = Cardinality(GivenBack(S, fr))
        /\ AimedAt(i)' = Cardinality(GivenBack(T, fr'))
    BY DEF AimedAt, GivenBack
  <2> HIDE DEF S, T
  <2>5. Cardinality(GivenBack(S, fr)) \in Nat /\ Cardinality(GivenBack(T, fr')) \in Nat
    BY <1>2, <2>1, SumFinite
  <2>6. nodes'[i] = nodes[i] =>
          Cardinality(GivenBack(S, fr)) + (IF t \in T THEN fr'[t].nl ELSE 0)
            = Cardinality(GivenBack(T, fr')) + (IF t \in S THEN fr[t].nl ELSE 0)
    BY <1>1, <1>2, <2>1, <2>2, SumMove
  <2>7. QED
    BY <2>3, <2>4, <2>5, <2>6 DEF AimAt
<1>6. QED
  BY <1>3, <1>4, <1>5

(* A goroutine's share is part of the sum; what is aimed at an inode is    *)
(* part of what is given back for its number, without the stray shares.    *)
LEMMA OwnShare ==
  ASSUME Shape, NEW t \in Thread, NEW i \in Ino
  PROVE  /\ RepAt(t, i) <= RepliesOf(i) /\ FgtAt(t, i) <= ForgetsOf(i)
         /\ AimAt(t, i) <= FgtAt(t, i) /\ AimedAt(i) <= ForgetsOf(i)
         /\ AimedAt(i) + FgtAt(t, i) <= ForgetsOf(i) + AimAt(t, i)
         /\ RepAt(t, i) \in Nat /\ FgtAt(t, i) \in Nat /\ AimAt(t, i) \in Nat
         /\ RepliesOf(i) \in Nat /\ ForgetsOf(i) \in Nat /\ AimedAt(i) \in Nat
<1>0. fr \in [Thread -> Frame] /\ fr[t].nl \in Nat
  BY DEF Shape, TypeOK, Frame
<1>1. RepAt(t, i) <= RepliesOf(i) /\ RepliesOf(i) \in Nat
  <2> DEFINE S == {u \in Thread : pc[u] = "done" /\ fr[u].cino = i}
  <2>1. /\ S \in SUBSET Thread /\ (t \in S <=> pc[t] = "done" /\ fr[t].cino = i)
        /\ RepliesOf(i) = Cardinality(S)
    BY DEF RepliesOf
  <2> HIDE DEF S
  <2>2. Cardinality(S) \in Nat /\ (t \in S => 1 <= Cardinality(S))
    BY <2>1, CountMove
  <2>3. QED
    BY <2>1, <2>2 DEF RepAt
<1>2. /\ FgtAt(t, i) <= ForgetsOf(i) /\ AimedAt(i) <= ForgetsOf(i)
      /\ AimedAt(i) + FgtAt(t, i) <= ForgetsOf(i) + AimAt(t, i)
      /\ ForgetsOf(i) \in Nat /\ AimedAt(i) \in Nat
  <2> DEFINE S == {u \in Thread : fr[u].pino = i}
             T == {u \in Thread : fr[u].pino = i /\ ~Stray(u, i)}
             x == Cardinality(GivenBack(S, fr))
             y == Cardinality(GivenBack(T, fr))
             z == Cardinality(GivenBack({}, fr))
  <2>1. /\ S \in SUBSET Thread /\ T \in SUBSET S /\ T \in SUBSET Thread
        /\ {} \in SUBSET S /\ {} \in SUBSET Thread
        /\ (t \in S <=> fr[t].pino = i)
        /\ (t \in T <=> fr[t].pino = i /\ ~Stray(t, i))
        /\ t \notin {}
    OBVIOUS
  <2>2. ForgetsOf(i) = x /\ AimedAt(i) = y
    BY DEF ForgetsOf, AimedAt
  <2> HIDE DEF S, T
  <2>3. x \in Nat /\ y \in Nat /\ z \in Nat
    BY <1>0, <2>1, SumFinite
  <2>4. y <= x /\ (t \in S \ T => y + fr[t].nl <= x)
    BY <1>0, <2>1, SumMono
  <2>5. t \in S \ {} => z + fr[t].nl <= x
    BY <1>0, <2>1, SumMono
  <2> HIDE DEF x, y, z
  <2>6. QED
    BY <1>0, <2>1, <2>2, <2>3, <2>4, <2>5 DEF FgtAt, AimAt
<1>3. /\ AimAt(t, i) <= FgtAt(t, i)
      /\ RepAt(t, i) \in Nat /\ FgtAt(t, i) \in Nat /\ AimAt(t, i) \in Nat
  BY <1>0 DEF AimAt, FgtAt, RepAt
<1>4. QED
  BY <1>1, <1>2, <1>3

-----------------------------------------------------------------------------
(* What one step does to the moving goroutine's node ids, to the lookups   *)
(* it gives back, and to the kernel's counts.                              *)

(* The node ids of a request and its kind stay.                            *)
SameIds(t) ==
  /\ fr'[t].op = fr[t].op /\ fr'[t].cino = fr[t].cino
  /\ fr'[t].pino = fr[t].pino /\ fr'[t].npino = fr[t].npino

(* It waits for a mutex, or the process is gone.                           *)
Stays(t) == UNCHANGED <<pc, fr, kcount>>

(* A request that names node ids begins.                                   *)
Asks(t) ==
  /\ pc[t] = "idle" /\ pc'[t] = "resolve" /\ kcount' = kcount
  /\ fr'[t].nl = 0 /\ fr'[t].cino = NoIno
  /\ fr'[t].op \notin {"None", "Forget"}
  /\ \A i \in Ino : i \in {fr'[t].pino, fr'[t].npino} => kcount[i] > 0

(* A FORGET begins: the kernel has taken the lookups off its own count.    *)
Gives(t) ==
  LET i == fr'[t].pino
      n == fr'[t].nl
  IN  /\ pc[t] = "idle" /\ pc'[t] = "forget"
      /\ fr'[t].op = "Forget" /\ fr'[t].cino = NoIno
      /\ i \in Ino /\ n \in Nat /\ n > 0 /\ n <= kcount[i]
      /\ n = kcount[i] => ~InUse(i)
      /\ kcount' = [kcount EXCEPT ![i] = @ - n]

(* A reply arrives.                                                        *)
Hears(t) ==
  /\ pc[t] = "done" /\ pc'[t] = "idle" /\ fr'[t] = IdleFrame
  /\ kcount' = [i \in Ino |-> IF i = fr[t].cino THEN kcount[i] + 1 ELSE kcount[i]]

(* The file system names the entry's inode.                                *)
Finds(t) ==
  /\ pc[t] = "resolve" /\ pc'[t] = "addCheck" /\ kcount' = kcount
  /\ fr'[t].op = fr[t].op /\ fr'[t].nl = fr[t].nl
  /\ fr'[t].pino = fr[t].pino /\ fr'[t].npino = fr[t].npino

(* addChild succeeds.                                                      *)
Adds(t) ==
  /\ AddCommit(t)
  /\ pc[t] = "addCheck" /\ pc'[t] = "done" /\ kcount' = kcount
  /\ SameIds(t) /\ fr'[t].nl = 0

(* A FORGET does not find its node, or does.                               *)
Misses(t) ==
  /\ pc[t] = "forget" /\ pc'[t] = "done" /\ kcount' = kcount
  /\ SameIds(t) /\ fr'[t].nl = 0 /\ nodes[fr[t].pino] = Nil
Hits(t) ==
  /\ pc[t] = "forget" /\ pc'[t] = "refDec" /\ kcount' = kcount
  /\ SameIds(t) /\ fr'[t].nl = fr[t].nl
  /\ nodes[fr[t].pino] # Nil /\ Head(fr'[t].todo) = nodes[fr[t].pino]

(* removeRef gives the lookups back.                                       *)
Decs(t) ==
  /\ DecLive(t) \/ DecDead(t)
  /\ pc[t] = "refDec" /\ pc'[t] \in {"refDec", "refUnlink", "compact", "done"}
  /\ kcount' = kcount /\ SameIds(t) /\ fr'[t].nl = 0

(* All that is between.                                                    *)
Goes(t) ==
  /\ pc[t] \notin {"idle", "forget", "refDec", "done"}
  /\ pc'[t] \notin {"idle", "forget"}
  /\ pc[t] = "addCheck" <=> pc'[t] = "addCheck"
  /\ pc'[t] \in {"resolve", "resolve2"} => pc[t] \in {"resolve", "resolve2"}
  /\ kcount' = kcount /\ SameIds(t) /\ fr'[t].nl \in {0, fr[t].nl}
  /\ pc'[t] = "refDec" => fr'[t].nl = 0

(* Bare keeps the ids and drops the lookups.                               *)
LEMMA BareFields ==
  ASSUME NEW f
  PROVE  /\ Bare(f).op = f.op /\ Bare(f).cino = f.cino
         /\ Bare(f).pino = f.pino /\ Bare(f).npino = f.npino
         /\ Bare(f).nl = 0
  BY DEF Bare, IdleFrame

(* So does what is left of a removeRef.                                    *)
LEMMA DerefFields ==
  ASSUME ThreadsOK, NEW t \in Thread, NEW f, NEW todo, Deref(t, f, todo)
  PROVE  /\ pc'[t] \in {"refDec", "compact", "done"}
         /\ fr'[t].op = f.op /\ fr'[t].cino = f.cino
         /\ fr'[t].pino = f.pino /\ fr'[t].npino = f.npino
         /\ fr'[t].nl = 0
<1>1. CASE todo # <<>>
  <2> DEFINE g == [Bare(f) EXCEPT !.todo = todo, !.removed = f.removed]
  <2>1. Goto(t, "refDec", {Head(todo)}, g)
    BY <1>1 DEF Deref
  <2>2. g.op = f.op /\ g.cino = f.cino /\ g.pino = f.pino /\ g.npino = f.npino /\ g.nl = 0
    BY DEF Bare, IdleFrame
  <2> HIDE DEF g
  <2>3. QED
    BY <2>1, <2>2, GotoEffect
<1>2. CASE todo = <<>>
  <2>1. Goto(t, "compact", {}, Bare(f)) \/ Goto(t, "done", {}, Bare(f))
    BY <1>2 DEF Deref, Done
  <2>2. QED
    BY <2>1, BareFields, GotoEffect
<1>3. QED
  BY <1>1, <1>2

(* Requests of the kernel.                                                 *)
LEMMA KernelEffect ==
  ASSUME Shape, NEW t \in Thread, Kernel(t)
  PROVE  Asks(t) \/ Gives(t)
<1>1. ThreadsOK
  BY ShapeThreads
<1>2. CASE SendEntry(t)
  <2>1. PICK k \in {"Lookup", "Make", "Remove"}, p \in DirIno, m \in Name :
          /\ kcount[p] > 0 /\ kcount' = kcount
          /\ Send(t, "resolve", [IdleFrame EXCEPT !.op = k, !.pino = p, !.name = m])
    BY <1>2 DEF SendEntry
  <2> DEFINE g == [IdleFrame EXCEPT !.op = k, !.pino = p, !.name = m]
  <2>2. g.op = k /\ g.cino = NoIno /\ g.pino = p /\ g.npino = NoIno /\ g.nl = 0
    BY DEF IdleFrame
  <2>3. Goto(t, "resolve", {}, g) /\ pc[t] = "idle"
    BY <2>1 DEF Send, At
  <2> HIDE DEF g
  <2>4. pc'[t] = "resolve" /\ fr'[t] = g
    BY <1>1, <2>3, GotoEffect
  <2>5. \A i \in Ino : i \in {g.pino, g.npino} => i = p
    BY <2>2 DEF NoIno
  <2>6. Asks(t)
    BY <2>1, <2>2, <2>3, <2>4, <2>5 DEF Asks
  <2>7. QED
    BY <2>6
<1>3. CASE SendRename(t)
  <2>1. PICK mv \in Moves :
          /\ kcount[mv[1]] > 0 /\ kcount[mv[3]] > 0 /\ kcount' = kcount
          /\ Send(t, "resolve", [IdleFrame EXCEPT !.op = "Rename", !.pino = mv[1],
                           !.name = mv[2], !.npino = mv[3], !.nname = mv[4]])
    BY <1>3 DEF SendRename
  <2> DEFINE g == [IdleFrame EXCEPT !.op = "Rename", !.pino = mv[1],
                           !.name = mv[2], !.npino = mv[3], !.nname = mv[4]]
  <2>2. /\ g.op = "Rename" /\ g.cino = NoIno /\ g.pino = mv[1] /\ g.npino = mv[3]
        /\ g.nl = 0
    BY DEF IdleFrame
  <2>3. Goto(t, "resolve", {}, g) /\ pc[t] = "idle"
    BY <2>1 DEF Send, At
  <2> HIDE DEF g
  <2>4. pc'[t] = "resolve" /\ fr'[t] = g
    BY <1>1, <2>3, GotoEffect
  <2>5. Asks(t)
    BY <2>1, <2>2, <2>3, <2>4 DEF Asks
  <2>6. QED
    BY <2>5
<1>4. CASE SendForget(t)
  <2>1. PICK i \in Evictable : \E n \in 1..kcount[i] :
          /\ n = kcount[i] => ~InUse(i)
          /\ Send(t, "forget", [IdleFrame EXCEPT !.op = "Forget", !.pino = i, !.nl = n])
          /\ kcount' = [kcount EXCEPT ![i] = @ - n]
    BY <1>4 DEF SendForget
  <2>2. i \in Ino /\ kcount[i] \in Nat
    BY DEF Shape, TypeOK
  <2>3. PICK n \in 1..kcount[i] :
          /\ n = kcount[i] => ~InUse(i)
          /\ Send(t, "forget", [IdleFrame EXCEPT !.op = "Forget", !.pino = i, !.nl = n])
          /\ kcount' = [kcount EXCEPT ![i] = @ - n]
    BY <2>1
  <2> DEFINE g == [IdleFrame EXCEPT !.op = "Forget", !.pino = i, !.nl = n]
  <2>4. g.op = "Forget" /\ g.cino = NoIno /\ g.pino = i /\ g.nl = n
    BY DEF IdleFrame
  <2>5. Goto(t, "forget", {}, g) /\ pc[t] = "idle"
    BY <2>3 DEF Send, At
  <2> HIDE DEF g
  <2>6. pc'[t] = "forget" /\ fr'[t] = g
    BY <1>1, <2>5, GotoEffect
  <2>7. n \in Nat /\ n > 0 /\ n <= kcount[i]
    BY <2>2
  <2>8. Gives(t)
    BY <2>2, <2>3, <2>4, <2>5, <2>6, <2>7 DEF Gives
  <2>9. QED
    BY <2>8
<1>5. QED
  BY <1>2, <1>3, <1>4 DEF Kernel

(* The handlers around the four operations.                                *)
LEMMA HandlerEffect ==
  ASSUME Shape, NEW t \in Thread, Handler(t)
  PROVE  Stays(t) \/ Finds(t) \/ Misses(t) \/ Hits(t) \/ Hears(t) \/ Goes(t)
<1> DEFINE f == fr[t]
<1>0. ThreadsOK /\ f \in Frame /\ kcount \in [Ino -> Nat]
  BY ShapeThreads DEF Shape, TypeOK
<1>1. CASE UnknownNode(t)
  BY <1>1 DEF UnknownNode, Fail, threadVars, kernelVars, Stays
<1>2. CASE EntryFound(t)
  <2>1. PICK c \in Ino :
          Serve(t, "addCheck", {Parent(t)}, [f EXCEPT !.parent = Parent(t), !.cino = c])
    BY <1>2 DEF EntryFound
  <2> DEFINE g == [f EXCEPT !.parent = Parent(t), !.cino = c]
  <2>2. g.op = f.op /\ g.pino = f.pino /\ g.npino = f.npino /\ g.nl = f.nl
    BY <1>0 DEF Frame
  <2>3. Goto(t, "addCheck", {Parent(t)}, g) /\ kcount' = kcount
    BY <2>1 DEF Serve, kernelVars
  <2> HIDE DEF g
  <2>4. pc'[t] = "addCheck" /\ fr'[t] = g /\ pc[t] = "resolve"
    BY <1>0, <1>2, <2>3, GotoEffect DEF EntryFound, At
  <2>5. Finds(t)
    BY <2>2, <2>3, <2>4 DEF Finds
  <2>6. QED
    BY <2>5
<1>3. ASSUME NEW l, NEW group, NEW g, Serve(t, l, group, g),
             g.op = f.op, g.cino = f.cino, g.pino = f.pino, g.npino = f.npino,
             g.nl \in {0, f.nl},
             \/ pc[t] = "resolve" /\ l \in {"rmRead", "done", "resolve2"}
             \/ pc[t] = "resolve2" /\ l \in {"done", "mvRead"}
      PROVE  Goes(t)
  <2>1. Goto(t, l, group, g) /\ kcount' = kcount
    BY <1>3 DEF Serve, kernelVars
  <2>2. pc'[t] = l /\ fr'[t] = g
    BY <1>0, <2>1, GotoEffect
  <2>3. QED
    BY <1>3, <2>1, <2>2 DEF Goes, SameIds
<1>4. CASE EntryGone(t)
  <2> DEFINE g == [f EXCEPT !.parent = Parent(t)]
  <2>1. Serve(t, "rmRead", {Parent(t)}, g) /\ pc[t] = "resolve"
    BY <1>4 DEF EntryGone, At
  <2>2. /\ g.op = f.op /\ g.cino = f.cino /\ g.pino = f.pino /\ g.npino = f.npino
        /\ g.nl \in {0, f.nl}
    BY <1>0 DEF Frame
  <2> HIDE DEF g
  <2>3. Goes(t)
    BY <1>3, <2>1, <2>2
  <2>4. QED
    BY <2>3
<1>5. CASE Refused(t)
  <2>1. Serve(t, "done", {}, Bare(f)) /\ pc[t] \in {"resolve", "resolve2"}
    BY <1>5 DEF Refused, At
  <2>2. Goes(t)
    BY <1>3, <2>1, BareFields
  <2>3. QED
    BY <2>2
<1>6. CASE RenameFrom(t)
  <2> DEFINE g == [f EXCEPT !.parent = Parent(t)]
  <2>1. Serve(t, "resolve2", {}, g) /\ pc[t] = "resolve"
    BY <1>6 DEF RenameFrom, At
  <2>2. /\ g.op = f.op /\ g.cino = f.cino /\ g.pino = f.pino /\ g.npino = f.npino
        /\ g.nl \in {0, f.nl}
    BY <1>0 DEF Frame
  <2> HIDE DEF g
  <2>3. Goes(t)
    BY <1>3, <2>1, <2>2
  <2>4. QED
    BY <2>3
<1>7. CASE RenameTo(t)
  <2> DEFINE np == nodes[f.npino]
             g == [f EXCEPT !.newParent = np]
  <2>1. Serve(t, "mvRead", {f.parent, np}, g) /\ pc[t] = "resolve2"
    BY <1>7 DEF RenameTo, At
  <2>2. /\ g.op = f.op /\ g.cino = f.cino /\ g.pino = f.pino /\ g.npino = f.npino
        /\ g.nl \in {0, f.nl}
    BY <1>0 DEF Frame
  <2> HIDE DEF g
  <2>3. Goes(t)
    BY <1>3, <2>1, <2>2
  <2>4. QED
    BY <2>3
<1>8. CASE ForgetUnknown(t)
  <2>1. /\ Goto(t, "done", {}, Bare(f)) /\ kcount' = kcount
        /\ pc[t] = "forget" /\ nodes[f.pino] = Nil
    BY <1>8 DEF ForgetUnknown, Serve, kernelVars, At, Parent
  <2>2. pc'[t] = "done" /\ fr'[t] = Bare(f)
    BY <1>0, <2>1, GotoEffect
  <2>3. Misses(t)
    BY <2>1, <2>2, BareFields DEF Misses, SameIds
  <2>4. QED
    BY <2>3
<1>9. CASE ForgetKnown(t)
  <2> DEFINE g == [f EXCEPT !.todo = <<Parent(t)>>]
  <2>1. /\ Goto(t, "refDec", {Parent(t)}, g) /\ kcount' = kcount
        /\ pc[t] = "forget" /\ Parent(t) # Nil
    BY <1>9 DEF ForgetKnown, Serve, kernelVars, At
  <2>2. /\ g.op = f.op /\ g.cino = f.cino /\ g.pino = f.pino /\ g.npino = f.npino
        /\ g.nl = f.nl /\ g.todo = <<Parent(t)>>
    BY <1>0 DEF Frame
  <2> HIDE DEF g
  <2>3. pc'[t] = "refDec" /\ fr'[t] = g
    BY <1>0, <2>1, GotoEffect
  <2>4. Head(g.todo) = Parent(t)
    BY <2>2
  <2>5. Hits(t)
    BY <2>1, <2>2, <2>3, <2>4 DEF Hits, SameIds, Parent
  <2>6. QED
    BY <2>5
<1>10. CASE Compact(t)
  <2>1. Goto(t, "done", {}, Bare(f)) /\ kcount' = kcount /\ pc[t] = "compact"
    BY <1>10 DEF Compact, Done, kernelVars, At
  <2>2. pc'[t] = "done" /\ fr'[t] = Bare(f)
    BY <1>0, <2>1, GotoEffect
  <2>3. Goes(t)
    BY <2>1, <2>2, BareFields DEF Goes, SameIds
  <2>4. QED
    BY <2>3
<1>11. CASE Reply(t)
  <2>1. /\ Goto(t, "idle", {}, IdleFrame) /\ pc[t] = "done"
        /\ kcount' = [i \in Ino |-> kcount[i] + One(i = f.cino)]
    BY <1>11 DEF Reply, At
  <2>2. pc'[t] = "idle" /\ fr'[t] = IdleFrame
    BY <1>0, <2>1, GotoEffect
  <2>3. \A i \in Ino : kcount[i] + One(i = f.cino)
                         = IF i = f.cino THEN kcount[i] + 1 ELSE kcount[i]
    <3> SUFFICES ASSUME NEW i \in Ino
                 PROVE  kcount[i] + One(i = f.cino)
                          = IF i = f.cino THEN kcount[i] + 1 ELSE kcount[i]
      OBVIOUS
    <3>1. kcount[i] \in Nat
      BY <1>0
    <3>2. CASE i = f.cino
      BY <3>2 DEF One
    <3>3. CASE i # f.cino
      BY <3>1, <3>3 DEF One
    <3>4. QED
      BY <3>2, <3>3
  <2>4. kcount' = [i \in Ino |-> IF i = f.cino THEN kcount[i] + 1 ELSE kcount[i]]
    BY <2>1, <2>3
  <2>5. Hears(t)
    BY <2>1, <2>2, <2>4 DEF Hears
  <2>6. QED
    BY <2>5
<1>12. QED
  BY <1>1, <1>2, <1>4, <1>5, <1>6, <1>7, <1>8, <1>9, <1>10, <1>11 DEF Handler

(* A commit of addChild ends the request with an entry.                    *)
LEMMA AddEffect ==
  ASSUME Shape, NEW t \in Thread, AddCommit(t)
  PROVE  Adds(t)
<1>1. Goto(t, "done", {}, Bare(fr[t])) /\ kcount' = kcount /\ pc[t] = "addCheck"
  BY DEF AddCommit, Done, kernelVars, At
<1>2. pc'[t] = "done" /\ fr'[t] = Bare(fr[t])
  BY <1>1, ShapeThreads, GotoEffect
<1>3. QED
  BY <1>1, <1>2, BareFields DEF Adds, SameIds

(* A removeRef that has given its lookups back owes none.                  *)
LEMMA DecEffect ==
  ASSUME Shape, NEW t \in Thread, DecLive(t) \/ DecDead(t)
  PROVE  Decs(t)
<1> DEFINE f == fr[t]
           n == Head(f.todo)
<1>0. ThreadsOK /\ f \in Frame
  BY ShapeThreads DEF Shape, TypeOK
<1>1. CASE DecLive(t)
  <2>1. Deref(t, f, Tail(f.todo)) /\ kcount' = kcount /\ pc[t] = "refDec"
    BY <1>1 DEF DecLive, At, kernelVars
  <2>2. SameIds(t) /\ fr'[t].nl = 0 /\ pc'[t] \in {"refDec", "compact", "done"}
    BY <1>0, <2>1, DerefFields DEF SameIds
  <2>3. QED
    BY <1>1, <2>1, <2>2 DEF Decs
<1>2. CASE DecDead(t)
  <2> DEFINE g == [f EXCEPT !.nl = 0, !.pes = parents[n], !.rev = revision'[n]]
  <2>1. Goto(t, "refUnlink", LockGroup(n), g) /\ kcount' = kcount /\ pc[t] = "refDec"
    BY <1>2 DEF DecDead, At, kernelVars
  <2>2. /\ g.op = f.op /\ g.cino = f.cino /\ g.pino = f.pino /\ g.npino = f.npino
        /\ g.nl = 0
    BY <1>0 DEF Frame
  <2> HIDE DEF g
  <2>3. pc'[t] = "refUnlink" /\ fr'[t] = g
    BY <1>0, <2>1, GotoEffect
  <2>4. QED
    BY <1>2, <2>1, <2>2, <2>3 DEF Decs, SameIds
<1>3. QED
  BY <1>1, <1>2

(* addChild, rmChild and mvChild.                                          *)
LEMMA ChildOpsEffect ==
  ASSUME Shape, NEW t \in Thread, AddChild(t) \/ RmChild(t) \/ MvChild(t)
  PROVE  Adds(t) \/ Goes(t)
<1> DEFINE f == fr[t]
<1>0. ThreadsOK /\ f \in Frame
  BY ShapeThreads DEF Shape, TypeOK
<1>1. CASE AddCommit(t)
  BY <1>1, AddEffect
<1>2. ASSUME NEW l, NEW group, NEW g, Serve(t, l, group, g),
             g.op = f.op, g.cino = f.cino, g.pino = f.pino, g.npino = f.npino,
             g.nl \in {0, f.nl},
             \/ pc[t] = "addCheck" /\ l = "addCheck"
             \/ /\ pc[t] \in {"rmRead", "rmCommit", "mvRead", "mvCommit"}
                /\ l \in {"rmRead", "rmCommit", "mvRead", "mvCommit", "done"}
      PROVE  Goes(t)
  <2>1. Goto(t, l, group, g) /\ kcount' = kcount
    BY <1>2 DEF Serve, kernelVars
  <2>2. pc'[t] = l /\ fr'[t] = g
    BY <1>0, <2>1, GotoEffect
  <2>3. QED
    BY <1>2, <2>1, <2>2 DEF Goes, SameIds
<1>3. CASE AddRetry(t)
  <2> DEFINE g == [f EXCEPT !.child = nodes[f.cino]]
  <2>1. \E group : Serve(t, "addCheck", group, g)
    BY <1>3 DEF AddRetry
  <2>2. /\ g.op = f.op /\ g.cino = f.cino /\ g.pino = f.pino /\ g.npino = f.npino
        /\ g.nl \in {0, f.nl}
    BY <1>0 DEF Frame
  <2> HIDE DEF g
  <2>3. Goes(t)
    BY <1>2, <1>3, <2>1, <2>2 DEF AddRetry, At
  <2>4. QED
    BY <2>3
<1>4. CASE RmRead(t)
  <2> DEFINE c == children[f.parent][f.name]
             g == [f EXCEPT !.child = c, !.rev = revision[f.parent]]
  <2>1. \/ Serve(t, "done", {}, Bare(f))
        \/ Serve(t, "rmCommit", {f.parent, c}, g)
    BY <1>4 DEF RmRead
  <2>2. /\ g.op = f.op /\ g.cino = f.cino /\ g.pino = f.pino /\ g.npino = f.npino
        /\ g.nl \in {0, f.nl}
    BY <1>0 DEF Frame
  <2>3. pc[t] = "rmRead"
    BY <1>4 DEF RmRead, At
  <2> HIDE DEF g
  <2>4. Goes(t)
    BY <1>2, <2>1, <2>2, <2>3, BareFields
  <2>5. QED
    BY <2>4
<1>5. CASE RmRetry(t) \/ MvRetry(t)
  <2>1. \/ pc[t] = "rmCommit" /\ Serve(t, "rmRead", {f.parent}, f)
        \/ pc[t] = "mvCommit" /\ Serve(t, "mvRead", {f.parent, f.newParent}, f)
    BY <1>5 DEF RmRetry, MvRetry, At
  <2>2. Goes(t)
    BY <1>2, <2>1
  <2>3. QED
    BY <2>2
<1>6. CASE MvRead(t)
  <2> DEFINE c == children[f.parent][f.name]
             d == children[f.newParent][f.nname]
             g == [f EXCEPT !.child = c, !.dest = d, !.rev = revision[f.parent],
                            !.nrev = revision[f.newParent]]
  <2>1. Serve(t, "mvCommit", {f.parent, f.newParent, c, d}, g) /\ pc[t] = "mvRead"
    BY <1>6 DEF MvRead, At
  <2>2. /\ g.op = f.op /\ g.cino = f.cino /\ g.pino = f.pino /\ g.npino = f.npino
        /\ g.nl \in {0, f.nl}
    BY <1>0 DEF Frame
  <2> HIDE DEF g
  <2>3. Goes(t)
    BY <1>2, <2>1, <2>2
  <2>4. QED
    BY <2>3
<1>7. CASE RmCommit(t) \/ MvCommit(t)
  <2>1. /\ pc[t] \in {"rmCommit", "mvCommit"} /\ kcount' = kcount
        /\ \E todo : Deref(t, f, todo)
    BY <1>7 DEF RmCommit, MvCommit, At, kernelVars
  <2>2. SameIds(t) /\ fr'[t].nl = 0 /\ pc'[t] \in {"refDec", "compact", "done"}
    BY <1>0, <2>1, DerefFields DEF SameIds
  <2>3. Goes(t)
    BY <2>1, <2>2 DEF Goes
  <2>4. QED
    BY <2>3
<1>8. QED
  BY <1>1, <1>3, <1>4, <1>5, <1>6, <1>7 DEF AddChild, RmChild, MvChild

(* removeRef.                                                              *)
LEMMA RemoveRefEffect ==
  ASSUME Shape, NEW t \in Thread, RemoveRef(t)
  PROVE  Stays(t) \/ Decs(t) \/ Goes(t)
<1> DEFINE f == fr[t]
           n == Head(f.todo)
<1>0. ThreadsOK /\ f \in Frame
  BY ShapeThreads DEF Shape, TypeOK
<1>1. CASE LookupUnderflow(t)
  BY <1>1 DEF LookupUnderflow, Fail, threadVars, kernelVars, Stays
<1>2. CASE DecLive(t) \/ DecDead(t)
  BY <1>2, DecEffect
<1>4. CASE UnlinkRetry(t) \/ Reread(t)
  <2> DEFINE g == [f EXCEPT !.pes = parents[n], !.rev = revision[n]]
  <2>1. /\ \/ Goto(t, "refRetry", {n}, f) \/ Goto(t, "refUnlink", LockGroup(n), g)
        /\ kcount' = kcount /\ pc[t] \in {"refUnlink", "refRetry"}
    BY <1>4 DEF UnlinkRetry, Reread, Serve, At, kernelVars
  <2>2. /\ g.op = f.op /\ g.cino = f.cino /\ g.pino = f.pino /\ g.npino = f.npino
        /\ g.nl = f.nl
    BY <1>0 DEF Frame
  <2> HIDE DEF g
  <2>3. pc'[t] \in {"refUnlink", "refRetry"} /\ fr'[t] \in {f, g}
    BY <1>0, <2>1, GotoEffect
  <2>4. Goes(t)
    BY <2>1, <2>2, <2>3 DEF Goes, SameIds
  <2>5. QED
    BY <2>4
<1>5. CASE Unlink(t)
  <2> DEFINE g == [f EXCEPT !.removed = TRUE]
  <2>1. /\ pc[t] = "refUnlink" /\ kcount' = kcount
        /\ \E todo : Deref(t, g, todo)
    BY <1>5 DEF Unlink, At, kernelVars
  <2>2. g.op = f.op /\ g.cino = f.cino /\ g.pino = f.pino /\ g.npino = f.npino
    BY <1>0 DEF Frame
  <2> HIDE DEF g
  <2>3. SameIds(t) /\ fr'[t].nl = 0 /\ pc'[t] \in {"refDec", "compact", "done"}
    BY <1>0, <2>1, <2>2, DerefFields DEF SameIds
  <2>4. Goes(t)
    BY <2>1, <2>3 DEF Goes
  <2>5. QED
    BY <2>4
<1>6. QED
  BY <1>1, <1>2, <1>4, <1>5 DEF RemoveRef

(* Every step is one of these.                                             *)
LEMMA LocalEffect ==
  ASSUME Shape, NEW t \in Thread, Step(t) \/ Kernel(t)
  PROVE  \/ Stays(t) \/ Asks(t) \/ Gives(t) \/ Hears(t) \/ Finds(t) \/ Adds(t)
         \/ Misses(t) \/ Hits(t) \/ Decs(t) \/ Goes(t)
<1>1. CASE Acquire(t)
  BY <1>1 DEF Acquire, kernelVars, Stays
<1>2. QED
  BY <1>1, KernelEffect, HandlerEffect, ChildOpsEffect, RemoveRefEffect DEF Step

-----------------------------------------------------------------------------
(* The locals and the pinned node ids.                                     *)

(* An object keeps its number.                                             *)
LEMMA InoKept ==
  ASSUME Shape, NEW t \in Thread, Step(t) \/ Kernel(t), NEW o \in alloc
  PROVE  ino'[o] = ino[o]
<1>0. o \in Obj /\ ino \in [Obj -> Ino]
  BY DEF Shape, TypeOK
<1>1. CASE AddCommit(t)
  <2>1. PICK c \in Obj :
          /\ c \in alloc => nodes[ino[c]] = c /\ ino[c] = fr[t].cino
          /\ ino' = [ino EXCEPT ![c] = fr[t].cino]
    BY <1>1, AddCommitEffect
  <2>2. QED
    BY <1>0, <2>1
<1>2. CASE RmCommit(t) \/ MvCommit(t) \/ Unlink(t)
  BY <1>2 DEF RmCommit, MvCommit, Unlink
<1>3. CASE UNCHANGED <<alloc, ino, parents, children>>
  BY <1>3
<1>4. QED
  BY <1>1, <1>2, <1>3, TreeWriters

(* Lookups to be given back stay in the frame of their FORGET, and are     *)
(* given back to an inode of the number it names (bridge.go:145-166).      *)
LEMMA LocalsStep ==
  ASSUME Shape, Shape', LocalsOK, NEW t \in Thread, Step(t) \/ Kernel(t)
  PROVE  LocalsOK'
<1> SUFFICES ASSUME NEW u \in Thread
             PROVE  /\ fr'[u].nl > 0 => pc'[u] \in {"forget", "refDec"}
                    /\ fr'[u].nl > 0 /\ pc'[u] = "refDec" =>
                         ino'[Head(fr'[u].todo)] = fr'[u].pino
                    /\ fr'[u].cino # NoIno => pc'[u] \in {"addCheck", "done"}
                    /\ pc'[u] \in {"resolve", "resolve2"} =>
                         fr'[u].op \notin {"None", "Forget"}
  BY DEF LocalsOK
<1>1. /\ fr[u].nl > 0 => pc[u] \in {"forget", "refDec"}
      /\ fr[u].nl > 0 /\ pc[u] = "refDec" => ino[Head(fr[u].todo)] = fr[u].pino
      /\ fr[u].cino # NoIno => pc[u] \in {"addCheck", "done"}
      /\ pc[u] \in {"resolve", "resolve2"} => fr[u].op \notin {"None", "Forget"}
  BY DEF LocalsOK
<1>2. fr[u].nl \in Nat /\ fr'[u].nl \in Nat
  BY DEF Shape, TypeOK, Frame
<1>3. pc[u] = "refDec" => ino'[Head(fr[u].todo)] = ino[Head(fr[u].todo)]
  BY HeadOK, InoKept
<1>4. CASE u # t \/ Stays(t)
  <2>1. pc'[u] = pc[u] /\ fr'[u] = fr[u]
    BY <1>4, OthersStay DEF Stays
  <2>2. QED
    BY <1>1, <1>3, <2>1
<1>5. CASE u = t /\ (Asks(t) \/ Gives(t))
  BY <1>2, <1>5 DEF Asks, Gives
<1>6. CASE u = t /\ Hears(t)
  BY <1>6 DEF Hears, IdleFrame
<1>7. CASE u = t /\ Finds(t)
  BY <1>1, <1>2, <1>7 DEF Finds
<1>8. CASE u = t /\ (Adds(t) \/ Misses(t))
  BY <1>1, <1>2, <1>8 DEF Adds, Misses, SameIds
<1>9. CASE u = t /\ Hits(t)
  <2>1. fr[t].pino \in Ino
    BY <1>9, Frames DEF Hits, FrameOK
  <2>2. nodes[fr[t].pino] \in alloc /\ ino[nodes[fr[t].pino]] = fr[t].pino
    BY <1>9, <2>1 DEF Hits, Shape, TableOK
  <2>3. ino'[Head(fr'[t].todo)] = fr'[t].pino
    BY <1>9, <2>2, InoKept DEF Hits, SameIds
  <2>4. QED
    BY <1>1, <1>9, <2>3 DEF Hits, SameIds
<1>10. CASE u = t /\ Decs(t)
  BY <1>1, <1>2, <1>10 DEF Decs, SameIds
<1>11. CASE u = t /\ Goes(t)
  BY <1>1, <1>2, <1>11 DEF Goes, SameIds
<1>12. QED
  BY <1>4, <1>5, <1>6, <1>7, <1>8, <1>9, <1>10, <1>11, LocalEffect

(* The kernel keeps a lookup of every node id that it named in a request,  *)
(* until it has the reply.                                                 *)
LEMMA PinnedStep ==
  ASSUME Shape, Shape', LocalsOK, PinnedOK, NEW t \in Thread, Step(t) \/ Kernel(t)
  PROVE  PinnedOK'
<1> SUFFICES ASSUME NEW i \in Ino, NEW u \in Thread,
                    fr'[u].op \notin {"None", "Forget"}, i \in {fr'[u].pino, fr'[u].npino}
             PROVE  kcount'[i] > 0
  BY DEF PinnedOK, InUse
<1>0. kcount \in [Ino -> Nat] /\ kcount[i] \in Nat
  BY DEF Shape, TypeOK
<1>1. InUse(i) \/ (u = t /\ Asks(t))
  <2>1. CASE u # t \/ Stays(t)
    <3>1. fr'[u] = fr[u]
      BY <2>1, OthersStay DEF Stays
    <3>2. QED
      BY <3>1 DEF InUse
  <2>2. CASE u = t /\ Gives(t)
    BY <2>2 DEF Gives
  <2>3. CASE u = t /\ Hears(t)
    BY <2>3 DEF Hears, IdleFrame
  <2>4. CASE u = t /\ (Finds(t) \/ Adds(t) \/ Misses(t) \/ Hits(t) \/ Decs(t) \/ Goes(t))
    <3>1. /\ fr'[t].op = fr[t].op /\ fr'[t].pino = fr[t].pino
          /\ fr'[t].npino = fr[t].npino
      BY <2>4 DEF Finds, Adds, Misses, Hits, Decs, Goes, SameIds
    <3>2. QED
      BY <2>4, <3>1 DEF InUse
  <2>5. QED
    BY <2>1, <2>2, <2>3, <2>4, LocalEffect
<1>2. CASE u = t /\ Asks(t)
  BY <1>2 DEF Asks
<1>3. CASE InUse(i)
  <2>1. kcount[i] > 0
    BY <1>3 DEF PinnedOK
  <2>2. CASE Gives(t)
    <3>1. CASE i = fr'[t].pino
      <4>1. fr'[t].nl \in Nat /\ fr'[t].nl < kcount[i] /\ kcount'[i] = kcount[i] - fr'[t].nl
        BY <1>0, <1>3, <2>2, <3>1 DEF Gives
      <4>2. QED
        BY <1>0, <4>1
    <3>2. CASE i # fr'[t].pino
      BY <1>0, <2>1, <2>2, <3>2 DEF Gives
    <3>3. QED
      BY <3>1, <3>2
  <2>3. CASE Hears(t)
    BY <1>0, <2>1, <2>3 DEF Hears
  <2>4. CASE kcount' = kcount
    BY <2>1, <2>4
  <2>5. QED
    BY <2>2, <2>3, <2>4, LocalEffect
       DEF Stays, Asks, Finds, Adds, Misses, Hits, Decs, Goes
<1>4. QED
  BY <1>1, <1>2, <1>3

-----------------------------------------------------------------------------
(* What one step does to the two sides of the account of number i.         *)

Moved(t, i) ==
  /\ nodes'[i] = nodes[i] /\ nodes[i] # Nil =>
       /\ lookupCount'[nodes[i]] + kcount[i] + RepAt(t, i) + AimAt(t, i)
            = lookupCount[nodes[i]] + kcount'[i] + RepAt(t, i)' + AimAt(t, i)'
       /\ AimAt(t, i) = FgtAt(t, i) => AimAt(t, i)' = FgtAt(t, i)'
  /\ nodes'[i] = nodes[i] /\ nodes[i] = Nil =>
       kcount'[i] + RepAt(t, i)' + FgtAt(t, i)' <= kcount[i] + RepAt(t, i) + FgtAt(t, i)
  /\ nodes'[i] # nodes[i] /\ nodes'[i] # Nil =>
       /\ nodes[i] = Nil /\ lookupCount'[nodes'[i]] = 1 /\ kcount'[i] = kcount[i]
       /\ RepAt(t, i)' = RepAt(t, i) + 1 /\ FgtAt(t, i)' = FgtAt(t, i)
  /\ nodes'[i] # nodes[i] /\ nodes'[i] = Nil /\ ~LateDeletes =>
       /\ lookupCount[nodes[i]] = AimAt(t, i) /\ kcount'[i] = kcount[i]
       /\ RepAt(t, i)' = RepAt(t, i) /\ FgtAt(t, i)' = 0

(* What the place of a goroutine says of its shares.                       *)
Shares(t, i) ==
  /\ pc[t] \notin {"forget", "refDec"} => FgtAt(t, i) = 0 /\ AimAt(t, i) = 0
  /\ pc[t] # "done" => RepAt(t, i) = 0
  /\ fr[t].cino = NoIno => RepAt(t, i) = 0
  /\ fr[t].nl = 0 => FgtAt(t, i) = 0 /\ AimAt(t, i) = 0
  /\ pc[t] # "refDec" => AimAt(t, i) = FgtAt(t, i)
  /\ pc[t] = "refDec" /\ Head(fr[t].todo) = nodes[i] => AimAt(t, i) = FgtAt(t, i)
  /\ pc[t] = "refDec" /\ Head(fr[t].todo) # nodes[i] => AimAt(t, i) = 0
  /\ fr[t].pino # i => AimAt(t, i) = 0 /\ FgtAt(t, i) = 0
  /\ RepAt(t, i) \in {0, 1} /\ FgtAt(t, i) \in Nat /\ AimAt(t, i) \in Nat

(* That follows from LocalsOK.                                             *)
LEMMA SharesNow ==
  ASSUME NEW t \in Thread, NEW i \in Ino
  PROVE  Shape /\ LocalsOK => Shares(t, i)
<1> SUFFICES ASSUME Shape, LocalsOK PROVE Shares(t, i)
  OBVIOUS
<1>1. fr[t].nl \in Nat /\ i # NoIno
  BY DEF Shape, TypeOK, Frame, NoIno
<1>2. fr[t].nl > 0 => pc[t] \in {"forget", "refDec"}
  BY DEF LocalsOK
<1>3. QED
  BY <1>1, <1>2 DEF Shares, FgtAt, AimAt, RepAt, Stray

(* And holds after a step.                                                 *)
LEMMA SharesNext ==
  ASSUME NEW t \in Thread, NEW i \in Ino
  PROVE  Shape' /\ LocalsOK' => Shares(t, i)'
<1>1. Shape /\ LocalsOK => Shares(t, i)
  BY SharesNow
<1>2. QED
  BY <1>1, PTL

(* Most steps leave the table and its counts alone.                        *)
LEMMA QuietMoves ==
  ASSUME Shape, Shape', LocalsOK, LocalsOK', NEW t \in Thread, NEW i \in Ino,
         UNCHANGED <<ino, lookupCount, nodes>>,
         \/ Stays(t) \/ Asks(t) \/ Gives(t) \/ Hears(t) \/ Finds(t)
         \/ Misses(t) \/ Hits(t) \/ Goes(t)
  PROVE  Moved(t, i)
<1> DEFINE k == kcount[i]
           rep == RepAt(t, i)
           fgt == FgtAt(t, i)
           aim == AimAt(t, i)
           k1 == kcount'[i]
           rep1 == RepAt(t, i)'
           fgt1 == FgtAt(t, i)'
           aim1 == AimAt(t, i)'
<1>0. /\ kcount \in [Ino -> Nat] /\ kcount' \in [Ino -> Nat]
      /\ fr[t].nl \in Nat /\ i # NoIno
  BY DEF Shape, TypeOK, Frame, NoIno
<1>1. /\ pc[t] \notin {"forget", "refDec"} => fgt = 0 /\ aim = 0
      /\ pc[t] # "done" => rep = 0
      /\ fr[t].cino = NoIno => rep = 0
      /\ fr[t].nl = 0 => fgt = 0 /\ aim = 0
      /\ pc[t] # "refDec" => aim = fgt
      /\ fr[t].pino # i => fgt = 0 /\ aim = 0
      /\ rep \in {0, 1} /\ fgt \in Nat /\ aim \in Nat
  BY SharesNow DEF Shares
<1>2. /\ pc'[t] \notin {"forget", "refDec"} => fgt1 = 0 /\ aim1 = 0
      /\ pc'[t] # "done" => rep1 = 0
      /\ fr'[t].cino = NoIno => rep1 = 0
      /\ fr'[t].nl = 0 => fgt1 = 0 /\ aim1 = 0
      /\ pc'[t] # "refDec" => aim1 = fgt1
      /\ pc'[t] = "refDec" /\ Head(fr'[t].todo) = nodes'[i] => aim1 = fgt1
      /\ fr'[t].pino # i => fgt1 = 0 /\ aim1 = 0
      /\ rep1 \in {0, 1} /\ fgt1 \in Nat /\ aim1 \in Nat
  BY SharesNext DEF Shares
<1>3. fr[t].cino # NoIno => pc[t] \in {"addCheck", "done"}
  BY DEF LocalsOK
<1>4. ASSUME k1 + rep1 + aim1 = k + rep + aim, aim = fgt => aim1 = fgt1,
             k1 + rep1 + fgt1 <= k + rep + fgt
      PROVE  Moved(t, i)
  <2>1. nodes[i] # Nil => lookupCount[nodes[i]] \in Nat
    BY DEF Shape, TypeOK
  <2>2. nodes[i] # Nil => lookupCount'[nodes[i]] + k + rep + aim
                            = lookupCount[nodes[i]] + k1 + rep1 + aim1
    <3> DEFINE x == lookupCount[nodes[i]]
    <3>1. lookupCount'[nodes[i]] = x /\ k \in Nat /\ k1 \in Nat
      BY <1>0
    <3> HIDE DEF x, k, k1, rep, rep1, fgt, fgt1, aim, aim1
    <3>2. QED
      BY <1>1, <1>2, <1>4, <2>1, <3>1 DEF x
  <2>3. QED
    BY <1>4, <2>2 DEF Moved
<1>5. CASE Stays(t)
  <2>1. k1 = k /\ rep1 = rep /\ fgt1 = fgt /\ aim1 = aim
    BY <1>5 DEF Stays, RepAt, FgtAt, AimAt, Stray
  <2> HIDE DEF k, k1, rep, rep1, fgt, fgt1, aim, aim1
  <2>2. k \in Nat
    BY <1>0 DEF k
  <2>3. QED
    BY <1>1, <1>4, <2>1, <2>2
<1>6. CASE Asks(t) \/ Finds(t)
  <2>1. k1 = k /\ rep1 = 0 /\ rep = 0 /\ fgt = 0 /\ aim = 0 /\ fgt1 = 0 /\ aim1 = 0
    BY <1>1, <1>2, <1>6 DEF Asks, Finds
  <2> HIDE DEF k, k1, rep, rep1, fgt, fgt1, aim, aim1
  <2>2. k \in Nat
    BY <1>0 DEF k
  <2>3. QED
    BY <1>4, <2>1, <2>2
<1>7. CASE Gives(t)
  <2>1. /\ rep1 = 0 /\ rep = 0 /\ fgt = 0 /\ aim = 0 /\ aim1 = fgt1
        /\ fgt1 = IF fr'[t].pino = i THEN fr'[t].nl ELSE 0
    BY <1>1, <1>2, <1>7 DEF Gives, FgtAt
  <2>2. k1 = IF fr'[t].pino = i THEN k - fr'[t].nl ELSE k
    BY <1>0, <1>7 DEF Gives
  <2>3. k \in Nat /\ fr'[t].nl \in Nat
    BY <1>0, <1>7 DEF Gives
  <2> HIDE DEF k, k1, rep, rep1, fgt, fgt1, aim, aim1
  <2>4. k1 + fgt1 = k
    BY <2>1, <2>2, <2>3
  <2>5. k1 \in Nat
    BY <1>0 DEF k1
  <2>6. QED
    BY <1>2, <1>4, <2>1, <2>3, <2>4, <2>5
<1>8. CASE Hears(t)
  <2>1. rep1 = 0 /\ fgt = 0 /\ aim = 0 /\ fgt1 = 0 /\ aim1 = 0
    BY <1>1, <1>2, <1>8 DEF Hears
  <2>2. rep = IF fr[t].cino = i THEN 1 ELSE 0
    BY <1>8 DEF Hears, RepAt
  <2>3. k1 = (IF i = fr[t].cino THEN k + 1 ELSE k) /\ k \in Nat
    BY <1>0, <1>8 DEF Hears
  <2> HIDE DEF k, k1, rep, rep1, fgt, fgt1, aim, aim1
  <2>4. k1 = k + rep
    BY <2>2, <2>3
  <2>5. QED
    BY <1>1, <1>4, <2>1, <2>3, <2>4
<1>9. CASE Misses(t)
  <2>1. k1 = k /\ rep1 = 0 /\ rep = 0 /\ fgt1 = 0 /\ aim1 = 0
    BY <1>1, <1>2, <1>3, <1>9 DEF Misses, SameIds
  <2>2. nodes[i] # Nil => aim = 0 /\ fgt = 0
    BY <1>1, <1>9 DEF Misses
  <2>3. k \in Nat
    BY <1>0
  <2>4. CASE nodes[i] # Nil
    <3> HIDE DEF k, k1, rep, rep1, fgt, fgt1, aim, aim1
    <3>1. QED
      BY <1>4, <2>1, <2>2, <2>3, <2>4
  <2>5. CASE nodes[i] = Nil
    <3>1. k1 + rep1 + fgt1 <= k + rep + fgt
      <4> HIDE DEF k, k1, rep, rep1, fgt, fgt1, aim, aim1
      <4>1. QED
        BY <1>1, <2>1, <2>3
    <3>2. QED
      BY <2>5, <3>1 DEF Moved
  <2>6. QED
    BY <2>4, <2>5
<1>10. CASE Hits(t)
  <2>1. k1 = k /\ rep1 = 0 /\ rep = 0 /\ aim = fgt /\ fgt1 = fgt
    BY <1>1, <1>2, <1>10 DEF Hits, SameIds, FgtAt
  <2>2. aim1 = fgt1
    BY <1>2, <1>10 DEF Hits, SameIds
  <2>3. k \in Nat
    BY <1>0
  <2> HIDE DEF k, k1, rep, rep1, fgt, fgt1, aim, aim1
  <2>4. QED
    BY <1>1, <1>4, <2>1, <2>2, <2>3
<1>11. CASE Goes(t)
  <2>1. k1 = k /\ rep = 0 /\ fgt = 0 /\ aim = 0
    BY <1>1, <1>11 DEF Goes
  <2>2. fr[t].nl > 0 => pc[t] \in {"forget", "refDec"}
    BY DEF LocalsOK
  <2>3. fr'[t].nl = 0
    BY <1>0, <1>11, <2>2 DEF Goes
  <2>4. fgt1 = 0 /\ aim1 = 0 /\ rep1 = 0
    BY <1>2, <1>3, <1>11, <2>3 DEF Goes, SameIds
  <2>5. k \in Nat
    BY <1>0
  <2> HIDE DEF k, k1, rep, rep1, fgt, fgt1, aim, aim1
  <2>6. QED
    BY <1>4, <2>1, <2>4, <2>5
<1>12. QED
  BY <1>5, <1>6, <1>7, <1>8, <1>9, <1>10, <1>11

(* addChild counts a lookup for the reply it prepares (inode.go:124-135).  *)
LEMMA AddMoves ==
  ASSUME Shape, Shape', LocalsOK, LocalsOK', NEW t \in Thread, NEW i \in Ino, Adds(t)
  PROVE  Moved(t, i)
<1> DEFINE j == fr[t].cino
           rep1 == RepAt(t, i)'
<1>0. /\ kcount[i] \in Nat /\ kcount' = kcount
      /\ lookupCount \in [Obj -> Nat] /\ nodes \in [Ino -> Obj \cup {Nil}]
      /\ alloc \subseteq Obj /\ i # NoIno
  BY DEF Shape, TypeOK, Adds, NoIno
<1>1. /\ RepAt(t, i) = 0 /\ FgtAt(t, i) = 0 /\ AimAt(t, i) = 0
      /\ FgtAt(t, i)' = 0 /\ AimAt(t, i)' = 0
  BY SharesNow, SharesNext DEF Shares, Adds
<1>2. rep1 = IF j = i THEN 1 ELSE 0
  BY DEF RepAt, Adds, SameIds
<1>3. PICK c \in Obj :
        /\ IF fr[t].child = Nil THEN c \notin alloc ELSE c = fr[t].child
        /\ lookupCount' = [lookupCount EXCEPT ![c] = @ + 1]
        /\ nodes' = [nodes EXCEPT ![j] = c]
  BY DEF Adds, AddCommit
<1>4. nodes[j] = fr[t].child /\ j \in Ino
  BY AddCommitEffect DEF Adds, AddCommit, ChildLocked
<1>5. c # Nil
  BY DEF Nil
<1>6. CASE i # j
  <2>1. nodes'[i] = nodes[i] /\ rep1 = 0
    BY <1>0, <1>2, <1>3, <1>4, <1>6
  <2>2. nodes[i] # Nil => nodes[i] # c
    BY <1>3, <1>4, <1>6 DEF Shape, TableOK
  <2>3. nodes[i] # Nil => /\ lookupCount'[nodes[i]] = lookupCount[nodes[i]]
                          /\ lookupCount[nodes[i]] \in Nat
    BY <1>0, <1>3, <2>2
  <2>4. QED
    BY <1>0, <1>1, <2>1, <2>3 DEF Moved
<1>7. CASE i = j /\ nodes[i] # Nil
  <2>1. c = nodes[i] /\ nodes'[i] = nodes[i] /\ rep1 = 1
    BY <1>0, <1>2, <1>3, <1>4, <1>7
  <2>2. lookupCount'[c] = lookupCount[c] + 1 /\ lookupCount[c] \in Nat
    BY <1>0, <1>3
  <2>3. QED
    BY <1>0, <1>1, <1>7, <2>1, <2>2 DEF Moved
<1>8. CASE i = j /\ nodes[i] = Nil
  <2>1. c \notin alloc /\ nodes'[i] = c /\ rep1 = 1
    BY <1>0, <1>2, <1>3, <1>4, <1>8
  <2>2. lookupCount[c] = 0
    BY <2>1 DEF Shape, FreshOK
  <2>3. lookupCount'[c] = 1
    BY <1>0, <1>3, <2>2
  <2>4. QED
    BY <1>0, <1>1, <1>5, <1>8, <2>1, <2>3 DEF Moved
<1>9. QED
  BY <1>6, <1>7, <1>8

(* removeRef gives back the lookups of the FORGET, to the inode it was     *)
(* sent to (inode.go:150-168).                                             *)
LEMMA DecMoves ==
  ASSUME Shape, Shape', LocalsOK, LocalsOK', NEW t \in Thread, NEW i \in Ino, Decs(t)
  PROVE  Moved(t, i)
<1> DEFINE n == Head(fr[t].todo)
           nl == fr[t].nl
           aim == AimAt(t, i)
<1>0. /\ kcount[i] \in Nat /\ kcount' = kcount
      /\ lookupCount \in [Obj -> Nat] /\ nodes \in [Ino -> Obj \cup {Nil}]
      /\ nl \in Nat /\ pc[t] = "refDec" /\ fr[t].todo # <<>>
      /\ n \in Obj /\ n \in alloc /\ n # Nil
  BY HeadOK, Frames DEF Shape, TypeOK, Decs, Frame, Nil
<1>1. /\ RepAt(t, i) = 0 /\ RepAt(t, i)' = 0
      /\ FgtAt(t, i)' = 0 /\ AimAt(t, i)' = 0
      /\ FgtAt(t, i) \in Nat /\ aim \in Nat
      /\ n # nodes[i] => aim = 0
      /\ n = nodes[i] => aim = FgtAt(t, i)
  <2>1. fr[t].cino = NoIno
    BY <1>0 DEF LocalsOK
  <2>2. Shares(t, i) /\ Shares(t, i)'
    BY SharesNow, SharesNext
  <2>3. QED
    BY <1>0, <2>1, <2>2 DEF Shares, Decs, SameIds
<1>2. nl > 0 => ino[n] = fr[t].pino
  BY <1>0 DEF LocalsOK
<1>3. lookupCount' = [lookupCount EXCEPT ![n] = @ - nl] /\ nl <= lookupCount[n]
  BY DEF Decs, DecLive, DecDead
<1>4. \/ nodes' = nodes
      \/ /\ nodes' = [nodes EXCEPT ![ino[n]] = Nil] /\ lookupCount'[n] = 0
         /\ ~LateDeletes => nodes[ino[n]] \in {n, Nil}
  <2>1. CASE DecLive(t)
    BY <2>1 DEF DecLive, tableVars
  <2>2. CASE DecDead(t)
    <3>1. nodes' = [nodes EXCEPT ![ino[n]] = Nil] /\ ~IsLive(n, lookupCount', children)
      BY <2>2 DEF DecDead
    <3>2. lookupCount'[n] \in Nat
      BY <1>0 DEF Shape, TypeOK
    <3>3. lookupCount'[n] = 0
      BY <3>1, <3>2 DEF IsLive
    <3>4. ~LateDeletes => nodes[ino[n]] \in {n, Nil}
      BY <1>0, <2>2 DEF LateDeletes, LateDelete
    <3>5. QED
      BY <3>1, <3>3, <3>4
  <2>3. QED
    BY <2>1, <2>2 DEF Decs
<1>5. nodes[i] = n => ino[n] = i
  BY <1>0 DEF Shape, TableOK
<1>6. nodes[i] = n => aim = nl
  <2>1. CASE nl = 0
    BY <1>1, <2>1 DEF FgtAt
  <2>2. CASE nl # 0
    BY <1>0, <1>1, <1>2, <1>5, <2>2 DEF FgtAt
  <2>3. QED
    BY <2>1, <2>2
<1> HIDE DEF n, nl, aim
<1>7. nodes[i] # Nil => lookupCount[nodes[i]] \in Nat /\ lookupCount'[nodes[i]] \in Nat
  BY DEF Shape, TypeOK
<1>8. nodes[i] # Nil => lookupCount'[nodes[i]] + aim = lookupCount[nodes[i]]
  <2>1. CASE nodes[i] = n
    <3>1. lookupCount[n] \in Nat /\ lookupCount'[n] = lookupCount[n] - nl
      BY <1>0, <1>3
    <3>2. QED
      BY <1>0, <1>6, <2>1, <3>1
  <2>2. CASE nodes[i] # n
    BY <1>0, <1>1, <1>3, <1>7, <2>2
  <2>3. QED
    BY <2>1, <2>2
<1>9. CASE nodes'[i] = nodes[i]
  <2>1. aim = AimAt(t, i)
    BY DEF aim
  <2>2. nodes[i] # Nil =>
          lookupCount'[nodes[i]] + kcount[i] + RepAt(t, i) + aim
            = lookupCount[nodes[i]] + kcount'[i] + RepAt(t, i)' + AimAt(t, i)'
    BY <1>0, <1>1, <1>7, <1>8
  <2>3. kcount'[i] + RepAt(t, i)' + FgtAt(t, i)' <= kcount[i] + RepAt(t, i) + FgtAt(t, i)
    BY <1>0, <1>1
  <2>4. AimAt(t, i)' = FgtAt(t, i)'
    BY <1>1
  <2>5. QED
    BY <1>9, <2>1, <2>2, <2>3, <2>4 DEF Moved
<1>10. CASE nodes'[i] # nodes[i]
  <2>1. i = ino[n] /\ nodes'[i] = Nil
    BY <1>0, <1>4, <1>10
  <2>2. ~LateDeletes => nodes[i] = n /\ lookupCount'[n] = 0
    BY <1>4, <1>10, <2>1
  <2>3. ~LateDeletes => lookupCount[nodes[i]] = aim
    BY <1>0, <1>1, <1>8, <1>7, <2>2
  <2>4. QED
    BY <1>0, <1>1, <1>10, <2>1, <2>3 DEF Moved, aim
<1>11. QED
  BY <1>9, <1>10

(* Every step.                                                             *)
LEMMA CountMoves ==
  ASSUME Shape, Shape', LocalsOK, LocalsOK', NEW t \in Thread, Step(t) \/ Kernel(t),
         NEW i \in Ino
  PROVE  Moved(t, i)
<1>1. CASE AddCommit(t)
  BY <1>1, AddEffect, AddMoves
<1>2. CASE DecLive(t) \/ DecDead(t)
  BY <1>2, DecEffect, DecMoves
<1>3. CASE ~AddCommit(t) /\ ~DecLive(t) /\ ~DecDead(t)
  <2>1. UNCHANGED <<ino, lookupCount, nodes>>
    BY <1>3, CountWriters
  <2>2. \/ Stays(t) \/ Asks(t) \/ Gives(t) \/ Hears(t) \/ Finds(t)
        \/ Misses(t) \/ Hits(t) \/ Goes(t)
    BY <1>3, LocalEffect DEF Adds, Decs
  <2>3. QED
    BY <2>1, <2>2, QuietMoves
<1>4. QED
  BY <1>1, <1>2, <1>3

-----------------------------------------------------------------------------
(* The invariant of the counts.                                            *)

(* Nothing is in flight at the start.                                      *)
LEMMA InitCounts ==
  ASSUME Init
  PROVE  /\ LocalsOK /\ PinnedOK
         /\ \A i \in Ino : RepliesOf(i) = 0 /\ ForgetsOf(i) = 0 /\ AimedAt(i) \in Nat
<1>1. LocalsOK /\ PinnedOK
  BY DEF Init, LocalsOK, PinnedOK, InUse, IdleFrame
<1>2. ASSUME NEW i \in Ino
      PROVE  RepliesOf(i) = 0 /\ ForgetsOf(i) = 0 /\ AimedAt(i) \in Nat
  <2>1. {t \in Thread : pc[t] = "done" /\ fr[t].cino = i} = {}
    BY DEF Init
  <2>2. i # NoIno
    BY DEF NoIno
  <2>3. {t \in Thread : fr[t].pino = i} = {}
    BY <2>2 DEF Init, IdleFrame
  <2>4. GivenBack({t \in Thread : fr[t].pino = i}, fr) = {}
    BY <2>3 DEF GivenBack
  <2>5. Shape
    BY InitShape
  <2>6. AimedAt(i) \in Nat
    <3>1. fr \in [Thread -> Frame]
      BY <2>5 DEF Shape, TypeOK
    <3>2. {t \in Thread : fr[t].pino = i /\ ~Stray(t, i)} \in SUBSET Thread
      OBVIOUS
    <3>3. QED
      BY <3>1, <3>2, SumFinite DEF AimedAt
  <2>7. QED
    BY <2>1, <2>4, <2>6, FS_EmptySet DEF RepliesOf, ForgetsOf
<1>3. QED
  BY <1>1, <1>2

(* No step makes the bridge count more than there is.                      *)
LEMMA OvercountStep ==
  ASSUME Shape, Shape', LocalsOK, LocalsOK', NothingOvercounted,
         NEW t \in Thread, Step(t) \/ Kernel(t)
  PROVE  NothingOvercounted'
<1> SUFFICES ASSUME NEW i \in Ino, nodes'[i] # Nil
             PROVE  lookupCount'[nodes'[i]]
                      <= kcount'[i] + RepliesOf(i)' + AimedAt(i)'
  BY DEF NothingOvercounted
<1> DEFINE k == kcount[i]            k1 == kcount'[i]
           R == RepliesOf(i)         R1 == RepliesOf(i)'
           W == AimedAt(i)           W1 == AimedAt(i)'
           r == RepAt(t, i)          r1 == RepAt(t, i)'
           a == AimAt(t, i)          a1 == AimAt(t, i)'
           x == lookupCount[nodes[i]]
           x1 == lookupCount'[nodes'[i]]
<1>1. /\ R1 + r = R + r1
      /\ nodes'[i] = nodes[i] => W1 + a = W + a1
      /\ R \in Nat /\ W \in Nat /\ R1 \in Nat /\ W1 \in Nat
  BY InFlight
<1>2. k \in Nat /\ k1 \in Nat /\ (nodes[i] # Nil => x \in Nat) /\ x1 \in Nat
  BY DEF Shape, TypeOK
<1>3. r \in Nat /\ a \in Nat /\ r1 \in Nat /\ a1 \in Nat /\ r <= R
  <2>1. Shares(t, i) /\ Shares(t, i)'
    BY SharesNow, SharesNext
  <2>2. r <= R
    BY OwnShare
  <2>3. QED
    BY <2>1, <2>2 DEF Shares
<1>4. nodes[i] # Nil => x <= k + R + W
  BY DEF NothingOvercounted
<1>5. /\ nodes'[i] = nodes[i] => x1 + k + r + a = x + k1 + r1 + a1
      /\ nodes'[i] # nodes[i] => x1 = 1 /\ r1 = r + 1
  BY CountMoves DEF Moved
<1> HIDE DEF k, k1, R, R1, W, W1, r, r1, a, a1, x, x1
<1>6. CASE nodes'[i] = nodes[i]
  <2>1. x <= k + R + W /\ x \in Nat
    BY <1>2, <1>4, <1>6
  <2>2. x1 <= k1 + R1 + W1
    BY <1>1, <1>2, <1>3, <1>5, <1>6, <2>1
  <2>3. QED
    BY <2>2 DEF x1, k1, R1, W1
<1>7. CASE nodes'[i] # nodes[i]
  <2>1. x1 <= k1 + R1 + W1
    BY <1>1, <1>2, <1>3, <1>5, <1>7
  <2>2. QED
    BY <2>1 DEF x1, k1, R1, W1
<1>8. QED
  BY <1>6, <1>7

(* A new bridge satisfies the invariant.                                   *)
LEMMA InitCountInv == Init => Shape /\ CountInv
<1> SUFFICES ASSUME Init PROVE Shape /\ CountInv
  OBVIOUS
<1>1. LocalsOK /\ PinnedOK /\ \A i \in Ino : RepliesOf(i) = 0 /\ AimedAt(i) \in Nat
  BY InitCounts
<1>2. ASSUME NEW i \in Ino, nodes[i] # Nil
      PROVE  lookupCount[nodes[i]] <= kcount[i] + RepliesOf(i) + AimedAt(i)
  <2>1. lookupCount[nodes[i]] = 1 /\ kcount[i] = 1
    BY <1>2 DEF Init, One
  <2>2. QED
    BY <1>1, <2>1
<1>3. QED
  BY <1>1, <1>2, InitShape DEF CountInv, NothingOvercounted

(* Every step preserves it.                                                *)
LEMMA CountInvStep == Shape /\ CountInv /\ [Next]_vars => Shape' /\ CountInv'
<1> SUFFICES ASSUME Shape, CountInv, [Next]_vars PROVE Shape' /\ CountInv'
  OBVIOUS
<1>1. Shape'
  BY StepShape
<1>2. CASE UNCHANGED vars
  <2>1. LocalsOK' /\ PinnedOK'
    BY <1>2 DEF CountInv, LocalsOK, PinnedOK, InUse, vars, threadVars, inodeVars,
                kernelVars
  <2>2. /\ UNCHANGED <<pc, fr, nodes, lookupCount, kcount>>
        /\ \A u, i : Stray(u, i)' <=> Stray(u, i)
    BY <1>2 DEF vars, threadVars, inodeVars, tableVars, kernelVars, Stray
  <2>3. \A i \in Ino : RepliesOf(i)' = RepliesOf(i) /\ AimedAt(i)' = AimedAt(i)
    BY <2>2 DEF RepliesOf, AimedAt, GivenBack
  <2>4. NothingOvercounted'
    BY <2>2, <2>3 DEF CountInv, NothingOvercounted
  <2>5. QED
    BY <1>1, <2>1, <2>4 DEF CountInv
<1>3. ASSUME NEW t \in Thread, Step(t) \/ Kernel(t) PROVE CountInv'
  <2>1. LocalsOK'
    BY <1>1, <1>3, LocalsStep DEF CountInv
  <2>2. PinnedOK'
    BY <1>1, <1>3, PinnedStep DEF CountInv
  <2>3. NothingOvercounted'
    BY <1>1, <1>3, <2>1, OvercountStep DEF CountInv
  <2>4. QED
    BY <2>1, <2>2, <2>3 DEF CountInv
<1>4. QED
  BY <1>1, <1>2, <1>3 DEF Next

(* Who owes the bridge a lookup, and to which inode, at every moment: the  *)
(* inductive invariant of the counts (inode.go:130, 155).                  *)
THEOREM CountInvariant == Spec => []CountInv
<1>1. QED
  BY InitCountInv, CountInvStep, PTL DEF Spec

(* The bridge never counts a lookup of an inode of the table that neither  *)
(* the kernel nor a reply or a FORGET on its way accounts for, not even    *)
(* after a late delete (inode.go:130, 151-155, bridge.go:145-166).         *)
THEOREM NeverOvercounted == Spec => []NothingOvercounted
<1>1. CountInv => NothingOvercounted
  BY DEF CountInv
<1>2. QED
  BY CountInvariant, <1>1, PTL

-----------------------------------------------------------------------------
(* Until a late delete the counts agree.                                   *)

(* No step but a late delete makes the counts of a number disagree.        *)
LEMMA AgreeStep ==
  ASSUME Shape, Shape', CountInv, LocalsOK', CountsAgree, ~LateDeletes,
         NEW t \in Thread, Step(t) \/ Kernel(t)
  PROVE  CountsAgree'
<1> SUFFICES ASSUME NEW i \in Ino
             PROVE  CountOf(i)' = kcount'[i] + RepliesOf(i)' + ForgetsOf(i)'
  BY DEF CountsAgree
<1> DEFINE k == kcount[i]            k1 == kcount'[i]
           R == RepliesOf(i)         R1 == RepliesOf(i)'
           F == ForgetsOf(i)         F1 == ForgetsOf(i)'
           W == AimedAt(i)
           r == RepAt(t, i)          r1 == RepAt(t, i)'
           f == FgtAt(t, i)          f1 == FgtAt(t, i)'
           a == AimAt(t, i)          a1 == AimAt(t, i)'
           x == lookupCount[nodes[i]]
           x1 == lookupCount'[nodes'[i]]
<1>1. R1 + r = R + r1 /\ F1 + f = F + f1 /\ R1 \in Nat /\ F1 \in Nat
  BY InFlight
<1>2. /\ k \in Nat /\ k1 \in Nat
      /\ (nodes[i] # Nil => x \in Nat) /\ (nodes'[i] # Nil => x1 \in Nat)
  BY DEF Shape, TypeOK
<1>3. /\ r \in Nat /\ f \in Nat /\ a \in Nat /\ R \in Nat /\ F \in Nat /\ W \in Nat
      /\ r <= R /\ f <= F /\ a <= f /\ W <= F /\ W + f <= F + a
  BY OwnShare
<1>4. r1 \in Nat /\ f1 \in Nat /\ a1 \in Nat
  BY SharesNext DEF Shares
<1>5. nodes[i] # Nil => x <= k + R + W
  BY DEF CountInv, NothingOvercounted
<1>6. /\ nodes[i] # Nil => x = k + R + F
      /\ nodes[i] = Nil => k + R + F = 0
  BY DEF CountsAgree, CountOf
<1>7. Moved(t, i)
  BY CountMoves DEF CountInv
<1>8. CASE nodes'[i] = nodes[i] /\ nodes[i] # Nil
  <2>1. x1 + k + r + a = x + k1 + r1 + a1 /\ (a = f => a1 = f1)
    BY <1>7, <1>8 DEF Moved
  <2> HIDE DEF k, k1, R, R1, F, F1, W, r, r1, f, f1, a, a1, x, x1
  <2>2. a = f
    BY <1>2, <1>3, <1>5, <1>6, <1>8
  <2>3. x1 = k1 + R1 + F1
    BY <1>1, <1>2, <1>3, <1>4, <1>6, <1>8, <2>1, <2>2
  <2>4. QED
    BY <1>8, <2>3 DEF CountOf, x1, k1, R1, F1
<1>9. CASE nodes'[i] = nodes[i] /\ nodes[i] = Nil
  <2>1. k1 + r1 + f1 <= k + r + f
    BY <1>7, <1>9 DEF Moved
  <2> HIDE DEF k, k1, R, R1, F, F1, W, r, r1, f, f1, a, a1, x, x1
  <2>2. k + R + F = 0
    BY <1>6, <1>9
  <2>3. k = 0 /\ R = 0 /\ F = 0
    BY <1>2, <1>3, <2>2
  <2>4. r = 0 /\ f = 0
    BY <1>3, <2>3
  <2>5. k1 = 0 /\ r1 = 0 /\ f1 = 0
    BY <1>2, <1>4, <2>1, <2>3, <2>4
  <2>6. R1 = 0 /\ F1 = 0
    BY <1>1, <2>3, <2>4, <2>5
  <2>7. k1 + R1 + F1 = 0
    BY <2>5, <2>6
  <2>8. QED
    BY <1>9, <2>7 DEF CountOf, k1, R1, F1
<1>10. CASE nodes'[i] # nodes[i] /\ nodes'[i] # Nil
  <2>1. nodes[i] = Nil /\ x1 = 1 /\ k1 = k /\ r1 = r + 1 /\ f1 = f
    BY <1>7, <1>10 DEF Moved
  <2> HIDE DEF k, k1, R, R1, F, F1, W, r, r1, f, f1, a, a1, x, x1
  <2>2. x1 = k1 + R1 + F1
    BY <1>1, <1>2, <1>3, <1>4, <1>6, <2>1
  <2>3. QED
    BY <1>10, <2>2 DEF CountOf, x1, k1, R1, F1
<1>11. CASE nodes'[i] # nodes[i] /\ nodes'[i] = Nil
  <2>1. nodes[i] # Nil /\ x = a /\ k1 = k /\ r1 = r /\ f1 = 0
    BY <1>7, <1>11 DEF Moved
  <2> HIDE DEF k, k1, R, R1, F, F1, W, r, r1, f, f1, a, a1, x, x1
  <2>2. x = k + R + F /\ a <= f /\ f <= F /\ r <= R
    BY <1>3, <1>6, <2>1
  <2>3. k = 0 /\ R = 0 /\ F = f
    BY <1>2, <1>3, <2>1, <2>2
  <2>4. r1 = 0 /\ F1 = 0
    <3>1. r = 0
      BY <1>3, <2>2, <2>3
    <3>2. F1 = 0
      BY <1>1, <1>3, <2>1, <2>3
    <3>3. QED
      BY <2>1, <3>1, <3>2
  <2>5. R1 = 0
    <3>1. r \in Nat /\ R1 \in Nat
      BY <1>1, <1>3
    <3>2. R1 + r = r
      BY <1>1, <2>1, <2>3, <3>1
    <3>3. QED
      BY <3>1, <3>2
  <2>6. k1 + R1 + F1 = 0
    BY <2>1, <2>3, <2>4, <2>5
  <2>7. QED
    BY <1>11, <2>6 DEF CountOf, k1, R1, F1
<1>12. QED
  BY <1>8, <1>9, <1>10, <1>11

(* Only two steps of the code panic.                                       *)
LEMMA PanicSources ==
  ASSUME NEW t \in Thread, Step(t) \/ Kernel(t)
  PROVE  UnknownNode(t) \/ LookupUnderflow(t) \/ panic' = panic
<1>1. CASE Kernel(t) \/ Acquire(t)
  BY <1>1 DEF Kernel, SendEntry, SendRename, SendForget, Send, Acquire
<1>2. CASE Handler(t)
  BY <1>2 DEF Handler, EntryFound, EntryGone, Refused, RenameFrom, RenameTo,
              ForgetUnknown, ForgetKnown, Compact, Reply, Serve
<1>3. CASE AddChild(t) \/ RmChild(t) \/ MvChild(t)
  BY <1>3 DEF AddChild, AddRetry, AddCommit, RmChild, RmRead, RmRetry, RmCommit,
              MvChild, MvRead, MvRetry, MvCommit, Serve
<1>4. CASE RemoveRef(t)
  BY <1>4 DEF RemoveRef, DecLive, DecDead, UnlinkRetry, Reread, Unlink, Serve
<1>5. QED
  BY <1>1, <1>2, <1>3, <1>4 DEF Step

(* While the counts agree, a node id in a request is in the table, and a   *)
(* FORGET gives back no more than there is.                                *)
LEMMA NoPanic ==
  ASSUME Shape, CountInv, CountsAgree, NEW t \in Thread, Step(t) \/ Kernel(t)
  PROVE  panic' = panic
<1>1. ASSUME UnknownNode(t) PROVE FALSE
  <2>1. PICK i \in {fr[t].pino, fr[t].npino} :
          nodes[i] = Nil /\ pc[t] \in {"resolve", "resolve2"} /\ i \in Ino
    <3>1. CASE At(t, "resolve") /\ Parent(t) = Nil
      BY <3>1, Frames DEF At, Parent, FrameOK
    <3>2. CASE At(t, "resolve2") /\ nodes[fr[t].npino] = Nil
      BY <3>2, Frames DEF At, FrameOK
    <3>3. QED
      BY <1>1, <3>1, <3>2 DEF UnknownNode
  <2>2. kcount[i] > 0
    BY <2>1 DEF CountInv, LocalsOK, PinnedOK, InUse
  <2>3. kcount[i] + RepliesOf(i) + ForgetsOf(i) = 0
    BY <2>1 DEF CountsAgree, CountOf
  <2>4. kcount[i] \in Nat /\ RepliesOf(i) \in Nat /\ ForgetsOf(i) \in Nat
    BY <2>1, OwnShare DEF Shape, TypeOK
  <2>5. QED
    BY <2>2, <2>3, <2>4
<1>2. ASSUME LookupUnderflow(t) PROVE FALSE
  <2> DEFINE n == Head(fr[t].todo)
             nl == fr[t].nl
             i == ino[n]
  <2>1. pc[t] = "refDec" /\ nl > lookupCount[n]
    BY <1>2 DEF LookupUnderflow, At
  <2>2. n \in alloc /\ n \in Obj /\ nl \in Nat /\ lookupCount[n] \in Nat /\ i \in Ino
    BY <2>1, HeadOK, Frames DEF Shape, TypeOK, Frame
  <2>3. nl > 0
    BY <2>1, <2>2
  <2>4. fr[t].pino = i
    BY <2>1, <2>3 DEF CountInv, LocalsOK
  <2> HIDE DEF n, i
  <2>5. /\ FgtAt(t, i) = nl /\ FgtAt(t, i) <= ForgetsOf(i)
        /\ AimedAt(i) + FgtAt(t, i) <= ForgetsOf(i) + AimAt(t, i)
        /\ RepliesOf(i) \in Nat /\ ForgetsOf(i) \in Nat /\ AimedAt(i) \in Nat
        /\ kcount[i] \in Nat
    BY <2>2, <2>4, OwnShare DEF FgtAt, Shape, TypeOK
  <2>6. CountOf(i) = kcount[i] + RepliesOf(i) + ForgetsOf(i)
    BY <2>2 DEF CountsAgree
  <2>7. CASE nodes[i] = Nil
    <3>1. kcount[i] + RepliesOf(i) + ForgetsOf(i) = 0
      BY <2>6, <2>7 DEF CountOf
    <3> DEFINE k == kcount[i]
               R == RepliesOf(i)
               F == ForgetsOf(i)
    <3>2. k + R + F = 0 /\ nl <= F /\ k \in Nat /\ R \in Nat /\ F \in Nat
      BY <2>5, <3>1
    <3> HIDE DEF k, R, F, nl
    <3>3. QED
      BY <2>2, <2>3, <3>2
  <2>8. CASE nodes[i] = n
    <3>1. CountOf(i) = lookupCount[n]
      BY <2>2, <2>8 DEF CountOf, Nil
    <3>2. QED
      BY <2>1, <2>2, <2>5, <2>6, <3>1
  <2>9. CASE nodes[i] \notin {n, Nil}
    <3>1. AimAt(t, i) = 0
      BY <2>1, <2>9 DEF AimAt, Stray, n
    <3>2. CountOf(i) <= kcount[i] + RepliesOf(i) + AimedAt(i)
      BY <2>2, <2>9 DEF CountOf, CountInv, NothingOvercounted
    <3>3. QED
      <4> DEFINE c == CountOf(i)
      <4>1. /\ c = kcount[i] + RepliesOf(i) + ForgetsOf(i)
            /\ c <= kcount[i] + RepliesOf(i) + AimedAt(i)
        BY <2>6, <3>2
      <4> HIDE DEF c
      <4>2. QED
        BY <2>2, <2>3, <2>5, <3>1, <4>1
  <2>10. QED
    BY <2>7, <2>8, <2>9
<1>3. QED
  BY <1>1, <1>2, PanicSources

(* The counts agree until a late delete, whatever a goroutine stalls over  *)
(* (inode.go:130, 155, 165).                                               *)
THEOREM CountsKept == Spec => KeepsCounts
<1>1. Shape /\ CountInv /\ [Next]_vars =>
        [CountsAgree /\ ~LateDeletes => CountsAgree']_vars
  <2> SUFFICES ASSUME Shape, CountInv, NEW t \in Thread, Step(t) \/ Kernel(t),
                      CountsAgree, ~LateDeletes
               PROVE  CountsAgree'
    BY DEF Next
  <2>1. Shape' /\ CountInv'
    BY CountInvStep DEF Next
  <2>2. QED
    BY <2>1, AgreeStep DEF CountInv
<1>2. QED
  BY InitCountInv, CountInvStep, <1>1, PTL DEF Spec, KeepsCounts

(* The bridge does not panic over a node id or a FORGET while the counts   *)
(* agree (bridge.go:67-69, inode.go:152-154).                              *)
THEOREM PanicOnlyLate == Spec => PanicsLate
<1>1. Shape /\ CountInv /\ [Next]_vars =>
        [CountsAgree /\ panic = "none" => panic' = "none"]_vars
  BY NoPanic DEF Next
<1>2. QED
  BY InitCountInv, CountInvStep, <1>1, PTL DEF Spec, PanicsLate

(* No trouble so far.                                                      *)
Calm == CountsAgree /\ panic = "none"

(* In a behaviour without a late delete the counts always agree, and the   *)
(* bridge never panics.                                                    *)
LEMMA CalmCounts ==
  Spec /\ [][~LateDeletes]_vars =>
    [](Shape /\ CountInv /\ Calm)
<1>1. Init => Calm
  <2> SUFFICES ASSUME Init, NEW i \in Ino
               PROVE  /\ CountOf(i) = kcount[i] + RepliesOf(i) + ForgetsOf(i)
                      /\ panic = "none"
    BY DEF Calm, CountsAgree, Init
  <2>1. RepliesOf(i) = 0 /\ ForgetsOf(i) = 0
    BY InitCounts
  <2>2. CASE i = RootIno
    BY <2>1, <2>2 DEF Init, CountOf, One, Nil
  <2>3. CASE i # RootIno
    BY <2>1, <2>3 DEF Init, CountOf, One, Nil
  <2>4. QED
    BY <2>2, <2>3 DEF Init
<1>2. Shape /\ CountInv /\ Calm /\ [Next]_vars /\ [~LateDeletes]_vars => Calm'
  <2> SUFFICES ASSUME Shape, CountInv, CountsAgree, panic = "none",
                      [Next]_vars, [~LateDeletes]_vars
               PROVE  CountsAgree' /\ panic' = "none"
    BY DEF Calm
  <2>1. CASE UNCHANGED vars
    <3>1. UNCHANGED <<pc, fr, nodes, lookupCount, kcount, panic>>
      BY <2>1 DEF vars, threadVars, inodeVars, tableVars, kernelVars
    <3>2. \A i \in Ino : /\ RepliesOf(i)' = RepliesOf(i) /\ ForgetsOf(i)' = ForgetsOf(i)
                         /\ CountOf(i)' = CountOf(i)
      BY <3>1 DEF RepliesOf, ForgetsOf, GivenBack, CountOf
    <3>3. QED
      BY <3>1, <3>2 DEF CountsAgree
  <2>2. CASE ~ UNCHANGED vars
    <3>1. PICK t \in Thread : Step(t) \/ Kernel(t)
      BY <2>2 DEF Next
    <3>2. Shape' /\ CountInv'
      BY CountInvStep
    <3>3. QED
      BY <2>2, <3>1, <3>2, AgreeStep, NoPanic DEF CountInv
  <2>3. QED
    BY <2>1, <2>2
<1>3. QED
  BY InitCountInv, CountInvStep, <1>1, <1>2, PTL DEF Spec

(* Without a late delete, the bridge and the kernel agree on the lookups   *)
(* of every number of the table (inode.go:130, 155).                       *)
THEOREM CalmAccounting == Spec /\ [][~LateDeletes]_vars => []RefAccounting
<1>1. Calm => RefAccounting
  BY DEF Calm, CountsAgree, CountOf, RefAccounting
<1>2. QED
  BY CalmCounts, <1>1, PTL

(* Without a late delete, what the kernel holds a lookup of is in the      *)
(* table (inode.go:150-168).                                               *)
THEOREM CalmTable == Spec /\ [][~LateDeletes]_vars => []CountedIsFindable
<1>1. Shape /\ Calm => CountedIsFindable
  <2> SUFFICES ASSUME Shape, CountsAgree, NEW i \in Ino, kcount[i] > 0, nodes[i] = Nil
               PROVE  FALSE
    BY DEF CountedIsFindable, Calm
  <2>1. kcount[i] + RepliesOf(i) + ForgetsOf(i) = 0
    BY DEF CountsAgree, CountOf
  <2>2. kcount[i] \in Nat /\ RepliesOf(i) \in Nat /\ ForgetsOf(i) \in Nat
    <3>1. kcount[i] \in Nat /\ fr \in [Thread -> Frame]
      BY DEF Shape, TypeOK
    <3>2. /\ {t \in Thread : fr[t].pino = i} \in SUBSET Thread
          /\ IsFiniteSet({t \in Thread : pc[t] = "done" /\ fr[t].cino = i})
      BY FS_Subset
    <3>3. QED
      BY <3>1, <3>2, SumFinite, FS_CardinalityType DEF RepliesOf, ForgetsOf
  <2>3. QED
    BY <2>1, <2>2
<1>2. QED
  BY CalmCounts, <1>1, PTL

(* Without a late delete, b.inode never panics over a node id the kernel   *)
(* uses (bridge.go:67-69).                                                 *)
THEOREM CalmIds == Spec /\ [][~LateDeletes]_vars => []NoUnknownNode
<1>1. Calm => NoUnknownNode
  BY DEF Calm, NoUnknownNode
<1>2. QED
  BY CalmCounts, <1>1, PTL
=============================================================================
