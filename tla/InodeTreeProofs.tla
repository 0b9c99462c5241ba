--------------------------- MODULE InodeTreeProofs ---------------------------
(* Proofs about InodeTree for any number of goroutines, objects, inodes    *)
(* and names, and any file system behind the bridge.                       *)
EXTENDS InodeTree, FiniteSetTheorems, SequenceTheorems, WellFoundedInduction, TLAPS

USE AddressAssumption, InoAssumption, NameAssumption, EnvironmentAssumption

(* What a goroutine's variables have to be: the thread part of TypeOK.     *)
ThreadsOK ==
  /\ pc \in [Thread -> Label]
  /\ fr \in [Thread -> Frame]
  /\ want \in [Thread -> SUBSET Obj]
  /\ held \in [Thread -> SUBSET Obj]

(* The frame of an idle goroutine satisfies what its label asks for.       *)
LEMMA IdleFrameOK ==
  ASSUME NEW a \in SUBSET Obj
  PROVE  IdleFrame \in Frame /\ FrameOK("idle", IdleFrame, a)
  BY DEF IdleFrame, Frame, FrameOK, Nil, NoIno, NoName, OpKind

(* Bare keeps only the operation and the node ids.                         *)
LEMMA BareOK ==
  ASSUME NEW f \in Frame, NEW a \in SUBSET Obj
  PROVE  /\ Bare(f) \in Frame
         /\ FrameOK("done", Bare(f), a)
         /\ FrameOK("compact", Bare(f), a)
<1>1. Bare(f) \in Frame
  BY IdleFrameOK DEF Frame, Bare
<1>2. FrameOK("done", Bare(f), a) /\ FrameOK("compact", Bare(f), a)
  BY DEF FrameOK, Bare, IdleFrame
<1>3. QED
  BY <1>1, <1>2

(* More objects do no harm to a frame.                                     *)
LEMMA FrameMono ==
  ASSUME NEW l, NEW f, NEW a, NEW b, a \subseteq b, FrameOK(l, f, a)
  PROVE  FrameOK(l, f, b)
  BY DEF FrameOK

(* Going to a label with a good frame and a group of inodes keeps every    *)
(* goroutine well-formed.                                                  *)
LEMMA GotoOK ==
  ASSUME ThreadsOK, FramesOK, alloc \subseteq alloc',
         NEW t \in Thread, NEW l \in Label, NEW group, group \ {Nil} \subseteq Obj,
         NEW f \in Frame, FrameOK(l, f, alloc'), Goto(t, l, group, f)
  PROVE  ThreadsOK' /\ FramesOK'
<1>1. ThreadsOK'
  BY DEF ThreadsOK, Goto
<1>2. ASSUME NEW u \in Thread PROVE FrameOK(pc[u], fr[u], alloc)'
  <2>1. CASE u = t
    BY <2>1 DEF Goto, ThreadsOK
  <2>2. CASE u # t
    <3>1. FrameOK(pc[u], fr[u], alloc')
      BY FrameMono DEF FramesOK
    <3>2. pc'[u] = pc[u] /\ fr'[u] = fr[u]
      BY <2>2 DEF Goto, ThreadsOK
    <3>3. QED
      BY <3>1, <3>2
  <2>3. QED
    BY <2>1, <2>2
<1>3. QED
  BY <1>1, <1>2 DEF FramesOK

(* What is left of a removeRef: the head of todo is the next to be locked. *)
LEMMA DerefOK ==
  ASSUME ThreadsOK, FramesOK, alloc \subseteq alloc', alloc' \subseteq Obj,
         NEW t \in Thread, NEW f \in Frame, NEW todo \in Seq(Obj),
         \A k \in 1..Len(todo) : todo[k] \in alloc', Deref(t, f, todo)
  PROVE  ThreadsOK' /\ FramesOK'
<1>1. CASE todo # <<>>
  <2> DEFINE g == [Bare(f) EXCEPT !.todo = todo, !.removed = f.removed]
  <2>1. g \in Frame
    BY BareOK, ZenonT(60) DEF Frame
  <2>2. FrameOK("refDec", g, alloc')
    BY <1>1 DEF FrameOK, Bare, IdleFrame, Nil, NoIno
  <2>3. Goto(t, "refDec", {Head(todo)}, g)
    BY <1>1 DEF Deref
  <2>4. Head(todo) \in Obj
    BY <1>1
  <2> HIDE DEF g
  <2>5. QED
    BY <2>1, <2>2, <2>3, <2>4, GotoOK DEF Label
<1>2. CASE todo = <<>>
  BY <1>2, BareOK, GotoOK DEF Deref, Done, Label
<1>3. QED
  BY <1>1, <1>2

-----------------------------------------------------------------------------
(* Counting and sequences.                                                 *)

(* Sets of inode numbers are finite: NodeCount is a number.                *)
LEMMA CountIno ==
  ASSUME NEW S \in SUBSET Ino
  PROVE  Cardinality(S) \in Nat
  BY FS_Subset, FS_CardinalityType

(* Sets of names are finite: Unlink adds a number to a revision.           *)
LEMMA CountName ==
  ASSUME NEW S \in SUBSET Name
  PROVE  Cardinality(S) \in Nat
  BY FS_Subset, FS_CardinalityType

(* Sets of parents' entries are finite: all() lists them.                  *)
LEMMA ParentEntriesFinite ==
  ASSUME NEW S \in SUBSET ParentEntry
  PROVE  IsFiniteSet(S) /\ Cardinality(S) \in Nat
<1> DEFINE g == [x \in Name \X Obj |-> EntryOf(x[1], x[2])]
<1>1. g \in Surjection(Name \X Obj, ParentEntry)
  <2>1. g \in [Name \X Obj -> ParentEntry]
    BY DEF EntryOf, ParentEntry
  <2>2. ASSUME NEW e \in ParentEntry PROVE \E x \in Name \X Obj : g[x] = e
    <3>1. <<e.name, e.node>> \in Name \X Obj /\ g[<<e.name, e.node>>] = e
      BY DEF EntryOf, ParentEntry
    <3>2. QED
      BY <3>1
  <2>3. QED
    BY <2>1, <2>2 DEF Surjection
<1>2. IsFiniteSet(Name \X Obj)
  BY FS_Product
<1> HIDE DEF g
<1>3. IsFiniteSet(ParentEntry)
  BY <1>1, <1>2, FS_Surjection
<1>4. QED
  BY <1>3, FS_Subset, FS_CardinalityType

(* A list of one inode, as Forget and rmChild make for removeRef.          *)
LEMMA Singleton ==
  ASSUME NEW o \in Obj
  PROVE  /\ <<o>> \in Seq(Obj) /\ <<o>> # <<>>
         /\ Len(<<o>>) = 1 /\ Head(<<o>>) = o
         /\ \A k \in 1..Len(<<o>>) : <<o>>[k] = o
  OBVIOUS

(* Whatever order removeRef takes the parents in, it takes each of them.   *)
LEMMA OrdersOK ==
  ASSUME NEW S \in SUBSET ParentEntry, NEW s \in Orders(S)
  PROVE  /\ s \in Seq(S)
         /\ \A e \in S : \E k \in 1..Len(s) : s[k] = e
<1>1. Cardinality(S) \in Nat
  BY ParentEntriesFinite
<1>2. s \in [1..Cardinality(S) -> S]
  BY DEF Orders, Surjection
<1>3. s \in Seq(S) /\ Len(s) = Cardinality(S)
  BY <1>1, <1>2
<1>4. QED
  BY <1>3 DEF Orders, Surjection

-----------------------------------------------------------------------------
(* The shape of the state: types, frames, and no pointer to an object that *)
(* does not exist.                                                         *)
Shape == TypeOK /\ FramesOK /\ TableOK /\ PointersOK /\ FreshOK

(* Shape contains the types of pc and fr.                                  *)
LEMMA ShapeThreads ==
  ASSUME Shape PROVE ThreadsOK
  BY DEF Shape, TypeOK, ThreadsOK

(* A new bridge has its shape (bridge.go:32-55).                           *)
LEMMA InitShape == Init => Shape
<1> SUFFICES ASSUME Init PROVE Shape
  OBVIOUS
<1>1. TypeOK
  <2>1. IdleFrame \in Frame
    BY IdleFrameOK
  <2>2. ThreadsOK
    BY <2>1 DEF Init, ThreadsOK, Label
  <2>3. /\ alloc \subseteq Obj /\ ino \in [Obj -> Ino]
        /\ lookupCount \in [Obj -> Nat] /\ revision \in [Obj -> Nat]
    BY DEF Init, One
  <2>4. /\ parents \in [Obj -> SUBSET ParentEntry]
        /\ children \in [Obj -> [Name -> Obj \cup {Nil}]]
        /\ nodes \in [Ino -> Obj \cup {Nil}]
    BY DEF Init
  <2>5. nodeCountHigh \in Nat /\ kcount \in [Ino -> Nat]
    BY DEF Init, One
  <2>6. issued \in 0..MaxRequests /\ panic \in Panic
    BY DEF Init, Panic
  <2>7. QED
    BY <2>2, <2>3, <2>4, <2>5, <2>6 DEF TypeOK, ThreadsOK
<1>2. FramesOK
  BY IdleFrameOK DEF Init, FramesOK
<1>3. TableOK /\ PointersOK
  BY DEF Init, TableOK, PointersOK, Nil
<1>4. FreshOK
  BY DEF Init, FreshOK, One
<1>5. QED
  BY <1>1, <1>2, <1>3, <1>4 DEF Shape

(* A step that serves a request without touching the tree.                 *)
LEMMA ServeShape ==
  ASSUME Shape, NEW t \in Thread, NEW l \in Label, NEW group,
         group \ {Nil} \subseteq Obj, NEW f \in Frame, FrameOK(l, f, alloc),
         Serve(t, l, group, f)
  PROVE  Shape'
<1>1. /\ Goto(t, l, group, f)
      /\ UNCHANGED <<alloc, ino, lookupCount, revision, parents, children, nodes,
                     nodeCountHigh, kcount, issued, panic>>
  BY DEF Serve, inodeVars, tableVars, kernelVars
<1>2. ThreadsOK' /\ FramesOK'
  BY <1>1, ShapeThreads, GotoOK DEF Shape
<1>3. TypeOK'
  BY <1>1, <1>2 DEF Shape, TypeOK, ThreadsOK
<1>4. TableOK' /\ PointersOK' /\ FreshOK'
  BY <1>1 DEF Shape, TableOK, PointersOK, FreshOK
<1>5. QED
  BY <1>2, <1>3, <1>4 DEF Shape

(* A request from the kernel keeps the shape.                              *)
LEMMA SendShape ==
  ASSUME Shape, NEW t \in Thread, NEW l \in Label, NEW f \in Frame,
         FrameOK(l, f, alloc), Send(t, l, f), kcount' \in [Ino -> Nat]
  PROVE  Shape'
<1>1. /\ Goto(t, l, {}, f)
      /\ issued' = issued + 1 /\ issued < MaxRequests
      /\ UNCHANGED <<alloc, ino, lookupCount, revision, parents, children, nodes,
                     nodeCountHigh, panic>>
  BY DEF Send, inodeVars, tableVars
<1>2. ThreadsOK' /\ FramesOK'
  BY <1>1, ShapeThreads, GotoOK DEF Shape
<1>3. TypeOK'
  BY <1>1, <1>2 DEF Shape, TypeOK, ThreadsOK
<1>4. TableOK' /\ PointersOK' /\ FreshOK'
  BY <1>1 DEF Shape, TableOK, PointersOK, FreshOK
<1>5. QED
  BY <1>2, <1>3, <1>4 DEF Shape

(* So do the three kinds of request.                                       *)
LEMMA KernelShape ==
  ASSUME Shape, NEW t \in Thread, Kernel(t)
  PROVE  Shape'
<1>1. CASE SendEntry(t)
  <2>1. PICK k \in {"Lookup", "Make", "Remove"}, p \in DirIno, m \in Name :
          /\ Send(t, "resolve", [IdleFrame EXCEPT !.op = k, !.pino = p, !.name = m])
          /\ UNCHANGED kcount
    BY <1>1 DEF SendEntry
  <2> DEFINE f == [IdleFrame EXCEPT !.op = k, !.pino = p, !.name = m]
  <2>2. f \in Frame
    BY IdleFrameOK DEF Frame, OpKind
  <2>3. FrameOK("resolve", f, alloc)
    BY DEF FrameOK, IdleFrame
  <2> HIDE DEF f
  <2>4. kcount' \in [Ino -> Nat]
    BY <2>1 DEF Shape, TypeOK
  <2>5. QED
    BY <2>1, <2>2, <2>3, <2>4, SendShape DEF Label, f
<1>2. CASE SendRename(t)
  <2>1. PICK mv \in Moves :
          /\ Send(t, "resolve", [IdleFrame EXCEPT !.op = "Rename", !.pino = mv[1],
                           !.name = mv[2], !.npino = mv[3], !.nname = mv[4]])
          /\ UNCHANGED kcount
    BY <1>2 DEF SendRename
  <2> DEFINE f == [IdleFrame EXCEPT !.op = "Rename", !.pino = mv[1],
                           !.name = mv[2], !.npino = mv[3], !.nname = mv[4]]
  <2>2. mv[1] \in Ino /\ mv[2] \in Name /\ mv[3] \in Ino /\ mv[4] \in Name
    OBVIOUS
  <2>3. f \in Frame
    BY <2>2, IdleFrameOK DEF Frame, OpKind
  <2>4. FrameOK("resolve", f, alloc)
    BY <2>2 DEF FrameOK, IdleFrame
  <2> HIDE DEF f
  <2>5. kcount' \in [Ino -> Nat]
    BY <2>1 DEF Shape, TypeOK
  <2>6. QED
    BY <2>1, <2>3, <2>4, <2>5, SendShape DEF Label, f
<1>3. CASE SendForget(t)
  <2>1. PICK i \in Evictable : \E n \in 1..kcount[i] :
          /\ Send(t, "forget", [IdleFrame EXCEPT !.op = "Forget", !.pino = i, !.nl = n])
          /\ kcount' = [kcount EXCEPT ![i] = @ - n]
    BY <1>3 DEF SendForget
  <2>2. i \in Ino /\ kcount[i] \in Nat /\ 1..kcount[i] \subseteq Nat
    BY DEF Shape, TypeOK
  <2>3. PICK n \in 1..kcount[i] :
          /\ Send(t, "forget", [IdleFrame EXCEPT !.op = "Forget", !.pino = i, !.nl = n])
          /\ kcount' = [kcount EXCEPT ![i] = @ - n]
    BY <2>1
  <2> DEFINE f == [IdleFrame EXCEPT !.op = "Forget", !.pino = i, !.nl = n]
  <2>4. f \in Frame
    BY <2>2, IdleFrameOK DEF Frame, OpKind
  <2>5. FrameOK("forget", f, alloc)
    BY <2>2 DEF FrameOK, IdleFrame
  <2> HIDE DEF f
  <2>6. kcount' \in [Ino -> Nat]
    BY <2>2, <2>3 DEF Shape, TypeOK
  <2>7. QED
    BY <2>3, <2>4, <2>5, <2>6, SendShape DEF Label, f
<1>4. QED
  BY <1>1, <1>2, <1>3 DEF Kernel

(* Taking a mutex changes want and held only.                              *)
LEMMA AcquireShape ==
  ASSUME Shape, NEW t \in Thread, Acquire(t)
  PROVE  Shape'
<1>1. /\ UNCHANGED <<alloc, ino, lookupCount, revision, parents, children, nodes,
                     nodeCountHigh, pc, fr, kcount, issued, panic>>
      /\ \E o \in want[t] : /\ want' = [want EXCEPT ![t] = @ \ {o}]
                            /\ held' = [held EXCEPT ![t] = @ \cup {o}]
  BY DEF Acquire, inodeVars, tableVars, kernelVars
<1>2. want' \in [Thread -> SUBSET Obj] /\ held' \in [Thread -> SUBSET Obj]
  BY <1>1 DEF Shape, TypeOK
<1>3. TypeOK'
  BY <1>1, <1>2 DEF Shape, TypeOK
<1>4. FramesOK' /\ TableOK' /\ PointersOK' /\ FreshOK'
  BY <1>1 DEF Shape, FramesOK, TableOK, PointersOK, FreshOK
<1>5. QED
  BY <1>3, <1>4 DEF Shape

(* A panic stops the process and changes nothing else.                     *)
LEMMA FailShape ==
  ASSUME Shape, NEW why \in Panic, Fail(why)
  PROVE  Shape'
<1>1. /\ UNCHANGED <<alloc, ino, lookupCount, revision, parents, children, nodes,
                     nodeCountHigh, pc, fr, want, held, kcount, issued>>
      /\ panic' = why
  BY DEF Fail, inodeVars, tableVars, threadVars, kernelVars
<1>2. TypeOK'
  BY <1>1 DEF Shape, TypeOK
<1>3. FramesOK' /\ TableOK' /\ PointersOK' /\ FreshOK'
  BY <1>1 DEF Shape, FramesOK, TableOK, PointersOK, FreshOK
<1>4. QED
  BY <1>2, <1>3 DEF Shape

(* The objects a handler can name.                                         *)
LEMMA Frames ==
  ASSUME Shape, NEW t \in Thread
  PROVE  /\ fr[t] \in Frame /\ FrameOK(pc[t], fr[t], alloc)
         /\ alloc \subseteq Obj
         /\ \A i \in Ino : nodes[i] \in alloc \cup {Nil}
         /\ \A o \in Obj, m \in Name : children[o][m] \in alloc \cup {Nil}
  BY DEF Shape, TypeOK, FramesOK, TableOK, PointersOK

(* The handlers of bridge.go keep the shape.                               *)
LEMMA HandlerShape ==
  ASSUME Shape, NEW t \in Thread, Handler(t)
  PROVE  Shape'
<1> DEFINE f == fr[t]
<1>0. /\ f \in Frame /\ FrameOK(pc[t], f, alloc)
      /\ alloc \subseteq Obj
      /\ \A i \in Ino : nodes[i] \in alloc \cup {Nil}
  BY Frames
<1>1. Bare(f) \in Frame /\ FrameOK("done", Bare(f), alloc)
  BY <1>0, BareOK
<1>2. CASE UnknownNode(t)
  BY <1>2, FailShape DEF UnknownNode, Panic
<1>3. CASE EntryFound(t)
  <2>1. PICK c \in Ino :
          Serve(t, "addCheck", {Parent(t)}, [f EXCEPT !.parent = Parent(t), !.cino = c])
    BY <1>3 DEF EntryFound
  <2> DEFINE g == [f EXCEPT !.parent = Parent(t), !.cino = c]
  <2>2. pc[t] = "resolve" /\ Parent(t) \in alloc
    BY <1>0, <1>3 DEF EntryFound, At, Parent, FrameOK
  <2>3. g \in Frame
    BY <1>0, <2>2 DEF Frame
  <2>4. FrameOK("addCheck", g, alloc)
    BY <1>0, <2>2 DEF FrameOK, Frame
  <2> HIDE DEF g
  <2>5. QED
    BY <1>0, <2>1, <2>2, <2>3, <2>4, ServeShape DEF Label, g
<1>4. CASE EntryGone(t)
  <2> DEFINE g == [f EXCEPT !.parent = Parent(t)]
  <2>1. pc[t] = "resolve" /\ Parent(t) \in alloc
    BY <1>0, <1>4 DEF EntryGone, At, Parent, FrameOK
  <2>2. Serve(t, "rmRead", {Parent(t)}, g)
    BY <1>4 DEF EntryGone
  <2>3. g \in Frame
    BY <1>0, <2>1 DEF Frame
  <2>4. FrameOK("rmRead", g, alloc)
    BY <1>0, <2>1 DEF FrameOK, Frame
  <2> HIDE DEF g
  <2>5. QED
    BY <1>0, <2>1, <2>2, <2>3, <2>4, ServeShape DEF Label
<1>5. CASE Refused(t)
  BY <1>5, <1>1, ServeShape DEF Refused, Label
<1>6. CASE RenameFrom(t)
  <2> DEFINE g == [f EXCEPT !.parent = Parent(t)]
  <2>1. pc[t] = "resolve" /\ Parent(t) \in alloc /\ f.op = "Rename"
    BY <1>0, <1>6 DEF RenameFrom, At, Parent, FrameOK
  <2>2. Serve(t, "resolve2", {}, g)
    BY <1>6 DEF RenameFrom
  <2>3. g \in Frame
    BY <1>0, <2>1 DEF Frame
  <2>4. FrameOK("resolve2", g, alloc)
    BY <1>0, <2>1 DEF FrameOK, Frame
  <2> HIDE DEF g
  <2>5. QED
    BY <1>0, <2>1, <2>2, <2>3, <2>4, ServeShape DEF Label
<1>7. CASE RenameTo(t)
  <2> DEFINE np == nodes[f.npino]
             g == [f EXCEPT !.newParent = np]
  <2>1. pc[t] = "resolve2" /\ np \in alloc /\ f.parent \in alloc
    BY <1>0, <1>7 DEF RenameTo, At, FrameOK
  <2>2. Serve(t, "mvRead", {f.parent, np}, g)
    BY <1>7 DEF RenameTo
  <2>3. g \in Frame
    BY <1>0, <2>1 DEF Frame
  <2>4. FrameOK("mvRead", g, alloc)
    BY <1>0, <2>1 DEF FrameOK, Frame
  <2> HIDE DEF g, np
  <2>5. QED
    BY <1>0, <2>1, <2>2, <2>3, <2>4, ServeShape DEF Label
<1>8. CASE ForgetUnknown(t)
  BY <1>8, <1>1, ServeShape DEF ForgetUnknown, Label
<1>9. CASE ForgetKnown(t)
  <2> DEFINE g == [f EXCEPT !.todo = <<Parent(t)>>]
  <2>1. pc[t] = "forget" /\ Parent(t) \in alloc
    BY <1>0, <1>9 DEF ForgetKnown, At, Parent, FrameOK
  <2>2. Serve(t, "refDec", {Parent(t)}, g)
    BY <1>9 DEF ForgetKnown
  <2>3. <<Parent(t)>> \in Seq(Obj) /\ <<Parent(t)>> # <<>>
    BY <1>0, <2>1, Singleton
  <2>4. g \in Frame
    BY <1>0, <2>3 DEF Frame
  <2>5. FrameOK("refDec", g, alloc)
    BY <1>0, <2>1, <2>3 DEF FrameOK, Frame
  <2> HIDE DEF g
  <2>6. QED
    BY <1>0, <2>1, <2>2, <2>4, <2>5, ServeShape DEF Label
<1>10. CASE Compact(t)
  <2>1. /\ UNCHANGED <<alloc, ino, lookupCount, revision, parents, children, nodes,
                       kcount, issued, panic>>
        /\ nodeCountHigh' \in Nat
    BY <1>10, CountIno DEF Compact, NodeCount, inodeVars, kernelVars, Shape, TypeOK
  <2>2. Goto(t, "done", {}, Bare(f))
    BY <1>10 DEF Compact, Done
  <2>3. ThreadsOK' /\ FramesOK'
    BY <1>1, <2>1, <2>2, ShapeThreads, GotoOK DEF Shape, Label
  <2>4. TypeOK'
    BY <2>1, <2>3 DEF Shape, TypeOK, ThreadsOK
  <2>5. TableOK' /\ PointersOK' /\ FreshOK'
    BY <2>1 DEF Shape, TableOK, PointersOK, FreshOK
  <2>6. QED
    BY <2>3, <2>4, <2>5 DEF Shape
<1>11. CASE Reply(t)
  <2>1. /\ UNCHANGED <<alloc, ino, lookupCount, revision, parents, children, nodes,
                       nodeCountHigh, issued, panic>>
        /\ kcount' \in [Ino -> Nat]
    BY <1>11 DEF Reply, One, inodeVars, tableVars, Shape, TypeOK
  <2>2. Goto(t, "idle", {}, IdleFrame)
    BY <1>11 DEF Reply
  <2>3. ThreadsOK' /\ FramesOK'
    BY <1>0, <2>1, <2>2, IdleFrameOK, ShapeThreads, GotoOK DEF Shape, Label
  <2>4. TypeOK'
    BY <2>1, <2>3 DEF Shape, TypeOK, ThreadsOK
  <2>5. TableOK' /\ PointersOK' /\ FreshOK'
    BY <2>1 DEF Shape, TableOK, PointersOK, FreshOK
  <2>6. QED
    BY <2>3, <2>4, <2>5 DEF Shape
<1>12. QED
  BY <1>2, <1>3, <1>4, <1>5, <1>6, <1>7, <1>8, <1>9, <1>10, <1>11 DEF Handler

(* A step that writes the tree has the shape if the data do and the        *)
(* goroutines do.                                                          *)
LEMMA AddChildShape ==
  ASSUME Shape, NEW t \in Thread, AddChild(t)
  PROVE  Shape'
<1> DEFINE f == fr[t]
<1>0. /\ f \in Frame /\ FrameOK(pc[t], f, alloc) /\ alloc \subseteq Obj
      /\ \A i \in Ino : nodes[i] \in alloc \cup {Nil}
  BY Frames
<1>1. pc[t] = "addCheck" /\ f.parent \in alloc /\ f.name \in Name /\ f.cino \in Ino
      /\ f.child \in alloc \cup {Nil}
  BY <1>0 DEF AddChild, AddRetry, AddCommit, At, FrameOK
<1>2. CASE AddRetry(t)
  <2> DEFINE g == [f EXCEPT !.child = nodes[f.cino]]
  <2>1. Serve(t, "addCheck", {f.parent, nodes[f.cino]}, g)
    BY <1>2 DEF AddRetry
  <2>2. g \in Frame
    BY <1>0, <1>1 DEF Frame
  <2>3. FrameOK("addCheck", g, alloc)
    BY <1>0, <1>1 DEF FrameOK, Frame
  <2> HIDE DEF g
  <2>4. QED
    BY <1>0, <1>1, <2>1, <2>2, <2>3, ServeShape DEF Label
<1>3. CASE AddCommit(t)
  <2>1. PICK c \in Obj :
           /\ IF f.child = Nil THEN c \notin alloc ELSE c = f.child
           /\ alloc' = alloc \cup {c}
           /\ ino' = [ino EXCEPT ![c] = f.cino]
           /\ lookupCount' = [lookupCount EXCEPT ![c] = @ + 1]
           /\ revision' = [o \in Obj |->
                revision[o] + 2 * One(o = c) + One(o = f.parent)]
           /\ nodes' = [nodes EXCEPT ![f.cino] = c]
           /\ children' = [children EXCEPT ![f.parent][f.name] = c]
           /\ parents' = [parents EXCEPT ![c] = @ \cup {EntryOf(f.name, f.parent)}]
    BY <1>3 DEF AddCommit
  <2>2. Goto(t, "done", {}, Bare(f)) /\ UNCHANGED <<kcount, issued, panic>>
    BY <1>3 DEF AddCommit, Done, kernelVars
  <2>3. alloc \subseteq alloc' /\ alloc' \subseteq Obj /\ c \in alloc'
    BY <1>0, <2>1
  <2>4. Bare(f) \in Frame /\ FrameOK("done", Bare(f), alloc')
    BY <1>0, <2>3, BareOK
  <2>5. ThreadsOK' /\ FramesOK'
    BY <2>2, <2>3, <2>4, ShapeThreads, GotoOK DEF Shape, Label
  <2>6. /\ ino' \in [Obj -> Ino] /\ lookupCount' \in [Obj -> Nat]
        /\ revision' \in [Obj -> Nat]
    BY <1>0, <1>1, <2>1 DEF Shape, TypeOK, One
  <2>7. /\ parents' \in [Obj -> SUBSET ParentEntry]
        /\ children' \in [Obj -> [Name -> Obj \cup {Nil}]]
        /\ nodes' \in [Ino -> Obj \cup {Nil}]
    <3>1. EntryOf(f.name, f.parent) \in ParentEntry
      BY <1>0, <1>1 DEF EntryOf, ParentEntry
    <3>2. parents' \in [Obj -> SUBSET ParentEntry]
      BY <2>1, <3>1 DEF Shape, TypeOK
    <3>3. children' \in [Obj -> [Name -> Obj \cup {Nil}]]
      BY <2>1 DEF Shape, TypeOK
    <3>4. nodes' \in [Ino -> Obj \cup {Nil}]
      BY <2>1 DEF Shape, TypeOK
    <3>5. QED
      BY <3>2, <3>3, <3>4
  <2>8. nodeCountHigh' \in Nat
    BY <1>3, CountIno DEF AddCommit, NodeCount, Shape, TypeOK
  <2>9. TypeOK'
    BY <2>2, <2>3, <2>5, <2>6, <2>7, <2>8 DEF Shape, TypeOK, ThreadsOK
  <2>10. TableOK'
    <3>1. nodes[f.cino] = f.child
      BY <1>3 DEF AddCommit, ChildLocked
    <3>2. SUFFICES ASSUME NEW i \in Ino, nodes'[i] # Nil
                   PROVE  nodes'[i] \in alloc' /\ ino'[nodes'[i]] = i
      BY DEF TableOK
    <3>3. CASE i = f.cino
      BY <1>1, <2>1, <2>3, <3>3 DEF Shape, TypeOK
    <3>4. CASE i # f.cino
      <4>1. nodes'[i] = nodes[i] /\ nodes[i] \in alloc /\ ino[nodes[i]] = i
        BY <2>1, <3>2, <3>4 DEF Shape, TypeOK, TableOK
      <4>2. nodes[i] # c
        BY <1>1, <2>1, <3>1, <3>4, <4>1 DEF Shape, TableOK
      <4>3. QED
        BY <1>0, <2>1, <2>3, <4>1, <4>2 DEF Shape, TypeOK
    <3>5. QED
      BY <3>3, <3>4
  <2>11. PointersOK'
    BY <1>0, <1>1, <2>1, <2>3 DEF Shape, TypeOK, PointersOK, EntryOf
  <2>12. FreshOK'
    BY <1>0, <1>1, <2>1, <2>3 DEF Shape, TypeOK, FreshOK
  <2>13. QED
    BY <2>5, <2>9, <2>10, <2>11, <2>12 DEF Shape
<1>4. QED
  BY <1>2, <1>3 DEF AddChild

(* The two sections of rmChild keep the shape (inode.go:213-246).          *)
LEMMA RmChildShape ==
  ASSUME Shape, NEW t \in Thread, RmChild(t)
  PROVE  Shape'
<1> DEFINE f == fr[t]
<1>0. /\ f \in Frame /\ FrameOK(pc[t], f, alloc) /\ alloc \subseteq Obj
      /\ \A o \in Obj, m \in Name : children[o][m] \in alloc \cup {Nil}
  BY Frames
<1>1. /\ pc[t] \in {"rmRead", "rmCommit"} /\ f.parent \in alloc /\ f.name \in Name
      /\ pc[t] = "rmCommit" => f.child \in alloc
  BY <1>0 DEF RmChild, RmRead, RmRetry, RmCommit, At, FrameOK
<1>2. CASE RmRead(t)
  <2> DEFINE c == children[f.parent][f.name]
             g == [f EXCEPT !.child = c, !.rev = revision[f.parent]]
  <2>1. CASE c = Nil
    BY <1>0, <1>2, <2>1, BareOK, ServeShape DEF RmRead, Label
  <2>2. CASE c # Nil
    <3>1. Serve(t, "rmCommit", {f.parent, c}, g)
      BY <1>2, <2>2 DEF RmRead
    <3>2. c \in alloc /\ revision[f.parent] \in Nat
      BY <1>0, <1>1, <2>2 DEF Shape, TypeOK
    <3>3. g \in Frame
      BY <1>0, <3>2 DEF Frame
    <3>4. pc[t] = "rmRead"
      BY <1>2 DEF RmRead, At
    <3>5. FrameOK("rmCommit", g, alloc)
      BY <1>0, <1>1, <3>2, <3>4 DEF FrameOK, Frame
    <3> HIDE DEF c, g
    <3>6. QED
      BY <1>0, <1>1, <3>1, <3>2, <3>3, <3>5, ServeShape DEF Label
  <2>3. QED
    BY <2>1, <2>2
<1>3. CASE RmRetry(t)
  <2>1. Serve(t, "rmRead", {f.parent}, f) /\ pc[t] = "rmCommit"
    BY <1>3 DEF RmRetry, At
  <2>2. FrameOK("rmRead", f, alloc)
    BY <1>0, <1>1, <2>1 DEF FrameOK
  <2>3. QED
    BY <1>0, <1>1, <2>1, <2>2, ServeShape DEF Label
<1>4. CASE RmCommit(t)
  <2> DEFINE e == EntryOf(f.name, f.parent)
             kids == [children EXCEPT ![f.parent][f.name] = Nil]
             todo == IF IsLive(f.parent, lookupCount, kids) THEN <<>> ELSE <<f.parent>>
  <2>1. /\ children' = kids
        /\ parents' = [parents EXCEPT ![f.child] = @ \ {e}]
        /\ revision' = [o \in Obj |-> revision[o] + One(o = f.parent) + One(o = f.child)]
        /\ UNCHANGED <<alloc, ino, lookupCount, nodes, nodeCountHigh, kcount, issued, panic>>
    BY <1>4 DEF RmCommit, tableVars, kernelVars
  <2>2. Deref(t, f, todo)
    BY <1>4 DEF RmCommit
  <2>3. todo \in Seq(Obj) /\ \A k \in 1..Len(todo) : todo[k] \in alloc'
    <3>1. <<>> \in Seq(Obj) /\ Len(<<>>) = 0
      OBVIOUS
    <3>2. QED
      BY <1>0, <1>1, <2>1, <3>1, Singleton
  <2> HIDE DEF todo
  <2>4. ThreadsOK' /\ FramesOK'
    BY <1>0, <2>1, <2>2, <2>3, ShapeThreads, DerefOK DEF Shape
  <2>5. /\ revision' \in [Obj -> Nat]
        /\ parents' \in [Obj -> SUBSET ParentEntry]
        /\ children' \in [Obj -> [Name -> Obj \cup {Nil}]]
    <3>1. revision' \in [Obj -> Nat]
      BY <2>1 DEF Shape, TypeOK, One
    <3>2. parents' \in [Obj -> SUBSET ParentEntry]
      BY <2>1 DEF Shape, TypeOK
    <3>3. children' \in [Obj -> [Name -> Obj \cup {Nil}]]
      BY <2>1 DEF Shape, TypeOK
    <3>4. QED
      BY <3>1, <3>2, <3>3
  <2>6. TypeOK'
    BY <2>1, <2>4, <2>5 DEF Shape, TypeOK, ThreadsOK
  <2>7. TableOK' /\ PointersOK' /\ FreshOK'
    BY <1>0, <1>1, <2>1 DEF Shape, TypeOK, TableOK, PointersOK, FreshOK
  <2>8. QED
    BY <2>4, <2>6, <2>7 DEF Shape
<1>5. QED
  BY <1>2, <1>3, <1>4 DEF RmChild

(* The two sections of mvChild keep the shape (inode.go:249-303).          *)
LEMMA MvChildShape ==
  ASSUME Shape, NEW t \in Thread, MvChild(t)
  PROVE  Shape'
<1> DEFINE f == fr[t]
<1>0. /\ f \in Frame /\ FrameOK(pc[t], f, alloc) /\ alloc \subseteq Obj
      /\ \A o \in Obj, m \in Name : children[o][m] \in alloc \cup {Nil}
  BY Frames
<1>1. /\ pc[t] \in {"mvRead", "mvCommit"}
      /\ f.parent \in alloc /\ f.name \in Name
      /\ f.newParent \in alloc /\ f.nname \in Name
      /\ f.child \in alloc \cup {Nil} /\ f.dest \in alloc \cup {Nil}
  BY <1>0 DEF MvChild, MvRead, MvRetry, MvCommit, At, FrameOK
<1>2. CASE MvRead(t)
  <2> DEFINE c == children[f.parent][f.name]
             d == children[f.newParent][f.nname]
             g == [f EXCEPT !.child = c, !.dest = d, !.rev = revision[f.parent],
                            !.nrev = revision[f.newParent]]
  <2>1. Serve(t, "mvCommit", {f.parent, f.newParent, c, d}, g) /\ pc[t] = "mvRead"
    BY <1>2 DEF MvRead, At
  <2>2. /\ c \in alloc \cup {Nil} /\ d \in alloc \cup {Nil}
        /\ revision[f.parent] \in Nat /\ revision[f.newParent] \in Nat
    BY <1>0, <1>1 DEF Shape, TypeOK
  <2>3. g \in Frame
    BY <1>0, <2>2, ZenonT(60) DEF Frame
  <2>4. FrameOK("mvCommit", g, alloc)
    BY <1>0, <1>1, <2>1, <2>2 DEF FrameOK, Frame
  <2> HIDE DEF c, d, g
  <2>5. QED
    BY <1>0, <1>1, <2>1, <2>2, <2>3, <2>4, ServeShape DEF Label
<1>3. CASE MvRetry(t)
  <2>1. Serve(t, "mvRead", {f.parent, f.newParent}, f) /\ pc[t] = "mvCommit"
    BY <1>3 DEF MvRetry, At
  <2>2. FrameOK("mvRead", f, alloc)
    BY <1>0, <1>1, <2>1 DEF FrameOK
  <2>3. QED
    BY <1>0, <1>1, <2>1, <2>2, ServeShape DEF Label
<1>4. CASE MvCommit(t)
  <2> DEFINE from == EntryOf(f.name, f.parent)
             to == EntryOf(f.nname, f.newParent)
             kids == [children EXCEPT ![f.parent][f.name] = Nil,
                                      ![f.newParent][f.nname] = f.child]
             moved == One(f.child # Nil)
             replaced == One(f.dest # Nil)
             dead(o) == IF IsLive(o, lookupCount, kids) THEN <<>> ELSE <<o>>
             todo == dead(f.parent) \o dead(f.newParent)
  <2>1. /\ children' = kids
        /\ parents' = [o \in Obj |->
             LET kept == IF o = f.child THEN parents[o] \ {from} ELSE parents[o]
                 rest == IF o = f.dest THEN kept \ {to} ELSE kept
             IN  IF o = f.child THEN rest \cup {to} ELSE rest]
        /\ revision' = [o \in Obj |->
             revision[o] + moved * One(o = f.parent)
               + (moved + replaced) * One(o = f.newParent)
               + 2 * One(o = f.child) + One(o = f.dest)]
        /\ UNCHANGED <<alloc, ino, lookupCount, nodes, nodeCountHigh, kcount, issued, panic>>
    BY <1>4 DEF MvCommit, tableVars, kernelVars
  <2>2. Deref(t, f, todo)
    BY <1>4 DEF MvCommit
  <2>3. \A o \in alloc : dead(o) \in Seq(alloc)
    <3>1. <<>> \in Seq(alloc) /\ \A o \in alloc : <<o>> \in Seq(alloc)
      OBVIOUS
    <3>2. QED
      BY <3>1
  <2>4. todo \in Seq(alloc)
    <3>1. dead(f.parent) \in Seq(alloc) /\ dead(f.newParent) \in Seq(alloc)
      BY <1>1, <2>3
    <3> HIDE DEF dead
    <3>2. QED
      BY <3>1
  <2> HIDE DEF todo
  <2>5. todo \in Seq(Obj) /\ \A k \in 1..Len(todo) : todo[k] \in alloc'
    BY <1>0, <2>1, <2>4, SeqMonotonic
  <2>6. ThreadsOK' /\ FramesOK'
    BY <1>0, <2>1, <2>2, <2>5, ShapeThreads, DerefOK DEF Shape
  <2>7. revision' \in [Obj -> Nat]
    BY <2>1 DEF Shape, TypeOK, One
  <2>8. parents' \in [Obj -> SUBSET ParentEntry]
    <3>1. to \in ParentEntry
      BY <1>0, <1>1 DEF EntryOf, ParentEntry
    <3>2. QED
      BY <2>1, <3>1 DEF Shape, TypeOK
  <2>9. children' \in [Obj -> [Name -> Obj \cup {Nil}]]
    BY <1>0, <1>1, <2>1 DEF Shape, TypeOK
  <2>10. TypeOK'
    BY <2>1, <2>6, <2>7, <2>8, <2>9 DEF Shape, TypeOK, ThreadsOK
  <2>11. TableOK'
    BY <2>1 DEF Shape, TableOK
  <2>12. PointersOK'
    <3>1. \A o \in Obj, m \in Name : children'[o][m] \in alloc' \cup {Nil}
      BY <1>0, <1>1, <2>1 DEF Shape, TypeOK
    <3>2. \A o \in Obj : \A e \in parents'[o] : e.node \in alloc'
      BY <1>0, <1>1, <2>1 DEF Shape, PointersOK, EntryOf
    <3>3. QED
      BY <3>1, <3>2 DEF PointersOK
  <2>13. FreshOK'
    BY <1>0, <1>1, <2>1 DEF Shape, TypeOK, FreshOK, Nil
  <2>14. QED
    BY <2>6, <2>10, <2>11, <2>12, <2>13 DEF Shape
<1>5. QED
  BY <1>2, <1>3, <1>4 DEF MvChild

(* The sections of removeRef keep the shape (inode.go:150-210).            *)
LEMMA RemoveRefShape ==
  ASSUME Shape, NEW t \in Thread, RemoveRef(t)
  PROVE  Shape'
<1> DEFINE f == fr[t]
           n == Head(f.todo)
<1>0. /\ f \in Frame /\ FrameOK(pc[t], f, alloc) /\ alloc \subseteq Obj
  BY Frames
<1>1. /\ pc[t] \in {"refDec", "refUnlink", "refRetry"}
      /\ f.todo \in Seq(Obj) /\ f.todo # <<>>
      /\ \A k \in 1..Len(f.todo) : f.todo[k] \in alloc
  BY <1>0 DEF RemoveRef, LookupUnderflow, DecLive, DecDead, UnlinkRetry, Reread,
              Unlink, At, FrameOK, Frame
<1>2. /\ n \in alloc
      /\ Tail(f.todo) \in Seq(Obj)
      /\ \A k \in 1..Len(Tail(f.todo)) : Tail(f.todo)[k] \in alloc
  <2> DEFINE td == f.todo
  <2>1. td \in Seq(Obj) /\ td # <<>> /\ \A k \in 1..Len(td) : td[k] \in alloc
    BY <1>1
  <2> HIDE DEF td
  <2>2. /\ Head(td) \in alloc /\ Tail(td) \in Seq(Obj)
        /\ \A k \in 1..Len(Tail(td)) : Tail(td)[k] \in alloc
    BY <2>1
  <2>3. QED
    BY <2>2 DEF td
<1>3. LockGroup(n) \subseteq Obj
  <2>1. \A o \in Obj : LockGroup(o) \subseteq Obj
    BY DEF LockGroup, Shape, TypeOK, ParentEntry
  <2>2. QED
    BY <1>0, <1>2, <2>1
<1>4. CASE LookupUnderflow(t)
  BY <1>4, FailShape DEF LookupUnderflow, Panic
<1>5. CASE DecLive(t)
  <2>1. /\ lookupCount' = [lookupCount EXCEPT ![n] = @ - f.nl]
        /\ revision' = [revision EXCEPT ![n] = @ + One(f.nl > 0)]
        /\ f.nl <= lookupCount[n]
        /\ Deref(t, f, Tail(f.todo))
        /\ UNCHANGED <<alloc, ino, parents, children, nodes, nodeCountHigh, kcount,
                       issued, panic>>
    BY <1>5 DEF DecLive, tableVars, kernelVars
  <2>2. f.nl \in Nat
    BY <1>0 DEF Frame
  <2>3. lookupCount' \in [Obj -> Nat] /\ revision' \in [Obj -> Nat]
    <3>1. lookupCount[n] - f.nl \in Nat /\ revision[n] + One(f.nl > 0) \in Nat
      <4>1. lookupCount[n] \in Nat /\ revision[n] \in Nat
        BY <1>0, <1>2 DEF Shape, TypeOK
      <4> HIDE DEF n
      <4>2. QED
        BY <2>1, <2>2, <4>1 DEF One
    <3> HIDE DEF n
    <3>2. QED
      BY <2>1, <3>1 DEF Shape, TypeOK
  <2>4. ThreadsOK' /\ FramesOK'
    BY <1>0, <1>2, <2>1, ShapeThreads, DerefOK DEF Shape
  <2>5. TypeOK'
    BY <2>1, <2>3, <2>4 DEF Shape, TypeOK, ThreadsOK
  <2>6. TableOK' /\ PointersOK' /\ FreshOK'
    BY <1>2, <2>1 DEF Shape, TypeOK, TableOK, PointersOK, FreshOK
  <2>7. QED
    BY <2>4, <2>5, <2>6 DEF Shape
<1>6. CASE DecDead(t)
  <2> DEFINE g == [f EXCEPT !.nl = 0, !.pes = parents[n], !.rev = revision'[n]]
  <2>1. /\ lookupCount' = [lookupCount EXCEPT ![n] = @ - f.nl]
        /\ revision' = [revision EXCEPT ![n] = @ + One(f.nl > 0)]
        /\ f.nl <= lookupCount[n]
        /\ nodes' = [nodes EXCEPT ![ino[n]] = Nil]
        /\ Goto(t, "refUnlink", LockGroup(n), g)
        /\ UNCHANGED <<alloc, ino, parents, children, nodeCountHigh, kcount, issued, panic>>
    BY <1>6 DEF DecDead, kernelVars
  <2>2. f.nl \in Nat
    BY <1>0 DEF Frame
  <2>3. /\ lookupCount' \in [Obj -> Nat] /\ revision' \in [Obj -> Nat]
        /\ nodes' \in [Ino -> Obj \cup {Nil}]
    <3>1. lookupCount[n] - f.nl \in Nat /\ revision[n] + One(f.nl > 0) \in Nat
      <4>1. lookupCount[n] \in Nat /\ revision[n] \in Nat
        BY <1>0, <1>2 DEF Shape, TypeOK
      <4> HIDE DEF n
      <4>2. QED
        BY <2>1, <2>2, <4>1 DEF One
    <3> HIDE DEF n
    <3>2. QED
      BY <2>1, <3>1 DEF Shape, TypeOK
  <2>4. /\ revision'[n] \in Nat /\ parents[n] \subseteq ParentEntry
        /\ \A e \in parents[n] : e.node \in alloc
    BY <1>0, <1>2, <2>3 DEF Shape, TypeOK, PointersOK
  <2>5. g \in Frame
    BY <1>0, <2>4 DEF Frame
  <2>6. FrameOK("refUnlink", g, alloc')
    BY <1>0, <1>1, <2>1, <2>4 DEF FrameOK, Frame
  <2> HIDE DEF g
  <2>7. ThreadsOK' /\ FramesOK'
    BY <1>3, <2>1, <2>5, <2>6, ShapeThreads, GotoOK DEF Shape, Label
  <2>8. TypeOK'
    BY <2>1, <2>3, <2>7 DEF Shape, TypeOK, ThreadsOK
  <2>9. TableOK' /\ PointersOK' /\ FreshOK'
    BY <1>2, <2>1 DEF Shape, TypeOK, TableOK, PointersOK, FreshOK
  <2>10. QED
    BY <2>7, <2>8, <2>9 DEF Shape
<1>7. CASE UnlinkRetry(t)
  <2>1. Serve(t, "refRetry", {n}, f) /\ pc[t] = "refUnlink"
    BY <1>7 DEF UnlinkRetry, At
  <2>2. FrameOK("refRetry", f, alloc)
    BY <1>0, <1>1 DEF FrameOK
  <2>3. QED
    BY <1>0, <1>2, <2>1, <2>2, ServeShape DEF Label
<1>8. CASE Reread(t)
  <2> DEFINE g == [f EXCEPT !.pes = parents[n], !.rev = revision[n]]
  <2>1. Serve(t, "refUnlink", LockGroup(n), g)
    BY <1>8 DEF Reread
  <2>2. /\ revision[n] \in Nat /\ parents[n] \subseteq ParentEntry
        /\ \A e \in parents[n] : e.node \in alloc
    BY <1>0, <1>2 DEF Shape, TypeOK, PointersOK
  <2>3. g \in Frame
    BY <1>0, <2>2 DEF Frame
  <2>4. FrameOK("refUnlink", g, alloc)
    BY <1>0, <1>1, <2>2 DEF FrameOK, Frame
  <2> HIDE DEF g
  <2>5. QED
    BY <1>3, <2>1, <2>3, <2>4, ServeShape DEF Label
<1>9. CASE Unlink(t)
  <2> DEFINE mine == Linked(n, f.pes)
             g == [f EXCEPT !.removed = TRUE]
  <2>1. /\ children' = [o \in Obj |-> [m \in Name |->
             IF EntryOf(m, o) \in mine THEN Nil ELSE children[o][m]]]
        /\ parents' = [parents EXCEPT ![n] = {}]
        /\ revision' = [o \in Obj |->
             revision[o] + Cardinality({m \in Name : EntryOf(m, o) \in mine}) + One(o = n)]
        /\ UNCHANGED <<alloc, ino, lookupCount, nodes, nodeCountHigh, kcount, issued, panic>>
    BY <1>9 DEF Unlink, tableVars, kernelVars
  <2>2. PICK s \in Orders(f.pes) :
          Deref(t, g, [k \in 1..Len(s) |-> s[k].node] \o Tail(f.todo))
    BY <1>9 DEF Unlink
  <2> DEFINE up == [k \in 1..Len(s) |-> s[k].node]
             todo == up \o Tail(f.todo)
  <2>3. /\ f.pes \subseteq ParentEntry
        /\ \A e \in f.pes : e.node \in alloc
    BY <1>0 DEF Frame, FrameOK
  <2>4. s \in Seq(f.pes)
    BY <2>3, OrdersOK
  <2>5. /\ up \in Seq(Obj) /\ \A k \in 1..Len(up) : up[k] \in alloc
    BY <1>0, <2>3, <2>4
  <2> HIDE DEF up
  <2>6. todo \in Seq(Obj) /\ \A k \in 1..Len(todo) : todo[k] \in alloc'
    <3> DEFINE rest == Tail(f.todo)
    <3>1. rest \in Seq(Obj) /\ \A k \in 1..Len(rest) : rest[k] \in alloc
      BY <1>2
    <3> HIDE DEF rest
    <3>2. up \o rest \in Seq(Obj) /\ \A k \in 1..Len(up \o rest) : (up \o rest)[k] \in alloc
      BY <2>5, <3>1
    <3>3. QED
      BY <2>1, <3>2 DEF rest
  <2> HIDE DEF todo
  <2>7. g \in Frame
    BY <1>0 DEF Frame
  <2> HIDE DEF g
  <2>8. ThreadsOK' /\ FramesOK'
    BY <1>0, <2>1, <2>2, <2>6, <2>7, ShapeThreads, DerefOK DEF Shape, up, todo
  <2>9. revision' \in [Obj -> Nat]
    BY <2>1, CountName DEF Shape, TypeOK, One
  <2>10. /\ children' \in [Obj -> [Name -> Obj \cup {Nil}]]
         /\ parents' \in [Obj -> SUBSET ParentEntry]
    BY <2>1 DEF Shape, TypeOK
  <2>11. TypeOK'
    BY <2>1, <2>8, <2>9, <2>10 DEF Shape, TypeOK, ThreadsOK
  <2>12. TableOK' /\ PointersOK' /\ FreshOK'
    BY <2>1 DEF Shape, TypeOK, TableOK, PointersOK, FreshOK
  <2>13. QED
    BY <2>8, <2>11, <2>12 DEF Shape
<1>10. QED
  BY <1>4, <1>5, <1>6, <1>7, <1>8, <1>9 DEF RemoveRef

(* Every step keeps the shape.                                             *)
LEMMA StepShape ==
  ASSUME Shape, [Next]_vars
  PROVE  Shape'
<1>1. CASE UNCHANGED vars
  BY <1>1 DEF vars, inodeVars, tableVars, threadVars, kernelVars, Shape, TypeOK,
              FramesOK, TableOK, PointersOK, FreshOK
<1>2. ASSUME NEW t \in Thread, Step(t) \/ Kernel(t) PROVE Shape'
  BY <1>2, KernelShape, AcquireShape, HandlerShape, AddChildShape, RmChildShape,
     MvChildShape, RemoveRefShape DEF Step
<1>3. QED
  BY <1>1, <1>2 DEF Next

(* At every moment all variables have their types, the locals of a handler *)
(* are what its next section expects, and no pointer leads to an object    *)
(* that was not created: none of the sections that inode.go runs after it  *)
(* dropped and took its mutexes dereferences nil.                          *)
THEOREM ShapeInvariant == Spec => []Shape
<1>1. Init => Shape
  BY InitShape
<1>2. Shape /\ [Next]_vars => Shape'
  BY StepShape
<1>3. QED
  BY <1>1, <1>2, PTL DEF Spec

(* Every variable has its type, whatever the goroutines, the kernel and    *)
(* the file system do (inode.go:21-39, bridge.go:16-29).                   *)
THEOREM TypeCorrect == Spec => []TypeOK
<1>1. Shape => TypeOK
  BY DEF Shape
<1>2. QED
  BY <1>1, ShapeInvariant, PTL

-----------------------------------------------------------------------------
(* What a step can do, seen from one side at a time.                       *)

(* A goroutine moves alone.                                                *)
LEMMA GotoEffect ==
  ASSUME ThreadsOK, NEW t \in Thread, NEW l, NEW group, NEW f, Goto(t, l, group, f)
  PROVE  /\ pc'[t] = l /\ fr'[t] = f
         /\ \A u \in Thread \ {t} : pc'[u] = pc[u] /\ fr'[u] = fr[u]
  BY DEF ThreadsOK, Goto

(* Where Deref goes, and that it hands over the inodes still to be         *)
(* unlinked.                                                               *)
LEMMA DerefEffect ==
  ASSUME ThreadsOK, NEW t \in Thread, NEW f, NEW todo, Deref(t, f, todo)
  PROVE  /\ pc'[t] \in {"refDec", "compact", "done"} /\ fr'[t].todo = todo
         /\ \A u \in Thread \ {t} : pc'[u] = pc[u] /\ fr'[u] = fr[u]
<1>1. CASE todo # <<>>
  <2> DEFINE g == [Bare(f) EXCEPT !.todo = todo, !.removed = f.removed]
  <2>1. Goto(t, "refDec", {Head(todo)}, g)
    BY <1>1 DEF Deref
  <2>2. g.todo = todo
    BY DEF Bare, IdleFrame
  <2> HIDE DEF g
  <2>3. QED
    BY <2>1, <2>2, GotoEffect
<1>2. CASE todo = <<>>
  <2>1. Goto(t, "compact", {}, Bare(f)) \/ Goto(t, "done", {}, Bare(f))
    BY <1>2 DEF Deref, Done
  <2>2. Bare(f).todo = <<>>
    BY DEF Bare, IdleFrame
  <2>3. QED
    BY <1>2, <2>1, <2>2, GotoEffect
<1>3. QED
  BY <1>1, <1>2

(* The tree is written in four places.                                     *)
LEMMA TreeWriters ==
  ASSUME NEW t \in Thread, Step(t) \/ Kernel(t)
  PROVE  \/ AddCommit(t) \/ RmCommit(t) \/ MvCommit(t) \/ Unlink(t)
         \/ UNCHANGED <<alloc, ino, parents, children>>
<1>1. CASE Acquire(t)
  BY <1>1 DEF Acquire, inodeVars
<1>2. CASE Kernel(t)
  BY <1>2 DEF Kernel, SendEntry, SendRename, SendForget, Send, inodeVars
<1>3. CASE Handler(t)
  BY <1>3 DEF Handler, UnknownNode, EntryFound, EntryGone, Refused, RenameFrom,
              RenameTo, ForgetUnknown, ForgetKnown, Compact, Reply, Serve, Fail, inodeVars
<1>4. CASE AddChild(t) \/ RmChild(t) \/ MvChild(t)
  BY <1>4 DEF AddChild, AddRetry, RmChild, RmRead, RmRetry, MvChild, MvRead, MvRetry,
              Serve, inodeVars
<1>5. CASE RemoveRef(t)
  BY <1>5 DEF RemoveRef, LookupUnderflow, DecLive, DecDead, UnlinkRetry, Reread,
              Serve, Fail, inodeVars
<1>6. QED
  BY <1>1, <1>2, <1>3, <1>4, <1>5 DEF Step

(* The table is written in two, the lookup counts in three.                *)
LEMMA CountWriters ==
  ASSUME NEW t \in Thread, Step(t) \/ Kernel(t)
  PROVE  \/ AddCommit(t) \/ DecLive(t) \/ DecDead(t)
         \/ UNCHANGED <<ino, lookupCount, nodes>>
<1>1. CASE Acquire(t)
  BY <1>1 DEF Acquire, inodeVars, tableVars
<1>2. CASE Kernel(t)
  BY <1>2 DEF Kernel, SendEntry, SendRename, SendForget, Send, inodeVars, tableVars
<1>3. CASE Handler(t)
  BY <1>3 DEF Handler, UnknownNode, EntryFound, EntryGone, Refused, RenameFrom,
              RenameTo, ForgetUnknown, ForgetKnown, Compact, Reply, Serve, Fail,
              inodeVars, tableVars
<1>4. CASE AddChild(t) \/ RmChild(t) \/ MvChild(t)
  BY <1>4 DEF AddChild, AddRetry, RmChild, RmRead, RmRetry, RmCommit, MvChild, MvRead,
              MvRetry, MvCommit, Serve, inodeVars, tableVars
<1>5. CASE RemoveRef(t)
  BY <1>5 DEF RemoveRef, LookupUnderflow, UnlinkRetry, Reread, Unlink, Serve, Fail,
              inodeVars, tableVars
<1>6. QED
  BY <1>1, <1>2, <1>3, <1>4, <1>5 DEF Step

(* AddCommit, with its witness and without the bookkeeping.                *)
LEMMA AddCommitEffect ==
  ASSUME Shape, NEW t \in Thread, AddCommit(t)
  PROVE  /\ fr[t].parent \in alloc /\ fr[t].name \in Name /\ fr[t].cino \in Ino
         /\ \E c \in Obj :
              /\ c \in alloc => nodes[ino[c]] = c /\ ino[c] = fr[t].cino
              /\ alloc' = alloc \cup {c}
              /\ ino' = [ino EXCEPT ![c] = fr[t].cino]
              /\ lookupCount' = [lookupCount EXCEPT ![c] = @ + 1]
              /\ revision' = [o \in Obj |->
                   revision[o] + 2 * One(o = c) + One(o = fr[t].parent)]
              /\ nodes' = [nodes EXCEPT ![fr[t].cino] = c]
              /\ children' = [children EXCEPT ![fr[t].parent][fr[t].name] = c]
              /\ parents' = [parents EXCEPT ![c] = @ \cup {EntryOf(fr[t].name, fr[t].parent)}]
<1>1. fr[t].parent \in alloc /\ fr[t].name \in Name /\ fr[t].cino \in Ino
  BY Frames DEF AddCommit, At, FrameOK
<1>2. nodes[fr[t].cino] = fr[t].child
  BY DEF AddCommit, ChildLocked
<1>3. fr[t].child # Nil => fr[t].child \in alloc /\ ino[fr[t].child] = fr[t].cino
  BY <1>1, <1>2 DEF Shape, TableOK
<1>4. QED
  BY <1>1, <1>2, <1>3 DEF AddCommit

(* Nobody writes the parents of an inode without bumping its revision.     *)
LEMMA RevisionTells ==
  ASSUME Shape, NEW t \in Thread, Step(t) \/ Kernel(t), NEW o \in Obj
  PROVE  /\ revision[o] \in Nat /\ revision'[o] \in Nat /\ revision[o] <= revision'[o]
         /\ revision'[o] = revision[o] => parents'[o] = parents[o]
<1>0. revision \in [Obj -> Nat] /\ parents \in [Obj -> SUBSET ParentEntry]
  BY DEF Shape, TypeOK
<1>1. CASE AddCommit(t)
  <2>1. PICK c \in Obj :
          /\ revision' = [q \in Obj |->
               revision[q] + 2 * One(q = c) + One(q = fr[t].parent)]
          /\ parents' = [parents EXCEPT ![c] = @ \cup {EntryOf(fr[t].name, fr[t].parent)}]
    BY <1>1, AddCommitEffect
  <2>2. QED
    BY <1>0, <2>1 DEF One
<1>2. CASE RmCommit(t)
  <2>1. /\ revision' = [q \in Obj |->
             revision[q] + One(q = fr[t].parent) + One(q = fr[t].child)]
        /\ parents' = [parents EXCEPT ![fr[t].child] = @ \ {EntryOf(fr[t].name, fr[t].parent)}]
    BY <1>2 DEF RmCommit
  <2> DEFINE a == One(o = fr[t].parent)
             b == One(o = fr[t].child)
  <2>2. revision'[o] = revision[o] + a + b
    BY <2>1
  <2>3. a \in {0, 1} /\ b \in {0, 1} /\ (b = 0 => o # fr[t].child)
    BY DEF One
  <2>4. o # fr[t].child => parents'[o] = parents[o]
    BY <1>0, <2>1
  <2> HIDE DEF a, b
  <2>5. revision[o] \in Nat
    BY <1>0
  <2>6. QED
    BY <2>2, <2>3, <2>4, <2>5
<1>3. CASE MvCommit(t)
  <2> DEFINE f == fr[t]
             moved == One(f.child # Nil)
             replaced == One(f.dest # Nil)
  <2>1. /\ revision' = [q \in Obj |->
             revision[q] + moved * One(q = f.parent)
               + (moved + replaced) * One(q = f.newParent)
               + 2 * One(q = f.child) + One(q = f.dest)]
        /\ parents' = [q \in Obj |->
             LET kept == IF q = f.child THEN parents[q] \ {EntryOf(f.name, f.parent)}
                                        ELSE parents[q]
                 rest == IF q = f.dest THEN kept \ {EntryOf(f.nname, f.newParent)} ELSE kept
             IN  IF q = f.child THEN rest \cup {EntryOf(f.nname, f.newParent)} ELSE rest]
    BY <1>3 DEF MvCommit
  <2>2. moved \in {0, 1} /\ replaced \in {0, 1}
    BY DEF One
  <2> DEFINE a == moved * One(o = f.parent)
             b == (moved + replaced) * One(o = f.newParent)
             c == One(o = f.child)
             d == One(o = f.dest)
  <2>3. revision'[o] = revision[o] + a + b + 2 * c + d
    BY <2>1
  <2>4. /\ a \in Nat /\ b \in Nat /\ c \in Nat /\ d \in Nat
        /\ c = 0 => o # f.child
        /\ d = 0 => o # f.dest
    BY <2>2 DEF One
  <2>5. o # f.child /\ o # f.dest => parents'[o] = parents[o]
    BY <2>1
  <2> HIDE DEF a, b, c, d
  <2>6. revision[o] \in Nat
    BY <1>0
  <2>7. QED
    BY <2>3, <2>4, <2>5, <2>6
<1>4. CASE Unlink(t)
  <2> DEFINE n == Head(fr[t].todo)
             mine == Linked(n, fr[t].pes)
  <2>1. /\ revision' = [q \in Obj |->
             revision[q] + Cardinality({m \in Name : EntryOf(m, q) \in mine}) + One(q = n)]
        /\ parents' = [parents EXCEPT ![n] = {}]
    BY <1>4 DEF Unlink
  <2> HIDE DEF n, mine
  <2>2. Cardinality({m \in Name : EntryOf(m, o) \in mine}) \in Nat
    BY CountName
  <2>3. QED
    BY <1>0, <2>1, <2>2 DEF One
<1>5. CASE UNCHANGED <<alloc, ino, parents, children>>
      /\ ~(AddCommit(t) \/ RmCommit(t) \/ MvCommit(t) \/ Unlink(t))
  <2>1. CASE DecLive(t) \/ DecDead(t)
    <3> DEFINE n == Head(fr[t].todo)
    <3>1. revision' = [revision EXCEPT ![n] = @ + One(fr[t].nl > 0)]
      BY <2>1 DEF DecLive, DecDead
    <3> DEFINE k == One(fr[t].nl > 0)
    <3>2. k \in {0, 1}
      BY DEF One
    <3>3. revision' = [revision EXCEPT ![n] = @ + k]
      BY <3>1
    <3> HIDE DEF n, k
    <3>4. revision[o] \in Nat /\ parents' = parents
      BY <1>0, <1>5
    <3>5. revision'[o] = revision[o] \/ revision'[o] = revision[o] + k
      BY <1>0, <3>3
    <3>6. QED
      BY <3>2, <3>4, <3>5
  <2>2. CASE ~(DecLive(t) \/ DecDead(t))
    <3>1. revision' = revision
      BY <1>5, <2>2 DEF Step, Acquire, Kernel, SendEntry, SendRename, SendForget, Send,
              Handler, UnknownNode, EntryFound, EntryGone, Refused, RenameFrom,
              RenameTo, ForgetUnknown, ForgetKnown, Compact, Reply, AddChild, AddRetry,
              RmChild, RmRead, RmRetry, MvChild, MvRead, MvRetry, RemoveRef,
              LookupUnderflow, UnlinkRetry, Reread, Serve, Fail, inodeVars
    <3>2. QED
      BY <1>0, <1>5, <3>1
  <2>3. QED
    BY <2>1, <2>2
<1>6. QED
  BY <1>1, <1>2, <1>3, <1>4, <1>5, TreeWriters

(* Who enters the two labels of a removeRef that lets go of n.mu.          *)
LEMMA UnlinkMovers ==
  ASSUME Shape, NEW t \in Thread, Step(t) \/ Kernel(t), NEW u \in Thread,
         pc'[u] \in {"refUnlink", "refRetry"}
  PROVE  \/ pc'[u] = pc[u] /\ fr'[u] = fr[u]
         \/ u = t /\ (DecDead(t) \/ UnlinkRetry(t) \/ Reread(t))
<1>1. ThreadsOK
  BY ShapeThreads
<1>2. ASSUME NEW l, NEW group, NEW f, Goto(t, l, group, f),
             l \notin {"refUnlink", "refRetry"}
      PROVE  pc'[u] = pc[u] /\ fr'[u] = fr[u]
  BY <1>1, <1>2, GotoEffect
<1>3. ASSUME NEW f, NEW todo, Deref(t, f, todo)
      PROVE  pc'[u] = pc[u] /\ fr'[u] = fr[u]
  BY <1>1, <1>3, DerefEffect
<1>4. CASE Acquire(t)
  BY <1>4 DEF Acquire
<1>5. CASE Kernel(t)
  <2>1. \E f : Goto(t, "resolve", {}, f) \/ Goto(t, "forget", {}, f)
    BY <1>5 DEF Kernel, SendEntry, SendRename, SendForget, Send
  <2>2. QED
    BY <1>2, <2>1
<1>6. CASE Handler(t)
  <2>1. CASE UnknownNode(t)
    BY <2>1 DEF UnknownNode, Fail, threadVars
  <2>2. CASE ~UnknownNode(t)
    <3>1. \E l \in Label \ {"refUnlink", "refRetry"} : \E group, f : Goto(t, l, group, f)
      <4>1. CASE EntryFound(t) \/ EntryGone(t)
        BY <4>1 DEF EntryFound, EntryGone, Serve, Label
      <4>2. CASE Refused(t) \/ RenameFrom(t) \/ RenameTo(t)
        BY <4>2 DEF Refused, RenameFrom, RenameTo, Serve, Label
      <4>3. CASE ForgetUnknown(t) \/ ForgetKnown(t)
        BY <4>3 DEF ForgetUnknown, ForgetKnown, Serve, Label
      <4>4. CASE Compact(t) \/ Reply(t)
        BY <4>4 DEF Compact, Reply, Done, Label
      <4>5. QED
        BY <1>6, <2>2, <4>1, <4>2, <4>3, <4>4 DEF Handler
    <3>2. QED
      BY <1>2, <3>1
  <2>3. QED
    BY <2>1, <2>2
<1>7. CASE AddChild(t) \/ RmChild(t) \/ MvChild(t)
  <2>1. CASE RmCommit(t) \/ MvCommit(t)
    <3>1. \E f, todo : Deref(t, f, todo)
      BY <2>1 DEF RmCommit, MvCommit
    <3>2. QED
      BY <1>3, <3>1
  <2>2. CASE AddRetry(t) \/ AddCommit(t)
    <3>1. \E group, f : Goto(t, "addCheck", group, f) \/ Goto(t, "done", group, f)
      BY <2>2 DEF AddRetry, AddCommit, Serve, Done
    <3>2. QED
      BY <1>2, <3>1
  <2>3. CASE RmRead(t) \/ RmRetry(t)
    <3>1. \E group, f : \/ Goto(t, "done", group, f) \/ Goto(t, "rmCommit", group, f)
                       \/ Goto(t, "rmRead", group, f)
      BY <2>3 DEF RmRead, RmRetry, Serve
    <3>2. QED
      BY <1>2, <3>1
  <2>4. CASE MvRead(t) \/ MvRetry(t)
    <3>1. \E group, f : Goto(t, "mvCommit", group, f) \/ Goto(t, "mvRead", group, f)
      BY <2>4 DEF MvRead, MvRetry, Serve
    <3>2. QED
      BY <1>2, <3>1
  <2>5. QED
    BY <1>7, <2>1, <2>2, <2>3, <2>4 DEF AddChild, RmChild, MvChild
<1>8. CASE RemoveRef(t)
  <2>1. CASE LookupUnderflow(t)
    BY <2>1 DEF LookupUnderflow, Fail, threadVars
  <2>2. CASE DecLive(t) \/ Unlink(t)
    BY <1>3, <2>2 DEF DecLive, Unlink
  <2>3. CASE DecDead(t) \/ UnlinkRetry(t) \/ Reread(t)
    <3>1. \E l, group, f : Goto(t, l, group, f)
      BY <2>3 DEF DecDead, UnlinkRetry, Reread, Serve
    <3>2. QED
      BY <1>1, <2>3, <3>1, GotoEffect
  <2>4. QED
    BY <1>8, <2>1, <2>2, <2>3 DEF RemoveRef
<1>9. QED
  BY <1>4, <1>5, <1>6, <1>7, <1>8 DEF Step

(* A pointer a removeRef works on leads to an object.                      *)
LEMMA HeadOK ==
  ASSUME Shape, NEW t \in Thread, pc[t] \in {"refDec", "refUnlink", "refRetry"}
  PROVE  /\ fr[t].todo \in Seq(Obj) /\ fr[t].todo # <<>>
         /\ Head(fr[t].todo) \in alloc /\ Head(fr[t].todo) \in Obj
<1> DEFINE td == fr[t].todo
<1>1. td \in Seq(Obj) /\ td # <<>> /\ (\A k \in 1..Len(td) : td[k] \in alloc)
      /\ alloc \subseteq Obj
  BY Frames DEF Frame, FrameOK
<1> HIDE DEF td
<1>2. Head(td) \in alloc
  BY <1>1
<1>3. QED
  BY <1>1, <1>2 DEF td

(* A stalled removeRef knows its inode's parents, or can tell that it does *)
(* not (inode.go:172-187).                                                 *)
LEMMA RereadStep ==
  ASSUME Shape, RereadOK, NEW t \in Thread, Step(t) \/ Kernel(t)
  PROVE  RereadOK'
<1> SUFFICES ASSUME NEW u \in Thread, pc'[u] = "refUnlink"
             PROVE  LET n == Head(fr'[u].todo)
                    IN  /\ fr'[u].rev <= revision'[n]
                        /\ revision'[n] = fr'[u].rev => fr'[u].pes = parents'[n]
  BY DEF RereadOK, Unchanged
<1>1. CASE pc'[u] = pc[u] /\ fr'[u] = fr[u]
  <2> DEFINE n == Head(fr[u].todo)
  <2>1. n \in Obj
    BY <1>1, HeadOK
  <2>2. /\ fr[u].rev \in Nat /\ fr[u].rev <= revision[n]
        /\ revision[n] = fr[u].rev => fr[u].pes = parents[n]
    BY <1>1, Frames DEF RereadOK, Unchanged, Frame
  <2> HIDE DEF n
  <2>3. /\ revision[n] \in Nat /\ revision'[n] \in Nat /\ revision[n] <= revision'[n]
        /\ revision'[n] = revision[n] => parents'[n] = parents[n]
    BY <2>1, RevisionTells
  <2>4. /\ fr[u].rev <= revision'[n]
        /\ revision'[n] = fr[u].rev => fr[u].pes = parents'[n]
    BY <2>2, <2>3
  <2>5. QED
    BY <1>1, <2>4 DEF n
<1>2. CASE u = t /\ DecDead(t)
  <2> DEFINE n == Head(fr[t].todo)
             g == [fr[t] EXCEPT !.nl = 0, !.pes = parents[n], !.rev = revision'[n]]
  <2>1. Goto(t, "refUnlink", LockGroup(n), g) /\ parents' = parents
        /\ pc[t] = "refDec"
    BY <1>2 DEF DecDead, At
  <2>2. g.pes = parents[n] /\ g.rev = revision'[n] /\ g.todo = fr[t].todo
    BY Frames DEF Frame
  <2>3. n \in Obj
    BY <2>1, HeadOK
  <2> HIDE DEF g
  <2>4. fr'[t] = g
    BY <2>1, GotoEffect, ShapeThreads
  <2>5. revision'[n] \in Nat
    BY <2>3, RevisionTells
  <2>6. QED
    BY <1>2, <2>1, <2>2, <2>4, <2>5
<1>3. CASE u = t /\ Reread(t)
  <2> DEFINE n == Head(fr[t].todo)
             g == [fr[t] EXCEPT !.pes = parents[n], !.rev = revision[n]]
  <2>1. Goto(t, "refUnlink", LockGroup(n), g) /\ parents' = parents /\ revision' = revision
        /\ pc[t] = "refRetry"
    BY <1>3 DEF Reread, Serve, At, inodeVars
  <2>2. g.pes = parents[n] /\ g.rev = revision[n] /\ g.todo = fr[t].todo
    BY Frames DEF Frame
  <2>3. n \in Obj
    BY <2>1, HeadOK
  <2> HIDE DEF g
  <2>4. fr'[t] = g
    BY <2>1, GotoEffect, ShapeThreads
  <2>5. revision[n] \in Nat
    BY <2>3 DEF Shape, TypeOK
  <2>6. QED
    BY <1>3, <2>1, <2>2, <2>4, <2>5
<1>4. CASE u = t /\ UnlinkRetry(t)
  <2>1. pc'[t] = "refRetry"
    BY <1>4, GotoEffect, ShapeThreads DEF UnlinkRetry, Serve
  <2>2. QED
    BY <1>4, <2>1
<1>5. QED
  BY <1>1, <1>2, <1>3, <1>4, UnlinkMovers

(* What left the table stays out of it, whoever still holds a pointer.     *)
LEMMA DeadForGood ==
  ASSUME Shape, NEW t \in Thread, Step(t) \/ Kernel(t), NEW o \in alloc,
         nodes[ino[o]] # o
  PROVE  /\ ino'[o] = ino[o] /\ nodes'[ino[o]] # o
         /\ lookupCount[o] = 0 => lookupCount'[o] = 0
<1>0. /\ o \in Obj /\ ino \in [Obj -> Ino] /\ nodes \in [Ino -> Obj \cup {Nil}]
      /\ lookupCount \in [Obj -> Nat] /\ o # Nil
  BY DEF Shape, TypeOK, Nil
<1>1. CASE AddCommit(t)
  <2>1. PICK c \in Obj :
           /\ c \in alloc => nodes[ino[c]] = c
           /\ ino' = [ino EXCEPT ![c] = fr[t].cino]
           /\ lookupCount' = [lookupCount EXCEPT ![c] = @ + 1]
           /\ nodes' = [nodes EXCEPT ![fr[t].cino] = c]
    BY <1>1, AddCommitEffect
  <2>2. c # o
    BY <2>1
  <2>3. QED
    BY <1>0, <2>1, <2>2
<1>2. CASE DecLive(t) \/ DecDead(t)
  <2> DEFINE n == Head(fr[t].todo)
  <2>1. /\ lookupCount' = [lookupCount EXCEPT ![n] = @ - fr[t].nl]
        /\ fr[t].nl <= lookupCount[n]
        /\ nodes' = nodes \/ nodes' = [nodes EXCEPT ![ino[n]] = Nil]
        /\ ino' = ino /\ pc[t] = "refDec"
    BY <1>2 DEF DecLive, DecDead, At, tableVars
  <2>2. fr[t].nl \in Nat
    BY Frames DEF Frame
  <2>3. n \in Obj
    BY <2>1, HeadOK
  <2> HIDE DEF n
  <2>4. nodes'[ino[o]] # o
    BY <1>0, <2>1
  <2>5. lookupCount[o] = 0 => lookupCount'[o] = 0
    <3>1. CASE o = n
      BY <1>0, <2>1, <2>2, <3>1
    <3>2. CASE o # n
      BY <1>0, <2>1, <3>2
    <3>3. QED
      BY <3>1, <3>2
  <2>6. QED
    BY <2>1, <2>4, <2>5
<1>3. CASE UNCHANGED <<ino, lookupCount, nodes>>
  BY <1>3
<1>4. QED
  BY <1>1, <1>2, <1>3, CountWriters

(* Nobody revives an inode that a removeRef found dead (inode.go:199-201). *)
LEMMA DeadStep ==
  ASSUME Shape, DeadStaysDead, NEW t \in Thread, Step(t) \/ Kernel(t)
  PROVE  DeadStaysDead'
<1> SUFFICES ASSUME NEW u \in Thread, pc'[u] \in {"refUnlink", "refRetry"}
             PROVE  LET n == Head(fr'[u].todo)
                    IN  lookupCount'[n] = 0 /\ nodes'[ino'[n]] # n
  BY DEF DeadStaysDead
<1>1. ASSUME pc[u] \in {"refUnlink", "refRetry"}, fr'[u].todo = fr[u].todo
      PROVE  LET n == Head(fr'[u].todo)
             IN  lookupCount'[n] = 0 /\ nodes'[ino'[n]] # n
  <2> DEFINE n == Head(fr[u].todo)
  <2>1. n \in alloc /\ lookupCount[n] = 0 /\ nodes[ino[n]] # n
    BY <1>1, HeadOK DEF DeadStaysDead
  <2> HIDE DEF n
  <2>2. lookupCount'[n] = 0 /\ nodes'[ino'[n]] # n
    BY <2>1, DeadForGood
  <2>3. QED
    BY <1>1, <2>2 DEF n
<1>2. CASE pc'[u] = pc[u] /\ fr'[u] = fr[u]
  BY <1>1, <1>2
<1>3. CASE u = t /\ UnlinkRetry(t)
  <2>1. Goto(t, "refRetry", {Head(fr[t].todo)}, fr[t]) /\ pc[t] = "refUnlink"
    BY <1>3 DEF UnlinkRetry, Serve, At
  <2>2. fr'[t] = fr[t]
    BY <2>1, GotoEffect, ShapeThreads
  <2>3. QED
    BY <1>1, <1>3, <2>1, <2>2
<1>4. CASE u = t /\ Reread(t)
  <2> DEFINE n == Head(fr[t].todo)
             g == [fr[t] EXCEPT !.pes = parents[n], !.rev = revision[n]]
  <2>1. Goto(t, "refUnlink", LockGroup(n), g) /\ pc[t] = "refRetry"
    BY <1>4 DEF Reread, Serve, At
  <2>2. g.todo = fr[t].todo
    BY Frames DEF Frame
  <2> HIDE DEF g
  <2>3. fr'[t] = g
    BY <2>1, GotoEffect, ShapeThreads
  <2>4. QED
    BY <1>1, <1>4, <2>1, <2>2, <2>3
<1>5. CASE u = t /\ DecDead(t)
  <2> DEFINE n == Head(fr[t].todo)
             g == [fr[t] EXCEPT !.nl = 0, !.pes = parents[n], !.rev = revision'[n]]
  <2>1. /\ lookupCount' = [lookupCount EXCEPT ![n] = @ - fr[t].nl]
        /\ ~IsLive(n, lookupCount', children)
        /\ nodes' = [nodes EXCEPT ![ino[n]] = Nil]
        /\ Goto(t, "refUnlink", LockGroup(n), g)
        /\ ino' = ino /\ pc[t] = "refDec"
    BY <1>5 DEF DecDead, At
  <2>2. n \in Obj
    BY <2>1, HeadOK
  <2>3. g.todo = fr[t].todo
    BY Frames DEF Frame
  <2> HIDE DEF g
  <2>4. fr'[t] = g
    BY <2>1, GotoEffect, ShapeThreads
  <2>5. Shape'
    BY StepShape DEF Next
  <2>6. lookupCount'[n] = 0
    <3>1. lookupCount'[n] \in Nat
      BY <2>2, <2>5 DEF Shape, TypeOK
    <3>2. QED
      BY <2>1, <3>1 DEF IsLive
  <2>7. nodes'[ino'[n]] # n
    BY <2>1, <2>2 DEF Shape, TypeOK, Nil
  <2>8. QED
    BY <1>5, <2>3, <2>4, <2>6, <2>7
<1>6. QED
  BY <1>2, <1>3, <1>4, <1>5, UnlinkMovers

(* Who enters the labels of an rmChild or mvChild that lets go of its      *)
(* directories.                                                            *)
LEMMA CommitMovers ==
  ASSUME Shape, NEW t \in Thread, Step(t) \/ Kernel(t), NEW u \in Thread,
         pc'[u] \in {"rmCommit", "mvCommit"}
  PROVE  \/ pc'[u] = pc[u] /\ fr'[u] = fr[u]
         \/ u = t /\ (RmRead(t) \/ MvRead(t))
<1>1. ThreadsOK
  BY ShapeThreads
<1>2. ASSUME NEW l, NEW group, NEW f, Goto(t, l, group, f),
             l \notin {"rmCommit", "mvCommit"}
      PROVE  pc'[u] = pc[u] /\ fr'[u] = fr[u]
  BY <1>1, <1>2, GotoEffect
<1>3. ASSUME NEW f, NEW todo, Deref(t, f, todo)
      PROVE  pc'[u] = pc[u] /\ fr'[u] = fr[u]
  BY <1>1, <1>3, DerefEffect
<1>4. CASE Acquire(t)
  BY <1>4 DEF Acquire
<1>5. CASE Kernel(t)
  <2>1. \E f : Goto(t, "resolve", {}, f) \/ Goto(t, "forget", {}, f)
    BY <1>5 DEF Kernel, SendEntry, SendRename, SendForget, Send
  <2>2. QED
    BY <1>2, <2>1
<1>6. CASE UnknownNode(t) \/ LookupUnderflow(t)
  BY <1>6 DEF UnknownNode, LookupUnderflow, Fail, threadVars
<1>7. CASE RmCommit(t) \/ MvCommit(t) \/ DecLive(t) \/ Unlink(t)
  <2>1. \E f, todo : Deref(t, f, todo)
    BY <1>7 DEF RmCommit, MvCommit, DecLive, Unlink
  <2>2. QED
    BY <1>3, <2>1
<1>8. CASE Handler(t) /\ ~UnknownNode(t)
  <2>1. \E l \in Label \ {"rmCommit", "mvCommit"} : \E group, f : Goto(t, l, group, f)
    <3>1. CASE EntryFound(t) \/ EntryGone(t)
      BY <3>1 DEF EntryFound, EntryGone, Serve, Label
    <3>2. CASE Refused(t) \/ RenameFrom(t) \/ RenameTo(t)
      BY <3>2 DEF Refused, RenameFrom, RenameTo, Serve, Label
    <3>3. CASE ForgetUnknown(t) \/ ForgetKnown(t)
      BY <3>3 DEF ForgetUnknown, ForgetKnown, Serve, Label
    <3>4. CASE Compact(t) \/ Reply(t)
      BY <3>4 DEF Compact, Reply, Done, Label
    <3>5. QED
      BY <1>8, <3>1, <3>2, <3>3, <3>4 DEF Handler
  <2>2. QED
    BY <1>2, <2>1
<1>9. CASE AddRetry(t) \/ AddCommit(t)
  <2>1. \E group, f : Goto(t, "addCheck", group, f) \/ Goto(t, "done", group, f)
    BY <1>9 DEF AddRetry, AddCommit, Serve, Done
  <2>2. QED
    BY <1>2, <2>1
<1>10. CASE RmRetry(t) \/ MvRetry(t)
  <2>1. \E group, f : Goto(t, "rmRead", group, f) \/ Goto(t, "mvRead", group, f)
    BY <1>10 DEF RmRetry, MvRetry, Serve
  <2>2. QED
    BY <1>2, <2>1
<1>11. CASE RmRead(t) \/ MvRead(t)
  <2>1. \E l, group, f : Goto(t, l, group, f)
    BY <1>11 DEF RmRead, MvRead, Serve
  <2>2. QED
    BY <1>1, <1>11, <2>1, GotoEffect
<1>12. CASE DecDead(t) \/ UnlinkRetry(t) \/ Reread(t)
  <2>1. \E group, f : Goto(t, "refUnlink", group, f) \/ Goto(t, "refRetry", group, f)
    BY <1>12 DEF DecDead, UnlinkRetry, Reread, Serve
  <2>2. QED
    BY <1>2, <2>1
<1>13. QED
  BY <1>4, <1>5, <1>6, <1>7, <1>8, <1>9, <1>10, <1>11, <1>12
     DEF Step, AddChild, RmChild, MvChild, RemoveRef

(* What an rmChild or mvChild holds in its frame when it commits.          *)
LEMMA CommitFrame ==
  ASSUME Shape, NEW t \in Thread, pc[t] \in {"rmCommit", "mvCommit"}
  PROVE  /\ fr[t] \in Frame
         /\ fr[t].parent \in Obj /\ fr[t].name \in Name
         /\ fr[t].child \in Obj \cup {Nil} /\ fr[t].dest \in Obj \cup {Nil}
         /\ pc[t] = "mvCommit" => fr[t].newParent \in Obj /\ fr[t].nname \in Name
  BY Frames DEF FrameOK, Frame

(* Nobody changes the entries of a directory without bumping its revision: *)
(* rmChild and addChild always do, mvChild and removeRef once per entry.   *)
LEMMA ChildrenTell ==
  ASSUME Shape, ReadOK, NEW t \in Thread, Step(t) \/ Kernel(t), NEW o \in Obj,
         revision'[o] = revision[o]
  PROVE  children'[o] = children[o]
<1>0. /\ revision \in [Obj -> Nat] /\ revision[o] \in Nat
      /\ children \in [Obj -> [Name -> Obj \cup {Nil}]]
  BY DEF Shape, TypeOK
<1>1. CASE AddCommit(t)
  <2>1. PICK c \in Obj :
          /\ revision' = [q \in Obj |->
               revision[q] + 2 * One(q = c) + One(q = fr[t].parent)]
          /\ children' = [children EXCEPT ![fr[t].parent][fr[t].name] = c]
    BY <1>1, AddCommitEffect
  <2>2. revision'[o] = revision[o] + 2 * One(o = c) + One(o = fr[t].parent)
    BY <2>1
  <2>3. o # fr[t].parent
    BY <1>0, <2>2 DEF One
  <2>4. QED
    BY <1>0, <2>1, <2>3
<1>2. CASE RmCommit(t)
  <2>1. /\ revision'[o] = revision[o] + One(o = fr[t].parent) + One(o = fr[t].child)
        /\ children' = [children EXCEPT ![fr[t].parent][fr[t].name] = Nil]
    BY <1>2 DEF RmCommit
  <2>2. o # fr[t].parent
    BY <1>0, <2>1 DEF One
  <2>3. QED
    BY <1>0, <2>1, <2>2
<1>3. CASE MvCommit(t)
  <2> DEFINE f == fr[t]
             moved == One(f.child # Nil)
             replaced == One(f.dest # Nil)
  <2>1. /\ revision'[o] = revision[o] + moved * One(o = f.parent)
               + (moved + replaced) * One(o = f.newParent)
               + 2 * One(o = f.child) + One(o = f.dest)
        /\ children' = [children EXCEPT ![f.parent][f.name] = Nil,
                                        ![f.newParent][f.nname] = f.child]
        /\ pc[t] = "mvCommit"
        /\ Unchanged(f.parent, f.rev) /\ Unchanged(f.newParent, f.nrev)
    BY <1>3 DEF MvCommit, At
  <2>2. /\ children[f.parent][f.name] = f.child
        /\ children[f.newParent][f.nname] = f.dest
    BY <2>1 DEF ReadOK
  <2>3. /\ f.parent \in Obj /\ f.name \in Name
        /\ f.newParent \in Obj /\ f.nname \in Name
    BY <2>1, CommitFrame
  <2> HIDE DEF f
  <2>4. /\ o = f.parent => f.child = Nil
        /\ o = f.newParent => f.child = Nil /\ f.dest = Nil
    BY <1>0, <2>1 DEF One
  <2>5. CASE o # f.parent /\ o # f.newParent
    BY <1>0, <2>1, <2>3, <2>5
  <2>6. CASE o = f.parent \/ o = f.newParent
    <3>1. /\ f.child = Nil
          /\ o = f.parent => children[o][f.name] = Nil
          /\ o = f.newParent => children[o][f.nname] = Nil
      BY <2>2, <2>4, <2>6
    <3>2. \A m \in Name : children'[o][m] = children[o][m]
      BY <1>0, <2>1, <2>3, <3>1
    <3>3. /\ children'[o] = [m \in Name |-> children'[o][m]]
          /\ children[o] = [m \in Name |-> children[o][m]]
      BY <1>0, <2>1, <2>3
    <3>4. QED
      BY <3>2, <3>3
  <2>7. QED
    BY <2>5, <2>6
<1>4. CASE Unlink(t)
  <2> DEFINE n == Head(fr[t].todo)
             mine == Linked(n, fr[t].pes)
             gone == {m \in Name : EntryOf(m, o) \in mine}
  <2>1. /\ revision'[o] = revision[o] + Cardinality(gone) + One(o = n)
        /\ children'[o] = [m \in Name |->
             IF EntryOf(m, o) \in mine THEN Nil ELSE children[o][m]]
    BY <1>4 DEF Unlink
  <2>2. Cardinality(gone) \in Nat /\ IsFiniteSet(gone)
    BY CountName, FS_Subset
  <2>3. Cardinality(gone) = 0
    BY <1>0, <2>1, <2>2 DEF One
  <2>4. \A m \in Name : EntryOf(m, o) \notin mine
    BY <2>2, <2>3, FS_EmptySet
  <2>5. children'[o] = [m \in Name |-> children[o][m]]
    BY <2>1, <2>4
  <2>6. QED
    BY <1>0, <2>5
<1>5. CASE UNCHANGED <<alloc, ino, parents, children>>
  BY <1>5
<1>6. QED
  BY <1>1, <1>2, <1>3, <1>4, <1>5, TreeWriters

(* What a stalled rmChild or mvChild knows of a directory stays true, or   *)
(* the revision moves past the one it remembers.                           *)
LEMMA KnowledgeKept ==
  ASSUME Shape, ReadOK, NEW t \in Thread, Step(t) \/ Kernel(t),
         NEW o \in Obj, NEW rev \in Nat, rev <= revision[o]
  PROVE  /\ rev <= revision'[o]
         /\ revision'[o] = rev => revision[o] = rev /\ children'[o] = children[o]
<1>1. revision[o] \in Nat /\ revision'[o] \in Nat /\ revision[o] <= revision'[o]
  BY RevisionTells
<1>2. revision'[o] = revision[o] => children'[o] = children[o]
  BY ChildrenTell
<1>3. QED
  BY <1>1, <1>2

(* So a commit acts on the entries that are there (inode.go:227-229,       *)
(* 268-270).                                                               *)
LEMMA ReadStep ==
  ASSUME Shape, ReadOK, NEW t \in Thread, Step(t) \/ Kernel(t)
  PROVE  ReadOK'
<1> SUFFICES ASSUME NEW u \in Thread, pc'[u] \in {"rmCommit", "mvCommit"}
             PROVE  LET f == fr'[u]
                    IN  /\ f.rev <= revision'[f.parent]
                        /\ revision'[f.parent] = f.rev =>
                             children'[f.parent][f.name] = f.child
                        /\ pc'[u] = "mvCommit" =>
                             /\ f.nrev <= revision'[f.newParent]
                             /\ revision'[f.newParent] = f.nrev =>
                                  children'[f.newParent][f.nname] = f.dest
  BY DEF ReadOK, Unchanged
<1>1. CASE pc'[u] = pc[u] /\ fr'[u] = fr[u]
  <2> DEFINE f == fr[u]
  <2>1. /\ f.parent \in Obj /\ f.rev \in Nat /\ f.nrev \in Nat
        /\ pc[u] = "mvCommit" => f.newParent \in Obj
    BY <1>1, CommitFrame DEF Frame
  <2>2. /\ f.rev <= revision[f.parent]
        /\ Unchanged(f.parent, f.rev) => children[f.parent][f.name] = f.child
        /\ pc[u] = "mvCommit" =>
             /\ f.nrev <= revision[f.newParent]
             /\ Unchanged(f.newParent, f.nrev) => children[f.newParent][f.nname] = f.dest
    <3>1. pc[u] \in {"rmCommit", "mvCommit"}
      BY <1>1
    <3>2. QED
      BY <3>1 DEF ReadOK
  <2> HIDE DEF f
  <2>3. /\ f.rev <= revision'[f.parent]
        /\ revision'[f.parent] = f.rev => children'[f.parent][f.name] = f.child
    BY <2>1, <2>2, KnowledgeKept DEF Unchanged
  <2>4. pc[u] = "mvCommit" =>
          /\ f.nrev <= revision'[f.newParent]
          /\ revision'[f.newParent] = f.nrev => children'[f.newParent][f.nname] = f.dest
    <3> SUFFICES ASSUME pc[u] = "mvCommit"
                 PROVE  /\ f.nrev <= revision'[f.newParent]
                        /\ revision'[f.newParent] = f.nrev =>
                             children'[f.newParent][f.nname] = f.dest
      OBVIOUS
    <3>1. /\ f.newParent \in Obj /\ f.nrev \in Nat /\ f.nrev <= revision[f.newParent]
          /\ revision[f.newParent] = f.nrev => children[f.newParent][f.nname] = f.dest
      BY <2>1, <2>2 DEF Unchanged
    <3>2. /\ f.nrev <= revision'[f.newParent]
          /\ revision'[f.newParent] = f.nrev =>
               revision[f.newParent] = f.nrev
                 /\ children'[f.newParent] = children[f.newParent]
      BY <3>1, KnowledgeKept
    <3>3. QED
      BY <3>1, <3>2
  <2>5. QED
    BY <1>1, <2>3, <2>4 DEF f
<1>2. CASE u = t /\ RmRead(t)
  <2> DEFINE f == fr[t]
             c == children[f.parent][f.name]
             g == [f EXCEPT !.child = c, !.rev = revision[f.parent]]
  <2>1. /\ c = Nil => Goto(t, "done", {}, Bare(f))
        /\ c # Nil => Goto(t, "rmCommit", {f.parent, c}, g)
        /\ revision' = revision /\ children' = children /\ pc[t] = "rmRead"
    BY <1>2 DEF RmRead, Serve, At, inodeVars
  <2>2. /\ g.child = c /\ g.rev = revision[f.parent]
        /\ g.parent = f.parent /\ g.name = f.name
        /\ f.parent \in Obj
    BY <2>1, Frames DEF Frame, FrameOK
  <2>3. revision[f.parent] \in Nat
    BY <2>2 DEF Shape, TypeOK
  <2> HIDE DEF g
  <2>4. pc'[t] = "rmCommit" /\ fr'[t] = g
    BY <1>2, <2>1, GotoEffect, ShapeThreads
  <2>5. QED
    BY <1>2, <2>1, <2>2, <2>3, <2>4
<1>3. CASE u = t /\ MvRead(t)
  <2> DEFINE f == fr[t]
             c == children[f.parent][f.name]
             d == children[f.newParent][f.nname]
             g == [f EXCEPT !.child = c, !.dest = d, !.rev = revision[f.parent],
                            !.nrev = revision[f.newParent]]
  <2>1. /\ Goto(t, "mvCommit", {f.parent, f.newParent, c, d}, g)
        /\ revision' = revision /\ children' = children /\ pc[t] = "mvRead"
    BY <1>3 DEF MvRead, Serve, At, inodeVars
  <2>2. /\ g.child = c /\ g.dest = d
        /\ g.rev = revision[f.parent] /\ g.nrev = revision[f.newParent]
        /\ g.parent = f.parent /\ g.name = f.name
        /\ g.newParent = f.newParent /\ g.nname = f.nname
        /\ f.parent \in Obj /\ f.newParent \in Obj
    BY <2>1, Frames DEF Frame, FrameOK
  <2>3. revision[f.parent] \in Nat /\ revision[f.newParent] \in Nat
    BY <2>2 DEF Shape, TypeOK
  <2> HIDE DEF g
  <2>4. fr'[t] = g
    BY <2>1, GotoEffect, ShapeThreads
  <2>5. QED
    BY <1>3, <2>1, <2>2, <2>3, <2>4
<1>4. QED
  BY <1>1, <1>2, <1>3, CommitMovers

(* Both sides of every entry are written together, and what a removeRef    *)
(* unlinks are all the places its inode hangs in.                          *)
LEMMA LinkStep ==
  ASSUME Shape, RereadOK, LinkConsistent, NEW t \in Thread, Step(t) \/ Kernel(t)
  PROVE  LinkConsistent'
<1> SUFFICES ASSUME NEW o \in Obj, NEW m \in Name, children'[o][m] # Nil
             PROVE  EntryOf(m, o) \in parents'[children'[o][m]]
  BY DEF LinkConsistent
<1>0. /\ parents \in [Obj -> SUBSET ParentEntry]
      /\ children \in [Obj -> [Name -> Obj \cup {Nil}]]
      /\ alloc \subseteq Obj
  BY DEF Shape, TypeOK
<1> DEFINE k == children[o][m]
<1>1. k \in Obj \cup {Nil} /\ (k # Nil => EntryOf(m, o) \in parents[k])
  BY <1>0 DEF LinkConsistent
<1>2. CASE AddCommit(t)
  <2>1. PICK c \in Obj :
          /\ children' = [children EXCEPT ![fr[t].parent][fr[t].name] = c]
          /\ parents' = [parents EXCEPT ![c] = @ \cup {EntryOf(fr[t].name, fr[t].parent)}]
    BY <1>2, AddCommitEffect
  <2>2. fr[t].parent \in Obj /\ fr[t].name \in Name
    BY <1>0, <1>2, AddCommitEffect
  <2>3. CASE o = fr[t].parent /\ m = fr[t].name
    <3>1. children'[o][m] = c
      BY <1>0, <2>1, <2>2, <2>3
    <3>2. QED
      BY <1>0, <2>1, <2>3, <3>1
  <2>4. CASE ~(o = fr[t].parent /\ m = fr[t].name)
    <3>1. children'[o][m] = k
      BY <1>0, <2>1, <2>2, <2>4
    <3>2. QED
      BY <1>0, <1>1, <2>1, <3>1
  <2>5. QED
    BY <2>3, <2>4
<1>3. CASE RmCommit(t)
  <2> DEFINE f == fr[t]
  <2>1. /\ children' = [children EXCEPT ![f.parent][f.name] = Nil]
        /\ parents' = [parents EXCEPT ![f.child] = @ \ {EntryOf(f.name, f.parent)}]
    BY <1>3 DEF RmCommit
  <2>2. f.parent \in Obj /\ f.name \in Name
    BY <1>0, <1>3, Frames DEF RmCommit, At, FrameOK
  <2> HIDE DEF f
  <2>3. ~(o = f.parent /\ m = f.name)
    BY <1>0, <2>1, <2>2
  <2>4. children'[o][m] = k
    BY <1>0, <2>1, <2>2, <2>3
  <2>5. EntryOf(m, o) # EntryOf(f.name, f.parent)
    BY <2>3 DEF EntryOf
  <2>6. QED
    BY <1>0, <1>1, <2>1, <2>4, <2>5
<1>4. CASE MvCommit(t)
  <2> DEFINE f == fr[t]
             from == EntryOf(f.name, f.parent)
             to == EntryOf(f.nname, f.newParent)
  <2>1. /\ children' = [children EXCEPT ![f.parent][f.name] = Nil,
                                        ![f.newParent][f.nname] = f.child]
        /\ parents' = [q \in Obj |->
             LET kept == IF q = f.child THEN parents[q] \ {from} ELSE parents[q]
                 rest == IF q = f.dest THEN kept \ {to} ELSE kept
             IN  IF q = f.child THEN rest \cup {to} ELSE rest]
    BY <1>4 DEF MvCommit
  <2>2. /\ f.parent \in Obj /\ f.name \in Name /\ f.newParent \in Obj /\ f.nname \in Name
        /\ f.child \in Obj \cup {Nil}
    BY <1>0, <1>4, Frames DEF MvCommit, At, FrameOK
  <2>3. CASE o = f.newParent /\ m = f.nname
    <3>1. children'[o][m] = f.child
      BY <1>0, <2>1, <2>2, <2>3
    <3>2. QED
      BY <2>1, <2>2, <2>3, <3>1
  <2>4. CASE ~(o = f.newParent /\ m = f.nname)
    <3>1. ~(o = f.parent /\ m = f.name) /\ children'[o][m] = k
      BY <1>0, <2>1, <2>2, <2>4
    <3>2. EntryOf(m, o) # from /\ EntryOf(m, o) # to
      BY <2>4, <3>1 DEF EntryOf
    <3> HIDE DEF f, from, to
    <3>3. QED
      BY <1>0, <1>1, <2>1, <3>1, <3>2
  <2>5. QED
    BY <2>3, <2>4
<1>5. CASE Unlink(t)
  <2> DEFINE f == fr[t]
             n == Head(f.todo)
             mine == Linked(n, f.pes)
  <2>1. /\ children' = [q \in Obj |-> [x \in Name |->
             IF EntryOf(x, q) \in mine THEN Nil ELSE children[q][x]]]
        /\ parents' = [parents EXCEPT ![n] = {}]
        /\ pc[t] = "refUnlink" /\ Unchanged(n, f.rev)
    BY <1>5 DEF Unlink, At
  <2>2. f.pes = parents[n]
    BY <2>1 DEF RereadOK
  <2>3. EntryOf(m, o) \notin mine /\ children'[o][m] = k
    BY <2>1
  <2> HIDE DEF f, n
  <2>4. k # n
    BY <1>1, <2>2, <2>3 DEF Linked, EntryOf
  <2>5. QED
    BY <1>0, <1>1, <2>1, <2>3, <2>4
<1>6. CASE UNCHANGED <<alloc, ino, parents, children>>
  BY <1>1, <1>6
<1>7. QED
  BY <1>2, <1>3, <1>4, <1>5, <1>6, TreeWriters

(* A goroutine's local variables are its own.                              *)
LEMMA OthersKeep ==
  ASSUME Shape, NEW t \in Thread, Step(t) \/ Kernel(t), NEW u \in Thread \ {t}
  PROVE  fr'[u] = fr[u]
<1>1. ThreadsOK
  BY ShapeThreads
<1>2. ASSUME NEW l, NEW group, NEW f, Goto(t, l, group, f) PROVE fr'[u] = fr[u]
  BY <1>1, <1>2, GotoEffect
<1>3. ASSUME NEW f, NEW todo, Deref(t, f, todo) PROVE fr'[u] = fr[u]
  BY <1>1, <1>3, DerefEffect
<1>4. CASE Acquire(t)
  BY <1>4 DEF Acquire
<1>5. CASE Kernel(t)
  <2>1. \E l, f : Goto(t, l, {}, f)
    BY <1>5 DEF Kernel, SendEntry, SendRename, SendForget, Send
  <2>2. QED
    BY <1>2, <2>1
<1>6. CASE UnknownNode(t) \/ LookupUnderflow(t)
  BY <1>6 DEF UnknownNode, LookupUnderflow, Fail, threadVars
<1>7. CASE RmCommit(t) \/ MvCommit(t) \/ DecLive(t) \/ Unlink(t)
  <2>1. \E f, todo : Deref(t, f, todo)
    BY <1>7 DEF RmCommit, MvCommit, DecLive, Unlink
  <2>2. QED
    BY <1>3, <2>1
<1>8. CASE Handler(t) /\ ~UnknownNode(t)
  <2>1. \E l, group, f : Goto(t, l, group, f)
    <3>1. CASE EntryFound(t) \/ EntryGone(t)
      BY <3>1 DEF EntryFound, EntryGone, Serve
    <3>2. CASE Refused(t) \/ RenameFrom(t) \/ RenameTo(t)
      BY <3>2 DEF Refused, RenameFrom, RenameTo, Serve
    <3>3. CASE ForgetUnknown(t) \/ ForgetKnown(t) \/ Compact(t) \/ Reply(t)
      BY <3>3 DEF ForgetUnknown, ForgetKnown, Compact, Reply, Done, Serve
    <3>4. QED
      BY <1>8, <3>1, <3>2, <3>3 DEF Handler
  <2>2. QED
    BY <1>2, <2>1
<1>9. CASE AddRetry(t) \/ AddCommit(t) \/ RmRead(t) \/ RmRetry(t) \/ MvRead(t) \/ MvRetry(t)
  <2>1. CASE AddRetry(t) \/ AddCommit(t)
    <3>1. \E l, group, f : Goto(t, l, group, f)
      BY <2>1 DEF AddRetry, AddCommit, Serve, Done
    <3>2. QED
      BY <1>2, <3>1
  <2>2. CASE RmRead(t) \/ RmRetry(t)
    <3>1. \E l, group, f : Goto(t, l, group, f)
      BY <2>2 DEF RmRead, RmRetry, Serve
    <3>2. QED
      BY <1>2, <3>1
  <2>3. CASE MvRead(t) \/ MvRetry(t)
    <3>1. \E l, group, f : Goto(t, l, group, f)
      BY <2>3 DEF MvRead, MvRetry, Serve
    <3>2. QED
      BY <1>2, <3>1
  <2>4. QED
    BY <1>9, <2>1, <2>2, <2>3
<1>10. CASE DecDead(t) \/ UnlinkRetry(t) \/ Reread(t)
  <2>1. \E l, group, f : Goto(t, l, group, f)
    BY <1>10 DEF DecDead, UnlinkRetry, Reread, Serve
  <2>2. QED
    BY <1>2, <2>1
<1>11. QED
  BY <1>4, <1>5, <1>6, <1>7, <1>8, <1>9, <1>10
     DEF Step, AddChild, RmChild, MvChild, RemoveRef

(* A list of inodes a goroutine still has to visit survives its step, but  *)
(* for the head it has dealt with.                                         *)
LEMMA AwaitedKept ==
  ASSUME Shape, NEW t \in Thread, Step(t) \/ Kernel(t), NEW o, Awaited(o),
         \A k \in 1..Len(fr[t].todo) : fr[t].todo[k] = o => Awaited(o)'
  PROVE  Awaited(o)'
<1>1. PICK u \in Thread : \E k \in 1..Len(fr[u].todo) : fr[u].todo[k] = o
  BY DEF Awaited
<1>2. CASE u = t
  BY <1>1, <1>2
<1>3. CASE u # t
  <2>1. fr'[u] = fr[u]
    BY <1>3, OthersKeep
  <2>2. QED
    BY <1>1, <2>1 DEF Awaited
<1>4. QED
  BY <1>2, <1>3

(* Outside removeRef the list is empty.                                    *)
LEMMA NoTodo ==
  ASSUME Shape, NEW t \in Thread, pc[t] \notin {"refDec", "refUnlink", "refRetry"}
  PROVE  ~ \E k \in 1..Len(fr[t].todo) : TRUE
<1>1. fr[t].todo = <<>>
  BY Frames DEF FrameOK
<1>2. QED
  BY <1>1

(* Requests and handlers leave the tree to the four operations.            *)
LEMMA HandlerKeeps ==
  ASSUME Shape, NEW t \in Thread, Kernel(t) \/ Handler(t)
  PROVE  /\ UNCHANGED <<nodes, lookupCount, children>>
         /\ pc[t] \notin {"refDec", "refUnlink", "refRetry"}
<1>1. CASE Kernel(t)
  BY <1>1 DEF Kernel, SendEntry, SendRename, SendForget, Send, At, inodeVars, tableVars
<1>2. CASE UnknownNode(t)
  BY <1>2 DEF UnknownNode, Fail, At, inodeVars, tableVars
<1>3. CASE EntryFound(t) \/ EntryGone(t) \/ Refused(t)
  BY <1>3 DEF EntryFound, EntryGone, Refused, Serve, At, inodeVars, tableVars
<1>4. CASE RenameFrom(t) \/ RenameTo(t) \/ ForgetUnknown(t) \/ ForgetKnown(t)
  BY <1>4 DEF RenameFrom, RenameTo, ForgetUnknown, ForgetKnown, Serve, At,
              inodeVars, tableVars
<1>5. CASE Compact(t) \/ Reply(t)
  BY <1>5 DEF Compact, Reply, At, inodeVars, tableVars
<1>6. QED
  BY <1>1, <1>2, <1>3, <1>4, <1>5 DEF Handler

(* No step of any goroutine leaves an inode of the table without a lookup, *)
(* a child, or a removeRef on its way to it.                               *)
LEMMA NoLeakStep ==
  ASSUME Shape, DeadStaysDead, NoLeak, NEW t \in Thread, Step(t) \/ Kernel(t)
  PROVE  NoLeak'
<1> SUFFICES ASSUME NEW i \in Ino, NEW o, o = nodes'[i], o # Nil
             PROVE  IsLive(o, lookupCount', children') \/ Awaited(o)'
  BY DEF NoLeak
<1>0. /\ alloc \subseteq Obj /\ nodes \in [Ino -> Obj \cup {Nil}]
      /\ ino \in [Obj -> Ino] /\ lookupCount \in [Obj -> Nat]
      /\ children \in [Obj -> [Name -> Obj \cup {Nil}]]
  BY DEF Shape, TypeOK
<1>1. nodes[i] = o => o \in Obj /\ o \in alloc /\ ino[o] = i
                      /\ (IsLive(o, lookupCount, children) \/ Awaited(o))
  BY <1>0 DEF NoLeak, Shape, TableOK
<1>2. CASE AddCommit(t)
  <2>1. PICK c \in Obj :
          /\ lookupCount' = [lookupCount EXCEPT ![c] = @ + 1]
          /\ nodes' = [nodes EXCEPT ![fr[t].cino] = c]
          /\ children' = [children EXCEPT ![fr[t].parent][fr[t].name] = c]
    BY <1>2, AddCommitEffect
  <2>2. /\ fr[t].parent \in Obj /\ fr[t].name \in Name /\ fr[t].cino \in Ino
        /\ pc[t] = "addCheck"
    BY <1>0, <1>2, AddCommitEffect DEF AddCommit, At
  <2>3. CASE o = c
    <3>1. lookupCount[c] \in Nat /\ lookupCount'[c] = lookupCount[c] + 1
      BY <1>0, <2>1
    <3>2. lookupCount'[c] > 0
      BY <3>1
    <3>3. QED
      BY <2>3, <3>2 DEF IsLive
  <2>4. CASE o # c
    <3>1. nodes[i] = o
      BY <1>0, <2>1, <2>2, <2>4
    <3>2. IsLive(o, lookupCount, children) => IsLive(o, lookupCount', children')
      <4>1. lookupCount'[o] = lookupCount[o]
        BY <1>0, <1>1, <2>1, <2>4, <3>1
      <4>2. \A m \in Name : children[o][m] # Nil => children'[o][m] # Nil
        BY <1>0, <1>1, <2>1, <2>2, <3>1, AddressAssumption DEF Nil
      <4>3. QED
        BY <4>1, <4>2 DEF IsLive
    <3>3. Awaited(o) => Awaited(o)'
      BY <2>2, NoTodo, AwaitedKept
    <3>4. QED
      BY <1>1, <3>1, <3>2, <3>3
  <2>5. QED
    BY <2>3, <2>4
<1>3. CASE RmCommit(t)
  <2> DEFINE f == fr[t]
             kids == [children EXCEPT ![f.parent][f.name] = Nil]
             todo == IF IsLive(f.parent, lookupCount, kids) THEN <<>> ELSE <<f.parent>>
  <2>1. /\ children' = kids /\ Deref(t, f, todo)
        /\ lookupCount' = lookupCount /\ nodes' = nodes /\ pc[t] = "rmCommit"
    BY <1>3 DEF RmCommit, At, tableVars
  <2>2. f.parent \in Obj
    BY <1>0, <2>1, Frames DEF FrameOK
  <2>3. Awaited(o) => Awaited(o)'
    BY <2>1, NoTodo, AwaitedKept
  <2>4. CASE o = f.parent /\ ~IsLive(f.parent, lookupCount, kids)
    <3>1. todo = <<o>>
      BY <2>4
    <3>2. fr'[t].todo = todo
      BY <2>1, DerefEffect, ShapeThreads
    <3> DEFINE td == fr'[t].todo
    <3> HIDE DEF todo
    <3>a. td = <<o>>
      BY <3>1, <3>2
    <3> HIDE DEF td
    <3>b. td[1] = o /\ 1 \in 1..Len(td)
      BY <3>a
    <3>3. fr'[t].todo[1] = o /\ 1 \in 1..Len(fr'[t].todo)
      BY <3>b DEF td
    <3>4. QED
      BY <3>3 DEF Awaited
  <2>5. CASE ~(o = f.parent /\ ~IsLive(f.parent, lookupCount, kids))
    <3>1. IsLive(o, lookupCount, children) => IsLive(o, lookupCount', children')
      <4>1. CASE o = f.parent
        BY <2>1, <2>5, <4>1
      <4>2. CASE o # f.parent
        <5>1. children'[o] = children[o]
          BY <1>0, <1>1, <2>1, <4>2
        <5>2. QED
          BY <2>1, <5>1 DEF IsLive
      <4>3. QED
        BY <4>1, <4>2
    <3>2. QED
      BY <1>1, <2>1, <2>3, <3>1
  <2>6. QED
    BY <2>4, <2>5
<1>4. CASE MvCommit(t)
  <2> DEFINE f == fr[t]
             kids == [children EXCEPT ![f.parent][f.name] = Nil,
                                      ![f.newParent][f.nname] = f.child]
             dead(q) == IF IsLive(q, lookupCount, kids) THEN <<>> ELSE <<q>>
             todo == dead(f.parent) \o dead(f.newParent)
  <2>1. /\ children' = kids /\ Deref(t, f, todo)
        /\ lookupCount' = lookupCount /\ nodes' = nodes /\ pc[t] = "mvCommit"
    BY <1>4 DEF MvCommit, At, tableVars
  <2>2. f.parent \in Obj /\ f.newParent \in Obj
    BY <1>0, <2>1, Frames DEF FrameOK
  <2>3. Awaited(o) => Awaited(o)'
    BY <2>1, NoTodo, AwaitedKept
  <2>4. CASE o \in {f.parent, f.newParent} /\ ~IsLive(o, lookupCount, kids)
    <3>1. \A q : dead(q) \in {<<>>, <<q>>}
      OBVIOUS
    <3>2. dead(o) = <<o>>
      BY <2>4
    <3>3. \E k \in 1..Len(todo) : todo[k] = o
      <4> DEFINE a == dead(f.parent)
                 b == dead(f.newParent)
      <4>a. /\ f.parent \in Obj => <<f.parent>> \in Seq(Obj)
            /\ f.newParent \in Obj => <<f.newParent>> \in Seq(Obj)
            /\ <<>> \in Seq(Obj)
        OBVIOUS
      <4>b. a \in Seq(Obj) /\ b \in Seq(Obj)
        <5> HIDE DEF f
        <5>1. a \in {<<>>, <<f.parent>>} /\ b \in {<<>>, <<f.newParent>>}
          BY <3>1
        <5>2. QED
          BY <2>2, <4>a, <5>1
      <4>c. a = <<o>> \/ b = <<o>>
        <5> HIDE DEF dead, f
        <5>1. QED
          BY <2>4, <3>2
      <4>1. a \in Seq(Obj) /\ b \in Seq(Obj) /\ (a = <<o>> \/ b = <<o>>)
        BY <4>b, <4>c
      <4>2. \E k \in 1..Len(a \o b) : (a \o b)[k] = o
        <5> HIDE DEF a, b
        <5>1. CASE a = <<o>>
          <6>1. 1 \in 1..Len(a \o b) /\ (a \o b)[1] = o
            BY <4>1, <5>1
          <6>2. QED
            BY <6>1
        <5>2. CASE b = <<o>>
          <6>1. /\ Len(a) + 1 \in 1..Len(a \o b)
                /\ (a \o b)[Len(a) + 1] = o
            BY <4>1, <5>2
          <6>2. QED
            BY <6>1
        <5>3. QED
          BY <4>1, <5>1, <5>2
      <4>3. QED
        BY <4>2
    <3> HIDE DEF todo
    <3>4. fr'[t].todo = todo
      BY <2>1, DerefEffect, ShapeThreads
    <3>5. QED
      BY <3>3, <3>4 DEF Awaited
  <2>5. CASE ~(o \in {f.parent, f.newParent} /\ ~IsLive(o, lookupCount, kids))
    <3>1. IsLive(o, lookupCount, children) => IsLive(o, lookupCount', children')
      <4>1. CASE o \in {f.parent, f.newParent}
        BY <2>1, <2>5, <4>1
      <4>2. CASE o \notin {f.parent, f.newParent}
        <5>1. children'[o] = children[o]
          BY <1>0, <1>1, <2>1, <4>2
        <5>2. QED
          BY <2>1, <5>1 DEF IsLive
      <4>3. QED
        BY <4>1, <4>2
    <3>2. QED
      BY <1>1, <2>1, <2>3, <3>1
  <2>6. QED
    BY <2>4, <2>5
<1>5. CASE DecLive(t) \/ DecDead(t)
  <2> DEFINE f == fr[t]
             n == Head(f.todo)
  <2>1. /\ lookupCount' = [lookupCount EXCEPT ![n] = @ - f.nl]
        /\ children' = children /\ ino' = ino /\ pc[t] = "refDec"
    BY <1>5 DEF DecLive, DecDead, At
  <2>2. f.todo \in Seq(Obj) /\ f.todo # <<>> /\ n \in Obj
    BY <2>1, HeadOK
  <2>3. nodes[i] = o
    BY <1>0, <1>5 DEF DecLive, DecDead, tableVars
  <2>4. CASE o = n
    <3>1. CASE DecLive(t)
      BY <2>1, <2>4, <3>1 DEF DecLive
    <3>2. CASE DecDead(t)
      <4>1. nodes' = [nodes EXCEPT ![ino[n]] = Nil]
        BY <3>2 DEF DecDead
      <4>2. QED
        BY <1>0, <1>1, <2>3, <2>4, <4>1
    <3>3. QED
      BY <1>5, <3>1, <3>2
  <2>5. CASE o # n
    <3>1. IsLive(o, lookupCount, children) => IsLive(o, lookupCount', children')
      <4>1. lookupCount'[o] = lookupCount[o]
        BY <1>0, <1>1, <2>1, <2>3, <2>5
      <4>2. QED
        BY <2>1, <4>1 DEF IsLive
    <3>2. ASSUME NEW k \in 1..Len(f.todo), f.todo[k] = o PROVE Awaited(o)'
      <4>1. CASE DecLive(t)
        <5>1. fr'[t].todo = Tail(f.todo)
          <6>1. Deref(t, f, Tail(f.todo))
            BY <4>1 DEF DecLive
          <6>2. QED
            BY <6>1, DerefEffect, ShapeThreads
        <5>2. k - 1 \in 1..Len(Tail(f.todo)) /\ Tail(f.todo)[k - 1] = o
          <6> DEFINE td == f.todo
          <6>1. td \in Seq(Obj) /\ td # <<>> /\ k \in 1..Len(td) /\ td[k] = o /\ o # Head(td)
            BY <2>2, <2>5, <3>2
          <6> HIDE DEF td
          <6>2. k - 1 \in 1..Len(Tail(td)) /\ Tail(td)[k - 1] = o
            BY <6>1
          <6>3. QED
            BY <6>2 DEF td
        <5>3. QED
          BY <5>1, <5>2 DEF Awaited
      <4>2. CASE DecDead(t)
        <5> DEFINE g == [f EXCEPT !.nl = 0, !.pes = parents[n], !.rev = revision'[n]]
        <5>1. Goto(t, "refUnlink", LockGroup(n), g)
          BY <4>2 DEF DecDead
        <5>2. g.todo = f.todo
          BY Frames DEF Frame
        <5> HIDE DEF g
        <5>3. fr'[t].todo = f.todo
          BY <5>1, <5>2, GotoEffect, ShapeThreads
        <5>4. QED
          BY <3>2, <5>3 DEF Awaited
      <4>3. QED
        BY <1>5, <4>1, <4>2
    <3>3. Awaited(o) => Awaited(o)'
      BY <3>2, AwaitedKept
    <3>4. QED
      BY <1>1, <2>3, <3>1, <3>3
  <2>6. QED
    BY <2>4, <2>5
<1>6. CASE Unlink(t)
  <2> DEFINE f == fr[t]
             n == Head(f.todo)
             mine == Linked(n, f.pes)
             g == [f EXCEPT !.removed = TRUE]
  <2>1. /\ children' = [q \in Obj |-> [m \in Name |->
             IF EntryOf(m, q) \in mine THEN Nil ELSE children[q][m]]]
        /\ lookupCount' = lookupCount /\ nodes' = nodes /\ pc[t] = "refUnlink"
    BY <1>6 DEF Unlink, At, tableVars
  <2>2. PICK s \in Orders(f.pes) :
          Deref(t, g, [k \in 1..Len(s) |-> s[k].node] \o Tail(f.todo))
    BY <1>6 DEF Unlink
  <2> DEFINE up == [k \in 1..Len(s) |-> s[k].node]
             rest == Tail(f.todo)
  <2>3. f.todo \in Seq(Obj) /\ f.todo # <<>> /\ rest \in Seq(Obj)
    BY <2>1, HeadOK
  <2>4. f.pes \subseteq ParentEntry
    BY Frames DEF Frame
  <2>5. s \in Seq(f.pes) /\ (\A e \in f.pes : \E k \in 1..Len(s) : s[k] = e)
    BY <2>4, OrdersOK
  <2>6. up \in Seq(Obj) /\ Len(up) = Len(s)
    BY <2>4, <2>5 DEF ParentEntry
  <2>7. fr'[t].todo = up \o rest
    BY <2>2, DerefEffect, ShapeThreads
  <2>8. o # n
    BY <1>1, <2>1 DEF DeadStaysDead
  <2>9. ASSUME NEW k \in 1..Len(f.todo), f.todo[k] = o PROVE Awaited(o)'
    <3> DEFINE td == f.todo
    <3>1. td \in Seq(Obj) /\ td # <<>> /\ k \in 1..Len(td) /\ td[k] = o /\ o # Head(td)
      BY <2>3, <2>8, <2>9
    <3> HIDE DEF td, up
    <3>2. /\ Len(up) + k - 1 \in 1..Len(up \o Tail(td))
          /\ (up \o Tail(td))[Len(up) + k - 1] = o
      BY <2>6, <3>1, SMTT(30)
    <3>3. QED
      BY <2>7, <3>2 DEF td, Awaited
  <2>10. ASSUME NEW m \in Name, EntryOf(m, o) \in mine PROVE Awaited(o)'
    <3>1. EntryOf(m, o) \in f.pes /\ EntryOf(m, o).node = o
      BY <2>10 DEF Linked, EntryOf
    <3>2. PICK k \in 1..Len(s) : s[k] = EntryOf(m, o)
      BY <2>5, <3>1
    <3>3. k \in 1..Len(up) /\ up[k] = o
      BY <2>6, <3>1, <3>2
    <3> HIDE DEF up, rest
    <3>4. k \in 1..Len(up \o rest) /\ (up \o rest)[k] = o
      BY <2>3, <2>6, <3>3
    <3>5. QED
      BY <2>7, <3>4 DEF Awaited
  <2>11. CASE \E m \in Name : EntryOf(m, o) \in mine
    BY <2>10, <2>11
  <2>12. CASE ~ \E m \in Name : EntryOf(m, o) \in mine
    <3>1. IsLive(o, lookupCount, children) => IsLive(o, lookupCount', children')
      BY <1>1, <2>1, <2>12 DEF IsLive
    <3>2. Awaited(o) => Awaited(o)'
      BY <2>9, AwaitedKept
    <3>3. QED
      BY <1>1, <2>1, <3>1, <3>2
  <2>13. QED
    BY <2>11, <2>12
<1>7. CASE UNCHANGED <<nodes, lookupCount, children>> /\ fr'[t].todo = fr[t].todo
  BY <1>1, <1>7, AwaitedKept, SMTT(30) DEF Awaited
<1>8. CASE UNCHANGED <<nodes, lookupCount, children>>
           /\ pc[t] \notin {"refDec", "refUnlink", "refRetry"}
  BY <1>1, <1>8, NoTodo, AwaitedKept
<1>9. CASE Kernel(t) \/ Handler(t)
  <2>1. UNCHANGED <<nodes, lookupCount, children>>
    BY <1>9, HandlerKeeps
  <2>2. CASE pc[t] \notin {"refDec", "refUnlink", "refRetry"}
    BY <1>8, <2>1, <2>2
  <2>3. CASE pc[t] \in {"refDec", "refUnlink", "refRetry"}
    BY <1>9, <2>3, HandlerKeeps
  <2>4. QED
    BY <2>2, <2>3
<1>10. CASE Acquire(t) \/ LookupUnderflow(t)
  BY <1>7, <1>10 DEF Acquire, LookupUnderflow, Fail, inodeVars, tableVars, threadVars
<1>11. CASE UnlinkRetry(t) \/ Reread(t)
  <2> DEFINE n == Head(fr[t].todo)
             g == [fr[t] EXCEPT !.pes = parents[n], !.rev = revision[n]]
  <2>1. UNCHANGED <<nodes, lookupCount, children>>
    BY <1>11 DEF UnlinkRetry, Reread, Serve, inodeVars, tableVars
  <2>2. g.todo = fr[t].todo
    BY Frames DEF Frame
  <2>3. Goto(t, "refRetry", {n}, fr[t]) \/ Goto(t, "refUnlink", LockGroup(n), g)
    BY <1>11 DEF UnlinkRetry, Reread, Serve
  <2> HIDE DEF g
  <2>4. fr'[t].todo = fr[t].todo
    BY <2>2, <2>3, GotoEffect, ShapeThreads
  <2>5. QED
    BY <1>7, <2>1, <2>4
<1>12. CASE AddRetry(t) \/ RmRead(t) \/ RmRetry(t) \/ MvRead(t) \/ MvRetry(t)
  <2>1. pc[t] \notin {"refDec", "refUnlink", "refRetry"}
    BY <1>12 DEF AddRetry, RmRead, RmRetry, MvRead, MvRetry, At
  <2>2. UNCHANGED <<nodes, lookupCount, children>>
    BY <1>12 DEF AddRetry, RmRead, RmRetry, MvRead, MvRetry, Serve, inodeVars, tableVars
  <2>3. QED
    BY <1>8, <2>1, <2>2
<1>13. QED
  BY <1>2, <1>3, <1>4, <1>5, <1>6, <1>9, <1>10, <1>11, <1>12
     DEF Step, AddChild, RmChild, MvChild, RemoveRef

(* The parts of TreeInv that go beyond the shape.                          *)
Tree == Shape /\ RereadOK /\ ReadOK /\ LinkConsistent /\ DeadStaysDead /\ NoLeak

(* A new bridge satisfies the inductive invariant.                         *)
LEMMA InitTree == Init => Tree
<1> SUFFICES ASSUME Init PROVE Tree
  OBVIOUS
<1>1. Shape
  BY InitShape
<1>2. RereadOK /\ ReadOK /\ DeadStaysDead
  BY DEF Init, RereadOK, ReadOK, DeadStaysDead
<1>3. LinkConsistent
  BY DEF Init, LinkConsistent
<1>4. NoLeak
  <2>1. ASSUME NEW i \in Ino, nodes[i] # Nil PROVE IsLive(nodes[i], lookupCount, children)
    <3>1. nodes[i] = RootObj /\ lookupCount[RootObj] = 1
      BY <2>1 DEF Init, One
    <3>2. QED
      BY <3>1 DEF IsLive
  <2>2. QED
    BY <2>1 DEF NoLeak
<1>5. QED
  BY <1>1, <1>2, <1>3, <1>4 DEF Tree

(* Every step preserves the inductive invariant.                           *)
LEMMA TreeStep == Tree /\ [Next]_vars => Tree'
<1> SUFFICES ASSUME Tree, [Next]_vars PROVE Tree'
  OBVIOUS
<1>1. CASE UNCHANGED vars
  <2>1. Shape'
    BY <1>1, StepShape DEF Tree
  <2>2. RereadOK' /\ ReadOK' /\ LinkConsistent' /\ DeadStaysDead'
    BY <1>1 DEF Tree, vars, inodeVars, tableVars, threadVars, RereadOK, ReadOK,
                Unchanged, LinkConsistent, DeadStaysDead
  <2>3. NoLeak'
    BY <1>1 DEF Tree, vars, inodeVars, tableVars, threadVars, NoLeak, Awaited
  <2>4. QED
    BY <2>1, <2>2, <2>3 DEF Tree
<1>2. ASSUME NEW t \in Thread, Step(t) \/ Kernel(t) PROVE Tree'
  <2>1. Shape'
    BY <1>2, StepShape DEF Tree, Next
  <2>2. RereadOK' /\ ReadOK'
    BY <1>2, RereadStep, ReadStep DEF Tree
  <2>3. LinkConsistent'
    BY <1>2, LinkStep DEF Tree
  <2>4. DeadStaysDead'
    BY <1>2, DeadStep DEF Tree
  <2>5. NoLeak'
    BY <1>2, NoLeakStep DEF Tree
  <2>6. QED
    BY <2>1, <2>2, <2>3, <2>4, <2>5 DEF Tree
<1>3. QED
  BY <1>1, <1>2 DEF Next

(* The inductive invariant of the tree: TreeInv holds in every state the   *)
(* bridge can reach, with any number of requests under way.                *)
THEOREM TreeInvariant == Spec => []TreeInv
<1>1. Tree => TreeInv
  BY DEF Tree, TreeInv, Shape
<1>2. QED
  BY InitTree, TreeStep, <1>1, PTL DEF Spec

(* Every entry of a directory is known to the inode it leads to, however   *)
(* addChild, rmChild, mvChild and removeRef (inode.go:104-303) interleave. *)
THEOREM LinksAgree == Spec => []LinkConsistent
<1>1. TreeInv => LinkConsistent
  BY DEF TreeInv
<1>2. QED
  BY TreeInvariant, <1>1, PTL

(* The assertion of removeRef (inode.go:199-201) never fails: an inode     *)
(* found dead gets no lookup before it is unlinked.                        *)
THEOREM DeadNodesStayDead == Spec => []DeadStaysDead
<1>1. TreeInv => DeadStaysDead
  BY DEF TreeInv
<1>2. QED
  BY TreeInvariant, <1>1, PTL

(* No inode stays in the table without a lookup, a child, or a removeRef   *)
(* (inode.go:146-214) that will come to it.                                *)
THEOREM NothingLeaks == Spec => []NoLeak
<1>1. TreeInv => NoLeak
  BY DEF TreeInv
<1>2. QED
  BY TreeInvariant, <1>1, PTL

(* An object that left b.nodes never comes back (inode.go:125-133, 165).   *)
THEOREM RemovalIsForGood == Spec => RemovedForGood
<1>1. Tree /\ [Next]_vars => [\A o \in alloc : nodes[ino[o]] # o => nodes'[ino[o]] # o]_vars
  BY DeadForGood DEF Tree, Next
<1>2. QED
  BY InitTree, TreeStep, <1>1, PTL DEF Spec, RemovedForGood

-----------------------------------------------------------------------------
(* Deadlock freedom.                                                       *)

(* A set of numbers that is not empty has a least element.                 *)
LEMMA NatMin ==
  ASSUME NEW T \in SUBSET Nat, T # {}
  PROVE  \E x \in T : \A y \in T : x <= y
<1> DEFINE R == {ss \in Nat \X Nat : ss[1] < ss[2]}
<1>1. IsWellFoundedOn(R, Nat)
  BY NatLessThanWellFounded DEF OpToRel
<1> HIDE DEF R
<1>2. PICK x \in T : \A y \in T : <<y, x>> \notin R
  BY <1>1, WFMin
<1>3. \A y \in T : ~ (y < x)
  BY <1>2 DEF R
<1>4. QED
  BY <1>3

(* A set of addresses that is not empty has a last one: the one with the   *)
(* fewest addresses behind it.                                             *)
LEMMA LastAddress ==
  ASSUME NEW M \in SUBSET Obj, M # {}
  PROVE  \E m \in M : \A q \in M : q <= m
<1> DEFINE after(m) == {q \in Obj : q > m}
           size(m) == Cardinality(after(m))
<1>1. \A m \in Obj : IsFiniteSet(after(m)) /\ size(m) \in Nat
  <2> SUFFICES ASSUME NEW m \in Obj PROVE IsFiniteSet(after(m)) /\ size(m) \in Nat
    OBVIOUS
  <2>1. after(m) \in SUBSET Obj
    OBVIOUS
  <2> HIDE DEF after
  <2>2. IsFiniteSet(after(m))
    BY <2>1, FS_Subset
  <2>3. QED
    BY <2>2, FS_CardinalityType
<1>2. ASSUME NEW m \in Obj, NEW q \in Obj, m < q PROVE size(q) < size(m)
  <2>1. after(q) \in SUBSET after(m) /\ q \in after(m) /\ q \notin after(q)
    <3>1. \A r \in Obj : r > q => r > m
      BY <1>2
    <3>2. q > m /\ ~ (q > q)
      BY <1>2
    <3>3. QED
      BY <3>1, <3>2
  <2> HIDE DEF after
  <2>2. size(q) <= size(m) /\ size(q) # size(m)
    BY <1>1, <2>1, FS_Subset
  <2>3. size(q) \in Nat /\ size(m) \in Nat
    BY <1>1
  <2> HIDE DEF size
  <2>4. QED
    BY <2>2, <2>3
<1> HIDE DEF size
<1> DEFINE sizes == {size(m) : m \in M}
<1>3. sizes \in SUBSET Nat /\ sizes # {}
  <2>1. \A m \in M : size(m) \in Nat
    BY <1>1
  <2>2. PICK m \in M : TRUE
    OBVIOUS
  <2>3. size(m) \in sizes
    BY <2>2
  <2>4. QED
    BY <2>1, <2>3
<1>4. PICK x \in sizes : \A y \in sizes : x <= y
  BY <1>3, NatMin
<1>5. PICK m \in M : x = size(m)
  OBVIOUS
<1>6. ASSUME NEW q \in M PROVE q <= m
  <2>1. size(m) <= size(q)
    BY <1>4, <1>5
  <2>2. size(m) \in Nat /\ size(q) \in Nat /\ m \in Nat /\ q \in Nat
    BY <1>1
  <2>3. m < q => size(q) < size(m)
    BY <1>2
  <2> HIDE DEF sizes
  <2>4. QED
    BY <2>1, <2>2, <2>3
<1>7. QED
  BY <1>6

(* A goroutine that starts a section asks for its mutexes holding none.    *)
LEMMA GotoOrder ==
  ASSUME ThreadsOK, LockOrder, NEW t \in Thread, NEW l, NEW group, NEW f,
         Goto(t, l, group, f), l = "idle" => group = {}
  PROVE  LockOrder'
<1> SUFFICES ASSUME NEW u \in Thread
             PROVE  /\ \A h \in held'[u], w \in want'[u] : h < w
                    /\ want'[u] \cup held'[u] # {} => pc'[u] # "idle"
  BY DEF LockOrder
<1>1. CASE u = t
  BY <1>1 DEF Goto, ThreadsOK
<1>2. CASE u # t
  BY <1>2 DEF Goto, ThreadsOK, LockOrder
<1>3. QED
  BY <1>1, <1>2

(* Going on with the rest of the list asks for one mutex while none is     *)
(* held.                                                                   *)
LEMMA DerefOrder ==
  ASSUME ThreadsOK, LockOrder, NEW t \in Thread, NEW f, NEW todo, Deref(t, f, todo)
  PROVE  LockOrder'
<1>1. CASE todo # <<>>
  <2>1. \E g : Goto(t, "refDec", {Head(todo)}, g)
    BY <1>1 DEF Deref
  <2>2. QED
    BY <2>1, GotoOrder
<1>2. CASE todo = <<>>
  <2>1. \E g : Goto(t, "compact", {}, g) \/ Goto(t, "done", {}, g)
    BY <1>2 DEF Deref, Done
  <2>2. QED
    BY <2>1, GotoOrder
<1>3. QED
  BY <1>1, <1>2

(* Mutexes are acquired in the order of addresses (inode.go:305-355).      *)
LEMMA OrderStep ==
  ASSUME Shape, LockOrder, NEW t \in Thread, Step(t) \/ Kernel(t)
  PROVE  LockOrder'
<1> USE ShapeThreads
<1>1. ASSUME NEW l, NEW group, NEW f, Goto(t, l, group, f), l # "idle" PROVE LockOrder'
  BY <1>1, GotoOrder
<1>2. CASE Acquire(t)
  <2>1. PICK o \in want[t] :
          /\ \A q \in want[t] : o <= q
          /\ want' = [want EXCEPT ![t] = @ \ {o}]
          /\ held' = [held EXCEPT ![t] = @ \cup {o}]
    BY <1>2 DEF Acquire, LockNext
  <2>2. /\ pc' = pc /\ want \in [Thread -> SUBSET Obj] /\ held \in [Thread -> SUBSET Obj]
        /\ pc[t] # "idle" /\ \A h \in held[t] : h < o
    BY <1>2, <2>1 DEF Acquire, ThreadsOK, LockOrder
  <2>3. \A w \in want[t] \ {o} : o < w
    BY <2>1, <2>2
  <2>4. ASSUME NEW u \in Thread
        PROVE  /\ \A h \in held'[u], w \in want'[u] : h < w
               /\ want'[u] \cup held'[u] # {} => pc'[u] # "idle"
    <3>1. CASE u = t
      <4>1. \A h \in held[t], w \in want[t] : h < w
        BY DEF LockOrder
      <4>2. held'[u] = held[t] \cup {o} /\ want'[u] = want[t] \ {o} /\ pc'[u] # "idle"
        BY <2>1, <2>2, <3>1
      <4>3. QED
        BY <2>3, <4>1, <4>2
    <3>2. CASE u # t
      BY <2>1, <2>2, <3>2 DEF LockOrder
    <3>3. QED
      BY <3>1, <3>2
  <2>5. QED
    BY <2>4 DEF LockOrder
<1>3. CASE Kernel(t)
  <2>1. \E l, f : Goto(t, l, {}, f)
    BY <1>3 DEF Kernel, SendEntry, SendRename, SendForget, Send
  <2>2. QED
    BY <2>1, GotoOrder
<1>4. CASE UnknownNode(t) \/ LookupUnderflow(t)
  BY <1>4 DEF UnknownNode, LookupUnderflow, Fail, threadVars, LockOrder
<1>5. CASE RmCommit(t) \/ MvCommit(t) \/ DecLive(t) \/ Unlink(t)
  <2>1. \E f, todo : Deref(t, f, todo)
    BY <1>5 DEF RmCommit, MvCommit, DecLive, Unlink
  <2>2. QED
    BY <2>1, DerefOrder
<1>6. CASE Handler(t) /\ ~UnknownNode(t)
  <2>1. CASE EntryFound(t) \/ EntryGone(t)
    <3>1. \E group, f : Goto(t, "addCheck", group, f) \/ Goto(t, "rmRead", group, f)
      BY <2>1 DEF EntryFound, EntryGone, Serve
    <3>2. QED
      BY <1>1, <3>1
  <2>2. CASE Refused(t) \/ RenameFrom(t) \/ RenameTo(t)
    <3>1. \E group, f : \/ Goto(t, "done", group, f) \/ Goto(t, "resolve2", group, f)
                       \/ Goto(t, "mvRead", group, f)
      BY <2>2 DEF Refused, RenameFrom, RenameTo, Serve
    <3>2. QED
      BY <1>1, <3>1
  <2>3. CASE ForgetUnknown(t) \/ ForgetKnown(t)
    <3>1. \E group, f : Goto(t, "done", group, f) \/ Goto(t, "refDec", group, f)
      BY <2>3 DEF ForgetUnknown, ForgetKnown, Serve
    <3>2. QED
      BY <1>1, <3>1
  <2>4. CASE Compact(t)
    BY <1>1, <2>4 DEF Compact, Done
  <2>5. CASE Reply(t)
    BY <2>5, GotoOrder DEF Reply
  <2>6. QED
    BY <1>6, <2>1, <2>2, <2>3, <2>4, <2>5 DEF Handler
<1>7. CASE AddRetry(t) \/ AddCommit(t) \/ RmRead(t) \/ RmRetry(t)
  <2>1. \E group, f : \/ Goto(t, "addCheck", group, f) \/ Goto(t, "done", group, f)
                      \/ Goto(t, "rmRead", group, f) \/ Goto(t, "rmCommit", group, f)
    <3>1. CASE AddRetry(t) \/ AddCommit(t)
      BY <3>1 DEF AddRetry, AddCommit, Serve, Done
    <3>2. CASE RmRead(t) \/ RmRetry(t)
      BY <3>2 DEF RmRead, RmRetry, Serve
    <3>3. QED
      BY <1>7, <3>1, <3>2
  <2>2. QED
    BY <1>1, <2>1
<1>8. CASE MvRead(t) \/ MvRetry(t) \/ DecDead(t) \/ UnlinkRetry(t) \/ Reread(t)
  <2>1. \E group, f : \/ Goto(t, "mvRead", group, f) \/ Goto(t, "mvCommit", group, f)
                      \/ Goto(t, "refUnlink", group, f) \/ Goto(t, "refRetry", group, f)
    <3>1. CASE MvRead(t) \/ MvRetry(t)
      BY <3>1 DEF MvRead, MvRetry, Serve
    <3>2. CASE DecDead(t) \/ UnlinkRetry(t) \/ Reread(t)
      BY <3>2 DEF DecDead, UnlinkRetry, Reread, Serve
    <3>3. QED
      BY <1>8, <3>1, <3>2
  <2>2. QED
    BY <1>1, <2>1
<1>9. QED
  BY <1>2, <1>3, <1>4, <1>5, <1>6, <1>7, <1>8
     DEF Step, AddChild, RmChild, MvChild, RemoveRef

(* With the order, the goroutine that waits for the last of all the        *)
(* addresses anybody waits for finds it free, or its holder can run.       *)
LEMMA OrderProgress ==
  ASSUME Shape, LockOrder PROVE LockProgress
<1> SUFFICES ASSUME NEW t0 \in Thread, pc[t0] # "idle",
                    \A t \in Thread : pc[t] # "idle" =>
                      /\ want[t] # {}
                      /\ \A o \in want[t] : LockNext(o, want[t]) => ~Free(o)
             PROVE  FALSE
  BY DEF LockProgress
<1>0. want \in [Thread -> SUBSET Obj] /\ held \in [Thread -> SUBSET Obj]
  BY ShapeThreads DEF ThreadsOK
<1> DEFINE M == {o \in Obj : \E t \in Thread : /\ pc[t] # "idle" /\ o \in want[t]
                                                 /\ LockNext(o, want[t])}
<1>1. ASSUME NEW t \in Thread, pc[t] # "idle"
      PROVE  \E o \in want[t] : o \in M /\ LockNext(o, want[t])
  <2>1. want[t] \in SUBSET Nat /\ want[t] # {}
    BY <1>0, <1>1
  <2>2. PICK o \in want[t] : \A q \in want[t] : o <= q
    BY <2>1, NatMin
  <2>3. QED
    BY <1>0, <1>1, <2>2 DEF LockNext
<1>2. M \in SUBSET Obj /\ M # {}
  BY <1>1
<1>3. PICK m \in M : \A q \in M : q <= m
  BY <1>2, LastAddress
<1>4. PICK u \in Thread : m \in held[u]
  BY <1>3 DEF Free
<1>5. PICK w \in want[u] : w \in M
  BY <1>1, <1>4 DEF LockOrder
<1>6. m < w /\ w <= m
  BY <1>3, <1>4, <1>5 DEF LockOrder
<1>7. m \in Nat /\ w \in Nat
  BY <1>2, <1>3, <1>5
<1> HIDE DEF M
<1>8. QED
  BY <1>6, <1>7

(* Mutexes are always asked for in ascending address order, and only while *)
(* a request is served (lockNodes, lockNode2; inode.go:305-355).           *)
THEOREM LocksOrdered == Spec => []LockOrder
<1>1. Init => LockOrder
  BY DEF Init, LockOrder
<1>2. Shape /\ LockOrder /\ [Next]_vars => LockOrder'
  <2>1. LockOrder /\ UNCHANGED vars => LockOrder'
    BY DEF vars, threadVars, LockOrder
  <2>2. QED
    BY <2>1, OrderStep DEF Next
<1>3. QED
  BY <1>1, <1>2, ShapeInvariant, PTL DEF Spec

(* No set of requests deadlocks on the inode mutexes, whatever inodes they *)
(* lock together: some goroutine holds all it asked for, or can take its   *)
(* next mutex (inode.go:305-355).                                          *)
THEOREM NoDeadlock == Spec => []LockProgress
<1>1. Shape /\ LockOrder => LockProgress
  BY OrderProgress
<1>2. QED
  BY <1>1, ShapeInvariant, LocksOrdered, PTL
=============================================================================
