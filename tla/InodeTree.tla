------------------------------ MODULE InodeTree ------------------------------
(***************************************************************************)
(* The inode tree of the bridge under concurrent FUSE requests: the        *)
(* objects of inode.go, the table b.nodes of bridge.go, and the four       *)
(* operations addChild, removeRef, rmChild and mvChild, each split where   *)
(* the code lets go of its mutexes.                                        *)
(*                                                                         *)
(* A goroutine (Thread) serves one request at a time.  Between two steps   *)
(* it either waits for inode mutexes (want) or holds all those it asked    *)
(* for (held).  A section that runs under mutexes is one step: nothing it  *)
(* reads or writes can be touched by another goroutine meanwhile.  b.mu is *)
(* a leaf lock - no code blocks while holding it - so a section under b.mu *)
(* is part of one step too and needs no variable.                          *)
(***************************************************************************)
EXTENDS Integers, Sequences, FiniteSets, Functions

CONSTANTS
  Thread,       \* goroutines of the FUSE server
  Obj,          \* addresses of inode objects; nodeLess compares addresses
  Ino,          \* inode numbers, which are also the FUSE node ids
  Name,         \* names of directory entries
  RootObj,      \* address of b.root
  RootIno,      \* its inode number (1 in the code)
  DirIno,       \* the inode numbers of directories
  Backend,      \* <<dir, name, ino>>: what fs.GetAttr may answer for dir/name,
                \* with NoIno for "no such file"
  Moves,        \* <<dir, name, newDir, newName>>: renames the kernel may ask for
  Evictable,    \* inode numbers the kernel may forget
  Ops,          \* kinds of request the kernel sends
  MaxRequests,  \* bound: requests in a behaviour
  CompactRatio  \* 100 in compactMemory

(* The nil pointer sorts before every address and is never locked.         *)
Nil == 0
(* "No inode number": the entry reply of a request that found nothing.     *)
NoIno == 0
(* The name in the frame of a request that has none.                       *)
NoName == "none"

ASSUME ThreadAssumption == IsFiniteSet(Thread)
ASSUME AddressAssumption ==
  /\ IsFiniteSet(Obj)
  /\ Obj \subseteq Nat \ {0}
  /\ RootObj \in Obj
ASSUME InoAssumption ==
  /\ IsFiniteSet(Ino)
  /\ Ino \subseteq Nat \ {0}
  /\ RootIno \in DirIno
  /\ DirIno \subseteq Ino
ASSUME NameAssumption ==
  /\ IsFiniteSet(Name)
  /\ NoName \notin Name
ASSUME EnvironmentAssumption ==
  /\ Backend \subseteq DirIno \X Name \X ((Ino \ {RootIno}) \cup {NoIno})
  /\ \A p \in DirIno, m \in Name : \E c \in Ino \cup {NoIno} : <<p, m, c>> \in Backend
  /\ Moves \subseteq DirIno \X Name \X DirIno \X Name
  /\ Evictable \subseteq Ino \ {RootIno}
  /\ MaxRequests \in Nat
  /\ CompactRatio \in Nat \ {0}

VARIABLES
  alloc,          \* inode objects created so far
  ino,            \* inode.ino
  lookupCount,    \* inode.lookupCount
  revision,       \* inode.revision
  parents,        \* inode.parents, as the set of its entries
  children,       \* inode.children
  nodes,          \* b.nodes
  nodeCountHigh,  \* b.nodeCountHigh
  pc,             \* per goroutine: the step it takes once it holds want
  fr,             \* per goroutine: arguments and local variables
  want,           \* per goroutine: inode mutexes still to be acquired
  held,           \* per goroutine: inode mutexes held
  kcount,         \* the kernel's own lookup counts (fi->nlookup)
  issued,         \* requests sent so far
  panic           \* "none", or the log.Panicf that stopped the process

inodeVars == <<alloc, ino, lookupCount, revision, parents, children>>
tableVars == <<nodes, nodeCountHigh>>
threadVars == <<pc, fr, want, held>>
kernelVars == <<kcount, issued>>
vars == <<inodeVars, tableVars, threadVars, kernelVars, panic>>

-----------------------------------------------------------------------------
(* Data.                                                                   *)

ParentEntry == [name : Name, node : Obj]
EntryOf(m, o) == [name |-> m, node |-> o]

OpKind == {"None", "Lookup", "Make", "Remove", "Rename", "Forget"}

Frame ==
  [op : OpKind,
   pino : Ino \cup {NoIno},  name : Name \cup {NoName},
   npino : Ino \cup {NoIno}, nname : Name \cup {NoName},
   cino : Ino \cup {NoIno},
   parent : Obj \cup {Nil}, newParent : Obj \cup {Nil},
   child : Obj \cup {Nil},  dest : Obj \cup {Nil},
   rev : Nat, nrev : Nat,
   nl : Nat, todo : Seq(Obj), pes : SUBSET ParentEntry, removed : BOOLEAN]

IdleFrame ==
  [op |-> "None", pino |-> NoIno, name |-> NoName, npino |-> NoIno,
   nname |-> NoName, cino |-> NoIno, parent |-> Nil, newParent |-> Nil,
   child |-> Nil, dest |-> Nil, rev |-> 0, nrev |-> 0, nl |-> 0,
   todo |-> <<>>, pes |-> {}, removed |-> FALSE]

Label == {"idle", "resolve", "resolve2", "addCheck", "rmRead", "rmCommit",
          "mvRead", "mvCommit", "forget", "refDec", "refUnlink", "refRetry",
          "compact", "done"}

Panic == {"none", "unknown node", "underflow"}

(* 1 where b holds: the increments of the revision counters are sums of it. *)
One(b) == IF b THEN 1 ELSE 0

(* isLive over given counts and children.                                  *)
IsLive_childrenOnly(o, counts, kids) == \E m \in Name : kids[o][m] # Nil
IsLive(o, counts, kids) == counts[o] > 0 \/ \E m \in Name : kids[o][m] # Nil

(* Nobody wrote o since rev was read: the test before every retry.         *)
Unchanged_untested(o, rev) == TRUE
Unchanged(o, rev) == revision[o] = rev

NodeCount == Cardinality({i \in Ino : nodes[i] # Nil})

-----------------------------------------------------------------------------
(* Locks.  lockNodes and lockNode2 take a group of inodes in address       *)
(* order, skip nil, and take an inode named twice once.                    *)

LockNext_anyOrder(o, group) == TRUE
LockNext(o, group) == \A q \in group : o <= q
Free(o) == \A u \in Thread : o \notin held[u]

Acquire(t) ==
  /\ panic = "none"
  /\ \E o \in want[t] :
       /\ LockNext(o, want[t])
       /\ Free(o)
       /\ want' = [want EXCEPT ![t] = @ \ {o}]
       /\ held' = [held EXCEPT ![t] = @ \cup {o}]
  /\ UNCHANGED <<inodeVars, tableVars, pc, fr, kernelVars, panic>>

(* Goroutine t holds every mutex it asked for and is about to run l.       *)
At(t, l) == pc[t] = l /\ want[t] = {} /\ panic = "none"

(* Release everything and go to l with frame f, asking for a lock group.   *)
Goto_nilToo(t, l, group, f) ==
  /\ pc' = [pc EXCEPT ![t] = l]
  /\ fr' = [fr EXCEPT ![t] = f]
  /\ want' = [want EXCEPT ![t] = group]
  /\ held' = [held EXCEPT ![t] = {}]
Goto(t, l, group, f) ==
  /\ pc' = [pc EXCEPT ![t] = l]
  /\ fr' = [fr EXCEPT ![t] = f]
  /\ want' = [want EXCEPT ![t] = group \ {Nil}]
  /\ held' = [held EXCEPT ![t] = {}]

(* log.Panicf: the process is gone, At and Acquire allow no further step.  *)
Fail(why) ==
  /\ panic' = why
  /\ UNCHANGED <<inodeVars, tableVars, threadVars, kernelVars>>

(* What a request still needs once its operation on the tree is over: the  *)
(* node ids it pins, and the entry it will reply with.                     *)
Bare(f) == [IdleFrame EXCEPT !.op = f.op, !.pino = f.pino, !.npino = f.npino,
                             !.cino = f.cino]

Done(t, f) == Goto(t, "done", {}, Bare(f))

-----------------------------------------------------------------------------
(* The kernel, as the code under src/ sees it.  A node id occurs in a      *)
(* request only while the kernel counts lookups for it, and a request in   *)
(* flight pins the ids it names: their last counts are not given back      *)
(* before the reply.                                                       *)

InUse(i) == \E u \in Thread :
  fr[u].op \notin {"None", "Forget"} /\ i \in {fr[u].pino, fr[u].npino}

Send(t, l, f) ==
  /\ At(t, "idle")
  /\ f.op \in Ops
  /\ issued < MaxRequests
  /\ issued' = issued + 1
  /\ Goto(t, l, {}, f)
  /\ UNCHANGED <<inodeVars, tableVars, panic>>

(* LOOKUP; MKNOD, MKDIR, SYMLINK, LINK and CREATE ("Make"); UNLINK and     *)
(* RMDIR ("Remove").                                                       *)
SendEntry(t) == \E k \in {"Lookup", "Make", "Remove"}, p \in DirIno, m \in Name :
  /\ kcount[p] > 0
  /\ Send(t, "resolve", [IdleFrame EXCEPT !.op = k, !.pino = p, !.name = m])
  /\ UNCHANGED kcount

SendRename(t) == \E mv \in Moves :
  /\ kcount[mv[1]] > 0 /\ kcount[mv[3]] > 0
  /\ Send(t, "resolve", [IdleFrame EXCEPT !.op = "Rename", !.pino = mv[1],
                           !.name = mv[2], !.npino = mv[3], !.nname = mv[4]])
  /\ UNCHANGED kcount

(* FORGET gives back some or all of the counts of a node id.               *)
SendForget(t) == \E i \in Evictable : \E n \in 1..kcount[i] :
  /\ n = kcount[i] => ~InUse(i)
  /\ Send(t, "forget", [IdleFrame EXCEPT !.op = "Forget", !.pino = i, !.nl = n])
  /\ kcount' = [kcount EXCEPT ![i] = @ - n]

(* The reply reaches the kernel, which counts the entry it was given.      *)
Reply(t) ==
  /\ At(t, "done")
  /\ kcount' = [i \in Ino |-> kcount[i] + One(i = fr[t].cino)]
  /\ Goto(t, "idle", {}, IdleFrame)
  /\ UNCHANGED <<inodeVars, tableVars, issued, panic>>

-----------------------------------------------------------------------------
(* Handlers: b.inode(NodeId), then the call of the file system, whose      *)
(* answer is any that Backend allows.  The call changes nothing here.      *)

Parent(t) == nodes[fr[t].pino]

Serve(t, l, group, f) ==
  /\ Goto(t, l, group, f)
  /\ UNCHANGED <<inodeVars, tableVars, kernelVars, panic>>

(* b.inode panics on a node id that is not in the table.                   *)
UnknownNode(t) ==
  /\ \/ At(t, "resolve") /\ Parent(t) = Nil
     \/ At(t, "resolve2") /\ nodes[fr[t].npino] = Nil
  /\ Fail("unknown node")

(* GetAttr found the entry: on to addChild.                                *)
EntryFound(t) ==
  /\ At(t, "resolve") /\ Parent(t) # Nil
  /\ fr[t].op \in {"Lookup", "Make"}
  /\ \E c \in Ino :
       /\ <<fr[t].pino, fr[t].name, c>> \in Backend
       /\ Serve(t, "addCheck", {Parent(t)},
                [fr[t] EXCEPT !.parent = Parent(t), !.cino = c])

(* A Lookup that fails, and an unlink or rmdir that succeeds, call rmChild. *)
EntryGone(t) ==
  /\ At(t, "resolve") /\ Parent(t) # Nil
  /\ \/ fr[t].op = "Lookup" /\ <<fr[t].pino, fr[t].name, NoIno>> \in Backend
     \/ fr[t].op = "Remove"
  /\ Serve(t, "rmRead", {Parent(t)}, [fr[t] EXCEPT !.parent = Parent(t)])

(* The file system refuses: the handler returns its status.                *)
Refused(t) ==
  /\ \/ At(t, "resolve") /\ Parent(t) # Nil /\ fr[t].op \in {"Make", "Remove"}
     \/ At(t, "resolve2") /\ nodes[fr[t].npino] # Nil
  /\ Serve(t, "done", {}, Bare(fr[t]))

(* Rename resolves its two directories one after the other.                *)
RenameFrom(t) ==
  /\ At(t, "resolve") /\ Parent(t) # Nil
  /\ fr[t].op = "Rename"
  /\ Serve(t, "resolve2", {}, [fr[t] EXCEPT !.parent = Parent(t)])

RenameTo(t) ==
  LET np == nodes[fr[t].npino]
  IN  /\ At(t, "resolve2") /\ np # Nil
      /\ Serve(t, "mvRead", {fr[t].parent, np}, [fr[t] EXCEPT !.newParent = np])

(* Forget looks the node up with inodeSafe and returns if it is unknown.   *)
ForgetUnknown(t) ==
  /\ At(t, "forget") /\ Parent(t) = Nil
  /\ Serve(t, "done", {}, Bare(fr[t]))

ForgetKnown_one(t) ==
  /\ At(t, "forget") /\ Parent(t) # Nil
  /\ Serve(t, "refDec", {Parent(t)}, [fr[t] EXCEPT !.todo = <<Parent(t)>>, !.nl = 1])
ForgetKnown(t) ==
  /\ At(t, "forget") /\ Parent(t) # Nil
  /\ Serve(t, "refDec", {Parent(t)}, [fr[t] EXCEPT !.todo = <<Parent(t)>>])

-----------------------------------------------------------------------------
(* addChild(parent, name, ino): lock parent and the child found last time  *)
(* (none at first), look the number up again under b.mu, and start over    *)
(* with what the table says now if it is not the child locked.             *)

ChildLocked_untested(f) == TRUE
ChildLocked_orGone(f) == nodes[f.cino] \in {f.child, Nil}
ChildLocked(f) == nodes[f.cino] = f.child

AddRetry(t) ==
  LET f == fr[t]
  IN  /\ At(t, "addCheck") /\ ~ChildLocked(f)
      /\ Serve(t, "addCheck", {f.parent, nodes[f.cino]},
               [f EXCEPT !.child = nodes[f.cino]])

(* An object for a number that is not in the table is new (newInode).      *)
AddCommit(t) ==
  LET f == fr[t]
  IN  /\ At(t, "addCheck") /\ ChildLocked(f)
      /\ \E c \in Obj :
           /\ IF f.child = Nil THEN c \notin alloc ELSE c = f.child
           /\ alloc' = alloc \cup {c}
           /\ ino' = [ino EXCEPT ![c] = f.cino]
           /\ lookupCount' = [lookupCount EXCEPT ![c] = @ + 1]
           /\ revision' = [o \in Obj |->
                revision[o] + 2 * One(o = c) + One(o = f.parent)]
           /\ nodes' = [nodes EXCEPT ![f.cino] = c]
           /\ children' = [children EXCEPT ![f.parent][f.name] = c]
           /\ parents' = [parents EXCEPT ![c] = @ \cup {EntryOf(f.name, f.parent)}]
      /\ nodeCountHigh' = IF NodeCount' > nodeCountHigh THEN NodeCount' ELSE nodeCountHigh
      /\ Done(t, f)
      /\ UNCHANGED <<kernelVars, panic>>

-----------------------------------------------------------------------------
(* rmChild(parent, name): read the child under the parent's mutex, lock    *)
(* both, and start over if the parent's revision moved in between.         *)

RmRead(t) ==
  LET f == fr[t]
      c == children[f.parent][f.name]
  IN  /\ At(t, "rmRead")
      /\ IF c = Nil
         THEN Serve(t, "done", {}, Bare(f))
         ELSE Serve(t, "rmCommit", {f.parent, c},
                    [f EXCEPT !.child = c, !.rev = revision[f.parent]])

RmRetry(t) ==
  /\ At(t, "rmCommit") /\ ~Unchanged(fr[t].parent, fr[t].rev)
  /\ Serve(t, "rmRead", {fr[t].parent}, fr[t])

(* Whatever is left in todo goes to removeRef(_, 0), else the handler ends. *)
Deref_notParents(t, f, todo) ==
  IF f.op = "Forget" /\ f.removed THEN Goto(t, "compact", {}, Bare(f)) ELSE Done(t, f)
Deref(t, f, todo) ==
  IF todo # <<>>
  THEN Goto(t, "refDec", {Head(todo)}, [Bare(f) EXCEPT !.todo = todo, !.removed = f.removed])
  ELSE IF f.op = "Forget" /\ f.removed
       THEN Goto(t, "compact", {}, Bare(f))
       ELSE Done(t, f)

RmCommit(t) ==
  LET f == fr[t]
      e == EntryOf(f.name, f.parent)
      kids == [children EXCEPT ![f.parent][f.name] = Nil]
  IN  /\ At(t, "rmCommit") /\ Unchanged(f.parent, f.rev)
      /\ children' = kids
      /\ parents' = [parents EXCEPT ![f.child] = @ \ {e}]
      /\ revision' = [o \in Obj |-> revision[o] + One(o = f.parent) + One(o = f.child)]
      /\ Deref(t, f, IF IsLive(f.parent, lookupCount, kids) THEN <<>> ELSE <<f.parent>>)
      /\ UNCHANGED <<alloc, ino, lookupCount, tableVars, kernelVars, panic>>

-----------------------------------------------------------------------------
(* mvChild(parent, name, newParent, newName, true): the same scheme over   *)
(* the two directories, the entry moved and the entry it replaces.         *)

MvRead(t) ==
  LET f == fr[t]
      c == children[f.parent][f.name]
      d == children[f.newParent][f.nname]
  IN  /\ At(t, "mvRead")
      /\ Serve(t, "mvCommit", {f.parent, f.newParent, c, d},
               [f EXCEPT !.child = c, !.dest = d, !.rev = revision[f.parent],
                         !.nrev = revision[f.newParent]])

MvRetry(t) ==
  LET f == fr[t]
  IN  /\ At(t, "mvCommit")
      /\ ~(Unchanged(f.parent, f.rev) /\ Unchanged(f.newParent, f.nrev))
      /\ Serve(t, "mvRead", {f.parent, f.newParent}, f)

(* The child, if known, leaves its old place, then the entry it replaces   *)
(* leaves the new place, then the child is put there.                      *)
MvCommit(t) ==
  LET f == fr[t]
      from == EntryOf(f.name, f.parent)
      to == EntryOf(f.nname, f.newParent)
      kids == [children EXCEPT ![f.parent][f.name] = Nil,
                               ![f.newParent][f.nname] = f.child]
      moved == One(f.child # Nil)
      replaced == One(f.dest # Nil)
      dead(o) == IF IsLive(o, lookupCount, kids) THEN <<>> ELSE <<o>>
  IN  /\ At(t, "mvCommit")
      /\ Unchanged(f.parent, f.rev) /\ Unchanged(f.newParent, f.nrev)
      /\ children' = kids
      /\ parents' = [o \in Obj |->
           LET kept == IF o = f.child THEN parents[o] \ {from} ELSE parents[o]
               rest == IF o = f.dest THEN kept \ {to} ELSE kept
           IN  IF o = f.child THEN rest \cup {to} ELSE rest]
      /\ revision' = [o \in Obj |->
           revision[o] + moved * One(o = f.parent) + (moved + replaced) * One(o = f.newParent)
                       + 2 * One(o = f.child) + One(o = f.dest)]
      /\ Deref(t, f, dead(f.parent) \o dead(f.newParent))
      /\ UNCHANGED <<alloc, ino, lookupCount, tableVars, kernelVars, panic>>

-----------------------------------------------------------------------------
(* removeRef(n, nlookup) for n = Head(todo).  Its recursion into the       *)
(* parents of n is the rest of todo: the parents come before what the      *)
(* caller still has to do, in any order (all() ranges over a map).         *)

LookupUnderflow_orEqual(t) ==
  /\ At(t, "refDec") /\ fr[t].nl >= lookupCount[Head(fr[t].todo)]
  /\ Fail("underflow")
LookupUnderflow(t) ==
  /\ At(t, "refDec") /\ fr[t].nl > lookupCount[Head(fr[t].todo)]
  /\ Fail("underflow")

(* Under n.mu: give back nlookup counts; a node that stays live stays.     *)
DecLive(t) ==
  LET f == fr[t]
      n == Head(f.todo)
  IN  /\ At(t, "refDec") /\ f.nl <= lookupCount[n]
      /\ lookupCount' = [lookupCount EXCEPT ![n] = @ - f.nl]
      /\ revision' = [revision EXCEPT ![n] = @ + One(f.nl > 0)]
      /\ IsLive(n, lookupCount', children)
      /\ Deref(t, f, Tail(f.todo))
      /\ UNCHANGED <<alloc, ino, parents, children, tableVars, kernelVars, panic>>

(* The group of n: itself and the parents read together with its revision. *)
LockGroup(n) == {n} \cup {e.node : e \in parents[n]}

(* A dead node leaves the table; then n.mu is dropped to lock the group.   *)
DecDead(t) ==
  LET f == fr[t]
      n == Head(f.todo)
  IN  /\ At(t, "refDec") /\ f.nl <= lookupCount[n]
      /\ lookupCount' = [lookupCount EXCEPT ![n] = @ - f.nl]
      /\ revision' = [revision EXCEPT ![n] = @ + One(f.nl > 0)]
      /\ ~IsLive(n, lookupCount', children)
      /\ nodes' = [nodes EXCEPT ![ino[n]] = Nil]
      /\ Goto(t, "refUnlink", LockGroup(n),
              [f EXCEPT !.nl = 0, !.pes = parents[n], !.rev = revision'[n]])
      /\ UNCHANGED <<alloc, ino, parents, children, nodeCountHigh, kernelVars, panic>>

(* n changed while it was unlocked: lock it, read it again, lock the group. *)
UnlinkRetry(t) ==
  /\ At(t, "refUnlink") /\ ~Unchanged(Head(fr[t].todo), fr[t].rev)
  /\ Serve(t, "refRetry", {Head(fr[t].todo)}, fr[t])

Reread_oldRevision(t) ==
  LET n == Head(fr[t].todo)
  IN  /\ At(t, "refRetry")
      /\ Serve(t, "refUnlink", LockGroup(n), [fr[t] EXCEPT !.pes = parents[n]])
Reread(t) ==
  LET n == Head(fr[t].todo)
  IN  /\ At(t, "refRetry")
      /\ Serve(t, "refUnlink", LockGroup(n),
               [fr[t] EXCEPT !.pes = parents[n], !.rev = revision[n]])

(* The order in which all() lists the entries of a map is any.             *)
Orders(S) == Surjection(1..Cardinality(S), S)

(* The entries of the group that still name n.                             *)
Linked_newestOnly(n, pes) ==
  LET all == {e \in pes : children[e.node][e.name] = n}
  IN  IF all = {} THEN {} ELSE {CHOOSE e \in all : TRUE}
Linked(n, pes) == {e \in pes : children[e.node][e.name] = n}

(* The assertion that nobody counted n meanwhile is DeadStaysDead below.   *)
Unlink(t) ==
  LET f == fr[t]
      n == Head(f.todo)
      mine == Linked(n, f.pes)
  IN  /\ At(t, "refUnlink") /\ Unchanged(n, f.rev)
      /\ children' = [o \in Obj |-> [m \in Name |->
           IF EntryOf(m, o) \in mine THEN Nil ELSE children[o][m]]]
      /\ parents' = [parents EXCEPT ![n] = {}]
      /\ revision' = [o \in Obj |->
           revision[o] + Cardinality({m \in Name : EntryOf(m, o) \in mine}) + One(o = n)]
      /\ \E s \in Orders(f.pes) :
           Deref(t, [f EXCEPT !.removed = TRUE],
                 [k \in 1..Len(s) |-> s[k].node] \o Tail(f.todo))
      /\ UNCHANGED <<alloc, ino, lookupCount, tableVars, kernelVars, panic>>

(* compactMemory, called by Forget when it removed the node: the copy of   *)
(* the table has the same entries, so only the high-water mark changes.    *)
Compact(t) ==
  /\ At(t, "compact")
  /\ nodeCountHigh' = IF nodeCountHigh <= NodeCount * CompactRatio
                      THEN nodeCountHigh ELSE NodeCount
  /\ Done(t, fr[t])
  /\ UNCHANGED <<inodeVars, nodes, kernelVars, panic>>

-----------------------------------------------------------------------------
(* NewPathFS: only the root, which the kernel knows from the start.        *)
Init ==
  /\ alloc = {RootObj}
  /\ ino = [o \in Obj |-> RootIno]
  /\ lookupCount = [o \in Obj |-> One(o = RootObj)]
  /\ revision = [o \in Obj |-> 0]
  /\ parents = [o \in Obj |-> {}]
  /\ children = [o \in Obj |-> [m \in Name |-> Nil]]
  /\ nodes = [i \in Ino |-> IF i = RootIno THEN RootObj ELSE Nil]
  /\ nodeCountHigh = 1
  /\ pc = [t \in Thread |-> "idle"]
  /\ fr = [t \in Thread |-> IdleFrame]
  /\ want = [t \in Thread |-> {}]
  /\ held = [t \in Thread |-> {}]
  /\ kcount = [i \in Ino |-> One(i = RootIno)]
  /\ issued = 0
  /\ panic = "none"

Kernel(t) == SendEntry(t) \/ SendRename(t) \/ SendForget(t)

Handler(t) ==
  \/ UnknownNode(t) \/ EntryFound(t) \/ EntryGone(t) \/ Refused(t)
  \/ RenameFrom(t) \/ RenameTo(t) \/ ForgetUnknown(t) \/ ForgetKnown(t)
  \/ Compact(t) \/ Reply(t)

AddChild(t) == AddRetry(t) \/ AddCommit(t)
RmChild(t) == RmRead(t) \/ RmRetry(t) \/ RmCommit(t)
MvChild(t) == MvRead(t) \/ MvRetry(t) \/ MvCommit(t)
RemoveRef(t) ==
  \/ LookupUnderflow(t) \/ DecLive(t) \/ DecDead(t) \/ UnlinkRetry(t)
  \/ Reread(t) \/ Unlink(t)

Step(t) ==
  Acquire(t) \/ Handler(t) \/ AddChild(t) \/ RmChild(t) \/ MvChild(t) \/ RemoveRef(t)

Next == \E t \in Thread : Step(t) \/ Kernel(t)

Spec == Init /\ [][Next]_vars

(* A goroutine that can run is eventually scheduled, and a mutex of Go is  *)
(* handed to a waiter that starves; requests need not come.                *)
Fairness == \A t \in Thread : WF_vars(Step(t))
FairSpec == Spec /\ Fairness
-----------------------------------------------------------------------------
(* Properties.                                                             *)

(* Every variable has its type: the shape of inode.go:21-39, of the table  *)
(* b.nodes, of the handlers' locals and of the lock groups, which hold no  *)
(* nil pointer (inode.go:325-331).                                         *)
TypeOK ==
  /\ alloc \subseteq Obj
  /\ ino \in [Obj -> Ino]
  /\ lookupCount \in [Obj -> Nat]
  /\ revision \in [Obj -> Nat]
  /\ parents \in [Obj -> SUBSET ParentEntry]
  /\ children \in [Obj -> [Name -> Obj \cup {Nil}]]
  /\ nodes \in [Ino -> Obj \cup {Nil}]
  /\ nodeCountHigh \in Nat
  /\ pc \in [Thread -> Label]
  /\ fr \in [Thread -> Frame]
  /\ want \in [Thread -> SUBSET Obj]
  /\ held \in [Thread -> SUBSET Obj]
  /\ kcount \in [Ino -> Nat]
  /\ issued \in 0..MaxRequests
  /\ panic \in Panic

(* An entry of a directory is known to the inode it leads to: pathOf       *)
(* (file.go:29-63) and removeRef's unlinking (inode.go:175-195) find every *)
(* place an inode hangs in only through its own parents.  Four operations  *)
(* write the two sides, and three of them write what they read before they *)
(* dropped their mutexes.                                                  *)
LinkConsistent ==
  \A o \in Obj, m \in Name :
    LET c == children[o][m]
    IN  c # Nil => EntryOf(m, o) \in parents[c]

Awaited(o) == \E t \in Thread : \E k \in 1..Len(fr[t].todo) : fr[t].todo[k] = o

(* No inode is forgotten in the table: one that no lookup and no child     *)
(* keeps alive either has left b.nodes or is on the list of a removeRef    *)
(* that is on its way to it (inode.go:205-207, 241-243, 295-300).          *)
NoLeak ==
  \A i \in Ino :
    LET o == nodes[i]
    IN  o # Nil => \/ IsLive(o, lookupCount, children)
                  \/ Awaited(o)

(* Between a removeRef that found an inode dead and the moment it has      *)
(* unlinked it, nobody gives that inode a lookup or puts it back in the    *)
(* table: the assertion of inode.go:199-201.                               *)
DeadStaysDead ==
  \A t \in Thread : pc[t] \in {"refUnlink", "refRetry"} =>
    LET n == Head(fr[t].todo)
    IN  lookupCount[n] = 0 /\ nodes[ino[n]] # n

(* An object that left the table never comes back: a later lookup of its   *)
(* number makes a new one (inode.go:125-133), so a pointer to the old one  *)
(* that some handler still holds leads out of the table for good.          *)
RemovedForGood ==
  [][\A o \in alloc : nodes[ino[o]] # o => nodes'[ino[o]] # o]_vars

(* Some goroutine inside a request can always go on: either it holds all   *)
(* the mutexes it asked for, or the next one in its order is free.  The    *)
(* groups are disjoint calls of lockNodes and lockNode2 whose common order *)
(* is nodeLess (inode.go:305-355).                                         *)
LockProgress ==
  panic = "none" /\ (\E t \in Thread : pc[t] # "idle") =>
    \E t \in Thread :
      /\ pc[t] # "idle"
      /\ want[t] = {} \/ \E o \in want[t] : LockNext(o, want[t]) /\ Free(o)

(* Lookups that the kernel does not count (yet, or any more): replies on   *)
(* their way out, and FORGETs on their way in.                             *)
RepliesOf(i) == Cardinality({t \in Thread : pc[t] = "done" /\ fr[t].cino = i})

(* The lookups, one by one, that the goroutines S give back with frames f. *)
GivenBack(S, f) == UNION {{t} \X (1..f[t].nl) : t \in S}
ForgetsOf(i) == Cardinality(GivenBack({t \in Thread : fr[t].pino = i}, fr))

(* The bridge and the kernel agree on the lookups of every number the      *)
(* table knows, whatever is in flight between them (inode.go:130, 155).    *)
RefAccounting ==
  \A i \in Ino :
    nodes[i] # Nil => lookupCount[nodes[i]] = kcount[i] + RepliesOf(i) + ForgetsOf(i)

(* A FORGET of number i that works on an object which is not, or no more,  *)
(* the one the table has for i.                                            *)
Stray(t, i) == pc[t] = "refDec" /\ Head(fr[t].todo) # nodes[i]
AimedAt(i) == Cardinality(GivenBack({t \in Thread : fr[t].pino = i /\ ~Stray(t, i)}, fr))

(* The bridge never counts a lookup, of an inode in the table, that the    *)
(* kernel does not hold and that nobody is about to give back to that very *)
(* inode: not even after a late delete is an inode of the table kept alive *)
(* for nobody (inode.go:130, 151-155, bridge.go:145-166).                  *)
NothingOvercounted ==
  \A i \in Ino :
    nodes[i] # Nil => lookupCount[nodes[i]] <= kcount[i] + RepliesOf(i) + AimedAt(i)

(* What the kernel holds a lookup for is in the table.                     *)
CountedIsFindable == \A i \in Ino : kcount[i] > 0 => nodes[i] # Nil

(* Every entry leads to an inode of the table, or to one a removeRef is    *)
(* about to unlink: no lookup by path ends at an object that a request by  *)
(* node id would not find.                                                 *)
LinkedIsFindable ==
  \A o \in Obj, m \in Name :
    LET c == children[o][m]
    IN  c # Nil => \/ nodes[ino[c]] = c
                  \/ \E t \in Thread : /\ pc[t] \in {"refUnlink", "refRetry"}
                                         /\ Head(fr[t].todo) = c

(* "unknown node": the assertion of b.inode (bridge.go:67-69).             *)
NoUnknownNode == panic # "unknown node"

(* Every request is answered, every FORGET is carried out: no retry loop   *)
(* of inode.go spins for ever on work that others finish.                  *)
RequestsEnd == \A t \in Thread : (pc[t] # "idle") ~> (pc[t] = "idle" \/ panic # "none")

-----------------------------------------------------------------------------
(* What the safety properties rest on: the facts about the handlers' local *)
(* variables that survive the time between two lock groups.                *)

(* A frame f at label l, where a is the set of objects created so far.     *)
FrameOK(l, f, a) ==
  /\ l \in {"resolve", "resolve2", "forget"} => f.pino \in Ino
  /\ l \in {"resolve", "resolve2", "addCheck", "rmRead", "rmCommit", "mvRead", "mvCommit"}
       => f.name \in Name
  /\ (l = "resolve" /\ f.op = "Rename") \/ l \in {"resolve2", "mvRead", "mvCommit"}
       => f.npino \in Ino /\ f.nname \in Name
  /\ l \in {"resolve2", "addCheck", "rmRead", "rmCommit", "mvRead", "mvCommit"}
       => f.parent \in a
  /\ l \in {"mvRead", "mvCommit"} => f.newParent \in a
  /\ l = "addCheck" => f.cino \in Ino
  /\ l = "rmCommit" => f.child \in a
  /\ f.child \in a \cup {Nil} /\ f.dest \in a \cup {Nil}
  /\ (l \in {"refDec", "refUnlink", "refRetry"}) <=> (f.todo # <<>>)
  /\ \A k \in 1..Len(f.todo) : f.todo[k] \in a
  /\ \A e \in f.pes : e.node \in a

FramesOK == \A t \in Thread : FrameOK(pc[t], fr[t], alloc)

(* The table leads to objects that exist and carry the number looked up,   *)
(* and so do links; an address not given out yet holds nothing.            *)
TableOK ==
  \A i \in Ino : nodes[i] # Nil => nodes[i] \in alloc /\ ino[nodes[i]] = i
PointersOK ==
  /\ \A o \in Obj, m \in Name : children[o][m] \in alloc \cup {Nil}
  /\ \A o \in Obj : \A e \in parents[o] : e.node \in alloc
FreshOK ==
  \A o \in Obj \ alloc :
    /\ lookupCount[o] = 0 /\ parents[o] = {}
    /\ \A m \in Name : children[o][m] = Nil

(* The parents removeRef read are the parents n has, unless n's revision   *)
(* tells that they changed.                                                *)
RereadOK ==
  \A t \in Thread : pc[t] = "refUnlink" =>
    LET n == Head(fr[t].todo)
    IN  /\ fr[t].rev <= revision[n]
        /\ Unchanged(n, fr[t].rev) => fr[t].pes = parents[n]

(* The children rmChild and mvChild read are the children the directories  *)
(* have, unless their revisions tell that they changed.                    *)
ReadOK ==
  \A t \in Thread :
    LET f == fr[t]
    IN  /\ pc[t] \in {"rmCommit", "mvCommit"} =>
             /\ f.rev <= revision[f.parent]
             /\ Unchanged(f.parent, f.rev) => children[f.parent][f.name] = f.child
        /\ pc[t] = "mvCommit" =>
             /\ f.nrev <= revision[f.newParent]
             /\ Unchanged(f.newParent, f.nrev) => children[f.newParent][f.nname] = f.dest

(* The inductive invariant behind LinkConsistent, DeadStaysDead, NoLeak,   *)
(* RemovedForGood and the refinement of AtomicTree: what a stalled         *)
(* rmChild, mvChild or removeRef knows of its inodes is true or known to   *)
(* be out of date (inode.go:172-187, 227-229, 268-270).                    *)
TreeInv ==
  /\ TypeOK /\ FramesOK
  /\ TableOK /\ PointersOK /\ FreshOK
  /\ RereadOK /\ ReadOK /\ LinkConsistent /\ DeadStaysDead /\ NoLeak

(* Lookups to be given back are in the frame of a FORGET until removeRef   *)
(* has given them back to an inode of that number; an entry to reply with  *)
(* is in a frame of addChild or of its reply.                              *)
LocalsOK ==
  \A t \in Thread :
    LET f == fr[t]
    IN  /\ f.nl > 0 => pc[t] \in {"forget", "refDec"}
        /\ f.nl > 0 /\ pc[t] = "refDec" => ino[Head(f.todo)] = f.pino
        /\ f.cino # NoIno => pc[t] \in {"addCheck", "done"}
        /\ pc[t] \in {"resolve", "resolve2"} => f.op \notin {"None", "Forget"}

(* The node ids of a request in flight are counted by the kernel.          *)
PinnedOK == \A i \in Ino : InUse(i) => kcount[i] > 0

(* The inductive invariant behind what the lookup counts promise: who owes *)
(* the bridge a lookup, and to which inode (inode.go:130, 155).            *)
CountInv == LocalsOK /\ PinnedOK /\ NothingOvercounted

(* Mutexes are taken in the order of addresses, inside a request only.     *)
LockOrder ==
  \A t \in Thread :
    /\ \A h \in held[t], w \in want[t] : h < w
    /\ want[t] \cup held[t] # {} => pc[t] # "idle"
=============================================================================
