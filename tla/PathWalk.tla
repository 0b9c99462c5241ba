------------------------------ MODULE PathWalk ------------------------------
(***************************************************************************)
(* Paths.  A FUSE request names an inode; the file system below is called  *)
(* with a path.  pathOf makes it by walking from parent to parent with one *)
(* mutex at a time, the file system is called later, and the tree is       *)
(* brought up to date after that: other requests run between any two of    *)
(* these steps, and a directory handle keeps its path for as long as it is *)
(* open.  This module puts the tree (AtomicTree: its own operations are    *)
(* atomic, as InodeTreeRefinement shows) between the kernel and a real     *)
(* file system, and asks when a path leads to its inode.                   *)
(*                                                                         *)
(* FORGET is left out, and with it the deletes from b.nodes: InodeTree has *)
(* them, the late one included.                                            *)
(***************************************************************************)
EXTENDS ParentOrder, FiniteSets

CONSTANTS
  Thread,       \* goroutines of the FUSE server
  Obj,          \* inode objects
  Ino,          \* inode numbers
  Name,         \* names of directory entries
  RootObj, RootIno,
  DirIno,       \* the inode numbers of directories
  StartFs,      \* the file system at the start: [DirIno -> [Name -> Ino or NoIno]]
  Entries,      \* <<dir, name>>: entries the kernel may look up, make or remove
  Moves,        \* <<dir, name, newDir, newName>>: renames it may ask for
  Links,        \* <<file, dir, name>>: links it may ask for
  Used,         \* inode numbers it may access, by path only
  Listed,       \* directories it may open and list
  Ops,          \* kinds of request it sends
  MaxRequests,  \* bound: requests in a behaviour
  MaxDepth      \* bound: segments a walk collects

Nil == 0
NoIno == 0
(* What pathOf makes up for an inode that does not lead to the root.       *)
Orphan == <<"orphaned">>

ASSUME TreeAssumption ==
  /\ Obj \subseteq Nat \ {0} /\ Ino \subseteq Obj
  /\ RootObj = RootIno /\ RootIno \in DirIno /\ DirIno \subseteq Ino
  /\ "orphaned" \notin Name
(* No walk that goes in no circle is cut off by the bound.                 *)
ASSUME BoundAssumption == IsFiniteSet(Obj) /\ Cardinality(Obj) <= MaxDepth
ASSUME EnvironmentAssumption ==
  /\ StartFs \in [DirIno -> [Name -> (Ino \ {RootIno}) \cup {NoIno}]]
  /\ \A d, e \in DirIno, m, n \in Name :
       StartFs[d][m] = StartFs[e][n] => <<d, m>> = <<e, n>> \/ StartFs[d][m] = NoIno
  /\ \A d \in DirIno \ {RootIno}, m \in Name :
       StartFs[d][m] # NoIno => \E e \in DirIno, n \in Name : StartFs[e][n] = d
  /\ Entries \subseteq DirIno \X Name
  /\ Moves \subseteq DirIno \X Name \X DirIno \X Name
  /\ Links \subseteq (Ino \ DirIno) \X DirIno \X Name
  /\ Used \subseteq Ino /\ Listed \subseteq DirIno
  /\ MaxRequests \in Nat /\ MaxDepth \in Nat

VARIABLES
  alloc, ino, lookupCount, parents, children, nodes,   \* the tree
  fs,       \* the file system: the entries of each directory
  handle,   \* the directory handle that is open, if any
  pc, fr,   \* per goroutine: its next step, arguments and local variables
  issued,   \* requests sent so far
  blame,    \* history: what may have made the tree false: a call of the file
            \* system on another inode than was meant, or a race of lookups
  missed    \* history: what may have left the tree without an entry that the
            \* file system has: a lookup that failed, or a number used again

treeVars == <<alloc, ino, lookupCount, parents, children, nodes>>
threadVars == <<pc, fr>>
vars == <<treeVars, fs, handle, threadVars, issued, blame, missed>>

T == INSTANCE AtomicTree

-----------------------------------------------------------------------------
(* Data.                                                                   *)

(* objs: the inodes whose paths the request needs, in order; names: the    *)
(* entries it is about; paths: those found so far; at, segs: pathOf's it   *)
(* and segments; todo: what ReadDirPlus has still to look up; locks: the   *)
(* inodes that the kernel locked for it.  calm, seen and moved are         *)
(* history: whether no rename or removal has overlapped the request, the   *)
(* paths its inode has had in the tree since the walk began, and the       *)
(* changes of the tree since then (2 stands for more).                     *)
IdleFrame ==
  [op |-> "none", objs |-> <<>>, names |-> <<>>, paths |-> <<>>, at |-> Nil,
   segs |-> <<>>, todo |-> {}, cino |-> NoIno, locks |-> {}, calm |-> TRUE,
   seen |-> {}, moved |-> 0]
Label == {"idle", "walk", "call", "look", "apply", "open", "list"}
NoHandle == [node |-> Nil, path |-> <<>>, calm |-> TRUE]

EntryOps == {"Lookup", "Revalidate", "Make", "Remove"}
Changes == {"Remove", "Rename"}

LastOf(s) == s[Len(s)]
(* The directory an entry goes to or is looked up in.                      *)
Dir(f) == LastOf(f.objs)
Target(f) == f.objs[Len(f.paths) + 1]

(* The path of o through newest parents in par, as one look would find it. *)
PathIn(par, o) ==
  LET up[k \in 0..Cardinality(Obj)] == [x \in Obj |->
        IF x = RootObj THEN <<>>
        ELSE IF k = 0 \/ par[x] = <<>> THEN Orphan
        ELSE LET e == par[x][Len(par[x])]
                 rest == up[k - 1][e.node]
             IN  IF rest = Orphan THEN Orphan ELSE Append(rest, e.name)]
  IN  up[Cardinality(Obj)][o]

-----------------------------------------------------------------------------
(* The file system: a tree of its own, whose operations are atomic.        *)

(* Where the names of p lead in F from inode number i.                     *)
NextIn(F, i, m) == IF i \in DirIno /\ m \in Name THEN F[i][m] ELSE NoIno
Reach(F, i, p) ==
  LET at[k \in 0..Len(p)] == IF k = 0 THEN i ELSE NextIn(F, at[k - 1], p[k])
  IN  at[Len(p)]
Resolve(p) == Reach(fs, RootIno, p)
IsLinked(i) == i = RootIno \/ \E d \in DirIno, m \in Name : fs[d][m] = i
IsEmpty(d) == \A m \in Name : fs[d][m] = NoIno
Below(p, q) == Len(p) <= Len(q) /\ SubSeq(q, 1, Len(p)) = p

(* p leads to inode o or nowhere, so that a call with it does no harm.     *)
Right(o, p) == Resolve(p) \in {ino[o], NoIno}
Led(f) == \A k \in 1..Len(f.paths) : Right(f.objs[k], f.paths[k])
Blame(t) == blame' = IF Led(fr[t]) THEN blame ELSE blame \cup {"path"}

-----------------------------------------------------------------------------
(* The kernel.  It locks the directories it changes, and the inodes whose  *)
(* entries it changes; it shares the lock of a directory between lookups   *)
(* and listings.  A cached entry is looked up again (d_revalidate) with no *)
(* lock, and so are requests on one inode.  One rename from a directory to *)
(* another is under way at a time.                                         *)

Child(o, m) == children[o][m]
LocksOf(op, objs, names) ==
  CASE op = "Make" -> {objs[1]}
    [] op = "Link" -> {objs[1], objs[2]}
    [] op = "Remove" -> {objs[1], Child(objs[1], names[1])} \ {Nil}
    [] op = "Rename" -> (UNION {{objs[k], Child(objs[k], names[k])} : k \in 1..2}) \ {Nil}
    [] OTHER -> {}
Shared(f) == IF f.op \in {"Lookup", "ReadPlus"} THEN {Dir(f)} ELSE {}
Across(f) == f.op = "Rename" /\ f.objs[1] # f.objs[2]
Compatible(f, g) ==
  /\ f.locks \cap (g.locks \cup Shared(g)) = {}
  /\ Shared(f) \cap g.locks = {}
  /\ ~(Across(f) /\ Across(g))
Race(f, g) == f.op = "Revalidate" /\ Dir(f) \in g.locks

Begin(f) == [f EXCEPT !.at = Target(f), !.seen = {PathIn(parents, Target(f))}]

Send(t, l, f) ==
  /\ pc[t] = "idle" /\ f.op \in Ops /\ issued < MaxRequests
  /\ \A k \in 1..Len(f.objs) : f.objs[k] \in alloc
  /\ \A u \in Thread \ {t} : Compatible(f, fr[u])
  /\ issued' = issued + 1
  /\ pc' = [pc EXCEPT ![t] = l]
  /\ fr' = [u \in Thread |->
       IF u = t THEN [f EXCEPT !.calm = @ /\ \A v \in Thread \ {t} : fr[v].op \notin Changes]
       ELSE [fr[u] EXCEPT !.calm = @ /\ (f.op \in Changes => pc[u] = "idle")]]
  /\ blame' = IF \E u \in Thread \ {t} : Race(f, fr[u]) \/ Race(fr[u], f)
              THEN blame \cup {"race"} ELSE blame
  /\ handle' = [handle EXCEPT !.calm = @ /\ (f.op \in Changes => handle = NoHandle)]
  /\ UNCHANGED <<treeVars, fs, missed>>

Ask(t, k, objs, names) ==
  Send(t, "walk", Begin([IdleFrame EXCEPT !.op = k, !.objs = objs, !.names = names,
                                          !.locks = LocksOf(k, objs, names)]))

SendEntry(t) == \E k \in EntryOps, e \in Entries : Ask(t, k, <<e[1]>>, <<e[2]>>)
SendRename(t) == \E mv \in Moves : Ask(t, "Rename", <<mv[1], mv[3]>>, <<mv[2], mv[4]>>)
SendLink(t) == \E l \in Links : Ask(t, "Link", <<l[1], l[2]>>, <<l[3]>>)
SendUse(t) == \E i \in Used : Ask(t, "Use", <<i>>, <<>>)
SendOpenDir(t) == \E i \in Listed :
  /\ handle = NoHandle /\ \A u \in Thread : fr[u].op # "OpenDir"
  /\ Ask(t, "OpenDir", <<i>>, <<>>)

(* fpathOf: the path of the open, unless it was the empty path, the root's. *)
SendReadPlus(t) ==
  LET f == [IdleFrame EXCEPT !.op = "ReadPlus", !.objs = <<handle.node>>]
  IN  /\ handle # NoHandle
      /\ IF handle.path = <<>>
         THEN Send(t, "walk", Begin(f))
         ELSE Send(t, "list", [f EXCEPT !.paths = <<handle.path>>, !.calm = handle.calm])

-----------------------------------------------------------------------------
(* pathOf.                                                                 *)

Go(t, l, f) ==
  /\ pc' = [pc EXCEPT ![t] = l]
  /\ fr' = [fr EXCEPT ![t] = f]
Finish(t) == Go(t, "idle", IdleFrame)

(* What a request does once it has its paths.                              *)
Then(op) == CASE op \in {"Lookup", "Revalidate"} -> "look"
              [] op = "OpenDir" -> "open"
              [] op = "ReadPlus" -> "list"
              [] OTHER -> "call"

(* One turn of the loop: the newest parent of the inode, under its mutex.  *)
Hop_nilToo(t) ==
  LET f == fr[t]
      pe == IF parents[f.at] = NoParents THEN T!EntryOf("", Nil) ELSE Newest(parents[f.at])
  IN  /\ pc[t] = "walk" /\ f.at \notin {RootObj, Nil} /\ Len(f.segs) < MaxDepth
      /\ Go(t, "walk", [f EXCEPT !.at = pe.node, !.segs = <<pe.name>> \o @])
      /\ UNCHANGED <<treeVars, fs, handle, issued, blame, missed>>
Hop(t) ==
  LET f == fr[t]
  IN  /\ pc[t] = "walk" /\ f.at \notin {RootObj, Nil} /\ Len(f.segs) < MaxDepth
      /\ IF parents[f.at] = NoParents
         THEN Go(t, "walk", [f EXCEPT !.at = Nil])
         ELSE LET pe == Newest(parents[f.at])
              IN  Go(t, "walk", [f EXCEPT !.at = pe.node, !.segs = <<pe.name>> \o @])
      /\ UNCHANGED <<treeVars, fs, handle, issued, blame, missed>>

(* The walk ends at the root, or at an inode that has no parent.  Rename   *)
(* and Link then walk from their second inode.                             *)
Found_partial(t) ==
  LET f == fr[t]
      g == [f EXCEPT !.paths = Append(@, f.segs),
                     !.at = Nil, !.segs = <<>>, !.seen = {}, !.moved = 0]
  IN  /\ pc[t] = "walk" /\ f.at \in {RootObj, Nil}
      /\ IF Len(g.paths) < Len(g.objs) THEN Go(t, "walk", Begin(g))
         ELSE Go(t, Then(f.op), g)
      /\ UNCHANGED <<treeVars, fs, handle, issued, blame, missed>>
Found(t) ==
  LET f == fr[t]
      g == [f EXCEPT !.paths = Append(@, IF f.at = RootObj THEN f.segs ELSE Orphan),
                     !.at = Nil, !.segs = <<>>, !.seen = {}, !.moved = 0]
  IN  /\ pc[t] = "walk" /\ f.at \in {RootObj, Nil}
      /\ IF Len(g.paths) < Len(g.objs) THEN Go(t, "walk", Begin(g))
         ELSE Go(t, Then(f.op), g)
      /\ UNCHANGED <<treeVars, fs, handle, issued, blame, missed>>

-----------------------------------------------------------------------------
(* The calls of the file system.                                           *)

Call(t, op) == pc[t] = "call" /\ fr[t].op = op

(* Any of them may fail, and so may Lsdir: the handler returns the status. *)
FsRefuses(t) ==
  /\ pc[t] \in {"call", "list"} /\ fr[t].op # "Use"
  /\ Finish(t) /\ Blame(t)
  /\ UNCHANGED <<treeVars, fs, handle, issued, missed>>

(* Access, Readlink, the extended attributes, StatFs, Open: whatever it    *)
(* answers, the bridge passes on.                                          *)
FsUse(t) ==
  /\ Call(t, "Use")
  /\ Finish(t) /\ Blame(t)
  /\ UNCHANGED <<treeVars, fs, handle, issued, missed>>

(* An entry for inode i, at the path of the frame.                         *)
FsPut(t, i) ==
  LET f == fr[t]
      d == Resolve(LastOf(f.paths))
  IN  /\ d \in DirIno /\ fs[d][f.names[1]] = NoIno
      /\ fs' = [fs EXCEPT ![d][f.names[1]] = i]
      /\ Go(t, "look", f) /\ Blame(t)
      /\ UNCHANGED <<treeVars, handle, issued>>

(* A new file may take the number of one that is gone, which the table may *)
(* still have.                                                             *)
FsMake(t) ==
  /\ Call(t, "Make")
  /\ \E i \in Ino :
       /\ ~IsLinked(i) /\ FsPut(t, i)
       /\ missed' = IF nodes[i] = Nil THEN missed ELSE missed \cup {"number"}
FsLink(t) ==
  LET i == Resolve(fr[t].paths[1])
  IN  Call(t, "Link") /\ i \in Ino \ DirIno /\ FsPut(t, i) /\ UNCHANGED missed

FsRemove(t) ==
  LET f == fr[t]
      d == Resolve(f.paths[1])
  IN  /\ Call(t, "Remove") /\ d \in DirIno
      /\ LET i == fs[d][f.names[1]] IN i # NoIno /\ (i \in DirIno => IsEmpty(i))
      /\ fs' = [fs EXCEPT ![d][f.names[1]] = NoIno]
      /\ Go(t, "apply", f) /\ Blame(t)
      /\ UNCHANGED <<treeVars, handle, issued, missed>>

FsRename(t) ==
  LET f == fr[t]
      d == Resolve(f.paths[1])
      e == Resolve(f.paths[2])
  IN  /\ Call(t, "Rename") /\ d \in DirIno /\ e \in DirIno
      /\ ~Below(Append(f.paths[1], f.names[1]), f.paths[2])
      /\ LET i == fs[d][f.names[1]]
             j == fs[e][f.names[2]]
         IN  /\ i # NoIno /\ i # j
             /\ j # NoIno => (i \in DirIno <=> j \in DirIno) /\ (j \in DirIno => IsEmpty(j))
             /\ fs' = [fs EXCEPT ![d][f.names[1]] = NoIno, ![e][f.names[2]] = i]
      /\ Go(t, "apply", f) /\ Blame(t)
      /\ UNCHANGED <<treeVars, handle, issued, missed>>

(* OpenDir calls nobody: it registers a handle with the path.              *)
Opened(t) ==
  /\ pc[t] = "open"
  /\ handle' = [node |-> fr[t].objs[1], path |-> fr[t].paths[1], calm |-> fr[t].calm]
  /\ Finish(t)
  /\ UNCHANGED <<treeVars, fs, issued, blame, missed>>

-----------------------------------------------------------------------------
(* b.lookup, and what it or its caller does to the tree.                   *)

(* ReadDirPlus goes on to the next entry; the others are done.             *)
NextFrame(f, m) == [f EXCEPT !.names = <<m>>, !.todo = @ \ {m}, !.cino = NoIno]
Nexts(f) == IF f.todo = {} THEN {IdleFrame} ELSE {NextFrame(f, m) : m \in f.todo}

(* Lsdir, in any order.                                                    *)
List(t) ==
  LET f == fr[t]
      d == Resolve(f.paths[1])
      found == IF d \in DirIno THEN {m \in Name : fs[d][m] # NoIno} ELSE {}
  IN  /\ pc[t] = "list"
      /\ \E g \in Nexts([f EXCEPT !.todo = found]) :
           Go(t, IF g.op = "none" THEN "idle" ELSE "look", g)
      /\ Blame(t)
      /\ UNCHANGED <<treeVars, fs, handle, issued, missed>>

(* GetAttr.  It fails where there is nothing, and may fail anywhere else   *)
(* (an error, a cancelled request): Lookup then removes the entry from the *)
(* tree, be it in the file system or not; Make and Link return without     *)
(* addChild, ReadDirPlus skips the entry.                                  *)
Answers(f) == {Resolve(Append(LastOf(f.paths), f.names[1])), NoIno}
Misses(f, i) ==
  i = NoIno /\ f.op # "ReadPlus" /\ NextIn(fs, ino[Dir(f)], f.names[1]) # NoIno
Look(t) ==
  LET f == fr[t]
  IN  /\ pc[t] = "look"
      /\ \E i \in Answers(f) :
           /\ IF i # NoIno \/ f.op \in {"Lookup", "Revalidate"}
              THEN Go(t, "apply", [f EXCEPT !.cino = i])
              ELSE \E g \in Nexts(f) : Go(t, IF g.op = "none" THEN "idle" ELSE "look", g)
           /\ missed' = IF Misses(f, i) THEN missed \cup {"lookup"} ELSE missed
      /\ Blame(t)
      /\ UNCHANGED <<treeVars, fs, handle, issued>>

(* The tree has changed: goroutines that are walking note it.              *)
Noted(f) ==
  [f EXCEPT !.seen = @ \cup {PathIn(parents', Target(f))},
            !.moved = IF @ < 2 THEN @ + 1 ELSE @]
Changed(t) ==
  /\ \E g \in Nexts(fr[t]) :
       /\ pc' = [pc EXCEPT ![t] = IF g.op = "none" THEN "idle" ELSE "look"]
       /\ fr' = [u \in Thread |->
            IF u = t THEN g
            ELSE IF pc[u] = "walk" /\ parents' # parents THEN Noted(fr[u])
            ELSE fr[u]]
  /\ UNCHANGED <<fs, handle, issued, blame, missed>>

AddChild(t) ==
  /\ pc[t] = "apply" /\ fr[t].cino # NoIno
  /\ T!Add(Dir(fr[t]), fr[t].names[1], fr[t].cino)
  /\ Changed(t)

RmChild(t) ==
  /\ pc[t] = "apply" /\ fr[t].cino = NoIno /\ fr[t].op # "Rename"
  /\ \/ T!Remove(Dir(fr[t]), fr[t].names[1])
     \/ children[Dir(fr[t])][fr[t].names[1]] = Nil /\ UNCHANGED treeVars
  /\ Changed(t)

MvChild(t) ==
  LET f == fr[t]
  IN  /\ pc[t] = "apply" /\ f.op = "Rename"
      /\ T!Move(f.objs[1], f.names[1], f.objs[2], f.names[2])
      /\ Changed(t)

-----------------------------------------------------------------------------
(* The kernel has looked everything up that the file system starts with.   *)
Init ==
  /\ fs = StartFs
  /\ alloc = {i \in Ino : IsLinked(i)}
  /\ ino = [o \in Obj |-> IF o \in alloc THEN o ELSE RootIno]
  /\ lookupCount = [o \in Obj |-> IF o \in alloc THEN 1 ELSE 0]
  /\ nodes = [i \in Ino |-> IF i \in alloc THEN i ELSE Nil]
  /\ children = [o \in Obj |-> [m \in Name |-> IF o \in DirIno THEN fs[o][m] ELSE Nil]]
  /\ parents = [o \in Obj |->
       IF o \notin alloc \ {RootObj} THEN NoParents
       ELSE LET e == CHOOSE e \in DirIno \X Name : fs[e[1]][e[2]] = o
            IN  <<T!EntryOf(e[2], e[1])>>]
  /\ handle = NoHandle
  /\ pc = [t \in Thread |-> "idle"]
  /\ fr = [t \in Thread |-> IdleFrame]
  /\ issued = 0
  /\ blame = {} /\ missed = {}

Kernel(t) ==
  \/ SendEntry(t) \/ SendRename(t) \/ SendLink(t) \/ SendUse(t) \/ SendOpenDir(t)
  \/ SendReadPlus(t)
FileSystem(t) ==
  \/ FsRefuses(t) \/ FsUse(t) \/ FsMake(t) \/ FsLink(t) \/ FsRemove(t) \/ FsRename(t)
Bridge(t) ==
  \/ Hop(t) \/ Found(t) \/ Opened(t) \/ List(t) \/ Look(t)
  \/ AddChild(t) \/ RmChild(t) \/ MvChild(t)

Next == \E t \in Thread : Kernel(t) \/ FileSystem(t) \/ Bridge(t)
Spec == Init /\ [][Next]_vars
-----------------------------------------------------------------------------
(* Properties.                                                             *)

PathSet == {<<>>, Orphan} \cup UNION {[1..n -> Name] : n \in 1..MaxDepth}

(* Every variable has its type; a path is made of names, or is the one     *)
(* that pathOf makes up (file.go:28-63).                                   *)
TypeOK ==
  /\ alloc \subseteq Obj /\ ino \in [Obj -> Ino] /\ lookupCount \in [Obj -> Nat]
  /\ \A o \in Obj : \A k \in 1..Len(parents[o]) :
       parents[o][k] \in [name : Name, node : Obj]
  /\ children \in [Obj -> [Name -> Obj \cup {Nil}]]
  /\ nodes \in [Ino -> Obj \cup {Nil}]
  /\ fs \in [DirIno -> [Name -> Ino \cup {NoIno}]]
  /\ handle \in [node : Obj \cup {Nil}, path : PathSet, calm : BOOLEAN]
  /\ pc \in [Thread -> Label]
  /\ \A t \in Thread :
       /\ \A k \in 1..Len(fr[t].paths) : fr[t].paths[k] \in PathSet
       /\ fr[t].segs \in PathSet /\ fr[t].at \in Obj \cup {Nil}
       /\ fr[t].seen \subseteq PathSet /\ fr[t].moved \in 0..2
       /\ fr[t].todo \subseteq Name /\ fr[t].cino \in Ino \cup {NoIno}
  /\ issued \in 0..MaxRequests
  /\ blame \subseteq {"path", "race"} /\ missed \subseteq {"lookup", "number"}

Busy(o) == \E t \in Thread : o \in fr[t].locks

(* Every parent that an inode remembers is a place where the file system   *)
(* has it, so any of them is good for a path: whatever was moved,          *)
(* replaced, linked or removed in between, addChild, rmChild and mvChild   *)
(* leave no stale parent behind (inode.go:105-303) - as long as no call of *)
(* the file system went astray, and no cached entry was looked up while    *)
(* its directory changed.                                                  *)
TrueParents ==
  blame = {} =>
    \A o \in Obj : \A k \in 1..Len(parents[o]) :
      LET e == parents[o][k]
      IN  Busy(e.node) \/ fs[ino[e.node]][e.name] = ino[o]

(* Only an inode that the file system has no more may have no path - or    *)
(* any, once the tree has missed some of what is there.                    *)
Pathless(i) == IsLinked(i) => missed # {}
LedTo(o, p) == Resolve(p) = ino[o] \/ (p = Orphan /\ Pathless(ino[o]))

(* A request that no rename and no removal overlaps calls the file system  *)
(* with paths that lead to its inodes, on a handle also if none came since *)
(* the directory was opened (file.go:29-70).  Lookups, listings, links and *)
(* new files do not disturb it.  Even after a lookup of an existing entry  *)
(* has failed, which takes the entry out of the tree (bridge.go:128-130),  *)
(* no path leads to another inode: it is right, or the orphan's.           *)
CalmIsLed ==
  blame = {} =>
    \A t \in Thread :
      pc[t] \in {"call", "look", "list"} /\ fr[t].calm =>
        \A k \in 1..Len(fr[t].paths) : LedTo(fr[t].objs[k], fr[t].paths[k])

(* pathOf looks like one look at the tree if the tree changes at most once *)
(* while it walks: what it returns is a path that the inode had at some    *)
(* moment of the walk (file.go:36-44).                                     *)
WalkRegular ==
  [][blame = {} =>
       \A t \in Thread :
         Len(fr'[t].paths) > Len(fr[t].paths) /\ pc[t] = "walk" /\ fr[t].moved <= 1
           => LastOf(fr'[t].paths) \in fr[t].seen]_vars

-----------------------------------------------------------------------------
(* What TrueParents rests on.                                              *)

Segment == Name \cup {"orphaned"}

(* The table knows each inode by its number, and all of them.              *)
TableOK ==
  /\ alloc \subseteq Obj /\ ino \in [Obj -> Ino] /\ nodes \in [Ino -> alloc \cup {Nil}]
  /\ lookupCount \in [Obj -> Nat]
  /\ fs \in [DirIno -> [Name -> Ino \cup {NoIno}]]
  /\ children \in [Obj -> [Name -> alloc \cup {Nil}]]
  /\ parents \in [Obj -> Seq([name : Name, node : alloc])]
  /\ \A o \in alloc : nodes[ino[o]] = o
  /\ \A i \in Ino : nodes[i] # Nil => ino[nodes[i]] = i
  /\ \A o \in Obj : \A j, k \in 1..Len(parents[o]) : parents[o][j] = parents[o][k] => j = k
  /\ \A o \in Obj \ alloc : parents[o] = <<>> /\ \A m \in Name : children[o][m] = Nil

(* Where a request is, and what it has in its frame by then; objs are some *)
(* of the inodes that have been allocated.                                 *)
Adders == {"Lookup", "Revalidate", "Make", "Link", "ReadPlus"}
OpsAt(l) ==
  CASE l = "idle" -> {"none"}
    [] l = "walk" -> Adders \cup Changes \cup {"Use", "OpenDir"}
    [] l = "call" -> {"Make", "Link", "Use"} \cup Changes
    [] l = "look" -> Adders
    [] l = "apply" -> Adders \cup Changes
    [] l = "open" -> {"OpenDir"}
    [] l = "list" -> {"ReadPlus"}
FrameOK(objects, l, f) ==
  /\ DOMAIN f = DOMAIN IdleFrame /\ f.op \in OpsAt(l)
  /\ f.objs \in Seq(objects) /\ f.names \in Seq(Name) /\ f.paths \in Seq(Seq(Segment))
  /\ f.at \in objects \cup {Nil} /\ f.segs \in Seq(Segment)
  /\ f.todo \subseteq Name /\ f.cino \in Ino \cup {NoIno}
  /\ l = "idle" => f = IdleFrame
  /\ l # "idle" => Len(f.objs) = IF f.op \in {"Rename", "Link"} THEN 2 ELSE 1
  /\ l = "walk" => Len(f.paths) < Len(f.objs)
  /\ l \notin {"idle", "walk"} => Len(f.paths) = Len(f.objs)
  /\ f.op = "Rename" => Len(f.names) = 2
  /\ f.op \in EntryOps \cup {"Link"} => Len(f.names) = 1
  /\ f.op = "ReadPlus" /\ l \in {"look", "apply"} => Len(f.names) = 1
  /\ f.op # "ReadPlus" => f.todo = {}
  /\ f.op \in Changes => f.cino = NoIno /\ \A k \in 1..Len(f.names) : f.objs[k] \in f.locks
  /\ f.op \in {"Make", "Link"} => Dir(f) \in f.locks
FramesOK ==
  /\ pc \in [Thread -> Label] /\ DOMAIN fr = Thread
  /\ DOMAIN handle = DOMAIN NoHandle /\ handle.path \in Seq(Segment)
  /\ \A t \in Thread : FrameOK(alloc, pc[t], fr[t])
  /\ \A t, u \in Thread : t # u => Compatible(fr[t], fr[u])
  /\ blame = {} => \A t, u \in Thread : t # u => ~Race(fr[t], fr[u])

(* Both sides of the tree have the same entries, and the file system has   *)
(* them too - but for those that a request has removed or renamed there    *)
(* and not yet here.                                                       *)
Undoing(t, e) ==
  /\ pc[t] = "apply" /\ fr[t].op \in Changes
  /\ \E k \in 1..Len(fr[t].names) : fr[t].objs[k] = e.node /\ fr[t].names[k] = e.name
EntriesTrue ==
  /\ \A o \in Obj : \A k \in 1..Len(parents[o]) :
       LET e == parents[o][k]
       IN  /\ children[e.node][e.name] = o /\ ino[e.node] \in DirIno
           /\ fs[ino[e.node]][e.name] = ino[o] \/ \E t \in Thread : Undoing(t, e)
  /\ \A p \in Obj, m \in Name : children[p][m] # Nil =>
       \E k \in 1..Len(parents[children[p][m]]) :
         parents[children[p][m]][k] = T!EntryOf(m, p)

(* What a request is about to write into the tree is so in the file system. *)
Writing(t) ==
  LET f == fr[t]
  IN  /\ f.cino # NoIno => /\ ino[Dir(f)] \in DirIno
                           /\ fs[ino[Dir(f)]][f.names[1]] = f.cino
      /\ f.op = "Rename" =>
           /\ ino[f.objs[2]] \in DirIno
           /\ <<f.objs[1], f.names[1]>> # <<f.objs[2], f.names[2]>>
           /\ LET c == children[f.objs[1]][f.names[1]]
              IN  c # Nil => fs[ino[f.objs[2]]][f.names[2]] = ino[c]
WritesTrue == \A t \in Thread : pc[t] = "apply" => Writing(t)

(* The inductive invariant behind TrueParents: the locks of the kernel     *)
(* keep what a request learned of its directories true until it has        *)
(* written it into the tree (bridge.go:248-364, 446-465).                  *)
WalkInv == TableOK /\ FramesOK /\ (blame = {} => EntriesTrue /\ WritesTrue)

-----------------------------------------------------------------------------
(* What CalmIsLed rests on.                                                *)

(* Entry m of directory d is in the tree, or a request that has made,      *)
(* linked or renamed it is about to bring it.                              *)
HasEntry(d, m) ==
  \E p \in alloc :
    ino[p] = d /\ children[p][m] # Nil /\ ino[children[p][m]] = fs[d][m]
Bringing(t, d, m) ==
  LET f == fr[t]
  IN  \/ /\ pc[t] \in {"look", "apply"} /\ ino[Dir(f)] = d /\ f.names[1] = m
         /\ \/ f.op = "Make" /\ nodes[fs[d][m]] = Nil
            \/ f.op = "Link" /\ ino[f.objs[1]] = fs[d][m]
      \/ /\ pc[t] = "apply" /\ f.op = "Rename" /\ ino[f.objs[2]] = d /\ f.names[2] = m
         /\ children[f.objs[1]][f.names[1]] # Nil
         /\ ino[children[f.objs[1]][f.names[1]]] = fs[d][m]

(* The tree knows the file system: what is linked there, it has, and knows *)
(* how to reach; only what is not linked may have no parent.               *)
RootKnown == RootObj \in alloc /\ ino[RootObj] = RootIno
DirsKnown == \A d \in DirIno : IsLinked(d) \/ IsEmpty(d)
EntriesKnown ==
  \A d \in DirIno, m \in Name : fs[d][m] # NoIno =>
    /\ HasEntry(d, m) \/ \E t \in Thread : Bringing(t, d, m)
    /\ nodes[fs[d][m]] = Nil =>
         \A e \in DirIno, n \in Name : fs[e][n] = fs[d][m] => e = d /\ n = m
ParentsKnown ==
  \A o \in alloc \ {RootObj} : IsLinked(ino[o]) => parents[o] # NoParents

(* What a request is about to take away is gone in the file system; the    *)
(* kernel has locked the inodes whose entries it changes.                  *)
Taking(t) ==
  LET f == fr[t]
  IN  /\ pc[t] = "apply" /\ f.cino = NoIno =>
           /\ f.op \in {"Lookup", "Revalidate"} \cup Changes
           /\ NextIn(fs, ino[f.objs[1]], f.names[1]) = NoIno
           /\ f.op = "Rename" => children[f.objs[1]][f.names[1]] # Nil
      /\ f.op \in Changes => \A k \in 1..Len(f.names) :
           children[f.objs[k]][f.names[k]] \in f.locks \cup {Nil}
      /\ f.op = "Link" => f.objs[1] \in f.locks
TreeKnows == DirsKnown /\ EntriesKnown /\ ParentsKnown /\ \A t \in Thread : Taking(t)

(* What leads to an inode now, leads there until something is renamed or   *)
(* removed: the names collected so far lead on from where the walk is.     *)
CalmFrame(t) ==
  LET f == fr[t]
  IN  /\ \A u \in Thread \ {t} : fr[u].op \notin Changes
      /\ ~(pc[t] = "apply" /\ f.op \in Changes) =>
           \A k \in 1..Len(f.paths) : LedTo(f.objs[k], f.paths[k])
      /\ pc[t] = "walk" =>
           IF f.at = Nil THEN Pathless(ino[Target(f)])
           ELSE Reach(fs, ino[f.at], f.segs) = ino[Target(f)]
CalmHandle ==
  handle # NoHandle /\ handle.calm =>
    /\ handle.node \in alloc /\ LedTo(handle.node, handle.path)
    /\ \A t \in Thread : fr[t].op \notin Changes
CalmLeads ==
  CalmHandle /\ \A t \in Thread : pc[t] # "idle" /\ fr[t].calm => CalmFrame(t)

(* The inductive invariant behind CalmIsLed: while nothing is renamed or   *)
(* removed, entries only come, and a path that leads to an inode goes on   *)
(* leading there (file.go:28-70); an inode without a parent has no path,   *)
(* unless the tree has missed an entry.                                    *)
CalmInv ==
  /\ WalkInv /\ RootKnown
  /\ blame = {} => CalmLeads /\ (missed = {} => TreeKnows)

-----------------------------------------------------------------------------
(* "path returns a path string to the inode" (file.go:28): to be that, the *)
(* string must have been a path of the inode at some moment of the walk.   *)
PathExisted ==
  [][\A t \in Thread :
       Len(fr'[t].paths) > Len(fr[t].paths) /\ pc[t] = "walk"
         => LastOf(fr'[t].paths) \in fr[t].seen]_vars
=============================================================================
