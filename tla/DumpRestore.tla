---------------------------- MODULE DumpRestore ----------------------------
(***************************************************************************)
(* Handing the bridge over to a new process: Dump and its iterator in the  *)
(* old one, Restore, AddInode and Finished in the new one (dump.go,        *)
(* bridge.go:705-746).  The dump takes no mutex: requests may still change *)
(* the tree between NodeCount, the copy of the table and each Next.  What  *)
(* reaches AddInode is up to whoever carries the records: any order, some  *)
(* of them lost, some of them twice.                                       *)
(*                                                                         *)
(* Files and their free list are copied as they are, and left out here, as *)
(* are revisions.  An object of the new process is known by its number:    *)
(* the restorer makes one for each.                                        *)
(***************************************************************************)
EXTENDS ParentOrder, FiniteSets, SequencesExt

CONSTANTS
  Obj, Ino, Name, RootObj, RootIno,
  DirIno,   \* the numbers that may belong to a directory, or to a file
  MaxOps,   \* bound: operations on the tree
  MaxFeeds  \* bound: calls of AddInode

Nil == 0
NoIno == 0

ASSUME TreeAssumption ==
  /\ IsFiniteSet(Obj) /\ RootObj \in Obj /\ Nil \notin Obj
  /\ IsFiniteSet(Ino) /\ Ino \subseteq Nat \ {0} /\ RootIno \in DirIno /\ DirIno \subseteq Ino
  /\ IsFiniteSet(Name)
ASSUME BoundAssumption == MaxOps \in Nat /\ MaxFeeds \in Nat

VARIABLES
  alloc, ino, lookupCount, parents, children, nodes,   \* the tree
  dirs,       \* the objects that are directories (children is not nil)
  ops,        \* operations so far
  phase,      \* "run", "counted", "dump", "restore", "end"
  nodeCount,  \* DumpRawBridge.NodeCount
  inodes,     \* InodeDumper.inodes: the objects still to be dumped
  dumped,     \* the records the iterator gave
  quiet,      \* history: nothing changed the tree since Dump was called
  new,        \* the new process: b.nodes and the fields of its inodes
  added,      \* InodeRestorer.addNodeCount
  fed,        \* history: the records AddInode was called with
  status      \* what Finished returned, or the panic of AddInode

treeVars == <<alloc, ino, lookupCount, parents, children, nodes, dirs>>
dumpVars == <<nodeCount, inodes, dumped>>
restoreVars == <<new, added, fed, status>>
vars == <<treeVars, ops, phase, dumpVars, quiet, restoreVars>>

T == INSTANCE AtomicTree

-----------------------------------------------------------------------------
(* The old process: requests, while it runs and while it is dumped.        *)

Table == {nodes[i] : i \in Ino} \ {Nil}
InTable(o) == o \in alloc /\ nodes[ino[o]] = o

Operate ==
  /\ phase \in {"run", "counted", "dump"} /\ ops < MaxOps
  /\ ops' = ops + 1
  /\ quiet' = (phase = "run")
  /\ UNCHANGED <<phase, dumpVars, restoreVars>>

(* A new object is a directory if the file system says so.                 *)
AddChild(p, m, i) ==
  /\ Operate /\ InTable(p) /\ p \in dirs /\ i # RootIno /\ i # ino[p]
  /\ T!Add(p, m, i)
  /\ \E d \in SUBSET (alloc' \ alloc) :
       /\ d # {} => i \in DirIno
       /\ dirs' = dirs \cup d
RmChild(p, m) == Operate /\ InTable(p) /\ T!Remove(p, m) /\ UNCHANGED dirs
MvChild(p, m, q, k) ==
  /\ Operate /\ InTable(p) /\ InTable(q) /\ q \in dirs /\ children[p][m] \notin {Nil, q}
  /\ T!Move(p, m, q, k) /\ UNCHANGED dirs
Forget(o, n) ==
  /\ Operate /\ InTable(o) /\ o # RootObj
  /\ n > 0 \/ ~T!Live(o, lookupCount, children)
  /\ T!Forget(o, n) /\ UNCHANGED dirs
Detach(o) == Operate /\ T!Detach(o) /\ parents[o] # NoParents /\ UNCHANGED dirs

-----------------------------------------------------------------------------
(* Dump: NodeCount locks b.mu for itself; the copy of the table does not.  *)

Dump ==
  /\ phase = "run"
  /\ phase' = "counted"
  /\ nodeCount' = Cardinality({i \in Ino : nodes[i] # Nil})
  /\ UNCHANGED <<treeVars, ops, inodes, dumped, quiet, restoreVars>>

NewInodeDumper ==
  /\ phase = "counted"
  /\ phase' = "dump"
  /\ inodes' = Table
  /\ UNCHANGED <<treeVars, ops, nodeCount, dumped, quiet, restoreVars>>

(* The record of o: its parents by number, the newest last.                *)
Record_reversed(o) ==
  [ino |-> ino[o], count |-> lookupCount[o], isDir |-> o \in dirs,
   parents |-> [k \in 1..Len(parents[o]) |->
     LET e == parents[o][Len(parents[o]) + 1 - k]
     IN  T!EntryOf(e.name, ino[e.node])]]
Record(o) ==
  [ino |-> ino[o], count |-> lookupCount[o], isDir |-> o \in dirs,
   parents |-> [k \in 1..Len(parents[o]) |->
     LET e == parents[o][k] IN T!EntryOf(e.name, ino[e.node])]]

NextInode(o) ==
  /\ phase = "dump" /\ o \in inodes
  /\ inodes' = inodes \ {o}
  /\ dumped' = dumped \cup {Record(o)}
  /\ UNCHANGED <<treeVars, ops, phase, nodeCount, quiet, restoreVars>>

Restore ==
  /\ phase = "dump" /\ inodes = {}
  /\ phase' = "restore"
  /\ UNCHANGED <<treeVars, ops, dumpVars, quiet, restoreVars>>

-----------------------------------------------------------------------------
(* The new process.                                                        *)

Empty ==
  [nodes |-> {}, dirs |-> {}, count |-> [i \in Ino |-> 0],
   parents |-> [i \in Ino |-> NoParents],
   children |-> [i \in Ino |-> [m \in Name |-> NoIno]]]

ParentsOf(r) == {r.parents[k].node : k \in 1..Len(r.parents)}

(* getDirInode makes the directories that parents name and nobody knows.   *)
DirsWith(r) ==
  new.dirs \cup (IF r.isDir THEN {r.ino} ELSE {})
           \cup (ParentsOf(r) \ (new.nodes \cup {r.ino}))

(* The fields of the record, and its entries in the parents' children.     *)
With_unlisted(r) ==
  [nodes |-> new.nodes \cup {r.ino},
   dirs |-> DirsWith(r),
   count |-> [new.count EXCEPT ![r.ino] = r.count],
   parents |-> [new.parents EXCEPT ![r.ino] = FoldLeft(AddParent, @, r.parents)],
   children |-> [d \in Ino |-> [m \in Name |->
     IF \E k \in 1..Len(r.parents) : r.parents[k] = T!EntryOf(m, d)
     THEN r.ino ELSE new.children[d][m]]]]
With_unknown(r) ==
  [nodes |-> new.nodes \cup {r.ino} \cup ParentsOf(r),
   dirs |-> DirsWith(r),
   count |-> [new.count EXCEPT ![r.ino] = r.count],
   parents |-> new.parents,
   children |-> [d \in Ino |-> [m \in Name |->
     IF \E k \in 1..Len(r.parents) : r.parents[k] = T!EntryOf(m, d)
     THEN r.ino ELSE new.children[d][m]]]]
With(r) ==
  [nodes |-> new.nodes \cup {r.ino} \cup ParentsOf(r),
   dirs |-> DirsWith(r),
   count |-> [new.count EXCEPT ![r.ino] = r.count],
   parents |-> [new.parents EXCEPT ![r.ino] = FoldLeft(AddParent, @, r.parents)],
   children |-> [d \in Ino |-> [m \in Name |->
     IF \E k \in 1..Len(r.parents) : r.parents[k] = T!EntryOf(m, d)
     THEN r.ino ELSE new.children[d][m]]]]

AddInode(r) ==
  /\ phase = "restore" /\ added < MaxFeeds
  /\ r \in dumped /\ ParentsOf(r) \subseteq DirsWith(r)
  /\ new' = With(r)
  /\ added' = added + 1
  /\ fed' = fed \cup {r}
  /\ UNCHANGED <<treeVars, ops, phase, dumpVars, quiet, status>>

(* A parent that is known as a file has no map for its children.           *)
AddInodePanics(r) ==
  /\ phase = "restore" /\ added < MaxFeeds
  /\ r \in dumped /\ ~(ParentsOf(r) \subseteq DirsWith(r))
  /\ phase' = "end" /\ status' = "panic"
  /\ UNCHANGED <<treeVars, ops, dumpVars, quiet, new, added, fed>>

IsShort_byOne == added + 1 < nodeCount
IsShort == added < nodeCount

Finished ==
  /\ phase = "restore"
  /\ phase' = "end"
  /\ status' = IF RootIno \notin new.nodes THEN "no root"
               ELSE IF IsShort THEN "lost" ELSE "ok"
  /\ UNCHANGED <<treeVars, ops, dumpVars, quiet, new, added, fed>>

-----------------------------------------------------------------------------
Init ==
  /\ T!Init
  /\ dirs = {RootObj} /\ ops = 0 /\ phase = "run"
  /\ nodeCount = 0 /\ inodes = {} /\ dumped = {} /\ quiet = TRUE
  /\ new = Empty /\ added = 0 /\ fed = {} /\ status = "none"

Request ==
  \/ \E p \in Obj, m \in Name, i \in Ino : AddChild(p, m, i)
  \/ \E p \in Obj, m \in Name : RmChild(p, m)
  \/ \E p, q \in Obj, m, k \in Name : MvChild(p, m, q, k)
  \/ \E o \in Obj : \E n \in 0..lookupCount[o] : Forget(o, n)
  \/ \E o \in Obj : Detach(o)

Next ==
  \/ Request
  \/ Dump \/ NewInodeDumper \/ Restore \/ Finished
  \/ \E o \in Obj : NextInode(o)
  \/ \E r \in dumped : AddInode(r) \/ AddInodePanics(r)

Spec == Init /\ [][Next]_vars

-----------------------------------------------------------------------------
(* Properties.                                                             *)

(* The tree can be told from its records: every entry is known on both     *)
(* sides, every inode it leads to is in the table.                         *)
Exact ==
  /\ \A o \in alloc : InTable(o) => \A k \in 1..Len(parents[o]) :
       LET e == parents[o][k] IN InTable(e.node) /\ children[e.node][e.name] = o
  /\ \A o \in alloc, m \in Name : InTable(o) =>
       LET c == children[o][m]
       IN  c # Nil => InTable(c) /\ \E k \in 1..Len(parents[c]) :
                                      parents[c][k] = T!EntryOf(m, o)

(* No removeRef is due or half done: nothing dead is in the table, nothing *)
(* in it leads to what has left it.                                        *)
Settled == \A o \in alloc : InTable(o) =>
  /\ T!Live(o, lookupCount, children)
  /\ \A m \in Name : children[o][m] # Nil => InTable(children[o][m])

(* Every variable has its type; a restored inode that has entries is a     *)
(* directory, and is in the table (dump.go:98-112).                        *)
TypeOK ==
  /\ phase \in {"run", "counted", "dump", "restore", "end"}
  /\ status \in {"none", "ok", "lost", "no root", "panic"}
  /\ nodeCount \in Nat /\ added \in 0..MaxFeeds /\ ops \in 0..MaxOps
  /\ dirs \subseteq alloc /\ inodes \subseteq alloc /\ fed \subseteq dumped
  /\ new.dirs \subseteq new.nodes /\ new.nodes \subseteq Ino
  /\ \A d \in Ino : \A m \in Name : new.children[d][m] # NoIno => d \in new.dirs

(* A tree that was quiet and exact when it was dumped comes back the same  *)
(* once every record was added, in whatever order: the same inodes, lookup *)
(* counts, kinds and entries, and the same parents with the same newest    *)
(* one (dump.go:69-143).  AddInode does not panic on the way.              *)
RestoredSame ==
  quiet /\ Exact =>
    /\ status # "panic"
    /\ status = "ok" /\ fed = dumped =>
         /\ new.nodes = {i \in Ino : nodes[i] # Nil}
         /\ \A i \in new.nodes :
              LET o == nodes[i]
              IN  /\ new.count[i] = lookupCount[o]
                  /\ i \in new.dirs <=> o \in dirs
                  /\ new.parents[i] = [k \in 1..Len(parents[o]) |->
                       T!EntryOf(parents[o][k].name, ino[parents[o][k].node])]
                  /\ \A m \in Name : new.children[i][m] =
                       IF children[o][m] = Nil THEN NoIno ELSE ino[children[o][m]]

(* Finished tells whether records were lost, unless one was added twice,   *)
(* which its count does not see (dump.go:140, 155): it returns no error    *)
(* exactly if all were added.                                              *)
FinishedTells ==
  quiet /\ status \in {"ok", "lost", "no root"} /\ added = Cardinality(fed) =>
    (status = "ok" <=> fed = dumped)

(* Whatever was lost, repeated or out of date in the dump, the restored    *)
(* tree is one its operations can work on: an entry is known to the inode  *)
(* it leads to, and - if nothing was lost or pending - no inode is in the  *)
(* table that no lookup and no entry keeps there: the invariants that      *)
(* inode.go starts from.                                                   *)
RestoredSound ==
  /\ \A d \in new.nodes, m \in Name :
       LET c == new.children[d][m]
       IN  c # NoIno => c \in new.nodes /\ \E k \in 1..Len(new.parents[c]) :
                                             new.parents[c][k] = T!EntryOf(m, d)
  /\ quiet /\ Settled /\ status = "ok" /\ fed = dumped =>
       \A i \in new.nodes : T!Live(i, new.count, new.children)

-----------------------------------------------------------------------------
(* What they rest on.                                                      *)

Parent(n) == [name : Name, node : n]
RecordSet == [ino : Ino, count : Nat, isDir : BOOLEAN, parents : Seq(Parent(Ino))]

(* The old tree: an entry is a directory's, and known to its inode.        *)
TreeOK ==
  /\ alloc \subseteq Obj /\ ino \in [Obj -> Ino] /\ lookupCount \in [Obj -> Nat]
  /\ nodes \in [Ino -> alloc \cup {Nil}] /\ nodes[RootIno] = RootObj
  /\ \A i \in Ino : nodes[i] # Nil => ino[nodes[i]] = i
  /\ parents \in [Obj -> Seq(Parent(alloc))] /\ \A o \in Obj : IsInjective(parents[o])
  /\ children \in [Obj -> [Name -> alloc \cup {Nil}]]
  /\ \A o \in Obj, m \in Name : children[o][m] # Nil =>
       o \in dirs /\ Contains(parents[children[o][m]], T!EntryOf(m, o))

(* What there is in each phase, and what the answer of Finished was about. *)
PhasesOK ==
  /\ (status = "none") = (phase # "end")
  /\ phase \in {"run", "counted", "dump"} => new = Empty /\ added = 0 /\ fed = {}
  /\ phase \in {"run", "counted"} => inodes = {} /\ dumped = {}
  /\ phase = "run" => quiet
  /\ phase \in {"restore", "end"} => inodes = {}
  /\ status \in {"ok", "lost"} => RootIno \in new.nodes
  /\ status = "no root" => RootIno \notin new.nodes
  /\ status = "ok" => added >= nodeCount
  /\ status = "lost" => added < nodeCount

(* While nothing changes the tree, the count and the records are its own.  *)
DumpOK ==
  /\ dumped \subseteq RecordSet
  /\ quiet /\ phase # "run" =>
       /\ nodeCount = Cardinality({i \in Ino : nodes[i] # Nil})
       /\ inodes \subseteq Table
       /\ phase # "counted" => dumped = {Record(o) : o \in Table \ inodes}

(* The new tree: an entry is a directory's, and known to its inode; and    *)
(* there is what the records so far have asked for.                        *)
RestoredOK ==
  /\ new \in [nodes : SUBSET Ino, dirs : SUBSET Ino, count : [Ino -> Nat],
              parents : [Ino -> Seq(Parent(Ino))],
              children : [Ino -> [Name -> Ino \cup {NoIno}]]]
  /\ \A i \in Ino : IsInjective(new.parents[i])
  /\ new.nodes = {r.ino : r \in fed} \cup UNION {ParentsOf(r) : r \in fed}
  /\ \A d \in Ino, m \in Name :
       LET c == new.children[d][m]
       IN  c # NoIno => c \in new.nodes /\ Contains(new.parents[c], T!EntryOf(m, d))
  /\ \A r \in fed : \A k \in 1..Len(r.parents) :
       new.children[r.parents[k].node][r.parents[k].name] # NoIno
  /\ quiet => \A r \in fed : new.count[r.ino] = r.count

(* The new tree of a quiet and exact old one is a part of it.              *)
PartOK ==
  quiet /\ Exact =>
    /\ status # "panic"
    /\ \A i \in new.nodes : nodes[i] # Nil /\ (i \in new.dirs) = (nodes[i] \in dirs)
    /\ \A o \in Table : new.parents[ino[o]] =
         IF Record(o) \in fed THEN Record(o).parents ELSE NoParents
    /\ \A d \in Ino, m \in Name : new.children[d][m] # NoIno =>
         LET c == children[nodes[d]][m]
         IN  nodes[d] # Nil /\ c # Nil /\ new.children[d][m] = ino[c]

(* The inductive invariant behind the properties above: nothing is lost    *)
(* between the tree, its records and what AddInode makes of them           *)
(* (dump.go:69-167).                                                       *)
DumpInv == TypeOK /\ TreeOK /\ PhasesOK /\ DumpOK /\ RestoredOK /\ PartOK
=============================================================================
