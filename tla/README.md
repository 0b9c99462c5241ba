# pathfs in TLA+

`pathfs` is a bridge between the FUSE kernel protocol, which names files by
node ids and lookup counts, and a file system that names them by paths. The
core of the program is the inode tree that translates one into the other while
many goroutines serve requests at once. This directory holds TLA+ modules for
that core, configurations that model-check them with TLC, and proofs that TLAPS
checks. File and line numbers below are those of the repository.

## 1. The system

| Component | State | Operations | What makes it correct |
| --- | --- | --- | --- |
| Inode tree (`inode.go`, `bridge.go:18-184`) | objects with `lookupCount`, `revision`, `parents`, `children`, a mutex each; the table `b.nodes` under `b.mu`; `nodeCountHigh` | `addChild`, `removeRef`, `rmChild`, `mvChild`, `lockNodes`/`lockNode2`, `compactMemory` | links agree on both sides; an inode is in the table exactly while a lookup or a child keeps it; a dead inode stays dead; no deadlock; retries end |
| Entry requests (`bridge.go:121-162, 248-364, 446-465`) | none of their own | Lookup, Mknod, Mkdir, Symlink, Link, Create, Unlink, Rmdir, Rename, Forget | the bridge's counts are the kernel's; a node id the kernel holds is known |
| Parents (`inode_parents.go`) | `newest`, and `other` with a time each | `add`, `delete`, `clear`, `all`, `get`, `Dump` | a set that remembers the order of additions |
| File handles (`file.go:16-26, 79-111`, `bridge.go:80-94, 446-590`) | `b.files`, `b.freeFiles` under `b.mu`; entries read without it | `registerFile`, `unregisterFile`, `inodeAndFile`, Create, Open, OpenDir, Release, ReleaseDir | no slot lost or given out twice; a handle stands for its file |
| Paths (`file.go:28-77`) | reads `parents`, one mutex at a time | `pathOf`, `fpathOf`, `childPathOf` | a path leads to the inode, as far as the kernel's other requests allow |
| Directory streams (`bridge.go:581-677`) | `d.stream` under `d.mu` | OpenDir, ReadDir, ReadDirPlus | every entry is listed, once; what is looked up on the way is counted as the kernel counts it |
| Dump and restore (`dump.go`, `bridge.go:705-746`) | the whole bridge | Dump, Restore, AddInode, Finished | the restored tree is the dumped one; what is lost is told |
| Attributes (`bridge.go:111-119, 185-246, 366-444, 695-703`, `inode.go:61-101`) | none | GetAttr, SetAttr, xattrs, Access, Readlink, StatFs | each call of the file system is on the right file |
| Contexts, interface, defaults, mounting, system calls | a `sync.Pool` | | out of scope, see section 7 |

How they interact. The kernel sends requests; the FUSE server runs each in a
goroutine. A handler finds its inode in `b.nodes`, computes a path by walking up
`parents`, calls the file system with no mutex held, and then applies what it
learned to the tree: `addChild` after a successful lookup, `rmChild` after an
unlink or a failed lookup, `mvChild` after a rename, `removeRef` for a FORGET.
Requests with a file handle also find an entry of `b.files`; a directory handle
has a stream in it. A dump reads all of this, without a mutex.

What is hard. Every tree operation lets go of its mutexes in the middle: it
reads under one group of locks, and then needs a larger group that has to be
taken in address order. In between, any other operation may run; revision
counters tell whether one did. `removeRef` is in addition a walk up the tree
with no mutex held between two levels. Counts are kept on both sides of the
kernel protocol and agree only up to replies and FORGETs in flight. The full
list of what can go wrong is under `hazards` in `PROJECT.json`.

## 2. Modules

| Module | Stands for |
| --- | --- |
| `AtomicTree` | abstract: the inode tree with operations of one step each |
| `InodeTree` | the inode tree and the entry requests, for any number of goroutines |
| `InodeTreeRefinement` | that `InodeTree` implements `AtomicTree`, and the one step that does not |
| `InodeTreeProofs` | proofs about `InodeTree`: its invariants, its locks |
| `InodeTreeRefinementProofs` | that it implements `AtomicTree`, and what its lookup counts promise, proved |
| `ParentRecency` | abstract: a set with the order of last additions |
| `InodeParents`, `InodeParentsProofs` | `inodeParents` with its times; implements `ParentRecency`; proofs |
| `ParentOrder` | the same order as a sequence: what the modules on top of it use |
| `PathWalk` | `pathOf` and the requests that need paths, between kernel, tree and file system |
| `PathWalkProofs`, `PathCalmProofs` | that remembered parents are true; that undisturbed paths lead to their inodes |
| `FileTable`, `FileTableProofs` | file handles, the entries they name, the file system's own handles; proofs |
| `DirStream`, `DirStreamProofs` | listing a directory through one handle; proofs |
| `DumpRestore`, `DumpRestoreProofs` | handing the tree over to a new process; proofs |
| `MC...` | the instances for TLC of each |

They compose in two layers. Below, `InodeTree` and `InodeParents` follow the code
from mutex to mutex and from one reading of the clock to the next, and are shown
to implement `AtomicTree` and `ParentRecency`. Above, `PathWalk` and `DumpRestore`
take the tree as `INSTANCE AtomicTree`, with `ParentOrder` for the parents: at that
level the interleavings that matter are those between a walk, a call of the file
system and an operation on the tree. `AtomicTree` has the representation of
parents as a parameter (`NoParents`, `AddParent`, `DelParent`): sets for the
refinement, sequences above it. `FileTable` and `DirStream` stand by themselves.

### InodeTree

*State.* Objects are addresses (`Obj`, positive numbers, because `nodeLess`
compares addresses); `Nil` is 0. `ino`, `lookupCount`, `revision`, `parents` and
`children` are the fields of `inode`; `nodes` is `b.nodes`. `parents[o]` is a
set: `InodeParents` below shows that this is what `inodeParents` is to a caller
of `all`, `add`, `delete` and `clear`. `alloc` is the set of objects made so far;
addresses are not reused. `kcount` is the kernel's count for each node id.

*Steps.* A goroutine has a program counter `pc`, a frame `fr` with arguments and
locals, the mutexes it still `want`s and those it `held`s. It takes them one by
one (`Acquire`), the least address first. A section that runs while a group is
locked is one action, which also releases the group and asks for the next.
This loses no interleaving: what the section touches is protected by the
mutexes it holds or by `b.mu`. `b.mu` is a leaf lock: nobody blocks with it held.
The sections of `addChild` are `AddRetry` and `AddCommit`; of `rmChild`, `RmRead`,
`RmRetry`, `RmCommit`; of `mvChild`, `MvRead`, `MvRetry`, `MvCommit`; of
`removeRef`, `LookupUnderflow`, `DecLive`, `DecDead`, `UnlinkRetry`, `Reread`,
`Unlink`. The recursion of `removeRef` into the parents is the list `todo`. A
`log.Panicf` sets `panic` and ends the behaviour.

*Environment.* The file system answers a lookup by anything in `Backend`, a fixed
relation, at any time: names appear, vanish and change hands behind the bridge.
Every other call succeeds or fails. The kernel sends a node id only while it
counts lookups for it, and gives back the last count only when no request on
the id is under way. Mknod, Mkdir, Symlink, Link and Create are one kind of
request (`Make`) because the tree sees the same of them: `b.inode`, a call that
may fail, `lookup`.

*Not in it.* Paths (the answers range over what any path could give). The second
node of Link. Inode numbers that change between file and directory (`DirIno`),
and a file system that gives number 1 to something that is not the root. The
wrap of `revision` at 2^32, and the truncation of a FORGET's count to 32 bits.
The panics for reserved inode numbers and virtual names.

### AtomicTree and InodeTreeRefinement

The operations of `AtomicTree` are `Add` (`addChild`), `Remove` (`rmChild`), `Move`
(`mvChild`), and the two halves of `removeRef`: `Forget` (counts go back, a dead
inode leaves the table) and `Detach` (every entry that leads to it goes). Each acts
on the tree as it is. `KeepsTree` says that each step of `InodeTree` is one of them or
changes none of their variables, by the identity mapping: `AddCommit` is `Add`,
`RmCommit` is `Remove`, `MvCommit` is `Move`, `DecLive` and `DecDead` are `Forget`,
`Unlink` is `Detach`, and reads, retries and lock steps are nothing. The exception,
allowed by name, is `LateDelete`: `delete(b.nodes, n.ino)` where the table has another
object under that number (see the race in section 3). `KeepsCounts` and `KeepsEntries`
say that nothing but a late delete makes the counts of the two sides disagree, or an
entry lead out of the table, and `PanicsLate` that no assertion of the code fails
before: what the concurrent code promises up to its one mistake. `NothingOvercounted`
is what it promises even after: an inode of the table is never counted for more lookups
than the kernel, the replies and the FORGETs in flight can still give back, so that none
is kept in it for ever by a count.

### PathWalk

*State.* The tree; `fs`, the file system below: the inode number of each name in each
directory; one directory handle with its path; a frame per goroutine with the paths
found so far. A `Hop` is one turn of the loop of `pathOf`, with one inode locked; a
call of the file system is one step; an operation on the tree is one step. A path is
the sequence of its names. A random placeholder for an orphan is one value, `Orphan`.

*Environment.* The kernel locks a directory that it changes (make, link, remove,
rename), the inodes that are removed, renamed or replaced, and shares the lock of
a directory between lookups and listings; one rename from directory to directory
is under way at a time. A cached entry is looked up again (`Revalidate`), and an inode
is used (`Use`: Access, Readlink, extended attributes, StatFs, Open), with no lock.
This is how Linux works (`Compatible`). The file system is atomic and changes through
the bridge only. It may refuse any call, the GetAttr of an entry that is there and
Lsdir included. A new file may take the number of one that is gone, while the tree
still has its inode; a number stays one of a directory or one of a file (`DirIno`).
FORGET is left out, and with it all that takes an inode out of the table: counts, and
the late delete of section 3, are the subject of `InodeTree`.

*History.* `blame` records that a call of the file system reached another inode than was
meant (`"path"`; a path that leads nowhere does no harm), or that a cached entry was
looked up while its directory was being changed (`"race"`): either lets the bridge write
what is not true into the tree. `missed` records that the tree may lack what the file
system has: `"lookup"`, a GetAttr of an existing entry failed, whereupon Lookup took the
entry out of the tree, or Make, Link or Create returned without `addChild`
(`bridge.go:128-130, 260`); `"number"`, a number was used again, and a new file is
taken for the old one. `calm` of a
request: no rename and no removal has overlapped it (for a handle: came since the
open). `seen`: the paths that an inode has had since the walk from it began;
`moved`: how many changes of the tree there were since.

### DirStream

`stream` and `mu` are the fields of the `fileEntry`; `dir` is the directory, which
others change. A reader asks at the offset it has come to, or at 0; `Lock`, `Lsdir`,
`Emit`, `Skip`, `Filled` and `Lookup` are the steps of the handler while it holds
`d.mu`. The stream that `Lsdir` gives may have its files in any order, and perhaps an
entry with an empty name anywhere. A reply has room for `Room` entries. `counted` is what
`addChild` adds up, `known` what the kernel does when the reply has come. History: the
files that were there all the time since the reader began (`stay`), at some time
(`ever`), and whether nobody else replaced the stream (`alone`).

### DumpRestore

The old process is `AtomicTree`, with which objects are directories; requests run
in `phase` run, and also between `NodeCount`, the copy of the table and each
`NextInode`, since `Dump` takes no mutex (`quiet` remembers whether one did). The
records then reach `AddInode` in any order, each any number of times. An object of
the new process is known by its number, as the restorer makes one for each. Not in
it: files and free handles (copied as they are), revisions, `nodeCountHigh`, a read
of an inode's fields while another goroutine writes them, and requests of the new
process during the restore (the code starts to serve after `Finished`).

### ParentRecency and InodeParents

`ParentRecency` is what the comment of `inode_parents.go:21-33` promises: members,
and which of two was added last. `InodeParents` has `newest`, `other` with times,
and a clock that is read on every displacement, advancing by at least `MinTick`.
The refinement mapping takes `members` to `All` and `older` to the order of the
times, with `newest` after all others. `last` is a history variable with the
call just made, so that the abstract step must be the same call. `DumpRestore`
is `Dump`, `sortParents` (equal times in any order) and the loop of
`InodeRestorer.AddInode` over the slice.

### FileTable

`files` and `freeFiles` are the fields of the bridge; `heap` holds the contents
of each `fileEntry`, because `inodeAndFile` hands out pointers that are read
after `b.mu` is dropped. `registerFile`, `unregisterFile` and `inodeAndFile` are
one step each. `opened` are the handles the file system has open: it gives any
that is free, or 0, and takes one back on `fs.Release`; `lost` are those that a
Create opened and then could not look up. `held` is the file that the kernel means
by each handle it holds. The kernel releases a handle once, when no request on it
is under way; any request may come with handle 0. A SetAttr makes several calls,
and reads the entry for each (`FsCallMore`). The inode half of `inodeAndFile` and
the stream of a directory are left out.

## 3. Runs

| Run | Instance | Properties |
| --- | --- | --- |
| `tree_flat` | 3 goroutines, 4 requests, a hard link, a name that changes hands, a rename (1.3M states) | `RefAccounting`, `CountedIsFindable`, `LinkedIsFindable` |
| `tree_nested` | 2 goroutines, 5 requests, a directory in the root (1.5M) | `LinkConsistent`, `NoLeak`, `DeadStaysDead`, `LockProgress`, `TreeInv`, `RemovedForGood`, `KeepsTree` |
| `tree_chain` | 2 goroutines, 7 lookups and forgets on root/2/3 (1.2M) | `NothingOvercounted`, `CountInv`, `KeepsCounts`, `PanicsLate`, `KeepsEntries` |
| `tree_forget_race` | as `tree_chain`, 6 requests | `NoUnknownNode` is violated |
| `tree_live` | 2 goroutines, 3 requests, fair | `RequestsEnd` |
| `parents_recency` | 4 entries, 12 readings of an advancing clock | `TypeOK`, `KeepsRecency` |
| `parents_coarse` | 4 entries, 5 readings, equal ones allowed | `KeepsMembers` |
| `files_handles` | 2 goroutines, 3 handles, 3 uFh, one opener, 2 calls in a SetAttr (2.2M) | `TypeOK`, `SlotsExact`, `HandleIsFile`, `CallIsTrue`, `HeldIsOpen`, `NoFileLost`, `FileInv` |
| `paths_walk` | 3 goroutines, 4 requests of all kinds, 3 directories, a file and one to be made (0.95M) | `TypeOK`, `TrueParents`, `CalmIsLed`, `CalmInv`, `WalkRegular` |
| `paths_mixed` | 2 goroutines, a use and two renames | `PathExisted` is violated |
| `dir_stream` | 2 readers, 2 files, 4 requests, 2 changes, room for 2 (4.3M) | `TypeOK`, `LookupsAgree`, `ListingFaithful`, `ListedOnce`, `StreamInv` |
| `dump_restore` | 4 objects, 3 numbers, 4 operations, 4 records (1.3M) | `DumpInv` (with `TypeOK`), `RestoredSame`, `FinishedTells`, `RestoredSound` |

*What the properties say.* `LinkConsistent`: an entry is known to its inode (the
converse is false: `addChild` overwrites an entry without telling the inode that
was there, `inode.go:138`). `NoLeak`: what is in the table is kept by a lookup or
a child, or a `removeRef` is on its way to it. `DeadStaysDead` is the assertion
of `inode.go:199-201`. `RemovedForGood`: an object never returns to the table.
`RefAccounting`: the bridge's count is the kernel's, plus replies and FORGETs in
flight. `CountedIsFindable`: a node id the kernel counts is known.
`LinkedIsFindable`: an entry leads to an inode of the table, or to one about to
be unlinked. `LockProgress`: nobody waits in a circle. `SlotsExact`: each slot is
free, held, or in the hands of one request. `HandleIsFile`, `CallIsTrue`: a
handle, and a call made for it, stand for the file of the open. `HeldIsOpen`: a
uFh is not released while the kernel holds its handle. `NoFileLost`: what the file
system opened is in the table or on its way, but for what a Create lost.
`KeepsTree`, `KeepsCounts`, `PanicsLate`, `KeepsEntries` and `NothingOvercounted` are
those of section 2. `TreeInv` (with the types of the tree), `CountInv`, `FileInv`,
`StreamInv`, `CalmInv` (with `WalkInv`) and `DumpInv` are the inductive invariants of
section 4: the runs check them on the instances, the proofs that every step of any
instance keeps them.

`TrueParents`: every parent an inode remembers is a place where the file system has
it. `addChild` overwrites an entry without telling the inode that was there
(`inode.go:138`), so this is not a property of the tree alone; it holds as long as
names change through the bridge, and is what makes any parent good for a path.
It survives lookups that fail: they take both sides of an entry away.
`CalmIsLed`: a request that no rename and no removal overlaps calls the file system
with paths that lead to its inodes, or with the orphan's path, which leads nowhere. The
latter only if the file system has the inode no more, or if the tree has missed an
entry (`missed`): one failed lookup of an existing entry is enough for that. Never with
a path of another inode. `WalkRegular`: a walk during which the tree changes
at most once returns a path that the inode had at some moment of it. Together they
say how far `pathOf` can be trusted without a lock on the tree.

`ListingFaithful`: who reads to the end is told of each file that was there all the time,
and, even if others rewind the handle, of none that never was. `ListedOnce`: of none
twice, unless the listing has an entry with an empty name, which takes no place in
the offsets. `LookupsAgree`: the bridge counts the lookups of a ReadDirPlus
exactly as the kernel will, in spite of full replies, files that are gone and lookups
that fail.

`RestoredSame`: an exact tree (every entry known on both sides) that was left alone
comes back with the same counts, kinds, entries and newest parents, in whatever
order its records come, and nothing panics. `FinishedTells`: if no record comes twice,
Finished fails exactly when one is missing. `RestoredSound`: whatever was lost or out
of date, an entry of the restored tree is known to its inode, and - if nothing was
lost and no `removeRef` was half done - nothing dead is in the table for ever.

*The race.* `CountedIsFindable` and `RefAccounting` hold in a flat directory with three
goroutines, and anywhere until a late delete (`KeepsCounts`, and the theorems
`CalmAccounting` and `CalmTable`). They fail with two goroutines and two levels, and
`tree_forget_race` shows how: the FORGET of file 3 empties directory 2 and stalls before
`removeRef(2, 0)` (`inode.go:205`); the FORGET of 2 removes it; a LOOKUP makes a new
object for number 2; the stalled call then does `delete(b.nodes, 2)` (`inode.go:165`)
although the object in the table is not the one it holds. The kernel goes on using
number 2 and the next request panics with "unknown node" (`bridge.go:67-69`). If the
stalled call comes before the reply reaches the kernel and another LOOKUP makes a third
object, a FORGET of both lookups ends in the underflow panic of `inode.go:152`.
`tree_chain` reaches both panics, and checks that even then no inode is counted too
often. That nothing leaks and nothing dead revives, then as ever, is proved
(`NothingLeaks`, `DeadNodesStayDead`).

*The mixed path.* `paths_mixed` shows the limit of `WalkRegular`. A walk has read that file
4 is called a in directory 2. The file is renamed out of it, and directory 2 is
renamed, from a in the root to b in directory 3, before the walk reads its parent:
the result, b/b/a, is a path that the file never had, although the comment of
`pathOf` promises "a path string to the inode" (`file.go:28`).

*Bounds.* `MaxRequests` bounds behaviours, and with them all counters. Five requests
make a directory and a file in it, remove them and make them again; two goroutines
interleave two operations at every release of a mutex, and three on the flat tree put a
third between. That no circle of waits closes is checked with two and proved for any
number. Four or five objects suffice: the addresses are not used up before the requests
are (where they are, the bound ends the behaviour, and the tree runs disable the
deadlock check for that and for `MaxRequests`). `RootObj` is 2, so that new inodes sort
before and after the root. `CompactRatio` is 1 instead of 100, so that `compactMemory`
compacts. `MaxTime` gives each of four parents several displacements, a dump included.
Three handles let the free list be longer than one, with a slot in use between two free
ones, and three uFh let all three be open files at once; a SetAttr of two calls is
enough for the entry to change between calls, if it could. Three goroutines and four
requests on paths are one walk, two that change the tree under it, and one that came
before; three directories and a file allow a move of the file, of its directory and of
its directory into another, and the lookups, new files and removals are of the file and
of its directory; a name in the third directory comes by a rename or a link. `MaxDepth` is at least the number of inodes (`BoundAssumption`), so that it
only cuts walks that go in circles. Two readers of four requests can fill two replies
each, or rewind each other; with room for two entries the four entries of a full stream
need two replies, and a third for the end. Four operations make a directory with a file
and a hard link or a rename, and still leave one to come during the dump. These runs
stop when their requests or records are used up, and disable the deadlock check for
that.

*Symmetry.* Goroutines are interchangeable (not in `tree_live`: symmetry and
liveness do not mix), and so are readers and the objects of `dump_restore`. The
file run uses a `VIEW` that forgets the addresses of entries and unreachable
entries, which nothing reads.

*Fairness.* `tree_live` assumes weak fairness of each goroutine's own steps
(`Step`), not of the kernel's requests: Go's scheduler runs every goroutine that
can run, and its mutexes hand over to a waiter that has waited for a
millisecond. With three requests there is an end to the writes that cause
retries; with writers that never stop, a retry loop may spin for ever.

*Mutants.* Definitions with a suffix, such as `ChildLocked_untested` before
`ChildLocked`, are plausible mistakes in that piece of code; each property is
violated when one of them takes the place of the original.

## 4. Proofs

All theorems are about `Spec` of the component, for every value of its constants that
the named assumptions allow. The bounds (`MaxRequests`, `MaxFiles`...) are constants too:
what is proved holds for any.

### The tree: `InodeTreeProofs`

For every finite set of addresses, numbers and names, any set of goroutines, any file
system (assumptions `AddressAssumption`, `InoAssumption`, `NameAssumption`,
`EnvironmentAssumption`):

| Theorem | Statement |
| --- | --- |
| `TypeCorrect` | `[]TypeOK` |
| `TreeInvariant` | `[]TreeInv`, the inductive invariant |
| `LinksAgree`, `DeadNodesStayDead`, `NothingLeaks` | `[]LinkConsistent`, `[]DeadStaysDead`, `[]NoLeak` |
| `RemovalIsForGood` | `RemovedForGood` |
| `LocksOrdered` | `[]LockOrder` |
| `NoDeadlock` | `[]LockProgress` |

*The argument.* First `Shape`: types, frames that have what their label needs
(`FrameOK`), pointers that lead to allocated objects, fresh objects that are
blank. It is inductive by itself and gives `TypeCorrect`. Then `TreeInv`. None
of the three wanted invariants is inductive alone. `Unlink` clears the entries
of the parents it read before it let go of its inode: that no other entry is
left needs `RereadOK` - the revision has not moved, hence the parents have not -
and that needs "whoever changes `parents` moves the revision" (`RevisionTells`).
`ReadOK` says the same of what `rmChild` and `mvChild` read of the entries they will
change (`ChildrenTell`, `KnowledgeKept`).
`DeadStaysDead` needs that an object out of the table is never locked by
`addChild` as the one in the table (`AddCommitEffect`), which is what the second
look at `b.nodes` in `addChild` is for. `NoLeak` needs that whoever makes an
inode dead puts it on a list (`HandlerKeeps`, `OthersKeep`, `AwaitedKept`).
Freedom from deadlock follows from `LockOrder`: a goroutine waits only for addresses
above those it holds; the goroutine that holds the greatest address that
anybody holds (`LastAddress`) waits for none that is taken.

### The refinement: `InodeTreeRefinementProofs`

From the same assumptions:

| Theorem | Statement |
| --- | --- |
| `ImplementsAtomicTree` | `KeepsTree`: the initial state is one of `AtomicTree`, each step one of its steps, a stutter, or a late delete |
| `EntriesKept` | `KeepsEntries`: only a late delete makes an entry lead out of the table |
| `EntriesFindable` | `[]LinkedIsFindable`, if no delete is late |

*The argument.* A step simulation by the identity mapping, one lemma per step that
changes the tree; the others leave every variable of `AtomicTree` alone. The abstract
operation acts on the tree as it is, the concrete one on what it read before it let
go of its mutexes: `ReadOK` (for `RmCommit`, `MvCommit`) and `RereadOK` (for `Unlink`)
say that the two are the same where the revisions have not moved, which is what
those steps test. So the revision protocol of `inode.go` is what makes its operations
atomic, and no more of the invariant is needed.

### The counts: `InodeTreeRefinementProofs`

With `ThreadAssumption` in addition: there are finitely many goroutines, so that
lookups in flight can be added up.

| Theorem | Statement |
| --- | --- |
| `CountInvariant` | `[]CountInv`, the inductive invariant |
| `NeverOvercounted` | `[]NothingOvercounted` |
| `CountsKept` | `KeepsCounts`: only a late delete makes the two sides disagree |
| `PanicOnlyLate` | `PanicsLate`: while they agree, no step panics |
| `CalmAccounting`, `CalmTable`, `CalmIds` | `[]RefAccounting`, `[]CountedIsFindable`, `[]NoUnknownNode`, if no delete is late |

*The argument.* Every lookup that the bridge counts is owed by somebody: the kernel, a
reply, or a FORGET. `LocalsOK` says where a goroutine keeps what it owes (`f.nl`,
`f.cino`), `PinnedOK` that the kernel counts the node ids its requests use. A step is made
by one goroutine, so it changes only that one's share (`OwnShare`, `InFlight`);
`CountMoves` says, section by section, that what a step adds to or takes from
`lookupCount` it adds to or takes from that share. For `CountInv` the shares are those
of FORGETs that have found an object to give back to, which holds even after a late
delete; for `CountsAgree` all of them, which does not.

The theorems with "if no delete is late" are of the form
`Spec /\ [][~LateDeletes]_vars => []P`. Without the condition the formulas are false:
section 3 has the run. A late delete needs a `removeRef` that stalls between two levels
of the tree while others remove and make again the inode it is on its way to.

### Parents: `InodeParentsProofs`

For any finite set of entries (`EntryAssumption`, `ClockAssumption`): `StoreTypeCorrect`;
`MembersKept`, for any clock; `RecencyKept`, for a clock that advances
(`MinTick >= 1`), from `TimesOK` - distinct displaced parents have distinct times,
none in the future. Both refinements are step simulations, one lemma per call.

### File handles: `FileTableProofs`

For any goroutines, any bound on the table and any handles of the file system
(`EntryAssumption`, `NameAssumption`, `HandleAssumption`):

| Theorem | Statement |
| --- | --- |
| `FileInvariant` | `[]FileInv`, the inductive invariant |
| `FileTypes` | `[]TypeOK` |
| `SlotsAccounted` | `[]SlotsExact` |
| `HandlesAreFiles`, `CallsAreTrue` | `[]HandleIsFile`, `[]CallIsTrue` |
| `HeldStaysOpen`, `FilesNotLost` | `[]HeldIsOpen`, `[]NoFileLost` |

*The argument.* One user at a time, twice. `SlotsOK`: a slot of the table is in the free
list, held by the kernel, or owned by one request; `Unregister` alone puts one back, and
only its owner can. `CarriersOK` is the same for the handles of the file system.
`EntriesOK` ties a slot to its file: nobody overwrites the entry of a slot that has
a user, so what a goroutine reads through the pointer of `inodeAndFile` after
`b.mu` is dropped is still what the kernel meant. That a handle in use is not
released meanwhile is the kernel's side of the protocol. `SlotsExact` counts
the places of a slot; the count is one because the free list is injective.

### Directory streams: `DirStreamProofs`

For any readers, any finite set of names and any room in a reply
(`BoundAssumption`, `NameAssumption`, `ReaderAssumption`):

| Theorem | Statement |
| --- | --- |
| `StreamInvariant` | `[]StreamInv`, the inductive invariant |
| `StreamTypes`, `LookupsCounted` | `[]TypeOK`, `[]LookupsAgree` |
| `ListingsFaithful`, `EntriesOnce` | `[]ListingFaithful`, `[]ListedOnce` |

*The argument.* The offset that a reader brings back stands for the part of the stream it
has got. `StreamOK`: the stream lists each file once and ends with the dots.
`RepliesOK`: a reply under way holds what lies between the offset and the next entry -
exactly, or, with an entry with an empty name, at least. `ReadersOK`: the same for all
replies so far, while nobody else has replaced the stream; and what anybody got was there
at some time. An empty reply ends a listing, because there is room for one entry.
`LookupsAgree` is inductive given that a file is in a reply at most once.

### Paths: `PathWalkProofs`

For any goroutines, any inodes and names, any tree of files to start with and any
requests (`TreeAssumption`, `BoundAssumption`, `EnvironmentAssumption`: an entry of the
file system leads to a file of its own, and a directory that no entry leads to is empty):

| Theorem | Statement |
| --- | --- |
| `WalkInvariant` | `[]WalkInv`, the inductive invariant |
| `ParentsAreTrue` | `[]TrueParents` |
| `TypeCorrect` | `[]TypeOK` |

*The argument.* A handler calls the file system, and later writes what it learned into
the tree; `TrueParents` is broken in between, and would stay so if another request came
between the two and made the one's knowledge false. `EntriesTrue` says which entries
are behind: those that a removal or a rename has taken from the file system and is about
to take from the tree (`Undoing`). `WritesTrue` says what every other request in front of
its tree operation knows: the entry that it looked up is still there. Neither is
inductive without the locks. `FramesOK` has them: whoever changes a directory holds its
lock (`ApartAdder`, `ApartChange`), so that no step of another makes false what a request
is about to write (`WritesApart`), and no two requests undo the same entry. `TableOK`, that
the table has one inode for a number, makes "the file system has number i at this
name" and "the tree has inode o there" the same statement. A call of the file system acts
where its path leads, which is the directory of the request as long as nothing is to
blame (`LedDir`); what `Resolve` makes of a longer path (`ResolveStep`) is an induction
over the length of the path, made with the least number (`LeastNat`). `addChild` overwrites
an entry blindly (`inode.go:138`), and is right to: `AddTruth` shows that there was nothing,
or the same inode. `TypeOK` needs `Typed` besides: the path of one look at the tree is
made in as many rounds as there are inodes, and each round adds at most one name
(`ClimbShort`), so that it is no longer than `MaxDepth`.

### Paths that nothing disturbs: `PathCalmProofs`

From the same assumptions:

| Theorem | Statement |
| --- | --- |
| `CalmInvariant` | `[]CalmInv`, the inductive invariant |
| `CalmLed` | `[]CalmIsLed` |

*The argument.* Backwards along a walk: the names it has collected lead from the inode it
is at to its target, so with one more parent, true at that moment, they lead there from
the next inode (`HopCalm`, `ReachHead`). A request is calm while no rename and no removal
overlaps it; then entries only come, in the tree and in the file system, and a path that
leads somewhere goes on leading there (`CalmKept`, `ReachGrows`). This is `CalmLeads`; it
holds whatever lookups fail, as long as `blame` is empty.

A walk may also meet an inode without a parent, and then answers with the path of an
orphan. That this inode is not linked, and hence neither is the target, takes more, since
the file system is always ahead of the tree. `TreeKnows` is the converse of
`EntriesTrue`: what the file system has at a name, the tree has, or a request that has
just made, linked or renamed it holds the lock of the directory and is `Bringing` it
(`EntriesKnown`); hence an inode that is linked has a parent (`ParentsKnown`). It is kept
because nobody writes into the tree an absence that is not true (`Taking`), and because a
rename or a removal, which takes a parent away, leaves another one where the inode is
still linked (`OtherParent`). A failed lookup of an existing entry is such an absence, and
a number used again brings a parent that was not asked for: `TreeKnows` is claimed only
while `missed` is empty, which, once false, stays false (`MissedGrows`). From then on the
orphan's path is allowed to anybody (`Pathless`), and the path of another inode still to
nobody. The paths of length n are again inductions with the least number (`LeastNat`).

### Dump and restore: `DumpRestoreProofs`

For any finite sets of objects, numbers and names (`TreeAssumption`, `BoundAssumption`):

| Theorem | Statement |
| --- | --- |
| `DumpInvariant`, `TypeCorrect` | `[]DumpInv`, the inductive invariant; `[]TypeOK` |
| `FinishedIsRight` | `[]FinishedTells` |
| `ComesBackSame`, `ComesBackSound` | `[]RestoredSame`, `[]RestoredSound` |

*The argument.* `TreeOK` is kept by every operation of `AtomicTree` (`AddTree`,
`RemoveTree`, `MoveTree`, `ForgetTree`, `DetachTree`): numbers and table fit, an entry is
known to the inode it leads to. `DumpOK`: as long as nothing disturbs it, a dump has
the record of each inode that the iterator has passed; there are as many records as
numbers in use (`TableCount`, a bijection), which is all that `Finished` compares.
`RestoredOK` needs neither a quiet nor an exact tree: an entry of the new tree is always
written together with the parent it is known by. `PartOK`, with both: what AddInode has
made of the records so far is that part of the old tree. It needs that a record which
comes again changes nothing. AddInode adds the parents of the record to those the inode
has; added to none (`AddAllOnce`) or to themselves (`AddAllTwice`) they give the record's
own list, in its order: each turn takes the oldest out and puts it at the end, and after
all turns the list is as it was. Both are inductions over the library's `FoldLeft`, made
with the least turn at which they fail (`FoldTurns`, `LeastNat`). That AddInode does not
panic is `NoPanic`: whom an exact tree records as a parent it records as a directory.

### Model-checked only

Liveness (`RequestsEnd`): out of the prover's reach. `NoUnknownNode` without its condition
and `PathExisted` are violated, as section 3 shows. Of `PathWalk`, `WalkRegular`, which needs
that parents form no circle, and which side of a change each walk sees. The library's
induction theorems take an operator and cannot be used here. Where an
induction is needed - over a path, over a fold - it is made by hand, with the least number
for which the claim is false; and where the proofs add up lookups in flight they count
sets instead.

## 5. Hazards without a property

The wrap of `revision` at 2^32 (`inode.go:34`) and of a FORGET's count
(`bridge.go:158`): counters do not wrap in the models, the wraps are beyond any
bound. A SetAttr that stops half way (`bridge.go:214`): which attributes were set is
data of the file system, of which the bridge promises nothing.

## 6. Plan

Modelled and checked: all components of section 1 above the last line. What is left
is to prove more:

1. `WalkRegular`: that newest parents form no circle while nothing is to blame, and that a
   walk which sees one change of the tree returns the path of before it or of after it.

## 7. Not modelled

Contexts (`context.go`): a pool; `newContext` and `releaseContext` write every field,
and a context has one owner in between. `api.go`,
`default.go`: an interface and its ENOSYS answers; the models let a file system
answer anything. `mount.go`: starts the server of the FUSE library.
`syscall*.go`, `file_linux.go`, `file_darwin.go`: system call wrappers and the
block count of an attribute. `test_fs.go`: a loopback file system for the tests.
