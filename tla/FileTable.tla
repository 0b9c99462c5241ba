------------------------------ MODULE FileTable ------------------------------
(* File handles: b.files and b.freeFiles (bridge.go:27-28), the handlers   *)
(* that open, use and release them, and the file system's own handles      *)
(* (uFh) that they stand for.  registerFile, unregisterFile and            *)
(* inodeAndFile run under b.mu, each is one step; the calls of the file    *)
(* system in between are steps of their own, and other goroutines run      *)
(* between any two of them.  What a handler got from inodeAndFile is a     *)
(* pointer, whose fields it reads later without a mutex.                   *)
EXTENDS Naturals, Sequences, FiniteSets, Functions

CONSTANTS
  Thread,        \* goroutines of the FUSE server
  Entry,         \* addresses of fileEntry objects
  NoEntry,       \* the nil pointer
  Owner,         \* who opens a file (fuse.Owner)
  NoOwner,       \* the zero fuse.Owner
  Path,          \* paths at the time of the open
  UFh,           \* handles of the file system, other than 0
  MaxFiles,      \* bound: handles the kernel holds at a time
  MaxCalls       \* bound: calls of the file system in one SetAttr (5 in the code)

NoPath == ""

ASSUME EntryAssumption == NoEntry \notin Entry
ASSUME NameAssumption == NoOwner \notin Owner /\ NoPath \notin Path
ASSUME HandleAssumption ==
  /\ UFh \subseteq Nat \ {0}
  /\ MaxFiles \in Nat
  /\ MaxCalls \in Nat \ {0}

VARIABLES
  files,         \* b.files: the entry of each handle 0..NFiles-1
  heap,          \* the fields of each entry
  freeFiles,     \* b.freeFiles
  pc,            \* per goroutine: its next step
  fr,            \* per goroutine: arguments and local variables
  opened,        \* the file system: its handles that are open
  lost,          \* history: those that Create opened and then dropped
  held,          \* the kernel: the file of each handle it holds
  dirs           \* the kernel: which of them are directories

tableVars == <<files, heap, freeFiles>>
threadVars == <<pc, fr>>
kernelVars == <<held, dirs>>
fsVars == <<opened, lost>>
vars == <<tableVars, threadVars, fsVars, kernelVars>>

-----------------------------------------------------------------------------
(* Data.                                                                   *)

File == [opener : Owner \cup {NoOwner}, path : Path \cup {NoPath}, uFh : UFh \cup {0}]
Blank == [opener |-> NoOwner, path |-> NoPath, uFh |-> 0]

Op == {"none", "Create", "Open", "OpenDir", "Use", "Release", "ReleaseDir"}
Label == {"idle", "open", "lookup", "register", "opened", "find", "call", "release",
          "unregister"}

(* file is what the request is about: for an open, what the reply will     *)
(* stand for; for other requests, what the kernel takes the handle for.    *)
IdleFrame == [op |-> "none", fh |-> 0, file |-> Blank, entry |-> NoEntry, calls |-> 1]

NFiles == Cardinality(DOMAIN files)

(* A new fileEntry: an object nothing points to.  Which one is the         *)
(* allocator's choice, and nothing compares the addresses.  Entry bounds   *)
(* the heap: it has room for a new one.                                    *)
Unused == Entry \ (Range(files) \cup {fr[t].entry : t \in Thread})

Go(t, l, f) ==
  /\ pc' = [pc EXCEPT ![t] = l]
  /\ fr' = [fr EXCEPT ![t] = f]
Finish(t) == Go(t, "idle", IdleFrame)

-----------------------------------------------------------------------------
(* The kernel.  It uses a handle from the reply to the open until it       *)
(* releases it, once, when no request on the handle is under way.  Handle  *)
(* 0 stands for "no handle" and may come with any request.                 *)

Handles == DOMAIN held
FileOf(fh) == IF fh \in Handles THEN held[fh] ELSE Blank
Opening == {t \in Thread : fr[t].op \in {"Create", "Open", "OpenDir"}}
InFlight(fh) == \E t \in Thread \ Opening : fr[t].op # "none" /\ fr[t].fh = fh

SendOpen(t) ==
  /\ pc[t] = "idle"
  /\ Cardinality(Handles) + Cardinality(Opening) < MaxFiles
  /\ \E k \in {"Create", "Open", "OpenDir"}, o \in Owner, p \in Path :
       Go(t, IF k = "OpenDir" THEN "register" ELSE "open",
          [IdleFrame EXCEPT !.op = k, !.file = [Blank EXCEPT !.opener = o, !.path = p]])
  /\ UNCHANGED <<tableVars, fsVars, kernelVars>>

SendUse(t) ==
  /\ pc[t] = "idle"
  /\ \E fh \in Handles \cup {0} :
       \E n \in 1..MaxCalls :
         Go(t, "find", [IdleFrame EXCEPT !.op = "Use", !.fh = fh, !.file = FileOf(fh),
                                         !.calls = n])
  /\ UNCHANGED <<tableVars, fsVars, kernelVars>>

SendRelease(t) ==
  /\ pc[t] = "idle"
  /\ \E fh \in Handles \cup {0} :
       /\ fh # 0 => ~InFlight(fh)
       /\ IF fh \in dirs
          THEN Go(t, "unregister", [IdleFrame EXCEPT !.op = "ReleaseDir", !.fh = fh,
                                      !.file = FileOf(fh)])
          ELSE Go(t, "find", [IdleFrame EXCEPT !.op = "Release", !.fh = fh,
                                !.file = FileOf(fh)])
       /\ held' = [h \in Handles \ {fh} |-> held[h]]
       /\ dirs' = dirs \ {fh}
  /\ UNCHANGED <<tableVars, fsVars>>

(* The reply to an open.                                                   *)
ReplyOpen(t) ==
  /\ pc[t] = "opened"
  /\ held' = [h \in Handles \cup {fr[t].fh} |->
                IF h = fr[t].fh THEN fr[t].file ELSE held[h]]
  /\ dirs' = IF fr[t].op = "OpenDir" THEN dirs \cup {fr[t].fh} ELSE dirs
  /\ Finish(t)
  /\ UNCHANGED <<tableVars, fsVars>>

-----------------------------------------------------------------------------
(* Create, Open and OpenDir.  The file system gives a handle that is not   *)
(* open, or 0 if it has none.                                              *)

FsOpen(t) ==
  /\ pc[t] = "open"
  /\ \E u \in (UFh \cup {0}) \ opened :
       /\ opened' = (opened \cup {u}) \ {0}
       /\ Go(t, IF fr[t].op = "Create" THEN "lookup" ELSE "register",
             [fr[t] EXCEPT !.file.uFh = u])
  /\ UNCHANGED <<tableVars, lost, kernelVars>>

FsRefuses(t) ==
  /\ pc[t] = "open"
  /\ Finish(t)
  /\ UNCHANGED <<tableVars, fsVars, kernelVars>>

(* Create looks the new file up before it registers the handle; when that  *)
(* fails it returns, and the handle of the file system is in no table.     *)
CreateFound(t) ==
  /\ pc[t] = "lookup"
  /\ Go(t, "register", fr[t])
  /\ UNCHANGED <<tableVars, fsVars, kernelVars>>

CreateLost(t) ==
  /\ pc[t] = "lookup"
  /\ lost' = (lost \cup {fr[t].file.uFh}) \ {0}
  /\ Finish(t)
  /\ UNCHANGED <<tableVars, opened, kernelVars>>

(* registerFile: the handle freed last, or a new one at the end.           *)
Register_notPopped(t) ==
  /\ pc[t] = "register" /\ freeFiles # <<>>
  /\ LET fh == freeFiles[Len(freeFiles)]
     IN  /\ heap' = [heap EXCEPT ![files[fh]] = fr[t].file]
         /\ Go(t, "opened", [fr[t] EXCEPT !.fh = fh])
  /\ UNCHANGED <<files, freeFiles, fsVars, kernelVars>>
Register(t) ==
  /\ pc[t] = "register" /\ freeFiles # <<>>
  /\ LET fh == freeFiles[Len(freeFiles)]
     IN  /\ heap' = [heap EXCEPT ![files[fh]] = fr[t].file]
         /\ Go(t, "opened", [fr[t] EXCEPT !.fh = fh])
  /\ freeFiles' = SubSeq(freeFiles, 1, Len(freeFiles) - 1)
  /\ UNCHANGED <<files, fsVars, kernelVars>>

RegisterNew(t) ==
  /\ pc[t] = "register" /\ freeFiles = <<>>
  /\ \E e \in Unused :
       /\ files' = [h \in 0..NFiles |-> IF h = NFiles THEN e ELSE files[h]]
       /\ heap' = [heap EXCEPT ![e] = fr[t].file]
  /\ Go(t, "opened", [fr[t] EXCEPT !.fh = NFiles])
  /\ UNCHANGED <<freeFiles, fsVars, kernelVars>>

-----------------------------------------------------------------------------
(* Read, Write, Fallocate, Fsync, Flush, GetLk, SetLk, SetLkw, GetAttr,    *)
(* SetAttr, ReadDir ("Use") and Release.                                   *)

(* inodeAndFile.                                                           *)
Find(t) ==
  /\ pc[t] = "find"
  /\ Go(t, IF fr[t].op = "Release" THEN "release" ELSE "call",
        [fr[t] EXCEPT !.entry = files[fr[t].fh]])
  /\ UNCHANGED <<tableVars, fsVars, kernelVars>>

(* SetAttr calls the file system for each attribute it was asked to set,   *)
(* then for the attributes, until one call fails; it reads the entry again *)
(* for each.                                                               *)
FsCallMore(t) ==
  /\ pc[t] = "call" /\ fr[t].calls > 1
  /\ Go(t, "call", [fr[t] EXCEPT !.calls = @ - 1])
  /\ UNCHANGED <<tableVars, fsVars, kernelVars>>

(* The call of the file system, with the entry's path, uFh and opener,     *)
(* after which the request ends.                                           *)
FsCall(t) ==
  /\ pc[t] = "call"
  /\ Finish(t)
  /\ UNCHANGED <<tableVars, fsVars, kernelVars>>

FsRelease_skipped(t) ==
  /\ pc[t] = "release"
  /\ Go(t, "unregister", fr[t])
  /\ UNCHANGED <<tableVars, fsVars, kernelVars>>
FsRelease(t) ==
  /\ pc[t] = "release"
  /\ opened' = opened \ {heap[fr[t].entry].uFh}
  /\ Go(t, "unregister", fr[t])
  /\ UNCHANGED <<tableVars, lost, kernelVars>>

(* unregisterFile: handle 0 is no file; any other gets a new blank entry.  *)
Unregister_zeroToo(t) ==
  /\ pc[t] = "unregister"
  /\ \E e \in Unused :
       /\ files' = [files EXCEPT ![fr[t].fh] = e]
       /\ heap' = [heap EXCEPT ![e] = Blank]
  /\ freeFiles' = Append(freeFiles, fr[t].fh)
  /\ Finish(t)
  /\ UNCHANGED <<fsVars, kernelVars>>
Unregister(t) ==
  /\ pc[t] = "unregister"
  /\ IF fr[t].fh = 0
     THEN UNCHANGED tableVars
     ELSE /\ \E e \in Unused :
               /\ files' = [files EXCEPT ![fr[t].fh] = e]
               /\ heap' = [heap EXCEPT ![e] = Blank]
          /\ freeFiles' = Append(freeFiles, fr[t].fh)
  /\ Finish(t)
  /\ UNCHANGED <<fsVars, kernelVars>>

-----------------------------------------------------------------------------
(* NewPathFS: "Fh 0 means no file handle" (bridge.go:51-52).               *)
Init ==
  /\ \E e \in Entry : files = [h \in {0} |-> e]
  /\ heap = [e \in Entry |-> Blank]
  /\ freeFiles = <<>>
  /\ pc = [t \in Thread |-> "idle"]
  /\ fr = [t \in Thread |-> IdleFrame]
  /\ opened = {}
  /\ lost = {}
  /\ held = [h \in {} |-> Blank]
  /\ dirs = {}

Kernel(t) == SendOpen(t) \/ SendUse(t) \/ SendRelease(t) \/ ReplyOpen(t)
OpenFile(t) ==
  \/ FsOpen(t) \/ FsRefuses(t) \/ CreateFound(t) \/ CreateLost(t)
  \/ Register(t) \/ RegisterNew(t)
UseFile(t) == Find(t) \/ FsCallMore(t) \/ FsCall(t) \/ FsRelease(t) \/ Unregister(t)

Next == \E t \in Thread : Kernel(t) \/ OpenFile(t) \/ UseFile(t)
Spec == Init /\ [][Next]_vars

-----------------------------------------------------------------------------
(* Properties.                                                             *)

(* Every variable has its type (bridge.go:27-28, file.go:16-26).           *)
TypeOK ==
  /\ NFiles \in Nat \ {0} /\ files \in [0..NFiles - 1 -> Entry]
  /\ heap \in [Entry -> File]
  /\ freeFiles \in Seq(1..NFiles - 1)
  /\ pc \in [Thread -> Label]
  /\ fr \in [Thread -> [op : Op, fh : 0..NFiles - 1, file : File,
                        entry : Entry \cup {NoEntry}, calls : 1..MaxCalls]]
  /\ opened \subseteq UFh /\ lost \subseteq opened
  /\ held \in [Handles -> File] /\ Handles \subseteq 1..NFiles - 1
  /\ dirs \subseteq Handles

(* The goroutines that own handle fh: between registerFile and the reply,  *)
(* or between the request to release it and unregisterFile.                *)
OwnersOf(fh) == {t \in Thread :
  /\ fr[t].fh = fh
  /\ \/ pc[t] = "opened"
     \/ fr[t].op \in {"Release", "ReleaseDir"}}

(* Every slot of the table is free, once, or held by the kernel, or owned  *)
(* by one request: none is lost, none is given out twice, and the table    *)
(* grows only when all its slots are in use (file.go:79-110).              *)
SlotsExact ==
  \A fh \in 1..NFiles - 1 :
    Cardinality({k \in 1..Len(freeFiles) : freeFiles[k] = fh})
      + Cardinality({h \in Handles : h = fh}) + Cardinality(OwnersOf(fh)) = 1

(* A handle stands for the file it was opened for until it is released,    *)
(* and handle 0 for none: inodeAndFile (bridge.go:80-94) finds the opener, *)
(* the path and the uFh of that open.                                      *)
HandleIsFile ==
  \A fh \in Handles \cup {0} : heap[files[fh]] = FileOf(fh)

(* A call of the file system carries the file the kernel meant, although   *)
(* the entry is read after b.mu is dropped (file.go:65-70).                *)
CallIsTrue ==
  \A t \in Thread : pc[t] \in {"call", "release"} => heap[fr[t].entry] = fr[t].file

(* A handle of the file system is not released under the kernel's feet,    *)
(* and two handles of the kernel never share one (bridge.go:539-549).      *)
HeldIsOpen ==
  /\ \A fh \in Handles : held[fh].uFh # 0 => held[fh].uFh \in opened
  /\ \A g, h \in Handles : held[g].uFh = held[h].uFh => g = h \/ held[g].uFh = 0

(* What the file system opened is on its way into the table, in it, or on  *)
(* its way to fs.Release - unless Create opened it and could not look it   *)
(* up, which is the one way to lose a handle (bridge.go:446-487, 539-549). *)
NoFileLost ==
  \A u \in opened \ lost :
    \/ \E fh \in Handles : held[fh].uFh = u
    \/ \E t \in Thread : /\ fr[t].file.uFh = u
                         /\ pc[t] \in {"lookup", "register", "opened", "find", "release"}

-----------------------------------------------------------------------------
(* What these rest on.                                                     *)

(* The step a handler is at tells what it serves; a directory has no       *)
(* handle of the file system.                                              *)
FrameOK(l, f) ==
  /\ l = "idle" => f = IdleFrame
  /\ l \in {"open", "lookup"} => f.op \in {"Create", "Open"}
  /\ l \in {"register", "opened"} => f.op \in {"Create", "Open", "OpenDir"}
  /\ l = "find" => f.op \in {"Use", "Release"}
  /\ l = "call" => f.op = "Use"
  /\ l = "release" => f.op = "Release"
  /\ l = "unregister" => f.op \in {"Release", "ReleaseDir"}
  /\ l = "opened" => f.fh # 0
  /\ f.op \in {"OpenDir", "ReleaseDir"} \/ l = "open" => f.file.uFh = 0
FramesOK ==
  /\ \A t \in Thread : FrameOK(pc[t], fr[t])
  /\ \A fh \in dirs : held[fh].uFh = 0

(* A slot has one user: the free list, the kernel, or one request.         *)
SlotsOK ==
  /\ IsInjective(freeFiles)
  /\ \A fh \in Range(freeFiles) : fh \notin Handles /\ OwnersOf(fh) = {}
  /\ \A fh \in Handles : OwnersOf(fh) = {}
  /\ \A fh \in 1..NFiles - 1 : \A t, u \in OwnersOf(fh) : t = u
  /\ \A fh \in 1..NFiles - 1 :
       fh \in Range(freeFiles) \/ fh \in Handles \/ OwnersOf(fh) # {}

(* A request that uses or releases a handle finds its file there, and a    *)
(* handle that is used is not released meanwhile.                          *)
EntriesOK ==
  /\ IsInjective(files)
  /\ HandleIsFile
  /\ \A t \in Thread :
       LET f == fr[t]
       IN  /\ f.op = "Use" => f.fh \in Handles \cup {0}
           /\ f.op \in {"Use", "Release", "ReleaseDir"} \/ pc[t] = "opened" =>
                heap[files[f.fh]] = f.file
           /\ pc[t] \in {"call", "release"} => f.entry = files[f.fh]

(* The requests that carry a handle of the file system: nobody else has    *)
(* it, and it is open.                                                     *)
Carries(t) ==
  \/ pc[t] \in {"lookup", "register", "opened", "release"}
  \/ pc[t] = "find" /\ fr[t].op = "Release"
CarriersOK ==
  /\ \A fh \in Handles : held[fh].uFh # 0 => held[fh].uFh \in opened \ lost
  /\ \A g, h \in Handles : held[g].uFh = held[h].uFh => g = h \/ held[g].uFh = 0
  /\ \A t \in Thread : Carries(t) /\ fr[t].file.uFh # 0 =>
       /\ fr[t].file.uFh \in opened \ lost
       /\ \A fh \in Handles : held[fh].uFh # fr[t].file.uFh
       /\ \A u \in Thread : Carries(u) /\ fr[u].file.uFh = fr[t].file.uFh => u = t
  /\ \A v \in opened \ lost :
       \/ \E fh \in Handles : held[fh].uFh = v
       \/ \E t \in Thread : Carries(t) /\ fr[t].file.uFh = v

(* The inductive invariant behind the others: each slot of the table and   *)
(* each handle of the file system has one user at a time, which knows what *)
(* it stands for (file.go:65-110, bridge.go:446-549).                      *)
FileInv == TypeOK /\ FramesOK /\ SlotsOK /\ EntriesOK /\ CarriersOK
=============================================================================
