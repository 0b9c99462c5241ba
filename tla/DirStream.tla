----------------------------- MODULE DirStream -----------------------------
(***************************************************************************)
(* Reading a directory through one handle: ReadDir and ReadDirPlus         *)
(* (bridge.go:589-677).  The handle keeps the stream that Lsdir gave; a    *)
(* request carries the offset its reader has come to, and gets as many     *)
(* entries as fit.  d.mu is held for the whole request, but the directory  *)
(* changes in between, other readers of the handle rewind it, and what     *)
(* ReadDirPlus looks up may be gone.                                       *)
(***************************************************************************)
EXTENDS Naturals, Sequences, FiniteSets, Functions

CONSTANTS
  Reader,       \* who reads through the handle, each at an offset of its own
  File,         \* names of files
  Room,         \* entries that fit in a reply
  MaxRequests,  \* bound: requests in a behaviour
  MaxChanges    \* bound: files created or deleted
ASSUME BoundAssumption ==
  /\ IsFiniteSet(File) /\ Room \in Nat \ {0}
  /\ MaxRequests \in Nat /\ MaxChanges \in Nat

NoName == ""
Dot == "."
DotDot == ".."
ASSUME NameAssumption == File \cap {NoName, Dot, DotDot} = {}

Nobody == "nobody"
ASSUME ReaderAssumption == Nobody \notin Reader

VARIABLES
  dir,      \* the file system: the files of the directory
  stream,   \* d.stream; the empty sequence is nil
  mu,       \* who holds d.mu
  pc, fr,   \* per reader: the step of its request, and its local variables
  off, eof, \* per reader: the offset it has come to, whether that is the end
  got,      \* per reader: what it got since it last began at offset 0
  stay,     \* history: the files that were there all the time since,
  ever,     \*   those that were there at some time,
  alone,    \*   and whether nobody else has replaced the stream
  counted,  \* the bridge's lookup counts of the files
  known,    \* the kernel's
  issued, changes

handleVars == <<stream, mu>>
readerVars == <<off, eof, got>>
historyVars == <<stay, ever, alone>>
countVars == <<counted, known>>
boundVars == <<issued, changes>>
vars == <<dir, handleVars, pc, fr, readerVars, historyVars, countVars, boundVars>>

-----------------------------------------------------------------------------
(* A request: its offset, whether it is a ReadDirPlus, the next entry of   *)
(* the stream, the entries of its reply and those that were looked up.     *)
IdleFrame == [offset |-> 0, plus |-> FALSE, k |-> 1, out |-> <<>>, found |-> {}]

Go(r, l, f) ==
  /\ pc' = [pc EXCEPT ![r] = l]
  /\ fr' = [fr EXCEPT ![r] = f]

(* What Lsdir may answer: the files in any order, each once, and perhaps   *)
(* an entry with an empty name.                                            *)
Listings(S) ==
  {s \in [1..Cardinality(S) -> S] \cup [1..Cardinality(S) + 1 -> S \cup {NoName}] :
     \A n \in S : \E k \in DOMAIN s : \A j \in DOMAIN s : s[j] = n <=> j = k}

-----------------------------------------------------------------------------
(* Others create and delete files.                                         *)

Create(n) ==
  /\ n \notin dir /\ changes < MaxChanges
  /\ dir' = dir \cup {n}
  /\ ever' = [r \in Reader |-> ever[r] \cup {n}]
  /\ changes' = changes + 1
  /\ UNCHANGED <<handleVars, pc, fr, readerVars, stay, alone, countVars, issued>>

Delete(n) ==
  /\ n \in dir /\ changes < MaxChanges
  /\ dir' = dir \ {n}
  /\ stay' = [r \in Reader |-> stay[r] \ {n}]
  /\ changes' = changes + 1
  /\ UNCHANGED <<handleVars, pc, fr, readerVars, ever, alone, countVars, issued>>

-----------------------------------------------------------------------------
(* A reader goes on where it is, or rewinds.                               *)

Ask(r, o, plus) ==
  /\ pc[r] = "idle" /\ issued < MaxRequests
  /\ issued' = issued + 1
  /\ Go(r, "lock", [IdleFrame EXCEPT !.offset = o, !.plus = plus])
  /\ UNCHANGED <<dir, handleVars, countVars, changes>>

GoOn(r, plus) ==
  /\ off[r] > 0 /\ ~eof[r]
  /\ Ask(r, off[r], plus)
  /\ UNCHANGED <<readerVars, historyVars>>

Rewind(r, plus) ==
  /\ Ask(r, 0, plus)
  /\ off' = [off EXCEPT ![r] = 0]
  /\ eof' = [eof EXCEPT ![r] = FALSE]
  /\ got' = [got EXCEPT ![r] = <<>>]
  /\ stay' = [stay EXCEPT ![r] = dir]
  /\ ever' = [ever EXCEPT ![r] = dir]
  /\ alone' = [alone EXCEPT ![r] = TRUE]

(* The reply, and d.mu is dropped: the kernel counts the entries that came *)
(* with a node, and reads on behind the last one.                          *)
Return(r, f) ==
  /\ mu' = Nobody
  /\ Go(r, "idle", IdleFrame)
  /\ off' = [off EXCEPT ![r] = f.offset + Len(f.out)]
  /\ eof' = [eof EXCEPT ![r] = f.out = <<>>]
  /\ got' = [got EXCEPT ![r] = @ \o f.out]
  /\ known' = [n \in File |-> known[n] + IF n \in f.found THEN 1 ELSE 0]

-----------------------------------------------------------------------------
(* The handlers.                                                           *)

(* An offset behind the end is the end; others may have made the stream    *)
(* shorter since the reader got its offset.                                *)
Start_unchecked(r, s) ==
  /\ Go(r, "fill", [fr[r] EXCEPT !.k = 1 + fr[r].offset])
  /\ mu' = r
  /\ UNCHANGED <<readerVars, known>>
Start_again(r, s) ==
  IF fr[r].offset <= Len(s)
  THEN /\ Go(r, "fill", [fr[r] EXCEPT !.k = IF fr[r].offset > 0 THEN fr[r].offset ELSE 1])
       /\ mu' = r
       /\ UNCHANGED <<readerVars, known>>
  ELSE Return(r, fr[r])
Start(r, s) ==
  IF fr[r].offset <= Len(s)
  THEN /\ Go(r, "fill", [fr[r] EXCEPT !.k = 1 + fr[r].offset])
       /\ mu' = r
       /\ UNCHANGED <<readerVars, known>>
  ELSE Return(r, fr[r])

(* "rewinddir() should be as if reopening directory."                      *)
Stale_onlyNil(r) == stream = <<>>
Stale(r) == stream = <<>> \/ fr[r].offset = 0

Lock(r) ==
  /\ pc[r] = "lock" /\ mu = Nobody /\ ~Stale(r)
  /\ Start(r, stream)
  /\ UNCHANGED <<dir, stream, historyVars, counted, boundVars>>

LockToList(r) ==
  /\ pc[r] = "lock" /\ mu = Nobody /\ Stale(r)
  /\ mu' = r
  /\ Go(r, "lsdir", fr[r])
  /\ UNCHANGED <<dir, stream, readerVars, historyVars, countVars, boundVars>>

Lsdir(r) ==
  /\ pc[r] = "lsdir"
  /\ \E s \in Listings(dir) : stream' = s \o <<Dot, DotDot>>
  /\ alone' = [q \in Reader |-> q = r \/ (alone[q] /\ pc[q] = "idle" /\ off[q] = 0)]
  /\ Start(r, stream')
  /\ UNCHANGED <<dir, stay, ever, counted, boundVars>>

LsdirFails(r) ==
  /\ pc[r] = "lsdir"
  /\ mu' = Nobody
  /\ Go(r, "idle", IdleFrame)
  /\ UNCHANGED <<dir, stream, readerVars, historyVars, countVars, boundVars>>

(* The loop over the rest of the stream ends with it, or with the room.    *)
AtEnd(f) == f.k > Len(stream)
Filled(r) ==
  LET f == fr[r]
  IN  /\ pc[r] = "fill"
      /\ AtEnd(f) \/ (~AtEnd(f) /\ stream[f.k] # NoName /\ Len(f.out) = Room)
      /\ Return(r, f)
      /\ UNCHANGED <<dir, stream, historyVars, counted, boundVars>>

(* An empty name is skipped, and takes no place in the reply.              *)
Skip(r) ==
  LET f == fr[r]
  IN  /\ pc[r] = "fill" /\ ~AtEnd(f) /\ stream[f.k] = NoName
      /\ Go(r, "fill", [f EXCEPT !.k = @ + 1])
      /\ UNCHANGED <<dir, handleVars, readerVars, historyVars, countVars, boundVars>>

(* AddDirEntry, or AddDirLookupEntry and then the lookup of a real entry.  *)
Emit(r) ==
  LET f == fr[r]
      n == stream[f.k]
  IN  /\ pc[r] = "fill" /\ ~AtEnd(f) /\ n # NoName /\ Len(f.out) < Room
      /\ Go(r, IF f.plus /\ n \in File THEN "look" ELSE "fill",
            [f EXCEPT !.out = Append(@, n), !.k = @ + 1])
      /\ UNCHANGED <<dir, handleVars, readerVars, historyVars, countVars, boundVars>>

(* b.lookup: addChild counts an entry that is still there; one that is     *)
(* gone, or whose GetAttr fails, stays in the reply without a node, and    *)
(* the kernel does not count it.                                           *)
Lookup_eager(r) ==
  LET f == fr[r]
      n == stream[f.k - 1]
  IN  /\ pc[r] = "look"
      /\ counted' = [counted EXCEPT ![n] = @ + 1]
      /\ Go(r, "fill", IF n \in dir THEN [f EXCEPT !.found = @ \cup {n}] ELSE f)
      /\ UNCHANGED <<dir, handleVars, readerVars, historyVars, known, boundVars>>
Lookup(r) ==
  LET f == fr[r]
      n == stream[f.k - 1]
  IN  /\ pc[r] = "look"
      /\ \/ /\ n \in dir
            /\ counted' = [counted EXCEPT ![n] = @ + 1]
            /\ Go(r, "fill", [f EXCEPT !.found = @ \cup {n}])
         \/ /\ Go(r, "fill", f)
            /\ UNCHANGED counted
      /\ UNCHANGED <<dir, handleVars, readerVars, historyVars, known, boundVars>>

-----------------------------------------------------------------------------
(* OpenDir leaves the stream nil.                                          *)
Init ==
  /\ dir \in SUBSET File
  /\ stream = <<>>
  /\ mu = Nobody
  /\ pc = [r \in Reader |-> "idle"] /\ fr = [r \in Reader |-> IdleFrame]
  /\ off = [r \in Reader |-> 0] /\ eof = [r \in Reader |-> FALSE]
  /\ got = [r \in Reader |-> <<>>]
  /\ stay = [r \in Reader |-> dir] /\ ever = [r \in Reader |-> dir]
  /\ alone = [r \in Reader |-> TRUE]
  /\ counted = [n \in File |-> 0] /\ known = [n \in File |-> 0]
  /\ issued = 0 /\ changes = 0

Serve(r) ==
  \/ Lock(r) \/ LockToList(r) \/ Lsdir(r) \/ LsdirFails(r)
  \/ Filled(r) \/ Skip(r) \/ Emit(r) \/ Lookup(r)

Next ==
  \/ \E r \in Reader : Serve(r) \/ \E plus \in BOOLEAN : GoOn(r, plus) \/ Rewind(r, plus)
  \/ \E n \in File : Create(n) \/ Delete(n)

Spec == Init /\ [][Next]_vars

-----------------------------------------------------------------------------
(* Properties.                                                             *)

Label == {"idle", "lock", "lsdir", "fill", "look"}
Told == File \cup {Dot, DotDot}
Frame == [offset : Nat, plus : BOOLEAN, k : Nat \ {0}, out : Seq(Told), found : SUBSET File]
Serving(r) == pc[r] \in {"lsdir", "fill", "look"}

(* Every variable has its type; the slice d.stream[input.Offset:] stays    *)
(* within the stream (bridge.go:610-619, 653-657), whoever replaced it;    *)
(* and d.mu belongs to a request under way.                                *)
TypeOK ==
  /\ dir \subseteq File
  /\ stream \in Seq(Told \cup {NoName}) /\ mu \in Reader \cup {Nobody}
  /\ pc \in [Reader -> Label] /\ fr \in [Reader -> Frame]
  /\ off \in [Reader -> Nat] /\ eof \in [Reader -> BOOLEAN] /\ got \in [Reader -> Seq(Told)]
  /\ stay \in [Reader -> SUBSET File] /\ ever \in [Reader -> SUBSET File]
  /\ alone \in [Reader -> BOOLEAN]
  /\ counted \in [File -> Nat] /\ known \in [File -> Nat]
  /\ issued \in 0..MaxRequests /\ changes \in 0..MaxChanges
  /\ \A r \in Reader :
       /\ Serving(r) <=> mu = r
       /\ pc[r] \in {"fill", "look"} => fr[r].k <= Len(stream) + 1
       /\ Len(fr[r].out) <= Room

(* "we have to be sure entry will fit if we try to add it, or we'll mess   *)
(* up the lookup counts" (bridge.go:663-664): the bridge has counted what  *)
(* the kernel has, and the entries of the replies that are being filled.   *)
LookupsAgree ==
  \A n \in File :
    counted[n] = known[n] + Cardinality({r \in Reader : n \in fr[r].found})

(* A reader that has come to the end has been told of every file that was  *)
(* there from its rewind on, unless another reader rewound the handle; and *)
(* of no file that was not there at any time since, even then              *)
(* (bridge.go:599-608).                                                    *)
ListingFaithful ==
  \A r \in Reader :
    /\ Range(got[r]) \cap File \subseteq ever[r]
    /\ eof[r] /\ alone[r] => stay[r] \subseteq Range(got[r])

(* No entry is listed twice to a reader whose stream nobody else replaced,  *)
(* and which had no entry without a name: such an entry takes no place in  *)
(* the offsets of the reply (bridge.go:619-623), and those behind it come  *)
(* again.                                                                  *)
ListedOnce ==
  \A r \in Reader : alone[r] /\ NoName \notin Range(stream) => IsInjective(got[r])

-----------------------------------------------------------------------------
(* What these rest on.                                                     *)

(* The stream is nil until somebody reads; then it has every named entry   *)
(* once, and ".." at its end.                                              *)
StreamOK ==
  /\ \A j, k \in 1..Len(stream) : stream[j] = stream[k] => j = k \/ stream[j] = NoName
  /\ IF stream = <<>>
     THEN \A r \in Reader : off[r] = 0 /\ pc[r] \notin {"fill", "look"}
     ELSE stream[Len(stream)] = DotDot

(* A reply holds what the stream has between the offset and the next       *)
(* entry, and the offset it will leave is not behind that entry.           *)
ReplyOK(l, f) ==
  /\ l = "idle" => f = IdleFrame
  /\ l \in {"lock", "lsdir"} => f.out = <<>> /\ f.found = {}
  /\ l = "lsdir" => f.offset = 0
  /\ l = "look" => f.k > f.offset + 1 /\ stream[f.k - 1] \in File
  /\ l \in {"fill", "look"} =>
       /\ f.k > f.offset + Len(f.out)
       /\ \A j \in f.offset + 1..f.k - 1 : stream[j] = NoName \/ stream[j] \in Range(f.out)
       /\ NoName \notin Range(stream) =>
            /\ f.k = f.offset + Len(f.out) + 1
            /\ \A j \in 1..Len(f.out) : f.out[j] = stream[f.offset + j]
       /\ \A n \in f.found : \E j \in 1..f.k - 1 :
            stream[j] = n /\ (l = "look" => j # f.k - 1)
RepliesOK ==
  \A r \in Reader :
    /\ ReplyOK(pc[r], fr[r])
    /\ pc[r] # "idle" => fr[r].offset = off[r] /\ ~eof[r]

(* What a reader got, and what is on its way to it, was there since its    *)
(* rewind; while nobody else replaces the stream, that is all up to its    *)
(* offset.                                                                 *)
Reading(r) == off[r] > 0 \/ pc[r] \in {"fill", "look"}
ReaderOK(r) ==
  /\ stay[r] \subseteq dir /\ dir \subseteq ever[r]
  /\ off[r] = 0 => got[r] = <<>> /\ ~eof[r]
  /\ Reading(r) => Range(stream) \cap File \subseteq ever[r]
  /\ (Range(got[r]) \cup Range(fr[r].out)) \cap File \subseteq ever[r]
  /\ alone[r] /\ Reading(r) => stay[r] \subseteq Range(stream)
  /\ alone[r] => \A j \in 1..Len(stream) :
       j <= off[r] \/ eof[r] => stream[j] = NoName \/ stream[j] \in Range(got[r])
  /\ alone[r] /\ NoName \notin Range(stream) =>
       /\ off[r] <= Len(stream) /\ Len(got[r]) = off[r]
       /\ \A j \in 1..off[r] : got[r][j] = stream[j]
ReadersOK == \A r \in Reader : ReaderOK(r)

(* The inductive invariant behind the others: whatever comes between two   *)
(* requests of a reader, the offset it brings stands for the part of the   *)
(* stream it has got (bridge.go:589-677).                                  *)
StreamInv == TypeOK /\ StreamOK /\ RepliesOK /\ ReadersOK /\ LookupsAgree
=============================================================================
