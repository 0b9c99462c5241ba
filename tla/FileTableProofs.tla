--------------------------- MODULE FileTableProofs ---------------------------
(* Proofs about FileTable for any number of goroutines, files, owners,     *)
(* paths and handles, and a heap of any size.                              *)
EXTENDS FileTable, FiniteSetTheorems, SequenceTheorems, TLAPS

USE EntryAssumption, NameAssumption, HandleAssumption

-----------------------------------------------------------------------------
(* Types.                                                                  *)

(* The frames of requests on a table of n slots.                           *)
FrameSet(n) == [op : Op, fh : 0..n - 1, file : File, entry : Entry \cup {NoEntry},
                calls : 1..MaxCalls]

(* The number of handles below n.                                          *)
LEMMA IntervalSize ==
  ASSUME NEW n \in Nat
  PROVE  Cardinality(0..n - 1) = n
<1>1. CASE n = 0
  <2>1. 0..n - 1 = {}
    BY <1>1
  <2>2. QED
    BY <1>1, <2>1, FS_EmptySet
<1>2. CASE n # 0
  <2>1. n - 1 \in Nat /\ 0 <= n - 1
    BY <1>2
  <2>2. Cardinality(0..n - 1) = n - 1 - 0 + 1
    BY <2>1, FS_Interval
  <2>3. QED
    BY <2>2
<1>3. QED
  BY <1>1, <1>2

(* The blank file, and the frame of an idle goroutine.                     *)
LEMMA BlankOK ==
  ASSUME NEW n \in Nat, n > 0
  PROVE  Blank \in File /\ IdleFrame \in FrameSet(n)
<1>1. Blank \in File
  BY DEF Blank, File
<1>2. 1 \in 1..MaxCalls /\ 0 \in 0..n - 1
  OBVIOUS
<1>3. QED
  BY <1>1, <1>2 DEF IdleFrame, FrameSet, Op

(* TypeOK, with names for its parts.                                       *)
LEMMA TypeParts ==
  ASSUME TypeOK
  PROVE  /\ NFiles \in Nat \ {0} /\ files \in [0..NFiles - 1 -> Entry]
         /\ heap \in [Entry -> File] /\ freeFiles \in Seq(1..NFiles - 1)
         /\ pc \in [Thread -> Label] /\ fr \in [Thread -> FrameSet(NFiles)]
         /\ opened \subseteq UFh /\ lost \subseteq opened
         /\ held \in [Handles -> File] /\ Handles \subseteq 1..NFiles - 1
         /\ dirs \subseteq Handles
         /\ Blank \in File /\ IdleFrame \in FrameSet(NFiles)
         /\ \A fh : FileOf(fh) \in File
<1>1. /\ NFiles \in Nat \ {0} /\ files \in [0..NFiles - 1 -> Entry]
      /\ heap \in [Entry -> File] /\ freeFiles \in Seq(1..NFiles - 1)
      /\ pc \in [Thread -> Label] /\ fr \in [Thread -> FrameSet(NFiles)]
      /\ opened \subseteq UFh /\ lost \subseteq opened
      /\ held \in [Handles -> File] /\ Handles \subseteq 1..NFiles - 1
      /\ dirs \subseteq Handles
  BY DEF TypeOK, FrameSet
<1>2. Blank \in File /\ IdleFrame \in FrameSet(NFiles)
  BY <1>1, BlankOK
<1>3. \A fh : FileOf(fh) \in File
  BY <1>1, <1>2 DEF FileOf
<1>4. QED
  BY <1>1, <1>2, <1>3

(* Where a goroutine goes, and that the others stay.                       *)
LEMMA GoEffect ==
  ASSUME TypeOK, NEW t \in Thread, NEW l, NEW f, Go(t, l, f)
  PROVE  /\ pc'[t] = l /\ fr'[t] = f
         /\ \A u \in Thread \ {t} : pc'[u] = pc[u] /\ fr'[u] = fr[u]
  BY TypeParts DEF Go

(* A step to a good frame that leaves the length of the table.             *)
LEMMA GoType ==
  ASSUME TypeOK, NEW t \in Thread, NEW l \in Label, NEW f \in FrameSet(NFiles),
         Go(t, l, f), files' \in [0..NFiles - 1 -> Entry],
         heap' \in [Entry -> File], freeFiles' \in Seq(1..NFiles - 1),
         opened' \subseteq UFh, lost' \subseteq opened',
         held' \in [Handles' -> File], Handles' \subseteq 1..NFiles - 1,
         dirs' \subseteq Handles'
  PROVE  TypeOK'
<1>1. NFiles \in Nat \ {0} /\ pc \in [Thread -> Label]
      /\ fr \in [Thread -> FrameSet(NFiles)]
  BY TypeParts
<1>2. NFiles' = NFiles
  <2>1. DOMAIN files' = 0..NFiles - 1
    OBVIOUS
  <2>2. QED
    BY <1>1, <2>1, IntervalSize DEF NFiles
<1>3. pc' \in [Thread -> Label] /\ fr' \in [Thread -> FrameSet(NFiles)]
  BY <1>1 DEF Go
<1>4. fr' \in [Thread -> [op : Op, fh : 0..NFiles' - 1, file : File,
                          entry : Entry \cup {NoEntry}, calls : 1..MaxCalls]]
  BY <1>2, <1>3 DEF FrameSet
<1>5. QED
  BY <1>1, <1>2, <1>3, <1>4 DEF TypeOK

(* The same where table and kernel are left alone.                         *)
LEMMA GoTypeQuiet ==
  ASSUME TypeOK, NEW t \in Thread, NEW l \in Label, NEW f \in FrameSet(NFiles),
         Go(t, l, f), UNCHANGED tableVars, UNCHANGED kernelVars,
         opened' \subseteq UFh, lost' \subseteq opened'
  PROVE  TypeOK'
  BY GoType, TypeParts DEF tableVars, kernelVars, Handles

(* The slot freed last, and the slots that stay free.                      *)
LEMMA PopOK ==
  ASSUME NEW S, NEW s \in Seq(S), s # <<>>
  PROVE  /\ s[Len(s)] \in S /\ Len(s) \in 1..Len(s)
         /\ SubSeq(s, 1, Len(s) - 1) \in Seq(S)
         /\ Len(SubSeq(s, 1, Len(s) - 1)) = Len(s) - 1
         /\ \A k \in 1..Len(s) - 1 : SubSeq(s, 1, Len(s) - 1)[k] = s[k]
<1>1. Len(s) \in Nat \ {0} /\ \A k \in 1..Len(s) : s[k] \in S
  OBVIOUS
<1>2. Len(s) \in 1..Len(s) /\ Len(s) - 1 \in 0..Len(s) /\ 1 \in 1..Len(s) + 1
  BY <1>1
<1>3. s[Len(s)] \in S
  BY <1>1, <1>2
<1>4. PICK m \in Int : m = Len(s) - 1 /\ m + 1 = Len(s) /\ m >= 0
  BY <1>1
<1>5. \A i \in 1..m : s[i] \in S
  BY <1>1, <1>4
<1>6. /\ SubSeq(s, 1, m) \in Seq(S) /\ Len(SubSeq(s, 1, m)) = IF 1 <= m THEN m - 1 + 1 ELSE 0
      /\ \A i \in 1..m - 1 + 1 : SubSeq(s, 1, m)[i] = s[1 + i - 1]
  BY <1>5, SubSeqProperties
<1>7. Len(SubSeq(s, 1, m)) = m /\ \A i \in 1..m : SubSeq(s, 1, m)[i] = s[i]
  BY <1>4, <1>6
<1>8. QED
  BY <1>1, <1>2, <1>3, <1>4, <1>6, <1>7

(* What is in a free list after one more slot is freed.                    *)
LEMMA AppendRange ==
  ASSUME NEW S, NEW s \in Seq(S), NEW x \in S
  PROVE  Range(Append(s, x)) = Range(s) \cup {x}
<1>1. /\ Append(s, x) \in Seq(S) /\ Len(Append(s, x)) = Len(s) + 1
      /\ \A k \in 1..Len(s) : Append(s, x)[k] = s[k]
      /\ Append(s, x)[Len(s) + 1] = x
      /\ Len(s) \in Nat
  OBVIOUS
<1>2. DOMAIN Append(s, x) = 1..Len(s) + 1 /\ DOMAIN s = 1..Len(s)
  BY <1>1
<1>3. \A k : k \in 1..Len(s) + 1 <=> k \in 1..Len(s) \/ k = Len(s) + 1
  BY <1>1
<1>4. \A y : y \in Range(Append(s, x)) <=> \E k \in 1..Len(s) + 1 : y = Append(s, x)[k]
  BY <1>2 DEF Range
<1>5. \A y : y \in Range(s) <=> \E k \in 1..Len(s) : y = s[k]
  BY <1>2 DEF Range
<1>6. \A y : y \in Range(Append(s, x)) <=> y \in Range(s) \/ y = x
  BY <1>1, <1>3, <1>4, <1>5
<1>7. QED
  BY <1>6

(* Fields of a frame.                                                      *)
LEMMA FrameFields ==
  ASSUME TypeOK, NEW t \in Thread
  PROVE  /\ fr[t] \in FrameSet(NFiles) /\ fr[t].op \in Op /\ fr[t].file \in File
         /\ fr[t].fh \in 0..NFiles - 1 /\ fr[t].calls \in 1..MaxCalls
         /\ fr[t].entry \in Entry \cup {NoEntry}
         /\ \A fh \in 0..NFiles - 1 :
              /\ [fr[t] EXCEPT !.fh = fh] \in FrameSet(NFiles)
              /\ [fr[t] EXCEPT !.fh = fh].file = fr[t].file
              /\ [fr[t] EXCEPT !.fh = fh].op = fr[t].op
              /\ [fr[t] EXCEPT !.fh = fh].fh = fh
              /\ [fr[t] EXCEPT !.fh = fh].entry = fr[t].entry
  BY TypeParts DEF FrameSet

(* The frames of new requests.                                             *)
LEMMA RequestOK ==
  ASSUME TypeOK, NEW k \in Op, NEW fh \in 0..NFiles - 1, NEW x \in File, NEW n \in 1..MaxCalls
  PROVE  /\ [IdleFrame EXCEPT !.op = k, !.file = x] \in FrameSet(NFiles)
         /\ [IdleFrame EXCEPT !.op = k, !.fh = fh, !.file = x] \in FrameSet(NFiles)
         /\ [IdleFrame EXCEPT !.op = k, !.fh = fh, !.file = x, !.calls = n]
              \in FrameSet(NFiles)
  BY TypeParts DEF IdleFrame, FrameSet

(* The kernel's requests and replies keep the types.                       *)
LEMMA KernelType ==
  ASSUME TypeOK, FramesOK, NEW t \in Thread, Kernel(t)
  PROVE  TypeOK'
<1>0. /\ NFiles \in Nat \ {0} /\ Handles \subseteq 1..NFiles - 1
      /\ held \in [Handles -> File] /\ dirs \subseteq Handles
      /\ files \in [0..NFiles - 1 -> Entry]
      /\ heap \in [Entry -> File] /\ freeFiles \in Seq(1..NFiles - 1)
      /\ opened \subseteq UFh /\ lost \subseteq opened
      /\ 1 \in 1..MaxCalls /\ 0 \in 0..NFiles - 1 /\ Handles \subseteq 0..NFiles - 1
      /\ \A fh : FileOf(fh) \in File
  BY TypeParts
<1>1. CASE SendOpen(t)
  <2>1. PICK k \in {"Create", "Open", "OpenDir"}, o \in Owner, p \in Path :
          Go(t, IF k = "OpenDir" THEN "register" ELSE "open",
             [IdleFrame EXCEPT !.op = k, !.file = [Blank EXCEPT !.opener = o, !.path = p]])
    BY <1>1 DEF SendOpen
  <2>2. [Blank EXCEPT !.opener = o, !.path = p] \in File
    BY DEF Blank, File
  <2>3. [IdleFrame EXCEPT !.op = k, !.file = [Blank EXCEPT !.opener = o, !.path = p]]
          \in FrameSet(NFiles)
    BY <1>0, <2>2, RequestOK DEF Op
  <2>4. (IF k = "OpenDir" THEN "register" ELSE "open") \in Label
    BY DEF Label
  <2>5. UNCHANGED tableVars /\ UNCHANGED kernelVars /\ UNCHANGED fsVars
    BY <1>1 DEF SendOpen
  <2>6. QED
    BY <1>0, <2>1, <2>3, <2>4, <2>5, GoTypeQuiet DEF fsVars
<1>2. CASE SendUse(t)
  <2>1. PICK fh \in Handles \cup {0}, n \in 1..MaxCalls :
          Go(t, "find", [IdleFrame EXCEPT !.op = "Use", !.fh = fh, !.file = FileOf(fh),
                                          !.calls = n])
    BY <1>2 DEF SendUse
  <2>2. fh \in 0..NFiles - 1 /\ FileOf(fh) \in File
    BY <1>0
  <2>3. [IdleFrame EXCEPT !.op = "Use", !.fh = fh, !.file = FileOf(fh), !.calls = n]
          \in FrameSet(NFiles)
    BY <2>2, RequestOK DEF Op
  <2>4. UNCHANGED tableVars /\ UNCHANGED kernelVars /\ UNCHANGED fsVars
    BY <1>2 DEF SendUse
  <2>5. QED
    BY <1>0, <2>1, <2>3, <2>4, GoTypeQuiet DEF fsVars, Label
<1>3. CASE SendRelease(t)
  <2>1. PICK fh \in Handles \cup {0} :
          /\ \/ Go(t, "unregister", [IdleFrame EXCEPT !.op = "ReleaseDir", !.fh = fh,
                                       !.file = FileOf(fh)])
             \/ Go(t, "find", [IdleFrame EXCEPT !.op = "Release", !.fh = fh,
                                 !.file = FileOf(fh)])
          /\ held' = [h \in Handles \ {fh} |-> held[h]]
          /\ dirs' = dirs \ {fh}
    BY <1>3 DEF SendRelease
  <2>2. fh \in 0..NFiles - 1 /\ FileOf(fh) \in File
    BY <1>0
  <2>2a. \A k \in {"Release", "ReleaseDir"} : k \in Op
    BY DEF Op
  <2>3. \A k \in {"Release", "ReleaseDir"} :
          [IdleFrame EXCEPT !.op = k, !.fh = fh, !.file = FileOf(fh)] \in FrameSet(NFiles)
    BY <1>0, <2>2, <2>2a, RequestOK
  <2>4. UNCHANGED <<files, heap, freeFiles, opened, lost>>
    BY <1>3 DEF SendRelease, tableVars, fsVars
  <2>5. /\ Handles' = Handles \ {fh} /\ held' \in [Handles' -> File]
        /\ Handles' \subseteq 1..NFiles - 1 /\ dirs' \subseteq Handles'
    BY <1>0, <2>1 DEF Handles
  <2>6. QED
    BY <1>0, <2>1, <2>3, <2>4, <2>5, GoType DEF Label
<1>4. CASE ReplyOpen(t)
  <2>1. UNCHANGED <<files, heap, freeFiles, opened, lost>> /\ Go(t, "idle", IdleFrame)
    BY <1>4 DEF ReplyOpen, tableVars, fsVars, Finish
  <2>2. fr[t].fh # 0
    BY <1>4 DEF ReplyOpen, FramesOK, FrameOK
  <2>3. fr[t].fh \in 1..NFiles - 1 /\ fr[t].file \in File
    BY <1>0, <2>2, FrameFields
  <2>4. /\ held' = [h \in Handles \cup {fr[t].fh} |->
                      IF h = fr[t].fh THEN fr[t].file ELSE held[h]]
        /\ dirs' \subseteq dirs \cup {fr[t].fh}
    BY <1>4 DEF ReplyOpen
  <2>5. /\ Handles' = Handles \cup {fr[t].fh} /\ held' \in [Handles' -> File]
        /\ Handles' \subseteq 1..NFiles - 1 /\ dirs' \subseteq Handles'
    BY <1>0, <2>3, <2>4 DEF Handles
  <2>6. IdleFrame \in FrameSet(NFiles) /\ "idle" \in Label
    BY TypeParts DEF Label
  <2>7. QED
    BY <1>0, <2>1, <2>5, <2>6, GoType
<1>5. QED
  BY <1>1, <1>2, <1>3, <1>4 DEF Kernel

(* An open keeps the types.  What Create loses was open, and nobody had    *)
(* lost it before.                                                         *)
LEMMA OpenType ==
  ASSUME TypeOK, CarriersOK, NEW t \in Thread, OpenFile(t)
  PROVE  TypeOK'
<1>0. /\ NFiles \in Nat \ {0} /\ files \in [0..NFiles - 1 -> Entry]
      /\ heap \in [Entry -> File] /\ freeFiles \in Seq(1..NFiles - 1)
      /\ opened \subseteq UFh /\ lost \subseteq opened
      /\ held \in [Handles -> File] /\ Handles \subseteq 1..NFiles - 1
      /\ dirs \subseteq Handles
      /\ IdleFrame \in FrameSet(NFiles) /\ fr[t] \in FrameSet(NFiles)
      /\ fr[t].file \in File
  BY TypeParts, FrameFields
<1>1. CASE FsOpen(t)
  <2>1. PICK u \in (UFh \cup {0}) \ opened :
          /\ opened' = (opened \cup {u}) \ {0}
          /\ Go(t, IF fr[t].op = "Create" THEN "lookup" ELSE "register",
                [fr[t] EXCEPT !.file.uFh = u])
    BY <1>1 DEF FsOpen
  <2>2. [fr[t] EXCEPT !.file.uFh = u] \in FrameSet(NFiles)
    BY <1>0 DEF FrameSet, File
  <2>3. (IF fr[t].op = "Create" THEN "lookup" ELSE "register") \in Label
    BY DEF Label
  <2>4. UNCHANGED tableVars /\ UNCHANGED kernelVars /\ lost' = lost
    BY <1>1 DEF FsOpen
  <2>5. opened' \subseteq UFh /\ lost' \subseteq opened'
    BY <1>0, <2>1, <2>4
  <2>6. QED
    BY <2>1, <2>2, <2>3, <2>4, <2>5, GoTypeQuiet
<1>2. CASE FsRefuses(t)
  <2>1. Go(t, "idle", IdleFrame) /\ UNCHANGED <<tableVars, fsVars, kernelVars>>
    BY <1>2 DEF FsRefuses, Finish
  <2>2. QED
    BY <1>0, <2>1, GoTypeQuiet DEF fsVars, Label
<1>3. CASE CreateFound(t)
  <2>1. Go(t, "register", fr[t]) /\ UNCHANGED <<tableVars, fsVars, kernelVars>>
    BY <1>3 DEF CreateFound
  <2>2. QED
    BY <1>0, <2>1, GoTypeQuiet DEF fsVars, Label
<1>4. CASE CreateLost(t)
  <2>1. /\ Go(t, "idle", IdleFrame) /\ UNCHANGED <<tableVars, opened, kernelVars>>
        /\ lost' = (lost \cup {fr[t].file.uFh}) \ {0}
    BY <1>4 DEF CreateLost, Finish
  <2>2. fr[t].file.uFh # 0 => fr[t].file.uFh \in opened
    BY <1>4 DEF CreateLost, CarriersOK, Carries
  <2>3. lost' \subseteq opened'
    BY <1>0, <2>1, <2>2
  <2>4. QED
    BY <1>0, <2>1, <2>3, GoTypeQuiet DEF Label
<1>5. CASE Register(t)
  <2> DEFINE fh == freeFiles[Len(freeFiles)]
             rest == SubSeq(freeFiles, 1, Len(freeFiles) - 1)
  <2>1. /\ freeFiles # <<>> /\ heap' = [heap EXCEPT ![files[fh]] = fr[t].file]
        /\ Go(t, "opened", [fr[t] EXCEPT !.fh = fh]) /\ freeFiles' = rest
        /\ UNCHANGED <<files, fsVars, kernelVars>>
    BY <1>5 DEF Register
  <2>2. fh \in 1..NFiles - 1 /\ rest \in Seq(1..NFiles - 1)
    BY <1>0, <2>1, PopOK
  <2> HIDE DEF fh, rest
  <2>3. [fr[t] EXCEPT !.fh = fh] \in FrameSet(NFiles) /\ heap' \in [Entry -> File]
    BY <1>0, <2>1, <2>2, FrameFields
  <2>4. UNCHANGED <<files, opened, lost, held, dirs>>
    BY <2>1 DEF fsVars, kernelVars
  <2>5. QED
    BY <1>0, <2>1, <2>2, <2>3, <2>4, GoType DEF Handles, Label
<1>6. CASE RegisterNew(t)
  <2>1. PICK e \in Unused :
          /\ files' = [h \in 0..NFiles |-> IF h = NFiles THEN e ELSE files[h]]
          /\ heap' = [heap EXCEPT ![e] = fr[t].file]
    BY <1>6 DEF RegisterNew
  <2>2. Go(t, "opened", [fr[t] EXCEPT !.fh = NFiles])
        /\ UNCHANGED <<freeFiles, fsVars, kernelVars>> /\ freeFiles = <<>>
    BY <1>6 DEF RegisterNew
  <2>3. NFiles' = NFiles + 1
    <3>1. DOMAIN files' = 0..(NFiles + 1) - 1
      BY <1>0, <2>1
    <3>2. QED
      BY <1>0, <3>1, IntervalSize DEF NFiles
  <2> DEFINE n == NFiles
  <2>4. n \in Nat /\ NFiles' = n + 1 /\ 0..n - 1 \subseteq 0..n /\ n \in 0..n
        /\ 1..n - 1 \subseteq 1..n /\ (n + 1) - 1 = n /\ n + 1 \in Nat \ {0}
    BY <1>0, <2>3
  <2>5. e \in Entry /\ files' \in [0..n -> Entry] /\ heap' \in [Entry -> File]
    BY <1>0, <2>1 DEF Unused
  <2>6. fr \in [Thread -> FrameSet(n)] /\ pc \in [Thread -> Label]
    BY TypeParts
  <2>7. fr' = [fr EXCEPT ![t] = [fr[t] EXCEPT !.fh = n]] /\ pc' = [pc EXCEPT ![t] = "opened"]
    BY <2>2 DEF Go
  <2> HIDE DEF n
  <2>8. FrameSet(n) \subseteq FrameSet(n + 1)
    BY <2>4 DEF FrameSet
  <2>9. [fr[t] EXCEPT !.fh = n] \in FrameSet(n + 1)
    BY <2>4, <2>6 DEF FrameSet
  <2>10. fr' \in [Thread -> FrameSet(n + 1)] /\ pc' \in [Thread -> Label]
    BY <2>6, <2>7, <2>8, <2>9 DEF Label
  <2>11. freeFiles' \in Seq(1..n)
    BY <2>2
  <2>12. UNCHANGED <<opened, lost, held, dirs>>
    BY <2>2 DEF fsVars, kernelVars
  <2>13. held' \in [Handles' -> File] /\ Handles' \subseteq 1..n /\ dirs' \subseteq Handles'
    BY <1>0, <2>4, <2>12 DEF Handles, n
  <2>14. NFiles' - 1 = n /\ NFiles' \in Nat \ {0}
    BY <2>4
  <2>15. QED
    BY <1>0, <2>4, <2>5, <2>10, <2>11, <2>12, <2>13, <2>14 DEF TypeOK, FrameSet
<1>7. QED
  BY <1>1, <1>2, <1>3, <1>4, <1>5, <1>6 DEF OpenFile

(* The file a request uses or releases is the one of its entry.            *)
LEMMA EntryIsFile ==
  ASSUME TypeOK, FramesOK, EntriesOK, NEW t \in Thread, pc[t] \in {"call", "release"}
  PROVE  heap[fr[t].entry] = fr[t].file
  BY DEF FramesOK, FrameOK, EntriesOK

(* Uses and releases keep the types.  What is released was not lost.       *)
LEMMA UseType ==
  ASSUME TypeOK, FramesOK, EntriesOK, CarriersOK, NEW t \in Thread, UseFile(t)
  PROVE  TypeOK'
<1>0. /\ NFiles \in Nat \ {0} /\ files \in [0..NFiles - 1 -> Entry]
      /\ heap \in [Entry -> File] /\ freeFiles \in Seq(1..NFiles - 1)
      /\ opened \subseteq UFh /\ lost \subseteq opened
      /\ held \in [Handles -> File] /\ Handles \subseteq 1..NFiles - 1
      /\ dirs \subseteq Handles
      /\ IdleFrame \in FrameSet(NFiles) /\ fr[t] \in FrameSet(NFiles)
      /\ fr[t].file \in File /\ fr[t].fh \in 0..NFiles - 1 /\ fr[t].calls \in 1..MaxCalls
      /\ Blank \in File
  BY TypeParts, FrameFields
<1>1. CASE Find(t)
  <2>1. /\ Go(t, IF fr[t].op = "Release" THEN "release" ELSE "call",
             [fr[t] EXCEPT !.entry = files[fr[t].fh]])
        /\ UNCHANGED <<tableVars, fsVars, kernelVars>>
    BY <1>1 DEF Find
  <2>2. [fr[t] EXCEPT !.entry = files[fr[t].fh]] \in FrameSet(NFiles)
    BY <1>0 DEF FrameSet
  <2>3. (IF fr[t].op = "Release" THEN "release" ELSE "call") \in Label
    BY DEF Label
  <2>4. QED
    BY <1>0, <2>1, <2>2, <2>3, GoTypeQuiet DEF fsVars
<1>2. CASE FsCallMore(t)
  <2>1. /\ Go(t, "call", [fr[t] EXCEPT !.calls = fr[t].calls - 1]) /\ fr[t].calls > 1
        /\ UNCHANGED <<tableVars, fsVars, kernelVars>>
    BY <1>2 DEF FsCallMore
  <2>2. fr[t].calls - 1 \in 1..MaxCalls
    BY <1>0, <2>1
  <2>3. [fr[t] EXCEPT !.calls = fr[t].calls - 1] \in FrameSet(NFiles)
    BY <1>0, <2>2 DEF FrameSet
  <2>4. QED
    BY <1>0, <2>1, <2>3, GoTypeQuiet DEF fsVars, Label
<1>3. CASE FsCall(t)
  <2>1. Go(t, "idle", IdleFrame) /\ UNCHANGED <<tableVars, fsVars, kernelVars>>
    BY <1>3 DEF FsCall, Finish
  <2>2. QED
    BY <1>0, <2>1, GoTypeQuiet DEF fsVars, Label
<1>4. CASE FsRelease(t)
  <2>1. /\ Go(t, "unregister", fr[t]) /\ UNCHANGED <<tableVars, lost, kernelVars>>
        /\ opened' = opened \ {heap[fr[t].entry].uFh} /\ pc[t] = "release"
    BY <1>4 DEF FsRelease
  <2>2. heap[fr[t].entry] = fr[t].file
    BY <2>1, EntryIsFile
  <2>3. fr[t].file.uFh = 0 \/ fr[t].file.uFh \notin lost
    BY <2>1 DEF CarriersOK, Carries
  <2>4. opened' \subseteq UFh /\ lost' \subseteq opened'
    BY <1>0, <2>1, <2>2, <2>3
  <2>5. QED
    BY <1>0, <2>1, <2>4, GoTypeQuiet DEF Label
<1>5. CASE Unregister(t)
  <2>1. Go(t, "idle", IdleFrame) /\ UNCHANGED <<opened, lost, held, dirs>>
    BY <1>5 DEF Unregister, Finish, fsVars, kernelVars
  <2>2. CASE fr[t].fh = 0
    <3>1. UNCHANGED <<files, heap, freeFiles>>
      BY <1>5, <2>2 DEF Unregister, tableVars
    <3>2. QED
      BY <1>0, <2>1, <3>1, GoType DEF Handles, Label
  <2>3. CASE fr[t].fh # 0
    <3>1. PICK e \in Unused : files' = [files EXCEPT ![fr[t].fh] = e]
                              /\ heap' = [heap EXCEPT ![e] = Blank]
      BY <1>5, <2>3 DEF Unregister
    <3>2. freeFiles' = Append(freeFiles, fr[t].fh) /\ fr[t].fh \in 1..NFiles - 1
      BY <1>0, <1>5, <2>3 DEF Unregister
    <3>3. files' \in [0..NFiles - 1 -> Entry] /\ heap' \in [Entry -> File]
          /\ freeFiles' \in Seq(1..NFiles - 1)
      BY <1>0, <3>1, <3>2 DEF Unused
    <3>4. QED
      BY <1>0, <2>1, <3>3, GoType DEF Handles, Label
  <2>4. QED
    BY <2>2, <2>3
<1>6. QED
  BY <1>1, <1>2, <1>3, <1>4, <1>5 DEF UseFile

-----------------------------------------------------------------------------
(* Frames.                                                                 *)

(* A step to a frame that fits its label.                                  *)
LEMMA GoFrames ==
  ASSUME TypeOK, FramesOK, NEW t \in Thread, NEW l, NEW f, Go(t, l, f), FrameOK(l, f),
         \A fh \in dirs' : held'[fh].uFh = 0
  PROVE  FramesOK'
<1>1. \A u \in Thread : FrameOK(pc'[u], fr'[u])
  BY GoEffect DEF FramesOK
<1>2. QED
  BY <1>1 DEF FramesOK, FrameOK

(* The idle frame fits.                                                    *)
LEMMA IdleOK == FrameOK("idle", IdleFrame)
  BY DEF FrameOK, IdleFrame, Blank

(* The kernel's requests fit the step they start at.                       *)
LEMMA KernelFrames ==
  ASSUME TypeOK, FramesOK, SlotsOK, NEW t \in Thread, Kernel(t)
  PROVE  FramesOK'
<1>0. \A fh \in dirs : held[fh].uFh = 0
  BY DEF FramesOK
<1>1. CASE SendOpen(t)
  <2>1. PICK k \in {"Create", "Open", "OpenDir"}, o \in Owner, p \in Path :
          Go(t, IF k = "OpenDir" THEN "register" ELSE "open",
             [IdleFrame EXCEPT !.op = k, !.file = [Blank EXCEPT !.opener = o, !.path = p]])
    BY <1>1 DEF SendOpen
  <2>2. FrameOK(IF k = "OpenDir" THEN "register" ELSE "open",
             [IdleFrame EXCEPT !.op = k, !.file = [Blank EXCEPT !.opener = o, !.path = p]])
    BY DEF FrameOK, IdleFrame, Blank
  <2>3. UNCHANGED kernelVars
    BY <1>1 DEF SendOpen
  <2>4. QED
    BY <1>0, <2>1, <2>2, <2>3, GoFrames DEF kernelVars
<1>2. CASE SendUse(t)
  <2>1. PICK fh \in Handles \cup {0}, n \in 1..MaxCalls :
          Go(t, "find", [IdleFrame EXCEPT !.op = "Use", !.fh = fh, !.file = FileOf(fh),
                                          !.calls = n])
    BY <1>2 DEF SendUse
  <2>2. FrameOK("find", [IdleFrame EXCEPT !.op = "Use", !.fh = fh, !.file = FileOf(fh),
                                          !.calls = n])
    BY DEF FrameOK, IdleFrame
  <2>3. UNCHANGED kernelVars
    BY <1>2 DEF SendUse
  <2>4. QED
    BY <1>0, <2>1, <2>2, <2>3, GoFrames DEF kernelVars
<1>3. CASE SendRelease(t)
  <2>1. PICK fh \in Handles \cup {0} :
          /\ IF fh \in dirs
             THEN Go(t, "unregister", [IdleFrame EXCEPT !.op = "ReleaseDir", !.fh = fh,
                                         !.file = FileOf(fh)])
             ELSE Go(t, "find", [IdleFrame EXCEPT !.op = "Release", !.fh = fh,
                                   !.file = FileOf(fh)])
          /\ held' = [h \in Handles \ {fh} |-> held[h]]
          /\ dirs' = dirs \ {fh}
    BY <1>3 DEF SendRelease
  <2>2. \A h \in dirs' : held'[h].uFh = 0
    BY <1>0, <2>1, TypeParts
  <2>3. CASE fh \in dirs
    <3>1. FileOf(fh).uFh = 0
      BY <1>0, <2>3, TypeParts DEF FileOf
    <3>2. FrameOK("unregister", [IdleFrame EXCEPT !.op = "ReleaseDir", !.fh = fh,
                                   !.file = FileOf(fh)])
      BY <3>1 DEF FrameOK, IdleFrame
    <3>3. QED
      BY <2>1, <2>2, <2>3, <3>2, GoFrames
  <2>4. CASE fh \notin dirs
    <3>1. FrameOK("find", [IdleFrame EXCEPT !.op = "Release", !.fh = fh, !.file = FileOf(fh)])
      BY DEF FrameOK, IdleFrame
    <3>2. QED
      BY <2>1, <2>2, <2>4, <3>1, GoFrames
  <2>5. QED
    BY <2>3, <2>4
<1>4. CASE ReplyOpen(t)
  <2>1. /\ Go(t, "idle", IdleFrame) /\ pc[t] = "opened"
        /\ held' = [h \in Handles \cup {fr[t].fh} |->
                      IF h = fr[t].fh THEN fr[t].file ELSE held[h]]
        /\ dirs' = IF fr[t].op = "OpenDir" THEN dirs \cup {fr[t].fh} ELSE dirs
    BY <1>4 DEF ReplyOpen, Finish
  <2>2. fr[t].op = "OpenDir" => fr[t].file.uFh = 0
    BY DEF FramesOK, FrameOK
  <2>3. CASE fr[t].op = "OpenDir"
    <3>1. \A h \in dirs' : held'[h].uFh = 0
      BY <1>0, <2>1, <2>2, <2>3, TypeParts
    <3>2. QED
      BY <2>1, <3>1, GoFrames, IdleOK
  <2>4. CASE fr[t].op # "OpenDir"
    <3>1. t \in OwnersOf(fr[t].fh)
      BY <2>1 DEF OwnersOf
    <3>2. fr[t].fh \notin dirs
      BY <3>1, TypeParts DEF SlotsOK
    <3>3. \A h \in dirs' : held'[h].uFh = 0
      BY <1>0, <2>1, <2>4, <3>2, TypeParts
    <3>4. QED
      BY <2>1, <3>3, GoFrames, IdleOK
  <2>5. QED
    BY <2>3, <2>4
<1>5. QED
  BY <1>1, <1>2, <1>3, <1>4 DEF Kernel

(* So do the steps of the handlers.                                        *)
LEMMA HandlerFrames ==
  ASSUME TypeOK, FramesOK, NEW t \in Thread, OpenFile(t) \/ UseFile(t)
  PROVE  FramesOK'
<1>0. /\ \A fh \in dirs : held[fh].uFh = 0
      /\ FrameOK(pc[t], fr[t])
      /\ fr[t] \in FrameSet(NFiles) /\ fr[t].file \in File /\ fr[t].fh \in 0..NFiles - 1
      /\ NFiles \in Nat \ {0}
  BY TypeParts, FrameFields DEF FramesOK
<1>1. UNCHANGED kernelVars
  BY DEF OpenFile, UseFile, FsOpen, FsRefuses, CreateFound, CreateLost, Register,
         RegisterNew, Find, FsCallMore, FsCall, FsRelease, Unregister
<1>2. \A h \in dirs' : held'[h].uFh = 0
  BY <1>0, <1>1 DEF kernelVars
<1>3. CASE FsOpen(t)
  <2>1. PICK u : Go(t, IF fr[t].op = "Create" THEN "lookup" ELSE "register",
                     [fr[t] EXCEPT !.file.uFh = u])
    BY <1>3 DEF FsOpen
  <2>2. fr[t].op \in {"Create", "Open"}
    BY <1>0, <1>3 DEF FsOpen, FrameOK
  <2>3. FrameOK(IF fr[t].op = "Create" THEN "lookup" ELSE "register",
                [fr[t] EXCEPT !.file.uFh = u])
    BY <1>0, <2>2 DEF FrameOK, FrameSet
  <2>4. QED
    BY <1>2, <2>1, <2>3, GoFrames
<1>4. CASE FsRefuses(t) \/ CreateLost(t) \/ FsCall(t) \/ Unregister(t)
  <2>1. Go(t, "idle", IdleFrame)
    BY <1>4 DEF FsRefuses, CreateLost, FsCall, Unregister, Finish
  <2>2. QED
    BY <1>2, <2>1, IdleOK, GoFrames
<1>5. CASE CreateFound(t)
  <2>1. Go(t, "register", fr[t]) /\ pc[t] = "lookup"
    BY <1>5 DEF CreateFound
  <2>2. FrameOK("register", fr[t])
    BY <1>0, <2>1 DEF FrameOK
  <2>3. QED
    BY <1>2, <2>1, <2>2, GoFrames
<1>6. CASE Register(t) \/ RegisterNew(t)
  <2>1. PICK fh : Go(t, "opened", [fr[t] EXCEPT !.fh = fh]) /\ fh # 0
    <3>1. CASE Register(t)
      <4>1. freeFiles[Len(freeFiles)] \in 1..NFiles - 1
        BY <3>1, PopOK, TypeParts DEF Register
      <4>2. freeFiles[Len(freeFiles)] # 0
        BY <4>1
      <4>3. QED
        BY <3>1, <4>2 DEF Register
    <3>2. CASE RegisterNew(t)
      BY <1>0, <3>2 DEF RegisterNew
    <3>3. QED
      BY <1>6, <3>1, <3>2
  <2>2. pc[t] = "register"
    BY <1>6 DEF Register, RegisterNew
  <2>3. FrameOK("opened", [fr[t] EXCEPT !.fh = fh])
    BY <1>0, <2>1, <2>2 DEF FrameOK, FrameSet
  <2>4. QED
    BY <1>2, <2>1, <2>3, GoFrames
<1>7. CASE Find(t)
  <2>1. Go(t, IF fr[t].op = "Release" THEN "release" ELSE "call",
           [fr[t] EXCEPT !.entry = files[fr[t].fh]]) /\ pc[t] = "find"
    BY <1>7 DEF Find
  <2>2. FrameOK(IF fr[t].op = "Release" THEN "release" ELSE "call",
                [fr[t] EXCEPT !.entry = files[fr[t].fh]])
    BY <1>0, <2>1 DEF FrameOK, FrameSet
  <2>3. QED
    BY <1>2, <2>1, <2>2, GoFrames
<1>8. CASE FsCallMore(t)
  <2>1. Go(t, "call", [fr[t] EXCEPT !.calls = fr[t].calls - 1]) /\ pc[t] = "call"
    BY <1>8 DEF FsCallMore
  <2>2. FrameOK("call", [fr[t] EXCEPT !.calls = fr[t].calls - 1])
    BY <1>0, <2>1 DEF FrameOK, FrameSet
  <2>3. QED
    BY <1>2, <2>1, <2>2, GoFrames
<1>9. CASE FsRelease(t)
  <2>1. Go(t, "unregister", fr[t]) /\ pc[t] = "release"
    BY <1>9 DEF FsRelease
  <2>2. FrameOK("unregister", fr[t])
    BY <1>0, <2>1 DEF FrameOK
  <2>3. QED
    BY <1>2, <2>1, <2>2, GoFrames
<1>10. QED
  BY <1>3, <1>4, <1>5, <1>6, <1>7, <1>8, <1>9 DEF OpenFile, UseFile

-----------------------------------------------------------------------------
(* Slots.                                                                  *)

(* A goroutine at label l with frame f owns handle h.                      *)
Owns(l, f, h) == f.fh = h /\ (l = "opened" \/ f.op \in {"Release", "ReleaseDir"})

(* Who owns a handle after a step.                                         *)
LEMMA GoOwners ==
  ASSUME TypeOK, NEW t \in Thread, NEW l, NEW f, Go(t, l, f), NEW h
  PROVE  /\ Owns(l, f, h) => OwnersOf(h)' = OwnersOf(h) \cup {t}
         /\ ~Owns(l, f, h) => OwnersOf(h)' = OwnersOf(h) \ {t}
         /\ t \in OwnersOf(h) <=> Owns(pc[t], fr[t], h)
  BY GoEffect DEF Owns, OwnersOf

(* A step after which the same goroutines own the same slots.              *)
LEMMA SlotsQuiet ==
  ASSUME TypeOK, SlotsOK, NEW t \in Thread, NEW l, NEW f, Go(t, l, f),
         NFiles' = NFiles, freeFiles' = freeFiles, Handles' = Handles,
         \A h \in 1..NFiles - 1 : Owns(l, f, h) <=> Owns(pc[t], fr[t], h)
  PROVE  SlotsOK'
<1>1. ASSUME NEW h \in 1..NFiles - 1 PROVE OwnersOf(h)' = OwnersOf(h)
  <2>1. CASE Owns(l, f, h)
    BY <2>1, GoOwners
  <2>2. CASE ~Owns(l, f, h)
    BY <2>2, GoOwners
  <2>3. QED
    BY <2>1, <2>2
<1>2. Range(freeFiles) \subseteq 1..NFiles - 1 /\ Handles \subseteq 1..NFiles - 1
  BY TypeParts DEF Range
<1>3. IsInjective(freeFiles)' /\ Range(freeFiles)' = Range(freeFiles)
  BY DEF SlotsOK
<1>4. /\ \A fh \in Range(freeFiles) : fh \notin Handles /\ OwnersOf(fh)' = {}
      /\ \A fh \in Handles : OwnersOf(fh)' = {}
      /\ \A fh \in 1..NFiles - 1 : \A v, w \in OwnersOf(fh)' : v = w
      /\ \A fh \in 1..NFiles - 1 :
           fh \in Range(freeFiles) \/ fh \in Handles \/ OwnersOf(fh)' # {}
  BY <1>1, <1>2 DEF SlotsOK
<1>5. QED
  BY <1>3, <1>4 DEF SlotsOK

(* The kernel hands a slot over to the request to release it, and takes    *)
(* one with the reply to an open.                                          *)
LEMMA KernelSlots ==
  ASSUME TypeOK, FramesOK, SlotsOK, NEW t \in Thread, Kernel(t)
  PROVE  SlotsOK'
<1>0. /\ NFiles \in Nat \ {0} /\ Handles \subseteq 1..NFiles - 1
      /\ fr[t].fh \in 0..NFiles - 1
      /\ Range(freeFiles) \subseteq 1..NFiles - 1
  BY TypeParts, FrameFields DEF Range
<1>1. UNCHANGED tableVars
  BY DEF Kernel, SendOpen, SendUse, SendRelease, ReplyOpen
<1>2. NFiles' = NFiles /\ freeFiles' = freeFiles
  BY <1>1 DEF tableVars, NFiles
<1>3. pc[t] = "idle" => \A h : ~Owns(pc[t], fr[t], h) /\ ~Owns("idle", IdleFrame, h)
  BY DEF Owns, FramesOK, FrameOK, IdleFrame
<1>4. CASE SendOpen(t)
  <2>1. PICK k \in {"Create", "Open", "OpenDir"}, o \in Owner, p \in Path :
          Go(t, IF k = "OpenDir" THEN "register" ELSE "open",
             [IdleFrame EXCEPT !.op = k, !.file = [Blank EXCEPT !.opener = o, !.path = p]])
    BY <1>4 DEF SendOpen
  <2>2. \A h : ~Owns(IF k = "OpenDir" THEN "register" ELSE "open",
             [IdleFrame EXCEPT !.op = k, !.file = [Blank EXCEPT !.opener = o, !.path = p]], h)
    BY DEF Owns, IdleFrame
  <2>3. UNCHANGED kernelVars /\ pc[t] = "idle"
    BY <1>4 DEF SendOpen
  <2>4. QED
    BY <1>2, <1>3, <2>1, <2>2, <2>3, SlotsQuiet DEF kernelVars, Handles
<1>5. CASE SendUse(t)
  <2>1. PICK fh \in Handles \cup {0}, n \in 1..MaxCalls :
          Go(t, "find", [IdleFrame EXCEPT !.op = "Use", !.fh = fh, !.file = FileOf(fh),
                                          !.calls = n])
    BY <1>5 DEF SendUse
  <2>2. \A h : ~Owns("find", [IdleFrame EXCEPT !.op = "Use", !.fh = fh,
                                 !.file = FileOf(fh), !.calls = n], h)
    BY DEF Owns, IdleFrame
  <2>3. UNCHANGED kernelVars /\ pc[t] = "idle"
    BY <1>5 DEF SendUse
  <2>4. QED
    BY <1>2, <1>3, <2>1, <2>2, <2>3, SlotsQuiet DEF kernelVars, Handles
<1>6. CASE SendRelease(t)
  <2>1. PICK fh \in Handles \cup {0} :
          /\ \/ Go(t, "unregister", [IdleFrame EXCEPT !.op = "ReleaseDir", !.fh = fh,
                                       !.file = FileOf(fh)])
             \/ Go(t, "find", [IdleFrame EXCEPT !.op = "Release", !.fh = fh,
                                 !.file = FileOf(fh)])
          /\ held' = [h \in Handles \ {fh} |-> held[h]]
    BY <1>6 DEF SendRelease
  <2>2. pc[t] = "idle"
    BY <1>6 DEF SendRelease
  <2>3. PICK l, f : Go(t, l, f) /\ \A h : Owns(l, f, h) <=> h = fh
    <3> DEFINE f(k) == [IdleFrame EXCEPT !.op = k, !.fh = fh, !.file = FileOf(fh)]
    <3>1. \A k \in {"Release", "ReleaseDir"} : \A l, h : Owns(l, f(k), h) <=> h = fh
      BY DEF Owns, IdleFrame
    <3>2. Go(t, "unregister", f("ReleaseDir")) \/ Go(t, "find", f("Release"))
      BY <2>1
    <3> HIDE DEF f
    <3>3. QED
      BY <3>1, <3>2
  <2>4. Handles' = Handles \ {fh}
    BY <2>1 DEF Handles
  <2>5. \A h : OwnersOf(h)' = IF h = fh THEN OwnersOf(h) \cup {t} ELSE OwnersOf(h)
    BY <1>3, <2>2, <2>3, GoOwners
  <2>6. CASE fh = 0
    BY <1>0, <1>2, <1>3, <2>2, <2>3, <2>4, <2>6, SlotsQuiet
  <2>7. CASE fh # 0
    <3>1. OwnersOf(fh) = {} /\ fh \notin Range(freeFiles) /\ fh \in Handles
      BY <2>7 DEF SlotsOK
    <3>2. \A h \in Range(freeFiles) : h \notin Handles' /\ OwnersOf(h)' = {}
      BY <2>4, <2>5, <3>1 DEF SlotsOK
    <3>3. \A h \in Handles' : OwnersOf(h)' = {}
      BY <2>4, <2>5 DEF SlotsOK
    <3>4. \A h \in 1..NFiles - 1 : \A v, w \in OwnersOf(h)' : v = w
      BY <2>5, <3>1 DEF SlotsOK
    <3>5. \A h \in 1..NFiles - 1 :
            h \in Range(freeFiles) \/ h \in Handles' \/ OwnersOf(h)' # {}
      BY <2>4, <2>5 DEF SlotsOK
    <3>6. IsInjective(freeFiles)
      BY DEF SlotsOK
    <3>7. QED
      BY <1>2, <3>2, <3>3, <3>4, <3>5, <3>6 DEF SlotsOK
  <2>8. QED
    BY <2>6, <2>7
<1>7. CASE ReplyOpen(t)
  <2>0. PICK fh : fh = fr[t].fh
    OBVIOUS
  <2>1. Go(t, "idle", IdleFrame) /\ Handles' = Handles \cup {fr[t].fh} /\ pc[t] = "opened"
    BY <1>7 DEF ReplyOpen, Finish, Handles
  <2>2. \A h : OwnersOf(h)' = OwnersOf(h) \ {t}
    BY <2>1, GoOwners DEF Owns, IdleFrame
  <2>3. \A h : t \in OwnersOf(h) <=> h = fh
    BY <2>0, <2>1, GoOwners DEF Owns, FramesOK, FrameOK
  <2>4. fh \in 1..NFiles - 1 /\ Handles' = Handles \cup {fh}
    BY <1>0, <2>0, <2>1 DEF FramesOK, FrameOK
  <2>5. fh \notin Range(freeFiles) /\ fh \notin Handles /\ OwnersOf(fh)' = {}
    <3>1. fh \notin Range(freeFiles) /\ fh \notin Handles /\ t \in OwnersOf(fh)
      BY <2>3 DEF SlotsOK
    <3>2. OwnersOf(fh) \ {t} = {}
      BY <2>4, <3>1 DEF SlotsOK
    <3>3. QED
      BY <2>2, <3>1, <3>2
  <2>6. \A h : h # fh => OwnersOf(h)' = OwnersOf(h)
    BY <2>2, <2>3
  <2>7. \A h \in Range(freeFiles) : h \notin Handles' /\ OwnersOf(h)' = {}
    BY <2>4, <2>5, <2>6 DEF SlotsOK
  <2>8. \A h \in Handles' : OwnersOf(h)' = {}
    BY <2>4, <2>5, <2>6 DEF SlotsOK
  <2>9. \A h \in 1..NFiles - 1 : \A v, w \in OwnersOf(h)' : v = w
    BY <2>2 DEF SlotsOK
  <2>10. \A h \in 1..NFiles - 1 :
           h \in Range(freeFiles) \/ h \in Handles' \/ OwnersOf(h)' # {}
    BY <2>4, <2>6 DEF SlotsOK
  <2>11. IsInjective(freeFiles)
    BY DEF SlotsOK
  <2>12. QED
    BY <1>2, <2>7, <2>8, <2>9, <2>10, <2>11 DEF SlotsOK
<1>8. QED
  BY <1>4, <1>5, <1>6, <1>7 DEF Kernel

(* registerFile takes a slot from the free list, or a new one, for the     *)
(* request; unregisterFile puts it back; the rest leaves them.             *)
LEMMA HandlerSlots ==
  ASSUME TypeOK, FramesOK, SlotsOK, NEW t \in Thread, OpenFile(t) \/ UseFile(t),
         TypeOK'
  PROVE  SlotsOK'
<1>0. /\ NFiles \in Nat \ {0} /\ Handles \subseteq 1..NFiles - 1
      /\ freeFiles \in Seq(1..NFiles - 1)
      /\ fr[t].fh \in 0..NFiles - 1 /\ fr[t] \in FrameSet(NFiles)
      /\ Range(freeFiles) \subseteq 1..NFiles - 1 /\ FrameOK(pc[t], fr[t])
  BY TypeParts, FrameFields DEF Range, FramesOK
<1>1. UNCHANGED kernelVars
  BY DEF OpenFile, UseFile, FsOpen, FsRefuses, CreateFound, CreateLost, Register,
         RegisterNew, Find, FsCallMore, FsCall, FsRelease, Unregister
<1>2. Handles' = Handles
  BY <1>1 DEF kernelVars, Handles
<1>3. ASSUME UNCHANGED <<files, freeFiles>>
      PROVE  NFiles' = NFiles /\ freeFiles' = freeFiles
  BY <1>3 DEF NFiles
<1>4. \A h : ~Owns("idle", IdleFrame, h)
  BY DEF Owns, IdleFrame
<1>5. CASE FsOpen(t)
  <2>1. PICK u : Go(t, IF fr[t].op = "Create" THEN "lookup" ELSE "register",
                     [fr[t] EXCEPT !.file.uFh = u])
    BY <1>5 DEF FsOpen
  <2>2. \A h : /\ ~Owns(IF fr[t].op = "Create" THEN "lookup" ELSE "register",
                        [fr[t] EXCEPT !.file.uFh = u], h)
               /\ ~Owns(pc[t], fr[t], h)
    BY <1>0, <1>5 DEF Owns, FsOpen, FrameOK, FrameSet
  <2>3. UNCHANGED <<files, freeFiles>>
    BY <1>5 DEF FsOpen, tableVars
  <2>4. QED
    BY <1>2, <1>3, <2>1, <2>2, <2>3, SlotsQuiet
<1>6. CASE FsRefuses(t) \/ CreateLost(t) \/ FsCall(t)
  <2>1. Go(t, "idle", IdleFrame) /\ UNCHANGED <<files, freeFiles>>
    BY <1>6 DEF FsRefuses, CreateLost, FsCall, Finish, tableVars
  <2>2. \A h : ~Owns(pc[t], fr[t], h)
    BY <1>0, <1>6 DEF Owns, FsRefuses, CreateLost, FsCall, FrameOK
  <2>3. QED
    BY <1>2, <1>3, <1>4, <2>1, <2>2, SlotsQuiet
<1>7. CASE CreateFound(t)
  <2>1. Go(t, "register", fr[t]) /\ UNCHANGED <<files, freeFiles>> /\ pc[t] = "lookup"
    BY <1>7 DEF CreateFound, tableVars
  <2>2. \A h : Owns("register", fr[t], h) <=> Owns(pc[t], fr[t], h)
    BY <2>1 DEF Owns
  <2>3. QED
    BY <1>2, <1>3, <2>1, <2>2, SlotsQuiet
<1>8. CASE Find(t)
  <2>1. Go(t, IF fr[t].op = "Release" THEN "release" ELSE "call",
           [fr[t] EXCEPT !.entry = files[fr[t].fh]]) /\ UNCHANGED <<files, freeFiles>>
        /\ pc[t] = "find"
    BY <1>8 DEF Find, tableVars
  <2>2. \A h : Owns(IF fr[t].op = "Release" THEN "release" ELSE "call",
                    [fr[t] EXCEPT !.entry = files[fr[t].fh]], h) <=> Owns(pc[t], fr[t], h)
    BY <1>0, <2>1 DEF Owns, FrameSet
  <2>3. QED
    BY <1>2, <1>3, <2>1, <2>2, SlotsQuiet
<1>9. CASE FsCallMore(t)
  <2>1. Go(t, "call", [fr[t] EXCEPT !.calls = fr[t].calls - 1])
        /\ UNCHANGED <<files, freeFiles>> /\ pc[t] = "call"
    BY <1>9 DEF FsCallMore, tableVars
  <2>2. \A h : Owns("call", [fr[t] EXCEPT !.calls = fr[t].calls - 1], h)
                 <=> Owns(pc[t], fr[t], h)
    BY <1>0, <2>1 DEF Owns, FrameSet
  <2>3. QED
    BY <1>2, <1>3, <2>1, <2>2, SlotsQuiet
<1>10. CASE FsRelease(t)
  <2>1. Go(t, "unregister", fr[t]) /\ UNCHANGED <<files, freeFiles>> /\ pc[t] = "release"
    BY <1>10 DEF FsRelease, tableVars
  <2>2. \A h : Owns("unregister", fr[t], h) <=> Owns(pc[t], fr[t], h)
    BY <2>1 DEF Owns
  <2>3. QED
    BY <1>2, <1>3, <2>1, <2>2, SlotsQuiet
<1>11. CASE Unregister(t) /\ fr[t].fh = 0
  <2>1. Go(t, "idle", IdleFrame) /\ UNCHANGED <<files, freeFiles>>
    BY <1>11 DEF Unregister, Finish, tableVars
  <2>2. \A h \in 1..NFiles - 1 : ~Owns(pc[t], fr[t], h)
    BY <1>0, <1>11 DEF Owns
  <2>3. QED
    BY <1>2, <1>3, <1>4, <2>1, <2>2, SlotsQuiet
<1>12. CASE Unregister(t) /\ fr[t].fh # 0
  <2>0. PICK fh : fh = fr[t].fh
    OBVIOUS
  <2>1. /\ Go(t, "idle", IdleFrame) /\ freeFiles' = Append(freeFiles, fh)
        /\ fh \in 1..NFiles - 1 /\ pc[t] = "unregister"
    BY <1>0, <1>12, <2>0 DEF Unregister, Finish
  <2>2. NFiles' = NFiles
    BY <1>0, <1>12, TypeParts DEF Unregister, NFiles
  <2>3. \A h : OwnersOf(h)' = OwnersOf(h) \ {t}
    BY <1>4, <2>1, GoOwners
  <2>4. \A h : t \in OwnersOf(h) <=> h = fh
    BY <1>0, <2>0, <2>1, GoOwners DEF Owns, FrameOK
  <2>5. fh \notin Range(freeFiles) /\ fh \notin Handles /\ OwnersOf(fh)' = {}
    <3>1. fh \notin Range(freeFiles) /\ fh \notin Handles /\ t \in OwnersOf(fh)
      BY <2>4 DEF SlotsOK
    <3>2. OwnersOf(fh) \ {t} = {}
      BY <2>1, <3>1 DEF SlotsOK
    <3>3. QED
      BY <2>3, <3>1, <3>2
  <2>6. \A h : h # fh => OwnersOf(h)' = OwnersOf(h)
    BY <2>3, <2>4
  <2>7. Range(freeFiles)' = Range(freeFiles) \cup {fh}
    BY <1>0, <2>1, AppendRange
  <2>8. IsInjective(freeFiles)'
    BY <1>0, <2>1, <2>5 DEF SlotsOK, IsInjective, Range
  <2>9. \A h \in Range(freeFiles)' : h \notin Handles /\ OwnersOf(h)' = {}
    BY <2>5, <2>6, <2>7 DEF SlotsOK
  <2>10. \A h \in Handles : OwnersOf(h)' = {}
    BY <2>5, <2>6 DEF SlotsOK
  <2>11. \A h \in 1..NFiles - 1 : \A v, w \in OwnersOf(h)' : v = w
    BY <2>3 DEF SlotsOK
  <2>12. \A h \in 1..NFiles - 1 :
           h \in Range(freeFiles)' \/ h \in Handles \/ OwnersOf(h)' # {}
    BY <2>6, <2>7 DEF SlotsOK
  <2>13. QED
    BY <1>2, <2>2, <2>8, <2>9, <2>10, <2>11, <2>12 DEF SlotsOK
<1>13. CASE Register(t)
  <2>1. PICK fh : fh = freeFiles[Len(freeFiles)]
    OBVIOUS
  <2> DEFINE rest == SubSeq(freeFiles, 1, Len(freeFiles) - 1)
  <2>2. /\ freeFiles # <<>> /\ Go(t, "opened", [fr[t] EXCEPT !.fh = fh])
        /\ freeFiles' = rest /\ files' = files /\ pc[t] = "register"
    BY <1>13, <2>1 DEF Register
  <2>3. /\ Len(freeFiles) \in 1..Len(freeFiles) /\ rest \in Seq(1..NFiles - 1)
        /\ Len(rest) = Len(freeFiles) - 1
        /\ \A k \in 1..Len(freeFiles) - 1 : rest[k] = freeFiles[k]
    BY <1>0, <2>2, PopOK, SMTT(30)
  <2>4. fh \in Range(freeFiles) /\ fh \in 1..NFiles - 1
    BY <1>0, <2>1, <2>3 DEF Range
  <2> HIDE DEF rest
  <2>5. DOMAIN rest = 1..Len(freeFiles) - 1
    BY <2>3
  <2>6. IsInjective(rest) /\ Range(rest) = Range(freeFiles) \ {fh}
    <3>1. \A k \in 1..Len(freeFiles) - 1 : k \in 1..Len(freeFiles) /\ k # Len(freeFiles)
      BY <1>0
    <3>2. \A k \in 1..Len(freeFiles) : k = Len(freeFiles) \/ k \in 1..Len(freeFiles) - 1
      BY <1>0
    <3>3. \A j, k \in 1..Len(freeFiles) : freeFiles[j] = freeFiles[k] => j = k
      BY <1>0 DEF SlotsOK, IsInjective
    <3>4. DOMAIN freeFiles = 1..Len(freeFiles)
      BY <1>0
    <3>5. IsInjective(rest)
      BY <2>3, <2>5, <3>1, <3>3 DEF IsInjective
    <3>6. Range(rest) = Range(freeFiles) \ {fh}
      <4>1. \A y : y \in Range(freeFiles) <=> \E k \in 1..Len(freeFiles) : y = freeFiles[k]
        BY <3>4 DEF Range
      <4>2. \A y : y \in Range(rest) <=> \E k \in 1..Len(freeFiles) - 1 : y = freeFiles[k]
        BY <2>3, <2>5 DEF Range
      <4>3. \A k \in 1..Len(freeFiles) - 1 : freeFiles[k] # fh
        BY <2>1, <2>3, <3>1, <3>3
      <4>4. ASSUME NEW y PROVE y \in Range(rest) <=> y \in Range(freeFiles) /\ y # fh
        <5>1. CASE y = fh
          BY <4>2, <4>3, <5>1
        <5>2. CASE y # fh
          BY <2>1, <3>1, <3>2, <4>1, <4>2, <5>2
        <5>3. QED
          BY <5>1, <5>2
      <4>5. QED
        BY <4>4
    <3>7. QED
      BY <3>5, <3>6
  <2>7. NFiles' = NFiles
    BY <2>2 DEF NFiles
  <2>8. \A h : Owns("opened", [fr[t] EXCEPT !.fh = fh], h) <=> h = fh
    <3>1. PICK f : f = fr[t]
      OBVIOUS
    <3>2. f.op \in {"Create", "Open", "OpenDir"}
      BY <1>0, <2>2, <3>1 DEF FramesOK, FrameOK
    <3>3. f \in FrameSet(NFiles)
      BY <1>0, <3>1, TypeParts
    <3>4. PICK g : g = [f EXCEPT !.fh = fh]
      OBVIOUS
    <3>5. g.fh = fh /\ g.op = f.op
      BY <3>3, <3>4 DEF FrameSet
    <3>6. \A h : Owns("opened", g, h) <=> h = fh
      BY <3>5 DEF Owns
    <3>7. QED
      BY <3>1, <3>4, <3>6
  <2>9. \A h : t \notin OwnersOf(h)
    BY <1>0, <2>2, GoOwners DEF Owns, FrameOK
  <2>10. ASSUME NEW h
         PROVE  OwnersOf(h)' = IF h = fh THEN OwnersOf(h) \cup {t} ELSE OwnersOf(h)
    <3>1. CASE h = fh
      BY <2>2, <2>8, <3>1, GoOwners
    <3>2. CASE h # fh
      <4>1. OwnersOf(h)' = OwnersOf(h) \ {t}
        BY <2>2, <2>8, <3>2, GoOwners
      <4>2. QED
        BY <2>9, <3>2, <4>1
    <3>3. QED
      BY <3>1, <3>2
  <2>11. OwnersOf(fh) = {} /\ fh \notin Handles
    BY <2>4 DEF SlotsOK
  <2>12. \A h \in Range(rest) : h \notin Handles /\ OwnersOf(h)' = {}
    BY <2>6, <2>10 DEF SlotsOK
  <2>13. \A h \in Handles : OwnersOf(h)' = {}
    BY <2>10, <2>11 DEF SlotsOK
  <2>14. \A h \in 1..NFiles - 1 : \A v, w \in OwnersOf(h)' : v = w
    BY <2>10, <2>11 DEF SlotsOK
  <2>15. \A h \in 1..NFiles - 1 :
           h \in Range(rest) \/ h \in Handles \/ OwnersOf(h)' # {}
    BY <2>6, <2>10 DEF SlotsOK
  <2>16. QED
    BY <1>2, <2>2, <2>6, <2>7, <2>12, <2>13, <2>14, <2>15 DEF SlotsOK
<1>14. CASE RegisterNew(t)
  <2>1. PICK fh : fh = NFiles
    OBVIOUS
  <2>2. /\ Go(t, "opened", [fr[t] EXCEPT !.fh = fh]) /\ freeFiles' = freeFiles
        /\ freeFiles = <<>> /\ pc[t] = "register" /\ fh \in Nat \ {0}
    BY <1>0, <1>14, <2>1 DEF RegisterNew
  <2>3. NFiles' = fh + 1
    <3>1. PICK e : files' = [h \in 0..NFiles |-> IF h = NFiles THEN e ELSE files[h]]
      BY <1>14 DEF RegisterNew
    <3>2. DOMAIN files' = 0..(NFiles + 1) - 1
      BY <1>0, <3>1
    <3>3. QED
      BY <1>0, <2>1, <3>2, IntervalSize DEF NFiles
  <2>4. /\ \A h \in 1..NFiles' - 1 : h = fh \/ h \in 1..NFiles - 1
        /\ fh \notin 0..NFiles - 1 /\ fh \notin 1..NFiles - 1
    BY <1>0, <2>1, <2>3
  <2>5. \A h : Owns("opened", [fr[t] EXCEPT !.fh = fh], h) <=> h = fh
    BY <1>0, <2>2 DEF Owns, FrameOK, FrameSet
  <2>6. \A h : t \notin OwnersOf(h)
    BY <1>0, <2>2, GoOwners DEF Owns, FrameOK
  <2>7. ASSUME NEW h
        PROVE  OwnersOf(h)' = IF h = fh THEN OwnersOf(h) \cup {t} ELSE OwnersOf(h)
    <3>1. CASE h = fh
      <4>1. Owns("opened", [fr[t] EXCEPT !.fh = fh], h)
        BY <2>5, <3>1
      <4>2. QED
        BY <2>2, <3>1, <4>1, GoOwners
    <3>2. CASE h # fh
      <4>1. ~Owns("opened", [fr[t] EXCEPT !.fh = fh], h)
        BY <2>5, <3>2
      <4>2. OwnersOf(h)' = OwnersOf(h) \ {t}
        BY <2>2, <4>1, GoOwners
      <4>3. QED
        BY <2>6, <3>2, <4>2
    <3>3. QED
      BY <3>1, <3>2
  <2>8. OwnersOf(fh) = {} /\ fh \notin Handles
    BY <1>0, <2>4, FrameFields DEF OwnersOf
  <2>9. Range(freeFiles) = {}
    BY <2>2 DEF Range
  <2>10. \A h \in Handles : OwnersOf(h)' = {}
    BY <2>7, <2>8 DEF SlotsOK
  <2>11. \A h \in 1..NFiles' - 1 : \A v, w \in OwnersOf(h)' : v = w
    BY <2>4, <2>7, <2>8 DEF SlotsOK
  <2>12. \A h \in 1..NFiles' - 1 : h \in Handles \/ OwnersOf(h)' # {}
    BY <2>4, <2>7, <2>9 DEF SlotsOK
  <2>13. IsInjective(freeFiles)
    BY DEF SlotsOK
  <2>14. QED
    BY <1>2, <2>2, <2>9, <2>10, <2>11, <2>12, <2>13 DEF SlotsOK
<1>15. QED
  BY <1>5, <1>6, <1>7, <1>8, <1>9, <1>10, <1>11, <1>12, <1>13, <1>14 DEF OpenFile, UseFile

-----------------------------------------------------------------------------
(* Entries.                                                                *)

(* What EntriesOK says of a goroutine at label l with frame f.             *)
Finds(l, f) ==
  /\ f.op = "Use" => f.fh \in Handles \cup {0}
  /\ f.op \in {"Use", "Release", "ReleaseDir"} \/ l = "opened" => heap[files[f.fh]] = f.file
  /\ l \in {"call", "release"} => f.entry = files[f.fh]

(* EntriesOK, told goroutine by goroutine.                                 *)
LEMMA EntriesParts ==
  EntriesOK <=> /\ IsInjective(files) /\ HandleIsFile
                /\ \A t \in Thread : Finds(pc[t], fr[t])
  BY DEF EntriesOK, Finds

(* An idle goroutine has nothing to find.                                  *)
LEMMA IdleFinds == Finds("idle", IdleFrame) /\ Finds("idle", IdleFrame)'
  BY DEF Finds, IdleFrame

(* A step that leaves table and kernel.                                    *)
LEMMA EntriesQuiet ==
  ASSUME TypeOK, EntriesOK, NEW t \in Thread, NEW l, NEW f, Go(t, l, f), Finds(l, f),
         UNCHANGED tableVars, UNCHANGED kernelVars
  PROVE  EntriesOK'
<1>1. UNCHANGED <<files, heap, held>> /\ Handles' = Handles
  BY DEF tableVars, kernelVars, Handles
<1>2. IsInjective(files)' /\ HandleIsFile'
  BY <1>1, EntriesParts DEF HandleIsFile, FileOf
<1>3. \A u \in Thread : Finds(pc[u], fr[u])'
  BY <1>1, GoEffect, EntriesParts DEF Finds
<1>4. QED
  BY <1>2, <1>3 DEF EntriesOK, Finds

(* A step that changes one slot, which is free or belongs to who takes it. *)
LEMMA EntriesSlot ==
  ASSUME TypeOK, FramesOK, EntriesOK, NEW t \in Thread, NEW l, NEW f, Go(t, l, f),
         Finds(l, f)', UNCHANGED kernelVars,
         NEW fh \in Nat \ {0}, fh \notin Handles,
         \A u \in OwnersOf(fh) : u = t,
         IsInjective(files)',
         \A h \in 0..NFiles - 1 : h # fh =>
           files'[h] = files[h] /\ heap'[files[h]] = heap[files[h]]
  PROVE  EntriesOK'
<1>0. Handles \subseteq 0..NFiles - 1 /\ 0 \in 0..NFiles - 1 /\ Handles' = Handles
      /\ held' = held
  BY TypeParts DEF kernelVars, Handles
<1>1. HandleIsFile'
  BY <1>0, EntriesParts DEF HandleIsFile, FileOf
<1>2. ASSUME NEW u \in Thread \ {t} PROVE Finds(pc[u], fr[u])'
  <2>1. pc'[u] = pc[u] /\ fr'[u] = fr[u] /\ fr[u].fh \in 0..NFiles - 1
    BY GoEffect, FrameFields
  <2>2. fr[u].op \in {"Use", "Release", "ReleaseDir"} \/ pc[u] = "opened" => fr[u].fh # fh
    BY EntriesParts DEF OwnersOf, Finds
  <2>3. pc[u] \in {"call", "release"} => fr[u].op \in {"Use", "Release"}
    BY DEF FramesOK, FrameOK
  <2>4. Finds(pc[u], fr[u])
    BY EntriesParts
  <2>5. QED
    BY <1>0, <2>1, <2>2, <2>3, <2>4 DEF Finds
<1>3. Finds(pc[t], fr[t])'
  BY GoEffect DEF Finds
<1>4. \A u \in Thread : Finds(pc[u], fr[u])'
  BY <1>2, <1>3
<1>5. QED
  BY <1>1, <1>4 DEF EntriesOK, Finds

(* A handle the kernel sends, or handle 0, is the file it stands for.      *)
LEMMA SentFinds ==
  ASSUME EntriesOK, NEW fh \in Handles \cup {0}, NEW l \in {"find", "unregister"},
         NEW k \in Op, NEW n
  PROVE  /\ Finds(l, [IdleFrame EXCEPT !.op = k, !.fh = fh, !.file = FileOf(fh)])
         /\ Finds(l, [IdleFrame EXCEPT !.op = k, !.fh = fh, !.file = FileOf(fh), !.calls = n])
  BY DEF Finds, IdleFrame, EntriesOK, HandleIsFile

(* The kernel stops to use a handle before it releases it, and starts when *)
(* the entry is there.                                                     *)
LEMMA KernelEntries ==
  ASSUME TypeOK, FramesOK, SlotsOK, EntriesOK, NEW t \in Thread, Kernel(t)
  PROVE  EntriesOK'
<1>0. Handles \subseteq 1..NFiles - 1 /\ NFiles \in Nat \ {0} /\ fr[t].fh \in 0..NFiles - 1
  BY TypeParts, FrameFields
<1>1. CASE SendOpen(t)
  <2>1. PICK k \in {"Create", "Open", "OpenDir"}, o \in Owner, p \in Path :
          Go(t, IF k = "OpenDir" THEN "register" ELSE "open",
             [IdleFrame EXCEPT !.op = k, !.file = [Blank EXCEPT !.opener = o, !.path = p]])
    BY <1>1 DEF SendOpen
  <2>2. Finds(IF k = "OpenDir" THEN "register" ELSE "open",
             [IdleFrame EXCEPT !.op = k, !.file = [Blank EXCEPT !.opener = o, !.path = p]])
    BY DEF Finds, IdleFrame
  <2>3. UNCHANGED tableVars /\ UNCHANGED kernelVars
    BY <1>1 DEF SendOpen
  <2>4. QED
    BY <2>1, <2>2, <2>3, EntriesQuiet
<1>2. CASE SendUse(t)
  <2>1. PICK fh \in Handles \cup {0}, n \in 1..MaxCalls :
          Go(t, "find", [IdleFrame EXCEPT !.op = "Use", !.fh = fh, !.file = FileOf(fh),
                                          !.calls = n])
    BY <1>2 DEF SendUse
  <2>2. UNCHANGED tableVars /\ UNCHANGED kernelVars /\ "Use" \in Op
    BY <1>2 DEF SendUse, Op
  <2>3. QED
    BY <2>1, <2>2, SentFinds, EntriesQuiet
<1>3. CASE SendRelease(t)
  <2>1. PICK fh \in Handles \cup {0} :
          /\ fh # 0 => ~InFlight(fh)
          /\ \/ Go(t, "unregister", [IdleFrame EXCEPT !.op = "ReleaseDir", !.fh = fh,
                                       !.file = FileOf(fh)])
             \/ Go(t, "find", [IdleFrame EXCEPT !.op = "Release", !.fh = fh,
                                 !.file = FileOf(fh)])
          /\ held' = [h \in Handles \ {fh} |-> held[h]]
    BY <1>3 DEF SendRelease
  <2>2. UNCHANGED <<files, heap>> /\ Handles' = Handles \ {fh}
    BY <1>3, <2>1 DEF SendRelease, tableVars, Handles
  <2>3. "Release" \in Op /\ "ReleaseDir" \in Op
    BY DEF Op
  <2>4. PICK l, f : Go(t, l, f) /\ Finds(l, f) /\ f.op # "Use"
    <3> DEFINE g(k) == [IdleFrame EXCEPT !.op = k, !.fh = fh, !.file = FileOf(fh)]
    <3>1. Finds("unregister", g("ReleaseDir")) /\ Finds("find", g("Release"))
      BY <2>3, SentFinds
    <3>2. g("ReleaseDir").op # "Use" /\ g("Release").op # "Use"
      BY DEF IdleFrame
    <3>3. Go(t, "unregister", g("ReleaseDir")) \/ Go(t, "find", g("Release"))
      BY <2>1
    <3> HIDE DEF g
    <3>4. QED
      BY <3>1, <3>2, <3>3
  <2>5. HandleIsFile'
    <3>1. \A h \in Handles' \cup {0} : heap[files[h]] = FileOf(h)
      BY <2>2, EntriesParts DEF HandleIsFile
    <3>2. \A h \in Handles' \cup {0} : FileOf(h)' = FileOf(h)
      BY <1>0, <2>1, <2>2 DEF FileOf
    <3>3. QED
      BY <2>2, <3>1, <3>2 DEF HandleIsFile
  <2>6. ASSUME NEW u \in Thread PROVE Finds(pc[u], fr[u])'
    <3>1. CASE u = t
      BY <2>2, <2>4, <3>1, GoEffect DEF Finds
    <3>2. CASE u # t
      <4>1. pc'[u] = pc[u] /\ fr'[u] = fr[u] /\ Finds(pc[u], fr[u])
        BY <2>4, <3>2, GoEffect, EntriesParts
      <4>2. fr[u].op = "Use" => fr[u].fh \in Handles' \cup {0}
        BY <2>1, <2>2, <4>1 DEF InFlight, Opening, Finds
      <4>3. QED
        BY <2>2, <4>1, <4>2 DEF Finds
    <3>3. QED
      BY <3>1, <3>2
  <2>7. IsInjective(files)'
    BY <2>2, EntriesParts
  <2>8. QED
    BY <2>5, <2>6, <2>7 DEF EntriesOK, Finds
<1>4. CASE ReplyOpen(t)
  <2>1. /\ Go(t, "idle", IdleFrame) /\ pc[t] = "opened" /\ UNCHANGED <<files, heap>>
        /\ held' = [h \in Handles \cup {fr[t].fh} |->
                      IF h = fr[t].fh THEN fr[t].file ELSE held[h]]
    BY <1>4 DEF ReplyOpen, Finish, tableVars
  <2>2. Handles' = Handles \cup {fr[t].fh} /\ fr[t].fh # 0
    BY <2>1 DEF Handles, FramesOK, FrameOK
  <2>3. heap[files[fr[t].fh]] = fr[t].file
    BY <2>1, EntriesParts DEF Finds
  <2>4. HandleIsFile'
    <3>1. \A h \in Handles' \cup {0} : FileOf(h)' = IF h = fr[t].fh THEN fr[t].file
                                                    ELSE FileOf(h)
      BY <1>0, <2>1, <2>2 DEF FileOf
    <3>2. QED
      BY <2>1, <2>2, <2>3, <3>1, EntriesParts DEF HandleIsFile
  <2>5. \A u \in Thread : Finds(pc[u], fr[u])'
    BY <2>1, <2>2, GoEffect, EntriesParts, IdleFinds DEF Finds
  <2>6. IsInjective(files)'
    BY <2>1, EntriesParts
  <2>7. QED
    BY <2>4, <2>5, <2>6 DEF EntriesOK, Finds
<1>5. QED
  BY <1>1, <1>2, <1>3, <1>4 DEF Kernel

(* A slot is written by who takes it from the free list, and blanked by    *)
(* the request that releases it.                                           *)
LEMMA HandlerEntries ==
  ASSUME TypeOK, FramesOK, SlotsOK, EntriesOK, NEW t \in Thread,
         OpenFile(t) \/ UseFile(t)
  PROVE  EntriesOK'
<1>0. /\ NFiles \in Nat \ {0} /\ Handles \subseteq 1..NFiles - 1
      /\ files \in [0..NFiles - 1 -> Entry] /\ heap \in [Entry -> File]
      /\ freeFiles \in Seq(1..NFiles - 1)
      /\ fr[t].fh \in 0..NFiles - 1 /\ fr[t] \in FrameSet(NFiles) /\ fr[t].file \in File
      /\ Range(freeFiles) \subseteq 1..NFiles - 1 /\ FrameOK(pc[t], fr[t])
      /\ Finds(pc[t], fr[t])
  BY TypeParts, FrameFields, EntriesParts DEF Range, FramesOK
<1>1. UNCHANGED kernelVars
  BY DEF OpenFile, UseFile, FsOpen, FsRefuses, CreateFound, CreateLost, Register,
         RegisterNew, Find, FsCallMore, FsCall, FsRelease, Unregister
<1>2. \A h, k \in 0..NFiles - 1 : files[h] = files[k] => h = k
  BY <1>0 DEF EntriesOK, IsInjective
<1>3. CASE FsOpen(t)
  <2>1. PICK u : Go(t, IF fr[t].op = "Create" THEN "lookup" ELSE "register",
                     [fr[t] EXCEPT !.file.uFh = u])
    BY <1>3 DEF FsOpen
  <2>2. Finds(IF fr[t].op = "Create" THEN "lookup" ELSE "register",
              [fr[t] EXCEPT !.file.uFh = u])
    BY <1>0, <1>3 DEF Finds, FsOpen, FrameOK, FrameSet
  <2>3. UNCHANGED tableVars
    BY <1>3 DEF FsOpen
  <2>4. QED
    BY <1>1, <2>1, <2>2, <2>3, EntriesQuiet
<1>4. CASE FsRefuses(t) \/ CreateLost(t) \/ FsCall(t)
  <2>1. Go(t, "idle", IdleFrame) /\ UNCHANGED tableVars
    BY <1>4 DEF FsRefuses, CreateLost, FsCall, Finish
  <2>2. QED
    BY <1>1, <2>1, IdleFinds, EntriesQuiet
<1>5. CASE CreateFound(t)
  <2>1. Go(t, "register", fr[t]) /\ UNCHANGED tableVars /\ pc[t] = "lookup"
    BY <1>5 DEF CreateFound
  <2>2. Finds("register", fr[t])
    BY <1>0, <2>1 DEF Finds
  <2>3. QED
    BY <1>1, <2>1, <2>2, EntriesQuiet
<1>6. CASE Find(t)
  <2>1. Go(t, IF fr[t].op = "Release" THEN "release" ELSE "call",
           [fr[t] EXCEPT !.entry = files[fr[t].fh]]) /\ UNCHANGED tableVars
        /\ pc[t] = "find"
    BY <1>6 DEF Find
  <2>2. Finds(IF fr[t].op = "Release" THEN "release" ELSE "call",
              [fr[t] EXCEPT !.entry = files[fr[t].fh]])
    BY <1>0, <2>1 DEF Finds, FrameSet
  <2>3. QED
    BY <1>1, <2>1, <2>2, EntriesQuiet
<1>7. CASE FsCallMore(t)
  <2>1. Go(t, "call", [fr[t] EXCEPT !.calls = fr[t].calls - 1])
        /\ UNCHANGED tableVars /\ pc[t] = "call"
    BY <1>7 DEF FsCallMore
  <2>2. Finds("call", [fr[t] EXCEPT !.calls = fr[t].calls - 1])
    BY <1>0, <2>1 DEF Finds, FrameSet
  <2>3. QED
    BY <1>1, <2>1, <2>2, EntriesQuiet
<1>8. CASE FsRelease(t)
  <2>1. Go(t, "unregister", fr[t]) /\ UNCHANGED tableVars /\ pc[t] = "release"
    BY <1>8 DEF FsRelease
  <2>2. Finds("unregister", fr[t])
    BY <1>0, <2>1 DEF Finds
  <2>3. QED
    BY <1>1, <2>1, <2>2, EntriesQuiet
<1>9. CASE Unregister(t) /\ fr[t].fh = 0
  <2>1. Go(t, "idle", IdleFrame) /\ UNCHANGED tableVars
    BY <1>9 DEF Unregister, Finish
  <2>2. QED
    BY <1>1, <2>1, IdleFinds, EntriesQuiet
<1>10. CASE Unregister(t) /\ fr[t].fh # 0
  <2>0. PICK fh : fh = fr[t].fh
    OBVIOUS
  <2>1. PICK e \in Unused : files' = [files EXCEPT ![fh] = e]
                            /\ heap' = [heap EXCEPT ![e] = Blank]
    BY <1>10, <2>0 DEF Unregister
  <2>2. Go(t, "idle", IdleFrame) /\ pc[t] = "unregister" /\ fh \in 1..NFiles - 1
    BY <1>0, <1>10, <2>0 DEF Unregister, Finish
  <2>3. e \in Entry /\ \A h \in 0..NFiles - 1 : files[h] # e
    BY <1>0, <2>1 DEF Unused, Range
  <2>4. \A h \in 0..NFiles - 1 : h # fh =>
          files'[h] = files[h] /\ heap'[files[h]] = heap[files[h]]
    BY <1>0, <2>1, <2>3
  <2>5. IsInjective(files)'
    BY <1>0, <1>2, <2>1, <2>3 DEF IsInjective
  <2>6. t \in OwnersOf(fh)
    BY <1>0, <2>0, <2>2 DEF OwnersOf, FrameOK
  <2>7. fh \notin Handles /\ (\A u \in OwnersOf(fh) : u = t) /\ fh \in Nat \ {0}
    BY <2>2, <2>6 DEF SlotsOK
  <2>8. QED
    BY <1>1, <2>2, <2>4, <2>5, <2>7, IdleFinds, EntriesSlot
<1>11. CASE Register(t)
  <2>1. PICK fh : fh = freeFiles[Len(freeFiles)]
    OBVIOUS
  <2>2. /\ freeFiles # <<>> /\ Go(t, "opened", [fr[t] EXCEPT !.fh = fh])
        /\ heap' = [heap EXCEPT ![files[fh]] = fr[t].file]
        /\ files' = files /\ pc[t] = "register"
    BY <1>11, <2>1 DEF Register
  <2>3. fh \in Range(freeFiles)
    BY <1>0, <2>1, <2>2, PopOK DEF Range
  <2>4. fh \in 1..NFiles - 1 /\ fh \in Nat \ {0} /\ fh \notin Handles /\ OwnersOf(fh) = {}
    BY <1>0, <2>3 DEF SlotsOK
  <2>5. \A h \in 0..NFiles - 1 : h # fh =>
          files'[h] = files[h] /\ heap'[files[h]] = heap[files[h]]
    BY <1>0, <1>2, <2>2, <2>4
  <2>6. IsInjective(files)'
    BY <2>2 DEF EntriesOK
  <2>f. PICK f : f = [fr[t] EXCEPT !.fh = fh]
    OBVIOUS
  <2>7. Finds("opened", f)'
    <3>1. f.fh = fh /\ f.file = fr[t].file /\ f.op \in {"Create", "Open", "OpenDir"}
      BY <1>0, <2>2, <2>f DEF FrameSet, FrameOK
    <3>2. heap'[files'[fh]] = fr[t].file
      BY <1>0, <2>2, <2>4
    <3>3. QED
      BY <3>1, <3>2 DEF Finds
  <2>8. QED
    BY <1>1, <2>2, <2>4, <2>5, <2>6, <2>f, <2>7, EntriesSlot
<1>12. CASE RegisterNew(t)
  <2>1. PICK fh : fh = NFiles
    OBVIOUS
  <2>2. /\ Go(t, "opened", [fr[t] EXCEPT !.fh = fh]) /\ pc[t] = "register"
        /\ fh \in Nat \ {0} /\ fh \notin Handles /\ fh \notin 0..NFiles - 1
    BY <1>0, <1>12, <2>1 DEF RegisterNew
  <2>3. PICK e \in Unused : /\ files' = [h \in 0..fh |-> IF h = fh THEN e ELSE files[h]]
                            /\ heap' = [heap EXCEPT ![e] = fr[t].file]
    BY <1>12, <2>1 DEF RegisterNew
  <2>4. e \in Entry /\ \A h \in 0..NFiles - 1 : files[h] # e /\ h \in 0..fh /\ h # fh
    BY <1>0, <2>1, <2>3 DEF Unused, Range
  <2>5. \A h \in 0..NFiles - 1 : h # fh =>
          files'[h] = files[h] /\ heap'[files[h]] = heap[files[h]]
    BY <1>0, <2>3, <2>4
  <2>6. IsInjective(files)'
    <3>1. \A h \in 0..fh : h = fh \/ h \in 0..NFiles - 1
      BY <1>0, <2>1
    <3>2. QED
      BY <1>0, <1>2, <2>3, <2>4, <3>1 DEF IsInjective
  <2>7. OwnersOf(fh) = {}
    BY <2>2, FrameFields DEF OwnersOf
  <2>f. PICK f : f = [fr[t] EXCEPT !.fh = fh]
    OBVIOUS
  <2>8. Finds("opened", f)'
    <3>1. f.fh = fh /\ f.file = fr[t].file /\ f.op \in {"Create", "Open", "OpenDir"}
      BY <1>0, <2>2, <2>f DEF FrameSet, FrameOK
    <3>2. heap'[files'[fh]] = fr[t].file
      BY <1>0, <2>2, <2>3, <2>4
    <3>3. QED
      BY <3>1, <3>2 DEF Finds
  <2>9. QED
    BY <1>1, <2>2, <2>5, <2>6, <2>7, <2>f, <2>8, EntriesSlot
<1>13. QED
  BY <1>3, <1>4, <1>5, <1>6, <1>7, <1>8, <1>9, <1>10, <1>11, <1>12 DEF OpenFile, UseFile

-----------------------------------------------------------------------------
(* Handles of the file system.                                             *)

(* A goroutine at label l with frame f carries v; those that do, and the   *)
(* kernel's handles for v.                                                 *)
Carrying(l, f, v) ==
  /\ f.file.uFh = v
  /\ \/ l \in {"lookup", "register", "opened", "release"}
     \/ l = "find" /\ f.op = "Release"
Bears(v) == {t \in Thread : Carrying(pc[t], fr[t], v)}
Holds(v) == {fh \in Handles : held[fh].uFh = v}

(* An open handle that is not lost has one user, any other none.           *)
UserOK(v) ==
  /\ v \notin opened \ lost => Bears(v) = {} /\ Holds(v) = {}
  /\ v \in opened \ lost => Bears(v) # {} \/ Holds(v) # {}
  /\ \A t, u \in Bears(v) : t = u
  /\ \A g, h \in Holds(v) : g = h
  /\ Bears(v) = {} \/ Holds(v) = {}

UsersOK == \A v \in UFh : UserOK(v)

(* CarriersOK, told handle by handle.                                      *)
LEMMA CarriersParts == TypeOK => (CarriersOK <=> UsersOK)
<1> SUFFICES ASSUME TypeOK PROVE CarriersOK <=> \A v \in UFh : UserOK(v)
  BY DEF UsersOK
<1>1. /\ \A fh \in Handles : held[fh].uFh \in UFh \cup {0}
      /\ \A t \in Thread : fr[t].file.uFh \in UFh \cup {0}
      /\ opened \subseteq UFh /\ 0 \notin UFh
  BY TypeParts, FrameFields DEF File
<1>2. \A t \in Thread : \A v : t \in Bears(v) <=> Carries(t) /\ fr[t].file.uFh = v
  BY DEF Bears, Carrying, Carries
<1>3. ASSUME CarriersOK, NEW v \in UFh PROVE UserOK(v)
  <2>1. v # 0 /\ \A t \in Bears(v) : t \in Thread /\ Carries(t) /\ fr[t].file.uFh = v
    BY <1>1, <1>2 DEF Bears
  <2>2. \A h \in Holds(v) : h \in Handles /\ held[h].uFh = v
    BY DEF Holds
  <2>3. v \notin opened \ lost => Bears(v) = {} /\ Holds(v) = {}
    BY <1>3, <2>1, <2>2 DEF CarriersOK
  <2>4. v \in opened \ lost => Bears(v) # {} \/ Holds(v) # {}
    BY <1>2, <1>3 DEF CarriersOK, Holds
  <2>5. \A t, u \in Bears(v) : t = u
    BY <1>3, <2>1 DEF CarriersOK
  <2>6. \A g, h \in Holds(v) : g = h
    BY <1>3, <2>1, <2>2 DEF CarriersOK
  <2>7. Bears(v) = {} \/ Holds(v) = {}
    BY <1>3, <2>1, <2>2 DEF CarriersOK
  <2>8. QED
    BY <2>3, <2>4, <2>5, <2>6, <2>7 DEF UserOK
<1>4. ASSUME \A v \in UFh : UserOK(v) PROVE CarriersOK
  <2>1. \A fh \in Handles : held[fh].uFh # 0 => held[fh].uFh \in opened \ lost
    BY <1>1, <1>4 DEF UserOK, Holds
  <2>2. \A g, h \in Handles : held[g].uFh = held[h].uFh => g = h \/ held[g].uFh = 0
    BY <1>1, <1>4 DEF UserOK, Holds
  <2>3. ASSUME NEW t \in Thread, Carries(t), fr[t].file.uFh # 0
        PROVE  /\ fr[t].file.uFh \in opened \ lost
               /\ \A fh \in Handles : held[fh].uFh # fr[t].file.uFh
               /\ \A u \in Thread : Carries(u) /\ fr[u].file.uFh = fr[t].file.uFh => u = t
    <3>1. PICK v \in UFh : v = fr[t].file.uFh
      BY <1>1, <2>3
    <3>2. t \in Bears(v) /\ UserOK(v)
      BY <1>2, <1>4, <2>3, <3>1
    <3>3. v \in opened \ lost /\ Holds(v) = {} /\ \A u \in Bears(v) : u = t
      BY <3>2 DEF UserOK
    <3>4. QED
      BY <1>2, <3>1, <3>3 DEF Holds
  <2>4. ASSUME NEW v \in opened \ lost
        PROVE  \/ \E fh \in Handles : held[fh].uFh = v
               \/ \E t \in Thread : Carries(t) /\ fr[t].file.uFh = v
    <3>1. Bears(v) # {} \/ Holds(v) # {}
      BY <1>1, <1>4 DEF UserOK
    <3>2. Bears(v) \subseteq Thread
      BY DEF Bears
    <3>3. QED
      BY <1>2, <3>1, <3>2 DEF Holds
  <2>5. QED
    BY <2>1, <2>2, <2>3, <2>4 DEF CarriersOK
<1>5. QED
  BY <1>3, <1>4

(* Who carries a handle after a step.                                      *)
LEMMA GoBears ==
  ASSUME TypeOK, NEW t \in Thread, NEW l, NEW f, Go(t, l, f), NEW v
  PROVE  /\ Carrying(l, f, v) => Bears(v)' = Bears(v) \cup {t}
         /\ ~Carrying(l, f, v) => Bears(v)' = Bears(v) \ {t}
         /\ t \in Bears(v) <=> Carrying(pc[t], fr[t], v)
  BY GoEffect DEF Carrying, Bears

(* A handle that a step does not concern.                                  *)
LEMMA UserQuiet ==
  ASSUME TypeOK, NEW t \in Thread, NEW l, NEW f, Go(t, l, f), NEW v \in UFh, UserOK(v),
         v \in opened' \ lost' <=> v \in opened \ lost, Holds(v)' = Holds(v),
         Carrying(l, f, v) <=> Carrying(pc[t], fr[t], v)
  PROVE  UserOK(v)'
<1>1. CASE Carrying(l, f, v)
  <2>1. Bears(v)' = Bears(v)
    BY <1>1, GoBears
  <2>2. QED
    BY <2>1 DEF UserOK
<1>2. CASE ~Carrying(l, f, v)
  <2>1. Bears(v)' = Bears(v)
    BY <1>2, GoBears
  <2>2. QED
    BY <2>1 DEF UserOK
<1>3. QED
  BY <1>1, <1>2

(* The goroutine that carries an open handle is the only one, and the      *)
(* kernel does not have it.                                                *)
LEMMA SoleBearer ==
  ASSUME NEW t \in Thread, NEW v, UserOK(v), Carrying(pc[t], fr[t], v)
  PROVE  Bears(v) = {t} /\ Holds(v) = {} /\ v \in opened \ lost
<1>1. t \in Bears(v)
  BY DEF Bears
<1>2. QED
  BY <1>1 DEF UserOK

(* The kernel passes a handle on with the request to release it, and gets  *)
(* one with the reply to an open.                                          *)
LEMMA KernelUsers ==
  ASSUME TypeOK, FramesOK, SlotsOK, UsersOK, NEW t \in Thread, Kernel(t), NEW v \in UFh
  PROVE  UserOK(v)'
<1>0. /\ UserOK(v) /\ v # 0 /\ FrameOK(pc[t], fr[t]) /\ \A fh \in dirs : held[fh].uFh = 0
      /\ 0 \notin Handles /\ dirs \subseteq Handles
  BY TypeParts DEF UsersOK, FramesOK
<1>1. UNCHANGED <<opened, lost>>
  BY DEF Kernel, SendOpen, SendUse, SendRelease, ReplyOpen, fsVars
<1>2. ASSUME UNCHANGED kernelVars PROVE Holds(v)' = Holds(v)
  BY <1>2 DEF Holds, Handles, kernelVars
<1>3. pc[t] = "idle" => ~Carrying(pc[t], fr[t], v)
  BY DEF Carrying
<1>4. CASE SendOpen(t)
  <2>1. PICK k \in {"Create", "Open", "OpenDir"}, o \in Owner, p \in Path :
          Go(t, IF k = "OpenDir" THEN "register" ELSE "open",
             [IdleFrame EXCEPT !.op = k, !.file = [Blank EXCEPT !.opener = o, !.path = p]])
    BY <1>4 DEF SendOpen
  <2>2. ~Carrying(IF k = "OpenDir" THEN "register" ELSE "open",
             [IdleFrame EXCEPT !.op = k, !.file = [Blank EXCEPT !.opener = o, !.path = p]], v)
    BY <1>0 DEF Carrying, IdleFrame, Blank
  <2>3. UNCHANGED kernelVars /\ pc[t] = "idle"
    BY <1>4 DEF SendOpen
  <2>4. QED
    BY <1>0, <1>1, <1>2, <1>3, <2>1, <2>2, <2>3, UserQuiet
<1>5. CASE SendUse(t)
  <2>1. PICK fh \in Handles \cup {0}, n \in 1..MaxCalls :
          Go(t, "find", [IdleFrame EXCEPT !.op = "Use", !.fh = fh, !.file = FileOf(fh),
                                          !.calls = n])
    BY <1>5 DEF SendUse
  <2>2. ~Carrying("find", [IdleFrame EXCEPT !.op = "Use", !.fh = fh, !.file = FileOf(fh),
                                            !.calls = n], v)
    BY DEF Carrying, IdleFrame
  <2>3. UNCHANGED kernelVars /\ pc[t] = "idle"
    BY <1>5 DEF SendUse
  <2>4. QED
    BY <1>0, <1>1, <1>2, <1>3, <2>1, <2>2, <2>3, UserQuiet
<1>6. CASE SendRelease(t)
  <2>1. PICK fh \in Handles \cup {0} :
          /\ IF fh \in dirs
             THEN Go(t, "unregister", [IdleFrame EXCEPT !.op = "ReleaseDir", !.fh = fh,
                                         !.file = FileOf(fh)])
             ELSE Go(t, "find", [IdleFrame EXCEPT !.op = "Release", !.fh = fh,
                                   !.file = FileOf(fh)])
          /\ held' = [h \in Handles \ {fh} |-> held[h]]
    BY <1>6 DEF SendRelease
  <2>2. pc[t] = "idle" /\ Handles' = Handles \ {fh}
    BY <1>6, <2>1 DEF SendRelease, Handles
  <2>3. Holds(v)' = Holds(v) \ {fh}
    BY <2>1, <2>2 DEF Holds
  <2>4. PICK l, f : Go(t, l, f) /\ (Carrying(l, f, v) <=> fh \in Holds(v))
    <3>1. CASE fh \in dirs
      <4>1. ~Carrying("unregister", [IdleFrame EXCEPT !.op = "ReleaseDir", !.fh = fh,
                                       !.file = FileOf(fh)], v)
        BY DEF Carrying
      <4>2. fh \notin Holds(v)
        BY <1>0, <3>1 DEF Holds
      <4>3. QED
        BY <2>1, <3>1, <4>1, <4>2
    <3>2. CASE fh \notin dirs
      <4>1. Carrying("find", [IdleFrame EXCEPT !.op = "Release", !.fh = fh,
                                !.file = FileOf(fh)], v) <=> FileOf(fh).uFh = v
        BY DEF Carrying, IdleFrame
      <4>2. FileOf(fh).uFh = v <=> fh \in Holds(v)
        BY <1>0 DEF Holds, FileOf, Blank
      <4>3. QED
        BY <2>1, <3>2, <4>1, <4>2
    <3>3. QED
      BY <3>1, <3>2
  <2>5. CASE fh \in Holds(v)
    <3>1. v \in opened \ lost /\ Bears(v) = {} /\ Holds(v) = {fh}
      BY <1>0, <2>5 DEF UserOK
    <3>2. Bears(v)' = {t} /\ Holds(v)' = {}
      BY <2>3, <2>4, <2>5, <3>1, GoBears
    <3>3. QED
      BY <1>1, <3>1, <3>2 DEF UserOK
  <2>6. CASE fh \notin Holds(v)
    BY <1>0, <1>1, <1>3, <2>2, <2>3, <2>4, <2>6, UserQuiet
  <2>7. QED
    BY <2>5, <2>6
<1>7. CASE ReplyOpen(t)
  <2>0. PICK fh : fh = fr[t].fh
    OBVIOUS
  <2>1. /\ Go(t, "idle", IdleFrame) /\ pc[t] = "opened"
        /\ held' = [h \in Handles \cup {fh} |-> IF h = fh THEN fr[t].file ELSE held[h]]
    BY <1>7, <2>0 DEF ReplyOpen, Finish
  <2>2. t \in OwnersOf(fh)
    BY <2>0, <2>1 DEF OwnersOf
  <2>3. fh \notin Handles
    BY <2>2 DEF SlotsOK
  <2>4. Handles' = Handles \cup {fh}
    BY <2>1 DEF Handles
  <2>5. ~Carrying("idle", IdleFrame, v)
    BY DEF Carrying
  <2>6. CASE fr[t].file.uFh = v
    <3>1. Carrying(pc[t], fr[t], v)
      BY <2>1, <2>6 DEF Carrying
    <3>2. Bears(v) = {t} /\ Holds(v) = {} /\ v \in opened \ lost
      BY <1>0, <3>1, SoleBearer
    <3>3. Bears(v)' = {}
      BY <2>1, <2>5, <3>2, GoBears
    <3>4. Holds(v)' = {fh}
      BY <2>1, <2>4, <2>6, <3>2 DEF Holds
    <3>5. QED
      BY <1>1, <3>2, <3>3, <3>4 DEF UserOK
  <2>7. CASE fr[t].file.uFh # v
    <3>1. ~Carrying(pc[t], fr[t], v)
      BY <2>7 DEF Carrying
    <3>2. Holds(v)' = Holds(v)
      BY <2>1, <2>3, <2>4, <2>7 DEF Holds
    <3>3. QED
      BY <1>0, <1>1, <2>1, <2>5, <3>1, <3>2, UserQuiet
  <2>8. QED
    BY <2>6, <2>7
<1>8. QED
  BY <1>4, <1>5, <1>6, <1>7 DEF Kernel

(* A handle is opened for one request, goes with it through the table, and *)
(* is lost with it or released by it.                                      *)
LEMMA HandlerUsers ==
  ASSUME TypeOK, FramesOK, EntriesOK, UsersOK, NEW t \in Thread,
         OpenFile(t) \/ UseFile(t), NEW v \in UFh
  PROVE  UserOK(v)'
<1>0. /\ UserOK(v) /\ v # 0 /\ FrameOK(pc[t], fr[t]) /\ fr[t] \in FrameSet(NFiles)
      /\ fr[t].file \in File /\ lost \subseteq opened
  BY TypeParts, FrameFields DEF UsersOK, FramesOK
<1>1. UNCHANGED kernelVars
  BY DEF OpenFile, UseFile, FsOpen, FsRefuses, CreateFound, CreateLost, Register,
         RegisterNew, Find, FsCallMore, FsCall, FsRelease, Unregister
<1>2. Holds(v)' = Holds(v)
  BY <1>1 DEF Holds, Handles, kernelVars
<1>3. ~Carrying("idle", IdleFrame, v)
  BY DEF Carrying
<1>4. CASE FsOpen(t)
  <2>1. PICK u \in (UFh \cup {0}) \ opened :
          /\ opened' = (opened \cup {u}) \ {0}
          /\ Go(t, IF fr[t].op = "Create" THEN "lookup" ELSE "register",
                [fr[t] EXCEPT !.file.uFh = u])
    BY <1>4 DEF FsOpen
  <2>2. Carrying(IF fr[t].op = "Create" THEN "lookup" ELSE "register",
                 [fr[t] EXCEPT !.file.uFh = u], v) <=> u = v
    BY <1>0 DEF Carrying, FrameSet, File
  <2>3. ~Carrying(pc[t], fr[t], v) /\ lost' = lost
    BY <1>4 DEF FsOpen, Carrying
  <2>4. CASE u = v
    <3>1. Bears(v) = {} /\ Holds(v) = {}
      BY <1>0, <2>1, <2>4 DEF UserOK
    <3>2. Bears(v)' = {t}
      BY <2>1, <2>2, <2>4, <3>1, GoBears
    <3>3. v \in opened' \ lost'
      BY <1>0, <2>1, <2>3, <2>4
    <3>4. QED
      BY <1>2, <3>1, <3>2, <3>3 DEF UserOK
  <2>5. CASE u # v
    <3>1. v \in opened' \ lost' <=> v \in opened \ lost
      BY <1>0, <2>1, <2>3, <2>5
    <3>2. QED
      BY <1>0, <1>2, <2>1, <2>2, <2>3, <2>5, <3>1, UserQuiet
  <2>6. QED
    BY <2>4, <2>5
<1>5. CASE FsRefuses(t) \/ FsCall(t) \/ Unregister(t)
  <2>1. Go(t, "idle", IdleFrame) /\ UNCHANGED fsVars /\ pc[t] \in {"open", "call", "unregister"}
    BY <1>5 DEF FsRefuses, FsCall, Unregister, Finish
  <2>2. ~Carrying(pc[t], fr[t], v)
    BY <2>1 DEF Carrying
  <2>3. QED
    BY <1>0, <1>2, <1>3, <2>1, <2>2, UserQuiet DEF fsVars
<1>6. CASE CreateFound(t)
  <2>1. Go(t, "register", fr[t]) /\ UNCHANGED fsVars /\ pc[t] = "lookup"
    BY <1>6 DEF CreateFound
  <2>2. Carrying("register", fr[t], v) <=> Carrying(pc[t], fr[t], v)
    BY <2>1 DEF Carrying
  <2>3. QED
    BY <1>0, <1>2, <2>1, <2>2, UserQuiet DEF fsVars
<1>7. CASE Register(t) \/ RegisterNew(t)
  <2>1. PICK fh : Go(t, "opened", [fr[t] EXCEPT !.fh = fh])
    BY <1>7 DEF Register, RegisterNew
  <2>2. UNCHANGED fsVars /\ pc[t] = "register"
    BY <1>7 DEF Register, RegisterNew
  <2>3. Carrying("opened", [fr[t] EXCEPT !.fh = fh], v) <=> Carrying(pc[t], fr[t], v)
    BY <1>0, <2>2 DEF Carrying, FrameSet
  <2>4. QED
    BY <1>0, <1>2, <2>1, <2>2, <2>3, UserQuiet DEF fsVars
<1>8. CASE CreateLost(t)
  <2>1. /\ Go(t, "idle", IdleFrame) /\ opened' = opened /\ pc[t] = "lookup"
        /\ lost' = (lost \cup {fr[t].file.uFh}) \ {0}
    BY <1>8 DEF CreateLost, Finish
  <2>2. CASE fr[t].file.uFh = v
    <3>1. Bears(v) = {t} /\ Holds(v) = {}
      BY <1>0, <2>1, <2>2, SoleBearer DEF Carrying
    <3>2. Bears(v)' = {} /\ v \notin opened' \ lost'
      BY <1>0, <1>3, <2>1, <2>2, <3>1, GoBears
    <3>3. QED
      BY <1>2, <3>1, <3>2 DEF UserOK
  <2>3. CASE fr[t].file.uFh # v
    <3>1. ~Carrying(pc[t], fr[t], v)
      BY <2>3 DEF Carrying
    <3>2. v \in opened' \ lost' <=> v \in opened \ lost
      BY <1>0, <2>1, <2>3
    <3>3. QED
      BY <1>0, <1>2, <1>3, <2>1, <3>1, <3>2, UserQuiet
  <2>4. QED
    BY <2>2, <2>3
<1>9. CASE Find(t)
  <2>1. Go(t, IF fr[t].op = "Release" THEN "release" ELSE "call",
           [fr[t] EXCEPT !.entry = files[fr[t].fh]]) /\ UNCHANGED fsVars
        /\ pc[t] = "find"
    BY <1>9 DEF Find
  <2>2. Carrying(IF fr[t].op = "Release" THEN "release" ELSE "call",
                 [fr[t] EXCEPT !.entry = files[fr[t].fh]], v) <=> Carrying(pc[t], fr[t], v)
    BY <1>0, <2>1 DEF Carrying, FrameSet
  <2>3. QED
    BY <1>0, <1>2, <2>1, <2>2, UserQuiet DEF fsVars
<1>10. CASE FsCallMore(t)
  <2>1. Go(t, "call", [fr[t] EXCEPT !.calls = fr[t].calls - 1]) /\ UNCHANGED fsVars
        /\ pc[t] = "call"
    BY <1>10 DEF FsCallMore
  <2>2. ~Carrying("call", [fr[t] EXCEPT !.calls = fr[t].calls - 1], v)
        /\ ~Carrying(pc[t], fr[t], v)
    BY <2>1 DEF Carrying
  <2>3. QED
    BY <1>0, <1>2, <2>1, <2>2, UserQuiet DEF fsVars
<1>11. CASE FsRelease(t)
  <2>1. /\ Go(t, "unregister", fr[t]) /\ lost' = lost /\ pc[t] = "release"
        /\ opened' = opened \ {heap[fr[t].entry].uFh}
    BY <1>11 DEF FsRelease
  <2>2. opened' = opened \ {fr[t].file.uFh}
    BY <2>1, EntryIsFile
  <2>3. ~Carrying("unregister", fr[t], v)
    BY DEF Carrying
  <2>4. CASE fr[t].file.uFh = v
    <3>1. Bears(v) = {t} /\ Holds(v) = {}
      BY <1>0, <2>1, <2>4, SoleBearer DEF Carrying
    <3>2. Bears(v)' = {} /\ v \notin opened' \ lost'
      BY <2>1, <2>2, <2>3, <2>4, <3>1, GoBears
    <3>3. QED
      BY <1>2, <3>1, <3>2 DEF UserOK
  <2>5. CASE fr[t].file.uFh # v
    <3>1. ~Carrying(pc[t], fr[t], v)
      BY <2>5 DEF Carrying
    <3>2. v \in opened' \ lost' <=> v \in opened \ lost
      BY <2>1, <2>2, <2>5
    <3>3. QED
      BY <1>0, <1>2, <2>1, <2>3, <3>1, <3>2, UserQuiet
  <2>6. QED
    BY <2>4, <2>5
<1>12. QED
  BY <1>4, <1>5, <1>6, <1>7, <1>8, <1>9, <1>10, <1>11 DEF OpenFile, UseFile

-----------------------------------------------------------------------------
(* The invariant.                                                          *)

(* At first the table has slot 0 only, the blank file.                     *)
LEMMA InitInv ==
  ASSUME Init
  PROVE  FileInv
<1>0. PICK e0 \in Entry : files = [h \in {0} |-> e0]
  BY DEF Init
<1>1. /\ heap = [e \in Entry |-> Blank] /\ freeFiles = <<>>
      /\ pc = [t \in Thread |-> "idle"] /\ fr = [t \in Thread |-> IdleFrame]
      /\ opened = {} /\ lost = {} /\ held = [h \in {} |-> Blank] /\ dirs = {}
  BY DEF Init
<1>2. NFiles = 1 /\ Handles = {}
  <2>1. DOMAIN files = 0..1 - 1 /\ DOMAIN held = {}
    BY <1>0, <1>1
  <2>2. QED
    BY <2>1, IntervalSize DEF NFiles, Handles
<1>3. TypeOK
  <2>1. Blank \in File /\ IdleFrame \in FrameSet(1)
    BY BlankOK
  <2>2. files \in [0..NFiles - 1 -> Entry] /\ NFiles \in Nat \ {0}
    BY <1>0, <1>2
  <2>3. fr \in [Thread -> FrameSet(NFiles)] /\ pc \in [Thread -> Label]
    BY <1>1, <1>2, <2>1 DEF Label
  <2>4. heap \in [Entry -> File] /\ freeFiles \in Seq(1..NFiles - 1)
    BY <1>1, <2>1
  <2>5. held \in [Handles -> File] /\ Handles \subseteq 1..NFiles - 1 /\ dirs \subseteq Handles
    BY <1>1, <1>2
  <2>6. QED
    BY <1>1, <2>2, <2>3, <2>4, <2>5 DEF TypeOK, FrameSet
<1>4. FramesOK
  BY <1>1, IdleOK DEF FramesOK
<1>5. \A fh : OwnersOf(fh) = {}
  BY <1>1 DEF OwnersOf, IdleFrame
<1>6. SlotsOK
  BY <1>1, <1>2, <1>5 DEF SlotsOK, IsInjective, Range
<1>7. EntriesOK
  <2>1. IsInjective(files)
    BY <1>0 DEF IsInjective
  <2>2. HandleIsFile
    BY <1>0, <1>1, <1>2 DEF HandleIsFile, FileOf
  <2>3. \A t \in Thread : Finds(pc[t], fr[t])
    BY <1>1, IdleFinds
  <2>4. QED
    BY <2>1, <2>2, <2>3, EntriesParts
<1>8. CarriersOK
  BY <1>1, <1>2 DEF CarriersOK, Carries
<1>9. QED
  BY <1>3, <1>4, <1>6, <1>7, <1>8 DEF FileInv

(* Each step of the kernel and of the handlers keeps the invariant.        *)
LEMMA StepInv ==
  ASSUME FileInv, NEW t \in Thread, Kernel(t) \/ OpenFile(t) \/ UseFile(t)
  PROVE  TypeOK' /\ FramesOK' /\ SlotsOK' /\ EntriesOK' /\ UsersOK'
<1>0. TypeOK /\ FramesOK /\ SlotsOK /\ EntriesOK /\ CarriersOK /\ UsersOK
  BY CarriersParts DEF FileInv
<1>1. TypeOK'
  BY <1>0, KernelType, OpenType, UseType
<1>2. FramesOK'
  BY <1>0, KernelFrames, HandlerFrames
<1>3. SlotsOK'
  BY <1>0, <1>1, KernelSlots, HandlerSlots
<1>4. EntriesOK'
  BY <1>0, KernelEntries, HandlerEntries
<1>5. \A v \in UFh : UserOK(v)'
  BY <1>0, KernelUsers, HandlerUsers
<1>6. QED
  BY <1>1, <1>2, <1>3, <1>4, <1>5 DEF UsersOK

(* So does a step that changes nothing.                                    *)
LEMMA StutterInv ==
  ASSUME FileInv, UNCHANGED vars
  PROVE  TypeOK' /\ FramesOK' /\ SlotsOK' /\ EntriesOK' /\ UsersOK'
<1>0. UNCHANGED <<files, heap, freeFiles, pc, fr, opened, lost, held, dirs>>
  BY DEF vars, tableVars, threadVars, fsVars, kernelVars
<1>1. TypeOK /\ FramesOK /\ SlotsOK /\ EntriesOK /\ UsersOK
  BY CarriersParts DEF FileInv
<1>2. NFiles' = NFiles /\ Handles' = Handles
  BY <1>0 DEF NFiles, Handles
<1>3. \A fh : OwnersOf(fh)' = OwnersOf(fh)
  BY <1>0 DEF OwnersOf
<1>4. TypeOK' /\ FramesOK'
  BY <1>0, <1>1, <1>2 DEF TypeOK, FramesOK
<1>5. SlotsOK'
  BY <1>0, <1>1, <1>2, <1>3 DEF SlotsOK
<1>6. EntriesOK'
  BY <1>0, <1>1, <1>2 DEF EntriesOK, HandleIsFile, FileOf
<1>7. UsersOK'
  BY <1>0, <1>1, <1>2 DEF UsersOK, UserOK, Bears, Holds
<1>8. QED
  BY <1>4, <1>5, <1>6, <1>7

(* The invariant holds throughout: each slot of the table and each handle  *)
(* of the file system has one user at a time, whatever the number of       *)
(* goroutines that open, use and release files at once.                    *)
THEOREM FileInvariant == Spec => []FileInv
<1>1. Init => FileInv
  BY InitInv
<1>2. FileInv /\ [Next]_vars => TypeOK' /\ FramesOK' /\ SlotsOK' /\ EntriesOK' /\ UsersOK'
  BY StepInv, StutterInv DEF Next
<1>3. TypeOK /\ FramesOK /\ SlotsOK /\ EntriesOK /\ UsersOK => FileInv
  BY CarriersParts DEF FileInv
<1>4. QED
  BY <1>1, <1>2, <1>3, PTL DEF Spec

-----------------------------------------------------------------------------
(* What follows from it.                                                   *)

(* The variables have their types throughout.                              *)
THEOREM FileTypes == Spec => []TypeOK
<1>1. FileInv => TypeOK
  BY DEF FileInv
<1>2. QED
  BY <1>1, FileInvariant, PTL

(* Every slot of the table is free once, or the kernel's, or one request's *)
(* (file.go:79-110).                                                       *)
THEOREM SlotsAccounted == Spec => []SlotsExact
<1>1. ASSUME FileInv, NEW fh \in 1..NFiles - 1
      PROVE  Cardinality({k \in 1..Len(freeFiles) : freeFiles[k] = fh})
               + Cardinality({h \in Handles : h = fh}) + Cardinality(OwnersOf(fh)) = 1
  <2> DEFINE F == {k \in 1..Len(freeFiles) : freeFiles[k] = fh}
             H == {h \in Handles : h = fh}
             O == OwnersOf(fh)
  <2>1. freeFiles \in Seq(1..NFiles - 1) /\ SlotsOK
    BY <1>1, TypeParts DEF FileInv
  <2>2. ASSUME fh \in Range(freeFiles) PROVE \E k : F = {k}
    <3>1. PICK k \in 1..Len(freeFiles) : freeFiles[k] = fh
      BY <2>1, <2>2 DEF Range
    <3>2. \A j \in F : j = k
      BY <2>1, <3>1 DEF SlotsOK, IsInjective
    <3>3. F = {k}
      BY <3>1, <3>2
    <3>4. QED
      BY <3>3
  <2>3. fh \notin Range(freeFiles) => F = {}
    BY <2>1 DEF Range
  <2>4. /\ fh \in Handles => \E h : H = {h}
        /\ fh \notin Handles => H = {}
    OBVIOUS
  <2>5. ASSUME O # {} PROVE \E t : O = {t}
    <3>1. PICK t : t \in O
      BY <2>5
    <3>2. \A u \in O : u = t
      BY <2>1, <3>1 DEF SlotsOK
    <3>3. O = {t}
      BY <3>1, <3>2
    <3>4. QED
      BY <3>3
  <2>6. \/ (\E k : F = {k}) /\ H = {} /\ O = {}
        \/ F = {} /\ (\E h : H = {h}) /\ O = {}
        \/ F = {} /\ H = {} /\ \E t : O = {t}
    BY <2>1, <2>2, <2>3, <2>4, <2>5 DEF SlotsOK
  <2> HIDE DEF F, H, O
  <2>7. Cardinality({}) = 0 /\ \A x : Cardinality({x}) = 1
    BY FS_EmptySet, FS_Singleton
  <2>8. Cardinality(F) + Cardinality(H) + Cardinality(O) = 1
    <3>1. CASE (\E k : F = {k}) /\ H = {} /\ O = {}
      <4>1. Cardinality(F) = 1 /\ Cardinality(H) = 0 /\ Cardinality(O) = 0
        BY <2>7, <3>1
      <4>2. QED
        BY <4>1
    <3>2. CASE F = {} /\ (\E h : H = {h}) /\ O = {}
      <4>1. Cardinality(F) = 0 /\ Cardinality(H) = 1 /\ Cardinality(O) = 0
        BY <2>7, <3>2
      <4>2. QED
        BY <4>1
    <3>3. CASE F = {} /\ H = {} /\ \E t : O = {t}
      <4>1. Cardinality(F) = 0 /\ Cardinality(H) = 0 /\ Cardinality(O) = 1
        BY <2>7, <3>3
      <4>2. QED
        BY <4>1
    <3>4. QED
      BY <2>6, <3>1, <3>2, <3>3
  <2>9. QED
    BY <2>8 DEF F, H, O
<1>2. FileInv => SlotsExact
  BY <1>1 DEF SlotsExact
<1>3. QED
  BY <1>2, FileInvariant, PTL

(* A handle stands for the file it was opened for, and handle 0 for none   *)
(* (bridge.go:80-94).                                                      *)
THEOREM HandlesAreFiles == Spec => []HandleIsFile
<1>1. FileInv => HandleIsFile
  BY DEF FileInv, EntriesOK
<1>2. QED
  BY <1>1, FileInvariant, PTL

(* A call of the file system carries the file the kernel meant, although   *)
(* the entry is read after b.mu is dropped (file.go:65-70).                *)
THEOREM CallsAreTrue == Spec => []CallIsTrue
<1>1. FileInv => CallIsTrue
  BY EntryIsFile DEF FileInv, CallIsTrue
<1>2. QED
  BY <1>1, FileInvariant, PTL

(* What the kernel holds is open in the file system, and two handles never *)
(* share what they stand for (bridge.go:539-549).                          *)
THEOREM HeldStaysOpen == Spec => []HeldIsOpen
<1>1. FileInv => HeldIsOpen
  BY DEF FileInv, CarriersOK, HeldIsOpen
<1>2. QED
  BY <1>1, FileInvariant, PTL

(* What the file system opened is always on some way to its release, but   *)
(* for what Create loses (bridge.go:446-487, 539-549).                     *)
THEOREM FilesNotLost == Spec => []NoFileLost
<1>1. FileInv => NoFileLost
  BY DEF FileInv, CarriersOK, NoFileLost, Carries
<1>2. QED
  BY <1>1, FileInvariant, PTL
=============================================================================
