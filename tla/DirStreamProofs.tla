---------------------------- MODULE DirStreamProofs ----------------------------
(* Proofs about DirStream for any number of readers and files, any room of *)
(* a reply, and requests and changes without bound.                        *)
EXTENDS DirStream, FiniteSetTheorems, SequenceTheorems, TLAPS


USE BoundAssumption, NameAssumption, ReaderAssumption

(* The names that are no files.                                            *)
LEMMA Names == NoName # Dot /\ NoName # DotDot /\ Dot # DotDot
  BY Zenon DEF NoName, Dot, DotDot

-----------------------------------------------------------------------------
(* Sequences.                                                              *)

(* What is in a reply after one more entry.                                *)
LEMMA AppendRange ==
  ASSUME NEW S, NEW s \in Seq(S), NEW x \in S
  PROVE  /\ Append(s, x) \in Seq(S) /\ Len(Append(s, x)) = Len(s) + 1
         /\ \A k \in 1..Len(s) : Append(s, x)[k] = s[k]
         /\ Append(s, x)[Len(s) + 1] = x
         /\ Range(Append(s, x)) = Range(s) \cup {x}
<1>1. /\ Append(s, x) \in Seq(S) /\ Len(Append(s, x)) = Len(s) + 1
      /\ \A k \in 1..Len(s) : Append(s, x)[k] = s[k]
      /\ Append(s, x)[Len(s) + 1] = x
      /\ Len(s) \in Nat
  OBVIOUS
<1>2. DOMAIN Append(s, x) = 1..Len(s) + 1 /\ DOMAIN s = 1..Len(s)
  BY <1>1
<1>3. \A k : k \in 1..Len(s) + 1 <=> k \in 1..Len(s) \/ k = Len(s) + 1
  BY <1>1
<1>4. \A y : y \in Range(Append(s, x)) <=> \E k \in 1..Len(s) + 1 : y = Append(s, x)[k]
  BY <1>2 DEF Range
<1>5. \A y : y \in Range(s) <=> \E k \in 1..Len(s) : y = s[k]
  BY <1>2 DEF Range
<1>6. \A y : y \in Range(Append(s, x)) <=> y \in Range(s) \/ y = x
  BY <1>1, <1>3, <1>4, <1>5
<1>7. QED
  BY <1>1, <1>6

(* What a reader has after one more reply.                                 *)
LEMMA ConcatRange ==
  ASSUME NEW S, NEW s \in Seq(S), NEW u \in Seq(S)
  PROVE  /\ s \o u \in Seq(S) /\ Len(s \o u) = Len(s) + Len(u)
         /\ \A k \in 1..Len(s) : (s \o u)[k] = s[k]
         /\ \A k \in 1..Len(u) : (s \o u)[Len(s) + k] = u[k]
         /\ Range(s \o u) = Range(s) \cup Range(u)
<1>1. /\ s \o u \in Seq(S) /\ Len(s \o u) = Len(s) + Len(u)
      /\ \A k \in 1..Len(s) : (s \o u)[k] = s[k]
      /\ Len(s) \in Nat /\ Len(u) \in Nat
  OBVIOUS
<1>2. \A k \in 1..Len(s) + Len(u) :
        (s \o u)[k] = IF k <= Len(s) THEN s[k] ELSE u[k - Len(s)]
  OBVIOUS
<1>3. \A k \in 1..Len(u) : (s \o u)[Len(s) + k] = u[k]
  <2> TAKE k \in 1..Len(u)
  <2>1. PICK j \in 1..Len(s) + Len(u) : j = Len(s) + k /\ ~(j <= Len(s)) /\ j - Len(s) = k
    BY <1>1
  <2>2. (s \o u)[j] = u[j - Len(s)]
    BY <1>2, <2>1
  <2>3. QED
    BY <2>1, <2>2
<1>4. /\ DOMAIN (s \o u) = 1..Len(s) + Len(u)
      /\ DOMAIN s = 1..Len(s) /\ DOMAIN u = 1..Len(u)
  BY <1>1
<1>5. \A k \in 1..Len(s) + Len(u) :
        k \in 1..Len(s) \/ \E j \in 1..Len(u) : k = Len(s) + j
  <2> TAKE k \in 1..Len(s) + Len(u)
  <2>1. CASE k <= Len(s)
    BY <1>1, <2>1
  <2>2. CASE k > Len(s)
    <3>1. k - Len(s) \in 1..Len(u) /\ k = Len(s) + (k - Len(s))
      BY <1>1, <2>2
    <3>2. QED
      BY <3>1
  <2>3. QED
    BY <1>1, <2>1, <2>2
<1>6. \A k \in 1..Len(s) : k \in 1..Len(s) + Len(u)
  BY <1>1
<1>7. \A k \in 1..Len(u) : Len(s) + k \in 1..Len(s) + Len(u)
  BY <1>1
<1>8. \A y : y \in Range(s \o u) <=> y \in Range(s) \/ y \in Range(u)
  <2>1. \A y : y \in Range(s \o u) <=> \E k \in 1..Len(s) + Len(u) : y = (s \o u)[k]
    BY <1>4 DEF Range
  <2>2. \A y : y \in Range(s) <=> \E k \in 1..Len(s) : y = s[k]
    BY <1>4 DEF Range
  <2>3. \A y : y \in Range(u) <=> \E k \in 1..Len(u) : y = u[k]
    BY <1>4 DEF Range
  <2>4. ASSUME NEW y, y \in Range(s \o u) PROVE y \in Range(s) \/ y \in Range(u)
    <3>1. PICK k \in 1..Len(s) + Len(u) : y = (s \o u)[k]
      BY <2>1, <2>4
    <3>2. CASE k \in 1..Len(s)
      BY <1>1, <2>2, <3>1, <3>2
    <3>3. CASE \E j \in 1..Len(u) : k = Len(s) + j
      BY <1>3, <2>3, <3>1, <3>3
    <3>4. QED
      BY <1>5, <3>2, <3>3
  <2>5. ASSUME NEW y, y \in Range(s) \/ y \in Range(u) PROVE y \in Range(s \o u)
    <3>1. CASE y \in Range(s)
      BY <1>1, <1>6, <2>1, <2>2, <3>1
    <3>2. CASE y \in Range(u)
      BY <1>3, <1>7, <2>1, <2>3, <3>2
    <3>3. QED
      BY <2>5, <3>1, <3>2
  <2>6. QED
    BY <2>4, <2>5
<1>9. QED
  BY <1>1, <1>3, <1>8

(* A function of 1..m is a sequence of length m.                           *)
LEMMA FunIsSeq ==
  ASSUME NEW R, NEW m \in Nat, NEW s \in [1..m -> R]
  PROVE  s \in Seq(R) /\ Len(s) = m
<1>1. s \in Seq(R)
  OBVIOUS
<1>2. DOMAIN s = 1..m /\ DOMAIN s = 1..Len(s) /\ Len(s) \in Nat
  BY <1>1
<1>3. QED
  BY <1>1, <1>2

(* What Lsdir leaves as the stream: every file of the directory and only   *)
(* those, the named entries once, and the dots at the end.                 *)
StreamOf(S, u) ==
  /\ u \in Seq(Told \cup {NoName}) /\ u # <<>> /\ u[Len(u)] = DotDot
  /\ Range(u) \cap File = S
  /\ \A j, k \in 1..Len(u) : u[j] = u[k] => j = k \/ u[j] = NoName

(* Whatever Lsdir answers, with the dots, is one.                           *)
LEMMA ListingOK ==
  ASSUME NEW S \in SUBSET File, NEW s \in Listings(S)
  PROVE  StreamOf(S, s \o <<Dot, DotDot>>)
<1> DEFINE n == Cardinality(S)
           u == s \o <<Dot, DotDot>>
<1>1. n \in Nat
  BY FS_Subset, FS_CardinalityType
<1>2. PICK m \in Nat : s \in [1..m -> S \cup {NoName}]
  <2>1. [1..n -> S] \subseteq [1..n -> S \cup {NoName}]
    OBVIOUS
  <2>2. s \in [1..n -> S \cup {NoName}] \/ s \in [1..n + 1 -> S \cup {NoName}]
    BY <2>1 DEF Listings
  <2>3. n + 1 \in Nat
    BY <1>1
  <2>4. QED
    BY <1>1, <2>2, <2>3
<1> HIDE DEF n
<1>3. \A x \in S : \E k \in 1..m : \A j \in 1..m : s[j] = x <=> j = k
  <2>1. DOMAIN s = 1..m
    BY <1>2
  <2>2. \A x \in S : \E k \in DOMAIN s : \A j \in DOMAIN s : s[j] = x <=> j = k
    BY DEF Listings
  <2>3. ASSUME NEW x \in S PROVE \E k \in 1..m : \A j \in 1..m : s[j] = x <=> j = k
    <3>1. PICK k \in DOMAIN s : \A j \in DOMAIN s : s[j] = x <=> j = k
      BY <2>2
    <3>2. k \in 1..m /\ \A j \in 1..m : s[j] = x <=> j = k
      BY <2>1, <3>1
    <3>3. QED
      BY <3>2
  <2>4. QED
    BY <2>3
<1>4. s \in Seq(S \cup {NoName}) /\ Len(s) = m
  BY <1>2, FunIsSeq
<1>5. /\ u \in Seq(Told \cup {NoName}) /\ Len(u) = m + 2
      /\ \A k \in 1..m : u[k] = s[k]
      /\ u[m + 1] = Dot /\ u[m + 2] = DotDot
  BY <1>4 DEF Told
<1>6. \A k : k \in 1..Len(u) <=> k \in 1..m \/ k = m + 1 \/ k = m + 2
  BY <1>2, <1>5
<1> HIDE DEF u
<1>7. \A k \in 1..m : u[k] \in S \cup {NoName}
  BY <1>2, <1>5
<1>8. Dot \notin S \cup {NoName} /\ DotDot \notin S \cup {NoName} /\ NoName \notin S /\ S \subseteq File
  BY Names
<1>9. Range(u) \cap File = S
  <2>1. \A y : y \in Range(u) <=> \E k \in 1..Len(u) : y = u[k]
    BY <1>5 DEF Range
  <2>2. \A y \in S : y \in Range(u)
    BY <1>3, <1>5, <1>6, <2>1
  <2>3. \A y \in Range(u) : y \in S \/ y \notin File
    BY <1>5, <1>6, <1>7, <2>1
  <2>4. QED
    BY <2>2, <2>3
<1>10. ASSUME NEW j \in 1..Len(u), NEW k \in 1..Len(u), u[j] = u[k], u[j] # NoName
       PROVE  j = k
  <2>1. CASE j \in 1..m /\ k \in 1..m
    <3>1. s[j] \in S /\ s[j] = s[k]
      BY <1>5, <1>7, <1>10, <2>1
    <3>2. QED
      BY <1>3, <2>1, <3>1
  <2>2. CASE ~(j \in 1..m /\ k \in 1..m)
    <3>1. \A i \in {j, k} : i \in 1..m => u[i] # Dot /\ u[i] # DotDot
      BY <1>7, <1>8
    <3>2. \A i \in {j, k} : i \in 1..m \/ i = m + 1 \/ i = m + 2
      BY <1>6
    <3>3. CASE j \in 1..m
      BY <1>5, <1>10, <2>2, <3>1, <3>2, <3>3
    <3>4. CASE k \in 1..m
      BY <1>5, <1>10, <2>2, <3>1, <3>2, <3>4
    <3>5. CASE j \notin 1..m /\ k \notin 1..m
      BY <1>5, <1>10, <3>2, <3>5, Names
    <3>6. QED
      BY <3>3, <3>4, <3>5
  <2>3. QED
    BY <2>1, <2>2
<1>11. u # <<>> /\ u[Len(u)] = DotDot
  BY <1>2, <1>5
<1>12. \A j, k \in 1..Len(u) : u[j] = u[k] => j = k \/ u[j] = NoName
  BY <1>10
<1>13. u \in Seq(Told \cup {NoName})
  BY <1>5
<1>14. StreamOf(S, u)
  BY <1>9, <1>11, <1>12, <1>13 DEF StreamOf
<1>15. QED
  BY <1>14 DEF u

-----------------------------------------------------------------------------
(* What a step does.                                                       *)

(* TypeOK, with names for its parts.                                       *)
LEMMA TypeParts ==
  ASSUME TypeOK
  PROVE  /\ dir \subseteq File
         /\ stream \in Seq(Told \cup {NoName}) /\ mu \in Reader \cup {Nobody}
         /\ pc \in [Reader -> Label] /\ fr \in [Reader -> Frame]
         /\ off \in [Reader -> Nat] /\ eof \in [Reader -> BOOLEAN]
         /\ got \in [Reader -> Seq(Told)]
         /\ stay \in [Reader -> SUBSET File] /\ ever \in [Reader -> SUBSET File]
         /\ alone \in [Reader -> BOOLEAN]
         /\ counted \in [File -> Nat] /\ known \in [File -> Nat]
         /\ issued \in 0..MaxRequests /\ changes \in 0..MaxChanges
         /\ \A r \in Reader :
              /\ Serving(r) <=> mu = r
              /\ pc[r] \in {"fill", "look"} => fr[r].k <= Len(stream) + 1
              /\ Len(fr[r].out) <= Room
              /\ fr[r] \in Frame /\ fr[r].offset \in Nat /\ fr[r].k \in Nat \ {0}
              /\ fr[r].out \in Seq(Told) /\ fr[r].found \subseteq File
              /\ fr[r].plus \in BOOLEAN
<1>1. \A r \in Reader :
        /\ Serving(r) <=> mu = r
        /\ pc[r] \in {"fill", "look"} => fr[r].k <= Len(stream) + 1
        /\ Len(fr[r].out) <= Room
  BY DEF TypeOK
<1>2. \A r \in Reader :
        /\ fr[r] \in Frame /\ fr[r].offset \in Nat /\ fr[r].k \in Nat \ {0}
        /\ fr[r].out \in Seq(Told) /\ fr[r].found \subseteq File
        /\ fr[r].plus \in BOOLEAN
  BY DEF TypeOK, Frame
<1>3. QED
  BY <1>1, <1>2 DEF TypeOK

(* Where a reader's request goes, and that the others stay.                *)
LEMMA GoEffect ==
  ASSUME TypeOK, NEW r \in Reader, NEW l, NEW f, Go(r, l, f)
  PROVE  /\ pc'[r] = l /\ fr'[r] = f
         /\ \A q \in Reader \ {r} : pc'[q] = pc[q] /\ fr'[q] = fr[q]
  BY TypeParts DEF Go

(* The idle frame is one.                                                  *)
LEMMA IdleOK == IdleFrame \in Frame /\ Len(IdleFrame.out) <= Room
  BY DEF IdleFrame, Frame

(* A step to a good frame keeps the types.                                 *)
LEMMA GoType ==
  ASSUME TypeOK, NEW r \in Reader, NEW l \in Label, NEW f \in Frame, Go(r, l, f),
         dir' \subseteq File, stream' \in Seq(Told \cup {NoName}),
         stream' = stream \/ mu = r,
         mu' = r <=> l \in {"lsdir", "fill", "look"}, mu' \in {r, mu, Nobody},
         mu' # mu => mu \in {r, Nobody},
         l \in {"fill", "look"} => f.k <= Len(stream') + 1, Len(f.out) <= Room,
         off' \in [Reader -> Nat], eof' \in [Reader -> BOOLEAN],
         got' \in [Reader -> Seq(Told)],
         stay' \in [Reader -> SUBSET File], ever' \in [Reader -> SUBSET File],
         alone' \in [Reader -> BOOLEAN],
         counted' \in [File -> Nat], known' \in [File -> Nat],
         issued' \in 0..MaxRequests, changes' \in 0..MaxChanges
  PROVE  TypeOK'
<1>1. pc' \in [Reader -> Label] /\ fr' \in [Reader -> Frame]
  BY TypeParts DEF Go
<1>2. mu' \in Reader \cup {Nobody}
  BY TypeParts
<1>3. ASSUME NEW q \in Reader
      PROVE  /\ Serving(q)' <=> mu' = q
             /\ pc'[q] \in {"fill", "look"} => fr'[q].k <= Len(stream') + 1
             /\ Len(fr'[q].out) <= Room
  <2>1. CASE q = r
    BY <2>1, GoEffect DEF Serving
  <2>2. CASE q # r
    <3>1. pc'[q] = pc[q] /\ fr'[q] = fr[q]
      BY <2>2, GoEffect
    <3>2. mu' = q <=> mu = q
      BY <2>2
    <3>3. mu = r => pc[q] \notin {"lsdir", "fill", "look"}
      BY <2>2, TypeParts DEF Serving
    <3>4. Serving(q)' <=> mu' = q
      BY <3>1, <3>2, TypeParts DEF Serving
    <3>5. pc'[q] \in {"fill", "look"} => fr'[q].k <= Len(stream') + 1
      BY <3>1, <3>3, TypeParts
    <3>6. QED
      BY <3>1, <3>4, <3>5, TypeParts
  <2>3. QED
    BY <2>1, <2>2
<1>4. QED
  BY <1>1, <1>2, <1>3 DEF TypeOK

(* The stream of a handle that has one.                                    *)
LEMMA StreamKept ==
  ASSUME StreamOK, stream' = stream, stream # <<>>
  PROVE  StreamOK'
  BY DEF StreamOK

(* What the invariants say of one reader.                                  *)
RepOK(r) ==
  /\ ReplyOK(pc[r], fr[r])
  /\ pc[r] # "idle" => fr[r].offset = off[r] /\ ~eof[r]
SoundOK(r) == RepOK(r) /\ ReaderOK(r)

(* A reader that a step does not concern.                                  *)
Same(q) ==
  /\ pc'[q] = pc[q] /\ fr'[q] = fr[q]
  /\ off'[q] = off[q] /\ eof'[q] = eof[q] /\ got'[q] = got[q]
  /\ stay'[q] = stay[q] /\ ever'[q] = ever[q] /\ alone'[q] = alone[q]
LEMMA SameReader ==
  ASSUME NEW q \in Reader, SoundOK(q), UNCHANGED <<dir, stream>>, Same(q)
  PROVE  SoundOK(q)'
<1>1. RepOK(q)'
  BY DEF SoundOK, RepOK, ReplyOK, Same
<1>2. ReaderOK(q)'
  BY DEF SoundOK, ReaderOK, Reading, Same
<1>3. QED
  BY <1>1, <1>2 DEF SoundOK

(* The counts agree after a step that leaves them and what is found.       *)
LEMMA CountsKept ==
  ASSUME LookupsAgree, UNCHANGED countVars, \A r \in Reader : fr'[r].found = fr[r].found
  PROVE  LookupsAgree'
<1>1. \A n \in File : {r \in Reader : n \in fr'[r].found} = {r \in Reader : n \in fr[r].found}
  OBVIOUS
<1>2. QED
  BY <1>1 DEF LookupsAgree, countVars

(* StreamInv, told reader by reader.                                       *)
Parts == TypeOK /\ StreamOK /\ LookupsAgree
LEMMA InvParts == StreamInv <=> Parts /\ \A r \in Reader : SoundOK(r)
  BY DEF StreamInv, Parts, SoundOK, RepliesOK, RepOK, ReadersOK

-----------------------------------------------------------------------------
(* Files come and go, requests are sent.                                   *)

Good == Parts /\ \A r \in Reader : SoundOK(r)

(* A created file is one that may be listed to any reader from now on.     *)
LEMMA CreateGood ==
  ASSUME Good, NEW n \in File, Create(n)
  PROVE  TypeOK' /\ StreamOK' /\ LookupsAgree' /\ \A q \in Reader : SoundOK(q)'
<1>0. TypeOK /\ StreamOK /\ LookupsAgree /\ (\A q \in Reader : SoundOK(q))
      /\ ever \in [Reader -> SUBSET File] /\ dir \subseteq File
      /\ changes \in 0..MaxChanges
  BY TypeParts DEF Good, Parts
<1>1. /\ UNCHANGED <<stream, mu, pc, fr, off, eof, got, stay, alone, counted, known, issued>>
      /\ dir' = dir \cup {n} /\ ever' = [r \in Reader |-> ever[r] \cup {n}]
      /\ changes' = changes + 1 /\ changes < MaxChanges
  BY DEF Create, handleVars, readerVars, countVars
<1>2. \A q \in Reader : ever'[q] = ever[q] \cup {n}
  BY <1>1
<1>3. TypeOK'
  <2>1. ever' \in [Reader -> SUBSET File] /\ dir' \subseteq File
    BY <1>0, <1>1
  <2>2. changes' \in 0..MaxChanges
    BY <1>0, <1>1
  <2>3. QED
    BY <1>0, <1>1, <2>1, <2>2 DEF TypeOK, Serving
<1>4. StreamOK' /\ LookupsAgree'
  BY <1>0, <1>1 DEF StreamOK, LookupsAgree
<1>5. ASSUME NEW q \in Reader PROVE SoundOK(q)'
  <2>1. SoundOK(q) /\ ever'[q] = ever[q] \cup {n}
    BY <1>0, <1>2
  <2>2. RepOK(q)'
    BY <1>1, <2>1 DEF SoundOK, RepOK, ReplyOK
  <2>3. ReaderOK(q)'
    BY <1>1, <2>1 DEF SoundOK, ReaderOK, Reading
  <2>4. QED
    BY <2>2, <2>3 DEF SoundOK
<1>6. QED
  BY <1>3, <1>4, <1>5

(* A deleted file need not be listed to anybody.                           *)
LEMMA DeleteGood ==
  ASSUME Good, NEW n \in File, Delete(n)
  PROVE  TypeOK' /\ StreamOK' /\ LookupsAgree' /\ \A q \in Reader : SoundOK(q)'
<1>0. TypeOK /\ StreamOK /\ LookupsAgree /\ (\A q \in Reader : SoundOK(q))
      /\ stay \in [Reader -> SUBSET File] /\ dir \subseteq File
      /\ changes \in 0..MaxChanges
  BY TypeParts DEF Good, Parts
<1>1. /\ UNCHANGED <<stream, mu, pc, fr, off, eof, got, ever, alone, counted, known, issued>>
      /\ dir' = dir \ {n} /\ stay' = [r \in Reader |-> stay[r] \ {n}]
      /\ changes' = changes + 1 /\ changes < MaxChanges
  BY DEF Delete, handleVars, readerVars, countVars
<1>2. \A q \in Reader : stay'[q] = stay[q] \ {n}
  BY <1>1
<1>3. TypeOK'
  <2>1. stay' \in [Reader -> SUBSET File] /\ dir' \subseteq File
    BY <1>0, <1>1
  <2>2. changes' \in 0..MaxChanges
    BY <1>0, <1>1
  <2>3. QED
    BY <1>0, <1>1, <2>1, <2>2 DEF TypeOK, Serving
<1>4. StreamOK' /\ LookupsAgree'
  BY <1>0, <1>1 DEF StreamOK, LookupsAgree
<1>5. ASSUME NEW q \in Reader PROVE SoundOK(q)'
  <2>1. SoundOK(q) /\ stay'[q] = stay[q] \ {n}
    BY <1>0, <1>2
  <2>2. RepOK(q)'
    BY <1>1, <2>1 DEF SoundOK, RepOK, ReplyOK
  <2>3. ReaderOK(q)'
    BY <1>1, <2>1 DEF SoundOK, ReaderOK, Reading
  <2>4. QED
    BY <2>2, <2>3 DEF SoundOK
<1>6. QED
  BY <1>3, <1>4, <1>5

(* The frame a request begins with.                                        *)
LEMMA AskFrame ==
  ASSUME NEW o \in Nat, NEW plus \in BOOLEAN
  PROVE  LET f == [IdleFrame EXCEPT !.offset = o, !.plus = plus]
         IN  /\ f \in Frame /\ f.out = <<>> /\ f.found = {} /\ f.offset = o
             /\ Len(f.out) <= Room /\ ReplyOK("lock", f)
<1> DEFINE f == [IdleFrame EXCEPT !.offset = o, !.plus = plus]
<1>1. IdleFrame \in Frame /\ IdleFrame.out = <<>> /\ IdleFrame.found = {}
  BY DEF IdleFrame, Frame
<1>2. f.out = <<>> /\ f.found = {} /\ f.offset = o
  BY <1>1 DEF Frame
<1>3. f \in Frame
  BY <1>1 DEF Frame
<1> HIDE DEF f
<1>4. ReplyOK("lock", f)
  BY <1>2 DEF ReplyOK
<1>5. QED
  BY <1>2, <1>3, <1>4 DEF f

(* A reader goes on where it is.                                           *)
LEMMA GoOnGood ==
  ASSUME Good, NEW r \in Reader, NEW plus \in BOOLEAN, GoOn(r, plus)
  PROVE  TypeOK' /\ StreamOK' /\ LookupsAgree' /\ \A q \in Reader : SoundOK(q)'
<1>0. TypeOK /\ StreamOK /\ LookupsAgree /\ (\A q \in Reader : SoundOK(q))
  BY DEF Good, Parts
<1>1. PICK f : f = [IdleFrame EXCEPT !.offset = off[r], !.plus = plus]
  OBVIOUS
<1>2. /\ f \in Frame /\ f.out = <<>> /\ f.found = {} /\ f.offset = off[r]
      /\ Len(f.out) <= Room /\ ReplyOK("lock", f)
  <2>1. PICK o \in Nat : o = off[r]
    BY <1>0, TypeParts
  <2>2. f = [IdleFrame EXCEPT !.offset = o, !.plus = plus]
    BY <1>1, <2>1
  <2>3. /\ f \in Frame /\ f.out = <<>> /\ f.found = {} /\ f.offset = o
        /\ Len(f.out) <= Room /\ ReplyOK("lock", f)
    BY <2>2, AskFrame
  <2>4. QED
    BY <2>1, <2>3
<1>3. /\ pc[r] = "idle" /\ Go(r, "lock", f) /\ off[r] > 0 /\ ~eof[r]
      /\ issued' = issued + 1 /\ issued < MaxRequests
      /\ UNCHANGED <<dir, stream, mu, off, eof, got, stay, ever, alone, counted, known, changes>>
  BY <1>1 DEF GoOn, Ask, handleVars, readerVars, historyVars, countVars
<1>4. TypeOK'
  <2>1. mu # r /\ "lock" \in Label
    BY <1>0, <1>3, TypeParts DEF Serving, Label
  <2>2. issued' \in 0..MaxRequests
    BY <1>0, <1>3, TypeParts
  <2>3. QED
    BY <1>0, <1>2, <1>3, <2>1, <2>2, GoType, TypeParts
<1>5. fr[r] = IdleFrame
  BY <1>0, <1>3 DEF SoundOK, RepOK, ReplyOK
<1>6. StreamOK'
  <2>1. stream # <<>>
    BY <1>0, <1>3, TypeParts DEF StreamOK
  <2>2. QED
    BY <1>0, <1>3, <2>1, StreamKept
<1>7. LookupsAgree'
  <2>0. fr'[r].found = {} /\ fr[r].found = {}
    BY <1>0, <1>2, <1>3, <1>5, GoEffect DEF IdleFrame
  <2>1. \A q \in Reader : fr'[q].found = fr[q].found
    BY <1>0, <1>3, <2>0, GoEffect
  <2>2. QED
    BY <1>0, <1>3, <2>1, CountsKept DEF countVars
<1>8. ASSUME NEW q \in Reader PROVE SoundOK(q)'
  <2>1. CASE q # r
    BY <1>0, <1>3, <2>1, SameReader, GoEffect DEF Same
  <2>2. CASE q = r
    <3>1. pc'[r] = "lock" /\ fr'[r] = f /\ SoundOK(r)
      BY <1>0, <1>3, GoEffect
    <3>2. RepOK(r)'
      BY <1>2, <1>3, <3>1 DEF RepOK, ReplyOK
    <3>3. Range(f.out) = Range(fr[r].out)
      BY <1>2, <1>5 DEF IdleFrame
    <3>4. ReaderOK(r)'
      BY <1>3, <3>1, <3>3 DEF SoundOK, ReaderOK, Reading
    <3>5. QED
      BY <2>2, <3>2, <3>4 DEF SoundOK
  <2>3. QED
    BY <2>1, <2>2
<1>9. QED
  BY <1>4, <1>6, <1>7, <1>8

(* A reader begins again.                                                  *)
LEMMA RewindGood ==
  ASSUME Good, NEW r \in Reader, NEW plus \in BOOLEAN, Rewind(r, plus)
  PROVE  TypeOK' /\ StreamOK' /\ LookupsAgree' /\ \A q \in Reader : SoundOK(q)'
<1>0. TypeOK /\ StreamOK /\ LookupsAgree /\ (\A q \in Reader : SoundOK(q))
  BY DEF Good, Parts
<1>1. PICK f : f = [IdleFrame EXCEPT !.offset = 0, !.plus = plus]
  OBVIOUS
<1>2. /\ f \in Frame /\ f.out = <<>> /\ f.found = {} /\ f.offset = 0
      /\ Len(f.out) <= Room /\ ReplyOK("lock", f)
  BY <1>1, AskFrame
<1>3. /\ pc[r] = "idle" /\ Go(r, "lock", f)
      /\ issued' = issued + 1 /\ issued < MaxRequests
      /\ UNCHANGED <<dir, stream, mu, counted, known, changes>>
      /\ off' = [off EXCEPT ![r] = 0] /\ eof' = [eof EXCEPT ![r] = FALSE]
      /\ got' = [got EXCEPT ![r] = <<>>]
      /\ stay' = [stay EXCEPT ![r] = dir] /\ ever' = [ever EXCEPT ![r] = dir]
      /\ alone' = [alone EXCEPT ![r] = TRUE]
  BY <1>1 DEF Rewind, Ask, handleVars, countVars
<1>4. TypeOK'
  <2>1. mu # r /\ "lock" \in Label
    BY <1>0, <1>3, TypeParts DEF Serving, Label
  <2>2. issued' \in 0..MaxRequests
    BY <1>0, <1>3, TypeParts
  <2>3. /\ off' \in [Reader -> Nat] /\ eof' \in [Reader -> BOOLEAN]
        /\ got' \in [Reader -> Seq(Told)]
        /\ stay' \in [Reader -> SUBSET File] /\ ever' \in [Reader -> SUBSET File]
        /\ alone' \in [Reader -> BOOLEAN]
    BY <1>0, <1>3, TypeParts
  <2>4. QED
    BY <1>0, <1>2, <1>3, <2>1, <2>2, <2>3, GoType, TypeParts
<1>5. fr[r] = IdleFrame
  BY <1>0, <1>3 DEF SoundOK, RepOK, ReplyOK
<1>6. \A q \in Reader : q # r => Same(q)
  BY <1>0, <1>3, GoEffect, TypeParts DEF Same
<1>7. StreamOK'
  <2>1. ASSUME NEW q \in Reader, off[q] = 0, pc[q] \notin {"fill", "look"}
        PROVE  off'[q] = 0 /\ pc'[q] \notin {"fill", "look"}
    <3>1. CASE q = r
      BY <1>0, <1>3, <3>1, GoEffect, TypeParts
    <3>2. CASE q # r
      BY <1>6, <2>1, <3>2 DEF Same
    <3>3. QED
      BY <3>1, <3>2
  <2>2. QED
    BY <1>0, <1>3, <2>1 DEF StreamOK
<1>8. LookupsAgree'
  <2>0. fr'[r].found = {} /\ fr[r].found = {}
    BY <1>0, <1>2, <1>3, <1>5, GoEffect DEF IdleFrame
  <2>1. \A q \in Reader : fr'[q].found = fr[q].found
    BY <1>0, <1>3, <2>0, GoEffect
  <2>2. QED
    BY <1>0, <1>3, <2>1, CountsKept DEF countVars
<1>9. ASSUME NEW q \in Reader PROVE SoundOK(q)'
  <2>1. CASE q # r
    BY <1>0, <1>3, <1>6, <2>1, SameReader
  <2>2. CASE q = r
    <3>1. /\ pc'[r] = "lock" /\ fr'[r] = f /\ off'[r] = 0 /\ ~eof'[r] /\ got'[r] = <<>>
          /\ stay'[r] = dir /\ ever'[r] = dir /\ alone'[r]
      BY <1>0, <1>3, GoEffect, TypeParts
    <3>2. RepOK(r)'
      BY <1>2, <3>1 DEF RepOK, ReplyOK
    <3>3. Range(f.out) = {} /\ Len(stream) \in Nat
      BY <1>0, <1>2, TypeParts DEF Range
    <3>4. Range(got[r])' = {}
      BY <3>1 DEF Range
    <3>5. ReaderOK(r)'
      BY <1>3, <3>1, <3>3, <3>4 DEF ReaderOK, Reading
    <3>6. QED
      BY <2>2, <3>2, <3>5 DEF SoundOK
  <2>3. QED
    BY <2>1, <2>2
<1>10. QED
  BY <1>4, <1>7, <1>8, <1>9

-----------------------------------------------------------------------------
(* A request is served.                                                    *)

(* The reply goes out: the reader has all up to its new offset, and the    *)
(* kernel counts what was found for it.                                    *)
LEMMA ReturnGood ==
  ASSUME Good, NEW r \in Reader, Return(r, fr[r]),
         UNCHANGED <<dir, stream, historyVars, counted, boundVars>>,
         mu \in {r, Nobody}, stream # <<>>,
         \/ pc[r] = "lock" /\ fr[r].offset > Len(stream)
         \/ pc[r] = "fill" /\ (AtEnd(fr[r]) \/ Len(fr[r].out) = Room)
  PROVE  TypeOK' /\ StreamOK' /\ LookupsAgree' /\ \A q \in Reader : SoundOK(q)'
<1>a. PICK f : f = fr[r]
  OBVIOUS
<1>b. PICK o, out : o = f.offset /\ out = f.out
  OBVIOUS
<1>c. /\ pc[r] = "lock" => o > Len(stream)
      /\ pc[r] # "lock" => pc[r] = "fill" /\ (f.k > Len(stream) \/ Len(out) = Room)
  BY <1>a, <1>b DEF AtEnd
<1>0. /\ TypeOK /\ StreamOK /\ LookupsAgree /\ (\A q \in Reader : SoundOK(q))
      /\ UNCHANGED <<stay, ever, alone, issued, changes>>
  BY DEF Good, Parts, historyVars, boundVars
<1>1. /\ mu' = Nobody /\ Go(r, "idle", IdleFrame)
      /\ off' = [off EXCEPT ![r] = o + Len(out)] /\ eof' = [eof EXCEPT ![r] = out = <<>>]
      /\ got' = [got EXCEPT ![r] = got[r] \o out]
      /\ known' = [n \in File |-> known[n] + IF n \in f.found THEN 1 ELSE 0]
  BY <1>a, <1>b DEF Return
<1>2. /\ o \in Nat /\ out \in Seq(Told) /\ Len(out) \in Nat /\ got[r] \in Seq(Told)
      /\ off[r] \in Nat /\ f.k \in Nat \ {0} /\ f.found \subseteq File
      /\ Len(stream) \in Nat /\ stream \in Seq(Told \cup {NoName})
  BY <1>0, <1>a, <1>b, TypeParts
<1>3. RepOK(r) /\ ReaderOK(r) /\ off[r] = o
  BY <1>0, <1>a, <1>b, <1>c DEF SoundOK, RepOK
<1>4. TypeOK'
  <2>1. got[r] \o out \in Seq(Told) /\ o + Len(out) \in Nat
    BY <1>2
  <2>2. off' \in [Reader -> Nat] /\ eof' \in [Reader -> BOOLEAN]
        /\ got' \in [Reader -> Seq(Told)]
    BY <1>0, <1>1, <2>1, TypeParts
  <2>3. known' \in [File -> Nat]
    <3>1. known \in [File -> Nat]
      BY <1>0, TypeParts
    <3>2. PICK found : found = f.found
      OBVIOUS
    <3>3. \A n \in File : known[n] + (IF n \in found THEN 1 ELSE 0) \in Nat
      BY <3>1
    <3>4. known' = [n \in File |-> known[n] + (IF n \in found THEN 1 ELSE 0)]
      BY <1>1, <3>2
    <3>5. QED
      BY <3>3, <3>4
  <2>4. "idle" \in Label /\ mu' # r /\ mu' \in {r, mu, Nobody}
    BY <1>1 DEF Label
  <2>5. /\ dir' \subseteq File /\ stream' \in Seq(Told \cup {NoName}) /\ stream' = stream
        /\ stay' \in [Reader -> SUBSET File] /\ ever' \in [Reader -> SUBSET File]
        /\ alone' \in [Reader -> BOOLEAN] /\ counted' \in [File -> Nat]
        /\ issued' \in 0..MaxRequests /\ changes' \in 0..MaxChanges
    BY <1>0, TypeParts
  <2>6. QED
    BY <1>0, <1>1, <2>2, <2>3, <2>4, <2>5, IdleOK, GoType
<1>5. StreamOK'
  BY <1>0, StreamKept
<1>6. pc[r] = "fill" =>
        /\ f.k > o + Len(out)
        /\ \A j \in o + 1..f.k - 1 : stream[j] = NoName \/ stream[j] \in Range(out)
        /\ NoName \notin Range(stream) =>
             f.k = o + Len(out) + 1 /\ \A j \in 1..Len(out) : out[j] = stream[o + j]
  BY <1>3, <1>a, <1>b DEF RepOK, ReplyOK
<1>7. pc[r] = "lock" => out = <<>> /\ Len(out) = 0
  BY <1>3, <1>a, <1>b DEF RepOK, ReplyOK
<1>8. \A j \in 1..Len(stream) : j <= o + Len(out) \/ out = <<>> =>
        j <= o \/ (pc[r] = "fill" /\ j \in o + 1..f.k - 1)
  <2> TAKE j \in 1..Len(stream)
  <2>1. CASE pc[r] = "lock"
    BY <1>2, <1>c, <1>7, <2>1
  <2>2. CASE pc[r] = "fill" /\ j <= o + Len(out)
    BY <1>2, <1>6, <2>2
  <2>3. CASE pc[r] = "fill" /\ out = <<>>
    <3>1. Len(out) # Room
      BY <2>3
    <3>2. f.k > Len(stream)
      BY <1>c, <2>3, <3>1
    <3>3. QED
      BY <1>2, <2>3, <3>2
  <2>4. QED
    BY <2>1, <2>2, <2>3
<1>9. o + Len(out) > 0
  <2>1. CASE pc[r] = "lock"
    BY <1>2, <1>c, <2>1
  <2>2. CASE pc[r] = "fill" /\ out = <<>> /\ o = 0
    <3>1. Len(stream) \in 1..Len(stream) /\ stream[Len(stream)] = DotDot
      BY <1>0, <1>2 DEF StreamOK
    <3>2. Len(stream) \in o + 1..f.k - 1
      BY <1>2, <1>8, <2>2, <3>1
    <3>3. stream[Len(stream)] = NoName \/ stream[Len(stream)] \in Range(out)
      BY <1>6, <2>2, <3>2
    <3>4. Range(out) = {}
      BY <2>2 DEF Range
    <3>5. QED
      BY <3>1, <3>3, <3>4, Names
  <2>3. QED
    BY <1>2, <1>c, <2>1, <2>2
<1>10. Reading(r)
  BY <1>2, <1>c, <1>3 DEF Reading
<1>d. PICK g : g = got[r]
  OBVIOUS
<1>11. Range(g \o out) = Range(g) \cup Range(out)
       /\ Len(g \o out) = Len(g) + Len(out)
       /\ (\A j \in 1..Len(g) : (g \o out)[j] = g[j])
       /\ (\A j \in 1..Len(out) : (g \o out)[Len(g) + j] = out[j])
  BY <1>2, <1>d, ConcatRange
<1>12. \A j \in 1..Len(stream) : (j <= o + Len(out) \/ out = <<>>) /\ alone[r] =>
         stream[j] = NoName \/ stream[j] \in Range(g \o out)
  BY <1>d, <1>3, <1>6, <1>8, <1>11 DEF ReaderOK
<1>13. alone[r] /\ NoName \notin Range(stream) =>
         /\ o + Len(out) <= Len(stream) /\ Len(g \o out) = o + Len(out)
         /\ \A j \in 1..o + Len(out) : (g \o out)[j] = stream[j]
  <2> SUFFICES ASSUME alone[r], NoName \notin Range(stream)
               PROVE  /\ o + Len(out) <= Len(stream) /\ Len(g \o out) = o + Len(out)
                      /\ \A j \in 1..o + Len(out) : (g \o out)[j] = stream[j]
    OBVIOUS
  <2>1. o <= Len(stream) /\ Len(g) = o /\ \A j \in 1..o : g[j] = stream[j]
    BY <1>d, <1>3 DEF ReaderOK
  <2>2. pc[r] = "fill"
    BY <1>2, <1>c, <2>1
  <2>3. f.k = o + Len(out) + 1 /\ \A j \in 1..Len(out) : out[j] = stream[o + j]
    BY <1>6, <2>2
  <2>4. f.k <= Len(stream) + 1
    BY <1>0, <1>a, <2>2, TypeParts
  <2>5. o + Len(out) <= Len(stream) /\ Len(g \o out) = o + Len(out)
    BY <1>2, <1>11, <2>1, <2>3, <2>4
  <2>6. ASSUME NEW j \in 1..o + Len(out) PROVE (g \o out)[j] = stream[j]
    <3>1. CASE j <= o
      BY <1>2, <1>11, <2>1, <3>1
    <3>2. CASE j > o
      <4>1. PICK i \in 1..Len(out) : j = o + i
        <5>1. j - o \in 1..Len(out) /\ j = o + (j - o)
          BY <1>2, <3>2
        <5>2. QED
          BY <5>1
      <4>2. QED
        BY <1>11, <2>1, <2>3, <4>1
    <3>3. j <= o \/ j > o
      BY <1>2
    <3>4. QED
      BY <3>1, <3>2, <3>3
  <2>7. QED
    BY <2>5, <2>6
<1>14. /\ pc'[r] = "idle" /\ fr'[r] = IdleFrame /\ off'[r] = o + Len(out)
       /\ eof'[r] = (out = <<>>) /\ got'[r] = g \o out
  BY <1>0, <1>d, <1>1, GoEffect, TypeParts
<1>15. Range(IdleFrame.out) = {} /\ IdleFrame.found = {}
  BY DEF IdleFrame, Range
<1>16. RepOK(r)'
  BY <1>14 DEF RepOK, ReplyOK
<1>17. ReaderOK(r)'
  <2>1. stay'[r] \subseteq dir' /\ dir' \subseteq ever'[r]
    BY <1>0, <1>3 DEF ReaderOK
  <2>2. off'[r] # 0
    BY <1>2, <1>9, <1>14
  <2>3. Range(stream') \cap File \subseteq ever'[r]
    BY <1>0, <1>3, <1>10 DEF ReaderOK
  <2>4. (Range(got'[r]) \cup Range(fr'[r].out)) \cap File \subseteq ever'[r]
    BY <1>0, <1>a, <1>b, <1>d, <1>3, <1>11, <1>14, <1>15 DEF ReaderOK
  <2>5. alone'[r] => stay'[r] \subseteq Range(stream')
    BY <1>0, <1>3, <1>10 DEF ReaderOK
  <2>6. alone'[r] => \A j \in 1..Len(stream') :
          j <= off'[r] \/ eof'[r] => stream'[j] = NoName \/ stream'[j] \in Range(got'[r])
    BY <1>0, <1>12, <1>14
  <2>7. alone'[r] /\ NoName \notin Range(stream') =>
          /\ off'[r] <= Len(stream') /\ Len(got'[r]) = off'[r]
          /\ \A j \in 1..off'[r] : got'[r][j] = stream'[j]
    BY <1>0, <1>13, <1>14
  <2>8. QED
    BY <2>1, <2>2, <2>3, <2>4, <2>5, <2>6, <2>7 DEF ReaderOK
<1>18. ASSUME NEW q \in Reader PROVE SoundOK(q)'
  <2>1. CASE q # r
    <3>1. Same(q)
      BY <1>0, <1>1, <2>1, GoEffect, TypeParts DEF Same
    <3>2. QED
      BY <1>0, <3>1, SameReader
  <2>2. CASE q = r
    BY <1>16, <1>17, <2>2 DEF SoundOK
  <2>3. QED
    BY <2>1, <2>2
<1>19. ASSUME NEW q \in Reader \ {r} PROVE fr[q].found = {} /\ fr'[q].found = {}
  <2>1. mu # q
    <3>1. q # Nobody
      OBVIOUS
    <3>2. QED
      BY <3>1
  <2>2. pc[q] \in {"idle", "lock"}
    BY <1>0, <2>1, TypeParts DEF Serving, Label
  <2>3. fr[q].found = {}
    BY <1>0, <1>15, <2>2 DEF SoundOK, RepOK, ReplyOK
  <2>4. QED
    BY <1>0, <1>1, <2>3, GoEffect
<1>20. LookupsAgree'
  <2> SUFFICES ASSUME NEW n \in File
               PROVE  counted'[n] = known'[n] + Cardinality({q \in Reader : n \in fr'[q].found})
    BY DEF LookupsAgree
  <2>1. counted[n] = known[n] + Cardinality({q \in Reader : n \in fr[q].found})
    BY <1>0 DEF LookupsAgree
  <2>2. {q \in Reader : n \in fr'[q].found} = {}
    BY <1>14, <1>15, <1>19
  <2>0. Cardinality({q \in Reader : n \in fr'[q].found}) = 0
    BY <2>2, FS_EmptySet
  <2>3. known[n] \in Nat /\ counted' = counted
    BY <1>0, TypeParts
  <2>4. CASE n \in f.found
    <3>1. {q \in Reader : n \in fr[q].found} = {r}
      BY <1>a, <1>19, <2>4
    <3>2. Cardinality({q \in Reader : n \in fr[q].found}) = 1
      BY <3>1, FS_Singleton
    <3>3. known'[n] = known[n] + 1
      BY <1>1, <2>4
    <3>4. QED
      BY <2>0, <2>1, <2>3, <3>2, <3>3
  <2>5. CASE n \notin f.found
    <3>1. {q \in Reader : n \in fr[q].found} = {}
      BY <1>a, <1>19, <2>5
    <3>2. Cardinality({q \in Reader : n \in fr[q].found}) = 0
      BY <3>1, FS_EmptySet
    <3>3. known'[n] = known[n] + 0
      BY <1>1, <2>5
    <3>4. QED
      BY <2>0, <2>1, <2>3, <3>2, <3>3
  <2>6. QED
    BY <2>4, <2>5
<1>21. QED
  BY <1>4, <1>5, <1>18, <1>20

(* Only the reader that is served may have found anything.                 *)
LEMMA OthersWait ==
  ASSUME Good, NEW r \in Reader, mu \in {r, Nobody}, NEW q \in Reader \ {r}
  PROVE  pc[q] \in {"idle", "lock"} /\ fr[q].found = {} /\ fr[q].out = <<>>
<1>0. TypeOK /\ SoundOK(q)
  BY DEF Good, Parts
<1>1. mu # q
  <2>1. q # Nobody
    OBVIOUS
  <2>2. QED
    BY <2>1
<1>2. pc[q] \in {"idle", "lock"}
  BY <1>0, <1>1, TypeParts DEF Serving, Label
<1>3. QED
  BY <1>0, <1>2 DEF SoundOK, RepOK, ReplyOK, IdleFrame

(* The readers of which a request takes no notice.                         *)
LEMMA OthersSound ==
  ASSUME Good, NEW r \in Reader, NEW l, NEW f, Go(r, l, f),
         UNCHANGED <<dir, stream, readerVars, historyVars>>
  PROVE  \A q \in Reader \ {r} : SoundOK(q)'
<1>0. TypeOK /\ \A q \in Reader : SoundOK(q)
  BY DEF Good, Parts
<1>1. UNCHANGED <<off, eof, got, stay, ever, alone>>
  BY DEF readerVars, historyVars
<1>2. ASSUME NEW q \in Reader \ {r} PROVE Same(q)
  BY <1>0, <1>1, GoEffect DEF Same
<1>3. QED
  BY <1>0, <1>2, SameReader

(* The types, when a request goes on and its reader does not notice.       *)
LEMMA ServeType ==
  ASSUME Good, NEW r \in Reader, NEW l \in Label, NEW f \in Frame, Go(r, l, f),
         UNCHANGED <<dir, stream, readerVars, historyVars, known, boundVars>>,
         mu \in {r, Nobody}, mu' \in {r, Nobody},
         mu' = r <=> l \in {"lsdir", "fill", "look"},
         l \in {"fill", "look"} => f.k <= Len(stream) + 1, Len(f.out) <= Room,
         counted' \in [File -> Nat]
  PROVE  TypeOK'
<1>0. TypeOK
  BY DEF Good, Parts
<1>1. UNCHANGED <<off, eof, got, stay, ever, alone, issued, changes>>
  BY DEF readerVars, historyVars, boundVars
<1>2. /\ dir' \subseteq File /\ stream' \in Seq(Told \cup {NoName})
      /\ off' \in [Reader -> Nat] /\ eof' \in [Reader -> BOOLEAN]
      /\ got' \in [Reader -> Seq(Told)]
      /\ stay' \in [Reader -> SUBSET File] /\ ever' \in [Reader -> SUBSET File]
      /\ alone' \in [Reader -> BOOLEAN] /\ known' \in [File -> Nat]
      /\ issued' \in 0..MaxRequests /\ changes' \in 0..MaxChanges
  BY <1>0, <1>1, TypeParts
<1>3. mu' # mu => mu \in {r, Nobody}
  OBVIOUS
<1>4. mu' \in {r, mu, Nobody}
  OBVIOUS
<1>5. QED
  BY <1>0, <1>2, <1>3, <1>4, GoType

(* A request gets its part of the stream the handle has.                   *)
LEMMA LockGood ==
  ASSUME Good, NEW r \in Reader, Lock(r)
  PROVE  TypeOK' /\ StreamOK' /\ LookupsAgree' /\ \A q \in Reader : SoundOK(q)'
<1>0. /\ TypeOK /\ StreamOK /\ LookupsAgree /\ (\A q \in Reader : SoundOK(q))
      /\ pc[r] = "lock" /\ mu = Nobody /\ stream # <<>> /\ fr[r].offset # 0
      /\ UNCHANGED <<dir, stream, historyVars, counted, boundVars>>
      /\ Start(r, stream)
  BY DEF Good, Parts, Lock, Stale
<1>1. fr[r].offset \in Nat /\ Len(stream) \in Nat
  BY <1>0, TypeParts
<1>2. CASE fr[r].offset > Len(stream)
  <2>1. Return(r, fr[r])
    BY <1>0, <1>1, <1>2 DEF Start
  <2>2. QED
    BY <1>0, <1>2, <2>1, ReturnGood
<1>3. CASE fr[r].offset <= Len(stream)
  <2>1. PICK f : f = [fr[r] EXCEPT !.k = 1 + fr[r].offset]
    OBVIOUS
  <2>2. Go(r, "fill", f) /\ mu' = r /\ UNCHANGED <<readerVars, known>>
    BY <1>0, <1>3, <2>1 DEF Start
  <2>3. /\ f.k = 1 + f.offset /\ f.offset = fr[r].offset
        /\ f.out = fr[r].out /\ f.found = fr[r].found
    BY <1>0, <2>1, TypeParts DEF Frame
  <2>4. f \in Frame
    <3>1. fr[r] \in Frame
      BY <1>0, TypeParts
    <3>2. PICK k \in Nat \ {0} : k = 1 + fr[r].offset
      BY <1>1
    <3>3. f = [fr[r] EXCEPT !.k = k]
      BY <2>1, <3>2
    <3>4. QED
      BY <3>1, <3>3 DEF Frame
  <2>5. f.out = <<>> /\ f.found = {} /\ f.offset = off[r] /\ ~eof[r]
    BY <1>0, <2>3 DEF SoundOK, RepOK, ReplyOK
  <2>6. TypeOK'
    <3>1. "fill" \in Label /\ f.k <= Len(stream) + 1 /\ Len(f.out) <= Room
      BY <1>1, <1>3, <2>3, <2>5 DEF Label
    <3>2. counted' \in [File -> Nat]
      BY <1>0, TypeParts
    <3>3. QED
      BY <1>0, <2>2, <2>4, <3>1, <3>2, ServeType
  <2>7. StreamOK'
    BY <1>0, StreamKept
  <2>8. LookupsAgree'
    <3>1. \A q \in Reader : fr'[q].found = fr[q].found
      BY <1>0, <2>2, <2>3, GoEffect
    <3>2. QED
      BY <1>0, <2>2, <3>1, CountsKept DEF countVars
  <2>9. pc'[r] = "fill" /\ fr'[r] = f /\ UNCHANGED <<off, eof, got, stay, ever, alone>>
    BY <1>0, <2>2, GoEffect DEF readerVars, historyVars
  <2>10. RepOK(r)'
    <3>1. f.k > f.offset + Len(f.out) /\ f.k = f.offset + Len(f.out) + 1
      BY <1>1, <2>3, <2>5
    <3>2. f.offset + 1..f.k - 1 = {} /\ 1..Len(f.out) = {}
      BY <1>1, <2>3, <2>5
    <3>3. ReplyOK("fill", f)'
      BY <1>0, <2>5, <3>1, <3>2 DEF ReplyOK
    <3>4. QED
      BY <2>5, <2>9, <3>3 DEF RepOK
  <2>11. ReaderOK(r)'
    <3>1. ReaderOK(r) /\ Reading(r)
      BY <1>0, <1>1, <2>3, <2>5 DEF SoundOK, Reading
    <3>2. Range(f.out) = Range(fr[r].out)
      BY <2>3
    <3>3. QED
      BY <1>0, <2>9, <3>1, <3>2 DEF ReaderOK
  <2>12. \A q \in Reader \ {r} : SoundOK(q)'
    BY <1>0, <2>2, OthersSound
  <2>13. QED
    BY <2>6, <2>7, <2>8, <2>10, <2>11, <2>12 DEF SoundOK
<1>4. QED
  BY <1>1, <1>2, <1>3

(* A request finds that the stream must be replaced.                       *)
LEMMA LockToListGood ==
  ASSUME Good, NEW r \in Reader, LockToList(r)
  PROVE  TypeOK' /\ StreamOK' /\ LookupsAgree' /\ \A q \in Reader : SoundOK(q)'
<1>0. /\ TypeOK /\ StreamOK /\ LookupsAgree /\ (\A q \in Reader : SoundOK(q))
      /\ pc[r] = "lock" /\ mu = Nobody /\ mu' = r
      /\ stream = <<>> \/ fr[r].offset = 0
      /\ UNCHANGED <<dir, stream, readerVars, historyVars, countVars, boundVars>>
      /\ UNCHANGED <<off, eof, got, stay, ever, alone, counted, known>>
  BY DEF Good, Parts, LockToList, Stale, readerVars, historyVars, countVars
<1>1. PICK f : f = fr[r]
  OBVIOUS
<1>2. Go(r, "lsdir", f)
  BY <1>1 DEF LockToList
<1>3. f \in Frame /\ f.out = <<>> /\ f.found = {} /\ f.offset = off[r] /\ ~eof[r]
      /\ Len(f.out) <= Room
  BY <1>0, <1>1, TypeParts DEF SoundOK, RepOK, ReplyOK
<1>4. f.offset = 0
  BY <1>0, <1>1, <1>3 DEF StreamOK
<1>5. TypeOK'
  <2>1. "lsdir" \in Label /\ counted' \in [File -> Nat]
    BY <1>0, TypeParts DEF Label
  <2>2. QED
    BY <1>0, <1>2, <1>3, <2>1, ServeType
<1>6. pc'[r] = "lsdir" /\ fr'[r] = f
      /\ \A q \in Reader \ {r} : pc'[q] = pc[q] /\ fr'[q] = fr[q]
  BY <1>0, <1>2, GoEffect
<1>7. StreamOK'
  BY <1>0, <1>6 DEF StreamOK
<1>8. LookupsAgree'
  <2>1. \A q \in Reader : fr'[q].found = fr[q].found
    BY <1>1, <1>6
  <2>2. QED
    BY <1>0, <2>1, CountsKept
<1>9. RepOK(r)'
  BY <1>0, <1>3, <1>4, <1>6 DEF RepOK, ReplyOK
<1>10. ReaderOK(r)'
  BY <1>0, <1>1, <1>6 DEF SoundOK, ReaderOK, Reading
<1>11. \A q \in Reader \ {r} : SoundOK(q)'
  BY <1>0, <1>2, OthersSound
<1>12. QED
  BY <1>5, <1>7, <1>8, <1>9, <1>10, <1>11 DEF SoundOK

(* Lsdir fails, and the stream stays as it was.                            *)
LEMMA LsdirFailsGood ==
  ASSUME Good, NEW r \in Reader, LsdirFails(r)
  PROVE  TypeOK' /\ StreamOK' /\ LookupsAgree' /\ \A q \in Reader : SoundOK(q)'
<1>0. /\ TypeOK /\ StreamOK /\ LookupsAgree /\ (\A q \in Reader : SoundOK(q))
      /\ pc[r] = "lsdir" /\ mu' = Nobody /\ Go(r, "idle", IdleFrame)
      /\ UNCHANGED <<dir, stream, readerVars, historyVars, countVars, boundVars>>
      /\ UNCHANGED <<off, eof, got, stay, ever, alone, counted, known>>
  BY DEF Good, Parts, LsdirFails, readerVars, historyVars, countVars
<1>1. mu = r /\ r # Nobody
  BY <1>0, TypeParts DEF Serving
<1>2. fr[r].out = <<>> /\ fr[r].found = {}
  BY <1>0 DEF SoundOK, RepOK, ReplyOK
<1>3. TypeOK'
  <2>1. "idle" \in Label /\ counted' \in [File -> Nat]
    BY <1>0, TypeParts DEF Label
  <2>2. QED
    BY <1>0, <1>1, <2>1, IdleOK, ServeType
<1>4. pc'[r] = "idle" /\ fr'[r] = IdleFrame
      /\ \A q \in Reader \ {r} : pc'[q] = pc[q] /\ fr'[q] = fr[q]
  BY <1>0, GoEffect
<1>5. StreamOK'
  BY <1>0, <1>4 DEF StreamOK
<1>6. LookupsAgree'
  <2>0. IdleFrame.found = {}
    BY DEF IdleFrame
  <2>1. \A q \in Reader : fr'[q].found = fr[q].found
    <3> TAKE q \in Reader
    <3>1. CASE q = r
      BY <1>2, <1>4, <2>0, <3>1
    <3>2. CASE q # r
      BY <1>4, <3>2
    <3>3. QED
      BY <3>1, <3>2
  <2>2. QED
    BY <1>0, <2>1, CountsKept
<1>7. RepOK(r)'
  BY <1>4 DEF RepOK, ReplyOK
<1>8. ReaderOK(r)'
  <2>1. Range(fr'[r].out) = Range(fr[r].out)
    BY <1>2, <1>4 DEF IdleFrame
  <2>2. QED
    BY <1>0, <1>4, <2>1 DEF SoundOK, ReaderOK, Reading
<1>9. \A q \in Reader \ {r} : SoundOK(q)'
  BY <1>0, OthersSound
<1>10. QED
  BY <1>3, <1>5, <1>6, <1>7, <1>8, <1>9 DEF SoundOK

(* The file system lists the directory, and the request begins with the    *)
(* new stream.                                                             *)
LEMMA LsdirGood ==
  ASSUME Good, NEW r \in Reader, Lsdir(r)
  PROVE  TypeOK' /\ StreamOK' /\ LookupsAgree' /\ \A q \in Reader : SoundOK(q)'
<1>0. /\ TypeOK /\ StreamOK /\ LookupsAgree /\ (\A q \in Reader : SoundOK(q))
      /\ pc[r] = "lsdir"
      /\ alone' = [q \in Reader |-> q = r \/ (alone[q] /\ pc[q] = "idle" /\ off[q] = 0)]
      /\ UNCHANGED <<dir, stay, ever, counted, issued, changes>>
  BY DEF Good, Parts, Lsdir, boundVars
<1>a. StreamOf(dir, stream')
  <2>1. PICK s \in Listings(dir) : stream' = s \o <<Dot, DotDot>>
    BY DEF Lsdir
  <2>2. dir \in SUBSET File
    BY <1>0, TypeParts
  <2>3. StreamOf(dir, s \o <<Dot, DotDot>>)
    BY <2>2, ListingOK
  <2>4. QED
    BY Zenon, <2>1, <2>3
<1>1. PICK u : u = stream'
  OBVIOUS
<1>2. /\ u \in Seq(Told \cup {NoName}) /\ u # <<>> /\ u[Len(u)] = DotDot
      /\ Range(u) \cap File = dir
      /\ \A j, k \in 1..Len(u) : u[j] = u[k] => j = k \/ u[j] = NoName
  BY <1>1, <1>a DEF StreamOf
<1>3. Len(u) \in Nat
  BY <1>2
<1>4. /\ fr[r].offset = 0 /\ off[r] = 0 /\ fr[r].out = <<>> /\ fr[r].found = {}
      /\ ~eof[r] /\ got[r] = <<>> /\ mu = r /\ r # Nobody
  <2>1. RepOK(r) /\ ReaderOK(r)
    BY <1>0 DEF SoundOK
  <2>2. fr[r].offset = 0 /\ off[r] = 0 /\ fr[r].out = <<>> /\ fr[r].found = {} /\ ~eof[r]
    BY <1>0, <2>1 DEF RepOK, ReplyOK
  <2>3. got[r] = <<>>
    BY <2>1, <2>2 DEF ReaderOK
  <2>4. mu = r /\ r # Nobody
    BY <1>0, TypeParts DEF Serving
  <2>5. QED
    BY <2>2, <2>3, <2>4
<1>5. PICK f : f = [fr[r] EXCEPT !.k = 1 + fr[r].offset]
  OBVIOUS
<1>6. /\ Go(r, "fill", f) /\ mu' = r
      /\ UNCHANGED <<off, eof, got, known>>
  <2>1. Start(r, u)
    BY <1>1 DEF Lsdir
  <2>2. fr[r].offset <= Len(u)
    BY <1>3, <1>4
  <2>3. QED
    BY <1>5, <2>1, <2>2 DEF Start, readerVars
<1>7. f = [fr[r] EXCEPT !.k = 1] /\ fr[r] \in Frame
  BY <1>0, <1>4, <1>5, TypeParts
<1>8. /\ f \in Frame /\ f.k = 1 /\ f.offset = 0 /\ f.out = <<>> /\ f.found = {}
      /\ Len(f.out) = 0 /\ Range(f.out) = {}
  <2>1. f \in Frame /\ f.k = 1 /\ f.offset = 0 /\ f.out = <<>> /\ f.found = {}
    BY <1>4, <1>7 DEF Frame
  <2>2. QED
    BY <2>1 DEF Range
<1>9. alone' \in [Reader -> BOOLEAN]
  BY <1>0
<1>10. TypeOK'
  <2>1. "fill" \in Label /\ f.k <= Len(u) + 1 /\ Len(f.out) <= Room
    BY <1>3, <1>8 DEF Label
  <2>2. /\ dir' \subseteq File /\ stream' \in Seq(Told \cup {NoName}) /\ mu = r
        /\ mu' \in {r, mu, Nobody} /\ (mu' # mu => mu \in {r, Nobody})
    BY <1>0, <1>1, <1>2, <1>4, <1>6, TypeParts
  <2>3. /\ off' \in [Reader -> Nat] /\ eof' \in [Reader -> BOOLEAN]
        /\ got' \in [Reader -> Seq(Told)]
        /\ stay' \in [Reader -> SUBSET File] /\ ever' \in [Reader -> SUBSET File]
        /\ counted' \in [File -> Nat] /\ known' \in [File -> Nat]
        /\ issued' \in 0..MaxRequests /\ changes' \in 0..MaxChanges
    BY <1>0, <1>6, TypeParts
  <2>4. f.k <= Len(stream') + 1
    BY <1>1, <2>1
  <2>5. QED
    BY <1>0, <1>6, <1>8, <1>9, <2>1, <2>2, <2>3, <2>4, GoType
<1>11. StreamOK'
  BY <1>1, <1>2 DEF StreamOK
<1>12. /\ pc'[r] = "fill" /\ fr'[r] = f
       /\ \A q \in Reader \ {r} : pc'[q] = pc[q] /\ fr'[q] = fr[q]
  BY <1>0, <1>6, GoEffect
<1>13. LookupsAgree'
  <2>1. \A q \in Reader : fr'[q].found = fr[q].found
    <3> TAKE q \in Reader
    <3>1. CASE q = r
      BY <1>4, <1>8, <1>12, <3>1
    <3>2. CASE q # r
      BY <1>12, <3>2
    <3>3. QED
      BY <3>1, <3>2
  <2>2. QED
    BY <1>0, <1>6, <2>1, CountsKept DEF countVars
<1>14. RepOK(r)'
  <2>1. f.k > f.offset + Len(f.out) /\ f.k = f.offset + Len(f.out) + 1
    BY <1>8
  <2>2. f.offset + 1..f.k - 1 = {} /\ 1..Len(f.out) = {}
    BY <1>8
  <2>3. ReplyOK("fill", f)'
    BY <1>8, <2>1, <2>2 DEF ReplyOK
  <2>4. QED
    BY <1>4, <1>6, <1>8, <1>12, <2>3 DEF RepOK
<1>15. ReaderOK(r)'
  <2>1. ReaderOK(r)
    BY <1>0 DEF SoundOK
  <2>2. stay[r] \subseteq dir /\ dir \subseteq ever[r]
    BY <2>1 DEF ReaderOK
  <2>3. Range(got[r]) = {} /\ Len(got[r]) = 0
    BY <1>4 DEF Range
  <2>4. /\ off'[r] = 0 /\ ~eof'[r] /\ got'[r] = <<>>
        /\ stay'[r] = stay[r] /\ ever'[r] = ever[r]
    BY <1>0, <1>4, <1>6
  <2>5. alone'[r] /\ NoName \notin Range(stream') =>
          /\ off'[r] <= Len(stream') /\ Len(got'[r]) = off'[r]
          /\ \A j \in 1..off'[r] : got'[r][j] = stream'[j]
    BY <1>1, <1>3, <2>3, <2>4
  <2>6. \A j \in 1..Len(stream') : ~(j <= off'[r] \/ eof'[r])
    BY <1>1, <1>3, <2>4
  <2>7. Range(stream') \cap File = dir /\ stay[r] \subseteq Range(stream')
    BY <1>1, <1>2, <2>2
  <2>8. (Range(got'[r]) \cup Range(fr'[r].out)) \cap File = {}
    BY <1>4, <1>8, <1>12, <2>3, <2>4
  <2>9. QED
    BY <1>0, <2>2, <2>4, <2>5, <2>6, <2>7, <2>8 DEF ReaderOK
<1>16. ASSUME NEW q \in Reader \ {r} PROVE SoundOK(q)'
  <2>1. pc[q] \in {"idle", "lock"} /\ fr[q].found = {} /\ fr[q].out = <<>>
    BY <1>4, OthersWait
  <2>2. RepOK(q) /\ ReaderOK(q)
    BY <1>0 DEF SoundOK
  <2>3. /\ pc'[q] = pc[q] /\ fr'[q] = fr[q] /\ off'[q] = off[q] /\ eof'[q] = eof[q]
        /\ got'[q] = got[q] /\ stay'[q] = stay[q] /\ ever'[q] = ever[q]
        /\ (alone'[q] => alone[q] /\ off[q] = 0)
    BY <1>0, <1>6, <1>12
  <2>4. RepOK(q)'
    BY <2>1, <2>2, <2>3 DEF RepOK, ReplyOK
  <2>5. stay[q] \subseteq dir /\ dir \subseteq ever[q]
        /\ (off[q] = 0 => got[q] = <<>> /\ ~eof[q])
        /\ (Range(got[q]) \cup Range(fr[q].out)) \cap File \subseteq ever[q]
    BY <2>2 DEF ReaderOK
  <2>6. off[q] \in Nat
    BY <1>0, TypeParts
  <2>7. alone'[q] => \A j \in 1..Len(stream') : ~(j <= off'[q] \/ eof'[q])
    BY <1>1, <1>3, <2>3, <2>5, <2>6
  <2>8. alone'[q] /\ NoName \notin Range(stream') =>
          /\ off'[q] <= Len(stream') /\ Len(got'[q]) = off'[q]
          /\ \A j \in 1..off'[q] : got'[q][j] = stream'[j]
    <3>1. got[q] = <<>> => Len(got[q]) = 0
      OBVIOUS
    <3>2. QED
      BY <1>1, <1>3, <2>3, <2>5, <2>6, <3>1
  <2>9. Range(stream') \cap File = dir
    BY <1>1, <1>2
  <2>10. alone'[q] => ~(off'[q] > 0 \/ pc'[q] \in {"fill", "look"})
    BY <2>1, <2>3, <2>6
  <2>11. ReaderOK(q)'
    BY <1>0, <2>3, <2>5, <2>7, <2>8, <2>9, <2>10 DEF ReaderOK, Reading
  <2>12. QED
    BY <2>4, <2>11 DEF SoundOK
<1>17. QED
  BY <1>10, <1>11, <1>13, <1>14, <1>15, <1>16 DEF SoundOK

(* The reply is full, or has come to the end.                              *)
LEMMA FilledGood ==
  ASSUME Good, NEW r \in Reader, Filled(r)
  PROVE  TypeOK' /\ StreamOK' /\ LookupsAgree' /\ \A q \in Reader : SoundOK(q)'
<1>1. TypeOK /\ StreamOK /\ pc[r] = "fill" /\ (AtEnd(fr[r]) \/ Len(fr[r].out) = Room)
      /\ Return(r, fr[r]) /\ UNCHANGED <<dir, stream, historyVars, counted, boundVars>>
  BY DEF Good, Parts, Filled
<1>2. mu = r /\ stream # <<>>
  BY <1>1, TypeParts DEF Serving, StreamOK
<1>3. QED
  BY <1>1, <1>2, ReturnGood

(* An entry without a name takes no place in the reply.                    *)
LEMMA SkipGood ==
  ASSUME Good, NEW r \in Reader, Skip(r)
  PROVE  TypeOK' /\ StreamOK' /\ LookupsAgree' /\ \A q \in Reader : SoundOK(q)'
<1>a. PICK f : f = fr[r]
  OBVIOUS
<1>b. PICK g : g = [f EXCEPT !.k = @ + 1]
  OBVIOUS
<1>0. /\ TypeOK /\ StreamOK /\ LookupsAgree /\ (\A q \in Reader : SoundOK(q))
      /\ pc[r] = "fill" /\ ~(f.k > Len(stream)) /\ stream[f.k] = NoName
      /\ Go(r, "fill", g)
      /\ UNCHANGED <<dir, handleVars, readerVars, historyVars, countVars, boundVars>>
      /\ UNCHANGED <<dir, stream, mu, off, eof, got, stay, ever, alone, counted, known>>
  BY <1>a, <1>b DEF Good, Parts, Skip, AtEnd, handleVars, readerVars, historyVars, countVars
<1>1. mu = r /\ r # Nobody /\ stream # <<>>
  BY <1>0, TypeParts DEF Serving, StreamOK
<1>2. /\ f \in Frame /\ f.k \in Nat \ {0} /\ f.offset \in Nat /\ f.out \in Seq(Told)
      /\ Len(f.out) \in Nat /\ Len(stream) \in Nat /\ Len(f.out) <= Room
  <2>1. /\ f \in Frame /\ f.k \in Nat \ {0} /\ f.offset \in Nat /\ f.out \in Seq(Told)
        /\ Len(f.out) <= Room /\ stream \in Seq(Told \cup {NoName})
    BY <1>0, <1>a, TypeParts
  <2>2. QED
    BY <2>1
<1>3. /\ g \in Frame /\ g.k = f.k + 1 /\ g.offset = f.offset
      /\ g.out = f.out /\ g.found = f.found
  <2>1. PICK k \in Nat \ {0} : k = f.k + 1
    BY <1>2
  <2>2. g = [f EXCEPT !.k = k]
    BY <1>b, <2>1
  <2>3. QED
    BY <1>2, <2>1, <2>2 DEF Frame
<1>4. TypeOK'
  <2>1. "fill" \in Label /\ g.k <= Len(stream) + 1 /\ Len(g.out) <= Room
    BY <1>0, <1>2, <1>3 DEF Label
  <2>2. counted' \in [File -> Nat] /\ mu' = mu
    BY <1>0, TypeParts
  <2>3. UNCHANGED known
    BY <1>0
  <2>4. QED
    BY <1>0, <1>1, <1>3, <2>1, <2>2, <2>3, ServeType
<1>5. StreamOK'
  BY <1>0, <1>1, StreamKept
<1>6. /\ pc'[r] = "fill" /\ fr'[r] = g
      /\ \A q \in Reader \ {r} : pc'[q] = pc[q] /\ fr'[q] = fr[q]
  BY <1>0, GoEffect
<1>7. LookupsAgree'
  <2>1. \A q \in Reader : fr'[q].found = fr[q].found
    BY <1>a, <1>3, <1>6
  <2>2. QED
    BY <1>0, <2>1, CountsKept
<1>8. RepOK(r) /\ ReaderOK(r) /\ f.offset = off[r] /\ ~eof[r]
  BY <1>a, <1>0 DEF SoundOK, RepOK
<1>9. /\ f.k > f.offset + Len(f.out)
      /\ \A j \in f.offset + 1..f.k - 1 : stream[j] = NoName \/ stream[j] \in Range(f.out)
      /\ \A n \in f.found : \E j \in 1..f.k - 1 : stream[j] = n
  BY <1>a, <1>0, <1>8 DEF RepOK, ReplyOK
<1>10. NoName \in Range(stream)
  <2>1. f.k \in DOMAIN stream
    BY <1>0, <1>2, TypeParts
  <2>2. QED
    BY <1>0, <2>1 DEF Range
<1>11. RepOK(r)'
  <2>1. g.k > g.offset + Len(g.out)
    BY <1>2, <1>3, <1>9
  <2>2. ASSUME NEW j \in g.offset + 1..g.k - 1
        PROVE  stream[j] = NoName \/ stream[j] \in Range(g.out)
    <3>1. j = f.k \/ j \in f.offset + 1..f.k - 1
      BY <1>2, <1>3
    <3>2. QED
      BY <1>0, <1>3, <1>9, <3>1
  <2>3. ASSUME NEW n \in g.found PROVE \E j \in 1..g.k - 1 : stream[j] = n
    <3>1. \A j \in 1..f.k - 1 : j \in 1..g.k - 1
      BY <1>2, <1>3
    <3>2. QED
      BY <1>3, <1>9, <3>1
  <2>4. ReplyOK("fill", g)'
    BY <1>0, <1>10, <2>1, <2>2, <2>3 DEF ReplyOK
  <2>5. QED
    BY <1>0, <1>3, <1>6, <1>8, <2>4 DEF RepOK
<1>12. ReaderOK(r)'
  BY <1>a, <1>0, <1>3, <1>6, <1>8 DEF ReaderOK, Reading
<1>13. \A q \in Reader \ {r} : SoundOK(q)'
  BY <1>0, OthersSound
<1>14. QED
  BY <1>4, <1>5, <1>7, <1>11, <1>12, <1>13 DEF SoundOK

(* An entry goes into the reply.                                           *)
LEMMA EmitGood ==
  ASSUME Good, NEW r \in Reader, Emit(r)
  PROVE  TypeOK' /\ StreamOK' /\ LookupsAgree' /\ \A q \in Reader : SoundOK(q)'
<1>a. PICK f : f = fr[r]
  OBVIOUS
<1>b. PICK n : n = stream[f.k]
  OBVIOUS
<1>c. PICK g : g = [f EXCEPT !.out = Append(@, n), !.k = @ + 1]
  OBVIOUS
<1>d. PICK l : l = IF f.plus /\ n \in File THEN "look" ELSE "fill"
  OBVIOUS
<1>0. /\ TypeOK /\ StreamOK /\ LookupsAgree /\ (\A q \in Reader : SoundOK(q))
      /\ pc[r] = "fill" /\ ~(f.k > Len(stream)) /\ n # NoName /\ Len(f.out) < Room
      /\ Go(r, l, g)
      /\ UNCHANGED <<dir, handleVars, readerVars, historyVars, countVars, boundVars>>
      /\ UNCHANGED <<dir, stream, mu, off, eof, got, stay, ever, alone, counted, known>>
  BY <1>a, <1>b, <1>c, <1>d
     DEF Good, Parts, Emit, AtEnd, handleVars, readerVars, historyVars, countVars
<1>1. mu = r /\ r # Nobody /\ stream # <<>>
  BY <1>0, TypeParts DEF Serving, StreamOK
<1>2. /\ f \in Frame /\ f.k \in Nat \ {0} /\ f.offset \in Nat /\ f.out \in Seq(Told)
      /\ Len(f.out) \in Nat /\ Len(stream) \in Nat
      /\ stream \in Seq(Told \cup {NoName})
  BY <1>0, <1>a, TypeParts
<1>3. f.k \in 1..Len(stream) /\ n \in Told /\ n \in Range(stream)
  <2>1. f.k \in 1..Len(stream) /\ f.k \in DOMAIN stream
    BY <1>0, <1>2
  <2>2. QED
    BY <1>b, <1>0, <1>2, <2>1 DEF Range
<1>4. PICK o : o = Append(f.out, n)
  OBVIOUS
<1>5. /\ o \in Seq(Told) /\ Len(o) = Len(f.out) + 1
      /\ \A j \in 1..Len(f.out) : o[j] = f.out[j]
      /\ o[Len(f.out) + 1] = n
      /\ Range(o) = Range(f.out) \cup {n}
  BY <1>2, <1>3, <1>4, AppendRange
<1>6. /\ g \in Frame /\ g.k = f.k + 1 /\ g.offset = f.offset
      /\ g.out = o /\ g.found = f.found
  <2>1. PICK k \in Nat \ {0} : k = f.k + 1
    BY <1>2
  <2>2. g = [f EXCEPT !.out = o, !.k = k]
    BY <1>c, <1>4, <2>1
  <2>3. QED
    BY <1>2, <1>5, <2>1, <2>2 DEF Frame
<1>7. l \in {"fill", "look"} /\ (l = "look" => n \in File)
  BY <1>d
<1>8. TypeOK'
  <2>1. l \in Label /\ g.k <= Len(stream) + 1 /\ Len(g.out) <= Room
    BY <1>0, <1>2, <1>3, <1>5, <1>6, <1>7 DEF Label
  <2>2. counted' \in [File -> Nat] /\ mu' = mu
    BY <1>0, TypeParts
  <2>3. mu' = r <=> l \in {"lsdir", "fill", "look"}
    BY <1>1, <1>7, <2>2
  <2>4. UNCHANGED known
    BY <1>0
  <2>5. QED
    BY <1>0, <1>1, <1>6, <2>1, <2>2, <2>3, <2>4, ServeType
<1>9. StreamOK'
  BY <1>0, <1>1, StreamKept
<1>10. /\ pc'[r] = l /\ fr'[r] = g
       /\ \A q \in Reader \ {r} : pc'[q] = pc[q] /\ fr'[q] = fr[q]
  BY <1>0, GoEffect
<1>11. LookupsAgree'
  <2>1. \A q \in Reader : fr'[q].found = fr[q].found
    BY <1>a, <1>6, <1>10
  <2>2. QED
    BY <1>0, <2>1, CountsKept
<1>12. RepOK(r) /\ ReaderOK(r) /\ f.offset = off[r] /\ ~eof[r]
  BY <1>a, <1>0 DEF SoundOK, RepOK
<1>13. /\ f.k > f.offset + Len(f.out)
       /\ \A j \in f.offset + 1..f.k - 1 : stream[j] = NoName \/ stream[j] \in Range(f.out)
       /\ NoName \notin Range(stream) =>
            /\ f.k = f.offset + Len(f.out) + 1
            /\ \A j \in 1..Len(f.out) : f.out[j] = stream[f.offset + j]
       /\ \A m \in f.found : \E j \in 1..f.k - 1 : stream[j] = m
  BY <1>a, <1>0, <1>12 DEF RepOK, ReplyOK
<1>14. RepOK(r)'
  <2>1. g.k > g.offset + Len(g.out)
    BY <1>2, <1>5, <1>6, <1>13
  <2>2. ASSUME NEW j \in g.offset + 1..g.k - 1
        PROVE  stream[j] = NoName \/ stream[j] \in Range(g.out)
    <3>1. j = f.k \/ j \in f.offset + 1..f.k - 1
      BY <1>2, <1>6
    <3>2. QED
      BY <1>b, <1>5, <1>6, <1>13, <3>1
  <2>3. NoName \notin Range(stream) =>
          /\ g.k = g.offset + Len(g.out) + 1
          /\ \A j \in 1..Len(g.out) : g.out[j] = stream[g.offset + j]
    <3> SUFFICES ASSUME NoName \notin Range(stream)
                 PROVE  /\ g.k = g.offset + Len(g.out) + 1
                        /\ \A j \in 1..Len(g.out) : g.out[j] = stream[g.offset + j]
      OBVIOUS
    <3>1. /\ f.k = f.offset + Len(f.out) + 1
          /\ \A j \in 1..Len(f.out) : f.out[j] = stream[f.offset + j]
      BY <1>13
    <3>2. g.k = g.offset + Len(g.out) + 1
      <4>1. Len(g.out) = Len(f.out) + 1
        BY <1>5, <1>6
      <4>2. g.k = f.k + 1 /\ g.offset = f.offset
        BY <1>6
      <4>3. Len(f.out) \in Nat /\ f.k \in Nat /\ f.offset \in Nat
        BY <1>2
      <4>4. f.k = f.offset + Len(f.out) + 1
        BY <3>1
      <4>5. QED
        BY <4>1, <4>2, <4>3, <4>4
    <3>3. ASSUME NEW j \in 1..Len(g.out) PROVE g.out[j] = stream[g.offset + j]
      <4>1. CASE j \in 1..Len(f.out)
        BY <1>5, <1>6, <3>1, <4>1
      <4>2. CASE j = Len(f.out) + 1
        <5>1. f.k = f.offset + j
          BY <1>2, <3>1, <4>2
        <5>2. QED
          BY <1>b, <1>5, <1>6, <4>2, <5>1
      <4>3. j \in 1..Len(f.out) \/ j = Len(f.out) + 1
        BY <1>2, <1>5, <1>6
      <4>4. QED
        BY <4>1, <4>2, <4>3
    <3>4. QED
      BY <3>2, <3>3
  <2>4. ASSUME NEW m \in g.found
        PROVE  \E j \in 1..g.k - 1 : stream[j] = m /\ (l = "look" => j # g.k - 1)
    <3>1. PICK j \in 1..f.k - 1 : stream[j] = m
      BY <1>6, <1>13
    <3>2. j \in 1..g.k - 1 /\ j # g.k - 1
      BY <1>2, <1>6, <3>1
    <3>3. QED
      BY <3>1, <3>2
  <2>5. l = "look" => g.k > g.offset + 1 /\ stream[g.k - 1] \in File
    <3>1. g.k - 1 = f.k /\ g.k > g.offset + 1
      BY <1>2, <1>6, <1>13
    <3>2. QED
      BY <1>b, <1>7, <3>1
  <2>6. ReplyOK(l, g)'
    BY <1>0, <1>7, <2>1, <2>2, <2>3, <2>4, <2>5 DEF ReplyOK
  <2>7. QED
    BY <1>0, <1>6, <1>10, <1>12, <2>6 DEF RepOK
<1>15. ReaderOK(r)'
  <2>1. Reading(r)
    BY <1>0 DEF Reading
  <2>2. n \in File => n \in ever[r]
    BY <1>3, <1>12, <2>1 DEF ReaderOK
  <2>3. (Range(got[r]) \cup Range(g.out)) \cap File \subseteq ever[r]
    BY <1>a, <1>5, <1>6, <1>12, <2>2 DEF ReaderOK
  <2>4. QED
    BY <1>0, <1>10, <1>12, <2>1, <2>3 DEF ReaderOK
<1>16. \A q \in Reader \ {r} : SoundOK(q)'
  BY <1>0, OthersSound
<1>17. QED
  BY <1>8, <1>9, <1>11, <1>14, <1>15, <1>16 DEF SoundOK

(* The bridge looks up the entry it has just put into the reply.           *)
LEMMA LookupGood ==
  ASSUME Good, NEW r \in Reader, Lookup(r)
  PROVE  TypeOK' /\ StreamOK' /\ LookupsAgree' /\ \A q \in Reader : SoundOK(q)'
<1>a. PICK f : f = fr[r]
  OBVIOUS
<1>b. PICK n : n = stream[f.k - 1]
  OBVIOUS
<1>c. PICK done \in BOOLEAN :
        /\ Go(r, "fill", IF done THEN [f EXCEPT !.found = @ \cup {n}] ELSE f)
        /\ counted' = IF done THEN [counted EXCEPT ![n] = @ + 1] ELSE counted
  <2>1. \/ Go(r, "fill", [f EXCEPT !.found = @ \cup {n}])
           /\ counted' = [counted EXCEPT ![n] = @ + 1]
        \/ Go(r, "fill", f) /\ counted' = counted
    BY <1>a, <1>b DEF Lookup
  <2>2. QED
    BY <2>1
<1>d. PICK g : g = IF done THEN [f EXCEPT !.found = @ \cup {n}] ELSE f
  OBVIOUS
<1>0. /\ TypeOK /\ StreamOK /\ LookupsAgree /\ (\A q \in Reader : SoundOK(q))
      /\ pc[r] = "look" /\ Go(r, "fill", g)
      /\ counted' = IF done THEN [counted EXCEPT ![n] = @ + 1] ELSE counted
      /\ UNCHANGED <<dir, handleVars, readerVars, historyVars, known, boundVars>>
      /\ UNCHANGED <<dir, stream, mu, off, eof, got, stay, ever, alone, known>>
  BY <1>c, <1>d DEF Good, Parts, Lookup, handleVars, readerVars, historyVars
<1>1. mu = r /\ r # Nobody /\ stream # <<>>
  BY <1>0, TypeParts DEF Serving, StreamOK
<1>2. /\ f \in Frame /\ f.k \in Nat \ {0} /\ f.offset \in Nat /\ f.out \in Seq(Told)
      /\ Len(f.out) \in Nat /\ Len(stream) \in Nat /\ f.found \subseteq File
      /\ f.k <= Len(stream) + 1 /\ Len(f.out) <= Room
  BY <1>0, <1>a, TypeParts
<1>3. RepOK(r) /\ ReaderOK(r) /\ f.offset = off[r] /\ ~eof[r] /\ ReplyOK("look", f)
  BY <1>a, <1>0 DEF SoundOK, RepOK
<1>4. n \in File /\ f.k > f.offset + 1 /\ f.k - 1 \in 1..Len(stream)
  BY <1>b, <1>2, <1>3 DEF ReplyOK
<1>5. /\ g \in Frame /\ g.k = f.k /\ g.offset = f.offset /\ g.out = f.out
      /\ g.found = IF done THEN f.found \cup {n} ELSE f.found
  <2>1. CASE done
    <3>1. PICK S \in SUBSET File : S = f.found \cup {n}
      BY <1>2, <1>4
    <3>2. g = [f EXCEPT !.found = S]
      BY <1>d, <2>1, <3>1
    <3>3. QED
      BY <1>2, <2>1, <3>1, <3>2 DEF Frame
  <2>2. CASE ~done
    BY <1>d, <1>2, <2>2
  <2>3. QED
    BY <2>1, <2>2
<1>6. \A m \in f.found : \E j \in 1..f.k - 1 : stream[j] = m /\ j # f.k - 1
  BY <1>3 DEF ReplyOK
<1>7. n \notin f.found
  <2> SUFFICES ASSUME n \in f.found PROVE FALSE
    OBVIOUS
  <2>1. PICK j \in 1..f.k - 1 : stream[j] = n /\ j # f.k - 1
    BY <1>6
  <2>2. j \in 1..Len(stream)
    BY <1>2, <1>4, <2>1
  <2>3. n # NoName
    BY <1>4
  <2>4. QED
    BY <1>b, <1>0, <1>4, <2>1, <2>2, <2>3 DEF StreamOK
<1>8. counted \in [File -> Nat] /\ known \in [File -> Nat] /\ counted' \in [File -> Nat]
  <2>1. counted \in [File -> Nat] /\ known \in [File -> Nat]
    BY <1>0, TypeParts
  <2>2. [counted EXCEPT ![n] = @ + 1] \in [File -> Nat]
    <3>1. counted[n] + 1 \in Nat
      BY <1>4, <2>1
    <3>2. \A c \in Nat : [counted EXCEPT ![n] = c] \in [File -> Nat]
      BY <2>1
    <3>3. QED
      BY <3>1, <3>2
  <2>3. QED
    BY <1>0, <2>1, <2>2
<1>9. TypeOK'
  <2>1. "fill" \in Label /\ g.k <= Len(stream) + 1 /\ Len(g.out) <= Room
    BY <1>2, <1>5 DEF Label
  <2>2. mu' = mu /\ UNCHANGED known
    BY <1>0
  <2>3. QED
    BY <1>0, <1>1, <1>5, <1>8, <2>1, <2>2, ServeType
<1>10. StreamOK'
  BY <1>0, <1>1, StreamKept
<1>11. /\ pc'[r] = "fill" /\ fr'[r] = g
       /\ \A q \in Reader \ {r} : pc'[q] = pc[q] /\ fr'[q] = fr[q]
  BY <1>0, GoEffect
<1>12. LookupsAgree'
  <2> SUFFICES ASSUME NEW m \in File
               PROVE  counted'[m] = known'[m] + Cardinality({q \in Reader : m \in fr'[q].found})
    BY DEF LookupsAgree
  <2>1. counted[m] = known[m] + Cardinality({q \in Reader : m \in fr[q].found})
    BY <1>0 DEF LookupsAgree
  <2>2. \A q \in Reader \ {r} : fr[q].found = {} /\ fr'[q].found = {}
    BY <1>1, <1>11, OthersWait
  <2>3. CASE m = n /\ done
    <3>1. {q \in Reader : m \in fr[q].found} = {}
      BY <1>a, <1>7, <2>2, <2>3
    <3>2. {q \in Reader : m \in fr'[q].found} = {r}
      BY <1>5, <1>11, <2>2, <2>3
    <3>3. Cardinality({q \in Reader : m \in fr[q].found}) = 0
      BY <3>1, FS_EmptySet
    <3>4. Cardinality({q \in Reader : m \in fr'[q].found}) = 1
      BY <3>2, FS_Singleton
    <3>5. counted'[m] = counted[m] + 1 /\ known'[m] = known[m]
      BY <1>0, <1>8, <2>3
    <3>6. QED
      BY <1>8, <2>1, <3>3, <3>4, <3>5
  <2>4. CASE ~(m = n /\ done)
    <3>1. m \in fr'[r].found <=> m \in fr[r].found
      BY <1>a, <1>5, <1>11, <2>4
    <3>2. {q \in Reader : m \in fr'[q].found} = {q \in Reader : m \in fr[q].found}
      BY <2>2, <3>1
    <3>3. counted'[m] = counted[m] /\ known'[m] = known[m]
      BY <1>0, <1>8, <2>4
    <3>4. QED
      BY <2>1, <3>2, <3>3
  <2>5. QED
    BY <2>3, <2>4
<1>13. RepOK(r)'
  <2>1. /\ f.k > f.offset + Len(f.out)
        /\ \A j \in f.offset + 1..f.k - 1 : stream[j] = NoName \/ stream[j] \in Range(f.out)
        /\ NoName \notin Range(stream) =>
             /\ f.k = f.offset + Len(f.out) + 1
             /\ \A j \in 1..Len(f.out) : f.out[j] = stream[f.offset + j]
    BY <1>3 DEF ReplyOK
  <2>2. ASSUME NEW m \in g.found PROVE \E j \in 1..g.k - 1 : stream[j] = m
    <3>1. CASE m \in f.found
      BY <1>5, <1>6, <3>1
    <3>2. CASE m = n
      <4>1. f.k - 1 \in 1..f.k - 1
        BY <1>2, <1>4
      <4>2. QED
        BY <1>b, <1>5, <3>2, <4>1
    <3>3. QED
      BY <1>5, <3>1, <3>2
  <2>3. ReplyOK("fill", g)'
    BY <1>0, <1>5, <2>1, <2>2 DEF ReplyOK
  <2>4. QED
    BY <1>0, <1>3, <1>5, <1>11, <2>3 DEF RepOK
<1>14. ReaderOK(r)'
  BY <1>a, <1>0, <1>3, <1>5, <1>11 DEF ReaderOK, Reading
<1>15. \A q \in Reader \ {r} : SoundOK(q)'
  BY <1>0, OthersSound
<1>16. QED
  BY <1>9, <1>10, <1>12, <1>13, <1>14, <1>15 DEF SoundOK

-----------------------------------------------------------------------------
(* The theorems.                                                           *)

(* The handle has no stream yet, and nobody has begun to read.             *)
LEMMA InitGood == Init => Good
<1> SUFFICES ASSUME Init PROVE Good
  OBVIOUS
<1>1. /\ dir \subseteq File /\ stream = <<>> /\ mu = Nobody
      /\ pc = [r \in Reader |-> "idle"] /\ fr = [r \in Reader |-> IdleFrame]
      /\ off = [r \in Reader |-> 0] /\ eof = [r \in Reader |-> FALSE]
      /\ got = [r \in Reader |-> <<>>]
      /\ stay = [r \in Reader |-> dir] /\ ever = [r \in Reader |-> dir]
      /\ alone = [r \in Reader |-> TRUE]
      /\ counted = [n \in File |-> 0] /\ known = [n \in File |-> 0]
      /\ issued = 0 /\ changes = 0
  BY DEF Init
<1>2. Range(<<>>) = {} /\ Len(<<>>) = 0 /\ IdleFrame.out = <<>> /\ IdleFrame.found = {}
  BY DEF Range, IdleFrame
<1>3. TypeOK
  <2>1. "idle" \in Label /\ "idle" \notin {"lsdir", "fill", "look"}
    BY DEF Label
  <2>2. \A r \in Reader : pc[r] = "idle" /\ fr[r] = IdleFrame /\ mu # r
    BY <1>1
  <2>3. /\ stream \in Seq(Told \cup {NoName}) /\ <<>> \in Seq(Told)
        /\ pc \in [Reader -> Label] /\ fr \in [Reader -> Frame]
    BY <1>1, <2>1, IdleOK
  <2>4. QED
    BY <1>1, <2>1, <2>2, <2>3, IdleOK DEF TypeOK, Serving
<1>4. StreamOK
  BY <1>1 DEF StreamOK
<1>5. LookupsAgree
  <2> SUFFICES ASSUME NEW n \in File
               PROVE  counted[n] = known[n] + Cardinality({r \in Reader : n \in fr[r].found})
    BY DEF LookupsAgree
  <2>1. {r \in Reader : n \in fr[r].found} = {}
    BY <1>1, <1>2
  <2>2. Cardinality({r \in Reader : n \in fr[r].found}) = 0
    BY <2>1, FS_EmptySet
  <2>3. QED
    BY <1>1, <2>2
<1>6. ASSUME NEW r \in Reader PROVE SoundOK(r)
  <2>1. /\ pc[r] = "idle" /\ fr[r] = IdleFrame /\ off[r] = 0 /\ ~eof[r] /\ got[r] = <<>>
        /\ stay[r] = dir /\ ever[r] = dir
    BY <1>1
  <2>2. RepOK(r)
    BY <2>1 DEF RepOK, ReplyOK
  <2>3. ReaderOK(r)
    BY <1>1, <1>2, <2>1 DEF ReaderOK, Reading
  <2>4. QED
    BY <2>2, <2>3 DEF SoundOK
<1>7. QED
  BY <1>3, <1>4, <1>5, <1>6 DEF Good, Parts

(* Every step keeps the invariant.                                         *)
LEMMA NextGood == Good /\ [Next]_vars => Good'
<1> SUFFICES ASSUME Good, [Next]_vars
             PROVE  TypeOK' /\ StreamOK' /\ LookupsAgree' /\ \A q \in Reader : SoundOK(q)'
  BY DEF Good, Parts
<1>1. ASSUME NEW r \in Reader, Serve(r)
      PROVE  TypeOK' /\ StreamOK' /\ LookupsAgree' /\ \A q \in Reader : SoundOK(q)'
  BY <1>1, LockGood, LockToListGood, LsdirGood, LsdirFailsGood, FilledGood, SkipGood,
     EmitGood, LookupGood DEF Serve
<1>2. CASE UNCHANGED vars
  <2>1. /\ UNCHANGED <<dir, stream, mu, pc, fr, off, eof, got, stay, ever, alone>>
        /\ UNCHANGED <<counted, known, issued, changes>>
    BY <1>2 DEF vars, handleVars, readerVars, historyVars, countVars, boundVars
  <2>2. TypeOK /\ StreamOK /\ LookupsAgree /\ \A q \in Reader : SoundOK(q)
    BY DEF Good, Parts
  <2>3. TypeOK' /\ StreamOK' /\ LookupsAgree'
    BY <2>1, <2>2 DEF TypeOK, Serving, StreamOK, LookupsAgree
  <2>4. ASSUME NEW q \in Reader PROVE SoundOK(q)'
    BY <2>1, <2>2, SameReader DEF Same
  <2>5. QED
    BY <2>3, <2>4
<1>3. QED
  BY <1>1, <1>2, GoOnGood, RewindGood, CreateGood, DeleteGood DEF Next

(* What comes between two requests of a reader does not disturb what it    *)
(* reads: the inductive invariant of the directory stream, for any number  *)
(* of readers and files (bridge.go:589-677).                               *)
THEOREM StreamInvariant == Spec => []StreamInv
<1>1. Good => StreamInv
  BY InvParts DEF Good
<1>2. QED
  BY <1>1, InitGood, NextGood, PTL DEF Spec

(* No offset a reader brings leaves the stream (bridge.go:610-619), and    *)
(* d.mu belongs to the one request that is served.                         *)
THEOREM StreamTypes == Spec => []TypeOK
<1>1. StreamInv => TypeOK
  BY DEF StreamInv
<1>2. QED
  BY <1>1, StreamInvariant, PTL

(* The bridge counts the lookups the kernel will be told of, and no other  *)
(* (bridge.go:659-677).                                                    *)
THEOREM LookupsCounted == Spec => []LookupsAgree
<1>1. StreamInv => LookupsAgree
  BY DEF StreamInv
<1>2. QED
  BY <1>1, StreamInvariant, PTL

(* A complete listing has all that stayed and nothing that never was       *)
(* (bridge.go:599-608).                                                    *)
THEOREM ListingsFaithful == Spec => []ListingFaithful
<1>1. StreamInv => ListingFaithful
  <2> SUFFICES ASSUME StreamInv, NEW r \in Reader
               PROVE  /\ Range(got[r]) \cap File \subseteq ever[r]
                      /\ eof[r] /\ alone[r] => stay[r] \subseteq Range(got[r])
    BY DEF ListingFaithful
  <2>1. ReaderOK(r) /\ TypeOK
    BY DEF StreamInv, ReadersOK
  <2>2. Range(got[r]) \cap File \subseteq ever[r]
    BY <2>1 DEF ReaderOK
  <2>3. ASSUME eof[r], alone[r], NEW n \in stay[r] PROVE n \in Range(got[r])
    <3>1. off[r] > 0
      BY <2>1, <2>3, TypeParts DEF ReaderOK
    <3>2. n \in Range(stream) /\ n \in File
      BY <2>1, <2>3, <3>1, TypeParts DEF ReaderOK, Reading
    <3>3. DOMAIN stream = 1..Len(stream)
      BY <2>1, TypeParts
    <3>4. PICK j \in 1..Len(stream) : stream[j] = n
      BY <3>2, <3>3 DEF Range
    <3>5. n # NoName
      BY <3>2
    <3>6. QED
      BY <2>1, <2>3, <3>4, <3>5 DEF ReaderOK
  <2>4. QED
    BY <2>2, <2>3
<1>2. QED
  BY <1>1, StreamInvariant, PTL

(* A reader that is alone with its stream gets no entry twice              *)
(* (bridge.go:610-633), unless an entry without a name shifts the offsets. *)
THEOREM EntriesOnce == Spec => []ListedOnce
<1>1. StreamInv => ListedOnce
  <2> SUFFICES ASSUME StreamInv, NEW r \in Reader, alone[r], NoName \notin Range(stream)
               PROVE  IsInjective(got[r])
    BY DEF ListedOnce
  <2>1. ReaderOK(r) /\ TypeOK /\ StreamOK
    BY DEF StreamInv, ReadersOK
  <2>2. /\ off[r] <= Len(stream) /\ Len(got[r]) = off[r]
        /\ \A j \in 1..off[r] : got[r][j] = stream[j]
    BY <2>1 DEF ReaderOK
  <2>3. DOMAIN stream = 1..Len(stream) /\ Len(stream) \in Nat /\ off[r] \in Nat
    BY <2>1, TypeParts
  <2>4. DOMAIN got[r] = 1..off[r]
    BY <2>1, <2>2, TypeParts
  <2>5. \A j, k \in 1..off[r] : got[r][j] = got[r][k] => j = k
    <3> TAKE j, k \in 1..off[r]
    <3>1. j \in 1..Len(stream) /\ k \in 1..Len(stream)
      BY <2>2, <2>3
    <3>2. stream[j] # NoName
      BY <2>3, <3>1 DEF Range
    <3>3. QED
      BY <2>1, <2>2, <3>1, <3>2 DEF StreamOK
  <2>6. QED
    BY <2>4, <2>5 DEF IsInjective
<1>2. QED
  BY <1>1, StreamInvariant, PTL
=============================================================================
