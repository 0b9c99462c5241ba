-------------------------- MODULE DumpRestoreProofs --------------------------
(* Proofs about DumpRestore: what comes back of a dump, in whatever order  *)
(* its records are added, some of them never and some of them twice.       *)
EXTENDS DumpRestore, TLAPS, FiniteSetTheorems, SequenceTheorems,
        WellFoundedInduction

USE TreeAssumption, BoundAssumption

-----------------------------------------------------------------------------
(* Sequences of parents.                                                   *)

Distinct(s) == \A j, k \in 1..Len(s) : s[j] = s[k] => j = k

LEMMA InjectiveSeq ==
  ASSUME NEW S, NEW s \in Seq(S) PROVE IsInjective(s) <=> Distinct(s)
BY DEF IsInjective, Distinct

(* Without takes one element out and keeps the rest.                       *)
LEMMA WithoutSeq ==
  ASSUME NEW S, NEW s \in Seq(S), Distinct(s), NEW e
  PROVE  /\ Without(s, e) \in Seq(S) /\ Distinct(Without(s, e))
         /\ \A x : Contains(Without(s, e), x) <=> Contains(s, x) /\ x # e
<1>0. DOMAIN s = 1..Len(s) /\ Len(s) \in Nat
  OBVIOUS
<1>1. CASE \A k \in DOMAIN s : s[k] # e
  BY <1>0, <1>1 DEF Without, Contains
<1>2. CASE \E k \in DOMAIN s : s[k] = e
  <2>1. PICK p : p = PlaceOf(s, e)
    OBVIOUS
  <2>2. p \in 1..Len(s) /\ s[p] = e
    BY <1>0, <1>2, <2>1 DEF PlaceOf
  <2>3. PICK u : u = [k \in 1..Len(s) - 1 |-> IF k < p THEN s[k] ELSE s[k + 1]]
    OBVIOUS
  <2>4. Without(s, e) = u
    BY <1>2, <2>1, <2>3 DEF Without
  <2>5. Len(s) - 1 \in Nat /\ \A k \in 1..Len(s) - 1 : s[k] \in S /\ s[k + 1] \in S
    BY <1>0, <2>2
  <2>6. u \in Seq(S) /\ Len(u) = Len(s) - 1
    BY <2>3, <2>5
  <2>7. \A k \in 1..Len(u) : u[k] = IF k < p THEN s[k] ELSE s[k + 1]
    BY <2>3, <2>6
  <2>8. \A k \in 1..Len(u) :
          \E j \in 1..Len(s) : u[k] = s[j] /\ j # p /\ k = IF j < p THEN j ELSE j - 1
    <3>1. ASSUME NEW k \in 1..Len(u), k < p
          PROVE  k \in 1..Len(s) /\ u[k] = s[k] /\ k # p
      BY <1>0, <2>2, <2>6, <2>7, <3>1, SMTT(20)
    <3>2. ASSUME NEW k \in 1..Len(u), ~(k < p)
          PROVE  /\ k + 1 \in 1..Len(s) /\ u[k] = s[k + 1] /\ k + 1 # p
                 /\ ~(k + 1 < p) /\ k = (k + 1) - 1
      BY <1>0, <2>2, <2>6, <2>7, <3>2
    <3>3. QED
      BY <3>1, <3>2
  <2>9. \A j \in 1..Len(s) : j # p => Contains(u, s[j])
    <3>1. ASSUME NEW j \in 1..Len(s), j < p PROVE j \in 1..Len(u) /\ u[j] = s[j]
      BY <1>0, <2>2, <2>6, <2>7, <3>1
    <3>2. ASSUME NEW j \in 1..Len(s), p < j PROVE j - 1 \in 1..Len(u) /\ u[j - 1] = s[j]
      BY <1>0, <2>2, <2>6, <2>7, <3>2
    <3>3. QED
      BY <2>2, <3>1, <3>2 DEF Contains
  <2>10. \A j \in 1..Len(s) : s[j] = e => j = p
    BY <2>2 DEF Distinct
  <2>11. Distinct(u)
    <3> SUFFICES ASSUME NEW j \in 1..Len(u), NEW k \in 1..Len(u), u[j] = u[k] PROVE j = k
      BY DEF Distinct
    <3>1. PICK a \in 1..Len(s) : u[j] = s[a] /\ j = IF a < p THEN a ELSE a - 1
      BY <2>8
    <3>2. PICK b \in 1..Len(s) : u[k] = s[b] /\ k = IF b < p THEN b ELSE b - 1
      BY <2>8
    <3>3. a = b
      BY <3>1, <3>2 DEF Distinct
    <3>4. QED
      BY <3>1, <3>2, <3>3
  <2>12. \A x : Contains(u, x) <=> Contains(s, x) /\ x # e
    <3>1. ASSUME NEW x, Contains(u, x) PROVE Contains(s, x) /\ x # e
      BY <2>8, <2>10, <3>1 DEF Contains
    <3>2. ASSUME NEW x, Contains(s, x), x # e PROVE Contains(u, x)
      BY <2>2, <2>9, <3>2 DEF Contains
    <3>3. QED
      BY <3>1, <3>2
  <2>13. QED
    BY <2>4, <2>6, <2>11, <2>12
<1>3. QED
  BY <1>1, <1>2

(* AddParent puts one in, at the end.                                      *)
LEMMA AddSeq ==
  ASSUME NEW S, NEW s \in Seq(S), Distinct(s), NEW e \in S
  PROVE  /\ AddParent(s, e) \in Seq(S) /\ Distinct(AddParent(s, e))
         /\ \A x : Contains(AddParent(s, e), x) <=> Contains(s, x) \/ x = e
<1>1. PICK w : w = Without(s, e)
  OBVIOUS
<1>2. w \in Seq(S) /\ Distinct(w) /\ \A x : Contains(w, x) <=> Contains(s, x) /\ x # e
  BY <1>1, WithoutSeq
<1>3. PICK u : u = Append(w, e)
  OBVIOUS
<1>4. /\ u \in Seq(S) /\ Len(u) = Len(w) + 1 /\ Len(w) \in Nat
      /\ u[Len(w) + 1] = e /\ \A k \in 1..Len(w) : u[k] = w[k]
  BY <1>2, <1>3
<1>5. \A k : k \in 1..Len(u) <=> k \in 1..Len(w) \/ k = Len(w) + 1
  BY <1>4
<1>6. \A x : Contains(u, x) <=> Contains(w, x) \/ x = e
  BY <1>4, <1>5 DEF Contains
<1>7. Distinct(u)
  <2>1. \A k \in 1..Len(w) : w[k] # e
    BY <1>2 DEF Contains
  <2>2. \A j, k \in 1..Len(w) : u[j] = u[k] => j = k
    BY <1>2, <1>4 DEF Distinct
  <2>3. \A k \in 1..Len(w) : u[k] # u[Len(w) + 1]
    BY <1>4, <2>1
  <2>4. QED
    BY <1>5, <2>2, <2>3 DEF Distinct
<1>8. AddParent(s, e) = u
  BY <1>1, <1>3 DEF AddParent
<1>9. QED
  BY <1>2, <1>4, <1>6, <1>7, <1>8

(* Every set of natural numbers has a least one: what an induction over    *)
(* the length of a sequence needs.                                         *)
LEMMA LeastNat ==
  ASSUME NEW S \in SUBSET Nat, S # {}
  PROVE  \E n \in S : \A m \in S : n <= m
<1> DEFINE R == {ss \in Nat \X Nat : ss[1] < ss[2]}
<1>1. IsWellFoundedOn(R, Nat)
  BY NatLessThanWellFounded, Zenon DEF OpToRel
<1> HIDE DEF R
<1>2. PICK n \in S : \A m \in S : ~ (<<m, n>> \in R)
  BY <1>1, WFMin
<1>3. \A m \in S : ~(m < n)
  BY <1>2 DEF R
<1>4. QED
  BY <1>3

LEMMA DelSeq ==
  ASSUME NEW S, NEW s \in Seq(S), Distinct(s), NEW e
  PROVE  /\ DelParent(s, e) \in Seq(S) /\ Distinct(DelParent(s, e))
         /\ \A x : Contains(DelParent(s, e), x) <=> Contains(s, x) /\ x # e
BY WithoutSeq DEF DelParent

-----------------------------------------------------------------------------
(* The loop of AddInode over the parents of a record, turn by turn.  The   *)
(* fold of the library runs over sets of indices, the greatest last.       *)

AddAll(b, s) == FoldLeft(AddParent, b, s)
Folded(it, D, b, s) ==
  it = [t \in SUBSET D |-> IF t = {} THEN b ELSE AddParent(it[t \ {Max(t)}], s[Max(t)])]

LEMMA FoldIs ==
  ASSUME NEW b, NEW s
  PROVE  AddAll(b, s) = (CHOOSE it : Folded(it, DOMAIN s, b, s))[DOMAIN s]
BY Zenon DEF AddAll, FoldLeft, MapThenFoldSet, Folded

LEMMA GreatestIs ==
  ASSUME NEW n \in Nat, NEW t \in SUBSET (1..n), n \in t
  PROVE  Max(t) = n
<1> DEFINE P(x) == x \in t /\ \A y \in t : x >= y
<1>1. \A y \in t : y \in Nat /\ n >= y
  OBVIOUS
<1>2. P(n)
  BY <1>1
<1>3. \A x : P(x) => x = n
  BY <1>1
<1>4. Max(t) = CHOOSE x : P(x)
  BY Zenon DEF Max
<1> HIDE DEF P
<1>5. P(CHOOSE x : P(x))
  BY <1>2, Zenon
<1>6. QED
  BY <1>3, <1>4, <1>5, Zenon

(* There is such a function for every number of parents.                   *)
LEMMA FoldExists ==
  ASSUME NEW b, NEW s, NEW n \in Nat
  PROVE  \E it : Folded(it, 1..n, b, s)
<1> DEFINE Bad == {k \in Nat : ~ \E it : Folded(it, 1..k, b, s)}
<1> SUFFICES ASSUME Bad # {} PROVE FALSE
  OBVIOUS
<1>1. PICK k \in Bad : \A m \in Bad : k <= m
  <2>1. Bad \subseteq Nat
    OBVIOUS
  <2>2. QED
    BY <2>1, LeastNat
<1>2. k \in Nat /\ ~ \E it : Folded(it, 1..k, b, s)
  OBVIOUS
<1>3. k # 0
  <2> DEFINE it == [t \in SUBSET (1..0) |-> b]
  <2>1. \A t \in SUBSET (1..0) : t = {}
    OBVIOUS
  <2>2. Folded(it, 1..0, b, s)
    BY <2>1 DEF Folded
  <2>3. QED
    BY <1>2, <2>2
<1>4. PICK old : Folded(old, 1..k - 1, b, s)
  <2>1. k - 1 \in Nat /\ ~(k <= k - 1)
    BY <1>2, <1>3
  <2>2. k - 1 \notin Bad
    <3> HIDE DEF Bad
    <3>1. QED
      BY <1>1, <2>1
  <2>3. QED
    BY <2>1, <2>2
<1> DEFINE it == [t \in SUBSET (1..k) |->
             IF k \in t THEN AddParent(old[t \ {k}], s[k]) ELSE old[t]]
<1>5. ASSUME NEW t \in SUBSET (1..k)
      PROVE  it[t] = IF t = {} THEN b ELSE AddParent(it[t \ {Max(t)}], s[Max(t)])
  <2>1. CASE k \in t
    <3>1. Max(t) = k
      BY <1>2, <2>1, GreatestIs
    <3>2. PICK u : u = t \ {k}
      OBVIOUS
    <3>3. u \in SUBSET (1..k) /\ k \notin u
      BY <3>2
    <3>4. it[u] = old[u] /\ it[t] = AddParent(old[u], s[k])
      BY <2>1, <3>2, <3>3
    <3>5. QED
      BY <2>1, <3>1, <3>2, <3>4
  <2>2. CASE k \notin t
    <3>1. t \in SUBSET (1..k - 1)
      BY <1>2, <1>3, <2>2
    <3>2. PICK g, u : g = Max(t) /\ u = t \ {g}
      OBVIOUS
    <3>3. u \in SUBSET (1..k) /\ k \notin u
      BY <2>2, <3>2
    <3>4. it[u] = old[u] /\ it[t] = old[t]
      BY <2>2, <3>3
    <3>5. old[t] = IF t = {} THEN b ELSE AddParent(old[u], s[g])
      BY <1>4, <3>1, <3>2 DEF Folded
    <3>6. QED
      BY <3>2, <3>4, <3>5
  <2>3. QED
    BY <2>1, <2>2
<1>6. Folded(it, 1..k, b, s)
  BY <1>5 DEF Folded
<1>7. QED
  BY <1>2, <1>6

(* at is what the list of parents is after each turn.                      *)
Turns(at, b, s) ==
  at = [k \in 0..Len(s) |-> IF k = 0 THEN b ELSE AddParent(at[k - 1], s[k])]

LEMMA FoldTurns ==
  ASSUME NEW S, NEW s \in Seq(S), NEW b
  PROVE  \E at : Turns(at, b, s) /\ AddAll(b, s) = at[Len(s)]
<1>1. DOMAIN s = 1..Len(s) /\ Len(s) \in Nat
  OBVIOUS
<1>2. PICK n, it : n = Len(s) /\ it = CHOOSE i : Folded(i, 1..n, b, s)
  OBVIOUS
<1>3. Folded(it, 1..n, b, s)
  BY <1>1, <1>2, FoldExists
<1>4. AddAll(b, s) = it[1..n]
  BY <1>1, <1>2, FoldIs
<1> DEFINE at == [k \in 0..n |-> it[1..k]]
<1>5. ASSUME NEW k \in 0..n
      PROVE  at[k] = IF k = 0 THEN b ELSE AddParent(at[k - 1], s[k])
  <2>1. PICK t : t = 1..k
    OBVIOUS
  <2>2. t \in SUBSET (1..n) /\ k \in Nat
    BY <1>1, <1>2, <2>1
  <2>3. it[t] = IF t = {} THEN b ELSE AddParent(it[t \ {Max(t)}], s[Max(t)])
    BY <1>3, <2>2 DEF Folded
  <2>4. CASE k = 0
    BY <2>1, <2>3, <2>4
  <2>5. CASE k # 0
    <3>1. k \in t /\ t # {} /\ t \in SUBSET (1..k) /\ t \ {k} = 1..k - 1 /\ k - 1 \in 0..n
      <4>1. n \in Nat /\ k \in 1..n /\ k - 1 \in 0..n /\ k \in t
        BY <1>1, <1>2, <2>1, <2>5
      <4>2. \A x : x \in 1..k /\ x # k <=> x \in 1..k - 1
        BY <4>1
      <4>3. QED
        BY <2>1, <4>1, <4>2
    <3>2. Max(t) = k
      BY <2>2, <3>1, GreatestIs
    <3>3. at[k - 1] = it[1..k - 1]
      BY <3>1
    <3>4. QED
      BY <2>1, <2>3, <2>5, <3>1, <3>2, <3>3
  <2>6. QED
    BY <2>4, <2>5
<1>6. Turns(at, b, s)
  BY <1>2, <1>5 DEF Turns
<1>7. at[n] = it[1..n]
  BY <1>1, <1>2
<1>8. QED
  BY <1>2, <1>4, <1>6, <1>7

(* The parents that were there and those of the record, each of them once. *)
LEMMA AddAllSeq ==
  ASSUME NEW S, NEW s \in Seq(S), NEW b \in Seq(S), Distinct(b),
         NEW F, F = AddAll(b, s)
  PROVE  /\ F \in Seq(S) /\ Distinct(F)
         /\ \A x : Contains(F, x) <=> Contains(b, x) \/ Contains(s, x)
<1>1. PICK at : Turns(at, b, s) /\ F = at[Len(s)]
  BY FoldTurns
<1> DEFINE Good(k) == /\ at[k] \in Seq(S) /\ Distinct(at[k])
                      /\ \A x : Contains(at[k], x) <=>
                           Contains(b, x) \/ \E j \in 1..k : s[j] = x
           Bad == {k \in 0..Len(s) : ~Good(k)}
<1>2. Len(s) \in Nat /\ \A k \in 1..Len(s) : s[k] \in S
  OBVIOUS
<1>3. ASSUME Bad # {} PROVE FALSE
  <2>1. PICK k \in Bad : \A m \in Bad : k <= m
    <3>1. Bad \subseteq Nat
      BY <1>2
    <3>2. QED
      BY <1>3, <3>1, LeastNat
  <2>2. k \in 0..Len(s) /\ ~Good(k)
    OBVIOUS
  <2>3. k # 0
    <3>1. at[0] = b
      BY <1>2, <1>1 DEF Turns
    <3>2. Good(0)
      BY <3>1
    <3>3. QED
      BY <2>2, <3>2
  <2>4. k - 1 \in 0..Len(s) /\ ~(k <= k - 1) /\ k \in 1..Len(s)
    BY <1>2, <2>2, <2>3
  <2>5. Good(k - 1)
    <3>1. k - 1 \notin Bad
      <4> HIDE DEF Bad
      <4>1. QED
        BY <2>1, <2>4
    <3>2. QED
      BY <2>4, <3>1
  <2>6. at[k] = AddParent(at[k - 1], s[k])
    BY <1>1, <2>2, <2>3 DEF Turns
  <2>7. PICK u, v, e : u = at[k - 1] /\ v = at[k] /\ e = s[k]
    OBVIOUS
  <2>8. /\ v \in Seq(S) /\ Distinct(v)
        /\ \A x : Contains(v, x) <=> Contains(u, x) \/ x = e
    <3>1. u \in Seq(S) /\ Distinct(u) /\ e \in S /\ v = AddParent(u, e)
      BY <1>2, <2>4, <2>5, <2>6, <2>7
    <3>2. QED
      BY <3>1, AddSeq
  <2>9. \A x : Contains(u, x) <=> Contains(b, x) \/ \E j \in 1..k - 1 : s[j] = x
    BY <2>5, <2>7
  <2>10. \A j : j \in 1..k <=> j \in 1..k - 1 \/ j = k
    BY <2>4
  <2>11. Good(k)
    BY <2>7, <2>8, <2>9, <2>10
  <2>12. QED
    BY <2>2, <2>11
<1>4. Good(Len(s))
  BY <1>2, <1>3
<1>5. QED
  BY <1>1, <1>4 DEF Contains

(* An element that comes first, or not at all, and is added goes last.     *)
LEMMA AddNew ==
  ASSUME NEW S, NEW s \in Seq(S), NEW e, \A k \in 1..Len(s) : s[k] # e
  PROVE  AddParent(s, e) = Append(s, e)
BY DEF AddParent, Without

LEMMA AppendIs ==
  ASSUME NEW S, NEW s \in Seq(S), NEW e
  PROVE  Append(s, e) = [j \in 1..Len(s) + 1 |-> IF j = Len(s) + 1 THEN e ELSE s[j]]
<1>1. PICK u : u = Append(s, e)
  OBVIOUS
<1>2. Len(s) \in Nat /\ \A j \in 1..Len(s) + 1 : j # Len(s) + 1 => j \in 1..Len(s)
  OBVIOUS
<1>3. /\ u \in Seq(S \cup {e}) /\ Len(u) = Len(s) + 1 /\ u[Len(s) + 1] = e
      /\ \A j \in 1..Len(s) : u[j] = s[j]
  BY <1>1, AppendProperties
<1>4. u = [j \in 1..Len(u) |-> u[j]]
  BY <1>3
<1>5. QED
  BY <1>1, <1>2, <1>3, <1>4

LEMMA AddFirst ==
  ASSUME NEW S, NEW s \in Seq(S), Distinct(s), s # <<>>
  PROVE  AddParent(s, s[1]) =
           [j \in 1..Len(s) |-> IF j = Len(s) THEN s[1] ELSE s[j + 1]]
<1>1. PICK n, e : n = Len(s) /\ e = s[1]
  OBVIOUS
<1>2. n \in Nat /\ 1 \in 1..n /\ DOMAIN s = 1..n /\ \A k \in 1..n : s[k] \in S
  BY <1>1
<1>3. PlaceOf(s, e) = 1
  <2>1. \A k \in DOMAIN s : s[k] = e => k = 1
    BY <1>1, <1>2 DEF Distinct
  <2>2. QED
    BY <1>1, <1>2, <2>1 DEF PlaceOf
<1>4. PICK u : u = [k \in 1..n - 1 |-> s[k + 1]]
  OBVIOUS
<1>5. Without(s, e) = u
  <2>1. ~ \A k \in DOMAIN s : s[k] # e
    BY <1>1, <1>2
  <2>2. Without(s, e) = [k \in 1..n - 1 |-> IF k < 1 THEN s[k] ELSE s[k + 1]]
    BY <1>1, <1>3, <2>1 DEF Without
  <2>3. \A k \in 1..n - 1 : ~(k < 1)
    BY <1>2
  <2>4. QED
    BY <1>4, <2>2, <2>3
<1>6. n - 1 \in Nat /\ \A k \in 1..n - 1 : k + 1 \in 1..n
  BY <1>2
<1>7. u \in Seq(S) /\ Len(u) = n - 1
  BY <1>2, <1>4, <1>6
<1>8. Append(u, e) = [j \in 1..n |-> IF j = n THEN e ELSE s[j + 1]]
  <2>1. Append(u, e) = [j \in 1..n - 1 + 1 |-> IF j = n - 1 + 1 THEN e ELSE u[j]]
    BY <1>7, AppendIs
  <2>2. n - 1 + 1 = n
    BY <1>2
  <2>3. \A j \in 1..n : j # n => u[j] = s[j + 1]
    <3>1. \A j \in 1..n : j # n => j \in 1..n - 1
      BY <1>2
    <3>2. QED
      BY <1>4, <3>1
  <2>4. QED
    BY <2>1, <2>2, <2>3
<1>9. QED
  BY <1>1, <1>5, <1>8 DEF AddParent

(* A record read once gives its own list, and read again the same: each    *)
(* turn takes the first parent and puts it last.                           *)
LEMMA AddAllOnce ==
  ASSUME NEW S, NEW s \in Seq(S), Distinct(s)
  PROVE  AddAll(NoParents, s) = s
<1>1. PICK at : Turns(at, NoParents, s) /\ AddAll(NoParents, s) = at[Len(s)]
  BY FoldTurns
<1>2. PICK n : n = Len(s) /\ n \in Nat /\ \A k \in 1..n : s[k] \in S
  OBVIOUS
<1> DEFINE Good(k) == at[k] = [j \in 1..k |-> s[j]]
           Bad == {k \in 0..n : ~Good(k)}
<1>3. ASSUME Bad # {} PROVE FALSE
  <2>1. PICK k \in Bad : \A m \in Bad : k <= m
    <3>1. Bad \subseteq Nat
      BY <1>2
    <3>2. QED
      BY <1>3, <3>1, LeastNat
  <2>2. k \in 0..n /\ ~Good(k)
    OBVIOUS
  <2>3. k # 0
    <3>1. at[0] = <<>>
      BY <1>2, <1>1 DEF Turns, NoParents
    <3>2. [j \in 1..0 |-> s[j]] = <<>>
      OBVIOUS
    <3>3. Good(0)
      BY <3>1, <3>2
    <3>4. QED
      BY <2>2, <3>3
  <2>4. k - 1 \in 0..n /\ ~(k <= k - 1) /\ k \in 1..n /\ k \in Nat
    BY <1>2, <2>2, <2>3
  <2>5. Good(k - 1)
    <3>1. k - 1 \notin Bad
      <4> HIDE DEF Bad
      <4>1. QED
        BY <2>1, <2>4
    <3>2. QED
      BY <2>4, <3>1
  <2>6. at[k] = AddParent(at[k - 1], s[k])
    BY <1>1, <1>2, <2>2, <2>3 DEF Turns
  <2>7. PICK u : u = at[k - 1] /\ u = [j \in 1..k - 1 |-> s[j]]
    BY <2>5
  <2>8. u \in Seq(S) /\ Len(u) = k - 1
    <3>1. k - 1 \in Nat /\ \A j \in 1..k - 1 : j \in 1..n
      BY <1>2, <2>4
    <3>2. QED
      BY <1>2, <2>7, <3>1
  <2>9. \A j \in 1..Len(u) : u[j] # s[k]
    <3>1. \A j \in 1..k - 1 : j \in 1..n /\ j # k
      BY <1>2, <2>4
    <3>2. QED
      BY <1>2, <2>4, <2>7, <2>8, <3>1 DEF Distinct
  <2>10. at[k] = Append(u, s[k])
    BY <2>6, <2>7, <2>8, <2>9, AddNew
  <2>11. Append(u, s[k]) = [j \in 1..k |-> IF j = k THEN s[k] ELSE u[j]]
    <3>1. k - 1 + 1 = k
      BY <2>4
    <3>2. QED
      BY <2>8, <3>1, AppendIs
  <2>12. \A j \in 1..k : j # k => u[j] = s[j]
    <3>1. \A j \in 1..k : j # k => j \in 1..k - 1
      BY <2>4
    <3>2. QED
      BY <2>7, <3>1
  <2>13. QED
    BY <2>2, <2>10, <2>11, <2>12
<1>4. at[n] = [j \in 1..n |-> s[j]]
  BY <1>2, <1>3
<1>5. s = [j \in 1..n |-> s[j]]
  BY <1>2
<1>6. QED
  BY <1>1, <1>2, <1>4, <1>5

(* s when k elements went from its front to its end.                       *)
Turned(s, k) ==
  [j \in 1..Len(s) |-> IF j <= Len(s) - k THEN s[j + k] ELSE s[j + k - Len(s)]]

LEMMA TurnAgain ==
  ASSUME NEW S, NEW s \in Seq(S), Distinct(s), NEW k \in 1..Len(s)
  PROVE  AddParent(Turned(s, k - 1), s[k]) = Turned(s, k)
<1>1. PICK n, u : n = Len(s) /\ u = Turned(s, k - 1)
  OBVIOUS
<1>2. n \in Nat /\ k \in 1..n /\ k \in Nat /\ \A j \in 1..n : s[j] \in S
  BY <1>1
<1>3. u = [j \in 1..n |-> IF j <= n - (k - 1) THEN s[j + (k - 1)] ELSE s[j + (k - 1) - n]]
  BY <1>1 DEF Turned
<1>4. \A j \in 1..n :
        u[j] = IF j <= n - (k - 1) THEN s[j + (k - 1)] ELSE s[j + (k - 1) - n]
  BY <1>3
<1>5. u \in Seq(S) /\ Len(u) = n
  <2>1. \A j \in 1..n :
          /\ j <= n - (k - 1) => j + (k - 1) \in 1..n
          /\ ~(j <= n - (k - 1)) => j + (k - 1) - n \in 1..n
    BY <1>2
  <2>2. u \in [1..n -> S]
    BY <1>2, <1>3, <2>1
  <2>3. QED
    BY <1>2, <2>2
<1>6. Distinct(u)
  <2> SUFFICES ASSUME NEW i \in 1..n, NEW j \in 1..n, u[i] = u[j] PROVE i = j
    BY <1>5 DEF Distinct
  <2> DEFINE from(x) == IF x <= n - (k - 1) THEN x + (k - 1) ELSE x + (k - 1) - n
  <2>1. from(i) \in 1..n /\ from(j) \in 1..n /\ (from(i) = from(j) => i = j)
    BY <1>2
  <2>2. u[i] = s[from(i)] /\ u[j] = s[from(j)]
    BY <1>4
  <2>3. QED
    BY <1>1, <2>1, <2>2 DEF Distinct
<1>7. 1 \in 1..n /\ u[1] = s[k] /\ u # <<>>
  <2>1. 1 \in 1..n /\ 1 <= n - (k - 1) /\ 1 + (k - 1) = k
    BY <1>2
  <2>2. QED
    BY <1>4, <1>5, <2>1
<1>8. AddParent(u, s[k]) = [j \in 1..n |-> IF j = n THEN u[1] ELSE u[j + 1]]
  BY <1>5, <1>6, <1>7, AddFirst
<1>9. ASSUME NEW j \in 1..n
       PROVE  (IF j = n THEN u[1] ELSE u[j + 1])
                = IF j <= n - k THEN s[j + k] ELSE s[j + k - n]
  <2>1. CASE j = n
    <3>1. ~(n <= n - k) /\ n + k - n = k
      BY <1>2
    <3>2. QED
      BY <1>7, <2>1, <3>1
  <2>2. CASE j # n
    <3>1. /\ j + 1 \in 1..n /\ (j + 1 <= n - (k - 1)) = (j <= n - k)
          /\ j + 1 + (k - 1) = j + k /\ j + 1 + (k - 1) - n = j + k - n
      BY <1>2, <2>2
    <3>2. QED
      BY <1>4, <2>2, <3>1
  <2>3. QED
    BY <2>1, <2>2
<1>10. QED
  BY <1>1, <1>8, <1>9 DEF Turned

LEMMA AddAllTwice ==
  ASSUME NEW S, NEW s \in Seq(S), Distinct(s)
  PROVE  AddAll(s, s) = s
<1>1. PICK at : Turns(at, s, s) /\ AddAll(s, s) = at[Len(s)]
  BY FoldTurns
<1>2. PICK n : n = Len(s) /\ n \in Nat
  OBVIOUS
<1> DEFINE Bad == {k \in 0..n : at[k] # Turned(s, k)}
<1>3. s = [j \in 1..n |-> s[j]]
  BY <1>2
<1>4. ASSUME Bad # {} PROVE FALSE
  <2>1. PICK k \in Bad : \A m \in Bad : k <= m
    <3>1. Bad \subseteq Nat
      BY <1>2
    <3>2. QED
      BY <1>4, <3>1, LeastNat
  <2>2. k \in 0..n /\ at[k] # Turned(s, k)
    OBVIOUS
  <2>3. k # 0
    <3>1. at[0] = s
      BY <1>2, <1>1 DEF Turns
    <3>2. \A j \in 1..n : j <= n - 0 /\ j + 0 = j
      BY <1>2
    <3>3. Turned(s, 0) = s
      BY <1>2, <1>3, <3>2 DEF Turned
    <3>4. QED
      BY <2>2, <3>1, <3>3
  <2>4. k - 1 \in 0..n /\ ~(k <= k - 1) /\ k \in 1..n
    BY <1>2, <2>2, <2>3
  <2>5. at[k - 1] = Turned(s, k - 1)
    <3>1. k - 1 \notin Bad
      <4> HIDE DEF Bad
      <4>1. QED
        BY <2>1, <2>4
    <3>2. QED
      BY <2>4, <3>1
  <2>6. at[k] = AddParent(at[k - 1], s[k])
    BY <1>1, <1>2, <2>2, <2>3 DEF Turns
  <2>7. QED
    BY <1>2, <2>2, <2>4, <2>5, <2>6, TurnAgain
<1>5. at[n] = Turned(s, n)
  <2>1. n \in 0..n
    BY <1>2
  <2>2. QED
    BY <1>4, <2>1
<1>6. \A j \in 1..n : ~(j <= n - n) /\ j + n - n = j
  BY <1>2
<1>7. Turned(s, n) = s
  BY <1>2, <1>3, <1>6 DEF Turned
<1>8. QED
  BY <1>1, <1>2, <1>5, <1>7

-----------------------------------------------------------------------------
(* The old tree.                                                           *)

LEMMA SeqWiden == ASSUME NEW A, NEW B, A \subseteq B PROVE Seq(A) \subseteq Seq(B)
OBVIOUS

LEMMA TableWiden ==
  ASSUME NEW A, NEW B, NEW C, NEW D, C \subseteq D, NEW f \in [A -> [B -> C]]
  PROVE  f \in [A -> [B -> D]]
<1>1. ASSUME NEW a \in A PROVE f[a] \in [B -> D]
  <2>1. f[a] \in [B -> C]
    OBVIOUS
  <2>2. QED
    BY <2>1
<1>2. QED
  BY <1>1

LEMMA PutEntry ==
  ASSUME NEW A, NEW B, NEW C, NEW f \in [A -> [B -> C]], NEW a \in A, NEW b \in B, NEW c \in C,
         NEW g, g = [f EXCEPT ![a][b] = c]
  PROVE  /\ g \in [A -> [B -> C]] /\ g[a][b] = c
         /\ \A x \in A, y \in B : ~(x = a /\ y = b) => g[x][y] = f[x][y]
<1>1. f[a] \in [B -> C]
  OBVIOUS
<1>2. PICK h : h = [f[a] EXCEPT ![b] = c]
  OBVIOUS
<1>3. h \in [B -> C] /\ h[b] = c /\ \A y \in B : y # b => h[y] = f[a][y]
  BY <1>1, <1>2
<1>4. g = [f EXCEPT ![a] = h]
  BY <1>2
<1>5. g \in [A -> [B -> C]] /\ g[a] = h /\ \A x \in A : x # a => g[x] = f[x]
  BY <1>3, <1>4
<1>6. QED
  BY <1>3, <1>5

LEMMA Numbers ==
  /\ Nil \notin Obj /\ NoIno \notin Ino /\ RootIno \in Ino /\ RootObj \in Obj
  /\ RootObj # Nil /\ RootIno # NoIno
BY DEF Nil, NoIno

LEMMA EntryParts ==
  ASSUME NEW m, NEW p
  PROVE  /\ T!EntryOf(m, p).name = m /\ T!EntryOf(m, p).node = p
         /\ \A k, q : T!EntryOf(m, p) = T!EntryOf(k, q) => m = k /\ p = q
         /\ \A A, B : m \in A /\ p \in B => T!EntryOf(m, p) \in [name : A, node : B]
         /\ \A A, B : T!EntryOf(m, p) \in [name : A, node : B] => m \in A /\ p \in B
BY DEF T!EntryOf

LEMMA EntryIs ==
  ASSUME NEW A, NEW B, NEW e \in [name : A, node : B]
  PROVE  e.name \in A /\ e.node \in B /\ e = T!EntryOf(e.name, e.node)
BY DEF T!EntryOf

LEMMA ChildType ==
  ASSUME TreeOK, NEW p \in Obj, NEW m \in Name
  PROVE  children[p][m] \in alloc \cup {Nil} /\ children[p][m] \in Obj \cup {Nil}
<1>1. children[p] \in [Name -> alloc \cup {Nil}] /\ alloc \subseteq Obj
  BY DEF TreeOK
<1>2. QED
  BY <1>1

LEMMA ParentsType ==
  ASSUME TreeOK, NEW o \in Obj
  PROVE  parents[o] \in Seq(Parent(alloc)) /\ Distinct(parents[o])
<1>1. parents[o] \in Seq(Parent(alloc)) /\ IsInjective(parents[o])
  BY DEF TreeOK
<1>2. QED
  BY <1>1, InjectiveSeq

(* A step that changes only links.                                         *)
LEMMA RelinkTree ==
  ASSUME TreeOK, UNCHANGED <<alloc, ino, lookupCount, nodes, dirs>>,
         children' \in [Obj -> [Name -> alloc \cup {Nil}]], DOMAIN parents' = Obj,
         \A o \in Obj : parents'[o] \in Seq(Parent(alloc)) /\ Distinct(parents'[o]),
         \A o \in Obj, m \in Name : children'[o][m] # Nil =>
           o \in dirs /\ Contains(parents'[children'[o][m]], T!EntryOf(m, o)),
         parents' = [o \in Obj |-> parents'[o]]
  PROVE  TreeOK'
<1>1. parents' \in [Obj -> Seq(Parent(alloc))]
  OBVIOUS
<1>2. \A o \in Obj : IsInjective(parents'[o])
  BY InjectiveSeq
<1>3. Parent(alloc)' = Parent(alloc)
  BY DEF Parent
<1>4. \A o \in Obj, m \in Name : children'[o][m] # Nil =>
        o \in dirs' /\ Contains(parents'[children'[o][m]], T!EntryOf(m, o))
  OBVIOUS
<1>5. QED
  BY <1>1, <1>2, <1>3, <1>4 DEF TreeOK

(* addChild: the new entry is known to its inode.                          *)
LEMMA AddTree ==
  ASSUME TreeOK, dirs \subseteq alloc, NEW p \in Obj, NEW m \in Name, NEW i \in Ino,
         AddChild(p, m, i)
  PROVE  TreeOK' /\ dirs' \subseteq alloc'
<1>1. PICK c \in Obj :
        /\ IF nodes[i] = Nil THEN c \notin alloc ELSE c = nodes[i]
        /\ alloc' = alloc \cup {c}
        /\ ino' = [ino EXCEPT ![c] = i]
        /\ nodes' = [nodes EXCEPT ![i] = c]
        /\ lookupCount' = [lookupCount EXCEPT ![c] = @ + 1]
        /\ children' = [children EXCEPT ![p][m] = c]
        /\ parents' = [parents EXCEPT ![c] = AddParent(@, T!EntryOf(m, p))]
  BY DEF AddChild, T!Add, T!EntryOf
<1>2. PICK A, R, e : A = alloc' /\ R = Parent(A) /\ e = T!EntryOf(m, p)
  OBVIOUS
<1>3. /\ p \in alloc /\ p \in dirs /\ i # RootIno /\ dirs' \subseteq A
      /\ \A x \in dirs : x \in dirs'
  BY <1>1, <1>2 DEF AddChild, InTable
<1>4. alloc \subseteq A /\ A \subseteq Obj /\ c \in A /\ e \in R
  BY <1>1, <1>2, <1>3, EntryParts DEF TreeOK, Parent
<1>5. /\ ino' \in [Obj -> Ino] /\ ino'[c] = i /\ \A x \in Obj : x # c => ino'[x] = ino[x]
  BY <1>1 DEF TreeOK
<1>6. /\ nodes' \in [Ino -> A \cup {Nil}] /\ nodes'[i] = c
      /\ \A x \in Ino : x # i => nodes'[x] = nodes[x]
  BY <1>1, <1>4 DEF TreeOK
<1>7. lookupCount' \in [Obj -> Nat] /\ nodes'[RootIno] = RootObj
  <2>1. lookupCount' \in [Obj -> Nat]
    BY <1>1 DEF TreeOK
  <2>2. nodes[RootIno] = RootObj
    BY DEF TreeOK
  <2>3. QED
    BY <1>3, <1>6, <2>1, <2>2, Numbers
<1>8. /\ children' \in [Obj -> [Name -> A \cup {Nil}]] /\ children'[p][m] = c
      /\ \A x \in Obj, y \in Name : ~(x = p /\ y = m) => children'[x][y] = children[x][y]
  <2>1. PICK g, g1, C, D : g = children /\ g1 = children' /\ C = alloc \cup {Nil} /\ D = A \cup {Nil}
    OBVIOUS
  <2>2. g \in [Obj -> [Name -> D]]
    <3>1. C \subseteq D /\ g \in [Obj -> [Name -> C]]
      BY <1>4, <2>1 DEF TreeOK
    <3>2. QED
      BY <3>1, TableWiden
  <2>3. c \in D /\ g1 = [g EXCEPT ![p][m] = c]
    BY <1>1, <1>4, <2>1
  <2>4. /\ g1 \in [Obj -> [Name -> D]] /\ g1[p][m] = c
        /\ \A x \in Obj, y \in Name : ~(x = p /\ y = m) => g1[x][y] = g[x][y]
    BY <2>2, <2>3, PutEntry
  <2>5. QED
    BY <2>1, <2>4
<1>9. ASSUME NEW o \in Obj PROVE parents[o] \in Seq(R) /\ Distinct(parents[o])
  <2>1. parents[o] \in Seq(Parent(alloc)) /\ Distinct(parents[o])
    BY ParentsType
  <2>2. PICK S : S = Parent(alloc)
    OBVIOUS
  <2>3. S \subseteq R
    BY <1>2, <1>4, <2>2 DEF Parent
  <2>4. QED
    BY <2>1, <2>2, <2>3, SeqWiden
<1>10. PICK s : s = AddParent(parents[c], e)
  OBVIOUS
<1>11. /\ s \in Seq(R) /\ Distinct(s)
       /\ \A x : Contains(s, x) <=> Contains(parents[c], x) \/ x = e
  <2>1. PICK w : w = parents[c]
    OBVIOUS
  <2>2. QED
    BY <1>4, <1>9, <1>10, <2>1, AddSeq
<1>12. /\ parents' = [o \in Obj |-> IF o = c THEN s ELSE parents[o]]
       /\ parents'[c] = s /\ \A o \in Obj : o # c => parents'[o] = parents[o]
  BY <1>1, <1>2, <1>10 DEF TreeOK
<1>13. parents' \in [Obj -> Seq(R)]
  BY <1>9, <1>11, <1>12
<1>14. ASSUME NEW o \in Obj PROVE IsInjective(parents'[o])
  <2>1. parents'[o] \in Seq(R) /\ Distinct(parents'[o])
    BY <1>9, <1>11, <1>12
  <2>2. QED
    BY <2>1, InjectiveSeq
<1>15. ASSUME NEW x \in Ino, nodes'[x] # Nil PROVE ino'[nodes'[x]] = x
  <2>1. CASE x = i
    BY <1>5, <1>6, <2>1
  <2>2. CASE x # i
    <3>1. PICK a : a = nodes[x]
      OBVIOUS
    <3>2. nodes'[x] = a /\ a # Nil /\ a \in alloc /\ ino[a] = x
      BY <1>6, <1>15, <2>2, <3>1 DEF TreeOK
    <3>3. a # c
      <4>1. nodes[i] # Nil => ino[nodes[i]] = i
        BY DEF TreeOK
      <4>2. QED
        BY <1>1, <2>2, <3>2, <4>1
    <3>4. QED
      BY <1>4, <1>5, <3>2, <3>3
  <2>3. QED
    BY <2>1, <2>2
<1>16. ASSUME NEW o \in Obj, NEW y \in Name, children'[o][y] # Nil
       PROVE  o \in dirs' /\ Contains(parents'[children'[o][y]], T!EntryOf(y, o))
  <2>1. CASE o = p /\ y = m
    <3>1. children'[o][y] = c /\ o \in dirs' /\ T!EntryOf(y, o) = e
      BY <1>2, <1>3, <1>8, <2>1
    <3>2. QED
      BY <1>11, <1>12, <3>1
  <2>2. CASE ~(o = p /\ y = m)
    <3>1. PICK a : a = children[o][y]
      OBVIOUS
    <3>2. children'[o][y] = a /\ a # Nil /\ a \in Obj
      BY <1>8, <1>16, <2>2, <3>1, ChildType
    <3>3. o \in dirs /\ Contains(parents[a], T!EntryOf(y, o))
      BY <3>1, <3>2 DEF TreeOK
    <3>4. Contains(parents'[a], T!EntryOf(y, o))
      BY <1>11, <1>12, <3>2, <3>3
    <3>5. QED
      BY <1>3, <3>2, <3>3, <3>4
  <2>3. QED
    BY <2>1, <2>2
<1>17. Parent(alloc)' = R
  BY <1>2 DEF Parent
<1>18. QED
  BY <1>2, <1>3, <1>4, <1>5, <1>6, <1>7, <1>8, <1>13, <1>14, <1>15, <1>16, <1>17 DEF TreeOK

LEMMA RemoveTree ==
  ASSUME TreeOK, NEW p \in Obj, NEW m \in Name, RmChild(p, m)
  PROVE  TreeOK'
<1>1. PICK c, e : c = children[p][m] /\ e = T!EntryOf(m, p)
  OBVIOUS
<1>2. /\ c # Nil
      /\ children' = [children EXCEPT ![p][m] = Nil]
      /\ parents' = [parents EXCEPT ![c] = DelParent(@, e)]
      /\ UNCHANGED <<alloc, ino, lookupCount, nodes, dirs>>
  BY <1>1 DEF RmChild, T!Remove, T!EntryOf
<1>3. c \in alloc /\ c \in Obj
  BY <1>1, <1>2, ChildType
<1>4. /\ children' \in [Obj -> [Name -> alloc \cup {Nil}]] /\ children'[p][m] = Nil
      /\ \A x \in Obj, y \in Name : ~(x = p /\ y = m) => children'[x][y] = children[x][y]
  <2>1. PICK C, z, g, g1 : C = alloc \cup {Nil} /\ z = Nil /\ g = children /\ g1 = children'
    OBVIOUS
  <2>2. g \in [Obj -> [Name -> C]] /\ z \in C /\ g1 = [g EXCEPT ![p][m] = z]
    BY <1>2, <2>1 DEF TreeOK
  <2>3. /\ g1 \in [Obj -> [Name -> C]] /\ g1[p][m] = z
        /\ \A x \in Obj, y \in Name : ~(x = p /\ y = m) => g1[x][y] = g[x][y]
    BY <2>2, PutEntry
  <2>4. QED
    BY <2>1, <2>3
<1>5. PICK w, s : w = parents[c] /\ s = DelParent(w, e)
  OBVIOUS
<1>6. /\ s \in Seq(Parent(alloc)) /\ Distinct(s)
      /\ \A x : Contains(s, x) <=> Contains(w, x) /\ x # e
  <2>1. w \in Seq(Parent(alloc)) /\ Distinct(w)
    BY <1>3, <1>5, ParentsType
  <2>2. QED
    BY <1>5, <2>1, DelSeq
<1>7. /\ parents' = [o \in Obj |-> IF o = c THEN s ELSE parents[o]]
      /\ parents'[c] = s /\ \A o \in Obj : o # c => parents'[o] = parents[o]
  BY <1>2, <1>3, <1>5 DEF TreeOK
<1>8. \A o \in Obj : parents'[o] \in Seq(Parent(alloc)) /\ Distinct(parents'[o])
  BY <1>6, <1>7, ParentsType
<1>9. ASSUME NEW o \in Obj, NEW y \in Name, children'[o][y] # Nil
      PROVE  o \in dirs /\ Contains(parents'[children'[o][y]], T!EntryOf(y, o))
  <2>1. PICK a : a = children[o][y]
    OBVIOUS
  <2>2. ~(o = p /\ y = m) /\ children'[o][y] = a /\ a # Nil /\ a \in Obj
    BY <1>4, <1>9, <2>1, ChildType
  <2>3. o \in dirs /\ Contains(parents[a], T!EntryOf(y, o)) /\ T!EntryOf(y, o) # e
    BY <1>1, <2>1, <2>2, EntryParts DEF TreeOK
  <2>4. Contains(parents'[a], T!EntryOf(y, o))
    BY <1>5, <1>6, <1>7, <2>2, <2>3
  <2>5. QED
    BY <2>2, <2>3, <2>4
<1>10. DOMAIN parents' = Obj /\ parents' = [o \in Obj |-> parents'[o]]
  BY <1>7
<1>11. QED
  BY <1>2, <1>4, <1>8, <1>9, <1>10, RelinkTree

LEMMA MoveTree ==
  ASSUME TreeOK, NEW p \in Obj, NEW m \in Name, NEW q \in Obj, NEW k \in Name,
         MvChild(p, m, q, k)
  PROVE  TreeOK'
<1>1. PICK R, c, d, e1, e2 : /\ R = Parent(alloc)
                             /\ c = children[p][m] /\ d = children[q][k]
                             /\ e1 = T!EntryOf(m, p) /\ e2 = T!EntryOf(k, q)
  OBVIOUS
<1>2. /\ children' = [children EXCEPT ![p][m] = Nil, ![q][k] = c]
      /\ parents' = [o \in Obj |->
           IF o = c
             THEN AddParent(IF o = d
                            THEN DelParent(IF o = c THEN DelParent(parents[o], e1)
                                           ELSE parents[o], e2)
                            ELSE IF o = c THEN DelParent(parents[o], e1) ELSE parents[o], e2)
             ELSE IF o = d THEN DelParent(IF o = c THEN DelParent(parents[o], e1)
                                          ELSE parents[o], e2)
                  ELSE IF o = c THEN DelParent(parents[o], e1) ELSE parents[o]]
      /\ UNCHANGED <<alloc, ino, lookupCount, nodes, dirs>>
  BY <1>1 DEF MvChild, T!Move, T!EntryOf
<1>3. p \in alloc /\ q \in alloc /\ q \in dirs /\ c # Nil /\ e2 \in R
  BY <1>1, EntryParts DEF MvChild, InTable, Parent
<1>4. c \in alloc /\ c \in Obj /\ d \in alloc \cup {Nil}
  BY <1>1, <1>3, ChildType
<1>5. /\ children' \in [Obj -> [Name -> alloc \cup {Nil}]] /\ children'[q][k] = c
      /\ ~(p = q /\ m = k) => children'[p][m] = Nil
      /\ \A x \in Obj, y \in Name :
           ~(x = p /\ y = m) /\ ~(x = q /\ y = k) => children'[x][y] = children[x][y]
  <2>1. PICK C, z, g, h, g1 : /\ C = alloc \cup {Nil} /\ z = Nil /\ g = children
                              /\ h = [g EXCEPT ![p][m] = z] /\ g1 = children'
    OBVIOUS
  <2>2. g \in [Obj -> [Name -> C]] /\ z \in C /\ c \in C
    BY <1>4, <2>1 DEF TreeOK
  <2>3. /\ h \in [Obj -> [Name -> C]] /\ h[p][m] = z
        /\ \A x \in Obj, y \in Name : ~(x = p /\ y = m) => h[x][y] = g[x][y]
    BY <2>1, <2>2, PutEntry
  <2>4. g1 = [h EXCEPT ![q][k] = c]
    BY <1>2, <2>1
  <2>5. /\ g1 \in [Obj -> [Name -> C]] /\ g1[q][k] = c
        /\ \A x \in Obj, y \in Name : ~(x = q /\ y = k) => g1[x][y] = h[x][y]
    BY <2>2, <2>3, <2>4, PutEntry
  <2>6. ~(p = q /\ m = k) => g1[p][m] = z
    BY <2>3, <2>5
  <2>7. \A x \in Obj, y \in Name :
          ~(x = p /\ y = m) /\ ~(x = q /\ y = k) => g1[x][y] = g[x][y]
    BY <2>3, <2>5
  <2>8. QED
    BY <2>1, <2>5, <2>6, <2>7
<1>6. ASSUME NEW o \in Obj, o = c
      PROVE  /\ parents'[o] \in Seq(R) /\ Distinct(parents'[o])
             /\ \A e : Contains(parents'[o], e) <=> (Contains(parents[o], e) /\ e # e1) \/ e = e2
  <2>1. PICK s, s1 : s = parents[o] /\ s1 = DelParent(s, e1)
    OBVIOUS
  <2>2. s \in Seq(R) /\ Distinct(s)
    BY <1>1, <2>1, ParentsType
  <2>3. /\ s1 \in Seq(R) /\ Distinct(s1)
        /\ \A e : Contains(s1, e) <=> Contains(s, e) /\ e # e1
    BY <2>1, <2>2, DelSeq
  <2>4. PICK s2 : s2 = (IF o = d THEN DelParent(s1, e2) ELSE s1)
    OBVIOUS
  <2>5. /\ s2 \in Seq(R) /\ Distinct(s2)
        /\ \A e : e # e2 => (Contains(s2, e) <=> Contains(s1, e))
    BY <2>3, <2>4, DelSeq
  <2>6. PICK s3 : s3 = AddParent(s2, e2)
    OBVIOUS
  <2>7. parents'[o] = s3
    BY <1>2, <1>6, <2>1, <2>4, <2>6
  <2>8. /\ s3 \in Seq(R) /\ Distinct(s3)
        /\ \A e : Contains(s3, e) <=> Contains(s2, e) \/ e = e2
    BY <1>3, <2>5, <2>6, AddSeq
  <2>9. \A e : Contains(s3, e) <=> (Contains(s, e) /\ e # e1) \/ e = e2
    BY <2>3, <2>5, <2>8
  <2>10. QED
    BY <2>1, <2>7, <2>8, <2>9
<1>7. ASSUME NEW o \in Obj, o # c, o = d
      PROVE  /\ parents'[o] \in Seq(R) /\ Distinct(parents'[o])
             /\ \A e : Contains(parents'[o], e) <=> Contains(parents[o], e) /\ e # e2
  <2>1. PICK s, s1 : s = parents[o] /\ s1 = DelParent(s, e2)
    OBVIOUS
  <2>2. s \in Seq(R) /\ Distinct(s)
    BY <1>1, <2>1, ParentsType
  <2>3. /\ s1 \in Seq(R) /\ Distinct(s1)
        /\ \A e : Contains(s1, e) <=> Contains(s, e) /\ e # e2
    BY <2>1, <2>2, DelSeq
  <2>4. parents'[o] = s1
    BY <1>2, <1>7, <2>1
  <2>5. QED
    BY <2>1, <2>3, <2>4
<1>8. ASSUME NEW o \in Obj, o # c, o # d PROVE parents'[o] = parents[o]
  BY <1>2, <1>8
<1>9. ASSUME NEW o \in Obj PROVE parents'[o] \in Seq(R) /\ Distinct(parents'[o])
  BY <1>1, <1>6, <1>7, <1>8, ParentsType
<1>10. ASSUME NEW o \in Obj, NEW y \in Name, children'[o][y] # Nil
       PROVE  o \in dirs /\ Contains(parents'[children'[o][y]], T!EntryOf(y, o))
  <2>1. CASE o = q /\ y = k
    BY <1>1, <1>3, <1>4, <1>5, <1>6, <2>1
  <2>2. CASE ~(o = q /\ y = k)
    <3>1. PICK a, e : a = children[o][y] /\ e = T!EntryOf(y, o)
      OBVIOUS
    <3>2. ~(o = p /\ y = m) /\ children'[o][y] = a /\ a # Nil /\ a \in Obj
      BY <1>5, <1>10, <2>2, <3>1, ChildType
    <3>3. o \in dirs /\ Contains(parents[a], e) /\ e # e1 /\ e # e2
      BY <1>1, <2>2, <3>1, <3>2, EntryParts DEF TreeOK
    <3>4. Contains(parents'[a], e)
      BY <1>6, <1>7, <1>8, <3>2, <3>3
    <3>5. QED
      BY <3>1, <3>2, <3>3, <3>4
  <2>3. QED
    BY <2>1, <2>2
<1>11. DOMAIN parents' = Obj /\ parents' = [o \in Obj |-> parents'[o]]
  BY <1>2
<1>12. QED
  BY <1>1, <1>2, <1>5, <1>9, <1>10, <1>11, RelinkTree

LEMMA ForgetTree ==
  ASSUME TreeOK, NEW o \in Obj, NEW n \in 0..lookupCount[o], Forget(o, n)
  PROVE  TreeOK'
<1>1. /\ o # RootObj /\ nodes[ino[o]] = o
      /\ lookupCount' = [lookupCount EXCEPT ![o] = @ - n]
      /\ UNCHANGED <<alloc, ino, parents, children, dirs>>
  BY DEF Forget, T!Forget, InTable
<1>2. nodes' \in {nodes, [nodes EXCEPT ![ino[o]] = Nil]}
  BY DEF Forget, T!Forget
<1>3. nodes \in [Ino -> alloc \cup {Nil}] /\ ino[o] \in Ino /\ nodes[RootIno] = RootObj
  BY DEF TreeOK
<1>4. /\ nodes' \in [Ino -> alloc \cup {Nil}]
      /\ \A i \in Ino : nodes'[i] # Nil => nodes'[i] = nodes[i]
      /\ nodes'[RootIno] = RootObj
  BY <1>1, <1>2, <1>3, Numbers
<1>5. lookupCount' \in [Obj -> Nat]
  <2>1. lookupCount \in [Obj -> Nat] /\ lookupCount[o] \in Nat
    BY DEF TreeOK
  <2>2. lookupCount[o] - n \in Nat
    BY <2>1
  <2>3. QED
    BY <1>1, <2>1, <2>2
<1>6. \A i \in Ino : nodes'[i] # Nil => ino'[nodes'[i]] = i
  BY <1>1, <1>4 DEF TreeOK
<1>7. QED
  BY <1>1, <1>4, <1>5, <1>6 DEF TreeOK, Parent

LEMMA DetachTree ==
  ASSUME TreeOK, NEW o \in Obj, Detach(o)
  PROVE  TreeOK'
<1>1. /\ children' = [d \in Obj |-> [m \in Name |->
           IF children[d][m] = o THEN Nil ELSE children[d][m]]]
      /\ parents' = [parents EXCEPT ![o] = NoParents]
      /\ UNCHANGED <<alloc, ino, lookupCount, nodes, dirs>>
  BY DEF Detach, T!Detach
<1>2. children' \in [Obj -> [Name -> alloc \cup {Nil}]]
  <2>1. ASSUME NEW d \in Obj
        PROVE [m \in Name |-> IF children[d][m] = o THEN Nil ELSE children[d][m]]
                \in [Name -> alloc \cup {Nil}]
    BY ChildType
  <2>2. QED
    BY <1>1, <2>1
<1>3. /\ DOMAIN parents' = Obj /\ parents' = [x \in Obj |-> parents'[x]]
      /\ parents'[o] = NoParents /\ \A x \in Obj : x # o => parents'[x] = parents[x]
  BY <1>1 DEF TreeOK
<1>4. NoParents \in Seq(Parent(alloc)) /\ Distinct(NoParents)
  BY DEF NoParents, Distinct
<1>5. \A x \in Obj : parents'[x] \in Seq(Parent(alloc)) /\ Distinct(parents'[x])
  BY <1>3, <1>4, ParentsType
<1>6. ASSUME NEW d \in Obj, NEW m \in Name, children'[d][m] # Nil
      PROVE  d \in dirs /\ Contains(parents'[children'[d][m]], T!EntryOf(m, d))
  <2>1. PICK a : a = children[d][m]
    OBVIOUS
  <2>2. children'[d][m] = a /\ a # o /\ a # Nil /\ a \in Obj
    <3>1. children'[d][m] = IF a = o THEN Nil ELSE a
      BY <1>1, <2>1
    <3>2. QED
      BY <1>6, <2>1, <3>1, ChildType
  <2>3. d \in dirs /\ Contains(parents[a], T!EntryOf(m, d))
    BY <2>1, <2>2 DEF TreeOK
  <2>4. QED
    BY <1>3, <2>2, <2>3
<1>7. QED
  BY <1>1, <1>2, <1>3, <1>5, <1>6, RelinkTree

LEMMA InitTree == Init => TreeOK /\ dirs \subseteq alloc
<1> SUFFICES ASSUME Init PROVE TreeOK /\ dirs \subseteq alloc
  OBVIOUS
<1>1. /\ alloc = {RootObj} /\ ino = [o \in Obj |-> RootIno]
      /\ lookupCount = [o \in Obj |-> IF o = RootObj THEN 1 ELSE 0]
      /\ parents = [o \in Obj |-> NoParents]
      /\ children = [o \in Obj |-> [m \in Name |-> Nil]]
      /\ nodes = [i \in Ino |-> IF i = RootIno THEN RootObj ELSE Nil]
      /\ dirs = {RootObj}
  BY DEF Init, T!Init
<1>2. NoParents \in Seq(Parent(alloc)) /\ IsInjective(NoParents)
  BY DEF NoParents, IsInjective
<1>3. /\ parents \in [Obj -> Seq(Parent(alloc))] /\ \A o \in Obj : IsInjective(parents[o])
  BY <1>1, <1>2
<1>4. /\ alloc \subseteq Obj /\ ino \in [Obj -> Ino] /\ lookupCount \in [Obj -> Nat]
      /\ nodes \in [Ino -> alloc \cup {Nil}] /\ nodes[RootIno] = RootObj
      /\ \A i \in Ino : nodes[i] # Nil => ino[nodes[i]] = i
      /\ children \in [Obj -> [Name -> alloc \cup {Nil}]]
      /\ \A o \in Obj, m \in Name : children[o][m] = Nil
  BY <1>1, Numbers
<1>5. QED
  BY <1>1, <1>3, <1>4 DEF TreeOK

(* A request, whichever it is.                                             *)
LEMMA RequestTree ==
  ASSUME TreeOK, dirs \subseteq alloc, Request
  PROVE  TreeOK' /\ dirs' \subseteq alloc' /\ Operate
<1>1. ASSUME NEW p \in Obj, NEW m \in Name, NEW i \in Ino, AddChild(p, m, i)
      PROVE  TreeOK' /\ dirs' \subseteq alloc' /\ Operate
  BY <1>1, AddTree DEF AddChild
<1>2. ASSUME NEW p \in Obj, NEW m \in Name, RmChild(p, m)
      PROVE  TreeOK' /\ dirs' \subseteq alloc' /\ Operate
  BY <1>2, RemoveTree DEF RmChild, T!Remove
<1>3. ASSUME NEW p \in Obj, NEW q \in Obj, NEW m \in Name, NEW k \in Name, MvChild(p, m, q, k)
      PROVE  TreeOK' /\ dirs' \subseteq alloc' /\ Operate
  BY <1>3, MoveTree DEF MvChild, T!Move
<1>4. ASSUME NEW o \in Obj, NEW n \in 0..lookupCount[o], Forget(o, n)
      PROVE  TreeOK' /\ dirs' \subseteq alloc' /\ Operate
  BY <1>4, ForgetTree DEF Forget, T!Forget
<1>5. ASSUME NEW o \in Obj, Detach(o)
      PROVE  TreeOK' /\ dirs' \subseteq alloc' /\ Operate
  BY <1>5, DetachTree DEF Detach, T!Detach
<1>6. QED
  BY <1>1, <1>2, <1>3, <1>4, <1>5 DEF Request

-----------------------------------------------------------------------------
(* The table and its records.                                              *)

LEMMA TableType ==
  ASSUME TreeOK
  PROVE  /\ \A o \in Table : /\ o \in alloc /\ o \in Obj /\ o # Nil /\ ino[o] \in Ino
                             /\ InTable(o) /\ nodes[ino[o]] = o
         /\ \A o : InTable(o) => o \in Table
         /\ \A i \in Ino : nodes[i] # Nil => nodes[i] \in Table /\ ino[nodes[i]] = i
         /\ \A o, x \in Table : ino[o] = ino[x] => o = x
         /\ RootObj \in Table /\ ino[RootObj] = RootIno
<1>1. /\ alloc \subseteq Obj /\ ino \in [Obj -> Ino] /\ nodes \in [Ino -> alloc \cup {Nil}]
      /\ nodes[RootIno] = RootObj /\ \A i \in Ino : nodes[i] # Nil => ino[nodes[i]] = i
  BY DEF TreeOK
<1>2. ASSUME NEW o \in Table
      PROVE  /\ o \in alloc /\ o \in Obj /\ o # Nil /\ ino[o] \in Ino
             /\ InTable(o) /\ nodes[ino[o]] = o
  <2>1. PICK i \in Ino : o = nodes[i] /\ o # Nil
    BY DEF Table
  <2>2. QED
    BY <1>1, <2>1 DEF InTable
<1>3. ASSUME NEW o, InTable(o) PROVE o \in Table
  <2>1. o \in alloc /\ o \in Obj /\ ino[o] \in Ino /\ o = nodes[ino[o]] /\ o # Nil
    BY <1>1, <1>3, Numbers DEF InTable
  <2>2. QED
    BY <2>1 DEF Table
<1>4. \A i \in Ino : nodes[i] # Nil => nodes[i] \in Table
  BY DEF Table
<1>5. \A o, x \in Table : ino[o] = ino[x] => o = x
  BY <1>2
<1>6. RootObj \in Table /\ ino[RootObj] = RootIno
  BY <1>1, <1>4, Numbers
<1>7. QED
  BY <1>1, <1>2, <1>3, <1>4, <1>5, <1>6

LEMMA RecordParts ==
  ASSUME TreeOK, NEW o \in Obj, NEW r, r = Record(o)
  PROVE  /\ r \in RecordSet /\ r.ino = ino[o] /\ r.count = lookupCount[o]
         /\ r.isDir = (o \in dirs) /\ Len(r.parents) = Len(parents[o])
         /\ \A k \in 1..Len(r.parents) :
              /\ parents[o][k] \in Parent(alloc)
              /\ r.parents[k] = T!EntryOf(parents[o][k].name, ino[parents[o][k].node])
<1>1. PICK s, n : s = parents[o] /\ n = Len(s)
  OBVIOUS
<1>2. s \in Seq(Parent(alloc)) /\ n \in Nat /\ \A k \in 1..n : s[k] \in Parent(alloc)
  BY <1>1, ParentsType
<1>3. PICK u : u = [k \in 1..n |-> T!EntryOf(s[k].name, ino[s[k].node])]
  OBVIOUS
<1>4. r = [ino |-> ino[o], count |-> lookupCount[o], isDir |-> o \in dirs, parents |-> u]
  BY <1>1, <1>3 DEF Record, T!EntryOf
<1>5. \A k \in 1..n : T!EntryOf(s[k].name, ino[s[k].node]) \in Parent(Ino)
  <2> SUFFICES ASSUME NEW k \in 1..n
               PROVE  T!EntryOf(s[k].name, ino[s[k].node]) \in Parent(Ino)
    OBVIOUS
  <2>1. s[k].name \in Name /\ s[k].node \in alloc
    BY <1>2 DEF Parent
  <2>2. ino[s[k].node] \in Ino
    BY <2>1 DEF TreeOK
  <2>3. QED
    BY <2>1, <2>2, EntryParts DEF Parent
<1>6. u \in Seq(Parent(Ino)) /\ Len(u) = n
      /\ \A k \in 1..n : u[k] = T!EntryOf(s[k].name, ino[s[k].node])
  BY <1>2, <1>3, <1>5
<1>7. ino[o] \in Ino /\ lookupCount[o] \in Nat
  BY DEF TreeOK
<1>8. r \in RecordSet
  BY <1>4, <1>6, <1>7 DEF RecordSet
<1>9. QED
  BY <1>1, <1>2, <1>4, <1>6, <1>8

(* There are as many records of the table as it has numbers in use.        *)
LEMMA TableCount ==
  ASSUME TreeOK, NEW R, R = {Record(o) : o \in Table},
         NEW I, I = {i \in Ino : nodes[i] # Nil}
  PROVE  IsFiniteSet(R) /\ IsFiniteSet(I) /\ Cardinality(R) = Cardinality(I)
<1>1. IsFiniteSet(I)
  BY FS_Subset
<1> DEFINE f == [i \in I |-> Record(nodes[i])]
<1>2. \A i \in I : nodes[i] \in Table /\ nodes[i] \in Obj /\ ino[nodes[i]] = i
  BY TableType
<1>3. f \in [I -> R]
  BY <1>2
<1>4. \A i, j \in I : f[i] = f[j] => i = j
  <2> SUFFICES ASSUME NEW i \in I, NEW j \in I, f[i] = f[j] PROVE i = j
    OBVIOUS
  <2>1. Record(nodes[i]).ino = i /\ Record(nodes[j]).ino = j
    BY <1>2, RecordParts
  <2>2. QED
    BY <2>1
<1>5. \A r \in R : \E i \in I : f[i] = r
  <2> SUFFICES ASSUME NEW o \in Table PROVE \E i \in I : f[i] = Record(o)
    OBVIOUS
  <2>1. ino[o] \in I /\ nodes[ino[o]] = o
    BY TableType
  <2>2. QED
    BY <2>1
<1>6. ExistsBijection(I, R)
  <2> HIDE DEF f
  <2>1. f \in Bijection(I, R)
    BY <1>3, <1>4, <1>5 DEF Bijection, Injection, Surjection, IsInjective
  <2>2. QED
    BY <2>1 DEF ExistsBijection
<1>7. QED
  BY <1>1, <1>6, FS_Bijection

(* A step that leaves the tree alone leaves alone what is said of it.      *)
LEMMA SameTree ==
  ASSUME UNCHANGED treeVars
  PROVE  /\ TreeOK' = TreeOK /\ Table' = Table /\ Exact' = Exact
         /\ \A o : Record(o)' = Record(o)
         /\ alloc' = alloc /\ ino' = ino /\ lookupCount' = lookupCount /\ parents' = parents
         /\ children' = children /\ nodes' = nodes /\ dirs' = dirs
<1>1. /\ alloc' = alloc /\ ino' = ino /\ lookupCount' = lookupCount /\ parents' = parents
      /\ children' = children /\ nodes' = nodes /\ dirs' = dirs
  BY DEF treeVars
<1>2. TreeOK' = TreeOK
  BY <1>1 DEF TreeOK, Parent
<1>3. Table' = Table /\ \A o : InTable(o)' = InTable(o)
  BY <1>1 DEF Table, InTable
<1>4. Exact' = Exact
  BY <1>1 DEF Exact, InTable, T!EntryOf
<1>5. \A o : Record(o)' = Record(o)
  BY <1>1 DEF Record, T!EntryOf
<1>6. QED
  BY <1>1, <1>2, <1>3, <1>4, <1>5

-----------------------------------------------------------------------------
(* AddInode: what one more record makes of the new tree.                   *)

NewType ==
  new \in [nodes : SUBSET Ino, dirs : SUBSET Ino, count : [Ino -> Nat],
           parents : [Ino -> Seq(Parent(Ino))],
           children : [Ino -> [Name -> Ino \cup {NoIno}]]]

LEMMA NewParts ==
  ASSUME NewType
  PROVE  /\ new.nodes \subseteq Ino /\ new.dirs \subseteq Ino /\ new.count \in [Ino -> Nat]
         /\ new.parents \in [Ino -> Seq(Parent(Ino))]
         /\ new.children \in [Ino -> [Name -> Ino \cup {NoIno}]]
BY DEF NewType

LEMMA RecordTypes ==
  ASSUME NEW r \in RecordSet
  PROVE  /\ r.ino \in Ino /\ r.count \in Nat /\ r.isDir \in BOOLEAN
         /\ r.parents \in Seq(Parent(Ino)) /\ ParentsOf(r) \subseteq Ino
         /\ \A k \in 1..Len(r.parents) :
              /\ r.parents[k].node \in Ino /\ r.parents[k].node \in ParentsOf(r)
              /\ r.parents[k].name \in Name
              /\ r.parents[k] = T!EntryOf(r.parents[k].name, r.parents[k].node)
         /\ \A m, d : Contains(r.parents, T!EntryOf(m, d)) => d \in ParentsOf(r)
<1>1. /\ r.ino \in Ino /\ r.count \in Nat /\ r.isDir \in BOOLEAN
      /\ r.parents \in Seq(Parent(Ino))
  BY DEF RecordSet
<1>2. ASSUME NEW k \in 1..Len(r.parents)
      PROVE  /\ r.parents[k].node \in Ino /\ r.parents[k].name \in Name
             /\ r.parents[k] = T!EntryOf(r.parents[k].name, r.parents[k].node)
  <2>1. PICK s, S : s = r.parents /\ S = Parent(Ino)
    OBVIOUS
  <2>2. s \in Seq(S) /\ k \in 1..Len(s)
    BY <1>1, <2>1
  <2>3. s[k] \in S
    BY <2>2
  <2>4. r.parents[k] \in [name : Name, node : Ino]
    BY <2>1, <2>3 DEF Parent
  <2>5. QED
    BY <2>4, EntryIs
<1>3. \A k \in 1..Len(r.parents) : r.parents[k].node \in ParentsOf(r)
  BY DEF ParentsOf
<1>4. ParentsOf(r) \subseteq Ino
  BY <1>2 DEF ParentsOf
<1>5. ASSUME NEW m, NEW d, Contains(r.parents, T!EntryOf(m, d)) PROVE d \in ParentsOf(r)
  <2>1. PICK k \in 1..Len(r.parents) : r.parents[k] = T!EntryOf(m, d)
    BY <1>5 DEF Contains
  <2>2. r.parents[k].node = d
    BY <2>1, EntryParts
  <2>3. QED
    BY <1>3, <2>2
<1>6. QED
  BY <1>1, <1>2, <1>3, <1>4, <1>5

(* The fields of the new tree after the record r.                          *)
Grown(r, F) ==
  /\ new'.nodes = new.nodes \cup {r.ino} \cup ParentsOf(r)
  /\ new'.dirs = DirsWith(r)
  /\ new'.count[r.ino] = r.count
  /\ \A i \in Ino : i # r.ino => new'.count[i] = new.count[i]
  /\ new'.parents[r.ino] = F
  /\ \A i \in Ino : i # r.ino => new'.parents[i] = new.parents[i]
  /\ \A d \in Ino, m \in Name :
       new'.children[d][m] = IF Contains(r.parents, T!EntryOf(m, d)) THEN r.ino
                             ELSE new.children[d][m]

LEMMA WithGrows ==
  ASSUME NewType, \A i \in Ino : IsInjective(new.parents[i]), NEW r \in RecordSet,
         new' = With(r), NEW F, F = AddAll(new.parents[r.ino], r.parents)
  PROVE  /\ NewType' /\ Grown(r, F)
         /\ F \in Seq(Parent(Ino)) /\ Distinct(F)
         /\ \A x : Contains(F, x) <=> Contains(new.parents[r.ino], x) \/ Contains(r.parents, x)
<1>1. PICK N, C, P, K :
        /\ N = new.nodes \cup {r.ino} \cup ParentsOf(r)
        /\ C = [new.count EXCEPT ![r.ino] = r.count]
        /\ P = [new.parents EXCEPT ![r.ino] = F]
        /\ K = [d \in Ino |-> [m \in Name |->
                  IF Contains(r.parents, T!EntryOf(m, d)) THEN r.ino ELSE new.children[d][m]]]
  OBVIOUS
<1>2. new' = [nodes |-> N, dirs |-> DirsWith(r), count |-> C, parents |-> P, children |-> K]
  <2>1. P = [new.parents EXCEPT ![r.ino] = FoldLeft(AddParent, @, r.parents)]
    <3>1. F = FoldLeft(AddParent, new.parents[r.ino], r.parents)
      BY Zenon DEF AddAll
    <3>2. QED
      BY <1>1, <3>1, Zenon
  <2>2. K = [d \in Ino |-> [m \in Name |->
               IF \E k \in 1..Len(r.parents) : r.parents[k] = T!EntryOf(m, d)
               THEN r.ino ELSE new.children[d][m]]]
    BY <1>1, Zenon DEF Contains
  <2>3. QED
    BY <1>1, <2>1, <2>2, Zenon DEF With
<1>3. /\ new.nodes \subseteq Ino /\ new.dirs \subseteq Ino /\ new.count \in [Ino -> Nat]
      /\ new.parents \in [Ino -> Seq(Parent(Ino))]
      /\ new.children \in [Ino -> [Name -> Ino \cup {NoIno}]]
  BY NewParts
<1>4. /\ r.ino \in Ino /\ r.count \in Nat /\ r.parents \in Seq(Parent(Ino))
      /\ ParentsOf(r) \subseteq Ino
  BY RecordTypes
<1>5. /\ F \in Seq(Parent(Ino)) /\ Distinct(F)
      /\ \A x : Contains(F, x) <=> Contains(new.parents[r.ino], x) \/ Contains(r.parents, x)
  <2>1. PICK b : b = new.parents[r.ino]
    OBVIOUS
  <2>2. b \in Seq(Parent(Ino)) /\ IsInjective(b)
    BY <1>3, <1>4, <2>1
  <2>3. Distinct(b)
    BY <2>2, InjectiveSeq
  <2>4. QED
    BY <1>4, <2>1, <2>2, <2>3, AddAllSeq
<1>6. N \subseteq Ino /\ DirsWith(r) \subseteq Ino
  BY <1>1, <1>3, <1>4 DEF DirsWith
<1>7. C \in [Ino -> Nat] /\ C[r.ino] = r.count /\ \A i \in Ino : i # r.ino => C[i] = new.count[i]
  BY <1>1, <1>3, <1>4
<1>8. /\ P \in [Ino -> Seq(Parent(Ino))] /\ P[r.ino] = F
      /\ \A i \in Ino : i # r.ino => P[i] = new.parents[i]
  BY <1>1, <1>3, <1>4, <1>5
<1>9. /\ K \in [Ino -> [Name -> Ino \cup {NoIno}]]
      /\ \A d \in Ino, m \in Name :
           K[d][m] = IF Contains(r.parents, T!EntryOf(m, d)) THEN r.ino ELSE new.children[d][m]
  <2>1. \A d \in Ino, m \in Name : new.children[d][m] \in Ino \cup {NoIno}
    BY <1>3
  <2>2. ASSUME NEW d \in Ino
        PROVE  [m \in Name |-> IF Contains(r.parents, T!EntryOf(m, d)) THEN r.ino
                               ELSE new.children[d][m]] \in [Name -> Ino \cup {NoIno}]
    BY <1>4, <2>1
  <2>3. QED
    BY <1>1, <2>2
<1>10. /\ new'.nodes = N /\ new'.dirs = DirsWith(r) /\ new'.count = C /\ new'.parents = P
       /\ new'.children = K
  BY <1>2
<1>11. NewType'
  <2>1. PICK Q, X : Q = Seq(Parent(Ino)) /\ X = [Ino -> [Name -> Ino \cup {NoIno}]]
    OBVIOUS
  <2>2. new' \in [nodes : SUBSET Ino, dirs : SUBSET Ino, count : [Ino -> Nat],
                  parents : [Ino -> Q], children : X]
    BY <1>2, <1>6, <1>7, <1>8, <1>9, <2>1
  <2>3. QED
    BY <2>1, <2>2 DEF NewType, Parent
<1>12. Grown(r, F)
  BY <1>1, <1>7, <1>8, <1>9, <1>10 DEF Grown
<1>13. QED
  BY <1>5, <1>11, <1>12

(* The records of a quiet dump: one for each inode of the table.           *)
LEMMA QuietRecords ==
  ASSUME TreeOK, PhasesOK, DumpOK, quiet, phase \in {"restore", "end"}
  PROVE  /\ dumped = {Record(o) : o \in Table}
         /\ \A r, s \in dumped : r.ino = s.ino => r = s
         /\ nodeCount = Cardinality({i \in Ino : nodes[i] # Nil})
<1>1. /\ inodes = {} /\ dumped = {Record(o) : o \in Table \ inodes}
      /\ nodeCount = Cardinality({i \in Ino : nodes[i] # Nil})
  BY DEF PhasesOK, DumpOK
<1>2. dumped = {Record(o) : o \in Table}
  BY <1>1
<1>3. ASSUME NEW o \in Table, NEW x \in Table, Record(o).ino = Record(x).ino
      PROVE  Record(o) = Record(x)
  <2>1. Record(o).ino = ino[o] /\ Record(x).ino = ino[x]
    BY TableType, RecordParts
  <2>2. o = x
    BY <1>3, <2>1, TableType
  <2>3. QED
    BY <2>2
<1>4. QED
  BY <1>1, <1>2, <1>3

LEMMA AddRestored ==
  ASSUME TreeOK, PhasesOK, DumpOK, RestoredOK, fed \subseteq dumped,
         NEW r \in dumped, AddInode(r)
  PROVE  RestoredOK'
<1>1. /\ phase = "restore" /\ new' = With(r) /\ fed' = fed \cup {r} /\ quiet' = quiet
      /\ r \in RecordSet /\ fed \subseteq RecordSet
  BY DEF AddInode, DumpOK
<1>2. NewType /\ \A i \in Ino : IsInjective(new.parents[i])
  BY DEF RestoredOK, NewType
<1>3. PICK F : F = AddAll(new.parents[r.ino], r.parents)
  OBVIOUS
<1>4. /\ NewType' /\ Grown(r, F) /\ F \in Seq(Parent(Ino)) /\ Distinct(F)
      /\ \A x : Contains(F, x) <=> Contains(new.parents[r.ino], x) \/ Contains(r.parents, x)
  BY <1>1, <1>2, <1>3, WithGrows
<1>5. /\ r.ino \in Ino /\ r.count \in Nat /\ r.parents \in Seq(Parent(Ino))
      /\ ParentsOf(r) \subseteq Ino /\ r.ino # NoIno
  BY <1>1, RecordTypes, Numbers
<1>6. \A i \in Ino : IsInjective(new'.parents[i])
  <2>1. IsInjective(F)
    BY <1>4, InjectiveSeq
  <2>2. QED
    BY <1>2, <1>4, <2>1 DEF Grown
<1>7. new'.nodes = {s.ino : s \in fed'} \cup UNION {ParentsOf(s) : s \in fed'}
  <2>1. new.nodes = {s.ino : s \in fed} \cup UNION {ParentsOf(s) : s \in fed}
    BY DEF RestoredOK
  <2>2. new'.nodes = new.nodes \cup {r.ino} \cup ParentsOf(r)
    BY <1>4 DEF Grown
  <2>3. {s.ino : s \in fed'} = {s.ino : s \in fed} \cup {r.ino}
    BY <1>1
  <2>4. UNION {ParentsOf(s) : s \in fed'}
          = (UNION {ParentsOf(s) : s \in fed}) \cup ParentsOf(r)
    BY <1>1
  <2>5. QED
    BY <2>1, <2>2, <2>3, <2>4
<1>8. ASSUME NEW d \in Ino, NEW m \in Name, NEW c, c = new'.children[d][m], c # NoIno
      PROVE  c \in new'.nodes /\ Contains(new'.parents[c], T!EntryOf(m, d))
  <2>1. CASE Contains(r.parents, T!EntryOf(m, d))
    <3>1. c = r.ino
      BY <1>4, <1>8, <2>1 DEF Grown
    <3>2. QED
      BY <1>4, <2>1, <3>1 DEF Grown
  <2>2. CASE ~Contains(r.parents, T!EntryOf(m, d))
    <3>1. c = new.children[d][m]
      BY <1>4, <1>8, <2>2 DEF Grown
    <3>2. c \in new.nodes /\ Contains(new.parents[c], T!EntryOf(m, d))
      BY <1>8, <3>1 DEF RestoredOK
    <3>3. c \in Ino
      BY <1>2, <3>2, NewParts
    <3>4. Contains(new'.parents[c], T!EntryOf(m, d))
      <4>1. CASE c = r.ino
        BY <1>4, <3>2, <4>1 DEF Grown
      <4>2. CASE c # r.ino
        <5>1. new'.parents[c] = new.parents[c]
          BY <1>4, <3>3, <4>2 DEF Grown
        <5>2. QED
          BY <3>2, <5>1
      <4>3. QED
        BY <4>1, <4>2
    <3>5. QED
      BY <1>4, <3>2, <3>4 DEF Grown
  <2>3. QED
    BY <2>1, <2>2
<1>9. ASSUME NEW s \in fed', NEW k \in 1..Len(s.parents)
      PROVE  new'.children[s.parents[k].node][s.parents[k].name] # NoIno
  <2>1. PICK d, m : d = s.parents[k].node /\ m = s.parents[k].name
    OBVIOUS
  <2>2. s \in RecordSet
    BY <1>1
  <2>3. d \in Ino /\ m \in Name /\ s.parents[k] = T!EntryOf(m, d)
    BY <2>1, <2>2, RecordTypes
  <2>4. CASE s = r
    <3>1. Contains(r.parents, T!EntryOf(m, d))
      BY <2>3, <2>4 DEF Contains
    <3>2. new'.children[d][m] = r.ino
      BY <1>4, <2>3, <3>1 DEF Grown
    <3>3. QED
      BY <1>5, <2>1, <3>2
  <2>5. CASE s # r
    <3>1. s \in fed
      BY <1>1, <2>5
    <3>2. new.children[d][m] # NoIno
      BY <2>1, <3>1 DEF RestoredOK
    <3>3. new'.children[d][m] \in {r.ino, new.children[d][m]}
      BY <1>4, <2>3 DEF Grown
    <3>4. QED
      BY <1>5, <2>1, <3>2, <3>3
  <2>6. QED
    BY <2>4, <2>5
<1>10. ASSUME quiet', NEW s \in fed' PROVE new'.count[s.ino] = s.count
  <2>1. s \in RecordSet /\ s \in dumped /\ s.ino \in Ino
    BY <1>1, RecordTypes
  <2>2. CASE s.ino = r.ino
    <3>1. s = r
      BY <1>1, <1>10, <2>1, <2>2, QuietRecords
    <3>2. QED
      BY <1>4, <3>1 DEF Grown
  <2>3. CASE s.ino # r.ino
    <3>1. s \in fed
      BY <1>1, <2>3
    <3>2. new.count[s.ino] = s.count
      BY <1>1, <1>10, <3>1 DEF RestoredOK
    <3>3. QED
      BY <1>4, <2>1, <2>3, <3>2 DEF Grown
  <2>4. QED
    BY <2>2, <2>3
<1>11. QED
  BY <1>4, <1>6, <1>7, <1>8, <1>9, <1>10 DEF RestoredOK, NewType

(* The types that AddInode touches: what has entries is a directory.       *)
LEMMA AddTypes ==
  ASSUME TypeOK, DumpOK, RestoredOK, NEW r \in dumped, AddInode(r)
  PROVE  TypeOK'
<1>1. /\ phase = "restore" /\ new' = With(r) /\ fed' = fed \cup {r}
      /\ r \in RecordSet /\ ParentsOf(r) \subseteq DirsWith(r)
      /\ added < MaxFeeds /\ added' = added + 1
      /\ UNCHANGED <<treeVars, ops, phase, dumpVars, quiet, status>>
  BY DEF AddInode, DumpOK
<1>2. NewType /\ \A i \in Ino : IsInjective(new.parents[i])
  BY DEF RestoredOK, NewType
<1>3. PICK F : F = AddAll(new.parents[r.ino], r.parents)
  OBVIOUS
<1>4. NewType' /\ Grown(r, F)
  BY <1>1, <1>2, <1>3, WithGrows
<1>5. new'.nodes \subseteq Ino
  BY <1>4 DEF NewType
<1>6. new.dirs \subseteq new.nodes
  BY DEF TypeOK
<1>7. new'.dirs \subseteq new'.nodes
  BY <1>4, <1>6 DEF Grown, DirsWith
<1>8. ASSUME NEW d \in Ino, NEW m \in Name, new'.children[d][m] # NoIno
      PROVE  d \in new'.dirs
  <2>1. CASE Contains(r.parents, T!EntryOf(m, d))
    <3>1. d \in ParentsOf(r)
      BY <1>1, <2>1, RecordTypes
    <3>2. QED
      BY <1>1, <1>4, <3>1 DEF Grown
  <2>2. CASE ~Contains(r.parents, T!EntryOf(m, d))
    <3>1. new.children[d][m] # NoIno
      BY <1>4, <1>8, <2>2 DEF Grown
    <3>2. d \in new.dirs
      BY <3>1 DEF TypeOK
    <3>3. QED
      BY <1>4, <3>2 DEF Grown, DirsWith
  <2>3. QED
    BY <2>1, <2>2
<1>9. added' \in 0..MaxFeeds
  <2>1. added \in 0..MaxFeeds /\ MaxFeeds \in Nat
    BY BoundAssumption DEF TypeOK
  <2>2. QED
    BY <1>1, <2>1
<1>10. QED
  BY <1>1, <1>5, <1>7, <1>8, <1>9 DEF TypeOK, treeVars, dumpVars

(* The record of an inode of an exact tree: each parent it names is a      *)
(* directory of the table that has the entry, and is named once.           *)
LEMMA ExactRecord ==
  ASSUME TreeOK, Exact, NEW o \in Table, NEW r, r = Record(o)
  PROVE  /\ r \in RecordSet /\ Distinct(r.parents)
         /\ \A m, d : Contains(r.parents, T!EntryOf(m, d)) =>
              d \in Ino /\ nodes[d] \in Table /\ nodes[d] \in dirs /\ children[nodes[d]][m] = o
         /\ \A d \in ParentsOf(r) :
              d \in Ino /\ nodes[d] \in Table /\ nodes[d] \in dirs
<1>1. o \in alloc /\ o \in Obj /\ o # Nil /\ InTable(o)
  BY TableType
<1>2. PICK s, u : s = parents[o] /\ u = r.parents
  OBVIOUS
<1>3. /\ r \in RecordSet /\ u \in Seq(Parent(Ino)) /\ Len(u) = Len(s)
      /\ \A k \in 1..Len(u) : /\ s[k] \in Parent(alloc)
                              /\ u[k] = T!EntryOf(s[k].name, ino[s[k].node])
  BY <1>1, <1>2, RecordParts, RecordTypes
<1>4. ASSUME NEW k \in 1..Len(u)
      PROVE  /\ s[k].node \in Table /\ s[k].node \in dirs /\ s[k].name \in Name
             /\ nodes[ino[s[k].node]] = s[k].node /\ ino[s[k].node] \in Ino
             /\ children[s[k].node][s[k].name] = o
             /\ s[k] = T!EntryOf(s[k].name, s[k].node)
  <2>1. InTable(s[k].node) /\ children[s[k].node][s[k].name] = o
    BY <1>1, <1>2, <1>3 DEF Exact
  <2>2. s[k].node \in Table /\ s[k].node \in Obj
    BY <2>1, TableType
  <2>3. s[k] \in [name : Name, node : alloc]
    BY <1>3 DEF Parent
  <2>4. s[k].name \in Name /\ s[k] = T!EntryOf(s[k].name, s[k].node)
    BY <2>3, EntryIs
  <2>5. s[k].node \in dirs
    BY <1>1, <2>1, <2>2, <2>4 DEF TreeOK
  <2>6. QED
    BY <2>1, <2>2, <2>4, <2>5, TableType
<1>5. Distinct(u)
  <2>1. Distinct(s)
    BY <1>1, <1>2, ParentsType
  <2> SUFFICES ASSUME NEW j \in 1..Len(u), NEW k \in 1..Len(u), u[j] = u[k] PROVE j = k
    BY DEF Distinct
  <2>2. s[j].name = s[k].name /\ ino[s[j].node] = ino[s[k].node]
    BY <1>3, EntryParts
  <2>3. s[j].node = s[k].node
    BY <1>4, <2>2
  <2>4. s[j] = s[k]
    BY <1>4, <2>2, <2>3
  <2>5. QED
    BY <1>3, <2>1, <2>4 DEF Distinct
<1>6. ASSUME NEW m, NEW d, Contains(u, T!EntryOf(m, d))
      PROVE  d \in Ino /\ nodes[d] \in Table /\ nodes[d] \in dirs /\ children[nodes[d]][m] = o
  <2>1. PICK k \in 1..Len(u) : u[k] = T!EntryOf(m, d)
    BY <1>6 DEF Contains
  <2>2. s[k].name = m /\ ino[s[k].node] = d
    BY <1>3, <2>1, EntryParts
  <2>3. QED
    BY <1>4, <2>2
<1>7. ASSUME NEW d \in ParentsOf(r) PROVE d \in Ino /\ nodes[d] \in Table /\ nodes[d] \in dirs
  <2>1. PICK k \in 1..Len(u) : d = u[k].node
    BY <1>2 DEF ParentsOf
  <2>2. d = ino[s[k].node]
    BY <1>3, <2>1, EntryParts
  <2>3. QED
    BY <1>4, <2>2
<1>8. QED
  BY <1>2, <1>3, <1>5, <1>6, <1>7

(* A directory of the new tree is one of the old, so nothing that is       *)
(* recorded as a parent is known as a file.                                *)
LEMMA NoPanic ==
  ASSUME TypeOK, TreeOK, PartOK, quiet, Exact, NEW o \in Table, NEW r, r = Record(o)
  PROVE  /\ ParentsOf(r) \subseteq DirsWith(r)
         /\ \A i \in new.nodes \cup {r.ino} \cup ParentsOf(r) :
              nodes[i] # Nil /\ (i \in DirsWith(r)) = (nodes[i] \in dirs)
<1>1. o \in Obj /\ o # Nil /\ nodes[ino[o]] = o
  BY TableType
<1>2. r.ino = ino[o] /\ r.isDir = (o \in dirs)
  BY <1>1, RecordParts
<1>3. \A d \in ParentsOf(r) : nodes[d] # Nil /\ nodes[d] \in dirs
  <2>1. \A d \in ParentsOf(r) : nodes[d] \in Table /\ nodes[d] \in dirs
    BY ExactRecord
  <2>2. QED
    BY <2>1, TableType
<1>4. \A i \in new.nodes : nodes[i] # Nil /\ (i \in new.dirs) = (nodes[i] \in dirs)
  BY DEF PartOK
<1>5. new.dirs \subseteq new.nodes
  BY DEF TypeOK
<1>6. \A i \in new.nodes \cup {r.ino} \cup ParentsOf(r) :
        nodes[i] # Nil /\ (i \in DirsWith(r)) = (nodes[i] \in dirs)
  <2> SUFFICES ASSUME NEW i \in new.nodes \cup {r.ino} \cup ParentsOf(r)
               PROVE  nodes[i] # Nil /\ (i \in DirsWith(r)) = (nodes[i] \in dirs)
    OBVIOUS
  <2>1. CASE i = r.ino
    <3>1. nodes[i] = o
      BY <1>1, <1>2, <2>1
    <3>2. i \in new.dirs => o \in dirs
      BY <1>4, <1>5, <3>1
    <3>3. i \in DirsWith(r) <=> i \in new.dirs \/ o \in dirs
      BY <1>2, <2>1 DEF DirsWith
    <3>4. QED
      BY <1>1, <3>1, <3>2, <3>3
  <2>2. CASE i # r.ino /\ i \in new.nodes
    BY <1>4, <2>2 DEF DirsWith
  <2>3. CASE i # r.ino /\ i \notin new.nodes
    BY <1>3, <2>3 DEF DirsWith
  <2>4. QED
    BY <2>1, <2>2, <2>3
<1>7. ParentsOf(r) \subseteq DirsWith(r)
  BY <1>3, <1>6
<1>8. QED
  BY <1>6, <1>7

LEMMA AddPart ==
  ASSUME TypeOK, TreeOK, PhasesOK, DumpOK, RestoredOK, PartOK,
         NEW r \in dumped, AddInode(r)
  PROVE  PartOK'
<1>1. /\ phase = "restore" /\ new' = With(r) /\ fed' = fed \cup {r} /\ quiet' = quiet
      /\ status' = status /\ UNCHANGED treeVars
  BY DEF AddInode
<1>2. /\ Table' = Table /\ Exact' = Exact /\ nodes' = nodes /\ dirs' = dirs
      /\ ino' = ino /\ children' = children /\ \A o : Record(o)' = Record(o)
  BY <1>1, SameTree
<1> SUFFICES ASSUME quiet, Exact PROVE PartOK'
  BY <1>1, <1>2 DEF PartOK
<1>3. PICK o \in Table : r = Record(o)
  BY <1>1, QuietRecords
<1>4. /\ r \in RecordSet /\ Distinct(r.parents) /\ r.parents \in Seq(Parent(Ino))
      /\ \A m, d : Contains(r.parents, T!EntryOf(m, d)) =>
           d \in Ino /\ nodes[d] \in Table /\ children[nodes[d]][m] = o
  BY <1>3, ExactRecord, RecordTypes
<1>5. o \in Obj /\ o # Nil /\ r.ino = ino[o] /\ r.ino \in Ino
  BY <1>3, TableType, RecordParts
<1>6. PICK F : F = AddAll(new.parents[r.ino], r.parents)
  OBVIOUS
<1>7. Grown(r, F)
  <2>1. NewType /\ \A i \in Ino : IsInjective(new.parents[i])
    BY DEF RestoredOK, NewType
  <2>2. QED
    BY <1>1, <1>4, <1>6, <2>1, WithGrows
<1>8. F = r.parents
  <2>1. new.parents[r.ino] \in {r.parents, NoParents}
    BY <1>3, <1>5 DEF PartOK
  <2>2. CASE new.parents[r.ino] = r.parents
    BY <1>4, <1>6, <2>2, AddAllTwice
  <2>3. CASE new.parents[r.ino] = NoParents
    BY <1>4, <1>6, <2>3, AddAllOnce
  <2>4. QED
    BY <2>1, <2>2, <2>3
<1>9. status' # "panic"
  BY <1>1 DEF PartOK
<1>10. \A i \in new'.nodes : nodes[i] # Nil /\ (i \in new'.dirs) = (nodes[i] \in dirs)
  BY <1>3, <1>7, NoPanic DEF Grown
<1>11. ASSUME NEW x \in Table
       PROVE  new'.parents[ino[x]] = IF Record(x) \in fed' THEN Record(x).parents
                                     ELSE NoParents
  <2>1. ino[x] \in Ino /\ x \in Obj /\ Record(x).ino = ino[x]
    BY TableType, RecordParts
  <2>2. CASE x = o
    BY <1>1, <1>3, <1>5, <1>7, <1>8, <2>2 DEF Grown
  <2>3. CASE x # o
    <3>1. ino[x] # r.ino
      BY <1>3, <1>5, <2>3, TableType
    <3>2. new'.parents[ino[x]] = new.parents[ino[x]]
      BY <1>7, <2>1, <3>1 DEF Grown
    <3>3. Record(x) # r
      BY <2>1, <3>1
    <3>4. Record(x) \in fed' <=> Record(x) \in fed
      BY <1>1, <3>3
    <3>5. new.parents[ino[x]] = IF Record(x) \in fed THEN Record(x).parents ELSE NoParents
      BY DEF PartOK
    <3>6. QED
      BY <3>2, <3>4, <3>5
  <2>4. QED
    BY <2>2, <2>3
<1>12. ASSUME NEW d \in Ino, NEW m \in Name, new'.children[d][m] # NoIno
       PROVE  nodes[d] # Nil /\ children[nodes[d]][m] # Nil
              /\ new'.children[d][m] = ino[children[nodes[d]][m]]
  <2>1. CASE Contains(r.parents, T!EntryOf(m, d))
    <3>1. new'.children[d][m] = ino[o]
      BY <1>5, <1>7, <2>1 DEF Grown
    <3>2. nodes[d] \in Table /\ children[nodes[d]][m] = o
      BY <1>4, <2>1
    <3>3. QED
      BY <1>5, <3>1, <3>2, TableType
  <2>2. CASE ~Contains(r.parents, T!EntryOf(m, d))
    <3>1. new'.children[d][m] = new.children[d][m]
      BY <1>7, <2>2 DEF Grown
    <3>2. QED
      BY <1>12, <3>1 DEF PartOK
  <2>3. QED
    BY <2>1, <2>2
<1>13. QED
  BY <1>2, <1>9, <1>10, <1>11, <1>12 DEF PartOK

-----------------------------------------------------------------------------
(* The invariant, step by step.                                            *)

(* The new process before it has anything.                                 *)
LEMMA EmptyParts ==
  /\ Empty.nodes = {} /\ Empty.dirs = {}
  /\ Empty.count = [i \in Ino |-> 0] /\ Empty.parents = [i \in Ino |-> NoParents]
  /\ Empty.children = [i \in Ino |-> [m \in Name |-> NoIno]]
  /\ Empty \in [nodes : SUBSET Ino, dirs : SUBSET Ino, count : [Ino -> Nat],
                parents : [Ino -> Seq(Parent(Ino))],
                children : [Ino -> [Name -> Ino \cup {NoIno}]]]
<1>1. NoParents \in Seq(Parent(Ino))
  BY DEF NoParents
<1>2. PICK Q, P, K : /\ Q = Seq(Parent(Ino)) /\ P = [i \in Ino |-> NoParents]
                     /\ K = [i \in Ino |-> [m \in Name |-> NoIno]]
  OBVIOUS
<1>3. P \in [Ino -> Q] /\ K \in [Ino -> [Name -> Ino \cup {NoIno}]]
  BY <1>1, <1>2
<1>4. PICK C : C = [i \in Ino |-> 0]
  OBVIOUS
<1>5. C \in [Ino -> Nat]
  BY <1>4
<1>6. Empty = [nodes |-> {}, dirs |-> {}, count |-> C, parents |-> P, children |-> K]
  BY <1>2, <1>4, Zenon DEF Empty
<1>7. Empty \in [nodes : SUBSET Ino, dirs : SUBSET Ino, count : [Ino -> Nat],
                 parents : [Ino -> Q], children : [Ino -> [Name -> Ino \cup {NoIno}]]]
  BY <1>3, <1>5, <1>6
<1>8. QED
  BY <1>2, <1>4, <1>6, <1>7

LEMMA EmptyOK ==
  TreeOK /\ new = Empty /\ fed = {} /\ status = "none" => RestoredOK /\ PartOK
<1> SUFFICES ASSUME TreeOK, new = Empty, fed = {}, status = "none"
             PROVE  RestoredOK /\ PartOK
  OBVIOUS
<1>1. /\ new.nodes = {} /\ new.dirs = {} /\ \A i \in Ino : new.parents[i] = NoParents
      /\ \A i \in Ino, m \in Name : new.children[i][m] = NoIno
  BY EmptyParts
<1>2. NewType
  BY EmptyParts DEF NewType
<1>3. IsInjective(NoParents)
  BY DEF NoParents, IsInjective
<1>4. RestoredOK
  BY <1>1, <1>2, <1>3 DEF RestoredOK, NewType
<1>5. \A o \in Table : ino[o] \in Ino
  BY TableType
<1>6. PartOK
  BY <1>1, <1>5 DEF PartOK
<1>7. QED
  BY <1>4, <1>6

LEMMA EmptyNext ==
  (TreeOK /\ new = Empty /\ fed = {} /\ status = "none")' => (RestoredOK /\ PartOK)'
BY EmptyOK, PTL

(* A step of neither process that changes its tree.                        *)
LEMMA SameNew ==
  ASSUME UNCHANGED <<treeVars, new, fed, quiet>>, DumpInv, status' # "panic"
  PROVE  TreeOK' /\ RestoredOK' /\ PartOK'
<1>1. new' = new /\ fed' = fed /\ quiet' = quiet /\ UNCHANGED treeVars
  OBVIOUS
<1>2. /\ TreeOK' = TreeOK /\ Table' = Table /\ Exact' = Exact
      /\ \A o : Record(o)' = Record(o)
      /\ ino' = ino /\ children' = children /\ nodes' = nodes /\ dirs' = dirs
  BY <1>1, SameTree
<1>3. RestoredOK' = RestoredOK
  BY <1>1 DEF RestoredOK, T!EntryOf
<1>4. PartOK'
  BY <1>1, <1>2 DEF DumpInv, PartOK
<1>5. QED
  BY <1>2, <1>3, <1>4 DEF DumpInv

LEMMA InitInv == Init => DumpInv
<1> SUFFICES ASSUME Init PROVE DumpInv
  OBVIOUS
<1>1. TreeOK /\ dirs \subseteq alloc
  BY InitTree
<1>2. /\ ops = 0 /\ phase = "run" /\ nodeCount = 0 /\ inodes = {} /\ dumped = {}
      /\ quiet = TRUE /\ new = Empty /\ added = 0 /\ fed = {} /\ status = "none"
  BY DEF Init
<1>3. RestoredOK /\ PartOK
  BY <1>1, <1>2, EmptyOK
<1>4. TypeOK
  BY <1>1, <1>2, EmptyParts, BoundAssumption DEF TypeOK
<1>5. PhasesOK
  BY <1>2 DEF PhasesOK
<1>6. DumpOK
  BY <1>2 DEF DumpOK
<1>7. QED
  BY <1>1, <1>3, <1>4, <1>5, <1>6 DEF DumpInv

LEMMA RequestStep ==
  ASSUME DumpInv, Request PROVE DumpInv'
<1>1. TypeOK /\ TreeOK /\ PhasesOK /\ DumpOK
  BY DEF DumpInv
<1>2. TreeOK' /\ dirs' \subseteq alloc' /\ Operate
  BY <1>1, RequestTree DEF TypeOK
<1>3. /\ phase \in {"run", "counted", "dump"} /\ ops < MaxOps /\ ops' = ops + 1
      /\ quiet' = (phase = "run") /\ phase' = phase
      /\ nodeCount' = nodeCount /\ inodes' = inodes /\ dumped' = dumped
      /\ new' = new /\ added' = added /\ fed' = fed /\ status' = status
  BY <1>2 DEF Operate, dumpVars, restoreVars
<1>4. new = Empty /\ added = 0 /\ fed = {} /\ status = "none"
  BY <1>1, <1>3 DEF PhasesOK
<1>5. RestoredOK' /\ PartOK'
  BY <1>2, <1>3, <1>4, EmptyNext
<1>6. alloc \subseteq alloc'
  <2>1. ASSUME NEW p \in Obj, NEW m \in Name, NEW i \in Ino, AddChild(p, m, i)
        PROVE  alloc \subseteq alloc'
    BY <2>1 DEF AddChild, T!Add
  <2>2. ASSUME NEW p \in Obj, NEW m \in Name, RmChild(p, m) PROVE alloc' = alloc
    BY <2>2 DEF RmChild, T!Remove
  <2>3. ASSUME NEW p \in Obj, NEW q \in Obj, NEW m \in Name, NEW k \in Name,
               MvChild(p, m, q, k)
        PROVE  alloc' = alloc
    BY <2>3 DEF MvChild, T!Move
  <2>4. ASSUME NEW o \in Obj, NEW n \in 0..lookupCount[o], Forget(o, n)
        PROVE  alloc' = alloc
    BY <2>4 DEF Forget, T!Forget
  <2>5. ASSUME NEW o \in Obj, Detach(o) PROVE alloc' = alloc
    BY <2>5 DEF Detach, T!Detach
  <2>6. QED
    BY <2>1, <2>2, <2>3, <2>4, <2>5 DEF Request
<1>7. ops' \in 0..MaxOps
  <2>1. ops \in 0..MaxOps /\ MaxOps \in Nat
    BY <1>1, BoundAssumption DEF TypeOK
  <2>2. QED
    BY <1>3, <2>1
<1>8. TypeOK'
  BY <1>1, <1>2, <1>3, <1>6, <1>7 DEF TypeOK
<1>9. PhasesOK'
  BY <1>1, <1>3, <1>4 DEF PhasesOK
<1>10. DumpOK'
  BY <1>1, <1>3 DEF DumpOK
<1>11. QED
  BY <1>2, <1>5, <1>8, <1>9, <1>10 DEF DumpInv

LEMMA DumpStep ==
  ASSUME DumpInv, Dump PROVE DumpInv'
<1>1. /\ phase = "run" /\ phase' = "counted" /\ UNCHANGED treeVars
      /\ nodeCount' = Cardinality({i \in Ino : nodes[i] # Nil})
      /\ ops' = ops /\ inodes' = inodes /\ dumped' = dumped /\ quiet' = quiet
      /\ new' = new /\ added' = added /\ fed' = fed /\ status' = status
  BY DEF Dump, restoreVars
<1>2. /\ alloc' = alloc /\ nodes' = nodes /\ dirs' = dirs /\ Table' = Table
  BY <1>1, SameTree
<1>3. TypeOK /\ TreeOK /\ PhasesOK /\ DumpOK
  BY DEF DumpInv
<1>4. TreeOK' /\ RestoredOK' /\ PartOK'
  BY <1>1, <1>3, SameNew DEF PhasesOK
<1>5. nodeCount' \in Nat
  <2>1. IsFiniteSet({i \in Ino : nodes[i] # Nil})
    BY FS_Subset
  <2>2. QED
    BY <1>1, <2>1, FS_CardinalityType
<1>6. TypeOK'
  BY <1>1, <1>2, <1>3, <1>5 DEF TypeOK
<1>7. PhasesOK'
  BY <1>1, <1>3 DEF PhasesOK
<1>8. DumpOK'
  BY <1>1, <1>2, <1>3 DEF DumpOK, PhasesOK
<1>9. QED
  BY <1>4, <1>6, <1>7, <1>8 DEF DumpInv

LEMMA CopyStep ==
  ASSUME DumpInv, NewInodeDumper PROVE DumpInv'
<1>1. /\ phase = "counted" /\ phase' = "dump" /\ inodes' = Table /\ UNCHANGED treeVars
      /\ ops' = ops /\ nodeCount' = nodeCount /\ dumped' = dumped /\ quiet' = quiet
      /\ new' = new /\ added' = added /\ fed' = fed /\ status' = status
  BY DEF NewInodeDumper, restoreVars
<1>2. /\ alloc' = alloc /\ nodes' = nodes /\ dirs' = dirs /\ Table' = Table
      /\ \A o : Record(o)' = Record(o)
  BY <1>1, SameTree
<1>3. TypeOK /\ TreeOK /\ PhasesOK /\ DumpOK
  BY DEF DumpInv
<1>4. TreeOK' /\ RestoredOK' /\ PartOK'
  BY <1>1, <1>3, SameNew DEF PhasesOK
<1>5. Table \subseteq alloc
  BY <1>3, TableType
<1>6. TypeOK'
  BY <1>1, <1>2, <1>3, <1>5 DEF TypeOK
<1>7. PhasesOK'
  BY <1>1, <1>3 DEF PhasesOK
<1>8. DumpOK'
  BY <1>1, <1>2, <1>3 DEF DumpOK, PhasesOK
<1>9. QED
  BY <1>4, <1>6, <1>7, <1>8 DEF DumpInv

LEMMA NextInodeStep ==
  ASSUME DumpInv, NEW o \in Obj, NextInode(o) PROVE DumpInv'
<1>1. /\ phase = "dump" /\ phase' = phase /\ o \in inodes /\ inodes' = inodes \ {o}
      /\ dumped' = dumped \cup {Record(o)} /\ UNCHANGED treeVars
      /\ ops' = ops /\ nodeCount' = nodeCount /\ quiet' = quiet
      /\ new' = new /\ added' = added /\ fed' = fed /\ status' = status
  BY DEF NextInode, restoreVars
<1>2. /\ alloc' = alloc /\ nodes' = nodes /\ dirs' = dirs /\ Table' = Table
      /\ \A x : Record(x)' = Record(x)
  BY <1>1, SameTree
<1>3. TypeOK /\ TreeOK /\ PhasesOK /\ DumpOK
  BY DEF DumpInv
<1>4. TreeOK' /\ RestoredOK' /\ PartOK'
  BY <1>1, <1>3, SameNew DEF PhasesOK
<1>5. TypeOK'
  BY <1>1, <1>2, <1>3 DEF TypeOK
<1>6. PhasesOK'
  BY <1>1, <1>3 DEF PhasesOK
<1>7. DumpOK'
  <2>1. dumped' \subseteq RecordSet
    BY <1>1, <1>3, RecordParts DEF DumpOK
  <2>2. ASSUME quiet
        PROVE  inodes' \subseteq Table /\ dumped' = {Record(x) : x \in Table \ inodes'}
    <3>1. inodes \subseteq Table /\ dumped = {Record(x) : x \in Table \ inodes}
      BY <1>1, <1>3, <2>2 DEF DumpOK
    <3>2. Table \ inodes' = (Table \ inodes) \cup {o}
      BY <1>1, <3>1
    <3>3. QED
      BY <1>1, <3>1, <3>2
  <2>3. quiet => nodeCount = Cardinality({i \in Ino : nodes[i] # Nil})
    BY <1>1, <1>3 DEF DumpOK
  <2>4. QED
    BY <1>1, <1>2, <2>1, <2>2, <2>3 DEF DumpOK
<1>8. QED
  BY <1>4, <1>5, <1>6, <1>7 DEF DumpInv

(* Where the old process and its records stay as they are.                 *)
LEMMA SameDump ==
  ASSUME DumpOK, PhasesOK, UNCHANGED <<treeVars, dumpVars, quiet>>,
         (phase = "dump" /\ inodes = {}) \/ phase = "restore"
  PROVE  phase' \in {"restore", "end"} => DumpOK'
<1>1. /\ nodes' = nodes /\ Table' = Table /\ \A x : Record(x)' = Record(x)
  BY SameTree
<1>2. inodes' = inodes /\ dumped' = dumped /\ nodeCount' = nodeCount /\ quiet' = quiet
  BY DEF dumpVars
<1>3. QED
  BY <1>1, <1>2 DEF DumpOK

LEMMA RestoreStep ==
  ASSUME DumpInv, Restore PROVE DumpInv'
<1>1. /\ phase = "dump" /\ phase' = "restore" /\ inodes = {}
      /\ UNCHANGED <<treeVars, dumpVars, quiet>> /\ inodes' = inodes
      /\ ops' = ops /\ nodeCount' = nodeCount /\ dumped' = dumped
      /\ new' = new /\ added' = added /\ fed' = fed /\ status' = status
  BY DEF Restore, restoreVars, dumpVars
<1>2. alloc' = alloc /\ dirs' = dirs
  BY <1>1, SameTree
<1>3. TypeOK /\ TreeOK /\ PhasesOK /\ DumpOK
  BY DEF DumpInv
<1>4. TreeOK' /\ RestoredOK' /\ PartOK'
  BY <1>1, <1>3, SameNew DEF PhasesOK
<1>5. TypeOK'
  BY <1>1, <1>2, <1>3 DEF TypeOK
<1>6. PhasesOK'
  BY <1>1, <1>3 DEF PhasesOK
<1>7. DumpOK'
  BY <1>1, <1>3, SameDump
<1>8. QED
  BY <1>4, <1>5, <1>6, <1>7 DEF DumpInv

LEMMA AddInodeStep ==
  ASSUME DumpInv, NEW r \in dumped, AddInode(r) PROVE DumpInv'
<1>1. /\ phase = "restore" /\ phase' = phase /\ UNCHANGED <<treeVars, dumpVars, quiet>>
      /\ inodes' = inodes /\ status' = status
  BY DEF AddInode, dumpVars
<1>2. /\ TypeOK /\ TreeOK /\ PhasesOK /\ DumpOK /\ RestoredOK /\ PartOK
      /\ fed \subseteq dumped
  BY DEF DumpInv, TypeOK
<1>3. TreeOK'
  BY <1>1, <1>2, SameTree
<1>4. TypeOK' /\ RestoredOK' /\ PartOK'
  BY <1>2, AddTypes, AddRestored, AddPart
<1>5. PhasesOK'
  BY <1>1, <1>2 DEF PhasesOK
<1>6. DumpOK'
  BY <1>1, <1>2, SameDump
<1>7. QED
  BY <1>3, <1>4, <1>5, <1>6 DEF DumpInv

LEMMA PanicStep ==
  ASSUME DumpInv, NEW r \in dumped, AddInodePanics(r) PROVE DumpInv'
<1>1. /\ phase = "restore" /\ phase' = "end" /\ status' = "panic"
      /\ ~(ParentsOf(r) \subseteq DirsWith(r))
      /\ UNCHANGED <<treeVars, dumpVars, quiet>> /\ inodes' = inodes /\ quiet' = quiet
      /\ ops' = ops /\ nodeCount' = nodeCount /\ dumped' = dumped
      /\ new' = new /\ added' = added /\ fed' = fed
  BY DEF AddInodePanics, dumpVars
<1>2. alloc' = alloc /\ dirs' = dirs /\ TreeOK' = TreeOK /\ Exact' = Exact
  BY <1>1, SameTree
<1>3. TypeOK /\ TreeOK /\ PhasesOK /\ DumpOK /\ RestoredOK /\ PartOK
  BY DEF DumpInv
<1>4. RestoredOK' = RestoredOK
  BY <1>1 DEF RestoredOK, T!EntryOf
<1>5. ~(quiet /\ Exact)
  <2> SUFFICES ASSUME quiet, Exact PROVE FALSE
    OBVIOUS
  <2>1. PICK o \in Table : r = Record(o)
    BY <1>1, <1>3, QuietRecords
  <2>2. QED
    BY <1>1, <1>3, <2>1, NoPanic
<1>6. PartOK'
  BY <1>1, <1>2, <1>5 DEF PartOK
<1>7. TypeOK'
  BY <1>1, <1>2, <1>3 DEF TypeOK
<1>8. PhasesOK'
  BY <1>1, <1>3 DEF PhasesOK
<1>9. DumpOK'
  BY <1>1, <1>3, SameDump
<1>10. QED
  BY <1>2, <1>3, <1>4, <1>6, <1>7, <1>8, <1>9 DEF DumpInv

LEMMA FinishedStep ==
  ASSUME DumpInv, Finished PROVE DumpInv'
<1>1. /\ phase = "restore" /\ phase' = "end"
      /\ status' = IF RootIno \notin new.nodes THEN "no root"
                   ELSE IF IsShort THEN "lost" ELSE "ok"
      /\ UNCHANGED <<treeVars, dumpVars, quiet>> /\ inodes' = inodes
      /\ ops' = ops /\ nodeCount' = nodeCount /\ dumped' = dumped
      /\ new' = new /\ added' = added /\ fed' = fed
  BY DEF Finished, dumpVars
<1>2. alloc' = alloc /\ dirs' = dirs
  BY <1>1, SameTree
<1>3. TypeOK /\ PhasesOK /\ DumpOK
  BY DEF DumpInv
<1>4. added \in Nat /\ nodeCount \in Nat
  <2>1. added \in 0..MaxFeeds /\ nodeCount \in Nat /\ MaxFeeds \in Nat
    BY <1>3, BoundAssumption, Zenon DEF TypeOK
  <2>2. QED
    BY <2>1
<1>5. /\ status' \in {"no root", "lost", "ok"}
      /\ status' \in {"ok", "lost"} => RootIno \in new.nodes
      /\ status' = "no root" => RootIno \notin new.nodes
      /\ status' = "ok" => added >= nodeCount
      /\ status' = "lost" => added < nodeCount
  <2>1. CASE RootIno \notin new.nodes
    BY <1>1, <2>1
  <2>2. CASE RootIno \in new.nodes /\ added < nodeCount
    BY <1>1, <2>2 DEF IsShort
  <2>3. CASE RootIno \in new.nodes /\ ~(added < nodeCount)
    <3>1. added >= nodeCount
      BY <1>4, <2>3
    <3>2. status' = "ok"
      BY <1>1, <2>3 DEF IsShort
    <3>3. QED
      BY <2>3, <3>1, <3>2
  <2>4. QED
    BY <2>1, <2>2, <2>3
<1>6. TreeOK' /\ RestoredOK' /\ PartOK'
  BY <1>1, <1>5, SameNew
<1>7. TypeOK'
  BY <1>1, <1>2, <1>3, <1>5 DEF TypeOK
<1>8. PhasesOK'
  BY <1>1, <1>3, <1>5 DEF PhasesOK
<1>9. DumpOK'
  BY <1>1, <1>3, SameDump
<1>10. QED
  BY <1>6, <1>7, <1>8, <1>9 DEF DumpInv

LEMMA NextInv == DumpInv /\ [Next]_vars => DumpInv'
<1> SUFFICES ASSUME DumpInv, [Next]_vars PROVE DumpInv'
  OBVIOUS
<1>1. CASE Request
  BY <1>1, RequestStep
<1>2. CASE Dump
  BY <1>2, DumpStep
<1>3. CASE NewInodeDumper
  BY <1>3, CopyStep
<1>4. CASE Restore
  BY <1>4, RestoreStep
<1>5. CASE Finished
  BY <1>5, FinishedStep
<1>6. CASE \E o \in Obj : NextInode(o)
  BY <1>6, NextInodeStep
<1>7. CASE \E r \in dumped : AddInode(r) \/ AddInodePanics(r)
  BY <1>7, AddInodeStep, PanicStep
<1>8. CASE UNCHANGED vars
  <2>1. /\ UNCHANGED treeVars /\ ops' = ops /\ phase' = phase /\ nodeCount' = nodeCount
        /\ inodes' = inodes /\ dumped' = dumped /\ quiet' = quiet /\ new' = new
        /\ added' = added /\ fed' = fed /\ status' = status
    BY <1>8 DEF vars, dumpVars, restoreVars
  <2>2. /\ alloc' = alloc /\ dirs' = dirs /\ TreeOK' = TreeOK /\ Exact' = Exact
        /\ Table' = Table /\ \A o : Record(o)' = Record(o)
        /\ ino' = ino /\ children' = children /\ nodes' = nodes
    BY <2>1, SameTree
  <2>3. TypeOK' = TypeOK
    BY <2>1, <2>2 DEF TypeOK
  <2>4. PhasesOK' = PhasesOK
    BY <2>1 DEF PhasesOK
  <2>5. DumpOK' = DumpOK
    BY <2>1, <2>2 DEF DumpOK
  <2>6. RestoredOK' = RestoredOK
    BY <2>1 DEF RestoredOK, T!EntryOf
  <2>7. PartOK' = PartOK
    BY <2>1, <2>2 DEF PartOK
  <2>8. QED
    BY <2>2, <2>3, <2>4, <2>5, <2>6, <2>7 DEF DumpInv
<1>9. QED
  BY <1>1, <1>2, <1>3, <1>4, <1>5, <1>6, <1>7, <1>8 DEF Next

(* The invariant that inode.go and dump.go keep together: the dump is the  *)
(* tree as it was, and what AddInode makes of its records is a part of it. *)
THEOREM DumpInvariant == Spec => []DumpInv
<1>1. QED
  BY InitInv, NextInv, PTL DEF Spec

-----------------------------------------------------------------------------
(* What it makes of the properties.                                        *)

(* Every variable has its type; what has entries is a directory.           *)
THEOREM TypeCorrect == Spec => []TypeOK
<1>1. DumpInv => TypeOK
  BY DEF DumpInv
<1>2. QED
  BY <1>1, DumpInvariant, PTL

(* What AddInode was called with, of a dump that nothing disturbed.        *)
LEMMA FedRecords ==
  ASSUME DumpInv, quiet, status # "none"
  PROVE  /\ TypeOK /\ TreeOK /\ PhasesOK /\ RestoredOK /\ PartOK /\ fed \subseteq dumped
         /\ dumped = {Record(o) : o \in Table}
         /\ IsFiniteSet(dumped) /\ Cardinality(dumped) = nodeCount
<1>1. TypeOK /\ TreeOK /\ PhasesOK /\ DumpOK /\ RestoredOK /\ PartOK /\ fed \subseteq dumped
  BY DEF DumpInv, TypeOK
<1>2. phase = "end"
  BY <1>1 DEF PhasesOK
<1>3. /\ dumped = {Record(o) : o \in Table}
      /\ nodeCount = Cardinality({i \in Ino : nodes[i] # Nil})
  BY <1>1, <1>2, QuietRecords
<1>4. IsFiniteSet(dumped) /\ Cardinality(dumped) = nodeCount
  BY <1>1, <1>3, TableCount
<1>5. QED
  BY <1>1, <1>3, <1>4

LEMMA Ordered ==
  ASSUME NEW a \in Nat, NEW b \in Nat
  PROVE  (a >= b /\ a <= b => a = b) /\ ~(a < a)
OBVIOUS

LEMMA CountTells == DumpInv => FinishedTells
<1> SUFFICES ASSUME DumpInv, quiet, status \in {"ok", "lost", "no root"},
                    added = Cardinality(fed)
             PROVE  status = "ok" <=> fed = dumped
  BY DEF FinishedTells
<1>1. /\ TypeOK /\ TreeOK /\ PhasesOK /\ RestoredOK /\ fed \subseteq dumped
      /\ dumped = {Record(o) : o \in Table}
      /\ IsFiniteSet(dumped) /\ Cardinality(dumped) = nodeCount
  BY FedRecords
<1>2. IsFiniteSet(fed) /\ Cardinality(fed) \in Nat /\ Cardinality(dumped) \in Nat
  BY <1>1, FS_Subset, FS_CardinalityType
<1>3. ASSUME status = "ok" PROVE fed = dumped
  <2>1. PICK a, b : a = Cardinality(fed) /\ b = Cardinality(dumped)
    OBVIOUS
  <2>2. a = b
    <3>1. a >= b
      BY <1>1, <1>3, <2>1 DEF PhasesOK
    <3>2. a <= b
      BY <1>1, <2>1, FS_Subset
    <3>3. a \in Nat /\ b \in Nat
      BY <1>2, <2>1
    <3>4. QED
      BY <3>1, <3>2, <3>3, Ordered
  <2>3. QED
    BY <1>1, <2>1, <2>2, FS_Subset
<1>4. ASSUME fed = dumped PROVE status = "ok"
  <2>1. Record(RootObj) \in fed /\ Record(RootObj).ino = RootIno
    BY <1>1, <1>4, TableType, RecordParts
  <2>2. RootIno \in new.nodes
    <3>1. new.nodes = {r.ino : r \in fed} \cup UNION {ParentsOf(r) : r \in fed}
      BY <1>1 DEF RestoredOK
    <3>2. QED
      BY <2>1, <3>1
  <2>3. status # "no root"
    BY <1>1, <2>2 DEF PhasesOK
  <2>4. status # "lost"
    <3>1. PICK a : a = Cardinality(fed) /\ a \in Nat
      BY <1>2
    <3>2. status = "lost" => a < a
      BY <1>1, <1>4, <3>1 DEF PhasesOK
    <3>3. QED
      BY <3>1, <3>2, Ordered
  <2>5. QED
    BY <2>3, <2>4
<1>5. QED
  BY <1>3, <1>4

(* Unless a record was added twice, Finished returns no error exactly if   *)
(* none was lost (dump.go:140-155).                                        *)
THEOREM FinishedIsRight == Spec => []FinishedTells
BY CountTells, DumpInvariant, PTL

LEMMA WhatComesBack == DumpInv => RestoredSame
<1> SUFFICES ASSUME DumpInv, quiet, Exact
             PROVE  /\ status # "panic"
                    /\ status = "ok" /\ fed = dumped =>
                         /\ new.nodes = {i \in Ino : nodes[i] # Nil}
                         /\ \A i \in new.nodes :
                              LET o == nodes[i]
                              IN  /\ new.count[i] = lookupCount[o]
                                  /\ i \in new.dirs <=> o \in dirs
                                  /\ new.parents[i] = [k \in 1..Len(parents[o]) |->
                                       T!EntryOf(parents[o][k].name,
                                                 ino[parents[o][k].node])]
                                  /\ \A m \in Name : new.children[i][m] =
                                       IF children[o][m] = Nil THEN NoIno
                                       ELSE ino[children[o][m]]
  BY DEF RestoredSame
<1>1. status # "panic"
  BY DEF DumpInv, PartOK
<1> SUFFICES ASSUME status = "ok", fed = dumped
             PROVE  /\ new.nodes = {i \in Ino : nodes[i] # Nil}
                    /\ \A i \in new.nodes :
                         LET o == nodes[i]
                         IN  /\ new.count[i] = lookupCount[o]
                             /\ i \in new.dirs <=> o \in dirs
                             /\ new.parents[i] = [k \in 1..Len(parents[o]) |->
                                  T!EntryOf(parents[o][k].name, ino[parents[o][k].node])]
                             /\ \A m \in Name : new.children[i][m] =
                                  IF children[o][m] = Nil THEN NoIno
                                  ELSE ino[children[o][m]]
  BY <1>1
<1>2. /\ TypeOK /\ TreeOK /\ RestoredOK /\ PartOK
      /\ fed = {Record(o) : o \in Table}
  BY FedRecords
<1>3. \A i \in new.nodes : i \in Ino /\ nodes[i] # Nil
                           /\ (i \in new.dirs) = (nodes[i] \in dirs)
  BY <1>2 DEF PartOK, TypeOK
<1>4. ASSUME NEW i \in Ino, nodes[i] # Nil
      PROVE  /\ nodes[i] \in Table /\ nodes[i] \in Obj /\ nodes[i] \in alloc
             /\ InTable(nodes[i]) /\ ino[nodes[i]] = i
             /\ Record(nodes[i]) \in fed /\ Record(nodes[i]).ino = i
             /\ Record(nodes[i]).count = lookupCount[nodes[i]]
  BY <1>2, <1>4, TableType, RecordParts
<1>5. new.nodes = {i \in Ino : nodes[i] # Nil}
  <2>1. new.nodes = {r.ino : r \in fed} \cup UNION {ParentsOf(r) : r \in fed}
    BY <1>2 DEF RestoredOK
  <2>2. \A r \in fed : r.ino \in new.nodes
    BY <2>1
  <2>3. ASSUME NEW i \in Ino, nodes[i] # Nil PROVE i \in new.nodes
    <3>1. Record(nodes[i]) \in fed /\ Record(nodes[i]).ino = i
      BY <1>4, <2>3
    <3>2. QED
      BY <2>2, <3>1
  <2>4. QED
    BY <1>3, <2>3
<1>6. ASSUME NEW i \in new.nodes
      PROVE  /\ new.count[i] = lookupCount[nodes[i]]
             /\ new.parents[i] = Record(nodes[i]).parents
  <2>1. i \in Ino /\ nodes[i] # Nil
    BY <1>3
  <2>2. /\ nodes[i] \in Table /\ ino[nodes[i]] = i /\ Record(nodes[i]) \in fed
        /\ Record(nodes[i]).ino = i /\ Record(nodes[i]).count = lookupCount[nodes[i]]
    BY <1>4, <2>1
  <2>3. new.count[Record(nodes[i]).ino] = Record(nodes[i]).count
    BY <1>2, <2>2 DEF RestoredOK
  <2>4. new.parents[ino[nodes[i]]] = Record(nodes[i]).parents
    BY <1>2, <2>2 DEF PartOK
  <2>5. QED
    BY <2>2, <2>3, <2>4
<1>7. ASSUME NEW i \in new.nodes, NEW m \in Name
      PROVE  new.children[i][m] = IF children[nodes[i]][m] = Nil THEN NoIno
                                  ELSE ino[children[nodes[i]][m]]
  <2>1. PICK o, c : o = nodes[i] /\ c = children[o][m]
    OBVIOUS
  <2>2. i \in Ino /\ o # Nil /\ o \in alloc /\ InTable(o) /\ ino[o] = i
    BY <1>3, <1>4, <2>1
  <2>3. new.children[i][m] # NoIno => c # Nil /\ new.children[i][m] = ino[c]
    BY <1>2, <2>1, <2>2 DEF PartOK
  <2>4. ASSUME c # Nil PROVE new.children[i][m] # NoIno
    <3>1. InTable(c) /\ \E k \in 1..Len(parents[c]) : parents[c][k] = T!EntryOf(m, o)
      BY <2>1, <2>2, <2>4 DEF Exact
    <3>2. c \in Table /\ c \in Obj
      BY <1>2, <3>1, TableType
    <3>3. PICK k \in 1..Len(parents[c]) : parents[c][k] = T!EntryOf(m, o)
      BY <3>1
    <3>4. PICK r : r = Record(c)
      OBVIOUS
    <3>5. /\ r \in fed /\ k \in 1..Len(r.parents)
          /\ r.parents[k] = T!EntryOf(parents[c][k].name, ino[parents[c][k].node])
      BY <1>2, <3>2, <3>3, <3>4, RecordParts
    <3>6. r.parents[k].node = i /\ r.parents[k].name = m
      BY <2>2, <3>3, <3>5, EntryParts
    <3>7. new.children[r.parents[k].node][r.parents[k].name] # NoIno
      BY <1>2, <3>5 DEF RestoredOK
    <3>8. QED
      BY <3>6, <3>7
  <2>5. QED
    BY <2>1, <2>3, <2>4
<1>8. ASSUME NEW i \in new.nodes
      PROVE  new.parents[i] = [k \in 1..Len(parents[nodes[i]]) |->
               T!EntryOf(parents[nodes[i]][k].name, ino[parents[nodes[i]][k].node])]
  <2>1. PICK o, p : /\ o = nodes[i]
                    /\ p = [k \in 1..Len(parents[o]) |->
                              T!EntryOf(parents[o][k].name, ino[parents[o][k].node])]
    OBVIOUS
  <2>2. Record(o) = [ino |-> ino[o], count |-> lookupCount[o], isDir |-> o \in dirs,
                     parents |-> p]
    BY <2>1, Zenon DEF Record
  <2>3. Record(o).parents = p
    BY <2>2
  <2>4. QED
    BY <1>6, <2>1, <2>3
<1>9. QED
  BY <1>3, <1>5, <1>6, <1>7, <1>8

(* A tree that was quiet and exact when it was dumped comes back the same, *)
(* in whatever order its records were added, and however often each; and   *)
(* AddInode does not panic on the way (dump.go:69-143).                    *)
THEOREM ComesBackSame == Spec => []RestoredSame
BY WhatComesBack, DumpInvariant, PTL

LEMMA NothingDead ==
  ASSUME DumpInv, quiet, Settled, status = "ok", fed = dumped, NEW i \in new.nodes
  PROVE  T!Live(i, new.count, new.children)
<1>1. /\ TypeOK /\ TreeOK /\ RestoredOK
      /\ fed = {Record(o) : o \in Table}
  BY FedRecords
<1>2. /\ new.nodes = {r.ino : r \in fed} \cup UNION {ParentsOf(r) : r \in fed}
      /\ \A r \in fed : new.count[r.ino] = r.count
      /\ \A r \in fed : \A k \in 1..Len(r.parents) :
           new.children[r.parents[k].node][r.parents[k].name] # NoIno
  BY <1>1 DEF RestoredOK
<1>3. fed \subseteq RecordSet
  BY <1>1, TableType, RecordParts
<1>4. CASE \E r \in fed : i \in ParentsOf(r)
  <2>1. PICK r \in fed : i \in ParentsOf(r)
    BY <1>4
  <2>2. PICK k \in 1..Len(r.parents) : i = r.parents[k].node
    BY <2>1 DEF ParentsOf
  <2>3. r.parents[k].name \in Name /\ new.children[i][r.parents[k].name] # NoIno
    BY <1>2, <1>3, <2>1, <2>2, RecordTypes
  <2>4. QED
    BY <2>3 DEF T!Live, Nil, NoIno
<1>5. CASE \E r \in fed : i = r.ino
  <2>1. PICK o \in Table : Record(o) \in fed /\ i = Record(o).ino
    BY <1>1, <1>5
  <2>2. /\ o \in Obj /\ o \in alloc /\ InTable(o) /\ i = ino[o]
        /\ Record(o).count = lookupCount[o]
    BY <1>1, <2>1, TableType, RecordParts
  <2>3. T!Live(o, lookupCount, children)
    BY <2>2 DEF Settled
  <2>4. CASE lookupCount[o] > 0
    <3>1. new.count[i] = lookupCount[o]
      BY <1>2, <2>1, <2>2
    <3>2. QED
      BY <2>4, <3>1 DEF T!Live
  <2>5. CASE \E m \in Name : children[o][m] # Nil
    <3>0. PICK m \in Name : children[o][m] # Nil
      BY <2>5
    <3>1. PICK c : c = children[o][m] /\ c # Nil
      BY <3>0
    <3>2. InTable(c) /\ Contains(parents[c], T!EntryOf(m, o))
      BY <1>1, <2>2, <3>1 DEF Settled, TreeOK
    <3>3. c \in Table /\ c \in Obj
      BY <1>1, <3>2, TableType
    <3>4. PICK k \in 1..Len(parents[c]) : parents[c][k] = T!EntryOf(m, o)
      BY <3>2 DEF Contains
    <3>5. PICK r : r = Record(c)
      OBVIOUS
    <3>6. /\ r \in fed /\ k \in 1..Len(r.parents)
          /\ r.parents[k] = T!EntryOf(parents[c][k].name, ino[parents[c][k].node])
      BY <1>1, <3>3, <3>4, <3>5, RecordParts
    <3>7. r.parents[k].node = i /\ r.parents[k].name = m
      BY <2>2, <3>4, <3>6, EntryParts
    <3>8. new.children[i][m] # NoIno
      BY <1>2, <3>6, <3>7
    <3>9. QED
      BY <3>1, <3>8 DEF T!Live, Nil, NoIno
  <2>6. QED
    BY <2>3, <2>4, <2>5 DEF T!Live
<1>6. QED
  BY <1>2, <1>4, <1>5

LEMMA NewIsSound == DumpInv => RestoredSound
<1> SUFFICES ASSUME DumpInv PROVE RestoredSound
  OBVIOUS
<1>1. new.nodes \subseteq Ino
  BY DEF DumpInv, TypeOK
<1>2. ASSUME NEW d \in new.nodes, NEW m \in Name, new.children[d][m] # NoIno
      PROVE  LET c == new.children[d][m]
             IN  c \in new.nodes /\ \E k \in 1..Len(new.parents[c]) :
                                      new.parents[c][k] = T!EntryOf(m, d)
  <2>1. PICK c : c = new.children[d][m]
    OBVIOUS
  <2>2. c \in new.nodes /\ Contains(new.parents[c], T!EntryOf(m, d))
    BY <1>1, <1>2, <2>1 DEF DumpInv, RestoredOK
  <2>3. QED
    BY <2>1, <2>2 DEF Contains
<1>3. ASSUME quiet, Settled, status = "ok", fed = dumped
      PROVE  \A i \in new.nodes : T!Live(i, new.count, new.children)
  BY <1>3, NothingDead
<1>4. QED
  BY <1>2, <1>3 DEF RestoredSound

(* Whatever was lost, repeated or out of date in the dump: an entry of the *)
(* restored tree is known to the inode it leads to, and nothing dead is in *)
(* a table that everything settled was restored to.                        *)
THEOREM ComesBackSound == Spec => []RestoredSound
BY NewIsSound, DumpInvariant, PTL
=============================================================================
