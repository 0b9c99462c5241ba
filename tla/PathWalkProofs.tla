--------------------------- MODULE PathWalkProofs ---------------------------
(* Proofs about PathWalk: every parent that an inode remembers is a place  *)
(* where the file system has it, and every path is one of names.           *)
EXTENDS PathWalk, TLAPS, FiniteSetTheorems, WellFoundedInduction

USE TreeAssumption, EnvironmentAssumption

-----------------------------------------------------------------------------
(* Sequences of parents.                                                   *)

In(e, s) == \E k \in 1..Len(s) : s[k] = e
Distinct(s) == \A j, k \in 1..Len(s) : s[j] = s[k] => j = k

LEMMA InSeq == ASSUME NEW S, NEW s \in Seq(S), NEW e, In(e, s) PROVE e \in S
BY DEF In

(* Without takes one element out and keeps the rest.                       *)
LEMMA WithoutSeq ==
  ASSUME NEW S, NEW s \in Seq(S), Distinct(s), NEW e
  PROVE  /\ Without(s, e) \in Seq(S) /\ Distinct(Without(s, e))
         /\ \A x : In(x, Without(s, e)) <=> In(x, s) /\ x # e
<1>0. DOMAIN s = 1..Len(s) /\ Len(s) \in Nat
  OBVIOUS
<1>1. CASE \A k \in DOMAIN s : s[k] # e
  BY <1>0, <1>1 DEF Without, In
<1>2. CASE \E k \in DOMAIN s : s[k] = e
  <2>1. PICK p : p = PlaceOf(s, e)
    OBVIOUS
  <2>2. p \in 1..Len(s) /\ s[p] = e
    BY <1>0, <1>2, <2>1 DEF PlaceOf
  <2>3. PICK u : u = [k \in 1..Len(s) - 1 |-> IF k < p THEN s[k] ELSE s[k + 1]]
    OBVIOUS
  <2>4. Without(s, e) = u
    BY <1>2, <2>1, <2>3 DEF Without
  <2>5. Len(s) - 1 \in Nat /\ \A k \in 1..Len(s) - 1 : s[k] \in S /\ s[k + 1] \in S
    BY <1>0, <2>2
  <2>6. u \in Seq(S) /\ Len(u) = Len(s) - 1
    BY <2>3, <2>5
  <2>7. \A k \in 1..Len(u) : u[k] = IF k < p THEN s[k] ELSE s[k + 1]
    BY <2>3, <2>6
  <2>8. \A k \in 1..Len(u) :
          \E j \in 1..Len(s) : u[k] = s[j] /\ j # p /\ k = IF j < p THEN j ELSE j - 1
    <3>1. ASSUME NEW k \in 1..Len(u), k < p
          PROVE  k \in 1..Len(s) /\ u[k] = s[k] /\ k # p
      BY <1>0, <2>2, <2>6, <2>7, <3>1, SMTT(20)
    <3>2. ASSUME NEW k \in 1..Len(u), ~(k < p)
          PROVE  /\ k + 1 \in 1..Len(s) /\ u[k] = s[k + 1] /\ k + 1 # p
                 /\ ~(k + 1 < p) /\ k = (k + 1) - 1
      BY <1>0, <2>2, <2>6, <2>7, <3>2
    <3>3. QED
      BY <3>1, <3>2
  <2>9. \A j \in 1..Len(s) : j # p => In(s[j], u)
    <3>1. ASSUME NEW j \in 1..Len(s), j < p PROVE j \in 1..Len(u) /\ u[j] = s[j]
      BY <1>0, <2>2, <2>6, <2>7, <3>1
    <3>2. ASSUME NEW j \in 1..Len(s), p < j PROVE j - 1 \in 1..Len(u) /\ u[j - 1] = s[j]
      BY <1>0, <2>2, <2>6, <2>7, <3>2
    <3>3. QED
      BY <2>2, <3>1, <3>2 DEF In
  <2>10. \A j \in 1..Len(s) : s[j] = e => j = p
    BY <2>2 DEF Distinct
  <2>11. Distinct(u)
    <3> SUFFICES ASSUME NEW j \in 1..Len(u), NEW k \in 1..Len(u), u[j] = u[k] PROVE j = k
      BY DEF Distinct
    <3>1. PICK a \in 1..Len(s) : u[j] = s[a] /\ j = IF a < p THEN a ELSE a - 1
      BY <2>8
    <3>2. PICK b \in 1..Len(s) : u[k] = s[b] /\ k = IF b < p THEN b ELSE b - 1
      BY <2>8
    <3>3. a = b
      BY <3>1, <3>2 DEF Distinct
    <3>4. QED
      BY <3>1, <3>2, <3>3
  <2>12. \A x : In(x, u) <=> In(x, s) /\ x # e
    <3>1. ASSUME NEW x, In(x, u) PROVE In(x, s) /\ x # e
      BY <2>8, <2>10, <3>1 DEF In
    <3>2. ASSUME NEW x, In(x, s), x # e PROVE In(x, u)
      BY <2>2, <2>9, <3>2 DEF In
    <3>3. QED
      BY <3>1, <3>2
  <2>13. QED
    BY <2>4, <2>6, <2>11, <2>12
<1>3. QED
  BY <1>1, <1>2

(* AddParent puts one in, at the end.                                      *)
LEMMA AddSeq ==
  ASSUME NEW S, NEW s \in Seq(S), Distinct(s), NEW e \in S
  PROVE  /\ AddParent(s, e) \in Seq(S) /\ Distinct(AddParent(s, e))
         /\ \A x : In(x, AddParent(s, e)) <=> In(x, s) \/ x = e
<1>1. PICK w : w = Without(s, e)
  OBVIOUS
<1>2. w \in Seq(S) /\ Distinct(w) /\ \A x : In(x, w) <=> In(x, s) /\ x # e
  BY <1>1, WithoutSeq
<1>3. PICK u : u = Append(w, e)
  OBVIOUS
<1>4. /\ u \in Seq(S) /\ Len(u) = Len(w) + 1 /\ Len(w) \in Nat
      /\ u[Len(w) + 1] = e /\ \A k \in 1..Len(w) : u[k] = w[k]
  BY <1>2, <1>3
<1>5. \A k : k \in 1..Len(u) <=> k \in 1..Len(w) \/ k = Len(w) + 1
  BY <1>4
<1>6. \A x : In(x, u) <=> In(x, w) \/ x = e
  BY <1>4, <1>5 DEF In
<1>7. Distinct(u)
  <2>1. \A k \in 1..Len(w) : w[k] # e
    BY <1>2 DEF In
  <2>2. \A j, k \in 1..Len(w) : u[j] = u[k] => j = k
    BY <1>2, <1>4 DEF Distinct
  <2>3. \A k \in 1..Len(w) : u[k] # u[Len(w) + 1]
    BY <1>4, <2>1
  <2>4. QED
    BY <1>5, <2>2, <2>3 DEF Distinct
<1>8. AddParent(s, e) = u
  BY <1>1, <1>3 DEF AddParent
<1>9. QED
  BY <1>2, <1>4, <1>6, <1>7, <1>8

(* get answers with one of them, if there is any.                          *)
LEMMA NewestIn ==
  ASSUME NEW S, NEW s \in Seq(S), s # NoParents
  PROVE  Newest(s) \in S
<1>1. Len(s) \in 1..Len(s)
  BY DEF NoParents
<1>2. QED
  BY <1>1 DEF Newest

-----------------------------------------------------------------------------
(* Reach, name by name.                                                    *)

(* Every set of natural numbers has a least one: what an induction over    *)
(* the length of a path needs.                                             *)
LEMMA LeastNat ==
  ASSUME NEW S \in SUBSET Nat, S # {}
  PROVE  \E n \in S : \A m \in S : n <= m
<1> DEFINE R == {ss \in Nat \X Nat : ss[1] < ss[2]}
<1>1. IsWellFoundedOn(R, Nat)
  BY NatLessThanWellFounded, Zenon DEF OpToRel
<1> HIDE DEF R
<1>2. PICK n \in S : \A m \in S : ~ (<<m, n>> \in R)
  BY <1>1, WFMin
<1>3. \A m \in S : ~(m < n)
  BY <1>2 DEF R
<1>4. QED
  BY <1>3

(* at is where the first k names of p lead in F from i, for each k up to n. *)
Leads(F, i, p, n, at) ==
  at = [k \in 0..n |-> IF k = 0 THEN i ELSE NextIn(F, at[k - 1], p[k])]

(* There is such a function for each path, and Reach takes it.             *)
LEMMA LeadsExists ==
  ASSUME NEW F, NEW i, NEW S, NEW p \in Seq(S), NEW n \in 0..Len(p)
  PROVE  \E at : Leads(F, i, p, n, at)
<1> DEFINE Bad == {k \in 0..Len(p) : ~ \E at : Leads(F, i, p, k, at)}
<1> SUFFICES ASSUME Bad # {} PROVE FALSE
  OBVIOUS
<1>1. Bad \subseteq Nat
  OBVIOUS
<1>2. PICK k \in Bad : \A m \in Bad : k <= m
  BY <1>1, LeastNat
<1>3. k # 0
  <2>1. Leads(F, i, p, 0, [j \in 0..0 |-> i])
    BY DEF Leads
  <2>2. QED
    BY <2>1
<1>4. k - 1 \in 0..Len(p) /\ k - 1 \notin Bad /\ k \in Nat
  <2>1. k \in 0..Len(p) /\ k \in Nat /\ Len(p) \in Nat
    OBVIOUS
  <2>2. k - 1 \in 0..Len(p)
    BY <1>3, <2>1
  <2>3. k - 1 \notin Bad
    <3> HIDE DEF Bad
    <3>1. QED
      BY <1>2, <2>1
  <2>4. QED
    BY <2>1, <2>2, <2>3
<1>5. PICK at : Leads(F, i, p, k - 1, at)
  BY <1>4
<1> DEFINE to == [j \in 0..k |-> IF j = k THEN NextIn(F, at[k - 1], p[k]) ELSE at[j]]
<1>6. Leads(F, i, p, k, to)
  <2> SUFFICES ASSUME NEW j \in 0..k
               PROVE  to[j] = IF j = 0 THEN i ELSE NextIn(F, to[j - 1], p[j])
    BY DEF Leads
  <2>1. CASE j = k
    <3>1. to[k] = NextIn(F, at[k - 1], p[k]) /\ to[k - 1] = at[k - 1]
      BY <1>3, <1>4
    <3>2. QED
      BY <1>3, <2>1, <3>1
  <2>2. CASE j # k /\ j # 0
    <3>1. j \in 0..k - 1 /\ j - 1 \in 0..k - 1 /\ to[j] = at[j] /\ to[j - 1] = at[j - 1]
      BY <1>3, <1>4, <2>2
    <3>2. at[j] = NextIn(F, at[j - 1], p[j])
      BY <1>5, <2>2, <3>1 DEF Leads
    <3>3. QED
      BY <2>2, <3>1, <3>2
  <2>3. CASE j # k /\ j = 0
    <3>1. 0 \in 0..k - 1 /\ to[0] = at[0]
      BY <1>3, <1>4, <2>3
    <3>2. at[0] = i
      BY <1>5, <3>1 DEF Leads
    <3>3. QED
      BY <2>3, <3>1, <3>2
  <2>4. QED
    BY <2>1, <2>2, <2>3
<1>7. QED
  BY <1>2, <1>6

LEMMA ReachLeads ==
  ASSUME NEW F, NEW i, NEW S, NEW p \in Seq(S)
  PROVE  \E at : Leads(F, i, p, Len(p), at) /\ Reach(F, i, p) = at[Len(p)]
<1> DEFINE Rec(at) == at = [k \in 0..Len(p) |->
             IF k = 0 THEN i
             ELSE NextIn(F, at[k - 1], p[k])]
           at == CHOOSE at : Rec(at)
<1>1. \E a : Leads(F, i, p, Len(p), a)
  <2>1. PICK n \in 0..Len(p) : n = Len(p)
    OBVIOUS
  <2>2. \E a : Leads(F, i, p, n, a)
    BY LeadsExists
  <2>3. QED
    BY <2>1, <2>2
<1>2. \A a : Leads(F, i, p, Len(p), a) <=> Rec(a)
  BY DEF Leads
<1>3. Rec(at)
  BY <1>1, <1>2
<1>4. Reach(F, i, p) = at[Len(p)]
  BY DEF Reach
<1>5. QED
  BY <1>2, <1>3, <1>4

(* It takes any of them: they agree as far as their paths do.              *)
LEMMA LeadsSame ==
  ASSUME NEW F, NEW i, NEW p, NEW q, NEW n \in Nat, NEW l \in Nat, NEW a, NEW b, n <= l,
         \A k \in 1..n : p[k] = q[k], Leads(F, i, p, n, a), Leads(F, i, q, l, b)
  PROVE  a[n] = b[n]
<1> DEFINE Bad == {k \in 0..n : a[k] # b[k]}
<1> SUFFICES ASSUME Bad # {} PROVE FALSE
  OBVIOUS
<1>1. Bad \subseteq Nat
  OBVIOUS
<1>2. PICK k \in Bad : \A m \in Bad : k <= m
  BY <1>1, LeastNat
<1>3. k \in 0..n /\ k \in 0..l /\ k \in Nat /\ a[k] # b[k]
  OBVIOUS
<1>4. \A j \in 0..n : j \notin Bad => a[j] = b[j]
  OBVIOUS
<1> HIDE DEF Bad
<1>5. k # 0
  <2>1. 0 \in 0..n /\ 0 \in 0..l
    OBVIOUS
  <2>2. a[0] = i /\ b[0] = i
    BY <2>1 DEF Leads
  <2>3. QED
    BY <1>3, <2>2
<1>6. k - 1 \in 0..n /\ k \in 1..n /\ ~(k <= k - 1)
  BY <1>3, <1>5
<1>7. a[k - 1] = b[k - 1] /\ p[k] = q[k]
  BY <1>2, <1>4, <1>6
<1>8. a[k] = NextIn(F, a[k - 1], p[k])
  BY <1>3, <1>5 DEF Leads
<1>9. b[k] = NextIn(F, b[k - 1], q[k])
  BY <1>3, <1>5 DEF Leads
<1>10. QED
  BY <1>3, <1>7, <1>8, <1>9

LEMMA ReachStep ==
  ASSUME NEW F, NEW i, NEW S, NEW p \in Seq(S), NEW m \in S
  PROVE  Reach(F, i, Append(p, m)) = NextIn(F, Reach(F, i, p), m)
<1>1. PICK q : q = Append(p, m)
  OBVIOUS
<1>2. /\ q \in Seq(S) /\ Len(p) \in Nat /\ Len(q) = Len(p) + 1
      /\ q[Len(p) + 1] = m /\ \A k \in 1..Len(p) : p[k] = q[k]
  BY <1>1
<1>3. PICK a : Leads(F, i, p, Len(p), a) /\ Reach(F, i, p) = a[Len(p)]
  BY ReachLeads
<1>4. PICK b : Leads(F, i, q, Len(q), b) /\ Reach(F, i, q) = b[Len(q)]
  BY <1>2, ReachLeads
<1>5. a[Len(p)] = b[Len(p)]
  <2>1. /\ Len(p) \in Nat /\ Len(q) \in Nat /\ Len(p) <= Len(q)
        /\ \A k \in 1..Len(p) : p[k] = q[k]
    BY <1>2
  <2>2. PICK n \in Nat, l \in Nat : n = Len(p) /\ l = Len(q)
    BY <2>1
  <2>3. n <= l /\ (\A k \in 1..n : p[k] = q[k]) /\ Leads(F, i, p, n, a) /\ Leads(F, i, q, l, b)
    BY <1>3, <1>4, <2>1, <2>2
  <2>4. a[n] = b[n]
    BY <2>3, LeadsSame
  <2>5. QED
    BY <2>2, <2>4
<1>6. b[Len(q)] = NextIn(F, b[Len(p)], m)
  <2>1. Len(q) \in 0..Len(q) /\ Len(q) # 0 /\ Len(q) - 1 = Len(p) /\ q[Len(q)] = m
    BY <1>2
  <2>2. b[Len(q)] = NextIn(F, b[Len(q) - 1], q[Len(q)])
    BY <1>4, <2>1 DEF Leads
  <2>3. QED
    BY <2>1, <2>2
<1>7. QED
  BY <1>1, <1>3, <1>4, <1>5, <1>6

LEMMA ResolveStep ==
  ASSUME NEW S, NEW p \in Seq(S), NEW m \in S
  PROVE  Resolve(Append(p, m)) = NextIn(fs, Resolve(p), m)
BY ReachStep DEF Resolve

(* The path of no names, and the path that starts with one more.           *)
LEMMA ReachEmpty ==
  ASSUME NEW F, NEW i PROVE Reach(F, i, <<>>) = i
<1>1. <<>> \in Seq(Name) /\ Len(<<>>) = 0
  OBVIOUS
<1>2. PICK p \in Seq(Name) : p = <<>>
  BY <1>1
<1>3. PICK a : Leads(F, i, p, Len(p), a) /\ Reach(F, i, p) = a[Len(p)]
  BY ReachLeads
<1>4. a[0] = i
  <2>1. 0 \in 0..Len(p)
    BY <1>1, <1>2
  <2>2. QED
    BY <1>3, <2>1 DEF Leads
<1>5. QED
  BY <1>1, <1>2, <1>3, <1>4

LEMMA ReachHead ==
  ASSUME NEW F, NEW i, NEW S, NEW s \in Seq(S), NEW m \in S
  PROVE  Reach(F, i, <<m>> \o s) = Reach(F, NextIn(F, i, m), s)
<1>1. PICK q : q = <<m>> \o s
  OBVIOUS
<1>2. PICK n : n = Len(s)
  OBVIOUS
<1>3. /\ q \in Seq(S) /\ n \in Nat /\ Len(q) = n + 1 /\ q[1] = m
      /\ \A k \in 1..n : q[k + 1] = s[k]
  BY <1>1, <1>2
<1>4. PICK i1 : i1 = NextIn(F, i, m)
  OBVIOUS
<1>5. PICK a : Leads(F, i1, s, Len(s), a) /\ Reach(F, i1, s) = a[Len(s)]
  BY ReachLeads
<1>6. PICK b : Leads(F, i, q, Len(q), b) /\ Reach(F, i, q) = b[Len(q)]
  BY <1>3, ReachLeads
<1>7. /\ a[0] = i1 /\ b[0] = i
      /\ \A k \in 1..n : a[k] = NextIn(F, a[k - 1], s[k])
      /\ \A k \in 1..n + 1 : b[k] = NextIn(F, b[k - 1], q[k])
  <2>1. \A k \in 0..n : a[k] = IF k = 0 THEN i1 ELSE NextIn(F, a[k - 1], s[k])
    BY <1>2, <1>5 DEF Leads
  <2>2. \A k \in 0..n + 1 : b[k] = IF k = 0 THEN i ELSE NextIn(F, b[k - 1], q[k])
    BY <1>3, <1>6 DEF Leads
  <2>3. n \in Nat
    BY <1>3
  <2>4. QED
    BY <2>1, <2>2, <2>3
<1> DEFINE Bad == {k \in 0..n : b[k + 1] # a[k]}
<1>8. Bad = {}
  <2> SUFFICES ASSUME Bad # {} PROVE FALSE
    OBVIOUS
  <2>1. Bad \subseteq Nat
    BY <1>3
  <2>2. PICK k \in Bad : \A j \in Bad : k <= j
    BY <2>1, LeastNat
  <2>3. k \in 0..n /\ k \in Nat /\ b[k + 1] # a[k] /\ n \in Nat
    BY <1>3
  <2>4. \A j \in 0..n : j \notin Bad => b[j + 1] = a[j]
    OBVIOUS
  <2> HIDE DEF Bad
  <2>5. k # 0
    <3>1. 1 \in 1..n + 1 /\ 1 - 1 = 0 /\ 0 + 1 = 1
      BY <2>3
    <3>2. b[1] = NextIn(F, b[0], q[1])
      BY <1>7, <3>1
    <3>3. b[1] = i1
      BY <1>3, <1>4, <1>7, <3>2
    <3>4. QED
      BY <1>7, <2>3, <3>1, <3>3
  <2>6. /\ k - 1 \in 0..n /\ k \in 1..n /\ ~(k <= k - 1) /\ k + 1 \in 1..n + 1
        /\ (k + 1) - 1 = k /\ (k - 1) + 1 = k
    BY <2>3, <2>5
  <2>7. k - 1 \notin Bad
    BY <2>2, <2>6
  <2>8. b[k] = a[k - 1]
    BY <2>4, <2>6, <2>7
  <2>9. b[k + 1] = NextIn(F, b[k], q[k + 1]) /\ a[k] = NextIn(F, a[k - 1], s[k])
    BY <1>7, <2>6
  <2>10. QED
    BY <1>3, <2>3, <2>6, <2>8, <2>9
<1>9. b[n + 1] = a[n]
  BY <1>3, <1>8
<1>10. QED
  BY <1>1, <1>2, <1>3, <1>4, <1>5, <1>6, <1>9

(* A path that leads somewhere goes on leading there while entries come.   *)
Grows(F, G) == \A d \in DirIno, m \in Name : F[d][m] # NoIno => G[d][m] = F[d][m]

LEMMA ReachGrows ==
  ASSUME NEW F, NEW G, Grows(F, G), NEW i, NEW S, NEW p \in Seq(S), Reach(F, i, p) # NoIno
  PROVE  Reach(G, i, p) = Reach(F, i, p)
<1>1. PICK n : n = Len(p) /\ n \in Nat
  OBVIOUS
<1>2. PICK a : Leads(F, i, p, Len(p), a) /\ Reach(F, i, p) = a[Len(p)]
  BY ReachLeads
<1>3. PICK b : Leads(G, i, p, Len(p), b) /\ Reach(G, i, p) = b[Len(p)]
  BY ReachLeads
<1>4. /\ a[0] = i /\ b[0] = i
      /\ \A k \in 1..n : a[k] = NextIn(F, a[k - 1], p[k]) /\ b[k] = NextIn(G, b[k - 1], p[k])
  <2>1. \A k \in 0..n : a[k] = IF k = 0 THEN i ELSE NextIn(F, a[k - 1], p[k])
    BY <1>1, <1>2 DEF Leads
  <2>2. \A k \in 0..n : b[k] = IF k = 0 THEN i ELSE NextIn(G, b[k - 1], p[k])
    BY <1>1, <1>3 DEF Leads
  <2>3. QED
    BY <1>1, <2>1, <2>2
<1>5. \A d, m : NextIn(F, d, m) # NoIno => NextIn(G, d, m) = NextIn(F, d, m)
  BY DEF NextIn, Grows
<1>6. \A m : NextIn(F, NoIno, m) = NoIno
  BY DEF NextIn, NoIno
(* The places of the path that lead somewhere are its first ones.          *)
<1> DEFINE Odd == {k \in 0..n : a[k] # NoIno /\ b[k] # a[k]}
<1>7. Odd = {}
  <2> SUFFICES ASSUME Odd # {} PROVE FALSE
    OBVIOUS
  <2>1. Odd \subseteq Nat
    BY <1>1
  <2>2. PICK k \in Odd : \A j \in Odd : k <= j
    BY <2>1, LeastNat
  <2>3. k \in 0..n /\ k \in Nat /\ a[k] # NoIno /\ b[k] # a[k]
    BY <1>1
  <2>4. \A j \in 0..n : j \notin Odd => a[j] = NoIno \/ b[j] = a[j]
    OBVIOUS
  <2> HIDE DEF Odd
  <2>5. k # 0
    BY <1>4, <2>3
  <2>6. k - 1 \in 0..n /\ k \in 1..n /\ ~(k <= k - 1)
    BY <1>1, <2>3, <2>5
  <2>7. a[k - 1] = NoIno \/ b[k - 1] = a[k - 1]
    BY <2>2, <2>4, <2>6
  <2>8. a[k] = NextIn(F, a[k - 1], p[k]) /\ b[k] = NextIn(G, b[k - 1], p[k])
    BY <1>4, <2>6
  <2>9. a[k - 1] # NoIno
    BY <1>6, <2>3, <2>8
  <2>10. QED
    BY <1>5, <2>3, <2>7, <2>8, <2>9
<1>8. b[n] = a[n]
  <2>1. n \in 0..n /\ a[n] # NoIno
    BY <1>1, <1>2
  <2>2. QED
    BY <1>7, <2>1
<1>9. QED
  BY <1>1, <1>2, <1>3, <1>8

(* What a path of at least one name leads to has an entry.                 *)
LEMMA ReachLast ==
  ASSUME NEW F, NEW i, NEW S, NEW p \in Seq(S), Reach(F, i, p) # NoIno
  PROVE  Reach(F, i, p) = i \/ \E d \in DirIno, m \in Name : F[d][m] = Reach(F, i, p)
<1>1. PICK n : n = Len(p) /\ n \in Nat
  OBVIOUS
<1>2. PICK a : Leads(F, i, p, Len(p), a) /\ Reach(F, i, p) = a[Len(p)]
  BY ReachLeads
<1>3. a[n] = IF n = 0 THEN i ELSE NextIn(F, a[n - 1], p[n])
  <2>1. \A k \in 0..n : a[k] = IF k = 0 THEN i ELSE NextIn(F, a[k - 1], p[k])
    BY <1>1, <1>2 DEF Leads
  <2>2. n \in 0..n
    BY <1>1
  <2>3. QED
    BY <2>1, <2>2
<1>4. QED
  BY <1>1, <1>2, <1>3 DEF NextIn

LEMMA ResolveLinked ==
  ASSUME NEW S, NEW p \in Seq(S), Resolve(p) # NoIno PROVE IsLinked(Resolve(p))
BY ReachLast DEF Resolve, IsLinked

(* The path that pathOf makes up leads nowhere.                            *)
LEMMA OrphanLost == Orphan \in Seq(Segment) /\ Resolve(Orphan) = NoIno
<1>1. "orphaned" \in Segment /\ "orphaned" \notin Name
  BY DEF Segment
<1>2. <<>> \in Seq(Segment) /\ Orphan = Append(<<>>, "orphaned")
  BY DEF Orphan
<1>3. Orphan \in Seq(Segment)
  BY <1>1 DEF Orphan
<1>4. Resolve(Orphan) = NextIn(fs, Resolve(<<>>), "orphaned")
  BY <1>1, <1>2, ResolveStep
<1>5. QED
  BY <1>1, <1>3, <1>4 DEF NextIn

-----------------------------------------------------------------------------
(* Frames.                                                                 *)

(* What of a frame the locks of the kernel depend on.                      *)
Same(f, g) == g.op = f.op /\ g.objs = f.objs /\ g.locks = f.locks

LEMMA CompatibleKept ==
  ASSUME NEW f, NEW g, NEW f1, NEW g1, Compatible(f, g),
         f1 = IdleFrame \/ Same(f, f1), g1 = IdleFrame \/ Same(g, g1)
  PROVE  Compatible(f1, g1)
<1>1. IdleFrame.op = "none" /\ IdleFrame.locks = {}
  BY DEF IdleFrame
<1>2. Shared(IdleFrame) = {} /\ ~Across(IdleFrame)
  BY <1>1 DEF Shared, Across
<1>3. ASSUME NEW h, NEW h1, Same(h, h1)
      PROVE  h1.locks = h.locks /\ Shared(h1) = Shared(h) /\ (Across(h1) <=> Across(h))
  BY <1>3 DEF Same, Shared, Across, Dir, LastOf
<1>4. f1.locks \subseteq f.locks /\ Shared(f1) \subseteq Shared(f) /\ (Across(f1) => Across(f))
  BY <1>1, <1>2, <1>3
<1>5. g1.locks \subseteq g.locks /\ Shared(g1) \subseteq Shared(g) /\ (Across(g1) => Across(g))
  BY <1>1, <1>2, <1>3
<1>6. QED
  BY <1>4, <1>5 DEF Compatible

LEMMA RaceKept ==
  ASSUME NEW f, NEW g, NEW f1, NEW g1, Race(f1, g1),
         f1 = IdleFrame \/ Same(f, f1), g1 = IdleFrame \/ Same(g, g1)
  PROVE  Race(f, g)
<1>1. IdleFrame.op = "none" /\ IdleFrame.locks = {}
  BY DEF IdleFrame
<1>2. QED
  BY <1>1 DEF Race, Same, Dir, LastOf

LEMMA CompatibleSym ==
  ASSUME NEW f, NEW g, Compatible(f, g) PROVE Compatible(g, f)
BY DEF Compatible

LEMMA FrameGrows ==
  ASSUME NEW A, NEW B, A \subseteq B, NEW l, NEW f, FrameOK(A, l, f)
  PROVE  FrameOK(B, l, f)
<1>1. Seq(A) \subseteq Seq(B)
  OBVIOUS
<1>2. f.objs \in Seq(B) /\ f.at \in B \cup {Nil}
  BY <1>1 DEF FrameOK
<1>3. QED
  BY <1>2 DEF FrameOK

(* A step that gives each goroutine a frame fit for where it is, with the  *)
(* locks it had or none.                                                   *)
LEMMA FramesKept ==
  ASSUME FramesOK, pc' \in [Thread -> Label], DOMAIN fr' = Thread,
         DOMAIN handle' = DOMAIN NoHandle, handle'.path \in Seq(Segment),
         \A u \in Thread : FrameOK(alloc', pc'[u], fr'[u]),
         \A u \in Thread : fr'[u] = IdleFrame \/ Same(fr[u], fr'[u]),
         blame' = {} => blame = {}
  PROVE  FramesOK'
<1>1. ASSUME NEW u \in Thread, NEW v \in Thread, u # v
      PROVE  Compatible(fr'[u], fr'[v])
  <2>1. PICK f, g, f1, g1 : f = fr[u] /\ g = fr[v] /\ f1 = fr'[u] /\ g1 = fr'[v]
    OBVIOUS
  <2>2. Compatible(f, g)
    BY <1>1, <2>1 DEF FramesOK
  <2>3. (f1 = IdleFrame \/ Same(f, f1)) /\ (g1 = IdleFrame \/ Same(g, g1))
    BY <2>1
  <2>4. Compatible(f1, g1)
    BY <2>2, <2>3, CompatibleKept
  <2>5. QED
    BY <2>1, <2>4
<1>2. ASSUME blame' = {}, NEW u \in Thread, NEW v \in Thread, u # v
      PROVE  ~Race(fr'[u], fr'[v])
  <2>1. PICK f, g, f1, g1 : f = fr[u] /\ g = fr[v] /\ f1 = fr'[u] /\ g1 = fr'[v]
    OBVIOUS
  <2>2. ~Race(f, g)
    BY <1>2, <2>1 DEF FramesOK
  <2>3. (f1 = IdleFrame \/ Same(f, f1)) /\ (g1 = IdleFrame \/ Same(g, g1))
    BY <2>1
  <2>4. ~Race(f1, g1)
    BY <2>2, <2>3, RaceKept
  <2>5. QED
    BY <2>1, <2>4
<1>3. QED
  BY <1>1, <1>2 DEF FramesOK

(* A step of one goroutine that leaves the tree and the handle alone.      *)
LEMMA FramesGo ==
  ASSUME FramesOK, NEW t \in Thread, NEW l \in Label, NEW g,
         pc' = [pc EXCEPT ![t] = l], fr' = [fr EXCEPT ![t] = g],
         FrameOK(alloc, l, g), g = IdleFrame \/ Same(fr[t], g),
         alloc' = alloc, handle' = handle, blame' = {} => blame = {}
  PROVE  FramesOK'
<1>1. pc \in [Thread -> Label] /\ DOMAIN fr = Thread
  BY DEF FramesOK
<1>2. pc' \in [Thread -> Label] /\ DOMAIN fr' = Thread
  BY <1>1
<1>3. pc'[t] = l /\ fr'[t] = g
  BY <1>1
<1>4. \A u \in Thread \ {t} : pc'[u] = pc[u] /\ fr'[u] = fr[u]
  BY <1>1
<1>5. \A u \in Thread : FrameOK(alloc', pc'[u], fr'[u])
  BY <1>3, <1>4 DEF FramesOK
<1>6. \A u \in Thread : fr'[u] = IdleFrame \/ Same(fr[u], fr'[u])
  BY <1>3, <1>4 DEF Same
<1>7. DOMAIN handle' = DOMAIN NoHandle /\ handle'.path \in Seq(Segment)
  BY DEF FramesOK
<1>8. QED
  BY <1>2, <1>5, <1>6, <1>7, FramesKept

LEMMA IdleFits == ASSUME NEW A PROVE FrameOK(A, "idle", IdleFrame)
<1>1. DOMAIN IdleFrame = DOMAIN IdleFrame /\ IdleFrame.op \in OpsAt("idle")
  BY DEF IdleFrame, OpsAt
<1>2. /\ IdleFrame.objs = <<>> /\ IdleFrame.names = <<>> /\ IdleFrame.paths = <<>>
      /\ IdleFrame.segs = <<>> /\ IdleFrame.at = Nil /\ IdleFrame.todo = {}
      /\ IdleFrame.cino = NoIno /\ IdleFrame.op = "none"
  BY DEF IdleFrame
<1>3. QED
  BY <1>1, <1>2 DEF FrameOK, EntryOps, Changes

(* The domain of a frame, its fields one by one.                           *)
Fields == {"op", "objs", "names", "paths", "at", "segs", "todo", "cino", "locks", "calm",
           "seen", "moved"}

LEMMA FrameDomain == DOMAIN IdleFrame = Fields
BY DEF IdleFrame, Fields

LEMMA HopFits ==
  ASSUME NEW A, NEW f, FrameOK(A, "walk", f), NEW a \in A \cup {Nil}, NEW s \in Seq(Segment),
         NEW g, g = [f EXCEPT !.at = a, !.segs = s]
  PROVE  FrameOK(A, "walk", g) /\ Same(f, g)
<1>1. DOMAIN f = Fields
  BY FrameDomain DEF FrameOK
<1>2. /\ DOMAIN g = Fields /\ g.at = a /\ g.segs = s /\ g.op = f.op /\ g.objs = f.objs
      /\ g.names = f.names /\ g.paths = f.paths /\ g.todo = f.todo /\ g.cino = f.cino
      /\ g.locks = f.locks
  BY <1>1 DEF Fields
<1>3. Dir(g) = Dir(f)
  BY <1>2 DEF Dir
<1>4. QED
  BY <1>2, <1>3, FrameDomain DEF FrameOK, Same

LEMMA HopFrames ==
  ASSUME TableOK, FramesOK, NEW t \in Thread, Hop(t) PROVE FramesOK'
<1>1. PICK f : f = fr[t]
  OBVIOUS
<1>2. FrameOK(alloc, "walk", f)
  BY <1>1 DEF Hop, FramesOK
<1>3. f.at \notin {RootObj, Nil} /\ f.at \in alloc /\ alloc \subseteq Obj
  BY <1>1, <1>2 DEF Hop, FrameOK, TableOK
<1>4. PICK s : s = parents[f.at]
  OBVIOUS
<1>5. s \in Seq([name : Name, node : alloc])
  BY <1>3, <1>4 DEF TableOK
<1>6. f.segs \in Seq(Segment)
  BY <1>2 DEF FrameOK
<1>7. \E a \in alloc \cup {Nil}, r \in Seq(Segment) :
         Go(t, "walk", [f EXCEPT !.at = a, !.segs = r])
  <2>1. CASE s = NoParents
    <3>1. Go(t, "walk", [f EXCEPT !.at = Nil])
      BY <1>1, <1>4, <2>1 DEF Hop
    <3>2. [f EXCEPT !.at = Nil] = [f EXCEPT !.at = Nil, !.segs = f.segs]
      OBVIOUS
    <3>3. QED
      BY <1>6, <3>1, <3>2
  <2>2. CASE s # NoParents
    <3>1. PICK e : e = Newest(s)
      OBVIOUS
    <3>2. e \in [name : Name, node : alloc]
      BY <1>5, <2>2, <3>1, NewestIn
    <3>3. e.node \in alloc /\ e.name \in Segment
      BY <3>2 DEF Segment
    <3>4. <<e.name>> \o f.segs \in Seq(Segment)
      BY <1>6, <3>3
    <3>5. Go(t, "walk", [f EXCEPT !.at = e.node, !.segs = <<e.name>> \o f.segs])
      BY <1>1, <1>4, <2>2, <3>1 DEF Hop
    <3>6. QED
      BY <3>3, <3>4, <3>5
  <2>3. QED
    BY <2>1, <2>2
<1>8. PICK a \in alloc \cup {Nil}, r \in Seq(Segment) :
        Go(t, "walk", [f EXCEPT !.at = a, !.segs = r])
  BY <1>7
<1>9. PICK g : g = [f EXCEPT !.at = a, !.segs = r]
  OBVIOUS
<1>10. FrameOK(alloc, "walk", g) /\ Same(fr[t], g)
  BY <1>1, <1>2, <1>9, HopFits
<1>11. pc' = [pc EXCEPT ![t] = "walk"] /\ fr' = [fr EXCEPT ![t] = g] /\ "walk" \in Label
  BY <1>8, <1>9 DEF Go, Label
<1>12. QED
  BY <1>10, <1>11, FramesGo DEF Hop, treeVars

(* A walk that ends gives its path to the frame, and the next one begins.  *)
(* The frame g of a request that has found a path: it has them all, or it  *)
(* walks on.                                                               *)
Walked(A, f, g) ==
  /\ Same(f, g) /\ DOMAIN g = Fields
  /\ Len(g.paths) = Len(g.objs) => FrameOK(A, Then(f.op), g) /\ Then(f.op) \in Label
  /\ Len(g.paths) # Len(g.objs) =>
       FrameOK(A, "walk", g) /\ Len(g.paths) + 1 \in 1..Len(g.objs)

LEMMA FoundFits ==
  ASSUME NEW A, NEW f, FrameOK(A, "walk", f), NEW p \in Seq(Segment),
         NEW g, g = [f EXCEPT !.paths = Append(@, p), !.at = Nil, !.segs = <<>>,
                              !.seen = {}, !.moved = 0]
  PROVE  Walked(A, f, g)
<1>1. DOMAIN f = Fields
  BY FrameDomain DEF FrameOK
<1>2. /\ DOMAIN g = Fields /\ g.at = Nil /\ g.segs = <<>> /\ g.op = f.op /\ g.objs = f.objs
      /\ g.names = f.names /\ g.paths = Append(f.paths, p) /\ g.todo = f.todo
      /\ g.cino = f.cino /\ g.locks = f.locks
  BY <1>1 DEF Fields
<1>3. /\ Dir(g) = Dir(f) /\ f.paths \in Seq(Seq(Segment)) /\ f.objs \in Seq(A)
      /\ Len(f.paths) < Len(f.objs)
  BY <1>2 DEF Dir, FrameOK
<1>4. /\ g.paths \in Seq(Seq(Segment)) /\ Len(g.paths) = Len(f.paths) + 1
      /\ Len(g.paths) \in Nat /\ Len(g.objs) \in Nat /\ Len(g.paths) <= Len(g.objs)
  BY <1>2, <1>3
<1>5. f.op \in Adders \cup Changes \cup {"Use", "OpenDir"}
  BY DEF FrameOK, OpsAt
<1>6. g.segs \in Seq(Segment) /\ g.at \in A \cup {Nil}
  BY <1>2
<1>7. ASSUME Len(g.paths) # Len(g.objs)
      PROVE  FrameOK(A, "walk", g) /\ Len(g.paths) + 1 \in 1..Len(g.objs)
  <2>1. Len(g.paths) < Len(g.objs) /\ Len(g.paths) + 1 \in 1..Len(g.objs)
    <3>1. PICK k \in Nat, n \in Nat : k = Len(g.paths) /\ n = Len(g.objs)
      BY <1>4
    <3>2. k <= n /\ k # n
      BY <1>4, <1>7, <3>1
    <3>3. k < n /\ k + 1 \in 1..n
      BY <3>2
    <3>4. QED
      BY <3>1, <3>3
  <2>2. QED
    BY <1>2, <1>3, <1>4, <1>6, <2>1, FrameDomain DEF FrameOK
<1>8. ASSUME Len(g.paths) = Len(g.objs)
      PROVE  FrameOK(A, Then(f.op), g) /\ Then(f.op) \in Label
  <2>1. PICK l : l = Then(f.op)
    OBVIOUS
  <2>2. /\ l \in {"call", "look", "open", "list"} /\ f.op \in OpsAt(l)
        /\ l = "look" => f.op # "ReadPlus"
    BY <1>5, <2>1 DEF Then, OpsAt, Adders, Changes
  <2>3. /\ l # "idle" /\ l # "walk" /\ l # "apply"
        /\ f.op = "ReadPlus" => l # "look"
    BY <2>2
  <2>4. /\ f.names \in Seq(Name) /\ f.todo \subseteq Name /\ f.cino \in Ino \cup {NoIno}
        /\ Len(f.objs) = IF f.op \in {"Rename", "Link"} THEN 2 ELSE 1
        /\ f.op = "Rename" => Len(f.names) = 2
        /\ f.op \in EntryOps \cup {"Link"} => Len(f.names) = 1
        /\ f.op # "ReadPlus" => f.todo = {}
        /\ f.op \in Changes =>
             f.cino = NoIno /\ \A k \in 1..Len(f.names) : f.objs[k] \in f.locks
        /\ f.op \in {"Make", "Link"} => Dir(f) \in f.locks
    BY DEF FrameOK
  <2>5. FrameOK(A, l, g)
    BY <1>2, <1>3, <1>4, <1>6, <1>8, <2>2, <2>3, <2>4, FrameDomain DEF FrameOK
  <2>6. QED
    BY <2>1, <2>2, <2>5 DEF Label
<1>9. QED
  BY <1>2, <1>7, <1>8 DEF Same, Walked

LEMMA BeginFits ==
  ASSUME NEW A, NEW f, FrameOK(A, "walk", f), Len(f.paths) + 1 \in 1..Len(f.objs),
         NEW x, NEW g, g = [f EXCEPT !.at = Target(f), !.seen = x]
  PROVE  FrameOK(A, "walk", g) /\ Same(f, g)
<1>1. DOMAIN f = Fields
  BY FrameDomain DEF FrameOK
<1>2. /\ DOMAIN g = Fields /\ g.at = Target(f) /\ g.segs = f.segs /\ g.op = f.op
      /\ g.objs = f.objs /\ g.names = f.names /\ g.paths = f.paths /\ g.todo = f.todo
      /\ g.cino = f.cino /\ g.locks = f.locks
  BY <1>1 DEF Fields
<1>3. Dir(g) = Dir(f) /\ Target(f) \in A
  BY <1>2 DEF Dir, FrameOK, Target
<1>4. QED
  BY <1>2, <1>3, FrameDomain DEF FrameOK, Same

LEMMA FoundFrames ==
  ASSUME FramesOK, NEW t \in Thread, Found(t) PROVE FramesOK'
<1>1. PICK f : f = fr[t]
  OBVIOUS
<1>2. FrameOK(alloc, "walk", f)
  BY <1>1 DEF Found, FramesOK
<1>3. PICK p : p = IF f.at = RootObj THEN f.segs ELSE Orphan
  OBVIOUS
<1>4. p \in Seq(Segment)
  <2>1. f.segs \in Seq(Segment)
    BY <1>2 DEF FrameOK
  <2>2. PICK w : w = "orphaned"
    OBVIOUS
  <2>3. w \in Segment /\ Orphan = <<w>>
    BY <2>2 DEF Orphan, Segment
  <2>4. QED
    BY <1>3, <2>1, <2>3
<1>5. PICK g : g = [f EXCEPT !.paths = Append(@, p), !.at = Nil, !.segs = <<>>,
                             !.seen = {}, !.moved = 0]
  OBVIOUS
<1>6. /\ Same(f, g) /\ DOMAIN g = Fields
      /\ Len(g.paths) = Len(g.objs) => FrameOK(alloc, Then(f.op), g) /\ Then(f.op) \in Label
      /\ Len(g.paths) # Len(g.objs) =>
           FrameOK(alloc, "walk", g) /\ Len(g.paths) + 1 \in 1..Len(g.objs)
  <2>1. Walked(alloc, f, g)
    BY <1>2, <1>4, <1>5, FoundFits
  <2>2. QED
    BY <2>1 DEF Walked
<1>7. /\ IF Len(g.paths) < Len(g.objs) THEN Go(t, "walk", Begin(g)) ELSE Go(t, Then(f.op), g)
      /\ alloc' = alloc /\ handle' = handle /\ blame' = blame
  BY <1>1, <1>3, <1>5 DEF Found, treeVars
<1>8. \E l \in Label : \E h : FrameOK(alloc, l, h) /\ Same(f, h) /\ Go(t, l, h)
  <2>1. CASE Len(g.paths) # Len(g.objs)
    <3>1. PICK h : h = Begin(g)
      OBVIOUS
    <3>2. FrameOK(alloc, "walk", h) /\ Same(g, h)
      BY <1>6, <2>1, <3>1, BeginFits DEF Begin
    <3>3. Len(g.paths) < Len(g.objs)
      BY <1>6, <2>1
    <3>4. QED
      BY <1>6, <1>7, <3>1, <3>2, <3>3 DEF Same, Label
  <2>2. CASE Len(g.paths) = Len(g.objs)
    <3>1. ~(Len(g.paths) < Len(g.objs))
      <4>1. Len(g.objs) \in Nat
        BY <1>6, <2>2 DEF FrameOK
      <4>2. QED
        BY <2>2, <4>1
    <3>2. QED
      BY <1>6, <1>7, <2>2, <3>1
  <2>3. QED
    BY <2>1, <2>2
<1>9. PICK l, h : l \in Label /\ FrameOK(alloc, l, h) /\ Same(f, h) /\ Go(t, l, h)
  BY <1>8
<1>10. QED
  BY <1>1, <1>7, <1>9, FramesGo DEF Go

LEMMA FinishFrames ==
  ASSUME FramesOK, NEW t \in Thread, Finish(t),
         alloc' = alloc, handle' = handle, blame' = {} => blame = {}
  PROVE  FramesOK'
<1>1. pc' = [pc EXCEPT ![t] = "idle"] /\ fr' = [fr EXCEPT ![t] = IdleFrame] /\ "idle" \in Label
  BY DEF Finish, Go, Label
<1>2. FrameOK(alloc, "idle", IdleFrame)
  BY IdleFits
<1>3. QED
  BY <1>1, <1>2, FramesGo

(* The file system has done what it was asked for: the frame stays.        *)
LEMMA CalledFits ==
  ASSUME NEW A, NEW f, FrameOK(A, "call", f), NEW l \in {"look", "apply"}, f.op \in OpsAt(l)
  PROVE  FrameOK(A, l, f) /\ l \in Label
<1>1. f.op # "ReadPlus"
  BY DEF FrameOK, OpsAt, Changes
<1>2. FrameOK(A, l, f)
  BY <1>1 DEF FrameOK
<1>3. QED
  BY <1>2 DEF Label

LEMMA CalledFrames ==
  ASSUME FramesOK, NEW t \in Thread, pc[t] = "call", NEW l \in {"look", "apply"},
         fr[t].op \in OpsAt(l), Go(t, l, fr[t]),
         alloc' = alloc, handle' = handle, blame' = {} => blame = {}
  PROVE  FramesOK'
<1>1. PICK f : f = fr[t]
  OBVIOUS
<1>2. FrameOK(alloc, "call", f)
  BY <1>1 DEF FramesOK
<1>3. FrameOK(alloc, l, f) /\ l \in Label
  BY <1>1, <1>2, CalledFits
<1>4. pc' = [pc EXCEPT ![t] = l] /\ fr' = [fr EXCEPT ![t] = f] /\ Same(fr[t], f)
  BY <1>1 DEF Go, Same
<1>5. QED
  BY <1>3, <1>4, FramesGo

(* A request goes on to the next entry of a listing, or is done.           *)
After(g) == IF g.op = "none" THEN "idle" ELSE "look"

LEMMA NextFits ==
  ASSUME NEW A, NEW f, NEW l \in {"look", "apply", "list"}, FrameOK(A, l, f),
         NEW g \in Nexts(f)
  PROVE  /\ FrameOK(A, After(g), g) /\ After(g) \in {"idle", "look"}
         /\ g = IdleFrame \/ (Same(f, g) /\ g.op = "ReadPlus" /\ g.cino = NoIno)
<1>1. CASE f.todo = {}
  <2>1. g = IdleFrame /\ g.op = "none"
    BY <1>1 DEF Nexts, IdleFrame
  <2>2. QED
    BY <2>1, IdleFits DEF After
<1>2. CASE f.todo # {}
  <2>1. PICK m \in f.todo : g = NextFrame(f, m)
    BY <1>2 DEF Nexts
  <2>2. DOMAIN f = Fields
    BY FrameDomain DEF FrameOK
  <2>3. g = [f EXCEPT !.names = <<m>>, !.todo = f.todo \ {m}, !.cino = NoIno]
    BY <2>1 DEF NextFrame
  <2>4. /\ DOMAIN g = Fields /\ g.op = f.op /\ g.objs = f.objs /\ g.paths = f.paths
        /\ g.at = f.at /\ g.segs = f.segs /\ g.locks = f.locks
        /\ g.names = <<m>> /\ g.todo = f.todo \ {m} /\ g.cino = NoIno
    BY <2>2, <2>3 DEF Fields
  <2>5. f.op = "ReadPlus" /\ m \in Name /\ f.todo \subseteq Name
    BY <1>2 DEF FrameOK
  <2>6. g.names \in Seq(Name) /\ Len(g.names) = 1
    BY <2>4, <2>5
  <2>7. After(g) = "look" /\ g.op \in OpsAt("look")
    BY <2>4, <2>5 DEF After, OpsAt, Adders
  <2>8. /\ f.objs \in Seq(A) /\ f.paths \in Seq(Seq(Segment)) /\ f.at \in A \cup {Nil}
        /\ f.segs \in Seq(Segment) /\ Len(f.objs) = 1 /\ Len(f.paths) = Len(f.objs)
    BY <2>5 DEF FrameOK
  <2>9. g.op \notin Changes /\ g.op \notin {"Make", "Link", "Rename"} /\ g.op \notin EntryOps
    BY <2>4, <2>5 DEF Changes, EntryOps
  <2>10. FrameOK(A, "look", g)
    BY <2>4, <2>5, <2>6, <2>7, <2>8, <2>9, FrameDomain DEF FrameOK
  <2>11. QED
    BY <2>4, <2>5, <2>7, <2>10 DEF Same
<1>3. QED
  BY <1>1, <1>2

LEMMA NextFrames ==
  ASSUME FramesOK, NEW t \in Thread, NEW f, Same(fr[t], f),
         NEW l \in {"look", "apply", "list"}, FrameOK(alloc, l, f),
         NEW g \in Nexts(f), Go(t, After(g), g),
         alloc' = alloc, handle' = handle, blame' = {} => blame = {}
  PROVE  FramesOK'
<1>1. /\ FrameOK(alloc, After(g), g) /\ After(g) \in {"idle", "look"}
      /\ g = IdleFrame \/ Same(f, g)
  BY NextFits
<1>2. g = IdleFrame \/ Same(fr[t], g)
  BY <1>1 DEF Same
<1>3. pc' = [pc EXCEPT ![t] = After(g)] /\ fr' = [fr EXCEPT ![t] = g] /\ After(g) \in Label
  BY <1>1 DEF Go, Label
<1>4. QED
  BY <1>1, <1>2, <1>3, FramesGo

LEMMA ListFrames ==
  ASSUME TableOK, FramesOK, NEW t \in Thread, List(t) PROVE FramesOK'
<1>1. PICK f, d : f = fr[t] /\ d = Resolve(f.paths[1])
  OBVIOUS
<1>2. FrameOK(alloc, "list", f)
  BY <1>1 DEF List, FramesOK
<1>3. PICK found : found = IF d \in DirIno THEN {m \in Name : fs[d][m] # NoIno} ELSE {}
  OBVIOUS
<1>4. found \subseteq Name
  BY <1>3
<1>5. PICK h : h = [f EXCEPT !.todo = found]
  OBVIOUS
<1>6. FrameOK(alloc, "list", h) /\ Same(f, h)
  <2>1. DOMAIN f = Fields /\ f.op = "ReadPlus"
    BY <1>2, FrameDomain DEF FrameOK, OpsAt
  <2>2. /\ DOMAIN h = Fields /\ h.op = f.op /\ h.objs = f.objs /\ h.names = f.names
        /\ h.paths = f.paths /\ h.at = f.at /\ h.segs = f.segs /\ h.cino = f.cino
        /\ h.locks = f.locks /\ h.todo = found
    BY <1>5, <2>1 DEF Fields
  <2>3. Dir(h) = Dir(f)
    BY <2>2 DEF Dir
  <2>4. FrameOK(alloc, "list", h)
    BY <1>2, <1>4, <2>1, <2>2, <2>3, FrameDomain DEF FrameOK
  <2>5. QED
    BY <2>2, <2>4 DEF Same
<1>7. \E g \in Nexts(h) : Go(t, IF g.op = "none" THEN "idle" ELSE "look", g)
  BY <1>1, <1>3, <1>5 DEF List
<1>8. PICK g \in Nexts(h) : Go(t, After(g), g)
  BY <1>7 DEF After
<1>9. alloc' = alloc /\ handle' = handle /\ (blame' = {} => blame = {})
  BY DEF List, treeVars, Blame
<1>10. QED
  BY <1>1, <1>6, <1>8, <1>9, NextFrames

LEMMA OpenedFrames ==
  ASSUME FramesOK, NEW t \in Thread, Opened(t) PROVE FramesOK'
<1>1. pc' = [pc EXCEPT ![t] = "idle"] /\ fr' = [fr EXCEPT ![t] = IdleFrame]
  BY DEF Opened, Finish, Go
<1>2. pc' \in [Thread -> Label] /\ DOMAIN fr' = Thread
  BY <1>1 DEF FramesOK, Label
<1>3. pc'[t] = "idle" /\ fr'[t] = IdleFrame
  BY <1>1 DEF FramesOK
<1>4. \A u \in Thread \ {t} : pc'[u] = pc[u] /\ fr'[u] = fr[u]
  BY <1>1 DEF FramesOK
<1>5. alloc' = alloc /\ blame' = blame
  BY DEF Opened, treeVars
<1>6. \A u \in Thread : FrameOK(alloc', pc'[u], fr'[u])
  BY <1>3, <1>4, <1>5, IdleFits DEF FramesOK
<1>7. \A u \in Thread : fr'[u] = IdleFrame \/ Same(fr[u], fr'[u])
  BY <1>3, <1>4 DEF Same
<1>8. PICK f : f = fr[t]
  OBVIOUS
<1>9. f.paths[1] \in Seq(Segment)
  <2>1. FrameOK(alloc, "open", f)
    BY <1>8 DEF Opened, FramesOK
  <2>2. f.paths \in Seq(Seq(Segment)) /\ Len(f.paths) = 1
    BY <2>1 DEF FrameOK, OpsAt
  <2>3. QED
    BY <2>2
<1>10. handle' = [node |-> f.objs[1], path |-> f.paths[1], calm |-> f.calm]
  BY <1>8 DEF Opened
<1>11. DOMAIN handle' = DOMAIN NoHandle /\ handle'.path \in Seq(Segment)
  BY <1>9, <1>10 DEF NoHandle
<1>12. QED
  BY <1>2, <1>5, <1>6, <1>7, <1>11, FramesKept

-----------------------------------------------------------------------------
(* What a request learns from the file system.                             *)

(* A call whose path leads somewhere was made of the inode itself.         *)
LEMMA LedDir ==
  ASSUME TableOK, NEW f, Led(f), NEW k \in 1..Len(f.paths),
         Resolve(f.paths[k]) \in DirIno
  PROVE  Resolve(f.paths[k]) = ino[f.objs[k]]
<1>1. Right(f.objs[k], f.paths[k])
  BY DEF Led
<1>2. NoIno \notin DirIno
  BY DEF NoIno
<1>3. QED
  BY <1>1, <1>2 DEF Right

Learns(t, f, i) ==
  /\ Go(t, "apply", [f EXCEPT !.cino = i])
  /\ i # NoIno /\ Led(f) =>
       ino[Dir(f)] \in DirIno /\ fs[ino[Dir(f)]][f.names[1]] = i

LEMMA LookStep ==
  ASSUME TableOK, FramesOK, NEW t \in Thread, Look(t), NEW f, f = fr[t]
  PROVE  \/ \E i \in Ino \cup {NoIno} : Learns(t, f, i)
         \/ \E g \in Nexts(f) : Go(t, After(g), g)
<1>1. FrameOK(alloc, "look", f)
  BY DEF Look, FramesOK
<1>2. PICK p, m : p = LastOf(f.paths) /\ m = f.names[1]
  OBVIOUS
<1>3. /\ f.objs \in Seq(alloc) /\ f.paths \in Seq(Seq(Segment)) /\ f.names \in Seq(Name)
      /\ Len(f.paths) = Len(f.objs) /\ Len(f.objs) \in {1, 2}
  BY <1>1 DEF FrameOK
<1>4. Len(f.names) = 1
  BY <1>1 DEF FrameOK, OpsAt, Adders, EntryOps
<1>5. m \in Name /\ m \in Segment
  BY <1>2, <1>3, <1>4 DEF Segment
<1>6. Len(f.paths) \in 1..Len(f.paths)
  <2>1. PICK n : n = Len(f.paths)
    OBVIOUS
  <2>2. n \in {1, 2}
    BY <1>3, <2>1
  <2>3. n \in 1..n
    BY <2>2
  <2>4. QED
    BY <2>1, <2>3
<1>7. p \in Seq(Segment) /\ p = f.paths[Len(f.paths)] /\ Dir(f) = f.objs[Len(f.paths)]
  BY <1>2, <1>3, <1>6 DEF LastOf, Dir
<1>8. PICK i \in {Resolve(Append(p, m)), NoIno} :
        IF i # NoIno \/ f.op \in {"Lookup", "Revalidate"}
        THEN Go(t, "apply", [f EXCEPT !.cino = i])
        ELSE \E g \in Nexts(f) : Go(t, IF g.op = "none" THEN "idle" ELSE "look", g)
  BY <1>2 DEF Look, Answers
<1>9. i = NoIno \/ i = NextIn(fs, Resolve(p), m)
  BY <1>5, <1>7, <1>8, ResolveStep
<1>10. i \in Ino \cup {NoIno}
  <2>1. PICK d : d = Resolve(p)
    OBVIOUS
  <2>2. d \in DirIno => fs[d][m] \in Ino \cup {NoIno}
    BY <1>5 DEF TableOK
  <2>3. QED
    BY <1>9, <2>1, <2>2 DEF NextIn
<1>11. ASSUME i # NoIno, Led(f)
       PROVE  ino[Dir(f)] \in DirIno /\ fs[ino[Dir(f)]][m] = i
  <2>1. Resolve(p) \in DirIno /\ i = fs[Resolve(p)][m]
    BY <1>9, <1>11 DEF NextIn
  <2>2. Resolve(p) = ino[Dir(f)]
    BY <1>6, <1>7, <1>11, <2>1, LedDir
  <2>3. QED
    BY <2>1, <2>2
<1>12. CASE i # NoIno \/ f.op \in {"Lookup", "Revalidate"}
  BY <1>2, <1>8, <1>10, <1>11, <1>12 DEF Learns
<1>13. CASE ~(i # NoIno \/ f.op \in {"Lookup", "Revalidate"})
  BY <1>8, <1>13 DEF After
<1>14. QED
  BY <1>12, <1>13

LEMMA LookedFits ==
  ASSUME NEW A, NEW f, FrameOK(A, "look", f), NEW i \in Ino \cup {NoIno},
         NEW g, g = [f EXCEPT !.cino = i]
  PROVE  FrameOK(A, "apply", g) /\ Same(f, g) /\ g.cino = i /\ g.names = f.names
<1>1. DOMAIN f = Fields /\ f.op \in Adders /\ f.op \notin Changes
  BY FrameDomain DEF FrameOK, OpsAt, Adders, Changes
<1>2. /\ DOMAIN g = Fields /\ g.op = f.op /\ g.objs = f.objs /\ g.names = f.names
      /\ g.paths = f.paths /\ g.at = f.at /\ g.segs = f.segs /\ g.cino = i
      /\ g.locks = f.locks /\ g.todo = f.todo
  BY <1>1 DEF Fields
<1>3. Dir(g) = Dir(f) /\ g.op \in OpsAt("apply")
  BY <1>1, <1>2 DEF Dir, OpsAt
<1>4. FrameOK(A, "apply", g)
  BY <1>1, <1>2, <1>3, FrameDomain DEF FrameOK
<1>5. QED
  BY <1>2, <1>4 DEF Same

LEMMA LookFrames ==
  ASSUME TableOK, FramesOK, NEW t \in Thread, Look(t) PROVE FramesOK'
<1>1. PICK f : f = fr[t]
  OBVIOUS
<1>2. FrameOK(alloc, "look", f)
  BY <1>1 DEF Look, FramesOK
<1>3. alloc' = alloc /\ handle' = handle /\ (blame' = {} => blame = {})
  BY DEF Look, treeVars, Blame
<1>4. CASE \E i \in Ino \cup {NoIno} : Learns(t, f, i)
  <2>1. PICK i, g : i \in Ino \cup {NoIno} /\ Go(t, "apply", g) /\ g = [f EXCEPT !.cino = i]
    BY <1>4 DEF Learns
  <2>2. FrameOK(alloc, "apply", g) /\ Same(f, g)
    BY <1>2, <2>1, LookedFits
  <2>3. QED
    BY <1>1, <1>3, <2>1, <2>2, FramesGo DEF Go, Label
<1>5. CASE \E g \in Nexts(f) : Go(t, After(g), g)
  <2>1. Same(fr[t], f)
    BY <1>1 DEF Same
  <2>2. QED
    BY <1>2, <1>3, <1>5, <2>1, NextFrames
<1>6. QED
  BY <1>1, <1>4, <1>5, LookStep

-----------------------------------------------------------------------------
(* What the kernel sends.                                                  *)

Kept(f, g) == Same(f, g) /\ g.names = f.names /\ g.cino = f.cino

LEMMA CalmFits ==
  ASSUME NEW A, NEW l, NEW f, NEW g, l # "idle", FrameOK(A, l, f),
         \E x : g = [f EXCEPT !.calm = x]
  PROVE  FrameOK(A, l, g) /\ Kept(f, g)
<1>1. DOMAIN f = Fields
  BY FrameDomain DEF FrameOK
<1>2. /\ DOMAIN g = Fields /\ g.op = f.op /\ g.objs = f.objs /\ g.names = f.names
      /\ g.paths = f.paths /\ g.at = f.at /\ g.segs = f.segs /\ g.cino = f.cino
      /\ g.locks = f.locks /\ g.todo = f.todo
  BY <1>1 DEF Fields
<1>3. Dir(g) = Dir(f)
  BY <1>2 DEF Dir
<1>4. FrameOK(A, l, g)
  BY <1>1, <1>2, <1>3, FrameDomain DEF FrameOK
<1>5. QED
  BY <1>2, <1>4 DEF Kept, Same

(* A request that begins leaves the others what they have, but for calm.   *)
LEMMA SendOthers ==
  ASSUME FramesOK, NEW t \in Thread, NEW l, NEW f, Send(t, l, f), NEW u \in Thread \ {t}
  PROVE  pc'[u] = pc[u] /\ FrameOK(alloc, pc'[u], fr'[u]) /\ Kept(fr[u], fr'[u])
<1>1. pc'[u] = pc[u]
  BY DEF Send, FramesOK
<1>2. PICK g, h : g = fr[u] /\ h = fr'[u]
  OBVIOUS
<1>3. FrameOK(alloc, pc[u], g)
  BY <1>2 DEF FramesOK
<1>4. h = [g EXCEPT !.calm = @ /\ (f.op \in Changes => pc[u] = "idle")]
  BY <1>2 DEF Send
<1>5. CASE pc[u] = "idle"
  <2>1. g = IdleFrame
    BY <1>3, <1>5 DEF FrameOK
  <2>2. IdleFrame.calm = TRUE
    BY DEF IdleFrame
  <2>3. (IdleFrame.calm /\ (f.op \in Changes => pc[u] = "idle")) = TRUE
    BY <1>5, <2>2
  <2>4. h = [IdleFrame EXCEPT !.calm = TRUE]
    BY <1>4, <2>1, <2>3
  <2>5. h = IdleFrame
    BY <2>4 DEF IdleFrame
  <2>6. QED
    BY <1>1, <1>2, <1>3, <2>1, <2>5 DEF Kept, Same
<1>6. CASE pc[u] # "idle"
  <2>1. \E x : h = [g EXCEPT !.calm = x]
    BY <1>4
  <2>2. FrameOK(alloc, pc[u], h) /\ Kept(g, h)
    <3>1. PICK k : k = pc[u]
      OBVIOUS
    <3>2. k # "idle" /\ FrameOK(alloc, k, g)
      BY <1>3, <1>6, <3>1
    <3>3. FrameOK(alloc, k, h) /\ Kept(g, h)
      BY <2>1, <3>2, CalmFits
    <3>4. QED
      BY <3>1, <3>3
  <2>3. QED
    BY <1>1, <1>2, <2>2
<1>7. QED
  BY <1>5, <1>6

LEMMA SendFrames ==
  ASSUME FramesOK, NEW t \in Thread, NEW l \in {"walk", "list"}, NEW f,
         FrameOK(alloc, l, f), Send(t, l, f)
  PROVE  FramesOK'
<1>1. pc' = [pc EXCEPT ![t] = l] /\ pc \in [Thread -> Label] /\ l \in Label /\ l # "idle"
  BY DEF Send, FramesOK, Label
<1>2. pc' \in [Thread -> Label] /\ pc'[t] = l /\ DOMAIN fr' = Thread
  BY <1>1 DEF Send
<1>3. alloc' = alloc
  BY DEF Send, treeVars
<1>4. PICK g : g = fr'[t]
  OBVIOUS
<1>5. \E x : g = [f EXCEPT !.calm = x]
  BY <1>4 DEF Send
<1>6. FrameOK(alloc, l, g) /\ Same(f, g)
  BY <1>1, <1>5, CalmFits DEF Kept
<1>7. \A u \in Thread : FrameOK(alloc', pc'[u], fr'[u])
  BY <1>2, <1>3, <1>4, <1>6, SendOthers
<1>8. ASSUME NEW u \in Thread \ {t}
      PROVE  /\ Compatible(fr'[t], fr'[u]) /\ Compatible(fr'[u], fr'[t])
             /\ blame' = {} => ~Race(fr'[t], fr'[u]) /\ ~Race(fr'[u], fr'[t])
  <2>1. PICK h, k : h = fr[u] /\ k = fr'[u]
    OBVIOUS
  <2>2. Compatible(f, h) /\ Same(h, k)
    BY <2>1, SendOthers DEF Send, Kept
  <2>3. Compatible(g, k)
    BY <1>6, <2>2, CompatibleKept
  <2>4. Compatible(k, g)
    BY <2>3, CompatibleSym
  <2>5. ASSUME blame' = {} PROVE ~Race(f, h) /\ ~Race(h, f)
    BY <2>1, <2>5 DEF Send
  <2>6. (Race(g, k) => Race(f, h)) /\ (Race(k, g) => Race(h, f))
    BY <1>6, <2>2, RaceKept
  <2>7. QED
    BY <1>4, <2>1, <2>3, <2>4, <2>5, <2>6
<1>9. ASSUME NEW u \in Thread \ {t}, NEW v \in Thread \ {t}, u # v
      PROVE  Compatible(fr'[u], fr'[v]) /\ (blame' = {} => ~Race(fr'[u], fr'[v]))
  <2>1. PICK a, b, a1, b1 : a = fr[u] /\ b = fr[v] /\ a1 = fr'[u] /\ b1 = fr'[v]
    OBVIOUS
  <2>2. Compatible(a, b) /\ (blame = {} => ~Race(a, b))
    BY <1>9, <2>1 DEF FramesOK
  <2>3. Same(a, a1) /\ Same(b, b1)
    BY <2>1, SendOthers DEF Kept
  <2>4. Compatible(a1, b1)
    BY <2>2, <2>3, CompatibleKept
  <2>5. Race(a1, b1) => Race(a, b)
    BY <2>3, RaceKept
  <2>6. blame' = {} => blame = {}
    BY DEF Send
  <2>7. QED
    BY <2>1, <2>2, <2>4, <2>5, <2>6
<1>10. DOMAIN handle' = DOMAIN NoHandle /\ handle'.path \in Seq(Segment)
  <2>1. PICK h, h1 : h = handle /\ h1 = handle'
    OBVIOUS
  <2>2. DOMAIN h = DOMAIN NoHandle /\ h.path \in Seq(Segment)
    BY <2>1 DEF FramesOK
  <2>3. \E x : h1 = [h EXCEPT !.calm = x]
    BY <2>1 DEF Send
  <2>4. "path" \in DOMAIN NoHandle
    BY DEF NoHandle
  <2>5. DOMAIN h1 = DOMAIN h /\ h1.path = h.path
    BY <2>2, <2>3, <2>4
  <2>6. QED
    BY <2>1, <2>2, <2>5
<1>11. QED
  BY <1>2, <1>7, <1>8, <1>9, <1>10 DEF FramesOK

(* A frame of a request that has no path yet.                              *)
Fresh(h) ==
  /\ DOMAIN h = Fields /\ h.paths = <<>> /\ h.segs = <<>> /\ h.todo = {} /\ h.cino = NoIno
  /\ h.at = Nil

LEMMA EmptyIn == ASSUME NEW S PROVE <<>> \in Seq(S) /\ Len(<<>>) = 0
OBVIOUS

LEMMA FreshFits ==
  ASSUME NEW A, NEW h, NEW x, NEW g, Fresh(h), g = [h EXCEPT !.at = Target(h), !.seen = x],
         h.op \in OpsAt("walk"), h.objs \in Seq(A), h.names \in Seq(Name),
         Len(h.objs) = IF h.op \in {"Rename", "Link"} THEN 2 ELSE 1,
         h.op = "Rename" => Len(h.names) = 2,
         h.op \in EntryOps \cup {"Link"} => Len(h.names) = 1,
         h.op \in Changes => \A k \in 1..Len(h.names) : h.objs[k] \in h.locks,
         h.op \in {"Make", "Link"} => Dir(h) \in h.locks
  PROVE  FrameOK(A, "walk", g)
<1>1. /\ DOMAIN g = Fields /\ g.op = h.op /\ g.objs = h.objs /\ g.names = h.names
      /\ g.paths = <<>> /\ g.at = Target(h) /\ g.segs = <<>> /\ g.cino = NoIno
      /\ g.locks = h.locks /\ g.todo = {}
  BY DEF Fresh, Fields
<1>2. Dir(g) = Dir(h)
  BY <1>1 DEF Dir
<1>3. PICK s : s = <<>>
  OBVIOUS
<1>31. s \in Seq(Segment) /\ s \in Seq(Seq(Segment)) /\ Len(s) = 0
  BY <1>3, EmptyIn
<1>4. Target(h) = h.objs[1] /\ 1 \in 1..Len(h.objs)
  BY DEF Target, Fresh
<1>5. Target(h) \in A
  BY <1>4
<1>6. 0 < Len(h.objs)
  BY <1>4
<1>7. /\ g.segs \in Seq(Segment) /\ g.paths \in Seq(Seq(Segment))
      /\ Len(g.paths) < Len(g.objs)
  BY <1>1, <1>3, <1>31, <1>6
<1>8. QED
  BY <1>1, <1>2, <1>5, <1>7, FrameDomain DEF FrameOK

LEMMA AskFrames ==
  ASSUME TableOK, FramesOK, NEW t \in Thread, NEW k \in OpsAt("walk"),
         NEW objs, NEW names \in Seq(Name), Ask(t, k, objs, names),
         (\E a : objs = <<a>>) \/ (\E a, b : objs = <<a, b>>),
         Len(objs) = IF k \in {"Rename", "Link"} THEN 2 ELSE 1,
         k = "Rename" => Len(names) = 2,
         k \in EntryOps \cup {"Link"} => Len(names) = 1
  PROVE  FramesOK'
<1>1. PICK L : L = LocksOf(k, objs, names)
  OBVIOUS
<1>2. PICK h : h = [IdleFrame EXCEPT !.op = k, !.objs = objs, !.names = names, !.locks = L]
  OBVIOUS
<1>3. PICK x : x = {PathIn(parents, Target(h))}
  OBVIOUS
<1>4. PICK g : g = [h EXCEPT !.at = Target(h), !.seen = x]
  OBVIOUS
<1>5. Send(t, "walk", g)
  BY <1>1, <1>2, <1>3, <1>4 DEF Ask, Begin
<1>6. /\ DOMAIN h = Fields /\ h.op = k /\ h.objs = objs /\ h.names = names /\ h.locks = L
      /\ h.paths = <<>> /\ h.segs = <<>> /\ h.todo = {} /\ h.cino = NoIno /\ h.at = Nil
  BY <1>2, FrameDomain DEF IdleFrame, Fields
<1>7. Fresh(h)
  BY <1>6 DEF Fresh
<1>8. g.objs = objs
  BY <1>4, <1>6 DEF Fields
<1>9. /\ \A i \in 1..Len(objs) : objs[i] \in alloc
      /\ alloc \subseteq Obj /\ Nil \notin Obj
  BY <1>5, <1>8 DEF Send, TableOK, Nil
<1>10. objs \in Seq(alloc)
  <2>1. ASSUME NEW a, objs = <<a>> PROVE objs \in Seq(alloc)
    <3>1. a \in alloc
      BY <1>9, <2>1
    <3>2. QED
      BY <2>1, <3>1
  <2>2. ASSUME NEW a, NEW b, objs = <<a, b>> PROVE objs \in Seq(alloc)
    <3>1. a \in alloc /\ b \in alloc
      BY <1>9, <2>2
    <3>2. QED
      BY <2>2, <3>1
  <2>3. QED
    BY <2>1, <2>2
<1>11. k \in Changes => \A i \in 1..Len(names) : objs[i] \in L
  <2>1. CASE k = "Remove"
    <3>1. Len(names) = 1 /\ Len(objs) = 1
      BY <2>1 DEF EntryOps
    <3>2. objs[1] \in L
      BY <1>1, <1>9, <2>1, <3>1 DEF LocksOf
    <3>3. QED
      BY <3>1, <3>2
  <2>2. CASE k = "Rename"
    <3>1. Len(names) = 2 /\ Len(objs) = 2
      BY <2>2
    <3>2. L = (UNION {{objs[i], Child(objs[i], names[i])} : i \in 1..2}) \ {Nil}
      BY <1>1, <2>2 DEF LocksOf
    <3>3. ASSUME NEW i \in 1..2 PROVE objs[i] \in L
      <4>1. objs[i] # Nil
        BY <1>9, <3>1
      <4>2. PICK s : s = {objs[i], Child(objs[i], names[i])}
        OBVIOUS
      <4>3. s \in {{objs[j], Child(objs[j], names[j])} : j \in 1..2} /\ objs[i] \in s
        BY <4>2
      <4>4. QED
        BY <3>2, <4>1, <4>3
    <3>4. QED
      BY <3>1, <3>3
  <2>3. QED
    BY <2>1, <2>2 DEF Changes
<1>12. k \in {"Make", "Link"} => LastOf(objs) \in L
  BY <1>1 DEF LocksOf, LastOf
<1>13. FrameOK(alloc, "walk", g)
  BY <1>4, <1>6, <1>7, <1>10, <1>11, <1>12, FreshFits DEF Dir
<1>14. QED
  BY <1>5, <1>13, SendFrames

(* Every request of the kernel starts with a frame that fits.              *)
LEMMA KernelFrames ==
  ASSUME TableOK, FramesOK, NEW t \in Thread, Kernel(t)
  PROVE  /\ FramesOK' /\ UNCHANGED <<treeVars, fs>>
         /\ \E l \in {"walk", "list"} : \E f : Send(t, l, f)
<1>0. ASSUME NEW l, NEW f, Send(t, l, f) PROVE UNCHANGED <<treeVars, fs>>
  BY <1>0 DEF Send
<1>1. ASSUME NEW k, NEW objs, NEW names, Ask(t, k, objs, names)
      PROVE  /\ UNCHANGED <<treeVars, fs>>
             /\ \E l \in {"walk", "list"} : \E f : Send(t, l, f)
  <2>1. PICK f : Send(t, "walk", f)
    BY <1>1 DEF Ask
  <2>2. QED
    BY <1>0, <2>1
<1>2. CASE SendEntry(t)
  <2>1. PICK k \in EntryOps, e \in Entries : Ask(t, k, <<e[1]>>, <<e[2]>>)
    BY <1>2 DEF SendEntry
  <2>2. e[2] \in Name
    BY EnvironmentAssumption
  <2>3. k \in OpsAt("walk") /\ k \notin {"Rename", "Link"}
    BY DEF EntryOps, OpsAt, Adders, Changes
  <2>4. PICK objs, names : objs = <<e[1]>> /\ names = <<e[2]>>
    OBVIOUS
  <2>5. names \in Seq(Name) /\ Len(names) = 1 /\ Len(objs) = 1
    BY <2>2, <2>4
  <2>6. QED
    BY <1>1, <2>1, <2>3, <2>4, <2>5, AskFrames
<1>3. CASE SendRename(t)
  <2>1. PICK mv \in Moves : Ask(t, "Rename", <<mv[1], mv[3]>>, <<mv[2], mv[4]>>)
    BY <1>3 DEF SendRename
  <2>2. mv[2] \in Name /\ mv[4] \in Name
    BY EnvironmentAssumption
  <2>3. "Rename" \in OpsAt("walk") /\ "Rename" \notin EntryOps \cup {"Link"}
    BY DEF EntryOps, OpsAt, Adders, Changes
  <2>4. PICK objs, names : objs = <<mv[1], mv[3]>> /\ names = <<mv[2], mv[4]>>
    OBVIOUS
  <2>5. names \in Seq(Name) /\ Len(names) = 2 /\ Len(objs) = 2
    BY <2>2, <2>4
  <2>6. Ask(t, "Rename", objs, names) /\ \E a, b : objs = <<a, b>>
    BY <2>1, <2>4
  <2>7. FramesOK'
    BY <2>3, <2>5, <2>6, AskFrames
  <2>8. QED
    BY <1>1, <2>6, <2>7
<1>4. CASE SendLink(t)
  <2>1. PICK l \in Links : Ask(t, "Link", <<l[1], l[2]>>, <<l[3]>>)
    BY <1>4 DEF SendLink
  <2>2. l[3] \in Name
    BY EnvironmentAssumption
  <2>3. "Link" \in OpsAt("walk")
    BY DEF OpsAt, Adders
  <2>4. PICK objs, names : objs = <<l[1], l[2]>> /\ names = <<l[3]>>
    OBVIOUS
  <2>5. names \in Seq(Name) /\ Len(names) = 1 /\ Len(objs) = 2
    BY <2>2, <2>4
  <2>6. Ask(t, "Link", objs, names) /\ \E a, b : objs = <<a, b>>
    BY <2>1, <2>4
  <2>7. FramesOK'
    BY <2>3, <2>5, <2>6, AskFrames
  <2>8. QED
    BY <1>1, <2>6, <2>7
<1>5. ASSUME NEW k \in {"Use", "OpenDir"}, NEW i, Ask(t, k, <<i>>, <<>>)
      PROVE  FramesOK'
  <2>1. k \in OpsAt("walk") /\ k \notin EntryOps \cup {"Link"} /\ k # "Rename"
    BY DEF EntryOps, OpsAt
  <2>2. PICK objs, names : objs = <<i>> /\ names = <<>>
    OBVIOUS
  <2>3. names \in Seq(Name) /\ Len(objs) = 1
    BY <2>2
  <2>4. QED
    BY <1>5, <2>1, <2>2, <2>3, AskFrames
<1>6. CASE SendUse(t)
  <2>1. PICK i \in Used : Ask(t, "Use", <<i>>, <<>>)
    BY <1>6 DEF SendUse
  <2>2. QED
    BY <1>1, <1>5, <2>1
<1>7. CASE SendOpenDir(t)
  <2>1. PICK i \in Listed : Ask(t, "OpenDir", <<i>>, <<>>)
    BY <1>7 DEF SendOpenDir
  <2>2. QED
    BY <1>1, <1>5, <2>1
<1>8. CASE SendReadPlus(t)
  <2>1. PICK a, p, x : a = handle.node /\ p = handle.path /\ x = handle.calm
    OBVIOUS
  <2>2. PICK f : f = [IdleFrame EXCEPT !.op = "ReadPlus", !.objs = <<a>>]
    OBVIOUS
  <2>3. /\ DOMAIN f = Fields /\ f.op = "ReadPlus" /\ f.objs = <<a>> /\ f.names = <<>>
        /\ f.paths = <<>> /\ f.segs = <<>> /\ f.todo = {} /\ f.cino = NoIno /\ f.at = Nil
    BY <2>2, FrameDomain DEF IdleFrame, Fields
  <2>4. f.op \in OpsAt("walk") /\ f.op \in OpsAt("list") /\ f.op \notin EntryOps
        /\ f.op \notin Changes
    BY <2>3 DEF OpsAt, Adders, EntryOps, Changes
  <2>5. PICK names : names = <<>>
    OBVIOUS
  <2>6. names \in Seq(Name)
    BY <2>5, EmptyIn
  <2>7. CASE handle.path = <<>>
    <3>1. PICK g : g = [f EXCEPT !.at = Target(f), !.seen = {PathIn(parents, Target(f))}]
      OBVIOUS
    <3>2. Send(t, "walk", g)
      BY <1>8, <2>1, <2>2, <2>7, <3>1 DEF SendReadPlus, Begin
    <3>3. g.objs = <<a>>
      BY <2>3, <3>1 DEF Fields
    <3>4. a \in alloc
      BY <3>2, <3>3 DEF Send
    <3>5. f.objs \in Seq(alloc) /\ Len(f.objs) = 1
      BY <2>3, <3>4
    <3>6. FrameOK(alloc, "walk", g)
      BY <2>3, <2>4, <2>5, <2>6, <3>1, <3>5, FreshFits DEF Fresh
    <3>7. FramesOK'
      BY <3>2, <3>6, SendFrames
    <3>8. QED
      BY <1>0, <3>2, <3>7
  <2>8. CASE handle.path # <<>>
    <3>1. PICK g : g = [f EXCEPT !.paths = <<p>>, !.calm = x]
      OBVIOUS
    <3>2. Send(t, "list", g)
      BY <1>8, <2>1, <2>2, <2>8, <3>1 DEF SendReadPlus
    <3>3. /\ DOMAIN g = Fields /\ g.op = "ReadPlus" /\ g.objs = <<a>> /\ g.names = <<>>
          /\ g.paths = <<p>> /\ g.segs = <<>> /\ g.todo = {} /\ g.cino = NoIno /\ g.at = Nil
      BY <2>3, <3>1 DEF Fields
    <3>4. a \in alloc
      BY <3>2, <3>3 DEF Send
    <3>5. p \in Seq(Segment)
      BY <2>1 DEF FramesOK
    <3>6. PICK ps : ps = <<p>>
      OBVIOUS
    <3>7. ps \in Seq(Seq(Segment)) /\ Len(ps) = 1
      BY <3>5, <3>6
    <3>8. g.objs \in Seq(alloc) /\ Len(g.objs) = 1 /\ g.segs \in Seq(Segment)
      BY <3>3, <3>4
    <3>9. FrameOK(alloc, "list", g)
      BY <2>4, <2>5, <2>6, <2>3, <3>3, <3>6, <3>7, <3>8, FrameDomain DEF FrameOK
    <3>10. FramesOK'
      BY <3>2, <3>9, SendFrames
    <3>11. QED
      BY <1>0, <3>2, <3>10
  <2>9. QED
    BY <2>7, <2>8
<1>9. QED
  BY <1>2, <1>3, <1>4, <1>6, <1>7, <1>8 DEF Kernel

-----------------------------------------------------------------------------
(* The tree and the file system.                                           *)

(* EntriesTrue with the entries of a sequence as a whole.                  *)
InTrue(e, o) ==
  /\ children[e.node][e.name] = o /\ ino[e.node] \in DirIno
  /\ fs[ino[e.node]][e.name] = ino[o] \/ \E t \in Thread : Undoing(t, e)
AllTrue ==
  /\ \A o \in Obj : \A e : In(e, parents[o]) => InTrue(e, o)
  /\ \A p \in Obj, m \in Name : children[p][m] # Nil =>
       In(T!EntryOf(m, p), parents[children[p][m]])

LEMMA EntriesIn == EntriesTrue <=> AllTrue
<1>1. ASSUME NEW o \in Obj
      PROVE  (\A e : In(e, parents[o]) => InTrue(e, o))
               <=> \A k \in 1..Len(parents[o]) : InTrue(parents[o][k], o)
  BY DEF In
<1>2. EntriesTrue <=>
        /\ \A o \in Obj : \A k \in 1..Len(parents[o]) : InTrue(parents[o][k], o)
        /\ \A p \in Obj, m \in Name : children[p][m] # Nil =>
             In(T!EntryOf(m, p), parents[children[p][m]])
  BY DEF EntriesTrue, InTrue, In
<1>3. QED
  BY <1>1, <1>2 DEF AllTrue

LEMMA EntriesInNext == EntriesTrue' <=> AllTrue'
<1>1. ASSUME NEW o \in Obj
      PROVE  (\A e : In(e, parents'[o]) => InTrue(e, o)')
               <=> \A k \in 1..Len(parents'[o]) : InTrue(parents[o][k], o)'
  BY DEF In
<1>2. EntriesTrue' <=>
        /\ \A o \in Obj : \A k \in 1..Len(parents'[o]) : InTrue(parents[o][k], o)'
        /\ \A p \in Obj, m \in Name : children'[p][m] # Nil =>
             In(T!EntryOf(m, p), parents'[children'[p][m]])
  BY DEF EntriesTrue, InTrue, In
<1>3. QED
  BY <1>1, <1>2 DEF AllTrue

LEMMA Numbers ==
  /\ Nil \notin Obj /\ NoIno \notin Ino /\ NoIno \notin DirIno /\ DirIno \subseteq Ino
  /\ Ino \subseteq Obj /\ RootIno \in Ino
BY DEF Nil, NoIno

LEMMA EntryParts ==
  ASSUME NEW m, NEW p
  PROVE  /\ T!EntryOf(m, p).name = m /\ T!EntryOf(m, p).node = p
         /\ \A k, q : T!EntryOf(m, p) = T!EntryOf(k, q) => m = k /\ p = q
BY DEF T!EntryOf

LEMMA ParentEntry ==
  ASSUME TableOK, NEW o \in Obj, NEW e, In(e, parents[o])
  PROVE  /\ o \in alloc /\ e.node \in alloc /\ e.node \in Obj /\ e.name \in Name
         /\ e = T!EntryOf(e.name, e.node)
<1>1. parents[o] \in Seq([name : Name, node : alloc])
  BY DEF TableOK
<1>2. e \in [name : Name, node : alloc]
  BY <1>1, InSeq
<1>3. o \in alloc
  <2>1. parents[o] # <<>>
    BY <1>1 DEF In
  <2>2. QED
    BY <2>1 DEF TableOK
<1>4. e.node \in Obj
  BY <1>2 DEF TableOK
<1>5. QED
  BY <1>2, <1>3, <1>4 DEF T!EntryOf

LEMMA ChildType ==
  ASSUME TableOK, NEW p \in Obj, NEW m \in Name
  PROVE  children[p][m] \in alloc \cup {Nil} /\ children[p][m] \in Obj \cup {Nil}
<1>1. children[p] \in [Name -> alloc \cup {Nil}] /\ alloc \subseteq Obj
  BY DEF TableOK
<1>2. QED
  BY <1>1

LEMMA FrameParts ==
  ASSUME TableOK, NEW l, NEW f, FrameOK(alloc, l, f), l # "idle"
  PROVE  /\ \A k \in 1..Len(f.objs) : f.objs[k] \in alloc /\ f.objs[k] \in Obj
         /\ \A k \in 1..Len(f.names) : f.names[k] \in Name
         /\ Dir(f) \in alloc /\ Dir(f) \in Obj /\ Len(f.objs) \in {1, 2}
<1>1. /\ f.objs \in Seq(alloc) /\ f.names \in Seq(Name) /\ alloc \subseteq Obj
      /\ Len(f.objs) \in {1, 2}
  BY DEF FrameOK, TableOK
<1>2. /\ \A k \in 1..Len(f.objs) : f.objs[k] \in alloc
      /\ \A k \in 1..Len(f.names) : f.names[k] \in Name
  BY <1>1
<1>3. Dir(f) \in alloc
  <2>1. Len(f.objs) \in 1..Len(f.objs)
    <3>1. PICK n : n = Len(f.objs)
      OBVIOUS
    <3>2. n \in {1, 2}
      BY <1>1, <3>1
    <3>3. n \in 1..n
      BY <3>2
    <3>4. QED
      BY <3>1, <3>3
  <2>2. f.objs[Len(f.objs)] \in alloc
    BY <1>2, <2>1
  <2>3. QED
    BY <2>2 DEF Dir, LastOf
<1>4. QED
  BY <1>1, <1>2, <1>3

LEMMA Injective ==
  ASSUME TableOK, NEW a \in alloc, NEW b \in alloc, ino[a] = ino[b] PROVE a = b
BY DEF TableOK

(* The locks keep a directory apart that a rename or a removal changes:    *)
(* nobody else changes it, nor brings something it learned of it.          *)
LEMMA ApartAdder ==
  ASSUME FramesOK, blame = {}, NEW t \in Thread, NEW u \in Thread, t # u,
         fr[t].op \in Changes, NEW k \in 1..Len(fr[t].names), fr[u].op \in Adders
  PROVE  fr[t].objs[k] # Dir(fr[u])
<1>1. PICK f, g : f = fr[t] /\ g = fr[u]
  OBVIOUS
<1>2. Compatible(f, g) /\ ~Race(g, f)
  BY <1>1 DEF FramesOK
<1>3. f.objs[k] \in f.locks
  BY <1>1 DEF FramesOK, FrameOK
<1>4. CASE g.op \in {"Lookup", "ReadPlus"}
  <2>1. Dir(g) \in Shared(g)
    BY <1>4 DEF Shared
  <2>2. QED
    BY <1>1, <1>2, <1>3, <2>1 DEF Compatible
<1>5. CASE g.op = "Revalidate"
  BY <1>1, <1>2, <1>3, <1>5 DEF Race
<1>6. CASE g.op \in {"Make", "Link"}
  <2>1. Dir(g) \in g.locks
    BY <1>1, <1>6 DEF FramesOK, FrameOK
  <2>2. QED
    BY <1>1, <1>2, <1>3, <2>1 DEF Compatible
<1>7. QED
  BY <1>1, <1>4, <1>5, <1>6 DEF Adders

LEMMA ApartChange ==
  ASSUME FramesOK, NEW t \in Thread, NEW u \in Thread, t # u,
         fr[t].op \in Changes, NEW k \in 1..Len(fr[t].names),
         fr[u].op \in Changes, NEW j \in 1..Len(fr[u].names)
  PROVE  fr[t].objs[k] # fr[u].objs[j]
<1>1. PICK f, g : f = fr[t] /\ g = fr[u]
  OBVIOUS
<1>2. Compatible(f, g)
  BY <1>1 DEF FramesOK
<1>3. f.objs[k] \in f.locks /\ g.objs[j] \in g.locks
  BY <1>1 DEF FramesOK, FrameOK
<1>4. QED
  BY <1>1, <1>2, <1>3 DEF Compatible

(* A step that leaves the tree and the file system as they are.            *)
LEMMA TruthQuiet ==
  ASSUME TableOK, EntriesTrue, WritesTrue, UNCHANGED <<treeVars, fs>>,
         NEW t \in Thread, pc[t] # "apply",
         \A u \in Thread \ {t} : pc'[u] = pc[u] /\ Kept(fr[u], fr'[u]),
         pc'[t] = "apply" => Writing(t)'
  PROVE  EntriesTrue' /\ WritesTrue'
<1>1. children' = children /\ parents' = parents /\ ino' = ino /\ fs' = fs
  BY DEF treeVars
<1>2. ASSUME NEW u \in Thread, NEW e, Undoing(u, e) PROVE Undoing(u, e)'
  <2>1. u # t
    BY <1>2 DEF Undoing
  <2>2. PICK f, g : f = fr[u] /\ g = fr'[u]
    OBVIOUS
  <2>3. pc'[u] = "apply" /\ g.op = f.op /\ g.objs = f.objs /\ g.names = f.names
    BY <1>2, <2>1, <2>2 DEF Kept, Same, Undoing
  <2>4. QED
    BY <1>2, <2>2, <2>3 DEF Undoing
<1>3. AllTrue'
  <2>1. AllTrue
    BY EntriesIn
  <2>2. ASSUME NEW o \in Obj, NEW e, In(e, parents'[o]) PROVE InTrue(e, o)'
    <3>1. InTrue(e, o)
      BY <1>1, <2>1, <2>2 DEF AllTrue
    <3>2. QED
      BY <1>1, <1>2, <3>1 DEF InTrue
  <2>3. QED
    BY <1>1, <2>1, <2>2 DEF AllTrue
<1>4. ASSUME NEW u \in Thread, pc'[u] = "apply" PROVE Writing(u)'
  <2>1. CASE u = t
    BY <1>4, <2>1
  <2>2. CASE u # t
    <3>1. PICK f, g : f = fr[u] /\ g = fr'[u]
      OBVIOUS
    <3>2. /\ pc[u] = "apply" /\ g.op = f.op /\ g.objs = f.objs /\ g.names = f.names
          /\ g.cino = f.cino
      BY <1>4, <2>2, <3>1 DEF Kept, Same
    <3>3. Writing(u) /\ Dir(g) = Dir(f)
      BY <3>2 DEF WritesTrue, Dir
    <3>4. QED
      BY <1>1, <3>1, <3>2, <3>3 DEF Writing
  <2>3. QED
    BY <2>1, <2>2
<1>5. QED
  BY <1>3, <1>4, EntriesInNext DEF WritesTrue

-----------------------------------------------------------------------------
(* The calls that change the file system.                                  *)

LEMMA PutEntry ==
  ASSUME NEW A, NEW B, NEW C, NEW f \in [A -> [B -> C]], NEW a \in A, NEW b \in B, NEW c \in C,
         NEW g, g = [f EXCEPT ![a][b] = c]
  PROVE  /\ g \in [A -> [B -> C]] /\ g[a][b] = c
         /\ \A x \in A, y \in B : ~(x = a /\ y = b) => g[x][y] = f[x][y]
<1>1. f[a] \in [B -> C]
  OBVIOUS
<1>2. PICK h : h = [f[a] EXCEPT ![b] = c]
  OBVIOUS
<1>3. h \in [B -> C] /\ h[b] = c /\ \A y \in B : y # b => h[y] = f[a][y]
  BY <1>1, <1>2
<1>4. g = [f EXCEPT ![a] = h]
  BY <1>2
<1>5. g \in [A -> [B -> C]] /\ g[a] = h /\ \A x \in A : x # a => g[x] = f[x]
  BY <1>3, <1>4
<1>6. QED
  BY <1>3, <1>5

KeptAt(p, m) == fs[ino[p]][m] # NoIno => fs'[ino[p]][m] = fs[ino[p]][m]

(* What a request is about to write stays true if its entry stays.         *)
LEMMA WritingKept ==
  ASSUME TableOK, FramesOK, NEW u \in Thread, pc[u] = "apply", Writing(u),
         UNCHANGED treeVars, NEW f, f = fr[u], fr'[u] = f,
         f.cino # NoIno => KeptAt(Dir(f), f.names[1]),
         f.op = "Rename" => KeptAt(f.objs[2], f.names[2])
  PROVE  Writing(u)'
<1>1. ino' = ino /\ children' = children
  BY DEF treeVars
<1>2. f.cino # NoIno =>
        ino[Dir(f)] \in DirIno /\ fs'[ino[Dir(f)]][f.names[1]] = f.cino
  BY DEF KeptAt, Writing
<1>3. ASSUME f.op = "Rename" PROVE Writing(u)'
  <2>1. FrameOK(alloc, "apply", f)
    BY DEF FramesOK
  <2>2. f.cino = NoIno
    BY <1>3, <2>1 DEF FrameOK, Changes
  <2>3. PICK c : c = children[f.objs[1]][f.names[1]]
    OBVIOUS
  <2>4. Len(f.objs) = 2 /\ Len(f.names) = 2
    BY <1>3, <2>1 DEF FrameOK
  <2>5. f.objs[1] \in Obj /\ f.names[1] \in Name
    BY <2>1, <2>4, FrameParts
  <2>6. c \in alloc \cup {Nil}
    BY <2>3, <2>5, ChildType
  <2>7. c # Nil => ino[c] \in Ino
    BY <2>6 DEF TableOK
  <2>8. c # Nil => fs[ino[f.objs[2]]][f.names[2]] = ino[c]
    BY <1>3, <2>3 DEF Writing
  <2>9. c # Nil => fs'[ino[f.objs[2]]][f.names[2]] = ino[c]
    BY <1>3, <2>7, <2>8, Numbers DEF KeptAt
  <2>10. ino[f.objs[2]] \in DirIno /\ <<f.objs[1], f.names[1]>> # <<f.objs[2], f.names[2]>>
    BY <1>3 DEF Writing
  <2>11. QED
    BY <1>1, <2>2, <2>3, <2>9, <2>10 DEF Writing
<1>4. CASE f.op # "Rename"
  BY <1>1, <1>2, <1>4 DEF Writing
<1>5. QED
  BY <1>3, <1>4

(* A call that changes the file system only: an entry that it makes false  *)
(* is one that the caller is about to undo.                                *)
LEMMA TruthCalled ==
  ASSUME TableOK, FramesOK, EntriesTrue, WritesTrue, UNCHANGED treeVars,
         NEW t \in Thread, pc[t] = "call", NEW l, Go(t, l, fr[t]),
         \A o \in Obj : \A e : In(e, parents[o]) => KeptAt(e.node, e.name) \/ Undoing(t, e)',
         \A u \in Thread \ {t} : pc[u] = "apply" =>
           /\ fr[u].cino # NoIno => KeptAt(Dir(fr[u]), fr[u].names[1])
           /\ fr[u].op = "Rename" => KeptAt(fr[u].objs[2], fr[u].names[2]),
         pc'[t] = "apply" => Writing(t)'
  PROVE  EntriesTrue' /\ WritesTrue'
<1>1. children' = children /\ parents' = parents /\ ino' = ino
  BY DEF treeVars
<1>2. ASSUME NEW u \in Thread \ {t} PROVE pc'[u] = pc[u] /\ fr'[u] = fr[u]
  BY DEF Go, FramesOK
<1>3. ASSUME NEW u \in Thread, NEW e, Undoing(u, e) PROVE Undoing(u, e)'
  <2>1. u # t
    BY <1>3 DEF Undoing
  <2>2. QED
    BY <1>2, <1>3, <2>1 DEF Undoing
<1>4. AllTrue
  BY EntriesIn
<1>5. ASSUME NEW o \in Obj, NEW e, In(e, parents'[o]) PROVE InTrue(e, o)'
  <2>1. In(e, parents[o]) /\ InTrue(e, o)
    BY <1>1, <1>4, <1>5 DEF AllTrue
  <2>2. ino[o] \in Ino
    BY DEF TableOK
  <2>3. CASE Undoing(t, e)'
    BY <1>1, <2>1, <2>3 DEF InTrue
  <2>4. CASE KeptAt(e.node, e.name)
    <3>1. fs[ino[e.node]][e.name] = ino[o] => fs'[ino[e.node]][e.name] = ino[o]
      <4>1. PICK i : i = ino[o]
        OBVIOUS
      <4>2. i # NoIno
        BY <2>2, <4>1, Numbers
      <4>3. QED
        BY <2>4, <4>1, <4>2 DEF KeptAt
    <3>2. QED
      BY <1>1, <1>3, <2>1, <3>1 DEF InTrue
  <2>5. QED
    BY <2>1, <2>3, <2>4
<1>6. ASSUME NEW u \in Thread, pc'[u] = "apply" PROVE Writing(u)'
  <2>1. CASE u = t
    BY <1>6, <2>1
  <2>2. CASE u # t
    <3>1. PICK f : f = fr[u]
      OBVIOUS
    <3>2. pc[u] = "apply" /\ fr'[u] = f /\ Writing(u)
      BY <1>2, <1>6, <2>2, <3>1 DEF WritesTrue
    <3>3. /\ f.cino # NoIno => KeptAt(Dir(f), f.names[1])
          /\ f.op = "Rename" => KeptAt(f.objs[2], f.names[2])
      BY <2>2, <3>1, <3>2
    <3>4. QED
      BY <3>1, <3>2, <3>3, WritingKept
  <2>3. QED
    BY <2>1, <2>2
<1>7. AllTrue'
  BY <1>1, <1>4, <1>5 DEF AllTrue
<1>8. QED
  BY <1>6, <1>7, EntriesInNext DEF WritesTrue

LEMMA TableKept ==
  ASSUME TableOK, UNCHANGED treeVars, fs' \in [DirIno -> [Name -> Ino \cup {NoIno}]]
  PROVE  TableOK'
<1>1. /\ alloc' = alloc /\ ino' = ino /\ lookupCount' = lookupCount /\ parents' = parents
      /\ children' = children /\ nodes' = nodes
  BY DEF treeVars
<1>2. QED
  BY <1>1 DEF TableOK

(* An entry that did not exist.                                            *)
LEMMA PutTruth ==
  ASSUME TableOK, FramesOK, NEW t \in Thread, pc[t] = "call", fr[t].op \in {"Make", "Link"},
         NEW i \in Ino, FsPut(t, i)
  PROVE  /\ TableOK' /\ FramesOK'
         /\ EntriesTrue /\ WritesTrue => EntriesTrue' /\ WritesTrue'
<1>1. PICK f, d, m : f = fr[t] /\ d = Resolve(LastOf(f.paths)) /\ m = f.names[1]
  OBVIOUS
<1>2. FrameOK(alloc, "call", f) /\ Len(f.names) = 1
  BY <1>1 DEF FramesOK, FrameOK, EntryOps
<1>3. m \in Name
  BY <1>1, <1>2, FrameParts
<1>4. d \in DirIno /\ fs[d][m] = NoIno /\ fs' = [fs EXCEPT ![d][m] = i]
  BY <1>1 DEF FsPut
<1>5. fs \in [DirIno -> [Name -> Ino \cup {NoIno}]]
  BY DEF TableOK
<1>6. PICK g, g1 : g = fs /\ g1 = fs'
  OBVIOUS
<1>7. /\ g1 \in [DirIno -> [Name -> Ino \cup {NoIno}]]
      /\ \A x \in DirIno, y \in Name : ~(x = d /\ y = m) => g1[x][y] = g[x][y]
  <2>1. g \in [DirIno -> [Name -> Ino \cup {NoIno}]] /\ i \in Ino \cup {NoIno}
        /\ g1 = [g EXCEPT ![d][m] = i]
    BY <1>4, <1>5, <1>6
  <2>2. QED
    BY <1>3, <1>4, <2>1, PutEntry
<1>8. UNCHANGED treeVars /\ UNCHANGED handle /\ Go(t, "look", f) /\ (blame' = {} => blame = {})
  BY <1>1 DEF FsPut, Blame
<1>9. TableOK'
  BY <1>6, <1>7, <1>8, TableKept
<1>10. FramesOK'
  <2>1. fr[t].op \in OpsAt("look") /\ alloc' = alloc /\ handle' = handle
    BY <1>8 DEF OpsAt, Adders, treeVars
  <2>2. QED
    BY <1>1, <1>8, <2>1, CalledFrames
<1>11. ASSUME EntriesTrue, WritesTrue PROVE EntriesTrue' /\ WritesTrue'
  <2>1. ASSUME NEW p, NEW k \in Name, ino[p] \in DirIno PROVE KeptAt(p, k)
    BY <1>4, <1>6, <1>7, <2>1 DEF KeptAt
  <2>2. ASSUME NEW o \in Obj, NEW e, In(e, parents[o]) PROVE KeptAt(e.node, e.name)
    <3>1. e.name \in Name /\ ino[e.node] \in DirIno
      BY <1>11, <2>2, ParentEntry, EntriesIn DEF AllTrue, InTrue
    <3>2. QED
      BY <2>1, <3>1
  <2>3. ASSUME NEW u \in Thread \ {t}, pc[u] = "apply"
        PROVE  /\ fr[u].cino # NoIno => KeptAt(Dir(fr[u]), fr[u].names[1])
               /\ fr[u].op = "Rename" => KeptAt(fr[u].objs[2], fr[u].names[2])
    <3>1. PICK h : h = fr[u]
      OBVIOUS
    <3>2. FrameOK(alloc, "apply", h)
      BY <2>3, <3>1 DEF FramesOK
    <3>3. Writing(u)
      BY <1>11, <2>3 DEF WritesTrue
    <3>4. \A k \in 1..Len(h.names) : h.names[k] \in Name
      BY <3>2, FrameParts
    <3>5. ASSUME h.cino # NoIno PROVE KeptAt(Dir(h), h.names[1])
      <4>1. Len(h.names) = 1
        BY <3>2, <3>5 DEF FrameOK, OpsAt, Adders, EntryOps, Changes
      <4>2. ino[Dir(h)] \in DirIno
        BY <3>1, <3>3, <3>5 DEF Writing
      <4>3. QED
        BY <2>1, <3>4, <4>1, <4>2
    <3>6. ASSUME h.op = "Rename" PROVE KeptAt(h.objs[2], h.names[2])
      <4>1. Len(h.names) = 2
        BY <3>2, <3>6 DEF FrameOK
      <4>2. ino[h.objs[2]] \in DirIno
        BY <3>1, <3>3, <3>6 DEF Writing
      <4>3. QED
        BY <2>1, <3>4, <4>1, <4>2
    <3>7. QED
      BY <3>1, <3>5, <3>6
  <2>4. pc'[t] # "apply"
    BY <1>8 DEF Go, FramesOK
  <2>5. QED
    BY <1>1, <1>8, <1>11, <2>2, <2>3, <2>4, TruthCalled
<1>12. QED
  BY <1>9, <1>10, <1>11

LEMMA WritesApart ==
  ASSUME FramesOK, blame = {}, NEW t \in Thread, NEW u \in Thread, t # u,
         fr[t].op \in Changes, NEW k \in 1..Len(fr[t].names), pc[u] = "apply",
         NEW h, h = fr[u]
  PROVE  /\ h.cino # NoIno => fr[t].objs[k] # Dir(h)
         /\ h.op = "Rename" => fr[t].objs[k] # h.objs[1] /\ fr[t].objs[k] # h.objs[2]
<1>1. FrameOK(alloc, "apply", h)
  BY DEF FramesOK
<1>2. ASSUME h.cino # NoIno PROVE fr[t].objs[k] # Dir(h)
  <2>1. h.op \in Adders
    BY <1>1, <1>2 DEF FrameOK, OpsAt
  <2>2. QED
    BY <2>1, ApartAdder
<1>3. ASSUME h.op = "Rename" PROVE fr[t].objs[k] # h.objs[1] /\ fr[t].objs[k] # h.objs[2]
  <2>1. Len(h.names) = 2 /\ h.op \in Changes
    BY <1>1, <1>3 DEF FrameOK, Changes
  <2>2. /\ fr[u].op \in Changes
        /\ 1 \in 1..Len(fr[u].names) /\ 2 \in 1..Len(fr[u].names)
    BY <2>1
  <2>3. fr[t].objs[k] # fr[u].objs[1]
    BY <2>2, ApartChange
  <2>4. fr[t].objs[k] # fr[u].objs[2]
    BY <2>2, ApartChange
  <2>5. QED
    BY <2>3, <2>4
<1>4. QED
  BY <1>2, <1>3

(* A removal or a rename in the file system, of entries that the request   *)
(* will undo in the tree.                                                  *)
LEMMA ChangeTruth ==
  ASSUME TableOK, FramesOK, EntriesTrue, WritesTrue, blame = {}, UNCHANGED treeVars,
         NEW t \in Thread, pc[t] = "call", NEW f, f = fr[t], f.op \in Changes, Go(t, "apply", f),
         \A x \in alloc, y \in Name : ino[x] \in DirIno =>
           KeptAt(x, y) \/ \E k \in 1..Len(f.names) : x = f.objs[k] /\ y = f.names[k],
         Writing(t)'
  PROVE  EntriesTrue' /\ WritesTrue'
<1>1. pc'[t] = "apply" /\ fr'[t] = f
  BY DEF Go, FramesOK
<1>2. ASSUME NEW o \in Obj, NEW e, In(e, parents[o])
      PROVE  KeptAt(e.node, e.name) \/ Undoing(t, e)'
  <2>1. e.node \in alloc /\ e.name \in Name /\ ino[e.node] \in DirIno
    BY <1>2, ParentEntry, EntriesIn DEF AllTrue, InTrue
  <2>2. CASE KeptAt(e.node, e.name)
    BY <2>2
  <2>3. CASE \E k \in 1..Len(f.names) : e.node = f.objs[k] /\ e.name = f.names[k]
    BY <1>1, <2>3 DEF Undoing
  <2>4. QED
    BY <2>1, <2>2, <2>3
<1>3. ASSUME NEW u \in Thread \ {t}, pc[u] = "apply"
      PROVE  /\ fr[u].cino # NoIno => KeptAt(Dir(fr[u]), fr[u].names[1])
             /\ fr[u].op = "Rename" => KeptAt(fr[u].objs[2], fr[u].names[2])
  <2>1. PICK h : h = fr[u]
    OBVIOUS
  <2>2. FrameOK(alloc, "apply", h) /\ Writing(u)
    BY <1>3, <2>1 DEF FramesOK, WritesTrue
  <2>3. \A k \in 1..Len(h.names) : h.names[k] \in Name
    BY <2>2, FrameParts
  <2>4. ASSUME NEW k \in 1..Len(f.names)
        PROVE  /\ h.cino # NoIno => f.objs[k] # Dir(h)
               /\ h.op = "Rename" => f.objs[k] # h.objs[2]
    <3>1. t # u /\ fr[t].op \in Changes /\ k \in 1..Len(fr[t].names)
      BY <1>3
    <3>2. /\ h.cino # NoIno => fr[t].objs[k] # Dir(h)
          /\ h.op = "Rename" => fr[t].objs[k] # h.objs[1] /\ fr[t].objs[k] # h.objs[2]
      BY <1>3, <2>1, <3>1, WritesApart
    <3>3. QED
      BY <3>2
  <2>5. ASSUME h.cino # NoIno PROVE KeptAt(Dir(h), h.names[1])
    <3>1. Len(h.names) = 1
      BY <2>2, <2>5 DEF FrameOK, OpsAt, Adders, EntryOps, Changes
    <3>2. ino[Dir(h)] \in DirIno
      BY <2>1, <2>2, <2>5 DEF Writing
    <3>3. h.names[1] \in Name
      BY <2>3, <3>1
    <3>4. Dir(h) \in alloc
      BY <2>2, FrameParts
    <3>5. QED
      BY <2>4, <2>5, <3>2, <3>3, <3>4
  <2>6. ASSUME h.op = "Rename" PROVE KeptAt(h.objs[2], h.names[2])
    <3>1. Len(h.names) = 2 /\ Len(h.objs) = 2
      BY <2>2, <2>6 DEF FrameOK
    <3>2. ino[h.objs[2]] \in DirIno
      BY <2>1, <2>2, <2>6 DEF Writing
    <3>3. h.names[2] \in Name
      BY <2>3, <3>1
    <3>4. h.objs[2] \in alloc
      <4>1. \A k \in 1..Len(h.objs) : h.objs[k] \in alloc
        BY <2>2, FrameParts
      <4>2. QED
        BY <3>1, <4>1
    <3>5. QED
      BY <2>4, <2>6, <3>2, <3>3, <3>4
  <2>7. QED
    BY <2>1, <2>5, <2>6
<1>4. QED
  BY <1>2, <1>3, TruthCalled

LEMMA RemoveTruth ==
  ASSUME TableOK, FramesOK, NEW t \in Thread, FsRemove(t)
  PROVE  /\ TableOK' /\ FramesOK'
         /\ EntriesTrue /\ WritesTrue /\ blame' = {} => EntriesTrue' /\ WritesTrue'
<1>1. PICK f, d, m : f = fr[t] /\ d = Resolve(f.paths[1]) /\ m = f.names[1]
  OBVIOUS
<1>2. pc[t] = "call" /\ f.op = "Remove" /\ f.op \in Changes
  BY <1>1 DEF FsRemove, Call, Changes
<1>3. FrameOK(alloc, "call", f) /\ Len(f.names) = 1 /\ Len(f.objs) = 1 /\ Len(f.paths) = 1
  BY <1>1, <1>2 DEF FramesOK, FrameOK, EntryOps
<1>4. m \in Name /\ f.objs[1] \in alloc
  BY <1>1, <1>3, FrameParts
<1>5. d \in DirIno /\ fs' = [fs EXCEPT ![d][m] = NoIno]
  BY <1>1 DEF FsRemove
<1>6. PICK g, g1 : g = fs /\ g1 = fs'
  OBVIOUS
<1>7. /\ g1 \in [DirIno -> [Name -> Ino \cup {NoIno}]]
      /\ \A x \in DirIno, y \in Name : ~(x = d /\ y = m) => g1[x][y] = g[x][y]
  <2>1. /\ g \in [DirIno -> [Name -> Ino \cup {NoIno}]] /\ NoIno \in Ino \cup {NoIno}
        /\ g1 = [g EXCEPT ![d][m] = NoIno]
    BY <1>5, <1>6 DEF TableOK
  <2>2. QED
    BY <1>4, <1>5, <2>1, PutEntry
<1>8. /\ UNCHANGED treeVars /\ UNCHANGED handle /\ Go(t, "apply", f)
      /\ blame' = {} => blame = {} /\ Led(f)
  BY <1>1 DEF FsRemove, Blame
<1>9. TableOK'
  BY <1>6, <1>7, <1>8, TableKept
<1>10. FramesOK'
  <2>1. fr[t].op \in OpsAt("apply") /\ alloc' = alloc /\ handle' = handle
    BY <1>1, <1>2, <1>8 DEF OpsAt, treeVars
  <2>2. QED
    BY <1>1, <1>2, <1>8, <2>1, CalledFrames
<1>11. ASSUME EntriesTrue, WritesTrue, blame' = {} PROVE EntriesTrue' /\ WritesTrue'
  <2>1. blame = {} /\ Led(f) /\ 1 \in 1..Len(f.paths)
    BY <1>3, <1>8, <1>11
  <2>2. d = ino[f.objs[1]]
    BY <1>1, <1>5, <2>1, LedDir
  <2>3. ASSUME NEW x \in alloc, NEW y \in Name, ino[x] \in DirIno, ~(x = f.objs[1] /\ y = m)
        PROVE  KeptAt(x, y)
    <3>1. ~(ino[x] = d /\ y = m)
      BY <1>4, <2>2, <2>3, Injective
    <3>2. QED
      BY <1>6, <1>7, <2>3, <3>1 DEF KeptAt
  <2>4. 1 \in 1..Len(f.names)
    BY <1>3
  <2>5. Writing(t)'
    <3>1. fr'[t] = f /\ f.cino = NoIno
      BY <1>2, <1>3, <1>8 DEF Go, FramesOK, FrameOK
    <3>2. QED
      BY <1>2, <3>1 DEF Writing
  <2>6. QED
    BY <1>1, <1>2, <1>8, <1>11, <2>1, <2>3, <2>4, <2>5, ChangeTruth
<1>12. QED
  BY <1>9, <1>10, <1>11

LEMMA RenameTruth ==
  ASSUME TableOK, FramesOK, NEW t \in Thread, FsRename(t)
  PROVE  /\ TableOK' /\ FramesOK'
         /\ EntriesTrue /\ WritesTrue /\ blame' = {} => EntriesTrue' /\ WritesTrue'
<1>1. PICK f, p, q, m, n : /\ f = fr[t] /\ p = f.objs[1] /\ q = f.objs[2]
                           /\ m = f.names[1] /\ n = f.names[2]
  OBVIOUS
<1>2. PICK d, e : d = Resolve(f.paths[1]) /\ e = Resolve(f.paths[2])
  OBVIOUS
<1>3. pc[t] = "call" /\ f.op = "Rename" /\ f.op \in Changes
  BY <1>1 DEF FsRename, Call, Changes
<1>4. FrameOK(alloc, "call", f) /\ Len(f.names) = 2 /\ Len(f.objs) = 2 /\ Len(f.paths) = 2
  BY <1>1, <1>3 DEF FramesOK, FrameOK
<1>5. m \in Name /\ n \in Name /\ p \in alloc /\ q \in alloc /\ p \in Obj /\ q \in Obj
  <2>1. /\ \A k \in 1..Len(f.objs) : f.objs[k] \in alloc /\ f.objs[k] \in Obj
        /\ \A k \in 1..Len(f.names) : f.names[k] \in Name
    BY <1>4, FrameParts
  <2>2. 1 \in 1..Len(f.objs) /\ 2 \in 1..Len(f.objs) /\ 1 \in 1..Len(f.names)
        /\ 2 \in 1..Len(f.names)
    BY <1>4
  <2>3. QED
    BY <1>1, <2>1, <2>2
<1>6. PICK i, j : i = fs[d][m] /\ j = fs[e][n]
  OBVIOUS
<1>7. /\ d \in DirIno /\ e \in DirIno /\ i # NoIno /\ i # j
      /\ fs' = [fs EXCEPT ![d][m] = NoIno, ![e][n] = i]
  BY <1>1, <1>2, <1>6 DEF FsRename
<1>8. PICK g, h, g1 : g = fs /\ h = [g EXCEPT ![d][m] = NoIno] /\ g1 = fs'
  OBVIOUS
<1>9. g \in [DirIno -> [Name -> Ino \cup {NoIno}]] /\ i \in Ino \cup {NoIno}
  <2>1. g \in [DirIno -> [Name -> Ino \cup {NoIno}]]
    BY <1>8 DEF TableOK
  <2>2. g[d] \in [Name -> Ino \cup {NoIno}]
    BY <1>7, <2>1
  <2>3. QED
    BY <1>5, <1>6, <1>8, <2>1, <2>2
<1>10. /\ h \in [DirIno -> [Name -> Ino \cup {NoIno}]]
       /\ \A x \in DirIno, y \in Name : ~(x = d /\ y = m) => h[x][y] = g[x][y]
  <2>1. NoIno \in Ino \cup {NoIno}
    OBVIOUS
  <2>2. QED
    BY <1>5, <1>7, <1>8, <1>9, <2>1, PutEntry
<1>11. g1 = [h EXCEPT ![e][n] = i]
  BY <1>7, <1>8
<1>12. /\ g1 \in [DirIno -> [Name -> Ino \cup {NoIno}]] /\ g1[e][n] = i
       /\ \A x \in DirIno, y \in Name : ~(x = e /\ y = n) => g1[x][y] = h[x][y]
  BY <1>5, <1>7, <1>9, <1>10, <1>11, PutEntry
<1>13. /\ UNCHANGED treeVars /\ UNCHANGED handle /\ Go(t, "apply", f)
       /\ blame' = {} => blame = {} /\ Led(f)
  BY <1>1 DEF FsRename, Blame
<1>14. TableOK'
  BY <1>8, <1>12, <1>13, TableKept
<1>15. FramesOK'
  <2>1. fr[t].op \in OpsAt("apply") /\ alloc' = alloc /\ handle' = handle
    BY <1>1, <1>3, <1>13 DEF OpsAt, treeVars
  <2>2. QED
    BY <1>1, <1>3, <1>13, <2>1, CalledFrames
<1>16. ASSUME EntriesTrue, WritesTrue, blame' = {} PROVE EntriesTrue' /\ WritesTrue'
  <2>1. blame = {} /\ Led(f) /\ 1 \in 1..Len(f.paths) /\ 2 \in 1..Len(f.paths)
    BY <1>4, <1>13, <1>16
  <2>2. d = ino[p]
    BY <1>1, <1>2, <1>7, <2>1, LedDir
  <2>3. e = ino[q]
    BY <1>1, <1>2, <1>7, <2>1, LedDir
  <2>4. ASSUME NEW x \in alloc, NEW y \in Name, ino[x] \in DirIno,
               ~(x = p /\ y = m), ~(x = q /\ y = n)
        PROVE  KeptAt(x, y)
    <3>1. ~(ino[x] = d /\ y = m) /\ ~(ino[x] = e /\ y = n)
      BY <1>5, <2>2, <2>3, <2>4, Injective
    <3>2. PICK z \in DirIno : z = ino[x]
      BY <2>4
    <3>3. h[z][y] = g[z][y]
      BY <1>10, <3>1, <3>2
    <3>4. g1[z][y] = h[z][y]
      BY <1>12, <3>1, <3>2
    <3>5. QED
      BY <1>8, <3>2, <3>3, <3>4 DEF KeptAt
  <2>5. 1 \in 1..Len(f.names) /\ 2 \in 1..Len(f.names)
    BY <1>4
  <2>6. PICK c : c = children[p][m]
    OBVIOUS
  <2>7. ASSUME c # Nil PROVE i = ino[c]
    <3>1. c \in Obj
      BY <1>5, <2>6, <2>7, ChildType
    <3>2. PICK en : en = T!EntryOf(m, p)
      OBVIOUS
    <3>3. en.node = p /\ en.name = m
      BY <3>2, EntryParts
    <3>4. In(en, parents[c])
      BY <1>5, <1>16, <2>6, <2>7, <3>2, EntriesIn DEF AllTrue
    <3>5. fs[ino[p]][m] = ino[c] \/ \E u \in Thread : Undoing(u, en)
      BY <1>16, <3>1, <3>3, <3>4, EntriesIn DEF AllTrue, InTrue
    <3>6. ASSUME NEW u \in Thread, Undoing(u, en) PROVE FALSE
      <4>1. u # t
        BY <1>3, <3>6 DEF Undoing
      <4>2. fr[u].op \in Changes
        BY <3>6 DEF Undoing
      <4>3. PICK k \in 1..Len(fr[u].names) : fr[u].objs[k] = p
        BY <3>3, <3>6 DEF Undoing
      <4>4. fr[t].op \in Changes /\ 1 \in 1..Len(fr[t].names) /\ fr[t].objs[1] = p
        BY <1>1, <1>3, <2>5
      <4>5. fr[t].objs[1] # fr[u].objs[k]
        BY <4>1, <4>2, <4>4, ApartChange
      <4>6. QED
        BY <4>3, <4>4, <4>5
    <3>7. QED
      BY <1>6, <2>2, <3>5, <3>6
  <2>8. ~(p = q /\ m = n)
    BY <1>6, <1>7, <2>2, <2>3
  <2>9. Writing(t)'
    <3>1. fr'[t] = f /\ f.cino = NoIno
      BY <1>3, <1>4, <1>13 DEF Go, FramesOK, FrameOK
    <3>2. ino' = ino /\ children' = children
      BY <1>13 DEF treeVars
    <3>3. ino[q] \in DirIno /\ fs'[ino[q]][n] = i /\ <<p, m>> # <<q, n>>
      BY <1>7, <1>8, <1>12, <2>3, <2>8
    <3>4. QED
      BY <1>1, <1>3, <2>6, <2>7, <3>1, <3>2, <3>3 DEF Writing
  <2>10. \A x \in alloc, y \in Name : ino[x] \in DirIno =>
           KeptAt(x, y) \/ \E k \in 1..Len(f.names) : x = f.objs[k] /\ y = f.names[k]
    BY <1>1, <2>4, <2>5
  <2>11. /\ blame = {} /\ UNCHANGED treeVars /\ pc[t] = "call" /\ f = fr[t]
         /\ f.op \in Changes /\ Go(t, "apply", f)
    BY <1>1, <1>3, <1>13, <2>1
  <2>12. QED
    BY <1>16, <2>9, <2>10, <2>11, ChangeTruth
<1>17. QED
  BY <1>14, <1>15, <1>16

(* Every call of the file system.                                          *)
LEMMA FileSystemTruth ==
  ASSUME TableOK, FramesOK, NEW t \in Thread, FileSystem(t)
  PROVE  /\ TableOK' /\ FramesOK'
         /\ EntriesTrue /\ WritesTrue /\ blame' = {} => EntriesTrue' /\ WritesTrue'
<1>1. CASE FsRefuses(t) \/ FsUse(t)
  <2>1. /\ pc[t] \in {"call", "list"} /\ Finish(t) /\ UNCHANGED <<treeVars, fs, handle>>
        /\ blame' = {} => blame = {}
    BY <1>1 DEF FsRefuses, FsUse, Call, Blame
  <2>2. alloc' = alloc /\ handle' = handle /\ fs' = fs
    BY <2>1 DEF treeVars
  <2>3. FramesOK'
    BY <2>1, <2>2, FinishFrames
  <2>4. TableOK'
    BY <2>1, <2>2, TableKept DEF TableOK
  <2>5. pc[t] # "apply" /\ pc'[t] # "apply"
    BY <2>1 DEF Finish, Go, FramesOK
  <2>6. \A u \in Thread \ {t} : pc'[u] = pc[u] /\ Kept(fr[u], fr'[u])
    BY <2>1 DEF Finish, Go, FramesOK, Kept, Same
  <2>7. QED
    BY <2>1, <2>3, <2>4, <2>5, <2>6, TruthQuiet
<1>2. CASE FsMake(t)
  <2>1. pc[t] = "call" /\ fr[t].op \in {"Make", "Link"} /\ \E i \in Ino : FsPut(t, i)
    BY <1>2 DEF FsMake, Call
  <2>2. QED
    BY <2>1, PutTruth
<1>3. CASE FsLink(t)
  <2>1. pc[t] = "call" /\ fr[t].op \in {"Make", "Link"} /\ \E i \in Ino : FsPut(t, i)
    BY <1>3 DEF FsLink, Call
  <2>2. QED
    BY <2>1, PutTruth
<1>4. QED
  BY <1>1, <1>2, <1>3, RemoveTruth, RenameTruth DEF FileSystem

-----------------------------------------------------------------------------
(* The steps of the bridge that leave the tree alone.                      *)

LEMMA GoTruth ==
  ASSUME TableOK, FramesOK, EntriesTrue, WritesTrue, UNCHANGED <<treeVars, fs>>,
         NEW t \in Thread, pc[t] # "apply", NEW l, NEW g, Go(t, l, g),
         l = "apply" => Writing(t)'
  PROVE  EntriesTrue' /\ WritesTrue'
<1>1. \A u \in Thread \ {t} : pc'[u] = pc[u] /\ Kept(fr[u], fr'[u])
  BY DEF Go, FramesOK, Kept, Same
<1>2. pc'[t] = l
  BY DEF Go, FramesOK
<1>3. QED
  BY <1>1, <1>2, TruthQuiet

LEMMA QuietTable == ASSUME TableOK, UNCHANGED <<treeVars, fs>> PROVE TableOK'
BY TableKept DEF TableOK

LEMMA WalkTruth ==
  ASSUME TableOK, FramesOK, NEW t \in Thread, Hop(t) \/ Found(t) \/ Opened(t) \/ List(t)
  PROVE  /\ TableOK' /\ FramesOK'
         /\ EntriesTrue /\ WritesTrue => EntriesTrue' /\ WritesTrue'
<1>1. UNCHANGED <<treeVars, fs>> /\ pc[t] \in {"walk", "open", "list"}
  BY DEF Hop, Found, Opened, List
<1>2. \E l \in Label \ {"apply"} : \E g : Go(t, l, g)
  <2>1. CASE Hop(t)
    <3>1. \E g : Go(t, "walk", g)
      BY <2>1 DEF Hop
    <3>2. QED
      BY <3>1 DEF Label
  <2>2. CASE Found(t)
    <3>1. \E g : Go(t, "walk", g) \/ Go(t, Then(fr[t].op), g)
      BY <2>2 DEF Found
    <3>2. PICK l : l = Then(fr[t].op)
      OBVIOUS
    <3>3. l \in {"look", "open", "list", "call"}
      BY <3>2 DEF Then
    <3>4. QED
      BY <3>1, <3>2, <3>3 DEF Label
  <2>3. CASE Opened(t)
    BY <2>3 DEF Opened, Finish, Label
  <2>4. CASE List(t)
    <3>1. \E g : Go(t, After(g), g)
      BY <2>4 DEF List, After
    <3>2. \A g : After(g) \in Label \ {"apply"}
      BY DEF After, Label
    <3>3. QED
      BY <3>1, <3>2
  <2>5. QED
    BY <2>1, <2>2, <2>3, <2>4
<1>3. TableOK' /\ FramesOK'
  BY <1>1, HopFrames, FoundFrames, OpenedFrames, ListFrames, QuietTable
<1>4. PICK l \in Label \ {"apply"} : \E g : Go(t, l, g)
  BY <1>2
<1>5. QED
  BY <1>1, <1>3, <1>4, GoTruth

(* What GetAttr answered is so, and a directory that the request found.    *)
LEMMA LookTruth ==
  ASSUME TableOK, FramesOK, NEW t \in Thread, Look(t)
  PROVE  /\ TableOK' /\ FramesOK'
         /\ EntriesTrue /\ WritesTrue /\ blame' = {} => EntriesTrue' /\ WritesTrue'
<1>1. UNCHANGED <<treeVars, fs>> /\ pc[t] = "look"
  BY DEF Look
<1>2. TableOK' /\ FramesOK'
  BY <1>1, LookFrames, QuietTable
<1>3. PICK f : f = fr[t]
  OBVIOUS
<1>4. FrameOK(alloc, "look", f)
  BY <1>1, <1>3 DEF FramesOK
<1>5. ASSUME EntriesTrue, WritesTrue, blame' = {} PROVE EntriesTrue' /\ WritesTrue'
  <2>1. Led(f)
    BY <1>3, <1>5 DEF Look, Blame
  <2>2. CASE \E i \in Ino \cup {NoIno} : Learns(t, f, i)
    <3>1. PICK i \in Ino \cup {NoIno} :
            /\ Go(t, "apply", [f EXCEPT !.cino = i])
            /\ i # NoIno /\ Led(f) =>
                 ino[Dir(f)] \in DirIno /\ fs[ino[Dir(f)]][f.names[1]] = i
      BY <2>2 DEF Learns
    <3>2. PICK g : g = [f EXCEPT !.cino = i]
      OBVIOUS
    <3>3. FrameOK(alloc, "apply", g) /\ Same(f, g) /\ g.cino = i /\ g.names = f.names
      BY <1>4, <3>2, LookedFits
    <3>4. Go(t, "apply", g) /\ fr'[t] = g
      BY <3>1, <3>2 DEF Go, FramesOK
    <3>5. g.op # "Rename" /\ Dir(g) = Dir(f)
      BY <1>4, <3>3 DEF FrameOK, OpsAt, Adders, Same, Dir
    <3>6. ino' = ino /\ fs' = fs
      BY <1>1 DEF treeVars
    <3>7. Writing(t)'
      BY <2>1, <3>1, <3>3, <3>4, <3>5, <3>6 DEF Writing
    <3>8. QED
      BY <1>1, <1>5, <3>4, <3>7, GoTruth
  <2>3. CASE \E g \in Nexts(f) : Go(t, After(g), g)
    <3>1. PICK g, l : Go(t, l, g) /\ l = After(g)
      BY <2>3
    <3>2. l # "apply"
      BY <3>1 DEF After
    <3>3. QED
      BY <1>1, <1>5, <3>1, <3>2, GoTruth
  <2>4. QED
    BY <1>3, <2>2, <2>3, LookStep
<1>6. QED
  BY <1>2, <1>5

LEMMA KernelTruth ==
  ASSUME TableOK, FramesOK, NEW t \in Thread, Kernel(t)
  PROVE  /\ TableOK' /\ FramesOK'
         /\ EntriesTrue /\ WritesTrue /\ blame' = {} => EntriesTrue' /\ WritesTrue'
<1>1. PICK l \in {"walk", "list"} : \E f : Send(t, l, f)
  BY KernelFrames
<1>2. PICK f : Send(t, l, f)
  BY <1>1
<1>3. pc[t] # "apply" /\ pc'[t] # "apply"
  BY <1>2 DEF Send, FramesOK
<1>4. \A u \in Thread \ {t} : pc'[u] = pc[u] /\ Kept(fr[u], fr'[u])
  BY <1>2, SendOthers
<1>5. UNCHANGED <<treeVars, fs>> /\ FramesOK'
  BY KernelFrames
<1>6. QED
  BY <1>3, <1>4, <1>5, TruthQuiet, QuietTable

-----------------------------------------------------------------------------
(* The steps of the tree.                                                  *)

LEMMA NotedFits ==
  ASSUME NEW A, NEW l, NEW f, NEW g, l # "idle", FrameOK(A, l, f),
         \E x, y : g = [f EXCEPT !.seen = x, !.moved = y]
  PROVE  FrameOK(A, l, g) /\ Kept(f, g)
<1>1. DOMAIN f = Fields
  BY FrameDomain DEF FrameOK
<1>2. /\ DOMAIN g = Fields /\ g.op = f.op /\ g.objs = f.objs /\ g.names = f.names
      /\ g.paths = f.paths /\ g.at = f.at /\ g.segs = f.segs /\ g.cino = f.cino
      /\ g.locks = f.locks /\ g.todo = f.todo
  BY <1>1 DEF Fields
<1>3. Dir(g) = Dir(f)
  BY <1>2 DEF Dir
<1>4. FrameOK(A, l, g)
  BY <1>1, <1>2, <1>3, FrameDomain DEF FrameOK
<1>5. QED
  BY <1>2, <1>4 DEF Kept, Same

LEMMA ChangedFrames ==
  ASSUME FramesOK, NEW t \in Thread, pc[t] = "apply", Changed(t), alloc \subseteq alloc'
  PROVE  /\ FramesOK' /\ pc'[t] # "apply"
         /\ \A u \in Thread \ {t} : pc'[u] = pc[u] /\ Kept(fr[u], fr'[u])
<1>1. PICK f : f = fr[t]
  OBVIOUS
<1>2. FrameOK(alloc, "apply", f)
  BY <1>1 DEF FramesOK
<1>3. PICK g \in Nexts(f) :
        /\ pc' = [pc EXCEPT ![t] = After(g)]
        /\ fr' = [u \in Thread |->
             IF u = t THEN g
             ELSE IF pc[u] = "walk" /\ parents' # parents THEN Noted(fr[u])
             ELSE fr[u]]
  BY <1>1 DEF Changed, After
<1>4. /\ FrameOK(alloc, After(g), g) /\ After(g) \in {"idle", "look"}
      /\ g = IdleFrame \/ Same(f, g)
  BY <1>2, NextFits
<1>5. /\ pc \in [Thread -> Label] /\ pc' \in [Thread -> Label] /\ pc'[t] = After(g)
      /\ \A u \in Thread \ {t} : pc'[u] = pc[u]
  BY <1>3, <1>4 DEF FramesOK, Label
<1>6. DOMAIN fr' = Thread /\ fr'[t] = g
  BY <1>3
<1>7. ASSUME NEW u \in Thread \ {t}
      PROVE  FrameOK(alloc, pc[u], fr'[u]) /\ Kept(fr[u], fr'[u])
  <2>1. PICK k, h, h1 : k = pc[u] /\ h = fr[u] /\ h1 = fr'[u]
    OBVIOUS
  <2>2. FrameOK(alloc, k, h)
    BY <2>1 DEF FramesOK
  <2>3. CASE pc[u] = "walk" /\ parents' # parents
    <3>1. \E x, y : h1 = [h EXCEPT !.seen = x, !.moved = y]
      BY <1>3, <2>1, <2>3 DEF Noted
    <3>2. k # "idle"
      BY <2>1, <2>3
    <3>3. FrameOK(alloc, k, h1) /\ Kept(h, h1)
      BY <2>2, <3>1, <3>2, NotedFits
    <3>4. QED
      BY <2>1, <3>3
  <2>4. CASE ~(pc[u] = "walk" /\ parents' # parents)
    <3>1. h1 = h
      BY <1>3, <2>1, <2>4
    <3>2. QED
      BY <2>1, <2>2, <3>1 DEF Kept, Same
  <2>5. QED
    BY <2>3, <2>4
<1>8. \A u \in Thread : FrameOK(alloc, pc'[u], fr'[u])
  BY <1>4, <1>5, <1>6, <1>7
<1>9. \A u \in Thread : FrameOK(alloc', pc'[u], fr'[u])
  BY <1>8, FrameGrows
<1>10. \A u \in Thread : fr'[u] = IdleFrame \/ Same(fr[u], fr'[u])
  BY <1>1, <1>4, <1>6, <1>7 DEF Kept
<1>11. handle' = handle /\ blame' = blame
  BY DEF Changed
<1>12. DOMAIN handle' = DOMAIN NoHandle /\ handle'.path \in Seq(Segment)
  BY <1>11 DEF FramesOK
<1>13. FramesOK'
  BY <1>5, <1>6, <1>9, <1>10, <1>11, <1>12, FramesKept
<1>14. pc'[t] # "apply"
  BY <1>4, <1>5
<1>15. QED
  BY <1>5, <1>7, <1>13, <1>14

LEMMA SeqWiden == ASSUME NEW A, NEW B, A \subseteq B PROVE Seq(A) \subseteq Seq(B)
OBVIOUS

LEMMA TableWiden ==
  ASSUME NEW A, NEW B, NEW C, NEW D, C \subseteq D, NEW f \in [A -> [B -> C]]
  PROVE  f \in [A -> [B -> D]]
<1>1. ASSUME NEW a \in A PROVE f[a] \in [B -> D]
  <2>1. f[a] \in [B -> C]
    OBVIOUS
  <2>2. QED
    BY <2>1
<1>2. QED
  BY <1>1

(* What a lookup leaves in the tree: c is the inode of number i.           *)
Added(p, m, i, c) ==
  /\ alloc' = alloc \cup {c} /\ ino'[c] = i /\ c \in Obj
  /\ nodes[i] = Nil => c \notin alloc
  /\ nodes[i] # Nil => c = nodes[i]
  /\ \A x \in alloc : ino'[x] = ino[x]
  /\ children'[p][m] = c
  /\ \A x \in Obj, y \in Name : ~(x = p /\ y = m) => children'[x][y] = children[x][y]
  /\ \A e : In(e, parents'[c]) <=> In(e, parents[c]) \/ e = T!EntryOf(m, p)
  /\ \A o \in Obj : o # c => parents'[o] = parents[o]

LEMMA AddTable ==
  ASSUME TableOK, NEW p \in alloc, NEW m \in Name, NEW i \in Ino, T!Add(p, m, i), fs' = fs
  PROVE  TableOK' /\ \E c : Added(p, m, i, c)
<1>1. PICK c \in Obj :
        /\ IF nodes[i] = Nil THEN c \notin alloc ELSE c = nodes[i]
        /\ alloc' = alloc \cup {c}
        /\ ino' = [ino EXCEPT ![c] = i]
        /\ nodes' = [nodes EXCEPT ![i] = c]
        /\ lookupCount' = [lookupCount EXCEPT ![c] = @ + 1]
        /\ children' = [children EXCEPT ![p][m] = c]
        /\ parents' = [parents EXCEPT ![c] = AddParent(@, T!EntryOf(m, p))]
  BY DEF T!Add, T!EntryOf
<1>2. PICK A, R, e : A = alloc' /\ R = [name : Name, node : A] /\ e = T!EntryOf(m, p)
  OBVIOUS
<1>3. alloc \subseteq A /\ A \subseteq Obj /\ c \in A /\ p \in Obj /\ e \in R
  BY <1>1, <1>2 DEF TableOK, T!EntryOf
<1>4. /\ ino' \in [Obj -> Ino] /\ ino'[c] = i /\ \A x \in Obj : x # c => ino'[x] = ino[x]
  BY <1>1 DEF TableOK
<1>5. /\ nodes' \in [Ino -> A \cup {Nil}] /\ nodes'[i] = c
      /\ \A x \in Ino : x # i => nodes'[x] = nodes[x]
  BY <1>1, <1>3 DEF TableOK
<1>6. lookupCount' \in [Obj -> Nat]
  BY <1>1 DEF TableOK
<1>7. /\ children' \in [Obj -> [Name -> A \cup {Nil}]] /\ children'[p][m] = c
      /\ \A x \in Obj, y \in Name : ~(x = p /\ y = m) => children'[x][y] = children[x][y]
  <2>1. PICK g, g1 : g = children /\ g1 = children'
    OBVIOUS
  <2>2. g \in [Obj -> [Name -> A \cup {Nil}]] /\ g1 = [g EXCEPT ![p][m] = c]
    <3>1. PICK C, D : C = alloc \cup {Nil} /\ D = A \cup {Nil}
      OBVIOUS
    <3>2. C \subseteq D /\ g \in [Obj -> [Name -> C]]
      BY <1>3, <2>1, <3>1 DEF TableOK
    <3>3. g \in [Obj -> [Name -> D]]
      BY <3>2, TableWiden
    <3>4. QED
      BY <1>1, <2>1, <3>1, <3>3
  <2>3. /\ g1 \in [Obj -> [Name -> A \cup {Nil}]] /\ g1[p][m] = c
        /\ \A x \in Obj, y \in Name : ~(x = p /\ y = m) => g1[x][y] = g[x][y]
    BY <1>3, <2>2, PutEntry
  <2>4. QED
    BY <2>1, <2>3
<1>8. ASSUME NEW o \in Obj PROVE parents[o] \in Seq(R) /\ Distinct(parents[o])
  <2>1. parents[o] \in Seq([name : Name, node : alloc])
    BY DEF TableOK
  <2>2. PICK S : S = [name : Name, node : alloc]
    OBVIOUS
  <2>3. parents[o] \in Seq(R)
    <3>1. S \subseteq R
      BY <1>2, <1>3, <2>2
    <3>2. Seq(S) \subseteq Seq(R)
      BY <3>1, SeqWiden
    <3>3. QED
      BY <2>1, <2>2, <3>2
  <2>4. QED
    BY <2>3 DEF TableOK, Distinct
<1>9. PICK s : s = AddParent(parents[c], e)
  OBVIOUS
<1>10. s \in Seq(R) /\ Distinct(s) /\ \A x : In(x, s) <=> In(x, parents[c]) \/ x = e
  BY <1>3, <1>8, <1>9, AddSeq
<1>11. /\ DOMAIN parents' = Obj /\ parents'[c] = s
       /\ \A o \in Obj : o # c => parents'[o] = parents[o]
       /\ parents' = [o \in Obj |-> IF o = c THEN s ELSE parents[o]]
  BY <1>1, <1>2, <1>9 DEF TableOK
<1>12. parents' \in [Obj -> Seq(R)]
  BY <1>8, <1>10, <1>11
<1>13. ASSUME NEW o \in Obj, NEW j \in 1..Len(parents'[o]), NEW k \in 1..Len(parents'[o]),
              parents'[o][j] = parents'[o][k]
       PROVE  j = k
  <2>1. Distinct(parents'[o])
    BY <1>8, <1>10, <1>11
  <2>2. QED
    BY <1>13, <2>1 DEF Distinct
<1>14. \A o \in A : nodes'[ino'[o]] = o
  <2>1. ASSUME NEW o \in A, o # c PROVE nodes'[ino'[o]] = o
    <3>1. o \in alloc /\ o \in Obj /\ ino'[o] = ino[o] /\ nodes[ino[o]] = o /\ ino[o] \in Ino
      BY <1>1, <1>2, <1>3, <1>4, <2>1 DEF TableOK
    <3>2. ino[o] # i
      BY <1>1, <2>1, <3>1, Numbers
    <3>3. QED
      BY <1>5, <3>1, <3>2
  <2>2. QED
    BY <1>4, <1>5, <2>1
<1>15. ASSUME NEW x \in Ino, nodes'[x] # Nil PROVE ino'[nodes'[x]] = x
  <2>1. CASE x = i
    BY <1>4, <1>5, <2>1
  <2>2. CASE x # i
    <3>1. PICK a : a = nodes[x]
      OBVIOUS
    <3>2. nodes'[x] = a /\ a # Nil /\ a \in alloc /\ ino[a] = x
      BY <1>5, <1>15, <2>2, <3>1 DEF TableOK
    <3>3. a # c
      <4>1. nodes[i] # Nil => ino[nodes[i]] = i
        BY DEF TableOK
      <4>2. QED
        BY <1>1, <2>2, <3>2, <4>1
    <3>4. QED
      BY <1>3, <1>4, <3>2, <3>3
  <2>3. QED
    BY <2>1, <2>2
<1>16. ASSUME NEW o \in Obj \ A
       PROVE  parents'[o] = <<>> /\ \A y \in Name : children'[o][y] = Nil
  <2>1. o # c /\ o # p /\ o \in Obj \ alloc
    BY <1>3
  <2>2. parents[o] = <<>> /\ \A y \in Name : children[o][y] = Nil
    BY <2>1 DEF TableOK
  <2>3. QED
    BY <1>7, <1>11, <2>1, <2>2
<1>17. fs' \in [DirIno -> [Name -> Ino \cup {NoIno}]]
  BY DEF TableOK
<1>18. TableOK'
  BY <1>2, <1>3, <1>4, <1>5, <1>6, <1>7, <1>12, <1>13, <1>14, <1>15, <1>16, <1>17 DEF TableOK
<1>19. \A x \in alloc : ino'[x] = ino[x]
  <2>1. ASSUME NEW x \in alloc, x = c PROVE ino'[x] = ino[x]
    <3>1. nodes[i] # Nil /\ ino[nodes[i]] = i
      BY <1>1, <2>1 DEF TableOK
    <3>2. QED
      BY <1>1, <1>4, <2>1, <3>1
  <2>2. QED
    BY <1>3, <1>4, <2>1
<1>20. Added(p, m, i, c)
  BY <1>1, <1>2, <1>4, <1>7, <1>10, <1>11, <1>19 DEF Added
<1>21. QED
  BY <1>18, <1>20

LEMMA UndoingKept ==
  ASSUME NEW u \in Thread, NEW e, pc'[u] = pc[u], Kept(fr[u], fr'[u]), Undoing(u, e)
  PROVE  Undoing(u, e)'
<1>1. PICK f, g : f = fr[u] /\ g = fr'[u]
  OBVIOUS
<1>2. pc'[u] = "apply" /\ g.op = f.op /\ g.objs = f.objs /\ g.names = f.names
  BY <1>1 DEF Kept, Same, Undoing
<1>3. QED
  BY <1>1, <1>2 DEF Undoing

(* What another request is about to write stays true if the tree does not  *)
(* give the entry that it renames to another inode.                        *)
LEMMA WritingTree ==
  ASSUME TableOK, FramesOK, NEW u \in Thread, pc[u] = "apply", Writing(u),
         Kept(fr[u], fr'[u]), fs' = fs, \A x \in alloc : ino'[x] = ino[x],
         NEW f, f = fr[u],
         f.op = "Rename" =>
           children'[f.objs[1]][f.names[1]] \in {Nil, children[f.objs[1]][f.names[1]]}
  PROVE  Writing(u)'
<1>1. PICK g : g = fr'[u]
  OBVIOUS
<1>2. g.op = f.op /\ g.objs = f.objs /\ g.names = f.names /\ g.cino = f.cino
  BY <1>1 DEF Kept, Same
<1>3. FrameOK(alloc, "apply", f)
  BY DEF FramesOK
<1>4. Dir(g) = Dir(f) /\ Dir(f) \in alloc
  BY <1>2, <1>3, FrameParts DEF Dir
<1>5. f.cino # NoIno => ino'[Dir(f)] \in DirIno /\ fs'[ino'[Dir(f)]][f.names[1]] = f.cino
  BY <1>4 DEF Writing
<1>6. ASSUME f.op = "Rename"
      PROVE  /\ ino'[f.objs[2]] \in DirIno
             /\ <<f.objs[1], f.names[1]>> # <<f.objs[2], f.names[2]>>
             /\ children'[f.objs[1]][f.names[1]] # Nil =>
                  fs'[ino'[f.objs[2]]][f.names[2]] = ino'[children'[f.objs[1]][f.names[1]]]
  <2>1. PICK p, q, m, n : p = f.objs[1] /\ q = f.objs[2] /\ m = f.names[1] /\ n = f.names[2]
    OBVIOUS
  <2>2. Len(f.objs) = 2 /\ Len(f.names) = 2
    BY <1>3, <1>6 DEF FrameOK
  <2>3. p \in Obj /\ q \in alloc /\ m \in Name
    <3>1. /\ \A k \in 1..Len(f.objs) : f.objs[k] \in alloc /\ f.objs[k] \in Obj
          /\ \A k \in 1..Len(f.names) : f.names[k] \in Name
      BY <1>3, FrameParts
    <3>2. 1 \in 1..Len(f.objs) /\ 2 \in 1..Len(f.objs) /\ 1 \in 1..Len(f.names)
      BY <2>2
    <3>3. QED
      BY <2>1, <3>1, <3>2
  <2>4. PICK c, c1 : c = children[p][m] /\ c1 = children'[p][m]
    OBVIOUS
  <2>5. c \in alloc \cup {Nil} /\ c1 \in {Nil, c}
    BY <1>6, <2>1, <2>3, <2>4, ChildType
  <2>6. ino'[q] = ino[q] /\ ino[q] \in DirIno /\ ~(p = q /\ m = n)
    BY <1>6, <2>1, <2>3 DEF Writing
  <2>7. c # Nil => fs[ino[q]][n] = ino[c]
    BY <1>6, <2>1, <2>4 DEF Writing
  <2>8. c1 # Nil => fs'[ino'[q]][n] = ino'[c1]
    <3>1. ASSUME c1 # Nil PROVE fs'[ino'[q]][n] = ino'[c1]
      <4>1. c1 = c /\ c # Nil /\ c \in alloc
        BY <2>5, <3>1
      <4>2. ino'[c] = ino[c]
        BY <4>1
      <4>3. QED
        BY <2>6, <2>7, <4>1, <4>2
    <3>2. QED
      BY <3>1
  <2>9. QED
    BY <2>1, <2>4, <2>6, <2>8
<1>7. QED
  BY <1>1, <1>2, <1>4, <1>5, <1>6 DEF Writing

LEMMA AddTruth ==
  ASSUME TableOK, FramesOK, NEW t \in Thread, AddChild(t)
  PROVE  /\ TableOK' /\ FramesOK'
         /\ EntriesTrue /\ WritesTrue /\ blame' = {} => EntriesTrue' /\ WritesTrue'
<1>1. PICK f, p, m, i : f = fr[t] /\ p = Dir(f) /\ m = f.names[1] /\ i = f.cino
  OBVIOUS
<1>2. pc[t] = "apply" /\ i # NoIno /\ T!Add(p, m, i) /\ Changed(t)
  BY <1>1 DEF AddChild
<1>3. FrameOK(alloc, "apply", f)
  BY <1>1, <1>2 DEF FramesOK
<1>4. f.op \in Adders /\ f.op \notin Changes /\ Len(f.names) = 1 /\ i \in Ino
  BY <1>1, <1>2, <1>3 DEF FrameOK, OpsAt, Adders, Changes, EntryOps
<1>5. p \in alloc /\ p \in Obj /\ m \in Name
  BY <1>1, <1>3, <1>4, FrameParts
<1>6. fs' = fs /\ blame' = blame
  BY <1>2 DEF Changed
<1>7. TableOK' /\ \E c : Added(p, m, i, c)
  BY <1>2, <1>4, <1>5, <1>6, AddTable
<1>8. PICK c : Added(p, m, i, c)
  BY <1>7
<1>9. /\ FramesOK' /\ pc'[t] # "apply"
      /\ \A u \in Thread \ {t} : pc'[u] = pc[u] /\ Kept(fr[u], fr'[u])
  <2>1. alloc \subseteq alloc'
    BY <1>8 DEF Added
  <2>2. QED
    BY <1>2, <2>1, ChangedFrames
<1>10. ASSUME EntriesTrue, WritesTrue, blame' = {} PROVE EntriesTrue' /\ WritesTrue'
  <2>1. blame = {} /\ AllTrue
    BY <1>6, <1>10, EntriesIn
  <2>2. PICK en : en = T!EntryOf(m, p)
    OBVIOUS
  <2>3. en.node = p /\ en.name = m
    BY <2>2, EntryParts
  <2>4. ino[p] \in DirIno /\ fs[ino[p]][m] = i
    BY <1>1, <1>2, <1>10 DEF WritesTrue, Writing
  <2>5. ASSUME NEW u \in Thread, NEW e, Undoing(u, e) PROVE u # t /\ Undoing(u, e)'
    <3>1. u # t
      BY <1>1, <1>4, <2>5 DEF Undoing
    <3>2. QED
      BY <1>9, <2>5, <3>1, UndoingKept
  <2>6. ASSUME NEW u \in Thread, Undoing(u, en) PROVE FALSE
    <3>1. u # t /\ fr[u].op \in Changes
      BY <2>5, <2>6 DEF Undoing
    <3>2. PICK k \in 1..Len(fr[u].names) : fr[u].objs[k] = p
      BY <2>3, <2>6 DEF Undoing
    <3>3. fr[t].op \in Adders /\ p = Dir(fr[t])
      BY <1>1, <1>4
    <3>4. fr[u].objs[k] # Dir(fr[t])
      BY <2>1, <3>1, <3>3, ApartAdder
    <3>5. QED
      BY <3>2, <3>3, <3>4
  <2>7. children[p][m] \in {Nil, c}
    <3>1. PICK x : x = children[p][m]
      OBVIOUS
    <3>2. ASSUME x # Nil PROVE x = c
      <4>1. x \in alloc /\ x \in Obj
        BY <1>5, <3>1, <3>2, ChildType
      <4>2. In(en, parents[x])
        BY <1>5, <2>1, <2>2, <3>1, <3>2 DEF AllTrue
      <4>3. InTrue(en, x)
        BY <2>1, <4>1, <4>2 DEF AllTrue
      <4>4. fs[ino[p]][m] = ino[x]
        BY <2>3, <2>6, <4>3 DEF InTrue
      <4>5. nodes[i] = x
        BY <2>4, <4>1, <4>4 DEF TableOK
      <4>6. QED
        BY <1>8, <3>2, <4>5 DEF Added
    <3>3. QED
      BY <3>1, <3>2
  <2>8. ASSUME NEW o \in Obj, NEW e, In(e, parents'[o]) PROVE InTrue(e, o)'
    <3>1. CASE o = c /\ e = en
      <4>1. children'[p][m] = c /\ ino'[p] = ino[p] /\ ino'[c] = i
        BY <1>5, <1>8 DEF Added
      <4>2. QED
        BY <1>6, <2>3, <2>4, <3>1, <4>1 DEF InTrue
    <3>2. CASE ~(o = c /\ e = en)
      <4>1. In(e, parents[o])
        <5>1. CASE o = c
          BY <1>8, <2>2, <2>8, <3>2, <5>1 DEF Added
        <5>2. CASE o # c
          BY <1>8, <2>8, <5>2 DEF Added
        <5>3. QED
          BY <5>1, <5>2
      <4>2. InTrue(e, o)
        BY <2>1, <4>1 DEF AllTrue
      <4>3. o \in alloc /\ e.node \in alloc /\ e.node \in Obj /\ e.name \in Name
        BY <4>1, ParentEntry
      <4>4. ino'[o] = ino[o] /\ ino'[e.node] = ino[e.node]
        BY <1>8, <4>3 DEF Added
      <4>5. children'[e.node][e.name] = o
        <5>1. CASE e.node = p /\ e.name = m
          <6>1. o = children[p][m] /\ o # Nil
            BY <4>2, <5>1, Numbers DEF InTrue
          <6>2. o = c
            BY <2>7, <6>1
          <6>3. QED
            BY <1>8, <5>1, <6>2 DEF Added
        <5>2. CASE ~(e.node = p /\ e.name = m)
          <6>1. children[e.node][e.name] = o
            BY <4>2 DEF InTrue
          <6>2. PICK x \in Obj, y \in Name : x = e.node /\ y = e.name
            BY <4>3
          <6>3. children'[x][y] = children[x][y]
            <7>1. \A v \in Obj, w \in Name :
                    ~(v = p /\ w = m) => children'[v][w] = children[v][w]
              BY <1>8 DEF Added
            <7>2. ~(x = p /\ y = m)
              BY <5>2, <6>2
            <7>3. QED
              BY <7>1, <7>2
          <6>4. QED
            BY <6>1, <6>2, <6>3
        <5>3. QED
          BY <5>1, <5>2
      <4>6. QED
        BY <1>6, <2>5, <4>2, <4>4, <4>5 DEF InTrue
    <3>3. QED
      BY <3>1, <3>2
  <2>9. ASSUME NEW x \in Obj, NEW y \in Name, children'[x][y] # Nil
        PROVE  In(T!EntryOf(y, x), parents'[children'[x][y]])
    <3>1. CASE x = p /\ y = m
      BY <1>8, <3>1 DEF Added
    <3>2. CASE ~(x = p /\ y = m)
      <4>1. PICK z : z = children[x][y]
        OBVIOUS
      <4>2. children'[x][y] = z /\ z # Nil
        BY <1>8, <2>9, <3>2, <4>1 DEF Added
      <4>3. In(T!EntryOf(y, x), parents[z]) /\ z \in Obj
        <5>1. z \in Obj
          BY <4>1, <4>2, ChildType
        <5>2. QED
          BY <2>1, <4>1, <4>2, <5>1 DEF AllTrue
      <4>4. In(T!EntryOf(y, x), parents'[z])
        <5>1. CASE z = c
          BY <1>8, <4>3, <5>1 DEF Added
        <5>2. CASE z # c
          BY <1>8, <4>3, <5>2 DEF Added
        <5>3. QED
          BY <5>1, <5>2
      <4>5. QED
        BY <4>2, <4>4
    <3>3. QED
      BY <3>1, <3>2
  <2>10. ASSUME NEW u \in Thread, pc'[u] = "apply" PROVE Writing(u)'
    <3>1. u # t /\ pc[u] = "apply"
      BY <1>9, <2>10
    <3>2. PICK h : h = fr[u]
      OBVIOUS
    <3>3. FrameOK(alloc, "apply", h)
      BY <3>1, <3>2 DEF FramesOK
    <3>4. ASSUME h.op = "Rename"
          PROVE  children'[h.objs[1]][h.names[1]] = children[h.objs[1]][h.names[1]]
      <4>1. Len(h.objs) = 2 /\ Len(h.names) = 2 /\ h.op \in Changes
        BY <3>3, <3>4 DEF FrameOK, Changes
      <4>2. h.objs[1] \in Obj /\ h.names[1] \in Name
        BY <3>3, <4>1, FrameParts
      <4>3. fr[t].op \in Adders /\ p = Dir(fr[t]) /\ fr[u].op \in Changes
            /\ 1 \in 1..Len(fr[u].names)
        BY <1>1, <1>4, <3>2, <4>1
      <4>4. fr[u].objs[1] # Dir(fr[t])
        BY <2>1, <3>1, <4>3, ApartAdder
      <4>5. PICK x \in Obj, y \in Name : x = h.objs[1] /\ y = h.names[1]
        BY <4>2
      <4>6. x # p
        BY <3>2, <4>3, <4>4, <4>5
      <4>7. children'[x][y] = children[x][y]
        BY <1>8, <4>6 DEF Added
      <4>8. QED
        BY <4>5, <4>7
    <3>5. /\ Writing(u) /\ Kept(fr[u], fr'[u]) /\ \A x \in alloc : ino'[x] = ino[x]
      BY <1>8, <1>9, <1>10, <3>1 DEF WritesTrue, Added
    <3>6. QED
      BY <1>6, <3>1, <3>2, <3>4, <3>5, WritingTree
  <2>11. AllTrue'
    BY <2>8, <2>9 DEF AllTrue
  <2>12. QED
    BY <2>10, <2>11, EntriesInNext DEF WritesTrue
<1>11. QED
  BY <1>7, <1>9, <1>10

LEMMA DelSeq ==
  ASSUME NEW S, NEW s \in Seq(S), Distinct(s), NEW e
  PROVE  /\ DelParent(s, e) \in Seq(S) /\ Distinct(DelParent(s, e))
         /\ \A x : In(x, DelParent(s, e)) <=> In(x, s) /\ x # e
BY WithoutSeq DEF DelParent

(* A step that only takes entries away or moves them within the table.     *)
LEMMA RelinkTable ==
  ASSUME TableOK, UNCHANGED <<alloc, ino, lookupCount, nodes, fs>>,
         children' \in [Obj -> [Name -> alloc \cup {Nil}]],
         parents' \in [Obj -> Seq([name : Name, node : alloc])],
         \A o \in Obj : Distinct(parents'[o]),
         \A o \in Obj \ alloc : parents'[o] = parents[o],
         \A o \in Obj \ alloc : \A m \in Name : children'[o][m] = children[o][m]
  PROVE  TableOK'
<1>1. \A o \in Obj : \A j, k \in 1..Len(parents'[o]) : parents'[o][j] = parents'[o][k] => j = k
  BY DEF Distinct
<1>2. ASSUME NEW o \in Obj \ alloc
      PROVE  parents'[o] = <<>> /\ \A m \in Name : children'[o][m] = Nil
  <2>1. parents[o] = <<>> /\ \A m \in Name : children[o][m] = Nil
    BY DEF TableOK
  <2>2. parents'[o] = parents[o] /\ \A m \in Name : children'[o][m] = children[o][m]
    OBVIOUS
  <2>3. QED
    BY <2>1, <2>2
<1>3. alloc' = alloc /\ ino' = ino /\ lookupCount' = lookupCount /\ nodes' = nodes /\ fs' = fs
  OBVIOUS
<1>4. QED
  BY <1>1, <1>2, <1>3 DEF TableOK

LEMMA ParentsType ==
  ASSUME TableOK, NEW o \in Obj
  PROVE  parents[o] \in Seq([name : Name, node : alloc]) /\ Distinct(parents[o])
BY DEF TableOK, Distinct

(* What a removal leaves in the tree: c was the inode of the entry.        *)
Removed(p, m, c) ==
  /\ ino' = ino /\ alloc' = alloc /\ c \in Obj /\ children'[p][m] = Nil
  /\ \A x \in Obj, y \in Name : ~(x = p /\ y = m) => children'[x][y] = children[x][y]
  /\ \A e : In(e, parents'[c]) <=> In(e, parents[c]) /\ e # T!EntryOf(m, p)
  /\ \A o \in Obj : o # c => parents'[o] = parents[o]

LEMMA RemoveTable ==
  ASSUME TableOK, NEW p \in alloc, NEW m \in Name, T!Remove(p, m), fs' = fs,
         NEW c, c = children[p][m]
  PROVE  TableOK' /\ Removed(p, m, c)
<1>1. /\ c # Nil
      /\ children' = [children EXCEPT ![p][m] = Nil]
      /\ parents' = [parents EXCEPT ![c] = DelParent(@, T!EntryOf(m, p))]
      /\ alloc' = alloc /\ ino' = ino /\ lookupCount' = lookupCount /\ nodes' = nodes
  BY DEF T!Remove, T!EntryOf
<1>2. p \in Obj /\ alloc \subseteq Obj
  BY DEF TableOK
<1>3. c \in alloc /\ c \in Obj
  BY <1>1, <1>2, ChildType
<1>4. PICK R, e : R = [name : Name, node : alloc] /\ e = T!EntryOf(m, p)
  OBVIOUS
<1>5. /\ children' \in [Obj -> [Name -> alloc \cup {Nil}]] /\ children'[p][m] = Nil
      /\ \A x \in Obj, y \in Name : ~(x = p /\ y = m) => children'[x][y] = children[x][y]
  <2>1. PICK g, g1 : g = children /\ g1 = children'
    OBVIOUS
  <2>2. /\ g \in [Obj -> [Name -> alloc \cup {Nil}]] /\ g1 = [g EXCEPT ![p][m] = Nil]
    BY <1>1, <2>1 DEF TableOK
  <2>3. PICK C, z : C = alloc \cup {Nil} /\ z = Nil
    OBVIOUS
  <2>4. g \in [Obj -> [Name -> C]] /\ z \in C /\ g1 = [g EXCEPT ![p][m] = z]
    BY <2>2, <2>3
  <2>5. /\ g1 \in [Obj -> [Name -> C]] /\ g1[p][m] = z
        /\ \A x \in Obj, y \in Name : ~(x = p /\ y = m) => g1[x][y] = g[x][y]
    BY <1>2, <2>4, PutEntry
  <2>6. QED
    BY <2>1, <2>3, <2>5
<1>6. PICK s : s = DelParent(parents[c], e)
  OBVIOUS
<1>7. s \in Seq(R) /\ Distinct(s) /\ \A x : In(x, s) <=> In(x, parents[c]) /\ x # e
  <2>1. PICK w : w = parents[c]
    OBVIOUS
  <2>2. w \in Seq(R) /\ Distinct(w)
    BY <1>3, <1>4, <2>1, ParentsType
  <2>3. s = DelParent(w, e)
    BY <1>6, <2>1
  <2>4. s \in Seq(R) /\ Distinct(s) /\ \A x : In(x, s) <=> In(x, w) /\ x # e
    BY <2>2, <2>3, DelSeq
  <2>5. QED
    BY <2>1, <2>4
<1>8. /\ parents' = [o \in Obj |-> IF o = c THEN s ELSE parents[o]]
  BY <1>1, <1>4, <1>6 DEF TableOK
<1>9. /\ parents' \in [Obj -> Seq(R)] /\ \A o \in Obj : Distinct(parents'[o])
      /\ parents'[c] = s /\ \A o \in Obj : o # c => parents'[o] = parents[o]
  BY <1>3, <1>4, <1>7, <1>8, ParentsType
<1>10. /\ \A o \in Obj \ alloc : parents'[o] = parents[o]
       /\ \A o \in Obj \ alloc : \A y \in Name : children'[o][y] = children[o][y]
  BY <1>3, <1>5, <1>9
<1>11. TableOK'
  BY <1>1, <1>4, <1>5, <1>9, <1>10, RelinkTable
<1>12. QED
  BY <1>1, <1>3, <1>4, <1>5, <1>7, <1>9, <1>11 DEF Removed

(* What a removal leaves in the tree, whether the entry was there or not.  *)
Dropped(p, m) ==
  /\ ino' = ino /\ alloc' = alloc /\ fs' = fs /\ children'[p][m] = Nil
  /\ \A x \in Obj, y \in Name : ~(x = p /\ y = m) => children'[x][y] = children[x][y]
  /\ \A o \in Obj : \A e :
       In(e, parents'[o]) <=> In(e, parents[o]) /\ e # T!EntryOf(m, p)

LEMMA RemoveDrops ==
  ASSUME TableOK, AllTrue, NEW p \in alloc, NEW m \in Name, fs' = fs,
         T!Remove(p, m) \/ (children[p][m] = Nil /\ UNCHANGED treeVars)
  PROVE  Dropped(p, m)
<1>1. p \in Obj
  BY DEF TableOK
<1>2. PICK en, c : en = T!EntryOf(m, p) /\ c = children[p][m]
  OBVIOUS
<1>3. ASSUME NEW o \in Obj, In(en, parents[o]) PROVE o = c /\ c # Nil
  <2>1. InTrue(en, o)
    BY <1>3 DEF AllTrue
  <2>2. QED
    BY <1>2, <2>1, EntryParts, Numbers DEF InTrue
<1>4. CASE T!Remove(p, m)
  <2>1. Removed(p, m, c)
    BY <1>2, <1>4, RemoveTable
  <2>2. ASSUME NEW o \in Obj, NEW e
        PROVE  In(e, parents'[o]) <=> In(e, parents[o]) /\ e # en
    <3>1. CASE o = c
      BY <1>2, <2>1, <3>1 DEF Removed
    <3>2. CASE o # c
      BY <1>3, <2>1, <3>2 DEF Removed
    <3>3. QED
      BY <3>1, <3>2
  <2>3. QED
    BY <1>2, <2>1, <2>2 DEF Dropped, Removed
<1>5. CASE children[p][m] = Nil /\ UNCHANGED treeVars
  <2>1. /\ ino' = ino /\ alloc' = alloc /\ children' = children /\ parents' = parents
    BY <1>5 DEF treeVars
  <2>2. ASSUME NEW o \in Obj, NEW e
        PROVE  In(e, parents'[o]) <=> In(e, parents[o]) /\ e # en
    BY <1>2, <1>3, <1>5, <2>1
  <2>3. QED
    BY <1>2, <1>5, <2>1, <2>2 DEF Dropped
<1>6. QED
  BY <1>4, <1>5

LEMMA RmTruth ==
  ASSUME TableOK, FramesOK, NEW t \in Thread, RmChild(t)
  PROVE  /\ TableOK' /\ FramesOK'
         /\ EntriesTrue /\ WritesTrue /\ blame' = {} => EntriesTrue' /\ WritesTrue'
<1>1. PICK f, p, m : f = fr[t] /\ p = Dir(f) /\ m = f.names[1]
  OBVIOUS
<1>2. /\ pc[t] = "apply" /\ f.op # "Rename" /\ Changed(t)
      /\ T!Remove(p, m) \/ (children[p][m] = Nil /\ UNCHANGED treeVars)
  BY <1>1 DEF RmChild
<1>3. FrameOK(alloc, "apply", f)
  BY <1>1, <1>2 DEF FramesOK
<1>4. Len(f.names) = 1 /\ (f.op = "Remove" => Len(f.objs) = 1)
  BY <1>2, <1>3 DEF FrameOK, OpsAt, Adders, Changes, EntryOps
<1>5. p \in alloc /\ p \in Obj /\ m \in Name
  <2>1. /\ \A k \in 1..Len(f.names) : f.names[k] \in Name
        /\ Dir(f) \in alloc /\ Dir(f) \in Obj
    BY <1>3, FrameParts
  <2>2. 1 \in 1..Len(f.names)
    BY <1>4
  <2>3. QED
    BY <1>1, <2>1, <2>2
<1>6. fs' = fs /\ blame' = blame
  BY <1>2 DEF Changed
<1>7. TableOK' /\ alloc' = alloc
  <2>1. CASE T!Remove(p, m)
    <3>1. PICK c : c = children[p][m]
      OBVIOUS
    <3>2. QED
      BY <1>5, <1>6, <2>1, <3>1, RemoveTable DEF Removed
  <2>2. CASE UNCHANGED treeVars
    BY <1>6, <2>2, QuietTable DEF treeVars
  <2>3. QED
    BY <1>2, <2>1, <2>2
<1>8. /\ FramesOK' /\ pc'[t] # "apply"
      /\ \A u \in Thread \ {t} : pc'[u] = pc[u] /\ Kept(fr[u], fr'[u])
  <2>1. alloc \subseteq alloc'
    BY <1>7
  <2>2. QED
    BY <1>2, <2>1, ChangedFrames
<1>9. ASSUME EntriesTrue, WritesTrue, blame' = {} PROVE EntriesTrue' /\ WritesTrue'
  <2>1. AllTrue
    BY <1>9, EntriesIn
  <2>2. Dropped(p, m)
    BY <1>2, <1>5, <1>6, <2>1, RemoveDrops
  <2>3. PICK en : en = T!EntryOf(m, p)
    OBVIOUS
  <2>4. ASSUME NEW o \in Obj, NEW e, In(e, parents'[o]) PROVE InTrue(e, o)'
    <3>1. In(e, parents[o]) /\ e # en
      BY <2>2, <2>3, <2>4 DEF Dropped
    <3>2. InTrue(e, o)
      BY <2>1, <3>1 DEF AllTrue
    <3>3. e.node \in Obj /\ e.name \in Name /\ e = T!EntryOf(e.name, e.node)
      BY <3>1, ParentEntry
    <3>4. ~(e.node = p /\ e.name = m)
      BY <2>3, <3>1, <3>3
    <3>5. children'[e.node][e.name] = o
      BY <2>2, <3>2, <3>3, <3>4 DEF Dropped, InTrue
    <3>6. ASSUME NEW u \in Thread, Undoing(u, e) PROVE Undoing(u, e)'
      <4>1. u # t
        <5>1. ASSUME Undoing(t, e) PROVE FALSE
          <6>1. f.op = "Remove"
            BY <1>1, <1>2, <5>1 DEF Undoing, Changes
          <6>2. PICK k \in 1..Len(f.names) : f.objs[k] = e.node /\ f.names[k] = e.name
            BY <1>1, <5>1 DEF Undoing
          <6>3. k = 1 /\ p = f.objs[1]
            BY <1>1, <1>4, <6>1, <6>2 DEF Dir, LastOf
          <6>4. QED
            BY <1>1, <3>4, <6>2, <6>3
        <5>2. QED
          BY <3>6, <5>1
      <4>2. QED
        BY <1>8, <3>6, <4>1, UndoingKept
    <3>7. QED
      BY <2>2, <3>2, <3>5, <3>6 DEF InTrue, Dropped
  <2>5. ASSUME NEW x \in Obj, NEW y \in Name, children'[x][y] # Nil
        PROVE  In(T!EntryOf(y, x), parents'[children'[x][y]])
    <3>1. ~(x = p /\ y = m)
      BY <2>2, <2>5 DEF Dropped
    <3>2. PICK z : z = children[x][y]
      OBVIOUS
    <3>3. children'[x][y] = z /\ z # Nil
      BY <2>2, <2>5, <3>1, <3>2 DEF Dropped
    <3>4. In(T!EntryOf(y, x), parents[z]) /\ z \in Obj
      <4>1. z \in Obj
        BY <3>2, <3>3, ChildType
      <4>2. QED
        BY <2>1, <3>2, <3>3, <4>1 DEF AllTrue
    <3>5. T!EntryOf(y, x) # T!EntryOf(m, p)
      BY <3>1, EntryParts
    <3>6. In(T!EntryOf(y, x), parents'[z])
      BY <2>2, <3>4, <3>5 DEF Dropped
    <3>7. QED
      BY <3>3, <3>6
  <2>6. ASSUME NEW u \in Thread, pc'[u] = "apply" PROVE Writing(u)'
    <3>1. u # t /\ pc[u] = "apply"
      BY <1>8, <2>6
    <3>2. PICK h : h = fr[u]
      OBVIOUS
    <3>3. FrameOK(alloc, "apply", h)
      BY <3>1, <3>2 DEF FramesOK
    <3>4. ASSUME h.op = "Rename"
          PROVE  children'[h.objs[1]][h.names[1]] \in {Nil, children[h.objs[1]][h.names[1]]}
      <4>1. Len(h.objs) = 2 /\ Len(h.names) = 2
        BY <3>3, <3>4 DEF FrameOK
      <4>2. h.objs[1] \in Obj /\ h.names[1] \in Name
        BY <3>3, <4>1, FrameParts
      <4>3. PICK x \in Obj, y \in Name : x = h.objs[1] /\ y = h.names[1]
        BY <4>2
      <4>4. children'[x][y] \in {Nil, children[x][y]}
        BY <2>2 DEF Dropped
      <4>5. QED
        BY <4>3, <4>4
    <3>5. Writing(u) /\ Kept(fr[u], fr'[u]) /\ \A x \in alloc : ino'[x] = ino[x]
      BY <1>8, <1>9, <2>2, <3>1 DEF WritesTrue, Dropped
    <3>6. QED
      BY <1>6, <3>1, <3>2, <3>4, <3>5, WritingTree
  <2>7. AllTrue'
    BY <2>4, <2>5 DEF AllTrue
  <2>8. QED
    BY <2>6, <2>7, EntriesInNext DEF WritesTrue
<1>10. QED
  BY <1>7, <1>8, <1>9

(* What a rename leaves in the tree: c was the inode of the old entry, and *)
(* d the one of the new.                                                   *)
Relinked(p, m, q, k, c, d) ==
  /\ ino' = ino /\ alloc' = alloc /\ children'[q][k] = c
  /\ ~(p = q /\ m = k) => children'[p][m] = Nil
  /\ \A x \in Obj, y \in Name :
       ~(x = p /\ y = m) /\ ~(x = q /\ y = k) => children'[x][y] = children[x][y]
  /\ \A e : c \in Obj =>
       (In(e, parents'[c]) <=> (In(e, parents[c]) /\ e # T!EntryOf(m, p)) \/ e = T!EntryOf(k, q))
  /\ \A e : d \in Obj /\ d # c =>
       (In(e, parents'[d]) <=> In(e, parents[d]) /\ e # T!EntryOf(k, q))
  /\ \A o \in Obj : o # c /\ o # d => parents'[o] = parents[o]

LEMMA MoveTable ==
  ASSUME TableOK, NEW p \in alloc, NEW m \in Name, NEW q \in alloc, NEW k \in Name,
         T!Move(p, m, q, k), fs' = fs,
         NEW c, c = children[p][m], NEW d, d = children[q][k]
  PROVE  TableOK' /\ Relinked(p, m, q, k, c, d)
<1>1. PICK R, e1, e2 : /\ R = [name : Name, node : alloc]
                       /\ e1 = T!EntryOf(m, p) /\ e2 = T!EntryOf(k, q)
  OBVIOUS
<1>2. /\ children' = [children EXCEPT ![p][m] = Nil, ![q][k] = c]
      /\ parents' = [o \in Obj |->
           IF o = c
             THEN AddParent(IF o = d
                            THEN DelParent(IF o = c THEN DelParent(parents[o], e1)
                                           ELSE parents[o], e2)
                            ELSE IF o = c THEN DelParent(parents[o], e1) ELSE parents[o], e2)
             ELSE IF o = d THEN DelParent(IF o = c THEN DelParent(parents[o], e1)
                                          ELSE parents[o], e2)
                  ELSE IF o = c THEN DelParent(parents[o], e1) ELSE parents[o]]
      /\ alloc' = alloc /\ ino' = ino /\ lookupCount' = lookupCount /\ nodes' = nodes
  BY <1>1 DEF T!Move, T!EntryOf
<1>3. p \in Obj /\ q \in Obj /\ alloc \subseteq Obj /\ e2 \in R
  BY <1>1 DEF TableOK, T!EntryOf
<1>4. c \in alloc \cup {Nil} /\ d \in alloc \cup {Nil}
  BY <1>3, ChildType
<1>5. /\ children' \in [Obj -> [Name -> alloc \cup {Nil}]] /\ children'[q][k] = c
      /\ ~(p = q /\ m = k) => children'[p][m] = Nil
      /\ \A x \in Obj, y \in Name :
           ~(x = p /\ y = m) /\ ~(x = q /\ y = k) => children'[x][y] = children[x][y]
  <2>1. PICK C, z, g, h, g1 : /\ C = alloc \cup {Nil} /\ z = Nil /\ g = children
                              /\ h = [g EXCEPT ![p][m] = z] /\ g1 = children'
    OBVIOUS
  <2>2. g \in [Obj -> [Name -> C]] /\ z \in C /\ c \in C
    BY <1>4, <2>1 DEF TableOK
  <2>3. /\ h \in [Obj -> [Name -> C]] /\ h[p][m] = z
        /\ \A x \in Obj, y \in Name : ~(x = p /\ y = m) => h[x][y] = g[x][y]
    BY <1>3, <2>1, <2>2, PutEntry
  <2>4. g1 = [h EXCEPT ![q][k] = c]
    BY <1>2, <2>1
  <2>5. /\ g1 \in [Obj -> [Name -> C]] /\ g1[q][k] = c
        /\ \A x \in Obj, y \in Name : ~(x = q /\ y = k) => g1[x][y] = h[x][y]
    BY <1>3, <2>2, <2>3, <2>4, PutEntry
  <2>6. ~(p = q /\ m = k) => g1[p][m] = z
    BY <1>3, <2>3, <2>5
  <2>7. \A x \in Obj, y \in Name :
          ~(x = p /\ y = m) /\ ~(x = q /\ y = k) => g1[x][y] = g[x][y]
    BY <2>3, <2>5
  <2>8. QED
    BY <2>1, <2>5, <2>6, <2>7
<1>6. ASSUME NEW o \in Obj, o = c
      PROVE  /\ parents'[o] \in Seq(R) /\ Distinct(parents'[o])
             /\ \A e : In(e, parents'[o]) <=> (In(e, parents[o]) /\ e # e1) \/ e = e2
  <2>1. PICK s, s1 : s = parents[o] /\ s1 = DelParent(s, e1)
    OBVIOUS
  <2>2. s \in Seq(R) /\ Distinct(s)
    BY <1>1, <2>1, ParentsType
  <2>3. s1 \in Seq(R) /\ Distinct(s1) /\ \A e : In(e, s1) <=> In(e, s) /\ e # e1
    BY <2>1, <2>2, DelSeq
  <2>4. CASE o = d
    <3>1. PICK s2, s3 : s2 = DelParent(s1, e2) /\ s3 = AddParent(s2, e2)
      OBVIOUS
    <3>2. parents'[o] = s3
      BY <1>2, <1>6, <2>1, <2>4, <3>1
    <3>3. s2 \in Seq(R) /\ Distinct(s2) /\ \A e : In(e, s2) <=> In(e, s1) /\ e # e2
      BY <2>3, <3>1, DelSeq
    <3>4. s3 \in Seq(R) /\ Distinct(s3) /\ \A e : In(e, s3) <=> In(e, s2) \/ e = e2
      BY <1>3, <3>1, <3>3, AddSeq
    <3>5. \A e : In(e, s3) <=> (In(e, s) /\ e # e1) \/ e = e2
      BY <2>3, <3>3, <3>4
    <3>6. QED
      BY <2>1, <3>2, <3>4, <3>5
  <2>5. CASE o # d
    <3>1. PICK s3 : s3 = AddParent(s1, e2)
      OBVIOUS
    <3>2. parents'[o] = s3
      BY <1>2, <1>6, <2>1, <2>5, <3>1
    <3>3. s3 \in Seq(R) /\ Distinct(s3) /\ \A e : In(e, s3) <=> In(e, s1) \/ e = e2
      BY <1>3, <2>3, <3>1, AddSeq
    <3>4. \A e : In(e, s3) <=> (In(e, s) /\ e # e1) \/ e = e2
      BY <2>3, <3>3
    <3>5. QED
      BY <2>1, <3>2, <3>3, <3>4
  <2>6. QED
    BY <2>4, <2>5
<1>7. ASSUME NEW o \in Obj, o # c, o = d
      PROVE  /\ parents'[o] \in Seq(R) /\ Distinct(parents'[o])
             /\ \A e : In(e, parents'[o]) <=> In(e, parents[o]) /\ e # e2
  <2>1. PICK s, s1 : s = parents[o] /\ s1 = DelParent(s, e2)
    OBVIOUS
  <2>2. s \in Seq(R) /\ Distinct(s)
    BY <1>1, <2>1, ParentsType
  <2>3. s1 \in Seq(R) /\ Distinct(s1) /\ \A e : In(e, s1) <=> In(e, s) /\ e # e2
    BY <2>1, <2>2, DelSeq
  <2>4. parents'[o] = s1
    BY <1>2, <1>7, <2>1
  <2>5. QED
    BY <2>1, <2>3, <2>4
<1>8. ASSUME NEW o \in Obj, o # c, o # d PROVE parents'[o] = parents[o]
  BY <1>2, <1>8
<1>9. ASSUME NEW o \in Obj PROVE parents'[o] \in Seq(R) /\ Distinct(parents'[o])
  BY <1>1, <1>6, <1>7, <1>8, ParentsType
<1>10. parents' \in [Obj -> Seq(R)]
  BY <1>2, <1>9
<1>11. ASSUME NEW o \in Obj \ alloc
       PROVE  parents'[o] = parents[o] /\ \A y \in Name : children'[o][y] = children[o][y]
  <2>1. o # c /\ o # d /\ o # p /\ o # q
    BY <1>4, Numbers
  <2>2. QED
    BY <1>5, <1>8, <2>1
<1>12. TableOK'
  BY <1>1, <1>2, <1>5, <1>9, <1>10, <1>11, RelinkTable
<1>13. Relinked(p, m, q, k, c, d)
  <2>1. \A e : c \in Obj =>
          (In(e, parents'[c]) <=> (In(e, parents[c]) /\ e # e1) \/ e = e2)
    BY <1>6
  <2>2. \A e : d \in Obj /\ d # c => (In(e, parents'[d]) <=> In(e, parents[d]) /\ e # e2)
    BY <1>7
  <2>3. QED
    BY <1>1, <1>2, <1>5, <1>8, <2>1, <2>2 DEF Relinked
<1>14. QED
  BY <1>12, <1>13

LEMMA MvTruth ==
  ASSUME TableOK, FramesOK, NEW t \in Thread, MvChild(t)
  PROVE  /\ TableOK' /\ FramesOK'
         /\ EntriesTrue /\ WritesTrue /\ blame' = {} => EntriesTrue' /\ WritesTrue'
<1>1. PICK f, p, q, m, k : /\ f = fr[t] /\ p = f.objs[1] /\ q = f.objs[2]
                           /\ m = f.names[1] /\ k = f.names[2]
  OBVIOUS
<1>2. pc[t] = "apply" /\ f.op = "Rename" /\ T!Move(p, m, q, k) /\ Changed(t)
  BY <1>1 DEF MvChild
<1>3. FrameOK(alloc, "apply", f)
  BY <1>1, <1>2 DEF FramesOK
<1>4. Len(f.names) = 2 /\ Len(f.objs) = 2 /\ f.op \in Changes /\ f.cino = NoIno
  BY <1>2, <1>3 DEF FrameOK, Changes
<1>5. m \in Name /\ k \in Name /\ p \in alloc /\ q \in alloc /\ p \in Obj /\ q \in Obj
  <2>1. /\ \A j \in 1..Len(f.objs) : f.objs[j] \in alloc /\ f.objs[j] \in Obj
        /\ \A j \in 1..Len(f.names) : f.names[j] \in Name
    BY <1>3, FrameParts
  <2>2. 1 \in 1..Len(f.objs) /\ 2 \in 1..Len(f.objs) /\ 1 \in 1..Len(f.names)
        /\ 2 \in 1..Len(f.names)
    BY <1>4
  <2>3. QED
    BY <1>1, <2>1, <2>2
<1>6. fs' = fs /\ blame' = blame
  BY <1>2 DEF Changed
<1>7. PICK c, d : c = children[p][m] /\ d = children[q][k]
  OBVIOUS
<1>8. TableOK' /\ Relinked(p, m, q, k, c, d)
  BY <1>2, <1>5, <1>6, <1>7, MoveTable
<1>9. /\ FramesOK' /\ pc'[t] # "apply"
      /\ \A u \in Thread \ {t} : pc'[u] = pc[u] /\ Kept(fr[u], fr'[u])
  <2>1. alloc \subseteq alloc'
    BY <1>8 DEF Relinked
  <2>2. QED
    BY <1>2, <2>1, ChangedFrames
<1>10. ASSUME EntriesTrue, WritesTrue, blame' = {} PROVE EntriesTrue' /\ WritesTrue'
  <2>1. AllTrue
    BY <1>10, EntriesIn
  <2>2. PICK e1, e2 : e1 = T!EntryOf(m, p) /\ e2 = T!EntryOf(k, q)
    OBVIOUS
  <2>3. e1.node = p /\ e1.name = m /\ e2.node = q /\ e2.name = k
    BY <2>2, EntryParts
  <2>4. /\ ino[q] \in DirIno /\ ~(p = q /\ m = k)
        /\ c # Nil => fs[ino[q]][k] = ino[c]
    BY <1>1, <1>2, <1>7, <1>10 DEF WritesTrue, Writing
  <2>5. ASSUME NEW o \in Obj
        PROVE  /\ In(e1, parents[o]) => o = c
               /\ In(e2, parents[o]) => o = d
    <3>1. ASSUME In(e1, parents[o]) PROVE o = c
      <4>1. InTrue(e1, o)
        BY <2>1, <3>1 DEF AllTrue
      <4>2. QED
        BY <1>7, <2>3, <4>1 DEF InTrue
    <3>2. ASSUME In(e2, parents[o]) PROVE o = d
      <4>1. InTrue(e2, o)
        BY <2>1, <3>2 DEF AllTrue
      <4>2. QED
        BY <1>7, <2>3, <4>1 DEF InTrue
    <3>3. QED
      BY <3>1, <3>2
  <2>6. ASSUME NEW o \in Obj, NEW e
        PROVE  In(e, parents'[o]) <=>
                 (In(e, parents[o]) /\ e # e1 /\ e # e2) \/ (o = c /\ e = e2)
    <3>1. CASE o = c
      BY <1>8, <2>2, <2>5, <3>1 DEF Relinked
    <3>2. CASE o # c /\ o = d
      BY <1>8, <2>2, <2>5, <3>2 DEF Relinked
    <3>3. CASE o # c /\ o # d
      BY <1>8, <2>2, <2>5, <3>3 DEF Relinked
    <3>4. QED
      BY <3>1, <3>2, <3>3
  <2>7. /\ ino' = ino /\ children'[q][k] = c /\ children'[p][m] = Nil
        /\ \A x \in Obj, y \in Name :
             ~(x = p /\ y = m) /\ ~(x = q /\ y = k) => children'[x][y] = children[x][y]
    BY <1>8, <2>4 DEF Relinked
  <2>8. ASSUME NEW o \in Obj, NEW e, In(e, parents'[o]) PROVE InTrue(e, o)'
    <3>1. CASE o = c /\ e = e2
      <4>1. c # Nil
        BY <3>1, Numbers
      <4>2. QED
        BY <1>6, <2>3, <2>4, <2>7, <3>1, <4>1 DEF InTrue
    <3>2. CASE In(e, parents[o]) /\ e # e1 /\ e # e2
      <4>1. InTrue(e, o)
        BY <2>1, <3>2 DEF AllTrue
      <4>2. e.node \in Obj /\ e.name \in Name /\ e = T!EntryOf(e.name, e.node)
        BY <3>2, ParentEntry
      <4>3. ~(e.node = p /\ e.name = m) /\ ~(e.node = q /\ e.name = k)
        BY <2>2, <3>2, <4>2
      <4>4. children'[e.node][e.name] = o
        BY <2>7, <4>1, <4>2, <4>3 DEF InTrue
      <4>5. ASSUME NEW u \in Thread, Undoing(u, e) PROVE Undoing(u, e)'
        <5>1. u # t
          <6>1. ASSUME Undoing(t, e) PROVE FALSE
            <7>1. PICK j \in 1..Len(f.names) : f.objs[j] = e.node /\ f.names[j] = e.name
              BY <1>1, <6>1 DEF Undoing
            <7>2. j \in {1, 2}
              BY <1>4
            <7>3. QED
              BY <1>1, <4>3, <7>1, <7>2
          <6>2. QED
            BY <4>5, <6>1
        <5>2. QED
          BY <1>9, <4>5, <5>1, UndoingKept
      <4>6. QED
        BY <1>6, <2>7, <4>1, <4>4, <4>5 DEF InTrue
    <3>3. QED
      BY <2>6, <2>8, <3>1, <3>2
  <2>9. ASSUME NEW x \in Obj, NEW y \in Name, children'[x][y] # Nil
        PROVE  In(T!EntryOf(y, x), parents'[children'[x][y]])
    <3>1. CASE x = q /\ y = k
      <4>1. children'[x][y] = c /\ c # Nil
        BY <2>7, <2>9, <3>1
      <4>2. c \in Obj
        BY <1>5, <1>7, <4>1, ChildType
      <4>3. In(e2, parents'[c])
        BY <2>6, <4>2
      <4>4. QED
        BY <2>2, <3>1, <4>1, <4>3
    <3>2. CASE ~(x = q /\ y = k)
      <4>1. ~(x = p /\ y = m)
        BY <2>7, <2>9
      <4>2. PICK z, e : z = children[x][y] /\ e = T!EntryOf(y, x)
        OBVIOUS
      <4>3. children'[x][y] = z /\ z # Nil
        BY <2>7, <2>9, <3>2, <4>1, <4>2
      <4>4. In(e, parents[z]) /\ z \in Obj
        <5>1. z \in Obj
          BY <4>2, <4>3, ChildType
        <5>2. QED
          BY <2>1, <4>2, <4>3, <5>1 DEF AllTrue
      <4>5. e # e1 /\ e # e2
        BY <2>2, <3>2, <4>1, <4>2, EntryParts
      <4>6. In(e, parents'[z])
        BY <2>6, <4>4, <4>5
      <4>7. QED
        BY <4>2, <4>3, <4>6
    <3>3. QED
      BY <3>1, <3>2
  <2>10. ASSUME NEW u \in Thread, pc'[u] = "apply" PROVE Writing(u)'
    <3>1. u # t /\ pc[u] = "apply"
      BY <1>9, <2>10
    <3>2. PICK h : h = fr[u]
      OBVIOUS
    <3>3. FrameOK(alloc, "apply", h)
      BY <3>1, <3>2 DEF FramesOK
    <3>4. ASSUME h.op = "Rename"
          PROVE  children'[h.objs[1]][h.names[1]] \in {Nil, children[h.objs[1]][h.names[1]]}
      <4>1. Len(h.objs) = 2 /\ Len(h.names) = 2 /\ h.op \in Changes
        BY <3>3, <3>4 DEF FrameOK, Changes
      <4>2. h.objs[1] \in Obj /\ h.names[1] \in Name
        BY <3>3, <4>1, FrameParts
      <4>3. /\ fr[t].op \in Changes /\ fr[u].op \in Changes
            /\ 1 \in 1..Len(fr[t].names) /\ 2 \in 1..Len(fr[t].names)
            /\ 1 \in 1..Len(fr[u].names)
        BY <1>1, <1>4, <3>2, <4>1
      <4>4. fr[t].objs[1] # fr[u].objs[1]
        BY <3>1, <4>3, ApartChange
      <4>5. fr[t].objs[2] # fr[u].objs[1]
        BY <3>1, <4>3, ApartChange
      <4>6. PICK x \in Obj, y \in Name : x = h.objs[1] /\ y = h.names[1]
        BY <4>2
      <4>7. x # p /\ x # q
        BY <1>1, <3>2, <4>4, <4>5, <4>6
      <4>8. children'[x][y] = children[x][y]
        BY <2>7, <4>7
      <4>9. QED
        BY <4>6, <4>8
    <3>5. Writing(u) /\ Kept(fr[u], fr'[u]) /\ \A x \in alloc : ino'[x] = ino[x]
      BY <1>9, <1>10, <2>7, <3>1 DEF WritesTrue
    <3>6. QED
      BY <1>6, <3>1, <3>2, <3>4, <3>5, WritingTree
  <2>11. AllTrue'
    BY <2>8, <2>9 DEF AllTrue
  <2>12. QED
    BY <2>10, <2>11, EntriesInNext DEF WritesTrue
<1>11. QED
  BY <1>8, <1>9, <1>10

-----------------------------------------------------------------------------
(* The start.                                                              *)

LEMMA StartTypes ==
  ASSUME Init
  PROVE  /\ fs = StartFs /\ fs \in [DirIno -> [Name -> Ino \cup {NoIno}]]
         /\ alloc \subseteq Ino /\ alloc \subseteq Obj /\ RootObj \in alloc
         /\ \A o \in alloc : ino[o] = o
         /\ \A d \in DirIno, m \in Name :
              fs[d][m] # NoIno =>
                fs[d][m] \in alloc /\ fs[d][m] # RootObj /\ d \in alloc
<1>1. fs = StartFs /\ alloc = {i \in Ino : IsLinked(i)}
  BY DEF Init
<1>2. fs \in [DirIno -> [Name -> Ino \cup {NoIno}]]
  <2>1. ASSUME NEW d \in DirIno PROVE fs[d] \in [Name -> Ino \cup {NoIno}]
    <3>1. fs[d] \in [Name -> (Ino \ {RootIno}) \cup {NoIno}]
      BY <1>1
    <3>2. QED
      BY <3>1
  <2>2. DOMAIN fs = DirIno /\ fs = [d \in DirIno |-> fs[d]]
    BY <1>1
  <2>3. QED
    BY <2>1, <2>2
<1>3. alloc \subseteq Ino /\ alloc \subseteq Obj /\ RootObj \in alloc
  BY <1>1 DEF IsLinked
<1>4. \A o \in alloc : ino[o] = o
  BY <1>3 DEF Init
<1>5. ASSUME NEW d \in DirIno, NEW m \in Name, fs[d][m] # NoIno
      PROVE  fs[d][m] \in alloc /\ fs[d][m] # RootObj /\ d \in alloc
  <2>1. PICK i : i = fs[d][m]
    OBVIOUS
  <2>2. i \in Ino \ {RootIno}
    <3>1. fs[d] \in [Name -> (Ino \ {RootIno}) \cup {NoIno}]
      BY <1>1
    <3>2. QED
      BY <1>5, <2>1, <3>1
  <2>3. i \in alloc
    BY <1>1, <2>1, <2>2 DEF IsLinked
  <2>4. d \in alloc
    <3>1. CASE d = RootIno
      BY <1>3, <3>1
    <3>2. CASE d # RootIno
      <4>1. \E e \in DirIno, n \in Name : fs[e][n] = d
        BY <1>1, <1>5, <3>2
      <4>2. QED
        BY <1>1, <4>1 DEF IsLinked
    <3>3. QED
      BY <3>1, <3>2
  <2>5. QED
    BY <2>1, <2>2, <2>3, <2>4
<1>6. QED
  BY <1>1, <1>2, <1>3, <1>4, <1>5

(* An inode starts with the one entry that leads to it as its parent.      *)
LEMMA StartParents ==
  ASSUME Init, NEW o \in Obj
  PROVE  /\ o \notin alloc \ {RootObj} => parents[o] = <<>>
         /\ o \in alloc \ {RootObj} =>
              \E d \in DirIno, m \in Name :
                fs[d][m] = o /\ parents[o] = <<T!EntryOf(m, d)>>
<1>1. parents[o] = IF o \notin alloc \ {RootObj} THEN NoParents
                   ELSE LET e == CHOOSE e \in DirIno \X Name : fs[e[1]][e[2]] = o
                        IN  <<T!EntryOf(e[2], e[1])>>
  BY DEF Init
<1>2. ASSUME o \in alloc \ {RootObj}
      PROVE  \E d \in DirIno, m \in Name :
               fs[d][m] = o /\ parents[o] = <<T!EntryOf(m, d)>>
  <2>1. \E d \in DirIno, m \in Name : fs[d][m] = o
    BY <1>2 DEF Init, IsLinked
  <2>2. PICK e : e = CHOOSE x \in DirIno \X Name : fs[x[1]][x[2]] = o
    OBVIOUS
  <2>3. \E x \in DirIno \X Name : fs[x[1]][x[2]] = o
    <3>1. PICK d \in DirIno, m \in Name : fs[d][m] = o
      BY <2>1
    <3>2. <<d, m>> \in DirIno \X Name /\ <<d, m>>[1] = d /\ <<d, m>>[2] = m
      OBVIOUS
    <3>3. QED
      BY <3>1, <3>2
  <2>4. e \in DirIno \X Name /\ fs[e[1]][e[2]] = o
    BY <2>2, <2>3
  <2>5. parents[o] = <<T!EntryOf(e[2], e[1])>>
    BY <1>1, <1>2, <2>2
  <2>6. QED
    BY <2>4, <2>5
<1>3. QED
  BY <1>1, <1>2 DEF NoParents

LEMMA StartTable == ASSUME Init PROVE TableOK
<1>1. /\ fs = StartFs /\ fs \in [DirIno -> [Name -> Ino \cup {NoIno}]]
      /\ alloc \subseteq Ino /\ alloc \subseteq Obj /\ RootObj \in alloc
      /\ \A o \in alloc : ino[o] = o
      /\ \A d \in DirIno, m \in Name :
           fs[d][m] # NoIno => fs[d][m] \in alloc /\ fs[d][m] # RootObj /\ d \in alloc
  BY StartTypes
<1>2. ino \in [Obj -> Ino] /\ lookupCount \in [Obj -> Nat] /\ nodes \in [Ino -> alloc \cup {Nil}]
  BY <1>1, Numbers DEF Init
<1>3. /\ \A o \in alloc : nodes[ino[o]] = o
      /\ \A i \in Ino : nodes[i] # Nil => ino[nodes[i]] = i
  BY <1>1, Numbers DEF Init
<1>4. ASSUME NEW o \in Obj
      PROVE  /\ children[o] \in [Name -> alloc \cup {Nil}]
             /\ o \notin alloc => \A m \in Name : children[o][m] = Nil
  <2>1. children[o] = [m \in Name |-> IF o \in DirIno THEN fs[o][m] ELSE Nil]
    BY DEF Init
  <2>2. ASSUME NEW m \in Name
        PROVE  /\ children[o][m] \in alloc \cup {Nil}
               /\ o \notin alloc => children[o][m] = Nil
    BY <1>1, <2>1 DEF Nil, NoIno
  <2>3. QED
    BY <2>1, <2>2
<1>5. children \in [Obj -> [Name -> alloc \cup {Nil}]]
  <2>1. children = [o \in Obj |-> children[o]]
    BY DEF Init
  <2>2. QED
    BY <1>4, <2>1
<1>6. ASSUME NEW o \in Obj
      PROVE  /\ parents[o] \in Seq([name : Name, node : alloc])
             /\ Len(parents[o]) \in {0, 1}
             /\ o \notin alloc => parents[o] = <<>>
  <2>1. CASE o \notin alloc \ {RootObj}
    <3>1. parents[o] = <<>>
      BY <2>1, StartParents
    <3>2. QED
      BY <3>1
  <2>2. CASE o \in alloc \ {RootObj}
    <3>1. PICK d \in DirIno, m \in Name : fs[d][m] = o /\ parents[o] = <<T!EntryOf(m, d)>>
      BY <2>2, StartParents
    <3>2. d \in alloc
      BY <1>1, <2>2, <3>1, Numbers DEF NoIno
    <3>3. PICK e : e = T!EntryOf(m, d)
      OBVIOUS
    <3>4. e \in [name : Name, node : alloc]
      BY <3>2, <3>3 DEF T!EntryOf
    <3>5. QED
      BY <2>2, <3>1, <3>3, <3>4
  <2>3. QED
    BY <2>1, <2>2
<1>7. parents \in [Obj -> Seq([name : Name, node : alloc])]
  <2>1. parents = [o \in Obj |-> parents[o]]
    BY DEF Init
  <2>2. QED
    BY <1>6, <2>1
<1>8. ASSUME NEW o \in Obj, NEW j \in 1..Len(parents[o]), NEW k \in 1..Len(parents[o])
      PROVE  j = k
  <2>1. PICK n : n = Len(parents[o])
    OBVIOUS
  <2>2. n \in {0, 1} /\ j \in 1..n /\ k \in 1..n
    BY <1>6, <2>1
  <2>3. QED
    BY <2>2
<1>9. QED
  BY <1>1, <1>2, <1>3, <1>4, <1>5, <1>6, <1>7, <1>8 DEF TableOK

LEMMA StartEntries == ASSUME Init PROVE AllTrue
<1>1. /\ fs = StartFs /\ alloc \subseteq Obj /\ RootObj \in alloc
      /\ \A o \in alloc : ino[o] = o
      /\ \A d \in DirIno, m \in Name :
           fs[d][m] # NoIno => fs[d][m] \in alloc /\ fs[d][m] # RootObj /\ d \in alloc
  BY StartTypes
<1>2. \A o \in Obj, m \in Name : children[o][m] = IF o \in DirIno THEN fs[o][m] ELSE Nil
  BY DEF Init
<1>3. ASSUME NEW o \in Obj, NEW e, In(e, parents[o]) PROVE InTrue(e, o)
  <2>1. o \in alloc \ {RootObj}
    <3>1. parents[o] # <<>>
      BY <1>3 DEF In
    <3>2. QED
      BY <3>1, StartParents
  <2>2. PICK d \in DirIno, m \in Name : fs[d][m] = o /\ parents[o] = <<T!EntryOf(m, d)>>
    BY <2>1, StartParents
  <2>3. d \in alloc /\ d \in Obj
    BY <1>1, <2>1, <2>2, Numbers DEF NoIno
  <2>4. PICK en : en = T!EntryOf(m, d)
    OBVIOUS
  <2>5. e = en
    BY <1>3, <2>2, <2>4 DEF In
  <2>6. e.node = d /\ e.name = m
    BY <2>4, <2>5, EntryParts
  <2>7. children[d][m] = o /\ ino[d] = d /\ ino[o] = o
    BY <1>1, <1>2, <2>1, <2>2, <2>3
  <2>8. QED
    BY <2>2, <2>6, <2>7 DEF InTrue
<1>4. ASSUME NEW p \in Obj, NEW m \in Name, children[p][m] # Nil
      PROVE  In(T!EntryOf(m, p), parents[children[p][m]])
  <2>1. PICK c : c = children[p][m]
    OBVIOUS
  <2>2. p \in DirIno /\ fs[p][m] = c /\ c # NoIno
    BY <1>2, <1>4, <2>1 DEF Nil, NoIno
  <2>3. c \in alloc \ {RootObj} /\ c \in Obj
    BY <1>1, <2>2
  <2>4. PICK d \in DirIno, n \in Name : fs[d][n] = c /\ parents[c] = <<T!EntryOf(n, d)>>
    BY <2>3, StartParents
  <2>5. <<p, m>> = <<d, n>>
    BY <1>1, <2>2, <2>4
  <2>6. p = d /\ m = n
    BY <2>5
  <2>7. PICK en : en = T!EntryOf(m, p)
    OBVIOUS
  <2>8. parents[c] = <<en>>
    BY <2>4, <2>6, <2>7
  <2>9. In(en, parents[c])
    BY <2>8 DEF In
  <2>10. QED
    BY <2>1, <2>7, <2>9
<1>5. QED
  BY <1>3, <1>4 DEF AllTrue

LEMMA StartFrames == ASSUME Init PROVE FramesOK /\ WritesTrue
<1>1. /\ pc = [t \in Thread |-> "idle"] /\ fr = [t \in Thread |-> IdleFrame]
      /\ handle = NoHandle
  BY DEF Init
<1>2. handle.path \in Seq(Segment)
  BY <1>1 DEF NoHandle
<1>3. \A t \in Thread : FrameOK(alloc, pc[t], fr[t])
  BY <1>1, IdleFits
<1>4. Compatible(IdleFrame, IdleFrame) /\ ~Race(IdleFrame, IdleFrame)
  BY DEF Compatible, Race, Shared, Across, IdleFrame
<1>5. FramesOK
  BY <1>1, <1>2, <1>3, <1>4 DEF FramesOK, Label
<1>6. WritesTrue
  BY <1>1 DEF WritesTrue
<1>7. QED
  BY <1>5, <1>6

-----------------------------------------------------------------------------
(* The invariant.                                                          *)

LEMMA StepTruth ==
  ASSUME TableOK, FramesOK, NEW t \in Thread, Kernel(t) \/ FileSystem(t) \/ Bridge(t)
  PROVE  /\ TableOK' /\ FramesOK'
         /\ EntriesTrue /\ WritesTrue /\ blame' = {} => EntriesTrue' /\ WritesTrue'
<1>1. CASE Kernel(t)
  BY <1>1, KernelTruth
<1>2. CASE FileSystem(t)
  BY <1>2, FileSystemTruth
<1>3. CASE Hop(t) \/ Found(t) \/ Opened(t) \/ List(t)
  BY <1>3, WalkTruth
<1>4. CASE Look(t)
  BY <1>4, LookTruth
<1>5. CASE AddChild(t)
  BY <1>5, AddTruth
<1>6. CASE RmChild(t)
  BY <1>6, RmTruth
<1>7. CASE MvChild(t)
  BY <1>7, MvTruth
<1>8. QED
  BY <1>1, <1>2, <1>3, <1>4, <1>5, <1>6, <1>7 DEF Bridge

(* What has gone wrong outside stays on record.                            *)
LEMMA BlameStays ==
  ASSUME TableOK, FramesOK, blame' = {},
         NEW t \in Thread, Kernel(t) \/ FileSystem(t) \/ Bridge(t)
  PROVE  blame = {}
<1>1. CASE Kernel(t)
  <2>1. PICK l \in {"walk", "list"} : \E f : Send(t, l, f)
    BY <1>1, KernelFrames
  <2>2. PICK f : Send(t, l, f)
    BY <2>1
  <2>3. QED
    BY <2>2 DEF Send
<1>2. CASE FileSystem(t)
  BY <1>2 DEF FileSystem, FsRefuses, FsUse, FsMake, FsLink, FsRemove, FsRename, FsPut, Blame
<1>3. CASE Bridge(t)
  BY <1>3 DEF Bridge, Hop, Found, Opened, List, Look, AddChild, RmChild, MvChild, Changed, Blame
<1>4. QED
  BY <1>1, <1>2, <1>3

LEMMA WalkStep == ASSUME WalkInv, [Next]_vars PROVE WalkInv'
<1>1. CASE Next
  <2>1. PICK t \in Thread : Kernel(t) \/ FileSystem(t) \/ Bridge(t)
    BY <1>1 DEF Next
  <2>2. TableOK /\ FramesOK /\ (blame = {} => EntriesTrue /\ WritesTrue)
    BY DEF WalkInv
  <2>3. blame' = {} => blame = {}
    BY <2>1, <2>2, BlameStays
  <2>4. /\ TableOK' /\ FramesOK'
        /\ EntriesTrue /\ WritesTrue /\ blame' = {} => EntriesTrue' /\ WritesTrue'
    BY <2>1, <2>2, StepTruth
  <2>5. QED
    BY <2>2, <2>3, <2>4 DEF WalkInv
<1>2. CASE UNCHANGED vars
  <2>1. /\ alloc' = alloc /\ ino' = ino /\ lookupCount' = lookupCount /\ parents' = parents
        /\ children' = children /\ nodes' = nodes /\ fs' = fs /\ handle' = handle
        /\ pc' = pc /\ fr' = fr /\ blame' = blame
    BY <1>2 DEF vars, treeVars, threadVars
  <2>2. TableOK' <=> TableOK
    BY <2>1 DEF TableOK
  <2>3. FramesOK' <=> FramesOK
    BY <2>1 DEF FramesOK
  <2>4. EntriesTrue' <=> EntriesTrue
    BY <2>1 DEF EntriesTrue, Undoing
  <2>5. WritesTrue' <=> WritesTrue
    BY <2>1 DEF WritesTrue, Writing
  <2>6. QED
    BY <2>1, <2>2, <2>3, <2>4, <2>5 DEF WalkInv
<1>3. QED
  BY <1>1, <1>2

(* A request acts on what it learned of the file system before, after      *)
(* other requests have changed the tree and the files (bridge.go:248-364,  *)
(* 446-465; inode.go:105-303): the table, the frames and both sides of the *)
(* tree fit together in every state, and the entries are true.             *)
THEOREM WalkInvariant == Spec => []WalkInv
<1>1. Init => WalkInv
  BY StartTable, StartFrames, StartEntries, EntriesIn DEF WalkInv
<1>2. QED
  BY <1>1, WalkStep, PTL DEF Spec

(* A parent that the file system does not have is one whose directory the  *)
(* kernel has locked for the request that is about to take it away.        *)
LEMMA TruthFromInv == ASSUME WalkInv PROVE TrueParents
<1> SUFFICES ASSUME blame = {}, NEW o \in Obj, NEW k \in 1..Len(parents[o])
             PROVE  LET e == parents[o][k]
                    IN  Busy(e.node) \/ fs[ino[e.node]][e.name] = ino[o]
  BY DEF TrueParents
<1> DEFINE e == parents[o][k]
<1>1. fs[ino[e.node]][e.name] = ino[o] \/ \E t \in Thread : Undoing(t, e)
  BY DEF WalkInv, EntriesTrue
<1>2. ASSUME NEW t \in Thread, Undoing(t, e) PROVE Busy(e.node)
  <2>1. PICK f : f = fr[t]
    OBVIOUS
  <2>2. PICK j \in 1..Len(f.names) : f.objs[j] = e.node
    BY <1>2, <2>1 DEF Undoing
  <2>3. FrameOK(alloc, pc[t], f) /\ f.op \in Changes
    BY <1>2, <2>1 DEF WalkInv, FramesOK, Undoing
  <2>4. e.node \in f.locks
    BY <2>2, <2>3 DEF FrameOK
  <2>5. QED
    BY <2>1, <2>4 DEF Busy
<1>3. QED
  BY <1>1, <1>2

(* Every parent that an inode remembers is a place where the file system   *)
(* has it, as far as its directory is not just being changed               *)
(* (inode.go:105-303, which pathOf follows, file.go:28-63).                *)
THEOREM ParentsAreTrue == Spec => []TrueParents
BY WalkInvariant, TruthFromInv, PTL

-----------------------------------------------------------------------------
(* Types.  A walk that goes in no circle has no more names than there are  *)
(* inodes.                                                                 *)

Short == {p \in Seq(Name) : Len(p) <= MaxDepth}

LEMMA PathSetIs == Short \cup {Orphan} \subseteq PathSet
<1>1. ASSUME NEW p \in Short PROVE p \in PathSet
  <2>1. PICK n \in Nat : n = Len(p)
    BY DEF Short
  <2>2. p \in [1..n -> Name] /\ n <= MaxDepth
    BY <2>1 DEF Short
  <2>3. CASE n = 0
    <3>1. p = <<>>
      <4>1. p \in Seq(Name) /\ Len(p) = 0
        BY <2>1, <2>3 DEF Short
      <4>2. QED
        BY <4>1
    <3>2. QED
      BY <3>1 DEF PathSet
  <2>4. CASE n # 0
    <3>1. n \in 1..MaxDepth
      BY <2>2, <2>4
    <3>2. QED
      BY <2>2, <3>1 DEF PathSet
  <2>5. QED
    BY <2>3, <2>4
<1>2. Orphan \in PathSet
  BY DEF PathSet
<1>3. QED
  BY <1>1, <1>2

LEMMA ShortPath == ASSUME NEW p \in PathSet, p # Orphan PROVE p \in Short
<1>1. CASE p = <<>>
  <2>1. p \in Seq(Name) /\ Len(p) = 0
    BY <1>1, EmptyIn
  <2>2. 0 <= MaxDepth
    OBVIOUS
  <2>3. QED
    BY <2>1, <2>2 DEF Short
<1>2. CASE p # <<>>
  <2>1. PICK n \in 1..MaxDepth : p \in [1..n -> Name]
    BY <1>2 DEF PathSet
  <2>2. p \in Seq(Name) /\ Len(p) = n
    BY <2>1
  <2>3. n <= MaxDepth
    OBVIOUS
  <2>4. QED
    BY <2>2, <2>3 DEF Short
<1>3. QED
  BY <1>1, <1>2

(* One more hop up for each inode: g has the paths of one hop less.        *)
Climb(par, k, g) ==
  [x \in Obj |->
     IF x = RootObj THEN <<>>
     ELSE IF k = 0 \/ par[x] = <<>> THEN Orphan
     ELSE LET e == par[x][Len(par[x])]
              rest == g[e.node]
          IN  IF rest = Orphan THEN Orphan ELSE Append(rest, e.name)]
Climbs(par, n, up) == up = [k \in 0..n |-> Climb(par, k, up[k - 1])]

LEMMA ClimbNone == ASSUME NEW par, NEW g, NEW h PROVE Climb(par, 0, g) = Climb(par, 0, h)
BY DEF Climb

LEMMA ClimbsExist == ASSUME NEW par, NEW n \in Nat PROVE \E up : Climbs(par, n, up)
<1> DEFINE Bad == {k \in 0..n : ~\E up : Climbs(par, k, up)}
<1> SUFFICES ASSUME Bad # {} PROVE FALSE
  <2>1. n \in 0..n
    OBVIOUS
  <2>2. QED
    BY <2>1
<1>1. Bad \subseteq Nat
  OBVIOUS
<1>2. PICK k \in Bad : \A m \in Bad : k <= m
  BY <1>1, LeastNat
<1>3. k \in 0..n /\ k \in Nat /\ ~\E up : Climbs(par, k, up)
  OBVIOUS
<1>4. \A j \in 0..n : j \notin Bad => \E up : Climbs(par, j, up)
  OBVIOUS
<1> HIDE DEF Bad
<1>5. k # 0
  <2> SUFFICES ASSUME k = 0 PROVE FALSE
    OBVIOUS
  <2>1. PICK c : c = Climb(par, 0, <<>>)
    OBVIOUS
  <2>2. PICK up : up = [j \in 0..0 |-> c]
    OBVIOUS
  <2>3. \A j \in 0..0 : Climb(par, j, up[j - 1]) = c
    <3>1. ASSUME NEW j \in 0..0 PROVE Climb(par, j, up[j - 1]) = c
      <4>1. j = 0
        OBVIOUS
      <4>2. Climb(par, 0, up[j - 1]) = Climb(par, 0, <<>>)
        BY ClimbNone
      <4>3. QED
        BY <2>1, <4>1, <4>2
    <3>2. QED
      BY <3>1
  <2>4. Climbs(par, 0, up)
    BY <2>2, <2>3 DEF Climbs
  <2>5. QED
    BY <1>3, <2>4
<1>6. k - 1 \in 0..n /\ ~(k <= k - 1) /\ k - 1 \in Nat
  BY <1>3, <1>5
<1>7. PICK up : Climbs(par, k - 1, up)
  BY <1>2, <1>4, <1>6
<1>8. PICK c : c = Climb(par, k, up[k - 1])
  OBVIOUS
<1>9. PICK to : to = [j \in 0..k |-> IF j = k THEN c ELSE up[j]]
  OBVIOUS
<1>10. ASSUME NEW j \in 0..k PROVE to[j] = Climb(par, j, to[j - 1])
  <2>1. CASE j = k
    <3>1. to[j] = c /\ to[k - 1] = up[k - 1]
      BY <1>3, <1>6, <1>9, <2>1
    <3>2. QED
      BY <1>8, <2>1, <3>1
  <2>2. CASE j # k /\ j # 0
    <3>1. /\ j \in 0..k - 1 /\ j - 1 \in 0..k - 1 /\ j - 1 \in 0..k
          /\ j - 1 # k
      BY <1>3, <2>2
    <3>2. to[j] = up[j] /\ to[j - 1] = up[j - 1]
      BY <1>9, <2>2, <3>1
    <3>3. up[j] = Climb(par, j, up[j - 1])
      BY <1>7, <3>1 DEF Climbs
    <3>4. QED
      BY <3>2, <3>3
  <2>3. CASE j # k /\ j = 0
    <3>1. 0 \in 0..k - 1 /\ to[0] = up[0]
      BY <1>3, <1>9, <2>3
    <3>2. up[0] = Climb(par, 0, up[0 - 1])
      BY <1>7, <3>1 DEF Climbs
    <3>3. Climb(par, 0, up[0 - 1]) = Climb(par, 0, to[j - 1])
      BY ClimbNone
    <3>4. QED
      BY <2>3, <3>1, <3>2, <3>3
  <2>4. QED
    BY <2>1, <2>2, <2>3
<1>11. DOMAIN to = 0..k
  BY <1>9
<1>12. to = [j \in 0..k |-> Climb(par, j, to[j - 1])]
  <2>1. to = [j \in 0..k |-> to[j]]
    BY <1>9
  <2>2. QED
    BY <1>10, <2>1
<1>13. QED
  BY <1>3, <1>12 DEF Climbs

LEMMA PathInClimbs ==
  ASSUME NEW par, NEW o
  PROVE  \E up : Climbs(par, Cardinality(Obj), up) /\ PathIn(par, o) = up[Cardinality(Obj)][o]
<1> DEFINE Rec(up) == up = [k \in 0..Cardinality(Obj) |-> [x \in Obj |->
             IF x = RootObj THEN <<>>
             ELSE IF k = 0 \/ par[x] = <<>> THEN Orphan
             ELSE LET e == par[x][Len(par[x])]
                      rest == up[k - 1][e.node]
                  IN  IF rest = Orphan THEN Orphan ELSE Append(rest, e.name)]]
           up == CHOOSE up : Rec(up)
<1>1. Cardinality(Obj) \in Nat
  BY BoundAssumption, FS_CardinalityType
<1>2. \E u : Climbs(par, Cardinality(Obj), u)
  BY <1>1, ClimbsExist
<1>3. \A u : Climbs(par, Cardinality(Obj), u) <=> Rec(u)
  BY DEF Climbs, Climb
<1>4. PathIn(par, o) = up[Cardinality(Obj)][o]
  BY DEF PathIn
<1> HIDE DEF Rec
<1>5. \E u : Rec(u)
  BY <1>2, <1>3
<1>6. Rec(up)
  BY <1>5, Zenon
<1>7. QED
  BY <1>3, <1>4, <1>6

(* After k hops a path has at most k names.                                *)
UpTo(g, k) == \A x \in Obj : g[x] = Orphan \/ (g[x] \in Seq(Name) /\ Len(g[x]) <= k)
Linked(par) == \A x \in Obj : par[x] \in Seq([name : Name, node : Obj])

LEMMA ClimbStep ==
  ASSUME NEW par, Linked(par), NEW k \in Nat, NEW g, k # 0 => UpTo(g, k - 1)
  PROVE  UpTo(Climb(par, k, g), k)
<1> SUFFICES ASSUME NEW x \in Obj
             PROVE  \/ Climb(par, k, g)[x] = Orphan
                    \/ Climb(par, k, g)[x] \in Seq(Name) /\ Len(Climb(par, k, g)[x]) <= k
  BY DEF UpTo
<1>1. PICK c : c = Climb(par, k, g)[x]
  OBVIOUS
<1>2. CASE x = RootObj
  <2>1. c = <<>>
    BY <1>1, <1>2 DEF Climb
  <2>2. c \in Seq(Name) /\ Len(c) = 0
    BY <2>1, EmptyIn
  <2>3. QED
    BY <1>1, <2>2
<1>3. CASE x # RootObj /\ (k = 0 \/ par[x] = <<>>)
  BY <1>3 DEF Climb
<1>4. CASE x # RootObj /\ k # 0 /\ par[x] # <<>>
  <2>1. PICK s : s = par[x]
    OBVIOUS
  <2>2. PICK e : e = s[Len(s)]
    OBVIOUS
  <2>3. s \in Seq([name : Name, node : Obj]) /\ s # NoParents
    BY <1>4, <2>1 DEF Linked, NoParents
  <2>4. e \in [name : Name, node : Obj]
    BY <2>2, <2>3, NewestIn DEF Newest
  <2>5. PICK y, m, rest : y = e.node /\ m = e.name /\ rest = g[y]
    OBVIOUS
  <2>6. y \in Obj /\ m \in Name
    BY <2>4, <2>5
  <2>7. c = IF rest = Orphan THEN Orphan ELSE Append(rest, m)
    BY <1>1, <1>4, <2>1, <2>2, <2>5 DEF Climb
  <2>8. rest = Orphan \/ (rest \in Seq(Name) /\ Len(rest) <= k - 1)
    BY <1>4, <2>5, <2>6 DEF UpTo
  <2>9. CASE rest = Orphan
    BY <1>1, <2>7, <2>9
  <2>10. CASE rest # Orphan
    <3>1. rest \in Seq(Name) /\ Len(rest) <= k - 1 /\ c = Append(rest, m)
      BY <2>7, <2>8, <2>10
    <3>2. c \in Seq(Name) /\ Len(c) = Len(rest) + 1 /\ Len(rest) \in Nat
      BY <2>6, <3>1
    <3>3. Len(c) <= k
      BY <3>1, <3>2
    <3>4. QED
      BY <1>1, <3>2, <3>3
  <2>11. QED
    BY <2>9, <2>10
<1>5. QED
  BY <1>2, <1>3, <1>4

LEMMA ClimbShort ==
  ASSUME NEW par, Linked(par), NEW n \in Nat, NEW up, Climbs(par, n, up)
  PROVE  UpTo(up[n], n)
<1> DEFINE Bad == {k \in 0..n : ~UpTo(up[k], k)}
<1> SUFFICES ASSUME Bad # {} PROVE FALSE
  <2>1. n \in 0..n
    OBVIOUS
  <2>2. QED
    BY <2>1
<1>1. Bad \subseteq Nat
  OBVIOUS
<1>2. PICK k \in Bad : \A m \in Bad : k <= m
  BY <1>1, LeastNat
<1>3. k \in 0..n /\ k \in Nat /\ ~UpTo(up[k], k)
  OBVIOUS
<1>4. \A j \in 0..n : j \notin Bad => UpTo(up[j], j)
  OBVIOUS
<1> HIDE DEF Bad
<1>5. PICK g : g = up[k - 1]
  OBVIOUS
<1>6. k # 0 => UpTo(g, k - 1)
  <2> SUFFICES ASSUME k # 0 PROVE UpTo(g, k - 1)
    OBVIOUS
  <2>1. k - 1 \in 0..n /\ ~(k <= k - 1)
    BY <1>3
  <2>2. QED
    BY <1>2, <1>4, <1>5, <2>1
<1>7. up[k] = Climb(par, k, g)
  BY <1>3, <1>5 DEF Climbs
<1>8. UpTo(Climb(par, k, g), k)
  BY <1>3, <1>6, ClimbStep
<1>9. QED
  BY <1>3, <1>7, <1>8

LEMMA PathInType ==
  ASSUME NEW par, Linked(par), NEW o \in Obj PROVE PathIn(par, o) \in PathSet
<1>1. PICK n : n = Cardinality(Obj)
  OBVIOUS
<1>2. n \in Nat /\ n <= MaxDepth
  BY <1>1, BoundAssumption, FS_CardinalityType
<1>3. PICK up : Climbs(par, n, up) /\ PathIn(par, o) = up[n][o]
  BY <1>1, PathInClimbs
<1>4. UpTo(up[n], n)
  BY <1>2, <1>3, ClimbShort
<1>5. PICK p : p = PathIn(par, o)
  OBVIOUS
<1>6. p = Orphan \/ (p \in Seq(Name) /\ Len(p) <= n)
  BY <1>3, <1>4, <1>5 DEF UpTo
<1>7. CASE p = Orphan
  BY <1>5, <1>7, PathSetIs
<1>8. CASE p # Orphan
  <2>1. p \in Seq(Name) /\ Len(p) <= n /\ Len(p) \in Nat
    BY <1>6, <1>8
  <2>2. p \in Short
    BY <1>2, <2>1 DEF Short
  <2>3. QED
    BY <1>5, <2>2, PathSetIs
<1>9. QED
  BY <1>7, <1>8

(* What TypeOK says that the other invariants do not.                      *)
FrameTyped(f) ==
  /\ \A k \in 1..Len(f.paths) : f.paths[k] \in PathSet
  /\ f.segs \in Short /\ f.seen \subseteq PathSet /\ f.moved \in 0..2 /\ f.calm \in BOOLEAN
HandleSet == [node : Obj \cup {Nil}, path : PathSet, calm : BOOLEAN]
Typed ==
  /\ handle \in HandleSet /\ issued \in 0..MaxRequests /\ blame \subseteq {"path", "race"}
  /\ \A t \in Thread : FrameTyped(fr[t])

LEMMA EmptyPath == <<>> \in Short /\ <<>> \in PathSet
<1>1. PICK p : p = <<>>
  OBVIOUS
<1>2. p \in Seq(Name) /\ Len(p) = 0
  BY <1>1, EmptyIn
<1>3. 0 <= MaxDepth
  OBVIOUS
<1>4. p \in Short
  BY <1>2, <1>3 DEF Short
<1>5. QED
  BY <1>1, <1>4, PathSetIs

LEMMA IdleTyped == FrameTyped(IdleFrame)
<1>1. /\ IdleFrame.paths = <<>> /\ IdleFrame.segs = <<>> /\ IdleFrame.seen = {}
      /\ IdleFrame.moved = 0 /\ IdleFrame.calm = TRUE
  BY DEF IdleFrame
<1>2. PICK f : f = IdleFrame
  OBVIOUS
<1>3. /\ f.paths = <<>> /\ f.segs \in Short /\ f.seen \subseteq PathSet /\ f.moved \in 0..2
      /\ f.calm \in BOOLEAN
  <2>1. f.paths = <<>> /\ f.segs = <<>> /\ f.seen = {} /\ f.moved = 0 /\ f.calm = TRUE
    BY <1>1, <1>2
  <2>2. f.segs \in Short
    BY <2>1, EmptyPath, Zenon
  <2>3. f.calm \in BOOLEAN /\ f.seen \subseteq PathSet
    BY <2>1, Zenon
  <2>4. f.moved \in 0..2
    BY <2>1
  <2>5. QED
    BY <2>1, <2>2, <2>3, <2>4, Zenon
<1>4. \A k \in 1..Len(f.paths) : f.paths[k] \in PathSet
  <2>1. Len(f.paths) = 0
    BY <1>3, EmptyIn
  <2>2. QED
    BY <2>1
<1>5. FrameTyped(f)
  BY <1>3, <1>4 DEF FrameTyped
<1>6. QED
  BY <1>2, <1>5

(* A frame that keeps its paths keeps their types.                         *)
LEMMA KeptTyped ==
  ASSUME NEW f, NEW g, FrameTyped(f), g.paths = f.paths, g.segs = f.segs, g.seen = f.seen,
         g.moved = f.moved, g.calm = f.calm
  PROVE  FrameTyped(g)
BY DEF FrameTyped

LEMMA NextTyped ==
  ASSUME NEW f, DOMAIN f = Fields, FrameTyped(f), NEW g \in Nexts(f)
  PROVE  FrameTyped(g)
<1>1. CASE f.todo = {}
  <2>1. g = IdleFrame
    BY <1>1 DEF Nexts
  <2>2. QED
    BY <2>1, IdleTyped
<1>2. CASE f.todo # {}
  <2>1. PICK m \in f.todo : g = NextFrame(f, m)
    BY <1>2 DEF Nexts
  <2>2. PICK d : d = f.todo \ {m}
    OBVIOUS
  <2>3. g = [f EXCEPT !.names = <<m>>, !.todo = d, !.cino = NoIno]
    BY <2>1, <2>2 DEF NextFrame
  <2>4. /\ g.paths = f.paths /\ g.segs = f.segs /\ g.seen = f.seen /\ g.moved = f.moved
        /\ g.calm = f.calm
    BY <2>3 DEF Fields
  <2>5. QED
    BY <2>4, KeptTyped
<1>3. QED
  BY <1>1, <1>2

(* One goroutine moves on.                                                 *)
LEMMA GoTyped ==
  ASSUME Typed, FramesOK, NEW t \in Thread, NEW l, NEW g, Go(t, l, g), FrameTyped(g),
         handle' \in HandleSet, issued' = issued, blame' \subseteq {"path", "race"}
  PROVE  Typed'
<1>1. fr'[t] = g /\ \A u \in Thread \ {t} : fr'[u] = fr[u]
  BY DEF Go, FramesOK
<1>2. \A u \in Thread : FrameTyped(fr'[u])
  BY <1>1 DEF Typed
<1>3. QED
  BY <1>2 DEF Typed, FrameTyped, HandleSet

LEMMA BlameTyped ==
  ASSUME Typed, NEW t, Blame(t) PROVE blame' \subseteq {"path", "race"}
BY DEF Typed, Blame

LEMMA HopTyped ==
  ASSUME Typed, TableOK, FramesOK, NEW t \in Thread, Hop(t) PROVE Typed'
<1>1. PICK f : f = fr[t]
  OBVIOUS
<1>2. FrameOK(alloc, "walk", f) /\ FrameTyped(f)
  BY <1>1 DEF Hop, FramesOK, Typed
<1>3. DOMAIN f = Fields
  BY <1>2, FrameDomain DEF FrameOK
<1>4. f.at \in alloc /\ alloc \subseteq Obj /\ Len(f.segs) < MaxDepth
  BY <1>1, <1>2 DEF Hop, FrameOK, TableOK
<1>5. /\ handle' \in HandleSet /\ issued' = issued /\ blame' \subseteq {"path", "race"}
  BY DEF Hop, Typed
<1>6. PICK s : s = parents[f.at]
  OBVIOUS
<1>7. s \in Seq([name : Name, node : alloc])
  BY <1>4, <1>6 DEF TableOK
<1>8. CASE s = NoParents
  <2>1. PICK g : g = [f EXCEPT !.at = Nil]
    OBVIOUS
  <2>2. Go(t, "walk", g)
    BY <1>1, <1>6, <1>8, <2>1 DEF Hop
  <2>3. /\ g.paths = f.paths /\ g.segs = f.segs /\ g.seen = f.seen /\ g.moved = f.moved
        /\ g.calm = f.calm
    BY <2>1 DEF Fields
  <2>4. FrameTyped(g)
    BY <1>2, <2>3, KeptTyped
  <2>5. QED
    BY <1>5, <2>2, <2>4, GoTyped
<1>9. CASE s # NoParents
  <2>1. PICK e : e = Newest(s)
    OBVIOUS
  <2>2. PICK r : r = <<e.name>> \o f.segs
    OBVIOUS
  <2>3. PICK g : g = [f EXCEPT !.at = e.node, !.segs = r]
    OBVIOUS
  <2>4. Go(t, "walk", g)
    BY <1>1, <1>6, <1>9, <2>1, <2>2, <2>3 DEF Hop
  <2>5. e \in [name : Name, node : alloc]
    BY <1>7, <1>9, <2>1, NewestIn
  <2>6. e.name \in Name
    BY <2>5
  <2>7. f.segs \in Seq(Name)
    BY <1>2 DEF FrameTyped, Short
  <2>8. r \in Seq(Name) /\ Len(r) = Len(f.segs) + 1 /\ Len(f.segs) \in Nat
    BY <2>2, <2>6, <2>7
  <2>9. r \in Short
    BY <1>4, <2>8 DEF Short
  <2>10. /\ g.paths = f.paths /\ g.segs = r /\ g.seen = f.seen /\ g.moved = f.moved
         /\ g.calm = f.calm
    BY <1>3, <2>3 DEF Fields
  <2>11. FrameTyped(g)
    BY <1>2, <2>9, <2>10 DEF FrameTyped
  <2>12. QED
    BY <1>5, <2>4, <2>11, GoTyped
<1>10. QED
  BY <1>8, <1>9

(* A path that one look at the tree finds.                                 *)
LEMMA SeenTyped ==
  ASSUME TableOK, NEW o \in alloc PROVE PathIn(parents, o) \in PathSet
<1>1. alloc \subseteq Obj
  BY DEF TableOK
<1>2. PICK E, G : E = [name : Name, node : alloc] /\ G = [name : Name, node : Obj]
  OBVIOUS
<1>3. ASSUME NEW x \in Obj PROVE parents[x] \in Seq([name : Name, node : Obj])
  <2>1. E \subseteq G
    BY <1>1, <1>2
  <2>2. parents[x] \in Seq(E)
    BY <1>2 DEF TableOK
  <2>3. Seq(E) \subseteq Seq(G)
    BY <2>1, SeqWiden
  <2>4. parents[x] \in Seq(G)
    BY <2>2, <2>3
  <2>5. QED
    BY <1>2, <2>4
<1>4. Linked(parents)
  BY <1>3 DEF Linked
<1>5. o \in Obj
  BY <1>1
<1>6. QED
  BY <1>4, <1>5, PathInType

LEMMA BeginTyped ==
  ASSUME TableOK, NEW f, DOMAIN f = Fields, FrameTyped(f), Target(f) \in alloc,
         NEW g, g = [f EXCEPT !.at = Target(f), !.seen = {PathIn(parents, Target(f))}]
  PROVE  FrameTyped(g)
<1>1. PICK p : p = PathIn(parents, Target(f))
  OBVIOUS
<1>2. p \in PathSet
  BY <1>1, SeenTyped
<1>3. /\ g.paths = f.paths /\ g.segs = f.segs /\ g.seen = {p} /\ g.moved = f.moved
      /\ g.calm = f.calm
  BY <1>1 DEF Fields
<1>4. QED
  BY <1>2, <1>3 DEF FrameTyped

LEMMA FoundTyped ==
  ASSUME Typed, TableOK, FramesOK, NEW t \in Thread, Found(t) PROVE Typed'
<1>1. PICK f : f = fr[t]
  OBVIOUS
<1>2. FrameOK(alloc, "walk", f) /\ FrameTyped(f)
  BY <1>1 DEF Found, FramesOK, Typed
<1>3. PICK p : p = IF f.at = RootObj THEN f.segs ELSE Orphan
  OBVIOUS
<1>4. p \in PathSet /\ p \in Seq(Segment)
  <2>1. f.segs \in PathSet /\ f.segs \in Seq(Segment)
    BY <1>2, PathSetIs DEF FrameTyped, FrameOK
  <2>2. Orphan \in PathSet /\ Orphan \in Seq(Segment)
    BY PathSetIs, OrphanLost
  <2>3. QED
    BY <1>3, <2>1, <2>2
<1>5. PICK g : g = [f EXCEPT !.paths = Append(@, p), !.at = Nil, !.segs = <<>>,
                             !.seen = {}, !.moved = 0]
  OBVIOUS
<1>6. DOMAIN f = Fields /\ f.paths \in Seq(Seq(Segment))
  BY <1>2, FrameDomain DEF FrameOK
<1>7. FrameTyped(g)
  <2>1. /\ g.paths = Append(f.paths, p) /\ g.segs = <<>> /\ g.seen = {} /\ g.moved = 0
        /\ g.calm = f.calm
    BY <1>5, <1>6 DEF Fields
  <2>2. PICK ps, qs : ps = f.paths /\ qs = g.paths
    OBVIOUS
  <2>3. ps \in Seq(Seq(Segment)) /\ qs = Append(ps, p)
    BY <1>6, <2>1, <2>2
  <2>4. /\ Len(qs) = Len(ps) + 1 /\ Len(ps) \in Nat /\ qs[Len(ps) + 1] = p
        /\ \A k \in 1..Len(ps) : qs[k] = ps[k]
    BY <1>4, <2>3
  <2>5. \A k \in 1..Len(ps) : ps[k] \in PathSet
    BY <1>2, <2>2 DEF FrameTyped
  <2>6. \A k \in 1..Len(qs) : qs[k] \in PathSet
    BY <1>4, <2>4, <2>5
  <2>7. f.calm \in BOOLEAN
    BY <1>2 DEF FrameTyped
  <2>8. QED
    BY <2>1, <2>2, <2>6, <2>7, EmptyPath DEF FrameTyped
<1>8. Walked(alloc, f, g)
  BY <1>2, <1>4, <1>5, FoundFits
<1>9. IF Len(g.paths) < Len(g.objs) THEN Go(t, "walk", Begin(g)) ELSE Go(t, Then(f.op), g)
  BY <1>1, <1>3, <1>5 DEF Found
<1>10. /\ handle' \in HandleSet /\ issued' = issued /\ blame' \subseteq {"path", "race"}
  BY DEF Found, Typed
<1>11. CASE Len(g.paths) # Len(g.objs)
  <2>1. /\ FrameOK(alloc, "walk", g) /\ Len(g.paths) + 1 \in 1..Len(g.objs)
        /\ DOMAIN g = Fields
    BY <1>8, <1>11 DEF Walked
  <2>2. PICK h : h = [g EXCEPT !.at = Target(g), !.seen = {PathIn(parents, Target(g))}]
    OBVIOUS
  <2>3. Target(g) \in alloc /\ Len(g.paths) < Len(g.objs)
    BY <2>1 DEF Target, FrameOK
  <2>4. Go(t, "walk", h)
    BY <1>9, <2>2, <2>3 DEF Begin
  <2>5. FrameTyped(h)
    BY <1>7, <2>1, <2>2, <2>3, BeginTyped
  <2>6. QED
    BY <1>10, <2>4, <2>5, GoTyped
<1>12. CASE Len(g.paths) = Len(g.objs)
  <2>1. FrameOK(alloc, Then(f.op), g)
    BY <1>8, <1>12 DEF Walked
  <2>2. Len(g.objs) \in Nat
    BY <2>1 DEF FrameOK
  <2>3. Go(t, Then(f.op), g)
    BY <1>9, <1>12, <2>2
  <2>4. QED
    BY <1>7, <1>10, <2>3, GoTyped
<1>13. QED
  BY <1>11, <1>12

LEMMA FinishTyped ==
  ASSUME Typed, FramesOK, NEW t \in Thread, Finish(t),
         handle' \in HandleSet, issued' = issued, blame' \subseteq {"path", "race"}
  PROVE  Typed'
BY IdleTyped, GoTyped DEF Finish

LEMMA FileSystemTyped ==
  ASSUME Typed, TableOK, FramesOK, NEW t \in Thread, FileSystem(t) PROVE Typed'
<1>1. handle \in HandleSet
  BY DEF Typed
<1>2. FrameTyped(fr[t])
  BY DEF Typed
<1>3. ASSUME NEW i, FsPut(t, i) PROVE Typed'
  <2>1. PICK f : f = fr[t]
    OBVIOUS
  <2>2. Go(t, "look", f) /\ Blame(t) /\ handle' = handle /\ issued' = issued
    BY <1>3, <2>1 DEF FsPut
  <2>3. blame' \subseteq {"path", "race"}
    BY <2>2, BlameTyped
  <2>4. QED
    BY <1>1, <1>2, <2>1, <2>2, <2>3, GoTyped
<1>4. CASE FsRefuses(t) \/ FsUse(t)
  <2>1. Finish(t) /\ Blame(t) /\ handle' = handle /\ issued' = issued
    BY <1>4 DEF FsRefuses, FsUse
  <2>2. blame' \subseteq {"path", "race"}
    BY <2>1, BlameTyped
  <2>3. QED
    BY <1>1, <2>1, <2>2, FinishTyped
<1>5. CASE FsMake(t)
  BY <1>3, <1>5 DEF FsMake
<1>6. CASE FsLink(t)
  BY <1>3, <1>6 DEF FsLink
<1>7. CASE FsRemove(t) \/ FsRename(t)
  <2>1. PICK f : f = fr[t]
    OBVIOUS
  <2>2. Go(t, "apply", f) /\ Blame(t) /\ handle' = handle /\ issued' = issued
    BY <1>7, <2>1 DEF FsRemove, FsRename
  <2>3. blame' \subseteq {"path", "race"}
    BY <2>2, BlameTyped
  <2>4. QED
    BY <1>1, <1>2, <2>1, <2>2, <2>3, GoTyped
<1>8. QED
  BY <1>4, <1>5, <1>6, <1>7 DEF FileSystem

LEMMA OpenedTyped ==
  ASSUME Typed, TableOK, FramesOK, NEW t \in Thread, Opened(t) PROVE Typed'
<1>1. PICK f : f = fr[t]
  OBVIOUS
<1>2. FrameOK(alloc, "open", f) /\ FrameTyped(f)
  BY <1>1 DEF Opened, FramesOK, Typed
<1>3. /\ f.objs \in Seq(alloc) /\ Len(f.objs) = 1 /\ Len(f.paths) = 1 /\ alloc \subseteq Obj
  BY <1>2 DEF FrameOK, OpsAt, TableOK
<1>4. f.objs[1] \in Obj /\ f.paths[1] \in PathSet /\ f.calm \in BOOLEAN
  <2>1. 1 \in 1..Len(f.objs) /\ 1 \in 1..Len(f.paths)
    BY <1>3
  <2>2. f.objs[1] \in alloc
    BY <1>3, <2>1
  <2>3. f.paths[1] \in PathSet /\ f.calm \in BOOLEAN
    BY <1>2, <2>1, Zenon DEF FrameTyped
  <2>4. QED
    BY <1>3, <2>2, <2>3
<1>5. handle' = [node |-> f.objs[1], path |-> f.paths[1], calm |-> f.calm]
  BY <1>1 DEF Opened
<1>6. handle' \in HandleSet
  BY <1>4, <1>5 DEF HandleSet
<1>7. Finish(t) /\ issued' = issued /\ blame' \subseteq {"path", "race"}
  BY DEF Opened, Typed
<1>8. QED
  BY <1>6, <1>7, FinishTyped

LEMMA ListTyped ==
  ASSUME Typed, TableOK, FramesOK, NEW t \in Thread, List(t) PROVE Typed'
<1>1. PICK f, d : f = fr[t] /\ d = Resolve(f.paths[1])
  OBVIOUS
<1>2. FrameOK(alloc, "list", f) /\ FrameTyped(f)
  BY <1>1 DEF List, FramesOK, Typed
<1>3. DOMAIN f = Fields
  BY <1>2, FrameDomain DEF FrameOK
<1>4. PICK found : found = IF d \in DirIno THEN {m \in Name : fs[d][m] # NoIno} ELSE {}
  OBVIOUS
<1>5. PICK h : h = [f EXCEPT !.todo = found]
  OBVIOUS
<1>6. /\ DOMAIN h = Fields /\ h.paths = f.paths /\ h.segs = f.segs /\ h.seen = f.seen
      /\ h.moved = f.moved /\ h.calm = f.calm
  BY <1>3, <1>5 DEF Fields
<1>7. FrameTyped(h)
  BY <1>2, <1>6, KeptTyped
<1>8. PICK g \in Nexts(h) : Go(t, IF g.op = "none" THEN "idle" ELSE "look", g)
  BY <1>1, <1>4, <1>5 DEF List
<1>9. FrameTyped(g)
  BY <1>6, <1>7, NextTyped
<1>10. /\ handle' \in HandleSet /\ issued' = issued /\ blame' \subseteq {"path", "race"}
  BY BlameTyped DEF List, Typed
<1>11. PICK l : l = IF g.op = "none" THEN "idle" ELSE "look"
  OBVIOUS
<1>12. Go(t, l, g)
  BY <1>8, <1>11
<1>13. QED
  BY <1>9, <1>10, <1>12, GoTyped

LEMMA LookTyped ==
  ASSUME Typed, TableOK, FramesOK, NEW t \in Thread, Look(t) PROVE Typed'
<1>1. PICK f : f = fr[t]
  OBVIOUS
<1>2. FrameOK(alloc, "look", f) /\ FrameTyped(f)
  BY <1>1 DEF Look, FramesOK, Typed
<1>3. DOMAIN f = Fields
  BY <1>2, FrameDomain DEF FrameOK
<1>4. /\ handle' \in HandleSet /\ issued' = issued /\ blame' \subseteq {"path", "race"}
  BY BlameTyped DEF Look, Typed
<1>5. CASE \E i \in Ino \cup {NoIno} : Learns(t, f, i)
  <2>1. PICK i, g : Go(t, "apply", g) /\ g = [f EXCEPT !.cino = i]
    BY <1>5 DEF Learns
  <2>2. /\ g.paths = f.paths /\ g.segs = f.segs /\ g.seen = f.seen /\ g.moved = f.moved
        /\ g.calm = f.calm
    BY <2>1 DEF Fields
  <2>3. FrameTyped(g)
    BY <1>2, <2>2, KeptTyped
  <2>4. QED
    BY <1>4, <2>1, <2>3, GoTyped
<1>6. CASE \E g \in Nexts(f) : Go(t, After(g), g)
  <2>1. PICK g \in Nexts(f) : Go(t, After(g), g)
    BY <1>6
  <2>2. FrameTyped(g)
    BY <1>2, <1>3, NextTyped
  <2>3. PICK l : l = After(g)
    OBVIOUS
  <2>4. Go(t, l, g)
    BY <2>1, <2>3
  <2>5. QED
    BY <1>4, <2>2, <2>4, GoTyped
<1>7. QED
  BY <1>1, <1>5, <1>6, LookStep

(* A step of the tree: the goroutines that walk note it.                   *)
LEMMA NotedTyped ==
  ASSUME TableOK', NEW f, DOMAIN f = Fields, FrameTyped(f), Target(f) \in alloc',
         NEW g, g = Noted(f)
  PROVE  FrameTyped(g)
<1>1. PICK p : p = PathIn(parents', Target(f))
  OBVIOUS
<1>2. p \in PathSet
  <2>1. alloc' \subseteq Obj
    BY DEF TableOK
  <2>2. PICK E, G : E = [name : Name, node : alloc'] /\ G = [name : Name, node : Obj]
    OBVIOUS
  <2>3. E \subseteq G
    BY <2>1, <2>2
  <2>4. Seq(E) \subseteq Seq(G)
    BY <2>3, SeqWiden
  <2>5. PICK par : par = parents'
    OBVIOUS
  <2>6. par \in [Obj -> Seq(E)]
    BY <2>2, <2>5 DEF TableOK
  <2>7. \A x \in Obj : par[x] \in Seq(G)
    BY <2>4, <2>6
  <2>8. Linked(par)
    BY <2>2, <2>7 DEF Linked
  <2>9. PICK o : o = Target(f)
    OBVIOUS
  <2>10. o \in Obj
    BY <2>1, <2>9
  <2>11. PathIn(par, o) \in PathSet
    BY <2>8, <2>10, PathInType
  <2>12. QED
    BY <1>1, <2>5, <2>9, <2>11
<1>3. PICK sn, mv : sn = f.seen \cup {p} /\ mv = IF f.moved < 2 THEN f.moved + 1 ELSE f.moved
  OBVIOUS
<1>4. g = [f EXCEPT !.seen = sn, !.moved = mv]
  BY <1>1, <1>3 DEF Noted
<1>5. /\ g.paths = f.paths /\ g.segs = f.segs /\ g.seen = sn /\ g.moved = mv
      /\ g.calm = f.calm
  BY <1>4 DEF Fields
<1>6. sn \subseteq PathSet
  BY <1>2, <1>3 DEF FrameTyped
<1>7. mv \in 0..2
  <2>1. f.moved \in 0..2
    BY DEF FrameTyped
  <2>2. PICK m \in 0..2 : m = f.moved
    BY <2>1
  <2>3. mv = IF m < 2 THEN m + 1 ELSE m
    BY <1>3, <2>2
  <2>4. QED
    BY <2>3
<1>8. QED
  BY <1>5, <1>6, <1>7 DEF FrameTyped

LEMMA ChangedTyped ==
  ASSUME Typed, TableOK', FramesOK, alloc \subseteq alloc',
         NEW t \in Thread, pc[t] = "apply", Changed(t)
  PROVE  Typed'
<1>1. PICK f : f = fr[t]
  OBVIOUS
<1>2. FrameOK(alloc, "apply", f) /\ FrameTyped(f)
  BY <1>1 DEF FramesOK, Typed
<1>3. DOMAIN f = Fields
  BY <1>2, FrameDomain DEF FrameOK
<1>4. PICK g \in Nexts(f) :
        fr' = [u \in Thread |->
          IF u = t THEN g
          ELSE IF pc[u] = "walk" /\ parents' # parents THEN Noted(fr[u])
          ELSE fr[u]]
  BY <1>1 DEF Changed
<1>5. FrameTyped(g)
  BY <1>2, <1>3, NextTyped
<1>6. ASSUME NEW u \in Thread PROVE FrameTyped(fr'[u])
  <2>1. CASE u = t
    BY <1>4, <1>5, <2>1
  <2>2. CASE u # t /\ pc[u] = "walk" /\ parents' # parents
    <3>1. PICK h, h1 : h = fr[u] /\ h1 = fr'[u]
      OBVIOUS
    <3>2. FrameOK(alloc, "walk", h) /\ FrameTyped(h)
      BY <2>2, <3>1 DEF FramesOK, Typed
    <3>3. h1 = Noted(h)
      BY <1>4, <2>2, <3>1
    <3>4. DOMAIN h = Fields
      BY <3>2, FrameDomain DEF FrameOK
    <3>5. Target(h) \in alloc'
      <4>1. h.objs \in Seq(alloc) /\ h.paths \in Seq(Seq(Segment))
            /\ Len(h.paths) < Len(h.objs)
        BY <3>2 DEF FrameOK
      <4>2. PICK n, k : n = Len(h.objs) /\ k = Len(h.paths)
        OBVIOUS
      <4>3. n \in Nat /\ k \in Nat /\ k < n
        BY <4>1, <4>2
      <4>4. k + 1 \in 1..n
        BY <4>3
      <4>5. h.objs[k + 1] \in alloc
        BY <4>1, <4>2, <4>4
      <4>6. QED
        BY <4>2, <4>5 DEF Target
    <3>6. FrameTyped(h1)
      BY <3>2, <3>3, <3>4, <3>5, NotedTyped
    <3>7. QED
      BY <3>1, <3>6
  <2>3. CASE u # t /\ ~(pc[u] = "walk" /\ parents' # parents)
    <3>1. fr'[u] = fr[u]
      BY <1>4, <2>3
    <3>2. QED
      BY <3>1 DEF Typed
  <2>4. QED
    BY <2>1, <2>2, <2>3
<1>7. handle' = handle /\ issued' = issued /\ blame' = blame
  BY DEF Changed
<1>8. QED
  BY <1>6, <1>7 DEF Typed, FrameTyped, HandleSet

(* A request that begins.                                                  *)
LEMMA CalmTyped ==
  ASSUME NEW f, DOMAIN f = Fields, FrameTyped(f), NEW c \in BOOLEAN,
         NEW g, g = [f EXCEPT !.calm = c]
  PROVE  FrameTyped(g)
<1>1. /\ g.paths = f.paths /\ g.segs = f.segs /\ g.seen = f.seen /\ g.moved = f.moved
      /\ g.calm = c
  BY DEF Fields
<1>2. QED
  BY <1>1 DEF FrameTyped

LEMMA SendTyped ==
  ASSUME Typed, FramesOK, NEW t \in Thread, NEW l, NEW f, Send(t, l, f),
         DOMAIN f = Fields, FrameTyped(f)
  PROVE  Typed'
<1>1. ASSUME NEW u \in Thread PROVE FrameTyped(fr'[u])
  <2>1. PICK g : g = fr'[u]
    OBVIOUS
  <2>2. CASE u = t
    <3>1. PICK c : c = (f.calm /\ \A v \in Thread \ {t} : fr[v].op \notin Changes)
      OBVIOUS
    <3>2. g = [f EXCEPT !.calm = c]
      BY <2>1, <2>2, <3>1 DEF Send
    <3>3. c \in BOOLEAN
      BY <3>1
    <3>4. QED
      BY <2>1, <3>2, <3>3, CalmTyped
  <2>3. CASE u # t
    <3>1. PICK h : h = fr[u]
      OBVIOUS
    <3>2. PICK c : c = (h.calm /\ (f.op \in Changes => pc[u] = "idle"))
      OBVIOUS
    <3>3. g = [h EXCEPT !.calm = c]
      BY <2>1, <2>3, <3>1, <3>2 DEF Send
    <3>4. c \in BOOLEAN
      BY <3>2
    <3>5. DOMAIN h = Fields /\ FrameTyped(h)
      BY <3>1, FrameDomain DEF FramesOK, FrameOK, Typed
    <3>6. QED
      BY <2>1, <3>3, <3>4, <3>5, CalmTyped
  <2>4. QED
    BY <2>2, <2>3
<1>2. handle' \in HandleSet
  <2>1. PICK h, h1 : h = handle /\ h1 = handle'
    OBVIOUS
  <2>2. PICK c : c = (h.calm /\ (f.op \in Changes => h = NoHandle))
    OBVIOUS
  <2>3. c \in BOOLEAN
    BY <2>2
  <2>4. h1 = [h EXCEPT !.calm = c]
    BY <2>1, <2>2 DEF Send
  <2>5. h \in [node : Obj \cup {Nil}, path : PathSet, calm : BOOLEAN]
    BY <2>1 DEF Typed, HandleSet
  <2>6. h1 \in [node : Obj \cup {Nil}, path : PathSet, calm : BOOLEAN]
    BY <2>3, <2>4, <2>5
  <2>7. QED
    BY <2>1, <2>6 DEF HandleSet
<1>3. issued' \in 0..MaxRequests
  <2>1. issued' = issued + 1 /\ issued < MaxRequests
    BY DEF Send
  <2>2. issued \in 0..MaxRequests /\ MaxRequests \in Nat
    BY DEF Typed
  <2>3. QED
    BY <2>1, <2>2
<1>4. blame' \subseteq {"path", "race"}
  <2>1. blame' = blame \/ blame' = blame \cup {"race"}
    BY DEF Send
  <2>2. QED
    BY <2>1 DEF Typed
<1>5. QED
  BY <1>1, <1>2, <1>3, <1>4 DEF Typed, FrameTyped, HandleSet

LEMMA AskTyped ==
  ASSUME Typed, TableOK, FramesOK, NEW t \in Thread, NEW h, DOMAIN h = Fields,
         FrameTyped(h), h.paths = <<>>, 1 \in 1..Len(h.objs), Send(t, "walk", Begin(h))
  PROVE  Typed'
<1>1. PICK g : g = [h EXCEPT !.at = Target(h), !.seen = {PathIn(parents, Target(h))}]
  OBVIOUS
<1>2. Send(t, "walk", g)
  BY <1>1 DEF Begin
<1>3. g.objs = h.objs /\ DOMAIN g = Fields
  BY <1>1 DEF Fields
<1>4. \A k \in 1..Len(h.objs) : h.objs[k] \in alloc
  BY <1>2, <1>3 DEF Send
<1>5. Target(h) \in alloc
  <2>1. Len(h.paths) = 0
    BY EmptyIn
  <2>2. Len(h.paths) + 1 = 1
    BY <2>1
  <2>3. QED
    BY <1>4, <2>2 DEF Target
<1>6. FrameTyped(g)
  BY <1>1, <1>5, BeginTyped
<1>7. QED
  BY <1>2, <1>3, <1>6, SendTyped

LEMMA KernelTyped ==
  ASSUME Typed, TableOK, FramesOK, NEW t \in Thread, Kernel(t) PROVE Typed'
<1>1. ASSUME NEW k, NEW objs, NEW names, 1 \in 1..Len(objs), Ask(t, k, objs, names)
      PROVE  Typed'
  <2>1. PICK L : L = LocksOf(k, objs, names)
    OBVIOUS
  <2>2. PICK h : h = [IdleFrame EXCEPT !.op = k, !.objs = objs, !.names = names, !.locks = L]
    OBVIOUS
  <2>3. /\ DOMAIN h = Fields /\ h.objs = objs /\ h.paths = IdleFrame.paths
        /\ h.segs = IdleFrame.segs /\ h.seen = IdleFrame.seen /\ h.moved = IdleFrame.moved
        /\ h.calm = IdleFrame.calm
    BY <2>2, FrameDomain DEF Fields
  <2>4. h.paths = <<>>
    BY <2>3 DEF IdleFrame
  <2>5. FrameTyped(h)
    BY <2>3, IdleTyped, KeptTyped
  <2>6. Send(t, "walk", Begin(h))
    BY <1>1, <2>1, <2>2 DEF Ask
  <2>7. 1 \in 1..Len(h.objs)
    BY <1>1, <2>3
  <2>8. QED
    BY <2>3, <2>4, <2>5, <2>6, <2>7, AskTyped
<1>2. \A a, b : 1 \in 1..Len(<<a>>) /\ 1 \in 1..Len(<<a, b>>)
  OBVIOUS
<1>3. CASE SendEntry(t)
  BY <1>1, <1>2, <1>3 DEF SendEntry
<1>4. CASE SendRename(t)
  BY <1>1, <1>2, <1>4 DEF SendRename
<1>5. CASE SendLink(t)
  BY <1>1, <1>2, <1>5 DEF SendLink
<1>6. CASE SendUse(t)
  BY <1>1, <1>2, <1>6 DEF SendUse
<1>7. CASE SendOpenDir(t)
  BY <1>1, <1>2, <1>7 DEF SendOpenDir
<1>8. CASE SendReadPlus(t)
  <2>1. PICK a, p, x : a = handle.node /\ p = handle.path /\ x = handle.calm
    OBVIOUS
  <2>2. p \in PathSet /\ x \in BOOLEAN
    BY <2>1 DEF Typed, HandleSet
  <2>3. PICK f : f = [IdleFrame EXCEPT !.op = "ReadPlus", !.objs = <<a>>]
    OBVIOUS
  <2>4. /\ DOMAIN f = Fields /\ f.objs = <<a>> /\ f.paths = IdleFrame.paths
        /\ f.segs = IdleFrame.segs /\ f.seen = IdleFrame.seen /\ f.moved = IdleFrame.moved
        /\ f.calm = IdleFrame.calm
    BY <2>3, FrameDomain DEF Fields
  <2>5. FrameTyped(f)
    BY <2>4, IdleTyped, KeptTyped
  <2>6. CASE p = <<>>
    <3>1. Send(t, "walk", Begin(f))
      BY <1>8, <2>1, <2>3, <2>6 DEF SendReadPlus
    <3>2. f.paths = <<>> /\ 1 \in 1..Len(f.objs)
      BY <1>2, <2>4 DEF IdleFrame
    <3>3. QED
      BY <2>4, <2>5, <3>1, <3>2, AskTyped
  <2>7. CASE p # <<>>
    <3>1. PICK ps : ps = <<p>>
      OBVIOUS
    <3>2. PICK g : g = [f EXCEPT !.paths = ps, !.calm = x]
      OBVIOUS
    <3>3. Send(t, "list", g)
      BY <1>8, <2>1, <2>3, <2>7, <3>1, <3>2 DEF SendReadPlus
    <3>4. /\ DOMAIN g = Fields /\ g.paths = ps /\ g.segs = f.segs /\ g.seen = f.seen
          /\ g.moved = f.moved /\ g.calm = x
      BY <2>4, <3>2 DEF Fields
    <3>5. \A k \in 1..Len(ps) : ps[k] \in PathSet
      BY <2>2, <3>1
    <3>6. FrameTyped(g)
      BY <2>2, <2>5, <3>4, <3>5 DEF FrameTyped
    <3>7. QED
      BY <3>3, <3>4, <3>6, SendTyped
  <2>8. QED
    BY <2>6, <2>7
<1>9. QED
  BY <1>3, <1>4, <1>5, <1>6, <1>7, <1>8 DEF Kernel

LEMMA TreeTyped ==
  ASSUME Typed, TableOK', FramesOK, NEW t \in Thread, AddChild(t) \/ RmChild(t) \/ MvChild(t)
  PROVE  Typed'
<1>1. PICK f, p, m, i : f = fr[t] /\ p = Dir(f) /\ m = f.names[1] /\ i = f.cino
  OBVIOUS
<1>2. alloc \subseteq alloc'
  <2>1. CASE AddChild(t)
    <3>1. T!Add(p, m, i)
      BY <1>1, <2>1 DEF AddChild
    <3>2. QED
      BY <3>1 DEF T!Add
  <2>2. CASE RmChild(t)
    <3>1. T!Remove(p, m) \/ UNCHANGED treeVars
      BY <1>1, <2>2 DEF RmChild
    <3>2. QED
      BY <3>1 DEF T!Remove, treeVars
  <2>3. CASE MvChild(t)
    <3>1. PICK q, k : T!Move(f.objs[1], m, q, k)
      BY <1>1, <2>3 DEF MvChild
    <3>2. QED
      BY <3>1 DEF T!Move
  <2>4. QED
    BY <2>1, <2>2, <2>3
<1>3. pc[t] = "apply" /\ Changed(t)
  BY DEF AddChild, RmChild, MvChild
<1>4. QED
  BY <1>2, <1>3, ChangedTyped

LEMMA StepTyped ==
  ASSUME Typed, TableOK, TableOK', FramesOK,
         NEW t \in Thread, Kernel(t) \/ FileSystem(t) \/ Bridge(t)
  PROVE  Typed'
BY KernelTyped, FileSystemTyped, HopTyped, FoundTyped, OpenedTyped, ListTyped, LookTyped,
   TreeTyped DEF Bridge

LEMMA StartTyped == ASSUME Init PROVE Typed
<1>1. /\ fr = [t \in Thread |-> IdleFrame] /\ handle = NoHandle /\ issued = 0 /\ blame = {}
  BY DEF Init
<1>2. handle \in HandleSet
  BY <1>1, EmptyPath DEF HandleSet, NoHandle
<1>3. 0 \in 0..MaxRequests
  OBVIOUS
<1>4. QED
  BY <1>1, <1>2, <1>3, IdleTyped DEF Typed

(* What the tree has missed is never taken back.                           *)
LEMMA MissedGrows ==
  ASSUME NEW t \in Thread, Kernel(t) \/ FileSystem(t) \/ Bridge(t)
  PROVE  missed' \in {missed, missed \cup {"lookup"}, missed \cup {"number"}}
<1>1. CASE Kernel(t)
  <2>1. missed' = missed
    BY <1>1 DEF Kernel, SendEntry, SendRename, SendLink, SendUse, SendOpenDir, SendReadPlus,
                Ask, Send
  <2>2. QED
    BY <2>1
<1>2. CASE FileSystem(t)
  BY <1>2 DEF FileSystem, FsRefuses, FsUse, FsMake, FsLink, FsRemove, FsRename
<1>3. CASE Bridge(t)
  <2>1. CASE Look(t)
    BY <2>1 DEF Look
  <2>2. CASE ~Look(t)
    <3>1. missed' = missed
      BY <1>3, <2>2 DEF Bridge, Hop, Found, Opened, List, AddChild, RmChild, MvChild, Changed
    <3>2. QED
      BY <3>1
  <2>3. QED
    BY <2>1, <2>2
<1>4. QED
  BY <1>1, <1>2, <1>3

MissedTyped == missed \subseteq {"lookup", "number"}

(* TypeOK is what the table, the frames and the paths have for types.      *)
LEMMA TypeFromInv == ASSUME WalkInv, Typed, MissedTyped PROVE TypeOK
<1>1. TableOK /\ FramesOK /\ alloc \subseteq Obj
  BY DEF WalkInv, TableOK
<1>2. \A o \in Obj : \A k \in 1..Len(parents[o]) : parents[o][k] \in [name : Name, node : Obj]
  <2>1. ASSUME NEW o \in Obj, NEW k \in 1..Len(parents[o])
        PROVE  parents[o][k] \in [name : Name, node : Obj]
    <3>1. PICK s : s = parents[o]
      OBVIOUS
    <3>2. PICK E : E = [name : Name, node : alloc]
      OBVIOUS
    <3>3. s \in Seq(E) /\ k \in 1..Len(s)
      BY <1>1, <3>1, <3>2 DEF TableOK
    <3>4. s[k] \in E
      BY <3>3
    <3>5. QED
      BY <1>1, <3>1, <3>2, <3>4
  <2>2. QED
    BY <2>1
<1>3. children \in [Obj -> [Name -> Obj \cup {Nil}]]
  <2>1. PICK A, B : A = alloc \cup {Nil} /\ B = Obj \cup {Nil}
    OBVIOUS
  <2>2. A \subseteq B
    BY <1>1, <2>1
  <2>3. children \in [Obj -> [Name -> A]]
    BY <1>1, <2>1 DEF TableOK
  <2>4. children \in [Obj -> [Name -> B]]
    BY <2>2, <2>3, TableWiden
  <2>5. QED
    BY <2>1, <2>4
<1>4. nodes \in [Ino -> Obj \cup {Nil}]
  BY <1>1 DEF TableOK
<1>5. /\ ino \in [Obj -> Ino] /\ lookupCount \in [Obj -> Nat]
      /\ fs \in [DirIno -> [Name -> Ino \cup {NoIno}]]
  BY <1>1 DEF TableOK
<1>6. pc \in [Thread -> Label]
  BY <1>1 DEF FramesOK
<1>7. ASSUME NEW t \in Thread
      PROVE  /\ \A k \in 1..Len(fr[t].paths) : fr[t].paths[k] \in PathSet
             /\ fr[t].segs \in PathSet /\ fr[t].at \in Obj \cup {Nil}
             /\ fr[t].seen \subseteq PathSet /\ fr[t].moved \in 0..2
             /\ fr[t].todo \subseteq Name /\ fr[t].cino \in Ino \cup {NoIno}
  <2>1. PICK f : f = fr[t]
    OBVIOUS
  <2>2. FrameTyped(f) /\ FrameOK(alloc, pc[t], f)
    BY <1>1, <2>1 DEF Typed, FramesOK
  <2>3. f.segs \in PathSet
    BY <2>2, PathSetIs DEF FrameTyped
  <2>4. f.at \in Obj \cup {Nil} /\ f.todo \subseteq Name /\ f.cino \in Ino \cup {NoIno}
    BY <1>1, <2>2 DEF FrameOK
  <2>5. QED
    BY <2>1, <2>2, <2>3, <2>4 DEF FrameTyped
<1>8. QED
  BY <1>1, <1>2, <1>3, <1>4, <1>5, <1>6, <1>7 DEF TypeOK, Typed, MissedTyped, HandleSet

(* Every variable has its type, and every path is one of the names of a    *)
(* walk that the bound does not cut off, or the one that pathOf makes up   *)
(* (file.go:28-63).                                                        *)
THEOREM TypeCorrect == Spec => []TypeOK
<1>1. Init => Typed /\ MissedTyped
  BY StartTyped DEF Init, MissedTyped
<1>2. ASSUME WalkInv, WalkInv', Typed, MissedTyped, [Next]_vars PROVE Typed' /\ MissedTyped'
  <2>1. TableOK /\ TableOK' /\ FramesOK
    BY <1>2 DEF WalkInv
  <2>2. CASE Next
    <3>1. PICK t \in Thread : Kernel(t) \/ FileSystem(t) \/ Bridge(t)
      BY <2>2 DEF Next
    <3>2. missed' \in {missed, missed \cup {"lookup"}, missed \cup {"number"}}
      BY <3>1, MissedGrows
    <3>3. MissedTyped'
      BY <1>2, <3>2 DEF MissedTyped
    <3>4. QED
      BY <1>2, <2>1, <3>1, <3>3, StepTyped
  <2>3. CASE UNCHANGED vars
    <3>1. /\ handle' = handle /\ fr' = fr /\ issued' = issued /\ blame' = blame
          /\ missed' = missed
      BY <2>3 DEF vars, threadVars
    <3>2. (Typed' <=> Typed) /\ (MissedTyped' <=> MissedTyped)
      BY <3>1 DEF Typed, MissedTyped, FrameTyped, HandleSet
    <3>3. QED
      BY <1>2, <3>2
  <2>4. QED
    BY <1>2, <2>2, <2>3
<1>3. WalkInv /\ Typed /\ MissedTyped => TypeOK
  BY TypeFromInv
<1>4. QED
  BY <1>1, <1>2, <1>3, WalkInvariant, PTL DEF Spec
=============================================================================
