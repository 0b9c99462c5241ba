------------------------- MODULE InodeParentsProofs -------------------------
(* Proofs about InodeParents for any number of parents and any clock.      *)
EXTENDS InodeParents, FiniteSetTheorems, TLAPS

USE EntryAssumption, ClockAssumption

(* A dump taken at t: rank is the place of each of the n parents in the    *)
(* slice, top is the last of them, r[k] the time at which the parent at    *)
(* place k is displaced when the slice is added to an empty store.         *)
Copied(t, n, rank, top, r) ==
  /\ Sorted(rank, t)
  /\ \A a, b \in All : rank[a] = rank[b] => a = b
  /\ \A k, l \in 1..n - 1 : k < l => r[l] \in Later(r[k])
  /\ newest' = top /\ rank[top] = n
  /\ other' = [e \in All \ {top} |-> r[rank[e]]]
  /\ \A e \in All \ {top} : rank[e] \in 1..n - 1
  /\ now' \in Nat
  /\ \A k \in 1..n - 1 : r[k] <= now'

(* What DumpRestore makes: the same entries, the newest one first.         *)
LEMMA CopyEffect ==
  ASSUME TypeOK, DumpRestore
  PROVE  \E t \in Later(now), n \in Nat, top \in All :
           \E rank \in [All -> 1..n], r \in [1..n - 1 -> Later(t)] :
             Copied(t, n, rank, top, r)
<1> DEFINE n == Cardinality(All)
<1>1. PICK t \in Later(now), rank \in Bijection(All, 1..n) :
        /\ Sorted(rank, t)
        /\ \E r \in [1..n - 1 -> Later(t)] :
             /\ \A k, l \in 1..n - 1 : k < l => r[l] \in Later(r[k])
             /\ other' = [e \in {x \in All : rank[x] < n} |-> r[rank[e]]]
             /\ now' \in {t} \cup {r[k] : k \in 1..n - 1}
             /\ \A k \in 1..n - 1 : r[k] <= now'
        /\ \E e \in All : rank[e] = n /\ newest' = e
  BY DEF DumpRestore
<1>2. PICK r \in [1..n - 1 -> Later(t)] :
             /\ \A k, l \in 1..n - 1 : k < l => r[l] \in Later(r[k])
             /\ other' = [e \in {x \in All : rank[x] < n} |-> r[rank[e]]]
             /\ now' \in {t} \cup {r[k] : k \in 1..n - 1}
             /\ \A k \in 1..n - 1 : r[k] <= now'
  BY <1>1
<1>3. PICK top \in All : rank[top] = n /\ newest' = top
  BY <1>1
<1>4. n \in Nat
  <2>1. All \in SUBSET Entry
    BY DEF TypeOK, All
  <2>2. IsFiniteSet(All)
    BY <2>1, FS_Subset
  <2>3. QED
    BY <2>2, FS_CardinalityType
<1> HIDE DEF n
<1>5. rank \in [All -> 1..n] /\ \A a, b \in All : rank[a] = rank[b] => a = b
  BY DEF Bijection, Injection, Surjection, IsInjective
<1>6. \A e \in All \ {top} : rank[e] \in 1..n - 1
  BY <1>3, <1>4, <1>5
<1>7. {x \in All : rank[x] < n} = All \ {top}
  BY <1>3, <1>4, <1>5
<1>8. now' \in Nat
  BY <1>2, <1>4 DEF Later, TypeOK
<1>9. Copied(t, n, rank, top, r)
  BY <1>1, <1>2, <1>3, <1>5, <1>6, <1>7, <1>8 DEF Copied
<1>10. QED
  BY <1>4, <1>5, <1>9

-----------------------------------------------------------------------------
(* The store stays well-formed.                                            *)

(* Every step keeps the types of the store.                                *)
LEMMA TypeStep == TypeOK /\ [Next]_vars => TypeOK'
<1> SUFFICES ASSUME TypeOK, [Next]_vars PROVE TypeOK'
  OBVIOUS
<1>1. CASE UNCHANGED store
  BY <1>1 DEF TypeOK, store
<1>2. ASSUME NEW e \in Entry, Add(e) PROVE TypeOK'
  <2>1. CASE AddFirst(e)
    BY <2>1 DEF TypeOK, AddFirst
  <2>2. CASE AddNewer(e)
    BY <2>2 DEF TypeOK, AddNewer, Displace, Later
  <2>3. QED
    BY <1>1, <1>2, <2>1, <2>2 DEF Add, AddKnown
<1>3. ASSUME NEW e \in Entry, Delete(e) PROVE TypeOK'
  <2>1. CASE DeleteOther(e)
    BY <2>1 DEF TypeOK, DeleteOther, Without
  <2>2. CASE DeleteLast(e)
    BY <2>2 DEF TypeOK, DeleteLast
  <2>3. CASE DeleteNewest(e)
    BY <2>3 DEF TypeOK, DeleteNewest, Without, Latest
  <2>4. QED
    BY <1>1, <1>3, <2>1, <2>2, <2>3 DEF Delete, DeleteNone
<1>4. CASE Clear
  BY <1>4 DEF TypeOK, Clear
<1>5. CASE DumpRestore
  <2>1. PICK t \in Later(now), n \in Nat, top \in All :
           \E rank \in [All -> 1..n], r \in [1..n - 1 -> Later(t)] :
             Copied(t, n, rank, top, r)
    BY <1>5, CopyEffect
  <2>2. PICK rank \in [All -> 1..n], r \in [1..n - 1 -> Later(t)] :
          Copied(t, n, rank, top, r)
    BY <2>1
  <2>3. All \subseteq Entry
    BY DEF TypeOK, All
  <2>4. /\ other' = [e \in All \ {top} |-> r[rank[e]]]
        /\ \A e \in All \ {top} : r[rank[e]] \in Nat
        /\ newest' = top /\ now' \in Nat
    BY <2>2 DEF Copied, Later, TypeOK
  <2>5. QED
    BY <2>3, <2>4 DEF TypeOK
<1>6. QED
  BY <1>1, <1>2, <1>3, <1>4, <1>5 DEF Next, vars, store

(* The two parts of the store fit together (inode_parents.go:26-33), after *)
(* any sequence of operations.                                             *)
THEOREM StoreTypeCorrect == Spec => []TypeOK
<1>1. Init => TypeOK
  BY DEF Init, TypeOK
<1>2. QED
  BY <1>1, TypeStep, PTL DEF Spec

-----------------------------------------------------------------------------
(* With a clock that never reads the same twice, times are distinct.       *)

(* Every step keeps the times of the entries distinct and in the past.     *)
LEMMA TimesStep ==
  ASSUME MinTick >= 1, TypeOK, TimesOK, [Next]_vars
  PROVE  TimesOK'
<1>1. CASE UNCHANGED store
  BY <1>1 DEF TimesOK, store
<1>2. ASSUME NEW e \in Entry, Add(e) PROVE TimesOK'
  <2>1. CASE AddFirst(e)
    BY <2>1 DEF TimesOK, AddFirst
  <2>2. CASE AddNewer(e)
    <3>1. PICK t \in Later(now) : now' = t /\ other' = Displace(e, t)
      BY <2>2 DEF AddNewer
    <3>2. t \in Nat /\ t > now /\ \A x \in DOMAIN other : other[x] \in Nat /\ other[x] < t
      BY <3>1 DEF Later, TypeOK, TimesOK
    <3>3. QED
      BY <3>1, <3>2 DEF TimesOK, Displace
  <2>3. QED
    BY <1>1, <1>2, <2>1, <2>2 DEF Add, AddKnown
<1>3. ASSUME NEW e \in Entry, Delete(e) PROVE TimesOK'
  <2>1. CASE DeleteOther(e) \/ DeleteLast(e)
    BY <2>1 DEF TimesOK, DeleteOther, DeleteLast, Without
  <2>2. CASE DeleteNewest(e)
    BY <2>2 DEF TimesOK, DeleteNewest, Without
  <2>3. QED
    BY <1>1, <1>3, <2>1, <2>2 DEF Delete, DeleteNone
<1>4. CASE Clear
  BY <1>4 DEF TimesOK, Clear
<1>5. CASE DumpRestore
  <2>1. PICK t \in Later(now), n \in Nat, top \in All :
           \E rank \in [All -> 1..n], r \in [1..n - 1 -> Later(t)] :
             Copied(t, n, rank, top, r)
    BY <1>5, CopyEffect
  <2>2. PICK rank \in [All -> 1..n], r \in [1..n - 1 -> Later(t)] :
          Copied(t, n, rank, top, r)
    BY <2>1
  <2>3. \A k, l \in 1..n - 1 : k < l => r[k] < r[l]
    BY <2>2 DEF Copied, Later, TypeOK
  <2>4. \A k, l \in 1..n - 1 : r[k] = r[l] => k = l
    <3>1. \A k \in 1..n - 1 : r[k] \in Nat
      BY <2>2 DEF Later, TypeOK
    <3>2. QED
      BY <2>3, <3>1
  <2>5. QED
    BY <2>2, <2>4 DEF TimesOK, Copied
<1>6. QED
  BY <1>1, <1>2, <1>3, <1>4, <1>5 DEF Next, vars, store

-----------------------------------------------------------------------------
(* Each step does to the set of parents, and to their order, what it says. *)

(* Relations are equal when they relate the same elements.                 *)
LEMMA SamePairs ==
  ASSUME NEW A, NEW S \in SUBSET (A \X A), NEW T \in SUBSET (A \X A),
         \A a, b \in A : <<a, b>> \in S <=> <<a, b>> \in T
  PROVE  S = T
  OBVIOUS

(* Older is a relation between members, now and in the next state.         *)
LEMMA OlderPairs ==
  /\ Older \in SUBSET (All \X All)
  /\ \A a, b : <<a, b>> \in Older <=>
       /\ a \in All /\ b \in All /\ a \in DOMAIN other
       /\ b = newest \/ (b \in DOMAIN other /\ other[a] < other[b])
  BY DEF Older

(* Older in the next state relates members of the next state.              *)
LEMMA OlderPairsNext ==
  /\ Older' \in SUBSET (All' \X All')
  /\ \A a, b : <<a, b>> \in Older' <=>
       /\ a \in All' /\ b \in All' /\ a \in DOMAIN other'
       /\ b = newest' \/ (b \in DOMAIN other' /\ other'[a] < other'[b])
  BY DEF Older

(* add maps to the addition of the abstract order                          *)
(* (inode_parents.go:26-60).                                               *)
LEMMA AddStep ==
  ASSUME MinTick >= 1, TypeOK, TimesOK, NEW e \in Entry, Add(e) PROVE R!Add(e)
<1> USE DEF R!Add, R!Without, R!Called
<1>1. CASE AddFirst(e)
  <2>1. All = {} /\ All' = {e} /\ Older = {} /\ Older' = {}
    BY <1>1 DEF AddFirst, All, Older, TypeOK
  <2>2. QED
    BY <2>1 DEF Add
<1>2. CASE AddNewer(e)
  <2>1. PICK t \in Later(now) : now' = t /\ other' = Displace(e, t)
    BY <1>2 DEF AddNewer
  <2>2. newest' = e /\ newest # e /\ newest # NoEntry /\ newest \notin DOMAIN other
    BY <1>2 DEF AddNewer, TypeOK
  <2>3. All' = All \cup {e}
    BY <2>1, <2>2 DEF All, Displace
  <2> DEFINE moved == R!Without(e) \cup ((All \ {e}) \X {e})
  <2>4. Older' = moved
    <3>1. t \in Nat /\ \A x \in DOMAIN other : other[x] \in Nat /\ other[x] < t
      BY <2>1 DEF Later, TypeOK, TimesOK
    <3>2. moved \in SUBSET (All' \X All')
      BY <2>3, OlderPairs
    <3>3. ASSUME NEW a \in All', NEW b \in All'
          PROVE  <<a, b>> \in Older' <=> <<a, b>> \in moved
      <4>1. <<a, b>> \in moved <=>
               (<<a, b>> \in Older /\ a # e /\ b # e) \/ (a \in All \ {e} /\ b = e)
        <5>1. <<a, b>> \in R!Without(e) <=> <<a, b>> \in Older /\ a # e /\ b # e
          OBVIOUS
        <5>2. <<a, b>> \in (All \ {e}) \X {e} <=> a \in All \ {e} /\ b = e
          OBVIOUS
        <5>3. QED
          BY <5>1, <5>2
      <4> HIDE DEF moved
      <4>2. CASE a = e
        BY <2>1, <2>2, <4>1, <4>2, OlderPairsNext DEF Displace
      <4>3. CASE a # e /\ b = e
        BY <2>1, <2>2, <2>3, <4>1, <4>3, OlderPairsNext DEF Displace, All
      <4>4. CASE a # e /\ b # e
        <5>1. CASE a = newest
          <6>1. <<a, b>> \notin Older
            BY <2>2, <5>1, OlderPairs
          <6>2. a \in DOMAIN other' /\ other'[a] = t
            BY <2>1, <2>2, <4>4, <5>1 DEF Displace
          <6>3. b \in DOMAIN other' => other'[b] <= t /\ other'[b] \in Nat
            BY <2>1, <2>2, <3>1, <4>4 DEF Displace
          <6>4. <<a, b>> \notin Older'
            BY <2>2, <3>1, <4>4, <6>2, <6>3, OlderPairsNext
          <6>5. QED
            BY <4>1, <4>4, <6>1, <6>4
        <5>2. CASE a # newest
          BY <2>1, <2>2, <2>3, <3>1, <4>1, <4>4, <5>2, OlderPairs, OlderPairsNext
             DEF Displace, All
        <5>3. QED
          BY <5>1, <5>2
      <4>5. QED
        BY <4>2, <4>3, <4>4
    <3>4. QED
      BY <3>2, <3>3, SamePairs, OlderPairsNext
  <2>5. QED
    BY <1>2, <2>3, <2>4 DEF Add
<1>3. CASE AddKnown(e)
  <2>1. All' = All /\ e \in All /\ Older' = Older
    BY <1>3 DEF AddKnown, store, All, Older
  <2>2. Older = R!Without(e) \cup ((All \ {e}) \X {e})
    BY <1>3 DEF AddKnown, Older, All, TypeOK
  <2>3. QED
    BY <2>1, <2>2 DEF Add
<1>4. QED
  BY <1>1, <1>2, <1>3 DEF Add

(* delete maps to the removal of the abstract order.                       *)
LEMMA DeleteStep ==
  ASSUME TypeOK, TimesOK, NEW e \in Entry, Delete(e) PROVE R!Delete(e)
<1> USE DEF R!Delete, R!Without, R!Called
<1> DEFINE kept == R!Without(e)
<1>1. /\ kept \in SUBSET (All \X All)
      /\ \A a, b : <<a, b>> \in kept <=> <<a, b>> \in Older /\ a # e /\ b # e
  BY OlderPairs
<1>2. SUFFICES All' = All \ {e} /\ Older' = kept
  BY DEF Delete
<1> HIDE DEF kept
<1>3. CASE DeleteOther(e)
  <2>1. /\ newest' = newest /\ newest # e /\ newest # NoEntry
        /\ other' = [x \in DOMAIN other \ {e} |-> other[x]]
    BY <1>3 DEF DeleteOther, Without
  <2>2. All' = All \ {e}
    BY <2>1 DEF All
  <2>3. ASSUME NEW a \in All, NEW b \in All PROVE <<a, b>> \in Older' <=> <<a, b>> \in kept
    BY <1>1, <2>1, <2>2, OlderPairs, OlderPairsNext
  <2>4. Older' \in SUBSET (All \X All)
    BY <2>2, OlderPairsNext
  <2>5. QED
    BY <1>1, <2>2, <2>3, <2>4, SamePairs
<1>4. CASE DeleteLast(e)
  <2>1. All = {e} /\ All' = {}
    BY <1>4 DEF DeleteLast, All
  <2>2. ASSUME NEW p \in kept PROVE FALSE
    <3>1. p \in All \X All /\ p = <<p[1], p[2]>> /\ p[1] \in All
      BY <1>1
    <3>2. p[1] = e
      BY <2>1, <3>1
    <3>3. p[1] # e
      BY <1>1, <3>1
    <3>4. QED
      BY <3>2, <3>3
  <2>3. \A p \in Older' : FALSE
    BY <2>1, OlderPairsNext
  <2>4. QED
    BY <2>1, <2>2, <2>3
<1>5. CASE DeleteNewest(e)
  <2>1. PICK i \in DOMAIN other :
          /\ \A k \in DOMAIN other : other[k] <= other[i]
          /\ newest' = i
          /\ other' = [x \in DOMAIN other \ {i} |-> other[x]]
    BY <1>5 DEF DeleteNewest, Latest, Without
  <2>2. newest = e /\ e # NoEntry /\ e \notin DOMAIN other /\ i # NoEntry
    BY <1>5 DEF DeleteNewest, TypeOK
  <2>3. All' = DOMAIN other /\ All = {e} \cup DOMAIN other
    BY <2>1, <2>2 DEF All
  <2>4. ASSUME NEW a \in All, NEW b \in All PROVE <<a, b>> \in Older' <=> <<a, b>> \in kept
    <3>1. CASE a = e \/ b = e
      BY <1>1, <2>2, <2>3, <3>1, OlderPairsNext
    <3>2. CASE a # e /\ b # e
      <4>1. \A x \in DOMAIN other : other[x] \in Nat
        BY DEF TypeOK
      <4>2. <<a, b>> \in kept <=> other[a] < other[b]
        BY <1>1, <2>2, <2>3, <3>2, OlderPairs
      <4>3. CASE a = i
        <5>1. <<a, b>> \notin Older'
          BY <2>1, <4>3, OlderPairsNext
        <5>2. ~ (other[a] < other[b])
          BY <2>1, <2>3, <3>2, <4>1, <4>3
        <5>3. QED
          BY <4>2, <5>1, <5>2
      <4>4. CASE a # i /\ b = i
        <5>1. <<a, b>> \in Older'
          BY <2>1, <2>3, <3>2, <4>4, OlderPairsNext
        <5>2. other[a] # other[i] /\ other[a] <= other[i]
          BY <2>1, <2>3, <3>2, <4>4 DEF TimesOK
        <5>3. other[a] < other[b]
          BY <2>1, <2>3, <3>2, <4>1, <4>4, <5>2
        <5>4. QED
          BY <4>2, <5>1, <5>3
      <4>5. CASE a # i /\ b # i
        BY <2>1, <2>3, <3>2, <4>2, <4>5, OlderPairsNext
      <4>6. QED
        BY <4>3, <4>4, <4>5
    <3>3. QED
      BY <3>1, <3>2
  <2>5. Older' \in SUBSET (All \X All)
    BY <2>3, OlderPairsNext
  <2>6. Older' = kept
    BY <1>1, <2>4, <2>5, SamePairs
  <2>7. QED
    BY <2>2, <2>3, <2>6
<1>6. CASE DeleteNone(e)
  <2>1. All = {} /\ All' = {} /\ Older' = {}
    BY <1>6 DEF DeleteNone, store, All, Older
  <2>2. kept = {}
    BY <1>1, <2>1
  <2>3. QED
    BY <2>1, <2>2
<1>7. QED
  BY <1>3, <1>4, <1>5, <1>6 DEF Delete

(* A dump and a restore map to a stutter of the abstract order.            *)
LEMMA CopyStep ==
  ASSUME MinTick >= 1, TypeOK, TimesOK, DumpRestore PROVE R!Copy
<1>1. PICK t \in Later(now), n \in Nat, top \in All :
           \E rank \in [All -> 1..n], r \in [1..n - 1 -> Later(t)] :
             Copied(t, n, rank, top, r)
  BY CopyEffect
<1>2. PICK rank \in [All -> 1..n], r \in [1..n - 1 -> Later(t)] :
          Copied(t, n, rank, top, r)
  BY <1>1
<1>3. newest # NoEntry /\ newest \in All /\ All = {newest} \cup DOMAIN other
      /\ NoEntry \notin All
  BY DEF DumpRestore, All, TypeOK
<1>4. t \in Nat /\ \A x \in DOMAIN other : other[x] \in Nat /\ other[x] < t
  BY DEF Later, TypeOK, TimesOK
<1>5. \A a, b \in All : rank[a] = rank[b] => a = b
  BY <1>2 DEF Copied
<1>6. ASSUME NEW a \in All, NEW b \in All, SortKey(a, t) < SortKey(b, t)
      PROVE  rank[a] < rank[b]
  <2>1. SortKey(a, t) \in Nat /\ SortKey(b, t) \in Nat
    BY <1>3, <1>4 DEF SortKey
  <2>2. ~ (rank[b] < rank[a])
    BY <1>2, <1>6, <2>1 DEF Copied, Sorted
  <2>3. rank[a] # rank[b]
    BY <1>5, <1>6, <2>1
  <2>4. rank[a] \in Nat /\ rank[b] \in Nat
    BY <1>2
  <2>5. QED
    BY <2>2, <2>3, <2>4
<1>7. top = newest
  <2>1. SUFFICES ASSUME top # newest PROVE FALSE
    OBVIOUS
  <2>2. SortKey(top, t) < SortKey(newest, t)
    BY <1>3, <1>4, <2>1 DEF SortKey
  <2>3. rank[top] < rank[newest] /\ rank[top] = n /\ rank[newest] \in 1..n
    BY <1>2, <1>3, <1>6, <2>2 DEF Copied
  <2>4. QED
    BY <2>3
<1>8. /\ newest' = newest /\ DOMAIN other' = All \ {newest}
      /\ \A x \in All \ {newest} : other'[x] = r[rank[x]] /\ rank[x] \in 1..n - 1
  BY <1>2, <1>7 DEF Copied
<1>9. All' = All /\ DOMAIN other' = DOMAIN other
  BY <1>3, <1>8 DEF All, TypeOK
<1>10. ASSUME NEW a \in DOMAIN other, NEW b \in DOMAIN other, other[a] < other[b]
       PROVE  other'[a] < other'[b]
  <2>1. a # newest /\ b # newest /\ a \in All /\ b \in All
    BY <1>3 DEF TypeOK
  <2>2. rank[a] < rank[b]
    BY <1>6, <1>10, <2>1 DEF SortKey
  <2>3. r[rank[b]] \in Later(r[rank[a]]) /\ r[rank[a]] \in Nat
    <3>1. rank[a] \in 1..n - 1 /\ rank[b] \in 1..n - 1
      BY <1>8, <2>1
    <3>2. r[rank[b]] \in Later(r[rank[a]])
      BY <1>2, <2>2, <3>1 DEF Copied
    <3>3. r[rank[a]] \in Later(t)
      BY <1>2, <3>1
    <3>4. QED
      BY <1>4, <3>2, <3>3 DEF Later
  <2>4. QED
    BY <1>8, <2>1, <2>3 DEF Later
<1>11. ASSUME NEW a \in DOMAIN other, NEW b \in DOMAIN other
       PROVE  other'[a] < other'[b] <=> other[a] < other[b]
  <2>1. other[a] \in Nat /\ other[b] \in Nat /\ other'[a] \in Nat /\ other'[b] \in Nat
    BY <1>2, <1>4, <1>8, <1>9 DEF Later
  <2>2. other[a] = other[b] => a = b
    BY DEF TimesOK
  <2>3. other[b] < other[a] => other'[b] < other'[a]
    BY <1>10
  <2>4. QED
    BY <1>10, <2>1, <2>2, <2>3
<1>12. Older' = Older
  <2>1. ASSUME NEW a \in All, NEW b \in All PROVE <<a, b>> \in Older' <=> <<a, b>> \in Older
    BY <1>8, <1>9, <1>11, OlderPairs, OlderPairsNext
  <2>2. Older' \in SUBSET (All \X All) /\ Older \in SUBSET (All \X All)
    BY <1>9, OlderPairs, OlderPairsNext
  <2>3. QED
    BY <2>1, <2>2, SamePairs
<1>13. QED
  BY <1>9, <1>12 DEF R!Copy, DumpRestore
-----------------------------------------------------------------------------
(* As a set, the store is exact whatever the clock does.                   *)

(* Every step maps to a step of the abstract set, or to a stutter.         *)
LEMMA MembersStep ==
  ASSUME TypeOK, Next PROVE R!SetNext
<1> USE DEF R!SetNext, R!Called
<1>1. ASSUME NEW e \in Entry, Add(e) PROVE All' = All \cup {e}
  BY <1>1 DEF Add, AddFirst, AddNewer, AddKnown, store, All, Displace, TypeOK
<1>2. ASSUME NEW e \in Entry, Delete(e) PROVE All' = All \ {e}
  <2>1. CASE DeleteOther(e) \/ DeleteLast(e) \/ DeleteNone(e)
    BY <2>1 DEF DeleteOther, DeleteLast, DeleteNone, store, All, Without
  <2>2. CASE DeleteNewest(e)
    BY <2>2 DEF DeleteNewest, Latest, All, Without, TypeOK
  <2>3. QED
    BY <1>2, <2>1, <2>2 DEF Delete
<1>3. CASE Clear
  BY <1>3 DEF Clear, All
<1>4. ASSUME DumpRestore PROVE All' = All
  <2>1. PICK t \in Later(now), n \in Nat, top \in All :
             \E rank \in [All -> 1..n], r \in [1..n - 1 -> Later(t)] :
               Copied(t, n, rank, top, r)
    BY <1>4, CopyEffect
  <2>2. newest' = top /\ DOMAIN other' = All \ {top}
    BY <2>1 DEF Copied
  <2>3. top # NoEntry
    BY DEF All, TypeOK
  <2>4. QED
    BY <2>2, <2>3 DEF All
<1>5. QED
  BY <1>1, <1>2, <1>3, <1>4 DEF Next, Add, Delete, DumpRestore

(* The set of parents that removeRef unlinks (inode.go:175) is the set of  *)
(* those added and not deleted since, with any clock.                      *)
THEOREM MembersKept == Spec => KeepsMembers
<1>1. Init => R!SetInit
  BY DEF Init, R!SetInit, All
<1>2. TypeOK /\ [Next]_vars => [R!SetNext]_<<All, last>>
  BY MembersStep DEF vars, store, All
<1>3. QED
  BY <1>1, <1>2, StoreTypeCorrect, PTL DEF Spec, KeepsMembers, R!SetSpec

(* With a clock that never reads the same twice, newest is the parent      *)
(* added last (inode_parents.go:21-28), and a dump that is restored keeps  *)
(* the order of all of them: InodeParents implements ParentRecency.        *)
THEOREM RecencyKept == MinTick >= 1 => (Spec => KeepsRecency)
<1> SUFFICES ASSUME MinTick >= 1 PROVE Spec => KeepsRecency
  OBVIOUS
<1>1. Init => R!Init /\ TypeOK /\ TimesOK
  BY DEF Init, R!Init, All, Older, TypeOK, TimesOK
<1>2. TypeOK /\ TimesOK /\ [Next]_vars => (TypeOK /\ TimesOK)'
  BY TypeStep, TimesStep
<1>3. TypeOK /\ TimesOK /\ [Next]_vars => [R!Next]_(R!vars)
  <2> SUFFICES ASSUME TypeOK, TimesOK, [Next]_vars PROVE [R!Next]_(R!vars)
    OBVIOUS
  <2>1. CASE UNCHANGED vars
    BY <2>1 DEF vars, store, R!vars, All, Older
  <2>2. CASE Clear
    <3>1. All' = {} /\ Older' = {}
      BY <2>2 DEF Clear, All, Older
    <3>2. QED
      BY <2>2, <3>1 DEF Clear, R!Clear, R!Next
  <2>3. CASE \E e \in Entry : Add(e) \/ Delete(e)
    BY <2>3, AddStep, DeleteStep DEF R!Next
  <2>4. CASE DumpRestore
    BY <2>4, CopyStep DEF R!Next
  <2>5. QED
    BY <2>1, <2>2, <2>3, <2>4 DEF Next
<1>4. QED
  BY <1>1, <1>2, <1>3, PTL DEF Spec, KeepsRecency, R!Spec
=============================================================================
