---------------------------- MODULE InodeParents ----------------------------
(* inodeParents (inode_parents.go): the parents of an inode, the most      *)
(* recent one apart in newest, the others in a map with the time each was  *)
(* displaced.  The caller holds the inode's mutex, so every operation is   *)
(* one step.  What it depends on is the clock: time.Now() is read on each  *)
(* displacement, and times are all that is left of the order.              *)
EXTENDS Naturals, FiniteSets, Functions

CONSTANTS
  Entry,      \* parentEntry values
  NoEntry,    \* parentEntry{}, whose node is nil
  MinTick,    \* by how much the clock advances at least between two readings
  MaxTime     \* bound: the last reading of the clock

ASSUME EntryAssumption == IsFiniteSet(Entry) /\ NoEntry \notin Entry
ASSUME ClockAssumption == MinTick \in Nat /\ MaxTime \in Nat

VARIABLES
  newest,     \* inodeParents.newest
  other,      \* inodeParents.other
  now,        \* the last reading of the clock
  last        \* history: the call just made

store == <<newest, other, now>>
vars == <<store, last>>

(* all() and count(): no parents at all while newest has none.             *)
All == IF newest = NoEntry THEN {} ELSE {newest} \cup DOMAIN other

(* time.Now(), read after t.                                               *)
Later(t) == t + MinTick .. MaxTime

(* The built-in delete of a map.                                           *)
Without_kept(m, e) == m
Without(m, e) == [x \in DOMAIN m \ {e} |-> m[x]]

-----------------------------------------------------------------------------
(* add(e).  The newest parent is displaced into the others; e may move up  *)
(* from there.                                                             *)
Displace_stays(e, t) == [x \in DOMAIN other \cup {newest} |->
                           IF x = newest THEN t ELSE other[x]]
Displace(e, t) == [x \in (DOMAIN other \cup {newest}) \ {e} |->
                     IF x = newest THEN t ELSE other[x]]

AddFirst(e) ==
  /\ newest = NoEntry
  /\ newest' = e
  /\ UNCHANGED <<other, now>>

AddNewer(e) ==
  /\ newest \notin {NoEntry, e}
  /\ \E t \in Later(now) : now' = t /\ other' = Displace(e, t)
  /\ newest' = e

AddKnown(e) == newest = e /\ UNCHANGED store

-----------------------------------------------------------------------------
(* delete(e).  When the newest goes, the latest of the others takes its    *)
(* place; the loop ranges over a map, so of equal times any may win.       *)
Latest_any(i) == i \in DOMAIN other
Latest(i) == i \in DOMAIN other /\ \A k \in DOMAIN other : other[k] <= other[i]

DeleteOther(e) ==
  /\ newest \notin {NoEntry, e}
  /\ other' = Without(other, e)
  /\ UNCHANGED <<newest, now>>

DeleteLast(e) ==
  /\ newest = e /\ DOMAIN other = {}
  /\ newest' = NoEntry
  /\ UNCHANGED <<other, now>>

DeleteNewest(e) ==
  /\ newest = e
  /\ \E i \in DOMAIN other :
       /\ Latest(i)
       /\ newest' = i
       /\ other' = Without(other, i)
  /\ UNCHANGED now

DeleteNone(e) == newest = NoEntry /\ UNCHANGED store

Clear ==
  /\ newest' = NoEntry
  /\ other' = [x \in {} |-> 0]
  /\ last' = <<"clear">>
  /\ UNCHANGED now

-----------------------------------------------------------------------------
(* Dump, and Restore in another bridge.  sortParents gives newest the time *)
(* t of the dump and sorts by time, equal times in any order: rank is the  *)
(* position of each parent in the slice.  AddInode then adds them in that  *)
(* order to an empty store, displacing the parent at rank k at time r[k].  *)
SortKey(e, t) == IF e = newest THEN t ELSE other[e]

Sorted_unsorted(rank, t) == TRUE
Sorted(rank, t) ==
  \A a, b \in All : rank[a] < rank[b] => SortKey(a, t) <= SortKey(b, t)

DumpRestore ==
  LET n == Cardinality(All)
  IN  /\ newest # NoEntry
      /\ \E t \in Later(now), rank \in Bijection(All, 1..n) :
           /\ Sorted(rank, t)
           /\ \E r \in [1..n - 1 -> Later(t)] :
                /\ \A k, l \in 1..n - 1 : k < l => r[l] \in Later(r[k])
                /\ other' = [e \in {x \in All : rank[x] < n} |-> r[rank[e]]]
                /\ now' \in {t} \cup {r[k] : k \in 1..n - 1}
                /\ \A k \in 1..n - 1 : r[k] <= now'
           /\ \E e \in All : rank[e] = n /\ newest' = e
      /\ last' = <<"copy">>

-----------------------------------------------------------------------------
Init ==
  /\ newest = NoEntry
  /\ other = [x \in {} |-> 0]
  /\ now = 1
  /\ last = <<"none">>

Add(e) ==
  /\ AddFirst(e) \/ AddNewer(e) \/ AddKnown(e)
  /\ last' = <<"add", e>>
Delete(e) ==
  /\ DeleteOther(e) \/ DeleteLast(e) \/ DeleteNewest(e) \/ DeleteNone(e)
  /\ last' = <<"delete", e>>

Next == (\E e \in Entry : Add(e) \/ Delete(e)) \/ Clear \/ DumpRestore
Spec == Init /\ [][Next]_vars

-----------------------------------------------------------------------------
(* Properties.                                                             *)

(* The shape of the store: newest is none of the others, and no others are *)
(* left when there is no newest (inode_parents.go:27-32).                  *)
TypeOK ==
  /\ newest \in Entry \cup {NoEntry}
  /\ DOMAIN other \subseteq Entry \ {newest}
  /\ other \in [DOMAIN other -> Nat]
  /\ newest = NoEntry => DOMAIN other = {}
  /\ now \in Nat

(* Times tell the displaced parents apart, and are past.                   *)
TimesOK ==
  /\ \A a, b \in DOMAIN other : other[a] = other[b] => a = b
  /\ \A a \in DOMAIN other : other[a] <= now

(* Which of two parents was added last, as far as the store can tell.      *)
Older == {p \in All \X All :
  /\ p[1] \in DOMAIN other
  /\ p[2] = newest \/ (p[2] \in DOMAIN other /\ other[p[1]] < other[p[2]])}

R == INSTANCE ParentRecency WITH members <- All, older <- Older

(* newest is "the most-recently add()'ed parent" (inode_parents.go:27), at *)
(* every moment and after any sequence of add, delete, Dump and Restore:   *)
(* the store never loses the order the displaced parents were added in.    *)
(* Needs a clock that never reads the same twice.                          *)
KeepsRecency == R!Spec

(* As a set of parents, the view removeRef takes of it through all()       *)
(* (inode.go:175), the store is exact whatever the clock does.             *)
KeepsMembers == R!SetSpec
=============================================================================
