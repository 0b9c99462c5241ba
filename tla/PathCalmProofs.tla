--------------------------- MODULE PathCalmProofs ---------------------------
(* Proofs about PathWalk: a request that no rename and no removal overlaps *)
(* calls the file system with paths that lead to its inodes, because the   *)
(* tree knows all that the file system has.                                *)
EXTENDS PathWalkProofs

USE TreeAssumption, EnvironmentAssumption

-----------------------------------------------------------------------------
(* What the tree knows, where a step leaves it alone.                      *)

(* A request that has more to do than it has begun is about some inode and *)
(* some entry.                                                             *)
LEMMA FirstParts ==
  ASSUME TableOK, FramesOK, NEW u \in Thread, pc[u] # "idle", NEW f, f = fr[u]
  PROVE  /\ f.objs[1] \in alloc /\ f.objs[1] \in Obj /\ Dir(f) \in alloc /\ Dir(f) \in Obj
         /\ f.op = "Rename" => f.objs[2] \in alloc /\ f.objs[2] \in Obj
         /\ f.op \notin {"Rename", "Link"} => Dir(f) = f.objs[1]
         /\ f.op \in {"Rename", "Link"} => Dir(f) = f.objs[2]
         /\ f.op = "Rename" =>
              f.names[1] \in Name /\ f.names[2] \in Name /\ 1..Len(f.names) = {1, 2}
         /\ f.op \in EntryOps \cup {"Link"} => f.names[1] \in Name /\ 1..Len(f.names) = {1}
         /\ pc[u] \in {"look", "apply"} => f.names[1] \in Name
<1>1. PICK l : l = pc[u] /\ l # "idle"
  OBVIOUS
<1>2. FrameOK(alloc, l, f)
  BY <1>1 DEF FramesOK
<1>3. /\ \A k \in 1..Len(f.objs) : f.objs[k] \in alloc /\ f.objs[k] \in Obj
      /\ \A k \in 1..Len(f.names) : f.names[k] \in Name
      /\ Dir(f) \in alloc /\ Dir(f) \in Obj
      /\ Len(f.objs) = IF f.op \in {"Rename", "Link"} THEN 2 ELSE 1
  <2>1. l # "idle"
    BY <1>1
  <2>2. /\ \A k \in 1..Len(f.objs) : f.objs[k] \in alloc /\ f.objs[k] \in Obj
        /\ \A k \in 1..Len(f.names) : f.names[k] \in Name
        /\ Dir(f) \in alloc /\ Dir(f) \in Obj
    BY <1>2, <2>1, FrameParts
  <2>3. Len(f.objs) = IF f.op \in {"Rename", "Link"} THEN 2 ELSE 1
    BY <1>2, <2>1 DEF FrameOK
  <2>4. QED
    BY <2>2, <2>3
<1>4. /\ f.op = "Rename" => Len(f.names) = 2
      /\ f.op \in EntryOps \cup {"Link"} => Len(f.names) = 1
      /\ l \in {"look", "apply"} /\ f.op # "Rename" => Len(f.names) = 1
  BY <1>2 DEF FrameOK, OpsAt, Adders, Changes, EntryOps
<1>5. 1..2 = {1, 2} /\ 1..1 = {1}
  OBVIOUS
<1>6. f.objs[1] \in alloc /\ f.objs[1] \in Obj
  <2>1. 1 \in 1..Len(f.objs)
    BY <1>3, <1>5
  <2>2. QED
    BY <1>3, <2>1
<1>7. f.op \in {"Rename", "Link"} => f.objs[2] \in alloc /\ f.objs[2] \in Obj /\ Dir(f) = f.objs[2]
  BY <1>3, <1>5 DEF Dir, LastOf
<1>8. f.op \notin {"Rename", "Link"} => Dir(f) = f.objs[1]
  BY <1>3 DEF Dir, LastOf
<1>9. f.op = "Rename" => f.names[1] \in Name /\ f.names[2] \in Name /\ 1..Len(f.names) = {1, 2}
  BY <1>3, <1>4, <1>5
<1>10. Len(f.names) = 1 => f.names[1] \in Name /\ 1..Len(f.names) = {1}
  BY <1>3, <1>5
<1>11. QED
  BY <1>1, <1>3, <1>4, <1>6, <1>7, <1>8, <1>9, <1>10

(* The first directory and name of a request that takes an entry away.     *)
LEMMA ChangeFirst ==
  ASSUME TableOK, FramesOK, NEW u \in Thread, pc[u] # "idle", NEW f, f = fr[u],
         f.op \in Changes
  PROVE  /\ f.objs[1] \in alloc /\ f.objs[1] \in Obj /\ f.names[1] \in Name
         /\ 1 \in 1..Len(f.names)
<1>1. f.objs[1] \in alloc /\ f.objs[1] \in Obj
  BY FirstParts
<1>2. f.op = "Rename" \/ f.op \in EntryOps \cup {"Link"}
  BY DEF Changes, EntryOps
<1>3. CASE f.op = "Rename"
  <2>1. f.names[1] \in Name /\ 1..Len(f.names) = {1, 2}
    BY <1>3, FirstParts
  <2>2. QED
    BY <1>1, <2>1
<1>4. CASE f.op \in EntryOps \cup {"Link"}
  <2>1. f.names[1] \in Name /\ 1..Len(f.names) = {1}
    BY <1>4, FirstParts
  <2>2. QED
    BY <1>1, <2>1
<1>5. QED
  BY <1>2, <1>3, <1>4

(* An entry that a request is about to bring.                              *)
LEMMA BringingKept ==
  ASSUME TableOK, FramesOK, NEW u \in Thread, NEW d, NEW m, Bringing(u, d, m),
         pc'[u] = pc[u] \/ (pc'[u] = "apply" /\ fr[u].op # "Rename"),
         NEW f, NEW g, f = fr[u], g = fr'[u],
         g.op = f.op, g.objs = f.objs, g.names = f.names,
         \A x \in alloc : ino'[x] = ino[x], fs'[d][m] = fs[d][m],
         f.op = "Make" /\ nodes[fs[d][m]] = Nil => nodes'[fs[d][m]] = Nil,
         f.op = "Rename" /\ children[f.objs[1]][f.names[1]] # Nil =>
           children'[f.objs[1]][f.names[1]] = children[f.objs[1]][f.names[1]]
  PROVE  Bringing(u, d, m)'
<1>1. pc[u] \in {"look", "apply"} /\ pc[u] # "idle"
  BY DEF Bringing
<1>2. /\ f.objs[1] \in alloc /\ f.objs[1] \in Obj /\ Dir(f) \in alloc
      /\ f.op = "Rename" => f.objs[2] \in alloc /\ f.names[1] \in Name
  BY <1>1, FirstParts
<1>3. PICK i : i = fs[d][m] /\ fs'[d][m] = i
  OBVIOUS
<1>4. CASE f.op = "Make"
  <2>1. ino[Dir(f)] = d /\ f.names[1] = m /\ nodes[i] = Nil
    BY <1>3, <1>4 DEF Bringing
  <2>2. Dir(g) = Dir(f) /\ ino'[Dir(f)] = d /\ nodes'[i] = Nil
    BY <1>2, <1>3, <1>4, <2>1 DEF Dir
  <2>3. g.op = "Make" /\ pc'[u] \in {"look", "apply"} /\ g.names[1] = m
    BY <1>1, <1>4, <2>1
  <2>4. QED
    BY <1>3, <2>2, <2>3 DEF Bringing
<1>5. CASE f.op = "Link"
  <2>1. ino[Dir(f)] = d /\ f.names[1] = m /\ ino[f.objs[1]] = i
    BY <1>3, <1>5 DEF Bringing
  <2>2. Dir(g) = Dir(f) /\ ino'[Dir(f)] = d /\ ino'[g.objs[1]] = i
    BY <1>2, <2>1 DEF Dir
  <2>3. g.op = "Link" /\ pc'[u] \in {"look", "apply"} /\ g.names[1] = m
    BY <1>1, <1>5, <2>1
  <2>4. QED
    BY <1>3, <2>2, <2>3 DEF Bringing
<1>6. CASE f.op = "Rename"
  <2>1. PICK c : c = children[f.objs[1]][f.names[1]]
    OBVIOUS
  <2>2. pc[u] = "apply" /\ ino[f.objs[2]] = d /\ f.names[2] = m /\ c # Nil /\ ino[c] = i
    BY <1>3, <1>6, <2>1 DEF Bringing
  <2>3. c \in alloc
    <3>1. PICK p, n : p = f.objs[1] /\ n = f.names[1]
      OBVIOUS
    <3>2. p \in Obj /\ n \in Name
      BY <1>2, <1>6, <3>1
    <3>3. children[p][n] \in alloc \cup {Nil}
      BY <3>2, ChildType
    <3>4. QED
      BY <2>1, <2>2, <3>1, <3>3
  <2>4. children'[g.objs[1]][g.names[1]] = c /\ ino'[c] = i /\ ino'[g.objs[2]] = d
    <3>1. children'[f.objs[1]][f.names[1]] = c
      BY <1>6, <2>1, <2>2
    <3>2. ino'[c] = i
      BY <2>2, <2>3
    <3>3. ino'[f.objs[2]] = d
      BY <1>2, <1>6, <2>2
    <3>4. QED
      BY <3>1, <3>2, <3>3
  <2>5. pc'[u] = "apply" /\ g.op = "Rename" /\ g.names[2] = m
    BY <1>6, <2>2
  <2>6. QED
    BY <1>3, <2>2, <2>4, <2>5 DEF Bringing
<1>7. QED
  BY <1>4, <1>5, <1>6 DEF Bringing

LEMMA HasKept ==
  ASSUME TableOK, NEW d, NEW m \in Name, HasEntry(d, m), alloc \subseteq alloc',
         \A x \in alloc : ino'[x] = ino[x], fs'[d][m] = fs[d][m],
         \A p \in alloc : ino[p] = d => children'[p][m] = children[p][m]
  PROVE  HasEntry(d, m)'
<1>1. PICK p \in alloc : ino[p] = d /\ children[p][m] # Nil /\ ino[children[p][m]] = fs[d][m]
  BY DEF HasEntry
<1>2. PICK c : c = children[p][m]
  OBVIOUS
<1>3. c \in alloc /\ p \in Obj
  BY <1>1, <1>2, ChildType DEF TableOK
<1>4. p \in alloc' /\ ino'[p] = d /\ children'[p][m] = c /\ c # Nil /\ ino'[c] = fs'[d][m]
  BY <1>1, <1>2, <1>3
<1>5. QED
  BY <1>4 DEF HasEntry

LEMMA TakingKept ==
  ASSUME TableOK, FramesOK, NEW u \in Thread, Taking(u), pc'[u] = pc[u],
         Kept(fr[u], fr'[u]), NEW f, f = fr[u],
         pc[u] = "apply" /\ f.cino = NoIno =>
           /\ ino'[f.objs[1]] = ino[f.objs[1]]
           /\ NextIn(fs, ino[f.objs[1]], f.names[1]) = NoIno =>
                NextIn(fs', ino[f.objs[1]], f.names[1]) = NoIno,
         f.op \in Changes => \A k \in 1..Len(f.names) :
           children'[f.objs[k]][f.names[k]] = children[f.objs[k]][f.names[k]]
  PROVE  Taking(u)'
<1>1. PICK g : g = fr'[u]
  OBVIOUS
<1>2. /\ g.op = f.op /\ g.objs = f.objs /\ g.names = f.names /\ g.cino = f.cino
      /\ g.locks = f.locks
  BY <1>1 DEF Kept, Same
<1>3. ASSUME pc'[u] = "apply", g.cino = NoIno
      PROVE  /\ g.op \in {"Lookup", "Revalidate"} \cup Changes
             /\ NextIn(fs', ino'[g.objs[1]], g.names[1]) = NoIno
             /\ g.op = "Rename" => children'[g.objs[1]][g.names[1]] # Nil
  <2>1. pc[u] = "apply" /\ f.cino = NoIno
    BY <1>2, <1>3
  <2>2. /\ f.op \in {"Lookup", "Revalidate"} \cup Changes
        /\ NextIn(fs, ino[f.objs[1]], f.names[1]) = NoIno
        /\ f.op = "Rename" => children[f.objs[1]][f.names[1]] # Nil
    BY <2>1 DEF Taking
  <2>3. f.op = "Rename" => f.op \in Changes /\ 1 \in 1..Len(f.names)
    BY <2>1, FirstParts DEF Changes
  <2>4. f.op = "Rename" =>
          children'[f.objs[1]][f.names[1]] = children[f.objs[1]][f.names[1]]
    BY <2>3
  <2>5. QED
    BY <1>2, <2>1, <2>2, <2>4
<1>4. ASSUME g.op \in Changes, NEW k \in 1..Len(g.names)
      PROVE  children'[g.objs[k]][g.names[k]] \in g.locks \cup {Nil}
  <2>1. k \in 1..Len(f.names) /\ f.op \in Changes
    BY <1>2, <1>4
  <2>2. children[f.objs[k]][f.names[k]] \in f.locks \cup {Nil}
    BY <2>1 DEF Taking
  <2>3. children'[f.objs[k]][f.names[k]] = children[f.objs[k]][f.names[k]]
    BY <2>1
  <2>4. QED
    BY <1>2, <2>2, <2>3
<1>5. g.op = "Link" => g.objs[1] \in g.locks
  BY <1>2 DEF Taking
<1>6. QED
  BY <1>1, <1>3, <1>4, <1>5 DEF Taking

LEMMA NextType ==
  ASSUME TableOK, NEW d, NEW m PROVE NextIn(fs, d, m) \in Ino \cup {NoIno}
BY DEF TableOK, NextIn

(* A step that leaves the tree and the file system as they are, and what   *)
(* the other requests have.                                                *)
LEMMA KnowsQuiet ==
  ASSUME TableOK, FramesOK, TreeKnows, UNCHANGED <<treeVars, fs>>, NEW t \in Thread,
         \A u \in Thread \ {t} : pc'[u] = pc[u] /\ Kept(fr[u], fr'[u]),
         \A d \in DirIno, m \in Name :
           fs[d][m] # NoIno /\ Bringing(t, d, m) => Bringing(t, d, m)',
         Taking(t)'
  PROVE  TreeKnows'
<1>1. /\ alloc' = alloc /\ ino' = ino /\ children' = children /\ nodes' = nodes
      /\ parents' = parents /\ fs' = fs
  BY DEF treeVars
<1>2. DirsKnown' /\ ParentsKnown'
  BY <1>1 DEF TreeKnows, DirsKnown, ParentsKnown, IsLinked, IsEmpty
<1>3. ASSUME NEW u \in Thread, NEW d \in DirIno, NEW m \in Name, fs[d][m] # NoIno,
             Bringing(u, d, m)
      PROVE  Bringing(u, d, m)'
  <2>1. CASE u = t
    BY <1>3, <2>1
  <2>2. CASE u # t
    <3>1. PICK f, g : f = fr[u] /\ g = fr'[u]
      OBVIOUS
    <3>2. pc'[u] = pc[u] /\ g.op = f.op /\ g.objs = f.objs /\ g.names = f.names
      BY <2>2, <3>1 DEF Kept, Same
    <3>3. QED
      BY <1>1, <1>3, <3>1, <3>2, BringingKept
  <2>3. QED
    BY <2>1, <2>2
<1>4. EntriesKnown'
  <2> SUFFICES ASSUME NEW d \in DirIno, NEW m \in Name, fs'[d][m] # NoIno
               PROVE  /\ HasEntry(d, m)' \/ \E u \in Thread : Bringing(u, d, m)'
                      /\ nodes'[fs'[d][m]] = Nil =>
                           \A e \in DirIno, n \in Name :
                             fs'[e][n] = fs'[d][m] => e = d /\ n = m
    BY DEF EntriesKnown
  <2>1. /\ HasEntry(d, m) \/ \E u \in Thread : Bringing(u, d, m)
        /\ nodes[fs[d][m]] = Nil =>
             \A e \in DirIno, n \in Name : fs[e][n] = fs[d][m] => e = d /\ n = m
    BY <1>1 DEF TreeKnows, EntriesKnown
  <2>2. HasEntry(d, m) => HasEntry(d, m)'
    BY <1>1 DEF HasEntry
  <2>3. QED
    BY <1>1, <1>3, <2>1, <2>2
<1>5. ASSUME NEW u \in Thread PROVE Taking(u)'
  <2>1. CASE u = t
    BY <2>1
  <2>2. CASE u # t
    BY <1>1, <2>2, TakingKept DEF TreeKnows
  <2>3. QED
    BY <2>1, <2>2
<1>6. QED
  BY <1>2, <1>4, <1>5 DEF TreeKnows

(* GetAttr answers what the entry of the directory is, if the tree misses  *)
(* nothing by it; for ReadDirPlus it may fail all the same.                *)
LEMMA LookSees ==
  ASSUME TableOK, FramesOK, NEW t \in Thread, Look(t), blame' = {}, missed' = {},
         NEW f, f = fr[t], NEW i, i = NextIn(fs, ino[Dir(f)], f.names[1])
  PROVE  \/ /\ Go(t, "apply", [f EXCEPT !.cino = i])
            /\ i # NoIno \/ f.op \in {"Lookup", "Revalidate"}
         \/ /\ i = NoIno \/ f.op = "ReadPlus"
            /\ \E g \in Nexts(f) : Go(t, After(g), g)
<1>1. pc[t] = "look" /\ FrameOK(alloc, "look", f)
  BY DEF Look, FramesOK
<1>2. PICK p, m : p = LastOf(f.paths) /\ m = f.names[1]
  OBVIOUS
<1>3. /\ f.paths \in Seq(Seq(Segment)) /\ Len(f.paths) = Len(f.objs) /\ Len(f.objs) \in {1, 2}
  BY <1>1 DEF FrameOK, OpsAt, Adders, EntryOps
<1>4. m \in Name /\ m \in Segment
  <2>1. f.names[1] \in Name
    BY <1>1, FirstParts
  <2>2. QED
    BY <1>2, <2>1 DEF Segment
<1>5. PICK n : n = Len(f.paths)
  OBVIOUS
<1>6. n \in {1, 2} /\ n \in 1..n
  <2>1. n \in {1, 2}
    BY <1>3, <1>5
  <2>2. QED
    BY <2>1
<1>7. p \in Seq(Segment) /\ p = f.paths[n] /\ Dir(f) = f.objs[n] /\ n \in 1..Len(f.paths)
  BY <1>2, <1>3, <1>5, <1>6 DEF LastOf, Dir
<1>8. Led(f)
  BY DEF Look, Blame
<1>9. PICK j \in {Resolve(Append(p, m)), NoIno} :
        /\ IF j # NoIno \/ f.op \in {"Lookup", "Revalidate"}
           THEN Go(t, "apply", [f EXCEPT !.cino = j])
           ELSE \E g \in Nexts(f) : Go(t, IF g.op = "none" THEN "idle" ELSE "look", g)
        /\ missed' = IF Misses(f, j) THEN missed \cup {"lookup"} ELSE missed
  BY <1>2 DEF Look, Answers
<1>10. j # NoIno => j = i
  <2> SUFFICES ASSUME j # NoIno PROVE j = i
    OBVIOUS
  <2>1. j = NextIn(fs, Resolve(p), m)
    BY <1>4, <1>7, <1>9, ResolveStep
  <2>2. Resolve(p) \in DirIno
    BY <2>1 DEF NextIn
  <2>3. Resolve(f.paths[n]) = ino[f.objs[n]]
    BY <1>7, <1>8, <2>2, LedDir
  <2>4. QED
    BY <1>2, <1>7, <2>1, <2>3
<1>11. j = NoIno => i = NoIno \/ f.op = "ReadPlus"
  BY <1>9 DEF Misses
<1>12. CASE j # NoIno \/ f.op \in {"Lookup", "Revalidate"}
  <2>1. j = i
    BY <1>10, <1>11, <1>12
  <2>2. QED
    BY <1>9, <1>12, <2>1
<1>13. CASE ~(j # NoIno \/ f.op \in {"Lookup", "Revalidate"})
  BY <1>9, <1>11, <1>13 DEF After
<1>14. QED
  BY <1>12, <1>13

LEMMA LookKnows ==
  ASSUME TableOK, FramesOK, TreeKnows, NEW t \in Thread, Look(t), blame' = {}, missed' = {}
  PROVE  TreeKnows'
<1>1. PICK f, i : f = fr[t] /\ i = NextIn(fs, ino[Dir(f)], f.names[1])
  OBVIOUS
<1>2. pc[t] = "look" /\ FrameOK(alloc, "look", f)
  BY <1>1 DEF Look, FramesOK
<1>3. f.op \in Adders /\ f.op \notin Changes /\ f.op # "Rename" /\ f.names[1] \in Name
  BY <1>1, <1>2, FirstParts DEF FrameOK, OpsAt, Adders, Changes, EntryOps
<1>4. PICK g : g = fr'[t]
  OBVIOUS
<1>5. \/ /\ g = [f EXCEPT !.cino = i] /\ pc'[t] = "apply"
         /\ i # NoIno \/ f.op \in {"Lookup", "Revalidate"}
      \/ /\ i = NoIno \/ f.op = "ReadPlus"
         /\ pc'[t] \in {"idle", "look"}
         /\ g = IdleFrame \/ (g.op = "ReadPlus" /\ f.op = "ReadPlus")
  <2>1. pc \in [Thread -> Label] /\ DOMAIN fr = Thread
    BY DEF FramesOK
  <2>2. CASE Go(t, "apply", [f EXCEPT !.cino = i])
             /\ (i # NoIno \/ f.op \in {"Lookup", "Revalidate"})
    BY <1>4, <2>1, <2>2 DEF Go
  <2>3. CASE (i = NoIno \/ f.op = "ReadPlus") /\ \E h \in Nexts(f) : Go(t, After(h), h)
    <3>1. PICK h \in Nexts(f) : Go(t, After(h), h)
      BY <2>3
    <3>2. g = h /\ pc'[t] = After(h)
      BY <1>4, <2>1, <3>1 DEF Go
    <3>3. After(h) \in {"idle", "look"} /\ (h = IdleFrame \/ (Same(f, h) /\ h.op = "ReadPlus"))
      BY <1>2, NextFits
    <3>4. QED
      BY <2>3, <3>2, <3>3 DEF Same
  <2>4. QED
    BY <1>1, <2>2, <2>3, LookSees
<1>6. UNCHANGED <<treeVars, fs>> /\ \A u \in Thread \ {t} : pc'[u] = pc[u] /\ Kept(fr[u], fr'[u])
  <2>1. UNCHANGED <<treeVars, fs>> /\ \E l, h : Go(t, l, h)
    BY DEF Look
  <2>2. \A u \in Thread \ {t} : pc'[u] = pc[u] /\ fr'[u] = fr[u]
    BY <2>1 DEF Go, FramesOK
  <2>3. QED
    BY <2>1, <2>2 DEF Kept, Same
<1>7. ASSUME NEW d \in DirIno, NEW m \in Name, fs[d][m] # NoIno, Bringing(t, d, m)
      PROVE  Bringing(t, d, m)'
  <2>1. f.op \in {"Make", "Link"} /\ ino[Dir(f)] = d /\ f.names[1] = m
    BY <1>1, <1>3, <1>7 DEF Bringing
  <2>2. i # NoIno
    BY <1>1, <1>7, <2>1 DEF NextIn
  <2>3. g = [f EXCEPT !.cino = i] /\ pc'[t] = "apply"
    BY <1>5, <2>1, <2>2
  <2>4. g.op = f.op /\ g.objs = f.objs /\ g.names = f.names
    BY <2>3
  <2>5. ino' = ino /\ fs' = fs /\ nodes' = nodes
    BY <1>6 DEF treeVars
  <2>6. /\ f = fr[t] /\ g = fr'[t] /\ fr[t].op # "Rename"
        /\ Bringing(t, d, m) /\ f.op # "Rename"
    BY <1>1, <1>3, <1>4, <1>7
  <2>7. \A x \in alloc : ino'[x] = ino[x]
    BY <2>5
  <2>8. fs'[d][m] = fs[d][m]
    BY <2>5
  <2>9. f.op = "Make" /\ nodes[fs[d][m]] = Nil => nodes'[fs[d][m]] = Nil
    BY <2>5
  <2>10. pc'[t] = pc[t] \/ (pc'[t] = "apply" /\ fr[t].op # "Rename")
    BY <2>3, <2>6
  <2>11. f.op = "Rename" /\ children[f.objs[1]][f.names[1]] # Nil =>
           children'[f.objs[1]][f.names[1]] = children[f.objs[1]][f.names[1]]
    BY <2>6
  <2>12. TableOK /\ FramesOK /\ Bringing(t, d, m) /\ f = fr[t] /\ g = fr'[t]
    BY <2>6
  <2>13. QED
    BY <2>4, <2>7, <2>8, <2>9, <2>10, <2>11, <2>12, BringingKept
<1>8. Taking(t)'
  <2>1. ino' = ino /\ fs' = fs
    BY <1>6 DEF treeVars
  <2>2. g.op \notin Changes
    <3>1. IdleFrame.op = "none"
      BY DEF IdleFrame
    <3>2. ASSUME g = [f EXCEPT !.cino = i] PROVE g.op = f.op
      BY <3>2
    <3>3. QED
      BY <1>3, <1>5, <3>1, <3>2 DEF Changes
  <2>3. ASSUME pc'[t] = "apply", g.cino = NoIno
        PROVE  /\ g.op \in {"Lookup", "Revalidate"}
               /\ NextIn(fs, ino[g.objs[1]], g.names[1]) = NoIno
               /\ g.op # "Rename"
    <3>1. g = [f EXCEPT !.cino = i] /\ (i # NoIno \/ f.op \in {"Lookup", "Revalidate"})
      BY <1>5, <2>3
    <3>2. i \in Ino \cup {NoIno}
      BY <1>1, NextType
    <3>3. g.op = f.op /\ g.objs = f.objs /\ g.names = f.names /\ g.cino = i
      BY <1>2, <3>1, <3>2, LookedFits DEF Same
    <3>4. i = NoIno /\ f.op \in {"Lookup", "Revalidate"}
      BY <2>3, <3>1, <3>3
    <3>5. Dir(f) = f.objs[1]
      BY <1>1, <1>2, <3>4, FirstParts
    <3>6. QED
      BY <1>1, <3>3, <3>4, <3>5
  <2>4. g.op = "Link" => g.objs[1] \in g.locks
    <3>1. IdleFrame.op = "none"
      BY DEF IdleFrame
    <3>2. ASSUME g = [f EXCEPT !.cino = i]
          PROVE  g.op = f.op /\ g.objs = f.objs /\ g.locks = f.locks
      BY <3>2
    <3>3. f.op = "Link" => f.objs[1] \in f.locks
      BY <1>1 DEF TreeKnows, Taking
    <3>4. QED
      BY <1>5, <3>1, <3>2, <3>3
  <2>5. QED
    BY <1>4, <2>1, <2>2, <2>3, <2>4 DEF Taking
<1>9. QED
  BY <1>6, <1>7, <1>8, KnowsQuiet

(* An entry is made in a directory that nobody else is looking into or     *)
(* changing.                                                               *)
LEMMA ApartMaker ==
  ASSUME FramesOK, blame = {}, NEW t \in Thread, NEW u \in Thread, t # u,
         fr[t].op \in {"Make", "Link"}, fr[u].op \in Adders
  PROVE  Dir(fr[u]) # Dir(fr[t])
<1>1. PICK f, g : f = fr[t] /\ g = fr[u]
  OBVIOUS
<1>2. Compatible(f, g) /\ ~Race(g, f)
  BY <1>1 DEF FramesOK
<1>3. Dir(f) \in f.locks
  BY <1>1 DEF FramesOK, FrameOK
<1>4. CASE g.op \in {"Lookup", "ReadPlus"}
  <2>1. Dir(g) \in Shared(g)
    BY <1>4 DEF Shared
  <2>2. QED
    BY <1>1, <1>2, <1>3, <2>1 DEF Compatible
<1>5. CASE g.op = "Revalidate"
  BY <1>1, <1>2, <1>3, <1>5 DEF Race
<1>6. CASE g.op \in {"Make", "Link"}
  <2>1. Dir(g) \in g.locks
    BY <1>1, <1>6 DEF FramesOK, FrameOK
  <2>2. QED
    BY <1>1, <1>2, <1>3, <2>1 DEF Compatible
<1>7. QED
  BY <1>1, <1>4, <1>5, <1>6 DEF Adders

(* A call that changes the file system leaves the tree and the frames.     *)
LEMMA CallKeeps ==
  ASSUME FramesOK, NEW t \in Thread, NEW l \in Label, Go(t, l, fr[t])
  PROVE  /\ pc'[t] = l /\ \A u \in Thread : fr'[u] = fr[u]
         /\ \A u \in Thread \ {t} : pc'[u] = pc[u]
BY DEF Go, FramesOK

LEMMA PutKnows ==
  ASSUME TableOK, FramesOK, TreeKnows, NEW t \in Thread, pc[t] = "call",
         NEW i \in Ino, FsPut(t, i), blame' = {}, NEW f, f = fr[t],
         \/ f.op = "Make" /\ ~IsLinked(i) /\ nodes[i] = Nil
         \/ f.op = "Link" /\ IsLinked(i) /\ ino[f.objs[1]] = i
  PROVE  TreeKnows'
<1>1. FrameOK(alloc, "call", f)
  BY DEF FramesOK
<1>2. PICK d, m, q : d = Resolve(q) /\ m = f.names[1] /\ q = LastOf(f.paths)
  OBVIOUS
<1>3. /\ d \in DirIno /\ fs[d][m] = NoIno /\ fs' = [fs EXCEPT ![d][m] = i]
      /\ Go(t, "look", f) /\ UNCHANGED treeVars /\ Led(f) /\ blame = {}
  BY <1>2 DEF FsPut, Blame
<1>4. m \in Name /\ 1 \in 1..Len(f.names) /\ f.op \notin Changes
  <2>1. f.op \in EntryOps \cup {"Link"} /\ f.op \notin Changes
    BY DEF EntryOps, Changes
  <2>2. f.names[1] \in Name /\ 1..Len(f.names) = {1}
    BY <2>1, FirstParts
  <2>3. QED
    BY <1>2, <2>1, <2>2
<1>5. d = ino[Dir(f)] /\ IsLinked(d)
  <2>1. /\ f.paths \in Seq(Seq(Segment)) /\ Len(f.paths) = Len(f.objs) /\ Len(f.objs) \in {1, 2}
    BY <1>1 DEF FrameOK
  <2>2. PICK n : n = Len(f.paths)
    OBVIOUS
  <2>3. n \in {1, 2} /\ n \in 1..n
    <3>1. n \in {1, 2}
      BY <2>1, <2>2
    <3>2. QED
      BY <3>1
  <2>4. q \in Seq(Segment) /\ q = f.paths[n] /\ Dir(f) = f.objs[n]
    <3>1. q = f.paths[n] /\ Dir(f) = f.objs[n]
      BY <1>2, <2>1, <2>2 DEF LastOf, Dir
    <3>2. f.paths[n] \in Seq(Segment)
      BY <2>1, <2>2, <2>3
    <3>3. QED
      BY <3>1, <3>2
  <2>5. d = ino[Dir(f)]
    <3>1. n \in 1..Len(f.paths) /\ Resolve(f.paths[n]) = d
      BY <1>2, <2>2, <2>3, <2>4
    <3>2. Resolve(f.paths[n]) = ino[f.objs[n]]
      <4>1. Led(f) /\ n \in 1..Len(f.paths)
        BY <1>3, <3>1
      <4>2. Resolve(f.paths[n]) \in DirIno
        BY <1>3, <3>1
      <4>3. QED
        BY <4>1, <4>2, LedDir
    <3>3. QED
      BY <2>4, <3>1, <3>2
  <2>6. d # NoIno
    BY <1>3, Numbers
  <2>7. QED
    BY <1>2, <2>4, <2>5, <2>6, ResolveLinked
<1>6. /\ fs'[d][m] = i
      /\ \A x \in DirIno, y \in Name : ~(x = d /\ y = m) => fs'[x][y] = fs[x][y]
  <2>1. fs \in [DirIno -> [Name -> Ino \cup {NoIno}]]
    BY DEF TableOK
  <2>2. QED
    BY <1>3, <1>4, <2>1, PutEntry
<1>7. /\ alloc' = alloc /\ ino' = ino /\ children' = children /\ nodes' = nodes
      /\ parents' = parents
  BY <1>3 DEF treeVars
<1>8. /\ pc'[t] = "look" /\ \A u \in Thread : fr'[u] = fr[u]
      /\ \A u \in Thread \ {t} : pc'[u] = pc[u]
  BY <1>3, CallKeeps DEF Label
<1>9. \A x \in DirIno, y \in Name : fs[x][y] # NoIno => fs'[x][y] = fs[x][y] /\ ~(x = d /\ y = m)
  BY <1>3, <1>6
<1>10. f.op = "Link" => nodes[i] # Nil
  <2>1. PICK a : a = f.objs[1]
    OBVIOUS
  <2>2. a \in alloc /\ a \in Obj
    BY <2>1, FirstParts
  <2>3. nodes[ino[a]] = a /\ a # Nil
    BY <2>2, Numbers DEF TableOK
  <2>4. f.op = "Link" => ino[a] = i
    BY <2>1
  <2>5. QED
    BY <2>3, <2>4
<1>11. ASSUME NEW x, IsLinked(x)' PROVE IsLinked(x) \/ x = i
  <2>1. CASE x = RootIno
    BY <2>1 DEF IsLinked
  <2>2. CASE \E e \in DirIno, n \in Name : fs'[e][n] = x
    <3>1. PICK e \in DirIno, n \in Name : fs'[e][n] = x
      BY <2>2
    <3>2. CASE e = d /\ n = m
      BY <1>6, <3>1, <3>2
    <3>3. CASE ~(e = d /\ n = m)
      <4>1. fs[e][n] = x
        BY <1>6, <3>1, <3>3
      <4>2. QED
        BY <4>1 DEF IsLinked
    <3>4. QED
      BY <3>2, <3>3
  <2>3. QED
    BY <1>11, <2>1, <2>2 DEF IsLinked
<1>12. ASSUME NEW x \in DirIno PROVE IsLinked(x)' \/ IsEmpty(x)'
  <2>1. CASE IsLinked(x)
    BY <1>9, <2>1, Numbers DEF IsLinked
  <2>2. CASE ~IsLinked(x)
    <3>1. IsEmpty(x) /\ x # d
      BY <1>5, <2>2 DEF TreeKnows, DirsKnown
    <3>2. QED
      BY <1>6, <3>1 DEF IsEmpty
  <2>3. QED
    BY <2>1, <2>2
<1>13. DirsKnown'
  BY <1>7, <1>12 DEF TreeKnows, DirsKnown
<1>14. EntriesKnown'
  <2> SUFFICES ASSUME NEW x \in DirIno, NEW y \in Name, fs'[x][y] # NoIno
               PROVE  /\ HasEntry(x, y)' \/ \E u \in Thread : Bringing(u, x, y)'
                      /\ nodes'[fs'[x][y]] = Nil =>
                           \A e \in DirIno, n \in Name :
                             fs'[e][n] = fs'[x][y] => e = x /\ n = y
    BY DEF EntriesKnown
  <2>1. CASE x = d /\ y = m
    <3>1. Bringing(t, d, m)'
      <4>1. PICK g : g = fr'[t]
        OBVIOUS
      <4>2. g = f /\ pc'[t] = "look" /\ ino'[Dir(f)] = d /\ fs'[d][m] = i
        BY <1>5, <1>6, <1>7, <1>8, <4>1
      <4>3. f.op = "Make" => nodes'[i] = Nil
        BY <1>7
      <4>4. f.op = "Link" => ino'[f.objs[1]] = i
        BY <1>7
      <4>5. QED
        BY <1>2, <4>1, <4>2, <4>3, <4>4 DEF Bringing
    <3>2. ASSUME nodes[i] = Nil, NEW e \in DirIno, NEW n \in Name, fs'[e][n] = i
          PROVE  e = d /\ n = m
      <4>1. ~IsLinked(i)
        BY <1>10, <3>2
      <4>2. QED
        BY <1>6, <3>2, <4>1 DEF IsLinked
    <3>3. QED
      BY <1>6, <1>7, <2>1, <3>1, <3>2
  <2>2. CASE ~(x = d /\ y = m)
    <3>1. fs'[x][y] = fs[x][y] /\ fs[x][y] # NoIno
      BY <1>6, <2>2
    <3>2. /\ HasEntry(x, y) \/ \E u \in Thread : Bringing(u, x, y)
          /\ nodes[fs[x][y]] = Nil =>
               \A e \in DirIno, n \in Name : fs[e][n] = fs[x][y] => e = x /\ n = y
      BY <3>1 DEF TreeKnows, EntriesKnown
    <3>3. HasEntry(x, y) => HasEntry(x, y)'
      BY <1>7, <3>1 DEF HasEntry
    <3>4. ASSUME NEW u \in Thread, Bringing(u, x, y) PROVE Bringing(u, x, y)'
      <4>1. u # t
        BY <3>4 DEF Bringing
      <4>2. QED
        BY <1>7, <1>8, <3>1, <3>4, <4>1, BringingKept
    <3>5. ASSUME nodes[fs[x][y]] = Nil, NEW e \in DirIno, NEW n \in Name,
                 fs'[e][n] = fs[x][y]
          PROVE  e = x /\ n = y
      <4>1. fs[x][y] # i
        BY <1>10, <3>5 DEF IsLinked
      <4>2. fs[e][n] = fs[x][y]
        BY <1>6, <3>5, <4>1
      <4>3. QED
        BY <3>2, <3>5, <4>2
    <3>6. QED
      BY <1>7, <3>1, <3>2, <3>3, <3>4, <3>5
  <2>3. QED
    BY <2>1, <2>2
<1>15. ParentsKnown'
  <2> SUFFICES ASSUME NEW o \in alloc \ {RootObj}, IsLinked(ino[o])' PROVE parents[o] # NoParents
    BY <1>7 DEF ParentsKnown
  <2>1. IsLinked(ino[o])
    <3>1. PICK x : x = ino[o]
      OBVIOUS
    <3>2. nodes[x] = o /\ o # Nil
      BY <3>1, Numbers DEF TableOK
    <3>3. IsLinked(x)'
      BY <1>7, <3>1
    <3>4. IsLinked(x) \/ x = i
      BY <1>11, <3>3
    <3>5. QED
      BY <3>1, <3>2, <3>4
  <2>2. QED
    BY <2>1 DEF TreeKnows, ParentsKnown
<1>16. ASSUME NEW u \in Thread PROVE Taking(u)'
  <2>1. CASE u = t
    <3>1. f.op = "Link" => f.objs[1] \in f.locks
      BY DEF TreeKnows, Taking
    <3>2. QED
      BY <1>4, <1>8, <2>1, <3>1 DEF Taking
  <2>2. CASE u # t
    <3>1. PICK g : g = fr[u]
      OBVIOUS
    <3>2. ASSUME pc[u] = "apply", g.cino = NoIno,
                 NextIn(fs, ino[g.objs[1]], g.names[1]) = NoIno
          PROVE  NextIn(fs', ino[g.objs[1]], g.names[1]) = NoIno
      <4>1. g.op \in {"Lookup", "Revalidate"} \cup Changes
        BY <3>1, <3>2 DEF TreeKnows, Taking
      <4>2. g.objs[1] \in alloc /\ (g.op \notin Changes => Dir(g) = g.objs[1])
        BY <3>1, <3>2, <4>1, FirstParts DEF Changes
      <4>3. g.objs[1] # Dir(f)
        <5>1. CASE g.op \in {"Lookup", "Revalidate"}
          <6>1. fr[u].op \in Adders /\ fr[t].op \in {"Make", "Link"}
            BY <3>1, <5>1 DEF Adders
          <6>2. g.op \notin Changes
            BY <5>1 DEF Changes
          <6>3. QED
            BY <1>3, <2>2, <3>1, <4>2, <6>1, <6>2, ApartMaker
        <5>2. CASE g.op \in Changes
          <6>1. fr[t].op \in Adders /\ fr[u].op \in Changes
            BY <3>1, <5>2 DEF Adders
          <6>2. 1 \in 1..Len(fr[u].names)
            <7>1. pc[u] # "idle" /\ g = fr[u] /\ g.op \in Changes
              BY <3>1, <3>2, <5>2
            <7>2. 1 \in 1..Len(g.names)
              BY <7>1, ChangeFirst
            <7>3. QED
              BY <7>1, <7>2
          <6>3. \E k \in 1..Len(fr[u].names) : k = 1
            BY <6>2
          <6>4. fr[u].objs[1] # Dir(fr[t])
            <7>1. PICK k \in 1..Len(fr[u].names) : k = 1
              BY <6>3
            <7>2. blame = {} /\ u # t
              BY <1>3, <2>2
            <7>3. fr[u].objs[k] # Dir(fr[t])
              BY <6>1, <7>2, ApartAdder
            <7>4. QED
              BY <7>1, <7>3
          <6>5. QED
            BY <3>1, <6>4
        <5>3. QED
          BY <4>1, <5>1, <5>2
      <4>4. ino[g.objs[1]] # d
        <5>1. Dir(f) \in alloc
          BY FirstParts
        <5>2. QED
          BY <1>5, <4>2, <4>3, <5>1, Injective
      <4>5. QED
        BY <1>6, <3>2, <4>4 DEF NextIn
    <3>3. QED
      BY <1>7, <1>8, <2>2, <3>1, <3>2, TakingKept DEF TreeKnows, Kept, Same
  <2>3. QED
    BY <2>1, <2>2
<1>17. QED
  BY <1>13, <1>14, <1>15, <1>16 DEF TreeKnows

(* What the entry of a directory is that the kernel has locked to change   *)
(* it, the tree knows: nobody else is bringing it.                         *)
LEMMA OwnEntry ==
  ASSUME TableOK, FramesOK, EntriesKnown, blame = {}, NEW t \in Thread, pc[t] = "call",
         fr[t].op \in Changes, NEW p \in alloc, NEW m \in Name,
         \E k \in 1..Len(fr[t].names) : fr[t].objs[k] = p,
         ino[p] \in DirIno, fs[ino[p]][m] # NoIno
  PROVE  children[p][m] # Nil /\ ino[children[p][m]] = fs[ino[p]][m]
<1>0. PICK k \in 1..Len(fr[t].names) : fr[t].objs[k] = p
  OBVIOUS
<1>01. PICK d : d = ino[p]
  OBVIOUS
<1>1. CASE HasEntry(d, m)
  <2>1. PICK x \in alloc : ino[x] = d /\ children[x][m] # Nil /\ ino[children[x][m]] = fs[d][m]
    BY <1>1 DEF HasEntry
  <2>2. x = p
    BY <1>01, <2>1, Injective
  <2>3. QED
    BY <1>01, <2>1, <2>2
<1>2. ASSUME NEW u \in Thread, Bringing(u, d, m) PROVE FALSE
  <2>1. PICK g : g = fr[u]
    OBVIOUS
  <2>2. u # t /\ pc[u] # "idle"
    BY <1>2 DEF Bringing
  <2>3. Dir(g) \in alloc /\ (g.op = "Rename" => g.objs[2] \in alloc /\ 1..Len(g.names) = {1, 2})
    BY <2>1, <2>2, FirstParts
  <2>4. CASE g.op \in {"Make", "Link"}
    <3>1. ino[Dir(g)] = d
      BY <1>2, <2>1, <2>4 DEF Bringing
    <3>2. Dir(g) = p
      BY <1>01, <2>3, <3>1, Injective
    <3>3. fr[u].op \in Adders
      BY <2>1, <2>4 DEF Adders
    <3>4. fr[t].objs[k] # Dir(fr[u])
      BY <2>2, <3>3, ApartAdder
    <3>5. QED
      BY <1>0, <2>1, <3>2, <3>4
  <2>5. CASE g.op = "Rename"
    <3>1. ino[g.objs[2]] = d
      BY <1>2, <2>1, <2>5 DEF Bringing
    <3>2. g.objs[2] = p
      BY <1>01, <2>3, <2>5, <3>1, Injective
    <3>3. fr[u].op \in Changes /\ 2 \in 1..Len(fr[u].names)
      BY <2>1, <2>3, <2>5 DEF Changes
    <3>4. \E j \in 1..Len(fr[u].names) : j = 2
      BY <3>3
    <3>5. fr[t].objs[k] # fr[u].objs[2]
      BY <2>2, <3>3, <3>4, ApartChange
    <3>6. QED
      BY <1>0, <2>1, <3>2, <3>5
  <2>6. QED
    BY <1>2, <2>1, <2>4, <2>5 DEF Bringing
<1>3. QED
  BY <1>01, <1>1, <1>2 DEF EntriesKnown

(* A removal or a rename in the file system: what others are about to take *)
(* away stays away.                                                        *)
LEMMA ChangeTaking ==
  ASSUME TableOK, FramesOK, TreeKnows, blame = {}, UNCHANGED treeVars,
         NEW t \in Thread, pc[t] = "call", NEW f, f = fr[t], f.op \in Changes, Go(t, "apply", f),
         \A x \in DirIno, y \in Name :
           fs[x][y] = NoIno /\ fs'[x][y] # NoIno => x = ino[Dir(f)],
         NextIn(fs', ino[f.objs[1]], f.names[1]) = NoIno,
         f.op = "Rename" => children[f.objs[1]][f.names[1]] # Nil,
         NEW u \in Thread
  PROVE  Taking(u)'
<1>1. /\ pc'[t] = "apply" /\ fr'[u] = fr[u] /\ (u # t => pc'[u] = pc[u])
  BY CallKeeps DEF Label
<1>2. /\ alloc' = alloc /\ ino' = ino /\ children' = children
  BY DEF treeVars
<1>3. CASE u = t
  <2>1. f.op \in Changes => \A k \in 1..Len(f.names) :
          children[f.objs[k]][f.names[k]] \in f.locks \cup {Nil}
    BY DEF TreeKnows, Taking
  <2>2. f.op # "Link"
    BY DEF Changes
  <2>3. QED
    BY <1>1, <1>2, <1>3, <2>1, <2>2 DEF Taking
<1>4. CASE u # t
  <2>1. PICK g : g = fr[u]
    OBVIOUS
  <2>2. ASSUME pc[u] = "apply", g.cino = NoIno,
               NextIn(fs, ino[g.objs[1]], g.names[1]) = NoIno
        PROVE  NextIn(fs', ino[g.objs[1]], g.names[1]) = NoIno
    <3>1. g.op \in {"Lookup", "Revalidate"} \cup Changes
      BY <2>1, <2>2 DEF TreeKnows, Taking
    <3>2. /\ g.objs[1] \in alloc /\ (g.op \notin Changes => Dir(g) = g.objs[1])
          /\ g.op \in Changes => 1 \in 1..Len(g.names)
      <4>1. pc[u] # "idle"
        BY <2>2
      <4>2. /\ g.objs[1] \in alloc
            /\ g.op \notin {"Rename", "Link"} => Dir(g) = g.objs[1]
        BY <2>1, <4>1, FirstParts
      <4>3. g.op \in Changes => 1 \in 1..Len(g.names)
        BY <2>1, <4>1, ChangeFirst
      <4>4. g.op \notin Changes => g.op \notin {"Rename", "Link"}
        BY <3>1 DEF Changes
      <4>5. QED
        BY <4>2, <4>3, <4>4
    <3>3. PICK k \in 1..Len(f.names) : f.objs[k] = Dir(f)
      <4>1. f.op \in {"Remove", "Rename"}
        BY DEF Changes
      <4>2. /\ f.op \notin {"Rename", "Link"} => Dir(f) = f.objs[1]
            /\ f.op \in {"Rename", "Link"} => Dir(f) = f.objs[2]
            /\ f.op = "Rename" => 1..Len(f.names) = {1, 2}
            /\ f.op \in EntryOps \cup {"Link"} => 1..Len(f.names) = {1}
        <5>1. pc[t] # "idle"
          OBVIOUS
        <5>2. QED
          BY <5>1, FirstParts
      <4>3. CASE f.op = "Remove"
        <5>1. f.op \in EntryOps \cup {"Link"} /\ f.op \notin {"Rename", "Link"}
          BY <4>3 DEF EntryOps
        <5>2. Dir(f) = f.objs[1] /\ 1 \in 1..Len(f.names)
          BY <4>2, <5>1
        <5>3. QED
          BY <5>2
      <4>4. CASE f.op = "Rename"
        <5>1. Dir(f) = f.objs[2] /\ 2 \in 1..Len(f.names)
          BY <4>2, <4>4
        <5>2. QED
          BY <5>1
      <4>5. QED
        BY <4>1, <4>3, <4>4
    <3>4. g.objs[1] # Dir(f)
      <4>1. CASE g.op \in {"Lookup", "Revalidate"}
        <5>1. fr[u].op \in Adders /\ Dir(g) = g.objs[1]
          BY <2>1, <3>2, <4>1 DEF Adders, Changes
        <5>2. fr[t].objs[k] # Dir(fr[u])
          BY <1>4, <5>1, ApartAdder
        <5>3. QED
          BY <2>1, <3>3, <5>1, <5>2
      <4>2. CASE g.op \in Changes
        <5>1. fr[u].op \in Changes /\ \E j \in 1..Len(fr[u].names) : j = 1
          BY <2>1, <3>2, <4>2
        <5>2. fr[t].objs[k] # fr[u].objs[1]
          BY <1>4, <5>1, ApartChange
        <5>3. QED
          BY <2>1, <3>3, <5>2
      <4>3. QED
        BY <3>1, <4>1, <4>2
    <3>5. ino[g.objs[1]] # ino[Dir(f)]
      <4>1. Dir(f) \in alloc
        BY FirstParts
      <4>2. QED
        BY <3>2, <3>4, <4>1, Injective
    <3>6. PICK x, y : x = ino[g.objs[1]] /\ y = g.names[1]
      OBVIOUS
    <3>7. CASE x \in DirIno /\ y \in Name
      <4>1. fs[x][y] = NoIno /\ x # ino[Dir(f)]
        BY <2>2, <3>5, <3>6, <3>7 DEF NextIn
      <4>2. fs'[x][y] = NoIno
        BY <3>7, <4>1
      <4>3. QED
        BY <3>6, <4>2 DEF NextIn
    <3>8. CASE ~(x \in DirIno /\ y \in Name)
      BY <3>6, <3>8 DEF NextIn
    <3>9. QED
      BY <3>7, <3>8
  <2>3. QED
    BY <1>1, <1>2, <1>4, <2>1, <2>2, TakingKept DEF TreeKnows, Kept, Same
<1>5. QED
  BY <1>3, <1>4

(* An entry that such a call leaves as it is, is known as before.          *)
LEMMA EntryLeft ==
  ASSUME TableOK, FramesOK, TreeKnows, UNCHANGED treeVars, NEW t \in Thread, pc[t] = "call",
         Go(t, "apply", fr[t]), NEW x \in DirIno, NEW y \in Name,
         fs'[x][y] = fs[x][y], fs[x][y] # NoIno
  PROVE  HasEntry(x, y)' \/ \E u \in Thread : Bringing(u, x, y)'
<1>1. /\ alloc' = alloc /\ ino' = ino /\ children' = children /\ nodes' = nodes
  BY DEF treeVars
<1>2. HasEntry(x, y) => HasEntry(x, y)'
  BY <1>1 DEF HasEntry
<1>3. ASSUME NEW u \in Thread, Bringing(u, x, y) PROVE Bringing(u, x, y)'
  <2>1. u # t
    BY <1>3 DEF Bringing
  <2>2. fr'[u] = fr[u] /\ pc'[u] = pc[u]
    BY <2>1, CallKeeps DEF Label
  <2>3. QED
    BY <1>1, <1>3, <2>2, BringingKept
<1>4. QED
  BY <1>2, <1>3 DEF TreeKnows, EntriesKnown

LEMMA RemoveKnows ==
  ASSUME TableOK, FramesOK, TreeKnows, NEW t \in Thread, FsRemove(t), blame' = {}
  PROVE  TreeKnows'
<1>1. PICK f, p, d, m, i : /\ f = fr[t] /\ p = f.objs[1] /\ d = Resolve(f.paths[1])
                           /\ m = f.names[1] /\ i = fs[d][m]
  OBVIOUS
<1>2. pc[t] = "call" /\ f.op = "Remove" /\ f.op \in Changes
  BY <1>1 DEF FsRemove, Call, Changes
<1>3. FrameOK(alloc, "call", f) /\ Len(f.paths) = 1
  BY <1>1, <1>2 DEF FramesOK, FrameOK
<1>4. p \in alloc /\ Dir(f) = p /\ m \in Name
  BY <1>1, <1>2, FirstParts DEF EntryOps
<1>5. /\ d \in DirIno /\ fs' = [fs EXCEPT ![d][m] = NoIno] /\ i # NoIno
      /\ i \in DirIno => IsEmpty(i)
      /\ Go(t, "apply", f) /\ UNCHANGED treeVars /\ Led(f) /\ blame = {}
  BY <1>1 DEF FsRemove, Blame
<1>6. d = ino[p]
  <2>1. 1 \in 1..Len(f.paths)
    BY <1>3
  <2>2. QED
    BY <1>1, <1>5, <2>1, LedDir
<1>7. /\ fs'[d][m] = NoIno
      /\ \A x \in DirIno, y \in Name : ~(x = d /\ y = m) => fs'[x][y] = fs[x][y]
  <2>1. fs \in [DirIno -> [Name -> Ino \cup {NoIno}]] /\ NoIno \in Ino \cup {NoIno}
    BY DEF TableOK
  <2>2. QED
    BY <1>4, <1>5, <2>1, PutEntry
<1>8. /\ alloc' = alloc /\ ino' = ino /\ children' = children /\ nodes' = nodes
      /\ parents' = parents
  BY <1>5 DEF treeVars
<1>9. \A x \in DirIno, y \in Name : fs'[x][y] \in {fs[x][y], NoIno}
  BY <1>7
<1>10. ASSUME NEW x \in DirIno PROVE IsLinked(x)' \/ IsEmpty(x)'
  <2>1. CASE IsEmpty(x)
    BY <1>9, <2>1 DEF IsEmpty
  <2>2. CASE x = RootIno
    BY <2>2 DEF IsLinked
  <2>3. CASE \E a \in DirIno, b \in Name : fs[a][b] = x
    <3>1. PICK a \in DirIno, b \in Name : fs[a][b] = x
      BY <2>3
    <3>2. CASE a = d /\ b = m
      <4>1. IsEmpty(x)
        BY <1>1, <1>5, <3>1, <3>2
      <4>2. QED
        BY <2>1, <4>1
    <3>3. CASE ~(a = d /\ b = m)
      <4>1. fs'[a][b] = x
        BY <1>7, <3>1, <3>3
      <4>2. QED
        BY <4>1 DEF IsLinked
    <3>4. QED
      BY <3>2, <3>3
  <2>4. QED
    BY <2>1, <2>2, <2>3 DEF TreeKnows, DirsKnown, IsLinked
<1>11. DirsKnown'
  BY <1>8, <1>10 DEF TreeKnows, DirsKnown
<1>12. EntriesKnown'
  <2> SUFFICES ASSUME NEW x \in DirIno, NEW y \in Name, fs'[x][y] # NoIno
               PROVE  /\ HasEntry(x, y)' \/ \E u \in Thread : Bringing(u, x, y)'
                      /\ nodes'[fs'[x][y]] = Nil =>
                           \A e \in DirIno, n \in Name :
                             fs'[e][n] = fs'[x][y] => e = x /\ n = y
    BY DEF EntriesKnown
  <2>1. fs'[x][y] = fs[x][y] /\ fs[x][y] # NoIno
    BY <1>9
  <2>2. HasEntry(x, y)' \/ \E u \in Thread : Bringing(u, x, y)'
    BY <1>1, <1>2, <1>5, <2>1, EntryLeft
  <2>3. nodes[fs[x][y]] = Nil =>
          \A e \in DirIno, n \in Name : fs[e][n] = fs[x][y] => e = x /\ n = y
    BY <2>1 DEF TreeKnows, EntriesKnown
  <2>4. \A e \in DirIno, n \in Name : fs'[e][n] = fs[x][y] => fs[e][n] = fs[x][y]
    BY <1>9, <2>1
  <2>5. QED
    BY <1>8, <2>1, <2>2, <2>3, <2>4
<1>13. ParentsKnown'
  <2> SUFFICES ASSUME NEW o \in alloc \ {RootObj}, IsLinked(ino[o])' PROVE parents[o] # NoParents
    BY <1>8 DEF ParentsKnown
  <2>1. PICK x : x = ino[o]
    OBVIOUS
  <2>2. x \in Ino /\ x # NoIno
    BY <2>1, Numbers DEF TableOK
  <2>3. IsLinked(x)'
    BY <1>8, <2>1
  <2>4. IsLinked(x)
    <3>1. CASE x = RootIno
      BY <3>1 DEF IsLinked
    <3>2. CASE \E a \in DirIno, b \in Name : fs'[a][b] = x
      BY <1>9, <2>2, <3>2 DEF IsLinked
    <3>3. QED
      BY <2>3, <3>1, <3>2 DEF IsLinked
  <2>5. QED
    BY <2>1, <2>4 DEF TreeKnows, ParentsKnown
<1>14. ASSUME NEW u \in Thread PROVE Taking(u)'
  <2>1. \A x \in DirIno, y \in Name :
          fs[x][y] = NoIno /\ fs'[x][y] # NoIno => x = ino[Dir(f)]
    BY <1>9
  <2>2. NextIn(fs', ino[f.objs[1]], f.names[1]) = NoIno
    BY <1>1, <1>6, <1>7 DEF NextIn
  <2>3. Go(t, "apply", f) /\ UNCHANGED treeVars /\ blame = {} /\ f = fr[t]
    BY <1>1, <1>5
  <2>4. f.op # "Rename"
    BY <1>2
  <2>5. QED
    BY <1>2, <2>1, <2>2, <2>3, <2>4, ChangeTaking
<1>15. QED
  BY <1>11, <1>12, <1>13, <1>14 DEF TreeKnows

LEMMA RenameKnows ==
  ASSUME TableOK, FramesOK, TreeKnows, NEW t \in Thread, FsRename(t), blame' = {}
  PROVE  TreeKnows'
<1>1. PICK f, p, q, m, n : /\ f = fr[t] /\ p = f.objs[1] /\ q = f.objs[2]
                           /\ m = f.names[1] /\ n = f.names[2]
  OBVIOUS
<1>2. PICK d, e, i, j : /\ d = Resolve(f.paths[1]) /\ e = Resolve(f.paths[2])
                        /\ i = fs[d][m] /\ j = fs[e][n]
  OBVIOUS
<1>3. pc[t] = "call" /\ f.op = "Rename" /\ f.op \in Changes
  BY <1>1 DEF FsRename, Call, Changes
<1>4. FrameOK(alloc, "call", f) /\ Len(f.paths) = 2 /\ f.paths \in Seq(Seq(Segment))
  BY <1>1, <1>3 DEF FramesOK, FrameOK
<1>5. /\ p \in alloc /\ q \in alloc /\ Dir(f) = q /\ m \in Name /\ n \in Name /\ p \in Obj
      /\ 1..Len(f.names) = {1, 2}
  BY <1>1, <1>3, FirstParts
<1>6. /\ d \in DirIno /\ e \in DirIno /\ i # NoIno /\ i # j
      /\ j \in DirIno => IsEmpty(j)
      /\ fs' = [fs EXCEPT ![d][m] = NoIno, ![e][n] = i]
      /\ Go(t, "apply", f) /\ UNCHANGED treeVars /\ Led(f) /\ blame = {}
  <2>1. /\ d \in DirIno /\ e \in DirIno /\ i # NoIno /\ i # j
        /\ j # NoIno => (j \in DirIno => IsEmpty(j))
        /\ fs' = [fs EXCEPT ![d][m] = NoIno, ![e][n] = i]
    BY <1>1, <1>2 DEF FsRename
  <2>2. Go(t, "apply", f) /\ Blame(t) /\ UNCHANGED treeVars
    BY <1>1 DEF FsRename
  <2>3. Led(f) /\ blame = {}
    BY <1>1, <2>2 DEF Blame
  <2>4. j \in DirIno => IsEmpty(j)
    BY <2>1, Numbers
  <2>5. QED
    BY <2>1, <2>2, <2>3, <2>4
<1>7. d = ino[p] /\ e = ino[q] /\ IsLinked(e)
  <2>1. 1 \in 1..Len(f.paths) /\ 2 \in 1..Len(f.paths)
    BY <1>4
  <2>2. d = ino[p]
    <3>1. Led(f) /\ 1 \in 1..Len(f.paths)
      BY <1>6, <2>1
    <3>2. Resolve(f.paths[1]) \in DirIno
      BY <1>2, <1>6
    <3>3. Resolve(f.paths[1]) = ino[f.objs[1]]
      BY <3>1, <3>2, LedDir
    <3>4. QED
      BY <1>1, <1>2, <3>3
  <2>3. e = ino[q]
    <3>1. Led(f) /\ 2 \in 1..Len(f.paths)
      BY <1>6, <2>1
    <3>2. Resolve(f.paths[2]) \in DirIno
      BY <1>2, <1>6
    <3>3. Resolve(f.paths[2]) = ino[f.objs[2]]
      BY <3>1, <3>2, LedDir
    <3>4. QED
      BY <1>1, <1>2, <3>3
  <2>4. PICK w : w = f.paths[2]
    OBVIOUS
  <2>5. w \in Seq(Segment) /\ Resolve(w) = e /\ e # NoIno
    BY <1>2, <1>4, <1>6, <2>1, <2>4, Numbers
  <2>6. IsLinked(Resolve(w))
    BY <2>5, ResolveLinked
  <2>7. QED
    BY <2>2, <2>3, <2>5, <2>6
<1>8. /\ fs'[e][n] = i /\ fs'[d][m] = NoIno /\ ~(d = e /\ m = n)
      /\ \A x \in DirIno, y \in Name :
           ~(x = d /\ y = m) /\ ~(x = e /\ y = n) => fs'[x][y] = fs[x][y]
  <2>1. PICK g, h, g1 : g = fs /\ h = [g EXCEPT ![d][m] = NoIno] /\ g1 = fs'
    OBVIOUS
  <2>2. g \in [DirIno -> [Name -> Ino \cup {NoIno}]]
    BY <2>1 DEF TableOK
  <2>3. NoIno \in Ino \cup {NoIno} /\ i \in Ino \cup {NoIno}
    BY <1>2, <1>5, <1>6, <2>1, <2>2
  <2>4. /\ h \in [DirIno -> [Name -> Ino \cup {NoIno}]] /\ h[d][m] = NoIno
        /\ \A x \in DirIno, y \in Name : ~(x = d /\ y = m) => h[x][y] = g[x][y]
    BY <1>5, <1>6, <2>1, <2>2, <2>3, PutEntry
  <2>5. g1 = [h EXCEPT ![e][n] = i]
    BY <1>6, <2>1
  <2>6. /\ g1[e][n] = i
        /\ \A x \in DirIno, y \in Name : ~(x = e /\ y = n) => g1[x][y] = h[x][y]
    BY <1>5, <1>6, <2>3, <2>4, <2>5, PutEntry
  <2>7. ~(d = e /\ m = n)
    BY <1>2, <1>6
  <2>8. g1[d][m] = h[d][m]
    BY <1>5, <1>6, <2>6, <2>7
  <2>9. \A x \in DirIno, y \in Name :
          ~(x = d /\ y = m) /\ ~(x = e /\ y = n) => g1[x][y] = g[x][y]
    BY <2>4, <2>6
  <2>10. QED
    BY <2>1, <2>4, <2>6, <2>7, <2>8, <2>9
<1>9. /\ alloc' = alloc /\ ino' = ino /\ children' = children /\ nodes' = nodes
      /\ parents' = parents
  BY <1>6 DEF treeVars
<1>10. PICK c : c = children[p][m]
  OBVIOUS
<1>11. c # Nil /\ ino[c] = i /\ c \in alloc /\ nodes[i] # Nil
  <2>1. \E k \in 1..Len(fr[t].names) : fr[t].objs[k] = p
    BY <1>1, <1>5
  <2>2. c # Nil /\ ino[c] = i
    <3>1. /\ fs[ino[p]][m] # NoIno /\ ino[p] \in DirIno /\ EntriesKnown /\ blame = {}
          /\ fr[t].op \in Changes /\ p \in alloc /\ m \in Name
      BY <1>1, <1>2, <1>3, <1>5, <1>6, <1>7 DEF TreeKnows
    <3>2. children[p][m] # Nil /\ ino[children[p][m]] = fs[ino[p]][m]
      BY <1>3, <2>1, <3>1, OwnEntry
    <3>3. QED
      BY <1>2, <1>7, <1>10, <3>2
  <2>3. c \in alloc
    BY <1>5, <1>10, <2>2, ChildType
  <2>4. nodes[ino[c]] = c
    BY <2>3 DEF TableOK
  <2>5. QED
    BY <2>2, <2>3, <2>4
<1>12. ASSUME NEW x \in DirIno PROVE IsLinked(x)' \/ IsEmpty(x)'
  <2>1. ASSUME IsEmpty(x), x # e PROVE IsEmpty(x)'
    BY <1>8, <2>1 DEF IsEmpty
  <2>2. CASE x = RootIno
    BY <2>2 DEF IsLinked
  <2>3. CASE \E a \in DirIno, b \in Name : fs[a][b] = x
    <3>1. PICK a \in DirIno, b \in Name : fs[a][b] = x
      BY <2>3
    <3>2. CASE a = d /\ b = m
      <4>1. fs'[e][n] = x
        BY <1>2, <1>8, <3>1, <3>2
      <4>2. QED
        BY <1>5, <1>6, <4>1 DEF IsLinked
    <3>3. CASE a = e /\ b = n
      <4>1. IsEmpty(x) /\ x = j
        BY <1>2, <1>6, <3>1, <3>3
      <4>2. x # e
        BY <1>2, <1>5, <4>1, Numbers DEF IsEmpty
      <4>3. QED
        BY <2>1, <4>1, <4>2
    <3>4. CASE ~(a = d /\ b = m) /\ ~(a = e /\ b = n)
      <4>1. fs'[a][b] = x
        BY <1>8, <3>1, <3>4
      <4>2. QED
        BY <4>1 DEF IsLinked
    <3>5. QED
      BY <3>2, <3>3, <3>4
  <2>4. CASE ~IsLinked(x)
    <3>1. IsEmpty(x) /\ x # e
      BY <1>7, <2>4 DEF TreeKnows, DirsKnown
    <3>2. QED
      BY <2>1, <3>1
  <2>5. QED
    BY <2>2, <2>3, <2>4 DEF IsLinked
<1>13. DirsKnown'
  BY <1>9, <1>12 DEF TreeKnows, DirsKnown
<1>14. EntriesKnown'
  <2> SUFFICES ASSUME NEW x \in DirIno, NEW y \in Name, fs'[x][y] # NoIno
               PROVE  /\ HasEntry(x, y)' \/ \E u \in Thread : Bringing(u, x, y)'
                      /\ nodes'[fs'[x][y]] = Nil =>
                           \A a \in DirIno, b \in Name :
                             fs'[a][b] = fs'[x][y] => a = x /\ b = y
    BY DEF EntriesKnown
  <2>1. CASE x = e /\ y = n
    <3>1. Bringing(t, e, n)'
      <4>1. PICK g : g = fr'[t]
        OBVIOUS
      <4>2. g = f /\ pc'[t] = "apply"
        BY <1>1, <1>6, <4>1, CallKeeps DEF Label
      <4>3. /\ ino'[g.objs[2]] = e /\ g.names[2] = n /\ g.op = "Rename"
            /\ children'[g.objs[1]][g.names[1]] = c /\ ino'[c] = fs'[e][n]
        BY <1>1, <1>3, <1>7, <1>8, <1>9, <1>10, <1>11, <4>2
      <4>4. QED
        BY <1>11, <4>1, <4>2, <4>3 DEF Bringing
    <3>2. QED
      BY <1>8, <1>9, <1>11, <2>1, <3>1
  <2>2. CASE ~(x = e /\ y = n)
    <3>1. fs'[x][y] = fs[x][y] /\ fs[x][y] # NoIno
      BY <1>8, <2>2
    <3>2. HasEntry(x, y)' \/ \E u \in Thread : Bringing(u, x, y)'
      BY <1>1, <1>3, <1>6, <3>1, EntryLeft
    <3>3. nodes[fs[x][y]] = Nil =>
            \A a \in DirIno, b \in Name : fs[a][b] = fs[x][y] => a = x /\ b = y
      BY <3>1 DEF TreeKnows, EntriesKnown
    <3>4. ASSUME nodes[fs[x][y]] = Nil, NEW a \in DirIno, NEW b \in Name,
                 fs'[a][b] = fs[x][y]
          PROVE  fs[a][b] = fs[x][y]
      <4>1. ~(a = e /\ b = n)
        BY <1>8, <1>11, <3>4
      <4>2. ~(a = d /\ b = m)
        BY <1>8, <3>1, <3>4
      <4>3. QED
        BY <1>8, <3>4, <4>1, <4>2
    <3>5. QED
      BY <1>9, <3>1, <3>2, <3>3, <3>4
  <2>3. QED
    BY <2>1, <2>2
<1>15. ParentsKnown'
  <2> SUFFICES ASSUME NEW o \in alloc \ {RootObj}, IsLinked(ino[o])' PROVE parents[o] # NoParents
    BY <1>9 DEF ParentsKnown
  <2>1. PICK x : x = ino[o]
    OBVIOUS
  <2>2. x \in Ino /\ x # NoIno
    BY <2>1, Numbers DEF TableOK
  <2>3. IsLinked(x)'
    BY <1>9, <2>1
  <2>4. IsLinked(x)
    <3>1. CASE x = RootIno
      BY <3>1 DEF IsLinked
    <3>2. CASE \E a \in DirIno, b \in Name : fs'[a][b] = x
      <4>1. PICK a \in DirIno, b \in Name : fs'[a][b] = x
        BY <3>2
      <4>2. CASE a = e /\ b = n
        <5>1. x = i /\ fs[d][m] = x
          BY <1>2, <1>8, <4>1, <4>2
        <5>2. QED
          BY <1>5, <1>6, <5>1 DEF IsLinked
      <4>3. CASE ~(a = e /\ b = n)
        <5>1. ~(a = d /\ b = m)
          BY <1>8, <2>2, <4>1
        <5>2. fs[a][b] = x
          BY <1>8, <4>1, <4>3, <5>1
        <5>3. QED
          BY <5>2 DEF IsLinked
      <4>4. QED
        BY <4>2, <4>3
    <3>3. QED
      BY <2>3, <3>1, <3>2 DEF IsLinked
  <2>5. QED
    BY <2>1, <2>4 DEF TreeKnows, ParentsKnown
<1>16. ASSUME NEW u \in Thread PROVE Taking(u)'
  <2>1. \A x \in DirIno, y \in Name :
          fs[x][y] = NoIno /\ fs'[x][y] # NoIno => x = ino[Dir(f)]
    BY <1>5, <1>7, <1>8
  <2>2. NextIn(fs', ino[f.objs[1]], f.names[1]) = NoIno
    BY <1>1, <1>7, <1>8 DEF NextIn
  <2>3. Go(t, "apply", f) /\ UNCHANGED treeVars /\ blame = {}
    BY <1>6
  <2>4. children[f.objs[1]][f.names[1]] # Nil
    BY <1>1, <1>10, <1>11
  <2>5. QED
    BY <1>1, <1>3, <2>1, <2>2, <2>3, <2>4, ChangeTaking
<1>17. QED
  BY <1>13, <1>14, <1>15, <1>16 DEF TreeKnows

(* An entry that is brought again is the one that was there.               *)
LEMMA AddSame ==
  ASSUME TableOK, FramesOK, AllTrue, WritesTrue, blame = {}, NEW t \in Thread, pc[t] = "apply",
         NEW f, f = fr[t], f.op \in Adders, f.cino # NoIno,
         Dir(f) \in alloc, Dir(f) \in Obj, f.names[1] \in Name
  PROVE  /\ ino[Dir(f)] \in DirIno /\ fs[ino[Dir(f)]][f.names[1]] = f.cino
         /\ children[Dir(f)][f.names[1]] # Nil => children[Dir(f)][f.names[1]] = nodes[f.cino]
<1>0. PICK p, m, i : p = Dir(f) /\ m = f.names[1] /\ i = f.cino
  OBVIOUS
<1>1. PICK en : en = T!EntryOf(m, p)
  OBVIOUS
<1>2. en.node = p /\ en.name = m
  BY <1>1, EntryParts
<1>3. ino[p] \in DirIno /\ fs[ino[p]][m] = i
  BY <1>0 DEF WritesTrue, Writing
<1>4. ASSUME NEW u \in Thread, Undoing(u, en) PROVE FALSE
  <2>1. u # t /\ fr[u].op \in Changes
    BY <1>4 DEF Undoing, Adders, Changes
  <2>2. PICK k \in 1..Len(fr[u].names) : fr[u].objs[k] = p
    BY <1>2, <1>4 DEF Undoing
  <2>3. fr[u].objs[k] # Dir(fr[t])
    BY <2>1, ApartAdder
  <2>4. QED
    BY <1>0, <2>2, <2>3
<1>5. PICK x : x = children[p][m]
  OBVIOUS
<1>6. ASSUME x # Nil PROVE x = nodes[i]
  <2>1. x \in alloc /\ x \in Obj
    <3>1. p \in Obj /\ m \in Name
      BY <1>0
    <3>2. x \in alloc \cup {Nil} /\ x \in Obj \cup {Nil}
      BY <1>5, <3>1, ChildType
    <3>3. QED
      BY <1>6, <3>2
  <2>2. In(en, parents[x])
    BY <1>0, <1>1, <1>5, <1>6 DEF AllTrue
  <2>3. InTrue(en, x)
    BY <2>1, <2>2 DEF AllTrue
  <2>4. fs[ino[p]][m] = ino[x]
    BY <1>2, <1>4, <2>3 DEF InTrue
  <2>5. nodes[i] = x
    BY <1>3, <2>1, <2>4 DEF TableOK
  <2>6. QED
    BY <1>6, <2>5
<1>7. QED
  BY <1>0, <1>3, <1>5, <1>6

(* The request whose inode has changed the tree goes on to an entry it     *)
(* knows nothing of, or is done.                                           *)
LEMMA ChangedOwn ==
  ASSUME FramesOK, NEW t \in Thread, pc[t] = "apply", Changed(t)
  PROVE  /\ pc'[t] \in {"idle", "look"} /\ fr'[t].op \in {"none", "ReadPlus"}
         /\ Taking(t)'
<1>1. PICK f : f = fr[t] /\ FrameOK(alloc, "apply", f)
  BY DEF FramesOK
<1>2. PICK g \in Nexts(f) : pc' = [pc EXCEPT ![t] = After(g)] /\ fr'[t] = g
  BY <1>1 DEF Changed, After
<1>3. pc'[t] = After(g)
  BY <1>2 DEF FramesOK
<1>4. After(g) \in {"idle", "look"} /\ (g = IdleFrame \/ g.op = "ReadPlus")
  BY <1>1, NextFits
<1>5. IdleFrame.op = "none"
  BY DEF IdleFrame
<1>6. pc'[t] \in {"idle", "look"} /\ fr'[t].op \in {"none", "ReadPlus"}
  BY <1>2, <1>3, <1>4, <1>5
<1>7. QED
  BY <1>6 DEF Taking, Changes

(* The numbers that a lookup finds or makes an inode for.                  *)
LEMMA AddNodes ==
  ASSUME TableOK, TableOK', NEW i \in Ino, NEW c \in Obj, alloc' = alloc \cup {c},
         ino'[c] = i, \A x \in alloc : ino'[x] = ino[x]
  PROVE  /\ c \in alloc' /\ c # Nil /\ nodes'[i] = c
         /\ \A z \in Ino : nodes'[z] = Nil => nodes[z] = Nil /\ z # i
         /\ \A z \in Ino : nodes[z] = Nil /\ z # i => nodes'[z] = Nil
<1>1. /\ c \in alloc' /\ alloc' = alloc \cup {c} /\ ino'[c] = i /\ c \in Obj
      /\ \A x \in alloc : ino'[x] = ino[x]
  OBVIOUS
<1>2. c # Nil
  BY <1>1, Numbers
<1>3. nodes'[i] = c
  <2>1. \A x \in alloc' : nodes'[ino'[x]] = x
    BY DEF TableOK
  <2>2. c \in alloc'
    BY <1>1
  <2>3. QED
    BY <1>1, <2>1, <2>2
<1>4. ASSUME NEW z \in Ino, nodes[z] # Nil PROVE nodes'[z] # Nil
  <2>1. PICK x : x = nodes[z]
    OBVIOUS
  <2>2. x \in alloc /\ ino[x] = z
    <3>1. nodes[z] \in alloc \cup {Nil}
      BY DEF TableOK
    <3>2. \A y \in Ino : nodes[y] # Nil => ino[nodes[y]] = y
      BY DEF TableOK
    <3>3. QED
      BY <1>4, <2>1, <3>1, <3>2
  <2>3. x \in alloc' /\ ino'[x] = z /\ x # Nil
    BY <1>1, <1>4, <2>1, <2>2
  <2>4. nodes'[z] = x
    BY <2>3 DEF TableOK
  <2>5. QED
    BY <2>3, <2>4
<1>5. ASSUME NEW z \in Ino, nodes'[z] # Nil, z # i PROVE nodes[z] # Nil
  <2>1. PICK x : x = nodes'[z]
    OBVIOUS
  <2>2. x \in alloc' /\ ino'[x] = z
    <3>1. nodes' \in [Ino -> alloc' \cup {Nil}]
      BY DEF TableOK
    <3>2. \A y \in Ino : nodes'[y] # Nil => ino'[nodes'[y]] = y
      BY DEF TableOK
    <3>3. QED
      BY <1>5, <2>1, <3>1, <3>2
  <2>3. x \in alloc
    BY <1>1, <1>5, <2>2
  <2>4. ino[x] = z /\ nodes[ino[x]] = x
    BY <1>1, <2>2, <2>3 DEF TableOK
  <2>5. QED
    BY <1>5, <2>1, <2>4
<1>6. QED
  BY <1>1, <1>2, <1>3, <1>4, <1>5

(* A list of parents is empty if nothing is in it.                         *)
LEMMA ParentThere ==
  ASSUME NEW S, NEW s \in Seq(S)
  PROVE  s # NoParents <=> \E e : In(e, s)
<1>1. CASE s = <<>>
  BY <1>1 DEF In, NoParents
<1>2. CASE s # <<>>
  <2>1. 1 \in 1..Len(s)
    BY <1>2
  <2>2. QED
    BY <1>2, <2>1 DEF In, NoParents
<1>3. QED
  BY <1>1, <1>2

(* The tree changes: what the other requests are about to take away, and   *)
(* what they bring, does not.                                              *)
LEMMA OthersKnow ==
  ASSUME TableOK, FramesOK, TreeKnows, NEW u \in Thread, fs' = fs,
         pc'[u] = pc[u], Kept(fr[u], fr'[u]), \A x \in alloc : ino'[x] = ino[x],
         \A z \in Ino : nodes[z] = Nil =>
           nodes'[z] = Nil \/ \E p \in alloc, m \in Name :
             HasEntry(ino[p], m)' /\ fs[ino[p]][m] = z /\ ino[p] \in DirIno,
         fr[u].op \in Changes => \A k \in 1..Len(fr[u].names) :
           children'[fr[u].objs[k]][fr[u].names[k]] = children[fr[u].objs[k]][fr[u].names[k]]
  PROVE  /\ Taking(u)'
         /\ \A x \in DirIno, y \in Name :
              fs[x][y] # NoIno /\ Bringing(u, x, y) => Bringing(u, x, y)' \/ HasEntry(x, y)'
<1>1. PICK f, g : f = fr[u] /\ g = fr'[u]
  OBVIOUS
<1>2. Taking(u)'
  <2>1. ASSUME pc[u] = "apply"
        PROVE  ino'[f.objs[1]] = ino[f.objs[1]]
    <3>1. f.objs[1] \in alloc
      BY <1>1, <2>1, FirstParts
    <3>2. QED
      BY <3>1
  <2>2. QED
    BY <1>1, <2>1, TakingKept DEF TreeKnows
<1>3. ASSUME NEW x \in DirIno, NEW y \in Name, fs[x][y] # NoIno, Bringing(u, x, y),
             ~HasEntry(x, y)'
      PROVE  Bringing(u, x, y)'
  <2>1. /\ g.op = f.op /\ g.objs = f.objs /\ g.names = f.names
    BY <1>1 DEF Kept, Same
  <2>2. PICK z : z = fs[x][y]
    OBVIOUS
  <2>3. z \in Ino
    BY <1>3, <2>2 DEF TableOK
  <2>4. ASSUME nodes[z] = Nil PROVE nodes'[z] = Nil
    <3>1. ASSUME NEW p \in alloc, NEW m \in Name, HasEntry(ino[p], m)', fs[ino[p]][m] = z,
                 ino[p] \in DirIno
          PROVE  FALSE
      <4>1. PICK d : d = ino[p] /\ d = ino'[p]
        OBVIOUS
      <4>2. d = x /\ m = y
        <5>1. nodes[fs[x][y]] = Nil /\ fs[x][y] # NoIno
          BY <1>3, <2>2, <2>4
        <5>2. \A e \in DirIno, n \in Name : fs[e][n] = fs[x][y] => e = x /\ n = y
          BY <5>1 DEF TreeKnows, EntriesKnown
        <5>3. d \in DirIno /\ fs[d][m] = fs[x][y]
          BY <2>2, <3>1, <4>1
        <5>4. QED
          BY <5>2, <5>3
      <4>3. HasEntry(x, y)'
        BY <3>1, <4>1, <4>2
      <4>4. QED
        BY <1>3, <4>3
    <3>2. QED
      BY <2>3, <2>4, <3>1
  <2>5. f.op = "Rename" /\ pc[u] # "idle" =>
          children'[f.objs[1]][f.names[1]] = children[f.objs[1]][f.names[1]]
    <3>1. ASSUME f.op = "Rename", pc[u] # "idle"
          PROVE  1 \in 1..Len(f.names) /\ f.op \in Changes
      <4>1. 1..Len(f.names) = {1, 2}
        BY <1>1, <3>1, FirstParts
      <4>2. QED
        BY <3>1, <4>1 DEF Changes
    <3>2. QED
      BY <1>1, <3>1
  <2>6. pc[u] # "idle"
    BY <1>3 DEF Bringing
  <2>7. f.op = "Make" /\ nodes[fs[x][y]] = Nil => nodes'[fs[x][y]] = Nil
    BY <2>2, <2>4
  <2>8. QED
    BY <1>1, <1>3, <2>1, <2>5, <2>6, <2>7, BringingKept
<1>4. QED
  BY <1>2, <1>3

(* An inode that a request has locked and that is linked has a parent that *)
(* the file system has too, unless the request itself brings it.           *)
LEMMA OtherParent ==
  ASSUME TableOK, FramesOK, RootKnown, TreeKnows, AllTrue, NEW t \in Thread,
         NEW o \in alloc, o # RootObj, o \in fr[t].locks, IsLinked(ino[o]),
         \A x \in DirIno, y \in Name : fs[x][y] = ino[o] => ~Bringing(t, x, y)
  PROVE  \E q \in alloc, y \in Name :
           /\ In(T!EntryOf(y, q), parents[o]) /\ ino[q] \in DirIno
           /\ fs[ino[q]][y] = ino[o]
<1>1. PICK i : i = ino[o]
  OBVIOUS
<1>2. /\ i \in Ino /\ i # NoIno /\ i # RootIno /\ nodes[i] = o /\ o # Nil /\ o \in Obj
  <2>1. RootObj \in alloc /\ ino[RootObj] = RootIno
    BY DEF RootKnown
  <2>2. i # RootIno
    BY <1>1, <2>1, Injective
  <2>3. QED
    BY <1>1, <2>2, Numbers DEF TableOK
<1>3. PICK x \in DirIno, y \in Name : fs[x][y] = i
  BY <1>1, <1>2 DEF IsLinked
<1>4. ASSUME NEW u \in Thread, Bringing(u, x, y) PROVE FALSE
  <2>1. PICK f, g : f = fr[t] /\ g = fr[u]
    OBVIOUS
  <2>2. u # t /\ pc[u] # "idle"
    <3>1. u # t
      BY <1>1, <1>3, <1>4
    <3>2. QED
      BY <1>4, <3>1 DEF Bringing
  <2>3. f.locks \cap g.locks = {}
    BY <2>1, <2>2 DEF FramesOK, Compatible
  <2>4. CASE g.op = "Make"
    BY <1>2, <1>3, <1>4, <2>1, <2>4 DEF Bringing
  <2>5. CASE g.op = "Link"
    <3>1. ino[g.objs[1]] = i
      BY <1>3, <1>4, <2>1, <2>5 DEF Bringing
    <3>2. g.objs[1] \in alloc
      BY <2>1, <2>2, FirstParts
    <3>3. g.objs[1] = o
      BY <1>1, <3>1, <3>2, Injective
    <3>4. o \in g.locks
      BY <2>1, <2>5, <3>3 DEF TreeKnows, Taking
    <3>5. QED
      BY <2>1, <2>3, <3>4
  <2>6. CASE g.op = "Rename"
    <3>1. PICK c : c = children[g.objs[1]][g.names[1]]
      OBVIOUS
    <3>2. c # Nil /\ ino[c] = i
      <4>1. g.op \notin {"Make", "Link"}
        BY <2>6
      <4>2. /\ children[g.objs[1]][g.names[1]] # Nil
            /\ ino[children[g.objs[1]][g.names[1]]] = fs[x][y]
        BY <1>4, <2>1, <4>1 DEF Bringing
      <4>3. QED
        BY <1>3, <3>1, <4>2
    <3>3. /\ g.objs[1] \in Obj /\ g.names[1] \in Name /\ 1 \in 1..Len(g.names)
          /\ g.op \in Changes
      <4>1. g.op \in Changes
        BY <2>6 DEF Changes
      <4>2. QED
        BY <2>1, <2>2, <4>1, ChangeFirst
    <3>4. c \in alloc
      <4>1. PICK p, m : p = g.objs[1] /\ m = g.names[1]
        OBVIOUS
      <4>2. p \in Obj /\ m \in Name
        BY <3>3, <4>1
      <4>3. children[p][m] \in alloc \cup {Nil}
        BY <4>2, ChildType
      <4>4. QED
        BY <3>1, <3>2, <4>1, <4>3
    <3>5. c = o
      BY <1>1, <3>2, <3>4, Injective
    <3>6. children[g.objs[1]][g.names[1]] \in g.locks \cup {Nil}
      BY <2>1, <3>3 DEF TreeKnows, Taking
    <3>7. QED
      BY <2>1, <2>3, <3>1, <3>2, <3>5, <3>6
  <2>7. QED
    BY <1>4, <2>1, <2>4, <2>5, <2>6 DEF Bringing
<1>5. HasEntry(x, y)
  BY <1>2, <1>3, <1>4 DEF TreeKnows, EntriesKnown
<1>6. PICK q \in alloc : ino[q] = x /\ children[q][y] # Nil /\ ino[children[q][y]] = i
  BY <1>3, <1>5 DEF HasEntry
<1>7. children[q][y] = o
  <2>1. PICK c : c = children[q][y]
    OBVIOUS
  <2>2. q \in Obj /\ c \in alloc
    BY <1>6, <2>1, ChildType DEF TableOK
  <2>3. QED
    BY <1>1, <1>6, <2>1, <2>2, Injective
<1>8. In(T!EntryOf(y, q), parents[o])
  <2>1. q \in Obj
    BY <1>6 DEF TableOK
  <2>2. QED
    BY <1>2, <1>7, <2>1 DEF AllTrue
<1>9. QED
  BY <1>1, <1>3, <1>6, <1>8

(* The file system decides alone which directories are reached.            *)
LEMMA DirsKept ==
  ASSUME DirsKnown, fs' = fs
  PROVE  DirsKnown'
BY DEF DirsKnown, IsLinked, IsEmpty

(* The entries that a rename or a removal is about.                        *)
LEMMA ChangeParts ==
  ASSUME TableOK, FramesOK, NEW u \in Thread, fr[u].op \in Changes,
         NEW k \in 1..Len(fr[u].names)
  PROVE  fr[u].objs[k] \in alloc /\ fr[u].objs[k] \in Obj /\ fr[u].names[k] \in Name
<1>1. PICK f, l : f = fr[u] /\ l = pc[u] /\ FrameOK(alloc, l, f)
  BY DEF FramesOK
<1>2. f.op # "none"
  BY <1>1 DEF Changes
<1>3. l # "idle"
  BY <1>1, <1>2 DEF FrameOK, IdleFrame
<1>4. PICK n \in {1, 2} : n = Len(f.names) /\ n = Len(f.objs)
  <2>1. CASE f.op = "Remove"
    BY <1>1, <1>3, <2>1 DEF FrameOK, EntryOps
  <2>2. CASE f.op = "Rename"
    BY <1>1, <1>3, <2>2 DEF FrameOK
  <2>3. QED
    BY <1>1, <2>1, <2>2 DEF Changes
<1>5. k \in 1..Len(f.objs) /\ k \in 1..Len(f.names)
  BY <1>1, <1>4
<1>6. QED
  BY <1>1, <1>3, <1>5, FrameParts

LEMMA AddKnows ==
  ASSUME TableOK, FramesOK, AllTrue, WritesTrue, TreeKnows, blame = {}, TableOK',
         NEW t \in Thread, AddChild(t)
  PROVE  TreeKnows'
<1>1. PICK f, p, m, i : f = fr[t] /\ p = Dir(f) /\ m = f.names[1] /\ i = f.cino
  OBVIOUS
<1>2. pc[t] = "apply" /\ i # NoIno /\ T!Add(p, m, i) /\ Changed(t) /\ fs' = fs
  BY <1>1 DEF AddChild, Changed
<1>3. FrameOK(alloc, "apply", f)
  BY <1>1, <1>2 DEF FramesOK
<1>4. f.op \in Adders /\ f.op # "Rename" /\ i \in Ino
  BY <1>1, <1>2, <1>3 DEF FrameOK, OpsAt, Adders, Changes
<1>5. p \in alloc /\ p \in Obj /\ m \in Name
  BY <1>1, <1>2, FirstParts
<1>6. PICK c : Added(p, m, i, c)
  BY <1>2, <1>4, <1>5, AddTable
<1>7. PICK d : d = ino[p]
  OBVIOUS
<1>8. d \in DirIno /\ fs[d][m] = i /\ children[p][m] \in {Nil, c}
  <2>1. /\ pc[t] = "apply" /\ f = fr[t] /\ f.op \in Adders /\ f.cino # NoIno
        /\ Dir(f) \in alloc /\ Dir(f) \in Obj /\ f.names[1] \in Name
    BY <1>1, <1>2, <1>4, <1>5
  <2>2. /\ ino[Dir(f)] \in DirIno /\ fs[ino[Dir(f)]][f.names[1]] = f.cino
        /\ children[Dir(f)][f.names[1]] # Nil => children[Dir(f)][f.names[1]] = nodes[f.cino]
    BY <2>1, AddSame
  <2>3. nodes[i] # Nil => c = nodes[i]
    BY <1>6 DEF Added
  <2>4. children[p][m] # Nil => children[p][m] = nodes[i] /\ nodes[i] # Nil
    BY <1>1, <2>2
  <2>5. QED
    BY <1>1, <1>7, <2>2, <2>3, <2>4
<1>9. /\ c \in alloc' /\ c # Nil /\ nodes'[i] = c
      /\ \A z \in Ino : nodes'[z] = Nil => nodes[z] = Nil /\ z # i
      /\ \A z \in Ino : nodes[z] = Nil /\ z # i => nodes'[z] = Nil
  <2>1. i \in Ino
    BY <1>4
  <2>2. /\ c \in Obj /\ alloc' = alloc \cup {c} /\ ino'[c] = i
        /\ \A x \in alloc : ino'[x] = ino[x]
    BY <1>6 DEF Added
  <2>3. QED
    BY <2>1, <2>2, AddNodes
<1>10. /\ alloc' = alloc \cup {c} /\ \A x \in alloc : ino'[x] = ino[x]
       /\ ino'[c] = i /\ children'[p][m] = c
       /\ \A x \in Obj, y \in Name : ~(x = p /\ y = m) => children'[x][y] = children[x][y]
       /\ In(T!EntryOf(m, p), parents'[c])
       /\ \A o \in Obj : o # c => parents'[o] = parents[o]
  BY <1>6 DEF Added
<1>11. HasEntry(d, m)'
  <2>1. p \in alloc' /\ ino'[p] = d /\ children'[p][m] = c /\ ino'[c] = fs'[d][m]
    BY <1>2, <1>5, <1>7, <1>8, <1>10
  <2>2. QED
    BY <1>9, <2>1 DEF HasEntry
<1>12. \A u \in Thread \ {t} : pc'[u] = pc[u] /\ Kept(fr[u], fr'[u])
  <2>1. alloc \subseteq alloc'
    BY <1>10
  <2>2. QED
    BY <1>2, <2>1, ChangedFrames
<1>13. ASSUME NEW u \in Thread \ {t}
       PROVE  /\ Taking(u)'
              /\ \A x \in DirIno, y \in Name :
                   fs[x][y] # NoIno /\ Bringing(u, x, y) => Bringing(u, x, y)' \/ HasEntry(x, y)'
  <2>1. ASSUME fr[u].op \in Changes, NEW k \in 1..Len(fr[u].names)
        PROVE  children'[fr[u].objs[k]][fr[u].names[k]] = children[fr[u].objs[k]][fr[u].names[k]]
    <3>1. PICK x, y : x = fr[u].objs[k] /\ y = fr[u].names[k]
      OBVIOUS
    <3>2. x # p
      BY <1>1, <1>4, <2>1, <3>1, ApartAdder
    <3>3. x \in Obj /\ y \in Name
      BY <2>1, <3>1, ChangeParts
    <3>4. QED
      BY <1>10, <3>1, <3>2, <3>3
  <2>2. ASSUME NEW z \in Ino, nodes[z] = Nil
        PROVE  nodes'[z] = Nil \/ \E a \in alloc, b \in Name :
                 HasEntry(ino[a], b)' /\ fs[ino[a]][b] = z /\ ino[a] \in DirIno
    <3>1. CASE z = i
      <4>1. HasEntry(ino[p], m)'
        BY <1>5, <1>7, <1>10, <1>11
      <4>2. QED
        BY <1>5, <1>7, <1>8, <3>1, <4>1
    <3>2. CASE z # i
      BY <1>9, <2>2, <3>2
    <3>3. QED
      BY <3>1, <3>2
  <2>3. pc'[u] = pc[u] /\ Kept(fr[u], fr'[u])
    BY <1>12
  <2>4. QED
    BY <1>2, <1>10, <2>1, <2>2, <2>3, OthersKnow
<1>14. DirsKnown'
  BY <1>2, DirsKept DEF TreeKnows
<1>15. EntriesKnown'
  <2> SUFFICES ASSUME NEW x \in DirIno, NEW y \in Name, fs[x][y] # NoIno
               PROVE  /\ HasEntry(x, y)' \/ \E u \in Thread : Bringing(u, x, y)'
                      /\ nodes'[fs[x][y]] = Nil =>
                           \A e \in DirIno, n \in Name : fs[e][n] = fs[x][y] => e = x /\ n = y
    BY <1>2 DEF EntriesKnown
  <2>1. /\ HasEntry(x, y) \/ \E u \in Thread : Bringing(u, x, y)
        /\ nodes[fs[x][y]] = Nil =>
             \A e \in DirIno, n \in Name : fs[e][n] = fs[x][y] => e = x /\ n = y
    BY DEF TreeKnows, EntriesKnown
  <2>2. nodes'[fs[x][y]] = Nil => nodes[fs[x][y]] = Nil
    <3>1. fs[x][y] \in Ino
      BY DEF TableOK
    <3>2. QED
      BY <1>9, <3>1
  <2>3. CASE x = d /\ y = m
    BY <1>11, <2>1, <2>2, <2>3
  <2>4. CASE ~(x = d /\ y = m)
    <3>1. ASSUME HasEntry(x, y) PROVE HasEntry(x, y)'
      <4>1. ASSUME NEW a \in alloc, ino[a] = x PROVE children'[a][y] = children[a][y]
        <5>1. a \in Obj /\ ~(a = p /\ y = m)
          BY <1>7, <2>4, <4>1 DEF TableOK
        <5>2. QED
          BY <1>10, <5>1
      <4>2. QED
        BY <1>2, <1>10, <3>1, <4>1, HasKept
    <3>2. ASSUME NEW u \in Thread, Bringing(u, x, y)
          PROVE  HasEntry(x, y)' \/ Bringing(u, x, y)'
      <4>1. CASE u = t
        <5>1. x = d /\ y = m
          BY <1>1, <1>4, <1>7, <3>2, <4>1 DEF Bringing
        <5>2. QED
          BY <2>4, <5>1
      <4>2. CASE u # t
        BY <1>13, <3>2, <4>2
      <4>3. QED
        BY <4>1, <4>2
    <3>3. QED
      BY <2>1, <2>2, <3>1, <3>2
  <2>5. QED
    BY <2>3, <2>4
<1>16. ParentsKnown'
  <2> SUFFICES ASSUME NEW o \in alloc' \ {RootObj}, IsLinked(ino[o])'
               PROVE  parents'[o] # NoParents
    BY DEF ParentsKnown
  <2>1. o \in Obj /\ parents'[o] \in Seq([name : Name, node : alloc'])
    BY DEF TableOK
  <2>2. CASE o = c
    BY <1>10, <2>1, <2>2, ParentThere
  <2>3. CASE o # c
    <3>1. o \in alloc \ {RootObj} /\ ino'[o] = ino[o] /\ parents'[o] = parents[o]
      BY <1>10, <2>1, <2>3
    <3>2. PICK x : x = ino[o] /\ x = ino'[o]
      BY <3>1
    <3>3. IsLinked(x)'
      BY <3>2
    <3>4. IsLinked(x)
      BY <1>2, <3>3 DEF IsLinked
    <3>5. QED
      BY <3>1, <3>2, <3>4 DEF TreeKnows, ParentsKnown
  <2>4. QED
    BY <2>2, <2>3
<1>17. ASSUME NEW u \in Thread PROVE Taking(u)'
  BY <1>2, <1>13, ChangedOwn
<1>18. QED
  BY <1>14, <1>15, <1>16, <1>17 DEF TreeKnows

(* What a removal or a rename in the tree leaves known.                    *)
LEMMA RmKnows ==
  ASSUME TableOK, FramesOK, AllTrue, RootKnown, TreeKnows, blame = {}, TableOK',
         NEW t \in Thread, RmChild(t)
  PROVE  TreeKnows'
<1>1. PICK f, p, m, d, en : /\ f = fr[t] /\ p = Dir(f) /\ m = f.names[1] /\ d = ino[p]
                            /\ en = T!EntryOf(m, p)
  OBVIOUS
<1>2. /\ pc[t] = "apply" /\ f.cino = NoIno /\ f.op # "Rename" /\ Changed(t) /\ fs' = fs
      /\ T!Remove(p, m) \/ (children[p][m] = Nil /\ UNCHANGED treeVars)
  BY <1>1 DEF RmChild, Changed
<1>3. /\ f.op \in {"Lookup", "Revalidate", "Remove"}
      /\ NextIn(fs, ino[f.objs[1]], f.names[1]) = NoIno
  BY <1>1, <1>2 DEF TreeKnows, Taking, Changes
<1>4. p \in alloc /\ p \in Obj /\ m \in Name /\ p = f.objs[1] /\ 1 \in 1..Len(f.names)
  <2>1. /\ Dir(f) \in alloc /\ Dir(f) \in Obj /\ f.names[1] \in Name /\ Dir(f) = f.objs[1]
        /\ 1..Len(f.names) = {1}
    BY <1>1, <1>2, <1>3, FirstParts DEF EntryOps
  <2>2. QED
    BY <1>1, <2>1
<1>5. d \in DirIno => fs[d][m] = NoIno
  BY <1>1, <1>3, <1>4 DEF NextIn
<1>6. /\ nodes' = nodes /\ alloc' = alloc /\ ino' = ino
  BY <1>2 DEF T!Remove, treeVars
<1>7. /\ children'[p][m] = Nil
      /\ \A x \in Obj, y \in Name : ~(x = p /\ y = m) => children'[x][y] = children[x][y]
      /\ \A o \in Obj : \A e : In(e, parents'[o]) <=> In(e, parents[o]) /\ e # en
  <2>1. T!Remove(p, m) \/ (children[p][m] = Nil /\ UNCHANGED treeVars)
    BY <1>2
  <2>2. Dropped(p, m)
    BY <1>2, <1>4, <2>1, RemoveDrops
  <2>3. QED
    BY <1>1, <2>2 DEF Dropped
<1>8. \A u \in Thread \ {t} : pc'[u] = pc[u] /\ Kept(fr[u], fr'[u])
  BY <1>2, <1>6, ChangedFrames
<1>9. ASSUME NEW u \in Thread \ {t}, fr[u].op \in Changes, NEW k \in 1..Len(fr[u].names)
      PROVE  fr[u].objs[k] # p
  <2>1. CASE f.op \in {"Lookup", "Revalidate"}
    <3>1. fr[t].op \in Adders
      BY <1>1, <2>1 DEF Adders
    <3>2. fr[u].objs[k] # Dir(fr[t])
      BY <1>9, <3>1, ApartAdder
    <3>3. QED
      BY <1>1, <3>2
  <2>2. CASE f.op = "Remove"
    <3>1. fr[t].op \in Changes /\ 1 \in 1..Len(fr[t].names)
      BY <1>1, <1>4, <2>2 DEF Changes
    <3>2. \E j \in 1..Len(fr[t].names) : j = 1
      BY <3>1
    <3>3. fr[u].objs[k] # fr[t].objs[1]
      BY <1>9, <3>1, <3>2, ApartChange
    <3>4. QED
      BY <1>1, <1>4, <3>3
  <2>3. QED
    BY <1>3, <2>1, <2>2
<1>10. ASSUME NEW u \in Thread \ {t}
       PROVE  /\ Taking(u)'
              /\ \A x \in DirIno, y \in Name :
                   fs[x][y] # NoIno /\ Bringing(u, x, y) => Bringing(u, x, y)' \/ HasEntry(x, y)'
  <2>1. ASSUME fr[u].op \in Changes, NEW k \in 1..Len(fr[u].names)
        PROVE  children'[fr[u].objs[k]][fr[u].names[k]] = children[fr[u].objs[k]][fr[u].names[k]]
    <3>1. PICK x, y : x = fr[u].objs[k] /\ y = fr[u].names[k]
      OBVIOUS
    <3>2. x # p
      BY <1>9, <2>1, <3>1
    <3>3. x \in Obj /\ y \in Name
      BY <2>1, <3>1, ChangeParts
    <3>4. QED
      BY <1>7, <3>1, <3>2, <3>3
  <2>2. \A z \in Ino : nodes[z] = Nil =>
          nodes'[z] = Nil \/ \E a \in alloc, b \in Name :
            HasEntry(ino[a], b)' /\ fs[ino[a]][b] = z /\ ino[a] \in DirIno
    BY <1>6
  <2>3. pc'[u] = pc[u] /\ Kept(fr[u], fr'[u]) /\ \A x \in alloc : ino'[x] = ino[x]
    BY <1>6, <1>8
  <2>4. QED
    BY <1>2, <2>1, <2>2, <2>3, OthersKnow
<1>11. DirsKnown'
  BY <1>2, DirsKept DEF TreeKnows
<1>12. ASSUME NEW x \in DirIno, NEW y \in Name, ~(x = d /\ y = m), HasEntry(x, y)
       PROVE  HasEntry(x, y)'
  <2>1. ASSUME NEW a \in alloc, ino[a] = x PROVE children'[a][y] = children[a][y]
    <3>1. a \in Obj /\ ~(a = p /\ y = m)
      BY <1>1, <1>12, <2>1 DEF TableOK
    <3>2. QED
      BY <1>7, <3>1
  <2>2. alloc \subseteq alloc' /\ \A a \in alloc : ino'[a] = ino[a]
    BY <1>6
  <2>3. QED
    BY <1>2, <1>12, <2>1, <2>2, HasKept
<1>13. EntriesKnown'
  <2> SUFFICES ASSUME NEW x \in DirIno, NEW y \in Name, fs[x][y] # NoIno
               PROVE  /\ HasEntry(x, y)' \/ \E u \in Thread : Bringing(u, x, y)'
                      /\ nodes[fs[x][y]] = Nil =>
                           \A e \in DirIno, n \in Name : fs[e][n] = fs[x][y] => e = x /\ n = y
    BY <1>2, <1>6 DEF EntriesKnown
  <2>1. /\ HasEntry(x, y) \/ \E u \in Thread : Bringing(u, x, y)
        /\ nodes[fs[x][y]] = Nil =>
             \A e \in DirIno, n \in Name : fs[e][n] = fs[x][y] => e = x /\ n = y
    BY DEF TreeKnows, EntriesKnown
  <2>2. ~(x = d /\ y = m)
    BY <1>5
  <2>3. ASSUME NEW u \in Thread, Bringing(u, x, y)
        PROVE  HasEntry(x, y)' \/ Bringing(u, x, y)'
    <3>1. u # t
      BY <1>1, <1>3, <2>3 DEF Bringing
    <3>2. QED
      BY <1>10, <2>3, <3>1
  <2>4. QED
    BY <1>12, <2>1, <2>2, <2>3
<1>14. ParentsKnown'
  <2> SUFFICES ASSUME NEW o \in alloc \ {RootObj}, IsLinked(ino[o])'
               PROVE  parents'[o] # NoParents
    BY <1>6 DEF ParentsKnown
  <2>1. /\ o \in Obj /\ parents'[o] \in Seq([name : Name, node : alloc'])
        /\ parents[o] \in Seq([name : Name, node : alloc])
    BY DEF TableOK
  <2>2. PICK x : x = ino[o] /\ x \in Ino /\ x # NoIno
    BY <2>1, Numbers DEF TableOK
  <2>3. IsLinked(x)
    <3>1. IsLinked(x)'
      BY <1>6, <2>2
    <3>2. QED
      BY <1>2, <3>1 DEF IsLinked
  <2>4. PICK e : In(e, parents[o])
    <3>1. parents[o] # NoParents
      BY <2>2, <2>3 DEF TreeKnows, ParentsKnown
    <3>2. QED
      BY <2>1, <3>1, ParentThere
  <2>5. CASE e # en
    <3>1. In(e, parents'[o])
      BY <1>7, <2>1, <2>4, <2>5
    <3>2. QED
      BY <2>1, <3>1, ParentThere
  <2>6. CASE e = en
    <3>1. InTrue(en, o) /\ en.node = p /\ en.name = m
      BY <1>1, <2>1, <2>4, <2>6, EntryParts DEF AllTrue
    <3>2. children[p][m] = o /\ d \in DirIno
      BY <1>1, <3>1 DEF InTrue
    <3>3. fs[d][m] # ino[o]
      BY <1>5, <2>2, <3>2
    <3>4. PICK u \in Thread : Undoing(u, en)
      BY <1>1, <3>1, <3>3 DEF InTrue
    <3>5. u = t
      <4>1. fr[u].op \in Changes /\ \E k \in 1..Len(fr[u].names) : fr[u].objs[k] = p
        BY <3>1, <3>4 DEF Undoing
      <4>2. QED
        BY <1>9, <4>1
    <3>6. f.op = "Remove" /\ f.op \in Changes
      BY <1>1, <1>3, <3>4, <3>5 DEF Undoing, Changes
    <3>7. o \in f.locks
      <4>1. children[f.objs[1]][f.names[1]] \in f.locks \cup {Nil}
        BY <1>1, <1>4, <3>6 DEF TreeKnows, Taking
      <4>2. o # Nil
        BY <2>1, Numbers
      <4>3. QED
        BY <1>1, <1>4, <3>2, <4>1, <4>2
    <3>8. \A a \in DirIno, b \in Name : fs[a][b] = ino[o] => ~Bringing(t, a, b)
      BY <1>1, <3>6 DEF Bringing
    <3>9. PICK q \in alloc, y \in Name : /\ In(T!EntryOf(y, q), parents[o]) /\ ino[q] \in DirIno
                                         /\ fs[ino[q]][y] = ino[o]
      <4>1. o \in alloc /\ o # RootObj /\ o \in fr[t].locks /\ IsLinked(ino[o])
        BY <1>1, <2>2, <2>3, <3>7
      <4>2. QED
        BY <3>8, <4>1, OtherParent
    <3>10. T!EntryOf(y, q) # en
      <4>1. ~(q = p /\ y = m)
        BY <1>1, <3>3, <3>9
      <4>2. QED
        BY <1>1, <4>1, EntryParts
    <3>11. In(T!EntryOf(y, q), parents'[o])
      BY <1>7, <2>1, <3>9, <3>10
    <3>12. QED
      BY <2>1, <3>11, ParentThere
  <2>7. QED
    BY <2>5, <2>6
<1>15. ASSUME NEW u \in Thread PROVE Taking(u)'
  BY <1>2, <1>10, ChangedOwn
<1>16. QED
  BY <1>11, <1>13, <1>14, <1>15 DEF TreeKnows

LEMMA MvKnows ==
  ASSUME TableOK, FramesOK, AllTrue, WritesTrue, RootKnown, TreeKnows, blame = {},
         TableOK', NEW t \in Thread, MvChild(t)
  PROVE  TreeKnows'
<1>1. PICK f, p, q, m, k : /\ f = fr[t] /\ p = f.objs[1] /\ q = f.objs[2]
                           /\ m = f.names[1] /\ k = f.names[2]
  OBVIOUS
<1>2. PICK c, d, e1, e2 : /\ c = children[p][m] /\ d = children[q][k]
                          /\ e1 = T!EntryOf(m, p) /\ e2 = T!EntryOf(k, q)
  OBVIOUS
<1>3. /\ pc[t] = "apply" /\ f.op = "Rename" /\ Changed(t) /\ fs' = fs /\ T!Move(p, m, q, k)
      /\ f.op \in Changes
  BY <1>1 DEF MvChild, Changed, Changes
<1>4. /\ p \in alloc /\ q \in alloc /\ p \in Obj /\ q \in Obj /\ m \in Name /\ k \in Name
      /\ 1..Len(f.names) = {1, 2}
  BY <1>1, <1>3, FirstParts
<1>5. f.cino = NoIno
  BY <1>1, <1>3 DEF FramesOK, FrameOK
<1>6. NextIn(fs, ino[p], m) = NoIno /\ c # Nil
  BY <1>1, <1>2, <1>3, <1>5 DEF TreeKnows, Taking
<1>7. /\ ino[q] \in DirIno /\ ~(p = q /\ m = k) /\ fs[ino[q]][k] = ino[c]
  BY <1>1, <1>2, <1>3, <1>6 DEF WritesTrue, Writing
<1>8. c \in alloc /\ c \in Obj /\ (d # Nil => d \in alloc /\ d \in Obj)
  BY <1>2, <1>4, <1>6, ChildType
<1>9. /\ nodes' = nodes /\ alloc' = alloc /\ ino' = ino
  BY <1>3 DEF T!Move
<1>10. Relinked(p, m, q, k, c, d)
  BY <1>2, <1>3, <1>4, MoveTable
<1>11. /\ children'[q][k] = c /\ children'[p][m] = Nil
       /\ \A x \in Obj, y \in Name :
            ~(x = p /\ y = m) /\ ~(x = q /\ y = k) => children'[x][y] = children[x][y]
       /\ In(e2, parents'[c])
       /\ d \in Obj /\ d # c => \A e : In(e, parents'[d]) <=> In(e, parents[d]) /\ e # e2
       /\ \A o \in Obj : o # c /\ o # d => parents'[o] = parents[o]
  BY <1>2, <1>7, <1>8, <1>10 DEF Relinked
<1>12. \A u \in Thread \ {t} : pc'[u] = pc[u] /\ Kept(fr[u], fr'[u])
  BY <1>3, <1>9, ChangedFrames
<1>13. ASSUME NEW u \in Thread \ {t}, fr[u].op \in Changes, NEW j \in 1..Len(fr[u].names)
       PROVE  fr[u].objs[j] # p /\ fr[u].objs[j] # q
  <2>1. fr[t].op \in Changes /\ 1 \in 1..Len(fr[t].names) /\ 2 \in 1..Len(fr[t].names)
    BY <1>1, <1>3, <1>4
  <2>2. (\E h \in 1..Len(fr[t].names) : h = 1) /\ (\E h \in 1..Len(fr[t].names) : h = 2)
    BY <2>1
  <2>3. fr[u].objs[j] # fr[t].objs[1]
    BY <1>13, <2>1, <2>2, ApartChange
  <2>4. fr[u].objs[j] # fr[t].objs[2]
    BY <1>13, <2>1, <2>2, ApartChange
  <2>5. QED
    BY <1>1, <2>3, <2>4
<1>14. ASSUME NEW u \in Thread \ {t}
       PROVE  /\ Taking(u)'
              /\ \A x \in DirIno, y \in Name :
                   fs[x][y] # NoIno /\ Bringing(u, x, y) => Bringing(u, x, y)' \/ HasEntry(x, y)'
  <2>1. ASSUME fr[u].op \in Changes, NEW j \in 1..Len(fr[u].names)
        PROVE  children'[fr[u].objs[j]][fr[u].names[j]] = children[fr[u].objs[j]][fr[u].names[j]]
    <3>1. PICK x, y : x = fr[u].objs[j] /\ y = fr[u].names[j]
      OBVIOUS
    <3>2. x # p /\ x # q
      BY <1>13, <2>1, <3>1
    <3>3. x \in Obj /\ y \in Name
      <4>1. u \in Thread
        OBVIOUS
      <4>2. fr[u].objs[j] \in Obj /\ fr[u].names[j] \in Name
        BY <2>1, <4>1, ChangeParts
      <4>3. QED
        BY <3>1, <4>2
    <3>4. QED
      BY <1>11, <3>1, <3>2, <3>3
  <2>2. \A z \in Ino : nodes[z] = Nil =>
          nodes'[z] = Nil \/ \E a \in alloc, b \in Name :
            HasEntry(ino[a], b)' /\ fs[ino[a]][b] = z /\ ino[a] \in DirIno
    BY <1>9
  <2>3. pc'[u] = pc[u] /\ Kept(fr[u], fr'[u]) /\ \A x \in alloc : ino'[x] = ino[x]
    BY <1>9, <1>12
  <2>4. pc'[u] = pc[u]
    BY <2>3
  <2>5. Kept(fr[u], fr'[u])
    BY <2>3
  <2>6. \A x \in alloc : ino'[x] = ino[x]
    BY <2>3
  <2>7. fs' = fs /\ TreeKnows /\ u \in Thread
    BY <1>3
  <2>8. fr[u].op \in Changes => \A j \in 1..Len(fr[u].names) :
          children'[fr[u].objs[j]][fr[u].names[j]] = children[fr[u].objs[j]][fr[u].names[j]]
    BY <2>1
  <2>9. QED
    BY <2>2, <2>4, <2>5, <2>6, <2>7, <2>8, OthersKnow
<1>15. DirsKnown'
  BY <1>3, DirsKept DEF TreeKnows
<1>16. EntriesKnown'
  <2> SUFFICES ASSUME NEW x \in DirIno, NEW y \in Name, fs[x][y] # NoIno
               PROVE  /\ HasEntry(x, y)' \/ \E u \in Thread : Bringing(u, x, y)'
                      /\ nodes[fs[x][y]] = Nil =>
                           \A e \in DirIno, n \in Name : fs[e][n] = fs[x][y] => e = x /\ n = y
    BY <1>3, <1>9 DEF EntriesKnown
  <2>1. /\ HasEntry(x, y) \/ \E u \in Thread : Bringing(u, x, y)
        /\ nodes[fs[x][y]] = Nil =>
             \A e \in DirIno, n \in Name : fs[e][n] = fs[x][y] => e = x /\ n = y
    BY DEF TreeKnows, EntriesKnown
  <2>2. CASE x = ino[q] /\ y = k
    <3>1. q \in alloc' /\ ino'[q] = x /\ children'[q][y] = c /\ ino'[c] = fs'[x][y]
      BY <1>3, <1>4, <1>7, <1>9, <1>11, <2>2
    <3>2. HasEntry(x, y)'
      BY <1>6, <3>1 DEF HasEntry
    <3>3. QED
      BY <2>1, <3>2
  <2>3. CASE ~(x = ino[q] /\ y = k)
    <3>1. ~(x = ino[p] /\ y = m)
      BY <1>6 DEF NextIn
    <3>2. ASSUME HasEntry(x, y) PROVE HasEntry(x, y)'
      <4>1. ASSUME NEW a \in alloc, ino[a] = x PROVE children'[a][y] = children[a][y]
        <5>1. a \in Obj /\ ~(a = p /\ y = m) /\ ~(a = q /\ y = k)
          BY <2>3, <3>1, <4>1 DEF TableOK
        <5>2. QED
          BY <1>11, <5>1
      <4>2. alloc \subseteq alloc' /\ \A a \in alloc : ino'[a] = ino[a]
        BY <1>9
      <4>3. QED
        BY <1>3, <3>2, <4>1, <4>2, HasKept
    <3>3. ASSUME NEW u \in Thread, Bringing(u, x, y)
          PROVE  HasEntry(x, y)' \/ Bringing(u, x, y)'
      <4>1. CASE u = t
        <5>1. x = ino[q] /\ y = k
          BY <1>1, <1>3, <3>3, <4>1 DEF Bringing
        <5>2. QED
          BY <2>3, <5>1
      <4>2. CASE u # t
        BY <1>14, <3>3, <4>2
      <4>3. QED
        BY <4>1, <4>2
    <3>4. QED
      BY <2>1, <3>2, <3>3
  <2>4. QED
    BY <2>2, <2>3
<1>17. ParentsKnown'
  <2> SUFFICES ASSUME NEW o \in alloc \ {RootObj}, IsLinked(ino[o])'
               PROVE  parents'[o] # NoParents
    BY <1>9 DEF ParentsKnown
  <2>1. o \in Obj /\ parents'[o] \in Seq([name : Name, node : alloc'])
    BY DEF TableOK
  <2>2. PICK x : x = ino[o] /\ x \in Ino
    BY <2>1 DEF TableOK
  <2>3. IsLinked(x)
    <3>1. IsLinked(x)'
      BY <1>9, <2>2
    <3>2. QED
      BY <1>3, <3>1 DEF IsLinked
  <2>4. CASE o = c
    <3>1. In(e2, parents'[o])
      BY <1>11, <2>4
    <3>2. QED
      BY <2>1, <3>1, ParentThere
  <2>5. CASE o # c /\ o # d
    <3>1. parents'[o] = parents[o]
      BY <1>11, <2>1, <2>5
    <3>2. QED
      BY <2>2, <2>3, <3>1 DEF TreeKnows, ParentsKnown
  <2>6. CASE o # c /\ o = d
    <3>1. ino[c] # ino[o]
      BY <1>8, <2>6, Injective
    <3>2. o \in f.locks
      <4>1. children[f.objs[2]][f.names[2]] \in f.locks \cup {Nil}
        BY <1>1, <1>3, <1>4 DEF TreeKnows, Taking
      <4>2. o # Nil
        BY <2>1, Numbers
      <4>3. QED
        BY <1>1, <1>2, <2>6, <4>1, <4>2
    <3>3. \A a \in DirIno, b \in Name : fs[a][b] = ino[o] => ~Bringing(t, a, b)
      BY <1>1, <1>2, <1>3, <3>1 DEF Bringing
    <3>4. PICK r \in alloc, y \in Name : /\ In(T!EntryOf(y, r), parents[o]) /\ ino[r] \in DirIno
                                         /\ fs[ino[r]][y] = ino[o]
      <4>1. o \in alloc /\ o # RootObj /\ o \in fr[t].locks /\ IsLinked(ino[o])
        BY <1>1, <2>2, <2>3, <3>2
      <4>2. QED
        BY <3>3, <4>1, OtherParent
    <3>5. T!EntryOf(y, r) # e2
      <4>1. ~(r = q /\ y = k)
        BY <1>7, <3>1, <3>4
      <4>2. QED
        BY <1>2, <4>1, EntryParts
    <3>6. In(T!EntryOf(y, r), parents'[o])
      BY <1>11, <2>1, <2>6, <3>4, <3>5
    <3>7. QED
      BY <2>1, <3>6, ParentThere
  <2>7. QED
    BY <2>4, <2>5, <2>6
<1>18. ASSUME NEW u \in Thread PROVE Taking(u)'
  BY <1>3, <1>14, ChangedOwn
<1>19. QED
  BY <1>15, <1>16, <1>17, <1>18 DEF TreeKnows

-----------------------------------------------------------------------------
(* What the tree knows, step by step.                                      *)

(* The kernel sends a request: the frame it starts with, and what the      *)
(* others note.                                                            *)
SentFrame(l, g) ==
  \/ l = "walk" /\ g.paths = <<>> /\ g.segs = <<>> /\ g.at = g.objs[1]
  \/ /\ l = "list" /\ g.op = "ReadPlus" /\ handle # NoHandle
     /\ g.paths = <<handle.path>> /\ g.objs = <<handle.node>>
     /\ g.calm => handle.calm
SentLocks(g) ==
  /\ g.op \in Changes => \A k \in 1..Len(g.names) :
       children[g.objs[k]][g.names[k]] \in g.locks \cup {Nil}
  /\ g.op = "Link" => g.objs[1] \in g.locks
Sent(t, l, g) ==
  /\ pc[t] = "idle" /\ pc'[t] = l /\ fr'[t] = g /\ SentFrame(l, g) /\ SentLocks(g)
  /\ \A k \in 1..Len(g.objs) : g.objs[k] \in alloc
  /\ g.calm => \A u \in Thread \ {t} : fr[u].op \notin Changes
  /\ \A u \in Thread \ {t} :
       fr'[u] = [fr[u] EXCEPT !.calm = @ /\ (g.op \in Changes => pc[u] = "idle")]
  /\ handle' = [handle EXCEPT !.calm = @ /\ (g.op \in Changes => handle = NoHandle)]

LEMMA SendSent ==
  ASSUME FramesOK, NEW t \in Thread, NEW l, NEW f, Send(t, l, f), DOMAIN f = Fields,
         SentFrame(l, f), SentLocks(f)
  PROVE  \E g : Sent(t, l, g)
<1>1. PICK g : g = fr'[t]
  OBVIOUS
<1>2. g = [f EXCEPT !.calm = @ /\ \A u \in Thread \ {t} : fr[u].op \notin Changes]
  BY <1>1 DEF Send
<1>3. PICK b : b = (\A u \in Thread \ {t} : fr[u].op \notin Changes)
  OBVIOUS
<1>4. g = [f EXCEPT !.calm = f.calm /\ b]
  BY <1>2, <1>3
<1>5. /\ g.op = f.op /\ g.objs = f.objs /\ g.names = f.names /\ g.locks = f.locks
      /\ g.paths = f.paths /\ g.segs = f.segs /\ g.at = f.at
      /\ g.calm = (f.calm /\ b)
  BY <1>4 DEF Fields
<1>6. (g.calm => f.calm) /\ (g.calm => \A u \in Thread \ {t} : fr[u].op \notin Changes)
  BY <1>3, <1>5
<1>7. SentFrame(l, g) /\ SentLocks(g)
  BY <1>5, <1>6 DEF SentFrame, SentLocks
<1>8. /\ pc[t] = "idle" /\ pc'[t] = l
      /\ \A k \in 1..Len(g.objs) : g.objs[k] \in alloc
  BY <1>5 DEF Send, FramesOK
<1>9. ASSUME NEW u \in Thread \ {t}
      PROVE  fr'[u] = [fr[u] EXCEPT !.calm = @ /\ (g.op \in Changes => pc[u] = "idle")]
  BY <1>5 DEF Send
<1>10. handle' = [handle EXCEPT !.calm = @ /\ (g.op \in Changes => handle = NoHandle)]
  BY <1>5 DEF Send
<1>11. QED
  BY <1>1, <1>6, <1>7, <1>8, <1>9, <1>10 DEF Sent

LEMMA AskSent ==
  ASSUME FramesOK, NEW t \in Thread, NEW k, NEW objs, NEW names, Ask(t, k, objs, names),
         k = "Remove" => Len(names) = 1, k = "Rename" => Len(names) = 2
  PROVE  \E g : Sent(t, "walk", g)
<1>1. PICK L : L = LocksOf(k, objs, names)
  OBVIOUS
<1>2. PICK h : h = [IdleFrame EXCEPT !.op = k, !.objs = objs, !.names = names, !.locks = L]
  OBVIOUS
<1>3. PICK x : x = {PathIn(parents, Target(h))}
  OBVIOUS
<1>4. PICK g : g = [h EXCEPT !.at = Target(h), !.seen = x]
  OBVIOUS
<1>5. Send(t, "walk", g)
  BY <1>1, <1>2, <1>3, <1>4 DEF Ask, Begin
<1>6. /\ DOMAIN h = Fields /\ h.op = k /\ h.objs = objs /\ h.names = names /\ h.locks = L
      /\ h.paths = <<>> /\ h.segs = <<>>
  BY <1>2, FrameDomain DEF IdleFrame, Fields
<1>7. Target(h) = objs[1]
  BY <1>6 DEF Target
<1>8. /\ DOMAIN g = Fields /\ g.op = k /\ g.objs = objs /\ g.names = names /\ g.locks = L
      /\ g.paths = <<>> /\ g.segs = <<>> /\ g.at = objs[1]
  BY <1>4, <1>6, <1>7 DEF Fields
<1>9. SentFrame("walk", g)
  BY <1>8 DEF SentFrame
<1>10. ASSUME k \in Changes, NEW j \in 1..Len(names)
       PROVE  children[objs[j]][names[j]] \in L \cup {Nil}
  <2>1. CASE k = "Remove"
    <3>1. j = 1
      <4>1. Len(names) = 1 /\ 1..1 = {1}
        BY <2>1
      <4>2. QED
        BY <1>10, <4>1
    <3>2. L = {objs[1], Child(objs[1], names[1])} \ {Nil}
      BY <1>1, <2>1 DEF LocksOf
    <3>3. QED
      BY <3>1, <3>2 DEF Child
  <2>2. CASE k = "Rename"
    <3>1. j \in 1..2
      BY <1>10, <2>2
    <3>2. L = (UNION {{objs[i], Child(objs[i], names[i])} : i \in 1..2}) \ {Nil}
      BY <1>1, <2>2 DEF LocksOf
    <3>3. PICK s : s = {objs[j], Child(objs[j], names[j])}
      OBVIOUS
    <3>4. s \in {{objs[i], Child(objs[i], names[i])} : i \in 1..2}
      BY <3>1, <3>3
    <3>5. Child(objs[j], names[j]) \in s
      BY <3>3
    <3>6. Child(objs[j], names[j]) \in L \cup {Nil}
      BY <3>2, <3>4, <3>5
    <3>7. QED
      BY <3>6 DEF Child
  <2>3. QED
    BY <1>10, <2>1, <2>2 DEF Changes
<1>11. k = "Link" => objs[1] \in L
  BY <1>1 DEF LocksOf
<1>12. SentLocks(g)
  BY <1>8, <1>10, <1>11 DEF SentLocks
<1>13. QED
  BY <1>5, <1>8, <1>9, <1>12, SendSent

LEMMA KernelSent ==
  ASSUME FramesOK, NEW t \in Thread, Kernel(t)
  PROVE  \E l \in {"walk", "list"} : \E g : Sent(t, l, g)
<1>1. ASSUME NEW k, NEW objs, NEW names, Ask(t, k, objs, names),
             k = "Remove" => Len(names) = 1, k = "Rename" => Len(names) = 2
      PROVE  \E l \in {"walk", "list"} : \E g : Sent(t, l, g)
  BY <1>1, AskSent
<1>2. CASE SendEntry(t)
  <2>1. PICK k \in EntryOps, e \in Entries : Ask(t, k, <<e[1]>>, <<e[2]>>)
    BY <1>2 DEF SendEntry
  <2>2. PICK objs, names : objs = <<e[1]>> /\ names = <<e[2]>>
    OBVIOUS
  <2>3. Len(names) = 1 /\ k # "Rename" /\ Ask(t, k, objs, names)
    BY <2>1, <2>2 DEF EntryOps
  <2>4. QED
    BY <1>1, <2>3
<1>3. CASE SendRename(t)
  <2>1. PICK mv \in Moves : Ask(t, "Rename", <<mv[1], mv[3]>>, <<mv[2], mv[4]>>)
    BY <1>3 DEF SendRename
  <2>2. PICK objs, names : objs = <<mv[1], mv[3]>> /\ names = <<mv[2], mv[4]>>
    OBVIOUS
  <2>3. Len(names) = 2 /\ Ask(t, "Rename", objs, names)
    BY <2>1, <2>2
  <2>4. QED
    BY <1>1, <2>3
<1>4. CASE SendLink(t) \/ SendUse(t) \/ SendOpenDir(t)
  <2>1. CASE SendLink(t)
    <3>1. PICK v \in Links : Ask(t, "Link", <<v[1], v[2]>>, <<v[3]>>)
      BY <2>1 DEF SendLink
    <3>2. QED
      BY <1>1, <3>1
  <2>2. CASE SendUse(t)
    <3>1. PICK i \in Used : Ask(t, "Use", <<i>>, <<>>)
      BY <2>2 DEF SendUse
    <3>2. QED
      BY <1>1, <3>1
  <2>3. CASE SendOpenDir(t)
    <3>1. PICK i \in Listed : Ask(t, "OpenDir", <<i>>, <<>>)
      BY <2>3 DEF SendOpenDir
    <3>2. QED
      BY <1>1, <3>1
  <2>4. QED
    BY <1>4, <2>1, <2>2, <2>3
<1>5. CASE SendReadPlus(t)
  <2>1. PICK a, p, x : a = handle.node /\ p = handle.path /\ x = handle.calm
    OBVIOUS
  <2>2. PICK f : f = [IdleFrame EXCEPT !.op = "ReadPlus", !.objs = <<a>>]
    OBVIOUS
  <2>3. /\ DOMAIN f = Fields /\ f.op = "ReadPlus" /\ f.objs = <<a>>
        /\ f.paths = <<>> /\ f.segs = <<>>
    BY <2>2, FrameDomain DEF IdleFrame, Fields
  <2>4. CASE handle.path = <<>>
    <3>1. PICK g : g = [f EXCEPT !.at = Target(f), !.seen = {PathIn(parents, Target(f))}]
      OBVIOUS
    <3>2. Send(t, "walk", g)
      BY <1>5, <2>1, <2>2, <2>4, <3>1 DEF SendReadPlus, Begin
    <3>3. Target(f) = a
      BY <2>3 DEF Target
    <3>4. /\ DOMAIN g = Fields /\ g.op = "ReadPlus" /\ g.objs = <<a>> /\ g.at = g.objs[1]
          /\ g.paths = <<>> /\ g.segs = <<>>
      BY <2>3, <3>1, <3>3 DEF Fields
    <3>5. SentFrame("walk", g) /\ SentLocks(g)
      BY <3>4 DEF SentFrame, SentLocks, Changes
    <3>6. QED
      BY <3>2, <3>4, <3>5, SendSent
  <2>5. CASE handle.path # <<>>
    <3>1. PICK g : g = [f EXCEPT !.paths = <<p>>, !.calm = x]
      OBVIOUS
    <3>2. Send(t, "list", g) /\ handle # NoHandle
      BY <1>5, <2>1, <2>2, <2>5, <3>1 DEF SendReadPlus
    <3>3. /\ DOMAIN g = Fields /\ g.op = "ReadPlus" /\ g.objs = <<a>>
          /\ g.paths = <<p>> /\ g.calm = x
      BY <2>3, <3>1 DEF Fields
    <3>4. SentFrame("list", g) /\ SentLocks(g)
      BY <2>1, <3>2, <3>3 DEF SentFrame, SentLocks, Changes
    <3>5. QED
      BY <3>2, <3>3, <3>4, SendSent
  <2>6. QED
    BY <2>4, <2>5
<1>6. QED
  BY <1>2, <1>3, <1>4, <1>5 DEF Kernel

LEMMA KernelKnows ==
  ASSUME TableOK, FramesOK, TreeKnows, NEW t \in Thread, Kernel(t)
  PROVE  TreeKnows'
<1>1. PICK l, f : l \in {"walk", "list"} /\ Send(t, l, f)
  BY KernelFrames
<1>2. PICK k, g : k \in {"walk", "list"} /\ Sent(t, k, g)
  BY KernelSent
<1>3. UNCHANGED <<treeVars, fs>>
  BY <1>1 DEF Send
<1>4. \A u \in Thread \ {t} : pc'[u] = pc[u] /\ Kept(fr[u], fr'[u])
  BY <1>1, SendOthers
<1>5. pc[t] = "idle" /\ pc'[t] = k /\ fr'[t] = g /\ SentLocks(g)
  BY <1>2 DEF Sent
<1>6. Taking(t)'
  <2>1. children' = children
    BY <1>3 DEF treeVars
  <2>2. g.op \in Changes => \A j \in 1..Len(g.names) :
          children'[g.objs[j]][g.names[j]] \in g.locks \cup {Nil}
    BY <1>5, <2>1 DEF SentLocks
  <2>3. (g.op = "Link" => g.objs[1] \in g.locks) /\ k # "apply"
    BY <1>2, <1>5 DEF SentLocks
  <2>4. QED
    BY <1>5, <2>2, <2>3 DEF Taking
<1>7. ASSUME NEW d \in DirIno, NEW m \in Name PROVE ~Bringing(t, d, m)
  BY <1>5 DEF Bringing
<1>8. QED
  BY <1>3, <1>4, <1>6, <1>7, KnowsQuiet

(* A step of a request that leaves the tree and the file system as they    *)
(* are, on its way to a call or back from one.                             *)
LEMMA GoKnows ==
  ASSUME TableOK, FramesOK, TreeKnows, UNCHANGED <<treeVars, fs>>, NEW t \in Thread,
         pc[t] \notin {"look", "apply"}, NEW l \in Label \ {"apply"}, NEW g, Go(t, l, g),
         \/ g = IdleFrame
         \/ Same(fr[t], g) /\ (g.names = fr[t].names \/ g.op = "ReadPlus")
  PROVE  TreeKnows'
<1>1. /\ pc'[t] = l /\ fr'[t] = g
      /\ \A u \in Thread \ {t} : pc'[u] = pc[u] /\ fr'[u] = fr[u]
  BY DEF Go, FramesOK
<1>2. \A u \in Thread \ {t} : pc'[u] = pc[u] /\ Kept(fr[u], fr'[u])
  BY <1>1 DEF Kept, Same
<1>3. ASSUME NEW d \in DirIno, NEW m \in Name PROVE ~Bringing(t, d, m)
  BY DEF Bringing
<1>4. children' = children
  BY DEF treeVars
<1>5. CASE g = IdleFrame
  <2>1. g.op = "none"
    BY <1>5 DEF IdleFrame
  <2>2. Taking(t)'
    BY <1>1, <2>1 DEF Taking, Changes
  <2>3. QED
    BY <1>2, <1>3, <2>2, KnowsQuiet
<1>6. CASE Same(fr[t], g) /\ (g.names = fr[t].names \/ g.op = "ReadPlus")
  <2>1. PICK f : f = fr[t]
    OBVIOUS
  <2>2. /\ g.op = f.op /\ g.objs = f.objs /\ g.locks = f.locks
        /\ g.op # "ReadPlus" => g.names = f.names
    BY <1>6, <2>1 DEF Same
  <2>3. /\ f.op \in Changes => \A k \in 1..Len(f.names) :
             children[f.objs[k]][f.names[k]] \in f.locks \cup {Nil}
        /\ f.op = "Link" => f.objs[1] \in f.locks
    BY <2>1 DEF TreeKnows, Taking
  <2>4. g.op \in Changes => g.names = f.names
    BY <2>2 DEF Changes
  <2>5. g.op \in Changes => \A k \in 1..Len(g.names) :
          children'[g.objs[k]][g.names[k]] \in g.locks \cup {Nil}
    BY <1>4, <2>2, <2>3, <2>4
  <2>6. g.op = "Link" => g.objs[1] \in g.locks
    BY <2>2, <2>3
  <2>7. Taking(t)'
    BY <1>1, <2>5, <2>6 DEF Taking
  <2>8. QED
    BY <1>2, <1>3, <2>7, KnowsQuiet
<1>7. QED
  BY <1>5, <1>6

(* pathOf's loop: the frame that a turn of it leaves.                      *)
Carried(f, g) == Kept(f, g) /\ g.calm = f.calm

Hopped(f, g) ==
  /\ Carried(f, g) /\ g.paths = f.paths
  /\ \/ parents[f.at] = NoParents /\ g.at = Nil
     \/ /\ parents[f.at] # NoParents /\ g.at = Newest(parents[f.at]).node
        /\ g.segs = <<Newest(parents[f.at]).name>> \o f.segs

LEMMA HopStep ==
  ASSUME FramesOK, NEW t \in Thread, Hop(t), NEW f, f = fr[t]
  PROVE  \E g : Go(t, "walk", g) /\ Hopped(f, g)
<1>1. DOMAIN f = Fields
  BY FrameDomain DEF FramesOK, FrameOK
<1>2. CASE parents[f.at] = NoParents
  <2>1. PICK g : g = [f EXCEPT !.at = Nil]
    OBVIOUS
  <2>2. Go(t, "walk", g)
    BY <1>2, <2>1 DEF Hop
  <2>3. g.at = Nil /\ Carried(f, g) /\ g.paths = f.paths
    BY <1>1, <2>1 DEF Fields, Carried, Kept, Same
  <2>4. QED
    BY <1>2, <2>2, <2>3 DEF Hopped
<1>3. CASE parents[f.at] # NoParents
  <2>1. PICK e, s : e = Newest(parents[f.at]) /\ s = <<e.name>> \o f.segs
    OBVIOUS
  <2>2. PICK g : g = [f EXCEPT !.at = e.node, !.segs = s]
    OBVIOUS
  <2>3. Go(t, "walk", g)
    BY <1>3, <2>1, <2>2 DEF Hop
  <2>4. g.at = e.node /\ g.segs = s /\ Carried(f, g) /\ g.paths = f.paths
    BY <1>1, <2>2 DEF Fields, Carried, Kept, Same
  <2>5. QED
    BY <1>3, <2>1, <2>3, <2>4 DEF Hopped
<1>4. QED
  BY <1>2, <1>3

LEMMA FoundStep ==
  ASSUME FramesOK, NEW t \in Thread, Found(t), NEW f, f = fr[t]
  PROVE  \E g : /\ Carried(f, g)
                /\ g.paths = Append(f.paths, IF f.at = RootObj THEN f.segs ELSE Orphan)
                /\ \/ Go(t, "walk", g) /\ g.at = Target(g) /\ g.segs = <<>>
                   \/ Go(t, Then(f.op), g)
<1>1. DOMAIN f = Fields
  BY FrameDomain DEF FramesOK, FrameOK
<1>2. PICK p : p = IF f.at = RootObj THEN f.segs ELSE Orphan
  OBVIOUS
<1>3. PICK h : h = [f EXCEPT !.paths = Append(@, p), !.at = Nil, !.segs = <<>>, !.seen = {},
                             !.moved = 0]
  OBVIOUS
<1>4. /\ DOMAIN h = Fields /\ Carried(f, h) /\ h.paths = Append(f.paths, p) /\ h.segs = <<>>
  BY <1>1, <1>3 DEF Fields, Carried, Kept, Same
<1>5. Go(t, "walk", Begin(h)) \/ Go(t, Then(f.op), h)
  BY <1>2, <1>3 DEF Found
<1>6. CASE Go(t, "walk", Begin(h))
  <2>1. PICK g : g = [h EXCEPT !.at = Target(h), !.seen = {PathIn(parents, Target(h))}]
    OBVIOUS
  <2>2. Go(t, "walk", g)
    BY <1>6, <2>1 DEF Begin
  <2>3. /\ g.at = Target(h) /\ Carried(h, g) /\ g.paths = h.paths /\ g.segs = <<>>
        /\ g.objs = h.objs
    BY <1>4, <2>1 DEF Fields, Carried, Kept, Same
  <2>4. Target(g) = Target(h)
    BY <2>3 DEF Target
  <2>5. Carried(f, g)
    BY <1>4, <2>3 DEF Carried, Kept, Same
  <2>6. QED
    BY <1>2, <1>4, <2>2, <2>3, <2>4, <2>5
<1>7. CASE Go(t, Then(f.op), h)
  BY <1>2, <1>4, <1>7
<1>8. QED
  BY <1>5, <1>6, <1>7

(* A listing goes on to its next entry with the path that it has.          *)
Going(f, g) == Same(f, g) /\ g.op = "ReadPlus" /\ g.paths = f.paths /\ g.calm = f.calm

LEMMA NextGoes ==
  ASSUME NEW f, DOMAIN f = Fields, f.op # "ReadPlus" => f.todo = {}, NEW g \in Nexts(f)
  PROVE  g = IdleFrame \/ Going(f, g)
<1>1. CASE f.todo = {}
  BY <1>1 DEF Nexts
<1>2. CASE f.todo # {}
  <2>1. PICK m \in f.todo : g = NextFrame(f, m)
    BY <1>2 DEF Nexts
  <2>2. PICK d, n : d = f.todo \ {m} /\ n = <<m>>
    OBVIOUS
  <2>3. g = [f EXCEPT !.names = n, !.todo = d, !.cino = NoIno]
    BY <2>1, <2>2 DEF NextFrame
  <2>4. f.op = "ReadPlus"
    BY <1>2
  <2>5. QED
    BY <2>3, <2>4 DEF Going, Same, Fields
<1>3. QED
  BY <1>1, <1>2

LEMMA ListStep ==
  ASSUME FramesOK, NEW t \in Thread, List(t), NEW f, f = fr[t]
  PROVE  \E g : Go(t, After(g), g) /\ (g = IdleFrame \/ Going(f, g))
<1>1. PICK d : d = Resolve(f.paths[1])
  OBVIOUS
<1>2. PICK x : x = IF d \in DirIno THEN {m \in Name : fs[d][m] # NoIno} ELSE {}
  OBVIOUS
<1>3. PICK h : h = [f EXCEPT !.todo = x]
  OBVIOUS
<1>4. DOMAIN f = Fields /\ f.op = "ReadPlus"
  BY FrameDomain DEF List, FramesOK, FrameOK, OpsAt
<1>5. /\ DOMAIN h = Fields /\ h.op = "ReadPlus" /\ Same(f, h) /\ h.paths = f.paths
      /\ h.calm = f.calm
  BY <1>3, <1>4 DEF Fields, Same
<1>6. \E g \in Nexts(h) : Go(t, IF g.op = "none" THEN "idle" ELSE "look", g)
  BY <1>1, <1>2, <1>3 DEF List
<1>7. PICK g \in Nexts(h) : Go(t, After(g), g)
  BY <1>6 DEF After
<1>8. g = IdleFrame \/ Going(h, g)
  BY <1>5, <1>7, NextGoes
<1>9. g = IdleFrame \/ Going(f, g)
  BY <1>5, <1>8 DEF Going, Same
<1>10. QED
  BY <1>7, <1>9

LEMMA WalkKnows ==
  ASSUME TableOK, FramesOK, TreeKnows, NEW t \in Thread,
         Hop(t) \/ Found(t) \/ Opened(t) \/ List(t) \/ FsRefuses(t) \/ FsUse(t)
  PROVE  TreeKnows'
<1>1. PICK f : f = fr[t] /\ FrameOK(alloc, pc[t], f)
  BY DEF FramesOK
<1>2. UNCHANGED <<treeVars, fs>>
  BY DEF Hop, Found, Opened, List, FsRefuses, FsUse
<1>3. CASE Hop(t)
  <2>1. PICK g : Go(t, "walk", g) /\ Hopped(f, g)
    BY <1>1, <1>3, HopStep
  <2>2. Same(fr[t], g) /\ g.names = fr[t].names
    BY <1>1, <2>1 DEF Hopped, Carried, Kept
  <2>3. pc[t] \notin {"look", "apply"} /\ "walk" \in Label \ {"apply"}
    BY <1>3 DEF Hop, Label
  <2>4. QED
    BY <1>2, <2>1, <2>2, <2>3, GoKnows
<1>4. CASE Found(t)
  <2>1. PICK g : Carried(f, g) /\ (Go(t, "walk", g) \/ Go(t, Then(f.op), g))
    BY <1>1, <1>4, FoundStep
  <2>2. Same(fr[t], g) /\ g.names = fr[t].names
    BY <1>1, <2>1 DEF Carried, Kept
  <2>3. /\ pc[t] \notin {"look", "apply"} /\ "walk" \in Label \ {"apply"}
        /\ Then(f.op) \in Label \ {"apply"}
    BY <1>4 DEF Found, Label, Then
  <2>4. PICK l \in Label \ {"apply"} : Go(t, l, g)
    BY <2>1, <2>3
  <2>5. QED
    BY <1>2, <2>2, <2>3, <2>4, GoKnows
<1>5. CASE Opened(t) \/ FsRefuses(t) \/ FsUse(t)
  <2>1. Go(t, "idle", IdleFrame)
    BY <1>5 DEF Opened, FsRefuses, FsUse, Finish
  <2>2. pc[t] \notin {"look", "apply"} /\ "idle" \in Label \ {"apply"}
    BY <1>5 DEF Opened, FsRefuses, FsUse, Call, Label
  <2>3. QED
    BY <1>2, <2>1, <2>2, GoKnows
<1>6. CASE List(t)
  <2>1. PICK g : Go(t, After(g), g) /\ (g = IdleFrame \/ Going(f, g))
    BY <1>1, <1>6, ListStep
  <2>2. g = IdleFrame \/ (Same(fr[t], g) /\ g.op = "ReadPlus")
    BY <1>1, <2>1 DEF Going
  <2>3. After(g) \in Label \ {"apply"}
    BY DEF After, Label
  <2>4. pc[t] \notin {"look", "apply"}
    BY <1>6 DEF List
  <2>5. QED
    BY <1>2, <2>1, <2>2, <2>3, <2>4, GoKnows
<1>7. QED
  BY <1>3, <1>4, <1>5, <1>6

LEMMA FileSystemKnows ==
  ASSUME TableOK, FramesOK, TreeKnows, NEW t \in Thread, FileSystem(t), blame' = {},
         missed' = {}
  PROVE  TreeKnows'
<1>1. CASE FsRefuses(t) \/ FsUse(t)
  BY <1>1, WalkKnows
<1>2. CASE FsRemove(t)
  BY <1>2, RemoveKnows
<1>3. CASE FsRename(t)
  BY <1>3, RenameKnows
<1>4. CASE FsMake(t)
  <2>1. PICK i \in Ino : ~IsLinked(i) /\ nodes[i] = Nil /\ FsPut(t, i)
    <3>1. PICK i \in Ino :
            /\ ~IsLinked(i) /\ FsPut(t, i)
            /\ missed' = IF nodes[i] = Nil THEN missed ELSE missed \cup {"number"}
      BY <1>4 DEF FsMake
    <3>2. QED
      BY <3>1
  <2>2. PICK f : f = fr[t] /\ f.op = "Make" /\ pc[t] = "call"
    BY <1>4 DEF FsMake, Call
  <2>3. QED
    BY <2>1, <2>2, PutKnows
<1>5. CASE FsLink(t)
  <2>1. PICK f, i : f = fr[t] /\ i = Resolve(f.paths[1])
    OBVIOUS
  <2>2. pc[t] = "call" /\ f.op = "Link" /\ i \in Ino \ DirIno /\ FsPut(t, i)
    BY <1>5, <2>1 DEF FsLink, Call
  <2>3. Led(f)
    BY <2>1, <2>2 DEF FsPut, Blame
  <2>4. FrameOK(alloc, "call", f)
    BY <2>1, <2>2 DEF FramesOK
  <2>5. f.paths \in Seq(Seq(Segment)) /\ 1 \in 1..Len(f.paths)
    <3>1. f.paths \in Seq(Seq(Segment)) /\ Len(f.paths) = 2
      BY <2>2, <2>4 DEF FrameOK
    <3>2. QED
      BY <3>1
  <2>6. PICK w : w = f.paths[1] /\ w \in Seq(Segment)
    BY <2>5
  <2>7. i # NoIno /\ Resolve(w) = i
    BY <2>1, <2>2, <2>6, Numbers
  <2>8. IsLinked(Resolve(w))
    BY <2>6, <2>7, ResolveLinked
  <2>9. Right(f.objs[1], w)
    BY <2>3, <2>5, <2>6 DEF Led
  <2>10. ino[f.objs[1]] = i
    BY <2>7, <2>9 DEF Right
  <2>11. IsLinked(i)
    BY <2>7, <2>8
  <2>12. i \in Ino /\ f = fr[t] /\ pc[t] = "call" /\ FsPut(t, i) /\ f.op = "Link"
    BY <2>1, <2>2
  <2>13. QED
    BY <2>10, <2>11, <2>12, PutKnows
<1>6. QED
  BY <1>1, <1>2, <1>3, <1>4, <1>5 DEF FileSystem

LEMMA StepKnows ==
  ASSUME TableOK, FramesOK, EntriesTrue, WritesTrue, RootKnown, TreeKnows, TableOK',
         blame' = {}, missed' = {}, NEW t \in Thread, Kernel(t) \/ FileSystem(t) \/ Bridge(t)
  PROVE  TreeKnows'
<1>1. blame = {} /\ AllTrue
  BY BlameStays, EntriesIn
<1>2. CASE Kernel(t)
  BY <1>2, KernelKnows
<1>3. CASE FileSystem(t)
  BY <1>3, FileSystemKnows
<1>4. CASE Hop(t) \/ Found(t) \/ Opened(t) \/ List(t)
  BY <1>4, WalkKnows
<1>5. CASE Look(t)
  BY <1>5, LookKnows
<1>6. CASE AddChild(t)
  BY <1>1, <1>6, AddKnows
<1>7. CASE RmChild(t)
  BY <1>1, <1>7, RmKnows
<1>8. CASE MvChild(t)
  BY <1>1, <1>8, MvKnows
<1>9. QED
  BY <1>2, <1>3, <1>4, <1>5, <1>6, <1>7, <1>8 DEF Bridge

-----------------------------------------------------------------------------
(* Paths that lead to their inodes, step by step.                          *)

(* From a place that has no entries no path leads further.                 *)
LEMMA ReachDead ==
  ASSUME NEW F, NEW i, \A m : NextIn(F, i, m) = NoIno, NEW S, NEW p \in Seq(S)
  PROVE  Reach(F, i, p) \in {i, NoIno}
<1>1. PICK a : Leads(F, i, p, Len(p), a) /\ Reach(F, i, p) = a[Len(p)]
  BY ReachLeads
<1>2. PICK n \in Nat : n = Len(p)
  OBVIOUS
<1>3. /\ a[0] = i
      /\ \A k \in 1..n : a[k] = NextIn(F, a[k - 1], p[k])
  BY <1>1, <1>2 DEF Leads
<1>4. \A m : NextIn(F, NoIno, m) = NoIno
  BY Numbers DEF NextIn
<1>5. ASSUME NEW k \in 0..n, a[k] \notin {i, NoIno} PROVE FALSE
  <2>1. PICK B : B = {j \in 0..n : a[j] \notin {i, NoIno}}
    OBVIOUS
  <2>2. B \in SUBSET Nat /\ B # {}
    BY <1>5, <2>1
  <2>3. PICK l \in B : \A j \in B : l <= j
    BY <2>2, LeastNat
  <2>4. l \in 0..n /\ a[l] \notin {i, NoIno} /\ l # 0
    BY <1>3, <2>1, <2>3
  <2>5. l - 1 \in 0..n /\ l \in 1..n
    BY <2>4
  <2>6. l - 1 \notin B
    <3>1. ~(l <= l - 1)
      BY <2>4
    <3>2. QED
      BY <2>3, <3>1
  <2>7. a[l - 1] \in {i, NoIno}
    BY <2>1, <2>5, <2>6
  <2>8. a[l] = NextIn(F, a[l - 1], p[l])
    BY <1>3, <2>5
  <2>9. a[l] = NoIno
    BY <1>4, <2>7, <2>8
  <2>10. QED
    BY <2>4, <2>9
<1>6. n \in 0..n
  BY <1>2
<1>7. QED
  BY <1>1, <1>2, <1>5, <1>6

(* Entries only come, no inode's number changes, and what the tree knows   *)
(* is linked nowhere that it was not, or the tree misses something by it.  *)
Grown ==
  /\ Grows(fs, fs') /\ \A x \in alloc : ino'[x] = ino[x]
  /\ \A i \in Ino : nodes[i] # Nil /\ Pathless(i) => Pathless(i)'

LEMMA SameGrown ==
  ASSUME fs' = fs, missed \subseteq missed', \A x \in alloc : ino'[x] = ino[x] PROVE Grown
<1>1. Grows(fs, fs')
  BY DEF Grows
<1>2. \A i \in Ino : Pathless(i) => Pathless(i)'
  BY DEF IsLinked, Pathless
<1>3. QED
  BY <1>1, <1>2 DEF Grown

(* The number of an inode of the tree.                                     *)
LEMMA Numbered ==
  ASSUME TableOK, NEW o \in alloc
  PROVE  ino[o] \in Ino /\ ino[o] # NoIno /\ nodes[ino[o]] = o /\ o # Nil
<1>1. o \in Obj /\ o # Nil /\ nodes[ino[o]] = o
  BY Numbers DEF TableOK
<1>2. ino \in [Obj -> Ino]
  BY DEF TableOK
<1>3. ino[o] \in Ino
  BY <1>1, <1>2
<1>4. QED
  BY <1>1, <1>3, Numbers

LEMMA LedGrows ==
  ASSUME TableOK, Grown, NEW o \in alloc, NEW p \in Seq(Segment), LedTo(o, p)
  PROVE  LedTo(o, p)'
<1>1. PICK i : i = ino[o] /\ i = ino'[o]
  BY DEF Grown
<1>2. i \in Ino /\ i # NoIno /\ nodes[i] # Nil
  <2>1. ino[o] \in Ino /\ ino[o] # NoIno /\ nodes[ino[o]] = o /\ o # Nil
    BY Numbered
  <2>2. QED
    BY <1>1, <2>1
<1>3. CASE Resolve(p) = i
  <2>1. Reach(fs, RootIno, p) = i
    BY <1>3 DEF Resolve
  <2>2. Reach(fs', RootIno, p) = i
    BY <1>2, <2>1, ReachGrows DEF Grown
  <2>3. Resolve(p)' = i
    BY <2>2 DEF Resolve
  <2>4. QED
    BY <1>1, <2>3 DEF LedTo
<1>4. CASE p = Orphan /\ Pathless(i)
  <2>1. Pathless(i)'
    BY <1>2, <1>4 DEF Grown
  <2>2. Pathless(ino[o])'
    BY <1>1, <2>1
  <2>3. QED
    BY <1>4, <2>2 DEF LedTo
<1>5. QED
  BY <1>1, <1>3, <1>4 DEF LedTo

(* A request that goes on with the paths that it has.                      *)
LEMMA CalmKept ==
  ASSUME TableOK, FramesOK, Grown, NEW u \in Thread, CalmFrame(u), pc[u] # "idle",
         NEW f, NEW g, f = fr[u], g = fr'[u],
         \A v \in Thread \ {u} : fr'[v].op \in Changes => fr[v].op \in Changes,
         g.objs = f.objs, g.paths = f.paths, g.op = f.op,
         pc'[u] = "walk" => pc[u] = "walk" /\ g.at = f.at /\ g.segs = f.segs,
         pc[u] = "apply" /\ f.op \in Changes => pc'[u] = "apply"
  PROVE  CalmFrame(u)'
<1>1. PICK l : l = pc[u] /\ FrameOK(alloc, l, f) /\ l # "idle"
  BY DEF FramesOK
<1>2. /\ f.objs \in Seq(alloc) /\ f.paths \in Seq(Seq(Segment)) /\ f.segs \in Seq(Segment)
      /\ f.at \in alloc \cup {Nil} /\ Len(f.paths) <= Len(f.objs)
      /\ l = "walk" => Len(f.paths) < Len(f.objs)
  <2>1. /\ f.objs \in Seq(alloc) /\ f.paths \in Seq(Seq(Segment)) /\ f.segs \in Seq(Segment)
        /\ f.at \in alloc \cup {Nil}
    BY <1>1 DEF FrameOK
  <2>2. l = "walk" => Len(f.paths) < Len(f.objs)
    BY <1>1 DEF FrameOK
  <2>3. l # "walk" => Len(f.paths) = Len(f.objs)
    BY <1>1 DEF FrameOK
  <2>4. Len(f.paths) \in Nat /\ Len(f.objs) \in Nat
    BY <2>1
  <2>5. QED
    BY <2>1, <2>2, <2>3, <2>4
<1>3. \A v \in Thread \ {u} : fr'[v].op \notin Changes
  BY DEF CalmFrame
<1>4. ASSUME ~(pc'[u] = "apply" /\ g.op \in Changes), NEW k \in 1..Len(g.paths)
      PROVE  LedTo(g.objs[k], g.paths[k])'
  <2>1. k \in 1..Len(f.paths) /\ k \in 1..Len(f.objs)
    BY <1>2, <1>4
  <2>2. LedTo(f.objs[k], f.paths[k])
    BY <1>4, <2>1 DEF CalmFrame
  <2>3. PICK o, p : o = f.objs[k] /\ p = f.paths[k]
    OBVIOUS
  <2>4. o \in alloc /\ p \in Seq(Segment) /\ LedTo(o, p)
    BY <1>2, <2>1, <2>2, <2>3
  <2>5. LedTo(o, p)'
    BY <2>4, LedGrows
  <2>6. o = g.objs[k] /\ p = g.paths[k]
    BY <2>3
  <2>7. QED
    BY <2>5, <2>6
<1>5. ASSUME pc'[u] = "walk"
      PROVE  IF g.at = Nil THEN Pathless(ino[Target(g)])'
             ELSE Reach(fs', ino'[g.at], g.segs) = ino'[Target(g)]
  <2>1. pc[u] = "walk" /\ g.at = f.at /\ g.segs = f.segs
    BY <1>5
  <2>2. Target(g) = Target(f)
    BY DEF Target
  <2>3. PICK o : o = Target(f)
    OBVIOUS
  <2>4. o \in alloc
    <3>1. Len(f.paths) + 1 \in 1..Len(f.objs)
      BY <1>1, <1>2, <2>1
    <3>2. QED
      BY <1>2, <2>3, <3>1 DEF Target
  <2>5. PICK i : i = ino[o] /\ i = ino'[o]
    BY <2>4 DEF Grown
  <2>6. i \in Ino /\ i # NoIno /\ nodes[i] # Nil
    <3>1. ino[o] \in Ino /\ ino[o] # NoIno /\ nodes[ino[o]] = o /\ o # Nil
      BY <2>4, Numbered
    <3>2. QED
      BY <2>5, <3>1
  <2>7. CASE f.at = Nil
    <3>1. Pathless(i)
      BY <2>1, <2>3, <2>5, <2>7 DEF CalmFrame
    <3>2. Pathless(i)'
      BY <2>6, <3>1 DEF Grown
    <3>3. Pathless(ino[Target(g)])'
      <4>1. ino'[Target(g)] = i
        BY <2>2, <2>3, <2>5
      <4>2. QED
        BY <3>2, <4>1
    <3>4. QED
      BY <2>1, <2>7, <3>3
  <2>8. CASE f.at # Nil
    <3>1. PICK a : a = f.at /\ a \in alloc
      BY <1>2, <2>8
    <3>2. PICK j : j = ino[a] /\ j = ino'[a]
      BY <3>1 DEF Grown
    <3>3. Reach(fs, j, f.segs) = i
      BY <2>1, <2>3, <2>5, <2>8, <3>1, <3>2 DEF CalmFrame
    <3>4. Reach(fs', j, f.segs) = i
      BY <1>2, <2>6, <3>3, ReachGrows DEF Grown
    <3>5. QED
      BY <2>1, <2>2, <2>3, <2>5, <2>8, <3>1, <3>2, <3>4
  <2>9. QED
    BY <2>7, <2>8
<1>6. QED
  BY <1>3, <1>4, <1>5 DEF CalmFrame

(* What another request may do to a frame: it notes it.                    *)
StillOn(f, g) ==
  /\ g.op = f.op /\ g.objs = f.objs /\ g.paths = f.paths /\ g.at = f.at /\ g.segs = f.segs
  /\ g.calm => f.calm

LEMMA HandleKept ==
  ASSUME TableOK, FramesOK, CalmHandle, Grown, alloc \subseteq alloc', NEW t \in Thread,
         \A u \in Thread \ {t} : StillOn(fr[u], fr'[u]),
         handle' # NoHandle => handle # NoHandle,
         handle'.node = handle.node, handle'.path = handle.path,
         handle'.calm => handle.calm,
         handle # NoHandle /\ handle'.calm /\ fr'[t].op \in Changes => fr[t].op \in Changes
  PROVE  CalmHandle'
<1> SUFFICES ASSUME handle' # NoHandle, handle'.calm
             PROVE  /\ handle'.node \in alloc' /\ LedTo(handle.node, handle.path)'
                    /\ \A u \in Thread : fr'[u].op \notin Changes
  BY DEF CalmHandle
<1>1. PICK o, p : o = handle.node /\ p = handle.path
  OBVIOUS
<1>2. /\ o \in alloc /\ LedTo(o, p) /\ handle # NoHandle
      /\ \A u \in Thread : fr[u].op \notin Changes
  BY <1>1 DEF CalmHandle
<1>3. p \in Seq(Segment)
  BY <1>1 DEF FramesOK
<1>4. LedTo(o, p)'
  BY <1>2, <1>3, LedGrows
<1>5. \A u \in Thread : fr'[u].op \notin Changes
  <2>1. fr'[t].op \notin Changes
    BY <1>2
  <2>2. \A u \in Thread \ {t} : fr'[u].op = fr[u].op
    BY DEF StillOn
  <2>3. QED
    BY <1>2, <2>1, <2>2
<1>6. o = handle'.node /\ p = handle'.path
  BY <1>1
<1>7. LedTo(handle.node, handle.path)'
  BY <1>4, <1>6
<1>8. QED
  BY <1>1, <1>2, <1>5, <1>6, <1>7

(* The requests that a step is not of.                                     *)
LEMMA CalmRest ==
  ASSUME TableOK, FramesOK, CalmLeads, Grown, NEW t \in Thread,
         \A u \in Thread \ {t} : pc'[u] = pc[u] /\ StillOn(fr[u], fr'[u]),
         NEW u \in Thread \ {t}, pc'[u] # "idle", fr'[u].calm,
         fr'[t].op \in Changes => fr[t].op \in Changes
  PROVE  CalmFrame(u)'
<1>1. PICK f, g : f = fr[u] /\ g = fr'[u]
  OBVIOUS
<1>2. pc'[u] = pc[u] /\ StillOn(f, g)
  BY <1>1
<1>3. CalmFrame(u)
  BY <1>1, <1>2 DEF CalmLeads, StillOn
<1>4. \A v \in Thread \ {u} : fr'[v].op \in Changes => fr[v].op \in Changes
  <2>1. \A v \in Thread \ {t} : fr'[v].op = fr[v].op
    BY DEF StillOn
  <2>2. QED
    BY <2>1
<1>5. /\ g.objs = f.objs /\ g.paths = f.paths /\ g.op = f.op
      /\ pc'[u] = "walk" => pc[u] = "walk" /\ g.at = f.at /\ g.segs = f.segs
      /\ pc[u] = "apply" /\ f.op \in Changes => pc'[u] = "apply"
      /\ pc[u] # "idle" /\ u \in Thread
  BY <1>2 DEF StillOn
<1>6. QED
  BY <1>1, <1>3, <1>4, <1>5, CalmKept

(* A step with which a request goes on along its paths, or is done.        *)
LEMMA CalmGoes ==
  ASSUME TableOK, FramesOK, CalmLeads, Grown, alloc \subseteq alloc', handle' = handle,
         NEW t \in Thread,
         \A u \in Thread \ {t} : pc'[u] = pc[u] /\ StillOn(fr[u], fr'[u]),
         NEW f, NEW g, f = fr[t], g = fr'[t],
         \/ pc'[t] = "idle" /\ g = IdleFrame
         \/ /\ pc[t] # "idle" /\ pc'[t] # "walk"
            /\ g.op = f.op /\ g.objs = f.objs /\ g.paths = f.paths /\ (g.calm => f.calm)
            /\ pc[t] = "apply" /\ f.op \in Changes => pc'[t] = "apply"
  PROVE  CalmLeads'
<1>1. IdleFrame.op \notin Changes
  BY DEF IdleFrame, Changes
<1>2. fr'[t].op \in Changes => fr[t].op \in Changes
  BY <1>1
<1>3. CalmHandle'
  BY <1>2, HandleKept DEF CalmLeads
<1>4. ASSUME NEW u \in Thread \ {t}, pc'[u] # "idle", fr'[u].calm PROVE CalmFrame(u)'
  BY <1>2, <1>4, CalmRest
<1>5. ASSUME pc'[t] # "idle", fr'[t].calm PROVE CalmFrame(t)'
  <2>1. /\ pc[t] # "idle" /\ pc'[t] # "walk"
        /\ g.op = f.op /\ g.objs = f.objs /\ g.paths = f.paths /\ (g.calm => f.calm)
        /\ pc[t] = "apply" /\ f.op \in Changes => pc'[t] = "apply"
    BY <1>5
  <2>2. CalmFrame(t)
    BY <1>5, <2>1 DEF CalmLeads
  <2>3. \A v \in Thread \ {t} : fr'[v].op \in Changes => fr[v].op \in Changes
    BY DEF StillOn
  <2>4. QED
    BY <2>1, <2>2, <2>3, CalmKept
<1>6. QED
  BY <1>3, <1>4, <1>5 DEF CalmLeads

(* A new request starts where it is, or on a path that its handle has.     *)
LEMMA SentCalm ==
  ASSUME TableOK, FramesOK, FramesOK', CalmLeads, UNCHANGED <<treeVars, fs, missed>>,
         NEW t \in Thread, NEW l, l \in {"walk", "list"}, NEW g, Sent(t, l, g),
         \A u \in Thread \ {t} : pc'[u] = pc[u] /\ StillOn(fr[u], fr'[u]),
         g.calm
  PROVE  CalmFrame(t)'
<1>1. pc'[t] = l /\ fr'[t] = g /\ \A k \in 1..Len(g.objs) : g.objs[k] \in alloc
  BY DEF Sent
<1>2. FrameOK(alloc', l, g)
  BY <1>1 DEF FramesOK
<1>3. Len(g.objs) \in {1, 2} /\ g.objs[1] \in alloc
  <2>1. Len(g.objs) \in {1, 2}
    <3>1. l # "idle"
      OBVIOUS
    <3>2. Len(g.objs) = IF g.op \in {"Rename", "Link"} THEN 2 ELSE 1
      BY <1>2, <3>1 DEF FrameOK
    <3>3. QED
      BY <3>2
  <2>2. PICK n : n = Len(g.objs)
    OBVIOUS
  <2>3. 1 \in 1..n
    <3>1. n \in {1, 2}
      BY <2>1, <2>2
    <3>2. QED
      BY <3>1
  <2>4. QED
    BY <1>1, <2>1, <2>2, <2>3
<1>4. \A u \in Thread \ {t} : fr'[u].op \notin Changes
  <2>1. \A u \in Thread \ {t} : fr[u].op \notin Changes
    BY DEF Sent
  <2>2. QED
    BY <2>1 DEF StillOn
<1>5. fs' = fs /\ ino' = ino /\ missed' = missed
  BY DEF treeVars
<1>6. l # "apply"
  OBVIOUS
<1>7. CASE l = "walk"
  <2>1. g.paths = <<>> /\ g.segs = <<>> /\ g.at = g.objs[1]
    BY <1>7 DEF Sent, SentFrame
  <2>2. 1..Len(g.paths) = {} /\ Target(g) = g.objs[1]
    BY <2>1 DEF Target
  <2>3. PICK o : o = g.objs[1] /\ o \in alloc
    BY <1>3
  <2>4. o # Nil
    BY <2>3, Numbered
  <2>5. Reach(fs', ino'[o], <<>>) = ino'[o]
    BY ReachEmpty
  <2>6. Reach(fs', ino'[g.at], g.segs) = ino'[Target(g)] /\ g.at # Nil
    BY <2>1, <2>2, <2>3, <2>4, <2>5
  <2>7. QED
    BY <1>1, <1>4, <2>2, <2>6 DEF CalmFrame
<1>8. CASE l = "list"
  <2>1. PICK o, p : o = handle.node /\ p = handle.path
    OBVIOUS
  <2>2. g.paths = <<p>> /\ g.objs = <<o>> /\ handle # NoHandle /\ handle.calm
    BY <1>8, <2>1 DEF Sent, SentFrame
  <2>3. LedTo(o, p)
    BY <2>1, <2>2 DEF CalmLeads, CalmHandle
  <2>4. LedTo(o, p)'
    BY <1>5, <2>3 DEF LedTo, Resolve, IsLinked, Pathless
  <2>5. ASSUME NEW k \in 1..Len(g.paths) PROVE LedTo(g.objs[k], g.paths[k])'
    <3>1. Len(g.paths) = 1 /\ 1..1 = {1}
      BY <2>2
    <3>2. k = 1
      BY <3>1
    <3>3. g.objs[k] = o /\ g.paths[k] = p
      BY <2>2, <3>2
    <3>4. QED
      BY <2>4, <3>3
  <2>6. QED
    BY <1>1, <1>4, <1>8, <2>5 DEF CalmFrame
<1>9. QED
  BY <1>7, <1>8

LEMMA KernelCalm ==
  ASSUME TableOK, FramesOK, CalmLeads, NEW t \in Thread, Kernel(t)
  PROVE  CalmLeads'
<1>1. FramesOK' /\ UNCHANGED <<treeVars, fs, missed>>
  <2>1. FramesOK' /\ UNCHANGED <<treeVars, fs>>
    BY KernelFrames
  <2>2. missed' = missed
    BY DEF Kernel, SendEntry, SendRename, SendLink, SendUse, SendOpenDir, SendReadPlus,
           Ask, Send
  <2>3. QED
    BY <2>1, <2>2
<1>2. PICK l, f : l \in {"walk", "list"} /\ Send(t, l, f)
  BY KernelFrames
<1>3. PICK k, g : k \in {"walk", "list"} /\ Sent(t, k, g)
  BY KernelSent
<1>4. /\ fr'[t] = g /\ pc[t] = "idle"
      /\ handle' = [handle EXCEPT !.calm = @ /\ (g.op \in Changes => handle = NoHandle)]
  BY <1>3 DEF Sent
<1>5. Grown /\ alloc' = alloc
  BY <1>1, SameGrown DEF treeVars
<1>6. ASSUME NEW u \in Thread \ {t}
      PROVE  /\ pc'[u] = pc[u] /\ StillOn(fr[u], fr'[u])
             /\ fr'[u].calm /\ g.op \in Changes => pc[u] = "idle"
  <2>1. pc'[u] = pc[u]
    BY <1>2, SendOthers
  <2>2. PICK x, y, b : x = fr[u] /\ y = fr'[u] /\ b = (g.op \in Changes => pc[u] = "idle")
    OBVIOUS
  <2>3. y = [x EXCEPT !.calm = x.calm /\ b]
    BY <1>3, <2>2 DEF Sent
  <2>4. DOMAIN x = Fields
    BY <2>2, FrameDomain DEF FramesOK, FrameOK
  <2>5. /\ y.op = x.op /\ y.objs = x.objs /\ y.paths = x.paths /\ y.at = x.at
        /\ y.segs = x.segs /\ y.calm = (x.calm /\ b)
    BY <2>3, <2>4 DEF Fields
  <2>6. StillOn(x, y) /\ (y.calm => b)
    BY <2>5 DEF StillOn
  <2>7. QED
    BY <2>1, <2>2, <2>6
<1>7. CalmHandle'
  <2>1. PICK h, b : h = handle /\ b = (g.op \in Changes => h = NoHandle)
    OBVIOUS
  <2>2. handle' = [h EXCEPT !.calm = h.calm /\ b]
    BY <1>4, <2>1
  <2>3. DOMAIN h = {"node", "path", "calm"}
    BY <2>1 DEF FramesOK, NoHandle
  <2>4. handle'.node = h.node /\ handle'.path = h.path /\ handle'.calm = (h.calm /\ b)
    BY <2>2, <2>3
  <2>5. ASSUME h = NoHandle PROVE handle' = NoHandle
    <3>1. b = TRUE /\ h.calm = TRUE
      <4>1. (g.op \in Changes => h = NoHandle) = TRUE
        BY <2>5
      <4>2. b = TRUE
        BY <2>1, <4>1
      <4>3. h.calm = TRUE
        BY <2>5 DEF NoHandle
      <4>4. QED
        BY <4>2, <4>3
    <3>2. (h.calm /\ b) = TRUE
      BY <3>1
    <3>3. handle' = [NoHandle EXCEPT !.calm = TRUE]
      BY <2>2, <2>5, <3>2
    <3>4. QED
      BY <3>3 DEF NoHandle
  <2>6. /\ handle' # NoHandle => handle # NoHandle
        /\ handle'.node = handle.node /\ handle'.path = handle.path
        /\ handle'.calm => handle.calm
        /\ handle # NoHandle /\ handle'.calm /\ fr'[t].op \in Changes => fr[t].op \in Changes
    BY <1>4, <2>1, <2>4, <2>5
  <2>7. \A u \in Thread \ {t} : StillOn(fr[u], fr'[u])
    BY <1>6
  <2>8. CalmHandle /\ alloc \subseteq alloc'
    BY <1>5 DEF CalmLeads
  <2>9. QED
    BY <1>5, <2>6, <2>7, <2>8, HandleKept
<1>8. \A u \in Thread \ {t} : pc'[u] = pc[u] /\ StillOn(fr[u], fr'[u])
  BY <1>6
<1>9. ASSUME NEW u \in Thread \ {t}, pc'[u] # "idle", fr'[u].calm PROVE CalmFrame(u)'
  <2>1. g.op \notin Changes
    BY <1>6, <1>9
  <2>2. QED
    BY <1>4, <1>5, <1>8, <1>9, <2>1, CalmRest
<1>10. ASSUME fr'[t].calm PROVE CalmFrame(t)'
  <2>1. g.calm
    BY <1>4, <1>10
  <2>2. QED
    BY <1>1, <1>3, <1>8, <2>1, SentCalm
<1>11. QED
  BY <1>7, <1>9, <1>10 DEF CalmLeads

(* A step of a walk: what the request itself has to show.                  *)
LEMMA WalkCalm ==
  ASSUME TableOK, FramesOK, CalmLeads, UNCHANGED <<treeVars, fs, handle, missed>>,
         NEW t \in Thread, NEW l, NEW f, NEW g, f = fr[t], Go(t, l, g), g.op = f.op,
         g.calm = f.calm, pc[t] = "walk",
         CalmFrame(t) =>
           /\ ~(l = "apply" /\ g.op \in Changes) =>
                \A k \in 1..Len(g.paths) : LedTo(g.objs[k], g.paths[k])
           /\ l = "walk" =>
                IF g.at = Nil THEN Pathless(ino[Target(g)])
                ELSE Reach(fs, ino[g.at], g.segs) = ino[Target(g)]
  PROVE  CalmLeads'
<1>1. /\ pc'[t] = l /\ fr'[t] = g
      /\ \A u \in Thread \ {t} : pc'[u] = pc[u] /\ fr'[u] = fr[u]
  BY DEF Go, FramesOK
<1>2. \A u \in Thread \ {t} : pc'[u] = pc[u] /\ StillOn(fr[u], fr'[u])
  BY <1>1 DEF StillOn
<1>3. fs' = fs /\ ino' = ino /\ alloc' = alloc /\ handle' = handle /\ missed' = missed
  BY DEF treeVars
<1>4. Grown
  BY <1>3, SameGrown
<1>5. CalmHandle'
  <2>1. /\ \A u \in Thread \ {t} : StillOn(fr[u], fr'[u])
        /\ CalmHandle /\ alloc \subseteq alloc'
        /\ handle # NoHandle /\ handle'.calm /\ fr'[t].op \in Changes => fr[t].op \in Changes
    BY <1>1, <1>2, <1>3 DEF CalmLeads
  <2>2. /\ handle' # NoHandle => handle # NoHandle
        /\ handle'.node = handle.node /\ handle'.path = handle.path
        /\ handle'.calm => handle.calm
    BY <1>3
  <2>3. QED
    BY <1>4, <2>1, <2>2, HandleKept
<1>6. fr'[t].op \in Changes => fr[t].op \in Changes
  BY <1>1
<1>7. ASSUME NEW u \in Thread \ {t}, pc'[u] # "idle", fr'[u].calm PROVE CalmFrame(u)'
  BY <1>2, <1>4, <1>6, <1>7, CalmRest
<1>8. ASSUME fr'[t].calm PROVE CalmFrame(t)'
  <2>1. CalmFrame(t)
    BY <1>1, <1>8 DEF CalmLeads
  <2>2. \A u \in Thread \ {t} : fr'[u].op \notin Changes
    BY <1>1, <2>1 DEF CalmFrame
  <2>3. ASSUME ~(l = "apply" /\ g.op \in Changes), NEW k \in 1..Len(g.paths)
        PROVE  LedTo(g.objs[k], g.paths[k])'
    <3>1. PICK o, p : o = g.objs[k] /\ p = g.paths[k]
      OBVIOUS
    <3>2. LedTo(o, p)
      BY <2>1, <2>3, <3>1
    <3>3. LedTo(o, p)'
      BY <1>3, <3>2 DEF LedTo, Resolve, IsLinked, Pathless
    <3>4. QED
      BY <3>1, <3>3
  <2>4. ASSUME l = "walk"
        PROVE  IF g.at = Nil THEN Pathless(ino[Target(g)])'
               ELSE Reach(fs', ino'[g.at], g.segs) = ino'[Target(g)]
    <3>1. PICK i : i = ino[Target(g)] /\ i = ino'[Target(g)]
      BY <1>3
    <3>2. Pathless(i) => Pathless(i)'
      BY <1>3 DEF IsLinked, Pathless
    <3>3. Pathless(ino[Target(g)]) => Pathless(ino[Target(g)])'
      BY <3>1, <3>2
    <3>4. IF g.at = Nil THEN Pathless(ino[Target(g)])
          ELSE Reach(fs, ino[g.at], g.segs) = ino[Target(g)]
      BY <2>1, <2>4
    <3>5. QED
      BY <1>3, <3>3, <3>4
  <2>5. QED
    BY <1>1, <2>2, <2>3, <2>4 DEF CalmFrame
<1>9. QED
  BY <1>5, <1>7, <1>8 DEF CalmLeads

(* One turn of the loop: the parent that it finds is an entry of the file  *)
(* system, and an inode without a parent is not linked there.              *)
LEMMA HopCalm ==
  ASSUME TableOK, FramesOK, AllTrue, missed = {} => TreeKnows, CalmLeads,
         NEW t \in Thread, Hop(t)
  PROVE  CalmLeads'
<1>1. PICK f : f = fr[t] /\ FrameOK(alloc, "walk", f)
  BY DEF FramesOK, Hop
<1>2. PICK a : a = f.at /\ a \in alloc \ {RootObj} /\ a \in Obj
  <2>1. f.at \in alloc \cup {Nil}
    BY <1>1 DEF FrameOK
  <2>2. f.at \notin {RootObj, Nil}
    BY <1>1 DEF Hop
  <2>3. QED
    BY <2>1, <2>2 DEF TableOK
<1>3. PICK g : Go(t, "walk", g) /\ Hopped(f, g)
  BY <1>1, HopStep
<1>4. g.op = f.op /\ g.objs = f.objs /\ g.calm = f.calm /\ Target(g) = Target(f)
  BY <1>3 DEF Hopped, Carried, Kept, Same, Target
<1>5. PICK o : o = Target(f) /\ o \in alloc
  <2>1. f.objs \in Seq(alloc) /\ Len(f.paths) < Len(f.objs) /\ f.paths \in Seq(Seq(Segment))
    BY <1>1 DEF FrameOK
  <2>2. Len(f.paths) + 1 \in 1..Len(f.objs)
    BY <2>1
  <2>3. QED
    BY <2>1, <2>2 DEF Target
<1>6. ino[o] # NoIno
  BY <1>5, Numbered
<1>7. /\ f.segs \in Seq(Segment) /\ pc[t] = "walk"
      /\ UNCHANGED <<treeVars, fs, handle, missed>>
  BY <1>1 DEF FrameOK, Hop
<1>8. ASSUME CalmFrame(t)
      PROVE  /\ \A k \in 1..Len(g.paths) : LedTo(g.objs[k], g.paths[k])
             /\ IF g.at = Nil THEN Pathless(ino[Target(g)])
                ELSE Reach(fs, ino[g.at], g.segs) = ino[Target(g)]
  <2>1. \A k \in 1..Len(g.paths) : LedTo(g.objs[k], g.paths[k])
    <3>1. \A k \in 1..Len(f.paths) : LedTo(f.objs[k], f.paths[k])
      BY <1>1, <1>7, <1>8 DEF CalmFrame
    <3>2. QED
      BY <1>3, <1>4, <3>1 DEF Hopped
  <2>2. Reach(fs, ino[a], f.segs) = ino[o]
    <3>1. f.at # Nil
      BY <1>1 DEF Hop
    <3>2. QED
      BY <1>1, <1>2, <1>5, <1>7, <1>8, <3>1 DEF CalmFrame
  <2>3. CASE parents[a] = NoParents
    <3>1. ASSUME missed = {} PROVE ~IsLinked(ino[o])
      <4>1. ~IsLinked(ino[a])
        BY <1>2, <2>3, <3>1 DEF TreeKnows, ParentsKnown
      <4>2. \A m : NextIn(fs, ino[a], m) = NoIno
        BY <3>1, <4>1 DEF TreeKnows, DirsKnown, IsEmpty, NextIn
      <4>3. Reach(fs, ino[a], f.segs) \in {ino[a], NoIno}
        BY <1>7, <4>2, ReachDead
      <4>4. ino[o] = ino[a]
        BY <1>6, <2>2, <4>3
      <4>5. QED
        BY <4>1, <4>4
    <3>2. Pathless(ino[Target(g)])
      BY <1>4, <1>5, <3>1 DEF Pathless
    <3>3. g.at = Nil
      BY <1>2, <1>3, <2>3 DEF Hopped
    <3>4. QED
      BY <2>1, <3>2, <3>3
  <2>4. CASE parents[a] # NoParents
    <3>1. PICK e : e = Newest(parents[a])
      OBVIOUS
    <3>2. In(e, parents[a])
      <4>1. parents[a] \in Seq([name : Name, node : alloc])
        BY <1>2 DEF TableOK
      <4>2. Len(parents[a]) \in 1..Len(parents[a])
        BY <2>4, <4>1 DEF NoParents
      <4>3. QED
        BY <3>1, <4>2 DEF In, Newest
    <3>3. e.node \in alloc /\ e.name \in Name
      BY <1>2, <3>2, ParentEntry
    <3>4. InTrue(e, a)
      BY <1>2, <3>2 DEF AllTrue
    <3>5. ~ \E u \in Thread : Undoing(u, e)
      <4>1. \A u \in Thread \ {t} : fr[u].op \notin Changes
        BY <1>8 DEF CalmFrame
      <4>2. QED
        BY <1>7, <4>1 DEF Undoing
    <3>6. ino[e.node] \in DirIno /\ fs[ino[e.node]][e.name] = ino[a]
      BY <3>4, <3>5 DEF InTrue
    <3>7. NextIn(fs, ino[e.node], e.name) = ino[a]
      BY <3>3, <3>6 DEF NextIn
    <3>8. PICK m, d : m = e.name /\ d = ino[e.node]
      OBVIOUS
    <3>9. m \in Segment
      BY <3>3, <3>8 DEF Segment
    <3>10. Reach(fs, d, <<m>> \o f.segs) = Reach(fs, NextIn(fs, d, m), f.segs)
      BY <1>7, <3>9, ReachHead
    <3>11. Reach(fs, d, <<m>> \o f.segs) = ino[o]
      BY <2>2, <3>7, <3>8, <3>10
    <3>12. g.at = e.node /\ g.segs = <<m>> \o f.segs
      BY <1>2, <1>3, <2>4, <3>1, <3>8 DEF Hopped
    <3>13. g.at # Nil
      BY <3>3, <3>12, Numbered
    <3>14. QED
      BY <1>4, <1>5, <2>1, <3>8, <3>11, <3>12, <3>13
  <2>5. QED
    BY <2>3, <2>4
<1>9. QED
  BY <1>1, <1>3, <1>4, <1>7, <1>8, WalkCalm

(* The end of a walk: the names collected lead from the root, or no name   *)
(* does.                                                                   *)
LEMMA FoundCalm ==
  ASSUME TableOK, FramesOK, FramesOK', RootKnown, CalmLeads, NEW t \in Thread, Found(t)
  PROVE  CalmLeads'
<1>1. PICK f : f = fr[t]
  OBVIOUS
<1>2. /\ FrameOK(alloc, "walk", f) /\ pc[t] = "walk" /\ f.at \in {RootObj, Nil}
      /\ UNCHANGED <<treeVars, fs, handle, missed>>
  BY <1>1 DEF Found, FramesOK
<1>3. PICK p : p = IF f.at = RootObj THEN f.segs ELSE Orphan
  OBVIOUS
<1>4. \E g : /\ Carried(f, g) /\ g.paths = Append(f.paths, p)
             /\ \/ Go(t, "walk", g) /\ g.at = Target(g) /\ g.segs = <<>>
                \/ Go(t, Then(f.op), g)
  BY <1>1, <1>3, FoundStep
<1>5. PICK g : /\ Carried(f, g) /\ g.paths = Append(f.paths, p)
               /\ \/ Go(t, "walk", g) /\ g.at = Target(g) /\ g.segs = <<>>
                  \/ Go(t, Then(f.op), g)
  BY <1>4
<1>6. g.op = f.op /\ g.objs = f.objs /\ g.calm = f.calm
  BY <1>5 DEF Carried, Kept, Same
<1>7. PICK n \in Nat : n = Len(f.paths)
  BY <1>2 DEF FrameOK
<1>8. /\ Len(g.paths) = n + 1 /\ g.paths[n + 1] = p
      /\ \A k \in 1..n : g.paths[k] = f.paths[k]
  <2>1. f.paths \in Seq(Seq(Segment))
    BY <1>2 DEF FrameOK
  <2>2. QED
    BY <1>5, <1>7, <2>1
<1>9. ASSUME CalmFrame(t) PROVE \A k \in 1..Len(g.paths) : LedTo(g.objs[k], g.paths[k])
  <2>1. \A k \in 1..n : LedTo(f.objs[k], f.paths[k])
    BY <1>1, <1>2, <1>7, <1>9 DEF CalmFrame
  <2>2. PICK o : o = Target(f) /\ o = f.objs[n + 1]
    BY <1>7 DEF Target
  <2>3. LedTo(o, p)
    <3>1. CASE f.at = RootObj
      <4>1. RootObj # Nil /\ ino[RootObj] = RootIno
        BY Numbers DEF RootKnown
      <4>2. Reach(fs, ino[f.at], f.segs) = ino[o]
        BY <1>1, <1>2, <1>9, <2>2, <3>1, <4>1 DEF CalmFrame
      <4>3. Resolve(f.segs) = ino[o]
        BY <3>1, <4>1, <4>2 DEF Resolve
      <4>4. QED
        BY <1>3, <3>1, <4>3 DEF LedTo
    <3>2. CASE f.at # RootObj
      <4>1. f.at = Nil
        BY <1>2, <3>2
      <4>2. Pathless(ino[o])
        BY <1>1, <1>2, <1>9, <2>2, <4>1 DEF CalmFrame
      <4>3. QED
        BY <1>3, <3>2, <4>2 DEF LedTo
    <3>3. QED
      BY <3>1, <3>2
  <2>4. ASSUME NEW k \in 1..n + 1 PROVE LedTo(g.objs[k], g.paths[k])
    <3>1. CASE k \in 1..n
      BY <1>6, <1>8, <2>1, <3>1
    <3>2. CASE k = n + 1
      <4>1. g.objs[k] = o /\ g.paths[k] = p
        BY <1>6, <1>8, <2>2, <3>2
      <4>2. QED
        BY <2>3, <4>1
    <3>3. QED
      BY <3>1, <3>2
  <2>5. QED
    BY <1>8, <2>4
<1>10. CASE Go(t, "walk", g) /\ g.at = Target(g) /\ g.segs = <<>>
  <2>1. FrameOK(alloc', "walk", g) /\ alloc' = alloc
    BY <1>2, <1>10 DEF Go, FramesOK, treeVars
  <2>2. Target(g) \in alloc
    <3>1. g.objs \in Seq(alloc) /\ Len(g.paths) < Len(g.objs) /\ g.paths \in Seq(Seq(Segment))
      BY <2>1 DEF FrameOK
    <3>2. Len(g.paths) + 1 \in 1..Len(g.objs)
      BY <3>1
    <3>3. QED
      BY <3>1, <3>2 DEF Target
  <2>3. g.at # Nil
    BY <1>10, <2>2, Numbered
  <2>4. Reach(fs, ino[g.at], g.segs) = ino[Target(g)]
    BY <1>10, ReachEmpty
  <2>5. QED
    BY <1>1, <1>2, <1>6, <1>9, <1>10, <2>3, <2>4, WalkCalm
<1>11. CASE Go(t, Then(f.op), g)
  <2>1. Then(f.op) # "walk"
    BY DEF Then
  <2>2. QED
    BY <1>1, <1>2, <1>6, <1>9, <1>11, <2>1, WalkCalm
<1>12. QED
  BY <1>5, <1>10, <1>11

(* OpenDir hands its path to the handle.                                   *)
LEMMA OpenedCalm ==
  ASSUME TableOK, FramesOK, CalmLeads, NEW t \in Thread, Opened(t)
  PROVE  CalmLeads'
<1>1. PICK f : f = fr[t] /\ pc[t] = "open" /\ FrameOK(alloc, "open", f)
  BY DEF Opened, FramesOK
<1>2. /\ handle' = [node |-> f.objs[1], path |-> f.paths[1], calm |-> f.calm]
      /\ Go(t, "idle", IdleFrame) /\ UNCHANGED <<treeVars, fs, missed>>
  BY <1>1 DEF Opened, Finish
<1>3. /\ pc'[t] = "idle" /\ fr'[t] = IdleFrame
      /\ \A u \in Thread \ {t} : pc'[u] = pc[u] /\ fr'[u] = fr[u]
  BY <1>2 DEF Go, FramesOK
<1>4. fs' = fs /\ ino' = ino /\ alloc' = alloc /\ missed' = missed
  BY <1>2 DEF treeVars
<1>5. Grown
  BY <1>4, SameGrown
<1>6. IdleFrame.op \notin Changes
  BY DEF IdleFrame, Changes
<1>7. ASSUME NEW u \in Thread \ {t}, pc'[u] # "idle", fr'[u].calm PROVE CalmFrame(u)'
  <2>1. \A v \in Thread \ {t} : pc'[v] = pc[v] /\ StillOn(fr[v], fr'[v])
    BY <1>3 DEF StillOn
  <2>2. fr'[t].op \in Changes => fr[t].op \in Changes
    BY <1>3, <1>6
  <2>3. QED
    BY <1>5, <1>7, <2>1, <2>2, CalmRest
<1>8. ASSUME handle'.calm
      PROVE  /\ handle'.node \in alloc' /\ LedTo(handle.node, handle.path)'
             /\ \A u \in Thread : fr'[u].op \notin Changes
  <2>1. PICK o, p : o = f.objs[1] /\ p = f.paths[1]
    OBVIOUS
  <2>2. handle'.node = o /\ handle'.path = p /\ f.calm
    BY <1>2, <1>8, <2>1
  <2>3. CalmFrame(t)
    BY <1>1, <2>2 DEF CalmLeads
  <2>4. /\ f.objs \in Seq(alloc) /\ f.paths \in Seq(Seq(Segment)) /\ Len(f.objs) = 1
        /\ Len(f.paths) = 1
    <3>1. f.op = "OpenDir" /\ f.objs \in Seq(alloc) /\ f.paths \in Seq(Seq(Segment))
      BY <1>1 DEF FrameOK, OpsAt
    <3>2. Len(f.objs) = 1
      BY <1>1, <3>1 DEF FrameOK
    <3>3. Len(f.paths) = Len(f.objs)
      BY <1>1 DEF FrameOK
    <3>4. QED
      BY <3>1, <3>2, <3>3
  <2>5. o \in alloc /\ p \in Seq(Segment) /\ 1 \in 1..Len(f.paths)
    BY <2>1, <2>4
  <2>6. LedTo(o, p)
    BY <1>1, <2>1, <2>3, <2>5 DEF CalmFrame
  <2>7. LedTo(o, p)'
    BY <1>4, <2>6 DEF LedTo, Resolve, IsLinked, Pathless
  <2>8. LedTo(handle.node, handle.path)'
    BY <2>2, <2>7
  <2>9. \A u \in Thread : fr'[u].op \notin Changes
    BY <1>3, <1>6, <2>3 DEF CalmFrame
  <2>10. QED
    BY <1>4, <2>2, <2>5, <2>8, <2>9
<1>9. CalmHandle'
  BY <1>8 DEF CalmHandle
<1>10. QED
  BY <1>3, <1>7, <1>9 DEF CalmLeads

(* A step that leaves the tree and the file system as they are, of a       *)
(* request that has its paths.                                             *)
LEMMA GoCalm ==
  ASSUME TableOK, FramesOK, CalmLeads, UNCHANGED <<treeVars, fs, handle>>,
         missed \subseteq missed', NEW t \in Thread, NEW l, NEW f, NEW g, f = fr[t], Go(t, l, g),
         \/ l = "idle" /\ g = IdleFrame
         \/ /\ pc[t] \in {"list", "look"} /\ l \in {"look", "apply"}
            /\ g.op = f.op /\ g.objs = f.objs /\ g.paths = f.paths /\ (g.calm => f.calm)
  PROVE  CalmLeads'
<1>1. /\ pc'[t] = l /\ fr'[t] = g
      /\ \A u \in Thread \ {t} : pc'[u] = pc[u] /\ fr'[u] = fr[u]
  BY DEF Go, FramesOK
<1>2. \A u \in Thread \ {t} : pc'[u] = pc[u] /\ StillOn(fr[u], fr'[u])
  BY <1>1 DEF StillOn
<1>3. fs' = fs /\ ino' = ino /\ alloc' = alloc /\ handle' = handle
  BY DEF treeVars
<1>4. Grown /\ alloc \subseteq alloc'
  BY <1>3, SameGrown
<1>5. \/ pc'[t] = "idle" /\ g = IdleFrame
      \/ /\ pc[t] # "idle" /\ pc'[t] # "walk"
         /\ g.op = f.op /\ g.objs = f.objs /\ g.paths = f.paths /\ (g.calm => f.calm)
         /\ pc[t] = "apply" /\ f.op \in Changes => pc'[t] = "apply"
  BY <1>1
<1>6. f = fr[t] /\ g = fr'[t]
  BY <1>1
<1>7. QED
  BY <1>2, <1>3, <1>4, <1>5, <1>6, CalmGoes

LEMMA PassCalm ==
  ASSUME TableOK, FramesOK, CalmLeads, NEW t \in Thread,
         FsRefuses(t) \/ FsUse(t) \/ List(t) \/ Look(t)
  PROVE  CalmLeads'
<1>1. UNCHANGED <<treeVars, fs, handle>> /\ missed \subseteq missed'
  BY DEF FsRefuses, FsUse, List, Look
<1>2. PICK f : f = fr[t] /\ FrameOK(alloc, pc[t], f) /\ DOMAIN f = Fields
  BY FrameDomain DEF FramesOK, FrameOK
<1>3. CASE FsRefuses(t) \/ FsUse(t)
  <2>1. Go(t, "idle", IdleFrame)
    BY <1>3 DEF FsRefuses, FsUse, Finish
  <2>2. QED
    BY <1>1, <2>1, GoCalm
<1>4. CASE List(t)
  <2>1. PICK g : Go(t, After(g), g) /\ (g = IdleFrame \/ Going(f, g))
    BY <1>2, <1>4, ListStep
  <2>2. CASE g = IdleFrame
    <3>1. After(g) = "idle"
      BY <2>2 DEF After, IdleFrame
    <3>2. QED
      BY <1>1, <2>1, <2>2, <3>1, GoCalm
  <2>3. CASE Going(f, g)
    <3>1. /\ g.op = f.op /\ g.objs = f.objs /\ g.paths = f.paths /\ (g.calm => f.calm)
          /\ After(g) = "look" /\ pc[t] = "list"
      BY <1>4, <2>3 DEF Going, Same, After, List
    <3>2. f = fr[t]
      BY <1>2
    <3>3. QED
      BY <1>1, <2>1, <3>1, <3>2, GoCalm
  <2>4. QED
    BY <2>1, <2>2, <2>3
<1>5. CASE Look(t)
  <2>1. pc[t] = "look" /\ f.op # "ReadPlus" => f.todo = {}
    BY <1>2, <1>5 DEF Look, FrameOK
  <2>2. CASE \E g \in Nexts(f) : Go(t, After(g), g)
    <3>1. PICK g \in Nexts(f) : Go(t, After(g), g)
      BY <2>2
    <3>2. g = IdleFrame \/ Going(f, g)
      <4>1. f.op # "ReadPlus" => f.todo = {}
        BY <1>2 DEF FrameOK
      <4>2. QED
        BY <1>2, <4>1, NextGoes
    <3>3. CASE g = IdleFrame
      <4>1. After(g) = "idle"
        BY <3>3 DEF After, IdleFrame
      <4>2. QED
        BY <1>1, <3>1, <3>3, <4>1, GoCalm
    <3>4. CASE Going(f, g)
      <4>1. /\ g.op = f.op /\ g.objs = f.objs /\ g.paths = f.paths /\ (g.calm => f.calm)
            /\ After(g) = "look" /\ pc[t] = "look"
        BY <1>5, <3>4 DEF Going, Same, After, Look
      <4>2. f = fr[t]
        BY <1>2
      <4>3. QED
        BY <1>1, <3>1, <4>1, <4>2, GoCalm
    <3>5. QED
      BY <3>2, <3>3, <3>4
  <2>3. CASE \E i : Go(t, "apply", [f EXCEPT !.cino = i])
    <3>1. PICK i, g : g = [f EXCEPT !.cino = i] /\ Go(t, "apply", g)
      BY <2>3
    <3>2. g.op = f.op /\ g.objs = f.objs /\ g.paths = f.paths /\ g.calm = f.calm
      BY <1>2, <3>1 DEF Fields
    <3>3. pc[t] = "look" /\ f = fr[t]
      BY <1>2, <1>5 DEF Look
    <3>4. QED
      BY <1>1, <3>1, <3>2, <3>3, GoCalm
  <2>4. QED
    <3>1. f = fr[t]
      BY <1>2
    <3>2. \/ \E i \in Ino \cup {NoIno} : Learns(t, f, i)
          \/ \E g \in Nexts(f) : Go(t, After(g), g)
      BY <1>5, <3>1, LookStep
    <3>3. ASSUME NEW i, Learns(t, f, i) PROVE Go(t, "apply", [f EXCEPT !.cino = i])
      BY <3>3 DEF Learns
    <3>4. QED
      BY <2>2, <2>3, <3>2, <3>3
<1>6. QED
  BY <1>3, <1>4, <1>5

(* A new entry: the paths there are lead where they led.                   *)
LEMMA PutCalm ==
  ASSUME TableOK, FramesOK, CalmLeads, NEW t \in Thread, pc[t] = "call",
         NEW f, f = fr[t], NEW i \in Ino, FsPut(t, i), missed \subseteq missed',
         nodes[i] = Nil \/ IsLinked(i) \/ missed' # {}
  PROVE  CalmLeads'
<1>1. PICK d, m : d = Resolve(LastOf(f.paths)) /\ m = f.names[1]
  OBVIOUS
<1>2. /\ d \in DirIno /\ fs[d][m] = NoIno /\ fs' = [fs EXCEPT ![d][m] = i]
      /\ Go(t, "look", f) /\ UNCHANGED <<treeVars, handle>>
  BY <1>1 DEF FsPut
<1>3. \A e \in DirIno, n \in Name : fs'[e][n] = fs[e][n] \/ (e = d /\ n = m /\ fs'[e][n] = i)
  <2>1. fs \in [DirIno -> [Name -> Ino \cup {NoIno}]]
    BY DEF TableOK
  <2>2. QED
    BY <1>2, <2>1
<1>4. Grows(fs, fs')
  BY <1>2, <1>3 DEF Grows
<1>5. ASSUME NEW j \in Ino, nodes[j] # Nil, IsLinked(j)', missed' = {} PROVE IsLinked(j)
  <2>1. CASE j = i
    BY <1>5, <2>1
  <2>2. CASE j # i /\ j # RootIno
    <3>1. PICK e \in DirIno, n \in Name : fs'[e][n] = j
      BY <1>5, <2>2 DEF IsLinked
    <3>2. fs[e][n] = j
      BY <1>3, <2>2, <3>1
    <3>3. QED
      BY <3>2 DEF IsLinked
  <2>3. CASE j = RootIno
    BY <2>3 DEF IsLinked
  <2>4. QED
    BY <2>1, <2>2, <2>3
<1>6. ino' = ino /\ alloc' = alloc /\ handle' = handle
  BY <1>2 DEF treeVars
<1>7. Grown /\ alloc \subseteq alloc'
  <2>1. ASSUME NEW j \in Ino, nodes[j] # Nil, Pathless(j) PROVE Pathless(j)'
    BY <1>5, <2>1 DEF Pathless
  <2>2. QED
    BY <1>4, <1>6, <2>1 DEF Grown
<1>8. /\ pc'[t] = "look" /\ fr'[t] = f
      /\ \A u \in Thread \ {t} : pc'[u] = pc[u] /\ fr'[u] = fr[u]
  BY <1>2 DEF Go, FramesOK
<1>9. \A u \in Thread \ {t} : pc'[u] = pc[u] /\ StillOn(fr[u], fr'[u])
  BY <1>8 DEF StillOn
<1>10. /\ pc[t] # "idle" /\ pc'[t] # "walk"
       /\ pc[t] = "apply" /\ f.op \in Changes => pc'[t] = "apply"
  BY <1>8
<1>11. QED
  BY <1>6, <1>7, <1>8, <1>9, <1>10, CalmGoes

(* A removal or a rename: no request overlaps it that is calm.             *)
LEMMA ChangeCalm ==
  ASSUME TableOK, FramesOK, CalmLeads, NEW t \in Thread, pc[t] = "call",
         NEW f, f = fr[t], f.op \in Changes, Go(t, "apply", f),
         UNCHANGED <<treeVars, handle>>
  PROVE  CalmLeads'
<1>1. /\ pc'[t] = "apply" /\ fr'[t] = f
      /\ \A u \in Thread \ {t} : pc'[u] = pc[u] /\ fr'[u] = fr[u]
  BY DEF Go, FramesOK
<1>2. ASSUME NEW u \in Thread \ {t}, pc'[u] # "idle", fr'[u].calm PROVE FALSE
  <2>1. CalmFrame(u)
    BY <1>1, <1>2 DEF CalmLeads
  <2>2. QED
    BY <2>1 DEF CalmFrame
<1>3. handle' = handle /\ ~(handle # NoHandle /\ handle.calm)
  BY DEF CalmLeads, CalmHandle
<1>4. CalmHandle'
  BY <1>3 DEF CalmHandle
<1>5. ASSUME fr'[t].calm PROVE CalmFrame(t)'
  <2>1. CalmFrame(t)
    BY <1>1, <1>5 DEF CalmLeads
  <2>2. \A u \in Thread \ {t} : fr'[u].op \notin Changes
    BY <1>1, <2>1 DEF CalmFrame
  <2>3. pc'[t] = "apply" /\ fr'[t].op \in Changes
    BY <1>1
  <2>4. QED
    BY <2>2, <2>3 DEF CalmFrame
<1>6. QED
  BY <1>2, <1>4, <1>5 DEF CalmLeads

LEMMA FileSystemCalm ==
  ASSUME TableOK, FramesOK, CalmLeads, NEW t \in Thread, FileSystem(t), blame' = {}
  PROVE  CalmLeads'
<1>1. CASE FsRefuses(t) \/ FsUse(t)
  BY <1>1, PassCalm
<1>2. CASE FsRemove(t) \/ FsRename(t)
  <2>1. PICK f : f = fr[t]
    OBVIOUS
  <2>2. pc[t] = "call" /\ f.op \in Changes /\ Go(t, "apply", f)
    BY <1>2, <2>1 DEF FsRemove, FsRename, Call, Changes
  <2>3. UNCHANGED <<treeVars, handle>>
    BY <1>2 DEF FsRemove, FsRename
  <2>4. QED
    BY <2>1, <2>2, <2>3, ChangeCalm
<1>3. CASE FsMake(t)
  <2>1. PICK i \in Ino : /\ FsPut(t, i) /\ missed \subseteq missed'
                         /\ nodes[i] = Nil \/ missed' # {}
    BY <1>3 DEF FsMake
  <2>2. pc[t] = "call"
    BY <1>3 DEF FsMake, Call
  <2>3. QED
    BY <2>1, <2>2, PutCalm
<1>4. CASE FsLink(t)
  <2>1. PICK f, i : f = fr[t] /\ i = Resolve(f.paths[1])
    OBVIOUS
  <2>2. pc[t] = "call" /\ f.op = "Link" /\ i \in Ino /\ FsPut(t, i) /\ missed' = missed
    BY <1>4, <2>1 DEF FsLink, Call
  <2>3. FrameOK(alloc, "call", f)
    BY <2>1, <2>2 DEF FramesOK
  <2>4. f.paths \in Seq(Seq(Segment)) /\ Len(f.paths) = 2
    BY <2>2, <2>3 DEF FrameOK
  <2>5. PICK w : w = f.paths[1] /\ w \in Seq(Segment)
    BY <2>4
  <2>6. i # NoIno /\ Resolve(w) = i
    BY <2>1, <2>2, <2>5, Numbers
  <2>7. IsLinked(Resolve(w))
    BY <2>5, <2>6, ResolveLinked
  <2>8. IsLinked(i)
    BY <2>6, <2>7
  <2>9. QED
    BY <2>2, <2>8, PutCalm
<1>5. QED
  BY <1>1, <1>2, <1>3, <1>4 DEF FileSystem

(* A change of the tree: what it does, the file system has done before.    *)
LEMMA ChangedCalm ==
  ASSUME TableOK, FramesOK, CalmLeads, NEW t \in Thread, pc[t] = "apply", Changed(t),
         alloc \subseteq alloc', \A x \in alloc : ino'[x] = ino[x]
  PROVE  CalmLeads'
<1>1. PICK f : f = fr[t] /\ FrameOK(alloc, "apply", f) /\ DOMAIN f = Fields
  BY FrameDomain DEF FramesOK, FrameOK
<1>2. PICK g \in Nexts(f) :
        /\ pc' = [pc EXCEPT ![t] = After(g)]
        /\ fr' = [u \in Thread |->
             IF u = t THEN g
             ELSE IF pc[u] = "walk" /\ parents' # parents THEN Noted(fr[u])
             ELSE fr[u]]
  BY <1>1 DEF Changed, After
<1>3. fs' = fs /\ handle' = handle /\ missed' = missed
  BY DEF Changed
<1>4. Grown
  BY <1>3, SameGrown
<1>5. ASSUME NEW u \in Thread \ {t} PROVE pc'[u] = pc[u] /\ StillOn(fr[u], fr'[u])
  <2>1. pc'[u] = pc[u]
    <3>1. pc \in [Thread -> Label]
      BY DEF FramesOK
    <3>2. pc' = [pc EXCEPT ![t] = After(g)]
      BY <1>2
    <3>3. QED
      BY <3>1, <3>2
  <2>2. PICK h, k : h = fr[u] /\ k = fr'[u] /\ DOMAIN h = Fields
    BY FrameDomain DEF FramesOK, FrameOK
  <2>3. k = h \/ k = Noted(h)
    BY <1>2, <2>2
  <2>4. ASSUME k = h PROVE StillOn(h, k)
    BY <2>4 DEF StillOn
  <2>5. ASSUME k = Noted(h) PROVE StillOn(h, k)
    <3>1. PICK x, y : k = [h EXCEPT !.seen = x, !.moved = y]
      BY <2>5 DEF Noted
    <3>2. QED
      BY <2>2, <3>1 DEF StillOn, Fields
  <2>6. StillOn(h, k)
    BY <2>3, <2>4, <2>5
  <2>7. QED
    BY <2>1, <2>2, <2>6
<1>6. pc'[t] = After(g) /\ fr'[t] = g
  BY <1>2 DEF FramesOK
<1>7. g = IdleFrame \/ Going(f, g)
  <2>1. f.op # "ReadPlus" => f.todo = {}
    BY <1>1 DEF FrameOK
  <2>2. QED
    BY <1>1, <1>2, <2>1, NextGoes
<1>8. \/ pc'[t] = "idle" /\ g = IdleFrame
      \/ /\ pc[t] # "idle" /\ pc'[t] # "walk"
         /\ g.op = f.op /\ g.objs = f.objs /\ g.paths = f.paths /\ (g.calm => f.calm)
         /\ pc[t] = "apply" /\ f.op \in Changes => pc'[t] = "apply"
  <2>1. CASE g = IdleFrame
    BY <1>6, <2>1 DEF After, IdleFrame
  <2>2. CASE Going(f, g)
    BY <1>6, <2>2 DEF Going, Same, After, Changes
  <2>3. QED
    BY <1>7, <2>1, <2>2
<1>9. f = fr[t] /\ g = fr'[t]
  BY <1>1, <1>6
<1>10. QED
  BY <1>3, <1>4, <1>5, <1>8, <1>9, CalmGoes

(* No inode is taken out or gets another number.                           *)
LEMMA NumbersStay ==
  ASSUME TableOK, FramesOK, NEW t \in Thread, AddChild(t) \/ RmChild(t) \/ MvChild(t)
  PROVE  alloc \subseteq alloc' /\ \A x \in alloc : ino'[x] = ino[x]
<1>1. pc[t] = "apply" /\ fs' = fs
  BY DEF AddChild, RmChild, MvChild, Changed
<1>2. CASE AddChild(t)
  <2>1. PICK f, p, m, i : f = fr[t] /\ p = Dir(f) /\ m = f.names[1] /\ i = f.cino
    OBVIOUS
  <2>2. i # NoIno /\ T!Add(p, m, i) /\ FrameOK(alloc, "apply", f)
    BY <1>1, <1>2, <2>1 DEF AddChild, FramesOK
  <2>3. i \in Ino
    BY <2>1, <2>2 DEF FrameOK
  <2>4. p \in alloc /\ m \in Name
    <3>1. f.op \in Adders
      BY <2>1, <2>2 DEF FrameOK, OpsAt, Changes
    <3>2. QED
      BY <1>1, <2>1, <3>1, FirstParts
  <2>5. PICK c : Added(p, m, i, c)
    BY <1>1, <2>2, <2>3, <2>4, AddTable
  <2>6. QED
    BY <2>5 DEF Added
<1>3. CASE RmChild(t) \/ MvChild(t)
  <2>1. alloc' = alloc /\ ino' = ino
    BY <1>3 DEF RmChild, MvChild, T!Remove, T!Move, treeVars
  <2>2. QED
    BY <2>1
<1>4. QED
  BY <1>2, <1>3

LEMMA TreeCalm ==
  ASSUME TableOK, FramesOK, CalmLeads, NEW t \in Thread,
         AddChild(t) \/ RmChild(t) \/ MvChild(t)
  PROVE  CalmLeads'
<1>1. pc[t] = "apply" /\ Changed(t)
  BY DEF AddChild, RmChild, MvChild
<1>2. alloc \subseteq alloc' /\ \A x \in alloc : ino'[x] = ino[x]
  BY NumbersStay
<1>3. QED
  BY <1>1, <1>2, ChangedCalm

(* The root is never forgotten.                                            *)
LEMMA RootStays ==
  ASSUME TableOK, FramesOK, RootKnown, NEW t \in Thread,
         Kernel(t) \/ FileSystem(t) \/ Bridge(t)
  PROVE  RootKnown'
<1>1. CASE AddChild(t) \/ RmChild(t) \/ MvChild(t)
  BY <1>1, NumbersStay DEF RootKnown
<1>2. CASE Kernel(t)
  BY <1>2, KernelFrames DEF RootKnown, treeVars
<1>3. CASE FileSystem(t)
  <2>1. UNCHANGED treeVars
    BY <1>3 DEF FileSystem, FsRefuses, FsUse, FsMake, FsLink, FsPut, FsRemove, FsRename
  <2>2. QED
    BY <2>1 DEF RootKnown, treeVars
<1>4. CASE Hop(t) \/ Found(t) \/ Opened(t) \/ List(t) \/ Look(t)
  <2>1. UNCHANGED treeVars
    BY <1>4 DEF Hop, Found, Opened, List, Look
  <2>2. QED
    BY <2>1 DEF RootKnown, treeVars
<1>5. QED
  BY <1>1, <1>2, <1>3, <1>4 DEF Bridge

LEMMA StepCalm ==
  ASSUME TableOK, FramesOK, AllTrue, FramesOK', RootKnown, missed = {} => TreeKnows,
         CalmLeads, blame' = {}, NEW t \in Thread, Kernel(t) \/ FileSystem(t) \/ Bridge(t)
  PROVE  CalmLeads'
<1>1. CASE Kernel(t)
  BY <1>1, KernelCalm
<1>2. CASE FileSystem(t)
  BY <1>2, FileSystemCalm
<1>3. CASE Hop(t)
  BY <1>3, HopCalm
<1>4. CASE Found(t)
  BY <1>4, FoundCalm
<1>5. CASE Opened(t)
  BY <1>5, OpenedCalm
<1>6. CASE List(t) \/ Look(t)
  BY <1>6, PassCalm
<1>7. CASE AddChild(t) \/ RmChild(t) \/ MvChild(t)
  BY <1>7, TreeCalm
<1>8. QED
  BY <1>1, <1>2, <1>3, <1>4, <1>5, <1>6, <1>7 DEF Bridge

LEMMA StartKnows == ASSUME Init PROVE RootKnown /\ TreeKnows /\ CalmLeads
<1>1. /\ fs = StartFs /\ alloc \subseteq Obj /\ RootObj \in alloc
      /\ \A o \in alloc : ino[o] = o
      /\ \A d \in DirIno, m \in Name :
           fs[d][m] # NoIno => fs[d][m] \in alloc /\ fs[d][m] # RootObj /\ d \in alloc
  BY StartTypes
<1>2. TableOK /\ alloc = {i \in Ino : IsLinked(i)}
  BY StartTable DEF Init
<1>3. /\ pc = [t \in Thread |-> "idle"] /\ fr = [t \in Thread |-> IdleFrame]
      /\ handle = NoHandle
      /\ \A o \in Obj, m \in Name : children[o][m] = IF o \in DirIno THEN fs[o][m] ELSE Nil
  BY DEF Init
<1>4. RootKnown /\ DirsKnown
  <2>1. ino[RootObj] = RootIno
    BY <1>1
  <2>2. ASSUME NEW d \in DirIno, ~IsEmpty(d) PROVE IsLinked(d)
    BY <1>1, <1>2, <2>2 DEF IsEmpty
  <2>3. QED
    BY <1>1, <2>1, <2>2 DEF RootKnown, DirsKnown
<1>5. ASSUME NEW d \in DirIno, NEW m \in Name, fs[d][m] # NoIno
      PROVE  HasEntry(d, m) /\ nodes[fs[d][m]] # Nil
  <2>1. PICK c : c = fs[d][m]
    OBVIOUS
  <2>2. c \in alloc /\ d \in alloc /\ d \in Obj /\ ino[c] = c /\ ino[d] = d
    BY <1>1, <1>5, <2>1
  <2>3. nodes[c] = c /\ c # Nil
    BY <1>2, <2>2, Numbered
  <2>4. children[d][m] = c
    BY <1>3, <2>1, <2>2
  <2>5. HasEntry(d, m)
    BY <2>1, <2>2, <2>3, <2>4 DEF HasEntry
  <2>6. QED
    BY <2>1, <2>3, <2>5
<1>6. EntriesKnown
  BY <1>5 DEF EntriesKnown
<1>7. ParentsKnown
  <2>1. ASSUME NEW o \in alloc \ {RootObj} PROVE parents[o] # NoParents
    <3>1. o \in Obj
      BY <1>1
    <3>2. PICK d \in DirIno, m \in Name : parents[o] = <<T!EntryOf(m, d)>>
      BY <3>1, StartParents
    <3>3. QED
      BY <3>2 DEF NoParents
  <2>2. QED
    BY <2>1 DEF ParentsKnown
<1>8. \A t \in Thread : Taking(t)
  <2>1. IdleFrame.op = "none"
    BY DEF IdleFrame
  <2>2. QED
    BY <1>3, <2>1 DEF Taking, Changes
<1>9. CalmLeads
  BY <1>3 DEF CalmLeads, CalmHandle
<1>10. QED
  BY <1>4, <1>6, <1>7, <1>8, <1>9 DEF TreeKnows

(* While nothing is renamed or removed, entries only come, and a path that *)
(* leads to its inode goes on leading there, while lookups, listings, links*)
(* and new files change the tree and the file system between any two of    *)
(* its steps, and any of these may fail (file.go:28-70, bridge.go:248-364).*)
(* As long as no lookup of an existing entry has failed and no number has  *)
(* been used again, what the file system has, the tree has too, or a       *)
(* request is about to bring it there.                                     *)
THEOREM CalmInvariant == Spec => []CalmInv
<1>1. Init => CalmInv
  BY StartTable, StartFrames, StartEntries, EntriesIn, StartKnows DEF CalmInv, WalkInv
<1>2. ASSUME CalmInv, [Next]_vars PROVE CalmInv'
  <2>1. WalkInv /\ TableOK /\ FramesOK /\ RootKnown
    BY <1>2 DEF CalmInv, WalkInv
  <2>2. CASE Next
    <3>1. PICK t \in Thread : Kernel(t) \/ FileSystem(t) \/ Bridge(t)
      BY <2>2 DEF Next
    <3>2. WalkInv' /\ RootKnown'
      BY <2>1, <2>2, <3>1, WalkStep, RootStays
    <3>3. ASSUME blame' = {} PROVE CalmLeads' /\ (missed' = {} => TreeKnows')
      <4>1. blame = {}
        BY <2>1, <3>1, <3>3, BlameStays
      <4>2. /\ EntriesTrue /\ WritesTrue /\ CalmLeads /\ AllTrue
            /\ missed = {} => TreeKnows
        BY <1>2, <4>1, EntriesIn DEF CalmInv, WalkInv
      <4>3. TableOK' /\ FramesOK'
        BY <3>2 DEF WalkInv
      <4>4. CalmLeads'
        BY <2>1, <3>1, <3>3, <4>2, <4>3, StepCalm
      <4>5. ASSUME missed' = {} PROVE TreeKnows'
        <5>1. missed = {}
          BY <3>1, <4>5, MissedGrows
        <5>2. QED
          BY <2>1, <3>1, <3>3, <4>2, <4>3, <4>5, <5>1, StepKnows
      <4>6. QED
        BY <4>4, <4>5
    <3>4. QED
      BY <3>2, <3>3 DEF CalmInv
  <2>3. CASE UNCHANGED vars
    <3>1. /\ alloc' = alloc /\ ino' = ino /\ parents' = parents /\ children' = children
          /\ nodes' = nodes /\ fs' = fs /\ handle' = handle /\ pc' = pc /\ fr' = fr
          /\ blame' = blame /\ missed' = missed
      BY <2>3 DEF vars, treeVars, threadVars
    <3>2. WalkInv' /\ RootKnown'
      BY <2>1, <2>3, <3>1, WalkStep DEF RootKnown
    <3>3. DirsKnown' <=> DirsKnown
      BY <3>1 DEF DirsKnown, IsLinked, IsEmpty
    <3>4. EntriesKnown' <=> EntriesKnown
      BY <3>1 DEF EntriesKnown, HasEntry, Bringing
    <3>5. ParentsKnown' <=> ParentsKnown
      BY <3>1 DEF ParentsKnown, IsLinked
    <3>6. \A t \in Thread : Taking(t)' <=> Taking(t)
      BY <3>1 DEF Taking
    <3>7. CalmHandle' <=> CalmHandle
      BY <3>1 DEF CalmHandle, LedTo, Resolve, IsLinked, Pathless
    <3>8. \A t \in Thread : CalmFrame(t)' <=> CalmFrame(t)
      BY <3>1 DEF CalmFrame, LedTo, Resolve, IsLinked, Pathless
    <3>9. TreeKnows' <=> TreeKnows
      BY <3>3, <3>4, <3>5, <3>6 DEF TreeKnows
    <3>10. CalmLeads' <=> CalmLeads
      BY <3>1, <3>7, <3>8 DEF CalmLeads
    <3>11. QED
      BY <1>2, <3>1, <3>2, <3>9, <3>10 DEF CalmInv
  <2>4. QED
    BY <1>2, <2>2, <2>3
<1>3. QED
  BY <1>1, <1>2, PTL DEF Spec

LEMMA CalmFromInv == ASSUME CalmInv PROVE CalmIsLed
<1> SUFFICES ASSUME blame = {}, NEW t \in Thread,
                    pc[t] \in {"call", "look", "list"}, fr[t].calm,
                    NEW k \in 1..Len(fr[t].paths)
             PROVE  LedTo(fr[t].objs[k], fr[t].paths[k])
  BY DEF CalmIsLed
<1>1. CalmLeads
  BY DEF CalmInv
<1>2. CalmFrame(t)
  BY <1>1 DEF CalmLeads
<1>3. QED
  BY <1>2 DEF CalmFrame

(* A request that no rename and no removal overlaps calls the file system  *)
(* with paths that lead to its inodes, whatever else runs or fails between *)
(* the steps of its walk and the call, and on a handle for as long as it is*)
(* open (file.go:28-70).  Only after the tree has missed an entry, by a    *)
(* failed lookup (bridge.go:128-130), may it be the orphan's path instead; *)
(* no path ever leads to another inode.                                    *)
THEOREM CalmLed == Spec => []CalmIsLed
BY CalmInvariant, CalmFromInv, PTL
=============================================================================
