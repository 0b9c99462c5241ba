CONSTANTS
  Thread = {t1, t2}
  Obj = {1, 2, 3, 4}
  Ino = {1, 2, 3}
  Name = {"a", "b"}
  RootObj = 2
  RootIno = 1
  DirIno = {1, 2}
  Backend <- NestedBackend
  Moves <- NestedMoves
  Evictable = {2, 3}
  Ops <- AllOps
  MaxRequests = 5
  CompactRatio = 1
SPECIFICATION Spec
SYMMETRY Symmetry
CHECK_DEADLOCK FALSE
INVARIANTS
  LinkConsistent
  NoLeak
  DeadStaysDead
  LockProgress
  TreeInv
PROPERTIES
  RemovedForGood
  KeepsTree
