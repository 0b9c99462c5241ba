CONSTANTS
  Thread = {t1, t2, t3}
  Obj = {1, 2, 3, 4}
  Ino = {1, 2, 3}
  Name = {"a", "b"}
  RootObj = 2
  RootIno = 1
  DirIno = {1}
  Backend <- FlatBackend
  Moves <- FlatMoves
  Evictable = {2, 3}
  Ops <- AllOps
  MaxRequests = 4
  CompactRatio = 1
SPECIFICATION Spec
SYMMETRY Symmetry
CHECK_DEADLOCK FALSE
INVARIANTS
  RefAccounting
  CountedIsFindable
  LinkedIsFindable
