CONSTANTS
  Thread = {t1, t2}
  Obj = {1, 2, 3, 4}
  Ino = {1, 2, 3}
  Name = {"a", "b"}
  RootObj = 2
  RootIno = 1
  DirIno = {1, 2}
  Backend <- NestedBackend
  Moves <- NestedMoves
  Evictable = {2, 3}
  Ops <- AllOps
  MaxRequests = 3
  CompactRatio = 1
SPECIFICATION FairSpec
CHECK_DEADLOCK FALSE
PROPERTIES
  RequestsEnd
