CONSTANTS
  Thread = {t1, t2}
  Obj = {1, 2, 3, 4, 5}
  Ino = {1, 2, 3}
  Name = {"a"}
  RootObj = 2
  RootIno = 1
  DirIno = {1, 2}
  Backend <- ChainBackend
  Moves = {}
  Evictable = {2, 3}
  Ops = {"Lookup", "Forget"}
  MaxRequests = 6
  CompactRatio = 1
SPECIFICATION Spec
SYMMETRY Symmetry
CHECK_DEADLOCK FALSE
INVARIANTS
  NoUnknownNode
