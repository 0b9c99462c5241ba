CONSTANTS
  Thread = {t1, t2}
  Obj = {1, 2, 3, 4, 5}
  Ino = {1, 2, 3, 4, 5}
  Name = {"a", "b"}
  RootObj = 1
  RootIno = 1
  DirIno = {1, 2, 3}
  StartFs <- WalkFs
  Entries <- WalkEntries
  Moves <- MixedMoves
  Links <- WalkLinks
  Used = {4}
  Listed = {2}
  Ops = {"Use", "Rename"}
  MaxRequests = 3
  MaxDepth = 6
SPECIFICATION Spec
SYMMETRY Symmetry
CHECK_DEADLOCK FALSE
PROPERTIES
  PathExisted
