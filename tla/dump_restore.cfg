CONSTANTS
  Obj = {o1, o2, o3, o4}
  Ino = {1, 2, 3}
  Name = {"a", "b"}
  RootObj = o1
  RootIno = 1
  DirIno = {1, 2}
  MaxOps = 4
  MaxFeeds = 4
SPECIFICATION Spec
SYMMETRY Symmetry
CHECK_DEADLOCK FALSE
INVARIANTS
  DumpInv
  RestoredSame
  FinishedTells
  RestoredSound
