CONSTANTS
  Thread = {t1, t2, t3}
  Obj = {1, 2, 3, 4, 5}
  Ino = {1, 2, 3, 4, 5}
  Name = {"a", "b"}
  RootObj = 1
  RootIno = 1
  DirIno = {1, 2, 3}
  StartFs <- WalkFs
  Entries <- WalkEntries
  Moves <- WalkMoves
  Links <- WalkLinks
  Used = {4}
  Listed = {2}
  Ops <- AllOps
  MaxRequests = 4
  MaxDepth = 6
SPECIFICATION Spec
SYMMETRY Symmetry
CHECK_DEADLOCK FALSE
INVARIANTS
  TypeOK
  TrueParents
  CalmIsLed
  CalmInv
PROPERTIES
  WalkRegular
