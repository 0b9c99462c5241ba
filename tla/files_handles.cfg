CONSTANTS
  Thread = {t1, t2}
  Entry = {1, 2, 3, 4, 5, 6}
  NoEntry = 0
  Owner = {o1}
  NoOwner = NoOwner
  Path = {"a"}
  UFh = {1, 2, 3}
  MaxFiles = 3
  MaxCalls = 2
SPECIFICATION Spec
VIEW View
SYMMETRY Symmetry
INVARIANTS
  TypeOK
  SlotsExact
  HandleIsFile
  CallIsTrue
  HeldIsOpen
  NoFileLost
  FileInv
