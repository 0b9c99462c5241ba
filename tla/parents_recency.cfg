CONSTANTS
  Entry = {e1, e2, e3, e4}
  NoEntry = NoEntry
  MinTick = 1
  MaxTime = 12
SPECIFICATION Spec
INVARIANTS
  TypeOK
PROPERTIES
  KeepsRecency
