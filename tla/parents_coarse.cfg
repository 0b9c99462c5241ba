CONSTANTS
  Entry = {e1, e2, e3, e4}
  NoEntry = NoEntry
  MinTick = 0
  MaxTime = 5
SPECIFICATION Spec
PROPERTIES
  KeepsMembers
