CONSTANTS
  Reader = {r1, r2}
  File = {"a", "b"}
  Room = 2
  MaxRequests = 4
  MaxChanges = 2
SPECIFICATION Spec
SYMMETRY Symmetry
CHECK_DEADLOCK FALSE
INVARIANTS
  TypeOK
  LookupsAgree
  ListingFaithful
  ListedOnce
  StreamInv
