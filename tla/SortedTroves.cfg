SPECIFICATION FairSpec
CONSTANTS
  Ids = {a, b, c, d}
  NullId = null
  MaxSize = 3
  MaxNICR = 2
INVARIANTS TypeOK ListIntegrity FoundIsValid Sorted
PROPERTIES InsertEnds ImplementsTroveOrder
