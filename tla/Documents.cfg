SPECIFICATION Spec
CONSTANTS
  None = None
  KeyOrder <- MCKeyOrder
  Numbers <- MCNumbers
  Zone = 1
  Dst = 1
  Deliveries <- MCDeliveries
  Options <- MCOptions
  Paths <- MCPaths
  SumOf <- MCSumOf
  MaxRuns = 2
  Longest = 12
CHECK_DEADLOCK FALSE
INVARIANTS
  TypeOK
  RewriteKeepsMeaning
  TornReadsAsPart
  IdentifiersMove
  CacheReadsBack
  SealReadsBack
  DerReadsBack
PROPERTY
  RunEnds
