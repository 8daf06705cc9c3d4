SPECIFICATION Spec
CONSTANTS
  Garbled = Garbled
  Missing = Missing
  FatHead = FatHead
  Lengths = {1}
  Codes = {c1, c2}
  Original = c1
  Roomy = {1}
  Options <- SingleOptions
  Faults = {}
  MaxRuns <- OnceOrTwice
CHECK_DEADLOCK FALSE
INVARIANTS
  ResignedInPlaceIsValid
