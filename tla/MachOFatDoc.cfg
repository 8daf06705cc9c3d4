SPECIFICATION Spec
CONSTANTS
  Garbled = Garbled
  Missing = Missing
  FatHead = FatHead
  Lengths = {2}
  Codes = {c1, c2}
  Original = c1
  Roomy = {1, 2}
  Options <- InjectOptions
  Faults = {"kill"}
  MaxRuns <- OnceOrTwice
CHECK_DEADLOCK FALSE
INVARIANTS
  InjectedIsLoaded
