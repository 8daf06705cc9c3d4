SPECIFICATION Spec
CONSTANTS
  Garbled = Garbled
  Missing = Missing
  FatHead = FatHead
  Lengths = {1, 2}
  Codes = {c1, c2}
  Original = c1
  Roomy = {1}
  Options <- MixedOptions
  Faults = {"kill", "full", "rename", "rebuild"}
  MaxRuns <- ThinThrice
CHECK_DEADLOCK FALSE
INVARIANTS
  TypeOK
  SuccessIsSigned
  CodeSurvives
PROPERTIES
  KeepsFile
