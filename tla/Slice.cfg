SPECIFICATION Spec
CONSTANTS
  None = None
  Dylibs = {"short", "long"}
  PathLength <- MCPathLength
  Assets <- MCAssets
  Options <- MCOptions
  Binaries <- MCBinaries
  Ident = 14
  MaxRuns = 2
CHECK_DEADLOCK FALSE
INVARIANTS
  TypeOK
  SignatureReadsBack
  AreaHoldsSignature
  CodeSlotsFit
  DirectoriesAttested
  OneReallocSuffices
