SPECIFICATION Spec
CONSTANTS
  None = None
  Dylibs = {"short", "long"}
  PathLength <- MCPathLength
  Assets <- MCAssets
  Options <- SpaceOptions
  Binaries <- SpaceBinaries
  Ident = 14
  MaxRuns = 2
CHECK_DEADLOCK FALSE
INVARIANT
  CommandsClearOfText
