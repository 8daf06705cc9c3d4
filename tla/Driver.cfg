SPECIFICATION Spec
CONSTANTS
  None = None
  Missing = Missing
  Credentials <- MCCredentials
  Options <- MCOptions
  Kinds = {"payload", "folder", "root", "leftfolder", "ipa", "misplaced", "bare", "leftipa", "macho", "broken", "absent"}
  Faults = {"kill", "signal", "unzip", "sign", "zip", "install"}
  MaxRuns = 2
CHECK_DEADLOCK FALSE
INVARIANTS
  TypeOK
  LeavesNoTrace
  SignsWithPairedKey
PROPERTIES
  KeepsPromise
