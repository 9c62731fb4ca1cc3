SPECIFICATION Spec
CONSTANTS
  Drives = {0}
  Discs = {"x", "y"}
  Names = {"a", "b"}
  ReadOnly = {}
  NRecs = 2  EPR = 1  CKS = 2
  Formatted <- SplitFile
  Swaps = TRUE  Answers = {"abort"}
INVARIANTS TypeOK IdleIsClean
PROPERTIES OnlyNamedEntriesChange PassesAreComplete ControlReturns
