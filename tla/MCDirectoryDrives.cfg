SPECIFICATION SteadySpec
CONSTANTS
  Drives = {0, 1}
  Discs = {"x", "y"}
  Names = {"a"}
  ReadOnly = {}
  NRecs = 2  EPR = 1  CKS = 2
  Formatted <- SplitFile
  Swaps = TRUE  Answers = {}
PROPERTIES OnlyKnownRecordsOverwritten NoFalseProtection
VIEW LiveHistory
