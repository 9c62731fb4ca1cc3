SPECIFICATION Spec
CONSTANTS
  Drives = {0}
  Discs = {"x", "y"}
  Names = {"a", "b"}
  ReadOnly = {"b"}
  NRecs = 2  EPR = 2  CKS = 2
  Formatted <- SharedRecord
  Swaps = TRUE  Answers = {}
PROPERTY OnlyKnownRecordsOverwritten
