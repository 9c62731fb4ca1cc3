SPECIFICATION Spec
CONSTANTS
  RPE = 2  NEX = 2  NS2 = 1  EXM = 0  BLK = 1
  Drives = {0}
  Names = {"a"}
  Files <- OneFile
  NSlots = 2  DirBlocks = 1  DSM = 3
  Values = {"x", "e5"}
  Zero = "e5"  Blank = "e5"
  RandomEnd = 4  RandomRecs = {2}
  Cautious = FALSE
PROPERTY RandomTransfersAddressed
VIEW WithoutResult
