SPECIFICATION Spec
CONSTANTS
  RPE = 4  NEX = 2  NS2 = 1  EXM = 0  BLK = 2
  Drives = {0}
  Names = {a, b}
  Files <- AllFiles
  NSlots = 2  DirBlocks = 1  DSM = 2
  Values = {"x", "e5"}
  Zero = "e5"  Blank = "e5"
  RandomEnd = 6  RandomRecs = {5, 6}
  Cautious = TRUE
PROPERTIES ImplementsRecordFiles FailedWriteKeepsSize PublishedRecordsStay RandomTransfersAddressed
VIEW WithoutResult
SYMMETRY Renamings
