SPECIFICATION Spec
CONSTANTS
  RPE = 1  NEX = 4  NS2 = 1  EXM = 1  BLK = 1
  Drives = {0, 1}
  Names = {"a", "b"}
  Files <- TwoAndOne
  NSlots = 2  DirBlocks = 1  DSM = 2
  Values = {"e5"}
  Zero = "e5"  Blank = "e5"
  RandomEnd = 4  RandomRecs = {3}
  Cautious = TRUE
INVARIANTS TypeOK NoCrossLinks VectorCoversDirectory OpenMapsPublished ExtentsDistinct
VIEW WithoutResult
