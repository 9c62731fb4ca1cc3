SPECIFICATION Spec
CONSTANTS
  Space = 39  Ceiling = 36  EmptyTop = 38  Core = 1  Room = 10
  Names = {"a", "b", "c"}
  Slots = {0, 1, 2, 3}  Versions = {1, 2}  MaxLive = 3
  Class <- Classes  Size <- Sizes  EntryAt <- Entries
  ScratchLow = 1  ScratchHigh = 15  Bound = 16
  Rebuilt = {"b"}  Foreigners = {0}  MaxFaults = 1
INVARIANTS TypeOK PlansAreSound PreparedCommits ImagesIntact ChainIntact LiveCarriersKept OnlyUsedSlotsTaken OnlyImagesChange
PROPERTIES OnlyOrphansReclaimed ImplementsProfile
VIEW LiveState
