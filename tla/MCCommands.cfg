SPECIFICATION Spec
CONSTANTS
  Scripts <- Three  Extent = 4
  Failing = {"read", "close", "delete", "make", "write"}
  Keys = {"key", "break"}  MaxEvents = 3
INVARIANTS TypeOK AddressKept
PROPERTIES LinesInOrder CancelledNeverRuns StreamEnds
