SPECIFICATION CancelSpec
CONSTANTS
  Scripts <- Oversized  Extent = 8
  Failing = {}  Keys = {"break"}  MaxEvents = 2
INVARIANTS SomeCauseEndsBatch
