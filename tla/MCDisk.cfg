SPECIFICATION Spec
CONSTANTS
  Drives = {0, 1, 2}  LastCyl = 2  Slots = {0, 1}  Values = {1, 2}  Formatted = 1
  Inverting = {0, 1}  Renumbered = {2}  Protected = {1}
  Requests <- Few  MaxCalls = 2
INVARIANTS TypeOK CallerBufferKept PositionTrusted FailureNeedsFaults
PROPERTIES ImplementsDisc CallsReturn
CHECK_DEADLOCK FALSE
