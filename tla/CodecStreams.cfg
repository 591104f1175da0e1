SPECIFICATION Spec
CONSTANTS
  BufSize = 2
  Expand = 2
  Limit = 5
  MaxSource = 6
  MaxFaults = 1
INVARIANTS
  NothingSkipped
  SuccessIsComplete
  IntactSucceeds
PROPERTIES
  Ends
CHECK_DEADLOCK FALSE
