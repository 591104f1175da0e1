SPECIFICATION Spec
CONSTANTS
  Names = {0, 1, 2}
  NoFile = NoFile
  NoName = NoName
  NoItem = NoItem
  NoThread = NoThread
  Threads = {a, b}
  Scenarios <- MCScenarios
  FlushOn = TRUE
  MaxSize = 2
  MaxFiles = 2
  RotateOnOpen = {TRUE, FALSE}
  DayLength = 2
  RotationAt = 0
  DailyFiles = 2
  Truncate = FALSE
  MaxTime = 4
  BacktraceSize = 2
INVARIANTS
  InOrder
  Bounded
  KeepsNewest
  DumpsInOrder
  DumpedStaysFront
PROPERTIES
  CrashKeepsReturned
  LoggerCallsReturn
CHECK_DEADLOCK FALSE
