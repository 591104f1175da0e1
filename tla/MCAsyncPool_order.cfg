SPECIFICATION FairSpec
CONSTANTS
  b = b
  o = o
  d = d
  Main = Main
  NoItem = NoItem
  Clients = {b, d}
  Workers = {w1}
  MaxItems = 1
  MaxCalls = 2
  Faults = TRUE
  Policy <- MCPolicy
  Kinds <- LogAndFlush
INVARIANTS
  FlushCovers
  SinkInOrder
PROPERTIES
  CallsReturn
  ShutdownCompletes
