SPECIFICATION Spec
CONSTANTS
  b = b
  o = o
  d = d
  Main = Main
  NoItem = NoItem
  Clients = {b}
  Workers = {w1}
  MaxItems = 1
  MaxCalls = 1
  Faults = FALSE
  Policy <- MCPolicy
  Kinds <- LogOnly
INVARIANTS
  ShutdownStopsThreads
