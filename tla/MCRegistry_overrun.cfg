SPECIFICATION FairRegistrySpec
CONSTANTS
  f = f
  u = u
  v = v
  g = g
  Flushers = {f}
  Main = Main
  NoThread = NoThread
  NoItem = NoItem
  Clients = {f, u}
  Workers = {w1}
  MaxItems = 1
  MaxCalls = 1
  Faults = FALSE
  Policy <- Overrunning
  Kinds <- FlusherFlushes
PROPERTIES
  FlusherJoined
CHECK_DEADLOCK FALSE
