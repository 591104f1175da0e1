SPECIFICATION FairRegistrySpec
CONSTANTS
  f = f
  u = u
  v = v
  g = g
  Flushers = {f, g}
  Main = Main
  NoThread = NoThread
  NoItem = NoItem
  Clients = {f, g, u}
  Workers = {w1}
  MaxItems = 1
  MaxCalls = 1
  Faults = FALSE
  Policy <- Blocking
  Kinds <- FlusherFlushes
INVARIANTS
  MapHeldInside
  PeriodicFlushOwned
  OneFlusher
  ShutdownReleases
PROPERTIES
  ShutdownReturns
  RegistryCallsReturn
