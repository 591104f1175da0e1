SPECIFICATION Spec
CONSTANTS
  b = b
  o = o
  d = d
  Main = Main
  NoItem = NoItem
  Clients = {b, o, d}
  Workers = {w1, w2}
  MaxItems = 2
  MaxCalls = 1
  Faults = FALSE
  Policy <- MCPolicy
  Kinds <- LogAndFlush
INVARIANTS
  NoLostWakeup
  AccountedFor
  TerminatesKept
  DestroyedIsDrained
  DestroyerAlone
  PendingFlushHeld
PROPERTIES
  QueueSpec
CHECK_DEADLOCK FALSE
