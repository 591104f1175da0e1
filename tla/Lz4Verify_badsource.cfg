SPECIFICATION Spec
CONSTANTS
  MaxLength = 4
  ChunkSize = 2
  Smallest = 2
  MaxFaults = 0
INVARIANTS
  VerifyDetects
