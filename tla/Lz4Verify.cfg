SPECIFICATION Spec
CONSTANTS
  MaxLength = 7
  ChunkSize = 3
  Smallest = 2
  MaxFaults = 3
INVARIANTS
  VerifyMatchesReadable
  FaultlessVerdict
