\* Three vertices, up to five as the total weight, one and two threads.
SPECIFICATION Spec
CONSTANTS
  S = 3
  MaxWeight = 2
  MaxTotal = 5
  MaxThreads = 2
  ChunkSize = 1
  L = 2
  InvTolerance = 100
INVARIANTS
  WeightsAgree
  OneThreadPerVertex
  ScanCountsEachEntry
  NoWakeUpLost
PROPERTIES
  GainIsReal
  Terminates
CHECK_DEADLOCK FALSE
