\* Three accounts, up to three edges, loops too, two threads.
SPECIFICATION Spec
CONSTANTS
  num_accounts = 3
  MaxWeight = 2
  MaxEdges = 3
  THREADS = 2
  ChunkSize = 1
INVARIANTS
  ScheduleIndependent
PROPERTIES
  ParallelRegionsKeepVertices
CHECK_DEADLOCK FALSE
