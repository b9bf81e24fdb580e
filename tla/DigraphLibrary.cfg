\* Up to two edits of a graph with up to three edges, then a batch of two draws,
\* a derived graph or the search for disconnected communities; two threads.
SPECIFICATION Spec
CONSTANTS
  Index = {0, 1, 2}
  Pairs <- MCPairs
  Weight = {1, 2}
  Keeps = {{0, 1}, {2}}
  MaxEdges = 3
  MaxCalls = 2
  MaxBefore = 1
  MaxBatch = 2
  THREADS = 2
  ChunkSize = 1
INVARIANTS
  BatchMeansSets
  DerivedEdges
  ParallelIsSerial
  CsrRepresents
  TraversalsAgree
  DisconnectedFlags
PROPERTIES
  ImplementsEdgeMap
CHECK_DEADLOCK FALSE
