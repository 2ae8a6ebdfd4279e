CONSTANTS
  ChunksPerFile = 1
  ShardsPerChunk = 2
  File = {1}
  Version = {1}
  Chunk <- MCChunk
  Fragment <- MCFragment
  versionOf <- MCVersionOf
  chunkOf <- MCChunkOf
  Node = {n1, n2, n3}
  Reachable = {n1, n2, n3}
  rowId <- MCRowId
  ReapBatch = 64
  Eligible = {}
  Worker = {w1}
  CommitThreshold = 1
  DataShards = 1
  RepairThreshold = 2
  MaxFailures = 2
  MaxFaults = 1
  Faults = {"restart"}
  None = None
SPECIFICATION KeepSpec
CHECK_DEADLOCK FALSE
SYMMETRY Symmetry
PROPERTIES SurplusRebuilt
