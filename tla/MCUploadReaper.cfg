CONSTANTS
  MaxFiles = 1
  MaxVersions = 1
  ChunksPerVersion = 2
  ShardsPerChunk = 1
  File <- MCFile
  Version <- MCVersion
  Chunk <- MCChunk
  Fragment <- MCFragment
  versionOf <- MCVersionOf
  chunkOf <- MCChunkOf
  Node = {n1,n2}
  Session = {s1}
  CommitThreshold = 1
  ClientThreshold = 1
  Reachable = {n1}
  rowId <- MCRowId
  ReapBatch = 2
  Eligible = {}
  None = None
SPECIFICATION FairSpec
CHECK_DEADLOCK FALSE
PROPERTIES ExpiringReaped
