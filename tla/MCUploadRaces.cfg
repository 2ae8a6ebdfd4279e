CONSTANTS
  MaxFiles = 1
  MaxVersions = 1
  ChunksPerVersion = 1
  ShardsPerChunk = 2
  File <- MCFile
  Version <- MCVersion
  Chunk <- MCChunk
  Fragment <- MCFragment
  versionOf <- MCVersionOf
  chunkOf <- MCChunkOf
  Node = {n1,n2}
  Session = {s1,s2}
  CommitThreshold = 2
  ClientThreshold = 2
  Reachable = {}
  rowId <- MCRowId
  ReapBatch = 64
  Eligible = {}
  None = None
SPECIFICATION Spec
CHECK_DEADLOCK FALSE
SYMMETRY Symmetry
INVARIANTS TypeOK FilesMatchVersions StoredOnlyCommitted CommittedOnDisk AcknowledgedKept
