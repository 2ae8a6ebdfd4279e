CONSTANTS
  MaxFiles = 2
  MaxVersions = 3
  ChunksPerVersion = 1
  ShardsPerChunk = 1
  File <- MCFile
  Version <- MCVersion
  Chunk <- MCChunk
  Fragment <- MCFragment
  versionOf <- MCVersionOf
  chunkOf <- MCChunkOf
  Node = {n1}
  Session = {s1,s2}
  CommitThreshold = 1
  ClientThreshold = 1
  Reachable = {}
  rowId <- MCRowId
  ReapBatch = 64
  Eligible = {}
  None = None
SPECIFICATION Spec
CHECK_DEADLOCK FALSE
SYMMETRY Symmetry
PROPERTIES DeletedFinal ImplementsAtomicUpload
