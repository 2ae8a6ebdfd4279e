CONSTANTS
  Chunks = 1
  Chunk <- MCFragment
  Fragment <- MCFragment
  Node <- MCNode
  chunkOf <- MCChunkOf
  nodeOf <- MCNodeOf
  Need = 1
  Session = {s1}
  Request = {r1,r2}
  MaxHour = 2
  MaxMishaps = 1
  None = None
  Accruer = {a1,a2}
  Customer = Customer
  Fresh = FALSE
  MaxCatchUp = 1
  CycleHours = 2
SPECIFICATION FairSpec
CHECK_DEADLOCK FALSE
INVARIANTS   NoHourSkipped  ArchivedOnce StatementsAgree
PROPERTIES CaughtUp
