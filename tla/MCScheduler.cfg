CONSTANTS
  n1 = n1
  n2 = n2
  n3 = n3
  n4 = n4
  c1 = c1
  c2 = c2
  c3 = c3
  f2 = f2
  f3 = f3
  Wide = {w1, w2, w3}
  Node <- MCNode
  Chunk = {c1, c2, c3}
  Fragment <- MCFragment
  chunkOf <- MCChunkOf
  region <- MCRegion
  asn <- MCAsn
  owner <- MCOwner
  Probation = {n3}
  RegionCap = 2
  ASNCap = 1
  OwnerCap = 1
  ProbationQuota = 1
  Planner = {p1, p2}
  Together = {}
  MayFail = {n4}
  MaxLosses = 1
  None = None
SPECIFICATION Spec
CHECK_DEADLOCK FALSE
SYMMETRY Symmetry
INVARIANTS   PlaceAllowed
