CONSTANTS
  Agent = {a1}
  Code = {c1}
  MaxCalls = 3
  MaxMishaps = 1
  SuspectAfter = 0
  OfflineAfter = 1
  None = None
SPECIFICATION FairSpec
CHECK_DEADLOCK FALSE
INVARIANTS CodeBindsOneNode AgentInRegistry OwnIdentity OfflineAnnounced
PROPERTIES RevokedKeepsCert SilentGoesOffline BeatingComesBack
