SPECIFICATION Spec
CONSTANTS
  Instance = {i1, i2}
  Generation <- OneGeneration
  Identity = {h1}
  Label = {l1}
  Activity = {"idle"}
  Stream = {s1}
  None = None
  Ttl = 2
  MaxSessions = 2
  Reentrant = TRUE
  MaxRevision = 4
SYMMETRY SymmetricInstances
INVARIANT NoGhosts
