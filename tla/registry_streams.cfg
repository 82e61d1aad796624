SPECIFICATION Spec
CONSTANTS
  Instance = {i1, i2, i3}
  Generation <- OneGeneration
  Identity = {h1}
  Label = {l1}
  Activity = {"idle", "busy"}
  Stream = {s1}
  None = None
  Ttl = 2
  MaxSessions = 2
  Reentrant = TRUE
  MaxRevision = 3
SYMMETRY SymmetricInstances
INVARIANT WithinCapacity
INVARIANT CardsAgree
INVARIANT StopStillTrue
INVARIANT EachEventOnce
