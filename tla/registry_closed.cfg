SPECIFICATION FairSpec
CONSTANTS
  Instance = {i1, i2}
  Generation <- Generations
  Identity = {h1}
  Label = {l1}
  Activity = {"idle"}
  Stream = {s1}
  None = None
  Ttl = 1
  MaxSessions = 2
  Reentrant = TRUE
  MaxRevision = 3
INVARIANT GhostsAreOrphans
PROPERTY CardsNeverRegress
PROPERTY RetainedExpires
