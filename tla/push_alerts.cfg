SPECIFICATION Spec
CONSTANTS
  d1 = d1
  d2 = d2
  i1 = i1
  i2 = i2
  None = None
  Instance = {i1}
  Device = {d1, d2}
  Level = {"session"}
  InitialSubs <- NoSubs
  MaxSubscriptions = 1
  MaxKeys = 2
  MaxAsks = 2
  MaxRenewals = 1
  MaxStops = 1
  MaxRequests = 2
  MaxCrashes = 1
INVARIANT TypeOK
INVARIANT AckedKept
INVARIANT NoAskMissed
INVARIANT EndIsTold
CHECK_DEADLOCK FALSE
