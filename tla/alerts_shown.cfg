SPECIFICATION AlertSpec
CONSTANTS
  d1 = d1
  i1 = i1
  i2 = i2
  None = None
  Instance = {i1}
  Device = {d1}
  Level = {"session"}
  InitialSubs <- OneSub
  MaxSubscriptions = 1
  MaxKeys = 1
  MaxAsks = 2
  MaxRenewals = 1
  MaxStops = 1
  MaxRequests = 0
  MaxCrashes = 0
  MaxWaiting = 2
INVARIANT OneLossCostsOneAsk
INVARIANT PhoneShowsTheAsks
PROPERTY StopNeverReplacesAsk
PROPERTY ClearedIsGone
CHECK_DEADLOCK FALSE
