SPECIFICATION FairSpec
CONSTANTS
  h1 = h1
  h2 = h2
  h3 = h3
  i1 = i1
  i2 = i2
  i3 = i3
  n1 = n1
  n2 = n2
  n3 = n3
  None = None
  Host = {h1, h2, h3}
  Instance = {i1, i2, i3}
  Name = {n1, n2, n3}
  Launch = {}
  InstanceOf <- OwnInstance
  NameOf <- OwnName
  Offer = {"view"}
  MaxEntries = 1
  MaxNames = 4
  MaxDead = 2
  MaxGeneration = 1
PROPERTY FinishedOnlyDropped
PROPERTY LiveHostsShown
