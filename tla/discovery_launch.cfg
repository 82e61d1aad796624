SPECIFICATION Spec
CONSTANTS
  h1 = h1
  h2 = h2
  h3 = h3
  i1 = i1
  i2 = i2
  i3 = i3
  n1 = n1
  n2 = n2
  n3 = n3
  None = None
  Host = {h1, h2, h3}
  Instance = {i1}
  Name = {n1, n2}
  Launch = {l1}
  InstanceOf <- AllOfOne
  NameOf <- ReusedName
  Offer = {"view", "control"}
  MaxEntries = 2
  MaxNames = 2
  MaxDead = 1
  MaxGeneration = 2
SYMMETRY Symmetry
INVARIANT CardIsRouted
INVARIANT DeadStaysDead
PROPERTY NeverRetargeted
PROPERTY ReleasedOpensTheCard
