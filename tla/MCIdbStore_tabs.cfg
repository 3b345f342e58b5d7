SPECIFICATION Spec
CONSTANTS
  h1 = h1
  h2 = h2
  tabA = tabA
  tabB = tabB
  p1 = p1
  p2 = p2
  Handles = {h1, h2}
  Backends = {tabA, tabB}
  BackendOf <- TwoTabs
  Pages = {p1}
  Kinds = {}
  MaxActivations = 3
  MaxSession = 2
  MaxWriter = 2
  MaxGeneration = 2
  MaxRef = 0
  MaxInFlight = 2
  DamageKinds = {}
  MaxDamage = 0

INVARIANTS
  TypeOK
  HeadAlwaysOpens
  AckedDurable
PROPERTIES
  ImplementsDurableDisk
CHECK_DEADLOCK FALSE
