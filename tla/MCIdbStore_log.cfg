SPECIFICATION Spec
CONSTANTS
  h1 = h1
  h2 = h2
  tabA = tabA
  tabB = tabB
  p1 = p1
  p2 = p2
  Handles = {h1, h2}
  Backends = {tabA, tabB}
  BackendOf <- TwoTabs
  Pages = {}
  Kinds = {}
  MaxActivations = 3
  MaxSession = 2
  MaxWriter = 4
  MaxGeneration = 4
  MaxRef = 0
  MaxInFlight = 2
  DamageKinds = {}
  MaxDamage = 0

INVARIANTS
  ActivationLogUnbroken
PROPERTIES
  HeadExtends
CHECK_DEADLOCK FALSE
