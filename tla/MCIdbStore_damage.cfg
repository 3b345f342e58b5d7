SPECIFICATION Spec
CONSTANTS
  h1 = h1
  h2 = h2
  tabA = tabA
  tabB = tabB
  p1 = p1
  p2 = p2
  Handles = {h1, h2}
  Backends = {tabA, tabB}
  BackendOf <- TwoTabs
  Pages = {p1}
  Kinds = {}
  MaxActivations = 3
  MaxSession = 2
  MaxWriter = 2
  MaxGeneration = 2
  MaxRef = 0
  MaxInFlight = 1
  DamageKinds = {"head", "activation", "object"}
  MaxDamage = 1

INVARIANTS
  AckedShown
PROPERTIES
  HeadDamageFreezes
  RecoveryIsNewest
CHECK_DEADLOCK FALSE
