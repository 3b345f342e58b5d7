SPECIFICATION Spec
CONSTANTS
  h1 = h1
  h2 = h2
  tabA = tabA
  tabB = tabB
  p1 = p1
  p2 = p2
  Handles = {h1, h2}
  Backends = {tabA, tabB}
  BackendOf <- OneTab
  Pages = {p1}
  Kinds = {"snapshot", "clone"}
  MaxActivations = 3
  MaxSession = 2
  MaxWriter = 1
  MaxGeneration = 1
  MaxRef = 2
  MaxInFlight = 2
  DamageKinds = {}
  MaxDamage = 0

INVARIANTS
  PinsKeepClosure
  RefsAdmissible

CHECK_DEADLOCK FALSE
