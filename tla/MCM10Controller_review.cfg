SPECIFICATION CFairSpec
CONSTANTS
  r0 = r0
  r1 = r1
  Roots = {r0, r1}
  EmptyRoot = r0
  MaxSession = 3
  MaxEpoch = 1
  Sessions <- MCSessions
  Epochs <- MCEpochs
  Generations <- MCGenerations
  Pins <- MCPins
  SessionPins <- MCPins
  HostCalls = {"review"}
  RequestKinds = {"write", "other"}
  MaxFlights = 2
  MaxAttempts = 3
  MaxLog = 2
INVARIANTS
  CTypeOK
  ReviewFrozen
  LeaseKeepsDoubt
PROPERTIES
  BridgeReturns
  ReviewSettles
CHECK_DEADLOCK FALSE
