SPECIFICATION CSpec
CONSTANTS
  r0 = r0
  r1 = r1
  Roots = {r0, r1}
  EmptyRoot = r0
  MaxSession = 3
  MaxEpoch = 1
  Sessions <- MCSessions
  Epochs <- MCEpochs
  Generations <- MCGenerations
  Pins <- MCPins
  SessionPins <- MCPins
  HostCalls = {"review"}
  RequestKinds = {"read"}
  MaxFlights = 1
  MaxAttempts = 1
  MaxLog = 1
INVARIANTS
  RecoveryRetryable
CHECK_DEADLOCK FALSE
