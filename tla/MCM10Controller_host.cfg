SPECIFICATION CSpec
CONSTANTS
  r0 = r0
  r1 = r1
  Roots = {r0, r1}
  EmptyRoot = r0
  MaxSession = 3
  MaxEpoch = 2
  Sessions <- MCSessions
  Epochs <- MCEpochs
  Generations <- MCGenerations
  Pins <- MCPins
  SessionPins <- MCPins
  HostCalls = {"open", "mutate", "collect", "recover", "close"}
  RequestKinds = {"read", "write", "other"}
  MaxFlights = 2
  MaxAttempts = 1
  MaxLog = 2
INVARIANTS
  AckedIsPublished
PROPERTIES
  StagedBeforeGuest
  OnlySuspectsReplaced
CHECK_DEADLOCK FALSE
