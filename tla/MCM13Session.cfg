SPECIFICATION Spec
CONSTANTS
  None = None
  MaxFlight = 3
  MaxReset = 1
  MaxQueue = 3
  Sessions <- MCSessions
INVARIANTS
  STypeOK
  AnswersInOrder
  NeutralWhenConfirmed
  AppKnowsWorker
  QuietFailsOnlyByResume
PROPERTIES
  PauseHolds
  RequestsSettle
  WaitingSettles
CHECK_DEADLOCK FALSE
