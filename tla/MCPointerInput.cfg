SPECIFICATION Spec
CONSTANTS
  left = left
  middle = middle
  shift = shift
  Buttons <- MCButtons
  Keys <- MCKeys
  MaxEpoch = 1
  MaxFlight = 3
INVARIANTS
  PTypeOK
  NoUnknownHold
  GenerationsAgree
  SuspendedIsNeutral
  CaptureFollowsPhysical
PROPERTIES
  TerminalSilent
  LossSettles
CHECK_DEADLOCK FALSE
