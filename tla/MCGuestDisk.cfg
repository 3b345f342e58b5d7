\* Two ids per machine, one reset, one restore or replacement.
SPECIFICATION Spec
CONSTANTS
  va = va
  vb = vb
  pg = pg
  nopg = nopg
  None = None
  Values = {va, vb}
  Pages = {pg}
  NoPage = nopg
  Commands = {"read", "compare", "write"}
  Lists <- CcwLists
  DriveBlocks = 2
  Image <- BaseImage
  MaxGen = 2
  MaxId = 3
  MaxTick = 1
  MaxLives = 1
CHECK_DEADLOCK FALSE
INVARIANTS
  GTypeOK
  TransferOwnsRequest
  CompletionAnswersRequest
  MediaAsBelieved
PROPERTIES
  CommitIsAccepted
  TransferEnds
