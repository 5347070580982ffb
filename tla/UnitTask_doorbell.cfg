CONSTANTS
  NULL = NULL
  r1 = r1
  r2 = r2
  r3 = r3
  r4 = r4
  Req = {r1, r2, r3, r4}
  Kind <- PlainKinds
  Direct = {r1}
  MaxInflight = 2
  QDepth = 3
  MaxChunk = 2
  MaxTimeouts = 0
  IrqInstalled = FALSE
  OtherUnits = FALSE
SPECIFICATION FairSpec
PROPERTY AlwaysReplied
CHECK_DEADLOCK FALSE
