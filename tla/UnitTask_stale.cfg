CONSTANTS
  NULL = NULL
  r1 = r1
  r2 = r2
  r3 = r3
  r4 = r4
  Req = {r1, r2, r3, r4}
  Kind <- SyncKinds
  Direct = {r1}
  MaxInflight = 2
  QDepth = 4
  MaxChunk = 2
  MaxTimeouts = 1
  IrqInstalled = TRUE
  OtherUnits = FALSE
SPECIFICATION Spec
INVARIANT SuccessMeansDone
VIEW LiveView
CHECK_DEADLOCK FALSE
