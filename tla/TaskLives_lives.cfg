CONSTANTS
  NULL = NULL
  r1 = r1
  r2 = r2
  r3 = r3
  Req = {r1, r2, r3}
  Kind <- PolledKinds
  Direct = {r1, r2}
  MaxLives = 3
  MaxInflight = 1
  QDepth = 3
  MaxChunk = 2
  MaxTimeouts = 1
  IrqInstalled = TRUE
  OtherUnits = TRUE
SPECIFICATION LivesSpec
INVARIANTS
  ExactlyOnce
  FreedQuiet
  NoLostWakeup
PROPERTIES
  SqNeverFills
  EventuallyServed
VIEW LivesView
CHECK_DEADLOCK FALSE
