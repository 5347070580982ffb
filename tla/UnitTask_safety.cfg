CONSTANTS
  NULL = NULL
  r1 = r1
  r2 = r2
  r3 = r3
  r4 = r4
  Req = {r1, r2, r3, r4}
  Kind <- MixedKinds
  Direct = {r1, r3}
  MaxInflight = 2
  QDepth = 4
  MaxChunk = 2
  MaxTimeouts = 1
  IrqInstalled = TRUE
  OtherUnits = TRUE
SPECIFICATION Spec
INVARIANTS
  ExactlyOnce
  OneCommandPerSlot
  DoorbellRung
  NoLostWakeup
  HandlerMaskLifted
  CountersAgree
PROPERTIES
  ImplementsPromise
VIEW LiveView
CHECK_DEADLOCK FALSE
