CONSTANTS
  NULL = NULL
  c1 = c1
  c2 = c2
  n1 = n1
  n2 = n2
  Clients = {c1, c2}
  Notes = {n1, n2}
  Owner <- OneOwner
  MaxInflight = 2
  MaxFaults = 1
SPECIFICATION FairSpec
INVARIANTS
  TypeOK
  OpenMeansServed
  NoUseAfterFree
  NoLeak
  NoUnloadWhileUsed
  DeferredNotForgotten
  HeldOnce
PROPERTY EveryCallReturns
CHECK_DEADLOCK FALSE
