CONSTANTS
  MaxControllers = 2
  MaxNamespaces = 2
  MaxFaults = 2
SPECIFICATION Spec
INVARIANTS
  TypeOK
  Balanced
  UsesHeldMemory
  HandlerSafe
  UnitsServed
  GoodControllersPublished
CHECK_DEADLOCK FALSE
