CONSTANTS
  MaxControllers = 1
  MaxNamespaces = 1
  MaxFaults = 1
SPECIFICATION Spec
INVARIANT PagesStayMapped
CHECK_DEADLOCK FALSE
