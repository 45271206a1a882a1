SPECIFICATION Spec
CONSTANTS
  Workers = {"x", "y", "z", "v"}
  Offer <- MCSpares
  LocalEnd = 0
  LastLayer = 3
  LocalHead = FALSE
  Fds = {1, 2, 3, 4}
  MaxConns = 3
  MaxForgets = 1
INVARIANTS
  SearchFindsRoute
  RegistryHolds
CHECK_DEADLOCK FALSE
