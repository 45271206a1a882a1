SPECIFICATION Spec
CONSTANTS
  Workers = {"x", "y"}
  Offer <- MCRow
  LocalEnd = 0
  LastLayer = 2
  LocalHead = FALSE
  Fds = {1, 2, 3, 4}
  MaxConns = 4
  MaxForgets = 1
INVARIANTS
  EntriesNameWorkers
CHECK_DEADLOCK FALSE
