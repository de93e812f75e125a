SPECIFICATION ExtSpec
CONSTANTS
  ExtProcess = {"p", "q"}
  Endpoint = {"c", "d"}
  MapOrder <- MCMapOrder
  ExtCapacity = 2
  Lengths = {1, 2}
INVARIANTS
  TransfersOnce
CHECK_DEADLOCK FALSE
