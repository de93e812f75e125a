SPECIFICATION Spec
CONSTANTS
  p1 = p1
  p2 = p2
  p3 = p3
  Proc = {p1, p2, p3}
  Roles <- Programs
  NoProcess = NoProcess
  Modulus = 6
  Distance <- Distances
  MaxGuards = 2
  MaxTicks = 2
  MaxLag = 1
INVARIANTS
  ListInOrder
  DueAreAwake
  SelectionReady
PROPERTIES
  NeverEarly
CHECK_DEADLOCK FALSE
