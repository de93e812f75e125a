SPECIFICATION Spec
CONSTANTS
  hp = hp
  lp = lp
  a = a
  b = b
  c = c
  hpHandler = hpHandler
  lpHandler = lpHandler
  irq0 = irq0
  irq1 = irq1
  High = hp
  Low = lp
  Proc = {a, b, c}
  LowProc = {a, b}
  First = a
  NoProc = NoProc
  Handler <- Handlers
  Level = {0, 1}
  Vector <- Vectors
  LowOnly = {0}
  Kernels <- Setups
  MaxCount = 1
INVARIANTS
  SavedStateLoads
CHECK_DEADLOCK FALSE
