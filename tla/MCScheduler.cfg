CONSTANTS
  w1 = w1
  w2 = w2
  w3 = w3
  s1 = s1
  Proc <- MCProc
  Sem <- MCSem
  NoProcess = NoProcess
  NoShadow = NoShadow
  BootProcess = w1
  MaxCount = 1
SYMMETRY Workspaces
SPECIFICATION Spec
INVARIANTS
  ReadyListsInOrder
  WaitersInOrder
  ExactlyOnePlace
  ShadowIsInterrupted
  RightProcessRuns
  NoWaiterWithCount
PROPERTIES
  InterruptedResumesFirst
  ImplementsPriorityScheduler
CHECK_DEADLOCK FALSE
