CONSTANTS
  w1 = w1
  w2 = w2
  w3 = w3
  c1 = c1
  c2 = c2
  Proc <- MergeProc
  Chan <- MCChan
  Sender <- MergeSender
  Receiver <- MergeReceiver
  ScalarChan <- MCScalarChan
  Resetter <- MergeResetter
  Skip = Skip
  NoProcess = NoProcess
SPECIFICATION Spec
INVARIANTS
  SleepersFindable
  ReadyOnce
  SelectionReady
PROPERTIES
  ImplementsRendezvous
CHECK_DEADLOCK FALSE
