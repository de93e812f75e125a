CONSTANTS
  w1 = w1
  w2 = w2
  w3 = w3
  c1 = c1
  c2 = c2
  Proc <- DuplexProc
  Chan <- MCChan
  Sender <- DuplexSender
  Receiver <- DuplexReceiver
  ScalarChan <- MCScalarChan
  Resetter <- DuplexResetter
  Skip = Skip
  NoProcess = NoProcess
SPECIFICATION FairSpec
INVARIANTS
  NeverInvalid
  OutputSynchronous
PROPERTIES
  AltServed
CHECK_DEADLOCK FALSE
