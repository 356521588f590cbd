SPECIFICATION FairSpec
CONSTANTS
  t1 = t1
  t2 = t2
  Threads <- MCThreads
  Cap = 4
  Word = 16
  Sizes <- MCSizes
  MaxCalls = 3
  QueueTypes = {"COMPUTE", "SDMA"}
CHECK_DEADLOCK FALSE
INVARIANTS
  Inv
PROPERTIES
  ImplementsStream
  SubmitReturns
  AcceptedRuns
