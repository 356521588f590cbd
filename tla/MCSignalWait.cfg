SPECIFICATION FairSpec
CONSTANTS
  w1 = w1
  A = A
  B = B
  Waiters = {w1}
  Events = {A, B}
  Sticky = {}
  Initial <- MCInitial
  Requests <- MCRequests
  MaxWaits = 2
  MaxResets = 2
  MaxSets = 1
INVARIANTS
  Inv
PROPERTIES
  OkMeansMet
  WaitForOneEnds
