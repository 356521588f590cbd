SPECIFICATION FairSpec
CONSTANTS
  w1 = w1
  A = A
  B = B
  Waiters = {w1}
  Events = {A, B}
  Sticky = {}
  Initial <- MCInitial
  Requests <- MCBoth
  MaxWaits = 1
  MaxResets = 0
  MaxSets = 0
PROPERTY WaitEnds
