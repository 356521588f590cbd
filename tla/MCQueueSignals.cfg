SPECIFICATION FairSpec
CONSTANTS
  t1 = t1
  t2 = t2
  c1 = c1
  d1 = d1
  s1 = s1
  s2 = s2
  Threads = {t1, t2}
  Compute = {c1}
  Sdma = {d1}
  Signals = {s1, s2}
  SeqMod = 8
  MaxWork = 2
  MaxWaits = 1
CHECK_DEADLOCK FALSE
INVARIANTS
  Inv
  WaitOrdersWork
PROPERTY SignalsArrive
