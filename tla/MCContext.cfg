SPECIFICATION FairSpec
CONSTANTS
  t1 = t1
  t2 = t2
  Free = Free
  Scanners = {t1, t2}
  Layouts <- MCLayouts
  Keys <- MCKeys
  MaxRetries = 2
  PageSize = 4096
  MaxChanges = 1
  Gpus = {1, 2}
  MaxCreates = 2
INVARIANTS
  Inv
  SnapshotConsistent
  OncePerProcess
  NothingLeft
PROPERTIES
  CreateEnds
CHECK_DEADLOCK FALSE
