SPECIFICATION WatcherFairSpec
CONSTANTS
  o1 = o1
  o2 = o2
  Owners = {o1, o2}
  Wake = Wake
  Fault = Fault
  Watcher = Watcher
  Free = Free
  InlineWatches = 1
  MaxWatches = 3
  MaxFires = 2
CHECK_DEADLOCK FALSE
INVARIANTS
  WatcherInv
PROPERTIES
  EventsHandled
  ShutdownEnds
  FaultsReported
