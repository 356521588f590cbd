SPECIFICATION FairSpec
CONSTANTS
  Kernels <- MCKernels
  Positions = {1, 2}
  WaveLimit = 2
  MaxDispatches = 3
  InlineRequests = 1
CHECK_DEADLOCK FALSE
INVARIANTS
  Inv
  UserSgprsMatch
PROPERTY KernelsLaunchUnlessLost
