SPECIFICATION FairSpec
CONSTANTS
  NumBuffers = 3
  NoBuffer <- MCNoBuffer
  Cards <- MCCards
  Want = 1
  MaxRefused = 2
  MaxFrames = 5
  MaxEdits = 2
INVARIANTS
  Inv
  ConsoleRestored
PROPERTIES
  ImplementsDisplay
  WaitsEnd
CHECK_DEADLOCK FALSE
