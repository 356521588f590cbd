SPECIFICATION Spec
CONSTANTS
  RegionSize = 9
  Align = 2
  Word = 256
  Sizes <- MCSizes
  InlineBlocks = 2
INVARIANTS
  Inv
PROPERTY ImplementsPool
