SPECIFICATION SizingFairSpec
CONSTANTS
  Topologies <- MCTopologies
  Needs = {1, 2, 3, 5}
  Groups = {1, 2, 3, 5, 6}
  Lanes = 2
  Unit = 4
  PageAlign = 16
  WavesField = 32
  MaxBytes = 300
  Word = 256
CHECK_DEADLOCK FALSE
INVARIANTS
  SizingInv
  SlotsServed
  WavesFitField
PROPERTY Settles
