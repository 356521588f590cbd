SPECIFICATION FairSpec
CONSTANTS
  c1 = c1
  c2 = c2
  d = d
  x = x
  y = y
  h1 = h1
  h2 = h2
  g1 = g1
  g2 = g2
  ComputeSlots = {c1, c2}
  SdmaSlots = {d}
  MaxHardware = 2
  MaxRetries = 1
  MaxCommands = 2
  Hash <- MCHash
  GfxOf <- MCGfxOf
  GenericMap <- MCGenericMap
  PageWords = 1
  MaxWords = 8
  Images <- MCImages
  Dev <- MCDev
  VramBase = 100
  ChunkWords = 3
  VramChunks = 2
  Objects = {x, y}
  Handles = {h1, h2}
  Null = Null
  Gpus = {g1, g2}
INVARIANTS
  Inv
  ImageRight
  MemoryAlive
  NothingLeft
PROPERTIES
  CallsEnd
CHECK_DEADLOCK FALSE
