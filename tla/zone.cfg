CONSTANTS
  l1 = l1
  l2 = l2
  l3 = l3
  h1 = h1
  ZoneSize = 9
  HeaderSize = 1
  MINFRAGMENT = 1
  Lump = {l1, l2, l3}
  Holder = {h1}
  Tag = {1, 50, 101}
  PU_PURGELEVEL = 100
  LevelTag = {50}
  UnownedTag = {1, 50}
  LumpSize <- MCLumpSize
SPECIFICATION FairSpec
INVARIANTS
  TypeOK
  HeapIsSound
  OwnersAreTold
  SweepIsComplete
  FailureIsReal
PROPERTIES
  HeapSpec
  CallsEnd
CHECK_DEADLOCK FALSE
