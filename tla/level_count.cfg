CONSTANTS
  hallS = hallS
  hallD = hallD
  cellS = cellS
  cellD = cellD
  plate = plate
  room = room
  far = far
  vault = vault
  closet = closet
  t1 = t1
  t2 = t2
  t3 = t3
  t4 = t4
  NumActors = 3
  Enemy = {3}
  Area = {1, 2, 3, 4, 5, 6, 7}
  NumDoors = 4
  Timed = {}
  Steps = 2
  OPENTICS = 2
  ByteSize = 256
  MaxRushed = 1
  NumElevators = 1
  TripTime = 1
  NumWalls = 2
  WallLock = {2}
  PushTics = 1
  NumPlates = 1
  TileHolds = 2
  Group <- MCGroup
  Side <- MCSide
  Door1 <- MCDoor1
  Door2 <- MCDoor2
  WallPath <- MCWallPath
  PlateAction <- MCPlateAction
  Place <- MCPlace
  AreaOf <- MCAreaOf
  Tile <- MCTile
  Passage <- MCPassage
  WallPassage <- MCWallPassage
  CellS <- MCCellS
  CellD <- MCCellD
  PlateAt <- MCPlateAt
  WallAt <- MCWallAt
  Starts <- MCAtDoorway
SPECIFICATION Spec
INVARIANT ConnectionsCountDoors
