CONSTANTS
  numplayers = 2
  SYNCTIME = 5
  VBLCOUNTER = 12
  Transit = {0, 2}
  Late = 5
  Lossy = {0, 1, 2, 3, 4, 6}
  FirstOffset <- Offsets
  LastEntry = 1
  MaxTime = 98
  MaxFaults = 1
SPECIFICATION Spec
INVARIANTS
  TypeOK
  ClocksAgree
  TransitIsMeasured
  AnswersAreCurrent
  OnlyMissedBehind
  NobodyLate
  OthersStart
