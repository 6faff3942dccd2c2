CONSTANTS
  p0 = p0
  p1 = p1
  p2 = p2
  Player = {p0}
  Host = p0
  MAXCMDS = 4
  ByteSize = 4
  FillSlot = 2
  Kind = {"delta"}
  EventTics = {}
  MaxTime = 6
  MaxLead = 3
  ChanCap = 2
  MaxFaults = 2
SPECIFICATION FairSpec
INVARIANTS
  TypeOK
  CollectedIsCurrent
  NeededTicsHeld
  NoFatalError
  FixupsAreConsecutive
PROPERTIES
  SequenceNeverMovesBack
  EveryTicIsSimulated
  EveryTicIsClosed
