CONSTANTS
  p0 = p0
  p1 = p1
  p2 = p2
  Player = {p0}
  Host = p0
  MAXCMDS = 2
  ByteSize = 2
  FillSlot = 1
  Kind = {"delta"}
  EventTics = {}
  MaxTime = 4
  MaxLead = 3
  ChanCap = 2
  MaxFaults = 0
SPECIFICATION Spec
INVARIANT NoFatalError
