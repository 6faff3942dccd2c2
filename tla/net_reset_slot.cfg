CONSTANTS
  p0 = p0
  p1 = p1
  p2 = p2
  Player = {p0, p1, p2}
  Host = p0
  MAXCMDS = 3
  ByteSize = 3
  FillSlot = 0
  Kind = {"delta", "quit"}
  EventTics = {0}
  MaxTime = 3
  MaxLead = 2
  ChanCap = 2
  MaxFaults = 0
SPECIFICATION Spec
INVARIANT ClientsInSync
