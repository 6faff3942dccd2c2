CONSTANTS
  p0 = p0
  p1 = p1
  p2 = p2
  Player = {p0, p1, p2}
  Host = p0
  MAXCMDS = 2
  ByteSize = 2
  FillSlot = 1
  Kind = {"delta", "quit"}
  EventTics = {0}
  MaxTime = 3
  MaxLead = 1
  ChanCap = 2
  MaxFaults = 0
SPECIFICATION Spec
INVARIANTS
  SameRoster
  ClientsInSync
