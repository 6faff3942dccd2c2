CONSTANTS
  p0 = p0
  p1 = p1
  p2 = p2
  Player = {p0, p1}
  Host = p0
  MAXCMDS = 2
  ByteSize = 2
  FillSlot = 0
  Kind = {"delta", "quit", "endgame", "exit"}
  EventTics = {1}
  MaxTime = 4
  MaxLead = 1
  ChanCap = 2
  MaxFaults = 1
SPECIFICATION Spec
INVARIANTS
  NextTicIsClosedTic
  CheckedStaysReady
  ServerNeverAhead
  NothingInvented
PROPERTY LockstepSpec
