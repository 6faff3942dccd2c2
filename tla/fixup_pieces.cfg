CONSTANTS
  MAXCMDS = 5
  ByteSize = 5
  MAXCOMBUFFERSIZE = 12
  FixupHeader = 2
  CrcSize = 2
  PacketSize = {3, 4, 7}
  RequestedTime = {0, 3}
SPECIFICATION Spec
INVARIANTS
  TypeOK
  PiecesInOrder
  NothingLeftOut
  NoEmptyBuffer
