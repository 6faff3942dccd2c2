CONSTANTS
  MAXCMDS = 256
  ByteSize = 256
  MAXCOMBUFFERSIZE = 2048
  FixupHeader = 9
  CrcSize = 2
  PacketSize = {193, 205, 229}
  RequestedTime = {0}
SPECIFICATION Spec
INVARIANT BuffersFit
