SPECIFICATION Spec
CONSTANTS
  Ts188Byte = 3
  Ts204Byte = 4
  Sync = 71
  Byte <- MCByte
  TransportPackets <- MCPackets
  MAX_NUM_PACKETS = 2
  TestBufferSize = 12
  MaxWritten = 15
INVARIANTS BufferFits NothingIsLost PacketsAreThoseOfTheFile
CHECK_DEADLOCK FALSE
