SPECIFICATION ReceptionSpec
CONSTANTS
  TSPackets <- MCTSPackets
  PCRs <- MCPCRs
  StreamIds <- MCStreamIds
  Bytes <- MCBytes
  Chunks <- MCChunks
  Stamps <- MCStamps
  Units <- MCUnits
  id = id
  StreamId = id
  NoHeader = NoHeader
  NoPES = NoPES
  CCModulus = 4
  PtsMax = 15
  PtsHigh = 7
  PcrLow = 2
  DueWindow = 2
  LevelModulus = 16
  MaxQueue = 3
  MaxLost = 3
  MaxRepeats = 2
  MaxClock = 6
  MaxStep = 3
INVARIANT NeverCrashes
CHECK_DEADLOCK FALSE
