SPECIFICATION Spec
CONSTANTS
  TSPackets <- MCTSPackets
  PCRs <- MCPCRs
  StreamIds <- MCStreamIds
  Bytes <- MCBytes
  id1 = id1
  id2 = id2
  b = b
  NoHeader = NoHeader
  NoPES = NoPES
  CCModulus = 2
  PtsMax = 7
  PtsHigh = 3
  PcrLow = 2
  DueWindow = 2
  LevelModulus = 8
  MaxQueue = 2
INVARIANTS QueueDiscipline
PROPERTIES DriftHasCauses FifoSpec
CHECK_DEADLOCK FALSE
