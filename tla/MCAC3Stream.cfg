SPECIFICATION StreamSpec
CONSTANTS
  s0 = s0
  s1 = s1
  short = short
  long = long
  eight = eight
  other = other
  Byte <- MCByte
  Sync0 = s0
  Sync1 = s1
  FrameWords <- MCFrameWords
  Bsid8 <- MCBsid8
  PESData <- MCPESData
  Streams <- MCStreams
  MaxPES = 9
  MaxLost = 1
INVARIANTS FramesAreCut NothingLeftBehind SearchEndsThere CutsWholeStream OneWrongFramePerLoss BackInStep
CHECK_DEADLOCK FALSE
