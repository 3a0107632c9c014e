CONSTANTS
  Kinds = {"lpcm", "dts", "ac3", "eac3", "samples", "es", "esfiles", "pes", "pesfiles"}
  DECODED_FRAME_SIZE = 4
  DTSTypes <- MCDTSTypes
  DTSHeaderBytes = 3
  DTSPackets <- MCDTSPackets
  LPCMHeaders <- MCLPCMHeaders
  PESSizes <- MCPESSizes
  AC3Frames = {1, 3, 4}
  Samples = {5, 40000, 74560}
  MaxPES = 3
  Pages = {100, 1000, 999}
  Magazines = {1, 127, 255}
  Columns <- MCColumns
  Packets <- MCPackets
  MaxUnits = 3
  ClockModulus = 32
  WordModulus = 256
  CCModulus = 4
  PTSs = {1, 2}
  NoPTS = NoPTS
  ClockRates = {2, 3}
  Offsets = {0, 21}
  MaxPackets = 6
  MaxLost = 1
  HALF = 3
  BYTE = 2
  CRC_POLY <- MCPoly
  HalfWords <- MCHalfWords
  Words <- MCWords
  DoubleWords <- MCDoubleWords
  Messages <- MCMessages
  Depths = {1, 4, 5, 8}
  AC3Flags <- MCAC3Flags
  DTSFrames <- MCDTSFrames
  PacketHeaders <- MCPacketHeaders
  PIDs = {16, 4112, 8191}
  PESLengths = {0, 1, 2, 3, 4, 5, 6, 7, 8, 9, 10, 11, 12}
  HeaderLengths = {0, 5, 8}
  Stamps <- MCStamps
  Ts188Byte = 12
  Ts204Byte = 16
  Files <- MCFiles
  Rates = {23, 24, 25, 29, 30, 50, 59}
  MaxFrames = 21
  Times = {0, 1, 999, 1000, 59999, 60000, 3599999, 3600000, 95443717, 3723004}
  Texts <- MCTexts
  CommandLines <- MCCommandLines
  Keys = {"-p"}
  Positions = {1, 2, 3, 4}
SPECIFICATION Spec
CHECK_DEADLOCK FALSE
INVARIANTS
  BurstsKeepTheirPlace
  FaultsHaveCauses
  ReadsBack
  LinesShowTheirBox
  CalculationsAreRight
  BitsAreRight
  RowsAreRight
  OnlyLastIsStarted
  ClockFollowsSender
