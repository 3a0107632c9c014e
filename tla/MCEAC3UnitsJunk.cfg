SPECIFICATION Spec
CONSTANTS
  MaxSubstreamIds = 2
  PESData <- MCPESData
INVARIANTS UnitAfterJunkIsReturned
CHECK_DEADLOCK FALSE
