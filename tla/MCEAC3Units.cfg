SPECIFICATION Spec
CONSTANTS
  MaxSubstreamIds = 2
  PESData <- MCPESData
INVARIANTS QueueDiscipline UnitsInOrder LegalUnitsAreReturned UnitsAgree CountsInTable
PROPERTIES PESDecodeReturns
CHECK_DEADLOCK FALSE
