SPECIFICATION Spec
CONSTANTS
  Sockets = {1, 2}
  Fds = {3, 4, 5}
  Hosts <- MCHosts
  Timeouts = {1}
  Thousand = 2
  MaxArrived = 1
INVARIANTS
  OwnersAgree
  ReportsAreTrue
PROPERTIES
  ThrowsChangeNothing
  TimedCallsReturn
CHECK_DEADLOCK FALSE
