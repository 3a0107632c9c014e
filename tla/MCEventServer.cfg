SPECIFICATION Spec
CONSTANTS
  l = l
  c1 = c1
  c2 = c2
  c3 = c3
  Sockets <- MCSockets
  Listener = l
  Fds <- MCFds
  NoFd <- MCNoFd
  FD_SETSIZE = 6
  MaxEvents = 2
INVARIANTS GroupsAgree NoSocketIsUsedAfterDelete
PROPERTIES OnlyGoneAreRemoved GoneAreRemoved WaitingAreAccepted
CHECK_DEADLOCK FALSE
