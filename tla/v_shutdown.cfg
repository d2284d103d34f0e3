SPECIFICATION FairSpec
CONSTANTS
  MaxFd = 5
  Uninitialised = {0, 1, 2, 3, 4, 9}
PROPERTY ShutDownReturns
CHECK_DEADLOCK FALSE
