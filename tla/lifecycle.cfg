SPECIFICATION FairSpec
CONSTANTS
  MaxFd = 5
  Uninitialised = {0, 1, 2, 3, 4, 9}
INVARIANT StopsCleanly
PROPERTY EndsWhenTold
CHECK_DEADLOCK FALSE
