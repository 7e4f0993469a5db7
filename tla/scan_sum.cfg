\* Two elements, each in a half of its own, on two workers.
SPECIFICATION ScanSpec
CONSTANTS
  NumWorkers = 2
  N = 2
  Grain = 1
  Task <- Scans
  Body <- ScanBodies
  caller = caller
  Client = {caller}
  Root <- Whence
  Outside = {}
  None = None
INVARIANT ScanSum
