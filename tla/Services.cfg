SPECIFICATION ServicesFairSpec
CONSTANTS
  NBoot = 4
  NTasks = 4
  RMax = 13
  Restricts = {0, 1}
  Opts = {}
  Args = {}
  Sizes = {4, 36}
  MaxQueue = 4
  MaxPages = 0
  MaxRef = 1
  MaxThreads = 1
  MaxNames = 32
  ScanCodes = {30, 42, 170}
  MaxScans = 3
INVARIANTS CallsSound ServersLive KeysInOrder
PROPERTIES CallReturns
CHECK_DEADLOCK FALSE
