SPECIFICATION Spec
CONSTANTS
  NBoot = 2
  NTasks = 2
  RMax = 6
  Restricts = {0}
  Opts = {4}
  Args = {0, 1, 4}
  Sizes = {4}
  MaxQueue = 1
  MaxPages = 0
  MaxThreads = 1
  MaxRef = 2
INVARIANT NoLostWakeup
CHECK_DEADLOCK FALSE
