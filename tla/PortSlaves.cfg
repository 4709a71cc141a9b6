SPECIFICATION FairSpec
CONSTANTS
  NBoot = 2
  NTasks = 2
  RMax = 6
  Restricts = {0}
  Opts = {4}
  Args = {0, 4}
  Sizes = {4}
  MaxQueue = 2
  MaxPages = 0
  MaxThreads = 1
  MaxRef = 2
INVARIANTS MasterSound RefcountCoversSlaves DirectMessageWakes
PROPERTIES ImplementsMailbox DirectMessageReceived
CHECK_DEADLOCK FALSE
