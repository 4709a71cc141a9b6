SPECIFICATION FairSpec
CONSTANTS
  RMax = 3
  Task = {1, 2, 3}
  Item = {1, 2, 3}
  QueueId = {1, 2}
  Node = {1, 2, 3}
  MaxCount = 1
INVARIANTS SleepersQueued MutualExclusion
PROPERTIES ImplementsSemaphore LockGranted
CHECK_DEADLOCK FALSE
