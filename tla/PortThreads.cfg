SPECIFICATION Spec
CONSTANTS
  NBoot = 2
  NTasks = 3
  RMax = 5
  Restricts = {0}
  Opts = {2}
  Args = {1}
  Sizes = {2000}
  MaxQueue = 1
  MaxPages = 2
  MaxThreads = 2
  MaxRef = 1
INVARIANTS FreeListSound SleeperOwnsPort AspaceOutlivesThreads RidsSound PagesDistinct
CHECK_DEADLOCK FALSE
