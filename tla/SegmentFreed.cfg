SPECIFICATION ShmSpec
CONSTANTS
  NFrames = 42
  NLow = 10
  NHigh = 40
  MaxBrk = 3
  Breaks = {3}
  Reserved = {0, 1, 2, 3}
  Video = {2}
  NBoot = 2
  NTasks = 3
  KM = 1
  Sizes = {16, 17}
  PerPage = 2
  MaxBlocks = 2
  ShmEntries = 1
  SegLens = {2}
  MaxHandles = 2
PROPERTIES SegmentStays
CHECK_DEADLOCK FALSE
