SPECIFICATION ShmSpec
CONSTANTS
  NFrames = 37
  NLow = 10
  NHigh = 33
  MaxBrk = 3
  Breaks = {3}
  Reserved = {0, 1, 2, 3}
  Video = {2}
  NBoot = 2
  NTasks = 3
  KM = 1
  Sizes = {16, 17}
  PerPage = 2
  MaxBlocks = 2
  ShmEntries = 2
  SegLens = {2}
  MaxHandles = 3
INVARIANTS FramesAccounted SegmentsSound StacksSound BlocksSound
PROPERTIES MappingsStay
CHECK_DEADLOCK FALSE
