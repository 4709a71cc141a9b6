SPECIFICATION FairSpec
CONSTANTS
  NPbuf = 2
  MaxLoad = 12
  Kinds = {"LARGE"}
  Uninit = {"RIGHT"}
  RingPages = 2
  MaxFrames = 1
  MaxSends = 1
PROPERTIES RefusedIsFreed
CHECK_DEADLOCK FALSE
