SPECIFICATION FairSpec
CONSTANTS
  NPbuf = 2
  MaxLoad = 2
  Kinds = {"BAD", "QUIET", "SMALL", "LARGE"}
  Uninit = {"RIGHT", "FAULT", "STALE"}
  RingPages = 2
  MaxFrames = 2
  MaxSends = 2
INVARIANTS BuffersAccounted OneTransmission CompletionPending
PROPERTIES QueuedIsFreed
CHECK_DEADLOCK FALSE
