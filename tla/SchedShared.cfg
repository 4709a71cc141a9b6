SPECIFICATION Spec
CONSTANTS
  MaxProc = 3
  TimerPeriod = 1
  NBoot = 2
  NTasks = 3
  Irq = {1, 3}
  Disciplined = FALSE
INVARIANTS SlotsCovered OnlyGoneUnlisted
