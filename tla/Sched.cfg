SPECIFICATION FairSpec
CONSTANTS
  MaxProc = 3
  TimerPeriod = 1
  NBoot = 1
  NTasks = 2
  Irq = {1, 3}
  Disciplined = TRUE
INVARIANTS TypeOK NeverFreesOwnStack PreemptTargetListed OneRunning EoiBalanced
PROPERTIES NoIrqDropped KernelReturns TimerSleeperWakes ReadyRuns IrqHeard
