SPECIFICATION Spec
CONSTANTS
  MAXPROC = 2
  CLOCK_MAX = 7
  NBOOT = 2
  System = {1}
  Uid <- MCUid
  Gid <- MCGid
  Garbage <- MCZero
  Irqs = {6}
  Ticks = {1, 2}
  WaitArgs <- MCWaitArgs
  MAXWAITERS = 2
INVARIANT WaitAnyReturns
