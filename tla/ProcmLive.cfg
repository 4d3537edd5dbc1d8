SPECIFICATION FairSpec
CONSTANTS
  MAXPROC = 3
  CLOCK_MAX = 5
  NBOOT = 2
  System = {2}
  Uid <- MCUid
  Gid <- MCGroups
  Garbage <- MCZero
  Irqs = {6}
  Ticks = {1}
  WaitArgs = {}
  MAXWAITERS = 1
PROPERTIES
  NoStarvation
  
