SPECIFICATION MCSpec
CONSTANTS
  MAXPROC = 3
  CLOCK_MAX = 7
  NBOOT = 2
  System = {1}
  Uid <- MCUid
  Gid <- MCGid
  Garbage <- MCGarbage
  Irqs = {6}
  Ticks = {1, 2}
  WaitArgs <- MCWaitArgs
  MAXWAITERS = 2
INVARIANTS
  TypeOK
  ListsConsistent
  TicksNeverWrap
  
  ChildExitNotMissed
  NoLostTimer
PROPERTIES
  DefunctStaysDead
