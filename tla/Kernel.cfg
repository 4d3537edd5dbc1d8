SPECIFICATION MCSpec
CHECK_DEADLOCK FALSE
CONSTANTS
  Parts = {"memphys", "memory", "sem", "msg", "malloc"}
  FREEPHYS = 3
  LAST = 9
  SLOTS = 3
  BITS = 2
  MAXDMA = 2
  FRAMES = 18
  Users = {2, 3}
  Booted = {2}
  NDATA = 3
  NSTACK = 2
  IMAGE = {1, 2}
  MAXPROC = 3
  CLOCK_MAX = 3
  MAXVAL = 1
  Types = {1, 2}
  Wanted = {0, 1}
  MAXUPCALLS = 1
  PAGE_SIZE = 8
  ENTRIES = 4
  HEADER = 2
  KERNELDATA_ADDRESS = 24
  KERNELDATA_END = 56
  PageTables = {0, 1}
  init_stacksize = 12
  Sizes = {1, 6, 9}
  MAXUSED = 3
INVARIANTS
  KernelTypeOK
  PoolSound
  
  
  
  NoMissedMessage
  HeapSound
PROPERTIES
  PoolRefined
  
