SPECIFICATION Spec
CONSTANTS
  PAGE_SIZE = 8
  ENTRIES = 4
  HEADER = 2
  KERNELDATA_ADDRESS = 24
  KERNELDATA_END = 96
  PageTables = {0}
  init_stacksize = 12
  Sizes = {1, 6, 9}
  MAXUSED = 3
INVARIANT HeapTiled
