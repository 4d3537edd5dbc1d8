SPECIFICATION FaultySpec
CONSTANTS
  NBLOCKS = 3
  Data = {0, 1}
  BLOCK_COUNT = 2
  READBUF_SZ = 2
  HINTCNT = 2
  MAXREF = 1
INVARIANT NoDangling
