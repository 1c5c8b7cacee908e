\* Small heaps, with an allocator that takes the first gap or any.
CONSTANTS
  WordSize = 64
  PageSize = 2
  HeapStart = 1
  HeapEnd = 24
  OsBlocks <- MCOsBlocks
  INC_BLOCK_SIZE = 4
  MAX_BOOT_PARAM_SIZE = 3
  FDT_SIZE_MAX = 4
  FdtAlign = 2
SPECIFICATION FairSpec
INVARIANTS TypeOK Multiple Accounted GoodBlocks Largest FdtReserved
PROPERTY ReachesPrompt
