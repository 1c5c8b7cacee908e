\* Images of at most a third of mem_block: no space wraps.
CONSTANTS
  WordSize = 18
  PageSize = 2
  Files <- SmallFiles
  FileSize <- SmallSize
  ReadCounts <- SmallReads
  Dtbs = {"dtb"}
  Layouts <- MCLayoutsOrNone
  MachineIds = {4443}
  DtbMachId = 3503
  Junk = Junk
SPECIFICATION Spec
INVARIANTS  InPlace
PROPERTY StoreImplemented
