\* Images of every size, also such that reloading them wraps the space.
CONSTANTS
  WordSize = 18
  PageSize = 2
  Files <- LargeFiles
  FileSize <- LargeSize
  ReadCounts <- LargeReads
  Dtbs = {"dtb"}
  Layouts <- MCLayouts
  MachineIds = {4443}
  DtbMachId = 3503
  Junk = Junk
SPECIFICATION Spec
INVARIANTS TypeOK FirstLoadExact
PROPERTY InPlaceKept
