\* An FDT may grow beyond boot_param; a list of tags does not.
CONSTANTS
  WordSize = 18
  PageSize = 2
  Settings <- MCSettings
  RELOC = 1
  AtagSizes = {1, 3}
  FdtSizes = {2, 4}
SPECIFICATION FairSpec
INVARIANTS TypeOK ImagesArrive ParamsArrive
PROPERTIES BootEnds HandsOver
CHECK_DEADLOCK FALSE
