\* An FDT may grow beyond boot_param.
CONSTANTS
  WordSize = 18
  PageSize = 2
  Settings <- MCSettings
  RELOC = 1
  AtagSizes = {1, 3}
  FdtSizes = {2, 4}
SPECIFICATION Spec
INVARIANT WholeParams
CHECK_DEADLOCK FALSE
