\* boot_param holds the longest list and not a word more; or it was not allocated.
CONSTANTS
  BufWords = 28
  CmdlineMax <- MCCmdlineMax
  Settings <- MCSettings
SPECIFICATION Spec
INVARIANTS TypeOK ReadBack NoOverrun
CHECK_DEADLOCK FALSE
