\* Boots with DTBs of seven kinds, again and again, in a buffer just too small.
CONSTANTS
  FDT_TAGSIZE = 2
  FDT_SIZE_MAX = 84
  Files <- MCFiles
  Cmdlines <- MCCmdlines
  Initrds <- MCInitrds
  CHOSEN <- MCChosen
  BOOTARGS <- MCBootargs
  INITRD_START <- MCStart
  INITRD_END <- MCEnd
  PHANDLE <- MCPhandle
  LINUX_PHANDLE <- MCLinuxPhandle
SPECIFICATION Spec
INVARIANTS HandedOver RestAsLoaded FailsForCause
CHECK_DEADLOCK FALSE
