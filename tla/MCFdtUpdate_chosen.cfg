\* A DTB without the node chosen.
CONSTANTS
  FDT_TAGSIZE = 2
  FDT_SIZE_MAX = 84
  Files <- MCFiles
  Cmdlines <- MCCmdlines
  Initrds <- MCInitrds
  CHOSEN <- MCChosen
  BOOTARGS <- MCBootargs
  INITRD_START <- MCStart
  INITRD_END <- MCEnd
  PHANDLE <- MCPhandle
  LINUX_PHANDLE <- MCLinuxPhandle
SPECIFICATION Spec
INVARIANT ChosenMade
CHECK_DEADLOCK FALSE
