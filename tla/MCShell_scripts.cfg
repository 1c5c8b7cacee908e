\* Nested scripts and settings, from main's argument and typed.
CONSTANTS
  MB <- MCMB
  CmdlineSize = 5
  DTB_MACH_ID = 3503
  Lines <- MCLines
  Typed <- MCTyped
  MaxTyped = 3
  Machines <- MCMachines
SPECIFICATION FairSpec
INVARIANTS TypeOK  LastOneCounts CmdlineWhole  SerialKept
PROPERTY BackAtPrompt
CHECK_DEADLOCK FALSE
