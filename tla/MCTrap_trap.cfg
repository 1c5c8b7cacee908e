\* Exceptions in the program, in an interrupt and in trap_enter.
CONSTANTS
  Values <- MCValues
  OsHandler = 800
SPECIFICATION FairSpec
INVARIANTS TypeOK  VectorsOwned
PROPERTY HandlerEnds
CHECK_DEADLOCK FALSE
