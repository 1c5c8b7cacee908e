\* Trees written, or given, and edited in a buffer that gets full.
CONSTANTS
  FDT_TAGSIZE = 2
  BufSize = 58
  Files <- MCFiles
  Names <- MCNames
  PropNames <- MCPropNames
  Values <- MCValues
  Addresses = {9}
  Sizes = {1}
  MaxRsv = 1
  PHANDLE <- MCPhandle
  LINUX_PHANDLE <- MCLinuxPhandle
SPECIFICATION Spec
INVARIANTS BlocksApart Faithful LookupsAgree WaysUpAgree
CHECK_DEADLOCK FALSE
