SPECIFICATION Spec
CONSTANTS
  FDTABLE_MAX_FILES = 6
  File = {f1, f2, f3, f4}
  Stdio = Stdio
  NULL = NULL
  ENFILE = 4
  EBADF = 9
  FetchWhenFull = TRUE
  MaxLost = 2
PROPERTIES
  OpenKeepsOthers
