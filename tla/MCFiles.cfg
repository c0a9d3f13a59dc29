SPECIFICATION PartsSpec
CONSTANTS
  FDTABLE_MAX_FILES = 6
  File = {f1, f2, f3}
  Stdio = Stdio
  NULL = NULL
  ENFILE = 4
  EBADF = 9
  FetchWhenFull = FALSE
  MaxLost = 2
  VfsFile = {v1, v2}
  Careful = TRUE
  Byte = {x, y}
  ZERO = ZERO
  JUNK = JUNK
  Handle = {h1, h2}
SYMMETRY Symmetry
INVARIANTS
  CountsExact
  RefsExact
  LookupExact
  ReadBack
  ListingExact
  
PROPERTIES
  DescriptorsSpec
  TreeSpec
