SPECIFICATION PartsSpec
CONSTANTS
  PageSize = 2
  PartPages = 3
  HeapStart = 6
  PoolSize = 2
  LowBrk = 8
  MaxBrk = 24
  NParts = 4
INVARIANTS
  HeapBacked
  NoAlias
  HeapSound
  MappingsApart
  ProgramLoaded
PROPERTIES
  MapSpec
  PayloadsKept
