SPECIFICATION FairSpec
CONSTANTS
  Emodule <- MCEmodule
  Manager = 0
  TopLevel <- MCTopLevel
  Deps <- MCDeps
  NoReturn <- MCNoReturn
  TableSize = 6
  PageBytes = 4
  SigBytes = 2
  HostSizes = {0, 2, 4, 5}
  PoolPages = 9
  TablePages = 1
  InitBrk = 1
  ManagerGetter = 100
INVARIANTS
  RunsAttested
PROPERTIES
  AbstractSpec
  LoadsEnd
