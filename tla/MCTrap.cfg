SPECIFICATION FairSpec
CONSTANTS
  UserPCs = 3
  Period = 3
  MaxFaults = 3
INVARIANTS
  ResumesInPlace
PROPERTIES
  HostGetsHart
