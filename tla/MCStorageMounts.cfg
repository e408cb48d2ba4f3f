CONSTANTS
  Hosts <- AllHosts
  MaxResources = 7
  MaxRelations = 6
  MaxMounts = 3
  MaxFindings = 2
  MaxDetails = 2
  MaxDepth = 3
  MaxSnapshot = 14
  Calls = {c1, c2}
  Cores = {"block"}
  Optional = {"smart"}
  Cached = {"smart"}
  TTL = 2
  CollectTimeout = 2
  OverallTimeout = 3
  MaxTime = 7
  RaceTime = 3
INIT Init
NEXT Next
INVARIANT MountHealthRule
CHECK_DEADLOCK FALSE
