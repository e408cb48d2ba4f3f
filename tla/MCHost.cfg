SPECIFICATION MCSpec
CONSTANTS
  Requests = {r1, r2}
  NoOwner = no
  ExtensionRequests = {r1, r2}
  Unlocked = unlocked
  ExtensionNames = {"a", "u"}
  Directories <- TwoDirectories
  CacheTTL = 1
  MaxDelay = 1
  Deployments = {c1, c2, p1, p2}
  Container = {c1, c2}
  SoftRebootable = {c2, p1}
  Decorations <- Prefixes
  NoDeployment = none
  Values = {"off", "stage"}
  MaxFileLines = 3
  MaxLines = 2
  MaxBytes = 4
  Stream = 1
  Lengths = {1, 2, 4}
  MaxRead = 3
  MaxAge = 1
  MaxDays = 4
INVARIANTS ExtensionsAgree ObjectsAgree OrdersAreSerial TailIsExact ReportsAreTrue
CHECK_DEADLOCK FALSE
