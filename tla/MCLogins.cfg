SPECIFICATION MCSpec
CONSTANTS
  Calls = {c1, c2}
  Tokens = {t1, t2}
  NoToken = NoToken
  IdleTTL = 3
  AbsoluteTTL = 5
  MaxDelay = 1
  MaxTime = 6
  Logins = {l1, l2}
  Requests = {q1, q2}
  Keys = {k1, k2, k3}
  NoKey = NoKey
  MaxTrackedAttempts = 2
  Slots = 1
  StaleAfter = 2
  MaxShift = 1
  LimiterTime = 3
  MaxFailures = 3
  Accounts = {a1}
  Operations <- AllOperations
  Resource = res
  NoOwner = none
  MaxRecords = 2
  MaxID = 5
  MaxBoot = 2
  AdviceRecords = 1
  AdviceJobs = 2
  AdviceTime = 3
INVARIANTS SessionInv RequestInv AdviceIsSound
PROPERTIES SessionsKeepTime LimiterRules JobRules
CHECK_DEADLOCK FALSE
