SPECIFICATION MCSpec
CONSTANTS
  Dev = FALSE
  Probeable <- MCProbeable
  Browsers = {b1, b2}
  MaxRestarts = 2
  Addresses = {"a1", "a2"}
  Lifetime = 2
  Window = 1
  MaxTime = 2
  MaxSerial = 2
  MaxMishaps = 1
INVARIANTS StartInv PagesMatchOperations
PROPERTIES CacheRules WebRules
CHECK_DEADLOCK FALSE
