SPECIFICATION MCSpec
CONSTANTS
  Callers = {p1, p2, p3}
  Resources = {r1, r2}
  Entries = {e1, e2, e3}
  NoEntry = NoEntry
  NoResource = NoResource
  q1 = q1  q2 = q2  r1 = r1  e1 = e1  e2 = e2
  d1 = d1  d2 = d2  t1 = t1
  a1 = a1  res = res  nobody = nobody  foreign = foreign  meanwhile = meanwhile  alike = alike
INVARIANT LockInvariant
PROPERTIES ImplementsExclusiveLock LocksServe RegistrySettles RevocationTakesHold StartEnds StateEnds AttentionIsResolved
CHECK_DEADLOCK FALSE
