SPECIFICATION FairSpec
CONSTANTS
  u1 = u1
  u2 = u2
  bad = bad
  q = q
  s = s
  Urls = {u1, u2, bad}
  BadUrls = {bad}
  Calls = {q, s}
  Queries = {q}
  Timeouts = {q}
  MaxEose = 1
  EarlyEose = FALSE
INVARIANTS
  EoseIsComplete
  OverIsReleased
PROPERTY
  QueryResolves
CHECK_DEADLOCK FALSE
