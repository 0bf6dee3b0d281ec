SPECIFICATION FairEphemeralSpec
CONSTANTS
  s1 = s1
  s2 = s2
  Sockets = {s1, s2}
  q1 = q1
  SubIds = {q1}
  k1 = k1
  NoKey = NoKey
  Unlimited = 9
  Events <- MCEvents
  Filters <- MCFilters
  Invalid <- MCInvalid
  MaxTasks = 3
  MaxStarts = 2
INVARIANTS
  CacheConverges
  ViewCoversCache
PROPERTY
  CloseDrains
CHECK_DEADLOCK FALSE
