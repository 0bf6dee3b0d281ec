SPECIFICATION FairSpec
CONSTANTS
  u1 = u1
  u2 = u2
  u3 = u3
  f1 = f1
  s1 = s1
  Urls = {u1, u2, u3}
  Fetches = {f1}
  Subscribes = {s1}
  Signalled = {f1}
INVARIANT
  NothingLeftBehind
PROPERTY
  FetchSettles
CHECK_DEADLOCK FALSE
