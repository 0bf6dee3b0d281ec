SPECIFICATION Spec
CONSTANTS
  s1 = s1
  s2 = s2
  e1 = e1
  e2 = e2
  Subs = {s1, s2}
  Messages = {e1, e2}
  Invalid = {}
  NoSub = NoSub
  maxEventBuffers = 1
  maxEventsPerBuffer = 1
  MaxEose = 1
  Reentrant = TRUE
INVARIANTS
  NothingMissed
  UnsubscribeIsFinal
PROPERTY
  ImplementsFeed
CHECK_DEADLOCK FALSE
