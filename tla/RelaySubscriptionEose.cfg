SPECIFICATION FairSpec
CONSTANTS
  s1 = s1
  e1 = e1
  e2 = e2
  Subs = {s1}
  Messages = {e1, e2}
  Invalid = {e2}
  NoSub = NoSub
  maxEventBuffers = 1
  maxEventsPerBuffer = 1
  MaxEose = 2
  Reentrant = TRUE
INVARIANT
  CountsMatch
PROPERTIES
  EoseReachesCaller
  AutoCloseEnds
CHECK_DEADLOCK FALSE
