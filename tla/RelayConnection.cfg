SPECIFICATION Spec
CONSTANTS
  a1 = a1
  a2 = a2
  a3 = a3
  Attempts = {a1, a2, a3}
  NoAttempt = NoAttempt
  MaxReconnectValues = {0, 1}
  RetryCap = 1
  AutoReconnectValues = {TRUE, FALSE}
  Reentrant = TRUE
INVARIANTS
  ConnectedIsLive
  NoSocketLeak
