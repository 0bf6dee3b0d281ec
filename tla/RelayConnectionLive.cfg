SPECIFICATION FairSpec
CONSTANTS
  a1 = a1
  a2 = a2
  Attempts = {a1, a2}
  NoAttempt = NoAttempt
  MaxReconnectValues = {2}
  RetryCap = 3
  AutoReconnectValues = {TRUE}
  Reentrant = FALSE
INVARIANTS
  PendingIsOwned
  NoReconnectAfterDisconnect
PROPERTIES
  ConnectSettles
  ConnectOrGiveUp
