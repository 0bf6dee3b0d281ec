SPECIFICATION Spec
CONSTANTS
  c1 = c1
  c2 = c2
  NoCaller = NoCaller
  Callers = {c1, c2}
  MaxRequests = 2
  Methods = {"get_balance", "pay_invoice"}
  Expiring = {"pay_invoice"}
  Services <- MCServices
  Preferred = "nip44"
  MaxRetries = 1
  MaxFaults = 1
SYMMETRY Symmetry
INVARIANTS
  InitializedIsSubscribed
  PendingIsAwaited
  AnswerIsReadable
CHECK_DEADLOCK FALSE
