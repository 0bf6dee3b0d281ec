SPECIFICATION Spec
CONSTANTS
  c1 = c1
  c2 = c2
  Callers = {c1, c2}
  MaxRequests = 3
  Operations = {"sign_event", "get_public_key", "nip44_encrypt"}
  DefaultPermissions = {}
  RequestedPermissions = {"sign_event"}
  RequireAuthChallenge = TRUE
  MaxLapses = 1
  Verdicts = {"default"}
INVARIANTS
  PendingMatches
  ExecutedOnce
  SessionIsApproved
  ConnectedIsAccepted
CHECK_DEADLOCK FALSE
