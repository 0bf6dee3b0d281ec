SPECIFICATION PublishFairSpec
CONSTANTS
  p1 = p1
  p2 = p2
  p3 = p3
  e1 = e1
  e2 = e2
  Publishes = {p1, p2, p3}
  EventIds = {e1, e2}
  EventOf <- MCEventOf
  NoResult = NoResult
INVARIANTS
  HandlersMatch
  SuccessIsAcknowledged
PROPERTY
  PublishSettles
