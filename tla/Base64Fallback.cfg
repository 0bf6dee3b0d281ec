SPECIFICATION Spec
CONSTANTS
  ByteValues = {0, 1, 255}
  MaxBytes = 5
INVARIANT FallbackIsCompliant
CHECK_DEADLOCK FALSE
