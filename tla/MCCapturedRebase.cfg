CONSTANTS
  ExpirationTimes <- MCExpirationTimes
  MaxUpdate = 3
  MaxCaptured = 1
SPECIFICATION Spec
INVARIANT CapturedNotDropped
CHECK_DEADLOCK FALSE
