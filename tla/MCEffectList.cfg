CONSTANTS
  ExpirationTimes <- MCExpirationTimes
  MaxUpdate = 3
  MaxCaptured = 1
SPECIFICATION Spec
INVARIANT EffectListEnds
CHECK_DEADLOCK FALSE
