CONSTANTS
  Root = {r1, r2}
  Null = Null
  Sync = 3
  Level = {"userBlocking"}
  Delay <- MCDelay
  MaxUpdate = 3
  MaxSuspend = 0
  MaxHandler = 0
  Handle <- MCHandle
SYMMETRY MCSymmetry
SPECIFICATION Spec
INVARIANT OtherRootsContinue
CHECK_DEADLOCK FALSE
