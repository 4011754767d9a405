CONSTANTS
  Root = {r1, r2}
  Null = Null
  Sync = 4
  Level = {"userBlocking"}
  Delay <- MCDelay
  MaxUpdate = 2
  MaxSuspend = 1
  MaxHandler = 1
  Handle <- MCHandle
SYMMETRY MCSymmetry
SPECIFICATION Spec
INVARIANTS RecordsAgree PendingWorkIsScheduled
CHECK_DEADLOCK FALSE
