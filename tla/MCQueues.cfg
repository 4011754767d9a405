CONSTANTS
  ExpirationTimes <- MCExpirationTimes
  MaxClassUpdate = 3
  MaxCaptured = 1
  MAX_SIGNED_31_BIT_INT = 100
  UNIT_SIZE = 2
  LOW_PRIORITY_EXPIRATION = 12
  LOW_PRIORITY_BATCH_SIZE = 4
  HIGH_PRIORITY_EXPIRATION = 5
  HIGH_PRIORITY_BATCH_SIZE = 2
  Timeouts <- MCTimeouts
  MaxClock = 6
  MaxScheduled = 2
  State <- MCState
  Initial = 0
  Action <- MCAction
  Dispatched = {"switch", "zero"}
  Reduce <- MCReduce
  RenderPhase <- MCRenderPhase
  Deps = {d1, d2}
  RE_RENDER_LIMIT = 2
  MaxTime = 2
  MaxUpdate <- MCMaxUpdate
  Kinds = {"passive", "layout", "none"}
  Moves = {{}}
  Nil = Nil
  Classes <- MCClasses
  Value = {"x", "y"}
  Absent = "absent"
  None = None
  MaxLifecycleTime = 2
  MaxIssued = 2
  MaxAttempt = 3
  Child <- MCChild
  Children <- MCChildren
  Empty = Empty
  NoKey = NoKey
SYMMETRY MCSymmetry
SPECIFICATION QueuesSpec
INVARIANTS
  RebasedState
  EffectsPaired
  NodesFollowChildren
  NoUpdateLost
  TimesAreRight
  InputsAreControlled
  LifecyclesAgree
PROPERTY
  RendersByPriority
CHECK_DEADLOCK FALSE
