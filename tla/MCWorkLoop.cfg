SPECIFICATION Spec
CONSTANTS
  Element <- MCElement
  Root = "R"
  TagOf <- MCTagOf
  Initial <- MCInitial
  Kids <- MCKids
  ConstElement = {"M"}
  ContextElement = {"C", "D", "A"}
  Primary <- MCPrimary
  Fallback <- MCFallback
  Nil = Nil
  Outcome <- MCOutcome
  Boundary = {"E"}
  Payload <- MCPayload
  RootState = {"suspense", "mount", "error", "context"}
  MaxTime = 2
  MaxUpdate = 3
INVARIANTS
  FindsCurrentInstance
  MarksReachUpdates
  StackMatchesPath
  HostMatchesTree
  ConsumersAgree
PROPERTY
  CommitProcessesUpdates
CHECK_DEADLOCK FALSE
