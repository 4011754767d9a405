SPECIFICATION Spec
CONSTANTS
  Element <- MCElement
  Root = "R"
  TagOf <- MCTagOf
  Initial <- MCInitial
  Kids <- MCKids
  ConstElement = {"M"}
  ContextElement = {"C", "D", "A"}
  Primary <- MCPrimary
  Fallback <- MCFallback
  Nil = Nil
  Outcome <- MCOutcome
  Boundary = {"E"}
  Payload <- MCPayload
  RootState = {"suspense"}
  MaxTime = 2
  MaxUpdate = 3
INVARIANT FindsCurrentFiber
CHECK_DEADLOCK FALSE
