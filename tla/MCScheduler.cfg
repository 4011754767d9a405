CONSTANTS
  MaxNode = 3
  Expirations <- MCExpirations
  TimeoutOf <- MCTimeoutOf
  CustomTimeouts <- MCCustomTimeouts
  Levels <- MCLevels
  NoRequest = NoRequest
  EnableSchedulerDebugging = TRUE
  MaxTime = 1
  MaxDepth = 2
  Browsers <- MCBrowsers
  MaxTimers = 3
  MaxOwnership = 2
  Element <- MCElement
  Kind <- MCKind
  Kids <- MCKids
  Fallback <- MCFallback
  ContextOf <- MCContextOf
  ValueOf <- MCValueOf
  Body <- MCBody
  Top = {"a", "b"}
  Nested = "n"
  Context = {"c"}
  Default = "default"
  Stream = {s1, s2}
  Inner = {inner}
  InitialThreads = 2
  MaxThreads = 4
  Nil = Nil
  View <- MCView
  AncestorsOf <- MCAncestorsOf
  NoView = "none"
  Touch = {1, 2}
  MaxRootTime = 2
  MaxInteraction = 2
  MaxWrap = 1
  MaxRootUpdate = 2
  MaxFrames = 2
  Key = {"j", "k", "l"}
  Limits = {0, 1, 2}
  MaxEntry = 6
  Null = Null
  MaxBatch = 3
  MaxRender = 3
  MaxNow = 3
  Sync = 12
  LOW_PRIORITY_EXPIRATION = 0
  LOW_PRIORITY_BATCH_SIZE = 2
  Source = {"A", "B", "C"}
  Readable = {"A", "B"}
  Replaying = {"B"}
  Unsubscribable = {"A", "B"}
  NoSource = "null"
  MaxUpdateTime = 2
  MaxValue = 1
  MaxPending = 3
SPECIFICATION ComponentsSpec
INVARIANTS
  TypeOK
  NoLostWakeup
  RequestIsKnown
  TakesTurns
  ContextRestored
  PressesEnd
  ShowsCurrentValue
  RequestsAreSeparate
  HydratesAsRendered
  InteractionsComplete
  KeepsLastUsed
  
  LockFollowsTouches
PROPERTIES StartsEarliest ImplementsContract
CHECK_DEADLOCK FALSE
