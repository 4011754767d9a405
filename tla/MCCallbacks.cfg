CONSTANTS
  Null = Null
  MaxCallback = 4
  MaxHandle = 6
  NoRequest = NoRequest
  Timeouts <- MCTimeouts
  FrameRates <- MCFrameRates
  DefaultFrameTime = 3
  MinFrameTime = 1
  Second = 4
  MaxFrameRate = 4
  Lag = 1
  MaxTime = 4
  MaxMessages = 2
  MaxTimers = 4
  Expirations <- MCExpirations
SPECIFICATION CallbacksSpec
INVARIANTS
  DOMTypeOK
  WillBeFlushed
  NothingDropped
  OneFrameChain
  WakeupOnTheWay
PROPERTIES
  EveryCallbackIsTaken
  RequestAnswered
  ImplementsContract
  ImplementsQueue
CHECK_DEADLOCK FALSE
