--------------------------- MODULE HostConfigDOM ---------------------------
(***************************************************************************)
(* packages/scheduler/src/forks/SchedulerHostConfig.default.js in a        *)
(* browser.  A request is answered from a message event that an animation  *)
(* frame posts, so that flushWork runs after the paint of a frame and      *)
(* until the deadline of the frame; a timeout stands in for frames the     *)
(* browser does not deliver to background tabs.  Messages, frames and      *)
(* timers come one at a time, and none while flushWork is running.         *)
(***************************************************************************)
EXTENDS HostClient, FiniteSets

CONSTANTS
  DefaultFrameTime,      \* 33: 30 frames per second
  MinFrameTime,          \* 8
  Second,                \* 1000
  MaxFrameRate,          \* 125
  FrameRates,            \* arguments of forceFrameRate
  Lag,                   \* bound: how old the timestamp of a frame can be
  MaxTime, MaxMessages   \* bounds: the clock, and the messages in the port

\* What is assumed of the constants.
ASSUME DOMAssumption ==
  /\ MinFrameTime \in Nat \ {0}
  /\ DefaultFrameTime \in Nat /\ DefaultFrameTime >= MinFrameTime
  /\ Second \in Nat /\ MaxFrameRate \in Nat \ {0}
  /\ Second \div MaxFrameRate >= MinFrameTime
  /\ FrameRates \subseteq Int
  /\ Lag \in Nat /\ MaxTime \in Nat /\ MaxMessages \in Nat

VARIABLES
  now,
  scheduledHostCallback,     \* is it set?  It is always flushWork
  timeoutTime,
  isMessageEventScheduled,
  isAnimationFrameScheduled,
  isFlushingHostCallback,
  frameDeadline,
  previousFrameTime,
  activeFrameTime,
  fpsLocked,
  messages,                  \* messages posted and not yet delivered
  frames,                    \* pending requestAnimationFrame callbacks
  timers,                    \* pending setTimeout fallbacks
  latest                     \* rAFID and rAFTimeoutID, always set together

requested == <<scheduledHostCallback, timeoutTime>>
rate == <<previousFrameTime, activeFrameTime, fpsLocked>>
chain == <<isAnimationFrameScheduled, frames, timers, latest>>
port == <<isMessageEventScheduled, messages>>
flushing == <<isFlushingHostCallback, didTimeout>>
domVars == <<now, client, requested, rate, frameDeadline, chain, port, flushing>>

\* Frame and timer identifiers; two are enough to see a second chain start.
Id == 1 .. 2

DOMInit ==
  /\ now = 0
  /\ ClientInit
  /\ scheduledHostCallback = FALSE /\ timeoutTime = -1
  /\ isMessageEventScheduled = FALSE /\ messages = 0
  /\ isAnimationFrameScheduled = FALSE
  /\ frames = {} /\ timers = {} /\ latest = 1
  /\ isFlushingHostCallback = FALSE
  /\ frameDeadline = 0
  /\ previousFrameTime = DefaultFrameTime
  /\ activeFrameTime = DefaultFrameTime
  /\ fpsLocked = FALSE

PostMessage == messages < MaxMessages /\ messages' = messages + 1

\* Mutant: no timeout stands in for the frame.
FrameWithoutTimeout(left, waiting) ==
  \E id \in Id \ (left \cup waiting) :
    frames' = left \cup {id} /\ timers' = waiting /\ latest' = id

\* requestAnimationFrameWithTimeout, with `left` and `waiting` still pending.
RequestFrame(left, waiting) ==
  \E id \in Id \ (left \cup waiting) :
    /\ frames' = left \cup {id}
    /\ timers' = waiting \cup {id}
    /\ latest' = id

\* Mutant: a frame is requested whether or not one is pending.
ScheduleFrame == isAnimationFrameScheduled' = TRUE /\ RequestFrame(frames, timers)

ScheduleFrameIfNone ==
  IF isAnimationFrameScheduled THEN UNCHANGED chain
  ELSE isAnimationFrameScheduled' = TRUE /\ RequestFrame(frames, timers)

(***************************************************************************)
(* requestHostCallback between flushes, preceded by cancelHostCallback     *)
(* when Scheduler.js knows of a request.  The cancellation forgets that a  *)
(* message is on its way; the message stays in the port.                   *)
(***************************************************************************)
RequestHostCallback(timeout) ==
  /\ ~isFlushingHostCallback
  /\ isHostCallbackScheduled' = TRUE
  /\ scheduledHostCallback' = TRUE
  /\ timeoutTime' = timeout
  /\ isMessageEventScheduled' = (isMessageEventScheduled /\ ~isHostCallbackScheduled)
  /\ IF timeout < 0 THEN PostMessage /\ UNCHANGED chain
     ELSE ScheduleFrameIfNone /\ UNCHANGED messages
  /\ UNCHANGED <<now, rate, frameDeadline, flushing>>

\* flushWork returns or throws, after requesting another callback or not.
FlushEnds ==
  /\ isFlushingHostCallback
  /\ isFlushingHostCallback' = FALSE
  /\ didTimeout' = FALSE
  /\ \/ UNCHANGED <<client, requested, port>>
     \/ /\ isHostCallbackScheduled' = TRUE
        /\ scheduledHostCallback' = TRUE
        /\ timeoutTime' \in Timeouts
        /\ PostMessage
        /\ UNCHANGED isMessageEventScheduled
  /\ UNCHANGED <<now, rate, frameDeadline, chain>>

\* flushWork is called; a paused scheduler returns at once.
CallFlushWork(exceeded) ==
  IF ~scheduledHostCallback THEN UNCHANGED <<client, flushing>>
  ELSE \/ /\ isHostCallbackScheduled' = FALSE
          /\ isFlushingHostCallback' = TRUE
          /\ didTimeout' = exceeded
       \/ UNCHANGED <<client, flushing>>

\* Mutant of the test of the timeout: no comparison.
TimeoutGiven == timeoutTime # -1

(***************************************************************************)
(* channel.port1.onmessage.  -1 means that nothing is requested, and is    *)
(* also what a request made for time -1 looks like.                        *)
(***************************************************************************)
NoTimeLeft == frameDeadline - now <= 0
TimeoutExceeded == timeoutTime # -1 /\ timeoutTime <= now

\* Mutant: a message that comes too late schedules nothing.
OnMessageGivesUp ==
  /\ ~isFlushingHostCallback
  /\ messages > 0
  /\ messages' = messages - 1
  /\ isMessageEventScheduled' = FALSE
  /\ IF NoTimeLeft /\ ~TimeoutExceeded
     THEN UNCHANGED <<chain, requested, client, flushing>>
     ELSE /\ scheduledHostCallback' = FALSE
          /\ timeoutTime' = -1
          /\ CallFlushWork(NoTimeLeft)
          /\ UNCHANGED chain
  /\ UNCHANGED <<now, rate, frameDeadline>>

OnMessage ==
  /\ ~isFlushingHostCallback
  /\ messages > 0
  /\ messages' = messages - 1
  /\ isMessageEventScheduled' = FALSE
  /\ IF NoTimeLeft /\ ~TimeoutExceeded
     THEN ScheduleFrameIfNone /\ UNCHANGED <<requested, client, flushing>>
     ELSE /\ scheduledHostCallback' = FALSE
          /\ timeoutTime' = -1
          /\ CallFlushWork(NoTimeLeft)
          /\ UNCHANGED chain
  /\ UNCHANGED <<now, rate, frameDeadline>>

\* Mutant: the frame time follows every short frame, down to nothing.
FollowFrames(rafTime) ==
  LET next == rafTime - frameDeadline + activeFrameTime
  IN  /\ previousFrameTime' = next
      /\ activeFrameTime' = IF next < activeFrameTime THEN next ELSE activeFrameTime
      /\ UNCHANGED fpsLocked

(***************************************************************************)
(* The frame rate heuristic: after two frames in a row that were shorter   *)
(* than the active frame time, take the longer of the two, at least        *)
(* MinFrameTime.                                                           *)
(***************************************************************************)
AdjustFrameTime(rafTime) ==
  LET next  == rafTime - frameDeadline + activeFrameTime
      floor == IF next < MinFrameTime THEN MinFrameTime ELSE next
  IN  IF next < activeFrameTime /\ previousFrameTime < activeFrameTime /\ ~fpsLocked
      THEN /\ activeFrameTime' = IF floor < previousFrameTime
                                 THEN previousFrameTime ELSE floor
           /\ UNCHANGED <<previousFrameTime, fpsLocked>>
      ELSE previousFrameTime' = next /\ UNCHANGED <<activeFrameTime, fpsLocked>>

\* animationTick; left and waiting are the other frames and timers.
AnimationTick(rafTime, left, waiting) ==
  /\ IF ~scheduledHostCallback
     THEN /\ isAnimationFrameScheduled' = FALSE
          /\ frames' = left /\ timers' = waiting
          /\ UNCHANGED <<latest, rate, frameDeadline, port>>
     ELSE /\ RequestFrame(left, waiting)
          /\ UNCHANGED isAnimationFrameScheduled
          /\ AdjustFrameTime(rafTime)
          /\ frameDeadline' = rafTime + activeFrameTime'
          /\ IF isMessageEventScheduled THEN UNCHANGED port
             ELSE isMessageEventScheduled' = TRUE /\ PostMessage
  /\ UNCHANGED <<now, client, requested, flushing>>

\* A frame clears the latest timer, a timer cancels the latest frame.
Frame ==
  \E id \in frames, age \in 0 .. Lag :
    /\ ~isFlushingHostCallback
    /\ age <= now
    /\ AnimationTick(now - age, frames \ {id}, timers \ {latest})

FrameTimeout ==
  \E id \in timers :
    /\ ~isFlushingHostCallback
    /\ AnimationTick(now, frames \ {latest}, timers \ {id})

\* Any code may call it, a callback inside flushWork too.
ForceFrameRate(fps) ==
  /\ fps \in 0 .. MaxFrameRate
  /\ activeFrameTime' = IF fps > 0 THEN Second \div fps ELSE DefaultFrameTime
  /\ fpsLocked' = (fps > 0)
  /\ UNCHANGED <<now, client, requested, previousFrameTime, frameDeadline, chain,
                 port, flushing>>

Tick ==
  /\ now < MaxTime
  /\ now' = now + 1
  /\ UNCHANGED <<client, requested, rate, frameDeadline, chain, port, flushing>>

DOMNext ==
  \/ \E timeout \in Timeouts : RequestHostCallback(timeout)
  \/ FlushEnds
  \/ OnMessage
  \/ Frame
  \/ FrameTimeout
  \/ \E fps \in FrameRates : ForceFrameRate(fps)
  \/ Tick

(***************************************************************************)
(* Browsers deliver messages and run due timers; nothing is assumed of     *)
(* animation frames.  flushWork returns and time passes.                   *)
(***************************************************************************)
DOMFairness ==
  /\ WF_domVars(OnMessage) /\ WF_domVars(FrameTimeout)
  /\ WF_domVars(FlushEnds) /\ WF_domVars(Tick)
-----------------------------------------------------------------------------
DOMTypeOK ==
  /\ now \in 0 .. MaxTime
  /\ isHostCallbackScheduled \in BOOLEAN
  /\ scheduledHostCallback \in BOOLEAN
  /\ timeoutTime \in Int
  /\ isMessageEventScheduled \in BOOLEAN
  /\ messages \in 0 .. MaxMessages
  /\ isAnimationFrameScheduled \in BOOLEAN
  /\ frames \subseteq Id /\ timers \subseteq Id /\ latest \in Id
  /\ isFlushingHostCallback \in BOOLEAN
  /\ didTimeout \in BOOLEAN
  /\ frameDeadline \in Nat
  /\ previousFrameTime \in Int
  /\ activeFrameTime \in Nat /\ activeFrameTime >= MinFrameTime
  /\ fpsLocked \in BOOLEAN

(***************************************************************************)
(* At most one chain of animation frames: a frame and its fallback timer   *)
(* are pending together, they are the latest pair, and exactly while       *)
(* isAnimationFrameScheduled says so.  The two global identifiers are      *)
(* enough only because of it.                                              *)
(***************************************************************************)
OneFrameChain ==
  frames = timers /\ frames = IF isAnimationFrameScheduled THEN {latest} ELSE {}

(***************************************************************************)
(* A requested callback always has an event coming that will look at it,   *)
(* whatever was cancelled, re-requested or found too late, and the flag    *)
(* that suppresses posting a message is set only while one is in the port. *)
(***************************************************************************)
DOMWakeupOnTheWay ==
  /\ scheduledHostCallback => messages > 0 \/ isAnimationFrameScheduled
  /\ isMessageEventScheduled => messages > 0

\* Every request is answered or withdrawn, even if no animation frame ever comes.
DOMRequestAnswered == scheduledHostCallback ~> ~scheduledHostCallback
=============================================================================
