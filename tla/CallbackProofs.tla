--------------------------- MODULE CallbackProofs ---------------------------
(***************************************************************************)
(* Proofs about those who keep callbacks until they are called.  The two   *)
(* hosts, for every clock, frame rate and number of messages and timers:   *)
(* the types, the one chain of animation frames, the event that is always  *)
(* on its way for a request, and the hosts' side of the contract with the  *)
(* scheduler.  The synchronous callback queue, for every number of         *)
(* callbacks and handles: the types, the wake-up that is never lost, and   *)
(* that nothing is dropped, repeated or put out of order.                  *)
(***************************************************************************)
EXTENDS HostConfig, SyncCallbackQueue, SequenceTheorems, TLAPS

(***************************************************************************)
(* The browser host.                                                       *)
(***************************************************************************)
ClockTypes ==
  /\ now \in 0 .. MaxTime
  /\ timeoutTime \in Int
  /\ frameDeadline \in Nat
  /\ previousFrameTime \in Int
  /\ activeFrameTime \in Nat /\ activeFrameTime >= MinFrameTime

FlagTypes ==
  /\ isHostCallbackScheduled \in BOOLEAN
  /\ scheduledHostCallback \in BOOLEAN
  /\ isMessageEventScheduled \in BOOLEAN
  /\ isAnimationFrameScheduled \in BOOLEAN
  /\ isFlushingHostCallback \in BOOLEAN
  /\ didTimeout \in BOOLEAN
  /\ fpsLocked \in BOOLEAN

PortTypes ==
  /\ messages \in 0 .. MaxMessages
  /\ frames \subseteq Id /\ timers \subseteq Id /\ latest \in Id

DOMInv == ClockTypes /\ FlagTypes /\ PortTypes /\ OneFrameChain /\ DOMWakeupOnTheWay
-----------------------------------------------------------------------------
(* The chain of frames. *)

LEMMA FrameRequested ==
  ASSUME OneFrameChain, ScheduleFrameIfNone, PortTypes, FlagTypes
  PROVE  /\ OneFrameChain' /\ isAnimationFrameScheduled'
         /\ frames' \subseteq Id /\ timers' \subseteq Id /\ latest' \in Id
         /\ isAnimationFrameScheduled' \in BOOLEAN
<1>1. CASE isAnimationFrameScheduled
  BY <1>1 DEF ScheduleFrameIfNone, chain, OneFrameChain, PortTypes, FlagTypes
<1>2. CASE ~isAnimationFrameScheduled
  <2>1. frames = {} /\ timers = {}
    BY <1>2 DEF OneFrameChain
  <2>2. isAnimationFrameScheduled' = TRUE /\ RequestFrame({}, {})
    BY <1>2, <2>1 DEF ScheduleFrameIfNone
  <2>3. PICK id \in Id : frames' = {id} /\ timers' = {id} /\ latest' = id
    BY <2>2 DEF RequestFrame
  <2> QED  BY <2>2, <2>3 DEF OneFrameChain
<1> QED  BY <1>1, <1>2

\* The tick of the one frame, or of the one timer, leaves none or requests the next.
LEMMA TickKeepsChain ==
  ASSUME OneFrameChain, PortTypes, FlagTypes, NEW rafTime, AnimationTick(rafTime, {}, {}),
         isAnimationFrameScheduled
  PROVE  /\ OneFrameChain'
         /\ scheduledHostCallback => isAnimationFrameScheduled'
         /\ frames' \subseteq Id /\ timers' \subseteq Id /\ latest' \in Id
         /\ isAnimationFrameScheduled' \in BOOLEAN
<1>1. CASE ~scheduledHostCallback
  BY <1>1 DEF AnimationTick, OneFrameChain, PortTypes
<1>2. CASE scheduledHostCallback
  <2>1. RequestFrame({}, {}) /\ UNCHANGED isAnimationFrameScheduled
    BY <1>2 DEF AnimationTick
  <2>2. PICK id \in Id : frames' = {id} /\ timers' = {id} /\ latest' = id
    BY <2>1 DEF RequestFrame
  <2> QED  BY <2>1, <2>2 DEF OneFrameChain
<1> QED  BY <1>1, <1>2

LEMMA TheOnlyFrame ==
  ASSUME OneFrameChain, Frame \/ FrameTimeout
  PROVE  /\ isAnimationFrameScheduled
         /\ ~isFlushingHostCallback
         /\ \/ \E age \in 0 .. Lag : age <= now /\ AnimationTick(now - age, {}, {})
            \/ AnimationTick(now, {}, {})
<1>1. CASE Frame
  <2>1. PICK id \in frames, age \in 0 .. Lag :
          /\ ~isFlushingHostCallback /\ age <= now
          /\ AnimationTick(now - age, frames \ {id}, timers \ {latest})
    BY <1>1 DEF Frame
  <2>2. isAnimationFrameScheduled /\ frames \ {id} = {} /\ timers \ {latest} = {}
    BY <2>1 DEF OneFrameChain
  <2> QED  BY <2>1, <2>2
<1>2. CASE FrameTimeout
  <2>1. PICK id \in timers :
          ~isFlushingHostCallback /\ AnimationTick(now, frames \ {latest}, timers \ {id})
    BY <1>2 DEF FrameTimeout
  <2>2. isAnimationFrameScheduled /\ timers \ {id} = {} /\ frames \ {latest} = {}
    BY <2>1 DEF OneFrameChain
  <2> QED  BY <2>1, <2>2
<1> QED  BY <1>1, <1>2
-----------------------------------------------------------------------------
(* The frame rate. *)

LEMMA AdjustTypes ==
  ASSUME ClockTypes, FlagTypes, NEW rafTime \in Int,
         AdjustFrameTime(rafTime)
  PROVE  /\ previousFrameTime' \in Int
         /\ activeFrameTime' \in Nat /\ activeFrameTime' >= MinFrameTime
         /\ fpsLocked' \in BOOLEAN
<1> DEFINE next == rafTime - frameDeadline + activeFrameTime
           floor == IF next < MinFrameTime THEN MinFrameTime ELSE next
<1>1. next \in Int /\ floor \in Nat /\ floor >= MinFrameTime /\ MinFrameTime \in Nat
  BY DOMAssumption, ClientAssumption DEF ClockTypes
<1>2. CASE next < activeFrameTime /\ previousFrameTime < activeFrameTime /\ ~fpsLocked
  <2>1. /\ activeFrameTime' = IF floor < previousFrameTime THEN previousFrameTime ELSE floor
        /\ UNCHANGED <<previousFrameTime, fpsLocked>>
    BY <1>2, Zenon DEF AdjustFrameTime
  <2> HIDE DEF floor
  <2>2. previousFrameTime \in Int
    BY DEF ClockTypes
  <2>3. activeFrameTime' \in Nat /\ activeFrameTime' >= MinFrameTime
    BY <1>1, <2>1, <2>2
  <2> QED  BY <2>1, <2>3 DEF ClockTypes, FlagTypes
<1>3. CASE ~(next < activeFrameTime /\ previousFrameTime < activeFrameTime /\ ~fpsLocked)
  <2>1. previousFrameTime' = next /\ UNCHANGED <<activeFrameTime, fpsLocked>>
    BY <1>3, Zenon DEF AdjustFrameTime
  <2> HIDE DEF next
  <2> QED  BY <1>1, <2>1 DEF ClockTypes, FlagTypes
<1> QED  BY <1>2, <1>3

LEMMA ForcedTypes ==
  ASSUME NEW fps \in FrameRates, ForceFrameRate(fps)
  PROVE  /\ activeFrameTime' \in Nat /\ activeFrameTime' >= MinFrameTime
         /\ fpsLocked' \in BOOLEAN
<1>1. fps \in 0 .. MaxFrameRate /\ fpsLocked' = (fps > 0)
      /\ activeFrameTime' = IF fps > 0 THEN Second \div fps ELSE DefaultFrameTime
  BY DEF ForceFrameRate
<1>2. CASE fps > 0
  <2>1. Second \div fps \in Int /\ Second \div fps >= Second \div MaxFrameRate
        /\ Second \div MaxFrameRate \in Int
    BY DOMAssumption, ClientAssumption, <1>1, <1>2
  <2> QED  BY DOMAssumption, ClientAssumption, <1>1, <1>2, <2>1
<1>3. CASE ~(fps > 0)
  BY DOMAssumption, ClientAssumption, <1>1, <1>3
<1> QED  BY <1>2, <1>3
-----------------------------------------------------------------------------
(* The invariant, action by action. *)

LEMMA RequestKeeps ==
  ASSUME DOMInv, NEW timeout \in Timeouts, RequestHostCallback(timeout)
  PROVE  DOMInv'
<1>1. ClockTypes'
  BY DOMAssumption, ClientAssumption DEF DOMInv, RequestHostCallback, rate, ClockTypes
<1>2. CASE timeout < 0
  <2>1. messages' = messages + 1 /\ messages < MaxMessages /\ UNCHANGED chain
    BY <1>2 DEF RequestHostCallback, PostMessage
  <2>2. PortTypes' /\ messages' > 0
    BY DOMAssumption, ClientAssumption, <2>1 DEF DOMInv, PortTypes, chain
  <2>3. FlagTypes'
    BY <2>1 DEF DOMInv, RequestHostCallback, FlagTypes, rate, flushing, chain
  <2>4. OneFrameChain' /\ DOMWakeupOnTheWay'
    BY <2>1, <2>2 DEF DOMInv, OneFrameChain, DOMWakeupOnTheWay, chain
  <2> QED  BY <1>1, <2>2, <2>3, <2>4 DEF DOMInv
<1>3. CASE ~(timeout < 0)
  <2>1. ScheduleFrameIfNone /\ UNCHANGED messages
        /\ isMessageEventScheduled' = (isMessageEventScheduled /\ ~isHostCallbackScheduled)
    BY <1>3 DEF RequestHostCallback
  <2>2. /\ OneFrameChain' /\ isAnimationFrameScheduled'
        /\ frames' \subseteq Id /\ timers' \subseteq Id /\ latest' \in Id
        /\ isAnimationFrameScheduled' \in BOOLEAN
    BY <2>1, FrameRequested DEF DOMInv
  <2>3. PortTypes' /\ DOMWakeupOnTheWay'
    BY <2>1, <2>2 DEF DOMInv, PortTypes, DOMWakeupOnTheWay
  <2>4. FlagTypes'
    BY <2>1, <2>2 DEF DOMInv, RequestHostCallback, FlagTypes, rate, flushing
  <2> QED  BY <1>1, <2>2, <2>3, <2>4 DEF DOMInv
<1> QED  BY <1>2, <1>3

LEMMA FlushEndsKeeps ==
  ASSUME DOMInv, FlushEnds
  PROVE  DOMInv'
<1>1. UNCHANGED <<now, rate, frameDeadline, chain>>
  BY DEF FlushEnds
<1>2. OneFrameChain'
  BY <1>1 DEF DOMInv, OneFrameChain, chain
<1>3. CASE UNCHANGED <<client, requested, port>>
  <2>1. ClockTypes' /\ PortTypes' /\ DOMWakeupOnTheWay'
    BY <1>1, <1>3 DEF DOMInv, ClockTypes, PortTypes, DOMWakeupOnTheWay, requested, port, rate, chain
  <2>2. FlagTypes'
    BY <1>1, <1>3, Zenon DEF DOMInv, FlushEnds, FlagTypes, client, requested, port, rate, chain
  <2> QED  BY <1>2, <2>1, <2>2 DEF DOMInv
<1>4. CASE /\ isHostCallbackScheduled' = TRUE /\ scheduledHostCallback' = TRUE
           /\ timeoutTime' \in Timeouts /\ PostMessage /\ UNCHANGED isMessageEventScheduled
  <2>1. ClockTypes'
    BY DOMAssumption, ClientAssumption, <1>1, <1>4 DEF DOMInv, ClockTypes, rate
  <2>2. PortTypes' /\ messages' > 0
    BY DOMAssumption, ClientAssumption, <1>1, <1>4 DEF DOMInv, PortTypes, PostMessage, chain
  <2>3. FlagTypes' /\ DOMWakeupOnTheWay'
    BY <1>1, <1>4, <2>2 DEF DOMInv, FlushEnds, FlagTypes, DOMWakeupOnTheWay, rate, chain
  <2> QED  BY <1>2, <2>1, <2>2, <2>3 DEF DOMInv
<1> QED  BY <1>3, <1>4 DEF FlushEnds

LEMMA OnMessageKeeps ==
  ASSUME DOMInv, OnMessage
  PROVE  DOMInv'
<1>1. /\ UNCHANGED <<now, rate, frameDeadline>> /\ messages' = messages - 1 /\ messages > 0
      /\ isMessageEventScheduled' = FALSE
  BY DEF OnMessage
<1>2. messages' \in 0 .. MaxMessages
  BY DOMAssumption, ClientAssumption, <1>1 DEF DOMInv, PortTypes
<1>3. CASE NoTimeLeft /\ ~TimeoutExceeded
  <2>1. ScheduleFrameIfNone /\ UNCHANGED <<requested, client, flushing>>
    BY <1>3 DEF OnMessage
  <2>2. /\ OneFrameChain' /\ isAnimationFrameScheduled'
        /\ frames' \subseteq Id /\ timers' \subseteq Id /\ latest' \in Id
        /\ isAnimationFrameScheduled' \in BOOLEAN
    BY <2>1, FrameRequested DEF DOMInv
  <2>3. PortTypes' /\ DOMWakeupOnTheWay'
    BY <1>1, <1>2, <2>2 DEF PortTypes, DOMWakeupOnTheWay
  <2>4. ClockTypes' /\ FlagTypes'
    BY <1>1, <2>1, <2>2 DEF DOMInv, ClockTypes, FlagTypes, requested, client, flushing, rate
  <2> QED  BY <2>2, <2>3, <2>4 DEF DOMInv
<1>4. CASE ~(NoTimeLeft /\ ~TimeoutExceeded)
  <2>1. /\ scheduledHostCallback' = FALSE /\ timeoutTime' = -1
        /\ CallFlushWork(NoTimeLeft) /\ UNCHANGED chain
    BY <1>4 DEF OnMessage
  <2>2. /\ isHostCallbackScheduled' \in BOOLEAN /\ isFlushingHostCallback' \in BOOLEAN
        /\ didTimeout' \in BOOLEAN
    <3>1. NoTimeLeft \in BOOLEAN
      BY DEF NoTimeLeft
    <3> QED  BY <2>1, <3>1, Zenon DEF DOMInv, CallFlushWork, FlagTypes, client, flushing
  <2>3. FlagTypes'
    BY <1>1, <2>1, <2>2 DEF DOMInv, FlagTypes, rate, chain
  <2>4. ClockTypes'
    BY <1>1, <2>1 DEF DOMInv, ClockTypes, rate
  <2>5. PortTypes' /\ OneFrameChain' /\ DOMWakeupOnTheWay'
    BY <1>1, <1>2, <2>1 DEF DOMInv, PortTypes, OneFrameChain, DOMWakeupOnTheWay, chain
  <2> QED  BY <2>3, <2>4, <2>5 DEF DOMInv
<1> QED  BY <1>3, <1>4

LEMMA TickOfFrameKeeps ==
  ASSUME DOMInv, NEW rafTime \in Nat, AnimationTick(rafTime, {}, {}),
         isAnimationFrameScheduled, ~isFlushingHostCallback
  PROVE  DOMInv'
<1>1. UNCHANGED <<now, client, requested, flushing>>
  BY DEF AnimationTick
<1>2. /\ OneFrameChain' /\ (scheduledHostCallback => isAnimationFrameScheduled')
      /\ frames' \subseteq Id /\ timers' \subseteq Id /\ latest' \in Id
      /\ isAnimationFrameScheduled' \in BOOLEAN
  BY TickKeepsChain DEF DOMInv
<1>3. CASE ~scheduledHostCallback
  <2>1. UNCHANGED <<rate, frameDeadline, port>>
    BY <1>3 DEF AnimationTick
  <2> QED  BY <1>1, <1>2, <2>1 DEF DOMInv, ClockTypes, FlagTypes, PortTypes, DOMWakeupOnTheWay,
              client, requested, flushing, rate, port
<1>4. CASE scheduledHostCallback
  <2>1. /\ AdjustFrameTime(rafTime) /\ frameDeadline' = rafTime + activeFrameTime'
        /\ IF isMessageEventScheduled THEN UNCHANGED port
           ELSE isMessageEventScheduled' = TRUE /\ PostMessage
    BY <1>4 DEF AnimationTick
  <2>2. /\ previousFrameTime' \in Int
        /\ activeFrameTime' \in Nat /\ activeFrameTime' >= MinFrameTime
        /\ fpsLocked' \in BOOLEAN
    BY <2>1, AdjustTypes DEF DOMInv
  <2>3. ClockTypes'
    <3>1. frameDeadline' \in Nat
      <4>1. ASSUME NEW t \in Nat PROVE rafTime + t \in Nat
        OBVIOUS
      <4> QED  BY <2>1, <2>2, <4>1, Zenon
    <3> QED  BY <1>1, <2>2, <3>1 DEF DOMInv, ClockTypes, requested
  <2>4. /\ messages' \in 0 .. MaxMessages /\ isMessageEventScheduled' \in BOOLEAN
        /\ isMessageEventScheduled' => messages' > 0
    <3>1. CASE isMessageEventScheduled
      BY <2>1, <3>1 DEF DOMInv, FlagTypes, PortTypes, DOMWakeupOnTheWay, port
    <3>2. CASE ~isMessageEventScheduled
      BY DOMAssumption, ClientAssumption, <2>1, <3>2 DEF DOMInv, PortTypes, PostMessage
    <3> QED  BY <3>1, <3>2
  <2>5. FlagTypes'
    BY <1>1, <1>2, <2>2, <2>4 DEF DOMInv, FlagTypes, client, requested, flushing
  <2>6. PortTypes' /\ DOMWakeupOnTheWay'
    BY <1>1, <1>2, <1>4, <2>4 DEF PortTypes, DOMWakeupOnTheWay, requested
  <2> QED  BY <1>2, <2>3, <2>5, <2>6 DEF DOMInv
<1> QED  BY <1>3, <1>4

LEMMA FrameKeeps ==
  ASSUME DOMInv, Frame \/ FrameTimeout
  PROVE  DOMInv'
<1>1. /\ isAnimationFrameScheduled /\ ~isFlushingHostCallback
      /\ \/ \E age \in 0 .. Lag : age <= now /\ AnimationTick(now - age, {}, {})
         \/ AnimationTick(now, {}, {})
  BY TheOnlyFrame DEF DOMInv
<1>2. now \in Nat /\ \A age \in 0 .. Lag : age <= now => now - age \in Nat
  BY DOMAssumption, ClientAssumption DEF DOMInv, ClockTypes
<1> QED  BY <1>1, <1>2, TickOfFrameKeeps

LEMMA DOMStep == DOMInv /\ [DOMNext]_domVars => DOMInv'
<1> SUFFICES ASSUME DOMInv, [DOMNext]_domVars PROVE DOMInv'
  OBVIOUS
<1>1. CASE \E timeout \in Timeouts : RequestHostCallback(timeout)
  BY <1>1, RequestKeeps
<1>2. CASE FlushEnds
  BY <1>2, FlushEndsKeeps
<1>3. CASE OnMessage
  BY <1>3, OnMessageKeeps
<1>4. CASE Frame \/ FrameTimeout
  BY <1>4, FrameKeeps
<1>5. CASE \E fps \in FrameRates : ForceFrameRate(fps)
  <2>1. PICK fps \in FrameRates : ForceFrameRate(fps)
    BY <1>5
  <2>2. /\ activeFrameTime' \in Nat /\ activeFrameTime' >= MinFrameTime
        /\ fpsLocked' \in BOOLEAN
    BY <2>1, ForcedTypes
  <2>3. UNCHANGED <<now, client, requested, previousFrameTime, frameDeadline, chain, port, flushing>>
    BY <2>1 DEF ForceFrameRate
  <2> QED  BY <2>2, <2>3 DEF DOMInv, ClockTypes, FlagTypes, PortTypes, OneFrameChain,
              DOMWakeupOnTheWay, client, requested, chain, port, flushing
<1>6. CASE Tick
  <2>1. now' \in 0 .. MaxTime
    BY DOMAssumption, ClientAssumption, <1>6 DEF Tick, DOMInv, ClockTypes
  <2>2. UNCHANGED <<client, requested, rate, frameDeadline, chain, port, flushing>>
    BY <1>6 DEF Tick
  <2> QED  BY <2>1, <2>2 DEF DOMInv, ClockTypes, FlagTypes, PortTypes, OneFrameChain,
              DOMWakeupOnTheWay, client, requested, rate, chain, port, flushing
<1>7. CASE UNCHANGED domVars
  BY <1>7 DEF domVars, DOMInv, ClockTypes, FlagTypes, PortTypes, OneFrameChain,
     DOMWakeupOnTheWay, client, requested, rate, chain, port, flushing
<1> QED  BY <1>1, <1>2, <1>3, <1>4, <1>5, <1>6, <1>7 DEF DOMNext

LEMMA DOMInitially == DOMInit => DOMInv
<1> SUFFICES ASSUME DOMInit PROVE DOMInv
  OBVIOUS
<1>1. ClockTypes /\ PortTypes
  BY DOMAssumption, ClientAssumption DEF DOMInit, ClientInit, ClockTypes, PortTypes, Id
<1>2. FlagTypes /\ OneFrameChain /\ DOMWakeupOnTheWay
  BY DEF DOMInit, ClientInit, FlagTypes, OneFrameChain, DOMWakeupOnTheWay
<1> QED  BY <1>1, <1>2 DEF DOMInv
-----------------------------------------------------------------------------
(***************************************************************************)
(* The host without a DOM.                                                 *)
(***************************************************************************)
TimerTypes == flushTimers \in Nat /\ requestTimers \in Nat

\* While flushWork runs nothing is requested: without this, the reset of
\* _callback after it could lose a request.
NoneWhileCalling == calling => request = NoRequest

NoDOMInv == TimerTypes /\ NoneWhileCalling /\ NoDOMWakeupOnTheWay

LEMMA NoDOMInitially == NoDOMInit => NoDOMInv
  BY DEF NoDOMInit, ClientInit, NoDOMInv, TimerTypes, NoneWhileCalling, NoDOMWakeupOnTheWay

LEMMA RequestByTimerKeeps ==
  ASSUME NoDOMInv, NEW timeout \in Timeouts, RequestByTimer(timeout)
  PROVE  NoDOMInv'
<1>1. ~calling /\ UNCHANGED calling /\ callback' = TRUE
      /\ Request(callback /\ ~isHostCallbackScheduled)
  BY DEF RequestByTimer, Request
<1>2. CASE callback /\ ~isHostCallbackScheduled
  <2>1. requestTimers' = requestTimers + 1 /\ UNCHANGED flushTimers
    BY <1>1, <1>2 DEF Request
  <2> QED  BY <1>1, <1>2, <2>1 DEF NoDOMInv, TimerTypes, NoneWhileCalling, NoDOMWakeupOnTheWay
<1>3. CASE ~(callback /\ ~isHostCallbackScheduled)
  <2>1. flushTimers' = flushTimers + 1 /\ UNCHANGED requestTimers
    BY <1>1, <1>3 DEF Request
  <2> QED  BY <1>1, <2>1 DEF NoDOMInv, TimerTypes, NoneWhileCalling, NoDOMWakeupOnTheWay
<1> QED  BY <1>2, <1>3

LEMMA FlushCallbackKeeps ==
  ASSUME NoDOMInv, FlushCallback
  PROVE  NoDOMInv'
<1>1. ~calling /\ flushTimers > 0 /\ flushTimers' = flushTimers - 1 /\ UNCHANGED requestTimers
  BY DEF FlushCallback
<1>2. TimerTypes'
  BY <1>1 DEF NoDOMInv, TimerTypes
<1>3. NoneWhileCalling' /\ NoDOMWakeupOnTheWay'
  BY <1>1 DEF FlushCallback, NoDOMInv, NoneWhileCalling, NoDOMWakeupOnTheWay
<1> QED  BY <1>2, <1>3 DEF NoDOMInv

LEMMA FlushCallbackEndsKeeps ==
  ASSUME NoDOMInv, FlushCallbackEnds
  PROVE  NoDOMInv'
<1>1. calling /\ calling' = FALSE /\ callback' = FALSE /\ UNCHANGED flushTimers
  BY DEF FlushCallbackEnds
<1>2. request = NoRequest
  BY <1>1 DEF NoDOMInv, NoneWhileCalling
<1>3. CASE UNCHANGED <<requestTimers, isHostCallbackScheduled, request>>
  BY <1>1, <1>2, <1>3 DEF NoDOMInv, TimerTypes, NoneWhileCalling, NoDOMWakeupOnTheWay
<1>4. CASE requestTimers' = requestTimers + 1
  BY <1>1, <1>4 DEF NoDOMInv, TimerTypes, NoneWhileCalling, NoDOMWakeupOnTheWay
<1> QED  BY <1>3, <1>4 DEF FlushCallbackEnds

LEMMA DeferredRequestKeeps ==
  ASSUME NoDOMInv, DeferredRequest
  PROVE  NoDOMInv'
<1>1. ~calling /\ UNCHANGED <<calling, request>> /\ requestTimers > 0 /\ callback' = TRUE
  BY DEF DeferredRequest
<1>2. CASE callback
  BY <1>1, <1>2 DEF DeferredRequest, NoDOMInv, TimerTypes, NoneWhileCalling, NoDOMWakeupOnTheWay
<1>3. CASE ~callback
  <2>1. requestTimers' = requestTimers - 1 /\ flushTimers' = flushTimers + 1
    BY <1>3 DEF DeferredRequest
  <2> QED  BY <1>1, <2>1 DEF NoDOMInv, TimerTypes, NoneWhileCalling, NoDOMWakeupOnTheWay
<1> QED  BY <1>2, <1>3

LEMMA NoDOMStep == NoDOMInv /\ [NoDOMNext]_noDOMVars => NoDOMInv'
<1> SUFFICES ASSUME NoDOMInv, [NoDOMNext]_noDOMVars PROVE NoDOMInv'
  OBVIOUS
<1>1. CASE UNCHANGED noDOMVars
  BY <1>1 DEF noDOMVars, NoDOMInv, TimerTypes, NoneWhileCalling, NoDOMWakeupOnTheWay
<1> QED
  BY <1>1, RequestByTimerKeeps, FlushCallbackKeeps, FlushCallbackEndsKeeps, DeferredRequestKeeps DEF NoDOMNext
-----------------------------------------------------------------------------
(***************************************************************************)
(* Either host.  Each leaves alone what only the other one has, and only   *)
(* the types of the browser host speak of what they share.                 *)
(***************************************************************************)
HostInv == DOMInv /\ NoDOMInv

LEMMA DOMKeepsBoth ==
  ASSUME HostInv, [DOMNext]_domVars, UNCHANGED noDOMOnly
  PROVE  HostInv'
<1>1. DOMInv'
  BY DOMStep DEF HostInv
<1>2. NoDOMInv'
  BY DEF HostInv, NoDOMInv, noDOMOnly, TimerTypes, NoneWhileCalling, NoDOMWakeupOnTheWay
<1> QED  BY <1>1, <1>2 DEF HostInv

LEMMA NoDOMKeepsBoth ==
  ASSUME HostInv, [NoDOMNext]_noDOMVars, UNCHANGED domOnly
  PROVE  HostInv'
<1>1. NoDOMInv'
  BY NoDOMStep DEF HostInv
<1>2. isHostCallbackScheduled' \in BOOLEAN /\ didTimeout' \in BOOLEAN
  BY DEF HostInv, DOMInv, FlagTypes, NoDOMNext, noDOMVars, client, RequestByTimer, Request,
     FlushCallback, TimerArgument, FlushCallbackEnds, DeferredRequest
<1>3. DOMInv'
  BY <1>2 DEF HostInv, DOMInv, domOnly, ClockTypes, FlagTypes, PortTypes, OneFrameChain,
     DOMWakeupOnTheWay, requested, rate, chain, port
<1> QED  BY <1>1, <1>3 DEF HostInv

LEMMA HostStepKeeps == HostInv /\ [HostConfigNext]_hostVars => HostInv'
<1> SUFFICES ASSUME HostInv, [HostConfigNext]_hostVars
             PROVE  HostInv'
  OBVIOUS
<1>1. CASE hasDOM /\ DOMNext /\ UNCHANGED <<hasDOM, noDOMOnly>>
  BY <1>1, DOMKeepsBoth
<1>2. CASE ~hasDOM /\ NoDOMNext /\ UNCHANGED <<hasDOM, domOnly>>
  BY <1>2, NoDOMKeepsBoth
<1>3. CASE UNCHANGED hostVars
  <2>1. UNCHANGED domVars /\ UNCHANGED noDOMOnly
    BY <1>3 DEF hostVars, domVars, domOnly, flushing
  <2> QED  BY <2>1, DOMKeepsBoth
<1> QED  BY <1>1, <1>2, <1>3 DEF HostConfigNext

LEMMA HostInitially == HostConfigInit => HostInv
  BY DOMInitially, NoDOMInitially DEF HostConfigInit, HostInv

\* The inductive invariant of both hosts.
THEOREM HostConfigInvariant == HostConfigSpec => []HostInv
  BY HostInitially, HostStepKeeps, PTL DEF HostConfigSpec

\* The variables of the browser host keep their types, whichever host there is;
\* the frame time keeps its minimum.
THEOREM HostTypeOK == HostConfigSpec => []DOMTypeOK
<1>1. HostInv => DOMTypeOK
  BY DEF HostInv, DOMInv, ClockTypes, FlagTypes, PortTypes, DOMTypeOK
<1> QED  BY <1>1, HostConfigInvariant, PTL

\* Frames and fallback timers are one chain, with the two identifiers that are
\* global variables of the host.
THEOREM HostOneFrameChain == HostConfigSpec => []OneFrameChain
<1>1. HostInv => OneFrameChain
  BY DEF HostInv, DOMInv
<1> QED  BY <1>1, HostConfigInvariant, PTL

\* A requested callback always has an event coming for it: a message or a frame,
\* or a timer that will flush it or request it again.
THEOREM HostWakeupOnTheWay == HostConfigSpec => []WakeupOnTheWay
<1>1. HostInv => WakeupOnTheWay
  BY DEF HostInv, DOMInv, NoDOMInv, WakeupOnTheWay
<1> QED  BY <1>1, HostConfigInvariant, PTL
-----------------------------------------------------------------------------
(***************************************************************************)
(* The contract with the scheduler.                                        *)
(***************************************************************************)
HostStep == [Contract!HostNext]_(Contract!hvars)

LEMMA DOMStepKeepsContract ==
  ASSUME hasDOM, UNCHANGED hasDOM, DOMInv, [DOMNext]_domVars
  PROVE  HostStep
<1> USE DEF HostStep, Contract!HostNext, Contract!hvars
<1>1. CASE \E timeout \in Timeouts : RequestHostCallback(timeout)
  BY <1>1 DEF RequestHostCallback, flushing, Contract!Ensure
<1>2. CASE FlushEnds
  <2>1. isFlushingHostCallback /\ isFlushingHostCallback' = FALSE /\ didTimeout' = FALSE
        /\ UNCHANGED now
    BY <1>2 DEF FlushEnds
  <2>2. CASE UNCHANGED <<client, requested, port>>
    BY <2>1, <2>2 DEF client, requested, Contract!Return
  <2>3. CASE /\ isHostCallbackScheduled' = TRUE /\ scheduledHostCallback' = TRUE
             /\ timeoutTime' \in Timeouts
    BY <2>1, <2>3 DEF Contract!Return
  <2> QED  BY <1>2, <2>2, <2>3 DEF FlushEnds
<1>3. CASE OnMessage
  <2>1. UNCHANGED now /\ ~isFlushingHostCallback
    BY <1>3 DEF OnMessage
  <2>2. CASE NoTimeLeft /\ ~TimeoutExceeded
    BY <1>3, <2>1, <2>2 DEF OnMessage, requested, client, flushing
  <2>3. CASE ~(NoTimeLeft /\ ~TimeoutExceeded)
    <3>1. scheduledHostCallback' = FALSE /\ CallFlushWork(NoTimeLeft)
      BY <1>3, <2>3 DEF OnMessage
    <3>2. CASE ~scheduledHostCallback
      BY <2>1, <3>1, <3>2 DEF CallFlushWork, client, flushing
    <3>3. CASE scheduledHostCallback
      <4>1. NoTimeLeft \in BOOLEAN /\ (NoTimeLeft => timeoutTime <= now /\ timeoutTime # NoRequest)
        BY DOMAssumption, ClientAssumption, <2>3 DEF NoTimeLeft, TimeoutExceeded, DOMInv, ClockTypes
      <4>2. \/ isHostCallbackScheduled' = FALSE /\ isFlushingHostCallback' = TRUE
               /\ didTimeout' = NoTimeLeft
            \/ UNCHANGED <<isHostCallbackScheduled, isFlushingHostCallback, didTimeout>>
        BY <3>1, <3>3 DEF CallFlushWork, client, flushing
      <4>3. Contract!Call(NoTimeLeft)
        BY <2>1, <3>1, <3>3, <4>1, <4>2 DEF Contract!Call
      <4> QED  BY <4>1, <4>3
    <3> QED  BY <3>2, <3>3
  <2> QED  BY <2>2, <2>3
<1>4. CASE Frame \/ FrameTimeout
  <2>1. UNCHANGED <<now, client, requested, flushing>>
    BY <1>4, TheOnlyFrame DEF DOMInv, AnimationTick
  <2> QED  BY <2>1 DEF client, requested, flushing
<1>5. CASE \E fps \in FrameRates : ForceFrameRate(fps)
  BY <1>5 DEF ForceFrameRate, client, requested, flushing
<1>6. CASE Tick
  BY <1>6 DEF Tick, client, requested, flushing, Contract!HostTick
<1>7. CASE UNCHANGED domVars
  BY <1>7 DEF domVars, client, requested, flushing
<1> QED  BY <1>1, <1>2, <1>3, <1>4, <1>5, <1>6, <1>7 DEF DOMNext

LEMMA NoDOMStepKeepsContract ==
  ASSUME ~hasDOM, UNCHANGED <<hasDOM, now>>, [NoDOMNext]_noDOMVars
  PROVE  HostStep
<1> USE DEF HostStep, Contract!HostNext, Contract!hvars
<1>1. CASE \E timeout \in Timeouts : RequestByTimer(timeout)
  BY <1>1 DEF RequestByTimer, Contract!Ensure
<1>2. CASE FlushCallback
  <2>1. CASE /\ calling' = TRUE /\ didTimeout' = TimerArgument
             /\ isHostCallbackScheduled' = FALSE /\ request' = NoRequest
    <3>1. Contract!Call(FALSE)
      BY <1>2, <2>1 DEF FlushCallback, TimerArgument, Contract!Call
    <3> QED  BY <3>1
  <2>2. CASE /\ request' = NoRequest
             /\ UNCHANGED <<calling, didTimeout, isHostCallbackScheduled>>
    <3>1. Contract!Call(FALSE)
      BY <1>2, <2>2 DEF FlushCallback, Contract!Call
    <3> QED  BY <3>1
  <2>3. CASE UNCHANGED <<calling, didTimeout, isHostCallbackScheduled, request>>
    BY <2>3
  <2> QED  BY <1>2, <2>1, <2>2, <2>3 DEF FlushCallback
<1>3. CASE FlushCallbackEnds
  BY <1>3 DEF FlushCallbackEnds, Contract!Return
<1>4. CASE DeferredRequest
  BY <1>4 DEF DeferredRequest
<1>5. CASE UNCHANGED noDOMVars
  BY <1>5 DEF noDOMVars, client
<1> QED  BY <1>1, <1>2, <1>3, <1>4, <1>5 DEF NoDOMNext

\* Either host implements HostCallback: every step is one of the contract, or none
\* that concerns it, though requests may be put off, withdrawn, and answered once
\* more than was asked for.
THEOREM HostImplementsContract == HostConfigSpec => ImplementsContract
<1>1. HostConfigInit => Contract!HostInit
  BY DEF HostConfigInit, DOMInit, NoDOMInit, ClientInit, Contract!HostInit
<1>2. HostInv /\ [HostConfigNext]_hostVars => HostStep
  <2> SUFFICES ASSUME HostInv, [HostConfigNext]_hostVars
               PROVE  HostStep
    OBVIOUS
  <2>1. CASE hasDOM /\ DOMNext /\ UNCHANGED <<hasDOM, noDOMOnly>>
    BY <2>1, DOMStepKeepsContract DEF HostInv
  <2>2. CASE ~hasDOM /\ NoDOMNext /\ UNCHANGED <<hasDOM, domOnly>>
    BY <2>2, NoDOMStepKeepsContract DEF domOnly
  <2>3. CASE UNCHANGED hostVars
    BY <2>3 DEF hostVars, domOnly, noDOMOnly, client, requested, HostStep, Contract!hvars
  <2> QED  BY <2>1, <2>2, <2>3 DEF HostConfigNext
<1> QED
  BY <1>1, <1>2, HostConfigInvariant, PTL
  DEF HostConfigSpec, ImplementsContract, Contract!HostSpec, HostStep

-----------------------------------------------------------------------------
(***************************************************************************)
(* The queue of synchronous callbacks.                                     *)
(***************************************************************************)
Queued == Seq(Callback)

\* While the queue is flushed the loop is at one of its callbacks.
Flushing == isFlushingSyncQueue => syncQueue \in Queued /\ i < Len(syncQueue)

QueueTypes ==
  /\ syncQueue \in Queued \cup {Null}
  /\ isFlushingSyncQueue \in BOOLEAN
  /\ i \in Nat
  /\ started \in Queued
  /\ Flushing

HandleTypes ==
  /\ immediateQueueCallbackNode \in Handle \cup {Null}
  /\ handles \in 0 .. MaxHandle
  /\ pending \subseteq 1 .. handles
  /\ resumes \subseteq 1 .. handles
  /\ scheduled \in 0 .. MaxCallback

LEMMA NullIsNoQueue == Null \notin Queued
<1>1. Queued \subseteq Seq(Int)
  <2>1. Callback \subseteq Int
    BY DEF Callback
  <2> SUFFICES ASSUME NEW s \in Seq(Callback) PROVE s \in Seq(Int)
    BY DEF Queued
  <2>2. Len(s) \in Nat /\ \A k \in 1 .. Len(s) : s[k] \in Int
    BY <2>1, LenProperties, ElementOfSeq
  <2>3. s = [k \in 1 .. Len(s) |-> s[k]]
    BY LenProperties
  <2> QED  BY <2>2, <2>3, IsASeq
<1> QED  BY <1>1, SyncAssumption

LEMMA TypeParts == TypeOK <=> QueueTypes /\ HandleTypes
<1>1. QueueTypes /\ HandleTypes => TypeOK
  BY NullIsNoQueue DEF TypeOK, QueueTypes, HandleTypes, Flushing, Queued
<1>2. TypeOK => QueueTypes /\ HandleTypes
  BY DEF TypeOK, QueueTypes, HandleTypes, Flushing, Queued
<1> QED  BY <1>1, <1>2

\* An element of a queue of callbacks is a callback.
LEMMA QueuedElement ==
  ASSUME NEW q \in Queued, NEW k \in 1 .. Len(q)
  PROVE  q[k] \in Callback
  BY ElementOfSeq DEF Queued

LEMMA AppendQueued ==
  ASSUME NEW q \in Queued, NEW c \in Callback
  PROVE  Append(q, c) \in Queued /\ Len(Append(q, c)) = Len(q) + 1
  BY AppendProperties DEF Queued

LEMMA EnterFlushTypes ==
  ASSUME QueueTypes, EnterFlush
  PROVE  QueueTypes'
<1>1. CASE isFlushingSyncQueue \/ syncQueue = Null
  BY <1>1 DEF EnterFlush, QueueTypes, Flushing
<1>2. CASE ~isFlushingSyncQueue /\ syncQueue = <<>> /\ syncQueue # Null
  BY <1>2 DEF EnterFlush, QueueTypes, Flushing
<1>3. CASE ~isFlushingSyncQueue /\ syncQueue # <<>> /\ syncQueue # Null
  <2>1. syncQueue \in Queued /\ started \in Queued
    BY <1>3 DEF QueueTypes
  <2>2. Len(syncQueue) \in Nat /\ 0 < Len(syncQueue)
    BY <1>3, <2>1, EmptySeq, LenProperties DEF Queued
  <2>3. syncQueue[1] \in Callback
    BY <2>1, <2>2, QueuedElement
  <2>4. Append(started, syncQueue[1]) \in Queued
    BY <2>1, <2>3, AppendQueued
  <2>5. i' = 0 /\ isFlushingSyncQueue' = TRUE /\ syncQueue' = syncQueue
        /\ started' = Append(started, syncQueue[1])
    BY <1>3 DEF EnterFlush
  <2> QED  BY <2>1, <2>2, <2>4, <2>5 DEF QueueTypes, Flushing
<1> QED  BY <1>1, <1>2, <1>3

LEMMA ScheduleTypes ==
  ASSUME QueueTypes, HandleTypes, ScheduleSyncCallback
  PROVE  QueueTypes' /\ HandleTypes'
<1>1. scheduled + 1 \in Callback /\ scheduled' = scheduled + 1
      /\ UNCHANGED <<isFlushingSyncQueue, i, started>>
  BY SyncAssumption DEF ScheduleSyncCallback, HandleTypes, Callback
<1>2. CASE syncQueue = Null
  <2>1. \A c \in Callback : <<c>> \in Queued /\ Len(<<c>>) = 1
    BY DEF Queued
  <2>2. ~isFlushingSyncQueue
    BY <1>2, NullIsNoQueue DEF QueueTypes, Flushing
  <2>3. syncQueue' = <<scheduled + 1>>
    BY <1>2 DEF ScheduleSyncCallback
  <2>4. QueueTypes'
    BY <1>1, <2>1, <2>2, <2>3, Zenon DEF QueueTypes, Flushing
  <2>5. HandleTypes'
    <3>1. /\ handles < MaxHandle /\ handles' = handles + 1
          /\ pending' = pending \cup {handles + 1} /\ UNCHANGED resumes
          /\ immediateQueueCallbackNode' = handles + 1
      BY <1>2 DEF ScheduleSyncCallback, SchedulerSchedules
    <3> QED  BY <1>1, <3>1, SyncAssumption DEF HandleTypes, Handle, Callback
  <2> QED  BY <2>4, <2>5
<1>3. CASE syncQueue # Null
  <2> DEFINE q == Append(syncQueue, scheduled + 1)
  <2>1. syncQueue \in Queued
    BY <1>3 DEF QueueTypes
  <2>2. q \in Queued /\ Len(q) = Len(syncQueue) + 1 /\ Len(syncQueue) \in Nat
    BY <1>1, <2>1, AppendQueued, LenProperties DEF Queued
  <2>3. syncQueue' = q /\ UNCHANGED <<immediateQueueCallbackNode, scheduler>>
    BY <1>3 DEF ScheduleSyncCallback
  <2> HIDE DEF q
  <2>4. QueueTypes'
    BY <1>1, <2>2, <2>3 DEF QueueTypes, Flushing
  <2>5. HandleTypes'
    BY <1>1, <2>3, SyncAssumption DEF HandleTypes, scheduler, Callback
  <2> QED  BY <2>4, <2>5
<1> QED  BY <1>2, <1>3

LEMMA ReturnTypes ==
  ASSUME QueueTypes, CallbackReturns
  PROVE  QueueTypes'
<1>1. /\ isFlushingSyncQueue /\ syncQueue \in Queued /\ started \in Queued
      /\ i \in Nat /\ Len(syncQueue) \in Nat
  BY LenProperties DEF CallbackReturns, QueueTypes, Flushing, Queued
<1>2. CASE i + 1 < Len(syncQueue)
  <2>1. i + 2 \in 1 .. Len(syncQueue)
    BY <1>1, <1>2
  <2>2. Append(started, syncQueue[i + 2]) \in Queued
    BY <1>1, <2>1, QueuedElement, AppendQueued
  <2> DEFINE longer == Append(started, syncQueue[i + 2])
  <2>3. /\ i' = i + 1 /\ started' = longer
        /\ UNCHANGED <<syncQueue, isFlushingSyncQueue>>
    BY <1>2 DEF CallbackReturns
  <2>4. i + 1 \in Nat
    BY <1>1
  <2> HIDE DEF longer
  <2> QED  BY <1>1, <1>2, <2>2, <2>3, <2>4, Zenon DEF QueueTypes, Flushing, longer
<1>3. CASE ~(i + 1 < Len(syncQueue))
  BY NullIsNoQueue, <1>1, <1>3 DEF CallbackReturns, QueueTypes, Flushing
<1> QED  BY <1>2, <1>3

LEMMA ThrowTypes ==
  ASSUME QueueTypes, HandleTypes, CallbackThrows
  PROVE  QueueTypes' /\ HandleTypes'
<1>1. /\ syncQueue \in Queued /\ i \in Nat /\ Len(syncQueue) \in Nat
  BY LenProperties DEF CallbackThrows, QueueTypes, Flushing, Queued
<1>2. SubSeq(syncQueue, i + 2, Len(syncQueue)) \in Queued
  BY <1>1, SubSeqProperties DEF Queued
<1>3. QueueTypes'
  BY <1>2 DEF CallbackThrows, QueueTypes, Flushing
<1>4. HandleTypes'
  BY SyncAssumption DEF CallbackThrows, SchedulerSchedules, HandleTypes, Handle
<1> QED  BY <1>3, <1>4

IInv == TypeOK /\ WillBeFlushed

LEMMA PartsOfIInv == QueueTypes /\ HandleTypes /\ WillBeFlushed => IInv
  BY TypeParts DEF IInv

LEMMA InitIInv == Init => IInv
<1> SUFFICES ASSUME Init PROVE IInv
  OBVIOUS
<1>1. <<>> \in Queued
  BY EmptySeq DEF Queued
<1>2. QueueTypes
  BY <1>1 DEF Init, QueueTypes, Flushing
<1>3. HandleTypes
  BY SyncAssumption DEF Init, HandleTypes
<1> QED  BY <1>2, <1>3, TypeParts DEF IInv, Init, WillBeFlushed

LEMMA StepIInv == IInv /\ [Next]_vars => IInv'
<1> SUFFICES ASSUME IInv, [Next]_vars PROVE IInv'
  OBVIOUS
<1>1. QueueTypes /\ HandleTypes /\ WillBeFlushed
  BY TypeParts DEF IInv
<1>0. (QueueTypes /\ HandleTypes /\ WillBeFlushed => IInv)'
  BY PartsOfIInv, PTL
<1>2. ASSUME EnterFlush, UNCHANGED <<immediateQueueCallbackNode, resumes, handles, scheduled>>,
             pending' \subseteq pending
      PROVE  QueueTypes' /\ HandleTypes' /\ WillBeFlushed'
  <2>1. QueueTypes' /\ HandleTypes'
    BY <1>1, <1>2, EnterFlushTypes DEF HandleTypes
  <2>2. syncQueue' = Null \/ isFlushingSyncQueue'
    BY <1>2 DEF EnterFlush
  <2> QED  BY <2>1, <2>2 DEF WillBeFlushed
<1>3. CASE ScheduleSyncCallback
  <2>1. QueueTypes' /\ HandleTypes'
    BY <1>1, <1>3, ScheduleTypes
  <2>2. WillBeFlushed'
    BY <1>1, <1>3 DEF ScheduleSyncCallback, SchedulerSchedules, scheduler, WillBeFlushed
  <2> QED  BY <2>1, <2>2, <1>0
<1>4. CASE FlushSyncCallbackQueue
  BY <1>0, <1>2, <1>4 DEF FlushSyncCallbackQueue
<1>5. CASE \E h \in pending : SchedulerRuns(h)
  BY <1>0, <1>2, <1>5 DEF SchedulerRuns
<1>6. CASE CallbackReturns
  <2>1. QueueTypes'
    BY <1>1, <1>6, ReturnTypes
  <2>2. HandleTypes'
    BY <1>1, <1>6 DEF CallbackReturns, HandleTypes, scheduler
  <2>3. WillBeFlushed'
    BY <1>1, <1>6 DEF CallbackReturns, WillBeFlushed
  <2> QED  BY <2>1, <2>2, <2>3, <1>0
<1>7. CASE CallbackThrows
  <2>1. QueueTypes' /\ HandleTypes'
    BY <1>1, <1>7, ThrowTypes
  <2>2. WillBeFlushed'
    BY <1>7 DEF CallbackThrows, SchedulerSchedules, WillBeFlushed
  <2> QED  BY <2>1, <2>2, <1>0
<1>8. CASE UNCHANGED vars
  BY <1>8 DEF vars, scheduler, IInv, TypeOK, WillBeFlushed
<1> QED  BY <1>3, <1>4, <1>5, <1>6, <1>7, <1>8 DEF Next

\* The variables keep their types, and the loop never runs off its queue.
THEOREM SyncTypeOK == Spec => []TypeOK
<1>1. IInv => TypeOK
  BY DEF IInv
<1> QED  BY <1>1, InitIInv, StepIInv, PTL DEF Spec

\* A queue nobody is flushing always has a Scheduler callback to flush it.
THEOREM SyncWillBeFlushed == Spec => []WillBeFlushed
<1>1. IInv => WillBeFlushed
  BY DEF IInv
<1> QED  BY <1>1, InitIInv, StepIInv, PTL DEF Spec
-----------------------------------------------------------------------------
(***************************************************************************)
(* Nothing is dropped.  The inductive form speaks of places in the queue:  *)
(* its last callback is the last one scheduled, and the number of those    *)
(* started and the loop variable move together.                            *)
(***************************************************************************)
Numbered(s) == \A k \in 1 .. Len(s) : s[k] = k

QueueNumbered ==
  /\ \A k \in 1 .. Len(syncQueue) : syncQueue[k] = scheduled - Len(syncQueue) + k
  /\ Len(started) = scheduled - Len(syncQueue) + (IF isFlushingSyncQueue THEN i + 1 ELSE 0)

InOrder ==
  /\ Numbered(started)
  /\ syncQueue = Null => Len(started) = scheduled
  /\ syncQueue # Null => QueueNumbered

\* Calling the callback that is due keeps the numbers.
LEMMA StartsNext ==
  ASSUME NEW s \in Queued, Numbered(s), NEW c \in Callback, c = Len(s) + 1
  PROVE  Numbered(Append(s, c)) /\ Len(Append(s, c)) = Len(s) + 1
<1>1. /\ Len(s) \in Nat /\ Len(Append(s, c)) = Len(s) + 1
      /\ \A k \in 1 .. Len(s) : Append(s, c)[k] = s[k]
      /\ Append(s, c)[Len(s) + 1] = c
  BY AppendProperties, LenProperties DEF Queued
<1> QED  BY <1>1 DEF Numbered

LEMMA ScheduleInOrder ==
  ASSUME QueueTypes, HandleTypes, InOrder, ScheduleSyncCallback
  PROVE  InOrder'
<1>1. /\ scheduled + 1 \in Callback /\ scheduled' = scheduled + 1 /\ scheduled \in Nat
      /\ UNCHANGED <<isFlushingSyncQueue, i, started>>
  BY SyncAssumption DEF ScheduleSyncCallback, HandleTypes, Callback
<1>2. CASE syncQueue = Null
  <2>1. ~isFlushingSyncQueue
    BY <1>2, NullIsNoQueue DEF QueueTypes, Flushing
  <2>2. syncQueue' = <<scheduled + 1>>
    BY <1>2 DEF ScheduleSyncCallback
  <2>3. syncQueue' # Null
    <3>1. <<scheduled + 1>> \in Queued
      BY <1>1 DEF Queued
    <3> QED  BY <2>2, <3>1, NullIsNoQueue
  <2> QED  BY <1>1, <1>2, <2>1, <2>2, <2>3 DEF InOrder, QueueNumbered, Numbered
<1>3. CASE syncQueue # Null
  <2> DEFINE q == Append(syncQueue, scheduled + 1)
  <2>1. syncQueue \in Queued
    BY <1>3 DEF QueueTypes
  <2>2. /\ q \in Queued /\ Len(syncQueue) \in Nat /\ Len(q) = Len(syncQueue) + 1
        /\ \A k \in 1 .. Len(syncQueue) : q[k] = syncQueue[k]
        /\ q[Len(syncQueue) + 1] = scheduled + 1
    BY <1>1, <2>1, AppendQueued, AppendProperties, LenProperties DEF Queued
  <2>3. syncQueue' = q
    BY <1>3 DEF ScheduleSyncCallback
  <2> HIDE DEF q
  <2>4. syncQueue' # Null
    BY <2>2, <2>3, NullIsNoQueue
  <2>5. Len(started) \in Nat /\ i \in Nat
    BY LenProperties DEF QueueTypes, Queued
  <2>6. \A k \in 1 .. Len(q) : q[k] = scheduled' - Len(q) + k
    BY <1>1, <1>3, <2>2 DEF InOrder, QueueNumbered
  <2>7. Len(started) = scheduled' - Len(q) + (IF isFlushingSyncQueue THEN i + 1 ELSE 0)
    <3> DEFINE into == IF isFlushingSyncQueue THEN i + 1 ELSE 0
    <3>1. into \in Nat
      BY <2>5
    <3>2. Len(started) = scheduled - Len(syncQueue) + into
      BY <1>3 DEF InOrder, QueueNumbered
    <3> HIDE DEF into
    <3>3. Len(started) = scheduled' - Len(q) + into
      BY <1>1, <2>2, <2>5, <3>1, <3>2
    <3> QED  BY <3>3 DEF into
  <2> QED  BY <1>1, <2>3, <2>4, <2>6, <2>7 DEF InOrder, QueueNumbered, Numbered
<1> QED  BY <1>2, <1>3

LEMMA EnterInOrder ==
  ASSUME QueueTypes, HandleTypes, InOrder, EnterFlush, UNCHANGED scheduled
  PROVE  InOrder'
<1>1. CASE isFlushingSyncQueue \/ syncQueue = Null
  BY <1>1 DEF EnterFlush, InOrder, QueueNumbered, Numbered
<1>2. CASE ~isFlushingSyncQueue /\ syncQueue = <<>> /\ syncQueue # Null
  <2>1. Len(started) \in Nat /\ scheduled \in Int
    BY LenProperties DEF QueueTypes, HandleTypes, Queued
  <2> QED  BY <1>2, <2>1 DEF EnterFlush, InOrder, QueueNumbered, Numbered
<1>3. CASE ~isFlushingSyncQueue /\ syncQueue # <<>> /\ syncQueue # Null
  <2>1. syncQueue \in Queued /\ started \in Queued /\ scheduled \in Int
    BY <1>3 DEF QueueTypes, HandleTypes
  <2>2. Len(syncQueue) \in Nat /\ 0 < Len(syncQueue) /\ Len(started) \in Nat
    BY <1>3, <2>1, EmptySeq, LenProperties DEF Queued
  <2>3. syncQueue[1] \in Callback /\ syncQueue[1] = Len(started) + 1
    BY <1>3, <2>1, <2>2, QueuedElement DEF InOrder, QueueNumbered
  <2>4. i' = 0 /\ isFlushingSyncQueue' = TRUE /\ syncQueue' = syncQueue
        /\ started' = Append(started, syncQueue[1])
    BY <1>3 DEF EnterFlush
  <2>5. Numbered(started') /\ Len(started') = Len(started) + 1
    BY <2>1, <2>3, <2>4, StartsNext DEF InOrder
  <2> QED  BY <1>3, <2>1, <2>2, <2>4, <2>5 DEF InOrder, QueueNumbered
<1> QED  BY <1>1, <1>2, <1>3

LEMMA ReturnInOrder ==
  ASSUME QueueTypes, HandleTypes, InOrder, CallbackReturns
  PROVE  InOrder'
<1>1. /\ isFlushingSyncQueue /\ syncQueue \in Queued /\ started \in Queued
      /\ i \in Nat /\ Len(syncQueue) \in Nat /\ Len(started) \in Nat
      /\ scheduled \in Int /\ scheduled' = scheduled /\ i < Len(syncQueue)
  BY LenProperties DEF CallbackReturns, QueueTypes, HandleTypes, Flushing, Queued
<1>2. syncQueue # Null /\ QueueNumbered /\ Numbered(started)
  BY <1>1, NullIsNoQueue DEF InOrder
<1>3. CASE i + 1 < Len(syncQueue)
  <2>1. i + 2 \in 1 .. Len(syncQueue)
    BY <1>1, <1>3
  <2>2. syncQueue[i + 2] \in Callback /\ syncQueue[i + 2] = Len(started) + 1
    BY <1>1, <1>2, <2>1, QueuedElement DEF QueueNumbered
  <2>3. /\ i' = i + 1 /\ started' = Append(started, syncQueue[i + 2])
        /\ UNCHANGED <<syncQueue, isFlushingSyncQueue>>
    BY <1>3 DEF CallbackReturns
  <2>4. Numbered(started') /\ Len(started') = Len(started) + 1
    BY <1>1, <1>2, <2>2, <2>3, StartsNext
  <2> QED  BY <1>1, <1>2, <2>3, <2>4 DEF InOrder, QueueNumbered
<1>4. CASE ~(i + 1 < Len(syncQueue))
  <2>1. syncQueue' = Null /\ UNCHANGED started
    BY <1>4 DEF CallbackReturns
  <2>2. Len(started) = scheduled
    BY <1>1, <1>2, <1>4 DEF QueueNumbered
  <2> QED  BY <1>1, <1>2, <2>1, <2>2 DEF InOrder, Numbered
<1> QED  BY <1>3, <1>4

LEMMA ThrowInOrder ==
  ASSUME QueueTypes, HandleTypes, InOrder, CallbackThrows
  PROVE  InOrder'
<1>1. /\ isFlushingSyncQueue /\ syncQueue \in Queued
      /\ i \in Nat /\ Len(syncQueue) \in Nat /\ Len(started) \in Nat
      /\ scheduled \in Int /\ i < Len(syncQueue)
      /\ UNCHANGED <<scheduled, started>> /\ isFlushingSyncQueue' = FALSE
  BY LenProperties DEF CallbackThrows, QueueTypes, HandleTypes, Flushing, Queued
<1>2. syncQueue # Null /\ QueueNumbered /\ Numbered(started)
  BY <1>1, NullIsNoQueue DEF InOrder
<1> DEFINE rest == SubSeq(syncQueue, i + 2, Len(syncQueue))
<1>3. syncQueue' = rest
  BY DEF CallbackThrows
<1>4. /\ rest \in Queued /\ Len(rest) = Len(syncQueue) - i - 1
      /\ \A k \in 1 .. Len(rest) : rest[k] = syncQueue[i + 1 + k]
  BY <1>1, SubSeqProperties DEF Queued
<1> HIDE DEF rest
<1>5. \A k \in 1 .. Len(rest) : rest[k] = scheduled - Len(rest) + k
  BY <1>1, <1>2, <1>4 DEF QueueNumbered
<1>6. Len(started) = scheduled - Len(rest)
  BY <1>1, <1>2, <1>4 DEF QueueNumbered
<1>7. syncQueue' # Null
  BY <1>3, <1>4, NullIsNoQueue
<1> QED  BY <1>1, <1>2, <1>3, <1>4, <1>5, <1>6, <1>7 DEF InOrder, QueueNumbered, Numbered

LEMMA StepInOrder == IInv /\ InOrder /\ [Next]_vars => InOrder'
<1> SUFFICES ASSUME IInv, InOrder, [Next]_vars PROVE InOrder'
  OBVIOUS
<1>1. QueueTypes /\ HandleTypes
  BY TypeParts DEF IInv
<1>2. CASE ScheduleSyncCallback
  BY <1>1, <1>2, ScheduleInOrder
<1>3. CASE FlushSyncCallbackQueue
  BY <1>1, <1>3, EnterInOrder DEF FlushSyncCallbackQueue
<1>4. CASE \E h \in pending : SchedulerRuns(h)
  BY <1>1, <1>4, EnterInOrder DEF SchedulerRuns
<1>5. CASE CallbackReturns
  BY <1>1, <1>5, ReturnInOrder
<1>6. CASE CallbackThrows
  BY <1>1, <1>6, ThrowInOrder
<1>7. CASE UNCHANGED vars
  BY <1>7 DEF vars, InOrder, QueueNumbered, Numbered
<1> QED  BY <1>2, <1>3, <1>4, <1>5, <1>6, <1>7 DEF Next

LEMMA InOrderIsNothingDropped ==
  ASSUME QueueTypes, HandleTypes, InOrder
  PROVE  NothingDropped
<1>1. /\ started \in Queued /\ Len(started) \in Nat /\ scheduled \in Nat /\ i \in Nat
      /\ syncQueue \in Queued => Len(syncQueue) \in Nat
  BY LenProperties DEF QueueTypes, HandleTypes, Queued
<1>2. /\ Remaining \in Queued /\ Len(started) + Len(Remaining) = scheduled
      /\ \A k \in 1 .. Len(Remaining) : Remaining[k] = Len(started) + k
  <2>1. CASE syncQueue = Null
    BY <1>1, <2>1, EmptySeq DEF Remaining, InOrder, Queued
  <2>2. CASE syncQueue # Null /\ isFlushingSyncQueue
    <3> DEFINE rest == SubSeq(syncQueue, i + 2, Len(syncQueue))
    <3>1. syncQueue \in Queued /\ i < Len(syncQueue) /\ Remaining = rest
      BY <2>2 DEF QueueTypes, Flushing, Remaining
    <3>2. /\ rest \in Queued /\ Len(rest) = Len(syncQueue) - i - 1
          /\ \A k \in 1 .. Len(rest) : rest[k] = syncQueue[i + 1 + k]
      BY <1>1, <3>1, SubSeqProperties DEF Queued
    <3> HIDE DEF rest
    <3>3. QueueNumbered
      BY <2>2 DEF InOrder
    <3>4. Len(started) = scheduled - Len(syncQueue) + i + 1
      BY <1>1, <2>2, <3>1, <3>3 DEF QueueNumbered
    <3>5. ASSUME NEW k \in 1 .. Len(rest) PROVE rest[k] = Len(started) + k
      <4>1. i + 1 + k \in 1 .. Len(syncQueue)
        BY <1>1, <3>1, <3>2
      <4>2. syncQueue[i + 1 + k] = scheduled - Len(syncQueue) + (i + 1 + k)
        BY <3>3, <4>1 DEF QueueNumbered
      <4> QED  BY <1>1, <3>1, <3>2, <3>4, <4>2
    <3> QED  BY <1>1, <3>1, <3>2, <3>4, <3>5
  <2>3. CASE syncQueue # Null /\ ~isFlushingSyncQueue
    <3>1. syncQueue \in Queued /\ Remaining = syncQueue
      BY <2>3 DEF QueueTypes, Remaining
    <3> QED  BY <1>1, <2>3, <3>1 DEF InOrder, QueueNumbered
  <2> QED  BY <2>1, <2>2, <2>3
<1> DEFINE all == started \o Remaining
           numbers == [c \in 1 .. scheduled |-> c]
<1>3. /\ all \in Seq(Callback) /\ Len(all) = Len(started) + Len(Remaining)
      /\ \A k \in 1 .. Len(all) :
           all[k] = IF k <= Len(started) THEN started[k] ELSE Remaining[k - Len(started)]
  BY <1>1, <1>2, ConcatProperties DEF Queued
<1>4. \A k \in 1 .. scheduled : all[k] = k
  <2>1. Len(Remaining) \in Nat
    BY <1>2, LenProperties DEF Queued
  <2> HIDE DEF all
  <2> SUFFICES ASSUME NEW k \in 1 .. scheduled PROVE all[k] = k
    OBVIOUS
  <2>2. k \in 1 .. Len(all) /\ k \in Int
    BY <1>2, <1>3
  <2>3. CASE k <= Len(started)
    <3>1. k \in 1 .. Len(started)
      BY <1>1, <2>2, <2>3
    <3> QED  BY <1>3, <2>2, <2>3, <3>1 DEF InOrder, Numbered
  <2>4. CASE ~(k <= Len(started))
    <3>1. k - Len(started) \in 1 .. Len(Remaining)
      BY <1>1, <1>2, <2>1, <2>4
    <3>2. Remaining[k - Len(started)] = k
      BY <1>1, <1>2, <2>2, <3>1
    <3> QED  BY <1>3, <2>2, <2>4, <3>2
  <2> QED  BY <2>3, <2>4
<1>5. all = [k \in 1 .. Len(all) |-> all[k]]
  BY <1>3, LenProperties
<1> HIDE DEF all
<1>6. all = numbers
  BY <1>2, <1>3, <1>4, <1>5
<1> QED  BY <1>6 DEF NothingDropped, all

\* The callbacks started and those that remain are all the scheduled ones, in
\* order, however flushes are re-entered and errors cut them short.
THEOREM SyncNothingDropped == Spec => []NothingDropped
<1>1. Init => InOrder
  BY SyncAssumption, EmptySeq DEF Init, InOrder, Numbered
<1>2. IInv /\ InOrder => NothingDropped
  BY TypeParts, InOrderIsNothingDropped DEF IInv
<1> QED  BY <1>1, <1>2, InitIInv, StepIInv, StepInOrder, PTL DEF Spec
=============================================================================
