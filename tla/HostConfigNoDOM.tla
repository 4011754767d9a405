-------------------------- MODULE HostConfigNoDOM --------------------------
(***************************************************************************)
(* packages/scheduler/src/forks/SchedulerHostConfig.default.js without a   *)
(* window or a MessageChannel: flushWork runs from setTimeout(0) timers    *)
(* and is never told that it timed out.  A request made while flushWork    *)
(* runs is itself put off by a timer, so that requests, withdrawals and    *)
(* flushes can overtake one another.                                       *)
(***************************************************************************)
EXTENDS HostClient

CONSTANTS
  MaxTimers             \* bound: pending timers of each kind

\* What is assumed of the constants.
ASSUME NoDOMAssumption == MaxTimers \in Nat

VARIABLES
  callback,                 \* is _callback set?  It is always flushWork
  flushTimers,              \* pending setTimeout(_flushCallback, 0, false)
  requestTimers,            \* pending setTimeout(requestHostCallback, 0, cb)
  calling,                  \* flushWork is running
  request                   \* history: what Scheduler.js last asked for

noDOMVars == <<client, didTimeout, callback, flushTimers, requestTimers, calling, request>>

NoDOMInit ==
  /\ ClientInit
  /\ callback = FALSE
  /\ flushTimers = 0 /\ requestTimers = 0
  /\ calling = FALSE
  /\ request = NoRequest

\* requestHostCallback, when _callback is `held` at the time of the call.
Request(held) ==
  /\ callback' = TRUE
  /\ IF held
     THEN /\ requestTimers < MaxTimers /\ requestTimers' = requestTimers + 1
          /\ UNCHANGED flushTimers
     ELSE /\ flushTimers < MaxTimers /\ flushTimers' = flushTimers + 1
          /\ UNCHANGED requestTimers

\* Between flushes: cancelHostCallback if Scheduler.js knows of a request.
RequestByTimer(timeout) ==
  /\ ~calling
  /\ Request(callback /\ ~isHostCallbackScheduled)
  /\ isHostCallbackScheduled' = TRUE
  /\ request' = timeout
  /\ UNCHANGED <<calling, didTimeout>>

\* Mutant: the timer counts as the timeout.
TimedOut == TRUE

\* The argument the timer passes on.
TimerArgument == FALSE

\* _flushCallback; a paused scheduler returns at once.
FlushCallback ==
  /\ ~calling
  /\ flushTimers > 0
  /\ flushTimers' = flushTimers - 1
  /\ \/ /\ callback
        /\ calling' = TRUE /\ didTimeout' = TimerArgument
        /\ isHostCallbackScheduled' = FALSE /\ request' = NoRequest
        /\ UNCHANGED callback
     \/ /\ callback
        /\ callback' = FALSE /\ request' = NoRequest
        /\ UNCHANGED <<calling, didTimeout, isHostCallbackScheduled>>
     \/ /\ ~callback
        /\ UNCHANGED <<callback, calling, didTimeout, isHostCallbackScheduled, request>>
  /\ UNCHANGED requestTimers

\* Mutant: without the protection against re-entrancy the request made by
\* flushWork sets _callback, which is reset after it.
FlushForgets ==
  /\ calling
  /\ calling' = FALSE /\ didTimeout' = FALSE
  /\ callback' = FALSE
  /\ \/ UNCHANGED <<flushTimers, isHostCallbackScheduled, request>>
     \/ /\ flushTimers < MaxTimers /\ flushTimers' = flushTimers + 1
        /\ isHostCallbackScheduled' = TRUE
        /\ request' \in Timeouts
  /\ UNCHANGED requestTimers

\* flushWork returns or throws: the request it makes finds _callback still set,
\* and then _callback is reset.
FlushCallbackEnds ==
  /\ calling
  /\ calling' = FALSE /\ didTimeout' = FALSE
  /\ callback' = FALSE
  /\ \/ UNCHANGED <<requestTimers, isHostCallbackScheduled, request>>
     \/ /\ requestTimers < MaxTimers /\ requestTimers' = requestTimers + 1
        /\ isHostCallbackScheduled' = TRUE
        /\ request' \in Timeouts
  /\ UNCHANGED flushTimers

\* The timer of a request that was put off; it may be put off again.
DeferredRequest ==
  /\ ~calling
  /\ requestTimers > 0
  /\ callback' = TRUE
  /\ IF callback THEN UNCHANGED <<requestTimers, flushTimers>>
     ELSE /\ requestTimers' = requestTimers - 1
          /\ flushTimers < MaxTimers /\ flushTimers' = flushTimers + 1
  /\ UNCHANGED <<isHostCallbackScheduled, calling, didTimeout, request>>

NoDOMNext ==
  \/ \E timeout \in Timeouts : RequestByTimer(timeout)
  \/ FlushCallback
  \/ FlushCallbackEnds
  \/ DeferredRequest

\* Timers are delivered and flushWork returns.
NoDOMFairness ==
  SF_noDOMVars(FlushCallback) /\ WF_noDOMVars(DeferredRequest) /\ WF_noDOMVars(FlushCallbackEnds)
-----------------------------------------------------------------------------
(***************************************************************************)
(* What Scheduler.js believes to be requested is on its way: either        *)
(* _callback is set and a flush timer is pending, or a timer will set it.  *)
(* Resetting _callback after a flush loses no request made by that flush,  *)
(* and cancelling loses none put off by an earlier one.                    *)
(***************************************************************************)
NoDOMWakeupOnTheWay ==
  /\ callback /\ ~calling => flushTimers > 0
  /\ request # NoRequest => callback \/ requestTimers > 0

\* Every request is answered or withdrawn.
NoDOMRequestAnswered == request # NoRequest ~> request = NoRequest
=============================================================================
