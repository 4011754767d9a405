----------------------------- MODULE HostConfig -----------------------------
(***************************************************************************)
(* packages/scheduler/src/forks/SchedulerHostConfig.default.js: whether    *)
(* there is a window with a MessageChannel decides, when the file is       *)
(* loaded, which of the two hosts the scheduler gets.  Either one keeps    *)
(* the contract of HostCallback.                                           *)
(***************************************************************************)
EXTENDS HostConfigDOM, HostConfigNoDOM

VARIABLE hasDOM   \* typeof window and typeof MessageChannel

\* What only one of the two has.
domOnly == <<now, requested, rate, frameDeadline, chain, port, isFlushingHostCallback>>
noDOMOnly == <<callback, flushTimers, requestTimers, calling, request>>
hostVars == <<hasDOM, client, didTimeout, domOnly, noDOMOnly>>

HostConfigInit == hasDOM \in BOOLEAN /\ DOMInit /\ NoDOMInit

HostConfigNext ==
  \/ hasDOM /\ DOMNext /\ UNCHANGED <<hasDOM, noDOMOnly>>
  \/ ~hasDOM /\ NoDOMNext /\ UNCHANGED <<hasDOM, domOnly>>

HostConfigSpec == HostConfigInit /\ [][HostConfigNext]_hostVars
-----------------------------------------------------------------------------
\* In either host, an event is coming that will look at a requested callback.
WakeupOnTheWay == DOMWakeupOnTheWay /\ NoDOMWakeupOnTheWay

\* In either host, every request is answered or withdrawn.
RequestAnswered == DOMRequestAnswered /\ NoDOMRequestAnswered

(***************************************************************************)
(* Both hosts call flushWork as Scheduler.js assumes, though the one       *)
(* without a DOM may call it once more than it was asked to.               *)
(***************************************************************************)
Contract == INSTANCE HostCallback WITH
  request <- IF ~hasDOM THEN request
             ELSE IF scheduledHostCallback THEN timeoutTime ELSE NoRequest,
  scheduled <- isHostCallbackScheduled,
  calling <- IF hasDOM THEN isFlushingHostCallback ELSE calling
ImplementsContract == Contract!HostSpec
=============================================================================
