---------------------------- MODULE HostCallback ----------------------------
(***************************************************************************)
(* The contract between Scheduler.js and a SchedulerHostConfig, seen from  *)
(* both sides.  The scheduler keeps at most one request with the host: it  *)
(* replaces it only between flushes and makes a new one only at the end of *)
(* a flush.  The host calls flushWork between other events, consumes the   *)
(* request with the call, and says that the request timed out only if it   *)
(* did.  Scheduler, HostConfigDOM and HostConfigNoDOM implement this.      *)
(***************************************************************************)
EXTENDS Integers

CONSTANTS
  NoRequest,  \* no callback is requested
  Timeouts    \* absolute timeouts requests are made with

VARIABLES
  now,
  request,    \* timeout of the outstanding request
  scheduled,  \* the scheduler believes that it has a request
  calling,    \* flushWork is in progress
  didTimeout  \* its argument

hvars == <<now, request, scheduled, calling, didTimeout>>

HostInit ==
  /\ now = 0
  /\ request = NoRequest
  /\ scheduled = FALSE
  /\ calling = FALSE
  /\ didTimeout = FALSE

\* requestHostCallback, after cancelHostCallback if a request is outstanding.
Ensure(timeout) ==
  /\ ~calling
  /\ request' = timeout
  /\ scheduled' = TRUE
  /\ UNCHANGED <<now, calling, didTimeout>>

\* The host calls flushWork, which either starts or returns at once (paused).
Call(exceeded) ==
  /\ ~calling
  /\ exceeded => request # NoRequest /\ request <= now
  /\ request' = NoRequest
  /\ \/ scheduled' = FALSE /\ calling' = TRUE /\ didTimeout' = exceeded
     \/ UNCHANGED <<scheduled, calling, didTimeout>>
  /\ UNCHANGED now

\* flushWork ends, and asks for another call if callbacks are left.
Return ==
  /\ calling
  /\ calling' = FALSE
  /\ didTimeout' = FALSE
  /\ \/ UNCHANGED <<request, scheduled>>
     \/ scheduled' = TRUE /\ request' \in Timeouts
  /\ UNCHANGED now

HostTick == now' = now + 1 /\ UNCHANGED <<request, scheduled, calling, didTimeout>>

HostNext ==
  \/ \E timeout \in Timeouts : Ensure(timeout)
  \/ \E exceeded \in BOOLEAN : Call(exceeded)
  \/ Return
  \/ HostTick

HostSpec == HostInit /\ [][HostNext]_hvars
=============================================================================
