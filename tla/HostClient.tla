----------------------------- MODULE HostClient -----------------------------
(***************************************************************************)
(* What both hosts of packages/scheduler/src/forks/                        *)
(* SchedulerHostConfig.default.js know of their client, Scheduler.js,      *)
(* which requests that they call flushWork.                                *)
(***************************************************************************)
EXTENDS Integers

CONSTANTS
  NoRequest, Timeouts   \* as in HostCallback

ASSUME ClientAssumption == NoRequest \notin Int /\ Timeouts \subseteq Int

VARIABLES
  isHostCallbackScheduled,   \* of Scheduler.js: it knows of a request
  didTimeout                 \* the argument of the running flushWork

client == isHostCallbackScheduled

ClientInit == isHostCallbackScheduled = FALSE /\ didTimeout = FALSE
=============================================================================
