------------------------- MODULE SyncCallbackQueue -------------------------
(***************************************************************************)
(* The reconciler's queue of synchronous callbacks: syncQueue of           *)
(* packages/react-reconciler/src/SchedulerWithReactIntegration.js.  It is  *)
(* flushed by whoever calls flushSyncCallbackQueue and, at the latest, by  *)
(* a callback given to the Scheduler.  The callbacks are renders: while    *)
(* one runs it may schedule others, call flushSyncCallbackQueue again,     *)
(* and throw.                                                              *)
(*                                                                         *)
(* Of the Scheduler this module keeps the callbacks that are pending; it   *)
(* runs them between other events.                                         *)
(***************************************************************************)
EXTENDS Integers, Sequences

CONSTANTS
  Null,         \* no queue, no handle
  MaxCallback,  \* bound: callbacks scheduled
  MaxHandle     \* bound: Scheduler callbacks created

ASSUME SyncAssumption ==
  MaxCallback \in Nat /\ MaxHandle \in Nat /\ Null \notin Int /\ Null \notin Seq(Int)

VARIABLES
  syncQueue,                   \* Null, or the callbacks in order of scheduling
  immediateQueueCallbackNode,  \* Null, or a handle, perhaps a stale one
  isFlushingSyncQueue,
  i,                           \* the loop variable, while flushing
  pending,                     \* handles of pending Scheduler callbacks
  resumes,                     \* those that call flushSyncCallbackQueue
  handles,                     \* handles given out so far
  scheduled,                   \* history: callbacks scheduled so far
  started                      \* history: callbacks called, in order

scheduler == <<pending, resumes, handles>>
vars == <<syncQueue, immediateQueueCallbackNode, isFlushingSyncQueue, i,
          scheduler, scheduled, started>>

Init ==
  /\ syncQueue = Null
  /\ immediateQueueCallbackNode = Null
  /\ isFlushingSyncQueue = FALSE
  /\ i = 0
  /\ pending = {} /\ resumes = {} /\ handles = 0
  /\ scheduled = 0
  /\ started = <<>>

\* Scheduler_scheduleCallback(Immediate, ...), of either of the two functions.
SchedulerSchedules(resuming) ==
  /\ handles < MaxHandle
  /\ handles' = handles + 1
  /\ pending' = pending \cup {handles + 1}
  /\ resumes' = IF resuming THEN resumes \cup {handles + 1} ELSE resumes

\* scheduleSyncCallback.
ScheduleSyncCallback ==
  /\ scheduled < MaxCallback
  /\ scheduled' = scheduled + 1
  /\ IF syncQueue = Null
     THEN /\ syncQueue' = <<scheduled + 1>>
          /\ SchedulerSchedules(FALSE)
          /\ immediateQueueCallbackNode' = handles + 1
     ELSE /\ syncQueue' = Append(syncQueue, scheduled + 1)
          /\ UNCHANGED <<immediateQueueCallbackNode, scheduler>>
  /\ UNCHANGED <<isFlushingSyncQueue, i, started>>

(***************************************************************************)
(* flushSyncCallbackQueueImpl up to the first callback.  What is left      *)
(* after an error may be an empty queue, which is flushed at once.         *)
(***************************************************************************)
EnterFlush ==
  IF isFlushingSyncQueue \/ syncQueue = Null
  THEN UNCHANGED <<syncQueue, isFlushingSyncQueue, i, started>>
  ELSE /\ i' = 0
       /\ IF syncQueue = <<>>
          THEN syncQueue' = Null /\ UNCHANGED <<isFlushingSyncQueue, started>>
          ELSE /\ isFlushingSyncQueue' = TRUE
               /\ started' = Append(started, syncQueue[1])
               /\ UNCHANGED syncQueue

\* flushSyncCallbackQueue withdraws the Scheduler callback it stands in for.
FlushSyncCallbackQueue ==
  /\ pending' = pending \ {immediateQueueCallbackNode}
  /\ EnterFlush
  /\ UNCHANGED <<immediateQueueCallbackNode, resumes, handles, scheduled>>

\* The Scheduler calls the Impl, or the whole function after an error.
SchedulerRuns(h) ==
  /\ ~isFlushingSyncQueue
  /\ h \in pending
  /\ pending' = IF h \in resumes
                THEN pending \ {h, immediateQueueCallbackNode} ELSE pending \ {h}
  /\ EnterFlush
  /\ UNCHANGED <<immediateQueueCallbackNode, resumes, handles, scheduled>>

\* The callback and its continuations are done: call the next, or leave the loop.
\* The length of the queue is read again after every callback.
CallbackReturns ==
  /\ isFlushingSyncQueue
  /\ IF i + 1 < Len(syncQueue)
     THEN /\ i' = i + 1
          /\ started' = Append(started, syncQueue[i + 2])
          /\ UNCHANGED <<syncQueue, isFlushingSyncQueue>>
     ELSE /\ syncQueue' = Null
          /\ isFlushingSyncQueue' = FALSE
          /\ UNCHANGED <<i, started>>
  /\ UNCHANGED <<immediateQueueCallbackNode, scheduler, scheduled>>

\* Mutants of the catch: nobody resumes; the failed callback is kept.
ThrowAndForget ==
  /\ isFlushingSyncQueue
  /\ syncQueue' = SubSeq(syncQueue, i + 2, Len(syncQueue))
  /\ isFlushingSyncQueue' = FALSE
  /\ UNCHANGED <<immediateQueueCallbackNode, scheduler, i, scheduled, started>>

ThrowAndRepeat ==
  /\ isFlushingSyncQueue
  /\ syncQueue' = SubSeq(syncQueue, i + 1, Len(syncQueue))
  /\ SchedulerSchedules(TRUE)
  /\ isFlushingSyncQueue' = FALSE
  /\ UNCHANGED <<immediateQueueCallbackNode, i, scheduled, started>>

\* The catch: leave the remaining callbacks and have the Scheduler resume.
CallbackThrows ==
  /\ isFlushingSyncQueue
  /\ syncQueue' = SubSeq(syncQueue, i + 2, Len(syncQueue))
  /\ SchedulerSchedules(TRUE)
  /\ isFlushingSyncQueue' = FALSE
  /\ UNCHANGED <<immediateQueueCallbackNode, i, scheduled, started>>

Next ==
  \/ ScheduleSyncCallback
  \/ FlushSyncCallbackQueue
  \/ \E h \in pending : SchedulerRuns(h)
  \/ CallbackReturns
  \/ CallbackThrows

Spec == Init /\ [][Next]_vars

\* The Scheduler runs its callbacks (Scheduler!EveryCallbackIsTaken), and
\* renders end.
Fairness ==
  /\ WF_vars(\E h \in pending : SchedulerRuns(h))
  /\ WF_vars(CallbackReturns \/ CallbackThrows)

FairSpec == Spec /\ Fairness
-----------------------------------------------------------------------------
Callback == 1 .. MaxCallback
Handle == 1 .. MaxHandle

TypeOK ==
  /\ syncQueue \in Seq(Callback) \cup {Null}
  /\ immediateQueueCallbackNode \in Handle \cup {Null}
  /\ isFlushingSyncQueue \in BOOLEAN
  /\ i \in Nat
  /\ pending \subseteq 1 .. handles
  /\ resumes \subseteq 1 .. handles
  /\ handles \in 0 .. MaxHandle
  /\ scheduled \in 0 .. MaxCallback
  /\ started \in Seq(Callback)
  /\ isFlushingSyncQueue => syncQueue # Null /\ i < Len(syncQueue)

(***************************************************************************)
(* A queue nobody is flushing has a Scheduler callback that will flush it. *)
(* scheduleSyncCallback adds one only with a new queue, flushes withdraw   *)
(* handles that may be stale, and an error leaves a queue behind.          *)
(***************************************************************************)
WillBeFlushed == syncQueue # Null /\ ~isFlushingSyncQueue => pending # {}

(***************************************************************************)
(* No callback is lost, repeated or overtaken, also when a flush is        *)
(* re-entered or ends with an error: those started, then those still to be *)
(* started, are all those scheduled, in order.                             *)
(***************************************************************************)
Remaining ==
  IF syncQueue = Null THEN <<>>
  ELSE IF isFlushingSyncQueue THEN SubSeq(syncQueue, i + 2, Len(syncQueue))
  ELSE syncQueue

NothingDropped == started \o Remaining = [c \in 1 .. scheduled |-> c]

\* Every scheduled callback is eventually called.
EveryCallbackIsCalled ==
  \A c \in Callback : scheduled >= c ~> \E k \in 1 .. Len(started) : started[k] = c
=============================================================================
