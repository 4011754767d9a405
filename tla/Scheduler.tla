----------------------------- MODULE Scheduler -----------------------------
(***************************************************************************)
(* The cooperative scheduler of packages/scheduler/src/Scheduler.js: the   *)
(* ordered list of callbacks (CallbackQueue), the loop that runs them      *)
(* inside a host callback, and the priority context of the running code.   *)
(*                                                                         *)
(* JavaScript is single threaded, but the callbacks and event handlers are *)
(* arbitrary code that calls back into the scheduler.  The call stack is   *)
(* therefore part of the state: `stack` holds, innermost first, the local  *)
(* variables of every flushWork, flushFirstCallback and                    *)
(* runWithPriority/next/wrapped call that has not returned, and user code  *)
(* may call any operation whenever it is on top.                           *)
(*                                                                         *)
(* The host (SchedulerHostConfig) is `now` and `hostRequest`, the timeout  *)
(* of the outstanding requestHostCallback.  HostCallback states what is    *)
(* assumed of it, and HostConfigDOM and HostConfigNoDOM provide it.        *)
(***************************************************************************)
EXTENDS CallbackQueue

CONSTANTS
  TimeoutOf,                 \* timeout of each priority level
  CustomTimeouts,            \* values callers give deprecated_options.timeout
  Levels,                    \* priority levels callers pass
  NoRequest,                 \* no host callback is requested
  EnableSchedulerDebugging,  \* SchedulerFeatureFlags
  MaxTime, MaxDepth          \* bounds: the clock, and the nesting of calls

ImmediatePriority == 1
UserBlockingPriority == 2
NormalPriority == 3
LowPriority == 4
IdlePriority == 5
Priority == 1 .. 5

\* Level 0 stands for every value that is not a priority level.
Level == 0 .. 5

ASSUME SchedulerAssumption ==
  /\ TimeoutOf \in [Priority -> Int]
  /\ CustomTimeouts \subseteq Int
  /\ Levels \subseteq Level
  /\ NoRequest \notin Int
  /\ EnableSchedulerDebugging \in BOOLEAN
  /\ MaxTime \in Nat /\ MaxDepth \in Nat

\* Expirations holds every sum of a start time and a timeout.
ASSUME ExpirationsAssumption ==
  \A start \in 0 .. MaxTime :
    \A timeout \in {TimeoutOf[p] : p \in Priority} \cup CustomTimeouts :
      start + timeout \in Expirations

VARIABLES
  priority,                       \* priorityLevel of each created node
  turn,                           \* history: the node whose turn this node has
  isPerformingWork,
  isHostCallbackScheduled,
  isSchedulerPaused,
  currentHostCallbackDidTimeout,
  currentPriorityLevel,
  currentEventStartTime,
  currentExpirationTime,
  stack,                          \* frames of the calls in progress, top first
  now,                            \* getCurrentTime()
  hostRequest                     \* timeout of the requested host callback

\* What an operation on the list alone leaves as it is.
context == <<currentHostCallbackDidTimeout, currentPriorityLevel,
             currentEventStartTime, currentExpirationTime>>
host == <<isHostCallbackScheduled, hostRequest>>
nodes == <<allocated, expires, priority, turn>>
vars == <<queue, nodes, isPerformingWork, isSchedulerPaused, context, stack,
          now, host>>

TopIs(kind) == stack # <<>> /\ Head(stack).kind = kind

\* User code: an event handler or a timer, or the callback or handler on top.
UserCode == stack = <<>> \/ TopIs("callback") \/ TopIs("priority")

Paused == EnableSchedulerDebugging /\ isSchedulerPaused

Init ==
  /\ QueueInit
  /\ priority = [n \in Node |-> 0]
  /\ turn = [n \in Node |-> 0]
  /\ isPerformingWork = FALSE
  /\ isHostCallbackScheduled = FALSE
  /\ isSchedulerPaused = FALSE
  /\ currentHostCallbackDidTimeout = FALSE
  /\ currentPriorityLevel = NormalPriority
  /\ currentEventStartTime = -1
  /\ currentExpirationTime = -1
  /\ stack = <<>>
  /\ now = 0
  /\ hostRequest = NoRequest

\* Mutant: the host is asked while work is being performed.
ScheduleWhilePerforming ==
  IF queue' = <<>> THEN UNCHANGED host
  ELSE /\ isHostCallbackScheduled' = TRUE
       /\ hostRequest' = expires'[Head(queue')]

\* Mutant: the new request is not remembered.
ScheduleUnnoticed ==
  IF isPerformingWork' \/ queue' = <<>> THEN UNCHANGED host
  ELSE hostRequest' = expires'[Head(queue')] /\ UNCHANGED isHostCallbackScheduled

(***************************************************************************)
(* scheduleHostCallbackIfNeeded: unless work is being performed, replace   *)
(* the host request by one for the earliest expiration in the list.  It    *)
(* reads the list, the expirations and isPerformingWork after the          *)
(* operation that calls it has updated them.                               *)
(***************************************************************************)
ScheduleHostCallbackIfNeeded ==
  IF isPerformingWork' \/ queue' = <<>> THEN UNCHANGED host
  ELSE /\ isHostCallbackScheduled' = TRUE
       /\ hostRequest' = expires'[Head(queue')]

\* Fields of a node created by the step that are not the list's business.
Describe(level, whose) ==
  /\ priority' = [priority EXCEPT ![allocated + 1] = level]
  /\ turn' = [turn EXCEPT ![allocated + 1] = whose]

TimeoutFor(level) ==
  TimeoutOf[IF level \in Priority THEN level ELSE NormalPriority]

\* Mutant: -1 is taken for a start time.
EventStartTime == currentEventStartTime

StartTime == IF currentEventStartTime # -1 THEN currentEventStartTime ELSE now

(***************************************************************************)
(* unstable_scheduleCallback.  Only a node that becomes the first one      *)
(* makes the scheduler ask the host again.                                 *)
(***************************************************************************)
ScheduleCallback(level, timeout) ==
  /\ UserCode
  /\ InsertNew(StartTime + timeout)
  /\ Describe(level, allocated + 1)
  /\ UNCHANGED <<isPerformingWork, isSchedulerPaused, context, stack, now>>
  /\ IF Head(queue') = allocated + 1 THEN ScheduleHostCallbackIfNeeded
     ELSE UNCHANGED host

\* unstable_cancelCallback, with any handle ever returned.
CancelCallback(n) ==
  /\ UserCode
  /\ Unlink(n)
  /\ UNCHANGED <<priority, turn, isPerformingWork, isSchedulerPaused, context,
                 stack, now, host>>

PauseExecution ==
  /\ UserCode
  /\ isSchedulerPaused' = TRUE
  /\ UNCHANGED <<queue, nodes, isPerformingWork, context, stack, now, host>>

ContinueExecution ==
  /\ UserCode
  /\ isSchedulerPaused' = FALSE
  /\ UNCHANGED <<queue, nodes, isPerformingWork, context, stack, now>>
  /\ ScheduleHostCallbackIfNeeded
-----------------------------------------------------------------------------
(***************************************************************************)
(* unstable_runWithPriority, unstable_next and the function returned by    *)
(* unstable_wrapCallback: run a handler at another level, with one start   *)
(* time for all it schedules, and restore both on the way out.             *)
(***************************************************************************)
EnterPriority(level) ==
  /\ UserCode
  /\ Len(stack) < MaxDepth
  /\ stack' = Cons([kind |-> "priority", priority |-> currentPriorityLevel,
                    startTime |-> currentEventStartTime], stack)
  /\ currentPriorityLevel' = level
  /\ currentEventStartTime' = now
  /\ UNCHANGED <<queue, nodes, isPerformingWork, isSchedulerPaused, now, host,
                 currentHostCallbackDidTimeout, currentExpirationTime>>

RunWithPriority(level) ==
  EnterPriority(IF level \in Priority THEN level ELSE NormalPriority)

\* Shift down to normal, never up; a level that is no priority is kept.
RunNext ==
  EnterPriority(IF currentPriorityLevel \in ImmediatePriority .. NormalPriority
                THEN NormalPriority ELSE currentPriorityLevel)

\* The level was captured when the callback was wrapped, in code that ran at
\* normal priority or at a level some caller passed.
RunWrapped(level) == EnterPriority(level)

LeavePriority ==
  /\ TopIs("priority")
  /\ stack' = Tail(stack)
  /\ currentPriorityLevel' = Head(stack).priority
  /\ currentEventStartTime' = Head(stack).startTime
  /\ UNCHANGED <<queue, nodes, isPerformingWork, isSchedulerPaused, now,
                 currentHostCallbackDidTimeout, currentExpirationTime>>

HandlerReturns == LeavePriority /\ UNCHANGED host

\* The error goes on to the enclosing frame, which may catch it or not.
HandlerThrows == LeavePriority /\ ScheduleHostCallbackIfNeeded
-----------------------------------------------------------------------------
(***************************************************************************)
(* flushWork, called by the host from an empty stack.  When the scheduler  *)
(* is paused it returns at once and leaves isHostCallbackScheduled set.    *)
(* A host without a DOM may call it with no request outstanding.           *)
(***************************************************************************)
HostFlush(didTimeout) ==
  /\ stack = <<>>
  /\ didTimeout => hostRequest # NoRequest /\ hostRequest <= now
  /\ hostRequest' = NoRequest
  /\ IF Paused
     THEN UNCHANGED <<isHostCallbackScheduled, isPerformingWork, stack,
                      currentHostCallbackDidTimeout>>
     ELSE /\ isHostCallbackScheduled' = FALSE
          /\ isPerformingWork' = TRUE
          /\ currentHostCallbackDidTimeout' = didTimeout
          /\ stack' = <<[kind |-> "flush", at |-> "start",
                         didTimeout |-> currentHostCallbackDidTimeout]>>
  /\ UNCHANGED <<queue, nodes, isSchedulerPaused, currentPriorityLevel,
                 currentEventStartTime, currentExpirationTime, now>>

\* Mutant: a flush that timed out runs callbacks that have not expired.
FlushWhateverExpires == queue # <<>> /\ ~Paused

\* The loop tests of flushWork.  Without a timeout the loop is a do-while: the
\* first callback is run whatever the time, and then the host may want to yield.
MayFlushFirst ==
  /\ queue # <<>> /\ ~Paused
  /\ currentHostCallbackDidTimeout => expires[Head(queue)] <= now

\* Mutant: a while loop in place of the do-while.
StopBeforeFirst == ~MayFlushFirst \/ ~currentHostCallbackDidTimeout

MayStopFlushing ==
  \/ ~MayFlushFirst
  \/ ~currentHostCallbackDidTimeout /\ Head(stack).at = "loop"

\* flushFirstCallback, up to the call of the callback.
FlushFirstCallback ==
  /\ TopIs("flush")
  /\ MayFlushFirst
  /\ RemoveFirstNode
  /\ stack' = Cons([kind |-> "callback", node |-> Head(queue),
                    priority |-> currentPriorityLevel,
                    expiration |-> currentExpirationTime],
                   <<[Head(stack) EXCEPT !.at = "loop"]>> \o Tail(stack))
  /\ currentPriorityLevel' = priority[Head(queue)]
  /\ currentExpirationTime' = expires[Head(queue)]
  /\ UNCHANGED <<priority, turn, isPerformingWork, isSchedulerPaused, now, host,
                 currentHostCallbackDidTimeout, currentEventStartTime>>

\* Mutant: the host is asked before isPerformingWork is reset.
FinishTooLate(flush, rest) ==
  /\ isPerformingWork' = FALSE
  /\ currentHostCallbackDidTimeout' = flush.didTimeout
  /\ stack' = rest
  /\ UNCHANGED host

\* The finally of flushWork; flush is the frame it leaves.
FinishFlush(flush, rest) ==
  /\ isPerformingWork' = FALSE
  /\ currentHostCallbackDidTimeout' = flush.didTimeout
  /\ stack' = rest
  /\ ScheduleHostCallbackIfNeeded

FlushReturns ==
  /\ TopIs("flush")
  /\ MayStopFlushing
  /\ UNCHANGED <<queue, nodes, isSchedulerPaused, currentPriorityLevel,
                 currentEventStartTime, currentExpirationTime, now>>
  /\ FinishFlush(Head(stack), Tail(stack))

\* Mutant: the expiration of the finished callback stays current.
LeaveExpiration ==
  /\ TopIs("callback")
  /\ currentPriorityLevel' = Head(stack).priority
  /\ UNCHANGED <<currentExpirationTime, currentEventStartTime, isSchedulerPaused, now>>

\* The finally of flushFirstCallback.
LeaveCallback ==
  /\ TopIs("callback")
  /\ currentPriorityLevel' = Head(stack).priority
  /\ currentExpirationTime' = Head(stack).expiration
  /\ UNCHANGED <<currentEventStartTime, isSchedulerPaused, now>>

CallbackReturns ==
  /\ LeaveCallback
  /\ stack' = Tail(stack)
  /\ UNCHANGED <<queue, nodes, isPerformingWork, host,
                 currentHostCallbackDidTimeout>>

(***************************************************************************)
(* The callback returned a function: a node with the priority and the      *)
(* expiration of the finished one, ahead of its equals.                    *)
(***************************************************************************)
CallbackReturnsContinuation ==
  /\ LeaveCallback
  /\ stack' = Tail(stack)
  /\ UNCHANGED <<isPerformingWork, currentHostCallbackDidTimeout>>
  /\ LET node == Head(stack).node
     IN  InsertContinuation(expires[node]) /\ Describe(priority[node], turn[node])
  /\ IF queue # <<>> /\ Head(queue') = allocated + 1
     THEN ScheduleHostCallbackIfNeeded ELSE UNCHANGED host

\* The error leaves flushFirstCallback and flushWork through both finallys.
CallbackThrows ==
  /\ LeaveCallback
  /\ UNCHANGED <<queue, nodes>>
  /\ FinishFlush(Head(Tail(stack)), Tail(Tail(stack)))

Tick ==
  /\ now < MaxTime
  /\ now' = now + 1
  /\ UNCHANGED <<queue, nodes, isPerformingWork, isSchedulerPaused, context,
                 stack, host>>
-----------------------------------------------------------------------------
Schedule ==
  \E level \in Levels :
    \E timeout \in {TimeoutFor(level)} \cup CustomTimeouts :
      ScheduleCallback(level, timeout)

Next ==
  \/ Schedule
  \/ \E n \in Created : CancelCallback(n)
  \/ PauseExecution
  \/ ContinueExecution
  \/ \E level \in Levels : RunWithPriority(level)
  \/ RunNext
  \/ \E level \in Levels \cup {NormalPriority} : RunWrapped(level)
  \/ HandlerReturns
  \/ HandlerThrows
  \/ \E didTimeout \in BOOLEAN : HostFlush(didTimeout)
  \/ FlushFirstCallback
  \/ FlushReturns
  \/ CallbackReturns
  \/ CallbackReturnsContinuation
  \/ CallbackThrows
  \/ Tick

Spec == Init /\ [][Next]_vars

(***************************************************************************)
(* The host eventually answers an outstanding request once the stack is    *)
(* empty, flushWork's own loop does not stop, and every call of user code, *)
(* at each depth of the stack, returns.                                    *)
(***************************************************************************)
HostAnswers ==
  hostRequest # NoRequest /\ \E didTimeout \in BOOLEAN : HostFlush(didTimeout)

UserCodeReturns == HandlerReturns \/ HandlerThrows \/ CallbackReturns
                     \/ CallbackReturnsContinuation \/ CallbackThrows

Fairness ==
  /\ SF_vars(HostAnswers)
  /\ WF_vars(FlushFirstCallback \/ FlushReturns)
  /\ \A depth \in 1 .. MaxDepth : SF_vars(Len(stack) = depth /\ UserCodeReturns)

FairSpec == Spec /\ Fairness
-----------------------------------------------------------------------------
Frame ==
  [kind : {"flush"}, at : {"start", "loop"}, didTimeout : BOOLEAN]
    \cup [kind : {"callback"}, node : Node, priority : Level, expiration : Int]
    \cup [kind : {"priority"}, priority : Level, startTime : -1 .. MaxTime]

TypeOK ==
  /\ QueueTypeOK
  /\ \A n \in Created : expires[n] \in Expirations
  /\ priority \in [Node -> Level]
  /\ turn \in [Node -> 0 .. MaxNode]
  /\ isPerformingWork \in BOOLEAN
  /\ isHostCallbackScheduled \in BOOLEAN
  /\ isSchedulerPaused \in BOOLEAN
  /\ currentHostCallbackDidTimeout \in BOOLEAN
  /\ currentPriorityLevel \in Level
  /\ currentEventStartTime \in -1 .. MaxTime
  /\ currentExpirationTime \in Int
  /\ stack \in Seq(Frame)
  /\ now \in 0 .. MaxTime
  /\ hostRequest \in Expirations \cup {NoRequest}

(***************************************************************************)
(* No lost wake-up: whenever callbacks are pending, nothing is being       *)
(* performed and the scheduler is not paused, the host holds a request     *)
(* that times out no later than the earliest of them, however the last     *)
(* flush ended, whatever was cancelled, and across pause and continue.     *)
(***************************************************************************)
NoLostWakeup ==
  ~isPerformingWork /\ ~Paused /\ queue # <<>> =>
    /\ isHostCallbackScheduled
    /\ hostRequest # NoRequest
    /\ hostRequest <= expires[Head(queue)]

\* isHostCallbackScheduled is what decides whether an old request is withdrawn
\* first: the host never holds a request the scheduler has forgotten about, and
\* holds none while the scheduler performs work.
RequestIsKnown ==
  hostRequest # NoRequest => isHostCallbackScheduled /\ ~isPerformingWork

(***************************************************************************)
(* Callbacks take turns: the list is strictly ordered by expiration and,   *)
(* among equals, by the time the work was first scheduled, where a         *)
(* continuation keeps the turn of the callback it continues, even if that  *)
(* callback scheduled or cancelled others of the same expiration.          *)
(***************************************************************************)
Before(m, n) ==
  expires[m] < expires[n] \/ (expires[m] = expires[n] /\ turn[m] < turn[n])

TakesTurns ==
  \A i, j \in 1 .. Len(queue) : i < j => Before(queue[i], queue[j])

(***************************************************************************)
(* The priority context is what the frames on the stack say it is.  In     *)
(* particular an empty stack means normal priority, no event start time    *)
(* and no current expiration, whichever mix of returns and errors emptied  *)
(* it, and a callback's code runs at its own level and expiration.         *)
(***************************************************************************)
ContextRestored ==
  /\ stack = <<>> => /\ currentPriorityLevel = NormalPriority
                     /\ currentEventStartTime = -1
                     /\ currentExpirationTime = -1
                     /\ ~currentHostCallbackDidTimeout
  /\ isPerformingWork <=> (stack # <<>> /\ Last(stack).kind = "flush")
  /\ TopIs("flush") => currentPriorityLevel = NormalPriority
  /\ TopIs("callback") =>
       /\ currentPriorityLevel = priority[Head(stack).node]
       /\ currentExpirationTime = expires[Head(stack).node]

(***************************************************************************)
(* A started callback is due first: nothing pending has an earlier         *)
(* expiration, and after a time-out only expired callbacks start.          *)
(***************************************************************************)
StartsEarliest ==
  [][\A n \in Node :
       FlushFirstCallback /\ n = Head(queue) =>
         /\ \A m \in ToSet(queue') : Before(n, m)
         /\ currentHostCallbackDidTimeout' => expires[n] <= now]_vars

(***************************************************************************)
(* The scheduler keeps to its side of the contract with the host: no       *)
(* request and no withdrawal while flushWork runs, one request at its end. *)
(***************************************************************************)
Contract == INSTANCE HostCallback WITH
  request <- hostRequest, scheduled <- isHostCallbackScheduled,
  calling <- isPerformingWork, didTimeout <- currentHostCallbackDidTimeout,
  Timeouts <- Expirations
ImplementsContract == Contract!HostSpec

(***************************************************************************)
(* Every pending callback is eventually started or cancelled, whatever     *)
(* the callbacks before it do, throw or schedule.                          *)
(***************************************************************************)
EveryCallbackIsTaken ==
  \A n \in Node : n \in ToSet(queue) ~> n \notin ToSet(queue)
=============================================================================
