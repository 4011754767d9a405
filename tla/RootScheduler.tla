--------------------------- MODULE RootScheduler ---------------------------
(***************************************************************************)
(* Scheduling and phases of the roots: ReactFiberWorkLoop.js.              *)
(*                                                                         *)
(* An update has a number and an expiration time; later is smaller, Sync   *)
(* is the largest.  Some updates report an error that no boundary handles. *)
(* Rendering a root at a time yields a tree that covers   *)
(* the updates of at least that time; committing the tree retires them.    *)
(* What one fiber does is left out: a render completes, suspends or fails. *)
(*                                                                         *)
(* JavaScript's call stack is a variable, its top the head of `stack`.  A  *)
(* frame at "user" runs components, effects or handlers, which may         *)
(* schedule updates.  The other positions name where a frame continues     *)
(* when the call it makes returns.                                         *)
(*                                                                         *)
(* The Scheduler is a set of tasks, run between events in any order; the   *)
(* queue of synchronous callbacks (SyncCallbackQueue) is the sequence of   *)
(* those not called yet, and is being flushed while a "flush" frame is on  *)
(* the stack.                                                              *)
(***************************************************************************)
EXTENDS Integers, Sequences, SequencesExt

CONSTANTS
  Root,
  Null,        \* no root, no callback, no tree
  Sync,        \* the expiration time of synchronous updates
  Level,       \* priority levels of asynchronous updates
  Delay,       \* how long after the event an update of a level expires
  MaxUpdate,   \* bound: updates scheduled
  MaxSuspend,  \* bound: renders that suspend
  MaxHandler,  \* bound: nesting of event handlers
  Handle       \* bound: identities of Scheduler tasks alive at once

ASSUME RootAssumption ==
  /\ IsFiniteSet(Root) /\ Null \notin Root
  /\ Sync \in Nat \ {0, 1}
  /\ Delay \in [Level -> Nat \ {0}]
  /\ MaxUpdate \in Nat /\ MaxSuspend \in Nat /\ MaxHandler \in Nat
  /\ Handle \subseteq Nat \ {0}

NoWork == 0
Time == 0 .. Sync
NoNode == 0
FakeCallbackNode == -1

VARIABLES
  clock,             \* the current time, as an expiration time
  currentEventTime,
  roots,             \* the fields of every FiberRoot
  pending,           \* for each root, the updates no commit has retired
  enqueued,          \* number of updates scheduled so far
  hasUncaughtError,
  wip,               \* workInProgressRoot, renderExpirationTime, updates processed
  passiveRoot,       \* rootWithPendingPassiveEffects
  passiveTask,       \* a task that flushes passive effects is pending
  discrete,          \* rootsWithPendingDiscreteUpdates
  syncQueue,         \* the synchronous callbacks not called yet
  tasks,             \* the pending Scheduler tasks that render or commit
  stack,             \* JavaScript's call stack
  pings,             \* thenables that suspended a root at a time
  retries,           \* roots that show a fallback of an unresolved thenable
  suspends,          \* number of renders that suspended
  forgotten          \* history: roots that lost their callback in one of two known ways

updateVars == <<pending, enqueued>>
thenableVars == <<pings, retries, suspends>>
vars == <<clock, currentEventTime, roots, updateVars, hasUncaughtError, wip, passiveRoot,
          passiveTask, discrete, syncQueue, tasks, stack, thenableVars, forgotten>>

NoWip == [root |-> Null, time |-> NoWork, updates |-> {}]

Init ==
  /\ clock = Sync - 1
  /\ currentEventTime = NoWork
  /\ roots = [r \in Root |->
       [firstPendingTime |-> NoWork, lastPendingTime |-> NoWork,
        callbackNode |-> NoNode, callbackExpirationTime |-> NoWork,
        finishedWork |-> Null, finishedExpirationTime |-> NoWork,
        timer |-> FALSE, pingTime |-> NoWork]]
  /\ pending = [r \in Root |-> {}]
  /\ enqueued = 0
  /\ hasUncaughtError = FALSE
  /\ wip = NoWip
  /\ passiveRoot = Null /\ passiveTask = FALSE
  /\ discrete = [r \in Root |-> NoWork]
  /\ syncQueue = <<>> /\ tasks = {} /\ stack = <<>>
  /\ pings = {} /\ retries = {} /\ suspends = 0
  /\ forgotten = {}
-----------------------------------------------------------------------------
(***************************************************************************)
(* The call stack.  A callback wrapped by runRootCallback remembers the    *)
(* callback node its root had when it was called.                          *)
(***************************************************************************)
Top == Head(stack)
Below == Tail(stack)
At(fn, at) == stack # <<>> /\ Top.fn = fn /\ Top.at = at
Goto(at) == [stack EXCEPT ![1].at = at]

Frame(fn, at, r) ==
  [fn |-> fn, at |-> at, root |-> r, time |-> NoWork, isSync |-> FALSE,
   wrapped |-> FALSE, prevCallbackNode |-> NoNode]

Called(rs, callback, isSync) ==
  [Frame(callback.fn, "start", callback.root) EXCEPT
     !.time = callback.time, !.isSync = isSync, !.wrapped = callback.wrapped,
     !.prevCallbackNode = IF callback.wrapped THEN rs[callback.root].callbackNode ELSE NoNode]

RenderOf(r, t, wrapped) == [fn |-> "renderRoot", root |-> r, time |-> t, wrapped |-> wrapped]
CommitOf(r, wrapped) == [fn |-> "commitRoot", root |-> r, time |-> NoWork, wrapped |-> wrapped]

Handlers == {"batchedUpdates", "flushSync"}

\* workPhase is what the innermost frame that runs user code has set.
workPhase ==
  LET user == {i \in 1 .. Len(stack) : stack[i].at = "user"}
      fn   == stack[Min(user)].fn
  IN  IF user = {} THEN "NotWorking"
      ELSE IF fn = "renderRoot" THEN "RenderPhase"
      ELSE IF fn \in Handlers THEN fn
      ELSE "CommitPhase"

UserCode == stack # <<>> => Top.at = "user"

\* flushSyncCallbackQueue: no effect while the queue is being flushed.
FlushSync(st) ==
  IF \E i \in 1 .. Len(st) : st[i].fn = "flush" THEN st
  ELSE <<Frame("flush", "next", Null)>> \o st

\* flushPassiveEffects, called from a frame that continues as in st.
FlushPassiveEffects(st) ==
  /\ passiveRoot' = Null
  /\ stack' = IF passiveRoot = Null THEN st
              ELSE <<Frame("flushPassiveEffects", "user", passiveRoot)>> \o st
-----------------------------------------------------------------------------
CurrentTime ==
  IF workPhase \in {"RenderPhase", "CommitPhase"} \/ currentEventTime = NoWork
  THEN clock ELSE currentEventTime

RequestCurrentTime ==
  currentEventTime' = IF workPhase \in {"RenderPhase", "CommitPhase"}
                      THEN currentEventTime ELSE CurrentTime

(***************************************************************************)
(* computeExpirationForFiber.  Any update may belong to a fiber in legacy  *)
(* mode, or have immediate priority, and is then synchronous.              *)
(***************************************************************************)
ExpirationTimes(level) ==
  LET async == CurrentTime - Delay[level]
      apart == IF wip.root # Null /\ async = wip.time THEN async - 1 ELSE async
  IN  {Sync} \cup
      IF workPhase = "RenderPhase" THEN {wip.time} ELSE {apart} \cap 1 .. Sync

\* The updates a render of r at time t covers if it begins now.
Covered(r, t) == {u \in pending[r] : u.time >= t}

FreshStack(r, t) == [root |-> r, time |-> t, updates |-> Covered(r, t)]

\* prepareFreshStack withdraws a finished tree that waits to be committed.
Discarded(rs, r) ==
  [rs EXCEPT ![r].finishedWork = Null, ![r].finishedExpirationTime = NoWork,
             ![r].timer = FALSE]

EnqueueUpdate(r, t, uncaught) ==
  /\ enqueued < MaxUpdate
  /\ enqueued' = enqueued + 1
  /\ pending' = [pending EXCEPT ![r] =
                   @ \cup {[number |-> enqueued', time |-> t, uncaught |-> uncaught]}]

\* Mutant: the last time is lowered also when there is none.
MarkedLower(rs, r, t) ==
  [rs EXCEPT ![r].firstPendingTime = IF t > @ THEN t ELSE @,
             ![r].lastPendingTime = IF t < @ THEN t ELSE @]

\* The end of markUpdateTimeFromFiberToRoot.
Marked(rs, r, t) ==
  [rs EXCEPT ![r].firstPendingTime = IF t > @ THEN t ELSE @,
             ![r].lastPendingTime = IF @ = NoWork \/ t < @ THEN t ELSE @]

\* The task identities nothing refers to, and one of them.
FreeHandle ==
  Handle \ ({task.handle : task \in tasks}
               \cup {roots[r].callbackNode : r \in Root}
               \cup {stack[i].prevCallbackNode : i \in 1 .. Len(stack)})
FreshHandle == CHOOSE handle \in FreeHandle : TRUE

(***************************************************************************)
(* scheduleCallbackForRoot, with the roots as the caller has left them.  A *)
(* synchronous callback cannot be withdrawn, and a callback that is        *)
(* running, or that has been replaced by its continuation, is no task any  *)
(* more.                                                                   *)
(***************************************************************************)
ScheduleCallbackForRoot(rs, r, t) ==
  IF rs[r].callbackExpirationTime >= t
  THEN roots' = rs /\ UNCHANGED <<tasks, syncQueue>>
  ELSE LET kept == {task \in tasks : task.handle # rs[r].callbackNode}
           node == IF t = Sync THEN FakeCallbackNode ELSE FreshHandle
       IN  /\ roots' = [rs EXCEPT ![r].callbackExpirationTime = t, ![r].callbackNode = node]
           /\ IF t = Sync
              THEN tasks' = kept /\ syncQueue' = Append(syncQueue, RenderOf(r, t, TRUE))
              ELSE /\ FreeHandle # {}
                   /\ tasks' = kept \cup {[handle |-> node, callback |-> RenderOf(r, t, TRUE)]}
                   /\ UNCHANGED syncQueue

\* History: a root that gets a callback is no longer forgotten.
Remembered(r) ==
  forgotten' = IF roots'[r].callbackNode # roots[r].callbackNode THEN forgotten \ {r}
               ELSE forgotten

\* Mutant: the root keeps the record of its callback.
KeepsCallback(rs, done) == rs

(***************************************************************************)
(* The finally block of runRootCallback, for the frames in `done`: those   *)
(* that end without a continuation.                                        *)
(***************************************************************************)
AfterFinally(rs, done) ==
  [r \in Root |->
     IF \E f \in done : f.wrapped /\ f.root = r /\ f.prevCallbackNode = rs[r].callbackNode
     THEN [rs[r] EXCEPT !.callbackNode = NoNode, !.callbackExpirationTime = NoWork]
     ELSE rs[r]]

(***************************************************************************)
(* The callback on top returns a continuation, or Null.  A flush of the    *)
(* synchronous queue calls a continuation at once; the Scheduler makes it  *)
(* a new task, whose identity the root does not learn.                     *)
(***************************************************************************)
Return(callback, rs) ==
  IF callback = Null
  THEN roots' = AfterFinally(rs, {Top}) /\ stack' = Below /\ UNCHANGED tasks
  ELSE /\ roots' = rs
       /\ IF Below = <<>>
          THEN /\ FreeHandle # {}
               /\ stack' = <<>>
               /\ tasks' = tasks \cup {[handle |-> FreshHandle, callback |-> callback]}
          ELSE /\ stack' = <<Called(rs, callback, TRUE)>> \o Below
               /\ UNCHANGED tasks
-----------------------------------------------------------------------------
(* Updates and event handlers.                                             *)

\* scheduleUpdateOnFiber.
ScheduleUpdate(r, level) ==
  /\ UserCode
  /\ \E t \in ExpirationTimes(level) :
       /\ EnqueueUpdate(r, t, FALSE)
       /\ discrete' = IF /\ level = "userBlocking" /\ t # Sync
                         /\ discrete[r] = NoWork \/ discrete[r] > t
                      THEN [discrete EXCEPT ![r] = t] ELSE discrete
       /\ ScheduleCallbackForRoot([Marked(roots, r, t) EXCEPT ![r].pingTime = NoWork], r, t)
       /\ stack' = IF t = Sync /\ workPhase = "NotWorking" THEN FlushSync(stack) ELSE stack
  /\ RequestCurrentTime
  /\ Remembered(r)
  /\ UNCHANGED <<clock, hasUncaughtError, wip, passiveRoot, passiveTask, thenableVars>>

\* batchedUpdates inside of other work calls its function directly.
EnterHandler(fn) ==
  /\ IF fn = "batchedUpdates" THEN stack = <<>>
     ELSE UserCode /\ workPhase \notin {"RenderPhase", "CommitPhase"}
  /\ Len(stack) < MaxHandler
  /\ stack' = <<Frame(fn, "user", Null)>> \o stack
  /\ UNCHANGED <<clock, currentEventTime, roots, updateVars, hasUncaughtError, wip, passiveRoot,
                 passiveTask, discrete, syncQueue, tasks, thenableVars, forgotten>>

\* The finally block, whether the handler returns or throws.
LeaveHandler ==
  /\ UserCode /\ stack # <<>> /\ Top.fn \in Handlers
  /\ stack' = FlushSync(Below)
  /\ UNCHANGED <<clock, currentEventTime, roots, updateVars, hasUncaughtError, wip, passiveRoot,
                 passiveTask, discrete, syncQueue, tasks, thenableVars, forgotten>>

\* flushDiscreteUpdates: the roots in the order of the Map, then passive effects.
FlushDiscreteUpdates ==
  /\ UserCode
  /\ workPhase \notin {"RenderPhase", "CommitPhase", "batchedUpdates"}
  /\ \E order \in SetToSeqs({r \in Root : discrete[r] # NoWork}) :
       LET callbacks == [i \in DOMAIN order |-> RenderOf(order[i], discrete[order[i]], FALSE)]
           resume    == <<Frame("flushDiscreteUpdates", "passive", Null)>> \o stack
       IN  /\ syncQueue' = syncQueue \o callbacks
           /\ stack' = IF callbacks = <<>> THEN resume ELSE FlushSync(resume)
  /\ discrete' = [r \in Root |-> NoWork]
  /\ UNCHANGED <<clock, currentEventTime, roots, updateVars, hasUncaughtError, wip, passiveRoot,
                 passiveTask, tasks, thenableVars, forgotten>>

FlushDiscreteEnds ==
  /\ At("flushDiscreteUpdates", "passive")
  /\ FlushPassiveEffects(Below)
  /\ UNCHANGED <<clock, currentEventTime, roots, updateVars, hasUncaughtError, wip,
                 passiveTask, discrete, syncQueue, tasks, thenableVars, forgotten>>
-----------------------------------------------------------------------------
(* What the Scheduler, the queue of synchronous callbacks and timers call. *)

SchedulerRuns(task) ==
  /\ stack = <<>>
  /\ tasks' = tasks \ {task}
  /\ \E didTimeout \in BOOLEAN : stack' = <<Called(roots, task.callback, didTimeout)>>
  /\ UNCHANGED <<clock, currentEventTime, roots, updateVars, hasUncaughtError, wip, passiveRoot,
                 passiveTask, discrete, syncQueue, thenableVars, forgotten>>

SchedulerRunsPassive ==
  /\ stack = <<>>
  /\ passiveTask
  /\ passiveTask' = FALSE
  /\ FlushPassiveEffects(<<>>)
  /\ UNCHANGED <<clock, currentEventTime, roots, updateVars, hasUncaughtError, wip,
                 discrete, syncQueue, tasks, thenableVars, forgotten>>

\* SyncCallbackQueue!WillBeFlushed: a queue that is not empty is flushed by a task.
SchedulerFlushes ==
  /\ stack = <<>>
  /\ syncQueue # <<>>
  /\ stack' = FlushSync(<<>>)
  /\ UNCHANGED <<clock, currentEventTime, roots, updateVars, hasUncaughtError, wip, passiveRoot,
                 passiveTask, discrete, syncQueue, tasks, thenableVars, forgotten>>

\* The loop of flushSyncCallbackQueueImpl.
FlushNext ==
  /\ At("flush", "next")
  /\ IF syncQueue = <<>> THEN stack' = Below /\ UNCHANGED syncQueue
     ELSE /\ stack' = <<Called(roots, Head(syncQueue), TRUE)>> \o stack
          /\ syncQueue' = Tail(syncQueue)
  /\ UNCHANGED <<clock, currentEventTime, roots, updateVars, hasUncaughtError, wip, passiveRoot,
                 passiveTask, discrete, tasks, thenableVars, forgotten>>

\* The timer of a suspended root commits what the root has finished by then.
TimeoutFires(r) ==
  /\ stack = <<>>
  /\ roots[r].timer
  /\ roots' = [roots EXCEPT ![r].timer = FALSE]
  /\ stack' = <<Called(roots, CommitOf(r, FALSE), TRUE)>>
  /\ UNCHANGED <<clock, currentEventTime, updateVars, hasUncaughtError, wip, passiveRoot,
                 passiveTask, discrete, syncQueue, tasks, thenableVars, forgotten>>

TimePasses ==
  /\ stack = <<>> /\ clock > 1
  /\ clock' = clock - 1
  /\ UNCHANGED <<currentEventTime, roots, updateVars, hasUncaughtError, wip, passiveRoot,
                 passiveTask, discrete, syncQueue, tasks, stack, thenableVars, forgotten>>
-----------------------------------------------------------------------------
(* renderRoot.                                                             *)

\* The time is not pending any more, or its tree waits to be committed.
NothingToRender(root, t) == root.firstPendingTime < t \/ root.finishedExpirationTime = t

RenderNothing ==
  /\ At("renderRoot", "start")
  /\ LET root == roots[Top.root]
     IN  /\ NothingToRender(root, Top.time)
         /\ Return(IF root.firstPendingTime < Top.time THEN Null
                   ELSE CommitOf(Top.root, Top.wrapped), roots)
  /\ UNCHANGED <<clock, currentEventTime, updateVars, hasUncaughtError, wip, passiveRoot,
                 passiveTask, discrete, syncQueue, thenableVars, forgotten>>

RenderFlushesPassive ==
  /\ At("renderRoot", "start")
  /\ ~NothingToRender(roots[Top.root], Top.time)
  /\ passiveRoot # Null
  /\ FlushPassiveEffects(Goto("prepare"))
  /\ UNCHANGED <<clock, currentEventTime, roots, updateVars, hasUncaughtError, wip,
                 passiveTask, discrete, syncQueue, tasks, thenableVars, forgotten>>

\* Up to the work loop.  Expired work is rendered together with all that has expired.
RenderPrepares ==
  /\ \/ At("renderRoot", "prepare")
     \/ /\ At("renderRoot", "start") /\ passiveRoot = Null
        /\ ~NothingToRender(roots[Top.root], Top.time)
  /\ LET r     == Top.root
         fresh == wip.root # r \/ wip.time # Top.time
         rs    == IF fresh THEN Discarded(roots, r) ELSE roots
     IN  /\ wip' = IF fresh THEN FreshStack(r, Top.time) ELSE wip
         /\ IF Top.isSync /\ Top.time # Sync /\ clock < Top.time
            THEN Return(RenderOf(r, clock, Top.wrapped), rs) /\ UNCHANGED currentEventTime
            ELSE /\ roots' = rs
                 /\ stack' = Goto("user")
                 /\ currentEventTime' = IF Top.isSync THEN currentEventTime ELSE NoWork
                 /\ UNCHANGED tasks
  /\ UNCHANGED <<clock, updateVars, hasUncaughtError, passiveRoot,
                 passiveTask, discrete, syncQueue, thenableVars, forgotten>>

RenderYields ==
  /\ At("renderRoot", "user") /\ ~Top.isSync
  /\ Return(RenderOf(Top.root, Top.time, Top.wrapped), roots)
  /\ UNCHANGED <<clock, currentEventTime, updateVars, hasUncaughtError, wip, passiveRoot,
                 passiveTask, discrete, syncQueue, thenableVars, forgotten>>

(***************************************************************************)
(* The tree is complete.  Of the updates that have come since the render   *)
(* began it covers those on fibers not yet processed.  A render that finds *)
(* nothing to do bails out of every fiber and completes.  A failed or      *)
(* suspended tree may lead to a render at a lower priority, a failed one   *)
(* to a synchronous attempt, and a commit may be delayed; how long is left *)
(* open.                                                                   *)
(***************************************************************************)
RenderCompletes(status) ==
  /\ At("renderRoot", "user")
  /\ status = "RootSuspended" => suspends < MaxSuspend
  /\ \E late \in SUBSET (Covered(Top.root, Top.time) \ wip.updates),
        uncaught \in {FALSE, status = "RootErrored"} :
       LET r        == Top.root
           t        == Top.time
           updates  == wip.updates \cup late
           finished == [updates |-> updates, suspended |-> status = "RootSuspended",
                        uncaught |-> uncaught \/ \E u \in updates : u.uncaught]
           rs       == [roots EXCEPT ![r].finishedWork = finished,
                                     ![r].finishedExpirationTime = t]
           lower    == rs[r].lastPendingTime < t
           tryLower == lower /\ \/ status = "RootErrored"
                                \/ status = "RootSuspended" /\ ~Top.isSync
       IN  /\ status # "RootCompleted" => updates # {}
           /\ \/ /\ tryLower
                 /\ Return(RenderOf(r, rs[r].lastPendingTime, Top.wrapped), rs)
                 /\ wip' = NoWip /\ UNCHANGED syncQueue
              \/ /\ status = "RootErrored" /\ ~tryLower /\ ~Top.isSync
                 /\ Return(Null, Discarded(rs, r))
                 /\ wip' = FreshStack(r, t)
                 /\ syncQueue' = Append(syncQueue, RenderOf(r, t, FALSE))
              \/ /\ status # "RootErrored" /\ ~tryLower /\ ~Top.isSync
                 /\ Return(Null, [rs EXCEPT ![r].timer = TRUE])
                 /\ wip' = NoWip /\ UNCHANGED syncQueue
              \/ /\ ~tryLower /\ (status = "RootErrored" => Top.isSync)
                 /\ Return(CommitOf(r, Top.wrapped), rs)
                 /\ wip' = NoWip /\ UNCHANGED syncQueue
  /\ pings' = IF status = "RootSuspended" THEN pings \cup {<<Top.root, Top.time>>} ELSE pings
  /\ suspends' = IF status = "RootSuspended" THEN suspends + 1 ELSE suspends
  /\ UNCHANGED <<clock, currentEventTime, updateVars, hasUncaughtError, passiveRoot,
                 passiveTask, discrete, retries, forgotten>>
-----------------------------------------------------------------------------
(* commitRoot and passive effects.                                         *)

CommitFlushesPassive ==
  /\ At("commitRoot", "start")
  /\ passiveRoot # Null
  /\ FlushPassiveEffects(Goto("mutate"))
  /\ UNCHANGED <<clock, currentEventTime, roots, updateVars, hasUncaughtError, wip,
                 passiveTask, discrete, syncQueue, tasks, thenableVars, forgotten>>

MayCommit ==
  \/ At("commitRoot", "mutate")
  \/ At("commitRoot", "start") /\ passiveRoot = Null

MaxTime(us) == Max({u.time : u \in us} \cup {NoWork})

(***************************************************************************)
(* commitRootImpl up to the effects.  The times left on the root's fiber   *)
(* are those of the updates the tree does not cover.                       *)
(***************************************************************************)
CommitMutates ==
  /\ MayCommit
  /\ roots[Top.root].finishedWork # Null
  /\ LET r     == Top.root
         tree  == roots[r].finishedWork
         first == MaxTime(pending[r] \ tree.updates)
     IN  /\ pending' = [pending EXCEPT ![r] = @ \ tree.updates]
         /\ roots' = [roots EXCEPT
              ![r].finishedWork = Null, ![r].finishedExpirationTime = NoWork,
              ![r].callbackNode = NoNode, ![r].callbackExpirationTime = NoWork,
              ![r].firstPendingTime = first,
              ![r].lastPendingTime = IF first < @ THEN first ELSE @]
         /\ wip' = IF wip.root = r THEN NoWip ELSE wip
         /\ hasUncaughtError' = (hasUncaughtError \/ tree.uncaught)
         /\ retries' = IF tree.suspended THEN retries \cup {r} ELSE retries
  /\ stack' = Goto("user")
  /\ UNCHANGED <<clock, currentEventTime, enqueued, passiveRoot, passiveTask,
                 discrete, syncQueue, tasks, pings, suspends, forgotten>>

\* There is no finished tree any more.
CommitNothing ==
  /\ MayCommit
  /\ roots[Top.root].finishedWork = Null
  /\ stack' = Goto("last")
  /\ UNCHANGED <<clock, currentEventTime, roots, updateVars, hasUncaughtError, wip, passiveRoot,
                 passiveTask, discrete, syncQueue, tasks, thenableVars, forgotten>>

\* captureCommitPhaseError: an effect throws; a boundary or the root handles it.
EffectThrows ==
  /\ At("commitRoot", "user") \/ At("flushPassiveEffects", "user")
  /\ \E uncaught \in BOOLEAN : EnqueueUpdate(Top.root, Sync, uncaught)
  /\ ScheduleCallbackForRoot(Marked(roots, Top.root, Sync), Top.root, Sync)
  /\ Remembered(Top.root)
  /\ UNCHANGED <<clock, currentEventTime, hasUncaughtError, wip, passiveRoot, passiveTask,
                 discrete, stack, thenableVars>>

(***************************************************************************)
(* commitRootImpl after the effects: what remains is scheduled, then an    *)
(* uncaught error is thrown or synchronous work is flushed.  The tree of   *)
(* an uncaught error is empty and has no passive effects.                  *)
(***************************************************************************)
CommitFinishes ==
  /\ At("commitRoot", "user")
  /\ LET r         == Top.root
         remaining == roots[r].firstPendingTime
     IN  /\ \E passive \in {FALSE, ~hasUncaughtError} :
              passiveRoot' = IF passive THEN r ELSE passiveRoot
         /\ IF remaining = NoWork
            THEN UNCHANGED <<roots, tasks, syncQueue, currentEventTime>>
            ELSE /\ ScheduleCallbackForRoot(roots, r, remaining)
                 /\ currentEventTime' = IF currentEventTime = NoWork THEN clock
                                        ELSE currentEventTime
  /\ hasUncaughtError' = FALSE
  /\ Remembered(Top.root)
  /\ stack' = IF hasUncaughtError THEN Goto("throw") ELSE FlushSync(Goto("last"))
  /\ UNCHANGED <<clock, updateVars, wip, passiveTask, discrete, thenableVars>>

SchedulePassive == passiveTask' = (passiveTask \/ passiveRoot # Null)

\* The end of commitRoot.
CommitReturns ==
  /\ At("commitRoot", "last")
  /\ Return(Null, roots)
  /\ SchedulePassive
  /\ UNCHANGED <<clock, currentEventTime, updateVars, hasUncaughtError, wip, passiveRoot,
                 discrete, syncQueue, thenableVars, forgotten>>

PassiveFinishes ==
  /\ At("flushPassiveEffects", "user")
  /\ stack' = FlushSync(Goto("last"))
  /\ UNCHANGED <<clock, currentEventTime, roots, updateVars, hasUncaughtError, wip, passiveRoot,
                 passiveTask, discrete, syncQueue, tasks, thenableVars, forgotten>>

PassiveReturns ==
  /\ At("flushPassiveEffects", "last")
  /\ stack' = Below
  /\ UNCHANGED <<clock, currentEventTime, roots, updateVars, hasUncaughtError, wip, passiveRoot,
                 passiveTask, discrete, syncQueue, tasks, thenableVars, forgotten>>

(***************************************************************************)
(* The error of a commit unwinds every call up to the nearest handler: the *)
(* queue keeps what is left of it, and every runRootCallback in between    *)
(* ends without a continuation.                                            *)
(***************************************************************************)
ErrorUnwinds ==
  /\ At("commitRoot", "throw")
  /\ LET catchers == {i \in 1 .. Len(stack) : stack[i].fn \in Handlers}
         unwound  == 1 .. IF catchers = {} THEN Len(stack) ELSE Min(catchers) - 1
     IN  /\ roots' = AfterFinally(roots, {stack[i] : i \in unwound})
         /\ stack' = SubSeq(stack, Cardinality(unwound) + 1, Len(stack))
         /\ forgotten' = forgotten \cup
              {stack[i].root : i \in {j \in unwound : stack[j].at \in {"prepare", "mutate"}}}
  /\ UNCHANGED <<clock, currentEventTime, updateVars, hasUncaughtError, wip, passiveRoot,
                 passiveTask, discrete, syncQueue, tasks, thenableVars>>
-----------------------------------------------------------------------------
(* Suspense.                                                               *)

(***************************************************************************)
(* pingSuspendedRoot: render again at the time that suspended, at once if  *)
(* that is the render in progress.  A finished tree of that time is thrown *)
(* away, also when a task is about to commit it.                           *)
(***************************************************************************)
PingSuspendedRoot(r, t) ==
  /\ stack = <<>>
  /\ <<r, t>> \in pings
  /\ pings' = pings \ {<<r, t>>}
  /\ LET working    == wip.root = r /\ wip.time = t
         ignored    == roots[r].lastPendingTime < t \/ roots[r].pingTime \in 1 .. t - 1
         thrownAway == roots[r].finishedExpirationTime = t
         pinged     == [roots EXCEPT ![r].pingTime = t]
     IN  \/ /\ working
            /\ wip' = FreshStack(r, t)
            /\ roots' = Discarded(roots, r)
            /\ UNCHANGED <<tasks, syncQueue, currentEventTime, forgotten>>
         \/ /\ ~working /\ ignored
            /\ UNCHANGED <<wip, roots, tasks, syncQueue, currentEventTime, forgotten>>
         \/ /\ ~working /\ ~ignored
            /\ ScheduleCallbackForRoot(
                 IF thrownAway
                 THEN [pinged EXCEPT ![r].finishedExpirationTime = NoWork,
                                     ![r].finishedWork = Null]
                 ELSE pinged, r, t)
            /\ RequestCurrentTime
            /\ IF thrownAway /\ \E task \in tasks : task.callback = CommitOf(r, TRUE)
               THEN forgotten' = forgotten \cup {r} ELSE Remembered(r)
            /\ UNCHANGED wip
  /\ UNCHANGED <<clock, updateVars, hasUncaughtError, passiveRoot, passiveTask, discrete,
                 stack, retries, suspends>>

\* retryTimedOutBoundary: unlike an update it flushes nothing.
RetryTimedOutBoundary(r, level) ==
  /\ stack = <<>>
  /\ r \in retries
  /\ retries' = retries \ {r}
  /\ \E t \in ExpirationTimes(level) :
       /\ EnqueueUpdate(r, t, FALSE)
       /\ ScheduleCallbackForRoot(Marked(roots, r, t), r, t)
  /\ RequestCurrentTime
  /\ Remembered(r)
  /\ UNCHANGED <<clock, hasUncaughtError, wip, passiveRoot, passiveTask, discrete,
                 stack, pings, suspends>>
-----------------------------------------------------------------------------
Render == RenderNothing \/ RenderFlushesPassive \/ RenderPrepares
Commit == CommitFlushesPassive \/ CommitMutates \/ CommitNothing \/ CommitFinishes \/ CommitReturns
Status == {"RootCompleted", "RootSuspended", "RootErrored"}

Next ==
  \/ \E r \in Root, level \in Level :
       ScheduleUpdate(r, level) \/ RetryTimedOutBoundary(r, level)
  \/ \E fn \in Handlers : EnterHandler(fn)
  \/ LeaveHandler
  \/ FlushDiscreteUpdates \/ FlushDiscreteEnds
  \/ \E task \in tasks : SchedulerRuns(task)
  \/ SchedulerRunsPassive \/ SchedulerFlushes
  \/ FlushNext
  \/ \E r \in Root : TimeoutFires(r)
  \/ TimePasses
  \/ Render \/ RenderYields
  \/ \E status \in Status : RenderCompletes(status)
  \/ Commit \/ EffectThrows
  \/ PassiveFinishes \/ PassiveReturns
  \/ ErrorUnwinds
  \/ \E r \in Root, t \in Time : PingSuspendedRoot(r, t)

Spec == Init /\ [][Next]_vars
-----------------------------------------------------------------------------
Update == [number : 1 .. MaxUpdate, time : 1 .. Sync, uncaught : BOOLEAN]
Tree == [updates : SUBSET Update, suspended : BOOLEAN, uncaught : BOOLEAN]
Callback ==
  {c \in [fn : {"renderRoot", "commitRoot"}, root : Root, time : Time, wrapped : BOOLEAN] :
     c.fn = "commitRoot" <=> c.time = NoWork}

ASSUME NullAssumption == Null \notin Tree /\ Null \notin Callback

\* The types, and that a tree waits to be committed exactly while its time does.
TypeOK ==
  /\ clock \in Time /\ currentEventTime \in Time
  /\ pending \in [Root -> SUBSET Update]
  /\ \A r \in Root :
       /\ {roots[r].firstPendingTime, roots[r].lastPendingTime, roots[r].pingTime,
           roots[r].callbackExpirationTime, roots[r].finishedExpirationTime} \subseteq Time
       /\ roots[r].callbackNode \in Handle \cup {NoNode, FakeCallbackNode}
       /\ roots[r].finishedWork \in Tree \cup {Null}
       /\ (roots[r].finishedWork = Null) <=> (roots[r].finishedExpirationTime = NoWork)

PendingTimesAgree ==
  \A r \in Root :
    /\ roots[r].firstPendingTime = MaxTime(pending[r])
    /\ \A u \in pending[r] : roots[r].lastPendingTime \in 1 .. u.time

(***************************************************************************)
(* What a root records of its work agrees with it: its finished tree with  *)
(* the time of that tree, and the two times it keeps in place of its       *)
(* updates with the updates: the first is the highest, and the last is no  *)
(* higher than any.                                                        *)
(***************************************************************************)
RecordsAgree == TypeOK /\ PendingTimesAgree

Renders(callback, r) ==
  /\ callback.root = r
  /\ IF callback.fn = "renderRoot" THEN callback.time <= roots[r].firstPendingTime
     ELSE roots[r].finishedWork # Null

\* Something is coming that renders or commits r.
Scheduled(r) ==
  \/ \E task \in tasks : Renders(task.callback, r)
  \/ \E i \in DOMAIN syncQueue : Renders(syncQueue[i], r)
  \/ roots[r].timer /\ roots[r].finishedWork # Null

(***************************************************************************)
(* Between events a root with an update has a callback, a synchronous      *)
(* callback or a timer, and not one that will find nothing to do, and      *)
(* pending passive effects have a task that will flush them, however the   *)
(* commit that left them, and those inside it, ended.  Two known ways to   *)
(* lose a root's callback are left out: its tree is thrown away by a ping  *)
(* when a task is about to commit it, or the error of another root unwinds *)
(* it.                                                                     *)
(***************************************************************************)
PendingWorkIsScheduled ==
  stack = <<>> =>
    /\ \A r \in Root \ forgotten : pending[r] # {} => Scheduled(r)
    /\ passiveRoot # Null => passiveTask

(***************************************************************************)
(* The same for every root: work on a root continues despite the uncaught  *)
(* errors of others, and despite pings.                                    *)
(***************************************************************************)
OtherRootsContinue ==
  stack = <<>> => \A r \in Root : pending[r] # {} => Scheduled(r)
=============================================================================
