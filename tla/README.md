# Specifications of React's scheduling and update core

TLA+ modules, model-checking runs and machine-checked proofs for the parts of
this repository (React 16.8/16.9-alpha, `src/react/packages`) in which the order
of events decides correctness: the cooperative scheduler and its hosts, the
reconciler from the queue of updates to the commit of a tree, hooks and children,
hydration, the server renderer, interaction tracing, roots with batches, and the
small state machines beside them (press events, touch responders, subscriptions,
the cache). `PROJECT.json` maps every definition to the lines it models.

- [Inventory](#inventory)
- [Modules](#modules)
- [Runs](#runs)
- [Bounds](#bounds)
- [Fairness](#fairness)
- [Proofs](#proofs)
- [Disagreements found](#disagreements-found)
- [What is not modelled](#what-is-not-modelled)
- [Plan](#plan)

## Inventory

JavaScript runs one event at a time, so there is no preemption. What makes the
system hard is (1) re-entrancy: user code runs in the middle of every loop and
calls back into the same module, or throws through it; (2) events of the host
(messages, frames, timers, promises, touches) in any order, stale ones included;
(3) work that is started, yielded, thrown away and started again, with state shared
between the old and the new attempt.

| Component | State | Operations | Hard behaviour | Correct when |
|---|---|---|---|---|
| Scheduler: list (`scheduler/src/Scheduler.js`) | circular doubly linked list of callback nodes | insert new, insert continuation, remove first, cancel any handle | stale handles, ties | ordered; continuations keep their turn |
| Scheduler: loop and context (same file) | performing, paused, host-callback flag, current priority, event start time, expiration | schedule, cancel, runWithPriority, next, wrapCallback, pause, continue, flushWork | re-entrancy, errors at any depth, pause in a flush | no lost wake-up, context restored, earliest first, every callback is eventually called |
| Browser host (`scheduler/src/forks/SchedulerHostConfig.default.js`) | request, deadline, frame time, message and frame flags | request, cancel, message, frame, timer, forceFrameRate | stale messages, late frames, throttled tabs | one chain of frames, an event on its way for every request, every request answered |
| Host without DOM (same file) | `_callback` and timers | request, cancel, flush timer, deferred request | requests made by a flush, reset after it | no request lost |
| Synchronous queue (`react-reconciler/src/SchedulerWithReactIntegration.js`) | array or null, Scheduler handle, flushing flag | scheduleSyncCallback, flushSyncCallbackQueue | flush in a flush, error in the loop, stale handle | nothing lost, repeated or overtaken; a non-empty queue is flushed eventually |
| Update queue (`ReactUpdateQueue.js`) | two queue objects per fiber pair sharing one linked list; effect lists | enqueue, enqueue captured, process, commit | updates during a render, aborted renders, priorities, a boundary processed twice | no update lost, deterministic settled state, callbacks called |
| Expiration times (`ReactFiberExpirationTime.js`, `ReactFiberWorkLoop.js`) | start of the current event | conversions, buckets, time of an update, inferred priority | rounding in descending time, clocks that move during an event | one event, one time; later never more urgent; the priority can be inferred |
| Roots (`ReactFiberWorkLoop.js`) | per root: pending times, callback node and time, finished work, timeouts; work phase | scheduleWork, renderRoot, commitRoot, flushSync, ping, retry | continuations, restart, suspended commits, stale callbacks | every pending time has a callback; the records agree with the tree |
| Batches (`react-dom/src/client/ReactDOM.js`) | list of batches, locked times, last unique time | createBatch, render, commit, root.render | commits in any order, times that must differ | batches are shown one at a time, in the order of commits |
| Fiber path (`markUpdateTimeFromFiberToRoot`, `resetChildExpirationTime`) | expirationTime and childExpirationTime of both alternates | mark, bubble | marking while a render recomputes | a path of marks leads to every pending update |
| Begin, complete and unwind work, contexts, Suspense and error boundaries (`ReactFiberBeginWork.js`, `...CompleteWork.js`, `...UnwindWork.js`, `...Throw.js`, `...NewContext.js`, `...Stack.js`) | fibers, one stack of values, exit status | a unit of work, throw, suspend, ping, retry, interrupt | restarts at any fiber, second attempts, hidden children | the stack is balanced; consumers are current |
| Class components (`ReactFiberClassComponent.js`, lifecycles of `ReactFiberCommitWork.js`) | one instance (props, state, snapshot) for the two fibers | mount, resume, update, setState, forceUpdate, derive state, lifecycles of a commit, unmount | the instance is assigned by renders that are given up; second attempts; state set from props | lifecycles see what is committed; the children show it |
| Finding the current fiber (`ReactFiberTreeReflection.js`, `findHostInstance`) | none: reads the fibers of both trees, writes return pointers | which of a fiber and its alternate is on the screen; its first host node | called between two units of a render, after one that was given up | it finds the node on the screen, and changes nothing a render reads |
| Effects and commit (`ReactFiberCommitWork.js`) | effect list, host nodes, pending passive effects | mutation and layout pass, flushPassiveEffects | deletions before the effects of children, moves, hiding | the host nodes are those of the tree; instances mount once |
| Hooks (`ReactFiberHooks.js`) | circular queue per reducer, base update, eager state, render-phase updates; two objects per effect | dispatch, update reducer, effects | eager state, skipped updates, aborted renders, bailouts | the state is the fold of the covered actions; effects are paired |
| Child reconciliation (`ReactChildFiber.js`) | none (pure), then the order of host nodes | keyed diff, placements, insertBefore | moves, empty slots, fragments | nodes follow the children, and keep their keys |
| Hydration (`ReactFiberHydrationContext.js`) | parent, next node, flag | enter, claim, pop, reset | mismatches, interruptions | the document ends as the client renders it |
| Interaction tracing (`scheduler/src/Tracing.js`, `ReactFiberWorkLoop.js`) | current set, counts, map of pending times | trace, wrap, schedule, render, commit | partial commits, pings, passive effects | each interaction is reported completed once |
| Server renderer (`react-dom/src/server`) | stack of frames, context slots by thread, module variables of hooks | read, destroy, renderToString | streams read in turns, errors, suspension, nesting | renderers do not see each other |
| create-subscription | source, value, unsubscribed | render, mount, update, emit | values between render and commit, changed sources | the settled value is the source's |
| react-cache (`ReactCache.js`, `LRU.js`) | circular list, map, size, limit | access, set limit, clean up | late clean-up, limit 0 | list and map agree; the last used stay |
| Press responder (`react-events/src/Press.js`, `DOMEventResponderSystem.js`) | press state, three timers, owner | each event of each device | timers racing with moves, owners, unmounting | every press ends, all of it |
| Touch responder (`events/ResponderEventPlugin.js`, `ResponderTouchHistoryStore.js`, `ReactNativeEventEmitter.js`) | responder, count and bank of touches | receiveTouches, scroll, selection | several touches in one call, refusals, views unmounted | one view at most has the lock, as long as it is touched |
| Controlled inputs (`events/ReactControlledComponent.js`, `ReactGenericBatching.js`, `react-dom/src/events/ChangeEventPlugin.js`, `client/ReactDOMInput.js`, `inputValueTracking.js`) | value of each node, what the tracker knows of it, queue of nodes to restore | user input, code clicks, state, commits, restore | events in events and commits, radios the browser unchecks, flushes before an event | inputs show their props; a change is reported once |
| Others | | | | see [What is not modelled](#what-is-not-modelled) |

How they interact: the reconciler schedules renders with the Scheduler, directly
or through the synchronous queue. The Scheduler asks its host for one call of
`flushWork` at a time (`requestHostCallback`, `cancelHostCallback`) and is called
back between other events. A callback is a render of one root at one time; it may
return a continuation, schedule more and throw. A render walks fibers, processes the
queues of class components and hooks, reconciles children, and leaves a tree with a
list of effects; a commit walks that list, changes host nodes, calls lifecycles,
callbacks and effects, which enqueue again.

```
 events -> update queues -> marks up -> root scheduling -> sync queue -> Scheduler -> host
           UpdateQueue      the tree    RootScheduler      SyncCallback-  Scheduler    HostConfigDOM
           HookQueue        FiberTree   ReactBatch         Queue          CallbackQueue  HostConfigNoDOM
           ExpirationTime      |        Tracing                           CallbackRing
                               v                                 contract between the two: HostCallback
                    render and commit of one root
                    WorkLoop, FiberTreeReflection, ClassInstance, HookQueue, ChildOrder, Hydration

 around it: CreateSubscription and ReactCache use updates and callbacks; Press and
 ResponderEventPlugin turn events of the host into events of components;
 ControlledInput takes back what events have done to nodes, after the updates;
 ServerRenderer renders the same components without fibers
```

## Modules

**CallbackQueue** is the abstract specification of the Scheduler's list: a
sequence of nodes numbered in order of creation, with one operation for each of
the four pieces of code that touch it. `PlaceOfNew` and `PlaceOfContinuation`
are the two searches, which differ only in `>` and `>=`.

**CallbackRing** is the same list on `firstCallbackNode`, `next` and `previous`.
`Ring` reads it from the first node, and `ImplementsQueue` is the refinement
under `queue <- Ring`.

**HostCallback** is the contract between Scheduler.js and a host: one request at
a time, replaced only between flushes and made again only at the end of one;
the call of flushWork consumes it; "timed out" is said only when it is true.
Three modules implement it, one from the client's side and two from the host's.

**Scheduler** extends CallbackQueue. JavaScript's call stack is a variable:
`stack` holds the locals saved by every `flushWork`, `flushFirstCallback` and
`runWithPriority`/`next`/wrapped call that has not returned, and user code may
call any operation when it is on top. Each loop test, call, return and throw is
a step. What is one step in the model has no user code inside in the program:
`flushWork` up to its loop (`HostFlush`), a loop test with the removal of the
first node and the assignment of the context (`FlushFirstCallback`), the end of a
callback with its finally block (`CallbackReturns`,
`CallbackReturnsContinuation`, `CallbackThrows`), and so on.
`scheduleHostCallbackIfNeeded` is always part of the operation that calls it and
reads the state that operation has left. The timed-out loop keeps the time it
read until its inner loop ends; reading the clock anew for each node differs
only in when the clock ticks. `turn` is a history variable: a continuation
inherits the turn of the callback it continues. Level 0 stands for a value that is
no priority level, which `unstable_scheduleCallback` and `unstable_runWithPriority`
treat differently: the first keeps it in the node, the second replaces it.

**HostConfigDOM** models the message port (a count of messages), the pairs of
animation frame and fallback timer (`frames`, `timers`, and `latest` for the two
globals that always name one pair), the deadline and the frame-rate heuristic.
The client is `isHostCallbackScheduled` with the guards of the contract; it may be
paused. A frame's timestamp may be up to `Lag` old.

**HostConfigNoDOM** models `_callback`, the pending flush timers and the pending
timers of deferred requests. `request` is a history variable, what the client
last asked for. **HostConfig** is the file with both: which host the scheduler gets is
decided when it is loaded (`hasDOM`). **HostClient** has what both know of the client.

**SyncCallbackQueue** models `syncQueue`, the handle and the loop index. The loop
calls a callback and, in the same step, decides on nothing else: while it runs
(a render and its continuations), other operations may be called. Of the
Scheduler it keeps the set of pending handles, with those that resume after an
error told apart because they call `flushSyncCallbackQueue` and not its `Impl`.

**RootScheduler** models ReactFiberWorkLoop.js above the fibers: the record of every
root (`roots`), the updates no commit has retired (`pending`), the render in progress
(`wip`), and JavaScript's call stack, whose frames stop wherever user code runs or a
call may come back to this module. What a fiber does is left out: a render covers the
updates that are pending at its time when it begins, and any of the later ones, and
completes, suspends or fails. Times count down from `Sync`; the clock is one too, and
an update of a level expires `Delay` after its event. Of the Scheduler it keeps the
set of tasks, run in any order between events, which is what `EveryCallbackIsTaken`
allows it to assume, and of SyncCallbackQueue the callbacks not called yet and the
fact that a queue that is not empty will be flushed (`WillBeFlushed`). A handle is the
identity of a task and may be used again when nothing refers to it; a continuation
becomes a task whose handle its root does not know, as in Scheduler.js. An error of a
commit unwinds the stack to the innermost handler, and every `runRootCallback` on the
way runs its finally block (`ErrorUnwinds`). `forgotten` is a history variable, the
roots that lost their callback in one of the two ways described under
[Disagreements found](#disagreements-found). `batchedEventUpdates` is taken as
`batchedUpdates`, from which it differs only in what it lets `flushDiscreteUpdates` do.

**ReactBatch** is one concurrent root with its batches: `createBatch`, `render` and
`commit` of each, `root.render`, and the tasks that render the root. A render and its
commit are one step. Times are expiration times, counted down from
`MAGIC_NUMBER_OFFSET`: `clock` is what `now()` reads, `currentEventTime` what new
updates take for it, which renders of this root and of others reset
(`requestCurrentTime`). A synchronous render of work that has expired restarts at the
current time (`Restarts`, `RenderTime`), as `flushRoot` always may and a task that timed
out does. `known` is a history variable, the things that have happened which the code
gets wrong ([Disagreements found](#disagreements-found)).

**ExpirationTime** has the conversions of ReactFiberExpirationTime.js as operators on
integers, with the sizes of units and buckets as constants, and the machine around
them: a clock, the start of the current event, updates at each priority, and a render
whose time an update may not take (one unit less is given instead).

**UpdateQueue** models one fiber pair. The two queue objects are `queue[1]` and
`queue[2]`; `updateQueue[side]` says which one a fiber has, so sharing is
explicit. Updates are numbers in order of creation, a state is the sequence of
updates applied, so every property about states is about which updates are in it
and in what order. Around ReactUpdateQueue.js the module keeps what decides
which queue is used: `createWorkInProgress` (`BeginRender`), the bailout, the
marking of both alternates by an update, an error captured at this boundary
(`CaptureError`, after which the boundary begins again), a render that is given
up (`Abandon`, or another `BeginRender`), and the commit.

**FiberTree** has the tree of fibers and the operations every phase applies to it:
alternates, `createWorkInProgress`, cloning of children, the marking of a path and the
recomputation of the times of children, and the walks over siblings and returns.
**WorkLoop** extends it with the render and commit of one root, a unit of work at a
time: `beginWork` for the root, classes, host elements, fragments, Suspense
boundaries, providers and consumers, each with its bailout; `completeWork` with the
effect list; `throwException` and the unwinding of both kinds of boundary; the one
stack of values; the mutation and layout passes on host nodes and instances. The
program that is rendered is a table from elements and states to children and outcomes.
**FiberTreeReflection**, between the two, is the search for the current one of a fiber and
its alternate: up both branches of return pointers until they part or meet, and then down
to the first host node, setting return pointers on the way. WorkLoop calls it for any
mounted instance at any time, a render in progress included (`findHostInstance`).

**ClassInstance** is a class component between a parent that passes it props, or stops
rendering it, and a child that may throw. Its two fibers share `instance`, which every
render assigns and `leave` leaves with what was rendered or reused. `shouldUpdate`,
`sameAsBefore` and `Effects` are the conditions of `updateClassInstance`; a component that
is begun a second time while it mounts takes the same path, as `resumeMountClassInstance`
differs only in the tag it sets. Props and states have an identity besides their value,
because the code compares objects. A class says which lifecycles it has: the new ones
exclude the old ones, which set state from the props in the middle of a render. Updates
are in one queue for each fiber, skipped and rebased as in UpdateQueue, whose sharing is
left out here. `call` is the lifecycle that was called last, and `settled` a history
variable, the changes of the state in order.

**HookQueue** is a function component with a reducer and an effect, from mount to
unmount: the shared circular list, the base update, eager states, render-phase
updates with their limit, bailouts, renders that are given up, and the two objects
through which an effect is created and destroyed.

**ChildOrder** is `reconcileChildrenArray` (and the single child) slot by slot, and
the commit that inserts and removes nodes one at a time with `getHostSibling`.

**Hydration** walks a tree of fibers of the first render against a tree of the
server's nodes: claiming, the second try with the next sibling, insertion, deletion
of what is left over, `popHydrationState`; and then commits. **Tracing** follows the
interactions of one root through `trace`, `wrap`, the map from pending times to
interactions, renders that take several times at once, commits and passive effects.

**ServerRenderer** has several `ReactDOMServerRenderer`s with their stacks of frames,
the thread IDs they take and give back, the slots of contexts and the module variables
of the hooks. **CreateSubscription** is the class component that createSubscription
returns, with the part of the update queue it uses: updates of several priorities, of
which a render skips some and the next one is rebased. `workTime` is the expiration time
of its fiber; `overNone`, a history variable, records that an update of `subscribe` was to
go over a base state without a source (the exception named below). **ReactCache** is the circular
list and the map of entries, with the idle clean-up.

**Press** has every event the press responder handles, on a browser with pointer
events and on one without, with timers, ownership by another responder, disabling
and unmounting. **ResponderEventPlugin** has the responder lock of native touches:
`receiveTouches` is a step for the call, which changes what is on the screen, and one
for each event it dispatches. Views are given with their ancestors. The place of a
handler's answer is a choice of which of the asked views wants the lock, and of
whether the responder lets it go. `grants` and `fromTouch` are history variables: the
grants a view has not lost, and whether the lock was taken in a touch.

**ControlledInput** has the inputs of one component: a checkbox, a text, a select or a
group of radios, controlled or not. What the browser does before it dispatches an event is
part of the event's action. `stack` is the call stack of events, batches and commits, in
which handlers and layout effects set state and click; rendering is one step, which takes
the last update of sufficient priority. Types of nodes differ as the code makes them
differ: a select has no tracker, a checked property is assigned even when it is the same.
`missed` is a history variable: a radio was clicked while another of its group was being
handled.

Some modules are checked together, in one run, though they share nothing: `MC*`
modules give the constants their values, and **MCScheduler**, **MCCallbacks** and
**MCQueues** also put components side by side. A variable `component` picks one of
them at the start, and a behaviour is a behaviour of that one. A property of one component holds
trivially in the behaviours of the others, and the number of states of the run is
the sum. The `.cfg` files name what is checked. Operators with a comment "Mutant" are
mistaken variants of the definition after them and are used by no specification: they
exist to show that each property can fail.

## Runs

Runs that pass:

| Run | Config | Components | Distinct states |
|---|---|---|---|
| scheduler | MCScheduler.cfg | Scheduler, Press, CreateSubscription, ServerRenderer, Hydration, Tracing, ReactCache, ReactBatch, ResponderEventPlugin | 1 168 402 |
| callbacks | MCCallbacks.cfg | HostConfig (HostConfigDOM, HostConfigNoDOM), CallbackRing, Scheduler (liveness), SyncCallbackQueue | 42 939 |
| queues | MCQueues.cfg | UpdateQueue, HookQueue, ChildOrder, ExpirationTime, ControlledInput, ClassInstance | 956 749 |
| root_scheduler | MCRootScheduler.cfg | RootScheduler | 3 131 883 |
| work_loop | MCWorkLoop.cfg | WorkLoop with FiberTree and FiberTreeReflection | 313 054 |

Runs that find something the repository says and the program does not do
([Disagreements found](#disagreements-found)): `roots_continue`, `effect_list`,
`captured_rebase`, `current_fiber`, `moved_effect`, `press_end`, `server_hooks`.

What the properties say:

Scheduler and its hosts

- `NoLostWakeup`: pending callbacks, no work being performed and no pause mean that
  the host holds a request that times out no later than the earliest callback. It
  is about every exit of flushWork, cancellations of the first node, errors in
  handlers inside and outside a flush, and pause/continue.
- `RequestIsKnown`: the host holds no request the flag has forgotten, and none
  while work is performed.
- `TakesTurns`, `StartsEarliest`: order of the list and of the calls.
- `ContextRestored`: priority, event start time, expiration and the timed-out flag
  are what the stack says, however it was unwound.
- `TypeOK` (scheduler run) and `DOMTypeOK` (callbacks run): the types of Scheduler and of
  HostConfigDOM, whose frame time must not fall below its minimum. Those of
  SyncCallbackQueue are proved (`SyncTypeOK`).
- `OneFrameChain`: a frame and its fallback timer are pending together and only the
  latest pair, which is what makes two global identifiers enough.
- `WakeupOnTheWay` (both hosts), `WillBeFlushed`: something that is coming will look
  at the request, or at the queue.
- `ImplementsContract`: in the scheduler run, the client's side of HostCallback; in the
  callbacks run, the side of both hosts. `ImplementsQueue`: the ring is the list, with
  links of exactly the nodes that can be reached, so `next === null` tells a stale handle.
- `NothingDropped`: started callbacks followed by the remaining ones are all the
  scheduled ones in order.
- `EveryCallbackIsTaken`, `RequestAnswered` (liveness): every callback is taken from the
  scheduler's list or called by the synchronous queue; both hosts answer every request.

Roots, updates, trees

- `RecordsAgree` is the type invariant of RootScheduler and that firstPendingTime is the
  most urgent pending time and lastPendingTime no more urgent than any, although
  commits compute them from the tree while updates of effects, errors and retries mark
  them.
- `PendingWorkIsScheduled`: between events an update that is not committed has a
  task, a synchronous callback or a timer, which will find something to do; and passive
  effects that wait have their task, which a commit schedules only when it returns, after
  renders and commits nested in it that may throw. It is about every record of a callback
  that is kept too long, so that nothing new is scheduled, or cleared too early.
- `TimesAreRight`: updates of one event and priority have one time, unless the render in
  progress has taken it; a later one is never more urgent; and the priority and the
  start that are inferred from a time are those of the update, up to the rounding.
- `BatchesAreSeparate`: every commit of a batch shows that batch and no other, also when
  times pass between rendering and committing, outside the five cases listed under
  [Disagreements found](#disagreements-found).
- `NoUpdateLost`: for either fiber, base state and list together are every update
  ever enqueued, in order, which is the sentence of the comment at the top of
  ReactUpdateQueue.js about dropped updates; and a pending update is known to the
  expiration time of its fiber. When nothing is pending, the state is what all updates give
  in order, however renders interleaved, and their callbacks have been called once
  (`SettledState`, `CallbacksCalled`). `RendersByPriority`: a render shows exactly what its
  priority covers. The settled state and the renders are those of ordinary updates only. A captured error can reach a base state
  without a commit: `enqueueUpdate` gives a current fiber without a queue a clone of the
  work-in-progress one (ReactUpdateQueue.js:249-252), which an unfinished render may have
  advanced.
- `MarksReachUpdates`: every fiber above a pending update, and the root, know of a time at
  most as late. `CommitProcessesUpdates`: a commit has applied every update of its
  priority that was there before the render began.
- `StackMatchesPath`: the one stack of values holds what the fibers on the path to the
  unit of work have pushed, whatever was thrown or interrupted before, and the exit
  status is that of this render.
- `HostMatchesTree`: between commits the nodes of the document, what is hidden of them
  and the mounted instances are those of the current tree.
- `FindsCurrentInstance`: of a fiber and its alternate the one on the screen is found, in
  the middle of a render and after one that was given up too, and none for an instance that
  has not mounted or has left. It holds until a boundary suspends
  ([Disagreements found](#disagreements-found)).
- `ConsumersAgree`: a consumer on the screen shows the value its provider was last given.
- `LifecyclesAgree`: a lifecycle that a commit calls sees as `this` the props and state that
  are committed, or leave with the component, and a snapshot of what this commit has
  replaced (`LifecyclesSeeCommit`). Between commits the children show the props and state
  of the component, and state derived from props is derived from these; a component is
  told of a commit that changes what it shows, and of none for which it was not rendered
  (`ShowsWhatIsCommitted`). What componentWillReceiveProps derives is only required once no
  update is left: it sets state like any update, so it is kept behind one that is skipped,
  and a more urgent render that leaves out both shows the new props with the old derived
  state. That takes three priorities and three renders, one time more than the run has; the
  comment in ReactUpdateQueue.js, that the state in between may vary, allows it.
- `RebasedState`: what a function component shows is the fold of the actions its
  renders have covered, eager or not, and no render-phase update outlives its render.
  `EffectsPaired`: an effect is destroyed once for each time it was created.
- `NodesFollowChildren`: after the commit the nodes are in the order of the children, and a
  child whose key and type were there before has kept its node.
- `HydratesAsRendered`: hydration ends with the nodes the client renders, in order; no
  operation on the DOM fails, and no node serves two fibers. If the server's nodes match,
  every one is adopted.
- `InteractionsComplete`: no interaction is reported while work for it is left or runs,
  and each has been reported once when nothing is left.

Beside the reconciler

- `RequestsAreSeparate`: a renderer reads the contexts of the providers around it
  (`ContextsAreOwn`), and a component its own states (`StatesAreOwn`), whatever other
  renderers did or left behind; states as far as components that use hooks neither throw
  nor suspend nor render to a string (`HooksRunThrough`, true of the elements of this run;
  `server_hooks` is about the others).
- `ShowsCurrentValue`: once nothing is pending, a subscription is subscribed to the source
  it was given and shows its value. Of a source that cannot be read, any value of that
  source; without a source nothing, except after `overNone`.
- `KeepsLastUsed`: the list is in the order of use in both directions, the map has exactly
  its entries, and a clean-up leaves those used last.
- `PressesEnd`: every press ends, with what it started taken back, and nothing of it
  happens in a later one.
- `InputsAreControlled`: when nothing runs any more every controlled input shows what its
  props say, whether handlers accepted a change, refused it or did it to another input,
  and what its tracker knows is what it shows (`InputsShowProps`); a handler is told of a
  change, and of nothing that is not one, outside the cases listed under
  [Disagreements found](#disagreements-found) (`ChangesAreReported`).
- `LockFollowsTouches`: one view at most has been granted the responder lock and not lost
  it; counts and records are those of the screen between two calls; a lock taken in a
  touch lasts no longer than the touches that began inside of the view.

`CHECK_DEADLOCK FALSE` is set where the bounds end the run (created nodes, clock,
updates, batches) or where an environment may stop for good (a press on an unmounted
element, a document that is hydrated).

## Bounds

- Nodes: 5 on the ring (ties on both sides of an insertion and an unlink between
  them), 3 in the scheduler (one running, one continuation, one behind).
- Nesting of calls in the scheduler: 2 frames (a callback of a flush and a handler inside
  it, or two nested handlers), also in the liveness run, which has 2 callbacks. The
  theorems about its safety have no bound.
- The clock of the scheduler run: 0 and 1, with timeouts -1, 1, 1, 2, 5 that keep
  the order of the real ones, so immediate callbacks have always expired, some
  expire, some never do. Priority levels 0 and 1 are scheduled explicitly and
  level 0 counts as normal for its timeout; the liveness run uses levels 1 and 3.
- Host: time 0 to 4 with frames of 1 to 3, timestamps up to 1 old, at most two
  messages in the port. Two frame identifiers are enough to see a second chain
  begin. Requests are made with absolute times -2 (already over) and 2. The value
  -1 is left out: the code uses it for "no timeout" too, so a request for time -1
  (immediate priority at time 0) counts as one without timeout and waits for a
  frame (line 202 of the host).
- Timers of the fallback host: four of each kind.
- Synchronous queue: four callbacks and six Scheduler handles, enough for an error
  in a queue that is not at its end, twice, and a stale handle.
- Roots: two, so that one can be rendered or fail inside a call of the other; two
  updates, one render that suspends, one handler; times 1 to 4, so that there are two
  asynchronous times below the first clock reading and one task that expires. One
  level is enough, since the levels differ in their delay only and an update may
  always be synchronous. `roots_continue` has three updates, which the case needs,
  three times, no suspension and no handler.
- Work loop: four programs, chosen by the first update of the root (a boundary that
  updates, one that mounts with a component in its fallback, an error boundary, a
  context with a component in between that has no reason to render), two times and three
  updates: one that mounts, and two that meet. `current_fiber` takes the first program only.
- Update queue: three updates, one of them possibly captured, two priorities. Two
  updates of different priority give the rebase; the third gives the append to a
  rebased list, the second pass and the captured error.
- Class instances: a pure class with the new lifecycles, a pure one with the old ones, and
  one that has a snapshot and always renders; two values and the absence of the component,
  two times, two updates and three renders, so that one is committed, one is given up or
  fails and one is committed after it. Updates that lifecycles make have no bound.
- Hooks: a reducer with a render phase of its own and `RE_RENDER_LIMIT` 2 (the code's is
  25); three updates for a component without effect, one with a passive effect, none with
  a layout effect (its effects still change when the parent renders); two values of the
  dependencies. `moved_effect` lets the parent move the component. `EffectsArePaired` is
  the theorem without these bounds.
- Children: every pair of rows of up to three slots, empty, unkeyed, keyed, or a fragment of
  two elements in either order, those of up to two slots with an element of another type.
- Times: units of two and buckets of two units and of one, so that a clock of 0 to 6
  crosses the limits of both; two updates. The theorems have no bound on the sizes.
- Batches: three, three renders, a clock of four readings and buckets of two units, with
  no delay beyond the rounding: batches of one bucket and of two, and the time of a batch
  may pass before it is committed, alone or with that of another. A render and its commit
  are one step. What follows one of the five cases that the property leaves out is
  followed no further than one render (`BatchesToFollow`).
- Hydration: every forest of up to three fibers with at most one component, and those of
  four in which a component has two children; every markup of up to three nodes with at
  most one comment, beside up to two fibers; the render may be interrupted at any fiber, any number of times.
- Tracing: two times, two interactions, one wrapped callback, two updates, two frames.
- Server: two streams and a renderer inside a component; thread IDs grow from 2 to 4, so
  that the allocator grows and slots are used again. `enableSuspenseServerRenderer` is
  taken as on; in Hydration the flag for dehydrated boundaries is off.
- Subscriptions: a source that can be read ("A"), one that also calls back when it is
  subscribed to ("B"), a promise, which cannot be read or left ("C"); two times, one value
  of each beside the initial one, three pending updates.
- Cache: three keys, limits 0 to 2 (and its changes), six entries ever created.
- Press: a browser with pointer events and one with touch and mouse; three timers are
  started at most, and two changes of the owner.
- Inputs: three forms: two radios of a group, controlled or not, beside a checkbox, and a
  text with a select; two values of a text; three events or
  batches, two updates, an event inside of an event. Legacy and concurrent roots.
- Touches: two fingers; four views, one nested two deep, one beside it.

## Fairness

Liveness is checked in MCCallbacks (`CallbacksFairness`); every conjunct is about the
component that runs.

- Scheduler: the host answers an outstanding request infinitely often enabled
  (strong fairness, because every new request disables and enables the call);
  this is what `RequestAnswered` of both hosts shows. flushWork's loop does not
  stop by itself, and user code at each depth returns or throws. Nothing is
  assumed about how often the host yields, about time, or about what callbacks do.
- Browser host: messages and due timers are delivered, flushWork ends, time
  passes. Animation frames are not assumed to come.
- Host without DOM: timers are delivered and flushWork ends. The flush timer needs
  strong fairness, since cancelling resets what it is waiting for.
- Synchronous queue: the Scheduler runs one of the pending handles
  (`EveryCallbackIsTaken` of the scheduler), and renders end.

Elsewhere "it happens in the end" is stated as safety: something that is coming will see
to it, or once nothing is left, all has happened.

## Proofs

The proofs are checked by tlapm for every value of the constants that meets the
named assumptions: finitely many nodes are ever created, timeouts are integers and
`Expirations` holds every sum of a start time and a timeout, `NoRequest` and `Null`
are not integers or sequences, units and buckets are positive, views have transitive
ancestors, elements have children that are elements and update a state only after they
asked for it, the array of thread IDs begins with two entries or more, touches, roots and
the times of a traced root are finitely many, the devices of a browser are the four that
Press knows and it may have at least one timer, `Null` is no entry of the cache and its
limits are natural numbers, the expiration times up to the clock's last
reading, one delay and one bucket further, are positive, no source of a subscription is the mark that stands for any or for none and its updates have
positive times, the `Nil` of hooks is no state, action, dependency or number, and there are
a value for a component's props and a time, and `None` and `Absent` are neither a fiber nor
props nor a value.

- **SchedulerProofs**, the list: `QueueStaysSorted`. The searches return the first
  position that passes the test (`PlaceOfNewIsFirst`, `PlaceOfContinuationIsFirst`),
  so inserting there keeps a sorted list sorted; removing keeps it, and a new node
  is not in the list because its number is new.
- **SchedulerProofs**, the rest: the inductive invariant is
  `IInv == Base /\ Turns /\ Wakeup`. `Base` is the type invariant, the sorted list
  and `StackShape` (a flush frame is at the bottom or absent, a callback frame is on
  a flush frame, `isPerformingWork` says whether there is one): without the shape
  nothing is known of the frame a throw unwinds to. `Turns` adds to `TakesTurns` that
  turns are of nodes created before (`TurnsBounded`) and that the running callback
  precedes everything pending (`AfterRunning`), which is why its continuation may go
  ahead of its equals. `Wakeup` is `NoLostWakeup` and `RequestIsKnown`, inductive
  only together. Each lemma `StepKeeps...` has a step for every action.
  From it follow `SchedulerTypeOK`, `SchedulerNoLostWakeup`,
  `SchedulerRequestIsKnown`, `SchedulerTakesTurns`, the action property
  `SchedulerStartsEarliest`, and the refinement `SchedulerImplementsContract`.
  `SchedulerContextRestored` is a second invariant on top of it: what user code sees is
  restored from the frames, so it says of every frame what it has saved.
- **CallbackProofs**, the synchronous queue: `IInv == TypeOK /\ WillBeFlushed`, giving `SyncTypeOK`
  and `SyncWillBeFlushed`. The type invariant contains the fact the loop needs: while
  flushing, the queue exists and the index is inside it. `SyncNothingDropped` adds
  places: the last callback of the queue is the last one scheduled, and the number of
  started callbacks and the index move together.
- **RootSchedulerProofs**: `RootRecordsAgree` and `RootPendingWorkIsScheduled`, for any
  finite set of roots and any depth of calls, from `Sync > 1` and a `Null` that is no
  tree and no callback. The inductive invariant (`RootInvariant`) has four layers, each
  inductive only with those before it.
  - `Base`: the types of every record, task and call, the shape of the call stack (which
    call may lie on which, handlers at the outside) and `RecordsAgree`; the render in
    progress covers only updates that are pending. Marking, rendering and committing keep
    the first and last pending time in place because of what a tree contains.
  - `Evidence`: for each root that is not forgotten, pending work has something coming: a
    task, a synchronous callback, a timer, or a call on the stack that will render or
    commit it or schedule the rest when it ends. A callback that is recorded has such a
    thing of its own, which is why `scheduleCallbackForRoot` may leave it alone.
  - `Settling`: a render that waits for passive effects, and would then throw away a
    finished tree though its own time is no longer pending, has a call above it that
    commits or replaces that tree first. Without it the tree could be lost.
  - `Passive`: passive effects without a task have a commit on the stack that is at its
    end and schedules the task, and nothing above it that could throw.
- **CallbackProofs**, the hosts: `HostTypeOK`, `HostOneFrameChain`, `HostWakeupOnTheWay` and
  `HostImplementsContract`, for whichever host is chosen, from `HostInv == DOMInv /\ NoDOMInv`.
  In the browser (`DOMInv`) each is
  inductive only with the others: that a request has an event coming rests on the one
  chain of frames, and that the chain is one on its flag. The invariant of the other host
  (`NoDOMInv`) adds that no request is recorded while a callback is called
  (`NoneWhileCalling`).
- **QueueProofs**, times: for all sizes, `BucketBounds` (a bucket ends after the
  expiration asked for, at most its size later) and `BucketsAreMonotone`, from lemmas on
  quotients; `EventsAreBatched` and `PrioritiesAreInferred`, from the invariant that
  every update keeps the time that belongs to the start of its event; together they
  are `TimesAreAlwaysRight`.
- **QueueProofs**, effects of hooks: `EffectsArePaired`, that `EffectsPaired` holds for any
  actions, dependencies, times and renders, aborted or not. An effect is two objects, that
  of the hook and that of the fiber's queue, for each of two fibers, and the property speaks
  only of those on the screen. The inductive invariant (`EffectInvariant`) says of the rest
  where the cleanup of the live effect is: both objects of a fiber that is on the screen or
  in progress have it (`OnScreen`, `InProgress`), and a fiber whose render was given up has
  none (`Abandoned`). Where the effect is to be created anew, at the end of a render or
  when a passive effect is yet to run, the two are one object and no object at all cleans
  up after anything else (`OnlyCleanup`): what is overwritten is what has been cleaned up.
  The hypothesis `MovesAreHarmless` excludes a passive effect in a component that its parent
  moves: there the tag of the move is enough for the code to lose the effect, as the run
  `moved_effect` shows.
- **QueueProofs**, class components: `LifecyclesAlwaysAgree`, that `LifecyclesAgree` holds for
  any classes, values and times and any number of updates, renders and errors. The property
  speaks of commits and of what is between them; the invariant (`InstanceInvariant`) of what
  renders leave for them. A first attempt begins with the committed props and state and no
  effects (`FirstAttempt`), so an instance on which a render that was given up has assigned
  others does no harm: what a finished fiber is to be told of, it has assigned
  itself (`Effective`). An attempt that follows an error compares with the one before it,
  but `changedSinceCommit` compares with the current fiber too, and that keeps the effect for
  whatever differs on the screen. The state of a fiber is not enough to say where its queue
  leads: `StateToCome` is the state once every update in it is applied, which a render does
  not change, whatever it skips (`BaseAndQueue`), and of which the changes are those
  of the application, in their order (`InSequence`). `Derived` says of componentWillReceiveProps
  that the state to come is derived from the props, or that an update it has set is still in
  the queue at a time for which the parent renders again. The state after a queue is a
  recursive function of it, so `StateRunsAgree` compares two runs over queues by the smallest
  position at which they would differ; appending to a queue, splitting it and what it
  preserves follow (`StateAfterAppend`, `StateAfterSplit`, `StateAfterIn`). Then
  there is a lemma for what each operation does to a fiber, and one for each step.
- **EventProofs**, touches: `LockFollows`, that `LockFollowsTouches` is an invariant for every
  tree of views and every finite set of touches. The property is about the state between
  calls. The inductive invariant tells what holds between the events of one: the count of
  touches lags behind the screen by those left to dispatch (`Counted`), the records catch
  up at the first event (`Recorded`), and a lock may still be there for a touch that has
  just left (`InsideOK`). `OutcomesAreLocks` is what the negotiation may end with, and
  that a handover only goes up the tree; transitivity of the ancestors does the rest.
- **EventProofs**, presses: `PressesAlwaysEnd`, that `PressesEnd` holds with every set of browsers
  and any number of timers and changes of ownership. Each function of the responder
  takes a record of the state and the timers to another, so there is a lemma for each
  about such records, and the actions put them together. The invariant (`PressInvariant`)
  says of the data that ids differ (`Distinct`; a fresh one exists because fewer than
  `MaxTimers + 3` are in use), that a timer which starts something is the recorded one
  of a press that has begun (`StartsOK`), that an active press is pressed or has a timer
  that ends it (`EndOK`), and that without a delay nothing ends a press while it goes on
  (`NoDelayOK`). `HeldOK` brings in the devices: the root's events are listened to only
  while the device of the press is down or its mouseup is still to come. That is the
  reason why a press is over when nothing is held.
- **PackageProofs**, tracing: `InteractionsAreCompletedOnce`, that `InteractionsComplete` holds for
  any number of interactions, wrapped callbacks, updates, times and nested calls. The
  count is a sum kept by hand in seven functions; `CountsHold` says what it is the sum of:
  the calls that began with the interaction, the wrapped callbacks that wait, and the times
  at which the root has it pending. `CompletedAtNone` needs that a count never rises from 0
  again, so `ScopesAreHeld` follows what is traced through the calls: each interaction a
  call traces is held by a call around it, or is memoized for a render, commit or flush of
  passive effects, and then still pending at some time (`MemoizedArePending`).
  `UpdatesArePending` keeps finishPendingInteractions from taking what an update needs, and
  `NoneAbove` says that it leaves nothing behind, without which the last interaction would
  never be completed.
- **PackageProofs**, the cache: `CacheKeepsLastUsed`, that `KeepsLastUsed` holds for any
  entries, keys and limits. The invariant (`CacheInv`) is that the pointers link, in both
  directions, exactly the entries of the history of uses, in its order (`IsList`), and that
  the map has each of them once (`CachedOnce`). `AppendedIsList` and `UnlinkedIsList` say
  what putting an entry in front and taking one out make of a list, wherever it was. A
  clean-up is a recursive function of the number of deletions; what it returns is given
  in a closed form (`Cut`), which one more deletion takes to the next (`CutOneMore`), and a
  least counterexample does the rest (`DeletionsCut`).
- **PackageProofs**, subscriptions: `SubscriptionsShowCurrent`, that `ShowsCurrentValue`
  holds for any sources, values, times and pending updates, from `NoSource` and the mark of
  updates that do not look at the source being no sources. Where the queue leads is a
  recursive function of it; its closed form is `AppliedIsAfter`: the value is that of the
  last update that counts, or of the base state. Which update that is depends on the
  priority of the render. What makes every render end at the same value is that a queue
  fits (`QueueFits`): of each source, the values are in the order in which it emitted them.
  So if a render shows what can be read now, updates it skipped cannot be of another value
  (`SkippedAgree`), and the base state with what is left leads where the old one led with
  all (`RestFits`, `RestCounts`). The invariant (`SubscriptionInv`) is that a mounted
  component's queue leads to what its source has now (`OnTrack`), and that a tree which is
  rendered does so too or else is looked at by the commit, because it has another source
  or shows another value (`DoneFits`). `ProcessedIsFit`, `EmissionTracks` and `CommitFits`
  are the steps: what a render leaves, what a source emits in between, and what
  `subscribe` adds.
- **ReactBatchProofs**: `BatchesStaySeparate`, that `BatchesAreSeparate` holds for any number
  of batches, renders and times. The invariant (`BatchInv`) is about behaviours in which
  nothing of `known` has happened. The deferred batches are the list that the links make, in
  descending order of times that differ (`IsBatchList`; the lemmas `ListFollows`,
  `ListInserts` and `ListRemoves` say that the links of the code find, extend and shorten
  it). What a deferred batch has rendered is an update at its time (`UpdatesOK`) that is
  still to be applied (`Waiting`), so nothing that is shown is of one (`ShownOK`). A finished
  tree that is locked waits at a time below Sync, for which the root has no callback
  (`FinishedOK`); otherwise a callback covers what is pending unless a batch locks
  the root (`PendingOK`). A commit applies the updates of its batch and of times above it,
  and since times differ and the batch is first, of no other batch: `CommittedKeeps` says so
  of the root alone, `RenderKeeps` and `FlushedKeeps` of the steps that render. They do so
  at `CommitTime`, the time that was asked for or the current one after a restart: a lock
  holds at either, and a flush that restarts reaches no other batch unless it is known to
  (`NotExpired`). That a batch
  in the middle can be moved to the front and take the time of the first rests on the
  update that comes last at that time being its own.
- **ServerRendererProofs**: `RequestsStaySeparate`, that `RequestsAreSeparate` holds for any
  trees of elements, streams, contexts and nested calls of renderToString. The invariant
  (`ServerInvariant`) has four parts. `ThreadsOK`: the array of the allocator links some
  list of free IDs without a repetition (`IsFreeList`), and renderers that are alive have
  others, each its own; growing, taking the first and giving one back keep it so. `SlotsOK`:
  the stack of contexts has one entry for each provider among the frames, in their order
  (`StackMatches`), and each remembers what the nearest provider outside of it provides;
  hence popping one and clearing all of them restore the right values, and clearing from
  the inside out is what it takes. A slot whose ID no renderer has holds the default, which
  is what the next renderer with that ID relies on. `CallsOK`: the calls of read() are of
  different renderers, and each remembers the thread of the one around it. `HooksOK`, where
  components run through: only the innermost call may be of a component with hooks, and the
  module variables are as new or fit how far that component is and how often it was called
  (`HooksOf`). The lemmas say of each operation what it keeps, first of the data alone
  (`PushesCore`, `PopsCore`, `FreesCore`, `AllocatesCore`), then of the action.

Only model-checked: all liveness properties and anything about ENABLED (out of the
prover's reach), the refinement of the list by the ring (its mapping is a recursive
function of the heap), UpdateQueue (`NoUpdateLost` speaks of a recursive
walk), WorkLoop, the states of HookQueue, ChildOrder, Hydration and ControlledInput.

## Disagreements found

With a run:

- `effect_list`: an error boundary that processes its queue twice in one render can
  make the effect list circular, after which `commitUpdateEffects` does not end. The
  comment at ReactUpdateQueue.js:502 takes care of effects of an aborted render, but
  not of an update that is already the last effect.
- `captured_rebase`: the comment at ReactUpdateQueue.js:637-640 says that captured
  updates are kept to be rebased over lower-priority ones; the condition below it
  looks at a field that is null by then.
- `roots_continue`: renderRoot and commitRoot flush passive effects first. An error that
  another root throws in there unwinds the render that has not begun, and
  `runRootCallback` clears the record of its callback: the root's update stays pending
  with nothing scheduled. The test "continues work on other roots despite uncaught
  errors" (ReactIncrementalErrorHandling-test.internal.js:973) has no passive effects.
- `current_fiber`: a boundary that suspends sets the return pointers of its current
  children to a fragment of the render in progress. When a ping throws that tree away they
  stay so, and the search for the current fiber of a component below answers with the
  abandoned one, from which findDOMNode goes down to what was rendered there last.
- `moved_effect`: a component that bails out and is moved by its parent has its old
  passive effect run again, destroyed twice and created without being destroyed.
- `press_end`: a press with a delayed end that leaves the region twice has two timers, of
  which coming back clears one; docs/Press.md says no end is called during a press.
- `server_hooks`: a component that throws after it used a hook leaves the module variables
  of the hooks as they are, against the comment in prepareToUseHooks. So does one that
  renders another tree to a string after it updated its state while it rendered: a
  component in that tree is then called again by its own `finishHooks` and its first hook
  returns the outer one's state (`Body` of a function `<<"useState", "update",
  "renderToString">>` around a component with a hook violates `StatesAreOwn`). This is why
  `RequestsAreSeparate` speaks of states where `HooksRunThrough`.

Seen while modelling, without a run of their own:

- Roots: a suspended render that is to be committed at once returns
  `commitRoot` as the continuation of its task. A ping that comes before the Scheduler
  runs that task throws the tree away (ReactFiberWorkLoop.js:2026-2030) and schedules
  nothing, because the record of the root's callback has the same time; the task then
  finds no tree. With `MaxSuspend = 1` this is the shortest counterexample of
  `OtherRootsContinue`. `PendingWorkIsScheduled` leaves both cases out by `forgotten`.
- Suspense: a boundary that commits its fallback forgets the times of updates that are
  pending in the children it hides (ReactFiberBeginWork.js:1808); firstPendingTime is then
  later than the earliest pending time in the tree, against the comment at
  ReactFiberRoot.js:68, until the boundary is retried. `MarksReachUpdates` therefore speaks
  of children that are shown.
- Finding the current fiber: the pointers of later children are not set by a boundary that
  suspends, so the answer is wrong for them after the fallback is committed too; and a
  component that suspends in its first render counts as mounted when the fallback is shown.
- Roots: a fatal error at the root in renderRoot (about ReactFiberWorkLoop.js:913-922) is
  thrown again without restoring the current set of interactions, against the comment at
  Tracing.js:67.
- Times: an idle update while an idle render is yielded gets one unit less than `Never`,
  which is `NoWork`, and is never processed (ReactFiberWorkLoop.js:322-326). One unit less
  can also put an update at the next lower priority, at the limit of a bucket.
  `currentEventTime` is cleared by asynchronous renders only (line 899): after nothing
  but synchronous ones later events keep the start of an old event, against the comments
  at 244-251 and 265.
- Batches: committing a first batch that renders nothing leaves it `firstBatch`, no longer
  deferred; later batches are not listed and what they lock is forgotten. The comment at
  ReactFiberWorkLoop.js:335-337 says that times are made unique only within one window
  of 200 ms; since times descend, the first batch of any later bucket is moved too, and
  the second one of that bucket gets an earlier time, goes in front of `firstBatch`
  without becoming it, and is committed with another batch, or its commit throws. A third
  batch of a bucket shares its time. Rendering at the time of a tree that is finished and
  locked commits that tree without asking for the lock (ReactFiberWorkLoop.js:831-834),
  where ReactDOM.js:267 says "This forces a restart". A batch that is committed after its time
  is over is rendered at the current time (ReactFiberWorkLoop.js:872-893), with everything
  else that has expired: another deferred batch that has rendered is then shown with it,
  and the lock does not stop it because the first batch is not deferred any more, against
  ReactDOM.js:259-261 ("so that we can flush it without flushing the other batches").
- Hooks: an eager state may be computed after `bailoutHooks` (ReactFiberHooks.js:499-509)
  from a state the comment at 1200 does not mean.
- Hydration: an element with direct text and additional empty children of the server keeps
  them. Errors while hydrating leave the hydration state deeper than the boundary, which
  the TODOs in ReactFiberUnwindWork.js (71, 87, 141) know.
- Tracing: cancelling a wrapped callback after it ran counts it twice, and running one
  twice may report an interaction twice.
- Subscriptions: an update for a source that cannot be read may be ignored for ever when it
  is rebased on the base state of an old source (createSubscription.js:122), and the plain
  `setState({value})` at 145 may show the value of another source for one render, against
  README.md:16 and 30 of the package. When the parent changes the source to null, that value
  may stay for ever: updates of an older source are skipped, the plain update is rebased
  over a base state whose source is null already, so that getDerivedStateFromProps resets
  nothing (70-82), and `subscribe` does nothing without a source. `overNone` is this
  exception; without it `ShowsCurrentValue` is violated.
- Cache: adding an entry over the limit schedules no clean-up; only reading one or
  changing the limit does.
- Press: after a change of ownership while the pointer is outside, a press may go on that
  nobody sees; without pointer events a mouse press may be ignored after a touch; a press
  that a disabled element was forced into is activated; events queued while the responder
  is unmounted are dropped.
- Inputs: in concurrent mode an update that is pending from an earlier event is flushed
  between the user's change and its event (`dispatchInteractiveEvent`), renders the
  input again, and may put the old value back before the event is looked at, which then
  finds no change. A click that code makes on another radio of a group, in a handler of the
  first one, goes unnoticed, because what is known of the radio the browser has unchecked
  is put right only when the first one is restored; an uncontrolled radio may then keep a
  wrong tracker (ReactDOMInput.js:372-398 looks at the other radios, not at the one itself).
- Touches: the diagram in ResponderEventPlugin.js (205-282) grants the lock after the
  request to give it up; the code grants it first (398), so that a view which is refused
  gets onResponderGrant and then onResponderReject. And the test for an end that was not
  counted (514) lets the count go to -1 before it complains.

## What is not modelled

- The mock host: a test double, driven by the tests; it says "timed out" when it likes.
- The rest of the event system (`events/EventPluginHub.js`, the plugins of react-dom):
  dispatch by data, pooling, the other DOM events; the plugins that keep a state between
  events are modelled.
- The other experimental responders (focus, hover, drag, swipe) and their nesting.
- The rest of the DOM host (`ReactDOMHostConfig.js`, `ReactDOMComponent.js`): attributes
  and text; reads and writes of the DOM without a protocol of their own. It and the
  tooling are most of the code that no definition maps to. Of controlled inputs: the
  browser's undoing of a click whose default is prevented, number inputs, default values,
  inputs mounted or removed by a handler, and the shims for old browsers.
- Lazy components (a cache of three states), other renderers (host configurations over
  the same reconciler), the public package (elements and thin dispatch), the lint rules,
  fresh, debug tools, and the demonstration applications.

Of the modelled components: unbatchedUpdates and flushControlled, Batched mode, idle and
offscreen work, errors at the host root, the counters of nested updates
(ReactFiberWorkLoop.js:1700), which effects are overwritten when a flush of passive
effects leaves others behind, what a commit does after an effect throws in the middle of
its pass, refs, portals, text children, memo components, legacy context and
changed bits, boundaries with componentDidCatch only, dehydrated boundaries, attributes
during hydration, class lifecycles on the server, thenables of batches, legacy roots,
the profiling hooks, development warnings, replaceState (which only
changes what a state is), several hooks of one kind in a component, hooks that keep a
value and no protocol, and places and times of presses and touches.

## Plan

In this order:

1. RootScheduler: which passive effects are pending (a commit flushes once, and may
   overwrite what that flush has left), liveness (an update is eventually committed if
   renders end and stop failing), the counters of nested updates. An abstract
   specification of a root (updates come in, commits retire those of at least a time)
   that RootScheduler and WorkLoop implement.
2. WorkLoop: memo and function components with the hooks of HookQueue, portals, refs,
   effects that throw, offscreen children, dehydrated boundaries with Hydration.
3. Proofs: the rebasing of HookQueue and of UpdateQueue, and the marks of WorkLoop.
4. The other responders with their nesting; inputs mounted and removed by handlers.
