------------------------------ MODULE WorkLoop ------------------------------
(***************************************************************************)
(* Rendering and committing one concurrent root, a unit of work at a time: *)
(* the work loop of ReactFiberWorkLoop.js with the begin, complete, unwind *)
(* and commit work it calls.                                               *)
(*                                                                         *)
(* `phase` is where the root stands.  "begin": workInProgress is the next  *)
(* unit of work, and the loop may yield before it.  "complete": the loop   *)
(* of completeUnitOfWork is at workInProgress.  "finished": the tree is    *)
(* rendered and not committed.  "mutation" and "layout": committing, at    *)
(* nextEffect.  Events and timers run in "idle", "begin" and "finished".   *)
(*                                                                         *)
(* The root scheduler decides when to render and at which time: here any   *)
(* time not later than the first pending one may be rendered, and a render *)
(* may be interrupted by one at another time (module RootScheduler).       *)
(***************************************************************************)
EXTENDS FiberTreeReflection

CONSTANTS
  Outcome,       \* what rendering an element in a state does: ok, throw, suspend
  Boundary,      \* classes with getDerivedStateFromError
  Payload,       \* for an element, the states it may be updated to
  RootState,     \* the first update of the root
  MaxTime,       \* bound: expiration times 1 .. MaxTime
  MaxUpdate      \* bound: updates scheduled

ASSUME WorkLoopAssumption ==
  /\ Root \in Element /\ TagOf[Root] = "HostRoot"
  /\ MaxTime \in Nat \ {0} /\ MaxUpdate \in Nat \ {0}
  /\ Nil \notin Fiber

VARIABLES
  fiber,
  current,               \* root.current
  firstPendingTime,
  workInProgress,
  renderExpirationTime,
  exitStatus,            \* workInProgressRootExitStatus
  phase,
  stack,                 \* the fibers whose values are on the fiber stack
  contextValue,          \* _currentValue of the one context
  nextEffect,
  dom,                   \* for a host element, the parent of its node
  hidden,                \* the host nodes hidden by a Suspense boundary
  mounts,                \* componentDidMount less componentWillUnmount calls
  resolved,              \* the one thenable has resolved
  pinged,                \* the render times it suspended, to be pinged
  retries,               \* the boundaries that listen to retry
  issued,                \* number of updates scheduled
  seen                   \* history: `issued` when the render began

treeVars == <<current, firstPendingTime>>
renderVars == <<renderExpirationTime, exitStatus, seen>>
hostVars == <<dom, hidden, mounts>>
thenableVars == <<resolved, pinged, retries>>
vars == <<fiber, treeVars, workInProgress, renderVars, phase, stack, contextValue,
          nextEffect, hostVars, thenableVars, issued>>

HostElement == {e \in Element : TagOf[e] = "HostComponent"}
ClassElement == {e \in Element : TagOf[e] = "ClassComponent"}
Time == 1 .. MaxTime

First(update) ==
  [NewFiber(Root, update.time, {}, Nil) EXCEPT !.queue = <<update>>, !.newProps = FALSE,
                                               !.stateNode = TRUE]

\* ReactDOM.render has scheduled the first update of the root.
Init ==
  /\ \E s \in RootState :
       fiber = [f \in Fiber |->
                  IF f = <<Root, 1>> THEN First([time |-> MaxTime, state |-> s, id |-> 1])
                  ELSE NewFiber(f[1], NoWork, {}, Nil)]
  /\ current = <<Root, 1>> /\ firstPendingTime = MaxTime
  /\ workInProgress = Nil /\ renderExpirationTime = NoWork /\ exitStatus = "Completed"
  /\ phase = "idle" /\ stack = <<>> /\ contextValue = Nil /\ nextEffect = Nil
  /\ dom = [e \in HostElement |-> Nil] /\ hidden = {}
  /\ mounts = [e \in ClassElement |-> 0]
  /\ resolved = FALSE /\ pinged = {} /\ retries = {}
  /\ issued = 1 /\ seen = 0
-----------------------------------------------------------------------------
(***************************************************************************)
(* The fiber stack.                                                        *)
(***************************************************************************)
Pushes(f) == \/ Tag(f) \in {"HostRoot", "SuspenseComponent", "ContextProvider"}
             \/ f[1] \in ContextElement

pushed(f) == IF Pushes(f) THEN Append(stack, [fiber |-> f, saved |-> contextValue]) ELSE stack

\* A host component pops only what it pushed; the others pop what they find.
Pops(st, f) == /\ Pushes(f) /\ st # <<>>
               /\ IsHost(f) => Last(st).fiber = f

popped(st, f) == IF Pops(st, f) THEN Front(st) ELSE st
restored(st, value, f) ==
  IF Pops(st, f) /\ Tag(f) = "ContextProvider" THEN Last(st).saved ELSE value

\* Mutant: the boundary's context is left on the stack.
ForgetsSuspense(path) ==
  FoldLeft(LAMBDA s, f : [stack |-> popped(s.stack, f), value |-> restored(s.stack, s.value, f)],
           [stack |-> stack, value |-> contextValue],
           SelectSeq(path, LAMBDA f : Tag(f) # "SuspenseComponent"))

\* The stack once the fibers of `path` are unwound, nearest first.
unwindInterruptedWork(path) ==
  FoldLeft(LAMBDA s, f : [stack |-> popped(s.stack, f), value |-> restored(s.stack, s.value, f)],
           [stack |-> stack, value |-> contextValue], path)
-----------------------------------------------------------------------------
(***************************************************************************)
(* Scheduling updates, and starting a render.                              *)
(***************************************************************************)
Yielded == phase \in {"idle", "begin", "finished"}
CurrentTree == Subtree(fiber, current)
Mounted == {f[1] : f \in CurrentTree}

\* markUpdateTimeFromFiberToRoot, called with an update queued or none.
MarkUpdate(F, f, time) ==
  /\ fiber' = markUpdateTimeFromFiberToRoot(F, f, time)
  /\ firstPendingTime' = IF ReachesRoot(F, f) THEN Raise(firstPendingTime, time)
                         ELSE firstPendingTime

\* setState of a mounted class: its instance keeps the fiber it was created
\* with.  Lifecycle methods called in the layout phase may update as well.
scheduleWork(e, time, s) ==
  /\ Yielded \/ phase = "layout"
  /\ issued < MaxUpdate /\ e \in Mounted \cap ClassElement
  /\ LET update == [time |-> time, state |-> s, id |-> issued + 1]
     IN  MarkUpdate(enqueueUpdate(fiber, <<e, 1>>, update), <<e, 1>>, time)
  /\ issued' = issued + 1
  /\ UNCHANGED <<current, workInProgress, renderVars, phase, stack, contextValue,
                 nextEffect, hostVars, thenableVars>>

prepareFreshStack(time) ==
  LET unwound == unwindInterruptedWork(Tail(Path(fiber, workInProgress)))
  IN  /\ stack' = IF workInProgress = Nil THEN stack ELSE unwound.stack
      /\ contextValue' = IF workInProgress = Nil THEN contextValue ELSE unwound.value
      /\ fiber' = createWorkInProgress(fiber, current)
      /\ workInProgress' = Other(current)
      /\ renderExpirationTime' = time
      /\ exitStatus' = "Incomplete"
      /\ seen' = issued
      /\ phase' = "begin"

\* Rendering at the time of the render in progress continues it: no step.  The
\* root's callback is replaced only by one of higher priority, so a render
\* gives way to a later time.  A tree that is finished is committed at its own
\* time, unless it failed, and gives way to a render at any other.
renderRoot(time) ==
  /\ Yielded /\ time <= firstPendingTime
  /\ phase = "begin" => time > renderExpirationTime
  /\ phase = "finished" => time # renderExpirationTime \/ exitStatus = "Errored"
  /\ prepareFreshStack(time)
  /\ UNCHANGED <<treeVars, nextEffect, hostVars, thenableVars, issued>>

Resolve ==
  /\ Yielded /\ ~resolved
  /\ resolved' = TRUE
  /\ UNCHANGED <<fiber, treeVars, workInProgress, renderVars, phase, stack, contextValue,
                 nextEffect, hostVars, pinged, retries, issued>>

\* The thenable pings the root: the render it suspended starts over, or the
\* tree waiting to be committed is thrown away.
pingSuspendedRoot(time) ==
  /\ Yielded /\ resolved /\ time \in pinged
  /\ pinged' = pinged \ {time}
  /\ IF phase = "begin" /\ renderExpirationTime = time THEN prepareFreshStack(time)
     ELSE /\ phase' = IF phase = "finished" /\ renderExpirationTime = time
                      THEN "idle" ELSE phase
          /\ UNCHANGED <<fiber, workInProgress, renderVars, stack, contextValue>>
  /\ UNCHANGED <<treeVars, nextEffect, hostVars, resolved, retries, issued>>

\* The thenable retries a boundary that was committed in its fallback state.
retryTimedOutBoundary(f, time) ==
  /\ Yielded /\ resolved /\ f \in retries
  /\ retries' = retries \ {f}
  /\ MarkUpdate(fiber, f, time)
  /\ UNCHANGED <<current, workInProgress, renderVars, phase, stack, contextValue,
                 nextEffect, hostVars, resolved, pinged, issued>>

\* An event handler or a lifecycle looks for the host node of a component.
findHostInstance(e) ==
  /\ Yielded \/ phase = "layout"
  /\ e \in Mounted
  /\ LET top == findCurrentFiberUsingSlowPath(fiber, current, <<e, 1>>)
     IN  top # Nil /\ fiber' = linkedByDrilling(fiber, top)
  /\ UNCHANGED <<treeVars, workInProgress, renderVars, phase, stack, contextValue,
                 nextEffect, hostVars, thenableVars, issued>>
-----------------------------------------------------------------------------
(***************************************************************************)
(* performUnitOfWork: beginWork, one action per kind of fiber.             *)
(***************************************************************************)
w == workInProgress
time == renderExpirationTime
mounting == ~fiber[w].alternate

\* The fiber enters the begin phase with its expiration time cleared.
entered == [fiber EXCEPT ![w].expirationTime = NoWork]

beginning(tag) == phase = "begin" /\ Tag(w) = tag
\* Mutant: work of exactly the time of the render is passed by.
TakesEqualForNone == ~mounting /\ ~fiber[w].newProps /\ fiber[w].expirationTime <= time

hasNoWork == ~mounting /\ ~fiber[w].newProps /\ fiber[w].expirationTime < time

\* Go on with the fiber `next`, or complete w if there is none.
goTo(F, next) ==
  /\ fiber' = F
  /\ IF next = Nil THEN phase' = "complete" /\ UNCHANGED workInProgress
     ELSE workInProgress' = next /\ UNCHANGED phase

push(value) ==
  /\ stack' = pushed(w)
  /\ contextValue' = IF Tag(w) = "ContextProvider" THEN value ELSE contextValue

bailedOut(F) == IF F[w].childExpirationTime < time THEN F ELSE cloneChildFibers(F, w)
bailoutOnAlreadyFinishedWork(F) ==
  goTo(bailedOut(F), IF F[w].childExpirationTime < time THEN Nil ELSE bailedOut(F)[w].child)

\* The children of w become the elements `news`; value: the props a class gives them.
reconciled(F, news, fresh, value) ==
  reconcile(F, w, IF mounting THEN <<>> ELSE Children(F, Other(w)), news, time,
            ~mounting, fresh, value)
reconcileChildren(F, news, fresh) ==
  LET G == reconciled(F, news, fresh, Nil) IN goTo(G, G[w].child)

renderUnchanged == <<treeVars, renderVars, nextEffect, hostVars, thenableVars, issued>>

\* A boundary that shows its fallback, and whose hidden children claim no work.
timedOut(f) == Tag(f) = "SuspenseComponent" /\ fiber[f].memoizedState = "timedOut"
primaryHasWork ==
  LET t == fiber[fiber[w].child].childExpirationTime IN t # NoWork /\ t >= time

beginWithoutWork ==
  /\ phase = "begin" /\ hasNoWork
  /\ ~timedOut(w)
  /\ push(fiber[w].props)
  /\ bailoutOnAlreadyFinishedWork(fiber)
  /\ UNCHANGED renderUnchanged

\* The hidden children are skipped: go on with the fallback, if it has work.
skipHiddenChildren ==
  /\ phase = "begin" /\ hasNoWork
  /\ timedOut(w) /\ ~primaryHasWork
  /\ push(Nil)
  /\ LET F == bailedOut(fiber)
     IN  goTo(F, IF fiber[w].childExpirationTime < time THEN Nil
                 ELSE F[F[w].child].sibling)
  /\ UNCHANGED renderUnchanged

updateHostRoot ==
  /\ beginning("HostRoot") /\ ~hasNoWork
  /\ push(Nil)
  /\ LET F == [fiber EXCEPT ![w] = processUpdateQueue(fiber[w], time)]
     IN  IF F[w].memoizedState = fiber[w].memoizedState THEN bailoutOnAlreadyFinishedWork(F)
         ELSE reconcileChildren(F, Kids[Root][F[w].memoizedState], TRUE)
  /\ UNCHANGED renderUnchanged

updateHostComponent ==
  /\ beginning("HostComponent") /\ ~hasNoWork
  /\ push(Nil)
  /\ reconcileChildren(entered, Kids[w[1]]["any"], fiber[w].newProps)
  /\ UNCHANGED renderUnchanged

updateFragment ==
  /\ beginning("Fragment") /\ ~hasNoWork
  /\ push(Nil)
  /\ reconcileChildren(entered, Kids[w[1]]["any"], fiber[w].newProps)
  /\ UNCHANGED renderUnchanged

(* Classes. *)

processed == processUpdateQueue(fiber[w], time)
receivedUpdate ==
  \/ ~fiber[w].stateNode \/ fiber[w].newProps \/ fiber[w].captured
  \/ processed.memoizedState # fiber[w].memoizedState
  \/ \E i \in DOMAIN fiber[w].queue : fiber[w].queue[i].time >= time

didCapture == "DidCapture" \in fiber[w].effectTag

\* The fibers once the instance is constructed, mounted or updated.
withInstance ==
  [fiber EXCEPT ![w] = [processed EXCEPT
     !.stateNode = TRUE,
     !.effectTag = IF receivedUpdate THEN @ \cup {"Update"} ELSE @]]

outcome == LET o == Outcome[w[1]][processed.memoizedState]
           IN  IF o = "suspend" /\ resolved THEN "ok" ELSE o

\* After an error the old children are deleted and the new ones created, with
\* no regard for their keys.
forceUnmountCurrentAndReconcile(F, news, value) ==
  reconcile(deleteChildren(F, w, Children(F, Other(w))), w, <<>>, news, time, TRUE, TRUE, value)

updateClassComponent ==
  /\ beginning("ClassComponent") /\ ~hasNoWork
  /\ push(Nil)
  /\ LET state == processed.memoizedState
         news == Kids[w[1]][state]
         G == IF ~mounting /\ didCapture
              THEN forceUnmountCurrentAndReconcile(withInstance, news, state)
              ELSE reconciled(withInstance, news, TRUE, state)
     IN  IF ~receivedUpdate /\ ~didCapture THEN bailoutOnAlreadyFinishedWork(withInstance)
         ELSE outcome = "ok" /\ goTo(G, G[w].child)
  /\ UNCHANGED renderUnchanged
-----------------------------------------------------------------------------
(***************************************************************************)
(* throwException: a class throws while it renders, or suspends.           *)
(***************************************************************************)
above == Tail(Path(fiber, w))
nearest(S) == above[CHOOSE i \in DOMAIN above :
                      above[i] \in S /\ \A j \in 1 .. i - 1 : above[j] \notin S]

shouldCaptureSuspense ==
  {f \in ToSet(above) : Tag(f) = "SuspenseComponent" /\ fiber[f].memoizedState # "timedOut"}
canCaptureError ==
  {f \in ToSet(above) : \/ Tag(f) = "HostRoot"
                        \/ f[1] \in Boundary /\ "DidCapture" \notin fiber[f].effectTag}

incomplete(F, f) ==
  [F EXCEPT ![f].effectTag = @ \cup {"Incomplete"},
            ![f].firstEffect = Nil, ![f].lastEffect = Nil]
shouldCapture(F, f) ==
  [F EXCEPT ![f].effectTag = @ \cup {"ShouldCapture"}, ![f].expirationTime = time]

rendersNow == /\ beginning("ClassComponent") /\ ~hasNoWork
              /\ receivedUpdate \/ didCapture

throwThenable ==
  /\ rendersNow /\ outcome = "suspend" /\ shouldCaptureSuspense # {}
  /\ push(Nil)
  /\ LET s == nearest(shouldCaptureSuspense)
     IN  fiber' = [shouldCapture(incomplete(withInstance, w), s) EXCEPT ![s].thenable = TRUE]
  /\ pinged' = pinged \cup {time}
  /\ phase' = "complete"
  /\ UNCHANGED <<treeVars, renderVars, workInProgress, nextEffect, hostVars, resolved,
                 retries, issued>>

throwError ==
  /\ rendersNow
  /\ outcome = "throw" \/ (outcome = "suspend" /\ shouldCaptureSuspense = {})
  /\ push(Nil)
  /\ LET b == nearest(canCaptureError)
     IN  fiber' = [shouldCapture(incomplete(withInstance, w), b) EXCEPT ![b].captured = TRUE]
  /\ exitStatus' = "Errored"
  /\ phase' = "complete"
  /\ UNCHANGED <<treeVars, renderExpirationTime, seen, workInProgress, nextEffect, hostVars,
                 thenableVars, issued>>
-----------------------------------------------------------------------------
(***************************************************************************)
(* Suspense: the children are shown, or hidden in a fragment next to the   *)
(* fragment of the fallback.                                               *)
(***************************************************************************)
wasTimedOut == ~mounting /\ timedOut(Other(w))
primaryFragment == fiber[Other(w)].child
fallbackFragment == fiber[primaryFragment].sibling

\* New fragments; the primary one takes over the current children as they are.
newFragments(F) ==
  LET p == <<Primary[w[1]], 1>>
      g == <<Fallback[w[1]], 1>>
      child == IF mounting THEN Nil ELSE fiber[Other(w)].child
      fragments == [F EXCEPT
        ![p] = [NewFiber(p[1], NoWork, {}, Nil) EXCEPT !.child = child],
        ![g] = NewFiber(g[1], time, IF mounting THEN {} ELSE {"Placement"}, Nil)]
  IN  SetChildren(IF child = Nil THEN fragments ELSE [fragments EXCEPT ![child].return = p],
                  w, <<p, g>>)

\* The fragments again, with the hidden children as they are.
clonedFragments(F) ==
  LET p == Other(primaryFragment)
      g == Other(fallbackFragment)
      clones == createWorkInProgress(createWorkInProgress(F, primaryFragment), fallbackFragment)
  IN  SetChildren([clones EXCEPT ![p].childExpirationTime = NoWork,
                                 ![g].newProps = fiber[w].newProps],
                  w, <<p, g>>)

primaryChildren(F) ==
  reconcile(F, w,
            CASE mounting -> <<>>
              [] wasTimedOut -> Children(F, primaryFragment)
              [] OTHER -> Children(F, Other(w)),
            Kids[w[1]]["shown"], time, ~mounting, fiber[w].newProps, Nil)

updateSuspenseComponent ==
  /\ beginning("SuspenseComponent")
  /\ ~hasNoWork \/ (timedOut(w) /\ primaryHasWork)
  /\ push(Nil)
  /\ LET F == [(IF hasNoWork THEN fiber ELSE entered) EXCEPT
                 ![w].memoizedState = IF didCapture THEN "timedOut" ELSE "shown",
                 ![w].effectTag = @ \ {"DidCapture"},
                 ![w].stateNode = IF mounting THEN @ ELSE fiber[Other(w)].stateNode]
         fragments == IF wasTimedOut THEN clonedFragments(F) ELSE newFragments(F)
     IN  IF didCapture THEN goTo(fragments, fragments[fragments[w].child].sibling)
         ELSE goTo(primaryChildren(F), primaryChildren(F)[w].child)
  /\ UNCHANGED renderUnchanged
-----------------------------------------------------------------------------
(***************************************************************************)
(* Context.                                                                *)
(***************************************************************************)
\* The walk stops at another provider of the context.
consumersBelow(F) ==
  LET walked[x \in Fiber \cup {Nil}] ==
        IF x = Nil THEN {}
        ELSE {x} \cup walked[F[x].sibling]
                \cup (IF Tag(x) = "ContextProvider" THEN {} ELSE walked[F[x].child])
  IN  walked[F[w].child]

\* Mutant: the components between the provider and a consumer are not told.
MarksConsumersOnly(F) ==
  [x \in Fiber |->
     IF x \in UNION {Both(F, y) : y \in {z \in consumersBelow(F) : Tag(z) = "ContextConsumer"}}
     THEN [F[x] EXCEPT !.expirationTime = Raise(@, time)] ELSE F[x]]

\* Every fiber walked is told its parent, the consumers are told to render.
propagateContextChange(F) ==
  LET walked == consumersBelow(F)
      parent(x) == CHOOSE p \in walked \cup {w} : x \in ToSet(Children(F, p))
      linked == [x \in Fiber |-> IF x \in walked THEN [F[x] EXCEPT !.return = parent(x)]
                                 ELSE F[x]]
      mark(x, G) ==
        scheduleWorkOnParentPath(
          [y \in Fiber |-> IF y \in Both(G, x)
                           THEN [G[y] EXCEPT !.expirationTime = Raise(@, time)] ELSE G[y]],
          x, time)
  IN  FoldSet(mark, linked, {x \in walked : Tag(x) = "ContextConsumer"})

updateContextProvider ==
  /\ beginning("ContextProvider") /\ ~hasNoWork
  /\ push(fiber[w].props)
  /\ LET changed == ~mounting /\ fiber[w].props # fiber[Other(w)].props
         news == Kids[w[1]]["any"]
     IN  IF ~mounting /\ ~changed /\ ToSet(news) \subseteq ConstElement
         THEN bailoutOnAlreadyFinishedWork(entered)
         ELSE reconcileChildren(IF changed THEN propagateContextChange(entered) ELSE entered,
                                news, fiber[w].newProps)
  /\ UNCHANGED renderUnchanged

\* What a consumer renders shows the value it read.
updateContextConsumer ==
  /\ beginning("ContextConsumer") /\ ~hasNoWork
  /\ push(Nil)
  /\ reconcileChildren([entered EXCEPT ![w].memoizedState = contextValue],
                       Kids[w[1]]["any"], TRUE)
  /\ UNCHANGED renderUnchanged
-----------------------------------------------------------------------------
(***************************************************************************)
(* completeUnitOfWork: a fiber without more work below it completes or     *)
(* unwinds, and the loop goes on with its sibling or its parent.           *)
(***************************************************************************)
pop ==
  /\ stack' = popped(stack, w)
  /\ contextValue' = restored(stack, contextValue, w)

\* Append the effects of w, then w itself, to those of its parent.
bubble(F) ==
  LET p == F[w].return
      link(G, last, first) ==
        IF last = Nil THEN [G EXCEPT ![p].firstEffect = first]
        ELSE [G EXCEPT ![last].nextEffect = first]
      children == IF F[w].lastEffect = Nil THEN F
                  ELSE [link(F, F[p].lastEffect, F[w].firstEffect) EXCEPT
                          ![p].lastEffect = F[w].lastEffect]
  IN  IF p = Nil \/ "Incomplete" \in F[p].effectTag THEN F
      ELSE IF F[w].effectTag = {} THEN children
      ELSE [link(children, children[p].lastEffect, w) EXCEPT ![p].lastEffect = w]

advance(F) ==
  /\ fiber' = F
  /\ workInProgress' = IF F[w].sibling # Nil THEN F[w].sibling ELSE F[w].return
  /\ phase' = CASE F[w].sibling # Nil -> "begin"
                [] F[w].return # Nil -> "complete"
                [] OTHER -> "finished"

completing(S) ==
  phase = "complete" /\ "Incomplete" \notin fiber[w].effectTag /\ Tag(w) \in S

complete(F) == pop /\ advance(bubble(resetChildExpirationTime(F, w)))

completeUnchanged == <<treeVars, renderExpirationTime, seen, nextEffect, mounts,
                       thenableVars, issued>>

\* The first effects of the children's nodes: they are appended to the new node.
createInstance ==
  /\ completing({"HostComponent"}) /\ ~(fiber[w].alternate /\ fiber[w].stateNode)
  /\ complete([fiber EXCEPT ![w].stateNode = TRUE])
  /\ dom' = [h \in HostElement |->
               IF h = w[1] THEN Nil
               ELSE IF h \in {f[1] : f \in TopHosts(fiber, fiber[w].child)} THEN w[1]
               ELSE dom[h]]
  /\ hidden' = hidden \ {w[1]}
  /\ UNCHANGED <<completeUnchanged, exitStatus>>

completeHostComponent ==
  /\ completing({"HostComponent"}) /\ fiber[w].alternate /\ fiber[w].stateNode
  /\ complete(IF fiber[w].newProps THEN [fiber EXCEPT ![w].effectTag = @ \cup {"Update"}]
              ELSE fiber)
  /\ UNCHANGED <<completeUnchanged, dom, hidden, exitStatus>>

\* Mutant: the deletion takes the place of the children's effects.
ReplacesEffects(F) ==
  [F EXCEPT ![fallbackFragment].effectTag = {"Deletion"}, ![fallbackFragment].nextEffect = Nil,
            ![w].firstEffect = fallbackFragment, ![w].lastEffect = fallbackFragment]

\* The fallback is deleted before any effect of the children.
withoutFallback(F) ==
  LET f == fallbackFragment
      first == F[w].firstEffect
      G == [F EXCEPT ![f].effectTag = {"Deletion"}, ![f].nextEffect = first,
                     ![w].firstEffect = f]
  IN  IF first = Nil THEN [G EXCEPT ![w].lastEffect = f] ELSE G

completeSuspenseComponent ==
  /\ completing({"SuspenseComponent"})
  /\ LET tagged == IF timedOut(w) \/ wasTimedOut
                   THEN [fiber EXCEPT ![w].effectTag = @ \cup {"Update"}] ELSE fiber
     IN  complete(IF wasTimedOut /\ ~timedOut(w) THEN withoutFallback(tagged) ELSE tagged)
  /\ exitStatus' = IF timedOut(w) /\ ~wasTimedOut /\ exitStatus = "Incomplete"
                   THEN "Suspended" ELSE exitStatus
  /\ UNCHANGED <<completeUnchanged, dom, hidden>>

completeComponent ==
  /\ completing({"ClassComponent", "ContextProvider", "ContextConsumer", "Fragment", "HostRoot"})
  /\ complete(fiber)
  /\ exitStatus' = IF fiber[w].return = Nil /\ exitStatus = "Incomplete"
                   THEN "Completed" ELSE exitStatus
  /\ UNCHANGED <<completeUnchanged, dom, hidden>>

\* A fiber that catches what was thrown below it begins again.
unwindWork ==
  /\ phase = "complete" /\ "Incomplete" \in fiber[w].effectTag
  /\ pop
  /\ LET p == fiber[w].return
     IN  IF "ShouldCapture" \in fiber[w].effectTag \/ Tag(w) = "HostRoot"
         THEN /\ fiber' = [fiber EXCEPT ![w].effectTag =
                             (@ \ {"ShouldCapture", "Incomplete"}) \cup {"DidCapture"}]
              /\ phase' = "begin" /\ UNCHANGED workInProgress
         ELSE advance(incomplete(fiber, p))
  /\ UNCHANGED <<completeUnchanged, dom, hidden, exitStatus>>
-----------------------------------------------------------------------------
(***************************************************************************)
(* commitRoot: the effects of the finished tree, one list walked twice.    *)
(***************************************************************************)
finishedWork == Other(current)
firstEffectOf(F, f) == IF F[f].lastEffect = Nil /\ F[f].effectTag # {} THEN f ELSE F[f].firstEffect

commitRoot ==
  /\ phase = "finished"
  /\ firstPendingTime' = Latest({fiber[finishedWork].expirationTime,
                                fiber[finishedWork].childExpirationTime})
  /\ LET last == fiber[finishedWork].lastEffect
     IN  fiber' = IF last # Nil /\ fiber[finishedWork].effectTag # {}
                  THEN [fiber EXCEPT ![last].nextEffect = finishedWork] ELSE fiber
  /\ nextEffect' = firstEffectOf(fiber, finishedWork)
  /\ phase' = "mutation"
  /\ UNCHANGED <<current, workInProgress, renderVars, stack, contextValue, hostVars,
                 thenableVars, issued>>

effect(tag) == nextEffect # Nil /\ tag \in fiber[nextEffect].effectTag
mutationUnchanged == <<treeVars, workInProgress, renderVars, phase, stack, contextValue,
                       resolved, pinged, issued>>

HostParent(f) ==
  LET up == Tail(Path(fiber, f))
  IN  up[CHOOSE i \in DOMAIN up : IsHostParent(up[i]) /\ \A j \in 1 .. i - 1 : ~IsHostParent(up[j])]

\* A fiber that is also updated keeps its place in the list for commitWork.
commitPlacement ==
  /\ phase = "mutation" /\ effect("Placement")
  /\ dom' = [h \in HostElement |-> IF h \in {f[1] : f \in HostsOf(fiber, nextEffect)}
                                   THEN HostParent(nextEffect)[1] ELSE dom[h]]
  /\ fiber' = [fiber EXCEPT ![nextEffect].effectTag = @ \ {"Placement"}]
  /\ nextEffect' = IF effect("Update") THEN nextEffect ELSE fiber[nextEffect].nextEffect
  /\ UNCHANGED <<mutationUnchanged, hidden, mounts, retries>>

commitDeletion ==
  /\ phase = "mutation" /\ effect("Deletion")
  /\ LET f == nextEffect
         gone == {g[1] : g \in Subtree(fiber, f)}
     IN  /\ dom' = [h \in HostElement |-> IF h \in {g[1] : g \in HostsOf(fiber, f)}
                                          THEN Nil ELSE dom[h]]
         /\ mounts' = [c \in ClassElement |-> IF c \in gone THEN mounts[c] - 1 ELSE mounts[c]]
         /\ retries' = {g \in retries : g[1] \notin gone}
         /\ fiber' = [g \in Fiber |-> IF g \in Both(fiber, f)
                                     THEN [fiber[g] EXCEPT !.return = Nil, !.child = Nil,
                                             !.memoizedState = Nil, !.queue = <<>>]
                                     ELSE fiber[g]]
         /\ nextEffect' = fiber[f].nextEffect
  /\ UNCHANGED <<mutationUnchanged, hidden>>

\* Hide or unhide the children, and listen to the thenables that suspended.
commitSuspenseComponent(f) ==
  LET out == timedOut(f)
      nodes == {h[1] : h \in HostsOf(fiber, IF out THEN fiber[f].child ELSE f)}
  IN  /\ hidden' = IF out THEN hidden \cup nodes ELSE hidden \ nodes
      /\ fiber' = [fiber EXCEPT ![f].thenable = FALSE,
                               ![f].stateNode = @ \/ fiber[f].thenable]
      /\ retries' = IF fiber[f].thenable /\ ~fiber[f].stateNode
                    THEN retries \cup {f} ELSE retries

commitWork ==
  /\ phase = "mutation" /\ nextEffect # Nil /\ ~effect("Placement") /\ ~effect("Deletion")
  /\ IF effect("Update") /\ Tag(nextEffect) = "SuspenseComponent"
     THEN commitSuspenseComponent(nextEffect)
     ELSE UNCHANGED <<hidden, fiber, retries>>
  /\ nextEffect' = fiber[nextEffect].nextEffect
  /\ UNCHANGED <<mutationUnchanged, dom, mounts>>

switchCurrent ==
  /\ phase = "mutation" /\ nextEffect = Nil
  /\ current' = finishedWork
  /\ nextEffect' = firstEffectOf(fiber, finishedWork)
  /\ phase' = "layout"
  /\ UNCHANGED <<fiber, firstPendingTime, workInProgress, renderVars, stack, contextValue,
                 hostVars, thenableVars, issued>>

\* componentDidMount when the fiber has no alternate.
commitLifeCycles ==
  /\ phase = "layout" /\ nextEffect # Nil
  /\ mounts' = IF effect("Update") /\ Tag(nextEffect) = "ClassComponent"
                  /\ ~fiber[nextEffect].alternate
               THEN [mounts EXCEPT ![nextEffect[1]] = @ + 1] ELSE mounts
  /\ nextEffect' = fiber[nextEffect].nextEffect
  /\ UNCHANGED <<fiber, mutationUnchanged, dom, hidden, retries>>

\* The list is taken apart.
finishCommit ==
  /\ phase = "layout" /\ nextEffect = Nil
  /\ fiber' = [f \in Fiber |-> [fiber[f] EXCEPT !.nextEffect = Nil]]
  /\ phase' = "idle"
  /\ UNCHANGED <<treeVars, workInProgress, renderVars, stack, contextValue, nextEffect,
                 hostVars, thenableVars, issued>>

Next ==
  \/ \E t \in Time : \/ \E e \in ClassElement : \E s \in Payload[e] : scheduleWork(e, t, s)
                      \/ renderRoot(t) \/ pingSuspendedRoot(t)
                      \/ \E f \in Fiber : retryTimedOutBoundary(f, t)
  \/ \E e \in ClassElement : findHostInstance(e)
  \/ Resolve
  \/ beginWithoutWork \/ skipHiddenChildren
  \/ updateHostRoot \/ updateHostComponent \/ updateFragment
  \/ updateClassComponent \/ updateSuspenseComponent
  \/ updateContextProvider \/ updateContextConsumer
  \/ throwThenable \/ throwError
  \/ createInstance \/ completeHostComponent \/ completeSuspenseComponent
  \/ completeComponent \/ unwindWork
  \/ commitRoot \/ commitPlacement \/ commitDeletion \/ commitWork
  \/ switchCurrent \/ commitLifeCycles \/ finishCommit

Spec == Init /\ [][Next]_vars
-----------------------------------------------------------------------------
\* Types, and the exit status: it says "Completed" of a tree that is rendered
\* and never of the render that replaced it.
TypeOK ==
  /\ current \in {<<Root, 1>>, <<Root, 2>>}
  /\ firstPendingTime \in 0 .. MaxTime /\ renderExpirationTime \in 0 .. MaxTime
  /\ workInProgress \in Fiber \cup {Nil} /\ nextEffect \in Fiber \cup {Nil}
  /\ phase \in {"idle", "begin", "complete", "finished", "mutation", "layout"}
  /\ exitStatus \in {"Incomplete", "Completed", "Suspended", "Errored"}
  /\ phase \in {"begin", "complete"} => exitStatus # "Completed"
  /\ phase = "finished" => exitStatus # "Incomplete"
  /\ retries \subseteq Fiber /\ pinged \subseteq Time /\ seen <= issued
  /\ \A f \in Fiber :
       /\ fiber[f].expirationTime \in 0 .. MaxTime
       /\ fiber[f].childExpirationTime \in 0 .. MaxTime
       /\ fiber[f].effectTag \subseteq {"Placement", "Update", "Deletion", "Incomplete",
                                       "ShouldCapture", "DidCapture"}

\* The fibers of the current tree that are not children a boundary hides.
HiddenTrees == UNION {Subtree(fiber, fiber[s].child) : s \in {f \in CurrentTree : timedOut(f)}}
Visible == CurrentTree \ HiddenTrees
Ancestors(f) == {g \in CurrentTree \ {f} : f \in Subtree(fiber, g)}

\* An update of a component that is shown is known at every fiber above it
\* and at the root, or no render would come to it.
MarksReachUpdates ==
  \A f \in Visible :
    phase # "mutation" /\ fiber[f].queue # <<>> =>
      LET t == Head(fiber[f].queue).time
      IN  /\ fiber[f].expirationTime >= t
          /\ \A g \in Ancestors(f) : fiber[g].childExpirationTime >= t
          /\ firstPendingTime >= t

\* The fiber stack holds what the fibers on the path to the unit of work
\* pushed, whatever was thrown or interrupted before, and the exit status is
\* that of this render, not of one before it.
StackMatchesPath ==
  LET on == CASE phase = "begin" -> Tail(Path(fiber, w))
              [] phase = "complete" -> Path(fiber, w)
              [] OTHER -> <<>>
  IN  /\ TypeOK
      /\ [i \in DOMAIN stack |-> stack[i].fiber] = Reverse(SelectSeq(on, Pushes))
      /\ on = <<>> => contextValue = Nil

\* Between commits the nodes of the document, what is hidden of them and the
\* mounted instances are those of the current tree.
HostMatchesTree ==
  phase \notin {"mutation", "layout"} =>
    LET hosts == {f \in CurrentTree : IsHost(f)}
        parent(h) == CHOOSE p \in CurrentTree :
                       IsHostParent(p) /\ h \in TopHosts(fiber, fiber[p].child)
        covered == UNION {HostsOf(fiber, fiber[s].child) : s \in {f \in CurrentTree : timedOut(f)}}
    IN  /\ \A h \in hosts : dom[h[1]] = parent(h)[1] /\ (h[1] \in hidden <=> h \in covered)
        /\ \A e \in HostElement \ {h[1] : h \in hosts} :
             dom[e] # Root /\ dom[e] \notin {h[1] : h \in hosts}
        /\ \A c \in ClassElement : mounts[c] = IF c \in Mounted THEN 1 ELSE 0

\* A consumer on the screen shows the value its provider was last given, also
\* below components that had no reason to render.
ConsumersAgree ==
  \A k \in Visible : Tag(k) = "ContextConsumer" =>
    \E p \in Ancestors(k) :
      /\ Tag(p) = "ContextProvider"
      /\ fiber[k].memoizedState = fiber[p].props
      /\ \E c \in Ancestors(p) : fiber[c].child = p /\ fiber[p].props = fiber[c].memoizedState

\* A commit has applied every update of its priority that was scheduled
\* before its render began, to every component that is shown.
CommitProcessesUpdates ==
  [][finishCommit =>
       \A f \in Visible : \/ fiber[f].queue = <<>>
                          \/ Head(fiber[f].queue).time < renderExpirationTime
                          \/ Head(fiber[f].queue).id > seen]_vars

\* The fibers of instances, and those of them in the tree with their alternates.
InstanceFiber == {f \in Fiber : Tag(f) \in {"ClassComponent", "HostComponent"}}
OnScreen == UNION {Both(fiber, f) : f \in CurrentTree \cap InstanceFiber}

\* Those that mount, and those that were taken out of the tree.
OffScreen == {f \in InstanceFiber \ OnScreen :
                \/ fiber[f].return = Nil
                \/ f \in ToSet(Children(fiber, fiber[f].return)) /\ ~fiber[f].alternate}

NeverSuspended(s) == fiber[<<Primary[s], 1>>].return = Nil

\* Of a fiber and its alternate the one in the tree is found, whatever a render
\* in progress, or one that was given up, has done to the pointers, and none
\* for an instance that is not mounted yet or any more.  FindsCurrentFiber is
\* about boundaries that have suspended.
FindsCurrentInstance ==
  phase # "mutation" /\ (\A s \in DOMAIN Primary : NeverSuspended(s)) =>
    LET found(f) == findCurrentFiberUsingSlowPath(fiber, current, f)
    IN  /\ \A f \in OnScreen : found(f) \in CurrentTree
        /\ \A f \in OffScreen : found(f) = Nil

\* "Otherwise B has to be current branch", says findCurrentFiberUsingSlowPath
\* when the walk from A does not end at the current root: the fiber that it
\* returns for an instance is in the current tree.
FindsCurrentFiber ==
  phase = "idle" =>
    \A e \in Mounted \cap ClassElement :
      findCurrentFiberUsingSlowPath(fiber, current, <<e, 1>>) \in CurrentTree
=============================================================================
