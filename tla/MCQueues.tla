------------------------------ MODULE MCQueues ------------------------------
(***************************************************************************)
(* Model-checking instance of what one component keeps: the hooks of a     *)
(* function component, the children of a host component, the update queue  *)
(* of a class component, the times of updates, the inputs of a form, and   *)
(* the instance of a class component with its lifecycles.  A behaviour is  *)
(* one of one of them; the others stay as they are.                        *)
(***************************************************************************)
EXTENDS MCHookQueue, ChildOrder, ExpirationTime, ClassInstance

CONSTANTS ExpirationTimes, MaxClassUpdate, MaxCaptured   \* of UpdateQueue

VARIABLES
  component,
  \* of UpdateQueue
  created, captured, updateTime, next, callback, nextEffect, queue, updateQueue, memoizedState,
  expirationTime, hasAlternate, callbackTag, classPhase, renderTime, committed,
  \* of ControlledInput
  mode, form, inputDom, currentValue, shownState, pending, stack, workPhase, isBatching,
  restoreQueue, events, sets, missed

Class == INSTANCE UpdateQueue WITH
  MaxUpdate <- MaxClassUpdate, time <- updateTime, phase <- classPhase

\* A checkbox beside a group of radios, controlled or not; a text and a select.
In(kind, field, option, controlled) ==
  [kind |-> kind, field |-> field, option |-> option, controlled |-> controlled]
Inputs == INSTANCE ControlledInput WITH
  Forms <- {<<In("radio", "r", "a", controlled), In("radio", "r", "b", controlled),
              In("checkbox", "c", "", TRUE)>> : controlled \in BOOLEAN}
           \cup {<<In("text", "t", "", TRUE), In("select", "s", "", TRUE)>>},
  Text <- {"x", "y"}, None <- "none", MaxEvent <- 3, MaxSet <- 2, MaxNested <- 2, dom <- inputDom

\* Classes with the new lifecycles and the old ones, and one that is not pure.
ClassOf(gDSFP, snapshot, unsafe, pure) ==
  [gDSFP |-> gDSFP, snapshot |-> snapshot, unsafe |-> unsafe, pure |-> pure]
MCClasses == {ClassOf(TRUE, TRUE, TRUE, TRUE), ClassOf(FALSE, FALSE, TRUE, TRUE),
              ClassOf(FALSE, TRUE, FALSE, FALSE)}

ASSUME Class!UpdateQueueAssumption /\ ExpirationTimeAssumption
ASSUME Inputs!ControlledInputAssumption

classVars == <<created, captured, updateTime, next, callback, nextEffect, queue, updateQueue,
               memoizedState, expirationTime, hasAlternate, callbackTag, classPhase, renderTime,
               committed>>
inputVars == <<mode, form, inputDom, currentValue, shownState, pending, stack, workPhase,
               isBatching, restoreQueue, events, sets, missed>>
allVars == <<component, hookVars, childVars, classVars, eventVars, inputVars, lifecycleVars>>

QueuesInit ==
  /\ component \in {"class", "function", "host", "times", "inputs", "lifecycles"}
  /\ Class!Init /\ EventInit
  /\ IF component = "function" THEN Init
     ELSE /\ update = <<>> /\ last = Nil /\ lastRenderedState = Initial /\ fiber = <<>>
          /\ current = Nil /\ phase = "idle" /\ renderExpirationTime = NoTime
          /\ didReceiveUpdate = FALSE /\ renderPhaseUpdates = <<>> /\ numberOfReRenders = 0
          /\ effect = <<>> /\ live = [c \in Call |-> 0] /\ pendingPassive = FALSE /\ seen = 0
          /\ forgotten = "no"
  /\ IF component = "host" THEN ChildInit
     ELSE /\ currentChildren = <<>> /\ finished = <<>> /\ effects = <<>> /\ dom = <<>>
          /\ childPhase = "idle"
  /\ IF component = "inputs" THEN Inputs!InputInit
     ELSE /\ mode = "none" /\ form = <<>> /\ inputDom = <<>> /\ currentValue = <<>>
          /\ shownState = <<>> /\ pending = <<>> /\ stack = <<>> /\ workPhase = "NotWorking"
          /\ isBatching = FALSE /\ restoreQueue = <<>> /\ events = 0 /\ sets = 0
          /\ missed = FALSE
  /\ IF component = "lifecycles" THEN LifecycleInit
     ELSE /\ class = None /\ parent = None /\ renderedParent = None
          /\ committedFiber = None /\ workInProgress = None /\ instance = None
          /\ output = None /\ renderedOutput = None /\ attemptTime = 0
          /\ lifecyclePhase = "idle" /\ rendered = FALSE /\ call = None /\ issued = 0
          /\ attempts = 0 /\ settled = <<>>

ClassStep(A) ==
  /\ component = "class" /\ A
  /\ UNCHANGED <<component, hookVars, childVars, eventVars, inputVars, lifecycleVars>>
HookStep(A) ==
  /\ component = "function" /\ A
  /\ UNCHANGED <<component, classVars, childVars, eventVars, inputVars, lifecycleVars>>
ChildStep(A) ==
  /\ component = "host" /\ A
  /\ UNCHANGED <<component, classVars, hookVars, eventVars, inputVars, lifecycleVars>>
TimeStep(A) ==
  /\ component = "times" /\ A
  /\ UNCHANGED <<component, classVars, hookVars, childVars, inputVars, lifecycleVars>>
InputStep(A) ==
  /\ component = "inputs" /\ A
  /\ UNCHANGED <<component, classVars, hookVars, childVars, eventVars, lifecycleVars>>
LifecycleStep(A) ==
  /\ component = "lifecycles" /\ A
  /\ UNCHANGED <<component, classVars, hookVars, childVars, eventVars, inputVars>>

\* The next-state relations of the six, action by action.
QueuesNext ==
  \/ ClassStep(Class!Next)
  \/ \E t \in 1 .. MaxTime :
       \/ \E a \in Dispatched : HookStep(dispatchAction(t, a))
       \/ \E moved \in Moves : HookStep(beginWithoutWork(t, moved))
       \/ \E moved \in Moves, d \in Deps, received \in BOOLEAN :
            HookStep(renderWithHooks(t, d, received, moved))
       \/ \E d \in Deps : HookStep(mountComponent(t, d))
  \/ \E d \in Deps : HookStep(reRender(d))
  \/ HookStep(componentThrows) \/ HookStep(finishComponent)
  \/ \E others \in BOOLEAN : HookStep(commit(others))
  \/ HookStep(flushPassiveEffects) \/ HookStep(commitUnmount)
  \/ \E news \in Children, single \in BOOLEAN : ChildStep(render(news, single))
  \/ ChildStep(commitPlacement) \/ ChildStep(unmountHostComponents) \/ ChildStep(finishCommit)
  \/ TimeStep(EventNext)
  \/ InputStep(Inputs!InputNext)
  \/ LifecycleStep(LifecycleNext)

QueuesSpec == QueuesInit /\ [][QueuesNext]_allVars
-----------------------------------------------------------------------------
\* A function component shows every update of sufficient priority, in order,
\* and no render-phase update outlives the render that made it.
RebasedState == component = "function" => TypeOK /\ StateIsRebased

\* No update is lost by cloning, abandoning and committing queues, nor left for ever
\* because the expiration time of its fiber does not tell of it.  When none is
\* pending, the state is that of all of them in order, and the callbacks of
\* committed updates have been called, once.
NoUpdateLost ==
  component = "class" =>
    /\ Class!TypeOK /\ Class!NoUpdateLost /\ Class!PendingIsMarked
    /\ Class!SettledState /\ Class!CallbacksCalled

\* A render applies the updates of sufficient priority.
RendersByPriority == Class!RendersByPriority

\* Inputs show what their props say, and their changes are reported once.
InputsAreControlled ==
  component = "inputs" => Inputs!InputsShowProps /\ Inputs!ChangesAreReported
-----------------------------------------------------------------------------
MCExpirationTimes == {1, 2}

\* Units are of two, and buckets of two units and of one; one timeout is odd.
MCTimeouts == {0, 3}
MCSymmetry == Permutations(Deps)

\* Up to three slots: elements with two keys or none, and a fragment of two
\* elements, in either order; up to two slots with an element of another type.
Host(key, type) == [key |-> key, type |-> type, kids |-> <<>>]
KidRows == {<<Host("x", "div"), Host("y", "div")>>, <<Host("y", "div"), Host("x", "div")>>}
MCChild == {Host(NoKey, "div"), Host("a", "div"), Host("b", "div"), Host("a", "p")}
           \cup {[key |-> "f", type |-> "fragment", kids |-> row] : row \in KidRows}
NoKeyTwice(row) ==
  \A i, j \in DOMAIN row : i # j /\ row[i] # Empty /\ row[j] # Empty =>
    row[i].key = NoKey \/ row[i].key # row[j].key
MCChildren == {row \in UNION {[1 .. n -> MCChild \cup {Empty}] : n \in 0 .. 3} :
  NoKeyTwice(row) /\ (Len(row) = 3 => Host("a", "p") \notin Range(row))}
=============================================================================
