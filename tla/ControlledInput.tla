-------------------------- MODULE ControlledInput --------------------------
(***************************************************************************)
(* Inputs of the DOM whose value is given by props: how changes of the     *)
(* user are noticed, reported to handlers, and undone unless the handlers  *)
(* accept them (ChangeEventPlugin.js, inputValueTracking.js,               *)
(* ReactControlledComponent.js, ReactGenericBatching.js, ReactDOMInput.js, *)
(* ReactDOMSelect.js, ReactDOMTextarea.js).                                *)
(*                                                                         *)
(* A browser changes a node first and dispatches the event then; a radio   *)
(* that it checks, it unchecks the others of the group, and tells nobody.  *)
(* React keeps beside the node the value it knows of: a write of its own   *)
(* goes through a setter that notes it.                                    *)
(*                                                                         *)
(* All inputs are rendered by one component, whose state has a field for a *)
(* checkbox, a text, a select or a group of radios.  `stack` is the call   *)
(* stack: events, batches of the application and commits, whose handlers   *)
(* and layout effects set state and click on further nodes.                *)
(***************************************************************************)
EXTENDS Integers, Sequences, FiniteSets, SequencesExt, FiniteSetsExt

CONSTANTS
  Forms,      \* sequences of [kind, field, option, controlled]
  Text,       \* the values of texts and selects
  None,
  MaxEvent, MaxSet, MaxNested   \* bounds

Kind == {"checkbox", "radio", "text", "select"}
ControlledInputAssumption ==
  \A form \in Forms : \A n \in DOMAIN form :
    form[n].kind \in Kind /\ form[n].controlled \in BOOLEAN

VARIABLES
  mode,           \* of the root: "legacy" or "concurrent"
  form,           \* the inputs
  dom,            \* `checked` or `value` of each node
  currentValue,   \* what the tracker of each node knows of
  shownState,     \* the state of the last commit
  pending,        \* by field and priority, the value of the last update
  stack,
  workPhase,
  isBatching,     \* of ReactGenericBatching
  restoreQueue,   \* with restoreTarget as its first element
  events, sets,   \* how many there have been
  missed          \* history: see OverlooksCousin

inputVars == <<mode, form, dom, currentValue, shownState, pending, stack, workPhase, isBatching,
               restoreQueue, events, sets, missed>>

Normal == 1
Discrete == 2
Sync == 3
Priority == {Normal, Discrete, Sync}

Node == DOMAIN form
Field == {form[n].field : n \in {m \in Node : form[m].controlled}}
Checkable(n) == form[n].kind \in {"checkbox", "radio"}
Group(n) ==
  IF form[n].kind # "radio" THEN {n}
  ELSE {m \in Node : form[m].kind = "radio" /\ form[m].field = form[n].field}
FieldValues(f) ==
  LET n == CHOOSE m \in Node : form[m].field = f
  IN CASE form[n].kind = "checkbox" -> {"true", "false"}
       [] form[n].kind = "radio" -> {form[m].option : m \in Group(n)}
       [] OTHER -> Text

\* `checked` or `value` as the component gives it.
PropOf(state, n) ==
  IF form[n].kind = "radio" THEN IF state[form[n].field] = form[n].option THEN "true" ELSE "false"
  ELSE state[form[n].field]

\* A node gets a value, from the user or from code: one radio of a group is checked.
Becomes(d, n, v) ==
  [m \in Node |-> IF m = n THEN v ELSE IF m \in Group(n) /\ v = "true" THEN "false" ELSE d[m]]

InputInit ==
  /\ mode \in {"legacy", "concurrent"} /\ form \in Forms
  /\ shownState \in [Field -> UNION {FieldValues(f) : f \in Field}]
  /\ \A f \in Field : shownState[f] \in FieldValues(f)
  /\ dom = [n \in Node |-> IF form[n].controlled THEN PropOf(shownState, n)
                           ELSE IF Checkable(n) THEN "false" ELSE CHOOSE v \in Text : TRUE]
  /\ currentValue = dom
  /\ pending = [f \in Field |-> [p \in Priority |-> None]]
  /\ stack = <<>> /\ workPhase = "NotWorking" /\ isBatching = FALSE /\ restoreQueue = <<>>
  /\ events = 0 /\ sets = 0 /\ missed = FALSE
-----------------------------------------------------------------------------
(***************************************************************************)
(* Writes to nodes; `w` has the nodes and what the trackers know.          *)
(***************************************************************************)
\* The setter that trackValueOnNode defines; a select has none.
SetValue(w, n, v) ==
  [dom |-> Becomes(w.dom, n, v),
   known |-> IF form[n].kind = "select" THEN w.known ELSE [w.known EXCEPT ![n] = v]]

\* A checked property is assigned always, a value if it is another.
updateWrapper(w, n, state) ==
  IF ~form[n].controlled \/ (~Checkable(n) /\ w.dom[n] = PropOf(state, n)) THEN w
  ELSE SetValue(w, n, PropOf(state, n))

updateValueIfChanged(w, n) == [w EXCEPT !.known[n] = w.dom[n]]

\* Mutant: only the radio that was clicked is restored.
ForgetsCousins(w, n, state) == w

\* The other radios of the group, in the order of the document.
updateNamedCousins(w, n, state) ==
  FoldLeft(LAMBDA v, m : updateWrapper(updateValueIfChanged(v, m), m, state),
           w, SetToSortSeq(Group(n) \ {n}, <))

restoreControlledState(w, n, state) == updateNamedCousins(updateWrapper(w, n, state), n, state)

\* commitUpdate, for every node.
commitUpdates(w, state) ==
  FoldLeft(LAMBDA v, n : updateWrapper(v, n, state), w, [n \in Node |-> n])
-----------------------------------------------------------------------------
(***************************************************************************)
(* Updates and commits.                                                    *)
(***************************************************************************)
HasPending(p) == \E f \in Field : pending[f][p] # None

\* Of the updates of sufficient priority the last one counts; it has the lowest.
Rendered(level) ==
  [f \in Field |->
     LET ps == {p \in level .. Sync : pending[f][p] # None}
     IN IF ps = {} THEN shownState[f] ELSE pending[f][Min(ps)]]

\* An update hides those before it, unless they are of a higher priority.
Updated(f, v, p) ==
  [pending EXCEPT ![f] = [q \in Priority |-> IF q < p THEN None ELSE IF q = p THEN v ELSE @[q]]]

\* Updates of a priority, if there are any, are rendered and committed on top of
\* `calls`, with the nodes and the phase as they are by then.
Flush(level, calls, d, phase) ==
  IF HasPending(level)
  THEN LET state == Rendered(level)
           w == commitUpdates([dom |-> d, known |-> currentValue], state)
       IN /\ shownState' = state
          /\ pending' = [f \in Field |-> [p \in Priority |->
                           IF p >= level THEN None ELSE pending[f][p]]]
          /\ dom' = w.dom /\ currentValue' = w.known
          /\ stack' = Append(calls, [call |-> "commit", phase |-> phase]) /\ workPhase' = "Commit"
  ELSE /\ stack' = calls /\ dom' = d /\ workPhase' = phase
       /\ UNCHANGED <<shownState, pending, currentValue>>

flushSyncCallbackQueue(calls, phase) == Flush(Sync, calls, dom, phase)

MayFlush == workPhase \notin {"Commit", "Batched"}
flushDiscreteUpdates(calls, d) ==
  IF MayFlush THEN Flush(Discrete, calls, d, workPhase)
  ELSE /\ stack' = calls /\ dom' = d /\ UNCHANGED <<shownState, pending, currentValue, workPhase>>

Top == Last(stack)
IsAt(step) == stack # <<>> /\ Top.call = "event" /\ Top.at = step
GoesTo(step) == [stack EXCEPT ![Len(stack)].at = step]
Nested == Len(SelectSeq(stack, LAMBDA frame : frame.call = "event"))

\* Handlers, the function given to batchedUpdates, and layout effects are running.
RunsUserCode == stack # <<>> /\ (Top.call = "event" => Top.at = "handlers")

\* getCurrentPriorityLevel, and computeExpirationForFiber for it.
UpdatePriority ==
  IF mode = "legacy" THEN Sync
  ELSE IF stack = <<>> THEN Normal
  ELSE CASE Top.call = "commit" -> Sync
         [] Top.call = "batch" -> Normal
         [] OTHER -> IF Top.discrete THEN Discrete ELSE Normal

\* Nothing runs; a synchronous update that is made by then is rendered at once.
FlushesAtOnce == stack = <<>> /\ HasPending(Sync)
Idle == stack = <<>> /\ ~FlushesAtOnce

\* Handlers, effects and timers set state.
SetState(f, v) ==
  /\ Idle \/ RunsUserCode
  /\ sets < MaxSet /\ sets' = sets + 1
  /\ pending' = Updated(f, v, UpdatePriority)
  /\ UNCHANGED <<mode, form, dom, currentValue, shownState, stack, workPhase, isBatching,
                 restoreQueue, events, missed>>

\* Within scheduleUpdateOnFiber, if nothing is working.
FlushAtOnce ==
  /\ FlushesAtOnce /\ flushSyncCallbackQueue(stack, workPhase)
  /\ UNCHANGED <<mode, form, isBatching, restoreQueue, events, sets, missed>>

\* The Scheduler calls back for the most urgent updates.
PerformWork ==
  /\ Idle
  /\ \E p \in Priority : HasPending(p) /\ ~(\E q \in p + 1 .. Sync : HasPending(q))
                         /\ Flush(p, stack, dom, workPhase)
  /\ UNCHANGED <<mode, form, isBatching, restoreQueue, events, sets, missed>>

\* The layout effects have run; what they scheduled synchronously is flushed.
FinishCommit ==
  /\ stack # <<>> /\ Top.call = "commit"
  /\ flushSyncCallbackQueue(Front(stack), Top.phase)
  /\ UNCHANGED <<mode, form, isBatching, restoreQueue, events, sets, missed>>

batchedUpdates ==
  /\ Idle /\ events < MaxEvent
  /\ stack' = <<[call |-> "batch"]>> /\ workPhase' = "Batched"
  /\ UNCHANGED <<mode, form, dom, currentValue, shownState, pending, isBatching, restoreQueue,
                 events, sets, missed>>
FinishBatch ==
  /\ stack # <<>> /\ Top.call = "batch"
  /\ flushSyncCallbackQueue(Front(stack), "NotWorking")
  /\ UNCHANGED <<mode, form, isBatching, restoreQueue, events, sets, missed>>
-----------------------------------------------------------------------------
(***************************************************************************)
(* Events.                                                                 *)
(***************************************************************************)
\* The browser dispatches an event to a node, which has changed from `before` to
\* `entered`.  Interactive ones flush the updates of those before them.
Dispatch(n, v, interactive, type) ==
  LET d == IF n = 0 THEN dom ELSE Becomes(dom, n, v)
      flushes == interactive /\ MayFlush /\ HasPending(Discrete)
      frame == [call |-> "event", at |-> "dispatch", type |-> type, node |-> n,
                before |-> IF n = 0 THEN None ELSE dom[n], entered |-> v, found |-> None,
                discrete |-> type # "change", flushed |-> flushes, reported |-> FALSE,
                batches |-> FALSE, enters |-> FALSE]
  IN /\ events < MaxEvent /\ events' = events + 1
     /\ IF interactive THEN flushDiscreteUpdates(Append(stack, frame), d)
        ELSE /\ stack' = Append(stack, frame) /\ dom' = d
             /\ UNCHANGED <<shownState, pending, currentValue, workPhase>>
     /\ UNCHANGED <<mode, form, isBatching, restoreQueue, sets, missed>>

\* The user clicks, or code does.
Click(n) ==
  /\ Checkable(n) /\ (Idle \/ (RunsUserCode /\ Nested < MaxNested))
  /\ Dispatch(n, IF form[n].kind = "radio" \/ dom[n] = "false" THEN "true" ELSE "false",
              TRUE, "click")

\* The user types.  The event `change` follows when the node loses the focus.
Type(n, v) == form[n].kind = "text" /\ v # dom[n] /\ Idle /\ Dispatch(n, v, TRUE, "input")
Blur(n) == form[n].kind = "text" /\ Idle /\ Dispatch(n, dom[n], FALSE, "change")

\* The user chooses; `change` comes with an event `input`, which nothing else is
\* made of and which is interactive.
Choose(n, v) == form[n].kind = "select" /\ v # dom[n] /\ Idle /\ Dispatch(n, v, TRUE, "change")

\* Any other interactive event.
OtherEvent == Idle /\ Dispatch(0, None, TRUE, "mouseup")

\* A change is reported for a select always, for other nodes if their value is
\* not what is known of them.
Reports(frame) ==
  /\ frame.node # 0
  /\ form[frame.node].kind = "select" \/ dom[frame.node] # currentValue[frame.node]

\* What is known of a radio that the browser has unchecked is put right when the
\* one that it has checked is restored; until then a click on it goes unnoticed.
OverlooksCousin(frame) ==
  /\ frame.node # 0 /\ form[frame.node].kind = "radio" /\ ~Reports(frame)
  /\ dom[frame.node] # frame.before
  /\ Group(frame.node) \cap ToSet(restoreQueue) # {}

\* handleTopLevel in batchedEventUpdates, up to the handlers.
dispatchEvent ==
  /\ IsAt("dispatch")
  /\ LET reports == Reports(Top)
         enters == ~isBatching /\ workPhase = "NotWorking"
     IN /\ stack' = [stack EXCEPT ![Len(stack)] =
                       [@ EXCEPT !.at = "handlers", !.reported = reports, !.batches = ~isBatching,
                                 !.enters = enters,
                                 !.found = IF Top.node = 0 THEN None ELSE dom[Top.node]]]
        /\ currentValue' = IF reports /\ form[Top.node].kind # "select"
                           THEN [currentValue EXCEPT ![Top.node] = dom[Top.node]] ELSE currentValue
        /\ restoreQueue' = IF reports THEN Append(restoreQueue, Top.node) ELSE restoreQueue
        /\ workPhase' = IF enters THEN "BatchedEvent" ELSE workPhase
  /\ isBatching' = TRUE /\ missed' = (missed \/ OverlooksCousin(Top))
  /\ UNCHANGED <<mode, form, dom, shownState, pending, events, sets>>

\* The handlers have run.
FinishHandlers ==
  /\ IsAt("handlers")
  /\ IF Top.enters
     THEN flushSyncCallbackQueue(GoesTo("finally"), "NotWorking")
     ELSE /\ stack' = (IF Top.batches THEN GoesTo("finally") ELSE Front(stack))
          /\ UNCHANGED <<dom, currentValue, shownState, pending, workPhase>>
  /\ UNCHANGED <<mode, form, isBatching, restoreQueue, events, sets, missed>>

batchedUpdatesFinally ==
  /\ IsAt("finally")
  /\ isBatching' = FALSE
  /\ IF restoreQueue # <<>> THEN flushDiscreteUpdates(GoesTo("restore"), dom)
     ELSE /\ stack' = Front(stack)
          /\ UNCHANGED <<dom, currentValue, shownState, pending, workPhase>>
  /\ UNCHANGED <<mode, form, restoreQueue, events, sets, missed>>

\* A node is restored with the props that it has by now.
restoreStateIfNeeded ==
  /\ IsAt("restore")
  /\ LET w == FoldLeft(LAMBDA v, n : restoreControlledState(v, n, shownState),
                       [dom |-> dom, known |-> currentValue], restoreQueue)
     IN dom' = w.dom /\ currentValue' = w.known
  /\ restoreQueue' = <<>> /\ stack' = Front(stack)
  /\ UNCHANGED <<mode, form, shownState, pending, workPhase, isBatching, events, sets, missed>>

InputNext ==
  \/ \E f \in Field : \E v \in FieldValues(f) : SetState(f, v)
  \/ FlushAtOnce \/ PerformWork \/ FinishCommit \/ batchedUpdates \/ FinishBatch
  \/ \E n \in Node : Click(n) \/ Blur(n) \/ \E v \in Text : Type(n, v) \/ Choose(n, v)
  \/ OtherEvent
  \/ dispatchEvent \/ FinishHandlers \/ batchedUpdatesFinally \/ restoreStateIfNeeded

InputSpec == InputInit /\ [][InputNext]_inputVars
-----------------------------------------------------------------------------
\* Whatever handlers do, accept a change, refuse it, or do it to another input:
\* when nothing runs any more, every controlled input shows what its props say,
\* and what is known of an input is what it shows, so that its next change is
\* noticed (restoreStateIfNeeded, updateNamedCousins).
InputsShowProps ==
  Idle =>
    /\ \A n \in Node :
         /\ form[n].controlled => dom[n] = PropOf(shownState, n)
         /\ form[n].kind # "select" /\ ~missed => currentValue[n] = dom[n]
    /\ workPhase = "NotWorking" /\ ~isBatching /\ restoreQueue = <<>>

\* Handlers are told of a change once, and of nothing that is not a change: not
\* of an event that brings no new value, nor twice of one that brings it again.
\* The code makes exceptions: updates of an earlier event are flushed between a
\* change and its event, and may write over it, or click; and the radios of a
\* group are not compared anew while one of them is being handled.
ChangesAreReported ==
  \A i \in DOMAIN stack :
    stack[i].call = "event" /\ stack[i].at # "dispatch" /\ stack[i].node # 0 =>
      LET frame == stack[i]
          inFlush == \E j \in 1 .. i - 1 : stack[j].call = "event" /\ stack[j].at = "dispatch"
      IN ~inFlush /\ ~missed =>
           /\ form[frame.node].kind # "select" /\ frame.reported => frame.found # frame.before
           /\ frame.entered # frame.before /\ ~frame.flushed => frame.reported
=============================================================================
