--------------------------- MODULE ClassInstance ---------------------------
(***************************************************************************)
(* The instance of a class component and its lifecycle methods             *)
(* (ReactFiberClassComponent.js, updateClassComponent in                   *)
(* ReactFiberBeginWork.js, the lifecycles of ReactFiberCommitWork.js).     *)
(*                                                                         *)
(* There is one instance for the two fibers of a component.  A render      *)
(* assigns props and state to it before anything is committed, and may be  *)
(* given up, or come to the component a second time after an error below   *)
(* it.  A commit calls lifecycles on the instance as it is by then.        *)
(*                                                                         *)
(* The component is rendered by a parent whose state is the value it       *)
(* passes, or that it renders none.  Props and states have an identity     *)
(* besides their value: what a component is given anew is another object.  *)
(***************************************************************************)
EXTENDS Integers, Sequences, FiniteSets, SequencesExt, FiniteSetsExt

CONSTANTS
  Classes,    \* records of what a class defines: gDSFP, snapshot, unsafe, pure
  Value,      \* what the parent passes
  Absent,     \* the state of a parent that renders no component
  None,
  MaxLifecycleTime,    \* expiration times 1 .. MaxLifecycleTime
  MaxIssued, MaxAttempt   \* bounds: updates of applications, renders

Time == 1 .. MaxLifecycleTime
NoLifecycleWork == 0

\* Props, states, updates and fibers, of the component and of its parent.
Props == [id : 1 .. 3, value : Value]
ClassState == [changes : Seq(Nat), value : Nat, derived : Value \cup {None}, errors : Nat]
ClassUpdate == [kind : {"setState", "null", "force"}, value : Nat, id : Nat, time : Time]
               \cup [kind : {"derive"}, value : Value, id : Nat, time : Time]
ClassFiber ==
  [props : Props \cup {None}, pendingProps : Props,
   state : ClassState \cup {None}, base : ClassState \cup {None}, queue : Seq(ClassUpdate),
   time : Time \cup {NoLifecycleWork}, mounted : BOOLEAN,
   effectTag : SUBSET {"Update", "Snapshot", "ShouldCapture", "DidCapture"}]
ParentUpdate == [kind : {"parent"}, value : Value \cup {Absent}, id : {0}, time : Time]
ParentFiber ==
  [state : Value \cup {Absent}, base : Value \cup {Absent}, time : Time \cup {NoLifecycleWork},
   queue : Seq(ParentUpdate)]

ASSUME ClassInstanceAssumption ==
  /\ Classes \subseteq [gDSFP : BOOLEAN, snapshot : BOOLEAN, unsafe : BOOLEAN, pure : BOOLEAN]
  /\ MaxLifecycleTime \in Nat \ {0} /\ MaxIssued \in Nat /\ MaxAttempt \in Nat
  /\ Value # {} /\ Absent \notin Value /\ None \notin Props /\ None \notin ClassFiber
  /\ None \notin ParentFiber

VARIABLES
  class,
  parent, renderedParent,    \* committed and in progress: state, baseState, queue
  committedFiber, workInProgress,   \* the fibers of the component
  instance,                  \* props and state, and the snapshot
  output, renderedOutput,    \* what the last render of the children showed
  attemptTime, lifecyclePhase,
  rendered,                  \* render() was called in this attempt
  call,                      \* the lifecycle that the last step of a commit has called
  issued, attempts,
  settled                    \* history: the changes of the state, in order

lifecycleVars == <<class, parent, renderedParent, committedFiber, workInProgress, instance, output,
                   renderedOutput, attemptTime, lifecyclePhase, rendered, call, issued, attempts,
                   settled>>

Nothing == [props |-> None, state |-> None, snapshot |-> None]
InitialState == [changes |-> <<>>, value |-> 0, derived |-> None, errors |-> 0]

LifecycleInit ==
  /\ class \in Classes
  /\ parent = [state |-> Absent, base |-> Absent, time |-> MaxLifecycleTime,
               queue |-> <<[kind |-> "parent", value |-> CHOOSE v \in Value : TRUE, id |-> 0,
                            time |-> MaxLifecycleTime]>>]
  /\ renderedParent = parent
  /\ committedFiber = None /\ workInProgress = None /\ instance = Nothing
  /\ output = None /\ renderedOutput = None
  /\ attemptTime = NoLifecycleWork /\ lifecyclePhase = "idle" /\ rendered = FALSE /\ call = None
  /\ issued = 0 /\ attempts = 0 /\ settled = <<>>
-----------------------------------------------------------------------------
(***************************************************************************)
(* Updates.                                                                *)
(***************************************************************************)
\* getStateFromUpdate: a new object, but for an updater that returns null.
getStateFromUpdate(state, update) ==
  CASE update.kind = "setState" -> [state EXCEPT !.changes = Append(@, update.id),
                                                 !.value = update.value]
    [] update.kind = "derive" -> [state EXCEPT !.changes = Append(@, update.id),
                                               !.derived = update.value]
    [] update.kind = "parent" -> update.value
    [] OTHER -> state

\* The state after those of the updates whose priority suffices.
stateAfter(base, queue, time) ==
  LET after[n \in 0 .. Len(queue)] ==
        IF n = 0 THEN base
        ELSE IF queue[n].time < time THEN after[n - 1]
        ELSE getStateFromUpdate(after[n - 1], queue[n])
  IN  after[Len(queue)]

\* Updates that are skipped are kept with all that follow them.
processUpdateQueue(f, time) ==
  LET skipped == {i \in DOMAIN f.queue : f.queue[i].time < time}
      first == IF skipped = {} THEN Len(f.queue) + 1 ELSE Min(skipped)
  IN [f EXCEPT !.state = stateAfter(f.base, f.queue, time),
               !.base = stateAfter(f.base, SubSeq(f.queue, 1, first - 1), time),
               !.queue = SubSeq(f.queue, first, Len(f.queue)),
               !.time = Max({f.queue[i].time : i \in skipped} \cup {NoLifecycleWork})]

checkHasForceUpdate(f, time) ==
  \E i \in DOMAIN f.queue : f.queue[i].kind = "force" /\ f.queue[i].time >= time

\* Into the queue of a fiber and of its alternate, if there is one.
enqueued(f, update) ==
  IF f = None THEN None
  ELSE [f EXCEPT !.queue = Append(@, update), !.time = IF @ < update.time THEN update.time ELSE @]

\* The identity of an update that no queue and no state has.
NextId(s) == IF s = <<>> THEN 1 ELSE Last(s) + 1

Between == lifecyclePhase \in {"idle", "begin", "below", "layout"}

\* setState, forceUpdate, and setState with an updater that changes nothing.
enqueueUpdate(kind, time) ==
  /\ Between /\ committedFiber # None /\ issued < MaxIssued /\ issued' = issued + 1
  /\ LET update == [kind |-> kind, value |-> issued + 1, id |-> NextId(settled), time |-> time]
     IN /\ committedFiber' = enqueued(committedFiber, update)
        /\ workInProgress' = enqueued(workInProgress, update)
        /\ settled' = IF kind = "setState" THEN Append(settled, update.id) ELSE settled
  /\ UNCHANGED <<class, parent, renderedParent, instance, output, renderedOutput, attemptTime,
                 lifecyclePhase, rendered, call, attempts>>

\* The state of the parent is set.
updateParent(v, time) ==
  /\ Between /\ issued < MaxIssued /\ issued' = issued + 1
  /\ LET update == [kind |-> "parent", value |-> v, id |-> 0, time |-> time]
     IN parent' = enqueued(parent, update) /\ renderedParent' = enqueued(renderedParent, update)
  /\ UNCHANGED <<class, committedFiber, workInProgress, instance, output, renderedOutput,
                 attemptTime, lifecyclePhase, rendered, call, attempts, settled>>
-----------------------------------------------------------------------------
(***************************************************************************)
(* The render phase.                                                       *)
(***************************************************************************)
\* An element that the parent has created: another one than those in use.
Element(v) ==
  LET shown == IF committedFiber = None THEN None ELSE committedFiber.props
      used == {p.id : p \in {instance.props, shown} \ {None}}
  IN [id |-> Min((1 .. 3) \ used), value |-> v]

createWorkInProgress(f, props) == [f EXCEPT !.pendingProps = props, !.effectTag = {}]
createFiber(props) ==
  [props |-> None, pendingProps |-> props, state |-> None, base |-> None, queue |-> <<>>,
   time |-> NoLifecycleWork, mounted |-> FALSE, effectTag |-> {}]

\* A render begins, whether another one is in progress or finished.  The parent
\* has an element for the component, or goes on with the one it had.
startAttempt(time) ==
  /\ lifecyclePhase \in {"idle", "begin", "below"}
  /\ attempts < MaxAttempt /\ attempts' = attempts + 1
  /\ LET p == processUpdateQueue(parent, time)
         renders == parent.time >= time
         props == IF renders /\ p.state # Absent THEN Element(p.state)
                  ELSE IF committedFiber = None THEN None ELSE committedFiber.props
     IN /\ renderedParent' = IF renders THEN p ELSE parent
        /\ workInProgress' = IF (IF renders THEN p ELSE parent).state = Absent THEN None
                             ELSE IF committedFiber = None THEN createFiber(props)
                             ELSE createWorkInProgress(committedFiber, props)
  /\ attemptTime' = time /\ renderedOutput' = output /\ rendered' = FALSE /\ call' = None
  /\ lifecyclePhase' = IF workInProgress' = None THEN "below" ELSE "begin"
  /\ UNCHANGED <<class, parent, committedFiber, instance, output, issued, settled>>

hasNewLifecycles == class.gDSFP \/ class.snapshot
notCommitted == committedFiber = None
wip == workInProgress

\* callComponentWillReceiveProps and componentWillMount: the usual ones set state
\* from the props.
derivedBy(f, id) ==
  enqueued(f, [kind |-> "derive", value |-> wip.pendingProps.value, id |-> id,
               time |-> attemptTime])

getDerivedStateFromProps(state, props) ==
  IF class.gDSFP THEN [state EXCEPT !.derived = props.value] ELSE state

\* Derived state is kept as base state once the queue is empty.
applyDerivedStateFromProps(f, props) ==
  LET state == getDerivedStateFromProps(f.state, props)
  IN [f EXCEPT !.state = state, !.base = IF f.queue = <<>> THEN state ELSE @]

\* finishClassComponent: the children are rendered from the instance.
renderedFiber(f, tags) ==
  [f EXCEPT !.props = f.pendingProps, !.mounted = TRUE, !.effectTag = @ \cup tags]
Shown(f) == [props |-> f.props.value, value |-> f.state.value, derived |-> f.state.derived,
             failed |-> f.state.errors > 0]

\* The component is left with f, and is rendered or not.
leave(f, renders, tags) ==
  /\ workInProgress' = renderedFiber(f, tags)
  /\ instance' = [instance EXCEPT !.props = f.pendingProps, !.state = f.state]
  /\ renderedOutput' = IF renders THEN Shown(workInProgress') ELSE renderedOutput
  /\ rendered' = (rendered \/ renders)
  /\ lifecyclePhase' = "below"

beginUnchanged == <<class, parent, renderedParent, output, attemptTime, call, issued, attempts>>

\* constructClassInstance and mountClassInstance.
mountClassInstance ==
  /\ lifecyclePhase = "begin" /\ notCommitted /\ ~wip.mounted
  /\ LET new == [wip EXCEPT !.state = InitialState, !.base = InitialState]
         derived == applyDerivedStateFromProps(new, wip.pendingProps)
         willMount == class.unsafe /\ ~hasNewLifecycles
         f == IF willMount
              THEN processUpdateQueue(derivedBy(derived, 1), attemptTime) ELSE derived
     IN leave(f, TRUE, {"Update"}) /\ settled' = IF willMount THEN <<1>> ELSE <<>>
  /\ UNCHANGED <<beginUnchanged, committedFiber>>

\* resumeMountClassInstance and updateClassInstance: wip.props are those of the
\* last attempt in this render, or of the current fiber.
NoWorkOnFiber == wip.time < attemptTime /\ "ShouldCapture" \notin wip.effectTag
Receives == class.unsafe /\ ~hasNewLifecycles /\ wip.props # wip.pendingProps

receivedFiber == IF Receives THEN derivedBy(wip, NextId(settled)) ELSE wip
capturedFiber(f) ==
  IF "ShouldCapture" \in wip.effectTag
  THEN [f EXCEPT !.state.errors = @ + 1, !.base.errors = IF f.queue = <<>> THEN @ + 1 ELSE @,
                 !.effectTag = (@ \ {"ShouldCapture"}) \cup {"DidCapture"}]
  ELSE f
processedFiber == capturedFiber(processUpdateQueue(receivedFiber, attemptTime))
forced == checkHasForceUpdate(wip, attemptTime)
didCapture == "DidCapture" \in processedFiber.effectTag

derivedFiber == applyDerivedStateFromProps(processedFiber, wip.pendingProps)
Shallow(state) == <<state.value, state.derived, state.errors > 0>>
shouldUpdate ==
  \/ forced \/ ~class.pure \/ wip.props.value # wip.pendingProps.value
  \/ Shallow(wip.state) # Shallow(derivedFiber.state)

sameAsBefore == wip.props = wip.pendingProps /\ wip.state = processedFiber.state /\ ~forced

changedSinceCommit ==
  ~notCommitted /\ (wip.props # committedFiber.props \/ wip.state # committedFiber.state)
Effects(updates) ==
  IF notCommitted THEN {"Update"}
  ELSE IF updates THEN {"Update"} \cup (IF class.snapshot THEN {"Snapshot"} ELSE {}) ELSE {}

\* An update of componentWillReceiveProps is put into the queues of both fibers.
receive ==
  /\ settled' = IF Receives THEN Append(settled, NextId(settled)) ELSE settled
  /\ committedFiber' = IF Receives /\ ~notCommitted
                       THEN derivedBy(committedFiber, NextId(settled)) ELSE committedFiber

begins == lifecyclePhase = "begin" /\ (wip.mounted \/ ~notCommitted)

beginClassWithoutWork ==
  /\ begins /\ wip.props = wip.pendingProps /\ NoWorkOnFiber
  /\ lifecyclePhase' = "below"
  /\ UNCHANGED <<beginUnchanged, committedFiber, workInProgress, instance, renderedOutput, rendered,
                 settled>>

updateClassInstance ==
  /\ begins /\ ~(wip.props = wip.pendingProps /\ NoWorkOnFiber)
  /\ IF sameAsBefore THEN leave(processedFiber, didCapture, Effects(changedSinceCommit))
     ELSE leave(derivedFiber, shouldUpdate \/ didCapture,
                Effects(shouldUpdate \/ changedSinceCommit))
  /\ receive
  /\ UNCHANGED beginUnchanged

\* A child throws: the component is the boundary.
throwException ==
  /\ lifecyclePhase = "below" /\ wip # None /\ "DidCapture" \notin wip.effectTag
  /\ workInProgress' = [wip EXCEPT !.effectTag = @ \cup {"ShouldCapture"}]
  /\ lifecyclePhase' = "begin"
  /\ UNCHANGED <<beginUnchanged, committedFiber, instance, renderedOutput, rendered, settled>>
-----------------------------------------------------------------------------
(***************************************************************************)
(* The commit phase.  A commit with no effects on the component passes it. *)
(***************************************************************************)
Calls(name, prev) ==
  call' = [name |-> name, previous |-> prev, this |-> instance', fiber |-> workInProgress]
commitUnchanged == <<class, attemptTime, issued, attempts, settled>>

commitBeforeMutationLifeCycles ==
  /\ lifecyclePhase = "below" /\ lifecyclePhase' = "mutation"
  /\ IF wip # None /\ ~notCommitted /\ "Snapshot" \in wip.effectTag
     THEN /\ instance' = [instance EXCEPT !.snapshot = output]
          /\ Calls("getSnapshotBeforeUpdate", committedFiber)
     ELSE UNCHANGED <<instance, call>>
  /\ UNCHANGED <<commitUnchanged, parent, renderedParent, committedFiber, workInProgress, output,
                 renderedOutput, rendered>>

\* Mutant: componentWillUnmount sees what was assigned last.
UnmountsAsItIs ==
  IF wip = None /\ ~notCommitted
  THEN /\ UNCHANGED instance
       /\ call' = [name |-> "componentWillUnmount", previous |-> committedFiber, this |-> instance,
                   fiber |-> committedFiber]
  ELSE UNCHANGED instance /\ call' = None

\* componentWillUnmount is called with what is committed.
callComponentWillUnmount ==
  IF wip = None /\ ~notCommitted
  THEN /\ instance' = [instance EXCEPT !.props = committedFiber.props,
                                       !.state = committedFiber.state]
       /\ call' = [name |-> "componentWillUnmount", previous |-> committedFiber, this |-> instance',
                   fiber |-> committedFiber]
  ELSE UNCHANGED instance /\ call' = None

commitMutation ==
  /\ lifecyclePhase = "mutation" /\ lifecyclePhase' = "layout"
  /\ callComponentWillUnmount
  /\ output' = IF wip = None THEN None ELSE renderedOutput
  /\ parent' = renderedParent
  \* root.current = finishedWork: what was current is the alternate
  /\ committedFiber' = wip /\ workInProgress' = committedFiber
  /\ UNCHANGED <<commitUnchanged, renderedParent, renderedOutput, rendered>>

commitLifeCycles ==
  /\ lifecyclePhase = "layout" /\ lifecyclePhase' = "idle"
  /\ IF committedFiber # None /\ "Update" \in committedFiber.effectTag
     THEN call' = [name |-> IF workInProgress = None THEN "componentDidMount"
                            ELSE "componentDidUpdate",
                   previous |-> workInProgress, this |-> instance, fiber |-> committedFiber]
     ELSE call' = None
  /\ workInProgress' = None
  /\ instance' = IF committedFiber = None THEN Nothing ELSE instance
  /\ attemptTime' = NoLifecycleWork /\ rendered' = FALSE
  /\ UNCHANGED <<class, parent, renderedParent, committedFiber, output, renderedOutput, issued,
                 attempts, settled>>

LifecycleNext ==
  \/ \E t \in Time : \/ startAttempt(t)
                      \/ \E kind \in {"setState", "null", "force"} : enqueueUpdate(kind, t)
                      \/ \E v \in Value \cup {Absent} : updateParent(v, t)
  \/ mountClassInstance \/ beginClassWithoutWork \/ updateClassInstance
  \/ throwException
  \/ commitBeforeMutationLifeCycles \/ commitMutation \/ commitLifeCycles

LifecycleSpec == LifecycleInit /\ [][LifecycleNext]_lifecycleVars
-----------------------------------------------------------------------------
\* A lifecycle that a commit calls sees, as `this`, the props and the state that
\* are committed, or leave with the component, although abandoned renders have
\* assigned others: "Expected props to match memoized props".  The snapshot it is
\* given is of what this commit has replaced.
LifecyclesSeeCommit ==
  call # None =>
    /\ call.this.props = call.fiber.props /\ call.this.state = call.fiber.state
    /\ call.name = "componentDidUpdate" /\ class.snapshot =>
         call.this.snapshot = Shown(call.previous)

\* Between commits the children show the props and the state of the component,
\* rendered or reused; what is derived from props is derived from these, by
\* componentWillReceiveProps once no update is left (an update that is skipped
\* keeps it in the queue, and a more urgent render does without it again); updates
\* have been applied in their order; and the component is told of a commit that
\* changes what it shows, and of none for which it was not rendered.
ShowsWhatIsCommitted ==
  /\ lifecyclePhase \in {"idle", "begin", "below"} /\ committedFiber # None =>
       /\ output = Shown(committedFiber)
       /\ class.gDSFP => output.derived = output.props
       /\ committedFiber.queue = <<>> =>
            /\ committedFiber.state.changes = settled
            /\ class.unsafe /\ ~hasNewLifecycles => output.derived = output.props
  /\ lifecyclePhase = "layout" /\ committedFiber # None =>
       /\ "Update" \in committedFiber.effectTag => rendered
       /\ workInProgress = None \/ output # Shown(workInProgress)
            \/ (rendered /\ "DidCapture" \notin committedFiber.effectTag) =>
            "Update" \in committedFiber.effectTag

\* Both: lifecycles see, and children show, what is committed.
LifecyclesAgree == LifecyclesSeeCommit /\ ShowsWhatIsCommitted
=============================================================================
