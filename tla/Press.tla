------------------------------- MODULE Press -------------------------------
(***************************************************************************)
(* packages/react-events/src/Press.js, the responder that turns pointer,   *)
(* touch, mouse and keyboard events on an element into press events, with  *)
(* what it uses of the responder context of                                *)
(* packages/react-dom/src/events/DOMEventResponderSystem.js: timers, the   *)
(* registration for root events, ownership by another responder and the    *)
(* queue of events of one dispatch.                                        *)
(*                                                                         *)
(* A device is what a press is made with: "pointer" stands for the pointer *)
(* events of a browser that has them, "touch" and "mouse" for the others,  *)
(* where a touch is followed by emulated mouse events.  Coordinates are    *)
(* abstracted to whether a position is within the responder region.        *)
(***************************************************************************)
EXTENDS Integers, Sequences, SequencesExt, FiniteSets

CONSTANTS
  Browsers,    \* the sets of devices of the browsers
  MaxTimers,   \* bound: the timers that are pending
  MaxOwnership \* bound: the changes of ownership

\* What is assumed of the constants.
ASSUME PressAssumption ==
  /\ UNION Browsers \subseteq {"pointer", "touch", "mouse", "keyboard"}
  /\ MaxTimers \in Nat \ {0} /\ MaxOwnership \in Nat

None == "none"
NoTimer == 0
TimerId == 1 .. MaxTimers + 3

VARIABLES
  props,      \* of the element: delays, whether long presses are listened to, disabled
  state,      \* the PressState
  timers,     \* the pending timers of the responder context, in order of creation
  devices, held, emulated,   \* the environment: the browser's devices, the one that is down,
                             \* the emulated mouse events that are to come
  changes,    \* the changes of ownership so far; after an odd number another responder
              \* owns the events
  mounted

pressVars == <<props, state, timers, devices, held, emulated, changes, mounted>>

createInitialState ==
  [isPressed |-> FALSE, isActivePressStart |-> FALSE, isActivePressed |-> FALSE,
   isLongPressed |-> FALSE, isPressWithinResponderRegion |-> TRUE, pointerType |-> None,
   longPressTimeout |-> NoTimer, pressStartTimeout |-> NoTimer, pressEndTimeout |-> NoTimer,
   addedRootEvents |-> FALSE, allowPressReentry |-> FALSE, ignoreEmulatedMouseEvents |-> FALSE]

PressInit ==
  /\ props \in [delayPressStart : BOOLEAN, delayPressEnd : BOOLEAN,
                onLongPress : BOOLEAN, disabled : {FALSE}]
  /\ state = createInitialState
  /\ timers = <<>>
  /\ devices \in Browsers /\ held = None /\ emulated = <<>>
  /\ changes = 0 /\ mounted = TRUE
-----------------------------------------------------------------------------
(* The functions of the responder take and return the state and the timers. *)
(* What the listeners are told is told by the state: that the press started *)
(* and ended by isActivePressed, a long press by isLongPressed.             *)

Start == [state |-> state, timers |-> timers]

\* A timer's id is a fresh symbol: one that is neither pending nor recorded.
setTimeout(d, kind) ==
  LET used == {d.timers[i].id : i \in DOMAIN d.timers}
                \cup {d.state.longPressTimeout, d.state.pressStartTimeout, d.state.pressEndTimeout}
      id == CHOOSE t \in TimerId : t \notin used
  IN  [d EXCEPT !.timers = Append(@, [id |-> id, kind |-> kind]),
                !.state = CASE kind = "longPress" -> [@ EXCEPT !.longPressTimeout = id]
                            [] kind = "pressStart" -> [@ EXCEPT !.pressStartTimeout = id]
                            [] kind = "pressEnd" -> [@ EXCEPT !.pressEndTimeout = id]]

clearTimeout(d, id) ==
  IF \E i \in DOMAIN d.timers : d.timers[i].id = id
  THEN [d EXCEPT !.timers = RemoveAt(@, CHOOSE i \in DOMAIN @ : @[i].id = id)]
  ELSE d

activate(d) == [d EXCEPT !.state.isActivePressed = TRUE]

deactivate(d) == [d EXCEPT !.state.isActivePressed = FALSE, !.state.isLongPressed = FALSE]

\* The closure that dispatchPressStartEvents calls at once or after a delay.
dispatch(d) ==
  LET active == activate([d EXCEPT !.state.isActivePressStart = TRUE])
  IN  IF props.onLongPress /\ ~active.state.isLongPressed
      THEN setTimeout(active, "longPress")
      ELSE active

dispatchPressStartEvents(d) ==
  LET cleared == IF d.state.pressEndTimeout = NoTimer THEN d
                 ELSE [clearTimeout(d, d.state.pressEndTimeout)
                         EXCEPT !.state.pressEndTimeout = NoTimer]
      pressed == [cleared EXCEPT !.state.isPressed = TRUE]
  IN  IF d.state.isActivePressStart THEN pressed
      ELSE IF props.delayPressStart THEN setTimeout(pressed, "pressStart")
      ELSE dispatch(pressed)

\* Mutant: the timer is forgotten but not cleared.
forgetLongPress(d) == [d EXCEPT !.state.longPressTimeout = NoTimer]

\* dispatchPressEndEvents takes back the timer of a long press.
endLongPress(d) ==
  [clearTimeout(d, d.state.longPressTimeout) EXCEPT !.state.longPressTimeout = NoTimer]

\* withEvent: the handler was called with an event, which it is not when the
\* component unmounts or loses ownership.
dispatchPressEndEvents(d, withEvent) ==
  LET wasActivePressStart == d.state.isActivePressStart
      ended == [d EXCEPT !.state.isActivePressStart = FALSE, !.state.isPressed = FALSE]
      short == endLongPress(ended)
      wasPending == ~wasActivePressStart /\ short.state.pressStartTimeout # NoTimer
      stopped == IF wasPending
                 THEN [clearTimeout(short, short.state.pressStartTimeout)
                         EXCEPT !.state.pressStartTimeout = NoTimer]
                 ELSE short
      activationWasForced ==
        wasPending /\ stopped.state.isPressWithinResponderRegion /\ withEvent
      done == IF activationWasForced THEN activate(stopped) ELSE stopped
  IN  IF ~done.state.isActivePressed THEN done
      ELSE IF props.delayPressEnd \/ activationWasForced THEN setTimeout(done, "pressEnd")
      ELSE deactivate(done)

addRootEventTypes(d) == [d EXCEPT !.state.addedRootEvents = TRUE]

removeRootEventTypes(d) ==
  IF d.state.addedRootEvents
  THEN [d EXCEPT !.state.addedRootEvents = FALSE, !.state.allowPressReentry = FALSE]
  ELSE d

dispatchCancel(d) ==
  IF d.state.isPressed
  THEN dispatchPressEndEvents(
         removeRootEventTypes([d EXCEPT !.state.ignoreEmulatedMouseEvents = FALSE]), TRUE)
  ELSE IF d.state.allowPressReentry THEN removeRootEventTypes(d) ELSE d

unmountResponder(d) ==
  IF d.state.isPressed THEN dispatchPressEndEvents(removeRootEventTypes(d), FALSE) ELSE d

\* onEvent, for an event that starts a press.  An event that is not accepted
\* is of another key or button, or on the hit target around the element.
pressStart(d, device, accepted) ==
  LET ignoring == IF device \in {"pointer", "touch"}
                  THEN [d EXCEPT !.state.ignoreEmulatedMouseEvents = TRUE] ELSE d
      started == [ignoring EXCEPT !.state.allowPressReentry = TRUE,
                                  !.state.pointerType = device,
                                  !.state.isPressWithinResponderRegion = TRUE]
  IN  IF d.state.isPressed THEN d
      ELSE IF ~accepted \/ (device = "mouse" /\ ignoring.state.ignoreEmulatedMouseEvents)
      THEN ignoring
      ELSE addRootEventTypes(dispatchPressStartEvents(started))

\* onEvent while the element is disabled, whatever the event.
disabledEvent(d) ==
  [dispatchPressEndEvents(removeRootEventTypes(d), TRUE)
     EXCEPT !.state.ignoreEmulatedMouseEvents = FALSE]

\* onRootEvent, for a move; far from where the press was activated.
pressMove(d, device, within, far) ==
  LET moved == [d EXCEPT !.state.isPressWithinResponderRegion = within]
  IN  IF ~(d.state.isPressed \/ d.state.allowPressReentry) \/ d.state.pointerType # device THEN d
      ELSE IF within /\ ~d.state.isPressed THEN dispatchPressStartEvents(moved)
      ELSE IF within THEN IF far THEN clearTimeout(moved, moved.state.longPressTimeout) ELSE moved
      ELSE dispatchPressEndEvents(
             IF moved.state.allowPressReentry THEN moved ELSE removeRootEventTypes(moved), TRUE)

\* onRootEvent, for a release.  A position outside of the target is looked up
\* in the region.
pressEnd(d, device, outside, within) ==
  IF d.state.isPressed
  THEN LET where == IF outside THEN [d EXCEPT !.state.isPressWithinResponderRegion = within]
                    ELSE d
       IN  dispatchPressEndEvents(removeRootEventTypes(where), TRUE)
  ELSE IF device = "mouse" /\ d.state.ignoreEmulatedMouseEvents
  THEN [d EXCEPT !.state.ignoreEmulatedMouseEvents = FALSE]
  ELSE IF d.state.allowPressReentry THEN removeRootEventTypes(d)
  ELSE d
-----------------------------------------------------------------------------
(* The steps: native events, timers, ownership and the element itself.     *)

\* Timers come when no handler runs; there is room for those a handler sets.
Room == Len(timers) < MaxTimers

Delivered(d) ==
  /\ state' = d.state /\ timers' = d.timers
  /\ UNCHANGED <<props, devices, mounted>>

\* Not delivered: while another responder owns the events, and after unmounting.
hears == mounted /\ changes % 2 = 0
hearsRoot == hears /\ state.addedRootEvents

\* shouldSkipEventComponent, and disabled, on the way to a target handler.
TargetEvent(d) == IF ~hears THEN Start ELSE IF props.disabled THEN disabledEvent(Start) ELSE d
RootEvent(d) == IF hearsRoot THEN d ELSE Start

Down(device, accepted) ==
  /\ Room /\ held = None /\ emulated = <<>> /\ device \in devices
  /\ held' = IF accepted THEN device ELSE None
  /\ Delivered(TargetEvent(pressStart(Start, device, accepted)))
  /\ UNCHANGED <<emulated, changes>>

\* A mouse or a pointer also moves when it is up.
Move(device, within, far) ==
  /\ Room /\ device \in devices \ {"keyboard"}
  /\ held = device \/ (device # "touch" /\ held = None)
  /\ Delivered(RootEvent(pressMove(Start, device, within, far)))
  /\ UNCHANGED <<held, emulated, changes>>

\* A touch that ends may be followed by emulated mouse events.
Up(outside, within) ==
  /\ Room /\ held # None
  /\ held = "keyboard" => ~outside
  /\ held' = None
  /\ emulated' \in {<<>>} \cup
       (IF held = "touch" THEN {<<"mousedown", "mouseup">>} ELSE {})
  /\ Delivered(RootEvent(pressEnd(Start, held, outside, within)))
  /\ UNCHANGED changes

EmulatedDown ==
  /\ Room /\ emulated # <<>> /\ Head(emulated) = "mousedown"
  /\ emulated' = Tail(emulated)
  /\ Delivered(TargetEvent(pressStart(Start, "mouse", TRUE)))
  /\ UNCHANGED <<held, changes>>

EmulatedUp ==
  /\ Room /\ emulated # <<>> /\ Head(emulated) = "mouseup"
  /\ emulated' = Tail(emulated)
  /\ Delivered(RootEvent(pressEnd(Start, "mouse", FALSE, TRUE)))
  /\ UNCHANGED <<held, changes>>

\* pointercancel and touchcancel, after which no release follows.
PointerCancel ==
  /\ Room /\ held \in {"pointer", "touch"}
  /\ held' = None
  /\ Delivered(RootEvent(dispatchCancel(Start)))
  /\ UNCHANGED <<emulated, changes>>

\* scroll and dragstart, with the device still down.
Scroll ==
  /\ Room /\ hearsRoot
  /\ Delivered(dispatchCancel(Start))
  /\ UNCHANGED <<held, emulated, changes>>

\* A click, or a context menu whose default is prevented: only a disabled
\* element does anything.
Click ==
  /\ Room /\ hears /\ props.disabled
  /\ Delivered(disabledEvent(Start))
  /\ UNCHANGED <<held, emulated, changes>>

\* processTimers; of one kind, and so of one delay, the oldest comes first.
Timer(i) ==
  /\ \A j \in 1 .. i - 1 : timers[j].kind # timers[i].kind
  /\ LET kind == timers[i].kind
         d == [Start EXCEPT !.timers = RemoveAt(@, i)]
     IN  Delivered(
           CASE kind = "pressStart" -> dispatch([d EXCEPT !.state.pressStartTimeout = NoTimer])
             [] kind = "pressEnd" -> deactivate([d EXCEPT !.state.pressEndTimeout = NoTimer])
             [] kind = "longPress" ->
                  [d EXCEPT !.state.isLongPressed = TRUE, !.state.longPressTimeout = NoTimer])
  /\ UNCHANGED <<held, emulated, changes>>

\* Another responder requests or releases ownership; it told its listeners.
OwnershipChange ==
  /\ Room /\ mounted /\ changes < MaxOwnership
  /\ changes' = changes + 1
  /\ Delivered(unmountResponder(Start))
  /\ UNCHANGED <<held, emulated>>

\* The element is rendered with another value of disabled.
SetDisabled ==
  /\ mounted
  /\ props' = [props EXCEPT !.disabled = ~@]
  /\ UNCHANGED <<state, timers, devices, held, emulated, changes, mounted>>

\* unmountEventResponder: what the handler queues is dropped with its queue.
Unmount ==
  /\ Room /\ mounted
  /\ mounted' = FALSE
  /\ LET d == unmountResponder(Start) IN state' = d.state /\ timers' = d.timers
  /\ UNCHANGED <<props, devices, held, emulated, changes>>

PressNext ==
  \/ \E device \in UNION Browsers, accepted \in BOOLEAN : Down(device, accepted)
  \/ \E device \in UNION Browsers, within, far \in BOOLEAN : Move(device, within, far)
  \/ \E outside, within \in BOOLEAN : Up(outside, within)
  \/ EmulatedDown \/ EmulatedUp \/ PointerCancel \/ Scroll \/ Click
  \/ \E i \in DOMAIN timers : Timer(i)
  \/ OwnershipChange \/ SetDisabled \/ Unmount

PressSpec == PressInit /\ [][PressNext]_pressVars
-----------------------------------------------------------------------------
Pending(kind) == {i \in DOMAIN timers : timers[i].kind = kind}

\* Timers that start something belong to the press that is going on.
StartsInPress ==
  /\ Pending("longPress") \cup Pending("pressStart") # {} => state.isPressed
  /\ Cardinality(Pending("longPress")) <= 1 /\ Cardinality(Pending("pressStart")) <= 1

\* onPressEnd is still to come of a press that is over.
EndIsComing == state.isActivePressed /\ ~state.isPressed => Pending("pressEnd") # {}

\* With everything up and no timer left nothing is pressed, and the root's events
\* are not listened to.  (With delayPressEnd a press may be ended by the timer that
\* NoEndDuringPress is about, and a long press noticed later then stays.)
NothingIsLeft ==
  changes = 0 /\ timers = <<>> /\ held = None /\ emulated = <<>> =>
    /\ ~state.isPressed /\ ~state.isActivePressed
    /\ props.delayPressEnd \/ ~state.isLongPressed
    /\ mounted => ~state.addedRootEvents

\* Every press ends, by release, cancellation, another responder or unmounting,
\* with what it started taken back, and nothing of it happens in a later one.
PressesEnd == StartsInPress /\ EndIsComing /\ NothingIsLeft

\* docs/Press.md: if the press starts again before the delay is over, "the delay
\* is reset to prevent onPressEnd being called during a press".
NoEndDuringPress ==
  [][state.isPressed /\ state.isActivePressed /\ ~state'.isActivePressed => ~state'.isPressed]_pressVars
=============================================================================
