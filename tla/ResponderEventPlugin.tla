------------------------ MODULE ResponderEventPlugin ------------------------
(***************************************************************************)
(* The responder lock of touch events: which view, if any, the touches of  *)
(* the screen are given to (responderInst), how views ask for the lock     *)
(* when a touch starts or moves, a view scrolls or a selection changes,    *)
(* how the lock is handed over or refused, and how it is given back when   *)
(* touches end or are cancelled or views are unmounted under them.         *)
(*                                                                         *)
(* Native code reports the touches that change together in one call of     *)
(* receiveTouches, which dispatches an event for each of them; views may   *)
(* be unmounted between two of these events.  What the handlers of the     *)
(* views answer is left open.  Not modelled: places and time stamps of     *)
(* touches, and events of touches that have not started.                   *)
(***************************************************************************)
EXTENDS Integers, FiniteSets, FiniteSetsExt

CONSTANTS
  View,         \* host components
  AncestorsOf,  \* of a view, itself included
  NoView,
  Touch         \* identifiers of touches

ASSUME ResponderAssumption ==
  /\ NoView \notin View /\ AncestorsOf \in [View -> SUBSET View]
  /\ \A v \in View : v \in AncestorsOf[v]
  /\ \A v \in View : \A u \in AncestorsOf[v] : AncestorsOf[u] \subseteq AncestorsOf[v]
  /\ IsFiniteSet(Touch) /\ Touch \subseteq Nat

VARIABLES
  touches,        \* the touches on the screen, with the views in which they started
  dispatching,    \* a call of receiveTouches: the touches with their views, and those left
  responderInst,
  trackedTouchCount,
  touchBank,      \* the identifiers whose record has touchActive set
  numberActiveTouches,
  indexOfSingleActiveTouch,
  mountedViews,   \* the views that are mounted
  grants,         \* how often each view was granted the lock and has not lost it again
  fromTouch       \* whether the lock was taken in an event of a touch

responderVars == <<touches, dispatching, responderInst, trackedTouchCount, touchBank,
                   numberActiveTouches, indexOfSingleActiveTouch, mountedViews, grants, fromTouch>>

ResponderInit ==
  /\ touches = [t \in {} |-> NoView]
  /\ dispatching = [type |-> "none", targets |-> [t \in {} |-> NoView], left |-> {}]
  /\ responderInst = NoView /\ trackedTouchCount = 0
  /\ touchBank = {} /\ numberActiveTouches = 0 /\ indexOfSingleActiveTouch = -1
  /\ mountedViews = View /\ grants = [v \in View |-> 0] /\ fromTouch = FALSE
-----------------------------------------------------------------------------
\* Nothing leads from an unmounted view to the mounted ones: its topmost
\* unmounted ancestor has lost its parent.
PathOf(v) == IF v = NoView THEN {}
             ELSE IF v \in mountedViews THEN AncestorsOf[v] ELSE AncestorsOf[v] \ mountedViews
isAncestor(a, b) == a \in PathOf(b)

\* The ancestors of the lowest common one, which it is one of.
CommonAncestors(a, b) == PathOf(a) \cap PathOf(b)

\* Native code goes on to name a view that is unmounted.
getInstanceFromNode(target) == IF target \in mountedViews THEN target ELSE NoView

isEndish(type) == type \in {"end", "cancel"}

\* Mutant: a touch counts whether or not it is inside of the responder.
AnyTouches(responder) == DOMAIN touches = {}

noResponderTouches(responder) ==
  \A t \in DOMAIN touches : ~isAncestor(responder, getInstanceFromNode(touches[t]))

canTriggerTransfer(type, targetInst) ==
  /\ targetInst # NoView
  /\ type \in {"start", "move", "scroll"} \/ (type = "selectionChange" /\ trackedTouchCount > 0)

\* The lock and the grants, with what the event of the type was before it.
Lock == [responder |-> responderInst, grants |-> grants]
Granted(lock, v) == [lock EXCEPT !.grants[v] = @ + 1]
Ended(lock, v) == [lock EXCEPT !.grants[v] = @ - 1]

\* The outcomes of asking the views from the target up, or from the lowest common
\* ancestor of responder and target, but not the responder itself: no view wants
\* the lock, or the first that does is granted it, and then the responder agrees
\* and is terminated, or it does not and the view that wanted the lock is rejected.
setResponderAndExtractTransfer(targetInst) ==
  LET asked == IF responderInst = NoView THEN PathOf(targetInst)
               ELSE CommonAncestors(responderInst, targetInst) \ {responderInst}
      switched(wants) ==
        LET granted == Granted(Lock, wants)
        IN  [responder |-> wants,
             grants |-> IF responderInst = NoView THEN granted.grants
                      ELSE Ended(granted, responderInst).grants]
      rejected(wants) == Ended(Granted(Lock, wants), wants)
  IN  {Lock} \cup {switched(wants) : wants \in asked}
        \cup {rejected(wants) : wants \in IF responderInst = NoView THEN {} ELSE asked}

\* The final event of a responder: terminate if a touch is cancelled, whichever it
\* is, and release if none that started inside of the responder is left.
Final(type, lock) ==
  IF lock.responder # NoView /\ isEndish(type)
     /\ (type = "cancel" \/ noResponderTouches(lock.responder))
  THEN [Ended(lock, lock.responder) EXCEPT !.responder = NoView]
  ELSE lock

\* extractEvents, but for the counts of touches.
extractEvents(type, targetInst) ==
  \E lock \in IF canTriggerTransfer(type, targetInst)
              THEN setResponderAndExtractTransfer(targetInst) ELSE {Lock} :
    LET final == Final(type, lock)
    IN  /\ responderInst' = final.responder /\ grants' = final.grants
        /\ fromTouch' = (final.responder # NoView
                          /\ (fromTouch \/ (type \in {"start", "move"}
                                            /\ final.responder # responderInst)))

\* ResponderTouchHistoryStore.recordTouchTrack.
recordTouchTrack(type, changed) ==
  /\ touchBank' = IF isEndish(type) THEN touchBank \ changed ELSE touchBank \cup changed
  /\ numberActiveTouches' = IF type = "move" THEN numberActiveTouches
                            ELSE Cardinality(DOMAIN touches)
  /\ indexOfSingleActiveTouch' =
       IF type = "move" \/ numberActiveTouches' # 1 THEN indexOfSingleActiveTouch
       ELSE IF type = "start" THEN CHOOSE t \in DOMAIN touches : TRUE ELSE Min(touchBank')
-----------------------------------------------------------------------------
isIdle == dispatching.left = {}

\* Native code reports touches that start, in mounted views or in none, that move,
\* or that end or are cancelled.  Those are not in nativeEvent.touches any more.
receiveTouches(type, changed) ==
  /\ isIdle /\ changed # {}
  /\ IF type = "start"
     THEN /\ changed \cap DOMAIN touches = {}
          /\ \E target \in [changed -> mountedViews \cup {NoView}] :
               touches' = [t \in changed \cup DOMAIN touches |->
                             IF t \in changed THEN target[t] ELSE touches[t]]
          /\ dispatching' = [type |-> type, targets |-> [t \in changed |-> touches'[t]],
                             left |-> changed]
     ELSE /\ changed \subseteq DOMAIN touches
          /\ touches' = IF isEndish(type) THEN [t \in DOMAIN touches \ changed |-> touches[t]]
                        ELSE touches
          /\ dispatching' = [type |-> type, targets |-> [t \in changed |-> touches[t]],
                             left |-> changed]
  /\ UNCHANGED <<responderInst, trackedTouchCount, touchBank, numberActiveTouches,
                 indexOfSingleActiveTouch, mountedViews, grants, fromTouch>>

\* The event of one of them.
dispatchTouch(t) ==
  LET type == dispatching.type
  IN  /\ t \in dispatching.left
      /\ dispatching' = [dispatching EXCEPT !.left = @ \ {t}]
      /\ trackedTouchCount' = trackedTouchCount + (IF type = "start" THEN 1
                                                   ELSE IF isEndish(type) THEN -1 ELSE 0)
      /\ recordTouchTrack(type, DOMAIN dispatching.targets)
      /\ extractEvents(type, getInstanceFromNode(dispatching.targets[t]))
      /\ UNCHANGED <<touches, mountedViews>>

\* A view scrolls or the selection in it changes.
receiveEvent(type, v) ==
  /\ isIdle /\ v \in mountedViews
  /\ extractEvents(type, v)
  /\ UNCHANGED <<touches, dispatching, trackedTouchCount, touchBank, numberActiveTouches,
                 indexOfSingleActiveTouch, mountedViews>>

\* A view is unmounted with all within it.
unmount(v) ==
  /\ v \in mountedViews /\ AncestorsOf[v] # {v}
  /\ mountedViews' = {u \in mountedViews : v \notin AncestorsOf[u]}
  /\ UNCHANGED <<touches, dispatching, responderInst, trackedTouchCount, touchBank,
                 numberActiveTouches, indexOfSingleActiveTouch, grants, fromTouch>>

ResponderNext ==
  \/ \E type \in {"start", "move", "end", "cancel"}, changed \in SUBSET Touch :
       receiveTouches(type, changed)
  \/ \E t \in Touch : dispatchTouch(t)
  \/ \E type \in {"scroll", "selectionChange"}, v \in View : receiveEvent(type, v)
  \/ \E v \in View : unmount(v)

ResponderSpec == ResponderInit /\ [][ResponderNext]_responderVars
-----------------------------------------------------------------------------
\* At most one view has the lock: the responder has been granted it once and every
\* other view has lost it, or was rejected, as often as it was granted it.  Between
\* two calls of native code the counts and records of touches are those of the
\* screen; and a view that took the lock in an event of a touch has it only while
\* a touch is on the screen that started inside of it, so that the lock is never
\* left to a view that nobody touches (of views that stay mounted, for a touch whose
\* view is gone counts for nobody).
LockFollowsTouches ==
  /\ \A v \in View : grants[v] = IF v = responderInst THEN 1 ELSE 0
  /\ isIdle =>
       LET onScreen == DOMAIN touches
       IN  /\ trackedTouchCount = Cardinality(onScreen) /\ numberActiveTouches = trackedTouchCount
           /\ touchBank = onScreen
           /\ trackedTouchCount = 1 => onScreen = {indexOfSingleActiveTouch}
           /\ fromTouch => \E t \in onScreen :
                /\ touches[t] \in View
                /\ responderInst \in AncestorsOf[touches[t]] \/ touches[t] \notin mountedViews
=============================================================================
