---------------------------- MODULE EventProofs ----------------------------
(***************************************************************************)
(* Touches and presses end as they should.                                 *)
(*                                                                         *)
(* For every tree of views and every finite set of touches, the responder  *)
(* lock follows the touches of the screen: LockFollowsTouches is an        *)
(* invariant of the responder plugin.  It says nothing between the events  *)
(* of one call of receiveTouches.  The inductive one does: the count of    *)
(* touches lags behind the screen by the touches that are left to          *)
(* dispatch, while the records catch up at the first event; and when       *)
(* touches end, a view may have the lock for one of them until that event. *)
(*                                                                         *)
(* For every set of browsers, any number of timers and of changes of       *)
(* ownership, every press ends: PressesEnd is an invariant of the press    *)
(* responder.                                                              *)
(***************************************************************************)
EXTENDS ResponderEventPlugin, Press, SequenceTheorems, FiniteSetTheorems, TLAPS

(***************************************************************************)
(* The responder plugin.                                                   *)
(***************************************************************************)
Target == View \cup {NoView}

ResponderTypeOK ==
  /\ DOMAIN touches \subseteq Touch /\ touches \in [DOMAIN touches -> Target]
  /\ dispatching = [type |-> dispatching.type, targets |-> dispatching.targets,
                    left |-> dispatching.left]
  /\ dispatching.type \in {"none", "start", "move", "end", "cancel"}
  /\ DOMAIN dispatching.targets \subseteq Touch
  /\ dispatching.targets \in [DOMAIN dispatching.targets -> Target]
  /\ dispatching.left \subseteq DOMAIN dispatching.targets
  /\ responderInst \in Target /\ mountedViews \subseteq View /\ fromTouch \in BOOLEAN
  /\ grants \in [View -> Int]

\* The touches of the call are on the screen, or have left it.
CallOK ==
  /\ dispatching.type \in {"start", "move"} =>
       \A t \in DOMAIN dispatching.targets :
         t \in DOMAIN touches /\ dispatching.targets[t] = touches[t]
  /\ isEndish(dispatching.type) => DOMAIN dispatching.targets \cap DOMAIN touches = {}
  /\ dispatching.type = "none" => dispatching.left = {}

Counted == IF dispatching.type = "start" THEN DOMAIN touches \ dispatching.left
           ELSE IF isEndish(dispatching.type) THEN DOMAIN touches \cup dispatching.left
           ELSE DOMAIN touches

Recorded == IF dispatching.left = DOMAIN dispatching.targets THEN Counted ELSE DOMAIN touches

CountsOK ==
  /\ trackedTouchCount = Cardinality(Counted)
  /\ touchBank = Recorded
  /\ numberActiveTouches = Cardinality(touchBank)
  /\ numberActiveTouches = 1 => touchBank = {indexOfSingleActiveTouch}

GrantsOK == \A v \in View : grants[v] = IF v = responderInst THEN 1 ELSE 0

\* A touch that started at v keeps the lock, or v is gone.
Within(v) == v \in View /\ (responderInst \in AncestorsOf[v] \/ v \notin mountedViews)

InsideOK ==
  fromTouch =>
    /\ responderInst # NoView
    /\ \/ \E t \in DOMAIN touches : Within(touches[t])
       \/ /\ isEndish(dispatching.type) /\ dispatching.left = DOMAIN dispatching.targets
          /\ \E t \in dispatching.left : Within(dispatching.targets[t])

ResponderInv == ResponderTypeOK /\ CallOK /\ CountsOK /\ GrantsOK /\ InsideOK
-----------------------------------------------------------------------------
\* What holds of a lock: its responder is the one view with a grant.
LockOK(lock) ==
  /\ lock = [responder |-> lock.responder, grants |-> lock.grants]
  /\ lock.responder \in Target /\ lock.grants \in [View -> Int]
  /\ \A v \in View : lock.grants[v] = IF v = lock.responder THEN 1 ELSE 0

\* The outcomes of extractEvents before the final event.
Outcomes(type, targetInst) == IF canTriggerTransfer(type, targetInst)
                              THEN setResponderAndExtractTransfer(targetInst) ELSE {Lock}

LEMMA PathsAreViews ==
  ASSUME ResponderAssumption, ResponderTypeOK, NEW v \in Target
  PROVE  PathOf(v) \subseteq View /\ (v # NoView => PathOf(v) \subseteq AncestorsOf[v])
BY DEF ResponderAssumption, PathOf, Target

\* Whatever the views answer, one of them at most has the lock; and if it is
\* another one than before, it is above the target, and above the responder.
LEMMA OutcomesAreLocks ==
  ASSUME ResponderAssumption, ResponderTypeOK, GrantsOK,
         NEW type, NEW targetInst \in Target, NEW lock \in Outcomes(type, targetInst)
  PROVE  /\ LockOK(lock)
         /\ lock.responder # responderInst =>
              /\ targetInst # NoView /\ lock.responder \in AncestorsOf[targetInst]
              /\ responderInst # NoView => lock.responder \in AncestorsOf[responderInst]
<1>1. LockOK(Lock) /\ Lock.responder = responderInst
  BY DEF LockOK, Lock, ResponderTypeOK, GrantsOK
<1>2. CASE lock = Lock
  BY <1>1, <1>2
<1>3. CASE lock # Lock
  <2> DEFINE asked == IF responderInst = NoView THEN PathOf(targetInst)
                      ELSE CommonAncestors(responderInst, targetInst) \ {responderInst}
  <2>1. lock \in setResponderAndExtractTransfer(targetInst) /\ targetInst # NoView
    BY <1>3 DEF Outcomes, canTriggerTransfer
  <2>2. responderInst \in Target /\ grants \in [View -> Int]
    BY DEF ResponderTypeOK
  <2>3. asked \subseteq View /\ asked \subseteq AncestorsOf[targetInst] /\ responderInst \notin asked
        /\ (responderInst # NoView => asked \subseteq AncestorsOf[responderInst])
    <3>1. PathOf(targetInst) \subseteq View /\ PathOf(targetInst) \subseteq AncestorsOf[targetInst]
      BY <2>1, PathsAreViews
    <3>2. responderInst # NoView => PathOf(responderInst) \subseteq AncestorsOf[responderInst]
      BY <2>2, PathsAreViews
    <3> QED
      BY <3>1, <3>2 DEF CommonAncestors, ResponderAssumption
  <2>4. PICK wants \in asked :
          \/ lock = [responder |-> wants,
                     grants |-> IF responderInst = NoView THEN Granted(Lock, wants).grants
                              ELSE Ended(Granted(Lock, wants), responderInst).grants]
          \/ lock = Ended(Granted(Lock, wants), wants)
    BY <1>3, <2>1 DEF setResponderAndExtractTransfer
  <2>5. wants \in View /\ wants # responderInst /\ wants # NoView
    BY <2>3, <2>4 DEF ResponderAssumption
  <2> DEFINE granted == [grants EXCEPT ![wants] = @ + 1]
  <2>6. Granted(Lock, wants) = [responder |-> responderInst, grants |-> granted]
    BY DEF Granted, Lock
  <2>7. grants[wants] = 0 /\ (responderInst # NoView => grants[responderInst] = 1)
    BY <2>2, <2>5 DEF GrantsOK, Target
  <2>10. granted \in [View -> Int] /\ granted[wants] = grants[wants] + 1
         /\ \A v \in View : v # wants => granted[v] = grants[v]
    BY <2>2, <2>5
  <2> HIDE DEF granted
  <2>8. CASE lock = Ended(Granted(Lock, wants), wants)
    <3>1. lock = [responder |-> responderInst,
                  grants |-> [granted EXCEPT ![wants] = @ - 1]]
      BY <2>6, <2>8 DEF Ended
    <3>2. ASSUME NEW v \in View
          PROVE  [granted EXCEPT ![wants] = @ - 1][v] = grants[v]
      BY <2>2, <2>5, <2>10
    <3>3. [granted EXCEPT ![wants] = @ - 1] = grants
      BY <2>2, <2>10, <3>2
    <3> QED
      BY <1>1, <3>1, <3>3 DEF Lock
  <2>9. CASE lock # Ended(Granted(Lock, wants), wants)
    <3> DEFINE after == IF responderInst = NoView THEN granted
                        ELSE [granted EXCEPT ![responderInst] = @ - 1]
    <3>1. lock = [responder |-> wants, grants |-> after]
      BY <2>4, <2>6, <2>9 DEF Ended
    <3>2. after \in [View -> Int]
      BY <2>2, <2>5, <2>10 DEF Target
    <3>3. ASSUME NEW v \in View
          PROVE  after[v] = IF v = wants THEN 1 ELSE 0
      <4>1. grants[v] = IF v = responderInst THEN 1 ELSE 0
        BY DEF GrantsOK
      <4>2. CASE responderInst = NoView
        BY <2>5, <2>7, <2>10, <4>1, <4>2 DEF ResponderAssumption
      <4>3. CASE responderInst # NoView
        <5>1. after = [granted EXCEPT ![responderInst] = @ - 1]
          BY <4>3
        <5>2. responderInst \in View
          BY <2>2, <4>3 DEF Target
        <5> HIDE DEF after
        <5> QED
          BY <2>5, <2>7, <2>10, <4>1, <4>3, <5>1, <5>2
      <4> QED
        BY <4>2, <4>3
    <3>4. LockOK(lock)
      <4> HIDE DEF after
      <4> QED
        BY <2>5, <3>1, <3>2, <3>3 DEF LockOK, Target
    <3> QED
      BY <2>1, <2>3, <2>4, <3>1, <3>4
  <2> QED
    BY <2>8, <2>9
<1> QED
  BY <1>2, <1>3

\* The final event takes the lock from its view, and leaves no view the lock after
\* the end of a touch unless another one started inside of the view.
LEMMA FinalIsLock ==
  ASSUME ResponderTypeOK, ResponderAssumption, NEW type, NEW lock, LockOK(lock)
  PROVE  /\ LockOK(Final(type, lock))
         /\ Final(type, lock).responder # NoView =>
              /\ Final(type, lock) = lock
              /\ isEndish(type) => \E t \in DOMAIN touches :
                   isAncestor(lock.responder, getInstanceFromNode(touches[t]))
<1> DEFINE isFinal == lock.responder # NoView /\ isEndish(type)
                      /\ (type = "cancel" \/ noResponderTouches(lock.responder))
<1>1. CASE ~isFinal
  BY <1>1 DEF Final, noResponderTouches
<1>2. CASE isFinal
  <2> DEFINE after == [lock.grants EXCEPT ![lock.responder] = @ - 1]
  <2>1. Final(type, lock) = [responder |-> NoView, grants |-> after]
    BY <1>2 DEF Final, Ended, LockOK
  <2>2. lock.responder \in View /\ lock.grants \in [View -> Int]
    BY <1>2 DEF LockOK, Target
  <2>3. after \in [View -> Int] /\ \A v \in View : after[v] = 0
    BY <2>2 DEF LockOK
  <2> HIDE DEF after
  <2> QED
    BY <2>1, <2>3 DEF LockOK, Target, ResponderAssumption
<1> QED
  BY <1>1, <1>2
-----------------------------------------------------------------------------
LEMMA TouchesAreFinite ==
  ASSUME ResponderAssumption, NEW S, S \subseteq Touch
  PROVE  IsFiniteSet(S) /\ Cardinality(S) \in Nat
BY FS_Subset, FS_CardinalityType DEF ResponderAssumption

LEMMA InitIsOK == ResponderAssumption /\ ResponderInit => ResponderInv
<1> SUFFICES ASSUME ResponderAssumption, ResponderInit PROVE ResponderInv
  OBVIOUS
<1> USE DEF ResponderInit
<1>1. ResponderTypeOK
  <2>1. touches \in [{} -> Target] /\ DOMAIN touches = {}
    OBVIOUS
  <2>2. /\ dispatching.type = "none" /\ dispatching.left = {}
        /\ dispatching.targets \in [{} -> Target] /\ DOMAIN dispatching.targets = {}
    OBVIOUS
  <2>3. dispatching = [type |-> dispatching.type, targets |-> dispatching.targets,
                       left |-> dispatching.left]
    OBVIOUS
  <2>4. grants \in [View -> Int] /\ responderInst \in Target
    BY DEF Target
  <2> QED
    BY <2>1, <2>2, <2>3, <2>4 DEF ResponderTypeOK
<1>2. CallOK
  BY DEF CallOK, isEndish
<1>3. CountsOK
  <2>1. Counted = {} /\ Recorded = {}
    BY DEF Counted, Recorded, isEndish
  <2> QED
    BY <2>1, FS_EmptySet DEF CountsOK
<1>4. GrantsOK
  BY DEF GrantsOK, ResponderAssumption
<1>5. InsideOK
  BY DEF InsideOK
<1> QED
  BY <1>1, <1>2, <1>3, <1>4, <1>5 DEF ResponderInv

\* A call of receiveTouches: the screen is ahead of the counts and the records.
LEMMA ReceiveTouchesIsOK ==
  ASSUME ResponderAssumption, ResponderInv, NEW type \in {"start", "move", "end", "cancel"},
         NEW changed \in SUBSET Touch, receiveTouches(type, changed)
  PROVE  ResponderInv'
<1> USE DEF ResponderInv
<1>1. /\ dispatching.left = {} /\ changed # {}
      /\ UNCHANGED <<responderInst, trackedTouchCount, touchBank, numberActiveTouches,
                     indexOfSingleActiveTouch, mountedViews, grants, fromTouch>>
  BY DEF receiveTouches, isIdle
<1>2. Counted = DOMAIN touches /\ Recorded = DOMAIN touches
  BY <1>1 DEF Counted, Recorded
<1>3. CASE type = "start"
  <2>1. PICK target \in [changed -> mountedViews \cup {NoView}] :
          touches' = [t \in changed \cup DOMAIN touches |->
                        IF t \in changed THEN target[t] ELSE touches[t]]
    BY <1>3 DEF receiveTouches
  <2>2. /\ changed \cap DOMAIN touches = {}
        /\ dispatching' = [type |-> type, targets |-> [t \in changed |-> touches'[t]],
                           left |-> changed]
    BY <1>3 DEF receiveTouches
  <2>3. DOMAIN touches' = changed \cup DOMAIN touches
    BY <2>1
  <2>4. \A t \in changed : touches'[t] \in Target
    BY <2>1 DEF ResponderTypeOK, Target
  <2>5. \A t \in DOMAIN touches : touches'[t] = touches[t]
    BY <2>1, <2>2
  <2>6. touches' \in [DOMAIN touches' -> Target]
    BY <2>1, <2>3, <2>4, <2>5 DEF ResponderTypeOK
  <2>7. ResponderTypeOK'
    BY <1>1, <1>3, <2>2, <2>3, <2>4, <2>6 DEF ResponderTypeOK
  <2>8. CallOK'
    BY <1>3, <2>2, <2>3 DEF CallOK, isEndish
  <2>9. Counted' = DOMAIN touches /\ Recorded' = DOMAIN touches
    BY <1>3, <2>2, <2>3 DEF Counted, Recorded
  <2>10. CountsOK'
    BY <1>1, <1>2, <2>9 DEF CountsOK
  <2>11. GrantsOK'
    BY <1>1 DEF GrantsOK
  <2>12. InsideOK'
    <3> SUFFICES ASSUME fromTouch PROVE /\ responderInst # NoView
                                        /\ \E t \in DOMAIN touches' : Within(touches[t])'
      BY <1>1 DEF InsideOK, Within
    <3>1. responderInst # NoView /\ \E t \in DOMAIN touches : Within(touches[t])
      BY <1>1 DEF InsideOK
    <3> QED
      BY <1>1, <2>3, <2>5, <3>1 DEF Within
  <2> QED
    BY <2>7, <2>8, <2>10, <2>11, <2>12
<1>4. CASE type # "start"
  <2> DEFINE remaining == IF isEndish(type) THEN DOMAIN touches \ changed ELSE DOMAIN touches
  <2>1. /\ changed \subseteq DOMAIN touches
        /\ DOMAIN touches' = remaining /\ \A t \in remaining : touches'[t] = touches[t]
        /\ touches' \in [remaining -> Target]
        /\ dispatching' = [type |-> type, targets |-> [t \in changed |-> touches[t]],
                           left |-> changed]
    BY <1>4 DEF receiveTouches, ResponderTypeOK
  <2>2. ResponderTypeOK'
    BY <1>1, <2>1 DEF ResponderTypeOK
  <2>3. CallOK'
    BY <1>4, <2>1 DEF CallOK, isEndish
  <2>4. Counted' = DOMAIN touches /\ Recorded' = DOMAIN touches
    BY <1>4, <2>1 DEF Counted, Recorded, isEndish
  <2>5. CountsOK'
    BY <1>1, <1>2, <2>4 DEF CountsOK
  <2>6. GrantsOK'
    BY <1>1 DEF GrantsOK
  <2>7. InsideOK'
    <3> SUFFICES ASSUME fromTouch
                 PROVE  /\ responderInst # NoView
                        /\ \/ \E t \in remaining : Within(touches[t])
                           \/ isEndish(type) /\ \E t \in changed : Within(touches[t])
      BY <1>1, <2>1 DEF InsideOK, Within
    <3>1. responderInst # NoView /\ \E t \in DOMAIN touches : Within(touches[t])
      BY <1>1 DEF InsideOK
    <3> QED
      BY <3>1
  <2> QED
    BY <2>2, <2>3, <2>5, <2>6, <2>7
<1> QED
  BY <1>3, <1>4

\* The outcome of an event, as the lemmas above have it.
LEMMA ExtractEventsIsOK ==
  ASSUME ResponderAssumption, ResponderInv, NEW type, NEW targetInst \in Target,
         extractEvents(type, targetInst), UNCHANGED <<touches, mountedViews>>
  PROVE  /\ responderInst' \in Target /\ grants' \in [View -> Int] /\ fromTouch' \in BOOLEAN
         /\ GrantsOK'
         /\ fromTouch' =>
              /\ responderInst' # NoView
              /\ isEndish(type) => \E t \in DOMAIN touches : Within(touches[t])'
              /\ \/ fromTouch /\ \A v \in View : Within(v) => Within(v)'
                 \/ type \in {"start", "move"} /\ targetInst # NoView
                    /\ responderInst' \in AncestorsOf[targetInst]
<1> USE DEF ResponderInv
<1>1. PICK lock \in Outcomes(type, targetInst) :
        /\ responderInst' = Final(type, lock).responder /\ grants' = Final(type, lock).grants
        /\ fromTouch' = (Final(type, lock).responder # NoView
                         /\ (fromTouch \/ (type \in {"start", "move"}
                                           /\ Final(type, lock).responder # responderInst)))
  BY DEF extractEvents, Outcomes
<1>2. LockOK(lock) /\ LockOK(Final(type, lock))
  BY OutcomesAreLocks, FinalIsLock
<1>3. responderInst' \in Target /\ grants' \in [View -> Int] /\ fromTouch' \in BOOLEAN /\ GrantsOK'
  BY <1>1, <1>2 DEF LockOK, GrantsOK, ResponderTypeOK
<1> SUFFICES ASSUME fromTouch'
             PROVE  /\ responderInst' # NoView
                    /\ isEndish(type) => \E t \in DOMAIN touches : Within(touches[t])'
                    /\ \/ fromTouch /\ \A v \in View : Within(v) => Within(v)'
                       \/ type \in {"start", "move"} /\ targetInst # NoView
                          /\ responderInst' \in AncestorsOf[targetInst]
  BY <1>3
<1>4. responderInst' # NoView /\ Final(type, lock) = lock /\ responderInst' = lock.responder
  BY <1>1, <1>2, FinalIsLock
<1>5. ASSUME isEndish(type)
      PROVE  \E t \in DOMAIN touches : Within(touches[t])'
  <2>1. PICK t \in DOMAIN touches : isAncestor(responderInst', getInstanceFromNode(touches[t]))
    BY <1>2, <1>4, <1>5, FinalIsLock
  <2>2. touches[t] \in mountedViews /\ responderInst' \in AncestorsOf[touches[t]]
    BY <2>1 DEF isAncestor, PathOf, getInstanceFromNode
  <2> QED
    BY <2>2 DEF Within, ResponderTypeOK
<1>6. CASE responderInst' = responderInst
  BY <1>1, <1>4, <1>5, <1>6 DEF Within
<1>7. CASE responderInst' # responderInst
  <2>1. /\ targetInst # NoView /\ responderInst' \in AncestorsOf[targetInst]
        /\ responderInst # NoView => responderInst' \in AncestorsOf[responderInst]
    BY <1>4, <1>7, OutcomesAreLocks
  <2>2. CASE fromTouch
    <3>1. responderInst # NoView /\ responderInst' \in AncestorsOf[responderInst]
      BY <2>1, <2>2 DEF InsideOK
    <3>2. ASSUME NEW v \in View, Within(v)
          PROVE  Within(v)'
      BY <3>1, <3>2 DEF Within, ResponderAssumption
    <3> QED
      BY <1>4, <1>5, <2>2, <3>2
  <2>3. CASE ~fromTouch
    BY <1>1, <1>4, <1>5, <2>1, <2>3
  <2> QED
    BY <2>2, <2>3
<1> QED
  BY <1>6, <1>7, <1>5

\* The event of one touch: the count catches up by one, the records altogether.
LEMMA DispatchTouchIsOK ==
  ASSUME ResponderAssumption, ResponderInv, NEW t \in Touch, dispatchTouch(t)
  PROVE  ResponderInv'
<1> DEFINE type == dispatching.type
           targetInst == getInstanceFromNode(dispatching.targets[t])
           onScreen == DOMAIN touches
<1> USE DEF ResponderInv
<1>1. /\ t \in dispatching.left /\ t \in DOMAIN dispatching.targets
      /\ dispatching' = [dispatching EXCEPT !.left = @ \ {t}]
      /\ trackedTouchCount' = trackedTouchCount + (IF type = "start" THEN 1
                                                   ELSE IF isEndish(type) THEN -1 ELSE 0)
      /\ recordTouchTrack(type, DOMAIN dispatching.targets)
      /\ extractEvents(type, targetInst)
      /\ UNCHANGED <<touches, mountedViews>>
  BY DEF dispatchTouch, ResponderTypeOK
<1>2. /\ dispatching'.type = type /\ dispatching'.targets = dispatching.targets
      /\ dispatching'.left = dispatching.left \ {t}
      /\ dispatching' = [type |-> dispatching'.type, targets |-> dispatching'.targets,
                         left |-> dispatching'.left]
  BY <1>1 DEF ResponderTypeOK
<1>3. type \in {"start", "move", "end", "cancel"}
  BY <1>1 DEF ResponderTypeOK, CallOK
<1>4. targetInst \in Target
  BY DEF getInstanceFromNode, Target, ResponderTypeOK
<1>5. /\ responderInst' \in Target /\ grants' \in [View -> Int] /\ fromTouch' \in BOOLEAN
      /\ GrantsOK'
      /\ fromTouch' =>
           /\ responderInst' # NoView
           /\ isEndish(type) => \E u \in onScreen : Within(touches[u])'
           /\ \/ fromTouch /\ \A v \in View : Within(v) => Within(v)'
              \/ type \in {"start", "move"} /\ targetInst # NoView
                 /\ responderInst' \in AncestorsOf[targetInst]
  <2> HIDE DEF type, targetInst, onScreen
  <2>1. extractEvents(type, targetInst) /\ UNCHANGED <<touches, mountedViews>>
    BY <1>1
  <2> QED
    BY <1>4, <2>1, ExtractEventsIsOK DEF onScreen
<1>6. ResponderTypeOK'
  BY <1>1, <1>2, <1>3, <1>5 DEF ResponderTypeOK
<1>7. CallOK'
  BY <1>1, <1>2, <1>3 DEF CallOK
<1>8. Counted \subseteq Touch /\ IsFiniteSet(Counted) /\ Cardinality(Counted) \in Nat
      /\ onScreen \subseteq Touch /\ IsFiniteSet(onScreen) /\ Cardinality(onScreen) \in Nat
  <2>1. Counted \subseteq Touch /\ onScreen \subseteq Touch
    BY DEF Counted, ResponderTypeOK
  <2> QED
    BY <2>1, TouchesAreFinite
<1>9. trackedTouchCount' = Cardinality(Counted')
  <2>1. CASE type = "start"
    <3>1. t \notin Counted /\ Counted' = Counted \cup {t}
      BY <1>1, <1>2, <2>1 DEF Counted, CallOK
    <3>2. Cardinality(Counted') = Cardinality(Counted) + 1
      BY <1>8, <3>1, FS_AddElement
    <3> QED
      BY <1>1, <2>1, <3>2 DEF CountsOK
  <2>2. CASE isEndish(type)
    <3>1. t \in Counted /\ Counted' = Counted \ {t}
      BY <1>1, <1>2, <2>2 DEF Counted, CallOK, isEndish
    <3>2. Cardinality(Counted') = Cardinality(Counted) - 1
      BY <1>8, <3>1, FS_RemoveElement
    <3> QED
      BY <1>1, <1>8, <2>2, <3>2 DEF CountsOK, isEndish
  <2>3. CASE type = "move"
    <3>1. Counted' = Counted
      BY <1>1, <1>2, <2>3 DEF Counted, isEndish
    <3> QED
      BY <1>1, <1>8, <2>3, <3>1 DEF CountsOK, isEndish
  <2> QED
    BY <1>3, <2>1, <2>2, <2>3 DEF isEndish
<1>10. touchBank' = onScreen /\ Recorded' = onScreen
  <2>1. Recorded' = onScreen
    BY <1>1, <1>2 DEF Recorded
  <2>2. CASE type = "start"
    <3>1. touchBank' = touchBank \cup DOMAIN dispatching.targets
      BY <1>1, <2>2 DEF recordTouchTrack, isEndish
    <3> QED
      BY <1>1, <2>1, <2>2, <3>1 DEF CountsOK, Recorded, Counted, CallOK, ResponderTypeOK
  <2>3. CASE isEndish(type)
    <3>1. touchBank' = touchBank \ DOMAIN dispatching.targets
      BY <1>1, <2>3 DEF recordTouchTrack
    <3> QED
      BY <1>1, <2>1, <2>3, <3>1 DEF CountsOK, Recorded, Counted, CallOK, isEndish
  <2>4. CASE type = "move"
    <3>1. touchBank' = touchBank \cup DOMAIN dispatching.targets
      BY <1>1, <2>4 DEF recordTouchTrack, isEndish
    <3> QED
      BY <1>1, <2>1, <2>4, <3>1 DEF CountsOK, Recorded, Counted, CallOK, isEndish
  <2> QED
    BY <1>3, <2>2, <2>3, <2>4 DEF isEndish
<1>11. numberActiveTouches' = Cardinality(onScreen)
       /\ (numberActiveTouches' = 1 => onScreen = {indexOfSingleActiveTouch'})
  <2>1. CASE type = "move"
    <3>1. touchBank = onScreen
      BY <2>1 DEF CountsOK, Recorded, Counted, isEndish
    <3> QED
      BY <1>1, <2>1, <3>1 DEF recordTouchTrack, CountsOK
  <2>2. CASE type # "move"
    <3>1. numberActiveTouches' = Cardinality(onScreen)
      BY <1>1, <2>2 DEF recordTouchTrack
    <3>2. ASSUME numberActiveTouches' = 1
          PROVE  onScreen = {indexOfSingleActiveTouch'}
      <4>1. PICK x : onScreen = {x}
        BY <1>8, <3>1, <3>2, FS_Singleton
      <4>2. x \in Nat
        BY <1>8, <4>1 DEF ResponderAssumption
      <4>3. Min(touchBank') = x
        BY <1>10, <4>1, <4>2 DEF Min
      <4>4. (CHOOSE u \in onScreen : TRUE) = x
        BY <4>1
      <4> QED
        BY <1>1, <2>2, <3>2, <4>1, <4>3, <4>4 DEF recordTouchTrack
    <3> QED
      BY <3>1, <3>2
  <2> QED
    BY <2>1, <2>2
<1>12. CountsOK'
  BY <1>9, <1>10, <1>11 DEF CountsOK
<1>13. InsideOK'
  <2> SUFFICES ASSUME fromTouch'
               PROVE  responderInst' # NoView /\ \E u \in onScreen : Within(touches[u])'
    BY <1>1 DEF InsideOK
  <2>1. CASE isEndish(type)
    BY <1>5, <2>1
  <2>2. CASE ~isEndish(type) /\ fromTouch /\ \A v \in View : Within(v) => Within(v)'
    <3>1. PICK u \in onScreen : Within(touches[u])
      BY <2>2 DEF InsideOK
    <3>2. touches[u] \in View
      BY <3>1 DEF Within
    <3>3. Within(touches[u])'
      BY <1>1, <2>2, <3>1, <3>2 DEF Within
    <3> QED
      BY <1>5, <3>3
  <2>3. CASE type \in {"start", "move"} /\ targetInst # NoView
             /\ responderInst' \in AncestorsOf[targetInst]
    <3>1. t \in onScreen /\ targetInst = touches[t] /\ touches[t] \in View
      BY <1>1, <2>3 DEF getInstanceFromNode, CallOK, ResponderTypeOK
    <3>2. Within(touches[t])'
      BY <1>1, <2>3, <3>1 DEF Within
    <3> QED
      BY <1>5, <3>1, <3>2
  <2> QED
    BY <1>5, <2>1, <2>2, <2>3
<1> QED
  BY <1>5, <1>6, <1>7, <1>12, <1>13

\* A scroll or a new selection between two calls.
LEMMA ReceiveEventIsOK ==
  ASSUME ResponderAssumption, ResponderInv, NEW type \in {"scroll", "selectionChange"},
         NEW v \in View, receiveEvent(type, v)
  PROVE  ResponderInv'
<1> USE DEF ResponderInv
<1>1. /\ dispatching.left = {} /\ extractEvents(type, v) /\ v \in Target
      /\ UNCHANGED <<touches, dispatching, trackedTouchCount, touchBank, numberActiveTouches,
                     indexOfSingleActiveTouch, mountedViews>>
  BY DEF receiveEvent, isIdle, Target
<1>2. /\ responderInst' \in Target /\ grants' \in [View -> Int] /\ fromTouch' \in BOOLEAN
      /\ GrantsOK'
      /\ fromTouch' => /\ responderInst' # NoView /\ fromTouch
                       /\ \A u \in View : Within(u) => Within(u)'
  BY <1>1, ExtractEventsIsOK
<1>3. ResponderTypeOK'
  BY <1>1, <1>2 DEF ResponderTypeOK
<1>4. CallOK'
  BY <1>1 DEF CallOK
<1>5. Counted' = Counted /\ Recorded' = Recorded
  BY <1>1 DEF Counted, Recorded
<1>6. CountsOK'
  BY <1>1, <1>5 DEF CountsOK
<1>7. InsideOK'
  <2> SUFFICES ASSUME fromTouch'
               PROVE  responderInst' # NoView /\ \E t \in DOMAIN touches : Within(touches[t])'
    BY <1>1 DEF InsideOK
  <2>1. PICK t \in DOMAIN touches : Within(touches[t])
    BY <1>1, <1>2 DEF InsideOK
  <2>2. Within(touches[t])'
    BY <1>1, <1>2, <2>1 DEF Within
  <2> QED
    BY <1>2, <2>2
<1> QED
  BY <1>2, <1>3, <1>4, <1>6, <1>7

\* Views that go take no lock with them.
LEMMA UnmountIsOK ==
  ASSUME ResponderAssumption, ResponderInv, NEW v \in View, unmount(v)
  PROVE  ResponderInv'
<1> USE DEF ResponderInv
<1>1. /\ mountedViews' \subseteq mountedViews
      /\ UNCHANGED <<touches, dispatching, responderInst, trackedTouchCount, touchBank,
                     numberActiveTouches, indexOfSingleActiveTouch, grants, fromTouch>>
  BY DEF unmount
<1>2. ResponderTypeOK' /\ CallOK' /\ GrantsOK'
  BY <1>1 DEF ResponderTypeOK, CallOK, GrantsOK
<1>3. Counted' = Counted /\ Recorded' = Recorded
  BY <1>1 DEF Counted, Recorded
<1>4. CountsOK'
  BY <1>1, <1>3 DEF CountsOK
<1>5. InsideOK'
  BY <1>1 DEF InsideOK, Within
<1> QED
  BY <1>2, <1>4, <1>5

LEMMA StutteringIsOK ==
  ASSUME ResponderInv, UNCHANGED responderVars
  PROVE  ResponderInv'
BY DEF responderVars, ResponderInv, ResponderTypeOK, CallOK, CountsOK, Counted, Recorded, GrantsOK, InsideOK, Within

\* At most one view has the lock; the counts and records of touches are those of the
\* screen between two calls of native code; and a view that took the lock in an
\* event of a touch has it only while a touch is on the screen that started inside
\* of it: for every tree of views and every finite set of touches.
THEOREM LockFollows == ResponderAssumption => (ResponderSpec => []LockFollowsTouches)
<1> SUFFICES ASSUME ResponderAssumption PROVE ResponderSpec => []LockFollowsTouches
  OBVIOUS
<1>1. ResponderInit => ResponderInv
  BY InitIsOK
<1>2. ResponderInv /\ [ResponderNext]_responderVars => ResponderInv'
  <2> SUFFICES ASSUME ResponderInv, [ResponderNext]_responderVars PROVE ResponderInv'
    OBVIOUS
  <2>1. ASSUME NEW type \in {"start", "move", "end", "cancel"}, NEW changed \in SUBSET Touch,
               receiveTouches(type, changed)
        PROVE  ResponderInv'
    BY <2>1, ReceiveTouchesIsOK
  <2>2. ASSUME NEW t \in Touch, dispatchTouch(t) PROVE ResponderInv'
    BY <2>2, DispatchTouchIsOK
  <2>3. ASSUME NEW type \in {"scroll", "selectionChange"}, NEW v \in View, receiveEvent(type, v)
        PROVE  ResponderInv'
    BY <2>3, ReceiveEventIsOK
  <2>4. ASSUME NEW v \in View, unmount(v) PROVE ResponderInv'
    BY <2>4, UnmountIsOK
  <2>5. CASE UNCHANGED responderVars
    BY <2>5, StutteringIsOK
  <2> QED
    BY <2>1, <2>2, <2>3, <2>4, <2>5 DEF ResponderNext
<1>3. ResponderInv => LockFollowsTouches
  <2> SUFFICES ASSUME ResponderInv PROVE LockFollowsTouches
    OBVIOUS
  <2>1. \A v \in View : grants[v] = IF v = responderInst THEN 1 ELSE 0
    BY DEF ResponderInv, GrantsOK
  <2>2. isIdle => Counted = DOMAIN touches /\ Recorded = DOMAIN touches
    BY DEF isIdle, Counted, Recorded
  <2>3. isIdle /\ fromTouch => \E t \in DOMAIN touches : Within(touches[t])
    BY DEF ResponderInv, InsideOK, isIdle
  <2>4. CountsOK
    BY DEF ResponderInv
  <2> QED
    BY <2>1, <2>2, <2>3, <2>4 DEF LockFollowsTouches, CountsOK, Within
<1> QED
  BY <1>1, <1>2, <1>3, PTL DEF ResponderSpec

(***************************************************************************)
(* The press responder.                                                    *)
(***************************************************************************)
Device == {"pointer", "touch", "mouse", "keyboard"}
Kind == {"longPress", "pressStart", "pressEnd"}
Timers == [id : TimerId, kind : Kind]
PressState ==
  [isPressed : BOOLEAN, isActivePressStart : BOOLEAN, isActivePressed : BOOLEAN,
   isLongPressed : BOOLEAN, isPressWithinResponderRegion : BOOLEAN,
   pointerType : Device \cup {None},
   longPressTimeout : TimerId \cup {NoTimer}, pressStartTimeout : TimerId \cup {NoTimer},
   pressEndTimeout : TimerId \cup {NoTimer},
   addedRootEvents : BOOLEAN, allowPressReentry : BOOLEAN, ignoreEmulatedMouseEvents : BOOLEAN]
Data == [state : PressState, timers : Seq(Timers)]

PressTypeOK ==
  /\ props \in [delayPressStart : BOOLEAN, delayPressEnd : BOOLEAN,
                onLongPress : BOOLEAN, disabled : BOOLEAN]
  /\ devices \in Browsers /\ held \in Device \cup {None}
  /\ emulated \in {<<>>, <<"mouseup">>, <<"mousedown", "mouseup">>}
  /\ changes \in Nat /\ mounted \in BOOLEAN

\* The timers of a responder by themselves, each of which has an id of its own.
TimersOf(d) == {d.timers[i] : i \in DOMAIN d.timers}
Distinct(s) == \A i, j \in DOMAIN s : s[i].id = s[j].id => i = j
OfKind(d, kind) == {t \in TimersOf(d) : t.kind = kind}

\* Timers that start something are recorded and belong to a press that has
\* begun, a long press after its start and a start before it.
StartsOK(d) ==
  /\ \A t \in OfKind(d, "pressStart") :
       t.id = d.state.pressStartTimeout /\ d.state.isPressed /\ ~d.state.isActivePressStart
  /\ d.state.pressStartTimeout # NoTimer => d.state.isPressed /\ ~d.state.isActivePressStart
  /\ \A t \in OfKind(d, "longPress") :
       t.id = d.state.longPressTimeout /\ d.state.isPressed /\ d.state.isActivePressStart
  /\ d.state.isActivePressStart => d.state.isPressed

EndOK(d) == d.state.isActivePressed /\ ~d.state.isPressed => OfKind(d, "pressEnd") # {}

\* Without a delay of the end nothing ends a press while it goes on.
NoDelayOK(d) ==
  ~props.delayPressEnd =>
    /\ d.state.isActivePressStart \/ d.state.isLongPressed => d.state.isActivePressed
    /\ \A t \in OfKind(d, "pressEnd") :
         t.id = d.state.pressEndTimeout /\ ~d.state.isPressed

DataOK(d) ==
  /\ d \in Data /\ Distinct(d.timers)
  /\ StartsOK(d) /\ EndOK(d) /\ NoDelayOK(d)

RoomOK == Len(timers) <= MaxTimers

ListensOK == state.isPressed => mounted /\ state.addedRootEvents

\* The root's events are listened to while a device may end the press.
HeldOK ==
  /\ emulated # <<>> => held = None
  /\ mounted /\ changes = 0 /\ state.addedRootEvents =>
       /\ state.isPressed \/ state.allowPressReentry
       /\ state.pointerType # None
       /\ \/ held = state.pointerType
          \/ held = None /\ state.pointerType = "mouse" /\ emulated = <<"mouseup">>
       /\ state.pointerType = "mouse" => ~state.ignoreEmulatedMouseEvents

PressInv == PressTypeOK /\ DataOK(Start) /\ RoomOK /\ ListensOK /\ HeldOK
-----------------------------------------------------------------------------
(* Timers.                                                                 *)

\* Removing the element at place i of any sequence.
LEMMA RemoveAtElements ==
  ASSUME NEW T, NEW s \in Seq(T), NEW i \in 1 .. Len(s)
  PROVE  /\ RemoveAt(s, i) \in Seq(T)
         /\ Len(RemoveAt(s, i)) = Len(s) - 1
         /\ \A k \in 1 .. Len(s) - 1 : RemoveAt(s, i)[k] = IF k < i THEN s[k] ELSE s[k + 1]
<1> DEFINE r == RemoveAt(s, i)
           front == SubSeq(s, 1, i - 1)
           back == SubSeq(s, i + 1, Len(s))
<1>1. Len(s) \in Nat /\ i \in Nat
  BY LenProperties
<1>2. /\ front \in Seq(T) /\ Len(front) = i - 1
      /\ \A k \in 1 .. i - 1 : front[k] = s[k]
  BY <1>1
<1>3. /\ back \in Seq(T) /\ Len(back) = Len(s) - i
      /\ \A k \in 1 .. Len(s) - i : back[k] = s[i + k]
  BY <1>1
<1> HIDE DEF front, back
<1>4. r = front \o back
  BY DEF RemoveAt, front, back
<1> HIDE DEF r
<1>5. r \in Seq(T) /\ Len(r) = Len(s) - 1
  <2>1. r \in Seq(T) /\ Len(r) = Len(front) + Len(back)
    BY <1>2, <1>3, <1>4, ConcatProperties, Zenon
  <2> QED  BY <1>1, <1>2, <1>3, <2>1
<1>6. \A k \in 1 .. Len(front) + Len(back) :
        r[k] = IF k <= Len(front) THEN front[k] ELSE back[k - Len(front)]
  BY <1>2, <1>3, <1>4, ConcatProperties, Zenon
<1>7. ASSUME NEW k \in 1 .. Len(s) - 1
      PROVE  r[k] = IF k < i THEN s[k] ELSE s[k + 1]
  <2>1. r[k] = IF k <= i - 1 THEN front[k] ELSE back[k - (i - 1)]
    BY <1>1, <1>2, <1>3, <1>6
  <2>2. CASE k < i
    BY <1>1, <1>2, <2>1, <2>2
  <2>3. CASE k >= i
    <3>1. k - (i - 1) \in 1 .. Len(s) - i /\ i + (k - (i - 1)) = k + 1
      BY <1>1, <2>3
    <3>2. back[k - (i - 1)] = s[i + (k - (i - 1))]
      BY <1>3, <3>1, Zenon
    <3> QED  BY <1>1, <2>1, <2>3, <3>1, <3>2
  <2> QED  BY <1>1, <2>2, <2>3
<1> QED  BY <1>5, <1>7 DEF r

LEMMA RemovedTimer ==
  ASSUME NEW s \in Seq(Timers), NEW i \in 1 .. Len(s), Distinct(s)
  PROVE  /\ RemoveAt(s, i) \in Seq(Timers)
         /\ Len(RemoveAt(s, i)) = Len(s) - 1
         /\ Distinct(RemoveAt(s, i))
         /\ {RemoveAt(s, i)[j] : j \in DOMAIN RemoveAt(s, i)} = {s[j] : j \in DOMAIN s} \ {s[i]}
<1> DEFINE r == RemoveAt(s, i)
<1>1. Len(s) \in Nat /\ DOMAIN s = 1 .. Len(s) /\ i \in Nat
  BY LenProperties
<1>2. /\ r \in Seq(Timers) /\ Len(r) = Len(s) - 1
      /\ \A k \in 1 .. Len(s) - 1 : r[k] = IF k < i THEN s[k] ELSE s[k + 1]
  BY RemoveAtElements, Zenon
<1> HIDE DEF r
<1>3. DOMAIN r = 1 .. Len(s) - 1
  BY <1>2, LenProperties
<1>4. Distinct(r)
  <2> SUFFICES ASSUME NEW j \in DOMAIN r, NEW k \in DOMAIN r, r[j].id = r[k].id
               PROVE  j = k
    BY DEF Distinct
  <2> DEFINE from(n) == IF n < i THEN n ELSE n + 1
  <2>1. from(j) \in DOMAIN s /\ r[j] = s[from(j)]
    BY <1>1, <1>2, <1>3
  <2>2. from(k) \in DOMAIN s /\ r[k] = s[from(k)]
    BY <1>1, <1>2, <1>3
  <2>3. from(j) = from(k)
    BY <2>1, <2>2, Zenon DEF Distinct
  <2> QED  BY <1>1, <1>3, <2>3
<1>5. ASSUME NEW j \in DOMAIN s, j # i
      PROVE  \E k \in DOMAIN r : r[k] = s[j]
  <2>1. CASE j < i
    BY <1>1, <1>2, <1>3, <2>1
  <2>2. CASE j > i
    <3>1. j - 1 \in 1 .. Len(s) - 1 /\ r[j - 1] = s[j - 1 + 1] /\ j - 1 + 1 = j
      BY <1>1, <1>2, <2>2
    <3> QED  BY <1>3, <3>1
  <2> QED  BY <1>1, <1>5, <2>1, <2>2
<1>6. ASSUME NEW k \in DOMAIN r
      PROVE  \E j \in DOMAIN s : j # i /\ r[k] = s[j]
  <2>1. CASE k < i
    BY <1>1, <1>2, <1>3, <2>1
  <2>2. CASE k >= i
    <3>1. k + 1 \in DOMAIN s /\ k + 1 # i /\ r[k] = s[k + 1]
      BY <1>1, <1>2, <1>3, <2>2
    <3> QED  BY <3>1
  <2> QED  BY <1>1, <1>3, <2>1, <2>2
<1>7. \A j \in DOMAIN s : s[j] = s[i] => j = i
  BY <1>1 DEF Distinct
<1>8. {r[j] : j \in DOMAIN r} = {s[j] : j \in DOMAIN s} \ {s[i]}
  BY <1>5, <1>6, <1>7
<1> QED  BY <1>2, <1>4, <1>8 DEF r

LEMMA AddedTimer ==
  ASSUME NEW s \in Seq(Timers), NEW t \in Timers, Distinct(s),
         \A j \in DOMAIN s : s[j].id # t.id
  PROVE  /\ Append(s, t) \in Seq(Timers)
         /\ Len(Append(s, t)) = Len(s) + 1
         /\ Distinct(Append(s, t))
         /\ {Append(s, t)[j] : j \in DOMAIN Append(s, t)} = {s[j] : j \in DOMAIN s} \cup {t}
<1> DEFINE r == Append(s, t)
<1>1. Len(s) \in Nat /\ DOMAIN s = 1 .. Len(s)
  BY LenProperties
<1>2. /\ r \in Seq(Timers) /\ Len(r) = Len(s) + 1 /\ DOMAIN r = 1 .. Len(s) + 1
      /\ \A j \in 1 .. Len(s) : r[j] = s[j]
      /\ r[Len(s) + 1] = t
  BY AppendProperties, LenProperties
<1>3. Distinct(r)
  BY <1>1, <1>2 DEF Distinct
<1> HIDE DEF r
<1>4. {r[j] : j \in DOMAIN r} = {s[j] : j \in DOMAIN s} \cup {t}
  BY <1>1, <1>2
<1> QED  BY <1>2, <1>3, <1>4 DEF r

\* What clearTimeout does.
LEMMA ClearedTimer ==
  ASSUME NEW d \in Data, NEW id, Distinct(d.timers)
  PROVE  /\ clearTimeout(d, id) \in Data /\ clearTimeout(d, id).state = d.state
         /\ Distinct(clearTimeout(d, id).timers)
         /\ Len(clearTimeout(d, id).timers) <= Len(d.timers)
         /\ TimersOf(clearTimeout(d, id)) = {t \in TimersOf(d) : t.id # id}
<1>1. d.timers \in Seq(Timers) /\ Len(d.timers) \in Nat /\ DOMAIN d.timers = 1 .. Len(d.timers)
  BY LenProperties DEF Data
<1>2. CASE \E i \in DOMAIN d.timers : d.timers[i].id = id
  <2> DEFINE i == CHOOSE i \in DOMAIN d.timers : d.timers[i].id = id
             c == clearTimeout(d, id)
  <2>1. i \in DOMAIN d.timers /\ d.timers[i].id = id
    BY <1>2
  <2>2. c = [d EXCEPT !.timers = RemoveAt(d.timers, i)]
    BY <1>2 DEF clearTimeout
  <2> HIDE DEF i, c
  <2>3. /\ RemoveAt(d.timers, i) \in Seq(Timers)
        /\ Len(RemoveAt(d.timers, i)) = Len(d.timers) - 1
        /\ Distinct(RemoveAt(d.timers, i))
        /\ {RemoveAt(d.timers, i)[j] : j \in DOMAIN RemoveAt(d.timers, i)}
             = {d.timers[j] : j \in DOMAIN d.timers} \ {d.timers[i]}
    BY <1>1, <2>1, RemovedTimer
  <2>4. c.state = d.state /\ c.timers = RemoveAt(d.timers, i) /\ c \in Data
    BY <2>2, <2>3 DEF Data
  <2>5. {d.timers[j] : j \in DOMAIN d.timers} \ {d.timers[i]} = {t \in TimersOf(d) : t.id # id}
    BY <2>1 DEF TimersOf, Distinct
  <2>6. TimersOf(c) = {t \in TimersOf(d) : t.id # id}
    BY <2>3, <2>4, <2>5 DEF TimersOf
  <2> QED  BY <1>1, <2>3, <2>4, <2>6 DEF c
<1>3. CASE ~ \E i \in DOMAIN d.timers : d.timers[i].id = id
  BY <1>1, <1>3 DEF clearTimeout, TimersOf
<1> QED  BY <1>2, <1>3

\* The ids of the timers that are pending or recorded, of which there are fewer
\* than all while there is room.
UsedIds(d) ==
  {d.timers[i].id : i \in DOMAIN d.timers}
    \cup {d.state.longPressTimeout, d.state.pressStartTimeout, d.state.pressEndTimeout}

LEMMA OneMore ==
  ASSUME NEW S, NEW x, IsFiniteSet(S), Cardinality(S) \in Nat
  PROVE  /\ IsFiniteSet(S \cup {x}) /\ Cardinality(S \cup {x}) \in Nat
         /\ Cardinality(S \cup {x}) <= Cardinality(S) + 1
<1>1. Cardinality(S \cup {x}) = IF x \in S THEN Cardinality(S) ELSE Cardinality(S) + 1
  BY FS_AddElement, Zenon
<1>2. IsFiniteSet(S \cup {x})
  BY FS_AddElement, Zenon
<1> QED  BY <1>1, <1>2

LEMMA FreshId ==
  ASSUME NEW d \in Data, Len(d.timers) < MaxTimers
  PROVE  \E id \in TimerId : id \notin UsedIds(d)
<1> DEFINE pending == {d.timers[i].id : i \in 1 .. Len(d.timers)}
<1>1. /\ d.timers \in Seq(Timers) /\ Len(d.timers) \in Nat /\ DOMAIN d.timers = 1 .. Len(d.timers)
      /\ MaxTimers \in Nat
  BY LenProperties, PressAssumption DEF Data
<1>2. IsFiniteSet(1 .. Len(d.timers)) /\ Cardinality(1 .. Len(d.timers)) = Len(d.timers)
  BY <1>1, FS_Interval
<1>3. IsFiniteSet(pending) /\ Cardinality(pending) \in Nat /\ Cardinality(pending) <= Len(d.timers)
  <2> DEFINE f == [i \in 1 .. Len(d.timers) |-> d.timers[i].id]
  <2>1. f \in Surjection(1 .. Len(d.timers), pending)
    BY DEF Surjection
  <2> HIDE DEF f, pending
  <2> QED  BY <1>2, <2>1, FS_Surjection, FS_CardinalityType
<1> DEFINE one == pending \cup {d.state.longPressTimeout}
           two == one \cup {d.state.pressStartTimeout}
           three == two \cup {d.state.pressEndTimeout}
<1> HIDE DEF pending
<1>4. IsFiniteSet(one) /\ Cardinality(one) \in Nat /\ Cardinality(one) <= Cardinality(pending) + 1
  BY <1>3, OneMore
<1> HIDE DEF one
<1>5. IsFiniteSet(two) /\ Cardinality(two) \in Nat /\ Cardinality(two) <= Cardinality(one) + 1
  BY <1>4, OneMore
<1> HIDE DEF two
<1>6. IsFiniteSet(three) /\ Cardinality(three) \in Nat /\ Cardinality(three) <= Cardinality(two) + 1
  BY <1>5, OneMore
<1> HIDE DEF three
<1>7. IsFiniteSet(three) /\ Cardinality(three) < MaxTimers + 3
  BY <1>1, <1>3, <1>4, <1>5, <1>6
<1>8. IsFiniteSet(TimerId) /\ Cardinality(TimerId) = MaxTimers + 3
  BY <1>1, FS_Interval DEF TimerId
<1>9. ~(TimerId \subseteq three)
  <2> SUFFICES ASSUME TimerId \subseteq three
               PROVE  FALSE
    OBVIOUS
  <2>1. Cardinality(TimerId) <= Cardinality(three)
    BY <1>7, FS_Subset
  <2> QED  BY <1>1, <1>7, <1>8, <1>6, <2>1
<1>10. three = UsedIds(d)
  BY <1>1 DEF UsedIds, pending, one, two, three
<1> QED  BY <1>9, <1>10

\* What setTimeout does, to the timers and to the field of its kind.
LEMMA StartedTimer ==
  ASSUME NEW d \in Data, NEW kind \in Kind, Distinct(d.timers), Len(d.timers) < MaxTimers
  PROVE  \E id \in TimerId : LET s == setTimeout(d, kind) IN
           /\ id \notin UsedIds(d)
           /\ s \in Data /\ Distinct(s.timers) /\ Len(s.timers) = Len(d.timers) + 1
           /\ TimersOf(s) = TimersOf(d) \cup {[id |-> id, kind |-> kind]}
           /\ kind = "longPress" => s.state = [d.state EXCEPT !.longPressTimeout = id]
           /\ kind = "pressStart" => s.state = [d.state EXCEPT !.pressStartTimeout = id]
           /\ kind = "pressEnd" => s.state = [d.state EXCEPT !.pressEndTimeout = id]
<1> DEFINE id == CHOOSE t \in TimerId : t \notin UsedIds(d)
           t == [id |-> id, kind |-> kind]
           s == setTimeout(d, kind)
           state2 == CASE kind = "longPress" -> [d.state EXCEPT !.longPressTimeout = id]
                       [] kind = "pressStart" -> [d.state EXCEPT !.pressStartTimeout = id]
                       [] kind = "pressEnd" -> [d.state EXCEPT !.pressEndTimeout = id]
<1>1. id \in TimerId /\ id \notin UsedIds(d)
  BY FreshId
<1>2. s = [d EXCEPT !.timers = Append(d.timers, t), !.state = state2]
  BY DEF setTimeout, UsedIds
<1> HIDE DEF id, s
<1>3. d.timers \in Seq(Timers) /\ t \in Timers /\ d.state \in PressState
  BY <1>1 DEF Timers, Data
<1>4. \A j \in DOMAIN d.timers : d.timers[j].id # t.id
  BY <1>1 DEF UsedIds
<1>5. state2 \in PressState
  BY <1>1, <1>3 DEF PressState, Kind
<1> HIDE DEF t, state2
<1>6. /\ Append(d.timers, t) \in Seq(Timers)
      /\ Len(Append(d.timers, t)) = Len(d.timers) + 1
      /\ Distinct(Append(d.timers, t))
      /\ {Append(d.timers, t)[j] : j \in DOMAIN Append(d.timers, t)}
           = {d.timers[j] : j \in DOMAIN d.timers} \cup {t}
  BY <1>3, <1>4, AddedTimer
<1>7. s.timers = Append(d.timers, t) /\ s.state = state2 /\ s \in Data
  BY <1>2, <1>5, <1>6 DEF Data
<1>8. TimersOf(s) = TimersOf(d) \cup {t}
  BY <1>6, <1>7 DEF TimersOf
<1>9. /\ kind = "longPress" => state2 = [d.state EXCEPT !.longPressTimeout = id]
      /\ kind = "pressStart" => state2 = [d.state EXCEPT !.pressStartTimeout = id]
      /\ kind = "pressEnd" => state2 = [d.state EXCEPT !.pressEndTimeout = id]
  BY DEF state2
<1> QED  BY <1>1, <1>6, <1>7, <1>8, <1>9 DEF s, t

-----------------------------------------------------------------------------
(* The functions of the responder.                                         *)

\* What a dispatch of press events leaves alone.
Kept(d, e) ==
  /\ e.state.addedRootEvents = d.state.addedRootEvents
  /\ e.state.allowPressReentry = d.state.allowPressReentry
  /\ e.state.pointerType = d.state.pointerType
  /\ e.state.ignoreEmulatedMouseEvents = d.state.ignoreEmulatedMouseEvents

LEMMA DispatchStarts ==
  ASSUME NEW d \in Data, Distinct(d.timers), Len(d.timers) < MaxTimers, d.state.isPressed,
         d.state.pressStartTimeout = NoTimer,
         OfKind(d, "pressStart") = {}, OfKind(d, "longPress") = {},
         props.delayPressEnd \/ OfKind(d, "pressEnd") = {}
  PROVE  /\ DataOK(dispatch(d)) /\ Len(dispatch(d).timers) <= MaxTimers
         /\ dispatch(d).state.isPressed /\ Kept(d, dispatch(d))
<1> DEFINE a == activate([d EXCEPT !.state.isActivePressStart = TRUE])
<1>1. /\ a \in Data /\ a.timers = d.timers
      /\ a.state = [d.state EXCEPT !.isActivePressStart = TRUE, !.isActivePressed = TRUE]
  BY DEF activate, Data, PressState
<1> HIDE DEF a
<1>2. TimersOf(a) = TimersOf(d)
  BY <1>1 DEF TimersOf
<1>3. /\ a.state.isPressed /\ a.state.isActivePressStart /\ a.state.isActivePressed /\ Kept(d, a)
      /\ a.state.pressStartTimeout = NoTimer
  BY <1>1 DEF Data, PressState, Kept
<1>4. Len(d.timers) \in Nat /\ MaxTimers \in Nat
  BY LenProperties, PressAssumption DEF Data
<1>5. CASE props.onLongPress /\ ~a.state.isLongPressed
  <2> DEFINE s == setTimeout(a, "longPress")
  <2>1. dispatch(d) = s
    BY <1>5 DEF dispatch, a
  <2>2. PICK id \in TimerId :
          /\ s \in Data /\ Distinct(s.timers) /\ Len(s.timers) = Len(a.timers) + 1
          /\ TimersOf(s) = TimersOf(a) \cup {[id |-> id, kind |-> "longPress"]}
          /\ s.state = [a.state EXCEPT !.longPressTimeout = id]
    BY <1>1, StartedTimer DEF Kind
  <2> HIDE DEF s
  <2>3. /\ s.state.isPressed /\ s.state.isActivePressStart /\ s.state.isActivePressed
        /\ s.state.longPressTimeout = id /\ s.state.pressStartTimeout = NoTimer /\ Kept(d, s)
    BY <1>1, <1>3, <2>2 DEF Data, PressState, Kept
  <2>4. /\ OfKind(s, "pressStart") = {} /\ OfKind(s, "pressEnd") = OfKind(d, "pressEnd")
        /\ OfKind(s, "longPress") = {[id |-> id, kind |-> "longPress"]}
    BY <1>2, <2>2 DEF OfKind
  <2> QED  BY <1>1, <1>4, <2>1, <2>2, <2>3, <2>4 DEF DataOK, StartsOK, EndOK, NoDelayOK
<1>6. CASE ~(props.onLongPress /\ ~a.state.isLongPressed)
  <2>1. dispatch(d) = a
    BY <1>6 DEF dispatch, a
  <2>2. /\ OfKind(a, "pressStart") = {} /\ OfKind(a, "longPress") = {}
        /\ props.delayPressEnd \/ OfKind(a, "pressEnd") = {}
    BY <1>2 DEF OfKind
  <2>3. DataOK(a)
    BY <1>1, <1>3, <2>2 DEF DataOK, StartsOK, EndOK, NoDelayOK
  <2>4. Len(a.timers) <= MaxTimers
    BY <1>1, <1>4
  <2> QED  BY <1>3, <2>1, <2>3, <2>4, Zenon
<1> QED  BY <1>5, <1>6

LEMMA PressStarts ==
  ASSUME NEW d, DataOK(d), Len(d.timers) < MaxTimers, ~d.state.isPressed
  PROVE  /\ DataOK(dispatchPressStartEvents(d))
         /\ Len(dispatchPressStartEvents(d).timers) <= MaxTimers
         /\ dispatchPressStartEvents(d).state.isPressed /\ Kept(d, dispatchPressStartEvents(d))
<1> DEFINE old == d.state.pressEndTimeout
           c == IF old = NoTimer THEN d
                ELSE [clearTimeout(d, old) EXCEPT !.state.pressEndTimeout = NoTimer]
           p == [c EXCEPT !.state.isPressed = TRUE]
<1>1. d \in Data /\ Distinct(d.timers) /\ StartsOK(d) /\ NoDelayOK(d)
  BY DEF DataOK
<1>2. Len(d.timers) \in Nat /\ MaxTimers \in Nat
  BY <1>1, LenProperties, PressAssumption DEF Data
<1>3. /\ c \in Data /\ Distinct(c.timers) /\ Len(c.timers) <= Len(d.timers)
      /\ TimersOf(c) = {t \in TimersOf(d) : old = NoTimer \/ t.id # old}
      /\ c.state = [d.state EXCEPT !.pressEndTimeout = NoTimer]
  <2>1. CASE old = NoTimer
    BY <1>1, <1>2, <2>1 DEF Data, PressState, TimersOf
  <2>2. CASE old # NoTimer
    <3> DEFINE e == clearTimeout(d, old)
    <3>1. /\ e \in Data /\ e.state = d.state /\ Distinct(e.timers)
          /\ Len(e.timers) <= Len(d.timers) /\ TimersOf(e) = {t \in TimersOf(d) : t.id # old}
      BY <1>1, ClearedTimer
    <3>2. c = [e EXCEPT !.state.pressEndTimeout = NoTimer]
      BY <2>2
    <3> HIDE DEF e, c
    <3>3. c.timers = e.timers /\ c.state = [d.state EXCEPT !.pressEndTimeout = NoTimer] /\ c \in Data
      BY <3>1, <3>2 DEF Data, PressState
    <3>4. TimersOf(c) = TimersOf(e)
      BY <3>3 DEF TimersOf
    <3> QED  BY <2>2, <3>1, <3>3, <3>4
  <2> QED  BY <2>1, <2>2
<1> HIDE DEF c
<1>4. /\ p \in Data /\ p.timers = c.timers
      /\ p.state = [d.state EXCEPT !.pressEndTimeout = NoTimer, !.isPressed = TRUE]
  BY <1>3 DEF Data, PressState
<1>5. dispatchPressStartEvents(d) =
        IF d.state.isActivePressStart THEN p
        ELSE IF props.delayPressStart THEN setTimeout(p, "pressStart") ELSE dispatch(p)
  BY DEF dispatchPressStartEvents, c
<1> HIDE DEF p
<1>6. TimersOf(p) = {t \in TimersOf(d) : old = NoTimer \/ t.id # old}
  BY <1>3, <1>4 DEF TimersOf
<1>7. /\ OfKind(p, "pressStart") = {} /\ OfKind(p, "longPress") = {}
      /\ props.delayPressEnd \/ OfKind(p, "pressEnd") = {}
  <2>1. OfKind(d, "pressStart") = {} /\ OfKind(d, "longPress") = {}
    BY <1>1 DEF StartsOK
  <2>2. ~props.delayPressEnd => \A t \in OfKind(d, "pressEnd") : t.id = old
    BY <1>1 DEF NoDelayOK
  <2>3. ~props.delayPressEnd => \A t \in OfKind(d, "pressEnd") : t.id # NoTimer
    <3>1. \A i \in DOMAIN d.timers : d.timers[i] \in Timers
      BY <1>1, LenProperties, ElementOfSeq DEF Data
    <3>2. \A t \in TimersOf(d) : t.id # 0
      BY <1>2, <3>1 DEF TimersOf, Timers, TimerId
    <3> QED  BY <3>2 DEF OfKind, NoTimer
  <2> QED  BY <1>6, <2>1, <2>2, <2>3 DEF OfKind
<1>8. /\ p.state.isPressed /\ Kept(d, p) /\ Distinct(p.timers) /\ Len(p.timers) < MaxTimers
      /\ p.state.pressStartTimeout = NoTimer
  <2>1. Len(c.timers) \in Nat
    BY <1>3, LenProperties DEF Data
  <2>2. d.state.pressStartTimeout = NoTimer
    BY <1>1 DEF StartsOK
  <2> QED  BY <1>1, <1>2, <1>3, <1>4, <2>1, <2>2 DEF Data, PressState, Kept
<1>9. CASE d.state.isActivePressStart
  <2>1. ~props.delayPressEnd => p.state.isActivePressed
    BY <1>1, <1>4, <1>9 DEF NoDelayOK, Data, PressState
  <2>2. DataOK(p)
    BY <1>4, <1>7, <1>8, <2>1 DEF DataOK, StartsOK, EndOK, NoDelayOK
  <2>3. Len(p.timers) <= MaxTimers
    BY <1>2, <1>4, <1>8, LenProperties DEF Data
  <2> QED  BY <1>5, <1>8, <1>9, <2>2, <2>3
<1>10. CASE ~d.state.isActivePressStart /\ props.delayPressStart
  <2> DEFINE s == setTimeout(p, "pressStart")
  <2>1. dispatchPressStartEvents(d) = s
    BY <1>5, <1>10
  <2>2. PICK id \in TimerId :
          /\ s \in Data /\ Distinct(s.timers) /\ Len(s.timers) = Len(p.timers) + 1
          /\ TimersOf(s) = TimersOf(p) \cup {[id |-> id, kind |-> "pressStart"]}
          /\ s.state = [p.state EXCEPT !.pressStartTimeout = id]
    BY <1>4, <1>8, StartedTimer DEF Kind
  <2> HIDE DEF s
  <2>3. /\ s.state.isPressed /\ s.state.pressStartTimeout = id /\ Kept(d, s)
        /\ ~s.state.isActivePressStart
        /\ s.state.isLongPressed = d.state.isLongPressed
        /\ s.state.isActivePressed = d.state.isActivePressed
    BY <1>1, <1>4, <1>10, <2>2 DEF Data, PressState, Kept
  <2>4. /\ OfKind(s, "pressStart") = {[id |-> id, kind |-> "pressStart"]}
        /\ OfKind(s, "longPress") = {} /\ OfKind(s, "pressEnd") = OfKind(p, "pressEnd")
    BY <1>7, <2>2 DEF OfKind
  <2>5. Len(s.timers) <= MaxTimers
    BY <1>2, <1>4, <1>8, <2>2, LenProperties DEF Data
  <2>6. StartsOK(s) /\ EndOK(s)
    BY <2>3, <2>4 DEF StartsOK, EndOK
  <2>7. NoDelayOK(s)
    BY <1>1, <1>7, <2>3, <2>4 DEF NoDelayOK
  <2> QED  BY <2>1, <2>2, <2>3, <2>5, <2>6, <2>7 DEF DataOK
<1>11. CASE ~d.state.isActivePressStart /\ ~props.delayPressStart
  <2>1. dispatchPressStartEvents(d) = dispatch(p)
    BY <1>5, <1>11
  <2>2. /\ DataOK(dispatch(p)) /\ Len(dispatch(p).timers) <= MaxTimers
        /\ dispatch(p).state.isPressed /\ Kept(p, dispatch(p))
    BY <1>4, <1>7, <1>8, DispatchStarts
  <2> QED  BY <1>8, <2>1, <2>2 DEF Kept
<1> QED  BY <1>9, <1>10, <1>11

\* A press ends: nothing is left that would start something, and what has been
\* activated is deactivated now or by a timer.
LEMMA PressEnds ==
  ASSUME NEW d, NEW withEvent, DataOK(d), Len(d.timers) < MaxTimers
  PROVE  LET e == dispatchPressEndEvents(d, withEvent) IN
         /\ DataOK(e) /\ Len(e.timers) <= MaxTimers
         /\ ~e.state.isPressed /\ Kept(d, e)
<1> DEFINE ended == [d EXCEPT !.state.isActivePressStart = FALSE, !.state.isPressed = FALSE]
           short == endLongPress(ended)
           wasPending ==
             ~d.state.isActivePressStart /\ short.state.pressStartTimeout # NoTimer
           stopped == IF wasPending
                      THEN [clearTimeout(short, short.state.pressStartTimeout)
                              EXCEPT !.state.pressStartTimeout = NoTimer]
                      ELSE short
           forced == wasPending /\ stopped.state.isPressWithinResponderRegion /\ withEvent
           done == IF forced THEN activate(stopped) ELSE stopped
           result == dispatchPressEndEvents(d, withEvent)
<1>1. result = IF ~done.state.isActivePressed THEN done
               ELSE IF props.delayPressEnd \/ forced THEN setTimeout(done, "pressEnd")
               ELSE deactivate(done)
  BY DEF dispatchPressEndEvents
<1>2. d \in Data /\ Distinct(d.timers) /\ StartsOK(d) /\ NoDelayOK(d)
  BY DEF DataOK
<1>3. Len(d.timers) \in Nat /\ MaxTimers \in Nat
  BY <1>2, LenProperties, PressAssumption DEF Data
<1>4. /\ ended \in Data /\ ended.timers = d.timers
      /\ ended.state = [d.state EXCEPT !.isActivePressStart = FALSE, !.isPressed = FALSE]
  BY <1>2 DEF Data, PressState
<1> HIDE DEF ended
<1>5. /\ short \in Data /\ Distinct(short.timers) /\ Len(short.timers) <= Len(d.timers)
      /\ TimersOf(short) = {t \in TimersOf(d) : t.id # d.state.longPressTimeout}
      /\ short.state = [ended.state EXCEPT !.longPressTimeout = NoTimer]
  <2> DEFINE c == clearTimeout(ended, ended.state.longPressTimeout)
  <2>1. /\ c \in Data /\ c.state = ended.state /\ Distinct(c.timers)
        /\ Len(c.timers) <= Len(ended.timers)
        /\ TimersOf(c) = {t \in TimersOf(ended) : t.id # ended.state.longPressTimeout}
    BY <1>2, <1>4, ClearedTimer
  <2>2. short = [c EXCEPT !.state.longPressTimeout = NoTimer]
    BY DEF endLongPress
  <2> HIDE DEF c, short
  <2>3. /\ short \in Data /\ short.timers = c.timers
        /\ short.state = [ended.state EXCEPT !.longPressTimeout = NoTimer]
    BY <2>1, <2>2 DEF Data, PressState
  <2>4. ended.state.longPressTimeout = d.state.longPressTimeout
    BY <1>2, <1>4 DEF Data, PressState
  <2> QED  BY <1>4, <2>1, <2>3, <2>4 DEF TimersOf
<1> HIDE DEF short
<1>6. /\ short.state.pressStartTimeout = d.state.pressStartTimeout
      /\ short.state.isActivePressed = d.state.isActivePressed
      /\ short.state.isLongPressed = d.state.isLongPressed
      /\ short.state.pressEndTimeout = d.state.pressEndTimeout
      /\ ~short.state.isPressed /\ ~short.state.isActivePressStart /\ Kept(d, short)
  BY <1>2, <1>4, <1>5 DEF Data, PressState, Kept
<1>7. OfKind(short, "longPress") = {}
  BY <1>2, <1>5 DEF StartsOK, OfKind
<1>8. /\ stopped \in Data /\ Distinct(stopped.timers) /\ Len(stopped.timers) <= Len(d.timers)
      /\ OfKind(stopped, "longPress") = {}
      /\ OfKind(stopped, "pressEnd") \subseteq OfKind(d, "pressEnd")
      /\ stopped.state.isActivePressed = d.state.isActivePressed
      /\ stopped.state.isLongPressed = d.state.isLongPressed
      /\ stopped.state.pressEndTimeout = d.state.pressEndTimeout
      /\ ~stopped.state.isPressed /\ ~stopped.state.isActivePressStart /\ Kept(d, stopped)
  <2>1. CASE wasPending
    <3> DEFINE c == clearTimeout(short, short.state.pressStartTimeout)
    <3>1. /\ c \in Data /\ c.state = short.state /\ Distinct(c.timers)
          /\ Len(c.timers) <= Len(short.timers)
          /\ TimersOf(c) = {t \in TimersOf(short) : t.id # short.state.pressStartTimeout}
      BY <1>5, ClearedTimer
    <3>2. stopped = [c EXCEPT !.state.pressStartTimeout = NoTimer]
      BY <2>1
    <3> HIDE DEF c, stopped
    <3>3. /\ stopped \in Data /\ stopped.timers = c.timers
          /\ stopped.state = [short.state EXCEPT !.pressStartTimeout = NoTimer]
      BY <3>1, <3>2 DEF Data, PressState
    <3>4. Len(stopped.timers) <= Len(d.timers)
      BY <1>3, <1>5, <3>1, <3>3, LenProperties DEF Data
    <3>5. TimersOf(stopped) \subseteq TimersOf(short) /\ TimersOf(short) \subseteq TimersOf(d)
      <4>1. TimersOf(stopped) = TimersOf(c)
        BY <3>3 DEF TimersOf
      <4> QED  BY <1>5, <3>1, <4>1
    <3>6. OfKind(stopped, "longPress") = {} /\ OfKind(stopped, "pressEnd") \subseteq OfKind(d, "pressEnd")
      BY <1>7, <3>5 DEF OfKind
    <3>7. /\ stopped.state.isActivePressed = d.state.isActivePressed
          /\ stopped.state.isLongPressed = d.state.isLongPressed
          /\ stopped.state.pressEndTimeout = d.state.pressEndTimeout
          /\ ~stopped.state.isPressed /\ ~stopped.state.isActivePressStart /\ Kept(d, stopped)
      BY <1>5, <1>6, <3>3 DEF Data, PressState, Kept
    <3> QED  BY <3>1, <3>3, <3>4, <3>6, <3>7
  <2>2. CASE ~wasPending
    <3>1. OfKind(short, "pressEnd") \subseteq OfKind(d, "pressEnd")
      BY <1>5 DEF OfKind
    <3> QED  BY <1>5, <1>6, <1>7, <2>2, <3>1
  <2> QED  BY <2>1, <2>2
<1>9. OfKind(stopped, "pressStart") = {} /\ stopped.state.pressStartTimeout = NoTimer
  <2>1. CASE wasPending
    <3> DEFINE c == clearTimeout(short, short.state.pressStartTimeout)
    <3>1. /\ TimersOf(c) = {t \in TimersOf(short) : t.id # short.state.pressStartTimeout}
          /\ c \in Data
      BY <1>5, ClearedTimer
    <3>2. stopped = [c EXCEPT !.state.pressStartTimeout = NoTimer]
      BY <2>1
    <3> HIDE DEF c, stopped
    <3>3. stopped.timers = c.timers /\ stopped.state.pressStartTimeout = NoTimer
      BY <3>1, <3>2 DEF Data, PressState
    <3>4. TimersOf(stopped) = TimersOf(c)
      BY <3>3 DEF TimersOf
    <3> QED  BY <1>2, <1>5, <1>6, <3>1, <3>3, <3>4 DEF OfKind, StartsOK
  <2>2. CASE ~wasPending
    <3>1. short.state.pressStartTimeout = NoTimer
      BY <1>2, <1>6, <2>2 DEF StartsOK
    <3>2. \A t \in TimersOf(d) : t.id # NoTimer
      <4>1. \A i \in DOMAIN d.timers : d.timers[i] \in Timers
        BY <1>2, LenProperties, ElementOfSeq DEF Data
      <4> QED  BY <1>3, <4>1 DEF TimersOf, Timers, TimerId, NoTimer
    <3>3. OfKind(d, "pressStart") = {}
      BY <1>2, <1>6, <3>1, <3>2 DEF OfKind, StartsOK
    <3>4. OfKind(short, "pressStart") \subseteq OfKind(d, "pressStart")
      BY <1>5 DEF OfKind
    <3>5. stopped = short
      BY <2>2
    <3> QED  BY <3>1, <3>3, <3>4, <3>5
  <2> QED  BY <2>1, <2>2
<1>10. ~props.delayPressEnd =>
         /\ forced => OfKind(stopped, "pressEnd") = {}
         /\ \A t \in OfKind(stopped, "pressEnd") : t.id = stopped.state.pressEndTimeout
         /\ stopped.state.isLongPressed => stopped.state.isActivePressed
  BY <1>2, <1>6, <1>8 DEF StartsOK, NoDelayOK
<1> HIDE DEF stopped
<1>11. /\ done \in Data /\ done.timers = stopped.timers
       /\ done.state = [stopped.state EXCEPT !.isActivePressed = @ \/ forced]
  BY <1>8 DEF activate, Data, PressState
<1> HIDE DEF wasPending
<1>12. /\ ~done.state.isPressed /\ ~done.state.isActivePressStart /\ Kept(d, done)
       /\ done.state.pressStartTimeout = NoTimer
       /\ done.state.isLongPressed = stopped.state.isLongPressed
       /\ done.state.pressEndTimeout = stopped.state.pressEndTimeout
       /\ done.state.isActivePressed <=> (stopped.state.isActivePressed \/ forced)
  BY <1>8, <1>9, <1>11 DEF Data, PressState, Kept
<1> HIDE DEF forced, done
<1>13. \A kind : OfKind(done, kind) = OfKind(stopped, kind)
  BY <1>11 DEF OfKind, TimersOf
<1>14. Distinct(done.timers) /\ Len(done.timers) \in Nat /\ Len(done.timers) < MaxTimers
  BY <1>3, <1>8, <1>11, LenProperties DEF Data
<1>15. CASE ~done.state.isActivePressed
  <2>1. result = done
    BY <1>1, <1>15
  <2>2. StartsOK(done) /\ EndOK(done)
    BY <1>8, <1>9, <1>12, <1>13, <1>15 DEF StartsOK, EndOK
  <2>3. NoDelayOK(done)
    BY <1>10, <1>12, <1>13, <1>15 DEF NoDelayOK
  <2>4. Len(done.timers) <= MaxTimers
    BY <1>3, <1>14
  <2>5. DataOK(done)
    BY <1>11, <1>14, <2>2, <2>3 DEF DataOK
  <2> QED  BY <1>12, <2>1, <2>4, <2>5, Zenon
<1>16. CASE done.state.isActivePressed /\ (props.delayPressEnd \/ forced)
  <2> DEFINE s == setTimeout(done, "pressEnd")
  <2>1. result = s
    BY <1>1, <1>16
  <2>2. PICK id \in TimerId :
          /\ s \in Data /\ Distinct(s.timers) /\ Len(s.timers) = Len(done.timers) + 1
          /\ TimersOf(s) = TimersOf(done) \cup {[id |-> id, kind |-> "pressEnd"]}
          /\ s.state = [done.state EXCEPT !.pressEndTimeout = id]
    BY <1>11, <1>14, StartedTimer DEF Kind
  <2> HIDE DEF s
  <2>3. /\ ~s.state.isPressed /\ ~s.state.isActivePressStart /\ Kept(d, s)
        /\ s.state.pressStartTimeout = NoTimer /\ s.state.pressEndTimeout = id
        /\ s.state.isActivePressed
    BY <1>11, <1>12, <1>16, <2>2 DEF Data, PressState, Kept
  <2>4. /\ OfKind(s, "pressStart") = {} /\ OfKind(s, "longPress") = {}
        /\ OfKind(s, "pressEnd") = OfKind(stopped, "pressEnd") \cup {[id |-> id, kind |-> "pressEnd"]}
    <3>1. /\ OfKind(done, "pressStart") = {} /\ OfKind(done, "longPress") = {}
          /\ OfKind(done, "pressEnd") = OfKind(stopped, "pressEnd")
      BY <1>8, <1>9, <1>13
    <3> QED  BY <2>2, <3>1 DEF OfKind
  <2>5. StartsOK(s) /\ EndOK(s)
    BY <2>3, <2>4 DEF StartsOK, EndOK
  <2>6. NoDelayOK(s)
    BY <1>10, <1>16, <2>3, <2>4 DEF NoDelayOK
  <2>7. Len(s.timers) <= MaxTimers
    BY <1>3, <1>14, <2>2
  <2>8. DataOK(s)
    BY <2>2, <2>5, <2>6 DEF DataOK
  <2> QED  BY <2>1, <2>3, <2>7, <2>8, Zenon
<1>17. CASE done.state.isActivePressed /\ ~(props.delayPressEnd \/ forced)
  <2> DEFINE s == deactivate(done)
  <2>1. result = s
    BY <1>1, <1>17
  <2>2. /\ s \in Data /\ s.timers = done.timers
        /\ s.state = [done.state EXCEPT !.isActivePressed = FALSE, !.isLongPressed = FALSE]
    BY <1>11 DEF deactivate, Data, PressState
  <2> HIDE DEF s
  <2>3. /\ ~s.state.isPressed /\ ~s.state.isActivePressStart /\ Kept(d, s)
        /\ s.state.pressStartTimeout = NoTimer
        /\ s.state.pressEndTimeout = stopped.state.pressEndTimeout
        /\ ~s.state.isActivePressed /\ ~s.state.isLongPressed
    BY <1>11, <1>12, <2>2 DEF Data, PressState, Kept
  <2>4. \A kind : OfKind(s, kind) = OfKind(stopped, kind)
    <3>1. TimersOf(s) = TimersOf(done)
      BY <2>2 DEF TimersOf
    <3> QED  BY <1>13, <3>1 DEF OfKind
  <2>5. StartsOK(s) /\ EndOK(s)
    BY <1>8, <1>9, <2>3, <2>4 DEF StartsOK, EndOK
  <2>6. NoDelayOK(s)
    BY <1>10, <2>3, <2>4 DEF NoDelayOK
  <2>7. Len(s.timers) <= MaxTimers
    BY <1>3, <1>14, <2>2
  <2>8. DataOK(s)
    BY <1>14, <2>2, <2>5, <2>6 DEF DataOK
  <2> QED  BY <2>1, <2>3, <2>7, <2>8, Zenon
<1> QED  BY <1>15, <1>16, <1>17

-----------------------------------------------------------------------------
(* What a handler does to the data, and what it leaves for the device.     *)

\* Handlers leave the data in order, and nothing is pressed that is not
\* listened for.
Handled(e) ==
  /\ DataOK(e) /\ Len(e.timers) <= MaxTimers
  /\ e.state.isPressed => e.state.addedRootEvents

\* Fields that no property of the timers is about may take any value.
LEMMA FieldsMayChange ==
  ASSUME NEW d, NEW e, DataOK(d), e \in Data, e.timers = d.timers,
         e.state.isPressed = d.state.isPressed,
         e.state.isActivePressStart = d.state.isActivePressStart,
         e.state.isActivePressed = d.state.isActivePressed,
         e.state.isLongPressed = d.state.isLongPressed,
         e.state.longPressTimeout = d.state.longPressTimeout,
         e.state.pressStartTimeout = d.state.pressStartTimeout,
         e.state.pressEndTimeout = d.state.pressEndTimeout
  PROVE  DataOK(e)
<1>1. \A kind : OfKind(e, kind) = OfKind(d, kind)
  <2>1. TimersOf(e) = TimersOf(d)
    BY DEF TimersOf
  <2> QED  BY <2>1 DEF OfKind
<1>2. StartsOK(e)
  BY <1>1 DEF DataOK, StartsOK
<1>3. EndOK(e)
  BY <1>1 DEF DataOK, EndOK
<1>4. NoDelayOK(e)
  BY <1>1 DEF DataOK, NoDelayOK
<1> QED  BY <1>2, <1>3, <1>4 DEF DataOK

\* Nor do the emulated events that are ignored.
LEMMA IgnoringEnds ==
  ASSUME NEW d, DataOK(d)
  PROVE  LET e == [d EXCEPT !.state.ignoreEmulatedMouseEvents = FALSE] IN
         /\ DataOK(e) /\ e.timers = d.timers
         /\ e.state = [d.state EXCEPT !.ignoreEmulatedMouseEvents = FALSE]
         /\ e.state.isPressed = d.state.isPressed
         /\ e.state.addedRootEvents = d.state.addedRootEvents
<1> DEFINE e == [d EXCEPT !.state.ignoreEmulatedMouseEvents = FALSE]
<1>1. d \in Data
  BY DEF DataOK
<1>2. /\ e \in Data /\ e.timers = d.timers
      /\ e.state = [d.state EXCEPT !.ignoreEmulatedMouseEvents = FALSE]
  BY <1>1 DEF Data, PressState
<1> HIDE DEF e
<1>3. /\ e.state.isPressed = d.state.isPressed
      /\ e.state.isActivePressStart = d.state.isActivePressStart
      /\ e.state.isActivePressed = d.state.isActivePressed
      /\ e.state.isLongPressed = d.state.isLongPressed
      /\ e.state.longPressTimeout = d.state.longPressTimeout
      /\ e.state.pressStartTimeout = d.state.pressStartTimeout
      /\ e.state.pressEndTimeout = d.state.pressEndTimeout
      /\ e.state.addedRootEvents = d.state.addedRootEvents
  BY <1>1, <1>2 DEF Data, PressState
<1>4. DataOK(e)
  BY <1>2, <1>3, FieldsMayChange
<1> QED  BY <1>2, <1>3, <1>4 DEF e

LEMMA RootEventsRemoved ==
  ASSUME NEW d, DataOK(d)
  PROVE  LET e == removeRootEventTypes(d) IN
         /\ DataOK(e) /\ e.timers = d.timers /\ ~e.state.addedRootEvents
         /\ e.state.isPressed = d.state.isPressed
         /\ e.state.pointerType = d.state.pointerType
         /\ e.state.ignoreEmulatedMouseEvents = d.state.ignoreEmulatedMouseEvents
<1> DEFINE e == removeRootEventTypes(d)
<1>1. d \in Data
  BY DEF DataOK
<1>2. CASE d.state.addedRootEvents
  <2>1. e = [d EXCEPT !.state.addedRootEvents = FALSE, !.state.allowPressReentry = FALSE]
    BY <1>2 DEF removeRootEventTypes
  <2> HIDE DEF e
  <2>2. /\ e \in Data /\ e.timers = d.timers
        /\ e.state = [d.state EXCEPT !.addedRootEvents = FALSE, !.allowPressReentry = FALSE]
    BY <1>1, <2>1 DEF Data, PressState
  <2>3. /\ e.state.isPressed = d.state.isPressed
        /\ e.state.isActivePressStart = d.state.isActivePressStart
        /\ e.state.isActivePressed = d.state.isActivePressed
        /\ e.state.isLongPressed = d.state.isLongPressed
        /\ e.state.longPressTimeout = d.state.longPressTimeout
        /\ e.state.pressStartTimeout = d.state.pressStartTimeout
        /\ e.state.pressEndTimeout = d.state.pressEndTimeout
        /\ e.state.pointerType = d.state.pointerType
        /\ e.state.ignoreEmulatedMouseEvents = d.state.ignoreEmulatedMouseEvents
        /\ ~e.state.addedRootEvents
    BY <1>1, <2>2 DEF Data, PressState
  <2> QED  BY <2>2, <2>3, FieldsMayChange DEF e
<1>3. CASE ~d.state.addedRootEvents
  BY <1>3 DEF removeRootEventTypes
<1> QED  BY <1>2, <1>3

\* The end of a press that removes the listeners for root events.
LEMMA PressIsOver ==
  ASSUME NEW d, NEW withEvent, DataOK(d), Len(d.timers) < MaxTimers
  PROVE  LET e == dispatchPressEndEvents(removeRootEventTypes(d), withEvent) IN
         /\ Handled(e) /\ ~e.state.isPressed /\ ~e.state.addedRootEvents
<1> DEFINE r == removeRootEventTypes(d)
           e == dispatchPressEndEvents(r, withEvent)
<1>1. DataOK(r) /\ r.timers = d.timers /\ ~r.state.addedRootEvents
  BY RootEventsRemoved
<1> HIDE DEF r
<1>2. DataOK(e) /\ Len(e.timers) <= MaxTimers /\ ~e.state.isPressed /\ Kept(r, e)
  BY <1>1, PressEnds
<1> HIDE DEF e
<1>3. ~e.state.addedRootEvents
  BY <1>1, <1>2 DEF Kept
<1> QED  BY <1>2, <1>3 DEF Handled, e, r

\* A press that goes on may lose a timer.
LEMMA TimerMayBeCleared ==
  ASSUME NEW d, NEW id, DataOK(d), d.state.isPressed
  PROVE  LET e == clearTimeout(d, id) IN
         DataOK(e) /\ e.state = d.state /\ Len(e.timers) <= Len(d.timers)
<1> DEFINE e == clearTimeout(d, id)
<1>1. /\ e \in Data /\ e.state = d.state /\ Distinct(e.timers) /\ Len(e.timers) <= Len(d.timers)
      /\ TimersOf(e) \subseteq TimersOf(d)
  BY ClearedTimer DEF DataOK
<1> HIDE DEF e
<1>2. \A kind : OfKind(e, kind) \subseteq OfKind(d, kind)
  BY <1>1 DEF OfKind
<1>3. StartsOK(e) /\ EndOK(e)
  BY <1>1, <1>2 DEF DataOK, StartsOK, EndOK
<1>4. NoDelayOK(e)
  BY <1>1, <1>2 DEF DataOK, NoDelayOK
<1> QED  BY <1>1, <1>3, <1>4 DEF DataOK, e

\* A native event that starts a press, where none is listened for.
Begins(e, device, accepted) ==
  e.state.addedRootEvents =>
    /\ accepted /\ e.state.isPressed /\ e.state.pointerType = device
    /\ device = "mouse" => ~e.state.ignoreEmulatedMouseEvents

LEMMA PressStartHandled ==
  ASSUME NEW d, NEW device \in Device, NEW accepted, DataOK(d), Len(d.timers) < MaxTimers,
         d.state.isPressed => d.state.addedRootEvents
  PROVE  LET e == pressStart(d, device, accepted) IN
         /\ Handled(e)
         /\ ~d.state.addedRootEvents => Begins(e, device, accepted)
<1> DEFINE ignoring == IF device \in {"pointer", "touch"}
                       THEN [d EXCEPT !.state.ignoreEmulatedMouseEvents = TRUE] ELSE d
           started == [ignoring EXCEPT !.state.allowPressReentry = TRUE,
                                       !.state.pointerType = device,
                                       !.state.isPressWithinResponderRegion = TRUE]
           e == pressStart(d, device, accepted)
<1>1. e = IF d.state.isPressed THEN d
          ELSE IF ~accepted \/ (device = "mouse" /\ ignoring.state.ignoreEmulatedMouseEvents)
          THEN ignoring
          ELSE addRootEventTypes(dispatchPressStartEvents(started))
  BY DEF pressStart
<1>2. d \in Data /\ Len(d.timers) \in Nat /\ MaxTimers \in Nat
  BY LenProperties, PressAssumption DEF DataOK, Data
<1>3. /\ ignoring \in Data /\ ignoring.timers = d.timers
      /\ ignoring.state = [d.state EXCEPT
           !.ignoreEmulatedMouseEvents = @ \/ device \in {"pointer", "touch"}]
  <2>1. CASE device \in {"pointer", "touch"}
    BY <1>2, <2>1 DEF Data, PressState
  <2>2. CASE device \notin {"pointer", "touch"}
    <3>1. ignoring = d
      BY <2>2
    <3>2. d.state = [d.state EXCEPT !.ignoreEmulatedMouseEvents = @ \/ FALSE]
      BY <1>2 DEF Data, PressState
    <3> QED  BY <1>2, <2>2, <3>1, <3>2
  <2> QED  BY <2>1, <2>2
<1>4. ignoring.state.addedRootEvents = d.state.addedRootEvents
  BY <1>2, <1>3 DEF Data, PressState
<1>5. DataOK(ignoring)
  <2>1. /\ ignoring.state.isPressed = d.state.isPressed
        /\ ignoring.state.isActivePressStart = d.state.isActivePressStart
        /\ ignoring.state.isActivePressed = d.state.isActivePressed
        /\ ignoring.state.isLongPressed = d.state.isLongPressed
        /\ ignoring.state.longPressTimeout = d.state.longPressTimeout
        /\ ignoring.state.pressStartTimeout = d.state.pressStartTimeout
        /\ ignoring.state.pressEndTimeout = d.state.pressEndTimeout
    BY <1>2, <1>3 DEF Data, PressState
  <2> HIDE DEF ignoring
  <2> QED  BY <1>3, <2>1, FieldsMayChange
<1> HIDE DEF e
<1>6. CASE d.state.isPressed
  <2>1. e = d
    BY <1>1, <1>6
  <2> QED  BY <1>2, <1>6, <2>1 DEF Handled, e
<1>7. CASE /\ ~d.state.isPressed
           /\ ~accepted \/ (device = "mouse" /\ ignoring.state.ignoreEmulatedMouseEvents)
  <2>1. e = ignoring
    BY <1>1, <1>7
  <2>2. ~e.state.isPressed /\ Len(e.timers) <= MaxTimers
    BY <1>2, <1>3, <1>7, <2>1 DEF Data, PressState
  <2> QED  BY <1>4, <1>5, <2>1, <2>2 DEF Handled, Begins, e
<1> HIDE DEF ignoring
<1>8. CASE /\ ~d.state.isPressed
           /\ ~(~accepted \/ (device = "mouse" /\ ignoring.state.ignoreEmulatedMouseEvents))
  <2> DEFINE p == dispatchPressStartEvents(started)
  <2>1. e = [p EXCEPT !.state.addedRootEvents = TRUE]
    BY <1>1, <1>8 DEF addRootEventTypes
  <2>2. /\ started \in Data /\ started.timers = d.timers
        /\ started.state = [ignoring.state EXCEPT !.allowPressReentry = TRUE,
                              !.pointerType = device, !.isPressWithinResponderRegion = TRUE]
    BY <1>3 DEF Data, PressState
  <2> HIDE DEF started
  <2>3. /\ ~started.state.isPressed /\ started.state.pointerType = device
        /\ started.state.ignoreEmulatedMouseEvents = ignoring.state.ignoreEmulatedMouseEvents
    BY <1>2, <1>3, <1>8, <2>2 DEF Data, PressState
  <2>4. DataOK(started)
    <3>1. /\ started.state.isPressed = ignoring.state.isPressed
          /\ started.state.isActivePressStart = ignoring.state.isActivePressStart
          /\ started.state.isActivePressed = ignoring.state.isActivePressed
          /\ started.state.isLongPressed = ignoring.state.isLongPressed
          /\ started.state.longPressTimeout = ignoring.state.longPressTimeout
          /\ started.state.pressStartTimeout = ignoring.state.pressStartTimeout
          /\ started.state.pressEndTimeout = ignoring.state.pressEndTimeout
      BY <1>3, <2>2 DEF Data, PressState
    <3> QED  BY <1>3, <1>5, <2>2, <3>1, FieldsMayChange
  <2>5. /\ DataOK(p) /\ Len(p.timers) <= MaxTimers /\ p.state.isPressed /\ Kept(started, p)
    BY <2>2, <2>3, <2>4, PressStarts
  <2> HIDE DEF p
  <2>6. p \in Data
    BY <2>5 DEF DataOK
  <2>7. /\ e \in Data /\ e.timers = p.timers
        /\ e.state = [p.state EXCEPT !.addedRootEvents = TRUE]
    BY <2>1, <2>6 DEF Data, PressState
  <2>8. /\ e.state.isPressed = p.state.isPressed
        /\ e.state.isActivePressStart = p.state.isActivePressStart
        /\ e.state.isActivePressed = p.state.isActivePressed
        /\ e.state.isLongPressed = p.state.isLongPressed
        /\ e.state.longPressTimeout = p.state.longPressTimeout
        /\ e.state.pressStartTimeout = p.state.pressStartTimeout
        /\ e.state.pressEndTimeout = p.state.pressEndTimeout
        /\ e.state.pointerType = p.state.pointerType
        /\ e.state.ignoreEmulatedMouseEvents = p.state.ignoreEmulatedMouseEvents
        /\ e.state.addedRootEvents
    BY <2>6, <2>7 DEF Data, PressState
  <2>9. DataOK(e)
    BY <2>5, <2>7, <2>8, FieldsMayChange
  <2>10. Handled(e)
    BY <2>5, <2>7, <2>8, <2>9 DEF Handled
  <2>11. Begins(e, device, accepted)
    BY <1>8, <2>3, <2>5, <2>8 DEF Begins, Kept
  <2> QED  BY <2>10, <2>11 DEF e
<1> QED  BY <1>6, <1>7, <1>8

\* Whether the position is in the region says nothing of the timers.
LEMMA RegionMayChange ==
  ASSUME NEW d, NEW within \in BOOLEAN, DataOK(d)
  PROVE  LET e == [d EXCEPT !.state.isPressWithinResponderRegion = within] IN
         /\ DataOK(e) /\ e.timers = d.timers /\ Kept(d, e)
         /\ e.state.isPressed = d.state.isPressed
<1> DEFINE e == [d EXCEPT !.state.isPressWithinResponderRegion = within]
<1>1. d \in Data
  BY DEF DataOK
<1>2. /\ e \in Data /\ e.timers = d.timers
      /\ e.state = [d.state EXCEPT !.isPressWithinResponderRegion = within]
  BY <1>1 DEF Data, PressState
<1> HIDE DEF e
<1>3. /\ e.state.isPressed = d.state.isPressed
      /\ e.state.isActivePressStart = d.state.isActivePressStart
      /\ e.state.isActivePressed = d.state.isActivePressed
      /\ e.state.isLongPressed = d.state.isLongPressed
      /\ e.state.longPressTimeout = d.state.longPressTimeout
      /\ e.state.pressStartTimeout = d.state.pressStartTimeout
      /\ e.state.pressEndTimeout = d.state.pressEndTimeout
      /\ Kept(d, e)
  BY <1>1, <1>2 DEF Data, PressState, Kept
<1>4. DataOK(e)
  BY <1>2, <1>3, FieldsMayChange
<1> QED  BY <1>2, <1>3, <1>4 DEF e

\* What is listened for after an event of a root that is listened to already.
StillListens(d, e) ==
  e.state.addedRootEvents =>
    /\ e.state.isPressed \/ e.state.allowPressReentry
    /\ e.state.pointerType = d.state.pointerType
    /\ e.state.ignoreEmulatedMouseEvents = d.state.ignoreEmulatedMouseEvents

LEMMA PressMoveHandled ==
  ASSUME NEW d, NEW device, NEW within \in BOOLEAN, NEW far, DataOK(d),
         Len(d.timers) < MaxTimers, d.state.addedRootEvents
  PROVE  LET e == pressMove(d, device, within, far) IN
         /\ Handled(e)
         /\ d.state.isPressed \/ d.state.allowPressReentry => StillListens(d, e)
<1> DEFINE moved == [d EXCEPT !.state.isPressWithinResponderRegion = within]
           left == IF moved.state.allowPressReentry THEN moved ELSE removeRootEventTypes(moved)
           e == pressMove(d, device, within, far)
<1>1. e = IF ~(d.state.isPressed \/ d.state.allowPressReentry) \/ d.state.pointerType # device
          THEN d
          ELSE IF within /\ ~d.state.isPressed THEN dispatchPressStartEvents(moved)
          ELSE IF within
          THEN IF far THEN clearTimeout(moved, moved.state.longPressTimeout) ELSE moved
          ELSE dispatchPressEndEvents(left, TRUE)
  BY DEF pressMove
<1>2. d \in Data /\ Len(d.timers) \in Nat /\ MaxTimers \in Nat
  BY LenProperties, PressAssumption DEF DataOK, Data
<1>3. /\ DataOK(moved) /\ moved.timers = d.timers /\ Kept(d, moved)
      /\ moved.state.isPressed = d.state.isPressed
  BY RegionMayChange
<1> HIDE DEF moved, e
<1>4. moved.state.addedRootEvents /\ Len(moved.timers) <= MaxTimers
  BY <1>2, <1>3 DEF Kept
<1>5. CASE ~(d.state.isPressed \/ d.state.allowPressReentry) \/ d.state.pointerType # device
  <2>1. e = d
    BY <1>1, <1>5
  <2>2. Len(e.timers) <= MaxTimers
    BY <1>2, <2>1
  <2> QED  BY <2>1, <2>2 DEF Handled, StillListens, e
<1>6. CASE /\ ~(~(d.state.isPressed \/ d.state.allowPressReentry) \/ d.state.pointerType # device)
           /\ within /\ ~d.state.isPressed
  <2>1. e = dispatchPressStartEvents(moved)
    BY <1>1, <1>6
  <2>2. /\ DataOK(e) /\ Len(e.timers) <= MaxTimers /\ e.state.isPressed /\ Kept(moved, e)
    BY <1>3, <1>6, <2>1, PressStarts
  <2> QED  BY <1>3, <1>4, <2>2 DEF Handled, StillListens, Kept, e
<1>7. CASE /\ ~(~(d.state.isPressed \/ d.state.allowPressReentry) \/ d.state.pointerType # device)
           /\ within /\ d.state.isPressed
  <2>1. e = IF far THEN clearTimeout(moved, moved.state.longPressTimeout) ELSE moved
    BY <1>1, <1>7
  <2>2. DataOK(e) /\ e.state = moved.state /\ Len(e.timers) <= Len(moved.timers)
    <3>1. CASE far
      BY <1>3, <1>7, <2>1, <3>1, TimerMayBeCleared
    <3>2. CASE ~far
      BY <1>2, <1>3, <2>1, <3>2
    <3> QED  BY <3>1, <3>2
  <2>3. Len(e.timers) <= MaxTimers
    BY <1>2, <1>4, <2>2, <1>3, LenProperties DEF DataOK, Data
  <2> QED  BY <1>3, <1>4, <1>7, <2>2, <2>3 DEF Handled, StillListens, Kept, e
<1>8. CASE /\ ~(~(d.state.isPressed \/ d.state.allowPressReentry) \/ d.state.pointerType # device)
           /\ ~within
  <2>1. e = dispatchPressEndEvents(left, TRUE)
    BY <1>1, <1>8
  <2>2. /\ DataOK(left) /\ left.timers = d.timers
        /\ left.state.pointerType = d.state.pointerType
        /\ left.state.ignoreEmulatedMouseEvents = d.state.ignoreEmulatedMouseEvents
        /\ left.state.addedRootEvents => left.state.allowPressReentry
    <3>1. CASE moved.state.allowPressReentry
      BY <1>3, <3>1 DEF Kept
    <3>2. CASE ~moved.state.allowPressReentry
      BY <1>3, <3>2, RootEventsRemoved DEF Kept
    <3> QED  BY <3>1, <3>2
  <2> HIDE DEF left
  <2>3. DataOK(e) /\ Len(e.timers) <= MaxTimers /\ ~e.state.isPressed /\ Kept(left, e)
    BY <2>1, <2>2, PressEnds
  <2> QED  BY <2>2, <2>3 DEF Handled, StillListens, Kept, e
<1> QED  BY <1>5, <1>6, <1>7, <1>8

LEMMA PressEndHandled ==
  ASSUME NEW d, NEW device, NEW outside, NEW within \in BOOLEAN, DataOK(d),
         Len(d.timers) < MaxTimers
  PROVE  LET e == pressEnd(d, device, outside, within) IN
         /\ Handled(e)
         /\ /\ d.state.isPressed \/ d.state.allowPressReentry
            /\ device = "mouse" => ~d.state.ignoreEmulatedMouseEvents
            => ~e.state.addedRootEvents
<1> DEFINE where == IF outside THEN [d EXCEPT !.state.isPressWithinResponderRegion = within] ELSE d
           ignored == [d EXCEPT !.state.ignoreEmulatedMouseEvents = FALSE]
           e == pressEnd(d, device, outside, within)
<1>1. e = IF d.state.isPressed THEN dispatchPressEndEvents(removeRootEventTypes(where), TRUE)
          ELSE IF device = "mouse" /\ d.state.ignoreEmulatedMouseEvents THEN ignored
          ELSE IF d.state.allowPressReentry THEN removeRootEventTypes(d)
          ELSE d
  BY DEF pressEnd
<1>2. d \in Data /\ Len(d.timers) \in Nat /\ MaxTimers \in Nat
  BY LenProperties, PressAssumption DEF DataOK, Data
<1>3. DataOK(where) /\ where.timers = d.timers
  <2>1. CASE outside
    BY <2>1, RegionMayChange
  <2>2. CASE ~outside
    BY <2>2
  <2> QED  BY <2>1, <2>2
<1> HIDE DEF where, e
<1>4. CASE d.state.isPressed
  <2>1. e = dispatchPressEndEvents(removeRootEventTypes(where), TRUE)
    BY <1>1, <1>4
  <2>2. Handled(e) /\ ~e.state.addedRootEvents
    BY <1>3, <2>1, PressIsOver
  <2> QED  BY <2>2 DEF e
<1>5. CASE ~d.state.isPressed /\ device = "mouse" /\ d.state.ignoreEmulatedMouseEvents
  <2>1. e = ignored
    BY <1>1, <1>5
  <2>2. DataOK(ignored) /\ ignored.timers = d.timers /\ ~ignored.state.isPressed
    BY <1>5, IgnoringEnds
  <2> HIDE DEF ignored
  <2>3. Len(ignored.timers) <= MaxTimers
    BY <1>2, <2>2
  <2> QED  BY <1>5, <2>1, <2>2, <2>3 DEF Handled, e
<1>6. CASE /\ ~d.state.isPressed /\ ~(device = "mouse" /\ d.state.ignoreEmulatedMouseEvents)
  <2> DEFINE r == removeRootEventTypes(d)
  <2>1. e = IF d.state.allowPressReentry THEN r ELSE d
    BY <1>1, <1>6
  <2>2. /\ DataOK(r) /\ r.timers = d.timers /\ ~r.state.addedRootEvents
        /\ r.state.isPressed = d.state.isPressed
    BY RootEventsRemoved
  <2> HIDE DEF r
  <2>3. Len(d.timers) <= MaxTimers
    BY <1>2
  <2> QED  BY <1>6, <2>1, <2>2, <2>3 DEF Handled, e
<1> QED  BY <1>4, <1>5, <1>6

LEMMA CancelHandled ==
  ASSUME NEW d, DataOK(d), Len(d.timers) < MaxTimers
  PROVE  LET e == dispatchCancel(d) IN
         /\ Handled(e) /\ ~e.state.isPressed
         /\ d.state.isPressed \/ d.state.allowPressReentry => ~e.state.addedRootEvents
<1> DEFINE f == [d EXCEPT !.state.ignoreEmulatedMouseEvents = FALSE]
           r == removeRootEventTypes(d)
           e == dispatchCancel(d)
<1>1. e = IF d.state.isPressed THEN dispatchPressEndEvents(removeRootEventTypes(f), TRUE)
          ELSE IF d.state.allowPressReentry THEN r ELSE d
  BY DEF dispatchCancel
<1>2. DataOK(f) /\ f.timers = d.timers
  BY IgnoringEnds
<1>3. DataOK(r) /\ r.timers = d.timers /\ ~r.state.addedRootEvents
      /\ r.state.isPressed = d.state.isPressed
  BY RootEventsRemoved
<1>4. Len(d.timers) <= MaxTimers
  BY LenProperties, PressAssumption DEF DataOK, Data
<1> HIDE DEF e, f, r
<1>5. CASE d.state.isPressed
  <2>1. e = dispatchPressEndEvents(removeRootEventTypes(f), TRUE)
    BY <1>1, <1>5
  <2>2. Handled(e) /\ ~e.state.isPressed /\ ~e.state.addedRootEvents
    BY <1>2, <2>1, PressIsOver
  <2> QED  BY <2>2 DEF e
<1>6. CASE ~d.state.isPressed
  BY <1>1, <1>3, <1>4, <1>6 DEF Handled, e
<1> QED  BY <1>5, <1>6

LEMMA UnmountHandled ==
  ASSUME NEW d, DataOK(d), Len(d.timers) < MaxTimers
  PROVE  Handled(unmountResponder(d)) /\ ~unmountResponder(d).state.isPressed
<1>1. CASE d.state.isPressed
  BY <1>1, PressIsOver DEF unmountResponder
<1>2. CASE ~d.state.isPressed
  <2>1. Len(d.timers) <= MaxTimers
    BY LenProperties, PressAssumption DEF DataOK, Data
  <2> QED  BY <1>2, <2>1 DEF unmountResponder, Handled
<1> QED  BY <1>1, <1>2

LEMMA DisabledHandled ==
  ASSUME NEW d, DataOK(d), Len(d.timers) < MaxTimers
  PROVE  LET e == disabledEvent(d) IN
         Handled(e) /\ ~e.state.isPressed /\ ~e.state.addedRootEvents
<1> DEFINE p == dispatchPressEndEvents(removeRootEventTypes(d), TRUE)
           e == disabledEvent(d)
<1>1. e = [p EXCEPT !.state.ignoreEmulatedMouseEvents = FALSE]
  BY DEF disabledEvent
<1>2. Handled(p) /\ ~p.state.isPressed /\ ~p.state.addedRootEvents
  BY PressIsOver
<1> HIDE DEF p, e
<1>3. /\ DataOK(e) /\ e.timers = p.timers /\ e.state.isPressed = p.state.isPressed
      /\ e.state.addedRootEvents = p.state.addedRootEvents
  BY <1>1, <1>2, IgnoringEnds DEF Handled
<1> QED  BY <1>2, <1>3 DEF Handled, e

\* The closure of a timer, called when the timer is no longer pending.
Fired(d, i) ==
  LET kind == d.timers[i].kind
      e == [d EXCEPT !.timers = RemoveAt(@, i)]
  IN  CASE kind = "pressStart" -> dispatch([e EXCEPT !.state.pressStartTimeout = NoTimer])
        [] kind = "pressEnd" -> deactivate([e EXCEPT !.state.pressEndTimeout = NoTimer])
        [] kind = "longPress" ->
             [e EXCEPT !.state.isLongPressed = TRUE, !.state.longPressTimeout = NoTimer]

LEMMA TimerHandled ==
  ASSUME NEW d, DataOK(d), Len(d.timers) <= MaxTimers, NEW i \in DOMAIN d.timers
  PROVE  LET e == Fired(d, i) IN
         /\ DataOK(e) /\ Len(e.timers) <= MaxTimers
         /\ e.state.isPressed = d.state.isPressed /\ Kept(d, e)
<1> DEFINE t == d.timers[i]
           r == [d EXCEPT !.timers = RemoveAt(d.timers, i)]
           e == Fired(d, i)
<1>1. /\ d \in Data /\ Distinct(d.timers) /\ StartsOK(d) /\ EndOK(d) /\ NoDelayOK(d)
  BY DEF DataOK
<1>2. /\ d.timers \in Seq(Timers) /\ Len(d.timers) \in Nat /\ DOMAIN d.timers = 1 .. Len(d.timers)
      /\ MaxTimers \in Nat /\ t \in Timers
  BY <1>1, LenProperties, ElementOfSeq, PressAssumption DEF Data
<1>3. /\ RemoveAt(d.timers, i) \in Seq(Timers)
      /\ Len(RemoveAt(d.timers, i)) = Len(d.timers) - 1
      /\ Distinct(RemoveAt(d.timers, i))
      /\ {RemoveAt(d.timers, i)[j] : j \in DOMAIN RemoveAt(d.timers, i)}
           = {d.timers[j] : j \in DOMAIN d.timers} \ {t}
  BY <1>1, <1>2, RemovedTimer
<1>4. /\ r \in Data /\ r.state = d.state /\ Distinct(r.timers)
      /\ Len(r.timers) = Len(d.timers) - 1 /\ TimersOf(r) = TimersOf(d) \ {t}
  BY <1>1, <1>3 DEF Data, TimersOf
<1>5. e = CASE t.kind = "pressStart" -> dispatch([r EXCEPT !.state.pressStartTimeout = NoTimer])
            [] t.kind = "pressEnd" -> deactivate([r EXCEPT !.state.pressEndTimeout = NoTimer])
            [] t.kind = "longPress" ->
                 [r EXCEPT !.state.isLongPressed = TRUE, !.state.longPressTimeout = NoTimer]
  BY DEF Fired
<1>6. t \in TimersOf(d) /\ t \in OfKind(d, t.kind)
  BY DEF TimersOf, OfKind
<1>7. \A u \in TimersOf(d) : u.id = t.id => u = t
  BY <1>1 DEF TimersOf, Distinct
<1>8. \A kind : OfKind(r, kind) = OfKind(d, kind) \ {t}
  BY <1>4 DEF OfKind
<1>9. \A kind : OfKind(d, kind) \subseteq TimersOf(d)
  BY DEF OfKind
<1> HIDE DEF r, t
<1>10. t.kind \in Kind
  BY <1>2 DEF Timers
<1>11. Len(r.timers) < MaxTimers /\ Len(r.timers) \in Nat
  BY <1>2, <1>4, LenProperties DEF Data
<1>12. CASE t.kind = "pressStart"
  <2> DEFINE f == [r EXCEPT !.state.pressStartTimeout = NoTimer]
  <2>1. e = dispatch(f)
    BY <1>5, <1>12
  <2>2. /\ f \in Data /\ f.timers = r.timers
        /\ f.state = [d.state EXCEPT !.pressStartTimeout = NoTimer]
    BY <1>4 DEF Data, PressState
  <2> HIDE DEF f, e
  <2>3. \A kind : OfKind(f, kind) = OfKind(d, kind) \ {t}
    <3>1. TimersOf(f) = TimersOf(r)
      BY <2>2 DEF TimersOf
    <3> QED  BY <1>8, <3>1 DEF OfKind
  <2>4. d.state.isPressed /\ ~d.state.isActivePressStart /\ t.id = d.state.pressStartTimeout
    BY <1>1, <1>6, <1>12 DEF StartsOK
  <2>5. OfKind(f, "pressStart") = {}
    BY <1>1, <1>7, <1>9, <2>3, <2>4 DEF StartsOK
  <2>6. OfKind(f, "longPress") = {}
    BY <1>1, <2>3, <2>4 DEF StartsOK
  <2>7. props.delayPressEnd \/ OfKind(f, "pressEnd") = {}
    BY <1>1, <2>3, <2>4 DEF NoDelayOK
  <2>8. f.state.isPressed /\ f.state.pressStartTimeout = NoTimer /\ Kept(d, f)
    BY <1>1, <2>2, <2>4 DEF Data, PressState, Kept
  <2>9. /\ DataOK(e) /\ Len(e.timers) <= MaxTimers /\ e.state.isPressed /\ Kept(f, e)
    BY <1>4, <1>11, <2>1, <2>2, <2>5, <2>6, <2>7, <2>8, DispatchStarts
  <2>10. e.state.isPressed = d.state.isPressed
    BY <1>1, <2>4, <2>9 DEF DataOK, Data, PressState
  <2> QED  BY <2>8, <2>9, <2>10 DEF Kept, e
<1>13. CASE t.kind = "pressEnd"
  <2>1. e = deactivate([r EXCEPT !.state.pressEndTimeout = NoTimer])
    BY <1>5, <1>13
  <2> HIDE DEF e
  <2>2. /\ e \in Data /\ e.timers = r.timers
        /\ e.state = [d.state EXCEPT !.pressEndTimeout = NoTimer, !.isActivePressed = FALSE,
                                     !.isLongPressed = FALSE]
    BY <1>4, <2>1 DEF deactivate, Data, PressState
  <2>3. \A kind : OfKind(e, kind) = OfKind(d, kind) \ {t}
    <3>1. TimersOf(e) = TimersOf(r)
      BY <2>2 DEF TimersOf
    <3> QED  BY <1>8, <3>1 DEF OfKind
  <2>4. /\ e.state.isPressed = d.state.isPressed
        /\ e.state.isActivePressStart = d.state.isActivePressStart
        /\ e.state.longPressTimeout = d.state.longPressTimeout
        /\ e.state.pressStartTimeout = d.state.pressStartTimeout
        /\ ~e.state.isActivePressed /\ ~e.state.isLongPressed
        /\ Kept(d, e)
    BY <1>1, <2>2 DEF Data, PressState, Kept
  <2>5. StartsOK(e) /\ EndOK(e)
    BY <1>1, <2>3, <2>4 DEF StartsOK, EndOK
  <2>6. ~props.delayPressEnd =>
          /\ t.id = d.state.pressEndTimeout /\ ~d.state.isPressed
          /\ \A u \in OfKind(d, "pressEnd") : u.id = t.id
    BY <1>1, <1>6, <1>13 DEF NoDelayOK
  <2>7. ~props.delayPressEnd => OfKind(e, "pressEnd") = {} /\ ~e.state.isActivePressStart
    BY <1>1, <1>7, <1>9, <2>3, <2>4, <2>6 DEF StartsOK
  <2>8. NoDelayOK(e)
    BY <2>4, <2>7 DEF NoDelayOK
  <2>9. DataOK(e)
    BY <1>4, <2>2, <2>5, <2>8 DEF DataOK
  <2>10. Len(e.timers) <= MaxTimers
    BY <1>2, <1>11, <2>2
  <2> QED  BY <2>4, <2>9, <2>10 DEF e
<1>14. CASE t.kind = "longPress"
  <2>1. e = [r EXCEPT !.state.isLongPressed = TRUE, !.state.longPressTimeout = NoTimer]
    BY <1>5, <1>14
  <2> HIDE DEF e
  <2>2. /\ e \in Data /\ e.timers = r.timers
        /\ e.state = [d.state EXCEPT !.isLongPressed = TRUE, !.longPressTimeout = NoTimer]
    BY <1>4, <2>1 DEF Data, PressState
  <2>3. \A kind : OfKind(e, kind) = OfKind(d, kind) \ {t}
    <3>1. TimersOf(e) = TimersOf(r)
      BY <2>2 DEF TimersOf
    <3> QED  BY <1>8, <3>1 DEF OfKind
  <2>4. /\ e.state.isPressed = d.state.isPressed
        /\ e.state.isActivePressStart = d.state.isActivePressStart
        /\ e.state.isActivePressed = d.state.isActivePressed
        /\ e.state.pressStartTimeout = d.state.pressStartTimeout
        /\ e.state.pressEndTimeout = d.state.pressEndTimeout
        /\ Kept(d, e)
    BY <1>1, <2>2 DEF Data, PressState, Kept
  <2>5. t.id = d.state.longPressTimeout /\ d.state.isPressed /\ d.state.isActivePressStart
    BY <1>1, <1>6, <1>14 DEF StartsOK
  <2>6. OfKind(e, "longPress") = {}
    BY <1>1, <1>7, <1>9, <2>3, <2>5 DEF StartsOK
  <2>7. StartsOK(e) /\ EndOK(e)
    BY <1>1, <2>3, <2>4, <2>5, <2>6 DEF StartsOK, EndOK
  <2>8. NoDelayOK(e)
    BY <1>1, <2>3, <2>4, <2>5 DEF NoDelayOK
  <2>9. DataOK(e)
    BY <1>4, <2>2, <2>7, <2>8 DEF DataOK
  <2>10. Len(e.timers) <= MaxTimers
    BY <1>2, <1>11, <2>2
  <2> QED  BY <2>4, <2>9, <2>10 DEF e
<1> QED  BY <1>10, <1>12, <1>13, <1>14 DEF Kind

-----------------------------------------------------------------------------
(* The steps.                                                              *)

LEMMA Delivers ==
  ASSUME NEW d, DataOK(d), Delivered(d)
  PROVE  Start' = d /\ DataOK(Start)' /\ timers' = d.timers /\ state' = d.state
<1>1. Start' = d /\ timers' = d.timers /\ state' = d.state /\ props' = props
  BY DEF Delivered, Start, DataOK, Data
<1> QED
  BY <1>1 DEF DataOK, StartsOK, EndOK, NoDelayOK, OfKind, TimersOf, Distinct

\* A step that delivers what a handler has made of the data.
LEMMA StepDelivers ==
  ASSUME PressInv, NEW d, Handled(d), Delivered(d), d.state.isPressed => mounted,
         held' \in Device \cup {None}, changes' \in Nat,
         emulated' \in {<<>>, <<"mouseup">>, <<"mousedown", "mouseup">>},
         HeldOK'
  PROVE  PressInv'
<1>1. /\ DataOK(Start)' /\ timers' = d.timers /\ state' = d.state
  BY Delivers DEF Handled
<1>2. RoomOK' /\ ListensOK'
  BY <1>1 DEF Handled, RoomOK, ListensOK, Delivered
<1>3. PressTypeOK'
  BY DEF PressInv, PressTypeOK, Delivered
<1> QED  BY <1>1, <1>2, <1>3 DEF PressInv

LEMMA Facts ==
  ASSUME PressInv, Room
  PROVE  /\ DataOK(Start) /\ Start.state = state /\ Start.timers = timers
         /\ Len(Start.timers) < MaxTimers /\ Handled(Start)
         /\ state.isPressed => mounted /\ state.addedRootEvents
         /\ changes \in Nat /\ (changes = 0 => changes % 2 = 0)
  BY DEF PressInv, Room, RoomOK, ListensOK, Start, PressTypeOK, Handled

\* What an event on the element makes of the data.
LEMMA TargetEventHandled ==
  ASSUME PressInv, Room, NEW d, Handled(d)
  PROVE  /\ Handled(TargetEvent(d))
         /\ TargetEvent(d).state.isPressed => mounted
         /\ mounted /\ changes = 0 /\ TargetEvent(d).state.addedRootEvents => TargetEvent(d) = d
<1>1. /\ DataOK(Start) /\ Start.state = state /\ Len(Start.timers) < MaxTimers /\ Handled(Start)
      /\ state.isPressed => mounted /\ state.addedRootEvents
      /\ changes = 0 => changes % 2 = 0
  BY Facts
<1>2. CASE ~hears
  BY <1>1, <1>2 DEF TargetEvent, hears
<1>3. CASE hears /\ props.disabled
  <2>1. /\ Handled(disabledEvent(Start)) /\ ~disabledEvent(Start).state.isPressed
        /\ ~disabledEvent(Start).state.addedRootEvents
    BY <1>1, DisabledHandled
  <2> QED  BY <1>3, <2>1 DEF TargetEvent
<1>4. CASE hears /\ ~props.disabled
  BY <1>4 DEF TargetEvent, hears
<1> QED  BY <1>2, <1>3, <1>4

\* Where no device is held and no event is to be emulated nothing is listened for.
LEMMA IdleIsQuiet ==
  ASSUME PressInv, held = None, emulated = <<>>
  PROVE  mounted /\ changes = 0 => ~state.addedRootEvents
<1>1. <<>> # <<"mouseup">>
  OBVIOUS
<1> QED  BY <1>1 DEF PressInv, HeldOK

LEMMA DownStep ==
  ASSUME PressInv, NEW device \in UNION Browsers, NEW accepted \in BOOLEAN, Down(device, accepted)
  PROVE  PressInv'
<1> DEFINE p == pressStart(Start, device, accepted)
           d == TargetEvent(p)
<1>1. /\ Room /\ held = None /\ emulated = <<>>
      /\ held' = (IF accepted THEN device ELSE None)
      /\ Delivered(d) /\ emulated' = emulated /\ changes' = changes
  BY DEF Down
<1>2. device \in Device /\ device # None
  BY PressAssumption DEF Device, None
<1>3. /\ DataOK(Start) /\ Start.state = state /\ Len(Start.timers) < MaxTimers
      /\ state.isPressed => state.addedRootEvents
  BY <1>1, Facts
<1>4. Handled(p) /\ (~state.addedRootEvents => Begins(p, device, accepted))
  BY <1>2, <1>3, PressStartHandled
<1> HIDE DEF p
<1>5. /\ Handled(d) /\ (d.state.isPressed => mounted)
      /\ mounted /\ changes = 0 /\ d.state.addedRootEvents => d = p
  BY <1>1, <1>4, TargetEventHandled
<1> HIDE DEF d
<1>6. state' = d.state /\ mounted' = mounted
  BY <1>1, <1>5, Delivers DEF Handled, Delivered
<1>7. mounted /\ changes = 0 => ~state.addedRootEvents
  BY <1>1, IdleIsQuiet
<1>8. HeldOK'
  BY <1>1, <1>2, <1>4, <1>5, <1>6, <1>7 DEF HeldOK, Begins
<1>9. held' \in Device \cup {None} /\ changes' \in Nat /\ emulated' \in {<<>>}
  BY <1>1, <1>2 DEF PressInv, PressTypeOK
<1> QED  BY <1>1, <1>5, <1>8, <1>9, StepDelivers

\* What an event of the root makes of the data.
LEMMA RootEventHandled ==
  ASSUME PressInv, Room, NEW d, hearsRoot => Handled(d)
  PROVE  /\ Handled(RootEvent(d))
         /\ RootEvent(d).state.isPressed => mounted
         /\ mounted /\ changes = 0 /\ RootEvent(d).state.addedRootEvents =>
              RootEvent(d) = d /\ state.addedRootEvents /\ hearsRoot
<1>1. /\ Start.state = state /\ Handled(Start)
      /\ state.isPressed => mounted /\ state.addedRootEvents
      /\ changes = 0 => changes % 2 = 0
  BY Facts
<1>2. CASE ~hearsRoot
  BY <1>1, <1>2 DEF RootEvent, hearsRoot, hears
<1>3. CASE hearsRoot
  BY <1>3 DEF RootEvent, hearsRoot, hears
<1> QED  BY <1>2, <1>3

LEMMA MoveStep ==
  ASSUME PressInv, NEW device \in UNION Browsers, NEW within \in BOOLEAN, NEW far \in BOOLEAN,
         Move(device, within, far)
  PROVE  PressInv'
<1> DEFINE p == pressMove(Start, device, within, far)
           d == RootEvent(p)
<1>1. /\ Room /\ Delivered(d) /\ held' = held /\ emulated' = emulated /\ changes' = changes
  BY DEF Move
<1>2. DataOK(Start) /\ Start.state = state /\ Len(Start.timers) < MaxTimers
  BY <1>1, Facts
<1>3. hearsRoot => /\ Handled(p)
                   /\ state.isPressed \/ state.allowPressReentry => StillListens(Start, p)
  BY <1>2, PressMoveHandled DEF hearsRoot
<1> HIDE DEF p
<1>4. /\ Handled(d) /\ (d.state.isPressed => mounted)
      /\ mounted /\ changes = 0 /\ d.state.addedRootEvents =>
           d = p /\ state.addedRootEvents /\ hearsRoot
  BY <1>1, <1>3, RootEventHandled
<1> HIDE DEF d
<1>5. state' = d.state /\ mounted' = mounted
  BY <1>1, <1>4, Delivers DEF Handled, Delivered
<1>6. HeldOK'
  BY <1>1, <1>2, <1>3, <1>4, <1>5 DEF PressInv, HeldOK, StillListens
<1>7. /\ held' \in Device \cup {None} /\ changes' \in Nat
      /\ emulated' \in {<<>>, <<"mouseup">>, <<"mousedown", "mouseup">>}
  BY <1>1 DEF PressInv, PressTypeOK
<1> QED  BY <1>1, <1>4, <1>6, <1>7, StepDelivers

\* A release, or what stands for one, is heard while the root is listened to.
LEMMA Released ==
  ASSUME PressInv, Room, NEW device, NEW outside, NEW within \in BOOLEAN,
         mounted /\ changes = 0 /\ state.addedRootEvents => device = state.pointerType
  PROVE  LET d == RootEvent(pressEnd(Start, device, outside, within)) IN
         /\ Handled(d) /\ (d.state.isPressed => mounted)
         /\ mounted /\ changes = 0 => ~d.state.addedRootEvents
<1> DEFINE p == pressEnd(Start, device, outside, within)
           d == RootEvent(p)
<1>1. DataOK(Start) /\ Start.state = state /\ Len(Start.timers) < MaxTimers
  BY Facts
<1>2. /\ Handled(p)
      /\ /\ state.isPressed \/ state.allowPressReentry
         /\ device = "mouse" => ~state.ignoreEmulatedMouseEvents
         => ~p.state.addedRootEvents
  BY <1>1, PressEndHandled
<1> HIDE DEF p
<1>3. /\ Handled(d) /\ (d.state.isPressed => mounted)
      /\ mounted /\ changes = 0 /\ d.state.addedRootEvents =>
           d = p /\ state.addedRootEvents /\ hearsRoot
  BY <1>2, RootEventHandled
<1> HIDE DEF d
<1>4. mounted /\ changes = 0 => ~d.state.addedRootEvents
  BY <1>2, <1>3 DEF PressInv, HeldOK
<1> QED  BY <1>3, <1>4 DEF d, p

\* A step after which the root is not listened to.
LEMMA QuietStep ==
  ASSUME PressInv, NEW d, Handled(d), Delivered(d), d.state.isPressed => mounted,
         held' \in Device \cup {None}, changes' \in Nat,
         emulated' \in {<<>>, <<"mouseup">>, <<"mousedown", "mouseup">>},
         emulated' # <<>> => held' = None,
         mounted /\ changes' = 0 => ~d.state.addedRootEvents
  PROVE  PressInv'
<1>1. state' = d.state /\ mounted' = mounted
  BY Delivers DEF Handled, Delivered
<1>2. HeldOK'
  BY <1>1 DEF HeldOK
<1> QED  BY <1>2, StepDelivers

LEMMA UpStep ==
  ASSUME PressInv, NEW outside \in BOOLEAN, NEW within \in BOOLEAN, Up(outside, within)
  PROVE  PressInv'
<1> DEFINE d == RootEvent(pressEnd(Start, held, outside, within))
<1>1. /\ Room /\ held # None /\ Delivered(d) /\ held' = None /\ changes' = changes
      /\ emulated' \in {<<>>, <<"mousedown", "mouseup">>}
  BY DEF Up
<1>2. mounted /\ changes = 0 /\ state.addedRootEvents => held = state.pointerType
  BY <1>1 DEF PressInv, HeldOK
<1>3. /\ Handled(d) /\ (d.state.isPressed => mounted)
      /\ mounted /\ changes = 0 => ~d.state.addedRootEvents
  BY <1>1, <1>2, Released
<1> HIDE DEF d
<1>4. changes' \in Nat
  BY <1>1 DEF PressInv, PressTypeOK
<1> QED  BY <1>1, <1>3, <1>4, QuietStep

LEMMA EmulatedUpStep ==
  ASSUME PressInv, EmulatedUp
  PROVE  PressInv'
<1> DEFINE d == RootEvent(pressEnd(Start, "mouse", FALSE, TRUE))
<1>1. /\ Room /\ emulated # <<>> /\ Head(emulated) = "mouseup" /\ emulated' = Tail(emulated)
      /\ Delivered(d) /\ held' = held /\ changes' = changes
  BY DEF EmulatedUp
<1>2. emulated = <<"mouseup">> /\ emulated' = <<>>
  <2>1. Head(<<"mousedown", "mouseup">>) = "mousedown" /\ Tail(<<"mouseup">>) = <<>>
    OBVIOUS
  <2> QED  BY <1>1, <2>1 DEF PressInv, PressTypeOK
<1>3. held = None
  BY <1>1 DEF PressInv, HeldOK
<1>4. mounted /\ changes = 0 /\ state.addedRootEvents => "mouse" = state.pointerType
  BY <1>3 DEF PressInv, HeldOK
<1>5. /\ Handled(d) /\ (d.state.isPressed => mounted)
      /\ mounted /\ changes = 0 => ~d.state.addedRootEvents
  BY <1>1, <1>4, Released
<1> HIDE DEF d
<1>6. changes' \in Nat
  BY <1>1 DEF PressInv, PressTypeOK
<1> QED  BY <1>1, <1>2, <1>3, <1>5, <1>6, QuietStep

LEMMA EmulatedDownStep ==
  ASSUME PressInv, EmulatedDown
  PROVE  PressInv'
<1> DEFINE p == pressStart(Start, "mouse", TRUE)
           d == TargetEvent(p)
<1>1. /\ Room /\ emulated # <<>> /\ Head(emulated) = "mousedown" /\ emulated' = Tail(emulated)
      /\ Delivered(d) /\ held' = held /\ changes' = changes
  BY DEF EmulatedDown
<1>2. emulated = <<"mousedown", "mouseup">> /\ emulated' = <<"mouseup">>
  <2>1. Head(<<"mouseup">>) = "mouseup" /\ Tail(<<"mousedown", "mouseup">>) = <<"mouseup">>
    OBVIOUS
  <2> QED  BY <1>1, <2>1 DEF PressInv, PressTypeOK
<1>3. held = None
  BY <1>1 DEF PressInv, HeldOK
<1>4. mounted /\ changes = 0 => ~state.addedRootEvents
  <2>1. <<"mousedown", "mouseup">> # <<"mouseup">>
    OBVIOUS
  <2> QED  BY <1>2, <1>3, <2>1 DEF PressInv, HeldOK
<1>5. /\ DataOK(Start) /\ Start.state = state /\ Len(Start.timers) < MaxTimers
      /\ state.isPressed => state.addedRootEvents
  BY <1>1, Facts
<1>6. Handled(p) /\ (~state.addedRootEvents => Begins(p, "mouse", TRUE))
  BY <1>5, PressStartHandled DEF Device
<1> HIDE DEF p
<1>7. /\ Handled(d) /\ (d.state.isPressed => mounted)
      /\ mounted /\ changes = 0 /\ d.state.addedRootEvents => d = p
  BY <1>1, <1>6, TargetEventHandled
<1> HIDE DEF d
<1>8. state' = d.state /\ mounted' = mounted
  BY <1>1, <1>7, Delivers DEF Handled, Delivered
<1>9. HeldOK'
  BY <1>1, <1>2, <1>3, <1>4, <1>6, <1>7, <1>8 DEF HeldOK, Begins, None
<1>10. held' \in Device \cup {None} /\ changes' \in Nat
  BY <1>1 DEF PressInv, PressTypeOK
<1> QED  BY <1>1, <1>2, <1>7, <1>9, <1>10, StepDelivers

LEMMA PointerCancelStep ==
  ASSUME PressInv, PointerCancel
  PROVE  PressInv'
<1> DEFINE p == dispatchCancel(Start)
           d == RootEvent(p)
<1>1. /\ Room /\ held # None /\ held' = None /\ Delivered(d)
      /\ emulated' = emulated /\ changes' = changes
  BY DEF PointerCancel, None
<1>2. DataOK(Start) /\ Start.state = state /\ Len(Start.timers) < MaxTimers
  BY <1>1, Facts
<1>3. /\ Handled(p)
      /\ state.isPressed \/ state.allowPressReentry => ~p.state.addedRootEvents
  BY <1>2, CancelHandled
<1> HIDE DEF p
<1>4. /\ Handled(d) /\ (d.state.isPressed => mounted)
      /\ mounted /\ changes = 0 /\ d.state.addedRootEvents =>
           d = p /\ state.addedRootEvents /\ hearsRoot
  BY <1>1, <1>3, RootEventHandled
<1> HIDE DEF d
<1>5. mounted /\ changes = 0 => ~d.state.addedRootEvents
  BY <1>3, <1>4 DEF PressInv, HeldOK
<1>6. /\ changes' \in Nat /\ emulated' \in {<<>>, <<"mouseup">>, <<"mousedown", "mouseup">>}
  BY <1>1 DEF PressInv, PressTypeOK
<1> QED  BY <1>1, <1>4, <1>5, <1>6, QuietStep

LEMMA ScrollStep ==
  ASSUME PressInv, Scroll
  PROVE  PressInv'
<1> DEFINE d == dispatchCancel(Start)
<1>1. /\ Room /\ hearsRoot /\ Delivered(d)
      /\ held' = held /\ emulated' = emulated /\ changes' = changes
  BY DEF Scroll
<1>2. DataOK(Start) /\ Start.state = state /\ Len(Start.timers) < MaxTimers
  BY <1>1, Facts
<1>3. /\ Handled(d) /\ ~d.state.isPressed
      /\ state.isPressed \/ state.allowPressReentry => ~d.state.addedRootEvents
  BY <1>2, CancelHandled
<1> HIDE DEF d
<1>4. mounted /\ changes = 0 => ~d.state.addedRootEvents
  BY <1>1, <1>3 DEF PressInv, HeldOK, hearsRoot
<1>5. /\ held' \in Device \cup {None} /\ changes' \in Nat
      /\ emulated' \in {<<>>, <<"mouseup">>, <<"mousedown", "mouseup">>}
      /\ emulated' # <<>> => held' = None
  BY <1>1 DEF PressInv, PressTypeOK, HeldOK
<1> QED  BY <1>1, <1>3, <1>4, <1>5, QuietStep

LEMMA ClickStep ==
  ASSUME PressInv, Click
  PROVE  PressInv'
<1> DEFINE d == disabledEvent(Start)
<1>1. /\ Room /\ Delivered(d)
      /\ held' = held /\ emulated' = emulated /\ changes' = changes
  BY DEF Click
<1>2. DataOK(Start) /\ Len(Start.timers) < MaxTimers
  BY <1>1, Facts
<1>3. Handled(d) /\ ~d.state.isPressed /\ ~d.state.addedRootEvents
  BY <1>2, DisabledHandled
<1> HIDE DEF d
<1>4. /\ held' \in Device \cup {None} /\ changes' \in Nat
      /\ emulated' \in {<<>>, <<"mouseup">>, <<"mousedown", "mouseup">>}
      /\ emulated' # <<>> => held' = None
  BY <1>1 DEF PressInv, PressTypeOK, HeldOK
<1> QED  BY <1>1, <1>3, <1>4, QuietStep

LEMMA TimerStep ==
  ASSUME PressInv, NEW i \in DOMAIN timers, Timer(i)
  PROVE  PressInv'
<1> DEFINE d == Fired(Start, i)
<1>1. /\ DataOK(Start) /\ Start.state = state /\ Start.timers = timers /\ RoomOK
      /\ state.isPressed => mounted /\ state.addedRootEvents
  BY DEF PressInv, ListensOK, Start
<1>2. Delivered(d) /\ held' = held /\ emulated' = emulated /\ changes' = changes
  BY <1>1 DEF Timer, Fired
<1>3. /\ DataOK(d) /\ Len(d.timers) <= MaxTimers
      /\ d.state.isPressed = state.isPressed /\ Kept(Start, d)
  BY <1>1, TimerHandled DEF RoomOK
<1> HIDE DEF d
<1>4. Handled(d) /\ (d.state.isPressed => mounted)
  BY <1>1, <1>3 DEF Handled, Kept
<1>5. state' = d.state /\ mounted' = mounted
  BY <1>2, <1>3, Delivers DEF Delivered
<1>6. HeldOK'
  BY <1>1, <1>2, <1>3, <1>5 DEF PressInv, HeldOK, Kept
<1>7. /\ held' \in Device \cup {None} /\ changes' \in Nat
      /\ emulated' \in {<<>>, <<"mouseup">>, <<"mousedown", "mouseup">>}
  BY <1>2 DEF PressInv, PressTypeOK
<1> QED  BY <1>2, <1>4, <1>6, <1>7, StepDelivers

LEMMA OwnershipChangeStep ==
  ASSUME PressInv, OwnershipChange
  PROVE  PressInv'
<1> DEFINE d == unmountResponder(Start)
<1>1. /\ Room /\ Delivered(d) /\ changes' = changes + 1
      /\ held' = held /\ emulated' = emulated
  BY DEF OwnershipChange
<1>2. DataOK(Start) /\ Len(Start.timers) < MaxTimers
  BY <1>1, Facts
<1>3. Handled(d) /\ ~d.state.isPressed
  BY <1>2, UnmountHandled
<1> HIDE DEF d
<1>4. /\ held' \in Device \cup {None} /\ changes' \in Nat /\ changes' # 0
      /\ emulated' \in {<<>>, <<"mouseup">>, <<"mousedown", "mouseup">>}
      /\ emulated' # <<>> => held' = None
  BY <1>1 DEF PressInv, PressTypeOK, HeldOK
<1> QED  BY <1>1, <1>3, <1>4, QuietStep

\* Unmounting delivers nothing, and no event is heard after it.
LEMMA UnmountStep ==
  ASSUME PressInv, Unmount
  PROVE  PressInv'
<1> DEFINE d == unmountResponder(Start)
<1>1. /\ Room /\ mounted' = FALSE /\ state' = d.state /\ timers' = d.timers /\ props' = props
      /\ devices' = devices /\ held' = held /\ emulated' = emulated /\ changes' = changes
  BY DEF Unmount
<1>2. DataOK(Start) /\ Len(Start.timers) < MaxTimers
  BY <1>1, Facts
<1>3. Handled(d) /\ ~d.state.isPressed
  BY <1>2, UnmountHandled
<1> HIDE DEF d
<1>4. d \in Data
  BY <1>3 DEF Handled, DataOK
<1>5. Start' = d
  BY <1>1, <1>4 DEF Start, Data
<1>6. DataOK(Start)'
  BY <1>1, <1>3, <1>5 DEF Handled, DataOK, StartsOK, EndOK, NoDelayOK, OfKind, TimersOf, Distinct
<1>7. PressTypeOK' /\ RoomOK' /\ ListensOK' /\ HeldOK'
  BY <1>1, <1>3 DEF PressInv, PressTypeOK, Handled, RoomOK, ListensOK, HeldOK
<1> QED  BY <1>6, <1>7 DEF PressInv

LEMMA SetDisabledStep ==
  ASSUME PressInv, SetDisabled
  PROVE  PressInv'
<1>1. /\ props' = [props EXCEPT !.disabled = ~@]
      /\ UNCHANGED <<state, timers, devices, held, emulated, changes, mounted>>
  BY DEF SetDisabled
<1>2. PressTypeOK' /\ props'.delayPressEnd = props.delayPressEnd
  BY <1>1 DEF PressInv, PressTypeOK
<1>3. Start' = Start
  BY <1>1 DEF Start
<1>4. DataOK(Start)'
  BY <1>2, <1>3
  DEF PressInv, DataOK, StartsOK, EndOK, NoDelayOK, OfKind, TimersOf, Distinct
<1>5. RoomOK' /\ ListensOK' /\ HeldOK'
  BY <1>1 DEF PressInv, RoomOK, ListensOK, HeldOK
<1> QED  BY <1>2, <1>4, <1>5 DEF PressInv

LEMMA UnchangedStep ==
  ASSUME PressInv, UNCHANGED pressVars
  PROVE  PressInv'
<1>1. UNCHANGED <<props, state, timers, devices, held, emulated, changes, mounted>>
  BY DEF pressVars
<1>2. Start' = Start
  BY <1>1 DEF Start
<1>3. DataOK(Start)'
  BY <1>1, <1>2
  DEF PressInv, DataOK, StartsOK, EndOK, NoDelayOK, OfKind, TimersOf, Distinct
<1>4. PressTypeOK' /\ RoomOK' /\ ListensOK' /\ HeldOK'
  BY <1>1 DEF PressInv, PressTypeOK, RoomOK, ListensOK, HeldOK
<1> QED  BY <1>3, <1>4 DEF PressInv

LEMMA InitiallyOK ==
  ASSUME PressInit
  PROVE  PressInv
<1>1. /\ props \in [delayPressStart : BOOLEAN, delayPressEnd : BOOLEAN,
                    onLongPress : BOOLEAN, disabled : {FALSE}]
      /\ state = createInitialState /\ timers = <<>>
      /\ devices \in Browsers /\ held = None /\ emulated = <<>> /\ changes = 0 /\ mounted = TRUE
  BY DEF PressInit
<1>2. /\ state \in PressState /\ ~state.isPressed /\ ~state.isActivePressStart
      /\ ~state.isActivePressed /\ ~state.isLongPressed /\ ~state.addedRootEvents
      /\ state.pressStartTimeout = NoTimer
  BY <1>1 DEF createInitialState, PressState
<1>3. /\ Start \in Data /\ Start.state = state /\ Start.timers = <<>>
      /\ timers \in Seq(Timers) /\ Len(timers) = 0
  BY <1>1, <1>2, EmptySeq DEF Start, Data
<1>4. TimersOf(Start) = {} /\ Distinct(Start.timers)
  BY <1>3 DEF TimersOf, Distinct
<1>5. \A kind : OfKind(Start, kind) = {}
  BY <1>4 DEF OfKind
<1>6. DataOK(Start)
  BY <1>2, <1>3, <1>4, <1>5 DEF DataOK, StartsOK, EndOK, NoDelayOK
<1>7. PressTypeOK
  <2>1. props \in [delayPressStart : BOOLEAN, delayPressEnd : BOOLEAN,
                   onLongPress : BOOLEAN, disabled : BOOLEAN]
    BY <1>1
  <2>2. held \in Device \cup {None} /\ changes \in Nat /\ mounted \in BOOLEAN
    BY <1>1
  <2>3. emulated \in {<<>>, <<"mouseup">>, <<"mousedown", "mouseup">>}
    BY <1>1
  <2> QED  BY <1>1, <2>1, <2>2, <2>3 DEF PressTypeOK
<1>8. RoomOK
  BY <1>3, PressAssumption DEF RoomOK
<1>9. ListensOK
  BY <1>2 DEF ListensOK
<1>10. HeldOK
  BY <1>1, <1>2 DEF HeldOK
<1> QED  BY <1>6, <1>7, <1>8, <1>9, <1>10 DEF PressInv
-----------------------------------------------------------------------------
\* The inductive invariant of the press responder.
THEOREM PressInvariant == PressSpec => []PressInv
<1>1. PressInit => PressInv
  BY InitiallyOK
<1>2. PressInv /\ [PressNext]_pressVars => PressInv'
  BY DownStep, MoveStep, UpStep, EmulatedDownStep, EmulatedUpStep, PointerCancelStep,
     ScrollStep, ClickStep, TimerStep, OwnershipChangeStep, SetDisabledStep, UnmountStep,
     UnchangedStep DEF PressNext
<1> QED  BY <1>1, <1>2, PTL DEF PressSpec

\* A kind of timers that all have one id has one timer at most.
LEMMA AtMostOne ==
  ASSUME NEW kind, NEW id, DataOK(Start),
         \A t \in OfKind(Start, kind) : t.id = id
  PROVE  Cardinality(Pending(kind)) <= 1
<1>1. \A i, j \in Pending(kind) : i = j
  <2>1. /\ Start.timers = timers
        /\ \A i, j \in DOMAIN timers : timers[i].id = timers[j].id => i = j
    BY DEF DataOK, Distinct, Start
  <2>2. \A i \in Pending(kind) : i \in DOMAIN timers /\ timers[i].id = id
    BY <2>1 DEF Pending, OfKind, TimersOf
  <2> QED  BY <2>1, <2>2
<1>2. CASE Pending(kind) = {}
  BY <1>2, FS_EmptySet
<1>3. CASE Pending(kind) # {}
  <2>1. PICK i : i \in Pending(kind)
    BY <1>3
  <2>2. Pending(kind) = {i}
    BY <1>1, <2>1
  <2> QED  BY <2>2, FS_Singleton
<1> QED  BY <1>2, <1>3

\* Every press ends, by release, cancellation, another responder or unmounting,
\* and the timers that start something of it are gone then: PressesEnd.
THEOREM PressesAlwaysEnd == PressSpec => []PressesEnd
<1>1. PressInv => PressesEnd
  <2> SUFFICES ASSUME PressInv
               PROVE  PressesEnd
    OBVIOUS
  <2>1. /\ DataOK(Start) /\ StartsOK(Start) /\ EndOK(Start) /\ NoDelayOK(Start)
        /\ Start.state = state /\ Start.timers = timers
    BY DEF PressInv, DataOK, Start
  <2>2. \A kind : Pending(kind) # {} <=> OfKind(Start, kind) # {}
    BY <2>1 DEF Pending, OfKind, TimersOf
  <2>3. StartsInPress
    <3>1. Pending("longPress") \cup Pending("pressStart") # {} => state.isPressed
      BY <2>1, <2>2 DEF StartsOK
    <3>2. Cardinality(Pending("longPress")) <= 1
      BY <2>1, AtMostOne DEF StartsOK
    <3>3. Cardinality(Pending("pressStart")) <= 1
      BY <2>1, AtMostOne DEF StartsOK
    <3> QED  BY <3>1, <3>2, <3>3 DEF StartsInPress
  <2>4. EndIsComing
    BY <2>1, <2>2 DEF EndOK, EndIsComing
  <2>5. NothingIsLeft
    <3> SUFFICES ASSUME changes = 0, timers = <<>>, held = None, emulated = <<>>
                 PROVE  /\ ~state.isPressed /\ ~state.isActivePressed
                        /\ props.delayPressEnd \/ ~state.isLongPressed
                        /\ mounted => ~state.addedRootEvents
      BY DEF NothingIsLeft
    <3>1. mounted => ~state.addedRootEvents
      BY IdleIsQuiet
    <3>2. ~state.isPressed
      BY <3>1 DEF PressInv, ListensOK
    <3>3. Pending("pressEnd") = {}
      BY DEF Pending
    <3>4. ~state.isActivePressed
      BY <2>4, <3>2, <3>3 DEF EndIsComing
    <3>5. props.delayPressEnd \/ ~state.isLongPressed
      BY <2>1, <3>4 DEF NoDelayOK
    <3> QED  BY <3>1, <3>2, <3>4, <3>5
  <2> QED  BY <2>3, <2>4, <2>5 DEF PressesEnd
<1> QED  BY <1>1, PressInvariant, PTL
=============================================================================
