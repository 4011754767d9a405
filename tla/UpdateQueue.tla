---------------------------- MODULE UpdateQueue ----------------------------
(***************************************************************************)
(* The update queue of one fiber: packages/react-reconciler/src/           *)
(* ReactUpdateQueue.js, with the parts of createWorkInProgress (ReactFiber *)
(* .js), markUpdateTimeFromFiberToRoot (ReactFiberWorkLoop.js) and the     *)
(* commit that decide which of the fiber's two queues is used.             *)
(*                                                                         *)
(* The current and the work-in-progress fiber have a queue each, or share  *)
(* one object; both queues point into one singly linked list of updates.   *)
(* Updates arrive while a render is in progress, renders are restarted,    *)
(* and an error boundary processes its queue twice in one render.          *)
(* An update is a number, in order of creation; a state is the sequence of *)
(* the updates applied to the initial state.                               *)
(***************************************************************************)
EXTENDS Integers, FiniteSets, SequencesExt

CONSTANTS
  ExpirationTimes,  \* of updates and renders; a larger one is more urgent
  MaxUpdate,        \* bound: updates created
  MaxCaptured       \* bound: those that are captured errors

\* What is assumed of the constants.
UpdateQueueAssumption ==
  /\ ExpirationTimes \subseteq Nat \ {0}
  /\ MaxUpdate \in Nat /\ MaxCaptured \in Nat

Update == 1 .. MaxUpdate
Null == 0
NoWork == 0
Side == {"current", "workInProgress"}
Other(side) == IF side = "current" THEN "workInProgress" ELSE "current"

\* Queue objects.  A fiber pair never has more than two; one no fiber has is free.
QueueId == {1, 2}

VARIABLES
  created,         \* updates created so far
  captured,        \* those that are CaptureUpdates
  time,            \* update.expirationTime
  next,            \* update.next
  callback,        \* updates whose callback is not null
  nextEffect,      \* update.nextEffect
  queue,           \* the queue objects
  updateQueue,     \* fiber.updateQueue, Null or a queue object
  memoizedState,   \* fiber.memoizedState
  expirationTime,  \* fiber.expirationTime
  hasAlternate,    \* is there a work-in-progress fiber?
  callbackTag,     \* workInProgress.effectTag & Callback
  phase,           \* of the work-in-progress fiber
  renderTime,      \* renderExpirationTime
  committed        \* history: captured updates that have been committed

updates == <<created, captured, time, next, callback, nextEffect>>
queues == <<queue, updateQueue>>
fibers == <<memoizedState, expirationTime, hasAlternate, callbackTag>>
render == <<phase, renderTime>>
vars == <<updates, queues, fibers, render, committed>>

\* createUpdateQueue and cloneUpdateQueue: only base and list are shared.
QueueWith(base, first, last) ==
  [baseState |-> base, firstUpdate |-> first, lastUpdate |-> last,
   firstCapturedUpdate |-> Null, lastCapturedUpdate |-> Null,
   firstEffect |-> Null, lastEffect |-> Null,
   firstCapturedEffect |-> Null, lastCapturedEffect |-> Null]

NewQueue(state) == QueueWith(state, Null, Null)

\* Mutant: the clone forgets the updates.
CloneBase(q) == NewQueue(q.baseState)

Clone(q) == QueueWith(q.baseState, q.firstUpdate, q.lastUpdate)

Init ==
  /\ created = 0 /\ captured = {}
  /\ time = [u \in Update |-> 0]
  /\ next = [u \in Update |-> Null]
  /\ callback = {}
  /\ nextEffect = [u \in Update |-> Null]
  /\ queue = [q \in QueueId |-> NewQueue(<<>>)]
  /\ updateQueue = [side \in Side |-> Null]
  /\ memoizedState = [side \in Side |-> <<>>]
  /\ expirationTime = [side \in Side |-> NoWork]
  /\ hasAlternate = FALSE /\ callbackTag = FALSE
  /\ phase = "idle" /\ renderTime = NoWork
  /\ committed = {}

(***************************************************************************)
(* The elements met by following `link` from `start`, and whether the walk *)
(* comes to an end.                                                        *)
(***************************************************************************)
Walk(link, start) ==
  LET at[k \in 0 .. MaxUpdate] ==
        IF k = 0 THEN start ELSE IF at[k - 1] = Null THEN Null ELSE link[at[k - 1]]
  IN  at

Follow(link, start) ==
  SelectSeq([k \in 1 .. MaxUpdate |-> Walk(link, start)[k - 1]], LAMBDA u : u # Null)

Ends(link, start) == Walk(link, start)[MaxUpdate] = Null

Maximum(S) == IF S = {} THEN NoWork ELSE CHOOSE x \in S : \A y \in S : y <= x
-----------------------------------------------------------------------------
(***************************************************************************)
(* enqueueUpdate first gives each existing fiber a queue: a missing one is *)
(* a clone of the other fiber's, or new if neither has one.                *)
(***************************************************************************)
\* Mutant: the alternate is not checked for null.
BothFibers == Side

Fibers == IF hasAlternate THEN Side ELSE {"current"}
Missing == {side \in Fibers : updateQueue[side] = Null}

QueueOf(side) ==
  CASE side \notin Fibers -> Null
    [] side \notin Missing -> updateQueue[side]
    [] Other(side) \in Fibers \ Missing -> 3 - updateQueue[Other(side)]
    [] OTHER -> IF side = "current" THEN 1 ELSE 2

Allocated(side) ==
  IF Other(side) \in Fibers \ Missing THEN Clone(queue[updateQueue[Other(side)]])
  ELSE NewQueue(memoizedState[side])

QueuesReady ==
  [q \in QueueId |-> IF \E side \in Missing : QueueOf(side) = q
                     THEN Allocated(CHOOSE side \in Missing : QueueOf(side) = q)
                     ELSE queue[q]]

\* appendUpdateToQueue, as far as the queue is concerned.
Appended(q, u) ==
  [q EXCEPT !.firstUpdate = IF q.lastUpdate = Null THEN u ELSE @, !.lastUpdate = u]

Create(e, hasCallback) ==
  /\ created < MaxUpdate
  /\ created' = created + 1
  /\ time' = [time EXCEPT ![created + 1] = e]
  /\ callback' = IF hasCallback THEN callback \cup {created + 1} ELSE callback

(***************************************************************************)
(* The rest of enqueueUpdate, and markUpdateTimeFromFiberToRoot.  If both  *)
(* queues are non-empty the last update is taken to be the same, and only  *)
(* the one of the fiber's own queue is linked.                             *)
(***************************************************************************)
EnqueueUpdate(side, e, hasCallback) ==
  LET u      == created + 1
      used   == {QueueOf(s) : s \in Fibers}
      lasts  == {QueuesReady[q].lastUpdate : q \in used}
      linked == IF Null \in lasts THEN lasts ELSE {QueuesReady[QueueOf(side)].lastUpdate}
  IN  /\ phase # "hung"
      /\ side \in Fibers
      /\ Create(e, hasCallback)
      /\ queue' = [q \in QueueId |-> IF q \in used THEN Appended(QueuesReady[q], u)
                                     ELSE QueuesReady[q]]
      /\ updateQueue' = [s \in Side |-> QueueOf(s)]
      /\ next' = [v \in Update |-> IF v \in linked THEN u ELSE next[v]]
      /\ expirationTime' = [s \in Side |-> IF s \in Fibers /\ expirationTime[s] < e
                                           THEN e ELSE expirationTime[s]]
      /\ UNCHANGED <<captured, nextEffect, memoizedState, hasAlternate, callbackTag,
                     render, committed>>
-----------------------------------------------------------------------------
\* createWorkInProgress, when a render reaches the fiber; also when it restarts.
BeginRender(rt) ==
  /\ phase # "hung"
  /\ phase' = "begun" /\ renderTime' = rt
  /\ hasAlternate' = TRUE /\ callbackTag' = FALSE
  /\ updateQueue' = [updateQueue EXCEPT !["workInProgress"] = updateQueue["current"]]
  /\ memoizedState' = [memoizedState EXCEPT !["workInProgress"] = memoizedState["current"]]
  /\ expirationTime' = [expirationTime EXCEPT !["workInProgress"] = expirationTime["current"]]
  /\ UNCHANGED <<updates, queue, committed>>

\* beginWork finds neither new props nor sufficient work on the fiber.
Bailout ==
  /\ phase = "begun"
  /\ expirationTime["workInProgress"] < renderTime
  /\ phase' = "done"
  /\ UNCHANGED <<updates, queues, fibers, renderTime, committed>>

(***************************************************************************)
(* ensureWorkInProgressQueueIsAClone: which object the work-in-progress    *)
(* fiber has afterwards, and what it contains.                             *)
(***************************************************************************)
CloneId ==
  IF updateQueue["workInProgress"] = updateQueue["current"]
  THEN 3 - updateQueue["current"] ELSE updateQueue["workInProgress"]

CloneOfQueue ==
  IF updateQueue["workInProgress"] = updateQueue["current"]
  THEN Clone(queue[updateQueue["current"]]) ELSE queue[CloneId]

\* The list of effects [first, last, link] with an update added at the end.
AddEffect(effects, u) ==
  LET reset == [effects.link EXCEPT ![u] = Null]
  IN  IF effects.last = Null THEN [first |-> u, last |-> u, link |-> reset]
      ELSE [first |-> effects.first, last |-> u, link |-> [reset EXCEPT ![effects.last] = u]]

AddEffects(first, last, link, list) ==
  FoldLeft(AddEffect, [first |-> first, last |-> last, link |-> link], list)

\* Mutant: an update at the very priority of the render is skipped.
NotMoreUrgent(u) == time[u] <= renderTime

\* An update of too low a priority for the render is skipped.
Skip(u) == time[u] < renderTime

(***************************************************************************)
(* processUpdateQueue.  The two lists are processed in turn, so as one.    *)
(* The new lists start at their first skipped update, and the base state   *)
(* is the one before the first skipped update of all.                      *)
(***************************************************************************)
ProcessUpdateQueue ==
  LET q        == CloneOfQueue
      list     == Follow(next, q.firstUpdate)
      errors   == Follow(next, q.firstCapturedUpdate)
      Apply(u) == ~Skip(u)
      WithCallback(u) == Apply(u) /\ u \in callback
      FirstSkipped(l) == IF SelectInSeq(l, Skip) = 0 THEN Null ELSE l[SelectInSeq(l, Skip)]
      settled  == LET k == SelectInSeq(list \o errors, Skip)
                  IN  IF k = 0 THEN list \o errors ELSE SubSeq(list \o errors, 1, k - 1)
      effects  == AddEffects(q.firstEffect, q.lastEffect, nextEffect,
                             SelectSeq(list, WithCallback))
      caught   == AddEffects(q.firstCapturedEffect, q.lastCapturedEffect, effects.link,
                             SelectSeq(errors, WithCallback))
  IN  /\ phase = "begun"
      /\ updateQueue["workInProgress"] # Null
      /\ phase' = "done"
      /\ updateQueue' = [updateQueue EXCEPT !["workInProgress"] = CloneId]
      /\ queue' = [queue EXCEPT ![CloneId] =
           [baseState |-> q.baseState \o settled,
            firstUpdate |-> FirstSkipped(list),
            lastUpdate |-> IF FirstSkipped(list) = Null THEN Null ELSE q.lastUpdate,
            firstCapturedUpdate |-> FirstSkipped(errors),
            lastCapturedUpdate |-> IF FirstSkipped(errors) = Null THEN Null
                                   ELSE q.lastCapturedUpdate,
            firstEffect |-> effects.first, lastEffect |-> effects.last,
            firstCapturedEffect |-> caught.first, lastCapturedEffect |-> caught.last]]
      /\ nextEffect' = caught.link
      /\ callbackTag' = (callbackTag \/ FirstSkipped(errors) # Null
                           \/ \E u \in ToSet(list \o errors) : WithCallback(u))
      /\ memoizedState' = [memoizedState EXCEPT !["workInProgress"] =
                             q.baseState \o SelectSeq(list \o errors, Apply)]
      /\ expirationTime' = [expirationTime EXCEPT !["workInProgress"] =
                              Maximum({time[u] : u \in {v \in ToSet(list \o errors) : Skip(v)}})]
      /\ UNCHANGED <<created, captured, time, next, callback, hasAlternate,
                     renderTime, committed>>

\* A fiber without a queue has nothing to process.
ProcessNothing ==
  /\ phase = "begun"
  /\ updateQueue["workInProgress"] = Null
  /\ phase' = "done"
  /\ expirationTime' = [expirationTime EXCEPT !["workInProgress"] = NoWork]
  /\ UNCHANGED <<updates, queues, memoizedState, hasAlternate, callbackTag,
                 renderTime, committed>>

(***************************************************************************)
(* throwException reaches this error boundary: enqueueCapturedUpdate, and  *)
(* the boundary is begun again in the same render.                         *)
(***************************************************************************)
CaptureError(hasCallback) ==
  LET u   == created + 1
      own == updateQueue["workInProgress"]
      id  == IF own = Null THEN 1 ELSE CloneId
      q   == IF own = Null THEN NewQueue(memoizedState["workInProgress"]) ELSE CloneOfQueue
  IN  /\ phase = "done"
      /\ Cardinality(captured) < MaxCaptured
      /\ Create(renderTime, hasCallback)
      /\ captured' = captured \cup {u}
      /\ updateQueue' = [updateQueue EXCEPT !["workInProgress"] = id]
      /\ queue' = [queue EXCEPT ![id] =
           [q EXCEPT !.firstCapturedUpdate = IF q.lastCapturedUpdate = Null THEN u ELSE @,
                     !.lastCapturedUpdate = u]]
      /\ next' = [v \in Update |-> IF v = q.lastCapturedUpdate THEN u ELSE next[v]]
      /\ expirationTime' = [expirationTime EXCEPT !["workInProgress"] = renderTime]
      /\ phase' = "begun"
      /\ UNCHANGED <<nextEffect, memoizedState, hasAlternate, callbackTag,
                     renderTime, committed>>

\* The render is given up; the work-in-progress fiber stays as it is.
Abandon ==
  /\ phase \in {"begun", "done"}
  /\ phase' = "idle"
  /\ UNCHANGED <<updates, queues, fibers, renderTime, committed>>

(***************************************************************************)
(* The commit: the two fibers change roles and commitUpdateQueue joins     *)
(* what is left of the captured updates to the list and calls the          *)
(* callbacks.  commitUpdateEffects follows nextEffect to its end.          *)
(***************************************************************************)
Finished == queue[updateQueue["workInProgress"]]

EffectsEnd ==
  callbackTag => /\ Ends(nextEffect, Finished.firstEffect)
                 /\ Ends(nextEffect, Finished.firstCapturedEffect)

CommitUpdateQueue ==
  IF ~callbackTag THEN UNCHANGED <<queue, next, callback>>
  ELSE LET joins == Finished.firstCapturedUpdate # Null /\ Finished.lastUpdate # Null
           called == ToSet(Follow(nextEffect, Finished.firstEffect))
                       \cup ToSet(Follow(nextEffect, Finished.firstCapturedEffect))
       IN  /\ next' = IF joins
                      THEN [next EXCEPT ![Finished.lastUpdate] = Finished.firstCapturedUpdate]
                      ELSE next
           /\ queue' = [queue EXCEPT ![updateQueue["workInProgress"]] =
                QueueWith(@.baseState, @.firstUpdate,
                          IF joins THEN @.lastCapturedUpdate ELSE @.lastUpdate)]
           /\ callback' = callback \ called

Commit ==
  /\ phase = "done"
  /\ EffectsEnd
  /\ CommitUpdateQueue
  /\ phase' = "idle"
  /\ updateQueue' = [side \in Side |-> updateQueue[Other(side)]]
  /\ memoizedState' = [side \in Side |-> memoizedState[Other(side)]]
  /\ expirationTime' = [side \in Side |-> expirationTime[Other(side)]]
  /\ callbackTag' = FALSE
  /\ committed' = committed \cup (captured \cap ToSet(memoizedState["workInProgress"]))
  /\ UNCHANGED <<created, captured, time, nextEffect, hasAlternate, renderTime>>

\* A circular list of effects is followed for ever.
CommitHangs ==
  /\ phase = "done"
  /\ ~EffectsEnd
  /\ phase' = "hung"
  /\ UNCHANGED <<updates, queues, fibers, renderTime, committed>>

Next ==
  \/ \E side \in Side, e \in ExpirationTimes, hasCallback \in BOOLEAN :
       EnqueueUpdate(side, e, hasCallback)
  \/ \E rt \in ExpirationTimes : BeginRender(rt)
  \/ Bailout
  \/ ProcessUpdateQueue
  \/ ProcessNothing
  \/ \E hasCallback \in BOOLEAN : CaptureError(hasCallback)
  \/ Abandon
  \/ Commit
  \/ CommitHangs

Spec == Init /\ [][Next]_vars
-----------------------------------------------------------------------------
Queue ==
  [baseState : Seq(Update), firstUpdate : Update \cup {Null},
   lastUpdate : Update \cup {Null}, firstCapturedUpdate : Update \cup {Null},
   lastCapturedUpdate : Update \cup {Null}, firstEffect : Update \cup {Null},
   lastEffect : Update \cup {Null}, firstCapturedEffect : Update \cup {Null},
   lastCapturedEffect : Update \cup {Null}]

TypeOK ==
  /\ created \in 0 .. MaxUpdate /\ captured \subseteq 1 .. created
  /\ time \in [Update -> ExpirationTimes \cup {0}]
  /\ next \in [Update -> Update \cup {Null}]
  /\ callback \subseteq Update
  /\ nextEffect \in [Update -> Update \cup {Null}]
  /\ queue \in [QueueId -> Queue]
  /\ updateQueue \in [Side -> QueueId \cup {Null}]
  /\ ~hasAlternate => updateQueue["workInProgress"] = Null
  /\ memoizedState \in [Side -> Seq(Update)]
  /\ expirationTime \in [Side -> ExpirationTimes \cup {NoWork}]
  /\ hasAlternate \in BOOLEAN /\ callbackTag \in BOOLEAN
  /\ phase \in {"idle", "begun", "done", "hung"}
  /\ renderTime \in ExpirationTimes \cup {NoWork}
  /\ committed \subseteq captured

\* The updates other than captured errors, in a sequence and in order of creation.
Ordinary(seq) == SelectSeq(seq, LAMBDA u : u \notin captured)
Log == Ordinary([u \in 1 .. created |-> u])
Pending(side) ==
  IF updateQueue[side] = Null THEN <<>>
  ELSE Follow(next, queue[updateQueue[side]].firstUpdate)

(***************************************************************************)
(* "Otherwise we might drop updates without ever processing them": for     *)
(* either fiber, the base state followed by the list of its queue is every *)
(* update ever enqueued, once and in order, whichever fiber becomes        *)
(* current or is cloned next.                                              *)
(***************************************************************************)
NoUpdateLost ==
  \A side \in Side : updateQueue[side] # Null =>
    Ordinary(queue[updateQueue[side]].baseState \o Pending(side)) = Log

(***************************************************************************)
(* No pending update is forgotten by the priorities: the current fiber is  *)
(* marked with some time while anything is pending, and with one at least  *)
(* as urgent as each update the committed state lacks, so that a render at *)
(* that time cannot bail out on the fiber.                                 *)
(***************************************************************************)
PendingIsMarked ==
  /\ Pending("current") # <<>> => expirationTime["current"] # NoWork
  /\ \A u \in ToSet(Pending("current")) \ ToSet(memoizedState["current"]) :
       time[u] <= expirationTime["current"]

\* "The final state is always the same": with nothing pending, the committed state
\* is the application of all updates in order, however renders interleaved.
SettledState ==
  updateQueue["current"] # Null /\ Pending("current") = <<>> =>
    Ordinary(memoizedState["current"]) = Log

(***************************************************************************)
(* A render at some priority computes the state of exactly the updates     *)
(* that priority covers, on top of what is settled on the current fiber,   *)
(* in order of insertion, also when it processes the queue a second time.  *)
(***************************************************************************)
SettledOnCurrent ==
  IF updateQueue["current"] = Null THEN {}
  ELSE ToSet(queue[updateQueue["current"]].baseState)

RendersByPriority ==
  [][ProcessUpdateQueue =>
       Ordinary(memoizedState["workInProgress"]') =
         SelectSeq(Log, LAMBDA u : u \in SettledOnCurrent \/ time[u] >= renderTime)]_vars

(***************************************************************************)
(* The callback of every update that is part of the committed state has    *)
(* been called, even if the update was first processed by a render that    *)
(* was thrown away or is still in the list to be rebased.  (Not so for a   *)
(* captured error: one that a discarded render processed is in the base    *)
(* state enqueueUpdate clones for a current fiber without a queue.)        *)
(***************************************************************************)
CallbacksCalled ==
  phase = "idle" =>
    \A u \in ToSet(Ordinary(memoizedState["current"])) : u \notin callback

(***************************************************************************)
(* "Set this to null, in case it was mutated during an aborted render"     *)
(* (line 502): the effects of a finished queue form a list that ends.      *)
(***************************************************************************)
EffectListEnds == phase # "hung"

(***************************************************************************)
(* "We need to keep the captured updates in the queue so that they are     *)
(* rebased and not dropped" (line 639): a captured error that has been     *)
(* committed is in the state of the current fiber, or is still to be       *)
(* applied again.                                                          *)
(***************************************************************************)
CapturedNotDropped ==
  updateQueue["current"] # Null =>
    committed \subseteq ToSet(queue[updateQueue["current"]].baseState \o Pending("current"))
=============================================================================
