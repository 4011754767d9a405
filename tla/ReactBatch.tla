----------------------------- MODULE ReactBatch -----------------------------
(***************************************************************************)
(* A root created with createRoot, and its batches: updates that are       *)
(* rendered and not committed before the application says so               *)
(* (ReactDOM.js; the lock is in ReactFiberWorkLoop.js).                    *)
(*                                                                         *)
(* The batches of a root are a list in the order of their expiration       *)
(* times, linked by `next`; the first one that is deferred locks the root. *)
(* An element that is rendered is named by the batch it belongs to, or     *)
(* NoBatch, and a number.  A render and its commit are one step (what      *)
(* comes between them is in RootScheduler); `then` is left out.            *)
(*                                                                         *)
(* Times are expiration times (see ExpirationTime): they are counted down. *)
(***************************************************************************)
EXTENDS Integers, Sequences, FiniteSets, SequencesExt, FiniteSetsExt

CONSTANTS
  MaxBatch, MaxRender, MaxNow,                        \* bounds
  Sync,                                               \* MAX_SIGNED_31_BIT_INT
  LOW_PRIORITY_EXPIRATION, LOW_PRIORITY_BATCH_SIZE    \* in units

\* Times stay above NoTime.
ASSUME ReactBatchAssumption ==
  /\ MaxBatch \in Nat /\ MaxRender \in Nat /\ MaxNow \in Nat /\ Sync \in Nat
  /\ LOW_PRIORITY_EXPIRATION \in Nat /\ LOW_PRIORITY_BATCH_SIZE \in Nat \ {0}
  /\ MaxNow + LOW_PRIORITY_EXPIRATION + LOW_PRIORITY_BATCH_SIZE + 3 < Sync

NoTime == 0   \* NoWork
NoBatch == 0
NoElement == <<NoBatch, 0>>
MAGIC_NUMBER_OFFSET == Sync - 2

VARIABLES
  clock,                      \* now()
  currentEventTime,           \* what updates take for now
  lastUniqueAsyncExpiration,
  batch,                      \* [expirationTime, next, defer, children] by number
  root,                       \* the root, a record
  renders,                    \* how many elements have been rendered
  known,                      \* history: what has happened that the code gets wrong
  failed                      \* history: a commit threw, or did not show its batch

batchVars == <<clock, currentEventTime, lastUniqueAsyncExpiration, batch, root, renders, known,
               failed>>
timeVars == <<clock, currentEventTime>>

hasChildren(b) == batch[b].children # NoElement

\* A fiber root with its update queue: an update that a later render may have
\* to apply again stays in the queue.
BatchInit ==
  /\ clock = MAGIC_NUMBER_OFFSET /\ currentEventTime = MAGIC_NUMBER_OFFSET
  /\ lastUniqueAsyncExpiration = NoTime /\ batch = <<>>
  /\ root = [queue |-> <<>>, baseState |-> NoElement, shown |-> NoElement, firstBatch |-> NoBatch,
             callbackExpirationTime |-> NoTime, workInProgressTime |-> NoTime,
             finishedExpirationTime |-> NoTime, rendered |-> 0]
  /\ renders = 0 /\ known = {} /\ failed = FALSE
-----------------------------------------------------------------------------
(***************************************************************************)
(* The root.                                                               *)
(***************************************************************************)
\* computeExpirationBucket, with its rounding to the next bucket, also of a multiple.
computeAsyncExpiration ==
  LET start == MAGIC_NUMBER_OFFSET - currentEventTime + LOW_PRIORITY_EXPIRATION
  IN  MAGIC_NUMBER_OFFSET - (start \div LOW_PRIORITY_BATCH_SIZE + 1) * LOW_PRIORITY_BATCH_SIZE

\* computeExpirationForFiber: not the time of the render in progress.
AsyncExpiration ==
  IF computeAsyncExpiration = root.workInProgressTime THEN computeAsyncExpiration - 1
  ELSE computeAsyncExpiration

pendingTime(r) ==
  Max({NoTime} \cup {u.time : u \in {v \in ToSet(r.queue) : ~v.applied}})

\* scheduleCallbackForRoot
CallbackScheduled(r, time) ==
  [r EXCEPT !.callbackExpirationTime = IF @ < time THEN time ELSE @]

\* updateContainerAtExpirationTime
Updated(r, element, time) ==
  CallbackScheduled(
    [r EXCEPT !.queue = Append(@, [time |-> time, element |-> element, applied |-> FALSE])], time)

\* processUpdateQueue: the last update of the time or above it decides; from the
\* first one that is skipped on they are kept.
ElementAt(updates, time, base) ==
  LET last == SelectLastInSeq(updates, LAMBDA u : u.time >= time)
  IN  IF last = 0 THEN base ELSE updates[last].element

\* commitRoot, of the tree that was rendered at `time` from the first updates.
Committed(r, time) ==
  LET read == SubSeq(r.queue, 1, r.rendered)
      unread == SubSeq(r.queue, r.rendered + 1, Len(r.queue))
      skipped == SelectInSeq(read, LAMBDA u : u.time < time)
      kept == IF skipped = 0 THEN <<>> ELSE SubSeq(read, skipped, Len(read))
      before == IF skipped = 0 THEN read ELSE SubSeq(read, 1, skipped - 1)
      left == [r EXCEPT !.queue = [i \in DOMAIN kept |->
                                     [kept[i] EXCEPT !.applied = @ \/ kept[i].time >= time]] \o unread,
                        !.baseState = ElementAt(before, time, @),
                        !.shown = ElementAt(read, time, r.baseState),
                        !.callbackExpirationTime = NoTime, !.workInProgressTime = NoTime,
                        !.finishedExpirationTime = NoTime, !.rendered = 0]
  IN  CallbackScheduled(left, pendingTime(left))

\* Mutant: a batch locks what is rendered below its time.
LocksLater(r, batches, time) ==
  /\ r.firstBatch # NoBatch
  /\ batches[r.firstBatch].defer /\ batches[r.firstBatch].expirationTime > time

\* resolveLocksOnRoot
isLocked(r, batches, time) ==
  /\ r.firstBatch # NoBatch
  /\ batches[r.firstBatch].defer /\ batches[r.firstBatch].expirationTime >= time

\* A tree is rendered, unless nothing is left to do or it is finished already.
Renders(r, time) == pendingTime(r) >= time /\ r.finishedExpirationTime # time

\* "Restart at the current time": a synchronous render of asynchronous work that has
\* expired renders everything that has.
Restarts(time, isSync) == isSync /\ time # Sync /\ clock < time
RenderTime(time, isSync) == IF Restarts(time, isSync) THEN clock ELSE time

\* renderRoot: a tree that is finished already is committed as it is.
RootRendered(r, batches, time, isSync) ==
  LET at == RenderTime(time, isSync)
      finished == [r EXCEPT !.workInProgressTime = at, !.finishedExpirationTime = at,
                            !.rendered = Len(r.queue)]
  IN  IF pendingTime(r) < time THEN r
      ELSE IF ~Renders(r, time) THEN Committed(r, time)
      ELSE IF isLocked(r, batches, at) THEN finished ELSE Committed(finished, at)

\* The Scheduler runs the root's callback; a render that it may interrupt resets the
\* time of the event.
runRootCallback(didTimeout) ==
  /\ root.callbackExpirationTime # NoTime
  /\ root' = RootRendered([root EXCEPT !.callbackExpirationTime = NoTime], batch,
                          root.callbackExpirationTime, didTimeout)
  /\ currentEventTime' = IF ~didTimeout /\ Renders(root, root.callbackExpirationTime)
                         THEN clock ELSE currentEventTime
  /\ UNCHANGED <<clock, lastUniqueAsyncExpiration, batch, renders, known, failed>>

advanceTime ==
  /\ clock > MAGIC_NUMBER_OFFSET - MaxNow /\ clock' = clock - 1
  /\ UNCHANGED <<currentEventTime, lastUniqueAsyncExpiration, batch, root, renders, known, failed>>

\* The render of another root resets the time of the event, and an update reads the clock.
requestCurrentTime ==
  /\ currentEventTime' = clock
  /\ UNCHANGED <<clock, lastUniqueAsyncExpiration, batch, root, renders, known, failed>>

\* The tree that is finished at this time is going to be committed without the update.
Overtaken(time) == IF root.finishedExpirationTime = time THEN {"overtaken"} ELSE {}

NextElement == renders < MaxRender /\ renders' = renders + 1

\* root.render, by default or in flushSync.
renderElement(sync) ==
  /\ NextElement
  /\ LET element == <<NoBatch, renders + 1>>
     IN  root' = IF sync
                 THEN RootRendered([Updated(root, element, Sync)
                                      EXCEPT !.callbackExpirationTime = NoTime], batch, Sync, TRUE)
                 ELSE Updated(root, element, AsyncExpiration)
  /\ known' = known \cup IF sync THEN {} ELSE Overtaken(AsyncExpiration)
  /\ UNCHANGED <<timeVars, lastUniqueAsyncExpiration, batch, failed>>
-----------------------------------------------------------------------------
(***************************************************************************)
(* Batches.                                                                *)
(***************************************************************************)
\* Times descend, so the branch is taken by the first batch of a later bucket too,
\* and the next one of that bucket gets an earlier time than it.
computeUniqueAsyncExpiration(last) ==
  IF computeAsyncExpiration <= last THEN computeAsyncExpiration - 1 ELSE computeAsyncExpiration

\* The list, from the first batch on.
LinkedFrom(batches, first) ==
  LET list[n \in 0 .. MaxBatch] ==
        IF n = 0 THEN <<>>
        ELSE LET l == list[n - 1]
                 b == IF l = <<>> THEN first ELSE batches[Last(l)].next
             IN  IF b = NoBatch THEN l ELSE Append(l, b)
  IN  list[MaxBatch]
List == LinkedFrom(batch, root.firstBatch)

\* Inserted by time, after those of the same time.  In front of all others it is
\* not reached from firstBatch.
createBatch ==
  LET time == computeUniqueAsyncExpiration(lastUniqueAsyncExpiration)
      b == Len(batch) + 1
      before == SelectLastInSeq(List, LAMBDA c : batch[c].expirationTime >= time)
      new(next) == [expirationTime |-> time, next |-> next, defer |-> TRUE, children |-> NoElement]
  IN  /\ Len(batch) < MaxBatch
      /\ lastUniqueAsyncExpiration' = time
      /\ known' = known \cup (IF \E c \in DOMAIN batch : batch[c].expirationTime = time
                              THEN {"sharedTime"} ELSE {})
                        \cup (IF List # <<>> /\ before = 0 THEN {"beforeFirst"} ELSE {})
      /\ IF List = <<>> \/ before = 0
         THEN batch' = Append(batch, new(root.firstBatch))
         ELSE batch' = Append([batch EXCEPT ![List[before]].next = b], new(batch[List[before]].next))
      /\ root' = IF List = <<>> THEN [root EXCEPT !.firstBatch = b] ELSE root
      /\ UNCHANGED <<timeVars, renders, failed>>

\* batch.render
renderBatch(b) ==
  /\ batch[b].defer /\ NextElement
  /\ batch' = [batch EXCEPT ![b].children = <<b, renders + 1>>]
  /\ root' = Updated(root, <<b, renders + 1>>, batch[b].expirationTime)
  /\ known' = known \cup Overtaken(batch[b].expirationTime)
  /\ UNCHANGED <<timeVars, lastUniqueAsyncExpiration, failed>>

\* batch.commit of a batch that nothing was rendered in: it goes, with those after it.
commitEmptyBatch(b) ==
  /\ batch[b].defer /\ root.firstBatch # NoBatch /\ ~hasChildren(b)
  /\ batch' = [batch EXCEPT ![b].next = NoBatch, ![b].defer = FALSE]
  /\ known' = known \cup {"emptyBatch"}
  /\ UNCHANGED <<timeVars, lastUniqueAsyncExpiration, root, renders, failed>>

\* Flushing this root for b renders what another batch has rendered, too.
Expired(r, batches, b) ==
  LET time == batches[b].expirationTime
  IN  IF /\ Renders(r, time) /\ Restarts(time, TRUE)
         /\ \E c \in DOMAIN batches \ {b} :
              batches[c].defer /\ hasChildren(c) /\ batches[c].expirationTime >= clock
      THEN {"expired"} ELSE {}

\* flushRoot, the batch leaves the list, and the next one is rendered again, on top of it.
Flushed(r, batches, b) ==
  LET open == [batches EXCEPT ![b].defer = FALSE]
      flushed == [RootRendered(r, open, open[b].expirationTime, TRUE)
                    EXCEPT !.firstBatch = open[b].next]
      next == open[b].next
  IN  /\ batch' = [open EXCEPT ![b].next = NoBatch]
      /\ root' = IF next # NoBatch /\ open[next].children # NoElement
                 THEN Updated(flushed, open[next].children, open[next].expirationTime)
                 ELSE flushed

commitFirstBatch(b) ==
  /\ batch[b].defer /\ hasChildren(b) /\ root.firstBatch = b
  /\ Flushed(root, batch, b) /\ known' = known \cup Expired(root, batch, b)
  /\ UNCHANGED <<timeVars, lastUniqueAsyncExpiration, renders, failed>>

\* It is moved to the front, with the time of the first batch, and its children
\* are rendered again to be the last ones of that time.
Moved(b) ==
  LET first == root.firstBatch
      previous == List[CHOOSE i \in DOMAIN List : i < Len(List) /\ List[i + 1] = b]
  IN  [batch EXCEPT ![b].expirationTime = batch[first].expirationTime,
                    ![previous].next = batch[b].next, ![b].next = first]

commitLaterBatch(b) ==
  /\ batch[b].defer /\ hasChildren(b) /\ b \in ToSet(List) \ {root.firstBatch}
  /\ LET time == batch[root.firstBatch].expirationTime
         r == [Updated(root, batch[b].children, time) EXCEPT !.firstBatch = b]
     IN  /\ Flushed(r, Moved(b), b)
         /\ known' = known \cup Overtaken(time) \cup Expired(r, Moved(b), b)
  /\ failed' = (failed \/ root'.shown # batch[b].children)
  /\ UNCHANGED <<timeVars, lastUniqueAsyncExpiration, renders>>

\* The batch is not in the list: the search runs off its end, or there is none.
commitUnlistedBatch(b) ==
  /\ batch[b].defer
  /\ root.firstBatch = NoBatch \/ (hasChildren(b) /\ b \notin ToSet(List))
  /\ failed' = TRUE
  /\ UNCHANGED <<timeVars, lastUniqueAsyncExpiration, batch, root, renders, known>>

BatchNext ==
  \/ advanceTime \/ requestCurrentTime \/ createBatch
  \/ \E didTimeout \in BOOLEAN : runRootCallback(didTimeout)
  \/ \E sync \in BOOLEAN : renderElement(sync)
  \/ \E b \in DOMAIN batch :
       \/ renderBatch(b) \/ commitEmptyBatch(b) \/ commitFirstBatch(b) \/ commitLaterBatch(b)
       \/ commitUnlistedBatch(b)

BatchSpec == BatchInit /\ [][BatchNext]_batchVars
-----------------------------------------------------------------------------
\* What a batch renders is not shown before it is committed, even when a sync
\* render goes on top of it (resolveLocksOnRoot).
DeferredIsNotShown ==
  root.shown[1] # NoBatch => ~batch[root.shown[1]].defer

\* When no batch locks the root, a callback takes care of what is pending: the
\* commit of a batch leaves a callback for what its lock held back.
NothingForgotten ==
  root.callbackExpirationTime = NoTime /\ (\A b \in ToSet(List) : ~batch[b].defer) =>
    pendingTime(root) = NoTime

\* Batches are shown in the order in which they are committed, whatever they were
\* created in, each by its own commit and with no other batch (ReactBatch.commit) -
\* as long as no batch is created in front of the first one or with the time of
\* another, none is committed empty, nothing is rendered at the time of a tree that
\* is finished and locked, and no batch is committed so late that another one, whose
\* time is over as well, is rendered with it.
BatchesAreSeparate ==
  known = {} => ~failed /\ DeferredIsNotShown /\ NothingForgotten
=============================================================================
