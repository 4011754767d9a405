--------------------------- MODULE ReactBatchProofs ---------------------------
(***************************************************************************)
(* Proofs about the batches of a root: a commit shows its own batch, the    *)
(* others stay hidden, and what they lock is rendered in the end            *)
(* (BatchesAreSeparate).  The links and times of the batches are a list,    *)
(* and the updates in the root's queue are those of the list.               *)
(***************************************************************************)
EXTENDS ReactBatch, FiniteSetTheorems, SequenceTheorems, NaturalsInduction,
        WellFoundedInduction, TLAPS

BatchElement == Nat \X Nat
BatchRecord ==
  [expirationTime : 1 .. Sync - 1, next : Nat, defer : BOOLEAN, children : BatchElement]
QueuedUpdate == [time : 1 .. Sync, element : BatchElement, applied : BOOLEAN]
RootRecord ==
  [queue : Seq(QueuedUpdate), baseState : BatchElement, shown : BatchElement, firstBatch : Nat,
   callbackExpirationTime : Nat, workInProgressTime : Nat, finishedExpirationTime : Nat,
   rendered : Nat]

\* What the clock can read.
Now == MAGIC_NUMBER_OFFSET - MaxNow .. MAGIC_NUMBER_OFFSET

BatchTypeOK ==
  /\ clock \in Now /\ currentEventTime \in Now /\ lastUniqueAsyncExpiration \in Nat
  /\ batch \in Seq(BatchRecord) /\ root \in RootRecord /\ renders \in Nat
  /\ Len(batch) <= MaxBatch
  /\ failed \in BOOLEAN

Deferred(batches) == {b \in 1 .. Len(batches) : batches[b].defer}

\* L is the list of the batches from `first` on: the deferred ones, the latest time
\* first.
IsBatchList(L, batches, first) ==
  /\ L \in Seq(Nat) /\ Len(L) <= Len(batches)
  /\ first = IF L = <<>> THEN NoBatch ELSE L[1]
  /\ \A i \in 1 .. Len(L) :
       /\ L[i] \in Deferred(batches)
       /\ batches[L[i]].next = IF i = Len(L) THEN NoBatch ELSE L[i + 1]
  /\ \A b \in Deferred(batches) : \E i \in 1 .. Len(L) : L[i] = b
  /\ \A i, j \in 1 .. Len(L) :
       i < j => batches[L[i]].expirationTime > batches[L[j]].expirationTime

ChildrenOK(batches) ==
  \A b \in 1 .. Len(batches) : batches[b].children = NoElement \/ batches[b].children[1] = b

\* The updates of a deferred batch are those at its time, and its children are the last.
UpdatesOK(r, batches) ==
  \A i \in 1 .. Len(r.queue) :
    /\ r.queue[i].element[1] \in 0 .. Len(batches)
    /\ r.queue[i].element[1] \in Deferred(batches) =>
         /\ r.queue[i].time = batches[r.queue[i].element[1]].expirationTime
         /\ batches[r.queue[i].element[1]].children # NoElement

\* What these batches render is still to be applied.
Waiting(r, batches, some) ==
  \A b \in some : batches[b].children # NoElement =>
    \E i \in 1 .. Len(r.queue) : r.queue[i].element[1] = b /\ ~r.queue[i].applied

\* A render at this time does not reach what these batches render.
Below(some, batches, time) ==
  \A b \in some : batches[b].children # NoElement => batches[b].expirationTime < time

ShownOK(r, batches) == r.shown[1] \in 0 .. Len(batches) \ Deferred(batches)

QueueOK(r, batches) ==
  UpdatesOK(r, batches) /\ Waiting(r, batches, Deferred(batches)) /\ ShownOK(r, batches)

\* A tree that waits at its time shows an update of that time or above.
ShowsSome(r, time) ==
  /\ r.rendered <= Len(r.queue)
  /\ \E i \in 1 .. r.rendered : r.queue[i].time >= time
FinishedOK(r) ==
  r.finishedExpirationTime # NoTime =>
    /\ r.finishedExpirationTime < Sync
    /\ r.callbackExpirationTime # r.finishedExpirationTime
    /\ ShowsSome(r, r.finishedExpirationTime)

\* A callback is there for what is pending, unless a batch locks the root.
PendingOK(r) ==
  /\ r.callbackExpirationTime <= pendingTime(r)
  /\ r.callbackExpirationTime < pendingTime(r) => r.firstBatch # NoBatch

\* What holds of a root and its batches.
RootOK(r, batches) ==
  /\ \E L : IsBatchList(L, batches, r.firstBatch)
  /\ ChildrenOK(batches) /\ QueueOK(r, batches) /\ FinishedOK(r) /\ PendingOK(r)

\* The invariant: as long as nothing has happened that the code gets wrong.
BatchInv == known = {} => BatchTypeOK /\ RootOK(root, batch) /\ ~failed

-----------------------------------------------------------------------------
\* A non-empty set of positions has a least element, and Min is that element.
LEMMA MinOfPositions ==
  ASSUME NEW S, S \subseteq Nat, S # {}
  PROVE  Min(S) \in S /\ \A y \in S : Min(S) <= y
<1>1. PICK x \in S : \A y \in S : ~(<<y, x>> \in OpToRel(<, Nat))
  BY NatLessThanWellFounded, WFMin, Zenon
<1>2. ASSUME NEW y \in S
      PROVE  x <= y
  <2>1. <<y, x>> \in Nat \X Nat /\ <<y, x>>[1] = y /\ <<y, x>>[2] = x
    OBVIOUS
  <2>2. y < x => <<y, x>> \in OpToRel(<, Nat)
    BY <2>1, Zenon DEF OpToRel
  <2>3. ~(y < x)
    BY <1>1, <2>2, Zenon
  <2> QED  BY <2>3
<1> QED  BY <1>2, Zenon DEF Min

\* A bounded non-empty set of numbers has a greatest element, and Max is that element.
LEMMA MaxOfBounded ==
  ASSUME NEW S, NEW k \in Nat, S \subseteq 0 .. k, S # {}
  PROVE  Max(S) \in S /\ \A y \in S : Max(S) >= y
<1> DEFINE T == {k - x : x \in S}
<1>1. T \subseteq Nat /\ T # {}
  OBVIOUS
<1>2. PICK m \in T : \A y \in T : m <= y
  BY <1>1, MinOfPositions
<1>3. PICK x \in S : m = k - x
  OBVIOUS
<1>4. ASSUME NEW y \in S
      PROVE  x >= y
  <2>1. m <= k - y
    BY <1>2
  <2> QED  BY <1>3, <2>1
<1> QED  BY <1>4, Zenon DEF Max

-----------------------------------------------------------------------------
(***************************************************************************)
(* Times.                                                                  *)
(***************************************************************************)
LEMMA SyncIsLast ==
  /\ Sync \in Nat /\ Sync > 3 /\ Now \subseteq 1 .. Sync - 2
  /\ MaxNow \in Nat /\ MAGIC_NUMBER_OFFSET = Sync - 2
  /\ 1 < MAGIC_NUMBER_OFFSET - MaxNow - LOW_PRIORITY_EXPIRATION - LOW_PRIORITY_BATCH_SIZE
  BY ReactBatchAssumption DEF Now, MAGIC_NUMBER_OFFSET

\* Rounded up to the end of its bucket, which is not further away than the bucket is long.
LEMMA BucketIsNear ==
  ASSUME NEW start \in Nat, NEW size \in Nat \ {0}
  PROVE  /\ (start \div size + 1) * size \in Nat
         /\ start <= (start \div size + 1) * size
         /\ (start \div size + 1) * size <= start + size
<1>1. start = size * (start \div size) + (start % size) /\ start % size \in 0 .. size - 1
      /\ start \div size \in Nat
  OBVIOUS
<1>2. PICK k \in Nat : k = start \div size
  BY <1>1
<1>3. (k + 1) * size = size * k + size /\ size * k \in Nat
  OBVIOUS
<1> QED  BY <1>1, <1>2, <1>3

LEMMA AsyncIsAhead ==
  ASSUME currentEventTime \in Now
  PROVE  computeAsyncExpiration \in 2 .. Sync - 1
<1> DEFINE start == MAGIC_NUMBER_OFFSET - currentEventTime + LOW_PRIORITY_EXPIRATION
           size == LOW_PRIORITY_BATCH_SIZE
           end == (start \div size + 1) * size
<1>1. size \in Nat \ {0} /\ start \in Nat /\ start <= MaxNow + LOW_PRIORITY_EXPIRATION
  BY SyncIsLast, ReactBatchAssumption DEF Now
<1>2. computeAsyncExpiration = MAGIC_NUMBER_OFFSET - end
  BY DEF computeAsyncExpiration
<1> HIDE DEF start, size
<1>3. end \in Nat /\ end <= start + size
  BY <1>1, BucketIsNear
<1> HIDE DEF end
<1>4. end <= MaxNow + LOW_PRIORITY_EXPIRATION + LOW_PRIORITY_BATCH_SIZE
  BY <1>1, <1>3, ReactBatchAssumption DEF size
<1> QED  BY <1>2, <1>3, <1>4, SyncIsLast, ReactBatchAssumption

LEMMA AsyncIsBelowSync ==
  ASSUME currentEventTime \in Now
  PROVE  AsyncExpiration \in 1 .. Sync - 1
  BY AsyncIsAhead, SyncIsLast DEF AsyncExpiration

LEMMA UniqueIsBelowSync ==
  ASSUME currentEventTime \in Now, NEW last \in Nat
  PROVE  computeUniqueAsyncExpiration(last) \in 1 .. Sync - 1
  BY AsyncIsAhead, SyncIsLast DEF computeUniqueAsyncExpiration

\* flushRoot renders so that it is not interrupted.
Synchronously == TRUE

\* The time that renderRoot commits or leaves a tree at: the time it is asked for, or
\* the current time when it restarts.
CommitTime(r, time, isSync) ==
  IF r.finishedExpirationTime = time THEN time ELSE RenderTime(time, isSync)

LEMMA CommitTimeIs ==
  ASSUME clock \in Now, NEW r, NEW time \in 1 .. Sync, NEW isSync
  PROVE  /\ CommitTime(r, time, isSync) \in 1 .. Sync
         /\ CommitTime(r, time, isSync) <= time
  BY SyncIsLast DEF CommitTime, RenderTime, Restarts

\* Unless a flush is known to be late, it reaches no other batch when it restarts.
LEMMA NotExpired ==
  ASSUME clock \in Now, NEW r, NEW batches \in Seq(BatchRecord), NEW b \in 1 .. Len(batches),
         Expired(r, batches, b) = {}, NEW time, time = batches[b].expirationTime,
         pendingTime(r) >= time, CommitTime(r, time, Synchronously) # time
  PROVE  \A c \in Deferred(batches) \ {b} :
           hasChildren(c) => batches[c].expirationTime < CommitTime(r, time, Synchronously)
<1>1. Renders(r, time) /\ Restarts(time, TRUE) /\ CommitTime(r, time, Synchronously) = clock
  BY DEF CommitTime, RenderTime, Renders, Synchronously
<1> SUFFICES ASSUME NEW c \in Deferred(batches) \ {b}, hasChildren(c)
             PROVE  batches[c].expirationTime < clock
  BY <1>1
<1>2. c \in DOMAIN batches \ {b} /\ batches[c].defer /\ c \in 1 .. Len(batches)
  BY LenProperties DEF Deferred
<1>3. ~(batches[c].expirationTime >= clock)
  BY <1>1, <1>2 DEF Expired
<1>4. batches[c] \in BatchRecord
  BY <1>2, ElementOfSeq, Zenon
<1>5. batches[c].expirationTime \in Nat
  <2>1. batches[c].expirationTime \in 1 .. Sync - 1
    BY <1>4 DEF BatchRecord
  <2> QED  BY <2>1, SyncIsLast
<1> QED  BY <1>3, <1>5, SyncIsLast

\* The time of what is pending.
LEMMA PendingIsGreatest ==
  ASSUME NEW r \in RootRecord, Sync \in Nat
  PROVE  /\ pendingTime(r) \in 0 .. Sync
         /\ \A i \in 1 .. Len(r.queue) : ~r.queue[i].applied => r.queue[i].time <= pendingTime(r)
         /\ pendingTime(r) # NoTime =>
              \E i \in 1 .. Len(r.queue) : ~r.queue[i].applied /\ r.queue[i].time = pendingTime(r)
<1> DEFINE S == {NoTime} \cup {u.time : u \in {v \in ToSet(r.queue) : ~v.applied}}
<1>1. r.queue \in Seq(QueuedUpdate) /\ Len(r.queue) \in Nat /\ DOMAIN r.queue = 1 .. Len(r.queue)
  BY LenProperties DEF RootRecord
<1>2. \A i \in 1 .. Len(r.queue) : r.queue[i] \in QueuedUpdate /\ r.queue[i].time \in 1 .. Sync
  <2> SUFFICES ASSUME NEW i \in 1 .. Len(r.queue)
               PROVE  r.queue[i] \in QueuedUpdate /\ r.queue[i].time \in 1 .. Sync
    OBVIOUS
  <2>1. r.queue[i] \in QueuedUpdate
    BY <1>1, ElementOfSeq, Zenon
  <2> QED  BY <2>1 DEF QueuedUpdate
<1>3. \A t : t \in S <=>
        \/ t = NoTime
        \/ \E i \in 1 .. Len(r.queue) : ~r.queue[i].applied /\ t = r.queue[i].time
  BY <1>1 DEF ToSet
<1> HIDE DEF S
<1>4. S \subseteq 0 .. Sync /\ S # {}
  <2>1. NoTime \in S
    BY <1>3, Zenon
  <2>2. ASSUME NEW t \in S
        PROVE  t \in 0 .. Sync
    BY <1>2, <1>3 DEF NoTime
  <2> QED  BY <2>1, <2>2
<1>5. Max(S) \in S /\ \A y \in S : Max(S) >= y
  BY <1>4, MaxOfBounded
<1>6. pendingTime(r) = Max(S)
  BY DEF pendingTime, S
<1> QED  BY <1>2, <1>3, <1>4, <1>5, <1>6

\* It depends on the queue only.
LEMMA PendingOfQueue ==
  ASSUME NEW r, NEW s, r.queue = s.queue
  PROVE  pendingTime(r) = pendingTime(s)
  BY DEF pendingTime

-----------------------------------------------------------------------------
(***************************************************************************)
(* Operations of the root.                                                 *)
(***************************************************************************)
LEMMA ElementAtIsLast ==
  ASSUME NEW q \in Seq(QueuedUpdate), NEW time \in Nat, NEW base \in BatchElement, Sync \in Nat
  PROVE  /\ ElementAt(q, time, base) \in BatchElement
         /\ ElementAt(q, time, base) = base
              \/ \E i \in 1 .. Len(q) : q[i].time >= time /\ q[i].element = ElementAt(q, time, base)
         /\ (\E i \in 1 .. Len(q) : q[i].time >= time) =>
              \E i \in 1 .. Len(q) :
                /\ q[i].time >= time /\ q[i].element = ElementAt(q, time, base)
                /\ \A j \in i + 1 .. Len(q) : q[j].time < time
<1> DEFINE I == {i \in 1 .. Len(q) : q[i].time >= time}
<1>1. Len(q) \in Nat /\ I \subseteq 0 .. Len(q)
  BY LenProperties
<1>2. \A i \in 1 .. Len(q) : q[i] \in QueuedUpdate
  BY ElementOfSeq, Zenon
<1>3. \A i \in 1 .. Len(q) : q[i].element \in BatchElement /\ q[i].time \in Nat
  BY <1>2 DEF QueuedUpdate
<1>4. SelectLastInSeq(q, LAMBDA u : u.time >= time) = IF I # {} THEN Max(I) ELSE 0
  BY DEF SelectLastInSeq
<1>5. I # {} => Max(I) \in I /\ \A j \in I : Max(I) >= j
  BY <1>1, MaxOfBounded
<1>6. ElementAt(q, time, base) = IF I = {} THEN base ELSE q[Max(I)].element
  <2>1. I # {} => Max(I) # 0
    BY <1>1, <1>5
  <2> QED  BY <1>4, <2>1 DEF ElementAt
<1>7. CASE I = {}
  BY <1>6, <1>7
<1>8. CASE I # {}
  <2> DEFINE m == Max(I)
  <2>1. m \in 1 .. Len(q) /\ q[m].time >= time /\ q[m].element = ElementAt(q, time, base)
    BY <1>5, <1>6, <1>8
  <2>2. \A j \in m + 1 .. Len(q) : q[j].time < time
    <3> SUFFICES ASSUME NEW j \in m + 1 .. Len(q) PROVE q[j].time < time
      OBVIOUS
    <3>1. j \in 1 .. Len(q) /\ ~(m >= j)
      BY <1>1, <2>1
    <3>2. j \notin I
      BY <1>5, <1>8, <3>1
    <3> QED  BY <1>3, <3>1, <3>2
  <2> HIDE DEF m
  <2>3. ElementAt(q, time, base) \in BatchElement
    BY <1>3, <2>1
  <2> QED  BY <2>1, <2>2, <2>3
<1> QED  BY <1>7, <1>8

LEMMA ScheduledRoot ==
  ASSUME NEW r \in RootRecord, NEW time \in Nat
  PROVE  LET s == CallbackScheduled(r, time)
         IN  /\ s \in RootRecord
             /\ s.callbackExpirationTime =
                  IF r.callbackExpirationTime < time THEN time ELSE r.callbackExpirationTime
             /\ s.queue = r.queue /\ s.shown = r.shown /\ s.firstBatch = r.firstBatch
             /\ s.finishedExpirationTime = r.finishedExpirationTime /\ s.rendered = r.rendered
  BY DEF CallbackScheduled, RootRecord

LEMMA UpdatedRoot ==
  ASSUME NEW r \in RootRecord, NEW time \in 1 .. Sync, Sync \in Nat, NEW element \in BatchElement
  PROVE  LET s == Updated(r, element, time)
         IN  /\ s \in RootRecord
             /\ s.callbackExpirationTime =
                  IF r.callbackExpirationTime < time THEN time ELSE r.callbackExpirationTime
             /\ s.shown = r.shown /\ s.firstBatch = r.firstBatch
             /\ s.finishedExpirationTime = r.finishedExpirationTime /\ s.rendered = r.rendered
             /\ Len(s.queue) = Len(r.queue) + 1
             /\ \A i \in 1 .. Len(r.queue) : s.queue[i] = r.queue[i]
             /\ s.queue[Len(r.queue) + 1] =
                  [time |-> time, element |-> element, applied |-> FALSE]
<1> DEFINE u == [time |-> time, element |-> element, applied |-> FALSE]
           t == [r EXCEPT !.queue = Append(r.queue, u)]
<1>1. u \in QueuedUpdate /\ r.queue \in Seq(QueuedUpdate)
  BY DEF QueuedUpdate, RootRecord
<1>2. /\ Append(r.queue, u) \in Seq(QueuedUpdate) /\ Len(Append(r.queue, u)) = Len(r.queue) + 1
      /\ \A i \in 1 .. Len(r.queue) : Append(r.queue, u)[i] = r.queue[i]
      /\ Append(r.queue, u)[Len(r.queue) + 1] = u
  BY <1>1, AppendProperties
<1>3. /\ t \in RootRecord /\ t.queue = Append(r.queue, u)
      /\ t.callbackExpirationTime = r.callbackExpirationTime /\ t.shown = r.shown
      /\ t.firstBatch = r.firstBatch /\ t.finishedExpirationTime = r.finishedExpirationTime
      /\ t.rendered = r.rendered
  <2> HIDE DEF u
  <2> QED  BY <1>2 DEF RootRecord
<1>4. Updated(r, element, time) = CallbackScheduled(t, time)
  BY DEF Updated
<1> HIDE DEF t, u
<1>5. u = [time |-> time, element |-> element, applied |-> FALSE]
  BY DEF u
<1> DEFINE s == Updated(r, element, time)
<1>6. /\ s \in RootRecord
      /\ s.callbackExpirationTime =
           IF t.callbackExpirationTime < time THEN time ELSE t.callbackExpirationTime
      /\ s.queue = t.queue /\ s.shown = t.shown /\ s.firstBatch = t.firstBatch
      /\ s.finishedExpirationTime = t.finishedExpirationTime /\ s.rendered = t.rendered
  <2>1. time \in Nat
    OBVIOUS
  <2>2. s = CallbackScheduled(t, time)
    BY <1>4
  <2> HIDE DEF s
  <2> QED  BY <1>3, <2>1, <2>2, ScheduledRoot, Zenon
<1> HIDE DEF s
<1> SUFFICES
      /\ s \in RootRecord
      /\ s.callbackExpirationTime =
           IF r.callbackExpirationTime < time THEN time ELSE r.callbackExpirationTime
      /\ s.shown = r.shown /\ s.firstBatch = r.firstBatch
      /\ s.finishedExpirationTime = r.finishedExpirationTime /\ s.rendered = r.rendered
      /\ Len(s.queue) = Len(r.queue) + 1
      /\ \A i \in 1 .. Len(r.queue) : s.queue[i] = r.queue[i]
      /\ s.queue[Len(r.queue) + 1] =
           [time |-> time, element |-> element, applied |-> FALSE]
  BY DEF s
<1> QED  BY <1>2, <1>3, <1>5, <1>6

\* A commit takes updates out of the queue that have been applied, and marks others
\* as applied; what is below the time stays as it is.
LEMMA CommittedRoot ==
  ASSUME NEW r \in RootRecord, NEW time \in 1 .. Sync, Sync \in Nat, ShowsSome(r, time)
  PROVE  LET c == Committed(r, time)
         IN  /\ c \in RootRecord /\ c.firstBatch = r.firstBatch
             /\ c.finishedExpirationTime = NoTime
             /\ c.callbackExpirationTime = pendingTime(c)
             /\ \A i \in 1 .. Len(c.queue) : \E j \in 1 .. Len(r.queue) :
                  c.queue[i].time = r.queue[j].time /\ c.queue[i].element = r.queue[j].element
             /\ \A j \in 1 .. Len(r.queue) : r.queue[j].time < time =>
                  \E i \in 1 .. Len(c.queue) :
                    /\ c.queue[i].element = r.queue[j].element
                    /\ c.queue[i].applied = r.queue[j].applied
             /\ \E i \in 1 .. r.rendered :
                  /\ r.queue[i].time >= time /\ r.queue[i].element = c.shown
                  /\ \A j \in i + 1 .. r.rendered : r.queue[j].time < time
<1> DEFINE q == r.queue
           n == r.rendered
           read == SubSeq(q, 1, n)
           unread == SubSeq(q, n + 1, Len(q))
           skipped == SelectInSeq(read, LAMBDA u : u.time < time)
           kept == IF skipped = 0 THEN <<>> ELSE SubSeq(read, skipped, Len(read))
           before == IF skipped = 0 THEN read ELSE SubSeq(read, 1, skipped - 1)
           marked == [i \in DOMAIN kept |->
                        [kept[i] EXCEPT !.applied = @ \/ kept[i].time >= time]]
           left == [r EXCEPT !.queue = marked \o unread,
                             !.baseState = ElementAt(before, time, @),
                             !.shown = ElementAt(read, time, r.baseState),
                             !.callbackExpirationTime = NoTime, !.workInProgressTime = NoTime,
                             !.finishedExpirationTime = NoTime, !.rendered = 0]
           I == {i \in 1 .. Len(read) : read[i].time < time}
<1>1. /\ q \in Seq(QueuedUpdate) /\ Len(q) \in Nat /\ n \in 1 .. Len(q)
      /\ r.baseState \in BatchElement
  <2>1. /\ q \in Seq(QueuedUpdate) /\ Len(q) \in Nat /\ n \in Nat /\ r.baseState \in BatchElement
    BY LenProperties DEF RootRecord
  <2>2. n <= Len(q) /\ \E i \in 1 .. n : q[i].time >= time
    BY DEF ShowsSome
  <2> QED  BY <2>1, <2>2
<1>2. \A i \in 1 .. Len(q) : q[i] \in QueuedUpdate
  BY <1>1, ElementOfSeq, Zenon
<1> HIDE DEF q, n
<1>3. /\ read \in Seq(QueuedUpdate) /\ Len(read) = n
      /\ \A i \in 1 .. n : read[i] = q[i]
  <2>1. \A i \in 1 .. n : q[i] \in QueuedUpdate
    BY <1>1, <1>2
  <2>2. /\ read \in Seq(QueuedUpdate) /\ Len(read) = IF 1 <= n THEN n - 1 + 1 ELSE 0
        /\ \A i \in 1 .. n - 1 + 1 : read[i] = q[1 + i - 1]
    BY <1>1, <2>1, SubSeqProperties
  <2> QED  BY <1>1, <2>2
<1>4. /\ unread \in Seq(QueuedUpdate) /\ Len(unread) = Len(q) - n
      /\ \A i \in 1 .. Len(q) - n : unread[i] = q[n + i]
  <2>1. \A i \in n + 1 .. Len(q) : q[i] \in QueuedUpdate
    BY <1>1, <1>2
  <2>2. /\ unread \in Seq(QueuedUpdate)
        /\ Len(unread) = IF n + 1 <= Len(q) THEN Len(q) - (n + 1) + 1 ELSE 0
        /\ \A i \in 1 .. Len(q) - (n + 1) + 1 : unread[i] = q[n + 1 + i - 1]
    BY <1>1, <2>1, SubSeqProperties
  <2> QED  BY <1>1, <2>2
<1>5. skipped = IF I # {} THEN Min(I) ELSE 0
  BY DEF SelectInSeq
<1> HIDE DEF read, unread
<1>6. I # {} => Min(I) \in I /\ \A j \in I : Min(I) <= j
  <2>1. I \subseteq Nat
    BY <1>1, <1>3
  <2> QED  BY <2>1, MinOfPositions
<1>7. /\ skipped \in 0 .. n
      /\ \A j \in 1 .. n : q[j].time < time => skipped # 0 /\ skipped <= j
  <2>1. \A j : j \in I <=> j \in 1 .. n /\ q[j].time < time
    BY <1>3
  <2> HIDE DEF skipped, I
  <2>2. I # {} => Min(I) \in 1 .. n
    BY <1>6, <2>1
  <2>3. skipped \in 0 .. n
    BY <1>1, <1>5, <2>2
  <2>4. ASSUME NEW j \in 1 .. n, q[j].time < time
        PROVE  skipped # 0 /\ skipped <= j
    BY <1>1, <1>5, <1>6, <2>1, <2>2, <2>4
  <2> QED  BY <2>3, <2>4
<1> HIDE DEF skipped, I
<1>8. /\ kept \in Seq(QueuedUpdate) /\ Len(kept) = IF skipped = 0 THEN 0 ELSE n - skipped + 1
      /\ \A i \in 1 .. Len(kept) : kept[i] = q[skipped + i - 1] /\ skipped + i - 1 \in 1 .. n
  <2>1. CASE skipped = 0
    BY <2>1, EmptySeq
  <2>2. CASE skipped # 0
    <3>1. \A i \in skipped .. n : read[i] \in QueuedUpdate
      BY <1>1, <1>2, <1>3, <1>7, <2>2
    <3>2. /\ kept \in Seq(QueuedUpdate)
          /\ Len(kept) = IF skipped <= n THEN n - skipped + 1 ELSE 0
          /\ \A i \in 1 .. n - skipped + 1 : kept[i] = read[skipped + i - 1]
      BY <1>1, <1>3, <1>7, <2>2, <3>1, SubSeqProperties
    <3> QED  BY <1>1, <1>3, <1>7, <2>2, <3>2
  <2> QED  BY <2>1, <2>2
<1>9. before \in Seq(QueuedUpdate)
  <2>1. CASE skipped = 0
    BY <1>3, <2>1
  <2>2. CASE skipped # 0
    <3>1. \A i \in 1 .. skipped - 1 : read[i] \in QueuedUpdate
      BY <1>1, <1>2, <1>3, <1>7, <2>2
    <3> QED  BY <1>7, <2>2, <3>1, SubSeqProperties
  <2> QED  BY <2>1, <2>2
<1> HIDE DEF kept, before
<1>10. /\ marked \in Seq(QueuedUpdate) /\ Len(marked) = Len(kept)
       /\ \A i \in 1 .. Len(kept) :
            /\ marked[i].time = kept[i].time /\ marked[i].element = kept[i].element
            /\ kept[i].time < time => marked[i].applied = kept[i].applied
  <2>1. DOMAIN kept = 1 .. Len(kept) /\ Len(kept) \in Nat
    BY <1>8, LenProperties
  <2>2. \A i \in 1 .. Len(kept) : kept[i] \in QueuedUpdate
    BY <1>8, ElementOfSeq, Zenon
  <2>3. ASSUME NEW i \in 1 .. Len(kept)
        PROVE  /\ marked[i] \in QueuedUpdate
               /\ marked[i].time = kept[i].time /\ marked[i].element = kept[i].element
               /\ kept[i].time < time => marked[i].applied = kept[i].applied
    <3>1. marked[i] = [kept[i] EXCEPT !.applied = @ \/ kept[i].time >= time]
      BY <2>1
    <3>2. kept[i] \in QueuedUpdate
      BY <2>2
    <3> DEFINE k == kept[i]
    <3>3. k.time \in Nat /\ k.applied \in BOOLEAN
      BY <3>2 DEF QueuedUpdate
    <3>4. CASE k.time >= time
      <4>1. marked[i] = [k EXCEPT !.applied = TRUE]
        BY <3>1, <3>4
      <4>2. ~(k.time < time)
        BY <3>3, <3>4
      <4> HIDE DEF k, marked
      <4> QED  BY <3>2, <3>3, <4>1, <4>2 DEF QueuedUpdate, k
    <3>5. CASE ~(k.time >= time)
      <4>1. marked[i] = [k EXCEPT !.applied = k.applied]
        BY <3>1, <3>3, <3>5
      <4> HIDE DEF k, marked
      <4> QED  BY <3>2, <3>3, <4>1 DEF QueuedUpdate, k
    <3> QED  BY <3>4, <3>5
  <2>4. marked \in Seq(QueuedUpdate) /\ Len(marked) = Len(kept)
    <3>1. marked = [i \in 1 .. Len(kept) |-> marked[i]]
      BY <2>1
    <3> HIDE DEF marked
    <3>2. marked \in Seq(QueuedUpdate)
      BY <2>1, <2>3, <3>1, IsASeq
    <3> QED  BY <2>1, <3>1, <3>2, LenProperties
  <2> QED  BY <2>3, <2>4
<1> HIDE DEF marked
<1> DEFINE q2 == marked \o unread
<1>11. /\ q2 \in Seq(QueuedUpdate) /\ Len(q2) = Len(kept) + Len(q) - n
       /\ \A i \in 1 .. Len(q2) :
            q2[i] = IF i <= Len(kept) THEN marked[i] ELSE unread[i - Len(kept)]
  <2>1. /\ q2 \in Seq(QueuedUpdate) /\ Len(q2) = Len(marked) + Len(unread)
        /\ \A i \in 1 .. Len(marked) + Len(unread) :
             q2[i] = IF i <= Len(marked) THEN marked[i] ELSE unread[i - Len(marked)]
    <3>1. marked \in Seq(QueuedUpdate) /\ unread \in Seq(QueuedUpdate)
      BY <1>4, <1>10
    <3> HIDE DEF left
    <3> QED  BY <3>1, ConcatProperties, Zenon
  <2>2. Len(kept) \in Nat
    BY <1>8, LenProperties
  <2> QED  BY <1>1, <1>4, <1>10, <2>1, <2>2
<1> HIDE DEF q2
<1>12. ASSUME NEW i \in 1 .. Len(q2)
       PROVE  \E j \in 1 .. Len(q) : q2[i].time = q[j].time /\ q2[i].element = q[j].element
  <2>1. Len(kept) \in Nat
    BY <1>8, LenProperties
  <2>2. CASE i <= Len(kept)
    <3>0. i \in 1 .. Len(kept)
      BY <2>1, <2>2
    <3>1. q2[i].time = q[skipped + i - 1].time /\ q2[i].element = q[skipped + i - 1].element
      <4>1. q2[i] = marked[i]
        BY <1>11, <2>2
      <4>2. marked[i].time = kept[i].time /\ marked[i].element = kept[i].element
        BY <1>10, <3>0
      <4>3. kept[i] = q[skipped + i - 1]
        BY <1>8, <3>0
      <4> QED  BY <4>1, <4>2, <4>3
    <3>2. skipped + i - 1 \in 1 .. Len(q)
      BY <1>1, <1>8, <2>1, <2>2
    <3> QED  BY <3>1, <3>2
  <2>3. CASE ~(i <= Len(kept))
    <3> DEFINE m == i - Len(kept)
    <3>1. m \in 1 .. Len(q) - n /\ n + m \in 1 .. Len(q)
      BY <1>1, <1>11, <2>1, <2>3
    <3>2. q2[i] = unread[m]
      BY <1>11, <2>3
    <3> HIDE DEF m
    <3>3. unread[m] = q[n + m]
      BY <1>4, <3>1
    <3> QED  BY <3>1, <3>2, <3>3
  <2> QED  BY <2>2, <2>3
<1>13. ASSUME NEW j \in 1 .. Len(q), q[j].time < time
       PROVE  \E i \in 1 .. Len(q2) :
                q2[i].element = q[j].element /\ q2[i].applied = q[j].applied
  <2>1. Len(kept) \in Nat
    BY <1>8, LenProperties
  <2>2. CASE j <= n
    <3> DEFINE i == j - skipped + 1
    <3>1. i \in 1 .. Len(kept) /\ skipped + i - 1 = j /\ i \in 1 .. Len(q2)
      BY <1>1, <1>7, <1>8, <1>11, <1>13, <2>1, <2>2
    <3> HIDE DEF i
    <3>2. q2[i] = marked[i] /\ kept[i] = q[j]
      BY <1>8, <1>11, <3>1
    <3> QED  BY <1>10, <1>13, <3>1, <3>2
  <2>3. CASE ~(j <= n)
    <3> DEFINE i == Len(kept) + (j - n)
    <3>1. i \in 1 .. Len(q2) /\ ~(i <= Len(kept)) /\ i - Len(kept) = j - n
          /\ j - n \in 1 .. Len(q) - n
      BY <1>1, <1>11, <2>1, <2>3
    <3> HIDE DEF i
    <3>2. q2[i] = unread[j - n]
      BY <1>11, <3>1
    <3>3. q2[i] = q[j]
      BY <1>1, <1>4, <3>1, <3>2, SMTT(20)
    <3> QED  BY <3>1, <3>3
  <2> QED  BY <2>2, <2>3
<1> DEFINE shown == ElementAt(read, time, r.baseState)
           base == ElementAt(before, time, r.baseState)
<1>14. /\ shown \in BatchElement /\ base \in BatchElement
       /\ \E i \in 1 .. n : /\ q[i].time >= time /\ q[i].element = shown
                            /\ \A j \in i + 1 .. n : q[j].time < time
  <2>1. time \in Nat
    OBVIOUS
  <2>2. PICK i \in 1 .. n : q[i].time >= time
    BY DEF ShowsSome, n, q
  <2>3. read[i].time >= time
    BY <1>3, <2>2
  <2>4. shown \in BatchElement /\ base \in BatchElement
    BY <1>1, <1>3, <1>9, <2>1, ElementAtIsLast
  <2>5. \E m \in 1 .. Len(read) :
          /\ read[m].time >= time /\ read[m].element = shown
          /\ \A j \in m + 1 .. Len(read) : read[j].time < time
    BY <1>1, <1>3, <2>1, <2>3, ElementAtIsLast
  <2> QED  BY <1>1, <1>3, <2>4, <2>5
<1> HIDE DEF shown, base
<1>15. left = [r EXCEPT !.queue = q2, !.baseState = base, !.shown = shown,
                        !.callbackExpirationTime = NoTime, !.workInProgressTime = NoTime,
                        !.finishedExpirationTime = NoTime, !.rendered = 0]
  BY DEF q2, base, shown
<1>16. Committed(r, time) = CallbackScheduled(left, pendingTime(left))
  BY DEF Committed, left, marked, before, kept, skipped, unread, read, n, q
<1> HIDE DEF left
<1>17. /\ left \in RootRecord /\ left.queue = q2 /\ left.shown = shown
       /\ left.firstBatch = r.firstBatch /\ left.callbackExpirationTime = NoTime
       /\ left.finishedExpirationTime = NoTime
  BY <1>11, <1>14, <1>15 DEF RootRecord, NoTime
<1> DEFINE c == Committed(r, time)
<1>18. pendingTime(left) \in Nat
  <2>1. pendingTime(left) \in 0 .. Sync
    BY <1>17, PendingIsGreatest, Zenon
  <2> QED  BY <2>1
<1>19. /\ c \in RootRecord
       /\ c.callbackExpirationTime =
            IF left.callbackExpirationTime < pendingTime(left) THEN pendingTime(left)
            ELSE left.callbackExpirationTime
       /\ c.queue = left.queue /\ c.shown = left.shown /\ c.firstBatch = left.firstBatch
       /\ c.finishedExpirationTime = left.finishedExpirationTime
  <2>1. c = CallbackScheduled(left, pendingTime(left))
    BY <1>16
  <2> HIDE DEF c
  <2> QED  BY <1>17, <1>18, <2>1, ScheduledRoot, Zenon
<1> HIDE DEF c
<1>20. pendingTime(c) = pendingTime(left)
  BY <1>19, PendingOfQueue, Zenon
<1>21. c.callbackExpirationTime = pendingTime(c)
  BY <1>17, <1>18, <1>19, <1>20 DEF NoTime
<1> SUFFICES
      /\ c \in RootRecord /\ c.firstBatch = r.firstBatch
      /\ c.finishedExpirationTime = NoTime
      /\ c.callbackExpirationTime = pendingTime(c)
      /\ \A i \in 1 .. Len(c.queue) : \E j \in 1 .. Len(r.queue) :
           c.queue[i].time = r.queue[j].time /\ c.queue[i].element = r.queue[j].element
      /\ \A j \in 1 .. Len(r.queue) : r.queue[j].time < time =>
           \E i \in 1 .. Len(c.queue) :
             /\ c.queue[i].element = r.queue[j].element
             /\ c.queue[i].applied = r.queue[j].applied
      /\ \E i \in 1 .. r.rendered :
           /\ r.queue[i].time >= time /\ r.queue[i].element = c.shown
           /\ \A j \in i + 1 .. r.rendered : r.queue[j].time < time
  BY DEF c
<1>22. c.queue = q2 /\ c.shown = shown /\ r.queue = q /\ r.rendered = n
  BY <1>17, <1>19 DEF q, n
<1> QED  BY <1>12, <1>13, <1>14, <1>17, <1>19, <1>21, <1>22

\* A commit leaves the updates of batches below its time to be applied, and shows no
\* deferred batch when all are below.
LEMMA CommittedKeeps ==
  ASSUME NEW r \in RootRecord, NEW batches \in Seq(BatchRecord), NEW time \in 1 .. Sync,
         Sync \in Nat, ShowsSome(r, time), UpdatesOK(r, batches),
         NEW some \in SUBSET Deferred(batches), Waiting(r, batches, some),
         Below(some, batches, time)
  PROVE  LET c == Committed(r, time)
         IN  /\ UpdatesOK(c, batches) /\ Waiting(c, batches, some)
             /\ Below(Deferred(batches), batches, time) => ShownOK(c, batches)
<1> DEFINE c == Committed(r, time)
<1>1. /\ c \in RootRecord
      /\ \A i \in 1 .. Len(c.queue) : \E j \in 1 .. Len(r.queue) :
           c.queue[i].time = r.queue[j].time /\ c.queue[i].element = r.queue[j].element
      /\ \A j \in 1 .. Len(r.queue) : r.queue[j].time < time =>
           \E i \in 1 .. Len(c.queue) :
             /\ c.queue[i].element = r.queue[j].element
             /\ c.queue[i].applied = r.queue[j].applied
      /\ \E i \in 1 .. r.rendered :
           /\ r.queue[i].time >= time /\ r.queue[i].element = c.shown
           /\ \A j \in i + 1 .. r.rendered : r.queue[j].time < time
  BY CommittedRoot
<1> HIDE DEF c
<1>2. Len(batches) \in Nat /\ \A b \in Deferred(batches) : batches[b].expirationTime \in Nat
  <2>1. \A b \in 1 .. Len(batches) : batches[b] \in BatchRecord
    BY ElementOfSeq, Zenon
  <2>2. Len(batches) \in Nat
    BY LenProperties
  <2>3. Sync - 1 \in Int
    OBVIOUS
  <2> QED  BY <2>1, <2>2, <2>3 DEF BatchRecord, Deferred
<1>3. Len(r.queue) \in Nat /\ r.rendered \in Nat /\ r.rendered <= Len(r.queue)
  BY LenProperties DEF RootRecord, ShowsSome
<1>4. \A i \in 1 .. Len(r.queue) : r.queue[i].time \in Nat
  <2> SUFFICES ASSUME NEW i \in 1 .. Len(r.queue) PROVE r.queue[i].time \in Nat
    OBVIOUS
  <2>1. r.queue \in Seq(QueuedUpdate)
    BY DEF RootRecord
  <2>2. r.queue[i] \in QueuedUpdate
    BY <2>1, ElementOfSeq, Zenon
  <2> QED  BY <2>2 DEF QueuedUpdate
<1>5. ASSUME Below(Deferred(batches), batches, time)
      PROVE  ShownOK(c, batches)
  <2>1. PICK i \in 1 .. r.rendered : r.queue[i].time >= time /\ r.queue[i].element = c.shown
    BY <1>1
  <2>2. i \in 1 .. Len(r.queue)
    BY <1>3
  <2>3. /\ c.shown[1] \in 0 .. Len(batches)
        /\ c.shown[1] \in Deferred(batches) =>
             /\ r.queue[i].time = batches[c.shown[1]].expirationTime
             /\ batches[c.shown[1]].children # NoElement
    BY <2>1, <2>2 DEF UpdatesOK
  <2> QED  BY <1>2, <1>4, <1>5, <2>1, <2>2, <2>3 DEF ShownOK, Below
<1>6. UpdatesOK(c, batches)
  <2> SUFFICES ASSUME NEW i \in 1 .. Len(c.queue)
               PROVE  /\ c.queue[i].element[1] \in 0 .. Len(batches)
                      /\ c.queue[i].element[1] \in Deferred(batches) =>
                           /\ c.queue[i].time = batches[c.queue[i].element[1]].expirationTime
                           /\ batches[c.queue[i].element[1]].children # NoElement
    BY DEF UpdatesOK
  <2>1. PICK j \in 1 .. Len(r.queue) :
          c.queue[i].time = r.queue[j].time /\ c.queue[i].element = r.queue[j].element
    BY <1>1
  <2> QED  BY <2>1 DEF UpdatesOK
<1>7. Waiting(c, batches, some)
  <2> SUFFICES ASSUME NEW b \in some, batches[b].children # NoElement
               PROVE  \E i \in 1 .. Len(c.queue) :
                        c.queue[i].element[1] = b /\ ~c.queue[i].applied
    BY DEF Waiting
  <2>1. PICK j \in 1 .. Len(r.queue) : r.queue[j].element[1] = b /\ ~r.queue[j].applied
    BY DEF Waiting
  <2>2. r.queue[j].time = batches[b].expirationTime
    BY <2>1 DEF UpdatesOK
  <2>3. r.queue[j].time < time
    BY <2>2 DEF Below
  <2>4. PICK i \in 1 .. Len(c.queue) :
          /\ c.queue[i].element = r.queue[j].element
          /\ c.queue[i].applied = r.queue[j].applied
    BY <1>1, <2>3
  <2> QED  BY <2>1, <2>4
<1> QED  BY <1>5, <1>6, <1>7 DEF c

\* What renderRoot does at a time at which something is pending: it leaves the tree
\* for later if it has to, or commits it, at this time or the one it restarts at.
Waits(r, batches, time, at) == isLocked(r, batches, at) /\ r.finishedExpirationTime # time

LEMMA RenderedRoot ==
  ASSUME NEW r \in RootRecord, NEW batches \in Seq(BatchRecord), NEW time \in 1 .. Sync,
         Sync \in Nat, UpdatesOK(r, batches),
         NEW some \in SUBSET Deferred(batches), Waiting(r, batches, some),
         pendingTime(r) >= time, NEW isSync,
         NEW at \in 1 .. Sync, at = CommitTime(r, time, isSync), at <= time,
         r.finishedExpirationTime = time => ShowsSome(r, time),
         ~Waits(r, batches, time, at) => Below(some, batches, at)
  PROVE  LET x == RootRendered(r, batches, time, isSync)
         IN  /\ x \in RootRecord /\ UpdatesOK(x, batches) /\ Waiting(x, batches, some)
             /\ x.firstBatch = r.firstBatch
             /\ Waits(r, batches, time, at) =>
                  /\ x.callbackExpirationTime = r.callbackExpirationTime
                  /\ x.queue = r.queue /\ x.shown = r.shown
                  /\ x.finishedExpirationTime = at /\ ShowsSome(x, at)
             /\ ~Waits(r, batches, time, at) =>
                  /\ x.finishedExpirationTime = NoTime
                  /\ x.callbackExpirationTime = pendingTime(x)
                  /\ Below(Deferred(batches), batches, at) => ShownOK(x, batches)
                  /\ r.finishedExpirationTime # time /\ r.queue[Len(r.queue)].time >= time =>
                       x.shown = r.queue[Len(r.queue)].element
<1> DEFINE finished == [r EXCEPT !.workInProgressTime = at, !.finishedExpirationTime = at,
                                 !.rendered = Len(r.queue)]
           x == RootRendered(r, batches, time, isSync)
<1>1. /\ r.queue \in Seq(QueuedUpdate) /\ Len(r.queue) \in Nat
      /\ pendingTime(r) \in Nat
      /\ \E i \in 1 .. Len(r.queue) : r.queue[i].time >= at
  <2>1. r.queue \in Seq(QueuedUpdate) /\ Len(r.queue) \in Nat
    BY LenProperties DEF RootRecord
  <2>2. pendingTime(r) \in 0 .. Sync
    BY PendingIsGreatest, Zenon
  <2>3. pendingTime(r) # NoTime
    BY <2>2 DEF NoTime
  <2>4. PICK i \in 1 .. Len(r.queue) : r.queue[i].time = pendingTime(r)
    BY <2>3, PendingIsGreatest
  <2> QED  BY <2>1, <2>2, <2>4
<1>2. /\ finished \in RootRecord /\ finished.queue = r.queue
      /\ finished.firstBatch = r.firstBatch /\ finished.shown = r.shown
      /\ finished.callbackExpirationTime = r.callbackExpirationTime
      /\ finished.finishedExpirationTime = at /\ finished.rendered = Len(r.queue)
  <2> DEFINE n == Len(r.queue)
  <2>1. at \in Nat /\ n \in Nat
    BY <1>1
  <2>2. finished = [r EXCEPT !.workInProgressTime = at, !.finishedExpirationTime = at,
                             !.rendered = n]
    OBVIOUS
  <2> HIDE DEF n, finished
  <2>3. /\ finished \in RootRecord /\ finished.queue = r.queue
        /\ finished.firstBatch = r.firstBatch /\ finished.shown = r.shown
        /\ finished.callbackExpirationTime = r.callbackExpirationTime
        /\ finished.finishedExpirationTime = at /\ finished.rendered = n
    BY <2>1, <2>2 DEF RootRecord
  <2> QED  BY <2>3 DEF n
<1>3. x = IF r.finishedExpirationTime = time THEN Committed(r, time)
          ELSE IF isLocked(r, batches, at) THEN finished ELSE Committed(finished, at)
  <2>1. ~(pendingTime(r) < time) /\ (Renders(r, time) <=> r.finishedExpirationTime # time)
    BY <1>1 DEF Renders
  <2> QED  BY <2>1 DEF RootRendered, CommitTime
<1> HIDE DEF finished, x
<1>4. /\ UpdatesOK(finished, batches) /\ Waiting(finished, batches, some)
      /\ ShowsSome(finished, at)
  BY <1>1, <1>2 DEF UpdatesOK, Waiting, ShowsSome
<1> SUFFICES
      /\ x \in RootRecord /\ UpdatesOK(x, batches) /\ Waiting(x, batches, some)
      /\ x.firstBatch = r.firstBatch
      /\ Waits(r, batches, time, at) =>
           /\ x.callbackExpirationTime = r.callbackExpirationTime
           /\ x.queue = r.queue /\ x.shown = r.shown
           /\ x.finishedExpirationTime = at /\ ShowsSome(x, at)
      /\ ~Waits(r, batches, time, at) =>
           /\ x.finishedExpirationTime = NoTime
           /\ x.callbackExpirationTime = pendingTime(x)
           /\ Below(Deferred(batches), batches, at) => ShownOK(x, batches)
           /\ r.finishedExpirationTime # time /\ r.queue[Len(r.queue)].time >= time =>
                x.shown = r.queue[Len(r.queue)].element
  BY DEF x
<1>5. CASE r.finishedExpirationTime = time
  <2>0. ~Waits(r, batches, time, at)
    BY <1>5 DEF Waits
  <2>1. x = Committed(r, time) /\ ShowsSome(r, time) /\ at = time
    BY <1>3, <1>5 DEF CommitTime
  <2>2. /\ UpdatesOK(x, batches) /\ Waiting(x, batches, some)
        /\ Below(Deferred(batches), batches, at) => ShownOK(x, batches)
    BY <2>0, <2>1, CommittedKeeps
  <2>3. /\ x \in RootRecord /\ x.firstBatch = r.firstBatch /\ x.finishedExpirationTime = NoTime
        /\ x.callbackExpirationTime = pendingTime(x)
    BY <2>1, CommittedRoot
  <2> QED  BY <1>5, <2>0, <2>2, <2>3
<1>6. CASE Waits(r, batches, time, at)
  BY <1>2, <1>3, <1>4, <1>6 DEF Waits
<1>7. CASE r.finishedExpirationTime # time /\ ~Waits(r, batches, time, at)
  <2>1. x = Committed(finished, at)
    BY <1>3, <1>7 DEF Waits
  <2>2. /\ UpdatesOK(x, batches) /\ Waiting(x, batches, some)
        /\ Below(Deferred(batches), batches, at) => ShownOK(x, batches)
    BY <1>2, <1>4, <1>7, <2>1, CommittedKeeps
  <2>3. /\ x \in RootRecord /\ x.firstBatch = finished.firstBatch
        /\ x.finishedExpirationTime = NoTime /\ x.callbackExpirationTime = pendingTime(x)
        /\ \E i \in 1 .. finished.rendered :
             /\ finished.queue[i].time >= at /\ finished.queue[i].element = x.shown
             /\ \A j \in i + 1 .. finished.rendered : finished.queue[j].time < at
    BY <1>2, <1>4, <2>1, CommittedRoot
  <2>4. ASSUME r.queue[Len(r.queue)].time >= time
        PROVE  x.shown = r.queue[Len(r.queue)].element
    <3> DEFINE n == Len(r.queue)
    <3>1. PICK i \in 1 .. n : /\ r.queue[i].element = x.shown
                              /\ \A j \in i + 1 .. n : r.queue[j].time < at
      BY <1>2, <2>3
    <3>2. n \in Nat /\ r.queue[n].time \in Nat
      <4>1. n \in 1 .. n
        BY <1>1
      <4>2. r.queue[n] \in QueuedUpdate
        BY <1>1, <4>1, ElementOfSeq, Zenon
      <4> QED  BY <1>1, <4>2, SMTT(20) DEF QueuedUpdate
    <3>3. i = n
      BY <2>4, <3>1, <3>2
    <3> QED  BY <3>1, <3>3
  <2> QED  BY <1>2, <1>7, <2>2, <2>3, <2>4
<1> QED  BY <1>5, <1>6, <1>7 DEF Waits

-----------------------------------------------------------------------------
(***************************************************************************)
(* The list of batches.                                                    *)
(***************************************************************************)
LEMMA ListFacts ==
  ASSUME NEW L, NEW batches \in Seq(BatchRecord), NEW first, IsBatchList(L, batches, first),
         Sync \in Nat
  PROVE  /\ Len(batches) \in Nat /\ Len(L) \in Nat /\ Len(L) <= Len(batches)
         /\ L \in Seq(Nat)
         /\ \A b \in 1 .. Len(batches) :
              /\ batches[b] \in BatchRecord
              /\ batches[b].expirationTime \in 1 .. Sync - 1
         /\ \A i \in 1 .. Len(L) : L[i] \in 1 .. Len(batches) /\ L[i] # NoBatch
         /\ \A i, j \in 1 .. Len(L) : L[i] = L[j] => i = j
         /\ L = <<>> <=> Len(L) = 0
<1>1. Len(batches) \in Nat /\ Len(L) \in Nat /\ L \in Seq(Nat) /\ Len(L) <= Len(batches)
  BY LenProperties DEF IsBatchList
<1>2. \A b \in 1 .. Len(batches) : batches[b] \in BatchRecord
  BY ElementOfSeq, Zenon
<1>3. \A b \in 1 .. Len(batches) : batches[b].expirationTime \in 1 .. Sync - 1
  BY <1>2 DEF BatchRecord
<1>4. \A i \in 1 .. Len(L) : L[i] \in 1 .. Len(batches) /\ L[i] # NoBatch
  BY <1>1 DEF IsBatchList, Deferred, NoBatch
<1>5. ASSUME NEW i \in 1 .. Len(L), NEW j \in 1 .. Len(L), L[i] = L[j]
      PROVE  i = j
  <2>1. batches[L[i]].expirationTime \in Nat
    BY <1>1, <1>3, <1>4
  <2>2. /\ i < j => batches[L[i]].expirationTime > batches[L[j]].expirationTime
        /\ j < i => batches[L[j]].expirationTime > batches[L[i]].expirationTime
    BY DEF IsBatchList
  <2> QED  BY <1>1, <1>5, <2>1, <2>2
<1>6. L = <<>> <=> Len(L) = 0
  BY <1>1, EmptySeq
<1> QED  BY <1>1, <1>2, <1>3, <1>4, <1>5, <1>6

\* The first batch has the latest time of those that are deferred.
LEMMA FirstIsLatest ==
  ASSUME NEW L, NEW batches \in Seq(BatchRecord), NEW first, IsBatchList(L, batches, first),
         Sync \in Nat
  PROVE  /\ first = NoBatch <=> L = <<>>
         /\ first = NoBatch => Deferred(batches) = {}
         /\ first # NoBatch => first \in Deferred(batches) /\ first \in 1 .. Len(batches)
         /\ \A b \in Deferred(batches) :
              b = first \/ batches[b].expirationTime < batches[first].expirationTime
<1>1. /\ Len(L) \in Nat /\ (L = <<>> <=> Len(L) = 0)
      /\ \A i \in 1 .. Len(L) : L[i] \in 1 .. Len(batches) /\ L[i] # NoBatch
  BY ListFacts
<1>2. first = IF L = <<>> THEN NoBatch ELSE L[1]
  BY DEF IsBatchList
<1>3. first = NoBatch <=> L = <<>>
  BY <1>1, <1>2
<1>4. first = NoBatch => Deferred(batches) = {}
  BY <1>1, <1>3 DEF IsBatchList
<1>5. first # NoBatch => first \in Deferred(batches) /\ first \in 1 .. Len(batches)
  BY <1>1, <1>2 DEF IsBatchList
<1>6. ASSUME NEW b \in Deferred(batches), b # first
      PROVE  batches[b].expirationTime < batches[first].expirationTime
  <2>1. PICK i \in 1 .. Len(L) : L[i] = b
    BY DEF IsBatchList
  <2>2. 1 \in 1 .. Len(L) /\ first = L[1] /\ 1 < i
    BY <1>1, <1>2, <1>6, <2>1
  <2>3. batches[L[1]].expirationTime > batches[L[i]].expirationTime
    BY <2>2 DEF IsBatchList
  <2>4. /\ batches[L[1]].expirationTime \in 1 .. Sync - 1
        /\ batches[L[i]].expirationTime \in 1 .. Sync - 1
    BY <1>1, <2>2, ListFacts
  <2> QED  BY <2>1, <2>2, <2>3, <2>4
<1> QED  BY <1>3, <1>4, <1>5, <1>6

LEMMA PrefixOfList ==
  ASSUME NEW L, NEW batches \in Seq(BatchRecord), NEW first, IsBatchList(L, batches, first),
         Sync \in Nat, NEW n \in Nat \ {0}
  PROVE  LET prefix(k) == SubSeq(L, 1, IF k <= Len(L) THEN k ELSE Len(L))
             b == IF prefix(n - 1) = <<>> THEN first ELSE batches[Last(prefix(n - 1))].next
         IN  prefix(n) = IF b = NoBatch THEN prefix(n - 1) ELSE Append(prefix(n - 1), b)
<1> DEFINE prefix(k) == SubSeq(L, 1, IF k <= Len(L) THEN k ELSE Len(L))
           l == prefix(n - 1)
           b == IF l = <<>> THEN first ELSE batches[Last(l)].next
<1>1. /\ L \in Seq(Nat) /\ Len(L) \in Nat /\ (L = <<>> <=> Len(L) = 0)
      /\ \A i \in 1 .. Len(L) : L[i] \in Nat /\ L[i] # NoBatch
      /\ first = IF L = <<>> THEN NoBatch ELSE L[1]
      /\ \A i \in 1 .. Len(L) : batches[L[i]].next = IF i = Len(L) THEN NoBatch ELSE L[i + 1]
  <2>1. /\ L \in Seq(Nat) /\ Len(L) \in Nat /\ (L = <<>> <=> Len(L) = 0)
        /\ \A i \in 1 .. Len(L) : L[i] \in 1 .. Len(batches) /\ L[i] # NoBatch
        /\ Len(batches) \in Nat
    BY ListFacts
  <2> QED  BY <2>1 DEF IsBatchList
<1>2. CASE n <= Len(L)
  <2>1. /\ l = SubSeq(L, 1, n - 1) /\ l \in Seq(Nat) /\ Len(l) = n - 1
        /\ \A i \in 1 .. n - 1 : l[i] = L[i]
    <3>1. l = SubSeq(L, 1, n - 1)
      BY <1>1, <1>2
    <3>2. \A i \in 1 .. n - 1 : L[i] \in Nat
      BY <1>1, <1>2
    <3>3. /\ SubSeq(L, 1, n - 1) \in Seq(Nat)
          /\ Len(SubSeq(L, 1, n - 1)) = IF 1 <= n - 1 THEN n - 1 - 1 + 1 ELSE 0
          /\ \A i \in 1 .. n - 1 - 1 + 1 : SubSeq(L, 1, n - 1)[i] = L[1 + i - 1]
      BY <3>2, SubSeqProperties
    <3> QED  BY <3>1, <3>3
  <2>2. /\ prefix(n) = SubSeq(L, 1, n) /\ prefix(n) \in Seq(Nat) /\ Len(prefix(n)) = n
        /\ \A i \in 1 .. n : prefix(n)[i] = L[i]
    <3>1. prefix(n) = SubSeq(L, 1, n)
      BY <1>1, <1>2
    <3>2. \A i \in 1 .. n : L[i] \in Nat
      BY <1>1, <1>2
    <3>3. /\ SubSeq(L, 1, n) \in Seq(Nat)
          /\ Len(SubSeq(L, 1, n)) = IF 1 <= n THEN n - 1 + 1 ELSE 0
          /\ \A i \in 1 .. n - 1 + 1 : SubSeq(L, 1, n)[i] = L[1 + i - 1]
      BY <3>2, SubSeqProperties
    <3> QED  BY <3>1, <3>3
  <2> DEFINE p == prefix(n)
  <2> HIDE DEF l, p
  <2>3. b = L[n]
    <3>1. CASE n = 1
      <4>1. l = <<>>
        BY <2>1, <3>1, EmptySeq
      <4> QED  BY <1>1, <1>2, <3>1, <4>1
    <3>2. CASE n # 1
      <4>1. n - 1 \in 1 .. Len(L) /\ n - 1 # Len(L) /\ (n - 1) + 1 = n /\ n - 1 \in 1 .. n - 1
        BY <1>1, <1>2, <3>2
      <4>2. l # <<>>
        <5>1. Len(l) # 0
          BY <2>1, <3>2
        <5> QED  BY <2>1, <5>1, EmptySeq
      <4>3. Last(l) = L[n - 1]
        BY <2>1, <4>1 DEF Last
      <4> QED  BY <1>1, <4>1, <4>2, <4>3
    <3> QED  BY <3>1, <3>2
  <2>4. L[n] \in Nat /\ L[n] # NoBatch
    BY <1>1, <1>2
  <2>5. p = Append(l, L[n])
    <3>1. /\ Append(l, L[n]) \in Seq(Nat) /\ Len(Append(l, L[n])) = n
          /\ \A i \in 1 .. n - 1 : Append(l, L[n])[i] = L[i]
          /\ Append(l, L[n])[n] = L[n]
      BY <2>1, <2>4, AppendProperties
    <3>2. p \in Seq(Nat) /\ Len(p) = n /\ \A i \in 1 .. n : p[i] = L[i]
      BY <2>2 DEF p
    <3>3. ASSUME NEW i \in 1 .. n
          PROVE  p[i] = Append(l, L[n])[i]
      <4>1. i = n \/ i \in 1 .. n - 1
        OBVIOUS
      <4> QED  BY <3>1, <3>2, <4>1
    <3> QED  BY <3>1, <3>2, <3>3, SeqEqual
  <2> QED  BY <2>3, <2>4, <2>5, SMTT(20) DEF p, l
<1>3. CASE ~(n <= Len(L))
  <2>1. l = L /\ prefix(n) = L
    <3>1. l = SubSeq(L, 1, Len(L)) /\ prefix(n) = SubSeq(L, 1, Len(L))
      <4>1. ~(n - 1 <= Len(L)) \/ n - 1 = Len(L)
        BY <1>1, <1>3
      <4> QED  BY <1>3, <4>1
    <3> QED  BY <1>1, <3>1, SubSeqFull
  <2>2. b = NoBatch
    <3>1. CASE L = <<>>
      BY <1>1, <2>1, <3>1
    <3>2. CASE L # <<>>
      <4>1. Len(L) \in 1 .. Len(L)
        BY <1>1, <3>2
      <4>2. batches[L[Len(L)]].next = NoBatch
        BY <1>1, <4>1
      <4>3. Last(l) = L[Len(L)]
        BY <2>1 DEF Last
      <4> QED  BY <2>1, <3>2, <4>2, <4>3
    <3> QED  BY <3>1, <3>2
  <2> QED  BY <2>1, <2>2
<1> QED  BY <1>2, <1>3

\* Following the links from the first batch on finds the list.
LEMMA ListFollows ==
  ASSUME NEW L, NEW batches \in Seq(BatchRecord), NEW first, IsBatchList(L, batches, first),
         Sync \in Nat, Len(batches) <= MaxBatch
  PROVE  LinkedFrom(batches, first) = L
<1> DEFINE Next(l) == LET b == IF l = <<>> THEN first ELSE batches[Last(l)].next
                      IN  IF b = NoBatch THEN l ELSE Append(l, b)
           list == CHOOSE h : h = [n \in 0 .. MaxBatch |-> IF n = 0 THEN <<>> ELSE Next(h[n - 1])]
           prefix(k) == SubSeq(L, 1, IF k <= Len(L) THEN k ELSE Len(L))
           P == [n \in 0 .. MaxBatch |-> prefix(n)]
           wrong == {n \in 0 .. MaxBatch : list[n] # P[n]}
<1>1. MaxBatch \in Nat /\ L \in Seq(Nat) /\ Len(L) \in Nat /\ Len(L) <= MaxBatch
  BY ListFacts, ReactBatchAssumption
<1>2. \A n \in Nat \ {0} : prefix(n) = Next(prefix(n - 1))
  BY PrefixOfList
<1>3. prefix(0) = <<>>
  BY <1>1, SubSeqEmpty
<1>4. LinkedFrom(batches, first) = list[MaxBatch]
  BY Zenon DEF LinkedFrom
<1> HIDE DEF Next, prefix
<1>5. P = [n \in 0 .. MaxBatch |-> IF n = 0 THEN <<>> ELSE Next(P[n - 1])]
  <2>1. ASSUME NEW n \in 0 .. MaxBatch
        PROVE  P[n] = IF n = 0 THEN <<>> ELSE Next(P[n - 1])
    <3>1. CASE n = 0
      BY <1>3, <3>1
    <3>2. CASE n # 0
      <4>1. n \in Nat \ {0} /\ n - 1 \in 0 .. MaxBatch
        BY <1>1, <3>2
      <4>2. P[n - 1] = prefix(n - 1) /\ P[n] = prefix(n)
        BY <4>1
      <4> QED  BY <1>2, <3>2, <4>1, <4>2
    <3> QED  BY <3>1, <3>2
  <2>2. P = [n \in 0 .. MaxBatch |-> P[n]]
    OBVIOUS
  <2> HIDE DEF P
  <2> QED  BY <2>1, <2>2
<1>6. list = [n \in 0 .. MaxBatch |-> IF n = 0 THEN <<>> ELSE Next(list[n - 1])]
  <2> HIDE DEF P
  <2>1. \E h : h = [n \in 0 .. MaxBatch |-> IF n = 0 THEN <<>> ELSE Next(h[n - 1])]
    BY <1>5
  <2> QED  BY <2>1, Zenon
<1> HIDE DEF list, P
<1>7. wrong = {}
  <2> SUFFICES ASSUME wrong # {} PROVE FALSE
    OBVIOUS
  <2>1. wrong \subseteq Nat
    OBVIOUS
  <2>2. PICK n \in wrong : \A y \in wrong : n <= y
    BY <2>1, MinOfPositions
  <2>3. n # 0
    BY <1>1, <1>5, <1>6
  <2>4. n - 1 \in 0 .. MaxBatch /\ n - 1 \notin wrong
    BY <1>1, <2>2, <2>3
  <2>5. list[n] = Next(list[n - 1]) /\ P[n] = Next(P[n - 1])
    BY <1>5, <1>6, <2>3
  <2> QED  BY <2>2, <2>4, <2>5
<1>8. list[MaxBatch] = prefix(MaxBatch)
  <2>1. list[MaxBatch] = P[MaxBatch]
    BY <1>1, <1>7
  <2> QED  BY <1>1, <2>1 DEF P
<1>9. prefix(MaxBatch) = SubSeq(L, 1, Len(L))
  BY <1>1 DEF prefix
<1> QED  BY <1>1, <1>4, <1>8, <1>9, SubSeqFull

\* A batch that is not deferred any more is taken out, and the one before it linked to
\* the one after.
LEMMA ListRemoves ==
  ASSUME NEW L, NEW batches \in Seq(BatchRecord), NEW first, IsBatchList(L, batches, first),
         Sync \in Nat, NEW p \in 1 .. Len(L), NEW after \in Seq(BatchRecord),
         Len(after) = Len(batches), ~after[L[p]].defer,
         \A c \in 1 .. Len(batches) : c # L[p] =>
           /\ after[c].defer = batches[c].defer
           /\ after[c].expirationTime = batches[c].expirationTime
           /\ after[c].next = IF p > 1 /\ c = L[p - 1] THEN batches[L[p]].next
                              ELSE batches[c].next
  PROVE  \E M : IsBatchList(M, after, IF p = 1 THEN batches[L[p]].next ELSE first)
<1> DEFINE n == Len(L)
           From(i) == IF i < p THEN i ELSE i + 1
           M == [i \in 1 .. n - 1 |-> L[From(i)]]
           now == IF p = 1 THEN batches[L[p]].next ELSE first
<1>1. /\ Len(batches) \in Nat /\ n \in Nat /\ n <= Len(batches) /\ L \in Seq(Nat)
      /\ \A i \in 1 .. n : L[i] \in 1 .. Len(batches) /\ L[i] # NoBatch
      /\ \A i, j \in 1 .. n : L[i] = L[j] => i = j
      /\ L = <<>> <=> n = 0
  BY ListFacts
<1>2. /\ first = IF L = <<>> THEN NoBatch ELSE L[1]
      /\ \A i \in 1 .. n : /\ L[i] \in Deferred(batches)
                           /\ batches[L[i]].next = IF i = n THEN NoBatch ELSE L[i + 1]
      /\ \A b \in Deferred(batches) : \E i \in 1 .. n : L[i] = b
      /\ \A i, j \in 1 .. n :
           i < j => batches[L[i]].expirationTime > batches[L[j]].expirationTime
  BY DEF IsBatchList
<1>3. p \in 1 .. n
  OBVIOUS
<1> HIDE DEF n
<1>4. /\ M \in Seq(Nat) /\ Len(M) = n - 1 /\ (M = <<>> <=> n - 1 = 0)
      /\ \A i \in 1 .. n - 1 : /\ M[i] = L[From(i)] /\ From(i) \in 1 .. n /\ From(i) # p
                               /\ L[From(i)] # L[p]
  <2>1. \A i \in 1 .. n - 1 : /\ From(i) \in 1 .. n /\ From(i) # p /\ L[From(i)] \in Nat
                              /\ L[From(i)] # L[p]
    BY <1>1, <1>3, SMTT(20)
  <2>2. n - 1 \in Nat
    BY <1>1, <1>3
  <2> HIDE DEF From
  <2>3. M \in Seq(Nat)
    BY <2>1, <2>2, IsASeq
  <2>4. Len(M) = n - 1
    BY <2>2, <2>3, LenProperties
  <2> QED  BY <2>1, <2>3, <2>4, EmptySeq
<1> HIDE DEF M
<1>5. \A i, j \in 1 .. n - 1 : i < j => From(i) < From(j)
  BY <1>1, <1>3
<1>6. \A j \in 1 .. n : j # p => \E i \in 1 .. n - 1 : From(i) = j
  <2> SUFFICES ASSUME NEW j \in 1 .. n, j # p
               PROVE  \E i \in 1 .. n - 1 : From(i) = j
    OBVIOUS
  <2>1. CASE j < p
    <3>1. j \in 1 .. n - 1 /\ From(j) = j
      BY <1>1, <1>3, <2>1
    <3> QED  BY <3>1
  <2>2. CASE j > p
    <3>1. j - 1 \in 1 .. n - 1 /\ From(j - 1) = j
      BY <1>1, <1>3, <2>2
    <3> QED  BY <3>1
  <2> QED  BY <1>1, <1>3, <2>1, <2>2
<1>7. Len(M) <= Len(after)
  BY <1>1, <1>4
<1>8. now = IF M = <<>> THEN NoBatch ELSE M[1]
  <2>1. CASE n = 1
    <3>1. p = 1 /\ M = <<>>
      BY <1>3, <1>4, <2>1
    <3>2. batches[L[p]].next = NoBatch
      BY <1>2, <1>3, <2>1, <3>1
    <3> QED  BY <3>1, <3>2
  <2>2. CASE n # 1
    <3>1. M # <<>> /\ 1 \in 1 .. n - 1
      BY <1>1, <1>3, <1>4, <2>2
    <3>2. M[1] = L[IF 1 < p THEN 1 ELSE 2]
      BY <1>4, <3>1
    <3>3. CASE p = 1
      <4>1. batches[L[1]].next = L[2]
        BY <1>1, <1>2, <1>3, <2>2, <3>3
      <4> QED  BY <3>1, <3>2, <3>3, <4>1
    <3>4. CASE p # 1
      <4>1. 1 < p /\ L # <<>>
        BY <1>1, <1>3, <3>4
      <4> QED  BY <1>2, <3>1, <3>2, <3>4, <4>1
    <3> QED  BY <3>3, <3>4
  <2> QED  BY <2>1, <2>2
<1>9. ASSUME NEW i \in 1 .. n - 1
      PROVE  /\ M[i] \in Deferred(after)
             /\ after[M[i]].next = IF i = n - 1 THEN NoBatch ELSE M[i + 1]
  <2> DEFINE f == From(i)
  <2>1. M[i] = L[f] /\ f \in 1 .. n /\ L[f] # L[p] /\ L[f] \in 1 .. Len(batches)
    BY <1>1, <1>4
  <2>2. M[i] \in Deferred(after)
    BY <1>2, <2>1 DEF Deferred
  <2>3. CASE i = p - 1
    <3>1. f = p - 1 /\ p > 1 /\ f \in 1 .. n
      BY <1>1, <1>3, <2>3, SMTT(20)
    <3>2. after[L[f]].next = batches[L[p]].next
      BY <2>1, <3>1
    <3>3. batches[L[p]].next = IF p = n THEN NoBatch ELSE L[p + 1]
      BY <1>2, <1>3
    <3>4. i # n - 1 => M[i + 1] = L[p + 1]
      <4>1. i # n - 1 => i + 1 \in 1 .. n - 1 /\ From(i + 1) = p + 1
        BY <1>1, <1>3, <2>3
      <4> QED  BY <1>4, <4>1
    <3>5. p = n <=> i = n - 1
      BY <1>1, <1>3, <2>3
    <3> QED  BY <2>1, <2>2, <3>2, <3>3, <3>4, <3>5
  <2>4. CASE i # p - 1
    <3>1. ~(p > 1 /\ L[f] = L[p - 1])
      <4>1. p > 1 => p - 1 \in 1 .. n /\ f # p - 1
        BY <1>1, <1>3, <2>4
      <4> QED  BY <1>1, <2>1, <4>1
    <3>2. after[L[f]].next = batches[L[f]].next
      BY <2>1, <3>1
    <3>3. batches[L[f]].next = IF f = n THEN NoBatch ELSE L[f + 1]
      BY <1>2, <2>1
    <3>4. i # n - 1 => M[i + 1] = L[f + 1]
      <4>1. i # n - 1 => i + 1 \in 1 .. n - 1 /\ From(i + 1) = f + 1
        BY <1>1, <1>3, <2>4
      <4> QED  BY <1>4, <4>1
    <3>5. f = n <=> i = n - 1
      BY <1>1, <1>3, <2>4
    <3> QED  BY <2>1, <2>2, <3>2, <3>3, <3>4, <3>5
  <2> QED  BY <2>3, <2>4
<1>10. ASSUME NEW b \in Deferred(after)
       PROVE  \E i \in 1 .. n - 1 : M[i] = b
  <2>1. b \in Deferred(batches) /\ b # L[p]
    BY DEF Deferred
  <2>2. PICK j \in 1 .. n : L[j] = b
    BY <1>2, <2>1
  <2>3. PICK i \in 1 .. n - 1 : From(i) = j
    BY <1>6, <2>1, <2>2
  <2> QED  BY <1>4, <2>2, <2>3
<1>11. ASSUME NEW i \in 1 .. n - 1, NEW j \in 1 .. n - 1, i < j
       PROVE  after[M[i]].expirationTime > after[M[j]].expirationTime
  <2> DEFINE f == From(i)  g == From(j)
  <2>1. f < g /\ f \in 1 .. n /\ g \in 1 .. n /\ L[f] # L[p] /\ L[g] # L[p]
    BY <1>4, <1>5, <1>11
  <2>2. M[i] = L[f] /\ M[j] = L[g]
    BY <1>4
  <2> HIDE DEF f, g
  <2>3. batches[L[f]].expirationTime > batches[L[g]].expirationTime
    BY <1>2, <2>1
  <2>4. L[f] \in 1 .. Len(batches) /\ L[g] \in 1 .. Len(batches)
    BY <1>1, <2>1
  <2>5. /\ after[L[f]].expirationTime = batches[L[f]].expirationTime
        /\ after[L[g]].expirationTime = batches[L[g]].expirationTime
    BY <2>1, <2>4
  <2> QED  BY <2>2, <2>3, <2>5
<1>12. IsBatchList(M, after, now)
  BY <1>4, <1>7, <1>8, <1>9, <1>10, <1>11 DEF IsBatchList
<1> QED  BY <1>12

\* A new batch is put behind the first p ones, whose times are later.
LEMMA ListInserts ==
  ASSUME NEW L, NEW batches \in Seq(BatchRecord), NEW first, IsBatchList(L, batches, first),
         Sync \in Nat, NEW p \in 0 .. Len(L), p = 0 => L = <<>>,
         NEW after \in Seq(BatchRecord), NEW b, b = Len(batches) + 1, Len(after) = b,
         after[b].defer, after[b].next = IF p = Len(L) THEN NoBatch ELSE L[p + 1],
         \A c \in 1 .. Len(batches) :
           /\ after[c].defer = batches[c].defer
           /\ after[c].expirationTime = batches[c].expirationTime
           /\ after[c].next = IF p > 0 /\ c = L[p] THEN b ELSE batches[c].next,
         \A i \in 1 .. Len(L) :
           IF i <= p THEN batches[L[i]].expirationTime > after[b].expirationTime
           ELSE after[b].expirationTime > batches[L[i]].expirationTime
  PROVE  \E M : IsBatchList(M, after, IF L = <<>> THEN b ELSE first)
<1> DEFINE n == Len(L)
           At(i) == IF i <= p THEN L[i] ELSE IF i = p + 1 THEN b ELSE L[i - 1]
           M == [i \in 1 .. n + 1 |-> At(i)]
           now == IF L = <<>> THEN b ELSE first
<1>1. /\ Len(batches) \in Nat /\ n \in Nat /\ n <= Len(batches) /\ L \in Seq(Nat)
      /\ \A i \in 1 .. n : L[i] \in 1 .. Len(batches) /\ L[i] # NoBatch
      /\ \A i, j \in 1 .. n : L[i] = L[j] => i = j
      /\ L = <<>> <=> n = 0
  BY ListFacts
<1>2. /\ first = IF L = <<>> THEN NoBatch ELSE L[1]
      /\ \A i \in 1 .. n : /\ L[i] \in Deferred(batches)
                           /\ batches[L[i]].next = IF i = n THEN NoBatch ELSE L[i + 1]
      /\ \A c \in Deferred(batches) : \E i \in 1 .. n : L[i] = c
      /\ \A i, j \in 1 .. n :
           i < j => batches[L[i]].expirationTime > batches[L[j]].expirationTime
  BY DEF IsBatchList
<1>3. p \in 0 .. n /\ (p = 0 => n = 0) /\ b \in Nat /\ b # NoBatch
  BY <1>1 DEF NoBatch
<1>4. /\ after[b].next = IF p = n THEN NoBatch ELSE L[p + 1]
      /\ \A i \in 1 .. n :
           IF i <= p THEN batches[L[i]].expirationTime > after[b].expirationTime
           ELSE after[b].expirationTime > batches[L[i]].expirationTime
  OBVIOUS
<1> HIDE DEF n
<1>5. M \in Seq(Nat) /\ Len(M) = n + 1 /\ M # <<>>
  <2>1. ASSUME NEW i \in 1 .. n + 1
        PROVE  At(i) \in Nat
    <3>1. CASE i <= p
      <4>1. i \in 1 .. n
        BY <1>1, <1>3, <3>1
      <4>2. L[i] \in Nat
        BY <1>1, <4>1
      <4> QED  BY <3>1, <4>2
    <3>2. CASE i = p + 1
      BY <1>1, <1>3, <3>2
    <3>3. CASE i > p + 1
      <4>1. i - 1 \in 1 .. n /\ ~(i <= p) /\ i # p + 1
        BY <1>1, <1>3, <3>3
      <4>2. L[i - 1] \in Nat
        BY <1>1, <4>1, SMTT(20)
      <4> QED  BY <4>1, <4>2
    <3> QED  BY <1>1, <1>3, <3>1, <3>2, <3>3
  <2>2. n + 1 \in Nat
    BY <1>1
  <2> HIDE DEF At
  <2>3. M \in Seq(Nat)
    BY <2>1, <2>2, IsASeq
  <2>4. Len(M) = n + 1
    BY <2>2, <2>3, LenProperties
  <2>5. Len(M) # 0
    BY <1>1, <2>4
  <2> QED  BY <2>3, <2>4, <2>5, EmptySeq
<1>6. \A i \in 1 .. n + 1 : \/ i <= p /\ i \in 1 .. n /\ M[i] = L[i]
                            \/ i = p + 1 /\ M[i] = b
                            \/ i > p + 1 /\ i - 1 \in 1 .. n /\ i - 1 > p /\ M[i] = L[i - 1]
  BY <1>1, <1>3
<1>7. ASSUME NEW i \in 1 .. n
      PROVE  (i <= p => M[i] = L[i]) /\ (i > p => M[i + 1] = L[i])
  <2>1. i \in 1 .. n + 1 /\ i + 1 \in 1 .. n + 1 /\ (i + 1) - 1 = i
    BY <1>1
  <2>2. i > p => ~(i + 1 <= p) /\ i + 1 # p + 1
    BY <1>3
  <2> QED  BY <2>1, <2>2
<1>8. M[p + 1] = b /\ p + 1 \in 1 .. n + 1
  BY <1>1, <1>3
<1> HIDE DEF M
<1>9. Len(M) <= Len(after)
  BY <1>1, <1>5
<1>10. now = M[1]
  <2>1. CASE n = 0
    BY <1>1, <1>3, <1>8, <2>1
  <2>2. CASE n # 0
    BY <1>1, <1>2, <1>3, <1>7, <2>2
  <2> QED  BY <2>1, <2>2
<1>11. ASSUME NEW i \in 1 .. n
       PROVE  /\ L[i] \in Deferred(after) /\ L[i] # b
              /\ after[L[i]].expirationTime = batches[L[i]].expirationTime
  <2>1. L[i] \in 1 .. Len(batches) /\ batches[L[i]].defer
    BY <1>1, <1>2 DEF Deferred
  <2>2. L[i] # b /\ L[i] \in 1 .. Len(after)
    BY <1>1, <2>1, SMTT(20)
  <2> QED  BY <2>1, <2>2 DEF Deferred
<1>12. b \in Deferred(after)
  BY <1>1 DEF Deferred
<1>13. ASSUME NEW i \in 1 .. n
       PROVE  after[L[i]].next = IF i = p THEN b ELSE IF i = n THEN NoBatch ELSE L[i + 1]
  <2>1. p > 0 /\ L[i] = L[p] <=> i = p
    BY <1>1, <1>3, SMTT(20)
  <2> QED  BY <1>1, <1>2, <2>1, ZenonT(30)
<1>14. ASSUME NEW i \in 1 .. n + 1
       PROVE  /\ M[i] \in Deferred(after)
              /\ after[M[i]].next = IF i = n + 1 THEN NoBatch ELSE M[i + 1]
  <2>1. CASE i <= p
    <3>1. i \in 1 .. n /\ M[i] = L[i] /\ i # n + 1
      BY <1>1, <1>3, <1>7, <2>1
    <3>2. CASE i = p
      BY <1>8, <1>11, <1>13, <3>1, <3>2
    <3>3. CASE i # p
      <4>1. i + 1 \in 1 .. n /\ i + 1 <= p /\ i # n
        BY <1>1, <1>3, <2>1, <3>1, <3>3, SMTT(20)
      <4>2. M[i + 1] = L[i + 1]
        BY <1>7, <4>1
      <4> QED  BY <1>11, <1>13, <3>1, <3>3, <4>1, <4>2
    <3> QED  BY <3>2, <3>3
  <2>2. CASE i = p + 1
    <3>1. M[i] = b /\ (i = n + 1 <=> p = n)
      BY <1>1, <1>3, <1>8, <2>2
    <3>2. p # n => M[i + 1] = L[p + 1]
      <4>1. p # n => p + 1 \in 1 .. n /\ p + 1 > p
        BY <1>1, <1>3
      <4> QED  BY <1>7, <2>2, <4>1
    <3> QED  BY <1>4, <1>12, <3>1, <3>2
  <2>3. CASE i > p + 1
    <3> DEFINE m == i - 1
    <3>1. m \in 1 .. n /\ m > p /\ m # p /\ m + 1 = i /\ (i = n + 1 <=> m = n)
      BY <1>1, <1>3, <2>3, SMTT(20)
    <3> HIDE DEF m
    <3>2. M[i] = L[m]
      BY <1>7, <3>1
    <3>3. m # n => M[i + 1] = L[m + 1]
      <4>1. m # n => i \in 1 .. n /\ i > p
        BY <1>1, <1>3, <2>3, <3>1
      <4> QED  BY <1>7, <3>1, <4>1
    <3> QED  BY <1>11, <1>13, <3>1, <3>2, <3>3
  <2> QED  BY <1>1, <1>3, <2>1, <2>2, <2>3
<1>15. ASSUME NEW c \in Deferred(after)
       PROVE  \E i \in 1 .. n + 1 : M[i] = c
  <2>1. CASE c = b
    BY <1>8, <2>1
  <2>2. CASE c # b
    <3>1. c \in Deferred(batches)
      BY <1>1, <2>2 DEF Deferred
    <3>2. PICK i \in 1 .. n : L[i] = c
      BY <1>2, <3>1
    <3>3. i \in 1 .. n + 1 /\ i + 1 \in 1 .. n + 1 /\ (i <= p \/ i > p)
      BY <1>1, <1>3
    <3> QED  BY <1>7, <3>2, <3>3
  <2> QED  BY <2>1, <2>2
<1>16. ASSUME NEW i \in 1 .. n + 1, NEW j \in 1 .. n + 1, i < j
       PROVE  after[M[i]].expirationTime > after[M[j]].expirationTime
  <2>1. CASE j <= p
    <3>1. i \in 1 .. n /\ j \in 1 .. n /\ M[i] = L[i] /\ M[j] = L[j]
      BY <1>1, <1>3, <1>7, <1>16, <2>1, SMTT(20)
    <3> QED  BY <1>2, <1>11, <1>16, <3>1
  <2>2. CASE j = p + 1
    <3>1. i \in 1 .. n /\ i <= p /\ M[i] = L[i] /\ M[j] = b
      BY <1>1, <1>3, <1>7, <1>8, <1>16, <2>2
    <3> QED  BY <1>4, <1>11, <3>1
  <2>3. CASE j > p + 1
    <3> DEFINE m == j - 1
    <3>1. m \in 1 .. n /\ m > p /\ m + 1 = j /\ ~(m <= p)
      BY <1>1, <1>3, <2>3
    <3> HIDE DEF m
    <3>2. M[j] = L[m]
      BY <1>7, <3>1
    <3>3. CASE i <= p
      <4>1. i \in 1 .. n /\ M[i] = L[i] /\ i < m
        BY <1>1, <1>3, <1>7, <3>1, <3>3
      <4> QED  BY <1>2, <1>11, <3>1, <3>2, <4>1
    <3>4. CASE i = p + 1
      BY <1>4, <1>8, <1>11, <3>1, <3>2, <3>4
    <3>5. CASE i > p + 1
      <4> DEFINE k == i - 1
      <4>1. k \in 1 .. n /\ k > p /\ k + 1 = i /\ k < m
        BY <1>1, <1>3, <1>16, <3>1, <3>5
      <4> HIDE DEF k
      <4>2. M[i] = L[k]
        BY <1>7, <4>1
      <4> QED  BY <1>2, <1>11, <3>1, <3>2, <4>1, <4>2, SMTT(20)
    <3> QED  BY <1>1, <1>3, <3>3, <3>4, <3>5
  <2> QED  BY <1>1, <1>3, <2>1, <2>2, <2>3
<1>17. IsBatchList(M, after, now)
  BY <1>5, <1>9, <1>10, <1>14, <1>15, <1>16 DEF IsBatchList
<1> QED  BY <1>17

-----------------------------------------------------------------------------
(***************************************************************************)
(* Updates, and batches that change.                                       *)
(***************************************************************************)
LEMMA UpdatedKeeps ==
  ASSUME NEW r \in RootRecord, NEW batches \in Seq(BatchRecord), NEW time \in 1 .. Sync,
         Sync \in Nat, NEW element \in BatchElement, element[1] \in 0 .. Len(batches),
         element[1] \in Deferred(batches) => /\ time = batches[element[1]].expirationTime
                                             /\ batches[element[1]].children # NoElement,
         UpdatesOK(r, batches), NEW some, Waiting(r, batches, some)
  PROVE  LET u == Updated(r, element, time)
         IN  /\ UpdatesOK(u, batches) /\ Waiting(u, batches, some \cup {element[1]})
             /\ ShownOK(r, batches) => ShownOK(u, batches)
             /\ pendingTime(u) >= time
             /\ PendingOK(r) => PendingOK(u)
             /\ FinishedOK(r) /\ r.finishedExpirationTime # time => FinishedOK(u)
<1> DEFINE u == Updated(r, element, time)
           n == Len(r.queue)
<1>1. /\ u \in RootRecord
      /\ u.callbackExpirationTime =
           IF r.callbackExpirationTime < time THEN time ELSE r.callbackExpirationTime
      /\ u.shown = r.shown /\ u.firstBatch = r.firstBatch
      /\ u.finishedExpirationTime = r.finishedExpirationTime /\ u.rendered = r.rendered
      /\ Len(u.queue) = n + 1 /\ \A i \in 1 .. n : u.queue[i] = r.queue[i]
      /\ u.queue[n + 1] = [time |-> time, element |-> element, applied |-> FALSE]
  BY UpdatedRoot
<1> HIDE DEF u
<1>2. n \in Nat /\ r.callbackExpirationTime \in Nat /\ time \in Nat /\ r.rendered \in Nat
      /\ r.finishedExpirationTime \in Nat
  BY LenProperties DEF RootRecord
<1>3. /\ u.queue[n + 1].time = time /\ u.queue[n + 1].element = element
      /\ ~u.queue[n + 1].applied /\ n + 1 \in 1 .. n + 1
  BY <1>1, <1>2
<1> HIDE DEF n
<1>4. UpdatesOK(u, batches)
  <2> SUFFICES ASSUME NEW i \in 1 .. n + 1
               PROVE  /\ u.queue[i].element[1] \in 0 .. Len(batches)
                      /\ u.queue[i].element[1] \in Deferred(batches) =>
                           /\ u.queue[i].time = batches[u.queue[i].element[1]].expirationTime
                           /\ batches[u.queue[i].element[1]].children # NoElement
    BY <1>1 DEF UpdatesOK
  <2>1. CASE i = n + 1
    BY <1>3, <2>1
  <2>2. CASE i # n + 1
    <3>1. i \in 1 .. n
      BY <1>2, <2>2
    <3> QED  BY <1>1, <3>1 DEF UpdatesOK, n
  <2> QED  BY <2>1, <2>2
<1>5. Waiting(u, batches, some \cup {element[1]})
  <2> SUFFICES ASSUME NEW b \in some \cup {element[1]}, batches[b].children # NoElement
               PROVE  \E i \in 1 .. n + 1 : u.queue[i].element[1] = b /\ ~u.queue[i].applied
    BY <1>1 DEF Waiting
  <2>1. CASE b = element[1]
    BY <1>3, <2>1
  <2>2. CASE b \in some
    <3>1. PICK i \in 1 .. n : r.queue[i].element[1] = b /\ ~r.queue[i].applied
      BY <2>2 DEF Waiting, n
    <3>2. i \in 1 .. n + 1
      BY <1>2
    <3> QED  BY <1>1, <3>1, <3>2
  <2> QED  BY <2>1, <2>2
<1>6. /\ pendingTime(u) \in 0 .. Sync /\ pendingTime(r) \in 0 .. Sync
      /\ pendingTime(u) >= time
      /\ pendingTime(u) = IF pendingTime(r) < time THEN time ELSE pendingTime(r)
  <2>1. /\ pendingTime(u) \in 0 .. Sync
        /\ \A i \in 1 .. n + 1 : ~u.queue[i].applied => u.queue[i].time <= pendingTime(u)
        /\ pendingTime(u) # NoTime =>
             \E i \in 1 .. n + 1 : ~u.queue[i].applied /\ u.queue[i].time = pendingTime(u)
    BY <1>1, PendingIsGreatest
  <2>2. /\ pendingTime(r) \in 0 .. Sync
        /\ \A i \in 1 .. n : ~r.queue[i].applied => r.queue[i].time <= pendingTime(r)
        /\ pendingTime(r) # NoTime =>
             \E i \in 1 .. n : ~r.queue[i].applied /\ r.queue[i].time = pendingTime(r)
    BY PendingIsGreatest DEF n
  <2>3. time <= pendingTime(u)
    BY <1>3, <2>1
  <2>4. pendingTime(r) <= pendingTime(u)
    <3>1. CASE pendingTime(r) = NoTime
      BY <2>1, <3>1 DEF NoTime
    <3>2. CASE pendingTime(r) # NoTime
      <4>1. PICK i \in 1 .. n : ~r.queue[i].applied /\ r.queue[i].time = pendingTime(r)
        BY <2>2, <3>2
      <4>2. i \in 1 .. n + 1 /\ u.queue[i] = r.queue[i]
        BY <1>1, <1>2
      <4> QED  BY <2>1, <4>1, <4>2
    <3> QED  BY <3>1, <3>2
  <2>5. PICK i \in 1 .. n + 1 : ~u.queue[i].applied /\ u.queue[i].time = pendingTime(u)
    <3>1. pendingTime(u) # NoTime
      BY <1>2, <2>1, <2>3 DEF NoTime
    <3> QED  BY <2>1, <3>1
  <2>6. pendingTime(u) = time \/ pendingTime(u) <= pendingTime(r)
    <3>1. CASE i = n + 1
      BY <1>3, <2>5, <3>1
    <3>2. CASE i # n + 1
      <4>1. i \in 1 .. n /\ u.queue[i] = r.queue[i]
        BY <1>1, <1>2, <3>2
      <4> QED  BY <2>2, <2>5, <4>1
    <3> QED  BY <3>1, <3>2
  <2> QED  BY <1>2, <2>1, <2>2, <2>3, <2>4, <2>6
<1>7. PendingOK(r) => PendingOK(u)
  BY <1>1, <1>2, <1>6 DEF PendingOK
<1>8. ASSUME FinishedOK(r), r.finishedExpirationTime # time
      PROVE  FinishedOK(u)
  <2>1. \A t : ShowsSome(r, t) => ShowsSome(u, t)
    <3> SUFFICES ASSUME NEW t, ShowsSome(r, t) PROVE ShowsSome(u, t)
      OBVIOUS
    <3>1. PICK i \in 1 .. r.rendered : r.queue[i].time >= t
      BY DEF ShowsSome
    <3>2. r.rendered <= n
      BY DEF ShowsSome, n
    <3>3. i \in 1 .. n
      BY <1>2, <3>2
    <3>4. u.rendered = r.rendered /\ Len(u.queue) = n + 1 /\ u.queue[i] = r.queue[i] /\ n \in Nat
      BY <1>1, <1>2, <3>3
    <3>5. u.rendered <= Len(u.queue)
      <4>1. r.rendered \in Nat
        BY DEF RootRecord
      <4> QED  BY <3>2, <3>4, <4>1
    <3>6. i \in 1 .. u.rendered /\ u.queue[i].time >= t
      BY <3>1, <3>4
    <3> QED  BY <3>5, <3>6 DEF ShowsSome
  <2> QED  BY <1>1, <1>2, <1>8, <2>1 DEF FinishedOK
<1>9. ShownOK(r, batches) => ShownOK(u, batches)
  BY <1>1 DEF ShownOK
<1> QED  BY <1>4, <1>5, <1>6, <1>7, <1>8, <1>9 DEF u

\* Batches that are not deferred any more, and new ones, matter to no update.
LEMMA BatchesChange ==
  ASSUME NEW r \in RootRecord, NEW batches \in Seq(BatchRecord), NEW after \in Seq(BatchRecord),
         Len(batches) <= Len(after),
         \A c \in 1 .. Len(batches) : after[c].defer =>
           /\ batches[c].defer
           /\ after[c].expirationTime = batches[c].expirationTime
           /\ after[c].children = batches[c].children,
         \A c \in Len(batches) + 1 .. Len(after) : after[c].children = NoElement
  PROVE  /\ UpdatesOK(r, batches) => UpdatesOK(r, after)
         /\ ShownOK(r, batches) => ShownOK(r, after)
         /\ Waiting(r, batches, Deferred(batches)) => Waiting(r, after, Deferred(after))
<1>1. Len(batches) \in Nat /\ Len(after) \in Nat
  BY LenProperties
<1>2. ASSUME NEW c \in 0 .. Len(batches)
      PROVE  /\ c \in 0 .. Len(after)
             /\ c \in Deferred(after) =>
                  /\ c \in Deferred(batches) /\ after[c].children = batches[c].children
                  /\ after[c].expirationTime = batches[c].expirationTime
  BY <1>1 DEF Deferred
<1>3. UpdatesOK(r, batches) => UpdatesOK(r, after)
  BY <1>2 DEF UpdatesOK
<1>4. ShownOK(r, batches) => ShownOK(r, after)
  BY <1>2 DEF ShownOK
<1>5. ASSUME Waiting(r, batches, Deferred(batches)), NEW b \in Deferred(after),
             after[b].children # NoElement
      PROVE  \E i \in 1 .. Len(r.queue) : r.queue[i].element[1] = b /\ ~r.queue[i].applied
  <2>1. b \in 0 .. Len(batches)
    BY <1>1, <1>5 DEF Deferred
  <2> QED  BY <1>2, <1>5, <2>1 DEF Waiting
<1> QED  BY <1>3, <1>4, <1>5 DEF Waiting

\* The queue alone decides what is said of updates.
LEMMA SameQueue ==
  ASSUME NEW r, NEW s, r.queue = s.queue, NEW batches, NEW some
  PROVE  /\ UpdatesOK(r, batches) => UpdatesOK(s, batches)
         /\ Waiting(r, batches, some) => Waiting(s, batches, some)
  BY DEF UpdatesOK, Waiting

LEMMA OneBatchChanges ==
  ASSUME NEW batches \in Seq(BatchRecord), NEW b \in 1 .. Len(batches), Sync \in Nat
  PROVE  /\ \A e \in BatchRecord :
              /\ [batches EXCEPT ![b] = e] \in Seq(BatchRecord)
              /\ Len([batches EXCEPT ![b] = e]) = Len(batches)
              /\ \A c \in 1 .. Len(batches) :
                   [batches EXCEPT ![b] = e][c] = IF c = b THEN e ELSE batches[c]
         /\ batches[b] \in BatchRecord
         /\ batches[b].expirationTime \in 1 .. Sync - 1 /\ batches[b].next \in Nat
         /\ batches[b].children \in BatchElement
  <1>1. batches[b] \in BatchRecord
    BY ElementOfSeq, Zenon
  <1> QED  BY <1>1, ExceptSeq, SMTT(20) DEF BatchRecord

Opened(batches, b) == [batches EXCEPT ![b].defer = FALSE]
Unlinked(batches, b) == [batches EXCEPT ![b].next = NoBatch]

\* The batch that is opened, and no other, changes.
LEMMA BatchOpened ==
  ASSUME NEW batches \in Seq(BatchRecord), NEW b \in 1 .. Len(batches), Sync \in Nat
  PROVE  LET open == Opened(batches, b)
         IN  /\ open \in Seq(BatchRecord) /\ Len(open) = Len(batches)
             /\ open[b].expirationTime = batches[b].expirationTime
             /\ open[b].next = batches[b].next /\ open[b].children = batches[b].children
             /\ ~open[b].defer
             /\ \A c \in 1 .. Len(batches) : c # b => open[c] = batches[c]
<1> DEFINE open == Opened(batches, b)
           e == [batches[b] EXCEPT !.defer = FALSE]
<1>1. batches[b] \in BatchRecord
  BY OneBatchChanges
<1>2. /\ e \in BatchRecord /\ e.expirationTime = batches[b].expirationTime
      /\ e.next = batches[b].next /\ e.children = batches[b].children /\ ~e.defer
  BY <1>1 DEF BatchRecord
<1>3. open = [batches EXCEPT ![b] = e]
  BY DEF Opened
<1> HIDE DEF e, open
<1>4. /\ [batches EXCEPT ![b] = e] \in Seq(BatchRecord)
      /\ Len([batches EXCEPT ![b] = e]) = Len(batches)
      /\ \A c \in 1 .. Len(batches) :
           [batches EXCEPT ![b] = e][c] = IF c = b THEN e ELSE batches[c]
  BY <1>2, OneBatchChanges
<1>5. /\ open \in Seq(BatchRecord) /\ Len(open) = Len(batches) /\ open[b] = e
      /\ \A c \in 1 .. Len(batches) : c # b => open[c] = batches[c]
  BY <1>3, <1>4
<1> QED  BY <1>2, <1>5 DEF open

\* The same with its link.
LEMMA BatchUnlinked ==
  ASSUME NEW batches \in Seq(BatchRecord), NEW b \in 1 .. Len(batches), Sync \in Nat
  PROVE  LET after == Unlinked(batches, b)
         IN  /\ after \in Seq(BatchRecord) /\ Len(after) = Len(batches)
             /\ after[b].expirationTime = batches[b].expirationTime
             /\ after[b].children = batches[b].children /\ after[b].defer = batches[b].defer
             /\ \A c \in 1 .. Len(batches) : c # b => after[c] = batches[c]
<1> DEFINE after == Unlinked(batches, b)
           e == [batches[b] EXCEPT !.next = NoBatch]
<1>1. batches[b] \in BatchRecord
  BY OneBatchChanges
<1>2. /\ e \in BatchRecord /\ e.expirationTime = batches[b].expirationTime
      /\ e.children = batches[b].children /\ e.defer = batches[b].defer
  BY <1>1 DEF BatchRecord, NoBatch
<1>3. after = [batches EXCEPT ![b] = e]
  BY DEF Unlinked
<1> HIDE DEF e, after
<1>4. /\ [batches EXCEPT ![b] = e] \in Seq(BatchRecord)
      /\ Len([batches EXCEPT ![b] = e]) = Len(batches)
      /\ \A c \in 1 .. Len(batches) :
           [batches EXCEPT ![b] = e][c] = IF c = b THEN e ELSE batches[c]
  BY <1>2, OneBatchChanges
<1>5. /\ after \in Seq(BatchRecord) /\ Len(after) = Len(batches) /\ after[b] = e
      /\ \A c \in 1 .. Len(batches) : c # b => after[c] = batches[c]
  BY <1>3, <1>4
<1> QED  BY <1>2, <1>5 DEF after

\* The next batch is rendered again.
LEMMA NextRendered ==
  ASSUME NEW f \in RootRecord, NEW open \in Seq(BatchRecord), Sync \in Nat,
         NEW next \in Deferred(open), open[next].children # NoElement, ChildrenOK(open),
         UpdatesOK(f, open), Waiting(f, open, Deferred(open) \ {next}), ShownOK(f, open),
         FinishedOK(f), PendingOK(f), f.finishedExpirationTime = NoTime
  PROVE  LET u == Updated(f, open[next].children, open[next].expirationTime)
         IN  /\ u \in RootRecord /\ QueueOK(u, open) /\ FinishedOK(u) /\ PendingOK(u)
             /\ u.firstBatch = f.firstBatch /\ u.shown = f.shown
<1> DEFINE element == open[next].children
           t == open[next].expirationTime
           u == Updated(f, element, t)
<1>1. next \in 1 .. Len(open) /\ Len(open) \in Nat
  BY LenProperties DEF Deferred
<1>2. element \in BatchElement /\ t \in 1 .. Sync /\ t # NoTime
  <2>1. open[next] \in BatchRecord
    BY <1>1, ElementOfSeq, Zenon
  <2> QED  BY <2>1 DEF BatchRecord, NoTime
<1>3. element[1] = next
  BY <1>1 DEF ChildrenOK
<1> HIDE DEF element, t
<1>4. /\ element[1] \in 0 .. Len(open) /\ t = open[element[1]].expirationTime
      /\ open[element[1]].children # NoElement
  BY <1>1, <1>3 DEF t
<1>5. /\ UpdatesOK(u, open)
      /\ Waiting(u, open, (Deferred(open) \ {next}) \cup {element[1]})
      /\ ShownOK(u, open) /\ PendingOK(u) /\ FinishedOK(u)
  BY <1>2, <1>4, UpdatedKeeps
<1>6. u \in RootRecord /\ u.firstBatch = f.firstBatch /\ u.shown = f.shown
  BY <1>2, UpdatedRoot
<1>7. Waiting(u, open, Deferred(open))
  BY <1>3, <1>5 DEF Waiting
<1> QED  BY <1>5, <1>6, <1>7 DEF QueueOK, element, t

\* The flush of a batch that is first, and what is rendered again on top of it.  Below the
\* time it renders at are the other deferred batches, except perhaps the next one.
FlushedRoot(r, open, time, next) ==
  LET f == [RootRendered(r, open, time, Synchronously) EXCEPT !.firstBatch = next]
  IN  IF next # NoBatch /\ open[next].children # NoElement
      THEN Updated(f, open[next].children, open[next].expirationTime)
      ELSE f

\* What flushRoot renders when no batch locks the root: nothing of some batches that are
\* below the time it comes to is applied.
LEMMA FlushRendered ==
  ASSUME NEW r \in RootRecord, NEW batches \in Seq(BatchRecord), NEW time \in 1 .. Sync,
         Sync \in Nat, UpdatesOK(r, batches), clock \in Now,
         NEW some \in SUBSET Deferred(batches), Waiting(r, batches, some),
         pendingTime(r) >= time, r.finishedExpirationTime = time => ShowsSome(r, time),
         ~isLocked(r, batches, CommitTime(r, time, Synchronously)),
         Below(some, batches, CommitTime(r, time, Synchronously))
  PROVE  LET x == RootRendered(r, batches, time, Synchronously)
         IN  /\ x \in RootRecord /\ UpdatesOK(x, batches) /\ Waiting(x, batches, some)
             /\ x.finishedExpirationTime = NoTime
             /\ x.callbackExpirationTime = pendingTime(x)
             /\ Below(Deferred(batches), batches, CommitTime(r, time, Synchronously)) =>
                  ShownOK(x, batches)
             /\ r.finishedExpirationTime # time /\ r.queue[Len(r.queue)].time >= time =>
                  x.shown = r.queue[Len(r.queue)].element
<1>1. PICK at \in 1 .. Sync : at <= time /\ at = CommitTime(r, time, Synchronously)
  BY CommitTimeIs
<1>2. ~Waits(r, batches, time, at) /\ (~Waits(r, batches, time, at) => Below(some, batches, at))
  BY <1>1 DEF Waits
<1> DEFINE x == RootRendered(r, batches, time, Synchronously)
<1>3. /\ x \in RootRecord /\ UpdatesOK(x, batches) /\ Waiting(x, batches, some)
      /\ x.firstBatch = r.firstBatch
      /\ Waits(r, batches, time, at) =>
           /\ x.callbackExpirationTime = r.callbackExpirationTime
           /\ x.queue = r.queue /\ x.shown = r.shown
           /\ x.finishedExpirationTime = at /\ ShowsSome(x, at)
      /\ ~Waits(r, batches, time, at) =>
           /\ x.finishedExpirationTime = NoTime
           /\ x.callbackExpirationTime = pendingTime(x)
           /\ Below(Deferred(batches), batches, at) => ShownOK(x, batches)
           /\ r.finishedExpirationTime # time /\ r.queue[Len(r.queue)].time >= time =>
                x.shown = r.queue[Len(r.queue)].element
  BY <1>1, <1>2, RenderedRoot
<1> HIDE DEF x
<1> QED  BY <1>1, <1>2, <1>3 DEF x

LEMMA FlushedKeeps ==
  ASSUME NEW r \in RootRecord, NEW open \in Seq(BatchRecord), NEW b \in 1 .. Len(open),
         Sync \in Nat, NEW time \in 1 .. Sync, NEW next \in Nat,
         r.firstBatch = b, ~open[b].defer, ChildrenOK(open),
         next # NoBatch => next \in Deferred(open),
         UpdatesOK(r, open),
         NEW some, some = Deferred(open) \ {next}, Waiting(r, open, some),
         clock \in Now, Below(some, open, CommitTime(r, time, Synchronously)),
         pendingTime(r) >= time, r.finishedExpirationTime = time => ShowsSome(r, time),
         \/ Below(Deferred(open), open, CommitTime(r, time, Synchronously))
         \/ /\ r.finishedExpirationTime # time /\ r.queue[Len(r.queue)].time >= time
            /\ r.queue[Len(r.queue)].element[1] = b
  PROVE  LET x == FlushedRoot(r, open, time, next)
         IN  /\ x \in RootRecord /\ QueueOK(x, open) /\ x.firstBatch = next
             /\ FinishedOK(x) /\ PendingOK(x)
             /\ r.finishedExpirationTime # time /\ r.queue[Len(r.queue)].time >= time =>
                  x.shown = r.queue[Len(r.queue)].element
<1> DEFINE x == RootRendered(r, open, time, Synchronously)
           f == [x EXCEPT !.firstBatch = next]
           y == FlushedRoot(r, open, time, next)
<1>1. ~isLocked(r, open, CommitTime(r, time, Synchronously))
  BY DEF isLocked
<1>2. some \in SUBSET Deferred(open)
  OBVIOUS
<1>3. /\ x \in RootRecord /\ UpdatesOK(x, open) /\ Waiting(x, open, some)
      /\ x.finishedExpirationTime = NoTime
      /\ x.callbackExpirationTime = pendingTime(x)
      /\ Below(Deferred(open), open, CommitTime(r, time, Synchronously)) => ShownOK(x, open)
      /\ r.finishedExpirationTime # time /\ r.queue[Len(r.queue)].time >= time =>
           x.shown = r.queue[Len(r.queue)].element
  BY <1>1, <1>2, FlushRendered
<1>4. y = IF next # NoBatch /\ open[next].children # NoElement
          THEN Updated(f, open[next].children, open[next].expirationTime)
          ELSE f
  BY DEF FlushedRoot
<1> HIDE DEF x, y
<1>5. ShownOK(x, open)
  <2>1. CASE Below(Deferred(open), open, CommitTime(r, time, Synchronously))
    BY <1>3, <2>1
  <2>2. CASE /\ r.finishedExpirationTime # time /\ r.queue[Len(r.queue)].time >= time
             /\ r.queue[Len(r.queue)].element[1] = b
    <3>1. x.shown[1] = b
      BY <1>3, <2>2
    <3>2. b \in 0 .. Len(open) /\ b \notin Deferred(open)
      BY LenProperties DEF Deferred
    <3> QED  BY <3>1, <3>2 DEF ShownOK
  <2> QED  BY <2>1, <2>2
<1>6. /\ f \in RootRecord /\ f.queue = x.queue /\ f.shown = x.shown /\ f.firstBatch = next
      /\ f.finishedExpirationTime = NoTime
      /\ f.callbackExpirationTime = x.callbackExpirationTime
  BY <1>3 DEF RootRecord
<1> HIDE DEF f
<1>7. /\ UpdatesOK(f, open) /\ Waiting(f, open, some) /\ ShownOK(f, open)
      /\ FinishedOK(f) /\ PendingOK(f)
  <2>1. UpdatesOK(f, open) /\ Waiting(f, open, some) /\ ShownOK(f, open)
    BY <1>3, <1>5, <1>6, SameQueue DEF ShownOK
  <2>2. pendingTime(f) = pendingTime(x) /\ pendingTime(x) \in 0 .. Sync
    BY <1>3, <1>6, PendingOfQueue, PendingIsGreatest
  <2>3. PendingOK(f)
    BY <1>3, <1>6, <2>2 DEF PendingOK
  <2>4. FinishedOK(f)
    BY <1>6 DEF FinishedOK
  <2> QED  BY <2>1, <2>3, <2>4
<1>8. /\ y \in RootRecord /\ QueueOK(y, open) /\ y.firstBatch = next
      /\ FinishedOK(y) /\ PendingOK(y) /\ y.shown = x.shown
  <2>1. CASE next # NoBatch /\ open[next].children # NoElement
    <3>1. y = Updated(f, open[next].children, open[next].expirationTime)
      BY <1>4, <2>1
    <3>2. /\ y \in RootRecord /\ QueueOK(y, open) /\ FinishedOK(y) /\ PendingOK(y)
          /\ y.firstBatch = f.firstBatch /\ y.shown = f.shown
      BY <1>6, <1>7, <2>1, <3>1, NextRendered
    <3> QED  BY <1>6, <3>2
  <2>2. CASE ~(next # NoBatch /\ open[next].children # NoElement)
    <3>1. y = f
      BY <1>4, <2>2
    <3>2. Waiting(f, open, Deferred(open))
      <4> SUFFICES ASSUME NEW c \in Deferred(open), open[c].children # NoElement
                   PROVE  \E i \in 1 .. Len(f.queue) :
                            f.queue[i].element[1] = c /\ ~f.queue[i].applied
        BY DEF Waiting
      <4>1. c # NoBatch
        BY DEF Deferred, NoBatch
      <4>2. c # next
        BY <2>2, <4>1
      <4> QED  BY <1>7, <4>2 DEF Waiting
    <3> QED  BY <1>6, <1>7, <3>1, <3>2 DEF QueueOK
  <2> QED  BY <2>1, <2>2
<1> QED  BY <1>3, <1>8 DEF y


LEMMA BatchInvIs ==
  /\ BatchInv <=> (known = {} => BatchTypeOK /\ RootOK(root, batch) /\ ~failed)
  /\ BatchInv' <=> (known' = {} => BatchTypeOK' /\ RootOK(root', batch') /\ ~failed')
  BY DEF BatchInv

LEMMA TypeFacts ==
  ASSUME BatchTypeOK
  PROVE  /\ Sync \in Nat /\ Sync >= 1 /\ renders \in Nat
         /\ clock \in Now /\ currentEventTime \in Now
         /\ lastUniqueAsyncExpiration \in Nat /\ root \in RootRecord
         /\ batch \in Seq(BatchRecord) /\ Len(batch) \in Nat /\ Len(batch) <= MaxBatch
         /\ DOMAIN batch = 1 .. Len(batch) /\ failed \in BOOLEAN
<1>1. Sync \in Nat /\ Sync >= 1
  BY SyncIsLast DEF BatchTypeOK
<1>2. batch \in Seq(BatchRecord)
  BY DEF BatchTypeOK
<1>3. Len(batch) \in Nat /\ DOMAIN batch = 1 .. Len(batch)
  BY <1>2, LenProperties
<1> QED  BY <1>1, <1>2, <1>3 DEF BatchTypeOK

LEMMA InitBatchInv == BatchInit => BatchInv
<1> SUFFICES ASSUME BatchInit  PROVE BatchInv
  OBVIOUS
<1>1. /\ clock = MAGIC_NUMBER_OFFSET /\ currentEventTime = MAGIC_NUMBER_OFFSET
      /\ lastUniqueAsyncExpiration = 0 /\ batch = <<>>
      /\ renders = 0 /\ failed = FALSE
      /\ root.queue = <<>> /\ root.shown = NoElement /\ root.firstBatch = NoBatch
      /\ root.callbackExpirationTime = NoTime /\ root.finishedExpirationTime = NoTime
  BY DEF BatchInit, NoTime
<1>2. MAGIC_NUMBER_OFFSET \in Now /\ MaxBatch \in Nat
  BY SyncIsLast, ReactBatchAssumption DEF Now
<1>3. root \in RootRecord
  BY DEF BatchInit, RootRecord, NoElement, NoBatch, NoTime, BatchElement
<1>4. BatchTypeOK
  <2>1. <<>> \in Seq(BatchRecord) /\ Len(<<>>) = 0
    OBVIOUS
  <2>2. Len(batch) <= MaxBatch /\ clock \in Now /\ currentEventTime \in Now
    BY <1>1, <1>2, <2>1
  <2> QED  BY <1>1, <1>3, <2>1, <2>2 DEF BatchTypeOK
<1>5. IsBatchList(<<>>, batch, root.firstBatch)
  BY <1>1 DEF IsBatchList, Deferred, NoBatch
<1>6. ChildrenOK(batch)
  BY <1>1 DEF ChildrenOK
<1>7. QueueOK(root, batch)
  BY <1>1 DEF QueueOK, UpdatesOK, Waiting, ShownOK, Deferred, NoElement, NoBatch
<1>8. FinishedOK(root)
  BY <1>1 DEF FinishedOK
<1>9. PendingOK(root)
  <2>1. /\ pendingTime(root) \in 0 .. Sync
        /\ pendingTime(root) # NoTime =>
             \E i \in 1 .. Len(root.queue) : root.queue[i].time = pendingTime(root)
    BY <1>3, <1>4, TypeFacts, PendingIsGreatest
  <2>2. pendingTime(root) = NoTime
    BY <1>1, <2>1
  <2> QED  BY <1>1, <2>2 DEF PendingOK, NoTime
<1> QED  BY <1>1, <1>4, <1>5, <1>6, <1>7, <1>8, <1>9 DEF BatchInv, RootOK

LEMMA AdvanceTimeKeeps == BatchInv /\ advanceTime => BatchInv'
<1> SUFFICES ASSUME BatchInv, advanceTime, known' = {}
             PROVE  BatchTypeOK' /\ RootOK(root', batch') /\ ~failed'
  BY BatchInvIs
<1>1. BatchTypeOK /\ RootOK(root, batch) /\ ~failed
  BY BatchInvIs DEF advanceTime
<1>2. clock' \in Now
  BY <1>1, SyncIsLast DEF advanceTime, BatchTypeOK, Now
<1> QED  BY <1>1, <1>2 DEF advanceTime, BatchTypeOK

LEMMA RequestCurrentTimeKeeps == BatchInv /\ requestCurrentTime => BatchInv'
<1> SUFFICES ASSUME BatchInv, requestCurrentTime, known' = {}
             PROVE  BatchTypeOK' /\ RootOK(root', batch') /\ ~failed'
  BY BatchInvIs
<1>1. BatchTypeOK /\ RootOK(root, batch) /\ ~failed
  BY BatchInvIs DEF requestCurrentTime
<1> QED  BY <1>1 DEF requestCurrentTime, BatchTypeOK

-----------------------------------------------------------------------------
\* A render of the root, of a time no finished tree waits at.
LEMMA RenderKeeps ==
  ASSUME NEW r \in RootRecord, NEW batches \in Seq(BatchRecord), NEW time \in 1 .. Sync,
         Sync \in Nat, NEW L, IsBatchList(L, batches, r.firstBatch), QueueOK(r, batches),
         pendingTime(r) >= time, r.finishedExpirationTime # time,
         r.callbackExpirationTime = NoTime, clock \in Now, NEW isSync
  PROVE  LET x == RootRendered(r, batches, time, isSync)
         IN  /\ x \in RootRecord /\ QueueOK(x, batches) /\ FinishedOK(x) /\ PendingOK(x)
             /\ x.firstBatch = r.firstBatch
<1> DEFINE x == RootRendered(r, batches, time, isSync)
           first == r.firstBatch
           some == Deferred(batches)
           at == CommitTime(r, time, isSync)
<1>0. at \in 1 .. Sync /\ at <= time /\ (r.finishedExpirationTime = time => ShowsSome(r, time))
  BY CommitTimeIs
<1> HIDE DEF at
<1>1. /\ first = NoBatch => Deferred(batches) = {}
      /\ first # NoBatch => first \in Deferred(batches) /\ first \in 1 .. Len(batches)
      /\ \A b \in Deferred(batches) :
           b = first \/ batches[b].expirationTime < batches[first].expirationTime
  BY FirstIsLatest
<1>2. \A b \in 1 .. Len(batches) : batches[b].expirationTime \in 1 .. Sync - 1
  BY ListFacts
<1>3. UpdatesOK(r, batches) /\ Waiting(r, batches, some) /\ ShownOK(r, batches)
  BY DEF QueueOK
<1>4. Waits(r, batches, time, at) <=> first # NoBatch /\ batches[first].expirationTime >= at
  BY <1>1 DEF Waits, isLocked, Deferred
<1>5. ~Waits(r, batches, time, at) => Below(some, batches, at)
  <2> SUFFICES ASSUME ~Waits(r, batches, time, at), NEW b \in some
               PROVE  batches[b].expirationTime < at
    BY DEF Below
  <2>1. first \in 1 .. Len(batches) /\ b \in 1 .. Len(batches)
    BY <1>1 DEF Deferred
  <2>2. batches[first].expirationTime < at
    BY <1>0, <1>1, <1>2, <1>4, <2>1
  <2> QED  BY <1>0, <1>1, <1>2, <2>1, <2>2, SMTT(20)
<1>6. some \in SUBSET Deferred(batches)
  OBVIOUS
<1>7. /\ x \in RootRecord /\ UpdatesOK(x, batches) /\ Waiting(x, batches, some)
      /\ x.firstBatch = r.firstBatch
      /\ Waits(r, batches, time, at) =>
           /\ x.callbackExpirationTime = r.callbackExpirationTime
           /\ x.queue = r.queue /\ x.shown = r.shown
           /\ x.finishedExpirationTime = at /\ ShowsSome(x, at)
      /\ ~Waits(r, batches, time, at) =>
           /\ x.finishedExpirationTime = NoTime
           /\ x.callbackExpirationTime = pendingTime(x)
           /\ Below(Deferred(batches), batches, at) => ShownOK(x, batches)
  BY <1>0, <1>3, <1>5, <1>6, RenderedRoot DEF at
<1> HIDE DEF x
<1>8. pendingTime(x) \in 0 .. Sync
  BY <1>7, PendingIsGreatest
<1>9. CASE Waits(r, batches, time, at)
  <2>1. first # NoBatch /\ at < Sync
    BY <1>0, <1>1, <1>2, <1>4, <1>9
  <2>2. FinishedOK(x)
    BY <1>0, <1>7, <1>9, <2>1 DEF FinishedOK, NoTime
  <2>3. PendingOK(x)
    BY <1>7, <1>8, <1>9, <2>1 DEF PendingOK, NoTime
  <2>4. ShownOK(x, batches)
    BY <1>3, <1>7, <1>9 DEF ShownOK
  <2> QED  BY <1>7, <2>2, <2>3, <2>4 DEF QueueOK, x
<1>10. CASE ~Waits(r, batches, time, at)
  <2>1. FinishedOK(x)
    BY <1>7, <1>10 DEF FinishedOK
  <2>2. PendingOK(x)
    BY <1>7, <1>8, <1>10 DEF PendingOK
  <2>3. ShownOK(x, batches)
    BY <1>5, <1>7, <1>10
  <2> QED  BY <1>7, <2>1, <2>2, <2>3 DEF QueueOK, x
<1> QED  BY <1>9, <1>10

\* The callback is forgotten before it renders.
LEMMA CallbackForgotten ==
  ASSUME NEW r \in RootRecord, NEW batches
  PROVE  LET s == [r EXCEPT !.callbackExpirationTime = NoTime]
         IN  /\ s \in RootRecord /\ s.callbackExpirationTime = NoTime
             /\ s.queue = r.queue /\ s.shown = r.shown /\ s.firstBatch = r.firstBatch
             /\ s.finishedExpirationTime = r.finishedExpirationTime
             /\ pendingTime(s) = pendingTime(r)
             /\ QueueOK(r, batches) => QueueOK(s, batches)
<1> DEFINE s == [r EXCEPT !.callbackExpirationTime = NoTime]
<1>1. /\ s \in RootRecord /\ s.callbackExpirationTime = NoTime
      /\ s.queue = r.queue /\ s.shown = r.shown /\ s.firstBatch = r.firstBatch
      /\ s.finishedExpirationTime = r.finishedExpirationTime
  BY DEF RootRecord, NoTime
<1> HIDE DEF s
<1>2. pendingTime(s) = pendingTime(r)
  BY <1>1, PendingOfQueue
<1>3. QueueOK(r, batches) => QueueOK(s, batches)
  BY <1>1, SameQueue DEF QueueOK, ShownOK
<1> QED  BY <1>1, <1>2, <1>3 DEF s

LEMMA RunRootCallbackKeeps ==
  ASSUME BatchInv, NEW didTimeout \in BOOLEAN, runRootCallback(didTimeout)
  PROVE  BatchInv'
<1> SUFFICES ASSUME known' = {}
             PROVE  BatchTypeOK' /\ RootOK(root', batch') /\ ~failed'
  BY BatchInvIs
<1> DEFINE time == root.callbackExpirationTime
           r == [root EXCEPT !.callbackExpirationTime = NoTime]
<1>1. BatchTypeOK /\ RootOK(root, batch) /\ ~failed
  BY BatchInvIs DEF runRootCallback
<1>2. /\ time # NoTime /\ root' = RootRendered(r, batch, time, didTimeout) /\ batch' = batch
      /\ clock' = clock /\ currentEventTime' \in {clock, currentEventTime}
      /\ lastUniqueAsyncExpiration' = lastUniqueAsyncExpiration
      /\ renders' = renders /\ failed' = failed
  BY DEF runRootCallback
<1>3. /\ Sync \in Nat /\ clock \in Now /\ currentEventTime \in Now
      /\ root \in RootRecord /\ batch \in Seq(BatchRecord)
  BY <1>1, TypeFacts
<1>4. PICK L : IsBatchList(L, batch, root.firstBatch)
  BY <1>1 DEF RootOK
<1>5. /\ r \in RootRecord /\ r.callbackExpirationTime = NoTime
      /\ r.firstBatch = root.firstBatch
      /\ r.finishedExpirationTime = root.finishedExpirationTime
      /\ pendingTime(r) = pendingTime(root) /\ QueueOK(r, batch)
  BY <1>1, <1>3, CallbackForgotten DEF RootOK
<1> HIDE DEF r
<1>6. time \in 1 .. Sync /\ pendingTime(r) >= time /\ r.finishedExpirationTime # time
  <2>1. time \in Nat
    BY <1>3 DEF RootRecord
  <2>2. pendingTime(root) \in 0 .. Sync
    BY <1>3, PendingIsGreatest
  <2>3. time <= pendingTime(root)
    BY <1>1 DEF RootOK, PendingOK
  <2>4. root.finishedExpirationTime # NoTime => time # root.finishedExpirationTime
    BY <1>1 DEF RootOK, FinishedOK
  <2>5. time # 0 /\ pendingTime(r) = pendingTime(root)
        /\ r.finishedExpirationTime = root.finishedExpirationTime
    BY <1>2, <1>5 DEF NoTime
  <2>6. r.finishedExpirationTime # time
    BY <2>4, <2>5 DEF NoTime
  <2> HIDE DEF time
  <2> QED  BY <1>3, <2>1, <2>2, <2>3, <2>5, <2>6
<1> HIDE DEF time
<1>7. /\ root' \in RootRecord /\ QueueOK(root', batch) /\ FinishedOK(root')
      /\ PendingOK(root') /\ root'.firstBatch = root.firstBatch
  BY <1>2, <1>3, <1>4, <1>5, <1>6, RenderKeeps
<1>8. RootOK(root', batch')
  BY <1>1, <1>2, <1>4, <1>7 DEF RootOK
<1> QED  BY <1>1, <1>2, <1>7, <1>8 DEF BatchTypeOK

LEMMA RenderElementKeeps ==
  ASSUME BatchInv, NEW sync \in BOOLEAN, renderElement(sync)
  PROVE  BatchInv'
<1> SUFFICES ASSUME known' = {}  PROVE BatchTypeOK' /\ RootOK(root', batch') /\ ~failed'
  BY BatchInvIs
<1> DEFINE element == <<NoBatch, renders + 1>>
           time == IF sync THEN Sync ELSE AsyncExpiration
           u == Updated(root, element, time)
           r == [u EXCEPT !.callbackExpirationTime = NoTime]
<1>1. /\ known' = known \cup IF sync THEN {} ELSE Overtaken(AsyncExpiration)
      /\ renders < MaxRender /\ renders' = renders + 1
      /\ root' = IF sync THEN RootRendered(r, batch, Sync, TRUE) ELSE u
      /\ batch' = batch /\ clock' = clock /\ currentEventTime' = currentEventTime
      /\ lastUniqueAsyncExpiration' = lastUniqueAsyncExpiration /\ failed' = failed
  <2>1. /\ known' = known \cup IF sync THEN {} ELSE Overtaken(AsyncExpiration)
        /\ batch' = batch /\ clock' = clock /\ currentEventTime' = currentEventTime
        /\ lastUniqueAsyncExpiration' = lastUniqueAsyncExpiration /\ failed' = failed
    BY DEF renderElement, timeVars
  <2>2. renders < MaxRender /\ renders' = renders + 1
    BY DEF renderElement, NextElement
  <2>3. root' = IF sync THEN RootRendered(r, batch, Sync, TRUE) ELSE u
    <3>1. CASE sync
      BY <3>1 DEF renderElement
    <3>2. CASE ~sync
      BY <3>2 DEF renderElement
    <3> QED  BY <3>1, <3>2
  <2> QED  BY <2>1, <2>2, <2>3
<1>2. known = {} /\ (~sync => root.finishedExpirationTime # AsyncExpiration)
  BY <1>1 DEF Overtaken
<1>3. BatchTypeOK /\ RootOK(root, batch) /\ ~failed
  BY <1>2, BatchInvIs
<1>4. /\ Sync \in Nat /\ Sync >= 1 /\ root \in RootRecord /\ batch \in Seq(BatchRecord)
      /\ renders \in Nat /\ clock \in Now /\ currentEventTime \in Now /\ Len(batch) \in Nat
  BY <1>3, TypeFacts
<1>5. element \in BatchElement /\ element[1] = NoBatch /\ element[1] \in 0 .. Len(batch)
  BY <1>4 DEF BatchElement, NoBatch
<1>6. element[1] \notin Deferred(batch)
  BY <1>5 DEF Deferred, NoBatch
<1> HIDE DEF element
<1>7. time \in 1 .. Sync /\ root.finishedExpirationTime # time
  <2>1. CASE sync
    <3>1. root.finishedExpirationTime # NoTime => root.finishedExpirationTime < Sync
      BY <1>3 DEF RootOK, FinishedOK
    <3>2. root.finishedExpirationTime # Sync
      BY <1>4, <3>1 DEF NoTime
    <3> QED  BY <1>4, <2>1, <3>2
  <2>2. CASE ~sync
    <3>1. AsyncExpiration \in 1 .. Sync - 1
      BY <1>4, AsyncIsBelowSync
    <3>2. AsyncExpiration \in 1 .. Sync
      BY <1>4, <3>1
    <3> QED  BY <1>2, <2>2, <3>2
  <2> QED  BY <2>1, <2>2
<1> HIDE DEF time
<1>8. PICK L : IsBatchList(L, batch, root.firstBatch)
  BY <1>3 DEF RootOK
<1>9. /\ UpdatesOK(root, batch) /\ Waiting(root, batch, Deferred(batch)) /\ ShownOK(root, batch)
      /\ PendingOK(root) /\ FinishedOK(root) /\ ChildrenOK(batch)
  BY <1>3 DEF RootOK, QueueOK
<1>10. /\ UpdatesOK(u, batch) /\ Waiting(u, batch, Deferred(batch) \cup {element[1]})
       /\ ShownOK(u, batch) /\ pendingTime(u) >= time /\ PendingOK(u) /\ FinishedOK(u)
  BY <1>4, <1>5, <1>6, <1>7, <1>9, UpdatedKeeps
<1>11. /\ u \in RootRecord /\ u.firstBatch = root.firstBatch
       /\ u.finishedExpirationTime = root.finishedExpirationTime
  BY <1>4, <1>5, <1>7, UpdatedRoot
<1>12. QueueOK(u, batch)
  BY <1>10 DEF QueueOK, Waiting
<1> HIDE DEF u
<1>13. /\ root' \in RootRecord /\ QueueOK(root', batch) /\ FinishedOK(root')
       /\ PendingOK(root') /\ root'.firstBatch = root.firstBatch
  <2>1. CASE sync
    <3>1. /\ r \in RootRecord /\ r.callbackExpirationTime = NoTime
          /\ r.firstBatch = u.firstBatch
          /\ r.finishedExpirationTime = u.finishedExpirationTime
          /\ pendingTime(r) = pendingTime(u) /\ QueueOK(r, batch)
      BY <1>11, <1>12, CallbackForgotten
    <3> HIDE DEF r
    <3>2. pendingTime(r) >= time /\ r.finishedExpirationTime # time
          /\ IsBatchList(L, batch, r.firstBatch)
      BY <1>7, <1>8, <1>10, <1>11, <3>1
    <3>3. LET x == RootRendered(r, batch, time, TRUE)
          IN  /\ x \in RootRecord /\ QueueOK(x, batch) /\ FinishedOK(x) /\ PendingOK(x)
              /\ x.firstBatch = r.firstBatch
      BY <1>4, <1>7, <3>1, <3>2, RenderKeeps
    <3>4. time = Sync /\ root' = RootRendered(r, batch, time, TRUE)
      BY <1>1, <2>1 DEF time
    <3> QED  BY <1>11, <3>1, <3>3, <3>4
  <2>2. CASE ~sync
    BY <1>1, <1>10, <1>11, <1>12, <2>2
  <2> QED  BY <2>1, <2>2
<1>14. RootOK(root', batch')
  BY <1>1, <1>8, <1>9, <1>13 DEF RootOK
<1>15. renders' \in Nat
  BY <1>1, <1>4
<1> QED  BY <1>1, <1>3, <1>13, <1>14, <1>15 DEF BatchTypeOK

-----------------------------------------------------------------------------
\* A list stays one when no link, time or lock of its batches changes.
LEMMA ListSame ==
  ASSUME NEW L, NEW batches, NEW after, NEW first, IsBatchList(L, batches, first),
         Len(after) = Len(batches),
         \A c \in 1 .. Len(batches) :
           /\ after[c].defer = batches[c].defer /\ after[c].next = batches[c].next
           /\ after[c].expirationTime = batches[c].expirationTime
  PROVE  IsBatchList(L, after, first)
<1>1. Deferred(after) = Deferred(batches)
  BY DEF Deferred
<1>2. \A i \in 1 .. Len(L) : L[i] \in 1 .. Len(batches)
  BY DEF IsBatchList, Deferred
<1> QED  BY <1>1, <1>2 DEF IsBatchList

\* The children of a batch are another element.
LEMMA ChildrenRendered ==
  ASSUME NEW batches \in Seq(BatchRecord), NEW b \in 1 .. Len(batches), Sync \in Nat,
         NEW element \in BatchElement,
         NEW after, after = [batches EXCEPT ![b].children = element]
  PROVE  /\ after \in Seq(BatchRecord) /\ Len(after) = Len(batches)
         /\ after[b].children = element
         /\ \A c \in 1 .. Len(batches) :
              /\ after[c].defer = batches[c].defer /\ after[c].next = batches[c].next
              /\ after[c].expirationTime = batches[c].expirationTime
              /\ c # b => after[c] = batches[c]
<1> DEFINE e == [batches[b] EXCEPT !.children = element]
<1>1. batches[b] \in BatchRecord
  BY OneBatchChanges
<1>2. /\ e \in BatchRecord /\ e.expirationTime = batches[b].expirationTime
      /\ e.next = batches[b].next /\ e.defer = batches[b].defer /\ e.children = element
  BY <1>1 DEF BatchRecord
<1>3. after = [batches EXCEPT ![b] = e]
  OBVIOUS
<1> HIDE DEF e
<1>4. /\ [batches EXCEPT ![b] = e] \in Seq(BatchRecord)
      /\ Len([batches EXCEPT ![b] = e]) = Len(batches)
      /\ \A c \in 1 .. Len(batches) :
           [batches EXCEPT ![b] = e][c] = IF c = b THEN e ELSE batches[c]
  BY <1>2, OneBatchChanges
<1> QED  BY <1>2, <1>3, <1>4

LEMMA RenderBatchKeeps ==
  ASSUME BatchInv, NEW b \in DOMAIN batch, renderBatch(b)
  PROVE  BatchInv'
<1> SUFFICES ASSUME known' = {}  PROVE BatchTypeOK' /\ RootOK(root', batch') /\ ~failed'
  BY BatchInvIs
<1> DEFINE element == <<b, renders + 1>>
           time == batch[b].expirationTime
           after == [batch EXCEPT ![b].children = element]
           u == Updated(root, element, time)
<1>1. /\ known' = known \cup Overtaken(time) /\ renders' = renders + 1
      /\ batch[b].defer /\ batch' = after /\ root' = u
      /\ clock' = clock /\ currentEventTime' = currentEventTime
      /\ lastUniqueAsyncExpiration' = lastUniqueAsyncExpiration
      /\ failed' = failed
  BY DEF renderBatch, NextElement, timeVars
<1>2. known = {} /\ root.finishedExpirationTime # time
  BY <1>1 DEF Overtaken
<1>3. BatchTypeOK /\ RootOK(root, batch) /\ ~failed
  BY <1>2, BatchInvIs
<1>4. /\ Sync \in Nat /\ Sync >= 1 /\ root \in RootRecord /\ batch \in Seq(BatchRecord)
      /\ renders \in Nat /\ Len(batch) \in Nat /\ b \in 1 .. Len(batch)
  BY <1>3, TypeFacts
<1>5. /\ element \in BatchElement /\ element[1] = b /\ element[1] \in 0 .. Len(batch)
      /\ element # NoElement
  BY <1>4 DEF BatchElement, NoElement, NoBatch
<1> HIDE DEF element
<1>6. /\ after \in Seq(BatchRecord) /\ Len(after) = Len(batch) /\ after[b].children = element
      /\ \A c \in 1 .. Len(batch) :
           /\ after[c].defer = batch[c].defer /\ after[c].next = batch[c].next
           /\ after[c].expirationTime = batch[c].expirationTime
           /\ c # b => after[c] = batch[c]
  <2>1. after = [batch EXCEPT ![b].children = element]
    OBVIOUS
  <2> HIDE DEF after
  <2> QED  BY <1>4, <1>5, <2>1, ChildrenRendered
<1> HIDE DEF after
<1>7. time \in 1 .. Sync
  <2>1. time \in 1 .. Sync - 1
    BY <1>4, OneBatchChanges
  <2> QED  BY <1>4, <2>1
<1>8. PICK L : IsBatchList(L, batch, root.firstBatch)
  BY <1>3 DEF RootOK
<1>9. IsBatchList(L, after, root.firstBatch)
  BY <1>6, <1>8, ListSame
<1>10. Deferred(after) = Deferred(batch) /\ b \in Deferred(batch)
  BY <1>1, <1>4, <1>6 DEF Deferred
<1>11. /\ UpdatesOK(root, batch) /\ Waiting(root, batch, Deferred(batch)) /\ ShownOK(root, batch)
       /\ PendingOK(root) /\ FinishedOK(root) /\ ChildrenOK(batch)
  BY <1>3 DEF RootOK, QueueOK
<1>12. /\ UpdatesOK(root, after) /\ ShownOK(root, after) /\ ChildrenOK(after)
       /\ Waiting(root, after, Deferred(batch) \ {b})
  <2>1. UpdatesOK(root, after)
    <3>1. \A c \in Deferred(batch) :
            /\ after[c].expirationTime = batch[c].expirationTime
            /\ batch[c].children # NoElement => after[c].children # NoElement
      BY <1>5, <1>6 DEF Deferred
    <3> QED  BY <1>6, <1>10, <1>11, <3>1 DEF UpdatesOK
  <2>2. ShownOK(root, after)
    BY <1>6, <1>10, <1>11 DEF ShownOK
  <2>3. ChildrenOK(after)
    <3> SUFFICES ASSUME NEW c \in 1 .. Len(batch)
                 PROVE  after[c].children = NoElement \/ after[c].children[1] = c
      BY <1>6 DEF ChildrenOK
    <3>1. c # b => after[c].children = batch[c].children
      BY <1>6
    <3> QED  BY <1>5, <1>6, <1>11, <3>1 DEF ChildrenOK
  <2>4. Waiting(root, after, Deferred(batch) \ {b})
    <3>1. \A c \in Deferred(batch) \ {b} : after[c].children = batch[c].children
      BY <1>6 DEF Deferred
    <3> QED  BY <1>11, <3>1 DEF Waiting
  <2> QED  BY <2>1, <2>2, <2>3, <2>4
<1>13. time = after[element[1]].expirationTime /\ after[element[1]].children # NoElement
  BY <1>4, <1>5, <1>6
<1> HIDE DEF time
<1>14. /\ UpdatesOK(u, after) /\ Waiting(u, after, (Deferred(batch) \ {b}) \cup {element[1]})
       /\ ShownOK(u, after) /\ PendingOK(u) /\ FinishedOK(u)
  BY <1>2, <1>4, <1>5, <1>6, <1>7, <1>11, <1>12, <1>13, UpdatedKeeps
<1>15. u \in RootRecord /\ u.firstBatch = root.firstBatch
  BY <1>4, <1>5, <1>7, UpdatedRoot
<1>16. QueueOK(u, after)
  BY <1>5, <1>10, <1>14 DEF QueueOK, Waiting
<1>17. RootOK(root', batch')
  BY <1>1, <1>9, <1>12, <1>14, <1>15, <1>16 DEF RootOK
<1>18. renders' \in Nat /\ Len(batch') = Len(batch)
  BY <1>1, <1>4, <1>6
<1> QED  BY <1>1, <1>3, <1>6, <1>15, <1>17, <1>18 DEF BatchTypeOK


\* Where a batch of this time is inserted: after the last one that is not of an earlier time.
LEMMA InsertionPoint ==
  ASSUME NEW L, NEW batches \in Seq(BatchRecord), NEW first, IsBatchList(L, batches, first),
         Sync \in Nat, NEW time \in Nat
  PROVE  LET before == SelectLastInSeq(L, LAMBDA c : batches[c].expirationTime >= time)
         IN  /\ before \in 0 .. Len(L)
             /\ before # 0 => batches[L[before]].expirationTime >= time
             /\ \A i \in 1 .. Len(L) : i > before => batches[L[i]].expirationTime < time
<1> DEFINE I == {i \in 1 .. Len(L) : batches[L[i]].expirationTime >= time}
           before == IF I = {} THEN 0 ELSE Max(I)
<1>1. Len(L) \in Nat /\ I \subseteq 0 .. Len(L)
  BY ListFacts
<1>2. \A i \in 1 .. Len(L) : batches[L[i]].expirationTime \in Nat
  <2> SUFFICES ASSUME NEW i \in 1 .. Len(L)  PROVE batches[L[i]].expirationTime \in Nat
    OBVIOUS
  <2>1. L[i] \in 1 .. Len(batches)
    BY ListFacts
  <2>2. batches[L[i]].expirationTime \in 1 .. Sync - 1
    BY <2>1, ListFacts
  <2> QED  BY <2>2
<1>3. SelectLastInSeq(L, LAMBDA c : batches[c].expirationTime >= time) = before
  BY DEF SelectLastInSeq
<1>4. I # {} => Max(I) \in I /\ \A j \in I : Max(I) >= j
  BY <1>1, MaxOfBounded
<1>5. before \in 0 .. Len(L) /\ (before # 0 => batches[L[before]].expirationTime >= time)
  BY <1>1, <1>4
<1>6. \A i \in 1 .. Len(L) : i > before => batches[L[i]].expirationTime < time
  <2> SUFFICES ASSUME NEW i \in 1 .. Len(L), i > before, ~(batches[L[i]].expirationTime < time)
               PROVE  FALSE
    OBVIOUS
  <2>1. i \in I
    BY <1>2
  <2>2. Max(I) >= i
    BY <1>4, <2>1
  <2>3. before = Max(I) /\ before \in Nat
    BY <1>1, <1>5, <2>1
  <2> QED  BY <2>2, <2>3
<1> HIDE DEF before
<1> QED  BY <1>3, <1>5, <1>6

\* A batch that joins the others, and the link that changes with it.
LEMMA BatchAppended ==
  ASSUME NEW batches \in Seq(BatchRecord), Sync \in Nat,
         NEW time \in 1 .. Sync - 1, NEW next \in Nat,
         NEW new, new = [expirationTime |-> time, next |-> next, defer |-> TRUE,
                         children |-> NoElement],
         NEW after, after = Append(batches, new)
  PROVE  /\ after \in Seq(BatchRecord) /\ Len(after) = Len(batches) + 1
         /\ after[Len(batches) + 1] = new
         /\ \A c \in 1 .. Len(batches) : after[c] = batches[c]
<1>1. new \in BatchRecord
  BY DEF BatchRecord, BatchElement, NoElement, NoBatch
<1> QED  BY <1>1, AppendProperties

Linked(batches, b, next) == [batches EXCEPT ![b].next = next]

LEMMA LinkChanged ==
  ASSUME NEW batches \in Seq(BatchRecord), NEW b \in 1 .. Len(batches), Sync \in Nat,
         NEW next \in Nat, NEW after, after = Linked(batches, b, next)
  PROVE  /\ after \in Seq(BatchRecord) /\ Len(after) = Len(batches)
         /\ after[b].next = next
         /\ \A c \in 1 .. Len(batches) :
              /\ after[c].expirationTime = batches[c].expirationTime
              /\ after[c].children = batches[c].children /\ after[c].defer = batches[c].defer
              /\ c # b => after[c] = batches[c]
<1> DEFINE e == [batches[b] EXCEPT !.next = next]
<1>1. batches[b] \in BatchRecord
  BY OneBatchChanges
<1>2. /\ e \in BatchRecord /\ e.expirationTime = batches[b].expirationTime
      /\ e.children = batches[b].children /\ e.defer = batches[b].defer /\ e.next = next
  BY <1>1 DEF BatchRecord
<1>3. after = [batches EXCEPT ![b] = e]
  BY DEF Linked
<1> HIDE DEF e
<1>4. /\ [batches EXCEPT ![b] = e] \in Seq(BatchRecord)
      /\ Len([batches EXCEPT ![b] = e]) = Len(batches)
      /\ \A c \in 1 .. Len(batches) :
           [batches EXCEPT ![b] = e][c] = IF c = b THEN e ELSE batches[c]
  BY <1>2, OneBatchChanges
<1> QED  BY <1>2, <1>3, <1>4

LEMMA CreateBatchKeeps == BatchInv /\ createBatch => BatchInv'
<1> SUFFICES ASSUME BatchInv, createBatch, known' = {}
             PROVE  BatchTypeOK' /\ RootOK(root', batch') /\ ~failed'
  BY BatchInvIs
<1> DEFINE time == computeUniqueAsyncExpiration(lastUniqueAsyncExpiration)
           b == Len(batch) + 1
           before == SelectLastInSeq(List, LAMBDA c : batch[c].expirationTime >= time)
           new(next) == [expirationTime |-> time, next |-> next, defer |-> TRUE,
                         children |-> NoElement]
<1>1. /\ Len(batch) < MaxBatch /\ lastUniqueAsyncExpiration' = time
      /\ known' = known \cup (IF \E c \in DOMAIN batch : batch[c].expirationTime = time
                              THEN {"sharedTime"} ELSE {})
                        \cup (IF List # <<>> /\ before = 0 THEN {"beforeFirst"} ELSE {})
  BY DEF createBatch
<1>2. /\ batch' = IF List = <<>> \/ before = 0 THEN Append(batch, new(root.firstBatch))
                  ELSE Append([batch EXCEPT ![List[before]].next = b],
                              new(batch[List[before]].next))
      /\ root' = IF List = <<>> THEN [root EXCEPT !.firstBatch = b] ELSE root
      /\ clock' = clock /\ currentEventTime' = currentEventTime
      /\ renders' = renders /\ failed' = failed
  BY DEF createBatch, timeVars
<1>3. /\ known = {} /\ \A c \in DOMAIN batch : batch[c].expirationTime # time
      /\ List # <<>> => before # 0
  BY <1>1
<1>4. BatchTypeOK /\ RootOK(root, batch) /\ ~failed
  BY <1>3, BatchInvIs
<1>5. /\ Sync \in Nat /\ Sync >= 1 /\ root \in RootRecord /\ batch \in Seq(BatchRecord)
      /\ renders \in Nat /\ Len(batch) \in Nat /\ lastUniqueAsyncExpiration \in Nat
      /\ DOMAIN batch = 1 .. Len(batch) /\ Len(batch) <= MaxBatch /\ currentEventTime \in Now
  BY <1>4, TypeFacts
<1>6. time \in 1 .. Sync - 1
  BY <1>5, UniqueIsBelowSync
<1>7. PICK L : IsBatchList(L, batch, root.firstBatch)
  BY <1>4 DEF RootOK
<1>8. List = L
  BY <1>5, <1>7, ListFollows DEF List
<1>9. /\ before \in 0 .. Len(L)
      /\ before # 0 => batch[L[before]].expirationTime >= time
      /\ \A i \in 1 .. Len(L) : i > before => batch[L[i]].expirationTime < time
  <2>1. time \in Nat
    BY <1>5, <1>6
  <2> HIDE DEF time
  <2> QED  BY <1>5, <1>7, <1>8, <2>1, InsertionPoint
<1> HIDE DEF time, before
<1> DEFINE p == IF L = <<>> THEN 0 ELSE before
           next == IF p = Len(L) THEN NoBatch ELSE L[p + 1]
<1>10. /\ Len(L) \in Nat /\ \A i \in 1 .. Len(L) : L[i] \in 1 .. Len(batch) /\ L[i] # NoBatch
       /\ (L = <<>> <=> Len(L) = 0)
       /\ \A c \in 1 .. Len(batch) : /\ batch[c] \in BatchRecord
                                     /\ batch[c].expirationTime \in 1 .. Sync - 1
  BY <1>5, <1>7, ListFacts
<1>11. p \in 0 .. Len(L) /\ (p = 0 => L = <<>>)
  BY <1>3, <1>8, <1>9, <1>10
<1>12. next \in Nat
  BY <1>10, <1>11 DEF NoBatch
<1>13. L = <<>> => root.firstBatch = NoBatch /\ p = 0 /\ next = NoBatch
  BY <1>7, <1>10 DEF IsBatchList
<1>14. L # <<>> => p = before /\ batch[L[before]].next = next /\ p \in 1 .. Len(L)
  BY <1>7, <1>10, <1>11 DEF IsBatchList
<1> HIDE DEF next, p
<1>15. /\ batch' \in Seq(BatchRecord) /\ Len(batch') = b
       /\ batch'[b] = new(next)
       /\ \A c \in 1 .. Len(batch) :
            /\ batch'[c].defer = batch[c].defer
            /\ batch'[c].expirationTime = batch[c].expirationTime
            /\ batch'[c].children = batch[c].children
            /\ batch'[c].next = IF p > 0 /\ c = L[p] THEN b ELSE batch[c].next
  <2>1. CASE L = <<>>
    <3>1. batch' = Append(batch, new(next))
      BY <1>2, <1>8, <1>13, <2>1
    <3>2. /\ batch' \in Seq(BatchRecord) /\ Len(batch') = Len(batch) + 1
          /\ batch'[Len(batch) + 1] = new(next)
          /\ \A c \in 1 .. Len(batch) : batch'[c] = batch[c]
      BY <1>5, <1>6, <1>12, <3>1, BatchAppended
    <3> QED  BY <1>5, <1>13, <2>1, <3>2
  <2>2. CASE L # <<>>
    <3> DEFINE linked == [batch EXCEPT ![L[p]].next = b]
    <3>1. batch' = Append(linked, new(next))
      BY <1>2, <1>3, <1>8, <1>14, <2>2
    <3>2. linked = [batch EXCEPT ![L[p]].next = b] /\ b \in Nat /\ L[p] \in 1 .. Len(batch)
      BY <1>5, <1>10, <1>14, <2>2
    <3> HIDE DEF linked
    <3>3. /\ linked \in Seq(BatchRecord) /\ Len(linked) = Len(batch)
          /\ linked[L[p]].next = b
          /\ \A c \in 1 .. Len(batch) :
               /\ linked[c].expirationTime = batch[c].expirationTime
               /\ linked[c].children = batch[c].children /\ linked[c].defer = batch[c].defer
               /\ c # L[p] => linked[c] = batch[c]
      <4>1. PICK j \in 1 .. Len(batch), link \in Nat : j = L[p] /\ link = b
        BY <3>2
      <4>2. linked = Linked(batch, j, link)
        BY <3>2, <4>1 DEF Linked
      <4>3. Sync \in Nat /\ batch \in Seq(BatchRecord)
        BY <1>5
      <4>4. /\ linked \in Seq(BatchRecord) /\ Len(linked) = Len(batch)
            /\ linked[j].next = link
            /\ \A c \in 1 .. Len(batch) :
                 /\ linked[c].expirationTime = batch[c].expirationTime
                 /\ linked[c].children = batch[c].children /\ linked[c].defer = batch[c].defer
                 /\ c # j => linked[c] = batch[c]
        BY <4>2, <4>3, LinkChanged
      <4> QED  BY <4>1, <4>4
    <3>4. /\ batch' \in Seq(BatchRecord) /\ Len(batch') = Len(linked) + 1
          /\ batch'[Len(linked) + 1] = new(next)
          /\ \A c \in 1 .. Len(linked) : batch'[c] = linked[c]
      <4>1. PICK entry : entry = new(next)
        OBVIOUS
      <4>2. entry = [expirationTime |-> time, next |-> next, defer |-> TRUE,
                     children |-> NoElement]
        BY <4>1
      <4>3. batch' = Append(linked, entry)
        BY <3>1, <4>1
      <4>4. Sync \in Nat /\ linked \in Seq(BatchRecord)
        BY <1>5, <3>3
      <4> HIDE DEF new
      <4>5. /\ batch' \in Seq(BatchRecord) /\ Len(batch') = Len(linked) + 1
            /\ batch'[Len(linked) + 1] = entry
            /\ \A c \in 1 .. Len(linked) : batch'[c] = linked[c]
        BY <1>6, <1>12, <4>2, <4>3, <4>4, BatchAppended
      <4> QED  BY <4>1, <4>5
    <3>5. p > 0
      BY <1>10, <1>14, <2>2
    <3> QED  BY <3>3, <3>4, <3>5
  <2> QED  BY <2>1, <2>2
<1>16. /\ batch'[b].defer /\ batch'[b].next = next /\ batch'[b].expirationTime = time
       /\ batch'[b].children = NoElement
  BY <1>15
<1>17. \A i \in 1 .. Len(L) :
         IF i <= p THEN batch[L[i]].expirationTime > batch'[b].expirationTime
         ELSE batch'[b].expirationTime > batch[L[i]].expirationTime
  <2> SUFFICES ASSUME NEW i \in 1 .. Len(L)
               PROVE  IF i <= p THEN batch[L[i]].expirationTime > time
                      ELSE time > batch[L[i]].expirationTime
    BY <1>16
  <2>1. L # <<>> /\ p = before /\ p \in 1 .. Len(L) /\ p # 0
    BY <1>10, <1>14
  <2>2. /\ batch[L[i]].expirationTime \in Nat /\ batch[L[p]].expirationTime \in Nat
        /\ batch[L[i]].expirationTime # time
    BY <1>3, <1>5, <1>10, <2>1
  <2>3. batch[L[p]].expirationTime >= time
    BY <1>9, <2>1
  <2>4. CASE i <= p
    <3>1. i < p => batch[L[i]].expirationTime > batch[L[p]].expirationTime
      BY <1>7, <2>1 DEF IsBatchList
    <3> QED  BY <1>5, <1>6, <1>10, <2>1, <2>2, <2>3, <2>4, <3>1
  <2>5. CASE ~(i <= p)
    <3>1. batch[L[i]].expirationTime < time
      BY <1>9, <1>10, <2>1, <2>5
    <3> QED  BY <1>5, <1>6, <2>2, <2>5, <3>1
  <2> QED  BY <2>4, <2>5
<1>18. \E M : IsBatchList(M, batch', IF L = <<>> THEN b ELSE root.firstBatch)
  <2> DEFINE after == batch'
  <2>1. /\ after \in Seq(BatchRecord) /\ b = Len(batch) + 1 /\ Len(after) = b
        /\ after[b].defer /\ after[b].next = IF p = Len(L) THEN NoBatch ELSE L[p + 1]
    BY <1>15, <1>16 DEF next
  <2>2. \A c \in 1 .. Len(batch) :
          /\ after[c].defer = batch[c].defer
          /\ after[c].expirationTime = batch[c].expirationTime
          /\ after[c].next = IF p > 0 /\ c = L[p] THEN b ELSE batch[c].next
    BY <1>15
  <2>3. \A i \in 1 .. Len(L) :
          IF i <= p THEN batch[L[i]].expirationTime > after[b].expirationTime
          ELSE after[b].expirationTime > batch[L[i]].expirationTime
    BY <1>17
  <2> HIDE DEF after, b
  <2> QED  BY <1>5, <1>7, <1>11, <2>1, <2>2, <2>3, ListInserts, ZenonT(30) DEF after
<1>19. /\ root' \in RootRecord /\ root'.firstBatch = IF L = <<>> THEN b ELSE root.firstBatch
       /\ root'.queue = root.queue /\ root'.shown = root.shown
       /\ root'.callbackExpirationTime = root.callbackExpirationTime
       /\ root'.finishedExpirationTime = root.finishedExpirationTime
       /\ root'.rendered = root.rendered
  <2>1. b \in Nat
    BY <1>5
  <2> HIDE DEF b
  <2>2. CASE L = <<>>
    <3>1. root' = [root EXCEPT !.firstBatch = b]
      BY <1>2, <1>8, <2>2
    <3> QED  BY <1>5, <2>1, <2>2, <3>1 DEF RootRecord
  <2>3. CASE L # <<>>
    BY <1>2, <1>5, <1>8, <2>3
  <2> QED  BY <2>2, <2>3
<1>20. /\ UpdatesOK(root, batch) /\ Waiting(root, batch, Deferred(batch)) /\ ShownOK(root, batch)
       /\ PendingOK(root) /\ FinishedOK(root) /\ ChildrenOK(batch)
  BY <1>4 DEF RootOK, QueueOK
<1>21. QueueOK(root', batch')
  <2>1. \A c \in 1 .. Len(batch) : batch'[c].defer =>
          /\ batch[c].defer
          /\ batch'[c].expirationTime = batch[c].expirationTime
          /\ batch'[c].children = batch[c].children
    BY <1>15
  <2>2. Len(batch) <= Len(batch')
        /\ \A c \in Len(batch) + 1 .. Len(batch') : batch'[c].children = NoElement
    BY <1>5, <1>15, <1>16
  <2>3. /\ UpdatesOK(root, batch') /\ ShownOK(root, batch')
        /\ Waiting(root, batch', Deferred(batch'))
    BY <1>5, <1>15, <1>20, <2>1, <2>2, BatchesChange
  <2> QED  BY <1>19, <2>3, SameQueue DEF QueueOK, ShownOK
<1>22. ChildrenOK(batch')
  BY <1>5, <1>15, <1>16, <1>20 DEF ChildrenOK
<1>23. PendingOK(root')
  <2>1. pendingTime(root') = pendingTime(root)
    BY <1>19, PendingOfQueue
  <2>2. root.firstBatch # NoBatch => root'.firstBatch # NoBatch
    BY <1>13, <1>19
  <2> QED  BY <1>19, <1>20, <2>1, <2>2 DEF PendingOK
<1>24. FinishedOK(root')
  BY <1>19, <1>20 DEF FinishedOK, ShowsSome
<1>25. RootOK(root', batch')
  BY <1>18, <1>19, <1>21, <1>22, <1>23, <1>24 DEF RootOK
<1>26. Len(batch') <= MaxBatch /\ lastUniqueAsyncExpiration' \in Nat
  BY <1>1, <1>5, <1>6, <1>15, ReactBatchAssumption
<1> QED  BY <1>2, <1>4, <1>15, <1>19, <1>25, <1>26 DEF BatchTypeOK


\* After the flush the batch is no longer linked to the others.
LEMMA FlushedRootOK ==
  ASSUME NEW r \in RootRecord, NEW open \in Seq(BatchRecord), NEW b \in 1 .. Len(open),
         Sync \in Nat, NEW time \in 1 .. Sync, NEW next \in Nat,
         r.firstBatch = b, ~open[b].defer, ChildrenOK(open), UpdatesOK(r, open),
         Waiting(r, open, Deferred(open) \ {next}),
         clock \in Now, Below(Deferred(open) \ {next}, open, CommitTime(r, time, Synchronously)),
         pendingTime(r) >= time, r.finishedExpirationTime = time => ShowsSome(r, time),
         \/ Below(Deferred(open), open, CommitTime(r, time, Synchronously))
         \/ /\ r.finishedExpirationTime # time /\ r.queue[Len(r.queue)].time >= time
            /\ r.queue[Len(r.queue)].element[1] = b,
         NEW after, after = Unlinked(open, b),
         NEW M, IsBatchList(M, after, next)
  PROVE  LET x == FlushedRoot(r, open, time, next)
         IN  /\ x \in RootRecord /\ RootOK(x, after)
             /\ r.finishedExpirationTime # time /\ r.queue[Len(r.queue)].time >= time =>
                  x.shown = r.queue[Len(r.queue)].element
<1> DEFINE x == FlushedRoot(r, open, time, next)
           some == Deferred(open) \ {next}
<1> HIDE DEF x
<1>1. /\ after \in Seq(BatchRecord) /\ Len(after) = Len(open) /\ ~after[b].defer
      /\ \A c \in 1 .. Len(open) : c # b => after[c] = open[c]
      /\ after[b].children = open[b].children
  <2>1. after = Unlinked(open, b) /\ b \in 1 .. Len(open) /\ Sync \in Nat /\ ~open[b].defer
    OBVIOUS
  <2>2. /\ after \in Seq(BatchRecord) /\ Len(after) = Len(open)
        /\ after[b].expirationTime = open[b].expirationTime
        /\ after[b].children = open[b].children /\ after[b].defer = open[b].defer
        /\ \A c \in 1 .. Len(open) : c # b => after[c] = open[c]
    BY <2>1, BatchUnlinked
  <2> QED  BY <2>1, <2>2
<1>2. Len(open) \in Nat
  BY LenProperties
<1>3. Deferred(after) = Deferred(open)
  BY <1>1 DEF Deferred
<1>4. next # NoBatch => next \in Deferred(open)
  BY <1>1, <1>3, FirstIsLatest
<1>5. some = Deferred(open) \ {next} /\ Waiting(r, open, some)
      /\ Below(some, open, CommitTime(r, time, Synchronously))
  OBVIOUS
<1> HIDE DEF some
<1>6. /\ x \in RootRecord /\ QueueOK(x, open) /\ x.firstBatch = next
      /\ FinishedOK(x) /\ PendingOK(x)
      /\ r.finishedExpirationTime # time /\ r.queue[Len(r.queue)].time >= time =>
           x.shown = r.queue[Len(r.queue)].element
  BY <1>4, <1>5, FlushedKeeps DEF x
<1>7. QueueOK(x, after)
  <2>1. \A c \in 1 .. Len(open) : after[c].defer =>
          /\ open[c].defer
          /\ after[c].expirationTime = open[c].expirationTime
          /\ after[c].children = open[c].children
    <3> SUFFICES ASSUME NEW c \in 1 .. Len(open), after[c].defer
                 PROVE  after[c] = open[c]
      OBVIOUS
    <3> QED  BY <1>1
  <2>2. Len(open) <= Len(after)
        /\ \A c \in Len(open) + 1 .. Len(after) : after[c].children = NoElement
    BY <1>1, <1>2
  <2>3. UpdatesOK(x, open) /\ ShownOK(x, open) /\ Waiting(x, open, Deferred(open))
    BY <1>6 DEF QueueOK
  <2>4. UpdatesOK(x, after) /\ ShownOK(x, after) /\ Waiting(x, after, Deferred(after))
    BY <1>1, <1>6, <2>1, <2>2, <2>3, BatchesChange
  <2> QED  BY <2>4 DEF QueueOK
<1>8. ChildrenOK(after)
  BY <1>1 DEF ChildrenOK
<1> QED  BY <1>6, <1>7, <1>8 DEF RootOK, x

LEMMA CommitFirstBatchKeeps ==
  ASSUME BatchInv, NEW b \in DOMAIN batch, commitFirstBatch(b)
  PROVE  BatchInv'
<1> SUFFICES ASSUME known' = {}  PROVE BatchTypeOK' /\ RootOK(root', batch') /\ ~failed'
  BY BatchInvIs
<1> DEFINE open == Opened(batch, b)
           time == batch[b].expirationTime
           next == batch[b].next
           after == Unlinked(open, b)
           at == CommitTime(root, time, Synchronously)
<1>1. /\ batch[b].defer /\ hasChildren(b) /\ root.firstBatch = b /\ Flushed(root, batch, b)
      /\ clock' = clock /\ currentEventTime' = currentEventTime
      /\ lastUniqueAsyncExpiration' = lastUniqueAsyncExpiration
      /\ renders' = renders /\ known' = known \cup Expired(root, batch, b) /\ failed' = failed
  BY DEF commitFirstBatch, timeVars
<1>2. BatchTypeOK /\ RootOK(root, batch) /\ ~failed /\ Expired(root, batch, b) = {}
  BY <1>1, BatchInvIs
<1>3. /\ Sync \in Nat /\ clock \in Now /\ Sync >= 1
      /\ root \in RootRecord /\ batch \in Seq(BatchRecord)
      /\ Len(batch) \in Nat /\ b \in 1 .. Len(batch) /\ Len(batch) <= MaxBatch
  BY <1>2, TypeFacts
<1>4. open = Opened(batch, b)
  OBVIOUS
<1> HIDE DEF open
<1>5. /\ open \in Seq(BatchRecord) /\ Len(open) = Len(batch)
      /\ open[b].expirationTime = batch[b].expirationTime
      /\ open[b].next = batch[b].next /\ open[b].children = batch[b].children
      /\ ~open[b].defer
      /\ \A c \in 1 .. Len(batch) : c # b => open[c] = batch[c]
  BY <1>3, <1>4, BatchOpened
<1>6. batch' = after /\ root' = FlushedRoot(root, open, time, next)
  <2>1. /\ batch' = after
        /\ root' = IF open[b].next # NoBatch /\ open[open[b].next].children # NoElement
                   THEN Updated([RootRendered(root, open, open[b].expirationTime, Synchronously)
                                   EXCEPT !.firstBatch = open[b].next],
                                open[open[b].next].children, open[open[b].next].expirationTime)
                   ELSE [RootRendered(root, open, open[b].expirationTime, Synchronously)
                           EXCEPT !.firstBatch = open[b].next]
    BY <1>1 DEF Flushed, open, Opened, Unlinked, Synchronously
  <2> QED  BY <1>5, <2>1 DEF FlushedRoot
<1>7. time \in 1 .. Sync - 1 /\ time \in 1 .. Sync /\ next \in Nat
  <2>1. time \in 1 .. Sync - 1 /\ next \in Nat
    BY <1>3, OneBatchChanges
  <2> QED  BY <1>3, <2>1
<1>8. PICK L : IsBatchList(L, batch, root.firstBatch)
  BY <1>2 DEF RootOK
<1>9. /\ Len(L) \in Nat /\ (L = <<>> <=> Len(L) = 0)
      /\ \A i \in 1 .. Len(L) : L[i] \in 1 .. Len(batch)
  BY <1>3, <1>8, ListFacts
<1>10. L # <<>> /\ L[1] = b /\ 1 \in 1 .. Len(L)
  <2>1. L # <<>>
    BY <1>1, <1>3, <1>8 DEF IsBatchList, NoBatch
  <2> QED  BY <1>1, <1>8, <1>9, <2>1 DEF IsBatchList
<1>11. after = Unlinked(open, b)
  OBVIOUS
<1> HIDE DEF after
<1>12. /\ after \in Seq(BatchRecord) /\ Len(after) = Len(batch) /\ ~after[b].defer
       /\ \A c \in 1 .. Len(batch) : c # b => after[c] = batch[c]
  <2>1. /\ after \in Seq(BatchRecord) /\ Len(after) = Len(open) /\ after[b].defer = open[b].defer
        /\ \A c \in 1 .. Len(open) : c # b => after[c] = open[c]
    <3>1. Sync \in Nat /\ open \in Seq(BatchRecord) /\ b \in 1 .. Len(open)
      BY <1>3, <1>5
    <3> QED  BY <1>11, <3>1, BatchUnlinked
  <2> QED  BY <1>5, <2>1
<1>13. \E M : IsBatchList(M, after, next)
  <2>1. \A c \in 1 .. Len(batch) : c # L[1] =>
          /\ after[c].defer = batch[c].defer
          /\ after[c].expirationTime = batch[c].expirationTime
          /\ after[c].next = IF 1 > 1 /\ c = L[1 - 1] THEN batch[L[1]].next ELSE batch[c].next
    BY <1>10, <1>12
  <2>2. \E M : IsBatchList(M, after, IF 1 = 1 THEN batch[L[1]].next ELSE root.firstBatch)
    BY <1>3, <1>8, <1>10, <1>12, <2>1, ListRemoves
  <2> QED  BY <1>10, <2>2
<1>14. Deferred(open) = Deferred(batch) \ {b} /\ b \in Deferred(batch)
  BY <1>1, <1>3, <1>5 DEF Deferred
<1>15. \A c \in Deferred(open) : c \in Deferred(batch) \ {b} /\ open[c] = batch[c]
                                 /\ open[c].expirationTime < time
  <2> SUFFICES ASSUME NEW c \in Deferred(open)
               PROVE  c \in Deferred(batch) \ {b} /\ open[c] = batch[c]
                      /\ open[c].expirationTime < time
    OBVIOUS
  <2>1. c \in Deferred(batch) /\ c # b /\ c \in 1 .. Len(batch)
    BY <1>14 DEF Deferred
  <2>2. batch[c].expirationTime < batch[b].expirationTime
    BY <1>1, <1>3, <1>8, <2>1, FirstIsLatest
  <2> QED  BY <1>5, <1>14, <2>1, <2>2
<1>16. /\ UpdatesOK(root, batch) /\ Waiting(root, batch, Deferred(batch)) /\ ShownOK(root, batch)
       /\ PendingOK(root) /\ FinishedOK(root) /\ ChildrenOK(batch)
  BY <1>2 DEF RootOK, QueueOK
<1>17. ChildrenOK(open)
  BY <1>5, <1>16 DEF ChildrenOK
<1>18. UpdatesOK(root, open) /\ Waiting(root, open, Deferred(open))
  <2>1. \A c \in 1 .. Len(batch) : open[c].defer =>
          /\ batch[c].defer
          /\ open[c].expirationTime = batch[c].expirationTime
          /\ open[c].children = batch[c].children
    <3> SUFFICES ASSUME NEW c \in 1 .. Len(batch), open[c].defer
                 PROVE  open[c] = batch[c]
      OBVIOUS
    <3> QED  BY <1>5
  <2>2. Len(batch) <= Len(open)
        /\ \A c \in Len(batch) + 1 .. Len(open) : open[c].children = NoElement
    BY <1>3, <1>5
  <2> QED  BY <1>3, <1>5, <1>16, <2>1, <2>2, BatchesChange
<1>19. pendingTime(root) >= time
  <2>1. PICK i \in 1 .. Len(root.queue) : root.queue[i].element[1] = b /\ ~root.queue[i].applied
    BY <1>1, <1>14, <1>16 DEF Waiting, hasChildren
  <2>2. root.queue[i].time = time
    BY <1>14, <1>16, <2>1 DEF UpdatesOK
  <2>3. root.queue[i].time <= pendingTime(root) /\ pendingTime(root) \in 0 .. Sync
    BY <1>3, <2>1, PendingIsGreatest
  <2> QED  BY <1>7, <2>2, <2>3
<1>20. root.finishedExpirationTime = time => ShowsSome(root, time)
  BY <1>7, <1>16 DEF FinishedOK, NoTime
<1>21. at \in 1 .. Sync /\ at <= time /\ at = CommitTime(root, time, Synchronously)
  BY <1>3, <1>7, CommitTimeIs
<1>22. Below(Deferred(open), open, at)
  <2>1. CASE at = time
    BY <1>15, <2>1 DEF Below
  <2>2. CASE at # time
    <3>1. \A c \in Deferred(batch) \ {b} : hasChildren(c) => batch[c].expirationTime < at
      BY <1>2, <1>3, <1>19, <2>2, NotExpired
    <3> QED  BY <1>15, <3>1 DEF Below, hasChildren
  <2> QED  BY <2>1, <2>2
<1> HIDE DEF time, next
<1>23. Waiting(root, open, Deferred(open) \ {next}) /\ Below(Deferred(open) \ {next}, open, at)
  BY <1>18, <1>22 DEF Waiting, Below
<1>24. root' \in RootRecord /\ RootOK(root', after)
  <2>1. PICK M : IsBatchList(M, after, next)
    BY <1>13
  <2>2. b \in 1 .. Len(open)
    BY <1>3, <1>5
  <2>3. LET x == FlushedRoot(root, open, time, next)
        IN  x \in RootRecord /\ RootOK(x, after)
    BY <1>1, <1>3, <1>5, <1>7, <1>11, <1>17, <1>18, <1>19, <1>20, <1>21, <1>22, <1>23, <2>1,
       <2>2, FlushedRootOK
  <2> QED  BY <1>6, <2>3
<1> QED  BY <1>1, <1>2, <1>6, <1>12, <1>24 DEF BatchTypeOK
-----------------------------------------------------------------------------
\* A batch that is moved to the front of the list: q was in front of it.
MovedBatches(batches, b, q, time, first) ==
  [batches EXCEPT ![b].expirationTime = time, ![q].next = batches[b].next, ![b].next = first]

Timed(batches, b, time) == [batches EXCEPT ![b].expirationTime = time]

LEMMA TimeChanged ==
  ASSUME NEW batches \in Seq(BatchRecord), NEW b \in 1 .. Len(batches), Sync \in Nat,
         NEW time \in 1 .. Sync - 1, NEW after, after = Timed(batches, b, time)
  PROVE  /\ after \in Seq(BatchRecord) /\ Len(after) = Len(batches)
         /\ after[b].expirationTime = time
         /\ after[b].children = batches[b].children /\ after[b].defer = batches[b].defer
         /\ after[b].next = batches[b].next
         /\ \A c \in 1 .. Len(batches) : c # b => after[c] = batches[c]
<1> DEFINE e == [batches[b] EXCEPT !.expirationTime = time]
<1>1. batches[b] \in BatchRecord
  BY OneBatchChanges
<1>2. /\ e \in BatchRecord /\ e.next = batches[b].next
      /\ e.children = batches[b].children /\ e.defer = batches[b].defer /\ e.expirationTime = time
  BY <1>1 DEF BatchRecord
<1>3. after = [batches EXCEPT ![b] = e]
  BY DEF Timed
<1> HIDE DEF e
<1>4. /\ [batches EXCEPT ![b] = e] \in Seq(BatchRecord)
      /\ Len([batches EXCEPT ![b] = e]) = Len(batches)
      /\ \A c \in 1 .. Len(batches) :
           [batches EXCEPT ![b] = e][c] = IF c = b THEN e ELSE batches[c]
  BY <1>2, OneBatchChanges
<1> QED  BY <1>2, <1>3, <1>4

LEMMA BatchMoved ==
  ASSUME NEW batches \in Seq(BatchRecord), NEW b \in 1 .. Len(batches), Sync \in Nat,
         NEW q \in 1 .. Len(batches), q # b, NEW time \in 1 .. Sync - 1, NEW first \in Nat
  PROVE  LET moved == MovedBatches(batches, b, q, time, first)
         IN  /\ moved \in Seq(BatchRecord) /\ Len(moved) = Len(batches)
             /\ moved[b].expirationTime = time /\ moved[b].next = first
             /\ moved[b].children = batches[b].children /\ moved[b].defer = batches[b].defer
             /\ \A c \in 1 .. Len(batches) : c # b =>
                  /\ moved[c].expirationTime = batches[c].expirationTime
                  /\ moved[c].children = batches[c].children /\ moved[c].defer = batches[c].defer
                  /\ moved[c].next = IF c = q THEN batches[b].next ELSE batches[c].next
<1> DEFINE moved == MovedBatches(batches, b, q, time, first)
<1>1. PICK timed : timed = Timed(batches, b, time)
  OBVIOUS
<1>2. /\ timed \in Seq(BatchRecord) /\ Len(timed) = Len(batches)
      /\ timed[b].expirationTime = time
      /\ timed[b].children = batches[b].children /\ timed[b].defer = batches[b].defer
      /\ timed[b].next = batches[b].next
      /\ \A c \in 1 .. Len(batches) : c # b => timed[c] = batches[c]
  BY <1>1, TimeChanged
<1>3. PICK next \in Nat : next = batches[b].next
  BY OneBatchChanges
<1>4. PICK linked : linked = Linked(timed, q, next)
  OBVIOUS
<1>5. b \in 1 .. Len(timed) /\ q \in 1 .. Len(timed)
  BY <1>2
<1>6. /\ linked \in Seq(BatchRecord) /\ Len(linked) = Len(timed)
      /\ linked[q].next = next
      /\ \A c \in 1 .. Len(timed) :
           /\ linked[c].expirationTime = timed[c].expirationTime
           /\ linked[c].children = timed[c].children /\ linked[c].defer = timed[c].defer
           /\ c # q => linked[c] = timed[c]
  BY <1>2, <1>4, <1>5, LinkChanged
<1>7. moved = Linked(linked, b, first)
  BY <1>1, <1>3, <1>4 DEF MovedBatches, Timed, Linked
<1> HIDE DEF moved
<1>8. b \in 1 .. Len(linked)
  BY <1>5, <1>6
<1>9. /\ moved \in Seq(BatchRecord) /\ Len(moved) = Len(linked)
      /\ moved[b].next = first
      /\ \A c \in 1 .. Len(linked) :
           /\ moved[c].expirationTime = linked[c].expirationTime
           /\ moved[c].children = linked[c].children /\ moved[c].defer = linked[c].defer
           /\ c # b => moved[c] = linked[c]
  BY <1>6, <1>7, <1>8, LinkChanged
<1>10. /\ moved \in Seq(BatchRecord) /\ Len(moved) = Len(batches) /\ moved[b].next = first
       /\ moved[b].expirationTime = time
       /\ moved[b].children = batches[b].children /\ moved[b].defer = batches[b].defer
  BY <1>2, <1>5, <1>6, <1>9
<1>11. ASSUME NEW c \in 1 .. Len(batches), c # b
       PROVE  /\ moved[c].expirationTime = batches[c].expirationTime
              /\ moved[c].children = batches[c].children /\ moved[c].defer = batches[c].defer
              /\ moved[c].next = IF c = q THEN batches[b].next ELSE batches[c].next
  <2>1. timed[c] = batches[c] /\ c \in 1 .. Len(timed) /\ c \in 1 .. Len(linked)
    BY <1>2, <1>6, <1>11
  <2>2. moved[c] = linked[c]
    BY <1>9, <1>11, <2>1
  <2>3. c # q => linked[c] = timed[c]
    BY <1>6, <2>1
  <2> QED  BY <1>3, <1>6, <2>1, <2>2, <2>3
<1> QED  BY <1>10, <1>11 DEF moved


\* The batch in front of another one, as the search of commit finds it.
Previous(l, b) == l[CHOOSE i \in DOMAIN l : i < Len(l) /\ l[i + 1] = b]

LEMMA PreviousFound ==
  ASSUME NEW L \in Seq(Nat), NEW p \in 1 .. Len(L), p > 1, NEW b, L[p] = b,
         \A i, j \in 1 .. Len(L) : L[i] = L[j] => i = j
  PROVE  Previous(L, b) = L[p - 1]
<1> DEFINE P(i) == i \in DOMAIN L /\ i < Len(L) /\ L[i + 1] = b
<1>1. DOMAIN L = 1 .. Len(L) /\ Len(L) \in Nat
  BY LenProperties
<1>2. P(p - 1)
  BY <1>1
<1>3. ASSUME NEW i, P(i)  PROVE i = p - 1
  <2>1. i + 1 \in 1 .. Len(L) /\ L[i + 1] = L[p]
    BY <1>1, <1>3
  <2> QED  BY <1>1, <1>3, <2>1
<1>4. (CHOOSE i : P(i)) = p - 1
  BY <1>2, <1>3
<1>5. (CHOOSE i : P(i)) = CHOOSE i \in DOMAIN L : i < Len(L) /\ L[i + 1] = b
  OBVIOUS
<1> QED  BY <1>4, <1>5 DEF Previous

UpdatedInFront(r, element, time, b) == [Updated(r, element, time) EXCEPT !.firstBatch = b]

\* What a commit of a later batch renders: the batches that are still deferred, less this one.
LEMMA OpenedLater ==
  ASSUME NEW r \in RootRecord, NEW batches \in Seq(BatchRecord), NEW open \in Seq(BatchRecord),
         Sync \in Nat, NEW b \in Deferred(batches), NEW time \in 1 .. Sync,
         Len(open) = Len(batches), ~open[b].defer,
         open[b].children = batches[b].children, batches[b].children # NoElement,
         \A c \in 1 .. Len(batches) : c # b =>
           /\ open[c].expirationTime = batches[c].expirationTime
           /\ open[c].children = batches[c].children /\ open[c].defer = batches[c].defer,
         QueueOK(r, batches), ChildrenOK(batches),
         NEW s, s = UpdatedInFront(r, batches[b].children, time, b)
  PROVE  /\ s \in RootRecord /\ s.firstBatch = b /\ Deferred(open) = Deferred(batches) \ {b}
         /\ ChildrenOK(open) /\ UpdatesOK(s, open) /\ Waiting(s, open, Deferred(open))
         /\ pendingTime(s) >= time /\ s.finishedExpirationTime = r.finishedExpirationTime
         /\ s.queue[Len(s.queue)].time = time
         /\ s.queue[Len(s.queue)].element = batches[b].children
         /\ batches[b].children[1] = b
<1> DEFINE element == batches[b].children
           u == Updated(r, element, time)
<1>1. b \in 1 .. Len(batches) /\ Len(batches) \in Nat /\ b \in Nat
  BY LenProperties DEF Deferred
<1>2. element \in BatchElement
  BY <1>1, OneBatchChanges
<1>3. element[1] = b
  BY <1>1 DEF ChildrenOK
<1> HIDE DEF element
<1>4. Deferred(open) = Deferred(batches) \ {b}
  BY <1>1 DEF Deferred
<1>5. /\ UpdatesOK(r, batches) /\ Waiting(r, batches, Deferred(batches))
  BY DEF QueueOK
<1>6. UpdatesOK(r, open) /\ Waiting(r, open, Deferred(open))
  <2>1. \A c \in Deferred(open) : /\ open[c].expirationTime = batches[c].expirationTime
                                  /\ open[c].children = batches[c].children
    BY <1>4 DEF Deferred
  <2>2. UpdatesOK(r, open)
    BY <1>4, <1>5, <2>1 DEF UpdatesOK
  <2>3. Waiting(r, open, Deferred(open))
    BY <1>4, <1>5, <2>1 DEF Waiting
  <2> QED  BY <2>2, <2>3
<1>7. ChildrenOK(open)
  <2> SUFFICES ASSUME NEW c \in 1 .. Len(open)
               PROVE  open[c].children = NoElement \/ open[c].children[1] = c
    BY DEF ChildrenOK
  <2>1. open[c].children = batches[c].children
    BY <1>1
  <2> QED  BY <2>1 DEF ChildrenOK
<1>8. element[1] \in 0 .. Len(open) /\ element[1] \notin Deferred(open)
  BY <1>1, <1>3, <1>4
<1>9. /\ UpdatesOK(u, open) /\ Waiting(u, open, Deferred(open) \cup {element[1]})
      /\ pendingTime(u) >= time
  BY <1>2, <1>6, <1>8, UpdatedKeeps
<1>10. /\ u \in RootRecord /\ u.finishedExpirationTime = r.finishedExpirationTime
       /\ Len(u.queue) = Len(r.queue) + 1
       /\ u.queue[Len(r.queue) + 1] = [time |-> time, element |-> element, applied |-> FALSE]
  BY <1>2, UpdatedRoot
<1> HIDE DEF u
<1>11. /\ s \in RootRecord /\ s.firstBatch = b /\ s.queue = u.queue
       /\ s.finishedExpirationTime = u.finishedExpirationTime
  <2>1. s = [u EXCEPT !.firstBatch = b]
    BY DEF UpdatedInFront, u, element
  <2> QED  BY <1>1, <1>10, <2>1 DEF RootRecord
<1>12. UpdatesOK(s, open) /\ Waiting(s, open, Deferred(open))
  <2>1. Waiting(u, open, Deferred(open))
    BY <1>9 DEF Waiting
  <2> QED  BY <1>9, <1>11, <2>1, SameQueue
<1>13. pendingTime(s) >= time
  BY <1>9, <1>11, PendingOfQueue
<1>14. s.queue[Len(s.queue)] = [time |-> time, element |-> element, applied |-> FALSE]
  BY <1>10, <1>11
<1> QED  BY <1>3, <1>4, <1>7, <1>10, <1>11, <1>12, <1>13, <1>14 DEF u, element

LEMMA CommitLaterBatchKeeps ==
  ASSUME BatchInv, NEW b \in DOMAIN batch, commitLaterBatch(b)
  PROVE  BatchInv'
<1> SUFFICES ASSUME known' = {}  PROVE BatchTypeOK' /\ RootOK(root', batch') /\ ~failed'
  BY BatchInvIs
<1> DEFINE first == root.firstBatch
           time == batch[first].expirationTime
           previous == Previous(List, b)
           moved == MovedBatches(batch, b, previous, time, first)
           open == Opened(moved, b)
           after == Unlinked(open, b)
           r == UpdatedInFront(root, batch[b].children, time, b)
           at == CommitTime(r, time, Synchronously)
<1>1. /\ batch[b].defer /\ batch[b].children # NoElement /\ b \in ToSet(List) \ {first}
      /\ Flushed(r, moved, b)
      /\ known' = known \cup Overtaken(time) \cup Expired(r, moved, b)
      /\ failed' = (failed \/ root'.shown # batch[b].children)
      /\ clock' = clock /\ currentEventTime' = currentEventTime
      /\ lastUniqueAsyncExpiration' = lastUniqueAsyncExpiration /\ renders' = renders
  BY DEF commitLaterBatch, timeVars, hasChildren, Moved, MovedBatches, UpdatedInFront, Previous
<1>2. known = {} /\ root.finishedExpirationTime # time /\ Expired(r, moved, b) = {}
  BY <1>1 DEF Overtaken
<1>3. BatchTypeOK /\ RootOK(root, batch) /\ ~failed
  BY <1>2, BatchInvIs
<1>4. /\ Sync \in Nat /\ clock \in Now /\ root \in RootRecord /\ batch \in Seq(BatchRecord)
      /\ Len(batch) \in Nat /\ b \in 1 .. Len(batch) /\ Len(batch) <= MaxBatch
  BY <1>3, TypeFacts
<1>5. PICK L : IsBatchList(L, batch, first)
  BY <1>3 DEF RootOK
<1>6. List = L
  BY <1>4, <1>5, ListFollows DEF List
<1>7. /\ L \in Seq(Nat) /\ Len(L) \in Nat /\ DOMAIN L = 1 .. Len(L) /\ (L = <<>> <=> Len(L) = 0)
      /\ \A i \in 1 .. Len(L) : L[i] \in 1 .. Len(batch) /\ L[i] # NoBatch
      /\ \A i, j \in 1 .. Len(L) : L[i] = L[j] => i = j
  <2>1. /\ L \in Seq(Nat) /\ (L = <<>> <=> Len(L) = 0)
        /\ \A i \in 1 .. Len(L) : L[i] \in 1 .. Len(batch) /\ L[i] # NoBatch
        /\ \A i, j \in 1 .. Len(L) : L[i] = L[j] => i = j
    BY <1>4, <1>5, ListFacts
  <2> QED  BY <2>1, LenProperties
<1>8. PICK p \in 1 .. Len(L) : L[p] = b
  <2>1. b \in ToSet(L)
    BY <1>1, <1>6
  <2> QED  BY <1>7, <2>1 DEF ToSet
<1>9. p > 1 /\ L # <<>> /\ first = L[1] /\ 1 \in 1 .. Len(L)
  <2>1. L # <<>> /\ 1 \in 1 .. Len(L)
    BY <1>7, <1>8
  <2>2. first = L[1]
    BY <1>5, <2>1 DEF IsBatchList
  <2> QED  BY <1>1, <1>7, <1>8, <2>1, <2>2
<1>10. previous = L[p - 1] /\ p - 1 \in 1 .. Len(L)
  <2>1. previous = Previous(L, b)
    BY <1>6
  <2>2. Previous(L, b) = L[p - 1]
    <3>1. /\ L \in Seq(Nat) /\ p > 1 /\ L[p] = b
          /\ \A i, j \in 1 .. Len(L) : L[i] = L[j] => i = j
      BY <1>7, <1>8, <1>9
    <3> HIDE DEF previous, time, first, moved, open, after, r, at
    <3> QED  BY <3>1, PreviousFound
  <2>3. p - 1 \in 1 .. Len(L)
    BY <1>7, <1>9
  <2> QED  BY <2>1, <2>2, <2>3
<1>11. previous \in 1 .. Len(batch) /\ previous # b
  <2>1. p - 1 # p
    BY <1>7
  <2> QED  BY <1>7, <1>8, <1>10, <2>1
<1>12. /\ first \in 1 .. Len(batch) /\ first \in Nat /\ first # NoBatch /\ first # b
       /\ time \in 1 .. Sync - 1 /\ time \in 1 .. Sync
  <2>1. first \in 1 .. Len(batch) /\ first # NoBatch
    BY <1>7, <1>9
  <2>2. time \in 1 .. Sync - 1
    BY <1>4, <2>1, OneBatchChanges
  <2> QED  BY <1>1, <1>4, <2>1, <2>2
<1>13. root' = FlushedRoot(r, open, time, first) /\ batch' = after
  <2>1. /\ moved[b].expirationTime = time /\ moved[b].next = first
        /\ moved \in Seq(BatchRecord) /\ Len(moved) = Len(batch)
    <3> HIDE DEF previous, time, first, moved
    <3>1. moved = MovedBatches(batch, b, previous, time, first)
      BY DEF moved
    <3> QED  BY <1>4, <1>11, <1>12, <3>1, BatchMoved
  <2> HIDE DEF moved, r
  <2>2. open[b].expirationTime = time /\ open[b].next = first
    <3>1. open = Opened(moved, b) /\ b \in 1 .. Len(moved)
      BY <1>4, <2>1
    <3> HIDE DEF open, time, first
    <3>2. open[b].expirationTime = moved[b].expirationTime /\ open[b].next = moved[b].next
      BY <1>4, <2>1, <3>1, BatchOpened
    <3> QED  BY <2>1, <3>2
  <2>3. /\ batch' = after
        /\ root' = IF open[b].next # NoBatch /\ open[open[b].next].children # NoElement
                   THEN Updated([RootRendered(r, open, open[b].expirationTime, Synchronously)
                                   EXCEPT !.firstBatch = open[b].next],
                                open[open[b].next].children, open[open[b].next].expirationTime)
                   ELSE [RootRendered(r, open, open[b].expirationTime, Synchronously)
                           EXCEPT !.firstBatch = open[b].next]
    BY <1>1 DEF Flushed, Opened, Unlinked, Synchronously
  <2> HIDE DEF open, time, first
  <2> QED  BY <2>2, <2>3 DEF FlushedRoot
<1> HIDE DEF previous, time, first
<1>14. /\ moved \in Seq(BatchRecord) /\ Len(moved) = Len(batch)
       /\ moved[b].expirationTime = time /\ moved[b].children = batch[b].children
       /\ \A c \in 1 .. Len(batch) : c # b =>
            /\ moved[c].expirationTime = batch[c].expirationTime
            /\ moved[c].children = batch[c].children /\ moved[c].defer = batch[c].defer
            /\ moved[c].next = IF c = previous THEN batch[b].next ELSE batch[c].next
  <2>1. moved = MovedBatches(batch, b, previous, time, first)
    OBVIOUS
  <2>2. /\ Sync \in Nat /\ batch \in Seq(BatchRecord) /\ b \in 1 .. Len(batch)
        /\ previous \in 1 .. Len(batch) /\ previous # b /\ time \in 1 .. Sync - 1 /\ first \in Nat
    BY <1>4, <1>11, <1>12
  <2> HIDE DEF moved, open, after, r, at
  <2> QED  BY <2>1, <2>2, BatchMoved, SMTT(20)
<1> HIDE DEF moved
<1>15. /\ open \in Seq(BatchRecord) /\ Len(open) = Len(batch) /\ ~open[b].defer
       /\ open[b].children = batch[b].children
       /\ \A c \in 1 .. Len(batch) : c # b => open[c] = moved[c]
  <2>1. open = Opened(moved, b) /\ b \in 1 .. Len(moved)
    BY <1>4, <1>14
  <2> HIDE DEF open
  <2>2. Sync \in Nat /\ moved \in Seq(BatchRecord)
    BY <1>4, <1>14
  <2>3. /\ open \in Seq(BatchRecord) /\ Len(open) = Len(moved) /\ ~open[b].defer
        /\ open[b].children = moved[b].children
        /\ \A c \in 1 .. Len(moved) : c # b => open[c] = moved[c]
    BY <2>1, <2>2, BatchOpened
  <2> QED  BY <1>14, <2>3
<1>16. b \in 1 .. Len(open)
  BY <1>4, <1>15
<1> HIDE DEF open
<1>17. /\ after \in Seq(BatchRecord) /\ Len(after) = Len(batch) /\ ~after[b].defer
       /\ \A c \in 1 .. Len(batch) : c # b => after[c] = moved[c]
       /\ after = Unlinked(open, b)
  <2>1. after = Unlinked(open, b)
    OBVIOUS
  <2> HIDE DEF after
  <2>2. /\ after \in Seq(BatchRecord) /\ Len(after) = Len(open) /\ after[b].defer = open[b].defer
        /\ \A c \in 1 .. Len(open) : c # b => after[c] = open[c]
    BY <1>4, <1>15, <1>16, <2>1, BatchUnlinked
  <2> QED  BY <1>15, <2>1, <2>2
<1> HIDE DEF after
<1>18. PICK M : IsBatchList(M, after, first)
  <2>1. \A c \in 1 .. Len(batch) : c # L[p] =>
          /\ after[c].defer = batch[c].defer
          /\ after[c].expirationTime = batch[c].expirationTime
          /\ after[c].next = IF p > 1 /\ c = L[p - 1] THEN batch[L[p]].next ELSE batch[c].next
    <3> SUFFICES ASSUME NEW c \in 1 .. Len(batch), c # b
                 PROVE  /\ after[c].defer = batch[c].defer
                        /\ after[c].expirationTime = batch[c].expirationTime
                        /\ after[c].next = IF c = previous THEN batch[b].next ELSE batch[c].next
      BY <1>8, <1>9, <1>10
    <3>1. after[c] = moved[c]
      BY <1>17
    <3> QED  BY <1>14, <3>1
  <2>2. ~after[L[p]].defer
    BY <1>8, <1>17
  <2>3. \E M : IsBatchList(M, after, IF p = 1 THEN batch[L[p]].next ELSE first)
    <3>1. Sync \in Nat /\ batch \in Seq(BatchRecord) /\ after \in Seq(BatchRecord)
          /\ Len(after) = Len(batch)
      BY <1>4, <1>17
    <3> QED  BY <1>5, <2>1, <2>2, <3>1, ListRemoves
  <2> QED  BY <1>9, <2>3
<1>19. b \in Deferred(batch)
  BY <1>1, <1>4 DEF Deferred
<1>20. QueueOK(root, batch) /\ ChildrenOK(batch)
  BY <1>3 DEF RootOK
<1>21. /\ r \in RootRecord /\ r.firstBatch = b /\ Deferred(open) = Deferred(batch) \ {b}
       /\ ChildrenOK(open) /\ UpdatesOK(r, open) /\ Waiting(r, open, Deferred(open))
       /\ pendingTime(r) >= time /\ r.finishedExpirationTime = root.finishedExpirationTime
       /\ r.queue[Len(r.queue)].time = time
       /\ r.queue[Len(r.queue)].element = batch[b].children
       /\ batch[b].children[1] = b
  <2>1. \A c \in 1 .. Len(batch) : c # b =>
          /\ open[c].expirationTime = batch[c].expirationTime
          /\ open[c].children = batch[c].children /\ open[c].defer = batch[c].defer
    BY <1>14, <1>15
  <2>2. r = UpdatedInFront(root, batch[b].children, time, b)
    OBVIOUS
  <2>3. /\ Sync \in Nat /\ root \in RootRecord /\ batch \in Seq(BatchRecord)
        /\ open \in Seq(BatchRecord) /\ Len(open) = Len(batch) /\ ~open[b].defer
        /\ open[b].children = batch[b].children /\ batch[b].children # NoElement
        /\ time \in 1 .. Sync
    BY <1>1, <1>4, <1>12, <1>15
  <2> HIDE DEF r
  <2> QED  BY <1>19, <1>20, <2>1, <2>2, <2>3, OpenedLater, SMTT(20)
<1> HIDE DEF r
<1>22. at \in 1 .. Sync /\ at <= time /\ at = CommitTime(r, time, Synchronously)
  BY <1>4, <1>12, CommitTimeIs
<1>23. Waiting(r, open, Deferred(open) \ {first}) /\ Below(Deferred(open) \ {first}, open, at)
  <2>1. ASSUME NEW c \in Deferred(open) \ {first}, open[c].children # NoElement
        PROVE  open[c].expirationTime < at
    <3>1. c \in Deferred(batch) /\ c # b /\ c # first /\ c \in 1 .. Len(batch)
      BY <1>21, <2>1 DEF Deferred
    <3>2. batch[c].expirationTime < time
      BY <1>4, <1>5, <3>1, FirstIsLatest DEF time
    <3>3. /\ open[c].expirationTime = batch[c].expirationTime
          /\ moved[c].expirationTime = batch[c].expirationTime
          /\ batch[c].children = open[c].children
          /\ moved[c].defer /\ c \in Deferred(moved) \ {b}
      BY <1>14, <1>15, <2>1, <3>1 DEF Deferred
    <3>4. CASE at = time
      BY <3>2, <3>3, <3>4
    <3>5. CASE at # time
      <4>1. \A d \in Deferred(moved) \ {b} : hasChildren(d) => moved[d].expirationTime < at
        <5>1. b \in 1 .. Len(moved)
          BY <1>4, <1>14
        <5> QED  BY <1>2, <1>4, <1>14, <1>21, <1>22, <3>5, <5>1, NotExpired
      <4> QED  BY <2>1, <3>3, <4>1 DEF hasChildren
    <3> QED  BY <3>4, <3>5
  <2> QED  BY <1>21, <2>1 DEF Waiting, Below
<1>24. r.finishedExpirationTime # time /\ r.queue[Len(r.queue)].time >= time
       /\ r.queue[Len(r.queue)].element[1] = b
  BY <1>2, <1>12, <1>21
<1>25. /\ root' \in RootRecord /\ RootOK(root', after)
       /\ root'.shown = r.queue[Len(r.queue)].element
  <2>1. /\ r \in RootRecord /\ open \in Seq(BatchRecord) /\ b \in 1 .. Len(open) /\ Sync \in Nat
        /\ time \in 1 .. Sync /\ first \in Nat /\ r.firstBatch = b /\ ~open[b].defer
        /\ ChildrenOK(open) /\ UpdatesOK(r, open) /\ Waiting(r, open, Deferred(open) \ {first})
        /\ clock \in Now /\ Below(Deferred(open) \ {first}, open, CommitTime(r, time, Synchronously))
        /\ pendingTime(r) >= time /\ (r.finishedExpirationTime = time => ShowsSome(r, time))
        /\ after = Unlinked(open, b) /\ IsBatchList(M, after, first)
    BY <1>4, <1>12, <1>15, <1>16, <1>17, <1>18, <1>21, <1>22, <1>23, <1>24
  <2>2. LET x == FlushedRoot(r, open, time, first)
        IN  /\ x \in RootRecord /\ RootOK(x, after)
            /\ r.finishedExpirationTime # time /\ r.queue[Len(r.queue)].time >= time =>
                 x.shown = r.queue[Len(r.queue)].element
    BY <1>24, <2>1, FlushedRootOK, Zenon
  <2> QED  BY <1>13, <1>24, <2>2
<1>26. ~failed'
  BY <1>1, <1>3, <1>21, <1>25
<1> QED  BY <1>1, <1>3, <1>13, <1>17, <1>25, <1>26 DEF BatchTypeOK

\* A deferred batch is in the list.
LEMMA CommitUnlistedBatchNever ==
  ASSUME BatchInv, NEW b \in DOMAIN batch, commitUnlistedBatch(b)
  PROVE  BatchInv'
<1>1. /\ batch[b].defer /\ known' = known
      /\ root.firstBatch = NoBatch \/ b \notin ToSet(List)
  BY DEF commitUnlistedBatch
<1> SUFFICES ASSUME known = {}  PROVE FALSE
  BY <1>1, BatchInvIs
<1>2. BatchTypeOK /\ RootOK(root, batch)
  BY BatchInvIs
<1>3. /\ Sync \in Nat /\ batch \in Seq(BatchRecord) /\ b \in 1 .. Len(batch)
      /\ Len(batch) <= MaxBatch
  BY <1>2, TypeFacts
<1>4. PICK L : IsBatchList(L, batch, root.firstBatch)
  BY <1>2 DEF RootOK
<1>5. List = L
  BY <1>3, <1>4, ListFollows DEF List
<1>6. b \in Deferred(batch)
  BY <1>1, <1>3 DEF Deferred
<1>7. root.firstBatch # NoBatch
  BY <1>3, <1>4, <1>6, FirstIsLatest
<1>8. PICK i \in 1 .. Len(L) : L[i] = b
  BY <1>4, <1>6 DEF IsBatchList
<1>9. i \in DOMAIN L
  BY <1>4, LenProperties DEF IsBatchList
<1> QED  BY <1>1, <1>5, <1>7, <1>8, <1>9 DEF ToSet

-----------------------------------------------------------------------------
\* As long as nothing has happened that the code gets wrong, the deferred batches are the
\* list that the links make of them, in the order of their times, each one's updates are at
\* its time and still to be applied, and a callback waits for what no batch locks.  Time may
\* pass between any two steps, and a render may restart at the current time.
THEOREM BatchInvariant == BatchSpec => []BatchInv
<1>1. BatchInit => BatchInv
  BY InitBatchInv
<1>2. ASSUME BatchInv, [BatchNext]_batchVars  PROVE BatchInv'
  <2>1. CASE advanceTime
    BY <1>2, <2>1, AdvanceTimeKeeps
  <2>2. CASE createBatch
    BY <1>2, <2>2, CreateBatchKeeps
  <2>3. ASSUME NEW didTimeout \in BOOLEAN, runRootCallback(didTimeout)  PROVE BatchInv'
    BY <1>2, <2>3, RunRootCallbackKeeps
  <2>4. ASSUME NEW sync \in BOOLEAN, renderElement(sync)  PROVE BatchInv'
    BY <1>2, <2>4, RenderElementKeeps
  <2>5. ASSUME NEW b \in DOMAIN batch, renderBatch(b)  PROVE BatchInv'
    BY <1>2, <2>5, RenderBatchKeeps
  <2>6. ASSUME NEW b \in DOMAIN batch, commitEmptyBatch(b)  PROVE BatchInv'
    <3>1. known' # {}
      BY <2>6 DEF commitEmptyBatch
    <3> QED  BY <3>1, BatchInvIs
  <2>7. ASSUME NEW b \in DOMAIN batch, commitFirstBatch(b)  PROVE BatchInv'
    BY <1>2, <2>7, CommitFirstBatchKeeps
  <2>8. ASSUME NEW b \in DOMAIN batch, commitLaterBatch(b)  PROVE BatchInv'
    BY <1>2, <2>8, CommitLaterBatchKeeps
  <2>9. ASSUME NEW b \in DOMAIN batch, commitUnlistedBatch(b)  PROVE BatchInv'
    BY <1>2, <2>9, CommitUnlistedBatchNever
  <2>10. CASE requestCurrentTime
    BY <1>2, <2>10, RequestCurrentTimeKeeps
  <2>11. CASE UNCHANGED batchVars
    BY <1>2, <2>11 DEF batchVars, BatchInv, BatchTypeOK
  <2> QED  BY <1>2, <2>1, <2>2, <2>3, <2>4, <2>5, <2>6, <2>7, <2>8, <2>9, <2>10, <2>11
           DEF BatchNext
<1> QED  BY <1>1, <1>2, PTL DEF BatchSpec

\* The batches of a root are shown one by one, each by its own commit, and what one held
\* back is never without a callback (ReactBatch.commit, resolveLocksOnRoot), outside the
\* cases that `known` names, a commit that is so late that it shows another batch among them.
THEOREM BatchesStaySeparate == BatchSpec => []BatchesAreSeparate
<1>1. ASSUME BatchInv, known = {}  PROVE ~failed /\ DeferredIsNotShown /\ NothingForgotten
  <2>1. BatchTypeOK /\ RootOK(root, batch) /\ ~failed
    BY <1>1, BatchInvIs
  <2>2. /\ Sync \in Nat /\ root \in RootRecord /\ batch \in Seq(BatchRecord)
        /\ Len(batch) \in Nat /\ Len(batch) <= MaxBatch
    BY <2>1, TypeFacts
  <2>3. PICK L : IsBatchList(L, batch, root.firstBatch)
    BY <2>1 DEF RootOK
  <2>4. DeferredIsNotShown
    BY <2>1 DEF RootOK, QueueOK, ShownOK, DeferredIsNotShown, Deferred, NoBatch
  <2>5. NothingForgotten
    <3> SUFFICES ASSUME root.callbackExpirationTime = NoTime,
                        \A b \in ToSet(List) : ~batch[b].defer
                 PROVE  pendingTime(root) = NoTime
      BY DEF NothingForgotten
    <3>1. List = L
      BY <2>2, <2>3, ListFollows DEF List
    <3>2. root.firstBatch = NoBatch
      <4> SUFFICES ASSUME root.firstBatch # NoBatch  PROVE FALSE
        OBVIOUS
      <4>1. root.firstBatch \in Deferred(batch)
        BY <2>2, <2>3, FirstIsLatest
      <4>2. PICK i \in 1 .. Len(L) : L[i] = root.firstBatch
        BY <2>3, <4>1 DEF IsBatchList
      <4>3. i \in DOMAIN L
        BY <2>3, LenProperties DEF IsBatchList
      <4> QED  BY <3>1, <4>1, <4>2, <4>3 DEF ToSet, Deferred
    <3>3. pendingTime(root) \in 0 .. Sync
      BY <2>2, PendingIsGreatest
    <3> QED  BY <2>1, <3>2, <3>3 DEF RootOK, PendingOK, NoTime
  <2> QED  BY <2>1, <2>4, <2>5
<1>2. BatchInv => BatchesAreSeparate
  BY <1>1 DEF BatchesAreSeparate
<1> QED  BY <1>2, BatchInvariant, PTL
=============================================================================
