---------------------------- MODULE QueueProofs ----------------------------
(***************************************************************************)
(* Proofs about what one component keeps: the times of its updates, the    *)
(* effects of its hooks, and the instance of its class.                    *)
(*                                                                         *)
(* Expiration times, for every size of units and buckets and every clock   *)
(* within the range of the numbers: first the arithmetic of quotients,     *)
(* then times and milliseconds, then the times of updates.  An update      *)
(* keeps the time that belongs to the start of its event, which is what    *)
(* the invariant says of every update.                                     *)
(*                                                                         *)
(* The instance of a class comes last: what a queue of updates leads to,   *)
(* by the smallest position at which two runs over it would differ, then   *)
(* what each operation does to a fiber, then one lemma for each step.      *)
(***************************************************************************)
EXTENDS ExpirationTime, HookQueue, ClassInstance, WellFoundedInduction, TLAPS

\* What a quotient is bounded by.
LEMMA Division ==
  ASSUME NEW a \in Int, NEW n \in Nat \ {0}
  PROVE  /\ a \div n \in Int
         /\ n * (a \div n) <= a
         /\ a < n * (a \div n) + n
  BY SMT

LEMMA Product ==
  ASSUME NEW m \in Int, NEW n \in Nat \ {0}
  PROVE  (m * n) \div n = m
  BY SMT

LEMMA Ordered ==
  ASSUME NEW p \in Int, NEW q \in Int, NEW n \in Nat \ {0}, p < q
  PROVE  p * n + n <= q * n
  BY SMT

LEMMA CeilingBounds ==
  ASSUME NEW ms \in Int, NEW size \in Nat \ {0}
  PROVE  /\ ceiling(ms, size) \in Int
         /\ ms < ceiling(ms, size)
         /\ ceiling(ms, size) <= ms + size
  BY Division, SMT DEF ceiling

LEMMA CeilingMonotone ==
  ASSUME NEW a \in Int, NEW b \in Int, NEW size \in Nat \ {0}, a <= b
  PROVE  ceiling(a, size) <= ceiling(b, size)
<1> DEFINE p == a \div size
           q == b \div size
<1>1. p \in Int /\ q \in Int /\ size * p <= a /\ b < size * q + size
  BY Division
<1>2. p <= q
  <2> SUFFICES ASSUME q < p PROVE FALSE
    BY <1>1
  <2>1. q * size + size <= p * size
    BY Ordered, <1>1
  <2> QED  BY <1>1, <2>1
<1>3. (p + 1) * size <= (q + 1) * size
  <2>1. CASE p = q
    BY <2>1, <1>1
  <2>2. CASE p < q
    <3>1. (p + 1) * size + size <= (q + 1) * size
      BY Ordered, <2>2, <1>1
    <3> QED  BY <3>1, <1>1
  <2> QED  BY <2>1, <2>2, <1>2, <1>1
<1> QED  BY <1>3 DEF ceiling

-----------------------------------------------------------------------------
(***************************************************************************)
(* Times and milliseconds.                                                 *)
(***************************************************************************)
Size(s) == s \in {LOW_PRIORITY_BATCH_SIZE, HIGH_PRIORITY_BATCH_SIZE}

LEMMA Constants ==
  ASSUME ExpirationTimeAssumption
  PROVE  /\ UNIT_SIZE \in Nat \ {0} /\ MaxClock \in Nat /\ MAX_SIGNED_31_BIT_INT \in Nat
         /\ MAGIC_NUMBER_OFFSET \in Int /\ Sync \in Int /\ Never \in Int
         /\ MAGIC_NUMBER_OFFSET = Sync - 2
         /\ LOW_PRIORITY_EXPIRATION \in Nat /\ HIGH_PRIORITY_EXPIRATION \in Nat
         /\ LOW_PRIORITY_BATCH_SIZE \in Nat \ {0} /\ HIGH_PRIORITY_BATCH_SIZE \in Nat \ {0}
<1>1. UNIT_SIZE \in Nat \ {0}
  BY DEF ExpirationTimeAssumption
<1>2. \A k \in Nat : k > 0 => k * UNIT_SIZE > 0
  BY <1>1, SMT
<1>3. LOW_PRIORITY_BATCH_SIZE \in Nat \ {0} /\ HIGH_PRIORITY_BATCH_SIZE \in Nat \ {0}
  BY <1>2 DEF ExpirationTimeAssumption
<1> QED  BY <1>3 DEF ExpirationTimeAssumption, MAGIC_NUMBER_OFFSET, Batched, Sync, Never

LEMMA BucketSizes ==
  ASSUME ExpirationTimeAssumption, NEW s, Size(s)
  PROVE  s \in Nat \ {0} /\ \E k \in Nat \ {0} : s = k * UNIT_SIZE
<1>1. s \in Nat \ {0}
  BY Constants DEF Size
<1>2. CASE s = LOW_PRIORITY_BATCH_SIZE
  <2>1. PICK k \in 1 .. LOW_PRIORITY_BATCH_SIZE : s = k * UNIT_SIZE
    BY <1>2 DEF ExpirationTimeAssumption
  <2>2. k \in Nat \ {0}
    BY <1>1, <1>2, <2>1
  <2> QED  BY <1>1, <2>1, <2>2
<1>3. CASE s = HIGH_PRIORITY_BATCH_SIZE
  <2>1. PICK k \in 1 .. HIGH_PRIORITY_BATCH_SIZE : s = k * UNIT_SIZE
    BY <1>3 DEF ExpirationTimeAssumption
  <2>2. k \in Nat \ {0}
    BY <1>1, <1>3, <2>1
  <2> QED  BY <1>1, <2>1, <2>2
<1> QED  BY <1>2, <1>3 DEF Size

\* A whole number of buckets is a whole number of units.
LEMMA WholeUnits ==
  ASSUME ExpirationTimeAssumption, NEW s, Size(s), NEW q \in Int
  PROVE  /\ (q * s) \div UNIT_SIZE \in Int
         /\ ((q * s) \div UNIT_SIZE) * UNIT_SIZE = q * s
<1>1. PICK k \in Nat \ {0} : s = k * UNIT_SIZE
  BY BucketSizes
<1>2. UNIT_SIZE \in Nat \ {0}
  BY Constants
<1> DEFINE m == q * k
<1>3. m \in Int
  BY <1>1
<1>4. q * s = m * UNIT_SIZE
  BY <1>1, <1>2, SMT
<1>5. (m * UNIT_SIZE) \div UNIT_SIZE = m
  BY Product, <1>2, <1>3
<1> QED  BY <1>3, <1>4, <1>5

\* Times are ordered against milliseconds.
LEMMA LaterIsLower ==
  ASSUME ExpirationTimeAssumption, NEW t \in Int, NEW u \in Int
  PROVE  /\ expirationTimeToMs(t) \in Int
         /\ t <= u <=> expirationTimeToMs(u) <= expirationTimeToMs(t)
<1> DEFINE p == MAGIC_NUMBER_OFFSET - t
           q == MAGIC_NUMBER_OFFSET - u
<1>1. p \in Int /\ q \in Int /\ UNIT_SIZE \in Nat \ {0}
  BY Constants
<1>2. expirationTimeToMs(t) = p * UNIT_SIZE /\ expirationTimeToMs(u) = q * UNIT_SIZE
  BY DEF expirationTimeToMs
<1>3. p < q => p * UNIT_SIZE + UNIT_SIZE <= q * UNIT_SIZE
  BY Ordered, <1>1
<1>4. q < p => q * UNIT_SIZE + UNIT_SIZE <= p * UNIT_SIZE
  BY Ordered, <1>1
<1>5. p * UNIT_SIZE \in Int /\ q * UNIT_SIZE \in Int
  BY <1>1
<1> HIDE DEF p, q
<1>6. q <= p <=> q * UNIT_SIZE <= p * UNIT_SIZE
  BY <1>1, <1>3, <1>4, <1>5
<1>7. t <= u <=> q <= p
  BY Constants DEF p, q
<1> QED  BY <1>2, <1>5, <1>6, <1>7

(***************************************************************************)
(* A bucket ends after the expiration that was asked for, at most its size *)
(* later (computeExpirationBucket).                                        *)
(***************************************************************************)
THEOREM BucketBounds ==
  ASSUME ExpirationTimeAssumption,
         NEW currentTime \in Int, NEW expiration \in Nat, NEW s, Size(s)
  PROVE  LET moment == computeExpirationBucket(currentTime, expiration, s)
             ms == expirationTimeToMs(currentTime) + expiration
         IN  /\ moment \in Int
             /\ expirationTimeToMs(moment) = ceiling(ms, s)
             /\ ms < expirationTimeToMs(moment) /\ expirationTimeToMs(moment) <= ms + s
<1> DEFINE ms == expirationTimeToMs(currentTime) + expiration
           moment == computeExpirationBucket(currentTime, expiration, s)
           q == ms \div s + 1
           units == (q * s) \div UNIT_SIZE
<1>1. s \in Nat \ {0}
  BY BucketSizes
<1>2. ms \in Int
  BY LaterIsLower
<1>3. q \in Int
  BY Division, <1>1, <1>2
<1>4. units \in Int /\ units * UNIT_SIZE = q * s
  BY WholeUnits, <1>3
<1>5. moment = MAGIC_NUMBER_OFFSET - units
  BY DEF computeExpirationBucket, ceiling
<1>6. MAGIC_NUMBER_OFFSET - moment = units /\ moment \in Int
  BY <1>4, <1>5, Constants
<1>7. expirationTimeToMs(moment) = ceiling(ms, s)
  BY <1>4, <1>6 DEF expirationTimeToMs, ceiling
<1> QED  BY <1>6, <1>7, CeilingBounds, <1>1, <1>2

(***************************************************************************)
(* An update that starts later is not more urgent (computeExpirationBucket *)
(* at one priority).                                                       *)
(***************************************************************************)
THEOREM BucketsAreMonotone ==
  ASSUME ExpirationTimeAssumption,
         NEW t \in Int, NEW u \in Int, NEW expiration \in Nat, NEW s, Size(s), t <= u
  PROVE  computeExpirationBucket(t, expiration, s) <= computeExpirationBucket(u, expiration, s)
<1> DEFINE late == computeExpirationBucket(t, expiration, s)
           early == computeExpirationBucket(u, expiration, s)
<1>1. /\ expirationTimeToMs(u) \in Int /\ expirationTimeToMs(t) \in Int
      /\ expirationTimeToMs(u) + expiration <= expirationTimeToMs(t) + expiration
  BY LaterIsLower
<1>2. ceiling(expirationTimeToMs(u) + expiration, s) <= ceiling(expirationTimeToMs(t) + expiration, s)
  BY <1>1, CeilingMonotone, BucketSizes
<1>3. /\ late \in Int /\ early \in Int
      /\ expirationTimeToMs(early) <= expirationTimeToMs(late)
  BY <1>2, BucketBounds
<1> QED  BY <1>3, LaterIsLower
-----------------------------------------------------------------------------
(***************************************************************************)
(* The times of updates.                                                   *)
(***************************************************************************)
Start(t) == t \in Int /\ msToExpirationTime(clock) <= t /\ t <= MAGIC_NUMBER_OFFSET

UpdateRecord == [priority : Priority, config : Timeouts \cup {NoConfig}, start : Int, event : Nat,
                 time : Int, moved : BOOLEAN]

UpdateOK(u) ==
  /\ <<u.priority, u.config>> \in Requests
  /\ Start(u.start)
  /\ u.time <= TimeFor(u.start, u.priority, u.config)
  /\ ~u.moved => u.time = TimeFor(u.start, u.priority, u.config)
  /\ u.event <= event
  /\ u.event = event => currentEventTime # NoWork /\ u.start = currentEventTime

EventTypes ==
  /\ clock \in 0 .. MaxClock /\ event \in Nat \ {0} /\ renderingTime \in Int
  /\ currentEventTime = NoWork \/ Start(currentEventTime)
  /\ updates \in Seq(UpdateRecord)

SameEventSameStart ==
  \A i, j \in DOMAIN updates :
    updates[i].event = updates[j].event /\ updates[i].event # NoWork =>
      updates[i].start = updates[j].start

IInv == EventTypes /\ (\A i \in DOMAIN updates : UpdateOK(updates[i])) /\ SameEventSameStart

\* Inside the bounds of the clock a time is neither NoWork, Never nor Sync.
LEMMA ClockToTime ==
  ASSUME ExpirationTimeAssumption, NEW ms \in 0 .. MaxClock
  PROVE  /\ msToExpirationTime(ms) \in Int
         /\ msToExpirationTime(ms) <= MAGIC_NUMBER_OFFSET
         /\ msToExpirationTime(ms) > Never
         /\ expirationTimeToMs(msToExpirationTime(ms)) \in 0 .. ms
<1> DEFINE q == ms \div UNIT_SIZE
<1>1. UNIT_SIZE \in Nat \ {0} /\ ms \in Nat /\ MaxClock \in Nat
  BY Constants
<1>2. q \in Int /\ UNIT_SIZE * q <= ms /\ ms < UNIT_SIZE * q + UNIT_SIZE
  BY Division, <1>1
<1>3. q >= 0
  <2> SUFFICES ASSUME q < 0 PROVE FALSE
    BY <1>2
  <2>1. q * UNIT_SIZE + UNIT_SIZE <= 0 * UNIT_SIZE
    BY Ordered, <1>1, <1>2
  <2> QED  BY <2>1, <1>1, <1>2
<1>4. q <= ms /\ 0 <= q * UNIT_SIZE /\ q * UNIT_SIZE <= ms
  BY <1>1, <1>2, <1>3, SMT
<1>5. ms < MAX_SIGNED_31_BIT_INT - 4
  BY Constants DEF ExpirationTimeAssumption
<1>6. msToExpirationTime(ms) = MAGIC_NUMBER_OFFSET - q /\ MAGIC_NUMBER_OFFSET - (MAGIC_NUMBER_OFFSET - q) = q
  BY <1>2, Constants DEF msToExpirationTime
<1> HIDE DEF q
<1>7. expirationTimeToMs(msToExpirationTime(ms)) = q * UNIT_SIZE
  BY <1>6 DEF expirationTimeToMs
<1>8. q * UNIT_SIZE \in 0 .. ms
  BY <1>1, <1>2, <1>4
<1> QED  BY <1>2, <1>3, <1>4, <1>5, <1>6, <1>7, <1>8, Constants DEF Sync, Never

\* Milliseconds below the offset are a time between the two extremes.
LEMMA TimesInside ==
  ASSUME ExpirationTimeAssumption, NEW t \in Int,
         0 < expirationTimeToMs(t), expirationTimeToMs(t) < Sync - 4
  PROVE  t # Sync /\ t # Never
<1> DEFINE p == MAGIC_NUMBER_OFFSET - t
<1>1. /\ UNIT_SIZE \in Nat \ {0} /\ p \in Int /\ Sync \in Int
      /\ MAGIC_NUMBER_OFFSET = Sync - 2 /\ MAGIC_NUMBER_OFFSET \in Int
  BY Constants
<1>2. expirationTimeToMs(t) = p * UNIT_SIZE
  BY DEF expirationTimeToMs
<1> HIDE DEF p
<1>3. p > 0
  <2> SUFFICES ASSUME p <= 0 PROVE FALSE
    BY <1>1
  <2>1. p < 0 => p * UNIT_SIZE + UNIT_SIZE <= 0 * UNIT_SIZE
    BY <1>1, Ordered
  <2> QED  BY <1>1, <1>2, <2>1
<1>4. p <= p * UNIT_SIZE
  BY <1>1, <1>3, SMT
<1>5. p < Sync - 4
  <2>1. p * UNIT_SIZE \in Int
    BY <1>1
  <2> QED  BY <1>1, <1>2, <1>4, <2>1
<1> QED  BY <1>1, <1>3, <1>5 DEF p, Never

LEMMA ClockCountsDown ==
  ASSUME ExpirationTimeAssumption, NEW a \in Nat, NEW b \in Nat, a <= b
  PROVE  msToExpirationTime(b) <= msToExpirationTime(a)
<1> DEFINE p == a \div UNIT_SIZE
           q == b \div UNIT_SIZE
<1>0. UNIT_SIZE \in Nat \ {0} /\ a \in Int /\ b \in Int
  BY Constants
<1>1. /\ UNIT_SIZE \in Nat \ {0} /\ p \in Int /\ q \in Int
      /\ UNIT_SIZE * p <= a /\ b < UNIT_SIZE * q + UNIT_SIZE
  BY <1>0, Division
<1>2. p <= q
  <2> SUFFICES ASSUME q < p PROVE FALSE
    BY <1>1
  <2>1. q * UNIT_SIZE + UNIT_SIZE <= p * UNIT_SIZE
    BY Ordered, <1>1
  <2> QED  BY <1>1, <2>1
<1>3. msToExpirationTime(b) = MAGIC_NUMBER_OFFSET - q /\ msToExpirationTime(a) = MAGIC_NUMBER_OFFSET - p
  BY DEF msToExpirationTime
<1> QED  BY <1>1, <1>2, <1>3, Constants

\* What an update that started at `start` gets, for each request.
LEMMA TimesByRequest ==
  ASSUME ExpirationTimeAssumption, NEW start \in Int, NEW priority, NEW config,
         <<priority, config>> \in Requests
  PROVE  /\ TimeFor(start, priority, config) \in Int
         /\ priority \in Priority /\ config \in Timeouts \cup {NoConfig}
         /\ config # NoConfig =>
              /\ ConfiguredTimeout(config) \in {LOW_PRIORITY_EXPIRATION} \cup Timeouts
              /\ TimeFor(start, priority, config) =
                   computeExpirationBucket(start, ConfiguredTimeout(config), LOW_PRIORITY_BATCH_SIZE)
         /\ config = NoConfig =>
              \/ priority = ImmediatePriority /\ TimeFor(start, priority, config) = Sync
              \/ priority = IdlePriority /\ TimeFor(start, priority, config) = Never
              \/ priority = UserBlockingPriority
                 /\ TimeFor(start, priority, config) =
                      computeExpirationBucket(start, HIGH_PRIORITY_EXPIRATION, HIGH_PRIORITY_BATCH_SIZE)
              \/ priority = NormalPriority
                 /\ TimeFor(start, priority, config) =
                      computeExpirationBucket(start, LOW_PRIORITY_EXPIRATION, LOW_PRIORITY_BATCH_SIZE)
<1>1. /\ priority \in Priority /\ config \in Timeouts \cup {NoConfig}
  BY DEF Requests, Priority
<1>2. CASE config # NoConfig
  <2>1. ConfiguredTimeout(config) \in Nat
    BY <1>1, <1>2, Constants DEF ConfiguredTimeout, ExpirationTimeAssumption
  <2>2. TimeFor(start, priority, config) =
          computeExpirationBucket(start, ConfiguredTimeout(config), LOW_PRIORITY_BATCH_SIZE)
    BY <1>2 DEF TimeFor, computeSuspenseExpiration
  <2>3. TimeFor(start, priority, config) \in Int
    BY <2>1, <2>2, BucketBounds DEF Size
  <2> QED  BY <1>1, <1>2, <2>2, <2>3 DEF ConfiguredTimeout
<1>3. CASE config = NoConfig
  <2>1. /\ computeExpirationBucket(start, HIGH_PRIORITY_EXPIRATION, HIGH_PRIORITY_BATCH_SIZE) \in Int
        /\ computeExpirationBucket(start, LOW_PRIORITY_EXPIRATION, LOW_PRIORITY_BATCH_SIZE) \in Int
        /\ Sync \in Int /\ Never \in Int
    BY Constants, BucketBounds DEF Size
  <2>2. CASE priority = ImmediatePriority
    BY <1>1, <1>3, <2>1, <2>2 DEF TimeFor, UserBlockingPriority, ImmediatePriority,
       NormalPriority, IdlePriority
  <2>3. CASE priority = UserBlockingPriority
    BY <1>1, <1>3, <2>1, <2>3 DEF TimeFor, computeInteractiveExpiration, UserBlockingPriority,
       ImmediatePriority, NormalPriority, IdlePriority
  <2>4. CASE priority = NormalPriority
    BY <1>1, <1>3, <2>1, <2>4 DEF TimeFor, computeAsyncExpiration, UserBlockingPriority,
       ImmediatePriority, NormalPriority, IdlePriority
  <2>5. CASE priority = IdlePriority
    BY <1>1, <1>3, <2>1, <2>5 DEF TimeFor, UserBlockingPriority, ImmediatePriority,
       NormalPriority, IdlePriority
  <2> QED  BY <1>1, <2>2, <2>3, <2>4, <2>5 DEF Priority
<1> QED  BY <1>2, <1>3

LEMMA TimesAreMonotone ==
  ASSUME ExpirationTimeAssumption, NEW t \in Int, NEW u \in Int, t <= u, NEW priority, NEW config,
         <<priority, config>> \in Requests
  PROVE  TimeFor(t, priority, config) <= TimeFor(u, priority, config)
<1>1. CASE config # NoConfig
  <2>1. ConfiguredTimeout(config) \in Nat
    BY <1>1, TimesByRequest, Constants DEF ExpirationTimeAssumption
  <2> QED  BY <1>1, <2>1, TimesByRequest, BucketsAreMonotone DEF Size
<1>2. CASE config = NoConfig
  <2>1. /\ computeExpirationBucket(t, HIGH_PRIORITY_EXPIRATION, HIGH_PRIORITY_BATCH_SIZE)
             <= computeExpirationBucket(u, HIGH_PRIORITY_EXPIRATION, HIGH_PRIORITY_BATCH_SIZE)
        /\ computeExpirationBucket(t, LOW_PRIORITY_EXPIRATION, LOW_PRIORITY_BATCH_SIZE)
             <= computeExpirationBucket(u, LOW_PRIORITY_EXPIRATION, LOW_PRIORITY_BATCH_SIZE)
    BY Constants, BucketsAreMonotone DEF Size
  <2>2. Sync <= Sync /\ Never <= Never
    BY Constants
  <2> QED  BY <1>2, <2>1, <2>2, TimesByRequest DEF ImmediatePriority, UserBlockingPriority,
              NormalPriority, IdlePriority
<1> QED  BY <1>1, <1>2
-----------------------------------------------------------------------------
(***************************************************************************)
(* The invariant.                                                          *)
(***************************************************************************)
LEMMA InitIInv ==
  ASSUME ExpirationTimeAssumption, EventInit
  PROVE  IInv
<1>1. DOMAIN updates = {} /\ updates \in Seq(UpdateRecord)
  BY DEF EventInit
<1>2. clock \in 0 .. MaxClock
  BY Constants DEF EventInit
<1> QED  BY <1>1, <1>2 DEF IInv, EventInit, EventTypes, SameEventSameStart, NoWork

\* An update whose start does not contradict those of its event.
LEMMA RequestKeepsIInv ==
  ASSUME ExpirationTimeAssumption, IInv,
         NEW start, Start(start), NEW priority, NEW config, <<priority, config>> \in Requests,
         NEW e \in {NoWork, event},
         Requested(start, priority, config, e),
         e = event => /\ currentEventTime' = start
                      /\ currentEventTime = NoWork \/ currentEventTime = start,
         e = NoWork => currentEventTime' = currentEventTime,
         start # NoWork,
         UNCHANGED <<clock, renderingTime, event>>
  PROVE  IInv'
<1> PICK moment : moment = computeExpirationForFiber(start, priority, config)
  OBVIOUS
<1> DEFINE u == [priority |-> priority, config |-> config, start |-> start, event |-> e,
                 time |-> moment, moved |-> moment # TimeFor(start, priority, config)]
<1>1. /\ start \in Int /\ event \in Nat \ {0} /\ e \in Nat /\ updates \in Seq(UpdateRecord)
      /\ clock \in 0 .. MaxClock
  BY DEF IInv, EventTypes, Start, NoWork
<1>2. /\ TimeFor(start, priority, config) \in Int
      /\ priority \in Priority /\ config \in Timeouts \cup {NoConfig}
  BY <1>1, TimesByRequest
<1>3. moment \in Int /\ moment <= TimeFor(start, priority, config)
  BY <1>2 DEF computeExpirationForFiber
<1>4. updates' = Append(updates, u)
  BY DEF Requested
<1>5. u \in UpdateRecord
  BY <1>1, <1>2, <1>3 DEF UpdateRecord
<1>5a. /\ u.priority = priority /\ u.config = config /\ u.start = start /\ u.event = e
       /\ u.time = moment
       /\ ~u.moved => u.time = TimeFor(u.start, u.priority, u.config)
  OBVIOUS
<1> HIDE DEF u
<1>6. /\ updates' \in Seq(UpdateRecord)
      /\ DOMAIN updates' = DOMAIN updates \cup {Len(updates) + 1}
      /\ \A i \in DOMAIN updates : updates'[i] = updates[i]
      /\ updates'[Len(updates) + 1] = u
      /\ DOMAIN updates = 1 .. Len(updates) /\ Len(updates) \in Nat
  BY <1>1, <1>4, <1>5
<1>7. Start(start)' /\ \A t : Start(t) => Start(t)'
  BY DEF Start
<1>8. EventTypes'
  BY <1>6, <1>7 DEF IInv, EventTypes
<1>9. UpdateOK(u)'
  BY <1>1, <1>3, <1>5a, <1>7 DEF UpdateOK, NoWork
<1>10. ASSUME NEW i \in DOMAIN updates  PROVE UpdateOK(updates[i])'
  <2>1. UpdateOK(updates[i])
    BY DEF IInv
  <2> QED  BY <1>1, <1>6, <1>7, <2>1 DEF UpdateOK, NoWork
<1>11. ASSUME NEW i \in DOMAIN updates'  PROVE UpdateOK(updates[i])'
  <2>1. CASE i \in DOMAIN updates
    BY <1>10, <2>1
  <2>2. CASE i = Len(updates) + 1
    BY <1>6, <1>9, <2>2 DEF UpdateOK
  <2> QED  BY <1>6, <2>1, <2>2
<1>12. SameEventSameStart'
  <2>1. ASSUME NEW i \in DOMAIN updates, updates[i].event = e, e # NoWork
        PROVE  updates[i].start = start
    BY <2>1 DEF IInv, UpdateOK
  <2>2. u.event = e /\ u.start = start
    BY <1>5a
  <2> QED  BY <1>6, <2>1, <2>2 DEF IInv, SameEventSameStart
<1> QED  BY <1>8, <1>11, <1>12 DEF IInv

LEMMA StepKeepsIInv ==
  ASSUME ExpirationTimeAssumption, IInv, [EventNext]_eventVars
  PROVE  IInv'
<1>0. /\ clock \in 0 .. MaxClock /\ event \in Nat \ {0} /\ NoWork = 0 /\ Never = 1
      /\ Start(msToExpirationTime(clock)) /\ msToExpirationTime(clock) > Never
      /\ MaxClock \in Nat
      /\ currentEventTime = NoWork \/ Start(currentEventTime)
  <2>1. clock \in 0 .. MaxClock /\ event \in Nat \ {0}
    BY DEF IInv, EventTypes
  <2>2. /\ msToExpirationTime(clock) \in Int /\ msToExpirationTime(clock) > Never
        /\ msToExpirationTime(clock) <= MAGIC_NUMBER_OFFSET
    BY <2>1, ClockToTime
  <2> QED  BY <2>1, <2>2, Constants DEF Start, NoWork, Never, IInv, EventTypes
<1>1. ASSUME NEW r \in Requests, scheduleUpdate(r[1], r[2])  PROVE IInv'
  <2>1. Start(requestCurrentTime) /\ requestCurrentTime # NoWork
    BY <1>0 DEF requestCurrentTime, Start
  <2>2. <<r[1], r[2]>> \in Requests
    BY DEF Requests
  <2>3. currentEventTime = NoWork \/ currentEventTime = requestCurrentTime
    BY DEF requestCurrentTime
  <2> QED  BY <1>0, <1>1, <2>1, <2>2, <2>3, RequestKeepsIInv DEF scheduleUpdate
<1>2. ASSUME NEW r \in Requests, scheduleUpdateInside(r[1], r[2])  PROVE IInv'
  <2>1. <<r[1], r[2]>> \in Requests
    BY DEF Requests
  <2>2. NoWork # event /\ msToExpirationTime(clock) # NoWork
    BY <1>0
  <2> QED  BY <1>0, <1>2, <2>1, <2>2, RequestKeepsIInv DEF scheduleUpdateInside
<1>3. ASSUME NEW i \in DOMAIN updates, NEW finishes \in BOOLEAN,
             renderRoot(updates[i].time, finishes)
      PROVE  IInv'
  <2>0. \A j \in DOMAIN updates : updates[j] \in UpdateRecord
    BY DEF IInv, EventTypes
  <2>1. updates[i].time \in Int
    BY <2>0 DEF UpdateRecord
  <2>2. EventTypes'
    BY <1>0, <1>3, <2>1 DEF IInv, EventTypes, renderRoot
  <2>3. ASSUME NEW j \in DOMAIN updates  PROVE UpdateOK(updates[j])'
    <3>1. UpdateOK(updates[j]) /\ updates[j].event \in Nat
      BY <2>0 DEF IInv, UpdateRecord
    <3>2. event' = event + 1 /\ UNCHANGED <<clock, updates>>
      BY <1>3 DEF renderRoot
    <3> QED  BY <1>0, <3>1, <3>2 DEF UpdateOK, Start
  <2> QED  BY <1>3, <2>2, <2>3 DEF IInv, SameEventSameStart, renderRoot
<1>4. ASSUME renderRootSync  PROVE IInv'
  BY <1>0, <1>4 DEF IInv, EventTypes, UpdateOK, SameEventSameStart, Start, renderRootSync
<1>5. ASSUME advanceClock  PROVE IInv'
  <2>1. clock' \in 0 .. MaxClock /\ clock <= clock' /\ clock \in Nat /\ clock' \in Nat
    BY <1>0, <1>5 DEF advanceClock
  <2>2. msToExpirationTime(clock') <= msToExpirationTime(clock) /\ msToExpirationTime(clock') \in Int
    BY <2>1, ClockCountsDown, ClockToTime
  <2>3. \A t : Start(t) => Start(t)'
    BY <1>0, <2>2 DEF Start
  <2>4. UNCHANGED <<currentEventTime, renderingTime, event, updates>>
    BY <1>5 DEF advanceClock
  <2>5. EventTypes'
    BY <2>1, <2>3, <2>4 DEF IInv, EventTypes
  <2>6. ASSUME NEW i \in DOMAIN updates  PROVE UpdateOK(updates[i])'
    BY <2>3, <2>4 DEF IInv, UpdateOK
  <2> QED  BY <2>4, <2>5, <2>6 DEF IInv, SameEventSameStart
<1>6. CASE UNCHANGED eventVars
  BY <1>6 DEF IInv, EventTypes, UpdateOK, SameEventSameStart, Start, eventVars
<1> QED  BY <1>1, <1>2, <1>3, <1>4, <1>5, <1>6 DEF EventNext

LEMMA InvariantOfTimes == ExpirationTimeAssumption => (EventSpec => []IInv)
<1>1. ExpirationTimeAssumption /\ EventInit => IInv
  BY InitIInv
<1>2. ExpirationTimeAssumption /\ IInv /\ [EventNext]_eventVars => IInv'
  BY StepKeepsIInv
<1> SUFFICES ASSUME ExpirationTimeAssumption PROVE EventSpec => []IInv
  OBVIOUS
<1>3. EventInit => IInv
  BY <1>1
<1>4. IInv /\ [EventNext]_eventVars => IInv'
  BY <1>2
<1> QED  BY <1>3, <1>4, PTL DEF EventSpec

(***************************************************************************)
(* Updates of an event and a priority are rendered together, whatever the  *)
(* clock does (requestCurrentTime, computeExpirationForFiber).             *)
(***************************************************************************)
THEOREM EventsAreBatched == ExpirationTimeAssumption => (EventSpec => []UpdatesAreBatched)
<1> SUFFICES ASSUME ExpirationTimeAssumption PROVE EventSpec => []UpdatesAreBatched
  OBVIOUS
<1>1. ASSUME IInv  PROVE UpdatesAreBatched
  <2> SUFFICES ASSUME NEW i \in DOMAIN updates, NEW j \in DOMAIN updates,
                      Alike(updates[i], updates[j]), ~updates[i].moved
               PROVE  /\ updates[i].start >= updates[j].start => updates[j].time <= updates[i].time
                      /\ updates[i].event = updates[j].event /\ updates[i].event # NoWork
                         /\ ~updates[j].moved => updates[i].time = updates[j].time
    BY DEF UpdatesAreBatched
  <2> DEFINE u == updates[i]
             v == updates[j]
  <2>1. /\ u \in UpdateRecord /\ v \in UpdateRecord /\ UpdateOK(u) /\ UpdateOK(v)
        /\ u.priority = v.priority /\ u.config = v.config
    BY <1>1 DEF IInv, EventTypes, Alike
  <2>2. /\ u.start \in Int /\ v.start \in Int /\ u.time \in Int /\ v.time \in Int
        /\ <<u.priority, u.config>> \in Requests
    BY <2>1 DEF UpdateRecord, UpdateOK
  <2>3. /\ TimeFor(u.start, u.priority, u.config) \in Int
        /\ TimeFor(v.start, u.priority, u.config) \in Int
    BY <2>2, TimesByRequest
  <2>4. /\ v.time <= TimeFor(v.start, u.priority, u.config)
        /\ u.time = TimeFor(u.start, u.priority, u.config)
        /\ ~v.moved => v.time = TimeFor(v.start, u.priority, u.config)
    BY <2>1 DEF UpdateOK
  <2>5. ASSUME u.start >= v.start  PROVE v.time <= u.time
    <3>1. TimeFor(v.start, u.priority, u.config) <= TimeFor(u.start, u.priority, u.config)
      BY <2>2, <2>5, TimesAreMonotone
    <3> QED  BY <2>2, <2>3, <2>4, <3>1
  <2>6. u.event = v.event /\ u.event # NoWork => u.start = v.start
    BY <1>1 DEF IInv, SameEventSameStart
  <2> QED  BY <2>4, <2>5, <2>6
<1> QED  BY <1>1, InvariantOfTimes, PTL

(***************************************************************************)
(* A priority that is inferred from a time is the one asked for, or a more *)
(* urgent one when time has passed; and an inferred start is at most a     *)
(* bucket late (inferPriorityFromExpirationTime,                           *)
(* inferTimeFromExpirationTime).                                           *)
(***************************************************************************)
THEOREM PrioritiesAreInferred == ExpirationTimeAssumption => (EventSpec => []InferredIsMeant)
<1> SUFFICES ASSUME ExpirationTimeAssumption PROVE EventSpec => []InferredIsMeant
  OBVIOUS
<1>1. ASSUME IInv  PROVE InferredIsMeant
  <2> SUFFICES ASSUME NEW i \in DOMAIN updates, ~updates[i].moved
               PROVE  LET u == updates[i]
                          age == expirationTimeToMs(u.time) - expirationTimeToMs(u.start)
                      IN  /\ u.config = NoConfig =>
                               /\ inferPriorityFromExpirationTime(u.start, u.time) = u.priority
                               /\ inferPriorityFromExpirationTime(msToExpirationTime(clock), u.time)
                                    >= u.priority
                          /\ u.config # NoConfig \/ u.priority = NormalPriority =>
                               inferTimeFromExpirationTime(u.time, u.config)
                                 \in expirationTimeToMs(u.start)
                                       .. expirationTimeToMs(u.start) + LOW_PRIORITY_BATCH_SIZE
    BY DEF InferredIsMeant
  <2> DEFINE u == updates[i]
             age == expirationTimeToMs(u.time) - expirationTimeToMs(u.start)
             nowTime == msToExpirationTime(clock)
             later == expirationTimeToMs(u.time) - expirationTimeToMs(nowTime)
  <2>1. u \in UpdateRecord /\ UpdateOK(u) /\ clock \in 0 .. MaxClock
    BY <1>1 DEF IInv, EventTypes
  <2>2. /\ u.start \in Int /\ u.time \in Int /\ <<u.priority, u.config>> \in Requests
        /\ nowTime <= u.start /\ nowTime \in Int /\ u.start <= MAGIC_NUMBER_OFFSET
        /\ u.time = TimeFor(u.start, u.priority, u.config)
    BY <2>1, ClockToTime DEF UpdateRecord, UpdateOK, Start
  <2>3. /\ expirationTimeToMs(u.start) \in Int /\ expirationTimeToMs(u.time) \in Int
        /\ expirationTimeToMs(nowTime) \in Int /\ age \in Int /\ later \in Int /\ later <= age
    BY <2>2, LaterIsLower
  <2>4. expirationTimeToMs(u.start) \in 0 .. MaxClock
    <3>1. expirationTimeToMs(u.start) <= expirationTimeToMs(nowTime)
      BY <2>2, LaterIsLower
    <3>2. expirationTimeToMs(nowTime) \in 0 .. clock
      BY <2>1, ClockToTime
    <3>3. MAGIC_NUMBER_OFFSET \in Int /\ expirationTimeToMs(MAGIC_NUMBER_OFFSET) = 0
      BY Constants DEF expirationTimeToMs
    <3>4. 0 <= expirationTimeToMs(u.start)
      BY <2>2, <3>3, LaterIsLower
    <3> QED  BY <2>1, <2>3, <3>1, <3>2, <3>4, Constants
  <2>5. /\ UserBlockingPriority = 98 /\ NormalPriority = 97 /\ ImmediatePriority = 99
        /\ IdlePriority = 95 /\ NoConfig = -1 /\ Never = 1 /\ Sync = MAX_SIGNED_31_BIT_INT
    BY DEF UserBlockingPriority, NormalPriority, ImmediatePriority, IdlePriority, NoConfig, Never, Sync
  <2>6. /\ HIGH_PRIORITY_EXPIRATION + HIGH_PRIORITY_BATCH_SIZE <= LOW_PRIORITY_EXPIRATION
        /\ LOW_PRIORITY_EXPIRATION \in Nat /\ HIGH_PRIORITY_EXPIRATION \in Nat
        /\ LOW_PRIORITY_BATCH_SIZE \in Nat \ {0} /\ HIGH_PRIORITY_BATCH_SIZE \in Nat \ {0}
        /\ Sync \in Nat /\ Never < Sync
        /\ MaxClock + LOW_PRIORITY_EXPIRATION + LOW_PRIORITY_BATCH_SIZE < Sync - 4
    <3>1. MaxClock + LOW_PRIORITY_EXPIRATION + LOW_PRIORITY_BATCH_SIZE < Sync - 4
      BY <2>5 DEF ExpirationTimeAssumption
    <3>2. HIGH_PRIORITY_EXPIRATION + HIGH_PRIORITY_BATCH_SIZE <= LOW_PRIORITY_EXPIRATION
      BY DEF ExpirationTimeAssumption
    <3> QED  BY <2>5, <3>1, <3>2, Constants
  <2>7. ASSUME expirationTimeToMs(u.time) \in 1 .. MaxClock + LOW_PRIORITY_EXPIRATION
                                                    + LOW_PRIORITY_BATCH_SIZE
        PROVE  u.time # Sync /\ u.time # Never
    <3>1. u.time \in Int /\ expirationTimeToMs(u.time) \in Int
      BY <2>2, <2>3
    <3> HIDE DEF u
    <3>2. 0 < expirationTimeToMs(u.time) /\ expirationTimeToMs(u.time) < Sync - 4
      BY <2>6, <2>7, <3>1, Constants
    <3> QED  BY <3>1, <3>2, TimesInside
  <2>8. u.config = NoConfig =>
          /\ inferPriorityFromExpirationTime(u.start, u.time) = u.priority
          /\ inferPriorityFromExpirationTime(nowTime, u.time) >= u.priority
    <3> SUFFICES ASSUME u.config = NoConfig
                 PROVE  /\ inferPriorityFromExpirationTime(u.start, u.time) = u.priority
                        /\ inferPriorityFromExpirationTime(nowTime, u.time) >= u.priority
      OBVIOUS
    <3> HIDE DEF u, nowTime
    <3>1. CASE u.priority = ImmediatePriority
      <4>1. u.time = Sync
        BY <2>2, <2>5, <3>1, TimesByRequest
      <4> QED  BY <2>5, <2>6, <3>1, <4>1 DEF inferPriorityFromExpirationTime
    <3>2. CASE u.priority = IdlePriority
      <4>1. u.time = Never
        BY <2>2, <2>5, <3>2, TimesByRequest
      <4> QED  BY <2>5, <2>6, <3>2, <4>1 DEF inferPriorityFromExpirationTime
    <3>3. CASE u.priority = UserBlockingPriority
      <4>1. u.time = computeExpirationBucket(u.start, HIGH_PRIORITY_EXPIRATION,
                                             HIGH_PRIORITY_BATCH_SIZE)
        BY <2>2, <2>5, <3>3, TimesByRequest
      <4>2. /\ HIGH_PRIORITY_EXPIRATION < age
            /\ age <= HIGH_PRIORITY_EXPIRATION + HIGH_PRIORITY_BATCH_SIZE
        <5>1. /\ expirationTimeToMs(u.start) + HIGH_PRIORITY_EXPIRATION < expirationTimeToMs(u.time)
              /\ expirationTimeToMs(u.time)
                   <= expirationTimeToMs(u.start) + HIGH_PRIORITY_EXPIRATION + HIGH_PRIORITY_BATCH_SIZE
          BY <2>2, <2>6, <4>1, BucketBounds DEF Size
        <5> QED  BY <2>3, <2>6, <5>1
      <4>3. u.time # Sync /\ u.time # Never
        BY <2>3, <2>4, <2>6, <2>7, <4>2, Constants
      <4> QED  BY <2>3, <2>5, <2>6, <3>3, <4>2, <4>3 DEF inferPriorityFromExpirationTime
    <3>4. CASE u.priority = NormalPriority
      <4>1. u.time = computeExpirationBucket(u.start, LOW_PRIORITY_EXPIRATION, LOW_PRIORITY_BATCH_SIZE)
        BY <2>2, <2>5, <3>4, TimesByRequest
      <4>2. /\ LOW_PRIORITY_EXPIRATION < age
            /\ age <= LOW_PRIORITY_EXPIRATION + LOW_PRIORITY_BATCH_SIZE
        <5>1. /\ expirationTimeToMs(u.start) + LOW_PRIORITY_EXPIRATION < expirationTimeToMs(u.time)
              /\ expirationTimeToMs(u.time)
                   <= expirationTimeToMs(u.start) + LOW_PRIORITY_EXPIRATION + LOW_PRIORITY_BATCH_SIZE
          BY <2>2, <2>6, <4>1, BucketBounds DEF Size
        <5> QED  BY <2>3, <2>6, <5>1
      <4>3. u.time # Sync /\ u.time # Never
        BY <2>3, <2>4, <2>6, <2>7, <4>2, Constants
      <4> QED  BY <2>3, <2>5, <2>6, <3>4, <4>2, <4>3 DEF inferPriorityFromExpirationTime
    <3> QED  BY <2>2, <3>1, <3>2, <3>3, <3>4, TimesByRequest DEF Priority
  <2>9. u.config # NoConfig \/ u.priority = NormalPriority =>
          inferTimeFromExpirationTime(u.time, u.config)
            \in expirationTimeToMs(u.start) .. expirationTimeToMs(u.start) + LOW_PRIORITY_BATCH_SIZE
    <3> DEFINE timeout == IF u.config # NoConfig THEN ConfiguredTimeout(u.config)
                          ELSE LOW_PRIORITY_EXPIRATION
    <3> SUFFICES ASSUME u.config # NoConfig \/ u.priority = NormalPriority
                 PROVE  inferTimeFromExpirationTime(u.time, u.config)
                          \in expirationTimeToMs(u.start)
                                .. expirationTimeToMs(u.start) + LOW_PRIORITY_BATCH_SIZE
      OBVIOUS
    <3>1. timeout \in Nat
      BY <2>2, <2>6, TimesByRequest DEF ExpirationTimeAssumption
    <3>2. u.time = computeExpirationBucket(u.start, timeout, LOW_PRIORITY_BATCH_SIZE)
      BY <2>2, <2>5, TimesByRequest
    <3>3. inferTimeFromExpirationTime(u.time, u.config) = expirationTimeToMs(u.time) - timeout
      BY DEF inferTimeFromExpirationTime
    <3> HIDE DEF timeout, u
    <3>4. /\ expirationTimeToMs(u.start) + timeout < expirationTimeToMs(u.time)
          /\ expirationTimeToMs(u.time) <= expirationTimeToMs(u.start) + timeout + LOW_PRIORITY_BATCH_SIZE
      BY <2>2, <3>1, <3>2, BucketBounds DEF Size
    <3> QED  BY <2>3, <2>6, <3>1, <3>3, <3>4
  <2> QED  BY <2>8, <2>9
<1> QED  BY <1>1, InvariantOfTimes, PTL

(***************************************************************************)
(* Both together: what the reconciler concludes from a time alone is right *)
(* (computeExpirationForFiber, inferPriorityFromExpirationTime).           *)
(***************************************************************************)
THEOREM TimesAreAlwaysRight == ExpirationTimeAssumption => (EventSpec => []TimesAreRight)
<1>1. UpdatesAreBatched /\ InferredIsMeant => TimesAreRight
  BY DEF TimesAreRight
<1> QED  BY <1>1, EventsAreBatched, PrioritiesAreInferred, PTL
-----------------------------------------------------------------------------
(***************************************************************************)
(* The effects of a function component, unless it is moved by its parent   *)
(* while its effect is passive (see the finding moved_effect).             *)
(***************************************************************************)
MovesAreHarmless == "passive" \notin Kinds \/ Moves \subseteq {{}}

EffectObject ==
  [kind : Kinds, fires : BOOLEAN, deps : Deps \cup {Nil}, destroy : Call \cup {Nil}]

HookTypes ==
  /\ effect \in [Object -> EffectObject]
  /\ \A o \in Object : effect[o].kind = Kind
  /\ current \in {1, 2, Nil} /\ pendingPassive \in BOOLEAN
  /\ phase \in {"idle", "body", "rendered", "unmounted"}
  /\ DOMAIN fiber = {1, 2}
  /\ \A f \in {1, 2} :
       /\ {"effect", "updateQueue", "effectTag"} \subseteq DOMAIN fiber[f]
       /\ fiber[f].effect \in Object \cup {Nil} /\ fiber[f].updateQueue \in Object \cup {Nil}

Rendering == phase \in {"body", "rendered"}
HoldsNothing(f) == fiber[f].effect = Nil /\ fiber[f].updateQueue = Nil
Fires(f) == effect[fiber[f].updateQueue].fires

\* How to clean up after the effect on the screen.
Cleanup ==
  IF current = Nil \/ phase = "unmounted" \/ Kind = "none" THEN Nil
  ELSE effect[fiber[current].updateQueue].destroy

\* No object but those on the way to the screen cleans up after anything.
OnlyCleanup == \A o \in Object : effect[o].destroy \in {Nil, Cleanup}

\* The objects of a fiber clean up after what is on the screen.
HoldsCleanup(f) ==
  /\ fiber[f].effect \in Object /\ fiber[f].updateQueue \in Object
  /\ effect[fiber[f].effect].destroy = Cleanup
  /\ effect[fiber[f].updateQueue].destroy = Cleanup

\* The passive effect of the fiber on the screen is still to be created.
ToBeCreated == pendingPassive /\ Kind = "passive" /\ Fires(current)

OneIsLive == live = [c \in Call |-> IF c = Cleanup THEN 1 ELSE 0]

BeforeMount ==
  current = Nil => /\ OnlyCleanup /\ phase # "unmounted" /\ HoldsNothing(2)
                   /\ Rendering /\ Kind # "none" =>
                        Fires(1) /\ {"Update", Kind} \subseteq fiber[1].effectTag

Abandoned == phase = "idle" => HoldsNothing(w)

WithoutEffect ==
  Kind = "none" => \A f \in {1, 2} : HoldsNothing(f) /\ "Update" \notin fiber[f].effectTag

OnScreen ==
  Kind # "none" /\ current # Nil /\ phase # "unmounted" =>
    /\ HoldsCleanup(current)
    /\ ~ToBeCreated => Cleanup \in Call
    /\ ToBeCreated => fiber[current].effect = fiber[current].updateQueue /\ OnlyCleanup

InProgress ==
  Kind # "none" /\ Rendering =>
    /\ HoldsCleanup(w)
    /\ "Update" \in fiber[w].effectTag /\ Fires(w) =>
         fiber[w].effect = fiber[w].updateQueue /\ OnlyCleanup
    /\ Kind = "passive" => fiber[w].effectTag \in {{}, {"Update", "passive"}}

PassiveWaits == pendingPassive => phase = "idle" /\ current # Nil

EffectInv ==
  /\ HookTypes /\ OneIsLive /\ BeforeMount /\ Abandoned /\ WithoutEffect
  /\ OnScreen /\ InProgress /\ PassiveWaits

\* Two fibers hold four objects at most, so that one of five is free.
LEMMA ObjectIsFree ==
  ASSUME HookQueueAssumption, HookTypes
  PROVE  /\ FreeObject \in Object /\ FreeObject \notin Held
         /\ \A f \in {1, 2} : fiber[f].effect \in Held /\ fiber[f].updateQueue \in Held
<1>1. Held = {fiber[1].effect, fiber[1].updateQueue, fiber[2].effect, fiber[2].updateQueue}
  <2>1. \A h : h \in Held <=> \E f \in {1, 2} : h \in {fiber[f].effect, fiber[f].updateQueue}
    BY DEF Held
  <2> QED
    BY <2>1
<1>2. \E o \in Object : o \notin Held
  BY <1>1, SMT DEF Object
<1>3. FreeObject \in Object /\ FreeObject \notin Held
  BY <1>2 DEF FreeObject
<1> QED
  BY <1>1, <1>3

\* The new effect object, those that are held as they were, and the others.
LEMMA Allocated ==
  ASSUME HookQueueAssumption, HookTypes, NEW fires \in BOOLEAN, NEW deps \in Deps,
         NEW destroy \in Call \cup {Nil}, effect' = allocated(fires, deps, destroy)
  PROVE  /\ effect' \in [Object -> EffectObject] /\ Kind' = Kind
         /\ \A o \in Object : effect'[o].kind = Kind
         /\ effect'[FreeObject].fires = fires /\ effect'[FreeObject].destroy = destroy
         /\ \A o \in Object : o \in Held => effect'[o] = effect[o]
         /\ \A o \in Object : o # FreeObject /\ o \notin Held => effect'[o].destroy = Nil
<1>1. FreeObject \in Object /\ FreeObject \notin Held
  BY ObjectIsFree
<1>2. Kind \in Kinds /\ 1 \in Object
  BY DEF HookTypes, Kind, EffectObject, Object
<1>3. effect' = [o \in Object |->
         IF o = FreeObject
         THEN [kind |-> Kind, fires |-> fires, deps |-> deps, destroy |-> destroy]
         ELSE IF o \in Held THEN effect[o] ELSE NoEffect(Kind)]
  BY DEF allocated
<1>4. [kind |-> Kind, fires |-> fires, deps |-> deps, destroy |-> destroy] \in EffectObject
  BY <1>2 DEF EffectObject
<1>5. NoEffect(Kind) \in EffectObject /\ NoEffect(Kind).kind = Kind /\ NoEffect(Kind).destroy = Nil
  BY <1>2 DEF EffectObject, NoEffect
<1>6. \A o \in Object : effect[o] \in EffectObject /\ effect[o].kind = Kind
  BY DEF HookTypes
<1>7. effect' \in [Object -> EffectObject]
  BY <1>3, <1>4, <1>5, <1>6
<1>8. \A o \in Object : effect'[o].kind = Kind
  BY <1>3, <1>5, <1>6
<1>9. Kind' = Kind
  BY <1>2, <1>8 DEF Kind
<1> QED
  BY <1>1, <1>3, <1>5, <1>7, <1>8, <1>9

LEMMA Fiber ==
  ASSUME HookQueueAssumption, HookTypes
  PROVE  /\ w \in {1, 2} /\ w # current /\ (current # Nil => current \in {1, 2})
         /\ (current = Nil => w = 1)
         /\ {1, 2} = {w, Other(w)} /\ (current # Nil => Other(w) = current)
<1>1. CASE current = Nil
  BY <1>1 DEF HookQueueAssumption, w, Other
<1>2. CASE current \in {1, 2}
  BY <1>2 DEF HookQueueAssumption, w, Other
<1> QED
  BY <1>1, <1>2 DEF HookTypes

\* A call of the component, on a fiber f that starts from what is on the screen.
LEMMA CallOfComponent ==
  ASSUME HookQueueAssumption, EffectInv, NEW f, NEW deps \in Deps,
         {"effect", "updateQueue", "effectTag"} \subseteq DOMAIN f,
         f.effect \in Object \cup {Nil}, f.updateQueue \in Object \cup {Nil},
         current # Nil /\ Kind # "none" =>
           f.effect \in Object /\ f.effect \in Held /\ effect[f.effect].destroy = Cleanup,
         Kind = "none" => f.effect = Nil /\ f.updateQueue = Nil /\ "Update" \notin f.effectTag,
         Kind = "passive" => f.effectTag \in {{}, {"Update", "passive"}},
         ~pendingPassive, phase # "unmounted", useEffect(f, deps), phase' = "body",
         UNCHANGED <<current, live, pendingPassive>>
  PROVE  EffectInv'
<1> USE DEF EffectInv
<1> DEFINE prev == IF mounting THEN Nil ELSE fiber[current].effect
           same == prev # Nil /\ effect[prev].deps = deps
           destroy == IF prev = Nil THEN Nil ELSE effect[prev].destroy
           g == [f EXCEPT !.updateQueue = FreeObject,
                          !.effect = IF same THEN @ ELSE FreeObject,
                          !.effectTag = IF same THEN @ ELSE @ \cup {"Update", Kind}]
<1>0. /\ w \in {1, 2} /\ w # current /\ (current = Nil => w = 1) /\ w' = w
      /\ {1, 2} = {w, Other(w)} /\ (current # Nil => Other(w) = current /\ current \in {1, 2})
  BY Fiber DEF w
<1>1. CASE Kind = "none"
  <2>1. UNCHANGED effect /\ fiber' = [fiber EXCEPT ![w] = f] /\ UNCHANGED Kind
    BY <1>1 DEF useEffect, Kind
  <2>2. fiber'[w] = f /\ \A h \in {1, 2} : h # w => fiber'[h] = fiber[h]
    BY <1>0, <2>1 DEF HookTypes
  <2>3. HookTypes'
    BY <1>0, <2>1, <2>2 DEF HookTypes
  <2>4. Cleanup = Nil /\ Cleanup' = Nil
    BY <1>1, <2>1 DEF Cleanup
  <2>5. OneIsLive' /\ OnlyCleanup'= OnlyCleanup
    BY <2>1, <2>4 DEF OneIsLive, OnlyCleanup
  <2>6. WithoutEffect'
    BY <1>1, <2>1, <2>2 DEF WithoutEffect, HoldsNothing
  <2> QED
    BY <1>0, <1>1, <2>1, <2>2, <2>3, <2>4, <2>5, <2>6
       DEF BeforeMount, Abandoned, OnScreen, InProgress, PassiveWaits, HoldsNothing
<1>2. CASE Kind # "none"
  <2>1. effect' = allocated(~same, deps, destroy) /\ fiber' = [fiber EXCEPT ![w] = g]
    BY <1>2 DEF useEffect
  <2>2. /\ same \in BOOLEAN /\ destroy = Cleanup /\ Cleanup \in Call \cup {Nil}
        /\ (current = Nil => ~same /\ Cleanup = Nil)
    <3>1. CASE current = Nil
      BY <3>1 DEF mounting, Cleanup
    <3>2. CASE current # Nil
      <4>1. HoldsCleanup(current)
        BY <1>2, <3>2 DEF OnScreen
      <4>2. prev = fiber[current].effect /\ prev \in Object /\ prev # Nil
        BY <3>2, <4>1 DEF mounting, HoldsCleanup, HookQueueAssumption, Object
      <4>3. effect[prev].destroy \in Call \cup {Nil}
        BY <4>2 DEF HookTypes, EffectObject
      <4> QED
        BY <3>2, <4>1, <4>2, <4>3 DEF HoldsCleanup
    <3> QED
      BY <3>1, <3>2
  <2> HIDE DEF same, destroy, prev
  <2>3. /\ effect' \in [Object -> EffectObject] /\ Kind' = Kind
        /\ \A o \in Object : effect'[o].kind = Kind
        /\ effect'[FreeObject].fires = (~same) /\ effect'[FreeObject].destroy = Cleanup
        /\ \A o \in Object : o \in Held => effect'[o] = effect[o]
        /\ \A o \in Object : o # FreeObject /\ o \notin Held => effect'[o].destroy = Nil
    <3>1. (~same) \in BOOLEAN /\ destroy \in Call \cup {Nil} /\ HookTypes
      BY <2>2
    <3>2. PICK fires \in BOOLEAN : fires = (~same)
      BY <3>1
    <3>3. effect' = allocated(fires, deps, Cleanup) /\ Cleanup \in Call \cup {Nil}
      BY <2>1, <2>2, <3>2
    <3>4. PICK undo \in Call \cup {Nil} : undo = Cleanup
      BY <3>3
    <3>5. effect' = allocated(fires, deps, undo)
      BY <3>3, <3>4
    <3>6. /\ effect' \in [Object -> EffectObject] /\ Kind' = Kind
          /\ \A o \in Object : effect'[o].kind = Kind
          /\ effect'[FreeObject].fires = fires /\ effect'[FreeObject].destroy = undo
          /\ \A o \in Object : o \in Held => effect'[o] = effect[o]
          /\ \A o \in Object : o # FreeObject /\ o \notin Held => effect'[o].destroy = Nil
      BY <3>1, <3>5, Allocated
    <3> QED
      BY <3>2, <3>4, <3>6
  <2>4. /\ FreeObject \in Object /\ FreeObject \notin Held
        /\ \A h \in {1, 2} : fiber[h].effect \in Held /\ fiber[h].updateQueue \in Held
    BY ObjectIsFree
  <2>5. /\ {"effect", "updateQueue", "effectTag"} \subseteq DOMAIN g
        /\ g.updateQueue = FreeObject /\ g.effect = IF same THEN f.effect ELSE FreeObject
        /\ g.effectTag = IF same THEN f.effectTag ELSE f.effectTag \cup {"Update", Kind}
    OBVIOUS
  <2> HIDE DEF g
  <2>6. fiber'[w] = g /\ (\A h \in {1, 2} : h # w => fiber'[h] = fiber[h]) /\ DOMAIN fiber' = {1, 2}
    BY <1>0, <2>1 DEF HookTypes
  <2>7. HookTypes'
    BY <1>0, <2>3, <2>4, <2>5, <2>6 DEF HookTypes
  <2>8. Cleanup' = Cleanup
    <3>1. CASE current = Nil
      BY <3>1 DEF Cleanup
    <3>2. CASE current # Nil
      BY <1>0, <1>2, <2>3, <2>4, <2>6, <3>2 DEF Cleanup, OnScreen, HoldsCleanup
    <3> QED
      BY <3>1, <3>2
  <2>9. OneIsLive'
    BY <2>8 DEF OneIsLive
  <2>10. OnlyCleanup'
    <3> SUFFICES ASSUME NEW o \in Object
                 PROVE  effect'[o].destroy \in {Nil, Cleanup}
      BY <2>8 DEF OnlyCleanup
    <3>1. CASE o = FreeObject
      BY <2>3, <3>1
    <3>2. CASE o \in Held
      <4>1. PICK h \in {1, 2} : o \in {fiber[h].effect, fiber[h].updateQueue}
        BY <3>2 DEF Held
      <4>2. o # Nil
        BY DEF HookQueueAssumption, Object
      <4>3. CASE current = Nil
        BY <2>3, <3>2, <4>3 DEF BeforeMount, OnlyCleanup
      <4>4. CASE current # Nil /\ h = current
        BY <1>2, <2>3, <3>2, <4>1, <4>4 DEF OnScreen, HoldsCleanup
      <4>5. CASE current # Nil /\ h = w /\ Rendering
        BY <1>2, <2>3, <3>2, <4>1, <4>5 DEF InProgress, HoldsCleanup
      <4>6. ~(current # Nil /\ h = w /\ ~Rendering)
        BY <4>1, <4>2 DEF Abandoned, HoldsNothing, Rendering, HookTypes
      <4> QED
        BY <1>0, <4>3, <4>4, <4>5, <4>6
    <3> QED
      BY <2>3, <3>1, <3>2
  <2>11. BeforeMount'
    <3> SUFFICES ASSUME current = Nil PROVE BeforeMount'
      BY DEF BeforeMount
    <3>1. w = 1 /\ ~same
      BY <1>0, <2>2
    <3>2. fiber'[2] = fiber[2] /\ fiber'[1] = g
      BY <2>6, <3>1
    <3>3. HoldsNothing(2)' /\ OnlyCleanup' /\ phase' # "unmounted"
      BY <2>10, <3>2 DEF BeforeMount, HoldsNothing
    <3>4. {"Update", Kind} \subseteq fiber'[1].effectTag
      BY <2>5, <3>1, <3>2
    <3>5. effect'[fiber'[1].updateQueue].fires
      BY <2>3, <2>5, <3>1, <3>2
    <3> QED
      BY <2>3, <3>3, <3>4, <3>5 DEF BeforeMount, Fires
  <2>12. OnScreen'
    <3> SUFFICES ASSUME current # Nil PROVE OnScreen'
      BY DEF OnScreen
    <3>1. fiber'[current] = fiber[current]
      BY <1>0, <2>6
    <3>2. HoldsCleanup(current) /\ Cleanup \in Call
      BY <1>2 DEF OnScreen, ToBeCreated
    <3> QED
      BY <1>0, <2>3, <2>4, <2>8, <3>1, <3>2 DEF OnScreen, HoldsCleanup, ToBeCreated
  <2>13. InProgress'
    <3>1. HoldsCleanup(w)'
      <4>1. fiber'[w].updateQueue = FreeObject /\ fiber'[w].effect \in Object
        BY <2>2, <2>4, <2>5, <2>6, <1>2
      <4>2. effect'[fiber'[w].effect].destroy = Cleanup
        BY <1>2, <2>2, <2>3, <2>5, <2>6
      <4> QED
        BY <1>0, <2>3, <2>4, <2>8, <4>1, <4>2 DEF HoldsCleanup
    <3>2. Fires(w)' => ~same
      BY <1>0, <2>3, <2>5, <2>6 DEF Fires
    <3>3. Fires(w)' => fiber'[w].effect = fiber'[w].updateQueue
      BY <2>5, <2>6, <3>2
    <3>4. Kind = "passive" => fiber'[w].effectTag \in {{}, {"Update", "passive"}}
      BY <2>5, <2>6
    <3> QED
      BY <1>0, <2>3, <2>10, <3>1, <3>2, <3>3, <3>4 DEF InProgress
  <2>14. Abandoned' /\ WithoutEffect' /\ PassiveWaits'
    BY <1>2, <2>3 DEF Abandoned, WithoutEffect, PassiveWaits
  <2> QED
    BY <2>7, <2>9, <2>11, <2>12, <2>13, <2>14
<1> QED
  BY <1>1, <1>2

-----------------------------------------------------------------------------
LEMMA MountKeepsEffects ==
  ASSUME HookQueueAssumption, EffectInv, NEW t, NEW deps \in Deps, mountComponent(t, deps)
  PROVE  EffectInv'
<1> DEFINE f == [NoFiber EXCEPT !.exists = TRUE, !.memoizedState = Initial, !.baseState = Initial]
<1>1. /\ DOMAIN f = DOMAIN NoFiber /\ f.effect = Nil /\ f.updateQueue = Nil /\ f.effectTag = {}
  BY DEF NoFiber
<1>2. {"effect", "updateQueue", "effectTag"} \subseteq DOMAIN f
  BY <1>1 DEF NoFiber
<1>3. useEffect(f, deps) /\ phase' = "body" /\ UNCHANGED <<current, live, pendingPassive>>
  BY DEF mountComponent, body
<1>4. current = Nil /\ phase # "unmounted" /\ ~pendingPassive
  BY DEF mountComponent, mounting, startRender
<1> HIDE DEF f
<1> QED
  BY <1>1, <1>2, <1>3, <1>4, CallOfComponent

LEMMA RenderKeepsEffects ==
  ASSUME HookQueueAssumption, MovesAreHarmless, EffectInv,
         \E t \in 1 .. MaxTime, moved \in Moves, d \in Deps, received \in BOOLEAN :
           renderWithHooks(t, d, received, moved)
  PROVE  EffectInv'
<1> PICK t \in 1 .. MaxTime, moved \in Moves, deps \in Deps, received \in BOOLEAN :
           renderWithHooks(t, deps, received, moved)
  OBVIOUS
<1> DEFINE hook == [cloned EXCEPT !.effectTag = moved]
           f == updateReducer(hook, t)
<1>1. /\ current \in {1, 2} /\ current # Nil /\ phase \in {"idle", "rendered"} /\ ~pendingPassive
  BY DEF renderWithHooks, mounting, startRender, EffectInv, HookTypes
<1>2. /\ {"effect", "updateQueue", "effectTag"} \subseteq DOMAIN hook
      /\ hook.effect = fiber[current].effect /\ hook.updateQueue = fiber[current].updateQueue
      /\ hook.effectTag = moved
  BY <1>1 DEF EffectInv, HookTypes, cloned
<1> HIDE DEF hook
<1>3. /\ DOMAIN f = DOMAIN hook /\ f.effect = hook.effect /\ f.updateQueue = hook.updateQueue
      /\ f.effectTag = hook.effectTag
  BY <1>2 DEF updateReducer
<1>4. useEffect(f, deps) /\ phase' = "body" /\ UNCHANGED <<current, live, pendingPassive>>
  BY DEF renderWithHooks, body, hook
<1> HIDE DEF f
<1>5. "Update" \notin f.effectTag /\ (Kind = "passive" => f.effectTag = {})
  <2>1. Kind \in Kinds
    BY DEF EffectInv, HookTypes, EffectObject, Object, Kind
  <2>2. moved \in {{}, {"Placement"}}
    BY DEF HookQueueAssumption
  <2>3. Kind = "passive" => moved = {}
    BY <2>1 DEF MovesAreHarmless
  <2> QED
    BY <1>2, <1>3, <2>2, <2>3
<1>6. Kind = "none" => f.effect = Nil /\ f.updateQueue = Nil
  BY <1>1, <1>2, <1>3 DEF EffectInv, WithoutEffect, HoldsNothing
<1>7. Kind # "none" => f.effect \in Object /\ f.effect \in Held /\ effect[f.effect].destroy = Cleanup
  BY <1>1, <1>2, <1>3, ObjectIsFree DEF EffectInv, OnScreen, HoldsCleanup
<1>8. f.effect \in Object \cup {Nil} /\ f.updateQueue \in Object \cup {Nil}
  BY <1>1, <1>2, <1>3 DEF EffectInv, HookTypes
<1> QED
  BY <1>1, <1>2, <1>3, <1>4, <1>5, <1>6, <1>7, <1>8, CallOfComponent

LEMMA ReRenderKeepsEffects ==
  ASSUME HookQueueAssumption, EffectInv, NEW deps \in Deps, reRender(deps)
  PROVE  EffectInv'
<1> DEFINE s == FoldLeft(LAMBDA acc, a : Reduce[acc, a], fiber[w].memoizedState,
                         renderPhaseUpdates)
           f == [fiber[w] EXCEPT !.memoizedState = s,
                                 !.baseState = IF fiber[w].baseUpdate = last THEN s ELSE @]
<1>1. phase = "body" /\ ~pendingPassive /\ w \in {1, 2}
  BY Fiber DEF reRender, EffectInv, PassiveWaits
<1>2. useEffect(f, deps) /\ phase' = "body" /\ UNCHANGED <<current, live, pendingPassive>>
  BY DEF reRender, body
<1> HIDE DEF s
<1>3. /\ {"effect", "updateQueue", "effectTag"} \subseteq DOMAIN f
      /\ f.effect = fiber[w].effect /\ f.updateQueue = fiber[w].updateQueue
      /\ f.effectTag = fiber[w].effectTag
  BY <1>1 DEF EffectInv, HookTypes
<1> HIDE DEF f
<1>4. Kind = "none" => f.effect = Nil /\ f.updateQueue = Nil /\ "Update" \notin f.effectTag
  BY <1>1, <1>3 DEF EffectInv, WithoutEffect, HoldsNothing
<1>5. Kind # "none" => f.effect \in Object /\ f.effect \in Held /\ effect[f.effect].destroy = Cleanup
  BY <1>1, <1>3, ObjectIsFree DEF EffectInv, InProgress, Rendering, HoldsCleanup
<1>6. Kind = "passive" => f.effectTag \in {{}, {"Update", "passive"}}
  BY <1>1, <1>3 DEF EffectInv, InProgress, Rendering
<1>7. f.effect \in Object \cup {Nil} /\ f.updateQueue \in Object \cup {Nil}
  BY <1>1, <1>3 DEF EffectInv, HookTypes
<1> QED
  BY <1>1, <1>2, <1>3, <1>4, <1>5, <1>6, <1>7, CallOfComponent

\* A step that leaves the effects and what the fibers hold as they are.
LEMMA FibersKeepEffects ==
  ASSUME HookQueueAssumption, EffectInv, DOMAIN fiber' = {1, 2},
         \A f \in {1, 2} : /\ {"effect", "updateQueue", "effectTag"} \subseteq DOMAIN fiber'[f]
                           /\ fiber'[f].effect = fiber[f].effect
                           /\ fiber'[f].updateQueue = fiber[f].updateQueue
                           /\ fiber'[f].effectTag = fiber[f].effectTag,
         UNCHANGED <<current, phase, effect, live, pendingPassive>>
  PROVE  EffectInv'
<1> USE DEF EffectInv
<1>1. w' = w /\ w \in {1, 2} /\ Kind' = Kind /\ (current # Nil => current \in {1, 2})
  BY Fiber DEF w, Kind
<1>2. HookTypes'
  BY <1>1 DEF HookTypes
<1>3. Cleanup' = Cleanup
  BY <1>1 DEF Cleanup
<1>4. /\ OneIsLive' /\ OnlyCleanup' = OnlyCleanup /\ Rendering' = Rendering
      /\ \A f \in {1, 2} : /\ HoldsNothing(f)' <=> HoldsNothing(f)
                           /\ Fires(f)' <=> Fires(f)
                           /\ HoldsCleanup(f)' <=> HoldsCleanup(f)
  BY <1>3 DEF OneIsLive, OnlyCleanup, Rendering, HoldsNothing, Fires, HoldsCleanup
<1>5. BeforeMount' /\ Abandoned' /\ WithoutEffect' /\ PassiveWaits'
  BY <1>1, <1>4 DEF BeforeMount, Abandoned, WithoutEffect, PassiveWaits
<1>6. OnScreen' /\ InProgress'
  BY <1>1, <1>3, <1>4 DEF OnScreen, InProgress, ToBeCreated
<1> QED
  BY <1>2, <1>4, <1>5, <1>6

LEMMA DispatchKeepsEffects ==
  ASSUME HookQueueAssumption, EffectInv, NEW t, NEW a, dispatchAction(t, a)
  PROVE  EffectInv'
<1>1. fiber' = fiber \/ fiber' = scheduled(t)
  BY Zenon DEF dispatchAction
<1>2. /\ DOMAIN fiber' = {1, 2}
      /\ \A f \in {1, 2} : /\ {"effect", "updateQueue", "effectTag"} \subseteq DOMAIN fiber'[f]
                           /\ fiber'[f].effect = fiber[f].effect
                           /\ fiber'[f].updateQueue = fiber[f].updateQueue
                           /\ fiber'[f].effectTag = fiber[f].effectTag
  BY <1>1 DEF EffectInv, HookTypes, scheduled
<1>3. UNCHANGED <<current, phase, effect, live, pendingPassive>>
  BY Zenon DEF dispatchAction, effectVars
<1> QED
  BY <1>2, <1>3, FibersKeepEffects

LEMMA BeginKeepsEffects ==
  ASSUME HookQueueAssumption, MovesAreHarmless, EffectInv, NEW t, NEW moved \in Moves,
         beginWithoutWork(t, moved)
  PROVE  EffectInv'
<1> USE DEF EffectInv
<1> DEFINE g == [cloned EXCEPT !.effectTag = moved]
<1>1. /\ current \in {1, 2} /\ current # Nil /\ phase \in {"idle", "rendered"} /\ ~pendingPassive
      /\ w \in {1, 2} /\ w # current /\ {1, 2} = {w, current}
      /\ UNCHANGED <<current, effect, live, pendingPassive>> /\ phase' = "rendered"
      /\ fiber' = [fiber EXCEPT ![w] = g] /\ w' = w /\ Kind' = Kind
  BY Fiber DEF beginWithoutWork, mounting, startRender, effectVars, w, Kind
<1>2. /\ {"effect", "updateQueue", "effectTag"} \subseteq DOMAIN g
      /\ g.effect = fiber[current].effect /\ g.updateQueue = fiber[current].updateQueue
      /\ g.effectTag = moved
  BY <1>1 DEF HookTypes, cloned
<1> HIDE DEF g
<1>3. fiber'[w] = g /\ fiber'[current] = fiber[current] /\ DOMAIN fiber' = {1, 2}
  BY <1>1 DEF HookTypes
<1>4. "Update" \notin moved /\ (Kind = "passive" => moved = {})
  <2>1. Kind \in Kinds
    BY DEF HookTypes, EffectObject, Object, Kind
  <2>2. moved \in {{}, {"Placement"}}
    BY DEF HookQueueAssumption
  <2> QED
    BY <2>1, <2>2 DEF MovesAreHarmless
<1>5. HookTypes'
  BY <1>1, <1>2, <1>3 DEF HookTypes
<1>6. Cleanup' = Cleanup
  BY <1>1, <1>3 DEF Cleanup
<1>7. OneIsLive' /\ BeforeMount' /\ Abandoned' /\ PassiveWaits'
  BY <1>1, <1>6 DEF OneIsLive, BeforeMount, Abandoned, PassiveWaits
<1>8. WithoutEffect'
  BY <1>1, <1>2, <1>3, <1>4 DEF WithoutEffect, HoldsNothing
<1>9. OnScreen'
  BY <1>1, <1>3, <1>6 DEF OnScreen, HoldsCleanup, ToBeCreated
<1>10. InProgress'
  BY <1>1, <1>2, <1>3, <1>4, <1>6 DEF InProgress, OnScreen, HoldsCleanup
<1> QED
  BY <1>5, <1>7, <1>8, <1>9, <1>10

LEMMA ThrowKeepsEffects ==
  ASSUME HookQueueAssumption, EffectInv, componentThrows
  PROVE  EffectInv'
<1> USE DEF EffectInv
<1> DEFINE g == IF mounting THEN NoFiber ELSE Stale(fiber[w])
<1>1. /\ w \in {1, 2} /\ w # current /\ (current # Nil => current \in {1, 2} /\ {1, 2} = {w, current})
      /\ (current = Nil => w = 1) /\ ~pendingPassive
      /\ UNCHANGED <<current, effect, live, pendingPassive>> /\ phase' = "idle" /\ phase = "body"
      /\ fiber' = [fiber EXCEPT ![w] = g] /\ w' = w /\ Kind' = Kind
  BY Fiber DEF componentThrows, effectVars, w, Kind, PassiveWaits
<1>2. /\ {"effect", "updateQueue", "effectTag"} \subseteq DOMAIN g
      /\ g.effect = Nil /\ g.updateQueue = Nil /\ g.effectTag = {}
  BY DEF NoFiber, Stale
<1> HIDE DEF g
<1>3. fiber'[w] = g /\ (\A f \in {1, 2} : f # w => fiber'[f] = fiber[f]) /\ DOMAIN fiber' = {1, 2}
  BY <1>1 DEF HookTypes
<1>4. HookTypes'
  BY <1>1, <1>2, <1>3 DEF HookTypes
<1>5. Cleanup' = Cleanup
  BY <1>1, <1>3 DEF Cleanup
<1>6. OneIsLive' /\ OnlyCleanup' = OnlyCleanup
  BY <1>1, <1>5 DEF OneIsLive, OnlyCleanup
<1>7. BeforeMount' /\ Abandoned' /\ PassiveWaits'
  BY <1>1, <1>2, <1>3, <1>6
     DEF BeforeMount, Abandoned, PassiveWaits, Rendering, HoldsNothing
<1>8. WithoutEffect'
  BY <1>1, <1>2, <1>3 DEF WithoutEffect, HoldsNothing
<1>9. OnScreen' /\ InProgress'
  BY <1>1, <1>3, <1>5 DEF OnScreen, InProgress, Rendering, HoldsCleanup, ToBeCreated
<1> QED
  BY <1>4, <1>6, <1>7, <1>8, <1>9

LEMMA FinishKeepsEffects ==
  ASSUME HookQueueAssumption, EffectInv, finishComponent
  PROVE  EffectInv'
<1> USE DEF EffectInv
<1>1. /\ w \in {1, 2} /\ w # current /\ (current # Nil => current \in {1, 2} /\ {1, 2} = {w, current})
      /\ (current = Nil => w = 1) /\ ~pendingPassive
      /\ UNCHANGED <<current, effect, live, pendingPassive>> /\ phase' = "rendered" /\ phase = "body"
      /\ w' = w /\ Kind' = Kind
  BY Fiber DEF finishComponent, effectVars, w, Kind, PassiveWaits
<1>2. CASE UNCHANGED fiber
  <2>1. Cleanup' = Cleanup
    BY <1>1, <1>2 DEF Cleanup
  <2> QED
    BY <1>1, <1>2, <2>1
       DEF HookTypes, OneIsLive, OnlyCleanup, BeforeMount, Abandoned, WithoutEffect, OnScreen,
           InProgress, PassiveWaits, Rendering, HoldsNothing, HoldsCleanup, Fires, ToBeCreated
<1>3. CASE current # Nil /\ bailoutHooks
  <2> DEFINE g == [fiber[w] EXCEPT !.updateQueue = fiber[current].updateQueue,
                                   !.effectTag = @ \ {"passive", "Update"}]
             c == [fiber[current] EXCEPT !.expirationTime = IF @ <= time THEN NoTime ELSE @]
  <2>1. fiber'[w] = g /\ fiber'[current] = c /\ DOMAIN fiber' = {1, 2}
    BY <1>1, <1>3 DEF bailoutHooks, HookTypes
  <2>2. /\ {"effect", "updateQueue", "effectTag"} \subseteq DOMAIN g
        /\ g.effect = fiber[w].effect /\ g.updateQueue = fiber[current].updateQueue
        /\ g.effectTag = fiber[w].effectTag \ {"passive", "Update"}
    BY <1>1 DEF HookTypes
  <2>3. /\ {"effect", "updateQueue", "effectTag"} \subseteq DOMAIN c
        /\ c.effect = fiber[current].effect /\ c.updateQueue = fiber[current].updateQueue
        /\ c.effectTag = fiber[current].effectTag
    BY <1>1, <1>3 DEF HookTypes
  <2> HIDE DEF g, c
  <2>4. HookTypes'
    BY <1>1, <1>3, <2>1, <2>2, <2>3 DEF HookTypes
  <2>5. Cleanup' = Cleanup
    BY <1>1, <2>1, <2>3 DEF Cleanup
  <2>6. OneIsLive' /\ BeforeMount' /\ Abandoned' /\ PassiveWaits'
    BY <1>1, <1>3, <2>5 DEF OneIsLive, BeforeMount, Abandoned, PassiveWaits
  <2>7. WithoutEffect'
    BY <1>1, <1>3, <2>1, <2>2, <2>3 DEF WithoutEffect, HoldsNothing
  <2>8. OnScreen'
    BY <1>1, <2>1, <2>3, <2>5 DEF OnScreen, HoldsCleanup, ToBeCreated
  <2>9. InProgress'
    BY <1>1, <1>3, <2>1, <2>2, <2>5 DEF InProgress, Rendering, OnScreen, HoldsCleanup
  <2> QED
    BY <2>4, <2>6, <2>7, <2>8, <2>9
<1> QED
  BY <1>2, <1>3 DEF finishComponent, mounting

\* An effect that fires is cleaned up and created: again one call is live.
LEMMA Created ==
  ASSUME HookQueueAssumption, HookTypes, OneIsLive, OnlyCleanup, Kind \in Kinds,
         NEW o \in Object, effect[o].destroy = Cleanup, effect[o].fires, commitHookEffectList(o)
  PROVE  \E c \in Call :
           /\ live' = [x \in Call |-> IF x = c THEN 1 ELSE 0]
           /\ effect' = [effect EXCEPT ![o].destroy = c]
<1> DEFINE c == FreeCall
           left == [x \in Call |-> IF x = effect[o].destroy THEN live[x] - 1 ELSE live[x]]
<1>1. \E x \in Call : live[x] = 0 /\ \A p \in Object : effect[p].destroy # x
  <2>1. PICK x \in Call : x # Cleanup
    BY SMT DEF Call
  <2>2. x # Nil
    BY DEF HookQueueAssumption, Call
  <2> QED
    BY <2>1, <2>2 DEF OneIsLive, OnlyCleanup
<1>2. c \in Call /\ live[c] = 0 /\ effect[o].destroy # c
  BY <1>1 DEF FreeCall
<1>3. o # Nil
  BY DEF HookQueueAssumption, Object
<1>4. live' = [left EXCEPT ![c] = @ + 1] /\ effect' = [effect EXCEPT ![o].destroy = c]
  BY <1>3 DEF commitHookEffectList
<1> HIDE DEF c
<1>5. left = [x \in Call |-> 0]
  BY DEF OneIsLive
<1> HIDE DEF left
<1>6. live' = [x \in Call |-> IF x = c THEN 1 ELSE 0]
  BY <1>2, <1>4, <1>5
<1> QED
  BY <1>2, <1>4, <1>6

LEMMA FlushKeepsEffects ==
  ASSUME HookQueueAssumption, EffectInv, flushPassiveEffects
  PROVE  EffectInv'
<1> USE DEF EffectInv
<1>1. /\ w \in {1, 2} /\ w # current /\ current \in {1, 2} /\ current # Nil /\ phase = "idle"
      /\ UNCHANGED <<current, fiber, phase>> /\ pendingPassive /\ pendingPassive' = FALSE
      /\ w' = w
  BY Fiber DEF flushPassiveEffects, PassiveWaits, w
<1>2. Kind \in Kinds
  BY DEF HookTypes, EffectObject, Object, Kind
<1> DEFINE o == fiber[current].updateQueue
<1>3. CASE Kind = "passive" /\ Fires(current)
  <2>1. o \in Object /\ effect[o].destroy = Cleanup /\ effect[o].fires
    BY <1>1, <1>3 DEF OnScreen, HoldsCleanup, Fires
  <2>2. fiber[current].effect = o /\ OnlyCleanup
    BY <1>1, <1>3 DEF OnScreen, ToBeCreated
  <2>3. commitHookEffectList(o)
    BY <1>3 DEF flushPassiveEffects
  <2> HIDE DEF o
  <2>4. PICK c \in Call : /\ live' = [x \in Call |-> IF x = c THEN 1 ELSE 0]
                          /\ effect' = [effect EXCEPT ![o].destroy = c]
    BY <1>2, <2>1, <2>2, <2>3, Created
  <2>5. /\ effect' \in [Object -> EffectObject] /\ effect'[o].destroy = c
        /\ \A p \in Object : effect'[p].kind = effect[p].kind
    BY <2>1, <2>4 DEF HookTypes, EffectObject
  <2>6. Kind' = Kind
    BY <2>5 DEF Kind, Object
  <2>7. HookTypes'
    <3>1. pendingPassive' \in BOOLEAN
      BY <1>1
    <3>2. \A p \in Object : effect'[p].kind = Kind'
      BY <2>5, <2>6 DEF HookTypes
    <3> QED
      BY <1>1, <2>5, <3>1, <3>2 DEF HookTypes
  <2>8. Cleanup' = c
    BY <1>1, <1>3, <2>5, <2>6 DEF Cleanup, o
  <2>9. OneIsLive' /\ BeforeMount' /\ Abandoned' /\ PassiveWaits' /\ InProgress' /\ WithoutEffect'
    BY <1>1, <1>3, <2>4, <2>6, <2>8 DEF OneIsLive, BeforeMount, Abandoned, HoldsNothing,
       PassiveWaits, InProgress, Rendering, WithoutEffect
  <2>10. OnScreen'
    BY <1>1, <2>1, <2>2, <2>5, <2>8 DEF OnScreen, HoldsCleanup, ToBeCreated, o
  <2> QED
    BY <2>7, <2>9, <2>10
<1>4. CASE ~(Kind = "passive" /\ Fires(current))
  <2>1. UNCHANGED <<live, effect>> /\ Kind' = Kind
    <3>1. CASE Kind = "passive"
      BY <1>4, <3>1 DEF flushPassiveEffects, commitHookEffectList, Fires, Kind
    <3>2. CASE Kind # "passive"
      BY <3>2 DEF flushPassiveEffects, Kind
    <3> QED
      BY <3>1, <3>2
  <2>2. HookTypes' /\ Cleanup' = Cleanup
    <3>1. pendingPassive' \in BOOLEAN
      BY <1>1
    <3> QED
      BY <1>1, <2>1, <3>1 DEF HookTypes, Cleanup
  <2>3. OneIsLive' /\ BeforeMount' /\ Abandoned' /\ PassiveWaits' /\ InProgress' /\ WithoutEffect'
    BY <1>1, <2>1, <2>2 DEF OneIsLive, BeforeMount, Abandoned, HoldsNothing,
       PassiveWaits, InProgress, Rendering, WithoutEffect
  <2>4. OnScreen'
    BY <1>1, <1>4, <2>1, <2>2 DEF OnScreen, HoldsCleanup, ToBeCreated
  <2> QED
    BY <2>2, <2>3, <2>4
<1> QED
  BY <1>3, <1>4

LEMMA UnmountKeepsEffects ==
  ASSUME HookQueueAssumption, EffectInv, commitUnmount
  PROVE  EffectInv'
<1> USE DEF EffectInv
<1>1. /\ current \in {1, 2} /\ current # Nil /\ ~pendingPassive /\ phase # "unmounted"
      /\ UNCHANGED <<current, effect, pendingPassive>> /\ phase' = "unmounted"
      /\ fiber' = [f \in {1, 2} |-> NoFiber] /\ Kind' = Kind
  BY DEF commitUnmount, Kind, HookTypes
<1>2. /\ {"effect", "updateQueue", "effectTag"} \subseteq DOMAIN NoFiber
      /\ NoFiber.effect = Nil /\ NoFiber.updateQueue = Nil /\ NoFiber.effectTag = {}
  BY DEF NoFiber
<1>3. HookTypes' /\ Cleanup' = Nil
  BY <1>1, <1>2 DEF HookTypes, Cleanup
<1>4. live' = [c \in Call |-> 0]
  <2> DEFINE o == fiber[current].updateQueue
             gone == IF o = Nil THEN Nil ELSE effect[o].destroy
  <2>1. gone = Cleanup
    <3>1. CASE Kind = "none"
      BY <1>1, <3>1 DEF WithoutEffect, HoldsNothing, Cleanup
    <3>2. CASE Kind # "none"
      <4>1. o \in Object /\ o # Nil
        BY <1>1, <3>2 DEF OnScreen, HoldsCleanup, HookQueueAssumption, Object
      <4> QED
        BY <1>1, <3>2, <4>1 DEF Cleanup
    <3> QED
      BY <3>1, <3>2
  <2>2. live' = [c \in Call |-> IF c = gone THEN live[c] - 1 ELSE live[c]]
    BY DEF commitUnmount
  <2> HIDE DEF gone
  <2> QED
    BY <2>1, <2>2 DEF OneIsLive
<1>5. \A c \in Call : c # Nil
  BY DEF HookQueueAssumption, Call
<1>6. OneIsLive'
  BY <1>3, <1>4, <1>5 DEF OneIsLive
<1>7. /\ BeforeMount' /\ Abandoned' /\ WithoutEffect' /\ OnScreen' /\ InProgress' /\ PassiveWaits'
  BY <1>1, <1>2 DEF BeforeMount, Abandoned, WithoutEffect, OnScreen, InProgress, Rendering,
     PassiveWaits, HoldsNothing
<1> QED
  BY <1>3, <1>6, <1>7

\* What is rendered is now on the screen; a layout effect that fires has run.
LEMMA CommitKeepsEffects ==
  ASSUME HookQueueAssumption, EffectInv, NEW others \in BOOLEAN, commit(others)
  PROVE  EffectInv'
<1> USE DEF EffectInv
<1>0. PICK f \in {1, 2} : f = w
  BY Fiber
<1> DEFINE o == fiber[f].updateQueue
           runs == {"Update", "layout"} \subseteq fiber[f].effectTag
<1>1. /\ f \in {1, 2} /\ w' = Other(f) /\ Other(f) \in {1, 2} /\ Other(f) # f
      /\ (current = Nil => f = 1) /\ (current # Nil => Other(f) = current)
      /\ {1, 2} = {f, Other(f)} /\ current' = f /\ f # Nil
      /\ phase = "rendered" /\ phase' = "idle" /\ ~pendingPassive
  BY <1>0, Fiber DEF commit, w, Other, HookQueueAssumption
<1>2. /\ fiber' = [h \in {1, 2} |-> IF h = f THEN [fiber[h] EXCEPT !.effectTag = {}]
                                     ELSE Stale(fiber[h])]
      /\ IF runs THEN commitHookEffectList(o) ELSE UNCHANGED <<live, effect>>
      /\ pendingPassive' = ("passive" \in fiber[f].effectTag \/ (others /\ fiber[f].effectTag # {}))
  BY <1>0 DEF commit
<1>3. /\ {"effect", "updateQueue", "effectTag"} \subseteq DOMAIN fiber'[f]
      /\ fiber'[f].effect = fiber[f].effect /\ fiber'[f].updateQueue = fiber[f].updateQueue
      /\ fiber'[f].effectTag = {} /\ DOMAIN fiber' = {1, 2}
  BY <1>1, <1>2 DEF HookTypes
<1>4. /\ {"effect", "updateQueue", "effectTag"} \subseteq DOMAIN fiber'[Other(f)]
      /\ fiber'[Other(f)].effect = Nil /\ fiber'[Other(f)].updateQueue = Nil
      /\ fiber'[Other(f)].effectTag = {}
  <2>1. fiber'[Other(f)] = Stale(fiber[Other(f)])
    BY <1>1, <1>2
  <2> QED
    BY <2>1 DEF Stale, NoFiber
<1>5. Kind \in Kinds /\ pendingPassive' \in BOOLEAN
  BY <1>2 DEF HookTypes, EffectObject, Object, Kind
<1>6. CASE Kind = "none"
  <2>1. UNCHANGED <<live, effect>> /\ Kind' = Kind
    BY <1>1, <1>2, <1>6 DEF WithoutEffect, Kind
  <2>2. HookTypes' /\ Cleanup' = Nil /\ Cleanup = Nil
    BY <1>1, <1>3, <1>4, <1>5, <1>6, <2>1 DEF HookTypes, Cleanup
  <2>3. \A h \in {1, 2} : HoldsNothing(h)' /\ "Update" \notin fiber'[h].effectTag
    BY <1>1, <1>3, <1>4, <1>6 DEF WithoutEffect, HoldsNothing
  <2> QED
    BY <1>1, <1>6, <2>1, <2>2, <2>3 DEF OneIsLive, BeforeMount, Abandoned, WithoutEffect,
       OnScreen, InProgress, Rendering, PassiveWaits
<1>7. CASE Kind # "none"
  <2>1. /\ o \in Object /\ fiber[f].effect \in Object /\ effect[o].destroy = Cleanup
        /\ effect[fiber[f].effect].destroy = Cleanup
        /\ "Update" \in fiber[f].effectTag /\ Fires(f) => fiber[f].effect = o /\ OnlyCleanup
        /\ Kind = "passive" => fiber[f].effectTag \in {{}, {"Update", "passive"}}
    BY <1>0, <1>1, <1>7 DEF InProgress, HoldsCleanup, Rendering
  <2>2. current = Nil => Fires(f) /\ {"Update", Kind} \subseteq fiber[f].effectTag
    BY <1>1, <1>7 DEF BeforeMount, Rendering
  <2>3. current # Nil => Cleanup \in Call
    BY <1>1, <1>7 DEF OnScreen, ToBeCreated
  <2>4. CASE runs /\ Fires(f)
    <3>1. PICK c \in Call : /\ live' = [x \in Call |-> IF x = c THEN 1 ELSE 0]
                            /\ effect' = [effect EXCEPT ![o].destroy = c]
      <4>1. commitHookEffectList(o) /\ effect[o].fires /\ OnlyCleanup
        BY <1>2, <2>1, <2>4 DEF Fires
      <4> HIDE DEF o
      <4> QED
        BY <1>5, <2>1, <4>1, Created
    <3>2. Kind # "passive"
      BY <2>1, <2>4
    <3>3. /\ effect' \in [Object -> EffectObject] /\ effect'[o].destroy = c
          /\ \A p \in Object : effect'[p].kind = effect[p].kind
      BY <2>1, <3>1 DEF HookTypes, EffectObject
    <3>4. Kind' = Kind
      BY <3>3 DEF Kind, Object
    <3>5. HookTypes'
      BY <1>1, <1>3, <1>4, <1>5, <3>3, <3>4 DEF HookTypes
    <3>6. Cleanup' = c
      BY <1>1, <1>3, <1>7, <3>3, <3>4 DEF Cleanup
    <3>7. OneIsLive' /\ BeforeMount' /\ Abandoned' /\ WithoutEffect' /\ InProgress' /\ PassiveWaits'
      BY <1>1, <1>4, <1>7, <3>1, <3>4, <3>6 DEF OneIsLive, BeforeMount, Abandoned, WithoutEffect,
         InProgress, Rendering, PassiveWaits, HoldsNothing
    <3>8. fiber[f].effect = o
      BY <2>1, <2>4
    <3>9. OnScreen'
      BY <1>1, <1>3, <2>1, <3>2, <3>3, <3>4, <3>6, <3>8 DEF OnScreen, HoldsCleanup, ToBeCreated
    <3> QED
      BY <3>5, <3>7, <3>9
  <2>5. CASE ~(runs /\ Fires(f))
    <3>1. UNCHANGED <<live, effect>> /\ Kind' = Kind
      BY <1>2, <2>5 DEF commitHookEffectList, Fires, Kind
    <3>2. HookTypes'
      BY <1>1, <1>3, <1>4, <1>5, <3>1 DEF HookTypes
    <3>3. Cleanup' = Cleanup
      BY <1>1, <1>3, <1>7, <2>1, <3>1 DEF Cleanup
    <3>4. /\ OneIsLive' /\ BeforeMount' /\ Abandoned' /\ WithoutEffect' /\ InProgress'
          /\ PassiveWaits' /\ OnlyCleanup' = OnlyCleanup
      BY <1>1, <1>4, <1>7, <3>1, <3>3 DEF OneIsLive, OnlyCleanup, BeforeMount, Abandoned,
         WithoutEffect, InProgress, Rendering, PassiveWaits, HoldsNothing
    <3>5. HoldsCleanup(f)' /\ Fires(f)' = Fires(f)
      BY <1>3, <2>1, <3>1, <3>3 DEF HoldsCleanup, Fires
    <3>6. ASSUME ToBeCreated'
          PROVE  fiber'[f].effect = fiber'[f].updateQueue /\ OnlyCleanup'
      <4>1. pendingPassive' /\ Kind = "passive" /\ Fires(f)
        BY <1>1, <3>1, <3>5, <3>6 DEF ToBeCreated
      <4>2. "Update" \in fiber[f].effectTag
        <5>1. "passive" \in fiber[f].effectTag \/ (others /\ fiber[f].effectTag # {})
          BY <1>2, <4>1, Zenon
        <5> QED
          BY <2>1, <4>1, <5>1
      <4> QED
        BY <1>3, <2>1, <3>4, <4>1, <4>2
    <3>7. ASSUME ~ToBeCreated'
          PROVE  Cleanup \in Call
      <4>1. CASE current = Nil
        <5>1. Fires(f)' /\ {"Update", Kind} \subseteq fiber[f].effectTag
          BY <2>2, <3>5, <4>1
        <5>2. Kind # "layout"
          BY <2>2, <2>5, <4>1
        <5>3. Kind = "passive"
          BY <1>5, <1>7, <5>2 DEF HookQueueAssumption
        <5>4. pendingPassive'
          BY <1>2, <5>1, <5>3
        <5> QED
          BY <1>1, <3>1, <3>7, <5>1, <5>3, <5>4 DEF ToBeCreated
      <4> QED
        BY <2>3, <4>1
    <3>8. OnScreen'
      BY <1>1, <3>3, <3>5, <3>6, <3>7 DEF OnScreen
    <3> QED
      BY <3>2, <3>4, <3>8
  <2> QED
    BY <2>4, <2>5
<1> QED
  BY <1>6, <1>7

LEMMA EffectsStart ==
  ASSUME HookQueueAssumption, Init
  PROVE  EffectInv
<1>1. PICK kind \in Kinds : effect = [o \in Object |-> NoEffect(kind)]
  BY DEF Init
<1>2. /\ NoEffect(kind) \in EffectObject /\ NoEffect(kind).kind = kind
      /\ NoEffect(kind).destroy = Nil
  BY DEF NoEffect, EffectObject
<1>3. Kind = kind /\ \A o \in Object : effect[o] = NoEffect(kind)
  BY <1>1, <1>2 DEF Kind, Object
<1>4. fiber = [f \in {1, 2} |-> NoFiber] /\ current = Nil /\ phase = "idle" /\ pendingPassive = FALSE
      /\ live = [c \in Call |-> 0]
  BY DEF Init
<1>5. /\ {"effect", "updateQueue", "effectTag"} \subseteq DOMAIN NoFiber
      /\ NoFiber.effect = Nil /\ NoFiber.updateQueue = Nil /\ NoFiber.effectTag = {}
  BY DEF NoFiber
<1>6. HookTypes
  BY <1>1, <1>2, <1>3, <1>4, <1>5 DEF HookTypes
<1>7. Cleanup = Nil /\ \A c \in Call : c # Nil
  BY <1>4 DEF Cleanup, HookQueueAssumption, Call
<1>8. w \in {1, 2}
  BY <1>4 DEF w
<1> QED
  BY <1>2, <1>3, <1>4, <1>5, <1>6, <1>7, <1>8 DEF EffectInv, OneIsLive, OnlyCleanup, BeforeMount,
     Abandoned, WithoutEffect, OnScreen, InProgress, PassiveWaits, Rendering, HoldsNothing

LEMMA EffectsStutter ==
  ASSUME HookQueueAssumption, EffectInv, UNCHANGED hookVars
  PROVE  EffectInv'
  BY FibersKeepEffects DEF hookVars, effectVars, EffectInv, HookTypes

\* What the objects, the fibers and the calls have to do with each other.
THEOREM EffectInvariant ==
  ASSUME MovesAreHarmless
  PROVE  HookSpec => []EffectInv
<1>1. Init => EffectInv
  BY HookQueueAssumption, EffectsStart
<1>2. EffectInv /\ [HookNext]_hookVars => EffectInv'
  <2> SUFFICES ASSUME EffectInv, HookNext PROVE EffectInv'
    BY HookQueueAssumption, EffectsStutter
  <2> USE HookQueueAssumption
  <2>1. CASE \E t \in 1 .. MaxTime, a \in Dispatched : dispatchAction(t, a)
    BY <2>1, DispatchKeepsEffects
  <2>2. CASE \E t \in 1 .. MaxTime, moved \in Moves : beginWithoutWork(t, moved)
    BY <2>2, BeginKeepsEffects
  <2>3. CASE \E t \in 1 .. MaxTime, moved \in Moves, d \in Deps, received \in BOOLEAN :
               renderWithHooks(t, d, received, moved)
    BY <2>3, RenderKeepsEffects
  <2>4. CASE \E t \in 1 .. MaxTime, d \in Deps : mountComponent(t, d)
    BY <2>4, MountKeepsEffects
  <2>5. CASE \E d \in Deps : reRender(d)
    BY <2>5, ReRenderKeepsEffects
  <2>6. CASE componentThrows \/ finishComponent
    BY <2>6, ThrowKeepsEffects, FinishKeepsEffects
  <2>7. CASE \E others \in BOOLEAN : commit(others)
    BY <2>7, CommitKeepsEffects
  <2>8. CASE flushPassiveEffects \/ commitUnmount
    BY <2>8, FlushKeepsEffects, UnmountKeepsEffects
  <2> QED
    BY <2>1, <2>2, <2>3, <2>4, <2>5, <2>6, <2>7, <2>8 DEF HookNext
<1> QED
  BY <1>1, <1>2, PTL DEF HookSpec

\* Of a component with passive effects that its parent does not move, or with other
\* effects, a cleanup is called once for each effect that was created.
THEOREM EffectsArePaired ==
  ASSUME MovesAreHarmless
  PROVE  HookSpec => []EffectsPaired
<1>1. EffectInv => EffectsPaired
  <2> SUFFICES ASSUME EffectInv PROVE EffectsPaired
    OBVIOUS
  <2> USE DEF EffectInv
  <2> DEFINE alive == {c \in Call : live[c] # 0}
             mounted == current # Nil /\ phase # "unmounted" /\ Kind # "none"
  <2>1. alive = {c \in Call : c = Cleanup} /\ \A c \in alive : live[c] = 1
    BY DEF OneIsLive
  <2>2. Nil \notin Call
    BY HookQueueAssumption DEF HookQueueAssumption, Call
  <2>3. ~mounted => Cleanup = Nil
    BY DEF Cleanup
  <2>4. mounted => Cleanup = effect[fiber[current].updateQueue].destroy
    BY DEF Cleanup
  <2>5. mounted /\ ~pendingPassive => Cleanup \in Call
    BY DEF OnScreen, ToBeCreated
  <2> HIDE DEF alive, mounted
  <2>6. ~mounted => alive = {}
    BY <2>1, <2>2, <2>3
  <2>7. mounted => alive \subseteq {effect[fiber[current].updateQueue].destroy}
    BY <2>1, <2>4
  <2>8. mounted /\ ~pendingPassive => alive # {}
    BY <2>1, <2>5
  <2> QED
    BY <2>1, <2>6, <2>7, <2>8 DEF EffectsPaired, alive, mounted
<1> QED
  BY <1>1, EffectInvariant, PTL
-----------------------------------------------------------------------------
(***************************************************************************)
(* The instance of a class component and its lifecycles.                   *)
(***************************************************************************)
InAttempt == lifecyclePhase \in {"begin", "below", "mutation"}
Left == lifecyclePhase \in {"below", "mutation"}
InMount == committedFiber = None

Shows == [props : Value, value : Nat, derived : Value \cup {None}, failed : BOOLEAN]

InstanceTypes ==
  /\ class \in Classes /\ parent \in ParentFiber /\ renderedParent \in ParentFiber
  /\ committedFiber \in ClassFiber \cup {None} /\ workInProgress \in ClassFiber \cup {None}
  /\ instance \in [props : Props \cup {None}, state : ClassState \cup {None},
                   snapshot : Shows \cup {None}]
  /\ output \in Shows \cup {None} /\ renderedOutput \in Shows \cup {None}
  /\ attemptTime \in Nat /\ (InAttempt => attemptTime \in Time)
  /\ lifecyclePhase \in {"idle", "begin", "below", "mutation", "layout"}
  /\ rendered \in BOOLEAN /\ issued \in Nat /\ settled \in Seq(Nat)

\* A fiber that has been rendered has props and states.
HasState(g) == g.mounted /\ g.props \in Props /\ g.state \in ClassState /\ g.base \in ClassState

Rendered ==
  /\ committedFiber # None => HasState(committedFiber)
  /\ wip # None /\ InAttempt =>
       /\ wip.mounted => HasState(wip)
       /\ ~wip.mounted => InMount /\ lifecyclePhase = "begin" /\ wip.queue = <<>>
       /\ Left => wip.props = wip.pendingProps

\* There is a component when the parent renders one.
Appears ==
  /\ (committedFiber = None) = (parent.state = Absent)
  /\ InAttempt => (wip = None) = (renderedParent.state = Absent)
  /\ lifecyclePhase = "begin" => wip # None

\* A first attempt begins with the committed props and state.
FirstAttempt ==
  lifecyclePhase = "begin" /\ "ShouldCapture" \notin wip.effectTag =>
    /\ wip.effectTag = {} /\ ~rendered
    /\ IF InMount THEN ~wip.mounted
       ELSE wip.props = committedFiber.props /\ wip.state = committedFiber.state
SecondAttempt ==
  lifecyclePhase = "begin" /\ "ShouldCapture" \in wip.effectTag =>
    /\ wip.mounted /\ wip.props = wip.pendingProps

\* What a finished component is to be told of.
Effective ==
  wip # None /\ InAttempt =>
    /\ "Update" \in wip.effectTag => rendered
    /\ InMount /\ wip.mounted => "Update" \in wip.effectTag
    /\ ~InMount /\ class.snapshot /\ "Update" \in wip.effectTag => "Snapshot" \in wip.effectTag
    /\ Left =>
         /\ ~InMount /\ Shown(wip) # Shown(committedFiber) => "Update" \in wip.effectTag
         /\ rendered /\ "DidCapture" \notin wip.effectTag => "Update" \in wip.effectTag
         /\ wip.effectTag # {} => instance.props = wip.props /\ instance.state = wip.state
    /\ lifecyclePhase = "mutation" /\ ~InMount /\ "Snapshot" \in wip.effectTag =>
         instance.snapshot = output

Told ==
  lifecyclePhase = "layout" /\ committedFiber # None =>
    /\ "Update" \in committedFiber.effectTag =>
         /\ rendered
         /\ instance.props = committedFiber.props /\ instance.state = committedFiber.state
         /\ workInProgress # None /\ class.snapshot => instance.snapshot = Shown(workInProgress)
    /\ workInProgress = None \/ output # Shown(workInProgress)
         \/ (rendered /\ "DidCapture" \notin committedFiber.effectTag) =>
         "Update" \in committedFiber.effectTag

OnTheScreen ==
  /\ committedFiber # None => output = Shown(committedFiber)
  /\ wip # None /\ InAttempt /\ wip.mounted => renderedOutput = Shown(wip)

\* The state once every update of the queue is applied.
StateToCome(g) == stateAfter(g.base, g.queue, NoLifecycleWork)

InOrder(g, c, changes) ==
  /\ c.gDSFP => g.state.derived = g.props.value
  /\ StateToCome(g).changes = changes
  /\ g.queue = <<>> => g.state = g.base

InSequence ==
  /\ committedFiber # None => InOrder(committedFiber, class, settled)
  /\ wip # None /\ InAttempt /\ wip.mounted => InOrder(wip, class, settled)

\* What componentWillReceiveProps derives, unless a render that was given up has left
\* another update of that kind, for which the parent will render again.
OldLifecycles == class.unsafe /\ ~hasNewLifecycles
DerivesUntil(g, t) == \E i \in DOMAIN g.queue : g.queue[i].kind = "derive" /\ g.queue[i].time <= t

Derived ==
  OldLifecycles =>
    /\ committedFiber # None =>
         \/ StateToCome(committedFiber).derived = committedFiber.props.value
         \/ DerivesUntil(committedFiber, parent.time)
    /\ wip # None /\ InAttempt /\ wip.mounted /\ wip.props = wip.pendingProps =>
         \/ StateToCome(wip).derived = wip.props.value
         \/ \E t \in 0 .. attemptTime - 1 : t <= renderedParent.time /\ DerivesUntil(wip, t)
    /\ lifecyclePhase = "begin" /\ ~InMount /\ wip.props # wip.pendingProps =>
         attemptTime <= parent.time

InstanceInv ==
  /\ InstanceTypes /\ Rendered /\ Appears /\ FirstAttempt /\ SecondAttempt /\ Effective /\ Told
  /\ OnTheScreen /\ InSequence /\ Derived /\ LifecyclesSeeCommit
-----------------------------------------------------------------------------
(***************************************************************************)
(* The state after a queue of updates, as a run over its positions.        *)
(***************************************************************************)
IsStateRun(r, base, q, t) ==
  r = [n \in 0 .. Len(q) |->
         IF n = 0 THEN base
         ELSE IF q[n].time < t THEN r[n - 1] ELSE getStateFromUpdate(r[n - 1], q[n])]

LEMMA MinOfTimes ==
  ASSUME NEW S, S \subseteq Nat, S # {}
  PROVE  Min(S) \in S /\ \A y \in S : Min(S) <= y
<1>1. PICK x \in S : \A y \in S : ~(<<y, x>> \in OpToRel(<, Nat))
  BY NatLessThanWellFounded, WFMin, Zenon
<1>2. ASSUME NEW y \in S
      PROVE  x <= y
  <2>1. <<y, x>> \in Nat \X Nat /\ <<y, x>>[1] = y /\ <<y, x>>[2] = x
    OBVIOUS
  <2>2. y < x => <<y, x>> \in OpToRel(<, Nat)
    BY <2>1, Zenon DEF OpToRel
  <2>3. ~(y < x)
    BY <1>1, <2>2, Zenon
  <2> QED  BY <2>3
<1> QED  BY <1>2, Zenon DEF Min

LEMMA StateRunExists ==
  ASSUME NEW base, NEW q, Len(q) \in Nat, NEW t
  PROVE  \E r : IsStateRun(r, base, q, t)
<1> DEFINE run(n, r) ==
             r = [k \in 0 .. n |->
                    IF k = 0 THEN base
                    ELSE IF q[k].time < t THEN r[k - 1] ELSE getStateFromUpdate(r[k - 1], q[k])]
           wrong == {n \in 0 .. Len(q) : ~ \E r : run(n, r)}
<1>1. wrong = {}
  <2> SUFFICES ASSUME wrong # {} PROVE FALSE
    OBVIOUS
  <2>1. wrong \subseteq Nat
    OBVIOUS
  <2>2. PICK n \in wrong : \A y \in wrong : n <= y
    BY <2>1, MinOfTimes
  <2>3. n \in Nat /\ n <= Len(q) /\ ~ \E r : run(n, r)
    OBVIOUS
  <2>4. n # 0
    <3>1. run(0, [k \in 0 .. 0 |-> base])
      OBVIOUS
    <3> QED  BY <2>3, <3>1
  <2>5. n - 1 \in 0 .. Len(q) /\ n - 1 \notin wrong
    <3>1. n - 1 \in 0 .. Len(q) /\ ~(n <= n - 1)
      BY <2>3, <2>4
    <3> HIDE DEF wrong
    <3>2. n - 1 \notin wrong
      BY <2>2, <3>1
    <3> QED  BY <3>1, <3>2
  <2>6. PICK s : run(n - 1, s)
    BY <2>5
  <2> DEFINE next == IF q[n].time < t THEN s[n - 1] ELSE getStateFromUpdate(s[n - 1], q[n])
             r == [k \in 0 .. n |-> IF k = n THEN next ELSE s[k]]
  <2>7. \A k \in 0 .. n - 1 : r[k] = s[k]
    BY <2>3
  <2>8. \A k \in 0 .. n - 1 :
          s[k] = IF k = 0 THEN base
                 ELSE IF q[k].time < t THEN s[k - 1] ELSE getStateFromUpdate(s[k - 1], q[k])
    <3> HIDE DEF r, next
    <3> QED  BY <2>6
  <2>9. r[n] = next
    BY <2>3
  <2>10. \A k \in 0 .. n :
           r[k] = IF k = 0 THEN base
                  ELSE IF q[k].time < t THEN r[k - 1] ELSE getStateFromUpdate(r[k - 1], q[k])
    <3> SUFFICES ASSUME NEW k \in 0 .. n
                 PROVE  r[k] = IF k = 0 THEN base
                               ELSE IF q[k].time < t THEN r[k - 1]
                               ELSE getStateFromUpdate(r[k - 1], q[k])
      OBVIOUS
    <3>1. CASE k = n
      <4>1. r[n - 1] = s[n - 1]
        BY <2>3, <2>4, <2>7
      <4> QED  BY <2>4, <2>9, <3>1, <4>1
    <3>2. CASE k # n /\ k # 0
      <4>1. k \in 0 .. n - 1 /\ k - 1 \in 0 .. n - 1
        BY <2>3, <3>2
      <4>2. r[k] = s[k] /\ r[k - 1] = s[k - 1]
        BY <2>7, <4>1
      <4> HIDE DEF r, next
      <4> QED  BY <2>8, <3>2, <4>1, <4>2
    <3>3. CASE k # n /\ k = 0
      BY <2>3, <2>7, <2>8, <3>3
    <3> QED  BY <3>1, <3>2, <3>3
  <2>11. r = [k \in 0 .. n |-> r[k]]
    OBVIOUS
  <2> HIDE DEF r
  <2>12. run(n, r)
    BY <2>10, <2>11
  <2> QED  BY <2>3, <2>12
<1>2. \E r : run(Len(q), r)
  BY <1>1
<1> QED  BY <1>2 DEF IsStateRun

LEMMA StateAfterIs ==
  \A base, q, t : Len(q) \in Nat =>
    \E r : IsStateRun(r, base, q, t) /\ stateAfter(base, q, t) = r[Len(q)]
<1> SUFFICES ASSUME NEW base, NEW q, Len(q) \in Nat, NEW t
             PROVE  \E r : IsStateRun(r, base, q, t) /\ stateAfter(base, q, t) = r[Len(q)]
  OBVIOUS
<1> DEFINE after == CHOOSE r : IsStateRun(r, base, q, t)
<1>1. IsStateRun(after, base, q, t)
  BY StateRunExists, Zenon
<1>2. stateAfter(base, q, t) = after[Len(q)]
  BY Zenon DEF stateAfter, IsStateRun
<1> QED  BY <1>1, <1>2, Zenon

CountAlike(q, t, p, u, m) ==
  \A i \in 1 .. m : q[i] = p[i] /\ ((q[i].time < t) <=> (p[i].time < u))

\* Runs over queues that begin alike are alike as far.
LEMMA StateRunsAgree ==
  \A base, q, p, t, u, r, s : \A m \in Nat :
    /\ Len(q) \in Nat /\ Len(p) \in Nat /\ m <= Len(q) /\ m <= Len(p)
    /\ IsStateRun(r, base, q, t) /\ IsStateRun(s, base, p, u)
    /\ CountAlike(q, t, p, u, m)
    => r[m] = s[m]
<1> TAKE base, q, p, t, u, r, s
<1> TAKE m \in Nat
<1> HAVE /\ Len(q) \in Nat /\ Len(p) \in Nat /\ m <= Len(q) /\ m <= Len(p)
         /\ IsStateRun(r, base, q, t) /\ IsStateRun(s, base, p, u)
         /\ CountAlike(q, t, p, u, m)
<1> DEFINE wrong == {n \in 0 .. m : r[n] # s[n]}
<1>1. wrong = {}
  <2> SUFFICES ASSUME wrong # {} PROVE FALSE
    OBVIOUS
  <2>1. wrong \subseteq Nat
    OBVIOUS
  <2>2. PICK n \in wrong : \A y \in wrong : n <= y
    BY <2>1, MinOfTimes
  <2>3. n \in 0 .. Len(q) /\ n \in 0 .. Len(p) /\ n \in 0 .. m /\ r[n] # s[n]
    OBVIOUS
  <2>4. /\ r[n] = IF n = 0 THEN base
                  ELSE IF q[n].time < t THEN r[n - 1] ELSE getStateFromUpdate(r[n - 1], q[n])
        /\ s[n] = IF n = 0 THEN base
                  ELSE IF p[n].time < u THEN s[n - 1] ELSE getStateFromUpdate(s[n - 1], p[n])
    BY <2>3 DEF IsStateRun
  <2>5. n # 0
    BY <2>3, <2>4
  <2>6. n - 1 \in 0 .. m /\ n - 1 \notin wrong /\ n \in 1 .. m
    BY <2>2, <2>3, <2>5
  <2>7. r[n - 1] = s[n - 1]
    BY <2>6
  <2> QED  BY <2>3, <2>4, <2>5, <2>6, <2>7 DEF CountAlike
<1> QED  BY <1>1

LEMMA StateRunSteps ==
  \A base, q, t, r : Len(q) \in Nat /\ IsStateRun(r, base, q, t) =>
    /\ r[0] = base
    /\ \A n \in 1 .. Len(q) :
         r[n] = IF q[n].time < t THEN r[n - 1] ELSE getStateFromUpdate(r[n - 1], q[n])
<1> SUFFICES ASSUME NEW base, NEW q, NEW t, NEW r, Len(q) \in Nat, IsStateRun(r, base, q, t)
             PROVE  /\ r[0] = base
                    /\ \A n \in 1 .. Len(q) :
                         r[n] = IF q[n].time < t THEN r[n - 1]
                                ELSE getStateFromUpdate(r[n - 1], q[n])
  OBVIOUS
<1>1. \A n \in 0 .. Len(q) :
        r[n] = IF n = 0 THEN base
               ELSE IF q[n].time < t THEN r[n - 1] ELSE getStateFromUpdate(r[n - 1], q[n])
  BY DEF IsStateRun
<1> QED  BY <1>1

\* Two queues of updates that count alike lead to the same state.
LEMMA StateAfterAlike ==
  ASSUME NEW base, NEW q, NEW p, Len(q) \in Nat, Len(p) = Len(q), NEW t, NEW u,
         \A i \in 1 .. Len(q) : q[i] = p[i] /\ ((q[i].time < t) <=> (p[i].time < u))
  PROVE  stateAfter(base, q, t) = stateAfter(base, p, u)
<1>1. PICK r : IsStateRun(r, base, q, t) /\ stateAfter(base, q, t) = r[Len(q)]
  BY StateAfterIs
<1>1r. IsStateRun(r, base, q, t)
  BY <1>1, Zenon
<1>2. PICK s : IsStateRun(s, base, p, u) /\ stateAfter(base, p, u) = s[Len(p)]
  BY StateAfterIs
<1>2r. IsStateRun(s, base, p, u)
  BY <1>2, Zenon
<1>3. CountAlike(q, t, p, u, Len(q))
  BY DEF CountAlike
<1>4. r[Len(q)] = s[Len(q)]
  BY <1>1r, <1>2r, <1>3, StateRunsAgree
<1> QED  BY <1>1, <1>2, <1>4

LEMMA StateAfterNothing ==
  ASSUME NEW base, NEW t
  PROVE  stateAfter(base, <<>>, t) = base
<1>1. Len(<<>>) = 0
  OBVIOUS
<1>2. PICK r : IsStateRun(r, base, <<>>, t) /\ stateAfter(base, <<>>, t) = r[Len(<<>>)]
  BY <1>1, StateAfterIs
<1>2r. IsStateRun(r, base, <<>>, t)
  BY <1>2, Zenon
<1>3. r[0] = base
  BY <1>1, <1>2r, StateRunSteps
<1> QED  BY <1>1, <1>2, <1>3

LEMMA StateAfterAppend ==
  ASSUME NEW U, NEW base, NEW q \in Seq(U), NEW u \in U, NEW t
  PROVE  stateAfter(base, Append(q, u), t) =
           IF u.time < t THEN stateAfter(base, q, t)
           ELSE getStateFromUpdate(stateAfter(base, q, t), u)
<1> DEFINE p == Append(q, u)
<1>1. Len(q) \in Nat /\ Len(p) = Len(q) + 1 /\ p[Len(p)] = u /\ \A i \in 1 .. Len(q) : p[i] = q[i]
  OBVIOUS
<1> HIDE DEF p
<1>2. PICK r : IsStateRun(r, base, q, t) /\ stateAfter(base, q, t) = r[Len(q)]
  BY <1>1, StateAfterIs
<1>2r. IsStateRun(r, base, q, t)
  BY <1>2, Zenon
<1>3. Len(p) \in Nat
  BY <1>1
<1>4. PICK s : IsStateRun(s, base, p, t) /\ stateAfter(base, p, t) = s[Len(p)]
  BY <1>3, StateAfterIs
<1>4r. IsStateRun(s, base, p, t)
  BY <1>4, Zenon
<1>5. r[Len(q)] = s[Len(q)]
  <2>1. CountAlike(q, t, p, t, Len(q)) /\ Len(q) <= Len(p)
    BY <1>1 DEF CountAlike
  <2> QED  BY <1>1, <1>2r, <1>3, <1>4r, <2>1, StateRunsAgree
<1>6. s[Len(p)] = IF p[Len(p)].time < t THEN s[Len(p) - 1]
                  ELSE getStateFromUpdate(s[Len(p) - 1], p[Len(p)])
  <2>1. Len(p) \in 1 .. Len(p)
    BY <1>1
  <2> QED  BY <1>3, <1>4r, <2>1, StateRunSteps
<1>7. Len(p) - 1 = Len(q)
  BY <1>1
<1>8. stateAfter(base, p, t) = IF u.time < t THEN stateAfter(base, q, t)
                               ELSE getStateFromUpdate(stateAfter(base, q, t), u)
  BY <1>1, <1>2, <1>4, <1>5, <1>6, <1>7
<1> QED  BY <1>8 DEF p

LEMMA StateAfterSplit ==
  ASSUME NEW U, NEW base, NEW q \in Seq(U), NEW k \in 0 .. Len(q), NEW t
  PROVE  stateAfter(stateAfter(base, SubSeq(q, 1, k), t), SubSeq(q, k + 1, Len(q)), t)
           = stateAfter(base, q, t)
<1> DEFINE front == SubSeq(q, 1, k)
           back == SubSeq(q, k + 1, Len(q))
<1>1. /\ Len(q) \in Nat /\ k \in Nat /\ k <= Len(q)
      /\ Len(front) = k /\ \A i \in 1 .. k : front[i] = q[i]
      /\ Len(back) = Len(q) - k /\ \A i \in 1 .. Len(q) - k : back[i] = q[k + i]
  OBVIOUS
<1> HIDE DEF front, back
<1>2. PICK r : IsStateRun(r, base, q, t) /\ stateAfter(base, q, t) = r[Len(q)]
  BY <1>1, StateAfterIs
<1>2r. IsStateRun(r, base, q, t)
  BY <1>2, Zenon
<1>3. PICK s : IsStateRun(s, base, front, t) /\ stateAfter(base, front, t) = s[Len(front)]
  BY <1>1, StateAfterIs
<1>3r. IsStateRun(s, base, front, t)
  BY <1>3, Zenon
<1>4. r[k] = s[k]
  <2>1. CountAlike(q, t, front, t, k) /\ Len(front) \in Nat
    BY <1>1 DEF CountAlike
  <2> QED  BY <1>1, <1>2r, <1>3r, <2>1, StateRunsAgree
<1>5. Len(back) \in Nat
  BY <1>1
<1>6. PICK v : IsStateRun(v, r[k], back, t) /\ stateAfter(r[k], back, t) = v[Len(back)]
  BY <1>5, StateAfterIs
<1>6r. IsStateRun(v, r[k], back, t)
  BY <1>6, Zenon
<1> DEFINE rest == [n \in 0 .. Len(back) |-> r[k + n]]
<1>7. IsStateRun(rest, r[k], back, t)
  <2>1. \A n \in 0 .. Len(back) :
          rest[n] = IF n = 0 THEN r[k]
                    ELSE IF back[n].time < t THEN rest[n - 1]
                    ELSE getStateFromUpdate(rest[n - 1], back[n])
    <3> SUFFICES ASSUME NEW n \in 0 .. Len(back)
                 PROVE  rest[n] = IF n = 0 THEN r[k]
                                  ELSE IF back[n].time < t THEN rest[n - 1]
                                  ELSE getStateFromUpdate(rest[n - 1], back[n])
      OBVIOUS
    <3>1. CASE n = 0
      BY <1>1, <3>1
    <3>2. CASE n # 0
      <4>1. /\ n \in 1 .. Len(q) - k /\ k + n \in 1 .. Len(q) /\ n - 1 \in 0 .. Len(back)
            /\ (k + n) - 1 = k + (n - 1)
        BY <1>1, <3>2
      <4>2. rest[n] = r[k + n] /\ rest[n - 1] = r[k + (n - 1)] /\ back[n] = q[k + n]
        BY <1>1, <4>1
      <4>3. r[k + n] = IF q[k + n].time < t THEN r[(k + n) - 1]
                       ELSE getStateFromUpdate(r[(k + n) - 1], q[k + n])
        BY <1>1, <1>2r, <4>1, StateRunSteps
      <4> HIDE DEF rest
      <4> QED  BY <3>2, <4>1, <4>2, <4>3
    <3> QED  BY <3>1, <3>2
  <2>2. rest = [n \in 0 .. Len(back) |-> rest[n]]
    OBVIOUS
  <2> HIDE DEF rest
  <2> QED  BY <2>1, <2>2 DEF IsStateRun
<1>8. rest[Len(back)] = r[Len(q)]
  BY <1>1, <1>5
<1> HIDE DEF rest
<1>9. v[Len(back)] = rest[Len(back)]
  <2>1. CountAlike(back, t, back, t, Len(back))
    BY DEF CountAlike
  <2> QED  BY <1>5, <1>6r, <1>7, <2>1, StateRunsAgree
<1>10. stateAfter(stateAfter(base, front, t), back, t) = stateAfter(base, q, t)
  BY <1>1, <1>2, <1>3, <1>4, <1>6, <1>8, <1>9
<1> QED  BY <1>10 DEF front, back

\* What holds of the state at the start and is kept by every update holds at the end.
LEMMA StateAfterIn ==
  ASSUME NEW S, NEW base \in S, NEW q, Len(q) \in Nat, NEW t,
         \A i \in 1 .. Len(q) : \A s \in S : getStateFromUpdate(s, q[i]) \in S
  PROVE  stateAfter(base, q, t) \in S
<1>1. PICK r : IsStateRun(r, base, q, t) /\ stateAfter(base, q, t) = r[Len(q)]
  BY StateAfterIs
<1>1r. IsStateRun(r, base, q, t)
  BY <1>1, Zenon
<1>2. /\ r[0] = base
      /\ \A n \in 1 .. Len(q) :
           r[n] = IF q[n].time < t THEN r[n - 1] ELSE getStateFromUpdate(r[n - 1], q[n])
  BY <1>1r, StateRunSteps
<1> DEFINE wrong == {n \in 0 .. Len(q) : r[n] \notin S}
<1>3. wrong = {}
  <2> SUFFICES ASSUME wrong # {} PROVE FALSE
    OBVIOUS
  <2>1. wrong \subseteq Nat
    OBVIOUS
  <2>2. PICK n \in wrong : \A y \in wrong : n <= y
    BY <2>1, MinOfTimes
  <2>3. n # 0 /\ n \in 0 .. Len(q) /\ r[n] \notin S
    BY <1>2
  <2>4. n - 1 \in 0 .. Len(q) /\ n - 1 \notin wrong /\ n \in 1 .. Len(q)
    BY <2>2, <2>3
  <2>5. r[n - 1] \in S
    BY <2>4
  <2> QED  BY <1>2, <2>3, <2>4, <2>5
<1> QED  BY <1>1, <1>3
-----------------------------------------------------------------------------
(***************************************************************************)
(* What the operations on the fiber of the component do to it.             *)
(***************************************************************************)
LEMMA MaxOfTimes ==
  ASSUME ClassInstanceAssumption, NEW S, S \subseteq Time \cup {NoLifecycleWork}, S # {}
  PROVE  Max(S) \in S /\ \A y \in S : Max(S) >= y
<1> DEFINE T == {n \in Nat : \A y \in S : y <= n}
<1>1. /\ MaxLifecycleTime \in Nat /\ S \subseteq Nat /\ MaxLifecycleTime \in T /\ T \subseteq Nat
  BY DEF ClassInstanceAssumption, Time, NoLifecycleWork
<1>2. PICK n \in T : \A y \in T : n <= y
  BY <1>1, MinOfTimes
<1>3. n \in S
  <2> SUFFICES ASSUME n \notin S PROVE FALSE
    OBVIOUS
  <2>1. PICK i \in S : TRUE
    OBVIOUS
  <2>2. i \in Nat /\ n \in Nat /\ i <= n /\ n # i
    BY <1>1, <2>1
  <2>3. n - 1 \in T
    BY <1>1, <2>2
  <2> QED  BY <1>2, <2>2, <2>3
<1>4. \A y \in S : n >= y
  BY <1>1
<1> QED  BY <1>3, <1>4, Zenon DEF Max

LEMMA UpdateKeepsState ==
  \A s \in ClassState, u \in ClassUpdate :
    /\ getStateFromUpdate(s, u) \in ClassState
    /\ getStateFromUpdate(s, u).changes = IF u.kind \in {"setState", "derive"}
                                          THEN Append(s.changes, u.id) ELSE s.changes
    /\ getStateFromUpdate(s, u).derived = IF u.kind = "derive" THEN u.value ELSE s.derived
    /\ u.kind \in {"setState", "null", "force", "derive"} /\ u.time \in Time /\ u.id \in Nat
<1> TAKE s \in ClassState, u \in ClassUpdate
<1> DEFINE r == getStateFromUpdate(s, u)
<1>1. /\ u.kind \in {"setState", "null", "force", "derive"} /\ u.time \in Time /\ u.id \in Nat
      /\ u.kind = "setState" => u.value \in Nat
      /\ u.kind = "derive" => u.value \in Value
  BY DEF ClassUpdate
<1>2. /\ s.changes \in Seq(Nat) /\ s.value \in Nat /\ s.derived \in Value \cup {None}
      /\ s.errors \in Nat
      /\ s = [changes |-> s.changes, value |-> s.value, derived |-> s.derived, errors |-> s.errors]
  BY DEF ClassState
<1>3. CASE u.kind = "setState"
  <2>1. r = [s EXCEPT !.changes = Append(s.changes, u.id), !.value = u.value]
    BY <1>3 DEF getStateFromUpdate
  <2>2. r = [changes |-> Append(s.changes, u.id), value |-> u.value, derived |-> s.derived,
             errors |-> s.errors]
    BY <1>2, <2>1
  <2> HIDE DEF r
  <2>3. Append(s.changes, u.id) \in Seq(Nat)
    BY <1>1, <1>2
  <2>4. r \in ClassState
    BY <1>1, <1>2, <1>3, <2>2, <2>3 DEF ClassState
  <2>5. r.changes = Append(s.changes, u.id) /\ r.derived = s.derived
    BY <2>2
  <2> QED  BY <1>1, <1>3, <2>4, <2>5 DEF r
<1>4. CASE u.kind = "derive"
  <2>1. r = [s EXCEPT !.changes = Append(s.changes, u.id), !.derived = u.value]
    BY <1>4 DEF getStateFromUpdate
  <2>2. r = [changes |-> Append(s.changes, u.id), value |-> s.value, derived |-> u.value,
             errors |-> s.errors]
    BY <1>2, <2>1
  <2> HIDE DEF r
  <2>3. Append(s.changes, u.id) \in Seq(Nat)
    BY <1>1, <1>2
  <2>4. r \in ClassState
    BY <1>1, <1>2, <1>4, <2>2, <2>3 DEF ClassState
  <2>5. r.changes = Append(s.changes, u.id) /\ r.derived = u.value
    BY <2>2
  <2> QED  BY <1>1, <1>4, <2>4, <2>5 DEF r
<1>5. CASE u.kind \in {"null", "force"}
  <2>1. r = s
    BY <1>5 DEF getStateFromUpdate
  <2> QED  BY <1>1, <1>5, <2>1
<1> QED  BY <1>1, <1>3, <1>4, <1>5

LEMMA ClassStateAfter ==
  \A base \in ClassState, q \in Seq(ClassUpdate) : \A t : stateAfter(base, q, t) \in ClassState
<1> TAKE base \in ClassState, q \in Seq(ClassUpdate)
<1> TAKE t
<1>1. Len(q) \in Nat /\ \A i \in 1 .. Len(q) : q[i] \in ClassUpdate
  OBVIOUS
<1>2. \A i \in 1 .. Len(q) : \A s \in ClassState : getStateFromUpdate(s, q[i]) \in ClassState
  BY <1>1, UpdateKeepsState
<1> QED  BY <1>1, <1>2, StateAfterIn

LEMMA ParentStateAfter ==
  \A base \in Value \cup {Absent}, q \in Seq(ParentUpdate) :
    \A t : stateAfter(base, q, t) \in Value \cup {Absent}
<1> TAKE base \in Value \cup {Absent}, q \in Seq(ParentUpdate)
<1> TAKE t
<1>1. Len(q) \in Nat /\ \A i \in 1 .. Len(q) : q[i] \in ParentUpdate
  OBVIOUS
<1>2. \A i \in 1 .. Len(q) :
        \A s \in Value \cup {Absent} : getStateFromUpdate(s, q[i]) \in Value \cup {Absent}
  BY <1>1 DEF ParentUpdate, getStateFromUpdate
<1> QED  BY <1>1, <1>2, StateAfterIn

\* The fields that neither an update nor processing the queue touches.
SameFiber(h, g) ==
  /\ h.props = g.props /\ h.pendingProps = g.pendingProps
  /\ h.mounted = g.mounted /\ h.effectTag = g.effectTag

LEMMA FieldsOfFiber ==
  \A g \in ClassFiber :
    /\ g = [props |-> g.props, pendingProps |-> g.pendingProps, state |-> g.state,
            base |-> g.base, queue |-> g.queue, time |-> g.time, mounted |-> g.mounted,
            effectTag |-> g.effectTag]
    /\ g.props \in Props \cup {None} /\ g.pendingProps \in Props
    /\ g.state \in ClassState \cup {None} /\ g.base \in ClassState \cup {None}
    /\ g.queue \in Seq(ClassUpdate) /\ g.time \in Time \cup {NoLifecycleWork}
    /\ g.mounted \in BOOLEAN
    /\ g.effectTag \subseteq {"Update", "Snapshot", "ShouldCapture", "DidCapture"}
  BY DEF ClassFiber

LEMMA EnqueuedIs ==
  ASSUME ClassInstanceAssumption
  PROVE  \A g \in ClassFiber, u \in ClassUpdate :
           /\ enqueued(g, u) \in ClassFiber /\ g # None
           /\ SameFiber(enqueued(g, u), g)
           /\ enqueued(g, u).state = g.state /\ enqueued(g, u).base = g.base
           /\ enqueued(g, u).queue = Append(g.queue, u) /\ enqueued(g, u).queue # <<>>
<1> TAKE g \in ClassFiber, u \in ClassUpdate
<1> DEFINE h == enqueued(g, u)
           t == IF g.time < u.time THEN u.time ELSE g.time
<1>1. g # None /\ u.time \in Time
  BY UpdateKeepsState DEF ClassInstanceAssumption, ClassUpdate
<1>2. h = [g EXCEPT !.queue = Append(g.queue, u), !.time = t]
  BY <1>1 DEF enqueued
<1>3. t \in Time \cup {NoLifecycleWork}
  BY <1>1, FieldsOfFiber
<1> HIDE DEF h, t
<1>4. h = [props |-> g.props, pendingProps |-> g.pendingProps, state |-> g.state,
           base |-> g.base, queue |-> Append(g.queue, u), time |-> t, mounted |-> g.mounted,
           effectTag |-> g.effectTag]
  BY <1>2 DEF ClassFiber
<1>5. Append(g.queue, u) \in Seq(ClassUpdate) /\ Append(g.queue, u) # <<>>
  BY FieldsOfFiber
<1>6. h \in ClassFiber
  BY <1>3, <1>4, <1>5, FieldsOfFiber DEF ClassFiber
<1>7. SameFiber(h, g) /\ h.state = g.state /\ h.base = g.base /\ h.queue = Append(g.queue, u)
  BY <1>4 DEF SameFiber
<1> QED  BY <1>1, <1>5, <1>6, <1>7 DEF h

\* Applying everything in the queue, an update that is added counts.
LEMMA EnqueuedComes ==
  ASSUME ClassInstanceAssumption
  PROVE  \A g \in ClassFiber, u \in ClassUpdate :
           g.base \in ClassState =>
             /\ StateToCome(g) \in ClassState
             /\ StateToCome(enqueued(g, u)).changes =
                  IF u.kind \in {"setState", "derive"} THEN Append(StateToCome(g).changes, u.id)
                  ELSE StateToCome(g).changes
             /\ StateToCome(enqueued(g, u)).derived =
                  IF u.kind = "derive" THEN u.value ELSE StateToCome(g).derived
<1> TAKE g \in ClassFiber, u \in ClassUpdate
<1> HAVE g.base \in ClassState
<1> DEFINE h == enqueued(g, u)
<1>1. h.base = g.base /\ h.queue = Append(g.queue, u) /\ g.queue \in Seq(ClassUpdate)
  BY EnqueuedIs, FieldsOfFiber
<1>2. u.time \in Time /\ ~(u.time < NoLifecycleWork)
  BY UpdateKeepsState DEF Time, NoLifecycleWork, ClassInstanceAssumption
<1> HIDE DEF h
<1>3. StateToCome(h) = stateAfter(g.base, Append(g.queue, u), NoLifecycleWork)
  BY <1>1 DEF StateToCome
<1>4. stateAfter(g.base, Append(g.queue, u), NoLifecycleWork) =
        getStateFromUpdate(stateAfter(g.base, g.queue, NoLifecycleWork), u)
  BY <1>1, <1>2, StateAfterAppend
<1>5. StateToCome(h) = getStateFromUpdate(StateToCome(g), u)
  BY <1>3, <1>4 DEF StateToCome
<1>6. StateToCome(g) \in ClassState
  BY <1>1, ClassStateAfter DEF StateToCome
<1> QED  BY <1>5, <1>6, UpdateKeepsState DEF h

\* Where a render stops to change the base state: at the first update it skips.
Skipped(q, t) == {i \in DOMAIN q : q[i].time < t}
FirstSkipped(q, t) == IF Skipped(q, t) = {} THEN Len(q) + 1 ELSE Min(Skipped(q, t))

LEMMA FirstSkippedIs ==
  \A U : \A q \in Seq(U) : \A t :
    /\ FirstSkipped(q, t) \in 1 .. Len(q) + 1
    /\ \A i \in 1 .. Len(q) : q[i].time < t => FirstSkipped(q, t) <= i
    /\ FirstSkipped(q, t) = Len(q) + 1 <=> Skipped(q, t) = {}
<1> TAKE U
<1> TAKE q \in Seq(U)
<1> TAKE t
<1>1. Len(q) \in Nat /\ Skipped(q, t) \subseteq Nat /\ Skipped(q, t) \subseteq 1 .. Len(q)
      /\ \A i \in 1 .. Len(q) : q[i].time < t => i \in Skipped(q, t)
  BY DEF Skipped
<1>2. CASE Skipped(q, t) = {}
  BY <1>1, <1>2 DEF FirstSkipped
<1>3. CASE Skipped(q, t) # {}
  <2>1. FirstSkipped(q, t) \in Skipped(q, t) /\ \A y \in Skipped(q, t) : FirstSkipped(q, t) <= y
    BY <1>1, <1>3, MinOfTimes DEF FirstSkipped
  <2> QED  BY <1>1, <1>3, <2>1
<1> QED  BY <1>2, <1>3

\* What is left to come does not change by a render that applies a part of it.
LEMMA BaseAndQueue ==
  ASSUME ClassInstanceAssumption
  PROVE  \A b \in ClassState, q \in Seq(ClassUpdate), t \in Time : \A k :
           k = FirstSkipped(q, t) =>
             stateAfter(stateAfter(b, SubSeq(q, 1, k - 1), t), SubSeq(q, k, Len(q)), NoLifecycleWork)
               = stateAfter(b, q, NoLifecycleWork)
<1> TAKE b \in ClassState, q \in Seq(ClassUpdate), t \in Time
<1> TAKE k
<1> HAVE k = FirstSkipped(q, t)
<1>1. /\ k \in 1 .. Len(q) + 1 /\ Len(q) \in Nat
      /\ \A i \in 1 .. Len(q) : q[i].time < t => k <= i
  BY FirstSkippedIs
<1> DEFINE front == SubSeq(q, 1, k - 1)
<1>2. Len(front) = k - 1 /\ k - 1 \in 0 .. Len(q) /\ \A i \in 1 .. k - 1 : front[i] = q[i]
  BY <1>1
<1>3. \A i \in 1 .. Len(front) : front[i] \in ClassUpdate /\ ~(front[i].time < t)
  BY <1>1, <1>2
<1> HIDE DEF front
<1>4. \A i \in 1 .. Len(front) :
        front[i] = front[i] /\ ((front[i].time < t) <=> (front[i].time < NoLifecycleWork))
  <2>1. \A u \in ClassUpdate : u.time \in Time /\ ~(u.time < NoLifecycleWork)
    BY UpdateKeepsState DEF Time, NoLifecycleWork, ClassInstanceAssumption, ClassUpdate
  <2> QED  BY <1>3, <2>1
<1>5. stateAfter(b, front, t) = stateAfter(b, front, NoLifecycleWork)
  <2>1. Len(front) \in Nat
    BY <1>2
  <2> QED  BY <1>4, <2>1, StateAfterAlike
<1>6. stateAfter(stateAfter(b, SubSeq(q, 1, k - 1), NoLifecycleWork), SubSeq(q, (k - 1) + 1, Len(q)), NoLifecycleWork)
        = stateAfter(b, q, NoLifecycleWork)
  BY <1>2, StateAfterSplit
<1>7. (k - 1) + 1 = k
  BY <1>1
<1> QED  BY <1>5, <1>6, <1>7 DEF front

LEMMA ProcessedIs ==
  ASSUME ClassInstanceAssumption
  PROVE  \A g \in ClassFiber, t \in Time : \A h :
           g.base \in ClassState /\ h = processUpdateQueue(g, t) =>
             /\ h \in ClassFiber /\ SameFiber(h, g)
             /\ h.state \in ClassState /\ h.base \in ClassState
             /\ StateToCome(h) = StateToCome(g)
             /\ h.queue = <<>> => h.state = h.base
             /\ \A i \in DOMAIN g.queue :
                  g.queue[i].time < t => \E j \in DOMAIN h.queue : h.queue[j] = g.queue[i]
<1> TAKE g \in ClassFiber, t \in Time
<1> TAKE h
<1> HAVE g.base \in ClassState /\ h = processUpdateQueue(g, t)
<1> DEFINE q == g.queue
           k == FirstSkipped(q, t)
           st == stateAfter(g.base, q, t)
           b == stateAfter(g.base, SubSeq(q, 1, k - 1), t)
           rest == SubSeq(q, k, Len(q))
           left == Max({q[i].time : i \in Skipped(q, t)} \cup {NoLifecycleWork})
<1>1. q \in Seq(ClassUpdate) /\ Len(q) \in Nat
  BY FieldsOfFiber
<1>2. /\ k \in 1 .. Len(q) + 1 /\ (k = Len(q) + 1 <=> Skipped(q, t) = {})
      /\ \A i \in 1 .. Len(q) : q[i].time < t => k <= i
  BY <1>1, FirstSkippedIs
<1>3. h = [g EXCEPT !.state = st, !.base = b, !.queue = rest, !.time = left]
  BY Zenon DEF processUpdateQueue, FirstSkipped, Skipped
<1> HIDE DEF q, k
<1>4. st \in ClassState
  BY <1>1, ClassStateAfter
<1>5. /\ SubSeq(q, 1, k - 1) \in Seq(ClassUpdate) /\ rest \in Seq(ClassUpdate)
      /\ Len(rest) = Len(q) - k + 1 /\ \A i \in 1 .. Len(rest) : rest[i] = q[i + k - 1]
  BY <1>1, <1>2
<1>6. b \in ClassState
  BY <1>5, ClassStateAfter
<1>7. left \in Time \cup {NoLifecycleWork}
  <2> DEFINE S == {q[i].time : i \in Skipped(q, t)} \cup {NoLifecycleWork}
  <2>1. \A i \in Skipped(q, t) : q[i] \in ClassUpdate
    BY <1>1 DEF Skipped
  <2>2. S \subseteq Time \cup {NoLifecycleWork} /\ S # {}
    BY <2>1, UpdateKeepsState DEF ClassUpdate
  <2> HIDE DEF S
  <2>3. Max(S) \in S
    BY <2>2, MaxOfTimes
  <2>4. Max(S) \in Time \cup {NoLifecycleWork}
    BY <2>2, <2>3
  <2> QED  BY <2>4 DEF S
<1>8. stateAfter(b, rest, NoLifecycleWork) = stateAfter(g.base, q, NoLifecycleWork)
  <2>1. k = FirstSkipped(q, t)
    BY DEF k
  <2> QED  BY <1>1, <2>1, BaseAndQueue
<1>9. rest = <<>> => st = b
  <2> SUFFICES ASSUME rest = <<>> PROVE st = b
    OBVIOUS
  <2>1. k = Len(q) + 1
    BY <1>1, <1>2, <1>5
  <2>2. SubSeq(q, 1, k - 1) = q
    BY <1>1, <2>1
  <2> QED  BY <2>2
<1>10. \A i \in DOMAIN q : q[i].time < t => \E j \in DOMAIN rest : rest[j] = q[i]
  <2> SUFFICES ASSUME NEW i \in DOMAIN q, q[i].time < t
               PROVE  \E j \in DOMAIN rest : rest[j] = q[i]
    OBVIOUS
  <2>1. i \in 1 .. Len(q) /\ k <= i /\ k \in Nat
    BY <1>1, <1>2
  <2>2. i - k + 1 \in 1 .. Len(rest) /\ (i - k + 1) + k - 1 = i /\ DOMAIN rest = 1 .. Len(rest)
    BY <1>1, <1>2, <1>5, <2>1
  <2>3. rest[i - k + 1] = q[i]
    BY <1>5, <2>2
  <2> QED  BY <2>2, <2>3
<1> HIDE DEF st, b, rest, left
<1>11. h = [props |-> g.props, pendingProps |-> g.pendingProps, state |-> st, base |-> b,
            queue |-> rest, time |-> left, mounted |-> g.mounted, effectTag |-> g.effectTag]
  BY <1>3 DEF ClassFiber
<1>12. h \in ClassFiber
  BY <1>4, <1>5, <1>6, <1>7, <1>11, FieldsOfFiber DEF ClassFiber
<1>13. SameFiber(h, g) /\ h.state = st /\ h.base = b /\ h.queue = rest
  BY <1>11 DEF SameFiber
<1>14. StateToCome(h) = StateToCome(g)
  BY <1>8, <1>13 DEF StateToCome, q
<1> QED  BY <1>4, <1>6, <1>9, <1>10, <1>12, <1>13, <1>14 DEF q

LEMMA FieldsOfState ==
  \A s \in ClassState :
    /\ s.changes \in Seq(Nat) /\ s.value \in Nat /\ s.derived \in Value \cup {None}
    /\ s.errors \in Nat
  BY DEF ClassState

LEMMA NothingToCome ==
  \A g : g.queue = <<>> => StateToCome(g) = g.base
  BY StateAfterNothing DEF StateToCome

\* Fibers with a state, which is the base state once the queue is empty.
Processed(g) ==
  /\ g \in ClassFiber /\ g.state \in ClassState /\ g.base \in ClassState
  /\ g.queue = <<>> => g.state = g.base

\* capturedFiber of a boundary that has caught, and applyDerivedStateFromProps.
Captured(g) ==
  [g EXCEPT !.state.errors = @ + 1, !.base.errors = IF g.queue = <<>> THEN @ + 1 ELSE @,
            !.effectTag = (@ \ {"ShouldCapture"}) \cup {"DidCapture"}]
WithState(g, state) == [g EXCEPT !.state = state, !.base = IF g.queue = <<>> THEN state ELSE @]

LEMMA CapturedIs ==
  \A g : \A h :
    Processed(g) /\ h = Captured(g) =>
      /\ Processed(h) /\ h.props = g.props /\ h.pendingProps = g.pendingProps
      /\ h.mounted = g.mounted /\ h.queue = g.queue
      /\ h.effectTag = (g.effectTag \ {"ShouldCapture"}) \cup {"DidCapture"}
      /\ StateToCome(h).changes = StateToCome(g).changes
      /\ StateToCome(h).derived = StateToCome(g).derived
<1> TAKE g
<1> TAKE h
<1> HAVE Processed(g) /\ h = Captured(g)
<1> DEFINE st == [g.state EXCEPT !.errors = g.state.errors + 1]
           b == [g.base EXCEPT !.errors = IF g.queue = <<>> THEN g.base.errors + 1
                                          ELSE g.base.errors]
           tags == (g.effectTag \ {"ShouldCapture"}) \cup {"DidCapture"}
<1>1. h = [g EXCEPT !.state = st, !.base = b, !.effectTag = tags]
  BY DEF Captured, Processed, ClassFiber
<1>2. st \in ClassState /\ b \in ClassState
  <2> DEFINE e == IF g.queue = <<>> THEN g.base.errors + 1 ELSE g.base.errors
             n == g.state.errors + 1
  <2>1. e \in Nat /\ n \in Nat /\ g.base \in ClassState /\ g.state \in ClassState
    BY FieldsOfState DEF Processed
  <2> HIDE DEF e, n
  <2>2. [g.base EXCEPT !.errors = e] \in ClassState /\ [g.state EXCEPT !.errors = n] \in ClassState
    BY <2>1 DEF ClassState
  <2> QED  BY <2>2 DEF e, n
<1>3. g.queue # <<>> => b = g.base
  BY DEF Processed, ClassState
<1>4. g.queue = <<>> => b = st /\ b.changes = g.base.changes /\ b.derived = g.base.derived
  BY DEF Processed, ClassState
<1>5. tags \subseteq {"Update", "Snapshot", "ShouldCapture", "DidCapture"}
  BY FieldsOfFiber DEF Processed
<1> HIDE DEF st, b, tags
<1>6. h = [props |-> g.props, pendingProps |-> g.pendingProps, state |-> st, base |-> b,
           queue |-> g.queue, time |-> g.time, mounted |-> g.mounted, effectTag |-> tags]
  BY <1>1 DEF Processed, ClassFiber
<1>7. h \in ClassFiber
  BY <1>2, <1>5, <1>6, FieldsOfFiber DEF Processed, ClassFiber
<1>8. h.queue = g.queue /\ h.base = b /\ h.state = st /\ h.effectTag = tags
      /\ h.props = g.props /\ h.pendingProps = g.pendingProps /\ h.mounted = g.mounted
  BY <1>6
<1>9. StateToCome(h).changes = StateToCome(g).changes /\ StateToCome(h).derived = StateToCome(g).derived
  <2>1. CASE g.queue = <<>>
    BY <1>4, <1>8, <2>1, NothingToCome
  <2>2. CASE g.queue # <<>>
    BY <1>3, <1>8, <2>2 DEF StateToCome
  <2> QED  BY <2>1, <2>2
<1> QED  BY <1>2, <1>4, <1>7, <1>8, <1>9 DEF Processed, tags

LEMMA WithStateIs ==
  \A g : \A s \in ClassState : \A h :
    Processed(g) /\ s.changes = g.state.changes /\ h = WithState(g, s) =>
      /\ Processed(h) /\ SameFiber(h, g) /\ h.queue = g.queue /\ h.state = s
      /\ StateToCome(h).changes = StateToCome(g).changes
      /\ s = g.state => h = g
<1> TAKE g
<1> TAKE s \in ClassState
<1> TAKE h
<1> HAVE Processed(g) /\ s.changes = g.state.changes /\ h = WithState(g, s)
<1> DEFINE b == IF g.queue = <<>> THEN s ELSE g.base
<1>1. h = [g EXCEPT !.state = s, !.base = b]
  BY DEF WithState
<1>2. b \in ClassState /\ (g.queue = <<>> => b = s) /\ (g.queue # <<>> => b = g.base)
  BY DEF Processed
<1> HIDE DEF b
<1>3. h = [props |-> g.props, pendingProps |-> g.pendingProps, state |-> s, base |-> b,
           queue |-> g.queue, time |-> g.time, mounted |-> g.mounted, effectTag |-> g.effectTag]
  BY <1>1 DEF Processed, ClassFiber
<1>4. h \in ClassFiber
  BY <1>2, <1>3, FieldsOfFiber DEF Processed, ClassFiber
<1>5. SameFiber(h, g) /\ h.queue = g.queue /\ h.base = b /\ h.state = s
  BY <1>3 DEF SameFiber
<1>6. StateToCome(h).changes = StateToCome(g).changes
  <2>1. CASE g.queue = <<>>
    BY <1>2, <1>5, <2>1, NothingToCome DEF Processed
  <2>2. CASE g.queue # <<>>
    BY <1>2, <1>5, <2>2 DEF StateToCome
  <2> QED  BY <2>1, <2>2
<1>7. s = g.state => h = g
  <2> SUFFICES ASSUME s = g.state PROVE h = g
    OBVIOUS
  <2>1. b = g.base
    BY <1>2 DEF Processed
  <2> QED  BY <1>3, <2>1 DEF Processed, ClassFiber
<1> QED  BY <1>2, <1>4, <1>5, <1>6, <1>7 DEF Processed
-----------------------------------------------------------------------------
(***************************************************************************)
(* Updates keep the invariant: all they change is queues.                  *)
(***************************************************************************)
SameLook(h, g) == SameFiber(h, g) /\ h.state = g.state /\ h.base = g.base

LEMMA QueuesKeepInstance ==
  ASSUME ClassInstanceAssumption, InstanceInv,
         UNCHANGED <<class, instance, output, renderedOutput, attemptTime, lifecyclePhase, rendered,
                     call>>,
         (committedFiber' = None) <=> (committedFiber = None), (wip' = None) <=> (wip = None),
         committedFiber # None => SameLook(committedFiber', committedFiber),
         wip # None => SameLook(wip', wip),
         wip # None /\ InAttempt /\ ~wip.mounted => wip'.queue = wip.queue,
         parent'.state = parent.state, renderedParent'.state = renderedParent.state,
         InstanceTypes', InSequence', Derived'
  PROVE  InstanceInv'
<1> USE DEF InstanceInv
<1>1. /\ (InMount' <=> InMount) /\ (InAttempt' <=> InAttempt) /\ (Left' <=> Left)
  BY DEF InMount, InAttempt, Left
<1>2. Rendered'
  BY <1>1 DEF Rendered, HasState, SameLook, SameFiber
<1>3. Appears'
  BY <1>1 DEF Appears
<1>4. FirstAttempt' /\ SecondAttempt'
  <2>1. lifecyclePhase = "begin" => wip # None
    BY DEF Appears
  <2> QED
    BY <1>1, <2>1 DEF FirstAttempt, SecondAttempt, SameLook, SameFiber, InMount
<1>5. /\ committedFiber # None => Shown(committedFiber') = Shown(committedFiber)
      /\ wip # None => Shown(wip') = Shown(wip)
  BY DEF Shown, SameLook, SameFiber
<1>6. Effective'
  BY <1>1, <1>5 DEF Effective, SameLook, SameFiber, InMount
<1>7. Told'
  BY <1>1, <1>5 DEF Told, SameLook, SameFiber, wip
<1>8. OnTheScreen'
  BY <1>1, <1>5 DEF OnTheScreen, SameLook, SameFiber
<1>9. LifecyclesSeeCommit'
  BY DEF LifecyclesSeeCommit
<1> QED  BY <1>2, <1>3, <1>4, <1>6, <1>7, <1>8, <1>9

LEMMA NextIdIs ==
  \A s \in Seq(Nat) : NextId(s) \in Nat /\ Append(s, NextId(s)) \in Seq(Nat)
<1> TAKE s \in Seq(Nat)
<1>1. CASE s = <<>>
  BY <1>1 DEF NextId
<1>2. CASE s # <<>>
  <2>1. Len(s) \in 1 .. Len(s) /\ s[Len(s)] \in Nat
    BY <1>2
  <2>2. NextId(s) = s[Len(s)] + 1
    BY <1>2 DEF NextId, Last
  <2> QED  BY <2>1, <2>2
<1> QED  BY <1>1, <1>2

LEMMA EnqueuedDerives ==
  ASSUME ClassInstanceAssumption
  PROVE  \A g \in ClassFiber, u \in ClassUpdate : \A t :
           DerivesUntil(g, t) \/ (u.kind = "derive" /\ u.time <= t) =>
             DerivesUntil(enqueued(g, u), t)
<1> TAKE g \in ClassFiber, u \in ClassUpdate
<1> TAKE t
<1> HAVE DerivesUntil(g, t) \/ (u.kind = "derive" /\ u.time <= t)
<1> DEFINE q == g.queue
           h == enqueued(g, u)
<1>1. q \in Seq(ClassUpdate) /\ h.queue = Append(q, u)
  BY EnqueuedIs, FieldsOfFiber
<1> HIDE DEF h
<1>2. /\ DOMAIN q = 1 .. Len(q) /\ DOMAIN h.queue = 1 .. Len(q) + 1 /\ Len(q) \in Nat
      /\ \A i \in 1 .. Len(q) : h.queue[i] = q[i]
      /\ h.queue[Len(q) + 1] = u
  BY <1>1
<1>3. CASE DerivesUntil(g, t)
  BY <1>2, <1>3 DEF DerivesUntil, h
<1>4. CASE u.kind = "derive" /\ u.time <= t
  BY <1>2, <1>4 DEF DerivesUntil, h
<1> QED  BY <1>3, <1>4

\* A fiber whose updates were in order, and one more update of an application.
LEMMA EnqueuedInOrder ==
  ASSUME ClassInstanceAssumption
  PROVE  \A g \in ClassFiber, u \in ClassUpdate : \A c, changes :
           g.base \in ClassState /\ InOrder(g, c, changes) /\ u.kind # "derive" =>
             /\ InOrder(enqueued(g, u), c,
                        IF u.kind = "setState" THEN Append(changes, u.id) ELSE changes)
             /\ StateToCome(enqueued(g, u)).derived = StateToCome(g).derived
<1> TAKE g \in ClassFiber, u \in ClassUpdate
<1> TAKE c, changes
<1> HAVE g.base \in ClassState /\ InOrder(g, c, changes) /\ u.kind # "derive"
<1> DEFINE h == enqueued(g, u)
<1>1. SameFiber(h, g) /\ h.state = g.state /\ h.queue # <<>>
  BY EnqueuedIs
<1>2. /\ StateToCome(h).changes = IF u.kind = "setState" THEN Append(StateToCome(g).changes, u.id)
                                 ELSE StateToCome(g).changes
      /\ StateToCome(h).derived = StateToCome(g).derived
  BY EnqueuedComes
<1> HIDE DEF h
<1>3. InOrder(h, c, IF u.kind = "setState" THEN Append(changes, u.id) ELSE changes)
  BY <1>1, <1>2 DEF InOrder, SameFiber
<1> QED  BY <1>2, <1>3 DEF h

LEMMA EnqueueKeepsInstance ==
  ASSUME ClassInstanceAssumption, InstanceInv,
         NEW kind \in {"setState", "null", "force"}, NEW t \in Time, enqueueUpdate(kind, t)
  PROVE  InstanceInv'
<1> USE DEF InstanceInv
<1> PICK u : u = [kind |-> kind, value |-> issued + 1, id |-> NextId(settled), time |-> t]
  OBVIOUS
<1>1. /\ Between /\ committedFiber # None /\ issued' = issued + 1
      /\ committedFiber' = enqueued(committedFiber, u) /\ wip' = enqueued(wip, u)
      /\ settled' = IF u.kind = "setState" THEN Append(settled, u.id) ELSE settled
      /\ UNCHANGED <<class, parent, renderedParent, instance, output, renderedOutput, attemptTime,
                     lifecyclePhase, rendered, call, attempts>>
  BY DEF enqueueUpdate, wip
<1>2. issued \in Nat /\ settled \in Seq(Nat)
  BY DEF InstanceTypes
<1>3. u.id \in Nat /\ settled' \in Seq(Nat) /\ issued' \in Nat
  BY <1>1, <1>2, NextIdIs
<1>4. u \in ClassUpdate /\ u.kind # "derive"
  BY <1>2, <1>3 DEF ClassUpdate
<1>5. /\ committedFiber \in ClassFiber /\ HasState(committedFiber)
      /\ InOrder(committedFiber, class, settled)
      /\ wip \in ClassFiber \cup {None}
  BY <1>1 DEF InstanceTypes, Rendered, InSequence, wip
<1>6. wip # None /\ InAttempt => HasState(wip) /\ InOrder(wip, class, settled) /\ wip.mounted
  BY <1>1 DEF Rendered, InSequence, InMount
<1>7. /\ committedFiber' \in ClassFiber /\ committedFiber' # None
      /\ SameLook(committedFiber', committedFiber)
      /\ InOrder(committedFiber', class, settled')
      /\ StateToCome(committedFiber').derived = StateToCome(committedFiber).derived
      /\ \A l : DerivesUntil(committedFiber, l) => DerivesUntil(committedFiber', l)
  <2> PICK g : g = committedFiber
    OBVIOUS
  <2>1. /\ enqueued(g, u) \in ClassFiber /\ enqueued(g, u) # None
        /\ SameLook(enqueued(g, u), g)
    BY <1>4, <1>5, EnqueuedIs DEF SameLook, ClassInstanceAssumption
  <2>2. /\ InOrder(enqueued(g, u), class, settled')
        /\ StateToCome(enqueued(g, u)).derived = StateToCome(g).derived
    BY <1>1, <1>4, <1>5, EnqueuedInOrder DEF HasState
  <2>3. \A l : DerivesUntil(g, l) => DerivesUntil(enqueued(g, u), l)
    BY <1>4, <1>5, EnqueuedDerives
  <2> QED  BY <1>1, <2>1, <2>2, <2>3
<1>8. /\ wip = None => wip' = None
      /\ wip # None => wip' \in ClassFiber /\ wip' # None /\ SameLook(wip', wip)
      /\ wip # None /\ InAttempt =>
           /\ InOrder(wip', class, settled')
           /\ StateToCome(wip').derived = StateToCome(wip).derived
           /\ \A l : DerivesUntil(wip, l) => DerivesUntil(wip', l)
  <2> PICK g : g = wip
    OBVIOUS
  <2>1. CASE g = None
    BY <1>1, <2>1 DEF enqueued
  <2>2. CASE g # None
    <3>1. g \in ClassFiber
      BY <1>5, <2>2
    <3>2. /\ enqueued(g, u) \in ClassFiber /\ enqueued(g, u) # None
          /\ SameLook(enqueued(g, u), g)
      BY <1>4, <3>1, EnqueuedIs DEF SameLook, ClassInstanceAssumption
    <3>3. InAttempt => /\ InOrder(enqueued(g, u), class, settled')
                       /\ StateToCome(enqueued(g, u)).derived = StateToCome(g).derived
      BY <1>1, <1>4, <1>6, <2>2, <3>1, EnqueuedInOrder DEF HasState
    <3>4. \A l : DerivesUntil(g, l) => DerivesUntil(enqueued(g, u), l)
      BY <1>4, <3>1, EnqueuedDerives
    <3> QED  BY <1>1, <2>2, <3>2, <3>3, <3>4
  <2> QED  BY <2>1, <2>2
<1>9. (InMount' <=> InMount) /\ (InAttempt' <=> InAttempt)
  BY <1>1, <1>7 DEF InMount, InAttempt
<1>10. InstanceTypes'
  BY <1>1, <1>3, <1>7, <1>8, <1>9 DEF InstanceTypes, wip
<1>11. InSequence'
  BY <1>1, <1>7, <1>8, <1>9 DEF InSequence
<1>12. Derived'
  BY <1>1, <1>7, <1>8, <1>9 DEF Derived, OldLifecycles, hasNewLifecycles, SameLook, SameFiber
<1>13. UNCHANGED <<class, instance, output, renderedOutput, attemptTime, lifecyclePhase, rendered,
                   call>>
  BY <1>1
<1>14. /\ (committedFiber' = None) <=> (committedFiber = None)
       /\ (wip' = None) <=> (wip = None)
       /\ committedFiber # None => SameLook(committedFiber', committedFiber)
       /\ wip # None => SameLook(wip', wip)
       /\ wip # None /\ InAttempt /\ ~wip.mounted => wip'.queue = wip.queue
       /\ parent'.state = parent.state /\ renderedParent'.state = renderedParent.state
  BY <1>1, <1>6, <1>7, <1>8
<1> QED
  BY <1>10, <1>11, <1>12, <1>13, <1>14, QueuesKeepInstance
-----------------------------------------------------------------------------
(***************************************************************************)
(* The parent.                                                             *)
(***************************************************************************)
LEMMA EnqueuedParentIs ==
  ASSUME ClassInstanceAssumption
  PROVE  \A g \in ParentFiber, u \in ParentUpdate :
           /\ enqueued(g, u) \in ParentFiber /\ enqueued(g, u).state = g.state
           /\ g.time \in Nat /\ enqueued(g, u).time \in Nat /\ g.time <= enqueued(g, u).time
<1> TAKE g \in ParentFiber, u \in ParentUpdate
<1> DEFINE h == enqueued(g, u)
           t == IF g.time < u.time THEN u.time ELSE g.time
<1>1. /\ g # None /\ u.time \in Time /\ g.time \in Time \cup {NoLifecycleWork}
      /\ g.queue \in Seq(ParentUpdate)
      /\ g.state \in Value \cup {Absent} /\ g.base \in Value \cup {Absent}
  BY DEF ClassInstanceAssumption, ParentFiber, ParentUpdate
<1>2. h = [g EXCEPT !.queue = Append(g.queue, u), !.time = t]
  BY <1>1 DEF enqueued
<1>3. /\ t \in Time \cup {NoLifecycleWork} /\ Time \cup {NoLifecycleWork} \subseteq Nat
      /\ g.time <= t
  BY <1>1 DEF Time, NoLifecycleWork, ClassInstanceAssumption
<1> HIDE DEF h, t
<1>4. h = [state |-> g.state, base |-> g.base, time |-> t, queue |-> Append(g.queue, u)]
  BY <1>2 DEF ParentFiber
<1>5. Append(g.queue, u) \in Seq(ParentUpdate)
  BY <1>1
<1>6. h \in ParentFiber
  BY <1>1, <1>3, <1>4, <1>5 DEF ParentFiber
<1> QED  BY <1>1, <1>3, <1>4, <1>6 DEF h

LEMMA ProcessedParentIs ==
  ASSUME ClassInstanceAssumption
  PROVE  \A g \in ParentFiber, t \in Time : processUpdateQueue(g, t) \in ParentFiber
<1> TAKE g \in ParentFiber, t \in Time
<1> DEFINE q == g.queue
           k == FirstSkipped(q, t)
           st == stateAfter(g.base, q, t)
           b == stateAfter(g.base, SubSeq(q, 1, k - 1), t)
           rest == SubSeq(q, k, Len(q))
           left == Max({q[i].time : i \in Skipped(q, t)} \cup {NoLifecycleWork})
           h == processUpdateQueue(g, t)
<1>1. q \in Seq(ParentUpdate) /\ Len(q) \in Nat /\ g.base \in Value \cup {Absent}
  BY DEF ParentFiber
<1>2. k \in 1 .. Len(q) + 1
  BY <1>1, FirstSkippedIs
<1>3. h = [g EXCEPT !.state = st, !.base = b, !.queue = rest, !.time = left]
  BY Zenon DEF processUpdateQueue, FirstSkipped, Skipped
<1> HIDE DEF q, k, h
<1>4. st \in Value \cup {Absent}
  BY <1>1, ParentStateAfter
<1>5. SubSeq(q, 1, k - 1) \in Seq(ParentUpdate) /\ rest \in Seq(ParentUpdate)
  BY <1>1, <1>2
<1>6. b \in Value \cup {Absent}
  BY <1>1, <1>5, ParentStateAfter
<1>7. left \in Time \cup {NoLifecycleWork}
  <2> DEFINE S == {q[i].time : i \in Skipped(q, t)} \cup {NoLifecycleWork}
  <2>1. \A i \in Skipped(q, t) : q[i] \in ParentUpdate
    BY <1>1 DEF Skipped
  <2>2. S \subseteq Time \cup {NoLifecycleWork} /\ S # {}
    BY <2>1 DEF ParentUpdate
  <2> HIDE DEF S
  <2>3. Max(S) \in S
    BY <2>2, MaxOfTimes
  <2>4. Max(S) \in Time \cup {NoLifecycleWork}
    BY <2>2, <2>3
  <2> QED  BY <2>4 DEF S
<1> HIDE DEF st, b, rest, left
<1>8. h = [state |-> st, base |-> b, time |-> left, queue |-> rest]
  BY <1>3 DEF ParentFiber
<1> QED  BY <1>4, <1>5, <1>6, <1>7, <1>8 DEF ParentFiber, h

LEMMA DerivesLonger ==
  ASSUME ClassInstanceAssumption
  PROVE  \A g : \A t, u \in Nat :
           g \in ClassFiber /\ DerivesUntil(g, t) /\ t <= u => DerivesUntil(g, u)
<1> TAKE g
<1> TAKE t, u \in Nat
<1> HAVE g \in ClassFiber /\ DerivesUntil(g, t) /\ t <= u
<1>1. PICK i \in DOMAIN g.queue : g.queue[i].kind = "derive" /\ g.queue[i].time <= t
  BY DEF DerivesUntil
<1>2. g.queue[i] \in ClassUpdate
  BY FieldsOfFiber
<1>3. g.queue[i].time \in Nat
  BY <1>2, UpdateKeepsState DEF Time, ClassUpdate, ClassInstanceAssumption
<1> QED  BY <1>1, <1>3 DEF DerivesUntil

LEMMA UpdateParentKeepsInstance ==
  ASSUME ClassInstanceAssumption, InstanceInv,
         NEW v \in Value \cup {Absent}, NEW t \in Time, updateParent(v, t)
  PROVE  InstanceInv'
<1> USE DEF InstanceInv
<1> PICK u : u = [kind |-> "parent", value |-> v, id |-> 0, time |-> t]
  OBVIOUS
<1>1. /\ Between /\ issued' = issued + 1
      /\ parent' = enqueued(parent, u) /\ renderedParent' = enqueued(renderedParent, u)
      /\ UNCHANGED <<class, committedFiber, workInProgress, instance, output, renderedOutput,
                     attemptTime, lifecyclePhase, rendered, call, attempts, settled>>
  BY DEF updateParent
<1>2. u \in ParentUpdate
  BY DEF ParentUpdate
<1>3. /\ parent' \in ParentFiber /\ parent'.state = parent.state
      /\ parent.time \in Nat /\ parent'.time \in Nat /\ parent.time <= parent'.time
  <2> PICK g : g = parent
    OBVIOUS
  <2>1. g \in ParentFiber
    BY DEF InstanceTypes
  <2> QED  BY <1>1, <1>2, <2>1, EnqueuedParentIs
<1>4. /\ renderedParent' \in ParentFiber /\ renderedParent'.state = renderedParent.state
      /\ renderedParent.time \in Nat /\ renderedParent'.time \in Nat
      /\ renderedParent.time <= renderedParent'.time
  <2> PICK g : g = renderedParent
    OBVIOUS
  <2>1. g \in ParentFiber
    BY DEF InstanceTypes
  <2> QED  BY <1>1, <1>2, <2>1, EnqueuedParentIs
<1>5. (InMount' <=> InMount) /\ (InAttempt' <=> InAttempt) /\ wip' = wip
  BY <1>1 DEF InMount, InAttempt, wip
<1>6. InstanceTypes'
  BY <1>1, <1>3, <1>4, <1>5 DEF InstanceTypes
<1>7. InSequence'
  BY <1>1, <1>5 DEF InSequence, InOrder, StateToCome
<1>8. Derived'
  <2> SUFFICES ASSUME OldLifecycles' PROVE Derived!2'
    BY DEF Derived
  <2>1. OldLifecycles /\ attemptTime' = attemptTime
    BY <1>1 DEF OldLifecycles, hasNewLifecycles
  <2>2. committedFiber # None /\ DerivesUntil(committedFiber, parent.time)
          => DerivesUntil(committedFiber, parent'.time)
    <3> PICK g : g = committedFiber
      OBVIOUS
    <3>1. g # None => g \in ClassFiber
      BY DEF InstanceTypes
    <3> QED  BY <1>3, <3>1, DerivesLonger
  <2>3. committedFiber # None =>
          \/ StateToCome(committedFiber).derived = committedFiber.props.value
          \/ DerivesUntil(committedFiber, parent.time)
    BY <2>1 DEF Derived
  <2>4. committedFiber' # None =>
          \/ StateToCome(committedFiber').derived = committedFiber'.props.value
          \/ DerivesUntil(committedFiber', parent'.time)
    BY <1>1, <2>2, <2>3
  <2>5. wip # None /\ InAttempt /\ wip.mounted /\ wip.props = wip.pendingProps =>
          \/ StateToCome(wip).derived = wip.props.value
          \/ \E l \in 0 .. attemptTime - 1 : l <= renderedParent.time /\ DerivesUntil(wip, l)
    BY <2>1 DEF Derived
  <2>6. \A l \in 0 .. attemptTime - 1 : l <= renderedParent.time => l <= renderedParent'.time
    BY <1>4 DEF InstanceTypes
  <2>7. lifecyclePhase = "begin" /\ ~InMount /\ wip.props # wip.pendingProps =>
          attemptTime <= parent'.time
    BY <1>3, <2>1 DEF Derived, InstanceTypes
  <2> QED  BY <1>1, <1>5, <2>1, <2>4, <2>5, <2>6, <2>7
<1>9. UNCHANGED <<class, instance, output, renderedOutput, attemptTime, lifecyclePhase, rendered,
                  call>>
  BY <1>1
<1>10. /\ (committedFiber' = None) <=> (committedFiber = None)
       /\ (wip' = None) <=> (wip = None)
       /\ committedFiber # None => SameLook(committedFiber', committedFiber)
       /\ wip # None => SameLook(wip', wip)
       /\ wip # None /\ InAttempt /\ ~wip.mounted => wip'.queue = wip.queue
       /\ parent'.state = parent.state /\ renderedParent'.state = renderedParent.state
  BY <1>1, <1>3, <1>4, <1>5 DEF SameLook, SameFiber
<1> QED
  BY <1>6, <1>7, <1>8, <1>9, <1>10, QueuesKeepInstance
-----------------------------------------------------------------------------
(***************************************************************************)
(* The steps of a render that leave the state alone, and of a commit.      *)
(***************************************************************************)
ShownIs(s, p) == [props |-> p.value, value |-> s.value, derived |-> s.derived,
                  failed |-> s.errors > 0]

LEMMA ShownTypes ==
  \A g : g.props \in Props /\ g.state \in ClassState =>
           Shown(g) \in Shows /\ Shown(g) = ShownIs(g.state, g.props)
  BY FieldsOfState DEF Shown, Shows, ShownIs, Props

LEMMA BeginWithoutWorkKeepsInstance ==
  ASSUME ClassInstanceAssumption, InstanceInv, beginClassWithoutWork
  PROVE  InstanceInv'
<1> USE DEF InstanceInv
<1>1. /\ lifecyclePhase = "begin" /\ lifecyclePhase' = "below" /\ (wip.mounted \/ ~InMount)
      /\ wip.props = wip.pendingProps /\ "ShouldCapture" \notin wip.effectTag
      /\ UNCHANGED <<class, parent, renderedParent, output, attemptTime, call, issued, attempts,
                     committedFiber, workInProgress, instance, renderedOutput, rendered, settled>>
  BY DEF beginClassWithoutWork, begins, beginUnchanged, NoWorkOnFiber, InMount, notCommitted
<1>2. wip # None /\ InAttempt /\ InAttempt'
  BY <1>1 DEF Appears, InAttempt
<1>3. /\ wip.effectTag = {} /\ ~rendered /\ ~InMount /\ wip.mounted
      /\ wip.props = committedFiber.props /\ wip.state = committedFiber.state
  BY <1>1, <1>2 DEF FirstAttempt, Rendered
<1>4. wip' = wip /\ (InMount' <=> InMount) /\ Left'
  BY <1>1 DEF wip, InMount, Left
<1>5. InstanceTypes'
  BY <1>1, <1>2 DEF InstanceTypes
<1>6. Rendered'
  BY <1>1, <1>2, <1>3, <1>4 DEF Rendered, HasState
<1>7. Appears' /\ FirstAttempt' /\ SecondAttempt'
  BY <1>1, <1>2, <1>4 DEF Appears, FirstAttempt, SecondAttempt
<1>8. Shown(wip) = Shown(committedFiber)
  BY <1>3 DEF Shown
<1>9. Effective'
  BY <1>1, <1>3, <1>4, <1>8 DEF Effective, InMount
<1>10. Told' /\ LifecyclesSeeCommit'
  BY <1>1 DEF Told, LifecyclesSeeCommit
<1>11. OnTheScreen' /\ InSequence'
  BY <1>1, <1>2, <1>4 DEF OnTheScreen, InSequence, InOrder, StateToCome
<1>12. Derived'
  BY <1>1, <1>2, <1>4 DEF Derived, OldLifecycles, hasNewLifecycles, StateToCome, DerivesUntil
<1> QED  BY <1>5, <1>6, <1>7, <1>9, <1>10, <1>11, <1>12

LEMMA ThrowKeepsInstance ==
  ASSUME ClassInstanceAssumption, InstanceInv, throwException
  PROVE  InstanceInv'
<1> USE DEF InstanceInv
<1>1. /\ lifecyclePhase = "below" /\ lifecyclePhase' = "begin" /\ wip # None
      /\ wip' = [wip EXCEPT !.effectTag = wip.effectTag \cup {"ShouldCapture"}]
      /\ UNCHANGED <<class, parent, renderedParent, output, attemptTime, call, issued, attempts,
                     committedFiber, instance, renderedOutput, rendered, settled>>
  BY DEF throwException, beginUnchanged, wip
<1>2. InAttempt /\ InAttempt' /\ Left /\ (InMount' <=> InMount)
  BY <1>1 DEF InAttempt, Left, InMount
<1>3. wip \in ClassFiber /\ wip.mounted /\ wip.props = wip.pendingProps /\ HasState(wip)
  BY <1>1, <1>2 DEF Rendered, InstanceTypes, wip
<1>4. /\ wip' \in ClassFiber /\ wip' # None
      /\ wip'.effectTag = wip.effectTag \cup {"ShouldCapture"}
      /\ wip'.props = wip.props /\ wip'.pendingProps = wip.pendingProps
      /\ wip'.state = wip.state /\ wip'.base = wip.base /\ wip'.queue = wip.queue
      /\ wip'.mounted = wip.mounted
  <2> PICK g : g = wip
    OBVIOUS
  <2> PICK h : h = [g EXCEPT !.effectTag = g.effectTag \cup {"ShouldCapture"}]
    OBVIOUS
  <2>1. g \in ClassFiber
    BY <1>3
  <2>2. h = [props |-> g.props, pendingProps |-> g.pendingProps, state |-> g.state,
             base |-> g.base, queue |-> g.queue, time |-> g.time, mounted |-> g.mounted,
             effectTag |-> g.effectTag \cup {"ShouldCapture"}]
    BY <2>1 DEF ClassFiber
  <2>3. h \in ClassFiber
    BY <2>1, <2>2, FieldsOfFiber DEF ClassFiber
  <2>4. wip' = h
    BY <1>1
  <2> QED  BY <2>2, <2>3, <2>4 DEF ClassInstanceAssumption
<1>5. InstanceTypes'
  BY <1>1, <1>2, <1>4 DEF InstanceTypes, wip
<1>6. Rendered'
  BY <1>1, <1>2, <1>3, <1>4 DEF Rendered, HasState, Left
<1>7. Appears' /\ FirstAttempt' /\ SecondAttempt'
  BY <1>1, <1>2, <1>3, <1>4 DEF Appears, FirstAttempt, SecondAttempt
<1>8. Effective'
  BY <1>1, <1>2, <1>4 DEF Effective, Left
<1>9. Told' /\ LifecyclesSeeCommit'
  BY <1>1 DEF Told, LifecyclesSeeCommit
<1>10. Shown(wip') = Shown(wip) /\ StateToCome(wip') = StateToCome(wip)
  BY <1>4 DEF Shown, StateToCome
<1>11. OnTheScreen' /\ InSequence'
  BY <1>1, <1>2, <1>3, <1>4, <1>10 DEF OnTheScreen, InSequence, InOrder, StateToCome
<1>12. Derived'
  BY <1>1, <1>2, <1>3, <1>4, <1>10
     DEF Derived, OldLifecycles, hasNewLifecycles, StateToCome, DerivesUntil
<1> QED  BY <1>5, <1>6, <1>7, <1>8, <1>9, <1>11, <1>12

LEMMA BeforeMutationKeepsInstance ==
  ASSUME ClassInstanceAssumption, InstanceInv, commitBeforeMutationLifeCycles
  PROVE  InstanceInv'
<1> USE DEF InstanceInv
<1> DEFINE snapshots == wip # None /\ ~InMount /\ "Snapshot" \in wip.effectTag
<1>1. /\ lifecyclePhase = "below" /\ lifecyclePhase' = "mutation"
      /\ UNCHANGED <<class, attemptTime, issued, attempts, settled, parent, renderedParent,
                     committedFiber, workInProgress, output, renderedOutput, rendered>>
      /\ snapshots =>
           /\ instance' = [instance EXCEPT !.snapshot = output]
           /\ call' = [name |-> "getSnapshotBeforeUpdate", previous |-> committedFiber,
                       this |-> instance', fiber |-> wip]
      /\ ~snapshots => UNCHANGED <<instance, call>>
  BY DEF commitBeforeMutationLifeCycles, commitUnchanged, Calls, InMount, notCommitted, wip
<1>2. /\ InAttempt /\ InAttempt' /\ Left /\ Left' /\ (InMount' <=> InMount) /\ wip' = wip
  BY <1>1 DEF InAttempt, Left, InMount, wip
<1>3. /\ instance'.props = instance.props /\ instance'.state = instance.state
      /\ instance' \in [props : Props \cup {None}, state : ClassState \cup {None},
                        snapshot : Shows \cup {None}]
      /\ snapshots => instance'.snapshot = output
  BY <1>1 DEF InstanceTypes
<1>4. InstanceTypes'
  BY <1>1, <1>2, <1>3 DEF InstanceTypes
<1>5. Rendered' /\ Appears' /\ FirstAttempt' /\ SecondAttempt'
  BY <1>1, <1>2 DEF Rendered, Appears, FirstAttempt, SecondAttempt, HasState
<1>6. Effective'
  BY <1>1, <1>2, <1>3 DEF Effective
<1>7. Told' /\ OnTheScreen'
  BY <1>1, <1>2 DEF Told, OnTheScreen
<1>8. InSequence' /\ Derived'
  BY <1>1, <1>2 DEF InSequence, InOrder, StateToCome, Derived, OldLifecycles, hasNewLifecycles,
                    DerivesUntil
<1>9. LifecyclesSeeCommit'
  <2>1. CASE snapshots
    <3>1. instance.props = wip.props /\ instance.state = wip.state
      BY <1>2, <2>1 DEF Effective
    <3> QED  BY <1>1, <1>2, <1>3, <2>1, <3>1 DEF LifecyclesSeeCommit
  <2>2. CASE ~snapshots
    BY <1>1, <2>2 DEF LifecyclesSeeCommit
  <2> QED  BY <2>1, <2>2
<1> QED  BY <1>4, <1>5, <1>6, <1>7, <1>8, <1>9

LEMMA MutationKeepsInstance ==
  ASSUME ClassInstanceAssumption, InstanceInv, commitMutation
  PROVE  InstanceInv'
<1> USE DEF InstanceInv
<1> DEFINE unmounts == wip = None /\ ~InMount
<1>1. /\ lifecyclePhase = "mutation" /\ lifecyclePhase' = "layout"
      /\ output' = IF wip = None THEN None ELSE renderedOutput
      /\ parent' = renderedParent /\ committedFiber' = wip /\ wip' = committedFiber
      /\ UNCHANGED <<class, attemptTime, issued, attempts, settled, renderedParent, renderedOutput,
                     rendered>>
      /\ unmounts =>
           /\ instance' = [instance EXCEPT !.props = committedFiber.props,
                                           !.state = committedFiber.state]
           /\ call' = [name |-> "componentWillUnmount", previous |-> committedFiber,
                       this |-> instance', fiber |-> committedFiber]
      /\ ~unmounts => instance' = instance /\ call' = None
  BY DEF commitMutation, commitUnchanged, callComponentWillUnmount, InMount, notCommitted, wip
<1>2. InAttempt /\ Left /\ ~InAttempt'
  BY <1>1 DEF InAttempt, Left
<1>3. wip # None => wip.mounted /\ HasState(wip) /\ wip.props = wip.pendingProps
  BY <1>1, <1>2 DEF Rendered
<1>4. ~InMount => HasState(committedFiber)
  BY DEF Rendered, InMount
<1>5. /\ instance' \in [props : Props \cup {None}, state : ClassState \cup {None},
                        snapshot : Shows \cup {None}]
      /\ unmounts =>
           instance'.props = committedFiber.props /\ instance'.state = committedFiber.state
  BY <1>1, <1>4 DEF InstanceTypes, HasState
<1>6. InstanceTypes'
  BY <1>1, <1>2, <1>5 DEF InstanceTypes, wip
<1>7. Rendered' /\ Appears' /\ FirstAttempt' /\ SecondAttempt'
  BY <1>1, <1>2, <1>3 DEF Rendered, Appears, FirstAttempt, SecondAttempt, HasState
<1>8. wip # None => renderedOutput = Shown(wip)
  BY <1>2, <1>3 DEF OnTheScreen
<1>9. ~InMount => output = Shown(committedFiber)
  BY DEF OnTheScreen, InMount
<1>10. Told'
  <2> SUFFICES ASSUME wip # None
               PROVE  /\ "Update" \in wip.effectTag =>
                           /\ rendered /\ instance.props = wip.props /\ instance.state = wip.state
                           /\ ~InMount /\ class.snapshot =>
                                instance.snapshot = Shown(committedFiber)
                      /\ InMount \/ renderedOutput # Shown(committedFiber)
                           \/ (rendered /\ "DidCapture" \notin wip.effectTag) =>
                           "Update" \in wip.effectTag
    BY <1>1 DEF Told, Shown, InMount, wip
  <2> QED  BY <1>1, <1>2, <1>3, <1>8, <1>9 DEF Effective
<1>11. Effective' /\ OnTheScreen'
  BY <1>1, <1>2, <1>8 DEF Effective, OnTheScreen, Shown
<1>12. InSequence'
  BY <1>1, <1>2, <1>3 DEF InSequence, InOrder, StateToCome
<1>13. Derived'
  <2> SUFFICES ASSUME OldLifecycles, wip # None
               PROVE  \/ StateToCome(wip).derived = wip.props.value
                      \/ DerivesUntil(wip, renderedParent.time)
    BY <1>1, <1>2 DEF Derived, OldLifecycles, hasNewLifecycles, StateToCome, DerivesUntil
  <2>1. \/ StateToCome(wip).derived = wip.props.value
        \/ \E t \in 0 .. attemptTime - 1 : t <= renderedParent.time /\ DerivesUntil(wip, t)
    BY <1>2, <1>3 DEF Derived
  <2>2. ASSUME NEW t \in 0 .. attemptTime - 1, t <= renderedParent.time, DerivesUntil(wip, t)
        PROVE  DerivesUntil(wip, renderedParent.time)
    <3> PICK g, u : g = wip /\ u = renderedParent.time
      OBVIOUS
    <3>1. g \in ClassFiber
      BY DEF InstanceTypes, wip
    <3>2. u \in Nat /\ t \in Nat
      BY DEF InstanceTypes, ParentFiber, Time, NoLifecycleWork, ClassInstanceAssumption
    <3> QED  BY <2>2, <3>1, <3>2, DerivesLonger
  <2> QED  BY <2>1, <2>2
<1>14. LifecyclesSeeCommit'
  BY <1>1, <1>5 DEF LifecyclesSeeCommit
<1> QED  BY <1>6, <1>7, <1>10, <1>11, <1>12, <1>13, <1>14

LEMMA LifeCyclesKeepInstance ==
  ASSUME ClassInstanceAssumption, InstanceInv, commitLifeCycles
  PROVE  InstanceInv'
<1> USE DEF InstanceInv
<1> DEFINE calls == committedFiber # None /\ "Update" \in committedFiber.effectTag
<1>1. /\ lifecyclePhase = "layout" /\ lifecyclePhase' = "idle" /\ wip' = None
      /\ instance' = IF committedFiber = None THEN Nothing ELSE instance
      /\ attemptTime' = NoLifecycleWork /\ rendered' = FALSE
      /\ UNCHANGED <<class, parent, renderedParent, committedFiber, output, renderedOutput, issued,
                     attempts, settled>>
      /\ calls =>
           call' = [name |-> IF wip = None THEN "componentDidMount" ELSE "componentDidUpdate",
                    previous |-> wip, this |-> instance, fiber |-> committedFiber]
      /\ ~calls => call' = None
  BY DEF commitLifeCycles, wip
<1>2. ~InAttempt' /\ lifecyclePhase' # "layout"
  BY <1>1 DEF InAttempt
<1>3. InstanceTypes'
  BY <1>1, <1>2 DEF InstanceTypes, Nothing, wip, NoLifecycleWork
<1>4. Rendered' /\ Appears' /\ FirstAttempt' /\ SecondAttempt' /\ Effective' /\ Told'
  BY <1>1, <1>2 DEF Rendered, Appears, FirstAttempt, SecondAttempt, Effective, Told, HasState
<1>5. OnTheScreen' /\ InSequence'
  BY <1>1, <1>2 DEF OnTheScreen, Shown, InSequence, InOrder, StateToCome
<1>6. Derived'
  BY <1>1, <1>2 DEF Derived, OldLifecycles, hasNewLifecycles, StateToCome, DerivesUntil
<1>7. LifecyclesSeeCommit'
  <2>1. CASE calls
    <3>1. /\ instance.props = committedFiber.props /\ instance.state = committedFiber.state
          /\ wip # None /\ class.snapshot => instance.snapshot = Shown(wip)
      BY <1>1, <2>1 DEF Told, wip
    <3> QED  BY <1>1, <2>1, <3>1 DEF LifecyclesSeeCommit, Shown
  <2>2. CASE ~calls
    BY <1>1, <2>2 DEF LifecyclesSeeCommit
  <2> QED  BY <2>1, <2>2
<1> QED  BY <1>3, <1>4, <1>5, <1>6, <1>7
-----------------------------------------------------------------------------
(***************************************************************************)
(* A render begins.                                                        *)
(***************************************************************************)
\* Two identities are in use at most, and one of the three is left.
LEMMA ElementIs ==
  \A v \in Value :
    /\ Element(v) \in Props
    /\ committedFiber # None /\ committedFiber.props # None =>
         Element(v) # committedFiber.props
<1> TAKE v \in Value
<1> DEFINE shown == IF committedFiber = None THEN None ELSE committedFiber.props
           used == {p.id : p \in {instance.props, shown} \ {None}}
           free == (1 .. 3) \ used
<1>1. used \subseteq {instance.props.id, shown.id} /\ (shown # None => shown.id \in used)
  OBVIOUS
<1>2. Element(v) = [id |-> Min(free), value |-> v]
  BY Zenon DEF Element
<1> HIDE DEF used
<1>3. free \subseteq Nat /\ free # {}
  BY <1>1
<1>4. Min(free) \in free
  BY <1>3, MinOfTimes
<1>5. Min(free) \in 1 .. 3 /\ Min(free) \notin used
  BY <1>4
<1> HIDE DEF free
<1>6. Element(v).id = Min(free)
  BY <1>2
<1>7. Element(v) \in Props
  BY <1>2, <1>5 DEF Props
<1>8. shown # None => Element(v) # shown
  BY <1>1, <1>5, <1>6
<1> QED  BY <1>7, <1>8

LEMMA StartKeepsInstance ==
  ASSUME ClassInstanceAssumption, InstanceInv, NEW t \in Time, startAttempt(t)
  PROVE  InstanceInv'
<1> USE DEF InstanceInv
<1> PICK p : p = processUpdateQueue(parent, t)
  OBVIOUS
<1> DEFINE renders == parent.time >= t
           q == IF renders THEN p ELSE parent
           props == IF renders /\ p.state # Absent THEN Element(p.state)
                    ELSE IF committedFiber = None THEN None ELSE committedFiber.props
<1>1. /\ lifecyclePhase \in {"idle", "begin", "below"}
      /\ renderedParent' = q
      /\ wip' = IF q.state = Absent THEN None
                ELSE IF committedFiber = None THEN createFiber(props)
                ELSE createWorkInProgress(committedFiber, props)
      /\ attemptTime' = t /\ renderedOutput' = output /\ rendered' = FALSE /\ call' = None
      /\ lifecyclePhase' = IF wip' = None THEN "below" ELSE "begin"
      /\ UNCHANGED <<class, parent, committedFiber, instance, output, issued, settled>>
  BY DEF startAttempt, wip
<1>2. p \in ParentFiber /\ parent \in ParentFiber
  <2> PICK g : g = parent
    OBVIOUS
  <2>1. g \in ParentFiber
    BY DEF InstanceTypes
  <2> QED  BY <2>1, ProcessedParentIs
<1> HIDE DEF q
<1>3. q \in ParentFiber /\ q.state \in Value \cup {Absent} /\ (~renders => q = parent)
      /\ (renders => q = p)
  BY <1>2 DEF q, ParentFiber
<1>4. q.state # Absent =>
        /\ props \in Props /\ (renders /\ ~InMount => props # committedFiber.props)
        /\ ~renders => ~InMount /\ props = committedFiber.props
  <2> SUFFICES ASSUME q.state # Absent
               PROVE  /\ props \in Props /\ (renders /\ ~InMount => props # committedFiber.props)
                      /\ ~renders => ~InMount /\ props = committedFiber.props
    OBVIOUS
  <2>1. ~InMount => committedFiber # None /\ committedFiber.props \in Props
                      /\ committedFiber.props # None
    BY DEF Rendered, HasState, InMount, ClassInstanceAssumption
  <2>2. CASE renders
    <3>1. props = Element(q.state) /\ q.state \in Value
      BY <1>3, <2>2
    <3> HIDE DEF props
    <3>2. Element(q.state) \in Props /\ (~InMount => Element(q.state) # committedFiber.props)
      <4> PICK v : v = q.state
        OBVIOUS
      <4> QED  BY <2>1, <3>1, ElementIs
    <3> QED  BY <2>2, <3>1, <3>2
  <2>3. CASE ~renders
    <3>1. ~InMount
      BY <1>3, <2>3 DEF Appears, InMount
    <3> QED  BY <2>1, <2>3, <3>1
  <2> QED  BY <2>2, <2>3
<1> HIDE DEF props
<1>5. ASSUME q.state # Absent, InMount
      PROVE  /\ wip' \in ClassFiber /\ wip' # None /\ ~wip'.mounted /\ wip'.effectTag = {}
             /\ wip'.queue = <<>>
  <2> PICK pp : pp = props
    OBVIOUS
  <2>1. wip' = createFiber(pp) /\ pp \in Props
    BY <1>1, <1>4, <1>5 DEF InMount
  <2> PICK h : h = createFiber(pp)
    OBVIOUS
  <2>2. h \in ClassFiber /\ ~h.mounted /\ h.effectTag = {} /\ h.queue = <<>>
    BY <2>1 DEF createFiber, ClassFiber
  <2> QED  BY <2>1, <2>2 DEF ClassInstanceAssumption
<1>6. ASSUME q.state # Absent, ~InMount
      PROVE  /\ wip' \in ClassFiber /\ wip' # None /\ wip'.effectTag = {}
             /\ wip'.pendingProps = props
             /\ wip'.props = committedFiber.props /\ wip'.state = committedFiber.state
             /\ wip'.base = committedFiber.base /\ wip'.queue = committedFiber.queue
             /\ wip'.mounted /\ HasState(committedFiber)
  <2> PICK pp, g : pp = props /\ g = committedFiber
    OBVIOUS
  <2>1. wip' = createWorkInProgress(g, pp) /\ pp \in Props /\ g \in ClassFiber /\ HasState(g)
    BY <1>1, <1>4, <1>6 DEF InMount, InstanceTypes, Rendered
  <2> PICK h : h = createWorkInProgress(g, pp)
    OBVIOUS
  <2>2. h = [props |-> g.props, pendingProps |-> pp, state |-> g.state, base |-> g.base,
             queue |-> g.queue, time |-> g.time, mounted |-> g.mounted, effectTag |-> {}]
    BY <2>1 DEF createWorkInProgress, ClassFiber
  <2>3. h \in ClassFiber
    BY <2>1, <2>2, FieldsOfFiber DEF ClassFiber
  <2>4. wip' = h /\ h # None
    BY <2>1, <2>3 DEF ClassInstanceAssumption
  <2>5. /\ h.effectTag = {} /\ h.pendingProps = pp /\ h.props = g.props /\ h.state = g.state
        /\ h.base = g.base /\ h.queue = g.queue /\ h.mounted = g.mounted
    BY <2>2
  <2> QED  BY <2>1, <2>3, <2>4, <2>5 DEF HasState
<1>7. /\ (wip' = None) <=> (q.state = Absent)
      /\ lifecyclePhase' = IF q.state = Absent THEN "below" ELSE "begin"
      /\ InAttempt' /\ (InMount' <=> InMount)
  BY <1>1, <1>5, <1>6 DEF InAttempt, InMount
<1>8. InstanceTypes'
  <2>1. wip' \in ClassFiber \cup {None}
    BY <1>5, <1>6, <1>7
  <2>2. t \in Nat /\ lifecyclePhase' \in {"below", "begin"}
    BY <1>7 DEF Time, ClassInstanceAssumption
  <2> QED  BY <1>1, <1>3, <2>1, <2>2 DEF InstanceTypes, wip
<1>9. Rendered'
  BY <1>1, <1>5, <1>6, <1>7 DEF Rendered, HasState, Left
<1>10. Appears'
  BY <1>1, <1>7 DEF Appears
<1>11. FirstAttempt' /\ SecondAttempt'
  BY <1>1, <1>5, <1>6, <1>7 DEF FirstAttempt, SecondAttempt
<1>12. Effective'
  BY <1>1, <1>5, <1>6, <1>7 DEF Effective, Left
<1>13. Told' /\ LifecyclesSeeCommit'
  BY <1>1, <1>7 DEF Told, LifecyclesSeeCommit
<1>14. q.state # Absent /\ ~InMount =>
         Shown(wip') = Shown(committedFiber) /\ StateToCome(wip') = StateToCome(committedFiber)
  BY <1>6 DEF Shown, StateToCome
<1>15. OnTheScreen'
  BY <1>1, <1>5, <1>7, <1>14 DEF OnTheScreen, InMount, Shown
<1>16. InSequence'
  <2>1. committedFiber' # None => InOrder(committedFiber', class', settled')
    BY <1>1 DEF InSequence, InOrder, StateToCome
  <2>2. q.state # Absent /\ ~InMount => InOrder(wip', class', settled')
    BY <1>1, <1>6, <1>14 DEF InSequence, InOrder, InMount
  <2> QED  BY <1>5, <1>7, <2>1, <2>2 DEF InSequence
<1>17. Derived'
  <2> SUFFICES ASSUME OldLifecycles
               PROVE  /\ committedFiber' # None =>
                           \/ StateToCome(committedFiber').derived = committedFiber'.props.value
                           \/ DerivesUntil(committedFiber', parent'.time)
                      /\ wip' # None /\ InAttempt' /\ wip'.mounted /\ wip'.props = wip'.pendingProps =>
                           \/ StateToCome(wip').derived = wip'.props.value
                           \/ \E l \in 0 .. attemptTime' - 1 :
                                l <= renderedParent'.time /\ DerivesUntil(wip', l)
                      /\ lifecyclePhase' = "begin" /\ ~InMount' /\ wip'.props # wip'.pendingProps =>
                           attemptTime' <= parent'.time
    BY <1>1 DEF Derived, OldLifecycles, hasNewLifecycles
  <2>1. committedFiber # None =>
          \/ StateToCome(committedFiber).derived = committedFiber.props.value
          \/ DerivesUntil(committedFiber, parent.time)
    BY DEF Derived
  <2>2. committedFiber' # None =>
          \/ StateToCome(committedFiber').derived = committedFiber'.props.value
          \/ DerivesUntil(committedFiber', parent'.time)
    BY <1>1, <2>1 DEF StateToCome, DerivesUntil
  <2>3. t \in Nat /\ parent.time \in Nat
    BY <1>2 DEF Time, NoLifecycleWork, ParentFiber, ClassInstanceAssumption
  <2>4. ASSUME wip' # None, wip'.mounted, wip'.props = wip'.pendingProps
        PROVE  \/ StateToCome(wip').derived = wip'.props.value
               \/ \E l \in 0 .. attemptTime' - 1 :
                    l <= renderedParent'.time /\ DerivesUntil(wip', l)
    <3>1. q.state # Absent /\ ~InMount
      BY <1>5, <1>7, <2>4
    <3>2. ~renders
      BY <1>4, <1>6, <2>4, <3>1
    <3>3. DerivesUntil(committedFiber, parent.time) => DerivesUntil(wip', parent.time)
      BY <1>6, <3>1 DEF DerivesUntil
    <3>4. parent.time \in 0 .. attemptTime' - 1 /\ renderedParent' = parent
      BY <1>1, <1>3, <2>3, <3>2
    <3>5. parent.time <= renderedParent'.time
      BY <2>3, <3>4
    <3>6. StateToCome(wip') = StateToCome(committedFiber) /\ wip'.props = committedFiber.props
      BY <1>6, <1>14, <3>1
    <3> QED  BY <2>1, <3>1, <3>3, <3>4, <3>5, <3>6 DEF InMount
  <2>5. ASSUME lifecyclePhase' = "begin", ~InMount', wip'.props # wip'.pendingProps
        PROVE  attemptTime' <= parent'.time
    <3>1. q.state # Absent /\ ~InMount
      BY <1>7, <2>5
    <3>2. renders
      BY <1>4, <1>6, <2>5, <3>1
    <3> QED  BY <1>1, <2>3, <3>2
  <2> QED  BY <2>2, <2>4, <2>5
<1> QED
  BY <1>8, <1>9, <1>10, <1>11, <1>12, <1>13, <1>15, <1>16, <1>17
-----------------------------------------------------------------------------
(***************************************************************************)
(* The component is rendered.                                              *)
(***************************************************************************)
FiberTags == {"Update", "Snapshot", "ShouldCapture", "DidCapture"}

LEMMA LeftAs ==
  ASSUME ClassInstanceAssumption
  PROVE  \A f : \A tags : \A h :
           Processed(f) /\ tags \subseteq FiberTags /\ h = renderedFiber(f, tags) =>
             /\ h \in ClassFiber /\ h # None /\ HasState(h) /\ h.mounted
             /\ h.props = f.pendingProps /\ h.pendingProps = f.pendingProps
             /\ f.pendingProps \in Props
             /\ h.state = f.state /\ h.base = f.base /\ h.queue = f.queue
             /\ h.effectTag = f.effectTag \cup tags
             /\ StateToCome(h) = StateToCome(f)
             /\ Shown(h) = ShownIs(f.state, f.pendingProps) /\ Shown(h) \in Shows
<1> TAKE f
<1> TAKE tags
<1> TAKE h
<1> HAVE Processed(f) /\ tags \subseteq FiberTags /\ h = renderedFiber(f, tags)
<1>1. f \in ClassFiber /\ f.state \in ClassState /\ f.base \in ClassState
      /\ f.effectTag \subseteq FiberTags /\ f.pendingProps \in Props
  BY FieldsOfFiber DEF Processed, FiberTags
<1> DEFINE all == f.effectTag \cup tags
<1>2. all \subseteq {"Update", "Snapshot", "ShouldCapture", "DidCapture"}
  BY <1>1 DEF FiberTags
<1>3. h = [f EXCEPT !.props = f.pendingProps, !.mounted = TRUE, !.effectTag = all]
  BY DEF renderedFiber
<1> HIDE DEF all
<1>4. h = [props |-> f.pendingProps, pendingProps |-> f.pendingProps, state |-> f.state,
           base |-> f.base, queue |-> f.queue, time |-> f.time, mounted |-> TRUE,
           effectTag |-> all]
  BY <1>1, <1>3 DEF ClassFiber
<1>5. h \in ClassFiber
  BY <1>1, <1>2, <1>4, FieldsOfFiber DEF ClassFiber
<1>6. /\ h # None /\ h.mounted /\ h.props = f.pendingProps /\ h.pendingProps = f.pendingProps
      /\ h.state = f.state /\ h.base = f.base /\ h.queue = f.queue /\ h.effectTag = all
  <2>1. h # None
    BY <1>5 DEF ClassInstanceAssumption
  <2> QED  BY <1>4, <2>1
<1>7. HasState(h)
  BY <1>1, <1>6 DEF HasState
<1>8. StateToCome(h) = StateToCome(f)
  BY <1>6 DEF StateToCome
<1>9. Shown(h) = ShownIs(f.state, f.pendingProps) /\ Shown(h) \in Shows
  BY <1>1, <1>6, ShownTypes
<1> QED  BY <1>1, <1>5, <1>6, <1>7, <1>8, <1>9 DEF all

\* The props and the state of the instance are those of the fiber that is left.
LEMMA InstanceLeft ==
  ASSUME InstanceTypes
  PROVE  \A f : \A i :
           Processed(f) /\ i = [instance EXCEPT !.props = f.pendingProps, !.state = f.state] =>
             /\ i.props = f.pendingProps /\ i.state = f.state
             /\ i \in [props : Props \cup {None}, state : ClassState \cup {None},
                       snapshot : Shows \cup {None}]
<1> TAKE f
<1> TAKE i
<1> HAVE Processed(f) /\ i = [instance EXCEPT !.props = f.pendingProps, !.state = f.state]
<1>1. f.pendingProps \in Props /\ f.state \in ClassState
  BY FieldsOfFiber DEF Processed
<1> QED  BY <1>1 DEF InstanceTypes

\* The update that sets state from the props.
DeriveUpdate(id, value) ==
  [kind |-> "derive", value |-> value, id |-> id, time |-> attemptTime]

LEMMA MountKeepsInstance ==
  ASSUME ClassInstanceAssumption, InstanceInv, mountClassInstance
  PROVE  InstanceInv'
<1> USE DEF InstanceInv
<1>w. PICK before, pending : before = wip /\ pending = wip.pendingProps
  OBVIOUS
<1>n. PICK new : new = [wip EXCEPT !.state = InitialState, !.base = InitialState]
  OBVIOUS
<1>d. PICK derived : derived = applyDerivedStateFromProps(new, pending)
  OBVIOUS
<1> DEFINE willMount == class.unsafe /\ ~hasNewLifecycles
<1>r. PICK received : received = derivedBy(derived, 1)
  OBVIOUS
<1>f. PICK f : f = IF willMount THEN processUpdateQueue(received, attemptTime) ELSE derived
  OBVIOUS
<1>h. PICK h : h = renderedFiber(f, {"Update"})
  OBVIOUS
<1>1. /\ lifecyclePhase = "begin" /\ lifecyclePhase' = "below" /\ InMount /\ ~before.mounted
      /\ wip' = h
      /\ instance' = [instance EXCEPT !.props = f.pendingProps, !.state = f.state]
      /\ renderedOutput' = Shown(h) /\ rendered' = TRUE
      /\ settled' = IF willMount THEN <<1>> ELSE <<>>
      /\ UNCHANGED <<class, parent, renderedParent, output, attemptTime, call, issued, attempts,
                     committedFiber>>
  <2>1. leave(f, TRUE, {"Update"})
    BY <1>w, <1>n, <1>d, <1>r, <1>f DEF mountClassInstance
  <2> QED  BY <1>w, <1>h, <2>1 DEF mountClassInstance, leave, beginUnchanged, notCommitted, InMount, wip
<1>2. InAttempt /\ InAttempt' /\ Left' /\ (InMount' <=> InMount) /\ InMount
  BY <1>1 DEF InAttempt, Left, InMount
<1>3. /\ before # None /\ before \in ClassFiber /\ before.queue = <<>> /\ pending \in Props
      /\ before.effectTag = {} /\ attemptTime \in Time
  <2>1. before # None /\ before \in ClassFiber
    BY <1>w, <1>1 DEF Appears, InstanceTypes, wip
  <2> QED
    BY <1>w, <1>1, <1>2, <2>1, FieldsOfFiber DEF Rendered, FirstAttempt, SecondAttempt, InstanceTypes
<1>4. InitialState \in ClassState /\ InitialState.changes = <<>>
  BY DEF InitialState, ClassState
<1>5. Processed(new) /\ SameFiber(new, before) /\ new.queue = <<>> /\ new.base = InitialState
  <2> PICK s : s = InitialState
    OBVIOUS
  <2>1. new = [props |-> before.props, pendingProps |-> before.pendingProps, state |-> s, base |-> s,
               queue |-> before.queue, time |-> before.time, mounted |-> before.mounted, effectTag |-> before.effectTag]
    BY <1>w, <1>n, <1>3 DEF ClassFiber
  <2>2. new \in ClassFiber
    BY <1>3, <1>4, <2>1, FieldsOfFiber DEF ClassFiber
  <2> QED  BY <1>3, <1>4, <2>1, <2>2 DEF Processed, SameFiber
<1>6. /\ Processed(derived) /\ SameFiber(derived, before) /\ derived.queue = <<>>
      /\ StateToCome(derived).changes = <<>>
      /\ class.gDSFP => derived.state.derived = pending.value
  <2>1. StateToCome(new).changes = <<>>
    BY <1>4, <1>5, NothingToCome
  <2>2. /\ Processed(derived) /\ SameFiber(derived, new) /\ derived.queue = new.queue
        /\ StateToCome(derived).changes = StateToCome(new).changes
        /\ class.gDSFP => derived.state.derived = pending.value
    <3>d. PICK d : d = getDerivedStateFromProps(new.state, pending)
      OBVIOUS
    <3>1. d \in ClassState /\ d.changes = new.state.changes
          /\ (class.gDSFP => d.derived = pending.value)
      BY <3>d, <1>3, <1>5 DEF getDerivedStateFromProps, Processed, ClassState, Props
    <3>2. derived = WithState(new, d)
      BY <1>d, <3>d DEF applyDerivedStateFromProps, WithState
    <3>3. /\ Processed(derived) /\ SameFiber(derived, new) /\ derived.queue = new.queue
          /\ StateToCome(derived).changes = StateToCome(new).changes /\ derived.state = d
      BY <1>5, <3>1, <3>2, WithStateIs
    <3> QED  BY <3>1, <3>3
  <2> QED  BY <1>5, <2>1, <2>2 DEF SameFiber
<1>7. ASSUME willMount
      PROVE  /\ Processed(f) /\ SameFiber(f, before) /\ StateToCome(f).changes = <<1>>
             /\ StateToCome(f).derived = pending.value
  <2> PICK u : u = DeriveUpdate(1, pending.value)
    OBVIOUS
  <2>1. u \in ClassUpdate /\ u.kind = "derive" /\ u.value = pending.value /\ u.id = 1
    <3>1. pending.value \in Value
      BY <1>3 DEF Props
    <3> PICK v, n : v = pending.value /\ n = 1
      OBVIOUS
    <3>2. u = DeriveUpdate(n, v) /\ n \in Nat /\ v \in Value
      BY <3>1
    <3>3. u \in ClassUpdate /\ u.kind = "derive" /\ u.value = v /\ u.id = n
      BY <1>3, <3>2 DEF DeriveUpdate, ClassUpdate
    <3> QED  BY <3>3
  <2>2. received = enqueued(derived, u)
    BY <1>w, <1>r DEF derivedBy, DeriveUpdate
  <2>3. derived \in ClassFiber /\ derived.base \in ClassState
    BY <1>6 DEF Processed
  <2>4. /\ received \in ClassFiber /\ SameFiber(received, derived)
        /\ received.base = derived.base
    BY <2>1, <2>2, <2>3, EnqueuedIs
  <2>5. /\ StateToCome(received).changes = Append(StateToCome(derived).changes, 1)
        /\ StateToCome(received).derived = pending.value
    <3>1. /\ StateToCome(enqueued(derived, u)).changes =
               IF u.kind \in {"setState", "derive"} THEN Append(StateToCome(derived).changes, u.id)
               ELSE StateToCome(derived).changes
          /\ StateToCome(enqueued(derived, u)).derived =
               IF u.kind = "derive" THEN u.value ELSE StateToCome(derived).derived
      BY <2>1, <2>3, EnqueuedComes
    <3> QED  BY <2>1, <2>2, <3>1
  <2>6. f = processUpdateQueue(received, attemptTime)
    BY <1>f, <1>7
  <2>7. /\ f \in ClassFiber /\ SameFiber(f, received) /\ f.state \in ClassState
        /\ f.base \in ClassState /\ StateToCome(f) = StateToCome(received)
        /\ f.queue = <<>> => f.state = f.base
    <3> PICK t : t = attemptTime
      OBVIOUS
    <3> QED  BY <1>3, <2>3, <2>4, <2>6, ProcessedIs
  <2>8. Append(StateToCome(derived).changes, 1) = <<1>>
    <3>1. Append(<<>>, 1) = <<1>>
      OBVIOUS
    <3> QED  BY <1>6, <3>1
  <2> QED  BY <1>6, <2>4, <2>5, <2>7, <2>8 DEF Processed, SameFiber
<1>8. ~willMount => f = derived
  BY <1>f
<1>9. /\ Processed(f) /\ SameFiber(f, before) /\ StateToCome(f).changes = settled'
      /\ willMount => StateToCome(f).derived = pending.value
      /\ class.gDSFP => f.state.derived = pending.value
  BY <1>1, <1>6, <1>7, <1>8 DEF hasNewLifecycles
<1>10. /\ h \in ClassFiber /\ h # None /\ HasState(h) /\ h.mounted
       /\ h.props = pending /\ h.pendingProps = pending
       /\ h.state = f.state /\ h.base = f.base /\ h.queue = f.queue /\ h.effectTag = {"Update"}
       /\ StateToCome(h) = StateToCome(f) /\ Shown(h) \in Shows
  <2>1. f.pendingProps = pending /\ f.effectTag = {}
    BY <1>w, <1>3, <1>9 DEF SameFiber
  <2> QED  BY <1>h, <1>9, <2>1, LeftAs DEF FiberTags
<1>11. /\ instance'.props = pending /\ instance'.state = f.state
       /\ instance' \in [props : Props \cup {None}, state : ClassState \cup {None},
                         snapshot : Shows \cup {None}]
  <2> PICK i : i = instance'
    OBVIOUS
  <2>1. f.pendingProps = pending
    BY <1>w, <1>9 DEF SameFiber
  <2>2. i = [instance EXCEPT !.props = f.pendingProps, !.state = f.state]
    BY <1>1
  <2>3. /\ i.props = f.pendingProps /\ i.state = f.state
        /\ i \in [props : Props \cup {None}, state : ClassState \cup {None},
                  snapshot : Shows \cup {None}]
    BY <1>9, <2>2, InstanceLeft
  <2> QED  BY <2>1, <2>3
<1>12. InstanceTypes'
  <2>1. settled' \in Seq(Nat)
    BY <1>1
  <2> QED  BY <1>1, <1>10, <1>11, <2>1 DEF InstanceTypes, wip, InAttempt
<1>13. Rendered' /\ Appears'
  BY <1>1, <1>2, <1>3, <1>10 DEF Rendered, Appears, InMount, HasState
<1>14. FirstAttempt' /\ SecondAttempt' /\ Told' /\ LifecyclesSeeCommit'
  BY <1>1 DEF FirstAttempt, SecondAttempt, Told, LifecyclesSeeCommit
<1>15. Effective'
  BY <1>1, <1>2, <1>10, <1>11 DEF Effective
<1>16. OnTheScreen'
  BY <1>1, <1>2 DEF OnTheScreen, InMount
<1>17. InSequence'
  <2>1. InOrder(h, class, settled')
    BY <1>9, <1>10 DEF InOrder, Processed
  <2> QED  BY <1>1, <1>2, <2>1 DEF InSequence, InMount
<1>18. Derived'
  BY <1>1, <1>2, <1>9, <1>10 DEF Derived, OldLifecycles, hasNewLifecycles, InMount
<1> QED  BY <1>12, <1>13, <1>14, <1>15, <1>16, <1>17, <1>18

\* What updateClassInstance leaves, before the component is rendered: f, from the fiber before
\* of which the state to come is that of the application and what the props set.
Leaves(before, f, changes) ==
  /\ Processed(f) /\ f.pendingProps = before.pendingProps
  /\ StateToCome(f).changes = changes
  /\ f.effectTag = IF "ShouldCapture" \in before.effectTag
                   THEN (before.effectTag \ {"ShouldCapture"}) \cup {"DidCapture"} ELSE before.effectTag

LEMMA ProcessedFiberIs ==
  ASSUME ClassInstanceAssumption, InstanceInv, receive, lifecyclePhase = "begin",
         wip # None, wip.mounted
  PROVE  /\ Leaves(wip, processedFiber, settled')
         /\ Receives => StateToCome(processedFiber).derived = wip.pendingProps.value
         /\ ~Receives =>
              /\ StateToCome(processedFiber).derived = StateToCome(wip).derived
              /\ \A l \in 0 .. attemptTime - 1 :
                   DerivesUntil(wip, l) => DerivesUntil(processedFiber, l)
<1> USE DEF InstanceInv
<1>w. PICK before, t, id : before = wip /\ t = attemptTime /\ id = NextId(settled)
  OBVIOUS
<1>r. PICK received : received = receivedFiber
  OBVIOUS
<1>p. PICK p : p = processUpdateQueue(received, t)
  OBVIOUS
<1>f. PICK f : f = processedFiber
  OBVIOUS
<1>1. /\ before \in ClassFiber /\ before # None /\ t \in Time /\ before.state \in ClassState
      /\ before.base \in ClassState /\ before.pendingProps \in Props /\ settled \in Seq(Nat)
      /\ StateToCome(before).changes = settled /\ HasState(before)
  <2>1. before \in ClassFiber /\ before # None /\ before.mounted /\ InAttempt
    BY <1>w DEF InstanceTypes, wip, InAttempt
  <2>2. t \in Time /\ HasState(before) /\ settled \in Seq(Nat) /\ InOrder(before, class, settled)
    BY <1>w, <2>1 DEF InstanceTypes, Rendered, InSequence
  <2> QED  BY <2>1, <2>2, FieldsOfFiber DEF HasState, InOrder
<1>2. id \in Nat /\ Append(settled, id) \in Seq(Nat)
  BY <1>w, <1>1, NextIdIs
<1>3. /\ received \in ClassFiber /\ SameFiber(received, before) /\ received.base \in ClassState
      /\ StateToCome(received).changes = settled'
      /\ Receives => StateToCome(received).derived = before.pendingProps.value
      /\ ~Receives => received = before
  <2>1. CASE Receives
    <3>u. PICK u : u = DeriveUpdate(id, before.pendingProps.value)
      OBVIOUS
    <3>1. before.pendingProps.value \in Value
      BY <1>1 DEF Props
    <3>2. u \in ClassUpdate /\ u.kind = "derive" /\ u.value = before.pendingProps.value /\ u.id = id
      BY <1>w, <1>1, <1>2, <3>u, <3>1 DEF DeriveUpdate, ClassUpdate
    <3>3. received = enqueued(before, u) /\ settled' = Append(settled, id)
      BY <1>w, <1>r, <2>1, <3>u DEF receivedFiber, derivedBy, DeriveUpdate, receive
    <3>4. /\ enqueued(before, u) \in ClassFiber /\ SameFiber(enqueued(before, u), before)
          /\ enqueued(before, u).base = before.base
      BY <1>1, <3>2, EnqueuedIs
    <3>5. /\ StateToCome(enqueued(before, u)).changes =
               IF u.kind \in {"setState", "derive"} THEN Append(StateToCome(before).changes, u.id)
               ELSE StateToCome(before).changes
          /\ StateToCome(enqueued(before, u)).derived =
               IF u.kind = "derive" THEN u.value ELSE StateToCome(before).derived
      BY <1>1, <3>2, EnqueuedComes
    <3> QED  BY <1>1, <2>1, <3>2, <3>3, <3>4, <3>5
  <2>2. CASE ~Receives
    BY <1>w, <1>r, <1>1, <2>2 DEF receivedFiber, receive, SameFiber
  <2> QED  BY <2>1, <2>2
<1>4. /\ Processed(p) /\ SameFiber(p, received)
      /\ StateToCome(p) = StateToCome(received)
      /\ \A i \in DOMAIN received.queue :
           received.queue[i].time < t => \E j \in DOMAIN p.queue : p.queue[j] = received.queue[i]
  <2>1. /\ p \in ClassFiber /\ SameFiber(p, received) /\ p.state \in ClassState
        /\ p.base \in ClassState /\ StateToCome(p) = StateToCome(received)
        /\ p.queue = <<>> => p.state = p.base
        /\ \A i \in DOMAIN received.queue :
             received.queue[i].time < t =>
               \E j \in DOMAIN p.queue : p.queue[j] = received.queue[i]
    BY <1>p, <1>1, <1>3, ProcessedIs
  <2> QED  BY <2>1 DEF Processed
<1>5. /\ Processed(f) /\ f.pendingProps = p.pendingProps /\ f.queue = p.queue
      /\ f.effectTag = IF "ShouldCapture" \in before.effectTag
                       THEN (p.effectTag \ {"ShouldCapture"}) \cup {"DidCapture"} ELSE p.effectTag
      /\ StateToCome(f).changes = StateToCome(p).changes
      /\ StateToCome(f).derived = StateToCome(p).derived
  <2>1. CASE "ShouldCapture" \in before.effectTag
    <3>1. f = Captured(p)
      BY <1>w, <1>r, <1>p, <1>f, <2>1 DEF processedFiber, capturedFiber, Captured
    <3>2. /\ Processed(f) /\ f.pendingProps = p.pendingProps /\ f.queue = p.queue
          /\ f.effectTag = (p.effectTag \ {"ShouldCapture"}) \cup {"DidCapture"}
          /\ StateToCome(f).changes = StateToCome(p).changes
          /\ StateToCome(f).derived = StateToCome(p).derived
      BY <1>4, <3>1, CapturedIs
    <3> QED  BY <2>1, <3>2
  <2>2. CASE "ShouldCapture" \notin before.effectTag
    <3>1. f = p
      BY <1>w, <1>r, <1>p, <1>f, <2>2 DEF processedFiber, capturedFiber
    <3> QED  BY <1>4, <2>2, <3>1
  <2> QED  BY <2>1, <2>2
<1>6. Leaves(before, f, settled')
  BY <1>3, <1>4, <1>5 DEF Leaves, SameFiber
<1>7. Receives => StateToCome(f).derived = before.pendingProps.value
  BY <1>3, <1>4, <1>5
<1>8. ASSUME ~Receives
      PROVE  /\ StateToCome(f).derived = StateToCome(before).derived
             /\ \A l \in 0 .. t - 1 : DerivesUntil(before, l) => DerivesUntil(f, l)
  <2>1. StateToCome(f).derived = StateToCome(before).derived /\ received = before
    BY <1>3, <1>4, <1>5, <1>8
  <2>2. ASSUME NEW l \in 0 .. t - 1, DerivesUntil(before, l)
        PROVE  DerivesUntil(f, l)
    <3>1. PICK i \in DOMAIN before.queue : before.queue[i].kind = "derive" /\ before.queue[i].time <= l
      BY <2>2 DEF DerivesUntil
    <3>2. before.queue[i] \in ClassUpdate
      BY <1>1, FieldsOfFiber
    <3>3. before.queue[i].time \in Nat /\ t \in Nat
      BY <1>1, <3>2, UpdateKeepsState DEF Time, ClassUpdate, ClassInstanceAssumption
    <3>4. before.queue[i].time < t
      BY <3>1, <3>3
    <3>5. PICK j \in DOMAIN p.queue : p.queue[j] = before.queue[i]
      BY <1>4, <2>1, <3>4
    <3> QED  BY <1>5, <3>1, <3>5 DEF DerivesUntil
  <2> QED  BY <2>1, <2>2
<1> QED  BY <1>w, <1>f, <1>6, <1>7, <1>8

LEMMA UpdateKeepsInstance ==
  ASSUME ClassInstanceAssumption, InstanceInv, updateClassInstance
  PROVE  InstanceInv'
<1> USE DEF InstanceInv
<1> DEFINE toUpdate == IF sameAsBefore THEN changedSinceCommit ELSE shouldUpdate \/ changedSinceCommit
           renders == IF sameAsBefore THEN didCapture ELSE shouldUpdate \/ didCapture
<1>w. PICK before, pf : before = wip /\ pf = processedFiber
  OBVIOUS
<1>f. PICK f : f = IF sameAsBefore THEN processedFiber ELSE derivedFiber
  OBVIOUS
<1>g. PICK tags : tags = Effects(toUpdate)
  OBVIOUS
<1>h. PICK h : h = renderedFiber(f, tags)
  OBVIOUS
<1>1. /\ lifecyclePhase = "begin" /\ lifecyclePhase' = "below" /\ (before.mounted \/ ~InMount)
      /\ wip' = h
      /\ instance' = [instance EXCEPT !.props = f.pendingProps, !.state = f.state]
      /\ renderedOutput' = IF renders THEN Shown(h) ELSE renderedOutput
      /\ rendered' = (rendered \/ renders)
      /\ receive
      /\ UNCHANGED <<class, parent, renderedParent, output, attemptTime, call, issued, attempts>>
  <2>1. leave(f, renders, tags)
    BY <1>f, <1>g DEF updateClassInstance
  <2>2. /\ wip' = h
        /\ instance' = [instance EXCEPT !.props = f.pendingProps, !.state = f.state]
        /\ renderedOutput' = IF renders THEN Shown(h) ELSE renderedOutput
        /\ rendered' = (rendered \/ renders) /\ lifecyclePhase' = "below"
    BY <1>h, <2>1 DEF leave, wip
  <2> QED
    BY <1>w, <2>2 DEF updateClassInstance, begins, beginUnchanged, InMount, notCommitted
<1>2. InAttempt /\ InAttempt' /\ Left'
  BY <1>1 DEF InAttempt, Left
<1>3. /\ before # None /\ before \in ClassFiber /\ before.mounted /\ HasState(before) /\ attemptTime \in Time
      /\ before.pendingProps \in Props /\ before.effectTag \subseteq FiberTags /\ settled \in Seq(Nat)
  <2>1. before # None /\ before \in ClassFiber
    BY <1>w, <1>1 DEF Appears, InstanceTypes, wip
  <2> QED
    BY <1>w, <1>1, <1>2, <2>1, FieldsOfFiber DEF Rendered, InstanceTypes, FiberTags
<1>4. /\ Leaves(before, pf, settled')
      /\ Receives => StateToCome(pf).derived = before.pendingProps.value
      /\ ~Receives =>
           /\ StateToCome(pf).derived = StateToCome(before).derived
           /\ \A l \in 0 .. attemptTime - 1 : DerivesUntil(before, l) => DerivesUntil(pf, l)
  BY <1>w, <1>1, <1>3, ProcessedFiberIs
<1>5. /\ Leaves(before, f, settled')
      /\ class.gDSFP => f.state.derived = before.pendingProps.value
      /\ ~class.gDSFP => f = pf
      /\ ~sameAsBefore => Shallow(derivedFiber.state) = Shallow(f.state)
      /\ sameAsBefore => before.props = before.pendingProps /\ before.state = f.state
  <2>1. CASE sameAsBefore
    <3>1. f = pf /\ before.props = before.pendingProps /\ before.state = f.state
      BY <1>w, <1>f, <2>1 DEF sameAsBefore
    <3>2. class.gDSFP => before.state.derived = before.props.value
      BY <1>w, <1>2, <1>3 DEF InSequence, InOrder
    <3> QED  BY <1>4, <2>1, <3>1, <3>2
  <2>2. CASE ~sameAsBefore
    <3>p. PICK pending : pending = before.pendingProps
      OBVIOUS
    <3>d. PICK d : d = getDerivedStateFromProps(pf.state, pending)
      OBVIOUS
    <3>1. /\ d \in ClassState /\ d.changes = pf.state.changes
          /\ IF class.gDSFP THEN d.derived = pending.value ELSE d = pf.state
      BY <1>3, <1>4, <3>p, <3>d
         DEF getDerivedStateFromProps, Leaves, Processed, ClassState, Props
    <3>2. f = WithState(pf, d) /\ f = derivedFiber
      BY <1>w, <1>f, <2>2, <3>p, <3>d DEF derivedFiber, applyDerivedStateFromProps, WithState
    <3>3. Processed(pf)
      BY <1>4 DEF Leaves
    <3>4. /\ Processed(f) /\ SameFiber(f, pf) /\ f.queue = pf.queue /\ f.state = d
          /\ StateToCome(f).changes = StateToCome(pf).changes
          /\ d = pf.state => f = pf
      <4>1. d \in ClassState /\ d.changes = pf.state.changes /\ f = WithState(pf, d)
        BY <3>1, <3>2
      <4> QED  BY <3>3, <4>1, WithStateIs
    <3>5. Leaves(before, f, settled')
      BY <1>4, <3>4 DEF Leaves, SameFiber
    <3>6. (class.gDSFP => f.state.derived = before.pendingProps.value) /\ (~class.gDSFP => f = pf)
      BY <3>p, <3>1, <3>4
    <3> QED  BY <2>2, <3>2, <3>5, <3>6
  <2> QED  BY <2>1, <2>2
<1>6. /\ tags \subseteq {"Update", "Snapshot"}
      /\ InMount => tags = {"Update"}
      /\ ~InMount /\ toUpdate => "Update" \in tags /\ (class.snapshot => "Snapshot" \in tags)
      /\ ~InMount /\ ~toUpdate => tags = {}
  BY <1>g DEF Effects, notCommitted, InMount
<1>7. /\ h \in ClassFiber /\ h # None /\ HasState(h) /\ h.mounted
      /\ h.props = before.pendingProps /\ h.pendingProps = before.pendingProps
      /\ h.state = f.state /\ h.base = f.base /\ h.queue = f.queue
      /\ h.effectTag = f.effectTag \cup tags
      /\ StateToCome(h) = StateToCome(f)
      /\ Shown(h) = ShownIs(f.state, before.pendingProps) /\ Shown(h) \in Shows
  <2>1. Processed(f) /\ f.pendingProps = before.pendingProps /\ tags \subseteq FiberTags
    BY <1>5, <1>6 DEF Leaves, FiberTags
  <2> QED  BY <1>h, <2>1, LeftAs
<1>8. /\ instance'.props = before.pendingProps /\ instance'.state = f.state
      /\ instance' \in [props : Props \cup {None}, state : ClassState \cup {None},
                        snapshot : Shows \cup {None}]
  <2>i. PICK i : i = instance'
    OBVIOUS
  <2>1. Processed(f) /\ f.pendingProps = before.pendingProps
    BY <1>5 DEF Leaves
  <2>2. i = [instance EXCEPT !.props = f.pendingProps, !.state = f.state]
    BY <1>1, <2>i
  <2>3. /\ i.props = f.pendingProps /\ i.state = f.state
        /\ i \in [props : Props \cup {None}, state : ClassState \cup {None},
                  snapshot : Shows \cup {None}]
    BY <2>1, <2>2, InstanceLeft
  <2> QED  BY <2>i, <2>1, <2>3
\* The component shows something else only if it is rendered or forced to be.
<1>9. Shown(before) = ShownIs(before.state, before.props)
  BY <1>3, ShownTypes DEF HasState
<1>10. sameAsBefore \/ ~shouldUpdate => Shown(h) = Shown(before)
  <2>1. CASE sameAsBefore
    BY <1>5, <1>7, <1>9, <2>1
  <2>2. CASE ~sameAsBefore /\ ~shouldUpdate
    <3>1. before.props.value = before.pendingProps.value /\ Shallow(before.state) = Shallow(f.state)
      BY <1>w, <1>5, <2>2 DEF shouldUpdate
    <3>2. /\ before.state.value = f.state.value /\ before.state.derived = f.state.derived
          /\ (before.state.errors > 0) = (f.state.errors > 0)
      BY <3>1 DEF Shallow
    <3> QED  BY <1>7, <1>9, <3>1, <3>2 DEF ShownIs
  <2> QED  BY <2>1, <2>2
<1>11. /\ committedFiber' \in ClassFiber \cup {None} /\ (InMount' <=> InMount)
       /\ ~InMount => SameLook(committedFiber', committedFiber)
       /\ ~InMount => InOrder(committedFiber', class, settled')
       /\ ~Receives => committedFiber' = committedFiber
       /\ Receives /\ ~InMount => DerivesUntil(committedFiber', parent.time)
  <2>1. CASE InMount \/ ~Receives
    <3>1. committedFiber' = committedFiber
      BY <1>1, <2>1 DEF receive, InMount, notCommitted
    <3>2. ~InMount => settled' = settled
      BY <1>1, <2>1 DEF receive
    <3> QED
      BY <2>1, <3>1, <3>2 DEF InstanceTypes, InMount, SameLook, SameFiber, InSequence, InOrder,
                              StateToCome
  <2>2. CASE ~InMount /\ Receives
    <3>c. PICK c, u : /\ c = committedFiber
                      /\ u = DeriveUpdate(NextId(settled), before.pendingProps.value)
      OBVIOUS
    <3>1. c \in ClassFiber /\ c # None /\ HasState(c) /\ InOrder(c, class, settled)
      BY <2>2, <3>c DEF InMount, InstanceTypes, Rendered, InSequence
    <3>2. NextId(settled) \in Nat /\ before.pendingProps.value \in Value
      BY <1>3, NextIdIs DEF Props
    <3>3. /\ u \in ClassUpdate /\ u.kind = "derive" /\ u.id = NextId(settled)
          /\ u.time = attemptTime
      BY <1>3, <3>c, <3>2 DEF DeriveUpdate, ClassUpdate
    <3>4. committedFiber' = enqueued(c, u) /\ settled' = Append(settled, u.id)
      BY <1>w, <1>1, <2>2, <3>c, <3>3
         DEF receive, derivedBy, DeriveUpdate, InMount, notCommitted
    <3>5. /\ enqueued(c, u) \in ClassFiber /\ enqueued(c, u) # None
          /\ SameLook(enqueued(c, u), c) /\ enqueued(c, u).queue # <<>>
      BY <3>1, <3>3, EnqueuedIs DEF SameLook, ClassInstanceAssumption
    <3>6. StateToCome(enqueued(c, u)).changes =
            IF u.kind \in {"setState", "derive"} THEN Append(StateToCome(c).changes, u.id)
            ELSE StateToCome(c).changes
      BY <3>1, <3>3, EnqueuedComes DEF HasState
    <3>7. InOrder(enqueued(c, u), class, Append(settled, u.id))
      <4>1. StateToCome(enqueued(c, u)).changes = Append(settled, u.id)
        BY <3>1, <3>3, <3>6 DEF InOrder
      <4> QED  BY <3>1, <3>5, <4>1 DEF InOrder, SameLook, SameFiber
    <3>8. u.time <= parent.time
      <4>1. class.unsafe /\ ~hasNewLifecycles /\ wip.props # wip.pendingProps
        BY <2>2 DEF Receives
      <4> QED  BY <1>1, <2>2, <3>3, <4>1 DEF Derived, OldLifecycles
    <3>t. PICK l : l = parent.time
      OBVIOUS
    <3>9. DerivesUntil(enqueued(c, u), l)
      BY <3>1, <3>3, <3>8, <3>t, EnqueuedDerives
    <3> QED  BY <2>2, <3>c, <3>t, <3>4, <3>5, <3>7, <3>9 DEF InMount
  <2> QED  BY <2>1, <2>2
<1>12. ~InMount => Shown(committedFiber') = Shown(committedFiber)
  BY <1>11 DEF SameLook, SameFiber, Shown
<1>13. InstanceTypes'
  <2>1. settled' \in Seq(Nat)
    BY <1>1, <1>3, NextIdIs DEF receive
  <2>2. rendered' \in BOOLEAN
    BY <1>1 DEF InstanceTypes
  <2>3. renderedOutput' \in Shows \cup {None}
    BY <1>1, <1>7 DEF InstanceTypes
  <2> QED  BY <1>1, <1>7, <1>8, <1>11, <2>1, <2>2, <2>3 DEF InstanceTypes, wip, InAttempt
<1>14. Rendered'
  BY <1>1, <1>2, <1>7, <1>11 DEF Rendered, HasState, SameLook, SameFiber, InMount
<1>15. Appears'
  BY <1>w, <1>1, <1>2, <1>3, <1>7, <1>11 DEF Appears, InMount
<1>16. FirstAttempt' /\ SecondAttempt' /\ Told' /\ LifecyclesSeeCommit'
  BY <1>1 DEF FirstAttempt, SecondAttempt, Told, LifecyclesSeeCommit
<1>17. InSequence'
  <2>1. InOrder(h, class, settled')
    BY <1>5, <1>7 DEF InOrder, Leaves, Processed
  <2> QED  BY <1>1, <1>11, <2>1 DEF InSequence, InMount
<1>18. Derived'
  <2> SUFFICES ASSUME OldLifecycles
               PROVE  /\ committedFiber' # None =>
                           \/ StateToCome(committedFiber').derived = committedFiber'.props.value
                           \/ DerivesUntil(committedFiber', parent.time)
                      /\ \/ StateToCome(h).derived = h.props.value
                         \/ \E l \in 0 .. attemptTime - 1 :
                              l <= renderedParent.time /\ DerivesUntil(h, l)
    BY <1>1 DEF Derived, OldLifecycles, hasNewLifecycles
  <2>1. ~class.gDSFP /\ f = pf
    BY <1>5 DEF OldLifecycles, hasNewLifecycles
  <2>2. CASE Receives
    BY <1>4, <1>7, <1>11, <2>1, <2>2 DEF InMount
  <2>3. CASE ~Receives
    <3>1. before.props = before.pendingProps
      BY <1>w, <2>3 DEF Receives, OldLifecycles
    <3>2. \/ StateToCome(before).derived = before.props.value
          \/ \E l \in 0 .. attemptTime - 1 : l <= renderedParent.time /\ DerivesUntil(before, l)
      BY <1>w, <1>2, <1>3, <3>1 DEF Derived
    <3>3. \A l : DerivesUntil(h, l) <=> DerivesUntil(pf, l)
      BY <1>7, <2>1 DEF DerivesUntil
    <3>4. \/ StateToCome(h).derived = h.props.value
          \/ \E l \in 0 .. attemptTime - 1 : l <= renderedParent.time /\ DerivesUntil(h, l)
      BY <1>4, <1>7, <2>1, <2>3, <3>1, <3>2, <3>3
    <3>5. committedFiber # None =>
            \/ StateToCome(committedFiber).derived = committedFiber.props.value
            \/ DerivesUntil(committedFiber, parent.time)
      BY DEF Derived
    <3>6. committedFiber' = committedFiber
      BY <1>11, <2>3
    <3> QED  BY <3>4, <3>5, <3>6 DEF StateToCome, DerivesUntil
  <2> QED  BY <2>2, <2>3
\* The first attempt, with the committed props and state, and one that has caught an error.
<1>19. ASSUME "ShouldCapture" \notin before.effectTag
       PROVE  /\ ~InMount /\ ~rendered /\ f.effectTag = {} /\ ~didCapture /\ ~changedSinceCommit
              /\ Shown(before) = Shown(committedFiber)
  <2>1. before.effectTag = {} /\ ~rendered /\ ~InMount
        /\ before.props = committedFiber.props /\ before.state = committedFiber.state
    BY <1>w, <1>1, <1>3, <1>19 DEF FirstAttempt
  <2>2. f.effectTag = {} /\ pf.effectTag = {}
    BY <1>4, <1>5, <2>1 DEF Leaves
  <2>3. ~didCapture /\ ~changedSinceCommit
    BY <1>w, <2>1, <2>2 DEF didCapture, changedSinceCommit
  <2> QED  BY <2>1, <2>2, <2>3 DEF Shown
<1>20. ASSUME "ShouldCapture" \in before.effectTag
       PROVE  /\ didCapture /\ "DidCapture" \in f.effectTag
              /\ f.effectTag = (before.effectTag \ {"ShouldCapture"}) \cup {"DidCapture"}
              /\ ~InMount /\ ~changedSinceCommit => Shown(before) = Shown(committedFiber)
  <2>1. didCapture /\ f.effectTag = (before.effectTag \ {"ShouldCapture"}) \cup {"DidCapture"}
    BY <1>w, <1>4, <1>5, <1>20 DEF Leaves, didCapture
  <2>2. ~InMount /\ ~changedSinceCommit => Shown(before) = Shown(committedFiber)
    BY <1>w DEF changedSinceCommit, notCommitted, InMount, Shown
  <2> QED  BY <2>1, <2>2
<1>21. /\ didCapture => renders
       /\ shouldUpdate /\ ~sameAsBefore => renders /\ toUpdate
       /\ ~toUpdate => ~changedSinceCommit
       /\ toUpdate => changedSinceCommit \/ (shouldUpdate /\ ~sameAsBefore)
       /\ renders => didCapture \/ (shouldUpdate /\ ~sameAsBefore)
  OBVIOUS
<1> HIDE DEF toUpdate, renders
<1>22. Effective'
  <2> SUFFICES /\ "Update" \in h.effectTag => rendered'
               /\ InMount => "Update" \in h.effectTag
               /\ ~InMount /\ class.snapshot /\ "Update" \in h.effectTag => "Snapshot" \in h.effectTag
               /\ ~InMount /\ Shown(h) # Shown(committedFiber) => "Update" \in h.effectTag
               /\ rendered' /\ "DidCapture" \notin h.effectTag => "Update" \in h.effectTag
               /\ h.effectTag # {} => instance'.props = h.props /\ instance'.state = h.state
    BY <1>1, <1>2, <1>11, <1>12 DEF Effective
  <2>1. h.effectTag # {} => instance'.props = h.props /\ instance'.state = h.state
    BY <1>7, <1>8
  <2>2. CASE "ShouldCapture" \notin before.effectTag
    <3>1. h.effectTag = tags
      BY <1>7, <1>19, <2>2
    <3>2. toUpdate <=> shouldUpdate /\ ~sameAsBefore
      BY <1>19, <1>21, <2>2
    <3>3. renders <=> shouldUpdate /\ ~sameAsBefore
      BY <1>19, <1>21, <2>2
    <3>4. rendered' <=> renders
      BY <1>1, <1>19, <2>2
    <3>5. ~toUpdate => Shown(h) = Shown(committedFiber)
      BY <1>10, <1>19, <2>2, <3>2
    <3> QED  BY <1>6, <1>19, <2>1, <2>2, <3>1, <3>2, <3>3, <3>4, <3>5
  <2>3. CASE "ShouldCapture" \in before.effectTag
    <3>1. h.effectTag = ((before.effectTag \ {"ShouldCapture"}) \cup {"DidCapture"}) \cup tags
      BY <1>7, <1>20, <2>3
    <3>2. rendered'
      BY <1>1, <1>20, <1>21, <2>3
    <3>3. ~InMount /\ class.snapshot /\ "Update" \in before.effectTag => "Snapshot" \in before.effectTag
      BY <1>w, <1>2, <1>3 DEF Effective
    <3>4. ~InMount /\ ~toUpdate => Shown(h) = Shown(committedFiber)
      BY <1>10, <1>20, <1>21, <2>3
    <3> QED  BY <1>6, <2>1, <3>1, <3>2, <3>3, <3>4
  <2> QED  BY <2>2, <2>3
<1>23. OnTheScreen'
  <2>1. ~InMount => output' = Shown(committedFiber')
    BY <1>1, <1>12 DEF OnTheScreen, InMount
  <2>2. renderedOutput' = Shown(h)
    <3>1. CASE renders
      BY <1>1, <3>1
    <3>2. CASE ~renders
      <4>1. Shown(h) = Shown(before)
        BY <1>10, <1>21, <3>2
      <4>2. renderedOutput = Shown(before)
        BY <1>w, <1>2, <1>3 DEF OnTheScreen
      <4> QED  BY <1>1, <3>2, <4>1, <4>2
    <3> QED  BY <3>1, <3>2
  <2> QED  BY <1>1, <1>11, <2>1, <2>2 DEF OnTheScreen, InMount, Shown
<1> QED
  BY <1>13, <1>14, <1>15, <1>16, <1>17, <1>18, <1>22, <1>23
-----------------------------------------------------------------------------
(***************************************************************************)
(* The instance and its lifecycles, as theorems of the specification.      *)
(***************************************************************************)
LEMMA LifecyclesBegin ==
  ASSUME ClassInstanceAssumption, LifecycleInit
  PROVE  InstanceInv
<1> USE DEF LifecycleInit
<1> PICK v : v = CHOOSE x \in Value : TRUE
  OBVIOUS
<1>1. v \in Value
  BY DEF ClassInstanceAssumption
<1>2. MaxLifecycleTime \in Time
  BY DEF Time, ClassInstanceAssumption
<1>3. parent \in ParentFiber /\ parent.state = Absent
  <2> PICK u : u = [kind |-> "parent", value |-> v, id |-> 0, time |-> MaxLifecycleTime]
    OBVIOUS
  <2>1. u \in ParentUpdate
    BY <1>1, <1>2 DEF ParentUpdate
  <2>2. parent = [state |-> Absent, base |-> Absent, time |-> MaxLifecycleTime, queue |-> <<u>>]
    OBVIOUS
  <2>3. <<u>> \in Seq(ParentUpdate)
    BY <2>1
  <2> QED  BY <1>2, <2>2, <2>3 DEF ParentFiber
<1>4. ~InAttempt /\ InMount /\ wip = None
  BY DEF InAttempt, InMount, wip
<1>5. InstanceTypes
  <2>1. instance \in [props : Props \cup {None}, state : ClassState \cup {None},
                      snapshot : Shows \cup {None}]
    BY DEF Nothing
  <2>2. renderedParent \in ParentFiber
    <3>1. renderedParent = parent
      OBVIOUS
    <3> HIDE DEF LifecycleInit
    <3> QED  BY <1>3, <3>1
  <2>3. settled \in Seq(Nat) /\ issued \in Nat /\ rendered \in BOOLEAN /\ attemptTime \in Nat
    <3>1. settled = <<>> /\ issued = 0 /\ rendered = FALSE /\ attemptTime = 0
      BY DEF NoLifecycleWork
    <3>2. <<>> \in Seq(Nat) /\ 0 \in Nat /\ FALSE \in BOOLEAN
      OBVIOUS
    <3> HIDE DEF LifecycleInit
    <3> QED  BY <3>1, <3>2
  <2> QED  BY <1>3, <1>4, <2>1, <2>2, <2>3 DEF InstanceTypes, wip
<1>6. Rendered /\ Appears /\ FirstAttempt /\ SecondAttempt /\ Effective /\ Told
  BY <1>3, <1>4 DEF Rendered, Appears, FirstAttempt, SecondAttempt, Effective, Told
<1>7. OnTheScreen /\ InSequence /\ Derived /\ LifecyclesSeeCommit
  BY <1>4 DEF OnTheScreen, InSequence, Derived, LifecyclesSeeCommit
<1> QED  BY <1>5, <1>6, <1>7 DEF InstanceInv

LEMMA LifecyclesStutter ==
  ASSUME InstanceInv, UNCHANGED lifecycleVars
  PROVE  InstanceInv'
<1> USE DEF InstanceInv
<1>1. UNCHANGED <<class, parent, renderedParent, committedFiber, workInProgress, instance, output,
                  renderedOutput, attemptTime, lifecyclePhase, rendered, call, issued, attempts,
                  settled>>
  BY DEF lifecycleVars
<1>2. InstanceTypes' /\ Rendered' /\ Appears' /\ FirstAttempt' /\ SecondAttempt'
  BY <1>1 DEF InstanceTypes, Rendered, Appears, FirstAttempt, SecondAttempt, InAttempt, InMount,
              Left, HasState, wip
<1>3. Effective' /\ Told' /\ OnTheScreen'
  BY <1>1 DEF Effective, Told, OnTheScreen, InAttempt, InMount, Left, Shown, wip
<1>4. InSequence' /\ Derived'
  BY <1>1 DEF InSequence, Derived, InOrder, StateToCome, DerivesUntil, OldLifecycles,
              hasNewLifecycles, InAttempt, InMount, wip
<1>5. LifecyclesSeeCommit'
  BY <1>1 DEF LifecyclesSeeCommit, Shown
<1> QED  BY <1>2, <1>3, <1>4, <1>5

\* Every state of the component: its fibers have the props and the states that
\* their phase requires, a first attempt begins with what is committed, an effect
\* is kept for what has changed on the screen, and what is in a queue leads to the
\* changes of the state in their order.
THEOREM InstanceInvariant == LifecycleSpec => []InstanceInv
<1>1. LifecycleInit => InstanceInv
  BY ClassInstanceAssumption, LifecyclesBegin
<1>2. InstanceInv /\ [LifecycleNext]_lifecycleVars => InstanceInv'
  <2> SUFFICES ASSUME InstanceInv, [LifecycleNext]_lifecycleVars PROVE InstanceInv'
    OBVIOUS
  <2> USE ClassInstanceAssumption
  <2>1. CASE UNCHANGED lifecycleVars
    BY <2>1, LifecyclesStutter
  <2>2. ASSUME NEW t \in Time, startAttempt(t) PROVE InstanceInv'
    BY <2>2, StartKeepsInstance
  <2>3. ASSUME NEW t \in Time, NEW kind \in {"setState", "null", "force"}, enqueueUpdate(kind, t)
        PROVE  InstanceInv'
    BY <2>3, EnqueueKeepsInstance
  <2>4. ASSUME NEW t \in Time, NEW v \in Value \cup {Absent}, updateParent(v, t)
        PROVE  InstanceInv'
    BY <2>4, UpdateParentKeepsInstance
  <2>5. CASE mountClassInstance
    BY <2>5, MountKeepsInstance
  <2>6. CASE beginClassWithoutWork
    BY <2>6, BeginWithoutWorkKeepsInstance
  <2>7. CASE updateClassInstance
    BY <2>7, UpdateKeepsInstance
  <2>8. CASE throwException
    BY <2>8, ThrowKeepsInstance
  <2>9. CASE commitBeforeMutationLifeCycles
    BY <2>9, BeforeMutationKeepsInstance
  <2>10. CASE commitMutation
    BY <2>10, MutationKeepsInstance
  <2>11. CASE commitLifeCycles
    BY <2>11, LifeCyclesKeepInstance
  <2> QED
    BY <2>1, <2>2, <2>3, <2>4, <2>5, <2>6, <2>7, <2>8, <2>9, <2>10, <2>11 DEF LifecycleNext
<1> QED  BY <1>1, <1>2, PTL DEF LifecycleSpec

LEMMA InstanceShows ==
  ASSUME InstanceInv
  PROVE  LifecyclesAgree
<1> USE DEF InstanceInv
<1>1. ASSUME lifecyclePhase \in {"idle", "begin", "below"}, committedFiber # None
      PROVE  /\ output = Shown(committedFiber)
             /\ class.gDSFP => output.derived = output.props
             /\ committedFiber.queue = <<>> =>
                  /\ committedFiber.state.changes = settled
                  /\ class.unsafe /\ ~hasNewLifecycles => output.derived = output.props
  <2>1. /\ output = Shown(committedFiber) /\ HasState(committedFiber)
        /\ InOrder(committedFiber, class, settled)
    BY <1>1 DEF OnTheScreen, Rendered, InSequence
  <2>2. /\ output.derived = committedFiber.state.derived
        /\ output.props = committedFiber.props.value
    BY <2>1 DEF Shown
  <2>3. class.gDSFP => output.derived = output.props
    BY <2>1, <2>2 DEF InOrder
  <2>4. ASSUME committedFiber.queue = <<>>
        PROVE  /\ committedFiber.state.changes = settled
               /\ class.unsafe /\ ~hasNewLifecycles => output.derived = output.props
    <3>g. PICK g : g = committedFiber
      OBVIOUS
    <3>1. StateToCome(g) = g.base /\ g.state = g.base
      BY <2>1, <2>4, <3>g, NothingToCome DEF InOrder
    <3>2. g.state.changes = settled
      BY <2>1, <3>g, <3>1 DEF InOrder
    <3>3. \A t : ~DerivesUntil(g, t)
      BY <2>4, <3>g DEF DerivesUntil
    <3>4. OldLifecycles => g.state.derived = g.props.value
      BY <1>1, <3>g, <3>1, <3>3 DEF Derived
    <3> QED  BY <2>2, <3>g, <3>2, <3>4 DEF OldLifecycles
  <2> QED  BY <2>1, <2>3, <2>4
<1>2. ASSUME lifecyclePhase = "layout", committedFiber # None
      PROVE  /\ "Update" \in committedFiber.effectTag => rendered
             /\ workInProgress = None \/ output # Shown(workInProgress)
                  \/ (rendered /\ "DidCapture" \notin committedFiber.effectTag) =>
                  "Update" \in committedFiber.effectTag
  BY <1>2 DEF Told
<1>3. ShowsWhatIsCommitted
  BY <1>1, <1>2 DEF ShowsWhatIsCommitted
<1> QED  BY <1>3 DEF LifecyclesAgree

\* A lifecycle that a commit calls finds in `this` the props and the state that are
\* committed, although renders that were given up have assigned others; and the
\* component shows them, derived and in order, and is told of what changes.
THEOREM LifecyclesAlwaysAgree == LifecycleSpec => []LifecyclesAgree
<1>1. InstanceInv => LifecyclesAgree
  BY InstanceShows
<1> QED  BY <1>1, InstanceInvariant, PTL
=============================================================================
