--------------------------- MODULE ExpirationTime ---------------------------
(***************************************************************************)
(* The expiration times of updates (ReactFiberExpirationTime.js), and how  *)
(* updates get theirs (ReactFiberWorkLoop.js): milliseconds are counted    *)
(* down in units from a large number, and rounded to buckets, so that      *)
(* updates that come close to each other are rendered together.            *)
(***************************************************************************)
EXTENDS Integers, Sequences, SequencesExt

CONSTANTS
  MAX_SIGNED_31_BIT_INT,
  UNIT_SIZE,                                            \* the rest in ms
  LOW_PRIORITY_EXPIRATION, LOW_PRIORITY_BATCH_SIZE,
  HIGH_PRIORITY_EXPIRATION, HIGH_PRIORITY_BATCH_SIZE,
  Timeouts,                                             \* of suspense configurations
  MaxClock, MaxScheduled                                   \* bounds

NoWork == 0
Never == 1
Sync == MAX_SIGNED_31_BIT_INT
Batched == Sync - 1
MAGIC_NUMBER_OFFSET == Batched - 1

\* ReactPriorityLevel: more urgent ones are higher.
ImmediatePriority == 99
UserBlockingPriority == 98
NormalPriority == 97
IdlePriority == 95
Priority == {ImmediatePriority, UserBlockingPriority, NormalPriority, IdlePriority}

NoConfig == -1

\* The bucket sizes are whole units, and the clock does not count down to Never.
ExpirationTimeAssumption ==
  /\ UNIT_SIZE \in Nat \ {0} /\ MaxClock \in Nat /\ MaxScheduled \in Nat /\ Timeouts \subseteq Nat
  /\ LOW_PRIORITY_EXPIRATION \in Nat /\ HIGH_PRIORITY_EXPIRATION \in Nat
  /\ LOW_PRIORITY_BATCH_SIZE \in Nat /\ HIGH_PRIORITY_BATCH_SIZE \in Nat
  /\ \E k \in 1 .. LOW_PRIORITY_BATCH_SIZE : LOW_PRIORITY_BATCH_SIZE = k * UNIT_SIZE
  /\ \E k \in 1 .. HIGH_PRIORITY_BATCH_SIZE : HIGH_PRIORITY_BATCH_SIZE = k * UNIT_SIZE
  /\ HIGH_PRIORITY_EXPIRATION + HIGH_PRIORITY_BATCH_SIZE <= LOW_PRIORITY_EXPIRATION
  /\ MAX_SIGNED_31_BIT_INT \in Nat
  /\ \A timeout \in Timeouts \cup {LOW_PRIORITY_EXPIRATION} :
       MaxClock + timeout + LOW_PRIORITY_BATCH_SIZE < MAX_SIGNED_31_BIT_INT - 4

VARIABLES
  clock,                  \* now(), in ms
  currentEventTime,
  renderingTime,   \* of the render in progress, or NoWork
  event,                  \* history: how often React has been entered
  updates                 \* history: what was asked for, when, and the time it got

eventVars == <<clock, currentEventTime, renderingTime, event, updates>>
-----------------------------------------------------------------------------
msToExpirationTime(ms) == MAGIC_NUMBER_OFFSET - ms \div UNIT_SIZE

expirationTimeToMs(time) == (MAGIC_NUMBER_OFFSET - time) * UNIT_SIZE

\* The next multiple of `size`, also of one; all in ms.
ceiling(ms, size) == (ms \div size + 1) * size

computeExpirationBucket(currentTime, expirationInMs, bucketSizeMs) ==
  MAGIC_NUMBER_OFFSET
    - ceiling(expirationTimeToMs(currentTime) + expirationInMs, bucketSizeMs) \div UNIT_SIZE

computeAsyncExpiration(currentTime) ==
  computeExpirationBucket(currentTime, LOW_PRIORITY_EXPIRATION, LOW_PRIORITY_BATCH_SIZE)

ConfiguredTimeout(config) == IF config = 0 THEN LOW_PRIORITY_EXPIRATION ELSE config

computeSuspenseExpiration(currentTime, config) ==
  computeExpirationBucket(currentTime, ConfiguredTimeout(config), LOW_PRIORITY_BATCH_SIZE)

computeInteractiveExpiration(currentTime) ==
  computeExpirationBucket(currentTime, HIGH_PRIORITY_EXPIRATION, HIGH_PRIORITY_BATCH_SIZE)

inferPriorityFromExpirationTime(currentTime, time) ==
  LET msUntil == expirationTimeToMs(time) - expirationTimeToMs(currentTime)
  IN  CASE time = Sync -> ImmediatePriority
        [] time = Never -> IdlePriority
        [] OTHER ->
             IF msUntil <= 0 THEN ImmediatePriority
             ELSE IF msUntil <= HIGH_PRIORITY_EXPIRATION + HIGH_PRIORITY_BATCH_SIZE
                  THEN UserBlockingPriority
             ELSE IF msUntil <= LOW_PRIORITY_EXPIRATION + LOW_PRIORITY_BATCH_SIZE
                  THEN NormalPriority
             ELSE IdlePriority

\* When the update was asked for, roughly.
inferTimeFromExpirationTime(time, config) ==
  expirationTimeToMs(time)
    - (IF config # NoConfig THEN ConfiguredTimeout(config) ELSE LOW_PRIORITY_EXPIRATION)
-----------------------------------------------------------------------------
\* Mutant: every update reads the clock.
ReadsClock == msToExpirationTime(clock)

\* requestCurrentTime, outside React.
requestCurrentTime ==
  IF currentEventTime # NoWork THEN currentEventTime ELSE msToExpirationTime(clock)

TimeFor(currentTime, priority, config) ==
  IF config # NoConfig THEN computeSuspenseExpiration(currentTime, config)
  ELSE CASE priority = ImmediatePriority -> Sync
         [] priority = UserBlockingPriority -> computeInteractiveExpiration(currentTime)
         [] priority = NormalPriority -> computeAsyncExpiration(currentTime)
         [] priority = IdlePriority -> Never

\* computeExpirationForFiber in concurrent mode: not the time of the render in
\* progress.  An idle update during an idle render gets NoWork.
computeExpirationForFiber(currentTime, priority, config) ==
  LET time == TimeFor(currentTime, priority, config)
  IN  IF renderingTime # NoWork /\ time = renderingTime THEN time - 1 ELSE time

Requested(currentTime, priority, config, e) ==
  /\ Len(updates) < MaxScheduled
  /\ updates' = Append(updates,
       [priority |-> priority, config |-> config, start |-> currentTime, event |-> e,
        time |-> computeExpirationForFiber(currentTime, priority, config),
        moved |-> computeExpirationForFiber(currentTime, priority, config)
                  # TimeFor(currentTime, priority, config)])

\* An update from an event: all of an event start at the same time.
scheduleUpdate(priority, config) ==
  /\ currentEventTime' = requestCurrentTime
  /\ Requested(requestCurrentTime, priority, config, event)
  /\ UNCHANGED <<clock, renderingTime, event>>

\* An update inside React, from an effect: the clock is read.
scheduleUpdateInside(priority, config) ==
  /\ Requested(msToExpirationTime(clock), priority, config, NoWork)
  /\ UNCHANGED <<clock, currentEventTime, renderingTime, event>>

\* renderRoot as a Scheduler callback, which yields or finishes.
renderRoot(time, finishes) ==
  /\ currentEventTime' = NoWork /\ event' = event + 1
  /\ renderingTime' = IF finishes THEN NoWork ELSE time
  /\ UNCHANGED <<clock, updates>>

\* A synchronous one does not yield, and leaves the event time as it is.
renderRootSync ==
  /\ renderingTime # NoWork /\ renderingTime' = NoWork
  /\ UNCHANGED <<clock, currentEventTime, event, updates>>

advanceClock ==
  /\ clock < MaxClock /\ clock' \in clock + 1 .. MaxClock
  /\ UNCHANGED <<currentEventTime, renderingTime, event, updates>>

\* What an update is asked for with; a configuration decides whatever the priority.
Requests ==
  {<<priority, NoConfig>> : priority \in Priority} \cup {<<NormalPriority, t>> : t \in Timeouts}

EventInit ==
  /\ clock = 0 /\ currentEventTime = NoWork /\ renderingTime = NoWork
  /\ event = 1 /\ updates = <<>>

EventNext ==
  \/ advanceClock \/ renderRootSync
  \/ \E r \in Requests : scheduleUpdate(r[1], r[2]) \/ scheduleUpdateInside(r[1], r[2])
  \/ \E i \in DOMAIN updates, finishes \in BOOLEAN :
       /\ event <= MaxScheduled /\ updates[i].time \notin {Sync, NoWork}
       /\ renderRoot(updates[i].time, finishes)

EventSpec == EventInit /\ [][EventNext]_eventVars
-----------------------------------------------------------------------------
Alike(u, v) == u.priority = v.priority /\ u.config = v.config

\* Updates of an event and a priority are rendered together, and an update never
\* becomes more urgent than one that started before it; a render in progress may
\* move an update behind it.
UpdatesAreBatched ==
  \A i, j \in DOMAIN updates :
    LET u == updates[i]
        v == updates[j]
    IN  Alike(u, v) /\ ~u.moved =>
          /\ u.start >= v.start => v.time <= u.time
          /\ u.event = v.event /\ u.event # NoWork /\ ~v.moved => u.time = v.time

\* The priority that is inferred from a time is the one that was asked for, when it
\* was asked for, and not a lower one later (as long as no render moves the update);
\* the start that is inferred is at most a bucket late.
InferredIsMeant ==
  \A i \in DOMAIN updates :
    LET u == updates[i]
        age == expirationTimeToMs(u.time) - expirationTimeToMs(u.start)
    IN  ~u.moved =>
          /\ u.config = NoConfig =>
               /\ inferPriorityFromExpirationTime(u.start, u.time) = u.priority
               /\ inferPriorityFromExpirationTime(msToExpirationTime(clock), u.time) >= u.priority
          /\ u.config # NoConfig \/ u.priority = NormalPriority =>
               inferTimeFromExpirationTime(u.time, u.config)
                 \in expirationTimeToMs(u.start) .. expirationTimeToMs(u.start) + LOW_PRIORITY_BATCH_SIZE

\* Updates of one event are batched, and their times tell their priority.
TimesAreRight == UpdatesAreBatched /\ InferredIsMeant
=============================================================================
