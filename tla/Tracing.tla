------------------------------ MODULE Tracing ------------------------------
(***************************************************************************)
(* The tracing of interactions (scheduler/src/Tracing.js) through the work *)
(* of a root (ReactFiberWorkLoop.js): each interaction counts the work     *)
(* that is left to do for it, in the callback it began with, in wrapped    *)
(* callbacks, and in updates of the root, and its subscriber is notified   *)
(* when none is left.                                                      *)
(*                                                                         *)
(* Of the root only what tracing depends on is here: which updates are     *)
(* pending, which a render includes, and when it commits.  A wrapped       *)
(* callback runs once or is cancelled before it runs.                      *)
(***************************************************************************)
EXTENDS Integers, Sequences, FiniteSets, SequencesExt, FiniteSetsExt

CONSTANTS
  MaxRootTime,  \* the most urgent of the times at which the root has work
  MaxInteraction, MaxWrap, MaxRootUpdate, MaxFrames   \* bounds

ASSUME TracingAssumption == MaxRootTime \in Nat

Time == 1 .. MaxRootTime
NoWork == 0

VARIABLES
  interactionsRef,        \* the interactions traced now
  frames,                 \* the calls that have replaced it, the innermost last
  count,                  \* __count of each interaction
  completions,            \* how often each was reported as completed
  wraps,                  \* the wrapped callbacks: their interactions and state
  pendingInteractionMap,  \* of the root: for each time, interactions with work
  memoizedInteractions,   \* of the root: those of the render in progress
  rootUpdates,            \* pending ones; late: begun after the render in progress
  scheduled,              \* how many there have been
  workInProgressTime,     \* the time of the render in progress
  renderFinished,         \* it waits for its commit
  passivePending

rootVars == <<rootUpdates, scheduled, workInProgressTime, renderFinished, passivePending>>
tracingVars == <<interactionsRef, frames, count, completions, wraps, pendingInteractionMap,
                 memoizedInteractions, rootVars>>

Interactions == DOMAIN count
firstPendingTime == Max({u.time : u \in rootUpdates} \cup {NoWork})

Working == \E k \in DOMAIN frames : frames[k].kind \in {"render", "commit", "passive"}
innermost == frames[Len(frames)]
Innermost(kind) == frames # <<>> /\ innermost.kind = kind

\* Code runs with other interactions; when it returns, the previous ones are back.
Enter(kind, of, interactions) ==
  /\ Len(frames) < MaxFrames
  /\ frames' = Append(frames, [kind |-> kind, of |-> of, previous |-> interactionsRef])
  /\ interactionsRef' = interactions
Leave ==
  /\ frames' = SubSeq(frames, 1, Len(frames) - 1)
  /\ interactionsRef' = innermost.previous

\* Counts that change, and the notification of those that come down to 0.
Counts(counts) ==
  /\ count' = counts
  /\ completions' = [i \in Interactions |->
       completions[i] + IF counts[i] = 0 /\ count[i] > 0 THEN 1 ELSE 0]
Plus(counts, interactions) ==
  [i \in DOMAIN counts |-> IF i \in interactions THEN counts[i] + 1 ELSE counts[i]]
Minus(counts, interactions) ==
  [i \in DOMAIN counts |-> IF i \in interactions THEN counts[i] - 1 ELSE counts[i]]
-----------------------------------------------------------------------------
TracingInit ==
  /\ interactionsRef = {} /\ frames = <<>> /\ count = <<>> /\ completions = <<>> /\ wraps = <<>>
  /\ pendingInteractionMap = [t \in Time |-> {}] /\ memoizedInteractions = {}
  /\ rootUpdates = {} /\ scheduled = 0
  /\ workInProgressTime = NoWork /\ renderFinished = FALSE /\ passivePending = FALSE

\* unstable_trace: a new interaction is added to the ones that are traced.
trace ==
  LET i == Len(count) + 1
  IN  /\ i <= MaxInteraction
      /\ Enter("trace", {i}, interactionsRef \cup {i})
      /\ count' = Append(count, 1) /\ completions' = Append(completions, 0)
      /\ UNCHANGED <<wraps, pendingInteractionMap, memoizedInteractions, rootVars>>

traceReturns ==
  /\ Innermost("trace") /\ Leave
  /\ Counts(Minus(count, innermost.of))
  /\ UNCHANGED <<wraps, pendingInteractionMap, memoizedInteractions, rootVars>>

\* unstable_clear
clear ==
  /\ interactionsRef # {} /\ Enter("clear", {}, {})
  /\ UNCHANGED <<count, completions, wraps, pendingInteractionMap, memoizedInteractions, rootVars>>
clearReturns ==
  /\ Innermost("clear") /\ Leave
  /\ UNCHANGED <<count, completions, wraps, pendingInteractionMap, memoizedInteractions, rootVars>>

\* unstable_wrap: by an application, or by React for a ping or a retry.
wrap ==
  /\ interactionsRef # {} /\ Len(wraps) < MaxWrap
  /\ wraps' = Append(wraps, [interactions |-> interactionsRef, state |-> "waiting"])
  /\ Counts(Plus(count, interactionsRef))
  /\ UNCHANGED <<interactionsRef, frames, pendingInteractionMap, memoizedInteractions, rootVars>>

runWrapped(w) ==
  /\ wraps[w].state = "waiting" /\ ~Working
  /\ wraps' = [wraps EXCEPT ![w].state = "running"]
  /\ Enter("wrapped", wraps[w].interactions, wraps[w].interactions)
  /\ UNCHANGED <<count, completions, pendingInteractionMap, memoizedInteractions, rootVars>>

wrappedReturns ==
  /\ Innermost("wrapped") /\ Leave
  /\ \E w \in DOMAIN wraps :
       /\ wraps[w].state = "running" /\ wraps[w].interactions = innermost.of
       /\ wraps' = [wraps EXCEPT ![w].state = "run"]
  /\ Counts(Minus(count, innermost.of))
  /\ UNCHANGED <<pendingInteractionMap, memoizedInteractions, rootVars>>

cancel(w) ==
  /\ wraps[w].state = "waiting"
  /\ wraps' = [wraps EXCEPT ![w].state = "cancelled"]
  /\ Counts(Minus(count, wraps[w].interactions))
  /\ UNCHANGED <<interactionsRef, frames, pendingInteractionMap, memoizedInteractions, rootVars>>
-----------------------------------------------------------------------------
(***************************************************************************)
(* The root.                                                               *)
(***************************************************************************)
\* schedulePendingInteraction: the interactions that are new at that time count.
Pended(map, t, interactions) == [map EXCEPT ![t] = @ \cup interactions]
Unscheduled(map, t, interactions) == interactions \ map[t]

\* scheduleUpdateOnFiber, in whatever runs now.
scheduleUpdate(t) ==
  /\ scheduled < MaxRootUpdate /\ scheduled' = scheduled + 1
  /\ rootUpdates' = rootUpdates \cup
       {[time |-> t, interactions |-> interactionsRef, late |-> workInProgressTime # NoWork]}
  /\ pendingInteractionMap' = Pended(pendingInteractionMap, t, interactionsRef)
  /\ Counts(Plus(count, Unscheduled(pendingInteractionMap, t, interactionsRef)))
  /\ UNCHANGED <<interactionsRef, frames, wraps, memoizedInteractions, workInProgressTime, renderFinished,
                 passivePending>>

\* startWorkOnPendingInteraction: the interactions of the time and above it.
InteractionsFrom(t) == UNION {pendingInteractionMap[s] : s \in {s \in Time : s >= t}}
OnTime(set) == {[u EXCEPT !.late = FALSE] : u \in set}

\* renderRoot: at another time than before, from a fresh stack.
renderRoot(t) ==
  /\ ~Working /\ ~passivePending /\ firstPendingTime >= t
  /\ ~(renderFinished /\ workInProgressTime = t)
  /\ LET interactions == IF workInProgressTime = t THEN memoizedInteractions ELSE InteractionsFrom(t)
     IN  Enter("render", {}, interactions) /\ memoizedInteractions' = interactions
  /\ rootUpdates' = IF workInProgressTime = t THEN rootUpdates ELSE OnTime(rootUpdates)
  /\ workInProgressTime' = t /\ renderFinished' = FALSE
  /\ UNCHANGED <<count, completions, wraps, pendingInteractionMap, scheduled, passivePending>>

\* It yields, or it is finished and has included some of the late updates.
renderReturns ==
  /\ Innermost("render") /\ Leave
  /\ \/ UNCHANGED <<rootUpdates, renderFinished>>
     \/ /\ renderFinished' = TRUE
        /\ \E included \in SUBSET {u \in rootUpdates : u.late} :
             rootUpdates' = (rootUpdates \ included) \cup OnTime(included)
  /\ UNCHANGED <<count, completions, wraps, pendingInteractionMap, memoizedInteractions, scheduled,
                 workInProgressTime, passivePending>>

\* pingSuspendedRoot, mostly in a wrapped callback: the render in progress starts
\* over with the interactions it had, or another one is scheduled, in place of a
\* finished tree of that time.  lastPendingTime and pingTime, which let fewer pings
\* through, are left out.
pingSuspendedRoot(t) ==
  /\ ~Working
  /\ \/ /\ workInProgressTime = t /\ ~renderFinished
        /\ rootUpdates' = OnTime(rootUpdates)
        /\ UNCHANGED <<count, completions, pendingInteractionMap, workInProgressTime, renderFinished>>
     \/ /\ workInProgressTime # t \/ renderFinished
        /\ t <= firstPendingTime
        /\ IF workInProgressTime = t
           THEN workInProgressTime' = NoWork /\ renderFinished' = FALSE /\ rootUpdates' = OnTime(rootUpdates)
           ELSE UNCHANGED <<workInProgressTime, renderFinished, rootUpdates>>
        /\ pendingInteractionMap' = Pended(pendingInteractionMap, t, interactionsRef)
        /\ Counts(Plus(count, Unscheduled(pendingInteractionMap, t, interactionsRef)))
  /\ UNCHANGED <<interactionsRef, frames, wraps, memoizedInteractions, scheduled, passivePending>>

\* commitRoot: the updates the render included are done.
commitRoot ==
  /\ ~Working /\ ~passivePending /\ renderFinished
  /\ Enter("commit", {}, memoizedInteractions)
  /\ rootUpdates' = OnTime({u \in rootUpdates : u.late \/ u.time < workInProgressTime})
  /\ workInProgressTime' = NoWork /\ renderFinished' = FALSE
  /\ UNCHANGED <<count, completions, wraps, pendingInteractionMap, memoizedInteractions, scheduled,
                 passivePending>>

\* Mutant: the time at which work is left is finished too.
FinishedWithFirst == {t \in Time : t >= firstPendingTime}

\* finishPendingInteractions: the times at which nothing is left to do.
FinishedTimes == {t \in Time : t > firstPendingTime}

FinishedMap ==
  [t \in Time |-> IF t \in FinishedTimes THEN {} ELSE pendingInteractionMap[t]]
FinishedCount ==
  [i \in Interactions |->
     count[i] - Cardinality({t \in FinishedTimes : i \in pendingInteractionMap[t]})]

\* With passive effects to come, the interactions go on.  The callback for what
\* is left is scheduled within the interactions of the caller.
commitReturns(passive) ==
  /\ Innermost("commit") /\ Leave
  /\ LET map == IF passive THEN pendingInteractionMap ELSE FinishedMap
         counts == IF passive THEN count ELSE FinishedCount
         now == innermost.previous
         t == firstPendingTime
     IN  IF t = NoWork THEN pendingInteractionMap' = map /\ Counts(counts)
         ELSE /\ pendingInteractionMap' = Pended(map, t, now)
              /\ Counts(Plus(counts, Unscheduled(map, t, now)))
  /\ passivePending' = passive
  /\ UNCHANGED <<wraps, memoizedInteractions, rootUpdates, scheduled, workInProgressTime, renderFinished>>

flushPassiveEffects ==
  /\ ~Working /\ passivePending /\ passivePending' = FALSE
  /\ Enter("passive", {}, memoizedInteractions)
  /\ UNCHANGED <<count, completions, wraps, pendingInteractionMap, memoizedInteractions, rootUpdates,
                 scheduled, workInProgressTime, renderFinished>>

passiveEffectsReturn ==
  /\ Innermost("passive") /\ Leave
  /\ pendingInteractionMap' = FinishedMap /\ Counts(FinishedCount)
  /\ UNCHANGED <<wraps, memoizedInteractions, rootVars>>

TracingNext ==
  \/ trace \/ traceReturns \/ clear \/ clearReturns \/ wrap \/ wrappedReturns
  \/ \E w \in DOMAIN wraps : runWrapped(w) \/ cancel(w)
  \/ \E t \in Time : scheduleUpdate(t) \/ renderRoot(t) \/ pingSuspendedRoot(t)
  \/ renderReturns \/ commitRoot
  \/ \E passive \in BOOLEAN : commitReturns(passive)
  \/ flushPassiveEffects \/ passiveEffectsReturn

TracingSpec == TracingInit /\ [][TracingNext]_tracingVars
-----------------------------------------------------------------------------
\* Work that is left for an interaction: a callback that runs or will run, an
\* update, or passive effects in which the interaction is current.
WorkIsLeft(i) ==
  \/ \E k \in DOMAIN frames : i \in frames[k].of
  \/ \E w \in DOMAIN wraps : wraps[w].state = "waiting" /\ i \in wraps[w].interactions
  \/ \E u \in rootUpdates : i \in u.interactions
  \/ passivePending /\ i \in memoizedInteractions

\* Nothing is traced when nothing runs, no interaction is reported as completed
\* while work for it is left or runs, and once nothing at all is left each has
\* been, exactly once.
InteractionsComplete ==
  /\ frames = <<>> => interactionsRef = {}
  /\ \A i \in Interactions :
       /\ count[i] >= 0 /\ completions[i] <= 1
       /\ WorkIsLeft(i) \/ i \in interactionsRef => completions[i] = 0
       /\ frames = <<>> /\ rootUpdates = {} /\ ~passivePending
          /\ (\A w \in DOMAIN wraps : wraps[w].state # "waiting") => completions[i] = 1
=============================================================================
