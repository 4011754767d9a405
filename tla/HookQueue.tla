------------------------------ MODULE HookQueue ------------------------------
(***************************************************************************)
(* A function component with one reducer hook and one effect hook, from    *)
(* mount to unmount: ReactFiberHooks.js with the parts of begin work and   *)
(* commit work that call it.                                               *)
(*                                                                         *)
(* The component has two fibers.  Each holds hooks of its own, but the     *)
(* reducer's queue is one object: a list that is circular until it has a   *)
(* base update.  In a state s with RenderPhase[s] # Nil the component      *)
(* dispatches that action to itself while it renders.                      *)
(*                                                                         *)
(* `phase`: "idle" between renders; "body" when a call of the component    *)
(* has returned; "rendered" while the rest of the tree is rendered, when   *)
(* events run, and a new render may take the place of this one.            *)
(***************************************************************************)
EXTENDS Integers, Sequences, FiniteSets, SequencesExt

CONSTANTS
  State, Initial,
  Action,
  Dispatched,      \* the actions dispatched outside of renders
  Reduce,          \* the reducer, a function of a state and an action
  RenderPhase,     \* for a state, the action dispatched while rendering, or Nil
  Deps,            \* the dependencies the component may pass to its effect
  RE_RENDER_LIMIT,
  MaxTime,         \* bound: expiration times 1 .. MaxTime
  MaxUpdate,       \* bound: actions dispatched outside of renders, for a kind of effect
  Kinds,           \* the kinds of effect: passive, layout, none
  Moves,           \* effect tags the parent may give: {}, {"Placement"}
  Nil

ASSUME HookQueueAssumption ==
  /\ Initial \in State /\ Nil \notin State /\ Nil \notin Action /\ Nil \notin Deps
  /\ Nil \notin Int /\ Kinds \subseteq {"passive", "layout", "none"}
  /\ Moves \subseteq {{}, {"Placement"}}
  /\ Reduce \in [State \X Action -> State]
  /\ RenderPhase \in [State -> Action \cup {Nil}]
  /\ Dispatched \subseteq Action /\ RE_RENDER_LIMIT \in Nat /\ MaxTime \in Nat \ {0} /\ \A k \in Kinds : MaxUpdate[k] \in Nat

VARIABLES
  update,                \* the updates dispatched, numbered in order
  last,                  \* queue.last
  lastRenderedState,     \* queue.lastRenderedState
  fiber,                 \* the two fibers with their hooks
  current,               \* the fiber on the screen, Nil before the mount
  phase,
  renderExpirationTime,
  didReceiveUpdate,
  renderPhaseUpdates,
  numberOfReRenders,
  effect,                \* the effect objects
  live,                  \* for a call of the effect, creations less destructions
  pendingPassive,        \* rootWithPendingPassiveEffects
  seen,                  \* history: the number of updates when the render began
  forgotten              \* history: see bailoutHooks

queueVars == <<update, last, lastRenderedState>>
renderVars == <<renderExpirationTime, didReceiveUpdate, renderPhaseUpdates,
                numberOfReRenders, seen>>
effectVars == <<effect, live, pendingPassive>>
hookVars == <<queueVars, fiber, current, phase, renderVars, effectVars, forgotten>>

NoTime == 0   \* NoWork
Object == 1 .. 5      \* enough for the effects two fibers can hold
Call == 1 .. 4        \* enough for the destroy functions those can hold
Other(f) == 3 - f
Raise(t, time) == IF t < time THEN time ELSE t

NoFiber == [exists |-> FALSE, expirationTime |-> NoTime, memoizedState |-> Nil, baseState |-> Nil,
            baseUpdate |-> Nil, effect |-> Nil, updateQueue |-> Nil, effectTag |-> {}]

\* A fiber of which nothing but its expiration time is read again.
Stale(f) == [NoFiber EXCEPT !.exists = f.exists, !.expirationTime = f.expirationTime]
NoEffect(kind) == [kind |-> kind, fires |-> FALSE, deps |-> Nil, destroy |-> Nil]

Init ==
  /\ update = <<>> /\ last = Nil /\ lastRenderedState = Initial
  /\ fiber = [f \in {1, 2} |-> NoFiber] /\ current = Nil
  /\ phase = "idle" /\ renderExpirationTime = NoTime /\ didReceiveUpdate = FALSE
  /\ renderPhaseUpdates = <<>> /\ numberOfReRenders = 0
  /\ \E kind \in Kinds :
       effect = [o \in Object |-> NoEffect(kind)]
  /\ live = [c \in Call |-> 0] /\ pendingPassive = FALSE
  /\ seen = 0 /\ forgotten = "no"

Kind == effect[1].kind
w == IF current = Nil THEN 1 ELSE Other(current)
mounting == current = Nil
time == renderExpirationTime
-----------------------------------------------------------------------------
(***************************************************************************)
(* dispatchAction.  An update is appended to the list; if no fiber has     *)
(* work its state is computed at once, and nothing is scheduled if the     *)
(* state stays the same.                                                   *)
(***************************************************************************)
linked(id) ==
  IF last = Nil THEN [next |-> id, updates |-> update]
  ELSE [next |-> update[last].next, updates |-> [update EXCEPT ![last].next = id]]

scheduled(t) == [f \in {1, 2} |->
  IF fiber[f].exists THEN [fiber[f] EXCEPT !.expirationTime = Raise(@, t)] ELSE fiber[f]]

dispatchAction(t, a) ==
  /\ phase \in {"idle", "rendered"} /\ current # Nil /\ Len(update) < MaxUpdate[Kind]
  /\ LET id    == Len(update) + 1
         empty == \A f \in {1, 2} : fiber[f].expirationTime = NoTime
         eager == IF empty THEN Reduce[lastRenderedState, a] ELSE Nil
     IN  /\ update' = Append(linked(id).updates,
                             [time |-> t, action |-> a, eager |-> eager, next |-> linked(id).next])
         /\ last' = id
         /\ fiber' = IF eager = lastRenderedState THEN fiber ELSE scheduled(t)
  /\ UNCHANGED <<lastRenderedState, current, phase, renderVars, effectVars, forgotten>>
-----------------------------------------------------------------------------
(***************************************************************************)
(* useReducer and useEffect, as one call of the component makes them.      *)
(***************************************************************************)
\* The updates from `first` to the end of the list, or once around it.
Chain(updates, first) ==
  LET from[i \in 0 .. Len(updates)] ==
        IF i = 0 THEN <<first>>
        ELSE LET so == from[i - 1]
                 n == updates[Last(so)].next
             IN  IF n = Nil \/ n = first THEN so ELSE Append(so, n)
  IN  IF first = Nil THEN <<>> ELSE from[Len(updates)]

\* The list is unravelled once there is a base update.
unravelled(hook) ==
  IF hook.baseUpdate # Nil /\ last # Nil THEN [update EXCEPT ![last].next = Nil] ELSE update
firstUpdate(hook) ==
  IF hook.baseUpdate # Nil THEN unravelled(hook)[hook.baseUpdate].next
  ELSE IF last # Nil THEN update[last].next ELSE Nil

\* Mutant: the base is that of the last skipped update.
RebasesLate(hook, t) ==
  LET step(acc, id) ==
        LET u == update[id] IN
        IF u.time < t
        THEN [acc EXCEPT !.skipped = TRUE, !.prev = id,
                         !.baseUpdate = acc.prev, !.baseState = acc.state,
                         !.remaining = Raise(@, u.time)]
        ELSE [acc EXCEPT !.prev = id,
                         !.state = IF u.eager # Nil THEN u.eager ELSE Reduce[@, u.action]]
  IN  FoldLeft(step,
        [state |-> hook.baseState, baseState |-> Nil, baseUpdate |-> Nil, prev |-> hook.baseUpdate,
         skipped |-> FALSE, remaining |-> NoTime],
        Chain(unravelled(hook), firstUpdate(hook)))

\* The updates of sufficient priority applied, the others counted; the first
\* one skipped fixes the base.
processed(hook, t) ==
  LET step(acc, id) ==
        LET u == update[id] IN
        IF u.time < t
        THEN [acc EXCEPT !.skipped = TRUE, !.prev = id,
                         !.baseUpdate = IF acc.skipped THEN @ ELSE acc.prev,
                         !.baseState = IF acc.skipped THEN @ ELSE acc.state,
                         !.remaining = Raise(@, u.time)]
        ELSE [acc EXCEPT !.prev = id,
                         !.state = IF u.eager # Nil THEN u.eager ELSE Reduce[@, u.action]]
  IN  FoldLeft(step,
        [state |-> hook.baseState, baseState |-> Nil, baseUpdate |-> Nil, prev |-> hook.baseUpdate,
         skipped |-> FALSE, remaining |-> NoTime],
        Chain(unravelled(hook), firstUpdate(hook)))

\* The fiber record f after its queue is processed.
updateReducer(f, t) ==
  LET p == processed(f, t)
  IN  IF firstUpdate(f) = Nil THEN [f EXCEPT !.expirationTime = NoTime]
      ELSE [f EXCEPT !.expirationTime = p.remaining, !.memoizedState = p.state,
                     !.baseUpdate = IF p.skipped THEN p.baseUpdate ELSE p.prev,
                     !.baseState = IF p.skipped THEN p.baseState ELSE p.state]

Held == UNION {{fiber[f].effect, fiber[f].updateQueue} : f \in {1, 2}}
FreeObject == CHOOSE o \in Object : o \notin Held

\* The effects with a new one; those that no fiber holds are dropped.
allocated(fires, deps, destroy) ==
  [o \in Object |-> IF o = FreeObject
                    THEN [kind |-> Kind, fires |-> fires, deps |-> deps, destroy |-> destroy]
                    ELSE IF o \in Held THEN effect[o] ELSE NoEffect(Kind)]

\* Mutant: an effect that does not fire forgets how to clean up.
DropsDestroy(f, deps) ==
  LET prev    == IF mounting THEN Nil ELSE fiber[current].effect
      same    == prev # Nil /\ effect[prev].deps = deps
      destroy == IF prev = Nil \/ same THEN Nil ELSE effect[prev].destroy
  IN  IF Kind = "none" THEN UNCHANGED effect /\ fiber' = [fiber EXCEPT ![w] = f] ELSE
      /\ effect' = allocated(~same, deps, destroy)
      /\ fiber' = [fiber EXCEPT ![w] =
                     [f EXCEPT !.updateQueue = FreeObject,
                               !.effect = IF same THEN @ ELSE FreeObject,
                               !.effectTag = IF same THEN @ ELSE @ \cup {"Update", Kind}]]

\* A new effect object goes into the update queue.  The hook keeps the old one
\* if the dependencies are those of the effect on the screen.
useEffect(f, deps) ==
  LET prev    == IF mounting THEN Nil ELSE fiber[current].effect
      same    == prev # Nil /\ effect[prev].deps = deps
      destroy == IF prev = Nil THEN Nil ELSE effect[prev].destroy
  IN  IF Kind = "none" THEN UNCHANGED effect /\ fiber' = [fiber EXCEPT ![w] = f] ELSE
      /\ effect' = allocated(~same, deps, destroy)
      /\ fiber' = [fiber EXCEPT ![w] =
                     [f EXCEPT !.updateQueue = FreeObject,
                               !.effect = IF same THEN @ ELSE FreeObject,
                               !.effectTag = IF same THEN @ ELSE @ \cup {"Update", Kind}]]

\* The body of the component after useReducer: a render-phase update if the
\* state asks for one, and the effect.
body(f, deps) ==
  /\ renderPhaseUpdates' = IF RenderPhase[f.memoizedState] = Nil THEN <<>>
                           ELSE <<RenderPhase[f.memoizedState]>>
  /\ useEffect(f, deps)
  /\ phase' = "body"
-----------------------------------------------------------------------------
(***************************************************************************)
(* Rendering.                                                              *)
(***************************************************************************)
startRender(t) ==
  /\ phase \in {"idle", "rendered"} /\ ~pendingPassive
  /\ renderExpirationTime' = t /\ seen' = Len(update)
  /\ numberOfReRenders' = 0
  /\ forgotten' = IF forgotten = "risk" THEN "yes" ELSE forgotten

mountComponent(t, deps) ==
  /\ mounting /\ phase = "idle"
  /\ startRender(t)
  /\ didReceiveUpdate' = FALSE
  /\ body([NoFiber EXCEPT !.exists = TRUE, !.memoizedState = Initial, !.baseState = Initial], deps)
  /\ lastRenderedState' = Initial
  /\ UNCHANGED <<update, last, current, live, pendingPassive>>

cloned == [fiber[current] EXCEPT !.effectTag = {}]
hasWork(t) == fiber[current].expirationTime >= t

beginWithoutWork(t, moved) ==
  /\ ~mounting /\ startRender(t)
  /\ ~hasWork(t)
  /\ fiber' = [fiber EXCEPT ![w] = [cloned EXCEPT !.effectTag = moved]]
  /\ didReceiveUpdate' = FALSE
  /\ phase' = "rendered"
  /\ UNCHANGED <<queueVars, current, renderPhaseUpdates, effectVars>>

\* received: the parent gave new props, or the fiber that was begun before has
\* left TRUE in didReceiveUpdate, which only the first of these resets.
renderWithHooks(t, deps, received, moved) ==
  /\ ~mounting /\ startRender(t)
  /\ received \/ hasWork(t)
  /\ LET hook == [cloned EXCEPT !.effectTag = moved]
         f == updateReducer(hook, t)
     IN  /\ didReceiveUpdate' = (received \/ f.memoizedState # hook.memoizedState)
         /\ update' = unravelled(hook)
         /\ lastRenderedState' = IF firstUpdate(hook) = Nil THEN lastRenderedState
                                 ELSE f.memoizedState
         /\ body(f, deps)
  /\ UNCHANGED <<last, current, live, pendingPassive>>

reRender(deps) ==
  /\ phase = "body" /\ renderPhaseUpdates # <<>> /\ numberOfReRenders < RE_RENDER_LIMIT
  /\ numberOfReRenders' = numberOfReRenders + 1
  /\ LET f == fiber[w]
         s == FoldLeft(LAMBDA acc, a : Reduce[acc, a], f.memoizedState, renderPhaseUpdates)
     IN  /\ didReceiveUpdate' = (didReceiveUpdate \/ s # f.memoizedState)
         /\ lastRenderedState' = s
         /\ body([f EXCEPT !.memoizedState = s,
                           !.baseState = IF f.baseUpdate = last THEN s ELSE @], deps)
  /\ UNCHANGED <<update, last, current, renderExpirationTime, live, pendingPassive, seen, forgotten>>

resetHooks ==
  /\ renderPhaseUpdates' = <<>> /\ numberOfReRenders' = 0
  /\ renderExpirationTime' = NoTime

\* The component throws, or has updated itself too often.
componentThrows ==
  /\ phase = "body"
  /\ resetHooks
  /\ phase' = "idle"
  /\ fiber' = [fiber EXCEPT ![w] = IF mounting THEN NoFiber ELSE Stale(@)]
  /\ didReceiveUpdate' = FALSE /\ seen' = 0
  /\ UNCHANGED <<queueVars, current, effectVars, forgotten>>

\* The render leaves the component as it was: it keeps the old effects, and the
\* current fiber is said to have no work, also if updates have been skipped.
bailoutHooks ==
  /\ fiber' = [fiber EXCEPT
       ![w].updateQueue = fiber[current].updateQueue,
       ![w].effectTag = @ \ {"passive", "Update"},
       ![current].expirationTime = IF @ <= time THEN NoTime ELSE @]
  /\ forgotten' = IF fiber[w].expirationTime # NoTime /\ forgotten = "no" THEN "risk" ELSE forgotten

finishComponent ==
  /\ phase = "body" /\ renderPhaseUpdates = <<>>
  /\ IF ~mounting /\ ~didReceiveUpdate THEN bailoutHooks ELSE UNCHANGED <<fiber, forgotten>>
  /\ numberOfReRenders' = 0
  /\ phase' = "rendered"
  /\ UNCHANGED <<queueVars, current, renderExpirationTime, didReceiveUpdate, renderPhaseUpdates,
                 effectVars, seen>>
-----------------------------------------------------------------------------
(***************************************************************************)
(* Committing.  Layout effects run in the commit, passive ones later, but  *)
(* before the next render or commit.                                       *)
(***************************************************************************)
FreeCall == CHOOSE c \in Call : live[c] = 0 /\ \A o \in Object : effect[o].destroy # c

\* An effect that fires destroys what its predecessor created, then creates.
commitHookEffectList(o) ==
  LET gone == effect[o].destroy
      left == [c \in Call |-> IF c = gone THEN live[c] - 1 ELSE live[c]]
  IN  IF o = Nil \/ ~effect[o].fires THEN UNCHANGED <<live, effect>>
      ELSE /\ live' = [left EXCEPT ![FreeCall] = @ + 1]
           /\ effect' = [effect EXCEPT ![o].destroy = FreeCall]

\* others: the commit has passive effects of other components.
commit(others) ==
  /\ phase = "rendered" /\ ~pendingPassive
  /\ current' = w
  /\ IF {"Update", "layout"} \subseteq fiber[w].effectTag
     THEN commitHookEffectList(fiber[w].updateQueue)
     ELSE UNCHANGED <<live, effect>>
  /\ pendingPassive' = ("passive" \in fiber[w].effectTag \/ (others /\ fiber[w].effectTag # {}))
  /\ fiber' = [f \in {1, 2} |-> IF f = w THEN [fiber[f] EXCEPT !.effectTag = {}]
                              ELSE Stale(fiber[f])]
  /\ phase' = "idle"
  /\ renderExpirationTime' = NoTime /\ didReceiveUpdate' = FALSE /\ seen' = 0
  /\ forgotten' = IF forgotten = "risk" THEN "no" ELSE forgotten
  /\ UNCHANGED <<queueVars, renderPhaseUpdates, numberOfReRenders>>

\* The effects of every fiber in the effect list, whatever its own tag.
flushPassiveEffects ==
  /\ pendingPassive /\ phase \in {"idle", "rendered"}
  /\ pendingPassive' = FALSE
  /\ IF Kind = "passive" THEN commitHookEffectList(fiber[current].updateQueue)
     ELSE UNCHANGED <<live, effect>>
  /\ UNCHANGED <<queueVars, fiber, current, phase, renderVars, forgotten>>

\* The parent is committed without the component: its effects are destroyed.
commitUnmount ==
  /\ current # Nil /\ phase \in {"idle", "rendered"} /\ ~pendingPassive
  /\ LET o == fiber[current].updateQueue
         gone == IF o = Nil THEN Nil ELSE effect[o].destroy
     IN  live' = [c \in Call |-> IF c = gone THEN live[c] - 1 ELSE live[c]]
  /\ phase' = "unmounted"
  /\ fiber' = [f \in {1, 2} |-> NoFiber]
  /\ UNCHANGED <<queueVars, current, renderVars, effect, pendingPassive, forgotten>>

HookNext ==
  \/ \E t \in 1 .. MaxTime :
       \/ \E a \in Dispatched : dispatchAction(t, a)
       \/ \E moved \in Moves :
            \/ beginWithoutWork(t, moved)
            \/ \E d \in Deps : \E received \in BOOLEAN :
                 renderWithHooks(t, d, received, moved)
       \/ \E d \in Deps : mountComponent(t, d)
  \/ \E d \in Deps : reRender(d)
  \/ componentThrows \/ finishComponent
  \/ \E others \in BOOLEAN : commit(others)
  \/ flushPassiveEffects \/ commitUnmount

HookSpec == Init /\ [][HookNext]_hookVars
-----------------------------------------------------------------------------
\* Types, and render-phase updates do not outlive the render they belong to.
TypeOK ==
  /\ \A i \in DOMAIN update :
       /\ update[i].time \in 1 .. MaxTime /\ update[i].action \in Action
       /\ update[i].eager \in State \cup {Nil}
       /\ update[i].next \in DOMAIN update \cup {Nil}
  /\ last \in DOMAIN update \cup {Nil} /\ lastRenderedState \in State
  /\ current \in {1, 2, Nil} /\ didReceiveUpdate \in BOOLEAN
  /\ phase \in {"idle", "body", "rendered", "unmounted"}
  /\ forgotten \in {"no", "risk", "yes"}
  /\ \A f \in {1, 2} : fiber[f].expirationTime \in 0 .. MaxTime
  /\ numberOfReRenders \in 0 .. RE_RENDER_LIMIT
  /\ phase # "body" => renderPhaseUpdates = <<>> /\ numberOfReRenders = 0

\* What the updates numbered S make of the initial state, and what the
\* component makes of a state it renders.
Applied(S) ==
  FoldLeft(LAMBDA s, i : IF i \in S THEN Reduce[s, update[i].action] ELSE s,
           Initial, [i \in 1 .. Len(update) |-> i])
Settled(s) ==
  LET after[n \in 0 .. RE_RENDER_LIMIT] ==
        IF n = 0 THEN s
        ELSE IF RenderPhase[after[n - 1]] = Nil THEN after[n - 1]
        ELSE Reduce[after[n - 1], RenderPhase[after[n - 1]]]
  IN  after[RE_RENDER_LIMIT]

\* A component rendered at a time shows every update of that priority that was
\* dispatched before, in order, whichever were computed eagerly, skipped,
\* rebased or rendered in vain; unless bailoutHooks has forgotten the time of an
\* update that it skipped, and a later action was computed on a state without it.
StateIsRebased ==
  phase = "rendered" /\ forgotten # "yes" =>
    LET base == IF mounting \/ fiber[current].baseUpdate = Nil THEN 0
                ELSE fiber[current].baseUpdate
    IN  fiber[w].memoizedState =
          Settled(Applied({i \in 1 .. seen : i <= base \/ update[i].time >= time}))

\* An effect is destroyed once for each time it was created, before it is
\* created again or when the component unmounts; between commits there is one.
EffectsPaired ==
  LET alive == {c \in Call : live[c] # 0}
      mounted == current # Nil /\ phase # "unmounted" /\ Kind # "none"
  IN  /\ \A c \in alive : live[c] = 1
      /\ ~mounted => alive = {}
      /\ mounted => alive \subseteq {effect[fiber[current].updateQueue].destroy}
      /\ mounted /\ ~pendingPassive => alive # {}
=============================================================================
