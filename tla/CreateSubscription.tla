------------------------- MODULE CreateSubscription -------------------------
(***************************************************************************)
(* packages/create-subscription/src/createSubscription.js: a class         *)
(* component that shows the value of an external source.  Sources emit at  *)
(* any time, also between a render and its commit; their values come as    *)
(* updates of the component's queue, at the priority of the event they are *)
(* emitted in; and the parent changes the source.                          *)
(*                                                                         *)
(* Of the reconciler this module keeps what UpdateQueue, FiberTree and     *)
(* WorkLoop say of one component: pending updates are processed by         *)
(* priority and rebased, a render may be thrown away, and updates made in  *)
(* a commit are of the highest priority.                                   *)
(***************************************************************************)
EXTENDS Integers, Sequences, FiniteSets, FiniteSetsExt

CONSTANTS
  Source,
  Readable,         \* those whose value getCurrentValue can read
  Replaying,        \* those that call a new subscriber back at once
  Unsubscribable,   \* those whose unsubscribe() does something
  NoSource,
  MaxUpdateTime,    \* expiration times, of which this one is Sync
  MaxValue,         \* bound: the values a source emits
  MaxPending        \* bound: pending updates when a source emits or is replaced

AnySource == "any"      \* of an update that does not look at the source

ASSUME SubscriptionAssumption ==
  /\ Readable \cup Replaying \cup Unsubscribable \subseteq Source /\ NoSource \notin Source
  /\ AnySource \notin Source \cup {NoSource}
  /\ MaxUpdateTime \in Nat \ {0} /\ MaxValue \in Nat /\ MaxPending \in Nat

Undefined == <<NoSource, 0>>

VARIABLES
  emitted,      \* of each source: how many values it emitted, the last being its value
  parentSource, \* the source the parent has committed
  wanted,       \* the one it wants, with the priority of that, or none
  subscribed,   \* the sources that call back
  shown,        \* the committed state of the component
  base, updates,\* its update queue
  workTime,     \* the expiration time of its fiber, 0 for none
  finished,     \* what was rendered and not yet committed, or none
  lifecycle,    \* "new", "mounted" or "unmounted"
  overNone      \* history: an update was to go over a base state without a source

subscriptionVars == <<emitted, parentSource, wanted, subscribed, shown, base, updates, workTime,
                      finished, lifecycle, overNone>>

SubscriptionInit ==
  /\ emitted = [s \in Source |-> 0]
  /\ parentSource \in Source \cup {NoSource} /\ wanted = <<>>
  /\ subscribed = {} /\ updates = <<>> /\ workTime = 0 /\ finished = <<>> /\ lifecycle = "new"
  /\ overNone = FALSE
  /\ shown = [source |-> NoSource, value |-> Undefined] /\ base = shown
-----------------------------------------------------------------------------
lastValue(s) == <<s, emitted[s]>>
getCurrentValue(s) == IF s \in Readable THEN lastValue(s) ELSE Undefined
initialState(s) == [source |-> s, value |-> getCurrentValue(s)]

\* setState with the callback's function, or with a value.
apply(state, u) ==
  IF u.source = AnySource THEN [state EXCEPT !.value = u.value]
  ELSE IF u.value = state.value \/ u.source # state.source THEN state
  ELSE [state EXCEPT !.value = u.value]

getDerivedStateFromProps(source, state) ==
  IF source # state.source THEN initialState(source) ELSE state

\* The state after those of the updates whose priority suffices.
Applied(state, queue, time) ==
  LET after[n \in 0 .. Len(queue)] ==
        IF n = 0 THEN state
        ELSE IF queue[n].time < time THEN after[n - 1] ELSE apply(after[n - 1], queue[n])
  IN  after[Len(queue)]

\* The queue and the state after a render at a time: the updates before the
\* first that is skipped are in the base state, those after it are kept; only
\* the skipped ones are work that is left.
processed(time, source) ==
  LET kept == {i \in DOMAIN updates : updates[i].time < time}
      first == IF kept = {} THEN Len(updates) + 1 ELSE Min(kept)
      left == SubSeq(updates, first, Len(updates))
      derived == getDerivedStateFromProps(source, Applied(base, updates, time))
  IN  [state |-> derived, updates |-> left, source |-> source,
       base |-> IF kept = {} THEN derived ELSE Applied(base, SubSeq(updates, 1, first - 1), time),
       workTime |-> IF kept = {} THEN 0 ELSE Max({updates[i].time : i \in kept})]

PendingTimes == ({workTime} \ {0}) \cup {wanted[i].time : i \in DOMAIN wanted}

\* The component is rendered with its parent at the most urgent time.
render ==
  /\ finished = <<>>
  /\ \/ /\ lifecycle = "new"
        /\ LET state == initialState(parentSource)
           IN  finished' = <<[state |-> state, updates |-> <<>>, source |-> parentSource,
                              base |-> state, workTime |-> 0]>>
     \/ /\ lifecycle = "mounted" /\ PendingTimes # {}
        /\ LET time == Max(PendingTimes)
               source == IF wanted # <<>> /\ wanted[1].time = time THEN wanted[1].source
                         ELSE parentSource
           IN  finished' = <<processed(time, source)>>
  /\ UNCHANGED <<emitted, parentSource, wanted, subscribed, shown, base, updates, workTime,
                 lifecycle, overNone>>

\* A more urgent render throws it away.
abandon ==
  /\ finished # <<>> /\ finished' = <<>>
  /\ UNCHANGED <<emitted, parentSource, wanted, subscribed, shown, base, updates, workTime,
                 lifecycle, overNone>>

\* Mutant: a value that changed since the render is not looked for.
subscribeOnly(state) == <<>>

\* subscribe(): the update by a source that calls back, and the one for a value
\* that changed since the render.
fromSubscribe(state) ==
  (IF state.source \in Replaying /\ emitted[state.source] > 0
   THEN <<[time |-> MaxUpdateTime, source |-> state.source, value |-> lastValue(state.source)]>>
   ELSE <<>>)
  \o (IF getCurrentValue(state.source) # state.value
      THEN <<[time |-> MaxUpdateTime, source |-> AnySource, value |-> getCurrentValue(state.source)]>>
      ELSE <<>>)

unsubscribe == subscribed \ Unsubscribable

\* componentDidMount and componentDidUpdate.
commit ==
  /\ finished # <<>>
  /\ LET done == finished[1]
         resubscribe == lifecycle = "new" \/ done.state.source # shown.source
         hasSource == done.state.source # NoSource
         new == IF resubscribe /\ hasSource THEN fromSubscribe(done.state) ELSE <<>>
     IN  /\ shown' = done.state /\ base' = done.base
         /\ updates' = done.updates \o new
         /\ overNone' = (overNone \/ (done.base.source = NoSource
                                      /\ \E i \in DOMAIN new : new[i].source = AnySource))
         /\ workTime' = IF new = <<>> THEN done.workTime ELSE MaxUpdateTime
         /\ subscribed' = IF resubscribe
                          THEN unsubscribe \cup (IF hasSource THEN {done.state.source} ELSE {})
                          ELSE subscribed
         /\ parentSource' = done.source
         /\ wanted' = IF wanted # <<>> /\ wanted[1].source = done.source THEN <<>> ELSE wanted
  /\ finished' = <<>> /\ lifecycle' = "mounted"
  /\ UNCHANGED emitted

\* componentWillUnmount.
unmountSubscription ==
  /\ lifecycle = "mounted" /\ lifecycle' = "unmounted"
  /\ subscribed' = unsubscribe /\ UNCHANGED overNone
  /\ updates' = <<>> /\ workTime' = 0 /\ finished' = <<>> /\ wanted' = <<>>
  /\ UNCHANGED <<emitted, parentSource, shown, base>>

\* A source emits a value; the callback enqueues an update, for the fiber and for
\* its alternate.
emit(s, time) ==
  LET raised(t) == IF t < time THEN time ELSE t
      update == [time |-> time, source |-> s, value |-> <<s, emitted[s] + 1>>]
  IN  /\ emitted[s] < MaxValue /\ Len(updates) < MaxPending
      /\ emitted' = [emitted EXCEPT ![s] = @ + 1]
      /\ IF s \in subscribed /\ lifecycle # "unmounted"
         THEN /\ updates' = Append(updates, update) /\ workTime' = raised(workTime)
              /\ finished' = IF finished = <<>> THEN <<>>
                             ELSE <<[finished[1] EXCEPT !.updates = Append(@, update),
                                                        !.workTime = raised(@)]>>
         ELSE UNCHANGED <<updates, workTime, finished>>
      /\ UNCHANGED <<parentSource, wanted, subscribed, shown, base, lifecycle, overNone>>

\* The parent is updated with another source.
changeSource(s, time) ==
  /\ lifecycle = "mounted" /\ wanted = <<>> /\ s # parentSource /\ Len(updates) < MaxPending
  /\ wanted' = <<[source |-> s, time |-> time]>>
  /\ UNCHANGED <<emitted, parentSource, subscribed, shown, base, updates, workTime, finished,
                 lifecycle, overNone>>

SubscriptionNext ==
  \/ render \/ abandon \/ commit \/ unmountSubscription
  \/ \E time \in 1 .. MaxUpdateTime :
       \/ \E s \in Source : emit(s, time)
       \/ \E s \in Source \cup {NoSource} : changeSource(s, time)

SubscriptionSpec == SubscriptionInit /\ [][SubscriptionNext]_subscriptionVars
-----------------------------------------------------------------------------
settled == lifecycle = "mounted" /\ finished = <<>> /\ PendingTimes = {}

\* Once nothing is pending, the component is subscribed to the source it was
\* given and shows its value, whatever was emitted during renders, before it was
\* subscribed, or by sources it had before.  Of a source that cannot be read it
\* shows no value, or one which that source emitted.  Without a source it shows
\* none, unless an update went over a base state that had no source either.
ShowsCurrentValue ==
  settled => /\ shown.source = parentSource
             /\ shown.source # NoSource => shown.source \in subscribed
             /\ IF shown.source \in Source \ Readable
                THEN shown.value[1] \in {shown.source, NoSource}
                ELSE \/ shown.value = getCurrentValue(shown.source)
                     \/ shown.source = NoSource /\ overNone
=============================================================================
