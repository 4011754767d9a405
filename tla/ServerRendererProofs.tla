------------------------ MODULE ServerRendererProofs ------------------------
(***************************************************************************)
(* Requests that a server renders in turns do not mix (RequestsAreSeparate),*)
(* for any trees of elements, any number of streams, contexts and nested   *)
(* calls of renderToString.                                                *)
(*                                                                         *)
(* The slot of a thread holds what the nearest provider provides because   *)
(* the stack of contexts remembers, for each provider among the frames,    *)
(* what the nearest one outside of it provides; and a renderer that begins *)
(* finds defaults because every slot whose thread ID is free holds one.    *)
(* The IDs that are free are linked in the array of the allocator, and no  *)
(* renderer that is alive has one of them.                                 *)
(*                                                                         *)
(* The module variables of the hooks are as new unless the innermost       *)
(* component uses hooks: as long as those run through, no other component  *)
(* comes between.                                                          *)
(***************************************************************************)
EXTENDS ServerRenderer, FiniteSetTheorems, SequenceTheorems, WellFoundedInduction, TLAPS

Value == {ValueOf[e] : e \in Element} \cup {Default}
Frame == [type : Element \cup {Nil}, children : Seq(Element), childIndex : Nat,
          fallback : Seq(Element)]
Entry == [context : Context, previous : Value]
RendererState == [threadID : Nat, stack : Seq(Frame), exhausted : BOOLEAN, suspenseDepth : Int,
                  contextStack : Seq(Entry)]
State == Element \X {0, 1}
Run == [pc : Nat, states : Seq(State), first : Nat, updates : {0, 1}, base : {0, 1},
        failing : BOOLEAN]
Call == [renderer : Renderer, prevThreadID : Nat, suspended : BOOLEAN,
         child : Element \cup {Nil}, run : Run]

(***************************************************************************)
(* The allocator, the slots and the renderers.                             *)
(***************************************************************************)
SlotIn(val, c, id) == IF Len(val[c]) > id THEN val[c][id + 1] ELSE Default
Alive(rend) == {r \in Renderer : ~rend[r].exhausted}

\* The thread IDs that are free, the next one last, as the array links them.
IsFreeList(ids, free, n) ==
  /\ free \in [1 .. n -> 1 .. Len(ids) - 1]
  /\ \A j, k \in 1 .. n : free[j] = free[k] => j = k
  /\ ids[1] = IF n = 0 THEN 0 ELSE free[n]
  /\ \A k \in 1 .. n : ids[free[k] + 1] = IF k = 1 THEN 0 ELSE free[k - 1]

ThreadsOK(ids, rend) ==
  /\ ids \in Seq(Nat) /\ Len(ids) >= 2
  /\ rend \in [Renderer -> RendererState]
  /\ \A r \in Alive(rend) : rend[r].threadID \in 1 .. Len(ids) - 1
  /\ \A r, q \in Alive(rend) : rend[r].threadID = rend[q].threadID => r = q
  /\ \E n \in Nat : \E free \in [1 .. n -> Nat] :
       /\ IsFreeList(ids, free, n)
       /\ \A r \in Alive(rend), k \in 1 .. n : rend[r].threadID # free[k]

\* The entries of the context stack are those of the providers among the
\* frames, each with what the nearest provider outside of it provides.
IsMatch(S, at) ==
  /\ at \in [1 .. Len(S.contextStack) -> 1 .. Len(S.stack)]
  /\ \A j, k \in 1 .. Len(S.contextStack) : j < k => at[j] < at[k]
  /\ \A k \in 1 .. Len(S.contextStack) :
       LET p == S.contextStack[k]
       IN  /\ provides(S.stack[at[k]], p.context)
           /\ IsNearest(p.previous, S.stack, at[k] - 1, p.context)
  /\ \A i \in 1 .. Len(S.stack), c \in Context :
       provides(S.stack[i], c) => \E k \in 1 .. Len(S.contextStack) : at[k] = i

StackMatches(S) == \E at \in [1 .. Len(S.contextStack) -> 1 .. Len(S.stack)] : IsMatch(S, at)

SlotsOK(val, rend) ==
  /\ val \in [Context -> Seq(Value)]
  /\ \A r \in Alive(rend) :
       /\ StackMatches(rend[r])
       /\ \A k \in 1 .. Len(rend[r].contextStack) :
            Len(val[rend[r].contextStack[k].context]) > rend[r].threadID
       /\ \A c \in Context :
            IsNearest(SlotIn(val, c, rend[r].threadID), rend[r].stack, Len(rend[r].stack), c)
  /\ \A id \in Nat, c \in Context :
       (\A r \in Alive(rend) : rend[r].threadID # id) => SlotIn(val, c, id) = Default

Core(ids, val, rend) == ThreadsOK(ids, rend) /\ SlotsOK(val, rend)

(***************************************************************************)
(* The calls of read(), nested within each other.                          *)
(***************************************************************************)
CallOK(c) ==
  /\ c.child = Nil => c.run.pc = 0
  /\ c.run.pc = 0 => c.run = NoRun

CallsOK(calls, rend, id) ==
  /\ calls \in Seq(Call)
  /\ \A i \in 1 .. Len(calls) :
       /\ CallOK(calls[i]) /\ calls[i].renderer \in Alive(rend)
       /\ calls[i].prevThreadID = IF i = 1 THEN 0 ELSE rend[calls[i - 1].renderer].threadID
       /\ i < Len(calls) => calls[i].run.pc # 0
  /\ \A i, j \in 1 .. Len(calls) : calls[i].renderer = calls[j].renderer => i = j
  /\ id = IF Len(calls) = 0 THEN 0 ELSE rend[calls[Len(calls)].renderer].threadID

(***************************************************************************)
(* The module variables of the hooks.                                      *)
(***************************************************************************)
HooksTypeOK(h) ==
  /\ h = [currentlyRenderingComponent |-> h.currentlyRenderingComponent,
          list |-> h.list, at |-> h.at, updates |-> h.updates,
          didScheduleRenderPhaseUpdate |-> h.didScheduleRenderPhaseUpdate,
          numberOfReRenders |-> h.numberOfReRenders]
  /\ h.currentlyRenderingComponent \in Nat
  /\ h.list \in Seq(State) /\ h.at \in 0 .. Len(h.list)
  /\ DOMAIN h.updates \subseteq Nat /\ h.updates \in [DOMAIN h.updates -> State]
  /\ h.didScheduleRenderPhaseUpdate \in BOOLEAN /\ h.numberOfReRenders \in Nat

usesHooks(e) == \E i \in DOMAIN Body[e] : Body[e][i] = "useState"

\* The hooks that component e has used before it does its pc-th operation.
Used(e, pc) == {i \in 1 .. Len(Body[e]) : i < pc /\ Body[e][i] = "useState"}

AsNew(h) ==
  /\ h.list = <<>> /\ h.at = 0 /\ h.updates = <<>>
  /\ ~h.didScheduleRenderPhaseUpdate /\ h.numberOfReRenders = 0

\* Component e, which uses hooks, has used the first of them.
HooksOf(h, e, component) ==
  /\ component.pc \in 1 .. Len(Body[e]) + 1
  /\ Len(component.states) = h.at /\ h.at = Cardinality(Used(e, component.pc))
  /\ \A s \in 1 .. h.at : component.states[s] = <<e, IF s = 1 THEN component.base ELSE 0>>
  /\ h.currentlyRenderingComponent # 0
  /\ \A s \in 2 .. Len(h.list) : h.list[s] = <<e, 0>>
  /\ DOMAIN h.updates \subseteq {1}
  /\ 1 \in DOMAIN h.updates => h.updates[1] = <<e, 1>> /\ component.updates = 1
  /\ h.numberOfReRenders = 0 => h.at = Len(h.list)
  /\ h.numberOfReRenders > 0 => Len(h.list) = Cardinality(Used(e, Len(Body[e]) + 1))
  /\ h.at = 0 => /\ ~h.didScheduleRenderPhaseUpdate
                 /\ Len(h.list) = 0 => component.base = 0
                 /\ Len(h.list) # 0 => component.base = 1 /\ 1 \in DOMAIN h.updates
  /\ h.at # 0 => /\ component.first = 1
                 /\ h.didScheduleRenderPhaseUpdate => 1 \in DOMAIN h.updates

IsUsing(c) == c.run.pc # 0 /\ usesHooks(c.child)

HooksOK(calls, h) ==
  /\ \A i \in 1 .. Len(calls) :
       /\ ~IsUsing(calls[i]) => calls[i].run.states = <<>>
       /\ i < Len(calls) \/ calls[i].run.failing => ~IsUsing(calls[i])
  /\ IF Len(calls) # 0 /\ IsUsing(calls[Len(calls)])
     THEN HooksOf(h, calls[Len(calls)].child, calls[Len(calls)].run)
     ELSE AsNew(h)

ServerInv ==
  /\ Core(nextAvailableThreadIDs, value, renderer)
  /\ CallsOK(reading, renderer, currentThreadID)
  /\ HooksTypeOK(hooks)
  /\ HooksRunThrough => HooksOK(reading, hooks)

-----------------------------------------------------------------------------
\* A non-empty set of positions has a least element, and Min is that element.
LEMMA MinOfPositions ==
  ASSUME NEW S, S \subseteq Nat, S # {}
  PROVE  Min(S) \in S /\ \A y \in S : Min(S) <= y
<1>1. PICK x \in S : \A y \in S : ~(<<y, x>> \in OpToRel(<, Nat))
  BY NatLessThanWellFounded, WFMin, Zenon
<1>2. ASSUME NEW y \in S
      PROVE  x <= y
  <2>1. <<y, x>> \in Nat \X Nat /\ <<y, x>>[1] = y /\ <<y, x>>[2] = x
    OBVIOUS
  <2>2. y < x => <<y, x>> \in OpToRel(<, Nat)
    BY <2>1, Zenon DEF OpToRel
  <2>3. ~(y < x)
    BY <1>1, <2>2, Zenon
  <2> QED  BY <2>3
<1> QED  BY <1>2, Zenon DEF Min

(***************************************************************************)
(* Thread IDs.                                                             *)
(***************************************************************************)
LEMMA GrownIDs ==
  ASSUME NEW ids \in Seq(Nat), Len(ids) >= 2
  PROVE  /\ growThreadCount(ids) \in Seq(Nat) /\ Len(growThreadCount(ids)) = 2 * Len(ids)
         /\ growThreadCount(ids)[1] = Len(ids) + 1
         /\ growThreadCount(ids)[2 * Len(ids)] = 0
         /\ \A i \in Len(ids) + 1 .. 2 * Len(ids) - 1 : growThreadCount(ids)[i] = i
<1> DEFINE g == growThreadCount(ids)
<1>0. PICK n \in Nat : n = Len(ids)
  OBVIOUS
<1>1. g = [i \in 1 .. 2 * n |-> CASE i = 1 -> n + 1 [] i = 2 * n -> 0
                                  [] i \in n + 1 .. 2 * n - 1 -> i
                                  [] OTHER -> ids[i]]
  BY <1>0 DEF growThreadCount
<1>2. \A i \in 1 .. 2 * n : g[i] \in Nat
  <2> TAKE i \in 1 .. 2 * n
  <2>1. i <= n => ids[i] \in Nat
    BY <1>0
  <2>2. g[i] = CASE i = 1 -> n + 1 [] i = 2 * n -> 0
                 [] i \in n + 1 .. 2 * n - 1 -> i [] OTHER -> ids[i]
    BY <1>1, Zenon
  <2>3. i = 1 \/ i = 2 * n \/ i \in n + 1 .. 2 * n - 1 \/ i <= n
    OBVIOUS
  <2> HIDE DEF g
  <2> QED  BY <1>0, <2>1, <2>2, <2>3
<1>3. g \in [1 .. 2 * n -> Nat]
  BY <1>1, <1>2
<1>4. g \in Seq(Nat) /\ Len(g) = 2 * n
  BY <1>3, <1>0
<1>5. /\ g[1] = n + 1 /\ g[2 * n] = 0
      /\ \A i \in n + 1 .. 2 * n - 1 : g[i] = i
  <2> HIDE DEF g
  <2>1. n >= 2 /\ 1 \in 1 .. 2 * n /\ 2 * n \in 1 .. 2 * n /\ 2 * n # 1
    BY <1>0
  <2>2. g[1] = n + 1
    BY <1>1, <2>1
  <2>3. g[2 * n] = 0
    BY <1>1, <2>1
  <2>4. ASSUME NEW i \in n + 1 .. 2 * n - 1
        PROVE  g[i] = i
    <3>1. i \in 1 .. 2 * n /\ i # 1 /\ i # 2 * n /\ i > n
      BY <2>1
    <3> QED  BY <1>1, <3>1
  <2> QED  BY <2>2, <2>3, <2>4
<1> QED  BY <1>0, <1>4, <1>5

\* The renderers after one of them has changed.
With(rend, r, S) == [rend EXCEPT ![r] = S]

LEMMA ExceptRenderer ==
  ASSUME NEW rend \in [Renderer -> RendererState], NEW r \in Renderer, NEW S \in RendererState
  PROVE  /\ With(rend, r, S) \in [Renderer -> RendererState]
         /\ With(rend, r, S)[r] = S
         /\ \A q \in Renderer : q # r => With(rend, r, S)[q] = rend[q]
<1> QED  BY DEF With

LEMMA AliveAfter ==
  ASSUME NEW rend \in [Renderer -> RendererState], NEW r \in Renderer, NEW S \in RendererState
  PROVE  \A q : q \in Alive(With(rend, r, S)) <=>
                q \in Renderer /\ IF q = r THEN ~S.exhausted ELSE q \in Alive(rend)
<1> DEFINE next == With(rend, r, S)
<1>1. next[r] = S /\ \A q \in Renderer : q # r => next[q] = rend[q]
  BY ExceptRenderer
<1> HIDE DEF next
<1>2. \A q : q \in Alive(next) <=>
              q \in Renderer /\ IF q = r THEN ~S.exhausted ELSE q \in Alive(rend)
  BY <1>1, Zenon DEF Alive
<1> QED  BY <1>2 DEF next

LEMMA NewRendererType ==
  ASSUME NEW id \in Nat, NEW e \in Element
  PROVE  /\ NewRenderer(id, e) \in RendererState /\ NewRenderer(id, e).threadID = id
         /\ ~NewRenderer(id, e).exhausted
         /\ NewRenderer(id, e).contextStack = <<>>
         /\ Len(NewRenderer(id, e).stack) = 1 /\ NewRenderer(id, e).stack[1].type = Nil
<1>1. NewFrame(Nil, <<e>>, <<>>) \in Frame
  BY DEF NewFrame, Frame
<1>2. <<NewFrame(Nil, <<e>>, <<>>)>> \in Seq(Frame)
  BY <1>1
<1>3. <<>> \in Seq(Entry)
  OBVIOUS
<1>4. NewFrame(Nil, <<e>>, <<>>).type = Nil
  BY DEF NewFrame
<1> DEFINE f == NewFrame(Nil, <<e>>, <<>>)
<1> HIDE DEF f
<1>5. f \in Frame /\ f.type = Nil
  BY <1>1, <1>4 DEF f
<1> QED  BY <1>3, <1>5 DEF NewRenderer, RendererState, f

\* The ID that is allocated is not in use, and those that stay free are linked.
LEMMA AllocatesFree ==
  ASSUME NEW ids, NEW rend, ThreadsOK(ids, rend), NEW r \in Renderer \ Alive(rend),
         NEW e \in Element
  PROVE  LET alloc == allocThreadID(ids)
         IN  /\ alloc.id \in Nat /\ \A q \in Alive(rend) : rend[q].threadID # alloc.id
             /\ ThreadsOK(alloc.ids, With(rend, r, NewRenderer(alloc.id, e)))
<1> DEFINE alloc == allocThreadID(ids)
           id == alloc.id
           next == With(rend, r, NewRenderer(id, e))
<1>0. /\ ids \in Seq(Nat) /\ Len(ids) >= 2 /\ rend \in [Renderer -> RendererState]
      /\ \A q \in Alive(rend) : rend[q].threadID \in 1 .. Len(ids) - 1
      /\ \A p, q \in Alive(rend) : rend[p].threadID = rend[q].threadID => p = q
  BY DEF ThreadsOK
<1>a. PICK n \in Nat : \E free \in [1 .. n -> Nat] :
             /\ IsFreeList(ids, free, n)
             /\ \A q \in Alive(rend), k \in 1 .. n : rend[q].threadID # free[k]
  BY DEF ThreadsOK
<1>1. PICK free \in [1 .. n -> Nat] :
             /\ IsFreeList(ids, free, n)
             /\ \A q \in Alive(rend), k \in 1 .. n : rend[q].threadID # free[k]
  BY <1>a
<1>2. /\ free \in [1 .. n -> 1 .. Len(ids) - 1]
      /\ \A j, k \in 1 .. n : free[j] = free[k] => j = k
      /\ ids[1] = IF n = 0 THEN 0 ELSE free[n]
      /\ \A k \in 1 .. n : ids[free[k] + 1] = IF k = 1 THEN 0 ELSE free[k - 1]
  BY <1>1 DEF IsFreeList
<1>3. PICK len \in Nat : len = Len(ids) /\ len >= 2
  BY <1>0
\* What both cases come to.
<1>4. ASSUME id \in Nat, alloc.ids \in Seq(Nat), Len(alloc.ids) >= len,
             id \in 1 .. Len(alloc.ids) - 1, \A q \in Alive(rend) : rend[q].threadID # id,
             NEW m \in Nat, NEW left \in [1 .. m -> Nat], IsFreeList(alloc.ids, left, m),
             \A k \in 1 .. m : left[k] # id,
             \A q \in Alive(rend), k \in 1 .. m : rend[q].threadID # left[k]
      PROVE  ThreadsOK(alloc.ids, next)
  <2> HIDE DEF alloc
  <2>1. /\ NewRenderer(id, e) \in RendererState /\ NewRenderer(id, e).threadID = id
        /\ ~NewRenderer(id, e).exhausted
    BY <1>4, NewRendererType
  <2>2. /\ next \in [Renderer -> RendererState] /\ next[r] = NewRenderer(id, e)
        /\ \A q \in Renderer : q # r => next[q] = rend[q]
        /\ \A q : q \in Alive(next) <=> q \in Alive(rend) \/ q = r
    <3>1. r \in Renderer
      OBVIOUS
    <3>2. /\ next \in [Renderer -> RendererState] /\ next[r] = NewRenderer(id, e)
          /\ \A q \in Renderer : q # r => next[q] = rend[q]
      <4>1. rend \in [Renderer -> RendererState] /\ NewRenderer(id, e) \in RendererState
        BY <1>0, <2>1
      <4> QED  BY <4>1, <3>1, ExceptRenderer
    <3>3. \A q : q \in Alive(next) <=>
                  q \in Renderer /\ IF q = r THEN ~NewRenderer(id, e).exhausted ELSE q \in Alive(rend)
      BY <1>0, <2>1, <3>1, AliveAfter
    <3>4. \A q : q \in Alive(rend) => q \in Renderer
      BY DEF Alive
    <3> HIDE DEF next
    <3> QED  BY <2>1, <3>1, <3>2, <3>3, <3>4, Zenon
  <2>3. Alive(rend) \subseteq Renderer /\ r \notin Alive(rend)
    BY DEF Alive
  <2> HIDE DEF next
  <2>4. \A q \in Alive(next) :
          next[q].threadID = IF q = r THEN id ELSE rend[q].threadID
    BY <2>1, <2>2, <2>3
  <2>5. \A q \in Alive(next) : next[q].threadID \in 1 .. Len(alloc.ids) - 1
    <3> SUFFICES ASSUME NEW q \in Alive(next)
                 PROVE  next[q].threadID \in 1 .. Len(alloc.ids) - 1
      OBVIOUS
    <3>1. CASE q = r
      BY <2>4, <1>4, <3>1
    <3>2. CASE q # r
      <4>1. q \in Alive(rend)
        BY <2>2, <3>2
      <4>2. rend[q].threadID \in 1 .. len - 1
        BY <4>1, <1>0, <1>3
      <4>3. rend[q].threadID \in 1 .. Len(alloc.ids) - 1
        <5>1. Len(alloc.ids) \in Nat /\ Len(alloc.ids) >= len
          BY <1>4
        <5> QED  BY <5>1, <4>2
      <4> QED  BY <2>4, <3>2, <4>3, Zenon
    <3> QED  BY <3>1, <3>2
  <2>6. \A p, q \in Alive(next) : next[p].threadID = next[q].threadID => p = q
    <3> SUFFICES ASSUME NEW p \in Alive(next), NEW q \in Alive(next),
                        next[p].threadID = next[q].threadID
                 PROVE  p = q
      BY Zenon
    <3>1. (p = r \/ p \in Alive(rend)) /\ (q = r \/ q \in Alive(rend))
      BY <2>2
    <3>2. CASE p = r /\ q # r
      BY <3>1, <3>2, <2>4, <1>4
    <3>3. CASE p # r /\ q = r
      BY <3>1, <3>3, <2>4, <1>4
    <3>4. CASE p # r /\ q # r
      BY <3>1, <3>4, <2>4, <1>0
    <3> QED  BY <3>2, <3>3, <3>4
  <2>7. \A q \in Alive(next), k \in 1 .. m : next[q].threadID # left[k]
    <3> SUFFICES ASSUME NEW q \in Alive(next), NEW k \in 1 .. m
                 PROVE  next[q].threadID # left[k]
      BY Zenon
    <3>1. CASE q = r
      <4>1. next[q].threadID = id /\ left[k] # id
        BY <3>1, <2>4, <1>4, Zenon
      <4> QED  BY <4>1
    <3>2. CASE q # r
      <4>1. q \in Alive(rend)
        BY <2>2, <3>2, Zenon
      <4>2. next[q].threadID = rend[q].threadID /\ rend[q].threadID # left[k]
        BY <4>1, <3>2, <2>4, <1>4, Zenon
      <4> QED  BY <4>2
    <3> QED  BY <3>1, <3>2
  <2>8. Len(alloc.ids) >= 2
    BY <1>3, <1>4
  <2> QED  BY <1>4, <2>2, <2>5, <2>6, <2>7, <2>8, Zenon DEF ThreadsOK
<1>5. CASE n = 0
  <2>1. alloc.id = len /\ alloc.ids = growThreadCount(ids)
    BY <1>5, <1>2, <1>3 DEF allocThreadID, firstAvailable
  <2> DEFINE m == len - 1
             left == [k \in 1 .. m |-> 2 * len - k]
             new == growThreadCount(ids)
  <2>2. /\ new \in Seq(Nat) /\ Len(new) = 2 * len /\ new[1] = len + 1 /\ new[2 * len] = 0
        /\ \A i \in len + 1 .. 2 * len - 1 : new[i] = i
    BY <1>0, <1>3, GrownIDs
  <2> HIDE DEF new
  <2>3. m \in Nat /\ left \in [1 .. m -> Nat]
    BY <1>3
  <2>4. IsFreeList(new, left, m)
    <3>1. left \in [1 .. m -> 1 .. Len(new) - 1]
      <4>1. \A k \in 1 .. m : 2 * len - k \in 1 .. 2 * len - 1
        BY <1>3
      <4> QED  BY <4>1, <2>2
    <3>2. \A j, k \in 1 .. m : left[j] = left[k] => j = k
      BY <1>3
    <3>3. new[1] = IF m = 0 THEN 0 ELSE left[m]
      <4>1. m # 0 /\ left[m] = 2 * len - m /\ 2 * len - m = len + 1
        BY <1>3
      <4> QED  BY <4>1, <2>2
    <3>4. ASSUME NEW k \in 1 .. m
          PROVE  new[left[k] + 1] = IF k = 1 THEN 0 ELSE left[k - 1]
      <4>1. left[k] = 2 * len - k /\ (k # 1 => left[k - 1] = 2 * len - (k - 1))
        BY <1>3
      <4>2. k # 1 => 2 * len - k + 1 \in len + 1 .. 2 * len - 1
        BY <1>3
      <4>3. k # 1 => new[2 * len - k + 1] = 2 * len - k + 1
        BY <4>2, <2>2
      <4>4. k = 1 => new[2 * len - k + 1] = 0
        BY <2>2, <1>3
      <4>5. 2 * len - k + 1 = 2 * len - (k - 1)
        BY <1>3
      <4>6. new[left[k] + 1] = new[2 * len - k + 1]
        BY <4>1
      <4>7. CASE k = 1
        BY <4>7, <4>6, <4>4
      <4>8. CASE k # 1
        BY <4>8, <4>6, <4>3, <4>5, <4>1
      <4> QED  BY <4>7, <4>8
    <3> HIDE DEF m, left
    <3> QED  BY <3>1, <3>2, <3>3, <3>4 DEF IsFreeList
  <2>5. \A k \in 1 .. m : left[k] # len /\ left[k] >= len
    BY <1>3
  <2>6. \A q \in Alive(rend) : rend[q].threadID \in 1 .. len - 1
    BY <1>0, <1>3
  <2>7. \A q \in Alive(rend), k \in 1 .. m : rend[q].threadID # left[k]
    BY <2>5, <2>6, <2>3, <1>3
  <2>8. \A q \in Alive(rend) : rend[q].threadID # len
    BY <2>6, <1>3
  <2>9. len \in 1 .. Len(new) - 1 /\ Len(new) >= len
    BY <2>2, <1>3
  <2>10. id = len /\ alloc.ids = new
    BY <2>1 DEF new
  <2> HIDE DEF m, left, alloc
  <2>11. ThreadsOK(alloc.ids, next)
    <3>1. id \in Nat /\ alloc.ids \in Seq(Nat) /\ Len(alloc.ids) >= len
      BY <2>2, <2>9, <2>10
    <3>2. id \in 1 .. Len(alloc.ids) - 1 /\ \A q \in Alive(rend) : rend[q].threadID # id
      BY <2>8, <2>9, <2>10
    <3>3. IsFreeList(alloc.ids, left, m) /\ \A k \in 1 .. m : left[k] # id
      BY <2>4, <2>5, <2>10
    <3> HIDE DEF id
    <3> QED  BY <3>1, <3>2, <3>3, <1>4, <2>3, <2>7, Zenon
  <2> QED  BY <2>8, <2>10, <2>11, <1>3 DEF alloc
<1>6. CASE n # 0
  <2>1. free[n] \in 1 .. len - 1 /\ ids[1] = free[n]
    BY <1>6, <1>2, <1>3
  <2>2. ids[1] # 0
    BY <2>1
  <2>3. alloc.id = free[n] /\ alloc.ids = [ids EXCEPT ![1] = ids[free[n] + 1]]
    BY <2>1, <2>2 DEF allocThreadID, firstAvailable
  <2> DEFINE m == n - 1
             left == [k \in 1 .. m |-> free[k]]
             new == [ids EXCEPT ![1] = ids[free[n] + 1]]
  <2>4. ids[free[n] + 1] \in Nat
    <3>1. free[n] + 1 \in 1 .. len
      BY <1>3, <2>1
    <3> QED  BY <3>1, <1>0, <1>3
  <2>5. /\ new \in Seq(Nat) /\ Len(new) = len /\ new[1] = ids[free[n] + 1]
        /\ \A i \in 2 .. len : new[i] = ids[i]
    BY <1>0, <1>3, <2>4
  <2>6. m \in Nat /\ left \in [1 .. m -> Nat] /\ \A k \in 1 .. m : left[k] = free[k]
    BY <1>6, <1>1
  <2> HIDE DEF new, left
  <2>7. IsFreeList(new, left, m)
    <3>1. left \in [1 .. m -> 1 .. Len(new) - 1]
      <4>1. \A k \in 1 .. m : left[k] \in 1 .. len - 1
        <5> TAKE k \in 1 .. m
        <5>1. k \in 1 .. n /\ left[k] = free[k]
          BY <2>6
        <5> QED  BY <5>1, <1>2, <1>3
      <4> QED  BY <4>1, <2>5, <2>6
    <3>2. \A j, k \in 1 .. m : left[j] = left[k] => j = k
      BY <1>2, <2>6
    <3>3. new[1] = IF m = 0 THEN 0 ELSE left[m]
      <4>1. ids[free[n] + 1] = IF n = 1 THEN 0 ELSE free[n - 1]
        BY <1>2, <1>6
      <4> QED  BY <4>1, <2>5, <2>6, <1>6
    <3>4. ASSUME NEW k \in 1 .. m
          PROVE  new[left[k] + 1] = IF k = 1 THEN 0 ELSE left[k - 1]
      <4>1. free[k] \in 1 .. len - 1
        BY <1>2, <1>3
      <4>2. new[free[k] + 1] = ids[free[k] + 1]
        <5>1. free[k] + 1 \in 2 .. len
          BY <4>1, <1>3
        <5> QED  BY <5>1, <2>5
      <4>3. ids[free[k] + 1] = IF k = 1 THEN 0 ELSE free[k - 1]
        <5>1. k \in 1 .. n
          OBVIOUS
        <5> QED  BY <5>1, <1>2, Zenon
      <4>4. k # 1 => left[k - 1] = free[k - 1]
        BY <2>6
      <4> QED  BY <4>2, <4>3, <4>4, <2>6
    <3> HIDE DEF m
    <3> QED  BY <3>1, <3>2, <3>3, <3>4 DEF IsFreeList
  <2>8. \A k \in 1 .. m : left[k] # free[n]
    BY <1>2, <1>6, <2>6
  <2>9. \A q \in Alive(rend) : rend[q].threadID # free[n]
    BY <1>1, <1>6
  <2>10. \A q \in Alive(rend), k \in 1 .. m : rend[q].threadID # left[k]
    BY <1>1, <2>6
  <2>11. id = free[n] /\ alloc.ids = new /\ free[n] \in Nat
    BY <2>1, <2>3 DEF new
  <2>12. free[n] \in 1 .. Len(new) - 1 /\ Len(new) >= len
    BY <2>1, <2>5, <1>3
  <2> HIDE DEF m, alloc
  <2>13. ThreadsOK(alloc.ids, next)
    <3>1. id \in Nat /\ alloc.ids \in Seq(Nat) /\ Len(alloc.ids) >= len /\ id \in 1 .. Len(alloc.ids) - 1
      BY <2>11, <2>12, <2>5
    <3>2. IsFreeList(alloc.ids, left, m)
      BY <2>11, <2>7
    <3>3. (\A k \in 1 .. m : left[k] # id) /\ (\A q \in Alive(rend) : rend[q].threadID # id)
      BY <2>11, <2>8, <2>9
    <3> QED  BY <1>4, <2>6, <2>10, <3>1, <3>2, <3>3
  <2> QED  BY <2>9, <2>11, <2>13 DEF alloc
<1> QED  BY <1>5, <1>6

\* What changes in a renderer that keeps its ID leaves the IDs as they are.
LEMMA KeepsThreads ==
  ASSUME NEW ids, NEW rend, ThreadsOK(ids, rend), NEW r \in Alive(rend), NEW S \in RendererState,
         S.threadID = rend[r].threadID, ~S.exhausted
  PROVE  ThreadsOK(ids, With(rend, r, S))
<1> DEFINE next == With(rend, r, S)
<1>1. rend \in [Renderer -> RendererState] /\ r \in Renderer
  BY DEF ThreadsOK, Alive
<1>2. next \in [Renderer -> RendererState] /\ next[r] = S
      /\ \A q \in Renderer : q # r => next[q] = rend[q]
  BY <1>1, ExceptRenderer
<1>3. \A q : q \in Alive(next) <=>
             q \in Renderer /\ IF q = r THEN ~S.exhausted ELSE q \in Alive(rend)
  BY <1>1, AliveAfter
<1> HIDE DEF next
<1>4. \A q : q \in Alive(next) <=> q \in Alive(rend)
  BY <1>3, <1>1, Zenon DEF Alive
<1>5. \A q \in Alive(rend) : next[q].threadID = rend[q].threadID
  <2>1. \A q \in Alive(rend) : q \in Renderer
    BY DEF Alive
  <2> QED  BY <2>1, <1>2, Zenon
<1>6. ThreadsOK(ids, next)
  <2>1. /\ ids \in Seq(Nat) /\ Len(ids) >= 2
        /\ \A q \in Alive(rend) : rend[q].threadID \in 1 .. Len(ids) - 1
        /\ \A p, q \in Alive(rend) : rend[p].threadID = rend[q].threadID => p = q
    BY DEF ThreadsOK
  <2>2. PICK n \in Nat : \E free \in [1 .. n -> Nat] :
               /\ IsFreeList(ids, free, n)
               /\ \A q \in Alive(rend), k \in 1 .. n : rend[q].threadID # free[k]
    BY DEF ThreadsOK
  <2>3. PICK free \in [1 .. n -> Nat] :
               /\ IsFreeList(ids, free, n)
               /\ \A q \in Alive(rend), k \in 1 .. n : rend[q].threadID # free[k]
    BY <2>2
  <2>4. \A q \in Alive(next), k \in 1 .. n : next[q].threadID # free[k]
    BY <2>3, <1>4, <1>5, Zenon
  <2>5. \A q \in Alive(next) : next[q].threadID \in 1 .. Len(ids) - 1
    BY <2>1, <1>4, <1>5, Zenon
  <2>6. \A p, q \in Alive(next) : next[p].threadID = next[q].threadID => p = q
    BY <2>1, <1>4, <1>5, Zenon
  <2> QED  BY <2>1, <2>3, <2>4, <2>5, <2>6, <1>2, Zenon DEF ThreadsOK
<1> QED  BY <1>6 DEF next

\* The ID of a renderer that is destroyed is the next one that is free.
LEMMA FreesThread ==
  ASSUME NEW ids, NEW rend, ThreadsOK(ids, rend), NEW r \in Alive(rend), NEW S \in RendererState,
         S.exhausted
  PROVE  ThreadsOK(freeThreadID(ids, rend[r].threadID), With(rend, r, S))
<1> DEFINE next == With(rend, r, S)
           id == rend[r].threadID
           new == freeThreadID(ids, id)
<1>1. rend \in [Renderer -> RendererState] /\ r \in Renderer
  BY DEF ThreadsOK, Alive
<1>2. next \in [Renderer -> RendererState] /\ next[r] = S
      /\ \A q \in Renderer : q # r => next[q] = rend[q]
  BY <1>1, ExceptRenderer
<1>3. \A q : q \in Alive(next) <=>
             q \in Renderer /\ IF q = r THEN ~S.exhausted ELSE q \in Alive(rend)
  BY <1>1, AliveAfter
<1> HIDE DEF next
<1>4. \A q : q \in Alive(next) <=> q \in Alive(rend) /\ q # r
  BY <1>3, <1>1, Zenon DEF Alive
<1>5. \A q \in Alive(next) : next[q].threadID = rend[q].threadID
  <2>1. \A q \in Alive(rend) : q \in Renderer
    BY DEF Alive
  <2> QED  BY <2>1, <1>2, <1>4, Zenon
<1>6. /\ ids \in Seq(Nat) /\ Len(ids) >= 2
      /\ \A q \in Alive(rend) : rend[q].threadID \in 1 .. Len(ids) - 1
      /\ \A p, q \in Alive(rend) : rend[p].threadID = rend[q].threadID => p = q
  BY DEF ThreadsOK
<1>7. PICK n \in Nat : \E free \in [1 .. n -> Nat] :
             /\ IsFreeList(ids, free, n)
             /\ \A q \in Alive(rend), k \in 1 .. n : rend[q].threadID # free[k]
  BY DEF ThreadsOK
<1>8. PICK free \in [1 .. n -> Nat] :
             /\ IsFreeList(ids, free, n)
             /\ \A q \in Alive(rend), k \in 1 .. n : rend[q].threadID # free[k]
  BY <1>7
<1>9. /\ free \in [1 .. n -> 1 .. Len(ids) - 1]
      /\ \A j, k \in 1 .. n : free[j] = free[k] => j = k
      /\ ids[1] = IF n = 0 THEN 0 ELSE free[n]
      /\ \A k \in 1 .. n : ids[free[k] + 1] = IF k = 1 THEN 0 ELSE free[k - 1]
  BY <1>8 DEF IsFreeList
<1>10. PICK len \in Nat : len = Len(ids) /\ len >= 2
  BY <1>6
<1>11. id \in 1 .. len - 1
  BY <1>6, <1>10
<1>12. ids[1] \in Nat
  BY <1>6
<1> DEFINE left == [k \in 1 .. n + 1 |-> IF k = n + 1 THEN id ELSE free[k]]
<1>13. /\ new \in Seq(Nat) /\ Len(new) = len /\ new[1] = id /\ new[id + 1] = ids[1]
       /\ \A i \in 2 .. len : i # id + 1 => new[i] = ids[i]
  <2> HIDE DEF id
  <2>1. new = [ids EXCEPT ![id + 1] = ids[1], ![1] = id]
    BY DEF freeThreadID
  <2> HIDE DEF new
  <2>2. id + 1 \in 2 .. len /\ 1 \in 1 .. len /\ id \in Nat
    BY <1>11, <1>10
  <2> QED  BY <2>1, <2>2, <1>6, <1>10, <1>12
<1>14. /\ left \in [1 .. n + 1 -> Nat] /\ left[n + 1] = id
       /\ \A k \in 1 .. n : left[k] = free[k]
  BY <1>8, <1>11
<1> HIDE DEF new, left
<1>15. IsFreeList(new, left, n + 1)
  <2>1. left \in [1 .. n + 1 -> 1 .. Len(new) - 1]
    <3>1. \A k \in 1 .. n + 1 : left[k] \in 1 .. len - 1
      <4> TAKE k \in 1 .. n + 1
      <4>1. CASE k = n + 1
        BY <4>1, <1>11, <1>14
      <4>2. CASE k # n + 1
        <5>1. k \in 1 .. n
          BY <4>2
        <5> QED  BY <5>1, <1>9, <1>10, <1>14
      <4> QED  BY <4>1, <4>2
    <3> QED  BY <3>1, <1>13, <1>14
  <2>2. \A k \in 1 .. n : free[k] # id
    BY <1>8
  <2>3. ASSUME NEW j \in 1 .. n + 1, NEW k \in 1 .. n + 1, left[j] = left[k]
        PROVE  j = k
    <3>1. CASE j \in 1 .. n /\ k \in 1 .. n
      BY <3>1, <1>9, <1>14, <2>3
    <3>2. CASE j = n + 1 /\ k \in 1 .. n
      BY <3>2, <1>14, <2>2, <2>3
    <3>3. CASE j \in 1 .. n /\ k = n + 1
      BY <3>3, <1>14, <2>2, <2>3
    <3> QED  BY <3>1, <3>2, <3>3
  <2>4. new[1] = IF n + 1 = 0 THEN 0 ELSE left[n + 1]
    BY <1>13, <1>14
  <2>5. ASSUME NEW k \in 1 .. n + 1
        PROVE  new[left[k] + 1] = IF k = 1 THEN 0 ELSE left[k - 1]
    <3>1. CASE k = n + 1
      <4>1. new[left[k] + 1] = ids[1]
        BY <3>1, <1>13, <1>14
      <4>2. k # 1 => left[k - 1] = free[n] /\ n # 0
        BY <3>1, <1>14
      <4>3. k = 1 => n = 0
        BY <3>1
      <4> QED  BY <4>1, <4>2, <4>3, <1>9
    <3>2. CASE k \in 1 .. n
      <4>1. free[k] \in 1 .. len - 1 /\ free[k] # id
        BY <3>2, <1>9, <1>10, <2>2
      <4>2. free[k] + 1 \in 2 .. len /\ free[k] + 1 # id + 1
        BY <4>1, <1>10, <1>11
      <4>3. new[free[k] + 1] = ids[free[k] + 1]
        BY <4>2, <1>13
      <4>4. k # 1 => left[k - 1] = free[k - 1]
        BY <3>2, <1>14
      <4> QED  BY <3>2, <4>3, <4>4, <1>9, <1>14
    <3> QED  BY <3>1, <3>2
  <2> QED  BY <2>1, <2>3, <2>4, <2>5 DEF IsFreeList
<1>16. \A q \in Alive(next) : next[q].threadID # id
  BY <1>4, <1>5, <1>6
<1>17. ASSUME NEW q \in Alive(next), NEW k \in 1 .. n + 1
       PROVE  next[q].threadID # left[k]
  <2>1. CASE k = n + 1
    BY <2>1, <1>14, <1>16
  <2>2. CASE k \in 1 .. n
    BY <2>2, <1>4, <1>5, <1>8, <1>14
  <2> QED  BY <2>1, <2>2
<1>18. /\ \A q \in Alive(next) : next[q].threadID \in 1 .. Len(new) - 1
       /\ \A p, q \in Alive(next) : next[p].threadID = next[q].threadID => p = q
  BY <1>4, <1>5, <1>6, <1>10, <1>13
<1>19. n + 1 \in Nat /\ Len(new) >= 2
  BY <1>10, <1>13
<1>20. ThreadsOK(new, next)
  <2>1. \A q \in Alive(next), k \in 1 .. n + 1 : next[q].threadID # left[k]
    BY <1>17, Zenon
  <2>2. \E m \in Nat : \E l \in [1 .. m -> Nat] :
          /\ IsFreeList(new, l, m)
          /\ \A q \in Alive(next), k \in 1 .. m : next[q].threadID # l[k]
    BY <2>1, <1>14, <1>15, <1>19, Zenon
  <2> QED  BY <2>2, <1>2, <1>13, <1>18, <1>19, Zenon DEF ThreadsOK
<1> QED  BY <1>20 DEF new, next

-----------------------------------------------------------------------------
(***************************************************************************)
(* Frames and the entries of the context stack.                            *)
(***************************************************************************)
plain(f) == f.type = Nil \/ Kind[f.type] # "provider"

LEMMA PlainProvides ==
  ASSUME NEW f, plain(f), NEW c
  PROVE  ~provides(f, c)
BY DEF plain, provides

LEMMA NearestSame ==
  ASSUME NEW s, NEW t, NEW n \in Nat, \A i \in 1 .. n : s[i].type = t[i].type, NEW v, NEW c,
         IsNearest(v, s, n, c)
  PROVE  IsNearest(v, t, n, c)
<1>1. \A i \in 1 .. n : provides(s[i], c) <=> provides(t[i], c)
  BY DEF provides
<1>2. CASE v = Default /\ \A i \in 1 .. n : ~provides(s[i], c)
  BY <1>1, <1>2 DEF IsNearest
<1>3. CASE \E i \in 1 .. n : /\ provides(s[i], c) /\ v = ValueOf[s[i].type]
                             /\ \A j \in i + 1 .. n : ~provides(s[j], c)
  <2>1. PICK i \in 1 .. n : /\ provides(s[i], c) /\ v = ValueOf[s[i].type]
                            /\ \A j \in i + 1 .. n : ~provides(s[j], c)
    BY <1>3
  <2>2. \A j \in i + 1 .. n : j \in 1 .. n
    OBVIOUS
  <2>3. provides(t[i], c) /\ v = ValueOf[t[i].type] /\ \A j \in i + 1 .. n : ~provides(t[j], c)
    BY <2>1, <2>2, <1>1
  <2> QED  BY <2>3 DEF IsNearest
<1> QED  BY <1>2, <1>3 DEF IsNearest

LEMMA NearestBeyond ==
  ASSUME NEW s, NEW n \in Nat, NEW v, NEW c, ~provides(s[n + 1], c)
  PROVE  IsNearest(v, s, n, c) <=> IsNearest(v, s, n + 1, c)
<1>0. (\A i \in 1 .. n : i \in 1 .. n + 1) /\ (\A i \in 1 .. n + 1 : i # n + 1 => i \in 1 .. n)
  OBVIOUS
<1>1. (\A i \in 1 .. n : ~provides(s[i], c)) <=> (\A i \in 1 .. n + 1 : ~provides(s[i], c))
  BY <1>0
<1>2. \A i \in 1 .. n : (\A j \in i + 1 .. n : ~provides(s[j], c))
                          <=> (\A j \in i + 1 .. n + 1 : ~provides(s[j], c))
  <2> TAKE i \in 1 .. n
  <2>1. (\A j \in i + 1 .. n : j \in i + 1 .. n + 1)
        /\ (\A j \in i + 1 .. n + 1 : j # n + 1 => j \in i + 1 .. n)
    OBVIOUS
  <2> QED  BY <2>1
<1>3. (\E i \in 1 .. n : /\ provides(s[i], c) /\ v = ValueOf[s[i].type]
                         /\ \A j \in i + 1 .. n : ~provides(s[j], c))
      <=> (\E i \in 1 .. n + 1 : /\ provides(s[i], c) /\ v = ValueOf[s[i].type]
                                 /\ \A j \in i + 1 .. n + 1 : ~provides(s[j], c))
  BY <1>0, <1>2, Zenon
<1> QED  BY <1>1, <1>3, Zenon DEF IsNearest

LEMMA NearestProvider ==
  ASSUME NEW s, NEW n \in Nat \ {0}, NEW c, provides(s[n], c)
  PROVE  IsNearest(ValueOf[s[n].type], s, n, c)
<1>1. n \in 1 .. n /\ \A j \in n + 1 .. n : ~provides(s[j], c)
  OBVIOUS
<1> QED  BY <1>1 DEF IsNearest

\* A frame that is no provider comes on top, or goes.
LEMMA GrowsPlain ==
  ASSUME NEW S \in RendererState, NEW T \in RendererState, T.contextStack = S.contextStack,
         Len(T.stack) \in {Len(S.stack), Len(S.stack) + 1},
         \A i \in 1 .. Len(S.stack) : T.stack[i].type = S.stack[i].type,
         Len(T.stack) # Len(S.stack) => plain(T.stack[Len(T.stack)])
  PROVE  /\ StackMatches(S) => StackMatches(T)
         /\ \A v, c : IsNearest(v, S.stack, Len(S.stack), c) => IsNearest(v, T.stack, Len(T.stack), c)
<1>0. PICK n \in Nat : n = Len(S.stack)
  BY DEF RendererState
<1>1. PICK m \in Nat : m = Len(S.contextStack) /\ m = Len(T.contextStack)
  BY DEF RendererState
<1>2. PICK k \in Nat : k = Len(T.stack) /\ k \in {n, n + 1}
  BY <1>0 DEF RendererState
<1>3. \A v, c, i : i \in 0 .. n /\ IsNearest(v, S.stack, i, c) => IsNearest(v, T.stack, i, c)
  <2> SUFFICES ASSUME NEW v, NEW c, NEW i \in 0 .. n, IsNearest(v, S.stack, i, c)
               PROVE  IsNearest(v, T.stack, i, c)
    BY Zenon
  <2> DEFINE s == S.stack
             t == T.stack
  <2>1. \A j \in 1 .. i : s[j].type = t[j].type
    BY <1>0
  <2>2. IsNearest(v, s, i, c) /\ i \in Nat
    OBVIOUS
  <2> HIDE DEF s, t
  <2>3. IsNearest(v, t, i, c)
    BY <2>1, <2>2, NearestSame
  <2> QED  BY <2>3 DEF t
<1>4. ASSUME NEW v, NEW c, IsNearest(v, S.stack, Len(S.stack), c)
      PROVE  IsNearest(v, T.stack, Len(T.stack), c)
  <2>1. IsNearest(v, T.stack, n, c)
    BY <1>0, <1>3, <1>4
  <2>2. CASE k = n
    BY <2>1, <2>2, <1>2
  <2>3. CASE k = n + 1
    <3>1. ~provides(T.stack[n + 1], c)
      BY <2>3, <1>0, <1>2, PlainProvides
    <3> DEFINE t == T.stack
    <3>2. IsNearest(v, t, n, c) /\ ~provides(t[n + 1], c)
      BY <2>1, <3>1
    <3> HIDE DEF t
    <3>3. IsNearest(v, t, n + 1, c)
      BY <3>2, NearestBeyond
    <3> QED  BY <3>3, <2>3, <1>2 DEF t
  <2> QED  BY <2>2, <2>3, <1>2
<1>5. ASSUME StackMatches(S)
      PROVE  StackMatches(T)
  <2>1. PICK at \in [1 .. m -> 1 .. n] : IsMatch(S, at)
    BY <1>0, <1>1, <1>5 DEF StackMatches
  <2>2. /\ \A j, i \in 1 .. m : j < i => at[j] < at[i]
        /\ \A i \in 1 .. m : /\ provides(S.stack[at[i]], S.contextStack[i].context)
                             /\ IsNearest(S.contextStack[i].previous, S.stack, at[i] - 1,
                                          S.contextStack[i].context)
        /\ \A i \in 1 .. n, c \in Context :
             provides(S.stack[i], c) => \E j \in 1 .. m : at[j] = i
    BY <2>1, <1>0, <1>1 DEF IsMatch
  <2>3. at \in [1 .. m -> 1 .. k]
    <3>1. 1 .. n \subseteq 1 .. k
      BY <1>2
    <3> QED  BY <3>1
  <2>4. ASSUME NEW i \in 1 .. m
        PROVE  /\ provides(T.stack[at[i]], T.contextStack[i].context)
               /\ IsNearest(T.contextStack[i].previous, T.stack, at[i] - 1, T.contextStack[i].context)
    <3>1. at[i] \in 1 .. n /\ at[i] - 1 \in 0 .. n
      OBVIOUS
    <3>2. T.stack[at[i]].type = S.stack[at[i]].type
      BY <3>1, <1>0
    <3>3. provides(T.stack[at[i]], T.contextStack[i].context)
      BY <2>2, <3>2 DEF provides
    <3>4. IsNearest(S.contextStack[i].previous, T.stack, at[i] - 1, S.contextStack[i].context)
      BY <2>2, <3>1, <1>3
    <3> QED  BY <3>3, <3>4
  <2>5. ASSUME NEW i \in 1 .. k, NEW c \in Context, provides(T.stack[i], c)
        PROVE  \E j \in 1 .. m : at[j] = i
    <3>1. CASE i \in 1 .. n
      <4>1. provides(S.stack[i], c)
        BY <3>1, <2>5, <1>0 DEF provides
      <4> QED  BY <4>1, <3>1, <2>2
    <3>2. CASE i \notin 1 .. n
      <4>1. i = Len(T.stack) /\ Len(T.stack) # Len(S.stack)
        BY <3>2, <1>0, <1>2
      <4> QED  BY <4>1, <2>5, PlainProvides
    <3> QED  BY <3>1, <3>2
  <2>6. IsMatch(T, at)
    BY <1>1, <1>2, <2>2, <2>3, <2>4, <2>5 DEF IsMatch
  <2> QED  BY <2>3, <2>6, <1>1, <1>2 DEF StackMatches
<1> QED  BY <1>4, <1>5

LEMMA ShrinksPlain ==
  ASSUME NEW S \in RendererState, NEW T \in RendererState, T.contextStack = S.contextStack,
         Len(S.stack) = Len(T.stack) + 1,
         \A i \in 1 .. Len(T.stack) : T.stack[i].type = S.stack[i].type,
         plain(S.stack[Len(S.stack)])
  PROVE  /\ StackMatches(S) => StackMatches(T)
         /\ \A v, c : IsNearest(v, S.stack, Len(S.stack), c) => IsNearest(v, T.stack, Len(T.stack), c)
<1>0. PICK n \in Nat : n = Len(T.stack) /\ Len(S.stack) = n + 1
  BY DEF RendererState
<1>1. PICK m \in Nat : m = Len(S.contextStack) /\ m = Len(T.contextStack)
  BY DEF RendererState
<1>2. \A c : ~provides(S.stack[n + 1], c)
  BY <1>0, PlainProvides
<1>3. \A v, c, i : i \in 0 .. n /\ IsNearest(v, S.stack, i, c) => IsNearest(v, T.stack, i, c)
  <2> SUFFICES ASSUME NEW v, NEW c, NEW i \in 0 .. n, IsNearest(v, S.stack, i, c)
               PROVE  IsNearest(v, T.stack, i, c)
    BY Zenon
  <2> DEFINE s == S.stack
             t == T.stack
  <2>1. \A j \in 1 .. i : s[j].type = t[j].type
    BY <1>0
  <2>2. IsNearest(v, s, i, c) /\ i \in Nat
    OBVIOUS
  <2> HIDE DEF s, t
  <2>3. IsNearest(v, t, i, c)
    BY <2>1, <2>2, NearestSame
  <2> QED  BY <2>3 DEF t
<1>4. ASSUME NEW v, NEW c, IsNearest(v, S.stack, Len(S.stack), c)
      PROVE  IsNearest(v, T.stack, Len(T.stack), c)
  <2> DEFINE s == S.stack
  <2>1. IsNearest(v, s, n + 1, c) /\ ~provides(s[n + 1], c)
    BY <1>0, <1>2, <1>4
  <2> HIDE DEF s
  <2>2. IsNearest(v, s, n, c)
    BY <2>1, NearestBeyond
  <2> QED  BY <2>2, <1>0, <1>3 DEF s
<1>5. ASSUME StackMatches(S)
      PROVE  StackMatches(T)
  <2>1. PICK at \in [1 .. m -> 1 .. n + 1] : IsMatch(S, at)
    BY <1>0, <1>1, <1>5 DEF StackMatches
  <2>2. /\ \A j, i \in 1 .. m : j < i => at[j] < at[i]
        /\ \A i \in 1 .. m : /\ provides(S.stack[at[i]], S.contextStack[i].context)
                             /\ IsNearest(S.contextStack[i].previous, S.stack, at[i] - 1,
                                          S.contextStack[i].context)
        /\ \A i \in 1 .. n + 1, c \in Context :
             provides(S.stack[i], c) => \E j \in 1 .. m : at[j] = i
    BY <2>1, <1>0, <1>1 DEF IsMatch
  <2>3. at \in [1 .. m -> 1 .. n]
    <3>1. \A i \in 1 .. m : at[i] # n + 1
      BY <2>2, <1>2
    <3>2. \A i \in 1 .. m : at[i] \in 1 .. n
      BY <3>1
    <3> QED  BY <3>2
  <2>4. ASSUME NEW i \in 1 .. m
        PROVE  /\ provides(T.stack[at[i]], T.contextStack[i].context)
               /\ IsNearest(T.contextStack[i].previous, T.stack, at[i] - 1, T.contextStack[i].context)
    <3>1. at[i] \in 1 .. n /\ at[i] - 1 \in 0 .. n
      BY <2>3
    <3>2. T.stack[at[i]].type = S.stack[at[i]].type
      BY <3>1, <1>0
    <3>3. provides(T.stack[at[i]], T.contextStack[i].context)
      BY <2>2, <3>2 DEF provides
    <3>4. IsNearest(S.contextStack[i].previous, T.stack, at[i] - 1, S.contextStack[i].context)
      BY <2>2, <3>1, <1>3
    <3> QED  BY <3>3, <3>4
  <2>5. ASSUME NEW i \in 1 .. n, NEW c \in Context, provides(T.stack[i], c)
        PROVE  \E j \in 1 .. m : at[j] = i
    <3>1. provides(S.stack[i], c)
      BY <2>5, <1>0 DEF provides
    <3>2. i \in 1 .. n + 1
      OBVIOUS
    <3> QED  BY <3>1, <3>2, <2>2, Zenon
  <2>6. IsMatch(T, at)
    <3>1. at \in [1 .. Len(T.contextStack) -> 1 .. Len(T.stack)]
      BY <1>0, <1>1, <2>3
    <3>2. \A j, k \in 1 .. Len(T.contextStack) : j < k => at[j] < at[k]
      BY <1>1, <2>2
    <3>3. ASSUME NEW k \in 1 .. Len(T.contextStack)
          PROVE  /\ provides(T.stack[at[k]], T.contextStack[k].context)
                 /\ IsNearest(T.contextStack[k].previous, T.stack, at[k] - 1, T.contextStack[k].context)
      <4>1. k \in 1 .. m
        BY <1>1
      <4> QED  BY <4>1, <2>4, Zenon
    <3>4. ASSUME NEW i \in 1 .. Len(T.stack), NEW c \in Context, provides(T.stack[i], c)
          PROVE  \E k \in 1 .. Len(T.contextStack) : at[k] = i
      <4>1. i \in 1 .. n
        BY <1>0
      <4>2. \E k \in 1 .. m : at[k] = i
        BY <3>4, <4>1, <2>5
      <4> QED  BY <4>2, <1>1
    <3> QED  BY <3>1, <3>2, <3>3, <3>4, Zenon DEF IsMatch
  <2> QED  BY <2>3, <2>6, <1>0, <1>1 DEF StackMatches
<1> QED  BY <1>4, <1>5

LEMMA ProvidesOne ==
  ASSUME NEW f, NEW c, NEW d, provides(f, c), provides(f, d)
  PROVE  c = d
BY DEF provides

\* A provider comes on top, with an entry.
LEMMA PushesProvider ==
  ASSUME NEW S \in RendererState, NEW T \in RendererState, NEW c \in Context, NEW p,
         T.contextStack = Append(S.contextStack, p), p.context = c,
         Len(T.stack) = Len(S.stack) + 1,
         \A i \in 1 .. Len(S.stack) : T.stack[i].type = S.stack[i].type,
         provides(T.stack[Len(T.stack)], c),
         StackMatches(S), IsNearest(p.previous, S.stack, Len(S.stack), c)
  PROVE  /\ StackMatches(T)
         /\ IsNearest(ValueOf[T.stack[Len(T.stack)].type], T.stack, Len(T.stack), c)
         /\ \A v, d : d # c /\ IsNearest(v, S.stack, Len(S.stack), d) =>
                        IsNearest(v, T.stack, Len(T.stack), d)
<1>0. PICK n \in Nat : n = Len(S.stack) /\ Len(T.stack) = n + 1
  BY DEF RendererState
<1>1. PICK m \in Nat : /\ m = Len(S.contextStack) /\ m + 1 = Len(T.contextStack)
                       /\ T.contextStack[m + 1] = p
                       /\ \A i \in 1 .. m : T.contextStack[i] = S.contextStack[i]
  <2>1. PICK s \in Seq(Entry) : s = S.contextStack
    BY Zenon DEF RendererState
  <2>2. PICK m \in Nat : m = Len(s)
    OBVIOUS
  <2>3. /\ Len(Append(s, p)) = m + 1 /\ Append(s, p)[m + 1] = p
        /\ \A i \in 1 .. m : Append(s, p)[i] = s[i]
    BY <2>2
  <2> QED  BY <2>1, <2>2, <2>3
<1>2. provides(T.stack[n + 1], c)
  BY <1>0
<1>3. \A v, d, i : i \in 0 .. n /\ IsNearest(v, S.stack, i, d) => IsNearest(v, T.stack, i, d)
  <2> SUFFICES ASSUME NEW v, NEW d, NEW i \in 0 .. n, IsNearest(v, S.stack, i, d)
               PROVE  IsNearest(v, T.stack, i, d)
    BY Zenon
  <2> DEFINE s == S.stack
             t == T.stack
  <2>1. \A j \in 1 .. i : s[j].type = t[j].type
    BY <1>0
  <2>2. IsNearest(v, s, i, d) /\ i \in Nat
    OBVIOUS
  <2> HIDE DEF s, t
  <2>3. IsNearest(v, t, i, d)
    BY <2>1, <2>2, NearestSame
  <2> QED  BY <2>3 DEF t
<1>4. IsNearest(ValueOf[T.stack[n + 1].type], T.stack, n + 1, c)
  <2> DEFINE t == T.stack
             k == n + 1
  <2>1. provides(t[k], c) /\ k \in Nat \ {0}
    BY <1>2
  <2> HIDE DEF t, k
  <2>2. IsNearest(ValueOf[t[k].type], t, k, c)
    BY <2>1, NearestProvider
  <2> QED  BY <2>2 DEF t, k
<1>5. ASSUME NEW v, NEW d, d # c, IsNearest(v, S.stack, n, d)
      PROVE  IsNearest(v, T.stack, n + 1, d)
  <2> DEFINE t == T.stack
  <2>1. IsNearest(v, t, n, d)
    BY <1>3, <1>5
  <2>2. ~provides(t[n + 1], d)
    BY <1>2, <1>5, ProvidesOne
  <2> HIDE DEF t
  <2>3. IsNearest(v, t, n + 1, d)
    BY <2>1, <2>2, NearestBeyond
  <2> QED  BY <2>3 DEF t
<1>6. StackMatches(T)
  <2>1. PICK at \in [1 .. m -> 1 .. n] : IsMatch(S, at)
    BY <1>0, <1>1 DEF StackMatches
  <2>2. /\ \A j, i \in 1 .. m : j < i => at[j] < at[i]
        /\ \A i \in 1 .. m : /\ provides(S.stack[at[i]], S.contextStack[i].context)
                             /\ IsNearest(S.contextStack[i].previous, S.stack, at[i] - 1,
                                          S.contextStack[i].context)
        /\ \A i \in 1 .. n, d \in Context :
             provides(S.stack[i], d) => \E j \in 1 .. m : at[j] = i
    BY <2>1, <1>0, <1>1 DEF IsMatch
  <2> DEFINE then == [i \in 1 .. m + 1 |-> IF i = m + 1 THEN n + 1 ELSE at[i]]
  <2>3. /\ then \in [1 .. m + 1 -> 1 .. n + 1] /\ then[m + 1] = n + 1
        /\ \A i \in 1 .. m : then[i] = at[i]
    OBVIOUS
  <2> HIDE DEF then
  <2>4. ASSUME NEW j \in 1 .. m + 1, NEW i \in 1 .. m + 1, j < i
        PROVE  then[j] < then[i]
    <3>1. j \in 1 .. m /\ then[j] = at[j] /\ at[j] \in 1 .. n
      BY <2>3, <2>4
    <3>2. CASE i = m + 1
      BY <3>1, <3>2, <2>3
    <3>3. CASE i \in 1 .. m
      BY <3>1, <3>3, <2>2, <2>3, <2>4
    <3> QED  BY <3>2, <3>3
  <2>5. ASSUME NEW i \in 1 .. m + 1
        PROVE  /\ provides(T.stack[then[i]], T.contextStack[i].context)
               /\ IsNearest(T.contextStack[i].previous, T.stack, then[i] - 1, T.contextStack[i].context)
    <3>1. CASE i = m + 1
      <4>1. then[i] = n + 1 /\ then[i] - 1 = n /\ T.contextStack[i] = p
        BY <3>1, <2>3, <1>1
      <4>2. IsNearest(p.previous, T.stack, n, c)
        BY <1>0, <1>3
      <4> QED  BY <4>1, <4>2, <1>2
    <3>2. CASE i \in 1 .. m
      <4>1. at[i] \in 1 .. n /\ at[i] - 1 \in 0 .. n /\ then[i] = at[i]
        BY <3>2, <2>3
      <4>2. T.stack[at[i]].type = S.stack[at[i]].type /\ T.contextStack[i] = S.contextStack[i]
        BY <4>1, <3>2, <1>0, <1>1
      <4>3. provides(T.stack[at[i]], T.contextStack[i].context)
        BY <2>2, <3>2, <4>2 DEF provides
      <4>4. IsNearest(S.contextStack[i].previous, T.stack, at[i] - 1, S.contextStack[i].context)
        BY <2>2, <3>2, <4>1, <1>3
      <4> QED  BY <4>1, <4>2, <4>3, <4>4
    <3>3. i = m + 1 \/ i \in 1 .. m
      OBVIOUS
    <3> QED  BY <3>1, <3>2, <3>3, Zenon
  <2>6. ASSUME NEW i \in 1 .. n + 1, NEW d \in Context, provides(T.stack[i], d)
        PROVE  \E j \in 1 .. m + 1 : then[j] = i
    <3>1. CASE i = n + 1
      BY <3>1, <2>3
    <3>2. CASE i \in 1 .. n
      <4>1. provides(S.stack[i], d)
        BY <3>2, <2>6, <1>0 DEF provides
      <4>2. PICK j \in 1 .. m : at[j] = i
        BY <4>1, <3>2, <2>2
      <4> QED  BY <4>2, <2>3
    <3> QED  BY <3>1, <3>2
  <2>7. IsMatch(T, then)
    BY <1>0, <1>1, <2>3, <2>4, <2>5, <2>6 DEF IsMatch
  <2> QED  BY <2>3, <2>7, <1>0, <1>1 DEF StackMatches
<1> QED  BY <1>0, <1>4, <1>5, <1>6

\* A provider goes with its entry, which has what the nearest one outside provides.
LEMMA PopsProvider ==
  ASSUME NEW S \in RendererState, NEW T \in RendererState, NEW c \in Context,
         T.contextStack = Front(S.contextStack),
         Len(S.stack) = Len(T.stack) + 1,
         \A i \in 1 .. Len(T.stack) : T.stack[i].type = S.stack[i].type,
         provides(S.stack[Len(S.stack)], c), StackMatches(S)
  PROVE  /\ S.contextStack # <<>> /\ Last(S.contextStack).context = c
         /\ StackMatches(T) /\ IsNearest(Last(S.contextStack).previous, T.stack, Len(T.stack), c)
         /\ \A v, d : d # c /\ IsNearest(v, S.stack, Len(S.stack), d) =>
                        IsNearest(v, T.stack, Len(T.stack), d)
<1>0. PICK n \in Nat : n = Len(T.stack) /\ Len(S.stack) = n + 1
  BY DEF RendererState
<1>1. PICK m \in Nat : m = Len(S.contextStack)
  BY DEF RendererState
<1>2. provides(S.stack[n + 1], c)
  BY <1>0
<1>3. \A v, d, i : i \in 0 .. n /\ IsNearest(v, S.stack, i, d) => IsNearest(v, T.stack, i, d)
  <2> SUFFICES ASSUME NEW v, NEW d, NEW i \in 0 .. n, IsNearest(v, S.stack, i, d)
               PROVE  IsNearest(v, T.stack, i, d)
    BY Zenon
  <2> DEFINE s == S.stack
             t == T.stack
  <2>1. \A j \in 1 .. i : s[j].type = t[j].type
    BY <1>0
  <2>2. IsNearest(v, s, i, d) /\ i \in Nat
    OBVIOUS
  <2> HIDE DEF s, t
  <2>3. IsNearest(v, t, i, d)
    BY <2>1, <2>2, NearestSame
  <2> QED  BY <2>3 DEF t
<1>4. PICK at \in [1 .. m -> 1 .. n + 1] : IsMatch(S, at)
  BY <1>0, <1>1 DEF StackMatches
<1>5. /\ \A j, i \in 1 .. m : j < i => at[j] < at[i]
      /\ \A i \in 1 .. m : /\ provides(S.stack[at[i]], S.contextStack[i].context)
                           /\ IsNearest(S.contextStack[i].previous, S.stack, at[i] - 1,
                                        S.contextStack[i].context)
      /\ \A i \in 1 .. n + 1, d \in Context :
           provides(S.stack[i], d) => \E j \in 1 .. m : at[j] = i
  BY <1>4, <1>0, <1>1 DEF IsMatch
<1>6. m # 0 /\ at[m] = n + 1
  <2>1. PICK j \in 1 .. m : at[j] = n + 1
    BY <1>2, <1>5
  <2>2. m \in 1 .. m /\ at[m] \in 1 .. n + 1
    BY <2>1
  <2>3. j < m => at[j] < at[m]
    BY <2>2, <1>5
  <2> QED  BY <2>1, <2>2, <2>3
<1>7. PICK l \in Nat : l + 1 = m
  BY <1>6
<1>8. /\ S.contextStack # <<>> /\ Last(S.contextStack) = S.contextStack[m]
      /\ Len(T.contextStack) = l /\ \A i \in 1 .. l : T.contextStack[i] = S.contextStack[i]
  BY <1>1, <1>6, <1>7 DEF RendererState, Last, Front
<1>9. /\ S.contextStack[m].context = c
      /\ IsNearest(S.contextStack[m].previous, T.stack, n, c)
  <2>1. m \in 1 .. m
    BY <1>6
  <2>2. S.contextStack[m].context = c
    BY <2>1, <1>2, <1>5, <1>6, ProvidesOne
  <2>3. IsNearest(S.contextStack[m].previous, S.stack, n, c)
    BY <2>1, <2>2, <1>5, <1>6
  <2> QED  BY <2>2, <2>3, <1>3
<1>10. ASSUME NEW v, NEW d, d # c, IsNearest(v, S.stack, n + 1, d)
       PROVE  IsNearest(v, T.stack, n, d)
  <2> DEFINE s == S.stack
  <2>1. IsNearest(v, s, n + 1, d) /\ ~provides(s[n + 1], d)
    BY <1>2, <1>10, ProvidesOne
  <2> HIDE DEF s
  <2>2. IsNearest(v, s, n, d)
    BY <2>1, NearestBeyond
  <2> QED  BY <2>2, <1>3 DEF s
<1>11. StackMatches(T)
  <2> DEFINE then == [i \in 1 .. l |-> at[i]]
  <2>1. ASSUME NEW i \in 1 .. l
        PROVE  at[i] \in 1 .. n
    <3>1. i \in 1 .. m /\ m \in 1 .. m /\ i < m
      BY <1>7
    <3>2. at[i] < at[m] /\ at[i] \in 1 .. n + 1
      BY <3>1, <1>5
    <3> QED  BY <3>2, <1>6
  <2>2. then \in [1 .. l -> 1 .. n] /\ \A i \in 1 .. l : then[i] = at[i] /\ i \in 1 .. m
    BY <2>1, <1>7
  <2> HIDE DEF then
  <2>3. \A j, i \in 1 .. l : j < i => then[j] < then[i]
    BY <2>2, <1>5
  <2>4. ASSUME NEW i \in 1 .. l
        PROVE  /\ provides(T.stack[then[i]], T.contextStack[i].context)
               /\ IsNearest(T.contextStack[i].previous, T.stack, then[i] - 1, T.contextStack[i].context)
    <3>1. at[i] \in 1 .. n /\ at[i] - 1 \in 0 .. n /\ then[i] = at[i] /\ i \in 1 .. m
      BY <2>1, <2>2
    <3>2. T.stack[at[i]].type = S.stack[at[i]].type /\ T.contextStack[i] = S.contextStack[i]
      BY <3>1, <1>0, <1>8
    <3>3. provides(T.stack[at[i]], T.contextStack[i].context)
      BY <1>5, <3>1, <3>2 DEF provides
    <3>4. IsNearest(S.contextStack[i].previous, T.stack, at[i] - 1, S.contextStack[i].context)
      BY <1>5, <3>1, <1>3
    <3> QED  BY <3>1, <3>2, <3>3, <3>4
  <2>5. ASSUME NEW i \in 1 .. n, NEW d \in Context, provides(T.stack[i], d)
        PROVE  \E j \in 1 .. l : then[j] = i
    <3>1. provides(S.stack[i], d)
      BY <2>5, <1>0 DEF provides
    <3>2. PICK j \in 1 .. m : at[j] = i
      BY <3>1, <1>5
    <3>3. j # m
      BY <3>2, <1>6
    <3>4. j \in 1 .. l
      BY <3>3, <1>7
    <3> QED  BY <3>2, <3>4, <2>2
  <2>6. IsMatch(T, then)
    BY <1>0, <1>8, <2>2, <2>3, <2>4, <2>5 DEF IsMatch
  <2> QED  BY <2>2, <2>6, <1>0, <1>8 DEF StackMatches
<1> QED  BY <1>0, <1>8, <1>9, <1>10, <1>11

\* The first entry of a context has the default.
LEMMA ClearsAll ==
  ASSUME NEW S \in RendererState, StackMatches(S), NEW c \in Context
  PROVE  /\ entriesOf(S, c) = {} =>
              \A v : IsNearest(v, S.stack, Len(S.stack), c) => v = Default
         /\ entriesOf(S, c) # {} =>
              /\ Min(entriesOf(S, c)) \in entriesOf(S, c)
              /\ S.contextStack[Min(entriesOf(S, c))].previous = Default
<1>0. PICK n \in Nat : n = Len(S.stack)
  BY DEF RendererState
<1>1. PICK m \in Nat : m = Len(S.contextStack) /\ DOMAIN S.contextStack = 1 .. m
  BY DEF RendererState
<1>2. PICK at \in [1 .. m -> 1 .. n] : IsMatch(S, at)
  BY <1>0, <1>1 DEF StackMatches
<1>3. /\ \A j, i \in 1 .. m : j < i => at[j] < at[i]
      /\ \A i \in 1 .. m : /\ provides(S.stack[at[i]], S.contextStack[i].context)
                           /\ IsNearest(S.contextStack[i].previous, S.stack, at[i] - 1,
                                        S.contextStack[i].context)
      /\ \A i \in 1 .. n, d \in Context :
           provides(S.stack[i], d) => \E j \in 1 .. m : at[j] = i
  BY <1>2, <1>0, <1>1 DEF IsMatch
<1>4. \A i \in 1 .. m : i \in entriesOf(S, c) <=> S.contextStack[i].context = c
  BY <1>1 DEF entriesOf
<1>5. entriesOf(S, c) \subseteq 1 .. m
  BY <1>1 DEF entriesOf
<1>6. ASSUME NEW i \in 1 .. n, provides(S.stack[i], c)
      PROVE  \E k \in entriesOf(S, c) : at[k] = i
  <2>1. PICK k \in 1 .. m : at[k] = i
    BY <1>3, <1>6
  <2>2. S.contextStack[k].context = c
    <3>1. provides(S.stack[i], S.contextStack[k].context)
      BY <2>1, <1>3
    <3> QED  BY <3>1, <1>6, ProvidesOne
  <2> QED  BY <2>1, <2>2, <1>4
<1>7. ASSUME NEW v, NEW i \in 0 .. n, IsNearest(v, S.stack, i, c),
             \A j \in 1 .. i : ~provides(S.stack[j], c)
      PROVE  v = Default
  BY <1>7 DEF IsNearest
<1>8. ASSUME entriesOf(S, c) = {}, NEW v, IsNearest(v, S.stack, Len(S.stack), c)
      PROVE  v = Default
  <2>1. \A i \in 1 .. n : ~provides(S.stack[i], c)
    BY <1>6, <1>8
  <2>2. n \in 0 .. n /\ IsNearest(v, S.stack, n, c)
    BY <1>0, <1>8
  <2> QED  BY <1>7, <2>1, <2>2
<1>9. ASSUME entriesOf(S, c) # {}
      PROVE  /\ Min(entriesOf(S, c)) \in entriesOf(S, c)
             /\ S.contextStack[Min(entriesOf(S, c))].previous = Default
  <2> DEFINE E == entriesOf(S, c)
             k == Min(E)
  <2>1. E \subseteq Nat /\ E # {}
    BY <1>5, <1>9
  <2> HIDE DEF E
  <2>2. k \in E /\ \A y \in E : k <= y
    BY <2>1, MinOfPositions
  <2> HIDE DEF k
  <2>3. k \in 1 .. m /\ S.contextStack[k].context = c
    BY <2>2, <1>4, <1>5 DEF E
  <2>4. at[k] \in 1 .. n /\ at[k] - 1 \in 0 .. n
    BY <2>3
  <2>5. ASSUME NEW j \in 1 .. at[k] - 1
        PROVE  ~provides(S.stack[j], c)
    <3> SUFFICES ASSUME provides(S.stack[j], c)
                 PROVE  FALSE
      OBVIOUS
    <3>1. j \in 1 .. n
      BY <2>4
    <3>2. PICK i \in E : at[i] = j
      BY <3>1, <1>6 DEF E
    <3>3. i \in 1 .. m /\ k <= i
      BY <3>2, <2>2, <1>5 DEF E
    <3>4. k < i => at[k] < at[i]
      BY <3>3, <2>3, <1>3
    <3>5. k = i \/ k < i
      BY <3>3, <2>3
    <3> QED  BY <3>2, <3>4, <3>5, <2>4
  <2>6. IsNearest(S.contextStack[k].previous, S.stack, at[k] - 1, c)
    BY <2>3, <1>3
  <2>7. S.contextStack[k].previous = Default
    BY <2>4, <2>5, <2>6, <1>7
  <2> QED  BY <2>2, <2>7 DEF k, E
<1> QED  BY <1>8, <1>9

-----------------------------------------------------------------------------
(***************************************************************************)
(* The slots of contexts.                                                  *)
(***************************************************************************)
LEMMA EntryTypes ==
  ASSUME NEW S \in RendererState, NEW k \in 1 .. Len(S.contextStack)
  PROVE  S.contextStack[k].context \in Context /\ S.contextStack[k].previous \in Value
<1>1. S.contextStack \in Seq(Entry)
  BY DEF RendererState
<1>2. S.contextStack[k] \in Entry
  BY <1>1
<1> QED  BY <1>2 DEF Entry

\* What a renderer does to its own slots and frames does not touch the others.
LEMMA KeepsSlots ==
  ASSUME NEW ids, NEW rend, NEW val, ThreadsOK(ids, rend), SlotsOK(val, rend),
         NEW r \in Alive(rend), NEW S \in RendererState,
         S.threadID = rend[r].threadID, ~S.exhausted,
         NEW new \in [Context -> Seq(Value)],
         \A c \in Context : Len(new[c]) >= Len(val[c]),
         \A c \in Context, id \in Nat : id # S.threadID => SlotIn(new, c, id) = SlotIn(val, c, id),
         StackMatches(S),
         \A k \in 1 .. Len(S.contextStack) : Len(new[S.contextStack[k].context]) > S.threadID,
         \A c \in Context : IsNearest(SlotIn(new, c, S.threadID), S.stack, Len(S.stack), c)
  PROVE  SlotsOK(new, With(rend, r, S))
<1> DEFINE next == With(rend, r, S)
<1>1. rend \in [Renderer -> RendererState] /\ r \in Renderer
  BY DEF ThreadsOK, Alive
<1>2. next[r] = S /\ \A q \in Renderer : q # r => next[q] = rend[q]
  BY <1>1, ExceptRenderer
<1>3. \A q : q \in Alive(next) <=>
             q \in Renderer /\ IF q = r THEN ~S.exhausted ELSE q \in Alive(rend)
  BY <1>1, AliveAfter
<1> HIDE DEF next
<1>4. \A q : q \in Alive(next) <=> q \in Alive(rend)
  BY <1>3, <1>1, Zenon DEF Alive
<1>5. \A p, q \in Alive(rend) : rend[p].threadID = rend[q].threadID => p = q
  BY DEF ThreadsOK
<1>6. \A q \in Alive(rend) : q \in Renderer
  BY DEF Alive
<1>7. /\ \A q \in Alive(rend) :
           /\ StackMatches(rend[q])
           /\ \A k \in 1 .. Len(rend[q].contextStack) :
                Len(val[rend[q].contextStack[k].context]) > rend[q].threadID
           /\ \A c \in Context :
                IsNearest(SlotIn(val, c, rend[q].threadID), rend[q].stack, Len(rend[q].stack), c)
      /\ \A id \in Nat, c \in Context :
           (\A q \in Alive(rend) : rend[q].threadID # id) => SlotIn(val, c, id) = Default
      /\ val \in [Context -> Seq(Value)]
  BY DEF SlotsOK
<1>8. ASSUME NEW q \in Alive(next)
      PROVE  /\ StackMatches(next[q])
             /\ \A k \in 1 .. Len(next[q].contextStack) :
                  Len(new[next[q].contextStack[k].context]) > next[q].threadID
             /\ \A c \in Context :
                  IsNearest(SlotIn(new, c, next[q].threadID), next[q].stack, Len(next[q].stack), c)
  <2>1. CASE q = r
    BY <2>1, <1>2
  <2>2. CASE q # r
    <3>1. q \in Alive(rend) /\ next[q] = rend[q] /\ q \in Renderer
      BY <2>2, <1>2, <1>4, <1>6
    <3>2. rend[q].threadID \in Nat /\ rend[q].threadID # S.threadID
      <4>1. rend[q] \in RendererState
        BY <3>1, <1>1
      <4>2. rend[q].threadID \in Nat
        BY <4>1 DEF RendererState
      <4> QED  BY <4>2, <3>1, <2>2, <1>5
    <3>3. \A k \in 1 .. Len(rend[q].contextStack) :
            Len(new[rend[q].contextStack[k].context]) > rend[q].threadID
      <4> TAKE k \in 1 .. Len(rend[q].contextStack)
      <4>1. rend[q] \in RendererState
        BY <3>1, <1>1
      <4>2. rend[q].contextStack[k].context \in Context
        BY <4>1, EntryTypes
      <4>3. Len(val[rend[q].contextStack[k].context]) > rend[q].threadID
        BY <3>1, <1>7
      <4> DEFINE d == rend[q].contextStack[k].context
      <4>4. d \in Context /\ Len(val[d]) > rend[q].threadID
        BY <4>2, <4>3
      <4> HIDE DEF d
      <4>5. Len(new[d]) > rend[q].threadID
        <5>1. Len(new[d]) >= Len(val[d]) /\ Len(new[d]) \in Nat /\ Len(val[d]) \in Nat
          BY <4>4, <1>7
        <5> QED  BY <5>1, <4>4, <3>2
      <4> QED  BY <4>5 DEF d
    <3>4. \A c \in Context : SlotIn(new, c, rend[q].threadID) = SlotIn(val, c, rend[q].threadID)
      BY <3>2
    <3> QED  BY <3>1, <3>3, <3>4, <1>7
  <2> QED  BY <2>1, <2>2
<1>9. ASSUME NEW id \in Nat, NEW c \in Context, \A q \in Alive(next) : next[q].threadID # id
      PROVE  SlotIn(new, c, id) = Default
  <2>1. \A q \in Alive(rend) : rend[q].threadID # id
    BY <1>2, <1>4, <1>6, <1>9
  <2> QED  BY <2>1, <1>7
<1>10. SlotsOK(new, next)
  BY <1>8, <1>9 DEF SlotsOK
<1> QED  BY <1>10 DEF next

\* A renderer that is destroyed leaves defaults in its slots.
LEMMA FreesSlots ==
  ASSUME NEW ids, NEW rend, NEW val, ThreadsOK(ids, rend), SlotsOK(val, rend),
         NEW r \in Alive(rend), NEW S \in RendererState, S.exhausted,
         NEW new \in [Context -> Seq(Value)],
         \A c \in Context : Len(new[c]) >= Len(val[c]),
         \A c \in Context, id \in Nat :
           SlotIn(new, c, id) = IF id = rend[r].threadID THEN Default ELSE SlotIn(val, c, id)
  PROVE  SlotsOK(new, With(rend, r, S))
<1> DEFINE next == With(rend, r, S)
<1>1. rend \in [Renderer -> RendererState] /\ r \in Renderer
  BY DEF ThreadsOK, Alive
<1>2. next[r] = S /\ \A q \in Renderer : q # r => next[q] = rend[q]
  BY <1>1, ExceptRenderer
<1>3. \A q : q \in Alive(next) <=>
             q \in Renderer /\ IF q = r THEN ~S.exhausted ELSE q \in Alive(rend)
  BY <1>1, AliveAfter
<1> HIDE DEF next
<1>4. \A q : q \in Alive(next) <=> q \in Alive(rend) /\ q # r
  BY <1>3, <1>1, Zenon DEF Alive
<1>5. \A p, q \in Alive(rend) : rend[p].threadID = rend[q].threadID => p = q
  BY DEF ThreadsOK
<1>6. \A q \in Alive(rend) : q \in Renderer
  BY DEF Alive
<1>7. /\ \A q \in Alive(rend) :
           /\ StackMatches(rend[q])
           /\ \A k \in 1 .. Len(rend[q].contextStack) :
                Len(val[rend[q].contextStack[k].context]) > rend[q].threadID
           /\ \A c \in Context :
                IsNearest(SlotIn(val, c, rend[q].threadID), rend[q].stack, Len(rend[q].stack), c)
      /\ \A id \in Nat, c \in Context :
           (\A q \in Alive(rend) : rend[q].threadID # id) => SlotIn(val, c, id) = Default
      /\ val \in [Context -> Seq(Value)]
  BY DEF SlotsOK
<1>8. ASSUME NEW q \in Alive(next)
      PROVE  /\ StackMatches(next[q])
             /\ \A k \in 1 .. Len(next[q].contextStack) :
                  Len(new[next[q].contextStack[k].context]) > next[q].threadID
             /\ \A c \in Context :
                  IsNearest(SlotIn(new, c, next[q].threadID), next[q].stack, Len(next[q].stack), c)
  <2>1. q \in Alive(rend) /\ next[q] = rend[q] /\ q \in Renderer /\ q # r
    BY <1>2, <1>4, <1>6
  <2>2. rend[q].threadID \in Nat /\ rend[q].threadID # rend[r].threadID
    <3>1. rend[q] \in RendererState
      BY <2>1, <1>1
    <3>2. rend[q].threadID \in Nat
      BY <3>1 DEF RendererState
    <3> QED  BY <3>2, <2>1, <1>5
  <2>3. \A k \in 1 .. Len(rend[q].contextStack) :
          Len(new[rend[q].contextStack[k].context]) > rend[q].threadID
    <3> TAKE k \in 1 .. Len(rend[q].contextStack)
    <3>1. rend[q] \in RendererState
      BY <2>1, <1>1
    <3>2. rend[q].contextStack[k].context \in Context
      BY <3>1, EntryTypes
    <3>3. Len(val[rend[q].contextStack[k].context]) > rend[q].threadID
      BY <2>1, <1>7
    <3> DEFINE d == rend[q].contextStack[k].context
    <3>4. d \in Context /\ Len(val[d]) > rend[q].threadID
      BY <3>2, <3>3
    <3> HIDE DEF d
    <3>5. Len(new[d]) >= Len(val[d]) /\ Len(new[d]) \in Nat /\ Len(val[d]) \in Nat
      BY <3>4, <1>7
    <3>6. Len(new[d]) > rend[q].threadID
      BY <3>4, <3>5, <2>2
    <3> QED  BY <3>6 DEF d
  <2>4. \A c \in Context : SlotIn(new, c, rend[q].threadID) = SlotIn(val, c, rend[q].threadID)
    BY <2>2
  <2> QED  BY <2>1, <2>3, <2>4, <1>7
<1>9. ASSUME NEW id \in Nat, NEW c \in Context, \A q \in Alive(next) : next[q].threadID # id
      PROVE  SlotIn(new, c, id) = Default
  <2>1. CASE id = rend[r].threadID
    BY <2>1
  <2>2. CASE id # rend[r].threadID
    <3>1. \A q \in Alive(rend) : rend[q].threadID # id
      BY <1>2, <1>4, <1>6, <1>9, <2>2
    <3> QED  BY <3>1, <2>2, <1>7
  <2> QED  BY <2>1, <2>2
<1>10. SlotsOK(new, next)
  BY <1>8, <1>9 DEF SlotsOK
<1> QED  BY <1>10 DEF next

\* A new renderer finds defaults.
LEMMA AllocatesSlots ==
  ASSUME NEW ids, NEW rend, NEW val, ThreadsOK(ids, rend), SlotsOK(val, rend),
         NEW r \in Renderer \ Alive(rend), NEW e \in Element, NEW id \in Nat,
         \A q \in Alive(rend) : rend[q].threadID # id
  PROVE  SlotsOK(val, With(rend, r, NewRenderer(id, e)))
<1> DEFINE S == NewRenderer(id, e)
           next == With(rend, r, S)
<1>1. rend \in [Renderer -> RendererState] /\ r \in Renderer /\ r \notin Alive(rend)
  BY DEF ThreadsOK
<1>2. /\ S \in RendererState /\ S.threadID = id /\ ~S.exhausted /\ S.contextStack = <<>>
      /\ Len(S.stack) = 1 /\ S.stack[1].type = Nil
  BY NewRendererType
<1> HIDE DEF S
<1>3. next[r] = S /\ \A q \in Renderer : q # r => next[q] = rend[q]
  BY <1>1, <1>2, ExceptRenderer
<1>4. \A q : q \in Alive(next) <=>
             q \in Renderer /\ IF q = r THEN ~S.exhausted ELSE q \in Alive(rend)
  BY <1>1, <1>2, AliveAfter
<1> HIDE DEF next
<1>5. \A q \in Alive(rend) : q \in Renderer
  BY DEF Alive
<1>6. \A q : q \in Alive(next) <=> q \in Alive(rend) \/ q = r
  BY <1>1, <1>2, <1>4, <1>5, Zenon
<1>7. /\ \A q \in Alive(rend) :
           /\ StackMatches(rend[q])
           /\ \A k \in 1 .. Len(rend[q].contextStack) :
                Len(val[rend[q].contextStack[k].context]) > rend[q].threadID
           /\ \A c \in Context :
                IsNearest(SlotIn(val, c, rend[q].threadID), rend[q].stack, Len(rend[q].stack), c)
      /\ \A i \in Nat, c \in Context :
           (\A q \in Alive(rend) : rend[q].threadID # i) => SlotIn(val, c, i) = Default
      /\ val \in [Context -> Seq(Value)]
  BY DEF SlotsOK
<1>8. \A c : ~provides(S.stack[1], c)
  BY <1>2 DEF provides
<1>9. /\ StackMatches(S)
      /\ \A k \in 1 .. Len(S.contextStack) : Len(val[S.contextStack[k].context]) > S.threadID
      /\ \A c \in Context : IsNearest(SlotIn(val, c, S.threadID), S.stack, Len(S.stack), c)
  <2>1. Len(S.contextStack) = 0
    BY <1>2
  <2> DEFINE at == [k \in 1 .. 0 |-> 1]
  <2>2. at \in [1 .. 0 -> 1 .. 1]
    OBVIOUS
  <2> HIDE DEF at
  <2>3. \A i \in 1 .. Len(S.stack), c \in Context : ~provides(S.stack[i], c)
    BY <1>2, <1>8
  <2>4. IsMatch(S, at)
    BY <2>1, <2>2, <2>3, <1>2 DEF IsMatch
  <2>5. StackMatches(S)
    BY <2>1, <2>2, <2>4, <1>2 DEF StackMatches
  <2>6. \A c \in Context : SlotIn(val, c, id) = Default
    BY <1>7
  <2>7. \A c \in Context : IsNearest(SlotIn(val, c, S.threadID), S.stack, Len(S.stack), c)
    BY <2>3, <2>6, <1>2 DEF IsNearest
  <2> QED  BY <2>1, <2>5, <2>7
<1>10. ASSUME NEW q \in Alive(next)
       PROVE  /\ StackMatches(next[q])
              /\ \A k \in 1 .. Len(next[q].contextStack) :
                   Len(val[next[q].contextStack[k].context]) > next[q].threadID
              /\ \A c \in Context :
                   IsNearest(SlotIn(val, c, next[q].threadID), next[q].stack, Len(next[q].stack), c)
  <2>1. CASE q = r
    BY <2>1, <1>3, <1>9
  <2>2. CASE q # r
    <3>1. q \in Alive(rend) /\ next[q] = rend[q]
      BY <2>2, <1>3, <1>5, <1>6
    <3> QED  BY <3>1, <1>7
  <2> QED  BY <2>1, <2>2
<1>11. ASSUME NEW i \in Nat, NEW c \in Context, \A q \in Alive(next) : next[q].threadID # i
       PROVE  SlotIn(val, c, i) = Default
  <2>1. \A q \in Alive(rend) : rend[q].threadID # i
    BY <1>1, <1>3, <1>5, <1>6, <1>11
  <2> QED  BY <2>1, <1>7
<1>12. SlotsOK(val, next)
  BY <1>7, <1>10, <1>11 DEF SlotsOK
<1> QED  BY <1>12 DEF next, S

\* The slots after one of them is set.
WithSlot(val, c, id, v) == [val EXCEPT ![c][id + 1] = v]

LEMMA SetsSlot ==
  ASSUME NEW val \in [Context -> Seq(Value)], NEW c \in Context, NEW id \in Nat,
         Len(val[c]) > id, NEW v \in Value
  PROVE  /\ WithSlot(val, c, id, v) \in [Context -> Seq(Value)]
         /\ \A d \in Context : Len(WithSlot(val, c, id, v)[d]) = Len(val[d])
         /\ SlotIn(WithSlot(val, c, id, v), c, id) = v
         /\ \A d \in Context, i \in Nat :
              d # c \/ i # id => SlotIn(WithSlot(val, c, id, v), d, i) = SlotIn(val, d, i)
<1>0. PICK new : new = WithSlot(val, c, id, v)
  OBVIOUS
<1>1. PICK s \in Seq(Value) : s = val[c]
  OBVIOUS
<1> DEFINE t == [s EXCEPT ![id + 1] = v]
<1>2. /\ t \in Seq(Value) /\ Len(t) = Len(s) /\ t[id + 1] = v
      /\ \A i \in 1 .. Len(s) : i # id + 1 => t[i] = s[i]
  BY <1>1
<1> HIDE DEF t
<1>3. new = [val EXCEPT ![c] = t]
  BY <1>0, <1>1 DEF t, WithSlot
<1>4. /\ new \in [Context -> Seq(Value)] /\ new[c] = t
      /\ \A d \in Context : d # c => new[d] = val[d]
  BY <1>2, <1>3
<1>5. SlotIn(new, c, id) = v
  BY <1>1, <1>2, <1>4 DEF SlotIn
<1>6. ASSUME NEW i \in Nat, i # id
      PROVE  SlotIn(new, c, i) = SlotIn(val, c, i)
  <2>1. Len(s) > i => i + 1 \in 1 .. Len(s) /\ i + 1 # id + 1
    BY <1>6
  <2> QED  BY <2>1, <1>1, <1>2, <1>4 DEF SlotIn
<1>7. \A d \in Context, i \in Nat : d # c => SlotIn(new, d, i) = SlotIn(val, d, i)
  BY <1>4 DEF SlotIn
<1>8. \A d \in Context : Len(new[d]) = Len(val[d])
  BY <1>1, <1>2, <1>4
<1> QED  BY <1>0, <1>4, <1>5, <1>6, <1>7, <1>8

\* The slots are extended, and hold what they held.
Validated(c, id) == [value EXCEPT ![c] = validateContextBounds(c, id)]

LEMMA ValidatesBounds ==
  ASSUME value \in [Context -> Seq(Value)], NEW c \in Context, NEW id \in Nat
  PROVE  /\ Validated(c, id) \in [Context -> Seq(Value)] /\ Len(Validated(c, id)[c]) > id
         /\ Validated(c, id)[c] = validateContextBounds(c, id)
         /\ \A d \in Context : Len(Validated(c, id)[d]) >= Len(value[d])
         /\ \A d \in Context, i \in Nat : SlotIn(Validated(c, id), d, i) = SlotIn(value, d, i)
<1>0. PICK new : new = Validated(c, id)
  OBVIOUS
<1>1. PICK s \in Seq(Value) : s = value[c]
  OBVIOUS
<1>2. PICK n \in Nat : n = Len(s)
  OBVIOUS
<1> DEFINE t == validateContextBounds(c, id)
<1>3. /\ t \in Seq(Value) /\ Len(t) > id /\ Len(t) >= n
      /\ \A i \in 1 .. Len(t) : t[i] = IF i <= n THEN s[i] ELSE Default
  <2>1. CASE n > id
    <3>1. t = s
      BY <2>1, <1>1, <1>2 DEF validateContextBounds
    <3> QED  BY <3>1, <2>1, <1>2
  <2>2. CASE ~(n > id)
    <3> DEFINE m == id + 1 - n
               x == [i \in 1 .. m |-> Default]
    <3>1. t = s \o x
      BY <2>2, <1>1, <1>2 DEF validateContextBounds
    <3>2. m \in Nat /\ n + m = id + 1
      BY <2>2
    <3>3. Default \in Value
      BY DEF Value
    <3>4. x \in Seq(Value) /\ Len(x) = m /\ \A i \in 1 .. m : x[i] = Default
      BY <3>2, <3>3
    <3> HIDE DEF t, x, m
    <3>5. /\ t \in Seq(Value) /\ Len(t) = n + m
          /\ \A i \in 1 .. n + m : t[i] = IF i <= n THEN s[i] ELSE x[i - n]
      BY <3>1, <3>2, <3>4, <1>2
    <3>6. ASSUME NEW i \in 1 .. n + m
          PROVE  t[i] = IF i <= n THEN s[i] ELSE Default
      <4>1. ~(i <= n) => i - n \in 1 .. m
        BY <3>2
      <4> QED  BY <4>1, <3>4, <3>5
    <3> QED  BY <3>2, <3>5, <3>6
  <2> QED  BY <2>1, <2>2
<1> HIDE DEF t
<1>4. /\ new \in [Context -> Seq(Value)] /\ new[c] = t
      /\ \A d \in Context : d # c => new[d] = value[d]
  BY <1>0, <1>3 DEF t, Validated
<1>5. \A d \in Context : Len(new[d]) >= Len(value[d])
  <2> TAKE d \in Context
  <2>1. value[d] \in Seq(Value) /\ Len(value[d]) \in Nat
    OBVIOUS
  <2>2. CASE d = c
    BY <2>1, <2>2, <1>1, <1>2, <1>3, <1>4
  <2>3. CASE d # c
    <3>1. new[d] = value[d]
      BY <2>3, <1>4
    <3> QED  BY <3>1, <2>1
  <2> QED  BY <2>2, <2>3
<1>6. ASSUME NEW i \in Nat
      PROVE  SlotIn(new, c, i) = SlotIn(value, c, i)
  <2>1. SlotIn(new, c, i) = IF Len(t) > i THEN t[i + 1] ELSE Default
    BY <1>4 DEF SlotIn
  <2>2. SlotIn(value, c, i) = IF n > i THEN s[i + 1] ELSE Default
    BY <1>1, <1>2 DEF SlotIn
  <2>3. Len(t) > i => t[i + 1] = IF i + 1 <= n THEN s[i + 1] ELSE Default
    BY <1>3
  <2> QED  BY <2>1, <2>2, <2>3, <1>3
<1>7. \A d \in Context, i \in Nat : d # c => SlotIn(new, d, i) = SlotIn(value, d, i)
  BY <1>4 DEF SlotIn
<1> QED  BY <1>0, <1>3, <1>4, <1>5, <1>6, <1>7 DEF t

\* What clearProviders leaves.
LEMMA ClearsProviders ==
  ASSUME ThreadsOK(nextAvailableThreadIDs, renderer), SlotsOK(value, renderer),
         NEW r \in Alive(renderer), NEW new, new = clearProviders(renderer[r])
  PROVE  /\ new \in [Context -> Seq(Value)]
         /\ \A c \in Context : Len(new[c]) >= Len(value[c])
         /\ \A c \in Context, id \in Nat :
              SlotIn(new, c, id) = IF id = renderer[r].threadID THEN Default ELSE SlotIn(value, c, id)
<1>1. renderer[r] \in RendererState
  BY DEF ThreadsOK, Alive
<1>2. PICK S \in RendererState : S = renderer[r]
  BY <1>1
<1>3. PICK id \in Nat : id = S.threadID
  BY DEF RendererState
<1>4. /\ value \in [Context -> Seq(Value)] /\ StackMatches(S)
      /\ \A k \in 1 .. Len(S.contextStack) : Len(value[S.contextStack[k].context]) > id
      /\ \A c \in Context : IsNearest(SlotIn(value, c, id), S.stack, Len(S.stack), c)
  BY <1>2, <1>3 DEF SlotsOK
<1>5. new = [c \in Context |->
               IF entriesOf(S, c) = {} THEN value[c]
               ELSE [value[c] EXCEPT ![id + 1] = S.contextStack[Min(entriesOf(S, c))].previous]]
  BY <1>2, <1>3 DEF clearProviders
<1>6. ASSUME NEW c \in Context
      PROVE  /\ new[c] \in Seq(Value) /\ Len(new[c]) = Len(value[c])
             /\ \A i \in Nat : SlotIn(new, c, i) = IF i = id THEN Default ELSE SlotIn(value, c, i)
  <2>1. CASE entriesOf(S, c) = {}
    <3>1. new[c] = value[c]
      BY <2>1, <1>5
    <3>2. SlotIn(value, c, id) = Default
      BY <2>1, <1>4, ClearsAll
    <3> QED  BY <3>1, <3>2, <1>4 DEF SlotIn
  <2>2. CASE entriesOf(S, c) # {}
    <3> DEFINE k == Min(entriesOf(S, c))
    <3>1. k \in entriesOf(S, c) /\ S.contextStack[k].previous = Default
      BY <2>2, <1>4, ClearsAll
    <3>2. k \in DOMAIN S.contextStack /\ S.contextStack[k].context = c
      BY <3>1 DEF entriesOf
    <3>3. k \in 1 .. Len(S.contextStack)
      BY <3>2 DEF RendererState
    <3>4. Len(value[c]) > id
      BY <3>2, <3>3, <1>4
    <3>5. new[c] = [value[c] EXCEPT ![id + 1] = Default]
      BY <2>2, <3>1, <1>5
    <3>10. PICK other : other = WithSlot(value, c, id, Default)
      OBVIOUS
    <3>6. other[c] = new[c]
      BY <3>5, <3>10, <1>4 DEF WithSlot
    <3>7. Default \in Value
      BY DEF Value
    <3>8. /\ other \in [Context -> Seq(Value)] /\ Len(other[c]) = Len(value[c])
          /\ SlotIn(other, c, id) = Default
          /\ \A i \in Nat : i # id => SlotIn(other, c, i) = SlotIn(value, c, i)
      <4>1. value \in [Context -> Seq(Value)]
        BY <1>4
      <4>2. other \in [Context -> Seq(Value)]
        BY <4>1, <3>4, <3>7, <3>10, SetsSlot
      <4>3. \A d \in Context : Len(other[d]) = Len(value[d])
        BY <4>1, <3>4, <3>7, <3>10, SetsSlot
      <4>4. SlotIn(other, c, id) = Default
        BY <4>1, <3>4, <3>7, <3>10, SetsSlot
      <4>5. \A d \in Context, i \in Nat :
              d # c \/ i # id => SlotIn(other, d, i) = SlotIn(value, d, i)
        BY <4>1, <3>4, <3>7, <3>10, SetsSlot
      <4> QED  BY <4>2, <4>3, <4>4, <4>5
    <3>9. \A i : SlotIn(other, c, i) = SlotIn(new, c, i)
      BY <3>6 DEF SlotIn
    <3> QED  BY <3>6, <3>8, <3>9
  <2> QED  BY <2>1, <2>2
<1>7. new \in [Context -> Seq(Value)]
  BY <1>5, <1>6
<1>8. \A c \in Context : Len(new[c]) >= Len(value[c])
  BY <1>4, <1>6
<1> QED  BY <1>2, <1>3, <1>6, <1>7, <1>8

-----------------------------------------------------------------------------
(***************************************************************************)
(* Steps of a renderer, as far as the allocator, the slots and its frames  *)
(* are concerned.                                                          *)
(***************************************************************************)
\* The context stack reaches as far as before, wherever slots were extended.
LEMMA BoundsStay ==
  ASSUME NEW val \in [Context -> Seq(Value)], NEW new \in [Context -> Seq(Value)],
         \A c \in Context : Len(new[c]) >= Len(val[c]), NEW S \in RendererState, NEW id \in Nat,
         \A k \in 1 .. Len(S.contextStack) : Len(val[S.contextStack[k].context]) > id
  PROVE  \A k \in 1 .. Len(S.contextStack) : Len(new[S.contextStack[k].context]) > id
<1> TAKE k \in 1 .. Len(S.contextStack)
<1>1. PICK d \in Context : d = S.contextStack[k].context
  BY EntryTypes
<1>2. Len(new[d]) >= Len(val[d]) /\ Len(new[d]) \in Nat /\ Len(val[d]) \in Nat /\ Len(val[d]) > id
  BY <1>1
<1> QED  BY <1>1, <1>2

\* Slots other than those of the thread are kept; those of the renderer fit its frames.
Keeps(val, new, id) ==
  /\ new \in [Context -> Seq(Value)]
  /\ \A c \in Context : Len(new[c]) >= Len(val[c])
  /\ \A c \in Context, i \in Nat : i # id => SlotIn(new, c, i) = SlotIn(val, c, i)

Fits(val, S) ==
  /\ StackMatches(S)
  /\ \A k \in 1 .. Len(S.contextStack) : Len(val[S.contextStack[k].context]) > S.threadID
  /\ \A c \in Context : IsNearest(SlotIn(val, c, S.threadID), S.stack, Len(S.stack), c)

LEMMA KeepsCore ==
  ASSUME NEW ids, NEW rend, NEW val, Core(ids, val, rend), NEW r \in Alive(rend),
         NEW S \in RendererState, S.threadID = rend[r].threadID, ~S.exhausted,
         NEW new, Keeps(val, new, S.threadID), Fits(new, S)
  PROVE  Core(ids, new, With(rend, r, S))
<1>1. ThreadsOK(ids, rend) /\ SlotsOK(val, rend)
  BY DEF Core
<1>2. SlotsOK(new, With(rend, r, S))
  BY <1>1, KeepsSlots DEF Keeps, Fits
<1>3. ThreadsOK(ids, With(rend, r, S))
  BY <1>1, KeepsThreads
<1> QED  BY <1>2, <1>3 DEF Core

LEMMA GrowsCore ==
  ASSUME NEW ids, NEW rend, NEW val, Core(ids, val, rend), NEW r \in Alive(rend),
         NEW S \in RendererState, S.threadID = rend[r].threadID, ~S.exhausted,
         S.contextStack = rend[r].contextStack,
         Len(S.stack) \in {Len(rend[r].stack), Len(rend[r].stack) + 1},
         \A i \in 1 .. Len(rend[r].stack) : S.stack[i].type = rend[r].stack[i].type,
         Len(S.stack) # Len(rend[r].stack) => plain(S.stack[Len(S.stack)]),
         NEW new \in [Context -> Seq(Value)],
         \A c \in Context : Len(new[c]) >= Len(val[c]),
         \A c \in Context, id \in Nat : SlotIn(new, c, id) = SlotIn(val, c, id)
  PROVE  Core(ids, new, With(rend, r, S))
<1>1. ThreadsOK(ids, rend) /\ SlotsOK(val, rend)
  BY DEF Core
<1>2. PICK O \in RendererState : O = rend[r]
  BY <1>1 DEF ThreadsOK, Alive
<1>3. /\ val \in [Context -> Seq(Value)] /\ StackMatches(O)
      /\ \A k \in 1 .. Len(O.contextStack) : Len(val[O.contextStack[k].context]) > O.threadID
      /\ \A c \in Context : IsNearest(SlotIn(val, c, O.threadID), O.stack, Len(O.stack), c)
  BY <1>1, <1>2 DEF SlotsOK
<1>4. /\ StackMatches(O) => StackMatches(S)
      /\ \A v, c : IsNearest(v, O.stack, Len(O.stack), c) => IsNearest(v, S.stack, Len(S.stack), c)
  BY <1>2, GrowsPlain
<1>5. S.threadID \in Nat /\ O.threadID \in Nat
  BY DEF RendererState
<1>6. \A c \in Context : IsNearest(SlotIn(new, c, S.threadID), S.stack, Len(S.stack), c)
  BY <1>2, <1>3, <1>4, <1>5
<1>7. \A k \in 1 .. Len(S.contextStack) : Len(new[S.contextStack[k].context]) > S.threadID
  BY <1>2, <1>3, <1>5, BoundsStay
<1>8. \A c \in Context, id \in Nat : id # S.threadID => SlotIn(new, c, id) = SlotIn(val, c, id)
  OBVIOUS
<1>9. SlotsOK(new, With(rend, r, S))
  BY <1>1, <1>3, <1>4, <1>6, <1>7, <1>8, KeepsSlots
<1>10. ThreadsOK(ids, With(rend, r, S))
  BY <1>1, KeepsThreads
<1> QED  BY <1>9, <1>10 DEF Core

\* A frame comes on top that is no provider, or none.
LEMMA AddsCore ==
  ASSUME NEW ids, NEW rend, NEW val, Core(ids, val, rend), NEW r \in Alive(rend),
         NEW S \in RendererState, S.threadID = rend[r].threadID, ~S.exhausted,
         S.contextStack = rend[r].contextStack,
         Len(S.stack) = Len(rend[r].stack) + 1,
         \A i \in 1 .. Len(rend[r].stack) : S.stack[i].type = rend[r].stack[i].type,
         plain(S.stack[Len(S.stack)])
  PROVE  Core(ids, val, With(rend, r, S))
<1>1. val \in [Context -> Seq(Value)]
  BY DEF Core, SlotsOK
<1>2. \A c \in Context : Len(val[c]) >= Len(val[c])
  <2> TAKE c \in Context
  <2>1. Len(val[c]) \in Nat
    BY <1>1
  <2> QED  BY <2>1
<1> QED  BY <1>1, <1>2, GrowsCore

LEMMA RetypesCore ==
  ASSUME NEW ids, NEW rend, NEW val, Core(ids, val, rend), NEW r \in Alive(rend),
         NEW S \in RendererState, S.threadID = rend[r].threadID, ~S.exhausted,
         S.contextStack = rend[r].contextStack, Len(S.stack) = Len(rend[r].stack),
         \A i \in 1 .. Len(rend[r].stack) : S.stack[i].type = rend[r].stack[i].type
  PROVE  Core(ids, val, With(rend, r, S))
<1>1. val \in [Context -> Seq(Value)]
  BY DEF Core, SlotsOK
<1>2. \A c \in Context : Len(val[c]) >= Len(val[c])
  <2> TAKE c \in Context
  <2>1. Len(val[c]) \in Nat
    BY <1>1
  <2> QED  BY <2>1
<1> QED  BY <1>1, <1>2, GrowsCore

LEMMA ShrinksCore ==
  ASSUME NEW ids, NEW rend, NEW val, Core(ids, val, rend), NEW r \in Alive(rend),
         NEW S \in RendererState, S.threadID = rend[r].threadID, ~S.exhausted,
         S.contextStack = rend[r].contextStack,
         Len(rend[r].stack) = Len(S.stack) + 1,
         \A i \in 1 .. Len(S.stack) : S.stack[i].type = rend[r].stack[i].type,
         plain(rend[r].stack[Len(rend[r].stack)])
  PROVE  Core(ids, val, With(rend, r, S))
<1>1. ThreadsOK(ids, rend) /\ SlotsOK(val, rend)
  BY DEF Core
<1>2. PICK O \in RendererState : O = rend[r]
  BY <1>1 DEF ThreadsOK, Alive
<1>3. /\ val \in [Context -> Seq(Value)] /\ StackMatches(O)
      /\ \A k \in 1 .. Len(O.contextStack) : Len(val[O.contextStack[k].context]) > O.threadID
      /\ \A c \in Context : IsNearest(SlotIn(val, c, O.threadID), O.stack, Len(O.stack), c)
  BY <1>1, <1>2 DEF SlotsOK
<1>4. /\ StackMatches(O) => StackMatches(S)
      /\ \A v, c : IsNearest(v, O.stack, Len(O.stack), c) => IsNearest(v, S.stack, Len(S.stack), c)
  BY <1>2, ShrinksPlain
<1>5. \A c \in Context : IsNearest(SlotIn(val, c, S.threadID), S.stack, Len(S.stack), c)
  BY <1>2, <1>3, <1>4
<1>6. \A k \in 1 .. Len(S.contextStack) : Len(val[S.contextStack[k].context]) > S.threadID
  BY <1>2, <1>3
<1>7. \A c \in Context : Len(val[c]) >= Len(val[c])
  BY <1>3
<1>8. SlotsOK(val, With(rend, r, S))
  BY <1>1, <1>3, <1>4, <1>5, <1>6, <1>7, KeepsSlots
<1>9. ThreadsOK(ids, With(rend, r, S))
  BY <1>1, KeepsThreads
<1> QED  BY <1>8, <1>9 DEF Core

\* Provider e of context c comes on top of the frames, and its value into the slot.
LEMMA PushesCore ==
  ASSUME NEW ids, NEW rend, NEW val, Core(ids, val, rend), NEW r \in Alive(rend),
         NEW S \in RendererState, S.threadID = rend[r].threadID, ~S.exhausted,
         NEW c \in Context, NEW e \in Element, NEW p,
         S.contextStack = Append(rend[r].contextStack, p), p.context = c,
         p.previous = SlotIn(val, c, rend[r].threadID),
         Len(S.stack) = Len(rend[r].stack) + 1,
         \A i \in 1 .. Len(rend[r].stack) : S.stack[i].type = rend[r].stack[i].type,
         S.stack[Len(S.stack)].type = e, provides(S.stack[Len(S.stack)], c),
         NEW new \in [Context -> Seq(Value)],
         \A d \in Context : Len(new[d]) >= Len(val[d]),
         Len(new[c]) > rend[r].threadID,
         SlotIn(new, c, rend[r].threadID) = ValueOf[e],
         \A d \in Context, id \in Nat :
           d # c \/ id # rend[r].threadID => SlotIn(new, d, id) = SlotIn(val, d, id)
  PROVE  Core(ids, new, With(rend, r, S))
<1>1. ThreadsOK(ids, rend) /\ SlotsOK(val, rend)
  BY DEF Core
<1>2. PICK O \in RendererState : O = rend[r]
  BY <1>1 DEF ThreadsOK, Alive
<1>3. /\ val \in [Context -> Seq(Value)] /\ StackMatches(O)
      /\ \A k \in 1 .. Len(O.contextStack) : Len(val[O.contextStack[k].context]) > O.threadID
      /\ \A d \in Context : IsNearest(SlotIn(val, d, O.threadID), O.stack, Len(O.stack), d)
  BY <1>1, <1>2 DEF SlotsOK
<1>4. IsNearest(p.previous, O.stack, Len(O.stack), c)
  BY <1>2, <1>3
<1>5. /\ StackMatches(S)
      /\ IsNearest(ValueOf[S.stack[Len(S.stack)].type], S.stack, Len(S.stack), c)
      /\ \A v, d : d # c /\ IsNearest(v, O.stack, Len(O.stack), d) =>
                     IsNearest(v, S.stack, Len(S.stack), d)
  BY <1>2, <1>3, <1>4, PushesProvider
<1>6. S.threadID \in Nat /\ O.threadID \in Nat
  BY DEF RendererState
<1>7. ASSUME NEW d \in Context
      PROVE  IsNearest(SlotIn(new, d, S.threadID), S.stack, Len(S.stack), d)
  <2>1. CASE d = c
    BY <2>1, <1>2, <1>5
  <2>2. CASE d # c
    <3>1. SlotIn(new, d, S.threadID) = SlotIn(val, d, O.threadID)
      BY <2>2, <1>2, <1>6
    <3> QED  BY <3>1, <2>2, <1>3, <1>5
  <2> QED  BY <2>1, <2>2
<1>8. ASSUME NEW k \in 1 .. Len(S.contextStack)
      PROVE  Len(new[S.contextStack[k].context]) > S.threadID
  <2>1. PICK m \in Nat : m = Len(O.contextStack) /\ O.contextStack \in Seq(Entry)
    BY DEF RendererState
  <2>2. /\ Len(S.contextStack) = m + 1 /\ S.contextStack[m + 1] = p
        /\ \A i \in 1 .. m : S.contextStack[i] = O.contextStack[i]
    BY <2>1, <1>2
  <2>3. \A i \in 1 .. Len(O.contextStack) : Len(new[O.contextStack[i].context]) > O.threadID
    BY <1>3, <1>6, BoundsStay
  <2>4. CASE k = m + 1
    BY <2>2, <2>4, <1>2
  <2>5. CASE k \in 1 .. m
    BY <2>1, <2>2, <2>3, <2>5, <1>2
  <2> QED  BY <2>2, <2>4, <2>5
<1>9. \A d \in Context, id \in Nat : id # S.threadID => SlotIn(new, d, id) = SlotIn(val, d, id)
  OBVIOUS
<1>10. Keeps(val, new, S.threadID) /\ Fits(new, S)
  BY <1>5, <1>7, <1>8, <1>9 DEF Keeps, Fits
<1> QED  BY <1>10, KeepsCore, Zenon

\* A provider goes, and the slot gets the value that its entry has kept.
LEMMA PopsCore ==
  ASSUME NEW ids, NEW rend, NEW val, Core(ids, val, rend), NEW r \in Alive(rend),
         NEW S \in RendererState, S.threadID = rend[r].threadID, ~S.exhausted,
         NEW c \in Context,
         S.contextStack = Front(rend[r].contextStack),
         Len(rend[r].stack) = Len(S.stack) + 1,
         \A i \in 1 .. Len(S.stack) : S.stack[i].type = rend[r].stack[i].type,
         provides(rend[r].stack[Len(rend[r].stack)], c)
  PROVE  /\ rend[r].contextStack # <<>> /\ Last(rend[r].contextStack).context = c
         /\ Core(ids, WithSlot(val, c, rend[r].threadID, Last(rend[r].contextStack).previous),
                 With(rend, r, S))
<1>1. ThreadsOK(ids, rend) /\ SlotsOK(val, rend)
  BY DEF Core
<1>2. PICK O \in RendererState : O = rend[r]
  BY <1>1 DEF ThreadsOK, Alive
<1>3. /\ val \in [Context -> Seq(Value)] /\ StackMatches(O)
      /\ \A k \in 1 .. Len(O.contextStack) : Len(val[O.contextStack[k].context]) > O.threadID
      /\ \A d \in Context : IsNearest(SlotIn(val, d, O.threadID), O.stack, Len(O.stack), d)
  BY <1>1, <1>2 DEF SlotsOK
<1>4. /\ O.contextStack # <<>> /\ Last(O.contextStack).context = c
      /\ StackMatches(S) /\ IsNearest(Last(O.contextStack).previous, S.stack, Len(S.stack), c)
      /\ \A v, d : d # c /\ IsNearest(v, O.stack, Len(O.stack), d) =>
                     IsNearest(v, S.stack, Len(S.stack), d)
  <2>1. /\ S.contextStack = Front(O.contextStack) /\ Len(O.stack) = Len(S.stack) + 1
        /\ \A i \in 1 .. Len(S.stack) : S.stack[i].type = O.stack[i].type
        /\ provides(O.stack[Len(O.stack)], c)
    BY <1>2
  <2>2. StackMatches(O)
    BY <1>3
  <2>3. O.contextStack # <<>> /\ Last(O.contextStack).context = c
    BY <2>1, <2>2, PopsProvider
  <2>4. StackMatches(S) /\ IsNearest(Last(O.contextStack).previous, S.stack, Len(S.stack), c)
    BY <2>1, <2>2, PopsProvider
  <2>5. \A v, d : d # c /\ IsNearest(v, O.stack, Len(O.stack), d) =>
                     IsNearest(v, S.stack, Len(S.stack), d)
    BY <2>1, <2>2, PopsProvider
  <2> QED  BY <2>3, <2>4, <2>5
<1>5. PICK id \in Nat : id = O.threadID /\ id = S.threadID
  BY <1>2 DEF RendererState
<1>6. PICK m \in Nat : m = Len(O.contextStack) /\ m # 0 /\ O.contextStack \in Seq(Entry)
  BY <1>4 DEF RendererState
<1>7. Last(O.contextStack) = O.contextStack[m] /\ m \in 1 .. Len(O.contextStack)
  BY <1>6 DEF Last
<1>8. PICK v \in Value : v = Last(O.contextStack).previous
  BY <1>7, EntryTypes
<1>9. Len(val[c]) > id
  BY <1>3, <1>4, <1>5, <1>7
<1> DEFINE new == WithSlot(val, c, id, v)
<1>10. /\ new \in [Context -> Seq(Value)]
       /\ \A d \in Context : Len(new[d]) = Len(val[d])
       /\ SlotIn(new, c, id) = v
       /\ \A d \in Context, i \in Nat : d # c \/ i # id => SlotIn(new, d, i) = SlotIn(val, d, i)
  BY <1>3, <1>8, <1>9, SetsSlot
<1> HIDE DEF new
<1>11. ASSUME NEW d \in Context
       PROVE  IsNearest(SlotIn(new, d, S.threadID), S.stack, Len(S.stack), d)
  <2>1. CASE d = c
    BY <2>1, <1>4, <1>5, <1>8, <1>10
  <2>2. CASE d # c
    <3>1. SlotIn(new, d, S.threadID) = SlotIn(val, d, O.threadID)
      BY <2>2, <1>5, <1>10
    <3> QED  BY <3>1, <2>2, <1>3, <1>4
  <2> QED  BY <2>1, <2>2
<1>12. \A d \in Context : Len(new[d]) >= Len(val[d])
  <2> TAKE d \in Context
  <2>1. Len(new[d]) = Len(val[d]) /\ Len(val[d]) \in Nat
    BY <1>3, <1>10
  <2> QED  BY <2>1
<1>13. ASSUME NEW k \in 1 .. Len(S.contextStack)
       PROVE  Len(new[S.contextStack[k].context]) > S.threadID
  <2>1. PICK l \in Nat : l + 1 = m
    <3>1. m - 1 \in Nat /\ (m - 1) + 1 = m
      BY <1>6
    <3> QED  BY <3>1
  <2>2. /\ Len(S.contextStack) = l
        /\ \A i \in 1 .. l : S.contextStack[i] = O.contextStack[i]
    BY <2>1, <1>2, <1>6 DEF Front
  <2>3. \A i \in 1 .. Len(O.contextStack) : Len(new[O.contextStack[i].context]) > id
    <3>1. \A i \in 1 .. Len(O.contextStack) : Len(val[O.contextStack[i].context]) > id
      BY <1>3, <1>5
    <3>2. val \in [Context -> Seq(Value)] /\ new \in [Context -> Seq(Value)]
      BY <1>3, <1>10
    <3> QED  BY <3>1, <3>2, <1>12, BoundsStay
  <2>4. k \in 1 .. m /\ S.contextStack[k] = O.contextStack[k]
    BY <2>1, <2>2
  <2> QED  BY <2>3, <2>4, <1>5, <1>6
<1>14. \A d \in Context, i \in Nat : i # S.threadID => SlotIn(new, d, i) = SlotIn(val, d, i)
  BY <1>5, <1>10
<1>15. SlotsOK(new, With(rend, r, S))
  BY <1>1, <1>4, <1>10, <1>11, <1>12, <1>13, <1>14, KeepsSlots
<1>16. ThreadsOK(ids, With(rend, r, S))
  BY <1>1, KeepsThreads
<1> QED  BY <1>2, <1>4, <1>5, <1>8, <1>15, <1>16 DEF Core, new

\* A renderer is done, or destroyed: nothing of it is left.
LEMMA FreesCore ==
  ASSUME NEW ids, NEW rend, NEW val, Core(ids, val, rend), NEW r \in Alive(rend),
         NEW new \in [Context -> Seq(Value)],
         \A c \in Context : Len(new[c]) >= Len(val[c]),
         \A c \in Context, id \in Nat :
           SlotIn(new, c, id) = IF id = rend[r].threadID THEN Default ELSE SlotIn(val, c, id)
  PROVE  Core(freeThreadID(ids, rend[r].threadID), new, With(rend, r, destroyed(rend[r])))
<1>1. ThreadsOK(ids, rend) /\ SlotsOK(val, rend)
  BY DEF Core
<1>2. PICK O \in RendererState : O = rend[r]
  BY <1>1 DEF ThreadsOK, Alive
<1>3. PICK S \in RendererState : S = destroyed(rend[r]) /\ S.exhausted
  <2>1. destroyed(O) \in RendererState /\ destroyed(O).exhausted
    BY DEF RendererState, destroyed
  <2> QED  BY <2>1, <1>2
<1>4. SlotsOK(new, With(rend, r, S))
  BY <1>1, <1>3, FreesSlots
<1>5. ThreadsOK(freeThreadID(ids, rend[r].threadID), With(rend, r, S))
  BY <1>1, <1>3, FreesThread
<1> QED  BY <1>3, <1>4, <1>5 DEF Core

LEMMA AllocatesCore ==
  ASSUME NEW ids, NEW rend, NEW val, Core(ids, val, rend), NEW r \in Renderer \ Alive(rend),
         NEW e \in Element
  PROVE  LET alloc == allocThreadID(ids)
         IN  /\ alloc.id \in Nat /\ NewRenderer(alloc.id, e).threadID = alloc.id
             /\ Core(alloc.ids, val, With(rend, r, NewRenderer(alloc.id, e)))
<1> DEFINE alloc == allocThreadID(ids)
<1>1. ThreadsOK(ids, rend) /\ SlotsOK(val, rend)
  BY DEF Core
<1>2. /\ alloc.id \in Nat /\ \A q \in Alive(rend) : rend[q].threadID # alloc.id
      /\ ThreadsOK(alloc.ids, With(rend, r, NewRenderer(alloc.id, e)))
  BY <1>1, AllocatesFree
<1>3. PICK id \in Nat : id = alloc.id
  BY <1>2
<1>4. SlotsOK(val, With(rend, r, NewRenderer(id, e)))
  BY <1>1, <1>2, <1>3, AllocatesSlots
<1>5. NewRenderer(id, e).threadID = id
  BY NewRendererType
<1> HIDE DEF alloc
<1>6. /\ alloc.id \in Nat /\ NewRenderer(alloc.id, e).threadID = alloc.id
      /\ Core(alloc.ids, val, With(rend, r, NewRenderer(alloc.id, e)))
  BY <1>2, <1>3, <1>4, <1>5 DEF Core
<1> QED  BY <1>6 DEF alloc

-----------------------------------------------------------------------------
(***************************************************************************)
(* The calls.                                                              *)
(***************************************************************************)
Replaced(calls, c) == Append(Front(calls), c)

LEMMA LastReplaced ==
  ASSUME NEW calls \in Seq(Call), Len(calls) # 0, NEW c \in Call
  PROVE  /\ Replaced(calls, c) \in Seq(Call) /\ Len(Replaced(calls, c)) = Len(calls)
         /\ Replaced(calls, c)[Len(calls)] = c
         /\ \A i \in 1 .. Len(calls) : i < Len(calls) => Replaced(calls, c)[i] = calls[i]
<1>1. PICK n \in Nat : n + 1 = Len(calls)
  <2>1. Len(calls) - 1 \in Nat /\ (Len(calls) - 1) + 1 = Len(calls)
    OBVIOUS
  <2> QED  BY <2>1
<1>2. /\ Front(calls) \in Seq(Call) /\ Len(Front(calls)) = n
      /\ \A i \in 1 .. n : Front(calls)[i] = calls[i]
  BY <1>1 DEF Front
<1> DEFINE front == Front(calls)
<1> HIDE DEF front
<1>3. /\ Append(front, c) \in Seq(Call) /\ Len(Append(front, c)) = n + 1
      /\ Append(front, c)[n + 1] = c
      /\ \A i \in 1 .. n : Append(front, c)[i] = calls[i]
  BY <1>2 DEF front
<1> QED  BY <1>1, <1>3 DEF front, Replaced

\* The innermost call goes on, and the renderers of all calls stay as they are.
LEMMA CallGoesOn ==
  ASSUME NEW calls, NEW rend, NEW id, CallsOK(calls, rend, id), Len(calls) # 0,
         NEW next, \A q \in Alive(rend) : q \in Alive(next) /\ next[q].threadID = rend[q].threadID,
         NEW c \in Call, CallOK(c), c.renderer = calls[Len(calls)].renderer,
         c.prevThreadID = calls[Len(calls)].prevThreadID
  PROVE  CallsOK(Replaced(calls, c), next, id)
<1>1. PICK after : after = Replaced(calls, c)
  OBVIOUS
<1>2. calls \in Seq(Call)
  BY DEF CallsOK
<1>3. PICK n \in Nat : n = Len(calls) /\ n # 0
  BY <1>2
<1>4. /\ after \in Seq(Call) /\ Len(after) = n /\ after[n] = c
      /\ \A i \in 1 .. n : i < n => after[i] = calls[i]
  BY <1>1, <1>2, <1>3, LastReplaced
<1>5. /\ \A i \in 1 .. n : after[i].renderer = calls[i].renderer
      /\ \A i \in 1 .. n : after[i].prevThreadID = calls[i].prevThreadID
      /\ \A i \in 1 .. n : CallOK(calls[i]) => CallOK(after[i])
      /\ \A i \in 1 .. n : i < n => after[i] = calls[i]
  BY <1>3, <1>4
<1>6. /\ \A i \in 1 .. n :
           /\ CallOK(calls[i]) /\ calls[i].renderer \in Alive(rend)
           /\ calls[i].prevThreadID = IF i = 1 THEN 0 ELSE rend[calls[i - 1].renderer].threadID
           /\ i < n => calls[i].run.pc # 0
      /\ \A i, j \in 1 .. n : calls[i].renderer = calls[j].renderer => i = j
      /\ id = rend[calls[n].renderer].threadID
  BY <1>3 DEF CallsOK
<1>7. ASSUME NEW i \in 1 .. n
      PROVE  /\ CallOK(after[i]) /\ after[i].renderer \in Alive(next)
             /\ after[i].prevThreadID = IF i = 1 THEN 0 ELSE next[after[i - 1].renderer].threadID
             /\ i < n => after[i].run.pc # 0
  <2>1. CallOK(after[i]) /\ after[i].renderer \in Alive(next) /\ (i < n => after[i].run.pc # 0)
    BY <1>5, <1>6
  <2>2. CASE i = 1
    BY <2>1, <2>2, <1>5, <1>6
  <2>3. CASE i # 1
    <3>1. i - 1 \in 1 .. n
      BY <2>3
    <3>2. next[after[i - 1].renderer].threadID = rend[calls[i - 1].renderer].threadID
      BY <3>1, <1>5, <1>6
    <3> QED  BY <3>2, <2>1, <2>3, <1>5, <1>6
  <2> QED  BY <2>2, <2>3
<1>8. \A i, j \in 1 .. n : after[i].renderer = after[j].renderer => i = j
  BY <1>5, <1>6
<1>9. id = next[after[n].renderer].threadID
  BY <1>3, <1>5, <1>6
<1> QED  BY <1>1, <1>3, <1>4, <1>7, <1>8, <1>9 DEF CallsOK

\* read() is called, by the application or within the innermost call.
LEMMA CallBegins ==
  ASSUME NEW calls, NEW rend, NEW id, CallsOK(calls, rend, id), id \in Nat,
         Len(calls) # 0 => calls[Len(calls)].run.pc # 0,
         NEW c \in Call, CallOK(c), c.renderer \in Alive(rend), c.prevThreadID = id,
         \A i \in 1 .. Len(calls) : calls[i].renderer # c.renderer
  PROVE  CallsOK(Append(calls, c), rend, rend[c.renderer].threadID)
<1>1. PICK after : after = Append(calls, c)
  OBVIOUS
<1>2. calls \in Seq(Call)
  BY DEF CallsOK
<1>3. PICK n \in Nat : n = Len(calls)
  BY <1>2
<1>4. /\ after \in Seq(Call) /\ Len(after) = n + 1 /\ after[n + 1] = c
      /\ \A i \in 1 .. n : after[i] = calls[i]
  BY <1>1, <1>2, <1>3
<1>6. /\ \A i \in 1 .. n :
           /\ CallOK(calls[i]) /\ calls[i].renderer \in Alive(rend)
           /\ calls[i].prevThreadID = IF i = 1 THEN 0 ELSE rend[calls[i - 1].renderer].threadID
           /\ i < n => calls[i].run.pc # 0
      /\ \A i, j \in 1 .. n : calls[i].renderer = calls[j].renderer => i = j
      /\ id = IF n = 0 THEN 0 ELSE rend[calls[n].renderer].threadID
  BY <1>3 DEF CallsOK
<1>7. ASSUME NEW i \in 1 .. n + 1
      PROVE  /\ CallOK(after[i]) /\ after[i].renderer \in Alive(rend)
             /\ after[i].prevThreadID = IF i = 1 THEN 0 ELSE rend[after[i - 1].renderer].threadID
             /\ i < n + 1 => after[i].run.pc # 0
  <2>1. CASE i = n + 1
    <3>1. n # 0 => after[n] = calls[n]
      BY <1>4
    <3> QED  BY <2>1, <3>1, <1>4, <1>6
  <2>2. CASE i # n + 1
    <3>1. i \in 1 .. n /\ after[i] = calls[i]
      BY <2>2, <1>4
    <3>2. i # 1 => i - 1 \in 1 .. n /\ after[i - 1] = calls[i - 1]
      BY <3>1, <1>4
    <3>3. after[i].run.pc # 0
      BY <3>1, <1>3, <1>6
    <3> QED  BY <3>1, <3>2, <3>3, <1>6
  <2> QED  BY <2>1, <2>2
<1>8. \A i, j \in 1 .. n + 1 : after[i].renderer = after[j].renderer => i = j
  <2> TAKE i, j \in 1 .. n + 1
  <2>1. i = n + 1 \/ (i \in 1 .. n /\ after[i] = calls[i])
    <3>1. i = n + 1 \/ i \in 1 .. n
      OBVIOUS
    <3> QED  BY <3>1, <1>4
  <2>2. j = n + 1 \/ (j \in 1 .. n /\ after[j] = calls[j])
    <3>1. j = n + 1 \/ j \in 1 .. n
      OBVIOUS
    <3> QED  BY <3>1, <1>4
  <2> QED  BY <2>1, <2>2, <1>3, <1>4, <1>6
<1> QED  BY <1>1, <1>4, <1>7, <1>8 DEF CallsOK

\* The innermost call returns or throws; the renderers of the others stay.
LEMMA CallEnds ==
  ASSUME NEW calls, NEW rend, NEW id, CallsOK(calls, rend, id), Len(calls) # 0,
         NEW next, \A q \in Alive(rend) : q # calls[Len(calls)].renderer =>
                     q \in Alive(next) /\ next[q].threadID = rend[q].threadID
  PROVE  /\ CallsOK(Front(calls), next, calls[Len(calls)].prevThreadID)
         /\ Len(Front(calls)) = Len(calls) - 1
         /\ \A i \in 1 .. Len(calls) - 1 : Front(calls)[i] = calls[i]
         /\ Len(Front(calls)) # 0 => Front(calls)[Len(calls) - 1].run.pc # 0
<1>1. PICK after : after = Front(calls)
  OBVIOUS
<1>2. calls \in Seq(Call)
  BY DEF CallsOK
<1>3. PICK n \in Nat : n + 1 = Len(calls)
  <2>1. Len(calls) - 1 \in Nat /\ (Len(calls) - 1) + 1 = Len(calls)
    BY <1>2
  <2> QED  BY <2>1
<1>4. after \in Seq(Call) /\ Len(after) = n /\ \A i \in 1 .. n : after[i] = calls[i]
  BY <1>1, <1>2, <1>3 DEF Front
<1>6. /\ \A i \in 1 .. n + 1 :
           /\ CallOK(calls[i]) /\ calls[i].renderer \in Alive(rend)
           /\ calls[i].prevThreadID = IF i = 1 THEN 0 ELSE rend[calls[i - 1].renderer].threadID
           /\ i < n + 1 => calls[i].run.pc # 0
      /\ \A i, j \in 1 .. n + 1 : calls[i].renderer = calls[j].renderer => i = j
  BY <1>3 DEF CallsOK
<1>5. \A i \in 1 .. n : /\ calls[i].renderer \in Alive(next)
                        /\ next[calls[i].renderer].threadID = rend[calls[i].renderer].threadID
  <2> TAKE i \in 1 .. n
  <2>1. i \in 1 .. n + 1 /\ n + 1 \in 1 .. n + 1 /\ i # n + 1
    OBVIOUS
  <2>2. calls[i].renderer # calls[Len(calls)].renderer /\ calls[i].renderer \in Alive(rend)
    BY <2>1, <1>3, <1>6
  <2> QED  BY <2>2
<1>7. ASSUME NEW i \in 1 .. n
      PROVE  /\ CallOK(after[i]) /\ after[i].renderer \in Alive(next)
             /\ after[i].prevThreadID = IF i = 1 THEN 0 ELSE next[after[i - 1].renderer].threadID
             /\ after[i].run.pc # 0
  <2>1. i \in 1 .. n + 1 /\ i < n + 1 /\ after[i] = calls[i]
    BY <1>4
  <2>2. i # 1 => i - 1 \in 1 .. n /\ after[i - 1] = calls[i - 1]
    BY <1>4
  <2>3. CallOK(after[i]) /\ after[i].renderer \in Alive(next) /\ after[i].run.pc # 0
    BY <2>1, <1>5, <1>6
  <2>4. after[i].prevThreadID = IF i = 1 THEN 0 ELSE rend[calls[i - 1].renderer].threadID
    BY <2>1, <1>6
  <2> QED  BY <2>2, <2>3, <2>4, <1>5
<1>8. \A i, j \in 1 .. n : after[i].renderer = after[j].renderer => i = j
  BY <1>4, <1>6
<1>9. calls[n + 1].prevThreadID = IF n = 0 THEN 0 ELSE next[after[n].renderer].threadID
  <2>1. n + 1 \in 1 .. n + 1 /\ (n + 1) - 1 = n /\ (n + 1 = 1 <=> n = 0)
    OBVIOUS
  <2>2. calls[n + 1].prevThreadID = IF n = 0 THEN 0 ELSE rend[calls[n].renderer].threadID
    BY <2>1, <1>6
  <2> QED  BY <2>2, <1>4, <1>5
<1>10. CallsOK(after, next, calls[n + 1].prevThreadID)
  BY <1>4, <1>7, <1>8, <1>9 DEF CallsOK
<1> QED  BY <1>1, <1>3, <1>4, <1>7, <1>10

-----------------------------------------------------------------------------
(***************************************************************************)
(* Each operation keeps the invariant.                                     *)
(***************************************************************************)
LEMMA CallFacts ==
  ASSUME ServerInv, isReading
  PROVE  /\ reading \in Seq(Call) /\ Len(reading) \in Nat /\ Len(reading) # 0
         /\ call = reading[Len(reading)] /\ call \in Call /\ CallOK(call)
         /\ call.renderer \in Alive(renderer) /\ call.renderer \in Renderer
         /\ R \in RendererState /\ R = renderer[call.renderer] /\ ~R.exhausted
         /\ currentThreadID = R.threadID
<1>1. CallsOK(reading, renderer, currentThreadID)
  BY DEF ServerInv
<1>2. reading \in Seq(Call) /\ reading # <<>>
  BY <1>1 DEF CallsOK, isReading
<1>3. PICK n \in Nat : n = Len(reading) /\ n # 0
  BY <1>2
<1>4. call = reading[n] /\ call \in Call
  BY <1>2, <1>3 DEF call, Last
<1>5. n \in 1 .. Len(reading)
  BY <1>3
<1>6. CallOK(reading[n]) /\ reading[n].renderer \in Alive(renderer)
  BY <1>1, <1>5 DEF CallsOK
<1>7. currentThreadID = renderer[reading[n].renderer].threadID
  BY <1>1, <1>3 DEF CallsOK
<1>8. renderer \in [Renderer -> RendererState]
  BY DEF ServerInv, Core, ThreadsOK
<1>9. reading[n].renderer \in Renderer /\ ~renderer[reading[n].renderer].exhausted
  BY <1>6 DEF Alive
<1>10. R = renderer[call.renderer] /\ R \in RendererState /\ ~R.exhausted
  BY <1>4, <1>8, <1>9 DEF R
<1> QED  BY <1>2, <1>3, <1>4, <1>6, <1>7, <1>9, <1>10

LEMMA RunFacts ==
  ASSUME ServerInv, isReading
  PROVE  /\ call.run \in Run /\ call.run.pc \in Nat /\ call.child \in Element \cup {Nil}
         /\ call.run.pc = 0 => call.run = NoRun
         /\ call.run.pc # 0 => call.child # Nil /\ call.child \in Element
         /\ NoRun \in Run /\ NoRun.pc = 0 /\ NoRun.states = <<>> /\ ~NoRun.failing
<1>1. call \in Call /\ CallOK(call)
  BY CallFacts
<1>2. call.run \in Run /\ call.child \in Element \cup {Nil}
  BY <1>1 DEF Call
<1>3. call.run.pc \in Nat
  BY <1>2 DEF Run
<1>4. NoRun \in Run /\ NoRun.pc = 0 /\ NoRun.states = <<>> /\ ~NoRun.failing
  BY DEF NoRun, Run
<1> QED  BY <1>1, <1>2, <1>3, <1>4 DEF CallOK

\* No hooks are used by the innermost call, before or after.
LEMMA HooksStay ==
  ASSUME NEW calls \in Seq(Call), NEW h, HooksOK(calls, h), Len(calls) # 0,
         ~IsUsing(calls[Len(calls)]), NEW c \in Call, ~IsUsing(c), c.run.states = <<>>
  PROVE  HooksOK(Replaced(calls, c), h) /\ AsNew(h)
<1>1. PICK after : after = Replaced(calls, c)
  OBVIOUS
<1>2. PICK n \in Nat : n = Len(calls) /\ n # 0
  OBVIOUS
<1>3. Len(after) = n /\ after[n] = c /\ \A i \in 1 .. n : i < n => after[i] = calls[i]
  BY <1>1, <1>2, LastReplaced
<1>4. AsNew(h)
  BY <1>2 DEF HooksOK
<1>5. \A i \in 1 .. n : /\ ~IsUsing(calls[i]) => calls[i].run.states = <<>>
                        /\ i < n \/ calls[i].run.failing => ~IsUsing(calls[i])
  BY <1>2 DEF HooksOK
<1>6. ASSUME NEW i \in 1 .. n
      PROVE  /\ ~IsUsing(after[i]) => after[i].run.states = <<>>
             /\ i < n \/ after[i].run.failing => ~IsUsing(after[i])
  <2>1. CASE i = n
    BY <2>1, <1>3
  <2>2. CASE i # n
    <3>1. i < n
      BY <2>2, <1>2
    <3>2. after[i] = calls[i]
      BY <3>1, <1>3
    <3> QED  BY <3>1, <3>2, <1>5
  <2> QED  BY <2>1, <2>2
<1>7. HooksOK(after, h)
  BY <1>3, <1>4, <1>6 DEF HooksOK
<1> QED  BY <1>1, <1>4, <1>7

\* The renderers are those of before, and one of them has changed.
LEMMA RenderersStay ==
  ASSUME NEW rend \in [Renderer -> RendererState], NEW r \in Alive(rend), NEW S \in RendererState,
         S.threadID = rend[r].threadID, ~S.exhausted
  PROVE  \A q \in Alive(rend) : /\ q \in Alive(With(rend, r, S))
                                /\ With(rend, r, S)[q].threadID = rend[q].threadID
<1>1. r \in Renderer
  BY DEF Alive
<1> DEFINE next == With(rend, r, S)
<1>2. next[r] = S /\ \A q \in Renderer : q # r => next[q] = rend[q]
  BY <1>1, ExceptRenderer
<1>3. \A q : q \in Alive(next) <=> q \in Renderer /\ IF q = r THEN ~S.exhausted ELSE q \in Alive(rend)
  BY <1>1, AliveAfter
<1> HIDE DEF next
<1>4. ASSUME NEW q \in Alive(rend)
      PROVE  q \in Alive(next) /\ next[q].threadID = rend[q].threadID
  <2>1. q \in Renderer
    BY DEF Alive
  <2> QED  BY <2>1, <1>2, <1>3
<1> QED  BY <1>4 DEF next

\* A step in which no component runs, before or after.
LEMMA GoesOn ==
  ASSUME ServerInv, isReading, call.run.pc = 0,
         NEW c \in Call, c.renderer = call.renderer, c.prevThreadID = call.prevThreadID,
         c.run = NoRun, reading' = WithCall(c),
         currentThreadID' = currentThreadID, hooks' = hooks,
         NEW S \in RendererState, S.threadID = R.threadID, ~S.exhausted,
         renderer' = With(renderer, call.renderer, S),
         Core(nextAvailableThreadIDs', value', renderer')
  PROVE  ServerInv'
<1>1. /\ reading \in Seq(Call) /\ Len(reading) # 0 /\ call = reading[Len(reading)]
      /\ call.renderer \in Alive(renderer) /\ R = renderer[call.renderer]
  BY CallFacts
<1>2. reading' = Replaced(reading, c)
  BY DEF WithCall, Replaced
<1>3. NoRun.pc = 0 /\ NoRun.states = <<>>
  BY RunFacts
<1>4. renderer \in [Renderer -> RendererState]
  BY DEF ServerInv, Core, ThreadsOK
<1>5. \A q \in Alive(renderer) : q \in Alive(renderer') /\ renderer'[q].threadID = renderer[q].threadID
  BY <1>1, <1>4, RenderersStay
<1>6. CallOK(c)
  BY <1>3 DEF CallOK
<1>7. CallsOK(reading, renderer, currentThreadID)
  BY DEF ServerInv
<1>8. CallsOK(reading', renderer', currentThreadID')
  BY <1>1, <1>2, <1>5, <1>6, <1>7, CallGoesOn
<1>9. HooksRunThrough => HooksOK(reading', hooks')
  <2>1. ~IsUsing(reading[Len(reading)]) /\ ~IsUsing(c)
    BY <1>1, <1>3 DEF IsUsing
  <2>2. HooksRunThrough => HooksOK(reading, hooks)
    BY DEF ServerInv
  <2> QED  BY <1>1, <1>2, <1>3, <2>1, <2>2, HooksStay
<1>10. HooksTypeOK(hooks')
  BY DEF ServerInv
<1> QED  BY <1>8, <1>9, <1>10 DEF ServerInv

PushFrame(S, f) == [S EXCEPT !.stack = Append(@, f)]
PopsFrame(S) == [S EXCEPT !.stack = Front(@)]

LEMMA NewFrameType ==
  ASSUME NEW type \in Element \cup {Nil}, NEW children \in Seq(Element), NEW fallback \in Seq(Element)
  PROVE  NewFrame(type, children, fallback) \in Frame /\ NewFrame(type, children, fallback).type = type
<1> QED  BY DEF NewFrame, Frame

LEMMA FramePushed ==
  ASSUME NEW S \in RendererState, NEW f \in Frame
  PROVE  /\ PushFrame(S, f) \in RendererState /\ PushFrame(S, f).threadID = S.threadID
         /\ PushFrame(S, f).exhausted = S.exhausted /\ PushFrame(S, f).contextStack = S.contextStack
         /\ Len(PushFrame(S, f).stack) = Len(S.stack) + 1 /\ Len(S.stack) \in Nat
         /\ PushFrame(S, f).stack[Len(S.stack) + 1] = f
         /\ \A i \in 1 .. Len(S.stack) : PushFrame(S, f).stack[i].type = S.stack[i].type
<1>1. PICK s \in Seq(Frame) : s = S.stack
  BY DEF RendererState
<1>2. PICK t : t = Append(s, f)
  OBVIOUS
<1>3. /\ t \in Seq(Frame) /\ Len(t) = Len(s) + 1 /\ t[Len(s) + 1] = f
      /\ \A i \in 1 .. Len(s) : t[i] = s[i]
  BY <1>2
<1>4. PushFrame(S, f) = [S EXCEPT !.stack = t]
  BY <1>1, <1>2 DEF PushFrame
<1>5. /\ PushFrame(S, f) \in RendererState /\ PushFrame(S, f).threadID = S.threadID
      /\ PushFrame(S, f).exhausted = S.exhausted /\ PushFrame(S, f).contextStack = S.contextStack
      /\ PushFrame(S, f).stack = t
  BY <1>3, <1>4 DEF RendererState
<1> QED  BY <1>1, <1>3, <1>5

LEMMA FramePopped ==
  ASSUME NEW S \in RendererState, S.stack # <<>>
  PROVE  /\ PopsFrame(S) \in RendererState /\ PopsFrame(S).threadID = S.threadID
         /\ PopsFrame(S).exhausted = S.exhausted /\ PopsFrame(S).contextStack = S.contextStack
         /\ Len(S.stack) = Len(PopsFrame(S).stack) + 1 /\ Len(S.stack) \in Nat
         /\ \A i \in 1 .. Len(PopsFrame(S).stack) : PopsFrame(S).stack[i].type = S.stack[i].type
         /\ Last(S.stack) = S.stack[Len(S.stack)] /\ Last(S.stack) \in Frame
<1>1. PICK s \in Seq(Frame) : s = S.stack /\ s # <<>>
  BY DEF RendererState
<1>2. PICK n \in Nat : n + 1 = Len(s)
  <2>1. Len(s) - 1 \in Nat /\ (Len(s) - 1) + 1 = Len(s)
    BY <1>1
  <2> QED  BY <2>1
<1>3. PICK t : t = Front(s)
  OBVIOUS
<1>4. t \in Seq(Frame) /\ Len(t) = n /\ \A i \in 1 .. n : t[i] = s[i]
  BY <1>2, <1>3 DEF Front
<1>5. Last(s) = s[Len(s)] /\ Last(s) \in Frame
  BY <1>2 DEF Last
<1>6. PopsFrame(S) = [S EXCEPT !.stack = t]
  BY <1>1, <1>3 DEF PopsFrame
<1>7. /\ PopsFrame(S) \in RendererState /\ PopsFrame(S).threadID = S.threadID
      /\ PopsFrame(S).exhausted = S.exhausted /\ PopsFrame(S).contextStack = S.contextStack
      /\ PopsFrame(S).stack = t
  BY <1>4, <1>6 DEF RendererState
<1> QED  BY <1>1, <1>2, <1>4, <1>5, <1>7

LEMMA NextChildStep ==
  ASSUME ServerInv, NextChild
  PROVE  ServerInv'
<1>0. isReading /\ R.stack # <<>> /\ call.child = Nil /\ frame.childIndex < Len(frame.children)
  BY DEF NextChild, betweenChildren
<1>1. /\ call \in Call /\ CallOK(call) /\ call.renderer \in Alive(renderer)
      /\ R \in RendererState /\ R = renderer[call.renderer] /\ ~R.exhausted
  BY <1>0, CallFacts
<1>2. call.run = NoRun /\ call.run.pc = 0
  BY <1>0, <1>1 DEF CallOK
<1>3. PICK O \in RendererState : O = R
  BY <1>1
<1>4. PICK s \in Seq(Frame) : s = O.stack /\ s # <<>>
  BY <1>0, <1>3 DEF RendererState
<1>5. PICK n \in Nat : n = Len(s) /\ n # 0
  BY <1>4
<1>6. PICK f \in Frame : f = s[n] /\ f = frame
  BY <1>3, <1>4, <1>5 DEF frame, Last
<1>7. PICK e \in Element : e = frame.children[frame.childIndex + 1]
  <2>1. f.children \in Seq(Element) /\ f.childIndex \in Nat /\ f.childIndex < Len(f.children)
    BY <1>0, <1>6 DEF Frame
  <2>2. f.childIndex + 1 \in 1 .. Len(f.children)
    BY <2>1
  <2> QED  BY <2>1, <2>2, <1>6
<1> DEFINE g == [f EXCEPT !.childIndex = @ + 1]
           t == [s EXCEPT ![n] = g]
           S == [O EXCEPT !.stack = t]
           c == [call EXCEPT !.child = e]
<1>8. g \in Frame /\ g.type = f.type
  BY DEF Frame
<1>9. S = [O EXCEPT !.stack[n].childIndex = @ + 1]
  BY <1>4, <1>6
<1>10. renderer' = With(renderer, call.renderer, S)
  BY <1>3, <1>4, <1>5, <1>9 DEF NextChild, WithRenderer, With
<1> HIDE DEF g
<1>11. t \in Seq(Frame) /\ Len(t) = n /\ \A i \in 1 .. n : t[i].type = s[i].type
  <2>1. t \in Seq(Frame) /\ Len(t) = n
    BY <1>5, <1>8
  <2>2. t[n] = g /\ \A i \in 1 .. n : i # n => t[i] = s[i]
    BY <1>5
  <2>3. t[n].type = s[n].type
    BY <2>2, <1>6, <1>8
  <2> QED  BY <2>1, <2>2, <2>3
<1> HIDE DEF t
<1>12. /\ S \in RendererState /\ S.threadID = O.threadID /\ S.exhausted = O.exhausted
       /\ S.contextStack = O.contextStack /\ S.stack = t
  BY <1>11 DEF RendererState
<1>13. c \in Call /\ c.renderer = call.renderer /\ c.prevThreadID = call.prevThreadID /\ c.run = NoRun
  BY <1>1, <1>2 DEF Call
<1>14. reading' = WithCall(c)
  BY <1>7 DEF NextChild
<1> HIDE DEF S, c
<1>15. Core(nextAvailableThreadIDs', value', renderer')
  <2>1. Core(nextAvailableThreadIDs, value, renderer)
    BY DEF ServerInv
  <2>2. nextAvailableThreadIDs' = nextAvailableThreadIDs /\ value' = value
    BY DEF NextChild, allocatorVars
  <2>3. /\ S.threadID = renderer[call.renderer].threadID /\ ~S.exhausted
        /\ S.contextStack = renderer[call.renderer].contextStack
        /\ Len(S.stack) = Len(renderer[call.renderer].stack)
        /\ \A i \in 1 .. Len(renderer[call.renderer].stack) :
             S.stack[i].type = renderer[call.renderer].stack[i].type
    BY <1>1, <1>3, <1>4, <1>5, <1>11, <1>12
  <2>4. Core(nextAvailableThreadIDs, value, With(renderer, call.renderer, S))
    BY <2>1, <2>3, <1>1, <1>12, RetypesCore
  <2> QED  BY <2>2, <2>4, <1>10
<1>16. currentThreadID' = currentThreadID /\ hooks' = hooks
  BY DEF NextChild
<1> QED  BY <1>0, <1>1, <1>2, <1>3, <1>10, <1>12, <1>13, <1>14, <1>15, <1>16, GoesOn

\* An element that is rendered: its frame comes on top.
LEMMA PushedFacts ==
  ASSUME ServerInv, NEW kind, rendering(kind), kind \in {"dom", "suspense", "provider", "consumer"},
         NEW fallback \in Seq(Element)
  PROVE  /\ isReading /\ call.run.pc = 0 /\ call.run = NoRun /\ call.child \in Element
         /\ NewFrame(call.child, Kids[call.child], fallback) \in Frame
         /\ NewFrame(call.child, Kids[call.child], fallback).type = call.child
         /\ [call EXCEPT !.child = Nil] \in Call
         /\ [call EXCEPT !.child = Nil].renderer = call.renderer
         /\ [call EXCEPT !.child = Nil].prevThreadID = call.prevThreadID
         /\ [call EXCEPT !.child = Nil].run = NoRun
<1>1. isReading /\ call.child # Nil /\ call.run.pc = 0
  BY DEF rendering, isRunning
<1>2. call \in Call /\ call.run = NoRun /\ call.child \in Element
  BY <1>1, CallFacts, RunFacts
<1>3. Kids[call.child] \in Seq(Element)
  BY <1>2, ServerRendererAssumption DEF ServerRendererAssumption
<1>4. [call EXCEPT !.child = Nil] \in Call
  BY <1>2 DEF Call
<1>5. /\ [call EXCEPT !.child = Nil].renderer = call.renderer
      /\ [call EXCEPT !.child = Nil].prevThreadID = call.prevThreadID
      /\ [call EXCEPT !.child = Nil].run = NoRun
  BY <1>2 DEF Call
<1> QED  BY <1>1, <1>2, <1>3, <1>4, <1>5, NewFrameType

LEMMA renderDOMStep ==
  ASSUME ServerInv, renderDOM
  PROVE  ServerInv'
<1> DEFINE f == NewFrame(call.child, Kids[call.child], <<>>)
           c == [call EXCEPT !.child = Nil]
           S == PushFrame(R, f)
<1>0. rendering("dom") /\ <<>> \in Seq(Element)
  BY DEF renderDOM
<1>1. /\ isReading /\ call.run.pc = 0 /\ f \in Frame /\ f.type = call.child
      /\ c \in Call /\ c.renderer = call.renderer /\ c.prevThreadID = call.prevThreadID
      /\ c.run = NoRun
  BY <1>0, PushedFacts
<1>2. /\ call.renderer \in Alive(renderer)
      /\ R \in RendererState /\ R = renderer[call.renderer] /\ ~R.exhausted
  BY <1>1, CallFacts
<1>3. renderer' = With(renderer, call.renderer, S) /\ reading' = WithCall(c)
  BY DEF renderDOM, Pushed, WithRenderer, With, PushFrame
<1>4. plain(f)
  BY <1>0, <1>1 DEF plain, rendering
<1> HIDE DEF f, c
<1>5. /\ S \in RendererState /\ S.threadID = R.threadID
      /\ S.exhausted = R.exhausted /\ S.contextStack = R.contextStack
      /\ Len(S.stack) = Len(R.stack) + 1 /\ S.stack[Len(R.stack) + 1] = f
      /\ \A i \in 1 .. Len(R.stack) : S.stack[i].type = R.stack[i].type
  BY <1>1, <1>2, FramePushed
<1> HIDE DEF S
<1>6. Core(nextAvailableThreadIDs', value', renderer')
  <2>1. Core(nextAvailableThreadIDs, value, renderer)
    BY DEF ServerInv
  <2>2. nextAvailableThreadIDs' = nextAvailableThreadIDs /\ value' = value
    BY DEF renderDOM, allocatorVars
  <2>3. Core(nextAvailableThreadIDs, value, With(renderer, call.renderer, S))
    BY <2>1, <1>2, <1>4, <1>5, AddsCore
  <2> QED  BY <2>2, <2>3, <1>3
<1>7. currentThreadID' = currentThreadID /\ hooks' = hooks
  BY DEF renderDOM
<1> QED  BY <1>1, <1>2, <1>3, <1>5, <1>6, <1>7, GoesOn

LEMMA renderSuspenseStep ==
  ASSUME ServerInv, renderSuspense
  PROVE  ServerInv'
<1> DEFINE f == NewFrame(call.child, Kids[call.child], Fallback[call.child])
           c == [call EXCEPT !.child = Nil]
           O == [R EXCEPT !.suspenseDepth = @ + 1]
           S == PushFrame(O, f)
<1>0. rendering("suspense") /\ isReading /\ call.child # Nil
  BY DEF renderSuspense, rendering
<1>8. Fallback[call.child] \in Seq(Element)
  <2>1. call.child \in Element
    BY <1>0, RunFacts
  <2> QED  BY <2>1, ServerRendererAssumption DEF ServerRendererAssumption
<1>1. /\ call.run.pc = 0 /\ f \in Frame /\ f.type = call.child
      /\ c \in Call /\ c.renderer = call.renderer /\ c.prevThreadID = call.prevThreadID
      /\ c.run = NoRun
  BY <1>0, <1>8, PushedFacts
<1>2. /\ call.renderer \in Alive(renderer)
      /\ R \in RendererState /\ R = renderer[call.renderer] /\ ~R.exhausted
  BY <1>0, CallFacts
<1>3. renderer' = With(renderer, call.renderer, S) /\ reading' = WithCall(c)
  BY DEF renderSuspense, Pushed, WithRenderer, With, PushFrame
<1>4. plain(f)
  BY <1>0, <1>1 DEF plain, rendering
<1> HIDE DEF f, c
<1>9. /\ O \in RendererState /\ O.threadID = R.threadID /\ O.exhausted = R.exhausted
      /\ O.contextStack = R.contextStack /\ O.stack = R.stack
  BY <1>2 DEF RendererState
<1> HIDE DEF O
<1>5. /\ S \in RendererState /\ S.threadID = O.threadID
      /\ S.exhausted = O.exhausted /\ S.contextStack = O.contextStack
      /\ Len(S.stack) = Len(O.stack) + 1 /\ S.stack[Len(O.stack) + 1] = f
      /\ \A i \in 1 .. Len(O.stack) : S.stack[i].type = O.stack[i].type
  BY <1>1, <1>9, FramePushed
<1> HIDE DEF S
<1>6. Core(nextAvailableThreadIDs', value', renderer')
  <2>1. Core(nextAvailableThreadIDs, value, renderer)
    BY DEF ServerInv
  <2>2. nextAvailableThreadIDs' = nextAvailableThreadIDs /\ value' = value
    BY DEF renderSuspense, allocatorVars
  <2>3. Core(nextAvailableThreadIDs, value, With(renderer, call.renderer, S))
    BY <2>1, <1>2, <1>4, <1>5, <1>9, AddsCore
  <2> QED  BY <2>2, <2>3, <1>3
<1>7. currentThreadID' = currentThreadID /\ hooks' = hooks
  BY DEF renderSuspense
<1> QED  BY <1>0, <1>1, <1>2, <1>3, <1>5, <1>6, <1>7, <1>9, GoesOn

LEMMA renderConsumerStep ==
  ASSUME ServerInv, renderConsumer
  PROVE  ServerInv'
<1> DEFINE f == NewFrame(call.child, Kids[call.child], <<>>)
           c == [call EXCEPT !.child = Nil]
           S == PushFrame(R, f)
<1>0. rendering("consumer") /\ <<>> \in Seq(Element)
  BY DEF renderConsumer
<1>1. /\ isReading /\ call.run.pc = 0 /\ f \in Frame /\ f.type = call.child /\ call.child \in Element
      /\ c \in Call /\ c.renderer = call.renderer /\ c.prevThreadID = call.prevThreadID
      /\ c.run = NoRun
  BY <1>0, PushedFacts
<1>2. /\ call.renderer \in Alive(renderer)
      /\ R \in RendererState /\ R = renderer[call.renderer] /\ ~R.exhausted
  BY <1>1, CallFacts
<1>3. renderer' = With(renderer, call.renderer, S) /\ reading' = WithCall(c)
  BY DEF renderConsumer, Pushed, WithRenderer, With, PushFrame
<1>4. plain(f) /\ Kind[call.child] = "consumer"
  BY <1>0, <1>1 DEF plain, rendering
<1> HIDE DEF f, c
<1>5. /\ S \in RendererState /\ S.threadID = R.threadID
      /\ S.exhausted = R.exhausted /\ S.contextStack = R.contextStack
      /\ Len(S.stack) = Len(R.stack) + 1 /\ S.stack[Len(R.stack) + 1] = f
      /\ \A i \in 1 .. Len(R.stack) : S.stack[i].type = R.stack[i].type
  BY <1>1, <1>2, FramePushed
<1> HIDE DEF S
<1>6. Core(nextAvailableThreadIDs', value', renderer')
  <2>1. Core(nextAvailableThreadIDs, value, renderer)
    BY DEF ServerInv
  <2>2. nextAvailableThreadIDs' = nextAvailableThreadIDs
    BY DEF renderConsumer
  <2>3. value \in [Context -> Seq(Value)]
    BY <2>1 DEF Core, SlotsOK
  <2>4. PICK d \in Context : d = ContextOf[call.child]
    BY <1>1, <1>4, ServerRendererAssumption DEF ServerRendererAssumption
  <2>5. PICK id \in Nat : id = R.threadID
    BY <1>2 DEF RendererState
  <2>6. PICK new : new = Validated(d, id)
    OBVIOUS
  <2>7. value' = new
    BY <2>4, <2>5, <2>6 DEF renderConsumer, Validated
  <2>8. new \in [Context -> Seq(Value)]
    BY <2>3, <2>6, ValidatesBounds
  <2>9. \A b \in Context : Len(new[b]) >= Len(value[b])
    BY <2>3, <2>6, ValidatesBounds
  <2>10. \A b \in Context, i \in Nat : SlotIn(new, b, i) = SlotIn(value, b, i)
    BY <2>3, <2>6, ValidatesBounds
  <2>11. /\ S.threadID = renderer[call.renderer].threadID /\ ~S.exhausted
         /\ S.contextStack = renderer[call.renderer].contextStack
         /\ Len(S.stack) = Len(renderer[call.renderer].stack) + 1
         /\ \A i \in 1 .. Len(renderer[call.renderer].stack) :
              S.stack[i].type = renderer[call.renderer].stack[i].type
         /\ plain(S.stack[Len(S.stack)])
    BY <1>2, <1>4, <1>5
  <2>12. Core(nextAvailableThreadIDs, new, With(renderer, call.renderer, S))
    BY <2>1, <2>8, <2>9, <2>10, <2>11, <1>2, <1>5, GrowsCore
  <2> QED  BY <2>2, <2>7, <2>12, <1>3
<1>7. currentThreadID' = currentThreadID /\ hooks' = hooks
  BY DEF renderConsumer
<1> QED  BY <1>1, <1>2, <1>3, <1>5, <1>6, <1>7, GoesOn

\* The provider's slot is extended, and set.
Provided(c, id, v) == [value EXCEPT ![c] = [validateContextBounds(c, id) EXCEPT ![id + 1] = v]]

LEMMA ProvidesValue ==
  ASSUME value \in [Context -> Seq(Value)], NEW c \in Context, NEW id \in Nat, NEW v \in Value
  PROVE  /\ Provided(c, id, v) \in [Context -> Seq(Value)] /\ Len(Provided(c, id, v)[c]) > id
         /\ \A d \in Context : Len(Provided(c, id, v)[d]) >= Len(value[d])
         /\ SlotIn(Provided(c, id, v), c, id) = v
         /\ \A d \in Context, i \in Nat :
              d # c \/ i # id => SlotIn(Provided(c, id, v), d, i) = SlotIn(value, d, i)
         /\ validateContextBounds(c, id)[id + 1] = SlotIn(value, c, id)
         /\ validateContextBounds(c, id)[id + 1] \in Value
<1>0. PICK new : new = Provided(c, id, v)
  OBVIOUS
<1>1. PICK valid : valid = Validated(c, id)
  OBVIOUS
<1>2. valid \in [Context -> Seq(Value)]
  BY <1>1, ValidatesBounds
<1>16. Len(valid[c]) > id
  BY <1>1, ValidatesBounds
<1>17. valid[c] = validateContextBounds(c, id)
  BY <1>1, ValidatesBounds
<1>3. \A d \in Context : Len(valid[d]) >= Len(value[d])
  BY <1>1, ValidatesBounds
<1>4. \A d \in Context, i \in Nat : SlotIn(valid, d, i) = SlotIn(value, d, i)
  BY <1>1, ValidatesBounds
<1>5. PICK s \in Seq(Value) : s = validateContextBounds(c, id) /\ s = valid[c] /\ Len(s) > id
  BY <1>2, <1>16, <1>17
<1>6. valid = [value EXCEPT ![c] = s] /\ new = [value EXCEPT ![c] = [s EXCEPT ![id + 1] = v]]
  BY <1>0, <1>1, <1>5 DEF Validated, Provided
<1>7. new = WithSlot(valid, c, id, v)
  BY <1>2, <1>5, <1>6 DEF WithSlot
<1>8. new \in [Context -> Seq(Value)]
  BY <1>2, <1>7, <1>16, SetsSlot
<1>9. \A d \in Context : Len(new[d]) = Len(valid[d])
  BY <1>2, <1>7, <1>16, SetsSlot
<1> DEFINE t == [s EXCEPT ![id + 1] = v]
<1>18. /\ Len(t) = Len(s) /\ t[id + 1] = v
       /\ \A i \in 1 .. Len(s) : i # id + 1 => t[i] = s[i]
  BY <1>5
<1>19. new[c] = t /\ \A d \in Context : d # c => new[d] = valid[d]
  BY <1>6
<1> HIDE DEF t
<1>10. SlotIn(new, c, id) = v
  BY <1>5, <1>18, <1>19 DEF SlotIn
<1>11. ASSUME NEW d \in Context, NEW i \in Nat, d # c \/ i # id
       PROVE  SlotIn(new, d, i) = SlotIn(valid, d, i)
  <2>1. CASE d # c
    BY <2>1, <1>19 DEF SlotIn
  <2>2. CASE d = c
    <3>1. Len(s) > i => i + 1 \in 1 .. Len(s) /\ i + 1 # id + 1
      BY <2>2, <1>11, <1>5
    <3> QED  BY <3>1, <2>2, <1>5, <1>18, <1>19 DEF SlotIn
  <2> QED  BY <2>1, <2>2
<1>12. s[id + 1] = SlotIn(value, c, id) /\ s[id + 1] \in Value
  <2>1. id + 1 \in 1 .. Len(s)
    BY <1>5
  <2>2. SlotIn(valid, c, id) = s[id + 1]
    BY <1>5 DEF SlotIn
  <2> QED  BY <2>1, <2>2, <1>4
<1>13. \A d \in Context : Len(new[d]) >= Len(value[d])
  BY <1>3, <1>9
<1>14. \A d \in Context, i \in Nat : d # c \/ i # id => SlotIn(new, d, i) = SlotIn(value, d, i)
  BY <1>4, <1>11
<1>15. Len(new[c]) > id
  BY <1>9, <1>16
<1> QED  BY <1>0, <1>5, <1>8, <1>10, <1>12, <1>13, <1>14, <1>15

LEMMA renderProviderStep ==
  ASSUME ServerInv, renderProvider
  PROVE  ServerInv'
<1> DEFINE f == NewFrame(call.child, Kids[call.child], <<>>)
           c == [call EXCEPT !.child = Nil]
           O == pushProvider(R, call.child)
           S == PushFrame(O, f)
<1>0. rendering("provider") /\ <<>> \in Seq(Element)
  BY DEF renderProvider
<1>1. /\ isReading /\ call.run.pc = 0 /\ f \in Frame /\ f.type = call.child /\ call.child \in Element
      /\ c \in Call /\ c.renderer = call.renderer /\ c.prevThreadID = call.prevThreadID
      /\ c.run = NoRun
  BY <1>0, PushedFacts
<1>2. /\ call.renderer \in Alive(renderer)
      /\ R \in RendererState /\ R = renderer[call.renderer] /\ ~R.exhausted
  BY <1>1, CallFacts
<1>3. renderer' = With(renderer, call.renderer, S) /\ reading' = WithCall(c)
  BY DEF renderProvider, Pushed, WithRenderer, With, PushFrame
<1>4. PICK d \in Context : d = ContextOf[call.child]
  BY <1>0, <1>1, ServerRendererAssumption DEF ServerRendererAssumption, rendering
<1>5. provides(f, d)
  <2>1. call.child # Nil /\ Kind[call.child] = "provider"
    BY <1>0 DEF rendering
  <2> QED  BY <2>1, <1>1, <1>4 DEF provides
<1> HIDE DEF f, c
<1>6. PICK id \in Nat : id = R.threadID
  BY <1>2 DEF RendererState
<1>7. Core(nextAvailableThreadIDs, value, renderer) /\ value \in [Context -> Seq(Value)]
  BY DEF ServerInv, Core, SlotsOK
<1>8. PICK v \in Value : v = ValueOf[call.child]
  BY <1>1 DEF Value
<1>9. PICK new : new = Provided(d, id, v)
  OBVIOUS
<1>10. value' = new
  BY <1>4, <1>6, <1>8, <1>9 DEF renderProvider, Provided
<1>11. /\ new \in [Context -> Seq(Value)] /\ Len(new[d]) > id /\ SlotIn(new, d, id) = v
       /\ validateContextBounds(d, id)[id + 1] = SlotIn(value, d, id)
       /\ validateContextBounds(d, id)[id + 1] \in Value
  BY <1>7, <1>9, ProvidesValue
<1>12. \A b \in Context : Len(new[b]) >= Len(value[b])
  BY <1>7, <1>9, ProvidesValue
<1>13. \A b \in Context, i \in Nat : b # d \/ i # id => SlotIn(new, b, i) = SlotIn(value, b, i)
  BY <1>7, <1>9, ProvidesValue
<1>14. PICK p \in Entry : p = [context |-> d, previous |-> validateContextBounds(d, id)[id + 1]]
  BY <1>11 DEF Entry
<1>15. p.context = d /\ p.previous = SlotIn(value, d, id)
  BY <1>11, <1>14
<1>16. O = [R EXCEPT !.contextStack = Append(@, p)]
  BY <1>4, <1>6, <1>14 DEF pushProvider
<1>17. /\ O \in RendererState /\ O.threadID = R.threadID /\ O.exhausted = R.exhausted
       /\ O.contextStack = Append(R.contextStack, p) /\ O.stack = R.stack
  <2>1. R.contextStack \in Seq(Entry)
    BY <1>2 DEF RendererState
  <2>4. Append(R.contextStack, p) \in Seq(Entry)
    BY <2>1
  <2>2. PICK s \in Seq(Entry) : s = Append(R.contextStack, p)
    BY <2>4, Zenon
  <2>3. O = [R EXCEPT !.contextStack = s]
    BY <2>2, <1>16
  <2> HIDE DEF O
  <2> QED  BY <2>2, <2>3, <1>2 DEF RendererState
<1> HIDE DEF O
<1>18. /\ S \in RendererState /\ S.threadID = O.threadID
       /\ S.exhausted = O.exhausted /\ S.contextStack = O.contextStack
       /\ Len(S.stack) = Len(O.stack) + 1 /\ S.stack[Len(O.stack) + 1] = f
       /\ \A i \in 1 .. Len(O.stack) : S.stack[i].type = O.stack[i].type
  BY <1>1, <1>17, FramePushed
<1> HIDE DEF S
<1>19. Core(nextAvailableThreadIDs', value', renderer')
  <2>1. nextAvailableThreadIDs' = nextAvailableThreadIDs
    BY DEF renderProvider
  <2>2. PICK r \in Alive(renderer) : r = call.renderer /\ renderer[r] = R
    BY <1>2
  <2>3. /\ S.threadID = renderer[r].threadID /\ ~S.exhausted
        /\ S.contextStack = Append(renderer[r].contextStack, p)
        /\ Len(S.stack) = Len(renderer[r].stack) + 1
        /\ S.stack[Len(S.stack)].type = call.child
        /\ provides(S.stack[Len(S.stack)], d)
    BY <2>2, <1>1, <1>2, <1>5, <1>17, <1>18
  <2>4. \A i \in 1 .. Len(renderer[r].stack) : S.stack[i].type = renderer[r].stack[i].type
    BY <2>2, <1>17, <1>18
  <2>5. id = renderer[r].threadID
    BY <2>2, <1>6
  <2>6. p.previous = SlotIn(value, d, renderer[r].threadID)
    BY <2>5, <1>15
  <2>7. Len(new[d]) > renderer[r].threadID /\ SlotIn(new, d, renderer[r].threadID) = ValueOf[call.child]
    BY <2>5, <1>8, <1>11
  <2>8. \A b \in Context, i \in Nat :
          b # d \/ i # renderer[r].threadID => SlotIn(new, b, i) = SlotIn(value, b, i)
    BY <2>5, <1>13
  <2>9. new \in [Context -> Seq(Value)] /\ S \in RendererState
    BY <1>11, <1>18
  <2>10. Core(nextAvailableThreadIDs, new, With(renderer, r, S))
    BY <2>3, <2>4, <2>6, <2>7, <2>8, <2>9, <1>1, <1>7, <1>12, <1>15, PushesCore
  <2> QED  BY <2>1, <2>2, <2>10, <1>3, <1>10
<1>20. currentThreadID' = currentThreadID /\ hooks' = hooks
  BY DEF renderProvider
<1> QED  BY <1>1, <1>2, <1>3, <1>17, <1>18, <1>19, <1>20, GoesOn

LEMMA WithTwice ==
  ASSUME NEW rend \in [Renderer -> RendererState], NEW r \in Renderer,
         NEW P \in RendererState, NEW S \in RendererState
  PROVE  With(With(rend, r, P), r, S) = With(rend, r, S)
<1> QED  BY DEF With

\* The frame on top goes, and is no provider.
LEMMA PopsPlain ==
  ASSUME ServerInv, isReading, R.stack # <<>>, plain(frame),
         NEW P \in RendererState, P.threadID = R.threadID, ~P.exhausted,
         P.contextStack = R.contextStack, P.stack = PopsFrame(R).stack
  PROVE  Core(nextAvailableThreadIDs, value, With(renderer, call.renderer, P))
<1>1. PICK r \in Alive(renderer) : r = call.renderer /\ R = renderer[r] /\ R \in RendererState
  BY CallFacts
<1>2. PICK O \in RendererState : O = R
  BY <1>1
<1>3. /\ Len(O.stack) = Len(PopsFrame(O).stack) + 1
      /\ \A i \in 1 .. Len(PopsFrame(O).stack) : PopsFrame(O).stack[i].type = O.stack[i].type
      /\ frame = O.stack[Len(O.stack)]
  BY <1>2, FramePopped DEF frame
<1>4. /\ Len(O.stack) = Len(P.stack) + 1 /\ plain(O.stack[Len(O.stack)])
      /\ \A i \in 1 .. Len(P.stack) : P.stack[i].type = O.stack[i].type
  BY <1>2, <1>3
<1>5. Core(nextAvailableThreadIDs, value, renderer)
  BY DEF ServerInv
<1>6. Core(nextAvailableThreadIDs, value, With(renderer, r, P))
  BY <1>1, <1>2, <1>4, <1>5, ShrinksCore
<1> QED  BY <1>1, <1>6

LEMMA TopHasEntry ==
  ASSUME NEW S \in RendererState, StackMatches(S), S.stack # <<>>, NEW c \in Context,
         provides(S.stack[Len(S.stack)], c)
  PROVE  S.contextStack # <<>>
<1>1. PICK n \in Nat : n = Len(S.stack) /\ n # 0
  BY DEF RendererState
<1>2. PICK at \in [1 .. Len(S.contextStack) -> 1 .. Len(S.stack)] : IsMatch(S, at)
  BY DEF StackMatches
<1>3. \E k \in 1 .. Len(S.contextStack) : at[k] = n
  <2>1. \A i \in 1 .. Len(S.stack), d \in Context :
          provides(S.stack[i], d) => \E k \in 1 .. Len(S.contextStack) : at[k] = i
    BY <1>2 DEF IsMatch
  <2>2. n \in 1 .. Len(S.stack) /\ provides(S.stack[n], c)
    BY <1>1
  <2> QED  BY <2>1, <2>2
<1> QED  BY <1>3

LEMMA PopFrameStep ==
  ASSUME ServerInv, PopFrame
  PROVE  ServerInv'
<1> DEFINE type == IF frame.type = Nil THEN "dom" ELSE Kind[frame.type]
           here == type = "suspense" /\ call.suspended
           c == [call EXCEPT !.suspended = @ /\ ~here]
           P == PopsFrame(R)
<1>0. isReading /\ R.stack # <<>> /\ call.child = Nil
  BY DEF PopFrame, betweenChildren
<1>1. /\ call \in Call /\ CallOK(call) /\ call.renderer \in Alive(renderer)
      /\ R \in RendererState /\ R = renderer[call.renderer] /\ ~R.exhausted
      /\ call.renderer \in Renderer
  BY <1>0, CallFacts
<1>2. call.run = NoRun /\ call.run.pc = 0
  BY <1>0, <1>1 DEF CallOK
<1>3. c \in Call /\ c.renderer = call.renderer /\ c.prevThreadID = call.prevThreadID /\ c.run = NoRun
  <2>1. call.suspended \in BOOLEAN
    BY <1>1 DEF Call
  <2>2. PICK b \in BOOLEAN : b = (call.suspended /\ ~here)
    BY <2>1
  <2>3. c = [call EXCEPT !.suspended = b]
    BY <2>2
  <2> HIDE DEF c
  <2> QED  BY <2>3, <1>1, <1>2 DEF Call
<1>4. reading' = WithCall(c)
  BY DEF PopFrame
<1>5. currentThreadID' = currentThreadID /\ hooks' = hooks
      /\ nextAvailableThreadIDs' = nextAvailableThreadIDs
  BY DEF PopFrame
<1>6. /\ P \in RendererState /\ P.threadID = R.threadID /\ P.exhausted = R.exhausted
      /\ P.contextStack = R.contextStack
      /\ Len(R.stack) = Len(P.stack) + 1 /\ Len(R.stack) \in Nat
      /\ \A i \in 1 .. Len(P.stack) : P.stack[i].type = R.stack[i].type
      /\ frame = R.stack[Len(R.stack)] /\ frame \in Frame
  BY <1>0, <1>1, FramePopped DEF frame
<1>7. SUFFICES ASSUME TRUE
               PROVE  \E S \in RendererState :
                        /\ S.threadID = R.threadID /\ ~S.exhausted
                        /\ renderer' = With(renderer, call.renderer, S)
                        /\ Core(nextAvailableThreadIDs, value', With(renderer, call.renderer, S))
  <2> HIDE DEF c
  <2>1. PICK S \in RendererState :
                        /\ S.threadID = R.threadID /\ ~S.exhausted
                        /\ renderer' = With(renderer, call.renderer, S)
                        /\ Core(nextAvailableThreadIDs, value', With(renderer, call.renderer, S))
    BY <1>7
  <2>2. Core(nextAvailableThreadIDs', value', renderer')
    BY <2>1, <1>5
  <2> QED  BY <2>1, <2>2, <1>0, <1>2, <1>3, <1>4, <1>5, GoesOn
<1>8. CASE type = "provider"
  <2> DEFINE S == popProvider(P)
             p == Last(R.contextStack)
  <2>1. frame.type # Nil /\ Kind[frame.type] = "provider"
    BY <1>8
  <2>2. frame.type \in Element
    BY <2>1, <1>6 DEF Frame
  <2>3. PICK d \in Context : d = ContextOf[frame.type]
    BY <2>1, <2>2, ServerRendererAssumption DEF ServerRendererAssumption
  <2>4. provides(frame, d)
    BY <2>1, <2>3 DEF provides
  <2>5. renderer' = With(renderer, call.renderer, S)
    <3>1. S = popProvider([R EXCEPT !.stack = Front(@)])
      BY DEF PopsFrame
    <3> HIDE DEF S
    <3> QED  BY <3>1, <1>8 DEF PopFrame, WithRenderer, With
  <2>6. value' = [value EXCEPT ![p.context][R.threadID + 1] = p.previous]
    BY <1>8 DEF PopFrame
  <2> HIDE DEF P, p, type, here, c
  <2>7. PICK s \in Seq(Entry) : s = P.contextStack /\ s = R.contextStack
    BY <1>6 DEF RendererState
  <2>14. s # <<>>
    <3>1. StackMatches(R)
      BY <1>1 DEF ServerInv, Core, SlotsOK
    <3>2. R.contextStack # <<>>
      BY <3>1, <2>4, <1>0, <1>1, <1>6, TopHasEntry
    <3> QED  BY <3>2, <2>7
  <2>8. PICK t \in Seq(Entry) : t = Front(s)
    <3>1. Front(s) \in Seq(Entry)
      BY <2>14 DEF Front
    <3> QED  BY <3>1, Zenon
  <2>9. /\ S \in RendererState /\ S.threadID = P.threadID /\ S.exhausted = P.exhausted
        /\ S.contextStack = Front(R.contextStack) /\ S.stack = P.stack
    <3>1. S = [P EXCEPT !.contextStack = t]
      BY <2>7, <2>8 DEF popProvider
    <3> HIDE DEF S
    <3> QED  BY <3>1, <2>7, <2>8, <1>6 DEF RendererState
  <2> HIDE DEF S
  <2>10. PICK r \in Alive(renderer) : r = call.renderer /\ renderer[r] = R
    BY <1>1
  <2>11. Core(nextAvailableThreadIDs, value, renderer)
    BY DEF ServerInv
  <2>12. /\ S.threadID = renderer[r].threadID /\ ~S.exhausted
         /\ S.contextStack = Front(renderer[r].contextStack)
         /\ Len(renderer[r].stack) = Len(S.stack) + 1
         /\ \A i \in 1 .. Len(S.stack) : S.stack[i].type = renderer[r].stack[i].type
         /\ provides(renderer[r].stack[Len(renderer[r].stack)], d)
    BY <2>4, <2>9, <2>10, <1>1, <1>6
  <2>13. Last(renderer[r].contextStack).context = d
    BY <2>9, <2>11, <2>12, PopsCore
  <2>15. Core(nextAvailableThreadIDs,
              WithSlot(value, d, renderer[r].threadID, Last(renderer[r].contextStack).previous),
              With(renderer, r, S))
    BY <2>9, <2>11, <2>12, PopsCore
  <2>16. value' = WithSlot(value, d, renderer[r].threadID, Last(renderer[r].contextStack).previous)
    BY <2>6, <2>10, <2>13 DEF WithSlot, p
  <2> QED  BY <2>5, <2>9, <2>10, <2>15, <2>16, <1>1, <1>6
<1>9. CASE type # "provider"
  <2>1. plain(frame)
    BY <1>9 DEF plain
  <2>2. value' = value
    BY <1>9 DEF PopFrame
  <2>3. CASE type = "suspense"
    <3> DEFINE O == [P EXCEPT !.suspenseDepth = @ - 1]
               f == NewFrame(Nil, frame.fallback, <<>>)
    <3>1. /\ O \in RendererState /\ O.threadID = R.threadID /\ ~O.exhausted
          /\ O.contextStack = R.contextStack /\ O.stack = P.stack
      <4> HIDE DEF P
      <4> QED  BY <1>1, <1>6 DEF RendererState
    <3>2. f \in Frame /\ f.type = Nil
      <4>1. frame.fallback \in Seq(Element) /\ <<>> \in Seq(Element)
        BY <1>6 DEF Frame
      <4> QED  BY <4>1, NewFrameType
    <3>3. renderer' = With(renderer, call.renderer, IF call.suspended THEN PushFrame(O, f) ELSE O)
      <4>1. renderer' = With(renderer, call.renderer,
              [P EXCEPT !.suspenseDepth = @ - 1,
                        !.stack = IF here THEN Append(@, f) ELSE @])
        BY <2>3 DEF PopFrame, WithRenderer, With, PopsFrame
      <4>2. here <=> call.suspended
        BY <2>3
      <4> HIDE DEF here, f, P
      <4>3. CASE call.suspended
        BY <4>1, <4>2, <4>3, <1>6 DEF PushFrame, RendererState
      <4>4. CASE ~call.suspended
        BY <4>1, <4>2, <4>4, <1>6 DEF RendererState
      <4> QED  BY <4>3, <4>4
    <3> HIDE DEF O, f
    <3>4. Core(nextAvailableThreadIDs, value, With(renderer, call.renderer, O))
      BY <3>1, <2>1, <1>0, PopsPlain
    <3>5. CASE ~call.suspended
      BY <3>1, <3>3, <3>4, <3>5, <2>2
    <3>6. CASE call.suspended
      <4>1. PICK r \in Renderer : r = call.renderer
        BY <1>1
      <4>2. PICK rend \in [Renderer -> RendererState] : rend = With(renderer, r, O)
        <5>1. With(renderer, r, O) \in [Renderer -> RendererState]
          BY <3>4, <4>1 DEF Core, ThreadsOK
        <5> QED  BY <5>1, Zenon
      <4>3. renderer \in [Renderer -> RendererState]
        BY DEF ServerInv, Core, ThreadsOK
      <4>4. rend[r] = O /\ r \in Alive(rend)
        <5>1. rend[r] = O
          BY <4>2, <4>3, <3>1, ExceptRenderer
        <5> QED  BY <5>1, <3>1 DEF Alive
      <4>5. /\ PushFrame(O, f) \in RendererState /\ PushFrame(O, f).threadID = O.threadID
            /\ PushFrame(O, f).exhausted = O.exhausted /\ PushFrame(O, f).contextStack = O.contextStack
            /\ Len(PushFrame(O, f).stack) = Len(O.stack) + 1
            /\ PushFrame(O, f).stack[Len(O.stack) + 1] = f
            /\ \A i \in 1 .. Len(O.stack) : PushFrame(O, f).stack[i].type = O.stack[i].type
        BY <3>1, <3>2, FramePushed
      <4>6. PICK S \in RendererState : S = PushFrame(O, f)
        BY <4>5
      <4>7. plain(f)
        BY <3>2 DEF plain
      <4>8. Core(nextAvailableThreadIDs, value, With(rend, r, S))
        BY <4>1, <4>2, <4>4, <4>5, <4>6, <4>7, <3>1, <3>4, AddsCore
      <4>9. With(rend, r, S) = With(renderer, r, S)
        BY <4>2, <4>3, <3>1, WithTwice
      <4> QED  BY <4>1, <4>5, <4>6, <4>8, <4>9, <3>1, <3>3, <3>6, <2>2
    <3> QED  BY <3>5, <3>6
  <2>4. CASE type # "suspense"
    <3>1. renderer' = With(renderer, call.renderer, P)
      BY <2>4, <1>9 DEF PopFrame, WithRenderer, With, PopsFrame
    <3> HIDE DEF P
    <3>2. Core(nextAvailableThreadIDs, value, With(renderer, call.renderer, P))
      <4>1. P.stack = PopsFrame(R).stack /\ ~P.exhausted
        BY <1>1, <1>6 DEF P
      <4> QED  BY <4>1, <2>1, <1>0, <1>6, PopsPlain
    <3> QED  BY <3>1, <3>2, <2>2, <1>1, <1>6
  <2> QED  BY <2>3, <2>4
<1> QED  BY <1>8, <1>9

\* A call begins or ends that uses no hooks.
LEMMA HooksBegin ==
  ASSUME NEW calls \in Seq(Call), NEW h, HooksOK(calls, h),
         Len(calls) # 0 => ~IsUsing(calls[Len(calls)]), NEW c \in Call, c.run = NoRun
  PROVE  HooksOK(Append(calls, c), h)
<1>1. PICK after : after = Append(calls, c)
  OBVIOUS
<1>2. PICK n \in Nat : n = Len(calls)
  OBVIOUS
<1>3. Len(after) = n + 1 /\ after[n + 1] = c /\ \A i \in 1 .. n : after[i] = calls[i]
  BY <1>1, <1>2
<1>4. AsNew(h)
  BY <1>2 DEF HooksOK
<1>5. \A i \in 1 .. n : /\ ~IsUsing(calls[i]) => calls[i].run.states = <<>>
                        /\ i < n \/ calls[i].run.failing => ~IsUsing(calls[i])
  BY <1>2 DEF HooksOK
<1>6. ~IsUsing(c) /\ c.run.states = <<>>
  BY DEF IsUsing, NoRun
<1>7. ASSUME NEW i \in 1 .. n
      PROVE  ~IsUsing(calls[i])
  <2>1. i < n \/ i = n
    OBVIOUS
  <2> QED  BY <2>1, <1>2, <1>5
<1>8. ASSUME NEW i \in 1 .. n + 1
      PROVE  /\ ~IsUsing(after[i]) => after[i].run.states = <<>>
             /\ i < n + 1 \/ after[i].run.failing => ~IsUsing(after[i])
  <2>1. CASE i = n + 1
    BY <2>1, <1>3, <1>6
  <2>2. CASE i # n + 1
    <3>1. i \in 1 .. n /\ after[i] = calls[i]
      BY <2>2, <1>3
    <3> QED  BY <3>1, <1>5, <1>7
  <2> QED  BY <2>1, <2>2
<1>9. HooksOK(after, h)
  BY <1>3, <1>4, <1>6, <1>8 DEF HooksOK
<1> QED  BY <1>1, <1>9

LEMMA HooksEnd ==
  ASSUME NEW calls \in Seq(Call), NEW h, HooksOK(calls, h), Len(calls) # 0,
         ~IsUsing(calls[Len(calls)])
  PROVE  HooksOK(Front(calls), h)
<1>1. PICK after : after = Front(calls)
  OBVIOUS
<1>2. PICK n \in Nat : n + 1 = Len(calls)
  <2>1. Len(calls) - 1 \in Nat /\ (Len(calls) - 1) + 1 = Len(calls)
    OBVIOUS
  <2> QED  BY <2>1
<1>3. Len(after) = n /\ \A i \in 1 .. n : after[i] = calls[i]
  BY <1>1, <1>2 DEF Front
<1>4. AsNew(h)
  BY <1>2 DEF HooksOK
<1>5. \A i \in 1 .. n + 1 : /\ ~IsUsing(calls[i]) => calls[i].run.states = <<>>
                            /\ i < n + 1 => ~IsUsing(calls[i])
  BY <1>2 DEF HooksOK
<1>6. \A i \in 1 .. n : ~IsUsing(after[i]) /\ after[i].run.states = <<>>
  <2> TAKE i \in 1 .. n
  <2>1. i \in 1 .. n + 1 /\ i < n + 1 /\ after[i] = calls[i]
    BY <1>3
  <2> QED  BY <2>1, <1>5
<1>7. ~(Len(after) # 0 /\ IsUsing(after[Len(after)]))
  <2>1. n # 0 => n \in 1 .. n
    OBVIOUS
  <2> QED  BY <2>1, <1>3, <1>6
<1>8. HooksOK(after, h)
  BY <1>3, <1>4, <1>6, <1>7 DEF HooksOK
<1> QED  BY <1>1, <1>8

LEMMA ReadingType ==
  ASSUME NEW r \in Renderer, currentThreadID \in Nat
  PROVE  /\ Reading(r) \in Call /\ CallOK(Reading(r)) /\ Reading(r).renderer = r
         /\ Reading(r).prevThreadID = currentThreadID /\ Reading(r).run = NoRun
<1>1. NoRun \in Run /\ NoRun.pc = 0
  BY DEF NoRun, Run
<1> QED  BY <1>1 DEF Reading, Call, CallOK

LEMMA CreateStep ==
  ASSUME ServerInv, NEW r \in Stream, NEW e \in Top, Create(r, e)
  PROVE  ServerInv'
<1>1. PICK q \in Renderer \ Alive(renderer) : q = r
  <2>1. r \in Renderer /\ renderer[r].exhausted
    BY DEF Renderer, Create, isAlive
  <2> QED  BY <2>1 DEF Alive
<1>2. PICK x \in Element : x = e
  BY ServerRendererAssumption DEF ServerRendererAssumption
<1>3. Core(nextAvailableThreadIDs, value, renderer)
  BY DEF ServerInv
<1> DEFINE alloc == allocThreadID(nextAvailableThreadIDs)
<1>4. Core(alloc.ids, value, With(renderer, q, NewRenderer(alloc.id, x)))
  BY <1>3, AllocatesCore
<1>5. /\ nextAvailableThreadIDs' = alloc.ids /\ value' = value
      /\ renderer' = With(renderer, q, NewRenderer(alloc.id, x))
  BY <1>1, <1>2 DEF Create, With
<1> HIDE DEF alloc
<1>6. Core(nextAvailableThreadIDs', value', renderer')
  BY <1>4, <1>5
<1>7. reading = <<>> /\ reading' = reading /\ currentThreadID' = currentThreadID /\ hooks' = hooks
  BY DEF Create, isReading
<1>8. Len(reading) = 0
  BY <1>7
<1>9. CallsOK(reading, renderer, currentThreadID) => CallsOK(reading, renderer', currentThreadID)
  BY <1>8 DEF CallsOK
<1> QED  BY <1>6, <1>7, <1>9 DEF ServerInv

LEMMA ReadStep ==
  ASSUME ServerInv, NEW r \in Stream, Read(r)
  PROVE  ServerInv'
<1>1. r \in Renderer /\ r \in Alive(renderer)
  BY DEF Renderer, Read, isAlive, Alive
<1>2. /\ reading = <<>> /\ reading' = Append(reading, Reading(r))
      /\ currentThreadID' = renderer[r].threadID
      /\ UNCHANGED <<nextAvailableThreadIDs, value, renderer, hooks>>
  BY DEF Read, isReading, allocatorVars
<1>3. Len(reading) = 0 /\ reading \in Seq(Call)
  BY <1>2
<1>4. CallsOK(reading, renderer, currentThreadID)
  BY DEF ServerInv
<1>5. currentThreadID = 0
  BY <1>3, <1>4 DEF CallsOK
<1>6. /\ Reading(r) \in Call /\ CallOK(Reading(r)) /\ Reading(r).renderer = r
      /\ Reading(r).prevThreadID = currentThreadID /\ Reading(r).run = NoRun
  BY <1>1, <1>5, ReadingType
<1>7. CallsOK(Append(reading, Reading(r)), renderer, renderer[Reading(r).renderer].threadID)
  <2>1. PICK c \in Call : c = Reading(r)
    BY <1>6
  <2>2. CallOK(c) /\ c.renderer \in Alive(renderer) /\ c.prevThreadID = currentThreadID
    BY <2>1, <1>1, <1>6
  <2>3. Len(reading) # 0 => reading[Len(reading)].run.pc # 0
    BY <1>3
  <2>4. \A i \in 1 .. Len(reading) : reading[i].renderer # c.renderer
    BY <1>3
  <2>5. currentThreadID \in Nat
    BY <1>5
  <2> QED  BY <2>1, <2>2, <2>3, <2>4, <2>5, <1>4, CallBegins
<1>8. CallsOK(reading', renderer', currentThreadID')
  BY <1>2, <1>6, <1>7
<1>9. HooksRunThrough => HooksOK(reading, hooks)
  BY DEF ServerInv
<1>10. HooksRunThrough => HooksOK(Append(reading, Reading(r)), hooks)
  BY <1>3, <1>6, <1>9, HooksBegin
<1> QED  BY <1>2, <1>8, <1>10 DEF ServerInv

\* A renderer is done with an error, or before its end.
LEMMA DestroysCore ==
  ASSUME ServerInv, NEW r \in Alive(renderer)
  PROVE  Core(freeThreadID(nextAvailableThreadIDs, renderer[r].threadID),
              clearProviders(renderer[r]), With(renderer, r, destroyed(renderer[r])))
<1>1. ThreadsOK(nextAvailableThreadIDs, renderer) /\ SlotsOK(value, renderer)
  BY DEF ServerInv, Core
<1>2. PICK new : new = clearProviders(renderer[r])
  OBVIOUS
<1>3. new \in [Context -> Seq(Value)]
  BY <1>1, <1>2, ClearsProviders
<1>4. \A c \in Context : Len(new[c]) >= Len(value[c])
  BY <1>1, <1>2, ClearsProviders
<1>5. \A c \in Context, id \in Nat :
        SlotIn(new, c, id) = IF id = renderer[r].threadID THEN Default ELSE SlotIn(value, c, id)
  BY <1>1, <1>2, ClearsProviders
<1>6. Core(nextAvailableThreadIDs, value, renderer)
  BY DEF ServerInv
<1>7. Core(freeThreadID(nextAvailableThreadIDs, renderer[r].threadID), new,
           With(renderer, r, destroyed(renderer[r])))
  BY <1>3, <1>4, <1>5, <1>6, FreesCore
<1> QED  BY <1>2, <1>7

LEMMA DestroyStep ==
  ASSUME ServerInv, NEW r \in Stream, Destroy(r)
  PROVE  ServerInv'
<1>1. r \in Alive(renderer)
  BY DEF Renderer, Destroy, isAlive, Alive
<1>2. /\ nextAvailableThreadIDs' = freeThreadID(nextAvailableThreadIDs, renderer[r].threadID)
      /\ value' = clearProviders(renderer[r])
      /\ renderer' = With(renderer, r, destroyed(renderer[r]))
  BY DEF Destroy, With
<1>3. Core(nextAvailableThreadIDs', value', renderer')
  BY <1>1, <1>2, DestroysCore
<1>4. reading = <<>> /\ reading' = reading /\ currentThreadID' = currentThreadID /\ hooks' = hooks
  BY DEF Destroy, isReading
<1>5. Len(reading) = 0
  BY <1>4
<1>6. CallsOK(reading, renderer, currentThreadID) => CallsOK(reading, renderer', currentThreadID)
  BY <1>5 DEF CallsOK
<1> QED  BY <1>3, <1>4, <1>6 DEF ServerInv

LEMMA StopReadingStep ==
  ASSUME ServerInv, StopReading
  PROVE  ServerInv'
<1>0. isReading /\ call.child = Nil
  BY DEF StopReading, betweenChildren
<1>1. /\ reading \in Seq(Call) /\ Len(reading) # 0
      /\ call = reading[Len(reading)] /\ CallOK(call)
  BY <1>0, CallFacts
<1>2. /\ reading' = Front(reading) /\ currentThreadID' = call.prevThreadID
      /\ UNCHANGED <<nextAvailableThreadIDs, value, renderer, hooks>>
  BY DEF StopReading, allocatorVars
<1>3. CallsOK(reading, renderer, currentThreadID)
  BY DEF ServerInv
<1>4. CallsOK(Front(reading), renderer, reading[Len(reading)].prevThreadID)
  BY <1>1, <1>3, CallEnds
<1>5. ~IsUsing(reading[Len(reading)])
  BY <1>0, <1>1 DEF IsUsing, CallOK
<1>6. HooksRunThrough => HooksOK(reading, hooks)
  BY DEF ServerInv
<1>7. HooksRunThrough => HooksOK(Front(reading), hooks)
  BY <1>1, <1>5, <1>6, HooksEnd
<1>8. CallsOK(reading', renderer', currentThreadID')
  BY <1>1, <1>2, <1>4
<1> QED  BY <1>2, <1>7, <1>8 DEF ServerInv

\* The renderers are those of before, but one is done.
LEMMA OthersStay ==
  ASSUME NEW rend \in [Renderer -> RendererState], NEW r \in Renderer, NEW S \in RendererState
  PROVE  \A q \in Alive(rend) : q # r =>
           q \in Alive(With(rend, r, S)) /\ With(rend, r, S)[q].threadID = rend[q].threadID
<1> DEFINE next == With(rend, r, S)
<1>1. next[r] = S /\ \A q \in Renderer : q # r => next[q] = rend[q]
  BY ExceptRenderer
<1>2. \A q : q \in Alive(next) <=> q \in Renderer /\ IF q = r THEN ~S.exhausted ELSE q \in Alive(rend)
  BY AliveAfter
<1> HIDE DEF next
<1>3. ASSUME NEW q \in Alive(rend), q # r
      PROVE  q \in Alive(next) /\ next[q].threadID = rend[q].threadID
  <2>1. q \in Renderer
    BY DEF Alive
  <2> QED  BY <2>1, <1>1, <1>2, <1>3
<1> QED  BY <1>3 DEF next

LEMMA FinishStep ==
  ASSUME ServerInv, Finish
  PROVE  ServerInv'
<1>0. isReading /\ call.child = Nil /\ R.stack = <<>>
  BY DEF Finish, betweenChildren
<1>1. /\ reading \in Seq(Call) /\ Len(reading) # 0
      /\ call = reading[Len(reading)] /\ CallOK(call)
      /\ call.renderer \in Alive(renderer) /\ call.renderer \in Renderer
      /\ R = renderer[call.renderer] /\ R \in RendererState
  BY <1>0, CallFacts
<1>2. /\ reading' = Front(reading) /\ currentThreadID' = call.prevThreadID
      /\ nextAvailableThreadIDs' = freeThreadID(nextAvailableThreadIDs, R.threadID)
      /\ renderer' = With(renderer, call.renderer, destroyed(R))
      /\ value' = value /\ hooks' = hooks
  BY DEF Finish, WithRenderer, With
<1>3. PICK r \in Alive(renderer) : r = call.renderer /\ renderer[r] = R
  BY <1>1
<1>4. Core(nextAvailableThreadIDs, value, renderer)
  BY DEF ServerInv
<1>5. value \in [Context -> Seq(Value)] /\ renderer \in [Renderer -> RendererState]
  BY <1>4 DEF Core, SlotsOK, ThreadsOK
<1>6. \A c \in Context : Len(value[c]) >= Len(value[c])
  <2> TAKE c \in Context
  <2>1. Len(value[c]) \in Nat
    BY <1>5
  <2> QED  BY <2>1
<1>7. \A c \in Context : SlotIn(value, c, R.threadID) = Default
  <2> TAKE c \in Context
  <2>1. IsNearest(SlotIn(value, c, renderer[r].threadID), renderer[r].stack, Len(renderer[r].stack), c)
    BY <1>4 DEF Core, SlotsOK
  <2>2. Len(R.stack) = 0
    BY <1>0
  <2>3. IsNearest(SlotIn(value, c, R.threadID), R.stack, 0, c)
    BY <2>1, <2>2, <1>3
  <2> QED  BY <2>3 DEF IsNearest
<1>8. \A c \in Context, id \in Nat :
        SlotIn(value, c, id) = IF id = renderer[r].threadID THEN Default ELSE SlotIn(value, c, id)
  BY <1>3, <1>7
<1>9. Core(freeThreadID(nextAvailableThreadIDs, renderer[r].threadID), value,
           With(renderer, r, destroyed(renderer[r])))
  BY <1>4, <1>5, <1>6, <1>8, FreesCore
<1>10. Core(nextAvailableThreadIDs', value', renderer')
  BY <1>2, <1>3, <1>9
<1>11. destroyed(R) \in RendererState
  BY <1>1 DEF destroyed, RendererState
<1>12. CallsOK(reading, renderer, currentThreadID)
  BY DEF ServerInv
<1>13. \A q \in Alive(renderer) : q # reading[Len(reading)].renderer =>
         q \in Alive(renderer') /\ renderer'[q].threadID = renderer[q].threadID
  BY <1>1, <1>2, <1>5, <1>11, OthersStay
<1>14. CallsOK(Front(reading), renderer', reading[Len(reading)].prevThreadID)
  BY <1>1, <1>12, <1>13, CallEnds
<1>15. ~IsUsing(reading[Len(reading)])
  BY <1>0, <1>1 DEF IsUsing, CallOK
<1>16. HooksRunThrough => HooksOK(reading, hooks)
  BY DEF ServerInv
<1>17. HooksRunThrough => HooksOK(Front(reading), hooks)
  BY <1>1, <1>15, <1>16, HooksEnd
<1>18. CallsOK(reading', renderer', currentThreadID')
  BY <1>1, <1>2, <1>14
<1> QED  BY <1>2, <1>10, <1>17, <1>18 DEF ServerInv

LEMMA UsedFacts ==
  ASSUME NEW e \in Element
  PROVE  /\ Body[e] \in Seq({"useState", "update", "renderToString", "suspend", "throw"})
         /\ DOMAIN Body[e] = 1 .. Len(Body[e]) /\ Len(Body[e]) \in Nat
         /\ \A pc \in Nat : IsFiniteSet(Used(e, pc)) /\ Cardinality(Used(e, pc)) \in Nat
         /\ Cardinality(Used(e, 1)) = 0
         /\ \A pc \in 1 .. Len(Body[e]) : Cardinality(Used(e, pc + 1)) =
              IF Body[e][pc] = "useState" THEN Cardinality(Used(e, pc)) + 1
              ELSE Cardinality(Used(e, pc))
         /\ \A p, q \in Nat : p <= q => Cardinality(Used(e, p)) <= Cardinality(Used(e, q))
         /\ \A pc \in Nat, i \in 1 .. Len(Body[e]) :
              i < pc /\ Body[e][i] = "useState" => Cardinality(Used(e, pc)) # 0
<1>1. Body[e] \in Seq({"useState", "update", "renderToString", "suspend", "throw"})
  BY ServerRendererAssumption DEF ServerRendererAssumption
<1>2. PICK n \in Nat : n = Len(Body[e]) /\ DOMAIN Body[e] = 1 .. n
  BY <1>1
<1>3. IsFiniteSet(1 .. n)
  BY FS_Interval
<1>4. ASSUME NEW pc \in Nat
      PROVE  IsFiniteSet(Used(e, pc)) /\ Cardinality(Used(e, pc)) \in Nat
  <2>1. Used(e, pc) \subseteq 1 .. n
    BY <1>2 DEF Used
  <2>2. IsFiniteSet(Used(e, pc))
    BY <2>1, <1>3, FS_Subset
  <2> QED  BY <2>2, FS_CardinalityType
<1>5. Cardinality(Used(e, 1)) = 0
  <2>1. Used(e, 1) = {}
    BY DEF Used
  <2> QED  BY <2>1, FS_EmptySet
<1>6. ASSUME NEW pc \in 1 .. n
      PROVE  Cardinality(Used(e, pc + 1)) =
               IF Body[e][pc] = "useState" THEN Cardinality(Used(e, pc)) + 1
               ELSE Cardinality(Used(e, pc))
  <2>1. CASE Body[e][pc] = "useState"
    <3>1. Used(e, pc + 1) = Used(e, pc) \cup {pc} /\ pc \notin Used(e, pc)
      BY <2>1, <1>2 DEF Used
    <3>2. IsFiniteSet(Used(e, pc))
      BY <1>4
    <3> QED  BY <3>1, <3>2, <2>1, FS_AddElement
  <2>2. CASE Body[e][pc] # "useState"
    <3>1. Used(e, pc + 1) = Used(e, pc)
      <4>1. \A i \in 1 .. n : i < pc + 1 /\ Body[e][i] = "useState" <=> i < pc /\ Body[e][i] = "useState"
        BY <2>2
      <4> QED  BY <4>1, <1>2 DEF Used
    <3> QED  BY <3>1, <2>2
  <2> QED  BY <2>1, <2>2
<1>7. ASSUME NEW p \in Nat, NEW q \in Nat, p <= q
      PROVE  Cardinality(Used(e, p)) <= Cardinality(Used(e, q))
  <2>1. Used(e, p) \subseteq Used(e, q)
    BY <1>7 DEF Used
  <2>2. IsFiniteSet(Used(e, q))
    BY <1>4
  <2> QED  BY <2>1, <2>2, FS_Subset
<1>8. ASSUME NEW pc \in Nat, NEW i \in 1 .. n, i < pc, Body[e][i] = "useState"
      PROVE  Cardinality(Used(e, pc)) # 0
  <2>1. i \in Used(e, pc)
    BY <1>2, <1>8 DEF Used
  <2>2. IsFiniteSet(Used(e, pc))
    BY <1>4
  <2> QED  BY <2>1, <2>2, FS_EmptySet
<1> QED  BY <1>1, <1>2, <1>4, <1>5, <1>6, <1>7, <1>8

\* The innermost component goes on, with the hooks h after it.
LEMMA HooksGoOn ==
  ASSUME NEW calls \in Seq(Call), NEW h, HooksOK(calls, h), Len(calls) # 0,
         NEW next, NEW c \in Call,
         ~IsUsing(c) => c.run.states = <<>>, c.run.failing => ~IsUsing(c),
         IF IsUsing(c) THEN HooksOf(next, c.child, c.run) ELSE AsNew(next)
  PROVE  HooksOK(Replaced(calls, c), next)
<1>1. PICK after : after = Replaced(calls, c)
  OBVIOUS
<1>2. PICK n \in Nat : n = Len(calls) /\ n # 0
  OBVIOUS
<1>3. Len(after) = n /\ after[n] = c /\ \A i \in 1 .. n : i < n => after[i] = calls[i]
  BY <1>1, <1>2, LastReplaced
<1>5. \A i \in 1 .. n : /\ ~IsUsing(calls[i]) => calls[i].run.states = <<>>
                        /\ i < n \/ calls[i].run.failing => ~IsUsing(calls[i])
  BY <1>2 DEF HooksOK
<1>6. ASSUME NEW i \in 1 .. n
      PROVE  /\ ~IsUsing(after[i]) => after[i].run.states = <<>>
             /\ i < n \/ after[i].run.failing => ~IsUsing(after[i])
  <2>1. CASE i = n
    BY <2>1, <1>3
  <2>2. CASE i # n
    <3>1. i < n
      BY <2>2, <1>2
    <3>2. after[i] = calls[i]
      BY <3>1, <1>3
    <3> QED  BY <3>1, <3>2, <1>5
  <2> QED  BY <2>1, <2>2
<1>7. HooksOK(after, next)
  BY <1>2, <1>3, <1>6 DEF HooksOK
<1> QED  BY <1>1, <1>7

LEMMA ComponentGoesOn ==
  ASSUME ServerInv, isReading, NEW c \in Call, CallOK(c), c.renderer = call.renderer,
         c.prevThreadID = call.prevThreadID, reading' = WithCall(c),
         UNCHANGED <<nextAvailableThreadIDs, value, renderer, currentThreadID>>,
         HooksTypeOK(hooks'),
         HooksRunThrough =>
           /\ ~IsUsing(c) => c.run.states = <<>>
           /\ c.run.failing => ~IsUsing(c)
           /\ IF IsUsing(c) THEN HooksOf(hooks', c.child, c.run) ELSE AsNew(hooks')
  PROVE  ServerInv'
<1>1. reading \in Seq(Call) /\ Len(reading) # 0 /\ call = reading[Len(reading)]
  BY CallFacts
<1>2. reading' = Replaced(reading, c)
  BY DEF WithCall, Replaced
<1>3. CallsOK(reading, renderer, currentThreadID)
  BY DEF ServerInv
<1>4. CallsOK(Replaced(reading, c), renderer, currentThreadID)
  BY <1>1, <1>3, CallGoesOn
<1>5. CallsOK(reading', renderer', currentThreadID')
  BY <1>2, <1>4
<1>6. HooksRunThrough => HooksOK(reading', hooks')
  <2>1. HooksRunThrough => HooksOK(reading, hooks)
    BY DEF ServerInv
  <2>2. HooksRunThrough => HooksOK(Replaced(reading, c), hooks')
    BY <2>1, <1>1, HooksGoOn
  <2> QED  BY <2>2, <1>2
<1> QED  BY <1>5, <1>6 DEF ServerInv

\* A call with another component, or another state of it.
Changed(o, x, y) == [o EXCEPT !.child = x, !.run = y]

LEMMA ChangedCall ==
  ASSUME NEW o \in Call, NEW x \in Element \cup {Nil}, NEW y \in Run
  PROVE  /\ Changed(o, x, y) \in Call
         /\ Changed(o, x, y).renderer = o.renderer
         /\ Changed(o, x, y).prevThreadID = o.prevThreadID
         /\ Changed(o, x, y).child = x /\ Changed(o, x, y).run = y
<1> QED  BY DEF Call, Changed

\* What is known of the hooks as the innermost component goes on.
LEMMA HookFacts ==
  ASSUME ServerInv, isReading, HooksRunThrough
  PROVE  /\ ~IsUsing(call) => call.run.states = <<>>
         /\ call.run.failing => ~IsUsing(call)
         /\ IsUsing(call) => HooksOf(hooks, call.child, call.run)
         /\ ~IsUsing(call) => AsNew(hooks)
<1>1. reading \in Seq(Call) /\ Len(reading) # 0 /\ call = reading[Len(reading)] /\ Len(reading) \in Nat
  BY CallFacts
<1>2. HooksOK(reading, hooks)
  BY DEF ServerInv
<1>3. Len(reading) \in 1 .. Len(reading)
  BY <1>1
<1> QED  BY <1>1, <1>2, <1>3 DEF HooksOK

LEMMA HooksChanged ==
  ASSUME NEW h, HooksTypeOK(h), NEW n \in Nat, NEW b \in BOOLEAN, NEW m \in Nat,
         NEW list \in Seq(State), NEW at \in 0 .. Len(list),
         NEW updates, DOMAIN updates \subseteq Nat, updates \in [DOMAIN updates -> State],
         NEW g, g = [currentlyRenderingComponent |-> n, list |-> list, at |-> at, updates |-> updates,
                     didScheduleRenderPhaseUpdate |-> b, numberOfReRenders |-> m]
  PROVE  HooksTypeOK(g)
<1>1. /\ g.currentlyRenderingComponent = n /\ g.list = list /\ g.at = at /\ g.updates = updates
      /\ g.didScheduleRenderPhaseUpdate = b /\ g.numberOfReRenders = m
  OBVIOUS
<1>2. g = [currentlyRenderingComponent |-> g.currentlyRenderingComponent, list |-> g.list,
           at |-> g.at, updates |-> g.updates,
           didScheduleRenderPhaseUpdate |-> g.didScheduleRenderPhaseUpdate,
           numberOfReRenders |-> g.numberOfReRenders]
  OBVIOUS
<1>3. g.at \in 0 .. Len(g.list) /\ g.list \in Seq(State)
  BY <1>1
<1>4. DOMAIN g.updates \subseteq Nat /\ g.updates \in [DOMAIN g.updates -> State]
  BY <1>1
<1> HIDE DEF HooksTypeOK
<1>5. g.currentlyRenderingComponent \in Nat /\ g.didScheduleRenderPhaseUpdate \in BOOLEAN
      /\ g.numberOfReRenders \in Nat
  BY <1>1
<1> QED  BY <1>2, <1>3, <1>4, <1>5, Zenon DEF HooksTypeOK

\* A component begins: it has used no hooks, and those it finds are new.
LEMMA HooksOfFirst ==
  ASSUME NEW e \in Element, NEW h, AsNew(h), h.currentlyRenderingComponent # 0,
         NEW o \in Run, o.pc = 1, o.states = <<>>, o.base = 0
  PROVE  HooksOf(h, e, o)
<1>1. Cardinality(Used(e, 1)) = 0 /\ Len(Body[e]) \in Nat
  BY UsedFacts
<1>2. Len(h.list) = 0 /\ DOMAIN h.updates = {} /\ Len(o.states) = 0
  BY DEF AsNew
<1>3. h.at = 0 /\ h.numberOfReRenders = 0 /\ ~h.didScheduleRenderPhaseUpdate
  BY DEF AsNew
<1> QED  BY <1>1, <1>2, <1>3 DEF HooksOf

LEMMA callComponentStep ==
  ASSUME ServerInv, callComponent
  PROVE  ServerInv'
<1>0. /\ isReading /\ call.child # Nil /\ call.run.pc = 0
      /\ Kind[call.child] \in {"class", "function"}
  BY DEF callComponent, isRunning
<1>1. /\ call \in Call /\ call.run = NoRun /\ call.child \in Element
      /\ Len(reading) \in Nat /\ Len(reading) # 0
  BY <1>0, CallFacts, RunFacts
<1>2. PICK y \in Run : y = [NoRun EXCEPT !.pc = 1]
  <2>1. [NoRun EXCEPT !.pc = 1] \in Run
    BY RunFacts, <1>0 DEF Run
  <2> QED  BY <2>1
<1>3. y.pc = 1 /\ y.states = <<>> /\ y.base = 0 /\ ~y.failing
  BY <1>2 DEF NoRun
<1> DEFINE c == Changed(call, call.child, y)
<1>4. /\ c \in Call /\ c.renderer = call.renderer /\ c.prevThreadID = call.prevThreadID
      /\ c.child = call.child /\ c.run = y
  BY <1>1, ChangedCall
<1>5. c = [call EXCEPT !.run.pc = 1]
  BY <1>1, <1>2 DEF Call, Changed
<1> HIDE DEF c
<1>6. reading' = WithCall(c)
  BY <1>5 DEF callComponent
<1>7. UNCHANGED <<nextAvailableThreadIDs, value, renderer, currentThreadID>>
  BY DEF callComponent, allocatorVars
<1>8. PICK h : h = hooks /\ HooksTypeOK(h)
  BY DEF ServerInv
<1>9. PICK n \in Nat : n = Len(reading) /\ n # 0
  BY <1>1
<1>10. CASE isFunction
  <2>1. hooks' = [h EXCEPT !.currentlyRenderingComponent = n]
    BY <1>8, <1>9, <1>10 DEF callComponent
  <2>2. PICK g : g = hooks'
    OBVIOUS
  <2>3. g = [currentlyRenderingComponent |-> n, list |-> h.list, at |-> h.at, updates |-> h.updates,
             didScheduleRenderPhaseUpdate |-> h.didScheduleRenderPhaseUpdate,
             numberOfReRenders |-> h.numberOfReRenders]
    BY <2>1, <2>2, <1>8 DEF HooksTypeOK
  <2>4. /\ h.list \in Seq(State) /\ h.at \in 0 .. Len(h.list)
        /\ DOMAIN h.updates \subseteq Nat /\ h.updates \in [DOMAIN h.updates -> State]
        /\ h.didScheduleRenderPhaseUpdate \in BOOLEAN /\ h.numberOfReRenders \in Nat
    BY <1>8 DEF HooksTypeOK
  <2>5. HooksTypeOK(g)
    BY <2>3, <2>4, <1>8, HooksChanged
  <2>6. AsNew(h) => AsNew(g) /\ g.currentlyRenderingComponent # 0
    BY <2>3, <1>9 DEF AsNew
  <2>7. HooksRunThrough => AsNew(h)
    BY <1>0, <1>8, HookFacts DEF IsUsing
  <2>8. AsNew(h) => HooksOf(g, c.child, c.run)
    BY <2>6, <1>1, <1>3, <1>4, HooksOfFirst
  <2>9. CallOK(c) /\ c.run.states = <<>> /\ ~c.run.failing
    BY <1>1, <1>3, <1>4, <1>0 DEF CallOK
  <2> QED  BY <2>2, <2>5, <2>6, <2>7, <2>8, <2>9, <1>0, <1>4, <1>6, <1>7, ComponentGoesOn
<1>11. CASE ~isFunction
  <2>1. hooks' = h
    BY <1>8, <1>11 DEF callComponent
  <2>2. HooksRunThrough => AsNew(h)
    BY <1>0, <1>8, HookFacts DEF IsUsing
  <2>3. HooksRunThrough => ~IsUsing(c)
    BY <1>1, <1>4, <1>11 DEF IsUsing, HooksRunThrough, usesHooks, isFunction
  <2>4. CallOK(c) /\ c.run.states = <<>> /\ ~c.run.failing
    BY <1>1, <1>3, <1>4, <1>0 DEF CallOK
  <2> QED  BY <2>1, <2>2, <2>3, <2>4, <1>0, <1>4, <1>6, <1>7, <1>8, ComponentGoesOn
<1> QED  BY <1>10, <1>11

\* The state that the next hook of component e returns.
NextState(h, e) ==
  IF ~(h.at < Len(h.list)) THEN <<e, 0>>
  ELSE IF h.at + 1 \in DOMAIN h.updates THEN h.updates[h.at + 1] ELSE h.list[h.at + 1]

\* It is a state of e: the first as its updates left it.
LEMMA NextStateOwn ==
  ASSUME NEW e \in Element, NEW h, HooksTypeOK(h), NEW o \in Run, HooksOf(h, e, o),
         o.pc \in 1 .. Len(Body[e]), ~(~(h.at < Len(h.list)) /\ h.numberOfReRenders > 0)
  PROVE  /\ NextState(h, e) = <<e, IF h.at = 0 THEN o.base ELSE 0>>
         /\ h.at < Len(h.list) => h.numberOfReRenders # 0
<1>1. h.at \in Nat /\ h.at <= Len(h.list) /\ Len(h.list) \in Nat /\ h.numberOfReRenders \in Nat
  BY DEF HooksTypeOK
<1>2. h.at < Len(h.list) => h.numberOfReRenders # 0
  BY <1>1 DEF HooksOf
<1>3. CASE h.at = 0
  <2>1. CASE Len(h.list) = 0
    BY <2>1, <1>1, <1>3 DEF HooksOf, NextState
  <2>2. CASE Len(h.list) # 0
    <3>1. o.base = 1 /\ 1 \in DOMAIN h.updates /\ h.updates[1] = <<e, 1>>
      BY <2>2, <1>3 DEF HooksOf
    <3>2. h.at < Len(h.list) /\ h.at + 1 = 1
      BY <2>2, <1>1, <1>3
    <3>3. NextState(h, e) = h.updates[1]
      BY <3>1, <3>2 DEF NextState
    <3>4. NextState(h, e) = <<e, 1>>
      BY <3>1, <3>3
    <3> QED  BY <3>1, <3>4, <1>2, <1>3
  <2> QED  BY <2>1, <2>2, <1>2
<1>4. CASE h.at # 0
  <2>1. h.at + 1 \notin DOMAIN h.updates
    BY <1>1, <1>4 DEF HooksOf
  <2>2. \A s \in 2 .. Len(h.list) : h.list[s] = <<e, 0>>
    BY DEF HooksOf
  <2>3. h.at < Len(h.list) => h.at + 1 \in 2 .. Len(h.list)
    BY <1>1, <1>4
  <2>4. NextState(h, e) = <<e, 0>>
    BY <2>1, <2>2, <2>3 DEF NextState
  <2> QED  BY <2>4, <1>2, <1>4
<1> QED  BY <1>3, <1>4

LEMMA UsesState ==
  ASSUME NEW e \in Element, NEW h, HooksTypeOK(h), NEW o \in Run, HooksOf(h, e, o),
         o.pc \in 1 .. Len(Body[e]), Body[e][o.pc] = "useState",
         ~(~(h.at < Len(h.list)) /\ h.numberOfReRenders > 0),
         NEW g, HooksTypeOK(g), g.at = h.at + 1,
         g.list = IF h.at < Len(h.list) THEN [h.list EXCEPT ![h.at + 1] = NextState(h, e)]
                  ELSE Append(h.list, NextState(h, e)),
         g.updates = IF h.at < Len(h.list) THEN [q \in DOMAIN h.updates \ {h.at + 1} |-> h.updates[q]]
                     ELSE h.updates,
         g.currentlyRenderingComponent = h.currentlyRenderingComponent,
         g.didScheduleRenderPhaseUpdate = h.didScheduleRenderPhaseUpdate,
         g.numberOfReRenders = h.numberOfReRenders,
         NEW p \in Run, p.pc = o.pc + 1, p.states = Append(o.states, NextState(h, e)),
         p.first = IF o.states = <<>> THEN h.at + 1 ELSE o.first,
         p.base = o.base, p.updates = o.updates
  PROVE  HooksOf(g, e, p)
<1>1. /\ h.at \in Nat /\ h.at <= Len(h.list) /\ Len(h.list) \in Nat /\ h.numberOfReRenders \in Nat
      /\ h.list \in Seq(State) /\ o.states \in Seq(State)
  BY DEF HooksTypeOK, Run
<1>2. PICK state : state = NextState(h, e)
  OBVIOUS
<1>3. state = <<e, IF h.at = 0 THEN o.base ELSE 0>> /\ (h.at < Len(h.list) => h.numberOfReRenders # 0)
  BY <1>2, NextStateOwn
<1>4. PICK n \in Nat : n = h.at
  BY <1>1
<1>5. PICK m \in Nat : m = Len(h.list)
  BY <1>1
<1>6. /\ Len(o.states) = n /\ n = Cardinality(Used(e, o.pc))
      /\ \A s \in 1 .. n : o.states[s] = <<e, IF s = 1 THEN o.base ELSE 0>>
      /\ h.currentlyRenderingComponent # 0
      /\ \A s \in 2 .. m : h.list[s] = <<e, 0>>
      /\ DOMAIN h.updates \subseteq {1}
      /\ 1 \in DOMAIN h.updates => h.updates[1] = <<e, 1>> /\ o.updates = 1
      /\ h.numberOfReRenders = 0 => n = m
      /\ h.numberOfReRenders > 0 => m = Cardinality(Used(e, Len(Body[e]) + 1))
      /\ n = 0 => ~h.didScheduleRenderPhaseUpdate
      /\ n # 0 => o.first = 1 /\ (h.didScheduleRenderPhaseUpdate => 1 \in DOMAIN h.updates)
  BY <1>4, <1>5 DEF HooksOf
<1>7. /\ Cardinality(Used(e, o.pc + 1)) = n + 1 /\ Len(Body[e]) \in Nat
  BY <1>6, UsedFacts
<1>8. p.pc \in 1 .. Len(Body[e]) + 1
  BY <1>7
<1>9. /\ Len(p.states) = n + 1
      /\ \A s \in 1 .. n + 1 : p.states[s] = <<e, IF s = 1 THEN p.base ELSE 0>>
  <2>1. \A s : s \in State => (Len(Append(o.states, s)) = n + 1 /\ Append(o.states, s)[n + 1] = s
                               /\ \A i \in 1 .. n : Append(o.states, s)[i] = o.states[i])
    <3>1. PICK before \in Seq(State) : before = o.states /\ Len(before) = n
      BY <1>1, <1>6
    <3>2. n \in Nat
      BY <3>1
    <3> QED  BY <3>1, <3>2
  <2>2. state \in State
    <3>1. o.base \in {0, 1}
      BY DEF Run
    <3> QED  BY <3>1, <1>3 DEF State
  <2>3. /\ Len(p.states) = n + 1 /\ p.states[n + 1] = state
        /\ \A i \in 1 .. n : p.states[i] = o.states[i]
    BY <2>1, <2>2, <1>2
  <2> QED  BY <2>3, <1>3, <1>4, <1>6
<1>10. \A s \in 2 .. Len(g.list) : g.list[s] = <<e, 0>>
  <2>1. CASE n < m
    <3>1. /\ Len(g.list) = m /\ g.list[n + 1] = state
          /\ \A s \in 1 .. m : s # n + 1 => g.list[s] = h.list[s]
      BY <2>1, <1>1, <1>2, <1>4, <1>5
    <3>2. ASSUME NEW s \in 2 .. m
          PROVE  g.list[s] = <<e, 0>>
      <4>1. CASE s = n + 1
        BY <4>1, <3>1, <1>3, <1>4
      <4>2. CASE s # n + 1
        <5>1. s \in 1 .. m /\ s \in 2 .. m
          OBVIOUS
        <5>2. g.list[s] = h.list[s]
          BY <5>1, <4>2, <3>1
        <5> QED  BY <5>1, <5>2, <1>6
      <4> QED  BY <4>1, <4>2
    <3> QED  BY <3>1, <3>2
  <2>2. CASE ~(n < m)
    <3>1. n = m
      BY <2>2, <1>1, <1>4, <1>5
    <3>2. /\ Len(g.list) = m + 1 /\ g.list[m + 1] = state
          /\ \A s \in 1 .. m : g.list[s] = h.list[s]
      BY <2>2, <1>1, <1>2, <1>4, <1>5
    <3>3. ASSUME NEW s \in 2 .. m + 1
          PROVE  g.list[s] = <<e, 0>>
      <4>1. CASE s = m + 1
        BY <4>1, <3>1, <3>2, <1>3, <1>4
      <4>2. CASE s # m + 1
        <5>1. s \in 1 .. m /\ s \in 2 .. m
          BY <4>2
        <5>2. g.list[s] = h.list[s]
          BY <5>1, <3>2
        <5> QED  BY <5>1, <5>2, <1>6
      <4> QED  BY <4>1, <4>2
    <3> QED  BY <3>2, <3>3
  <2> QED  BY <2>1, <2>2
<1>11. DOMAIN g.updates \subseteq {1} /\ (1 \in DOMAIN g.updates => g.updates[1] = <<e, 1>> /\ p.updates = 1)
  <2>1. CASE n < m
    BY <2>1, <1>4, <1>5, <1>6
  <2>2. CASE ~(n < m)
    BY <2>2, <1>4, <1>5, <1>6
  <2> QED  BY <2>1, <2>2
<1>12. g.numberOfReRenders = 0 => g.at = Len(g.list)
  <2>1. ASSUME g.numberOfReRenders = 0
        PROVE  g.at = Len(g.list)
    <3>1. n = m
      BY <2>1, <1>6
    <3>2. g.list = Append(h.list, state)
      <4>2. ~(n < m)
        BY <3>1
      <4>1. ~(h.at < Len(h.list))
        BY <4>2, <1>4, <1>5, Zenon
      <4> QED  BY <4>1, <1>2
    <3> QED  BY <3>1, <3>2, <1>1, <1>4, <1>5
  <2> QED  BY <2>1
<1>13. g.numberOfReRenders > 0 => Len(g.list) = Cardinality(Used(e, Len(Body[e]) + 1))
  <2>1. ASSUME g.numberOfReRenders > 0
        PROVE  Len(g.list) = Cardinality(Used(e, Len(Body[e]) + 1))
    <3>1. n < m
      BY <2>1, <1>4, <1>5
    <3>2. g.list = [h.list EXCEPT ![n + 1] = state]
      BY <3>1, <1>2, <1>4, <1>5
    <3> QED  BY <3>2, <2>1, <1>1, <1>5, <1>6
  <2> QED  BY <2>1
<1>14. p.first = 1
  <2>1. o.states = <<>> <=> n = 0
    BY <1>1, <1>6
  <2> QED  BY <2>1, <1>4, <1>6
<1>15. g.didScheduleRenderPhaseUpdate => 1 \in DOMAIN g.updates
  <2>1. ASSUME g.didScheduleRenderPhaseUpdate
        PROVE  1 \in DOMAIN g.updates
    <3>1. n # 0 /\ 1 \in DOMAIN h.updates
      BY <2>1, <1>6
    <3>2. 1 # h.at + 1
      BY <3>1, <1>4
    <3> QED  BY <3>1, <3>2
  <2> QED  BY <2>1
<1>16. g.at = n + 1 /\ g.at # 0
  BY <1>4
<1> QED  BY <1>6, <1>7, <1>8, <1>9, <1>10, <1>11, <1>12, <1>13, <1>14, <1>15, <1>16 DEF HooksOf

\* What is known while a component does an operation.
LEMMA DoesFacts ==
  ASSUME ServerInv, NEW op, does(op)
  PROVE  /\ isReading /\ call \in Call /\ call.run \in Run /\ call.run.pc # 0 /\ ~call.run.failing
         /\ call.child # Nil /\ call.child \in Element
         /\ call.run.pc \in 1 .. Len(Body[call.child]) /\ Body[call.child][call.run.pc] = op
<1>1. /\ isReading /\ call.run.pc # 0 /\ ~call.run.failing
      /\ call.run.pc <= Len(Body[call.child]) /\ Body[call.child][call.run.pc] = op
  BY DEF does, isRunning, run
<1>2. call \in Call /\ call.run \in Run /\ call.child \in Element /\ call.child # Nil /\ call.run.pc \in Nat
  BY <1>1, CallFacts, RunFacts
<1>3. Len(Body[call.child]) \in Nat
  BY <1>2, UsedFacts
<1> QED  BY <1>1, <1>2, <1>3

LEMMA useStateStep ==
  ASSUME ServerInv, useState
  PROVE  ServerInv'
<1>0. does("useState") /\ ~isInvalidCall
  BY DEF useState
<1>1. /\ isReading /\ call \in Call /\ call.run \in Run /\ call.run.pc # 0 /\ ~call.run.failing
      /\ call.child # Nil /\ call.child \in Element
      /\ call.run.pc \in 1 .. Len(Body[call.child]) /\ Body[call.child][call.run.pc] = "useState"
  BY <1>0, DoesFacts
<1>2. PICK e \in Element : e = call.child
  BY <1>1
<1>3. PICK o \in Run : o = call.run
  BY <1>1
<1>4. PICK h : h = hooks
  OBVIOUS
<1>5. HooksTypeOK(h)
  BY <1>4 DEF ServerInv
<1>6. PICK state : state = NextState(h, e)
  OBVIOUS
<1>7. PICK n \in Nat : n = h.at
  BY <1>5 DEF HooksTypeOK
<1>8. PICK list \in Seq(State) : list = h.list
  BY <1>5 DEF HooksTypeOK
<1>9. /\ n <= Len(list) /\ Len(list) \in Nat
      /\ DOMAIN h.updates \subseteq Nat /\ h.updates \in [DOMAIN h.updates -> State]
  BY <1>5, <1>7, <1>8 DEF HooksTypeOK
<1>10. state \in State
  <2>1. n < Len(list) => list[n + 1] \in State
    BY <1>8, <1>9
  <2>2. \A q \in DOMAIN h.updates : h.updates[q] \in State
    BY <1>9
  <2>3. <<e, 0>> \in State
    BY DEF State
  <2> QED  BY <2>1, <2>2, <2>3, <1>6, <1>7, <1>8 DEF NextState
<1>11. PICK next : next = IF n < Len(list) THEN [list EXCEPT ![n + 1] = state] ELSE Append(list, state)
  OBVIOUS
<1>12. next \in Seq(State) /\ n + 1 \in 0 .. Len(next)
  <2>1. CASE n < Len(list)
    BY <2>1, <1>9, <1>10, <1>11
  <2>2. CASE ~(n < Len(list))
    BY <2>2, <1>9, <1>10, <1>11
  <2> QED  BY <2>1, <2>2
<1>13. PICK updates : updates = IF n < Len(list) THEN [q \in DOMAIN h.updates \ {n + 1} |-> h.updates[q]]
                                ELSE h.updates
  OBVIOUS
<1>14. DOMAIN updates \subseteq Nat /\ updates \in [DOMAIN updates -> State]
  <2>1. CASE n < Len(list)
    BY <2>1, <1>9, <1>13
  <2>2. CASE ~(n < Len(list))
    BY <2>2, <1>9, <1>13
  <2> QED  BY <2>1, <2>2
<1>15. PICK g : g = hooks'
  OBVIOUS
<1>16. g = [h EXCEPT !.at = n + 1, !.list = next, !.updates = updates]
  <2>1. isReRender <=> n < Len(list)
    BY <1>4, <1>7, <1>8 DEF isReRender
  <2>2. state = IF ~isReRender THEN <<call.child, 0>>
                ELSE IF hooks.at + 1 \in DOMAIN hooks.updates THEN hooks.updates[hooks.at + 1]
                ELSE hooks.list[hooks.at + 1]
    BY <2>1, <1>2, <1>4, <1>6, <1>7, <1>8 DEF NextState
  <2>3. hooks' = [hooks EXCEPT
              !.at = hooks.at + 1,
              !.list = IF isReRender THEN [@ EXCEPT ![hooks.at + 1] = state] ELSE Append(@, state),
              !.updates = IF isReRender THEN [q \in DOMAIN @ \ {hooks.at + 1} |-> @[q]] ELSE @]
    BY <2>2 DEF useState
  <2>4. hooks' = [hooks EXCEPT
              !.at = n + 1,
              !.list = IF n < Len(list) THEN [hooks.list EXCEPT ![n + 1] = state]
                       ELSE Append(hooks.list, state),
              !.updates = IF n < Len(list)
                          THEN [q \in DOMAIN hooks.updates \ {n + 1} |-> hooks.updates[q]]
                          ELSE hooks.updates]
    BY <2>1, <2>3, <1>4, <1>5, <1>7 DEF HooksTypeOK
  <2> QED  BY <2>4, <1>4, <1>8, <1>11, <1>13, <1>15
<1>17. g = [currentlyRenderingComponent |-> h.currentlyRenderingComponent, list |-> next,
            at |-> n + 1, updates |-> updates,
            didScheduleRenderPhaseUpdate |-> h.didScheduleRenderPhaseUpdate,
            numberOfReRenders |-> h.numberOfReRenders]
  BY <1>5, <1>16 DEF HooksTypeOK
<1>18. HooksTypeOK(g)
  <2>1. /\ h.currentlyRenderingComponent \in Nat /\ h.didScheduleRenderPhaseUpdate \in BOOLEAN
        /\ h.numberOfReRenders \in Nat
    BY <1>5 DEF HooksTypeOK
  <2> QED  BY <2>1, <1>5, <1>12, <1>14, <1>17, HooksChanged
<1>19. PICK y : y = [o EXCEPT !.pc = @ + 1, !.states = Append(@, state),
                             !.first = IF o.states = <<>> THEN n + 1 ELSE @]
  OBVIOUS
<1>20. /\ y \in Run /\ y.pc = o.pc + 1 /\ y.states = Append(o.states, state)
       /\ y.first = (IF o.states = <<>> THEN n + 1 ELSE o.first)
       /\ y.base = o.base /\ y.updates = o.updates /\ y.failing = o.failing
  <2>1. PICK s \in Seq(State) : s = Append(o.states, state)
    <3>1. Append(o.states, state) \in Seq(State)
      BY <1>10 DEF Run
    <3> QED  BY <3>1, Zenon
  <2>2. PICK f \in Nat : f = IF o.states = <<>> THEN n + 1 ELSE o.first
    <3>1. o.first \in Nat
      BY DEF Run
    <3> QED  BY <3>1
  <2>3. PICK pc \in Nat : pc = o.pc + 1
    <3>1. o.pc \in Nat
      BY DEF Run
    <3> QED  BY <3>1
  <2>4. y = [o EXCEPT !.pc = pc, !.states = s, !.first = f]
    BY <2>1, <2>2, <2>3, <1>19
  <2> QED  BY <2>1, <2>2, <2>3, <2>4 DEF Run
<1> DEFINE c == Changed(call, call.child, y)
<1>21. /\ c \in Call /\ c.renderer = call.renderer /\ c.prevThreadID = call.prevThreadID
       /\ c.child = call.child /\ c.run = y
  <2>1. call \in Call /\ call.child \in Element \cup {Nil} /\ y \in Run
    BY <1>1, <1>20
  <2> QED  BY <2>1, ChangedCall
<1>22. c = [call EXCEPT !.run.pc = @ + 1, !.run.states = Append(@, state),
                        !.run.first = IF call.run.states = <<>> THEN n + 1 ELSE @]
  BY <1>1, <1>3, <1>19 DEF Changed, Call
<1> HIDE DEF c
<1>23. reading' = WithCall(c)
  <2>2. state = IF ~isReRender THEN <<call.child, 0>>
                ELSE IF hooks.at + 1 \in DOMAIN hooks.updates THEN hooks.updates[hooks.at + 1]
                ELSE hooks.list[hooks.at + 1]
    BY <1>2, <1>4, <1>6 DEF NextState, isReRender
  <2>3. reading' = WithCall([call EXCEPT !.run.pc = @ + 1, !.run.states = Append(@, state),
                        !.run.first = IF call.run.states = <<>> THEN hooks.at + 1 ELSE @])
    BY <2>2 DEF useState, run
  <2> QED  BY <2>3, <1>4, <1>7, <1>22
<1>24. UNCHANGED <<nextAvailableThreadIDs, value, renderer, currentThreadID>>
  BY DEF useState, allocatorVars
<1>25. y.pc # 0 /\ ~y.failing
  <2>1. o.pc \in Nat
    BY DEF Run
  <2> QED  BY <2>1, <1>1, <1>3, <1>20
<1>26. CallOK(c)
  BY <1>1, <1>21, <1>25 DEF CallOK
<1>27. IsUsing(call) /\ IsUsing(c)
  <2>1. usesHooks(call.child)
    <3>1. call.run.pc \in DOMAIN Body[call.child]
      BY <1>1, UsedFacts
    <3> QED  BY <3>1, <1>1 DEF usesHooks
  <2> QED  BY <2>1, <1>1, <1>21, <1>25 DEF IsUsing
<1>28. HooksRunThrough => HooksOf(g, c.child, c.run)
  <2>1. SUFFICES ASSUME HooksRunThrough PROVE HooksOf(g, e, y)
    BY <1>2, <1>21
  <2>2. HooksOf(h, e, o)
    BY <2>1, <1>1, <1>2, <1>3, <1>4, <1>27, HookFacts
  <2>3. /\ o.pc \in 1 .. Len(Body[e]) /\ Body[e][o.pc] = "useState"
        /\ ~(~(h.at < Len(h.list)) /\ h.numberOfReRenders > 0)
    BY <1>0, <1>1, <1>2, <1>3, <1>4 DEF isInvalidCall, isReRender
  <2>4. /\ g.at = h.at + 1
        /\ g.list = IF h.at < Len(h.list) THEN [h.list EXCEPT ![h.at + 1] = NextState(h, e)]
                    ELSE Append(h.list, NextState(h, e))
        /\ g.updates = IF h.at < Len(h.list) THEN [q \in DOMAIN h.updates \ {h.at + 1} |-> h.updates[q]]
                       ELSE h.updates
    BY <1>6, <1>7, <1>8, <1>11, <1>13, <1>17
  <2>5. /\ g.currentlyRenderingComponent = h.currentlyRenderingComponent
        /\ g.didScheduleRenderPhaseUpdate = h.didScheduleRenderPhaseUpdate
        /\ g.numberOfReRenders = h.numberOfReRenders
    BY <1>17
  <2>6. /\ y.pc = o.pc + 1 /\ y.states = Append(o.states, NextState(h, e))
        /\ y.first = (IF o.states = <<>> THEN h.at + 1 ELSE o.first)
        /\ y.base = o.base /\ y.updates = o.updates /\ y \in Run
    BY <1>6, <1>7, <1>20
  <2> QED  BY <2>2, <2>3, <2>4, <2>5, <2>6, <1>5, <1>18, UsesState
<1> QED  BY <1>1, <1>15, <1>18, <1>21, <1>23, <1>24, <1>25, <1>26, <1>27, <1>28, ComponentGoesOn

\* An update of its first state, dispatched by component e.
LEMMA Dispatches ==
  ASSUME NEW e \in Element, NEW h, HooksTypeOK(h), NEW o \in Run, HooksOf(h, e, o),
         o.pc \in 1 .. Len(Body[e]), Body[e][o.pc] = "update",
         NEW dispatched \in BOOLEAN, NEW g, HooksTypeOK(g), g.at = h.at, g.list = h.list,
         dispatched => g.updates = [q \in DOMAIN h.updates \cup {o.first} |->
                                     IF q = o.first THEN <<e, 1>> ELSE h.updates[q]],
         dispatched => g.didScheduleRenderPhaseUpdate,
         ~dispatched => g = h,
         g.currentlyRenderingComponent = h.currentlyRenderingComponent,
         g.numberOfReRenders = h.numberOfReRenders,
         NEW p \in Run, p.pc = o.pc + 1, p.states = o.states, p.first = o.first, p.base = o.base,
         p.updates = IF dispatched THEN 1 ELSE o.updates
  PROVE  HooksOf(g, e, p)
<1>1. PICK n \in Nat : n = h.at
  BY DEF HooksTypeOK
<1>2. Len(Body[e]) \in Nat /\ Cardinality(Used(e, o.pc + 1)) = Cardinality(Used(e, o.pc))
  BY UsedFacts
<1>3. Cardinality(Used(e, o.pc)) # 0
  <2>1. o.pc \in DOMAIN Body[e] /\ DOMAIN Body[e] = 1 .. Len(Body[e])
    BY UsedFacts
  <2>2. PICK j \in 1 .. o.pc - 1 : Body[e][j] = "useState"
    BY <2>1, ServerRendererAssumption DEF ServerRendererAssumption
  <2>3. j \in 1 .. Len(Body[e]) /\ j < o.pc /\ o.pc \in Nat
    BY <1>2
  <2> QED  BY <2>2, <2>3, UsedFacts
<1>4. n # 0 /\ o.first = 1
  BY <1>1, <1>3 DEF HooksOf
<1>5. p.pc \in 1 .. Len(Body[e]) + 1
  BY <1>2
<1>6. CASE ~dispatched
  BY <1>1, <1>2, <1>4, <1>5, <1>6 DEF HooksOf
<1>7. CASE dispatched
  <2>1. g.updates = [q \in DOMAIN h.updates \cup {1} |-> IF q = 1 THEN <<e, 1>> ELSE h.updates[q]]
    BY <1>4, <1>7
  <2>2. DOMAIN h.updates \subseteq {1}
    BY DEF HooksOf
  <2>3. DOMAIN g.updates \subseteq {1} /\ 1 \in DOMAIN g.updates /\ g.updates[1] = <<e, 1>>
    BY <2>1, <2>2
  <2>4. p.updates = 1
    BY <1>7
  <2> QED  BY <2>3, <2>4, <1>1, <1>2, <1>4, <1>5 DEF HooksOf
<1> QED  BY <1>6, <1>7

\* A component that dispatches an update has used a hook.
LEMMA UpdateUses ==
  ASSUME NEW e \in Element, NEW i \in 1 .. Len(Body[e]), Body[e][i] = "update"
  PROVE  usesHooks(e)
<1>1. i \in DOMAIN Body[e] /\ DOMAIN Body[e] = 1 .. Len(Body[e]) /\ Len(Body[e]) \in Nat
  BY UsedFacts
<1>2. PICK j \in 1 .. i - 1 : Body[e][j] = "useState"
  BY <1>1, ServerRendererAssumption DEF ServerRendererAssumption
<1>3. j \in DOMAIN Body[e]
  BY <1>1
<1> QED  BY <1>2, <1>3 DEF usesHooks

LEMMA dispatchActionStep ==
  ASSUME ServerInv, dispatchAction
  PROVE  ServerInv'
<1>0. does("update")
  BY DEF dispatchAction
<1>1. /\ isReading /\ call \in Call /\ call.run \in Run /\ call.run.pc # 0 /\ ~call.run.failing
      /\ call.child # Nil /\ call.child \in Element
      /\ call.run.pc \in 1 .. Len(Body[call.child]) /\ Body[call.child][call.run.pc] = "update"
  BY <1>0, DoesFacts
<1>2. PICK e \in Element : e = call.child
  BY <1>1
<1>3. PICK o \in Run : o = call.run
  BY <1>1
<1>4. PICK h : h = hooks
  OBVIOUS
<1>5. HooksTypeOK(h)
  BY <1>4 DEF ServerInv
<1>6. PICK dispatched \in BOOLEAN :
        dispatched <=> o.states[1] = <<e, 0>> /\ hooks.currentlyRenderingComponent = Len(reading)
  OBVIOUS
<1>7. PICK updates : updates = [q \in DOMAIN h.updates \cup {o.first} |->
                                 IF q = o.first THEN <<e, 1>> ELSE h.updates[q]]
  OBVIOUS
<1>8. DOMAIN updates \subseteq Nat /\ updates \in [DOMAIN updates -> State]
  <2>1. DOMAIN h.updates \subseteq Nat /\ h.updates \in [DOMAIN h.updates -> State]
    BY <1>5 DEF HooksTypeOK
  <2>2. o.first \in Nat /\ <<e, 1>> \in State
    BY DEF Run, State
  <2> QED  BY <2>1, <2>2, <1>7
<1>9. PICK g : g = hooks'
  OBVIOUS
<1>10. CASE dispatched
  <2>1. g = [h EXCEPT !.didScheduleRenderPhaseUpdate = TRUE, !.updates = updates]
    BY <1>2, <1>3, <1>4, <1>6, <1>7, <1>9, <1>10 DEF dispatchAction, run
  <2>2. g = [currentlyRenderingComponent |-> h.currentlyRenderingComponent, list |-> h.list,
            at |-> h.at, updates |-> updates, didScheduleRenderPhaseUpdate |-> TRUE,
            numberOfReRenders |-> h.numberOfReRenders]
    BY <2>1, <1>5 DEF HooksTypeOK
  <2>3. HooksTypeOK(g)
    <3>1. /\ h.currentlyRenderingComponent \in Nat /\ h.list \in Seq(State)
          /\ h.at \in 0 .. Len(h.list) /\ h.numberOfReRenders \in Nat
      BY <1>5 DEF HooksTypeOK
    <3> QED  BY <3>1, <2>2, <1>5, <1>8, HooksChanged
  <2>4. PICK y : y = [o EXCEPT !.pc = @ + 1, !.updates = 1]
    OBVIOUS
  <2>5. /\ y \in Run /\ y.pc = o.pc + 1 /\ y.states = o.states /\ y.first = o.first
        /\ y.base = o.base /\ y.updates = 1 /\ y.failing = o.failing
    <3>1. PICK pc \in Nat : pc = o.pc + 1
      <4>1. o.pc \in Nat
        BY DEF Run
      <4> QED  BY <4>1
    <3>2. y = [o EXCEPT !.pc = pc, !.updates = 1]
      BY <3>1, <2>4
    <3> QED  BY <3>1, <3>2 DEF Run
  <2> DEFINE c == Changed(call, call.child, y)
  <2>6. /\ c \in Call /\ c.renderer = call.renderer /\ c.prevThreadID = call.prevThreadID
        /\ c.child = call.child /\ c.run = y
    BY <1>1, <2>5, ChangedCall
  <2>7. c = [call EXCEPT !.run.pc = @ + 1, !.run.updates = 1]
    BY <1>1, <1>3, <2>4 DEF Changed, Call
  <2> HIDE DEF c
  <2>8. reading' = WithCall(c)
    BY <2>7, <1>2, <1>3, <1>6, <1>10 DEF dispatchAction, run
  <2>9. UNCHANGED <<nextAvailableThreadIDs, value, renderer, currentThreadID>>
    BY DEF dispatchAction, allocatorVars
  <2>10. y.pc # 0 /\ ~y.failing
    <3>1. o.pc \in Nat
      BY DEF Run
    <3> QED  BY <3>1, <2>5, <1>1, <1>3
  <2>11. CallOK(c)
    BY <1>1, <2>6, <2>10 DEF CallOK
  <2>12. IsUsing(call) /\ IsUsing(c)
    <3>1. usesHooks(call.child)
      BY <1>1, UpdateUses
    <3> QED  BY <3>1, <1>1, <2>6, <2>10 DEF IsUsing
  <2>13. HooksRunThrough => HooksOf(g, c.child, c.run)
    <3>1. SUFFICES ASSUME HooksRunThrough PROVE HooksOf(g, e, y)
      BY <1>2, <2>6
    <3>2. HooksOf(h, e, o)
      BY <3>1, <1>1, <1>2, <1>3, <1>4, <2>12, HookFacts
    <3>3. o.pc \in 1 .. Len(Body[e]) /\ Body[e][o.pc] = "update"
      BY <1>1, <1>2, <1>3
    <3>4. /\ g.at = h.at /\ g.list = h.list /\ g.didScheduleRenderPhaseUpdate
          /\ g.updates = [q \in DOMAIN h.updates \cup {o.first} |->
                           IF q = o.first THEN <<e, 1>> ELSE h.updates[q]]
          /\ g.currentlyRenderingComponent = h.currentlyRenderingComponent
          /\ g.numberOfReRenders = h.numberOfReRenders
      BY <2>2, <1>7
    <3> QED  BY <3>2, <3>3, <3>4, <2>3, <2>5, <1>5, <1>10, Dispatches
  <2> QED  BY <1>1, <1>9, <2>3, <2>6, <2>8, <2>9, <2>10, <2>11, <2>12, <2>13, ComponentGoesOn
<1>11. CASE ~dispatched
  <2>1. g = h
    BY <1>2, <1>3, <1>4, <1>6, <1>9, <1>11 DEF dispatchAction, run
  <2>4. PICK y : y = [o EXCEPT !.pc = @ + 1]
    OBVIOUS
  <2>5. /\ y \in Run /\ y.pc = o.pc + 1 /\ y.states = o.states /\ y.first = o.first
        /\ y.base = o.base /\ y.updates = o.updates /\ y.failing = o.failing
    <3>1. PICK pc \in Nat : pc = o.pc + 1
      <4>1. o.pc \in Nat
        BY DEF Run
      <4> QED  BY <4>1
    <3>2. y = [o EXCEPT !.pc = pc]
      BY <3>1, <2>4
    <3> QED  BY <3>1, <3>2 DEF Run
  <2> DEFINE c == Changed(call, call.child, y)
  <2>6. /\ c \in Call /\ c.renderer = call.renderer /\ c.prevThreadID = call.prevThreadID
        /\ c.child = call.child /\ c.run = y
    BY <1>1, <2>5, ChangedCall
  <2>7. c = [call EXCEPT !.run.pc = @ + 1, !.run.updates = @]
    BY <1>1, <1>3, <2>4 DEF Changed, Call, Run
  <2> HIDE DEF c
  <2>8. reading' = WithCall(c)
    BY <2>7, <1>2, <1>3, <1>6, <1>11 DEF dispatchAction, run
  <2>9. UNCHANGED <<nextAvailableThreadIDs, value, renderer, currentThreadID>>
    BY DEF dispatchAction, allocatorVars
  <2>10. y.pc # 0 /\ ~y.failing
    <3>1. o.pc \in Nat
      BY DEF Run
    <3> QED  BY <3>1, <2>5, <1>1, <1>3
  <2>11. CallOK(c)
    BY <1>1, <2>6, <2>10 DEF CallOK
  <2>12. IsUsing(call) /\ IsUsing(c)
    <3>1. usesHooks(call.child)
      BY <1>1, UpdateUses
    <3> QED  BY <3>1, <1>1, <2>6, <2>10 DEF IsUsing
  <2>13. HooksRunThrough => HooksOf(g, c.child, c.run)
    <3>1. SUFFICES ASSUME HooksRunThrough PROVE HooksOf(h, e, y)
      BY <1>2, <2>1, <2>6
    <3>2. HooksOf(h, e, o)
      BY <3>1, <1>1, <1>2, <1>3, <1>4, <2>12, HookFacts
    <3>3. o.pc \in 1 .. Len(Body[e]) /\ Body[e][o.pc] = "update"
      BY <1>1, <1>2, <1>3
    <3> QED  BY <3>2, <3>3, <2>5, <1>5, <1>11, Dispatches
  <2> QED  BY <1>1, <1>5, <1>9, <2>1, <2>6, <2>8, <2>9, <2>10, <2>11, <2>12, <2>13, ComponentGoesOn
<1> QED  BY <1>10, <1>11

LEMMA RunsThrough ==
  ASSUME HooksRunThrough, NEW e \in Element, NEW i \in 1 .. Len(Body[e]),
         Body[e][i] \in {"throw", "suspend", "renderToString"}
  PROVE  ~usesHooks(e)
<1>1. i \in DOMAIN Body[e]
  BY UsedFacts
<1> QED  BY <1>1 DEF HooksRunThrough, usesHooks

LEMMA suspendStep ==
  ASSUME ServerInv, suspend
  PROVE  ServerInv'
<1>0. does("suspend")
  BY DEF suspend
<1>1. /\ isReading /\ call \in Call /\ call.child \in Element
      /\ call.run.pc \in 1 .. Len(Body[call.child]) /\ Body[call.child][call.run.pc] = "suspend"
  BY <1>0, DoesFacts
<1>2. NoRun \in Run /\ NoRun.pc = 0 /\ NoRun.states = <<>> /\ ~NoRun.failing
  BY <1>1, RunFacts
<1>3. PICK c : c = [call EXCEPT !.child = Nil, !.run = NoRun, !.suspended = TRUE]
  OBVIOUS
<1>4. /\ c \in Call /\ c.renderer = call.renderer /\ c.prevThreadID = call.prevThreadID
      /\ c.child = Nil /\ c.run = NoRun
  BY <1>1, <1>2, <1>3 DEF Call
<1>5. reading' = WithCall(c) /\ hooks' = hooks
      /\ UNCHANGED <<nextAvailableThreadIDs, value, renderer, currentThreadID>>
  BY <1>3 DEF suspend, allocatorVars
<1>6. CallOK(c) /\ ~IsUsing(c) /\ c.run.states = <<>>
  BY <1>2, <1>4 DEF CallOK, IsUsing
<1>7. HooksRunThrough => AsNew(hooks)
  <2>1. HooksRunThrough => ~IsUsing(call)
    BY <1>1, RunsThrough DEF IsUsing
  <2> QED  BY <2>1, <1>1, HookFacts
<1>8. HooksTypeOK(hooks)
  BY DEF ServerInv
<1> QED  BY <1>1, <1>4, <1>5, <1>6, <1>7, <1>8, ComponentGoesOn

LEMMA renderToStringStep ==
  ASSUME ServerInv, NEW r \in Inner, renderToString(r)
  PROVE  ServerInv'
<1>0. does("renderToString")
  BY DEF renderToString
<1>1. /\ isReading /\ call \in Call /\ call.child \in Element /\ call.run.pc # 0
      /\ call.run \in Run /\ call.child # Nil
      /\ call.run.pc \in 1 .. Len(Body[call.child])
      /\ Body[call.child][call.run.pc] = "renderToString"
  BY <1>0, DoesFacts
<1>2. PICK q \in Renderer \ Alive(renderer) : q = r
  <2>1. r \in Renderer /\ renderer[r].exhausted
    BY DEF Renderer, renderToString, isAlive
  <2> QED  BY <2>1 DEF Alive
<1>3. Nested \in Element
  BY ServerRendererAssumption DEF ServerRendererAssumption
<1>4. /\ Core(nextAvailableThreadIDs, value, renderer) /\ renderer \in [Renderer -> RendererState]
      /\ CallsOK(reading, renderer, currentThreadID)
  BY DEF ServerInv, Core, ThreadsOK
<1> DEFINE alloc == allocThreadID(nextAvailableThreadIDs)
<1>5. /\ Core(alloc.ids, value, With(renderer, q, NewRenderer(alloc.id, Nested)))
      /\ alloc.id \in Nat
  BY <1>3, <1>4, AllocatesCore
<1>6. /\ nextAvailableThreadIDs' = alloc.ids /\ value' = value
      /\ renderer' = With(renderer, q, NewRenderer(alloc.id, Nested))
      /\ currentThreadID' = alloc.id
  BY <1>2 DEF renderToString, With
<1>7. PICK id \in Nat : id = alloc.id
  BY <1>5
<1>8. PICK N \in RendererState : N = NewRenderer(id, Nested) /\ N.threadID = id /\ ~N.exhausted
  BY <1>3, NewRendererType
<1> HIDE DEF alloc
<1>9. Core(nextAvailableThreadIDs', value', renderer')
  BY <1>5, <1>6
<1>10. PICK next : next = With(renderer, q, N)
  OBVIOUS
<1>11. renderer' = next /\ currentThreadID' = id
  BY <1>6, <1>7, <1>8, <1>10
<1>12. q \in Alive(next) /\ next[q].threadID = id
  <2>1. next[q] = N
    BY <1>4, <1>8, <1>10, ExceptRenderer
  <2> QED  BY <2>1, <1>8 DEF Alive
<1>13. \A p \in Alive(renderer) : p \in Alive(next) /\ next[p].threadID = renderer[p].threadID
  <2>1. \A p \in Alive(renderer) : p # q =>
           p \in Alive(next) /\ next[p].threadID = renderer[p].threadID
    BY <1>4, <1>8, <1>10, OthersStay
  <2> QED  BY <2>1
<1>14. PICK o \in Run : o = call.run
  BY <1>1
<1>15. PICK y : y = [o EXCEPT !.pc = @ + 1]
  OBVIOUS
<1>16. y \in Run /\ y.pc = o.pc + 1 /\ y.states = o.states /\ y.pc # 0
  <2>1. PICK pc \in Nat : pc = o.pc + 1 /\ pc # 0
    <3>1. o.pc \in Nat
      BY DEF Run
    <3> QED  BY <3>1
  <2>2. y = [o EXCEPT !.pc = pc]
    BY <2>1, <1>15
  <2> QED  BY <2>1, <2>2 DEF Run
<1> DEFINE c == Changed(call, call.child, y)
<1>17. /\ c \in Call /\ c.renderer = call.renderer /\ c.prevThreadID = call.prevThreadID
       /\ c.child = call.child /\ c.run = y
  BY <1>1, <1>16, ChangedCall
<1>18. c = [call EXCEPT !.run.pc = @ + 1]
  BY <1>1, <1>14, <1>15 DEF Changed, Call
<1> HIDE DEF c
<1>19. PICK b : b = Reading(q)
  OBVIOUS
<1>20. /\ reading \in Seq(Call) /\ Len(reading) # 0 /\ call = reading[Len(reading)]
       /\ Len(reading) \in Nat /\ R \in RendererState /\ currentThreadID = R.threadID
  BY <1>1, CallFacts
<1>21. currentThreadID \in Nat
  BY <1>20 DEF RendererState
<1>22. /\ b \in Call /\ CallOK(b) /\ b.renderer = q
       /\ b.prevThreadID = currentThreadID /\ b.run = NoRun
  BY <1>19, <1>21, ReadingType
<1>23. PICK after : after = Replaced(reading, c)
  OBVIOUS
<1>24. reading' = Append(after, b)
  BY <1>2, <1>18, <1>19, <1>23 DEF renderToString, WithCall, Replaced
<1>25. CallOK(c)
  BY <1>1, <1>16, <1>17 DEF CallOK
<1>26. CallsOK(after, next, currentThreadID)
  BY <1>4, <1>13, <1>17, <1>20, <1>23, <1>25, CallGoesOn
<1>27. /\ after \in Seq(Call) /\ Len(after) = Len(reading) /\ after[Len(reading)] = c
       /\ \A i \in 1 .. Len(reading) : i < Len(reading) => after[i] = reading[i]
  BY <1>17, <1>20, <1>23, LastReplaced
<1>28. \A i \in 1 .. Len(after) : after[i].renderer # b.renderer
  <2> TAKE i \in 1 .. Len(after)
  <2>1. reading[i].renderer \in Alive(renderer)
    BY <1>4, <1>27 DEF CallsOK
  <2>2. after[i].renderer = reading[i].renderer
    BY <1>17, <1>20, <1>27
  <2> QED  BY <2>1, <2>2, <1>22
<1>29. CallsOK(Append(after, b), next, next[b.renderer].threadID)
  <2>1. Len(after) # 0 => after[Len(after)].run.pc # 0
    BY <1>16, <1>17, <1>27
  <2>2. b.renderer \in Alive(next)
    BY <1>12, <1>22
  <2> QED  BY <2>1, <2>2, <1>21, <1>22, <1>26, <1>28, CallBegins
<1>30. CallsOK(reading', renderer', currentThreadID')
  BY <1>11, <1>12, <1>22, <1>24, <1>29
<1>31. hooks' = hooks /\ HooksTypeOK(hooks)
  BY DEF renderToString, ServerInv
<1>32. HooksRunThrough => HooksOK(Append(after, b), hooks)
  <2>1. SUFFICES ASSUME HooksRunThrough PROVE HooksOK(Append(after, b), hooks)
    OBVIOUS
  <2>2. ~IsUsing(call) /\ ~IsUsing(c)
    BY <2>1, <1>1, <1>17, RunsThrough DEF IsUsing
  <2>3. c.run.states = <<>>
    BY <2>1, <2>2, <1>1, <1>14, <1>16, <1>17, HookFacts
  <2>4. HooksOK(reading, hooks)
    BY <2>1 DEF ServerInv
  <2>5. HooksOK(after, hooks)
    BY <2>2, <2>3, <2>4, <1>17, <1>20, <1>23, HooksStay
  <2>6. ~IsUsing(after[Len(after)])
    BY <2>2, <1>27
  <2> QED  BY <2>5, <2>6, <1>22, <1>27, HooksBegin
<1> QED  BY <1>9, <1>24, <1>30, <1>31, <1>32 DEF ServerInv

\* A component that throws uses no hooks, if those that do run through.
LEMMA ThrowsUnused ==
  ASSUME ServerInv, HooksRunThrough, throw
  PROVE  ~IsUsing(call)
<1>0. isReading /\ (call.run.failing \/ does("throw") \/ (does("useState") /\ isInvalidCall))
  BY DEF throw, run, isRunning
<1>1. CASE call.run.failing
  BY <1>0, <1>1, HookFacts
<1>2. CASE does("throw")
  <2>1. /\ call.child \in Element /\ call.run.pc \in 1 .. Len(Body[call.child])
        /\ Body[call.child][call.run.pc] = "throw"
    BY <1>2, DoesFacts
  <2> QED  BY <2>1, RunsThrough DEF IsUsing
<1>3. CASE does("useState") /\ isInvalidCall
  <2>1. /\ call.child \in Element /\ call.run.pc \in 1 .. Len(Body[call.child])
        /\ Body[call.child][call.run.pc] = "useState"
    BY <1>3, DoesFacts
  <2>2. PICK e \in Element : e = call.child
    BY <2>1
  <2>3. PICK pc \in 1 .. Len(Body[e]) : pc = call.run.pc /\ Body[e][pc] = "useState"
    BY <2>1, <2>2
  <2>4. HooksTypeOK(hooks)
    BY DEF ServerInv
  <2>5. ASSUME IsUsing(call)
        PROVE  FALSE
    <3>1. HooksOf(hooks, e, call.run)
      BY <2>2, <2>5, <1>0, HookFacts
    <3>2. hooks.currentlyRenderingComponent # 0
      BY <3>1 DEF HooksOf
    <3>3. ~(hooks.at < Len(hooks.list)) /\ hooks.numberOfReRenders > 0
      BY <3>2, <1>3 DEF isInvalidCall, isReRender
    <3>4. hooks.at = Cardinality(Used(e, pc)) /\ Len(hooks.list) = Cardinality(Used(e, Len(Body[e]) + 1))
      BY <3>1, <3>3, <2>3 DEF HooksOf
    <3>5. PICK n \in Nat : n = Len(Body[e])
      BY UsedFacts
    <3>6. pc \in 1 .. n /\ pc + 1 <= n + 1 /\ pc + 1 \in Nat /\ n + 1 \in Nat /\ pc \in Nat
      BY <3>5
    <3>7. Cardinality(Used(e, pc + 1)) = Cardinality(Used(e, pc)) + 1
      BY <2>3, UsedFacts
    <3>8. Cardinality(Used(e, pc + 1)) <= Cardinality(Used(e, n + 1))
      BY <3>6, UsedFacts
    <3>9. Cardinality(Used(e, pc)) \in Nat /\ Cardinality(Used(e, n + 1)) \in Nat
      BY <3>6, UsedFacts
    <3> QED  BY <3>3, <3>4, <3>5, <3>7, <3>8, <3>9
  <2> QED  BY <2>5
<1> QED  BY <1>0, <1>1, <1>2, <1>3

LEMMA ReplacedLast ==
  ASSUME NEW calls \in Seq(Call), Len(calls) # 0, NEW c \in Call
  PROVE  Replaced(calls, c) = [calls EXCEPT ![Len(calls)] = c]
<1>1. /\ Replaced(calls, c) \in Seq(Call) /\ Len(Replaced(calls, c)) = Len(calls)
      /\ Replaced(calls, c)[Len(calls)] = c
      /\ \A i \in 1 .. Len(calls) : i < Len(calls) => Replaced(calls, c)[i] = calls[i]
  BY LastReplaced
<1>2. PICK after : after = Replaced(calls, c)
  OBVIOUS
<1>3. PICK other : other = [calls EXCEPT ![Len(calls)] = c]
  OBVIOUS
<1>4. Len(calls) \in Nat
  OBVIOUS
<1>5. other \in Seq(Call) /\ Len(other) = Len(calls)
  BY <1>3, <1>4
<1>6. \A i \in 1 .. Len(calls) : after[i] = other[i]
  <2> TAKE i \in 1 .. Len(calls)
  <2>1. CASE i = Len(calls)
    BY <2>1, <1>1, <1>2, <1>3
  <2>2. CASE i # Len(calls)
    <3>1. i < Len(calls)
      BY <2>2, <1>4
    <3> QED  BY <3>1, <2>2, <1>1, <1>2, <1>3
  <2> QED  BY <2>1, <2>2
<1>7. after = other
  <2>1. after \in Seq(Call) /\ Len(after) = Len(other)
    BY <1>1, <1>2, <1>5
  <2> QED  BY <2>1, <1>5, <1>6, SeqEqual
<1> QED  BY <1>2, <1>3, <1>7

LEMMA throwStep ==
  ASSUME ServerInv, throw
  PROVE  ServerInv'
<1>0. isReading
  BY DEF throw, isRunning
<1>1. /\ reading \in Seq(Call) /\ Len(reading) # 0 /\ Len(reading) \in Nat
      /\ call = reading[Len(reading)]
      /\ call.renderer \in Alive(renderer) /\ call.renderer \in Renderer
      /\ R = renderer[call.renderer] /\ R \in RendererState
  BY <1>0, CallFacts
<1>2. /\ currentThreadID' = call.prevThreadID /\ hooks' = hooks
      /\ nextAvailableThreadIDs' = freeThreadID(nextAvailableThreadIDs, R.threadID)
      /\ renderer' = With(renderer, call.renderer, destroyed(R))
      /\ value' = clearProviders(R)
  BY DEF throw, WithRenderer, With
<1>3. Core(nextAvailableThreadIDs', value', renderer')
  BY <1>1, <1>2, DestroysCore
<1>4. /\ renderer \in [Renderer -> RendererState]
      /\ CallsOK(reading, renderer, currentThreadID) /\ HooksTypeOK(hooks)
  BY DEF ServerInv, Core, ThreadsOK
<1>5. destroyed(R) \in RendererState
  BY <1>1 DEF destroyed, RendererState
<1>6. PICK next : next = renderer'
  OBVIOUS
<1>7. \A q \in Alive(renderer) : q # reading[Len(reading)].renderer =>
        q \in Alive(next) /\ next[q].threadID = renderer[q].threadID
  BY <1>1, <1>2, <1>4, <1>5, <1>6, OthersStay
<1>8. PICK front : front = Front(reading)
  OBVIOUS
<1>9. PICK m \in Nat : m + 1 = Len(reading)
  <2>1. Len(reading) - 1 \in Nat /\ (Len(reading) - 1) + 1 = Len(reading)
    BY <1>1
  <2> QED  BY <2>1
<1>10. CallsOK(front, next, call.prevThreadID)
  BY <1>1, <1>4, <1>7, <1>8, CallEnds
<1>11. /\ Len(front) = m /\ \A i \in 1 .. m : front[i] = reading[i]
       /\ m # 0 => front[m].run.pc # 0
  BY <1>1, <1>4, <1>7, <1>8, <1>9, CallEnds
<1>12. front \in Seq(Call)
  BY <1>10 DEF CallsOK
<1>13. HooksRunThrough => HooksOK(front, hooks)
  <2>1. HooksRunThrough => HooksOK(reading, hooks) /\ ~IsUsing(call)
    BY ThrowsUnused DEF ServerInv
  <2> QED  BY <2>1, <1>1, <1>8, HooksEnd
<1>14. CASE m = 0
  <2>1. reading' = front
    <3>1. Len(reading) = 1
      BY <1>9, <1>14
    <3>2. reading' = <<>>
      BY <3>1 DEF throw
    <3>3. front = <<>>
      BY <1>11, <1>12, <1>14
    <3> QED  BY <3>2, <3>3
  <2> QED  BY <2>1, <1>2, <1>3, <1>4, <1>6, <1>10, <1>13 DEF ServerInv
<1>15. CASE m # 0
  <2>1. PICK o \in Call : o = front[m]
    BY <1>11, <1>12, <1>15
  <2>2. PICK u \in Run : u = o.run
    BY DEF Call
  <2>3. PICK y : y = [u EXCEPT !.failing = TRUE]
    OBVIOUS
  <2>4. y \in Run /\ y.pc = u.pc /\ y.states = u.states
    BY <2>3 DEF Run
  <2>5. PICK x \in Element \cup {Nil} : x = o.child
    BY DEF Call
  <2> DEFINE c == Changed(o, x, y)
  <2>6. c \in Call /\ c.renderer = o.renderer /\ c.prevThreadID = o.prevThreadID
        /\ c.child = x /\ c.run = y
    BY <2>4, ChangedCall
  <2>7. c = [o EXCEPT !.run.failing = TRUE]
    BY <2>2, <2>3, <2>5 DEF Changed, Call
  <2> HIDE DEF c
  <2>8. reading' = Replaced(front, c)
    <3>1. Len(reading) # 1 /\ Len(reading) - 1 = m
      BY <1>9, <1>15
    <3>2. reading' = [front EXCEPT ![m].run.failing = TRUE]
      BY <3>1, <1>8 DEF throw
    <3>3. [front EXCEPT ![m].run.failing = TRUE] = [front EXCEPT ![m] = c]
      BY <2>1, <2>7, <1>11, <1>12, <1>15
    <3>4. Replaced(front, c) = [front EXCEPT ![Len(front)] = c]
      BY <2>6, <1>11, <1>12, <1>15, ReplacedLast
    <3> QED  BY <3>2, <3>3, <3>4, <1>11
  <2>9. /\ \A i \in 1 .. m : CallOK(front[i])
        /\ front[m].run.pc # 0
    BY <1>10, <1>11, <1>15 DEF CallsOK
  <2>10. CallOK(c)
    <3>1. m \in 1 .. m
      BY <1>15
    <3> QED  BY <3>1, <2>1, <2>2, <2>4, <2>5, <2>6, <2>9 DEF CallOK
  <2>11. \A q \in Alive(next) : q \in Alive(next) /\ next[q].threadID = next[q].threadID
    OBVIOUS
  <2>12. CallsOK(Replaced(front, c), next, call.prevThreadID)
    BY <2>1, <2>6, <2>10, <2>11, <1>10, <1>11, <1>15, CallGoesOn
  <2>13. HooksRunThrough => HooksOK(Replaced(front, c), hooks)
    <3>1. SUFFICES ASSUME HooksRunThrough PROVE HooksOK(Replaced(front, c), hooks)
      OBVIOUS
    <3>2. \A i \in 1 .. Len(reading) :
            /\ ~IsUsing(reading[i]) => reading[i].run.states = <<>>
            /\ i < Len(reading) \/ reading[i].run.failing => ~IsUsing(reading[i])
      BY <3>1 DEF ServerInv, HooksOK
    <3>3. m \in 1 .. Len(reading) /\ m < Len(reading) /\ m \in 1 .. m
      BY <1>9, <1>15
    <3>4. ~IsUsing(front[m]) /\ front[m].run.states = <<>>
      BY <3>2, <3>3, <1>11
    <3>5. ~IsUsing(c) /\ c.run.states = <<>>
      BY <3>4, <2>1, <2>2, <2>4, <2>5, <2>6 DEF IsUsing
    <3> QED  BY <3>1, <3>4, <3>5, <2>6, <1>11, <1>12, <1>13, <1>15, HooksStay
  <2> QED  BY <2>8, <2>12, <2>13, <1>2, <1>3, <1>4, <1>6 DEF ServerInv
<1> QED  BY <1>14, <1>15

\* Component e is called again, after an update.
LEMMA Reruns ==
  ASSUME NEW e \in Element, NEW h, HooksTypeOK(h), NEW o \in Run, HooksOf(h, e, o),
         o.pc > Len(Body[e]), h.didScheduleRenderPhaseUpdate,
         NEW g, g.at = 0, g.list = h.list, g.updates = h.updates,
         ~g.didScheduleRenderPhaseUpdate,
         g.currentlyRenderingComponent = h.currentlyRenderingComponent,
         g.numberOfReRenders = h.numberOfReRenders + 1,
         NEW p \in Run, p.pc = 1, p.states = <<>>, p.base = o.updates, p.updates = o.updates
  PROVE  HooksOf(g, e, p)
<1>1. PICK n \in Nat : n = Len(Body[e])
  BY UsedFacts
<1>2. h.at \in Nat /\ h.at <= Len(h.list) /\ Len(h.list) \in Nat /\ h.numberOfReRenders \in Nat
  BY DEF HooksTypeOK
<1>3. h.at # 0 /\ 1 \in DOMAIN h.updates /\ h.updates[1] = <<e, 1>> /\ o.updates = 1
      /\ DOMAIN h.updates \subseteq {1}
  BY DEF HooksOf
<1>4. o.pc = n + 1
  BY <1>1 DEF HooksOf
<1>5. Len(h.list) = Cardinality(Used(e, n + 1))
  <2>1. h.at = Cardinality(Used(e, n + 1))
    BY <1>4 DEF HooksOf
  <2>2. CASE h.numberOfReRenders = 0
    BY <2>1, <2>2 DEF HooksOf
  <2>3. CASE h.numberOfReRenders # 0
    <3>1. h.numberOfReRenders > 0
      BY <2>3, <1>2
    <3> QED  BY <3>1, <1>1 DEF HooksOf
  <2> QED  BY <2>2, <2>3
<1>6. Cardinality(Used(e, 1)) = 0 /\ Len(p.states) = 0
  BY UsedFacts
<1>7. Len(h.list) # 0
  BY <1>2, <1>3
<1>8. \A s \in 2 .. Len(h.list) : h.list[s] = <<e, 0>>
  BY DEF HooksOf
<1>9. h.currentlyRenderingComponent # 0
  BY DEF HooksOf
<1>10. g.numberOfReRenders # 0
  BY <1>2
<1> QED  BY <1>1, <1>3, <1>5, <1>6, <1>7, <1>8, <1>9, <1>10 DEF HooksOf

LEMMA NewHooks ==
  HooksTypeOK(NoHooks) /\ AsNew(NoHooks)
<1>1. PICK empty \in Seq(State) : empty = <<>>
  <2>1. <<>> \in Seq(State)
    OBVIOUS
  <2> QED  BY <2>1, Zenon
<1>2. /\ NoHooks.currentlyRenderingComponent = 0 /\ NoHooks.list = empty /\ NoHooks.at = 0
      /\ NoHooks.updates = empty /\ NoHooks.didScheduleRenderPhaseUpdate = FALSE
      /\ NoHooks.numberOfReRenders = 0
  BY <1>1 DEF NoHooks
<1>3. NoHooks = [currentlyRenderingComponent |-> NoHooks.currentlyRenderingComponent,
                 list |-> NoHooks.list, at |-> NoHooks.at, updates |-> NoHooks.updates,
                 didScheduleRenderPhaseUpdate |-> NoHooks.didScheduleRenderPhaseUpdate,
                 numberOfReRenders |-> NoHooks.numberOfReRenders]
  BY DEF NoHooks
<1>4. 0 \in 0 .. Len(empty) /\ DOMAIN empty = {} /\ empty \in [DOMAIN empty -> State]
  BY <1>1
<1>5. HooksTypeOK(NoHooks)
  <2>1. /\ NoHooks.currentlyRenderingComponent \in Nat /\ NoHooks.list \in Seq(State)
        /\ NoHooks.at \in 0 .. Len(NoHooks.list)
        /\ NoHooks.didScheduleRenderPhaseUpdate \in BOOLEAN /\ NoHooks.numberOfReRenders \in Nat
    <3>1. NoHooks.currentlyRenderingComponent \in Nat /\ NoHooks.numberOfReRenders \in Nat
      BY <1>2
    <3>2. NoHooks.list \in Seq(State) /\ NoHooks.at \in 0 .. Len(NoHooks.list)
      BY <1>2, <1>4, Zenon
    <3>3. NoHooks.didScheduleRenderPhaseUpdate \in BOOLEAN
      BY DEF NoHooks
    <3> QED  BY <3>1, <3>2, <3>3
  <2>2. DOMAIN NoHooks.updates \subseteq Nat /\ NoHooks.updates \in [DOMAIN NoHooks.updates -> State]
    BY <1>2, <1>4
  <2> QED  BY <1>3, <2>1, <2>2, Zenon DEF HooksTypeOK
<1> QED  BY <1>1, <1>2, <1>5 DEF AsNew

LEMMA componentReturnsStep ==
  ASSUME ServerInv, componentReturns
  PROVE  ServerInv'
<1>0. /\ isReading /\ call.run.pc # 0 /\ ~call.run.failing
      /\ call.run.pc > Len(Body[call.child])
  BY DEF componentReturns, isRunning, run
<1>1. /\ call \in Call /\ call.run \in Run /\ call.child # Nil /\ call.child \in Element
      /\ NoRun \in Run /\ NoRun.pc = 0 /\ NoRun.states = <<>> /\ ~NoRun.failing
  BY <1>0, CallFacts, RunFacts
<1>2. PICK e \in Element : e = call.child
  BY <1>1
<1>3. PICK o \in Run : o = call.run
  BY <1>1
<1>4. PICK h : h = hooks
  OBVIOUS
<1>5. HooksTypeOK(h)
  BY <1>4 DEF ServerInv
<1>6. /\ UNCHANGED <<nextAvailableThreadIDs, value, currentThreadID>>
  BY DEF componentReturns, allocatorVars
<1>7. CASE isFunction /\ hooks.didScheduleRenderPhaseUpdate
  <2>1. PICK g : g = hooks'
    OBVIOUS
  <2>2. g = [h EXCEPT !.didScheduleRenderPhaseUpdate = FALSE, !.numberOfReRenders = @ + 1, !.at = 0]
    BY <2>1, <1>4, <1>7 DEF componentReturns
  <2>3. PICK k \in Nat : k = h.numberOfReRenders + 1
    <3>1. h.numberOfReRenders \in Nat
      BY <1>5 DEF HooksTypeOK
    <3> QED  BY <3>1
  <2>4. g = [currentlyRenderingComponent |-> h.currentlyRenderingComponent, list |-> h.list,
             at |-> 0, updates |-> h.updates, didScheduleRenderPhaseUpdate |-> FALSE,
             numberOfReRenders |-> k]
    BY <2>2, <2>3, <1>5 DEF HooksTypeOK
  <2>5. HooksTypeOK(g)
    <3>1. /\ h.currentlyRenderingComponent \in Nat /\ h.list \in Seq(State)
          /\ DOMAIN h.updates \subseteq Nat /\ h.updates \in [DOMAIN h.updates -> State]
          /\ 0 \in 0 .. Len(h.list)
      BY <1>5 DEF HooksTypeOK
    <3> QED  BY <3>1, <2>4, <1>5, HooksChanged
  <2>6. PICK y : y = [o EXCEPT !.pc = 1, !.states = <<>>, !.base = o.updates]
    OBVIOUS
  <2>7. /\ y \in Run /\ y.pc = 1 /\ y.states = <<>> /\ y.base = o.updates /\ y.updates = o.updates
        /\ y.failing = o.failing
    <3>1. <<>> \in Seq(State)
      OBVIOUS
    <3>2. o.updates \in {0, 1}
      BY DEF Run
    <3> QED  BY <3>1, <3>2, <2>6 DEF Run
  <2> DEFINE c == Changed(call, call.child, y)
  <2>8. /\ c \in Call /\ c.renderer = call.renderer /\ c.prevThreadID = call.prevThreadID
        /\ c.child = call.child /\ c.run = y
    <3>1. PICK x \in Element \cup {Nil} : x = call.child
      BY <1>1
    <3>2. call \in Call /\ y \in Run
      BY <1>1, <2>7
    <3>3. /\ Changed(call, x, y) \in Call
          /\ Changed(call, x, y).renderer = call.renderer
          /\ Changed(call, x, y).prevThreadID = call.prevThreadID
          /\ Changed(call, x, y).child = x /\ Changed(call, x, y).run = y
      BY <3>2, ChangedCall
    <3> QED  BY <3>1, <3>3
  <2>9. c = [call EXCEPT !.run.pc = 1, !.run.states = <<>>, !.run.base = call.run.updates]
    BY <1>1, <1>3, <2>6 DEF Changed, Call
  <2> HIDE DEF c
  <2>10. reading' = WithCall(c) /\ renderer' = renderer
    BY <2>9, <1>7 DEF componentReturns, run
  <2>11. CallOK(c)
    BY <1>1, <2>7, <2>8 DEF CallOK
  <2>12. ~c.run.failing /\ c.run.states = <<>>
    BY <1>0, <1>3, <2>7, <2>8
  <2>13. HooksRunThrough => IsUsing(c) /\ HooksOf(g, c.child, c.run)
    <3>1. SUFFICES ASSUME HooksRunThrough PROVE IsUsing(c) /\ HooksOf(g, e, y)
      BY <1>2, <2>8
    <3>2. IsUsing(call)
      <4>1. AsNew(hooks) => ~hooks.didScheduleRenderPhaseUpdate
        BY DEF AsNew
      <4> QED  BY <4>1, <3>1, <1>0, <1>7, HookFacts
    <3>3. HooksOf(h, e, o)
      BY <3>1, <3>2, <1>0, <1>2, <1>3, <1>4, HookFacts
    <3>4. IsUsing(c)
      BY <3>2, <2>7, <2>8 DEF IsUsing
    <3>5. o.pc > Len(Body[e]) /\ h.didScheduleRenderPhaseUpdate
      BY <1>0, <1>2, <1>3, <1>4, <1>7
    <3>6. /\ g.at = 0 /\ g.list = h.list /\ g.updates = h.updates /\ ~g.didScheduleRenderPhaseUpdate
          /\ g.currentlyRenderingComponent = h.currentlyRenderingComponent
          /\ g.numberOfReRenders = h.numberOfReRenders + 1
      BY <2>3, <2>4
    <3>7. HooksOf(g, e, y)
      BY <3>3, <3>5, <3>6, <2>7, <1>5, Reruns
    <3> QED  BY <3>4, <3>7
  <2> QED  BY <1>0, <1>6, <2>1, <2>5, <2>8, <2>10, <2>11, <2>12, <2>13, ComponentGoesOn
<1>8. CASE ~(isFunction /\ hooks.didScheduleRenderPhaseUpdate)
  <2>1. hooks' = (IF isFunction THEN NoHooks ELSE hooks) /\ Returned(call.child)
    BY <1>8 DEF componentReturns, resetHooks
  <2>2. HooksTypeOK(hooks')
    BY NewHooks, <2>1, <1>4, <1>5
  <2>3. HooksRunThrough => AsNew(hooks')
    <3>1. AsNew(NoHooks)
      BY NewHooks
    <3>2. HooksRunThrough /\ ~isFunction => ~IsUsing(call)
      BY <1>1 DEF HooksRunThrough, IsUsing, usesHooks, isFunction
    <3>3. HooksRunThrough /\ ~isFunction => AsNew(hooks)
      BY <3>2, <1>0, HookFacts
    <3> QED  BY <3>1, <3>3, <2>1
  <2>4. Kids[e] \in Seq(Element)
    BY ServerRendererAssumption DEF ServerRendererAssumption
  <2>5. CASE Len(Kids[e]) = 1
    <3>1. PICK x \in Element : x = Kids[e][1]
      BY <2>4, <2>5
    <3> DEFINE c == Changed(call, x, NoRun)
    <3>2. /\ c \in Call /\ c.renderer = call.renderer /\ c.prevThreadID = call.prevThreadID
          /\ c.child = x /\ c.run = NoRun
      BY <1>1, ChangedCall
    <3>3. reading' = WithCall(c) /\ renderer' = renderer
      BY <3>1, <2>1, <2>5, <1>2 DEF Returned, Changed
    <3> HIDE DEF c
    <3>4. CallOK(c) /\ ~IsUsing(c) /\ c.run.states = <<>>
      BY <3>2, <1>1 DEF CallOK, IsUsing
    <3> QED  BY <1>0, <1>6, <2>2, <2>3, <3>2, <3>3, <3>4, ComponentGoesOn
  <2>6. CASE Len(Kids[e]) # 1
    <3> DEFINE c == Changed(call, Nil, NoRun)
               f == NewFrame(Nil, Kids[e], <<>>)
               S == PushFrame(R, f)
    <3>0. Nil \in Element \cup {Nil} /\ <<>> \in Seq(Element)
      OBVIOUS
    <3>1. /\ c \in Call /\ c.renderer = call.renderer /\ c.prevThreadID = call.prevThreadID
          /\ c.child = Nil /\ c.run = NoRun
      <4>1. PICK x \in Element \cup {Nil} : x = Nil
        BY <3>0
      <4>2. /\ Changed(call, x, NoRun) \in Call
            /\ Changed(call, x, NoRun).renderer = call.renderer
            /\ Changed(call, x, NoRun).prevThreadID = call.prevThreadID
            /\ Changed(call, x, NoRun).child = x /\ Changed(call, x, NoRun).run = NoRun
        BY <1>1, ChangedCall
      <4> QED  BY <4>1, <4>2
    <3>2. reading' = WithCall(c) /\ renderer' = With(renderer, call.renderer, S)
      BY <2>1, <2>6, <1>2 DEF Returned, Changed, WithRenderer, With, PushFrame
    <3> HIDE DEF c
    <3>3. CallOK(c) /\ ~IsUsing(c) /\ c.run.states = <<>>
      BY <3>1, <1>1 DEF CallOK, IsUsing
    <3>4. f \in Frame /\ f.type = Nil
      BY <3>0, <2>4, NewFrameType
    <3>5. plain(f)
      BY <3>4 DEF plain
    <3> HIDE DEF f
    <3>6. /\ call.renderer \in Alive(renderer)
          /\ R \in RendererState /\ R = renderer[call.renderer] /\ ~R.exhausted
          /\ reading \in Seq(Call) /\ Len(reading) # 0 /\ call = reading[Len(reading)]
      BY <1>0, CallFacts
    <3>7. /\ S \in RendererState /\ S.threadID = R.threadID
          /\ S.exhausted = R.exhausted /\ S.contextStack = R.contextStack
          /\ Len(S.stack) = Len(R.stack) + 1 /\ S.stack[Len(R.stack) + 1] = f
          /\ \A i \in 1 .. Len(R.stack) : S.stack[i].type = R.stack[i].type
      BY <3>4, <3>6, FramePushed
    <3> HIDE DEF S
    <3>8. Core(nextAvailableThreadIDs', value', renderer')
      <4>1. Core(nextAvailableThreadIDs, value, renderer)
        BY DEF ServerInv
      <4>2. Core(nextAvailableThreadIDs, value, With(renderer, call.renderer, S))
        BY <4>1, <3>5, <3>6, <3>7, AddsCore
      <4> QED  BY <4>2, <3>2, <1>6
    <3>9. renderer \in [Renderer -> RendererState] /\ CallsOK(reading, renderer, currentThreadID)
      BY DEF ServerInv, Core, ThreadsOK
    <3>10. \A q \in Alive(renderer) : q \in Alive(renderer') /\ renderer'[q].threadID = renderer[q].threadID
      BY <3>2, <3>6, <3>7, <3>9, RenderersStay
    <3>11. reading' = Replaced(reading, c)
      BY <3>2 DEF WithCall, Replaced
    <3>12. CallsOK(reading', renderer', currentThreadID')
      BY <1>6, <3>1, <3>3, <3>6, <3>9, <3>10, <3>11, CallGoesOn
    <3>13. HooksRunThrough => HooksOK(reading', hooks')
      <4>1. HooksRunThrough => HooksOK(reading, hooks)
        BY DEF ServerInv
      <4>2. c.run.failing => ~IsUsing(c)
        BY <3>3
      <4> QED  BY <4>1, <4>2, <3>1, <3>3, <3>6, <3>11, <2>3, HooksGoOn
    <3> QED  BY <2>2, <3>8, <3>12, <3>13 DEF ServerInv
  <2> QED  BY <2>5, <2>6
<1> QED  BY <1>7, <1>8

(***************************************************************************)
(* The invariant holds at first, and every step keeps it.                  *)
(***************************************************************************)
LEMMA FirstIDs ==
  ASSUME ServerInit
  PROVE  /\ nextAvailableThreadIDs \in Seq(Nat)
         /\ Len(nextAvailableThreadIDs) = InitialThreads
         /\ \E n \in Nat : \E free \in [1 .. n -> Nat] :
              IsFreeList(nextAvailableThreadIDs, free, n)
<1>1. PICK m \in Nat : m = InitialThreads /\ m >= 2
  BY ServerRendererAssumption DEF ServerRendererAssumption
<1>2. PICK ids : ids = [i \in 1 .. m |-> IF i = m THEN 0 ELSE i]
  OBVIOUS
<1>3. ids = nextAvailableThreadIDs
  BY <1>1, <1>2 DEF ServerInit
<1>4. /\ ids \in Seq(Nat) /\ Len(ids) = m
      /\ \A i \in 1 .. m : ids[i] = IF i = m THEN 0 ELSE i
  <2>1. ids \in [1 .. m -> Nat]
    BY <1>2
  <2> QED  BY <1>2, <2>1
<1>5. PICK n \in Nat : n = m - 1 /\ n >= 1
  BY <1>1
<1>6. PICK free : free = [k \in 1 .. n |-> m - k]
  OBVIOUS
<1>7. /\ free \in [1 .. n -> 1 .. m - 1] /\ free \in [1 .. n -> Nat]
      /\ \A k \in 1 .. n : free[k] = m - k
  BY <1>1, <1>5, <1>6
<1>8. IsFreeList(ids, free, n)
  <2>1. free \in [1 .. n -> 1 .. Len(ids) - 1]
    BY <1>4, <1>7
  <2>2. \A j, k \in 1 .. n : free[j] = free[k] => j = k
    BY <1>1, <1>7
  <2>3. ids[1] = IF n = 0 THEN 0 ELSE free[n]
    <3>1. n \in 1 .. n /\ 1 \in 1 .. m /\ 1 # m
      BY <1>1, <1>5
    <3>2. free[n] = 1 /\ ids[1] = 1
      BY <3>1, <1>4, <1>5, <1>7, <1>1
    <3> QED  BY <3>2, <1>5
  <2>4. ASSUME NEW k \in 1 .. n
        PROVE  ids[free[k] + 1] = IF k = 1 THEN 0 ELSE free[k - 1]
    <3>1. free[k] + 1 = m - k + 1 /\ m - k + 1 \in 1 .. m
      BY <1>1, <1>5, <1>7
    <3>2. ids[m - k + 1] = IF k = 1 THEN 0 ELSE m - k + 1
      BY <3>1, <1>1, <1>4
    <3>3. k # 1 => k - 1 \in 1 .. n /\ m - (k - 1) = m - k + 1
      BY <1>1
    <3>4. k # 1 => free[k - 1] = m - k + 1
      BY <3>3, <1>7
    <3> QED  BY <3>1, <3>2, <3>4
  <2> QED  BY <2>1, <2>2, <2>3, <2>4, Zenon DEF IsFreeList
<1> QED  BY <1>1, <1>3, <1>4, <1>5, <1>7, <1>8, Zenon

LEMMA ServerInvInit ==
  ASSUME ServerInit
  PROVE  ServerInv
<1>1. NoRenderer \in RendererState /\ NoRenderer.exhausted
  <2>1. <<>> \in Seq(Frame) /\ <<>> \in Seq(Entry)
    OBVIOUS
  <2> QED  BY <2>1 DEF NoRenderer, RendererState
<1>2. renderer \in [Renderer -> RendererState]
  BY <1>1 DEF ServerInit
<1>3. Alive(renderer) = {}
  BY <1>1 DEF ServerInit, Alive
<1>4. ThreadsOK(nextAvailableThreadIDs, renderer)
  <2>1. Len(nextAvailableThreadIDs) >= 2
    BY FirstIDs, ServerRendererAssumption DEF ServerRendererAssumption
  <2> QED  BY <2>1, <1>2, <1>3, FirstIDs, Zenon DEF ThreadsOK
<1>5. SlotsOK(value, renderer)
  <2>1. <<>> \in Seq(Value)
    OBVIOUS
  <2>2. value = [c \in Context |-> <<>>]
    BY DEF ServerInit
  <2>3. value \in [Context -> Seq(Value)]
    BY <2>1, <2>2
  <2>4. ASSUME NEW id \in Nat, NEW c \in Context
        PROVE  SlotIn(value, c, id) = Default
    <3>1. value[c] = <<>>
      BY <2>2
    <3>2. Len(value[c]) = 0
      BY <3>1
    <3> QED  BY <3>2 DEF SlotIn
  <2> QED  BY <2>3, <2>4, <1>3, Zenon DEF SlotsOK
<1>6. reading \in Seq(Call) /\ Len(reading) = 0 /\ currentThreadID = 0 /\ hooks = NoHooks
  <2>1. <<>> \in Seq(Call) /\ Len(<<>>) = 0
    OBVIOUS
  <2> QED  BY <2>1 DEF ServerInit
<1>7. \A i \in 1 .. Len(reading) : FALSE
  BY <1>6
<1>8. CallsOK(reading, renderer, currentThreadID)
  BY <1>6, <1>7, Zenon DEF CallsOK
<1>9. HooksTypeOK(hooks) /\ HooksOK(reading, hooks)
  <2>1. HooksOK(reading, hooks)
    BY <1>6, <1>7, NewHooks, Zenon DEF HooksOK
  <2> QED  BY <2>1, <1>6, NewHooks
<1> QED  BY <1>4, <1>5, <1>8, <1>9 DEF ServerInv, Core

LEMMA ServerInvStep ==
  ASSUME ServerInv, [ServerNext]_serverVars
  PROVE  ServerInv'
<1>1. CASE UNCHANGED serverVars
  <2>1. UNCHANGED <<nextAvailableThreadIDs, value, renderer, reading, currentThreadID, hooks>>
    BY <1>1 DEF serverVars, allocatorVars
  <2> QED  BY <2>1 DEF ServerInv
<1>2. CASE \E r \in Stream, e \in Top : Create(r, e)
  BY <1>2, CreateStep
<1>3. CASE \E r \in Stream : Read(r) \/ Destroy(r)
  BY <1>3, ReadStep, DestroyStep
<1>4. CASE StopReading \/ Finish \/ PopFrame \/ NextChild
  BY <1>4, StopReadingStep, FinishStep, PopFrameStep, NextChildStep
<1>5. CASE renderDOM \/ renderSuspense \/ renderProvider \/ renderConsumer
  BY <1>5, renderDOMStep, renderSuspenseStep, renderProviderStep, renderConsumerStep
<1>6. CASE callComponent \/ useState \/ dispatchAction
  BY <1>6, callComponentStep, useStateStep, dispatchActionStep
<1>7. CASE \E r \in Inner : renderToString(r)
  BY <1>7, renderToStringStep
<1>8. CASE suspend \/ throw \/ componentReturns
  BY <1>8, suspendStep, throwStep, componentReturnsStep
<1> QED  BY <1>1, <1>2, <1>3, <1>4, <1>5, <1>6, <1>7, <1>8, Zenon DEF ServerNext

(***************************************************************************)
(* What the invariant means for the requests.                              *)
(***************************************************************************)
LEMMA ContextsFromInv ==
  ASSUME ServerInv
  PROVE  ContextsAreOwn
<1>1. ASSUME NEW r \in Renderer, NEW c \in Context, isAlive(r)
      PROVE  IsNearest(slotOf(c, renderer[r].threadID), renderer[r].stack,
                       Len(renderer[r].stack), c)
  <2>1. r \in Alive(renderer)
    BY <1>1 DEF isAlive, Alive
  <2>2. SlotsOK(value, renderer)
    BY DEF ServerInv, Core
  <2>3. IsNearest(SlotIn(value, c, renderer[r].threadID), renderer[r].stack,
                  Len(renderer[r].stack), c)
    BY <2>1, <2>2, Zenon DEF SlotsOK
  <2> QED  BY <2>3, Zenon DEF SlotIn, slotOf
<1>2. currentThreadID = IF isReading THEN R.threadID ELSE 0
  <2>1. CallsOK(reading, renderer, currentThreadID)
    BY DEF ServerInv
  <2>2. currentThreadID = IF Len(reading) = 0 THEN 0
                          ELSE renderer[reading[Len(reading)].renderer].threadID
    BY <2>1, Zenon DEF CallsOK
  <2>3. CASE isReading
    <3>1. Len(reading) # 0 /\ call = reading[Len(reading)]
      BY <2>3, CallFacts
    <3> QED  BY <2>2, <2>3, <3>1 DEF R
  <2>4. CASE ~isReading
    <3>1. Len(reading) = 0
      BY <2>4 DEF isReading
    <3> QED  BY <2>2, <2>4, <3>1
  <2> QED  BY <2>3, <2>4
<1> QED  BY <1>1, <1>2, Zenon DEF ContextsAreOwn

LEMMA StatesFromInv ==
  ASSUME ServerInv, HooksRunThrough
  PROVE  StatesAreOwn
<1>1. reading \in Seq(Call) /\ HooksOK(reading, hooks)
  BY DEF ServerInv, CallsOK
<1>2. ASSUME NEW i \in DOMAIN reading, NEW s \in DOMAIN reading[i].run.states
      PROVE  reading[i].run.states[s] =
               <<reading[i].child, IF s = 1 THEN reading[i].run.base ELSE 0>>
  <2>1. i \in 1 .. Len(reading) /\ reading[i] \in Call
    BY <1>1
  <2>2. reading[i].run.states \in Seq(State)
    BY <2>1 DEF Call, Run
  <2>3. IsUsing(reading[i])
    <3>1. ~IsUsing(reading[i]) => reading[i].run.states = <<>>
      BY <1>1, <2>1, Zenon DEF HooksOK
    <3>2. reading[i].run.states # <<>>
      BY <1>2, <2>2
    <3> QED  BY <3>1, <3>2
  <2>4. i = Len(reading)
    <3>1. i < Len(reading) => ~IsUsing(reading[i])
      BY <1>1, <2>1, Zenon DEF HooksOK
    <3> QED  BY <3>1, <2>1, <2>3, <1>1
  <2>5. HooksOf(hooks, reading[i].child, reading[i].run)
    <3>1. Len(reading) # 0
      BY <2>1, <1>1
    <3> QED  BY <3>1, <2>3, <2>4, <1>1, Zenon DEF HooksOK
  <2>6. s \in 1 .. hooks.at
    <3>1. Len(reading[i].run.states) = hooks.at
      BY <2>5, Zenon DEF HooksOf
    <3>2. s \in 1 .. Len(reading[i].run.states)
      BY <1>2, <2>2
    <3> QED  BY <3>1, <3>2
  <2> QED  BY <2>5, <2>6, Zenon DEF HooksOf
<1> QED  BY <1>2, Zenon DEF StatesAreOwn

-----------------------------------------------------------------------------
\* The allocator, the slots, the calls of read() and the module variables of
\* the hooks agree in every state: no two renderers that are alive share a
\* thread ID, what is free is not in use, the slot of a free ID holds the
\* default, and the hooks are those of the component that runs or as new.
THEOREM ServerInvariant == ServerSpec => []ServerInv
<1>1. ServerInit => ServerInv
  BY ServerInvInit
<1>2. ServerInv /\ [ServerNext]_serverVars => ServerInv'
  BY ServerInvStep
<1> QED  BY <1>1, <1>2, PTL DEF ServerSpec

\* Requests that a server renders in turns do not mix: a renderer reads of each
\* context what the nearest provider in its own tree provides, through throws,
\* destroyed streams, reused thread IDs and renderToString within components;
\* and a component that uses hooks reads its own states, when such components
\* run through.
THEOREM RequestsStaySeparate == ServerSpec => []RequestsAreSeparate
<1>1. ServerInv => RequestsAreSeparate
  BY ContextsFromInv, StatesFromInv DEF RequestsAreSeparate
<1> QED  BY <1>1, ServerInvariant, PTL
=============================================================================
