------------------------ MODULE RootSchedulerProofs ------------------------
(***************************************************************************)
(* Proofs about ReactFiberWorkLoop.js, for every set of roots, every       *)
(* number of updates and every nesting of calls: what a root records of    *)
(* its work agrees with it, and between events no work is forgotten.       *)
(*                                                                         *)
(* The inductive invariant has four layers.  Base holds the types, the     *)
(* shape of the call stack and the agreement of records.  Evidence says of *)
(* every root what will render or commit it, be it a task, a queued        *)
(* callback or a call on the stack.  Settling says why a render that has   *)
(* waited for passive effects may throw a finished tree away.  Passive     *)
(* says who schedules the passive effects a commit has left.               *)
(***************************************************************************)
EXTENDS RootScheduler, FiniteSetTheorems, SequenceTheorems, WellFoundedInduction, TLAPS

Node == Handle \cup {NoNode, FakeCallbackNode}

RootRecord ==
  [firstPendingTime : Time, lastPendingTime : Time,
   callbackNode : Node, callbackExpirationTime : Time,
   finishedWork : Tree \cup {Null}, finishedExpirationTime : Time,
   timer : BOOLEAN, pingTime : Time]

\* The record x of a root whose pending updates are us.
RecordOK(x, us) ==
  /\ (x.finishedWork = Null) <=> (x.finishedExpirationTime = NoWork)
  /\ x.firstPendingTime = MaxTime(us)
  /\ \A u \in us : x.lastPendingTime \in 1 .. u.time
  /\ us = {} => x.lastPendingTime = NoWork
  /\ (x.callbackNode = NoNode) <=> (x.callbackExpirationTime = NoWork)
  /\ x.callbackExpirationTime <= x.firstPendingTime

Records ==
  /\ roots \in [Root -> RootRecord]
  /\ pending \in [Root -> SUBSET Update]
  /\ \A r \in Root : RecordOK(roots[r], pending[r])

Scalars ==
  /\ clock \in 1 .. Sync - 1 /\ currentEventTime \in Time
  /\ enqueued \in 0 .. MaxUpdate
  /\ hasUncaughtError \in BOOLEAN
  /\ passiveRoot \in Root \cup {Null} /\ passiveTask \in BOOLEAN
  /\ discrete \in [Root -> Time]
  /\ pings \subseteq Root \X (1 .. Sync)
  /\ retries \subseteq Root /\ forgotten \subseteq Root
-----------------------------------------------------------------------------
\* The Scheduler's tasks are wrapped by runRootCallback, and the one a root
\* refers to is its own.
TasksOK ==
  /\ \A task \in tasks : task.handle \in Handle /\ task.callback \in Callback
                         /\ task.callback.wrapped
  /\ \A task \in tasks, r \in Root :
       task.handle = roots[r].callbackNode => task.callback.root = r

\* Only renders are queued as synchronous callbacks.
QueueOK ==
  /\ syncQueue \in Seq(Callback)
  /\ \A c \in ToSet(syncQueue) : c.fn = "renderRoot"
-----------------------------------------------------------------------------
FrameShape ==
  [fn : {"renderRoot", "commitRoot", "flushPassiveEffects", "flush", "flushDiscreteUpdates"}
          \cup Handlers,
   at : {"start", "prepare", "mutate", "user", "last", "throw", "next", "passive"},
   root : Root \cup {Null}, time : Time, isSync : BOOLEAN, wrapped : BOOLEAN,
   prevCallbackNode : Node]

\* The positions at which a call of each function can be.
Position(f) ==
  \/ f.fn = "renderRoot" /\ f.at \in {"start", "prepare", "user"}
     /\ f.root \in Root /\ f.time # NoWork
  \/ f.fn = "commitRoot" /\ f.at \in {"start", "mutate", "user", "last", "throw"}
     /\ f.root \in Root
  \/ f.fn = "flushPassiveEffects" /\ f.at \in {"user", "last"} /\ f.root \in Root
  \/ f.fn = "flush" /\ f.at = "next"
  \/ f.fn = "flushDiscreteUpdates" /\ f.at = "passive"
  \/ f.fn \in Handlers /\ f.at = "user"

FrameType == {f \in FrameShape : Position(f)}

\* A call at one of these positions is not waiting for another call; only
\* handlers run user code that calls flushSync and the like.
Waiting(f) == f.fn \in Handlers \/ f.at \notin {"start", "user", "throw"}

(***************************************************************************)
(* The shape of the stack: only its top may be at work, handlers are the   *)
(* outermost calls, a render inside of another call is synchronous, and    *)
(* one called by the Scheduler is wrapped.                                 *)
(***************************************************************************)
StackOK(s) ==
  /\ s \in Seq(FrameType)
  /\ \A i \in 2 .. Len(s) : Waiting(s[i])
  /\ \A i \in 1 .. Len(s) : s[i].fn = "renderRoot" =>
       IF i = Len(s) THEN s[i].wrapped ELSE s[i].isSync
  /\ \A i \in 1 .. Len(s), k \in 1 .. Len(s) :
       i <= k /\ s[i].fn \in Handlers => s[k].fn \in Handlers

\* The render in progress covers only pending updates of its time, its root
\* has no finished tree, and the render that runs user code is this one.
WipOK ==
  /\ wip \in [root : Root \cup {Null}, time : Time, updates : SUBSET Update]
  /\ wip.root # Null =>
       /\ wip.time # NoWork
       /\ wip.updates \subseteq Covered(wip.root, wip.time)
       /\ roots[wip.root].finishedWork = Null
  /\ At("renderRoot", "user") => wip.root = Top.root /\ wip.time = Top.time

Base == Records /\ Scalars /\ TasksOK /\ QueueOK /\ StackOK(stack) /\ WipOK
-----------------------------------------------------------------------------
(* What is coming for a root.                                              *)

CanWork(f) ==
  \/ f.fn = "renderRoot"
  \/ f.fn = "commitRoot" /\ f.at \in {"start", "mutate"}
Works(f, r) == CanWork(f) /\ Renders(f, r)

\* The record of a callback survives a call that ends if the call is not the
\* one the record is about.
Holds(f, r) ==
  \/ f.isSync
  \/ f.wrapped /\ f.prevCallbackNode = roots[r].callbackNode

RenderComing(r) ==
  \/ \E task \in tasks : task.callback.fn = "renderRoot" /\ Renders(task.callback, r)
  \/ \E c \in ToSet(syncQueue) : Renders(c, r)
  \/ \E f \in ToSet(stack) : Works(f, r) /\ Holds(f, r)

CallbackComing(r) == RenderComing(r) \/ \E task \in tasks : Renders(task.callback, r)

Coming(r) ==
  \/ Scheduled(r)
  \/ \E f \in ToSet(stack) : Works(f, r)
  \/ \E f \in ToSet(stack) : f.fn = "commitRoot" /\ f.at = "user" /\ f.root = r

\* A render the Scheduler has called and that is not in its work loop yet.
Starting(f, r) ==
  f.fn = "renderRoot" /\ f.root = r /\ ~f.isSync /\ f.at \in {"start", "prepare"}

EvidenceOf(r) ==
  /\ pending[r] # {} => Coming(r)
  /\ roots[r].callbackNode # NoNode => CallbackComing(r)
  /\ \A f \in ToSet(stack) :
       Starting(f, r) /\ roots[r].callbackNode \notin {NoNode, f.prevCallbackNode}
         => RenderComing(r)

Evidence == \A r \in Root \ forgotten : EvidenceOf(r)
-----------------------------------------------------------------------------
(* Renders that wait for passive effects.                                  *)

\* A render that would throw a finished tree away although it has nothing
\* to render itself.
Unsettled(f, rs) ==
  /\ f.fn = "renderRoot" /\ f.at = "prepare"
  /\ f.time > rs[f.root].firstPendingTime /\ rs[f.root].finishedWork # Null

\* A call that is about to commit the tree of r or to discard it.
Replaces(f, r, rs) ==
  /\ f.root = r
  /\ \/ f.fn = "commitRoot" /\ f.at \in {"start", "mutate"}
     \/ f.fn = "renderRoot" /\ f.at = "start" /\ f.time <= rs[r].firstPendingTime
     \/ f.fn = "renderRoot" /\ f.at = "prepare"

\* Below every such render there is a call that settles it first; the roots
\* of R are left out.
SettledIn(s, rs, R) ==
  \A i \in 1 .. Len(s) : Unsettled(s[i], rs) =>
    \/ s[i].root \in R
    \/ \E j \in 1 .. i - 1 : Replaces(s[j], s[i].root, rs)

Settling == SettledIn(stack, roots, {})

\* A commit that is about to end is on the stack, below a flush at most.
CommitEnding(s) ==
  \E i \in 1 .. Len(s) :
    /\ s[i].fn = "commitRoot" /\ s[i].at = "last"
    /\ \A j \in 1 .. i - 1 : s[j].at \in {"next", "start"}

Passive == passiveRoot # Null /\ ~passiveTask => CommitEnding(stack)

IInv == Base /\ Evidence /\ Settling /\ Passive
-----------------------------------------------------------------------------
(* Sequences as stacks.                                                    *)

Push(f, s) == <<f>> \o s

LEMMA Elements ==
  ASSUME NEW T, NEW s \in Seq(T)
  PROVE  /\ Len(s) \in Nat
         /\ \A i \in 1 .. Len(s) : s[i] \in T /\ s[i] \in ToSet(s)
         /\ \A x \in ToSet(s) : x \in T /\ \E i \in 1 .. Len(s) : x = s[i]
  BY LenProperties, ElementOfSeq DEF ToSet

LEMMA EmptyStack == ToSet(<<>>) = {}
  BY DEF ToSet

LEMMA Pushed ==
  ASSUME NEW T, NEW f \in T, NEW s \in Seq(T)
  PROVE  /\ Push(f, s) \in Seq(T) /\ Push(f, s) # <<>>
         /\ Len(Push(f, s)) = Len(s) + 1
         /\ Push(f, s)[1] = f
         /\ \A i \in 1 .. Len(s) : Push(f, s)[i + 1] = s[i]
         /\ Head(Push(f, s)) = f /\ Tail(Push(f, s)) = s
         /\ ToSet(Push(f, s)) = {f} \cup ToSet(s)
<1> DEFINE p == Push(f, s)
<1>1. /\ p \in Seq(T) /\ Len(p) = Len(s) + 1 /\ p[1] = f /\ Len(s) \in Nat
      /\ \A i \in 1 .. Len(s) : p[i + 1] = s[i]
  <2>1. <<f>> \in Seq(T) /\ Len(<<f>>) = 1 /\ <<f>>[1] = f
    OBVIOUS
  <2> QED  BY <2>1, ConcatProperties, LenProperties DEF Push
<1> HIDE DEF p
<1>2. p # <<>>
  BY <1>1, EmptySeq
<1>3. /\ Head(p) = f /\ Tail(p) \in Seq(T) /\ Len(Tail(p)) = Len(s)
      /\ \A i \in 1 .. Len(s) : Tail(p)[i] = s[i]
  BY <1>1, <1>2, HeadTailProperties
<1>4. Tail(p) = s
  BY <1>3, SeqEqual
<1>5. ToSet(p) = {f} \cup ToSet(s)
  <2>1. ASSUME NEW x \in ToSet(p)  PROVE x \in {f} \cup ToSet(s)
    <3>1. PICK i \in 1 .. Len(p) : x = p[i]
      BY <1>1, Elements
    <3>2. i = 1 \/ (i - 1 \in 1 .. Len(s) /\ (i - 1) + 1 = i)
      BY <1>1
    <3>3. CASE i = 1
      BY <1>1, <3>1, <3>3
    <3>4. CASE i - 1 \in 1 .. Len(s) /\ (i - 1) + 1 = i
      <4>1. x = s[i - 1]
        BY <1>1, <3>1, <3>4
      <4> QED  BY <3>4, <4>1, Elements
    <3> QED  BY <3>2, <3>3, <3>4
  <2>2. ASSUME NEW x \in {f} \cup ToSet(s)  PROVE x \in ToSet(p)
    <3>1. CASE x = f
      BY <1>1, <3>1, Elements
    <3>2. CASE x \in ToSet(s)
      <4>1. PICK i \in 1 .. Len(s) : x = s[i]
        BY <3>2, Elements
      <4> QED  BY <1>1, <4>1, Elements
    <3> QED  BY <3>1, <3>2
  <2> QED  BY <2>1, <2>2
<1> QED  BY <1>1, <1>2, <1>3, <1>4, <1>5 DEF p

\* A stack that is not empty is its top pushed on the rest.
LEMMA Popped ==
  ASSUME NEW T, NEW s \in Seq(T), s # <<>>
  PROVE  /\ Len(s) \in Nat \ {0}
         /\ Head(s) = s[1] /\ Head(s) \in T /\ Head(s) \in ToSet(s)
         /\ Tail(s) \in Seq(T) /\ Len(Tail(s)) = Len(s) - 1
         /\ \A i \in 1 .. Len(Tail(s)) : Tail(s)[i] = s[i + 1]
         /\ ToSet(s) = {Head(s)} \cup ToSet(Tail(s))
         /\ s = Push(Head(s), Tail(s))
<1>1. /\ Len(s) \in Nat \ {0} /\ Head(s) = s[1] /\ Head(s) \in T
      /\ Tail(s) \in Seq(T) /\ Len(Tail(s)) = Len(s) - 1
      /\ \A i \in 1 .. Len(Tail(s)) : Tail(s)[i] = s[i + 1]
  BY HeadTailProperties, EmptySeq
<1>0. PICK top, rest : top = Head(s) /\ rest = Tail(s)
  OBVIOUS
<1>2. /\ top \in T /\ rest \in Seq(T) /\ Len(rest) = Len(s) - 1 /\ top = s[1]
      /\ \A i \in 1 .. Len(rest) : rest[i] = s[i + 1]
  BY <1>0, <1>1
<1>8. top \in T /\ rest \in Seq(T)
  BY <1>2
<1>3. /\ Push(top, rest) \in Seq(T) /\ Len(Push(top, rest)) = Len(rest) + 1
      /\ Push(top, rest)[1] = top
      /\ ToSet(Push(top, rest)) = {top} \cup ToSet(rest)
  BY <1>8, Pushed
<1>7. \A i \in 1 .. Len(rest) : Push(top, rest)[i + 1] = rest[i]
  BY <1>8, Pushed
<1>4. ASSUME NEW i \in 1 .. Len(s)
      PROVE  s[i] = Push(top, rest)[i]
  <2>1. i = 1 \/ (i - 1 \in 1 .. Len(rest) /\ (i - 1) + 1 = i)
    BY <1>1, <1>2
  <2> QED  BY <1>2, <1>3, <1>7, <2>1
<1>5. Len(s) = Len(Push(top, rest))
  BY <1>1, <1>2, <1>3
<1>6. s = Push(top, rest)
  BY <1>3, <1>4, <1>5, SeqEqual
<1> QED  BY <1>0, <1>1, <1>3, <1>6
-----------------------------------------------------------------------------
(* The shape of the stack under pushes and pops.                           *)

Resumable(s) == s # <<>> => Waiting(Head(s))
OnlyHandlers(s) == \A f \in ToSet(s) : f.fn \in Handlers

\* What a frame must be to be pushed on s.
MayPush(f, s) ==
  /\ f \in FrameType
  /\ Resumable(s)
  /\ f.fn = "renderRoot" => IF s = <<>> THEN f.wrapped ELSE f.isSync
  /\ f.fn \in Handlers => OnlyHandlers(s)

LEMMA StackPush ==
  ASSUME NEW s, StackOK(s), NEW f, MayPush(f, s)
  PROVE  StackOK(Push(f, s))
<1>1. s \in Seq(FrameType) /\ f \in FrameType
  BY DEF StackOK, MayPush
<1>2. PICK p : p = Push(f, s)
  OBVIOUS
<1>3. p \in Seq(FrameType) /\ Len(s) \in Nat /\ Len(p) = Len(s) + 1
  BY <1>1, <1>2, Pushed, LenProperties
<1>4. p[1] = f
  BY <1>1, <1>2, Pushed
<1>5. \A i \in 1 .. Len(s) : p[i + 1] = s[i]
  <2>1. \A i \in 1 .. Len(s) : Push(f, s)[i + 1] = s[i]
    BY <1>1, Pushed
  <2> QED  BY <1>2, <2>1
<1>6. ASSUME NEW i \in 1 .. Len(p), i # 1
      PROVE  i - 1 \in 1 .. Len(s) /\ p[i] = s[i - 1]
  <2>1. i - 1 \in 1 .. Len(s) /\ (i - 1) + 1 = i
    BY <1>3, <1>6
  <2> QED  BY <1>5, <2>1
<1>7. s = <<>> <=> Len(s) = 0
  BY <1>1, EmptySeq
<1>8. ASSUME NEW i \in 2 .. Len(p)
      PROVE  Waiting(p[i])
  <2>1. i \in 1 .. Len(p) /\ i # 1
    BY <1>3
  <2>2. i - 1 \in 1 .. Len(s) /\ p[i] = s[i - 1]
    BY <1>6, <2>1
  <2>3. CASE i = 2
    <3>1. s # <<>> /\ p[i] = s[1]
      BY <1>3, <1>7, <2>2, <2>3
    <3> QED  BY <1>1, <3>1, Popped DEF MayPush, Resumable
  <2>4. CASE i # 2
    <3>1. i - 1 \in 2 .. Len(s)
      BY <1>3, <2>2, <2>4
    <3> QED  BY <2>2, <3>1 DEF StackOK
  <2> QED  BY <2>3, <2>4
<1>9. ASSUME NEW i \in 1 .. Len(p), p[i].fn = "renderRoot"
      PROVE  IF i = Len(p) THEN p[i].wrapped ELSE p[i].isSync
  <2>1. CASE i = 1
    BY <1>3, <1>4, <1>7, <1>9, <2>1 DEF MayPush
  <2>2. CASE i # 1
    <3>1. i - 1 \in 1 .. Len(s) /\ p[i] = s[i - 1]
      BY <1>6, <2>2
    <3>2. i = Len(p) <=> i - 1 = Len(s)
      BY <1>3
    <3> QED  BY <1>9, <3>1, <3>2 DEF StackOK
  <2> QED  BY <2>1, <2>2
<1>10. ASSUME NEW i \in 1 .. Len(p), NEW k \in 1 .. Len(p), i <= k, p[i].fn \in Handlers
       PROVE  p[k].fn \in Handlers
  <2>1. CASE k = 1
    BY <1>10, <2>1
  <2>2. CASE k # 1
    <3>1. k - 1 \in 1 .. Len(s) /\ p[k] = s[k - 1]
      BY <1>6, <2>2
    <3>2. CASE i = 1
      <4>1. OnlyHandlers(s)
        BY <1>4, <1>10, <3>2 DEF MayPush
      <4>2. s[k - 1] \in ToSet(s)
        BY <1>1, <3>1, Elements
      <4> QED  BY <3>1, <4>1, <4>2 DEF OnlyHandlers
    <3>3. CASE i # 1
      <4>1. i - 1 \in 1 .. Len(s) /\ p[i] = s[i - 1]
        BY <1>6, <3>3
      <4>2. i - 1 <= k - 1
        BY <1>3, <1>10
      <4> QED  BY <1>10, <3>1, <4>1, <4>2 DEF StackOK
    <3> QED  BY <3>2, <3>3
  <2> QED  BY <2>1, <2>2
<1>11. StackOK(p)
  BY <1>3, <1>8, <1>9, <1>10 DEF StackOK
<1> QED  BY <1>2, <1>11

LEMMA StackPop ==
  ASSUME NEW s, StackOK(s), s # <<>>
  PROVE  StackOK(Tail(s)) /\ MayPush(Head(s), Tail(s))
<1>1. s \in Seq(FrameType)
  BY DEF StackOK
<1>2. PICK top, rest : top = Head(s) /\ rest = Tail(s)
  OBVIOUS
<1>3. /\ Len(s) \in Nat \ {0} /\ top = s[1] /\ top \in FrameType
      /\ rest \in Seq(FrameType) /\ Len(rest) = Len(s) - 1
  BY <1>1, <1>2, Popped
<1>4. \A i \in 1 .. Len(rest) : rest[i] = s[i + 1]
  BY <1>1, <1>2, Popped
<1>5. ASSUME NEW i \in 1 .. Len(rest)
      PROVE  i + 1 \in 2 .. Len(s) /\ i + 1 \in 1 .. Len(s) /\ rest[i] = s[i + 1]
  BY <1>3, <1>4
<1>6. rest = <<>> <=> Len(s) = 1
  <2>1. rest = <<>> <=> Len(rest) = 0
    BY <1>3, EmptySeq
  <2> QED  BY <1>3, <2>1
<1>7. ASSUME NEW i \in 1 .. Len(rest)
      PROVE  Waiting(rest[i])
  BY <1>5 DEF StackOK
<1>8. ASSUME NEW i \in 1 .. Len(rest), rest[i].fn = "renderRoot"
      PROVE  IF i = Len(rest) THEN rest[i].wrapped ELSE rest[i].isSync
  <2>1. i = Len(rest) <=> i + 1 = Len(s)
    BY <1>3
  <2> QED  BY <1>5, <1>8, <2>1 DEF StackOK
<1>9. ASSUME NEW i \in 1 .. Len(rest), NEW k \in 1 .. Len(rest), i <= k, rest[i].fn \in Handlers
      PROVE  rest[k].fn \in Handlers
  <2>1. i + 1 <= k + 1
    BY <1>3, <1>9
  <2> QED  BY <1>5, <1>9, <2>1 DEF StackOK
<1>10. StackOK(rest)
  <2>1. \A i \in 2 .. Len(rest) : Waiting(rest[i])
    BY <1>3, <1>7
  <2> QED  BY <1>3, <1>8, <1>9, <2>1 DEF StackOK
<1>11. Resumable(rest)
  <2>1. ASSUME rest # <<>>
        PROVE  1 \in 1 .. Len(rest) /\ Head(rest) = rest[1]
    BY <1>3, <2>1, Popped
  <2> QED  BY <1>7, <2>1 DEF Resumable
<1>12. top.fn = "renderRoot" => IF rest = <<>> THEN top.wrapped ELSE top.isSync
  <2>1. 1 \in 1 .. Len(s)
    BY <1>3
  <2> QED  BY <1>3, <1>6, <2>1 DEF StackOK
<1>13. ASSUME top.fn \in Handlers
       PROVE  OnlyHandlers(rest)
  <2> SUFFICES ASSUME NEW f \in ToSet(rest)
               PROVE  f.fn \in Handlers
    BY DEF OnlyHandlers
  <2>1. PICK i \in 1 .. Len(rest) : f = rest[i]
    BY <1>3, Elements
  <2>2. 1 \in 1 .. Len(s) /\ 1 <= i + 1
    BY <1>3
  <2> QED  BY <1>3, <1>5, <1>13, <2>1, <2>2 DEF StackOK
<1>14. MayPush(top, rest)
  BY <1>3, <1>11, <1>12, <1>13 DEF MayPush
<1> QED  BY <1>2, <1>10, <1>14

\* The top frame, and the frame that takes its place when it goes on.
LEMMA TopFrame ==
  ASSUME StackOK(stack), stack # <<>>
  PROVE  /\ StackOK(Below) /\ MayPush(Top, Below)
         /\ Top \in FrameType /\ Top \in ToSet(stack)
         /\ ToSet(stack) = {Top} \cup ToSet(Below)
         /\ ToSet(Below) \subseteq ToSet(stack)
         /\ \A f \in ToSet(stack) : f \in FrameType
<1>1. stack \in Seq(FrameType)
  BY DEF StackOK
<1>2. StackOK(Tail(stack)) /\ MayPush(Head(stack), Tail(stack))
  BY StackPop
<1>3. /\ Head(stack) \in FrameType /\ Head(stack) \in ToSet(stack)
      /\ ToSet(stack) = {Head(stack)} \cup ToSet(Tail(stack))
  BY <1>1, Popped
<1>4. \A f \in ToSet(stack) : f \in FrameType
  BY <1>1, Elements
<1> QED  BY <1>2, <1>3, <1>4 DEF Top, Below

LEMMA GotoPushes ==
  ASSUME StackOK(stack), stack # <<>>, NEW at, [Top EXCEPT !.at = at] \in FrameType
  PROVE  Goto(at) = Push([Top EXCEPT !.at = at], Below)
<1>1. stack \in Seq(FrameType) /\ Below \in Seq(FrameType) /\ Top = stack[1]
      /\ Len(Below) = Len(stack) - 1 /\ Len(stack) \in Nat \ {0}
  BY Popped DEF StackOK, Top, Below
<1>2. PICK f, rest : f = [Top EXCEPT !.at = at] /\ rest = Below
  OBVIOUS
<1>3. Goto(at) = [stack EXCEPT ![1] = f]
  BY <1>1, <1>2 DEF Goto
<1>4. 1 \in 1 .. Len(stack) /\ f \in FrameType /\ rest \in Seq(FrameType)
  BY <1>1, <1>2
<1>5. PICK g : g = [stack EXCEPT ![1] = f]
  OBVIOUS
<1>6. /\ g \in Seq(FrameType) /\ Len(g) = Len(stack)
      /\ \A j \in 1 .. Len(stack) : g[j] = IF j = 1 THEN f ELSE stack[j]
  BY <1>1, <1>4, <1>5, ExceptSeq
<1>7. g # <<>>
  BY <1>1, <1>6, EmptySeq
<1>8. /\ Head(g) = g[1] /\ Tail(g) \in Seq(FrameType) /\ Len(Tail(g)) = Len(g) - 1
      /\ g = Push(Head(g), Tail(g))
  BY <1>6, <1>7, Popped
<1>9. \A i \in 1 .. Len(Tail(g)) : Tail(g)[i] = g[i + 1]
  BY <1>6, <1>7, Popped
<1>10. \A i \in 1 .. Len(rest) : rest[i] = stack[i + 1]
  <2>1. \A i \in 1 .. Len(Tail(stack)) : Tail(stack)[i] = stack[i + 1]
    BY <1>1, Popped
  <2> QED  BY <1>2, <2>1 DEF Below
<1>11. ASSUME NEW i \in 1 .. Len(Tail(g))
       PROVE  Tail(g)[i] = rest[i]
  <2>1. i + 1 \in 1 .. Len(stack) /\ i + 1 # 1 /\ i \in 1 .. Len(rest)
    BY <1>1, <1>2, <1>6, <1>8
  <2> QED  BY <1>6, <1>9, <1>10, <2>1
<1>12. Len(Tail(g)) = Len(rest)
  BY <1>1, <1>2, <1>6, <1>8
<1>13. Tail(g) = rest
  BY <1>4, <1>8, <1>11, <1>12, SeqEqual
<1>14. Head(g) = f
  BY <1>1, <1>6, <1>8
<1> QED  BY <1>2, <1>3, <1>5, <1>8, <1>13, <1>14

\* A flush is pushed, unless there is one already.
LEMMA FlushSyncPushes ==
  ASSUME NEW s
  PROVE  FlushSync(s) \in {s, Push(Frame("flush", "next", Null), s)}
  BY DEF FlushSync, Push

\* While user code runs the phase is that of the call on top.
LEMMA WorkPhaseIs ==
  ASSUME StackOK(stack), UserCode
  PROVE  /\ stack = <<>> => workPhase = "NotWorking"
         /\ stack # <<>> =>
              /\ Top.at = "user"
              /\ workPhase = IF Top.fn = "renderRoot" THEN "RenderPhase"
                             ELSE IF Top.fn \in Handlers THEN Top.fn ELSE "CommitPhase"
<1> DEFINE user == {i \in 1 .. Len(stack) : stack[i].at = "user"}
<1>1. stack \in Seq(FrameType)
  BY DEF StackOK
<1>2. CASE stack = <<>>
  <2>1. user = {}
    BY <1>2
  <2> QED  BY <1>2, <2>1 DEF workPhase
<1>3. CASE stack # <<>>
  <2>1. Len(stack) \in Nat \ {0} /\ Top = stack[1] /\ Top.at = "user"
    BY <1>1, <1>3, Popped DEF Top, UserCode
  <2>2. 1 \in user /\ \A i \in user : i \in Nat \ {0}
    BY <2>1
  <2> HIDE DEF user
  <2>3. \A x \in user : (\A y \in user : x <= y) => x = 1
    BY <2>2
  <2>4. \A y \in user : 1 <= y
    BY <2>2
  <2>5. Min(user) = 1
    BY <2>2, <2>3, <2>4 DEF Min
  <2> QED  BY <1>3, <2>1, <2>2, <2>5 DEF workPhase, user
<1> QED  BY <1>2, <1>3
-----------------------------------------------------------------------------
(* The highest of a set of times.                                          *)

LEMMA LeastOf ==
  ASSUME NEW S, S \subseteq Nat, S # {}
  PROVE  \E x \in S : \A y \in S : x <= y
<1>1. PICK x \in S : \A y \in S : ~(<<y, x>> \in OpToRel(<, Nat))
  BY NatLessThanWellFounded, WFMin, Zenon
<1>2. ASSUME NEW y \in S
      PROVE  x <= y
  <2>1. <<y, x>> \in Nat \X Nat /\ <<y, x>>[1] = y /\ <<y, x>>[2] = x
    OBVIOUS
  <2>2. y < x => <<y, x>> \in OpToRel(<, Nat)
    BY <2>1, Zenon DEF OpToRel
  <2>3. ~(y < x)
    BY <1>1, <2>2, Zenon
  <2> QED  BY <2>3
<1> QED  BY <1>2

LEMMA MaxOfTimes ==
  ASSUME NEW S, S \subseteq Time, S # {}
  PROVE  Max(S) \in S /\ \A y \in S : y <= Max(S)
<1> DEFINE T == {Sync - x : x \in S}
<1>1. \A x \in S : Sync - x \in Nat
  BY RootAssumption DEF Time
<1>5. T \subseteq Nat /\ T # {}
  BY <1>1
<1>2. PICK m \in T : \A y \in T : m <= y
  BY <1>5, LeastOf
<1>3. PICK x \in S : m = Sync - x
  BY <1>2
<1>4. ASSUME NEW y \in S
      PROVE  x >= y
  <2>1. Sync - x <= Sync - y
    BY <1>2, <1>3
  <2> QED  BY <2>1, RootAssumption DEF Time
<1>6. Max(S) \in S /\ \A y \in S : Max(S) >= y
  BY <1>4, Zenon DEF Max
<1> QED  BY <1>6 DEF Time

LEMMA MaxTimeIs ==
  ASSUME NEW us, us \subseteq Update
  PROVE  /\ MaxTime(us) \in Time
         /\ \A u \in us : u.time <= MaxTime(us)
         /\ MaxTime(us) = NoWork \/ \E u \in us : u.time = MaxTime(us)
         /\ us = {} <=> MaxTime(us) = NoWork
<1> DEFINE S == {u.time : u \in us} \cup {NoWork}
<1>1. S \subseteq Time /\ S # {}
  BY RootAssumption DEF Update, Time, NoWork
<1>2. Max(S) \in S /\ \A y \in S : y <= Max(S)
  BY <1>1, MaxOfTimes
<1>3. \A u \in us : u.time \in 1 .. Sync
  BY DEF Update
<1>4. us # {} => Max(S) # NoWork
  <2> SUFFICES ASSUME NEW u \in us
               PROVE  Max(S) # NoWork
    OBVIOUS
  <2>1. u.time \in S
    OBVIOUS
  <2>2. u.time <= Max(S) /\ Max(S) \in Time /\ u.time \in 1 .. Sync
    BY <1>1, <1>2, <1>3, <2>1
  <2> HIDE DEF S
  <2> QED  BY <2>2 DEF Time, NoWork
<1> QED  BY <1>1, <1>2, <1>3, <1>4 DEF MaxTime

\* It is the only time that bounds the others and is one of them, or none.
LEMMA MaxTimeUnique ==
  ASSUME NEW us, us \subseteq Update, NEW m \in Time,
         \A u \in us : u.time <= m,
         m = NoWork \/ \E u \in us : u.time = m
  PROVE  MaxTime(us) = m
BY MaxTimeIs, RootAssumption DEF Update, Time, NoWork

LEMMA MaxTimeOfAdded ==
  ASSUME NEW us, us \subseteq Update, NEW u \in Update
  PROVE  MaxTime(us \cup {u}) = IF u.time > MaxTime(us) THEN u.time ELSE MaxTime(us)
<1> DEFINE m == IF u.time > MaxTime(us) THEN u.time ELSE MaxTime(us)
<1>1. u.time \in Time /\ us \cup {u} \subseteq Update
  BY RootAssumption DEF Update, Time
<1>2. /\ MaxTime(us) \in Time
      /\ \A x \in us : x.time <= MaxTime(us)
      /\ MaxTime(us) = NoWork \/ \E x \in us : x.time = MaxTime(us)
  BY MaxTimeIs
<1>3. m \in Time /\ \A x \in us \cup {u} : x.time <= m
  BY <1>1, <1>2, RootAssumption DEF Time, Update
<1>4. m = NoWork \/ \E x \in us \cup {u} : x.time = m
  BY <1>2
<1> QED  BY <1>1, <1>3, <1>4, MaxTimeUnique
-----------------------------------------------------------------------------
(* What the operations on a root do to its record.                         *)

\* The records of the other roots stay.
OnlyAt(r, rs) == /\ rs \in [Root -> RootRecord]
                 /\ \A q \in Root : q # r => rs[q] = roots[q]

\* Two records agree on all but the callback.
SameButCallback(x, y) ==
  /\ x.firstPendingTime = y.firstPendingTime /\ x.lastPendingTime = y.lastPendingTime
  /\ x.finishedWork = y.finishedWork
  /\ x.finishedExpirationTime = y.finishedExpirationTime
  /\ x.timer = y.timer /\ x.pingTime = y.pingTime

LEMMA RecordFields ==
  ASSUME NEW x \in RootRecord
  PROVE  /\ x.firstPendingTime \in Time /\ x.lastPendingTime \in Time
         /\ x.callbackNode \in Node /\ x.callbackExpirationTime \in Time
         /\ x.finishedWork \in Tree \cup {Null} /\ x.finishedExpirationTime \in Time
         /\ x.timer \in BOOLEAN /\ x.pingTime \in Time
  BY DEF RootRecord

LEMMA Enqueued ==
  ASSUME Records, Scalars, NEW r \in Root, NEW t \in 1 .. Sync, NEW uncaught \in BOOLEAN,
         EnqueueUpdate(r, t, uncaught)
  PROVE  /\ pending' \in [Root -> SUBSET Update] /\ enqueued' \in 0 .. MaxUpdate
         /\ \A q \in Root : q # r => pending'[q] = pending[q]
         /\ \E u \in Update : u.time = t /\ pending'[r] = pending[r] \cup {u}
<1> DEFINE u == [number |-> enqueued', time |-> t, uncaught |-> uncaught]
<1>1. enqueued' \in 1 .. MaxUpdate
  BY RootAssumption DEF EnqueueUpdate, Scalars
<1>2. u \in Update /\ u.time = t
  BY <1>1 DEF Update
<1>3. pending' = [pending EXCEPT ![r] = @ \cup {u}]
  BY DEF EnqueueUpdate
<1> HIDE DEF u
<1> QED  BY <1>1, <1>2, <1>3 DEF Records

LEMMA MarkedAgrees ==
  ASSUME Records, NEW r \in Root, NEW u \in Update
  PROVE  LET rs == Marked(roots, r, u.time)
         IN  /\ OnlyAt(r, rs)
             /\ RecordOK(rs[r], pending[r] \cup {u})
             /\ rs[r].firstPendingTime >= u.time
             /\ rs[r].firstPendingTime >= roots[r].firstPendingTime
             /\ rs[r].finishedWork = roots[r].finishedWork
             /\ rs[r].finishedExpirationTime = roots[r].finishedExpirationTime
             /\ rs[r].timer = roots[r].timer
             /\ rs[r].callbackNode = roots[r].callbackNode
             /\ rs[r].callbackExpirationTime = roots[r].callbackExpirationTime
<1> DEFINE rs == Marked(roots, r, u.time)
           t == u.time
           x == roots[r]
<1>1. x \in RootRecord /\ pending[r] \subseteq Update /\ RecordOK(x, pending[r])
  BY DEF Records
<1>2. t \in 1 .. Sync
  BY DEF Update
<1>3. /\ rs = [roots EXCEPT ![r] = rs[r]]
      /\ rs[r] = [x EXCEPT !.firstPendingTime = IF t > @ THEN t ELSE @,
                           !.lastPendingTime = IF @ = NoWork \/ t < @ THEN t ELSE @]
  BY DEF Records, Marked
<1> DEFINE y == rs[r]
<1>4. y \in RootRecord
  <2>1. t \in Time
    BY <1>2 DEF Time
  <2>2. \A a, b \in Time :
          [x EXCEPT !.firstPendingTime = a, !.lastPendingTime = b] \in RootRecord
    BY <1>1 DEF RootRecord
  <2>3. PICK a, b \in Time :
          y = [x EXCEPT !.firstPendingTime = a, !.lastPendingTime = b]
    <3>1. x.firstPendingTime \in Time /\ x.lastPendingTime \in Time
      BY <1>1, RecordFields
    <3> DEFINE a == IF t > x.firstPendingTime THEN t ELSE x.firstPendingTime
               b == IF x.lastPendingTime = NoWork \/ t < x.lastPendingTime THEN t
                    ELSE x.lastPendingTime
    <3>2. a \in Time /\ b \in Time
      BY <2>1, <3>1
    <3>3. y = [x EXCEPT !.firstPendingTime = a, !.lastPendingTime = b]
      BY <1>3
    <3> QED  BY <3>2, <3>3
  <2> QED  BY <2>2, <2>3
<1>5. OnlyAt(r, rs)
  BY <1>3, <1>4 DEF OnlyAt, Records
<1>6. /\ y.firstPendingTime = IF t > x.firstPendingTime THEN t ELSE x.firstPendingTime
      /\ y.lastPendingTime = IF x.lastPendingTime = NoWork \/ t < x.lastPendingTime
                             THEN t ELSE x.lastPendingTime
      /\ y.finishedWork = x.finishedWork
      /\ y.finishedExpirationTime = x.finishedExpirationTime
      /\ y.timer = x.timer /\ y.callbackNode = x.callbackNode
      /\ y.callbackExpirationTime = x.callbackExpirationTime
  BY <1>1, <1>3 DEF RootRecord
<1> HIDE DEF y, x, t
<1>7. x.firstPendingTime \in Time /\ x.lastPendingTime \in Time
      /\ x.callbackExpirationTime \in Time
  BY <1>1, RecordFields
<1>8. y.firstPendingTime >= t /\ y.firstPendingTime >= x.firstPendingTime
  BY <1>2, <1>6, <1>7 DEF Time
<1>9. y.firstPendingTime = MaxTime(pending[r] \cup {u})
  <2>1. MaxTime(pending[r] \cup {u}) =
          IF u.time > MaxTime(pending[r]) THEN u.time ELSE MaxTime(pending[r])
    BY <1>1, MaxTimeOfAdded
  <2> QED  BY <1>1, <1>6, <2>1 DEF RecordOK, t
<1>10. ASSUME NEW v \in pending[r] \cup {u}
       PROVE  y.lastPendingTime \in 1 .. v.time
  <2>1. CASE v = u
    BY <1>2, <1>6, <1>7, <2>1 DEF Time, NoWork, t
  <2>2. CASE v \in pending[r]
    <3>1. x.lastPendingTime \in 1 .. v.time /\ v.time \in 1 .. Sync
      BY <1>1, <2>2 DEF RecordOK, Update
    <3> QED  BY <1>2, <1>6, <1>7, <3>1 DEF Time, NoWork
  <2> QED  BY <2>1, <2>2
<1>11. y.callbackExpirationTime <= y.firstPendingTime
  <2>1. x.callbackExpirationTime <= x.firstPendingTime
    BY <1>1 DEF RecordOK
  <2> QED  BY <1>2, <1>6, <1>7, <2>1 DEF Time
<1>12. RecordOK(y, pending[r] \cup {u})
  BY <1>1, <1>6, <1>9, <1>10, <1>11 DEF RecordOK
<1> QED  BY <1>5, <1>6, <1>8, <1>12 DEF y, x, t

LEMMA NodeConstants ==
  /\ NoNode \notin Handle /\ FakeCallbackNode \notin Handle /\ NoNode # FakeCallbackNode
  /\ NoNode \in Node /\ FakeCallbackNode \in Node /\ Handle \subseteq Node
  BY RootAssumption DEF Node, NoNode, FakeCallbackNode

\* A fresh identity is that of no task and no callback.
LEMMA FreshIsFree ==
  ASSUME FreeHandle # {}
  PROVE  /\ FreshHandle \in Handle
         /\ \A task \in tasks : task.handle # FreshHandle
         /\ \A r \in Root : roots[r].callbackNode # FreshHandle
<1>1. FreshHandle \in FreeHandle
  BY DEF FreshHandle
<1> QED  BY <1>1 DEF FreeHandle

\* What scheduleCallbackForRoot adds.
Anew(r, t) ==
  \/ \E task \in tasks' : task.callback = RenderOf(r, t, TRUE)
  \/ RenderOf(r, t, TRUE) \in ToSet(syncQueue')

LEMMA RenderIsCallback ==
  ASSUME NEW r \in Root, NEW t \in 1 .. Sync, NEW wrapped \in BOOLEAN
  PROVE  /\ RenderOf(r, t, wrapped) \in Callback
         /\ RenderOf(r, t, wrapped).fn = "renderRoot"
         /\ RenderOf(r, t, wrapped).root = r
         /\ RenderOf(r, t, wrapped).time = t
         /\ RenderOf(r, t, wrapped).wrapped = wrapped
  BY DEF RenderOf, Callback, Time, NoWork

LEMMA CommitIsCallback ==
  ASSUME NEW r \in Root, NEW wrapped \in BOOLEAN
  PROVE  /\ CommitOf(r, wrapped) \in Callback
         /\ CommitOf(r, wrapped).fn = "commitRoot"
         /\ CommitOf(r, wrapped).root = r
         /\ CommitOf(r, wrapped).wrapped = wrapped
  BY RootAssumption DEF CommitOf, Callback, Time, NoWork

LEMMA QueueAppended ==
  ASSUME QueueOK, NEW c \in Callback, c.fn = "renderRoot", syncQueue' = Append(syncQueue, c)
  PROVE  QueueOK' /\ ToSet(syncQueue') = ToSet(syncQueue) \cup {c}
<1>1. PICK q : q = Append(syncQueue, c)
  OBVIOUS
<1>2. syncQueue \in Seq(Callback) /\ Len(syncQueue) \in Nat
  BY LenProperties DEF QueueOK
<1>3. /\ q \in Seq(Callback) /\ Len(q) = Len(syncQueue) + 1
      /\ q[Len(syncQueue) + 1] = c
      /\ \A i \in 1 .. Len(syncQueue) : q[i] = syncQueue[i]
  BY <1>1, <1>2, AppendProperties
<1>4. ASSUME NEW x \in ToSet(q)
      PROVE  x \in ToSet(syncQueue) \cup {c}
  <2>1. PICK i \in 1 .. Len(q) : x = q[i]
    BY <1>3, Elements
  <2>2. i = Len(syncQueue) + 1 \/ i \in 1 .. Len(syncQueue)
    BY <1>2, <1>3
  <2>3. CASE i \in 1 .. Len(syncQueue)
    <3>1. x = syncQueue[i]
      BY <1>3, <2>1, <2>3
    <3> QED  BY <1>2, <2>3, <3>1, Elements
  <2> QED  BY <1>3, <2>1, <2>2, <2>3
<1>5. ASSUME NEW x \in ToSet(syncQueue) \cup {c}
      PROVE  x \in ToSet(q)
  <2>1. CASE x = c
    <3>1. Len(syncQueue) + 1 \in 1 .. Len(q)
      BY <1>2, <1>3
    <3> QED  BY <1>3, <2>1, <3>1, Elements
  <2>2. CASE x \in ToSet(syncQueue)
    <3>1. PICK i \in 1 .. Len(syncQueue) : x = syncQueue[i]
      BY <1>2, <2>2, Elements
    <3>2. i \in 1 .. Len(q) /\ x = q[i]
      BY <1>2, <1>3, <3>1
    <3> QED  BY <1>3, <3>2, Elements
  <2> QED  BY <2>1, <2>2
<1>6. ToSet(q) = ToSet(syncQueue) \cup {c}
  BY <1>4, <1>5
<1>7. syncQueue' = q
  BY <1>1
<1> QED  BY <1>3, <1>6, <1>7 DEF QueueOK

\* The roots get callbacks of their own: all but the callback of r stays.
LEMMA CallbackScheduled ==
  ASSUME TasksOK, QueueOK, roots \in [Root -> RootRecord],
         NEW r \in Root, NEW t \in 1 .. Sync, NEW rs, OnlyAt(r, rs),
         rs[r].callbackNode = roots[r].callbackNode,
         NEW us, RecordOK(rs[r], us), t <= rs[r].firstPendingTime,
         ScheduleCallbackForRoot(rs, r, t)
  PROVE  /\ OnlyAt(r, roots') /\ RecordOK(roots'[r], us)
         /\ SameButCallback(roots'[r], rs[r])
         /\ TasksOK' /\ QueueOK'
         /\ \A task \in tasks : task.callback.root # r => task \in tasks'
         /\ \A task \in tasks' : task \in tasks \/ task.callback = RenderOf(r, t, TRUE)
         /\ ToSet(syncQueue) \subseteq ToSet(syncQueue')
         /\ \/ /\ rs[r].callbackExpirationTime >= t
               /\ roots' = rs /\ tasks' = tasks /\ syncQueue' = syncQueue
            \/ Anew(r, t)
<1>1. rs \in [Root -> RootRecord] /\ rs[r] \in RootRecord
  BY DEF OnlyAt
<1>2. CASE rs[r].callbackExpirationTime >= t
  <2>1. roots' = rs /\ tasks' = tasks /\ syncQueue' = syncQueue
    BY <1>2 DEF ScheduleCallbackForRoot
  <2>2. \A q \in Root : roots'[q].callbackNode = roots[q].callbackNode
    BY <2>1 DEF OnlyAt
  <2>3. TasksOK'
    BY <2>1, <2>2 DEF TasksOK
  <2> QED  BY <1>2, <2>1, <2>3 DEF OnlyAt, SameButCallback, QueueOK
<1>3. CASE ~(rs[r].callbackExpirationTime >= t)
  <2> DEFINE kept == {task \in tasks : task.handle # rs[r].callbackNode}
             node == IF t = Sync THEN FakeCallbackNode ELSE FreshHandle
             x == [rs[r] EXCEPT !.callbackNode = node, !.callbackExpirationTime = t]
  <2>1. roots' = [rs EXCEPT ![r].callbackExpirationTime = t, ![r].callbackNode = node]
    BY <1>3 DEF ScheduleCallbackForRoot
  <2>2. t # Sync => FreeHandle # {} /\ syncQueue' = syncQueue
                    /\ tasks' = kept \cup {[handle |-> node, callback |-> RenderOf(r, t, TRUE)]}
    BY <1>3 DEF ScheduleCallbackForRoot
  <2>3. t = Sync => tasks' = kept /\ syncQueue' = Append(syncQueue, RenderOf(r, t, TRUE))
    BY <1>3 DEF ScheduleCallbackForRoot
  <2>4. /\ node \in Node /\ node # NoNode
        /\ t # Sync => node \in Handle
        /\ \A task \in kept : task.handle # node
        /\ t # Sync => \A q \in Root : roots[q].callbackNode # node
    <3>1. CASE t = Sync
      <4>1. \A task \in kept : task.handle # FakeCallbackNode
        BY NodeConstants DEF TasksOK
      <4> QED  BY <3>1, <4>1, NodeConstants
    <3>2. CASE t # Sync
      BY <2>2, <3>2, FreshIsFree, NodeConstants
    <3> QED  BY <3>1, <3>2
  <2> HIDE DEF node
  <2>5. roots' = [rs EXCEPT ![r] = x]
    BY <1>1, <2>1
  <2>6. t \in Time
    BY DEF Time
  <2>7. x \in RootRecord /\ SameButCallback(x, rs[r])
        /\ x.callbackNode = node /\ x.callbackExpirationTime = t
    BY <1>1, <2>4, <2>6 DEF RootRecord, SameButCallback
  <2>8. RecordOK(x, us)
    BY <2>4, <2>7 DEF RecordOK, SameButCallback, NoWork
  <2> HIDE DEF x
  <2>9. OnlyAt(r, roots') /\ roots'[r] = x
    BY <1>1, <2>5, <2>7 DEF OnlyAt
  <2>10. \A task \in tasks : task.callback.root # r => task \in kept
    BY DEF TasksOK
  <2>11. \A task \in kept : task \in tasks /\ task.handle # roots[r].callbackNode
    OBVIOUS
  <2> HIDE DEF kept
  <2>12. ASSUME NEW task \in kept, NEW q \in Root, task.handle = roots'[q].callbackNode
         PROVE  task.callback.root = q
    <3>1. q # r
      BY <2>4, <2>7, <2>9, <2>12
    <3> QED  BY <2>9, <2>11, <2>12, <3>1 DEF OnlyAt, TasksOK
  <2>13. RenderOf(r, t, TRUE) \in Callback /\ RenderOf(r, t, TRUE).root = r
         /\ RenderOf(r, t, TRUE).fn = "renderRoot" /\ RenderOf(r, t, TRUE).wrapped
    BY RenderIsCallback
  <2>14. CASE t = Sync
    <3>1. tasks' = kept
      BY <2>3, <2>14
    <3>2. QueueOK' /\ ToSet(syncQueue') = ToSet(syncQueue) \cup {RenderOf(r, t, TRUE)}
      BY <2>3, <2>13, <2>14, QueueAppended
    <3>3. TasksOK'
      BY <2>11, <2>12, <3>1 DEF TasksOK
    <3> QED  BY <2>7, <2>8, <2>9, <2>10, <2>11, <3>1, <3>2, <3>3 DEF Anew
  <2>15. CASE t # Sync
    <3> DEFINE new == [handle |-> node, callback |-> RenderOf(r, t, TRUE)]
    <3>1. tasks' = kept \cup {new} /\ syncQueue' = syncQueue
      BY <2>2, <2>15
    <3>2. new.handle = node /\ new.callback = RenderOf(r, t, TRUE)
      OBVIOUS
    <3> HIDE DEF new
    <3>3. ASSUME NEW q \in Root, node = roots'[q].callbackNode
          PROVE  q = r
      BY <2>4, <2>9, <2>15, <3>3 DEF OnlyAt
    <3>4. TasksOK'
      BY <2>4, <2>11, <2>12, <2>13, <2>15, <3>1, <3>2, <3>3 DEF TasksOK
    <3>5. QueueOK'
      BY <3>1 DEF QueueOK
    <3> QED  BY <2>7, <2>8, <2>9, <2>10, <2>11, <3>1, <3>2, <3>4, <3>5 DEF Anew
  <2> QED  BY <2>14, <2>15
<1> QED  BY <1>2, <1>3

\* The finally block of runRootCallback clears callbacks at most.
LEMMA FinallyClears ==
  ASSUME NEW rs \in [Root -> RootRecord], NEW done
  PROVE  LET after == AfterFinally(rs, done)
         IN  /\ after \in [Root -> RootRecord]
             /\ \A q \in Root :
                  /\ SameButCallback(after[q], rs[q])
                  /\ \A us : RecordOK(rs[q], us) => RecordOK(after[q], us)
                  /\ after[q].callbackNode \in {NoNode, rs[q].callbackNode}
                  /\ (\A f \in done : f.root # q) => after[q] = rs[q]
                  /\ after[q].callbackNode # NoNode =>
                       \A f \in done :
                         f.wrapped /\ f.root = q => f.prevCallbackNode # rs[q].callbackNode
<1> DEFINE after == AfterFinally(rs, done)
<1>1. ASSUME NEW q \in Root
      PROVE  /\ after[q] \in RootRecord
             /\ SameButCallback(after[q], rs[q])
             /\ \A us : RecordOK(rs[q], us) => RecordOK(after[q], us)
             /\ after[q].callbackNode \in {NoNode, rs[q].callbackNode}
             /\ (\A f \in done : f.root # q) => after[q] = rs[q]
             /\ after[q].callbackNode # NoNode =>
                  \A f \in done :
                    f.wrapped /\ f.root = q => f.prevCallbackNode # rs[q].callbackNode
  <2> DEFINE ends == \E f \in done : /\ f.wrapped /\ f.root = q
                                     /\ f.prevCallbackNode = rs[q].callbackNode
  <2>1. after[q] = IF ends
                   THEN [rs[q] EXCEPT !.callbackNode = NoNode, !.callbackExpirationTime = NoWork]
                   ELSE rs[q]
    BY DEF AfterFinally
  <2>2. rs[q] \in RootRecord
    OBVIOUS
  <2> DEFINE cleared == [rs[q] EXCEPT !.callbackNode = NoNode, !.callbackExpirationTime = NoWork]
  <2>3. /\ cleared \in RootRecord /\ SameButCallback(cleared, rs[q])
        /\ cleared.callbackNode = NoNode /\ cleared.callbackExpirationTime = NoWork
    <3>1. NoNode \in Node /\ NoWork \in Time
      BY NodeConstants, RootAssumption DEF NoWork, Time
    <3> QED  BY <2>2, <3>1 DEF RootRecord, SameButCallback
  <2>4. ASSUME NEW us, RecordOK(rs[q], us)
        PROVE  RecordOK(cleared, us)
    <3>1. rs[q].firstPendingTime \in Time
      BY <2>2, RecordFields
    <3> HIDE DEF cleared
    <3> QED  BY <2>3, <2>4, <3>1 DEF RecordOK, SameButCallback, NoWork, Time
  <2> HIDE DEF cleared
  <2>5. after[q] = IF ends THEN cleared ELSE rs[q]
    BY <2>1 DEF cleared
  <2>6. CASE ends
    <3>1. ~(\A f \in done : f.root # q)
      BY <2>6
    <3>2. after[q] = cleared
      BY <2>5, <2>6
    <3> HIDE DEF after, ends
    <3> QED  BY <2>3, <2>4, <3>1, <3>2
  <2>7. CASE ~ends
    <3>1. after[q] = rs[q]
      BY <2>5, <2>7
    <3>2. \A f \in done : f.wrapped /\ f.root = q => f.prevCallbackNode # rs[q].callbackNode
      BY <2>7
    <3> HIDE DEF after, ends
    <3> QED  BY <2>2, <3>1, <3>2 DEF SameButCallback
  <2> QED  BY <2>6, <2>7
<1>2. after = [r \in Root |-> after[r]]
  BY DEF AfterFinally
<1> QED  BY <1>1, <1>2

\* prepareFreshStack withdraws the finished tree of its root.
LEMMA DiscardedTree ==
  ASSUME NEW rs \in [Root -> RootRecord], NEW r \in Root
  PROVE  LET ds == Discarded(rs, r)
         IN  /\ ds \in [Root -> RootRecord]
             /\ \A q \in Root : q # r => ds[q] = rs[q]
             /\ \A us : RecordOK(rs[r], us) => RecordOK(ds[r], us)
             /\ ds[r].finishedWork = Null
             /\ ds[r].firstPendingTime = rs[r].firstPendingTime
             /\ ds[r].callbackNode = rs[r].callbackNode
<1> DEFINE ds == Discarded(rs, r)
           x == [rs[r] EXCEPT !.finishedWork = Null, !.finishedExpirationTime = NoWork,
                              !.timer = FALSE]
<1>1. rs[r] \in RootRecord
  OBVIOUS
<1>2. ds = [rs EXCEPT ![r] = x]
  BY DEF Discarded
<1>3. /\ x \in RootRecord
      /\ x.finishedWork = Null /\ x.finishedExpirationTime = NoWork
      /\ x.firstPendingTime = rs[r].firstPendingTime
      /\ x.lastPendingTime = rs[r].lastPendingTime
      /\ x.callbackNode = rs[r].callbackNode
      /\ x.callbackExpirationTime = rs[r].callbackExpirationTime
  <2>1. NoWork \in Time
    BY RootAssumption DEF NoWork, Time
  <2> QED  BY <1>1, <2>1 DEF RootRecord
<1> HIDE DEF x
<1>4. \A us : RecordOK(rs[r], us) => RecordOK(x, us)
  BY <1>3 DEF RecordOK
<1>5. ds \in [Root -> RootRecord] /\ ds[r] = x /\ \A q \in Root : q # r => ds[q] = rs[q]
  BY <1>2, <1>3
<1> QED  BY <1>3, <1>4, <1>5
-----------------------------------------------------------------------------
(* Frames.                                                                 *)

LEMMA NewFrames ==
  /\ Frame("flush", "next", Null) \in FrameType
  /\ Frame("flushDiscreteUpdates", "passive", Null) \in FrameType
  /\ \A fn \in Handlers : Frame(fn, "user", Null) \in FrameType
  /\ \A r \in Root : Frame("flushPassiveEffects", "user", r) \in FrameType
<1>1. NoWork \in Time /\ NoNode \in Node
  BY NodeConstants, RootAssumption DEF NoWork, Time
<1> QED  BY <1>1 DEF Frame, FrameType, FrameShape, Position, Handlers

\* A frame moves on to another position of its function.
LEMMA MovedFrame ==
  ASSUME NEW f \in FrameType, NEW at,
         \/ f.fn = "renderRoot" /\ at \in {"prepare", "user"}
         \/ f.fn = "commitRoot" /\ at \in {"mutate", "user", "last", "throw"}
         \/ f.fn = "flushPassiveEffects" /\ at = "last"
  PROVE  LET g == [f EXCEPT !.at = at]
         IN  /\ g \in FrameType
             /\ g.fn = f.fn /\ g.at = at /\ g.root = f.root /\ g.time = f.time
             /\ g.isSync = f.isSync /\ g.wrapped = f.wrapped
             /\ g.prevCallbackNode = f.prevCallbackNode
<1> DEFINE g == [f EXCEPT !.at = at]
<1>1. f \in FrameShape /\ Position(f)
  BY DEF FrameType
<1>2. g \in FrameShape
  BY <1>1 DEF FrameShape, Handlers
<1>3. /\ g.fn = f.fn /\ g.at = at /\ g.root = f.root /\ g.time = f.time
      /\ g.isSync = f.isSync /\ g.wrapped = f.wrapped
      /\ g.prevCallbackNode = f.prevCallbackNode
  BY <1>1 DEF FrameShape
<1> HIDE DEF g
<1>4. Position(g)
  BY <1>1, <1>3 DEF Position, Handlers
<1> QED  BY <1>2, <1>3, <1>4 DEF FrameType, g

LEMMA CalledFrame ==
  ASSUME NEW rs \in [Root -> RootRecord], NEW c \in Callback, NEW isSync \in BOOLEAN
  PROVE  LET f == Called(rs, c, isSync)
         IN  /\ f \in FrameType
             /\ f.fn = c.fn /\ f.at = "start" /\ f.root = c.root /\ f.time = c.time
             /\ f.isSync = isSync /\ f.wrapped = c.wrapped
             /\ c.wrapped => f.prevCallbackNode = rs[c.root].callbackNode
             /\ f.fn \in {"renderRoot", "commitRoot"} /\ f.root \in Root
<1> DEFINE prev == IF c.wrapped THEN rs[c.root].callbackNode ELSE NoNode
           f == Called(rs, c, isSync)
<1>1. /\ c.fn \in {"renderRoot", "commitRoot"} /\ c.root \in Root /\ c.time \in Time
      /\ c.wrapped \in BOOLEAN /\ (c.fn = "renderRoot" => c.time # NoWork)
  BY DEF Callback
<1>2. prev \in Node
  BY <1>1, NodeConstants, RecordFields
<1>3. f = [Frame(c.fn, "start", c.root) EXCEPT
             !.time = c.time, !.isSync = isSync, !.wrapped = c.wrapped,
             !.prevCallbackNode = prev]
  BY DEF Called
<1> HIDE DEF f, prev
<1>4. f \in FrameShape
  BY <1>1, <1>2, <1>3 DEF FrameShape, Handlers, Frame
<1>5. /\ f.fn = c.fn /\ f.at = "start" /\ f.root = c.root /\ f.time = c.time
      /\ f.isSync = isSync /\ f.wrapped = c.wrapped /\ f.prevCallbackNode = prev
  BY <1>3 DEF Frame
<1>6. Position(f)
  BY <1>1, <1>5 DEF Position
<1> QED  BY <1>1, <1>4, <1>5, <1>6 DEF FrameType, f, prev
-----------------------------------------------------------------------------
(* The ways the stack changes.                                             *)

\* The new stack is f pushed on s.
Pushes(f, s) ==
  /\ stack' = Push(f, s) /\ StackOK(stack)'
  /\ f \in FrameType /\ StackOK(s)
  /\ stack' # <<>> /\ Top' = f /\ Below' = s
  /\ ToSet(stack') = {f} \cup ToSet(s)

LEMMA PushStep ==
  ASSUME NEW s, StackOK(s), NEW f, MayPush(f, s), stack' = Push(f, s)
  PROVE  Pushes(f, s)
<1>1. s \in Seq(FrameType) /\ f \in FrameType
  BY DEF StackOK, MayPush
<1>2. Push(f, s) # <<>> /\ Head(Push(f, s)) = f
  BY <1>1, Pushed
<1>4. Tail(Push(f, s)) = s
  BY <1>1, Pushed
<1>5. ToSet(Push(f, s)) = {f} \cup ToSet(s)
  BY <1>1, Pushed
<1>3. StackOK(Push(f, s))
  BY StackPush
<1> QED  BY <1>1, <1>2, <1>3, <1>4, <1>5 DEF Pushes, Top, Below

\* A stack whose top waits, with a flush pushed on it or not.
Flushes(s) ==
  /\ StackOK(stack)' /\ stack' \in {s, Push(Frame("flush", "next", Null), s)}
  /\ stack' # <<>> => Waiting(Top)'
  /\ ToSet(s) \subseteq ToSet(stack')
  /\ \A f \in ToSet(stack') : f \in ToSet(s) \/ f = Frame("flush", "next", Null)

LEMMA FlushStep ==
  ASSUME NEW s, StackOK(s), Resumable(s), stack' = FlushSync(s)
  PROVE  Flushes(s)
<1> DEFINE f == Frame("flush", "next", Null)
<1>1. /\ f \in FrameType /\ f.fn = "flush" /\ f.at = "next"
      /\ f.fn \notin Handlers
  BY NewFrames DEF Frame, Handlers
<1>2. MayPush(f, s)
  BY <1>1 DEF MayPush
<1>3. CASE stack' = s
  BY <1>3 DEF Flushes, Resumable, Top
<1>4. CASE stack' = Push(f, s)
  <2>1. Pushes(f, s)
    BY <1>2, <1>4, PushStep
  <2>2. Waiting(f)
    BY <1>1 DEF Waiting
  <2> QED  BY <2>1, <2>2 DEF Pushes, Flushes
<1> QED  BY <1>3, <1>4, FlushSyncPushes

\* The call on top goes on.
LEMMA GotoStep ==
  ASSUME StackOK(stack), stack # <<>>, NEW at,
         \/ Top.fn = "renderRoot" /\ at \in {"prepare", "user"}
         \/ Top.fn = "commitRoot" /\ at \in {"mutate", "user", "last", "throw"}
         \/ Top.fn = "flushPassiveEffects" /\ at = "last"
  PROVE  LET g == [Top EXCEPT !.at = at]
         IN  /\ Goto(at) = Push(g, Below) /\ MayPush(g, Below)
             /\ StackOK(Goto(at))
             /\ Head(Goto(at)) = g
             /\ ToSet(Goto(at)) = {g} \cup ToSet(Below)
             /\ g.fn = Top.fn /\ g.at = at /\ g.root = Top.root /\ g.time = Top.time
             /\ g.isSync = Top.isSync /\ g.wrapped = Top.wrapped
             /\ g.prevCallbackNode = Top.prevCallbackNode
<1> DEFINE g == [Top EXCEPT !.at = at]
<1>1. StackOK(Below) /\ MayPush(Top, Below) /\ Top \in FrameType
  BY TopFrame
<1>2. /\ g \in FrameType
      /\ g.fn = Top.fn /\ g.at = at /\ g.root = Top.root /\ g.time = Top.time
      /\ g.isSync = Top.isSync /\ g.wrapped = Top.wrapped
      /\ g.prevCallbackNode = Top.prevCallbackNode
  BY <1>1, MovedFrame
<1>3. Goto(at) = Push(g, Below)
  BY <1>2, GotoPushes
<1> HIDE DEF g
<1>4. MayPush(g, Below)
  BY <1>1, <1>2 DEF MayPush
<1>5. StackOK(Push(g, Below))
  BY <1>1, <1>4, StackPush
<1>6. Head(Push(g, Below)) = g /\ ToSet(Push(g, Below)) = {g} \cup ToSet(Below)
  BY <1>1, <1>2, Pushed DEF StackOK
<1> QED  BY <1>2, <1>3, <1>4, <1>5, <1>6 DEF g

\* flushPassiveEffects, called by a call that waits.
LEMMA PassiveStep ==
  ASSUME NEW s, StackOK(s), Resumable(s), passiveRoot \in Root \cup {Null},
         FlushPassiveEffects(s)
  PROVE  /\ passiveRoot' = Null
         /\ passiveRoot = Null => stack' = s
         /\ passiveRoot # Null =>
              Pushes(Frame("flushPassiveEffects", "user", passiveRoot), s)
<1> SUFFICES ASSUME passiveRoot # Null
             PROVE  Pushes(Frame("flushPassiveEffects", "user", passiveRoot), s)
  BY DEF FlushPassiveEffects
<1> DEFINE f == Frame("flushPassiveEffects", "user", passiveRoot)
<1>1. f \in FrameType /\ f.fn = "flushPassiveEffects"
  BY NewFrames DEF Frame
<1>2. stack' = Push(f, s)
  BY DEF FlushPassiveEffects, Push
<1>3. MayPush(f, s)
  BY <1>1 DEF MayPush, Handlers
<1> HIDE DEF f
<1> QED  BY <1>2, <1>3, PushStep DEF f

\* A callback that returns nothing ends, with the finally block.
LEMMA ReturnsNull ==
  ASSUME NEW rs, Return(Null, rs)
  PROVE  roots' = AfterFinally(rs, {Top}) /\ stack' = Below /\ tasks' = tasks
  BY DEF Return

\* A continuation takes its place, as a task if the Scheduler has called it.
Continues(callback, rs) ==
  \/ /\ Below = <<>> /\ stack' = <<>>
     /\ \E task \in tasks' : task.callback = callback
     /\ \A task \in tasks' : task \in tasks \/ task.callback = callback
  \/ /\ Below # <<>> /\ tasks' = tasks
     /\ Pushes(Called(rs, callback, TRUE), Below)

LEMMA ReturnsCallback ==
  ASSUME StackOK(stack), stack # <<>>, TasksOK, NEW rs \in [Root -> RootRecord],
         \A q \in Root : rs[q].callbackNode = roots[q].callbackNode,
         NEW callback \in Callback, Below = <<>> => callback.wrapped,
         Return(callback, rs)
  PROVE  roots' = rs /\ TasksOK' /\ tasks \subseteq tasks' /\ Continues(callback, rs)
<1>1. callback # Null
  BY NullAssumption
<1>2. roots' = rs
  BY <1>1 DEF Return
<1>3. CASE Below = <<>>
  <2> DEFINE new == [handle |-> FreshHandle, callback |-> callback]
  <2>1. FreeHandle # {} /\ stack' = <<>> /\ tasks' = tasks \cup {new}
    BY <1>1, <1>3 DEF Return
  <2>2. new.handle = FreshHandle /\ new.callback = callback
    OBVIOUS
  <2> HIDE DEF new
  <2>3. TasksOK'
    <3>1. FreshHandle \in Handle /\ \A q \in Root : roots[q].callbackNode # FreshHandle
      BY <2>1, FreshIsFree
    <3> QED  BY <1>2, <1>3, <2>1, <2>2, <3>1 DEF TasksOK
  <2> QED  BY <1>2, <1>3, <2>1, <2>2, <2>3 DEF Continues
<1>4. CASE Below # <<>>
  <2> DEFINE f == Called(rs, callback, TRUE)
  <2>1. stack' = Push(f, Below) /\ tasks' = tasks
    BY <1>1, <1>4 DEF Return, Push
  <2>2. f \in FrameType /\ f.isSync = TRUE /\ f.fn \in {"renderRoot", "commitRoot"}
    BY CalledFrame
  <2> HIDE DEF f
  <2>3. StackOK(Below) /\ Resumable(Below)
    BY TopFrame DEF MayPush
  <2>4. MayPush(f, Below)
    BY <1>4, <2>2, <2>3 DEF MayPush, Handlers
  <2>5. Pushes(f, Below)
    BY <2>1, <2>3, <2>4, PushStep
  <2>6. TasksOK'
    BY <1>2, <2>1 DEF TasksOK
  <2> QED  BY <1>2, <1>4, <2>1, <2>5, <2>6 DEF Continues, f
<1> QED  BY <1>3, <1>4
-----------------------------------------------------------------------------
(* Base: steps that leave the records of the roots and the render alone.   *)

\* No render runs user code, unless the stack has not changed.
Quiet == stack' = stack \/ ~At("renderRoot", "user")'

LEMMA WipKept ==
  ASSUME WipOK, wip' = wip, Quiet,
         wip.root # Null => /\ pending[wip.root] \subseteq pending'[wip.root]
                            /\ roots'[wip.root].finishedWork = roots[wip.root].finishedWork
  PROVE  WipOK'
  BY DEF WipOK, Quiet, At, Top, Covered

LEMMA BaseQuiet ==
  ASSUME Base, UNCHANGED <<roots, pending, wip>>, tasks' \subseteq tasks,
         QueueOK', Scalars', StackOK(stack)', Quiet
  PROVE  Base'
<1>1. Records' /\ TasksOK'
  BY DEF Base, Records, TasksOK
<1>2. WipOK'
  BY WipKept DEF Base
<1> QED  BY <1>1, <1>2 DEF Base

LEMMA WaitingIsQuiet ==
  ASSUME stack' # <<>> => Waiting(Top)'
  PROVE  Quiet
  BY DEF Quiet, At, Waiting, Handlers

LEMMA PushIsQuiet ==
  ASSUME NEW f, NEW s, Pushes(f, s), f.fn # "renderRoot" \/ f.at # "user"
  PROVE  Quiet
  BY DEF Quiet, Pushes, At

LEMMA EmptyOK == StackOK(<<>>) /\ Resumable(<<>>) /\ OnlyHandlers(<<>>)
  BY EmptySeq, EmptyStack DEF StackOK, Resumable, OnlyHandlers

\* Code that is not inside of a render or a commit is inside of handlers only.
LEMMA InsideHandlers ==
  ASSUME StackOK(stack), UserCode, workPhase \notin {"RenderPhase", "CommitPhase"}
  PROVE  OnlyHandlers(stack) /\ Resumable(stack)
<1>1. CASE stack = <<>>
  BY <1>1, EmptyOK
<1>2. CASE stack # <<>>
  <2>1. Top.fn \in Handlers
    BY <1>2, WorkPhaseIs
  <2>2. MayPush(Top, Below) /\ ToSet(stack) = {Top} \cup ToSet(Below)
    BY <1>2, TopFrame
  <2> QED  BY <2>1, <2>2 DEF MayPush, OnlyHandlers, Resumable, Waiting, Top
<1> QED  BY <1>1, <1>2

LEMMA EnterHandlerStep ==
  ASSUME Base, NEW fn \in Handlers, EnterHandler(fn)
  PROVE  Base' /\ Pushes(Frame(fn, "user", Null), stack)
<1> DEFINE f == Frame(fn, "user", Null)
<1>1. f \in FrameType /\ f.fn = fn /\ stack' = Push(f, stack)
  BY NewFrames DEF EnterHandler, Frame, Push
<1>2. OnlyHandlers(stack) /\ Resumable(stack)
  <2>1. CASE fn = "batchedUpdates"
    BY <2>1, EmptyOK DEF EnterHandler
  <2>2. CASE fn # "batchedUpdates"
    BY <2>2, InsideHandlers DEF EnterHandler, Base
  <2> QED  BY <2>1, <2>2
<1>3. MayPush(f, stack)
  BY <1>1, <1>2 DEF MayPush, Handlers
<1>4. Pushes(f, stack)
  BY <1>1, <1>3, PushStep DEF Base
<1>5. Quiet
  BY <1>1, <1>4, PushIsQuiet DEF Handlers
<1>6. Base'
  BY <1>4, <1>5, BaseQuiet DEF EnterHandler, updateVars, thenableVars, Base, QueueOK, Scalars, Pushes
<1> QED  BY <1>4, <1>6

LEMMA LeaveHandlerStep ==
  ASSUME Base, LeaveHandler
  PROVE  Base' /\ Flushes(Below) /\ OnlyHandlers(Below)
<1>1. stack # <<>> /\ Top.fn \in Handlers /\ stack' = FlushSync(Below)
  BY DEF LeaveHandler
<1>2. StackOK(Below) /\ MayPush(Top, Below)
  BY <1>1, TopFrame DEF Base
<1>3. Flushes(Below)
  BY <1>1, <1>2, FlushStep DEF MayPush
<1>4. Quiet
  BY <1>3, WaitingIsQuiet DEF Flushes
<1>5. Base'
  BY <1>3, <1>4, BaseQuiet DEF LeaveHandler, updateVars, thenableVars, Base, QueueOK, Scalars, Flushes
<1> QED  BY <1>1, <1>2, <1>3, <1>5 DEF MayPush

LEMMA QueueConcatenated ==
  ASSUME QueueOK, NEW callbacks \in Seq(Callback),
         \A i \in 1 .. Len(callbacks) : callbacks[i].fn = "renderRoot",
         syncQueue' = syncQueue \o callbacks
  PROVE  QueueOK' /\ ToSet(syncQueue) \subseteq ToSet(syncQueue')
<1>1. PICK q : q = syncQueue \o callbacks
  OBVIOUS
<1>2. syncQueue \in Seq(Callback) /\ Len(syncQueue) \in Nat /\ Len(callbacks) \in Nat
  BY LenProperties DEF QueueOK
<1>3. /\ q \in Seq(Callback) /\ Len(q) = Len(syncQueue) + Len(callbacks)
      /\ \A i \in 1 .. Len(q) :
           q[i] = IF i <= Len(syncQueue) THEN syncQueue[i] ELSE callbacks[i - Len(syncQueue)]
  BY <1>1, <1>2, ConcatProperties
<1>4. ASSUME NEW x \in ToSet(q)
      PROVE  x.fn = "renderRoot"
  <2>1. PICK i \in 1 .. Len(q) : x = q[i]
    BY <1>3, Elements
  <2>2. CASE i <= Len(syncQueue)
    <3>1. i \in 1 .. Len(syncQueue) /\ x = syncQueue[i]
      BY <1>2, <1>3, <2>1, <2>2
    <3> QED  BY <1>2, <3>1, Elements DEF QueueOK
  <2>3. CASE ~(i <= Len(syncQueue))
    <3>1. i - Len(syncQueue) \in 1 .. Len(callbacks) /\ x = callbacks[i - Len(syncQueue)]
      BY <1>2, <1>3, <2>1, <2>3
    <3> QED  BY <3>1
  <2> QED  BY <2>2, <2>3
<1>5. ASSUME NEW x \in ToSet(syncQueue)
      PROVE  x \in ToSet(q)
  <2>1. PICK i \in 1 .. Len(syncQueue) : x = syncQueue[i]
    BY <1>2, Elements
  <2>2. i \in 1 .. Len(q) /\ x = q[i]
    BY <1>2, <1>3, <2>1
  <2> QED  BY <1>3, <2>2, Elements
<1>6. syncQueue' = q
  BY <1>1
<1> QED  BY <1>3, <1>4, <1>5, <1>6 DEF QueueOK

LEMMA FlushDiscreteStep ==
  ASSUME Base, FlushDiscreteUpdates
  PROVE  /\ Base' /\ ToSet(syncQueue) \subseteq ToSet(syncQueue')
         /\ OnlyHandlers(stack)
         /\ Flushes(Push(Frame("flushDiscreteUpdates", "passive", Null), stack))
<1> DEFINE f == Frame("flushDiscreteUpdates", "passive", Null)
           resume == Push(f, stack)
           S == {r \in Root : discrete[r] # NoWork}
<1>1. PICK order \in SetToSeqs(S) :
        LET callbacks == [i \in DOMAIN order |-> RenderOf(order[i], discrete[order[i]], FALSE)]
        IN  /\ syncQueue' = syncQueue \o callbacks
            /\ stack' = IF callbacks = <<>> THEN resume ELSE FlushSync(resume)
  BY DEF FlushDiscreteUpdates, Push
<1> DEFINE callbacks == [i \in DOMAIN order |-> RenderOf(order[i], discrete[order[i]], FALSE)]
<1>2. Cardinality(S) \in Nat
  <2>1. IsFiniteSet(S)
    BY RootAssumption, FS_Subset
  <2> QED  BY <2>1, FS_CardinalityType
<1>3. PICK n \in Nat : n = Cardinality(S)
  BY <1>2
<1>4. order \in [1 .. n -> S]
  BY <1>1, <1>3 DEF SetToSeqs
<1>5. ASSUME NEW i \in 1 .. n
      PROVE  /\ RenderOf(order[i], discrete[order[i]], FALSE) \in Callback
             /\ RenderOf(order[i], discrete[order[i]], FALSE).fn = "renderRoot"
  <2>1. order[i] \in Root /\ discrete[order[i]] \in 1 .. Sync
    BY <1>4 DEF Base, Scalars, Time, NoWork
  <2> QED  BY <2>1, RenderIsCallback
<1>6. callbacks = [i \in 1 .. n |-> RenderOf(order[i], discrete[order[i]], FALSE)]
  BY <1>4
<1> HIDE DEF callbacks
<1>7. callbacks \in Seq(Callback) /\ Len(callbacks) = n
  <2>1. callbacks \in [1 .. n -> Callback]
    BY <1>5, <1>6
  <2>2. callbacks \in Seq(Callback)
    BY <2>1, SeqDef
  <2>3. DOMAIN callbacks = 1 .. n /\ DOMAIN callbacks = 1 .. Len(callbacks) /\ Len(callbacks) \in Nat
    BY <2>1, <2>2, LenProperties
  <2> QED  BY <2>2, <2>3
<1>8. \A i \in 1 .. Len(callbacks) : callbacks[i].fn = "renderRoot"
  BY <1>5, <1>6, <1>7
<1>9. QueueOK' /\ ToSet(syncQueue) \subseteq ToSet(syncQueue')
  BY <1>1, <1>7, <1>8, QueueConcatenated DEF Base, callbacks
<1>10. OnlyHandlers(stack) /\ Resumable(stack)
  BY InsideHandlers DEF FlushDiscreteUpdates, Base
<1>11. f \in FrameType /\ f.fn = "flushDiscreteUpdates" /\ f.at = "passive"
  BY NewFrames DEF Frame
<1>12. MayPush(f, stack)
  BY <1>10, <1>11 DEF MayPush, Handlers
<1>13. StackOK(resume) /\ Head(resume) = f
  <2>1. StackOK(resume)
    BY <1>12, StackPush DEF Base
  <2>2. stack \in Seq(FrameType)
    BY DEF Base, StackOK
  <2>3. Head(resume) = f
    BY <1>11, <2>2, Pushed
  <2> QED  BY <2>1, <2>3
<1>14. Resumable(resume)
  BY <1>11, <1>13 DEF Resumable, Waiting
<1>15. Flushes(resume)
  <2>1. CASE stack' = resume
    BY <1>13, <1>14, <2>1 DEF Flushes, Resumable, Top
  <2>2. CASE stack' = FlushSync(resume)
    BY <1>13, <1>14, <2>2, FlushStep
  <2> QED  BY <1>1, <2>1, <2>2
<1>16. Quiet
  BY <1>15, WaitingIsQuiet DEF Flushes
<1>17. Scalars'
  <2>1. discrete' \in [Root -> Time]
    BY RootAssumption DEF FlushDiscreteUpdates, NoWork, Time
  <2> QED  BY <2>1 DEF FlushDiscreteUpdates, updateVars, thenableVars, Base, Scalars
<1>18. Base'
  BY <1>9, <1>15, <1>16, <1>17, BaseQuiet DEF FlushDiscreteUpdates, updateVars, Base, Flushes
<1> QED  BY <1>9, <1>10, <1>15, <1>18

LEMMA TopAt ==
  ASSUME Base, NEW fn, NEW at, At(fn, at)
  PROVE  /\ stack # <<>> /\ Top.fn = fn /\ Top.at = at
         /\ Top \in FrameType /\ Position(Top)
         /\ StackOK(Below) /\ MayPush(Top, Below) /\ Resumable(Below)
         /\ ToSet(stack) = {Top} \cup ToSet(Below)
<1>1. stack # <<>> /\ Top.fn = fn /\ Top.at = at
  BY DEF At
<1> QED  BY <1>1, TopFrame DEF Base, FrameType, MayPush

\* The call on top ends and nothing takes its place.
LEMMA PopStep ==
  ASSUME Base, stack # <<>>, stack' = Below
  PROVE  StackOK(stack)' /\ Quiet /\ (stack' # <<>> => Waiting(Top)')
<1>1. StackOK(Below) /\ Resumable(Below)
  BY TopFrame DEF Base, MayPush
<1>2. stack' # <<>> => Waiting(Top)'
  BY <1>1 DEF Resumable, Top
<1> QED  BY <1>1, <1>2, WaitingIsQuiet

LEMMA PassiveFrame ==
  ASSUME NEW r \in Root
  PROVE  /\ Frame("flushPassiveEffects", "user", r).fn = "flushPassiveEffects"
         /\ Frame("flushPassiveEffects", "user", r).at = "user"
         /\ Frame("flushPassiveEffects", "user", r).root = r
  BY DEF Frame

LEMMA PassiveScalars ==
  ASSUME Scalars, passiveRoot' = Null, passiveTask' \in BOOLEAN,
         UNCHANGED <<clock, currentEventTime, enqueued, hasUncaughtError, discrete,
                     pings, retries, forgotten>>
  PROVE  Scalars'
  BY DEF Scalars

LEMMA FlushDiscreteEndsStep ==
  ASSUME Base, FlushDiscreteEnds
  PROVE  /\ Base' /\ passiveRoot' = Null
         /\ \/ stack' = Below
            \/ \E r \in Root : Pushes(Frame("flushPassiveEffects", "user", r), Below)
<1>1. stack # <<>> /\ StackOK(Below) /\ Resumable(Below)
  BY TopAt DEF FlushDiscreteEnds
<1>2. /\ passiveRoot' = Null
      /\ passiveRoot = Null => stack' = Below
      /\ passiveRoot # Null =>
           Pushes(Frame("flushPassiveEffects", "user", passiveRoot), Below)
  BY <1>1, PassiveStep DEF FlushDiscreteEnds, Base, Scalars
<1>3. Scalars'
  BY <1>2, PassiveScalars DEF FlushDiscreteEnds, updateVars, thenableVars, Base, Scalars
<1>4. StackOK(stack)' /\ Quiet
  <2>1. CASE passiveRoot = Null
    BY <1>1, <1>2, <2>1, PopStep
  <2>2. CASE passiveRoot # Null
    BY <1>2, <2>2, PassiveFrame, PushIsQuiet DEF Pushes, Base, Scalars
  <2> QED  BY <2>1, <2>2
<1>5. Base'
  BY <1>3, <1>4, BaseQuiet DEF FlushDiscreteEnds, updateVars, Base, QueueOK
<1> QED  BY <1>2, <1>5 DEF Base, Scalars

LEMMA SchedulerRunsStep ==
  ASSUME Base, NEW task \in tasks, SchedulerRuns(task)
  PROVE  /\ Base' /\ task.callback \in Callback /\ task.callback.wrapped
         /\ \E isSync \in BOOLEAN : Pushes(Called(roots, task.callback, isSync), <<>>)
<1> DEFINE c == task.callback
<1>1. c \in Callback /\ c.wrapped
  BY DEF Base, TasksOK
<1>2. PICK isSync \in BOOLEAN : stack' = <<Called(roots, c, isSync)>>
  BY DEF SchedulerRuns
<1> DEFINE f == Called(roots, c, isSync)
<1>3. /\ f \in FrameType /\ f.fn \in {"renderRoot", "commitRoot"} /\ f.at = "start"
      /\ f.wrapped
  BY <1>1, CalledFrame DEF Base, Records
<1> HIDE DEF f
<1>4. MayPush(f, <<>>)
  BY <1>3, EmptyOK DEF MayPush, Handlers
<1>5. stack' = Push(f, <<>>)
  BY <1>2 DEF Push, f
<1>6. Pushes(f, <<>>)
  BY <1>4, <1>5, EmptyOK, PushStep
<1>7. Quiet
  BY <1>3, <1>6, PushIsQuiet
<1>8. Base'
  BY <1>6, <1>7, BaseQuiet
  DEF SchedulerRuns, updateVars, thenableVars, Base, QueueOK, Scalars, Pushes
<1> QED  BY <1>1, <1>6, <1>8 DEF f

LEMMA SchedulerRunsPassiveStep ==
  ASSUME Base, SchedulerRunsPassive
  PROVE  /\ Base' /\ passiveRoot' = Null
         /\ \/ stack' = <<>>
            \/ \E r \in Root : Pushes(Frame("flushPassiveEffects", "user", r), <<>>)
<1>1. StackOK(<<>>) /\ Resumable(<<>>)
  BY EmptyOK
<1>2. /\ passiveRoot' = Null
      /\ passiveRoot = Null => stack' = <<>>
      /\ passiveRoot # Null =>
           Pushes(Frame("flushPassiveEffects", "user", passiveRoot), <<>>)
  BY <1>1, PassiveStep DEF SchedulerRunsPassive, Base, Scalars
<1>3. Scalars'
  BY <1>2, PassiveScalars DEF SchedulerRunsPassive, updateVars, thenableVars, Base
<1>4. StackOK(stack)' /\ Quiet
  <2>1. CASE passiveRoot = Null
    BY <1>1, <1>2, <2>1 DEF Quiet, At
  <2>2. CASE passiveRoot # Null
    BY <1>2, <2>2, PassiveFrame, PushIsQuiet DEF Pushes, Base, Scalars
  <2> QED  BY <2>1, <2>2
<1>5. Base'
  BY <1>3, <1>4, BaseQuiet DEF SchedulerRunsPassive, updateVars, Base, QueueOK
<1> QED  BY <1>2, <1>5 DEF Base, Scalars

LEMMA SchedulerFlushesStep ==
  ASSUME Base, SchedulerFlushes
  PROVE  Base' /\ Flushes(<<>>)
<1>1. Flushes(<<>>)
  BY EmptyOK, FlushStep DEF SchedulerFlushes
<1>2. Quiet
  BY <1>1, WaitingIsQuiet DEF Flushes
<1>3. Base'
  BY <1>1, <1>2, BaseQuiet
  DEF SchedulerFlushes, updateVars, thenableVars, Base, QueueOK, Scalars, Flushes
<1> QED  BY <1>1, <1>3

LEMMA FlushNextStep ==
  ASSUME Base, FlushNext
  PROVE  /\ Base'
         /\ \/ stack' = Below /\ syncQueue' = syncQueue
            \/ \E c \in Callback :
                 /\ Pushes(Called(roots, c, TRUE), stack)
                 /\ ToSet(syncQueue) = {c} \cup ToSet(syncQueue')
<1>1. stack # <<>> /\ Top.fn = "flush" /\ Top.at = "next"
  BY TopAt DEF FlushNext
<1>2. CASE syncQueue = <<>>
  <2>1. stack' = Below /\ syncQueue' = syncQueue
    BY <1>2 DEF FlushNext
  <2>2. StackOK(stack)' /\ Quiet
    BY <1>1, <2>1, PopStep
  <2>3. Base'
    BY <2>1, <2>2, BaseQuiet DEF FlushNext, updateVars, thenableVars, Base, QueueOK, Scalars
  <2> QED  BY <2>1, <2>3
<1>3. CASE syncQueue # <<>>
  <2> DEFINE c == Head(syncQueue)
             f == Called(roots, c, TRUE)
  <2>1. /\ syncQueue' = Tail(syncQueue) /\ c \in Callback
        /\ Tail(syncQueue) \in Seq(Callback)
        /\ ToSet(syncQueue) = {c} \cup ToSet(Tail(syncQueue))
    BY <1>3, Popped DEF FlushNext, Base, QueueOK
  <2>2. stack' = Push(f, stack)
    BY <1>3 DEF FlushNext, Push
  <2>3. /\ f \in FrameType /\ f.fn \in {"renderRoot", "commitRoot"} /\ f.at = "start"
        /\ f.isSync = TRUE
    BY <2>1, CalledFrame DEF Base, Records
  <2> HIDE DEF f
  <2>4. MayPush(f, stack)
    BY <1>1, <2>3 DEF MayPush, Handlers, Resumable, Waiting, Top
  <2>5. Pushes(f, stack)
    BY <2>2, <2>4, PushStep DEF Base
  <2>6. Quiet
    BY <2>3, <2>5, PushIsQuiet
  <2>7. QueueOK'
    BY <2>1 DEF Base, QueueOK
  <2>8. Base'
    BY <2>5, <2>6, <2>7, BaseQuiet DEF FlushNext, updateVars, thenableVars, Base, Scalars, Pushes
  <2> QED  BY <2>1, <2>5, <2>8 DEF f
<1> QED  BY <1>2, <1>3

LEMMA TimePassesStep ==
  ASSUME Base, TimePasses
  PROVE  Base'
<1>1. Scalars'
  BY RootAssumption DEF TimePasses, updateVars, thenableVars, Base, Scalars, Time
<1>2. Quiet /\ StackOK(stack)' /\ QueueOK'
  BY DEF TimePasses, Quiet, Base, QueueOK
<1> QED  BY <1>1, <1>2, BaseQuiet DEF TimePasses, updateVars

\* A call goes on, and passive effects are flushed before it continues.
LEMMA MovesAndFlushesPassive ==
  ASSUME Base, stack # <<>>, passiveRoot # Null, NEW at,
         \/ Top.fn = "renderRoot" /\ at = "prepare"
         \/ Top.fn = "commitRoot" /\ at = "mutate",
         FlushPassiveEffects(Goto(at)),
         UNCHANGED <<clock, currentEventTime, roots, updateVars, hasUncaughtError, wip,
                     passiveTask, discrete, syncQueue, tasks, thenableVars, forgotten>>
  PROVE  /\ Base' /\ passiveRoot' = Null
         /\ \E r \in Root :
              Pushes(Frame("flushPassiveEffects", "user", r),
                     Push([Top EXCEPT !.at = at], Below))
<1> DEFINE g == [Top EXCEPT !.at = at]
<1>1. /\ Goto(at) = Push(g, Below) /\ StackOK(Goto(at)) /\ Head(Goto(at)) = g /\ g.at = at
  BY GotoStep DEF Base
<1>2. Resumable(Goto(at))
  BY <1>1 DEF Resumable, Waiting
<1>3. /\ passiveRoot' = Null
      /\ Pushes(Frame("flushPassiveEffects", "user", passiveRoot), Goto(at))
  BY <1>1, <1>2, PassiveStep DEF Base, Scalars
<1>4. Quiet /\ StackOK(stack)'
  BY <1>3, PassiveFrame, PushIsQuiet DEF Pushes, Base, Scalars
<1>5. Scalars'
  BY <1>3, PassiveScalars DEF updateVars, thenableVars, Base, Scalars
<1>6. Base'
  BY <1>4, <1>5, BaseQuiet DEF updateVars, Base, QueueOK
<1> QED  BY <1>1, <1>3, <1>6 DEF Base, Scalars

LEMMA RenderFlushesPassiveStep ==
  ASSUME Base, RenderFlushesPassive
  PROVE  /\ Base' /\ passiveRoot' = Null
         /\ \E r \in Root :
              Pushes(Frame("flushPassiveEffects", "user", r),
                     Push([Top EXCEPT !.at = "prepare"], Below))
<1>1. stack # <<>> /\ Top.fn = "renderRoot"
  BY TopAt DEF RenderFlushesPassive
<1> QED  BY <1>1, MovesAndFlushesPassive DEF RenderFlushesPassive

LEMMA CommitFlushesPassiveStep ==
  ASSUME Base, CommitFlushesPassive
  PROVE  /\ Base' /\ passiveRoot' = Null
         /\ \E r \in Root :
              Pushes(Frame("flushPassiveEffects", "user", r),
                     Push([Top EXCEPT !.at = "mutate"], Below))
<1>1. stack # <<>> /\ Top.fn = "commitRoot"
  BY TopAt DEF CommitFlushesPassive
<1> QED  BY <1>1, MovesAndFlushesPassive DEF CommitFlushesPassive

LEMMA Commits ==
  ASSUME Base, MayCommit
  PROVE  stack # <<>> /\ Top.fn = "commitRoot" /\ Top.root \in Root
         /\ Top.at \in {"start", "mutate"}
  BY TopAt DEF MayCommit, Position

LEMMA CommitNothingStep ==
  ASSUME Base, CommitNothing
  PROVE  Base' /\ Pushes([Top EXCEPT !.at = "last"], Below)
<1> DEFINE g == [Top EXCEPT !.at = "last"]
<1>1. stack # <<>> /\ Top.fn = "commitRoot"
  BY Commits DEF CommitNothing
<1>2. Goto("last") = Push(g, Below) /\ MayPush(g, Below) /\ g.at = "last"
  BY <1>1, GotoStep DEF Base
<1>3. Pushes(g, Below)
  BY <1>1, <1>2, TopFrame, PushStep DEF CommitNothing, Base
<1>4. Quiet
  BY <1>2, <1>3, PushIsQuiet
<1>5. Base'
  BY <1>3, <1>4, BaseQuiet
  DEF CommitNothing, updateVars, thenableVars, Base, QueueOK, Scalars, Pushes
<1> QED  BY <1>3, <1>5

LEMMA PassiveFinishesStep ==
  ASSUME Base, PassiveFinishes
  PROVE  Base' /\ Flushes(Push([Top EXCEPT !.at = "last"], Below))
<1> DEFINE g == [Top EXCEPT !.at = "last"]
<1>1. stack # <<>> /\ Top.fn = "flushPassiveEffects"
  BY TopAt DEF PassiveFinishes
<1>2. /\ Goto("last") = Push(g, Below) /\ StackOK(Goto("last")) /\ Head(Goto("last")) = g
      /\ g.at = "last"
  BY <1>1, GotoStep DEF Base
<1>3. Resumable(Goto("last"))
  BY <1>2 DEF Resumable, Waiting
<1>4. Flushes(Goto("last"))
  BY <1>2, <1>3, FlushStep DEF PassiveFinishes
<1>5. Quiet
  BY <1>4, WaitingIsQuiet DEF Flushes
<1>6. Base'
  BY <1>4, <1>5, BaseQuiet
  DEF PassiveFinishes, updateVars, thenableVars, Base, QueueOK, Scalars, Flushes
<1> QED  BY <1>2, <1>4, <1>6

LEMMA PassiveReturnsStep ==
  ASSUME Base, PassiveReturns
  PROVE  Base' /\ stack' = Below
<1>1. stack # <<>> /\ stack' = Below
  BY TopAt DEF PassiveReturns
<1>2. StackOK(stack)' /\ Quiet
  BY <1>1, PopStep
<1>3. Base'
  BY <1>2, BaseQuiet DEF PassiveReturns, updateVars, thenableVars, Base, QueueOK, Scalars
<1> QED  BY <1>1, <1>3
-----------------------------------------------------------------------------
(* Base: steps that change the records of the roots.                       *)

\* Records and render in progress when no update comes or goes.
LEMMA RecordsKept ==
  ASSUME Records, pending' = pending, roots' \in [Root -> RootRecord],
         \A q \in Root : \A us : RecordOK(roots[q], us) => RecordOK(roots'[q], us)
  PROVE  Records'
  BY DEF Records

\* r has a callback for time t, be it a new one.
CallbackAdded(r, t) ==
  /\ \A task \in tasks : task.callback.root # r => task \in tasks'
  /\ \A task \in tasks' : task \in tasks \/ task.callback = RenderOf(r, t, TRUE)
  /\ ToSet(syncQueue) \subseteq ToSet(syncQueue')
  /\ \/ /\ roots[r].callbackExpirationTime >= t
        /\ roots'[r].callbackNode = roots[r].callbackNode
        /\ tasks' = tasks /\ syncQueue' = syncQueue
     \/ Anew(r, t)

\* An update of r at time t has been enqueued and r has a callback for it.
UpdateAdded(r, t) ==
  /\ \A q \in Root : q # r => roots'[q] = roots[q] /\ pending'[q] = pending[q]
  /\ \A q \in Root : pending[q] \subseteq pending'[q]
  /\ pending'[r] # {}
  /\ roots'[r].firstPendingTime >= t
  /\ roots'[r].firstPendingTime >= roots[r].firstPendingTime
  /\ roots'[r].finishedWork = roots[r].finishedWork
  /\ roots'[r].timer = roots[r].timer
  /\ CallbackAdded(r, t)

LEMMA UpdateScheduled ==
  ASSUME Records, Scalars, TasksOK, QueueOK, NEW r \in Root, NEW t \in 1 .. Sync,
         \E uncaught \in BOOLEAN : EnqueueUpdate(r, t, uncaught),
         NEW rs, \/ rs = Marked(roots, r, t)
                 \/ rs = [Marked(roots, r, t) EXCEPT ![r].pingTime = NoWork],
         ScheduleCallbackForRoot(rs, r, t)
  PROVE  /\ Records' /\ TasksOK' /\ QueueOK' /\ enqueued' \in 0 .. MaxUpdate
         /\ UpdateAdded(r, t)
<1>1. PICK u \in Update : u.time = t /\ pending'[r] = pending[r] \cup {u}
  BY Enqueued
<1>2. /\ pending' \in [Root -> SUBSET Update] /\ enqueued' \in 0 .. MaxUpdate
      /\ \A q \in Root : q # r => pending'[q] = pending[q]
  BY Enqueued
<1> DEFINE ms == Marked(roots, r, t)
<1>3. /\ OnlyAt(r, ms)
      /\ RecordOK(ms[r], pending'[r])
      /\ ms[r].firstPendingTime >= t
      /\ ms[r].firstPendingTime >= roots[r].firstPendingTime
      /\ ms[r].finishedWork = roots[r].finishedWork
      /\ ms[r].timer = roots[r].timer
      /\ ms[r].callbackNode = roots[r].callbackNode
      /\ ms[r].callbackExpirationTime = roots[r].callbackExpirationTime
  BY <1>1, MarkedAgrees
<1> HIDE DEF ms
<1>4. /\ OnlyAt(r, rs)
      /\ RecordOK(rs[r], pending'[r])
      /\ rs[r].firstPendingTime = ms[r].firstPendingTime
      /\ rs[r].finishedWork = roots[r].finishedWork
      /\ rs[r].timer = roots[r].timer
      /\ rs[r].callbackNode = roots[r].callbackNode
      /\ rs[r].callbackExpirationTime = roots[r].callbackExpirationTime
  <2>1. CASE rs = ms
    BY <1>3, <2>1
  <2>2. CASE rs = [ms EXCEPT ![r].pingTime = NoWork]
    <3> DEFINE x == [ms[r] EXCEPT !.pingTime = NoWork]
    <3>1. ms \in [Root -> RootRecord] /\ ms[r] \in RootRecord /\ NoWork \in Time
      BY <1>3, RootAssumption DEF OnlyAt, NoWork, Time
    <3>2. /\ x \in RootRecord /\ SameButCallback([x EXCEPT !.pingTime = ms[r].pingTime], ms[r])
          /\ x.callbackNode = ms[r].callbackNode
          /\ x.callbackExpirationTime = ms[r].callbackExpirationTime
          /\ x.firstPendingTime = ms[r].firstPendingTime
          /\ x.lastPendingTime = ms[r].lastPendingTime
          /\ x.finishedWork = ms[r].finishedWork /\ x.timer = ms[r].timer
          /\ x.finishedExpirationTime = ms[r].finishedExpirationTime
      BY <3>1 DEF RootRecord, SameButCallback
    <3>3. rs = [ms EXCEPT ![r] = x]
      BY <2>2
    <3> HIDE DEF x
    <3>4. rs[r] = x /\ OnlyAt(r, rs)
      BY <1>3, <3>1, <3>2, <3>3 DEF OnlyAt
    <3> QED  BY <1>3, <3>2, <3>4 DEF RecordOK
  <2> QED  BY <2>1, <2>2 DEF ms
<1>5. t <= rs[r].firstPendingTime /\ rs[r].firstPendingTime \in Int
  BY <1>3, <1>4, RecordFields DEF OnlyAt, Time
<1>6. /\ OnlyAt(r, roots') /\ RecordOK(roots'[r], pending'[r])
      /\ SameButCallback(roots'[r], rs[r])
      /\ TasksOK' /\ QueueOK'
      /\ \A task \in tasks : task.callback.root # r => task \in tasks'
      /\ \A task \in tasks' : task \in tasks \/ task.callback = RenderOf(r, t, TRUE)
      /\ ToSet(syncQueue) \subseteq ToSet(syncQueue')
      /\ \/ /\ rs[r].callbackExpirationTime >= t
            /\ roots' = rs /\ tasks' = tasks /\ syncQueue' = syncQueue
         \/ Anew(r, t)
  BY <1>4, <1>5, CallbackScheduled DEF Records
<1>7. Records'
  BY <1>2, <1>6 DEF Records, OnlyAt
<1>8. roots'[r].firstPendingTime = ms[r].firstPendingTime
  BY <1>4, <1>6 DEF SameButCallback
<1>9. \A q \in Root : q # r => roots'[q] = roots[q]
  BY <1>6 DEF OnlyAt
<1> QED
  BY <1>1, <1>2, <1>3, <1>4, <1>6, <1>7, <1>8, <1>9 DEF SameButCallback, UpdateAdded, CallbackAdded

\* A root in progress is a root, with a time.
LEMMA TimeInProgress ==
  ASSUME Base, At("renderRoot", "user")
  PROVE  /\ wip.root = Top.root /\ wip.time = Top.time
         /\ Top.root \in Root /\ Top.root # Null /\ Top.time \in 1 .. Sync
         /\ roots[Top.root].finishedWork = Null
         /\ wip.updates \subseteq Covered(Top.root, Top.time)
<1>1. Top \in FrameType /\ Position(Top) /\ Top.fn = "renderRoot"
  BY TopAt
<1>2. Top.root \in Root /\ Top.time \in Time /\ Top.time # NoWork
  BY <1>1 DEF Position, FrameType, FrameShape, Handlers
<1>3. Top.root # Null
  BY <1>2, RootAssumption
<1> QED  BY <1>2, <1>3 DEF Base, WipOK, Time, NoWork

LEMMA UpdateTimes ==
  ASSUME Base, UserCode, NEW level, NEW t \in ExpirationTimes(level)
  PROVE  t \in 1 .. Sync
<1>1. Sync \in 1 .. Sync
  BY RootAssumption
<1>2. CASE workPhase = "RenderPhase"
  <2>1. stack # <<>> /\ Top.fn = "renderRoot" /\ Top.at = "user"
    BY <1>2, WorkPhaseIs DEF Base, Handlers
  <2>2. wip.time \in 1 .. Sync
    BY <2>1, TimeInProgress DEF At
  <2> QED  BY <1>1, <1>2, <2>2 DEF ExpirationTimes
<1>3. CASE workPhase # "RenderPhase"
  BY <1>1, <1>3 DEF ExpirationTimes
<1> QED  BY <1>2, <1>3

LEMMA RequestedTime ==
  ASSUME Scalars, RequestCurrentTime
  PROVE  currentEventTime' \in Time
<1>1. clock \in Time
  BY RootAssumption DEF Scalars, Time
<1> QED  BY <1>1 DEF RequestCurrentTime, CurrentTime, Scalars

\* The render in progress goes on when updates come to its root.
LEMMA WipKeptByUpdate ==
  ASSUME WipOK, wip' = wip, Quiet, NEW r \in Root, NEW t, UpdateAdded(r, t)
  PROVE  WipOK'
<1>1. ASSUME wip.root # Null
      PROVE  /\ pending[wip.root] \subseteq pending'[wip.root]
             /\ roots'[wip.root].finishedWork = roots[wip.root].finishedWork
  <2>1. wip.root \in Root
    BY <1>1 DEF WipOK
  <2> QED  BY <2>1 DEF UpdateAdded
<1> QED  BY <1>1, WipKept

LEMMA ForgottenRoots ==
  ASSUME Scalars, NEW r \in Root, Remembered(r)
  PROVE  forgotten' \subseteq forgotten /\ forgotten' \in {forgotten, forgotten \ {r}}
         /\ (roots'[r].callbackNode = roots[r].callbackNode => forgotten' = forgotten)
  BY DEF Remembered

LEMMA ScheduleUpdateStep ==
  ASSUME Base, NEW r \in Root, NEW level \in Level, ScheduleUpdate(r, level)
  PROVE  /\ Base' /\ Remembered(r)
         /\ \E t \in 1 .. Sync : UpdateAdded(r, t)
         /\ stack' = stack \/ (stack = <<>> /\ Flushes(<<>>))
<1>1. PICK t \in ExpirationTimes(level) :
        /\ EnqueueUpdate(r, t, FALSE)
        /\ discrete' = IF /\ level = "userBlocking" /\ t # Sync
                          /\ discrete[r] = NoWork \/ discrete[r] > t
                       THEN [discrete EXCEPT ![r] = t] ELSE discrete
        /\ ScheduleCallbackForRoot([Marked(roots, r, t) EXCEPT ![r].pingTime = NoWork], r, t)
        /\ stack' = IF t = Sync /\ workPhase = "NotWorking" THEN FlushSync(stack) ELSE stack
  BY DEF ScheduleUpdate
<1>2. t \in 1 .. Sync
  BY UpdateTimes DEF ScheduleUpdate
<1>3. Records' /\ TasksOK' /\ QueueOK' /\ enqueued' \in 0 .. MaxUpdate /\ UpdateAdded(r, t)
  BY <1>1, <1>2, UpdateScheduled DEF Base
<1>4. stack' = stack \/ (stack = <<>> /\ Flushes(<<>>))
  <2>1. CASE t = Sync /\ workPhase = "NotWorking"
    <3>1. stack = <<>>
      BY <2>1, WorkPhaseIs DEF ScheduleUpdate, Base, Handlers
    <3> QED  BY <1>1, <2>1, <3>1, EmptyOK, FlushStep
  <2>2. CASE ~(t = Sync /\ workPhase = "NotWorking")
    BY <1>1, <2>2
  <2> QED  BY <2>1, <2>2
<1>5. Quiet /\ StackOK(stack)'
  <2>1. CASE stack' = stack
    BY <2>1 DEF Quiet, Base
  <2>2. CASE Flushes(<<>>)
    BY <2>2, WaitingIsQuiet DEF Flushes
  <2> QED  BY <1>4, <2>1, <2>2
<1>6. WipOK'
  BY <1>3, <1>5, WipKeptByUpdate DEF ScheduleUpdate, Base
<1>7. Remembered(r)
  BY DEF ScheduleUpdate
<1>8. Scalars'
  <2>1. discrete' \in [Root -> Time]
    BY <1>1, <1>2 DEF Base, Scalars, Time
  <2>2. currentEventTime' \in Time
    BY RequestedTime DEF ScheduleUpdate, Base
  <2>3. forgotten' \subseteq Root
    BY <1>7, ForgottenRoots DEF Base, Scalars
  <2> QED  BY <1>3, <2>1, <2>2, <2>3 DEF ScheduleUpdate, thenableVars, Base, Scalars
<1> QED  BY <1>2, <1>3, <1>4, <1>5, <1>6, <1>7, <1>8 DEF Base

LEMMA RetryStep ==
  ASSUME Base, NEW r \in Root, NEW level \in Level, RetryTimedOutBoundary(r, level)
  PROVE  /\ Base' /\ Remembered(r)
         /\ \E t \in 1 .. Sync : UpdateAdded(r, t)
         /\ stack' = stack
<1>1. PICK t \in ExpirationTimes(level) :
        EnqueueUpdate(r, t, FALSE) /\ ScheduleCallbackForRoot(Marked(roots, r, t), r, t)
  BY DEF RetryTimedOutBoundary
<1>2. t \in 1 .. Sync
  BY UpdateTimes DEF RetryTimedOutBoundary, UserCode
<1>3. Records' /\ TasksOK' /\ QueueOK' /\ enqueued' \in 0 .. MaxUpdate /\ UpdateAdded(r, t)
  BY <1>1, <1>2, UpdateScheduled DEF Base
<1>4. stack' = stack /\ Quiet /\ StackOK(stack)' /\ wip' = wip /\ Remembered(r)
  BY DEF RetryTimedOutBoundary, Quiet, Base
<1>5. WipOK'
  BY <1>3, <1>4, WipKeptByUpdate DEF Base
<1>6. Scalars'
  <2>1. currentEventTime' \in Time
    BY RequestedTime DEF RetryTimedOutBoundary, Base
  <2>2. forgotten' \subseteq Root
    BY <1>4, ForgottenRoots DEF Base, Scalars
  <2> QED  BY <1>3, <2>1, <2>2 DEF RetryTimedOutBoundary, Base, Scalars
<1> QED  BY <1>2, <1>3, <1>4, <1>5, <1>6 DEF Base

LEMMA EffectThrowsStep ==
  ASSUME Base, EffectThrows
  PROVE  /\ Base' /\ Top.root \in Root /\ Remembered(Top.root)
         /\ UpdateAdded(Top.root, Sync)
         /\ stack' = stack
<1>1. Top.root \in Root
  <2>1. CASE At("commitRoot", "user")
    BY <2>1, TopAt DEF Position, Handlers
  <2>2. CASE At("flushPassiveEffects", "user")
    BY <2>2, TopAt DEF Position, Handlers
  <2> QED  BY <2>1, <2>2 DEF EffectThrows
<1>2. Sync \in 1 .. Sync
  BY RootAssumption
<1>3. /\ \E uncaught \in BOOLEAN : EnqueueUpdate(Top.root, Sync, uncaught)
      /\ ScheduleCallbackForRoot(Marked(roots, Top.root, Sync), Top.root, Sync)
  BY DEF EffectThrows
<1>4. /\ Records' /\ TasksOK' /\ QueueOK' /\ enqueued' \in 0 .. MaxUpdate
      /\ UpdateAdded(Top.root, Sync)
  BY <1>1, <1>2, <1>3, UpdateScheduled DEF Base
<1>5. stack' = stack /\ Quiet /\ StackOK(stack)' /\ wip' = wip /\ Remembered(Top.root)
  BY DEF EffectThrows, Quiet, Base
<1>6. WipOK'
  BY <1>1, <1>4, <1>5, WipKeptByUpdate DEF Base
<1>7. Scalars'
  <2>1. forgotten' \subseteq Root
    BY <1>1, <1>5, ForgottenRoots DEF Base, Scalars
  <2> QED  BY <1>4, <2>1 DEF EffectThrows, thenableVars, Base, Scalars
<1> QED  BY <1>1, <1>4, <1>5, <1>6, <1>7 DEF Base

\* A callback of the Scheduler or of the queue ends.
LEMMA EndsStep ==
  ASSUME Base, stack # <<>>, pending' = pending, NEW rs \in [Root -> RootRecord],
         \A q \in Root : \A us : RecordOK(roots[q], us) => RecordOK(rs[q], us),
         \A q \in Root : rs[q].callbackNode = roots[q].callbackNode,
         Return(Null, rs)
  PROVE  /\ Records' /\ TasksOK' /\ StackOK(stack)' /\ ~At("renderRoot", "user")'
         /\ roots' = AfterFinally(rs, {Top}) /\ stack' = Below /\ tasks' = tasks
         /\ \A q \in Root : SameButCallback(roots'[q], rs[q])
<1>1. roots' = AfterFinally(rs, {Top}) /\ stack' = Below /\ tasks' = tasks
  BY ReturnsNull
<1>2. /\ roots' \in [Root -> RootRecord]
      /\ \A q \in Root :
           /\ SameButCallback(roots'[q], rs[q])
           /\ \A us : RecordOK(rs[q], us) => RecordOK(roots'[q], us)
           /\ roots'[q].callbackNode \in {NoNode, rs[q].callbackNode}
  BY <1>1, FinallyClears
<1>3. Records'
  BY <1>2, RecordsKept DEF Base
<1>4. TasksOK'
  <2>1. TasksOK
    BY DEF Base
  <2>2. ASSUME NEW task \in tasks, NEW q \in Root, task.handle = roots'[q].callbackNode
        PROVE  task.handle = roots[q].callbackNode
    BY <1>2, <2>1, <2>2, NodeConstants DEF TasksOK
  <2> QED  BY <1>1, <2>1, <2>2 DEF TasksOK
<1>5. StackOK(stack)' /\ (stack' # <<>> => Waiting(Top)')
  BY <1>1, PopStep
<1> QED  BY <1>1, <1>2, <1>3, <1>4, <1>5 DEF At, Waiting, Handlers

\* A callback returns a continuation.
LEMMA ContinuesStep ==
  ASSUME Base, stack # <<>>, pending' = pending, NEW rs \in [Root -> RootRecord],
         \A q \in Root : \A us : RecordOK(roots[q], us) => RecordOK(rs[q], us),
         \A q \in Root : rs[q].callbackNode = roots[q].callbackNode,
         Top.fn = "renderRoot", NEW callback \in Callback, callback.wrapped = Top.wrapped,
         Return(callback, rs)
  PROVE  /\ Records' /\ TasksOK' /\ StackOK(stack)' /\ ~At("renderRoot", "user")'
         /\ roots' = rs /\ tasks \subseteq tasks' /\ Continues(callback, rs)
<1>1. MayPush(Top, Below)
  BY TopFrame DEF Base
<1>2. Below = <<>> => callback.wrapped
  BY <1>1 DEF MayPush
<1>3. roots' = rs /\ TasksOK' /\ tasks \subseteq tasks' /\ Continues(callback, rs)
  BY <1>2, ReturnsCallback DEF Base
<1>4. Records'
  BY <1>3, RecordsKept DEF Base
<1>5. Called(rs, callback, TRUE).at = "start"
  BY CalledFrame
<1>6. StackOK(stack)' /\ ~At("renderRoot", "user")'
  BY <1>3, <1>5, EmptyOK DEF Continues, Pushes, At
<1> QED  BY <1>3, <1>4, <1>6

LEMMA TimeoutFiresStep ==
  ASSUME Base, NEW r \in Root, TimeoutFires(r)
  PROVE  /\ Base' /\ Pushes(Called(roots, CommitOf(r, FALSE), TRUE), <<>>)
         /\ OnlyAt(r, roots')
         /\ roots'[r].finishedWork = roots[r].finishedWork
         /\ roots'[r].firstPendingTime = roots[r].firstPendingTime
         /\ roots'[r].callbackNode = roots[r].callbackNode
<1> DEFINE x == [roots[r] EXCEPT !.timer = FALSE]
           f == Called(roots, CommitOf(r, FALSE), TRUE)
<1>1. roots \in [Root -> RootRecord] /\ roots[r] \in RootRecord
  BY DEF Base, Records
<1>2. roots' = [roots EXCEPT ![r] = x]
  BY DEF TimeoutFires
<1>3. /\ x \in RootRecord /\ x.finishedWork = roots[r].finishedWork
      /\ x.finishedExpirationTime = roots[r].finishedExpirationTime
      /\ x.firstPendingTime = roots[r].firstPendingTime
      /\ x.lastPendingTime = roots[r].lastPendingTime
      /\ x.callbackNode = roots[r].callbackNode
      /\ x.callbackExpirationTime = roots[r].callbackExpirationTime
  BY <1>1 DEF RootRecord
<1> HIDE DEF x
<1>4. OnlyAt(r, roots') /\ roots'[r] = x
  BY <1>1, <1>2, <1>3 DEF OnlyAt
<1>5. \A us : RecordOK(roots[r], us) => RecordOK(roots'[r], us)
  BY <1>3, <1>4 DEF RecordOK
<1>6. Records'
  BY <1>4, <1>5, RecordsKept DEF TimeoutFires, updateVars, Base, OnlyAt
<1>7. f \in FrameType /\ f.fn = "commitRoot"
  <2>1. CommitOf(r, FALSE) \in Callback /\ CommitOf(r, FALSE).fn = "commitRoot"
    BY CommitIsCallback
  <2> QED  BY <1>1, <2>1, CalledFrame
<1>8. stack' = Push(f, <<>>)
  BY DEF TimeoutFires, Push
<1> HIDE DEF f
<1>9. Pushes(f, <<>>)
  <2>1. MayPush(f, <<>>)
    BY <1>7, EmptyOK DEF MayPush, Handlers
  <2> QED  BY <1>8, <2>1, EmptyOK, PushStep
<1>10. Quiet /\ StackOK(stack)'
  BY <1>7, <1>9, PushIsQuiet DEF Pushes
<1>11. \A q \in Root : roots'[q].finishedWork = roots[q].finishedWork
                       /\ roots'[q].callbackNode = roots[q].callbackNode
  BY <1>3, <1>4 DEF OnlyAt
<1>12. TasksOK' /\ QueueOK' /\ Scalars'
  BY <1>11 DEF TimeoutFires, updateVars, thenableVars, Base, TasksOK, QueueOK, Scalars
<1>13. WipOK'
  <2>1. wip.root # Null => wip.root \in Root
    BY DEF Base, WipOK
  <2> QED  BY <1>10, <1>11, <2>1, WipKept DEF TimeoutFires, updateVars, Base
<1> QED  BY <1>3, <1>4, <1>6, <1>9, <1>10, <1>12, <1>13 DEF Base, f

LEMMA RenderNothingStep ==
  ASSUME Base, RenderNothing
  PROVE  /\ Base'
         /\ \/ /\ roots[Top.root].firstPendingTime < Top.time
               /\ roots' = AfterFinally(roots, {Top}) /\ stack' = Below /\ tasks' = tasks
            \/ /\ ~(roots[Top.root].firstPendingTime < Top.time)
               /\ roots[Top.root].finishedWork # Null
               /\ roots' = roots /\ tasks \subseteq tasks'
               /\ Continues(CommitOf(Top.root, Top.wrapped), roots)
<1>1. /\ stack # <<>> /\ Top.fn = "renderRoot" /\ Top.at = "start" /\ Top \in FrameType
      /\ Position(Top)
  BY TopAt DEF RenderNothing
<1>2. /\ Top.root \in Root /\ Top.time \in Time \ {NoWork} /\ Top.wrapped \in BOOLEAN
  BY <1>1 DEF Position, Handlers, FrameType, FrameShape
<1>3. roots \in [Root -> RootRecord] /\ pending' = pending
  BY DEF Base, Records, RenderNothing, updateVars
<1>4. /\ Records' /\ TasksOK' /\ StackOK(stack)' /\ ~At("renderRoot", "user")'
      /\ \A q \in Root : roots'[q].finishedWork = roots[q].finishedWork
      /\ \/ /\ roots[Top.root].firstPendingTime < Top.time
            /\ roots' = AfterFinally(roots, {Top}) /\ stack' = Below /\ tasks' = tasks
         \/ /\ ~(roots[Top.root].firstPendingTime < Top.time)
            /\ roots[Top.root].finishedWork # Null
            /\ roots' = roots /\ tasks \subseteq tasks'
            /\ Continues(CommitOf(Top.root, Top.wrapped), roots)
  <2>1. CASE roots[Top.root].firstPendingTime < Top.time
    <3>1. Return(Null, roots)
      BY <2>1 DEF RenderNothing
    <3>2. /\ Records' /\ TasksOK' /\ StackOK(stack)' /\ ~At("renderRoot", "user")'
          /\ roots' = AfterFinally(roots, {Top}) /\ stack' = Below /\ tasks' = tasks
          /\ \A q \in Root : SameButCallback(roots'[q], roots[q])
      BY <1>1, <1>3, <3>1, EndsStep
    <3> QED  BY <2>1, <3>2 DEF SameButCallback
  <2>2. CASE ~(roots[Top.root].firstPendingTime < Top.time)
    <3> DEFINE c == CommitOf(Top.root, Top.wrapped)
    <3>1. /\ Return(c, roots)
          /\ roots[Top.root].finishedExpirationTime = Top.time
      BY <2>2 DEF RenderNothing, NothingToRender
    <3>2. c \in Callback /\ c.wrapped = Top.wrapped
      BY <1>2, CommitIsCallback
    <3> HIDE DEF c
    <3>3. /\ Records' /\ TasksOK' /\ StackOK(stack)' /\ ~At("renderRoot", "user")'
          /\ roots' = roots /\ tasks \subseteq tasks' /\ Continues(c, roots)
      BY <1>1, <1>3, <3>1, <3>2, ContinuesStep
    <3>4. roots[Top.root].finishedWork # Null
      BY <1>2, <3>1 DEF Base, Records, RecordOK
    <3> QED  BY <2>2, <3>3, <3>4 DEF c
  <2> QED  BY <2>1, <2>2
<1>5. QueueOK' /\ Scalars'
  BY DEF RenderNothing, updateVars, thenableVars, Base, QueueOK, Scalars
<1>6. WipOK'
  <2>1. wip.root # Null => wip.root \in Root
    BY DEF Base, WipOK
  <2> QED  BY <1>3, <1>4, <2>1, WipKept DEF RenderNothing, Base, Quiet
<1> QED  BY <1>4, <1>5, <1>6 DEF Base

LEMMA RenderYieldsStep ==
  ASSUME Base, RenderYields
  PROVE  /\ Base' /\ Below = <<>>
         /\ roots' = roots /\ tasks \subseteq tasks'
         /\ Continues(RenderOf(Top.root, Top.time, Top.wrapped), roots)
<1> DEFINE c == RenderOf(Top.root, Top.time, Top.wrapped)
<1>1. stack # <<>> /\ Top.fn = "renderRoot" /\ MayPush(Top, Below) /\ Top \in FrameType
  BY TopAt DEF RenderYields
<1>2. Below = <<>>
  BY <1>1 DEF MayPush, RenderYields
<1>3. c \in Callback /\ c.wrapped = Top.wrapped
  <2>1. Top.root \in Root /\ Top.time \in 1 .. Sync /\ Top.wrapped \in BOOLEAN
    BY <1>1, TimeInProgress DEF RenderYields, FrameType, FrameShape
  <2> QED  BY <2>1, RenderIsCallback
<1>4. Return(c, roots)
  BY DEF RenderYields
<1> HIDE DEF c
<1>5. roots \in [Root -> RootRecord] /\ pending' = pending
  BY DEF Base, Records, RenderYields, updateVars
<1>6. /\ Records' /\ TasksOK' /\ StackOK(stack)' /\ ~At("renderRoot", "user")'
      /\ roots' = roots /\ tasks \subseteq tasks' /\ Continues(c, roots)
  BY <1>1, <1>3, <1>4, <1>5, ContinuesStep
<1>7. QueueOK' /\ Scalars'
  BY DEF RenderYields, updateVars, thenableVars, Base, QueueOK, Scalars
<1>8. WipOK'
  BY <1>5, <1>6, WipKept DEF RenderYields, Base, Quiet
<1> QED  BY <1>2, <1>6, <1>7, <1>8 DEF Base, c

\* A stack prepared for r at time t covers updates that are pending.
LEMMA FreshIsOK ==
  ASSUME Records, NEW r \in Root, NEW t \in 1 .. Sync
  PROVE  /\ FreshStack(r, t) \in [root : Root \cup {Null}, time : Time, updates : SUBSET Update]
         /\ FreshStack(r, t).root = r /\ FreshStack(r, t).time = t
         /\ FreshStack(r, t).updates = Covered(r, t)
<1>1. Covered(r, t) \subseteq Update
  BY DEF Covered, Records
<1> QED  BY <1>1 DEF FreshStack, Time

LEMMA RenderPreparesStep ==
  ASSUME Base, RenderPrepares
  PROVE  LET r  == Top.root
             rs == IF wip.root # r \/ wip.time # Top.time THEN Discarded(roots, r) ELSE roots
         IN  /\ Base' /\ r \in Root /\ rs \in [Root -> RootRecord] /\ roots' = rs
             /\ OnlyAt(r, rs)
             /\ rs[r].finishedWork = Null
             /\ rs[r].firstPendingTime = roots[r].firstPendingTime
             /\ rs[r].callbackNode = roots[r].callbackNode
             /\ \/ /\ Top.isSync /\ clock < Top.time /\ clock \in 1 .. Sync
                   /\ tasks \subseteq tasks'
                   /\ Continues(RenderOf(r, clock, Top.wrapped), rs)
                \/ /\ tasks' = tasks
                   /\ Pushes([Top EXCEPT !.at = "user"], Below)
<1>0. PICK r, t : r = Top.root /\ t = Top.time
  OBVIOUS
<1> DEFINE fresh == wip.root # r \/ wip.time # t
           rs == IF fresh THEN Discarded(roots, r) ELSE roots
<1>1. stack # <<>> /\ Top.fn = "renderRoot" /\ Top \in FrameType /\ Position(Top)
  BY TopAt DEF RenderPrepares
<1>2. r \in Root /\ r # Null /\ t \in 1 .. Sync /\ Top.wrapped \in BOOLEAN
  <2>1. Top.root \in Root /\ Top.time \in Time \ {NoWork} /\ Top.wrapped \in BOOLEAN
    BY <1>1 DEF Position, Handlers, FrameType, FrameShape
  <2> QED  BY <1>0, <2>1, RootAssumption DEF Time, NoWork
<1>3. /\ roots \in [Root -> RootRecord] /\ pending' = pending
      /\ wip' = IF fresh THEN FreshStack(r, t) ELSE wip
  BY <1>0 DEF Base, Records, RenderPrepares, updateVars
<1>4. /\ rs \in [Root -> RootRecord]
      /\ \A q \in Root : q # r => rs[q] = roots[q]
      /\ \A q \in Root : \A us : RecordOK(roots[q], us) => RecordOK(rs[q], us)
      /\ \A q \in Root : rs[q].callbackNode = roots[q].callbackNode
      /\ rs[r].finishedWork = Null
      /\ rs[r].firstPendingTime = roots[r].firstPendingTime
  <2>1. CASE fresh
    <3>1. LET ds == Discarded(roots, r)
          IN  /\ ds \in [Root -> RootRecord]
              /\ \A q \in Root : q # r => ds[q] = roots[q]
              /\ \A us : RecordOK(roots[r], us) => RecordOK(ds[r], us)
              /\ ds[r].finishedWork = Null
              /\ ds[r].firstPendingTime = roots[r].firstPendingTime
              /\ ds[r].callbackNode = roots[r].callbackNode
      BY <1>2, <1>3, DiscardedTree
    <3>2. rs = Discarded(roots, r)
      BY <2>1
    <3> HIDE DEF rs
    <3>3. \A q \in Root : \A us : RecordOK(roots[q], us) => RecordOK(rs[q], us)
      <4> SUFFICES ASSUME NEW q \in Root, NEW us, RecordOK(roots[q], us)
                   PROVE  RecordOK(rs[q], us)
        OBVIOUS
      <4>1. CASE q = r
        BY <3>1, <3>2, <4>1
      <4>2. CASE q # r
        BY <3>1, <3>2, <4>2
      <4> QED  BY <4>1, <4>2
    <3> QED  BY <3>1, <3>2, <3>3
  <2>2. CASE ~fresh
    <3>1. rs = roots
      BY <2>2
    <3>2. roots[r].finishedWork = Null
      BY <1>2, <2>2 DEF Base, WipOK
    <3> HIDE DEF rs
    <3> QED  BY <1>3, <3>1, <3>2
  <2> QED  BY <2>1, <2>2
<1> DEFINE goesOn == ~(Top.isSync /\ t # Sync /\ clock < t)
<1>5. IF goesOn THEN roots' = rs /\ stack' = Goto("user") /\ tasks' = tasks
      ELSE Return(RenderOf(r, clock, Top.wrapped), rs)
  <2>1. CASE goesOn
    BY <1>0, <2>1 DEF RenderPrepares
  <2>2. CASE ~goesOn
    BY <1>0, <2>2 DEF RenderPrepares
  <2> QED  BY <2>1, <2>2
<1>6. currentEventTime' \in Time
  BY RootAssumption DEF RenderPrepares, Base, Scalars, NoWork, Time
<1> HIDE DEF rs, fresh
<1>7. /\ wip' \in [root : Root \cup {Null}, time : Time, updates : SUBSET Update]
      /\ wip'.root = r /\ wip'.time = t
      /\ wip'.updates \subseteq Covered(r, t)
  <2>1. CASE fresh
    BY <1>2, <1>3, <2>1, FreshIsOK DEF Base
  <2>2. CASE ~fresh
    <3>1. wip' = wip /\ wip.root = r /\ wip.time = t
      BY <1>3, <2>2 DEF fresh
    <3> QED  BY <1>2, <3>1 DEF Base, WipOK
  <2> QED  BY <2>1, <2>2
<1>8. Covered(r, t)' = Covered(r, t)
  BY <1>3 DEF Covered
<1>9. QueueOK' /\ Scalars'
  BY <1>6 DEF RenderPrepares, updateVars, thenableVars, Base, QueueOK, Scalars
<1>10. CASE goesOn
  <2> DEFINE g == [Top EXCEPT !.at = "user"]
  <2>1. /\ Goto("user") = Push(g, Below) /\ MayPush(g, Below)
        /\ g.root = r /\ g.time = t
    BY <1>0, <1>1, GotoStep DEF Base
  <2>2. roots' = rs /\ stack' = Goto("user") /\ tasks' = tasks
    BY <1>5, <1>10
  <2> HIDE DEF g
  <2>3. Pushes(g, Below)
    BY <1>1, <2>1, <2>2, TopFrame, PushStep DEF Base
  <2>4. Records' /\ TasksOK'
    BY <1>3, <1>4, <2>2, RecordsKept DEF Base, TasksOK
  <2>5. WipOK'
    <3>1. Top'.root = r /\ Top'.time = t
      BY <2>1, <2>3 DEF Pushes
    <3>2. roots'[r].finishedWork = Null
      BY <1>4, <2>2
    <3> QED  BY <1>2, <1>7, <1>8, <3>1, <3>2 DEF WipOK, NoWork
  <2>6. Base'
    BY <1>9, <2>3, <2>4, <2>5 DEF Base, Pushes
  <2> QED  BY <1>0, <1>2, <1>4, <2>2, <2>3, <2>6 DEF OnlyAt, g, rs, fresh
<1>11. CASE ~goesOn
  <2> DEFINE c == RenderOf(r, clock, Top.wrapped)
  <2>1. Return(c, rs) /\ Top.isSync /\ clock < t
    BY <1>5, <1>11
  <2>2. clock \in 1 .. Sync
    BY RootAssumption DEF Base, Scalars
  <2>3. c \in Callback /\ c.wrapped = Top.wrapped
    BY <1>2, <2>2, RenderIsCallback
  <2> HIDE DEF c
  <2>4. /\ Records' /\ TasksOK' /\ StackOK(stack)' /\ ~At("renderRoot", "user")'
        /\ roots' = rs /\ tasks \subseteq tasks' /\ Continues(c, rs)
    BY <1>1, <1>3, <1>4, <2>1, <2>3, ContinuesStep
  <2>5. WipOK'
    <3>1. roots'[r].finishedWork = Null
      BY <1>4, <2>4
    <3> QED  BY <1>2, <1>7, <1>8, <2>4, <3>1 DEF WipOK, NoWork
  <2>6. Base'
    BY <1>9, <2>4, <2>5 DEF Base
  <2> QED  BY <1>0, <1>2, <1>4, <2>1, <2>2, <2>4, <2>6 DEF OnlyAt, c, rs, fresh
<1> QED  BY <1>10, <1>11

\* A render records the tree it has finished.
Finished(rs, r, tree, t) ==
  [rs EXCEPT ![r].finishedWork = tree, ![r].finishedExpirationTime = t]

LEMMA FinishedTree ==
  ASSUME NEW rs \in [Root -> RootRecord], NEW r \in Root, NEW t \in 1 .. Sync,
         NEW tree \in Tree, NEW fs, fs = Finished(rs, r, tree, t)
  PROVE  /\ fs \in [Root -> RootRecord]
         /\ \A q \in Root : q # r => fs[q] = rs[q]
         /\ \A us : RecordOK(rs[r], us) => RecordOK(fs[r], us)
         /\ fs[r].finishedWork # Null
         /\ fs[r].firstPendingTime = rs[r].firstPendingTime
         /\ fs[r].lastPendingTime = rs[r].lastPendingTime
         /\ fs[r].callbackNode = rs[r].callbackNode
<1> DEFINE x == [rs[r] EXCEPT !.finishedWork = tree, !.finishedExpirationTime = t]
<1>1. rs[r] \in RootRecord /\ t \in Time /\ tree # Null /\ t # NoWork
  BY NullAssumption DEF Time, NoWork
<1>2. fs = [rs EXCEPT ![r] = x]
  BY DEF Finished
<1>3. /\ x \in RootRecord /\ x.finishedWork = tree /\ x.finishedExpirationTime = t
      /\ x.firstPendingTime = rs[r].firstPendingTime
      /\ x.lastPendingTime = rs[r].lastPendingTime
      /\ x.callbackNode = rs[r].callbackNode
      /\ x.callbackExpirationTime = rs[r].callbackExpirationTime
  BY <1>1 DEF RootRecord
<1> HIDE DEF x
<1>4. \A us : RecordOK(rs[r], us) => RecordOK(x, us)
  BY <1>1, <1>3 DEF RecordOK
<1>5. fs \in [Root -> RootRecord] /\ fs[r] = x /\ \A q \in Root : q # r => fs[q] = rs[q]
  BY <1>2, <1>3
<1> QED  BY <1>1, <1>3, <1>4, <1>5

LEMMA TimerSet ==
  ASSUME NEW rs \in [Root -> RootRecord], NEW r \in Root
  PROVE  LET ts == [rs EXCEPT ![r].timer = TRUE]
         IN  /\ ts \in [Root -> RootRecord]
             /\ \A q \in Root : q # r => ts[q] = rs[q]
             /\ \A us : RecordOK(rs[r], us) => RecordOK(ts[r], us)
             /\ ts[r].timer
             /\ ts[r].finishedWork = rs[r].finishedWork
             /\ ts[r].firstPendingTime = rs[r].firstPendingTime
             /\ ts[r].callbackNode = rs[r].callbackNode
<1> DEFINE x == [rs[r] EXCEPT !.timer = TRUE]
           ts == [rs EXCEPT ![r].timer = TRUE]
<1>1. rs[r] \in RootRecord
  OBVIOUS
<1>2. ts = [rs EXCEPT ![r] = x]
  OBVIOUS
<1>3. /\ x \in RootRecord /\ x.finishedWork = rs[r].finishedWork /\ x.timer
      /\ x.finishedExpirationTime = rs[r].finishedExpirationTime
      /\ x.firstPendingTime = rs[r].firstPendingTime
      /\ x.lastPendingTime = rs[r].lastPendingTime
      /\ x.callbackNode = rs[r].callbackNode
      /\ x.callbackExpirationTime = rs[r].callbackExpirationTime
  BY <1>1 DEF RootRecord
<1> HIDE DEF x
<1>4. \A us : RecordOK(rs[r], us) => RecordOK(x, us)
  BY <1>1, <1>3 DEF RecordOK
<1>5. ts \in [Root -> RootRecord] /\ ts[r] = x /\ \A q \in Root : q # r => ts[q] = rs[q]
  BY <1>2, <1>3
<1> QED  BY <1>3, <1>4, <1>5

\* The callbacks the roots refer to, and their other fields, are sound still.
Sound(rs) ==
  /\ rs \in [Root -> RootRecord]
  /\ \A q \in Root : \A us : RecordOK(roots[q], us) => RecordOK(rs[q], us)
  /\ \A q \in Root : rs[q].callbackNode = roots[q].callbackNode

LEMMA SoundAt ==
  ASSUME Records, NEW r \in Root, NEW rs, OnlyAt(r, rs),
         \A us : RecordOK(roots[r], us) => RecordOK(rs[r], us),
         rs[r].callbackNode = roots[r].callbackNode
  PROVE  Sound(rs)
<1>1. ASSUME NEW q \in Root, NEW us, RecordOK(roots[q], us)
      PROVE  RecordOK(rs[q], us)
  BY <1>1 DEF OnlyAt
<1> QED  BY <1>1 DEF Sound, OnlyAt

\* How a render that has finished a tree of r ends: with a render at a lower
\* priority, a synchronous attempt, a timer or a commit.
Outcome(r, t, rs) ==
  \/ /\ roots' = rs /\ tasks \subseteq tasks' /\ syncQueue' = syncQueue
     /\ rs[r].finishedWork # Null
     /\ \E last \in 1 .. Sync : /\ last <= rs[r].firstPendingTime
                                /\ Continues(RenderOf(r, last, Top.wrapped), rs)
  \/ /\ ~Top.isSync /\ roots' = AfterFinally(rs, {Top}) /\ stack' = Below /\ tasks' = tasks
     /\ rs[r].finishedWork = Null
     /\ ToSet(syncQueue') = ToSet(syncQueue) \cup {RenderOf(r, t, FALSE)}
     /\ t <= rs[r].firstPendingTime
  \/ /\ ~Top.isSync /\ roots' = AfterFinally(rs, {Top}) /\ stack' = Below /\ tasks' = tasks
     /\ rs[r].finishedWork # Null /\ rs[r].timer
     /\ syncQueue' = syncQueue
  \/ /\ roots' = rs /\ tasks \subseteq tasks' /\ syncQueue' = syncQueue
     /\ rs[r].finishedWork # Null
     /\ Continues(CommitOf(r, Top.wrapped), rs)

LEMMA RenderCompletesStep ==
  ASSUME Base, NEW status \in Status, RenderCompletes(status)
  PROVE  /\ Base' /\ Top.root \in Root
         /\ roots[Top.root].finishedWork = Null
         /\ \E rs : /\ OnlyAt(Top.root, rs)
                    /\ rs[Top.root].firstPendingTime = roots[Top.root].firstPendingTime
                    /\ rs[Top.root].callbackNode = roots[Top.root].callbackNode
                    /\ Outcome(Top.root, Top.time, rs)
<1>0. PICK r, t : r = Top.root /\ t = Top.time
  OBVIOUS
<1>1. /\ stack # <<>> /\ Top.fn = "renderRoot" /\ Top \in FrameType
      /\ r \in Root /\ r # Null /\ t \in 1 .. Sync
      /\ roots[r].finishedWork = Null /\ wip.updates \subseteq Covered(r, t)
      /\ Top.wrapped \in BOOLEAN
  BY <1>0, TopAt, TimeInProgress DEF RenderCompletes, FrameType, FrameShape
<1>2. PICK late \in SUBSET (Covered(Top.root, Top.time) \ wip.updates),
           uncaught \in {FALSE, status = "RootErrored"} :
       LET updates  == wip.updates \cup late
           finished == [updates |-> updates, suspended |-> status = "RootSuspended",
                        uncaught |-> uncaught \/ \E u \in updates : u.uncaught]
           rs       == [roots EXCEPT ![Top.root].finishedWork = finished,
                                     ![Top.root].finishedExpirationTime = Top.time]
           lower    == rs[Top.root].lastPendingTime < Top.time
           tryLower == lower /\ \/ status = "RootErrored"
                                \/ status = "RootSuspended" /\ ~Top.isSync
       IN  /\ status # "RootCompleted" => updates # {}
           /\ \/ /\ tryLower
                 /\ Return(RenderOf(Top.root, rs[Top.root].lastPendingTime, Top.wrapped), rs)
                 /\ wip' = NoWip /\ UNCHANGED syncQueue
              \/ /\ status = "RootErrored" /\ ~tryLower /\ ~Top.isSync
                 /\ Return(Null, Discarded(rs, Top.root))
                 /\ wip' = FreshStack(Top.root, Top.time)
                 /\ syncQueue' = Append(syncQueue, RenderOf(Top.root, Top.time, FALSE))
              \/ /\ status # "RootErrored" /\ ~tryLower /\ ~Top.isSync
                 /\ Return(Null, [rs EXCEPT ![Top.root].timer = TRUE])
                 /\ wip' = NoWip /\ UNCHANGED syncQueue
              \/ /\ ~tryLower /\ (status = "RootErrored" => Top.isSync)
                 /\ Return(CommitOf(Top.root, Top.wrapped), rs)
                 /\ wip' = NoWip /\ UNCHANGED syncQueue
  BY DEF RenderCompletes
<1> DEFINE updates  == wip.updates \cup late
           finished == [updates |-> updates, suspended |-> status = "RootSuspended",
                        uncaught |-> uncaught \/ \E u \in updates : u.uncaught]
           rs       == [roots EXCEPT ![r].finishedWork = finished,
                                     ![r].finishedExpirationTime = t]
           last     == rs[r].lastPendingTime
<1>3. /\ status # "RootCompleted" => updates # {}
      /\ \/ /\ status # "RootCompleted"
            /\ Return(RenderOf(r, last, Top.wrapped), rs)
            /\ wip' = NoWip /\ syncQueue' = syncQueue
         \/ /\ status = "RootErrored" /\ ~Top.isSync
            /\ Return(Null, Discarded(rs, r))
            /\ wip' = FreshStack(r, t)
            /\ syncQueue' = Append(syncQueue, RenderOf(r, t, FALSE))
         \/ /\ ~Top.isSync
            /\ Return(Null, [rs EXCEPT ![r].timer = TRUE])
            /\ wip' = NoWip /\ syncQueue' = syncQueue
         \/ /\ Return(CommitOf(r, Top.wrapped), rs)
            /\ wip' = NoWip /\ syncQueue' = syncQueue
  BY <1>0, <1>2
<1>4. Records /\ roots \in [Root -> RootRecord] /\ pending' = pending
  BY DEF Base, Records, RenderCompletes, updateVars
<1>5. updates \subseteq Covered(r, t) /\ Covered(r, t) \subseteq pending[r]
      /\ pending[r] \subseteq Update
  BY <1>0, <1>1, <1>4 DEF Covered, Records
<1>6. finished \in Tree
  <2>1. updates \in SUBSET Update /\ (status = "RootSuspended") \in BOOLEAN
    BY <1>5
  <2>2. (uncaught \/ \E u \in updates : u.uncaught) \in BOOLEAN
    OBVIOUS
  <2> HIDE DEF updates
  <2> QED  BY <2>1, <2>2 DEF Tree
<1> HIDE DEF finished
<1>7. /\ rs \in [Root -> RootRecord]
      /\ \A q \in Root : q # r => rs[q] = roots[q]
      /\ \A us : RecordOK(roots[r], us) => RecordOK(rs[r], us)
      /\ rs[r].finishedWork # Null
      /\ rs[r].firstPendingTime = roots[r].firstPendingTime
      /\ rs[r].lastPendingTime = roots[r].lastPendingTime
      /\ rs[r].callbackNode = roots[r].callbackNode
  <2>1. PICK tree : tree = finished
    OBVIOUS
  <2>2. PICK fs : fs = Finished(roots, r, tree, t)
    OBVIOUS
  <2>3. tree \in Tree
    BY <1>6, <2>1
  <2>4. /\ fs \in [Root -> RootRecord]
        /\ \A q \in Root : q # r => fs[q] = roots[q]
        /\ \A us : RecordOK(roots[r], us) => RecordOK(fs[r], us)
        /\ fs[r].finishedWork # Null
        /\ fs[r].firstPendingTime = roots[r].firstPendingTime
        /\ fs[r].lastPendingTime = roots[r].lastPendingTime
        /\ fs[r].callbackNode = roots[r].callbackNode
    <3>1. r \in Root /\ t \in 1 .. Sync /\ roots \in [Root -> RootRecord]
      BY <1>1, <1>4
    <3>2. fs \in [Root -> RootRecord]
      BY <2>2, <2>3, <3>1, FinishedTree
    <3>3. \A q \in Root : q # r => fs[q] = roots[q]
      BY <2>2, <2>3, <3>1, FinishedTree
    <3>4. \A us : RecordOK(roots[r], us) => RecordOK(fs[r], us)
      BY <2>2, <2>3, <3>1, FinishedTree
    <3>5. /\ fs[r].finishedWork # Null
          /\ fs[r].firstPendingTime = roots[r].firstPendingTime
          /\ fs[r].lastPendingTime = roots[r].lastPendingTime
          /\ fs[r].callbackNode = roots[r].callbackNode
      BY <2>2, <2>3, <3>1, FinishedTree
    <3> QED  BY <3>2, <3>3, <3>4, <3>5
  <2>5. rs = fs
    BY <2>1, <2>2 DEF Finished
  <2> HIDE DEF rs
  <2> QED  BY <2>4, <2>5
<1> HIDE DEF rs
<1>8. OnlyAt(r, rs) /\ Sound(rs)
  <2>1. OnlyAt(r, rs)
    BY <1>7 DEF OnlyAt
  <2> QED  BY <1>1, <1>4, <1>7, <2>1, SoundAt
<1>9. ASSUME status # "RootCompleted"
      PROVE  /\ rs[r].lastPendingTime \in 1 .. Sync
             /\ rs[r].lastPendingTime <= rs[r].firstPendingTime
             /\ t <= rs[r].firstPendingTime
  <2>1. PICK u \in updates : TRUE
    BY <1>3, <1>9
  <2> HIDE DEF updates
  <2>2. u \in pending[r] /\ u \in Update /\ u.time >= t
    BY <1>5, <2>1 DEF Covered
  <2>3. /\ roots[r].firstPendingTime = MaxTime(pending[r])
        /\ roots[r].lastPendingTime \in 1 .. u.time
        /\ u.time \in 1 .. Sync
    BY <1>1, <1>4, <2>2 DEF Records, RecordOK, Update
  <2>4. u.time <= MaxTime(pending[r]) /\ MaxTime(pending[r]) \in Time
    BY <1>5, <2>2, MaxTimeIs
  <2>5. /\ rs[r].firstPendingTime = roots[r].firstPendingTime
        /\ rs[r].lastPendingTime = roots[r].lastPendingTime
        /\ t \in 1 .. Sync
    BY <1>1, <1>7
  <2>6. u.time <= rs[r].firstPendingTime /\ rs[r].firstPendingTime \in Time
        /\ u.time >= t /\ rs[r].lastPendingTime \in 1 .. u.time /\ u.time \in 1 .. Sync
    BY <2>2, <2>3, <2>4, <2>5
  <2> QED  BY <2>5, <2>6, RootAssumption DEF Time
<1>10. Scalars'
  <2>1. pings' \subseteq Root \X (1 .. Sync)
    <3>1. pings' = IF status = "RootSuspended" THEN pings \cup {<<r, t>>} ELSE pings
      BY <1>0 DEF RenderCompletes
    <3>2. pings \subseteq Root \X (1 .. Sync)
      BY DEF Base, Scalars
    <3> QED  BY <1>1, <3>1, <3>2
  <2> QED  BY <2>1 DEF RenderCompletes, updateVars, Base, Scalars
<1> DEFINE Good == Base' /\ \E fs : /\ OnlyAt(r, fs)
                                    /\ fs[r].firstPendingTime = roots[r].firstPendingTime
                                    /\ fs[r].callbackNode = roots[r].callbackNode
                                    /\ Outcome(r, t, fs)
<1> SUFFICES Good
  BY <1>0, <1>1
<1>11. ASSUME wip' = NoWip, ~At("renderRoot", "user")'
       PROVE  WipOK'
  BY <1>11, RootAssumption DEF WipOK, NoWip, Time, NoWork
<1>12. syncQueue' = syncQueue => QueueOK'
  BY DEF Base, QueueOK
<1>13. CASE /\ status # "RootCompleted"
            /\ Return(RenderOf(r, last, Top.wrapped), rs)
            /\ wip' = NoWip /\ syncQueue' = syncQueue
  <2>1. last \in 1 .. Sync /\ last <= rs[r].firstPendingTime
    BY <1>9, <1>13
  <2> DEFINE c == RenderOf(r, last, Top.wrapped)
  <2>2. c \in Callback /\ c.wrapped = Top.wrapped /\ Return(c, rs)
    BY <1>1, <1>13, <2>1, RenderIsCallback
  <2> HIDE DEF c
  <2>3. /\ Records' /\ TasksOK' /\ StackOK(stack)' /\ ~At("renderRoot", "user")'
        /\ roots' = rs /\ tasks \subseteq tasks' /\ Continues(c, rs)
    BY <1>1, <1>4, <1>8, <2>2, ContinuesStep DEF Sound
  <2>4. Outcome(r, t, rs)
    BY <1>7, <1>13, <2>1, <2>3 DEF Outcome, c
  <2>5. Base'
    BY <1>10, <1>11, <1>12, <1>13, <2>3 DEF Base
  <2> QED  BY <1>7, <1>8, <2>4, <2>5
<1>14. CASE /\ status = "RootErrored" /\ ~Top.isSync
            /\ Return(Null, Discarded(rs, r))
            /\ wip' = FreshStack(r, t)
            /\ syncQueue' = Append(syncQueue, RenderOf(r, t, FALSE))
  <2>0. PICK ds : ds = Discarded(rs, r)
    OBVIOUS
  <2>1. /\ ds \in [Root -> RootRecord]
        /\ \A q \in Root : q # r => ds[q] = rs[q]
        /\ \A us : RecordOK(rs[r], us) => RecordOK(ds[r], us)
        /\ ds[r].finishedWork = Null
        /\ ds[r].firstPendingTime = rs[r].firstPendingTime
        /\ ds[r].callbackNode = rs[r].callbackNode
    BY <1>1, <1>7, <2>0, DiscardedTree
  <2>2. OnlyAt(r, ds)
    BY <1>7, <2>1 DEF OnlyAt
  <2>3. Sound(ds)
    <3>1. \A us : RecordOK(roots[r], us) => RecordOK(ds[r], us)
      BY <1>7, <2>1
    <3> QED  BY <1>1, <1>4, <1>7, <2>1, <2>2, <3>1, SoundAt
  <2>4. /\ Records' /\ TasksOK' /\ StackOK(stack)' /\ ~At("renderRoot", "user")'
        /\ roots' = AfterFinally(ds, {Top}) /\ stack' = Below /\ tasks' = tasks
        /\ \A q \in Root : SameButCallback(roots'[q], ds[q])
    BY <1>1, <1>4, <1>14, <2>0, <2>3, EndsStep DEF Sound
  <2>5. QueueOK' /\ ToSet(syncQueue') = ToSet(syncQueue) \cup {RenderOf(r, t, FALSE)}
    <3>1. RenderOf(r, t, FALSE) \in Callback /\ RenderOf(r, t, FALSE).fn = "renderRoot"
      BY <1>1, RenderIsCallback
    <3> QED  BY <1>14, <3>1, QueueAppended DEF Base
  <2>6. Outcome(r, t, ds)
    <3>1. t <= ds[r].firstPendingTime
      BY <1>9, <1>14, <2>1
    <3> QED  BY <1>14, <2>1, <2>4, <2>5, <3>1 DEF Outcome
  <2>7. WipOK'
    <3>1. /\ wip' \in [root : Root \cup {Null}, time : Time, updates : SUBSET Update]
          /\ wip'.root = r /\ wip'.time = t /\ wip'.updates = Covered(r, t)
      BY <1>1, <1>4, <1>14, FreshIsOK
    <3>2. Covered(r, t)' = Covered(r, t)
      BY <1>4 DEF Covered
    <3>3. roots'[r].finishedWork = Null
      BY <1>1, <2>1, <2>4 DEF SameButCallback
    <3> QED  BY <1>1, <2>4, <3>1, <3>2, <3>3 DEF WipOK, NoWork
  <2>8. Base'
    BY <1>10, <2>4, <2>5, <2>7 DEF Base
  <2> QED  BY <1>7, <2>1, <2>2, <2>6, <2>8
<1>15. CASE /\ ~Top.isSync
            /\ Return(Null, [rs EXCEPT ![r].timer = TRUE])
            /\ wip' = NoWip /\ syncQueue' = syncQueue
  <2>0. PICK ts : ts = [rs EXCEPT ![r].timer = TRUE]
    OBVIOUS
  <2>1. /\ ts \in [Root -> RootRecord]
        /\ \A q \in Root : q # r => ts[q] = rs[q]
        /\ \A us : RecordOK(rs[r], us) => RecordOK(ts[r], us)
        /\ ts[r].timer
        /\ ts[r].finishedWork = rs[r].finishedWork
        /\ ts[r].firstPendingTime = rs[r].firstPendingTime
        /\ ts[r].callbackNode = rs[r].callbackNode
    BY <1>1, <1>7, <2>0, TimerSet
  <2>2. OnlyAt(r, ts)
    BY <1>7, <2>1 DEF OnlyAt
  <2>3. Sound(ts)
    <3>1. \A us : RecordOK(roots[r], us) => RecordOK(ts[r], us)
      BY <1>7, <2>1
    <3> QED  BY <1>1, <1>4, <1>7, <2>1, <2>2, <3>1, SoundAt
  <2>4. /\ Records' /\ TasksOK' /\ StackOK(stack)' /\ ~At("renderRoot", "user")'
        /\ roots' = AfterFinally(ts, {Top}) /\ stack' = Below /\ tasks' = tasks
    BY <1>1, <1>4, <1>15, <2>0, <2>3, EndsStep DEF Sound
  <2>5. Outcome(r, t, ts)
    BY <1>7, <1>15, <2>1, <2>4 DEF Outcome
  <2>6. Base'
    BY <1>10, <1>11, <1>12, <1>15, <2>4 DEF Base
  <2> QED  BY <1>7, <2>1, <2>2, <2>5, <2>6
<1>16. CASE /\ Return(CommitOf(r, Top.wrapped), rs)
            /\ wip' = NoWip /\ syncQueue' = syncQueue
  <2> DEFINE c == CommitOf(r, Top.wrapped)
  <2>2. c \in Callback /\ c.wrapped = Top.wrapped /\ Return(c, rs)
    BY <1>1, <1>16, CommitIsCallback
  <2> HIDE DEF c
  <2>3. /\ Records' /\ TasksOK' /\ StackOK(stack)' /\ ~At("renderRoot", "user")'
        /\ roots' = rs /\ tasks \subseteq tasks' /\ Continues(c, rs)
    BY <1>1, <1>4, <1>8, <2>2, ContinuesStep DEF Sound
  <2>4. Outcome(r, t, rs)
    BY <1>7, <1>16, <2>3 DEF Outcome, c
  <2>5. Base'
    BY <1>10, <1>11, <1>12, <1>16, <2>3 DEF Base
  <2> QED  BY <1>7, <1>8, <2>4, <2>5
<1> HIDE DEF Good
<1> QED  BY <1>3, <1>13, <1>14, <1>15, <1>16

LEMMA CommitMutatesStep ==
  ASSUME Base, CommitMutates
  PROVE  LET r == Top.root
         IN  /\ Base' /\ r \in Root /\ OnlyAt(r, roots')
             /\ \A q \in Root : q # r => pending'[q] = pending[q]
             /\ pending'[r] \subseteq pending[r]
             /\ roots'[r].callbackNode = NoNode /\ roots'[r].finishedWork = Null
             /\ Pushes([Top EXCEPT !.at = "user"], Below)
<1>0. PICK r : r = Top.root
  OBVIOUS
<1>1. stack # <<>> /\ Top.fn = "commitRoot" /\ r \in Root
  BY <1>0, Commits DEF CommitMutates
<1>2. PICK tree : tree = roots[r].finishedWork
  OBVIOUS
<1>3. PICK rest : rest = pending[r] \ tree.updates
  OBVIOUS
<1> DEFINE first == MaxTime(rest)
           last == IF first < roots[r].lastPendingTime THEN first ELSE roots[r].lastPendingTime
           x == [roots[r] EXCEPT
                   !.finishedWork = Null, !.finishedExpirationTime = NoWork,
                   !.callbackNode = NoNode, !.callbackExpirationTime = NoWork,
                   !.firstPendingTime = first, !.lastPendingTime = last]
           g == [Top EXCEPT !.at = "user"]
<1>4. /\ pending' = [pending EXCEPT ![r] = rest]
      /\ roots' = [roots EXCEPT
           ![r].finishedWork = Null, ![r].finishedExpirationTime = NoWork,
           ![r].callbackNode = NoNode, ![r].callbackExpirationTime = NoWork,
           ![r].firstPendingTime = first,
           ![r].lastPendingTime = IF first < @ THEN first ELSE @]
      /\ wip' = IF wip.root = r THEN NoWip ELSE wip
      /\ tree # Null
      /\ hasUncaughtError' = (hasUncaughtError \/ tree.uncaught)
      /\ retries' = IF tree.suspended THEN retries \cup {r} ELSE retries
      /\ stack' = Goto("user")
  BY <1>0, <1>2, <1>3 DEF CommitMutates
<1>5. /\ roots \in [Root -> RootRecord] /\ roots[r] \in RootRecord
      /\ pending \in [Root -> SUBSET Update] /\ RecordOK(roots[r], pending[r])
      /\ rest \subseteq pending[r] /\ rest \subseteq Update
  BY <1>1, <1>3 DEF Base, Records
<1>6. /\ first \in Time
      /\ \A u \in rest : u.time <= first
      /\ rest = {} <=> first = NoWork
  BY <1>5, MaxTimeIs
<1> HIDE DEF first
<1>7. /\ roots[r].lastPendingTime \in Time /\ last \in Time
      /\ \A u \in rest : roots[r].lastPendingTime \in 1 .. u.time /\ u.time \in 1 .. Sync
  BY <1>5, <1>6, RecordFields DEF RecordOK, Update
<1>8. \A u \in rest : last \in 1 .. u.time
  BY <1>6, <1>7 DEF Time
<1>9. rest = {} => last = NoWork
  BY <1>6, <1>7 DEF Time, NoWork
<1> HIDE DEF last
<1>10. roots' = [roots EXCEPT ![r] = x]
  BY <1>4 DEF last
<1>11. /\ x \in RootRecord
       /\ x.finishedWork = Null /\ x.finishedExpirationTime = NoWork
       /\ x.callbackNode = NoNode /\ x.callbackExpirationTime = NoWork
       /\ x.firstPendingTime = first /\ x.lastPendingTime = last
  <2>1. NoNode \in Node /\ NoWork \in Time /\ Null \in Tree \cup {Null}
    BY NodeConstants, RootAssumption DEF NoWork, Time
  <2> QED  BY <1>5, <1>6, <1>7, <2>1 DEF RootRecord
<1> HIDE DEF x
<1>12. RecordOK(x, rest)
  <2>1. NoWork <= first
    BY <1>6 DEF NoWork, Time
  <2> QED  BY <1>8, <1>9, <1>11, <2>1 DEF RecordOK, first
<1>13. /\ OnlyAt(r, roots') /\ roots'[r] = x
       /\ pending' \in [Root -> SUBSET Update]
       /\ pending'[r] = rest /\ \A q \in Root : q # r => pending'[q] = pending[q]
  <2>1. OnlyAt(r, roots') /\ roots'[r] = x
    BY <1>1, <1>5, <1>10, <1>11 DEF OnlyAt
  <2>2. pending' = [pending EXCEPT ![r] = rest]
    BY <1>4
  <2>3. /\ pending' \in [Root -> SUBSET Update]
        /\ pending'[r] = rest /\ \A q \in Root : q # r => pending'[q] = pending[q]
    BY <1>1, <1>5, <2>2
  <2> QED  BY <2>1, <2>3
<1>14. Records'
  <2>1. ASSUME NEW q \in Root
        PROVE  RecordOK(roots'[q], pending'[q])
    BY <1>12, <1>13 DEF OnlyAt, Base, Records
  <2> QED  BY <1>13, <2>1 DEF Records, OnlyAt
<1>15. TasksOK'
  <2>1. \A q \in Root : roots'[q].callbackNode \in {NoNode, roots[q].callbackNode}
    BY <1>11, <1>13 DEF OnlyAt
  <2>2. TasksOK /\ tasks' = tasks
    BY DEF Base, CommitMutates
  <2>3. ASSUME NEW task \in tasks, NEW q \in Root, task.handle = roots'[q].callbackNode
        PROVE  task.handle = roots[q].callbackNode
    BY <2>1, <2>2, <2>3, NodeConstants DEF TasksOK
  <2> QED  BY <2>2, <2>3 DEF TasksOK
<1>16. QueueOK'
  BY DEF CommitMutates, Base, QueueOK
<1>17. Scalars'
  <2>1. tree \in Tree
    BY <1>2, <1>4, <1>5, RecordFields
  <2>2. hasUncaughtError' \in BOOLEAN /\ retries' \subseteq Root
    BY <1>1, <1>4, <2>1 DEF Tree, Base, Scalars
  <2> QED  BY <2>2 DEF CommitMutates, Base, Scalars
<1>18. Pushes(g, Below) /\ g.fn = "commitRoot"
  <2>1. Goto("user") = Push(g, Below) /\ MayPush(g, Below) /\ g.fn = "commitRoot"
    BY <1>1, GotoStep DEF Base
  <2> HIDE DEF g
  <2> QED  BY <1>1, <1>4, <2>1, TopFrame, PushStep DEF Base
<1>19. WipOK'
  <2>1. ~At("renderRoot", "user")'
    BY <1>18 DEF Pushes, At
  <2>2. CASE wip.root = r
    BY <1>4, <2>1, <2>2, RootAssumption DEF WipOK, NoWip, Time, NoWork
  <2>3. CASE wip.root # r
    <3>1. wip' = wip
      BY <1>4, <2>3
    <3>2. wip.root # Null => wip.root \in Root
      BY DEF Base, WipOK
    <3> QED  BY <1>13, <2>1, <2>3, <3>1, <3>2, WipKept DEF Base, Quiet, OnlyAt
  <2> QED  BY <2>2, <2>3
<1>20. Base'
  BY <1>14, <1>15, <1>16, <1>17, <1>18, <1>19 DEF Base, Pushes
<1> QED  BY <1>0, <1>1, <1>5, <1>11, <1>13, <1>18, <1>20 DEF g

LEMMA CommitFinishesStep ==
  ASSUME Base, CommitFinishes
  PROVE  LET r == Top.root
             t == roots[Top.root].firstPendingTime
         IN  /\ Base' /\ r \in Root /\ Remembered(r)
             /\ OnlyAt(r, roots') /\ SameButCallback(roots'[r], roots[r])
             /\ t = NoWork => UNCHANGED <<roots, tasks, syncQueue>>
             /\ t # NoWork => CallbackAdded(r, t)
             /\ \/ Pushes([Top EXCEPT !.at = "throw"], Below) /\ passiveRoot' = passiveRoot
                \/ Flushes(Push([Top EXCEPT !.at = "last"], Below))
<1>0. PICK r, t : r = Top.root /\ t = roots[Top.root].firstPendingTime
  OBVIOUS
<1>1. stack # <<>> /\ Top.fn = "commitRoot" /\ r \in Root
  BY <1>0, TopAt DEF CommitFinishes, Position, Handlers
<1>2. /\ roots \in [Root -> RootRecord] /\ pending' = pending
      /\ RecordOK(roots[r], pending[r]) /\ t \in Time
  BY <1>0, <1>1, RecordFields DEF Base, Records, CommitFinishes, updateVars
<1>3. /\ t = NoWork => UNCHANGED <<roots, tasks, syncQueue, currentEventTime>>
      /\ t # NoWork => /\ ScheduleCallbackForRoot(roots, r, t)
                       /\ currentEventTime' = IF currentEventTime = NoWork THEN clock
                                              ELSE currentEventTime
      /\ passiveRoot' \in {passiveRoot, r} /\ (hasUncaughtError => passiveRoot' = passiveRoot)
      /\ Remembered(r)
  BY <1>0 DEF CommitFinishes
<1>4. /\ OnlyAt(r, roots') /\ RecordOK(roots'[r], pending[r])
      /\ SameButCallback(roots'[r], roots[r])
      /\ TasksOK' /\ QueueOK'
      /\ t # NoWork => CallbackAdded(r, t)
  <2>1. CASE t = NoWork
    BY <1>2, <1>3, <2>1 DEF OnlyAt, SameButCallback, Base, TasksOK, QueueOK
  <2>2. CASE t # NoWork
    <3>1. t \in 1 .. Sync /\ t <= roots[r].firstPendingTime /\ OnlyAt(r, roots)
      BY <1>0, <1>2, <2>2 DEF Time, NoWork, OnlyAt
    <3>2. ScheduleCallbackForRoot(roots, r, t)
      BY <1>3, <2>2
    <3>3. /\ OnlyAt(r, roots') /\ RecordOK(roots'[r], pending[r])
          /\ SameButCallback(roots'[r], roots[r])
          /\ TasksOK' /\ QueueOK'
      BY <1>1, <1>2, <3>1, <3>2, CallbackScheduled DEF Base
    <3>4. CallbackAdded(r, t)
      <4>1. /\ \A task \in tasks : task.callback.root # r => task \in tasks'
            /\ \A task \in tasks' : task \in tasks \/ task.callback = RenderOf(r, t, TRUE)
            /\ ToSet(syncQueue) \subseteq ToSet(syncQueue')
            /\ \/ /\ roots[r].callbackExpirationTime >= t
                  /\ roots' = roots /\ tasks' = tasks /\ syncQueue' = syncQueue
               \/ Anew(r, t)
        BY <1>1, <1>2, <3>1, <3>2, CallbackScheduled DEF Base
      <4> QED  BY <4>1 DEF CallbackAdded
    <3> QED  BY <3>3, <3>4
  <2> QED  BY <2>1, <2>2
<1>5. Records'
  <2>1. ASSUME NEW q \in Root
        PROVE  RecordOK(roots'[q], pending[q])
    BY <1>2, <1>4 DEF OnlyAt, Base, Records
  <2> QED  BY <1>2, <1>4, <2>1 DEF Records, OnlyAt, Base
<1>6. Scalars'
  <2>1. currentEventTime' \in Time
    <3>1. clock \in Time
      BY RootAssumption DEF Base, Scalars, Time
    <3> QED  BY <1>3, <3>1 DEF Base, Scalars
  <2>2. forgotten' \subseteq Root
    BY <1>1, <1>3, ForgottenRoots DEF Base, Scalars
  <2>3. passiveRoot' \in Root \cup {Null} /\ hasUncaughtError' = FALSE
    BY <1>1, <1>3 DEF CommitFinishes, Base, Scalars
  <2> QED  BY <2>1, <2>2, <2>3 DEF CommitFinishes, updateVars, thenableVars, Base, Scalars
<1>7. /\ StackOK(stack)' /\ ~At("renderRoot", "user")'
      /\ \/ Pushes([Top EXCEPT !.at = "throw"], Below) /\ passiveRoot' = passiveRoot
         \/ Flushes(Push([Top EXCEPT !.at = "last"], Below))
  <2>1. CASE hasUncaughtError
    <3> DEFINE g == [Top EXCEPT !.at = "throw"]
    <3>1. Goto("throw") = Push(g, Below) /\ MayPush(g, Below) /\ g.fn = "commitRoot"
      BY <1>1, GotoStep DEF Base
    <3>2. stack' = Goto("throw")
      BY <2>1 DEF CommitFinishes
    <3> HIDE DEF g
    <3>3. Pushes(g, Below)
      BY <1>1, <3>1, <3>2, TopFrame, PushStep DEF Base
    <3> QED  BY <1>3, <2>1, <3>1, <3>3 DEF Pushes, At, g
  <2>2. CASE ~hasUncaughtError
    <3> DEFINE g == [Top EXCEPT !.at = "last"]
    <3>1. /\ Goto("last") = Push(g, Below) /\ StackOK(Goto("last")) /\ Head(Goto("last")) = g
          /\ g.at = "last"
      BY <1>1, GotoStep DEF Base
    <3>2. Resumable(Goto("last")) /\ stack' = FlushSync(Goto("last"))
      BY <2>2, <3>1 DEF Resumable, Waiting, CommitFinishes
    <3> HIDE DEF g
    <3>3. Flushes(Push(g, Below))
      BY <3>1, <3>2, FlushStep
    <3>4. ~At("renderRoot", "user")'
      BY <3>3 DEF Flushes, At, Waiting, Handlers
    <3> QED  BY <3>3, <3>4 DEF g, Flushes
  <2> QED  BY <2>1, <2>2
<1>8. WipOK'
  <2>1. \A q \in Root : roots'[q].finishedWork = roots[q].finishedWork
    BY <1>4 DEF OnlyAt, SameButCallback
  <2>2. wip.root # Null => wip.root \in Root
    BY DEF Base, WipOK
  <2> QED  BY <1>2, <1>7, <2>1, <2>2, WipKept DEF Base, Quiet, CommitFinishes
<1>9. Base'
  BY <1>4, <1>5, <1>6, <1>7, <1>8 DEF Base
<1> QED  BY <1>0, <1>1, <1>3, <1>4, <1>7, <1>9

LEMMA CommitReturnsStep ==
  ASSUME Base, CommitReturns
  PROVE  /\ Base' /\ roots' = AfterFinally(roots, {Top}) /\ stack' = Below /\ tasks' = tasks
<1>1. stack # <<>>
  BY TopAt DEF CommitReturns
<1>2. roots \in [Root -> RootRecord] /\ pending' = pending /\ Return(Null, roots)
  BY DEF CommitReturns, updateVars, Base, Records
<1>3. /\ Records' /\ TasksOK' /\ StackOK(stack)' /\ ~At("renderRoot", "user")'
      /\ roots' = AfterFinally(roots, {Top}) /\ stack' = Below /\ tasks' = tasks
      /\ \A q \in Root : SameButCallback(roots'[q], roots[q])
  BY <1>1, <1>2, EndsStep
<1>4. QueueOK' /\ Scalars'
  <2>1. passiveTask' \in BOOLEAN
    BY DEF CommitReturns, SchedulePassive, Base, Scalars
  <2> QED  BY <2>1 DEF CommitReturns, updateVars, thenableVars, Base, QueueOK, Scalars
<1>5. WipOK'
  <2>1. wip.root # Null => wip.root \in Root
    BY DEF Base, WipOK
  <2> QED  BY <1>2, <1>3, <2>1, WipKept DEF CommitReturns, Base, Quiet, SameButCallback
<1> QED  BY <1>3, <1>4, <1>5 DEF Base

\* The handlers are what is left of a stack from the first of them on.
Rest(s, k) == SubSeq(s, k + 1, Len(s))

LEMMA StackDrop ==
  ASSUME NEW s, StackOK(s), NEW k \in 0 .. Len(s), NEW rest, rest = Rest(s, k),
         k < Len(s) => s[k + 1].fn \in Handlers
  PROVE  /\ StackOK(rest) /\ OnlyHandlers(rest) /\ ToSet(rest) \subseteq ToSet(s)
         /\ \A f \in ToSet(s) : f \in {s[i] : i \in 1 .. k} \cup ToSet(rest)
<1>1. s \in Seq(FrameType) /\ Len(s) \in Nat
  BY LenProperties DEF StackOK
<1>2. \A i \in 1 .. Len(s) : s[i] \in FrameType /\ s[i] \in ToSet(s)
  BY <1>1, Elements
<1>3. /\ rest \in Seq(FrameType) /\ Len(rest) = Len(s) - k
      /\ \A i \in 1 .. Len(rest) : rest[i] = s[k + i]
  <2>1. \A i \in k + 1 .. Len(s) : s[i] \in FrameType
    BY <1>1, <1>2
  <2>2. k + 1 \in Int /\ Len(s) \in Int
    BY <1>1
  <2>3. /\ rest \in Seq(FrameType)
        /\ Len(rest) = IF k + 1 <= Len(s) THEN Len(s) - (k + 1) + 1 ELSE 0
        /\ \A i \in 1 .. Len(s) - (k + 1) + 1 : rest[i] = s[k + 1 + i - 1]
    BY <2>1, <2>2, SubSeqProperties DEF Rest
  <2>4. Len(rest) = Len(s) - k /\ Len(s) - (k + 1) + 1 = Len(s) - k
    BY <1>1, <2>3
  <2>5. ASSUME NEW i \in 1 .. Len(rest)
        PROVE  rest[i] = s[k + i]
    <3>1. i \in 1 .. Len(s) - (k + 1) + 1
      BY <2>4, Zenon
    <3>2. k + 1 + i - 1 = k + i
      BY <1>1
    <3> QED  BY <2>3, <3>1, <3>2
  <2> QED  BY <2>3, <2>4, <2>5
<1>4. ASSUME NEW i \in 1 .. Len(rest)
      PROVE  k + i \in 1 .. Len(s) /\ rest[i] = s[k + i] /\ rest[i].fn \in Handlers
  <2>1. k + 1 \in 1 .. Len(s) /\ k + i \in 1 .. Len(s) /\ k + 1 <= k + i /\ k < Len(s)
    BY <1>1, <1>3
  <2> QED  BY <1>3, <2>1 DEF StackOK
<1>5. OnlyHandlers(rest)
  <2> SUFFICES ASSUME NEW f \in ToSet(rest)
               PROVE  f.fn \in Handlers
    BY DEF OnlyHandlers
  <2>1. rest \in Seq(FrameType)
    BY <1>3
  <2>2. PICK i \in 1 .. Len(rest) : f = rest[i]
    BY <2>1, Elements
  <2> QED  BY <1>4, <2>2
<1>6. StackOK(rest)
  <2>0. Len(rest) \in Nat
    BY <1>1, <1>3
  <2>1. ASSUME NEW i \in 2 .. Len(rest)
        PROVE  Waiting(rest[i])
    <3>1. i \in 1 .. Len(rest)
      BY <2>0
    <3> QED  BY <1>4, <3>1 DEF Waiting
  <2>2. \A i \in 1 .. Len(rest) : rest[i].fn # "renderRoot"
    BY <1>4 DEF Handlers
  <2> QED  BY <1>3, <1>4, <2>1, <2>2 DEF StackOK
<1>7. ToSet(rest) \subseteq ToSet(s)
  <2> SUFFICES ASSUME NEW f \in ToSet(rest)
               PROVE  f \in ToSet(s)
    OBVIOUS
  <2>1. PICK i \in 1 .. Len(rest) : f = rest[i]
    BY <1>3, Elements
  <2> QED  BY <1>2, <1>4, <2>1
<1>8. ASSUME NEW f \in ToSet(s)
      PROVE  f \in {s[i] : i \in 1 .. k} \cup ToSet(rest)
  <2>1. PICK i \in 1 .. Len(s) : f = s[i]
    BY <1>1, Elements
  <2>2. CASE i <= k
    <3>1. i \in 1 .. k
      BY <2>2
    <3> QED  BY <2>1, <3>1
  <2>3. CASE ~(i <= k)
    <3>1. i - k \in 1 .. Len(rest) /\ k + (i - k) = i
      BY <1>1, <1>3, <2>3
    <3>2. f = rest[i - k] /\ rest \in Seq(FrameType)
      BY <1>3, <2>1, <3>1
    <3>3. rest[i - k] \in ToSet(rest)
      BY <3>1, <3>2, Elements
    <3> QED  BY <3>2, <3>3
  <2> QED  BY <2>2, <2>3
<1> QED  BY <1>5, <1>6, <1>7, <1>8

\* The calls in done have been unwound.
Unwinds(done) ==
  /\ roots' = AfterFinally(roots, done)
  /\ forgotten' = forgotten \cup {f.root : f \in {g \in done : g.at \in {"prepare", "mutate"}}}
  /\ OnlyHandlers(stack') /\ ToSet(stack') \subseteq ToSet(stack)
  /\ done \subseteq ToSet(stack)
  /\ \A f \in ToSet(stack) : f \in done \cup ToSet(stack')

LEMMA ErrorUnwindsStep ==
  ASSUME Base, ErrorUnwinds
  PROVE  Base' /\ \E done : Unwinds(done)
<1> DEFINE catchers == {i \in 1 .. Len(stack) : stack[i].fn \in Handlers}
<1>0. PICK unwound : unwound = 1 .. IF catchers = {} THEN Len(stack) ELSE Min(catchers) - 1
  OBVIOUS
<1>1. /\ roots' = AfterFinally(roots, {stack[i] : i \in unwound})
      /\ stack' = SubSeq(stack, Cardinality(unwound) + 1, Len(stack))
      /\ forgotten' = forgotten \cup
           {stack[i].root : i \in {j \in unwound : stack[j].at \in {"prepare", "mutate"}}}
  BY <1>0 DEF ErrorUnwinds
<1>2. StackOK(stack) /\ stack \in Seq(FrameType) /\ Len(stack) \in Nat
  BY LenProperties DEF Base, StackOK
<1>3. PICK k \in 0 .. Len(stack) :
        unwound = 1 .. k /\ (k < Len(stack) => stack[k + 1].fn \in Handlers)
  <2>1. CASE catchers = {}
    BY <1>0, <1>2, <2>1
  <2>2. CASE catchers # {}
    <3>1. catchers \subseteq Nat
      OBVIOUS
    <3>2. PICK m \in catchers : \A i \in catchers : m <= i
      BY <2>2, <3>1, LeastOf
    <3>3. Min(catchers) \in catchers
      <4> HIDE DEF catchers
      <4> QED  BY <3>2, Zenon DEF Min
    <3>4. Min(catchers) - 1 \in 0 .. Len(stack) /\ (Min(catchers) - 1) + 1 = Min(catchers)
      BY <1>2, <3>3
    <3>5. stack[Min(catchers)].fn \in Handlers
      BY <3>3
    <3> HIDE DEF catchers
    <3> QED  BY <1>0, <2>2, <3>4, <3>5
  <2> QED  BY <2>1, <2>2
<1>4. Cardinality(unwound) = k
  BY <1>3, FS_Interval
<1> DEFINE done == {stack[i] : i \in 1 .. k}
<1>5. /\ StackOK(stack') /\ OnlyHandlers(stack') /\ ToSet(stack') \subseteq ToSet(stack)
      /\ \A f \in ToSet(stack) : f \in done \cup ToSet(stack')
  <2>1. stack' = Rest(stack, k)
    BY <1>1, <1>4 DEF Rest
  <2> QED  BY <1>2, <1>3, <2>1, StackDrop
<1>6. done \subseteq ToSet(stack)
  <2>1. \A i \in 1 .. Len(stack) : stack[i] \in ToSet(stack)
    BY <1>2, Elements
  <2>2. \A i \in 1 .. k : i \in 1 .. Len(stack)
    BY <1>2
  <2> QED  BY <2>1, <2>2
<1>7. /\ roots' = AfterFinally(roots, done)
      /\ forgotten' = forgotten \cup {f.root : f \in {g \in done : g.at \in {"prepare", "mutate"}}}
  <2>1. {stack[i].root : i \in {j \in unwound : stack[j].at \in {"prepare", "mutate"}}}
           = {f.root : f \in {g \in done : g.at \in {"prepare", "mutate"}}}
    BY <1>3
  <2> QED  BY <1>1, <1>3, <2>1
<1>8. Unwinds(done)
  BY <1>5, <1>6, <1>7 DEF Unwinds
<1> HIDE DEF done
<1>9. roots \in [Root -> RootRecord] /\ pending' = pending /\ TasksOK /\ tasks' = tasks
  BY DEF Base, Records, ErrorUnwinds, updateVars
<1>10. /\ roots' \in [Root -> RootRecord]
       /\ \A q \in Root :
            /\ SameButCallback(roots'[q], roots[q])
            /\ \A us : RecordOK(roots[q], us) => RecordOK(roots'[q], us)
            /\ roots'[q].callbackNode \in {NoNode, roots[q].callbackNode}
  BY <1>7, <1>9, FinallyClears
<1>11. Records'
  BY <1>9, <1>10, RecordsKept DEF Base
<1>12. TasksOK'
  <2>1. ASSUME NEW task \in tasks, NEW q \in Root, task.handle = roots'[q].callbackNode
        PROVE  task.handle = roots[q].callbackNode
    BY <1>9, <1>10, <2>1, NodeConstants DEF TasksOK
  <2> QED  BY <1>9, <2>1 DEF TasksOK
<1>13. Scalars'
  <2>1. forgotten' \subseteq Root
    <3>1. \A f \in done : f.at \in {"prepare", "mutate"} => f.root \in Root
      <4>1. \A f \in done : f \in FrameType
        BY <1>2, <1>6, Elements
      <4> QED  BY <4>1 DEF FrameType, Position, Handlers
    <3> QED  BY <1>7, <3>1 DEF Base, Scalars
  <2> QED  BY <2>1 DEF ErrorUnwinds, updateVars, thenableVars, Base, Scalars
<1>14. ~At("renderRoot", "user")'
  <2>1. ASSUME stack' # <<>>
        PROVE  Top'.fn \in Handlers
    <3>1. Head(stack') \in ToSet(stack')
      BY <1>5, <2>1, Popped DEF StackOK
    <3> QED  BY <1>5, <3>1 DEF OnlyHandlers, Top
  <2> QED  BY <2>1 DEF At, Handlers
<1>15. WipOK'
  <2>1. wip.root # Null => wip.root \in Root
    BY DEF Base, WipOK
  <2> QED  BY <1>9, <1>10, <1>14, <2>1, WipKept DEF ErrorUnwinds, Base, Quiet, SameButCallback
<1>16. QueueOK'
  BY DEF ErrorUnwinds, Base, QueueOK
<1>17. Base'
  BY <1>5, <1>11, <1>12, <1>13, <1>15, <1>16 DEF Base
<1> QED  BY <1>8, <1>17

\* What a ping of r at time t does to its record.
Pinged(r, t) ==
  /\ roots'[r].firstPendingTime = roots[r].firstPendingTime
  /\ roots'[r].timer = roots[r].timer
  /\ t <= roots[r].firstPendingTime
  /\ CallbackAdded(r, t)
  /\ \/ roots'[r].finishedWork = roots[r].finishedWork /\ Remembered(r)
     \/ /\ roots'[r].finishedWork = Null
        /\ \/ forgotten' = forgotten \cup {r}
           \/ Remembered(r) /\ \A task \in tasks : task.callback # CommitOf(r, TRUE)

\* The roots before the ping asks for a callback, its tree withdrawn or not.
PingedRoots(r, t, withdrawn) ==
  IF withdrawn
  THEN [[roots EXCEPT ![r].pingTime = t] EXCEPT
          ![r].finishedExpirationTime = NoWork, ![r].finishedWork = Null]
  ELSE [roots EXCEPT ![r].pingTime = t]

LEMMA PingedRecord ==
  ASSUME NEW r \in Root, NEW t \in 1 .. Sync, NEW withdrawn \in BOOLEAN, Records, NEW rs,
         rs = PingedRoots(r, t, withdrawn)
  PROVE  /\ OnlyAt(r, rs)
         /\ RecordOK(rs[r], pending[r])
         /\ rs[r].callbackNode = roots[r].callbackNode
         /\ rs[r].callbackExpirationTime = roots[r].callbackExpirationTime
         /\ rs[r].firstPendingTime = roots[r].firstPendingTime
         /\ rs[r].timer = roots[r].timer
         /\ rs[r].finishedWork = IF withdrawn THEN Null ELSE roots[r].finishedWork
<1> DEFINE pinged == [roots[r] EXCEPT !.pingTime = t]
           dropped == [pinged EXCEPT !.finishedExpirationTime = NoWork, !.finishedWork = Null]
           x == IF withdrawn THEN dropped ELSE pinged
<1>1. /\ roots \in [Root -> RootRecord] /\ roots[r] \in RootRecord
      /\ RecordOK(roots[r], pending[r]) /\ t \in Time /\ NoWork \in Time
  BY RootAssumption DEF Records, Time, NoWork
<1>2. rs = [roots EXCEPT ![r] = x]
  <2>1. CASE withdrawn
    BY <1>1, <2>1 DEF PingedRoots
  <2>2. CASE ~withdrawn
    BY <1>1, <2>2 DEF PingedRoots
  <2> QED  BY <2>1, <2>2
<1>3. /\ pinged \in RootRecord
      /\ pinged.callbackNode = roots[r].callbackNode
      /\ pinged.callbackExpirationTime = roots[r].callbackExpirationTime
      /\ pinged.firstPendingTime = roots[r].firstPendingTime
      /\ pinged.lastPendingTime = roots[r].lastPendingTime
      /\ pinged.timer = roots[r].timer
      /\ pinged.finishedWork = roots[r].finishedWork
      /\ pinged.finishedExpirationTime = roots[r].finishedExpirationTime
  BY <1>1 DEF RootRecord
<1> HIDE DEF pinged
<1>4. /\ dropped \in RootRecord
      /\ dropped.callbackNode = pinged.callbackNode
      /\ dropped.callbackExpirationTime = pinged.callbackExpirationTime
      /\ dropped.firstPendingTime = pinged.firstPendingTime
      /\ dropped.lastPendingTime = pinged.lastPendingTime
      /\ dropped.timer = pinged.timer
      /\ dropped.finishedWork = Null
      /\ dropped.finishedExpirationTime = NoWork
  BY <1>1, <1>3 DEF RootRecord
<1> HIDE DEF dropped
<1>5. /\ x \in RootRecord
      /\ x.callbackNode = roots[r].callbackNode
      /\ x.callbackExpirationTime = roots[r].callbackExpirationTime
      /\ x.firstPendingTime = roots[r].firstPendingTime
      /\ x.lastPendingTime = roots[r].lastPendingTime
      /\ x.timer = roots[r].timer
      /\ x.finishedWork = IF withdrawn THEN Null ELSE roots[r].finishedWork
      /\ x.finishedExpirationTime = IF withdrawn THEN NoWork ELSE roots[r].finishedExpirationTime
  BY <1>3, <1>4
<1> HIDE DEF x
<1>6. rs[r] = x /\ OnlyAt(r, rs)
  BY <1>1, <1>2, <1>5 DEF OnlyAt
<1>7. RecordOK(x, pending[r])
  BY <1>1, <1>5 DEF RecordOK
<1> QED  BY <1>5, <1>6, <1>7

LEMMA PingStep ==
  ASSUME Base, NEW r \in Root, NEW t \in Time, PingSuspendedRoot(r, t)
  PROVE  /\ Base' /\ stack = <<>> /\ stack' = stack /\ OnlyAt(r, roots')
         /\ \/ /\ roots[r].finishedWork = Null /\ roots'[r].finishedWork = Null
               /\ roots'[r].firstPendingTime = roots[r].firstPendingTime
               /\ roots'[r].callbackNode = roots[r].callbackNode
               /\ UNCHANGED <<tasks, syncQueue, forgotten>>
            \/ UNCHANGED <<roots, tasks, syncQueue, forgotten>>
            \/ Pinged(r, t)
<1> DEFINE working    == wip.root = r /\ wip.time = t
           ignored    == roots[r].lastPendingTime < t \/ roots[r].pingTime \in 1 .. t - 1
           thrownAway == roots[r].finishedExpirationTime = t
           pinged     == [roots EXCEPT ![r].pingTime = t]
           rs == IF thrownAway
                 THEN [pinged EXCEPT ![r].finishedExpirationTime = NoWork,
                                     ![r].finishedWork = Null]
                 ELSE pinged
<1>1. /\ stack = <<>> /\ stack' = stack /\ pending' = pending /\ t \in 1 .. Sync
      /\ Records /\ roots \in [Root -> RootRecord]
      /\ \/ /\ working
            /\ wip' = FreshStack(r, t)
            /\ roots' = Discarded(roots, r)
            /\ UNCHANGED <<tasks, syncQueue, currentEventTime, forgotten>>
         \/ /\ ~working /\ ignored
            /\ UNCHANGED <<wip, roots, tasks, syncQueue, currentEventTime, forgotten>>
         \/ /\ ~working /\ ~ignored
            /\ ScheduleCallbackForRoot(rs, r, t)
            /\ RequestCurrentTime
            /\ IF thrownAway /\ \E task \in tasks : task.callback = CommitOf(r, TRUE)
               THEN forgotten' = forgotten \cup {r} ELSE Remembered(r)
            /\ UNCHANGED wip
  <2>1. t \in 1 .. Sync
    BY DEF PingSuspendedRoot, Base, Scalars
  <2> QED  BY <2>1 DEF PingSuspendedRoot, Base, Records, updateVars
<1>2. StackOK(stack)' /\ ~At("renderRoot", "user")'
  BY <1>1, EmptyOK DEF At
<1>3. ASSUME currentEventTime' \in Time, forgotten' \subseteq Root
      PROVE  Scalars'
  BY <1>3 DEF PingSuspendedRoot, updateVars, Base, Scalars
<1> DEFINE Good == /\ Base' /\ OnlyAt(r, roots')
                   /\ \/ /\ roots[r].finishedWork = Null /\ roots'[r].finishedWork = Null
                         /\ roots'[r].firstPendingTime = roots[r].firstPendingTime
                         /\ roots'[r].callbackNode = roots[r].callbackNode
                         /\ UNCHANGED <<tasks, syncQueue, forgotten>>
                      \/ UNCHANGED <<roots, tasks, syncQueue, forgotten>>
                      \/ Pinged(r, t)
<1> SUFFICES Good
  BY <1>1
<1>4. CASE /\ working
           /\ wip' = FreshStack(r, t)
           /\ roots' = Discarded(roots, r)
           /\ UNCHANGED <<tasks, syncQueue, currentEventTime, forgotten>>
  <2>0. PICK ds : ds = Discarded(roots, r)
    OBVIOUS
  <2>1. /\ ds \in [Root -> RootRecord]
        /\ \A q \in Root : q # r => ds[q] = roots[q]
        /\ \A us : RecordOK(roots[r], us) => RecordOK(ds[r], us)
        /\ ds[r].finishedWork = Null
        /\ ds[r].firstPendingTime = roots[r].firstPendingTime
        /\ ds[r].callbackNode = roots[r].callbackNode
    BY <1>1, <2>0, DiscardedTree
  <2>2. OnlyAt(r, ds) /\ Sound(ds)
    <3>1. OnlyAt(r, ds)
      BY <2>1 DEF OnlyAt
    <3> QED  BY <1>1, <2>1, <3>1, SoundAt
  <2>3. roots' = ds /\ tasks' = tasks
    BY <1>4, <2>0
  <2>4. Records' /\ TasksOK' /\ QueueOK' /\ Scalars'
    <3>1. Records'
      BY <1>1, <2>2, <2>3, RecordsKept DEF Sound
    <3>2. TasksOK' /\ QueueOK'
      BY <1>4, <2>2, <2>3 DEF Sound, Base, TasksOK, QueueOK
    <3> QED  BY <1>3, <1>4, <3>1, <3>2 DEF Base, Scalars
  <2>5. WipOK'
    <3>1. /\ wip' \in [root : Root \cup {Null}, time : Time, updates : SUBSET Update]
          /\ wip'.root = r /\ wip'.time = t /\ wip'.updates = Covered(r, t)
      BY <1>1, <1>4, FreshIsOK
    <3>2. Covered(r, t)' = Covered(r, t)
      BY <1>1 DEF Covered
    <3> QED  BY <1>1, <1>2, <2>1, <2>3, <3>1, <3>2 DEF WipOK, NoWork
  <2>6. roots[r].finishedWork = Null
    BY <1>4, RootAssumption DEF Base, WipOK
  <2>7. Base'
    BY <1>2, <2>4, <2>5 DEF Base
  <2> QED  BY <1>4, <2>1, <2>2, <2>3, <2>6, <2>7
<1>5. CASE /\ ~working /\ ignored
           /\ UNCHANGED <<wip, roots, tasks, syncQueue, currentEventTime, forgotten>>
  <2>1. Scalars'
    BY <1>3, <1>5 DEF Base, Scalars
  <2>2. Base'
    BY <1>1, <1>2, <1>5, <2>1, BaseQuiet DEF Quiet, Base, QueueOK
  <2> QED  BY <1>1, <1>5, <2>2 DEF OnlyAt
<1>6. CASE /\ ~working /\ ~ignored
           /\ ScheduleCallbackForRoot(rs, r, t)
           /\ RequestCurrentTime
           /\ IF thrownAway /\ \E task \in tasks : task.callback = CommitOf(r, TRUE)
              THEN forgotten' = forgotten \cup {r} ELSE Remembered(r)
           /\ UNCHANGED wip
  <2>01. PICK withdrawn \in BOOLEAN : withdrawn <=> thrownAway
    <3>1. CASE thrownAway
      BY <3>1
    <3>2. CASE ~thrownAway
      BY <3>2
    <3> QED  BY <3>1, <3>2
  <2>02. PICK ps : ps = PingedRoots(r, t, withdrawn)
    OBVIOUS
  <2>0. ps = rs
    BY <2>01, <2>02 DEF PingedRoots
  <2>1. /\ ScheduleCallbackForRoot(ps, r, t)
        /\ RequestCurrentTime /\ wip' = wip
        /\ IF withdrawn /\ \E task \in tasks : task.callback = CommitOf(r, TRUE)
           THEN forgotten' = forgotten \cup {r} ELSE Remembered(r)
    BY <1>6, <2>0, <2>01
  <2>2. /\ OnlyAt(r, ps)
        /\ RecordOK(ps[r], pending[r])
        /\ ps[r].callbackNode = roots[r].callbackNode
        /\ ps[r].callbackExpirationTime = roots[r].callbackExpirationTime
        /\ ps[r].firstPendingTime = roots[r].firstPendingTime
        /\ ps[r].timer = roots[r].timer
        /\ ps[r].finishedWork = IF withdrawn THEN Null ELSE roots[r].finishedWork
    BY <1>1, <2>02, PingedRecord
  <2>3. t <= ps[r].firstPendingTime
    <3>1. /\ roots[r].lastPendingTime >= t /\ roots[r].lastPendingTime \in Time
          /\ RecordOK(roots[r], pending[r]) /\ pending[r] \subseteq Update
      BY <1>1, <1>6, RecordFields DEF Records, Time
    <3>2. PICK u \in pending[r] : TRUE
      BY <1>1, <3>1 DEF RecordOK, NoWork
    <3>3. /\ roots[r].lastPendingTime \in 1 .. u.time /\ u.time \in 1 .. Sync
          /\ u.time <= MaxTime(pending[r]) /\ MaxTime(pending[r]) \in Time
          /\ roots[r].firstPendingTime = MaxTime(pending[r])
      BY <3>1, <3>2, MaxTimeIs DEF RecordOK, Update
    <3> QED  BY <1>1, <2>2, <3>1, <3>3 DEF Time
  <2>4. /\ OnlyAt(r, roots') /\ RecordOK(roots'[r], pending[r])
        /\ SameButCallback(roots'[r], ps[r])
        /\ TasksOK' /\ QueueOK'
    BY <1>1, <2>1, <2>2, <2>3, CallbackScheduled DEF Base
  <2>5. CallbackAdded(r, t)
    <3>1. /\ \A task \in tasks : task.callback.root # r => task \in tasks'
          /\ \A task \in tasks' : task \in tasks \/ task.callback = RenderOf(r, t, TRUE)
          /\ ToSet(syncQueue) \subseteq ToSet(syncQueue')
          /\ \/ /\ ps[r].callbackExpirationTime >= t
                /\ roots' = ps /\ tasks' = tasks /\ syncQueue' = syncQueue
             \/ Anew(r, t)
      BY <1>1, <2>1, <2>2, <2>3, CallbackScheduled DEF Base
    <3> QED  BY <2>2, <3>1 DEF CallbackAdded
  <2>6. Records'
    <3>1. ASSUME NEW q \in Root
          PROVE  RecordOK(roots'[q], pending[q])
      BY <1>1, <2>4 DEF OnlyAt, Records
    <3> QED  BY <1>1, <2>4, <3>1 DEF Records, OnlyAt
  <2>7. Scalars'
    <3>1. forgotten' \subseteq Root
      BY <2>1, ForgottenRoots DEF Base, Scalars
    <3>2. currentEventTime' \in Time
      BY <2>1, RequestedTime DEF Base
    <3> QED  BY <1>3, <3>1, <3>2
  <2>8. WipOK'
    <3>1. \A q \in Root : roots[q].finishedWork = Null => roots'[q].finishedWork = Null
      BY <2>2, <2>4 DEF OnlyAt, SameButCallback
    <3> QED  BY <1>1, <1>2, <2>1, <3>1 DEF Base, WipOK, Covered
  <2>9. Base'
    BY <1>2, <2>4, <2>6, <2>7, <2>8 DEF Base
  <2>10. Pinged(r, t)
    BY <2>1, <2>2, <2>3, <2>4, <2>5 DEF Pinged, SameButCallback
  <2> QED  BY <2>4, <2>9, <2>10
<1> HIDE DEF Good, working, ignored, thrownAway, rs
<1> QED  BY <1>1, <1>4, <1>5, <1>6
-----------------------------------------------------------------------------
(* Base is an invariant.                                                   *)

LEMMA InitBase ==
  ASSUME Init
  PROVE  Base
<1> DEFINE x == [firstPendingTime |-> NoWork, lastPendingTime |-> NoWork,
                 callbackNode |-> NoNode, callbackExpirationTime |-> NoWork,
                 finishedWork |-> Null, finishedExpirationTime |-> NoWork,
                 timer |-> FALSE, pingTime |-> NoWork]
<1>1. NoWork \in Time /\ NoNode \in Node
  BY NodeConstants, RootAssumption DEF NoWork, Time
<1>2. Records
  <2>1. x \in RootRecord /\ RecordOK(x, {})
    <3>1. MaxTime({}) = NoWork
      BY MaxTimeIs
    <3> QED  BY <1>1, <3>1 DEF RootRecord, RecordOK, NoWork
  <2>2. roots = [r \in Root |-> x] /\ pending = [r \in Root |-> {}]
    BY DEF Init
  <2> HIDE DEF x
  <2> QED  BY <2>1, <2>2 DEF Records
<1>3. Scalars
  <2>1. Sync - 1 \in 1 .. Sync - 1 /\ 0 \in 0 .. MaxUpdate
    BY RootAssumption
  <2> QED  BY <1>1, <2>1 DEF Init, Scalars
<1>4. TasksOK /\ QueueOK /\ StackOK(stack)
  <2>1. <<>> \in Seq(Callback)
    BY EmptySeq
  <2> QED  BY <2>1, EmptyStack, EmptyOK DEF Init, TasksOK, QueueOK
<1>5. WipOK
  BY <1>1 DEF Init, WipOK, NoWip, At
<1> QED  BY <1>2, <1>3, <1>4, <1>5 DEF Base

LEMMA BaseStutters ==
  ASSUME Base, UNCHANGED vars
  PROVE  Base'
<1>1. Scalars' /\ QueueOK' /\ StackOK(stack)' /\ Quiet
  BY DEF vars, updateVars, thenableVars, Base, Scalars, QueueOK, Quiet
<1> QED  BY <1>1, BaseQuiet DEF vars, updateVars

LEMMA BaseStep ==
  ASSUME Base, [Next]_vars
  PROVE  Base'
<1>1. CASE \E r \in Root, level \in Level :
             ScheduleUpdate(r, level) \/ RetryTimedOutBoundary(r, level)
  BY <1>1, ScheduleUpdateStep, RetryStep
<1>2. CASE \E fn \in Handlers : EnterHandler(fn)
  BY <1>2, EnterHandlerStep
<1>3. CASE LeaveHandler
  BY <1>3, LeaveHandlerStep
<1>4. CASE FlushDiscreteUpdates
  BY <1>4, FlushDiscreteStep
<1>5. CASE FlushDiscreteEnds
  BY <1>5, FlushDiscreteEndsStep
<1>6. CASE \E task \in tasks : SchedulerRuns(task)
  BY <1>6, SchedulerRunsStep
<1>7. CASE SchedulerRunsPassive
  BY <1>7, SchedulerRunsPassiveStep
<1>8. CASE SchedulerFlushes
  BY <1>8, SchedulerFlushesStep
<1>9. CASE FlushNext
  BY <1>9, FlushNextStep
<1>10. CASE \E r \in Root : TimeoutFires(r)
  BY <1>10, TimeoutFiresStep
<1>11. CASE TimePasses
  BY <1>11, TimePassesStep
<1>12. CASE RenderNothing
  BY <1>12, RenderNothingStep
<1>13. CASE RenderFlushesPassive
  BY <1>13, RenderFlushesPassiveStep
<1>14. CASE RenderPrepares
  BY <1>14, RenderPreparesStep
<1>15. CASE RenderYields
  BY <1>15, RenderYieldsStep
<1>16. CASE \E status \in Status : RenderCompletes(status)
  BY <1>16, RenderCompletesStep
<1>17. CASE CommitFlushesPassive
  BY <1>17, CommitFlushesPassiveStep
<1>18. CASE CommitMutates
  BY <1>18, CommitMutatesStep
<1>19. CASE CommitNothing
  BY <1>19, CommitNothingStep
<1>20. CASE CommitFinishes
  BY <1>20, CommitFinishesStep
<1>21. CASE CommitReturns
  BY <1>21, CommitReturnsStep
<1>22. CASE EffectThrows
  BY <1>22, EffectThrowsStep
<1>23. CASE PassiveFinishes
  BY <1>23, PassiveFinishesStep
<1>24. CASE PassiveReturns
  BY <1>24, PassiveReturnsStep
<1>25. CASE ErrorUnwinds
  BY <1>25, ErrorUnwindsStep
<1>26. CASE \E r \in Root, t \in Time : PingSuspendedRoot(r, t)
  BY <1>26, PingStep
<1>27. CASE UNCHANGED vars
  BY <1>27, BaseStutters
<1> QED
  BY <1>1, <1>2, <1>3, <1>4, <1>5, <1>6, <1>7, <1>8, <1>9, <1>10, <1>11, <1>12, <1>13, <1>14,
     <1>15, <1>16, <1>17, <1>18, <1>19, <1>20, <1>21, <1>22, <1>23, <1>24, <1>25, <1>26, <1>27
  DEF Next, Render, Commit

LEMMA BaseInvariant == Spec => []Base
<1>1. Init => Base
  BY InitBase
<1>2. Base /\ [Next]_vars => Base'
  BY BaseStep
<1> QED  BY <1>1, <1>2, PTL DEF Spec

(***************************************************************************)
(* What a root records of its work agrees with it, always and for every    *)
(* set of roots: a finished tree with the time of that tree, and the first *)
(* and the last pending time, kept in place of the updates by              *)
(* markUpdateTimeFromFiberToRoot and commitRootImpl, with the updates.     *)
(***************************************************************************)
THEOREM RootRecordsAgree == Spec => []RecordsAgree
<1>1. ASSUME Base
      PROVE  RecordsAgree
  <2>1. Records /\ Scalars
    BY <1>1 DEF Base
  <2>2. clock \in Time /\ currentEventTime \in Time
    BY <2>1, RootAssumption DEF Scalars, Time
  <2>3. ASSUME NEW r \in Root
        PROVE  /\ {roots[r].firstPendingTime, roots[r].lastPendingTime, roots[r].pingTime,
                   roots[r].callbackExpirationTime, roots[r].finishedExpirationTime}
                    \subseteq Time
               /\ roots[r].callbackNode \in Handle \cup {NoNode, FakeCallbackNode}
               /\ roots[r].finishedWork \in Tree \cup {Null}
               /\ (roots[r].finishedWork = Null) <=> (roots[r].finishedExpirationTime = NoWork)
               /\ roots[r].firstPendingTime = MaxTime(pending[r])
               /\ \A u \in pending[r] : roots[r].lastPendingTime \in 1 .. u.time
    <3>1. roots[r] \in RootRecord /\ RecordOK(roots[r], pending[r])
      BY <2>1 DEF Records
    <3> QED  BY <3>1, RecordFields DEF RecordOK, Node
  <2> QED  BY <2>1, <2>2, <2>3 DEF RecordsAgree, TypeOK, PendingTimesAgree, Records
<1> QED  BY <1>1, BaseInvariant, PTL
-----------------------------------------------------------------------------
(* Evidence: what is coming for a root goes on to come.                    *)

\* g is the call f, at another position perhaps.
SameCall(f, g) ==
  /\ g.fn = f.fn /\ g.root = f.root /\ g.time = f.time /\ g.isSync = f.isSync
  /\ g.wrapped = f.wrapped /\ g.prevCallbackNode = f.prevCallbackNode

\* A commit of q that has retired updates and is to schedule what remains.
Schedules(f, q) == f.fn = "commitRoot" /\ f.at = "user" /\ f.root = q

FramesKept(q) ==
  /\ \A f \in ToSet(stack) : Works(f, q) =>
       \E g \in ToSet(stack') : SameCall(f, g) /\ CanWork(g)
  /\ \A g \in ToSet(stack') : Starting(g, q) =>
       \/ g.prevCallbackNode = roots[q].callbackNode
       \/ \E f \in ToSet(stack) : Starting(f, q) /\ SameCall(f, g)

RecordKept(q) ==
  /\ roots'[q].callbackNode \in {NoNode, roots[q].callbackNode}
  /\ roots'[q].firstPendingTime >= roots[q].firstPendingTime
  /\ roots[q].finishedWork # Null =>
       roots'[q].finishedWork # Null /\ (roots[q].timer => roots'[q].timer)

CallbacksKept(q) ==
  /\ \A task \in tasks : Renders(task.callback, q) => task \in tasks'
  /\ \A c \in ToSet(syncQueue) : Renders(c, q) => c \in ToSet(syncQueue')

Keeps(q) == RecordKept(q) /\ CallbacksKept(q) /\ FramesKept(q)

LEMMA RendersKept ==
  ASSUME Base, Base', NEW q \in Root, RecordKept(q), NEW c, c.time \in Time, Renders(c, q)
  PROVE  Renders(c, q)'
<1>1. roots[q].firstPendingTime \in Time /\ roots'[q].firstPendingTime \in Time
  BY RecordFields DEF Base, Records
<1> QED  BY <1>1 DEF Renders, RecordKept, Time

\* Of a queued callback either way of speaking of its place will do.
LEMMA InQueue ==
  ASSUME QueueOK, NEW q
  PROVE  (\E i \in DOMAIN syncQueue : Renders(syncQueue[i], q))
           <=> \E c \in ToSet(syncQueue) : Renders(c, q)
  BY DEF ToSet

LEMMA InQueueNext ==
  ASSUME QueueOK', NEW q
  PROVE  (\E i \in DOMAIN syncQueue : Renders(syncQueue[i], q))'
           <=> \E c \in ToSet(syncQueue') : Renders(c, q)'
  BY DEF ToSet

LEMMA CallbackTimes ==
  ASSUME Base
  PROVE  /\ \A task \in tasks : task.callback.time \in Time
         /\ \A c \in ToSet(syncQueue) : c.time \in Time
         /\ \A f \in ToSet(stack) : f.time \in Time
<1>1. \A task \in tasks : task.callback.time \in Time
  BY DEF Base, TasksOK, Callback
<1>2. \A c \in ToSet(syncQueue) : c.time \in Time
  <2>1. \A c \in ToSet(syncQueue) : c \in Callback
    BY Elements DEF Base, QueueOK
  <2> QED  BY <2>1 DEF Callback
<1>3. \A f \in ToSet(stack) : f.time \in Time
  <2>1. \A f \in ToSet(stack) : f \in FrameType
    BY Elements DEF Base, StackOK
  <2> QED  BY <2>1 DEF FrameType, FrameShape
<1> QED  BY <1>1, <1>2, <1>3

LEMMA WorksKept ==
  ASSUME Base, Base', NEW q \in Root, Keeps(q), NEW f \in ToSet(stack), Works(f, q)
  PROVE  \E g \in ToSet(stack') : SameCall(f, g) /\ Works(g, q)'
<1>1. PICK g \in ToSet(stack') : SameCall(f, g) /\ CanWork(g)
  BY DEF Keeps, FramesKept
<1>2. Renders(f, q)'
  BY CallbackTimes, RendersKept DEF Works, Keeps
<1>3. Renders(g, q)'
  BY <1>1, <1>2 DEF SameCall, Renders
<1> QED  BY <1>1, <1>3 DEF Works, CanWork

LEMMA RenderComingKept ==
  ASSUME Base, Base', NEW q \in Root, Keeps(q), RenderComing(q),
         roots'[q].callbackNode # NoNode
  PROVE  RenderComing(q)'
<1>1. CASE \E task \in tasks : task.callback.fn = "renderRoot" /\ Renders(task.callback, q)
  <2>1. PICK task \in tasks : task.callback.fn = "renderRoot" /\ Renders(task.callback, q)
    BY <1>1
  <2>2. task \in tasks' /\ Renders(task.callback, q)'
    BY <2>1, CallbackTimes, RendersKept DEF Keeps, CallbacksKept
  <2> QED  BY <2>1, <2>2 DEF RenderComing
<1>2. CASE \E c \in ToSet(syncQueue) : Renders(c, q)
  <2>1. PICK c \in ToSet(syncQueue) : Renders(c, q)
    BY <1>2
  <2>2. c \in ToSet(syncQueue') /\ Renders(c, q)'
    BY <2>1, CallbackTimes, RendersKept DEF Keeps, CallbacksKept
  <2> QED  BY <2>2 DEF RenderComing
<1>3. CASE \E f \in ToSet(stack) : Works(f, q) /\ Holds(f, q)
  <2>1. PICK f \in ToSet(stack) : Works(f, q) /\ Holds(f, q)
    BY <1>3
  <2>2. PICK g \in ToSet(stack') : SameCall(f, g) /\ Works(g, q)'
    BY <2>1, WorksKept
  <2>3. roots'[q].callbackNode = roots[q].callbackNode
    BY DEF Keeps, RecordKept
  <2>4. Holds(g, q)'
    BY <2>1, <2>2, <2>3 DEF Holds, SameCall
  <2> QED  BY <2>2, <2>4 DEF RenderComing
<1> QED  BY <1>1, <1>2, <1>3 DEF RenderComing

LEMMA CallbackComingKept ==
  ASSUME Base, Base', NEW q \in Root, Keeps(q), CallbackComing(q),
         roots'[q].callbackNode # NoNode
  PROVE  CallbackComing(q)'
<1>1. CASE RenderComing(q)
  BY <1>1, RenderComingKept DEF CallbackComing
<1>2. CASE \E task \in tasks : Renders(task.callback, q)
  <2>1. PICK task \in tasks : Renders(task.callback, q)
    BY <1>2
  <2>2. task \in tasks' /\ Renders(task.callback, q)'
    BY <2>1, CallbackTimes, RendersKept DEF Keeps, CallbacksKept
  <2> QED  BY <2>2 DEF CallbackComing
<1> QED  BY <1>1, <1>2 DEF CallbackComing

LEMMA ComingKept ==
  ASSUME Base, Base', NEW q \in Root, Keeps(q), Coming(q),
         \A f \in ToSet(stack) : Schedules(f, q) => f \in ToSet(stack')
  PROVE  Coming(q)'
<1>1. CASE \E task \in tasks : Renders(task.callback, q)
  <2>1. PICK task \in tasks : Renders(task.callback, q)
    BY <1>1
  <2>2. task \in tasks' /\ Renders(task.callback, q)'
    BY <2>1, CallbackTimes, RendersKept DEF Keeps, CallbacksKept
  <2> QED  BY <2>2 DEF Coming, Scheduled
<1>2. CASE \E i \in DOMAIN syncQueue : Renders(syncQueue[i], q)
  <2>1. PICK c \in ToSet(syncQueue) : Renders(c, q)
    BY <1>2, InQueue DEF Base
  <2>2. c \in ToSet(syncQueue') /\ Renders(c, q)'
    BY <2>1, CallbackTimes, RendersKept DEF Keeps, CallbacksKept
  <2>3. (\E i \in DOMAIN syncQueue : Renders(syncQueue[i], q))'
    BY <2>2, InQueueNext DEF Base
  <2> QED  BY <2>3 DEF Coming, Scheduled
<1>3. CASE roots[q].timer /\ roots[q].finishedWork # Null
  BY <1>3 DEF Keeps, RecordKept, Coming, Scheduled
<1>4. CASE \E f \in ToSet(stack) : Works(f, q)
  BY <1>4, WorksKept DEF Coming
<1>5. CASE \E f \in ToSet(stack) : f.fn = "commitRoot" /\ f.at = "user" /\ f.root = q
  BY <1>5 DEF Schedules, Coming
<1> QED  BY <1>1, <1>2, <1>3, <1>4, <1>5 DEF Coming, Scheduled

\* All evidence but for pending work carries over to the next state.
LEMMA CarryCallbacks ==
  ASSUME Base, Base', NEW q \in Root, Keeps(q), EvidenceOf(q),
         pending'[q] # {} => Coming(q)'
  PROVE  EvidenceOf(q)'
<1>1. ASSUME roots'[q].callbackNode # NoNode
      PROVE  CallbackComing(q)'
  <2>1. roots[q].callbackNode # NoNode
    BY <1>1 DEF Keeps, RecordKept
  <2> QED  BY <1>1, <2>1, CallbackComingKept DEF EvidenceOf
<1>2. ASSUME NEW g \in ToSet(stack'), Starting(g, q),
             roots'[q].callbackNode \notin {NoNode, g.prevCallbackNode}
      PROVE  RenderComing(q)'
  <2>1. roots'[q].callbackNode = roots[q].callbackNode /\ roots'[q].callbackNode # NoNode
    BY <1>2 DEF Keeps, RecordKept
  <2>2. PICK f \in ToSet(stack) : Starting(f, q) /\ SameCall(f, g)
    BY <1>2, <2>1 DEF Keeps, FramesKept
  <2>3. RenderComing(q)
    BY <1>2, <2>1, <2>2 DEF EvidenceOf, SameCall
  <2> QED  BY <2>1, <2>3, RenderComingKept
<1> QED  BY <1>1, <1>2 DEF EvidenceOf, Starting

LEMMA Carry ==
  ASSUME Base, Base', NEW q \in Root, Keeps(q), EvidenceOf(q),
         pending'[q] # {} => pending[q] # {},
         \A f \in ToSet(stack) : Schedules(f, q) => f \in ToSet(stack')
  PROVE  EvidenceOf(q)'
<1>1. ASSUME pending'[q] # {}
      PROVE  Coming(q)'
  BY <1>1, ComingKept DEF EvidenceOf
<1> QED  BY <1>1, CarryCallbacks

\* A render that is coming, whatever becomes of the record of the callback.
LEMMA Settled ==
  ASSUME Base', NEW q \in Root, RenderComing(q)'
  PROVE  EvidenceOf(q)'
<1>1. Coming(q)'
  <2>1. CASE \E c \in ToSet(syncQueue') : Renders(c, q)'
    <3>1. (\E i \in DOMAIN syncQueue : Renders(syncQueue[i], q))'
      BY <2>1, InQueueNext DEF Base
    <3> QED  BY <3>1 DEF Coming, Scheduled
  <2>2. CASE \E task \in tasks' : task.callback.fn = "renderRoot" /\ Renders(task.callback, q)'
    BY <2>2 DEF Coming, Scheduled
  <2>3. CASE \E f \in ToSet(stack') : Works(f, q)' /\ Holds(f, q)'
    BY <2>3 DEF Coming
  <2> QED  BY <2>1, <2>2, <2>3 DEF RenderComing
<1> QED  BY <1>1 DEF EvidenceOf, CallbackComing

LEMMA AnewSettles ==
  ASSUME Base', NEW r \in Root, NEW t \in 1 .. Sync, Anew(r, t),
         t <= roots'[r].firstPendingTime
  PROVE  EvidenceOf(r)'
<1>1. /\ RenderOf(r, t, TRUE).fn = "renderRoot" /\ RenderOf(r, t, TRUE).root = r
      /\ RenderOf(r, t, TRUE).time = t
  BY RenderIsCallback
<1>2. Renders(RenderOf(r, t, TRUE), r)'
  BY <1>1 DEF Renders
<1>3. RenderComing(r)'
  BY <1>1, <1>2 DEF Anew, RenderComing
<1> QED  BY <1>3, Settled

LEMMA FrameSettles ==
  ASSUME Base', NEW q \in Root, NEW f \in ToSet(stack'), Works(f, q)', Holds(f, q)'
  PROVE  EvidenceOf(q)'
  BY Settled DEF RenderComing

\* A continuation that renders or commits is enough.
LEMMA ContinuesSettles ==
  ASSUME Base', NEW q \in Root, NEW rs \in [Root -> RootRecord], NEW c \in Callback,
         Continues(c, rs), Renders(c, q)'
  PROVE  EvidenceOf(q)'
<1>1. CASE /\ Below = <<>> /\ stack' = <<>>
           /\ \E task \in tasks' : task.callback = c
  <2>1. \E task \in tasks' : Renders(task.callback, q)'
    BY <1>1
  <2> QED  BY <1>1, <2>1, EmptyStack DEF EvidenceOf, Coming, Scheduled, CallbackComing
<1>2. CASE Pushes(Called(rs, c, TRUE), Below)
  <2> DEFINE f == Called(rs, c, TRUE)
  <2>1. /\ f.fn = c.fn /\ f.at = "start" /\ f.root = c.root /\ f.time = c.time
        /\ f.isSync = TRUE /\ f.fn \in {"renderRoot", "commitRoot"}
    BY CalledFrame
  <2>2. f \in ToSet(stack')
    BY <1>2 DEF Pushes
  <2> HIDE DEF f
  <2>3. Works(f, q)' /\ Holds(f, q)'
    BY <2>1 DEF Works, CanWork, Renders, Holds
  <2> QED  BY <2>2, <2>3, FrameSettles
<1> QED  BY <1>1, <1>2 DEF Continues

\* The calls on the stack stay, and no render among the new ones is about
\* another callback than that of its root.
Stays(q) ==
  /\ ToSet(stack) \subseteq ToSet(stack')
  /\ \A g \in ToSet(stack') : \/ g \in ToSet(stack)
                              \/ ~Starting(g, q)
                              \/ g.prevCallbackNode = roots[q].callbackNode

\* All but the call on top stay, and the new ones are no such renders.
Leaves(q) ==
  /\ stack # <<>> /\ ToSet(Below) \subseteq ToSet(stack')
  /\ \A g \in ToSet(stack') : g \in ToSet(Below) \/ ~Starting(g, q)

\* The call on top goes on as one of the new ones.
Moves(q) ==
  /\ stack # <<>> /\ ToSet(Below) \subseteq ToSet(stack')
  /\ \E h \in ToSet(stack') :
       /\ SameCall(Top, h) /\ (CanWork(Top) => CanWork(h))
       /\ Starting(h, q) => Starting(Top, q)
       /\ \A g \in ToSet(stack') : g \in ToSet(Below) \/ ~Starting(g, q) \/ g = h

LEMMA StaysFrames ==
  ASSUME NEW q, Stays(q)
  PROVE  FramesKept(q) /\ \A f \in ToSet(stack) : Schedules(f, q) => f \in ToSet(stack')
  BY DEF Stays, FramesKept, SameCall, Works

LEMMA LeavesFrames ==
  ASSUME Base, NEW q, Leaves(q), ~Works(Top, q)
  PROVE  /\ FramesKept(q)
         /\ ~Schedules(Top, q) => \A f \in ToSet(stack) : Schedules(f, q) => f \in ToSet(stack')
<1>1. ToSet(stack) = {Top} \cup ToSet(Below)
  BY TopFrame DEF Leaves, Base
<1> QED  BY <1>1 DEF Leaves, FramesKept, SameCall, Works

LEMMA MovesFrames ==
  ASSUME Base, NEW q, Moves(q)
  PROVE  /\ FramesKept(q)
         /\ ~Schedules(Top, q) => \A f \in ToSet(stack) : Schedules(f, q) => f \in ToSet(stack')
<1>1. ToSet(stack) = {Top} \cup ToSet(Below)
  BY TopFrame DEF Moves, Base
<1> QED  BY <1>1 DEF Moves, FramesKept, SameCall, Works

LEMMA SameRecord ==
  ASSUME Base, NEW q \in Root, roots'[q] = roots[q]
  PROVE  RecordKept(q)
<1>1. roots[q].firstPendingTime \in Time
  BY RecordFields DEF Base, Records
<1> QED  BY <1>1 DEF RecordKept, Time

\* Nothing happens to a root.
LEMMA CarryIdle ==
  ASSUME Base, Base', NEW q \in Root, EvidenceOf(q),
         roots'[q] = roots[q], pending'[q] = pending[q], CallbacksKept(q),
         Stays(q) \/ (/\ Leaves(q) \/ Moves(q)
                      /\ Leaves(q) => ~Works(Top, q)
                      /\ ~Schedules(Top, q))
  PROVE  EvidenceOf(q)'
<1>1. FramesKept(q) /\ \A f \in ToSet(stack) : Schedules(f, q) => f \in ToSet(stack')
  BY StaysFrames, LeavesFrames, MovesFrames
<1>2. Keeps(q)
  BY <1>1, SameRecord DEF Keeps
<1> QED  BY <1>1, <1>2, Carry

LEMMA TasksAndQueueKept ==
  ASSUME NEW q, tasks' = tasks, ToSet(syncQueue) \subseteq ToSet(syncQueue')
  PROVE  CallbacksKept(q)
  BY DEF CallbacksKept

LEMMA EnterHandlerEvidence ==
  ASSUME Base, NEW q \in Root, EvidenceOf(q), NEW fn \in Handlers, EnterHandler(fn)
  PROVE  EvidenceOf(q)'
<1>1. Base' /\ Pushes(Frame(fn, "user", Null), stack)
  BY EnterHandlerStep
<1>2. Frame(fn, "user", Null).fn # "renderRoot"
  BY DEF Frame, Handlers
<1>3. Stays(q)
  BY <1>1, <1>2 DEF Pushes, Stays, Starting
<1>4. CallbacksKept(q)
  BY TasksAndQueueKept DEF EnterHandler
<1> QED  BY <1>1, <1>3, <1>4, CarryIdle DEF EnterHandler, updateVars

LEMMA FlushFrame ==
  /\ Frame("flush", "next", Null).fn = "flush" /\ Frame("flush", "next", Null).at = "next"
  BY DEF Frame

\* A flush is no such render either.
LEMMA FlushesLeave ==
  ASSUME NEW s, Flushes(s), NEW q
  PROVE  /\ ToSet(s) \subseteq ToSet(stack')
         /\ \A g \in ToSet(stack') : g \in ToSet(s) \/ ~Starting(g, q)
  BY FlushFrame DEF Flushes, Starting

LEMMA LeaveHandlerEvidence ==
  ASSUME Base, NEW q \in Root, EvidenceOf(q), LeaveHandler
  PROVE  EvidenceOf(q)'
<1>1. Base' /\ Flushes(Below)
  BY LeaveHandlerStep
<1>2. stack # <<>> /\ ~Works(Top, q) /\ ~Schedules(Top, q)
  BY DEF LeaveHandler, Handlers, Works, CanWork, Schedules
<1>3. Leaves(q)
  BY <1>1, <1>2, FlushesLeave DEF Leaves
<1>4. CallbacksKept(q)
  BY TasksAndQueueKept DEF LeaveHandler
<1> QED  BY <1>1, <1>2, <1>3, <1>4, CarryIdle DEF LeaveHandler, updateVars

LEMMA FlushDiscreteEvidence ==
  ASSUME Base, NEW q \in Root, EvidenceOf(q), FlushDiscreteUpdates
  PROVE  EvidenceOf(q)'
<1> DEFINE f == Frame("flushDiscreteUpdates", "passive", Null)
<1>1. Base' /\ ToSet(syncQueue) \subseteq ToSet(syncQueue') /\ Flushes(Push(f, stack))
  BY FlushDiscreteStep
<1>2. f \in FrameType /\ f.fn = "flushDiscreteUpdates"
  BY NewFrames DEF Frame
<1>3. ToSet(Push(f, stack)) = {f} \cup ToSet(stack)
  BY <1>2, Pushed DEF Base, StackOK
<1>4. Stays(q)
  BY <1>1, <1>2, <1>3, FlushesLeave DEF Stays, Starting
<1>5. CallbacksKept(q)
  BY <1>1, TasksAndQueueKept DEF FlushDiscreteUpdates
<1> QED  BY <1>1, <1>4, <1>5, CarryIdle DEF FlushDiscreteUpdates, updateVars

LEMMA FlushDiscreteEndsEvidence ==
  ASSUME Base, NEW q \in Root, EvidenceOf(q), FlushDiscreteEnds
  PROVE  EvidenceOf(q)'
<1>1. /\ Base'
      /\ \/ stack' = Below
         \/ \E r \in Root : Pushes(Frame("flushPassiveEffects", "user", r), Below)
  BY FlushDiscreteEndsStep
<1>2. stack # <<>> /\ ~Works(Top, q) /\ ~Schedules(Top, q)
  BY TopAt DEF FlushDiscreteEnds, Works, CanWork, Schedules
<1>3. Leaves(q)
  BY <1>1, <1>2, PassiveFrame DEF Leaves, Pushes, Starting
<1>4. CallbacksKept(q)
  BY TasksAndQueueKept DEF FlushDiscreteEnds
<1> QED  BY <1>1, <1>2, <1>3, <1>4, CarryIdle DEF FlushDiscreteEnds, updateVars

LEMMA SchedulerRunsPassiveEvidence ==
  ASSUME Base, NEW q \in Root, EvidenceOf(q), SchedulerRunsPassive
  PROVE  EvidenceOf(q)'
<1>1. /\ Base'
      /\ \/ stack' = <<>>
         \/ \E r \in Root : Pushes(Frame("flushPassiveEffects", "user", r), <<>>)
  BY SchedulerRunsPassiveStep
<1>2. Stays(q)
  BY <1>1, PassiveFrame, EmptyStack DEF Stays, Pushes, Starting, SchedulerRunsPassive
<1>3. CallbacksKept(q)
  BY TasksAndQueueKept DEF SchedulerRunsPassive
<1> QED  BY <1>1, <1>2, <1>3, CarryIdle DEF SchedulerRunsPassive, updateVars

LEMMA SchedulerFlushesEvidence ==
  ASSUME Base, NEW q \in Root, EvidenceOf(q), SchedulerFlushes
  PROVE  EvidenceOf(q)'
<1>1. Base' /\ Flushes(<<>>)
  BY SchedulerFlushesStep
<1>2. Stays(q)
  BY <1>1, FlushesLeave, EmptyStack DEF Stays, SchedulerFlushes
<1>3. CallbacksKept(q)
  BY TasksAndQueueKept DEF SchedulerFlushes
<1> QED  BY <1>1, <1>2, <1>3, CarryIdle DEF SchedulerFlushes, updateVars

LEMMA TimePassesEvidence ==
  ASSUME Base, NEW q \in Root, EvidenceOf(q), TimePasses
  PROVE  EvidenceOf(q)'
<1>1. Base' /\ Stays(q)
  BY TimePassesStep DEF TimePasses, Stays
<1>2. CallbacksKept(q)
  BY TasksAndQueueKept DEF TimePasses
<1> QED  BY <1>1, <1>2, CarryIdle DEF TimePasses, updateVars

LEMMA PassiveFinishesEvidence ==
  ASSUME Base, NEW q \in Root, EvidenceOf(q), PassiveFinishes
  PROVE  EvidenceOf(q)'
<1> DEFINE g == [Top EXCEPT !.at = "last"]
<1>1. Base' /\ Flushes(Push(g, Below))
  BY PassiveFinishesStep
<1>2. /\ stack # <<>> /\ Top.fn = "flushPassiveEffects" /\ Top \in FrameType /\ StackOK(Below)
  BY TopAt DEF PassiveFinishes
<1>3. g \in FrameType /\ g.fn = "flushPassiveEffects"
  BY <1>2, MovedFrame
<1> HIDE DEF g
<1>4. ToSet(Push(g, Below)) = {g} \cup ToSet(Below)
  BY <1>2, <1>3, Pushed DEF StackOK
<1>5. Leaves(q)
  BY <1>1, <1>2, <1>3, <1>4, FlushesLeave DEF Leaves, Starting
<1>6. ~Works(Top, q) /\ ~Schedules(Top, q)
  BY <1>2 DEF Works, CanWork, Schedules
<1>7. CallbacksKept(q)
  BY TasksAndQueueKept DEF PassiveFinishes
<1> QED  BY <1>1, <1>5, <1>6, <1>7, CarryIdle DEF PassiveFinishes, updateVars

LEMMA PassiveReturnsEvidence ==
  ASSUME Base, NEW q \in Root, EvidenceOf(q), PassiveReturns
  PROVE  EvidenceOf(q)'
<1>1. Base' /\ stack' = Below
  BY PassiveReturnsStep
<1>2. stack # <<>> /\ ~Works(Top, q) /\ ~Schedules(Top, q)
  BY TopAt DEF PassiveReturns, Works, CanWork, Schedules
<1>3. Leaves(q)
  BY <1>1, <1>2 DEF Leaves
<1>4. CallbacksKept(q)
  BY TasksAndQueueKept DEF PassiveReturns
<1> QED  BY <1>1, <1>2, <1>3, <1>4, CarryIdle DEF PassiveReturns, updateVars

LEMMA CommitNothingEvidence ==
  ASSUME Base, NEW q \in Root, EvidenceOf(q), CommitNothing
  PROVE  EvidenceOf(q)'
<1> DEFINE g == [Top EXCEPT !.at = "last"]
<1>1. Base' /\ Pushes(g, Below)
  BY CommitNothingStep
<1>2. stack # <<>> /\ Top.fn = "commitRoot" /\ Top.at \in {"start", "mutate"} /\ Top \in FrameType
  BY Commits, TopFrame DEF CommitNothing, Base
<1>3. g.fn = "commitRoot"
  BY <1>2, MovedFrame
<1> HIDE DEF g
<1>4. Leaves(q)
  BY <1>1, <1>2, <1>3 DEF Leaves, Starting, Pushes
<1>5. ~Works(Top, q) /\ ~Schedules(Top, q)
  BY <1>2 DEF CommitNothing, Works, Renders, Schedules
<1>6. CallbacksKept(q)
  BY TasksAndQueueKept DEF CommitNothing
<1> QED  BY <1>1, <1>4, <1>5, <1>6, CarryIdle DEF CommitNothing, updateVars

\* A task of another root stays when r gets a callback.
LEMMA OthersKeepCallbacks ==
  ASSUME NEW r \in Root, NEW t, CallbackAdded(r, t), NEW q \in Root, q # r
  PROVE  CallbacksKept(q)
  BY DEF CallbackAdded, CallbacksKept, Renders

\* A root that has a callback has an update.
LEMMA CallbackMeansWork ==
  ASSUME Base, NEW r \in Root, NEW t \in 1 .. Sync, roots[r].callbackExpirationTime >= t
  PROVE  pending[r] # {}
<1>1. roots[r] \in RootRecord /\ RecordOK(roots[r], pending[r]) /\ pending[r] \subseteq Update
  BY DEF Base, Records
<1>2. roots[r].callbackExpirationTime \in Time /\ roots[r].firstPendingTime \in Time
  BY <1>1, RecordFields
<1>3. roots[r].firstPendingTime # NoWork
  BY <1>1, <1>2, RootAssumption DEF RecordOK, Time, NoWork
<1> QED  BY <1>1, <1>3, MaxTimeIs DEF RecordOK

LEMMA UpdateEvidence ==
  ASSUME Base, Base', NEW r \in Root, NEW t \in 1 .. Sync, UpdateAdded(r, t), Remembered(r),
         NEW q \in Root, q \notin forgotten', q \notin forgotten => EvidenceOf(q), Stays(q)
  PROVE  EvidenceOf(q)'
<1>1. forgotten' \in {forgotten, forgotten \ {r}}
      /\ (roots'[r].callbackNode = roots[r].callbackNode => forgotten' = forgotten)
  BY ForgottenRoots DEF Base
<1>2. CallbackAdded(r, t)
  BY DEF UpdateAdded
<1>3. CASE q # r
  <2>1. EvidenceOf(q)
    BY <1>1, <1>3
  <2>2. CallbacksKept(q)
    BY <1>2, <1>3, OthersKeepCallbacks
  <2>3. roots'[q] = roots[q] /\ pending'[q] = pending[q]
    BY <1>3 DEF UpdateAdded
  <2> QED  BY <2>1, <2>2, <2>3, CarryIdle
<1>4. CASE q = r /\ Anew(r, t)
  <2>1. t <= roots'[r].firstPendingTime
    <3>1. roots'[r].firstPendingTime \in Time
      BY RecordFields DEF Base, Records
    <3> QED  BY <3>1 DEF UpdateAdded, Time
  <2> QED  BY <1>4, <2>1, AnewSettles
<1>5. CASE q = r /\ ~Anew(r, t)
  <2>1. /\ roots[r].callbackExpirationTime >= t
        /\ roots'[r].callbackNode = roots[r].callbackNode
        /\ tasks' = tasks /\ syncQueue' = syncQueue
    BY <1>2, <1>5 DEF CallbackAdded
  <2>2. EvidenceOf(q)
    BY <1>1, <1>5, <2>1
  <2>3. pending[q] # {}
    BY <1>5, <2>1, CallbackMeansWork
  <2>4. RecordKept(q)
    BY <1>5, <2>1 DEF UpdateAdded, RecordKept
  <2>5. CallbacksKept(q)
    BY <2>1, TasksAndQueueKept
  <2>6. FramesKept(q) /\ \A f \in ToSet(stack) : Schedules(f, q) => f \in ToSet(stack')
    BY StaysFrames
  <2> QED  BY <2>2, <2>3, <2>4, <2>5, <2>6, Carry DEF Keeps
<1> QED  BY <1>3, <1>4, <1>5

LEMMA SameStackStays ==
  ASSUME NEW q, stack' = stack \/ (stack = <<>> /\ Flushes(<<>>))
  PROVE  Stays(q)
<1>1. CASE stack' = stack
  BY <1>1 DEF Stays
<1>2. CASE stack = <<>> /\ Flushes(<<>>)
  BY <1>2, FlushesLeave, EmptyStack DEF Stays
<1> QED  BY <1>1, <1>2

LEMMA ScheduleUpdateEvidence ==
  ASSUME Base, NEW r \in Root, NEW level \in Level, ScheduleUpdate(r, level),
         NEW q \in Root, q \notin forgotten', q \notin forgotten => EvidenceOf(q)
  PROVE  EvidenceOf(q)'
<1>1. PICK t \in 1 .. Sync : UpdateAdded(r, t)
  BY ScheduleUpdateStep
<1>2. Base' /\ Remembered(r) /\ (stack' = stack \/ (stack = <<>> /\ Flushes(<<>>)))
  BY ScheduleUpdateStep
<1>3. Stays(q)
  BY <1>2, SameStackStays
<1> QED  BY <1>1, <1>2, <1>3, UpdateEvidence

LEMMA RetryEvidence ==
  ASSUME Base, NEW r \in Root, NEW level \in Level, RetryTimedOutBoundary(r, level),
         NEW q \in Root, q \notin forgotten', q \notin forgotten => EvidenceOf(q)
  PROVE  EvidenceOf(q)'
<1>1. PICK t \in 1 .. Sync : UpdateAdded(r, t)
  BY RetryStep
<1>2. Base' /\ Remembered(r) /\ stack' = stack
  BY RetryStep
<1>3. Stays(q)
  BY <1>2, SameStackStays
<1> QED  BY <1>1, <1>2, <1>3, UpdateEvidence

LEMMA EffectThrowsEvidence ==
  ASSUME Base, EffectThrows,
         NEW q \in Root, q \notin forgotten', q \notin forgotten => EvidenceOf(q)
  PROVE  EvidenceOf(q)'
<1>1. /\ Base' /\ Top.root \in Root /\ Remembered(Top.root)
      /\ UpdateAdded(Top.root, Sync) /\ stack' = stack
  BY EffectThrowsStep
<1>2. PICK r \in Root : r = Top.root
  BY <1>1
<1>3. Stays(q) /\ Sync \in 1 .. Sync
  BY <1>1, SameStackStays, RootAssumption
<1> QED  BY <1>1, <1>2, <1>3, UpdateEvidence

LEMMA SchedulerRunsEvidence ==
  ASSUME Base, NEW q \in Root, EvidenceOf(q), NEW task \in tasks, SchedulerRuns(task)
  PROVE  EvidenceOf(q)'
<1>1. PICK isSync \in BOOLEAN : Pushes(Called(roots, task.callback, isSync), <<>>)
  BY SchedulerRunsStep
<1>2. Base' /\ task.callback \in Callback /\ task.callback.wrapped
  BY SchedulerRunsStep
<1>3. roots \in [Root -> RootRecord]
  BY DEF Base, Records
<1>0. PICK f : f = Called(roots, task.callback, isSync)
  OBVIOUS
<1>4. /\ f.fn = task.callback.fn /\ f.at = "start" /\ f.root = task.callback.root
      /\ f.time = task.callback.time /\ f.wrapped
      /\ f.prevCallbackNode = roots[f.root].callbackNode
      /\ f.fn \in {"renderRoot", "commitRoot"}
  BY <1>0, <1>2, <1>3, CalledFrame
<1>5. stack = <<>> /\ roots' = roots /\ tasks' = tasks \ {task}
  BY DEF SchedulerRuns
<1>6. CASE Renders(task.callback, q)
  <2>1. Works(f, q)' /\ Holds(f, q)'
    BY <1>4, <1>5, <1>6 DEF Works, CanWork, Renders, Holds
  <2>2. f \in ToSet(stack')
    BY <1>0, <1>1 DEF Pushes
  <2> QED  BY <1>2, <2>1, <2>2, FrameSettles
<1>7. CASE ~Renders(task.callback, q)
  <2>1. ToSet(stack) = {} /\ ToSet(stack') = {f} \cup ToSet(<<>>)
    BY <1>0, <1>1, <1>5, EmptyStack DEF Pushes
  <2>2. Stays(q)
    BY <1>4, <2>1, EmptyStack DEF Stays, Starting
  <2>3. CallbacksKept(q)
    BY <1>5, <1>7 DEF CallbacksKept, SchedulerRuns
  <2> QED  BY <1>2, <2>2, <2>3, CarryIdle DEF SchedulerRuns, updateVars
<1> QED  BY <1>6, <1>7

LEMMA FlushNextEvidence ==
  ASSUME Base, NEW q \in Root, EvidenceOf(q), FlushNext
  PROVE  EvidenceOf(q)'
<1>1. /\ Base'
      /\ \/ stack' = Below /\ syncQueue' = syncQueue
         \/ \E c \in Callback :
              /\ Pushes(Called(roots, c, TRUE), stack)
              /\ ToSet(syncQueue) = {c} \cup ToSet(syncQueue')
  BY FlushNextStep
<1>2. roots' = roots /\ tasks' = tasks /\ pending' = pending
  BY DEF FlushNext, updateVars
<1>3. CASE stack' = Below /\ syncQueue' = syncQueue
  <2>1. stack # <<>> /\ ~Works(Top, q) /\ ~Schedules(Top, q)
    BY TopAt DEF FlushNext, Works, CanWork, Schedules
  <2>2. Leaves(q)
    BY <1>3, <2>1 DEF Leaves
  <2>3. CallbacksKept(q)
    BY <1>2, <1>3, TasksAndQueueKept
  <2> QED  BY <1>1, <1>2, <2>1, <2>2, <2>3, CarryIdle
<1>4. CASE \E c \in Callback : /\ Pushes(Called(roots, c, TRUE), stack)
                               /\ ToSet(syncQueue) = {c} \cup ToSet(syncQueue')
  <2>1. PICK c \in Callback : /\ Pushes(Called(roots, c, TRUE), stack)
                              /\ ToSet(syncQueue) = {c} \cup ToSet(syncQueue')
    BY <1>4
  <2>0. PICK f : f = Called(roots, c, TRUE)
    OBVIOUS
  <2>2. roots \in [Root -> RootRecord]
    BY DEF Base, Records
  <2>3. /\ f.fn = c.fn /\ f.at = "start" /\ f.root = c.root /\ f.time = c.time
        /\ f.isSync = TRUE /\ f.fn \in {"renderRoot", "commitRoot"}
    BY <2>0, <2>2, CalledFrame
  <2>4. ToSet(stack') = {f} \cup ToSet(stack)
    BY <2>0, <2>1 DEF Pushes
  <2>5. CASE Renders(c, q)
    <3>1. Works(f, q)' /\ Holds(f, q)'
      BY <1>2, <2>3, <2>5 DEF Works, CanWork, Renders, Holds
    <3> QED  BY <1>1, <2>4, <3>1, FrameSettles
  <2>6. CASE ~Renders(c, q)
    <3>1. Stays(q)
      BY <2>3, <2>4 DEF Stays, Starting
    <3>2. CallbacksKept(q)
      BY <1>2, <2>1, <2>6 DEF CallbacksKept
    <3> QED  BY <1>1, <1>2, <3>1, <3>2, CarryIdle
  <2> QED  BY <2>5, <2>6
<1> QED  BY <1>1, <1>3, <1>4

LEMMA TimeoutFiresEvidence ==
  ASSUME Base, NEW q \in Root, EvidenceOf(q), NEW r \in Root, TimeoutFires(r)
  PROVE  EvidenceOf(q)'
<1>0. PICK f : f = Called(roots, CommitOf(r, FALSE), TRUE)
  OBVIOUS
<1>1. /\ Base' /\ Pushes(f, <<>>)
      /\ OnlyAt(r, roots')
      /\ roots'[r].finishedWork = roots[r].finishedWork
      /\ roots'[r].firstPendingTime = roots[r].firstPendingTime
      /\ roots'[r].callbackNode = roots[r].callbackNode
  BY <1>0, TimeoutFiresStep
<1>2. roots \in [Root -> RootRecord]
  BY DEF Base, Records
<1>3. /\ f.fn = "commitRoot" /\ f.at = "start" /\ f.root = r /\ f.isSync = TRUE
  <2>1. PICK c \in Callback : c = CommitOf(r, FALSE) /\ c.fn = "commitRoot" /\ c.root = r
    BY CommitIsCallback
  <2> QED  BY <1>0, <1>2, <2>1, CalledFrame
<1>4. stack = <<>> /\ ToSet(stack') = {f} \cup ToSet(<<>>)
  BY <1>1 DEF Pushes, TimeoutFires
<1>5. Stays(q)
  BY <1>3, <1>4, EmptyStack DEF Stays, Starting
<1>6. CallbacksKept(q)
  BY TasksAndQueueKept DEF TimeoutFires
<1>7. CASE q # r
  BY <1>1, <1>5, <1>6, <1>7, CarryIdle DEF OnlyAt, TimeoutFires, updateVars
<1>8. CASE q = r /\ roots[q].finishedWork # Null
  <2>1. Works(f, q)' /\ Holds(f, q)'
    BY <1>1, <1>3, <1>8 DEF Works, CanWork, Renders, Holds
  <2> QED  BY <1>1, <1>4, <2>1, FrameSettles
<1>9. CASE q = r /\ roots[q].finishedWork = Null
  <2>1. roots[q].firstPendingTime \in Time
    BY <1>2, RecordFields
  <2>2. RecordKept(q)
    BY <1>1, <1>9, <2>1 DEF RecordKept, Time
  <2>3. FramesKept(q) /\ \A g \in ToSet(stack) : Schedules(g, q) => g \in ToSet(stack')
    BY <1>5, StaysFrames
  <2> QED  BY <1>1, <1>6, <2>2, <2>3, Carry DEF Keeps, TimeoutFires, updateVars
<1> QED  BY <1>7, <1>8, <1>9

\* A call pushed on one that moves on.
LEMMA PassiveMoves ==
  ASSUME Base, stack # <<>>, NEW q, NEW r \in Root, NEW g,
         g \in FrameType, SameCall(Top, g), CanWork(Top) => CanWork(g),
         Starting(g, q) => Starting(Top, q),
         Pushes(Frame("flushPassiveEffects", "user", r), Push(g, Below))
  PROVE  Moves(q)
<1> DEFINE f == Frame("flushPassiveEffects", "user", r)
<1>1. ToSet(stack') = {f} \cup ToSet(Push(g, Below)) /\ f.fn = "flushPassiveEffects"
  BY PassiveFrame DEF Pushes
<1> HIDE DEF f
<1>2. StackOK(Below)
  BY TopFrame DEF Base
<1>3. ToSet(Push(g, Below)) = {g} \cup ToSet(Below)
  BY <1>2, Pushed DEF StackOK
<1> QED  BY <1>1, <1>3 DEF Moves, Starting

LEMMA RenderFlushesPassiveEvidence ==
  ASSUME Base, NEW q \in Root, EvidenceOf(q), RenderFlushesPassive
  PROVE  EvidenceOf(q)'
<1> DEFINE g == [Top EXCEPT !.at = "prepare"]
<1>1. Base'
  BY RenderFlushesPassiveStep
<1>2. PICK r \in Root : Pushes(Frame("flushPassiveEffects", "user", r), Push(g, Below))
  BY RenderFlushesPassiveStep
<1>3. stack # <<>> /\ Top.fn = "renderRoot" /\ Top.at = "start" /\ Top \in FrameType
  BY TopAt DEF RenderFlushesPassive
<1>4. /\ g \in FrameType /\ SameCall(Top, g) /\ (CanWork(Top) => CanWork(g))
      /\ (Starting(g, q) => Starting(Top, q))
  BY <1>3, MovedFrame DEF SameCall, CanWork, Starting
<1> HIDE DEF g
<1>5. Moves(q)
  BY <1>2, <1>3, <1>4, PassiveMoves
<1>6. CallbacksKept(q)
  BY TasksAndQueueKept DEF RenderFlushesPassive
<1>7. ~Schedules(Top, q) /\ (Leaves(q) => Moves(q))
  BY <1>3, <1>5 DEF Schedules
<1>8. FramesKept(q) /\ \A f \in ToSet(stack) : Schedules(f, q) => f \in ToSet(stack')
  BY <1>5, <1>7, MovesFrames
<1>9. RecordKept(q)
  BY SameRecord DEF RenderFlushesPassive
<1> QED  BY <1>1, <1>6, <1>8, <1>9, Carry DEF Keeps, RenderFlushesPassive, updateVars

LEMMA CommitFlushesPassiveEvidence ==
  ASSUME Base, NEW q \in Root, EvidenceOf(q), CommitFlushesPassive
  PROVE  EvidenceOf(q)'
<1> DEFINE g == [Top EXCEPT !.at = "mutate"]
<1>1. Base'
  BY CommitFlushesPassiveStep
<1>2. PICK r \in Root : Pushes(Frame("flushPassiveEffects", "user", r), Push(g, Below))
  BY CommitFlushesPassiveStep
<1>3. stack # <<>> /\ Top.fn = "commitRoot" /\ Top.at = "start" /\ Top \in FrameType
  BY TopAt DEF CommitFlushesPassive
<1>4. /\ g \in FrameType /\ SameCall(Top, g) /\ (CanWork(Top) => CanWork(g))
      /\ (Starting(g, q) => Starting(Top, q))
  BY <1>3, MovedFrame DEF SameCall, CanWork, Starting
<1> HIDE DEF g
<1>5. Moves(q)
  BY <1>2, <1>3, <1>4, PassiveMoves
<1>6. CallbacksKept(q)
  BY TasksAndQueueKept DEF CommitFlushesPassive
<1>7. ~Schedules(Top, q)
  BY <1>3 DEF Schedules
<1>8. FramesKept(q) /\ \A f \in ToSet(stack) : Schedules(f, q) => f \in ToSet(stack')
  BY <1>5, <1>7, MovesFrames
<1>9. RecordKept(q)
  BY SameRecord DEF CommitFlushesPassive
<1> QED  BY <1>1, <1>6, <1>8, <1>9, Carry DEF Keeps, CommitFlushesPassive, updateVars

\* A continuation leaves the calls of other roots alone.
LEMMA ContinuesLeaves ==
  ASSUME stack # <<>>, NEW q \in Root, NEW rs \in [Root -> RootRecord], NEW c \in Callback,
         Continues(c, rs)
  PROVE  Leaves(q)
<1>1. CASE Below = <<>> /\ stack' = <<>>
  BY <1>1, EmptyStack DEF Leaves
<1>2. CASE Pushes(Called(rs, c, TRUE), Below)
  <2> DEFINE f == Called(rs, c, TRUE)
  <2>1. f.isSync = TRUE
    BY CalledFrame
  <2>2. ToSet(stack') = {f} \cup ToSet(Below)
    BY <1>2 DEF Pushes
  <2> HIDE DEF f
  <2> QED  BY <2>1, <2>2 DEF Leaves, Starting
<1> QED  BY <1>1, <1>2 DEF Continues

\* A call that ends or moves on does not concern another root.
LEMMA OthersCarry ==
  ASSUME Base, Base', NEW q \in Root, EvidenceOf(q), Top.root # q,
         roots'[q] = roots[q], pending'[q] = pending[q], CallbacksKept(q), Leaves(q)
  PROVE  EvidenceOf(q)'
<1>1. ~Works(Top, q) /\ ~Schedules(Top, q)
  BY DEF Works, Renders, Schedules
<1> QED  BY <1>1, CarryIdle

\* A call that ends without effect on what is coming.
LEMMA EndCarries ==
  ASSUME Base, Base', NEW q \in Root, EvidenceOf(q), NEW f, f = Top,
         roots' = AfterFinally(roots, {f}), pending' = pending, CallbacksKept(q), Leaves(q),
         ~Works(Top, q), ~Schedules(Top, q)
  PROVE  EvidenceOf(q)'
<1>1. roots \in [Root -> RootRecord] /\ roots[q].firstPendingTime \in Time
  BY RecordFields DEF Base, Records
<1>2. /\ SameButCallback(roots'[q], roots[q])
      /\ roots'[q].callbackNode \in {NoNode, roots[q].callbackNode}
  BY <1>1, FinallyClears
<1>3. RecordKept(q)
  BY <1>1, <1>2 DEF SameButCallback, RecordKept, Time
<1>4. FramesKept(q) /\ \A g \in ToSet(stack) : Schedules(g, q) => g \in ToSet(stack')
  BY LeavesFrames
<1> QED  BY <1>3, <1>4, Carry DEF Keeps

LEMMA TasksGrow ==
  ASSUME NEW q, tasks \subseteq tasks', syncQueue' = syncQueue
  PROVE  CallbacksKept(q)
  BY DEF CallbacksKept

LEMMA RenderFrame ==
  ASSUME NEW f \in FrameType, f.fn = "renderRoot"
  PROVE  f.root \in Root /\ f.wrapped \in BOOLEAN /\ f.isSync \in BOOLEAN /\ f.time \in 1 .. Sync
<1>1. f.root \in Root /\ f.wrapped \in BOOLEAN /\ f.isSync \in BOOLEAN
      /\ f.time \in Time /\ f.time # NoWork
  BY DEF FrameType, FrameShape, Position, Handlers
<1> QED  BY <1>1, RootAssumption DEF Time, NoWork

LEMMA RenderNothingEvidence ==
  ASSUME Base, NEW q \in Root, EvidenceOf(q), RenderNothing
  PROVE  EvidenceOf(q)'
<1>1. /\ Base'
      /\ \/ /\ roots[Top.root].firstPendingTime < Top.time
            /\ roots' = AfterFinally(roots, {Top}) /\ stack' = Below /\ tasks' = tasks
         \/ /\ ~(roots[Top.root].firstPendingTime < Top.time)
            /\ roots[Top.root].finishedWork # Null
            /\ roots' = roots /\ tasks \subseteq tasks'
            /\ Continues(CommitOf(Top.root, Top.wrapped), roots)
  BY RenderNothingStep
<1>2. /\ stack # <<>> /\ Top.fn = "renderRoot" /\ Top.at = "start"
      /\ Top \in FrameType /\ Position(Top)
  BY TopAt DEF RenderNothing
<1>3. Top.root \in Root /\ Top.wrapped \in BOOLEAN /\ Top.time \in Time
  BY <1>2 DEF FrameType, FrameShape, Position
<1>4. pending' = pending /\ syncQueue' = syncQueue
  BY DEF RenderNothing, updateVars
<1>5. roots \in [Root -> RootRecord]
  BY DEF Base, Records
<1>6. CASE /\ roots[Top.root].firstPendingTime < Top.time
           /\ roots' = AfterFinally(roots, {Top}) /\ stack' = Below /\ tasks' = tasks
  <2>1. roots[Top.root].firstPendingTime \in Time
    BY <1>3, <1>5, RecordFields
  <2>2. ~Works(Top, q) /\ ~Schedules(Top, q)
    BY <1>2, <1>3, <1>6, <2>1 DEF Works, Renders, Schedules, Time
  <2>3. CallbacksKept(q) /\ Leaves(q)
    BY <1>2, <1>4, <1>6, TasksAndQueueKept DEF Leaves
  <2> QED  BY <1>1, <1>4, <1>6, <2>2, <2>3, EndCarries
<1>7. CASE /\ roots[Top.root].finishedWork # Null
           /\ roots' = roots /\ tasks \subseteq tasks'
           /\ Continues(CommitOf(Top.root, Top.wrapped), roots)
  <2>1. PICK r \in Root, rs \in [Root -> RootRecord], c \in Callback :
          /\ r = Top.root /\ rs = roots /\ c = CommitOf(Top.root, Top.wrapped)
          /\ c.fn = "commitRoot" /\ c.root = r
    BY <1>3, <1>5, CommitIsCallback
  <2>2. Continues(c, rs)
    BY <1>7, <2>1
  <2>3. CASE q = r
    <3>1. Renders(c, q)'
      BY <1>7, <2>1, <2>3 DEF Renders
    <3> QED  BY <1>1, <2>2, <3>1, ContinuesSettles
  <2>4. CASE q # r
    <3>1. Leaves(q)
      BY <1>2, <2>2, ContinuesLeaves
    <3>2. CallbacksKept(q)
      BY <1>4, <1>7, TasksGrow
    <3> QED  BY <1>1, <1>4, <1>7, <2>1, <2>4, <3>1, <3>2, OthersCarry
  <2> QED  BY <2>3, <2>4
<1> QED  BY <1>1, <1>6, <1>7

LEMMA RenderYieldsEvidence ==
  ASSUME Base, NEW q \in Root, EvidenceOf(q), RenderYields
  PROVE  EvidenceOf(q)'
<1>1. /\ Base' /\ Below = <<>>
      /\ roots' = roots /\ tasks \subseteq tasks'
      /\ Continues(RenderOf(Top.root, Top.time, Top.wrapped), roots)
  BY RenderYieldsStep
<1>2. /\ stack # <<>> /\ Top.fn = "renderRoot" /\ Top.at = "user"
      /\ Top \in FrameType /\ Position(Top)
  BY TopAt DEF RenderYields
<1>3. Top.root \in Root /\ Top.wrapped \in BOOLEAN /\ Top.time \in 1 .. Sync
  BY <1>2, RenderFrame
<1>4. pending' = pending /\ syncQueue' = syncQueue
  BY DEF RenderYields, updateVars
<1>5. roots \in [Root -> RootRecord]
  BY DEF Base, Records
<1>6. PICK r \in Root, rs \in [Root -> RootRecord], c \in Callback :
        /\ r = Top.root /\ rs = roots /\ c = RenderOf(Top.root, Top.time, Top.wrapped)
        /\ c.fn = "renderRoot" /\ c.root = r /\ c.time = Top.time
  BY <1>3, <1>5, RenderIsCallback
<1>7. Continues(c, rs)
  BY <1>1, <1>6
<1>8. CallbacksKept(q) /\ Leaves(q)
  BY <1>1, <1>2, <1>4, <1>7, ContinuesLeaves, TasksGrow
<1>9. CASE Works(Top, q)
  <2>1. Renders(c, q)'
    BY <1>1, <1>2, <1>6, <1>9 DEF Works, Renders
  <2> QED  BY <1>1, <1>7, <2>1, ContinuesSettles
<1>10. CASE ~Works(Top, q)
  <2>1. ~Schedules(Top, q)
    BY <1>2 DEF Schedules
  <2> QED  BY <1>1, <1>4, <1>8, <1>10, <2>1, CarryIdle
<1> QED  BY <1>9, <1>10

\* The call on top ends without work to do, or moves on.
LEMMA CarryFrames ==
  ASSUME Base, Base', NEW q \in Root, EvidenceOf(q), RecordKept(q), CallbacksKept(q),
         pending'[q] = pending[q],
         (Leaves(q) /\ ~Works(Top, q)) \/ Moves(q), ~Schedules(Top, q)
  PROVE  EvidenceOf(q)'
<1>1. FramesKept(q) /\ \A f \in ToSet(stack) : Schedules(f, q) => f \in ToSet(stack')
  BY LeavesFrames, MovesFrames
<1> QED  BY <1>1, Carry DEF Keeps

LEMMA PushMoves ==
  ASSUME stack # <<>>, NEW q, NEW g, SameCall(Top, g), CanWork(Top) => CanWork(g),
         Starting(g, q) => Starting(Top, q), Pushes(g, Below)
  PROVE  Moves(q)
  BY DEF Moves, Pushes

\* A render whose root has another callback by now: that one renders.
LEMMA OtherCallbackSettles ==
  ASSUME Base, Base', NEW q \in Root, EvidenceOf(q),
         stack # <<>>, Below = <<>>, Top.wrapped, Starting(Top, q),
         roots[q].callbackNode \notin {NoNode, Top.prevCallbackNode},
         tasks' = tasks, syncQueue' = syncQueue,
         roots'[q].firstPendingTime = roots[q].firstPendingTime
  PROVE  EvidenceOf(q)'
<1>1. ToSet(stack) = {Top}
  BY TopFrame, EmptyStack DEF Base
<1>2. RenderComing(q)
  BY <1>1 DEF EvidenceOf
<1>3. \A f \in ToSet(stack) : ~Holds(f, q)
  BY <1>1 DEF Holds, Starting
<1>4. CASE \E task \in tasks : task.callback.fn = "renderRoot" /\ Renders(task.callback, q)
  BY <1>4, Settled DEF RenderComing, Renders
<1>5. CASE \E c \in ToSet(syncQueue) : Renders(c, q)
  <2>1. PICK c \in ToSet(syncQueue) : Renders(c, q)
    BY <1>5
  <2>2. c \in Callback /\ c.fn = "renderRoot"
    BY Elements DEF Base, QueueOK
  <2>3. Renders(c, q)'
    BY <2>1, <2>2 DEF Renders
  <2> QED  BY <2>1, <2>3, Settled DEF RenderComing
<1> QED  BY <1>2, <1>3, <1>4, <1>5 DEF RenderComing

\* A render on top waits for nothing that would settle its root first.
LEMMA TopSettled ==
  ASSUME Base, Settling, stack # <<>>
  PROVE  ~Unsettled(Top, roots)
<1>1. 1 \in 1 .. Len(stack) /\ stack[1] = Top
  BY DEF Base, StackOK, Top
<1> QED  BY <1>1 DEF Settling, SettledIn

LEMMA RenderPreparesEvidence ==
  ASSUME Base, Settling, NEW q \in Root, EvidenceOf(q), RenderPrepares
  PROVE  EvidenceOf(q)'
<1>1. PICK r \in Root, rs \in [Root -> RootRecord] :
        /\ r = Top.root /\ Base' /\ roots' = rs /\ OnlyAt(r, rs)
        /\ rs[r].finishedWork = Null
        /\ rs[r].firstPendingTime = roots[r].firstPendingTime
        /\ rs[r].callbackNode = roots[r].callbackNode
        /\ \/ /\ Top.isSync /\ clock < Top.time /\ clock \in 1 .. Sync
              /\ tasks \subseteq tasks'
              /\ Continues(RenderOf(r, clock, Top.wrapped), rs)
           \/ /\ tasks' = tasks
              /\ Pushes([Top EXCEPT !.at = "user"], Below)
  BY RenderPreparesStep
<1>2. /\ stack # <<>> /\ Top.fn = "renderRoot" /\ Top.at \in {"start", "prepare"}
      /\ Top \in FrameType /\ MayPush(Top, Below)
      /\ Top.at = "start" => ~NothingToRender(roots[Top.root], Top.time)
  BY TopAt DEF RenderPrepares
<1>3. Top.wrapped \in BOOLEAN /\ Top.isSync \in BOOLEAN /\ Top.time \in 1 .. Sync
  BY <1>2, RenderFrame
<1>4. pending' = pending /\ syncQueue' = syncQueue
  BY DEF RenderPrepares, updateVars
<1>5. CallbacksKept(q)
  BY <1>1, <1>4, TasksGrow
<1>6. ~Schedules(Top, q)
  BY <1>2 DEF Schedules
<1>7. roots \in [Root -> RootRecord] /\ roots[r].firstPendingTime \in Time
      /\ roots[q].firstPendingTime \in Time
  BY RecordFields DEF Base, Records
<1>8. CASE /\ Top.isSync /\ clock < Top.time /\ clock \in 1 .. Sync
           /\ Continues(RenderOf(r, clock, Top.wrapped), rs)
  <2>1. PICK c \in Callback : /\ c = RenderOf(r, clock, Top.wrapped)
                              /\ c.fn = "renderRoot" /\ c.root = r /\ c.time = clock
    BY <1>3, <1>8, RenderIsCallback
  <2>2. Continues(c, rs)
    BY <1>8, <2>1
  <2>3. Leaves(q)
    BY <1>2, <2>2, ContinuesLeaves
  <2>4. CASE q # r
    BY <1>1, <1>4, <1>5, <2>3, <2>4, OthersCarry DEF OnlyAt
  <2>5. CASE q = r /\ Top.time <= roots[r].firstPendingTime
    <3>1. c.time <= rs[r].firstPendingTime
      BY <1>1, <1>3, <1>7, <1>8, <2>1, <2>5 DEF Time
    <3>2. Renders(c, q)'
      BY <1>1, <2>1, <2>5, <3>1 DEF Renders
    <3> QED  BY <1>1, <2>2, <3>2, ContinuesSettles
  <2>6. CASE q = r /\ Top.time > roots[r].firstPendingTime
    <3>1. Top.at = "prepare"
      BY <1>1, <1>2, <1>3, <1>7, <2>6 DEF NothingToRender, Time
    <3>2. roots[q].finishedWork = Null
      BY <1>1, <1>2, <2>6, <3>1, TopSettled DEF Unsettled
    <3>3. RecordKept(q)
      BY <1>1, <1>7, <2>6, <3>2 DEF RecordKept, Time
    <3>4. ~Works(Top, q)
      BY <1>1, <1>2, <1>3, <1>7, <2>6 DEF Works, Renders, Time
    <3> QED  BY <1>1, <1>4, <1>5, <1>6, <2>3, <3>3, <3>4, CarryFrames
  <2> QED  BY <1>3, <1>7, <2>4, <2>5, <2>6 DEF Time
<1>9. CASE tasks' = tasks /\ Pushes([Top EXCEPT !.at = "user"], Below)
  <2>1. PICK g \in FrameType : /\ Pushes(g, Below) /\ SameCall(Top, g) /\ g.at = "user"
    BY <1>2, <1>9, MovedFrame DEF SameCall
  <2>2. g \in ToSet(stack') /\ CanWork(g) /\ ~Starting(g, q)
    BY <1>2, <2>1 DEF Pushes, CanWork, SameCall, Starting
  <2>3. Moves(q)
    BY <1>2, <2>1, <2>2, PushMoves
  <2>4. CASE q # r
    <3>1. RecordKept(q)
      BY <1>1, <2>4, SameRecord DEF OnlyAt
    <3> QED  BY <1>1, <1>4, <1>5, <1>6, <2>3, <3>1, CarryFrames
  <2>5. CASE q = r /\ Top.time > roots[r].firstPendingTime
    <3>1. Top.at = "prepare"
      BY <1>1, <1>2, <1>3, <1>7, <2>5 DEF NothingToRender, Time
    <3>2. roots[q].finishedWork = Null
      BY <1>1, <1>2, <2>5, <3>1, TopSettled DEF Unsettled
    <3>3. RecordKept(q)
      BY <1>1, <1>7, <2>5, <3>2 DEF RecordKept, Time
    <3> QED  BY <1>1, <1>4, <1>5, <1>6, <2>3, <3>3, CarryFrames
  <2>6. CASE q = r /\ Top.time <= roots[r].firstPendingTime
    <3>1. Works(g, q)'
      BY <1>1, <1>2, <2>1, <2>2, <2>6 DEF Works, CanWork, Renders, SameCall
    <3>2. CASE Holds(Top, q)
      <4>1. Holds(g, q)'
        BY <1>1, <2>1, <2>6, <3>2 DEF Holds, SameCall
      <4> QED  BY <1>1, <2>2, <3>1, <4>1, FrameSettles
    <3>3. CASE ~Holds(Top, q)
      <4>1. ~Top.isSync /\ Below = <<>> /\ Top.wrapped
            /\ Top.prevCallbackNode # roots[q].callbackNode
        BY <1>2, <3>3 DEF Holds, MayPush
      <4>2. Starting(Top, q)
        BY <1>1, <1>2, <2>6, <4>1 DEF Starting
      <4>3. CASE roots[q].callbackNode = NoNode
        <5>1. roots'[q].callbackNode = NoNode
          BY <1>1, <2>6, <4>3
        <5>2. Coming(q)'
          BY <2>2, <3>1 DEF Coming
        <5> QED  BY <5>1, <5>2 DEF EvidenceOf
      <4>4. CASE roots[q].callbackNode # NoNode
        BY <1>1, <1>2, <1>4, <1>9, <2>6, <4>1, <4>2, <4>4, OtherCallbackSettles
      <4> QED  BY <4>3, <4>4
    <3> QED  BY <3>2, <3>3
  <2> QED  BY <1>3, <1>7, <2>4, <2>5, <2>6 DEF Time
<1> QED  BY <1>1, <1>8, <1>9

LEMMA OutcomeOfOthers ==
  ASSUME Base, Base', NEW q \in Root, EvidenceOf(q), stack # <<>>,
         NEW r \in Root, r = Top.root, q # r, Top.wrapped \in BOOLEAN,
         NEW t \in 1 .. Sync, NEW rs, OnlyAt(r, rs), Outcome(r, t, rs), pending' = pending
  PROVE  EvidenceOf(q)'
<1>0. rs \in [Root -> RootRecord] /\ rs[q] = roots[q]
  BY DEF OnlyAt
<1>1. CASE \E last \in 1 .. Sync : /\ roots' = rs /\ tasks \subseteq tasks'
                                   /\ syncQueue' = syncQueue
                                   /\ Continues(RenderOf(r, last, Top.wrapped), rs)
  <2>1. PICK last \in 1 .. Sync : /\ roots' = rs /\ tasks \subseteq tasks'
                                  /\ syncQueue' = syncQueue
                                  /\ Continues(RenderOf(r, last, Top.wrapped), rs)
    BY <1>1
  <2>2. PICK c \in Callback : c = RenderOf(r, last, Top.wrapped)
    BY RenderIsCallback
  <2>3. Leaves(q) /\ CallbacksKept(q)
    BY <1>0, <2>1, <2>2, ContinuesLeaves, TasksGrow
  <2> QED  BY <1>0, <2>1, <2>3, OthersCarry
<1>2. CASE /\ roots' = AfterFinally(rs, {Top}) /\ stack' = Below /\ tasks' = tasks
           /\ ToSet(syncQueue) \subseteq ToSet(syncQueue')
  <2>1. PICK top : top = Top
    OBVIOUS
  <2>2. AfterFinally(rs, {top})[q] = rs[q]
    BY <1>0, <2>1, FinallyClears
  <2>3. Leaves(q) /\ CallbacksKept(q)
    BY <1>2, TasksAndQueueKept DEF Leaves
  <2> QED  BY <1>0, <1>2, <2>1, <2>2, <2>3, OthersCarry
<1>3. CASE /\ roots' = rs /\ tasks \subseteq tasks' /\ syncQueue' = syncQueue
           /\ Continues(CommitOf(r, Top.wrapped), rs)
  <2>1. PICK c \in Callback : c = CommitOf(r, Top.wrapped)
    BY CommitIsCallback
  <2>2. Leaves(q) /\ CallbacksKept(q)
    BY <1>0, <1>3, <2>1, ContinuesLeaves, TasksGrow
  <2> QED  BY <1>0, <1>3, <2>2, OthersCarry
<1> QED  BY <1>1, <1>2, <1>3 DEF Outcome

\* A timer will commit what the render has finished; another callback the
\* root has is still there.
LEMMA TimerSettles ==
  ASSUME Base, Base', NEW q \in Root, EvidenceOf(q), stack # <<>>,
         NEW f, f = Top, f.root = q, ~f.isSync, Below = <<>>,
         NEW rs \in [Root -> RootRecord],
         rs[q].firstPendingTime = roots[q].firstPendingTime,
         rs[q].callbackNode = roots[q].callbackNode,
         rs[q].finishedWork # Null, rs[q].timer,
         roots' = AfterFinally(rs, {f}), stack' = <<>>, tasks' = tasks, syncQueue' = syncQueue
  PROVE  EvidenceOf(q)'
<1>1. /\ SameButCallback(roots'[q], rs[q])
      /\ roots'[q].callbackNode \in {NoNode, rs[q].callbackNode}
      /\ roots'[q].callbackNode # NoNode =>
           \A g \in {f} : g.wrapped /\ g.root = q => g.prevCallbackNode # rs[q].callbackNode
  BY FinallyClears
<1>2. /\ roots'[q].firstPendingTime = roots[q].firstPendingTime
      /\ roots'[q].finishedWork # Null /\ roots'[q].timer
  BY <1>1 DEF SameButCallback
<1>3. Coming(q)'
  BY <1>2 DEF Coming, Scheduled
<1>4. ASSUME roots'[q].callbackNode # NoNode
      PROVE  CallbackComing(q)'
  <2>1. roots[q].callbackNode # NoNode /\ ~Holds(f, q)
    BY <1>1, <1>4 DEF Holds
  <2>2. ToSet(stack) = {f}
    BY TopFrame, EmptyStack DEF Base
  <2>3. CallbackComing(q)
    BY <2>1 DEF EvidenceOf
  <2>4. CASE \E task \in tasks : Renders(task.callback, q)
    <3>1. \E task \in tasks' : Renders(task.callback, q)'
      BY <1>2, <2>4 DEF Renders
    <3> QED  BY <3>1 DEF CallbackComing
  <2>5. CASE \E c \in ToSet(syncQueue) : Renders(c, q)
    <3>1. \E c \in ToSet(syncQueue') : Renders(c, q)'
      BY <1>2, <2>5 DEF Renders
    <3> QED  BY <3>1 DEF CallbackComing, RenderComing
  <2> QED  BY <2>1, <2>2, <2>3, <2>4, <2>5 DEF CallbackComing, RenderComing
<1> QED  BY <1>3, <1>4, EmptyStack DEF EvidenceOf

LEMMA RenderCompletesEvidence ==
  ASSUME Base, NEW q \in Root, EvidenceOf(q), NEW status \in Status, RenderCompletes(status)
  PROVE  EvidenceOf(q)'
<1>1. Base' /\ Top.root \in Root /\ roots[Top.root].finishedWork = Null
  BY RenderCompletesStep
<1>2. /\ stack # <<>> /\ Top.fn = "renderRoot" /\ Top.at = "user"
      /\ Top \in FrameType /\ MayPush(Top, Below)
  BY TopAt DEF RenderCompletes
<1>3. Top.wrapped \in BOOLEAN /\ Top.isSync \in BOOLEAN /\ Top.time \in 1 .. Sync
  BY <1>2, RenderFrame
<1>4. PICK r \in Root, t \in 1 .. Sync, f \in FrameType :
        r = Top.root /\ t = Top.time /\ f = Top
  BY <1>1, <1>2, <1>3
<1>5. PICK rs : /\ OnlyAt(r, rs)
                /\ rs[r].firstPendingTime = roots[r].firstPendingTime
                /\ rs[r].callbackNode = roots[r].callbackNode
                /\ Outcome(r, t, rs)
  BY <1>4, RenderCompletesStep
<1>6. pending' = pending
  BY DEF RenderCompletes, updateVars
<1>7. CASE q # r
  BY <1>1, <1>2, <1>3, <1>4, <1>5, <1>6, <1>7, OutcomeOfOthers
<1>8. CASE q = r
  <2>0. rs \in [Root -> RootRecord]
    BY <1>5 DEF OnlyAt
  <2>1. CASE \E last \in 1 .. Sync : /\ roots' = rs /\ last <= rs[r].firstPendingTime
                                     /\ Continues(RenderOf(r, last, Top.wrapped), rs)
    <3>1. PICK last \in 1 .. Sync : /\ roots' = rs /\ last <= rs[r].firstPendingTime
                                    /\ Continues(RenderOf(r, last, Top.wrapped), rs)
      BY <2>1
    <3>2. PICK c \in Callback : /\ c = RenderOf(r, last, Top.wrapped)
                                /\ c.fn = "renderRoot" /\ c.root = r /\ c.time = last
      BY <1>3, RenderIsCallback
    <3>3. Continues(c, rs) /\ Renders(c, q)'
      BY <1>8, <3>1, <3>2 DEF Renders
    <3> QED  BY <1>1, <2>0, <3>3, ContinuesSettles
  <2>2. CASE /\ roots' = AfterFinally(rs, {Top})
             /\ RenderOf(r, t, FALSE) \in ToSet(syncQueue')
             /\ t <= rs[r].firstPendingTime
    <3>1. roots'[r].firstPendingTime = rs[r].firstPendingTime
      BY <1>4, <2>0, <2>2, FinallyClears DEF SameButCallback
    <3>2. PICK c \in ToSet(syncQueue') : c.fn = "renderRoot" /\ c.root = r /\ c.time = t
      BY <2>2, RenderIsCallback
    <3>3. Renders(c, q)'
      BY <1>8, <2>2, <3>1, <3>2 DEF Renders
    <3> QED  BY <1>1, <3>3, Settled DEF RenderComing
  <2>3. CASE /\ ~Top.isSync /\ roots' = AfterFinally(rs, {Top}) /\ stack' = Below
             /\ tasks' = tasks /\ rs[r].finishedWork # Null /\ rs[r].timer
             /\ syncQueue' = syncQueue
    <3>1. Below = <<>>
      BY <1>2, <2>3 DEF MayPush
    <3> QED  BY <1>1, <1>2, <1>4, <1>5, <1>8, <2>0, <2>3, <3>1, TimerSettles
  <2>4. CASE /\ roots' = rs /\ rs[r].finishedWork # Null
             /\ Continues(CommitOf(r, Top.wrapped), rs)
    <3>1. PICK c \in Callback : /\ c = CommitOf(r, Top.wrapped)
                                /\ c.fn = "commitRoot" /\ c.root = r
      BY <1>3, CommitIsCallback
    <3>2. Continues(c, rs) /\ Renders(c, q)'
      BY <1>8, <2>4, <3>1 DEF Renders
    <3> QED  BY <1>1, <2>0, <3>2, ContinuesSettles
  <2> QED  BY <1>5, <2>1, <2>2, <2>3, <2>4 DEF Outcome
<1> QED  BY <1>7, <1>8

LEMMA CommitGoesOn ==
  ASSUME Top \in FrameType, Top.fn = "commitRoot", NEW at \in {"mutate", "user", "last", "throw"}
  PROVE  \E g \in FrameType : /\ g = [Top EXCEPT !.at = at]
                               /\ g.fn = "commitRoot" /\ g.at = at /\ g.root = Top.root
<1> DEFINE g == [Top EXCEPT !.at = at]
<1>1. g \in FrameType /\ g.fn = Top.fn /\ g.at = at /\ g.root = Top.root
  BY MovedFrame
<1>2. g = [Top EXCEPT !.at = at]
  OBVIOUS
<1> HIDE DEF g
<1> QED  BY <1>1, <1>2

LEMMA CommitMutatesEvidence ==
  ASSUME Base, NEW q \in Root, EvidenceOf(q), CommitMutates
  PROVE  EvidenceOf(q)'
<1>1. PICK r \in Root : r = Top.root
  BY CommitMutatesStep
<1>2. /\ Base' /\ OnlyAt(r, roots')
      /\ \A p \in Root : p # r => pending'[p] = pending[p]
      /\ roots'[r].callbackNode = NoNode
      /\ Pushes([Top EXCEPT !.at = "user"], Below)
  BY <1>1, CommitMutatesStep
<1>3. stack # <<>> /\ Top.fn = "commitRoot" /\ Top \in FrameType
  BY Commits, TopFrame DEF CommitMutates, Base
<1>4. PICK g \in FrameType :
        Pushes(g, Below) /\ g.fn = "commitRoot" /\ g.at = "user" /\ g.root = r
  BY <1>1, <1>2, <1>3, CommitGoesOn
<1>5. CASE q = r
  <2>1. Coming(q)'
    BY <1>4, <1>5 DEF Coming, Pushes
  <2> QED  BY <1>2, <1>5, <2>1 DEF EvidenceOf
<1>6. CASE q # r
  <2>1. Leaves(q)
    BY <1>3, <1>4 DEF Leaves, Pushes, Starting
  <2>2. CallbacksKept(q)
    BY TasksAndQueueKept DEF CommitMutates
  <2> QED  BY <1>1, <1>2, <1>6, <2>1, <2>2, OthersCarry DEF OnlyAt
<1> QED  BY <1>5, <1>6

LEMMA CallbackIsComing ==
  ASSUME Base', NEW q \in Root, CallbackComing(q)'
  PROVE  Coming(q)'
<1>1. CASE RenderComing(q)'
  BY <1>1, InQueueNext DEF RenderComing, Coming, Scheduled, Base
<1>2. CASE \E task \in tasks' : Renders(task.callback, q)'
  BY <1>2 DEF Coming, Scheduled
<1> QED  BY <1>1, <1>2 DEF CallbackComing

\* A root without updates has no callback.
LEMMA NoWorkNoCallback ==
  ASSUME Base, NEW r \in Root, roots[r].firstPendingTime = NoWork
  PROVE  pending[r] = {} /\ roots[r].callbackNode = NoNode
<1>1. roots[r] \in RootRecord /\ RecordOK(roots[r], pending[r]) /\ pending[r] \subseteq Update
  BY DEF Base, Records
<1>2. roots[r].callbackExpirationTime \in Time
  BY <1>1, RecordFields
<1>3. roots[r].callbackExpirationTime = NoWork
  BY <1>1, <1>2 DEF RecordOK, Time, NoWork
<1> QED  BY <1>1, <1>3, MaxTimeIs DEF RecordOK

\* A root that has a callback for a time has a callback node.
LEMMA CallbackHasNode ==
  ASSUME Base, NEW r \in Root, NEW t \in 1 .. Sync, roots[r].callbackExpirationTime >= t
  PROVE  roots[r].callbackNode # NoNode
<1>1. roots[r] \in RootRecord /\ RecordOK(roots[r], pending[r])
  BY DEF Base, Records
<1>2. roots[r].callbackExpirationTime \in Time
  BY <1>1, RecordFields
<1>3. roots[r].callbackExpirationTime # NoWork
  BY <1>2, RootAssumption DEF Time, NoWork
<1> QED  BY <1>1, <1>3 DEF RecordOK

LEMMA CommitFinishesEvidence ==
  ASSUME Base, CommitFinishes,
         NEW q \in Root, q \notin forgotten', q \notin forgotten => EvidenceOf(q)
  PROVE  EvidenceOf(q)'
<1>1. PICK r \in Root, t \in Time : r = Top.root /\ t = roots[r].firstPendingTime
  <2>1. roots[Top.root].firstPendingTime \in Time
    BY CommitFinishesStep, RecordFields DEF Base, Records
  <2> QED  BY <2>1, CommitFinishesStep
<1>2. /\ Base' /\ Remembered(r)
      /\ OnlyAt(r, roots') /\ SameButCallback(roots'[r], roots[r])
      /\ t = NoWork => UNCHANGED <<roots, tasks, syncQueue>>
      /\ t # NoWork => CallbackAdded(r, t)
      /\ \/ Pushes([Top EXCEPT !.at = "throw"], Below)
         \/ Flushes(Push([Top EXCEPT !.at = "last"], Below))
  BY <1>1, CommitFinishesStep
<1>3. /\ stack # <<>> /\ Top.fn = "commitRoot" /\ Top.at = "user" /\ Top \in FrameType
      /\ StackOK(Below)
  BY TopAt DEF CommitFinishes
<1>4. pending' = pending
  BY DEF CommitFinishes, updateVars
<1>5. Leaves(q) /\ ~Works(Top, q)
  <2>1. CASE Pushes([Top EXCEPT !.at = "throw"], Below)
    <3>1. PICK g \in FrameType : Pushes(g, Below) /\ g.fn = "commitRoot"
      BY <1>3, <2>1, CommitGoesOn
    <3> QED  BY <1>3, <3>1 DEF Leaves, Pushes, Starting, Works, CanWork
  <2>2. CASE Flushes(Push([Top EXCEPT !.at = "last"], Below))
    <3>1. PICK g \in FrameType : Flushes(Push(g, Below)) /\ g.fn = "commitRoot"
      BY <1>3, <2>2, CommitGoesOn
    <3>2. ToSet(Push(g, Below)) = {g} \cup ToSet(Below)
      BY <1>3, Pushed DEF StackOK
    <3> QED  BY <1>3, <3>1, <3>2, FlushesLeave DEF Leaves, Starting, Works, CanWork
  <2> QED  BY <1>2, <2>1, <2>2
<1>6. forgotten' \in {forgotten, forgotten \ {r}}
      /\ (roots'[r].callbackNode = roots[r].callbackNode => forgotten' = forgotten)
  BY <1>2, ForgottenRoots DEF Base
<1>7. CASE q # r
  <2>1. EvidenceOf(q)
    BY <1>6, <1>7
  <2>2. CallbacksKept(q)
    BY <1>2, <1>7, OthersKeepCallbacks, TasksAndQueueKept
  <2> QED  BY <1>1, <1>2, <1>4, <1>5, <1>7, <2>1, <2>2, OthersCarry DEF OnlyAt
<1>8. CASE q = r /\ t = NoWork
  <2>1. pending'[q] = {} /\ roots'[q].callbackNode = NoNode
    BY <1>1, <1>2, <1>4, <1>8, NoWorkNoCallback
  <2> QED  BY <2>1 DEF EvidenceOf
<1>9. CASE q = r /\ t # NoWork /\ Anew(r, t)
  <2>1. t \in 1 .. Sync /\ t <= roots'[r].firstPendingTime
    BY <1>1, <1>2, <1>9, RootAssumption DEF SameButCallback, Time, NoWork
  <2> QED  BY <1>2, <1>9, <2>1, AnewSettles
<1>10. CASE q = r /\ t # NoWork /\ ~Anew(r, t)
  <2>1. /\ roots[r].callbackExpirationTime >= t
        /\ roots'[r].callbackNode = roots[r].callbackNode
        /\ tasks' = tasks /\ syncQueue' = syncQueue
    BY <1>2, <1>10 DEF CallbackAdded
  <2>2. EvidenceOf(q)
    BY <1>6, <1>10, <2>1
  <2>3. t \in 1 .. Sync
    BY <1>1, <1>10, RootAssumption DEF Time, NoWork
  <2>4. roots[q].callbackNode # NoNode
    BY <1>10, <2>1, <2>3, CallbackHasNode
  <2>5. RecordKept(q)
    BY <1>1, <1>2, <1>10, <2>1 DEF RecordKept, SameButCallback, Time
  <2>6. CallbacksKept(q)
    BY <2>1, TasksAndQueueKept
  <2>7. FramesKept(q)
    BY <1>5, LeavesFrames
  <2>8. Keeps(q)
    BY <2>5, <2>6, <2>7 DEF Keeps
  <2>9. CallbackComing(q)'
    BY <1>2, <1>10, <2>1, <2>2, <2>4, <2>8, CallbackComingKept DEF EvidenceOf
  <2>10. Coming(q)'
    BY <1>2, <2>9, CallbackIsComing
  <2> QED  BY <1>2, <2>2, <2>8, <2>10, CarryCallbacks
<1> QED  BY <1>7, <1>8, <1>9, <1>10

LEMMA CommitReturnsEvidence ==
  ASSUME Base, NEW q \in Root, EvidenceOf(q), CommitReturns
  PROVE  EvidenceOf(q)'
<1>1. Base' /\ roots' = AfterFinally(roots, {Top}) /\ stack' = Below /\ tasks' = tasks
  BY CommitReturnsStep
<1>2. stack # <<>> /\ ~Works(Top, q) /\ ~Schedules(Top, q)
  BY TopAt DEF CommitReturns, Works, CanWork, Schedules
<1>3. CallbacksKept(q) /\ Leaves(q)
  BY <1>1, <1>2, TasksAndQueueKept DEF Leaves, CommitReturns
<1>4. PICK f : f = Top
  OBVIOUS
<1> QED  BY <1>1, <1>2, <1>3, <1>4, EndCarries DEF CommitReturns, updateVars

\* Of the calls on the stack only the top is at work.
LEMMA TopOrWaiting ==
  ASSUME Base, stack # <<>>, NEW f \in ToSet(stack)
  PROVE  f = Top \/ Waiting(f)
<1>1. stack \in Seq(FrameType) /\ \A i \in 2 .. Len(stack) : Waiting(stack[i])
  BY DEF Base, StackOK
<1>2. PICK i \in 1 .. Len(stack) : f = stack[i]
  BY <1>1, Elements
<1>3. Len(stack) \in Nat /\ (i = 1 => f = Top)
  BY <1>1, <1>2 DEF Top
<1>4. i = 1 \/ i \in 2 .. Len(stack)
  BY <1>3
<1> QED  BY <1>1, <1>2, <1>3, <1>4

LEMMA ErrorUnwindsEvidence ==
  ASSUME Base, ErrorUnwinds,
         NEW q \in Root, q \notin forgotten', q \notin forgotten => EvidenceOf(q)
  PROVE  EvidenceOf(q)'
<1>1. PICK done : Unwinds(done)
  BY ErrorUnwindsStep
<1>2. Base'
  BY ErrorUnwindsStep
<1>3. stack # <<>> /\ Top.fn = "commitRoot" /\ Top.at = "throw"
  BY TopAt DEF ErrorUnwinds
<1>4. pending' = pending /\ tasks' = tasks /\ syncQueue' = syncQueue
  BY DEF ErrorUnwinds, updateVars
<1>5. EvidenceOf(q)
  BY <1>1 DEF Unwinds
<1>6. ASSUME NEW f \in ToSet(stack)
      PROVE  ~Works(f, q) /\ ~Schedules(f, q)
  <2>1. f = Top \/ Waiting(f)
    BY <1>3, TopOrWaiting
  <2>2. ~Schedules(f, q)
    BY <1>3, <2>1 DEF Waiting, Schedules, Handlers
  <2>3. ASSUME Works(f, q)
        PROVE  FALSE
    <3>1. f.root = q /\ f.fn \in {"renderRoot", "commitRoot"} /\ f # Top
      BY <1>3, <2>3 DEF Works, CanWork, Renders
    <3>2. f.at \in {"prepare", "mutate"}
      <4>1. Waiting(f) /\ Position(f)
        BY <2>1, <3>1, Elements DEF Base, StackOK, FrameType
      <4> QED  BY <2>3, <3>1, <4>1 DEF Waiting, Position, Handlers, Works, CanWork
    <3>3. f \in done
      BY <1>1, <3>1 DEF Unwinds, OnlyHandlers, Handlers
    <3> QED  BY <1>1, <3>1, <3>2, <3>3 DEF Unwinds
  <2> QED  BY <2>2, <2>3
<1>7. FramesKept(q)
  BY <1>1, <1>6 DEF FramesKept, Unwinds, OnlyHandlers, Handlers, Starting
<1>8. roots \in [Root -> RootRecord] /\ roots[q].firstPendingTime \in Time
  BY RecordFields DEF Base, Records
<1>9. /\ SameButCallback(roots'[q], roots[q])
      /\ roots'[q].callbackNode \in {NoNode, roots[q].callbackNode}
  BY <1>1, <1>8, FinallyClears DEF Unwinds
<1>10. RecordKept(q)
  BY <1>8, <1>9 DEF RecordKept, SameButCallback, Time
<1>11. CallbacksKept(q)
  BY <1>4, TasksAndQueueKept
<1> QED  BY <1>2, <1>4, <1>5, <1>6, <1>7, <1>10, <1>11, Carry DEF Keeps

LEMMA PingEvidence ==
  ASSUME Base, NEW r \in Root, NEW t \in Time, PingSuspendedRoot(r, t),
         NEW q \in Root, q \notin forgotten', q \notin forgotten => EvidenceOf(q)
  PROVE  EvidenceOf(q)'
<1>1. Base' /\ stack = <<>> /\ stack' = stack /\ OnlyAt(r, roots')
  BY PingStep
<1>2. Stays(q)
  BY <1>1 DEF Stays
<1>3. FramesKept(q) /\ \A f \in ToSet(stack) : Schedules(f, q) => f \in ToSet(stack')
  BY <1>2, StaysFrames
<1>4. pending' = pending
  BY DEF PingSuspendedRoot, updateVars
<1>5. roots \in [Root -> RootRecord] /\ roots[q].firstPendingTime \in Time
  BY RecordFields DEF Base, Records
<1>6. CASE /\ roots[r].finishedWork = Null /\ roots'[r].finishedWork = Null
           /\ roots'[r].firstPendingTime = roots[r].firstPendingTime
           /\ roots'[r].callbackNode = roots[r].callbackNode
           /\ UNCHANGED <<tasks, syncQueue, forgotten>>
  <2>1. CallbacksKept(q)
    BY <1>6, TasksAndQueueKept
  <2>2. RecordKept(q)
    <3>1. CASE q = r
      BY <1>5, <1>6, <3>1 DEF RecordKept, Time
    <3>2. CASE q # r
      BY <1>1, <3>2, SameRecord DEF OnlyAt
    <3> QED  BY <3>1, <3>2
  <2> QED  BY <1>1, <1>3, <1>4, <1>6, <2>1, <2>2, Carry DEF Keeps
<1>7. CASE UNCHANGED <<roots, tasks, syncQueue, forgotten>>
  <2>1. CallbacksKept(q)
    BY <1>7, TasksAndQueueKept
  <2> QED  BY <1>1, <1>2, <1>4, <1>7, <2>1, CarryIdle
<1>8. CASE Pinged(r, t) /\ q # r
  <2>1. forgotten' = forgotten \cup {r} \/ Remembered(r)
    BY <1>8 DEF Pinged
  <2>2. EvidenceOf(q)
    BY <1>8, <2>1, ForgottenRoots DEF Base
  <2>3. CallbacksKept(q)
    BY <1>8, OthersKeepCallbacks DEF Pinged
  <2> QED  BY <1>1, <1>2, <1>4, <1>8, <2>2, <2>3, CarryIdle DEF OnlyAt
<1>9. CASE Pinged(r, t) /\ q = r
  <2>0. t \in 1 .. Sync
    <3>1. <<r, t>> \in pings /\ pings \subseteq Root \X (1 .. Sync)
      BY DEF PingSuspendedRoot, Base, Scalars
    <3> QED  BY <3>1
  <2>1. /\ roots'[r].firstPendingTime = roots[r].firstPendingTime
        /\ roots'[r].timer = roots[r].timer /\ t <= roots[r].firstPendingTime
        /\ CallbackAdded(r, t)
    BY <1>9 DEF Pinged
  <2>2. CASE Anew(r, t)
    BY <1>1, <1>9, <2>0, <2>1, <2>2, AnewSettles
  <2>3. CASE ~Anew(r, t)
    <3>1. /\ roots[r].callbackExpirationTime >= t
          /\ roots'[r].callbackNode = roots[r].callbackNode
          /\ tasks' = tasks /\ syncQueue' = syncQueue
      BY <2>1, <2>3 DEF CallbackAdded
    <3>2. Remembered(r)
      BY <1>9 DEF Pinged
    <3>3. EvidenceOf(q)
      BY <1>9, <3>1, <3>2, ForgottenRoots DEF Base
    <3>4. CASE roots'[r].finishedWork = roots[r].finishedWork
      <4>1. RecordKept(q)
        BY <1>5, <1>9, <2>1, <3>1, <3>4 DEF RecordKept, Time
      <4>2. CallbacksKept(q)
        BY <3>1, TasksAndQueueKept
      <4> QED  BY <1>1, <1>3, <1>4, <3>3, <4>1, <4>2, Carry DEF Keeps
    <3>5. CASE \A task \in tasks : task.callback # CommitOf(r, TRUE)
      <4>1. CallbackComing(r)
        BY <1>9, <2>0, <3>1, <3>3, CallbackHasNode DEF EvidenceOf
      <4>2. ASSUME NEW task \in tasks, Renders(task.callback, r)
            PROVE  task.callback.fn = "renderRoot"
        <5>1. task.callback \in Callback /\ task.callback.wrapped /\ task.callback.root = r
          BY <4>2 DEF Base, TasksOK, Renders
        <5>2. task.callback.fn # "renderRoot" => task.callback = CommitOf(r, TRUE)
          BY <5>1 DEF Callback, CommitOf
        <5> QED  BY <3>5, <5>2
      <4>3. CASE \E task \in tasks : task.callback.fn = "renderRoot" /\ Renders(task.callback, r)
        <5>1. \E task \in tasks' : task.callback.fn = "renderRoot" /\ Renders(task.callback, r)'
          BY <2>1, <3>1, <4>3 DEF Renders
        <5> QED  BY <1>1, <1>9, <5>1, Settled DEF RenderComing
      <4>4. CASE \E c \in ToSet(syncQueue) : Renders(c, r)
        <5>1. PICK c \in ToSet(syncQueue) : Renders(c, r)
          BY <4>4
        <5>2. c.fn = "renderRoot" /\ c \in ToSet(syncQueue')
          BY <3>1 DEF Base, QueueOK
        <5>3. Renders(c, r)'
          BY <2>1, <5>1, <5>2 DEF Renders
        <5> QED  BY <1>1, <1>9, <5>2, <5>3, Settled DEF RenderComing
      <4> QED  BY <1>1, <4>1, <4>2, <4>3, <4>4, EmptyStack DEF CallbackComing, RenderComing
    <3>6. \/ roots'[r].finishedWork = roots[r].finishedWork
          \/ \A task \in tasks : task.callback # CommitOf(r, TRUE)
      BY <1>9 DEF Pinged
    <3> QED  BY <3>4, <3>5, <3>6
  <2> QED  BY <2>2, <2>3
<1> QED  BY <1>6, <1>7, <1>8, <1>9, PingStep

LEMMA EvidenceStutters ==
  ASSUME Base, UNCHANGED vars, NEW q \in Root, EvidenceOf(q)
  PROVE  EvidenceOf(q)'
<1>1. Base' /\ Stays(q)
  BY BaseStutters DEF Stays, vars
<1>2. CallbacksKept(q)
  BY TasksAndQueueKept DEF vars
<1> QED  BY <1>1, <1>2, CarryIdle DEF vars, updateVars

LEMMA EvidenceStep ==
  ASSUME Base, Evidence, Settling, [Next]_vars
  PROVE  Evidence'
<1> SUFFICES ASSUME NEW q \in Root, q \notin forgotten'
             PROVE  EvidenceOf(q)'
  BY DEF Evidence
<1>0. q \notin forgotten => EvidenceOf(q)
  BY DEF Evidence
<1>1. CASE \E r \in Root, level \in Level : ScheduleUpdate(r, level)
  BY <1>0, <1>1, ScheduleUpdateEvidence
<1>2. CASE \E r \in Root, level \in Level : RetryTimedOutBoundary(r, level)
  BY <1>0, <1>2, RetryEvidence
<1>3. CASE \E fn \in Handlers : EnterHandler(fn)
  BY <1>0, <1>3, EnterHandlerEvidence DEF EnterHandler
<1>4. CASE LeaveHandler
  BY <1>0, <1>4, LeaveHandlerEvidence DEF LeaveHandler
<1>5. CASE FlushDiscreteUpdates
  BY <1>0, <1>5, FlushDiscreteEvidence DEF FlushDiscreteUpdates
<1>6. CASE FlushDiscreteEnds
  BY <1>0, <1>6, FlushDiscreteEndsEvidence DEF FlushDiscreteEnds
<1>7. CASE \E task \in tasks : SchedulerRuns(task)
  BY <1>0, <1>7, SchedulerRunsEvidence DEF SchedulerRuns
<1>8. CASE SchedulerRunsPassive
  BY <1>0, <1>8, SchedulerRunsPassiveEvidence DEF SchedulerRunsPassive
<1>9. CASE SchedulerFlushes
  BY <1>0, <1>9, SchedulerFlushesEvidence DEF SchedulerFlushes
<1>10. CASE FlushNext
  BY <1>0, <1>10, FlushNextEvidence DEF FlushNext
<1>11. CASE \E r \in Root : TimeoutFires(r)
  BY <1>0, <1>11, TimeoutFiresEvidence DEF TimeoutFires
<1>12. CASE TimePasses
  BY <1>0, <1>12, TimePassesEvidence DEF TimePasses
<1>13. CASE RenderNothing
  BY <1>0, <1>13, RenderNothingEvidence DEF RenderNothing
<1>14. CASE RenderFlushesPassive
  BY <1>0, <1>14, RenderFlushesPassiveEvidence DEF RenderFlushesPassive
<1>15. CASE RenderPrepares
  BY <1>0, <1>15, RenderPreparesEvidence DEF RenderPrepares
<1>16. CASE RenderYields
  BY <1>0, <1>16, RenderYieldsEvidence DEF RenderYields
<1>17. CASE \E status \in Status : RenderCompletes(status)
  BY <1>0, <1>17, RenderCompletesEvidence DEF RenderCompletes
<1>18. CASE CommitFlushesPassive
  BY <1>0, <1>18, CommitFlushesPassiveEvidence DEF CommitFlushesPassive
<1>19. CASE CommitMutates
  BY <1>0, <1>19, CommitMutatesEvidence DEF CommitMutates
<1>20. CASE CommitNothing
  BY <1>0, <1>20, CommitNothingEvidence DEF CommitNothing
<1>21. CASE CommitFinishes
  BY <1>0, <1>21, CommitFinishesEvidence
<1>22. CASE CommitReturns
  BY <1>0, <1>22, CommitReturnsEvidence DEF CommitReturns
<1>23. CASE EffectThrows
  BY <1>0, <1>23, EffectThrowsEvidence
<1>24. CASE PassiveFinishes
  BY <1>0, <1>24, PassiveFinishesEvidence DEF PassiveFinishes
<1>25. CASE PassiveReturns
  BY <1>0, <1>25, PassiveReturnsEvidence DEF PassiveReturns
<1>26. CASE ErrorUnwinds
  BY <1>0, <1>26, ErrorUnwindsEvidence
<1>27. CASE \E r \in Root, t \in Time : PingSuspendedRoot(r, t)
  BY <1>0, <1>27, PingEvidence
<1>28. CASE UNCHANGED vars
  BY <1>0, <1>28, EvidenceStutters DEF vars
<1> QED
  BY <1>1, <1>2, <1>3, <1>4, <1>5, <1>6, <1>7, <1>8, <1>9, <1>10, <1>11, <1>12, <1>13,
     <1>14, <1>15, <1>16, <1>17, <1>18, <1>19, <1>20, <1>21, <1>22, <1>23, <1>24, <1>25,
     <1>26, <1>27, <1>28
  DEF Next, Render, Commit

LEMMA InitEvidence ==
  ASSUME Init
  PROVE  Evidence
  BY EmptyStack DEF Init, Evidence, EvidenceOf
-----------------------------------------------------------------------------
(* Settling: a render that has waited finds its root settled.              *)

LEMMA EmptySettled ==
  ASSUME NEW rs, NEW R
  PROVE  SettledIn(<<>>, rs, R)
  BY DEF SettledIn

LEMMA SettledPush ==
  ASSUME NEW f \in FrameType, NEW s \in Seq(FrameType), NEW rs, NEW R, SettledIn(s, rs, R),
         \A r \in R : Replaces(f, r, rs), ~Unsettled(f, rs)
  PROVE  SettledIn(Push(f, s), rs, {})
<1> DEFINE u == Push(f, s)
<1>1. /\ Len(u) = Len(s) + 1 /\ Len(s) \in Nat /\ u[1] = f
      /\ \A i \in 1 .. Len(s) : u[i + 1] = s[i]
  BY Pushed, Elements
<1> HIDE DEF u
<1>2. ASSUME NEW i \in 1 .. Len(u), Unsettled(u[i], rs)
      PROVE  \E j \in 1 .. i - 1 : Replaces(u[j], u[i].root, rs)
  <2>1. PICK k \in 1 .. Len(s) : i = k + 1
    <3>1. i # 1
      BY <1>1, <1>2
    <3>2. i - 1 \in 1 .. Len(s) /\ i = (i - 1) + 1
      BY <1>1, <3>1
    <3> QED  BY <3>2
  <2>2. u[i] = s[k]
    BY <1>1, <2>1
  <2>3. CASE s[k].root \in R
    <3>1. Replaces(u[1], u[i].root, rs) /\ 1 \in 1 .. i - 1
      BY <1>1, <2>1, <2>2, <2>3
    <3> QED  BY <3>1
  <2>4. CASE \E j \in 1 .. k - 1 : Replaces(s[j], s[k].root, rs)
    <3>1. PICK j \in 1 .. k - 1 : Replaces(s[j], s[k].root, rs)
      BY <2>4
    <3>2. j \in 1 .. Len(s) /\ j + 1 \in 1 .. i - 1
      BY <1>1, <2>1, <3>1
    <3>3. Replaces(u[j + 1], u[i].root, rs)
      BY <1>1, <2>2, <3>1, <3>2
    <3> QED  BY <3>2, <3>3
  <2> QED  BY <1>2, <2>2, <2>3, <2>4 DEF SettledIn
<1> QED  BY <1>2 DEF SettledIn, u

\* A push that leaves no root out.
LEMMA SettledKept ==
  ASSUME NEW f \in FrameType, NEW s \in Seq(FrameType), NEW rs, SettledIn(s, rs, {}),
         ~Unsettled(f, rs)
  PROVE  SettledIn(Push(f, s), rs, {})
  BY SettledPush

LEMMA SettledPop ==
  ASSUME NEW s, StackOK(s), s # <<>>, NEW rs, SettledIn(s, rs, {})
  PROVE  /\ SettledIn(Tail(s), rs, {Head(s).root})
         /\ ~Replaces(Head(s), Head(s).root, rs) => SettledIn(Tail(s), rs, {})
<1> DEFINE u == Tail(s)
<1>1. /\ Len(u) = Len(s) - 1 /\ Len(s) \in Nat /\ Head(s) = s[1]
      /\ \A i \in 1 .. Len(u) : u[i] = s[i + 1]
  BY DEF StackOK
<1> HIDE DEF u
<1>2. ASSUME NEW i \in 1 .. Len(u), Unsettled(u[i], rs)
      PROVE  \/ u[i].root = Head(s).root /\ Replaces(Head(s), Head(s).root, rs)
             \/ \E j \in 1 .. i - 1 : Replaces(u[j], u[i].root, rs)
  <2>1. i + 1 \in 1 .. Len(s) /\ u[i] = s[i + 1]
    BY <1>1
  <2>2. PICK k \in 1 .. i : Replaces(s[k], u[i].root, rs)
    <3>1. PICK k \in 1 .. (i + 1) - 1 : Replaces(s[k], s[i + 1].root, rs)
      BY <1>2, <2>1 DEF SettledIn
    <3> QED  BY <2>1, <3>1
  <2>3. CASE k = 1
    BY <1>1, <2>2, <2>3 DEF Replaces
  <2>4. CASE k # 1
    <3>1. k - 1 \in 1 .. i - 1 /\ k - 1 \in 1 .. Len(u) /\ (k - 1) + 1 = k
      BY <1>1, <2>4
    <3>2. u[k - 1] = s[k]
      BY <1>1, <3>1
    <3> QED  BY <2>2, <3>1, <3>2
  <2> QED  BY <2>3, <2>4
<1> QED  BY <1>2 DEF SettledIn, u

\* The records change: a root without a finished tree is settled, and for
\* the others the time of what they have to render does not decrease.
LEMMA SettledRecords ==
  ASSUME NEW s \in Seq(FrameType), NEW rs \in [Root -> RootRecord],
         NEW next \in [Root -> RootRecord], NEW R, NEW S, SettledIn(s, rs, R),
         \A q \in Root : \/ next[q].finishedWork = Null
                         \/ q \in S
                         \/ /\ q \notin R /\ rs[q].finishedWork # Null
                            /\ next[q].firstPendingTime >= rs[q].firstPendingTime
  PROVE  SettledIn(s, next, S)
<1>1. \A q \in Root : rs[q].firstPendingTime \in Time /\ next[q].firstPendingTime \in Time
  BY RecordFields
<1>2. \A i \in 1 .. Len(s) : s[i].fn = "renderRoot" => s[i].root \in Root /\ s[i].time \in Time
  BY Elements DEF FrameType, FrameShape, Position, Handlers
<1>3. ASSUME NEW i \in 1 .. Len(s), Unsettled(s[i], next), s[i].root \notin S
      PROVE  \E j \in 1 .. i - 1 : Replaces(s[j], s[i].root, next)
  <2>1. PICK q \in Root : q = s[i].root /\ s[i].time \in Time
    BY <1>2, <1>3 DEF Unsettled
  <2>2. /\ q \notin R /\ rs[q].finishedWork # Null
        /\ next[q].firstPendingTime >= rs[q].firstPendingTime
    BY <1>3, <2>1 DEF Unsettled
  <2>3. Unsettled(s[i], rs)
    BY <1>1, <1>3, <2>1, <2>2 DEF Unsettled, Time
  <2>4. PICK j \in 1 .. i - 1 : Replaces(s[j], q, rs)
    BY <2>1, <2>2, <2>3 DEF SettledIn
  <2>5. j \in 1 .. Len(s)
    BY Elements
  <2>6. Replaces(s[j], q, next)
    BY <1>1, <1>2, <2>2, <2>4, <2>5 DEF Replaces, Time
  <2> QED  BY <2>1, <2>6
<1> QED  BY <1>3 DEF SettledIn

\* The usual case.
LEMMA SettledSame ==
  ASSUME NEW s \in Seq(FrameType), NEW rs \in [Root -> RootRecord],
         NEW next \in [Root -> RootRecord], SettledIn(s, rs, {}),
         \A q \in Root : /\ next[q].finishedWork \in {Null, rs[q].finishedWork}
                         /\ next[q].firstPendingTime >= rs[q].firstPendingTime
  PROVE  SettledIn(s, next, {})
  BY SettledRecords

LEMMA NotWaiting ==
  ASSUME NEW f, f.fn # "renderRoot" \/ f.at # "prepare", NEW rs
  PROVE  ~Unsettled(f, rs)
  BY DEF Unsettled

LEMMA FlushesSettled ==
  ASSUME NEW s \in Seq(FrameType), Flushes(s), NEW rs, SettledIn(s, rs, {})
  PROVE  SettledIn(stack', rs, {})
<1> DEFINE f == Frame("flush", "next", Null)
<1>1. f \in FrameType /\ f.fn = "flush"
  BY NewFrames, FlushFrame
<1> HIDE DEF f
<1>2. SettledIn(Push(f, s), rs, {})
  BY <1>1, NotWaiting, SettledKept
<1> QED  BY <1>2 DEF Flushes, f

LEMMA SettledTypes ==
  ASSUME Base
  PROVE  /\ roots \in [Root -> RootRecord]
         /\ stack \in Seq(FrameType) /\ StackOK(stack)
         /\ stack # <<>> => Below \in Seq(FrameType)
         /\ \A f \in ToSet(stack) : f \in FrameType
         /\ <<>> \in Seq(FrameType)
<1>1. stack # <<>> => Below \in Seq(FrameType)
  BY TopFrame DEF Base, StackOK
<1>2. \A f \in ToSet(stack) : f \in FrameType
  BY Elements DEF Base, StackOK
<1> QED  BY <1>1, <1>2, EmptySeq DEF Base, Records, StackOK

\* The call on top neither commits nor renders.
LEMMA SettledBelow ==
  ASSUME Base, Settling, stack # <<>>,
         Top.fn # "renderRoot" \/ Top.at = "user" \/ Top.time > roots[Top.root].firstPendingTime,
         Top.fn # "renderRoot" \/ Top.at # "prepare",
         Top.fn # "commitRoot" \/ Top.at \notin {"start", "mutate"}
  PROVE  SettledIn(Below, roots, {})
<1>1. ~Replaces(Top, Top.root, roots)
  <2>1. CASE Top.fn = "renderRoot" /\ Top.at = "start"
    <3>1. Top.root \in Root /\ Top.time \in 1 .. Sync
      BY <2>1, TopFrame, RenderFrame DEF Base
    <3>2. roots[Top.root].firstPendingTime \in Time
      BY <3>1, RecordFields DEF Base, Records
    <3> QED  BY <2>1, <3>1, <3>2 DEF Replaces, Time
  <2>2. CASE Top.fn # "renderRoot" \/ Top.at # "start"
    BY <2>2 DEF Replaces
  <2> QED  BY <2>1, <2>2
<1> QED  BY <1>1, SettledPop, SettledTypes DEF Settling, Top, Below

LEMMA EnterHandlerSettles ==
  ASSUME Base, Settling, NEW fn \in Handlers, EnterHandler(fn)
  PROVE  Settling'
<1>1. PICK f \in FrameType : f.fn = fn /\ Pushes(f, stack)
  <2>1. Frame(fn, "user", Null) \in FrameType /\ Frame(fn, "user", Null).fn = fn
    BY NewFrames DEF Frame
  <2> QED  BY <2>1, EnterHandlerStep
<1>2. ~Unsettled(f, roots)
  BY <1>1, NotWaiting DEF Handlers
<1> QED  BY <1>1, <1>2, SettledTypes, SettledKept DEF Settling, Pushes, EnterHandler

LEMMA LeaveHandlerSettles ==
  ASSUME Base, Settling, LeaveHandler
  PROVE  Settling'
<1>1. Flushes(Below) /\ stack # <<>> /\ roots' = roots
  BY LeaveHandlerStep DEF LeaveHandler
<1>2. SettledIn(Below, roots, {})
  BY <1>1, SettledBelow DEF LeaveHandler, Handlers
<1> QED  BY <1>1, <1>2, SettledTypes, FlushesSettled DEF Settling

LEMMA FlushDiscreteSettles ==
  ASSUME Base, Settling, FlushDiscreteUpdates
  PROVE  Settling'
<1> DEFINE f == Frame("flushDiscreteUpdates", "passive", Null)
<1>1. Flushes(Push(f, stack)) /\ roots' = roots
  BY FlushDiscreteStep DEF FlushDiscreteUpdates
<1>2. f \in FrameType /\ f.fn = "flushDiscreteUpdates"
  BY NewFrames DEF Frame
<1> HIDE DEF f
<1>3. Push(f, stack) \in Seq(FrameType)
  BY <1>2, SettledTypes, Pushed
<1>4. SettledIn(Push(f, stack), roots, {})
  BY <1>2, SettledTypes, NotWaiting, SettledKept DEF Settling
<1> QED  BY <1>1, <1>3, <1>4, FlushesSettled DEF Settling

LEMMA PassiveFrameSettled ==
  ASSUME NEW s \in Seq(FrameType), NEW r \in Root, NEW rs, SettledIn(s, rs, {}),
         Pushes(Frame("flushPassiveEffects", "user", r), s)
  PROVE  SettledIn(stack', rs, {})
<1> DEFINE f == Frame("flushPassiveEffects", "user", r)
<1>1. f \in FrameType /\ f.fn = "flushPassiveEffects"
  BY NewFrames, PassiveFrame
<1> HIDE DEF f
<1> QED  BY <1>1, NotWaiting, SettledKept DEF Pushes, f

LEMMA FlushDiscreteEndsSettles ==
  ASSUME Base, Settling, FlushDiscreteEnds
  PROVE  Settling'
<1>1. \/ stack' = Below
      \/ \E r \in Root : Pushes(Frame("flushPassiveEffects", "user", r), Below)
  BY FlushDiscreteEndsStep
<1>2. stack # <<>> /\ Top.fn = "flushDiscreteUpdates" /\ roots' = roots
  BY TopAt DEF FlushDiscreteEnds
<1>3. SettledIn(Below, roots, {})
  BY <1>2, SettledBelow
<1> QED  BY <1>1, <1>2, <1>3, SettledTypes, PassiveFrameSettled DEF Settling

LEMMA SchedulerRunsSettles ==
  ASSUME Base, Settling, NEW task \in tasks, SchedulerRuns(task)
  PROVE  Settling'
<1>1. PICK isSync \in BOOLEAN : Pushes(Called(roots, task.callback, isSync), <<>>)
  BY SchedulerRunsStep
<1>2. PICK f \in FrameType : f = Called(roots, task.callback, isSync) /\ f.at = "start"
  BY SchedulerRunsStep, SettledTypes, CalledFrame
<1>3. roots' = roots /\ stack' = Push(f, <<>>)
  BY <1>1, <1>2 DEF Pushes, SchedulerRuns
<1> QED  BY <1>2, <1>3, SettledTypes, EmptySettled, NotWaiting, SettledKept DEF Settling

LEMMA SchedulerRunsPassiveSettles ==
  ASSUME Base, Settling, SchedulerRunsPassive
  PROVE  Settling'
<1>1. \/ stack' = <<>>
      \/ \E r \in Root : Pushes(Frame("flushPassiveEffects", "user", r), <<>>)
  BY SchedulerRunsPassiveStep
<1> QED  BY <1>1, SettledTypes, EmptySettled, PassiveFrameSettled DEF Settling

LEMMA SchedulerFlushesSettles ==
  ASSUME Base, Settling, SchedulerFlushes
  PROVE  Settling'
  BY SchedulerFlushesStep, SettledTypes, EmptySettled, FlushesSettled DEF Settling

LEMMA FlushNextSettles ==
  ASSUME Base, Settling, FlushNext
  PROVE  Settling'
<1>1. stack # <<>> /\ Top.fn = "flush" /\ roots' = roots
  BY TopAt DEF FlushNext
<1>2. CASE stack' = Below
  BY <1>1, <1>2, SettledBelow DEF Settling
<1>3. CASE \E c \in Callback : Pushes(Called(roots, c, TRUE), stack)
  <2>1. PICK c \in Callback : Pushes(Called(roots, c, TRUE), stack)
    BY <1>3
  <2>2. PICK f \in FrameType : f = Called(roots, c, TRUE) /\ f.at = "start"
    BY SettledTypes, CalledFrame
  <2>3. stack' = Push(f, stack)
    BY <2>1, <2>2 DEF Pushes
  <2> QED  BY <1>1, <2>2, <2>3, SettledTypes, NotWaiting, SettledKept DEF Settling
<1> QED  BY <1>2, <1>3, FlushNextStep

LEMMA TimeoutFiresSettles ==
  ASSUME Base, Settling, NEW r \in Root, TimeoutFires(r)
  PROVE  Settling'
<1>1. Pushes(Called(roots, CommitOf(r, FALSE), TRUE), <<>>)
  BY TimeoutFiresStep
<1>2. PICK f \in FrameType : f = Called(roots, CommitOf(r, FALSE), TRUE) /\ f.at = "start"
  <2>1. CommitOf(r, FALSE) \in Callback
    BY CommitIsCallback
  <2> QED  BY <2>1, SettledTypes, CalledFrame
<1>3. stack' = Push(f, <<>>)
  BY <1>1, <1>2 DEF Pushes
<1> QED  BY <1>2, <1>3, SettledTypes, EmptySettled, NotWaiting, SettledKept DEF Settling

LEMMA PassiveFinishesSettles ==
  ASSUME Base, Settling, PassiveFinishes
  PROVE  Settling'
<1> DEFINE g == [Top EXCEPT !.at = "last"]
<1>1. Flushes(Push(g, Below)) /\ roots' = roots
  BY PassiveFinishesStep DEF PassiveFinishes
<1>2. stack # <<>> /\ Top.fn = "flushPassiveEffects" /\ Top \in FrameType
  BY TopAt DEF PassiveFinishes
<1>3. g \in FrameType /\ g.fn = "flushPassiveEffects"
  BY <1>2, MovedFrame
<1> HIDE DEF g
<1>4. SettledIn(Below, roots, {})
  BY <1>2, SettledBelow
<1>5. Below \in Seq(FrameType) /\ Push(g, Below) \in Seq(FrameType)
  BY <1>2, <1>3, SettledTypes, Pushed
<1>6. SettledIn(Push(g, Below), roots, {})
  BY <1>3, <1>4, <1>5, NotWaiting, SettledKept
<1> QED  BY <1>1, <1>5, <1>6, FlushesSettled DEF Settling

LEMMA PassiveReturnsSettles ==
  ASSUME Base, Settling, PassiveReturns
  PROVE  Settling'
<1>1. stack # <<>> /\ Top.fn = "flushPassiveEffects" /\ roots' = roots /\ stack' = Below
  BY TopAt, PassiveReturnsStep DEF PassiveReturns
<1> QED  BY <1>1, SettledBelow DEF Settling

LEMMA UpdateSettles ==
  ASSUME Base, Base', Settling, NEW r \in Root, NEW t, UpdateAdded(r, t),
         stack' = stack \/ (stack = <<>> /\ Flushes(<<>>))
  PROVE  Settling'
<1>1. roots \in [Root -> RootRecord] /\ roots' \in [Root -> RootRecord]
  BY DEF Base, Records
<1>2. ASSUME NEW q \in Root
      PROVE  /\ roots'[q].finishedWork \in {Null, roots[q].finishedWork}
             /\ roots'[q].firstPendingTime >= roots[q].firstPendingTime
  <2>1. roots[q].firstPendingTime \in Time
    BY <1>1, RecordFields
  <2> QED  BY <2>1 DEF UpdateAdded, Time
<1>3. CASE stack' = stack
  BY <1>1, <1>2, <1>3, SettledTypes, SettledSame DEF Settling
<1>4. CASE stack = <<>> /\ Flushes(<<>>)
  <2>1. SettledIn(<<>>, roots', {}) /\ <<>> \in Seq(FrameType)
    BY EmptySettled, SettledTypes
  <2> QED  BY <1>4, <2>1, FlushesSettled DEF Settling
<1> QED  BY <1>3, <1>4

LEMMA ScheduleUpdateSettles ==
  ASSUME Base, Settling, NEW r \in Root, NEW level \in Level,
         ScheduleUpdate(r, level) \/ RetryTimedOutBoundary(r, level)
  PROVE  Settling'
  BY ScheduleUpdateStep, RetryStep, UpdateSettles

LEMMA EffectThrowsSettles ==
  ASSUME Base, Settling, EffectThrows
  PROVE  Settling'
<1>1. PICK r \in Root : r = Top.root
  BY EffectThrowsStep
<1> QED  BY <1>1, EffectThrowsStep, UpdateSettles

\* What a continuation pushes is at its start.
LEMMA ContinuesSettled ==
  ASSUME Base, stack # <<>>, NEW rs \in [Root -> RootRecord], NEW c \in Callback, Continues(c, rs),
         NEW R, SettledIn(Below, rs, R),
         \A r \in R : /\ c.root = r
                      /\ c.fn = "commitRoot" \/ c.time <= rs[r].firstPendingTime
  PROVE  SettledIn(stack', rs, {})
<1>1. CASE stack' = <<>>
  BY <1>1, EmptySettled
<1>2. CASE Pushes(Called(rs, c, TRUE), Below)
  <2>1. PICK f \in FrameType :
          /\ f = Called(rs, c, TRUE) /\ f.at = "start"
          /\ f.fn = c.fn /\ f.root = c.root /\ f.time = c.time
          /\ f.fn \in {"renderRoot", "commitRoot"}
    BY CalledFrame
  <2>2. stack' = Push(f, Below)
    BY <1>2, <2>1 DEF Pushes
  <2>3. \A r \in R : Replaces(f, r, rs)
    BY <2>1 DEF Replaces
  <2>4. ~Unsettled(f, rs)
    BY <2>1, NotWaiting
  <2> QED  BY <2>1, <2>2, <2>3, <2>4, SettledTypes, SettledPush
<1> QED  BY <1>1, <1>2 DEF Continues

LEMMA FinallySettled ==
  ASSUME NEW s \in Seq(FrameType), NEW rs \in [Root -> RootRecord], NEW done,
         SettledIn(s, rs, {})
  PROVE  SettledIn(s, AfterFinally(rs, done), {})
<1> DEFINE next == AfterFinally(rs, done)
<1>1. next \in [Root -> RootRecord] /\ \A q \in Root : SameButCallback(next[q], rs[q])
  BY FinallyClears
<1> HIDE DEF next
<1>2. ASSUME NEW q \in Root
      PROVE  /\ next[q].finishedWork \in {Null, rs[q].finishedWork}
             /\ next[q].firstPendingTime >= rs[q].firstPendingTime
  <2>1. rs[q].firstPendingTime \in Time
    BY RecordFields
  <2> QED  BY <1>1, <2>1 DEF SameButCallback, Time
<1>3. SettledIn(s, next, {})
  BY <1>1, <1>2, SettledSame
<1> QED  BY <1>3 DEF next

LEMMA RenderNothingSettles ==
  ASSUME Base, Settling, RenderNothing
  PROVE  Settling'
<1>1. /\ stack # <<>> /\ Top.fn = "renderRoot" /\ Top.at = "start"
      /\ Top \in FrameType
  BY TopAt DEF RenderNothing
<1>2. Top.root \in Root /\ Top.wrapped \in BOOLEAN /\ Top.time \in 1 .. Sync
  BY <1>1, RenderFrame
<1>3. roots[Top.root].firstPendingTime \in Time
  BY <1>2, RecordFields DEF Base, Records
<1>4. CASE /\ roots[Top.root].firstPendingTime < Top.time
           /\ roots' = AfterFinally(roots, {Top}) /\ stack' = Below
  <2>1. Top.time > roots[Top.root].firstPendingTime
    BY <1>2, <1>3, <1>4 DEF Time
  <2>2. SettledIn(Below, roots, {})
    BY <1>1, <2>1, SettledBelow
  <2>3. PICK done : done = {Top}
    OBVIOUS
  <2> QED  BY <1>1, <1>4, <2>2, <2>3, SettledTypes, FinallySettled DEF Settling
<1>5. CASE roots' = roots /\ Continues(CommitOf(Top.root, Top.wrapped), roots)
  <2>1. SettledIn(Below, roots, {Top.root})
    BY <1>1, SettledPop, SettledTypes DEF Settling, Top, Below
  <2>2. PICK r \in Root, rs \in [Root -> RootRecord], c \in Callback :
          /\ r = Top.root /\ rs = roots /\ c = CommitOf(Top.root, Top.wrapped)
          /\ c.fn = "commitRoot" /\ c.root = r
    BY <1>2, SettledTypes, CommitIsCallback
  <2>3. Continues(c, rs) /\ SettledIn(Below, rs, {r})
    BY <1>5, <2>1, <2>2
  <2>4. SettledIn(stack', rs, {})
    BY <1>1, <2>2, <2>3, ContinuesSettled
  <2> QED  BY <1>5, <2>2, <2>4 DEF Settling
<1> QED  BY <1>4, <1>5, RenderNothingStep

\* The call on top flushes passive effects and then goes on as g.
LEMMA FlushesPassiveSettled ==
  ASSUME Base, Settling, stack # <<>>, NEW r \in Root, NEW g \in FrameType,
         Pushes(Frame("flushPassiveEffects", "user", r), Push(g, Below)), roots' = roots,
         Replaces(g, Top.root, roots), ~Unsettled(g, roots)
  PROVE  Settling'
<1>1. SettledIn(Below, roots, {Top.root}) /\ Below \in Seq(FrameType)
  BY SettledPop, SettledTypes DEF Settling, Top, Below
<1>2. SettledIn(Push(g, Below), roots, {}) /\ Push(g, Below) \in Seq(FrameType)
  BY <1>1, SettledPush, Pushed
<1> QED  BY <1>2, PassiveFrameSettled DEF Settling

LEMMA RenderFlushesPassiveSettles ==
  ASSUME Base, Settling, RenderFlushesPassive
  PROVE  Settling'
<1> DEFINE g == [Top EXCEPT !.at = "prepare"]
<1>1. PICK r \in Root : Pushes(Frame("flushPassiveEffects", "user", r), Push(g, Below))
  BY RenderFlushesPassiveStep
<1>2. /\ stack # <<>> /\ Top.fn = "renderRoot" /\ Top \in FrameType /\ roots' = roots
      /\ ~(roots[Top.root].firstPendingTime < Top.time)
  BY TopAt DEF RenderFlushesPassive, NothingToRender
<1>3. /\ g \in FrameType /\ g.fn = "renderRoot" /\ g.at = "prepare" /\ g.root = Top.root
      /\ g.time = Top.time
  BY <1>2, MovedFrame
<1> HIDE DEF g
<1>4. Top.root \in Root /\ Top.time \in 1 .. Sync
  BY <1>2, RenderFrame
<1>5. roots[Top.root].firstPendingTime \in Time
  BY <1>4, RecordFields DEF Base, Records
<1>6. Replaces(g, Top.root, roots) /\ ~Unsettled(g, roots)
  BY <1>2, <1>3, <1>4, <1>5 DEF Replaces, Unsettled, Time
<1> QED  BY <1>1, <1>2, <1>3, <1>6, FlushesPassiveSettled

LEMMA CommitFlushesPassiveSettles ==
  ASSUME Base, Settling, CommitFlushesPassive
  PROVE  Settling'
<1> DEFINE g == [Top EXCEPT !.at = "mutate"]
<1>1. PICK r \in Root : Pushes(Frame("flushPassiveEffects", "user", r), Push(g, Below))
  BY CommitFlushesPassiveStep
<1>2. stack # <<>> /\ Top.fn = "commitRoot" /\ Top \in FrameType /\ roots' = roots
  BY TopAt DEF CommitFlushesPassive
<1>3. g \in FrameType /\ g.fn = "commitRoot" /\ g.at = "mutate" /\ g.root = Top.root
  BY <1>2, MovedFrame
<1> HIDE DEF g
<1>4. Replaces(g, Top.root, roots) /\ ~Unsettled(g, roots)
  BY <1>3 DEF Replaces, Unsettled
<1> QED  BY <1>1, <1>2, <1>3, <1>4, FlushesPassiveSettled

\* The root of the call on top has no finished tree, be it by this step.
LEMMA DiscardSettles ==
  ASSUME Base, Settling, stack # <<>>, NEW r \in Root, r = Top.root,
         NEW rs, OnlyAt(r, rs), rs[r].finishedWork = Null
  PROVE  SettledIn(Below, rs, {})
<1>1. SettledIn(Below, roots, {r}) /\ Below \in Seq(FrameType) /\ roots \in [Root -> RootRecord]
  BY SettledPop, SettledTypes DEF Settling, Top, Below
<1>2. rs \in [Root -> RootRecord] /\ \A q \in Root : q # r => rs[q] = roots[q]
  BY DEF OnlyAt
<1>3. \A q \in Root : \/ rs[q].finishedWork = Null
                      \/ q \in {}
                      \/ /\ q \notin {r} /\ roots[q].finishedWork # Null
                         /\ rs[q].firstPendingTime >= roots[q].firstPendingTime
  <2>1. \A q \in Root : roots[q].firstPendingTime \in Time
    BY <1>1, RecordFields
  <2> QED  BY <1>2, <2>1 DEF Time
<1> QED  BY <1>1, <1>2, <1>3, SettledRecords

LEMMA RenderPreparesSettles ==
  ASSUME Base, Settling, RenderPrepares
  PROVE  Settling'
<1>1. PICK r \in Root, rs \in [Root -> RootRecord] :
        /\ r = Top.root /\ roots' = rs /\ OnlyAt(r, rs)
        /\ rs[r].finishedWork = Null
        /\ \/ /\ clock \in 1 .. Sync
              /\ Continues(RenderOf(r, clock, Top.wrapped), rs)
           \/ Pushes([Top EXCEPT !.at = "user"], Below)
  BY RenderPreparesStep
<1>2. stack # <<>> /\ Top.fn = "renderRoot" /\ Top \in FrameType
  BY TopAt DEF RenderPrepares
<1>3. SettledIn(Below, rs, {})
  BY <1>1, <1>2, DiscardSettles
<1>4. CASE clock \in 1 .. Sync /\ Continues(RenderOf(r, clock, Top.wrapped), rs)
  <2>1. PICK c \in Callback : c = RenderOf(r, clock, Top.wrapped)
    BY <1>2, <1>4, RenderFrame, RenderIsCallback
  <2> QED  BY <1>1, <1>2, <1>3, <1>4, <2>1, ContinuesSettled DEF Settling
<1>5. CASE Pushes([Top EXCEPT !.at = "user"], Below)
  <2>1. PICK g \in FrameType : Pushes(g, Below) /\ g.at = "user"
    BY <1>2, <1>5, MovedFrame
  <2> QED  BY <1>1, <1>2, <1>3, <2>1, SettledTypes, NotWaiting, SettledKept DEF Settling, Pushes
<1> QED  BY <1>1, <1>4, <1>5

LEMMA RenderYieldsSettles ==
  ASSUME Base, Settling, RenderYields
  PROVE  Settling'
  BY RenderYieldsStep, EmptySettled DEF Settling, Continues

LEMMA RenderCompletesSettles ==
  ASSUME Base, Settling, NEW status \in Status, RenderCompletes(status)
  PROVE  Settling'
<1>1. /\ stack # <<>> /\ Top.fn = "renderRoot" /\ Top.at = "user"
      /\ Top \in FrameType /\ MayPush(Top, Below)
  BY TopAt DEF RenderCompletes
<1>2. Top.wrapped \in BOOLEAN /\ Top.time \in 1 .. Sync /\ Top.root \in Root
  BY <1>1, RenderFrame
<1>3. PICK r \in Root, t \in 1 .. Sync : r = Top.root /\ t = Top.time
  BY <1>2
<1>4. PICK rs : /\ OnlyAt(r, rs)
                /\ rs[r].firstPendingTime = roots[r].firstPendingTime
                /\ Outcome(r, t, rs)
  BY <1>3, RenderCompletesStep
<1>5. rs \in [Root -> RootRecord] /\ \A q \in Root : q # r => rs[q] = roots[q]
  BY <1>4 DEF OnlyAt
<1>6. SettledIn(Below, rs, {r})
  <2>1. SettledIn(Below, roots, {})
    BY <1>1, SettledBelow
  <2>2. \A q \in Root : roots[q].firstPendingTime \in Time
    BY SettledTypes, RecordFields
  <2>3. \A q \in Root : \/ rs[q].finishedWork = Null
                        \/ q \in {r}
                        \/ /\ q \notin {} /\ roots[q].finishedWork # Null
                           /\ rs[q].firstPendingTime >= roots[q].firstPendingTime
    BY <1>5, <2>2 DEF Time
  <2> QED  BY <1>1, <1>5, <2>1, <2>3, SettledTypes, SettledRecords
<1>7. CASE \E last \in 1 .. Sync : /\ roots' = rs /\ last <= rs[r].firstPendingTime
                                   /\ Continues(RenderOf(r, last, Top.wrapped), rs)
  <2>1. PICK last \in 1 .. Sync : /\ roots' = rs /\ last <= rs[r].firstPendingTime
                                  /\ Continues(RenderOf(r, last, Top.wrapped), rs)
    BY <1>7
  <2>2. PICK c \in Callback : /\ c = RenderOf(r, last, Top.wrapped)
                              /\ c.root = r /\ c.time = last
    BY <1>2, RenderIsCallback
  <2>3. SettledIn(stack', rs, {})
    BY <1>1, <1>5, <1>6, <2>1, <2>2, ContinuesSettled
  <2> QED  BY <2>1, <2>3 DEF Settling
<1>8. CASE ~Top.isSync /\ stack' = Below
  <2>1. stack' = <<>>
    BY <1>1, <1>8 DEF MayPush
  <2> QED  BY <2>1, EmptySettled DEF Settling
<1>9. CASE roots' = rs /\ Continues(CommitOf(r, Top.wrapped), rs)
  <2>1. PICK c \in Callback : /\ c = CommitOf(r, Top.wrapped)
                              /\ c.fn = "commitRoot" /\ c.root = r
    BY <1>2, CommitIsCallback
  <2>2. SettledIn(stack', rs, {})
    BY <1>1, <1>5, <1>6, <1>9, <2>1, ContinuesSettled
  <2> QED  BY <1>9, <2>2 DEF Settling
<1> QED  BY <1>4, <1>7, <1>8, <1>9 DEF Outcome

LEMMA CommitMutatesSettles ==
  ASSUME Base, Settling, CommitMutates
  PROVE  Settling'
<1>1. PICK r \in Root : r = Top.root
  BY CommitMutatesStep
<1>2. /\ OnlyAt(r, roots') /\ roots'[r].finishedWork = Null
      /\ Pushes([Top EXCEPT !.at = "user"], Below)
  BY <1>1, CommitMutatesStep
<1>3. stack # <<>> /\ Top.fn = "commitRoot" /\ Top \in FrameType
  BY Commits, TopFrame DEF CommitMutates, Base
<1>4. PICK g \in FrameType : Pushes(g, Below) /\ g.fn = "commitRoot"
  BY <1>2, <1>3, CommitGoesOn
<1>5. SettledIn(Below, roots', {})
  BY <1>1, <1>2, <1>3, DiscardSettles
<1>6. Below \in Seq(FrameType) /\ ~Unsettled(g, roots')
  BY <1>3, <1>4, SettledTypes, NotWaiting
<1>7. SettledIn(Push(g, Below), roots', {})
  BY <1>5, <1>6, SettledKept
<1> QED  BY <1>4, <1>7 DEF Settling, Pushes

LEMMA CommitNothingSettles ==
  ASSUME Base, Settling, CommitNothing
  PROVE  Settling'
<1>1. stack # <<>> /\ Top.fn = "commitRoot" /\ Top \in FrameType /\ Top.root \in Root
  BY Commits, TopFrame DEF CommitNothing, Base
<1>2. PICK g \in FrameType : Pushes(g, Below) /\ g.fn = "commitRoot"
  BY <1>1, CommitNothingStep, CommitGoesOn
<1>3. roots' = roots /\ roots[Top.root].finishedWork = Null
  BY DEF CommitNothing
<1>4. PICK r \in Root : r = Top.root
  BY <1>1
<1>5. OnlyAt(r, roots)
  BY SettledTypes DEF OnlyAt
<1>6. SettledIn(Below, roots, {})
  BY <1>1, <1>3, <1>4, <1>5, DiscardSettles
<1>7. SettledIn(Push(g, Below), roots, {})
  BY <1>1, <1>2, <1>6, SettledTypes, NotWaiting, SettledKept
<1> QED  BY <1>2, <1>3, <1>7 DEF Settling, Pushes

LEMMA CommitFinishesSettles ==
  ASSUME Base, Settling, CommitFinishes
  PROVE  Settling'
<1>1. PICK r \in Root : r = Top.root
  BY CommitFinishesStep
<1>2. /\ Base' /\ OnlyAt(r, roots') /\ SameButCallback(roots'[r], roots[r])
      /\ \/ Pushes([Top EXCEPT !.at = "throw"], Below)
         \/ Flushes(Push([Top EXCEPT !.at = "last"], Below))
  BY <1>1, CommitFinishesStep
<1>3. /\ stack # <<>> /\ Top.fn = "commitRoot" /\ Top.at = "user" /\ Top \in FrameType
  BY TopAt DEF CommitFinishes
<1>4. roots' \in [Root -> RootRecord] /\ roots \in [Root -> RootRecord]
  BY <1>2, SettledTypes DEF OnlyAt
<1>5. SettledIn(Below, roots', {})
  <2>1. SettledIn(Below, roots, {}) /\ Below \in Seq(FrameType)
    BY <1>3, SettledBelow, SettledTypes
  <2>2. ASSUME NEW q \in Root
        PROVE  /\ roots'[q].finishedWork \in {Null, roots[q].finishedWork}
               /\ roots'[q].firstPendingTime >= roots[q].firstPendingTime
    <3>1. roots[q].firstPendingTime \in Time
      BY <1>4, RecordFields
    <3> QED  BY <1>2, <3>1 DEF OnlyAt, SameButCallback, Time
  <2> QED  BY <1>4, <2>1, <2>2, SettledSame
<1>6. ASSUME NEW g \in FrameType, g.fn = "commitRoot"
      PROVE  Push(g, Below) \in Seq(FrameType) /\ SettledIn(Push(g, Below), roots', {})
  <2>1. Below \in Seq(FrameType) /\ ~Unsettled(g, roots')
    BY <1>3, <1>6, SettledTypes, NotWaiting
  <2> QED  BY <1>5, <2>1, SettledKept, Pushed
<1>7. CASE Pushes([Top EXCEPT !.at = "throw"], Below)
  <2>1. PICK g \in FrameType : Pushes(g, Below) /\ g.fn = "commitRoot"
    BY <1>3, <1>7, CommitGoesOn
  <2> QED  BY <1>6, <2>1 DEF Pushes, Settling
<1>8. CASE Flushes(Push([Top EXCEPT !.at = "last"], Below))
  <2>1. PICK g \in FrameType : Flushes(Push(g, Below)) /\ g.fn = "commitRoot"
    BY <1>3, <1>8, CommitGoesOn
  <2> QED  BY <1>6, <2>1, FlushesSettled DEF Settling
<1> QED  BY <1>2, <1>7, <1>8

LEMMA CommitReturnsSettles ==
  ASSUME Base, Settling, CommitReturns
  PROVE  Settling'
<1>1. roots' = AfterFinally(roots, {Top}) /\ stack' = Below
  BY CommitReturnsStep
<1>2. stack # <<>> /\ Top.fn = "commitRoot" /\ Top.at = "last"
  BY TopAt DEF CommitReturns
<1>3. SettledIn(Below, roots, {})
  BY <1>2, SettledBelow
<1>4. PICK done : done = {Top}
  OBVIOUS
<1> QED  BY <1>1, <1>2, <1>3, <1>4, SettledTypes, FinallySettled DEF Settling

LEMMA HandlersSettled ==
  ASSUME Base', OnlyHandlers(stack')
  PROVE  Settling'
<1>1. stack' \in Seq(FrameType)
  BY DEF Base, StackOK
<1>2. \A i \in 1 .. Len(stack') : stack'[i].fn \in Handlers
  BY <1>1, Elements DEF OnlyHandlers
<1> QED  BY <1>2 DEF Settling, SettledIn, Unsettled, Handlers

LEMMA SettlingStutters ==
  ASSUME Settling, roots' = roots, stack' = stack
  PROVE  Settling'
  BY DEF Settling

LEMMA PingSettles ==
  ASSUME Base, Settling, NEW r \in Root, NEW t \in Time, PingSuspendedRoot(r, t)
  PROVE  Settling'
  BY PingStep, EmptySettled DEF Settling

LEMMA SettlingStep ==
  ASSUME Base, Settling, [Next]_vars
  PROVE  Settling'
<1>1. CASE \E r \in Root, level \in Level :
             ScheduleUpdate(r, level) \/ RetryTimedOutBoundary(r, level)
  BY <1>1, ScheduleUpdateSettles
<1>2. CASE \E fn \in Handlers : EnterHandler(fn)
  BY <1>2, EnterHandlerSettles
<1>3. CASE LeaveHandler
  BY <1>3, LeaveHandlerSettles
<1>4. CASE FlushDiscreteUpdates
  BY <1>4, FlushDiscreteSettles
<1>5. CASE FlushDiscreteEnds
  BY <1>5, FlushDiscreteEndsSettles
<1>6. CASE \E task \in tasks : SchedulerRuns(task)
  BY <1>6, SchedulerRunsSettles
<1>7. CASE SchedulerRunsPassive
  BY <1>7, SchedulerRunsPassiveSettles
<1>8. CASE SchedulerFlushes
  BY <1>8, SchedulerFlushesSettles
<1>9. CASE FlushNext
  BY <1>9, FlushNextSettles
<1>10. CASE \E r \in Root : TimeoutFires(r)
  BY <1>10, TimeoutFiresSettles
<1>11. CASE TimePasses
  BY <1>11, SettlingStutters DEF TimePasses
<1>12. CASE RenderNothing
  BY <1>12, RenderNothingSettles
<1>13. CASE RenderFlushesPassive
  BY <1>13, RenderFlushesPassiveSettles
<1>14. CASE RenderPrepares
  BY <1>14, RenderPreparesSettles
<1>15. CASE RenderYields
  BY <1>15, RenderYieldsSettles
<1>16. CASE \E status \in Status : RenderCompletes(status)
  BY <1>16, RenderCompletesSettles
<1>17. CASE CommitFlushesPassive
  BY <1>17, CommitFlushesPassiveSettles
<1>18. CASE CommitMutates
  BY <1>18, CommitMutatesSettles
<1>19. CASE CommitNothing
  BY <1>19, CommitNothingSettles
<1>20. CASE CommitFinishes
  BY <1>20, CommitFinishesSettles
<1>21. CASE CommitReturns
  BY <1>21, CommitReturnsSettles
<1>22. CASE EffectThrows
  BY <1>22, EffectThrowsSettles
<1>23. CASE PassiveFinishes
  BY <1>23, PassiveFinishesSettles
<1>24. CASE PassiveReturns
  BY <1>24, PassiveReturnsSettles
<1>25. CASE ErrorUnwinds
  BY <1>25, ErrorUnwindsStep, HandlersSettled DEF Unwinds
<1>26. CASE \E r \in Root, t \in Time : PingSuspendedRoot(r, t)
  BY <1>26, PingSettles
<1>27. CASE UNCHANGED vars
  BY <1>27, SettlingStutters DEF vars
<1> QED
  BY <1>1, <1>2, <1>3, <1>4, <1>5, <1>6, <1>7, <1>8, <1>9, <1>10, <1>11, <1>12, <1>13,
     <1>14, <1>15, <1>16, <1>17, <1>18, <1>19, <1>20, <1>21, <1>22, <1>23, <1>24, <1>25,
     <1>26, <1>27
  DEF Next, Render, Commit
-----------------------------------------------------------------------------
(* Passive: the commit that leaves passive effects schedules them.         *)

\* Passive effects that no task will flush yet.
Owed == passiveRoot # Null /\ ~passiveTask

LEMMA EndingPush ==
  ASSUME NEW f \in FrameType, NEW s \in Seq(FrameType),
         \/ f.fn = "commitRoot" /\ f.at = "last"
         \/ f.at \in {"next", "start"} /\ CommitEnding(s)
  PROVE  CommitEnding(Push(f, s))
<1> DEFINE u == Push(f, s)
<1>1. /\ Len(u) = Len(s) + 1 /\ Len(s) \in Nat /\ u[1] = f
      /\ \A i \in 1 .. Len(s) : u[i + 1] = s[i]
  BY Pushed, Elements
<1> HIDE DEF u
<1>2. CASE f.fn = "commitRoot" /\ f.at = "last"
  <2>1. 1 \in 1 .. Len(u) /\ \A j \in 1 .. 1 - 1 : u[j].at \in {"next", "start"}
    BY <1>1
  <2> QED  BY <1>1, <1>2, <2>1 DEF CommitEnding, u
<1>3. CASE f.at \in {"next", "start"} /\ CommitEnding(s)
  <2>1. PICK i \in 1 .. Len(s) : /\ s[i].fn = "commitRoot" /\ s[i].at = "last"
                                 /\ \A j \in 1 .. i - 1 : s[j].at \in {"next", "start"}
    BY <1>3 DEF CommitEnding
  <2>2. i + 1 \in 1 .. Len(u) /\ u[i + 1] = s[i]
    BY <1>1
  <2>3. ASSUME NEW j \in 1 .. (i + 1) - 1
        PROVE  u[j].at \in {"next", "start"}
    <3>1. CASE j = 1
      BY <1>1, <1>3, <3>1
    <3>2. CASE j # 1
      <4>1. j - 1 \in 1 .. i - 1 /\ j - 1 \in 1 .. Len(s) /\ (j - 1) + 1 = j
        BY <1>1, <3>2
      <4>2. u[j] = s[j - 1]
        BY <1>1, <4>1
      <4> QED  BY <2>1, <4>1, <4>2
    <3> QED  BY <3>1, <3>2
  <2> QED  BY <2>1, <2>2, <2>3 DEF CommitEnding, u
<1> QED  BY <1>2, <1>3

LEMMA EndingPop ==
  ASSUME NEW s, StackOK(s), CommitEnding(s)
  PROVE  /\ s # <<>>
         /\ \/ Head(s).fn = "commitRoot" /\ Head(s).at = "last"
            \/ Head(s).at \in {"next", "start"} /\ CommitEnding(Tail(s))
<1>1. PICK i \in 1 .. Len(s) : /\ s[i].fn = "commitRoot" /\ s[i].at = "last"
                               /\ \A j \in 1 .. i - 1 : s[j].at \in {"next", "start"}
  BY DEF CommitEnding
<1> DEFINE u == Tail(s)
<1>2. s # <<>> /\ Len(s) \in Nat /\ Head(s) = s[1]
  BY <1>1 DEF StackOK
<1>3. Len(u) = Len(s) - 1 /\ \A k \in 1 .. Len(u) : u[k] = s[k + 1]
  BY <1>2 DEF StackOK
<1> HIDE DEF u
<1>4. CASE i = 1
  BY <1>1, <1>2, <1>4
<1>5. CASE i # 1
  <2>1. 1 \in 1 .. i - 1 /\ i - 1 \in 1 .. Len(u) /\ (i - 1) + 1 = i
    BY <1>1, <1>2, <1>3, <1>5
  <2>2. u[i - 1] = s[i]
    BY <1>3, <2>1
  <2>3. ASSUME NEW k \in 1 .. (i - 1) - 1
        PROVE  u[k].at \in {"next", "start"}
    <3>1. k \in 1 .. Len(u) /\ k + 1 \in 1 .. i - 1
      BY <1>2, <1>3, <2>1
    <3> QED  BY <1>1, <1>3, <3>1
  <2>4. CommitEnding(u)
    BY <1>1, <2>1, <2>2, <2>3 DEF CommitEnding
  <2> QED  BY <1>1, <1>2, <2>1, <2>4 DEF u
<1> QED  BY <1>4, <1>5

\* Where the call on top is while passive effects are owed.
LEMMA OwedTop ==
  ASSUME Base, Passive, Owed
  PROVE  /\ stack # <<>> /\ CommitEnding(stack) /\ passiveRoot # Null
         /\ \/ Top.fn = "commitRoot" /\ Top.at = "last"
            \/ Top.at \in {"next", "start"} /\ CommitEnding(Below)
         /\ Below # <<>> \/ Top.fn = "commitRoot"
<1>1. CommitEnding(stack) /\ passiveRoot # Null
  BY DEF Passive, Owed
<1>2. /\ stack # <<>>
      /\ \/ Top.fn = "commitRoot" /\ Top.at = "last"
         \/ Top.at \in {"next", "start"} /\ CommitEnding(Below)
  BY <1>1, EndingPop DEF Base, Top, Below
<1>3. CommitEnding(Below) => Below # <<>>
  BY <1>2, TopFrame, EndingPop DEF Base
<1> QED  BY <1>1, <1>2, <1>3

LEMMA PassiveKept ==
  ASSUME Passive, Owed' => Owed, CommitEnding(stack) => CommitEnding(stack')
  PROVE  Passive'
  BY DEF Passive, Owed

\* Nothing is owed where the call on top is, and nothing comes to be.
LEMMA NothingOwed ==
  ASSUME Base, Passive, Owed' => Owed,
         stack = <<>> \/ Top.at \notin {"next", "start", "last"}
           \/ (Top.fn # "commitRoot" /\ Top.at = "last")
  PROVE  Passive'
<1>1. ~Owed
  BY OwedTop
<1> QED  BY <1>1 DEF Passive, Owed

LEMMA SameOwed ==
  ASSUME passiveRoot' \in {passiveRoot, Null}, passiveTask' = passiveTask
  PROVE  Owed' => Owed
  BY DEF Owed

LEMMA NoRootNotOwed ==
  ASSUME passiveRoot' = Null
  PROVE  Passive'
  BY DEF Passive

LEMMA FlushNextOwes ==
  ASSUME Base, Passive, FlushNext
  PROVE  Passive'
<1>1. stack # <<>> /\ Top.fn = "flush"
  BY TopAt DEF FlushNext
<1>2. Owed' => Owed
  BY SameOwed DEF FlushNext
<1>3. CASE stack' = Below
  <2>1. Owed' => CommitEnding(stack')
    BY <1>1, <1>2, <1>3, OwedTop
  <2> QED  BY <2>1 DEF Passive, Owed
<1>4. CASE \E c \in Callback : Pushes(Called(roots, c, TRUE), stack)
  <2>1. PICK c \in Callback : Pushes(Called(roots, c, TRUE), stack)
    BY <1>4
  <2>2. PICK f \in FrameType : f = Called(roots, c, TRUE) /\ f.at = "start"
    BY SettledTypes, CalledFrame
  <2>3. stack' = Push(f, stack)
    BY <2>1, <2>2 DEF Pushes
  <2>4. CommitEnding(stack) => CommitEnding(stack')
    BY <2>2, <2>3, SettledTypes, EndingPush
  <2> QED  BY <1>2, <2>4, PassiveKept
<1> QED  BY <1>3, <1>4, FlushNextStep

LEMMA RenderNothingOwes ==
  ASSUME Base, Passive, RenderNothing
  PROVE  Passive'
<1>1. /\ stack # <<>> /\ Top.fn = "renderRoot" /\ Top \in FrameType
  BY TopAt DEF RenderNothing
<1>2. Owed' => Owed
  BY SameOwed DEF RenderNothing
<1> SUFFICES ASSUME Owed
             PROVE  CommitEnding(stack')
  BY <1>2 DEF Passive, Owed
<1>3. CommitEnding(Below) /\ Below # <<>> /\ Below \in Seq(FrameType)
  BY <1>1, OwedTop, SettledTypes
<1>4. CASE stack' = Below
  BY <1>3, <1>4
<1>5. CASE Continues(CommitOf(Top.root, Top.wrapped), roots)
  <2>1. PICK c \in Callback : c = CommitOf(Top.root, Top.wrapped)
    BY <1>1, RenderFrame, CommitIsCallback
  <2>2. PICK f \in FrameType : f = Called(roots, c, TRUE) /\ f.at = "start"
    BY SettledTypes, CalledFrame
  <2>3. stack' = Push(f, Below)
    BY <1>3, <1>5, <2>1, <2>2 DEF Continues, Pushes
  <2> QED  BY <1>3, <2>2, <2>3, EndingPush
<1> QED  BY <1>4, <1>5, RenderNothingStep

LEMMA CommitFinishesOwes ==
  ASSUME Base, Passive, CommitFinishes
  PROVE  Passive'
<1>1. /\ stack # <<>> /\ Top.fn = "commitRoot" /\ Top.at = "user" /\ Top \in FrameType
  BY TopAt DEF CommitFinishes
<1>2. passiveTask' = passiveTask
  BY DEF CommitFinishes
<1>3. \/ passiveRoot' = passiveRoot
      \/ Flushes(Push([Top EXCEPT !.at = "last"], Below))
  BY CommitFinishesStep
<1>4. CASE passiveRoot' = passiveRoot
  BY <1>1, <1>2, <1>4, SameOwed, NothingOwed
<1>5. CASE Flushes(Push([Top EXCEPT !.at = "last"], Below))
  <2>1. PICK g \in FrameType : Flushes(Push(g, Below)) /\ g.fn = "commitRoot" /\ g.at = "last"
    BY <1>1, <1>5, CommitGoesOn
  <2>2. Below \in Seq(FrameType) /\ Push(g, Below) \in Seq(FrameType)
    BY <1>1, SettledTypes, Pushed
  <2>3. CommitEnding(Push(g, Below))
    BY <2>1, <2>2, EndingPush
  <2>4. PICK f \in FrameType : f = Frame("flush", "next", Null) /\ f.at = "next"
    BY NewFrames, FlushFrame
  <2>5. CommitEnding(Push(f, Push(g, Below)))
    BY <2>2, <2>3, <2>4, EndingPush
  <2> QED  BY <2>1, <2>3, <2>4, <2>5 DEF Flushes, Passive
<1> QED  BY <1>3, <1>4, <1>5

LEMMA UpdateOwes ==
  ASSUME Base, Passive, NEW r \in Root, NEW level \in Level, ScheduleUpdate(r, level)
  PROVE  Passive'
<1>1. Owed' => Owed
  BY SameOwed DEF ScheduleUpdate
<1>2. stack' = stack \/ stack = <<>>
  BY ScheduleUpdateStep
<1> QED  BY <1>1, <1>2, PassiveKept, NothingOwed

LEMMA EffectThrowsOwes ==
  ASSUME Passive, EffectThrows
  PROVE  Passive'
  BY SameOwed, PassiveKept DEF EffectThrows

LEMMA RenderPreparesOwes ==
  ASSUME Base, Passive, RenderPrepares
  PROVE  Passive'
<1>1. passiveRoot' = passiveRoot /\ passiveTask' = passiveTask
  BY DEF RenderPrepares
<1>2. CASE At("renderRoot", "prepare")
  BY <1>1, <1>2, TopAt, SameOwed, NothingOwed
<1>3. CASE passiveRoot = Null
  BY <1>1, <1>3, NoRootNotOwed
<1> QED  BY <1>2, <1>3 DEF RenderPrepares

LEMMA CommitsOwe ==
  ASSUME Base, Passive, MayCommit, passiveRoot' = passiveRoot, passiveTask' = passiveTask
  PROVE  Passive'
<1>1. CASE At("commitRoot", "mutate")
  BY <1>1, TopAt, SameOwed, NothingOwed
<1>2. CASE passiveRoot = Null
  BY <1>2, NoRootNotOwed
<1> QED  BY <1>1, <1>2 DEF MayCommit

\* The end of commitRoot schedules the task.
LEMMA CommitReturnsOwes ==
  ASSUME Base, Passive, CommitReturns
  PROVE  Passive'
<1>1. passiveRoot' = passiveRoot /\ (passiveRoot # Null => passiveTask')
  BY DEF CommitReturns, SchedulePassive
<1> QED  BY <1>1 DEF Passive

LEMMA PassiveStutters ==
  ASSUME Passive, UNCHANGED vars
  PROVE  Passive'
  BY DEF Passive, vars

LEMMA OwedStep ==
  ASSUME Base, Passive, [Next]_vars
  PROVE  Passive'
<1>1. CASE \E r \in Root, level \in Level : ScheduleUpdate(r, level)
  BY <1>1, UpdateOwes
<1>2. CASE \E r \in Root, level \in Level : RetryTimedOutBoundary(r, level)
  BY <1>2, SameOwed, NothingOwed DEF RetryTimedOutBoundary
<1>3. CASE \E fn \in Handlers : EnterHandler(fn)
  BY <1>3, SameOwed, NothingOwed DEF EnterHandler, UserCode
<1>4. CASE LeaveHandler
  BY <1>4, SameOwed, NothingOwed DEF LeaveHandler, UserCode
<1>5. CASE FlushDiscreteUpdates
  BY <1>5, SameOwed, NothingOwed DEF FlushDiscreteUpdates, UserCode
<1>6. CASE FlushDiscreteEnds
  BY <1>6, NoRootNotOwed DEF FlushDiscreteEnds, FlushPassiveEffects
<1>7. CASE \E task \in tasks : SchedulerRuns(task)
  BY <1>7, SameOwed, NothingOwed DEF SchedulerRuns
<1>8. CASE SchedulerRunsPassive
  BY <1>8, NoRootNotOwed DEF SchedulerRunsPassive, FlushPassiveEffects
<1>9. CASE SchedulerFlushes
  BY <1>9, SameOwed, NothingOwed DEF SchedulerFlushes
<1>10. CASE FlushNext
  BY <1>10, FlushNextOwes
<1>11. CASE \E r \in Root : TimeoutFires(r)
  BY <1>11, SameOwed, NothingOwed DEF TimeoutFires
<1>12. CASE TimePasses
  BY <1>12, SameOwed, NothingOwed DEF TimePasses
<1>13. CASE RenderNothing
  BY <1>13, RenderNothingOwes
<1>14. CASE RenderFlushesPassive
  BY <1>14, NoRootNotOwed DEF RenderFlushesPassive, FlushPassiveEffects
<1>15. CASE RenderPrepares
  BY <1>15, RenderPreparesOwes
<1>16. CASE RenderYields
  BY <1>16, TopAt, SameOwed, NothingOwed DEF RenderYields
<1>17. CASE \E status \in Status : RenderCompletes(status)
  <2>1. At("renderRoot", "user") /\ passiveRoot' = passiveRoot /\ passiveTask' = passiveTask
    BY <1>17 DEF RenderCompletes
  <2> QED  BY <2>1, TopAt, SameOwed, NothingOwed
<1>18. CASE CommitFlushesPassive
  BY <1>18, NoRootNotOwed DEF CommitFlushesPassive, FlushPassiveEffects
<1>19. CASE CommitMutates
  BY <1>19, CommitsOwe DEF CommitMutates
<1>20. CASE CommitNothing
  BY <1>20, CommitsOwe DEF CommitNothing
<1>21. CASE CommitFinishes
  BY <1>21, CommitFinishesOwes
<1>22. CASE CommitReturns
  BY <1>22, CommitReturnsOwes
<1>23. CASE EffectThrows
  BY <1>23, EffectThrowsOwes
<1>24. CASE PassiveFinishes
  BY <1>24, TopAt, SameOwed, NothingOwed DEF PassiveFinishes
<1>25. CASE PassiveReturns
  BY <1>25, TopAt, SameOwed, NothingOwed DEF PassiveReturns
<1>26. CASE ErrorUnwinds
  BY <1>26, TopAt, SameOwed, NothingOwed DEF ErrorUnwinds
<1>27. CASE \E r \in Root, t \in Time : PingSuspendedRoot(r, t)
  BY <1>27, SameOwed, NothingOwed DEF PingSuspendedRoot
<1>28. CASE UNCHANGED vars
  BY <1>28, PassiveStutters
<1> QED
  BY <1>1, <1>2, <1>3, <1>4, <1>5, <1>6, <1>7, <1>8, <1>9, <1>10, <1>11, <1>12, <1>13,
     <1>14, <1>15, <1>16, <1>17, <1>18, <1>19, <1>20, <1>21, <1>22, <1>23, <1>24, <1>25,
     <1>26, <1>27, <1>28
  DEF Next, Render, Commit
-----------------------------------------------------------------------------
(* The inductive invariant.                                                *)

LEMMA RootInvariant == Spec => []IInv
<1>1. Init => IInv
  <2> SUFFICES ASSUME Init
               PROVE  IInv
    OBVIOUS
  <2>1. Base /\ Evidence
    BY InitBase, InitEvidence
  <2>2. Settling
    BY EmptySettled DEF Init, Settling
  <2>3. Passive
    BY DEF Init, Passive
  <2> QED  BY <2>1, <2>2, <2>3 DEF IInv
<1>2. IInv /\ [Next]_vars => IInv'
  BY BaseStep, EvidenceStep, SettlingStep, OwedStep DEF IInv
<1> QED  BY <1>1, <1>2, PTL DEF Spec

(***************************************************************************)
(* Between events no work is forgotten: a root with an update that         *)
(* commitRootImpl has not retired has a task, a queued synchronous         *)
(* callback or a timer that will find work to do, and passive effects left *)
(* by a commit have a task, whatever renders, commits, effects and errors  *)
(* were nested in one another, for every set of roots.  The two known ways *)
(* to lose a root's callback are left out.                                 *)
(***************************************************************************)
THEOREM RootPendingWorkIsScheduled == Spec => []PendingWorkIsScheduled
<1>1. ASSUME IInv, stack = <<>>
      PROVE  /\ \A r \in Root \ forgotten : pending[r] # {} => Scheduled(r)
             /\ passiveRoot # Null => passiveTask
  <2>1. ASSUME NEW r \in Root \ forgotten, pending[r] # {}
        PROVE  Scheduled(r)
    <3>1. Coming(r)
      BY <1>1, <2>1 DEF IInv, Evidence, EvidenceOf
    <3> QED  BY <1>1, <3>1, EmptyStack DEF Coming
  <2>2. passiveRoot # Null => passiveTask
    BY <1>1 DEF IInv, Passive, CommitEnding
  <2> QED  BY <2>1, <2>2
<1>2. IInv => PendingWorkIsScheduled
  BY <1>1 DEF PendingWorkIsScheduled
<1> QED  BY <1>2, RootInvariant, PTL
=============================================================================
