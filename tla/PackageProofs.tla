--------------------------- MODULE PackageProofs ----------------------------
(***************************************************************************)
(* Proofs about three packages that programs use by themselves: the        *)
(* tracing of interactions (scheduler/tracing, with what the root does for *)
(* it), the cache of react-cache and the components of                     *)
(* create-subscription.  For each the invariant that its data structures   *)
(* keep, and what it promises, for every number of interactions, calls,    *)
(* keys, entries, sources and updates.                                     *)
(*                                                                         *)
(* Tracing (InteractionsComplete).  The count of an interaction is the     *)
(* number of places that hold it: the calls that began with it, the        *)
(* wrapped callbacks that wait and the times of the root at which it has   *)
(* work.  An interaction is completed when that number comes down to 0,    *)
(* and stays completed because whatever is traced is held somewhere: by a  *)
(* call further outside, or, in the work of the root, at a time at which   *)
(* that work is still pending.                                             *)
(*                                                                         *)
(* The cache (KeepsLastUsed).  The pointers link the entries of the        *)
(* history of uses, in its order.  Putting an entry in front, taking one   *)
(* out and deleting the last one are steps from one such list to another;  *)
(* a clean-up is as many deletions as the limit asks for.                  *)
(*                                                                         *)
(* Subscriptions (ShowsCurrentValue).  The recursion over an update queue  *)
(* has a closed form: the value is that of the last update that counts.    *)
(* The values of a source come in the order in which it emitted them, so   *)
(* that updates which a render skips cannot lead back to an earlier one;   *)
(* and a queue is on track when all its updates together lead to what the  *)
(* source of the component has now.  A commit that finds another value     *)
(* than was rendered brings the queue on track.                            *)
(***************************************************************************)
EXTENDS Tracing, ReactCache, CreateSubscription, FiniteSetTheorems, SequenceTheorems,
        NaturalsInduction, WellFoundedInduction, TLAPS

Kinds == {"trace", "clear", "wrapped", "render", "commit", "passive"}
WorkingKinds == {"render", "commit", "passive"}
Frame == [kind : Kinds, of : SUBSET Nat, previous : SUBSET Nat]
Wrap == [interactions : SUBSET Nat, state : {"waiting", "running", "run", "cancelled"}]
Update == [time : Time, interactions : SUBSET Nat, late : BOOLEAN]

TracingTypeOK ==
  /\ count \in Seq(Nat) /\ completions \in Seq(Nat) /\ Len(completions) = Len(count)
  /\ interactionsRef \subseteq Nat /\ memoizedInteractions \subseteq Nat
  /\ frames \in Seq(Frame) /\ wraps \in Seq(Wrap)
  /\ pendingInteractionMap \in [Time -> SUBSET Nat] /\ rootUpdates \subseteq Update
  /\ scheduled \in Nat /\ workInProgressTime \in Time \cup {NoWork}
  /\ renderFinished \in BOOLEAN /\ passivePending \in BOOLEAN

\* Whatever holds interactions holds ones that have begun.
KnownInteractions ==
  /\ interactionsRef \subseteq Interactions /\ memoizedInteractions \subseteq Interactions
  /\ \A k \in DOMAIN frames : frames[k].of \cup frames[k].previous \subseteq Interactions
  /\ \A w \in DOMAIN wraps : wraps[w].interactions \subseteq Interactions
  /\ \A t \in Time : pendingInteractionMap[t] \subseteq Interactions

\* The places that hold an interaction.
FramesWith(f, i) == {k \in DOMAIN f : i \in f[k].of}
WrapsWith(w, i) == {k \in DOMAIN w : w[k].state = "waiting" /\ i \in w[k].interactions}
TimesWith(map, i) == {t \in Time : i \in map[t]}
Holds(f, w, map, i) ==
  Cardinality(FramesWith(f, i)) + Cardinality(WrapsWith(w, i)) + Cardinality(TimesWith(map, i))

CountsHold == \A i \in Interactions : count[i] = Holds(frames, wraps, pendingInteractionMap, i)
CompletedAtNone == \A i \in Interactions : completions[i] = IF count[i] = 0 THEN 1 ELSE 0

\* What the call number k traces, and who holds it.
Scope(k) == IF k = Len(frames) THEN interactionsRef ELSE frames[k + 1].previous
WorkingAt(k) == frames[k].kind \in WorkingKinds
HeldWithin(k, i) ==
  \E j \in 1 .. k : i \in frames[j].of \/ (WorkingAt(j) /\ i \in memoizedInteractions)
ScopesAreHeld == \A k \in 0 .. Len(frames) : \A i \in Scope(k) : HeldWithin(k, i)

FramesOK ==
  /\ \A k \in DOMAIN frames : frames[k].kind \notin {"trace", "wrapped"} => frames[k].of = {}
  /\ \A j, k \in DOMAIN frames : WorkingAt(j) /\ WorkingAt(k) => j = k
  /\ \A k \in DOMAIN frames :
       /\ frames[k].kind = "render" => workInProgressTime # NoWork
       /\ frames[k].kind \in {"commit", "passive"} => workInProgressTime = NoWork
       /\ WorkingAt(k) => ~passivePending
  /\ renderFinished => workInProgressTime # NoWork
  /\ passivePending => workInProgressTime = NoWork

\* The interactions of the work that is in progress are pending at some time.
MemoizedArePending ==
  workInProgressTime # NoWork \/ passivePending \/ (\E k \in DOMAIN frames : WorkingAt(k)) =>
    \A i \in memoizedInteractions : \E t \in Time : i \in pendingInteractionMap[t]

UpdatesArePending ==
  \A u \in rootUpdates : u.interactions \subseteq pendingInteractionMap[u.time]

\* Between commits, nothing is pending at a time more urgent than the updates.
NoneAbove ==
  passivePending \/ (\E k \in DOMAIN frames : frames[k].kind \in {"commit", "passive"})
  \/ \A t \in Time : t > firstPendingTime => pendingInteractionMap[t] = {}

TracingInv ==
  /\ TracingTypeOK /\ KnownInteractions /\ CountsHold /\ CompletedAtNone /\ ScopesAreHeld
  /\ FramesOK /\ MemoizedArePending /\ UpdatesArePending /\ NoneAbove

-----------------------------------------------------------------------------
(***************************************************************************)
(* How the places of an interaction change.                                *)
(***************************************************************************)
\* A non-empty set of times and NoWork has a greatest element, and Max is it.
LEMMA MaxOfTimes ==
  ASSUME NEW N \in Nat, NEW S, S \subseteq 0 .. N, S # {}
  PROVE  Max(S) \in S /\ \A y \in S : y <= Max(S)
<1> DEFINE D == {N - x : x \in S}
<1>0. D \subseteq Nat /\ D # {}
  <2>1. \A x \in S : N - x \in Nat
    OBVIOUS
  <2>2. PICK x \in S : TRUE
    OBVIOUS
  <2>3. N - x \in D
    BY <2>2
  <2> QED  BY <2>1, <2>3
<1> HIDE DEF D
<1>1. PICK d \in D : \A y \in D : ~(<<y, d>> \in OpToRel(<, Nat))
  BY <1>0, NatLessThanWellFounded, WFMin, Zenon
<1>2. ASSUME NEW y \in D
      PROVE  d <= y
  <2>1. <<y, d>> \in Nat \X Nat /\ <<y, d>>[1] = y /\ <<y, d>>[2] = d
    BY <1>0
  <2>2. y < d => <<y, d>> \in OpToRel(<, Nat)
    BY <2>1, Zenon DEF OpToRel
  <2>3. ~(y < d)
    BY <1>1, <2>2, Zenon
  <2> QED  BY <1>0, <2>3
<1>3. PICK x \in S : d = N - x
  BY <1>1 DEF D
<1>4. \A y \in S : x >= y
  <2> TAKE y \in S
  <2>1. d <= N - y
    BY <1>2 DEF D
  <2> QED  BY <1>3, <2>1
<1>5. Max(S) \in S /\ \A y \in S : Max(S) >= y
  BY <1>4, Zenon DEF Max
<1> QED  BY <1>5

LEMMA FramesWithFinite ==
  ASSUME NEW f \in Seq(Frame), NEW i
  PROVE  IsFiniteSet(FramesWith(f, i)) /\ Cardinality(FramesWith(f, i)) \in Nat
<1>1. Len(f) \in Nat /\ DOMAIN f = 1 .. Len(f)
  OBVIOUS
<1>2. IsFiniteSet(1 .. Len(f))
  BY <1>1, FS_Interval
<1>3. FramesWith(f, i) \subseteq 1 .. Len(f)
  BY <1>1 DEF FramesWith
<1> QED  BY <1>2, <1>3, FS_Subset, FS_CardinalityType

LEMMA WrapsWithFinite ==
  ASSUME NEW w \in Seq(Wrap), NEW i
  PROVE  IsFiniteSet(WrapsWith(w, i)) /\ Cardinality(WrapsWith(w, i)) \in Nat
<1>1. Len(w) \in Nat /\ DOMAIN w = 1 .. Len(w)
  OBVIOUS
<1>2. IsFiniteSet(1 .. Len(w))
  BY <1>1, FS_Interval
<1>3. WrapsWith(w, i) \subseteq 1 .. Len(w)
  BY <1>1 DEF WrapsWith
<1> QED  BY <1>2, <1>3, FS_Subset, FS_CardinalityType

LEMMA TimesFinite ==
  ASSUME NEW T, T \subseteq Time
  PROVE  IsFiniteSet(T) /\ Cardinality(T) \in Nat
<1>1. IsFiniteSet(Time)
  BY TracingAssumption, FS_Interval DEF Time
<1> QED  BY <1>1, FS_Subset, FS_CardinalityType

\* A call that begins holds what it is of; when it ends, it no longer does.
LEMMA FramesWithEntered ==
  ASSUME NEW f \in Seq(Frame), NEW r \in Frame, NEW i
  PROVE  Cardinality(FramesWith(Append(f, r), i))
           = Cardinality(FramesWith(f, i)) + IF i \in r.of THEN 1 ELSE 0
<1> DEFINE A == FramesWith(f, i)
           n == Len(f) + 1
<1>1. IsFiniteSet(A)
  BY FramesWithFinite
<1>2. n \notin A
  BY DEF FramesWith
<1>3. FramesWith(Append(f, r), i) = IF i \in r.of THEN A \cup {n} ELSE A
  BY DEF FramesWith
<1>4. Cardinality(A \cup {n}) = Cardinality(A) + 1
  <2> HIDE DEF A, n
  <2> QED  BY <1>1, <1>2, FS_AddElement
<1>5. Cardinality(A) \in Nat
  BY FramesWithFinite
<1> HIDE DEF A, n
<1> QED  BY <1>3, <1>4, <1>5 DEF A

LEMMA FramesWithLeft ==
  ASSUME NEW f \in Seq(Frame), f # <<>>, NEW i
  PROVE  Cardinality(FramesWith(SubSeq(f, 1, Len(f) - 1), i))
           = Cardinality(FramesWith(f, i)) - IF i \in f[Len(f)].of THEN 1 ELSE 0
<1> DEFINE g == SubSeq(f, 1, Len(f) - 1)
           r == f[Len(f)]
<1>1. g \in Seq(Frame) /\ r \in Frame
  OBVIOUS
<1>2. FramesWith(f, i) = FramesWith(Append(g, r), i)
  BY DEF FramesWith
<1>3. Cardinality(FramesWith(g, i)) \in Nat
  BY <1>1, FramesWithFinite
<1> HIDE DEF g, r
<1>4. Cardinality(FramesWith(f, i)) = Cardinality(FramesWith(g, i)) + IF i \in r.of THEN 1 ELSE 0
  BY <1>1, <1>2, FramesWithEntered
<1>5. Cardinality(FramesWith(g, i)) = Cardinality(FramesWith(f, i)) - IF i \in r.of THEN 1 ELSE 0
  BY <1>3, <1>4
<1> QED  BY <1>5 DEF g, r

\* A wrapped callback holds its interactions while it waits.
LEMMA WrapsWithWrapped ==
  ASSUME NEW w \in Seq(Wrap), NEW r \in Wrap, r.state = "waiting", NEW i
  PROVE  Cardinality(WrapsWith(Append(w, r), i))
           = Cardinality(WrapsWith(w, i)) + IF i \in r.interactions THEN 1 ELSE 0
<1> DEFINE A == WrapsWith(w, i)
           n == Len(w) + 1
<1>1. IsFiniteSet(A) /\ Cardinality(A) \in Nat
  BY WrapsWithFinite
<1>2. n \notin A
  BY DEF WrapsWith
<1>3. WrapsWith(Append(w, r), i) = IF i \in r.interactions THEN A \cup {n} ELSE A
  BY DEF WrapsWith
<1>4. Cardinality(A \cup {n}) = Cardinality(A) + 1
  <2> HIDE DEF A, n
  <2> QED  BY <1>1, <1>2, FS_AddElement
<1> HIDE DEF A, n
<1> QED  BY <1>1, <1>3, <1>4 DEF A

Settled(w, k, state) == [w EXCEPT ![k].state = state]

LEMMA WrapsWithSettled ==
  ASSUME NEW w \in Seq(Wrap), NEW k \in DOMAIN w, NEW state \in {"running", "run", "cancelled"}, NEW i
  PROVE  Cardinality(WrapsWith(Settled(w, k, state), i))
           = IF w[k].state = "waiting" /\ i \in w[k].interactions
             THEN Cardinality(WrapsWith(w, i)) - 1 ELSE Cardinality(WrapsWith(w, i))
<1> DEFINE A == WrapsWith(w, i)
<1>1. IsFiniteSet(A) /\ Cardinality(A) \in Nat
  BY WrapsWithFinite
<1>2. WrapsWith(Settled(w, k, state), i) = A \ {k}
  BY DEF WrapsWith, Settled
<1>3. k \in A <=> w[k].state = "waiting" /\ i \in w[k].interactions
  BY DEF WrapsWith
<1> HIDE DEF A
<1>4. Cardinality(A \ {k}) = IF k \in A THEN Cardinality(A) - 1 ELSE Cardinality(A)
  BY <1>1, FS_RemoveElement
<1> QED  BY <1>2, <1>3, <1>4, Zenon DEF A

LEMMA SettledWraps ==
  ASSUME NEW w \in Seq(Wrap), NEW k \in DOMAIN w, NEW state \in {"running", "run", "cancelled"},
         NEW v, v = Settled(w, k, state)
  PROVE  /\ v \in Seq(Wrap) /\ DOMAIN v = DOMAIN w
         /\ \A j \in DOMAIN w : v[j].interactions = w[j].interactions
<1>1. w[k] \in Wrap /\ Len(w) \in Nat /\ DOMAIN w = 1 .. Len(w)
  OBVIOUS
<1>2. ASSUME NEW r \in Wrap, NEW q, q = [r EXCEPT !.state = state]
      PROVE  q \in Wrap /\ q.interactions = r.interactions
  BY <1>2 DEF Wrap
<1> DEFINE q == [w[k] EXCEPT !.state = state]
<1>3. q \in Wrap /\ q.interactions = w[k].interactions
  BY <1>1, <1>2
<1>4. v = [w EXCEPT ![k] = q]
  BY DEF Settled
<1> HIDE DEF q
<1>5. v \in Seq(Wrap) /\ DOMAIN v = DOMAIN w
  BY <1>1, <1>3, <1>4
<1>6. \A j \in DOMAIN w : v[j] = IF j = k THEN q ELSE w[j]
  BY <1>1, <1>4
<1>7. \A j \in DOMAIN w : v[j].interactions = w[j].interactions
  BY <1>3, <1>6
<1> QED  BY <1>5, <1>7

\* The root holds an interaction once more if it is new at the time.
LEMMA TimesWithPended ==
  ASSUME NEW map \in [Time -> SUBSET Nat], NEW t \in Time, NEW interactions, NEW i
  PROVE  Cardinality(TimesWith(Pended(map, t, interactions), i))
           = Cardinality(TimesWith(map, i))
               + IF i \in Unscheduled(map, t, interactions) THEN 1 ELSE 0
<1> DEFINE A == TimesWith(map, i)
<1>1. IsFiniteSet(A) /\ Cardinality(A) \in Nat
  BY TimesFinite DEF TimesWith
<1>2. TimesWith(Pended(map, t, interactions), i) = IF i \in interactions THEN A \cup {t} ELSE A
  BY DEF TimesWith, Pended
<1>3. i \in Unscheduled(map, t, interactions) <=> i \in interactions /\ t \notin A
  BY DEF TimesWith, Unscheduled
<1> HIDE DEF A
<1>4. Cardinality(A \cup {t}) = IF t \in A THEN Cardinality(A) ELSE Cardinality(A) + 1
  BY <1>1, FS_AddElement
<1>5. Cardinality(TimesWith(Pended(map, t, interactions), i))
        = Cardinality(A) + IF i \in interactions /\ t \notin A THEN 1 ELSE 0
  BY <1>1, <1>2, <1>4
<1> QED  BY <1>3, <1>5 DEF A

\* The times that are finished hold it no longer.
LEMMA TimesWithFinished ==
  ASSUME pendingInteractionMap \in [Time -> SUBSET Nat], NEW i
  PROVE  Cardinality(TimesWith(FinishedMap, i))
           = Cardinality(TimesWith(pendingInteractionMap, i))
               - Cardinality({t \in FinishedTimes : i \in pendingInteractionMap[t]})
<1> DEFINE A == TimesWith(pendingInteractionMap, i)
           B == {t \in FinishedTimes : i \in pendingInteractionMap[t]}
<1>1. IsFiniteSet(A) /\ Cardinality(A) \in Nat
  BY TimesFinite DEF TimesWith
<1>2. IsFiniteSet(B) /\ Cardinality(B) \in Nat
  BY TimesFinite DEF FinishedTimes
<1>3. TimesWith(FinishedMap, i) = A \ B /\ A \cap B = B
  BY DEF TimesWith, FinishedMap, FinishedTimes
<1> HIDE DEF A, B
<1>4. Cardinality(A \ B) = Cardinality(A) - Cardinality(A \cap B)
  BY <1>1, FS_Difference
<1>5. Cardinality(TimesWith(FinishedMap, i)) = Cardinality(A) - Cardinality(B)
  BY <1>3, <1>4
<1> QED  BY <1>5 DEF A, B
-----------------------------------------------------------------------------
(***************************************************************************)
(* What the invariant says of the counts.                                  *)
(***************************************************************************)
\* An interaction that something holds has a count above 0.
LEMMA HeldIsCounted ==
  ASSUME TracingTypeOK, KnownInteractions, CountsHold
  PROVE  /\ \A k \in DOMAIN frames : \A i \in frames[k].of : i \in Interactions /\ count[i] > 0
         /\ \A w \in DOMAIN wraps : \A i \in wraps[w].interactions :
              wraps[w].state = "waiting" => i \in Interactions /\ count[i] > 0
         /\ \A t \in Time : \A i \in pendingInteractionMap[t] : i \in Interactions /\ count[i] > 0
<1> DEFINE F(i) == FramesWith(frames, i)
           W(i) == WrapsWith(wraps, i)
           T(i) == TimesWith(pendingInteractionMap, i)
<1>1. ASSUME NEW i \in Interactions
      PROVE  /\ IsFiniteSet(F(i)) /\ Cardinality(F(i)) \in Nat /\ IsFiniteSet(W(i))
             /\ Cardinality(W(i)) \in Nat /\ IsFiniteSet(T(i)) /\ Cardinality(T(i)) \in Nat
  <2>1. T(i) \subseteq Time
    BY DEF TimesWith
  <2> QED  BY <2>1, FramesWithFinite, WrapsWithFinite, TimesFinite DEF TracingTypeOK
<1>2. ASSUME NEW i \in Interactions, F(i) # {} \/ W(i) # {} \/ T(i) # {}
      PROVE  count[i] > 0
  <2>1. count[i] = Cardinality(F(i)) + Cardinality(W(i)) + Cardinality(T(i))
    BY DEF CountsHold, Holds
  <2> DEFINE cF == F(i)
             cW == W(i)
             cT == T(i)
  <2>2. (cF # {} => Cardinality(cF) # 0) /\ (cW # {} => Cardinality(cW) # 0)
        /\ (cT # {} => Cardinality(cT) # 0)
    <3>1. IsFiniteSet(cF) /\ IsFiniteSet(cW) /\ IsFiniteSet(cT)
      BY <1>1
    <3> HIDE DEF cF, cW, cT
    <3> QED  BY <3>1, FS_EmptySet
  <2> HIDE DEF F, W, T
  <2> QED  BY <1>1, <1>2, <2>1, <2>2
<1>3. ASSUME NEW k \in DOMAIN frames, NEW i \in frames[k].of
      PROVE  i \in Interactions /\ count[i] > 0
  <2>1. i \in Interactions /\ k \in F(i)
    BY DEF KnownInteractions, FramesWith
  <2> QED  BY <1>2, <2>1
<1>4. ASSUME NEW w \in DOMAIN wraps, NEW i \in wraps[w].interactions, wraps[w].state = "waiting"
      PROVE  i \in Interactions /\ count[i] > 0
  <2>1. i \in Interactions /\ w \in W(i)
    BY <1>4 DEF KnownInteractions, WrapsWith
  <2> QED  BY <1>2, <2>1
<1>5. ASSUME NEW t \in Time, NEW i \in pendingInteractionMap[t]
      PROVE  i \in Interactions /\ count[i] > 0
  <2>1. i \in Interactions /\ t \in T(i)
    BY DEF KnownInteractions, TimesWith
  <2> QED  BY <1>2, <2>1
<1> QED  BY <1>3, <1>4, <1>5

\* What is traced is held by a call, or pending at a time of the root.
LEMMA TracedIsCounted ==
  ASSUME TracingTypeOK, KnownInteractions, CountsHold, ScopesAreHeld, MemoizedArePending,
         NEW k \in 0 .. Len(frames), NEW i \in Scope(k)
  PROVE  i \in Interactions /\ count[i] > 0
<1>1. PICK j \in 1 .. k : i \in frames[j].of \/ (WorkingAt(j) /\ i \in memoizedInteractions)
  BY DEF ScopesAreHeld, HeldWithin
<1>2. j \in DOMAIN frames
  BY DEF TracingTypeOK
<1>3. CASE i \in frames[j].of
  BY <1>2, <1>3, HeldIsCounted
<1>4. CASE WorkingAt(j) /\ i \in memoizedInteractions
  <2>1. PICK t \in Time : i \in pendingInteractionMap[t]
    BY <1>2, <1>4 DEF MemoizedArePending
  <2> QED  BY <2>1, HeldIsCounted
<1> QED  BY <1>1, <1>3, <1>4

LEMMA CurrentIsCounted ==
  ASSUME TracingTypeOK, KnownInteractions, CountsHold, ScopesAreHeld, MemoizedArePending
  PROVE  \A i \in interactionsRef : i \in Interactions /\ count[i] > 0
<1>1. Len(frames) \in 0 .. Len(frames) /\ Scope(Len(frames)) = interactionsRef
  BY DEF TracingTypeOK, Scope
<1> QED  BY <1>1, TracedIsCounted

\* The caller's interactions, once a call of React's own has returned, are held by
\* the calls further outside.
LEMMA CallersAreHeld ==
  ASSUME TracingTypeOK, ScopesAreHeld, FramesOK, frames # <<>>, WorkingAt(Len(frames))
  PROVE  \A i \in innermost.previous : \E j \in 1 .. Len(frames) - 1 : i \in frames[j].of
<1>1. TAKE i \in innermost.previous
<1>2. Len(frames) - 1 \in 0 .. Len(frames) /\ Scope(Len(frames) - 1) = innermost.previous
  BY DEF TracingTypeOK, Scope, innermost
<1>3. PICK j \in 1 .. Len(frames) - 1 :
        i \in frames[j].of \/ (WorkingAt(j) /\ i \in memoizedInteractions)
  BY <1>2 DEF ScopesAreHeld, HeldWithin
<1>4. ~WorkingAt(j)
  BY <1>3 DEF FramesOK, TracingTypeOK
<1> QED  BY <1>3, <1>4

FirstOf(set) == Max({u.time : u \in set} \cup {NoWork})

LEMMA FirstOfUpdates ==
  ASSUME NEW set, set \subseteq Update
  PROVE  /\ FirstOf(set) \in 0 .. MaxRootTime
         /\ \A u \in set : u.time \in Time /\ u.time <= FirstOf(set)
         /\ FirstOf(set) = NoWork \/ \E u \in set : u.time = FirstOf(set)
<1> DEFINE S == {u.time : u \in set} \cup {NoWork}
<1>1. \A u \in set : u.time \in Time
  BY DEF Update
<1>2. S \subseteq 0 .. MaxRootTime /\ S # {}
  BY <1>1, TracingAssumption DEF Time, NoWork
<1>3. Max(S) \in S /\ \A y \in S : y <= Max(S)
  <2> HIDE DEF S
  <2> QED  BY <1>2, TracingAssumption, MaxOfTimes
<1> QED  BY <1>1, <1>2, <1>3, Zenon DEF FirstOf

LEMMA FirstPending ==
  ASSUME TracingTypeOK
  PROVE  /\ firstPendingTime \in 0 .. MaxRootTime
         /\ \A u \in rootUpdates : u.time \in Time /\ u.time <= firstPendingTime
         /\ firstPendingTime = NoWork \/ \E u \in rootUpdates : u.time = firstPendingTime
<1>1. firstPendingTime = FirstOf(rootUpdates) /\ rootUpdates \subseteq Update
  BY DEF firstPendingTime, FirstOf, TracingTypeOK
<1> QED  BY <1>1, FirstOfUpdates, Zenon

\* Counts that change and do not rise from 0: who is done stays done.
LEMMA CountsChange ==
  ASSUME TracingTypeOK, CompletedAtNone, NEW counts \in [Interactions -> Nat], Counts(counts),
         \A i \in Interactions : count[i] = 0 => counts[i] = 0
  PROVE  /\ count' \in Seq(Nat) /\ completions' \in Seq(Nat) /\ Len(completions') = Len(count')
         /\ Interactions' = Interactions /\ count' = counts /\ CompletedAtNone'
<1> DEFINE n == Len(count)
<1>1. n \in Nat /\ Interactions = 1 .. n /\ DOMAIN count = 1 .. n /\ count \in [1 .. n -> Nat]
  BY DEF TracingTypeOK, Interactions
<1>2. count' = counts /\ counts \in [1 .. n -> Nat]
  BY <1>1 DEF Counts
<1>3. counts \in Seq(Nat) /\ Len(counts) = n
  BY <1>1, <1>2
<1>4. completions' = [i \in 1 .. n |-> completions[i] + IF counts[i] = 0 /\ count[i] > 0 THEN 1 ELSE 0]
  BY <1>1 DEF Counts
<1>5. \A i \in 1 .. n : completions[i] \in Nat
  BY <1>1 DEF TracingTypeOK
<1>6. completions' \in [1 .. n -> Nat]
  BY <1>4, <1>5
<1>7. completions' \in Seq(Nat) /\ Len(completions') = n
  BY <1>1, <1>4, <1>6
<1>8. Interactions' = Interactions
  BY <1>1, <1>2, <1>3 DEF Interactions
<1>9. ASSUME NEW i \in 1 .. n
      PROVE  completions'[i] = IF count'[i] = 0 THEN 1 ELSE 0
  <2>1. count[i] \in Nat /\ counts[i] \in Nat
    BY <1>1, <1>2
  <2>0. completions[i] = IF count[i] = 0 THEN 1 ELSE 0
    BY <1>1 DEF CompletedAtNone
  <2>2. completions'[i] = completions[i] + IF counts[i] = 0 /\ count[i] > 0 THEN 1 ELSE 0
    BY <1>4
  <2>3. count[i] = 0 => counts[i] = 0
    BY <1>1
  <2> QED  BY <1>2, <2>0, <2>1, <2>2, <2>3
<1>10. CompletedAtNone'
  BY <1>1, <1>8, <1>9 DEF CompletedAtNone
<1> QED  BY <1>2, <1>3, <1>7, <1>8, <1>10
-----------------------------------------------------------------------------
(***************************************************************************)
(* What is traced, as calls begin and end.                                 *)
(***************************************************************************)
LEMMA EnteredFrames ==
  ASSUME TracingTypeOK, NEW kind \in Kinds, NEW of \in SUBSET Nat,
         NEW interactions \in SUBSET Nat, Enter(kind, of, interactions)
  PROVE  LET new == [kind |-> kind, of |-> of, previous |-> interactionsRef]
         IN  /\ frames' = Append(frames, new) /\ new \in Frame
             /\ frames' \in Seq(Frame) /\ Len(frames') = Len(frames) + 1
             /\ \A k \in 1 .. Len(frames) : frames'[k] = frames[k]
             /\ frames'[Len(frames) + 1] = new
             /\ interactionsRef' = interactions /\ interactionsRef' \subseteq Nat
             /\ \A k \in DOMAIN frames : k \in DOMAIN frames' /\ frames'[k] = frames[k]
             /\ \A k \in DOMAIN frames' : k \in DOMAIN frames \/ k = Len(frames) + 1
<1> DEFINE new == [kind |-> kind, of |-> of, previous |-> interactionsRef]
<1>1. frames \in Seq(Frame) /\ new \in Frame /\ DOMAIN frames = 1 .. Len(frames) /\ Len(frames) \in Nat
  BY DEF TracingTypeOK, Frame
<1>2. frames' = Append(frames, new) /\ interactionsRef' = interactions
  BY DEF Enter
<1> HIDE DEF new
<1>3. /\ frames' \in Seq(Frame) /\ Len(frames') = Len(frames) + 1
      /\ \A k \in 1 .. Len(frames) : frames'[k] = frames[k]
      /\ frames'[Len(frames) + 1] = new /\ DOMAIN frames' = 1 .. Len(frames) + 1
  BY <1>1, <1>2
<1>4. /\ \A k \in DOMAIN frames : k \in DOMAIN frames' /\ frames'[k] = frames[k]
      /\ \A k \in DOMAIN frames' : k \in DOMAIN frames \/ k = Len(frames) + 1
  BY <1>1, <1>3
<1> QED  BY <1>1, <1>2, <1>3, <1>4 DEF new

LEMMA WithoutInnermost ==
  ASSUME NEW f \in Seq(Frame), f # <<>>, NEW g, g = SubSeq(f, 1, Len(f) - 1)
  PROVE  /\ g \in Seq(Frame) /\ Len(g) = Len(f) - 1
         /\ \A k \in 1 .. Len(f) - 1 : g[k] = f[k]
<1>1. Len(f) \in Nat \ {0} /\ Len(f) - 1 \in Nat
  OBVIOUS
<1>2. PICK n \in Nat : n = Len(f) - 1 /\ \A k \in 1 .. n : f[k] \in Frame
  BY <1>1
<1>3. /\ SubSeq(f, 1, n) \in Seq(Frame) /\ Len(SubSeq(f, 1, n)) = n
      /\ \A k \in 1 .. n : SubSeq(f, 1, n)[k] = f[k]
  BY <1>2, SubSeqProperties
<1> QED  BY <1>2, <1>3

LEMMA LeftFrames ==
  ASSUME TracingTypeOK, frames # <<>>, Leave
  PROVE  /\ frames' \in Seq(Frame) /\ Len(frames') = Len(frames) - 1 /\ Len(frames') \in Nat
         /\ \A k \in 1 .. Len(frames') : frames'[k] = frames[k]
         /\ interactionsRef' = frames[Len(frames)].previous
         /\ interactionsRef' \subseteq Nat
         /\ innermost = frames[Len(frames)] /\ innermost \in Frame
         /\ Len(frames) \in DOMAIN frames
         /\ \A k \in DOMAIN frames' :
              k \in DOMAIN frames /\ k # Len(frames) /\ frames'[k] = frames[k]
         /\ \A k \in DOMAIN frames : k # Len(frames) => k \in DOMAIN frames'
<1>1. frames \in Seq(Frame) /\ Len(frames) \in Nat \ {0}
  BY DEF TracingTypeOK
<1>2. innermost = frames[Len(frames)] /\ innermost \in Frame
  BY <1>1 DEF innermost
<1>3. frames' = SubSeq(frames, 1, Len(frames) - 1) /\ interactionsRef' = innermost.previous
  BY DEF Leave
<1>4. /\ frames' \in Seq(Frame) /\ Len(frames') = Len(frames) - 1
      /\ \A k \in 1 .. Len(frames) - 1 : frames'[k] = frames[k]
  BY <1>1, <1>3, WithoutInnermost
<1>5. innermost.previous \subseteq Nat
  BY <1>2 DEF Frame
<1>6. /\ Len(frames) \in DOMAIN frames
      /\ \A k \in DOMAIN frames' :
           k \in DOMAIN frames /\ k # Len(frames) /\ frames'[k] = frames[k]
      /\ \A k \in DOMAIN frames : k # Len(frames) => k \in DOMAIN frames'
  BY <1>1, <1>4
<1> QED  BY <1>1, <1>2, <1>3, <1>4, <1>5, <1>6

LEMMA ScopesAfterEnter ==
  ASSUME TracingTypeOK, ScopesAreHeld, NEW kind \in Kinds, NEW of \in SUBSET Nat,
         NEW interactions \in SUBSET Nat, Enter(kind, of, interactions),
         memoizedInteractions' = memoizedInteractions \/ ~Working,
         \A i \in interactions :
           i \in of \/ i \in interactionsRef \/ (kind \in WorkingKinds /\ i \in memoizedInteractions')
  PROVE  ScopesAreHeld'
<1> DEFINE new == [kind |-> kind, of |-> of, previous |-> interactionsRef]
<1>0. PICK n \in Nat : n = Len(frames) /\ DOMAIN frames = 1 .. n
  BY DEF TracingTypeOK
<1>1. /\ Len(frames') = n + 1 /\ frames'[n + 1] = new /\ interactionsRef' = interactions
      /\ \A k \in 1 .. n : frames'[k] = frames[k]
      /\ new.kind = kind /\ new.of = of /\ new.previous = interactionsRef
  BY <1>0, EnteredFrames
<1> HIDE DEF new
<1>2. ASSUME NEW k \in 0 .. n, NEW i \in Scope(k), NEW m \in 0 .. n + 1, m >= k
      PROVE  HeldWithin(m, i)'
  <2>1. PICK j \in 1 .. k : i \in frames[j].of \/ (WorkingAt(j) /\ i \in memoizedInteractions)
    BY <1>0 DEF ScopesAreHeld, HeldWithin
  <2>2. j \in 1 .. n /\ j \in 1 .. m /\ frames'[j] = frames[j]
    BY <1>0, <1>1, <1>2
  <2>3. WorkingAt(j) => Working /\ WorkingAt(j)'
    BY <1>0, <2>2 DEF Working, WorkingAt, WorkingKinds
  <2> QED  BY <2>1, <2>2, <2>3 DEF HeldWithin
<1>3. ASSUME NEW k \in 0 .. n
      PROVE  Scope(k)' = Scope(k)
  <2>1. k # n => k + 1 \in 1 .. n
    BY <1>0
  <2> QED  BY <1>0, <1>1, <2>1 DEF Scope
<1>4. ASSUME NEW i \in interactions
      PROVE  HeldWithin(n + 1, i)'
  <2>1. CASE i \in of
    BY <1>0, <1>1, <2>1 DEF HeldWithin
  <2>2. CASE i \in interactionsRef
    <3>1. i \in Scope(n) /\ n \in 0 .. n /\ n + 1 \in 0 .. n + 1 /\ n + 1 >= n
      BY <1>0, <2>2 DEF Scope
    <3> QED  BY <1>2, <3>1
  <2>3. CASE kind \in WorkingKinds /\ i \in memoizedInteractions'
    BY <1>0, <1>1, <2>3 DEF HeldWithin, WorkingAt
  <2> QED  BY <2>1, <2>2, <2>3
<1>5. Scope(n + 1)' = interactions
  BY <1>0, <1>1 DEF Scope
<1>6. ASSUME NEW k \in 0 .. n + 1, NEW i \in Scope(k)'
      PROVE  HeldWithin(k, i)'
  <2>1. CASE k = n + 1
    BY <1>4, <1>5, <1>6, <2>1
  <2>2. CASE k \in 0 .. n
    BY <1>0, <1>2, <1>3, <1>6, <2>2
  <2> QED  BY <1>0, <2>1, <2>2
<1> QED  BY <1>1, <1>6 DEF ScopesAreHeld

LEMMA ScopesAfterLeave ==
  ASSUME TracingTypeOK, ScopesAreHeld, frames # <<>>, Leave,
         memoizedInteractions' = memoizedInteractions
  PROVE  ScopesAreHeld'
<1>0. PICK n \in Nat \ {0} : n = Len(frames) /\ DOMAIN frames = 1 .. n
  BY DEF TracingTypeOK
<1>1. /\ Len(frames') = n - 1 /\ interactionsRef' = frames[n].previous
      /\ \A k \in 1 .. n - 1 : frames'[k] = frames[k]
  BY <1>0, LeftFrames
<1>2. ASSUME NEW k \in 0 .. n - 1
      PROVE  Scope(k)' = Scope(k) /\ \A i : HeldWithin(k, i)' <=> HeldWithin(k, i)
  <2>1. k # n - 1 => k + 1 \in 1 .. n - 1
    BY <1>0
  <2>2. \A j \in 1 .. k : frames'[j] = frames[j]
    BY <1>0, <1>1
  <2> QED  BY <1>0, <1>1, <2>1, <2>2 DEF Scope, HeldWithin, WorkingAt
<1>3. \A k \in 0 .. n - 1 : k \in 0 .. Len(frames)
  BY <1>0
<1> QED  BY <1>1, <1>2, <1>3 DEF ScopesAreHeld

LEMMA ScopesUnchanged ==
  ASSUME ScopesAreHeld, UNCHANGED <<frames, interactionsRef, memoizedInteractions>>
  PROVE  ScopesAreHeld'
BY DEF ScopesAreHeld, Scope, HeldWithin, WorkingAt

LEMMA FramesAfterEnter ==
  ASSUME TracingTypeOK, FramesOK, NEW kind \in Kinds, NEW of \in SUBSET Nat,
         NEW interactions \in SUBSET Nat, Enter(kind, of, interactions),
         kind \notin {"trace", "wrapped"} => of = {},
         kind \in WorkingKinds => ~Working /\ ~passivePending',
         kind = "render" => workInProgressTime' # NoWork,
         kind \in {"commit", "passive"} => workInProgressTime' = NoWork,
         Working => UNCHANGED <<workInProgressTime, passivePending>>,
         renderFinished' => workInProgressTime' # NoWork,
         passivePending' => workInProgressTime' = NoWork
  PROVE  FramesOK'
<1> DEFINE new == [kind |-> kind, of |-> of, previous |-> interactionsRef]
<1>0. PICK n \in Nat : n = Len(frames) /\ DOMAIN frames = 1 .. n
  BY DEF TracingTypeOK
<1>1. /\ frames'[n + 1].kind = kind /\ frames'[n + 1].of = of
      /\ \A k \in 1 .. n : frames'[k] = frames[k]
      /\ DOMAIN frames' = 1 .. n + 1
  <2>1. /\ frames'[n + 1] = new /\ \A k \in 1 .. n : frames'[k] = frames[k]
        /\ frames' \in Seq(Frame) /\ Len(frames') = n + 1
    BY <1>0, EnteredFrames
  <2>2. new.kind = kind /\ new.of = of
    OBVIOUS
  <2> HIDE DEF new
  <2> QED  BY <2>1, <2>2
<1>2. \A k \in 1 .. n + 1 : k \in 1 .. n \/ k = n + 1
  BY <1>0
<1>3. \A k \in 1 .. n : WorkingAt(k) => Working
  BY <1>0 DEF Working, WorkingAt, WorkingKinds
<1>4. \A k \in 1 .. n : WorkingAt(k)' <=> WorkingAt(k)
  BY <1>1 DEF WorkingAt
<1>5. WorkingAt(n + 1)' <=> kind \in WorkingKinds
  BY <1>1 DEF WorkingAt
<1>6. ASSUME NEW k \in 1 .. n + 1
      PROVE  frames'[k].kind \notin {"trace", "wrapped"} => frames'[k].of = {}
  BY <1>0, <1>1, <1>2 DEF FramesOK
<1>7. ASSUME NEW j \in 1 .. n + 1, NEW k \in 1 .. n + 1, WorkingAt(j)', WorkingAt(k)'
      PROVE  j = k
  BY <1>0, <1>2, <1>3, <1>4, <1>5, <1>7 DEF FramesOK
<1>8. ASSUME NEW k \in 1 .. n
      PROVE  /\ frames'[k].kind = "render" => workInProgressTime' # NoWork
             /\ frames'[k].kind \in {"commit", "passive"} => workInProgressTime' = NoWork
             /\ WorkingAt(k)' => ~passivePending'
  <2>1. WorkingAt(k) => UNCHANGED <<workInProgressTime, passivePending>>
    BY <1>3
  <2>2. frames'[k] = frames[k] /\ (frames[k].kind \in {"render", "commit", "passive"} => WorkingAt(k))
    BY <1>1 DEF WorkingAt, WorkingKinds
  <2> QED  BY <1>0, <1>4, <2>1, <2>2 DEF FramesOK
<1>9. ASSUME NEW k \in 1 .. n + 1
      PROVE  /\ frames'[k].kind = "render" => workInProgressTime' # NoWork
             /\ frames'[k].kind \in {"commit", "passive"} => workInProgressTime' = NoWork
             /\ WorkingAt(k)' => ~passivePending'
  BY <1>1, <1>2, <1>5, <1>8
<1> QED  BY <1>1, <1>6, <1>7, <1>9 DEF FramesOK

LEMMA FramesAfterLeave ==
  ASSUME TracingTypeOK, FramesOK, frames # <<>>, Leave,
         passivePending' = passivePending \/ WorkingAt(Len(frames)),
         workInProgressTime' = workInProgressTime,
         renderFinished' => workInProgressTime' # NoWork,
         passivePending' => workInProgressTime' = NoWork
  PROVE  FramesOK'
<1>0. PICK n \in Nat \ {0} : n = Len(frames) /\ DOMAIN frames = 1 .. n
  BY DEF TracingTypeOK
<1>1. DOMAIN frames' = 1 .. n - 1 /\ \A k \in 1 .. n - 1 : frames'[k] = frames[k] /\ k \in 1 .. n /\ k # n
  BY <1>0, LeftFrames
<1>2. \A k \in 1 .. n - 1 : WorkingAt(k)' <=> WorkingAt(k)
  BY <1>1 DEF WorkingAt
<1>3. \A k \in 1 .. n - 1 : WorkingAt(k) => passivePending' = passivePending
  BY <1>0, <1>1 DEF FramesOK
<1> QED  BY <1>0, <1>1, <1>2, <1>3 DEF FramesOK

LEMMA FramesUnchanged ==
  ASSUME FramesOK, UNCHANGED frames,
         Working => UNCHANGED <<workInProgressTime, passivePending>>,
         renderFinished' => workInProgressTime' # NoWork,
         passivePending' => workInProgressTime' = NoWork
  PROVE  FramesOK'
<1>1. \A k \in DOMAIN frames : WorkingAt(k) => Working
  BY DEF Working, WorkingAt, WorkingKinds
<1>2. \A k : WorkingAt(k)' <=> WorkingAt(k)
  BY DEF WorkingAt
<1>3. \A k \in DOMAIN frames : frames[k].kind \in {"render", "commit", "passive"} => WorkingAt(k)
  BY DEF WorkingAt, WorkingKinds
<1> QED  BY <1>1, <1>2, <1>3 DEF FramesOK
-----------------------------------------------------------------------------
(***************************************************************************)
(* The updates of the root and the times they are at.                      *)
(***************************************************************************)
LEMMA UpdatesOnTime ==
  ASSUME NEW set, set \subseteq Update
  PROVE  /\ OnTime(set) \subseteq Update
         /\ \A u \in set : \E v \in OnTime(set) : v.time = u.time /\ v.interactions = u.interactions
         /\ \A v \in OnTime(set) : \E u \in set : v.time = u.time /\ v.interactions = u.interactions
<1>1. ASSUME NEW u \in set
      PROVE  /\ [u EXCEPT !.late = FALSE] \in Update
             /\ [u EXCEPT !.late = FALSE].time = u.time
             /\ [u EXCEPT !.late = FALSE].interactions = u.interactions
  BY DEF Update
<1> QED  BY <1>1, Zenon DEF OnTime

\* The updates are, but for how late they are, those there were.
SameUpdates ==
  /\ \A u \in rootUpdates : \E v \in rootUpdates' : v.time = u.time /\ v.interactions = u.interactions
  /\ \A v \in rootUpdates' : \E u \in rootUpdates : v.time = u.time /\ v.interactions = u.interactions

LEMMA SameFirstPending ==
  ASSUME SameUpdates
  PROVE  firstPendingTime' = firstPendingTime
<1>1. {u.time : u \in rootUpdates'} = {u.time : u \in rootUpdates}
  BY DEF SameUpdates
<1> QED  BY <1>1, Zenon DEF firstPendingTime

LEMMA UpdatesStayPending ==
  ASSUME UpdatesArePending, TracingTypeOK,
         \A v \in rootUpdates' : \E u \in rootUpdates : v.time = u.time /\ v.interactions = u.interactions,
         \A t \in Time : pendingInteractionMap[t] \subseteq pendingInteractionMap'[t]
  PROVE  UpdatesArePending'
<1>1. \A u \in rootUpdates : u.time \in Time
  BY DEF TracingTypeOK, Update
<1> QED  BY <1>1 DEF UpdatesArePending

LEMMA PendedMap ==
  ASSUME NEW map \in [Time -> SUBSET Nat], NEW t \in Time, NEW interactions \in SUBSET Nat
  PROVE  /\ Pended(map, t, interactions) \in [Time -> SUBSET Nat]
         /\ Pended(map, t, interactions)[t] = map[t] \cup interactions
         /\ \A s \in Time : map[s] \subseteq Pended(map, t, interactions)[s]
         /\ \A s \in Time \ {t} : Pended(map, t, interactions)[s] = map[s]
BY DEF Pended

-----------------------------------------------------------------------------
(***************************************************************************)
(* The steps of the callbacks.                                             *)
(***************************************************************************)
LEMMA InitHolds ==
  TracingInit => TracingInv
<1> SUFFICES ASSUME TracingInit PROVE TracingInv
  OBVIOUS
<1> USE DEF TracingInit
<1>1. TracingTypeOK
  <2>1. \A S : <<>> \in Seq(S)
    OBVIOUS
  <2>2. pendingInteractionMap \in [Time -> SUBSET Nat]
    OBVIOUS
  <2> QED  BY <2>1, <2>2, Zenon DEF TracingTypeOK, NoWork
<1>2. Interactions = {} /\ DOMAIN frames = {} /\ Len(frames) = 0 /\ DOMAIN wraps = {}
  BY DEF Interactions
<1>3. KnownInteractions /\ CountsHold /\ CompletedAtNone
  BY <1>2 DEF KnownInteractions, CountsHold, CompletedAtNone
<1>4. ScopesAreHeld
  BY <1>2 DEF ScopesAreHeld, Scope
<1>5. FramesOK /\ MemoizedArePending /\ UpdatesArePending /\ NoneAbove
  BY <1>2 DEF FramesOK, MemoizedArePending, UpdatesArePending, NoneAbove
<1> QED  BY <1>1, <1>3, <1>4, <1>5 DEF TracingInv

\* What an interaction that has not begun holds.
LEMMA UnknownIsNotHeld ==
  ASSUME TracingTypeOK, KnownInteractions, NEW i, i \notin Interactions
  PROVE  Holds(frames, wraps, pendingInteractionMap, i) = 0
<1>1. FramesWith(frames, i) = {} /\ WrapsWith(wraps, i) = {} /\ TimesWith(pendingInteractionMap, i) = {}
  BY DEF KnownInteractions, FramesWith, WrapsWith, TimesWith
<1>2. Cardinality({}) = 0
  BY FS_EmptySet
<1> QED  BY <1>1, <1>2 DEF Holds

\* What an interaction holds is counted, so it is a number.
LEMMA HoldsNat ==
  ASSUME NEW f \in Seq(Frame), NEW w \in Seq(Wrap), NEW map, NEW i
  PROVE  /\ Holds(f, w, map, i) \in Nat /\ Cardinality(FramesWith(f, i)) \in Nat
         /\ Cardinality(WrapsWith(w, i)) \in Nat /\ Cardinality(TimesWith(map, i)) \in Nat
<1>1. Cardinality(TimesWith(map, i)) \in Nat
  BY TimesFinite DEF TimesWith
<1> QED  BY <1>1, FramesWithFinite, WrapsWithFinite DEF Holds

\* A step in which the root takes no part: its calls stay as they are.
LEMMA RootUntouched ==
  ASSUME MemoizedArePending, UpdatesArePending, NoneAbove,
         UNCHANGED <<pendingInteractionMap, memoizedInteractions, rootVars>>,
         \A k \in DOMAIN frames : WorkingAt(k) => k \in DOMAIN frames' /\ frames'[k] = frames[k],
         \A k \in DOMAIN frames' : WorkingAt(k)' => k \in DOMAIN frames /\ frames'[k] = frames[k]
  PROVE  MemoizedArePending' /\ UpdatesArePending' /\ NoneAbove'
<1>1. MemoizedArePending'
  <2>1. (\E k \in DOMAIN frames' : WorkingAt(k)') => \E k \in DOMAIN frames : WorkingAt(k)
    BY DEF WorkingAt
  <2> QED  BY <2>1 DEF MemoizedArePending, rootVars
<1>2. UpdatesArePending'
  BY DEF UpdatesArePending, rootVars
<1>3. NoneAbove'
  <2>1. (\E k \in DOMAIN frames : frames[k].kind \in {"commit", "passive"}) =>
          \E k \in DOMAIN frames' : frames'[k].kind \in {"commit", "passive"}
    BY DEF WorkingAt, WorkingKinds
  <2> QED  BY <2>1 DEF NoneAbove, rootVars, firstPendingTime
<1> QED  BY <1>1, <1>2, <1>3

\* Counts that stay as they are, or follow what is held.
LEMMA CountsStay ==
  ASSUME CountsHold, CompletedAtNone, UNCHANGED <<count, completions>>,
         \A i \in Interactions :
           Holds(frames', wraps', pendingInteractionMap', i)
             = Holds(frames, wraps, pendingInteractionMap, i)
  PROVE  Interactions' = Interactions /\ CountsHold' /\ CompletedAtNone'
BY DEF Interactions, CountsHold, CompletedAtNone

LEMMA CountsFollow ==
  ASSUME TracingTypeOK, CompletedAtNone, NEW counts \in [Interactions -> Nat], Counts(counts),
         \A i \in Interactions :
           /\ count[i] = 0 => counts[i] = 0
           /\ counts[i] = Holds(frames', wraps', pendingInteractionMap', i)
  PROVE  /\ count' \in Seq(Nat) /\ completions' \in Seq(Nat) /\ Len(completions') = Len(count')
         /\ Interactions' = Interactions /\ CountsHold' /\ CompletedAtNone'
<1>1. /\ count' \in Seq(Nat) /\ completions' \in Seq(Nat) /\ Len(completions') = Len(count')
      /\ Interactions' = Interactions /\ count' = counts /\ CompletedAtNone'
  BY CountsChange
<1> QED  BY <1>1 DEF CountsHold

LEMMA KnownAfterEnter ==
  ASSUME TracingTypeOK, KnownInteractions, NEW kind \in Kinds, NEW of \in SUBSET Nat,
         NEW interactions \in SUBSET Nat, Enter(kind, of, interactions),
         of \subseteq Interactions, interactions \subseteq Interactions,
         Interactions' = Interactions, memoizedInteractions' \subseteq Interactions,
         \A w \in DOMAIN wraps' : wraps'[w].interactions \subseteq Interactions,
         UNCHANGED pendingInteractionMap
  PROVE  KnownInteractions'
<1> DEFINE new == [kind |-> kind, of |-> of, previous |-> interactionsRef]
<1>1. /\ interactionsRef' = interactions /\ frames'[Len(frames) + 1] = new
      /\ \A k \in DOMAIN frames : k \in DOMAIN frames' /\ frames'[k] = frames[k]
      /\ \A k \in DOMAIN frames' : k \in DOMAIN frames \/ k = Len(frames) + 1
  BY EnteredFrames
<1>2. new.of = of /\ new.previous = interactionsRef
  OBVIOUS
<1> HIDE DEF new
<1>3. ASSUME NEW k \in DOMAIN frames'
      PROVE  frames'[k].of \cup frames'[k].previous \subseteq Interactions
  BY <1>1, <1>2 DEF KnownInteractions
<1> QED  BY <1>1, <1>3 DEF KnownInteractions

LEMMA KnownAfterLeave ==
  ASSUME TracingTypeOK, KnownInteractions, frames # <<>>, Leave,
         Interactions' = Interactions, UNCHANGED memoizedInteractions,
         \A w \in DOMAIN wraps' : wraps'[w].interactions \subseteq Interactions,
         \A t \in Time : pendingInteractionMap'[t] \subseteq Interactions
  PROVE  KnownInteractions'
<1>1. /\ interactionsRef' = frames[Len(frames)].previous /\ Len(frames) \in DOMAIN frames
      /\ \A k \in DOMAIN frames' : k \in DOMAIN frames /\ frames'[k] = frames[k]
  BY LeftFrames
<1> QED  BY <1>1 DEF KnownInteractions

\* What a call held when it ends, that is not counted in frames any more.
LEMMA HeldAfterLeave ==
  ASSUME TracingTypeOK, KnownInteractions, CountsHold, frames # <<>>, Leave,
         UNCHANGED <<wraps, pendingInteractionMap>>
  PROVE  \A i \in Interactions :
           /\ i \in innermost.of => count[i] > 0
           /\ Holds(frames', wraps', pendingInteractionMap', i)
                = count[i] - IF i \in innermost.of THEN 1 ELSE 0
<1>1. TAKE i \in Interactions
<1>2. innermost = frames[Len(frames)] /\ Len(frames) \in DOMAIN frames
  BY LeftFrames
<1>3. i \in innermost.of => count[i] > 0
  BY <1>2, HeldIsCounted
<1>4. Cardinality(FramesWith(frames', i))
        = Cardinality(FramesWith(frames, i)) - IF i \in innermost.of THEN 1 ELSE 0
  BY <1>2, FramesWithLeft DEF Leave, TracingTypeOK
<1>5. count[i] = Holds(frames, wraps, pendingInteractionMap, i)
  BY DEF CountsHold
<1>6. Holds(frames', wraps', pendingInteractionMap', i)
        = count[i] - IF i \in innermost.of THEN 1 ELSE 0
  BY <1>4, <1>5, HoldsNat DEF Holds, TracingTypeOK
<1> QED  BY <1>3, <1>6

LEMMA MinusCounts ==
  ASSUME TracingTypeOK, NEW set, \A i \in set : i \in Interactions => count[i] > 0
  PROVE  /\ Minus(count, set) \in [Interactions -> Nat]
         /\ \A i \in Interactions : count[i] \in Nat /\ (count[i] = 0 => Minus(count, set)[i] = 0)
                                    /\ Minus(count, set)[i] = count[i] - IF i \in set THEN 1 ELSE 0
<1>1. count \in [Interactions -> Nat]
  BY DEF TracingTypeOK, Interactions
<1> QED  BY <1>1 DEF Minus, Interactions

LEMMA PlusCounts ==
  ASSUME TracingTypeOK, NEW set, \A i \in set : i \in Interactions /\ count[i] > 0
  PROVE  /\ Plus(count, set) \in [Interactions -> Nat]
         /\ \A i \in Interactions : count[i] \in Nat /\ (count[i] = 0 => Plus(count, set)[i] = 0)
                                    /\ Plus(count, set)[i] = count[i] + IF i \in set THEN 1 ELSE 0
<1>1. count \in [Interactions -> Nat]
  BY DEF TracingTypeOK, Interactions
<1> QED  BY <1>1 DEF Plus, Interactions

\* The call of a callback, and its end, leave what the root does as it was.
LEMMA CallbackBegins ==
  ASSUME TracingInv, NEW kind \in Kinds, kind \notin WorkingKinds, NEW of \in SUBSET Nat,
         NEW interactions \in SUBSET Nat, Enter(kind, of, interactions),
         kind = "clear" => of = {}, interactions \subseteq of \cup interactionsRef,
         UNCHANGED <<pendingInteractionMap, memoizedInteractions, rootVars>>
  PROVE  ScopesAreHeld' /\ FramesOK' /\ MemoizedArePending' /\ UpdatesArePending' /\ NoneAbove'
<1>1. /\ TracingTypeOK /\ ScopesAreHeld /\ FramesOK /\ MemoizedArePending /\ UpdatesArePending
      /\ NoneAbove
  BY DEF TracingInv
<1>2. memoizedInteractions' = memoizedInteractions /\ workInProgressTime' = workInProgressTime
      /\ renderFinished' = renderFinished /\ passivePending' = passivePending
  BY DEF rootVars
<1>3. ScopesAreHeld'
  BY <1>1, <1>2, ScopesAfterEnter
<1>4. FramesOK'
  <2>1. /\ renderFinished => workInProgressTime # NoWork
        /\ passivePending => workInProgressTime = NoWork
    BY <1>1 DEF FramesOK
  <2>2. kind \notin {"render", "commit", "passive"} /\ (kind \notin {"trace", "wrapped"} => of = {})
    BY DEF Kinds, WorkingKinds
  <2> QED  BY <1>1, <1>2, <2>1, <2>2, FramesAfterEnter
<1> DEFINE new == [kind |-> kind, of |-> of, previous |-> interactionsRef]
<1>5. /\ \A k \in DOMAIN frames : k \in DOMAIN frames' /\ frames'[k] = frames[k]
      /\ \A k \in DOMAIN frames' : k \in DOMAIN frames \/ k = Len(frames) + 1
      /\ frames'[Len(frames) + 1] = new
  BY <1>1, EnteredFrames
<1>6. new.kind = kind
  OBVIOUS
<1> HIDE DEF new
<1>7. \A k \in DOMAIN frames' : WorkingAt(k)' => k \in DOMAIN frames /\ frames'[k] = frames[k]
  BY <1>5, <1>6 DEF WorkingAt
<1> QED  BY <1>1, <1>3, <1>4, <1>5, <1>7, RootUntouched

LEMMA CallbackEnds ==
  ASSUME TracingInv, frames # <<>>, Leave, ~WorkingAt(Len(frames)),
         UNCHANGED <<pendingInteractionMap, memoizedInteractions, rootVars>>
  PROVE  ScopesAreHeld' /\ FramesOK' /\ MemoizedArePending' /\ UpdatesArePending' /\ NoneAbove'
<1>1. /\ TracingTypeOK /\ ScopesAreHeld /\ FramesOK /\ MemoizedArePending /\ UpdatesArePending
      /\ NoneAbove
  BY DEF TracingInv
<1>2. memoizedInteractions' = memoizedInteractions /\ workInProgressTime' = workInProgressTime
      /\ renderFinished' = renderFinished /\ passivePending' = passivePending
  BY DEF rootVars
<1>3. ScopesAreHeld'
  BY <1>1, <1>2, ScopesAfterLeave
<1>4. FramesOK'
  <2>1. /\ renderFinished => workInProgressTime # NoWork
        /\ passivePending => workInProgressTime = NoWork
    BY <1>1 DEF FramesOK
  <2> QED  BY <1>1, <1>2, <2>1, FramesAfterLeave
<1>5. /\ \A k \in DOMAIN frames' : k \in DOMAIN frames /\ frames'[k] = frames[k]
      /\ \A k \in DOMAIN frames : k # Len(frames) => k \in DOMAIN frames' /\ frames'[k] = frames[k]
  BY <1>1, LeftFrames
<1>6. \A k \in DOMAIN frames : WorkingAt(k) => k \in DOMAIN frames' /\ frames'[k] = frames[k]
  BY <1>5
<1> QED  BY <1>1, <1>3, <1>4, <1>5, <1>6, RootUntouched

\* A call of React's own, or of unstable_clear, holds no interaction.
LEMMA HeldAfterWork ==
  ASSUME TracingTypeOK, CountsHold, CompletedAtNone, NEW kind \in Kinds,
         NEW interactions \in SUBSET Nat, Enter(kind, {}, interactions),
         UNCHANGED <<count, completions, wraps, pendingInteractionMap>>
  PROVE  CountsHold' /\ CompletedAtNone' /\ Interactions' = Interactions
<1> DEFINE new == [kind |-> kind, of |-> {}, previous |-> interactionsRef]
<1>1. frames' = Append(frames, new) /\ new \in Frame
  BY EnteredFrames
<1>2. new.of = {}
  OBVIOUS
<1> HIDE DEF new
<1>3. ASSUME NEW i \in Interactions
      PROVE  Holds(frames', wraps', pendingInteractionMap', i)
               = Holds(frames, wraps, pendingInteractionMap, i)
  <2>1. Cardinality(FramesWith(frames', i)) = Cardinality(FramesWith(frames, i)) + 0
    BY <1>1, <1>2, FramesWithEntered DEF TracingTypeOK
  <2>2. Cardinality(FramesWith(frames, i)) \in Nat
    BY FramesWithFinite DEF TracingTypeOK
  <2> QED  BY <2>1, <2>2 DEF Holds
<1> QED  BY <1>3, CountsStay

LEMMA HeldWithoutWork ==
  ASSUME TracingTypeOK, KnownInteractions, CountsHold, CompletedAtNone, frames # <<>>, Leave,
         innermost.of = {}, UNCHANGED <<count, completions, wraps, pendingInteractionMap>>
  PROVE  CountsHold' /\ CompletedAtNone' /\ Interactions' = Interactions
<1>1. ASSUME NEW i \in Interactions
      PROVE  Holds(frames', wraps', pendingInteractionMap', i)
               = Holds(frames, wraps, pendingInteractionMap, i)
  <2>1. Holds(frames', wraps', pendingInteractionMap', i) = count[i] - 0
    BY HeldAfterLeave
  <2>2. count[i] = Holds(frames, wraps, pendingInteractionMap, i) /\ count[i] \in Nat
    BY HoldsNat DEF CountsHold, TracingTypeOK
  <2> QED  BY <2>1, <2>2
<1> QED  BY <1>1, CountsStay

LEMMA traceStep ==
  ASSUME TracingInv, trace
  PROVE  TracingInv'
<1>0. TracingTypeOK /\ KnownInteractions /\ CountsHold /\ CompletedAtNone
  BY DEF TracingInv
<1> USE <1>0
<1>1. PICK n \in Nat : n = Len(count) /\ Interactions = 1 .. n
  BY DEF TracingTypeOK, Interactions
<1>2. /\ Enter("trace", {n + 1}, interactionsRef \cup {n + 1})
      /\ count' = Append(count, 1) /\ completions' = Append(completions, 0)
      /\ UNCHANGED <<wraps, pendingInteractionMap, memoizedInteractions, rootVars>>
  BY <1>1 DEF trace
<1> DEFINE r == [kind |-> "trace", of |-> {n + 1}, previous |-> interactionsRef]
<1>3. /\ frames' = Append(frames, r) /\ r \in Frame
      /\ frames' \in Seq(Frame) /\ Len(frames') = Len(frames) + 1
      /\ \A k \in 1 .. Len(frames) : frames'[k] = frames[k]
      /\ frames'[Len(frames) + 1] = r
      /\ interactionsRef' = interactionsRef \cup {n + 1} /\ interactionsRef' \subseteq Nat
      /\ \A k \in DOMAIN frames : k \in DOMAIN frames' /\ frames'[k] = frames[k]
      /\ \A k \in DOMAIN frames' : k \in DOMAIN frames \/ k = Len(frames) + 1
  <2>1. {n + 1} \in SUBSET Nat /\ interactionsRef \cup {n + 1} \in SUBSET Nat /\ "trace" \in Kinds
    BY DEF TracingTypeOK, Kinds
  <2> QED  BY <1>2, <2>1, EnteredFrames
<1>4. r.kind = "trace" /\ r.of = {n + 1} /\ r.previous = interactionsRef
  OBVIOUS
<1> HIDE DEF r
<1>5. /\ count' \in Seq(Nat) /\ completions' \in Seq(Nat) /\ Len(completions') = Len(count')
      /\ Interactions' = 1 .. n + 1 /\ count'[n + 1] = 1 /\ completions'[n + 1] = 0
      /\ \A i \in 1 .. n : count'[i] = count[i] /\ completions'[i] = completions[i]
  BY <1>1, <1>2 DEF TracingTypeOK, Interactions
<1>6. TracingTypeOK'
  BY <1>2, <1>3, <1>5 DEF TracingTypeOK, rootVars
<1>7. KnownInteractions'
  <2>1. Interactions \subseteq Interactions' /\ n + 1 \in Interactions'
    BY <1>1, <1>5
  <2>2. ASSUME NEW k \in DOMAIN frames'
        PROVE  frames'[k].of \cup frames'[k].previous \subseteq Interactions'
    <3>1. CASE k = Len(frames) + 1
      BY <1>3, <1>4, <2>1, <3>1 DEF KnownInteractions
    <3>2. CASE k \in DOMAIN frames
      BY <1>3, <2>1, <3>2 DEF KnownInteractions
    <3> QED  BY <1>3, <3>1, <3>2
  <2> QED  BY <1>2, <1>3, <2>1, <2>2 DEF KnownInteractions
<1>8. ASSUME NEW i \in 1 .. n + 1
      PROVE  count'[i] = Holds(frames', wraps', pendingInteractionMap', i)
  <2>1. Cardinality(FramesWith(frames', i))
          = Cardinality(FramesWith(frames, i)) + IF i \in r.of THEN 1 ELSE 0
    BY <1>3, FramesWithEntered DEF TracingTypeOK
  <2>2. Holds(frames', wraps', pendingInteractionMap', i)
          = Holds(frames, wraps, pendingInteractionMap, i) + IF i = n + 1 THEN 1 ELSE 0
    BY <1>2, <1>4, <2>1, HoldsNat DEF Holds, TracingTypeOK
  <2>3. CASE i = n + 1
    BY <1>1, <1>5, <2>2, <2>3, UnknownIsNotHeld
  <2>4. CASE i \in 1 .. n
    <3>1. count[i] = Holds(frames, wraps, pendingInteractionMap, i) /\ count[i] \in Nat
      BY <1>1, <2>4, HoldsNat DEF CountsHold, TracingTypeOK
    <3> QED  BY <1>5, <2>2, <2>4, <3>1
  <2> QED  BY <2>3, <2>4
<1>9. CountsHold'
  BY <1>5, <1>8 DEF CountsHold
<1>10. CompletedAtNone'
  <2>1. \A i \in 1 .. n + 1 : i \in 1 .. n \/ i = n + 1
    OBVIOUS
  <2> QED  BY <1>1, <1>5, <2>1 DEF CompletedAtNone
<1>11. ScopesAreHeld' /\ FramesOK' /\ MemoizedArePending' /\ UpdatesArePending' /\ NoneAbove'
  <2>1. {n + 1} \in SUBSET Nat /\ interactionsRef \cup {n + 1} \in SUBSET Nat
        /\ interactionsRef \cup {n + 1} \subseteq {n + 1} \cup interactionsRef
    BY <1>0 DEF TracingTypeOK
  <2>2. "trace" \in Kinds /\ "trace" \notin WorkingKinds
    BY DEF Kinds, WorkingKinds
  <2> QED  BY <1>2, <2>1, <2>2, CallbackBegins
<1> QED  BY <1>6, <1>7, <1>9, <1>10, <1>11 DEF TracingInv

LEMMA traceReturnsStep ==
  ASSUME TracingInv, traceReturns
  PROVE  TracingInv'
<1>0. TracingTypeOK /\ KnownInteractions /\ CountsHold /\ CompletedAtNone
  BY DEF TracingInv
<1>1. /\ frames # <<>> /\ innermost.kind = "trace" /\ Leave
      /\ Counts(Minus(count, innermost.of))
      /\ UNCHANGED <<wraps, pendingInteractionMap, memoizedInteractions, rootVars>>
  BY DEF traceReturns, Innermost
<1>2. /\ frames' \in Seq(Frame) /\ interactionsRef' \subseteq Nat
      /\ innermost = frames[Len(frames)] /\ Len(frames) \in DOMAIN frames
  BY <1>0, <1>1, LeftFrames
<1>3. /\ count' \in Seq(Nat) /\ completions' \in Seq(Nat) /\ Len(completions') = Len(count')
      /\ Interactions' = Interactions /\ CountsHold' /\ CompletedAtNone'
  <2>1. \A i \in Interactions :
          /\ i \in innermost.of => count[i] > 0
          /\ Holds(frames', wraps', pendingInteractionMap', i)
               = count[i] - IF i \in innermost.of THEN 1 ELSE 0
    BY <1>0, <1>1, HeldAfterLeave
  <2>2. /\ Minus(count, innermost.of) \in [Interactions -> Nat]
        /\ \A i \in Interactions :
             /\ count[i] = 0 => Minus(count, innermost.of)[i] = 0
             /\ Minus(count, innermost.of)[i] = count[i] - IF i \in innermost.of THEN 1 ELSE 0
    BY <1>0, <2>1, MinusCounts
  <2>3. \A i \in Interactions :
          Minus(count, innermost.of)[i] = Holds(frames', wraps', pendingInteractionMap', i)
    BY <2>1, <2>2
  <2> QED  BY <1>0, <1>1, <2>2, <2>3, CountsFollow
<1>4. TracingTypeOK'
  BY <1>0, <1>1, <1>2, <1>3 DEF TracingTypeOK, rootVars
<1>5. KnownInteractions'
  BY <1>0, <1>1, <1>3, KnownAfterLeave DEF KnownInteractions
<1>6. ~WorkingAt(Len(frames))
  BY <1>1, <1>2 DEF WorkingAt, WorkingKinds
<1> QED  BY <1>1, <1>3, <1>4, <1>5, <1>6, CallbackEnds DEF TracingInv

LEMMA clearStep ==
  ASSUME TracingInv, clear
  PROVE  TracingInv'
<1>0. TracingTypeOK /\ KnownInteractions /\ CountsHold /\ CompletedAtNone
  BY DEF TracingInv
<1>1. /\ Enter("clear", {}, {})
      /\ UNCHANGED <<count, completions, wraps, pendingInteractionMap, memoizedInteractions, rootVars>>
  BY DEF clear
<1>2. "clear" \in Kinds /\ "clear" \notin WorkingKinds /\ {} \in SUBSET Nat
  BY DEF Kinds, WorkingKinds
<1>3. CountsHold' /\ CompletedAtNone' /\ Interactions' = Interactions
  BY <1>0, <1>1, <1>2, HeldAfterWork
<1>4. TracingTypeOK'
  BY <1>0, <1>1, <1>2, EnteredFrames DEF TracingTypeOK, rootVars
<1>5. KnownInteractions'
  <2>1. memoizedInteractions' \subseteq Interactions
        /\ \A w \in DOMAIN wraps' : wraps'[w].interactions \subseteq Interactions
    BY <1>0, <1>1 DEF KnownInteractions
  <2> QED  BY <1>0, <1>1, <1>2, <1>3, <2>1, KnownAfterEnter
<1>6. ScopesAreHeld' /\ FramesOK' /\ MemoizedArePending' /\ UpdatesArePending' /\ NoneAbove'
  BY <1>1, <1>2, CallbackBegins
<1> QED  BY <1>3, <1>4, <1>5, <1>6 DEF TracingInv

LEMMA clearReturnsStep ==
  ASSUME TracingInv, clearReturns
  PROVE  TracingInv'
<1>0. TracingTypeOK /\ KnownInteractions /\ CountsHold /\ CompletedAtNone /\ FramesOK
  BY DEF TracingInv
<1>1. /\ frames # <<>> /\ innermost.kind = "clear" /\ Leave
      /\ UNCHANGED <<count, completions, wraps, pendingInteractionMap, memoizedInteractions, rootVars>>
  BY DEF clearReturns, Innermost
<1>2. /\ frames' \in Seq(Frame) /\ interactionsRef' \subseteq Nat
      /\ innermost = frames[Len(frames)] /\ Len(frames) \in DOMAIN frames
  BY <1>0, <1>1, LeftFrames
<1>3. CountsHold' /\ CompletedAtNone' /\ Interactions' = Interactions
  <2>1. innermost.of = {}
    BY <1>0, <1>1, <1>2 DEF FramesOK
  <2> QED  BY <1>0, <1>1, <2>1, HeldWithoutWork
<1>4. TracingTypeOK'
  BY <1>0, <1>1, <1>2 DEF TracingTypeOK, rootVars
<1>5. KnownInteractions'
  BY <1>0, <1>1, <1>3, KnownAfterLeave DEF KnownInteractions
<1>6. ~WorkingAt(Len(frames))
  BY <1>1, <1>2 DEF WorkingAt, WorkingKinds
<1> QED  BY <1>1, <1>3, <1>4, <1>5, <1>6, CallbackEnds DEF TracingInv

LEMMA wrapStep ==
  ASSUME TracingInv, wrap
  PROVE  TracingInv'
<1>0. /\ TracingTypeOK /\ KnownInteractions /\ CountsHold /\ CompletedAtNone /\ ScopesAreHeld
      /\ FramesOK /\ MemoizedArePending /\ UpdatesArePending /\ NoneAbove
  BY DEF TracingInv
<1> DEFINE r == [interactions |-> interactionsRef, state |-> "waiting"]
<1>1. /\ wraps' = Append(wraps, r) /\ Counts(Plus(count, interactionsRef))
      /\ UNCHANGED <<interactionsRef, frames, pendingInteractionMap, memoizedInteractions, rootVars>>
  BY DEF wrap
<1>2. r \in Wrap /\ r.state = "waiting" /\ r.interactions = interactionsRef
  BY <1>0 DEF Wrap, TracingTypeOK
<1> HIDE DEF r
<1>3. wraps \in Seq(Wrap) /\ wraps' \in Seq(Wrap)
      /\ \A w \in DOMAIN wraps' : (w \in DOMAIN wraps /\ wraps'[w] = wraps[w]) \/ wraps'[w] = r
  BY <1>0, <1>1, <1>2 DEF TracingTypeOK
<1>4. /\ count' \in Seq(Nat) /\ completions' \in Seq(Nat) /\ Len(completions') = Len(count')
      /\ Interactions' = Interactions /\ CountsHold' /\ CompletedAtNone'
  <2>1. /\ Plus(count, interactionsRef) \in [Interactions -> Nat]
        /\ \A i \in Interactions :
             /\ count[i] \in Nat /\ (count[i] = 0 => Plus(count, interactionsRef)[i] = 0)
             /\ Plus(count, interactionsRef)[i] = count[i] + IF i \in interactionsRef THEN 1 ELSE 0
    BY <1>0, CurrentIsCounted, PlusCounts
  <2>2. ASSUME NEW i \in Interactions
        PROVE  Plus(count, interactionsRef)[i] = Holds(frames', wraps', pendingInteractionMap', i)
    <3>1. Cardinality(WrapsWith(wraps', i))
            = Cardinality(WrapsWith(wraps, i)) + IF i \in r.interactions THEN 1 ELSE 0
      BY <1>1, <1>2, <1>3, WrapsWithWrapped
    <3>2. count[i] = Holds(frames, wraps, pendingInteractionMap, i)
      BY <1>0 DEF CountsHold
    <3>3. Holds(frames', wraps', pendingInteractionMap', i)
            = count[i] + IF i \in r.interactions THEN 1 ELSE 0
      BY <1>0, <1>1, <3>1, <3>2, HoldsNat DEF Holds, TracingTypeOK
    <3> QED  BY <1>2, <2>1, <3>3
  <2> QED  BY <1>0, <1>1, <2>1, <2>2, CountsFollow
<1>5. TracingTypeOK'
  BY <1>0, <1>1, <1>3, <1>4 DEF TracingTypeOK, rootVars
<1>6. KnownInteractions'
  BY <1>0, <1>1, <1>2, <1>3, <1>4 DEF KnownInteractions
<1>7. ScopesAreHeld'
  BY <1>0, <1>1, ScopesUnchanged
<1>8. FramesOK'
  BY <1>0, <1>1 DEF FramesOK, WorkingAt, rootVars
<1>9. MemoizedArePending' /\ UpdatesArePending' /\ NoneAbove'
  BY <1>0, <1>1, RootUntouched
<1> QED  BY <1>4, <1>5, <1>6, <1>7, <1>8, <1>9 DEF TracingInv

LEMMA runWrappedStep ==
  ASSUME TracingInv, NEW w \in DOMAIN wraps, runWrapped(w)
  PROVE  TracingInv'
<1>0. TracingTypeOK /\ KnownInteractions /\ CountsHold /\ CompletedAtNone
  BY DEF TracingInv
<1> DEFINE of == wraps[w].interactions
<1>1. /\ wraps[w].state = "waiting" /\ wraps' = Settled(wraps, w, "running")
      /\ Enter("wrapped", of, of)
      /\ UNCHANGED <<count, completions, pendingInteractionMap, memoizedInteractions, rootVars>>
  BY DEF runWrapped, Settled
<1>2. /\ wraps[w] \in Wrap /\ of \in SUBSET Nat /\ of \subseteq Interactions
      /\ "wrapped" \in Kinds /\ "wrapped" \notin WorkingKinds
  <2>1. wraps[w] \in Wrap
    BY <1>0 DEF TracingTypeOK
  <2>2. of \in SUBSET Nat
    BY <2>1 DEF Wrap
  <2>3. of \subseteq Interactions
    BY <1>0 DEF KnownInteractions
  <2>4. "wrapped" \in Kinds /\ "wrapped" \notin WorkingKinds
    BY DEF Kinds, WorkingKinds
  <2> QED  BY <2>1, <2>2, <2>3, <2>4
<1>3. wraps \in Seq(Wrap) /\ wraps' \in Seq(Wrap) /\ DOMAIN wraps' = DOMAIN wraps
      /\ \A v \in DOMAIN wraps : wraps'[v].interactions = wraps[v].interactions
  BY <1>0, <1>1, SettledWraps DEF TracingTypeOK
<1> DEFINE new == [kind |-> "wrapped", of |-> of, previous |-> interactionsRef]
<1>4. frames' = Append(frames, new) /\ new \in Frame /\ frames' \in Seq(Frame)
      /\ interactionsRef' = of
  BY <1>0, <1>1, <1>2, EnteredFrames
<1>5. new.of = of
  OBVIOUS
<1> HIDE DEF new
<1>6. ASSUME NEW i \in Interactions
      PROVE  Holds(frames', wraps', pendingInteractionMap', i)
               = Holds(frames, wraps, pendingInteractionMap, i)
  <2>1. Cardinality(FramesWith(frames', i))
          = Cardinality(FramesWith(frames, i)) + IF i \in of THEN 1 ELSE 0
    BY <1>0, <1>4, <1>5, FramesWithEntered DEF TracingTypeOK
  <2>2. Cardinality(WrapsWith(wraps', i))
          = IF i \in of THEN Cardinality(WrapsWith(wraps, i)) - 1 ELSE Cardinality(WrapsWith(wraps, i))
    BY <1>1, <1>3, WrapsWithSettled
  <2>3. /\ Cardinality(FramesWith(frames, i)) \in Nat /\ Cardinality(WrapsWith(wraps, i)) \in Nat
        /\ Cardinality(TimesWith(pendingInteractionMap, i)) \in Nat
    BY <1>0, HoldsNat DEF TracingTypeOK
  <2>4. Cardinality(FramesWith(frames', i)) + Cardinality(WrapsWith(wraps', i))
          = Cardinality(FramesWith(frames, i)) + Cardinality(WrapsWith(wraps, i))
    <3>1. CASE i \in of
      BY <2>1, <2>2, <2>3, <3>1
    <3>2. CASE i \notin of
      BY <2>1, <2>2, <2>3, <3>2
    <3> QED  BY <3>1, <3>2
  <2> QED  BY <1>1, <2>4 DEF Holds
<1>7. CountsHold' /\ CompletedAtNone' /\ Interactions' = Interactions
  BY <1>0, <1>1, <1>6, CountsStay
<1>8. TracingTypeOK'
  BY <1>0, <1>1, <1>2, <1>3, <1>4 DEF TracingTypeOK, rootVars
<1>9. KnownInteractions'
  <2>1. memoizedInteractions' \subseteq Interactions
        /\ \A v \in DOMAIN wraps' : wraps'[v].interactions \subseteq Interactions
    BY <1>0, <1>1, <1>3 DEF KnownInteractions
  <2> QED  BY <1>0, <1>1, <1>2, <1>7, <2>1, KnownAfterEnter
<1>10. ScopesAreHeld' /\ FramesOK' /\ MemoizedArePending' /\ UpdatesArePending' /\ NoneAbove'
  <2>1. of \subseteq of \cup interactionsRef
    OBVIOUS
  <2> QED  BY <1>1, <1>2, <2>1, CallbackBegins
<1> QED  BY <1>7, <1>8, <1>9, <1>10 DEF TracingInv

LEMMA wrappedReturnsStep ==
  ASSUME TracingInv, wrappedReturns
  PROVE  TracingInv'
<1>0. TracingTypeOK /\ KnownInteractions /\ CountsHold /\ CompletedAtNone
  BY DEF TracingInv
<1>1. /\ frames # <<>> /\ innermost.kind = "wrapped" /\ Leave
      /\ Counts(Minus(count, innermost.of))
      /\ UNCHANGED <<pendingInteractionMap, memoizedInteractions, rootVars>>
  BY DEF wrappedReturns, Innermost
<1>2. PICK w \in DOMAIN wraps :
        wraps[w].state = "running" /\ wraps' = Settled(wraps, w, "run")
  BY DEF wrappedReturns, Settled
<1>3. wraps \in Seq(Wrap) /\ wraps' \in Seq(Wrap) /\ DOMAIN wraps' = DOMAIN wraps
      /\ \A v \in DOMAIN wraps : wraps'[v].interactions = wraps[v].interactions
  BY <1>0, <1>2, SettledWraps DEF TracingTypeOK
<1>4. /\ frames' \in Seq(Frame) /\ interactionsRef' \subseteq Nat
      /\ innermost = frames[Len(frames)] /\ Len(frames) \in DOMAIN frames
  BY <1>0, <1>1, LeftFrames
<1>5. /\ count' \in Seq(Nat) /\ completions' \in Seq(Nat) /\ Len(completions') = Len(count')
      /\ Interactions' = Interactions /\ CountsHold' /\ CompletedAtNone'
  <2>1. \A i \in innermost.of : count[i] > 0
    BY <1>0, <1>4, HeldIsCounted
  <2>2. /\ Minus(count, innermost.of) \in [Interactions -> Nat]
        /\ \A i \in Interactions :
             /\ count[i] = 0 => Minus(count, innermost.of)[i] = 0
             /\ Minus(count, innermost.of)[i] = count[i] - IF i \in innermost.of THEN 1 ELSE 0
    BY <1>0, <2>1, MinusCounts
  <2>3. ASSUME NEW i \in Interactions
        PROVE  Minus(count, innermost.of)[i] = Holds(frames', wraps', pendingInteractionMap', i)
    <3>1. Cardinality(FramesWith(frames', i))
            = Cardinality(FramesWith(frames, i)) - IF i \in innermost.of THEN 1 ELSE 0
      BY <1>0, <1>1, <1>4, FramesWithLeft DEF Leave, TracingTypeOK
    <3>2. Cardinality(WrapsWith(wraps', i)) = Cardinality(WrapsWith(wraps, i))
      BY <1>2, <1>3, WrapsWithSettled
    <3>3. count[i] = Holds(frames, wraps, pendingInteractionMap, i)
      BY <1>0 DEF CountsHold
    <3>4. Holds(frames', wraps', pendingInteractionMap', i)
            = count[i] - IF i \in innermost.of THEN 1 ELSE 0
      BY <1>0, <1>1, <3>1, <3>2, <3>3, HoldsNat DEF Holds, TracingTypeOK
    <3> QED  BY <2>2, <3>4
  <2> QED  BY <1>0, <1>1, <2>2, <2>3, CountsFollow
<1>6. TracingTypeOK'
  BY <1>0, <1>1, <1>3, <1>4, <1>5 DEF TracingTypeOK, rootVars
<1>7. KnownInteractions'
  <2>1. /\ \A v \in DOMAIN wraps' : wraps'[v].interactions \subseteq Interactions
        /\ \A t \in Time : pendingInteractionMap'[t] \subseteq Interactions
    BY <1>0, <1>1, <1>3 DEF KnownInteractions
  <2> QED  BY <1>0, <1>1, <1>5, <2>1, KnownAfterLeave
<1>8. ~WorkingAt(Len(frames))
  BY <1>1, <1>4 DEF WorkingAt, WorkingKinds
<1> QED  BY <1>1, <1>5, <1>6, <1>7, <1>8, CallbackEnds DEF TracingInv

LEMMA cancelStep ==
  ASSUME TracingInv, NEW w \in DOMAIN wraps, cancel(w)
  PROVE  TracingInv'
<1>0. /\ TracingTypeOK /\ KnownInteractions /\ CountsHold /\ CompletedAtNone /\ ScopesAreHeld
      /\ FramesOK /\ MemoizedArePending /\ UpdatesArePending /\ NoneAbove
  BY DEF TracingInv
<1> DEFINE of == wraps[w].interactions
<1>1. /\ wraps[w].state = "waiting" /\ wraps' = Settled(wraps, w, "cancelled")
      /\ Counts(Minus(count, of))
      /\ UNCHANGED <<interactionsRef, frames, pendingInteractionMap, memoizedInteractions, rootVars>>
  BY DEF cancel, Settled
<1>2. wraps \in Seq(Wrap) /\ wraps' \in Seq(Wrap) /\ DOMAIN wraps' = DOMAIN wraps
      /\ \A v \in DOMAIN wraps : wraps'[v].interactions = wraps[v].interactions
  BY <1>0, <1>1, SettledWraps DEF TracingTypeOK
<1>3. /\ count' \in Seq(Nat) /\ completions' \in Seq(Nat) /\ Len(completions') = Len(count')
      /\ Interactions' = Interactions /\ CountsHold' /\ CompletedAtNone'
  <2>1. \A i \in of : count[i] > 0
    BY <1>0, <1>1, HeldIsCounted
  <2>2. /\ Minus(count, of) \in [Interactions -> Nat]
        /\ \A i \in Interactions :
             /\ count[i] = 0 => Minus(count, of)[i] = 0
             /\ Minus(count, of)[i] = count[i] - IF i \in of THEN 1 ELSE 0
    BY <1>0, <2>1, MinusCounts
  <2>3. ASSUME NEW i \in Interactions
        PROVE  Minus(count, of)[i] = Holds(frames', wraps', pendingInteractionMap', i)
    <3>1. Cardinality(WrapsWith(wraps', i))
            = IF i \in of THEN Cardinality(WrapsWith(wraps, i)) - 1 ELSE Cardinality(WrapsWith(wraps, i))
      BY <1>1, <1>2, WrapsWithSettled
    <3>2. count[i] = Holds(frames, wraps, pendingInteractionMap, i)
      BY <1>0 DEF CountsHold
    <3>3. Holds(frames', wraps', pendingInteractionMap', i) = count[i] - IF i \in of THEN 1 ELSE 0
      BY <1>0, <1>1, <3>1, <3>2, HoldsNat DEF Holds, TracingTypeOK
    <3> QED  BY <2>2, <3>3
  <2> QED  BY <1>0, <1>1, <2>2, <2>3, CountsFollow
<1>4. TracingTypeOK'
  BY <1>0, <1>1, <1>2, <1>3 DEF TracingTypeOK, rootVars
<1>5. KnownInteractions'
  BY <1>0, <1>1, <1>2, <1>3 DEF KnownInteractions
<1>6. ScopesAreHeld'
  BY <1>0, <1>1, ScopesUnchanged
<1>7. FramesOK'
  BY <1>0, <1>1 DEF FramesOK, WorkingAt, rootVars
<1>8. MemoizedArePending' /\ UpdatesArePending' /\ NoneAbove'
  BY <1>0, <1>1, RootUntouched
<1> QED  BY <1>3, <1>4, <1>5, <1>6, <1>7, <1>8 DEF TracingInv

-----------------------------------------------------------------------------
(***************************************************************************)
(* The steps of the root.                                                  *)
(***************************************************************************)
\* Work that is pended for what is traced now.
LEMMA PendedNow ==
  ASSUME TracingInv, NEW t \in Time, UNCHANGED <<frames, wraps>>,
         pendingInteractionMap' = Pended(pendingInteractionMap, t, interactionsRef),
         Counts(Plus(count, Unscheduled(pendingInteractionMap, t, interactionsRef)))
  PROVE  /\ count' \in Seq(Nat) /\ completions' \in Seq(Nat) /\ Len(completions') = Len(count')
         /\ Interactions' = Interactions /\ CountsHold' /\ CompletedAtNone'
         /\ pendingInteractionMap' \in [Time -> SUBSET Nat]
         /\ \A s \in Time : /\ pendingInteractionMap[s] \subseteq pendingInteractionMap'[s]
                            /\ pendingInteractionMap'[s] \subseteq Interactions
                            /\ s # t => pendingInteractionMap'[s] = pendingInteractionMap[s]
         /\ interactionsRef \subseteq pendingInteractionMap'[t]
<1>0. /\ TracingTypeOK /\ KnownInteractions /\ CountsHold /\ CompletedAtNone /\ ScopesAreHeld
      /\ MemoizedArePending /\ interactionsRef \in SUBSET Nat
      /\ pendingInteractionMap \in [Time -> SUBSET Nat]
      /\ frames \in Seq(Frame) /\ wraps \in Seq(Wrap)
  BY DEF TracingInv, TracingTypeOK
<1> DEFINE new == Unscheduled(pendingInteractionMap, t, interactionsRef)
<1>1. \A i \in new : i \in Interactions /\ count[i] > 0
  BY <1>0, CurrentIsCounted DEF Unscheduled
<1>2. /\ Plus(count, new) \in [Interactions -> Nat]
      /\ \A i \in Interactions :
           /\ count[i] \in Nat /\ (count[i] = 0 => Plus(count, new)[i] = 0)
           /\ Plus(count, new)[i] = count[i] + IF i \in new THEN 1 ELSE 0
  <2> HIDE DEF new
  <2> QED  BY <1>0, <1>1, PlusCounts
<1>3. ASSUME NEW i \in Interactions
      PROVE  Plus(count, new)[i] = Holds(frames', wraps', pendingInteractionMap', i)
  <2>1. Cardinality(TimesWith(pendingInteractionMap', i))
          = Cardinality(TimesWith(pendingInteractionMap, i)) + IF i \in new THEN 1 ELSE 0
    BY <1>0, TimesWithPended
  <2>2. count[i] = Holds(frames, wraps, pendingInteractionMap, i)
    BY <1>0 DEF CountsHold
  <2>3. Holds(frames', wraps', pendingInteractionMap', i) = count[i] + IF i \in new THEN 1 ELSE 0
    <3> HIDE DEF new
    <3> QED  BY <1>0, <2>1, <2>2, HoldsNat DEF Holds
  <2> HIDE DEF new
  <2> QED  BY <1>2, <2>3
<1>4. /\ count' \in Seq(Nat) /\ completions' \in Seq(Nat) /\ Len(completions') = Len(count')
      /\ Interactions' = Interactions /\ CountsHold' /\ CompletedAtNone'
  <2> DEFINE counts == Plus(count, new)
  <2>1. counts \in [Interactions -> Nat] /\ Counts(counts)
    BY <1>2
  <2>2. \A i \in Interactions : /\ count[i] = 0 => counts[i] = 0
                                /\ counts[i] = Holds(frames', wraps', pendingInteractionMap', i)
    BY <1>2, <1>3
  <2> HIDE DEF counts
  <2> QED  BY <1>0, <2>1, <2>2, CountsFollow
<1>5. /\ pendingInteractionMap' \in [Time -> SUBSET Nat]
      /\ pendingInteractionMap'[t] = pendingInteractionMap[t] \cup interactionsRef
      /\ \A s \in Time : pendingInteractionMap[s] \subseteq pendingInteractionMap'[s]
      /\ \A s \in Time \ {t} : pendingInteractionMap'[s] = pendingInteractionMap[s]
  BY <1>0, PendedMap
<1>6. \A s \in Time : pendingInteractionMap'[s] \subseteq Interactions
  BY <1>0, <1>5 DEF KnownInteractions
<1> QED  BY <1>4, <1>5, <1>6

LEMMA scheduleUpdateStep ==
  ASSUME TracingInv, NEW t \in Time, scheduleUpdate(t)
  PROVE  TracingInv'
<1>0. /\ TracingTypeOK /\ KnownInteractions /\ ScopesAreHeld /\ FramesOK /\ MemoizedArePending
      /\ UpdatesArePending /\ NoneAbove
  BY DEF TracingInv
<1> DEFINE u == [time |-> t, interactions |-> interactionsRef, late |-> workInProgressTime # NoWork]
<1>1. /\ rootUpdates' = rootUpdates \cup {u} /\ scheduled' = scheduled + 1
      /\ pendingInteractionMap' = Pended(pendingInteractionMap, t, interactionsRef)
      /\ Counts(Plus(count, Unscheduled(pendingInteractionMap, t, interactionsRef)))
      /\ UNCHANGED <<interactionsRef, frames, wraps, memoizedInteractions, workInProgressTime,
                     renderFinished, passivePending>>
  BY DEF scheduleUpdate
<1>2. u \in Update /\ u.time = t /\ u.interactions = interactionsRef
  BY <1>0 DEF Update, TracingTypeOK
<1> HIDE DEF u
<1>3. /\ count' \in Seq(Nat) /\ completions' \in Seq(Nat) /\ Len(completions') = Len(count')
      /\ Interactions' = Interactions /\ CountsHold' /\ CompletedAtNone'
      /\ pendingInteractionMap' \in [Time -> SUBSET Nat]
      /\ \A s \in Time : /\ pendingInteractionMap[s] \subseteq pendingInteractionMap'[s]
                         /\ pendingInteractionMap'[s] \subseteq Interactions
                         /\ s # t => pendingInteractionMap'[s] = pendingInteractionMap[s]
      /\ interactionsRef \subseteq pendingInteractionMap'[t]
  BY <1>1, PendedNow
<1>4. rootUpdates \subseteq Update /\ rootUpdates' \subseteq Update
  BY <1>0, <1>1, <1>2 DEF TracingTypeOK
<1>5. TracingTypeOK'
  BY <1>0, <1>1, <1>3, <1>4 DEF TracingTypeOK
<1>6. KnownInteractions'
  BY <1>0, <1>1, <1>3 DEF KnownInteractions
<1>7. ScopesAreHeld'
  BY <1>0, <1>1, ScopesUnchanged
<1>8. FramesOK'
  BY <1>0, <1>1 DEF FramesOK, WorkingAt
<1>9. MemoizedArePending'
  BY <1>0, <1>1, <1>3 DEF MemoizedArePending, WorkingAt
<1>10. UpdatesArePending'
  <2>1. ASSUME NEW v \in rootUpdates'
        PROVE  v.interactions \subseteq pendingInteractionMap'[v.time]
    <3>1. CASE v = u
      BY <1>2, <1>3, <3>1
    <3>2. CASE v \in rootUpdates
      <4>1. v.time \in Time
        BY <1>4, <3>2 DEF Update
      <4> QED  BY <1>0, <1>3, <3>2, <4>1 DEF UpdatesArePending
    <3> QED  BY <1>1, <3>1, <3>2
  <2> QED  BY <2>1 DEF UpdatesArePending
<1>11. NoneAbove'
  <2>1. firstPendingTime = FirstOf(rootUpdates) /\ firstPendingTime' = FirstOf(rootUpdates')
    BY DEF firstPendingTime, FirstOf
  <2>2. /\ firstPendingTime \in 0 .. MaxRootTime /\ firstPendingTime' \in 0 .. MaxRootTime
        /\ t <= firstPendingTime' /\ firstPendingTime <= firstPendingTime'
    <3>1. /\ FirstOf(rootUpdates) \in 0 .. MaxRootTime /\ FirstOf(rootUpdates') \in 0 .. MaxRootTime
          /\ \A v \in rootUpdates' : v.time <= FirstOf(rootUpdates')
          /\ FirstOf(rootUpdates) = NoWork \/ \E v \in rootUpdates : v.time = FirstOf(rootUpdates)
      BY <1>4, FirstOfUpdates
    <3>2. t <= FirstOf(rootUpdates')
      <4>1. u \in rootUpdates'
        BY <1>1
      <4> QED  BY <1>2, <3>1, <4>1
    <3>3. FirstOf(rootUpdates) <= FirstOf(rootUpdates')
      <4>1. CASE FirstOf(rootUpdates) = NoWork
        BY <3>1, <4>1, TracingAssumption DEF NoWork
      <4>2. CASE \E v \in rootUpdates : v.time = FirstOf(rootUpdates)
        BY <1>1, <3>1, <4>2
      <4> QED  BY <3>1, <4>1, <4>2
    <3> QED  BY <2>1, <3>1, <3>2, <3>3
  <2>3. \A s \in Time : s > firstPendingTime' => s > firstPendingTime /\ s # t
    BY <2>2, TracingAssumption DEF Time
  <2> QED  BY <1>0, <1>1, <1>3, <2>3 DEF NoneAbove
<1> QED  BY <1>3, <1>5, <1>6, <1>7, <1>8, <1>9, <1>10, <1>11 DEF TracingInv

\* A call of React's own that begins: a render, a commit or passive effects.
LEMMA WorkBegins ==
  ASSUME TracingInv, NEW kind \in WorkingKinds, NEW interactions,
         Enter(kind, {}, interactions), interactions = memoizedInteractions',
         interactions \subseteq Interactions, ~Working, ~passivePending',
         UNCHANGED <<count, completions, wraps, pendingInteractionMap, scheduled>>,
         rootUpdates' \subseteq Update, workInProgressTime' \in Time \cup {NoWork},
         renderFinished' \in BOOLEAN, passivePending' \in BOOLEAN,
         kind = "render" <=> workInProgressTime' # NoWork,
         renderFinished' => workInProgressTime' # NoWork
  PROVE  /\ TracingTypeOK' /\ KnownInteractions' /\ CountsHold' /\ CompletedAtNone'
         /\ ScopesAreHeld' /\ FramesOK'
         /\ \E k \in DOMAIN frames' : frames'[k].kind = kind
<1>0. /\ TracingTypeOK /\ KnownInteractions /\ CountsHold /\ CompletedAtNone /\ ScopesAreHeld
      /\ FramesOK /\ MemoizedArePending /\ UpdatesArePending /\ NoneAbove
  BY DEF TracingInv
<1>1. kind \in Kinds /\ {} \in SUBSET Nat
  BY DEF Kinds, WorkingKinds
<1>2. interactions \in SUBSET Nat
  BY <1>0 DEF TracingTypeOK, Interactions
<1>3. CountsHold' /\ CompletedAtNone' /\ Interactions' = Interactions
  BY <1>0, <1>1, <1>2, HeldAfterWork
<1> DEFINE new == [kind |-> kind, of |-> {}, previous |-> interactionsRef]
<1>4. /\ frames' \in Seq(Frame) /\ interactionsRef' = interactions
      /\ frames'[Len(frames) + 1] = new /\ Len(frames') = Len(frames) + 1
  BY <1>0, <1>1, <1>2, EnteredFrames
<1>5. TracingTypeOK'
  BY <1>0, <1>2, <1>4 DEF TracingTypeOK
<1>6. KnownInteractions'
  <2>1. \A w \in DOMAIN wraps' : wraps'[w].interactions \subseteq Interactions
    BY <1>0 DEF KnownInteractions
  <2> QED  BY <1>0, <1>1, <1>2, <1>3, <2>1, KnownAfterEnter
<1>7. ScopesAreHeld'
  BY <1>0, <1>1, <1>2, ScopesAfterEnter
<1>8. FramesOK'
  <2>1. /\ kind \in {"commit", "passive"} => workInProgressTime' = NoWork
        /\ kind \notin {"trace", "wrapped"} /\ (kind = "render" => workInProgressTime' # NoWork)
        /\ passivePending' => workInProgressTime' = NoWork
    BY DEF WorkingKinds
  <2> QED  BY <1>0, <1>1, <1>2, <2>1, FramesAfterEnter
<1>9. \E k \in DOMAIN frames' : frames'[k].kind = kind
  <2>1. new.kind = kind
    OBVIOUS
  <2> HIDE DEF new
  <2>2. Len(frames) + 1 \in DOMAIN frames'
    BY <1>0, <1>4 DEF TracingTypeOK
  <2> QED  BY <1>4, <2>1, <2>2
<1> QED  BY <1>3, <1>5, <1>6, <1>7, <1>8, <1>9

\* The updates that are left, on time again.
LEMMA UpdatesLeft ==
  ASSUME TracingTypeOK, NEW set \in SUBSET rootUpdates
  PROVE  /\ OnTime(set) \subseteq Update
         /\ \A u \in set : \E v \in OnTime(set) : v.time = u.time /\ v.interactions = u.interactions
         /\ \A v \in OnTime(set) : \E u \in rootUpdates :
              v.time = u.time /\ v.interactions = u.interactions
<1>1. set \subseteq Update
  BY DEF TracingTypeOK
<1> QED  BY <1>1, UpdatesOnTime

LEMMA UpdatesOfFresh ==
  ASSUME TracingTypeOK, rootUpdates' = rootUpdates \/ rootUpdates' = OnTime(rootUpdates)
  PROVE  rootUpdates' \subseteq Update /\ SameUpdates
<1>1. rootUpdates \in SUBSET rootUpdates
  OBVIOUS
<1>2. CASE rootUpdates' = OnTime(rootUpdates)
  BY <1>1, <1>2, UpdatesLeft DEF SameUpdates
<1>3. CASE rootUpdates' = rootUpdates
  BY <1>3 DEF SameUpdates, TracingTypeOK
<1> QED  BY <1>2, <1>3

\* With the same updates at the same times, what is pended stays below them.
LEMMA SameUpdatesHold ==
  ASSUME TracingTypeOK, UpdatesArePending, NoneAbove, SameUpdates, UNCHANGED pendingInteractionMap,
         passivePending => passivePending',
         \A k \in DOMAIN frames : frames[k].kind \in {"commit", "passive"} =>
           k \in DOMAIN frames' /\ frames'[k] = frames[k]
  PROVE  UpdatesArePending' /\ NoneAbove'
<1>1. UpdatesArePending'
  BY UpdatesStayPending DEF SameUpdates
<1>2. firstPendingTime' = firstPendingTime
  BY SameFirstPending
<1>3. NoneAbove'
  BY <1>2 DEF NoneAbove
<1> QED  BY <1>1, <1>3

LEMMA renderRootStep ==
  ASSUME TracingInv, NEW t \in Time, renderRoot(t)
  PROVE  TracingInv'
<1>0. /\ TracingTypeOK /\ KnownInteractions /\ MemoizedArePending /\ UpdatesArePending /\ NoneAbove
  BY DEF TracingInv
<1> DEFINE set == IF workInProgressTime = t THEN memoizedInteractions ELSE InteractionsFrom(t)
<1>1. /\ ~Working /\ ~passivePending /\ Enter("render", {}, set) /\ memoizedInteractions' = set
      /\ rootUpdates' = rootUpdates \/ rootUpdates' = OnTime(rootUpdates)
      /\ workInProgressTime' = t /\ renderFinished' = FALSE
      /\ UNCHANGED <<count, completions, wraps, pendingInteractionMap, scheduled, passivePending>>
  BY DEF renderRoot
<1>2. t # NoWork /\ "render" \in WorkingKinds
  BY DEF Time, NoWork, WorkingKinds
<1>3. rootUpdates' \subseteq Update /\ SameUpdates
  BY <1>0, <1>1, UpdatesOfFresh
<1>4. \A i \in set : i \in Interactions /\ \E s \in Time : i \in pendingInteractionMap[s]
  <2>1. CASE workInProgressTime = t
    BY <1>0, <1>2, <2>1 DEF MemoizedArePending, KnownInteractions
  <2>2. CASE workInProgressTime # t
    <3>1. \A i \in InteractionsFrom(t) : \E s \in Time : i \in pendingInteractionMap[s]
      BY DEF InteractionsFrom
    <3> QED  BY <1>0, <2>2, <3>1 DEF KnownInteractions
  <2> QED  BY <2>1, <2>2
<1> HIDE DEF set
<1>5. set \subseteq Interactions
  BY <1>4
<1>6. /\ TracingTypeOK' /\ KnownInteractions' /\ CountsHold' /\ CompletedAtNone'
      /\ ScopesAreHeld' /\ FramesOK'
  <2>1. /\ ~passivePending' /\ passivePending' \in BOOLEAN /\ renderFinished' \in BOOLEAN
        /\ ~renderFinished' /\ workInProgressTime' \in Time \cup {NoWork}
        /\ workInProgressTime' # NoWork
    BY <1>0, <1>1, <1>2 DEF TracingTypeOK
  <2>2. UNCHANGED <<count, completions, wraps, pendingInteractionMap, scheduled>>
    BY <1>1
  <2> QED  BY <1>1, <1>2, <1>3, <1>5, <2>1, <2>2, WorkBegins
<1>7. MemoizedArePending'
  BY <1>1, <1>4 DEF MemoizedArePending
<1>8. UpdatesArePending' /\ NoneAbove'
  <2>1. \A k \in DOMAIN frames : frames[k].kind \notin {"commit", "passive"}
    BY <1>1 DEF Working
  <2> QED  BY <1>0, <1>1, <1>3, <2>1, SameUpdatesHold
<1> QED  BY <1>6, <1>7, <1>8 DEF TracingInv

LEMMA renderReturnsStep ==
  ASSUME TracingInv, renderReturns
  PROVE  TracingInv'
<1>0. /\ TracingTypeOK /\ KnownInteractions /\ CountsHold /\ CompletedAtNone /\ ScopesAreHeld
      /\ FramesOK /\ MemoizedArePending /\ UpdatesArePending /\ NoneAbove
  BY DEF TracingInv
<1>1. /\ frames # <<>> /\ innermost.kind = "render" /\ Leave
      /\ UNCHANGED <<count, completions, wraps, pendingInteractionMap, memoizedInteractions, scheduled,
                     workInProgressTime, passivePending>>
  BY DEF renderReturns, Innermost
<1>2. /\ frames' \in Seq(Frame) /\ interactionsRef' \subseteq Nat
      /\ innermost = frames[Len(frames)] /\ Len(frames) \in DOMAIN frames
      /\ \A k \in DOMAIN frames' : k \in DOMAIN frames /\ k # Len(frames) /\ frames'[k] = frames[k]
      /\ \A k \in DOMAIN frames : k # Len(frames) => k \in DOMAIN frames'
  BY <1>0, <1>1, LeftFrames
<1>3. rootUpdates' \subseteq Update /\ SameUpdates /\ renderFinished' \in BOOLEAN
  <2>1. CASE UNCHANGED <<rootUpdates, renderFinished>>
    BY <1>0, <2>1, UpdatesOfFresh DEF TracingTypeOK
  <2>2. CASE /\ renderFinished' = TRUE
             /\ \E included \in SUBSET {u \in rootUpdates : u.late} :
                  rootUpdates' = (rootUpdates \ included) \cup OnTime(included)
    <3>1. PICK included \in SUBSET rootUpdates :
            rootUpdates' = (rootUpdates \ included) \cup OnTime(included)
      BY <2>2
    <3>2. /\ OnTime(included) \subseteq Update
          /\ \A u \in included : \E v \in OnTime(included) :
               v.time = u.time /\ v.interactions = u.interactions
          /\ \A v \in OnTime(included) : \E u \in rootUpdates :
               v.time = u.time /\ v.interactions = u.interactions
      BY <1>0, <3>1, UpdatesLeft
    <3>3. rootUpdates' \subseteq Update
      BY <1>0, <3>1, <3>2 DEF TracingTypeOK
    <3>4. SameUpdates
      BY <3>1, <3>2, Zenon DEF SameUpdates
    <3> QED  BY <2>2, <3>3, <3>4
  <2> QED  BY <2>1, <2>2 DEF renderReturns
<1>4. innermost.of = {} /\ WorkingAt(Len(frames)) /\ workInProgressTime # NoWork
  BY <1>0, <1>1, <1>2 DEF FramesOK, WorkingAt, WorkingKinds
<1>5. CountsHold' /\ CompletedAtNone' /\ Interactions' = Interactions
  BY <1>0, <1>1, <1>4, HeldWithoutWork
<1>6. TracingTypeOK'
  BY <1>0, <1>1, <1>2, <1>3, <1>5 DEF TracingTypeOK
<1>7. KnownInteractions'
  BY <1>0, <1>1, <1>5, KnownAfterLeave DEF KnownInteractions
<1>8. ScopesAreHeld'
  BY <1>0, <1>1, ScopesAfterLeave
<1>9. FramesOK'
  <2>1. passivePending' => workInProgressTime' = NoWork
    BY <1>0, <1>1 DEF FramesOK
  <2> QED  BY <1>0, <1>1, <1>4, <2>1, FramesAfterLeave
<1>10. MemoizedArePending'
  BY <1>0, <1>1, <1>4 DEF MemoizedArePending
<1>11. UpdatesArePending' /\ NoneAbove'
  <2>1. \A k \in DOMAIN frames : frames[k].kind \in {"commit", "passive"} =>
          k \in DOMAIN frames' /\ frames'[k] = frames[k]
    BY <1>1, <1>2
  <2> QED  BY <1>0, <1>1, <1>3, <2>1, SameUpdatesHold
<1> QED  BY <1>5, <1>6, <1>7, <1>8, <1>9, <1>10, <1>11 DEF TracingInv

LEMMA pingSuspendedRootStep ==
  ASSUME TracingInv, NEW t \in Time, pingSuspendedRoot(t)
  PROVE  TracingInv'
<1>0. /\ TracingTypeOK /\ KnownInteractions /\ CountsHold /\ CompletedAtNone /\ ScopesAreHeld
      /\ FramesOK /\ MemoizedArePending /\ UpdatesArePending /\ NoneAbove
  BY DEF TracingInv
<1>1. /\ ~Working
      /\ UNCHANGED <<interactionsRef, frames, wraps, memoizedInteractions, scheduled, passivePending>>
      /\ rootUpdates' = rootUpdates \/ rootUpdates' = OnTime(rootUpdates)
  BY DEF pingSuspendedRoot
<1>2. \/ UNCHANGED <<workInProgressTime, renderFinished>>
      \/ workInProgressTime' = NoWork /\ renderFinished' = FALSE
  BY DEF pingSuspendedRoot
<1>3. /\ rootUpdates' \subseteq Update /\ SameUpdates
      /\ workInProgressTime' \in Time \cup {NoWork} /\ renderFinished' \in BOOLEAN
  BY <1>0, <1>1, <1>2, UpdatesOfFresh DEF TracingTypeOK
<1>4. /\ count' \in Seq(Nat) /\ completions' \in Seq(Nat) /\ Len(completions') = Len(count')
      /\ Interactions' = Interactions /\ CountsHold' /\ CompletedAtNone'
      /\ pendingInteractionMap' \in [Time -> SUBSET Nat]
      /\ \A s \in Time : /\ pendingInteractionMap[s] \subseteq pendingInteractionMap'[s]
                         /\ pendingInteractionMap'[s] \subseteq Interactions
      /\ \A s \in Time : s > firstPendingTime => pendingInteractionMap'[s] = pendingInteractionMap[s]
  <2>1. CASE UNCHANGED <<count, completions, pendingInteractionMap>>
    <3>1. Interactions' = Interactions /\ CountsHold' /\ CompletedAtNone'
      BY <1>0, <1>1, <2>1, CountsStay
    <3> QED  BY <1>0, <2>1, <3>1 DEF TracingTypeOK, KnownInteractions
  <2>2. CASE /\ t <= firstPendingTime
             /\ pendingInteractionMap' = Pended(pendingInteractionMap, t, interactionsRef)
             /\ Counts(Plus(count, Unscheduled(pendingInteractionMap, t, interactionsRef)))
    <3>1. /\ count' \in Seq(Nat) /\ completions' \in Seq(Nat) /\ Len(completions') = Len(count')
          /\ Interactions' = Interactions /\ CountsHold' /\ CompletedAtNone'
          /\ pendingInteractionMap' \in [Time -> SUBSET Nat]
          /\ \A s \in Time : /\ pendingInteractionMap[s] \subseteq pendingInteractionMap'[s]
                             /\ pendingInteractionMap'[s] \subseteq Interactions
                             /\ s # t => pendingInteractionMap'[s] = pendingInteractionMap[s]
      BY <1>1, <2>2, PendedNow
    <3>2. \A s \in Time : s > firstPendingTime => s # t
      BY <1>0, <2>2, FirstPending, TracingAssumption DEF Time
    <3> QED  BY <3>1, <3>2
  <2> QED  BY <2>1, <2>2 DEF pingSuspendedRoot
<1>5. TracingTypeOK'
  BY <1>0, <1>1, <1>3, <1>4 DEF TracingTypeOK
<1>6. KnownInteractions'
  BY <1>0, <1>1, <1>4 DEF KnownInteractions
<1>7. ScopesAreHeld'
  BY <1>0, <1>1, ScopesUnchanged
<1>8. FramesOK'
  <2>1. /\ renderFinished' => workInProgressTime' # NoWork
        /\ passivePending' => workInProgressTime' = NoWork
    BY <1>0, <1>1, <1>2 DEF FramesOK
  <2> QED  BY <1>0, <1>1, <2>1, FramesUnchanged
<1>9. MemoizedArePending'
  BY <1>0, <1>1, <1>2, <1>4 DEF MemoizedArePending, WorkingAt
<1>10. UpdatesArePending'
  BY <1>0, <1>3, <1>4, UpdatesStayPending DEF SameUpdates
<1>11. NoneAbove'
  <2>1. firstPendingTime' = firstPendingTime
    BY <1>3, SameFirstPending
  <2> QED  BY <1>0, <1>1, <1>4, <2>1 DEF NoneAbove
<1> QED  BY <1>4, <1>5, <1>6, <1>7, <1>8, <1>9, <1>10, <1>11 DEF TracingInv

LEMMA commitRootStep ==
  ASSUME TracingInv, commitRoot
  PROVE  TracingInv'
<1>0. /\ TracingTypeOK /\ KnownInteractions /\ FramesOK /\ MemoizedArePending /\ UpdatesArePending
  BY DEF TracingInv
<1> DEFINE left == {u \in rootUpdates : u.late \/ u.time < workInProgressTime}
<1>1. /\ ~Working /\ ~passivePending /\ renderFinished
      /\ Enter("commit", {}, memoizedInteractions) /\ rootUpdates' = OnTime(left)
      /\ workInProgressTime' = NoWork /\ renderFinished' = FALSE
      /\ UNCHANGED <<count, completions, wraps, pendingInteractionMap, memoizedInteractions, scheduled,
                     passivePending>>
  BY DEF commitRoot
<1>2. left \in SUBSET rootUpdates
  OBVIOUS
<1> HIDE DEF left
<1>3. /\ rootUpdates' \subseteq Update
      /\ \A v \in rootUpdates' : \E u \in rootUpdates :
           v.time = u.time /\ v.interactions = u.interactions
  BY <1>0, <1>1, <1>2, UpdatesLeft
<1>4. /\ TracingTypeOK' /\ KnownInteractions' /\ CountsHold' /\ CompletedAtNone'
      /\ ScopesAreHeld' /\ FramesOK' /\ \E k \in DOMAIN frames' : frames'[k].kind = "commit"
  <2>1. /\ ~passivePending' /\ passivePending' \in BOOLEAN /\ renderFinished' \in BOOLEAN
        /\ ~renderFinished' /\ workInProgressTime' \in Time \cup {NoWork}
        /\ workInProgressTime' = NoWork
    BY <1>0, <1>1 DEF TracingTypeOK
  <2>2. /\ UNCHANGED <<count, completions, wraps, pendingInteractionMap, scheduled>>
        /\ memoizedInteractions' = memoizedInteractions /\ memoizedInteractions \subseteq Interactions
        /\ "commit" \in WorkingKinds /\ "commit" # "render"
    BY <1>0, <1>1 DEF KnownInteractions, WorkingKinds
  <2> QED  BY <1>1, <1>3, <2>1, <2>2, WorkBegins
<1>5. MemoizedArePending'
  BY <1>0, <1>1 DEF MemoizedArePending, FramesOK
<1>6. UpdatesArePending'
  BY <1>0, <1>1, <1>3, UpdatesStayPending
<1>7. NoneAbove'
  BY <1>4 DEF NoneAbove
<1> QED  BY <1>4, <1>5, <1>6, <1>7 DEF TracingInv

LEMMA flushPassiveEffectsStep ==
  ASSUME TracingInv, flushPassiveEffects
  PROVE  TracingInv'
<1>0. /\ TracingTypeOK /\ KnownInteractions /\ FramesOK /\ MemoizedArePending /\ UpdatesArePending
  BY DEF TracingInv
<1>1. /\ ~Working /\ passivePending /\ passivePending' = FALSE
      /\ Enter("passive", {}, memoizedInteractions)
      /\ UNCHANGED <<count, completions, wraps, pendingInteractionMap, memoizedInteractions, rootUpdates,
                     scheduled, workInProgressTime, renderFinished>>
  BY DEF flushPassiveEffects
<1>2. /\ TracingTypeOK' /\ KnownInteractions' /\ CountsHold' /\ CompletedAtNone'
      /\ ScopesAreHeld' /\ FramesOK' /\ \E k \in DOMAIN frames' : frames'[k].kind = "passive"
  <2>1. /\ ~passivePending' /\ passivePending' \in BOOLEAN /\ renderFinished' \in BOOLEAN
        /\ (renderFinished' => workInProgressTime' # NoWork)
        /\ workInProgressTime' \in Time \cup {NoWork}
        /\ workInProgressTime' = NoWork /\ rootUpdates' \subseteq Update
    BY <1>0, <1>1 DEF TracingTypeOK, FramesOK
  <2>2. /\ UNCHANGED <<count, completions, wraps, pendingInteractionMap, scheduled>>
        /\ memoizedInteractions' = memoizedInteractions /\ memoizedInteractions \subseteq Interactions
        /\ "passive" \in WorkingKinds /\ "passive" # "render"
    BY <1>0, <1>1 DEF KnownInteractions, WorkingKinds
  <2> QED  BY <1>1, <2>1, <2>2, WorkBegins
<1>3. MemoizedArePending'
  BY <1>0, <1>1 DEF MemoizedArePending
<1>4. UpdatesArePending'
  BY <1>0, <1>1 DEF UpdatesArePending
<1>5. NoneAbove'
  BY <1>2 DEF NoneAbove
<1> QED  BY <1>2, <1>3, <1>4, <1>5 DEF TracingInv

\* What finishPendingInteractions leaves is counted still.
LEMMA FinishedHolds ==
  ASSUME TracingTypeOK, CountsHold
  PROVE  /\ FinishedMap \in [Time -> SUBSET Nat] /\ FinishedCount \in [Interactions -> Nat]
         /\ \A i \in Interactions : /\ FinishedCount[i] = Holds(frames, wraps, FinishedMap, i)
                                    /\ count[i] = 0 => FinishedCount[i] = 0
         /\ \A t \in Time : /\ FinishedMap[t] \subseteq pendingInteractionMap[t]
                            /\ t <= firstPendingTime => FinishedMap[t] = pendingInteractionMap[t]
                            /\ t > firstPendingTime => FinishedMap[t] = {}
<1>0. firstPendingTime \in 0 .. MaxRootTime /\ Time \subseteq Nat /\ MaxRootTime \in Nat
  BY FirstPending, TracingAssumption DEF Time
<1>1. /\ FinishedMap \in [Time -> SUBSET Nat]
      /\ \A t \in Time : /\ FinishedMap[t] \subseteq pendingInteractionMap[t]
                         /\ t <= firstPendingTime => FinishedMap[t] = pendingInteractionMap[t]
                         /\ t > firstPendingTime => FinishedMap[t] = {}
  BY <1>0 DEF FinishedMap, FinishedTimes, TracingTypeOK
<1>2. ASSUME NEW i \in Interactions
      PROVE  /\ FinishedCount[i] = Holds(frames, wraps, FinishedMap, i)
             /\ FinishedCount[i] \in Nat /\ (count[i] = 0 => FinishedCount[i] = 0)
  <2> DEFINE B == {t \in FinishedTimes : i \in pendingInteractionMap[t]}
  <2>1. Cardinality(TimesWith(FinishedMap, i))
          = Cardinality(TimesWith(pendingInteractionMap, i)) - Cardinality(B)
    BY TimesWithFinished DEF TracingTypeOK
  <2>2. FinishedCount[i] = count[i] - Cardinality(B)
    BY DEF FinishedCount
  <2>3. Cardinality(B) \in Nat
    BY TimesFinite DEF FinishedTimes
  <2>4. count[i] = Holds(frames, wraps, pendingInteractionMap, i)
    BY DEF CountsHold
  <2>5. /\ Cardinality(FramesWith(frames, i)) \in Nat /\ Cardinality(WrapsWith(wraps, i)) \in Nat
        /\ Cardinality(TimesWith(pendingInteractionMap, i)) \in Nat
        /\ Holds(frames, wraps, FinishedMap, i) \in Nat
    BY HoldsNat DEF TracingTypeOK
  <2> HIDE DEF B
  <2>6. FinishedCount[i] = Holds(frames, wraps, FinishedMap, i)
    BY <2>1, <2>2, <2>3, <2>4, <2>5 DEF Holds
  <2>7. count[i] = 0 => FinishedCount[i] = 0
    BY <2>2, <2>3, <2>4, <2>5, <2>6
  <2> QED  BY <2>5, <2>6, <2>7
<1>3. FinishedCount \in [Interactions -> Nat]
  <2>1. FinishedCount = [i \in Interactions |-> FinishedCount[i]]
    BY DEF FinishedCount
  <2> QED  BY <1>2, <2>1
<1> QED  BY <1>1, <1>2, <1>3

\* When a call of React's own has ended, none is left.
LEMMA WorkEnds ==
  ASSUME TracingTypeOK, FramesOK, frames # <<>>, Leave, innermost.kind \in {"commit", "passive"}
  PROVE  /\ innermost.of = {} /\ WorkingAt(Len(frames)) /\ workInProgressTime = NoWork
         /\ \A k \in DOMAIN frames' : ~WorkingAt(k)'
         /\ frames' \in Seq(Frame) /\ interactionsRef' \subseteq Nat
         /\ \A i : Cardinality(FramesWith(frames', i)) = Cardinality(FramesWith(frames, i))
<1>1. /\ frames' \in Seq(Frame) /\ interactionsRef' \subseteq Nat
      /\ innermost = frames[Len(frames)] /\ Len(frames) \in DOMAIN frames
      /\ \A k \in DOMAIN frames' : k \in DOMAIN frames /\ k # Len(frames) /\ frames'[k] = frames[k]
  BY LeftFrames
<1>2. innermost.of = {} /\ WorkingAt(Len(frames)) /\ workInProgressTime = NoWork
  BY <1>1 DEF FramesOK, WorkingAt, WorkingKinds
<1>3. \A k \in DOMAIN frames' : ~WorkingAt(k)'
  <2>1. \A k \in DOMAIN frames' : WorkingAt(k)' => WorkingAt(k)
    BY <1>1 DEF WorkingAt
  <2> QED  BY <1>1, <1>2, <2>1 DEF FramesOK
<1>4. ASSUME NEW i
      PROVE  Cardinality(FramesWith(frames', i)) = Cardinality(FramesWith(frames, i))
  <2>1. frames \in Seq(Frame) /\ frames' = SubSeq(frames, 1, Len(frames) - 1)
    BY DEF TracingTypeOK, Leave
  <2>2. Cardinality(FramesWith(frames', i)) = Cardinality(FramesWith(frames, i)) - 0
    BY <1>1, <1>2, <2>1, FramesWithLeft
  <2>3. Cardinality(FramesWith(frames, i)) \in Nat
    BY <2>1, FramesWithFinite
  <2> QED  BY <2>2, <2>3
<1> QED  BY <1>1, <1>2, <1>3, <1>4

LEMMA passiveEffectsReturnStep ==
  ASSUME TracingInv, passiveEffectsReturn
  PROVE  TracingInv'
<1>0. /\ TracingTypeOK /\ KnownInteractions /\ CountsHold /\ CompletedAtNone /\ ScopesAreHeld
      /\ FramesOK /\ MemoizedArePending /\ UpdatesArePending /\ NoneAbove
  BY DEF TracingInv
<1>1. /\ frames # <<>> /\ innermost.kind = "passive" /\ Leave
      /\ pendingInteractionMap' = FinishedMap /\ Counts(FinishedCount)
      /\ wraps' = wraps /\ memoizedInteractions' = memoizedInteractions
      /\ rootUpdates' = rootUpdates /\ scheduled' = scheduled
      /\ workInProgressTime' = workInProgressTime /\ renderFinished' = renderFinished
      /\ passivePending' = passivePending
  BY DEF passiveEffectsReturn, Innermost, rootVars
<1>2. /\ WorkingAt(Len(frames)) /\ workInProgressTime = NoWork
      /\ \A k \in DOMAIN frames' : ~WorkingAt(k)'
      /\ frames' \in Seq(Frame) /\ interactionsRef' \subseteq Nat
      /\ \A i : Cardinality(FramesWith(frames', i)) = Cardinality(FramesWith(frames, i))
  BY <1>0, <1>1, WorkEnds
<1>3. ~passivePending
  BY <1>0, <1>1, <1>2, LeftFrames DEF FramesOK
<1>4. /\ FinishedMap \in [Time -> SUBSET Nat] /\ FinishedCount \in [Interactions -> Nat]
      /\ \A i \in Interactions : /\ FinishedCount[i] = Holds(frames, wraps, FinishedMap, i)
                                 /\ count[i] = 0 => FinishedCount[i] = 0
      /\ \A t \in Time : /\ FinishedMap[t] \subseteq pendingInteractionMap[t]
                         /\ t <= firstPendingTime => FinishedMap[t] = pendingInteractionMap[t]
                         /\ t > firstPendingTime => FinishedMap[t] = {}
  BY <1>0, FinishedHolds
<1>5. /\ count' \in Seq(Nat) /\ completions' \in Seq(Nat) /\ Len(completions') = Len(count')
      /\ Interactions' = Interactions /\ CountsHold' /\ CompletedAtNone'
  <2>1. \A i \in Interactions :
          FinishedCount[i] = Holds(frames', wraps', pendingInteractionMap', i)
    BY <1>1, <1>2, <1>4 DEF Holds
  <2> QED  BY <1>0, <1>1, <1>4, <2>1, CountsFollow
<1>6. TracingTypeOK'
  BY <1>0, <1>1, <1>2, <1>4, <1>5 DEF TracingTypeOK
<1>7. KnownInteractions'
  <2>1. /\ \A w \in DOMAIN wraps' : wraps'[w].interactions \subseteq Interactions
        /\ \A t \in Time : pendingInteractionMap'[t] \subseteq Interactions
    BY <1>0, <1>1, <1>4 DEF KnownInteractions
  <2> QED  BY <1>0, <1>1, <1>5, <2>1, KnownAfterLeave
<1>8. ScopesAreHeld'
  BY <1>0, <1>1, ScopesAfterLeave
<1>9. FramesOK'
  <2>1. /\ renderFinished' => workInProgressTime' # NoWork
        /\ passivePending' => workInProgressTime' = NoWork
    BY <1>0, <1>1 DEF FramesOK
  <2> QED  BY <1>0, <1>1, <2>1, FramesAfterLeave
<1>10. MemoizedArePending'
  BY <1>1, <1>2, <1>3 DEF MemoizedArePending
<1>11. UpdatesArePending'
  <2>1. \A u \in rootUpdates : u.time \in Time /\ u.time <= firstPendingTime
    BY <1>0, FirstPending
  <2> QED  BY <1>0, <1>1, <1>4, <2>1 DEF UpdatesArePending
<1>12. NoneAbove'
  <2>1. firstPendingTime' = firstPendingTime
    BY <1>1 DEF firstPendingTime
  <2> QED  BY <1>1, <1>4, <2>1 DEF NoneAbove
<1> QED  BY <1>5, <1>6, <1>7, <1>8, <1>9, <1>10, <1>11, <1>12 DEF TracingInv

LEMMA commitReturnsStep ==
  ASSUME TracingInv, NEW passive \in BOOLEAN, commitReturns(passive)
  PROVE  TracingInv'
<1>0. /\ TracingTypeOK /\ KnownInteractions /\ CountsHold /\ CompletedAtNone /\ ScopesAreHeld
      /\ FramesOK /\ MemoizedArePending /\ UpdatesArePending /\ NoneAbove
  BY DEF TracingInv
<1> DEFINE map == IF passive THEN pendingInteractionMap ELSE FinishedMap
           counts == IF passive THEN count ELSE FinishedCount
           now == innermost.previous
           t == firstPendingTime
           new == Unscheduled(map, t, now)
           mapAfter == IF t = NoWork THEN map ELSE Pended(map, t, now)
           countsAfter == IF t = NoWork THEN counts ELSE Plus(counts, new)
<1>1. /\ frames # <<>> /\ innermost.kind = "commit" /\ Leave
      /\ pendingInteractionMap' = mapAfter /\ Counts(countsAfter)
      /\ passivePending' = passive /\ wraps' = wraps /\ memoizedInteractions' = memoizedInteractions
      /\ rootUpdates' = rootUpdates /\ scheduled' = scheduled
      /\ workInProgressTime' = workInProgressTime /\ renderFinished' = renderFinished
  BY DEF commitReturns, Innermost
<1>2. /\ WorkingAt(Len(frames)) /\ workInProgressTime = NoWork
      /\ \A k \in DOMAIN frames' : ~WorkingAt(k)'
      /\ frames' \in Seq(Frame) /\ interactionsRef' \subseteq Nat
      /\ \A i : Cardinality(FramesWith(frames', i)) = Cardinality(FramesWith(frames, i))
  BY <1>0, <1>1, WorkEnds
<1>3. /\ map \in [Time -> SUBSET Nat] /\ counts \in [Interactions -> Nat]
      /\ \A i \in Interactions : /\ counts[i] = Holds(frames, wraps, map, i)
                                 /\ count[i] = 0 => counts[i] = 0
      /\ \A s \in Time : /\ map[s] \subseteq pendingInteractionMap[s]
                         /\ s <= t => map[s] = pendingInteractionMap[s]
                         /\ ~passive /\ s > t => map[s] = {}
  <2>1. CASE passive
    <3>1. count \in [Interactions -> Nat]
      BY <1>0 DEF TracingTypeOK, Interactions
    <3> QED  BY <1>0, <2>1, <3>1 DEF CountsHold, TracingTypeOK
  <2>2. CASE ~passive
    BY <1>0, <2>2, FinishedHolds
  <2> QED  BY <2>1, <2>2
<1>4. passive => map = pendingInteractionMap
  OBVIOUS
<1>5. t \in 0 .. MaxRootTime /\ (t # NoWork => t \in Time)
  BY <1>0, FirstPending, TracingAssumption DEF Time, NoWork
<1>6. now \in SUBSET Nat
  BY <1>0, <1>1, LeftFrames DEF Frame
<1>7. \A i \in now : i \in Interactions /\ count[i] > 0 /\ counts[i] > 0
  <2> TAKE i \in now
  <2>1. PICK j \in 1 .. Len(frames) - 1 : i \in frames[j].of
    BY <1>0, <1>1, <1>2, CallersAreHeld
  <2>2. j \in DOMAIN frames
    BY <1>0, <2>1 DEF TracingTypeOK
  <2>3. i \in Interactions /\ count[i] > 0
    BY <1>0, <2>1, <2>2, HeldIsCounted
  <2>4. counts[i] = Holds(frames, wraps, map, i)
    BY <1>3, <2>3
  <2>5. Cardinality(FramesWith(frames, i)) # 0
    <3>1. j \in FramesWith(frames, i)
      BY <2>1, <2>2 DEF FramesWith
    <3>2. IsFiniteSet(FramesWith(frames, i))
      BY <1>0, FramesWithFinite DEF TracingTypeOK
    <3> QED  BY <3>1, <3>2, FS_EmptySet
  <2>6. /\ Cardinality(FramesWith(frames, i)) \in Nat /\ Cardinality(WrapsWith(wraps, i)) \in Nat
        /\ Cardinality(TimesWith(map, i)) \in Nat
    BY <1>0, HoldsNat DEF TracingTypeOK
  <2> HIDE DEF map, counts
  <2>7. counts[i] > 0
    BY <2>4, <2>5, <2>6 DEF Holds
  <2> QED  BY <2>3, <2>7
<1>8. new \subseteq now
  BY DEF Unscheduled
<1> HIDE DEF map, counts, now
<1>9. /\ mapAfter \in [Time -> SUBSET Nat]
      /\ \A s \in Time : /\ map[s] \subseteq mapAfter[s] /\ mapAfter[s] \subseteq map[s] \cup now
                         /\ s # t => mapAfter[s] = map[s]
  <2>1. CASE t = NoWork
    BY <1>3, <2>1
  <2>2. CASE t # NoWork
    <3>1. /\ Pended(map, t, now) \in [Time -> SUBSET Nat]
          /\ Pended(map, t, now)[t] = map[t] \cup now
          /\ \A s \in Time : map[s] \subseteq Pended(map, t, now)[s]
          /\ \A s \in Time \ {t} : Pended(map, t, now)[s] = map[s]
      BY <1>3, <1>5, <1>6, <2>2, PendedMap
    <3> QED  BY <2>2, <3>1
  <2> QED  BY <2>1, <2>2
<1>10. /\ countsAfter \in [Interactions -> Nat]
       /\ \A i \in Interactions : /\ count[i] = 0 => countsAfter[i] = 0
                                  /\ countsAfter[i] = Holds(frames, wraps, mapAfter, i)
  <2>1. CASE t = NoWork
    BY <1>3, <2>1
  <2>2. CASE t # NoWork
    <3>1. /\ Plus(counts, new) \in [Interactions -> Nat]
          /\ \A i \in Interactions : Plus(counts, new)[i] = counts[i] + IF i \in new THEN 1 ELSE 0
      <4> HIDE DEF new
      <4> QED  BY <1>3 DEF Plus
    <3>2. ASSUME NEW i \in Interactions
          PROVE  Plus(counts, new)[i] = Holds(frames, wraps, Pended(map, t, now), i)
      <4>1. Cardinality(TimesWith(Pended(map, t, now), i))
              = Cardinality(TimesWith(map, i)) + IF i \in new THEN 1 ELSE 0
        BY <1>3, <1>5, <2>2, TimesWithPended
      <4>2. counts[i] = Holds(frames, wraps, map, i)
        BY <1>3
      <4>3. /\ Cardinality(FramesWith(frames, i)) \in Nat /\ Cardinality(WrapsWith(wraps, i)) \in Nat
            /\ Cardinality(TimesWith(map, i)) \in Nat
        BY <1>0, HoldsNat DEF TracingTypeOK
      <4> HIDE DEF new
      <4> QED  BY <3>1, <4>1, <4>2, <4>3 DEF Holds
    <3>3. ASSUME NEW i \in Interactions, count[i] = 0
          PROVE  Plus(counts, new)[i] = 0
      <4>1. i \notin new
        BY <1>7, <1>8, <3>3
      <4> HIDE DEF new
      <4> QED  BY <1>3, <3>1, <3>3, <4>1
    <3> QED  BY <2>2, <3>1, <3>2, <3>3
  <2> QED  BY <2>1, <2>2
<1> HIDE DEF mapAfter, countsAfter
<1>11. /\ count' \in Seq(Nat) /\ completions' \in Seq(Nat) /\ Len(completions') = Len(count')
       /\ Interactions' = Interactions /\ CountsHold' /\ CompletedAtNone'
  <2>1. \A i \in Interactions : countsAfter[i] = Holds(frames', wraps', pendingInteractionMap', i)
    BY <1>1, <1>2, <1>10 DEF Holds
  <2> QED  BY <1>0, <1>1, <1>10, <2>1, CountsFollow
<1>12. TracingTypeOK'
  BY <1>0, <1>1, <1>2, <1>9, <1>11 DEF TracingTypeOK
<1>13. KnownInteractions'
  <2>1. /\ \A w \in DOMAIN wraps' : wraps'[w].interactions \subseteq Interactions
        /\ \A s \in Time : pendingInteractionMap'[s] \subseteq Interactions
    BY <1>0, <1>1, <1>3, <1>7, <1>9 DEF KnownInteractions
  <2> QED  BY <1>0, <1>1, <1>11, <2>1, KnownAfterLeave
<1>14. ScopesAreHeld'
  BY <1>0, <1>1, ScopesAfterLeave
<1>15. FramesOK'
  <2>1. /\ renderFinished' => workInProgressTime' # NoWork
        /\ passivePending' => workInProgressTime' = NoWork
    BY <1>0, <1>1, <1>2 DEF FramesOK
  <2> QED  BY <1>0, <1>1, <1>2, <2>1, FramesAfterLeave
<1>16. MemoizedArePending'
  <2>1. ASSUME passive
        PROVE  \A i \in memoizedInteractions : \E s \in Time : i \in pendingInteractionMap'[s]
    <3>1. \A i \in memoizedInteractions : \E s \in Time : i \in pendingInteractionMap[s]
      BY <1>0, <1>1, <1>2, LeftFrames DEF MemoizedArePending
    <3> QED  BY <1>1, <1>4, <1>9, <2>1, <3>1
  <2> QED  BY <1>1, <1>2, <2>1 DEF MemoizedArePending
<1>17. UpdatesArePending'
  <2>1. \A u \in rootUpdates : u.time \in Time /\ u.time <= t
    BY <1>0, FirstPending
  <2> HIDE DEF t
  <2> QED  BY <1>0, <1>1, <1>3, <1>9, <2>1 DEF UpdatesArePending
<1>18. NoneAbove'
  <2>1. firstPendingTime' = firstPendingTime
    BY <1>1 DEF firstPendingTime
  <2>2. ASSUME ~passive, NEW s \in Time, s > firstPendingTime
        PROVE  pendingInteractionMap'[s] = {}
    <3>1. s # t
      BY <1>5, <2>2, TracingAssumption DEF Time
    <3> QED  BY <1>1, <1>3, <1>9, <2>2, <3>1
  <2> QED  BY <1>1, <2>1, <2>2 DEF NoneAbove
<1> QED  BY <1>11, <1>12, <1>13, <1>14, <1>15, <1>16, <1>17, <1>18 DEF TracingInv
-----------------------------------------------------------------------------
LEMMA TracingStep ==
  TracingInv /\ [TracingNext]_tracingVars => TracingInv'
<1> SUFFICES ASSUME TracingInv, [TracingNext]_tracingVars PROVE TracingInv'
  OBVIOUS
<1>1. CASE trace
  BY <1>1, traceStep
<1>2. CASE traceReturns
  BY <1>2, traceReturnsStep
<1>3. CASE clear
  BY <1>3, clearStep
<1>4. CASE clearReturns
  BY <1>4, clearReturnsStep
<1>5. CASE wrap
  BY <1>5, wrapStep
<1>6. CASE wrappedReturns
  BY <1>6, wrappedReturnsStep
<1>7. CASE \E w \in DOMAIN wraps : runWrapped(w) \/ cancel(w)
  BY <1>7, runWrappedStep, cancelStep
<1>8. CASE \E t \in Time : scheduleUpdate(t) \/ renderRoot(t) \/ pingSuspendedRoot(t)
  BY <1>8, scheduleUpdateStep, renderRootStep, pingSuspendedRootStep
<1>9. CASE renderReturns
  BY <1>9, renderReturnsStep
<1>10. CASE commitRoot
  BY <1>10, commitRootStep
<1>11. CASE \E passive \in BOOLEAN : commitReturns(passive)
  BY <1>11, commitReturnsStep
<1>12. CASE flushPassiveEffects
  BY <1>12, flushPassiveEffectsStep
<1>13. CASE passiveEffectsReturn
  BY <1>13, passiveEffectsReturnStep
<1>14. CASE UNCHANGED tracingVars
  <2>1. UNCHANGED <<interactionsRef, frames, count, completions, wraps, pendingInteractionMap,
                    memoizedInteractions, rootUpdates, scheduled, workInProgressTime,
                    renderFinished, passivePending>>
    BY <1>14 DEF tracingVars, rootVars
  <2> QED  BY <2>1 DEF TracingInv, TracingTypeOK, KnownInteractions, CountsHold, CompletedAtNone,
                       ScopesAreHeld, Scope, HeldWithin, FramesOK, WorkingAt, MemoizedArePending,
                       UpdatesArePending, NoneAbove, firstPendingTime, Interactions
<1> QED  BY <1>1, <1>2, <1>3, <1>4, <1>5, <1>6, <1>7, <1>8, <1>9, <1>10, <1>11, <1>12, <1>13, <1>14
            DEF TracingNext

\* Counts are what they are counts of, and what runs traces nothing that is done.
THEOREM TracingInvariant == TracingSpec => []TracingInv
<1>1. TracingInit => TracingInv
  BY InitHolds
<1>2. TracingInv /\ [TracingNext]_tracingVars => TracingInv'
  BY TracingStep
<1> QED  BY <1>1, <1>2, PTL DEF TracingSpec

\* Each interaction is reported as completed once, when no work is left for it and
\* not before (unstable_trace, unstable_wrap, finishPendingInteractions).
THEOREM InteractionsAreCompletedOnce == TracingSpec => []InteractionsComplete
<1>1. TracingInv => InteractionsComplete
  <2> SUFFICES ASSUME TracingInv PROVE InteractionsComplete
    OBVIOUS
  <2>0. /\ TracingTypeOK /\ KnownInteractions /\ CountsHold /\ CompletedAtNone /\ ScopesAreHeld
        /\ FramesOK /\ MemoizedArePending /\ UpdatesArePending /\ NoneAbove
    BY DEF TracingInv
  <2>1. frames = <<>> => interactionsRef = {}
    BY <2>0 DEF ScopesAreHeld, Scope, HeldWithin
  <2>2. ASSUME NEW i \in Interactions
        PROVE  count[i] \in Nat /\ completions[i] = IF count[i] = 0 THEN 1 ELSE 0
    BY <2>0, HoldsNat DEF CountsHold, CompletedAtNone, TracingTypeOK
  <2>3. ASSUME NEW i \in Interactions, WorkIsLeft(i) \/ i \in interactionsRef
        PROVE  count[i] > 0
    <3>1. CASE i \in interactionsRef
      BY <2>0, <3>1, CurrentIsCounted
    <3>2. CASE \E k \in DOMAIN frames : i \in frames[k].of
      BY <2>0, <3>2, HeldIsCounted
    <3>3. CASE \E w \in DOMAIN wraps : wraps[w].state = "waiting" /\ i \in wraps[w].interactions
      BY <2>0, <3>3, HeldIsCounted
    <3>4. CASE \E u \in rootUpdates : i \in u.interactions
      <4>1. \A u \in rootUpdates : u.time \in Time
        BY <2>0, FirstPending
      <4> QED  BY <2>0, <3>4, <4>1, HeldIsCounted DEF UpdatesArePending
    <3>5. CASE passivePending /\ i \in memoizedInteractions
      BY <2>0, <3>5, HeldIsCounted DEF MemoizedArePending
    <3> QED  BY <2>3, <3>1, <3>2, <3>3, <3>4, <3>5 DEF WorkIsLeft
  <2>4. ASSUME NEW i \in Interactions, frames = <<>>, rootUpdates = {}, ~passivePending,
               \A w \in DOMAIN wraps : wraps[w].state # "waiting"
        PROVE  count[i] = 0
    <3>1. firstPendingTime = 0
      BY <2>0, <2>4, FirstPending DEF NoWork
    <3>2. \A t \in Time : pendingInteractionMap[t] = {}
      BY <2>0, <2>4, <3>1 DEF NoneAbove, Time
    <3>3. FramesWith(frames, i) = {} /\ WrapsWith(wraps, i) = {}
          /\ TimesWith(pendingInteractionMap, i) = {}
      BY <2>4, <3>2 DEF FramesWith, WrapsWith, TimesWith
    <3> QED  BY <2>0, <3>3, FS_EmptySet DEF CountsHold, Holds
  <2> QED  BY <2>1, <2>2, <2>3, <2>4 DEF InteractionsComplete
<1> QED  BY <1>1, TracingInvariant, PTL
-----------------------------------------------------------------------------
(***************************************************************************)
(* The cache of react-cache.                                               *)
(***************************************************************************)

(***************************************************************************)
(* A list of n entries, from first on, with the pointers of the code.      *)
(***************************************************************************)
IsList(L, n, first, next, previous) ==
  /\ n \in Nat /\ L \in [1 .. n -> Entry]
  /\ \A i \in 1 .. n, j \in 1 .. n : L[i] = L[j] => i = j
  /\ next \in [Entry -> Entry \cup {Null}] /\ previous \in [Entry -> Entry \cup {Null}]
  /\ first = IF n = 0 THEN Null ELSE L[1]
  /\ \A i \in 1 .. n :
       /\ next[L[i]] = L[IF i = n THEN 1 ELSE i + 1]
       /\ previous[L[i]] = L[IF i = 1 THEN n ELSE i - 1]

\* The list with a new first entry.
InFront(e, L, n) == [i \in 1 .. n + 1 |-> IF i = 1 THEN e ELSE L[i - 1]]

\* The list without its entry at m.
Without(L, n, m) == [i \in 1 .. n - 1 |-> IF i < m THEN L[i] ELSE L[i + 1]]

\* Linking an entry that is not in the list puts it in front (add, access).
LEMMA AppendedIsList ==
  ASSUME NEW L, NEW n, NEW first, NEW next, NEW previous,
         IsList(L, n, first, next, previous),
         NEW e \in Entry, \A i \in 1 .. n : L[i] # e,
         AppendToHead(e, first, next, previous)
  PROVE  IsList(InFront(e, L, n), n + 1, e, nextEntry', previousEntry')
<1> DEFINE F == InFront(e, L, n)
<1>0. n \in Nat /\ L \in [1 .. n -> Entry] /\ Null \notin Entry
  BY ReactCacheAssumption DEF IsList
<1>1. F \in [1 .. n + 1 -> Entry]
  BY <1>0 DEF InFront
<1>2. \A i \in 1 .. n + 1, j \in 1 .. n + 1 : F[i] = F[j] => i = j
  BY <1>0 DEF InFront, IsList
<1>3. CASE n = 0
  <2>1. nextEntry' = [next EXCEPT ![e] = e] /\ previousEntry' = [previous EXCEPT ![e] = e]
    BY <1>3 DEF AppendToHead, IsList
  <2> QED  BY <1>0, <1>1, <1>2, <1>3, <2>1 DEF IsList, InFront
<1>4. CASE n # 0
  <2>1. first = L[1] /\ first \in Entry /\ first # Null /\ previous[first] = L[n] /\ L[n] \in Entry
        /\ 1 \in 1 .. n /\ n \in 1 .. n
    BY <1>0, <1>4 DEF IsList
  <2>2. /\ nextEntry' = [next EXCEPT ![L[n]] = e, ![e] = first]
        /\ previousEntry' = [previous EXCEPT ![e] = L[n], ![first] = e]
    BY <2>1, Zenon DEF AppendToHead
  <2>3. nextEntry' \in [Entry -> Entry \cup {Null}] /\ previousEntry' \in [Entry -> Entry \cup {Null}]
    BY <2>1, <2>2 DEF IsList
  <2>4. ASSUME NEW i \in 1 .. n + 1
        PROVE  nextEntry'[F[i]] = F[IF i = n + 1 THEN 1 ELSE i + 1]
    <3>1. CASE i = 1
      <4>1. F[1] = e /\ F[2] = L[1] /\ L[n] # e
        BY <1>0, <1>4 DEF InFront
      <4> QED  BY <1>0, <1>4, <2>1, <2>2, <3>1, <4>1 DEF IsList
    <3>2. CASE i = n + 1 /\ i # 1
      <4>1. F[n + 1] = L[n] /\ F[1] = e /\ L[n] # e
        BY <1>0, <1>4 DEF InFront
      <4> QED  BY <1>0, <2>1, <2>2, <3>2, <4>1 DEF IsList
    <3>3. CASE i # 1 /\ i # n + 1
      <4>1. F[i] = L[i - 1] /\ F[i + 1] = L[i] /\ L[i - 1] # e /\ i - 1 \in 1 .. n /\ i - 1 # n
        BY <1>0, <3>3 DEF InFront
      <4>2. L[i - 1] # L[n] /\ next[L[i - 1]] = L[i]
        BY <1>0, <2>1, <4>1, <3>3 DEF IsList
      <4>3. L[i - 1] \in Entry
        BY <1>0, <4>1
      <4> QED  BY <2>1, <2>2, <3>3, <4>1, <4>2, <4>3 DEF IsList
    <3> QED  BY <3>1, <3>2, <3>3
  <2>5. ASSUME NEW i \in 1 .. n + 1
        PROVE  previousEntry'[F[i]] = F[IF i = 1 THEN n + 1 ELSE i - 1]
    <3>1. CASE i = 1
      <4>1. F[1] = e /\ F[n + 1] = L[n] /\ L[1] # e
        BY <1>0, <1>4 DEF InFront
      <4> QED  BY <1>0, <1>4, <2>1, <2>2, <3>1, <4>1 DEF IsList
    <3>2. CASE i = 2
      <4>1. F[2] = L[1] /\ F[1] = e
        BY <1>0, <1>4 DEF InFront
      <4> QED  BY <1>0, <2>1, <2>2, <3>2, <4>1 DEF IsList
    <3>3. CASE i # 1 /\ i # 2
      <4>1. F[i] = L[i - 1] /\ F[i - 1] = L[i - 2] /\ L[i - 1] # e /\ i - 1 \in 1 .. n /\ i - 1 # 1
        BY <1>0, <3>3 DEF InFront
      <4>2. L[i - 1] # L[1] /\ previous[L[i - 1]] = L[i - 2]
        BY <1>0, <2>1, <4>1, <3>3 DEF IsList
      <4>3. L[i - 1] \in Entry
        BY <1>0, <4>1
      <4> QED  BY <2>1, <2>2, <3>3, <4>1, <4>2, <4>3 DEF IsList
    <3> QED  BY <3>1, <3>2, <3>3
  <2>6. n + 1 \in Nat /\ e = IF n + 1 = 0 THEN Null ELSE F[1]
    BY <1>0 DEF InFront
  <2> HIDE DEF F
  <2>7. IsList(F, n + 1, e, nextEntry', previousEntry')
    BY <1>1, <1>2, <2>3, <2>4, <2>5, <2>6 DEF IsList
  <2> QED  BY <2>7 DEF F
<1> QED  BY <1>3, <1>4

\* Linking the neighbours of an entry to each other takes it out (access), if it
\* is not the first.
LEMMA UnlinkedIsList ==
  ASSUME NEW L, NEW n, NEW first, NEW next, NEW previous,
         IsList(L, n, first, next, previous), NEW m \in 2 .. n
  PROVE  IsList(Without(L, n, m), n - 1, first,
                [next EXCEPT ![previous[L[m]]] = next[L[m]]],
                [previous EXCEPT ![next[L[m]]] = previous[L[m]]])
<1> DEFINE F == Without(L, n, m)
           nx == [next EXCEPT ![previous[L[m]]] = next[L[m]]]
           pv == [previous EXCEPT ![next[L[m]]] = previous[L[m]]]
           after == IF m = n THEN 1 ELSE m + 1
<1>0. n \in Nat /\ L \in [1 .. n -> Entry] /\ n >= 2 /\ m \in 1 .. n /\ m - 1 \in 1 .. n
  BY DEF IsList
<1>1. F \in [1 .. n - 1 -> Entry]
  BY <1>0 DEF Without
<1>2. \A i \in 1 .. n - 1, j \in 1 .. n - 1 : F[i] = F[j] => i = j
  BY <1>0 DEF Without, IsList
<1>3. previous[L[m]] = L[m - 1] /\ next[L[m]] = L[after] /\ after \in 1 .. n
  BY <1>0 DEF IsList
<1>4. L[m - 1] \in Entry /\ L[after] \in Entry
  BY <1>0, <1>3
<1>5. nx \in [Entry -> Entry \cup {Null}] /\ pv \in [Entry -> Entry \cup {Null}]
  BY <1>3, <1>4 DEF IsList
<1>6. ASSUME NEW i \in 1 .. n
      PROVE  /\ nx[L[i]] = IF i = m - 1 THEN L[after] ELSE next[L[i]]
             /\ pv[L[i]] = IF i = after THEN L[m - 1] ELSE previous[L[i]]
  <2>1. L[i] \in Entry
    BY <1>0
  <2>2. (L[i] = L[m - 1]) = (i = m - 1) /\ (L[i] = L[after]) = (i = after)
    BY <1>0, <1>3 DEF IsList
  <2> QED  BY <1>3, <1>4, <2>1, <2>2 DEF IsList
<1>7. ASSUME NEW i \in 1 .. n - 1
      PROVE  nx[F[i]] = F[IF i = n - 1 THEN 1 ELSE i + 1]
  <2>1. CASE i < m - 1
    <3>1. F[i] = L[i] /\ i \in 1 .. n /\ i # m - 1 /\ i # n - 1 /\ F[i + 1] = L[i + 1] /\ i # n
      BY <1>0, <2>1 DEF Without
    <3>2. next[L[i]] = L[i + 1]
      BY <3>1 DEF IsList
    <3> QED  BY <1>6, <3>1, <3>2
  <2>2. CASE i = m - 1
    <3>1. F[i] = L[i] /\ i \in 1 .. n
      BY <1>0, <2>2 DEF Without
    <3>2. F[IF i = n - 1 THEN 1 ELSE i + 1] = L[after]
      BY <1>0, <2>2 DEF Without
    <3> QED  BY <1>6, <2>2, <3>1, <3>2
  <2>3. CASE i > m - 1
    <3>1. F[i] = L[i + 1] /\ i + 1 \in 1 .. n /\ i + 1 # m - 1
      BY <1>0, <2>3 DEF Without
    <3>2. next[L[i + 1]] = L[IF i + 1 = n THEN 1 ELSE i + 2]
      BY <3>1 DEF IsList
    <3>3. F[IF i = n - 1 THEN 1 ELSE i + 1] = L[IF i + 1 = n THEN 1 ELSE i + 2]
      BY <1>0, <2>3 DEF Without
    <3> QED  BY <1>6, <3>1, <3>2, <3>3
  <2> QED  BY <2>1, <2>2, <2>3, <1>0
<1>8. ASSUME NEW i \in 1 .. n - 1
      PROVE  pv[F[i]] = F[IF i = 1 THEN n - 1 ELSE i - 1]
  <2>1. CASE i < m /\ i # 1
    <3>1. F[i] = L[i] /\ i \in 1 .. n /\ i # after /\ F[i - 1] = L[i - 1]
      BY <1>0, <2>1 DEF Without
    <3>2. previous[L[i]] = L[i - 1]
      BY <3>1, <2>1 DEF IsList
    <3> QED  BY <1>6, <2>1, <3>1, <3>2
  <2>2. CASE i = 1
    <3>1. F[i] = L[1] /\ 1 \in 1 .. n /\ (1 = after) = (m = n)
      BY <1>0, <2>2 DEF Without
    <3>2. previous[L[1]] = L[n]
      BY <1>0 DEF IsList
    <3>3. F[n - 1] = IF m = n THEN L[m - 1] ELSE L[n]
      BY <1>0 DEF Without
    <3> QED  BY <1>6, <2>2, <3>1, <3>2, <3>3
  <2>3. CASE i >= m
    <3>1. F[i] = L[i + 1] /\ i + 1 \in 1 .. n /\ i # 1 /\ (i + 1 = after) = (i = m)
      BY <1>0, <2>3 DEF Without
    <3>2. previous[L[i + 1]] = L[i]
      BY <1>0, <3>1 DEF IsList
    <3>3. F[i - 1] = IF i = m THEN L[m - 1] ELSE L[i]
      BY <1>0, <2>3 DEF Without
    <3> QED  BY <1>6, <3>1, <3>2, <3>3
  <2> QED  BY <2>1, <2>2, <2>3, <1>0
<1>9. n - 1 \in Nat /\ first = IF n - 1 = 0 THEN Null ELSE F[1]
  BY <1>0 DEF IsList, Without
<1> HIDE DEF F, nx, pv
<1>10. IsList(F, n - 1, first, nx, pv)
  BY <1>1, <1>2, <1>5, <1>7, <1>8, <1>9 DEF IsList
<1> QED  BY <1>10 DEF F, nx, pv
-----------------------------------------------------------------------------
\* The entries that are cached, the one used last first.
Cached == [n \in 1 .. size |-> entries[use[n]]]

CacheTypeOK ==
  /\ fetched \in 0 .. MaxEntry /\ key \in [Entry -> Key \cup {Null}]
  /\ LIMIT \in Limits /\ cleanUpIsScheduled \in BOOLEAN
  /\ entries \in [Key -> Entry \cup {Null}] /\ use \in Seq(Key) /\ size = Len(use)

\* A key is cached once, in an entry that has been created for it.
CachedOnce ==
  /\ \A i \in 1 .. size, j \in 1 .. size : use[i] = use[j] => i = j
  /\ \A k \in Key : (entries[k] # Null) = (\E i \in 1 .. size : use[i] = k)
  /\ \A k \in Key : entries[k] # Null => entries[k] <= fetched /\ key[entries[k]] = k

CacheInv ==
  /\ CacheTypeOK /\ CachedOnce
  /\ IsList(Cached, size, firstEntry, nextEntry, previousEntry)

\* A non-empty set of positions has a least element, and Min is that element.
LEMMA MinOfPositions ==
  ASSUME NEW S, S \subseteq Nat, S # {}
  PROVE  Min(S) \in S /\ \A y \in S : Min(S) <= y
<1>1. PICK x \in S : \A y \in S : ~(<<y, x>> \in OpToRel(<, Nat))
  BY NatLessThanWellFounded, WFMin, Zenon
<1>2. ASSUME NEW y \in S
      PROVE  x <= y
  <2>1. <<y, x>> \in Nat \X Nat /\ <<y, x>>[1] = y /\ <<y, x>>[2] = x
    OBVIOUS
  <2>2. y < x => <<y, x>> \in OpToRel(<, Nat)
    BY <2>1, Zenon DEF OpToRel
  <2>3. ~(y < x)
    BY <1>1, <2>2, Zenon
  <2> QED  BY <2>3
<1> QED  BY <1>2, Zenon DEF Min

\* The history of the keys when one is used that is not cached.
LEMMA UsedFirst ==
  ASSUME use \in Seq(Key), NEW k \in Key, \A i \in 1 .. Len(use) : use[i] # k
  PROVE  /\ Used(k) \in Seq(Key) /\ Len(Used(k)) = Len(use) + 1
         /\ \A i \in 1 .. Len(use) + 1 : Used(k)[i] = IF i = 1 THEN k ELSE use[i - 1]
<1>1. Used(k) = <<k>> \o use
  BY Zenon DEF Used, RemoveFirst
<1>2. <<k>> \in Seq(Key) /\ Len(<<k>>) = 1 /\ <<k>>[1] = k /\ Len(use) \in Nat
  BY LenProperties
<1> HIDE DEF Used
<1> QED  BY <1>1, <1>2, ConcatProperties

\* The history when one is used again: it moves to the front.
LEMMA UsedAgain ==
  ASSUME use \in Seq(Key), NEW m \in 1 .. Len(use),
         \A i \in 1 .. Len(use), j \in 1 .. Len(use) : use[i] = use[j] => i = j
  PROVE  /\ Used(use[m]) \in Seq(Key) /\ Len(Used(use[m])) = Len(use)
         /\ \A i \in 1 .. Len(use) :
              Used(use[m])[i] = IF i = 1 THEN use[m] ELSE use[IF i <= m THEN i - 1 ELSE i]
<1> DEFINE k == use[m]
           I == {i \in 1 .. Len(use) : use[i] = k}
           before == SubSeq(use, 1, m - 1)
           after == SubSeq(use, m + 1, Len(use))
<1>0. Len(use) \in Nat /\ m \in Nat /\ k \in Key /\ \A i \in 1 .. Len(use) : use[i] \in Key
  BY LenProperties, ElementOfSeq
<1>1. I = {m}
  OBVIOUS
<1>2. Min(I) = m
  BY <1>0, <1>1, MinOfPositions
<1>3. SelectInSeq(use, LAMBDA v : v = k) = m
  BY <1>1, <1>2 DEF SelectInSeq
<1>4. RemoveFirst(use, k) = before \o after
  BY <1>3, Zenon DEF RemoveFirst, RemoveAt
<1>5. /\ before \in Seq(Key) /\ Len(before) = m - 1
      /\ \A i \in 1 .. m - 1 : before[i] = use[i]
  BY <1>0, SubSeqProperties
<1>6. /\ after \in Seq(Key) /\ Len(after) = Len(use) - m
      /\ \A i \in 1 .. Len(use) - m : after[i] = use[m + i]
  BY <1>0, SubSeqProperties
<1> HIDE DEF before, after
<1>7. /\ before \o after \in Seq(Key) /\ Len(before \o after) = Len(use) - 1
      /\ \A i \in 1 .. Len(use) - 1 :
           (before \o after)[i] = IF i <= m - 1 THEN before[i] ELSE after[i - (m - 1)]
  <2>1. /\ before \o after \in Seq(Key) /\ Len(before \o after) = Len(before) + Len(after)
        /\ \A i \in 1 .. Len(before) + Len(after) :
             (before \o after)[i] = IF i <= Len(before) THEN before[i] ELSE after[i - Len(before)]
    <3>1. before \in Seq(Key) /\ after \in Seq(Key)
      BY <1>5, <1>6
    <3> QED  BY <3>1, ConcatProperties
  <2>2. Len(before) + Len(after) = Len(use) - 1
    BY <1>0, <1>5, <1>6
  <2> QED  BY <1>5, <2>1, <2>2
<1>8. ASSUME NEW i \in 1 .. Len(use) - 1
      PROVE  (before \o after)[i] = use[IF i < m THEN i ELSE i + 1]
  <2>1. CASE i < m
    <3>1. i \in 1 .. m - 1
      BY <1>0, <2>1
    <3> QED  BY <1>0, <1>5, <1>7, <2>1, <3>1
  <2>2. CASE ~(i < m)
    <3>1. i - (m - 1) \in 1 .. Len(use) - m /\ m + (i - (m - 1)) = i + 1 /\ ~(i <= m - 1)
      BY <1>0, <2>2
    <3> QED  BY <1>6, <1>7, <2>2, <3>1
  <2> QED  BY <2>1, <2>2
<1>9. <<k>> \in Seq(Key) /\ Len(<<k>>) = 1 /\ <<k>>[1] = k
  BY <1>0
<1> DEFINE rest == before \o after
<1> HIDE DEF rest, k
<1>10. /\ <<k>> \o rest \in Seq(Key) /\ Len(<<k>> \o rest) = Len(use)
       /\ \A i \in 1 .. Len(use) : (<<k>> \o rest)[i] = IF i <= 1 THEN <<k>>[i] ELSE rest[i - 1]
  BY <1>0, <1>7, <1>9, ConcatProperties DEF rest
<1>11. ASSUME NEW i \in 1 .. Len(use)
       PROVE  (<<k>> \o rest)[i] = IF i = 1 THEN k ELSE use[IF i <= m THEN i - 1 ELSE i]
  <2>1. CASE i = 1
    BY <1>9, <1>10, <2>1
  <2>2. CASE i # 1
    <3>1. i - 1 \in 1 .. Len(use) - 1 /\ ~(i <= 1) /\ (i - 1 < m) = (i <= m) /\ (i - 1) + 1 = i
      BY <1>0, <2>2
    <3>2. rest[i - 1] = use[IF i - 1 < m THEN i - 1 ELSE (i - 1) + 1]
      BY <1>8, <3>1 DEF rest
    <3> QED  BY <1>10, <2>2, <3>1, <3>2
  <2> QED  BY <2>1, <2>2
<1>12. Used(k) = <<k>> \o rest
  BY <1>4 DEF Used, rest
<1> QED  BY <1>10, <1>11, <1>12 DEF k

\* With the entries of the history in their order the invariant holds again.
LEMMA InitCache ==
  ASSUME CacheInit
  PROVE  CacheInv
<1>1. CacheTypeOK
  <2>1. use \in Seq(Key) /\ Len(use) = 0
    BY EmptySeq DEF CacheInit
  <2>2. /\ fetched = 0 /\ key = [e \in Entry |-> Null] /\ entries = [k \in Key |-> Null]
        /\ LIMIT \in Limits /\ cleanUpIsScheduled = FALSE /\ size = 0
    BY DEF CacheInit
  <2>3. key \in [Entry -> Key \cup {Null}] /\ entries \in [Key -> Entry \cup {Null}]
    BY <2>2
  <2>4. 0 \in 0 .. MaxEntry
    BY ReactCacheAssumption
  <2> QED  BY <2>1, <2>2, <2>3, <2>4, Zenon DEF CacheTypeOK
<1>2. CachedOnce
  <2>1. size = 0 /\ \A k \in Key : entries[k] = Null
    BY DEF CacheInit
  <2>2. \A i \in 1 .. size : FALSE
    BY <2>1
  <2> QED  BY <2>1, <2>2 DEF CachedOnce
<1>3. IsList(Cached, size, firstEntry, nextEntry, previousEntry)
  BY DEF CacheInit, IsList, Cached
<1> QED  BY <1>1, <1>2, <1>3 DEF CacheInv

LEMMA AddKeeps ==
  ASSUME CacheInv, NEW k \in Key, add(k)
  PROVE  CacheInv'
<1> DEFINE e == fetched + 1
<1>0. /\ entries[k] = Null /\ e \in Entry /\ fetched' = e /\ key' = [key EXCEPT ![e] = k]
      /\ AppendToHead(e, firstEntry, nextEntry, previousEntry)
      /\ firstEntry' = e /\ size' = size + 1 /\ entries' = [entries EXCEPT ![k] = e]
      /\ use' = Used(k) /\ UNCHANGED <<LIMIT, cleanUpIsScheduled>>
  BY Zenon DEF add
<1>1. Len(use) \in Nat /\ size = Len(use) /\ fetched \in Nat /\ Null \notin Entry
      /\ \A i \in 1 .. size : use[i] \in Key
  BY LenProperties, ElementOfSeq, ReactCacheAssumption DEF CacheInv, CacheTypeOK
<1>2. \A i \in 1 .. Len(use) : use[i] # k
  BY <1>0, <1>1 DEF CacheInv, CachedOnce
<1>3. /\ use' \in Seq(Key) /\ Len(use') = size + 1
      /\ \A i \in 1 .. size + 1 : use'[i] = IF i = 1 THEN k ELSE use[i - 1]
  BY <1>0, <1>1, <1>2, UsedFirst DEF CacheInv, CacheTypeOK
<1>4. CacheTypeOK'
  BY <1>0, <1>1, <1>3 DEF CacheInv, CacheTypeOK, Entry
<1>5. ASSUME NEW i \in 1 .. size
      PROVE  /\ entries[use[i]] \in Entry /\ entries[use[i]] <= fetched
             /\ key[entries[use[i]]] = use[i] /\ entries'[use[i]] = entries[use[i]]
  <2>1. use[i] \in Key /\ use[i] # k
    BY <1>1, <1>2
  <2>2. entries[use[i]] # Null /\ entries[use[i]] \in Entry \cup {Null}
    BY <2>1 DEF CacheInv, CachedOnce, CacheTypeOK
  <2>3. entries[use[i]] <= fetched /\ key[entries[use[i]]] = use[i]
    BY <2>1, <2>2 DEF CacheInv, CachedOnce
  <2>4. entries'[use[i]] = entries[use[i]]
    BY <1>0, <2>1 DEF CacheInv, CacheTypeOK
  <2> QED  BY <2>2, <2>3, <2>4
<1>6. CachedOnce'
  <2>1. ASSUME NEW i \in 1 .. size', NEW j \in 1 .. size', use'[i] = use'[j]
        PROVE  i = j
    BY <1>0, <1>1, <1>2, <1>3, <2>1 DEF CacheInv, CachedOnce
  <2>2. ASSUME NEW h \in Key
        PROVE  (entries'[h] # Null) = (\E i \in 1 .. size' : use'[i] = h)
    <3>1. CASE h = k
      <4>1. entries'[h] # Null
        BY <1>0, <1>1, <3>1 DEF CacheInv, CacheTypeOK
      <4>2. 1 \in 1 .. size' /\ use'[1] = h
        BY <1>0, <1>1, <1>3, <3>1
      <4> QED  BY <4>1, <4>2
    <3>2. CASE h # k
      <4>1. entries'[h] = entries[h]
        BY <1>0, <3>2 DEF CacheInv, CacheTypeOK
      <4>2. ASSUME NEW i \in 1 .. size, use[i] = h
            PROVE  \E j \in 1 .. size' : use'[j] = h
        <5>1. i + 1 \in 1 .. size + 1 /\ use'[i + 1] = h
          BY <1>1, <1>3, <4>2
        <5> QED  BY <1>0, <5>1
      <4>3. ASSUME NEW i \in 1 .. size', use'[i] = h
            PROVE  \E j \in 1 .. size : use[j] = h
        <5>1. i - 1 \in 1 .. size /\ use[i - 1] = h
          BY <1>0, <1>1, <1>3, <3>2, <4>3
        <5> QED  BY <5>1
      <4>4. (\E i \in 1 .. size : use[i] = h) = (entries[h] # Null)
        BY DEF CacheInv, CachedOnce
      <4> QED  BY <4>1, <4>2, <4>3, <4>4
    <3> QED  BY <3>1, <3>2
  <2>3. ASSUME NEW h \in Key, entries'[h] # Null
        PROVE  entries'[h] <= fetched' /\ key'[entries'[h]] = h
    <3>1. CASE h = k
      <4>1. entries'[h] = e /\ key'[e] = k
        BY <1>0, <3>1 DEF CacheInv, CacheTypeOK
      <4> QED  BY <1>0, <1>1, <3>1, <4>1
    <3>2. CASE h # k
      <4>1. entries'[h] = entries[h] /\ entries[h] \in Entry /\ entries[h] <= fetched
            /\ key[entries[h]] = h
        BY <1>0, <2>3, <3>2 DEF CacheInv, CacheTypeOK, CachedOnce
      <4>2. entries[h] # e /\ entries[h] \in Int
        BY <1>1, <4>1 DEF Entry
      <4>3. key'[entries[h]] = key[entries[h]]
        BY <1>0, <4>1, <4>2 DEF CacheInv, CacheTypeOK
      <4> QED  BY <1>0, <1>1, <4>1, <4>2, <4>3
    <3> QED  BY <3>1, <3>2
  <2> QED  BY <2>1, <2>2, <2>3 DEF CachedOnce
<1>7. Cached' = InFront(e, Cached, size)
  <2>1. entries'[k] = e
    BY <1>0 DEF CacheInv, CacheTypeOK
  <2>2. ASSUME NEW i \in 1 .. size + 1
        PROVE  entries'[use'[i]] = IF i = 1 THEN e ELSE Cached[i - 1]
    <3>1. CASE i = 1
      BY <1>1, <1>3, <2>1, <3>1
    <3>2. CASE i # 1
      <4>1. i - 1 \in 1 .. size
        BY <1>1, <3>2
      <4>2. use'[i] = use[i - 1] /\ entries'[use[i - 1]] = entries[use[i - 1]]
        BY <1>3, <1>5, <3>2, <4>1
      <4> QED  BY <3>2, <4>1, <4>2 DEF Cached
    <3> QED  BY <3>1, <3>2
  <2>3. Cached' = [i \in 1 .. size + 1 |-> entries'[use'[i]]]
    BY <1>0 DEF Cached
  <2> QED  BY <2>2, <2>3 DEF InFront
<1>8. \A i \in 1 .. size : Cached[i] # e
  BY <1>1, <1>5 DEF Cached, Entry
<1>9. IsList(Cached', size', firstEntry', nextEntry', previousEntry')
  <2>1. IsList(Cached, size, firstEntry, nextEntry, previousEntry)
    BY DEF CacheInv
  <2>2. IsList(InFront(e, Cached, size), size + 1, e, nextEntry', previousEntry')
    BY <1>0, <1>8, <2>1, AppendedIsList
  <2> QED  BY <1>0, <1>7, <2>2, Zenon
<1> QED  BY <1>4, <1>6, <1>9, Zenon DEF CacheInv, IsList, Cached

LEMMA AccessKeeps ==
  ASSUME CacheInv, NEW k \in Key, access(k)
  PROVE  CacheInv'
<1>0. /\ entries[k] # Null /\ MoveToHead(entries[k]) /\ firstEntry' = entries[k]
      /\ cleanUpIsScheduled' = Scheduled(LIMIT) /\ use' = Used(k)
      /\ UNCHANGED <<fetched, key, size, LIMIT, entries>>
  BY Zenon DEF access
<1>1. /\ size \in Nat /\ size = Len(use) /\ use \in Seq(Key) /\ \A i \in 1 .. size : use[i] \in Key
      /\ LIMIT \in Nat
  BY LenProperties, ElementOfSeq, ReactCacheAssumption DEF CacheInv, CacheTypeOK
<1>2. PICK m \in 1 .. size : use[m] = k
  BY <1>0 DEF CacheInv, CachedOnce
<1>3. \A i \in 1 .. size, j \in 1 .. size : use[i] = use[j] => i = j
  BY DEF CacheInv, CachedOnce
<1>4. /\ use' \in Seq(Key) /\ Len(use') = size
      /\ \A i \in 1 .. size : use'[i] = IF i = 1 THEN k ELSE use[IF i <= m THEN i - 1 ELSE i]
  <2>1. m \in 1 .. Len(use) /\ use' = Used(use[m])
    BY <1>0, <1>1, <1>2
  <2> QED  BY <1>1, <1>2, <1>3, <2>1, UsedAgain
<1> DEFINE at(i) == IF i = 1 THEN m ELSE IF i <= m THEN i - 1 ELSE i
<1>5. \A i \in 1 .. size : at(i) \in 1 .. size /\ use'[i] = use[at(i)]
  BY <1>1, <1>2, <1>4
<1>6. CacheTypeOK'
  <2>1. Scheduled(LIMIT) \in BOOLEAN
    BY DEF Scheduled, CacheInv, CacheTypeOK
  <2> QED  BY <1>0, <1>1, <1>4, <2>1 DEF CacheInv, CacheTypeOK
<1>7. CachedOnce'
  <2>1. ASSUME NEW i \in 1 .. size, NEW j \in 1 .. size, use'[i] = use'[j]
        PROVE  i = j
    <3>1. at(i) = at(j)
      BY <1>3, <1>5, <2>1
    <3> QED  BY <1>1, <1>2, <3>1
  <2>2. ASSUME NEW h \in Key, NEW i \in 1 .. size, use[i] = h
        PROVE  \E j \in 1 .. size : use'[j] = h
    <3>1. CASE i = m
      BY <1>1, <1>2, <1>4, <2>2, <3>1
    <3>2. CASE i < m
      <4>1. i + 1 \in 1 .. size /\ at(i + 1) = i
        BY <1>1, <1>2, <3>2
      <4>2. use'[i + 1] = use[i]
        BY <1>5, <4>1
      <4> QED  BY <2>2, <4>1, <4>2
    <3>3. CASE i > m
      <4>1. at(i) = i
        BY <1>1, <1>2, <3>3
      <4>2. use'[i] = use[i]
        BY <1>5, <4>1
      <4> QED  BY <2>2, <4>2
    <3> QED  BY <1>1, <1>2, <3>1, <3>2, <3>3
  <2>3. ASSUME NEW h \in Key, NEW i \in 1 .. size, use'[i] = h
        PROVE  \E j \in 1 .. size : use[j] = h
    BY <1>5, <2>3
  <2>4. \A h \in Key : (entries[h] # Null) = (\E i \in 1 .. size : use'[i] = h)
    <3> TAKE h \in Key
    <3>1. (entries[h] # Null) = (\E i \in 1 .. size : use[i] = h)
      BY DEF CacheInv, CachedOnce
    <3> QED  BY <2>2, <2>3, <3>1
  <2>5. \A h \in Key : entries[h] # Null => entries[h] <= fetched /\ key[entries[h]] = h
    BY DEF CacheInv, CachedOnce
  <2> QED  BY <1>0, <2>1, <2>4, <2>5 DEF CachedOnce
<1> DEFINE L == Cached
<1>8. IsList(L, size, firstEntry, nextEntry, previousEntry) /\ L[m] = entries[k]
  BY <1>2 DEF CacheInv, Cached
<1>9. Cached' = [i \in 1 .. size |-> L[at(i)]]
  <2>1. Cached' = [i \in 1 .. size |-> entries[use'[i]]]
    BY <1>0 DEF Cached
  <2>2. \A i \in 1 .. size : entries[use'[i]] = L[at(i)]
    BY <1>5 DEF Cached
  <2> HIDE DEF at
  <2> QED  BY <2>1, <2>2
<1> HIDE DEF L
<1>10. IsList(Cached', size, entries[k], nextEntry', previousEntry')
  <2>1. CASE m = 1
    <3>1. firstEntry = entries[k]
      BY <1>1, <1>2, <1>8, <2>1 DEF IsList
    <3>2. UNCHANGED <<nextEntry, previousEntry>>
      BY <1>0, <3>1, Zenon DEF MoveToHead
    <3>3. \A i \in 1 .. size : at(i) = i
      BY <1>1, <2>1
    <3>4. Cached' = L
      <4>1. Cached' = [i \in 1 .. size |-> L[i]]
        BY <1>9, <3>3
      <4> QED  BY <1>8, <4>1 DEF IsList
    <3> QED  BY <1>8, <3>1, <3>2, <3>4
  <2>2. CASE m # 1
    <3>1. m \in 2 .. size /\ 1 \in 1 .. size
      BY <1>1, <1>2, <2>2
    <3>2. firstEntry # entries[k]
      <4>1. firstEntry = L[1]
        BY <1>1, <1>8, <3>1 DEF IsList
      <4>2. L[1] # L[m]
        BY <1>2, <1>8, <2>2, <3>1 DEF IsList
      <4> QED  BY <1>8, <4>1, <4>2
    <3> DEFINE nx == [nextEntry EXCEPT ![previousEntry[L[m]]] = nextEntry[L[m]]]
               pv == [previousEntry EXCEPT ![nextEntry[L[m]]] = previousEntry[L[m]]]
               W == Without(L, size, m)
    <3>3. AppendToHead(entries[k], firstEntry, nx, pv)
      BY <1>0, <1>8, <3>2 DEF MoveToHead
    <3>4. IsList(W, size - 1, firstEntry, nx, pv)
      BY <1>8, <3>1, UnlinkedIsList
    <3> HIDE DEF nx, pv
    <3>5. entries[k] \in Entry
      BY <1>1, <1>2, <1>8 DEF IsList
    <3>6. \A i \in 1 .. size - 1 : W[i] # entries[k]
      <4> TAKE i \in 1 .. size - 1
      <4>1. W[i] = L[IF i < m THEN i ELSE i + 1] /\ (IF i < m THEN i ELSE i + 1) \in 1 .. size
            /\ (IF i < m THEN i ELSE i + 1) # m
        BY <1>1, <1>2 DEF Without
      <4>2. \A j \in 1 .. size : L[j] = L[m] => j = m
        BY <1>2, <1>8 DEF IsList
      <4> HIDE DEF W
      <4> QED  BY <1>8, <4>1, <4>2
    <3> HIDE DEF W
    <3>7. IsList(InFront(entries[k], W, size - 1), (size - 1) + 1, entries[k],
                 nextEntry', previousEntry')
      BY <3>3, <3>4, <3>5, <3>6, AppendedIsList
    <3>8. (size - 1) + 1 = size
      BY <1>1
    <3>9. InFront(entries[k], W, size - 1) = Cached'
      <4>1. ASSUME NEW i \in 1 .. size
            PROVE  (IF i = 1 THEN entries[k] ELSE W[i - 1]) = L[at(i)]
        <5>1. CASE i = 1
          BY <1>8, <5>1
        <5>2. CASE i # 1
          <6>1. i - 1 \in 1 .. size - 1 /\ (i - 1 < m) = (i <= m) /\ (i - 1) + 1 = i
            BY <1>1, <1>2, <5>2
          <6>2. W[i - 1] = IF i - 1 < m THEN L[i - 1] ELSE L[(i - 1) + 1]
            BY <6>1 DEF W, Without
          <6> QED  BY <5>2, <6>1, <6>2
        <5> QED  BY <5>1, <5>2
      <4>2. InFront(entries[k], W, size - 1)
              = [i \in 1 .. size |-> IF i = 1 THEN entries[k] ELSE W[i - 1]]
        BY <3>8 DEF InFront
      <4> HIDE DEF at
      <4> QED  BY <1>9, <4>1, <4>2
    <3> QED  BY <3>7, <3>8, <3>9
  <2> QED  BY <2>1, <2>2
<1> QED  BY <1>0, <1>6, <1>7, <1>10 DEF CacheInv, IsList, Cached

(***************************************************************************)
(* Clean-ups.  Without its last n entries the cache is this:               *)
(***************************************************************************)
Dropped(n) == size - n + 1 .. size

Cut(n) ==
  [first |-> IF n = size THEN Null ELSE firstEntry,
   next |-> [e \in Entry |->
               IF \E i \in Dropped(n) : Cached[i] = e THEN Null
               ELSE IF n < size /\ e = Cached[size - n] THEN firstEntry ELSE nextEntry[e]],
   previous |-> [e \in Entry |->
                   IF \E i \in Dropped(n) : Cached[i] = e THEN Null
                   ELSE IF n < size /\ e = firstEntry THEN Cached[size - n] ELSE previousEntry[e]],
   size |-> size - n,
   entries |-> [k \in Key |-> IF \E i \in Dropped(n) : use[i] = k THEN Null ELSE entries[k]]]

LEMMA CutNothing ==
  ASSUME CacheInv
  PROVE  Cut(0) = [first |-> firstEntry, next |-> nextEntry, previous |-> previousEntry,
                   size |-> size, entries |-> entries]
<1>0. size \in Nat /\ entries = [k \in Key |-> entries[k]]
      /\ nextEntry = [e \in Entry |-> nextEntry[e]]
      /\ previousEntry = [e \in Entry |-> previousEntry[e]]
  BY DEF CacheInv, CacheTypeOK, IsList
<1>1. \A i \in Dropped(0) : FALSE
  BY <1>0 DEF Dropped
<1>2. (IF 0 = size THEN Null ELSE firstEntry) = firstEntry
  BY DEF CacheInv, IsList
<1>3. 0 < size => Cached[size - 0] = Cached[size] /\ nextEntry[Cached[size]] = firstEntry
                  /\ previousEntry[firstEntry] = Cached[size]
  <2> SUFFICES ASSUME 0 < size
               PROVE  /\ Cached[size - 0] = Cached[size] /\ nextEntry[Cached[size]] = firstEntry
                      /\ previousEntry[firstEntry] = Cached[size]
    OBVIOUS
  <2>1. 1 \in 1 .. size /\ size \in 1 .. size /\ size - 0 = size
    BY <1>0
  <2>2. IsList(Cached, size, firstEntry, nextEntry, previousEntry)
    BY DEF CacheInv
  <2> DEFINE L == Cached
  <2> HIDE DEF L
  <2>3. firstEntry = L[1] /\ nextEntry[L[size]] = L[1] /\ previousEntry[L[1]] = L[size]
    <3>1. IsList(L, size, firstEntry, nextEntry, previousEntry)
      BY <2>2 DEF L
    <3> QED  BY <2>1, <3>1 DEF IsList
  <2> QED  BY <2>1, <2>3 DEF L
<1>4. \A e \in Entry : (IF 0 < size /\ e = Cached[size - 0] THEN firstEntry ELSE nextEntry[e])
                         = nextEntry[e]
  BY <1>3
<1>5. \A e \in Entry : (IF 0 < size /\ e = firstEntry THEN Cached[size - 0] ELSE previousEntry[e])
                         = previousEntry[e]
  BY <1>3
<1>6. size - 0 = size
  BY <1>0
<1>7. Cut(0).next = nextEntry
  BY <1>0, <1>1, <1>4 DEF Cut
<1>8. Cut(0).previous = previousEntry
  BY <1>0, <1>1, <1>5 DEF Cut
<1>9. Cut(0).entries = entries
  BY <1>0, <1>1 DEF Cut
<1>10. Cut(0).first = firstEntry /\ Cut(0).size = size
  BY <1>2, <1>6 DEF Cut
<1>11. Cut(0) = [first |-> Cut(0).first, next |-> Cut(0).next, previous |-> Cut(0).previous,
                 size |-> Cut(0).size, entries |-> Cut(0).entries]
  BY DEF Cut
<1> QED  BY <1>7, <1>8, <1>9, <1>10, <1>11, Zenon

\* The last entry of what is left after n deletions is deleted next.
LEMMA CutOneMore ==
  ASSUME CacheInv, NEW n \in 0 .. size - 1
  PROVE  DeleteLast(Cut(n)) = Cut(n + 1)
<1> DEFINE c == Cut(n)
           L == Cached
           left == size - n
           last == c.previous[c.first]
           before == c.previous[last]
<1>0. size \in Nat /\ n \in Nat /\ left \in 1 .. size /\ 1 \in 1 .. size /\ Null \notin Entry
      /\ size = Len(use) /\ use \in Seq(Key) /\ n < size
  BY ReactCacheAssumption DEF CacheInv, CacheTypeOK, IsList
<1>1. /\ \A i \in 1 .. size : L[i] \in Entry
      /\ \A i \in 1 .. size, j \in 1 .. size : L[i] = L[j] => i = j
      /\ firstEntry = L[1]
      /\ \A i \in 1 .. size : /\ nextEntry[L[i]] = L[IF i = size THEN 1 ELSE i + 1]
                              /\ previousEntry[L[i]] = L[IF i = 1 THEN size ELSE i - 1]
  BY <1>0 DEF CacheInv, IsList
<1>2. \A i \in 1 .. size : use[i] \in Key /\ L[i] = entries[use[i]]
  BY <1>0, ElementOfSeq DEF Cached
<1>3. \A i \in 1 .. size : key[L[i]] = use[i]
  BY <1>0, <1>1, <1>2 DEF CacheInv, CachedOnce
<1> HIDE DEF L
<1>4. /\ c.first = L[1] /\ c.size = left
      /\ c.next = [e \in Entry |->
                     IF \E i \in Dropped(n) : L[i] = e THEN Null
                     ELSE IF e = L[left] THEN L[1] ELSE nextEntry[e]]
      /\ c.previous = [e \in Entry |->
                         IF \E i \in Dropped(n) : L[i] = e THEN Null
                         ELSE IF e = L[1] THEN L[left] ELSE previousEntry[e]]
      /\ c.entries = [k \in Key |-> IF \E i \in Dropped(n) : use[i] = k THEN Null ELSE entries[k]]
  BY <1>0, <1>1 DEF Cut, L
<1>5. /\ \A i \in 1 .. size : ~(i > left) => ~(\E j \in Dropped(n) : L[j] = L[i])
      /\ Dropped(n) \subseteq 1 .. size /\ Dropped(n + 1) = Dropped(n) \cup {left}
  <2>1. Dropped(n) \subseteq 1 .. size /\ Dropped(n + 1) = Dropped(n) \cup {left}
        /\ \A i \in 1 .. size : (i \in Dropped(n)) = (i > left)
    BY <1>0 DEF Dropped
  <2>2. ASSUME NEW i \in 1 .. size, ~(i > left)
        PROVE  ~(\E j \in Dropped(n) : L[j] = L[i])
    <3>1. \A j \in Dropped(n) : j \in 1 .. size /\ j # i
      BY <2>1, <2>2
    <3>2. \A j \in Dropped(n) : L[j] # L[i]
      BY <1>1, <3>1
    <3> QED  BY <3>2
  <2> QED  BY <2>1, <2>2
<1> HIDE DEF c
<1>6. ASSUME NEW i \in 1 .. left
      PROVE  c.previous[L[i]] = IF i = 1 THEN L[left] ELSE L[i - 1]
  <2>1. i \in 1 .. size /\ ~(i > left) /\ L[i] \in Entry
    BY <1>0, <1>1
  <2>2. c.previous[L[i]] = IF L[i] = L[1] THEN L[left] ELSE previousEntry[L[i]]
    <3>1. ~(\E j \in Dropped(n) : L[j] = L[i])
      BY <1>5, <2>1
    <3> QED  BY <1>4, <2>1, <3>1
  <2>3. (L[i] = L[1]) = (i = 1)
    BY <1>0, <1>1, <2>1
  <2> QED  BY <1>1, <2>1, <2>2, <2>3
<1>7. last = L[left] /\ before = IF left = 1 THEN L[1] ELSE L[left - 1]
  <2>1. 1 \in 1 .. left /\ left \in 1 .. left
    BY <1>0
  <2>2. last = L[left]
    BY <1>4, <1>6, <2>1
  <2> QED  BY <1>6, <2>1, <2>2
<1> DEFINE next == [c.next EXCEPT ![last] = Null]
           previous == [c.previous EXCEPT ![last] = Null]
           d == Cut(n + 1)
<1>8. /\ d.first = (IF left = 1 THEN Null ELSE L[1]) /\ d.size = left - 1
      /\ d.next = [e \in Entry |->
                     IF \E i \in Dropped(n + 1) : L[i] = e THEN Null
                     ELSE IF left # 1 /\ e = L[left - 1] THEN L[1] ELSE nextEntry[e]]
      /\ d.previous = [e \in Entry |->
                         IF \E i \in Dropped(n + 1) : L[i] = e THEN Null
                         ELSE IF left # 1 /\ e = L[1] THEN L[left - 1] ELSE previousEntry[e]]
      /\ d.entries = [k \in Key |->
                        IF \E i \in Dropped(n + 1) : use[i] = k THEN Null ELSE entries[k]]
  <2>1. (n + 1 = size) = (left = 1) /\ (n + 1 < size) = (left # 1) /\ size - (n + 1) = left - 1
    BY <1>0
  <2> HIDE DEF left
  <2>2. d = Cut(n + 1)
    OBVIOUS
  <2> QED  BY <2>1, <1>1 DEF Cut, L
<1> DEFINE nextLinked == IF last = c.first THEN next ELSE [next EXCEPT ![before] = c.first]
           previousLinked ==
             IF last = c.first THEN previous ELSE [previous EXCEPT ![c.first] = before]
           remaining == [c.entries EXCEPT ![key[last]] = Null]
<1> HIDE DEF d
<1>9. (last = c.first) = (left = 1) /\ key[last] = use[left]
  BY <1>0, <1>1, <1>3, <1>4, <1>7
<1> HIDE DEF last, before
<1> DEFINE gone(e) == \E i \in Dropped(n) : L[i] = e
<1>a. \A e : (\E i \in Dropped(n + 1) : L[i] = e) = (gone(e) \/ e = L[left])
  BY <1>5
<1>b. ~gone(L[1]) /\ (left # 1 => ~gone(L[left - 1]) /\ L[left - 1] # L[left] /\ L[1] # L[left])
      /\ L[1] \in Entry /\ L[left] \in Entry /\ (left # 1 => L[left - 1] \in Entry)
  <2>1. left # 1 => left - 1 \in 1 .. size /\ ~(left - 1 > left)
    BY <1>0
  <2>2. 1 \in 1 .. size /\ ~(1 > left) /\ left \in 1 .. size
    BY <1>0
  <2>3. \A i \in 1 .. size : ~(i > left) => ~gone(L[i])
    BY <1>5
  <2> HIDE DEF gone
  <2>4. ~gone(L[1]) /\ (left # 1 => ~gone(L[left - 1]))
    BY <2>1, <2>2, <2>3
  <2>5. left # 1 => L[left - 1] # L[left] /\ L[1] # L[left]
    BY <1>0, <1>1, <2>1, <2>2
  <2> QED  BY <1>1, <2>1, <2>2, <2>4, <2>5
<1> HIDE DEF gone
<1>c. c.next = [e \in Entry |-> IF gone(e) THEN Null
                                ELSE IF e = L[left] THEN L[1] ELSE nextEntry[e]]
      /\ c.previous = [e \in Entry |-> IF gone(e) THEN Null
                                       ELSE IF e = L[1] THEN L[left] ELSE previousEntry[e]]
  BY <1>4 DEF gone
<1>d. d.next = [e \in Entry |-> IF gone(e) \/ e = L[left] THEN Null
                                ELSE IF left # 1 /\ e = L[left - 1] THEN L[1] ELSE nextEntry[e]]
      /\ d.previous = [e \in Entry |->
                         IF gone(e) \/ e = L[left] THEN Null
                         ELSE IF left # 1 /\ e = L[1] THEN L[left - 1] ELSE previousEntry[e]]
  <2> DEFINE any(e) == \E i \in Dropped(n + 1) : L[i] = e
  <2>1. \A e : any(e) = (gone(e) \/ e = L[left])
    BY <1>a
  <2>2. d.next = [e \in Entry |-> IF any(e) THEN Null
                                  ELSE IF left # 1 /\ e = L[left - 1] THEN L[1] ELSE nextEntry[e]]
        /\ d.previous = [e \in Entry |->
                           IF any(e) THEN Null
                           ELSE IF left # 1 /\ e = L[1] THEN L[left - 1] ELSE previousEntry[e]]
    BY <1>8
  <2> HIDE DEF any
  <2> QED  BY <2>1, <2>2
<1> HIDE DEF left
<1>e. next = [e \in Entry |-> IF e = L[left] \/ gone(e) THEN Null ELSE nextEntry[e]]
      /\ previous = [e \in Entry |-> IF e = L[left] \/ gone(e) THEN Null
                                     ELSE IF e = L[1] THEN L[left] ELSE previousEntry[e]]
  BY <1>7, <1>b, <1>c
<1> HIDE DEF next, previous
<1>10. nextLinked = d.next
  <2>1. CASE left = 1
    <3>1. nextLinked = next
      BY <1>9, <2>1
    <3> QED  BY <1>d, <1>e, <2>1, <3>1
  <2>2. CASE left # 1
    <3>1. nextLinked = [next EXCEPT ![L[left - 1]] = L[1]]
      BY <1>4, <1>7, <1>9, <2>2
    <3> HIDE DEF nextLinked
    <3> QED  BY <1>b, <1>d, <1>e, <2>2, <3>1
  <2> QED  BY <2>1, <2>2
<1>11. previousLinked = d.previous
  <2>1. CASE left = 1
    <3>1. previousLinked = previous
      BY <1>9, <2>1
    <3> QED  BY <1>d, <1>e, <2>1, <3>1
  <2>2. CASE left # 1
    <3>1. previousLinked = [previous EXCEPT ![L[1]] = L[left - 1]]
      BY <1>4, <1>7, <1>9, <2>2
    <3> HIDE DEF previousLinked
    <3> QED  BY <1>b, <1>d, <1>e, <2>2, <3>1
  <2> QED  BY <2>1, <2>2
<1>12. remaining = d.entries
  <2> DEFINE any(k) == \E i \in Dropped(n + 1) : use[i] = k
             some(k) == \E i \in Dropped(n) : use[i] = k
  <2>1. \A k : any(k) = (some(k) \/ k = use[left])
    BY <1>5
  <2>2. c.entries = [k \in Key |-> IF some(k) THEN Null ELSE entries[k]]
        /\ d.entries = [k \in Key |-> IF any(k) THEN Null ELSE entries[k]]
    BY <1>4, <1>8
  <2>3. remaining = [c.entries EXCEPT ![use[left]] = Null]
    BY <1>9
  <2> HIDE DEF any, some, remaining
  <2> QED  BY <2>1, <2>2, <2>3
<1>13. DeleteLast(c) = [first |-> IF last = c.first THEN Null ELSE c.first,
                        next |-> nextLinked, previous |-> previousLinked,
                        size |-> c.size - 1, entries |-> remaining]
  BY Zenon DEF DeleteLast, last, before, next, previous
<1>14. d = [first |-> d.first, next |-> d.next, previous |-> d.previous, size |-> d.size,
            entries |-> d.entries]
  BY DEF Cut, d
<1> HIDE DEF nextLinked, previousLinked, remaining
<1>15. (IF last = c.first THEN Null ELSE c.first) = d.first /\ c.size - 1 = d.size
  BY <1>4, <1>8, <1>9
<1>16. DeleteLast(c) = d
  BY <1>10, <1>11, <1>12, <1>13, <1>14, <1>15, Zenon
<1> QED  BY <1>16 DEF c, d

\* One by one, the deletions of a clean-up come to that.
LEMMA DeletionsCut ==
  ASSUME CacheInv, NEW left, NEW d \in 0 .. size,
         left = [n \in 0 .. size |->
                   IF n = 0 THEN [first |-> firstEntry, next |-> nextEntry,
                                  previous |-> previousEntry, size |-> size, entries |-> entries]
                   ELSE DeleteLast(left[n - 1])]
  PROVE  left[d] = Cut(d)
<1> DEFINE wrong == {n \in 0 .. size : left[n] # Cut(n)}
<1> SUFFICES ASSUME wrong # {} PROVE FALSE
  OBVIOUS
<1>0. size \in Nat
  BY DEF CacheInv, IsList
<1>1. wrong \subseteq Nat
  BY <1>0
<1>2. PICK n \in wrong : \A y \in wrong : n <= y
  BY <1>1, MinOfPositions
<1>3. n # 0
  BY CutNothing
<1>4. n - 1 \in 0 .. size - 1 /\ n - 1 \in 0 .. size /\ n - 1 \notin wrong /\ (n - 1) + 1 = n
  BY <1>0, <1>2, <1>3
<1>5. left[n] = DeleteLast(Cut(n - 1))
  BY <1>3, <1>4
<1>6. DeleteLast(Cut(n - 1)) = Cut((n - 1) + 1)
  BY <1>4, CutOneMore
<1> QED  BY <1>4, <1>5, <1>6

\* The recursion of a clean-up has a solution, which is what it stands for.
LEMMA CleanedIsCut ==
  ASSUME CacheInv, cleanUp
  PROVE  \E d \in 0 .. size :
           /\ firstEntry' = Cut(d).first /\ nextEntry' = Cut(d).next
           /\ previousEntry' = Cut(d).previous /\ size' = Cut(d).size
           /\ entries' = Cut(d).entries /\ use' = SubSeq(use, 1, size - d)
<1> DEFINE cache == [first |-> firstEntry, next |-> nextEntry, previous |-> previousEntry,
                     size |-> size, entries |-> entries]
           f == [n \in 0 .. size |-> Cut(n)]
           left == CHOOSE h : h = [n \in 0 .. size |-> IF n = 0 THEN cache ELSE DeleteLast(h[n - 1])]
           d == IF size > LIMIT THEN size - LIMIT ELSE 0
<1>0. size \in Nat /\ LIMIT \in Nat
  BY ReactCacheAssumption DEF CacheInv, CacheTypeOK, IsList
<1>1. d \in 0 .. size /\ (IF size > LIMIT THEN LIMIT ELSE size) = size - d
  BY <1>0
<1>2. /\ firstEntry' = left[d].first /\ nextEntry' = left[d].next
      /\ previousEntry' = left[d].previous /\ size' = left[d].size
      /\ entries' = left[d].entries
      /\ use' = SubSeq(use, 1, IF size > LIMIT THEN LIMIT ELSE size)
  BY Zenon DEF cleanUp
<1>3. ASSUME NEW n \in 0 .. size
      PROVE  f[n] = IF n = 0 THEN cache ELSE DeleteLast(f[n - 1])
  <2>1. CASE n = 0
    BY <2>1, CutNothing
  <2>2. CASE n # 0
    <3>1. n - 1 \in 0 .. size - 1 /\ n - 1 \in 0 .. size /\ (n - 1) + 1 = n
      BY <1>0, <2>2
    <3>2. DeleteLast(Cut(n - 1)) = Cut((n - 1) + 1)
      BY <3>1, CutOneMore
    <3> QED  BY <2>2, <3>1, <3>2
  <2> QED  BY <2>1, <2>2
<1>4. f = [n \in 0 .. size |-> IF n = 0 THEN cache ELSE DeleteLast(f[n - 1])]
  <2> HIDE DEF cache
  <2> QED  BY <1>3
<1> HIDE DEF f
<1>5. left = [n \in 0 .. size |-> IF n = 0 THEN cache ELSE DeleteLast(left[n - 1])]
  <2>1. \E h : h = [n \in 0 .. size |-> IF n = 0 THEN cache ELSE DeleteLast(h[n - 1])]
    BY <1>4
  <2> QED  BY <2>1, Zenon
<1> HIDE DEF left, d
<1>6. left[d] = Cut(d)
  BY <1>1, <1>5, DeletionsCut
<1> QED  BY <1>1, <1>2, <1>6

LEMMA CleanUpKeeps ==
  ASSUME CacheInv, cleanUp
  PROVE  CacheInv'
<1>1. PICK d \in 0 .. size :
        /\ firstEntry' = Cut(d).first /\ nextEntry' = Cut(d).next
        /\ previousEntry' = Cut(d).previous /\ size' = Cut(d).size
        /\ entries' = Cut(d).entries /\ use' = SubSeq(use, 1, size - d)
  BY CleanedIsCut
<1> DEFINE L == Cached
           n == size - d
<1>2. /\ size \in Nat /\ size = Len(use) /\ use \in Seq(Key) /\ n \in 0 .. size
      /\ \A i \in 1 .. size : use[i] \in Key
      /\ Null \notin Entry
  BY LenProperties, ElementOfSeq, ReactCacheAssumption DEF CacheInv, CacheTypeOK
<1>3. /\ L \in [1 .. size -> Entry] /\ \A i \in 1 .. size : L[i] = entries[use[i]]
      /\ \A i \in 1 .. size, j \in 1 .. size : L[i] = L[j] => i = j
      /\ firstEntry = IF size = 0 THEN Null ELSE L[1]
      /\ \A i \in 1 .. size : /\ nextEntry[L[i]] = L[IF i = size THEN 1 ELSE i + 1]
                              /\ previousEntry[L[i]] = L[IF i = 1 THEN size ELSE i - 1]
      /\ nextEntry \in [Entry -> Entry \cup {Null}]
      /\ previousEntry \in [Entry -> Entry \cup {Null}]
  BY DEF CacheInv, IsList, Cached
<1> DEFINE gone(e) == \E i \in Dropped(d) : L[i] = e
           goneKey(k) == \E i \in Dropped(d) : use[i] = k
<1> HIDE DEF L
<1>4. /\ firstEntry' = IF n = 0 THEN Null ELSE firstEntry
      /\ nextEntry' = [e \in Entry |-> IF gone(e) THEN Null
                         ELSE IF n # 0 /\ e = L[n] THEN firstEntry ELSE nextEntry[e]]
      /\ previousEntry' = [e \in Entry |-> IF gone(e) THEN Null
                             ELSE IF n # 0 /\ e = firstEntry THEN L[n] ELSE previousEntry[e]]
      /\ size' = n /\ entries' = [k \in Key |-> IF goneKey(k) THEN Null ELSE entries[k]]
  <2>1. (d = size) = (n = 0) /\ (d < size) = (n # 0)
    BY <1>2
  <2> HIDE DEF n
  <2>2. n = size - d
    BY DEF n
  <2> QED  BY <1>1, <2>1, <2>2 DEF Cut, L
<1>5. /\ \A i \in 1 .. n : i \in 1 .. size /\ ~gone(L[i]) /\ ~goneKey(use[i])
      /\ \A i \in 1 .. size : i \notin 1 .. n => goneKey(use[i])
      /\ Dropped(d) \subseteq 1 .. size
  <2>1. \A i \in 1 .. size : (i \in Dropped(d)) = (i > n)
    BY <1>2 DEF Dropped
  <2>2. Dropped(d) \subseteq 1 .. size
    BY <1>2 DEF Dropped
  <2>3. \A i \in 1 .. size, j \in 1 .. size : use[i] = use[j] => i = j
    BY DEF CacheInv, CachedOnce
  <2>4. ASSUME NEW i \in 1 .. n
        PROVE  i \in 1 .. size /\ ~gone(L[i]) /\ ~goneKey(use[i])
    <3>1. i \in 1 .. size /\ \A j \in Dropped(d) : j \in 1 .. size /\ j # i
      BY <1>2, <2>1, <2>2
    <3> QED  BY <1>3, <2>3, <3>1
  <2>5. ASSUME NEW i \in 1 .. size, i \notin 1 .. n
        PROVE  goneKey(use[i])
    <3>1. i \in Dropped(d)
      BY <1>2, <2>1, <2>5
    <3> QED  BY <3>1
  <2> QED  BY <2>2, <2>4, <2>5
<1> HIDE DEF gone
<1>6. use' \in Seq(Key) /\ Len(use') = n /\ \A i \in 1 .. n : use'[i] = use[i]
  <2>1. \A i \in 1 .. n : use[i] \in Key
    BY <1>2, <1>5
  <2>2. n \in Int /\ use' = SubSeq(use, 1, n)
    BY <1>1, <1>2
  <2> HIDE DEF n
  <2>3. /\ SubSeq(use, 1, n) \in Seq(Key) /\ Len(SubSeq(use, 1, n)) = IF 1 <= n THEN n - 1 + 1 ELSE 0
        /\ \A i \in 1 .. n - 1 + 1 : SubSeq(use, 1, n)[i] = use[1 + i - 1]
    BY <2>1, <2>2, SubSeqProperties
  <2>4. n \in Nat
    BY <1>2 DEF n
  <2> QED  BY <2>2, <2>3, <2>4
<1>7. CacheTypeOK'
  <2>1. entries' \in [Key -> Entry \cup {Null}]
    <3> HIDE DEF goneKey
    <3> QED  BY <1>4 DEF CacheInv, CacheTypeOK
  <2>2. UNCHANGED <<fetched, key, LIMIT>> /\ cleanUpIsScheduled' = FALSE
    BY DEF cleanUp
  <2> QED  BY <1>4, <1>6, <2>1, <2>2 DEF CacheInv, CacheTypeOK
<1>8. CachedOnce'
  <2>1. \A i \in 1 .. n, j \in 1 .. n : use'[i] = use'[j] => i = j
    BY <1>5, <1>6 DEF CacheInv, CachedOnce
  <2>2. ASSUME NEW k \in Key
        PROVE  (entries'[k] # Null) = (\E i \in 1 .. n : use'[i] = k)
    <3>1. (entries[k] # Null) = (\E i \in 1 .. size : use[i] = k)
      BY DEF CacheInv, CachedOnce
    <3>2. entries'[k] = IF goneKey(k) THEN Null ELSE entries[k]
      BY <1>4
    <3>3. ASSUME entries'[k] # Null
          PROVE  \E i \in 1 .. n : use'[i] = k
      <4>1. PICK i \in 1 .. size : use[i] = k /\ ~goneKey(use[i])
        BY <3>1, <3>2, <3>3
      <4>2. i \in 1 .. n
        BY <1>5, <4>1
      <4> QED  BY <1>6, <4>1, <4>2
    <3>4. ASSUME NEW i \in 1 .. n, use'[i] = k
          PROVE  entries'[k] # Null
      <4>1. i \in 1 .. size /\ use[i] = k /\ ~goneKey(k)
        BY <1>5, <1>6, <3>4
      <4> QED  BY <3>1, <3>2, <4>1
    <3> QED  BY <3>3, <3>4
  <2>3. \A k \in Key : entries'[k] # Null => entries'[k] = entries[k]
    BY <1>4
  <2>4. UNCHANGED <<fetched, key>>
    BY DEF cleanUp
  <2>5. \A k \in Key : entries'[k] # Null => entries'[k] <= fetched' /\ key'[entries'[k]] = k
    BY <2>3, <2>4 DEF CacheInv, CachedOnce
  <2> QED  BY <1>4, <2>1, <2>2, <2>5 DEF CachedOnce
<1> HIDE DEF goneKey
<1>9. Cached' = [i \in 1 .. n |-> L[i]]
  <2>1. Cached' = [i \in 1 .. n |-> entries'[use'[i]]]
    BY <1>4 DEF Cached
  <2>2. \A i \in 1 .. n : entries'[use'[i]] = L[i]
    <3> TAKE i \in 1 .. n
    <3>1. i \in 1 .. size /\ use'[i] = use[i] /\ ~goneKey(use[i]) /\ use[i] \in Key
      BY <1>2, <1>5, <1>6
    <3> QED  BY <1>3, <1>4, <3>1
  <2> QED  BY <2>1, <2>2
<1> DEFINE M == [i \in 1 .. n |-> L[i]]
<1>10. IsList(M, n, firstEntry', nextEntry', previousEntry')
  <2>1. n \in Nat /\ M \in [1 .. n -> Entry]
        /\ \A i \in 1 .. n, j \in 1 .. n : M[i] = M[j] => i = j
    BY <1>2, <1>3
  <2>2. nextEntry' \in [Entry -> Entry \cup {Null}] /\ previousEntry' \in [Entry -> Entry \cup {Null}]
    <3>1. n # 0 => L[n] \in Entry /\ firstEntry \in Entry
      <4> SUFFICES ASSUME n # 0 PROVE L[n] \in Entry /\ firstEntry \in Entry
        OBVIOUS
      <4>1. n \in 1 .. size /\ 1 \in 1 .. size /\ size # 0
        BY <1>2
      <4> HIDE DEF n
      <4> QED  BY <1>3, <4>1
    <3> HIDE DEF n
    <3> QED  BY <1>3, <1>4, <3>1
  <2>3. firstEntry' = IF n = 0 THEN Null ELSE M[1]
    BY <1>2, <1>3, <1>4
  <2>4. ASSUME NEW i \in 1 .. n
        PROVE  /\ nextEntry'[M[i]] = M[IF i = n THEN 1 ELSE i + 1]
               /\ previousEntry'[M[i]] = M[IF i = 1 THEN n ELSE i - 1]
    <3>1. i \in 1 .. size /\ ~gone(L[i]) /\ n # 0 /\ L[i] \in Entry /\ n \in 1 .. size
          /\ 1 \in 1 .. size /\ size # 0 /\ 1 \in 1 .. n /\ n \in 1 .. n
      <4>1. i \in 1 .. size /\ n # 0 /\ n \in 1 .. size /\ 1 \in 1 .. size /\ size # 0
            /\ 1 \in 1 .. n /\ n \in 1 .. n
        BY <1>2
      <4> HIDE DEF n
      <4> QED  BY <1>3, <1>5, <4>1
    <3>2. nextEntry'[L[i]] = IF L[i] = L[n] THEN L[1] ELSE nextEntry[L[i]]
      BY <1>3, <1>4, <3>1
    <3>3. previousEntry'[L[i]] = IF L[i] = L[1] THEN L[n] ELSE previousEntry[L[i]]
      BY <1>3, <1>4, <3>1
    <3>4. (L[i] = L[n]) = (i = n) /\ (L[i] = L[1]) = (i = 1)
      BY <1>3, <3>1
    <3>5. i # n => nextEntry[L[i]] = L[i + 1] /\ i + 1 \in 1 .. n
      BY <1>2, <1>3, <3>1
    <3>6. i # 1 => previousEntry[L[i]] = L[i - 1] /\ i - 1 \in 1 .. n
      BY <1>2, <1>3, <3>1
    <3> HIDE DEF n
    <3> QED  BY <3>1, <3>2, <3>3, <3>4, <3>5, <3>6
  <2> HIDE DEF M, n
  <2> QED  BY <2>1, <2>2, <2>3, <2>4 DEF IsList
<1>11. IsList(Cached', size', firstEntry', nextEntry', previousEntry')
  BY <1>4, <1>9, <1>10, Zenon
<1> QED  BY <1>7, <1>8, <1>11, Zenon DEF CacheInv, IsList, Cached

LEMMA SetLimitKeeps ==
  ASSUME CacheInv, NEW limit \in Limits, setLimit(limit)
  PROVE  CacheInv'
<1>1. /\ LIMIT' = limit /\ cleanUpIsScheduled' = Scheduled(limit)
      /\ UNCHANGED <<fetched, key, nextEntry, previousEntry, firstEntry, size, entries, use>>
  BY DEF setLimit, listVars
<1>2. Scheduled(limit) \in BOOLEAN
  BY DEF Scheduled, CacheInv, CacheTypeOK
<1>3. CacheTypeOK'
  BY <1>1, <1>2 DEF CacheInv, CacheTypeOK
<1>4. CachedOnce'
  BY <1>1 DEF CacheInv, CachedOnce
<1>5. IsList(Cached, size, firstEntry, nextEntry, previousEntry)'
  BY <1>1 DEF CacheInv, IsList, Cached
<1> QED  BY <1>3, <1>4, <1>5 DEF CacheInv

LEMMA CacheStep ==
  ASSUME CacheInv, [CacheNext]_cacheVars
  PROVE  CacheInv'
<1>1. CASE UNCHANGED cacheVars
  <2>1. CacheTypeOK'
    BY <1>1 DEF CacheInv, CacheTypeOK, cacheVars, listVars
  <2>2. CachedOnce'
    BY <1>1 DEF CacheInv, CachedOnce, cacheVars, listVars
  <2>3. IsList(Cached, size, firstEntry, nextEntry, previousEntry)'
    BY <1>1 DEF CacheInv, IsList, Cached, cacheVars, listVars
  <2> QED  BY <2>1, <2>2, <2>3 DEF CacheInv
<1> QED  BY <1>1, AddKeeps, AccessKeeps, SetLimitKeeps, CleanUpKeeps DEF CacheNext

(***************************************************************************)
(* The pointers, the map and the history name the same entries in the same *)
(* order in every state, whatever is read, limited and cleaned up.         *)
(***************************************************************************)
THEOREM CacheInvariant == CacheSpec => []CacheInv
<1>1. CacheInit => CacheInv
  BY InitCache
<1>2. CacheInv /\ [CacheNext]_cacheVars => CacheInv'
  BY CacheStep
<1> QED  BY <1>1, <1>2, PTL DEF CacheSpec

\* Who follows the pointers from the first entry on meets the cached ones.
LEMMA FollowingIsCached ==
  ASSUME CacheInv
  PROVE  Following(nextEntry) = Cached
<1> DEFINE nth == CHOOSE h :
                    h = [n \in 1 .. size |-> IF n = 1 THEN firstEntry ELSE nextEntry[h[n - 1]]]
           wrong == {n \in 1 .. size : nth[n] # Cached[n]}
<1>0. /\ size \in Nat /\ Cached = [n \in 1 .. size |-> Cached[n]]
      /\ size # 0 => firstEntry = Cached[1]
      /\ \A n \in 1 .. size : nextEntry[Cached[n]] = Cached[IF n = size THEN 1 ELSE n + 1]
  BY DEF CacheInv, IsList
<1>1. ASSUME NEW n \in 1 .. size
      PROVE  Cached[n] = IF n = 1 THEN firstEntry ELSE nextEntry[Cached[n - 1]]
  <2>1. CASE n = 1
    BY <1>0, <2>1
  <2>2. CASE n # 1
    <3>1. n - 1 \in 1 .. size /\ n - 1 # size /\ (n - 1) + 1 = n
      BY <1>0, <2>2
    <3> QED  BY <1>0, <2>2, <3>1
  <2> QED  BY <2>1, <2>2
<1> DEFINE L == Cached
<1>2. L = [n \in 1 .. size |-> IF n = 1 THEN firstEntry ELSE nextEntry[L[n - 1]]]
  BY <1>0, <1>1
<1>3. nth = [n \in 1 .. size |-> IF n = 1 THEN firstEntry ELSE nextEntry[nth[n - 1]]]
  <2> HIDE DEF L
  <2>1. \E h : h = [n \in 1 .. size |-> IF n = 1 THEN firstEntry ELSE nextEntry[h[n - 1]]]
    BY <1>2
  <2> QED  BY <2>1, Zenon
<1>4. Following(nextEntry) = [n \in 1 .. size |-> nth[n]]
  BY Zenon DEF Following
<1> HIDE DEF nth, L
<1>5. wrong = {}
  <2> SUFFICES ASSUME wrong # {} PROVE FALSE
    OBVIOUS
  <2>1. wrong \subseteq Nat
    BY <1>0
  <2>2. PICK n \in wrong : \A y \in wrong : n <= y
    BY <2>1, MinOfPositions
  <2>3. n # 1
    BY <1>1, <1>3
  <2>4. n - 1 \in 1 .. size /\ n - 1 \notin wrong
    BY <1>0, <2>2, <2>3
  <2>5. nth[n] = nextEntry[nth[n - 1]]
    BY <1>3, <2>3
  <2> QED  BY <1>1, <2>3, <2>4, <2>5
<1> QED  BY <1>0, <1>4, <1>5

(***************************************************************************)
(* However reads, limits and clean-ups follow each other, the cache holds  *)
(* the entries used last, in the order of their use (LRU.js).              *)
(***************************************************************************)
THEOREM CacheKeepsLastUsed == CacheSpec => []KeepsLastUsed
<1>1. ASSUME CacheInv
      PROVE  KeepsLastUsed
  <2> DEFINE F == Following(nextEntry)
             L == Cached
             keys == {k \in Key : entries[k] # Null}
  <2>0. F = L
    BY <1>1, FollowingIsCached
  <2>1. /\ size \in Nat /\ size = Len(use) /\ use \in Seq(Key) /\ use \in [1 .. size -> Key]
        /\ \A n \in 1 .. size : use[n] \in Key /\ L[n] = entries[use[n]]
        /\ Null \notin Entry
    BY <1>1, LenProperties, ElementOfSeq, ReactCacheAssumption DEF CacheInv, CacheTypeOK, Cached
  <2>2. IsList(L, size, firstEntry, nextEntry, previousEntry)
    BY <1>1 DEF CacheInv
  <2>3. ASSUME NEW n \in 1 .. size
        PROVE  L[n] # Null /\ key[L[n]] = use[n] /\ entries[key[L[n]]] = L[n]
    <3>1. use[n] \in Key /\ L[n] = entries[use[n]]
      BY <2>1
    <3> HIDE DEF L
    <3>2. entries[use[n]] # Null
      BY <1>1, <3>1 DEF CacheInv, CachedOnce
    <3>3. key[entries[use[n]]] = use[n]
      BY <1>1, <3>1, <3>2 DEF CacheInv, CachedOnce
    <3> QED  BY <3>1, <3>2, <3>3
  <2> HIDE DEF F, L
  <2>4. (firstEntry = Null) = (size = 0)
    <3>1. size # 0 => 1 \in 1 .. size
      BY <2>1
    <3> QED  BY <2>2, <2>3, <3>1 DEF IsList
  <2>5. [n \in 1 .. size |-> key[F[n]]] = use
    BY <2>0, <2>1, <2>3
  <2>6. ASSUME NEW n \in 1 .. size
        PROVE  /\ entries[key[F[n]]] = F[n]
               /\ nextEntry[F[n]] = F[IF n = size THEN 1 ELSE n + 1]
               /\ previousEntry[nextEntry[F[n]]] = F[n]
    <3>1. entries[key[L[n]]] = L[n] /\ nextEntry[L[n]] = L[IF n = size THEN 1 ELSE n + 1]
      BY <2>2, <2>3 DEF IsList
    <3>2. previousEntry[L[IF n = size THEN 1 ELSE n + 1]] = L[n]
      <4> DEFINE m == IF n = size THEN 1 ELSE n + 1
      <4>1. m \in 1 .. size /\ (IF m = 1 THEN size ELSE m - 1) = n
        <5>0. size \in Nat
          BY <2>1
        <5>1. CASE n = size
          BY <5>0, <5>1
        <5>2. CASE n # size
          <6>1. m = n + 1 /\ n + 1 \in 1 .. size /\ n + 1 # 1 /\ (n + 1) - 1 = n
            BY <5>0, <5>2
          <6> HIDE DEF m
          <6> QED  BY <6>1
        <5> QED  BY <5>1, <5>2
      <4> HIDE DEF m
      <4>2. previousEntry[L[m]] = L[n]
        BY <2>2, <4>1 DEF IsList
      <4> QED  BY <4>2 DEF m
    <3> QED  BY <2>0, <3>1, <3>2
  <2>7. Cardinality(keys) = size
    <3>1. use \in Injection(1 .. size, keys) /\ use \in Surjection(1 .. size, keys)
      <4>1. \A n \in 1 .. size : use[n] \in keys
        BY <2>1, <2>3
      <4>2. \A k \in keys : \E n \in 1 .. size : use[n] = k
        BY <1>1 DEF CacheInv, CachedOnce
      <4>3. \A i \in 1 .. size, j \in 1 .. size : use[i] = use[j] => i = j
        BY <1>1 DEF CacheInv, CachedOnce
      <4>4. use \in [1 .. size -> keys]
        BY <2>1, <4>1
      <4> HIDE DEF keys
      <4> QED  BY <4>2, <4>3, <4>4 DEF Injection, Surjection, IsInjective
    <3>2. IsFiniteSet(1 .. size) /\ Cardinality(1 .. size) = size
      <4>1. 1 \in Int /\ size \in Int /\ (IF 1 > size THEN 0 ELSE size - 1 + 1) = size
        BY <2>1
      <4>2. IsFiniteSet(1 .. size)
            /\ Cardinality(1 .. size) = IF 1 > size THEN 0 ELSE size - 1 + 1
        BY <4>1, FS_Interval, Zenon
      <4> QED  BY <4>1, <4>2
    <3> HIDE DEF keys
    <3> QED  BY <3>1, <3>2, FS_Surjection
  <2> QED  BY <2>1, <2>4, <2>5, <2>6, <2>7 DEF KeepsLastUsed, F
<1> QED  BY <1>1, CacheInvariant, PTL

-----------------------------------------------------------------------------
(***************************************************************************)
(* Subscriptions: updates, and the state after a queue of them.            *)
(***************************************************************************)
Values == {Undefined} \cup (Source \X Nat)
SubscriptionState == [source : Source \cup {NoSource}, value : Values]
SubscriptionUpdate ==
  [time : 1 .. MaxUpdateTime, source : Source \cup {AnySource}, value : Values]

\* What a source that had emitted so many values could be read to have.
CurrentOf(counts, s) == IF s \in Readable THEN <<s, counts[s]>> ELSE Undefined

\* Of the updates whose priority suffices, those that change a state with this source.
Counted(queue, s, time) ==
  {i \in 1 .. Len(queue) : queue[i].time >= time /\ queue[i].source \in {AnySource, s}}
IsAfter(state, queue, time, v) ==
  \/ Counted(queue, state.source, time) = {} /\ v = state.value
  \/ \E i \in Counted(queue, state.source, time) :
       v = queue[i].value /\ \A j \in Counted(queue, state.source, time) : j <= i

\* A value that a source has emitted by now, and one no later than another.
Past(counts, v) == v[1] \in Source => v[2] <= counts[v[1]]
NotAfter(v, u) == v[1] = u[1] => v[2] <= u[2]

\* A queue of updates with the state they go over: their values are in the order in
\* which the sources emitted them.
UpdateOK(u) ==
  /\ u.source \in Source => u.value \in {u.source} \X Nat
  /\ u.source = AnySource => u.time = MaxUpdateTime
QueueFits(counts, over, state, queue) ==
  /\ state \in SubscriptionState /\ queue \in Seq(SubscriptionUpdate)
  /\ \A i \in 1 .. Len(queue) :
       /\ UpdateOK(queue[i]) /\ Past(counts, queue[i].value)
       /\ NotAfter(state.value, queue[i].value)
  /\ Past(counts, state.value)
  /\ \A i, j \in 1 .. Len(queue) : i < j => NotAfter(queue[i].value, queue[j].value)
  /\ ~over /\ state.source = NoSource =>
       state.value = Undefined /\ \A i \in 1 .. Len(queue) : queue[i].source # AnySource

\* The value that a component may show for a source.
RightFor(counts, over, s, v) ==
  IF s \in Source \ Readable THEN v[1] \in {s, NoSource}
  ELSE v = CurrentOf(counts, s) \/ (s = NoSource /\ over)

\* The queue leads to a value that is right, unless the state is of another source: then
\* it is derived anew from the props.
OnTrack(counts, over, state, queue, s) ==
  state.source = s => \A v \in Values : IsAfter(state, queue, 0, v) => RightFor(counts, over, s, v)

LEMMA ApplyIs ==
  ASSUME NEW state \in SubscriptionState, NEW u \in SubscriptionUpdate
  PROVE  apply(state, u) = [source |-> state.source,
                            value |-> IF u.source \in {AnySource, state.source} THEN u.value
                                      ELSE state.value]
<1>1. CASE u.source = AnySource
  BY <1>1 DEF apply, SubscriptionState
<1>2. CASE u.source # AnySource
  BY <1>2 DEF apply, SubscriptionState
<1> QED  BY <1>1, <1>2

\* The recursion over the queue in a closed form: the value is that of the last update
\* that counts.
Largest(S) == CHOOSE i \in S : \A j \in S : j <= i
CountedTo(queue, s, time, n) == {i \in Counted(queue, s, time) : i <= n}
After(state, queue, time, n) ==
  [source |-> state.source,
   value |-> IF CountedTo(queue, state.source, time, n) = {} THEN state.value
             ELSE queue[Largest(CountedTo(queue, state.source, time, n))].value]

LEMMA LargestIs ==
  ASSUME NEW S \in SUBSET Nat, NEW n \in S, \A j \in S : j <= n
  PROVE  Largest(S) = n
<1>1. Largest(S) \in S /\ \A j \in S : j <= Largest(S)
  BY Zenon DEF Largest
<1>2. Largest(S) \in Nat /\ n \in Nat /\ Largest(S) <= n /\ n <= Largest(S)
  BY <1>1
<1> QED  BY <1>2

LEMMA AfterOneMore ==
  ASSUME NEW state \in SubscriptionState, NEW queue \in Seq(SubscriptionUpdate),
         NEW time \in Nat, NEW n \in 1 .. Len(queue)
  PROVE  After(state, queue, time, n) =
           IF queue[n].time < time THEN After(state, queue, time, n - 1)
           ELSE apply(After(state, queue, time, n - 1), queue[n])
<1> DEFINE before == CountedTo(queue, state.source, time, n - 1)
           now == CountedTo(queue, state.source, time, n)
           counts == n \in Counted(queue, state.source, time)
<1>1. Len(queue) \in Nat /\ queue[n] \in SubscriptionUpdate /\ queue[n].time \in Nat
  <2>1. Len(queue) \in Nat /\ queue[n] \in SubscriptionUpdate
    BY LenProperties, ElementOfSeq
  <2> QED  BY <2>1, SubscriptionAssumption DEF SubscriptionUpdate
<1>2. \A i \in 1 .. Len(queue) : queue[i] \in SubscriptionUpdate
  BY ElementOfSeq
<1>3. before \subseteq 1 .. n - 1 /\ now \subseteq 1 .. n
  BY <1>1 DEF CountedTo, Counted
<1>4. now = IF counts THEN before \cup {n} ELSE before
  BY <1>1 DEF CountedTo, Counted
<1>5. counts <=> ~(queue[n].time < time) /\ queue[n].source \in {AnySource, state.source}
  BY <1>1 DEF Counted
<1>6. CASE counts
  <2>1. Largest(now) = n /\ now # {}
    BY <1>1, <1>3, <1>4, <1>6, LargestIs
  <2>2. After(state, queue, time, n) = [source |-> state.source, value |-> queue[n].value]
    BY <2>1 DEF After
  <2>3. After(state, queue, time, n - 1).source = state.source
    BY DEF After
  <2>4. apply(After(state, queue, time, n - 1), queue[n])
          = [source |-> state.source, value |-> queue[n].value]
    <3> DEFINE was == After(state, queue, time, n - 1)
    <3>1. was = [source |-> state.source, value |-> was.value]
      BY DEF After
    <3> HIDE DEF was
    <3>2. queue[n].source \in {AnySource, state.source}
      BY <1>5, <1>6
    <3>3. apply(was, queue[n]) = [source |-> state.source, value |-> queue[n].value]
      BY <3>1, <3>2 DEF apply
    <3> QED  BY <3>3 DEF was
  <2> QED  BY <1>5, <1>6, <2>2, <2>4
<1>7. CASE ~counts
  <2>1. After(state, queue, time, n) = After(state, queue, time, n - 1)
    BY <1>4, <1>7 DEF After
  <2>2. ASSUME ~(queue[n].time < time)
        PROVE  apply(After(state, queue, time, n - 1), queue[n]) = After(state, queue, time, n - 1)
    <3>1. queue[n].source # AnySource /\ queue[n].source # state.source
      BY <1>5, <1>7, <2>2
    <3>2. After(state, queue, time, n - 1).source = state.source
      BY DEF After
    <3> QED  BY <3>1, <3>2 DEF apply
  <2> QED  BY <2>1, <2>2
<1> QED  BY <1>6, <1>7

LEMMA AfterNothing ==
  ASSUME NEW state \in SubscriptionState, NEW queue \in Seq(SubscriptionUpdate), NEW time
  PROVE  After(state, queue, time, 0) = state
<1>1. CountedTo(queue, state.source, time, 0) = {}
  BY LenProperties DEF CountedTo, Counted
<1>2. state = [source |-> state.source, value |-> state.value]
  BY DEF SubscriptionState
<1> QED  BY <1>1, <1>2 DEF After

LEMMA AppliedIsAfter ==
  ASSUME NEW state \in SubscriptionState, NEW queue \in Seq(SubscriptionUpdate), NEW time \in Nat
  PROVE  Applied(state, queue, time) = After(state, queue, time, Len(queue))
<1> DEFINE f == [n \in 0 .. Len(queue) |-> After(state, queue, time, n)]
           after == CHOOSE h : h = [n \in 0 .. Len(queue) |->
                      IF n = 0 THEN state
                      ELSE IF queue[n].time < time THEN h[n - 1] ELSE apply(h[n - 1], queue[n])]
           wrong == {n \in 0 .. Len(queue) : after[n] # f[n]}
<1>0. Len(queue) \in Nat
  BY LenProperties
<1>1. Applied(state, queue, time) = after[Len(queue)]
  BY Zenon DEF Applied
<1>2. ASSUME NEW n \in 0 .. Len(queue)
      PROVE  f[n] = IF n = 0 THEN state
                    ELSE IF queue[n].time < time THEN f[n - 1] ELSE apply(f[n - 1], queue[n])
  <2>1. CASE n = 0
    BY <2>1, AfterNothing
  <2>2. CASE n # 0
    <3>1. n \in 1 .. Len(queue) /\ n - 1 \in 0 .. Len(queue)
      BY <1>0, <2>2
    <3>2. f[n] = After(state, queue, time, n) /\ f[n - 1] = After(state, queue, time, n - 1)
      BY <3>1
    <3> QED  BY <2>2, <3>1, <3>2, AfterOneMore
  <2> QED  BY <2>1, <2>2
<1>3. f = [n \in 0 .. Len(queue) |->
             IF n = 0 THEN state
             ELSE IF queue[n].time < time THEN f[n - 1] ELSE apply(f[n - 1], queue[n])]
  <2>1. f = [n \in 0 .. Len(queue) |-> f[n]]
    OBVIOUS
  <2> HIDE DEF f
  <2> QED  BY <1>2, <2>1
<1> HIDE DEF f
<1>4. after = [n \in 0 .. Len(queue) |->
                 IF n = 0 THEN state
                 ELSE IF queue[n].time < time THEN after[n - 1] ELSE apply(after[n - 1], queue[n])]
  <2>1. \E h : h = [n \in 0 .. Len(queue) |->
                      IF n = 0 THEN state
                      ELSE IF queue[n].time < time THEN h[n - 1] ELSE apply(h[n - 1], queue[n])]
    BY <1>3
  <2> QED  BY <2>1, Zenon
<1> HIDE DEF after
<1>5. wrong = {}
  <2> SUFFICES ASSUME wrong # {} PROVE FALSE
    OBVIOUS
  <2>1. wrong \subseteq Nat
    BY <1>0
  <2>2. PICK n \in wrong : \A y \in wrong : n <= y
    BY <2>1, MinOfPositions
  <2>3. n # 0
    BY <1>0, <1>3, <1>4
  <2>4. n - 1 \in 0 .. Len(queue) /\ n - 1 \notin wrong
    BY <1>0, <2>2, <2>3
  <2>5. after[n - 1] = f[n - 1]
    BY <2>4
  <2>6. after[n] = IF queue[n].time < time THEN after[n - 1] ELSE apply(after[n - 1], queue[n])
    BY <1>4, <2>3
  <2>7. f[n] = IF queue[n].time < time THEN f[n - 1] ELSE apply(f[n - 1], queue[n])
    BY <1>3, <2>3
  <2> QED  BY <2>2, <2>5, <2>6, <2>7
<1>6. after[Len(queue)] = f[Len(queue)]
  BY <1>0, <1>5
<1> QED  BY <1>0, <1>1, <1>6 DEF f

\* What Applied returns: the state of the last update that counts.
LEMMA AppliedIs ==
  ASSUME NEW state \in SubscriptionState, NEW queue \in Seq(SubscriptionUpdate), NEW time \in Nat
  PROVE  /\ Applied(state, queue, time) \in SubscriptionState
         /\ Applied(state, queue, time).source = state.source
         /\ IsAfter(state, queue, time, Applied(state, queue, time).value)
<1> DEFINE S == Counted(queue, state.source, time)
           r == Applied(state, queue, time)
<1>0. Len(queue) \in Nat /\ \A i \in 1 .. Len(queue) : queue[i] \in SubscriptionUpdate
  BY LenProperties, ElementOfSeq
<1>1. S \subseteq 1 .. Len(queue) /\ CountedTo(queue, state.source, time, Len(queue)) = S
  BY <1>0 DEF CountedTo, Counted
<1>2. r = [source |-> state.source,
           value |-> IF S = {} THEN state.value ELSE queue[Largest(S)].value]
  BY <1>1, AppliedIsAfter DEF After
<1> HIDE DEF S, r
<1>3. CASE S = {}
  <2>1. r = state
    BY <1>2, <1>3 DEF SubscriptionState
  <2> QED  BY <1>3, <2>1 DEF S, r, IsAfter
<1>4. CASE S # {}
  <2> DEFINE T == {n \in Nat : \A j \in S : j <= n}
  <2>1. T \subseteq Nat /\ Len(queue) \in T
    BY <1>0, <1>1
  <2>2. PICK n \in T : \A y \in T : n <= y
    BY <2>1, MinOfPositions
  <2>3. n \in S
    <3> SUFFICES ASSUME n \notin S PROVE FALSE
      OBVIOUS
    <3>1. PICK i \in S : TRUE
      BY <1>4
    <3>2. i \in Nat /\ i >= 1 /\ i <= n /\ n \in Nat
      BY <1>1, <3>1
    <3>3. n - 1 \in T
      BY <1>1, <3>2
    <3> QED  BY <2>2, <3>2, <3>3
  <2>4. Largest(S) = n
    BY <1>1, <2>3, LargestIs
  <2>5. queue[n] \in SubscriptionUpdate
    BY <1>0, <1>1, <2>3
  <2>6. r = [source |-> state.source, value |-> queue[n].value]
    BY <1>2, <1>4, <2>4
  <2>7. r \in SubscriptionState /\ r.source = state.source /\ r.value = queue[n].value
    BY <2>5, <2>6 DEF SubscriptionState, SubscriptionUpdate
  <2>8. \A j \in S : j <= n
    OBVIOUS
  <2> QED  BY <2>3, <2>7, <2>8 DEF S, r, IsAfter
<1> QED  BY <1>3, <1>4

-----------------------------------------------------------------------------
(***************************************************************************)
(* Subscriptions: queues that fit, and where they lead.                    *)
(***************************************************************************)
LEMMA QueueFacts ==
  ASSUME NEW counts, NEW over, NEW state, NEW queue, QueueFits(counts, over, state, queue)
  PROVE  /\ state \in SubscriptionState /\ state.value \in Values
         /\ queue \in Seq(SubscriptionUpdate) /\ Len(queue) \in Nat
         /\ \A i \in 1 .. Len(queue) :
              /\ queue[i] \in SubscriptionUpdate /\ queue[i].value \in Values
              /\ queue[i].time \in Nat /\ queue[i].time >= 1
              /\ queue[i].source \in Source \cup {AnySource}
<1>1. state \in SubscriptionState /\ queue \in Seq(SubscriptionUpdate)
  BY DEF QueueFits
<1>2. Len(queue) \in Nat /\ \A i \in 1 .. Len(queue) : queue[i] \in SubscriptionUpdate
  BY <1>1, LenProperties, ElementOfSeq
<1>3. \A u \in SubscriptionUpdate : /\ u.value \in Values /\ u.time \in Nat /\ u.time >= 1
                                    /\ u.source \in Source \cup {AnySource}
  BY SubscriptionAssumption DEF SubscriptionUpdate
<1>4. state.value \in Values
  BY <1>1 DEF SubscriptionState
<1> QED  BY <1>1, <1>2, <1>3, <1>4

LEMMA ValueFacts ==
  ASSUME NEW v \in Values
  PROVE  \/ v = Undefined /\ v[1] = NoSource /\ v[2] = 0
         \/ v[1] \in Source /\ v[2] \in Nat /\ v = <<v[1], v[2]>> /\ v[1] # NoSource
BY SubscriptionAssumption DEF Values, Undefined

\* What a source has emitted last comes after everything in the queue.
LEMMA LatestFits ==
  ASSUME NEW counts \in [Source -> Nat], NEW over \in BOOLEAN, NEW state, NEW queue,
         QueueFits(counts, over, state, queue),
         NEW u \in SubscriptionUpdate, UpdateOK(u),
         u.value = Undefined \/ \E s \in Source : u.value = <<s, counts[s]>>,
         ~over /\ state.source = NoSource => u.source # AnySource
  PROVE  QueueFits(counts, over, state, Append(queue, u))
<1> DEFINE all == Append(queue, u)
<1>1. /\ state \in SubscriptionState /\ state.value \in Values
      /\ queue \in Seq(SubscriptionUpdate) /\ Len(queue) \in Nat
      /\ \A i \in 1 .. Len(queue) : queue[i].value \in Values
  BY QueueFacts
<1>2. /\ all \in Seq(SubscriptionUpdate) /\ Len(all) = Len(queue) + 1 /\ all[Len(queue) + 1] = u
      /\ \A i \in 1 .. Len(queue) : all[i] = queue[i]
  BY <1>1, AppendProperties
<1>3. /\ \A i \in 1 .. Len(queue) :
           /\ UpdateOK(queue[i]) /\ Past(counts, queue[i].value)
           /\ NotAfter(state.value, queue[i].value)
      /\ Past(counts, state.value)
      /\ \A i, j \in 1 .. Len(queue) : i < j => NotAfter(queue[i].value, queue[j].value)
      /\ ~over /\ state.source = NoSource =>
           state.value = Undefined /\ \A i \in 1 .. Len(queue) : queue[i].source # AnySource
  BY DEF QueueFits
<1>4. ASSUME NEW v \in Values, Past(counts, v)
      PROVE  NotAfter(v, u.value)
  <2>1. CASE u.value = Undefined
    <3>1. v[1] = NoSource => v[2] = 0
      BY ValueFacts
    <3> QED  BY <2>1, <3>1 DEF NotAfter, Undefined
  <2>2. ASSUME NEW s \in Source, u.value = <<s, counts[s]>>
        PROVE  NotAfter(v, u.value)
    BY <1>4, <2>2 DEF NotAfter, Past
  <2> QED  BY <2>1, <2>2
<1>5. Past(counts, u.value)
  <2>1. CASE u.value = Undefined
    BY <2>1, SubscriptionAssumption DEF Past, Undefined
  <2>2. ASSUME NEW s \in Source, u.value = <<s, counts[s]>>
        PROVE  Past(counts, u.value)
    <3>1. counts[s] \in Nat
      OBVIOUS
    <3> QED  BY <2>2, <3>1 DEF Past
  <2> QED  BY <2>1, <2>2
<1> HIDE DEF all
<1>6. ASSUME NEW i \in 1 .. Len(all)
      PROVE  /\ UpdateOK(all[i]) /\ Past(counts, all[i].value) /\ NotAfter(state.value, all[i].value)
             /\ ~over /\ state.source = NoSource => all[i].source # AnySource
  <2>1. CASE i = Len(queue) + 1
    BY <1>1, <1>2, <1>3, <1>4, <1>5, <2>1
  <2>2. CASE i \in 1 .. Len(queue)
    BY <1>2, <1>3, <2>2
  <2> QED  BY <1>1, <1>2, <2>1, <2>2
<1>7. ASSUME NEW i \in 1 .. Len(all), NEW j \in 1 .. Len(all), i < j
      PROVE  NotAfter(all[i].value, all[j].value)
  <2>1. i \in 1 .. Len(queue)
    BY <1>1, <1>2, <1>7
  <2>2. CASE j = Len(queue) + 1
    BY <1>1, <1>2, <1>3, <1>4, <2>1, <2>2
  <2>3. CASE j \in 1 .. Len(queue)
    BY <1>2, <1>3, <1>7, <2>1, <2>3
  <2> QED  BY <1>1, <1>2, <2>2, <2>3
<1>8. QueueFits(counts, over, state, all)
  BY <1>1, <1>2, <1>3, <1>6, <1>7 DEF QueueFits
<1> QED  BY <1>8 DEF all

LEMMA PastLater ==
  ASSUME NEW counts \in [Source -> Nat], NEW after \in [Source -> Nat],
         \A s \in Source : counts[s] <= after[s], NEW v \in Values, Past(counts, v)
  PROVE  Past(after, v)
<1>1. v[1] \in Source => /\ v[2] \in Nat /\ v[2] <= counts[v[1]] /\ counts[v[1]] \in Nat
                         /\ after[v[1]] \in Nat /\ counts[v[1]] <= after[v[1]]
  BY ValueFacts DEF Past
<1> QED  BY <1>1 DEF Past

\* Sources emit more, and an exception may come to be known.
LEMMA FitsLater ==
  ASSUME NEW counts \in [Source -> Nat], NEW over \in BOOLEAN, NEW state, NEW queue,
         QueueFits(counts, over, state, queue), NEW after \in [Source -> Nat],
         \A s \in Source : counts[s] <= after[s], NEW overAfter \in BOOLEAN, over => overAfter
  PROVE  QueueFits(after, overAfter, state, queue)
<1>1. \A v \in Values : Past(counts, v) => Past(after, v)
  BY PastLater
<1>2. state.value \in Values /\ \A i \in 1 .. Len(queue) : queue[i].value \in Values
  BY QueueFacts
<1> QED  BY <1>1, <1>2 DEF QueueFits

\* An update for the source, or for any, decides; one for another source does not.
LEMMA AddedCounts ==
  ASSUME NEW state \in SubscriptionState, NEW queue \in Seq(SubscriptionUpdate),
         NEW u \in SubscriptionUpdate, NEW v, IsAfter(state, Append(queue, u), 0, v)
  PROVE  IF u.source \in {AnySource, state.source} THEN v = u.value
         ELSE IsAfter(state, queue, 0, v)
<1> DEFINE all == Append(queue, u)
           S == Counted(all, state.source, 0)
           R == Counted(queue, state.source, 0)
           n == Len(queue) + 1
<1>1. Len(queue) \in Nat /\ \A i \in 1 .. Len(queue) : queue[i] \in SubscriptionUpdate
  BY LenProperties, ElementOfSeq
<1>2. /\ Len(all) = n /\ all[n] = u
      /\ \A i \in 1 .. Len(queue) : all[i] = queue[i]
  BY AppendProperties
<1>3. u.time >= 0
  BY SubscriptionAssumption DEF SubscriptionUpdate
<1> HIDE DEF all
<1>4. /\ \A i \in S : i = n \/ i \in R
      /\ R \subseteq S /\ R \subseteq 1 .. Len(queue) /\ S \subseteq 1 .. n
      /\ n \in S <=> u.source \in {AnySource, state.source}
  BY <1>1, <1>2, <1>3 DEF Counted
<1>5. (S = {} /\ v = state.value) \/ \E i \in S : v = all[i].value /\ \A j \in S : j <= i
  BY DEF IsAfter, all
<1> HIDE DEF S, R
<1>6. CASE n \in S
  <2>1. PICK i \in S : v = all[i].value /\ \A j \in S : j <= i
    BY <1>5, <1>6
  <2>2. i = n
    <3>1. i \in 1 .. n /\ n <= i /\ n \in Nat
      BY <1>1, <1>4, <1>6, <2>1
    <3> QED  BY <3>1
  <2> QED  BY <1>2, <1>4, <1>6, <2>1, <2>2
<1>7. CASE n \notin S
  <2>1. S = R
    BY <1>4, <1>7
  <2>2. \A i \in R : all[i] = queue[i]
    BY <1>2, <1>4
  <2>3. (R = {} /\ v = state.value) \/ \E i \in R : v = queue[i].value /\ \A j \in R : j <= i
    BY <1>5, <2>1, <2>2
  <2> QED  BY <1>4, <1>7, <2>3 DEF IsAfter, R
<1> QED  BY <1>6, <1>7

LEMMA AddedTracks ==
  ASSUME NEW counts, NEW over, NEW state \in SubscriptionState,
         NEW queue \in Seq(SubscriptionUpdate), NEW u \in SubscriptionUpdate, NEW s,
         IF u.source \in {AnySource, s} THEN RightFor(counts, over, s, u.value)
         ELSE OnTrack(counts, over, state, queue, s)
  PROVE  OnTrack(counts, over, state, Append(queue, u), s)
<1>1. ASSUME state.source = s, NEW v \in Values, IsAfter(state, Append(queue, u), 0, v)
      PROVE  RightFor(counts, over, s, v)
  <2>1. IF u.source \in {AnySource, s} THEN v = u.value ELSE IsAfter(state, queue, 0, v)
    BY <1>1, AddedCounts
  <2> QED  BY <1>1, <2>1 DEF OnTrack
<1> QED  BY <1>1 DEF OnTrack

\* Without a source nothing counts, unless that exception is known.
LEMMA NoneTracks ==
  ASSUME NEW counts, NEW over \in BOOLEAN, NEW state, NEW queue,
         QueueFits(counts, over, state, queue)
  PROVE  OnTrack(counts, over, state, queue, NoSource)
<1>1. ASSUME state.source = NoSource, NEW v \in Values, IsAfter(state, queue, 0, v), ~over
      PROVE  v = Undefined
  <2>1. state.value = Undefined /\ \A i \in 1 .. Len(queue) : queue[i].source # AnySource
    BY <1>1 DEF QueueFits
  <2>2. \A i \in 1 .. Len(queue) : queue[i].source \in Source
    BY <2>1, QueueFacts
  <2>3. Counted(queue, NoSource, 0) = {}
    BY <2>1, <2>2, SubscriptionAssumption DEF Counted
  <2> QED  BY <1>1, <2>1, <2>3 DEF IsAfter
<1>2. NoSource \notin Source \ Readable /\ CurrentOf(counts, NoSource) = Undefined
  BY SubscriptionAssumption DEF CurrentOf
<1> QED  BY <1>1, <1>2 DEF OnTrack, RightFor

LEMMA TracksLater ==
  ASSUME NEW counts, NEW over \in BOOLEAN, NEW state, NEW queue, NEW s,
         OnTrack(counts, over, state, queue, s), NEW after, NEW overAfter \in BOOLEAN,
         over => overAfter, CurrentOf(after, s) = CurrentOf(counts, s)
  PROVE  OnTrack(after, overAfter, state, queue, s)
BY DEF OnTrack, RightFor

\* When every priority suffices, every update counts.
LEMMA AllCount ==
  ASSUME NEW state \in SubscriptionState, NEW queue \in Seq(SubscriptionUpdate), NEW time \in Nat,
         \A i \in 1 .. Len(queue) : queue[i].time >= time, NEW v
  PROVE  IsAfter(state, queue, 0, v) <=> IsAfter(state, queue, time, v)
<1>1. \A i \in 1 .. Len(queue) : queue[i].time \in Nat
  <2>1. \A i \in 1 .. Len(queue) : queue[i] \in SubscriptionUpdate
    BY ElementOfSeq
  <2> QED  BY <2>1, SubscriptionAssumption DEF SubscriptionUpdate
<1>2. Counted(queue, state.source, 0) = Counted(queue, state.source, time)
  BY <1>1 DEF Counted
<1> QED  BY <1>2 DEF IsAfter

LEMMA IsAfterOnce ==
  ASSUME NEW state \in SubscriptionState, NEW queue \in Seq(SubscriptionUpdate), NEW time \in Nat,
         NEW v, IsAfter(state, queue, time, v), NEW u, IsAfter(state, queue, time, u)
  PROVE  u = v
<1> DEFINE S == Counted(queue, state.source, time)
<1>1. S \subseteq Nat
  BY LenProperties DEF Counted
<1>2. (S = {} /\ v = state.value) \/ \E i \in S : v = queue[i].value /\ \A j \in S : j <= i
  BY DEF IsAfter
<1>3. (S = {} /\ u = state.value) \/ \E i \in S : u = queue[i].value /\ \A j \in S : j <= i
  BY DEF IsAfter
<1> HIDE DEF S
<1>4. \A i, j \in S : i <= j /\ j <= i => i = j
  BY <1>1
<1> QED  BY <1>2, <1>3, <1>4

\* The base state that a render leaves, with the updates that are left, leads where the
\* old one led with all of them.
LEMMA RestCounts ==
  ASSUME NEW state \in SubscriptionState, NEW queue \in Seq(SubscriptionUpdate), NEW time \in Nat,
         NEW f \in 1 .. Len(queue), \A i \in 1 .. f - 1 : queue[i].time >= time,
         NEW v, IsAfter(Applied(state, SubSeq(queue, 1, f - 1), time),
                        SubSeq(queue, f, Len(queue)), 0, v)
  PROVE  IsAfter(state, queue, 0, v)
<1> DEFINE before == SubSeq(queue, 1, f - 1)
           rest == SubSeq(queue, f, Len(queue))
           mid == Applied(state, before, time)
           n == Len(queue)
           S == Counted(queue, state.source, 0)
           B == Counted(before, state.source, time)
           R == Counted(rest, state.source, 0)
<1>1. n \in Nat /\ f \in 1 .. n /\ \A i \in 1 .. n : queue[i] \in SubscriptionUpdate
  BY LenProperties, ElementOfSeq
<1>2. /\ before \in Seq(SubscriptionUpdate) /\ Len(before) = f - 1
      /\ \A i \in 1 .. f - 1 : before[i] = queue[i]
  <2>1. 1 \in Int /\ f - 1 \in Int /\ \A i \in 1 .. f - 1 : queue[i] \in SubscriptionUpdate
    BY <1>1
  <2>2. /\ before \in Seq(SubscriptionUpdate)
        /\ Len(before) = IF 1 <= f - 1 THEN f - 1 - 1 + 1 ELSE 0
        /\ \A i \in 1 .. f - 1 - 1 + 1 : before[i] = queue[1 + i - 1]
    BY <2>1, SubSeqProperties
  <2> HIDE DEF before
  <2> QED  BY <1>1, <2>2
<1>3. /\ rest \in Seq(SubscriptionUpdate) /\ Len(rest) = n - f + 1
      /\ \A i \in 1 .. n - f + 1 : rest[i] = queue[f + i - 1]
  <2>1. f \in Int /\ n \in Int /\ \A i \in f .. n : queue[i] \in SubscriptionUpdate
    BY <1>1
  <2>2. /\ rest \in Seq(SubscriptionUpdate)
        /\ Len(rest) = IF f <= n THEN n - f + 1 ELSE 0
        /\ \A i \in 1 .. n - f + 1 : rest[i] = queue[f + i - 1]
    BY <2>1, SubSeqProperties
  <2> HIDE DEF rest
  <2> QED  BY <1>1, <2>2
<1>4. mid.source = state.source /\ IsAfter(state, before, time, mid.value)
  BY <1>2, AppliedIs
<1> HIDE DEF before, rest, mid, n
<1>5. \A i \in 1 .. n : queue[i].time \in Nat
  BY <1>1, SubscriptionAssumption DEF SubscriptionUpdate
<1>6. /\ S = {i \in 1 .. n : queue[i].source \in {AnySource, state.source}}
      /\ B = {i \in 1 .. f - 1 : queue[i].source \in {AnySource, state.source}}
      /\ R = {i \in 1 .. n - f + 1 : queue[f + i - 1].source \in {AnySource, state.source}}
  <2>1. S = {i \in 1 .. n : queue[i].source \in {AnySource, state.source}}
    BY <1>5 DEF Counted, n
  <2>2. B = {i \in 1 .. f - 1 : queue[i].source \in {AnySource, state.source}}
    BY <1>2 DEF Counted
  <2>3. \A i \in 1 .. n - f + 1 : f + i - 1 \in 1 .. n
    BY <1>1
  <2>4. R = {i \in 1 .. n - f + 1 : queue[f + i - 1].source \in {AnySource, state.source}}
    BY <1>3, <1>5, <2>3 DEF Counted
  <2> QED  BY <2>1, <2>2, <2>4
<1>7. (R = {} /\ v = mid.value) \/ \E i \in R : v = rest[i].value /\ \A j \in R : j <= i
  <2>1. IsAfter(mid, rest, 0, v)
    BY DEF mid, rest, before, n
  <2>2. R = Counted(rest, mid.source, 0)
    BY <1>4
  <2> QED  BY <2>1, <2>2 DEF IsAfter
<1>8. (B = {} /\ mid.value = state.value)
      \/ \E i \in B : mid.value = before[i].value /\ \A j \in B : j <= i
  BY <1>4 DEF IsAfter
<1> HIDE DEF S, B, R
<1>9. (S = {} /\ v = state.value) \/ \E i \in S : v = queue[i].value /\ \A j \in S : j <= i
  <2>1. ASSUME NEW i \in R, v = rest[i].value, \A j \in R : j <= i
        PROVE  f + i - 1 \in S /\ v = queue[f + i - 1].value /\ \A j \in S : j <= f + i - 1
    <3>1. i \in 1 .. n - f + 1 /\ f + i - 1 \in 1 .. n /\ f + i - 1 \in S
      BY <1>1, <1>6
    <3>2. ASSUME NEW j \in S, ~(j <= f + i - 1)
          PROVE  FALSE
      <4>1. j \in 1 .. n /\ j - f + 1 \in 1 .. n - f + 1 /\ f + (j - f + 1) - 1 = j
            /\ ~(j - f + 1 <= i)
        BY <1>1, <1>6, <3>1, <3>2
      <4>2. queue[f + (j - f + 1) - 1].source \in {AnySource, state.source}
        BY <1>6, <4>1
      <4>3. j - f + 1 \in R
        BY <1>6, <4>1, <4>2
      <4> QED  BY <2>1, <4>1, <4>3
    <3> QED  BY <1>3, <2>1, <3>1, <3>2
  <2>2. ASSUME R = {}
        PROVE  S = B
    <3>1. ASSUME NEW j \in S, j \notin 1 .. f - 1
          PROVE  FALSE
      <4>1. j \in 1 .. n /\ j - f + 1 \in 1 .. n - f + 1 /\ f + (j - f + 1) - 1 = j
        BY <1>1, <1>6, <3>1
      <4>2. queue[f + (j - f + 1) - 1].source \in {AnySource, state.source}
        BY <1>6, <4>1
      <4>3. j - f + 1 \in R
        BY <1>6, <4>1, <4>2
      <4> QED  BY <2>2, <4>3
    <3>2. B \subseteq S
      BY <1>1, <1>6
    <3> QED  BY <1>6, <3>1, <3>2
  <2>3. ASSUME NEW i \in B, R = {}, v = mid.value, mid.value = before[i].value, \A j \in B : j <= i
        PROVE  i \in S /\ v = queue[i].value /\ \A j \in S : j <= i
    BY <1>2, <1>6, <2>2, <2>3
  <2> QED  BY <1>7, <1>8, <2>1, <2>2, <2>3
<1> QED  BY <1>9 DEF IsAfter, S

\* If what was rendered is what can be read now, then so is what all updates lead to:
\* those that were skipped are of the source, and not before what was rendered.
LEMMA SkippedAgree ==
  ASSUME NEW counts \in [Source -> Nat], NEW over, NEW state, NEW queue,
         QueueFits(counts, over, state, queue), NEW time \in 1 .. MaxUpdateTime,
         IsAfter(state, queue, time, CurrentOf(counts, state.source)), state.source \in Source
  PROVE  OnTrack(counts, over, state, queue, state.source)
<1> DEFINE s == state.source
           x == CurrentOf(counts, s)
           S == Counted(queue, s, 0)
           T == Counted(queue, s, time)
<1>1. /\ Len(queue) \in Nat /\ time \in Nat /\ MaxUpdateTime \in Nat /\ time <= MaxUpdateTime
      /\ \A i \in 1 .. Len(queue) :
           /\ queue[i].value \in Values /\ queue[i].time \in Nat
           /\ queue[i].source \in Source \cup {AnySource}
           /\ UpdateOK(queue[i]) /\ Past(counts, queue[i].value)
           /\ NotAfter(state.value, queue[i].value)
      /\ \A i, j \in 1 .. Len(queue) : i < j => NotAfter(queue[i].value, queue[j].value)
  <2>1. time \in Nat /\ MaxUpdateTime \in Nat /\ time <= MaxUpdateTime
    BY SubscriptionAssumption
  <2>2. /\ \A i \in 1 .. Len(queue) :
             /\ UpdateOK(queue[i]) /\ Past(counts, queue[i].value)
             /\ NotAfter(state.value, queue[i].value)
        /\ \A i, j \in 1 .. Len(queue) : i < j => NotAfter(queue[i].value, queue[j].value)
    BY DEF QueueFits
  <2> QED  BY <2>1, <2>2, QueueFacts
<1>2. /\ T \subseteq S /\ S \subseteq 1 .. Len(queue)
      /\ \A i \in S : queue[i].source \in {AnySource, s} /\ (i \in T <=> queue[i].time >= time)
  BY <1>1 DEF Counted
<1>3. (T = {} /\ x = state.value) \/ \E i \in T : x = queue[i].value /\ \A j \in T : j <= i
  BY DEF IsAfter
<1> HIDE DEF S, T, x
<1>4. ASSUME NEW i \in S, i \notin T
      PROVE  queue[i].source = s /\ queue[i].value \in {s} \X Nat
  <2>1. i \in 1 .. Len(queue) /\ UpdateOK(queue[i]) /\ ~(queue[i].time >= time)
    BY <1>1, <1>2, <1>4
  <2>2. queue[i].time # MaxUpdateTime
    BY <1>1, <2>1
  <2>3. queue[i].source = s
    BY <1>2, <1>4, <2>1, <2>2 DEF UpdateOK
  <2> QED  BY <2>1, <2>3 DEF UpdateOK
<1>5. ASSUME NEW w, w \in {s} \X Nat, Past(counts, w), NotAfter(x, w)
      PROVE  RightFor(counts, over, s, w)
  <2>1. w = <<s, w[2]>> /\ w[1] = s /\ w[2] \in Nat /\ w[2] <= counts[s] /\ counts[s] \in Nat
    BY <1>5 DEF Past
  <2>2. CASE s \in Readable
    <3>1. x = <<s, counts[s]>> /\ x[1] = s /\ x[2] = counts[s]
      BY <2>2 DEF x, CurrentOf
    <3>2. counts[s] <= w[2]
      BY <1>5, <2>1, <3>1 DEF NotAfter
    <3>3. w = <<s, counts[s]>>
      BY <2>1, <3>2
    <3> QED  BY <2>2, <3>3 DEF RightFor, CurrentOf
  <2>3. CASE s \notin Readable
    BY <2>1, <2>3 DEF RightFor
  <2> QED  BY <2>2, <2>3
<1>6. RightFor(counts, over, s, x)
  BY DEF x, RightFor, CurrentOf, Undefined
<1>7. ASSUME NEW v \in Values, IsAfter(state, queue, 0, v)
      PROVE  RightFor(counts, over, s, v)
  <2>1. (S = {} /\ v = state.value) \/ \E i \in S : v = queue[i].value /\ \A j \in S : j <= i
    BY <1>7 DEF IsAfter, S
  <2>2. CASE S = {}
    <3>1. v = x
      BY <1>2, <1>3, <2>1, <2>2
    <3> QED  BY <1>6, <3>1
  <2>3. ASSUME NEW i \in S, v = queue[i].value, \A j \in S : j <= i
        PROVE  RightFor(counts, over, s, v)
    <3>1. i \in 1 .. Len(queue)
      BY <1>2
    <3>2. CASE i \in T
      <4>1. PICK k \in T : x = queue[k].value /\ \A j \in T : j <= k
        BY <1>3, <3>2
      <4>2. k \in S /\ k \in Nat /\ i \in Nat /\ i <= k /\ k <= i
        BY <1>1, <1>2, <2>3, <3>2, <4>1
      <4>3. k = i
        BY <4>2
      <4> QED  BY <1>6, <2>3, <4>1, <4>3
    <3>3. CASE i \notin T
      <4>1. NotAfter(x, v)
        <5>1. CASE T = {}
          BY <1>1, <1>3, <2>3, <3>1, <5>1
        <5>2. ASSUME NEW k \in T, x = queue[k].value
              PROVE  NotAfter(x, v)
          <6>1. k \in 1 .. Len(queue) /\ k <= i /\ k # i
            BY <1>2, <2>3, <3>3
          <6>2. k < i
            BY <3>1, <6>1
          <6> QED  BY <1>1, <2>3, <3>1, <5>2, <6>1, <6>2
        <5> QED  BY <1>3, <5>1, <5>2
      <4>2. v \in {s} \X Nat /\ Past(counts, v)
        BY <1>1, <1>4, <2>3, <3>1, <3>3
      <4> QED  BY <1>5, <4>1, <4>2
    <3> QED  BY <3>2, <3>3
  <2> QED  BY <2>1, <2>2, <2>3
<1> QED  BY <1>7 DEF OnTrack

-----------------------------------------------------------------------------
(***************************************************************************)
(* Subscriptions: the invariant.                                           *)
(***************************************************************************)
\* What a render leaves for the commit.  If the commit will not look at the source, for
\* it is the one shown, or finds there what was rendered, then the queue is on track.
Rendered == [state : SubscriptionState, updates : Seq(SubscriptionUpdate),
             source : Source \cup {NoSource}, base : SubscriptionState,
             workTime : 0 .. MaxUpdateTime]
DoneFits(counts, over, done, same) ==
  /\ done \in Rendered /\ done.state.source = done.source
  /\ Past(counts, done.state.value)
  /\ QueueFits(counts, over, done.base, done.updates)
  /\ done.updates = <<>> => done.base = done.state
  /\ done.workTime = 0 => done.updates = <<>>
  /\ same \/ done.state.value = CurrentOf(counts, done.source) =>
       OnTrack(counts, over, done.base, done.updates, done.source)

SubscriptionTypes ==
  /\ emitted \in [Source -> Nat] /\ overNone \in BOOLEAN
  /\ parentSource \in Source \cup {NoSource} /\ subscribed \subseteq Source
  /\ shown \in SubscriptionState /\ base \in SubscriptionState
  /\ updates \in Seq(SubscriptionUpdate) /\ workTime \in 0 .. MaxUpdateTime
  /\ lifecycle \in {"new", "mounted", "unmounted"}
  /\ \/ wanted = <<>>
     \/ \E w \in [source : Source \cup {NoSource}, time : 1 .. MaxUpdateTime] : wanted = <<w>>

NewSubscription ==
  lifecycle = "new" => updates = <<>> /\ wanted = <<>> /\ subscribed = {} /\ workTime = 0

MountedSubscription ==
  lifecycle = "mounted" =>
    /\ QueueFits(emitted, overNone, base, updates)
    /\ shown.source = parentSource
    /\ shown.source # NoSource => shown.source \in subscribed
    /\ OnTrack(emitted, overNone, base, updates, shown.source)
    /\ workTime = 0 => updates = <<>>
    /\ updates = <<>> => base = shown

FinishedSubscription ==
  \/ finished = <<>>
  \/ /\ lifecycle # "unmounted"
     /\ \E done \in Rendered :
          /\ finished = <<done>>
          /\ DoneFits(emitted, overNone, done,
                      lifecycle = "mounted" /\ done.source = shown.source)

SubscriptionInv ==
  SubscriptionTypes /\ NewSubscription /\ MountedSubscription /\ FinishedSubscription

-----------------------------------------------------------------------------
(***************************************************************************)
(* Subscriptions: rendering.                                               *)
(***************************************************************************)
LEMMA MaxOfUpdateTimes ==
  ASSUME NEW S, S \subseteq 1 .. MaxUpdateTime, S # {}
  PROVE  Max(S) \in S /\ \A y \in S : y <= Max(S)
<1> DEFINE T == {n \in Nat : \A y \in S : y <= n}
<1>1. MaxUpdateTime \in Nat /\ S \subseteq Nat /\ MaxUpdateTime \in T /\ T \subseteq Nat
  BY SubscriptionAssumption
<1>2. PICK n \in T : \A y \in T : n <= y
  BY <1>1, MinOfPositions
<1>3. n \in S
  <2> SUFFICES ASSUME n \notin S PROVE FALSE
    OBVIOUS
  <2>1. PICK i \in S : TRUE
    OBVIOUS
  <2>2. i \in Nat /\ i >= 1 /\ i <= n /\ n \in Nat
    BY <1>1, <2>1
  <2>3. n - 1 \in T
    BY <1>1, <2>2
  <2> QED  BY <1>2, <2>2, <2>3
<1>4. \E x \in S : \A y \in S : y <= x
  BY <1>3
<1> QED  BY <1>4, Zenon DEF Max

\* The value after some updates is that of the state or of one of them.
LEMMA AfterIsOne ==
  ASSUME NEW state, NEW queue, NEW time, NEW v, IsAfter(state, queue, time, v)
  PROVE  v = state.value \/ \E i \in Counted(queue, state.source, time) : v = queue[i].value
BY DEF IsAfter

\* What is left of a queue fits the state after the updates before it.
LEMMA RestFits ==
  ASSUME NEW counts, NEW over \in BOOLEAN, NEW state, NEW queue,
         QueueFits(counts, over, state, queue), NEW time \in Nat, NEW f \in 1 .. Len(queue) + 1,
         NEW mid, mid = Applied(state, SubSeq(queue, 1, f - 1), time)
  PROVE  /\ QueueFits(counts, over, mid, SubSeq(queue, f, Len(queue)))
         /\ mid.source = state.source
         /\ Len(SubSeq(queue, f, Len(queue))) = Len(queue) - f + 1
<1> DEFINE before == SubSeq(queue, 1, f - 1)
           rest == SubSeq(queue, f, Len(queue))
           n == Len(queue)
<1>1. /\ state \in SubscriptionState /\ state.value \in Values /\ n \in Nat /\ f \in 1 .. n + 1
      /\ queue \in Seq(SubscriptionUpdate)
      /\ \A i \in 1 .. n : queue[i] \in SubscriptionUpdate /\ queue[i].value \in Values
  BY QueueFacts
<1>2. /\ before \in Seq(SubscriptionUpdate) /\ Len(before) = f - 1
      /\ \A i \in 1 .. f - 1 : before[i] = queue[i]
  <2>1. 1 \in Int /\ f - 1 \in Int /\ \A i \in 1 .. f - 1 : queue[i] \in SubscriptionUpdate
    BY <1>1
  <2>2. /\ before \in Seq(SubscriptionUpdate)
        /\ Len(before) = IF 1 <= f - 1 THEN f - 1 - 1 + 1 ELSE 0
        /\ \A i \in 1 .. f - 1 - 1 + 1 : before[i] = queue[1 + i - 1]
    BY <2>1, SubSeqProperties
  <2> HIDE DEF before
  <2> QED  BY <1>1, <2>2
<1>3. /\ rest \in Seq(SubscriptionUpdate) /\ Len(rest) = n - f + 1
      /\ \A i \in 1 .. n - f + 1 : rest[i] = queue[f + i - 1]
  <2>1. f \in Int /\ n \in Int /\ \A i \in f .. n : queue[i] \in SubscriptionUpdate
    BY <1>1
  <2>2. /\ rest \in Seq(SubscriptionUpdate)
        /\ Len(rest) = IF f <= n THEN n - f + 1 ELSE 0
        /\ \A i \in 1 .. n - f + 1 : rest[i] = queue[f + i - 1]
    BY <2>1, SubSeqProperties
  <2> HIDE DEF rest
  <2> QED  BY <1>1, <2>2
<1>4. mid \in SubscriptionState /\ mid.source = state.source /\ IsAfter(state, before, time, mid.value)
  BY <1>1, <1>2, AppliedIs
<1> HIDE DEF before, rest, n
<1>5. mid.value = state.value
      \/ \E i \in 1 .. f - 1 : mid.value = queue[i].value /\ queue[i].source \in {AnySource, state.source}
  <2>1. mid.value = state.value
        \/ \E i \in Counted(before, state.source, time) : mid.value = before[i].value
    BY <1>4, AfterIsOne
  <2>2. \A i \in Counted(before, state.source, time) :
          i \in 1 .. f - 1 /\ queue[i].source \in {AnySource, state.source} /\ before[i] = queue[i]
    BY <1>2 DEF Counted
  <2> QED  BY <2>1, <2>2
<1>6. /\ \A i \in 1 .. n : /\ UpdateOK(queue[i]) /\ Past(counts, queue[i].value)
                           /\ NotAfter(state.value, queue[i].value)
      /\ Past(counts, state.value)
      /\ \A i, j \in 1 .. n : i < j => NotAfter(queue[i].value, queue[j].value)
      /\ ~over /\ state.source = NoSource =>
           state.value = Undefined /\ \A i \in 1 .. n : queue[i].source # AnySource
  BY DEF QueueFits, n
<1>7. \A i \in 1 .. n - f + 1 : f + i - 1 \in 1 .. n /\ f + i - 1 > f - 1
  BY <1>1
<1>8. Past(counts, mid.value) /\ \A i \in 1 .. n - f + 1 : NotAfter(mid.value, rest[i].value)
  <2>1. CASE mid.value = state.value
    BY <1>3, <1>6, <1>7, <2>1
  <2>2. ASSUME NEW i \in 1 .. f - 1, mid.value = queue[i].value
        PROVE  Past(counts, mid.value) /\ \A j \in 1 .. n - f + 1 : NotAfter(mid.value, rest[j].value)
    <3>1. i \in 1 .. n /\ \A j \in 1 .. n - f + 1 : i < f + j - 1
      BY <1>1
    <3> QED  BY <1>3, <1>6, <1>7, <2>2, <3>1
  <2> QED  BY <1>5, <2>1, <2>2
<1>9. \A i, j \in 1 .. n - f + 1 : i < j => NotAfter(rest[i].value, rest[j].value)
  <2>1. ASSUME NEW i \in 1 .. n - f + 1, NEW j \in 1 .. n - f + 1, i < j
        PROVE  NotAfter(rest[i].value, rest[j].value)
    <3>1. f + i - 1 < f + j - 1
      BY <1>1, <2>1
    <3> QED  BY <1>3, <1>6, <1>7, <3>1
  <2> QED  BY <2>1
<1>10. ASSUME ~over, mid.source = NoSource
       PROVE  mid.value = Undefined /\ \A i \in 1 .. n - f + 1 : rest[i].source # AnySource
  <2>1. state.value = Undefined /\ \A i \in 1 .. n : queue[i].source # AnySource
    BY <1>4, <1>6, <1>10
  <2>2. \A i \in 1 .. n : queue[i].source \in Source
    BY <2>1, QueueFacts DEF n
  <2>3. \A i \in 1 .. f - 1 : i \in 1 .. n
    BY <1>1
  <2>4. mid.value = state.value
    BY <1>4, <1>5, <1>10, <2>1, <2>2, <2>3, SubscriptionAssumption
  <2> QED  BY <1>3, <1>7, <2>1, <2>4
<1>11. \A i \in 1 .. n - f + 1 : UpdateOK(rest[i]) /\ Past(counts, rest[i].value)
  BY <1>3, <1>6, <1>7
<1>12. QueueFits(counts, over, mid, rest)
  BY <1>3, <1>4, <1>8, <1>9, <1>10, <1>11 DEF QueueFits
<1> QED  BY <1>3, <1>4, <1>12 DEF rest, n

\* What a source could be read to have at the time fits a component just made.
LEMMA InitialFits ==
  ASSUME NEW over, NEW source \in Source \cup {NoSource}, emitted \in [Source -> Nat],
         NEW state, state = initialState(source)
  PROVE  /\ state \in SubscriptionState /\ state.source = source
         /\ state.value = CurrentOf(emitted, source) /\ Past(emitted, state.value)
         /\ RightFor(emitted, over, source, state.value)
         /\ QueueFits(emitted, over, state, <<>>)
<1>1. state = [source |-> source, value |-> CurrentOf(emitted, source)]
  BY DEF initialState, getCurrentValue, lastValue, CurrentOf
<1>2. CurrentOf(emitted, source) \in Values /\ Past(emitted, CurrentOf(emitted, source))
  <2>1. CASE source \in Readable
    <3>1. source \in Source /\ emitted[source] \in Nat
      BY <2>1, SubscriptionAssumption
    <3> QED  BY <2>1, <3>1 DEF CurrentOf, Values, Past
  <2>2. CASE source \notin Readable
    BY <2>2, SubscriptionAssumption DEF CurrentOf, Values, Past, Undefined
  <2> QED  BY <2>1, <2>2
<1>3. RightFor(emitted, over, source, CurrentOf(emitted, source))
  BY DEF RightFor, CurrentOf, Undefined
<1>4. source = NoSource => CurrentOf(emitted, source) = Undefined
  BY SubscriptionAssumption DEF CurrentOf
<1>5. state \in SubscriptionState
  BY <1>1, <1>2 DEF SubscriptionState
<1>6. <<>> \in Seq(SubscriptionUpdate) /\ Len(<<>>) = 0
  BY EmptySeq
<1>7. QueueFits(emitted, over, state, <<>>)
  BY <1>1, <1>2, <1>4, <1>5, <1>6 DEF QueueFits
<1> QED  BY <1>1, <1>2, <1>3, <1>5, <1>7

\* After nothing the value is the state's.
LEMMA EmptyTracks ==
  ASSUME NEW counts, NEW over, NEW state, NEW s
  PROVE  OnTrack(counts, over, state, <<>>, s)
         <=> (state.source = s /\ state.value \in Values => RightFor(counts, over, s, state.value))
<1>1. \A v : IsAfter(state, <<>>, 0, v) <=> v = state.value
  BY EmptySeq DEF IsAfter, Counted
<1> QED  BY <1>1 DEF OnTrack

LEMMA ProcessedIsFit ==
  ASSUME emitted \in [Source -> Nat], overNone \in BOOLEAN,
         QueueFits(emitted, overNone, base, updates), NEW time \in 1 .. MaxUpdateTime,
         NEW source \in Source \cup {NoSource}, NEW same \in BOOLEAN,
         same => OnTrack(emitted, overNone, base, updates, source)
  PROVE  DoneFits(emitted, overNone, processed(time, source), same)
<1> DEFINE kept == {i \in DOMAIN updates : updates[i].time < time}
           first == IF kept = {} THEN Len(updates) + 1 ELSE Min(kept)
           left == SubSeq(updates, first, Len(updates))
           all == Applied(base, updates, time)
           derived == getDerivedStateFromProps(source, all)
           mid == Applied(base, SubSeq(updates, 1, first - 1), time)
           done == processed(time, source)
<1>1. done = [state |-> derived, updates |-> left, source |-> source,
              base |-> IF kept = {} THEN derived ELSE mid,
              workTime |-> IF kept = {} THEN 0 ELSE Max({updates[i].time : i \in kept})]
  BY DEF processed
<1>2. /\ base \in SubscriptionState /\ updates \in Seq(SubscriptionUpdate) /\ Len(updates) \in Nat
      /\ \A i \in 1 .. Len(updates) : updates[i] \in SubscriptionUpdate /\ updates[i].time \in Nat
      /\ DOMAIN updates = 1 .. Len(updates)
  BY QueueFacts, LenProperties
<1>3. time \in Nat /\ time >= 1 /\ time <= MaxUpdateTime /\ MaxUpdateTime \in Nat
  BY SubscriptionAssumption
<1>4. /\ all \in SubscriptionState /\ all.source = base.source
      /\ IsAfter(base, updates, time, all.value)
  BY <1>2, <1>3, AppliedIs
<1>5. QueueFits(emitted, overNone, all, <<>>)
  <2>1. Len(updates) + 1 \in 1 .. Len(updates) + 1 /\ Len(updates) + 1 - 1 = Len(updates)
    BY <1>2
  <2>2. SubSeq(updates, 1, Len(updates)) = updates
        /\ SubSeq(updates, Len(updates) + 1, Len(updates)) = <<>>
    BY <1>2, SubSeqFull, SubSeqEmpty
  <2> DEFINE f == Len(updates) + 1
  <2>3. f \in 1 .. Len(updates) + 1 /\ f - 1 = Len(updates)
    BY <2>1
  <2>4. SubSeq(updates, f, Len(updates)) = <<>>
    BY <2>2
  <2> HIDE DEF f
  <2>5. all = Applied(base, SubSeq(updates, 1, f - 1), time)
    BY <2>2, <2>3
  <2> HIDE DEF all
  <2>6. QueueFits(emitted, overNone, all, SubSeq(updates, f, Len(updates)))
    BY <1>3, <2>3, <2>5, RestFits
  <2> QED  BY <2>4, <2>6
<1> HIDE DEF all
<1>6. /\ derived \in SubscriptionState /\ derived.source = source
      /\ Past(emitted, derived.value) /\ QueueFits(emitted, overNone, derived, <<>>)
      /\ source = base.source => derived = all
      /\ source # base.source => RightFor(emitted, overNone, source, derived.value)
  <2>1. CASE source = base.source
    BY <1>4, <1>5, <2>1 DEF getDerivedStateFromProps, QueueFits
  <2>2. CASE source # base.source
    <3>1. derived = initialState(source)
      BY <1>4, <2>2 DEF getDerivedStateFromProps
    <3> HIDE DEF derived
    <3> QED  BY <2>2, <3>1, InitialFits
  <2> QED  BY <2>1, <2>2
<1> HIDE DEF derived
<1>7. kept \subseteq 1 .. Len(updates) /\ kept \subseteq Nat
  BY <1>2
<1>8. first \in 1 .. Len(updates) + 1
      /\ \A i \in 1 .. first - 1 : i \in 1 .. Len(updates) /\ updates[i].time >= time
  <2>1. CASE kept = {}
    BY <1>2, <1>3, <2>1
  <2>2. CASE kept # {}
    <3>1. first = Min(kept)
      BY <2>2
    <3> HIDE DEF first
    <3>2. first \in kept /\ \A i \in kept : first <= i
      BY <1>7, <2>2, <3>1, MinOfPositions
    <3>3. first \in 1 .. Len(updates)
      BY <1>7, <3>2
    <3>4. ASSUME NEW i \in 1 .. first - 1
          PROVE  i \in 1 .. Len(updates) /\ updates[i].time >= time
      <4>1. i \in 1 .. Len(updates) /\ i < first
        BY <1>2, <3>3
      <4>2. i \notin kept
        BY <1>7, <3>2, <3>3, <4>1
      <4> QED  BY <1>2, <1>3, <4>1, <4>2
    <3> QED  BY <1>2, <3>3, <3>4
  <2> QED  BY <2>1, <2>2
<1>9. kept # {} => first \in 1 .. Len(updates)
  BY <1>2, <1>7, MinOfPositions
<1> DEFINE workTime0 == IF kept = {} THEN 0 ELSE Max({updates[i].time : i \in kept})
<1>10. workTime0 \in 0 .. MaxUpdateTime /\ (workTime0 = 0 => kept = {})
  <2>1. CASE kept = {}
    BY <1>3, <2>1
  <2>2. CASE kept # {}
    <3> DEFINE times == {updates[i].time : i \in kept}
    <3>0. \A i \in kept : updates[i].time \in 1 .. MaxUpdateTime
      BY <1>2, <1>7 DEF SubscriptionUpdate
    <3>1. times \subseteq 1 .. MaxUpdateTime /\ times # {}
      BY <2>2, <3>0
    <3> HIDE DEF times
    <3>2. Max(times) \in times
      BY <3>1, MaxOfUpdateTimes
    <3>3. Max(times) \in 1 .. MaxUpdateTime
      BY <3>1, <3>2
    <3> QED  BY <1>3, <2>2, <3>3 DEF times
  <2> QED  BY <2>1, <2>2
<1> HIDE DEF kept, first, done, workTime0
<1>11. /\ QueueFits(emitted, overNone, mid, left) /\ mid.source = base.source
       /\ Len(left) = Len(updates) - first + 1
  <2>1. time \in Nat /\ first \in 1 .. Len(updates) + 1
    BY <1>3, <1>8
  <2> QED  BY <2>1, RestFits
<1>12. kept = {} => left = <<>>
  BY <1>2, SubSeqEmpty DEF first
<1>13. kept # {} => left # <<>>
  <2>1. Len(<<>>) = 0
    BY EmptySeq
  <2>2. kept # {} => Len(left) # 0
    BY <1>2, <1>9, <1>11
  <2> QED  BY <2>1, <2>2
<1> HIDE DEF left, mid
<1>14. /\ done.state = derived /\ done.updates = left /\ done.source = source
       /\ done.base = (IF kept = {} THEN derived ELSE mid) /\ done.workTime = workTime0
  BY <1>1 DEF workTime0
<1>15. done \in Rendered
  <2>1. left \in Seq(SubscriptionUpdate) /\ mid \in SubscriptionState
    BY <1>11 DEF QueueFits
  <2>2. done = [state |-> derived, updates |-> left, source |-> source,
                base |-> IF kept = {} THEN derived ELSE mid, workTime |-> workTime0]
    BY <1>1 DEF workTime0
  <2>3. (IF kept = {} THEN derived ELSE mid) \in SubscriptionState
    BY <1>6, <2>1
  <2> QED  BY <1>6, <1>10, <2>1, <2>2, <2>3 DEF Rendered
<1>16. QueueFits(emitted, overNone, done.base, done.updates)
  BY <1>6, <1>11, <1>12, <1>14
<1>17. /\ done.updates = <<>> => done.base = done.state
       /\ done.workTime = 0 => done.updates = <<>>
  BY <1>10, <1>12, <1>13, <1>14
<1>18. ASSUME same \/ done.state.value = CurrentOf(emitted, done.source)
       PROVE  OnTrack(emitted, overNone, done.base, done.updates, done.source)
  <2>1. same \/ derived.value = CurrentOf(emitted, source)
    BY <1>14, <1>18
  <2>2. CASE source = NoSource
    BY <1>14, <1>16, <2>2, NoneTracks
  <2>3. CASE source # base.source
    <3>1. CASE kept = {}
      <4>1. RightFor(emitted, overNone, source, derived.value)
        BY <1>6, <2>3
      <4>2. OnTrack(emitted, overNone, derived, <<>>, source)
        BY <4>1, EmptyTracks
      <4> QED  BY <1>12, <1>14, <3>1, <4>2
    <3>2. CASE kept # {}
      <4>1. done.base.source # source
        BY <1>11, <1>14, <2>3, <3>2
      <4> QED  BY <1>14, <4>1 DEF OnTrack
    <3> QED  BY <3>1, <3>2
  <2>4. CASE source = base.source /\ source # NoSource
    <3>1. OnTrack(emitted, overNone, base, updates, source)
      <4>1. CASE same
        BY <4>1
      <4>2. CASE ~same
        <5>1. IsAfter(base, updates, time, CurrentOf(emitted, base.source)) /\ base.source \in Source
          BY <1>4, <1>6, <2>1, <2>4, <4>2
        <5> QED  BY <2>4, <5>1, SkippedAgree
      <4> QED  BY <4>1, <4>2
    <3>2. \A v \in Values : IsAfter(base, updates, 0, v) => RightFor(emitted, overNone, source, v)
      BY <2>4, <3>1 DEF OnTrack
    <3>3. CASE kept = {}
      <4>1. \A i \in 1 .. Len(updates) : updates[i].time >= time
        BY <1>2, <1>3, <3>3 DEF kept
      <4>2. IsAfter(base, updates, 0, all.value)
        BY <1>2, <1>3, <1>4, <4>1, AllCount
      <4>3. all.value \in Values
        BY <1>4 DEF SubscriptionState
      <4>4. RightFor(emitted, overNone, source, derived.value)
        BY <1>6, <2>4, <3>2, <4>2, <4>3
      <4>5. OnTrack(emitted, overNone, derived, <<>>, source)
        BY <4>4, EmptyTracks
      <4> QED  BY <1>12, <1>14, <3>3, <4>5
    <3>4. CASE kept # {}
      <4>1. first \in 1 .. Len(updates) /\ time \in Nat
            /\ \A i \in 1 .. first - 1 : updates[i].time >= time
        BY <1>3, <1>8, <1>9, <3>4
      <4>2. ASSUME NEW v \in Values, IsAfter(mid, left, 0, v)
            PROVE  RightFor(emitted, overNone, source, v)
        <5>1. IsAfter(Applied(base, SubSeq(updates, 1, first - 1), time),
                      SubSeq(updates, first, Len(updates)), 0, v)
          BY <4>2 DEF mid, left
        <5>2. IsAfter(base, updates, 0, v)
          BY <1>2, <4>1, <5>1, RestCounts
        <5> QED  BY <3>2, <5>2
      <4>3. OnTrack(emitted, overNone, mid, left, source)
        BY <4>2 DEF OnTrack
      <4> QED  BY <1>14, <3>4, <4>3
    <3> QED  BY <3>3, <3>4
  <2> QED  BY <2>2, <2>3, <2>4
<1>19. done.state.source = done.source /\ Past(emitted, done.state.value)
  BY <1>6, <1>14
<1> QED  BY <1>15, <1>16, <1>17, <1>18, <1>19 DEF DoneFits, done

-----------------------------------------------------------------------------
(***************************************************************************)
(* Subscriptions: emitting and committing.                                 *)
(***************************************************************************)
Emission(counts, s, time) == [time |-> time, source |-> s, value |-> <<s, counts[s] + 1>>]
EmittedBy(counts, s) == [counts EXCEPT ![s] = @ + 1]

LEMMA EmissionFits ==
  ASSUME NEW counts \in [Source -> Nat], NEW over \in BOOLEAN, NEW state, NEW queue,
         QueueFits(counts, over, state, queue), NEW s \in Source, NEW time \in 1 .. MaxUpdateTime,
         NEW after, after = EmittedBy(counts, s), NEW u, u = Emission(counts, s, time)
  PROVE  /\ after \in [Source -> Nat] /\ u \in SubscriptionUpdate
         /\ after[s] = counts[s] + 1 /\ \A r \in Source \ {s} : after[r] = counts[r]
         /\ QueueFits(after, over, state, queue)
         /\ QueueFits(after, over, state, Append(queue, u))
<1>1. /\ after \in [Source -> Nat] /\ after[s] = counts[s] + 1
      /\ \A r \in Source \ {s} : after[r] = counts[r]
  BY DEF EmittedBy
<1>2. u \in SubscriptionUpdate /\ UpdateOK(u) /\ u.value = <<s, after[s]>>
      /\ u.source \in Source /\ u.source # AnySource
  <2>1. <<s, counts[s] + 1>> \in Values /\ <<s, counts[s] + 1>> \in {s} \X Nat
    BY DEF Values
  <2>2. s # AnySource
    BY SubscriptionAssumption
  <2> QED  BY <1>1, <2>1, <2>2 DEF Emission, SubscriptionUpdate, UpdateOK
<1>3. \A r \in Source : counts[r] <= after[r]
  BY <1>1
<1> HIDE DEF EmittedBy
<1>4. QueueFits(after, over, state, queue)
  BY <1>1, <1>3, FitsLater
<1>5. QueueFits(after, over, state, Append(queue, u))
  BY <1>1, <1>2, <1>4, LatestFits
<1> QED  BY <1>1, <1>2, <1>4, <1>5

LEMMA EmissionTracks ==
  ASSUME NEW counts \in [Source -> Nat], NEW over \in BOOLEAN, NEW state, NEW queue,
         QueueFits(counts, over, state, queue), NEW s \in Source, NEW time \in 1 .. MaxUpdateTime,
         NEW after, after = EmittedBy(counts, s), NEW u, u = Emission(counts, s, time),
         NEW r \in Source \cup {NoSource}
  PROVE  /\ r # s \/ r \notin Readable => CurrentOf(after, r) = CurrentOf(counts, r)
         /\ (r # s \/ r \notin Readable) /\ OnTrack(counts, over, state, queue, r) =>
              OnTrack(after, over, state, queue, r)
         /\ r = s \/ OnTrack(counts, over, state, queue, r) =>
              OnTrack(after, over, state, Append(queue, u), r)
<1>1. /\ after \in [Source -> Nat] /\ u \in SubscriptionUpdate /\ after[s] = counts[s] + 1
      /\ \A q \in Source \ {s} : after[q] = counts[q]
  BY EmissionFits
<1>2. ASSUME r # s \/ r \notin Readable
      PROVE  CurrentOf(after, r) = CurrentOf(counts, r)
  BY <1>1, <1>2, SubscriptionAssumption DEF CurrentOf
<1>3. ASSUME r # s \/ r \notin Readable, OnTrack(counts, over, state, queue, r)
      PROVE  OnTrack(after, over, state, queue, r)
  BY <1>2, <1>3, TracksLater
<1>4. state \in SubscriptionState /\ queue \in Seq(SubscriptionUpdate)
  BY DEF QueueFits
<1>5. u.source = s /\ u.value = <<s, after[s]>> /\ s # AnySource
  BY <1>1, SubscriptionAssumption DEF Emission
<1>6. CASE r = s
  <2>1. RightFor(after, over, s, u.value)
    BY <1>5 DEF RightFor, CurrentOf
  <2>2. OnTrack(after, over, state, Append(queue, u), r)
    BY <1>1, <1>4, <1>5, <1>6, <2>1, AddedTracks
  <2> QED  BY <1>2, <1>3, <2>2
<1>7. CASE r # s
  <2>1. ASSUME OnTrack(counts, over, state, queue, r)
        PROVE  OnTrack(after, over, state, Append(queue, u), r)
    <3>1. OnTrack(after, over, state, queue, r) /\ u.source \notin {AnySource, r}
      BY <1>3, <1>5, <1>7, <2>1
    <3> QED  BY <1>1, <1>4, <3>1, AddedTracks
  <2> QED  BY <1>2, <1>3, <1>7, <2>1
<1> QED  BY <1>6, <1>7

\* What was rendered, when a source that it is subscribed to emits, and another one.
LEMMA DoneAppended ==
  ASSUME NEW counts \in [Source -> Nat], NEW over \in BOOLEAN, NEW done, NEW same \in BOOLEAN,
         DoneFits(counts, over, done, same), NEW s \in Source, NEW time \in 1 .. MaxUpdateTime,
         NEW after, after = EmittedBy(counts, s), NEW u, u = Emission(counts, s, time),
         NEW later, later = [done EXCEPT !.updates = Append(@, u),
                                         !.workTime = IF @ < time THEN time ELSE @]
  PROVE  DoneFits(after, over, later, same)
<1>1. /\ done \in Rendered /\ done.state.source = done.source /\ Past(counts, done.state.value)
      /\ QueueFits(counts, over, done.base, done.updates)
      /\ same \/ done.state.value = CurrentOf(counts, done.source) =>
           OnTrack(counts, over, done.base, done.updates, done.source)
  BY DEF DoneFits
<1>2. /\ done.source \in Source \cup {NoSource} /\ done.state \in SubscriptionState
      /\ done.base \in SubscriptionState /\ done.updates \in Seq(SubscriptionUpdate)
      /\ done.workTime \in 0 .. MaxUpdateTime /\ time \in 1 .. MaxUpdateTime
      /\ MaxUpdateTime \in Nat
  BY <1>1, SubscriptionAssumption DEF Rendered
<1>3. /\ after \in [Source -> Nat] /\ u \in SubscriptionUpdate
      /\ QueueFits(after, over, done.base, Append(done.updates, u))
      /\ \A q \in Source : counts[q] <= after[q]
  <2>1. /\ after \in [Source -> Nat] /\ u \in SubscriptionUpdate
        /\ after[s] = counts[s] + 1 /\ \A q \in Source \ {s} : after[q] = counts[q]
        /\ QueueFits(after, over, done.base, Append(done.updates, u))
    BY <1>1, EmissionFits
  <2> QED  BY <2>1
<1>4. Past(after, done.state.value)
  <2>1. done.state.value \in Values
    BY <1>2 DEF SubscriptionState
  <2> QED  BY <1>1, <1>3, <2>1, PastLater
<1>5. Append(done.updates, u) \in Seq(SubscriptionUpdate) /\ Append(done.updates, u) # <<>>
  <2>1. /\ Append(done.updates, u) \in Seq(SubscriptionUpdate)
        /\ Len(Append(done.updates, u)) = Len(done.updates) + 1 /\ Len(done.updates) \in Nat
    BY <1>2, <1>3, AppendProperties, LenProperties
  <2>2. Len(<<>>) = 0
    BY EmptySeq
  <2> QED  BY <2>1, <2>2
<1>6. /\ later \in Rendered /\ later.state = done.state /\ later.source = done.source
      /\ later.base = done.base /\ later.updates = Append(done.updates, u)
      /\ later.workTime # 0
  <2> DEFINE t == IF done.workTime < time THEN time ELSE done.workTime
             all == Append(done.updates, u)
  <2>1. t \in 0 .. MaxUpdateTime /\ t # 0
    BY <1>2
  <2>2. later = [state |-> done.state, updates |-> all, source |-> done.source,
                 base |-> done.base, workTime |-> t]
    BY <1>1 DEF Rendered
  <2>3. all \in Seq(SubscriptionUpdate)
    BY <1>5
  <2> HIDE DEF t, all
  <2>4. later \in Rendered
    BY <1>2, <2>1, <2>2, <2>3 DEF Rendered
  <2> QED  BY <2>1, <2>2, <2>4 DEF all
<1>7. ASSUME same \/ done.state.value = CurrentOf(after, done.source)
      PROVE  OnTrack(after, over, done.base, Append(done.updates, u), done.source)
  <2>1. CASE done.source = s
    BY <1>1, <1>2, <2>1, EmissionTracks
  <2>2. CASE done.source # s
    <3>1. CurrentOf(after, done.source) = CurrentOf(counts, done.source)
      BY <1>1, <1>2, <2>2, EmissionTracks
    <3>2. OnTrack(counts, over, done.base, done.updates, done.source)
      BY <1>1, <1>7, <3>1
    <3> QED  BY <1>1, <1>2, <3>2, EmissionTracks
  <2> QED  BY <2>1, <2>2
<1> QED  BY <1>1, <1>3, <1>4, <1>5, <1>6, <1>7 DEF DoneFits

LEMMA DoneKept ==
  ASSUME NEW counts \in [Source -> Nat], NEW over \in BOOLEAN, NEW done, NEW same \in BOOLEAN,
         DoneFits(counts, over, done, same), NEW s \in Source, same => done.source # s,
         NEW after, after = EmittedBy(counts, s)
  PROVE  DoneFits(after, over, done, same)
<1>1. /\ done \in Rendered /\ done.state.source = done.source /\ Past(counts, done.state.value)
      /\ QueueFits(counts, over, done.base, done.updates)
      /\ same \/ done.state.value = CurrentOf(counts, done.source) =>
           OnTrack(counts, over, done.base, done.updates, done.source)
      /\ done.updates = <<>> => done.base = done.state
      /\ done.workTime = 0 => done.updates = <<>>
  BY DEF DoneFits
<1>2. /\ done.source \in Source \cup {NoSource} /\ done.state \in SubscriptionState
      /\ MaxUpdateTime \in 1 .. MaxUpdateTime
  BY <1>1, SubscriptionAssumption DEF Rendered
<1> DEFINE u == Emission(counts, s, MaxUpdateTime)
<1>3. /\ after \in [Source -> Nat] /\ QueueFits(after, over, done.base, done.updates)
      /\ after[s] = counts[s] + 1 /\ \A q \in Source \ {s} : after[q] = counts[q]
  <2> HIDE DEF u
  <2>1. \A v : v = u => v = Emission(counts, s, MaxUpdateTime)
    BY DEF u
  <2> QED  BY <1>1, <1>2, <2>1, EmissionFits
<1>4. Past(after, done.state.value)
  <2>1. done.state.value \in Values /\ \A q \in Source : counts[q] <= after[q]
    BY <1>2, <1>3 DEF SubscriptionState
  <2> QED  BY <1>1, <1>3, <2>1, PastLater
<1>5. ASSUME same \/ done.state.value = CurrentOf(after, done.source)
      PROVE  OnTrack(after, over, done.base, done.updates, done.source)
  <2>1. done.source # s \/ done.source \notin Readable
    <3>1. ASSUME done.source = s, s \in Readable
          PROVE  FALSE
      <4>1. done.state.value = <<s, counts[s] + 1>>
        BY <1>3, <1>5, <3>1 DEF CurrentOf
      <4>2. counts[s] + 1 <= counts[s]
        BY <1>1, <4>1 DEF Past
      <4> QED  BY <4>2
    <3> QED  BY <3>1
  <2>2. CurrentOf(after, done.source) = CurrentOf(counts, done.source)
    BY <1>3, <1>2, <2>1, SubscriptionAssumption DEF CurrentOf
  <2>3. OnTrack(counts, over, done.base, done.updates, done.source)
    BY <1>1, <1>5, <2>2
  <2> QED  BY <2>2, <2>3, TracksLater
<1> QED  BY <1>1, <1>3, <1>4, <1>5 DEF DoneFits

LEMMA JoinedUpdates ==
  ASSUME NEW S, NEW r \in S, NEW a \in S, NEW q \in Seq(S)
  PROVE  /\ <<>> \o <<>> = <<>> /\ q \o <<>> = q
         /\ <<r>> \o <<>> # <<>> /\ q \o (<<r>> \o <<>>) = Append(q, r) /\ Append(q, r) # <<>>
         /\ <<>> \o <<a>> # <<>> /\ q \o (<<>> \o <<a>>) = Append(q, a) /\ Append(q, a) # <<>>
         /\ <<r>> \o <<a>> # <<>> /\ q \o (<<r>> \o <<a>>) = Append(Append(q, r), a)
         /\ Append(Append(q, r), a) # <<>>
         /\ \E i \in DOMAIN (<<r>> \o <<a>>) : (<<r>> \o <<a>>)[i] = a
         /\ \E i \in DOMAIN (<<>> \o <<a>>) : (<<>> \o <<a>>)[i] = a
<1>1. <<r>> \in Seq(S) /\ <<a>> \in Seq(S) /\ <<>> \in Seq(S) /\ Len(<<>>) = 0
      /\ Len(<<r>>) = 1 /\ Len(<<a>>) = 1 /\ <<a>>[1] = a /\ DOMAIN <<a>> = 1 .. 1
  BY EmptySeq
<1>2. <<>> \o <<>> = <<>> /\ q \o <<>> = q /\ <<r>> \o <<>> = <<r>> /\ <<>> \o <<a>> = <<a>>
  BY <1>1, ConcatEmptySeq
<1>3. /\ Append(q, r) \in Seq(S) /\ Append(q, r) = q \o <<r>> /\ Append(q, a) = q \o <<a>>
      /\ Len(Append(q, r)) = Len(q) + 1 /\ Len(Append(q, a)) = Len(q) + 1 /\ Len(q) \in Nat
  BY AppendIsConcat, AppendProperties, LenProperties
<1>4. /\ Append(Append(q, r), a) = (q \o <<r>>) \o <<a>>
      /\ Len(Append(Append(q, r), a)) = Len(q) + 2
  BY <1>3, AppendIsConcat, AppendProperties
<1>5. (q \o <<r>>) \o <<a>> = q \o (<<r>> \o <<a>>)
  BY <1>1, ConcatAssociative
<1> DEFINE both == <<r>> \o <<a>>
<1>6. both \in Seq(S) /\ Len(both) = 2 /\ both[2] = a
  BY <1>1, ConcatProperties
<1> HIDE DEF both
<1>7. DOMAIN both = 1 .. 2
  BY <1>6, LenProperties
<1>8. Append(q, r) # <<>> /\ Append(q, a) # <<>> /\ Append(Append(q, r), a) # <<>>
      /\ <<r>> # <<>> /\ <<a>> # <<>> /\ both # <<>>
  <2>1. <<r>> # <<>> /\ <<a>> # <<>> /\ both # <<>>
    BY <1>1, <1>6
  <2>2. Append(q, r) # <<>> /\ Append(q, a) # <<>>
    BY <1>1, <1>3
  <2>3. Append(Append(q, r), a) # <<>>
    BY <1>1, <1>3, <1>4
  <2> QED  BY <2>1, <2>2, <2>3
<1>9. 2 \in DOMAIN both /\ 1 \in DOMAIN <<a>>
  BY <1>1, <1>7
<1> QED  BY <1>1, <1>2, <1>3, <1>4, <1>5, <1>6, <1>8, <1>9 DEF both

LEMMA SubscribedTracks ==
  ASSUME emitted \in [Source -> Nat], NEW over \in BOOLEAN, NEW state, NEW q,
         QueueFits(emitted, over, state, q), NEW s \in Source,
         NEW r \in SubscriptionUpdate, UpdateOK(r), r.source = s, r.value = <<s, emitted[s]>>,
         NEW a \in SubscriptionUpdate, UpdateOK(a), a.source = AnySource,
         a.value = CurrentOf(emitted, s)
  PROVE  /\ QueueFits(emitted, over, state, Append(q, r))
         /\ OnTrack(emitted, over, state, Append(q, r), s)
         /\ over \/ state.source # NoSource =>
              /\ QueueFits(emitted, over, state, Append(q, a))
              /\ OnTrack(emitted, over, state, Append(q, a), s)
              /\ QueueFits(emitted, over, state, Append(Append(q, r), a))
              /\ OnTrack(emitted, over, state, Append(Append(q, r), a), s)
<1>1. s # AnySource /\ state \in SubscriptionState /\ q \in Seq(SubscriptionUpdate)
  BY SubscriptionAssumption DEF QueueFits
<1>2. RightFor(emitted, over, s, r.value) /\ RightFor(emitted, over, s, a.value)
  BY DEF RightFor, CurrentOf, Undefined
<1>3. a.value = Undefined \/ \E p \in Source : a.value = <<p, emitted[p]>>
  BY DEF CurrentOf
<1>4. QueueFits(emitted, over, state, Append(q, r)) /\ Append(q, r) \in Seq(SubscriptionUpdate)
  <2>1. QueueFits(emitted, over, state, Append(q, r))
    BY <1>1, LatestFits
  <2> QED  BY <2>1 DEF QueueFits
<1>5. OnTrack(emitted, over, state, Append(q, r), s)
  <2>1. IF r.source \in {AnySource, s} THEN RightFor(emitted, over, s, r.value)
        ELSE OnTrack(emitted, over, state, q, s)
    BY <1>2
  <2> QED  BY <1>1, <2>1, AddedTracks
<1>6. ASSUME NEW first \in {q, Append(q, r)}, over \/ state.source # NoSource
      PROVE  /\ QueueFits(emitted, over, state, Append(first, a))
             /\ OnTrack(emitted, over, state, Append(first, a), s)
  <2>1. first \in Seq(SubscriptionUpdate) /\ QueueFits(emitted, over, state, first)
    BY <1>1, <1>4, <1>6
  <2>2. QueueFits(emitted, over, state, Append(first, a))
    BY <1>3, <1>6, <2>1, LatestFits
  <2>3. IF a.source \in {AnySource, s} THEN RightFor(emitted, over, s, a.value)
        ELSE OnTrack(emitted, over, state, first, s)
    BY <1>2
  <2>4. OnTrack(emitted, over, state, Append(first, a), s)
    BY <1>1, <2>1, <2>3, AddedTracks
  <2> QED  BY <2>2, <2>4
<1> QED  BY <1>4, <1>5, <1>6

\* What a commit leaves, with the updates that subscribe() makes.
Subscribing(done, same) ==
  IF ~same /\ done.source # NoSource THEN fromSubscribe(done.state) ELSE <<>>

LEMMA CommitFits ==
  ASSUME emitted \in [Source -> Nat], overNone \in BOOLEAN, NEW done, NEW same \in BOOLEAN,
         DoneFits(emitted, overNone, done, same), NEW new, new = Subscribing(done, same),
         NEW over \in BOOLEAN, overNone => over,
         \A i \in DOMAIN new : new[i].source = AnySource => over \/ done.base.source # NoSource,
         NEW queue, queue = done.updates \o new
  PROVE  /\ QueueFits(emitted, over, done.base, queue)
         /\ OnTrack(emitted, over, done.base, queue, done.source)
         /\ queue = <<>> => done.base = done.state
         /\ new = <<>> /\ done.workTime = 0 => queue = <<>>
<1>1. /\ done \in Rendered /\ done.state.source = done.source /\ Past(emitted, done.state.value)
      /\ QueueFits(emitted, overNone, done.base, done.updates)
      /\ same \/ done.state.value = CurrentOf(emitted, done.source) =>
           OnTrack(emitted, overNone, done.base, done.updates, done.source)
      /\ done.updates = <<>> => done.base = done.state
      /\ done.workTime = 0 => done.updates = <<>>
  BY DEF DoneFits
<1>2. /\ done.source \in Source \cup {NoSource} /\ done.base \in SubscriptionState
      /\ done.updates \in Seq(SubscriptionUpdate) /\ over \in BOOLEAN
      /\ overNone => over
  BY <1>1 DEF Rendered
<1>3. QueueFits(emitted, over, done.base, done.updates)
  <2>1. \A s \in Source : emitted[s] <= emitted[s]
    OBVIOUS
  <2> QED  BY <1>1, <1>2, <2>1, FitsLater
<1> DEFINE s == done.source
           r == [time |-> MaxUpdateTime, source |-> s, value |-> lastValue(s)]
           a == [time |-> MaxUpdateTime, source |-> AnySource, value |-> getCurrentValue(s)]
           replays == s \in Replaying /\ emitted[s] > 0
           differs == getCurrentValue(s) # done.state.value
<1>4. ASSUME s \in Source
      PROVE  /\ r \in SubscriptionUpdate /\ UpdateOK(r) /\ r.value = <<s, emitted[s]>>
             /\ r.source = s /\ RightFor(emitted, over, s, r.value)
             /\ a \in SubscriptionUpdate /\ UpdateOK(a) /\ a.source = AnySource
             /\ a.value = CurrentOf(emitted, s) /\ RightFor(emitted, over, s, a.value)
             /\ a.value = Undefined \/ \E q \in Source : a.value = <<q, emitted[q]>>
             /\ fromSubscribe(done.state)
                  = (IF replays THEN <<r>> ELSE <<>>) \o (IF differs THEN <<a>> ELSE <<>>)
  <2>1. /\ MaxUpdateTime \in 1 .. MaxUpdateTime /\ <<s, emitted[s]>> \in Values
        /\ <<s, emitted[s]>> \in {s} \X Nat /\ Undefined \in Values /\ AnySource \notin Source
        /\ s # AnySource
    BY <1>4, SubscriptionAssumption DEF Values
  <2>2. /\ r \in SubscriptionUpdate /\ UpdateOK(r) /\ r.value = <<s, emitted[s]>>
        /\ r.source = s /\ RightFor(emitted, over, s, r.value)
    BY <1>4, <2>1 DEF SubscriptionUpdate, UpdateOK, lastValue, RightFor, CurrentOf
  <2>3. /\ a \in SubscriptionUpdate /\ UpdateOK(a) /\ a.source = AnySource
        /\ a.value = CurrentOf(emitted, s) /\ RightFor(emitted, over, s, a.value)
        /\ a.value = Undefined \/ \E q \in Source : a.value = <<q, emitted[q]>>
    BY <1>4, <2>1 DEF SubscriptionUpdate, UpdateOK, getCurrentValue, lastValue, RightFor,
                      CurrentOf, Undefined
  <2>4. fromSubscribe(done.state)
          = (IF replays THEN <<r>> ELSE <<>>) \o (IF differs THEN <<a>> ELSE <<>>)
    BY <1>1 DEF fromSubscribe
  <2> QED  BY <2>2, <2>3, <2>4
<1>5. ~differs <=> done.state.value = CurrentOf(emitted, s)
  BY DEF getCurrentValue, lastValue, CurrentOf
<1> HIDE DEF r, a, replays, differs
<1>6. CASE same \/ s = NoSource
  <2>1. new = <<>>
    BY <1>6 DEF Subscribing
  <2>2. done.updates \o <<>> = done.updates
    BY <1>2, ConcatEmptySeq
  <2>3. queue = done.updates
    BY <2>1, <2>2
  <2>4. OnTrack(emitted, over, done.base, queue, s)
    <3>1. CASE s = NoSource
      BY <1>2, <1>3, <2>3, <3>1, NoneTracks
    <3>2. CASE same
      BY <1>1, <1>2, <2>3, <3>2, TracksLater
    <3> QED  BY <1>6, <3>1, <3>2
  <2> QED  BY <1>1, <1>2, <1>3, <2>3, <2>4
<1>7. CASE ~same /\ s # NoSource
  <2>1. s \in Source
    BY <1>2, <1>7
  <2>2. new = (IF replays THEN <<r>> ELSE <<>>) \o (IF differs THEN <<a>> ELSE <<>>)
    BY <1>4, <1>7, <2>1 DEF Subscribing
  <2>3. /\ r \in SubscriptionUpdate /\ UpdateOK(r) /\ r.source = s /\ r.value = <<s, emitted[s]>>
        /\ a \in SubscriptionUpdate /\ UpdateOK(a) /\ a.source = AnySource
        /\ a.value = CurrentOf(emitted, s)
    BY <1>4, <2>1
  <2> DEFINE q == done.updates
             Fits(all) == /\ QueueFits(emitted, over, done.base, all)
                          /\ OnTrack(emitted, over, done.base, all, s)
  <2>4. /\ Fits(Append(q, r))
        /\ over \/ done.base.source # NoSource =>
             Fits(Append(q, a)) /\ Fits(Append(Append(q, r), a))
    BY <1>2, <1>3, <2>1, <2>3, SubscribedTracks
  <2>5. /\ <<>> \o <<>> = <<>> /\ q \o <<>> = q
        /\ <<r>> \o <<>> # <<>> /\ q \o (<<r>> \o <<>>) = Append(q, r) /\ Append(q, r) # <<>>
        /\ <<>> \o <<a>> # <<>> /\ q \o (<<>> \o <<a>>) = Append(q, a) /\ Append(q, a) # <<>>
        /\ <<r>> \o <<a>> # <<>> /\ q \o (<<r>> \o <<a>>) = Append(Append(q, r), a)
        /\ Append(Append(q, r), a) # <<>>
        /\ \E i \in DOMAIN (<<r>> \o <<a>>) : (<<r>> \o <<a>>)[i] = a
        /\ \E i \in DOMAIN (<<>> \o <<a>>) : (<<>> \o <<a>>)[i] = a
    <3>1. r \in SubscriptionUpdate /\ a \in SubscriptionUpdate /\ q \in Seq(SubscriptionUpdate)
      BY <1>2, <2>3
    <3> HIDE DEF q
    <3> QED  BY <3>1, JoinedUpdates, Zenon
  <2>6. ASSUME NEW i \in DOMAIN new, new[i] = a
        PROVE  over \/ done.base.source # NoSource
    BY <2>3, <2>6
  <2> HIDE DEF Fits, q
  <2>7. CASE replays /\ differs
    <3>1. new = <<r>> \o <<a>>
      BY <2>2, <2>7
    <3>2. Fits(queue) /\ queue # <<>> /\ new # <<>>
      BY <2>4, <2>5, <2>6, <3>1 DEF q
    <3> QED  BY <1>2, <3>2 DEF Fits
  <2>8. CASE replays /\ ~differs
    <3>1. new = <<r>> \o <<>>
      BY <2>2, <2>8
    <3>2. Fits(queue) /\ queue # <<>> /\ new # <<>>
      BY <2>4, <2>5, <3>1 DEF q
    <3> QED  BY <1>2, <3>2 DEF Fits
  <2>9. CASE ~replays /\ differs
    <3>1. new = <<>> \o <<a>>
      BY <2>2, <2>9
    <3>2. Fits(queue) /\ queue # <<>> /\ new # <<>>
      BY <2>4, <2>5, <2>6, <3>1 DEF q
    <3> QED  BY <1>2, <3>2 DEF Fits
  <2>10. CASE ~replays /\ ~differs
    <3>1. queue = done.updates
      BY <2>2, <2>5, <2>10 DEF q
    <3>2. OnTrack(emitted, overNone, done.base, done.updates, s)
      BY <1>1, <1>5, <2>10
    <3>3. OnTrack(emitted, over, done.base, done.updates, s)
      BY <1>2, <3>2, TracksLater
    <3> QED  BY <1>1, <1>2, <1>3, <3>1, <3>3
  <2> QED  BY <2>7, <2>8, <2>9, <2>10
<1> QED  BY <1>2, <1>6, <1>7

-----------------------------------------------------------------------------
(***************************************************************************)
(* Subscriptions: the invariant is inductive.                              *)
(***************************************************************************)
LEMMA SubscriptionInitInv ==
  ASSUME SubscriptionInit
  PROVE  SubscriptionInv
<1>1. Undefined \in Values /\ <<>> \in Seq(SubscriptionUpdate)
  BY EmptySeq DEF Values
<1>2. shown \in SubscriptionState
  BY <1>1 DEF SubscriptionInit, SubscriptionState
<1>3. emitted \in [Source -> Nat] /\ workTime \in 0 .. MaxUpdateTime
  BY SubscriptionAssumption DEF SubscriptionInit
<1>4. SubscriptionTypes
  BY <1>1, <1>2, <1>3 DEF SubscriptionInit, SubscriptionTypes
<1>5. NewSubscription /\ MountedSubscription /\ FinishedSubscription
  BY DEF SubscriptionInit, NewSubscription, MountedSubscription, FinishedSubscription
<1> QED  BY <1>4, <1>5 DEF SubscriptionInv

\* What a pending render has in it.
LEMMA FinishedIs ==
  ASSUME SubscriptionInv, finished # <<>>
  PROVE  /\ finished[1] \in Rendered /\ finished = <<finished[1]>>
         /\ lifecycle # "unmounted"
         /\ DoneFits(emitted, overNone, finished[1],
                     lifecycle = "mounted" /\ finished[1].source = shown.source)
<1>1. PICK done \in Rendered :
        /\ finished = <<done>>
        /\ DoneFits(emitted, overNone, done, lifecycle = "mounted" /\ done.source = shown.source)
  BY DEF SubscriptionInv, FinishedSubscription
<1>2. finished[1] = done
  BY <1>1
<1> QED  BY <1>1, <1>2 DEF SubscriptionInv, FinishedSubscription

LEMMA PendingTimesAre ==
  ASSUME SubscriptionInv
  PROVE  PendingTimes \subseteq 1 .. MaxUpdateTime
<1>1. wanted = <<>> \/ \E w \in [source : Source \cup {NoSource}, time : 1 .. MaxUpdateTime] :
                          wanted = <<w>>
  BY DEF SubscriptionInv, SubscriptionTypes
<1>2. {wanted[i].time : i \in DOMAIN wanted} \subseteq 1 .. MaxUpdateTime
  <2>1. CASE wanted = <<>>
    BY <2>1, EmptySeq
  <2>2. ASSUME NEW w \in [source : Source \cup {NoSource}, time : 1 .. MaxUpdateTime],
               wanted = <<w>>
        PROVE  {wanted[i].time : i \in DOMAIN wanted} \subseteq 1 .. MaxUpdateTime
    <3>1. \A i \in DOMAIN wanted : i = 1 /\ wanted[i] = w
      BY <2>2
    <3> QED  BY <3>1
  <2> QED  BY <1>1, <2>1, <2>2
<1>3. workTime \in 0 .. MaxUpdateTime
  BY DEF SubscriptionInv, SubscriptionTypes
<1> QED  BY <1>2, <1>3, SubscriptionAssumption DEF PendingTimes

LEMMA RenderInv ==
  ASSUME SubscriptionInv, render
  PROVE  SubscriptionInv'
<1>1. UNCHANGED <<emitted, parentSource, wanted, subscribed, shown, base, updates, workTime,
                  lifecycle, overNone>>
  BY DEF render
<1>2. SubscriptionTypes' /\ NewSubscription' /\ MountedSubscription'
  BY <1>1 DEF SubscriptionInv, SubscriptionTypes, NewSubscription, MountedSubscription
<1>3. /\ emitted \in [Source -> Nat] /\ overNone \in BOOLEAN /\ shown \in SubscriptionState
      /\ parentSource \in Source \cup {NoSource}
  BY DEF SubscriptionInv, SubscriptionTypes
<1>4. ASSUME NEW done, finished' = <<done>>, lifecycle # "unmounted",
             DoneFits(emitted, overNone, done, lifecycle = "mounted" /\ done.source = shown.source)
      PROVE  FinishedSubscription'
  BY <1>1, <1>4 DEF FinishedSubscription, DoneFits
<1>5. CASE lifecycle = "new"
  <2> DEFINE state == initialState(parentSource)
             done == [state |-> state, updates |-> <<>>, source |-> parentSource,
                      base |-> state, workTime |-> 0]
  <2>1. finished' = <<done>>
    BY <1>5 DEF render
  <2>2. /\ state \in SubscriptionState /\ state.source = parentSource
        /\ state.value = CurrentOf(emitted, parentSource) /\ Past(emitted, state.value)
        /\ RightFor(emitted, overNone, parentSource, state.value)
        /\ QueueFits(emitted, overNone, state, <<>>)
    <3>1. \A st : st = state => st = initialState(parentSource)
      OBVIOUS
    <3> HIDE DEF state
    <3> QED  BY <1>3, <3>1, InitialFits
  <2> HIDE DEF state
  <2>3. OnTrack(emitted, overNone, state, <<>>, parentSource)
    BY <2>2, EmptyTracks
  <2>4. done \in Rendered
    BY <1>3, <2>2, EmptySeq, SubscriptionAssumption DEF Rendered
  <2>5. DoneFits(emitted, overNone, done, lifecycle = "mounted" /\ done.source = shown.source)
    BY <2>2, <2>3, <2>4 DEF DoneFits
  <2> HIDE DEF done
  <2> QED  BY <1>2, <1>4, <1>5, <2>1, <2>5 DEF SubscriptionInv
<1>6. CASE lifecycle = "mounted"
  <2>1. PICK time, source :
          /\ PendingTimes # {} /\ time = Max(PendingTimes)
          /\ source = (IF wanted # <<>> /\ wanted[1].time = time THEN wanted[1].source
                       ELSE parentSource)
          /\ finished' = <<processed(time, source)>>
    BY <1>6 DEF render
  <2>2. time \in 1 .. MaxUpdateTime
    BY <2>1, PendingTimesAre, MaxOfUpdateTimes
  <2>3. source \in Source \cup {NoSource}
    <3>1. wanted # <<>> => wanted[1].source \in Source \cup {NoSource}
      BY DEF SubscriptionInv, SubscriptionTypes
    <3> QED  BY <1>3, <2>1, <3>1
  <2>4. /\ QueueFits(emitted, overNone, base, updates)
        /\ OnTrack(emitted, overNone, base, updates, shown.source)
    BY <1>6 DEF SubscriptionInv, MountedSubscription
  <2> DEFINE same == source = shown.source
             done == processed(time, source)
  <2>5. same => OnTrack(emitted, overNone, base, updates, source)
    BY <2>4
  <2>6. DoneFits(emitted, overNone, processed(time, source), same)
    <3>1. same \in BOOLEAN
      OBVIOUS
    <3> HIDE DEF same
    <3> QED  BY <1>3, <2>2, <2>3, <2>4, <2>5, <3>1, ProcessedIsFit
  <2>7. done.source = source
    BY DEF processed
  <2> HIDE DEF done
  <2>8. finished' = <<done>> /\ DoneFits(emitted, overNone, done, same)
    BY <2>1, <2>6 DEF done
  <2>9. DoneFits(emitted, overNone, done, lifecycle = "mounted" /\ done.source = shown.source)
    <3>1. (lifecycle = "mounted" /\ done.source = shown.source) = same
      BY <1>6, <2>7
    <3> HIDE DEF same
    <3> QED  BY <2>8, <3>1
  <2> QED  BY <1>2, <1>4, <1>6, <2>8, <2>9 DEF SubscriptionInv
<1> QED  BY <1>5, <1>6 DEF render

LEMMA CommitInv ==
  ASSUME SubscriptionInv, commit
  PROVE  SubscriptionInv'
<1> DEFINE done == finished[1]
           same == lifecycle = "mounted" /\ done.source = shown.source
           new == Subscribing(done, same)
<1>1. /\ finished # <<>> /\ done \in Rendered /\ lifecycle # "unmounted"
      /\ DoneFits(emitted, overNone, done, same)
  BY FinishedIs DEF commit
<1>2. /\ emitted \in [Source -> Nat] /\ overNone \in BOOLEAN /\ subscribed \subseteq Source
      /\ lifecycle \in {"new", "mounted", "unmounted"}
      /\ MaxUpdateTime \in Nat /\ MaxUpdateTime # 0
  BY SubscriptionAssumption DEF SubscriptionInv, SubscriptionTypes
<1>3. done.state.source = done.source
  BY <1>1 DEF DoneFits
<1>4. /\ done.source \in Source \cup {NoSource} /\ done.state \in SubscriptionState
      /\ done.base \in SubscriptionState /\ done.workTime \in 0 .. MaxUpdateTime
  BY <1>1 DEF Rendered
<1> DEFINE resubscribe == lifecycle = "new" \/ done.state.source # shown.source
           hasSource == done.state.source # NoSource
           made == IF resubscribe /\ hasSource THEN fromSubscribe(done.state) ELSE <<>>
<1>5. resubscribe <=> ~same
  BY <1>1, <1>2, <1>3
<1>6. made = new
  BY <1>3, <1>5 DEF Subscribing
<1>7. /\ shown' = done.state /\ base' = done.base /\ updates' = done.updates \o made
      /\ overNone' = (overNone \/ (done.base.source = NoSource
                                   /\ \E i \in DOMAIN made : made[i].source = AnySource))
      /\ workTime' = (IF made = <<>> THEN done.workTime ELSE MaxUpdateTime)
      /\ subscribed' = (IF resubscribe
                        THEN unsubscribe \cup (IF hasSource THEN {done.state.source} ELSE {})
                        ELSE subscribed)
      /\ parentSource' = done.source
      /\ wanted' = (IF wanted # <<>> /\ wanted[1].source = done.source THEN <<>> ELSE wanted)
      /\ finished' = <<>> /\ lifecycle' = "mounted" /\ emitted' = emitted
  BY DEF commit
<1> HIDE DEF made, done
<1>8. /\ overNone' \in BOOLEAN /\ (overNone => overNone')
      /\ \A i \in DOMAIN made : made[i].source = AnySource =>
           overNone' \/ done.base.source # NoSource
  BY <1>7
<1>9. /\ QueueFits(emitted, overNone', done.base, updates')
      /\ OnTrack(emitted, overNone', done.base, updates', done.source)
      /\ updates' = <<>> => done.base = done.state
      /\ made = <<>> /\ done.workTime = 0 => updates' = <<>>
  <2>1. same \in BOOLEAN
    OBVIOUS
  <2>2. made = Subscribing(done, same)
    BY <1>6
  <2>3. updates' = done.updates \o made
    BY <1>7
  <2> HIDE DEF same, new
  <2> QED  BY <1>1, <1>2, <1>8, <2>1, <2>2, <2>3, CommitFits
<1>10. done.source # NoSource => done.source \in subscribed'
  <2>1. CASE resubscribe
    BY <1>3, <1>7, <2>1
  <2>2. CASE ~resubscribe
    <3>1. lifecycle = "mounted" /\ done.source = shown.source
      BY <1>5, <2>2
    <3>2. shown.source # NoSource => shown.source \in subscribed
      BY <3>1 DEF SubscriptionInv, MountedSubscription
    <3> QED  BY <1>7, <2>2, <3>1, <3>2
  <2> QED  BY <2>1, <2>2
<1>11. subscribed' \subseteq Source
  BY <1>2, <1>3, <1>4, <1>7 DEF unsubscribe
<1>12. workTime' \in 0 .. MaxUpdateTime /\ (workTime' = 0 => updates' = <<>>)
  BY <1>2, <1>4, <1>7, <1>9
<1>13. \/ wanted' = <<>>
       \/ \E w \in [source : Source \cup {NoSource}, time : 1 .. MaxUpdateTime] : wanted' = <<w>>
  BY <1>7 DEF SubscriptionInv, SubscriptionTypes
<1>14. updates' \in Seq(SubscriptionUpdate)
  BY <1>9 DEF QueueFits
<1>15. SubscriptionTypes'
  BY <1>2, <1>4, <1>7, <1>8, <1>11, <1>12, <1>13, <1>14 DEF SubscriptionTypes
<1>16. MountedSubscription'
  BY <1>3, <1>7, <1>9, <1>10, <1>12 DEF MountedSubscription
<1>17. NewSubscription' /\ FinishedSubscription'
  BY <1>7 DEF NewSubscription, FinishedSubscription
<1> QED  BY <1>15, <1>16, <1>17 DEF SubscriptionInv

LEMMA EmitInv ==
  ASSUME SubscriptionInv, NEW s \in Source, NEW time \in 1 .. MaxUpdateTime, emit(s, time)
  PROVE  SubscriptionInv'
<1> DEFINE u == Emission(emitted, s, time)
<1>1. /\ emitted \in [Source -> Nat] /\ overNone \in BOOLEAN /\ subscribed \subseteq Source
      /\ lifecycle \in {"new", "mounted", "unmounted"} /\ workTime \in 0 .. MaxUpdateTime
      /\ shown \in SubscriptionState /\ updates \in Seq(SubscriptionUpdate)
      /\ MaxUpdateTime \in Nat
  BY SubscriptionAssumption DEF SubscriptionInv, SubscriptionTypes
<1>2. /\ emitted' = EmittedBy(emitted, s)
      /\ UNCHANGED <<parentSource, wanted, subscribed, shown, base, lifecycle, overNone>>
  BY DEF emit, EmittedBy
<1>3. shown.source \in Source \cup {NoSource}
  BY <1>1 DEF SubscriptionState
<1>4. emitted' \in [Source -> Nat] /\ u \in SubscriptionUpdate
  <2>1. <<s, emitted[s] + 1>> \in Values
    BY <1>1 DEF Values
  <2> QED  BY <1>1, <1>2, <2>1 DEF EmittedBy, Emission, SubscriptionUpdate
<1> HIDE DEF u
<1>5. CASE s \in subscribed /\ lifecycle # "unmounted"
  <2>1. /\ updates' = Append(updates, u)
        /\ workTime' = (IF workTime < time THEN time ELSE workTime)
        /\ finished' = IF finished = <<>> THEN <<>>
                       ELSE <<[finished[1] EXCEPT !.updates = Append(@, u),
                                                  !.workTime = IF @ < time THEN time ELSE @]>>
    BY <1>5 DEF emit, u, Emission
  <2>2. updates' \in Seq(SubscriptionUpdate) /\ updates' # <<>>
    <3>1. /\ updates' \in Seq(SubscriptionUpdate) /\ Len(updates') = Len(updates) + 1
          /\ Len(updates) \in Nat /\ Len(<<>>) = 0
      BY <1>1, <1>4, <2>1, AppendProperties, LenProperties, EmptySeq
    <3> QED  BY <3>1
  <2>3. workTime' \in 0 .. MaxUpdateTime /\ workTime' # 0
    BY <1>1, <2>1
  <2>4. SubscriptionTypes'
    BY <1>2, <1>4, <2>2, <2>3 DEF SubscriptionInv, SubscriptionTypes
  <2>5. MountedSubscription'
    <3> SUFFICES ASSUME lifecycle = "mounted"
                 PROVE  MountedSubscription'
      BY <1>2 DEF MountedSubscription
    <3>1. /\ QueueFits(emitted, overNone, base, updates) /\ shown.source = parentSource
          /\ shown.source # NoSource => shown.source \in subscribed
          /\ OnTrack(emitted, overNone, base, updates, shown.source)
      BY DEF SubscriptionInv, MountedSubscription
    <3>2. u = Emission(emitted, s, time)
      BY DEF u
    <3>3. QueueFits(emitted', overNone, base, Append(updates, u))
      BY <1>1, <1>2, <3>1, <3>2, EmissionFits
    <3>4. OnTrack(emitted', overNone, base, Append(updates, u), shown.source)
      BY <1>1, <1>2, <1>3, <3>1, <3>2, EmissionTracks
    <3> QED  BY <1>2, <2>1, <2>2, <2>3, <3>1, <3>3, <3>4 DEF MountedSubscription
  <2>6. FinishedSubscription'
    <3>1. CASE finished = <<>>
      BY <2>1, <3>1 DEF FinishedSubscription
    <3>2. CASE finished # <<>>
      <4> DEFINE done == finished[1]
                 same == lifecycle = "mounted" /\ done.source = shown.source
                 later == [done EXCEPT !.updates = Append(@, u),
                                       !.workTime = IF @ < time THEN time ELSE @]
      <4>1. done \in Rendered /\ DoneFits(emitted, overNone, done, same) /\ lifecycle # "unmounted"
        BY <3>2, FinishedIs
      <4>2. finished' = <<later>> /\ later.source = done.source
        BY <2>1, <3>2, <4>1 DEF Rendered
      <4>3. u = Emission(emitted, s, time) /\ same \in BOOLEAN
        BY DEF u
      <4>4. later = [done EXCEPT !.updates = Append(@, u),
                                 !.workTime = IF @ < time THEN time ELSE @]
        OBVIOUS
      <4> HIDE DEF done, same, later
      <4>5. DoneFits(emitted', overNone, later, same)
        BY <1>1, <1>2, <4>1, <4>3, <4>4, DoneAppended
      <4>6. later \in Rendered
        BY <4>5 DEF DoneFits
      <4>7. same = (lifecycle' = "mounted" /\ later.source = shown'.source)
        BY <1>2, <4>2 DEF same
      <4>8. DoneFits(emitted', overNone', later,
                     lifecycle' = "mounted" /\ later.source = shown'.source)
        BY <1>2, <4>5, <4>7
      <4> QED  BY <1>2, <4>1, <4>2, <4>6, <4>8 DEF FinishedSubscription
    <3> QED  BY <3>1, <3>2
  <2>7. NewSubscription'
    <3>1. lifecycle # "new"
      BY <1>5 DEF SubscriptionInv, NewSubscription
    <3> QED  BY <1>2, <3>1 DEF NewSubscription
  <2> QED  BY <2>4, <2>5, <2>6, <2>7 DEF SubscriptionInv
<1>6. CASE ~(s \in subscribed /\ lifecycle # "unmounted")
  <2>1. UNCHANGED <<updates, workTime, finished>>
    BY <1>6 DEF emit
  <2>2. SubscriptionTypes' /\ NewSubscription'
    BY <1>2, <1>4, <2>1 DEF SubscriptionInv, SubscriptionTypes, NewSubscription
  <2>3. MountedSubscription'
    <3> SUFFICES ASSUME lifecycle = "mounted"
                 PROVE  MountedSubscription'
      BY <1>2 DEF MountedSubscription
    <3>1. /\ QueueFits(emitted, overNone, base, updates) /\ shown.source = parentSource
          /\ shown.source # NoSource => shown.source \in subscribed
          /\ OnTrack(emitted, overNone, base, updates, shown.source)
          /\ workTime = 0 => updates = <<>>
          /\ updates = <<>> => base = shown
      BY DEF SubscriptionInv, MountedSubscription
    <3>2. shown.source # s
      BY <1>6, <3>1, SubscriptionAssumption
    <3>3. u = Emission(emitted, s, time)
      BY DEF u
    <3>4. QueueFits(emitted', overNone, base, updates)
      BY <1>1, <1>2, <3>1, <3>3, EmissionFits
    <3>5. OnTrack(emitted', overNone, base, updates, shown.source)
      BY <1>1, <1>2, <1>3, <3>1, <3>2, <3>3, EmissionTracks
    <3> QED  BY <1>2, <2>1, <3>1, <3>4, <3>5 DEF MountedSubscription
  <2>4. FinishedSubscription'
    <3>1. CASE finished = <<>>
      BY <2>1, <3>1 DEF FinishedSubscription
    <3>2. CASE finished # <<>>
      <4> DEFINE done == finished[1]
                 same == lifecycle = "mounted" /\ done.source = shown.source
      <4>1. /\ done \in Rendered /\ DoneFits(emitted, overNone, done, same)
            /\ lifecycle # "unmounted" /\ finished = <<done>>
        BY <3>2, FinishedIs
      <4>2. same => done.source # s
        <5>1. ASSUME same, done.source = s
              PROVE  FALSE
          <6>1. shown.source = s /\ lifecycle = "mounted"
            BY <5>1
          <6>2. shown.source # NoSource => shown.source \in subscribed
            BY <6>1 DEF SubscriptionInv, MountedSubscription
          <6> QED  BY <1>6, <6>1, <6>2, SubscriptionAssumption
        <5> QED  BY <5>1
      <4>3. same \in BOOLEAN
        OBVIOUS
      <4> HIDE DEF done, same
      <4>4. DoneFits(emitted', overNone, done, same)
        BY <1>1, <1>2, <4>1, <4>2, <4>3, DoneKept
      <4>5. same = (lifecycle' = "mounted" /\ done.source = shown'.source)
        BY <1>2 DEF same
      <4>6. DoneFits(emitted', overNone', done,
                     lifecycle' = "mounted" /\ done.source = shown'.source)
        BY <1>2, <4>4, <4>5
      <4> QED  BY <1>2, <2>1, <4>1, <4>6 DEF FinishedSubscription
    <3> QED  BY <3>1, <3>2
  <2> QED  BY <2>2, <2>3, <2>4 DEF SubscriptionInv
<1> QED  BY <1>5, <1>6

LEMMA SubscriptionStep ==
  ASSUME SubscriptionInv, [SubscriptionNext]_subscriptionVars
  PROVE  SubscriptionInv'
<1>1. CASE UNCHANGED subscriptionVars
  BY <1>1 DEF subscriptionVars, SubscriptionInv, SubscriptionTypes, NewSubscription,
              MountedSubscription, FinishedSubscription
<1>2. CASE render
  BY <1>2, RenderInv
<1>3. CASE abandon
  BY <1>3 DEF abandon, SubscriptionInv, SubscriptionTypes, NewSubscription,
              MountedSubscription, FinishedSubscription
<1>4. CASE commit
  BY <1>4, CommitInv
<1>5. CASE unmountSubscription
  BY <1>5, EmptySeq, SubscriptionAssumption
  DEF unmountSubscription, unsubscribe, SubscriptionInv, SubscriptionTypes, NewSubscription,
      MountedSubscription, FinishedSubscription
<1>6. ASSUME NEW time \in 1 .. MaxUpdateTime, NEW s \in Source, emit(s, time)
      PROVE  SubscriptionInv'
  BY <1>6, EmitInv
<1>7. ASSUME NEW time \in 1 .. MaxUpdateTime, NEW s \in Source \cup {NoSource},
             changeSource(s, time)
      PROVE  SubscriptionInv'
  <2> DEFINE w == [source |-> s, time |-> time]
  <2>1. /\ lifecycle = "mounted" /\ wanted' = <<w>>
        /\ UNCHANGED <<emitted, parentSource, subscribed, shown, base, updates, workTime, finished,
                       lifecycle, overNone>>
    BY <1>7 DEF changeSource
  <2>2. w \in [source : Source \cup {NoSource}, time : 1 .. MaxUpdateTime]
    OBVIOUS
  <2> HIDE DEF w
  <2>3. SubscriptionTypes'
    BY <2>1, <2>2 DEF SubscriptionInv, SubscriptionTypes
  <2>4. NewSubscription' /\ MountedSubscription' /\ FinishedSubscription'
    BY <2>1 DEF SubscriptionInv, NewSubscription, MountedSubscription, FinishedSubscription
  <2> QED  BY <2>3, <2>4 DEF SubscriptionInv
<1> QED  BY <1>1, <1>2, <1>3, <1>4, <1>5, <1>6, <1>7 DEF SubscriptionNext

\* Of what a subscription keeps (createSubscription.js): the updates in its queue and in
\* the tree that was rendered are in the order in which the sources emitted them, and
\* they lead to the value of the source it shows, or will be looked at on the commit.
THEOREM SubscriptionInvariant == SubscriptionSpec => []SubscriptionInv
<1>1. SubscriptionInit => SubscriptionInv
  BY SubscriptionInitInv
<1>2. SubscriptionInv /\ [SubscriptionNext]_subscriptionVars => SubscriptionInv'
  BY SubscriptionStep
<1> QED  BY <1>1, <1>2, PTL DEF SubscriptionSpec

\* Once nothing is pending, a component made by createSubscription shows the value of
\* the source that its parent gave it, and is subscribed to it.
THEOREM SubscriptionsShowCurrent == SubscriptionSpec => []ShowsCurrentValue
<1>1. SubscriptionInv => ShowsCurrentValue
  <2> SUFFICES ASSUME SubscriptionInv, settled
               PROVE  /\ shown.source = parentSource
                      /\ shown.source # NoSource => shown.source \in subscribed
                      /\ RightFor(emitted, overNone, shown.source, shown.value)
    <3>1. getCurrentValue(shown.source) = CurrentOf(emitted, shown.source)
      BY DEF getCurrentValue, lastValue, CurrentOf
    <3> QED  BY <3>1 DEF ShowsCurrentValue, RightFor
  <2>1. lifecycle = "mounted" /\ workTime = 0
    <3>1. lifecycle = "mounted" /\ {workTime} \ {0} = {}
      BY DEF settled, PendingTimes
    <3> QED  BY <3>1
  <2>2. /\ shown.source = parentSource
        /\ shown.source # NoSource => shown.source \in subscribed
        /\ updates = <<>> /\ base = shown
        /\ OnTrack(emitted, overNone, base, updates, shown.source)
    BY <2>1 DEF SubscriptionInv, MountedSubscription
  <2>3. shown.value \in Values
    BY DEF SubscriptionInv, SubscriptionTypes, SubscriptionState
  <2>4. OnTrack(emitted, overNone, shown, <<>>, shown.source)
    BY <2>2
  <2>5. RightFor(emitted, overNone, shown.source, shown.value)
    BY <2>3, <2>4, EmptyTracks
  <2> QED  BY <2>2, <2>5
<1> QED  BY <1>1, SubscriptionInvariant, PTL
=============================================================================
