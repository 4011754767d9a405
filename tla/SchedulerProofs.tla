-------------------------- MODULE SchedulerProofs --------------------------
(***************************************************************************)
(* Proofs about Scheduler.js, for every number of callbacks, every timeout *)
(* and every depth of nested calls: the list of callbacks, the types, the  *)
(* shape of the call stack, the order in which callbacks take turns, the   *)
(* wake-up that is never lost, and the contract with the host.             *)
(***************************************************************************)
EXTENDS Scheduler, TLAPS, SequenceTheorems, WellFoundedInduction

(***************************************************************************)
(* The list of callbacks: whatever is scheduled, continued and cancelled,  *)
(* it stays ordered by expiration time and without duplicates.             *)
(***************************************************************************)

\* A non-empty set of positions has a least element, and Min is that element.
LEMMA MinOfPositions ==
  ASSUME NEW S, S \subseteq Nat, S # {}
  PROVE  Min(S) \in S /\ \A y \in S : Min(S) <= y
<1>1. PICK x \in S : \A y \in S : ~(<<y, x>> \in OpToRel(<, Nat))
  BY NatLessThanWellFounded, WFMin, Zenon
<1>2. ASSUME NEW y \in S
      PROVE  x <= y
  <2>1. <<y, x>> \in Nat \X Nat /\ <<y, x>>[1] = y /\ <<y, x>>[2] = x
    OBVIOUS
  <2>2. y < x => <<y, x>> \in OpToRel(<, Nat)
    BY <2>1, Zenon DEF OpToRel
  <2>3. ~(y < x)
    BY <1>1, <2>2, Zenon
  <2> QED  BY <2>3
<1> QED  BY <1>2, Zenon DEF Min

(***************************************************************************)
(* What a search of the code returns, given the positions that pass its    *)
(* test: the first of them, or the position behind the end.                *)
(***************************************************************************)
IsFirstOf(I, n, place) ==
  /\ place \in 1 .. n + 1
  /\ \A k \in 1 .. place - 1 : k \notin I
  /\ place <= n => place \in I

LEMMA FirstOrEnd ==
  ASSUME NEW n \in Nat, NEW I, I \subseteq 1 .. n,
         NEW place, place = IF I # {} THEN Min(I) ELSE n + 1
  PROVE  IsFirstOf(I, n, place)
<1>1. CASE I = {}
  BY <1>1 DEF IsFirstOf
<1>2. CASE I # {}
  <2> I \subseteq Nat
    OBVIOUS
  <2>1. Min(I) \in I /\ \A y \in I : Min(I) <= y
    BY <1>2, MinOfPositions, Zenon
  <2>2. place \in I /\ \A y \in I : place <= y
    BY <1>2, <2>1, Zenon
  <2> QED  BY <2>2 DEF IsFirstOf
<1> QED  BY <1>1, <1>2

\* scheduleCallback stops at the first node that expires later than e.
LEMMA PlaceOfNewIsFirst ==
  ASSUME NEW T, NEW q \in Seq(T), NEW exp, NEW e
  PROVE  IsFirstOf({k \in 1 .. Len(q) : exp[q[k]] > e}, Len(q), PlaceOfNew(q, exp, e))
<1> DEFINE I == {k \in 1 .. Len(q) : exp[q[k]] > e}
<1>1. Len(q) \in Nat  BY LenProperties
<1> I \subseteq Nat \ {0}
  BY <1>1
<1>2. I # {} => Min(I) \in I
  BY MinOfPositions
<1>3. PlaceOfNew(q, exp, e) = IF I # {} THEN Min(I) ELSE Len(q) + 1
  BY <1>2, Zenon DEF PlaceOfNew, AtIndexOrEnd, SelectInSeq
<1> QED  BY <1>1, <1>3, FirstOrEnd
\* The search for a continuation stops at the first node that does not expire
\* earlier than e.
LEMMA PlaceOfContinuationIsFirst ==
  ASSUME NEW T, NEW q \in Seq(T), NEW exp, NEW e
  PROVE  IsFirstOf({k \in 1 .. Len(q) : exp[q[k]] >= e}, Len(q),
                   PlaceOfContinuation(q, exp, e))
<1> DEFINE I == {k \in 1 .. Len(q) : exp[q[k]] >= e}
<1>1. Len(q) \in Nat  BY LenProperties
<1> I \subseteq Nat \ {0}
  BY <1>1
<1>2. I # {} => Min(I) \in I
  BY MinOfPositions
<1>3. PlaceOfContinuation(q, exp, e) = IF I # {} THEN Min(I) ELSE Len(q) + 1
  BY <1>2, Zenon DEF PlaceOfContinuation, AtIndexOrEnd, SelectInSeq
<1> QED  BY <1>1, <1>3, FirstOrEnd

\* cancelCallback looks the node up: its position, or 0 if it is not linked.
LEMMA PlaceOfNodeIsItsPlace ==
  ASSUME NEW T, NEW q \in Seq(T), NEW n, PlaceOfNode(q, n) # 0
  PROVE  PlaceOfNode(q, n) \in 1 .. Len(q) /\ q[PlaceOfNode(q, n)] = n
<1> DEFINE place == PlaceOfNode(q, n)
           I == {k \in 1 .. Len(q) : q[k] = n}
<1>1. Len(q) \in Nat  BY LenProperties
<1> I \subseteq Nat
  BY <1>1
<1>2. I # {} => Min(I) \in I
  BY MinOfPositions
<1>3. place = IF I # {} THEN Min(I) ELSE 0
  BY Zenon DEF PlaceOfNode, SelectInSeq
<1> HIDE DEF place
<1>4. place \in I
  BY <1>2, <1>3, Zenon DEF place
<1> QED  BY <1>4 DEF place

-----------------------------------------------------------------------------
(***************************************************************************)
(* The list operations, element by element.                                *)
(***************************************************************************)
InsertedAt(r, s, place, x) ==
  /\ Len(r) = Len(s) + 1
  /\ \A k \in 1 .. Len(s) + 1 :
       r[k] = IF k < place THEN s[k] ELSE IF k = place THEN x ELSE s[k - 1]

RemovedAt(r, s, place) ==
  /\ Len(r) = Len(s) - 1
  /\ \A k \in 1 .. Len(s) - 1 : r[k] = IF k < place THEN s[k] ELSE s[k + 1]

LEMMA InsertAtElements ==
  ASSUME NEW T, NEW s \in Seq(T), NEW place \in 1 .. Len(s) + 1, NEW x \in T
  PROVE  /\ InsertAt(s, place, x) \in Seq(T)
         /\ InsertedAt(InsertAt(s, place, x), s, place, x)
<1> DEFINE r == InsertAt(s, place, x)
           front == SubSeq(s, 1, place - 1)
           back == SubSeq(s, place, Len(s))
<1>1. Len(s) \in Nat /\ place \in Nat
  BY LenProperties
<1>2. /\ front \in Seq(T) /\ Len(front) = place - 1
      /\ \A k \in 1 .. place - 1 : front[k] = s[k]
  BY <1>1
<1>3. /\ back \in Seq(T) /\ Len(back) = Len(s) - place + 1
      /\ \A k \in 1 .. Len(s) - place + 1 : back[k] = s[place + k - 1]
  BY <1>1
<1> HIDE DEF front, back
<1> DEFINE left == front \o <<x>>
<1>4. /\ left \in Seq(T) /\ Len(left) = place
      /\ \A k \in 1 .. place : left[k] = IF k < place THEN s[k] ELSE x
  BY <1>1, <1>2
<1> HIDE DEF left
<1>5. r = left \o back
  BY DEF InsertAt, front, back, left
<1> HIDE DEF r
<1>6. r \in Seq(T) /\ Len(r) = Len(s) + 1
  <2>1. r \in Seq(T) /\ Len(r) = Len(left) + Len(back)
    BY <1>3, <1>4, <1>5, ConcatProperties, Zenon
  <2> QED  BY <1>1, <1>3, <1>4, <2>1
<1>7. ASSUME NEW k \in 1 .. Len(s) + 1
      PROVE  r[k] = IF k < place THEN s[k] ELSE IF k = place THEN x ELSE s[k - 1]
  <2>1. CASE k <= place
    BY <1>1, <1>3, <1>4, <1>5, <2>1
  <2>2. CASE k > place
    <3>1. r[k] = back[k - place]
      BY <1>1, <1>3, <1>4, <1>5, <2>2
    <3>2. k - place \in 1 .. Len(s) - place + 1 /\ place + (k - place) - 1 = k - 1
      BY <1>1, <2>2
    <3> QED  BY <1>1, <1>3, <2>2, <3>1, <3>2
  <2> QED  BY <1>1, <2>1, <2>2
<1> QED  BY <1>6, <1>7 DEF r, InsertedAt

LEMMA RemoveAtElements ==
  ASSUME NEW T, NEW s \in Seq(T), NEW place \in 1 .. Len(s)
  PROVE  /\ RemoveAt(s, place) \in Seq(T)
         /\ RemovedAt(RemoveAt(s, place), s, place)
<1> DEFINE r == RemoveAt(s, place)
           front == SubSeq(s, 1, place - 1)
           back == SubSeq(s, place + 1, Len(s))
<1>1. Len(s) \in Nat /\ place \in Nat
  BY LenProperties
<1>2. /\ front \in Seq(T) /\ Len(front) = place - 1
      /\ \A k \in 1 .. place - 1 : front[k] = s[k]
  BY <1>1
<1>3. /\ back \in Seq(T) /\ Len(back) = Len(s) - place
      /\ \A k \in 1 .. Len(s) - place : back[k] = s[place + k]
  BY <1>1
<1> HIDE DEF front, back
<1>4. r = front \o back
  BY DEF RemoveAt, front, back
<1> HIDE DEF r
<1>5. r \in Seq(T) /\ Len(r) = Len(s) - 1
  <2>1. r \in Seq(T) /\ Len(r) = Len(front) + Len(back)
    BY <1>2, <1>3, <1>4, ConcatProperties, Zenon
  <2> QED  BY <1>1, <1>2, <1>3, <2>1
<1>6. ASSUME NEW k \in 1 .. Len(s) - 1
      PROVE  r[k] = IF k < place THEN s[k] ELSE s[k + 1]
  <2>1. CASE k < place
    BY <1>1, <1>2, <1>3, <1>4, <2>1
  <2>2. CASE k >= place
    <3>1. r[k] = back[k - Len(front)]
      <4>1. k \in 1 .. Len(front) + Len(back) /\ ~(k <= Len(front))
        BY <1>1, <1>2, <1>3, <2>2
      <4>2. \A i \in 1 .. Len(front) + Len(back) :
              (front \o back)[i] = IF i <= Len(front) THEN front[i] ELSE back[i - Len(front)]
        BY <1>2, <1>3, ConcatProperties, Zenon
      <4>3. (front \o back)[k] = back[k - Len(front)]
        BY <4>1, <4>2, Zenon
      <4> QED  BY <1>4, <4>3, Zenon
    <3>2. k - Len(front) \in 1 .. Len(s) - place /\ place + (k - Len(front)) = k + 1
      BY <1>1, <1>2, <2>2
    <3>3. back[k - Len(front)] = s[place + (k - Len(front))]
      BY <1>3, <3>2, Zenon
    <3>4. r[k] = s[k + 1]
      BY <3>1, <3>2, <3>3, Zenon
    <3> QED  BY <1>1, <2>2, <3>4
  <2> QED  BY <1>1, <2>1, <2>2
<1> QED  BY <1>5, <1>6 DEF r, RemovedAt
-----------------------------------------------------------------------------
(***************************************************************************)
(* What linking a new node in at position place does to the list: the node *)
(* is allocated + 1 and expires at e, and the others keep their order.     *)
(***************************************************************************)
LinkedAt(place, e) ==
  /\ allocated + 1 \in Node
  /\ allocated' = allocated + 1
  /\ expires' \in [Node -> Int]
  /\ expires'[allocated + 1] = e
  /\ \A n \in Created : expires'[n] = expires[n]
  /\ queue' \in Seq(1 .. allocated + 1)
  /\ InsertedAt(queue', queue, place, allocated + 1)

LEMMA LinkNewLinks ==
  ASSUME QueueTypeOK, NEW e \in Int, NEW place \in 1 .. Len(queue) + 1,
         LinkNew(place, e)
  PROVE  LinkedAt(place, e)
<1>1. allocated \in Nat /\ allocated + 1 \in Node /\ allocated' = allocated + 1
  BY QueueAssumption DEF QueueTypeOK, LinkNew, Node
<1>2. /\ expires' \in [Node -> Int]
      /\ expires'[allocated + 1] = e
      /\ \A n \in Created : expires'[n] = expires[n]
  BY <1>1 DEF QueueTypeOK, LinkNew, Node, Created
<1>3. queue \in Seq(1 .. allocated + 1)
  BY <1>1, SeqMonotonic DEF QueueTypeOK, Created
<1>4. allocated + 1 \in 1 .. allocated + 1
  BY <1>1
<1>5. queue' = InsertAt(queue, place, allocated + 1)
  BY DEF LinkNew
<1>6. /\ queue' \in Seq(1 .. allocated + 1)
      /\ InsertedAt(queue', queue, place, allocated + 1)
  BY <1>3, <1>4, <1>5, InsertAtElements, Zenon
<1> QED  BY <1>1, <1>2, <1>6 DEF LinkedAt

\* The elements of the list are created nodes.
LEMMA QueueElements ==
  ASSUME QueueTypeOK
  PROVE  /\ allocated \in Nat /\ Len(queue) \in Nat
         /\ \A k \in 1 .. Len(queue) :
              /\ queue[k] \in Created /\ queue[k] \in Node
              /\ queue[k] \in Nat /\ expires[queue[k]] \in Int
<1>1. Len(queue) \in Nat /\ \A k \in 1 .. Len(queue) : queue[k] \in Created
  BY LenProperties, ElementOfSeq DEF QueueTypeOK
<1> QED  BY <1>1, QueueAssumption DEF QueueTypeOK, Created, Node

\* A node linked in behind those that expire no later and ahead of those that
\* expire no earlier leaves the list sorted.
LEMMA LinkKeepsSorted ==
  ASSUME QueueTypeOK, QueueSorted, NEW e \in Int, NEW place \in 1 .. Len(queue) + 1,
         LinkedAt(place, e),
         \A k \in 1 .. Len(queue) : k < place => expires[queue[k]] <= e,
         \A k \in 1 .. Len(queue) : k >= place => e <= expires[queue[k]]
  PROVE  QueueTypeOK' /\ QueueSorted'
<1>1. /\ allocated \in Nat /\ Len(queue) \in Nat
      /\ \A k \in 1 .. Len(queue) : queue[k] \in Created /\ expires[queue[k]] \in Int
  BY QueueElements
<1>2. QueueTypeOK'
  BY <1>1, QueueAssumption DEF QueueTypeOK, LinkedAt, Node, Created
<1>3. ASSUME NEW k \in 1 .. Len(queue)
      PROVE  queue[k] # allocated + 1 /\ expires'[queue[k]] = expires[queue[k]]
  <2>1. queue[k] \in Created
    BY <1>1
  <2>2. queue[k] # allocated + 1
    BY <1>1, <2>1 DEF Created
  <2> QED  BY <2>1, <2>2, Zenon DEF LinkedAt, InsertedAt
<1> DEFINE old(k) == IF k < place THEN k ELSE k - 1
<1>4. ASSUME NEW k \in 1 .. Len(queue) + 1, k # place
      PROVE  old(k) \in 1 .. Len(queue) /\ queue'[k] = queue[old(k)]
  BY <1>1, <1>4 DEF LinkedAt, InsertedAt
<1>5. queue'[place] = allocated + 1
  BY <1>1 DEF LinkedAt, InsertedAt
<1>6. Len(queue') = Len(queue) + 1 /\ expires'[allocated + 1] = e
  BY DEF LinkedAt, InsertedAt
<1>7. NoDuplicates(queue)'
  <2> SUFFICES ASSUME NEW k \in 1 .. Len(queue) + 1, NEW j \in 1 .. Len(queue) + 1,
                      queue'[k] = queue'[j]
               PROVE  k = j
    BY <1>6 DEF NoDuplicates
  <2>1. CASE k = place \/ j = place
    BY <1>3, <1>4, <1>5, <2>1
  <2>2. CASE k # place /\ j # place
    <3>1. old(k) = old(j)
      BY <1>4, <2>2, Zenon DEF QueueSorted, NoDuplicates
    <3> QED  BY <1>1, <2>2, <3>1
  <2> QED  BY <2>1, <2>2
<1>8. SortedByExpiration(queue, expires)'
  <2> SUFFICES ASSUME NEW k \in 1 .. Len(queue) + 1, NEW j \in 1 .. Len(queue) + 1,
                      k < j
               PROVE  expires'[queue'[k]] <= expires'[queue'[j]]
    BY <1>6 DEF SortedByExpiration
  <2>1. CASE k = place
    <3>1. old(j) \in 1 .. Len(queue) /\ old(j) >= place
      BY <1>1, <2>1
    <3> QED  BY <1>3, <1>4, <1>5, <1>6, <2>1, <3>1
  <2>2. CASE j = place
    <3>1. old(k) \in 1 .. Len(queue) /\ old(k) < place
      BY <1>1, <2>2
    <3> QED  BY <1>3, <1>4, <1>5, <1>6, <2>2, <3>1
  <2>3. CASE k # place /\ j # place
    <3>1. old(k) < old(j)
      BY <1>1, <2>3
    <3>2. expires[queue[old(k)]] <= expires[queue[old(j)]]
      BY <1>4, <2>3, <3>1, Zenon DEF QueueSorted, SortedByExpiration
    <3> HIDE DEF old
    <3> QED  BY <1>3, <1>4, <2>3, <3>2
  <2> QED  BY <2>1, <2>2, <2>3
<1> QED  BY <1>2, <1>7, <1>8 DEF QueueSorted

(***************************************************************************)
(* The two searches put the node where that holds, on either side of the   *)
(* nodes that expire with it.                                              *)
(***************************************************************************)
LEMMA InsertNewLinks ==
  ASSUME QueueTypeOK, QueueSorted, NEW e \in Int, InsertNew(e)
  PROVE  \E place \in 1 .. Len(queue) + 1 :
           /\ LinkedAt(place, e)
           /\ \A k \in 1 .. Len(queue) : k < place => expires[queue[k]] <= e
           /\ \A k \in 1 .. Len(queue) : k >= place => e < expires[queue[k]]
<1> DEFINE place == PlaceOfNew(queue, expires, e)
<1> USE QueueElements
<1>1. IsFirstOf({k \in 1 .. Len(queue) : expires[queue[k]] > e}, Len(queue), place)
  BY PlaceOfNewIsFirst DEF QueueTypeOK
<1> HIDE DEF place
<1>2. place \in 1 .. Len(queue) + 1
  BY <1>1 DEF IsFirstOf
<1>3. \A k \in 1 .. Len(queue) : k < place => expires[queue[k]] <= e
  BY <1>1 DEF IsFirstOf
<1>4. \A k \in 1 .. Len(queue) : k >= place => e < expires[queue[k]]
  BY <1>1 DEF IsFirstOf, QueueSorted, SortedByExpiration
<1>5. LinkedAt(place, e)
  BY <1>2, LinkNewLinks DEF InsertNew, place
<1> QED  BY <1>2, <1>3, <1>4, <1>5

LEMMA InsertContinuationLinks ==
  ASSUME QueueTypeOK, QueueSorted, NEW e \in Int, InsertContinuation(e)
  PROVE  \E place \in 1 .. Len(queue) + 1 :
           /\ LinkedAt(place, e)
           /\ \A k \in 1 .. Len(queue) : k < place => expires[queue[k]] < e
           /\ \A k \in 1 .. Len(queue) : k >= place => e <= expires[queue[k]]
<1> DEFINE place == PlaceOfContinuation(queue, expires, e)
<1> USE QueueElements
<1>1. IsFirstOf({k \in 1 .. Len(queue) : expires[queue[k]] >= e}, Len(queue), place)
  BY PlaceOfContinuationIsFirst DEF QueueTypeOK
<1> HIDE DEF place
<1>2. place \in 1 .. Len(queue) + 1
  BY <1>1 DEF IsFirstOf
<1>3. \A k \in 1 .. Len(queue) : k < place => expires[queue[k]] < e
  BY <1>1 DEF IsFirstOf
<1>4. \A k \in 1 .. Len(queue) : k >= place => e <= expires[queue[k]]
  BY <1>1 DEF IsFirstOf, QueueSorted, SortedByExpiration
<1>5. LinkedAt(place, e)
  BY <1>2, LinkNewLinks DEF InsertContinuation, place
<1> QED  BY <1>2, <1>3, <1>4, <1>5
-----------------------------------------------------------------------------
\* Both removals take one node out of the list.
LEMMA RemoveFirstRemoves ==
  ASSUME QueueTypeOK, RemoveFirstNode
  PROVE  /\ 1 \in 1 .. Len(queue)
         /\ queue' \in Seq(Created) /\ RemovedAt(queue', queue, 1)
<1>1. queue \in Seq(Created) /\ queue # <<>> /\ queue' = Tail(queue)
  BY DEF QueueTypeOK, RemoveFirstNode
<1>2. Len(queue) \in Nat \ {0}
  BY <1>1, EmptySeq
<1>3. /\ queue' \in Seq(Created) /\ Len(queue') = Len(queue) - 1
      /\ \A k \in 1 .. Len(queue) - 1 : queue'[k] = queue[k + 1]
  BY <1>1, <1>2, HeadTailProperties
<1> QED  BY <1>2, <1>3 DEF RemovedAt

LEMMA UnlinkRemoves ==
  ASSUME QueueTypeOK, NEW n, Unlink(n), queue' # queue
  PROVE  \E place \in 1 .. Len(queue) :
           queue' \in Seq(Created) /\ RemovedAt(queue', queue, place)
<1> DEFINE place == PlaceOfNode(queue, n)
<1>1. queue' = IF place = 0 THEN queue ELSE RemoveAt(queue, place)
  BY Zenon DEF Unlink
<1>2. place # 0 /\ queue' = RemoveAt(queue, place)
  BY <1>1
<1>3. place \in 1 .. Len(queue)
  BY <1>2, PlaceOfNodeIsItsPlace DEF QueueTypeOK
<1> HIDE DEF place
<1>4. queue' \in Seq(Created) /\ RemovedAt(queue', queue, place)
  BY <1>2, <1>3, RemoveAtElements, Zenon DEF QueueTypeOK
<1> QED  BY <1>3, <1>4

\* What is left is sorted, and its first node expires no earlier than before.
LEMMA RemoveKeepsSorted ==
  ASSUME QueueTypeOK, QueueSorted, NEW place \in 1 .. Len(queue),
         queue' \in Seq(Created), RemovedAt(queue', queue, place),
         UNCHANGED <<allocated, expires>>
  PROVE  /\ QueueTypeOK' /\ QueueSorted'
         /\ queue # <<>>
         /\ queue' # <<>> => expires[Head(queue)] <= expires[Head(queue')]
<1>1. /\ allocated \in Nat /\ Len(queue) \in Nat
      /\ \A k \in 1 .. Len(queue) : queue[k] \in Created /\ expires[queue[k]] \in Int
  BY QueueElements
<1>2. QueueTypeOK'
  BY DEF QueueTypeOK, Created
<1> DEFINE old(k) == IF k < place THEN k ELSE k + 1
<1>3. Len(queue') = Len(queue) - 1
  BY DEF RemovedAt
<1>4. ASSUME NEW k \in 1 .. Len(queue) - 1
      PROVE  old(k) \in 1 .. Len(queue) /\ queue'[k] = queue[old(k)]
  BY <1>1 DEF RemovedAt
<1>5. \A k, j \in 1 .. Len(queue) - 1 :
        (k < j => old(k) < old(j)) /\ (old(k) = old(j) => k = j)
  BY <1>1
<1> HIDE DEF old
<1>6. NoDuplicates(queue)'
  <2> SUFFICES ASSUME NEW k \in 1 .. Len(queue) - 1, NEW j \in 1 .. Len(queue) - 1,
                      queue'[k] = queue'[j]
               PROVE  k = j
    BY <1>3 DEF NoDuplicates
  <2> QED  BY <1>4, <1>5, Zenon DEF QueueSorted, NoDuplicates
<1>7. SortedByExpiration(queue, expires)'
  <2> SUFFICES ASSUME NEW k \in 1 .. Len(queue) - 1, NEW j \in 1 .. Len(queue) - 1,
                      k < j
               PROVE  expires'[queue'[k]] <= expires'[queue'[j]]
    BY <1>3 DEF SortedByExpiration
  <2> QED  BY <1>4, <1>5 DEF QueueSorted, SortedByExpiration
<1>8. queue # <<>>
  BY <1>1
<1>9. ASSUME queue' # <<>>
      PROVE  expires[Head(queue)] <= expires[Head(queue')]
  <2>1. Len(queue') \in Nat \ {0}
    BY <1>9, EmptySeq
  <2>2. 1 \in 1 .. Len(queue) - 1 /\ 1 \in 1 .. Len(queue)
    BY <1>1, <1>3, <2>1
  <2>3. Head(queue) = queue[1] /\ Head(queue') = queue'[1]
    BY <1>8, <1>9
  <2>4. old(1) = 1 \/ 1 < old(1)
    BY DEF old
  <2>5. expires[queue[1]] <= expires[queue[old(1)]]
    BY <1>1, <1>4, <2>2, <2>4 DEF QueueSorted, SortedByExpiration
  <2> QED  BY <1>4, <2>2, <2>3, <2>5
<1> QED  BY <1>2, <1>6, <1>7, <1>8, <1>9 DEF QueueSorted

-----------------------------------------------------------------------------
\* One operation on the list, or none; the node that is continued may be any.
ListStep ==
  \/ \E e \in Expirations : InsertNew(e)
  \/ \E n \in Created : InsertContinuation(expires[n])
  \/ RemoveFirstNode
  \/ \E n \in Created : Unlink(n)
  \/ UNCHANGED qvars

NoExpirationUnknown == \A n \in Created : expires[n] \in Expirations

\* Every operation keeps the types and the order.
LEMMA ListStepKeepsSorted ==
  ASSUME QueueTypeOK, QueueSorted, ListStep
  PROVE  QueueTypeOK' /\ QueueSorted'
<1> DEFINE Inv == QueueTypeOK /\ QueueSorted
<1>1. ASSUME NEW e \in Expirations, InsertNew(e)
      PROVE  Inv'
  <2>1. e \in Int
    BY QueueAssumption
  <2>2. PICK place \in 1 .. Len(queue) + 1 :
          /\ LinkedAt(place, e)
          /\ \A k \in 1 .. Len(queue) : k < place => expires[queue[k]] <= e
          /\ \A k \in 1 .. Len(queue) : k >= place => e < expires[queue[k]]
    BY <1>1, <2>1, InsertNewLinks
  <2>3. \A k \in 1 .. Len(queue) : k >= place => e <= expires[queue[k]]
    BY <2>1, <2>2, QueueElements
  <2> QED  BY <2>1, <2>2, <2>3, LinkKeepsSorted, Zenon
<1>2. ASSUME NEW n \in Created, InsertContinuation(expires[n])
      PROVE  Inv'
  <2> DEFINE e == expires[n]
  <2>1. e \in Int
    BY QueueAssumption DEF QueueTypeOK, Created, Node
  <2> HIDE DEF e
  <2>2. PICK place \in 1 .. Len(queue) + 1 :
          /\ LinkedAt(place, e)
          /\ \A k \in 1 .. Len(queue) : k < place => expires[queue[k]] < e
          /\ \A k \in 1 .. Len(queue) : k >= place => e <= expires[queue[k]]
    BY <1>2, <2>1, InsertContinuationLinks DEF e
  <2>3. \A k \in 1 .. Len(queue) : k < place => expires[queue[k]] <= e
    BY <2>1, <2>2, QueueElements
  <2> QED  BY <2>1, <2>2, <2>3, LinkKeepsSorted, Zenon
<1>3. ASSUME RemoveFirstNode
      PROVE  Inv'
  BY <1>3, RemoveFirstRemoves, RemoveKeepsSorted, Zenon DEF RemoveFirstNode
<1>4. ASSUME NEW n \in Created, Unlink(n)
      PROVE  Inv'
  <2>1. CASE queue' = queue
    BY <1>4, <2>1 DEF Unlink, QueueTypeOK, QueueSorted, Created
  <2>2. CASE queue' # queue
    <3>1. PICK place \in 1 .. Len(queue) :
            queue' \in Seq(Created) /\ RemovedAt(queue', queue, place)
      BY <1>4, <2>2, UnlinkRemoves, Zenon
    <3> QED  BY <1>4, <3>1, RemoveKeepsSorted, Zenon DEF Unlink
  <2> QED  BY <2>1, <2>2
<1>5. CASE UNCHANGED qvars
  BY <1>5 DEF qvars, QueueTypeOK, QueueSorted, Created
<1> QED  BY <1>1, <1>2, <1>3, <1>4, <1>5, Zenon DEF ListStep

\* A created node stays created and keeps its expiration time, and a new one
\* gets a time callbacks are scheduled with.
LEMMA ListStepKeepsNodes ==
  ASSUME QueueTypeOK, QueueSorted, NoExpirationUnknown, ListStep
  PROVE  /\ allocated' \in {allocated, allocated + 1}
         /\ \A n \in Created : n \in Created' /\ expires'[n] = expires[n]
         /\ NoExpirationUnknown'
<1>1. allocated \in Nat
  BY QueueElements
<1>2. ASSUME NEW e \in Expirations, NEW place \in 1 .. Len(queue) + 1, LinkNew(place, e)
      PROVE  /\ allocated' = allocated + 1
             /\ \A n \in Created : n \in Created' /\ expires'[n] = expires[n]
             /\ NoExpirationUnknown'
  <2>1. LinkedAt(place, e)
    BY <1>2, LinkNewLinks, QueueAssumption
  <2>2. allocated' = allocated + 1 /\ Created' = 1 .. allocated + 1
    BY <2>1 DEF LinkedAt, Created
  <2> QED  BY <1>1, <2>1, <2>2 DEF LinkedAt, NoExpirationUnknown, Created
<1>3. CASE \E e \in Expirations : InsertNew(e)
  <2>1. PICK e \in Expirations : InsertNew(e)
    BY <1>3
  <2>2. PlaceOfNew(queue, expires, e) \in 1 .. Len(queue) + 1
    BY PlaceOfNewIsFirst DEF IsFirstOf, QueueTypeOK
  <2> QED  BY <1>2, <2>1, <2>2 DEF InsertNew
<1>4. CASE \E n \in Created : InsertContinuation(expires[n])
  <2>1. PICK n \in Created : InsertContinuation(expires[n])
    BY <1>4
  <2>2. PlaceOfContinuation(queue, expires, expires[n]) \in 1 .. Len(queue) + 1
    BY PlaceOfContinuationIsFirst DEF IsFirstOf, QueueTypeOK
  <2>3. expires[n] \in Expirations
    BY DEF NoExpirationUnknown
  <2> QED  BY <1>2, <2>1, <2>2, <2>3 DEF InsertContinuation
<1>5. CASE UNCHANGED <<allocated, expires>>
  BY <1>5 DEF NoExpirationUnknown, Created
<1> QED
  BY <1>3, <1>4, <1>5, Zenon DEF ListStep, RemoveFirstNode, Unlink, qvars

(***************************************************************************)
(* The list is always sorted and without duplicates.  QueueSorted is       *)
(* inductive together with the types: the searches rely on the order that  *)
(* every operation keeps.                                                  *)
(***************************************************************************)
THEOREM QueueStaysSorted == QueueSpec => [](QueueTypeOK /\ QueueSorted)
<1> DEFINE Inv == QueueTypeOK /\ QueueSorted
<1>1. QueueInit => Inv
  BY QueueAssumption
  DEF QueueInit, QueueTypeOK, QueueSorted, NoDuplicates, SortedByExpiration, Node
<1>2. Inv /\ [QueueNext]_qvars => Inv'
  <2>1. [QueueNext]_qvars => ListStep
    BY Zenon DEF QueueNext, ListStep
  <2> QED  BY <2>1, ListStepKeepsSorted
<1> QED  BY <1>1, <1>2, PTL DEF QueueSpec
-----------------------------------------------------------------------------

(***************************************************************************)
(* The shape of the call stack.  A flush is the outermost call, made by    *)
(* the host; a callback is called by a flush and never by anything else.   *)
(***************************************************************************)
Outermost == stack[Len(stack)]

StackShape ==
  /\ \A k \in 1 .. Len(stack) :
       /\ stack[k].kind = "flush" => k = Len(stack) /\ stack[k].didTimeout = FALSE
       /\ stack[k].kind = "callback" =>
            k + 1 = Len(stack) /\ Outermost.kind = "flush" /\ stack[k].node \in Created
  /\ isPerformingWork <=> stack # <<>> /\ Outermost.kind = "flush"
  /\ ~isPerformingWork => ~currentHostCallbackDidTimeout

Base == TypeOK /\ QueueSorted /\ StackShape

\* What the fields of a frame hold.
LEMMA FrameFields ==
  ASSUME NEW f \in Frame
  PROVE  /\ f.kind \in {"flush", "callback", "priority"}
         /\ f.kind = "flush" =>
              f.didTimeout \in BOOLEAN /\ [f EXCEPT !.at = "loop"] \in Frame
         /\ f.kind = "flush" => [f EXCEPT !.at = "loop"].kind = "flush"
         /\ f.kind = "flush" => [f EXCEPT !.at = "loop"].didTimeout = f.didTimeout
         /\ f.kind = "callback" => f.priority \in Level /\ f.expiration \in Int
         /\ f.kind = "priority" => f.priority \in Level /\ f.startTime \in -1 .. MaxTime
  BY DEF Frame

LEMMA StackElements ==
  ASSUME TypeOK
  PROVE  /\ Len(stack) \in Nat
         /\ \A k \in 1 .. Len(stack) : stack[k] \in Frame
         /\ stack # <<>> =>
              /\ 1 \in 1 .. Len(stack) /\ Head(stack) = stack[1]
              /\ Tail(stack) \in Seq(Frame)
              /\ Len(Tail(stack)) = Len(stack) - 1
              /\ \A k \in 1 .. Len(stack) - 1 : Tail(stack)[k] = stack[k + 1]
  BY LenProperties, ElementOfSeq, EmptySeq, HeadTailProperties DEF TypeOK
\* A flush on top of the stack is alone; a callback on top is called by a flush.
LEMMA NoElements ==
  ASSUME NEW S, NEW s \in Seq(S), Len(s) = 0
  PROVE  s = <<>>
  BY EmptySeq

LEMMA OneElement ==
  ASSUME NEW S, NEW s \in Seq(S), Len(s) = 1
  PROVE  s # <<>> /\ Head(s) = s[1] /\ Tail(s) = <<>>
<1>1. s # <<>>
  BY EmptySeq
<1>2. Tail(s) \in Seq(S) /\ Len(Tail(s)) = 0
  BY <1>1, HeadTailProperties
<1>3. Tail(s) = <<>>
  BY <1>2, NoElements, Zenon
<1>4. Head(s) = s[1]
  BY <1>1
<1> QED  BY <1>1, <1>3, <1>4

LEMMA TwoElements ==
  ASSUME NEW S, NEW a \in S, NEW b \in S
  PROVE  <<a>> \o <<b>> = <<a, b>>
<1> DEFINE s == <<a>> \o <<b>>
           t == <<a, b>>
<1>1. s \in Seq(S) /\ Len(s) = 2 /\ s[1] = a /\ s[2] = b
  OBVIOUS
<1>2. t \in Seq(S) /\ Len(t) = 2 /\ t[1] = a /\ t[2] = b
  OBVIOUS
<1> HIDE DEF s, t
<1>3. \A i \in 1 .. Len(s) : s[i] = t[i]
  BY <1>1, <1>2
<1>4. s = t
  BY <1>1, <1>2, <1>3, SeqEqual, Zenon
<1> QED  BY <1>4 DEF s, t

LEMMA FlushOnTop ==
  ASSUME Base, TopIs("flush")
  PROVE  /\ Len(stack) = 1 /\ Tail(stack) = <<>>
         /\ Head(stack) \in Frame /\ Head(stack).kind = "flush"
         /\ Head(stack).didTimeout = FALSE
         /\ isPerformingWork
<1> DEFINE top == Head(stack)
           rest == Tail(stack)
<1>1. stack # <<>> /\ top.kind = "flush"
  BY DEF TopIs
<1>2. /\ Len(stack) \in Nat /\ 1 \in 1 .. Len(stack) /\ top = stack[1]
      /\ stack[1] \in Frame
      /\ rest \in Seq(Frame) /\ Len(rest) = Len(stack) - 1
  BY <1>1, StackElements DEF Base
<1> HIDE DEF top, rest
<1>3. 1 = Len(stack) /\ stack[1].didTimeout = FALSE
  BY <1>1, <1>2, Zenon DEF Base, StackShape
<1>4. isPerformingWork
  BY <1>1, <1>2, <1>3, Zenon DEF Base, StackShape, Outermost
<1>5. 1 - 1 = 0
  OBVIOUS
<1>6. rest = <<>>
  BY <1>2, <1>3, <1>5, NoElements, Zenon
<1> QED  BY <1>1, <1>2, <1>3, <1>4, <1>6, Zenon DEF top, rest

LEMMA CallbackOnTop ==
  ASSUME Base, TopIs("callback")
  PROVE  /\ Len(stack) = 2
         /\ Tail(stack) \in Seq(Frame) /\ Len(Tail(stack)) = 1 /\ Tail(stack) # <<>>
         /\ Tail(stack)[1] = stack[2] /\ Head(Tail(stack)) = stack[2]
         /\ Tail(Tail(stack)) = <<>>
         /\ stack[2].kind = "flush" /\ stack[2].didTimeout = FALSE
         /\ Head(stack).node \in Created
         /\ Head(stack).priority \in Level /\ Head(stack).expiration \in Int
         /\ isPerformingWork
<1> DEFINE top == Head(stack)
           rest == Tail(stack)
<1>1. stack # <<>> /\ top.kind = "callback"
  BY DEF TopIs
<1>2. /\ Len(stack) \in Nat /\ 1 \in 1 .. Len(stack) /\ top = stack[1]
      /\ rest \in Seq(Frame) /\ Len(rest) = Len(stack) - 1
      /\ \A k \in 1 .. Len(stack) - 1 : rest[k] = stack[k + 1]
      /\ \A k \in 1 .. Len(stack) : stack[k] \in Frame
  BY <1>1, StackElements DEF Base
<1> HIDE DEF top, rest
<1>3. /\ 1 + 1 = Len(stack) /\ stack[Len(stack)].kind = "flush"
      /\ stack[1].node \in Created
  BY <1>1, <1>2, Zenon DEF Base, StackShape, Outermost
<1>4. 1 + 1 = 2 /\ 2 \in 1 .. 2 /\ 1 \in 1 .. 2 - 1 /\ 2 - 1 = 1
  OBVIOUS
<1>5. Len(stack) = 2 /\ stack[2].kind = "flush"
  BY <1>3, <1>4, Zenon
<1>6. stack[2].didTimeout = FALSE
  BY <1>4, <1>5, Zenon DEF Base, StackShape
<1>7. isPerformingWork
  BY <1>1, <1>3, Zenon DEF Base, StackShape, Outermost
<1>8. Len(rest) = 1 /\ rest[1] = stack[2]
  BY <1>2, <1>4, <1>5, Zenon
<1>9. rest # <<>> /\ Head(rest) = rest[1] /\ Tail(rest) = <<>>
  BY <1>2, <1>8, OneElement, Zenon
<1>10. top.priority \in Level /\ top.expiration \in Int
  BY <1>1, <1>2, FrameFields, Zenon
<1> QED
  BY <1>2, <1>3, <1>5, <1>6, <1>7, <1>8, <1>9, <1>10, Zenon DEF top, rest

\* What scheduleCallback computes is one of the expirations.
LEMMA StartPlusTimeout ==
  ASSUME Base, NEW level, NEW timeout \in {TimeoutFor(level)} \cup CustomTimeouts
  PROVE  StartTime + timeout \in Expirations
<1>1. StartTime \in 0 .. MaxTime
  BY SchedulerAssumption DEF Base, TypeOK, StartTime
<1>2. timeout \in {TimeoutOf[p] : p \in Priority} \cup CustomTimeouts
  BY DEF TimeoutFor, Priority, NormalPriority
<1> QED  BY <1>1, <1>2, ExpirationsAssumption

LEMMA NextIsListStep ==
  ASSUME Base, [Next]_vars
  PROVE  ListStep
<1>1. CASE Schedule
  <2>1. PICK level \in Levels :
          \E timeout \in {TimeoutFor(level)} \cup CustomTimeouts :
            ScheduleCallback(level, timeout)
    BY <1>1 DEF Schedule
  <2>2. PICK timeout \in {TimeoutFor(level)} \cup CustomTimeouts :
          ScheduleCallback(level, timeout)
    BY <2>1
  <2> QED  BY <2>2, StartPlusTimeout DEF ScheduleCallback, ListStep
<1>2. CASE \E n \in Created : CancelCallback(n)
  BY <1>2, Zenon DEF CancelCallback, ListStep
<1>3. CASE FlushFirstCallback
  BY <1>3, Zenon DEF FlushFirstCallback, ListStep
<1>4. CASE CallbackReturnsContinuation
  <2>1. TopIs("callback") /\ InsertContinuation(expires[Head(stack).node])
    BY <1>4, Zenon DEF CallbackReturnsContinuation, LeaveCallback
  <2> QED  BY <2>1, CallbackOnTop, Zenon DEF ListStep
<1>5. CASE UNCHANGED qvars
  BY <1>5 DEF ListStep
<1>6. CASE PauseExecution \/ ContinueExecution \/ RunNext \/ HandlerReturns
             \/ HandlerThrows \/ FlushReturns \/ CallbackReturns \/ CallbackThrows \/ Tick
  BY <1>5, <1>6, Zenon
  DEF qvars, nodes, PauseExecution, ContinueExecution, RunNext, EnterPriority,
      HandlerReturns, HandlerThrows, LeavePriority, FlushReturns, CallbackReturns,
      CallbackThrows, Tick
<1>7. CASE \/ \E level \in Levels : RunWithPriority(level)
           \/ \E level \in Levels \cup {NormalPriority} : RunWrapped(level)
  BY <1>5, <1>7, Zenon DEF qvars, nodes, RunWithPriority, RunWrapped, EnterPriority
<1>8. CASE \E didTimeout \in BOOLEAN : HostFlush(didTimeout)
  BY <1>5, <1>8, Zenon DEF qvars, nodes, HostFlush
<1>9. CASE UNCHANGED vars
  BY <1>5, <1>9, Zenon DEF qvars, vars, nodes
<1> QED
  BY <1>1, <1>2, <1>3, <1>4, <1>6, <1>7, <1>8, <1>9, Zenon DEF Next
-----------------------------------------------------------------------------
(***************************************************************************)
(* Type correctness, in three parts: the list, the host and the rest.      *)
(***************************************************************************)
HostTypeOK ==
  isHostCallbackScheduled \in BOOLEAN /\ hostRequest \in Expirations \cup {NoRequest}

ContextTypeOK ==
  /\ isPerformingWork \in BOOLEAN
  /\ isSchedulerPaused \in BOOLEAN
  /\ currentHostCallbackDidTimeout \in BOOLEAN
  /\ currentPriorityLevel \in Level
  /\ currentEventStartTime \in -1 .. MaxTime
  /\ currentExpirationTime \in Int
  /\ stack \in Seq(Frame)
  /\ now \in 0 .. MaxTime

NodeTypeOK == priority \in [Node -> Level] /\ turn \in [Node -> 0 .. MaxNode]

LEMMA TypeParts ==
  TypeOK <=> QueueTypeOK /\ NoExpirationUnknown /\ NodeTypeOK /\ ContextTypeOK /\ HostTypeOK
  BY DEF TypeOK, NoExpirationUnknown, NodeTypeOK, ContextTypeOK, HostTypeOK

\* The first node of a list that is not empty.
LEMMA FirstOfQueue ==
  ASSUME QueueTypeOK, queue # <<>>
  PROVE  /\ Head(queue) \in Created /\ Head(queue) = queue[1]
         /\ 1 \in 1 .. Len(queue)
         /\ expires[Head(queue)] \in Int
<1>1. queue \in Seq(Created)
  BY DEF QueueTypeOK
<1>2. Head(queue) \in Created
  BY <1>1, HeadTailProperties
<1>3. Head(queue) = queue[1] /\ 1 \in 1 .. Len(queue)
  BY <1>1, EmptySeq
<1> QED  BY <1>2, <1>3, QueueElements, Zenon

\* The request is for the expiration of the first node.
LEMMA AskHostTypes ==
  ASSUME HostTypeOK, QueueTypeOK', NoExpirationUnknown', ScheduleHostCallbackIfNeeded
  PROVE  HostTypeOK'
<1>1. CASE UNCHANGED host
  BY <1>1 DEF host, HostTypeOK
<1>2. CASE queue' # <<>> /\ isHostCallbackScheduled' = TRUE
             /\ hostRequest' = expires'[Head(queue')]
  <2>1. (queue # <<>> => Head(queue) \in Created)'
    BY FirstOfQueue, PTL
  <2> QED  BY <1>2, <2>1, Zenon DEF NoExpirationUnknown, HostTypeOK
<1> QED  BY <1>1, <1>2, Zenon DEF ScheduleHostCallbackIfNeeded
\* Stepping into a call and out of it.
LEMMA PushFrame ==
  ASSUME TypeOK, NEW f \in Frame
  PROVE  /\ Cons(f, stack) \in Seq(Frame)
         /\ Cons(f, stack) # <<>>
         /\ Len(Cons(f, stack)) = Len(stack) + 1
         /\ Cons(f, stack)[1] = f /\ Head(Cons(f, stack)) = f
         /\ \A k \in 1 .. Len(stack) : Cons(f, stack)[k + 1] = stack[k]
         /\ Tail(Cons(f, stack)) = stack
<1>1. stack \in Seq(Frame) /\ <<f>> \in Seq(Frame) /\ Cons(f, stack) = <<f>> \o stack
  BY DEF TypeOK, Cons
<1> QED  BY <1>1

LEMMA PopFrame ==
  ASSUME Base, stack # <<>>
  PROVE  /\ Head(stack) \in Frame /\ Head(stack) = stack[1] /\ 1 \in 1 .. Len(stack)
         /\ Tail(stack) \in Seq(Frame)
         /\ Len(Tail(stack)) = Len(stack) - 1
         /\ \A k \in 1 .. Len(stack) - 1 : Tail(stack)[k] = stack[k + 1]
  BY StackElements DEF Base

\* The fields of a node that is not the list's business.
LEMMA DescribeTypes ==
  ASSUME QueueTypeOK, NodeTypeOK, allocated < MaxNode,
         NEW level \in Level, NEW whose \in 0 .. MaxNode, Describe(level, whose)
  PROVE  NodeTypeOK'
  BY DEF NodeTypeOK, Describe

\* A flush pushes the frame of the callback and remembers that it is looping.
LoopFrame == [Head(stack) EXCEPT !.at = "loop"]

CallbackFrame ==
  [kind |-> "callback", node |-> Head(queue), priority |-> currentPriorityLevel,
   expiration |-> currentExpirationTime]

LEMMA FlushFirstStack ==
  ASSUME Base, FlushFirstCallback
  PROVE  /\ stack' = <<CallbackFrame, LoopFrame>>
         /\ stack' \in Seq(Frame)
         /\ CallbackFrame.kind = "callback" /\ CallbackFrame.node = Head(queue)
         /\ Head(queue) \in Created
         /\ LoopFrame.kind = "flush" /\ LoopFrame.didTimeout = FALSE
<1>1. TopIs("flush") /\ queue # <<>>
  BY DEF FlushFirstCallback, RemoveFirstNode
<1>2. Tail(stack) = <<>> /\ Head(stack) \in Frame /\ Head(stack).kind = "flush"
        /\ Head(stack).didTimeout = FALSE
  BY <1>1, FlushOnTop
<1>3. Head(queue) \in Created /\ Head(queue) \in Node
  <2>1. Head(queue) \in Created
    BY <1>1, FirstOfQueue DEF Base, TypeOK
  <2> QED  BY <2>1, QueueAssumption DEF Base, TypeOK, QueueTypeOK, Created, Node
<1>4. LoopFrame \in Frame /\ LoopFrame.kind = "flush" /\ LoopFrame.didTimeout = FALSE
  BY <1>2, FrameFields DEF LoopFrame
<1>5. CallbackFrame \in Frame
  BY <1>3 DEF CallbackFrame, Frame, Base, TypeOK
<1>6. stack' = Cons(CallbackFrame, <<LoopFrame>> \o <<>>)
  BY <1>2, Zenon DEF FlushFirstCallback, CallbackFrame, LoopFrame
<1> HIDE DEF CallbackFrame, LoopFrame
<1>7. stack' = <<CallbackFrame, LoopFrame>>
  <2>1. <<LoopFrame>> \in Seq(Frame)
    BY <1>4
  <2>2. <<LoopFrame>> \o <<>> = <<LoopFrame>>
    BY <2>1, ConcatEmptySeq, Zenon
  <2>3. <<CallbackFrame>> \o <<LoopFrame>> = <<CallbackFrame, LoopFrame>>
    BY <1>4, <1>5, TwoElements, Zenon
  <2> QED  BY <1>6, <2>2, <2>3, Zenon DEF Cons
<1>8. stack' \in Seq(Frame)
  BY <1>4, <1>5, <1>7
<1> QED  BY <1>3, <1>4, <1>7, <1>8 DEF CallbackFrame
\* Every step keeps the types: one case per action.
LEMMA StepKeepsTypes ==
  ASSUME Base, [Next]_vars
  PROVE  TypeOK' /\ QueueSorted'
<1>1. QueueTypeOK' /\ QueueSorted' /\ NoExpirationUnknown'
  BY NextIsListStep, ListStepKeepsSorted, ListStepKeepsNodes, TypeParts, Zenon DEF Base
<1>2. QueueTypeOK /\ NodeTypeOK /\ ContextTypeOK /\ HostTypeOK
  BY TypeParts, Zenon DEF Base
<1> DEFINE Rest == NodeTypeOK /\ ContextTypeOK /\ HostTypeOK
<1>3. ScheduleHostCallbackIfNeeded \/ UNCHANGED host => HostTypeOK'
  BY <1>1, <1>2, AskHostTypes DEF HostTypeOK, host
<1> SUFFICES Rest'
  BY <1>1, TypeParts, PTL
<1>4. ASSUME NEW level \in Levels, NEW timeout, ScheduleCallback(level, timeout)
      PROVE  Rest'
  <2>1. NodeTypeOK'
    <3>1. level \in Level /\ allocated < MaxNode /\ allocated + 1 \in 0 .. MaxNode
      BY <1>2, <1>4, SchedulerAssumption, QueueAssumption
      DEF ScheduleCallback, InsertNew, LinkNew, QueueTypeOK
    <3> QED  BY <1>2, <1>4, <3>1, DescribeTypes DEF ScheduleCallback
  <2>2. ContextTypeOK'
    BY <1>2, <1>4 DEF ScheduleCallback, ContextTypeOK, context
  <2> QED  BY <1>3, <1>4, <2>1, <2>2, Zenon DEF ScheduleCallback
<1>5. ASSUME NEW n, CancelCallback(n)
      PROVE  Rest'
  BY <1>2, <1>5
  DEF CancelCallback, NodeTypeOK, ContextTypeOK, HostTypeOK, context, host
<1>6. CASE PauseExecution \/ ContinueExecution
  <2>1. NodeTypeOK' /\ ContextTypeOK'
    BY <1>2, <1>6
    DEF PauseExecution, ContinueExecution, NodeTypeOK, ContextTypeOK, context, nodes
  <2> QED  BY <1>3, <1>6, <2>1, Zenon DEF PauseExecution, ContinueExecution
<1>7. ASSUME NEW level \in Level, EnterPriority(level)
      PROVE  Rest'
  <2> DEFINE f == [kind |-> "priority", priority |-> currentPriorityLevel,
                   startTime |-> currentEventStartTime]
  <2>1. f \in Frame
    BY <1>2 DEF Frame, ContextTypeOK
  <2>2. stack' \in Seq(Frame)
    BY <1>7, <2>1, PushFrame, Zenon DEF EnterPriority, Base
  <2>3. now \in -1 .. MaxTime
    BY <1>2 DEF ContextTypeOK
  <2> QED
    BY <1>2, <1>7, <2>2, <2>3
    DEF EnterPriority, NodeTypeOK, ContextTypeOK, HostTypeOK, host, nodes
<1>8. CASE HandlerReturns \/ HandlerThrows
  <2>1. LeavePriority /\ stack # <<>> /\ Head(stack).kind = "priority"
    BY <1>8 DEF HandlerReturns, HandlerThrows, LeavePriority, TopIs
  <2>2. /\ Tail(stack) \in Seq(Frame) /\ Head(stack).priority \in Level
        /\ Head(stack).startTime \in -1 .. MaxTime
    BY <2>1, PopFrame, FrameFields, Zenon
  <2>3. NodeTypeOK' /\ ContextTypeOK'
    BY <1>2, <2>1, <2>2 DEF LeavePriority, NodeTypeOK, ContextTypeOK, nodes
  <2> QED  BY <1>3, <1>8, <2>3, Zenon DEF HandlerReturns, HandlerThrows
<1>9. ASSUME NEW didTimeout \in BOOLEAN, HostFlush(didTimeout)
      PROVE  Rest'
  <2> DEFINE f == [kind |-> "flush", at |-> "start",
                   didTimeout |-> currentHostCallbackDidTimeout]
  <2>1. f \in Frame
    BY <1>2 DEF Frame, ContextTypeOK
  <2> HIDE DEF f
  <2>2. stack' = stack \/ stack' = <<f>>
    BY <1>9 DEF HostFlush, f
  <2>3. stack' \in Seq(Frame)
    <3>1. <<f>> \in Seq(Frame)
      BY <2>1
    <3> QED  BY <1>2, <2>2, <3>1, Zenon DEF ContextTypeOK
  <2> QED
    BY <1>2, <1>9, <2>3
    DEF HostFlush, NodeTypeOK, ContextTypeOK, HostTypeOK, nodes
<1>10. CASE FlushFirstCallback
  <2>1. stack' \in Seq(Frame) /\ Head(queue) \in Node
    <3>1. stack' \in Seq(Frame) /\ Head(queue) \in Created
      BY <1>10, FlushFirstStack
    <3> QED  BY <1>2, <3>1, QueueAssumption DEF QueueTypeOK, Created, Node
  <2>2. priority[Head(queue)] \in Level /\ expires[Head(queue)] \in Int
    BY <1>2, <2>1 DEF QueueTypeOK, NodeTypeOK
  <2> QED
    BY <1>2, <1>10, <2>1, <2>2
    DEF FlushFirstCallback, NodeTypeOK, ContextTypeOK, HostTypeOK, host
<1>11. CASE FlushReturns
  <2>1. /\ TopIs("flush") /\ FinishFlush(Head(stack), Tail(stack))
        /\ NodeTypeOK'
        /\ UNCHANGED <<isSchedulerPaused, currentPriorityLevel, currentEventStartTime,
                       currentExpirationTime, now>>
    BY <1>2, <1>11 DEF FlushReturns, nodes, NodeTypeOK
  <2>2. stack' = <<>> /\ isPerformingWork' = FALSE
        /\ currentHostCallbackDidTimeout' = FALSE
    BY <2>1, FlushOnTop, Zenon DEF FinishFlush
  <2>3. ContextTypeOK'
    <3>1. <<>> \in Seq(Frame)
      BY EmptySeq
    <3> QED  BY <1>2, <2>1, <2>2, <3>1 DEF ContextTypeOK
  <2> QED  BY <1>3, <2>1, <2>3, Zenon DEF FinishFlush
<1>12. ASSUME LeaveCallback
       PROVE  /\ currentPriorityLevel' \in Level
              /\ currentExpirationTime' \in Int
              /\ UNCHANGED <<currentEventStartTime, isSchedulerPaused, now>>
              /\ Tail(stack) \in Seq(Frame)
  <2>1. TopIs("callback")
    BY <1>12 DEF LeaveCallback
  <2> QED  BY <1>12, <2>1, CallbackOnTop, Zenon DEF LeaveCallback
<1>13. CASE CallbackReturns
  BY <1>2, <1>12, <1>13
  DEF CallbackReturns, NodeTypeOK, ContextTypeOK, HostTypeOK, host, nodes
<1>14. CASE CallbackReturnsContinuation
  <2>1. NodeTypeOK'
    <3> DEFINE node == Head(stack).node
    <3>1. node \in Created
      BY <1>14, CallbackOnTop, Zenon DEF CallbackReturnsContinuation, LeaveCallback
    <3> HIDE DEF node
    <3>2. priority[node] \in Level /\ turn[node] \in 0 .. MaxNode
      BY <1>2, <3>1, QueueAssumption DEF NodeTypeOK, QueueTypeOK, Created, Node
    <3>3. allocated < MaxNode /\ Describe(priority[node], turn[node])
      BY <1>14 DEF CallbackReturnsContinuation, InsertContinuation, LinkNew, node
    <3> QED  BY <1>2, <3>2, <3>3, DescribeTypes
  <2>2. ContextTypeOK'
    BY <1>2, <1>12, <1>14 DEF CallbackReturnsContinuation, ContextTypeOK
  <2> QED  BY <1>3, <1>14, <2>1, <2>2, Zenon DEF CallbackReturnsContinuation
<1>15. CASE CallbackThrows
  <2>1. /\ LeaveCallback /\ FinishFlush(Head(Tail(stack)), Tail(Tail(stack)))
        /\ NodeTypeOK'
    BY <1>2, <1>15 DEF CallbackThrows, nodes, NodeTypeOK
  <2>2. stack' = <<>> /\ isPerformingWork' = FALSE
        /\ currentHostCallbackDidTimeout' = FALSE
    BY <2>1, CallbackOnTop, Zenon DEF FinishFlush, LeaveCallback
  <2>3. ContextTypeOK'
    <3>1. <<>> \in Seq(Frame)
      BY EmptySeq
    <3> QED  BY <1>2, <1>12, <2>1, <2>2, <3>1 DEF ContextTypeOK
  <2> QED  BY <1>3, <2>1, <2>3, Zenon DEF FinishFlush
<1>16. CASE Tick
  BY <1>2, <1>16, SchedulerAssumption
  DEF Tick, NodeTypeOK, ContextTypeOK, HostTypeOK, context, host, nodes
<1>17. CASE UNCHANGED vars
  BY <1>2, <1>17
  DEF vars, NodeTypeOK, ContextTypeOK, HostTypeOK, context, host, nodes
<1>18. \A level \in Levels \cup {NormalPriority} : level \in Level
  BY SchedulerAssumption DEF NormalPriority, Level
<1>19. CASE \/ \E level \in Levels : RunWithPriority(level)
            \/ \E level \in Levels \cup {NormalPriority} : RunWrapped(level)
            \/ RunNext
  <2>1. NormalPriority \in Level /\ currentPriorityLevel \in Level
    BY <1>2 DEF NormalPriority, Level, ContextTypeOK
  <2>2. \E level \in Level : EnterPriority(level)
    BY <1>18, <1>19, <2>1, Zenon DEF RunWithPriority, RunWrapped, RunNext
  <2> QED  BY <1>7, <2>2
<1> QED
  BY <1>4, <1>5, <1>6, <1>8, <1>9, <1>10, <1>11, <1>13, <1>14, <1>15, <1>16, <1>17,
     <1>19, Zenon DEF Next, Schedule
-----------------------------------------------------------------------------
(***************************************************************************)
(* The stack keeps its shape: one case per way of changing it.             *)
(***************************************************************************)
LEMMA StepKeepsShape ==
  ASSUME Base, [Next]_vars
  PROVE  StackShape'
<1> DEFINE n == Len(stack)
<1>1. /\ n \in Nat
      /\ \A k \in 1 .. n : stack[k] \in Frame
  BY StackElements DEF Base
<1>2. \A m \in Created : m \in Created'
  BY NextIsListStep, ListStepKeepsNodes, TypeParts, Zenon DEF Base
<1>3. StackShape
  BY DEF Base
<1>4. ASSUME UNCHANGED <<stack, isPerformingWork, currentHostCallbackDidTimeout>>
      PROVE  StackShape'
  BY <1>2, <1>3, <1>4, Zenon DEF StackShape, Outermost
<1>5. ASSUME NEW level, EnterPriority(level)
      PROVE  StackShape'
  <2> DEFINE f == [kind |-> "priority", priority |-> currentPriorityLevel,
                   startTime |-> currentEventStartTime]
  <2>1. f \in Frame /\ f.kind = "priority"
    BY DEF Frame, Base, TypeOK
  <2>2. stack' = Cons(f, stack)
    BY <1>5 DEF EnterPriority
  <2> HIDE DEF f
  <2>3. /\ Len(stack') = n + 1 /\ stack'[1] = f /\ stack' # <<>>
        /\ \A k \in 1 .. n : stack'[k + 1] = stack[k]
    BY <2>1, <2>2, PushFrame, Zenon DEF Base
  <2>4. ASSUME NEW k \in 1 .. n + 1, k # 1
        PROVE  k - 1 \in 1 .. n /\ stack'[k] = stack[k - 1]
    BY <1>1, <2>3, <2>4
  <2>5. stack # <<>> <=> n # 0
    BY EmptySeq DEF Base, TypeOK
  <2>6. n # 0 => stack'[n + 1] = stack[n]
    BY <1>1, <2>3
  <2>7. n = 0 => stack'[n + 1].kind = "priority"
    BY <2>1, <2>3
  <2>8. ASSUME NEW k \in 1 .. n + 1
        PROVE  /\ stack'[k].kind = "flush" => k = n + 1 /\ stack'[k].didTimeout = FALSE
               /\ stack'[k].kind = "callback" =>
                    /\ k + 1 = n + 1 /\ stack'[n + 1].kind = "flush"
                    /\ stack'[k].node \in Created'
    <3>1. CASE k = 1
      BY <2>1, <2>3, <3>1
    <3>2. CASE k # 1
      <4>1. k - 1 \in 1 .. n /\ stack'[k] = stack[k - 1]
        BY <2>4, <3>2
      <4>2. n # 0 /\ (k - 1 = n => k = n + 1) /\ (k - 1 + 1 = n => k + 1 = n + 1)
        BY <1>1, <4>1
      <4> QED  BY <1>2, <1>3, <2>6, <4>1, <4>2, Zenon DEF StackShape, Outermost
    <3> QED  BY <3>1, <3>2
  <2>9. isPerformingWork <=> stack'[n + 1].kind = "flush"
    BY <1>3, <2>5, <2>6, <2>7 DEF StackShape, Outermost
  <2> QED
    BY <1>3, <1>5, <2>3, <2>8, <2>9, Zenon DEF EnterPriority, StackShape, Outermost
<1>6. ASSUME stack # <<>>, stack' = Tail(stack), Head(stack).kind # "flush",
             UNCHANGED <<isPerformingWork, currentHostCallbackDidTimeout>>
      PROVE  StackShape'
  <2>1. /\ n \in Nat \ {0} /\ Len(stack') = n - 1
        /\ \A k \in 1 .. n - 1 : stack'[k] = stack[k + 1]
        /\ stack[1].kind # "flush"
        /\ stack' \in Seq(Frame)
    BY <1>1, <1>6, PopFrame
  <2>2. stack' = <<>> <=> n = 1
    <3>1. stack' = <<>> => Len(stack') = 0
      BY EmptySeq
    <3>2. Len(stack') = 0 => stack' = <<>>
      BY <2>1, NoElements
    <3> QED  BY <2>1, <3>1, <3>2
  <2>3. n # 1 => stack'[n - 1] = stack[n]
    BY <2>1
  <2>4. ASSUME NEW k \in 1 .. n - 1
        PROVE  /\ stack'[k].kind = "flush" => k = n - 1 /\ stack'[k].didTimeout = FALSE
               /\ stack'[k].kind = "callback" =>
                    /\ k + 1 = n - 1 /\ stack'[n - 1].kind = "flush"
                    /\ stack'[k].node \in Created'
    <3>1. k + 1 \in 1 .. n /\ stack'[k] = stack[k + 1]
      BY <2>1
    <3>2. n # 1 /\ (k + 1 = n => k = n - 1) /\ (k + 1 + 1 = n => k + 1 = n - 1)
      BY <2>1, <3>1
    <3> QED  BY <1>2, <1>3, <2>3, <3>1, <3>2, Zenon DEF StackShape, Outermost
  <2>5. isPerformingWork <=> stack' # <<>> /\ stack'[n - 1].kind = "flush"
    BY <1>3, <1>6, <2>1, <2>2, <2>3, Zenon DEF StackShape, Outermost
  <2> QED
    BY <1>3, <1>6, <2>1, <2>4, <2>5, Zenon DEF StackShape, Outermost
<1>7. ASSUME stack' = <<>>, isPerformingWork' = FALSE,
             currentHostCallbackDidTimeout' = FALSE
      PROVE  StackShape'
  <2>1. Len(stack') = 0 /\ \A k : ~(k \in 1 .. 0)
    BY <1>7, EmptySeq
  <2> QED  BY <1>7, <2>1, Zenon DEF StackShape, Outermost
<1>8. ASSUME NEW f, stack' = <<f>>, f.kind = "flush", f.didTimeout = FALSE,
             isPerformingWork' = TRUE
      PROVE  StackShape'
  <2>1. Len(stack') = 1 /\ stack'[1] = f /\ stack' # <<>>
    BY <1>8
  <2>2. \A k \in 1 .. 1 : k = 1
    OBVIOUS
  <2>3. "flush" # "callback"
    OBVIOUS
  <2> QED  BY <1>8, <2>1, <2>2, <2>3, Zenon DEF StackShape, Outermost
<1>9. CASE \E didTimeout \in BOOLEAN : HostFlush(didTimeout)
  <2>1. PICK didTimeout \in BOOLEAN : HostFlush(didTimeout)
    BY <1>9
  <2>2. CASE Paused
    BY <1>4, <2>1, <2>2, Zenon DEF HostFlush
  <2>3. CASE ~Paused
    <3> DEFINE f == [kind |-> "flush", at |-> "start",
                     didTimeout |-> currentHostCallbackDidTimeout]
    <3>1. f.kind = "flush" /\ f.didTimeout = currentHostCallbackDidTimeout
      OBVIOUS
    <3>2. currentHostCallbackDidTimeout = FALSE
      BY <1>3, <2>1 DEF HostFlush, StackShape, Base, TypeOK
    <3> QED  BY <1>8, <2>1, <2>3, <3>1, <3>2, Zenon DEF HostFlush
  <2> QED  BY <2>2, <2>3
<1>10. CASE FlushFirstCallback
  <2> DEFINE c == CallbackFrame
             f == LoopFrame
  <2>1. /\ stack' = <<c, f>>
        /\ c.kind = "callback" /\ c.node \in Created'
        /\ f.kind = "flush" /\ f.didTimeout = FALSE
    BY <1>2, <1>10, FlushFirstStack, Zenon
  <2>2. isPerformingWork' = isPerformingWork /\ isPerformingWork
    BY <1>10, FlushOnTop, Zenon DEF FlushFirstCallback
  <2> HIDE DEF c, f
  <2>3. Len(stack') = 2 /\ stack'[1] = c /\ stack'[2] = f /\ stack' # <<>>
    BY <2>1
  <2>4. "flush" # "callback" /\ 1 + 1 = 2 /\ \A k \in 1 .. 2 : k = 1 \/ k = 2
    OBVIOUS
  <2> QED  BY <2>1, <2>2, <2>3, <2>4, Zenon DEF StackShape, Outermost
<1>11. CASE HandlerReturns \/ HandlerThrows
  <2>1. /\ stack # <<>> /\ stack' = Tail(stack) /\ Head(stack).kind = "priority"
        /\ UNCHANGED <<isPerformingWork, currentHostCallbackDidTimeout>>
    BY <1>11, Zenon DEF HandlerReturns, HandlerThrows, LeavePriority, TopIs
  <2> QED  BY <1>6, <2>1
<1>12. CASE CallbackReturns \/ CallbackReturnsContinuation
  <2>1. /\ stack # <<>> /\ stack' = Tail(stack) /\ Head(stack).kind = "callback"
        /\ UNCHANGED <<isPerformingWork, currentHostCallbackDidTimeout>>
    BY <1>12, Zenon
    DEF CallbackReturns, CallbackReturnsContinuation, LeaveCallback, TopIs
  <2> QED  BY <1>6, <2>1
<1>13. CASE FlushReturns
  BY <1>7, <1>13, FlushOnTop, Zenon DEF FlushReturns, FinishFlush
<1>14. CASE CallbackThrows
  BY <1>7, <1>14, CallbackOnTop, Zenon DEF CallbackThrows, FinishFlush, LeaveCallback
<1>15. CASE \/ \E level \in Levels : RunWithPriority(level)
            \/ \E level \in Levels \cup {NormalPriority} : RunWrapped(level)
            \/ RunNext
  BY <1>5, <1>15, Zenon DEF RunWithPriority, RunWrapped, RunNext
<1>16. CASE Schedule
  BY <1>4, <1>16, Zenon DEF Schedule, ScheduleCallback, context
<1>17. CASE \E m \in Created : CancelCallback(m)
  BY <1>4, <1>17, Zenon DEF CancelCallback, context
<1>18. CASE PauseExecution \/ ContinueExecution \/ Tick \/ UNCHANGED vars
  BY <1>4, <1>18, Zenon DEF PauseExecution, ContinueExecution, Tick, vars, context
<1> QED
  BY <1>9, <1>10, <1>11, <1>12, <1>13, <1>14, <1>15, <1>16, <1>17, <1>18, Zenon
  DEF Next
-----------------------------------------------------------------------------
(***************************************************************************)
(* Callbacks take turns.  TakesTurns alone is not inductive: a callback    *)
(* that returns a continuation gives it its own turn, so everything that   *)
(* expires with the running callback must have a later turn than it.       *)
(***************************************************************************)
TurnsBounded == \A n \in Created : turn[n] \in 0 .. allocated

Running == {stack[k].node : k \in {j \in 1 .. Len(stack) : stack[j].kind = "callback"}}

AfterRunning ==
  \A n \in Running : \A j \in 1 .. Len(queue) :
    expires[queue[j]] = expires[n] => turn[n] < turn[queue[j]]

Turns == TurnsBounded /\ TakesTurns /\ AfterRunning

\* A node with expiration e and turn t belongs at position place of the list.
FitsAt(place, e, t) ==
  /\ \A k \in 1 .. Len(queue) : k < place =>
       expires[queue[k]] < e \/ (expires[queue[k]] = e /\ turn[queue[k]] < t)
  /\ \A k \in 1 .. Len(queue) : k >= place =>
       e < expires[queue[k]] \/ (expires[queue[k]] = e /\ t < turn[queue[k]])

LEMMA LinkKeepsTurns ==
  ASSUME Base, TurnsBounded, TakesTurns,
         NEW e \in Int, NEW place \in 1 .. Len(queue) + 1, LinkedAt(place, e),
         NEW t \in 0 .. allocated + 1, Describe(priority'[allocated + 1], t),
         FitsAt(place, e, t)
  PROVE  /\ TurnsBounded' /\ TakesTurns'
         /\ turn'[allocated + 1] = t
         /\ \A n \in Created : turn'[n] = turn[n]
<1>1. /\ allocated \in Nat /\ Len(queue) \in Nat /\ allocated + 1 \in Node
      /\ \A k \in 1 .. Len(queue) : queue[k] \in Created /\ expires[queue[k]] \in Int
  BY QueueElements DEF Base, TypeOK, LinkedAt
<1>2. turn'[allocated + 1] = t
  BY <1>1 DEF Describe, Base, TypeOK
<1>3. ASSUME NEW n \in Created
      PROVE  turn'[n] = turn[n] /\ expires'[n] = expires[n] /\ turn[n] \in 0 .. allocated
  <2>1. n \in Node /\ n # allocated + 1
    BY <1>1, QueueAssumption DEF Created, Node, Base, TypeOK, QueueTypeOK
  <2>2. turn'[n] = turn[n]
    BY <1>1, <2>1 DEF Describe, Base, TypeOK
  <2> QED  BY <2>2, Zenon DEF LinkedAt, TurnsBounded
<1>4. TurnsBounded'
  <2>1. ASSUME NEW n \in 1 .. allocated + 1
        PROVE  turn'[n] \in 0 .. allocated + 1
    <3>1. CASE n = allocated + 1
      BY <1>2, <3>1
    <3>2. CASE n \in Created
      BY <1>1, <1>3, <3>2
    <3> QED  BY <1>1, <3>1, <3>2 DEF Created
  <2> QED  BY <2>1 DEF TurnsBounded, LinkedAt, Created
<1> DEFINE old(k) == IF k < place THEN k ELSE k - 1
<1>5. ASSUME NEW k \in 1 .. Len(queue) + 1, k # place
      PROVE  /\ old(k) \in 1 .. Len(queue)
             /\ k < place => old(k) < place
             /\ k > place => old(k) >= place
  BY <1>1, <1>5
<1>6. /\ queue'[place] = allocated + 1 /\ expires'[allocated + 1] = e
      /\ Len(queue') = Len(queue) + 1
  BY <1>1 DEF LinkedAt, InsertedAt
<1>7. \A k, j \in 1 .. Len(queue) + 1 : k < j /\ k # place /\ j # place => old(k) < old(j)
  BY <1>1
<1>8. ASSUME NEW k \in 1 .. Len(queue) + 1, k # place
      PROVE  queue'[k] = queue[old(k)]
  BY <1>1, <1>8 DEF LinkedAt, InsertedAt
<1> HIDE DEF old
<1>9. ASSUME NEW k \in 1 .. Len(queue) + 1, k # place
      PROVE  /\ expires'[queue'[k]] = expires[queue[old(k)]]
             /\ turn'[queue'[k]] = turn[queue[old(k)]]
  <2>1. queue'[k] = queue[old(k)] /\ queue[old(k)] \in Created
    BY <1>1, <1>5, <1>8, <1>9
  <2> QED  BY <1>3, <2>1
<1>10. TakesTurns'
  <2> SUFFICES ASSUME NEW k \in 1 .. Len(queue) + 1, NEW j \in 1 .. Len(queue) + 1,
                      k < j
               PROVE  Before(queue[k], queue[j])'
    BY <1>6 DEF TakesTurns
  <2>1. CASE k = place
    <3>1. j # place /\ old(j) \in 1 .. Len(queue) /\ old(j) >= place
      BY <1>1, <1>5, <2>1
    <3>2. \/ e < expires[queue[old(j)]]
          \/ expires[queue[old(j)]] = e /\ t < turn[queue[old(j)]]
      BY <3>1, Zenon DEF FitsAt
    <3> QED  BY <1>2, <1>6, <1>9, <2>1, <3>1, <3>2 DEF Before
  <2>2. CASE j = place
    <3>1. k # place /\ old(k) \in 1 .. Len(queue) /\ old(k) < place
      BY <1>1, <1>5, <2>2
    <3>2. \/ expires[queue[old(k)]] < e
          \/ expires[queue[old(k)]] = e /\ turn[queue[old(k)]] < t
      BY <3>1, Zenon DEF FitsAt
    <3> QED  BY <1>2, <1>6, <1>9, <2>2, <3>1, <3>2 DEF Before
  <2>3. CASE k # place /\ j # place
    <3>1. old(k) \in 1 .. Len(queue) /\ old(j) \in 1 .. Len(queue) /\ old(k) < old(j)
      BY <1>5, <1>7, <2>3
    <3>2. Before(queue[old(k)], queue[old(j)])
      BY <3>1, Zenon DEF TakesTurns
    <3> QED  BY <1>9, <2>3, <3>2 DEF Before
  <2> QED  BY <2>1, <2>2, <2>3
<1> QED  BY <1>2, <1>3, <1>4, <1>10
\* Taking a node out keeps the order of the others.
LEMMA RemoveKeepsTurns ==
  ASSUME Base, Turns, NEW place \in 1 .. Len(queue),
         RemovedAt(queue', queue, place), UNCHANGED <<allocated, expires, turn>>
  PROVE  /\ TurnsBounded' /\ TakesTurns'
         /\ \A j \in 1 .. Len(queue') : \E k \in 1 .. Len(queue) :
              queue'[j] = queue[k] /\ (place = 1 => k > 1)
<1>1. Len(queue) \in Nat /\ Len(queue') = Len(queue) - 1
  BY QueueElements DEF Base, TypeOK, RemovedAt
<1> DEFINE old(k) == IF k < place THEN k ELSE k + 1
<1>2. ASSUME NEW k \in 1 .. Len(queue) - 1
      PROVE  /\ old(k) \in 1 .. Len(queue) /\ queue'[k] = queue[old(k)]
             /\ place = 1 => old(k) > 1
  BY <1>1 DEF RemovedAt
<1>3. \A k, j \in 1 .. Len(queue) - 1 : k < j => old(k) < old(j)
  BY <1>1
<1> HIDE DEF old
<1>4. TakesTurns'
  <2> SUFFICES ASSUME NEW k \in 1 .. Len(queue) - 1, NEW j \in 1 .. Len(queue) - 1,
                      k < j
               PROVE  Before(queue[k], queue[j])'
    BY <1>1 DEF TakesTurns
  <2>1. Before(queue[old(k)], queue[old(j)])
    BY <1>2, <1>3 DEF Turns, TakesTurns
  <2>2. queue'[k] = queue[old(k)] /\ queue'[j] = queue[old(j)]
    BY <1>2
  <2> QED  BY <2>1, <2>2 DEF Before
<1>5. TurnsBounded'
  BY Zenon DEF Turns, TurnsBounded, Created
<1> QED  BY <1>1, <1>2, <1>4, <1>5

\* The running callbacks are those of the callback frames.
LEMMA RunningNodes ==
  ASSUME Base, NEW n \in Running
  PROVE  n \in Created /\ turn[n] \in Int /\ expires[n] \in Int
<1>1. PICK k \in 1 .. Len(stack) : stack[k].kind = "callback" /\ n = stack[k].node
  BY DEF Running
<1>2. n \in Created
  BY <1>1, Zenon DEF Base, StackShape
<1> QED  BY <1>2, QueueAssumption DEF Base, TypeOK, QueueTypeOK, Created, Node

\* A step that starts no callback makes none running.
LEMMA RunningShrinks ==
  ASSUME Base, [Next]_vars, ~FlushFirstCallback
  PROVE  Running' \subseteq Running
<1> DEFINE n == Len(stack)
<1>1. CASE stack' = stack
  BY <1>1, Zenon DEF Running
<1>2. CASE stack' = <<>>
  <2>1. Len(stack') = 0 /\ \A k : ~(k \in 1 .. 0)
    BY <1>2, EmptySeq
  <2> QED  BY <2>1, Zenon DEF Running
<1>3. CASE stack # <<>> /\ stack' = Tail(stack)
  <2>1. /\ n \in Nat /\ Len(stack') = n - 1
        /\ \A k \in 1 .. n - 1 : stack'[k] = stack[k + 1]
    BY <1>3, PopFrame, StackElements DEF Base
  <2>2. ASSUME NEW k \in 1 .. n - 1
        PROVE  k + 1 \in 1 .. n /\ stack'[k] = stack[k + 1]
    BY <2>1
  <2>3. ASSUME NEW k \in 1 .. n - 1, stack'[k].kind = "callback"
        PROVE  stack'[k].node \in Running
    BY <2>2, <2>3, Zenon DEF Running
  <2> QED  BY <2>1, <2>3, Zenon DEF Running
<1>4. ASSUME NEW f \in Frame, f.kind # "callback", stack' = Cons(f, stack)
      PROVE  Running' \subseteq Running
  <2>1. /\ n \in Nat /\ Len(stack') = n + 1 /\ stack'[1] = f
        /\ \A k \in 1 .. n : stack'[k + 1] = stack[k]
    BY <1>4, PushFrame, StackElements, Zenon DEF Base
  <2>2. ASSUME NEW k \in 1 .. n + 1, stack'[k].kind = "callback"
        PROVE  k - 1 \in 1 .. n /\ stack'[k] = stack[k - 1]
    <3>1. k # 1
      BY <1>4, <2>1, <2>2
    <3>2. k - 1 \in 1 .. n /\ k - 1 + 1 = k
      BY <2>1, <3>1
    <3> QED  BY <2>1, <3>2, Zenon
  <2>3. ASSUME NEW k \in 1 .. n + 1, stack'[k].kind = "callback"
        PROVE  stack'[k].node \in Running
    BY <2>2, <2>3, Zenon DEF Running
  <2> QED  BY <2>1, <2>3, Zenon DEF Running
<1>5. ASSUME NEW f, f.kind = "flush", stack' = <<f>>
      PROVE  Running' \subseteq Running
  <2>1. Len(stack') = 1 /\ stack'[1] = f
    BY <1>5
  <2>2. "flush" # "callback" /\ \A k \in 1 .. 1 : k = 1
    OBVIOUS
  <2> QED  BY <1>5, <2>1, <2>2, Zenon DEF Running
<1>6. ASSUME NEW level, EnterPriority(level)
      PROVE  Running' \subseteq Running
  <2> DEFINE f == [kind |-> "priority", priority |-> currentPriorityLevel,
                   startTime |-> currentEventStartTime]
  <2>1. f \in Frame /\ f.kind # "callback" /\ stack' = Cons(f, stack)
    BY <1>6 DEF Frame, Base, TypeOK, EnterPriority
  <2> QED  BY <1>4, <2>1, Zenon
<1>7. ASSUME NEW didTimeout, HostFlush(didTimeout)
      PROVE  Running' \subseteq Running
  <2> DEFINE f == [kind |-> "flush", at |-> "start",
                   didTimeout |-> currentHostCallbackDidTimeout]
  <2>1. f.kind = "flush" /\ (stack' = <<f>> \/ stack' = stack)
    BY <1>7 DEF HostFlush
  <2> QED  BY <1>1, <1>5, <2>1, Zenon
<1>8. CASE HandlerReturns \/ HandlerThrows \/ CallbackReturns \/ CallbackReturnsContinuation
  BY <1>3, <1>8, Zenon
  DEF HandlerReturns, HandlerThrows, LeavePriority, CallbackReturns,
      CallbackReturnsContinuation, LeaveCallback, TopIs
<1>9. CASE FlushReturns \/ CallbackThrows
  <2>1. CASE FlushReturns
    BY <1>2, <2>1, FlushOnTop, Zenon DEF FlushReturns, FinishFlush
  <2>2. CASE CallbackThrows
    BY <1>2, <2>2, CallbackOnTop, Zenon DEF CallbackThrows, FinishFlush, LeaveCallback
  <2> QED  BY <1>9, <2>1, <2>2
<1>10. CASE Schedule \/ (\E m \in Created : CancelCallback(m)) \/ PauseExecution
              \/ ContinueExecution \/ Tick \/ UNCHANGED vars
  BY <1>1, <1>10, Zenon
  DEF Schedule, ScheduleCallback, CancelCallback, PauseExecution, ContinueExecution,
      Tick, vars
<1> QED
  BY <1>6, <1>7, <1>8, <1>9, <1>10, Zenon DEF Next, RunWithPriority, RunWrapped, RunNext
LEMMA StepKeepsTurns ==
  ASSUME Base, Turns, [Next]_vars
  PROVE  Turns'
<1>1. /\ allocated \in Nat /\ Len(queue) \in Nat
      /\ \A k \in 1 .. Len(queue) :
           queue[k] \in Created /\ expires[queue[k]] \in Int /\ turn[queue[k]] \in 0 .. allocated
  BY QueueElements DEF Base, TypeOK, Turns, TurnsBounded
<1>2. ASSUME UNCHANGED <<queue, allocated, expires, turn>>, ~FlushFirstCallback
      PROVE  Turns'
  <2>1. Running' \subseteq Running
    BY <1>2, RunningShrinks
  <2>2. TurnsBounded'
    BY <1>2, Zenon DEF Turns, TurnsBounded, Created
  <2>3. TakesTurns'
    <3>1. queue' = queue /\ expires' = expires /\ turn' = turn
      BY <1>2
    <3> QED  BY <3>1 DEF Turns, TakesTurns, Before
  <2>4. AfterRunning'
    BY <1>2, <2>1, Zenon DEF Turns, AfterRunning
  <2> QED  BY <2>2, <2>3, <2>4 DEF Turns
<1>3. CASE Schedule
  <2>1. PICK level \in Levels :
          \E timeout \in {TimeoutFor(level)} \cup CustomTimeouts :
            ScheduleCallback(level, timeout)
    BY <1>3 DEF Schedule
  <2>2. PICK timeout \in {TimeoutFor(level)} \cup CustomTimeouts :
          ScheduleCallback(level, timeout)
    BY <2>1
  <2> DEFINE e == StartTime + timeout
             t == allocated + 1
  <2>3. /\ e \in Int /\ InsertNew(e) /\ Describe(level, t) /\ UNCHANGED stack
    BY <2>2, StartPlusTimeout, QueueAssumption DEF ScheduleCallback
  <2> HIDE DEF e
  <2>4. PICK place \in 1 .. Len(queue) + 1 :
          /\ LinkedAt(place, e)
          /\ \A k \in 1 .. Len(queue) : k < place => expires[queue[k]] <= e
          /\ \A k \in 1 .. Len(queue) : k >= place => e < expires[queue[k]]
    BY <2>3, InsertNewLinks DEF Base, TypeOK
  <2>5. Describe(priority'[allocated + 1], t)
    BY <2>3, <2>4 DEF Describe, LinkedAt, Base, TypeOK
  <2>6. FitsAt(place, e, t)
    BY <1>1, <2>3, <2>4 DEF FitsAt
  <2>7. t \in 0 .. allocated + 1 /\ t = allocated + 1
    BY <1>1
  <2> HIDE DEF t
  <2>8. /\ TurnsBounded' /\ TakesTurns' /\ turn'[allocated + 1] = t
        /\ \A n \in Created : turn'[n] = turn[n] /\ expires'[n] = expires[n]
    <3>1. TurnsBounded /\ TakesTurns /\ LinkedAt(place, e)
      BY <2>4 DEF Turns
    <3>2. /\ TurnsBounded' /\ TakesTurns' /\ turn'[allocated + 1] = t
          /\ \A n \in Created : turn'[n] = turn[n]
      BY <2>3, <2>5, <2>6, <2>7, <3>1, LinkKeepsTurns
    <3> QED  BY <3>1, <3>2 DEF LinkedAt
  <2>9. AfterRunning'
    <3> SUFFICES ASSUME NEW n \in Running, NEW j \in 1 .. Len(queue) + 1,
                        expires'[queue'[j]] = expires'[n]
                 PROVE  turn'[n] < turn'[queue'[j]]
      <4>1. stack' = stack
        BY <2>3
      <4>2. Running' = Running
        BY <4>1, Zenon DEF Running
      <4>3. Len(queue') = Len(queue) + 1
        BY <2>4 DEF LinkedAt, InsertedAt
      <4> QED  BY <4>2, <4>3, Zenon DEF AfterRunning
    <3>1. n \in Created /\ expires'[n] = expires[n] /\ turn'[n] = turn[n]
            /\ turn[n] \in 0 .. allocated
      BY <2>8, RunningNodes DEF Turns, TurnsBounded
    <3>2. CASE queue'[j] = allocated + 1
      BY <1>1, <2>7, <2>8, <3>1, <3>2
    <3>3. CASE queue'[j] # allocated + 1
      <4>1. PICK k \in 1 .. Len(queue) : queue'[j] = queue[k]
        BY <1>1, <2>4, <3>3 DEF LinkedAt, InsertedAt
      <4>2. expires[queue[k]] = expires[n] /\ turn'[queue'[j]] = turn[queue[k]]
        BY <1>1, <2>8, <3>1, <4>1
      <4> QED  BY <3>1, <4>1, <4>2 DEF Turns, AfterRunning
    <3> QED  BY <3>2, <3>3
  <2> QED  BY <2>8, <2>9 DEF Turns
<1>4. CASE \E m \in Created : CancelCallback(m)
  <2>1. PICK m \in Created : CancelCallback(m)
    BY <1>4
  <2>2. Unlink(m) /\ UNCHANGED <<allocated, expires, turn, stack>>
    BY <2>1 DEF CancelCallback, Unlink
  <2> Running' = Running
    BY <2>2, Zenon DEF Running
  <2>3. CASE queue' = queue
    <3>1. TurnsBounded'
      BY <2>2, Zenon DEF Turns, TurnsBounded, Created
    <3>2. TakesTurns'
      BY <2>2, <2>3 DEF Turns, TakesTurns, Before
    <3>3. AfterRunning'
      BY <2>2, <2>3, Zenon DEF Turns, AfterRunning
    <3> QED  BY <3>1, <3>2, <3>3 DEF Turns
  <2>4. CASE queue' # queue
    <3>1. PICK place \in 1 .. Len(queue) : RemovedAt(queue', queue, place)
      BY <2>2, <2>4, UnlinkRemoves DEF Base, TypeOK
    <3>2. /\ TurnsBounded' /\ TakesTurns'
          /\ \A j \in 1 .. Len(queue') : \E k \in 1 .. Len(queue) : queue'[j] = queue[k]
      BY <2>2, <3>1, RemoveKeepsTurns
    <3>3. AfterRunning'
      <4> SUFFICES ASSUME NEW n \in Running, NEW j \in 1 .. Len(queue'),
                          expires'[queue'[j]] = expires'[n]
                   PROVE  turn'[n] < turn'[queue'[j]]
        BY Zenon DEF AfterRunning
      <4>1. PICK k \in 1 .. Len(queue) : queue'[j] = queue[k]
        BY <3>2
      <4>2. expires[queue[k]] = expires[n]
        BY <2>2, <4>1
      <4> QED  BY <2>2, <4>1, <4>2 DEF Turns, AfterRunning
    <3> QED  BY <3>2, <3>3 DEF Turns
  <2> QED  BY <2>3, <2>4
<1>5. CASE FlushFirstCallback
  <2> DEFINE c == CallbackFrame
             f == LoopFrame
  <2>1. /\ stack' = <<c, f>> /\ c.node = Head(queue)
        /\ f.kind = "flush"
    BY <1>5, FlushFirstStack
  <2> HIDE DEF c, f
  <2>2. Running' \subseteq {Head(queue)}
    <3>1. Len(stack') = 2 /\ stack'[1] = c /\ stack'[2] = f
      BY <2>1
    <3>2. "flush" # "callback" /\ \A k \in 1 .. 2 : k = 1 \/ k = 2
      OBVIOUS
    <3>3. ASSUME NEW k \in 1 .. 2, stack'[k].kind = "callback"
          PROVE  stack'[k].node = Head(queue)
      BY <2>1, <3>1, <3>2, <3>3
    <3> QED  BY <3>1, <3>3, Zenon DEF Running
  <2>3. /\ queue # <<>> /\ UNCHANGED <<allocated, expires, turn>>
        /\ RemoveFirstNode
    BY <1>5 DEF FlushFirstCallback, RemoveFirstNode
  <2>4. 1 \in 1 .. Len(queue) /\ RemovedAt(queue', queue, 1) /\ Head(queue) = queue[1]
    BY <2>3, RemoveFirstRemoves, FirstOfQueue DEF Base, TypeOK
  <2>5. /\ TurnsBounded' /\ TakesTurns'
        /\ \A j \in 1 .. Len(queue') : \E k \in 1 .. Len(queue) :
             queue'[j] = queue[k] /\ k > 1
    BY <2>3, <2>4, RemoveKeepsTurns
  <2>6. \A k \in 1 .. Len(queue) : k > 1 =>
          (expires[queue[k]] = expires[queue[1]] => turn[queue[1]] < turn[queue[k]])
    BY <1>1, <2>4 DEF Turns, TakesTurns, Before
  <2>7. AfterRunning'
    <3> SUFFICES ASSUME NEW n \in Running', NEW j \in 1 .. Len(queue'),
                        expires'[queue'[j]] = expires'[n]
                 PROVE  turn'[n] < turn'[queue'[j]]
      BY Zenon DEF AfterRunning
    <3>1. n = queue[1]
      BY <2>2, <2>4
    <3>2. PICK k \in 1 .. Len(queue) : queue'[j] = queue[k] /\ k > 1
      BY <2>5
    <3>3. expires[queue[k]] = expires[queue[1]]
      BY <2>3, <3>1, <3>2
    <3> QED  BY <2>3, <2>6, <3>1, <3>2, <3>3
  <2> QED  BY <2>5, <2>7 DEF Turns
<1>6. CASE CallbackReturnsContinuation
  <2> DEFINE n == Head(stack).node
             e == expires[n]
             t == turn[n]
  <2>1. /\ TopIs("callback") /\ stack' = Tail(stack)
        /\ InsertContinuation(e) /\ Describe(priority[n], t)
    BY <1>6 DEF CallbackReturnsContinuation, LeaveCallback
  <2>2. /\ n \in Created /\ Len(stack') = 1 /\ stack'[1] = stack[2]
        /\ stack[2].kind = "flush"
    BY <2>1, CallbackOnTop, Zenon
  <2>3. n \in Running
    <3>1. 1 \in 1 .. Len(stack) /\ Head(stack) = stack[1] /\ Head(stack).kind = "callback"
      BY <2>1, PopFrame DEF TopIs
    <3> QED  BY <3>1, Zenon DEF Running
  <2>4. e \in Int /\ t \in 0 .. allocated /\ t \in 0 .. allocated + 1
    BY <1>1, <2>2, <2>3, RunningNodes DEF Turns, TurnsBounded
  <2>5. \A k \in 1 .. Len(queue) : expires[queue[k]] = e => t < turn[queue[k]]
    BY <2>3, Zenon DEF Turns, AfterRunning
  <2> HIDE DEF n, e, t
  <2>6. PICK place \in 1 .. Len(queue) + 1 :
          /\ LinkedAt(place, e)
          /\ \A k \in 1 .. Len(queue) : k < place => expires[queue[k]] < e
          /\ \A k \in 1 .. Len(queue) : k >= place => e <= expires[queue[k]]
    BY <2>1, <2>4, InsertContinuationLinks DEF Base, TypeOK
  <2>7. Describe(priority'[allocated + 1], t)
    BY <2>1, <2>6 DEF Describe, LinkedAt, Base, TypeOK
  <2>8. FitsAt(place, e, t)
    BY <1>1, <2>4, <2>5, <2>6 DEF FitsAt
  <2>9. TurnsBounded' /\ TakesTurns'
    BY <2>4, <2>6, <2>7, <2>8, LinkKeepsTurns, Zenon DEF Turns
  <2>10. Running' = {}
    <3>1. "flush" # "callback" /\ \A k \in 1 .. 1 : k = 1
      OBVIOUS
    <3> QED  BY <2>2, <3>1, Zenon DEF Running
  <2> QED  BY <2>9, <2>10, Zenon DEF Turns, AfterRunning
<1>7. CASE PauseExecution \/ ContinueExecution \/ HandlerReturns \/ HandlerThrows
             \/ FlushReturns \/ CallbackReturns \/ CallbackThrows \/ Tick \/ UNCHANGED vars
  <2>1. UNCHANGED <<queue, allocated, expires, turn>>
    BY <1>7, Zenon
    DEF PauseExecution, ContinueExecution, HandlerReturns, HandlerThrows, LeavePriority,
        FlushReturns, CallbackReturns, CallbackThrows, Tick, vars, nodes
  <2> QED  BY <1>2, <1>5, <2>1
<1>8. CASE \/ \E level \in Levels : RunWithPriority(level)
           \/ \E level \in Levels \cup {NormalPriority} : RunWrapped(level)
           \/ RunNext
           \/ \E didTimeout \in BOOLEAN : HostFlush(didTimeout)
  <2>1. UNCHANGED <<queue, allocated, expires, turn>>
    BY <1>8, Zenon
    DEF RunWithPriority, RunWrapped, RunNext, EnterPriority, HostFlush, nodes
  <2> QED  BY <1>2, <1>5, <2>1
<1> QED
  BY <1>3, <1>4, <1>5, <1>6, <1>7, <1>8, Zenon DEF Next
-----------------------------------------------------------------------------
(***************************************************************************)
(* No lost wake-up.  RequestIsKnown is the strengthening: while work is    *)
(* performed the host holds nothing, so the request made at the end of a   *)
(* flush is the only one.                                                  *)
(***************************************************************************)
Wakeup == NoLostWakeup /\ RequestIsKnown

\* Asking the host restores both, whoever asks.
LEMMA AskHostWakes ==
  ASSUME Wakeup, TypeOK', ScheduleHostCallbackIfNeeded,
         isPerformingWork' => isPerformingWork
  PROVE  Wakeup'
<1>1. CASE isPerformingWork'
  BY <1>1 DEF ScheduleHostCallbackIfNeeded, Wakeup, NoLostWakeup, RequestIsKnown, host
<1>2. CASE ~isPerformingWork' /\ queue' = <<>>
  BY <1>2 DEF ScheduleHostCallbackIfNeeded, Wakeup, NoLostWakeup, RequestIsKnown, host
<1>3. CASE ~isPerformingWork' /\ queue' # <<>>
  <2>1. (queue # <<>> => expires[Head(queue)] \in Int)'
    BY FirstOfQueue, PTL DEF TypeOK
  <2> DEFINE e == expires'[Head(queue')]
  <2>2. isHostCallbackScheduled' = TRUE /\ hostRequest' = e /\ e \in Int
    BY <1>3, <2>1 DEF ScheduleHostCallbackIfNeeded
  <2>3. e # NoRequest /\ e <= e
    BY <2>2, SchedulerAssumption
  <2> HIDE DEF e
  <2> QED
    BY <1>3, <2>2, <2>3, Zenon DEF Wakeup, NoLostWakeup, RequestIsKnown, e
<1> QED  BY <1>1, <1>2, <1>3

LEMMA StepKeepsWakeup ==
  ASSUME Base, TypeOK', Wakeup, [Next]_vars
  PROVE  Wakeup'
<1>1. ASSUME UNCHANGED <<queue, expires, host, isPerformingWork, isSchedulerPaused>>
      PROVE  Wakeup'
  BY <1>1 DEF host, Wakeup, NoLostWakeup, RequestIsKnown, Paused
<1>2. ASSUME isPerformingWork, isPerformingWork', UNCHANGED host
      PROVE  Wakeup'
  BY <1>2 DEF host, Wakeup, NoLostWakeup, RequestIsKnown
<1>3. CASE Schedule
  <2>1. PICK level \in Levels :
          \E timeout \in {TimeoutFor(level)} \cup CustomTimeouts :
            ScheduleCallback(level, timeout)
    BY <1>3 DEF Schedule
  <2>2. PICK timeout \in {TimeoutFor(level)} \cup CustomTimeouts :
          ScheduleCallback(level, timeout)
    BY <2>1
  <2> DEFINE e == StartTime + timeout
  <2>3. /\ e \in Int /\ InsertNew(e)
        /\ UNCHANGED <<isPerformingWork, isSchedulerPaused>>
    BY <2>2, StartPlusTimeout, QueueAssumption DEF ScheduleCallback
  <2> HIDE DEF e
  <2>4. PICK place \in 1 .. Len(queue) + 1 : LinkedAt(place, e)
    BY <2>3, InsertNewLinks DEF Base, TypeOK
  <2>5. CASE Head(queue') = allocated + 1
    BY <2>2, <2>3, <2>5, AskHostWakes DEF ScheduleCallback
  <2>6. CASE Head(queue') # allocated + 1
    <3>1. UNCHANGED host
      BY <2>2, <2>6 DEF ScheduleCallback
    <3>2. Len(queue) \in Nat /\ queue' \in Seq(1 .. allocated + 1)
            /\ Len(queue') = Len(queue) + 1
      BY <2>4, QueueElements DEF Base, TypeOK, LinkedAt, InsertedAt
    <3>3. Head(queue') = queue'[1] /\ 1 \in 1 .. Len(queue) + 1
      BY <3>2
    <3>4. place # 1
      BY <2>4, <2>6, <3>3 DEF LinkedAt, InsertedAt
    <3>5. Len(queue) # 0 /\ queue'[1] = queue[1]
      BY <2>4, <3>2, <3>3, <3>4 DEF LinkedAt, InsertedAt
    <3>6. queue # <<>>
      BY <3>5, EmptySeq
    <3>7. Head(queue') = Head(queue) /\ expires'[Head(queue)] = expires[Head(queue)]
      BY <2>4, <3>3, <3>5, <3>6, FirstOfQueue DEF Base, TypeOK, LinkedAt
    <3> QED
      BY <2>3, <3>1, <3>6, <3>7
      DEF host, Wakeup, NoLostWakeup, RequestIsKnown, Paused
  <2> QED  BY <2>5, <2>6
<1>4. CASE \E m \in Created : CancelCallback(m)
  <2>1. PICK m \in Created : CancelCallback(m)
    BY <1>4
  <2>2. Unlink(m) /\ UNCHANGED <<allocated, expires, host, isPerformingWork, isSchedulerPaused>>
    BY <2>1 DEF CancelCallback, Unlink
  <2>3. CASE queue' = queue
    BY <1>1, <2>2, <2>3
  <2>4. CASE queue' # queue
    <3>1. PICK place \in 1 .. Len(queue) :
            queue' \in Seq(Created) /\ RemovedAt(queue', queue, place)
      BY <2>2, <2>4, UnlinkRemoves DEF Base, TypeOK
    <3>2. queue # <<>> /\ (queue' # <<>> => expires[Head(queue)] <= expires[Head(queue')])
      BY <2>2, <3>1, RemoveKeepsSorted DEF Base, TypeOK
    <3>3. queue' # <<>> => expires[Head(queue)] \in Int /\ expires'[Head(queue')] \in Int
      <4>1. (queue # <<>> => expires[Head(queue)] \in Int)'
        BY FirstOfQueue, PTL DEF TypeOK
      <4>2. queue # <<>> => expires[Head(queue)] \in Int
        BY FirstOfQueue DEF Base, TypeOK
      <4> QED  BY <3>2, <4>1, <4>2
    <3>4. hostRequest \in Int \cup {NoRequest}
      BY QueueAssumption DEF Base, TypeOK
    <3> QED
      BY <2>2, <3>2, <3>3, <3>4
      DEF host, Wakeup, NoLostWakeup, RequestIsKnown, Paused
  <2> QED  BY <2>3, <2>4
<1>5. CASE PauseExecution
  BY <1>5
  DEF PauseExecution, Wakeup, NoLostWakeup, RequestIsKnown, Paused, host, nodes
<1>6. CASE ContinueExecution \/ HandlerThrows
  BY <1>6, AskHostWakes DEF ContinueExecution, HandlerThrows, LeavePriority
<1>7. CASE \E didTimeout \in BOOLEAN : HostFlush(didTimeout)
  BY <1>7 DEF HostFlush, Wakeup, NoLostWakeup, RequestIsKnown, Paused
<1>8. CASE FlushFirstCallback
  <2>1. isPerformingWork /\ UNCHANGED <<isPerformingWork, host>>
    BY <1>8, FlushOnTop DEF FlushFirstCallback
  <2> QED  BY <1>2, <2>1
<1>9. CASE FlushReturns \/ CallbackThrows
  <2>1. ScheduleHostCallbackIfNeeded /\ isPerformingWork' = FALSE
    BY <1>9, Zenon DEF FlushReturns, CallbackThrows, FinishFlush
  <2> QED  BY <2>1, AskHostWakes
<1>10. CASE CallbackReturns
  BY <1>1, <1>10, Zenon DEF CallbackReturns, LeaveCallback, nodes
<1>11. CASE CallbackReturnsContinuation
  <2>1. isPerformingWork /\ UNCHANGED isPerformingWork
    BY <1>11, CallbackOnTop DEF CallbackReturnsContinuation, LeaveCallback
  <2>2. ScheduleHostCallbackIfNeeded \/ UNCHANGED host
    BY <1>11, Zenon DEF CallbackReturnsContinuation
  <2> QED  BY <1>2, <2>1, <2>2, AskHostWakes
<1>12. CASE \/ \E level \in Levels : RunWithPriority(level)
            \/ \E level \in Levels \cup {NormalPriority} : RunWrapped(level)
            \/ RunNext
  BY <1>1, <1>12, Zenon DEF RunWithPriority, RunWrapped, RunNext, EnterPriority, nodes
<1>13. CASE HandlerReturns \/ Tick \/ UNCHANGED vars
  BY <1>1, <1>13, Zenon DEF HandlerReturns, LeavePriority, Tick, vars, nodes
<1> QED
  BY <1>3, <1>4, <1>5, <1>6, <1>7, <1>8, <1>9, <1>10, <1>11, <1>12, <1>13, Zenon
  DEF Next

-----------------------------------------------------------------------------
(***************************************************************************)
(* The theorems.  One inductive invariant carries all of them.             *)
(***************************************************************************)
IInv == Base /\ Turns /\ Wakeup

LEMMA InitIInv == Init => IInv
<1> SUFFICES ASSUME Init
             PROVE  IInv
  OBVIOUS
<1>1. Len(stack) = 0 /\ Len(queue) = 0 /\ \A k : ~(k \in 1 .. 0)
  BY DEF Init, QueueInit
<1>2. Created = {}
  BY DEF Init, QueueInit, Created
<1>3. TypeOK
  <2>1. <<>> \in Seq(Created) /\ <<>> \in Seq(Frame)
    BY EmptySeq
  <2>2. QueueTypeOK
    BY <2>1, QueueAssumption DEF Init, QueueInit, QueueTypeOK, Node
  <2>3. NoExpirationUnknown
    BY <1>2 DEF NoExpirationUnknown
  <2>4. 0 \in Level /\ 3 \in Level /\ 0 \in 0 .. MaxNode
    BY QueueAssumption DEF Level
  <2>5. NodeTypeOK
    BY <2>4 DEF Init, NodeTypeOK
  <2>6. 0 \in 0 .. MaxTime /\ -1 \in -1 .. MaxTime /\ -1 \in Int
    BY SchedulerAssumption
  <2>7. ContextTypeOK
    BY <2>1, <2>4, <2>6 DEF Init, ContextTypeOK, NormalPriority
  <2>8. HostTypeOK
    BY DEF Init, HostTypeOK
  <2> QED  BY <2>2, <2>3, <2>5, <2>7, <2>8, TypeParts
<1>4. QueueSorted
  BY <1>1, Zenon DEF QueueSorted, NoDuplicates, SortedByExpiration
<1>5. StackShape
  BY <1>1 DEF Init, StackShape
<1>6. Turns
  BY <1>1, <1>2, Zenon DEF Turns, TurnsBounded, TakesTurns, AfterRunning
<1>7. Wakeup
  BY DEF Init, QueueInit, Wakeup, NoLostWakeup, RequestIsKnown
<1> QED  BY <1>3, <1>4, <1>5, <1>6, <1>7 DEF IInv, Base

LEMMA StepIInv == IInv /\ [Next]_vars => IInv'
  BY StepKeepsTypes, StepKeepsShape, StepKeepsTurns, StepKeepsWakeup, Zenon
  DEF IInv, Base

THEOREM SchedulerInvariant == Spec => []IInv
  BY InitIInv, StepIInv, PTL DEF Spec

\* Every variable keeps its type, in every nesting of calls.
THEOREM SchedulerTypeOK == Spec => []TypeOK
<1>1. IInv => TypeOK
  BY DEF IInv, Base
<1> QED  BY <1>1, SchedulerInvariant, PTL

\* A pending callback always has a request with the host that is not too late.
THEOREM SchedulerNoLostWakeup == Spec => []NoLostWakeup
<1>1. IInv => NoLostWakeup
  BY DEF IInv, Wakeup
<1> QED  BY <1>1, SchedulerInvariant, PTL

\* The host holds no request the scheduler has forgotten, and none during work.
THEOREM SchedulerRequestIsKnown == Spec => []RequestIsKnown
<1>1. IInv => RequestIsKnown
  BY DEF IInv, Wakeup
<1> QED  BY <1>1, SchedulerInvariant, PTL

\* The list is strictly ordered by expiration and turn.
THEOREM SchedulerTakesTurns == Spec => []TakesTurns
<1>1. IInv => TakesTurns
  BY DEF IInv, Turns
<1> QED  BY <1>1, SchedulerInvariant, PTL
-----------------------------------------------------------------------------
(***************************************************************************)
(* Refinement: every step is a step of HostCallback or changes none of the *)
(* variables the scheduler shares with the host.                           *)
(***************************************************************************)
HostStep == [Contract!HostNext]_(Contract!hvars)

LEMMA InitContract == Init => Contract!HostInit
  BY DEF Init, Contract!HostInit

\* A request is made with the expiration of the first callback.
LEMMA RequestedTimeout ==
  ASSUME TypeOK
  PROVE  queue # <<>> => expires[Head(queue)] \in Expirations
  BY FirstOfQueue DEF TypeOK

LEMMA AskKeepsContract ==
  ASSUME TypeOK', ScheduleHostCallbackIfNeeded,
         UNCHANGED <<now, isPerformingWork, currentHostCallbackDidTimeout>>
  PROVE  HostStep
<1>1. CASE isPerformingWork' \/ queue' = <<>>
  BY <1>1 DEF ScheduleHostCallbackIfNeeded, host, HostStep, Contract!hvars
<1>2. CASE ~isPerformingWork' /\ queue' # <<>>
  <2> DEFINE e == expires'[Head(queue')]
  <2>0. (queue # <<>> => expires[Head(queue)] \in Expirations)'
    BY RequestedTimeout, PTL
  <2>1. e \in Expirations
    BY <1>2, <2>0
  <2>2. isHostCallbackScheduled' = TRUE /\ hostRequest' = e
    BY <1>2 DEF ScheduleHostCallbackIfNeeded
  <2> HIDE DEF e
  <2>3. Contract!Ensure(e)
    BY <1>2, <2>2 DEF Contract!Ensure
  <2> QED  BY <2>1, <2>3 DEF HostStep, Contract!HostNext
<1> QED  BY <1>1, <1>2

LEMMA FinishKeepsContract ==
  ASSUME TypeOK', isPerformingWork, NEW flush, NEW rest, FinishFlush(flush, rest),
         flush.didTimeout = FALSE, UNCHANGED now
  PROVE  HostStep
<1>1. isPerformingWork' = FALSE /\ currentHostCallbackDidTimeout' = FALSE
      /\ ScheduleHostCallbackIfNeeded
  BY DEF FinishFlush
<1>2. CASE queue' = <<>>
  BY <1>1, <1>2
  DEF ScheduleHostCallbackIfNeeded, host, HostStep, Contract!HostNext, Contract!Return
<1>3. CASE queue' # <<>>
  <2>1. isHostCallbackScheduled' = TRUE /\ hostRequest' = expires'[Head(queue')]
    BY <1>1, <1>3 DEF ScheduleHostCallbackIfNeeded
  <2>2. (queue # <<>> => expires[Head(queue)] \in Expirations)'
    BY RequestedTimeout, PTL
  <2> QED  BY <1>1, <1>3, <2>1, <2>2 DEF HostStep, Contract!HostNext, Contract!Return
<1> QED  BY <1>2, <1>3

LEMMA StepKeepsContract ==
  ASSUME Base, TypeOK', [Next]_vars
  PROVE  HostStep
<1> DEFINE Quiet == UNCHANGED <<now, hostRequest, isHostCallbackScheduled,
                                isPerformingWork, currentHostCallbackDidTimeout>>
           Asks == /\ ScheduleHostCallbackIfNeeded
                   /\ UNCHANGED <<now, isPerformingWork, currentHostCallbackDidTimeout>>
<1>1. Quiet => HostStep
  BY DEF HostStep, Contract!hvars
<1>2. Asks => HostStep
  BY AskKeepsContract
<1>3. CASE Schedule
  <2>1. PICK level \in Levels :
          \E timeout \in {TimeoutFor(level)} \cup CustomTimeouts :
            ScheduleCallback(level, timeout)
    BY <1>3 DEF Schedule
  <2> QED  BY <2>1, <1>1, <1>2 DEF ScheduleCallback, context, host
<1>4. CASE \E n \in Created : CancelCallback(n)
  BY <1>4, <1>1 DEF CancelCallback, context, host
<1>5. CASE PauseExecution
  BY <1>5, <1>1 DEF PauseExecution, context, host
<1>6. CASE ContinueExecution \/ HandlerThrows
  BY <1>6, <1>2 DEF ContinueExecution, HandlerThrows, LeavePriority, context
<1>7. CASE \E didTimeout \in BOOLEAN : HostFlush(didTimeout)
  <2>1. PICK didTimeout \in BOOLEAN : HostFlush(didTimeout)
    BY <1>7
  <2>2. ~isPerformingWork
    BY <2>1 DEF HostFlush, Base, StackShape
  <2>3. Contract!Call(didTimeout)
    BY <2>1, <2>2 DEF HostFlush, Contract!Call
  <2> QED  BY <2>1, <2>3 DEF HostStep, Contract!HostNext
<1>8. CASE FlushFirstCallback
  BY <1>8, <1>1 DEF FlushFirstCallback, host
<1>9. CASE FlushReturns
  <2>1. Head(stack).didTimeout = FALSE /\ isPerformingWork
    BY <1>9, FlushOnTop DEF FlushReturns
  <2>2. FinishFlush(Head(stack), Tail(stack)) /\ UNCHANGED now
    BY <1>9 DEF FlushReturns
  <2> QED  BY <2>1, <2>2, FinishKeepsContract
<1>10. CASE CallbackThrows
  <2>1. Head(Tail(stack)).didTimeout = FALSE /\ isPerformingWork
    BY <1>10, CallbackOnTop DEF CallbackThrows, LeaveCallback
  <2>2. FinishFlush(Head(Tail(stack)), Tail(Tail(stack))) /\ UNCHANGED now
    BY <1>10 DEF CallbackThrows, LeaveCallback
  <2> QED  BY <2>1, <2>2, FinishKeepsContract
<1>11. CASE CallbackReturns
  BY <1>11, <1>1 DEF CallbackReturns, LeaveCallback, host
<1>12. CASE CallbackReturnsContinuation
  BY <1>12, <1>1, <1>2 DEF CallbackReturnsContinuation, LeaveCallback, host
<1>13. CASE \/ \E level \in Levels : RunWithPriority(level)
            \/ \E level \in Levels \cup {NormalPriority} : RunWrapped(level)
            \/ RunNext
  BY <1>13, <1>1 DEF RunWithPriority, RunWrapped, RunNext, EnterPriority, host
<1>14. CASE HandlerReturns
  BY <1>14, <1>1 DEF HandlerReturns, LeavePriority, host
<1>15. CASE Tick
  BY <1>15 DEF Tick, host, context, HostStep, Contract!HostNext, Contract!HostTick
<1>16. CASE UNCHANGED vars
  BY <1>16, <1>1 DEF vars, host, context
<1> QED
  BY <1>3, <1>4, <1>5, <1>6, <1>7, <1>8, <1>9, <1>10, <1>11, <1>12, <1>13,
     <1>14, <1>15, <1>16, Zenon DEF Next

\* The scheduler keeps its side of the contract with the host, and a host call
\* that says it timed out starts work only if the request had expired.
THEOREM SchedulerImplementsContract == Spec => ImplementsContract
<1>1. IInv => Base
  BY DEF IInv
<1>2. IInv' => TypeOK'
  BY DEF IInv, Base
<1>3. IInv /\ IInv' /\ [Next]_vars => HostStep
  BY <1>1, <1>2, StepKeepsContract
<1> QED
  BY InitContract, SchedulerInvariant, <1>3, PTL
  DEF Spec, ImplementsContract, Contract!HostSpec, HostStep

\* What StartsEarliest says of one step.
StartsFirst ==
  \A n \in Node :
    FlushFirstCallback /\ n = Head(queue) =>
      /\ \A m \in ToSet(queue') : Before(n, m)
      /\ currentHostCallbackDidTimeout' => expires[n] <= now

LEMMA StepStartsEarliest ==
  ASSUME Base, TakesTurns, FlushFirstCallback
  PROVE  /\ \A m \in ToSet(queue') : Before(Head(queue), m)
         /\ currentHostCallbackDidTimeout' => expires[Head(queue)] <= now
<1>1. QueueTypeOK /\ RemoveFirstNode /\ queue # <<>> /\ MayFlushFirst
      /\ UNCHANGED currentHostCallbackDidTimeout
  BY DEF FlushFirstCallback, RemoveFirstNode, Base, TypeOK
<1>2. /\ 1 \in 1 .. Len(queue) /\ Head(queue) = queue[1]
      /\ queue' \in Seq(Created) /\ RemovedAt(queue', queue, 1)
  BY <1>1, RemoveFirstRemoves, FirstOfQueue
<1>3. ASSUME NEW m \in ToSet(queue')
      PROVE  Before(queue[1], m)
  <2>1. PICK k \in 1 .. Len(queue') : m = queue'[k]
    BY <1>2, <1>3, LenProperties DEF ToSet
  <2>2. k + 1 \in 1 .. Len(queue) /\ 1 < k + 1 /\ m = queue[k + 1]
    BY <1>1, <1>2, <2>1, LenProperties DEF RemovedAt, QueueTypeOK
  <2> QED  BY <1>2, <2>2 DEF TakesTurns
<1>4. currentHostCallbackDidTimeout' => expires[Head(queue)] <= now
  BY <1>1 DEF MayFlushFirst
<1> QED  BY <1>2, <1>3, <1>4

\* A callback starts only when nothing pending is due before it, and after a
\* time-out only when it has expired itself.
THEOREM SchedulerStartsEarliest == Spec => StartsEarliest
<1>1. IInv => Base /\ TakesTurns
  BY DEF IInv, Turns
<1>2. IInv /\ [Next]_vars => [StartsFirst]_vars
  BY <1>1, StepStartsEarliest DEF StartsFirst
<1> QED
  BY SchedulerInvariant, <1>2, PTL DEF Spec, StartsEarliest, StartsFirst

(***************************************************************************)
(* The context of Scheduler.js is restored, for every number of callbacks  *)
(* and every depth of calls.  What user code sees is restored from the     *)
(* frames, so the invariant speaks of what each frame has saved.           *)
(***************************************************************************)

\* Whether frame k is the call of a handler by runWithPriority and the like,
\* the only frame whose code may run at any level.
IsHandler(k) == k \in 1 .. Len(stack) /\ stack[k].kind = "priority"

\* The level at which the code of a frame that is no handler runs; below the
\* outermost frame there is the host.
LevelOf(k) ==
  IF k \in 1 .. Len(stack) /\ stack[k].kind = "callback"
  THEN priority[stack[k].node] ELSE NormalPriority

\* What is current now, and what each frame has saved of the one below it.
TopContext ==
  ~IsHandler(1) => currentPriorityLevel = LevelOf(1) /\ currentEventStartTime = -1

HandlerFrames ==
  \A k \in 1 .. Len(stack) : IsHandler(k) /\ ~IsHandler(k + 1) =>
    stack[k].priority = LevelOf(k + 1) /\ stack[k].startTime = -1

CallbackFrames ==
  \A k \in 1 .. Len(stack) : stack[k].kind = "callback" =>
    /\ stack[k].priority = NormalPriority
    /\ stack[k].expiration = -1
    /\ currentExpirationTime = expires[stack[k].node]

NoCallbackFrame ==
  (\A k \in 1 .. Len(stack) : stack[k].kind # "callback") => currentExpirationTime = -1

Saved == TopContext /\ HandlerFrames /\ CallbackFrames /\ NoCallbackFrame

\* A created node keeps its level and its expiration.
LEMMA NodesKeepTheirs ==
  ASSUME Base, [Next]_vars, NEW m \in Created
  PROVE  priority'[m] = priority[m] /\ expires'[m] = expires[m]
<1>1. expires'[m] = expires[m]
  BY NextIsListStep, ListStepKeepsNodes, TypeParts, Zenon DEF Base
<1>2. ASSUME NEW level, NEW whose, Describe(level, whose)
      PROVE  priority'[m] = priority[m]
  <2>1. m # allocated + 1
    BY DEF Created, Base, TypeOK, QueueTypeOK
  <2> QED  BY <1>2, <2>1 DEF Describe, Base, TypeOK
<1>3. priority' = priority \/ \E level, whose : Describe(level, whose)
  <2>1. CASE Schedule
    BY <2>1, Zenon DEF Schedule, ScheduleCallback
  <2>2. CASE CallbackReturnsContinuation
    BY <2>2, Zenon DEF CallbackReturnsContinuation
  <2>3. CASE UNCHANGED nodes \/ UNCHANGED priority
    BY <2>3, Zenon DEF nodes
  <2>4. CASE \/ FlushFirstCallback \/ FlushReturns \/ CallbackReturns \/ CallbackThrows
    BY <2>4, <2>3, Zenon
    DEF FlushFirstCallback, FlushReturns, CallbackReturns, CallbackThrows
  <2>5. CASE \/ PauseExecution \/ ContinueExecution \/ Tick \/ UNCHANGED vars
             \/ HandlerReturns \/ HandlerThrows
             \/ \E didTimeout \in BOOLEAN : HostFlush(didTimeout)
             \/ \E n \in Created : CancelCallback(n)
    BY <2>5, <2>3, Zenon
    DEF PauseExecution, ContinueExecution, Tick, vars, HandlerReturns, HandlerThrows,
        LeavePriority, HostFlush, CancelCallback
  <2>6. CASE \/ \E level \in Levels : RunWithPriority(level)
             \/ \E level \in Levels \cup {NormalPriority} : RunWrapped(level)
             \/ RunNext
    BY <2>6, <2>3, Zenon DEF RunWithPriority, RunWrapped, RunNext, EnterPriority
  <2> QED
    BY <2>1, <2>2, <2>4, <2>5, <2>6, Zenon DEF Next
<1> QED  BY <1>1, <1>2, <1>3

\* With no handler and no callback on the stack, the context is the host's.
LEMMA HostContext ==
  ASSUME \A k \in 1 .. Len(stack) : stack[k].kind = "flush",
         currentPriorityLevel = NormalPriority,
         currentEventStartTime = -1, currentExpirationTime = -1
  PROVE  Saved
<1>1. \A k \in 1 .. Len(stack) : stack[k].kind # "callback" /\ stack[k].kind # "priority"
  OBVIOUS
<1> QED
  BY <1>1, Zenon
  DEF Saved, TopContext, HandlerFrames, CallbackFrames, NoCallbackFrame, IsHandler, LevelOf

LEMMA SameStackKeepsSaved ==
  ASSUME Base, Saved, [Next]_vars,
         UNCHANGED <<stack, currentPriorityLevel, currentEventStartTime,
                     currentExpirationTime>>
  PROVE  Saved'
<1>1. \A k \in 1 .. Len(stack) : stack[k].kind = "callback" => stack[k].node \in Created
  BY DEF Base, StackShape
<1>2. \A k : LevelOf(k)' = LevelOf(k) /\ IsHandler(k)' = IsHandler(k)
  BY <1>1, NodesKeepTheirs, Zenon DEF LevelOf, IsHandler
<1>3. TopContext' /\ HandlerFrames'
  BY <1>2, Zenon DEF Saved, TopContext, HandlerFrames
<1>4. CallbackFrames' /\ NoCallbackFrame'
  BY <1>1, NodesKeepTheirs, Zenon DEF Saved, CallbackFrames, NoCallbackFrame
<1> QED  BY <1>3, <1>4 DEF Saved

LEMMA EnterKeepsSaved ==
  ASSUME Base, Saved, [Next]_vars, NEW level, EnterPriority(level)
  PROVE  Saved'
<1> DEFINE n == Len(stack)
           f == [kind |-> "priority", priority |-> currentPriorityLevel,
                 startTime |-> currentEventStartTime]
<1>1. n \in Nat /\ \A k \in 1 .. n : stack[k].kind = "callback" => stack[k].node \in Created
  BY StackElements DEF Base, StackShape
<1>2. f \in Frame /\ f.kind = "priority" /\ f.priority = currentPriorityLevel
      /\ f.startTime = currentEventStartTime
  BY DEF Frame, Base, TypeOK
<1>3. stack' = Cons(f, stack) /\ UNCHANGED currentExpirationTime
  BY DEF EnterPriority
<1> HIDE DEF f
<1>4. /\ Len(stack') = n + 1 /\ stack'[1] = f
      /\ \A k \in 1 .. n : stack'[k + 1] = stack[k]
  BY <1>2, <1>3, PushFrame, Zenon DEF Base
<1>5. ASSUME NEW k \in 1 .. n + 1
      PROVE  LevelOf(k + 1)' = LevelOf(k) /\ IsHandler(k + 1)' = IsHandler(k)
  <2>1. k + 1 \in 1 .. n + 1 <=> k \in 1 .. n
    BY <1>1
  <2>2. k \in 1 .. n => stack'[k + 1] = stack[k]
    BY <1>4
  <2> QED  BY <1>1, <1>4, <2>1, <2>2, NodesKeepTheirs, Zenon DEF LevelOf, IsHandler
<1>6. IsHandler(1)'
  BY <1>1, <1>2, <1>4 DEF IsHandler
<1>7. ASSUME NEW k \in 1 .. n + 1, k # 1
      PROVE  k - 1 \in 1 .. n /\ k - 1 \in 1 .. n + 1 /\ k - 1 + 1 = k
             /\ stack'[k] = stack[k - 1]
  BY <1>1, <1>4, <1>7
<1>8. HandlerFrames'
  <2>1. ASSUME NEW k \in 1 .. n + 1, IsHandler(k)', ~IsHandler(k + 1)'
        PROVE  stack'[k].priority = LevelOf(k + 1)' /\ stack'[k].startTime = -1
    <3>1. CASE k = 1
      <4>1. 1 \in 1 .. n + 1
        BY <1>1
      <4>2. ~IsHandler(1) /\ LevelOf(1 + 1)' = LevelOf(1)
        BY <1>5, <2>1, <3>1, <4>1, Zenon
      <4> QED  BY <1>2, <1>4, <3>1, <4>2, Zenon DEF Saved, TopContext
    <3>2. CASE k # 1
      <4> DEFINE j == k - 1
      <4>1. j \in 1 .. n /\ j \in 1 .. n + 1 /\ j + 1 = k /\ stack'[k] = stack[j]
        BY <1>7, <3>2
      <4> HIDE DEF j
      <4>2. IsHandler(j) /\ ~IsHandler(j + 1) /\ LevelOf(k + 1)' = LevelOf(j + 1)
        BY <1>5, <2>1, <4>1, Zenon
      <4> QED  BY <4>1, <4>2, Zenon DEF Saved, HandlerFrames
    <3> QED  BY <3>1, <3>2
  <2> QED  BY <1>4, <2>1, Zenon DEF HandlerFrames
<1>9. ASSUME NEW k \in 1 .. n + 1, stack'[k].kind = "callback"
      PROVE  /\ stack'[k].priority = NormalPriority
             /\ stack'[k].expiration = -1
             /\ currentExpirationTime' = expires'[stack'[k].node]
  <2>1. k # 1
    BY <1>2, <1>4, <1>9
  <2> DEFINE j == k - 1
  <2>2. j \in 1 .. n /\ stack'[k] = stack[j]
    BY <1>7, <2>1
  <2> HIDE DEF j
  <2>3. stack[j].kind = "callback" /\ stack[j].node \in Created
    BY <1>1, <1>9, <2>2, Zenon
  <2> QED  BY <1>3, <2>2, <2>3, NodesKeepTheirs, Zenon DEF Saved, CallbackFrames
<1>10. ASSUME \A k \in 1 .. n + 1 : stack'[k].kind # "callback"
       PROVE  currentExpirationTime' = -1
  <2>1. \A k \in 1 .. n : k + 1 \in 1 .. n + 1
    BY <1>1
  <2> QED  BY <1>3, <1>4, <1>10, <2>1, Zenon DEF Saved, NoCallbackFrame
<1> QED
  BY <1>4, <1>6, <1>8, <1>9, <1>10, Zenon
  DEF Saved, TopContext, CallbackFrames, NoCallbackFrame

LEMMA LeaveKeepsSaved ==
  ASSUME Base, Saved, [Next]_vars, LeavePriority
  PROVE  Saved'
<1> DEFINE n == Len(stack)
<1>1. /\ stack # <<>> /\ Head(stack).kind = "priority" /\ stack' = Tail(stack)
      /\ currentPriorityLevel' = Head(stack).priority
      /\ currentEventStartTime' = Head(stack).startTime
      /\ currentExpirationTime' = currentExpirationTime
  BY DEF LeavePriority, TopIs
<1>2. /\ n \in Nat /\ n >= 1 /\ Len(stack') = n - 1 /\ Head(stack) = stack[1]
      /\ 1 \in 1 .. n
      /\ \A k \in 1 .. n - 1 : stack'[k] = stack[k + 1]
      /\ \A k \in 1 .. n : stack[k].kind = "callback" => stack[k].node \in Created
  <2>1. \A k \in 1 .. n : stack[k].kind = "callback" => stack[k].node \in Created
    BY Zenon DEF Base, StackShape
  <2> QED  BY <1>1, <2>1, StackElements DEF Base
<1>3. ASSUME NEW k \in 1 .. n
      PROVE  LevelOf(k)' = LevelOf(k + 1) /\ IsHandler(k)' = IsHandler(k + 1)
  <2>1. k \in 1 .. n - 1 <=> k + 1 \in 1 .. n
    BY <1>2
  <2> QED  BY <1>2, <2>1, NodesKeepTheirs, Zenon DEF LevelOf, IsHandler
<1>4. IsHandler(1)
  BY <1>1, <1>2, Zenon DEF IsHandler
<1>5. TopContext'
  BY <1>1, <1>2, <1>3, <1>4, Zenon DEF Saved, TopContext, HandlerFrames
<1>6. ASSUME NEW k \in 1 .. n - 1
      PROVE  k \in 1 .. n /\ k + 1 \in 1 .. n
  BY <1>2
<1>7. HandlerFrames'
  <2>1. ASSUME NEW k \in 1 .. n - 1, IsHandler(k)', ~IsHandler(k + 1)'
        PROVE  stack'[k].priority = LevelOf(k + 1)' /\ stack'[k].startTime = -1
    <3> DEFINE j == k + 1
    <3>1. j \in 1 .. n /\ stack'[k] = stack[j]
      BY <1>2, <1>6
    <3>2. IsHandler(j) /\ ~IsHandler(j + 1) /\ LevelOf(j)' = LevelOf(j + 1)
      BY <1>3, <1>6, <2>1, Zenon
    <3> QED  BY <3>1, <3>2, Zenon DEF Saved, HandlerFrames
  <2> QED  BY <1>2, <2>1, Zenon DEF HandlerFrames
<1>8. CallbackFrames'
  <2>1. ASSUME NEW k \in 1 .. n - 1, stack'[k].kind = "callback"
        PROVE  /\ stack'[k].priority = NormalPriority
               /\ stack'[k].expiration = -1
               /\ currentExpirationTime' = expires'[stack'[k].node]
    <3> DEFINE j == k + 1
    <3>1. j \in 1 .. n /\ stack'[k] = stack[j]
      BY <1>2, <1>6
    <3> HIDE DEF j
    <3>2. stack[j].kind = "callback" /\ stack[j].node \in Created
      BY <1>2, <2>1, <3>1, Zenon
    <3> QED  BY <1>1, <3>1, <3>2, NodesKeepTheirs, Zenon DEF Saved, CallbackFrames
  <2> QED  BY <1>2, <2>1, Zenon DEF CallbackFrames
<1>9. ASSUME \A k \in 1 .. n - 1 : stack'[k].kind # "callback"
      PROVE  currentExpirationTime' = -1
  <2>1. ASSUME NEW k \in 1 .. n PROVE stack[k].kind # "callback"
    <3>1. CASE k = 1
      BY <1>1, <1>2, <3>1
    <3>2. CASE k # 1
      <4>1. k - 1 \in 1 .. n - 1 /\ stack'[k - 1] = stack[k]
        BY <1>2, <3>2
      <4> QED  BY <1>9, <4>1, Zenon
    <3> QED  BY <3>1, <3>2
  <2> QED  BY <1>1, <2>1, Zenon DEF Saved, NoCallbackFrame
<1> QED  BY <1>2, <1>5, <1>7, <1>8, <1>9, Zenon DEF Saved, NoCallbackFrame

\* A flush begins, or returns, with the context of the host.
LEMMA FlushHasHostContext ==
  ASSUME Base, Saved, TopIs("flush") \/ stack = <<>>
  PROVE  /\ currentPriorityLevel = NormalPriority
         /\ currentEventStartTime = -1 /\ currentExpirationTime = -1
         /\ \A k \in 1 .. Len(stack) : stack[k].kind = "flush"
<1>1. \A k \in 1 .. Len(stack) : stack[k].kind = "flush"
  <2>1. CASE stack = <<>>
    BY <2>1, EmptySeq
  <2>2. CASE TopIs("flush")
    <3>1. Len(stack) = 1 /\ stack[1].kind = "flush"
      BY <2>2, FlushOnTop, StackElements DEF Base, TopIs
    <3> QED  BY <3>1
  <2> QED  BY <2>1, <2>2
<1>2. \A k \in 1 .. Len(stack) : stack[k].kind # "callback" /\ stack[k].kind # "priority"
  BY <1>1
<1>3. ~IsHandler(1) /\ LevelOf(1) = NormalPriority
  BY <1>2, Zenon DEF IsHandler, LevelOf
<1> QED
  BY <1>1, <1>2, <1>3, Zenon DEF Saved, TopContext, NoCallbackFrame

\* What the frame of the running callback has saved.
LEMMA CallbackHasContext ==
  ASSUME Base, Saved, TopIs("callback")
  PROVE  /\ Head(stack).priority = NormalPriority /\ Head(stack).expiration = -1
         /\ currentPriorityLevel = priority[Head(stack).node]
         /\ currentExpirationTime = expires[Head(stack).node]
         /\ currentEventStartTime = -1
<1>1. stack # <<>> /\ Head(stack).kind = "callback"
  BY DEF TopIs
<1>2. 1 \in 1 .. Len(stack) /\ Head(stack) = stack[1]
  BY <1>1, StackElements DEF Base
<1>3. stack[1].kind = "callback" /\ stack[1].kind # "priority"
  BY <1>1, <1>2
<1>4. ~IsHandler(1) /\ LevelOf(1) = priority[stack[1].node]
  BY <1>2, <1>3, Zenon DEF IsHandler, LevelOf
<1> QED
  BY <1>2, <1>3, <1>4, Zenon DEF Saved, TopContext, CallbackFrames

LEMMA StepKeepsSaved ==
  ASSUME Base, Saved, [Next]_vars
  PROVE  Saved'
<1>1. ASSUME \A k \in 1 .. Len(stack') : stack'[k].kind = "flush",
             currentPriorityLevel' = NormalPriority,
             currentEventStartTime' = -1, currentExpirationTime' = -1
      PROVE  Saved'
  <2>1. \A k \in 1 .. Len(stack') :
          stack'[k].kind # "callback" /\ stack'[k].kind # "priority"
    BY <1>1
  <2> QED
    BY <1>1, <2>1, Zenon
    DEF Saved, TopContext, HandlerFrames, CallbackFrames, NoCallbackFrame, IsHandler,
        LevelOf
<1>2. \A k \in 1 .. Len(<<>>) : <<>>[k].kind = "flush"
  OBVIOUS
<1>3. CASE \E didTimeout \in BOOLEAN : HostFlush(didTimeout)
  <2>1. PICK didTimeout \in BOOLEAN : HostFlush(didTimeout)
    BY <1>3
  <2>2. CASE Paused
    BY <2>1, <2>2, SameStackKeepsSaved, Zenon DEF HostFlush
  <2>3. CASE ~Paused
    <3> DEFINE f == [kind |-> "flush", at |-> "start",
                     didTimeout |-> currentHostCallbackDidTimeout]
    <3>1. \A k \in 1 .. Len(<<f>>) : <<f>>[k].kind = "flush"
      OBVIOUS
    <3>2. stack = <<>> /\ stack' = <<f>>
          /\ UNCHANGED <<currentPriorityLevel, currentEventStartTime, currentExpirationTime>>
      BY <2>1, <2>3, Zenon DEF HostFlush
    <3> HIDE DEF f
    <3> QED  BY <1>1, <3>1, <3>2, FlushHasHostContext, Zenon
  <2> QED  BY <2>2, <2>3
<1>4. CASE FlushFirstCallback
  <2> DEFINE c == CallbackFrame
             f == LoopFrame
  <2>1. /\ stack' = <<c, f>> /\ c.kind = "callback" /\ c.node = Head(queue)
        /\ c.priority = currentPriorityLevel /\ c.expiration = currentExpirationTime
        /\ f.kind = "flush" /\ Head(queue) \in Created
    BY <1>4, FlushFirstStack DEF CallbackFrame
  <2>2. /\ TopIs("flush")
        /\ currentPriorityLevel' = priority[Head(queue)]
        /\ currentExpirationTime' = expires[Head(queue)]
        /\ currentEventStartTime' = currentEventStartTime
    BY <1>4, Zenon DEF FlushFirstCallback
  <2>3. currentPriorityLevel = NormalPriority /\ currentEventStartTime = -1
        /\ currentExpirationTime = -1
    BY <2>2, FlushHasHostContext, Zenon
  <2>4. priority'[Head(queue)] = priority[Head(queue)]
        /\ expires'[Head(queue)] = expires[Head(queue)]
    BY <2>1, NodesKeepTheirs, Zenon
  <2> HIDE DEF c, f
  <2>5. /\ Len(stack') = 2 /\ stack'[1] = c /\ stack'[2] = f /\ 1 \in 1 .. 2
        /\ \A k \in 1 .. 2 : k = 1 \/ k = 2
        /\ "callback" # "priority" /\ "flush" # "priority" /\ "flush" # "callback"
    BY <2>1
  <2>6. TopContext'
    BY <2>1, <2>2, <2>3, <2>4, <2>5, Zenon DEF TopContext, LevelOf
  <2>7. HandlerFrames'
    BY <2>1, <2>5, Zenon DEF HandlerFrames, IsHandler
  <2>8. CallbackFrames'
    BY <2>1, <2>2, <2>3, <2>4, <2>5, Zenon DEF CallbackFrames
  <2>9. NoCallbackFrame'
    BY <2>1, <2>5, Zenon DEF NoCallbackFrame
  <2> QED  BY <2>6, <2>7, <2>8, <2>9 DEF Saved
<1>5. CASE FlushReturns
  <2>1. /\ TopIs("flush") /\ stack' = <<>>
        /\ UNCHANGED <<currentPriorityLevel, currentEventStartTime, currentExpirationTime>>
    BY <1>5, FlushOnTop, Zenon DEF FlushReturns, FinishFlush
  <2> QED  BY <1>1, <1>2, <2>1, FlushHasHostContext, Zenon
<1>6. ASSUME LeaveCallback, stack' = <<>> \/ stack' = Tail(stack)
      PROVE  Saved'
  <2>1. /\ TopIs("callback") /\ currentPriorityLevel' = NormalPriority
        /\ currentEventStartTime' = -1 /\ currentExpirationTime' = -1
    BY <1>6, CallbackHasContext, Zenon DEF LeaveCallback
  <2>2. CASE stack' = <<>>
    BY <1>1, <1>2, <2>1, <2>2, Zenon
  <2>3. CASE stack' = Tail(stack)
    <3>1. Len(stack') = 1 /\ stack'[1].kind = "flush"
      BY <2>1, <2>3, CallbackOnTop, Zenon
    <3>2. \A k \in 1 .. 1 : k = 1
      OBVIOUS
    <3> QED  BY <1>1, <2>1, <3>1, <3>2, Zenon
  <2> QED  BY <1>6, <2>2, <2>3
<1>7. CASE CallbackReturns \/ CallbackReturnsContinuation
  BY <1>6, <1>7, Zenon DEF CallbackReturns, CallbackReturnsContinuation
<1>8. CASE CallbackThrows
  <2>1. LeaveCallback /\ stack' = Tail(Tail(stack))
    BY <1>8, Zenon DEF CallbackThrows, FinishFlush
  <2>2. TopIs("callback")
    BY <2>1, Zenon DEF LeaveCallback
  <2> QED  BY <1>6, <2>1, <2>2, CallbackOnTop, Zenon
<1>9. CASE HandlerReturns \/ HandlerThrows
  BY <1>9, LeaveKeepsSaved, Zenon DEF HandlerReturns, HandlerThrows
<1>10. CASE \/ \E level \in Levels : RunWithPriority(level)
            \/ \E level \in Levels \cup {NormalPriority} : RunWrapped(level)
            \/ RunNext
  BY <1>10, EnterKeepsSaved, Zenon DEF RunWithPriority, RunWrapped, RunNext
<1>11. CASE Schedule
  BY <1>11, SameStackKeepsSaved, Zenon DEF Schedule, ScheduleCallback, context
<1>12. CASE \E m \in Created : CancelCallback(m)
  BY <1>12, SameStackKeepsSaved, Zenon DEF CancelCallback, context
<1>13. CASE PauseExecution \/ ContinueExecution \/ Tick \/ UNCHANGED vars
  BY <1>13, SameStackKeepsSaved, Zenon
  DEF PauseExecution, ContinueExecution, Tick, vars, context
<1> QED
  BY <1>3, <1>4, <1>5, <1>7, <1>8, <1>9, <1>10, <1>11, <1>12, <1>13, Zenon DEF Next

LEMMA InitSaved == Init => Saved
<1>1. Init => /\ \A k \in 1 .. Len(stack) : stack[k].kind = "flush"
              /\ currentPriorityLevel = NormalPriority
              /\ currentEventStartTime = -1 /\ currentExpirationTime = -1
  BY EmptySeq DEF Init
<1> QED  BY <1>1, HostContext, Zenon

LEMMA SavedRestores == Base /\ Saved => ContextRestored
<1> SUFFICES ASSUME Base, Saved PROVE ContextRestored
  OBVIOUS
<1>1. stack = <<>> => /\ currentPriorityLevel = NormalPriority
                      /\ currentEventStartTime = -1
                      /\ currentExpirationTime = -1
                      /\ ~currentHostCallbackDidTimeout
  BY FlushHasHostContext, Zenon DEF Base, StackShape
<1>2. isPerformingWork <=> (stack # <<>> /\ Last(stack).kind = "flush")
  BY Zenon DEF Base, StackShape, Outermost, Last
<1>3. TopIs("flush") => currentPriorityLevel = NormalPriority
  BY FlushHasHostContext, Zenon
<1> QED
  BY <1>1, <1>2, <1>3, CallbackHasContext, Zenon DEF ContextRestored

(***************************************************************************)
(* The priority context is what the frames on the stack say it is, in      *)
(* every nesting of calls and however the stack was unwound.               *)
(***************************************************************************)
THEOREM SchedulerContextRestored == Spec => []ContextRestored
<1>1. Init => Saved
  BY InitSaved
<1>2. IInv /\ Saved /\ [Next]_vars => Saved'
  BY StepKeepsSaved DEF IInv
<1>3. IInv /\ Saved => ContextRestored
  BY SavedRestores DEF IInv
<1> QED  BY <1>1, <1>2, <1>3, SchedulerInvariant, PTL DEF Spec
=============================================================================
