---------------------------- MODULE CallbackRing ----------------------------
(***************************************************************************)
(* The circular doubly linked list of Scheduler.js, pointer by pointer:    *)
(* firstCallbackNode and the `next` and `previous` fields of every node.   *)
(* It implements CallbackQueue under the mapping that reads the ring from  *)
(* the first node.                                                         *)
(***************************************************************************)
EXTENDS Integers, Sequences, SequencesExt

CONSTANTS MaxNode, Expirations

NoNode == 0
Node == 1 .. MaxNode

VARIABLES
  allocated,          \* number of nodes created so far
  expires,            \* node.expirationTime
  next,               \* node.next; NoNode while the node is not in the list
  previous,           \* node.previous
  firstCallbackNode

rvars == <<allocated, expires, next, previous, firstCallbackNode>>

Created == 1 .. allocated

(***************************************************************************)
(* The nodes met by `node = node.next` from firstCallbackNode until the    *)
(* walk is back at the first node: the range of the two do-while loops.    *)
(***************************************************************************)
Ring ==
  LET at[i \in Node] ==
        IF i = 1 THEN firstCallbackNode
        ELSE IF at[i - 1] = NoNode THEN NoNode ELSE next[at[i - 1]]
      stops == {i \in Node : i > 1 /\ at[i] \in {NoNode, firstCallbackNode}}
      length == IF stops = {} THEN MaxNode ELSE Min(stops) - 1
  IN  IF firstCallbackNode = NoNode THEN <<>> ELSE [i \in 1 .. length |-> at[i]]

\* The first node of the ring that passes the test, NoNode if there is none.
FirstThat(Test(_)) ==
  LET i == SelectInSeq(Ring, Test) IN IF i = 0 THEN NoNode ELSE Ring[i]

RingInit ==
  /\ allocated = 0
  /\ expires = [n \in Node |-> 0]
  /\ next = [n \in Node |-> NoNode]
  /\ previous = [n \in Node |-> NoNode]
  /\ firstCallbackNode = NoNode

\* Mutant: a node put before the first node does not become the first node.
LinkKeepsFirst(new, e, found) ==
  /\ allocated < MaxNode
  /\ allocated' = new
  /\ expires' = [expires EXCEPT ![new] = e]
  /\ LET empty  == firstCallbackNode = NoNode
         after  == IF found = NoNode THEN firstCallbackNode ELSE found
         before == previous[after]
     IN  IF empty
         THEN /\ firstCallbackNode' = new
              /\ next' = [next EXCEPT ![new] = new]
              /\ previous' = [previous EXCEPT ![new] = new]
         ELSE /\ next' = [next EXCEPT ![before] = new, ![new] = after]
              /\ previous' = [previous EXCEPT ![after] = new, ![new] = before]
              /\ UNCHANGED firstCallbackNode

(***************************************************************************)
(* The common end of both insertions: an empty list becomes a ring of one  *)
(* node; otherwise the node goes before `found`, or before the first node  *)
(* (the end of the ring) when the search found nothing, and becomes the    *)
(* first node only if it goes before it and was found there.               *)
(***************************************************************************)
Link(new, e, found) ==
  /\ allocated < MaxNode
  /\ allocated' = new
  /\ expires' = [expires EXCEPT ![new] = e]
  /\ IF firstCallbackNode = NoNode
     THEN /\ firstCallbackNode' = new
          /\ next' = [next EXCEPT ![new] = new]
          /\ previous' = [previous EXCEPT ![new] = new]
     ELSE LET after  == IF found = NoNode THEN firstCallbackNode ELSE found
              before == previous[after]
          IN  /\ firstCallbackNode' = IF found = firstCallbackNode THEN new
                                      ELSE firstCallbackNode
              /\ next' = [next EXCEPT ![before] = new, ![new] = after]
              /\ previous' = [previous EXCEPT ![after] = new, ![new] = before]

\* unstable_scheduleCallback: behind every callback of equal expiration.
RingInsertNew(e) ==
  Link(allocated + 1, e, FirstThat(LAMBDA n : expires[n] > e))

\* flushFirstCallback, continuation: ahead of every callback of equal expiration.
RingInsertContinuation(e) ==
  Link(allocated + 1, e, FirstThat(LAMBDA n : expires[n] >= e))

\* flushFirstCallback: take the first node off the ring.
RingRemoveFirst ==
  /\ firstCallbackNode # NoNode
  /\ LET node == firstCallbackNode
         succ == next[node]
         last == previous[node]
     IN  IF succ = node
         THEN /\ firstCallbackNode' = NoNode
              /\ next' = [next EXCEPT ![node] = NoNode]
              /\ previous' = [previous EXCEPT ![node] = NoNode]
         ELSE /\ firstCallbackNode' = succ
              /\ next' = [next EXCEPT ![last] = succ, ![node] = NoNode]
              /\ previous' = [previous EXCEPT ![succ] = last, ![node] = NoNode]
  /\ UNCHANGED <<allocated, expires>>

\* unstable_cancelCallback: `next === null` says the node is not in the list.
RingUnlink(node) ==
  /\ LET succ == next[node]
         pred == previous[node]
     IN  IF succ = NoNode
         THEN UNCHANGED <<next, previous, firstCallbackNode>>
         ELSE IF succ = node
         THEN /\ firstCallbackNode' = NoNode
              /\ next' = [next EXCEPT ![node] = NoNode]
              /\ previous' = [previous EXCEPT ![node] = NoNode]
         ELSE /\ firstCallbackNode' = IF node = firstCallbackNode THEN succ
                                      ELSE firstCallbackNode
              /\ next' = [next EXCEPT ![pred] = succ, ![node] = NoNode]
              /\ previous' = [previous EXCEPT ![succ] = pred, ![node] = NoNode]
  /\ UNCHANGED <<allocated, expires>>

RingNext ==
  \/ \E e \in Expirations : RingInsertNew(e)
  \/ \E n \in Created : next[n] = NoNode /\ RingInsertContinuation(expires[n])
  \/ RingRemoveFirst
  \/ \E n \in Created : RingUnlink(n)

RingSpec == RingInit /\ [][RingNext]_rvars
-----------------------------------------------------------------------------
(***************************************************************************)
(* The ring, read from its first node, is the ordered list of              *)
(* CallbackQueue and every pointer operation is the list operation it      *)
(* stands for: a handle kept across a flush, a continuation or an earlier  *)
(* cancellation never cuts another node out of the ring.                   *)
(***************************************************************************)
List == INSTANCE CallbackQueue WITH queue <- Ring
ImplementsQueue == List!QueueSpec
=============================================================================
