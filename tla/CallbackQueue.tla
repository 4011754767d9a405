--------------------------- MODULE CallbackQueue ---------------------------
(***************************************************************************)
(* The Scheduler's list of pending callbacks (packages/scheduler/src/      *)
(* Scheduler.js), as the sequence one reads by following `next` from       *)
(* firstCallbackNode.  A callback node is a number: nodes are numbered in  *)
(* the order in which they are created, so a smaller number is an older    *)
(* node.  CallbackRing gives the same operations on the pointers of the    *)
(* circular doubly linked list and is checked to implement this module.    *)
(***************************************************************************)
EXTENDS Integers, Sequences, SequencesExt

CONSTANTS
  MaxNode,     \* bound: how many callback nodes are ever created
  Expirations  \* the expiration times callbacks are scheduled with

ASSUME QueueAssumption ==
  /\ MaxNode \in Nat
  /\ Expirations \subseteq Int

VARIABLES
  allocated,   \* number of nodes created so far
  expires,     \* expirationTime of each created node
  queue        \* the pending nodes, from firstCallbackNode on

qvars == <<allocated, expires, queue>>

Node == 1 .. MaxNode
Created == 1 .. allocated

(***************************************************************************)
(* The two searches of the code.  A new callback goes before the first one *)
(* that expires later, so behind its equals; a continuation goes before    *)
(* the first one that does not expire earlier, so ahead of its equals.     *)
(* With no such callback both go to the end of the list.                   *)
(***************************************************************************)
AtIndexOrEnd(q, i) == IF i = 0 THEN Len(q) + 1 ELSE i

PlaceOfNew(q, exp, e) ==
  AtIndexOrEnd(q, SelectInSeq(q, LAMBDA n : exp[n] > e))

PlaceOfContinuation(q, exp, e) ==
  AtIndexOrEnd(q, SelectInSeq(q, LAMBDA n : exp[n] >= e))

\* The code asks a node itself whether it is linked; 0 if it is not.
PlaceOfNode(q, n) == SelectInSeq(q, LAMBDA m : m = n)

QueueInit ==
  /\ allocated = 0
  /\ expires = [n \in Node |-> 0]
  /\ queue = <<>>

\* Create the next node with expiration e and link it in at position `place`.
LinkNew(place, e) ==
  /\ allocated < MaxNode
  /\ allocated' = allocated + 1
  /\ expires' = [expires EXCEPT ![allocated + 1] = e]
  /\ queue' = InsertAt(queue, place, allocated + 1)

\* unstable_scheduleCallback, once the expiration time is known.
InsertNew(e) == LinkNew(PlaceOfNew(queue, expires, e), e)

\* flushFirstCallback, when the callback returned a continuation.
InsertContinuation(e) == LinkNew(PlaceOfContinuation(queue, expires, e), e)

\* flushFirstCallback takes the first node off the list before calling it.
RemoveFirstNode ==
  /\ queue # <<>>
  /\ queue' = Tail(queue)
  /\ UNCHANGED <<allocated, expires>>

\* unstable_cancelCallback: a node that is not linked is left alone.
Unlink(n) ==
  /\ LET i == PlaceOfNode(queue, n)
     IN  queue' = IF i = 0 THEN queue ELSE RemoveAt(queue, i)
  /\ UNCHANGED <<allocated, expires>>

QueueNext ==
  \/ \E e \in Expirations : InsertNew(e)
  \/ \E n \in Created : n \notin ToSet(queue) /\ InsertContinuation(expires[n])
  \/ RemoveFirstNode
  \/ \E n \in Created : Unlink(n)

QueueSpec == QueueInit /\ [][QueueNext]_qvars
-----------------------------------------------------------------------------
QueueTypeOK ==
  /\ allocated \in 0 .. MaxNode
  /\ expires \in [Node -> Int]
  /\ queue \in Seq(Created)

NoDuplicates(q) == \A i, j \in 1 .. Len(q) : q[i] = q[j] => i = j

SortedByExpiration(q, exp) ==
  \A i, j \in 1 .. Len(q) : i < j => exp[q[i]] <= exp[q[j]]

(***************************************************************************)
(* The list is always ordered by expiration time and holds no node twice,  *)
(* whatever the order of schedules, continuations and cancellations: both  *)
(* searches of Scheduler.js stop at the first match and are right only     *)
(* because of it.                                                          *)
(***************************************************************************)
QueueSorted == NoDuplicates(queue) /\ SortedByExpiration(queue, expires)
=============================================================================
