----------------------------- MODULE FiberTree -----------------------------
(***************************************************************************)
(* The tree of fibers and the operations every phase applies to it.        *)
(*                                                                         *)
(* The program rendered is a table: an element stands for a type and a     *)
(* key, and Kids says which elements it returns in each of its states.     *)
(* An element has at most two fibers, <<e, 1>> and <<e, 2>>, each other's  *)
(* alternates; <<e, 1>> is the one created when e mounts.  The operators   *)
(* below take all the fibers F and return the fibers after the call.       *)
(***************************************************************************)
EXTENDS Integers, Sequences, FiniteSets, SequencesExt

CONSTANTS
  Element,
  Root,            \* the element of the HostRoot fiber
  TagOf,           \* the tag of the fibers of an element
  Initial,         \* the state of an element that mounts
  Kids,            \* for an element and a state, the elements it returns
  ConstElement,    \* elements created once: they get the same props every time
  ContextElement,  \* classes and host elements that push onto the stack
  Primary,         \* the fragments of a Suspense element
  Fallback,
  Nil

NoWork == 0
Fiber == Element \X {1, 2}
Tag(f) == TagOf[f[1]]
Other(f) == <<f[1], 3 - f[2]>>
Latest(S) == CHOOSE t \in S \cup {NoWork} : \A u \in S : t >= u

NewFiber(e, time, tags, value) ==
  [alternate |-> FALSE, return |-> Nil, child |-> Nil, sibling |-> Nil,
   expirationTime |-> time, childExpirationTime |-> NoWork,
   effectTag |-> tags, firstEffect |-> Nil, lastEffect |-> Nil, nextEffect |-> Nil,
   memoizedState |-> Initial[e], baseState |-> Initial[e], queue |-> <<>>,
   captured |-> FALSE, thenable |-> FALSE,
   newProps |-> TRUE, props |-> value, stateNode |-> FALSE]

Alternate(F, f) == IF F[f].alternate THEN Other(f) ELSE Nil
Both(F, f) == IF F[f].alternate THEN {f, Other(f)} ELSE {f}
-----------------------------------------------------------------------------
(* Walks along the pointers. *)

Path(F, f) ==
  LET path[x \in Fiber \cup {Nil}] ==
        IF x = Nil THEN <<>> ELSE <<x>> \o path[F[x].return]
  IN  path[f]

Siblings(F, f) ==
  LET row[x \in Fiber \cup {Nil}] ==
        IF x = Nil THEN <<>> ELSE <<x>> \o row[F[x].sibling]
  IN  row[f]

Children(F, f) == Siblings(F, F[f].child)

Subtree(F, f) ==
  LET below[x \in Fiber \cup {Nil}] ==
        IF x = Nil THEN {} ELSE {x} \cup below[F[x].child] \cup below[F[x].sibling]
  IN  {f} \cup below[F[f].child]

IsHost(f) == Tag(f) = "HostComponent"
IsHostParent(f) == Tag(f) \in {"HostComponent", "HostRoot"}

\* The host fibers at the top of the subtrees of f and of its later siblings.
TopHosts(F, f) ==
  LET tops[x \in Fiber \cup {Nil}] ==
        IF x = Nil THEN {}
        ELSE (IF IsHost(x) THEN {x} ELSE tops[F[x].child]) \cup tops[F[x].sibling]
  IN  tops[f]

HostsOf(F, f) == IF IsHost(f) THEN {f} ELSE TopHosts(F, F[f].child)
-----------------------------------------------------------------------------
(***************************************************************************)
(* Making work in progress: createWorkInProgress, cloneChildFibers and the *)
(* reconciliation of a list of children by key.                            *)
(***************************************************************************)
\* The work-in-progress fiber of the current fiber f, given the same props.
WorkInProgressOf(F, f) ==
  [F[f] EXCEPT !.alternate = TRUE,
               !.return = IF F[f].alternate THEN F[Other(f)].return ELSE Nil,
               !.stateNode = IF F[f].alternate THEN F[Other(f)].stateNode ELSE @,
               !.effectTag = {},
               !.firstEffect = Nil, !.lastEffect = Nil, !.nextEffect = Nil,
               !.newProps = FALSE]

createWorkInProgress(F, f) ==
  [F EXCEPT ![Other(f)] = WorkInProgressOf(F, f), ![f].alternate = TRUE]

\* The fibers `row` become the children of w.
SetChildren(F, w, row) ==
  [f \in Fiber |->
     IF f = w THEN [F[f] EXCEPT !.child = IF row = <<>> THEN Nil ELSE row[1]]
     ELSE IF \E i \in DOMAIN row : row[i] = f
     THEN LET i == CHOOSE i \in DOMAIN row : row[i] = f
          IN  [F[f] EXCEPT !.return = w,
                           !.sibling = IF i = Len(row) THEN Nil ELSE row[i + 1]]
     ELSE F[f]]

cloneChildFibers(F, w) ==
  LET row == Children(F, w)
      clones == [f \in Fiber |->
                   IF f \in ToSet(row) THEN [F[f] EXCEPT !.alternate = TRUE]
                   ELSE IF Other(f) \in ToSet(row) THEN WorkInProgressOf(F, Other(f))
                   ELSE F[f]]
  IN  SetChildren(clones, w, [i \in DOMAIN row |-> Other(row[i])])

\* Deletions are appended to the effects of w, in the order of the children.
deleteChildren(F, w, row) ==
  FoldLeft(LAMBDA G, f :
             LET last == G[w].lastEffect
                 H == [G EXCEPT ![f].effectTag = {"Deletion"}, ![f].nextEffect = Nil,
                                ![w].lastEffect = f]
             IN  IF last = Nil THEN [H EXCEPT ![w].firstEffect = f]
                 ELSE [H EXCEPT ![last].nextEffect = f],
           F, row)

\* The old children `olds` of w give way to the elements `news`.  Fibers with
\* the key of a new element are reused.  fresh: w made new element objects.
reconcile(F, w, olds, news, time, tracks, fresh, value) ==
  LET reused == SelectSeq(olds, LAMBDA f : f[1] \in ToSet(news))
      kept == {f[1] : f \in ToSet(reused)}
      tags == IF tracks THEN {"Placement"} ELSE {}
      new == [f \in Fiber |->
                IF f \in ToSet(reused) THEN [F[f] EXCEPT !.alternate = TRUE]
                ELSE IF Other(f) \in ToSet(reused)
                THEN [WorkInProgressOf(F, Other(f)) EXCEPT
                        !.newProps = fresh /\ f[1] \notin ConstElement,
                        !.props = value]
                ELSE IF f[1] \in ToSet(news) \ kept /\ f[2] = 1
                THEN NewFiber(f[1], time, tags, value)
                ELSE F[f]]
      row == [i \in DOMAIN news |->
                IF news[i] \in kept
                THEN Other(CHOOSE f \in ToSet(reused) : f[1] = news[i])
                ELSE <<news[i], 1>>]
      linked == SetChildren(new, w, row)
  IN  IF tracks
      THEN deleteChildren(linked, w, SelectSeq(olds, LAMBDA f : f \notin ToSet(reused)))
      ELSE linked
-----------------------------------------------------------------------------
(***************************************************************************)
(* Expiration times along the path to the root.                            *)
(***************************************************************************)
Raise(t, time) == IF t < time THEN time ELSE t

\* Mutant: the alternates of the ancestors are forgotten.
MarksOnePathOnly(F, f, time) ==
  [g \in Fiber |->
     [F[g] EXCEPT
        !.expirationTime = IF g \in Both(F, f) THEN Raise(@, time) ELSE @,
        !.childExpirationTime = IF g \in ToSet(Tail(Path(F, f))) THEN Raise(@, time) ELSE @]]

markUpdateTimeFromFiberToRoot(F, f, time) ==
  LET above == UNION {Both(F, g) : g \in ToSet(Tail(Path(F, f)))}
  IN  [g \in Fiber |->
         [F[g] EXCEPT
            !.expirationTime = IF g \in Both(F, f) THEN Raise(@, time) ELSE @,
            !.childExpirationTime = IF g \in above THEN Raise(@, time) ELSE @]]

\* Whether the walk from f ends at the root of the tree.
ReachesRoot(F, f) == Tag(Last(Path(F, f))) = "HostRoot"

\* Marks the ancestors of f and stops at the first whose alternates both carry the time.
scheduleWorkOnParentPath(F, f, time) ==
  LET path == Tail(Path(F, f))
      enough == {i \in DOMAIN path :
                   \A g \in Both(F, path[i]) : F[g].childExpirationTime >= time}
      marked == UNION {Both(F, path[i]) :
                         i \in {j \in DOMAIN path : \A k \in enough : j < k}}
  IN  [g \in Fiber |-> IF g \in marked
                       THEN [F[g] EXCEPT !.childExpirationTime = Raise(@, time)] ELSE F[g]]

resetChildExpirationTime(F, w) ==
  [F EXCEPT ![w].childExpirationTime =
     Latest(UNION {{F[f].expirationTime, F[f].childExpirationTime} :
                     f \in ToSet(Children(F, w))})]
-----------------------------------------------------------------------------
(***************************************************************************)
(* The update queue of a class component or of the root.  Module           *)
(* UpdateQueue has its details; here an update replaces the state.         *)
(***************************************************************************)
enqueueUpdate(F, f, update) ==
  [g \in Fiber |-> IF g \in Both(F, f)
                   THEN [F[g] EXCEPT !.queue = Append(@, update)] ELSE F[g]]

\* What processing the queue of fiber record w at a time makes of it.
processUpdateQueue(w, time) ==
  LET in      == {i \in DOMAIN w.queue : w.queue[i].time >= time}
      skipped == DOMAIN w.queue \ in
      first   == IF skipped = {} THEN Len(w.queue) + 1
                 ELSE CHOOSE i \in skipped : \A j \in skipped : i <= j
      after(S) == IF S = {} THEN w.baseState ELSE w.queue[Latest(S)].state
      result  == IF w.captured THEN "failed" ELSE after(in)
  IN  [w EXCEPT !.memoizedState = result,
                !.baseState = IF skipped = {} THEN result
                              ELSE after({i \in in : i < first}),
                !.queue = SubSeq(w.queue, first, Len(w.queue)),
                !.expirationTime = Latest({w.queue[i].time : i \in skipped}),
                !.captured = FALSE]
=============================================================================
