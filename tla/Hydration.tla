----------------------------- MODULE Hydration -----------------------------
(***************************************************************************)
(* Hydration: the first render of a root adopts the nodes that the server  *)
(* has rendered (ReactFiberHydrationContext.js) where they match, and the  *)
(* commit puts in the missing ones and removes the superfluous ones.       *)
(*                                                                         *)
(* Fibers are numbered in the order in which work on them begins, 0 is the *)
(* host root; the server's nodes are numbered in document order, 0 is the  *)
(* container.  The node that a fiber creates has the number NewNode(f).    *)
(* Suspense instances are not hydrated: enableSuspenseServerRenderer is    *)
(* off.  Elements with direct text, head and body are left out.            *)
(***************************************************************************)
EXTENDS Integers, Sequences, FiniteSets, SequencesExt, FiniteSetsExt

CONSTANTS
  Rendered,  \* forests of [kind, name, parent]: a component, an element, a text
  Markup,    \* forests of an element, a text, a comment
  NoNode

\* The numbering is in document order: the parents of what follows a node
\* inside its parent are not outside of it.
InOrder(forest) ==
  \A i \in DOMAIN forest :
    /\ forest[i].parent \in 0 .. i - 1
    /\ \A j \in forest[i].parent + 1 .. i - 1 : forest[j].parent >= forest[i].parent

HydrationAssumption == \A forest \in Rendered \cup Markup : InOrder(forest)

VARIABLES
  rendered,                \* what the root renders
  server,                  \* what the server has rendered
  work,                    \* the fiber to begin or to complete
  hydrationParentFiber, nextHydratableInstance, isHydrating,
  stateNode,               \* the node of each fiber
  placed, updated,         \* the fibers with a Placement and an Update effect
  effectList,              \* of each fiber: the effects of its subtree, oldest first
  childNodes, nodeValue,   \* of each node
  hydrationPhase

hydrationContext == <<hydrationParentFiber, nextHydratableInstance, isHydrating>>
domNodes == <<childNodes, nodeValue>>
hydrationVars == <<rendered, server, work, hydrationContext, stateNode, placed, updated,
                   effectList, domNodes, hydrationPhase>>

Fibers == 0 .. Len(rendered)
IsHost(f) == f # 0 /\ rendered[f].kind # "component"
IsHostParent(f) == f = 0 \/ rendered[f].kind = "element"
HasParent(forest, p) == {i \in DOMAIN forest : forest[i].parent = p}

\* The element or root that holds the node of a fiber, and the fibers of the
\* nodes that an element or root holds, in order.
hostParent[f \in 1 .. Len(rendered)] ==
  IF IsHostParent(rendered[f].parent) THEN rendered[f].parent ELSE hostParent[rendered[f].parent]
HostChildren(p) ==
  SetToSortSeq({f \in DOMAIN rendered : IsHost(f) /\ hostParent[f] = p}, <)

NewNode(f) == Len(server) + f
Description(n) == IF n <= Len(server) THEN server[n] ELSE rendered[n - Len(server)]
-----------------------------------------------------------------------------
(***************************************************************************)
(* The server's nodes stay as they are until the commit.                   *)
(***************************************************************************)
FirstOf(nodes) == IF nodes = {} THEN NoNode ELSE Min(nodes)
Hydratable(p) == {n \in HasParent(server, p) : server[n].kind # "comment"}
getFirstHydratableChild(n) == FirstOf(Hydratable(n))
getNextHydratableSibling(n) == FirstOf({m \in Hydratable(server[n].parent) : m > n})

\* tryHydrate: an element by its name, a text by any text unless it is empty.
CanHydrate(f, n) ==
  /\ n # NoNode /\ server[n].kind = rendered[f].kind
  /\ IF rendered[f].kind = "text" THEN rendered[f].name # "" ELSE server[n].name = rendered[f].name

\* deleteHydratableInstance
Deletion(f, n) == [tag |-> "Deletion", fiber |-> f, node |-> n]

\* Mutant: a component counts as a parent to go on in.
PopsToReturn(f) == IF f = 0 THEN NoNode ELSE rendered[f].parent

\* The parent, or the first one above that is not a component; none above the root.
popToNextHostParent(f) == IF f = 0 THEN NoNode ELSE hostParent[f]
-----------------------------------------------------------------------------
NoStateNodes == [f \in Fibers |-> IF f = 0 THEN 0 ELSE NoNode]
NoEffects == [f \in Fibers |-> <<>>]

HydrationInit ==
  /\ rendered \in Rendered /\ server \in Markup
  /\ work = [step |-> "begin", fiber |-> 0]
  /\ hydrationParentFiber = NoNode /\ nextHydratableInstance = NoNode /\ isHydrating = FALSE
  /\ stateNode = NoStateNodes /\ placed = {} /\ updated = {} /\ effectList = NoEffects
  /\ childNodes = [n \in 0 .. Len(server) + Len(rendered) |->
                     SetToSortSeq(HasParent(server, n), <)]
  /\ nodeValue = [n \in 1 .. Len(server) + Len(rendered) |->
                    IF Description(n).kind = "text" THEN Description(n).name ELSE ""]
  /\ hydrationPhase = "render"

\* After beginning a fiber its first child is next, after completing it its
\* sibling or its parent.
AfterBegin(f) ==
  IF f < Len(rendered) /\ rendered[f + 1].parent = f THEN [step |-> "begin", fiber |-> f + 1]
  ELSE [step |-> "complete", fiber |-> f]
AfterComplete(f) ==
  LET siblings == {g \in HasParent(rendered, rendered[f].parent) : g > f}
  IN  IF siblings # {} THEN [step |-> "begin", fiber |-> Min(siblings)]
      ELSE [step |-> "complete", fiber |-> rendered[f].parent]

Begins(f) == /\ hydrationPhase = "render" /\ work = [step |-> "begin", fiber |-> f]
             /\ work' = AfterBegin(f)
             /\ UNCHANGED <<rendered, server, updated, domNodes, hydrationPhase>>

\* updateHostRoot: enterHydrationState.
beginHostRoot ==
  /\ Begins(0)
  /\ hydrationParentFiber' = 0 /\ isHydrating' = TRUE
  /\ nextHydratableInstance' = getFirstHydratableChild(0)
  /\ UNCHANGED <<stateNode, placed, effectList>>

beginComponent(f) ==
  /\ f \in DOMAIN rendered /\ ~IsHost(f) /\ Begins(f)
  /\ UNCHANGED <<hydrationContext, stateNode, placed, effectList>>

\* Inside of a tree that is put in, nothing is claimed.
beginNotHydrating(f) ==
  /\ f \in DOMAIN rendered /\ IsHost(f) /\ ~isHydrating /\ Begins(f)
  /\ UNCHANGED <<hydrationContext, stateNode, placed, effectList>>

\* Neither the next node nor the one after it will do.
insertNonHydratedInstance(f) ==
  /\ f \in DOMAIN rendered /\ IsHost(f) /\ isHydrating /\ Begins(f)
  /\ ~CanHydrate(f, nextHydratableInstance)
  /\ nextHydratableInstance # NoNode =>
       ~CanHydrate(f, getNextHydratableSibling(nextHydratableInstance))
  /\ placed' = placed \cup {f}
  /\ isHydrating' = FALSE /\ hydrationParentFiber' = f
  /\ UNCHANGED <<nextHydratableInstance, stateNode, effectList>>

\* tryToClaimNextHydratableInstance: the next node, or the one after it, in
\* which case the next one is deleted.
claimHydratableInstance(f) ==
  /\ f \in DOMAIN rendered /\ IsHost(f) /\ isHydrating /\ Begins(f)
  /\ nextHydratableInstance # NoNode
  /\ LET next == nextHydratableInstance
         n == IF CanHydrate(f, next) THEN next ELSE getNextHydratableSibling(next)
     IN  /\ CanHydrate(f, n)
         /\ stateNode' = [stateNode EXCEPT ![f] = n]
         /\ effectList' = IF n = next THEN effectList
                          ELSE [effectList EXCEPT ![hydrationParentFiber] =
                                  Append(@, Deletion(hydrationParentFiber, next))]
         /\ nextHydratableInstance' = getFirstHydratableChild(n)
  /\ hydrationParentFiber' = f
  /\ UNCHANGED <<isHydrating, placed>>
-----------------------------------------------------------------------------
Completes(f) == /\ hydrationPhase = "render" /\ work = [step |-> "complete", fiber |-> f]
                /\ UNCHANGED <<rendered, server, placed, nodeValue>>

\* completeUnitOfWork: the effects of the fiber's subtree, then its own.
AppendedToReturn(f, list, hasEffect) ==
  [effectList EXCEPT ![f] = list,
     ![rendered[f].parent] =
       @ \o list \o IF hasEffect THEN <<[tag |-> "Fiber", fiber |-> f]>> ELSE <<>>]

completeComponent(f) ==
  /\ f \in DOMAIN rendered /\ ~IsHost(f) /\ Completes(f)
  /\ work' = AfterComplete(f)
  /\ effectList' = AppendedToReturn(f, effectList[f], FALSE)
  /\ UNCHANGED <<hydrationContext, stateNode, updated, childNodes, hydrationPhase>>

\* The fiber was not hydrated: it creates its node, with those of its children.
\* At the top of a tree that is put in, hydration goes on with what follows.
completeInserted(f) ==
  /\ f \in DOMAIN rendered /\ IsHost(f) /\ Completes(f)
  /\ f # hydrationParentFiber \/ ~isHydrating
  /\ work' = AfterComplete(f)
  /\ IF f # hydrationParentFiber THEN UNCHANGED <<hydrationParentFiber, isHydrating>>
     ELSE hydrationParentFiber' = popToNextHostParent(f) /\ isHydrating' = TRUE
  /\ stateNode' = [stateNode EXCEPT ![f] = NewNode(f)]
  /\ childNodes' = [childNodes EXCEPT ![NewNode(f)] =
                      [i \in DOMAIN HostChildren(f) |-> stateNode[HostChildren(f)[i]]]]
  /\ effectList' = AppendedToReturn(f, effectList[f], f \in placed)
  /\ UNCHANGED <<nextHydratableInstance, updated, hydrationPhase>>

\* The nodes that the children of a hydrated fiber have left over.
LeftOver ==
  IF nextHydratableInstance = NoNode THEN {}
  ELSE {n \in Hydratable(server[nextHydratableInstance].parent) : n >= nextHydratableInstance}
DeletionsOf(f, nodes) ==
  LET sorted == SetToSortSeq(nodes, <) IN [i \in DOMAIN sorted |-> Deletion(f, sorted[i])]

\* popHydrationState, prepareToHydrateHostTextInstance: other text is an update.
completeHydrated(f) ==
  /\ f \in DOMAIN rendered /\ IsHost(f) /\ Completes(f)
  /\ f = hydrationParentFiber /\ isHydrating
  /\ work' = AfterComplete(f)
  /\ LET differs == rendered[f].kind = "text" /\ nodeValue[stateNode[f]] # rendered[f].name
     IN  /\ updated' = IF differs THEN updated \cup {f} ELSE updated
         /\ effectList' =
              AppendedToReturn(f, effectList[f] \o DeletionsOf(f, LeftOver), differs)
  /\ hydrationParentFiber' = popToNextHostParent(f)
  /\ nextHydratableInstance' = getNextHydratableSibling(stateNode[f])
  /\ UNCHANGED <<isHydrating, stateNode, childNodes, hydrationPhase>>

\* There is no host parent above the root: hydration has ended.
completeHostRoot ==
  /\ Completes(0)
  /\ effectList' = [effectList EXCEPT ![0] = @ \o DeletionsOf(0, LeftOver)]
  /\ hydrationParentFiber' = NoNode /\ nextHydratableInstance' = NoNode
  /\ hydrationPhase' = "commit"
  /\ UNCHANGED <<work, isHydrating, stateNode, updated, childNodes>>

\* The render is interrupted and the root rendered from the start; another
\* root that is not hydrated may be rendered in between.
prepareFreshStack ==
  /\ hydrationPhase = "render" /\ work' = [step |-> "begin", fiber |-> 0]
  /\ UNCHANGED <<rendered, server, nodeValue, hydrationPhase>>
  /\ \/ UNCHANGED hydrationContext
     \/ /\ hydrationParentFiber' = NoNode /\ nextHydratableInstance' = NoNode
        /\ isHydrating' = FALSE
  /\ stateNode' = NoStateNodes /\ placed' = {} /\ updated' = {} /\ effectList' = NoEffects
  /\ childNodes' = [n \in DOMAIN childNodes |-> IF n > Len(server) THEN <<>> ELSE childNodes[n]]
-----------------------------------------------------------------------------
(***************************************************************************)
(* The commit, an effect at a time.  A DOM operation on a node that is not *)
(* a child of the parent throws.                                           *)
(***************************************************************************)
Commits(e) ==
  /\ hydrationPhase = "commit" /\ effectList[0] # <<>> /\ e = Head(effectList[0])
  /\ effectList' = [effectList EXCEPT ![0] = Tail(@)]
  /\ UNCHANGED <<rendered, server, work, hydrationContext, stateNode>>

\* The next node that is not about to be placed itself.
getHostSibling(f) ==
  LET after == SelectSeq(HostChildren(hostParent[f]), LAMBDA g : g > f /\ g \notin placed)
  IN  IF after = <<>> THEN NoNode ELSE stateNode[Head(after)]

Holds(p, n) == n \in ToSet(childNodes[p])

commitPlacement ==
  \E e \in ToSet(effectList[0]) :
    /\ Commits(e) /\ e.tag = "Fiber" /\ e.fiber \in placed
    /\ LET f == e.fiber
           p == stateNode[hostParent[f]]
           before == getHostSibling(f)
           i == IF before = NoNode THEN Len(childNodes[p]) + 1
                ELSE CHOOSE j \in DOMAIN childNodes[p] : childNodes[p][j] = before
       IN  IF before # NoNode /\ ~Holds(p, before)
           THEN hydrationPhase' = "threw" /\ UNCHANGED childNodes
           ELSE /\ childNodes' = [childNodes EXCEPT ![p] = InsertAt(@, i, stateNode[f])]
                /\ UNCHANGED hydrationPhase
    /\ placed' = placed \ {e.fiber}
    /\ UNCHANGED <<updated, nodeValue>>

commitTextUpdate ==
  \E e \in ToSet(effectList[0]) :
    /\ Commits(e) /\ e.tag = "Fiber" /\ e.fiber \in updated
    /\ nodeValue' = [nodeValue EXCEPT ![stateNode[e.fiber]] = rendered[e.fiber].name]
    /\ updated' = updated \ {e.fiber}
    /\ UNCHANGED <<placed, childNodes, hydrationPhase>>

\* unmountHostComponents
commitDeletion ==
  \E e \in ToSet(effectList[0]) :
    /\ Commits(e) /\ e.tag = "Deletion"
    /\ LET p == stateNode[e.fiber]
       IN  IF ~Holds(p, e.node)
           THEN hydrationPhase' = "threw" /\ UNCHANGED childNodes
           ELSE /\ childNodes' = [childNodes EXCEPT ![p] = SelectSeq(@, LAMBDA n : n # e.node)]
                /\ UNCHANGED hydrationPhase
    /\ UNCHANGED <<placed, updated, nodeValue>>

finishHydration ==
  /\ hydrationPhase = "commit" /\ effectList[0] = <<>> /\ hydrationPhase' = "done"
  /\ UNCHANGED <<rendered, server, work, hydrationContext, stateNode, placed, updated,
                 effectList, domNodes>>

HydrationNext ==
  \/ beginHostRoot \/ completeHostRoot \/ prepareFreshStack
  \/ \E f \in Fibers :
       \/ beginComponent(f) \/ beginNotHydrating(f) \/ insertNonHydratedInstance(f)
       \/ claimHydratableInstance(f)
       \/ completeComponent(f) \/ completeInserted(f) \/ completeHydrated(f)
  \/ commitPlacement \/ commitTextUpdate \/ commitDeletion \/ finishHydration

HydrationSpec == HydrationInit /\ [][HydrationNext]_hydrationVars
-----------------------------------------------------------------------------
\* What is visible: comments are not.
Visible(n) == SelectSeq(childNodes[n], LAMBDA m : Description(m).kind # "comment")

ShowsNode(f) ==
  LET n == stateNode[f]
  IN  /\ Description(n).kind = rendered[f].kind
      /\ IF rendered[f].kind = "text" THEN nodeValue[n] = rendered[f].name
         ELSE Description(n).name = rendered[f].name

\* The server has rendered what the client renders, up to the texts, the
\* comments between them and the components, which have no nodes.
Shape(forest, kinds) ==
  LET ids == SetToSortSeq({i \in DOMAIN forest : forest[i].kind \in kinds}, <)
      depth[i \in 0 .. Len(forest)] ==
        IF i = 0 THEN 0
        ELSE depth[forest[i].parent] + IF forest[i].kind \in kinds THEN 1 ELSE 0
  IN  [k \in DOMAIN ids |-> [kind |-> forest[ids[k]].kind, depth |-> depth[ids[k]],
                             name |-> IF forest[ids[k]].kind = "text" THEN ""
                                      ELSE forest[ids[k]].name]]
SameShape ==
  /\ Shape(rendered, {"element", "text"}) = Shape(server, {"element", "text"})
  /\ \A f \in DOMAIN rendered : rendered[f].kind = "text" => rendered[f].name # ""

\* Whatever the server has rendered, and however often the first render is
\* interrupted, hydration ends with the nodes that the client renders, in
\* order: no operation on the DOM fails, nothing superfluous is left, and no
\* node serves two fibers.  If the server's nodes match, every one is adopted.
HydratesAsRendered ==
  /\ hydrationPhase # "threw"
  /\ hydrationPhase = "done" =>
       \A p \in Fibers : IsHostParent(p) =>
         /\ Visible(stateNode[p]) =
              [i \in DOMAIN HostChildren(p) |-> stateNode[HostChildren(p)[i]]]
         /\ \A f \in ToSet(HostChildren(p)) : ShowsNode(f)
         /\ SameShape =>
              \A f \in ToSet(HostChildren(p)) : stateNode[f] \in 1 .. Len(server)
=============================================================================
