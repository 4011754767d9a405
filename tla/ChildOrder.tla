----------------------------- MODULE ChildOrder -----------------------------
(***************************************************************************)
(* The children of a host node: the diff of ReactChildFiber.js between the *)
(* children on the screen and those of a render, and the commit that moves *)
(* nodes one at a time until their order is the new one.                   *)
(*                                                                         *)
(* A child is a host element, or a fragment of host elements, which all    *)
(* become nodes of the one host parent.  An empty slot (null, a boolean)   *)
(* counts in the indices of the others.  Indices start at 0.               *)
(***************************************************************************)
EXTENDS Integers, Sequences, FiniteSets, SequencesExt

CONSTANTS
  Child,         \* [key, type, kids]: what a component may return in a slot
  Children,      \* sequences over Child and Empty, no key twice
  Empty, NoKey

ASSUME ChildOrderAssumption ==
  \A row \in Children : \A i, j \in DOMAIN row :
    /\ row[i] \in Child \cup {Empty}
    /\ i # j /\ row[i] # Empty /\ row[j] # Empty =>
         row[i].key = NoKey \/ row[i].key # row[j].key

VARIABLES
  currentChildren,  \* the child fibers on the screen
  finished,         \* those of the finished render
  effects,          \* the effects of the commit that are left, oldest first
  dom,              \* the child nodes of the host parent
  childPhase

childVars == <<currentChildren, finished, effects, dom, childPhase>>

IsFragment(f) == f.type = "fragment"
Nodes(f) == IF IsFragment(f) THEN [i \in DOMAIN f.kids |-> f.kids[i].node] ELSE <<f.node>>
AllNodes(row) == FlattenSeq([i \in DOMAIN row |-> Nodes(row[i])])
-----------------------------------------------------------------------------
(***************************************************************************)
(* reconcileChildrenArray.  Children are matched slot by slot as long as   *)
(* the keys agree, and by a map of the rest from then on.                  *)
(***************************************************************************)
\* The old fibers at an index; at most one.
OldAt(olds, i) == {f \in ToSet(olds) : f.index = i}

updateSlotMatches(olds, child, i) ==
  /\ child # Empty
  /\ IF OldAt(olds, i) = {} THEN child.key = NoKey
     ELSE \A f \in OldAt(olds, i) : f.key = child.key

\* How many slots the first loop gets through.
MatchedSlots(olds, news) ==
  CHOOSE n \in 0 .. Len(news) :
    /\ \A i \in 0 .. n - 1 : /\ updateSlotMatches(olds, news[i + 1], i)
                             /\ \E f \in ToSet(olds) : f.index >= i
    /\ \/ n = Len(news)
       \/ ~updateSlotMatches(olds, news[n + 1], n)
       \/ \A f \in ToSet(olds) : f.index < n

\* The old fiber considered for the child in slot i: by its slot, or by its key.
CandidateFor(olds, news, i) ==
  LET child == news[i + 1]
      n == MatchedSlots(olds, news)
      rest == {f \in ToSet(olds) : f.index >= n}
  IN  IF child = Empty THEN {}
      ELSE IF i < n THEN OldAt(olds, i)
      ELSE {f \in rest : f.key = child.key /\ (f.key = NoKey => f.index = i)}

\* A fiber is reused if its type is that of the element.
Reused(olds, news, i) ==
  {f \in CandidateFor(olds, news, i) : f.type = news[i + 1].type}

\* Mutant: every fiber that stays makes those before it move.
PlacesByNewIndex(olds, news) ==
  LET step(acc, i) ==
        LET old == Reused(olds, news, i)
            index == IF old = {} THEN 0 ELSE (CHOOSE f \in old : TRUE).index
        IN  IF news[i + 1] = Empty THEN acc
            ELSE IF old = {} \/ index < acc.last THEN [acc EXCEPT !.placed = @ \cup {i}]
            ELSE [acc EXCEPT !.last = i]
  IN  FoldLeft(step, [last |-> 0, placed |-> {}], [i \in 1 .. Len(news) |-> i - 1]).placed

\* placeChild: the slots of fibers that are new or have to move.
placeChildren(olds, news) ==
  LET step(acc, i) ==
        LET old == Reused(olds, news, i)
            index == IF old = {} THEN 0 ELSE (CHOOSE f \in old : TRUE).index
        IN  IF news[i + 1] = Empty THEN acc
            ELSE IF old = {} \/ index < acc.last THEN [acc EXCEPT !.placed = @ \cup {i}]
            ELSE [acc EXCEPT !.last = index]
  IN  FoldLeft(step, [last |-> 0, placed |-> {}], [i \in 1 .. Len(news) |-> i - 1]).placed

\* reconcileSingleElement: the first child with the key is reused if its type
\* is right; new fibers alone are placed.
SingleReused(olds, child) ==
  LET same == {f \in ToSet(olds) : f.key = child.key}
  IN  {f \in same : f.type = child.type /\ \A g \in same : f.index <= g.index}

\* The fibers of the slots that are not empty: where each comes from and whether
\* it is placed.  A single element that is not in an array has index 0.
reconcileChildFibers(olds, news, single) ==
  LET fiber(i) ==
        LET old == IF single THEN SingleReused(olds, news[1]) ELSE Reused(olds, news, i)
        IN  [index |-> i, element |-> news[i + 1], old |-> old,
             placed |-> IF single THEN old = {} ELSE i \in placeChildren(olds, news)]
      slots == SelectSeq([i \in 1 .. Len(news) |-> i - 1], LAMBDA i : news[i + 1] # Empty)
  IN  [k \in DOMAIN slots |-> fiber(slots[k])]

\* The fibers that no new child reuses, in order: they are deleted.
deleted(olds, row) ==
  SelectSeq(olds, LAMBDA f : f \notin UNION {row[k].old : k \in DOMAIN row})
-----------------------------------------------------------------------------
(***************************************************************************)
(* The finished children with nodes for the new ones, and their effects:   *)
(* deletions first, then those of the fibers, a fragment's after its       *)
(* kids'.  Nodes that exist are numbered by their position.                *)
(***************************************************************************)
NewNode(i, j) == 100 + 10 * i + j

HostFiber(spec, i, j) ==
  [key |-> spec.element.key, type |-> spec.element.type, index |-> spec.index, kids |-> <<>>,
   node |-> IF spec.old = {} THEN NewNode(i, j) ELSE (CHOOSE f \in spec.old : TRUE).node,
   placed |-> spec.placed]

Kids(spec) ==
  LET olds == IF spec.old = {} THEN <<>> ELSE (CHOOSE f \in spec.old : TRUE).kids
      row == reconcileChildFibers(olds, spec.element.kids, FALSE)
  IN  [row |-> [k \in DOMAIN row |-> IF spec.old = {} THEN [row[k] EXCEPT !.placed = FALSE]
                                     ELSE row[k]],
       deleted |-> deleted(olds, row)]

TopFiber(spec, i) ==
  IF spec.element.type # "fragment" THEN HostFiber(spec, i, 0)
  ELSE [key |-> spec.element.key, type |-> "fragment", index |-> spec.index, node |-> 0,
        kids |-> [k \in DOMAIN Kids(spec).row |-> HostFiber(Kids(spec).row[k], i, k)],
        placed |-> spec.placed]

Deletions(olds) ==
  [k \in DOMAIN olds |-> [tag |-> "Deletion", nodes |-> Nodes(olds[k]), at |-> <<0, 0>>]]
Placement(f, i, j) ==
  IF f.placed THEN <<[tag |-> "Placement", nodes |-> Nodes(f), at |-> <<i, j>>]>> ELSE <<>>

EffectsOf(spec, i) ==
  LET f == TopFiber(spec, i)
      kids == IF IsFragment(f)
              THEN Deletions(Kids(spec).deleted) \o
                   FlattenSeq([k \in DOMAIN f.kids |-> Placement(f.kids[k], i, k)])
              ELSE <<>>
  IN  kids \o Placement(f, i, 0)

Specs(news) == reconcileChildFibers(<<>>, news, FALSE)
Mounted(news) == [k \in DOMAIN Specs(news) |-> TopFiber(Specs(news)[k], k)]

\* Nodes numbered by their position, fibers without effects.
Renumbered(row) ==
  LET all == AllNodes(row)
      n(node) == CHOOSE i \in DOMAIN all : all[i] = node
      settled(f) == [f EXCEPT !.node = IF IsFragment(f) THEN 0 ELSE n(@), !.placed = FALSE]
  IN  [k \in DOMAIN row |->
         [settled(row[k]) EXCEPT !.kids = [j \in DOMAIN @ |-> settled(@[j])]]]

\* The first render of the host parent appends the nodes of its children.
ChildInit ==
  /\ \E news \in Children : currentChildren = Renumbered(Mounted(news))
  /\ finished = <<>> /\ effects = <<>>
  /\ dom = AllNodes(currentChildren)
  /\ childPhase = "idle"

\* single: the one child is returned by itself.
render(news, single) ==
  /\ childPhase = "idle" /\ (single => Len(news) = 1 /\ news[1] # Empty)
  /\ LET row == reconcileChildFibers(currentChildren, news, single)
     IN  /\ finished' = [k \in DOMAIN row |-> TopFiber(row[k], k)]
         /\ effects' = Deletions(deleted(currentChildren, row))
                       \o FlattenSeq([k \in DOMAIN row |-> EffectsOf(row[k], k)])
  /\ childPhase' = "commit"
  /\ UNCHANGED <<currentChildren, dom>>
-----------------------------------------------------------------------------
(***************************************************************************)
(* Committing one effect.                                                  *)
(***************************************************************************)
\* Mutant: the search for a sibling ends with the fragment.
StaysInFragment(i, j) ==
  LET kids(k) == SelectSeq(finished[k].kids, LAMBDA f : ~f.placed)
      after == IF j # 0
               THEN SelectSeq(SubSeq(finished[i].kids, j + 1, Len(finished[i].kids)),
                              LAMBDA f : ~f.placed)
               ELSE FlattenSeq([k \in 1 .. Len(finished) - i |->
                      IF finished[i + k].placed THEN <<>>
                      ELSE IF IsFragment(finished[i + k]) THEN kids(i + k)
                      ELSE <<finished[i + k]>>])
  IN  IF after = <<>> THEN {} ELSE {Head(after).node}

\* The next node that stays where it is: not one to be placed, nor one in a
\* fragment to be placed.  Past its last sibling the search goes on after the
\* fragment.
getHostSibling(i, j) ==
  LET kids(k) == SelectSeq(finished[k].kids, LAMBDA f : ~f.placed)
      after == (IF j = 0 THEN <<>>
                ELSE SelectSeq(SubSeq(finished[i].kids, j + 1, Len(finished[i].kids)),
                               LAMBDA f : ~f.placed))
               \o FlattenSeq([k \in 1 .. Len(finished) - i |->
                    IF finished[i + k].placed THEN <<>>
                    ELSE IF IsFragment(finished[i + k]) THEN kids(i + k)
                    ELSE <<finished[i + k]>>])
  IN  IF after = <<>> THEN {} ELSE {Head(after).node}

Without(nodes) == SelectSeq(dom, LAMBDA n : n \notin ToSet(nodes))

\* The nodes before the one found, or at the end.
Inserted(nodes, before) ==
  LET rest == Without(nodes)
      at == IF before = {} THEN Len(rest) + 1 ELSE CHOOSE k \in DOMAIN rest : rest[k] \in before
  IN  SubSeq(rest, 1, at - 1) \o nodes \o SubSeq(rest, at, Len(rest))

commitPlacement ==
  /\ childPhase = "commit" /\ effects # <<>> /\ Head(effects).tag = "Placement"
  /\ LET i == Head(effects).at[1]
         j == Head(effects).at[2]
     IN  /\ dom' = Inserted(Head(effects).nodes, getHostSibling(i, j))
         /\ finished' = IF j = 0 THEN [finished EXCEPT ![i].placed = FALSE]
                        ELSE [finished EXCEPT ![i].kids[j].placed = FALSE]
  /\ effects' = Tail(effects)
  /\ UNCHANGED <<currentChildren, childPhase>>

unmountHostComponents ==
  /\ childPhase = "commit" /\ effects # <<>> /\ Head(effects).tag = "Deletion"
  /\ dom' = Without(Head(effects).nodes)
  /\ effects' = Tail(effects)
  /\ UNCHANGED <<currentChildren, finished, childPhase>>

\* The finished children are now the current ones; their nodes are numbered anew.
finishCommit ==
  /\ childPhase = "commit" /\ effects = <<>>
  /\ currentChildren' = Renumbered(finished)
  /\ dom' = [k \in DOMAIN dom |-> CHOOSE i \in 1 .. 100 :
               i > Len(AllNodes(finished)) \/ AllNodes(finished)[i] = dom[k]]
  /\ finished' = <<>> /\ childPhase' = "idle"
  /\ UNCHANGED effects

ChildNext ==
  \/ \E news \in Children : \E single \in BOOLEAN : render(news, single)
  \/ commitPlacement \/ unmountHostComponents \/ finishCommit

ChildSpec == ChildInit /\ [][ChildNext]_childVars
-----------------------------------------------------------------------------
\* What React promises of keys: when the effects are committed, the nodes are
\* in the order of the children, and a child whose key and type were there
\* before, in the same fragment, has kept its node; unkeyed ones by their slot.
NodesFollowChildren ==
  childPhase = "commit" /\ effects = <<>> =>
    LET same(f, g, arrays) == f.type = g.type /\ f.key = g.key
                              /\ (f.key = NoKey => arrays /\ f.index = g.index)
    IN  /\ dom = AllNodes(finished)
        /\ \A f \in ToSet(finished), g \in ToSet(currentChildren) :
             same(f, g, Len(finished) > 1) =>
               IF IsFragment(f)
               THEN \A x \in ToSet(f.kids), y \in ToSet(g.kids) :
                      same(x, y, TRUE) => x.node = y.node
               ELSE f.node = g.node
=============================================================================
