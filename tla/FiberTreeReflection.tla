------------------------ MODULE FiberTreeReflection ------------------------
(***************************************************************************)
(* ReactFiberTreeReflection.js: which of a fiber and its alternate is in   *)
(* the tree on the screen, found with return and child pointers that the   *)
(* two trees, a render in progress among them, share and overwrite.        *)
(***************************************************************************)
EXTENDS FiberTree

isFiberMountedImpl(F, f) ==
  LET path == Path(F, f)
  IN  CASE ~F[f].alternate /\ (\E g \in ToSet(path) : "Placement" \in F[g].effectTag) -> "mounting"
        [] Tag(Last(path)) = "HostRoot" -> "mounted"
        [] OTHER -> "unmounted"

\* Mutant: whichever of them is there is taken for a.
AnyOf(row, a, b) == IF {a, b} \cap ToSet(row) = {} THEN Nil ELSE a

\* The first of two fibers in a row, Nil if none of them is there.
FirstOf(row, a, b) ==
  LET found == SelectSeq(row, LAMBDA x : x \in {a, b})
  IN  IF found = <<>> THEN Nil ELSE found[1]

\* The walk of findCurrentFiberUsingSlowPath up from the fiber and its
\* alternate: a is always the ancestor of the fiber, b that of the alternate.
BranchOf(F, current, f) ==
  LET atRoot(a) == CASE Tag(a) # "HostRoot" -> "unmounted"
                     [] a = current -> "fiber"
                     [] OTHER -> "alternate"
      branch[a \in Fiber, b \in Fiber] ==
        LET A == F[a].return
            B == Alternate(F, A)
            childOfA == FirstOf(Children(F, A), a, b)
            childOfB == FirstOf(Children(F, B), a, b)
            skipped == F[A].return
        IN  CASE A = Nil -> atRoot(a)
              [] A # Nil /\ B = Nil -> IF skipped = Nil THEN atRoot(a) ELSE branch[skipped, skipped]
              [] A # Nil /\ B # Nil /\ F[A].child = F[B].child ->
                   CASE childOfA = Nil \/ isFiberMountedImpl(F, A) # "mounted" -> "unmounted"
                     [] childOfA = a -> "fiber"
                     [] OTHER -> "alternate"
              [] A # Nil /\ B # Nil /\ F[A].child # F[B].child ->
                   CASE A # F[b].return \/ childOfA = a -> branch[A, B]
                     [] childOfA # Nil \/ childOfB = a -> branch[B, A]
                     [] childOfB # Nil -> branch[A, B]
                     [] OTHER -> "unmounted"
  IN  branch[f, Other(f)]

\* The fiber on the screen; Nil while it mounts, and where the code throws.
findCurrentFiberUsingSlowPath(F, current, f) ==
  IF F[f].alternate
  THEN CASE BranchOf(F, current, f) = "fiber" -> f
         [] BranchOf(F, current, f) = "alternate" -> Other(f)
         [] OTHER -> Nil
  ELSE IF isFiberMountedImpl(F, f) = "mounted" THEN f ELSE Nil

\* The fibers below f in order, without those below host fibers.
Drilled(F, f) ==
  LET walk[x \in Fiber \cup {Nil}] ==
        IF x = Nil THEN <<>>
        ELSE <<x>> \o (IF IsHost(x) THEN <<>> ELSE walk[F[x].child]) \o walk[F[x].sibling]
  IN  <<f>> \o (IF IsHost(f) THEN <<>> ELSE walk[F[f].child])

\* findCurrentHostFiber goes down from the current fiber `top` to the first host
\* fiber, and tells every fiber it passes its parent.
linkedByDrilling(F, top) ==
  LET row == Drilled(F, top)
      hosts == {i \in DOMAIN row : IsHost(row[i])}
      passed == {row[i] : i \in {j \in 2 .. Len(row) : \A k \in hosts : j <= k}}
      parent(x) == CHOOSE p \in ToSet(row) : x \in ToSet(Children(F, p))
  IN  [x \in Fiber |-> IF x \in passed THEN [F[x] EXCEPT !.return = parent(x)] ELSE F[x]]
=============================================================================
