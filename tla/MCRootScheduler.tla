-------------------------- MODULE MCRootScheduler --------------------------
(* Model-checking instance of RootScheduler.                               *)
EXTENDS RootScheduler, TLC
MCDelay == [level \in Level |-> 1]
MCSymmetry == Permutations(Root)
MCHandle == 1 .. 8
=============================================================================
