---------------------------- MODULE MCHookQueue ----------------------------
(* A switch between 0 and 1.  Switched on it renders 3, which is 1; switched   *)
(* off it renders 4, then 2, which is 0.                                       *)
EXTENDS HookQueue

MCState == 0 .. 4
MCAction == {"switch", "zero", "less"}
MCReduce == [x \in MCState \X MCAction |->
  CASE x[2] = "switch" -> (x[1] % 2) + 3
    [] x[2] = "zero" -> 0
    [] OTHER -> IF x[1] < 2 THEN x[1] ELSE x[1] - 2]
MCRenderPhase == [s \in MCState |-> IF s < 2 THEN Nil ELSE "less"]
MCMaxUpdate == [passive |-> 1, layout |-> 0, none |-> 3]
=============================================================================
