---------------------------- MODULE MCWorkLoop ----------------------------
(***************************************************************************)
(* Four programs, one per first state of the root.                         *)
(*                                                                         *)
(* "suspense": a Suspense boundary S around a component C, which renders a *)
(* host element h, suspends or throws, and a host element D.               *)
(* "mount": a Suspense boundary T around G, which suspends when it mounts, *)
(* with a component q that updates in its fallback.                        *)
(* "error": an error boundary E around C and D.                            *)
(* "context": a component A gives its state to a provider V; below it a    *)
(* component M whose element is created once, and a consumer K.            *)
(***************************************************************************)
EXTENDS WorkLoop

MCElement == {"R", "S", "C", "D", "h", "P", "F", "f", "T", "G", "Q", "q", "E", "x", "A", "V", "M", "K"}
MCTagOf == [e \in MCElement |->
  CASE e = "R" -> "HostRoot"
    [] e \in {"E", "C", "G", "q", "A", "M"} -> "ClassComponent"
    [] e \in {"S", "T"} -> "SuspenseComponent"
    [] e \in {"P", "F", "Q"} -> "Fragment"
    [] e = "V" -> "ContextProvider"
    [] e = "K" -> "ContextConsumer"
    [] OTHER -> "HostComponent"]
\* The root renders nothing before its first update and after an error.
MCInitial == [e \in MCElement |->
  CASE e = "R" -> "failed" [] e \in {"S", "T"} -> "shown" [] e = "C" -> "a"
    [] e = "G" -> "sus" [] e = "E" -> "ok" [] e = "A" -> "v1" [] OTHER -> "any"]
Returns(e, s) ==
  CASE e = "R" -> (CASE s = "suspense" -> <<"S">> [] s = "mount" -> <<"T">>
                     [] s = "error" -> <<"E">> [] s = "context" -> <<"A">> [] OTHER -> <<>>)
    [] e = "S" -> <<"C", "D">>
    [] e = "T" -> <<"G">>
    [] e = "E" -> IF s = "ok" THEN <<"C", "D">> ELSE <<"x">>
    [] e \in {"C", "G"} -> <<"h">>
    [] e = "F" -> <<"f">> [] e = "Q" -> <<"q">>
    [] e = "A" -> <<"V">> [] e = "V" -> <<"M">> [] e = "M" -> <<"K">>
    [] OTHER -> <<>>
States == {"suspense", "mount", "error", "context", "failed", "ok", "shown", "timedOut", "any",
           "a", "sus", "err", "v1", "v2"}
MCKids == [e \in MCElement |-> [s \in States |-> Returns(e, s)]]
MCOutcome == [e \in MCElement |-> [s \in States |->
  IF s = "sus" THEN "suspend" ELSE IF s = "err" THEN "throw" ELSE "ok"]]
MCPayload == [e \in MCElement |->
  CASE e = "C" -> {"sus", "err"} [] e = "G" -> {"a"} [] e = "E" -> {"ok"}
    [] e = "A" -> {"v1", "v2"} [] e \in {"M", "q"} -> {"any"} [] OTHER -> {}]
MCPrimary == [e \in {"S", "T"} |-> "P"]
MCFallback == [e \in {"S", "T"} |-> IF e = "S" THEN "F" ELSE "Q"]
=============================================================================
