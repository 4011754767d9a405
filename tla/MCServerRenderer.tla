-------------------------- MODULE MCServerRenderer --------------------------
(***************************************************************************)
(* Three programs.  "a" is a provider around a consumer and a suspense     *)
(* boundary, in which another provider is suspended; "b" is a component    *)
(* that updates its state while it renders, one that renders a third tree  *)
(* to a string, and one that throws within two providers; "t" is a component  *)
(* that throws after it used a hook, which only one run renders.           *)
(***************************************************************************)
EXTENDS ServerRenderer

MCElement == {"a", "S", "Q", "Z", "K", "b", "G", "F", "Y", "V", "X", "n"}
MCThrowing == MCElement \cup {"t"}
MCKind == [e \in Element |->
  CASE e = "b" -> "dom" [] e = "S" -> "suspense" [] e = "K" -> "consumer"
    [] e \in {"a", "Q", "Y", "V", "n"} -> "provider" [] e \in {"Z", "X"} -> "class"
    [] OTHER -> "function"]
MCKids == [e \in Element |->
  CASE e = "a" -> <<"S", "K">> [] e = "S" -> <<"Q">> [] e = "Q" -> <<"Z">>
    [] e = "b" -> <<"G", "F", "Y">> [] e = "F" -> <<"K">> [] e = "Y" -> <<"V">> [] e = "V" -> <<"X">>
    [] e = "n" -> <<"G">> [] OTHER -> <<>>]
MCFallback == [e \in Element |-> IF e = "S" THEN <<"K">> ELSE <<>>]
MCContextOf == [e \in Element |-> "c"]
MCValueOf == [e \in Element |-> e]
MCBody == [e \in Element |->
  CASE e = "Z" -> <<"suspend">> [] e = "X" -> <<"throw">> [] e = "F" -> <<"renderToString">>
    [] e = "G" -> <<"useState", "update", "useState">> [] e = "t" -> <<"useState", "throw">>
    [] OTHER -> <<>>]
=============================================================================
