------------------------------ MODULE MCPress ------------------------------
(* Model-checking instance of Press: a browser with pointer events and one    *)
(* without.                                                                   *)
EXTENDS Press
MCBrowsers == {{"pointer", "keyboard"}, {"touch", "mouse", "keyboard"}}
=============================================================================
