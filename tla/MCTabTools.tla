------------------------------ MODULE MCTabTools ------------------------------
(* Instances of TabTools for TLC. *)
EXTENDS TabTools, TLC

CONSTANTS c1, c2

(* A call that writes or waits, beside one that moves or reads the page.   *)
MixedTools == c1 :> {"act", "wait", "settle"} @@ c2 :> {"navigate", "observe"}

Symm == Permutations(Grants)
=============================================================================
