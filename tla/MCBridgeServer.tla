--------------------------- MODULE MCBridgeServer ---------------------------
(* Instances of BridgeServer small enough for TLC. *)
EXTENDS BridgeServer, TLC

Symm == Permutations(Grants) \cup Permutations(Calls)
=============================================================================
