--------------------------- MODULE MCBridgeRouter ---------------------------
(* Instances of BridgeRouter small enough for TLC. *)
EXTENDS BridgeRouter
=============================================================================
