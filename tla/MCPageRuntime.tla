--------------------------- MODULE MCPageRuntime ----------------------------
(* Instances of PageRuntime small enough for TLC. *)
EXTENDS PageRuntime
=============================================================================
