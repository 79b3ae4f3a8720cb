---------------------------- MODULE MCGrantVault ----------------------------
(* Instances of GrantVault small enough for TLC. *)
EXTENDS GrantVault, TLC
=============================================================================
