--------------------------- MODULE MCPanelChannel ---------------------------
(* Instances of PanelChannel small enough for TLC. *)
EXTENDS PanelChannel, TLC

Symm == Permutations(Requests)
=============================================================================
