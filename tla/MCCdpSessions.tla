--------------------------- MODULE MCCdpSessions ---------------------------
(* Instances of CdpSessions small enough for TLC. *)
EXTENDS CdpSessions, TLC

Symm == Permutations(Grants) \cup Permutations(Tabs)
=============================================================================
