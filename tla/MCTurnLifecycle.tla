--------------------------- MODULE MCTurnLifecycle ---------------------------
(* Instances of TurnLifecycle small enough for TLC. *)
EXTENDS TurnLifecycle, TLC

Symm == Permutations(Grants) \cup Permutations(Sessions)
SymmGrants == Permutations(Grants)
=============================================================================
