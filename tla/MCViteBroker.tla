---------------------------- MODULE MCViteBroker ----------------------------
(* Instances of ViteBroker small enough for TLC. *)
EXTENDS ViteBroker, TLC

Symm == Permutations(Grants)

MCTargets == [key : Keys, conn : Sockets]
=============================================================================
