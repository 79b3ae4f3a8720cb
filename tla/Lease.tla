------------------------------- MODULE Lease -------------------------------
(***************************************************************************)
(* What a grant promises the user who attached a page, without deadlines   *)
(* to renew, timers or sweeps: the authority is good for calls while it is *)
(* in use and for IdleTtl after its last use, never past MaxTtl after it   *)
(* was issued, and nothing but a revocation ends it sooner.                *)
(***************************************************************************)
EXTENDS Naturals

CONSTANTS Grants, IdleTtl, MaxTtl

VARIABLES now, lease, busy, issued, used

leaseVars == <<now, lease, busy, issued, used>>

InForce(g) == lease[g] = "live"

(* Neither limit has passed.  A lease in use cannot be idle.               *)
WithinCap(g)  == now <= issued[g] + MaxTtl
WithinIdle(g) == busy[g] > 0 \/ now <= used[g] + IdleTtl

Init ==
    /\ now = 0
    /\ lease = [g \in Grants |-> "none"]
    /\ busy = [g \in Grants |-> 0]
    /\ issued = [g \in Grants |-> 0]
    /\ used = [g \in Grants |-> 0]

Tick ==
    /\ now' = now + 1
    /\ UNCHANGED <<lease, busy, issued, used>>

Issue(g) ==
    /\ lease[g] = "none"
    /\ lease' = [lease EXCEPT ![g] = "live"]
    /\ issued' = [issued EXCEPT ![g] = now]
    /\ used' = [used EXCEPT ![g] = now]
    /\ UNCHANGED <<now, busy>>

(* A call begins under the lease.                                          *)
Use(g) ==
    /\ InForce(g) /\ WithinCap(g) /\ WithinIdle(g)
    /\ busy' = [busy EXCEPT ![g] = @ + 1]
    /\ used' = [used EXCEPT ![g] = now]
    /\ UNCHANGED <<now, lease, issued>>

(* A call ends, possibly after its lease.                                  *)
Release(g) ==
    /\ busy[g] > 0
    /\ busy' = [busy EXCEPT ![g] = @ - 1]
    /\ used' = [used EXCEPT ![g] = now]
    /\ UNCHANGED <<now, lease, issued>>

Over(gs, how) == lease' = [g \in Grants |-> IF g \in gs THEN how ELSE lease[g]]

(* Time ends leases that were left idle or reached the cap, and no others. *)
Lapse(gs) ==
    /\ \A g \in gs : InForce(g) /\ ~(WithinCap(g) /\ WithinIdle(g))
    /\ Over(gs, "expired")
    /\ UNCHANGED <<now, busy, issued, used>>

Revoke(gs) ==
    /\ \A g \in gs : InForce(g)
    /\ Over(gs, "revoked")
    /\ UNCHANGED <<now, busy, issued, used>>

Next ==
    \/ Tick
    \/ \E g \in Grants : Issue(g) \/ Use(g) \/ Release(g)
    \/ \E gs \in SUBSET Grants : Lapse(gs) \/ Revoke(gs)

Spec == Init /\ [][Next]_leaseVars
=============================================================================
