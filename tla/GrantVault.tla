----------------------------- MODULE GrantVault -----------------------------
(***************************************************************************)
(* The extension's table of grants and the one timer that ends them: a     *)
(* sliding idle deadline that calls in flight suspend, a hard cap, and a    *)
(* sweep armed for the nearest deadline.  extension/src/grants/vault.ts,   *)
(* with the sweep as entrypoints/background.ts starts it.                  *)
(*                                                                         *)
(* Time is in timer ticks and only moves by Tick.  A timer fires at its    *)
(* time or any time later, never before: the worker may be suspended.  A   *)
(* grant id is never reused; a record that is "expired" (the sweep dropped *)
(* and reported it) or "revoked" stands for its absence from the map.      *)
(***************************************************************************)
EXTENDS Naturals, GrantIds

CONSTANTS
    IdleTtl,    \* DEFAULT_GRANT_IDLE_TTL_MS
    MaxTtl,     \* DEFAULT_GRANT_MAX_TTL_MS
    MaxCalls,   \* bound: calls of one grant in flight
    LastUse     \* bound: the last tick at which grants are issued and used

ASSUME TtlAssumption == IdleTtl \in Nat /\ MaxTtl \in Nat
ASSUME BoundAssumption == MaxCalls \in Nat /\ LastUse \in Nat

VARIABLES
    now,
    grants,     \* GrantVault.grants
    timer,      \* expiryTimer: when it is due, NoTimer if none is armed
    executing,  \* tool executions begun and not settled, by grant
    issued,     \* history: when each grant was created
    used        \* history: when a call of it last began or ended

vaultVars == <<now, grants, timer, executing, issued, used>>

NoTimer == 0

States == {"none", "issued", "accepted", "expired", "revoked"}
GrantRecords ==
    [state : States, expiresAt : Nat, maxExpiresAt : Nat, active : Nat]

Earlier(a, b) == IF a <= b THEN a ELSE b
Later(a, b)   == IF a <= b THEN b ELSE a

Present(g)  == grants[g].state \in {"issued", "accepted"}
Held     == {g \in Grants : Present(g)}

(* nearestExpiry and schedule, for the table a handler leaves behind.      *)
Rearmed ==
    \/ Held' = {} /\ timer' = NoTimer
    \/ \E g \in Held' :
         /\ \A h \in Held' : grants'[g].expiresAt <= grants'[h].expiresAt
         /\ timer' = Later(now + 1, grants'[g].expiresAt)

Dropped(gs, how) ==
    [g \in Grants |-> IF g \in gs THEN [grants[g] EXCEPT !.state = how]
                                  ELSE grants[g]]

Resolves(g) == Present(g) /\ now <= grants[g].expiresAt

VaultInit ==
    /\ now = 0
    /\ grants = [g \in Grants |-> [state |-> "none", expiresAt |-> 0,
                                   maxExpiresAt |-> 0, active |-> 0]]
    /\ timer = NoTimer
    /\ executing = [g \in Grants |-> 0]
    /\ issued = [g \in Grants |-> 0]
    /\ used = [g \in Grants |-> 0]

Create(g) ==
    /\ grants[g].state = "none" /\ now <= LastUse
    /\ grants' = [grants EXCEPT ![g] =
         [state |-> "issued", active |-> 0, maxExpiresAt |-> now + MaxTtl,
          expiresAt |-> Earlier(now + IdleTtl, now + MaxTtl)]]
    /\ Rearmed
    /\ issued' = [issued EXCEPT ![g] = now]
    /\ used' = [used EXCEPT ![g] = now]
    /\ UNCHANGED <<now, executing>>

(* The host accepts an offer once (the router forgets it then); this does  *)
(* not prolong the grant.                                                  *)
Accept(g) ==
    /\ grants[g].state = "issued"
    /\ grants' = [grants EXCEPT ![g].state = "accepted"]
    /\ Rearmed
    /\ UNCHANGED <<now, executing, issued, used>>

(* An authorized call: it suspends the idle deadline, not the cap.         *)
BeginActivity(g) ==
    /\ Resolves(g) /\ executing[g] < MaxCalls /\ now <= LastUse
    /\ grants' = [grants EXCEPT ![g].active = @ + 1,
                                ![g].expiresAt = grants[g].maxExpiresAt]
    /\ Rearmed
    /\ executing' = [executing EXCEPT ![g] = @ + 1]
    /\ used' = [used EXCEPT ![g] = now]
    /\ UNCHANGED <<now, issued>>

(* Mutation of Ended: idle time starts when any of the calls ends.         *)
EndedEach(r) ==
    [r EXCEPT !.active = @ - 1, !.expiresAt = Earlier(now + IdleTtl, r.maxExpiresAt)]

(* What endActivity leaves of a grant: idle time starts with the last call. *)
Ended(r) ==
    [r EXCEPT !.active = @ - 1,
              !.expiresAt = IF r.active = 1
                  THEN Earlier(now + IdleTtl, r.maxExpiresAt) ELSE @]

(* Mutation of EndActivity: the timer stays where the call had put it.     *)
EndActivityUnscheduled(g) ==
    /\ executing[g] > 0
    /\ executing' = [executing EXCEPT ![g] = @ - 1]
    /\ used' = [used EXCEPT ![g] = now]
    /\ IF Present(g) /\ grants[g].active > 0
       THEN grants' = [grants EXCEPT ![g] = Ended(@)]
       ELSE UNCHANGED grants
    /\ UNCHANGED <<now, issued, timer>>

(* The call settles; its grant may be gone by then.                        *)
EndActivity(g) ==
    /\ executing[g] > 0
    /\ executing' = [executing EXCEPT ![g] = @ - 1]
    /\ used' = [used EXCEPT ![g] = now]
    /\ IF Present(g) /\ grants[g].active > 0
       THEN grants' = [grants EXCEPT ![g] = Ended(@)] /\ Rearmed
       ELSE UNCHANGED <<grants, timer>>
    /\ UNCHANGED <<now, issued>>

Revoke(gs) ==
    /\ gs # {} /\ gs \subseteq Held
    /\ grants' = Dropped(gs, "revoked")
    /\ Rearmed
    /\ UNCHANGED <<now, executing, issued, used>>

Expired(g) == now > grants[g].expiresAt

(* Mutation of Sweep: a sweep that finds nothing expired is the last one.  *)
SweepOnce ==
    LET gone == {g \in Held : Expired(g)} IN
    /\ timer # NoTimer /\ now >= timer
    /\ grants' = Dropped(gone, "expired")
    /\ IF gone = {} THEN timer' = NoTimer ELSE Rearmed
    /\ UNCHANGED <<now, executing, issued, used>>

(* The timer is due: what is past its deadline goes, the rest is re-armed. *)
Sweep ==
    /\ timer # NoTimer /\ now >= timer
    /\ grants' = Dropped({g \in Held : Expired(g)}, "expired")
    /\ Rearmed
    /\ UNCHANGED <<now, executing, issued, used>>

(* Time stands still once nothing can be due any more.                     *)
Tick ==
    /\ now < LastUse + MaxTtl \/ (timer # NoTimer /\ now < timer)
    /\ now' = now + 1
    /\ UNCHANGED <<grants, timer, executing, issued, used>>

VaultStep(g) == Create(g) \/ Accept(g) \/ BeginActivity(g) \/ EndActivity(g)

VaultNext ==
    \/ \E g \in Grants : VaultStep(g)
    \/ \E g \in Held : Revoke({g})
    \/ Revoke(Held)
    \/ Sweep
    \/ Tick

Fairness == WF_vaultVars(Tick) /\ WF_vaultVars(Sweep)

VaultSpec == VaultInit /\ [][VaultNext]_vaultVars
FairVaultSpec == VaultSpec /\ Fairness

TypeOK ==
    /\ now \in Nat /\ timer \in Nat
    /\ grants \in [Grants -> GrantRecords]
    /\ executing \in [Grants -> Nat]
    /\ issued \in [Grants -> Nat] /\ used \in [Grants -> Nat]

(* While a grant is held the timer is armed, and due no later than the     *)
(* nearest deadline or the next tick: no operation leaves a grant behind   *)
(* that no sweep will look at (schedule(), called by every mutation).      *)
SweepArmed ==
    Held # {} =>
      /\ timer # NoTimer
      /\ timer <= now + 1 \/ \A g \in Held : timer <= grants[g].expiresAt

(* The vault keeps the promise of Lease: calls begin only within both      *)
(* limits even when the sweep is late, and the sweep ends no grant that is *)
(* in use or was used within IdleTtl, unless it reached its cap.           *)
LeaseOf(r) == IF r.state \in {"issued", "accepted"} THEN "live" ELSE r.state

Promise == INSTANCE Lease WITH
    lease <- [g \in Grants |-> LeaseOf(grants[g])],
    busy <- executing

KeepsLease == Promise!Spec

(* Every grant ends by itself, in use or not: the sweep that fires at the  *)
(* deadline, one tick before anything has expired, looks again.            *)
EveryGrantEnds == \A g \in Grants : Present(g) ~> ~Present(g)
=============================================================================
