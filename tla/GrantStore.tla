----------------------------- MODULE GrantStore -----------------------------
(***************************************************************************)
(* The host's grant table (packages/dsh-plugin/src/bridge/grant-store.ts)  *)
(* as operators on its value: a function from grant ids to records.        *)
(* Handles are random and unique, one per grant, so byHandle and byGrantId *)
(* are one function here and a marker in a prompt is the grant it names.   *)
(* The grants past their expiresAt are a set the user of the table keeps:  *)
(* the store never sweeps, it only refuses an expired record.              *)
(***************************************************************************)
EXTENDS Naturals, FiniteSets

CONSTANTS Grants,       \* grant ids (random, never offered twice)
          Sessions,     \* DSH session ids
          Targets,      \* target bindings: what a provider calls connected
          NoSession, NoTarget

ASSUME GrantStoreAssumption ==
    /\ IsFiniteSet(Grants)
    /\ NoSession \notin Sessions
    /\ NoTarget \notin Targets

(* turn = 0 stands for the absent `turn` of a record nobody consumed. *)
GrantRecord ==
    [status : {"unoffered", "held", "dropped"},
     session : Sessions \cup {NoSession},
     turn : Nat,
     target : Targets \cup {NoTarget}]

Stores == [Grants -> GrantRecord]

EmptyStore ==
    [g \in Grants |-> [status |-> "unoffered", session |-> NoSession,
                       turn |-> 0, target |-> NoTarget]]

Held(st, g) == st[g].status = "held"

(* offer(): a duplicate id throws, so only an unoffered grant enters. *)
CanOffer(st, g) == st[g].status = "unoffered"

Offered(st, g, s, target) ==
    [st EXCEPT ![g] = [status |-> "held", session |-> s, turn |-> 0,
                       target |-> target]]

(* validate(): what preview and consumption demand of one handle. *)
Validates(st, expired, g, s, t) ==
    /\ Held(st, g)
    /\ st[g].session = s
    /\ st[g].turn \in {0, t}
    /\ g \notin expired

(* resolve(): what dispatch demands of one grant id. *)
Resolves(st, expired, g) == Held(st, g) /\ g \notin expired

(* The commit half of consumeBatch(): every record of the batch is bound. *)
Consumed(st, H, t) ==
    [g \in Grants |-> IF g \in H THEN [st[g] EXCEPT !.turn = t] ELSE st[g]]

(* drop(), revoke() and the deletions of revokeHandles(). *)
Without(st, S) ==
    [g \in Grants |-> IF g \in S /\ Held(st, g)
                      THEN [st[g] EXCEPT !.status = "dropped"]
                      ELSE st[g]]

(* Mutation of RevocableHandles: only handles the turn consumed count. *)
RevocableConsumed(st, H, s, t, preserved) ==
    {g \in H \ preserved : Held(st, g) /\ st[g].session = s /\ st[g].turn = t}

(* revokeHandles(): ownership is enforced, freshness and liveness are not. *)
RevocableHandles(st, H, s, t, preserved) ==
    {g \in H \ preserved : Held(st, g) /\ st[g].session = s /\ st[g].turn \in {0, t}}

(* revokeSessionTurn(): the grants one turn consumed, on every connection. *)
TurnGrants(st, s, t) ==
    {g \in Grants : Held(st, g) /\ st[g].session = s /\ st[g].turn = t}

(* revokeConnection(): every grant bound to one connection. *)
TargetGrants(st, target) ==
    {g \in Grants : Held(st, g) /\ st[g].target = target}

(* revokeTarget(), recordsForTarget(): targets that name a logical key and *)
(* the connection it is reached by.                                        *)
KeyGrants(st, key) == {g \in Grants : Held(st, g) /\ st[g].target.key = key}

(* rebindTarget(): the grants of a logical target follow its connection.   *)
Rebound(st, key, conn) ==
    [g \in Grants |-> IF g \in KeyGrants(st, key)
                      THEN [st[g] EXCEPT !.target.conn = conn]
                      ELSE st[g]]
=============================================================================
