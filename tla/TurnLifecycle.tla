---------------------------- MODULE TurnLifecycle ----------------------------
(***************************************************************************)
(* Attachment of browser pages to one agent turn: pre-step.ts over the     *)
(* TargetCoordinator and the GrantStore.                                   *)
(*                                                                         *)
(* A prompt carries markers, one per grant.  When the inbox message is     *)
(* claimed the markers are previewed and tools are registered (Claim);     *)
(* when the pre-step decision comes back the batch is consumed, or the     *)
(* provisional pages are rolled back (PreStepReturn); the turn's cleanup   *)
(* runs from its abort listener, from turn/end, from disposal, or at the   *)
(* next turn boundary when the turn ended without telling anybody.         *)
(*                                                                         *)
(* An agent owns one session, so Sessions is the set of agents here.       *)
(***************************************************************************)
EXTENDS GrantStore, FiniteSetsExt

CONSTANTS MaxTurn,               \* turns explored per agent
          RegistrationMayFail,   \* may tools.register throw?
          TurnEndMayBeLost,      \* may a turn end without any event?
          NoGrant

ASSUME TurnAssumption ==
    /\ MaxTurn \in Nat
    /\ RegistrationMayFail \in BOOLEAN
    /\ TurnEndMayBeLost \in BOOLEAN
    /\ NoGrant \notin Grants

Agents == Sessions
Aliases == 1..Cardinality(Grants)   \* page_1, page_2, ...

(* One ActiveTurn; turn = 0 is the absence of an entry in `active`.        *)
(* `listening` is the abort listener that removeAbortListener detaches.    *)
PageMaps == UNION {[S -> Aliases] : S \in SUBSET Grants}
ActiveTurns ==
    [turn : Nat, pages : PageMaps, authorized : SUBSET Grants,
     activated : BOOLEAN, listening : BOOLEAN]

NoPages == [g \in {} |-> 1]
NoTurn == [turn |-> 0, pages |-> NoPages, authorized |-> {},
           activated |-> FALSE, listening |-> FALSE]

VARIABLES
    store,      \* the grant table
    expired,    \* grants past their expiresAt
    connected,  \* bindings whose provider reports isConnected
    active,     \* agent -> its ActiveTurn, or NoTurn
    tools,      \* agent -> the pages its registered tool surface was built for
    turn,       \* agent -> number of its latest turn
    phase,      \* agent -> "idle", "running" or "disposed"
    aborted,    \* agent -> the signal of its latest turn has aborted
    stepping,   \* agent -> its pre-step handler awaits next()
    answer,     \* agent -> what the latest pre-step handler returned
    claimed,    \* history: grant -> the turn whose inbox claim took it, or 0
    shown       \* history: agent -> alias -> the page the model was told of

vars == <<store, expired, connected, active, tools, turn, phase, aborted,
          stepping, answer, claimed, shown>>
hostVars == <<turn, phase, aborted, stepping, answer, claimed, shown>>

NothingShown == [n \in Aliases |-> NoGrant]

Init ==
    /\ store = EmptyStore
    /\ expired = {}
    /\ connected = Targets
    /\ active = [a \in Agents |-> NoTurn]
    /\ tools = [a \in Agents |-> {}]
    /\ turn = [a \in Agents |-> 0]
    /\ phase = [a \in Agents |-> "idle"]
    /\ aborted = [a \in Agents |-> FALSE]
    /\ stepping = [a \in Agents |-> FALSE]
    /\ answer = [a \in Agents |-> "none"]
    /\ claimed = [g \in Grants |-> 0]
    /\ shown = [a \in Agents |-> NothingShown]

-----------------------------------------------------------------------------
(* A handler is one synchronous block over one agent's part of the state:  *)
(* its entry in `active`, its tool surface and the shared store.  The      *)
(* helpers below take and return that part.                                *)

World(a) == [store |-> store, cur |-> active[a], tools |-> tools[a]]

Become(a, w) ==
    /\ store' = w.store
    /\ active' = [active EXCEPT ![a] = w.cur]
    /\ tools' = [tools EXCEPT ![a] = w.tools]

Provisional(cur) == DOMAIN cur.pages \ cur.authorized

OnlyPages(pages, S) == [g \in DOMAIN pages \cap S |-> pages[g]]

(* Mutation of Cleanup: claimed but unconsumed pages are left in the store. *)
CleanupConsumedOnly(w, a, t) ==
    IF w.cur.turn = 0 \/ w.cur.turn # t THEN w
    ELSE [store |-> Without(w.store, TurnGrants(w.store, a, t)),
          cur |-> NoTurn, tools |-> {}]

(* cleanup(): unregister, forget the turn, revoke its pages and its batch. *)
Cleanup(w, a, t) ==
    IF w.cur.turn = 0 \/ w.cur.turn # t THEN w
    ELSE [store |-> Without(w.store,
                            DOMAIN w.cur.pages \cup TurnGrants(w.store, a, t)),
          cur |-> NoTurn, tools |-> {}]

(* Mutation of DropStale: the old entry is forgotten without its cleanup. *)
DropStaleForgets(w, a, t) ==
    IF w.cur.turn \notin {0, t} THEN [w EXCEPT !.cur = NoTurn, !.tools = {}] ELSE w

(* A boundary of another turn: the terminal fallback of a silent ending. *)
DropStale(w, a, t) ==
    IF w.cur.turn \notin {0, t} THEN Cleanup(w, a, w.cur.turn) ELSE w

(* Mutation of Rollback: the larger tool surface stays registered. *)
RollbackKeepsTools(w, a, t, registers) ==
    LET dropped == Provisional(w.cur)
    IN IF w.cur.turn # t \/ dropped = {} THEN w
       ELSE [w EXCEPT !.store = Without(@, dropped),
                      !.cur.pages = OnlyPages(@, w.cur.authorized)]

(* rollbackProvisional(): `registers` says whether the smaller tool        *)
(* surface could be registered again; if not the whole turn is closed.     *)
Rollback(w, a, t, registers) ==
    LET dropped == Provisional(w.cur)
        kept == OnlyPages(w.cur.pages, w.cur.authorized)
        st == Without(w.store, dropped)
    IN IF w.cur.turn # t \/ dropped = {} THEN w
       ELSE IF DOMAIN kept = {} /\ ~w.cur.activated
       THEN [store |-> st, cur |-> NoTurn, tools |-> {}]
       ELSE IF registers
       THEN [store |-> st, cur |-> [w.cur EXCEPT !.pages = kept],
             tools |-> DOMAIN kept]
       ELSE Cleanup([store |-> st, cur |-> [w.cur EXCEPT !.pages = kept],
                     tools |-> {}], a, t)

(* Mutation of Appended: numbering restarts at the largest alias in use. *)
AppendedFromTop(pages, new) ==
    LET top == Max({1} \cup {pages[g] : g \in DOMAIN pages})
        numberings == {f \in [new -> Aliases] :
                          {f[g] : g \in new} = top..(top + Cardinality(new) - 1)}
    IN {[g \in DOMAIN pages \cup new |-> IF g \in DOMAIN pages THEN pages[g] ELSE f[g]] :
            f \in numberings}

(* appendRecords(): new pages are numbered on from the largest alias in    *)
(* use, in the order of their markers.                                     *)
Appended(pages, new) ==
    LET top == Max({0} \cup {pages[g] : g \in DOMAIN pages})
        numberings == {f \in [new -> {n \in Aliases : n > top}] :
                          {f[g] : g \in new} = (top + 1)..(top + Cardinality(new))}
    IN {[g \in DOMAIN pages \cup new |-> IF g \in DOMAIN pages THEN pages[g] ELSE f[g]] :
            f \in numberings}

(* previewBatch() of the coordinator: every handle validates for the       *)
(* session and turn, and every bound target is connected.                  *)
Previewable(st, H, a, t) ==
    \A g \in H : Validates(st, expired, g, a, t) /\ st[g].target \in connected

Registers == IF RegistrationMayFail THEN BOOLEAN ELSE {TRUE}

-----------------------------------------------------------------------------
(* The providers and the clock. *)

Offer(g, s, target) ==
    /\ CanOffer(store, g)
    /\ target \in connected
    /\ store' = Offered(store, g, s, target)
    /\ UNCHANGED <<expired, connected, active, tools, hostVars>>

Expire(g) ==
    /\ Held(store, g)
    /\ g \notin expired
    /\ expired' = expired \cup {g}
    /\ UNCHANGED <<store, connected, active, tools, hostVars>>

Disconnect(target) ==
    /\ target \in connected
    /\ connected' = connected \ {target}
    /\ UNCHANGED <<store, expired, active, tools, hostVars>>

Reconnect(target) ==
    /\ target \in Targets \ connected
    /\ connected' = connected \cup {target}
    /\ UNCHANGED <<store, expired, active, tools, hostVars>>

(* The provider gives a grant up: tab closed, idle lease over, user revoke. *)
ProviderRevoke(g) ==
    /\ Held(store, g)
    /\ store' = Without(store, {g})
    /\ UNCHANGED <<expired, connected, active, tools, hostVars>>

-----------------------------------------------------------------------------
(* The host runs the turns of its agents; the plugin only observes them.   *)

(* No turn starts while the handler of the one before is still awaiting.   *)
StartTurn(a) ==
    /\ phase[a] = "idle" /\ ~stepping[a]
    /\ turn[a] < MaxTurn
    /\ turn' = [turn EXCEPT ![a] = @ + 1]
    /\ phase' = [phase EXCEPT ![a] = "running"]
    /\ aborted' = [aborted EXCEPT ![a] = FALSE]
    /\ answer' = [answer EXCEPT ![a] = "none"]
    /\ shown' = [shown EXCEPT ![a] = NothingShown]
    /\ UNCHANGED <<store, expired, connected, active, tools, stepping, claimed>>

-----------------------------------------------------------------------------
(* onInboxClaimed(): one message with the markers H leaves the inbox for   *)
(* good, just before the prompt of the turn's next step is assembled.      *)

Claiming(a) == phase[a] = "running" /\ ~stepping[a] /\ ~aborted[a]

AtBoundary(a) == DropStale(World(a), a, turn[a])

MarkClaimed(st, a, H) ==
    claimed' = [g \in Grants |->
                  IF g \in H /\ Held(st, g) /\ st[g].session = a /\ st[g].turn = 0
                  THEN turn[a] ELSE claimed[g]]

(* createTurnState() when this is the first page of the turn. *)
OpenTurn(w, t) == IF w.cur.turn = 0 THEN [NoTurn EXCEPT !.turn = t] ELSE w.cur

ClaimUnmarked(a) ==
    /\ Claiming(a)
    /\ Become(a, AtBoundary(a))
    /\ UNCHANGED <<expired, connected, hostVars>>

(* The preview fails: every handle this session owns is revoked, except    *)
(* what an older step of the turn was already authorized for.              *)
ClaimRefused(a, H) ==
    LET w == AtBoundary(a)
        gone == RevocableHandles(w.store, H, a, turn[a], w.cur.authorized)
    IN /\ Claiming(a)
       /\ ~Previewable(w.store, H, a, turn[a])
       /\ Become(a, [w EXCEPT !.store = Without(@, gone)])
       /\ MarkClaimed(w.store, a, H)
       /\ UNCHANGED <<expired, connected, turn, phase, aborted, stepping, answer, shown>>

(* Markers of pages the turn already has change nothing. *)
ClaimKnown(a, H) ==
    LET w == AtBoundary(a)
    IN /\ Claiming(a)
       /\ H # {} /\ H \subseteq DOMAIN w.cur.pages
       /\ Previewable(w.store, H, a, turn[a])
       /\ Become(a, w)
       /\ UNCHANGED <<expired, connected, hostVars>>

ClaimAttached(a, H) ==
    LET w == AtBoundary(a)
        new == H \ DOMAIN w.cur.pages
    IN /\ Claiming(a)
       /\ new # {}
       /\ Previewable(w.store, H, a, turn[a])
       /\ \E pages \in Appended(w.cur.pages, new) :
             Become(a, [store |-> w.store,
                        cur |-> [OpenTurn(w, turn[a]) EXCEPT !.pages = pages],
                        tools |-> DOMAIN pages])
       /\ MarkClaimed(w.store, a, H)
       /\ UNCHANGED <<expired, connected, turn, phase, aborted, stepping, answer, shown>>

(* The tools of the larger surface cannot be registered.  `restored` says  *)
(* whether those of the previous one could: if not the turn is closed.     *)
ClaimUnregistered(a, H, restored) ==
    LET w == AtBoundary(a)
        new == H \ DOMAIN w.cur.pages
        back == IF restored THEN [w EXCEPT !.tools = DOMAIN w.cur.pages]
                ELSE Cleanup(w, a, turn[a])
    IN /\ RegistrationMayFail
       /\ Claiming(a)
       /\ new # {}
       /\ Previewable(w.store, H, a, turn[a])
       /\ Become(a, [back EXCEPT !.store = Without(@, new)])
       /\ MarkClaimed(w.store, a, H)
       /\ UNCHANGED <<expired, connected, turn, phase, aborted, stepping, answer, shown>>

-----------------------------------------------------------------------------
(* The pre-step handler: up to `await next()`, and from its continuation.  *)
(* Between the two anything may happen to the turn and its grants.         *)

PreStepBegin(a) ==
    /\ Claiming(a)
    /\ Become(a, AtBoundary(a))
    /\ stepping' = [stepping EXCEPT ![a] = TRUE]
    /\ answer' = [answer EXCEPT ![a] = "none"]
    /\ UNCHANGED <<expired, connected, turn, phase, aborted, claimed, shown>>

Returns(a, decision) ==
    /\ stepping[a]
    /\ stepping' = [stepping EXCEPT ![a] = FALSE]
    /\ answer' = [answer EXCEPT ![a] = decision]
    /\ UNCHANGED <<connected, turn, phase, aborted, claimed>>

RollsBack(a) ==
    \E r \in Registers : Become(a, Rollback(World(a), a, turn[a], r))

(* A downstream policy rejects the step. *)
StepRejected(a) ==
    /\ Returns(a, "reject")
    /\ RollsBack(a)
    /\ UNCHANGED <<expired, shown>>

(* The accepted messages hold no marker: a plain continuation, unless a    *)
(* policy stripped markers whose tools the prompt already advertises.      *)
StepUnmarked(a) ==
    LET stripped == active[a].turn = turn[a] /\ Provisional(active[a]) # {}
    IN /\ Returns(a, IF stripped THEN "reject" ELSE "enter")
       /\ RollsBack(a)
       /\ UNCHANGED <<expired, shown>>

(* The markers H of the accepted messages are exactly backed by the turn.  *)
Acceptable(a, H) ==
    /\ active[a].turn = turn[a]
    /\ Previewable(store, H, a, turn[a])
    /\ Provisional(active[a]) \subseteq H
    /\ H \subseteq DOMAIN active[a].pages

StepRefused(a, H) ==
    /\ H # {}
    /\ ~Acceptable(a, H)
    /\ Returns(a, "reject")
    /\ RollsBack(a)
    /\ UNCHANGED <<expired, shown>>

(* Mutation of StepExpired: handles are consumed one by one, so those      *)
(* before the expired one stay consumed.                                   *)
StepExpiredHalfway(a, H, late) ==
    /\ late # {} /\ late \subseteq H
    /\ Acceptable(a, H)
    /\ Returns(a, "reject")
    /\ \E r \in Registers :
          Become(a, Rollback([World(a) EXCEPT !.store = Consumed(@, H \ late, turn[a])],
                             a, turn[a], r))
    /\ expired' = expired \cup late
    /\ UNCHANGED shown

(* The clock passes a deadline between the preview and the consumption.    *)
StepExpired(a, H, late) ==
    /\ late # {} /\ late \subseteq H
    /\ Acceptable(a, H)
    /\ Returns(a, "reject")
    /\ RollsBack(a)
    /\ expired' = expired \cup late
    /\ UNCHANGED shown

(* The batch is consumed and authorized as a whole.  An abort listener is  *)
(* added with the first batch; on a signal that already aborted it never   *)
(* fires.                                                                  *)
Committed(cur, H, signalAborted) ==
    [cur EXCEPT !.authorized = @ \cup H,
                !.activated = TRUE,
                !.listening = IF cur.activated THEN @ ELSE ~signalAborted]

StepCommitted(a, H) ==
    /\ H # {}
    /\ Acceptable(a, H)
    /\ Returns(a, "enter")
    /\ Become(a, [store |-> Consumed(store, H, turn[a]),
                  cur |-> Committed(active[a], H, aborted[a]),
                  tools |-> tools[a]])
    /\ shown' = [shown EXCEPT ![a] =
                   [n \in Aliases |->
                      IF \E g \in H : active[a].pages[g] = n
                      THEN CHOOSE g \in H : active[a].pages[g] = n
                      ELSE @[n]]]
    /\ UNCHANGED expired

-----------------------------------------------------------------------------
(* Everything that can close a turn. *)

Abort(a) ==
    /\ phase[a] = "running" /\ ~aborted[a]
    /\ aborted' = [aborted EXCEPT ![a] = TRUE]
    /\ Become(a, IF active[a].listening THEN Cleanup(World(a), a, turn[a])
                 ELSE World(a))
    /\ UNCHANGED <<expired, connected, turn, phase, stepping, answer, claimed, shown>>

(* onTurnEnd(): the durable turn/end event of the session. *)
TurnEnd(a) ==
    /\ phase[a] = "running"
    /\ phase' = [phase EXCEPT ![a] = "idle"]
    /\ Become(a, Cleanup(World(a), a, turn[a]))
    /\ UNCHANGED <<expired, connected, turn, aborted, stepping, answer, claimed, shown>>

(* The turn is over and no event says so. *)
TurnLost(a) ==
    /\ TurnEndMayBeLost
    /\ phase[a] = "running"
    /\ phase' = [phase EXCEPT ![a] = "idle"]
    /\ UNCHANGED <<store, expired, connected, active, tools, turn, aborted,
                   stepping, answer, claimed, shown>>

(* dispose(): the agent is gone. *)
Dispose(a) ==
    /\ phase[a] # "disposed"
    /\ phase' = [phase EXCEPT ![a] = "disposed"]
    /\ Become(a, Cleanup(World(a), a, active[a].turn))
    /\ UNCHANGED <<expired, connected, turn, aborted, stepping, answer, claimed, shown>>

(* disposeAll(): the plugin unloads; no agent is observed any more. *)
DisposeAll ==
    /\ \E a \in Agents : phase[a] # "disposed"
    /\ phase' = [a \in Agents |-> "disposed"]
    /\ store' = Without(store, UNION {DOMAIN active[a].pages
                                         \cup TurnGrants(store, a, active[a].turn) :
                                      a \in {b \in Agents : active[b].turn # 0}})
    /\ active' = [a \in Agents |-> NoTurn]
    /\ tools' = [a \in Agents |-> {}]
    /\ UNCHANGED <<expired, connected, turn, aborted, stepping, answer, claimed, shown>>

-----------------------------------------------------------------------------
ProviderStep ==
    \/ \E g \in Grants : Expire(g) \/ ProviderRevoke(g)
    \/ \E g \in Grants, s \in Sessions, t \in Targets : Offer(g, s, t)
    \/ \E t \in Targets : Disconnect(t) \/ Reconnect(t)

ClaimStep(a) ==
    \/ ClaimUnmarked(a)
    \/ \E H \in SUBSET Grants :
         \/ ClaimRefused(a, H)
         \/ ClaimKnown(a, H)
         \/ ClaimAttached(a, H)
         \/ \E restored \in BOOLEAN : ClaimUnregistered(a, H, restored)

PreStepReturn(a) ==
    \/ StepRejected(a)
    \/ StepUnmarked(a)
    \/ \E H \in SUBSET Grants :
         \/ StepRefused(a, H)
         \/ \E late \in SUBSET H : StepExpired(a, H, late)
         \/ StepCommitted(a, H)

ClosingStep(a) == Abort(a) \/ TurnEnd(a) \/ TurnLost(a) \/ Dispose(a)

AgentStep(a) ==
    StartTurn(a) \/ ClaimStep(a) \/ PreStepBegin(a) \/ PreStepReturn(a) \/ ClosingStep(a)

Next == ProviderStep \/ DisposeAll \/ \E a \in Agents : AgentStep(a)

Spec == Init /\ [][Next]_vars

(* The session log writes turn/end for every outcome of a turn. *)
Fairness == \A a \in Agents : WF_vars(TurnEnd(a))

FairSpec == Spec /\ Fairness

-----------------------------------------------------------------------------
TypeOK ==
    /\ store \in Stores
    /\ expired \subseteq Grants
    /\ connected \subseteq Targets
    /\ active \in [Agents -> ActiveTurns]
    /\ tools \in [Agents -> SUBSET Grants]
    /\ turn \in [Agents -> Nat]
    /\ phase \in [Agents -> {"idle", "running", "disposed"}]
    /\ aborted \in [Agents -> BOOLEAN]
    /\ stepping \in [Agents -> BOOLEAN]
    /\ answer \in [Agents -> {"none", "enter", "reject"}]
    /\ claimed \in [Grants -> Nat]
    /\ shown \in [Agents -> [Aliases -> Grants \cup {NoGrant}]]

(* A grant some turn consumed belongs to a turn that is still in `active`  *)
(* and authorizes it: whatever closes a turn (turn/end, abort, disposal, a *)
(* failed re-registration, the next boundary) leaves no authority behind   *)
(* in the store (cleanup, revokeSessionTurn).                              *)
ConsumedHasOwner ==
    \A g \in Grants :
        Held(store, g) /\ store[g].turn # 0 =>
            /\ store[g].session \in Agents
            /\ active[store[g].session].turn = store[g].turn
            /\ g \in active[store[g].session].authorized

(* Claimed messages leave the inbox permanently, so a grant one of them    *)
(* named is either still a provisional page of that very turn or revoked:  *)
(* no later turn, reconnect or retried prompt can attach it (the rollback, *)
(* refusal and failed-registration paths of pre-step.ts).                  *)
ClaimedNeverReplayable ==
    \A g \in Grants :
        Held(store, g) /\ store[g].turn = 0 /\ claimed[g] # 0 =>
            /\ active[store[g].session].turn = claimed[g]
            /\ g \in DOMAIN active[store[g].session].pages

(* The registered tool surface is the one built from the turn's pages,     *)
(* through every partial failure of registering and re-registering it;     *)
(* without an active turn no browser tool is left in the agent's scope.    *)
SurfaceMatchesPages ==
    \A a \in Agents : tools[a] = DOMAIN active[a].pages

(* What a tool call of agent a can reach: a registered alias, authorized   *)
(* for the turn, whose grant resolves and whose binding is connected.      *)
Executable(a, g) ==
    /\ g \in tools[a] /\ g \in DOMAIN active[a].pages
    /\ g \in active[a].authorized
    /\ Resolves(store, expired, g) /\ store[g].target \in connected

(* Tool execution stays denied until pre-step consumed the grant for this  *)
(* very session and turn.                                                  *)
ExecutionNeedsConsumption ==
    \A a \in Agents, g \in Grants :
        Executable(a, g) => store[g].session = a /\ store[g].turn = active[a].turn

(* No authority outlives a turn boundary: once the handler of a later turn *)
(* awaits its decision, the agent's entry is of that turn or absent, even  *)
(* when the turn before ended without any event.                           *)
NoStaleTurnInStep ==
    \A a \in Agents :
        stepping[a] => active[a].turn \in {0, turn[a]}

(* Two pages of a turn never share an alias, and an alias the model was    *)
(* told of keeps naming the same page until the turn is over (rollbacks    *)
(* of later pages and same-turn steering included).                        *)
AliasStable ==
    \A a \in Agents :
        LET pages == active[a].pages
        IN /\ \A g, h \in DOMAIN pages : pages[g] = pages[h] => g = h
           /\ active[a].turn = turn[a] =>
                \A g \in DOMAIN pages : shown[a][pages[g]] \in {NoGrant, g}

(* A step that enters with an active turn enters with no provisional page: *)
(* the schema frozen before pre-step has a live executor for every page.   *)
EnterIsFullyAuthorized ==
    [][\A a \in Agents :
          stepping[a] /\ ~stepping'[a] /\ answer'[a] = "enter"
             /\ active'[a].turn = turn[a]
          => DOMAIN active'[a].pages \subseteq active'[a].authorized]_vars

(* A rejected step consumes nothing: batches are all-or-nothing even when  *)
(* one handle expires between the preview and the consumption.             *)
RejectConsumesNothing ==
    [][\A a \in Agents :
          stepping[a] /\ ~stepping'[a] /\ answer'[a] = "reject"
          => \A g \in Grants : store'[g].turn = store[g].turn]_vars

(* The decision of a pre-step is about its own turn and all or nothing,    *)
(* though grants expire, targets go and turns end while the handler awaits *)
(* it.                                                                     *)
DecisionIsWhole ==
    [][\A a \in Agents : stepping[a] /\ ~stepping'[a] =>
         /\ active[a].turn \in {0, turn[a]}
         /\ answer'[a] = "reject" => \A g \in Grants : store'[g].turn = store[g].turn
         /\ answer'[a] = "enter" /\ active'[a].turn = turn[a]
              => DOMAIN active'[a].pages \subseteq active'[a].authorized]_vars

(* Every grant a turn claimed is eventually revoked, whatever became of    *)
(* the step that carried its marker.                                       *)
ClaimedIsEventuallyRevoked ==
    \A g \in Grants : claimed[g] # 0 ~> ~Held(store, g)
=============================================================================
