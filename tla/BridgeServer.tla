---------------------------- MODULE BridgeServer ----------------------------
(***************************************************************************)
(* The host end of the extension bridge (bridge/server.ts): one live       *)
(* socket at a time, a logical session (connection id) that survives a     *)
(* transient drop of its socket, an outbox of revocations per session, and *)
(* the tool calls waiting for an answer.                                   *)
(*                                                                         *)
(* Sockets are numbered in the order they are attached; a fresh connection *)
(* id is the number of the socket that got it.  A socket is "closing" when *)
(* its transport is gone or close() was called and its close event has not *)
(* run: attachWebSocket then drops what is sent without a word.            *)
(***************************************************************************)
EXTENDS GrantStore, Sequences, SequencesExt

CONSTANTS Origins,             \* extension origins
          Calls,               \* coordinator requests, one each
          MaxSockets           \* sockets that complete the handshake

SocketIds == 1..MaxSockets

ASSUME BridgeAssumption ==
    /\ MaxSockets \in Nat
    /\ Targets = SocketIds
    /\ Origins # {} /\ Sessions # {} /\ Grants # {}
    /\ IsFiniteSet(Calls)

VARIABLES
    opened,    \* number of sockets that passed the handshake
    sock,      \* socket -> its state, origin and connection id
    live,      \* this.connection: the live socket, or 0
    last,      \* this.lastConnection: the socket whose session may resume, or 0
    outbox,    \* connection id -> revocations queued for its next socket
    store,     \* the grants, bound to connection ids
    call,      \* the pending map: one record per coordinator request
    wire,      \* socket -> the frames handed to its transport, in order
    owed,      \* history: socket -> revocations queued when it was accepted
    outlived,  \* history: calls pending when the coordinator revoked their grant
    swallowed, \* history: grants whose revocation a closing transport dropped
    disposed

history == <<owed, outlived, swallowed>>

vars == <<opened, sock, live, last, outbox, store, call, wire, history, disposed>>

Sockets == [state : {"unused", "open", "closing", "closed"},
            origin : Origins, conn : SocketIds \cup {0}]

(* via is the socket the current request id was sent on. *)
PendingCalls ==
    [status : {"idle", "pending", "settled"}, grant : Grants,
     op : {"read", "write"}, accepted : BOOLEAN, retried : BOOLEAN,
     armed : BOOLEAN, via : SocketIds \cup {0}]

CallFrame(c) == [kind |-> "call", of |-> c]
RevokeFrame(g) == [kind |-> "revoke", of |-> g]
Frames == {CallFrame(c) : c \in Calls} \cup {RevokeFrame(g) : g \in Grants}

Pending(c) == call[c].status = "pending"
ConnOf(s) == IF s = 0 THEN 0 ELSE sock[s].conn

Init ==
    /\ opened = 0
    /\ sock = [s \in SocketIds |-> [state |-> "unused", conn |-> 0,
                                    origin |-> CHOOSE o \in Origins : TRUE]]
    /\ live = 0
    /\ last = 0
    /\ outbox = [k \in SocketIds |-> {}]
    /\ store = EmptyStore
    /\ call = [c \in Calls |->
                [status |-> "idle", grant |-> CHOOSE g \in Grants : TRUE,
                 op |-> "read", accepted |-> FALSE, retried |-> FALSE,
                 armed |-> FALSE, via |-> 0]]
    /\ wire = [s \in SocketIds |-> <<>>]
    /\ owed = [s \in SocketIds |-> {}]
    /\ outlived = {}
    /\ swallowed = {}
    /\ disposed = FALSE

-----------------------------------------------------------------------------
(* Frames a socket still takes, and the revocation of grants all bound to  *)
(* the same connection id k (deliverRevokes).                              *)

Sent(s, frames) == IF sock[s].state = "open" THEN wire[s] \o frames ELSE wire[s]

(* What waits in an outbox is a set, in no particular order. *)
RevokeFrames(S) == [i \in 1..Cardinality(S) |-> RevokeFrame(SetToSeq(S)[i])]

(* isConnected() *)
Connected(k) == live # 0 /\ sock[live].conn = k

(* The revocations of S handed to a live socket that no longer sends. *)
Swallowed(S, k) ==
    IF Connected(k) /\ sock[live].state # "open" THEN swallowed \cup S ELSE swallowed

(* Mutation of Revoke: nothing is queued while the session is down. *)
RevokeDropsWhenDown(S, k) ==
    /\ store' = Without(store, S)
    /\ swallowed' = Swallowed(S, k)
    /\ IF Connected(k)
       THEN wire' = [wire EXCEPT ![live] = Sent(live, RevokeFrames(S))]
       ELSE UNCHANGED wire
    /\ UNCHANGED outbox

Revoke(S, k) ==
    /\ store' = Without(store, S)
    /\ swallowed' = Swallowed(S, k)
    /\ IF Connected(k)
       THEN /\ wire' = [wire EXCEPT ![live] = Sent(live, RevokeFrames(S))]
            /\ UNCHANGED outbox
       ELSE /\ outbox' = [outbox EXCEPT ![k] = @ \cup S]
            /\ UNCHANGED wire

(* finish(): the call leaves the pending map with both its timers. *)
Settled(rec) == [rec EXCEPT !.status = "settled", !.armed = FALSE]

(* Mutations of AfterLoss: writes wait like reads; the retry timer is not  *)
(* started.                                                                *)
AfterLossAny(cs, retryReads) ==
    [c \in Calls |->
       IF cs[c].status # "pending" THEN cs[c]
       ELSE IF retryReads /\ ~cs[c].retried
       THEN [cs[c] EXCEPT !.retried = TRUE, !.armed = TRUE]
       ELSE Settled(cs[c])]
AfterLossUnarmed(cs, retryReads) ==
    [c \in Calls |->
       IF cs[c].status # "pending" THEN cs[c]
       ELSE IF retryReads /\ ~cs[c].retried /\ cs[c].op = "read"
       THEN [cs[c] EXCEPT !.retried = TRUE]
       ELSE Settled(cs[c])]

(* handleConnectionLost(): reads wait for one reconnect, the rest rejects. *)
AfterLoss(cs, retryReads) ==
    [c \in Calls |->
       IF cs[c].status # "pending" THEN cs[c]
       ELSE IF retryReads /\ ~cs[c].retried /\ cs[c].op = "read"
       THEN [cs[c] EXCEPT !.retried = TRUE, !.armed = TRUE]
       ELSE Settled(cs[c])]

(* Mutation of Cancelled: only calls that wait for a reconnect go. *)
CancelledArmed(cs, S) ==
    [c \in Calls |-> IF cs[c].status = "pending" /\ cs[c].armed /\ cs[c].grant \in S
                     THEN Settled(cs[c]) ELSE cs[c]]

(* cancelPendingForGrants() *)
Cancelled(cs, S) ==
    [c \in Calls |-> IF cs[c].status = "pending" /\ cs[c].grant \in S
                     THEN Settled(cs[c]) ELSE cs[c]]

(* revokeGrantAndCancelPending(): the pending calls of the id go, whether  *)
(* or not its record is still there.                                       *)
RevokeAndCancel(g) ==
    /\ IF Held(store, g) THEN Revoke({g}, store[g].target)
       ELSE UNCHANGED <<store, wire, outbox, swallowed>>
    /\ call' = Cancelled(call, {g})

ArmedCalls(cs) == {c \in Calls : cs[c].status = "pending" /\ cs[c].armed}

(* Mutation of Resent: the retry timer of a call sent again keeps running. *)
ResentArmed(cs, s) ==
    [c \in Calls |-> IF c \in ArmedCalls(cs)
                     THEN [cs[c] EXCEPT !.via = s] ELSE cs[c]]

(* The retry loop of acceptAuthenticated(): a fresh request id, once. *)
Resent(cs, s) ==
    [c \in Calls |-> IF c \in ArmedCalls(cs)
                     THEN [cs[c] EXCEPT !.armed = FALSE, !.via = s] ELSE cs[c]]

CallFrames(S) == [i \in 1..Cardinality(S) |-> CallFrame(SetToSeq(S)[i])]

-----------------------------------------------------------------------------
(* Sockets *)

(* Mutation of ConnectionIdFor: the origin is not compared. *)
ConnectionIdForAnyone(o, s) == IF last # 0 THEN sock[last].conn ELSE s

(* connectionIdForOrigin(), for the socket about to be accepted. *)
ConnectionIdFor(o, s) ==
    IF last # 0 /\ sock[last].origin = o THEN sock[last].conn ELSE s

(* Mutation of OpeningFrames: retries go out before the outbox. *)
OpeningFramesSwapped(k, cs, box) == CallFrames(ArmedCalls(cs)) \o RevokeFrames(box[k])

(* What the new socket first carries: queued revocations, then retries. *)
OpeningFrames(k, cs, box) == RevokeFrames(box[k]) \o CallFrames(ArmedCalls(cs))

(* acceptAuthenticated() with no live connection to replace. *)
Accept(o) ==
    LET s == opened + 1
        k == ConnectionIdFor(o, s)
    IN /\ ~disposed /\ live = 0 /\ opened < MaxSockets
       /\ opened' = s
       /\ sock' = [sock EXCEPT ![s] = [state |-> "open", origin |-> o, conn |-> k]]
       /\ live' = s
       /\ last' = 0
       /\ outbox' = [outbox EXCEPT ![k] = {}]
       /\ owed' = [owed EXCEPT ![s] = outbox[k]]
       /\ wire' = [wire EXCEPT ![s] = OpeningFrames(k, call, outbox)]
       /\ call' = Resent(call, s)
       /\ UNCHANGED <<store, outlived, swallowed, disposed>>

(* The same extension replaces its still open socket: the session goes on. *)
Replace(o) ==
    LET s == opened + 1
        k == sock[live].conn
        waiting == AfterLoss(call, TRUE)
    IN /\ ~disposed /\ live # 0 /\ opened < MaxSockets
       /\ sock[live].origin = o
       /\ opened' = s
       /\ sock' = [sock EXCEPT ![live].state = "closing",
                               ![s] = [state |-> "open", origin |-> o, conn |-> k]]
       /\ live' = s
       /\ last' = 0
       /\ outbox' = [outbox EXCEPT ![k] = {}]
       /\ owed' = [owed EXCEPT ![s] = outbox[k]]
       /\ wire' = [wire EXCEPT ![s] = OpeningFrames(k, waiting, outbox)]
       /\ call' = Resent(waiting, s)
       /\ UNCHANGED <<store, outlived, swallowed, disposed>>

(* Another extension takes over: terminal for the session it replaces.     *)
Takeover(o) ==
    LET s == opened + 1
        prior == sock[live].conn
        gone == TargetGrants(store, prior)
        k == ConnectionIdFor(o, s)
        rejected == AfterLoss(call, FALSE)
    IN /\ ~disposed /\ live # 0 /\ opened < MaxSockets
       /\ sock[live].origin # o
       /\ opened' = s
       /\ sock' = [sock EXCEPT ![live].state = "closing",
                               ![s] = [state |-> "open", origin |-> o, conn |-> k]]
       /\ store' = Without(store, gone)
       /\ live' = s
       /\ last' = 0
       /\ outbox' = [outbox EXCEPT ![prior] = {}, ![k] = {}]
       /\ owed' = [owed EXCEPT ![s] = outbox[k]]
       /\ wire' = [wire EXCEPT ![live] = Sent(live, RevokeFrames(gone)),
                               ![s] = OpeningFrames(k, rejected, outbox)]
       /\ call' = Resent(rejected, s)
       /\ UNCHANGED <<outlived, swallowed, disposed>>

(* The transport of the live socket is gone; its close event is on its way. *)
StartClosing ==
    /\ live # 0 /\ sock[live].state = "open"
    /\ sock' = [sock EXCEPT ![live].state = "closing"]
    /\ UNCHANGED <<opened, live, last, outbox, store, call, wire, history, disposed>>

(* The close event of the live socket: a transient drop of its session. *)
LiveClosed ==
    /\ live # 0
    /\ sock' = [sock EXCEPT ![live].state = "closed"]
    /\ live' = 0
    /\ last' = live
    /\ call' = AfterLoss(call, TRUE)
    /\ UNCHANGED <<opened, outbox, store, wire, history, disposed>>

(* The close event of a socket that was replaced or disposed changes       *)
(* nothing but its wiring.                                                 *)
StaleClosed(s) ==
    /\ s # live /\ sock[s].state = "closing"
    /\ sock' = [sock EXCEPT ![s].state = "closed"]
    /\ UNCHANGED <<opened, live, last, outbox, store, call, wire, history, disposed>>

-----------------------------------------------------------------------------
(* Grants *)

(* grant.put on the live socket. *)
GrantPut(g, s) ==
    /\ live # 0 /\ CanOffer(store, g)
    /\ store' = Offered(store, g, s, sock[live].conn)
    /\ UNCHANGED <<opened, sock, live, last, outbox, call, wire, history, disposed>>

(* grant.revoke, of any id and from any socket whose frames still arrive:  *)
(* the record goes (and is echoed), the calls of the grant are cancelled.  *)
ExtensionRevoke(g, s) ==
    /\ sock[s].state \in {"open", "closing"}
    /\ RevokeAndCancel(g)
    /\ UNCHANGED <<opened, sock, live, last, owed, outlived, disposed>>

(* The coordinator revokes on its own account (turn cleanup, rollback):    *)
(* the provider is only told to notify the extension.                      *)
CoordinatorRevoke(g) ==
    /\ ~disposed /\ Held(store, g)
    /\ Revoke({g}, store[g].target)
    /\ outlived' = outlived \cup {c \in Calls : Pending(c) /\ call[c].grant = g}
    /\ UNCHANGED <<opened, sock, live, last, call, owed, disposed>>

-----------------------------------------------------------------------------
(* Tool calls *)

(* coordinator.request(): the record resolves and its provider is there. *)
Dispatchable(g) == Resolves(store, {}, g) /\ Connected(store[g].target)

(* request(): the call is pending and its frame is sent.                   *)
Request(c, g, op) ==
    /\ call[c].status = "idle"
    /\ Dispatchable(g)
    /\ call' = [call EXCEPT ![c] = [status |-> "pending", grant |-> g, op |-> op,
                                    accepted |-> FALSE, retried |-> FALSE,
                                    armed |-> FALSE, via |-> live]]
    /\ wire' = [wire EXCEPT ![live] = Sent(live, <<CallFrame(c)>>)]
    /\ UNCHANGED <<opened, sock, live, last, outbox, store, history, disposed>>

(* A frame about the current request id can arrive on the socket it was    *)
(* sent on until the close event of that socket.                           *)
Answerable(c) ==
    /\ Pending(c)
    /\ sock[call[c].via].state \in {"open", "closing"}
    /\ CallFrame(c) \in ToSet(wire[call[c].via])

ToolAccepted(c) ==
    /\ Answerable(c) /\ ~call[c].accepted
    /\ call' = [call EXCEPT ![c].accepted = TRUE]
    /\ UNCHANGED <<opened, sock, live, last, outbox, store, wire, history, disposed>>

ToolResult(c) ==
    /\ Answerable(c)
    /\ call' = [call EXCEPT ![c] = Settled(@)]
    /\ UNCHANGED <<opened, sock, live, last, outbox, store, wire, history, disposed>>

(* A result that says grant_expired revokes the host record as well. *)
ToolExpired(c) ==
    /\ Answerable(c)
    /\ RevokeAndCancel(call[c].grant)
    /\ UNCHANGED <<opened, sock, live, last, owed, outlived, disposed>>

(* The turn's signal aborts, or toolTimeoutMs is over. *)
GiveUp(c) ==
    /\ Pending(c)
    /\ call' = [call EXCEPT ![c] = Settled(@)]
    /\ UNCHANGED <<opened, sock, live, last, outbox, store, wire, history, disposed>>

(* readRetryWaitMs is over without a reconnect. *)
RetryExpires(c) ==
    /\ Pending(c) /\ call[c].armed
    /\ call' = [call EXCEPT ![c] = Settled(@)]
    /\ UNCHANGED <<opened, sock, live, last, outbox, store, wire, history, disposed>>

(* dispose(): terminal for the whole bridge. *)
Dispose ==
    /\ ~disposed
    /\ disposed' = TRUE
    /\ IF live = 0 THEN UNCHANGED <<store, wire, sock>>
       ELSE LET gone == TargetGrants(store, sock[live].conn)
            IN /\ store' = Without(store, gone)
               /\ wire' = [wire EXCEPT ![live] = Sent(live, RevokeFrames(gone))]
               /\ sock' = [sock EXCEPT ![live].state = "closing"]
    /\ live' = 0
    /\ last' = 0
    /\ call' = AfterLoss(call, FALSE)
    /\ outbox' = [k \in SocketIds |-> {}]
    /\ UNCHANGED <<opened, history>>

-----------------------------------------------------------------------------
SocketStep ==
    \/ \E o \in Origins : Accept(o) \/ Replace(o) \/ Takeover(o)
    \/ StartClosing \/ LiveClosed
    \/ \E s \in SocketIds : StaleClosed(s)

GrantStep ==
    \E g \in Grants :
        \/ \E s \in Sessions : GrantPut(g, s)
        \/ \E s \in SocketIds : ExtensionRevoke(g, s)
        \/ CoordinatorRevoke(g)

CallStep ==
    \E c \in Calls :
        \/ \E g \in Grants, op \in {"read", "write"} : Request(c, g, op)
        \/ ToolAccepted(c) \/ ToolResult(c) \/ ToolExpired(c)
        \/ GiveUp(c) \/ RetryExpires(c)

Next == SocketStep \/ GrantStep \/ CallStep \/ Dispose

Spec == Init /\ [][Next]_vars

(* The retry timer of an armed call fires unless somebody clears it. *)
Fairness == \A c \in Calls : WF_vars(RetryExpires(c))

FairSpec == Spec /\ Fairness

-----------------------------------------------------------------------------
TypeOK ==
    /\ opened \in Nat /\ opened <= MaxSockets
    /\ sock \in [SocketIds -> Sockets]
    /\ live \in SocketIds \cup {0}
    /\ last \in SocketIds \cup {0}
    /\ outbox \in [SocketIds -> SUBSET Grants]
    /\ store \in Stores
    /\ call \in [Calls -> PendingCalls]
    /\ wire \in [SocketIds -> Seq(Frames)]
    /\ owed \in [SocketIds -> SUBSET Grants]
    /\ outlived \subseteq Calls
    /\ swallowed \subseteq Grants
    /\ disposed \in BOOLEAN
    /\ live # 0 => sock[live].state \in {"open", "closing"}

(* Where frames of a call were sent: sockets and places on their wires. *)
Copies(c) == UNION {{s} \X {i \in DOMAIN wire[s] : wire[s][i] = CallFrame(c)} : s \in SocketIds}

(* A write reaches a transport at most once and a read at most twice,      *)
(* whatever sockets drop, are replaced or are taken over in between        *)
(* (handleConnectionLost, the retry loop of acceptAuthenticated).          *)
WritesNeverReplayed ==
    \A c \in Calls :
        call[c].status # "idle" =>
            Cardinality(Copies(c)) <= IF call[c].op = "write" THEN 1 ELSE 2

(* A pending call waits on the live socket, or, while the session is down, *)
(* is a read holding its one retry with the bounded timer armed: no frame  *)
(* of a replaced socket can settle a call, no timer left over from a drop  *)
(* rejects a call that was sent again.                                     *)
PendingWaitsOnLive ==
    \A c \in Calls :
        Pending(c) =>
            IF live = 0
            THEN call[c].armed /\ call[c].retried /\ call[c].op = "read"
            ELSE ~call[c].armed /\ call[c].via = live

(* Sockets share a connection id only within one extension origin: no      *)
(* reconnect resumes the session of another extension                      *)
(* (connectionIdForOrigin).                                                *)
ConnectionIdOfOneOrigin ==
    \A s, r \in SocketIds :
        sock[s].conn # 0 /\ sock[s].conn = sock[r].conn
            => sock[s].origin = sock[r].origin

(* A live session has nothing left in its outbox: every reconnect and      *)
(* replacement flushes it, and what is revoked afterwards is sent.         *)
OutboxNeverLive == live # 0 => outbox[sock[live].conn] = {}

(* On the wire of a resumed session the revocations queued while it was    *)
(* down come before any call frame.                                        *)
RevokesBeforeWork ==
    \A s \in SocketIds : \A g \in owed[s] :
        \E i \in 1..Len(wire[s]) :
            /\ wire[s][i] = RevokeFrame(g)
            /\ \A j \in 1..i : wire[s][j].kind = "revoke"

(* A session some socket may still resume under its own id. *)
Resumable(k) == ConnOf(live) = k \/ ConnOf(last) = k

(* A revoked grant of a session that is live or may resume was handed to   *)
(* an open socket of it or is queued for the next one.  The one way to     *)
(* lose it: it was handed to the live socket after its transport was gone  *)
(* and before its close event (attachWebSocket.send drops the frame,       *)
(* deliverRevokes takes the socket for live).                              *)
RevocationReachesSession ==
    \A g \in Grants :
        store[g].status = "dropped" /\ Resumable(store[g].target) =>
            \/ g \in swallowed
            \/ g \in outbox[store[g].target]
            \/ \E s \in SocketIds : /\ sock[s].conn = store[g].target
                                    /\ RevokeFrame(g) \in ToSet(wire[s])

(* A takeover by another extension is terminal: every call of the session  *)
(* it replaces is rejected, its grants are revoked, its outbox is gone.    *)
TakeoverIsTerminal ==
    [][live # 0 /\ live' # 0 /\ sock'[live'].origin # sock[live].origin
       => /\ \A c \in Calls : call'[c].status # "pending"
          /\ \A g \in Grants : Held(store', g) => store'[g].target # sock[live].conn
          /\ outbox'[sock[live].conn] = {}]_vars

(* Logical sessions of different extensions share no id, no outbox and no  *)
(* work, through drops, resumptions, replacements and takeovers.           *)
SessionsStayApart ==
    [][/\ ConnectionIdOfOneOrigin' /\ OutboxNeverLive'
       /\ live # 0 /\ live' # 0 /\ sock'[live'].origin # sock[live].origin
          => /\ \A c \in Calls : call'[c].status # "pending"
             /\ \A g \in Grants : Held(store', g) => store'[g].target # sock[live].conn
             /\ outbox'[sock[live].conn] = {}]_vars

(* Whoever revokes a grant - the extension, a result that says             *)
(* grant_expired, a takeover, a disposal - takes its pending calls along,  *)
(* so that none is settled late or sent again.  Only the coordinator's own *)
(* revocation (revoke() merely tells the extension) leaves calls behind,   *)
(* and those are exactly the ones that were pending at that moment.        *)
RevokedNeverPending ==
    \A c \in Calls : Pending(c) => Held(store, call[c].grant) \/ c \in outlived

(* A read that waits for a reconnect is settled or sent again. *)
WaitingReadsEnd ==
    \A c \in Calls : Pending(c) /\ live = 0 ~> ~Pending(c) \/ live # 0

(* A foreign session must never observe another session's work             *)
(* (server.ts:375-376): a call is only sent to sockets of the session its  *)
(* grant is bound to.                                                      *)
NoForeignWork ==
    \A c \in Calls, s \in SocketIds :
        CallFrame(c) \in ToSet(wire[s]) => sock[s].conn = store[call[c].grant].target

(* Accepted or mutating calls never replay (server.ts:177): a call the     *)
(* extension acknowledged is not sent a second time.                       *)
AcceptedNeverReplayed ==
    [][\A c \in Calls : call[c].accepted => call'[c].via = call[c].via]_vars

(* A revoked grant must never complete, retry or replay its work after     *)
(* turn cleanup (server.ts:466-467).                                       *)
RevokedNeverReplayed ==
    [][\A c \in Calls :
          Pending(c) /\ call'[c].via # call[c].via => Held(store, call[c].grant)]_vars
=============================================================================
