------------------------------ MODULE ViteBroker ------------------------------
(***************************************************************************)
(* The broker of pages that run the Vite runtime (vite/broker.ts) over the *)
(* coordinator and the grant store: registration of page sockets, the      *)
(* bounded reconnect window, calls and their one retry, revocation.        *)
(*                                                                         *)
(* Page sockets are numbered in the order they are attached; a fresh       *)
(* connection id is the number of the socket whose registration made it,   *)
(* 0 stands for none.  liveByKey and live always hold the same targets and *)
(* are one function of the logical key here.                               *)
(***************************************************************************)
EXTENDS GrantStore

CONSTANTS Calls, Ids, Origins,
          MaxSockets,       \* page sockets explored
          MaxTargets,       \* maxTargets
          MaxPerOrigin,     \* maxTargetsPerOrigin
          MaxConcurrent     \* maxConcurrentCalls

Sockets == 1..MaxSockets

(* The logical key of a target: its id and its exact page origin. *)
Keys == [id : Ids, origin : Origins]

ASSUME BrokerAssumption ==
    /\ MaxSockets \in Nat /\ Origins # {} /\ Grants # {} /\ Sessions # {}
    /\ Targets = [key : Keys, conn : Sockets]
    /\ MaxTargets \in Nat /\ MaxPerOrigin \in Nat /\ MaxConcurrent \in Nat

VARIABLES
    store,
    opened,     \* sockets attached so far
    page,       \* socket -> its transport and the origin of its handshake
    live,       \* live, liveByKey: key -> socket and connection id
    tomb,       \* tombstones: key -> connection id and age
    call,       \* calls of the coordinator
    ran,        \* history: socket -> tool.call frames its transport took
    disposed

vars == <<store, opened, page, live, tomb, call, ran, disposed>>

NoLive == [socket |-> 0, conn |-> 0]
NoTomb == [conn |-> 0, age |-> "within"]
UnusedCall ==
    [status |-> "unused", grant |-> CHOOSE g \in Grants : TRUE, read |-> TRUE,
     conn |-> 0, captured |-> 0, accepted |-> FALSE, retried |-> FALSE]

Pages == [phase : {"unopened", "open", "closing", "closed"}, origin : Origins]
Lives == [socket : Nat, conn : Nat]
Tombs == [conn : Nat, age : {"within", "edge", "past"}]

(* A request id is the call and whether it is the fresh id of its retry;   *)
(* conn tells the pending map the call is in, which a rebind hands on;     *)
(* captured is the socket its abort and timeout handlers cancel on.        *)
CallRecords ==
    [status : {"unused", "pending", "done"}, grant : Grants, read : BOOLEAN,
     conn : Nat, captured : Nat, accepted : BOOLEAN, retried : BOOLEAN]

Init ==
    /\ store = EmptyStore
    /\ opened = 0
    /\ page = [s \in Sockets |-> [phase |-> "unopened", origin |-> CHOOSE o \in Origins : TRUE]]
    /\ live = [k \in Keys |-> NoLive]
    /\ tomb = [k \in Keys |-> NoTomb]
    /\ call = [c \in Calls |-> UnusedCall]
    /\ ran = [s \in Sockets |-> {}]
    /\ disposed = FALSE

Live(k) == live[k].socket # 0
Dead(k) == tomb[k].conn # 0
LiveKeys == {k \in Keys : Live(k)}
LiveSocket(s) == \E k \in Keys : live[k].socket = s
Hearing(s) == page[s].phase \in {"open", "closing"}
Pending(c) == call[c].status = "pending"
PendingOf(conn) == {c \in Calls : Pending(c) /\ call[c].conn = conn}

(* isConnected() *)
Connected(target) == Live(target.key) /\ live[target.key].conn = target.conn

Settled(cs, C) == [c \in Calls |-> IF c \in C THEN [cs[c] EXCEPT !.status = "done"] ELSE cs[c]]

(* What a transport takes; a closing one drops it without a word. *)
Taken(s, frames) == IF page[s].phase = "open" THEN ran[s] \cup frames ELSE ran[s]

Closing(S) ==
    [s \in Sockets |-> IF s \in S /\ page[s].phase = "open"
                       THEN [page[s] EXCEPT !.phase = "closing"] ELSE page[s]]

-----------------------------------------------------------------------------
(* Revocation *)

(* Mutation of RevokedCalls: calls that wait in a tombstone are forgotten. *)
RevokedLiveCalls(R) ==
    {c \in Calls : /\ Pending(c) /\ call[c].grant \in R
                   /\ Connected(store[call[c].grant].target)
                   /\ call[c].conn = store[call[c].grant].target.conn}

(* revoke() for each record of R: the calls it settles, on the live target *)
(* the record names or in the tombstone of its logical key.                *)
RevokedCalls(R) ==
    {c \in Calls :
        /\ Pending(c) /\ call[c].grant \in R
        /\ LET target == store[call[c].grant].target
           IN \/ Connected(target) /\ call[c].conn = target.conn
              \/ Dead(target.key) /\ call[c].conn = tomb[target.key].conn}

(* coordinator.revoke() and revokeTurn(): no event of a page is involved. *)
RevokeGrant(g) ==
    /\ Held(store, g)
    /\ call' = Settled(call, RevokedCalls({g}))
    /\ store' = Without(store, {g})
    /\ UNCHANGED <<opened, page, live, tomb, ran, disposed>>

(* The tombstones of K go: revokeTarget() and settleAll() for each. *)
Expire(K, cs, st) ==
    LET R == UNION {KeyGrants(st, k) : k \in K}
    IN [call |-> Settled(cs, RevokedCalls(R) \cup UNION {PendingOf(tomb[k].conn) : k \in K}),
        store |-> Without(st, R)]

-----------------------------------------------------------------------------
(* Page sockets *)

Attach(o) ==
    /\ ~disposed /\ opened < MaxSockets
    /\ opened' = opened + 1
    /\ page' = [page EXCEPT ![opened'] = [phase |-> "open", origin |-> o]]
    /\ UNCHANGED <<store, live, tomb, call, ran, disposed>>

(* The peer starts closing, or sends a frame that is malformed, over the   *)
(* rate limit or not for a page to send (closeConnection, fail).           *)
StartClosing(s) ==
    /\ page[s].phase = "open"
    /\ page' = Closing({s})
    /\ UNCHANGED <<store, opened, live, tomb, call, ran, disposed>>

(* Mutation of Doomed: accepted reads wait for the page's return, too. *)
DoomedWrites(conn) == {c \in PendingOf(conn) : ~call[c].read}

(* The calls a lost socket settles: accepted and mutating ones. *)
Doomed(conn) == {c \in PendingOf(conn) : call[c].accepted \/ ~call[c].read}

Departed(k) == [live EXCEPT ![k] = NoLive]

(* The close event of a live target: its calls move to a tombstone. *)
LiveClosed(s) ==
    /\ Hearing(s)
    /\ page' = [page EXCEPT ![s].phase = "closed"]
    /\ \E k \in Keys :
        /\ live[k].socket = s
        /\ live' = Departed(k)
        /\ tomb' = [tomb EXCEPT ![k] = [conn |-> live[k].conn, age |-> "within"]]
        /\ call' = Settled(call, Doomed(live[k].conn))
    /\ UNCHANGED <<store, opened, ran, disposed>>

(* Any other socket closes unnoticed. *)
OtherClosed(s) ==
    /\ Hearing(s) /\ ~LiveSocket(s)
    /\ page' = [page EXCEPT ![s].phase = "closed"]
    /\ UNCHANGED <<store, opened, live, tomb, call, ran, disposed>>

-----------------------------------------------------------------------------
(* Registration *)

KeyOn(s, id) == [id |-> id, origin |-> page[s].origin]

(* The target is already connected, or a limit is reached.  A page         *)
(* registers once, with its first frames.                                  *)
Refused(k) ==
    \/ Live(k)
    \/ Cardinality(LiveKeys) >= MaxTargets
    \/ Cardinality({l \in LiveKeys : l.origin = k.origin}) >= MaxPerOrigin

RegisterRefused(s, id) ==
    /\ page[s].phase = "open" /\ ~LiveSocket(s) /\ ~disposed
    /\ Refused(KeyOn(s, id))
    /\ page' = Closing({s})
    /\ UNCHANGED <<store, opened, live, tomb, call, ran, disposed>>

(* Mutation of Moved: the same id on another origin is another target. *)
MovedNowhere(k) == {}

(* The page left these origins for the one of k. *)
Moved(k) == {l \in Keys : l.id = k.id /\ l # k}

(* The tombstone of k is still inside the window, its last instant         *)
(* included.                                                               *)
MayRebind(k) == Dead(k) /\ tomb[k].age # "past"

(* Mutation of Lapsed: what the window did not save is left to the sweep.  *)
LapsedLater(k) == {}

Lapsed(k) == IF Dead(k) /\ ~MayRebind(k) THEN {k} ELSE {}

(* Mutation of Retryable: a read is retried on every rebind. *)
RetryableAgain(conn) == {c \in PendingOf(conn) : call[c].read}

(* What a rebind sends again: reads that were not retried yet. *)
Retryable(conn) == {c \in PendingOf(conn) : ~call[c].retried /\ call[c].read}

(* registerTarget(): targets the page left are revoked, live or not, and   *)
(* their sockets closed; then the tombstone of the key is resumed, or      *)
(* revoked when its window is over.                                        *)
Register(s, id) ==
    LET k == KeyOn(s, id)
        left == {l \in Moved(k) : Live(l)}
        gone == {l \in Moved(k) : Dead(l)} \cup Lapsed(k)
        conn == IF MayRebind(k) THEN tomb[k].conn ELSE s
        leftGrants == UNION {KeyGrants(store, l) : l \in left}
        after == Expire(gone, Settled(call, RevokedCalls(leftGrants)),
                        Without(store, leftGrants))
        again == IF MayRebind(k)
                 THEN {c \in Retryable(conn) : after.call[c].status = "pending"} ELSE {}
    IN /\ page[s].phase = "open" /\ ~LiveSocket(s) /\ ~disposed
       /\ ~Refused(k)
       /\ live' = [l \in Keys |-> IF l = k THEN [socket |-> s, conn |-> conn]
                                  ELSE IF l \in left THEN NoLive ELSE live[l]]
       /\ tomb' = [l \in Keys |-> IF l = k \/ l \in Moved(k) THEN NoTomb ELSE tomb[l]]
       /\ page' = Closing({live[l].socket : l \in left})
       /\ store' = IF MayRebind(k) THEN Rebound(after.store, k, conn) ELSE after.store
       /\ call' = [c \in Calls |-> IF c \in again THEN [after.call[c] EXCEPT !.retried = TRUE]
                                   ELSE after.call[c]]
       /\ ran' = [ran EXCEPT ![s] = @ \cup {<<c, TRUE>> : c \in again}]
       /\ UNCHANGED <<opened, disposed>>

-----------------------------------------------------------------------------
(* Calls *)

(* The DSH web client offers a live target to a session. *)
Offer(g, k, session) ==
    /\ CanOffer(store, g) /\ Live(k)
    /\ store' = Offered(store, g, session, [key |-> k, conn |-> live[k].conn])
    /\ UNCHANGED <<opened, page, live, tomb, call, ran, disposed>>

(* coordinator.request() and request(): a closing socket still counts as   *)
(* connected.                                                              *)
Request(c, g, read) ==
    /\ call[c].status = "unused" /\ Held(store, g)
    /\ Connected(store[g].target)
    /\ Cardinality(PendingOf(store[g].target.conn)) < MaxConcurrent
    /\ LET s == live[store[g].target.key].socket
       IN /\ call' = [call EXCEPT ![c] =
                        [status |-> "pending", grant |-> g, read |-> read,
                         conn |-> store[g].target.conn, captured |-> s,
                         accepted |-> FALSE, retried |-> FALSE]]
          /\ ran' = [ran EXCEPT ![s] = Taken(s, {<<c, FALSE>>})]
    /\ UNCHANGED <<store, opened, page, live, tomb, disposed>>

(* A frame of socket s that names the current request id of c. *)
Answers(s, c) ==
    /\ Hearing(s) /\ <<c, call[c].retried>> \in ran[s] /\ Pending(c)
    /\ \E k \in Keys : live[k] = [socket |-> s, conn |-> call[c].conn]

(* tool.accepted *)
Accept(s, c) ==
    /\ Answers(s, c) /\ ~call[c].accepted
    /\ call' = [call EXCEPT ![c].accepted = TRUE]
    /\ UNCHANGED <<store, opened, page, live, tomb, ran, disposed>>

(* tool.result, which a page sends after tool.accepted. *)
Result(s, c) ==
    /\ Answers(s, c) /\ call[c].accepted
    /\ call' = Settled(call, {c})
    /\ UNCHANGED <<store, opened, page, live, tomb, ran, disposed>>

(* The turn's signal aborts or the call's timer fires: tool.cancel goes to *)
(* the captured socket, the call is rejected.                              *)
Cancel(c) ==
    /\ Pending(c)
    /\ call' = Settled(call, {c})
    /\ UNCHANGED <<store, opened, page, live, tomb, ran, disposed>>

-----------------------------------------------------------------------------
(* Timers *)

(* Time passes for a tombstone: reconnectWindowMs to the instant, then     *)
(* past it.                                                                *)
Age(k) ==
    /\ Dead(k) /\ tomb[k].age # "past"
    /\ tomb' = [tomb EXCEPT ![k].age = IF @ = "within" THEN "edge" ELSE "past"]
    /\ UNCHANGED <<store, opened, page, live, call, ran, disposed>>

(* sweep(): silent targets are closed, tombstones expire from the very     *)
(* last instant of their window on.                                        *)
Sweep(silent) ==
    LET old == {k \in Keys : Dead(k) /\ tomb[k].age # "within"}
        after == Expire(old, call, store)
    IN /\ ~disposed
       /\ page' = Closing({live[k].socket : k \in silent})
       /\ tomb' = [k \in Keys |-> IF k \in old THEN NoTomb ELSE tomb[k]]
       /\ call' = after.call
       /\ store' = after.store
       /\ UNCHANGED <<opened, live, ran, disposed>>

Dispose ==
    /\ ~disposed
    /\ disposed' = TRUE
    /\ call' = Settled(call, UNION {PendingOf(live[k].conn) \cup PendingOf(tomb[k].conn) : k \in Keys})
    /\ page' = Closing({live[k].socket : k \in LiveKeys})
    /\ live' = [k \in Keys |-> NoLive]
    /\ tomb' = [k \in Keys |-> NoTomb]
    /\ UNCHANGED <<store, opened, ran>>

-----------------------------------------------------------------------------
SocketStep ==
    \/ \E o \in Origins : Attach(o)
    \/ \E s \in Sockets :
        \/ StartClosing(s) \/ LiveClosed(s) \/ OtherClosed(s)
        \/ \E id \in Ids : Register(s, id) \/ RegisterRefused(s, id)
        \/ \E c \in Calls : Accept(s, c) \/ Result(s, c)

HostStep ==
    \/ \E g \in Grants :
        \/ RevokeGrant(g)
        \/ \E k \in Keys, session \in Sessions : Offer(g, k, session)
        \/ \E c \in Calls, read \in BOOLEAN : Request(c, g, read)
    \/ \E c \in Calls : Cancel(c)

TimerStep ==
    \/ \E k \in Keys : Age(k)
    \/ \E silent \in SUBSET LiveKeys : Sweep(silent)

Next == SocketStep \/ HostStep \/ TimerStep \/ Dispose

Spec == Init /\ [][Next]_vars

-----------------------------------------------------------------------------
(* Types; a live target's socket has not had its close event. *)
TypeOK ==
    /\ store \in Stores
    /\ opened \in 0..MaxSockets
    /\ page \in [Sockets -> Pages]
    /\ live \in [Keys -> Lives]
    /\ tomb \in [Keys -> Tombs]
    /\ call \in [Calls -> CallRecords]
    /\ ran \in [Sockets -> SUBSET (Calls \X BOOLEAN)]
    /\ disposed \in BOOLEAN
    /\ \A k \in Keys : Live(k) => Hearing(live[k].socket)

(* A page is at one place: a target id is live or remembered under one     *)
(* origin only, and never both live and remembered (registerTarget).       *)
OneHomePerTarget ==
    \A k, l \in Keys :
        k.id = l.id /\ (Live(k) \/ Dead(k)) /\ (Live(l) \/ Dead(l))
            => k = l /\ ~(Live(k) /\ Dead(k))

(* Every held grant names the connection its logical target has, or can    *)
(* still resume: no expiry of the window, change of origin or rebind       *)
(* leaves a grant behind that nothing will ever revoke or reach.           *)
GrantFollowsTarget ==
    \A g \in Grants :
        Held(store, g) /\ ~disposed =>
            store[g].target.conn \in {live[store[g].target.key].conn, tomb[store[g].target.key].conn}

(* A rebind can never retry the work of a dead grant: a call is pending    *)
(* only while its grant is held, through drops and rebinds (revoke()), and *)
(* only in the calls of its grant's target.                                *)
NoDeadWork ==
    \A c \in Calls :
        Pending(c) => /\ Held(store, call[c].grant)
                      /\ call[c].conn = store[call[c].grant].target.conn

Runs(c) == {r \in Sockets \X BOOLEAN : <<c, r[2]>> \in ran[r[1]]}

(* A write reaches a page at most once and a read at most twice, whatever  *)
(* sockets drop, rebind and drop again.                                    *)
WritesRunOnce ==
    \A c \in Calls : Cardinality(Runs(c)) <= IF call[c].read THEN 2 ELSE 1

(* An accepted call is never sent again (broker.ts: calls settle "without  *)
(* ever replaying accepted or mutating operations").                       *)
AcceptedNeverReplayed ==
    [][\A c \in Calls : call[c].accepted => Runs(c)' = Runs(c)]_vars

(* A live target is never taken over by a second connection: as long as    *)
(* its close event has not run it keeps its socket and its connection id.  *)
NoTakeover ==
    [][\A k \in Keys : Live(k) /\ Live(k)' => live'[k] = live[k]]_vars

(* Where the page is stays unambiguous, through half-open sockets, drops,  *)
(* rebinds and moves to another origin.                                    *)
PageKeepsItsHome ==
    [][/\ OneHomePerTarget'
       /\ \A k \in Keys : Live(k) /\ Live(k)' => live'[k] = live[k]]_vars

(* tool.cancel is sent when the request's signal aborts (plan of the Vite  *)
(* provider, line 412): a page that is running the call hears of it.       *)
CancelReachesPage ==
    [][\A c \in Calls : Cancel(c) =>
          \A s \in Sockets : page[s].phase = "open" /\ <<c, call[c].retried>> \in ran[s]
                => call[c].captured = s]_vars
=============================================================================
