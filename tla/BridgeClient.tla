---------------------------- MODULE BridgeClient ----------------------------
(***************************************************************************)
(* The extension's end of the bridge as operators on its value:            *)
(* extension/src/bridge/client.ts over bridge/ws-socket.ts.  The client    *)
(* keeps one current socket, but sockets it has left go on delivering      *)
(* until they close: only opening and closing look whether the socket is   *)
(* the current one.                                                        *)
(*                                                                         *)
(* ws[s] is the transport of socket s as the browser sees it: "down" is    *)
(* gone with its close event still to come, "closed" has had it or was     *)
(* closed by the client, which suppresses it.  up[s] is what it carries to *)
(* the host.  Socket 0 and connection id 0 stand for null.                 *)
(***************************************************************************)
EXTENDS Naturals, SequencesExt, GrantIds

CONSTANT MaxSockets

ASSUME SocketAssumption == MaxSockets \in Nat

Sockets == 1 .. MaxSockets

ClientStates == {"idle", "connecting", "connected", "reconnecting", "closed"}
Transports   == {"unused", "opening", "open", "down", "closed"}

(* A frame is its type, the grant and the connection id it is about.       *)
Frame(type, g, id) == [type |-> type, grant |-> g, id |-> id]
Hello     == Frame("hello", 0, 0)
About(type, g) == Frame(type, g, 0)

(* Revocations go out one by one, in no order that matters.               *)
Revocations(gs) ==
    LET order == SetToSeq(gs) IN [i \in DOMAIN order |-> About("revoke", order[i])]

NewClient ==
    [state |-> "idle", socket |-> 0, owned |-> FALSE, lastId |-> 0,
     queued |-> {},
     ws |-> [s \in Sockets |-> "unused"],
     up |-> [s \in Sockets |-> <<>>]]

(* What has become of a transport.                                         *)
Becomes(n, s, w) == [n EXCEPT !.ws[s] = w]

(* handleClose: the current socket is lost; an owned client reconnects.    *)
AfterClose(n, s) ==
    IF n.socket # s THEN n
    ELSE [n EXCEPT !.socket = 0,
                   !.state = IF n.owned THEN "reconnecting" ELSE @]

(* recoverTransport: only the current socket is closed and left.           *)
Recovered(n, s) ==
    IF n.socket # s THEN n
    ELSE AfterClose(Becomes(n, s, "closed"), s)

(* What the transport does with a frame: one still opening throws, one     *)
(* that is gone swallows it.                                               *)
Throws(n, s) == n.ws[s] = "opening"
Put(n, s, fs) == IF n.ws[s] = "open" THEN [n EXCEPT !.up[s] = @ \o fs] ELSE n

Connected(n) == n.state = "connected" /\ n.socket # 0

Swallows(n) == Connected(n) /\ n.ws[n.socket] \in {"down", "closed"}

(* send: a revocation that cannot be sent is queued while the client is    *)
(* owned; any other frame then throws to the caller.                       *)
SendFails(n) == ~Connected(n) \/ Throws(n, n.socket)

Sent(n, f) ==
    IF ~SendFails(n) THEN Put(n, n.socket, <<f>>)
    ELSE IF Connected(n) THEN Recovered(n, n.socket)
    ELSE n

(* The first one that cannot be sent ends the connection for the others.   *)
SentRevokes(n, gs) ==
    IF ~SendFails(n) THEN Put(n, n.socket, Revocations(gs))
    ELSE LET kept == IF n.owned THEN [n EXCEPT !.queued = @ \cup gs] ELSE n
         IN  IF Connected(n) /\ gs # {} THEN Recovered(kept, n.socket) ELSE kept

(* connect: the earlier socket, if any, is left as it is.                  *)
Opened(n, s) ==
    [n EXCEPT !.owned = TRUE, !.socket = s, !.state = "connecting",
              !.ws[s] = "opening"]

(* onOpen: only the current socket says hello.                             *)
Greeted(n, s) ==
    LET open == Becomes(n, s, "open")
    IN  IF n.socket = s THEN Put(open, s, <<Hello>>) ELSE open

(* Mutation of SessionChanges: a changed connection id goes unnoticed. *)
SessionUnnoticed(n, id) == n.lastId = 0 /\ id = 0

(* hello.ok: another connection id ends the logical session; the same one  *)
(* first hears of every revocation that waited, on the socket that spoke.  *)
SessionChanges(n, id) == n.lastId # 0 /\ id # n.lastId

(* Mutation of Welcomed: what waited is forgotten instead of sent.         *)
WelcomedSilently(n, s, id) ==
    [n EXCEPT !.queued = {}, !.lastId = id, !.state = "connected"]

Welcomed(n, s, id) ==
    LET flushed == IF SessionChanges(n, id) THEN n
                   ELSE Put(n, s, Revocations(n.queued))
    IN  [flushed EXCEPT !.queued = {}, !.lastId = id, !.state = "connected"]

(* close: terminal; what waits is dropped, what was sent is not.           *)
Closed(n) ==
    [n EXCEPT !.owned = FALSE, !.lastId = 0, !.queued = {}, !.socket = 0,
              !.state = "closed",
              !.ws = [s \in Sockets |-> IF s = n.socket THEN "closed" ELSE @[s]]]
=============================================================================
