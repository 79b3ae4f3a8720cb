---------------------------- MODULE PanelChannel ----------------------------
(***************************************************************************)
(* How a request of the DSH iframe reaches the extension's background and  *)
(* its answer comes back: the request side of ExtensionChannel             *)
(* (dsh-plugin/src/client/extension-channel.ts), the side panel's          *)
(* ResilientPanelPort (extension/src/bridge/resilient-panel-port.ts), the  *)
(* port handlers of entrypoints/background.ts and what BridgeRouter does   *)
(* with grant.create, grant.cancel and bridge.connect as far as the panel  *)
(* can tell (BridgeRouter models it against the host).                     *)
(*                                                                         *)
(* Messages carry the order they were sent in.  A port breaks on its own   *)
(* or with the service worker; what is on its way is then lost, and until  *)
(* the panel hears of it a message either vanishes or throws.  Port 0      *)
(* stands for null.                                                        *)
(***************************************************************************)
EXTENDS Naturals, SequencesExt

CONSTANTS
    Requests,       \* grant.create requests, each with an id of its own
    MaxBuffer,      \* ResilientPanelPort's maxBuffer
    MaxPorts,       \* bound: runtime ports the panel opens
    MaxConnects     \* bound: the bridge drops while fewer connects were sent

ASSUME BufferAssumption == MaxBuffer \in Nat \ {0}
ASSUME PortAssumption   == MaxPorts \in Nat

Ports == 1 .. MaxPorts

VARIABLES
    request,    \* [Requests -> state of the iframe's promise]
    connects,   \* bridge.connect requests sent so far
    clock,      \* messages sent so far
    mounted,    \* the panel has not disposed its port
    port,       \* the panel's current port
    queue,      \* its buffer
    retry,      \* its reconnect timer is armed
    ports,      \* [Ports -> "unused" | "live" | "broken" | "closed"]
    wire,       \* [Ports -> messages on their way to the background]
    replies,    \* [Ports -> messages on their way to the panel]
    panels,     \* the background's open panel ports
    bridge,     \* the background's BridgeClient: "off" | "on" | "lost"
    grant,      \* [Requests -> stage of createGrant and of its grant]
    by,         \* [Requests -> the port the request came from]
    seen,       \* history: the last message the background took
    stray       \* history: [Requests -> why nobody cancels its grant]

panelVars == <<port, queue, retry, ports, wire>>
backVars  == <<panels, bridge, grant, by, seen>>
vars == <<request, connects, clock, mounted, panelVars, replies, backVars, stray>>

Message(type, r, n) == [type |-> type, request |-> r, nr |-> n]
Cancels(q) == {m.request : m \in {k \in Range(q) : k.type = "cancel"}}

Live(r) == grant[r] \in {"offered", "accepted"}

Init ==
    /\ request = [r \in Requests |-> "new"]
    /\ connects = 0 /\ clock = 0
    /\ mounted = TRUE
    /\ port = 0 /\ queue = <<>> /\ retry = TRUE
    /\ ports = [p \in Ports |-> "unused"]
    /\ wire = [p \in Ports |-> <<>>]
    /\ replies = [p \in Ports |-> <<>>]
    /\ panels = {}
    /\ bridge = "off"
    /\ seen = 0
    /\ grant = [r \in Requests |-> "none"]
    /\ by = [r \in Requests |-> 0]
    /\ stray = [r \in Requests |-> "no"]

Strayed(rs, why) == [r \in Requests |-> IF r \in rs THEN why ELSE stray[r]]

-----------------------------------------------------------------------------
(* The panel's port *)

(* Mutation of Enqueued: the message that failed is retried first.         *)
EnqueuedFirst(q, m) == <<m>> \o (IF Len(q) >= MaxBuffer THEN Tail(q) ELSE q)

(* enqueue: at the limit the oldest message goes.                          *)
Enqueued(q, m) == Append(IF Len(q) >= MaxBuffer THEN Tail(q) ELSE q, m)

Overflow(q) == IF Len(q) >= MaxBuffer THEN Cancels(<<Head(q)>>) ELSE {}

(* send: on the live port; into the buffer while there is none, or when    *)
(* the port throws.                                                        *)
Send(m) ==
    /\ clock' = clock + 1
    /\ \/ /\ ~mounted
          /\ UNCHANGED <<panelVars, stray>>
       \/ /\ mounted /\ port = 0
          /\ queue' = Enqueued(queue, m)
          /\ stray' = Strayed(Overflow(queue), "overflow")
          /\ UNCHANGED <<port, retry, ports, wire>>
       \/ /\ mounted /\ port # 0 /\ ports[port] = "live"
          /\ wire' = [wire EXCEPT ![port] = Append(@, m)]
          /\ UNCHANGED <<port, queue, retry, ports, stray>>
       \/ /\ mounted /\ port # 0 /\ ports[port] = "broken"
          /\ stray' = Strayed(Cancels(<<m>>), "lost")
          /\ UNCHANGED panelVars
       \/ /\ mounted /\ port # 0 /\ ports[port] = "broken"
          /\ port' = 0 /\ retry' = TRUE
          /\ ports' = [ports EXCEPT ![port] = "closed"]
          /\ queue' = Enqueued(queue, m)
          /\ stray' = Strayed(Overflow(queue), "overflow")
          /\ UNCHANGED wire

(* connectNow, from open or the reconnect timer: the buffer is flushed in  *)
(* order.  The fresh port may die at once, before message k + 1.           *)
ConnectNow ==
    /\ mounted /\ port = 0 /\ retry
    /\ \E p \in Ports, k \in 0 .. Len(queue) :
         /\ ports[p] = "unused" /\ \A o \in 1 .. p - 1 : ports[o] # "unused"
         /\ \/ /\ k = Len(queue)
               /\ port' = p /\ retry' = FALSE
               /\ ports' = [ports EXCEPT ![p] = "live"]
               /\ wire' = [wire EXCEPT ![p] = queue]
               /\ panels' = panels \cup {p}
               /\ UNCHANGED stray
            \/ /\ k < Len(queue)
               /\ ports' = [ports EXCEPT ![p] = "closed"]
               /\ stray' = Strayed(Cancels(SubSeq(queue, 1, k)), "lost")
               /\ UNCHANGED <<port, retry, wire, panels>>
         /\ queue' = SubSeq(queue, k + 1, Len(queue))
    /\ UNCHANGED <<request, connects, clock, mounted, replies, bridge, grant, by, seen>>

(* Mutation of PortDrops: no reconnect is scheduled.                       *)
PortDropsForGood ==
    /\ mounted /\ port # 0 /\ ports[port] = "broken"
    /\ ports' = [ports EXCEPT ![port] = "closed"]
    /\ port' = 0
    /\ UNCHANGED <<request, connects, clock, mounted, queue, retry, wire, replies,
                   backVars, stray>>

(* handleDisconnect of the current port.                                   *)
PortDrops ==
    /\ mounted /\ port # 0 /\ ports[port] = "broken"
    /\ ports' = [ports EXCEPT ![port] = "closed"]
    /\ port' = 0 /\ retry' = TRUE
    /\ UNCHANGED <<request, connects, clock, mounted, queue, wire, replies, backVars, stray>>

(* dispose: terminal; the live port is disconnected.                       *)
Unmount ==
    /\ mounted
    /\ mounted' = FALSE
    /\ queue' = <<>> /\ retry' = FALSE /\ port' = 0
    /\ ports' = [p \in Ports |-> IF p = port THEN "closed" ELSE ports[p]]
    /\ stray' = Strayed(Cancels(queue), "unmounted")
    /\ UNCHANGED <<request, connects, clock, wire, replies, backVars>>

(* The port breaks with the worker alive.                                  *)
Lost(ps) ==
    /\ ports' = [p \in Ports |-> IF p \in ps /\ ports[p] = "live" THEN "broken" ELSE ports[p]]
    /\ wire' = [p \in Ports |-> IF p \in ps THEN <<>> ELSE wire[p]]
    /\ replies' = [p \in Ports |-> IF p \in ps THEN <<>> ELSE replies[p]]

PortBreaks(p) ==
    /\ ports[p] = "live"
    /\ Lost({p})
    /\ stray' = Strayed(Cancels(wire[p]), "lost")
    /\ UNCHANGED <<request, connects, clock, mounted, port, queue, retry, backVars>>

-----------------------------------------------------------------------------
(* The iframe's requests *)

(* serialize: grant.create.                                                *)
Create(r) ==
    /\ request[r] = "new"
    /\ request' = [request EXCEPT ![r] = "pending"]
    /\ Send(Message("create", r, clock + 1))
    /\ UNCHANGED <<connects, mounted, replies, backVars>>

(* pairAndConnect, at load and whenever pairing is required.               *)
Pair ==
    /\ connects = 0
    /\ connects' = 1
    /\ Send(Message("connect", 0, clock + 1))
    /\ UNCHANGED <<request, mounted, replies, backVars>>

(* The signal aborts: the promise is rejected and the offer cancelled.     *)
Abort(r) ==
    /\ request[r] = "pending"
    /\ request' = [request EXCEPT ![r] = "aborted"]
    /\ Send(Message("cancel", r, clock + 1))
    /\ UNCHANGED <<connects, mounted, replies, backVars>>

(* The request times out: nobody is told.                                  *)
TimesOut(r) ==
    /\ request[r] = "pending"
    /\ request' = [request EXCEPT ![r] = "expired"]
    /\ stray' = Strayed({r}, "expired")
    /\ UNCHANGED <<connects, clock, mounted, panelVars, replies, backVars>>

(* What the background posts reaches the iframe on the current port only.  *)
Hears(type) ==
    /\ mounted /\ port # 0 /\ replies[port] # <<>> /\ Head(replies[port]).type = type
    /\ replies' = [replies EXCEPT ![port] = Tail(@)]

(* panel.reply: correlated with a request that still waits.                *)
Reply(type, outcome) ==
    LET r == Head(replies[port]).request IN
    /\ Hears(type)
    /\ request' = IF request[r] = "pending" THEN [request EXCEPT ![r] = outcome] ELSE request
    /\ UNCHANGED <<connects, clock, mounted, panelVars, backVars, stray>>

PairingRequired ==
    /\ Hears("pair")
    /\ connects' = connects + 1
    /\ Send(Message("connect", 0, clock + 1))
    /\ UNCHANGED <<request, mounted, backVars>>

-----------------------------------------------------------------------------
(* The background *)

Posts(p, type, r) ==
    replies' = IF ports[p] = "live"
               THEN [replies EXCEPT ![p] = Append(@, [type |-> type, request |-> r])]
               ELSE replies

Takes(p, type) ==
    /\ wire[p] # <<>> /\ Head(wire[p]).type = type
    /\ wire' = [wire EXCEPT ![p] = Tail(@)]
    /\ seen' = Head(wire[p]).nr
    /\ UNCHANGED <<request, connects, clock, mounted, port, queue, retry, ports, panels>>

BridgeConnect(p) ==
    /\ Takes(p, "connect")
    /\ bridge' = "on"
    /\ UNCHANGED <<replies, grant, by, stray>>

(* grant.create: the tab is read first.                                    *)
GrantCreate(p) ==
    LET r == Head(wire[p]).request IN
    /\ Takes(p, "create")
    /\ grant' = [grant EXCEPT ![r] = "reading"]
    /\ by' = [by EXCEPT ![r] = p]
    /\ UNCHANGED <<replies, bridge, stray>>

(* The rest of createGrant: refused when the bridge is not there.          *)
TabRead(r) ==
    /\ grant[r] = "reading"
    /\ IF bridge = "on"
       THEN grant' = [grant EXCEPT ![r] = "offered"] /\ UNCHANGED replies
       ELSE grant' = [grant EXCEPT ![r] = "gone"] /\ Posts(by[r], "refused", r)
    /\ UNCHANGED <<request, connects, clock, mounted, panelVars, panels, bridge, by, seen, stray>>

(* The host accepts the offer, or never answers it.                        *)
Accepted(r) ==
    /\ grant[r] = "offered"
    /\ grant' = [grant EXCEPT ![r] = "accepted"]
    /\ Posts(by[r], "handle", r)
    /\ UNCHANGED <<request, connects, clock, mounted, panelVars, panels, bridge, by, seen, stray>>

AckTimeout(r) ==
    /\ grant[r] = "offered"
    /\ grant' = [grant EXCEPT ![r] = "gone"]
    /\ Posts(by[r], "refused", r)
    /\ UNCHANGED <<request, connects, clock, mounted, panelVars, panels, bridge, by, seen, stray>>

(* grant.cancel: only an offer that waits for its answer is cancelled.     *)
GrantCancel(p) ==
    LET r == Head(wire[p]).request IN
    /\ Takes(p, "cancel")
    /\ IF grant[r] = "offered"
       THEN grant' = [grant EXCEPT ![r] = "gone"] /\ UNCHANGED stray
       ELSE stray' = Strayed({r}, "unfound") /\ UNCHANGED grant
    /\ UNCHANGED <<replies, bridge, by>>

(* Mutation of BackDisconnect: only the grants asked for on that port end. *)
BackDisconnectOwn(p) ==
    /\ p \in panels /\ ports[p] # "live" /\ wire[p] = <<>>
    /\ panels' = panels \ {p}
    /\ bridge' = "off"
    /\ grant' = [r \in Requests |-> IF Live(r) /\ by[r] = p THEN "gone" ELSE grant[r]]
    /\ UNCHANGED <<request, connects, clock, mounted, panelVars, replies, by, seen, stray>>

(* connectPanel's onDisconnect: every grant ends and the bridge closes.    *)
BackDisconnect(p) ==
    /\ p \in panels /\ ports[p] # "live" /\ wire[p] = <<>>
    /\ panels' = panels \ {p}
    /\ bridge' = "off"
    /\ grant' = [r \in Requests |-> IF Live(r) THEN "gone" ELSE grant[r]]
    /\ UNCHANGED <<request, connects, clock, mounted, panelVars, replies, by, seen, stray>>

(* The bridge drops; after the backoff every panel is asked to pair again. *)
BridgeDrops ==
    /\ bridge = "on" /\ connects < MaxConnects
    /\ bridge' = "lost"
    /\ replies' = [p \in Ports |-> IF p \in panels /\ ports[p] = "live"
                   THEN Append(replies[p], [type |-> "pair", request |-> 0]) ELSE replies[p]]
    /\ UNCHANGED <<request, connects, clock, mounted, panelVars, panels, grant, by, seen, stray>>

(* The service worker is stopped: its memory goes, its ports break.        *)
WorkerStops ==
    /\ Lost(Ports)
    /\ panels' = {}
    /\ bridge' = "off"
    /\ grant' = [r \in Requests |-> IF grant[r] = "none" THEN "none" ELSE "gone"]
    /\ stray' = Strayed(UNION {Cancels(wire[p]) : p \in Ports}, "lost")
    /\ UNCHANGED <<request, connects, clock, mounted, port, queue, retry, by, seen>>

-----------------------------------------------------------------------------
IframeStep ==
    \/ \E r \in Requests : Create(r) \/ Abort(r) \/ TimesOut(r)
    \/ Reply("handle", "granted") \/ Reply("refused", "failed")
    \/ Pair \/ PairingRequired

PortStep == ConnectNow \/ PortDrops \/ Unmount \/ \E p \in Ports : PortBreaks(p)

BackgroundStep ==
    \/ \E p \in Ports : BridgeConnect(p) \/ GrantCreate(p) \/ GrantCancel(p) \/ BackDisconnect(p)
    \/ \E r \in Requests : TabRead(r) \/ Accepted(r) \/ AckTimeout(r)
    \/ BridgeDrops \/ WorkerStops

Next == IframeStep \/ PortStep \/ BackgroundStep

Spec == Init /\ [][Next]_vars

-----------------------------------------------------------------------------
Increasing(q) == \A i \in 1 .. Len(q) - 1 : q[i] < q[i + 1]
Numbers(q) == [i \in DOMAIN q |-> q[i].nr]

(* Messages are lost but never reordered or repeated, whatever the buffer, *)
(* the ports and the failures in between (resilient-panel-port.ts: flushed *)
(* in order once a fresh port opens).                                      *)
NeverReordered ==
    \A p \in Ports : Increasing(<<seen>> \o Numbers(wire[p]) \o Numbers(queue))

(* The buffer holds messages only while there is no port, never more than  *)
(* its limit, and a panel without a port always has another one coming.    *)
BufferedOnlyWithoutPort ==
    /\ Len(queue) <= MaxBuffer
    /\ port # 0 => queue = <<>> /\ ~retry
    /\ mounted /\ port = 0 => retry

(* A live grant has somebody: a request that waits for it or has its       *)
(* handle, a cancel or the panel's end on the way.  It is left to its      *)
(* deadline only where the request timed out, or where the cancel was      *)
(* lost, overflowed the buffer or found no offer.                          *)
GrantsWanted ==
    \A r \in Requests : Live(r) =>
      \/ request[r] \in {"pending", "granted"}
      \/ r \in Cancels(queue) \/ \E p \in Ports : r \in Cancels(wire[p])
      \/ stray[r] # "no"
      \/ ~mounted /\ panels # {}

(* An aborted request leaves no grant: "the grant, its CDP binding, and    *)
(* the host offer die immediately instead of lingering until the TTL"      *)
(* (extension-channel.ts), once the background has the cancel.             *)
AbortEndsGrant == \A r \in Requests : stray[r] = "unfound" => ~Live(r)
=============================================================================
