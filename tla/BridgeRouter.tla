---------------------------- MODULE BridgeRouter ----------------------------
(***************************************************************************)
(* The extension's grants between the side panels that ask for them and    *)
(* the host that uses them: extension/src/bridge/router.ts with the        *)
(* revocation wiring of entrypoints/background.ts, over the client of      *)
(* BridgeClient and a bridge that may drop, with a host that may restart.  *)
(* The host is what bridge/server.ts does as this side can tell            *)
(* (BridgeServer models it in full); the deadlines of a grant are those of *)
(* GrantVault; binding a grant attaches nothing yet (CdpSessions).         *)
(*                                                                         *)
(* Each panel request for a grant creates at most one, so a request is     *)
(* named by the grant it asks for.  Everything here runs after startup     *)
(* reconciliation (startupReady).                                          *)
(***************************************************************************)
EXTENDS BridgeClient

CONSTANTS
    Panels,         \* side-panel ports, each opened once
    NoPanel,
    MaxRestarts     \* bound: restarts of the host process

ASSUME RouterAssumption ==
    NoPanel \notin Panels /\ IsFiniteSet(Grants) /\ MaxRestarts \in Nat

VARIABLES
    panel,      \* [Panels -> "new" | "open" | "closed"]
    net,        \* the BridgeClient
    down,       \* what the host has sent on each socket
    host,       \* the host's live socket, connection id, records, outbox
    restarts,
    asker,      \* which panel asked for a grant, NoPanel if none has
    reading,    \* createGrant awaits catalog.byId
    asked,      \* pendingGrantRequests
    offered,    \* pendingGrants: the acknowledgement timer runs
    vault,      \* GrantVault's grants
    session,    \* history: the connection id a grant was accepted under
    bound,      \* CdpSessionManager.bind
    missed,     \* history: why the host was not told of a grant's end
    unheard     \* history: grants whose revocation by the host was lost

grantVars == <<asker, reading, asked, offered, vault, session, bound, missed>>
bridgeVars == <<down, host, restarts, unheard>>
vars == <<panel, net, grantVars, bridgeVars>>

Live(g) == vault[g] \in {"issued", "accepted"}
LiveGrants == {g \in Grants : Live(g)}

Mailboxes == [s \in Sockets |-> <<>>]
NewHost == [live |-> 0, id |-> 0, records |-> {}, outbox |-> {}]

Init ==
    /\ panel = [p \in Panels |-> "new"]
    /\ net = NewClient
    /\ down = Mailboxes
    /\ host = NewHost
    /\ restarts = 0
    /\ asker = [g \in Grants |-> NoPanel]
    /\ reading = {} /\ asked = {} /\ offered = {} /\ bound = {}
    /\ vault = [g \in Grants |-> "none"]
    /\ session = [g \in Grants |-> 0]
    /\ missed = [g \in Grants |-> "no"]
    /\ unheard = {}

Marked(gs, why) == [g \in Grants |-> IF g \in gs THEN why ELSE missed[g]]

(* Grants whose offer is on its way on another socket than s.              *)
Elsewhere(gs, s) ==
    {g \in gs : \E r \in Sockets \ {s} : About("put", g) \in Range(net.up[r])}

(* History of a revocation handed to the client now.                       *)
Notified(gs) ==
    IF Swallows(net) THEN Marked(gs, "lost")
    ELSE IF ~net.owned THEN Marked(gs, "terminal")
    ELSE IF Connected(net) THEN Marked(Elsewhere(gs, net.socket), "overtaken")
    ELSE missed
Revoked(gs)     == [g \in Grants |-> IF g \in gs THEN "gone" ELSE vault[g]]

-----------------------------------------------------------------------------
(* Panels *)

OpenPanel(p) ==
    /\ panel[p] = "new"
    /\ panel' = [panel EXCEPT ![p] = "open"]
    /\ UNCHANGED <<net, grantVars, bridgeVars>>

(* A panel goes away, and with it the bridge and everything that was       *)
(* granted, whichever panel had asked for it.                              *)
ClosePanel(p) ==
    LET told == SentRevokes(net, LiveGrants) IN
    /\ panel[p] = "open"
    /\ panel' = [panel EXCEPT ![p] = "closed"]
    /\ asked' = {} /\ offered' = {} /\ bound' = {}
    /\ vault' = Revoked(LiveGrants)
    /\ net' = Closed(told)
    /\ missed' = IF told.queued # {} THEN Marked(told.queued, "terminal")
                                     ELSE Notified(LiveGrants)
    /\ UNCHANGED <<asker, reading, session, bridgeVars>>

(* bridge.connect: at start, and whenever the client asks for a new nonce. *)
Connect(p, s) ==
    /\ panel[p] = "open"
    /\ net.ws[s] = "unused" /\ \A r \in 1 .. s - 1 : net.ws[r] # "unused"
    /\ net' = Opened(net, s)
    /\ UNCHANGED <<panel, grantVars, bridgeVars>>

(* grant.create: the tab is read again before anything else happens.       *)
CreateRequest(g, p) ==
    /\ panel[p] = "open" /\ asker[g] = NoPanel
    /\ asker' = [asker EXCEPT ![g] = p]
    /\ reading' = reading \cup {g}
    /\ UNCHANGED <<panel, net, asked, offered, vault, session, bound, missed, bridgeVars>>

(* The tab is gone or shows another URL.                                   *)
TabRefused(g) ==
    /\ g \in reading
    /\ reading' = reading \ {g}
    /\ UNCHANGED <<panel, net, asker, asked, offered, vault, session, bound, missed, bridgeVars>>

(* createGrant after the await: issue, offer, wait for the acceptance.     *)
TabRead(g) ==
    /\ g \in reading
    /\ reading' = reading \ {g}
    /\ net' = Sent(net, About("put", g))
    /\ IF SendFails(net)
       THEN vault' = [vault EXCEPT ![g] = "gone"] /\ UNCHANGED <<asked, offered>>
       ELSE /\ vault' = [vault EXCEPT ![g] = "issued"]
            /\ asked' = asked \cup {g} /\ offered' = offered \cup {g}
    /\ UNCHANGED <<panel, asker, session, bound, missed, bridgeVars>>

(* revokeGrantAndNotify, revokeGrant of the background and the expiry      *)
(* sweep: vault, CDP binding, host.                                        *)
RevokesAndTells(g) ==
    /\ vault' = IF Live(g) THEN Revoked({g}) ELSE vault
    /\ bound' = bound \ {g}
    /\ net' = SentRevokes(net, {g})
    /\ missed' = Notified({g})

(* grant.cancel: it finds the grant only while the offer waits.            *)
Cancel(g) ==
    /\ g \in asked /\ panel[asker[g]] = "open"
    /\ asked' = asked \ {g} /\ offered' = offered \ {g}
    /\ RevokesAndTells(g)
    /\ UNCHANGED <<panel, asker, reading, session, bridgeVars>>

(* The grant idles out, reaches its cap, or its tab is closed.             *)
LocalRevoke(g) ==
    /\ Live(g)
    /\ RevokesAndTells(g)
    /\ UNCHANGED <<panel, asker, reading, asked, offered, session, bridgeVars>>

(* No acknowledgement in time: the offer is over on this side only.        *)
AckTimeout(g) ==
    /\ g \in offered
    /\ offered' = offered \ {g} /\ asked' = asked \ {g}
    /\ vault' = Revoked({g})
    /\ missed' = IF Live(g) THEN Marked({g}, "timeout") ELSE missed
    /\ UNCHANGED <<panel, net, asker, reading, session, bound, bridgeVars>>

-----------------------------------------------------------------------------
(* Frames of the host *)

Receives(s, type) ==
    /\ net.ws[s] = "open" /\ down[s] # <<>> /\ Head(down[s]).type = type
    /\ down' = [down EXCEPT ![s] = Tail(@)]
    /\ UNCHANGED <<panel, host, restarts, unheard>>

(* Another connection id ends every offer, grant and binding there is.     *)
HelloOk(s) ==
    LET id == Head(down[s]).id IN
    /\ Receives(s, "ok")
    /\ net' = Welcomed(net, s, id)
    /\ IF SessionChanges(net, id)
       THEN /\ asked' = {} /\ offered' = {} /\ bound' = {}
            /\ vault' = Revoked(LiveGrants)
            /\ missed' = Marked(LiveGrants \cup net.queued, "changed")
       ELSE /\ missed' = Marked(Elsewhere(net.queued, s), "overtaken")
            /\ UNCHANGED <<asked, offered, bound, vault>>
    /\ UNCHANGED <<asker, reading, session>>

(* Mutation of Accepted: the tab is bound though the grant is gone.        *)
AcceptedBlindly(s) ==
    LET f == Head(down[s]) IN
    /\ Receives(s, "accepted")
    /\ vault' = IF Live(f.grant) THEN [vault EXCEPT ![f.grant] = "accepted"] ELSE vault
    /\ session' = [session EXCEPT ![f.grant] = f.id]
    /\ bound' = bound \cup {f.grant}
    /\ offered' = offered \ {f.grant} /\ asked' = asked \ {f.grant}
    /\ UNCHANGED <<net, asker, reading, missed>>

(* grant.accepted: only while the offer waits, and only of a live grant    *)
(* (vault.accept throws otherwise, and the offer waits for its timer).  Of *)
(* a grant past its deadline that the sweep has not met, vault.resolve     *)
(* throws after the acceptance: nothing is bound and the offer waits on.   *)
Accepted(s) ==
    LET f == Head(down[s]) IN
    /\ Receives(s, "accepted")
    /\ IF f.grant \in offered /\ Live(f.grant)
       THEN /\ vault' = [vault EXCEPT ![f.grant] = "accepted"]
            /\ session' = [session EXCEPT ![f.grant] = f.id]
            /\ \/ /\ bound' = bound \cup {f.grant}
                  /\ offered' = offered \ {f.grant} /\ asked' = asked \ {f.grant}
               \/ UNCHANGED <<bound, offered, asked>>
       ELSE UNCHANGED <<vault, session, bound, offered, asked>>
    /\ UNCHANGED <<net, asker, reading, missed>>

(* error: the host rejected something, so every waiting offer fails.       *)
Rejected(s) ==
    /\ Receives(s, "error")
    /\ asked' = asked \ offered /\ offered' = {}
    /\ vault' = Revoked(offered)
    /\ missed' = Marked(offered \cap LiveGrants, "refused")
    /\ UNCHANGED <<net, asker, reading, session, bound>>

HostRevoked(s) ==
    LET g == Head(down[s]).grant IN
    /\ Receives(s, "revoke")
    /\ vault' = IF Live(g) THEN Revoked({g}) ELSE vault
    /\ bound' = bound \ {g}
    /\ UNCHANGED <<net, asker, reading, asked, offered, session, missed>>

(* tool.call: refused when the grant is not live here (beginActivity), in  *)
(* which case the failure is the host's second notice that it has ended.   *)
ToolCall(s) ==
    LET g == Head(down[s]).grant IN
    /\ Receives(s, "call")
    /\ net' = IF Live(g) THEN net ELSE Sent(net, About("expired", g))
    /\ UNCHANGED grantVars

-----------------------------------------------------------------------------
(* Transports *)

WsOpens(s) ==
    /\ net.ws[s] = "opening"
    /\ net' = Greeted(net, s)
    /\ UNCHANGED <<panel, grantVars, bridgeVars>>

(* The host's close arrives behind everything it sent.                     *)
HostCloses(s) ==
    /\ Receives(s, "bye")
    /\ net' = Becomes(net, s, "down")
    /\ UNCHANGED grantVars

InFlight(q, type) == {g \in Grants : \E i \in DOMAIN q : q[i] = About(type, g)}

(* The connection breaks: what is on its way in either direction is lost.  *)
Drop(s) ==
    /\ net.ws[s] \in {"opening", "open"}
    /\ net' = [Becomes(net, s, "down") EXCEPT !.up[s] = <<>>]
    /\ down' = [down EXCEPT ![s] = <<>>]
    /\ missed' = Marked(InFlight(net.up[s], "revoke"), "lost")
    /\ unheard' = unheard \cup InFlight(down[s], "revoke")
    /\ UNCHANGED <<panel, host, restarts, asker, reading, asked, offered, vault, session, bound>>

WsCloses(s) ==
    /\ net.ws[s] = "down"
    /\ net' = AfterClose(Becomes(net, s, "closed"), s)
    /\ UNCHANGED <<panel, grantVars, bridgeVars>>

-----------------------------------------------------------------------------
(* The host *)

Reachable(s) == net.ws[s] \in {"opening", "open"}

(* A frame to a transport that is gone is dropped without an error.        *)
Mailed(d, s, fs) == IF Reachable(s) THEN [d EXCEPT ![s] = @ \o fs] ELSE d

HostHears(s, type) ==
    /\ net.up[s] # <<>> /\ Head(net.up[s]).type = type
    /\ net' = [net EXCEPT !.up[s] = Tail(@)]
    /\ UNCHANGED <<panel, grantVars, restarts>>

(* The same extension again: its session goes on under its id, a socket    *)
(* still live is closed, the queued revocations come first.                *)
HostWelcomes(s) ==
    LET id == IF host.id # 0 THEN host.id ELSE s
        left == IF host.live \in Sockets
                THEN Mailed(down, host.live, <<Frame("bye", 0, 0)>>) ELSE down
    IN
    /\ HostHears(s, "hello")
    /\ host' = [host EXCEPT !.live = s, !.id = id, !.outbox = {}]
    /\ down' = Mailed(left, s, <<Frame("ok", 0, id)>> \o Revocations(host.outbox))
    /\ unheard' = IF Reachable(s) THEN unheard ELSE unheard \cup host.outbox

(* grant.put counts on the live socket only.                               *)
HostAccepts(s) ==
    LET g == Head(net.up[s]).grant IN
    /\ HostHears(s, "put")
    /\ IF host.live = s
       THEN /\ host' = [host EXCEPT !.records = @ \cup {g}]
            /\ down' = Mailed(down, s, <<Frame("accepted", g, host.id)>>)
       ELSE UNCHANGED <<host, down>>
    /\ UNCHANGED unheard

HostRejects(s) ==
    /\ HostHears(s, "put") /\ host.live = s
    /\ down' = Mailed(down, s, <<Frame("error", 0, 0)>>)
    /\ UNCHANGED <<host, unheard>>

(* deliverRevokes: to the live socket, or to the outbox of the session.    *)
HostForgets(g) ==
    IF host.live = 0
    THEN /\ host' = [host EXCEPT !.records = @ \ {g}, !.outbox = @ \cup {g}]
         /\ UNCHANGED <<down, unheard>>
    ELSE /\ host' = [host EXCEPT !.records = @ \ {g}]
         /\ down' = Mailed(down, host.live, <<About("revoke", g)>>)
         /\ unheard' = IF Reachable(host.live) THEN unheard ELSE unheard \cup {g}

(* grant.revoke, or a result that says the grant has expired.              *)
HostHearsRevoke(s) ==
    LET g == Head(net.up[s]).grant IN
    /\ HostHears(s, "revoke") \/ HostHears(s, "expired")
    /\ IF g \in host.records THEN HostForgets(g) ELSE UNCHANGED <<host, down, unheard>>

(* The turn of the grant is over.                                          *)
HostRevokes(g) ==
    /\ g \in host.records
    /\ HostForgets(g)
    /\ UNCHANGED <<panel, net, grantVars, restarts>>

(* Bound: one call of a grant is on its way at a time.                     *)
HostCalls(g) ==
    /\ g \in host.records /\ host.live # 0
    /\ ~ \E s \in Sockets : About("call", g) \in Range(down[s])
                           \/ About("expired", g) \in Range(net.up[s])
    /\ down' = Mailed(down, host.live, <<About("call", g)>>)
    /\ UNCHANGED <<panel, net, grantVars, host, restarts, unheard>>

HostSeesClose ==
    /\ host.live # 0 /\ ~Reachable(host.live) /\ net.up[host.live] = <<>>
    /\ host' = [host EXCEPT !.live = 0]
    /\ UNCHANGED <<panel, net, grantVars, down, restarts, unheard>>

(* The host process dies with its records; its sockets close.  What it had *)
(* sent arrives before its successor accepts anyone, or is lost.           *)
HostRestarts ==
    /\ restarts < MaxRestarts
    /\ restarts' = restarts + 1
    /\ host' = NewHost
    /\ net' = [net EXCEPT !.up = Mailboxes]
    /\ down' = [s \in Sockets |-> IF net.ws[s] = "open"
                                  THEN <<Frame("bye", 0, 0)>> ELSE <<>>]
    /\ UNCHANGED <<panel, grantVars, unheard>>

-----------------------------------------------------------------------------
PanelStep ==
    \/ \E p \in Panels :
         \/ OpenPanel(p) \/ ClosePanel(p)
         \/ \E s \in Sockets : Connect(p, s)
         \/ \E g \in Grants : CreateRequest(g, p)
    \/ \E g \in Grants : TabRefused(g) \/ TabRead(g) \/ Cancel(g)

TimerStep == \E g \in Grants : LocalRevoke(g) \/ AckTimeout(g)

FrameStep ==
    \E s \in Sockets :
      \/ HelloOk(s) \/ Accepted(s) \/ Rejected(s) \/ HostRevoked(s) \/ ToolCall(s)

WireStep ==
    \E s \in Sockets : WsOpens(s) \/ HostCloses(s) \/ Drop(s) \/ WsCloses(s)

HostStep ==
    \/ \E s \in Sockets :
         \/ HostWelcomes(s) \/ HostAccepts(s) \/ HostRejects(s) \/ HostHearsRevoke(s)
    \/ \E g \in Grants : HostRevokes(g) \/ HostCalls(g)
    \/ HostSeesClose
    \/ HostRestarts

Next == PanelStep \/ TimerStep \/ FrameStep \/ WireStep \/ HostStep

Spec == Init /\ [][Next]_vars

-----------------------------------------------------------------------------
Revoking(q, g) == \E i \in DOMAIN q : q[i] = About("revoke", g)

(* The host keeps the record of a grant the extension has ended only while *)
(* the notice of it is queued or on its way, or when the notice was never  *)
(* sent (an unacknowledged or rejected offer), was dropped with the last   *)
(* panel or at a change of session, was lost on a broken connection, or    *)
(* was sent on another socket than the offer still on its way (router.ts,  *)
(* client.ts).                                                             *)
RecordsAccounted ==
    \A g \in host.records :
      \/ Live(g)
      \/ g \in net.queued
      \/ \E s \in Sockets : Revoking(net.up[s], g)
      \/ missed[g] # "no"

(* A grant bound to a tab is accepted here, and held by the host unless    *)
(* the host's revocation waits, is on its way or was lost, or the host has *)
(* restarted and the extension has not met the new one.                    *)
BindingsAccounted ==
    \A g \in bound :
      /\ vault[g] = "accepted"
      /\ \/ g \in host.records \cup host.outbox \cup unheard
         \/ \E s \in Sockets : Revoking(down[s], g)
         \/ net.lastId # host.id

(* Every accepted grant belongs to the logical session the extension is in *)
(* (onSessionChanged, hello.ok).                                           *)
GrantsOfThisSession ==
    \A g \in Grants : vault[g] = "accepted" => session[g] = net.lastId

(* With no panel open nothing is granted, offered or bound (connectPanel). *)
AuthorityNeedsPanel ==
    (\A p \in Panels : panel[p] # "open") =>
      LiveGrants = {} /\ offered = {} /\ bound = {}

(* Authority on this side never outlives what it was given for: the        *)
(* logical session and the panels.                                         *)
AuthorityScoped == GrantsOfThisSession /\ AuthorityNeedsPanel

(* "Terminal paths have their own Host cleanup and cannot be resumed"      *)
(* (router.ts): the host keeps no record whose notice was dropped with the *)
(* panel once it has seen that the connection is gone.                     *)
TerminalReachesHost ==
    \A g \in host.records : missed[g] = "terminal" => host.live # 0
=============================================================================
