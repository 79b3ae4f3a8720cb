---------------------------- MODULE PageRuntime -----------------------------
(***************************************************************************)
(* A web page that runs the page runtime: the activation pipelines         *)
(* (page-runtime/src/activation.ts), the connection the runtime makes for  *)
(* them (runtime.ts connect, dispose), the page socket that registers the  *)
(* page with the broker and reconnects (transport/socket.ts), and the tool *)
(* calls it runs.  The broker is what ViteBroker models, seen from here.   *)
(*                                                                         *)
(* Pipelines are not serialized: every activation probes on its own, and   *)
(* those that find a connection under way share it.  A tool that is        *)
(* aborted may still run to its end; only tools that look at the signal    *)
(* stop.  Link 0 stands for no socket.                                     *)
(***************************************************************************)
EXTENDS Naturals, Sequences, FiniteSets

CONSTANTS
    Activations,    \* calls of Activator.activate, one pipeline each
    Calls,          \* tool calls, each with a request id of its own
    MaxLinks        \* bound: WebSockets the page opens

ASSUME LinkAssumption == MaxLinks \in Nat

Links == 1 .. MaxLinks

VARIABLES
    pipeline,   \* [Activations -> "idle" | "probing" | "waiting" | "done"]
    state,      \* Activator.state
    disposed,   \* PageRuntime.dispose was called
    client,     \* the runtime's PageSocket; made = FALSE stands for null
    link,       \* [Links -> WebSocket as the page sees it]
    down,       \* [Links -> frames of the broker on their way]
    asked,      \* [Calls -> link the call arrived on, 0 if it has not]
    inFlight,   \* PageSocket.inFlight
    aborted,    \* calls whose AbortController fired
    running,    \* executions of the dispatcher that have not ended
    answered,   \* history: [Calls -> link its result was sent on]
    sent        \* history: frames the broker sent, each at most once

socketVars == <<client, link, down>>
callVars   == <<asked, inFlight, aborted, running, answered>>
vars == <<pipeline, state, disposed, socketVars, callVars, sent>>

NoClient == [made |-> FALSE, link |-> 0, connected |-> FALSE, stop |-> FALSE,
             registered |-> FALSE, awaiting |-> FALSE, retry |-> FALSE]

Frame(type, c) == [type |-> type, call |-> c]
Notice(type)   == [type |-> type]

Init ==
    /\ pipeline = [a \in Activations |-> "idle"]
    /\ state = "dormant"
    /\ disposed = FALSE
    /\ client = NoClient
    /\ link = [l \in Links |-> "unused"]
    /\ down = [l \in Links |-> <<>>]
    /\ asked = [c \in Calls |-> 0]
    /\ inFlight = {} /\ aborted = {} /\ running = {}
    /\ answered = [c \in Calls |-> 0]
    /\ sent = {}

(* settleAll: every call in flight is aborted and forgotten.               *)
SettleAll == inFlight' = {} /\ aborted' = aborted \cup inFlight

Waiting == {a \in Activations : pipeline[a] = "waiting"}

(* The pipelines that share the connection go on; a disposed activator     *)
(* keeps its state.                                                        *)
Resume(outcome) ==
    /\ pipeline' = [a \in Activations |-> IF a \in Waiting THEN "done" ELSE pipeline[a]]
    /\ state' = IF disposed \/ Waiting = {} THEN state ELSE outcome

Shut(l) == [k \in Links |-> IF k = l THEN "closed" ELSE link[k]]

(* Mutation of Teardown: the socket is dropped without being closed.       *)
TeardownOpen ==
    /\ client' = NoClient
    /\ SettleAll
    /\ Resume("failed")
    /\ UNCHANGED link

(* The first registration is rejected: the runtime closes the socket and   *)
(* drops it, and every pipeline that waited has failed.                    *)
Teardown ==
    /\ client' = NoClient
    /\ link' = Shut(client.link)
    /\ SettleAll
    /\ Resume("failed")

-----------------------------------------------------------------------------
(* Activation *)

Activate(a) ==
    /\ pipeline[a] = "idle" /\ ~disposed
    /\ pipeline' = [pipeline EXCEPT ![a] = "probing"]
    /\ state' = "probing"
    /\ UNCHANGED <<disposed, socketVars, callVars, sent>>

ProbeFails(a) ==
    /\ pipeline[a] = "probing"
    /\ pipeline' = [pipeline EXCEPT ![a] = "done"]
    /\ state' = IF disposed THEN state ELSE "failed"
    /\ UNCHANGED <<disposed, socketVars, callVars, sent>>

Unused(l) == link[l] = "unused" /\ \A k \in 1 .. l - 1 : link[k] # "unused"

(* connect returns at once when a socket is there and nothing is under     *)
(* way, shares what is under way, or makes a new socket.                   *)
Connect(a) ==
    \/ /\ client.made /\ ~client.awaiting
       /\ pipeline' = [pipeline EXCEPT ![a] = "done"]
       /\ state' = "connected"
       /\ UNCHANGED <<client, link>>
    \/ /\ client.awaiting
       /\ pipeline' = [pipeline EXCEPT ![a] = "waiting"]
       /\ state' = "connecting"
       /\ UNCHANGED <<client, link>>
    \/ \E l \in Links :
         /\ ~client.made /\ Unused(l)
         /\ pipeline' = [pipeline EXCEPT ![a] = "waiting"]
         /\ state' = "connecting"
         /\ client' = [NoClient EXCEPT !.made = TRUE, !.awaiting = TRUE, !.link = l]
         /\ link' = [link EXCEPT ![l] = "opening"]

(* Mutation of ProbeOk: disposed is not looked at after the probe.         *)
ProbeOkUnchecked(a) ==
    /\ pipeline[a] = "probing"
    /\ Connect(a)
    /\ UNCHANGED <<disposed, down, callVars, sent>>

(* The probe succeeds; what was disposed meanwhile goes no further.        *)
ProbeOk(a) ==
    /\ pipeline[a] = "probing"
    /\ IF disposed
       THEN /\ pipeline' = [pipeline EXCEPT ![a] = "done"]
            /\ UNCHANGED <<state, client, link>>
       ELSE Connect(a)
    /\ UNCHANGED <<disposed, down, callVars, sent>>

(* Mutation of RegisterTimeout: the timer ends the wait but rejects nobody.*)
RegisterTimeoutSilent ==
    /\ client.awaiting
    /\ client' = [client EXCEPT !.awaiting = FALSE]
    /\ UNCHANGED <<pipeline, state, disposed, link, down, callVars, sent>>

(* target.registered never came in time.                                   *)
RegisterTimeout ==
    /\ client.awaiting
    /\ Teardown
    /\ UNCHANGED <<disposed, down, asked, running, answered, sent>>

(* dispose: the activator first, then the socket.                          *)
Dispose ==
    /\ ~disposed
    /\ disposed' = TRUE
    /\ client' = NoClient
    /\ link' = Shut(client.link)
    /\ SettleAll
    /\ pipeline' = [a \in Activations |-> IF a \in Waiting THEN "done" ELSE pipeline[a]]
    /\ UNCHANGED <<state, down, asked, running, answered, sent>>

-----------------------------------------------------------------------------
(* The page socket *)

(* onopen: hello and target.register go out with the current descriptor.   *)
LinkOpens(l) ==
    /\ link[l] = "opening"
    /\ link' = [link EXCEPT ![l] = "open"]
    /\ client' = [client EXCEPT !.connected = TRUE]
    /\ UNCHANGED <<pipeline, state, disposed, down, callVars, sent>>

(* The connection breaks or cannot be made; onclose is still to come.      *)
LinkBreaks(l) ==
    /\ link[l] \in {"opening", "open"}
    /\ link' = [link EXCEPT ![l] = "down"]
    /\ down' = [down EXCEPT ![l] = <<>>]
    /\ UNCHANGED <<pipeline, state, disposed, client, callVars, sent>>

(* Mutation of HandleClose: calls in flight outlive the connection.        *)
HandleCloseKeepsCalls(l) ==
    /\ link[l] = "down"
    /\ IF ~client.registered
       THEN Teardown
       ELSE /\ link' = Shut(l)
            /\ client' = [client EXCEPT !.connected = FALSE, !.retry = ~client.stop]
            /\ UNCHANGED <<pipeline, state, inFlight, aborted>>
    /\ UNCHANGED <<disposed, down, asked, running, answered, sent>>

(* handleClose: in-flight calls end; before the first registration the     *)
(* activation has failed, later the socket retries after a backoff unless  *)
(* it was told to stop.                                                    *)
HandleClose(l) ==
    /\ link[l] = "down"
    /\ IF ~client.registered
       THEN Teardown
       ELSE /\ link' = Shut(l)
            /\ client' = [client EXCEPT !.connected = FALSE, !.retry = ~client.stop]
            /\ SettleAll
            /\ UNCHANGED <<pipeline, state>>
    /\ UNCHANGED <<disposed, down, asked, running, answered, sent>>

(* The backoff timer.                                                      *)
Reopen ==
    /\ client.retry
    /\ \E l \in Links :
         /\ Unused(l)
         /\ link' = [link EXCEPT ![l] = "opening"]
         /\ client' = [client EXCEPT !.retry = FALSE, !.link = l]
    /\ UNCHANGED <<pipeline, state, disposed, down, callVars, sent>>

Receives(l, type) ==
    /\ link[l] = "open" /\ down[l] # <<>> /\ Head(down[l]).type = type
    /\ down' = [down EXCEPT ![l] = Tail(@)]
    /\ UNCHANGED <<disposed, sent>>

(* target.registered: the first one ends the wait of the pipelines.        *)
Registered(l) ==
    /\ Receives(l, "registered")
    /\ client' = [client EXCEPT !.registered = TRUE, !.awaiting = FALSE]
    /\ Resume("connected")
    /\ UNCHANGED <<link, callVars>>

(* error with a terminal code: no reconnect, and the readiness fails if it *)
(* still waits.                                                            *)
TerminalError(l) ==
    /\ Receives(l, "error")
    /\ IF client.awaiting
       THEN Teardown
       ELSE /\ client' = [client EXCEPT !.stop = TRUE]
            /\ link' = [link EXCEPT ![l] = "down"]
            /\ SettleAll
            /\ UNCHANGED <<pipeline, state>>
    /\ UNCHANGED <<asked, running, answered>>

(* tool.call: accepted on the socket, then executed.                       *)
ToolCall(l) ==
    LET c == Head(down[l]).call IN
    /\ Receives(l, "call")
    /\ asked' = [asked EXCEPT ![c] = l]
    /\ inFlight' = inFlight \cup {c} /\ running' = running \cup {c}
    /\ UNCHANGED <<pipeline, state, client, link, aborted, answered>>

(* tool.cancel: aborted, but still in flight.                              *)
ToolCancel(l) ==
    LET c == Head(down[l]).call IN
    /\ Receives(l, "cancel")
    /\ aborted' = aborted \cup ({c} \cap inFlight)
    /\ UNCHANGED <<pipeline, state, client, link, asked, inFlight, running, answered>>

(* target.revoke names no grant: every call ends.                          *)
TargetRevoke(l) ==
    /\ Receives(l, "revoke")
    /\ SettleAll
    /\ UNCHANGED <<pipeline, state, client, link, asked, running, answered>>

Sends == client.connected /\ client.link # 0

(* The execution ends.  Its result is sent on the socket there is now, if  *)
(* the call is still in flight; a failure of an aborted call is not sent.  *)
ToolEnds(c, ok) ==
    /\ c \in running
    /\ running' = running \ {c}
    /\ inFlight' = inFlight \ {c}
    /\ answered' = IF c \in inFlight /\ Sends /\ (ok \/ c \notin aborted)
                   THEN [answered EXCEPT ![c] = client.link] ELSE answered
    /\ UNCHANGED <<pipeline, state, disposed, socketVars, asked, aborted, sent>>

-----------------------------------------------------------------------------
(* The broker *)

BrokerSends(l, f, note) ==
    /\ link[l] = "open"
    /\ down' = [down EXCEPT ![l] = Append(@, f)]
    /\ sent' = sent \cup {note}
    /\ UNCHANGED <<pipeline, state, disposed, client, link, callVars>>

Greeted(l) == [type |-> "greeted", at |-> l]

(* target.register is accepted, or rejected for good.  A page that has     *)
(* been answered may be thrown out later, over a frame that is not valid   *)
(* or one too many (bound: once).                                          *)
BrokerRegisters(l) == Greeted(l) \notin sent /\ BrokerSends(l, Notice("registered"), Greeted(l))

BrokerRejects(l) ==
    \/ Greeted(l) \notin sent /\ BrokerSends(l, Notice("error"), Greeted(l))
    \/ /\ Greeted(l) \in sent /\ Notice("error") \notin sent
       /\ BrokerSends(l, Notice("error"), Notice("error"))

BrokerCalls(l, c) ==
    /\ Greeted(l) \in sent /\ Frame("call", c) \notin sent
    /\ BrokerSends(l, Frame("call", c), Frame("call", c))

BrokerCancels(l, c) ==
    /\ asked[c] = l /\ Frame("cancel", c) \notin sent
    /\ BrokerSends(l, Frame("cancel", c), Frame("cancel", c))

BrokerRevokes(l) ==
    /\ Greeted(l) \in sent /\ Notice("revoke") \notin sent
    /\ BrokerSends(l, Notice("revoke"), Notice("revoke"))

-----------------------------------------------------------------------------
ActivationStep ==
    \/ \E a \in Activations : Activate(a) \/ ProbeFails(a) \/ ProbeOk(a)
    \/ RegisterTimeout \/ Dispose

SocketStep ==
    \/ \E l \in Links :
         \/ LinkOpens(l) \/ LinkBreaks(l) \/ HandleClose(l)
         \/ Registered(l) \/ TerminalError(l)
         \/ ToolCall(l) \/ ToolCancel(l) \/ TargetRevoke(l)
    \/ Reopen

ToolStep == \E c \in Calls, ok \in BOOLEAN : ToolEnds(c, ok)

BrokerStep ==
    \E l \in Links :
      \/ BrokerRegisters(l) \/ BrokerRejects(l) \/ BrokerRevokes(l)
      \/ \E c \in Calls : BrokerCalls(l, c) \/ BrokerCancels(l, c)

Next == ActivationStep \/ SocketStep \/ ToolStep \/ BrokerStep

(* The probe settles and the registration timer fires.                     *)
Fairness ==
    /\ WF_vars(RegisterTimeout)
    /\ \A a \in Activations : WF_vars(ProbeFails(a) \/ ProbeOk(a))

Spec == Init /\ [][Next]_vars /\ Fairness

-----------------------------------------------------------------------------
(* A result is sent only on the connection its call arrived on: a call     *)
(* that outlives a reconnect is never answered on the new socket           *)
(* (socket.ts handleClose, handleToolCall).                                *)
AnsweredWhereAsked ==
    \A c \in Calls : answered[c] # 0 => answered[c] = asked[c]

(* The page never holds two connections, nor a connection and a timer that *)
(* opens another (socket.ts connect: a fresh attempt can never double-     *)
(* open).                                                                  *)
OneConnection ==
    LET held == {l \in Links : link[l] \in {"opening", "open", "down"}} IN
    /\ Cardinality(held) <= 1
    /\ client.retry => held = {}

(* A disposed runtime leaves nothing behind: no socket, no timer, no call  *)
(* that may still be answered, whatever pipeline was under way.            *)
DisposedIsQuiet ==
    disposed =>
      /\ client = NoClient /\ inFlight = {}
      /\ \A l \in Links : link[l] \in {"unused", "closed"}

(* Activation is never stuck in connecting (socket.ts registerTimeoutMs).  *)
ConnectingEnds == state = "connecting" ~> state # "connecting" \/ disposed

(* "The Activator can never mark the bridge connected while the host has   *)
(* not acknowledged the target"; a retry never reuses "a stale socket that *)
(* would make connect() succeed with no live connection" (runtime.ts).     *)
ConnectedIsNotDead ==
    [][state' = "connected" /\ state # "connected" => ~client'.stop]_vars

(* "A cancelled call is never answered" (socket.ts).                       *)
CancelledNotAnswered ==
    [][\A c \in aborted : answered'[c] = answered[c]]_vars
=============================================================================
