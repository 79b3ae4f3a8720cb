-------------------------- MODULE PageRuntimeProofs --------------------------
(***************************************************************************)
(* Theorems about PageRuntime for any activations, calls and sockets: one  *)
(* connection at most, results only where the call came from, and silence  *)
(* after dispose.                                                          *)
(***************************************************************************)
EXTENDS PageRuntime, FiniteSetTheorems, TLAPS

Clients == [made : BOOLEAN, link : Links \cup {0}, connected : BOOLEAN, stop : BOOLEAN,
            registered : BOOLEAN, awaiting : BOOLEAN, retry : BOOLEAN]

Frames == [type : {"call", "cancel"}, call : Calls]
          \cup [type : {"registered", "error", "revoke"}]

TypeOK ==
    /\ pipeline \in [Activations -> {"idle", "probing", "waiting", "done"}]
    /\ state \in {"dormant", "probing", "connecting", "connected", "failed"}
    /\ disposed \in BOOLEAN
    /\ client \in Clients
    /\ link \in [Links -> {"unused", "opening", "open", "down", "closed"}]
    /\ down \in [Links -> Seq(Frames)]
    /\ asked \in [Calls -> Links \cup {0}] /\ answered \in [Calls -> Links \cup {0}]
    /\ inFlight \subseteq Calls /\ aborted \subseteq Calls /\ running \subseteq Calls

(* A link that is not over is the client's, and no other is to come.       *)
HeldIsOurs ==
    \A l \in Links : link[l] \in {"opening", "open", "down"} =>
        client.made /\ client.link = l /\ ~client.retry

(* Without a client there is nothing of one; a disposed runtime has none.  *)
NothingLeft ==
    /\ ~client.made => client = NoClient
    /\ disposed => ~client.made
    /\ ~client.made \/ client.retry => inFlight = {}

(* A call in flight arrived on the client's link.                          *)
FlightIsHere == \A c \in inFlight : asked[c] = client.link

Calling(l, i, c) == down[l][i].type = "call" /\ down[l][i].call = c

(* A call is sent to the page once, and asked of it once.                  *)
CalledOnce ==
    \A c \in Calls :
        /\ asked[c] # 0 => Frame("call", c) \in sent
        /\ \A l \in Links : \A i \in 1 .. Len(down[l]) : Calling(l, i, c) =>
             /\ asked[c] = 0 /\ Frame("call", c) \in sent
             /\ \A m \in Links : \A j \in 1 .. Len(down[m]) :
                  Calling(m, j, c) => m = l /\ j = i

Place == HeldIsOurs /\ NothingLeft /\ FlightIsHere

IInv == TypeOK /\ Place /\ CalledOnce /\ AnsweredWhereAsked

LEMMA NoClientTyped == NoClient \in Clients /\ ~NoClient.made /\ ~NoClient.retry
  BY DEF NoClient, Clients

LEMMA NoFrames == <<>> \in Seq(Frames)
  OBVIOUS

LEMMA Stopped ==
  ASSUME NEW n \in Clients PROVE [n EXCEPT !.stop = TRUE] \in Clients
  BY DEF Clients

LEMMA InitInv == Init => IInv
<1> SUFFICES ASSUME Init PROVE IInv
  OBVIOUS
<1>1. TypeOK
  <2>1. down \in [Links -> Seq(Frames)]
    BY NoFrames DEF Init
  <2> QED BY <2>1, NoClientTyped DEF Init, TypeOK
<1>2. \A l \in Links : down[l] = <<>> /\ link[l] = "unused"
  BY DEF Init
<1>3. HeldIsOurs /\ NothingLeft /\ FlightIsHere /\ AnsweredWhereAsked
  BY <1>2 DEF Init, HeldIsOurs, NothingLeft, FlightIsHere, AnsweredWhereAsked
<1>4. CalledOnce
  BY <1>2 DEF Init, CalledOnce
<1> QED BY <1>1, <1>3, <1>4 DEF IInv, Place

LEMMA ResumeTyped ==
  ASSUME TypeOK, NEW out \in {"connected", "failed"}, Resume(out)
  PROVE  /\ pipeline' \in [Activations -> {"idle", "probing", "waiting", "done"}]
         /\ state' \in {"dormant", "probing", "connecting", "connected", "failed"}
  BY DEF Resume, TypeOK

LEMMA ShutTyped ==
  ASSUME TypeOK, NEW l
  PROVE  /\ Shut(l) \in [Links -> {"unused", "opening", "open", "down", "closed"}]
         /\ \A k \in Links : Shut(l)[k] = IF k = l THEN "closed" ELSE link[k]
  BY DEF Shut, TypeOK

LEMMA TeardownTyped ==
  ASSUME TypeOK, Teardown, UNCHANGED <<disposed, asked, running, answered>>,
         down' \in [Links -> Seq(Frames)]
  PROVE  TypeOK'
<1>1. client' \in Clients
  BY NoClientTyped DEF Teardown
<1>2. link' \in [Links -> {"unused", "opening", "open", "down", "closed"}]
  BY ShutTyped DEF Teardown
<1>3. inFlight' \subseteq Calls /\ aborted' \subseteq Calls
  BY DEF Teardown, SettleAll, TypeOK
<1>4. /\ pipeline' \in [Activations -> {"idle", "probing", "waiting", "done"}]
      /\ state' \in {"dormant", "probing", "connecting", "connected", "failed"}
  BY ResumeTyped DEF Teardown
<1> QED BY <1>1, <1>2, <1>3, <1>4 DEF TypeOK

(* What the page takes off a wire leaves it typed.                         *)
LEMMA ReceivesTyped ==
  ASSUME TypeOK, NEW l \in Links, NEW type, Receives(l, type)
  PROVE  /\ down' \in [Links -> Seq(Frames)]
         /\ down[l] \in Seq(Frames) /\ down[l] # <<>>
         /\ Head(down[l]) \in Frames /\ Head(down[l]).type = type
         /\ down'[l] = Tail(down[l])
         /\ \A m \in Links : m # l => down'[m] = down[m]
         /\ type \in {"call", "cancel"} => Head(down[l]).call \in Calls
<1>1. down \in [Links -> Seq(Frames)] /\ down[l] \in Seq(Frames) /\ down[l] # <<>>
  BY DEF TypeOK, Receives
<1>2. Tail(down[l]) \in Seq(Frames) /\ Head(down[l]) \in Frames /\ Head(down[l]).type = type
  BY <1>1 DEF Receives
<1>3. down' = [down EXCEPT ![l] = Tail(down[l])]
  BY DEF Receives
<1>4. type \in {"call", "cancel"} => Head(down[l]).call \in Calls
  BY <1>2 DEF Frames
<1> HIDE DEF Frames
<1> QED BY <1>1, <1>2, <1>3, <1>4

LEMMA TypeStep == TypeOK /\ [Next]_vars => TypeOK'
<1> SUFFICES ASSUME TypeOK, [Next]_vars PROVE TypeOK'
  OBVIOUS
<1>1. ASSUME NEW a \in Activations, Activate(a) \/ ProbeFails(a) PROVE TypeOK'
  BY <1>1 DEF Activate, ProbeFails, TypeOK, socketVars, callVars
<1>2. ASSUME NEW a \in Activations, ProbeOk(a) PROVE TypeOK'
  <2>1. ASSUME Connect(a) PROVE client' \in Clients
    <3>1. client \in Clients
      BY DEF TypeOK
    <3>2. CASE UNCHANGED client
      BY <3>1, <3>2
    <3>3. ASSUME NEW l \in Links,
                 client' = [NoClient EXCEPT !.made = TRUE, !.awaiting = TRUE, !.link = l]
          PROVE  client' \in Clients
      BY <3>3 DEF NoClient, Clients
    <3> QED BY <2>1, <3>2, <3>3 DEF Connect
  <2>2. client' \in Clients
    BY <1>2, <2>1 DEF ProbeOk, TypeOK
  <2>3. link' \in [Links -> {"unused", "opening", "open", "down", "closed"}]
    BY <1>2 DEF ProbeOk, Connect, TypeOK
  <2> QED BY <1>2, <2>2, <2>3 DEF ProbeOk, Connect, TypeOK, callVars
<1>3. CASE RegisterTimeout
  BY <1>3, TeardownTyped DEF RegisterTimeout, TypeOK
<1>4. CASE Dispose
  <2>1. link' \in [Links -> {"unused", "opening", "open", "down", "closed"}]
    BY <1>4, ShutTyped DEF Dispose
  <2> QED BY <1>4, <2>1, NoClientTyped DEF Dispose, SettleAll, TypeOK
<1>5. ASSUME NEW l \in Links, LinkOpens(l) \/ LinkBreaks(l) PROVE TypeOK'
  <2>1. client' \in Clients
    BY <1>5 DEF LinkOpens, LinkBreaks, TypeOK, Clients
  <2>2. down' \in [Links -> Seq(Frames)]
    <3>1. CASE down' = down
      BY <3>1 DEF TypeOK
    <3>2. CASE down' = [down EXCEPT ![l] = <<>>]
      BY <3>2, NoFrames DEF TypeOK
    <3> QED BY <1>5, <3>1, <3>2 DEF LinkOpens, LinkBreaks
  <2> QED BY <1>5, <2>1, <2>2 DEF LinkOpens, LinkBreaks, TypeOK, callVars
<1>6. ASSUME NEW l \in Links, HandleClose(l) PROVE TypeOK'
  <2>1. CASE ~client.registered
    BY <1>6, <2>1, TeardownTyped DEF HandleClose, TypeOK
  <2>2. CASE client.registered
    <3>1. client' \in Clients
      BY ZenonT(60), <1>6, <2>2 DEF HandleClose, TypeOK, Clients
    <3> QED BY <1>6, <2>2, <3>1, ShutTyped DEF HandleClose, SettleAll, TypeOK
  <2> QED BY <2>1, <2>2
<1>7. CASE Reopen
  <2>1. client' \in Clients
    BY <1>7 DEF Reopen, TypeOK, Clients
  <2> QED BY <1>7, <2>1 DEF Reopen, TypeOK, callVars
<1>8. ASSUME NEW l \in Links, Registered(l) PROVE TypeOK'
  <2>1. client' \in Clients
    BY <1>8 DEF Registered, TypeOK, Clients
  <2>2. down' \in [Links -> Seq(Frames)]
    BY <1>8, ReceivesTyped DEF Registered
  <2>3. /\ pipeline' \in [Activations -> {"idle", "probing", "waiting", "done"}]
        /\ state' \in {"dormant", "probing", "connecting", "connected", "failed"}
    BY <1>8, ResumeTyped DEF Registered
  <2> QED BY <1>8, <2>1, <2>2, <2>3 DEF Registered, Receives, TypeOK, callVars
<1>9. ASSUME NEW l \in Links, TerminalError(l) PROVE TypeOK'
  <2>1. down' \in [Links -> Seq(Frames)] /\ UNCHANGED <<disposed, asked, running, answered>>
    BY <1>9, ReceivesTyped DEF TerminalError, Receives
  <2>2. CASE client.awaiting
    BY <1>9, <2>1, <2>2, TeardownTyped DEF TerminalError
  <2>3. CASE ~client.awaiting
    <3>1. client' \in Clients
      BY <1>9, <2>3, Stopped DEF TerminalError, TypeOK
    <3> QED BY <1>9, <2>1, <2>3, <3>1 DEF TerminalError, SettleAll, TypeOK
  <2> QED BY <2>2, <2>3
<1>10. ASSUME NEW l \in Links, ToolCall(l) \/ ToolCancel(l) \/ TargetRevoke(l) PROVE TypeOK'
  <2>1. down' \in [Links -> Seq(Frames)]
    BY <1>10, ReceivesTyped DEF ToolCall, ToolCancel, TargetRevoke
  <2>2. CASE ToolCall(l)
    <3>1. Head(down[l]).call \in Calls
      BY <2>2, ReceivesTyped DEF ToolCall
    <3> QED BY <2>1, <2>2, <3>1 DEF ToolCall, Receives, TypeOK
  <2>3. CASE ToolCancel(l) \/ TargetRevoke(l)
    BY <2>1, <2>3 DEF ToolCancel, TargetRevoke, Receives, SettleAll, TypeOK
  <2> QED BY <1>10, <2>2, <2>3
<1>11. ASSUME NEW c \in Calls, NEW ok \in BOOLEAN, ToolEnds(c, ok) PROVE TypeOK'
  <2>1. client.link \in Links \cup {0}
    BY DEF TypeOK, Clients
  <2> QED BY <1>11, <2>1 DEF ToolEnds, TypeOK, socketVars
<1>12. ASSUME NEW l \in Links, NEW f \in Frames, NEW note, BrokerSends(l, f, note)
       PROVE  TypeOK'
  BY <1>12 DEF BrokerSends, TypeOK, callVars
<1>13. CASE BrokerStep
  <2>1. /\ Notice("registered") \in Frames /\ Notice("error") \in Frames
        /\ Notice("revoke") \in Frames
        /\ \A c \in Calls : Frame("call", c) \in Frames /\ Frame("cancel", c) \in Frames
    BY DEF Notice, Frame, Frames
  <2> QED BY <1>12, <1>13, <2>1
          DEF BrokerStep, BrokerRegisters, BrokerRejects, BrokerRevokes, BrokerCalls, BrokerCancels
<1>14. CASE UNCHANGED vars
  BY <1>14 DEF vars, socketVars, callVars, TypeOK
<1> QED BY <1>1, <1>2, <1>3, <1>4, <1>5, <1>6, <1>7, <1>8, <1>9, <1>10, <1>11, <1>13, <1>14
        DEF Next, ActivationStep, SocketStep, ToolStep

-----------------------------------------------------------------------------
(* The page's one link, and what is in flight on it.                       *)

LEMMA TeardownPlace ==
  ASSUME TypeOK, Place, NEW l \in Links \cup {0}, l = client.link,
         client' = NoClient, link' = Shut(l), SettleAll
  PROVE  Place'
<1>1. \A k \in Links : link'[k] \notin {"opening", "open", "down"}
  BY ShutTyped DEF Place, HeldIsOurs
<1>2. inFlight' = {}
  BY DEF SettleAll
<1>3. HeldIsOurs'
  BY <1>1 DEF HeldIsOurs
<1>4. NothingLeft' /\ FlightIsHere'
  BY <1>2, NoClientTyped DEF NothingLeft, FlightIsHere
<1> QED BY <1>3, <1>4 DEF Place

(* A step that leaves the client and the calls and opens no link.          *)
LEMMA QuietPlace ==
  ASSUME Place, UNCHANGED <<client, disposed, asked>>, inFlight' \subseteq inFlight,
         \A k \in Links : link'[k] = link[k] \/ link[k] \in {"opening", "open", "down"}
  PROVE  Place'
<1>1. HeldIsOurs'
  BY DEF Place, HeldIsOurs
<1>2. NothingLeft' /\ FlightIsHere'
  BY DEF Place, NothingLeft, FlightIsHere
<1> QED BY <1>1, <1>2 DEF Place

LEMMA PlaceStep == TypeOK /\ Place /\ [Next]_vars => Place'
<1> SUFFICES ASSUME TypeOK, Place, [Next]_vars PROVE Place'
  OBVIOUS
<1>0. client \in Clients /\ client.link \in Links \cup {0}
      /\ link \in [Links -> {"unused", "opening", "open", "down", "closed"}]
  BY DEF TypeOK, Clients
<1>1. ASSUME NEW a \in Activations, Activate(a) \/ ProbeFails(a) PROVE Place'
  BY <1>1, QuietPlace DEF Activate, ProbeFails, socketVars, callVars
<1>2. ASSUME NEW a \in Activations, ProbeOk(a) PROVE Place'
  <2>1. CASE UNCHANGED <<client, link>>
    BY <1>2, <2>1, QuietPlace DEF ProbeOk, callVars
  <2>2. ASSUME NEW l \in Links, ~client.made, Unused(l), ~disposed,
               client' = [NoClient EXCEPT !.made = TRUE, !.awaiting = TRUE, !.link = l],
               link' = [link EXCEPT ![l] = "opening"]
        PROVE  Place'
    <3>1. client'.made /\ client'.link = l /\ ~client'.retry
      BY <2>2 DEF NoClient
    <3>2. inFlight' = {} /\ disposed' = disposed
      BY <1>2, <2>2 DEF ProbeOk, callVars, Place, NothingLeft
    <3>3. HeldIsOurs'
      BY <1>0, <2>2, <3>1 DEF Place, HeldIsOurs
    <3>4. NothingLeft' /\ FlightIsHere'
      BY <2>2, <3>1, <3>2 DEF NothingLeft, FlightIsHere
    <3> QED BY <3>3, <3>4 DEF Place
  <2> QED BY <1>2, <2>1, <2>2 DEF ProbeOk, Connect
<1>3. CASE RegisterTimeout
  BY <1>0, <1>3, TeardownPlace DEF RegisterTimeout, Teardown
<1>4. CASE Dispose
  BY <1>0, <1>4, TeardownPlace DEF Dispose
<1>5. ASSUME NEW l \in Links, LinkOpens(l) PROVE Place'
  <2>1. client.made /\ client.link = l /\ ~client.retry
    BY <1>5 DEF LinkOpens, Place, HeldIsOurs
  <2>2. client'.made /\ client'.link = client.link /\ ~client'.retry
    BY <1>0, <1>5, <2>1 DEF LinkOpens, Clients
  <2>3. HeldIsOurs'
    BY <1>0, <1>5, <2>1, <2>2 DEF LinkOpens, Place, HeldIsOurs
  <2>4. NothingLeft' /\ FlightIsHere'
    BY <1>5, <2>1, <2>2 DEF LinkOpens, callVars, Place, NothingLeft, FlightIsHere
  <2> QED BY <2>3, <2>4 DEF Place
<1>6. ASSUME NEW l \in Links, LinkBreaks(l) PROVE Place'
  BY <1>0, <1>6, QuietPlace DEF LinkBreaks, callVars
<1>7. ASSUME NEW l \in Links, HandleClose(l) PROVE Place'
  <2>0. client.made /\ client.link = l
    BY <1>7 DEF HandleClose, Place, HeldIsOurs
  <2>1. CASE ~client.registered
    BY <1>0, <1>7, <2>1, TeardownPlace DEF HandleClose, Teardown
  <2>2. CASE client.registered
    <3>1. /\ link' = Shut(l) /\ inFlight' = {} /\ disposed' = disposed
          /\ client' = [client EXCEPT !.connected = FALSE, !.retry = ~client.stop]
      BY <1>7, <2>2 DEF HandleClose, SettleAll
    <3>2. client'.made /\ client'.link = l
      BY <1>0, <2>0, <3>1 DEF Clients
    <3>3. \A k \in Links : link'[k] \notin {"opening", "open", "down"}
      BY <2>0, <3>1, ShutTyped DEF Place, HeldIsOurs
    <3>4. HeldIsOurs'
      BY <3>3 DEF HeldIsOurs
    <3>5. NothingLeft' /\ FlightIsHere'
      BY <2>0, <3>1, <3>2 DEF Place, NothingLeft, FlightIsHere
    <3> QED BY <3>4, <3>5 DEF Place
  <2> QED BY <2>1, <2>2
<1>8. CASE Reopen
  <2>1. PICK l \in Links : /\ Unused(l) /\ link' = [link EXCEPT ![l] = "opening"]
                           /\ client' = [client EXCEPT !.retry = FALSE, !.link = l]
    BY <1>8 DEF Reopen
  <2>2. client.retry /\ inFlight' = inFlight /\ disposed' = disposed
    BY <1>8 DEF Reopen, callVars
  <2>3. /\ client.made /\ inFlight = {} /\ ~disposed
        /\ \A k \in Links : link[k] \notin {"opening", "open", "down"}
    BY <2>2, NoClientTyped DEF Place, NothingLeft, HeldIsOurs
  <2>4. client'.made /\ client'.link = l /\ ~client'.retry
    BY <1>0, <2>1, <2>3 DEF Clients
  <2>5. HeldIsOurs'
    BY <1>0, <2>1, <2>3, <2>4 DEF HeldIsOurs
  <2>6. NothingLeft' /\ FlightIsHere'
    BY <2>2, <2>3, <2>4 DEF NothingLeft, FlightIsHere
  <2> QED BY <2>5, <2>6 DEF Place
<1>9. ASSUME NEW l \in Links, Registered(l) PROVE Place'
  <2>1. /\ client' = [client EXCEPT !.registered = TRUE, !.awaiting = FALSE]
        /\ UNCHANGED <<link, disposed, inFlight, asked>> /\ link[l] = "open"
    BY <1>9 DEF Registered, Receives, callVars
  <2>2. /\ client'.made = client.made /\ client'.link = client.link
        /\ client'.retry = client.retry
    BY <1>0, <2>1 DEF Clients
  <2>3. client.made
    BY <2>1 DEF Place, HeldIsOurs
  <2>4. HeldIsOurs'
    BY <2>1, <2>2 DEF Place, HeldIsOurs
  <2>5. NothingLeft' /\ FlightIsHere'
    BY <2>1, <2>2, <2>3 DEF Place, NothingLeft, FlightIsHere
  <2> QED BY <2>4, <2>5 DEF Place
<1>10. ASSUME NEW l \in Links, TerminalError(l) PROVE Place'
  <2>1. CASE client.awaiting
    BY <1>0, <1>10, <2>1, TeardownPlace DEF TerminalError, Teardown
  <2>2. CASE ~client.awaiting
    <3>1. /\ client' = [client EXCEPT !.stop = TRUE] /\ link[l] = "open"
          /\ link' = [link EXCEPT ![l] = "down"] /\ inFlight' = {} /\ disposed' = disposed
      BY <1>10, <2>2 DEF TerminalError, Receives, SettleAll
    <3>2. /\ client'.made = client.made /\ client'.link = client.link
          /\ client'.retry = client.retry
      BY <1>0, <3>1 DEF Clients
    <3>3. client.made /\ client.link = l /\ ~client.retry
      BY <3>1 DEF Place, HeldIsOurs
    <3>4. HeldIsOurs'
      BY <1>0, <3>1, <3>2, <3>3 DEF Place, HeldIsOurs
    <3>5. NothingLeft' /\ FlightIsHere'
      BY <3>1, <3>2, <3>3 DEF Place, NothingLeft, FlightIsHere
    <3> QED BY <3>4, <3>5 DEF Place
  <2> QED BY <2>1, <2>2
<1>11. ASSUME NEW l \in Links, ToolCall(l) PROVE Place'
  <2> DEFINE c == Head(down[l]).call
  <2>1. /\ link[l] = "open" /\ c \in Calls /\ asked' = [asked EXCEPT ![c] = l]
        /\ inFlight' = inFlight \cup {c} /\ UNCHANGED <<client, link, disposed>>
    BY <1>11, ReceivesTyped DEF ToolCall, Receives
  <2>2. client.made /\ client.link = l /\ ~client.retry
    BY <2>1 DEF Place, HeldIsOurs
  <2> HIDE DEF c
  <2>3. HeldIsOurs' /\ NothingLeft'
    BY <2>1, <2>2 DEF Place, HeldIsOurs, NothingLeft
  <2>4. FlightIsHere'
    BY <2>1, <2>2 DEF Place, FlightIsHere, TypeOK
  <2> QED BY <2>3, <2>4 DEF Place
<1>12. ASSUME NEW l \in Links, ToolCancel(l) \/ TargetRevoke(l) PROVE Place'
  BY <1>12, QuietPlace DEF ToolCancel, TargetRevoke, Receives, SettleAll
<1>13. ASSUME NEW c \in Calls, NEW ok \in BOOLEAN, ToolEnds(c, ok) PROVE Place'
  BY <1>13, QuietPlace DEF ToolEnds, socketVars
<1>14. CASE BrokerStep
  BY <1>14, QuietPlace
     DEF BrokerStep, BrokerRegisters, BrokerRejects, BrokerRevokes, BrokerCalls, BrokerCancels,
         BrokerSends, callVars
<1>15. CASE UNCHANGED vars
  BY <1>15, QuietPlace DEF vars, socketVars, callVars
<1> QED BY <1>1, <1>2, <1>3, <1>4, <1>5, <1>6, <1>7, <1>8, <1>9, <1>10, <1>11, <1>12, <1>13,
           <1>14, <1>15
        DEF Next, ActivationStep, SocketStep, ToolStep

-----------------------------------------------------------------------------
(* Calls on their way, and answers.                                        *)

(* A wire that got no call: as it was, emptied, read or sent a notice.     *)
NoCallSent(l) ==
    \/ down'[l] = down[l]
    \/ down'[l] = <<>>
    \/ down[l] # <<>> /\ down'[l] = Tail(down[l])
    \/ \E f \in Frames : down'[l] = Append(down[l], f) /\ f.type # "call"

Read(l) == IF down[l] # <<>> /\ down'[l] = Tail(down[l]) THEN 1 ELSE 0

(* Its calls were there before, possibly one place further back.           *)
LEMMA Earlier ==
  ASSUME TypeOK, NEW l \in Links, NoCallSent(l), NEW c,
         NEW i \in 1 .. Len(down'[l]), Calling(l, i, c)'
  PROVE  i + Read(l) \in 1 .. Len(down[l]) /\ Calling(l, i + Read(l), c)
<1>0. down[l] \in Seq(Frames) /\ Len(down[l]) \in Nat
  BY DEF TypeOK
<1>1. CASE down[l] # <<>> /\ down'[l] = Tail(down[l])
  <2>1. Len(down'[l]) = Len(down[l]) - 1 /\ Tail(down[l])[i] = down[l][i + 1]
    BY <1>0, <1>1
  <2> QED BY <1>0, <1>1, <2>1 DEF Calling, Read
<1>2. CASE ~(down[l] # <<>> /\ down'[l] = Tail(down[l]))
  <2>1. Read(l) = 0 /\ i + Read(l) = i
    BY <1>0, <1>2 DEF Read
  <2>2. CASE down'[l] = down[l]
    BY <2>1, <2>2 DEF Calling
  <2>3. CASE down'[l] = <<>>
    BY <2>3
  <2>4. ASSUME NEW f \in Frames, down'[l] = Append(down[l], f), f.type # "call"
        PROVE  i \in 1 .. Len(down[l]) /\ Calling(l, i, c)
    <3>1. /\ Len(down'[l]) = Len(down[l]) + 1 /\ down'[l][Len(down[l]) + 1] = f
          /\ \A j \in 1 .. Len(down[l]) : down'[l][j] = down[l][j]
      BY <1>0, <2>4
    <3>2. i # Len(down[l]) + 1
      BY <2>4, <3>1 DEF Calling
    <3> QED BY <1>0, <3>1, <3>2 DEF Calling
  <2> QED BY <1>2, <2>1, <2>2, <2>3, <2>4 DEF NoCallSent
<1> QED BY <1>1, <1>2

LEMMA KeptCalls ==
  ASSUME TypeOK, CalledOnce, sent \subseteq sent', \A l \in Links : NoCallSent(l),
         \A c \in Calls :
            \/ asked'[c] = asked[c]
            \/ /\ Frame("call", c) \in sent
               /\ \A l \in Links : \A i \in 1 .. Len(down'[l]) : ~Calling(l, i, c)'
  PROVE  CalledOnce'
<1> SUFFICES ASSUME NEW c \in Calls
             PROVE  /\ asked'[c] # 0 => Frame("call", c) \in sent'
                    /\ \A l \in Links : \A i \in 1 .. Len(down'[l]) : Calling(l, i, c)' =>
                         /\ asked'[c] = 0 /\ Frame("call", c) \in sent'
                         /\ \A m \in Links : \A j \in 1 .. Len(down'[m]) :
                              Calling(m, j, c)' => m = l /\ j = i
  BY DEF CalledOnce
<1>1. asked'[c] # 0 => Frame("call", c) \in sent'
  BY DEF CalledOnce
<1>2. ASSUME NEW l \in Links, NEW i \in 1 .. Len(down'[l]), Calling(l, i, c)'
      PROVE  /\ asked'[c] = 0 /\ Frame("call", c) \in sent'
             /\ \A m \in Links : \A j \in 1 .. Len(down'[m]) :
                  Calling(m, j, c)' => m = l /\ j = i
  <2>1. i + Read(l) \in 1 .. Len(down[l]) /\ Calling(l, i + Read(l), c)
    BY <1>2, Earlier
  <2>2. asked'[c] = 0 /\ Frame("call", c) \in sent'
    BY <1>2, <2>1 DEF CalledOnce
  <2>3. ASSUME NEW m \in Links, NEW j \in 1 .. Len(down'[m]), Calling(m, j, c)'
        PROVE  m = l /\ j = i
    <3>1. j + Read(m) \in 1 .. Len(down[m]) /\ Calling(m, j + Read(m), c)
      BY <2>3, Earlier
    <3>2. m = l /\ j + Read(m) = i + Read(l)
      BY <2>1, <3>1 DEF CalledOnce
    <3>3. Read(l) \in Nat
      BY DEF Read
    <3> QED BY <3>2, <3>3
  <2> QED BY <2>2, <2>3
<1> QED BY <1>1, <1>2

(* The call the page reads is on no wire any more.                         *)
LEMMA CallRead ==
  ASSUME TypeOK, CalledOnce, NEW l \in Links, ToolCall(l)
  PROVE  CalledOnce'
<1>0. PICK c : c = Head(down[l]).call
  OBVIOUS
<1>1. /\ down[l] \in Seq(Frames) /\ down[l] # <<>> /\ c \in Calls
      /\ Head(down[l]).type = "call" /\ down'[l] = Tail(down[l])
      /\ \A m \in Links : m # l => down'[m] = down[m]
      /\ asked' = [asked EXCEPT ![c] = l] /\ sent' = sent
  BY <1>0, ReceivesTyped DEF ToolCall, Receives
<1>2. Head(down[l]) = down[l][1] /\ 1 \in 1 .. Len(down[l]) /\ Calling(l, 1, c)
  BY <1>0, <1>1 DEF Calling
<1>3. Frame("call", c) \in sent
  BY <1>1, <1>2 DEF CalledOnce
<1>4. \A m \in Links : NoCallSent(m)
  BY <1>1 DEF NoCallSent
<1>5. ASSUME NEW m \in Links, NEW i \in 1 .. Len(down'[m]), Calling(m, i, c)'
      PROVE  FALSE
  <2>1. i + Read(m) \in 1 .. Len(down[m]) /\ Calling(m, i + Read(m), c)
    BY <1>4, <1>5, Earlier
  <2>2. m = l /\ i + Read(m) = 1
    BY <1>1, <1>2, <2>1 DEF CalledOnce
  <2>3. Read(m) = 1
    BY <1>1, <2>2 DEF Read
  <2> QED BY <2>2, <2>3
<1>6. \A d \in Calls : d # c => asked'[d] = asked[d]
  BY <1>1 DEF TypeOK
<1> QED BY <1>1, <1>3, <1>4, <1>5, <1>6, KeptCalls

(* The call the broker sends is on no other wire.                          *)
LEMMA CallSent ==
  ASSUME TypeOK, CalledOnce, NEW l \in Links, NEW c \in Calls, BrokerCalls(l, c)
  PROVE  CalledOnce'
<1>n. PICK n : n = Len(down[l]) + 1
  OBVIOUS
<1>0. down[l] \in Seq(Frames) /\ Len(down[l]) \in Nat /\ Frame("call", c) \notin sent
  BY DEF TypeOK, BrokerCalls
<1>1. /\ down'[l] = Append(down[l], Frame("call", c))
      /\ \A m \in Links : m # l => down'[m] = down[m]
      /\ asked' = asked /\ sent' = sent \cup {Frame("call", c)}
  BY DEF BrokerCalls, BrokerSends, callVars, TypeOK
<1>2. /\ Len(down'[l]) = n /\ down'[l][n] = Frame("call", c)
      /\ \A i \in 1 .. Len(down[l]) : down'[l][i] = down[l][i]
  BY <1>n, <1>0, <1>1
<1>3. \A d : Calling(l, n, d)' => d = c
  BY <1>2 DEF Calling, Frame
<1>4. /\ asked[c] = 0
      /\ \A m \in Links : \A i \in 1 .. Len(down[m]) : ~Calling(m, i, c)
  BY <1>0 DEF CalledOnce
<1>5. ASSUME NEW m \in Links, NEW i \in 1 .. Len(down'[m]), NEW d, Calling(m, i, d)'
      PROVE  \/ d = c /\ m = l /\ i = n
             \/ d # c /\ i \in 1 .. Len(down[m]) /\ Calling(m, i, d)
  <2>1. CASE m = l /\ i = n
    BY <1>3, <1>5, <2>1
  <2>2. CASE m = l /\ i # n
    <3>1. i \in 1 .. Len(down[l])
      BY <1>n, <1>0, <1>2, <1>5, <2>2
    <3>2. Calling(l, i, d)
      BY <1>2, <1>5, <2>2, <3>1 DEF Calling
    <3> QED BY <1>4, <2>2, <3>1, <3>2
  <2>3. CASE m # l
    <3>1. Calling(m, i, d) /\ i \in 1 .. Len(down[m])
      BY <1>1, <1>5, <2>3 DEF Calling
    <3> QED BY <1>4, <3>1
  <2> QED BY <2>1, <2>2, <2>3
<1>6. ASSUME NEW d \in Calls
      PROVE  /\ asked'[d] # 0 => Frame("call", d) \in sent'
             /\ \A m \in Links : \A i \in 1 .. Len(down'[m]) : Calling(m, i, d)' =>
                  /\ asked'[d] = 0 /\ Frame("call", d) \in sent'
                  /\ \A k \in Links : \A j \in 1 .. Len(down'[k]) :
                       Calling(k, j, d)' => k = m /\ j = i
  BY <1>1, <1>4, <1>5 DEF CalledOnce
<1> QED BY <1>6 DEF CalledOnce

LEMMA CallsStep == TypeOK /\ CalledOnce /\ [Next]_vars => CalledOnce'
<1> SUFFICES ASSUME TypeOK, CalledOnce, [Next]_vars PROVE CalledOnce'
  OBVIOUS
<1>1. ASSUME UNCHANGED <<asked, sent, down>> PROVE CalledOnce'
  BY <1>1, KeptCalls DEF NoCallSent
<1>2. ASSUME NEW l \in Links, NEW type, Receives(l, type), UNCHANGED asked PROVE CalledOnce'
  BY <1>2, KeptCalls, ReceivesTyped DEF NoCallSent, Receives
<1>3. ASSUME NEW l \in Links, LinkBreaks(l) PROVE CalledOnce'
  <2>1. \A m \in Links : NoCallSent(m)
    BY <1>3 DEF LinkBreaks, NoCallSent, TypeOK
  <2> QED BY <1>3, <2>1, KeptCalls DEF LinkBreaks, callVars
<1>4. ASSUME NEW l \in Links, NEW f \in Frames, f.type # "call", NEW note, BrokerSends(l, f, note)
      PROVE  CalledOnce'
  <2>1. \A m \in Links : NoCallSent(m)
    BY <1>4 DEF BrokerSends, NoCallSent, TypeOK
  <2> QED BY <1>4, <2>1, KeptCalls DEF BrokerSends, callVars
<1>5. ASSUME NEW a \in Activations, Activate(a) \/ ProbeFails(a) \/ ProbeOk(a) PROVE CalledOnce'
  BY <1>1, <1>5 DEF Activate, ProbeFails, ProbeOk, socketVars, callVars
<1>6. CASE RegisterTimeout \/ Dispose \/ Reopen
  BY <1>1, <1>6 DEF RegisterTimeout, Dispose, Reopen, callVars
<1>7. ASSUME NEW l \in Links, LinkOpens(l) \/ HandleClose(l) PROVE CalledOnce'
  BY <1>1, <1>7 DEF LinkOpens, HandleClose, callVars
<1>8. ASSUME NEW l \in Links,
             Registered(l) \/ TerminalError(l) \/ ToolCancel(l) \/ TargetRevoke(l)
      PROVE  CalledOnce'
  BY <1>2, <1>8 DEF Registered, TerminalError, ToolCancel, TargetRevoke, callVars
<1>9. ASSUME NEW c \in Calls, NEW ok \in BOOLEAN, ToolEnds(c, ok) PROVE CalledOnce'
  BY <1>1, <1>9 DEF ToolEnds, socketVars
<1>10. CASE BrokerStep
  <2>1. /\ Notice("registered") \in Frames /\ Notice("registered").type # "call"
        /\ Notice("error") \in Frames /\ Notice("error").type # "call"
        /\ Notice("revoke") \in Frames /\ Notice("revoke").type # "call"
        /\ \A c \in Calls : Frame("cancel", c) \in Frames /\ Frame("cancel", c).type # "call"
    BY DEF Notice, Frame, Frames
  <2>2. PICK l \in Links :
          \/ BrokerRegisters(l) \/ BrokerRejects(l) \/ BrokerRevokes(l)
          \/ \E c \in Calls : BrokerCalls(l, c) \/ BrokerCancels(l, c)
    BY <1>10 DEF BrokerStep
  <2>3. CASE BrokerRegisters(l) \/ BrokerRejects(l) \/ BrokerRevokes(l)
    BY <1>4, <2>1, <2>3 DEF BrokerRegisters, BrokerRejects, BrokerRevokes
  <2>4. ASSUME NEW c \in Calls, BrokerCancels(l, c) PROVE CalledOnce'
    BY <1>4, <2>1, <2>4 DEF BrokerCancels
  <2> QED BY <2>2, <2>3, <2>4, CallSent
<1>11. CASE UNCHANGED vars
  BY <1>1, <1>11 DEF vars, socketVars, callVars
<1>12. ASSUME NEW l \in Links, ToolCall(l) PROVE CalledOnce'
  BY <1>12, CallRead
<1>13. CASE ActivationStep
  BY <1>5, <1>6, <1>13 DEF ActivationStep
<1>14. CASE SocketStep
  BY <1>3, <1>6, <1>7, <1>8, <1>12, <1>14 DEF SocketStep
<1> QED BY <1>9, <1>10, <1>11, <1>13, <1>14 DEF Next, ToolStep

LEMMA AnswersStep == IInv /\ [Next]_vars => AnsweredWhereAsked'
<1> SUFFICES ASSUME IInv, [Next]_vars PROVE AnsweredWhereAsked'
  OBVIOUS
<1> USE DEF IInv
<1>1. ASSUME UNCHANGED <<asked, answered>> PROVE AnsweredWhereAsked'
  BY <1>1 DEF AnsweredWhereAsked
<1>2. ASSUME NEW l \in Links, ToolCall(l) PROVE AnsweredWhereAsked'
  <2>1. PICK c : c = Head(down[l]).call
    OBVIOUS
  <2>2. /\ down[l] \in Seq(Frames) /\ down[l] # <<>> /\ c \in Calls
        /\ Head(down[l]).type = "call"
        /\ asked' = [asked EXCEPT ![c] = l] /\ answered' = answered
    BY <1>2, <2>1, ReceivesTyped DEF ToolCall
  <2>3. 1 \in 1 .. Len(down[l]) /\ Calling(l, 1, c)
    BY <2>1, <2>2 DEF Calling
  <2>4. asked[c] = 0
    BY <2>2, <2>3 DEF CalledOnce
  <2> QED BY <2>2, <2>4 DEF AnsweredWhereAsked, TypeOK
<1>3. ASSUME NEW c \in Calls, NEW ok \in BOOLEAN, ToolEnds(c, ok) PROVE AnsweredWhereAsked'
  <2>1. c \in inFlight => asked[c] = client.link
    BY DEF Place, FlightIsHere
  <2> QED BY <1>3, <2>1 DEF ToolEnds, AnsweredWhereAsked, TypeOK
<1>4. CASE ActivationStep
  BY <1>1, <1>4 DEF ActivationStep, Activate, ProbeFails, ProbeOk, RegisterTimeout, Dispose, callVars
<1>5. ASSUME NEW l \in Links,
             \/ LinkOpens(l) \/ LinkBreaks(l) \/ HandleClose(l) \/ Registered(l)
             \/ TerminalError(l) \/ ToolCancel(l) \/ TargetRevoke(l)
      PROVE  AnsweredWhereAsked'
  BY <1>1, <1>5 DEF LinkOpens, LinkBreaks, HandleClose, Registered, TerminalError, ToolCancel,
                    TargetRevoke, callVars
<1>6. CASE Reopen
  BY <1>1, <1>6 DEF Reopen, callVars
<1>7. CASE BrokerStep
  BY <1>1, <1>7 DEF BrokerStep, BrokerRegisters, BrokerRejects, BrokerRevokes, BrokerCalls,
                    BrokerCancels, BrokerSends, callVars
<1>8. CASE UNCHANGED vars
  BY <1>1, <1>8 DEF vars, callVars
<1> QED BY <1>2, <1>3, <1>4, <1>5, <1>6, <1>7, <1>8 DEF Next, SocketStep, ToolStep

LEMMA InvAlways == Spec => []IInv
<1>1. IInv /\ [Next]_vars => IInv'
  BY TypeStep, PlaceStep, CallsStep, AnswersStep DEF IInv
<1> QED BY <1>1, InitInv, PTL DEF Spec

(* For any activations, calls and sockets the page's state keeps its types.*)
THEOREM TypeCorrect == Spec => []TypeOK
<1>1. IInv => TypeOK
  BY DEF IInv
<1> QED BY <1>1, InvAlways, PTL

(* However often the page reconnects, whatever ends late or is aborted, a  *)
(* result goes out only on the connection its call came from.              *)
THEOREM AnsweredCorrect == Spec => []AnsweredWhereAsked
<1>1. IInv => AnsweredWhereAsked
  BY DEF IInv
<1> QED BY <1>1, InvAlways, PTL

(* Overlapping activations, failed registrations and backoffs never give   *)
(* the page a second connection.                                           *)
THEOREM OneConnectionCorrect == Spec => []OneConnection
<1>1. ASSUME IInv PROVE OneConnection
  <2> DEFINE held == {l \in Links : link[l] \in {"opening", "open", "down"}}
  <2>1. held \subseteq {client.link} /\ (client.retry => held = {})
    BY <1>1 DEF IInv, Place, HeldIsOurs
  <2>2. Cardinality(held) <= 1
    <3>1. IsFiniteSet({client.link}) /\ Cardinality({client.link}) = 1
      BY FS_Singleton
    <3> HIDE DEF held
    <3>2. Cardinality(held) <= Cardinality({client.link})
      BY <2>1, <3>1, FS_Subset
    <3> QED BY <3>1, <3>2
  <2> QED BY <2>1, <2>2 DEF OneConnection
<1> QED BY <1>1, InvAlways, PTL

(* Nothing a pipeline, a timer or a socket does later revives a runtime    *)
(* that was disposed.                                                      *)
THEOREM DisposedCorrect == Spec => []DisposedIsQuiet
<1>1. ASSUME IInv PROVE DisposedIsQuiet
  BY <1>1 DEF IInv, Place, HeldIsOurs, NothingLeft, TypeOK, DisposedIsQuiet
<1> QED BY <1>1, InvAlways, PTL
=============================================================================
