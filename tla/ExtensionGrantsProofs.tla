----------------------- MODULE ExtensionGrantsProofs -----------------------
(***************************************************************************)
(* The extension's grants for every value of the constants: the vault that *)
(* times them out implements Lease (GrantVault), and what panels, client   *)
(* and host know of them never comes apart unaccounted (BridgeRouter).     *)
(* Two specifications over the same grants: nothing here is about both.    *)
(***************************************************************************)
EXTENDS GrantVault, BridgeRouter, FiniteSetTheorems, FunctionTheorems, TLAPS

-----------------------------------------------------------------------------
(* The router: what its state is made of *)

USE SocketAssumption, RouterAssumption

FrameTypes ==
    {"hello", "put", "revoke", "expired", "ok", "accepted", "error", "call", "bye"}
Frames == [type : FrameTypes, grant : Grants \cup {0}, id : Sockets \cup {0}]

Reasons == {"no", "lost", "terminal", "overtaken", "timeout", "refused", "changed"}

(* A frame that names a grant is nothing but its type and the grant; only  *)
(* an acceptance names the connection as well, and so does a welcome.      *)
WellFormed(f) ==
    /\ f.type \in {"put", "revoke", "expired", "call"} =>
          f.grant \in Grants /\ f = About(f.type, f.grant)
    /\ f.type = "accepted" => f.grant \in Grants
    /\ f.type \in {"ok", "accepted"} => f.id # 0

GoodFrames == {f \in Frames : WellFormed(f)}
Line == Seq(GoodFrames)

GrantSets == SUBSET Grants
Mail == [Sockets -> Line]

Clients ==
    [state : ClientStates, socket : Sockets \cup {0}, owned : BOOLEAN,
     lastId : Sockets \cup {0}, queued : GrantSets,
     ws : [Sockets -> Transports], up : [Sockets -> Line]]

Hosts ==
    [live : Sockets \cup {0}, id : Sockets \cup {0},
     records : GrantSets, outbox : GrantSets]

Types ==
    /\ panel \in [Panels -> {"new", "open", "closed"}]
    /\ net \in Clients
    /\ down \in Mail
    /\ host \in Hosts /\ (host.live # 0 => host.id # 0)
    /\ restarts \in Nat
    /\ asker \in [Grants -> Panels \cup {NoPanel}]
    /\ reading \in GrantSets /\ asked \in GrantSets
    /\ offered \in GrantSets /\ bound \in GrantSets
    /\ vault \in [Grants -> {"none", "issued", "accepted", "gone"}]
    /\ session \in [Grants -> Nat]
    /\ missed \in [Grants -> Reasons]
    /\ unheard \in GrantSets

(* Nothing is queued once there is someone to tell, or nobody to ask.      *)
Drained == Connected(net) \/ ~net.owned => net.queued = {}

(* Frame f waits in the line q.                                            *)
Waits(q, f) == \E i \in DOMAIN q : q[i] = f

-----------------------------------------------------------------------------
(* Frames and lines *)

LEMMA FrameIs ==
    ASSUME NEW f \in GoodFrames
    PROVE  /\ f.type \in FrameTypes /\ f.grant \in Grants \cup {0} /\ f.id \in Sockets \cup {0}
           /\ f.type \in {"put", "revoke", "expired", "call"} =>
                f.grant \in Grants /\ f = About(f.type, f.grant)
           /\ f.type = "accepted" => f.grant \in Grants
           /\ f.type \in {"ok", "accepted"} => f.id # 0
  BY DEF GoodFrames, Frames, WellFormed

LEMMA AboutIs ==
    ASSUME NEW g \in Grants, NEW type \in FrameTypes, type \notin {"ok", "accepted"}
    PROVE  /\ About(type, g) \in GoodFrames
           /\ About(type, g).type = type /\ About(type, g).grant = g
  BY DEF About, Frame, Frames, FrameTypes, GoodFrames, WellFormed

LEMMA FramesOfHost ==
    /\ Hello \in GoodFrames /\ Hello.type = "hello"
    /\ \A type \in {"bye", "error"} :
          Frame(type, 0, 0) \in GoodFrames /\ Frame(type, 0, 0).type = type
    /\ \A i \in Sockets : /\ Frame("ok", 0, i) \in GoodFrames
                          /\ Frame("ok", 0, i).type = "ok" /\ Frame("ok", 0, i).id = i
    /\ \A g \in Grants, i \in Sockets :
          /\ Frame("accepted", g, i) \in GoodFrames
          /\ Frame("accepted", g, i).type = "accepted" /\ Frame("accepted", g, i).grant = g
          /\ Frame("accepted", g, i).id = i
<1>1. \A i \in Sockets : i # 0
  BY DEF Sockets
<1>2. Hello \in GoodFrames /\ Hello.type = "hello"
  BY DEF Hello, Frame, Frames, FrameTypes, GoodFrames, WellFormed
<1>3. ASSUME NEW type \in {"bye", "error"}
      PROVE  Frame(type, 0, 0) \in GoodFrames /\ Frame(type, 0, 0).type = type
  BY DEF Frame, Frames, FrameTypes, GoodFrames, WellFormed
<1>4. ASSUME NEW i \in Sockets
      PROVE  /\ Frame("ok", 0, i) \in GoodFrames
             /\ Frame("ok", 0, i).type = "ok" /\ Frame("ok", 0, i).id = i
  BY <1>1 DEF Frame, Frames, FrameTypes, GoodFrames, WellFormed
<1>5. ASSUME NEW g \in Grants, NEW i \in Sockets
      PROVE  /\ Frame("accepted", g, i) \in GoodFrames
             /\ Frame("accepted", g, i).type = "accepted" /\ Frame("accepted", g, i).grant = g
             /\ Frame("accepted", g, i).id = i
  BY <1>1 DEF Frame, Frames, FrameTypes, GoodFrames, WellFormed
<1> QED BY <1>2, <1>3, <1>4, <1>5

(* A line keeps its order when its head is taken or frames are appended.   *)
LEMMA TailIs ==
    ASSUME NEW q \in Line, q # <<>>
    PROVE  /\ Head(q) = q[1] /\ 1 \in DOMAIN q
           /\ Head(q) \in GoodFrames
           /\ Tail(q) \in Line
           /\ \A i \in DOMAIN Tail(q) : i \in Nat \ {0} /\ i + 1 \in DOMAIN q /\ Tail(q)[i] = q[i + 1]
           /\ \A i \in DOMAIN q : i \in Nat \ {0} /\ (i = 1 \/ (i - 1 \in DOMAIN Tail(q)
                                              /\ Tail(q)[i - 1] = q[i]))
<1> DEFINE F == GoodFrames
<1>1. q \in Seq(F) /\ q # <<>>
  BY DEF Line
<1> HIDE DEF F
<1>2. /\ Head(q) = q[1] /\ 1 \in DOMAIN q /\ Head(q) \in F /\ Tail(q) \in Seq(F)
      /\ \A i \in DOMAIN Tail(q) : i \in Nat \ {0} /\ i + 1 \in DOMAIN q /\ Tail(q)[i] = q[i + 1]
      /\ \A i \in DOMAIN q : i \in Nat \ {0} /\ (i = 1 \/ (i - 1 \in DOMAIN Tail(q)
                                              /\ Tail(q)[i - 1] = q[i]))
  BY <1>1
<1> QED BY <1>2 DEF F, Line

LEMMA JoinedIs ==
    ASSUME NEW q \in Line, NEW more \in Line, NEW p, p = q \o more
    PROVE  /\ p \in Line
           /\ \A i \in DOMAIN q : i \in Nat \ {0} /\ i \in DOMAIN p /\ p[i] = q[i]
           /\ \A i \in DOMAIN more : /\ i \in Nat \ {0} /\ Len(q) + i \in DOMAIN p
                                     /\ p[Len(q) + i] = more[i]
           /\ \A i \in DOMAIN p :
                \/ i \in DOMAIN q /\ p[i] = q[i]
                \/ \E j \in DOMAIN more : i = Len(q) + j /\ p[i] = more[j]
           /\ Len(q) \in Nat /\ \A i \in DOMAIN q : i <= Len(q)
           /\ Range(p) = Range(q) \cup Range(more)
<1> DEFINE F == GoodFrames
<1>1. q \in Seq(F) /\ more \in Seq(F)
  BY DEF Line
<1> HIDE DEF F
<1>2. /\ p \in Seq(F) /\ Len(q) \in Nat /\ Len(more) \in Nat
      /\ DOMAIN q = 1 .. Len(q) /\ DOMAIN more = 1 .. Len(more)
      /\ DOMAIN p = 1 .. (Len(q) + Len(more))
      /\ \A i \in 1 .. (Len(q) + Len(more)) :
            p[i] = IF i <= Len(q) THEN q[i] ELSE more[i - Len(q)]
  BY <1>1
<1>3. ASSUME NEW i \in DOMAIN p, i \notin DOMAIN q
      PROVE  \E j \in DOMAIN more : i = Len(q) + j /\ p[i] = more[j]
  <2>1. PICK j : j = i - Len(q)
    OBVIOUS
  <2>2. j \in DOMAIN more /\ i = Len(q) + j /\ p[i] = more[j]
    BY <1>2, <1>3, <2>1
  <2> QED BY <2>2
<1>4. ASSUME NEW j \in DOMAIN more
      PROVE  /\ j \in Nat \ {0} /\ Len(q) + j \in DOMAIN p
             /\ p[Len(q) + j] = more[j]
  <2>1. j \in Nat /\ j >= 1 /\ j <= Len(more)
    BY <1>2
  <2>2. Len(q) + j \in 1 .. (Len(q) + Len(more)) /\ ~(Len(q) + j <= Len(q))
        /\ (Len(q) + j) - Len(q) = j
    BY <1>2, <2>1
  <2> QED BY <1>2, <2>1, <2>2
<1>5. \A i \in DOMAIN q : i \in Nat \ {0} /\ i <= Len(q) /\ i \in DOMAIN p /\ p[i] = q[i]
  BY <1>2
<1>6. p \in Line
  BY <1>2 DEF F, Line
<1>7. Range(p) = Range(q) \cup Range(more)
  <2>1. ASSUME NEW f \in Range(p)
        PROVE  f \in Range(q) \cup Range(more)
    <3>1. PICK i \in DOMAIN p : p[i] = f
      BY <2>1 DEF Range
    <3>2. CASE i \in DOMAIN q
      BY <1>5, <3>1, <3>2 DEF Range
    <3>3. CASE i \notin DOMAIN q
      BY <1>3, <3>1, <3>3 DEF Range
    <3> QED BY <3>2, <3>3
  <2>2. ASSUME NEW f \in Range(q)
        PROVE  f \in Range(p)
    BY <1>5 DEF Range
  <2>3. ASSUME NEW f \in Range(more)
        PROVE  f \in Range(p)
    BY <1>4 DEF Range
  <2> QED BY <2>1, <2>2, <2>3
<1> QED BY <1>2, <1>3, <1>4, <1>5, <1>6, <1>7

LEMMA OneIs ==
    ASSUME NEW f \in GoodFrames
    PROVE  <<f>> \in Line /\ DOMAIN <<f>> = {1} /\ <<f>>[1] = f
<1>1. <<f>> \in Seq(GoodFrames)
  OBVIOUS
<1> QED BY <1>1 DEF Line

LEMMA EmptyIs == <<>> \in Line /\ DOMAIN <<>> = {}
  BY DEF Line

(* Revocations name each grant they are for.                               *)
LEMMA RevocationsAre ==
    ASSUME NEW gs \in GrantSets
    PROVE  /\ Revocations(gs) \in Line
           /\ \A i \in DOMAIN Revocations(gs) :
                \E g \in gs : Revocations(gs)[i] = About("revoke", g)
           /\ \A g \in gs : Waits(Revocations(gs), About("revoke", g))
<1> DEFINE n == Cardinality(gs)
           q == SetToSeq(gs)
<1>1. IsFiniteSet(gs)
  BY FS_Subset DEF GrantSets
<1>2. n \in Nat /\ ExistsBijection(1 .. n, gs)
  BY <1>1, FS_CardinalityType
<1>3. PICK b : b \in [1 .. n -> gs] /\ IsInjective(b)
  BY <1>2 DEF ExistsBijection, Bijection, Injection
<1>4. q \in [1 .. n -> gs] /\ IsInjective(q)
  BY <1>3 DEF SetToSeq
<1> HIDE DEF q
<1>5. q \in Injection(1 .. n, gs)
  BY <1>4 DEF Injection
<1>6. Cardinality(1 .. n) = n
  BY <1>2, FS_Interval
<1>7. q \in Surjection(1 .. n, gs)
  BY <1>1, <1>5, <1>6, FS_Injection
<1>8. \A g \in gs : \E i \in 1 .. n : q[i] = g
  BY <1>7 DEF Surjection
<1>9. /\ DOMAIN Revocations(gs) = 1 .. n
      /\ \A i \in 1 .. n : Revocations(gs)[i] = About("revoke", q[i]) /\ q[i] \in gs
  BY <1>4 DEF Revocations, q
<1>10. Revocations(gs) \in Line
  <2>1. ASSUME NEW i \in 1 .. n
        PROVE  Revocations(gs)[i] \in GoodFrames
    <3>1. PICK g \in Grants : Revocations(gs)[i] = About("revoke", g)
      BY <1>9 DEF GrantSets
    <3>2. About("revoke", g) \in GoodFrames
      BY AboutIs DEF FrameTypes
    <3> QED BY <3>1, <3>2
  <2>2. Revocations(gs) = [i \in 1 .. n |-> Revocations(gs)[i]]
    BY <1>4 DEF Revocations, q
  <2> HIDE DEF n
  <2> QED BY <1>2, <2>1, <2>2 DEF Line
<1> QED BY <1>8, <1>9, <1>10 DEF Waits

-----------------------------------------------------------------------------
(* The client's operations, field by field *)

LEMMA PutIs ==
    ASSUME NEW n \in Clients, NEW s \in Sockets, NEW fs \in Line, NEW m, m = Put(n, s, fs)
    PROVE  /\ m \in Clients
           /\ m.state = n.state /\ m.socket = n.socket /\ m.owned = n.owned
           /\ m.lastId = n.lastId /\ m.queued = n.queued /\ m.ws = n.ws
           /\ \A r \in Sockets : m.up[r] = IF r = s /\ n.ws[s] = "open"
                                           THEN n.up[r] \o fs ELSE n.up[r]
<1>1. CASE n.ws[s] = "open"
  <2>1. PICK q : q = n.up[s] \o fs
    OBVIOUS
  <2>2. n.up[s] \in Line /\ q \in Line
    BY <2>1, JoinedIs DEF Clients
  <2>3. m = [n EXCEPT !.up[s] = q]
    BY <1>1, <2>1 DEF Put
  <2>4. [n.up EXCEPT ![s] = q] \in [Sockets -> Line]
    BY <2>2 DEF Clients
  <2>5. m = [n EXCEPT !.up = [n.up EXCEPT ![s] = q]]
    BY <2>3
  <2>6. PICK u \in [Sockets -> Line] : u = [n.up EXCEPT ![s] = q]
    BY <2>4
  <2>7. m = [n EXCEPT !.up = u]
    BY <2>5, <2>6
  <2>8. \A r \in Sockets : u[r] = IF r = s THEN q ELSE n.up[r]
    BY <2>6 DEF Clients
  <2> QED BY <1>1, <2>1, <2>7, <2>8 DEF Clients
<1>2. CASE n.ws[s] # "open"
  BY <1>2 DEF Put
<1> QED BY <1>1, <1>2

LEMMA BecomesIs ==
    ASSUME NEW n \in Clients, NEW s \in Sockets, NEW w \in Transports,
           NEW m, m = Becomes(n, s, w)
    PROVE  /\ m \in Clients
           /\ m.state = n.state /\ m.socket = n.socket /\ m.owned = n.owned
           /\ m.lastId = n.lastId /\ m.queued = n.queued /\ m.up = n.up
           /\ \A r \in Sockets : m.ws[r] = IF r = s THEN w ELSE n.ws[r]
<1>1. PICK v : v = [n.ws EXCEPT ![s] = w]
  OBVIOUS
<1>2. v \in [Sockets -> Transports] /\ \A r \in Sockets : v[r] = IF r = s THEN w ELSE n.ws[r]
  BY <1>1 DEF Clients
<1>3. m = [n EXCEPT !.ws = v]
  BY <1>1 DEF Becomes
<1> QED BY <1>2, <1>3 DEF Clients

(* The current socket s is given up: closed, and left for a new one.       *)
LEMMA RecoveredIs ==
    ASSUME NEW n \in Clients, NEW s \in Sockets, n.socket = s, NEW m, m = Recovered(n, s)
    PROVE  /\ m \in Clients
           /\ m.socket = 0 /\ m.owned = n.owned
           /\ m.lastId = n.lastId /\ m.queued = n.queued /\ m.up = n.up
           /\ m.state = IF n.owned THEN "reconnecting" ELSE n.state
           /\ \A r \in Sockets : m.ws[r] = IF r = s THEN "closed" ELSE n.ws[r]
<1>1. PICK k : k = Becomes(n, s, "closed")
  OBVIOUS
<1>2. "closed" \in Transports
  BY DEF Transports
<1>3. /\ k \in Clients
      /\ k.state = n.state /\ k.socket = n.socket /\ k.owned = n.owned
      /\ k.lastId = n.lastId /\ k.queued = n.queued /\ k.up = n.up
      /\ \A r \in Sockets : k.ws[r] = IF r = s THEN "closed" ELSE n.ws[r]
  BY <1>1, <1>2, BecomesIs
<1>4. k.socket = s
  BY <1>3
<1>5. m = AfterClose(k, s)
  BY <1>1 DEF Recovered
<1>6. m = [k EXCEPT !.socket = 0, !.state = IF k.owned THEN "reconnecting" ELSE @]
  BY <1>4, <1>5 DEF AfterClose
<1>7. PICK st : st = IF k.owned THEN "reconnecting" ELSE k.state
  OBVIOUS
<1>8. st \in ClientStates
  BY <1>3, <1>7 DEF Clients, ClientStates
<1>9. m = [k EXCEPT !.socket = 0, !.state = st]
  BY <1>6, <1>7
<1>10. /\ m \in Clients /\ m.socket = 0 /\ m.owned = k.owned /\ m.lastId = k.lastId
       /\ m.queued = k.queued /\ m.up = k.up /\ m.ws = k.ws /\ m.state = st
  BY <1>3, <1>8, <1>9 DEF Clients
<1> QED BY <1>3, <1>7, <1>10

LEMMA AfterCloseIs ==
    ASSUME NEW n \in Clients, NEW s \in Sockets, NEW m, m = AfterClose(n, s)
    PROVE  /\ m \in Clients
           /\ m.owned = n.owned /\ m.lastId = n.lastId /\ m.queued = n.queued
           /\ m.up = n.up /\ m.ws = n.ws
           /\ m.socket = IF n.socket = s THEN 0 ELSE n.socket
           /\ m.state \in {n.state, "reconnecting"}
<1>1. CASE n.socket # s
  BY <1>1 DEF AfterClose
<1>2. CASE n.socket = s
  <2>1. PICK st : st = IF n.owned THEN "reconnecting" ELSE n.state
    OBVIOUS
  <2>2. st \in ClientStates
    BY <2>1 DEF Clients, ClientStates
  <2>3. m = [n EXCEPT !.socket = 0, !.state = st]
    BY <1>2, <2>1 DEF AfterClose
  <2> QED BY <1>2, <2>1, <2>2, <2>3 DEF Clients
<1> QED BY <1>1, <1>2

(* Frames go up on the current socket, or not at all.                      *)
LEMMA SentIs ==
    ASSUME NEW n \in Clients, NEW f \in GoodFrames,
           NEW m, m = Sent(n, f)
    PROVE  /\ m \in Clients
           /\ m.owned = n.owned /\ m.lastId = n.lastId /\ m.queued = n.queued
           /\ m.socket \in {n.socket, 0}
           /\ m.socket # 0 => m.state = n.state
           /\ m.state \in {n.state, "reconnecting"}
           /\ \A r \in Sockets :
                m.ws[r] = n.ws[r] \/ (n.ws[r] = "opening" /\ m.ws[r] = "closed")
           /\ \A r \in Sockets :
                \/ m.up[r] = n.up[r]
                \/ ~SendFails(n) /\ r = n.socket /\ n.ws[r] = "open" /\ m.up[r] = n.up[r] \o <<f>>
<1>1. CASE ~SendFails(n)
  <2>1. n.socket \in Sockets /\ m = Put(n, n.socket, <<f>>)
    BY <1>1 DEF SendFails, Connected, Sent, Clients
  <2>2. <<f>> \in Line
    BY OneIs
  <2>3. /\ m \in Clients
        /\ m.state = n.state /\ m.socket = n.socket /\ m.owned = n.owned
        /\ m.lastId = n.lastId /\ m.queued = n.queued /\ m.ws = n.ws
        /\ \A r \in Sockets : m.up[r] = IF r = n.socket /\ n.ws[n.socket] = "open"
                                        THEN n.up[r] \o <<f>> ELSE n.up[r]
    BY <2>1, <2>2, PutIs
  <2> QED BY <1>1, <2>3
<1>2. CASE SendFails(n) /\ Connected(n)
  <2>1. n.socket \in Sockets /\ m = Recovered(n, n.socket) /\ n.ws[n.socket] = "opening"
    BY <1>2 DEF SendFails, Connected, Sent, Clients, Throws
  <2> QED BY <1>2, <2>1, RecoveredIs
<1>3. CASE SendFails(n) /\ ~Connected(n)
  <2>1. m = n
    BY <1>3 DEF Sent
  <2> QED BY <1>3, <2>1
<1> QED BY <1>1, <1>2, <1>3

(* Revocations go up on the current socket, or wait while the client is    *)
(* owned.                                                                  *)
LEMMA SentRevokesIs ==
    ASSUME NEW n \in Clients, NEW gs \in GrantSets, NEW m, m = SentRevokes(n, gs)
    PROVE  /\ m \in Clients
           /\ m.owned = n.owned /\ m.lastId = n.lastId
           /\ SendFails(n) /\ n.owned => m.queued = n.queued \cup gs
           /\ ~(SendFails(n) /\ n.owned) => m.queued = n.queued
           /\ m.socket \in {n.socket, 0}
           /\ m.socket # 0 => m.state = n.state
           /\ m.state \in {n.state, "reconnecting"}
           /\ \A r \in Sockets :
                m.ws[r] = n.ws[r] \/ (n.ws[r] = "opening" /\ m.ws[r] = "closed")
           /\ m.socket # 0 /\ SendFails(n) /\ Connected(n) => gs = {}
           /\ \A r \in Sockets :
                m.up[r] = IF ~SendFails(n) /\ r = n.socket /\ n.ws[r] = "open"
                          THEN n.up[r] \o Revocations(gs) ELSE n.up[r]
<1>1. CASE ~SendFails(n)
  <2>1. n.socket \in Sockets /\ m = Put(n, n.socket, Revocations(gs))
    BY <1>1 DEF SendFails, Connected, SentRevokes, Clients
  <2> QED BY <1>1, <2>1, RevocationsAre, PutIs
<1>2. CASE SendFails(n)
  <2>1. PICK k : k = IF n.owned THEN [n EXCEPT !.queued = @ \cup gs] ELSE n
    OBVIOUS
  <2>2. /\ k \in Clients
        /\ k.state = n.state /\ k.socket = n.socket /\ k.owned = n.owned
        /\ k.lastId = n.lastId /\ k.ws = n.ws /\ k.up = n.up
        /\ k.queued = IF n.owned THEN n.queued \cup gs ELSE n.queued
    <3>1. CASE n.owned
      <4>1. n.queued \cup gs \in GrantSets
        BY DEF Clients, GrantSets
      <4>2. k = [n EXCEPT !.queued = n.queued \cup gs]
        BY <2>1, <3>1
      <4>3. PICK q \in GrantSets : q = n.queued \cup gs
        BY <4>1
      <4>4. k = [n EXCEPT !.queued = q]
        BY <4>2, <4>3
      <4> QED BY <3>1, <4>3, <4>4 DEF Clients
    <3>2. CASE ~n.owned
      BY <2>1, <3>2
    <3> QED BY <3>1, <3>2
  <2>3. CASE Connected(n) /\ gs # {}
    <3>1. n.socket \in Sockets /\ m = Recovered(k, n.socket) /\ n.ws[n.socket] = "opening"
      BY <1>2, <2>1, <2>3 DEF SendFails, Connected, SentRevokes, Clients, Throws
    <3> QED BY <1>2, <2>2, <2>3, <3>1, RecoveredIs
  <2>4. CASE ~(Connected(n) /\ gs # {})
    <3>1. m = k
      BY <1>2, <2>1, <2>4 DEF SentRevokes
    <3> QED BY <1>2, <2>2, <2>4, <3>1
  <2> QED BY <2>3, <2>4
<1> QED BY <1>1, <1>2

LEMMA OpenedIs ==
    ASSUME NEW n \in Clients, NEW s \in Sockets, NEW m, m = Opened(n, s)
    PROVE  /\ m \in Clients
           /\ m.owned /\ m.socket = s /\ m.state = "connecting"
           /\ m.lastId = n.lastId /\ m.queued = n.queued /\ m.up = n.up
           /\ \A r \in Sockets : m.ws[r] = IF r = s THEN "opening" ELSE n.ws[r]
<1>1. PICK w : w = [n.ws EXCEPT ![s] = "opening"]
  OBVIOUS
<1>2. w \in [Sockets -> Transports] /\ \A r \in Sockets : w[r] = IF r = s THEN "opening" ELSE n.ws[r]
  BY <1>1 DEF Clients, Transports
<1>3. m = [n EXCEPT !.owned = TRUE, !.socket = s, !.state = "connecting", !.ws = w]
  BY <1>1 DEF Opened
<1> QED BY <1>2, <1>3 DEF Clients, ClientStates

LEMMA GreetedIs ==
    ASSUME NEW n \in Clients, NEW s \in Sockets, NEW m, m = Greeted(n, s)
    PROVE  /\ m \in Clients
           /\ m.state = n.state /\ m.socket = n.socket /\ m.owned = n.owned
           /\ m.lastId = n.lastId /\ m.queued = n.queued
           /\ \A r \in Sockets : m.ws[r] = IF r = s THEN "open" ELSE n.ws[r]
           /\ \A r \in Sockets : m.up[r] = IF r = s /\ n.socket = s
                                           THEN n.up[r] \o <<Hello>> ELSE n.up[r]
<1>1. PICK k : k = Becomes(n, s, "open")
  OBVIOUS
<1>2. "open" \in Transports
  BY DEF Transports
<1>3. /\ k \in Clients
      /\ k.state = n.state /\ k.socket = n.socket /\ k.owned = n.owned
      /\ k.lastId = n.lastId /\ k.queued = n.queued /\ k.up = n.up
      /\ \A r \in Sockets : k.ws[r] = IF r = s THEN "open" ELSE n.ws[r]
  BY <1>1, <1>2, BecomesIs
<1>4. CASE n.socket = s
  <2>1. m = Put(k, s, <<Hello>>)
    BY <1>1, <1>4 DEF Greeted
  <2>2. <<Hello>> \in Line
    BY FramesOfHost, OneIs
  <2> QED BY <1>3, <1>4, <2>1, <2>2, PutIs
<1>5. CASE n.socket # s
  <2>1. m = k
    BY <1>1, <1>5 DEF Greeted
  <2> QED BY <1>3, <1>5, <2>1
<1> QED BY <1>4, <1>5

LEMMA WelcomedIs ==
    ASSUME NEW n \in Clients, NEW s \in Sockets, NEW id \in Sockets, n.ws[s] = "open",
           NEW m, m = Welcomed(n, s, id)
    PROVE  /\ m \in Clients
           /\ m.state = "connected" /\ m.socket = n.socket /\ m.owned = n.owned
           /\ m.lastId = id /\ m.queued = {} /\ m.ws = n.ws
           /\ \A r \in Sockets :
                m.up[r] = IF r = s /\ ~SessionChanges(n, id)
                          THEN n.up[r] \o Revocations(n.queued) ELSE n.up[r]
<1>1. PICK k : k = IF SessionChanges(n, id) THEN n ELSE Put(n, s, Revocations(n.queued))
  OBVIOUS
<1>2. /\ k \in Clients /\ k.socket = n.socket /\ k.owned = n.owned /\ k.ws = n.ws
      /\ \A r \in Sockets :
           k.up[r] = IF r = s /\ ~SessionChanges(n, id)
                     THEN n.up[r] \o Revocations(n.queued) ELSE n.up[r]
  <2>1. CASE SessionChanges(n, id)
    BY <1>1, <2>1
  <2>2. CASE ~SessionChanges(n, id)
    <3>1. k = Put(n, s, Revocations(n.queued)) /\ Revocations(n.queued) \in Line
      BY <1>1, <2>2, RevocationsAre DEF Clients
    <3> QED BY <2>2, <3>1, PutIs
  <2> QED BY <2>1, <2>2
<1>3. m = [k EXCEPT !.queued = {}, !.lastId = id, !.state = "connected"]
  BY <1>1 DEF Welcomed
<1>4. /\ m \in Clients /\ m.state = "connected" /\ m.socket = k.socket /\ m.owned = k.owned
      /\ m.lastId = id /\ m.queued = {} /\ m.ws = k.ws /\ m.up = k.up
  BY <1>2, <1>3 DEF Clients, ClientStates, GrantSets
<1> QED BY <1>2, <1>4

LEMMA ClosedIs ==
    ASSUME NEW n \in Clients, NEW m, m = Closed(n)
    PROVE  /\ m \in Clients
           /\ m.state = "closed" /\ m.socket = 0 /\ ~m.owned
           /\ m.lastId = 0 /\ m.queued = {} /\ m.up = n.up
           /\ \A r \in Sockets : m.ws[r] = IF r = n.socket THEN "closed" ELSE n.ws[r]
<1>1. PICK w : w = [s \in Sockets |-> IF s = n.socket THEN "closed" ELSE n.ws[s]]
  OBVIOUS
<1>2. w \in [Sockets -> Transports]
      /\ \A r \in Sockets : w[r] = IF r = n.socket THEN "closed" ELSE n.ws[r]
  BY <1>1 DEF Clients, Transports
<1>3. m = [n EXCEPT !.owned = FALSE, !.lastId = 0, !.queued = {}, !.socket = 0,
                    !.state = "closed", !.ws = w]
  BY <1>1 DEF Closed
<1> QED BY <1>2, <1>3 DEF Clients, ClientStates, GrantSets

-----------------------------------------------------------------------------
(* What a line carries, whatever its order *)

LEMMA RangeTail ==
    ASSUME NEW q \in Line, q # <<>>
    PROVE  Range(q) = {Head(q)} \cup Range(Tail(q))
<1>1. ASSUME NEW f \in Range(q)
      PROVE  f \in {Head(q)} \cup Range(Tail(q))
  <2>1. PICK i \in DOMAIN q : q[i] = f
    BY <1>1 DEF Range
  <2>2. i \in Nat \ {0} /\ (i = 1 \/ (i - 1 \in DOMAIN Tail(q) /\ Tail(q)[i - 1] = q[i]))
    BY TailIs
  <2>3. Head(q) = q[1]
    BY TailIs
  <2> QED BY <2>1, <2>2, <2>3 DEF Range
<1>2. ASSUME NEW f \in {Head(q)} \cup Range(Tail(q))
      PROVE  f \in Range(q)
  <2>1. CASE f = Head(q)
    BY <2>1, TailIs DEF Range
  <2>2. CASE f \in Range(Tail(q))
    BY <2>2, TailIs DEF Range
  <2> QED BY <1>2, <2>1, <2>2
<1> QED BY <1>1, <1>2

LEMMA RangeOne ==
    /\ Range(<<>>) = {}
    /\ \A f \in GoodFrames : Range(<<f>>) = {f}
<1>1. Range(<<>>) = {}
  BY EmptyIs DEF Range
<1>2. ASSUME NEW f \in GoodFrames
      PROVE  Range(<<f>>) = {f}
  BY OneIs DEF Range
<1> QED BY <1>1, <1>2

LEMMA RangeRevocations ==
    ASSUME NEW gs \in GrantSets
    PROVE  Range(Revocations(gs)) = {About("revoke", g) : g \in gs}
  BY RevocationsAre DEF Range, Waits

LEMMA RangeLine ==
    ASSUME NEW q \in Line, NEW f \in Range(q)
    PROVE  f \in GoodFrames
<1>1. PICK i \in DOMAIN q : q[i] = f
  BY DEF Range
<1>2. q \in Seq(GoodFrames)
  BY DEF Line
<1> DEFINE F == GoodFrames
<1> HIDE DEF F
<1>3. q \in Seq(F)
  BY <1>2 DEF F
<1>4. q[i] \in F
  BY <1>1, <1>3
<1> QED BY <1>1, <1>4 DEF F

LEMMA AboutDiffers ==
    ASSUME NEW a \in FrameTypes, NEW b \in FrameTypes,
           NEW g \in Grants \cup {0}, NEW h \in Grants \cup {0}, About(a, g) = About(b, h)
    PROVE  a = b /\ g = h
<1>1. About(a, g).type = a /\ About(b, h).type = b /\ About(a, g).grant = g /\ About(b, h).grant = h
  BY DEF About, Frame
<1> QED BY <1>1

-----------------------------------------------------------------------------
(* The wire and the host, field by field *)

LEMMA MailedIs ==
    ASSUME NEW d \in Mail, NEW s \in Sockets, NEW fs \in Line,
           NEW e, e = Mailed(d, s, fs)
    PROVE  /\ e \in Mail
           /\ \A r \in Sockets : e[r] = IF r = s /\ Reachable(s) THEN d[r] \o fs ELSE d[r]
<1>1. PICK q : q = d[s] \o fs
  OBVIOUS
<1>2. d[s] \in Line /\ q \in Line
  <2>1. d[s] \in Line
    BY DEF Mail
  <2> QED BY <1>1, <2>1, JoinedIs
<1>3. CASE Reachable(s)
  <2>1. e = [d EXCEPT ![s] = q]
    BY <1>1, <1>3 DEF Mailed
  <2> QED BY <1>1, <1>2, <1>3, <2>1 DEF Mail
<1>4. CASE ~Reachable(s)
  BY <1>4 DEF Mailed
<1> QED BY <1>3, <1>4

LEMMA ReceivesIs ==
    ASSUME Types, NEW s \in Sockets, NEW type, Receives(s, type)
    PROVE  /\ net.ws[s] = "open" /\ down[s] # <<>>
           /\ Head(down[s]) \in GoodFrames
           /\ Head(down[s]).type = type
           /\ down' \in Mail
           /\ \A r \in Sockets : down'[r] = IF r = s THEN Tail(down[s]) ELSE down[r]
           /\ UNCHANGED <<panel, host, restarts, unheard>>
<1>1. down \in Mail /\ down[s] \in Line /\ down[s] # <<>>
  BY DEF Types, Receives, Mail
<1>2. PICK q : q = Tail(down[s])
  OBVIOUS
<1>3. down' = [down EXCEPT ![s] = q]
  BY <1>2 DEF Receives
<1>4. q \in Line /\ Head(down[s]) \in GoodFrames
  BY <1>1, <1>2, TailIs
<1> QED BY <1>1, <1>2, <1>3, <1>4 DEF Receives, Mail

LEMMA HearsIs ==
    ASSUME Types, NEW s \in Sockets, NEW type, HostHears(s, type)
    PROVE  /\ net.up[s] # <<>>
           /\ Head(net.up[s]) \in GoodFrames
           /\ Head(net.up[s]).type = type
           /\ net' \in Clients
           /\ net'.state = net.state /\ net'.socket = net.socket /\ net'.owned = net.owned
           /\ net'.lastId = net.lastId /\ net'.queued = net.queued /\ net'.ws = net.ws
           /\ \A r \in Sockets : net'.up[r] = IF r = s THEN Tail(net.up[s]) ELSE net.up[r]
           /\ UNCHANGED <<panel, grantVars, restarts>>
<1>1. net \in Clients /\ net.up \in Mail /\ net.up[s] \in Line /\ net.up[s] # <<>>
  BY DEF Types, HostHears, Clients, Mail
<1>2. PICK q : q = Tail(net.up[s])
  OBVIOUS
<1>3. PICK u : u = [net.up EXCEPT ![s] = q]
  OBVIOUS
<1>4. net' = [net EXCEPT !.up = u]
  BY <1>2, <1>3 DEF HostHears
<1>5. q \in Line /\ Head(net.up[s]) \in GoodFrames
  BY <1>1, <1>2, TailIs
<1>6. u \in Mail /\ \A r \in Sockets : u[r] = IF r = s THEN q ELSE net.up[r]
  BY <1>1, <1>3, <1>5 DEF Mail
<1>7. /\ net' \in Clients
      /\ net'.state = net.state /\ net'.socket = net.socket /\ net'.owned = net.owned
      /\ net'.lastId = net.lastId /\ net'.queued = net.queued /\ net'.ws = net.ws
      /\ net'.up = u
  BY <1>1, <1>4, <1>6 DEF Clients, Mail
<1> QED BY <1>2, <1>5, <1>6, <1>7 DEF HostHears

LEMMA ForgetsIs ==
    ASSUME Types, NEW g \in Grants, HostForgets(g)
    PROVE  /\ host' \in Hosts /\ down' \in Mail /\ unheard' \in GrantSets
           /\ host'.live = host.live /\ host'.id = host.id
           /\ host'.records = host.records \ {g}
           /\ host'.outbox = IF host.live = 0 THEN host.outbox \cup {g} ELSE host.outbox
           /\ \A r \in Sockets :
                down'[r] = IF r = host.live /\ Reachable(r)
                           THEN down[r] \o <<About("revoke", g)>> ELSE down[r]
           /\ unheard' = IF host.live # 0 /\ ~Reachable(host.live)
                         THEN unheard \cup {g} ELSE unheard
<1>1. host \in Hosts /\ down \in Mail /\ unheard \in GrantSets
  BY DEF Types
<1>2. 0 \notin Sockets
  BY DEF Sockets
<1>3. CASE host.live = 0
  <2>1. PICK rs \in GrantSets : rs = host.records \ {g}
    BY <1>1 DEF Hosts, GrantSets
  <2>2. PICK os \in GrantSets : os = host.outbox \cup {g}
    BY <1>1 DEF Hosts, GrantSets
  <2>3. host' = [host EXCEPT !.records = rs, !.outbox = os] /\ down' = down /\ unheard' = unheard
    BY <1>3, <2>1, <2>2 DEF HostForgets
  <2> QED BY <1>1, <1>2, <1>3, <2>1, <2>2, <2>3 DEF Hosts
<1>4. CASE host.live # 0
  <2>1. PICK rs \in GrantSets : rs = host.records \ {g}
    BY <1>1 DEF Hosts, GrantSets
  <2>2. host' = [host EXCEPT !.records = rs]
    BY <1>4, <2>1 DEF HostForgets
  <2>3. /\ host' \in Hosts /\ host'.live = host.live /\ host'.id = host.id
        /\ host'.records = rs /\ host'.outbox = host.outbox
    BY <1>1, <2>1, <2>2 DEF Hosts
  <2>4. PICK l \in Sockets : l = host.live
    BY <1>1, <1>4 DEF Hosts
  <2>5. down' = Mailed(down, l, <<About("revoke", g)>>)
    BY <1>4, <2>4 DEF HostForgets
  <2>6. PICK fs \in Line : fs = <<About("revoke", g)>>
    BY AboutIs, OneIs DEF FrameTypes
  <2>7. /\ down' \in Mail
        /\ \A r \in Sockets : down'[r] = IF r = l /\ Reachable(l)
                                         THEN down[r] \o <<About("revoke", g)>> ELSE down[r]
    <3>1. PICK d : d = down'
      OBVIOUS
    <3>2. d = Mailed(down, l, fs)
      BY <2>5, <2>6, <3>1
    <3>3. /\ d \in Mail
          /\ \A r \in Sockets : d[r] = IF r = l /\ Reachable(l) THEN down[r] \o fs ELSE down[r]
      BY <1>1, <2>4, <2>6, <3>2, MailedIs
    <3> QED BY <2>6, <3>1, <3>3
  <2>8. unheard' = IF Reachable(host.live) THEN unheard ELSE unheard \cup {g}
    BY <1>4 DEF HostForgets
  <2> QED BY <1>1, <1>4, <2>1, <2>3, <2>4, <2>7, <2>8 DEF GrantSets
<1> QED BY <1>3, <1>4

-----------------------------------------------------------------------------
(* The history and the vault, grant by grant *)

Vaults == {"none", "issued", "accepted", "gone"}

LEMMA MarkedIs ==
    ASSUME Types, NEW gs, NEW why \in Reasons, NEW m, m = Marked(gs, why)
    PROVE  m \in [Grants -> Reasons] /\ \A g \in Grants : m[g] = IF g \in gs THEN why ELSE missed[g]
  BY DEF Types, Marked

LEMMA RevokedIs ==
    ASSUME Types, NEW gs, NEW v, v = Revoked(gs)
    PROVE  v \in [Grants -> Vaults] /\ \A g \in Grants : v[g] = IF g \in gs THEN "gone" ELSE vault[g]
  BY DEF Types, Revoked, Vaults

(* A notice that cannot reach the host leaves a reason.                    *)
LEMMA NotifiedIs ==
    ASSUME Types, NEW gs, NEW m, m = Notified(gs)
    PROVE  /\ m \in [Grants -> Reasons]
           /\ \A g \in Grants : missed[g] # "no" => m[g] # "no"
           /\ \A g \in Grants : g \in gs /\ (Swallows(net) \/ ~net.owned) => m[g] # "no"
           /\ \A g \in Grants : g \in gs /\ Connected(net) => \A r \in Sockets \ {net.socket} :
                 About("put", g) \in Range(net.up[r]) => m[g] # "no"
<1>1. CASE Swallows(net)
  <2>1. m = Marked(gs, "lost") /\ "lost" \in Reasons /\ "lost" # "no"
    BY <1>1 DEF Notified, Reasons
  <2> QED BY <2>1, MarkedIs
<1>2. CASE ~Swallows(net) /\ ~net.owned
  <2>1. m = Marked(gs, "terminal") /\ "terminal" \in Reasons /\ "terminal" # "no"
    BY <1>2 DEF Notified, Reasons
  <2> QED BY <2>1, MarkedIs
<1>3. CASE ~Swallows(net) /\ net.owned /\ Connected(net)
  <2>1. m = Marked(Elsewhere(gs, net.socket), "overtaken") /\ "overtaken" \in Reasons
        /\ "overtaken" # "no"
    BY <1>3 DEF Notified, Reasons
  <2>2. ASSUME NEW g \in Grants, g \in gs, NEW r \in Sockets \ {net.socket},
               About("put", g) \in Range(net.up[r])
        PROVE  g \in Elsewhere(gs, net.socket)
    BY <2>2 DEF Elsewhere
  <2> QED BY <1>3, <2>1, <2>2, MarkedIs
<1>4. CASE ~Swallows(net) /\ net.owned /\ ~Connected(net)
  BY <1>4 DEF Notified, Types
<1> QED BY <1>1, <1>2, <1>3, <1>4

-----------------------------------------------------------------------------
(* The longer steps, field by field *)

LEMMA ClosePanelIs ==
    ASSUME Types, Drained, NEW p \in Panels, ClosePanel(p)
    PROVE  /\ net' \in Clients
           /\ net'.state = "closed" /\ net'.socket = 0 /\ ~net'.owned
           /\ net'.lastId = 0 /\ net'.queued = {}
           /\ \A r \in Sockets : net'.ws[r] \in {net.ws[r], "closed"}
           /\ \A r \in Sockets :
                net'.up[r] = IF ~SendFails(net) /\ r = net.socket /\ net.ws[r] = "open"
                             THEN net.up[r] \o Revocations(LiveGrants) ELSE net.up[r]
           /\ missed' \in [Grants -> Reasons]
           /\ \A g \in Grants : missed[g] # "no" => missed'[g] # "no"
           /\ \A g \in net.queued : missed'[g] # "no"
           /\ SendFails(net) /\ (net.owned => ~Swallows(net)) =>
                \A g \in LiveGrants : missed'[g] # "no"
           /\ Swallows(net) => \A g \in LiveGrants : missed'[g] # "no"
           /\ \A g \in LiveGrants : Connected(net) => \A r \in Sockets \ {net.socket} :
                 About("put", g) \in Range(net.up[r]) => missed'[g] # "no"
<1>0. LiveGrants \in GrantSets /\ net \in Clients
  BY DEF LiveGrants, Types, GrantSets
<1>1. PICK gs \in GrantSets : gs = LiveGrants
  BY <1>0
<1>2. PICK told : told = SentRevokes(net, gs)
  OBVIOUS
<1>3. net' = Closed(told) /\ missed' = IF told.queued # {} THEN Marked(told.queued, "terminal")
                                                           ELSE Notified(gs)
  BY <1>1, <1>2 DEF ClosePanel
<1>4. /\ told \in Clients
      /\ SendFails(net) /\ net.owned => told.queued = net.queued \cup gs
      /\ ~(SendFails(net) /\ net.owned) => told.queued = net.queued
      /\ \A r \in Sockets :
           told.ws[r] = net.ws[r] \/ (net.ws[r] = "opening" /\ told.ws[r] = "closed")
      /\ \A r \in Sockets :
           told.up[r] = IF ~SendFails(net) /\ r = net.socket /\ net.ws[r] = "open"
                        THEN net.up[r] \o Revocations(gs) ELSE net.up[r]
  BY <1>0, <1>1, <1>2, SentRevokesIs
<1>5. /\ net' \in Clients
      /\ net'.state = "closed" /\ net'.socket = 0 /\ ~net'.owned
      /\ net'.lastId = 0 /\ net'.queued = {} /\ net'.up = told.up
      /\ \A r \in Sockets : net'.ws[r] = IF r = told.socket THEN "closed" ELSE told.ws[r]
  BY <1>3, <1>4, ClosedIs
<1>6. net.queued \in GrantSets /\ "terminal" \in Reasons /\ "terminal" # "no"
  BY <1>0 DEF Clients, Reasons
<1>7. CASE told.queued # {}
  <2>1. missed' \in [Grants -> Reasons]
        /\ \A g \in Grants : missed'[g] = IF g \in told.queued THEN "terminal" ELSE missed[g]
    BY <1>3, <1>6, <1>7, MarkedIs
  <2>2. SendFails(net) /\ net.owned
    BY <1>4, <1>7 DEF SendFails, Drained
  <2>3. \A g \in net.queued \cup gs : missed'[g] = "terminal"
    BY <1>1, <1>4, <1>6, <2>1, <2>2 DEF GrantSets
  <2>4. \A g \in Grants : missed[g] # "no" => missed'[g] # "no"
    BY <1>6, <2>1
  <2> QED BY <1>1, <1>4, <1>5, <1>6, <2>1, <2>3, <2>4
<1>8. CASE told.queued = {}
  <2>1. /\ missed' \in [Grants -> Reasons]
        /\ \A g \in Grants : missed[g] # "no" => missed'[g] # "no"
        /\ \A g \in Grants : g \in gs /\ (Swallows(net) \/ ~net.owned) => missed'[g] # "no"
        /\ \A g \in Grants : g \in gs /\ Connected(net) => \A r \in Sockets \ {net.socket} :
              About("put", g) \in Range(net.up[r]) => missed'[g] # "no"
    BY <1>3, <1>8, NotifiedIs
  <2>2. net.queued = {} /\ (SendFails(net) /\ net.owned => gs = {})
    BY <1>4, <1>8
  <2> QED BY <1>1, <1>4, <1>5, <2>1, <2>2 DEF GrantSets
<1> QED BY <1>7, <1>8

(* The revocation of one grant, wherever it comes from.                    *)
LEMMA RevokesIs ==
    ASSUME Types, NEW g \in Grants, RevokesAndTells(g)
    PROVE  /\ vault' \in [Grants -> Vaults] /\ bound' = bound \ {g} /\ bound' \in GrantSets
           /\ \A h \in Grants : vault'[h] = IF h = g /\ Live(g) THEN "gone" ELSE vault[h]
           /\ net' \in Clients
           /\ net'.owned = net.owned /\ net'.lastId = net.lastId
           /\ SendFails(net) /\ net.owned => net'.queued = net.queued \cup {g}
           /\ ~(SendFails(net) /\ net.owned) => net'.queued = net.queued
           /\ net'.socket \in {net.socket, 0}
           /\ net'.socket # 0 => net'.state = net.state
           /\ net'.state \in {net.state, "reconnecting"}
           /\ \A r \in Sockets :
                net'.ws[r] = net.ws[r] \/ (net.ws[r] = "opening" /\ net'.ws[r] = "closed")
           /\ net'.socket # 0 => ~(SendFails(net) /\ Connected(net))
           /\ \A r \in Sockets :
                net'.up[r] = IF ~SendFails(net) /\ r = net.socket /\ net.ws[r] = "open"
                             THEN net.up[r] \o Revocations({g}) ELSE net.up[r]
           /\ missed' \in [Grants -> Reasons]
           /\ \A h \in Grants : missed[h] # "no" => missed'[h] # "no"
           /\ Swallows(net) \/ ~net.owned => missed'[g] # "no"
           /\ Connected(net) => \A r \in Sockets \ {net.socket} :
                 About("put", g) \in Range(net.up[r]) => missed'[g] # "no"
<1>1. PICK gs \in GrantSets : gs = {g}
  BY DEF GrantSets
<1>2. gs \in GrantSets /\ net \in Clients /\ net' = SentRevokes(net, gs) /\ missed' = Notified(gs)
  BY <1>1 DEF Types, RevokesAndTells
<1>3. /\ net' \in Clients
      /\ net'.owned = net.owned /\ net'.lastId = net.lastId
      /\ SendFails(net) /\ net.owned => net'.queued = net.queued \cup gs
      /\ ~(SendFails(net) /\ net.owned) => net'.queued = net.queued
      /\ net'.socket \in {net.socket, 0}
      /\ net'.socket # 0 => net'.state = net.state
      /\ net'.state \in {net.state, "reconnecting"}
      /\ \A r \in Sockets :
           net'.ws[r] = net.ws[r] \/ (net.ws[r] = "opening" /\ net'.ws[r] = "closed")
      /\ net'.socket # 0 /\ SendFails(net) /\ Connected(net) => gs = {}
      /\ \A r \in Sockets :
           net'.up[r] = IF ~SendFails(net) /\ r = net.socket /\ net.ws[r] = "open"
                        THEN net.up[r] \o Revocations(gs) ELSE net.up[r]
  BY <1>2, SentRevokesIs
<1>4. /\ missed' \in [Grants -> Reasons]
      /\ \A h \in Grants : missed[h] # "no" => missed'[h] # "no"
      /\ \A h \in Grants : h \in gs /\ (Swallows(net) \/ ~net.owned) => missed'[h] # "no"
      /\ \A h \in Grants : h \in gs /\ Connected(net) => \A r \in Sockets \ {net.socket} :
            About("put", h) \in Range(net.up[r]) => missed'[h] # "no"
  BY <1>2, NotifiedIs
<1>5. vault' \in [Grants -> Vaults]
      /\ \A h \in Grants : vault'[h] = IF h = g /\ Live(g) THEN "gone" ELSE vault[h]
  <2>1. CASE Live(g)
    <3>1. vault' = Revoked({g})
      BY <2>1 DEF RevokesAndTells
    <3> QED BY <2>1, <3>1, RevokedIs
  <2>2. CASE ~Live(g)
    BY <2>2 DEF RevokesAndTells, Types, Vaults
  <2> QED BY <2>1, <2>2
<1>6. bound' = bound \ {g} /\ bound' \in GrantSets
  BY DEF RevokesAndTells, Types, GrantSets
<1> QED BY <1>1, <1>3, <1>4, <1>5, <1>6

LEMMA HelloOkIs ==
    ASSUME Types, NEW s \in Sockets, HelloOk(s)
    PROVE  LET id == Head(down[s]).id IN
           /\ id \in Sockets
           /\ net' \in Clients
           /\ net'.state = "connected" /\ net'.socket = net.socket /\ net'.owned = net.owned
           /\ net'.lastId = id /\ net'.queued = {} /\ net'.ws = net.ws
           /\ \A r \in Sockets :
                net'.up[r] = IF r = s /\ ~SessionChanges(net, id)
                             THEN net.up[r] \o Revocations(net.queued) ELSE net.up[r]
           /\ vault' \in [Grants -> Vaults] /\ missed' \in [Grants -> Reasons]
           /\ \A g \in Grants : missed[g] # "no" => missed'[g] # "no"
           /\ SessionChanges(net, id) =>
                /\ asked' = {} /\ offered' = {} /\ bound' = {}
                /\ \A g \in Grants : vault'[g] = IF Live(g) THEN "gone" ELSE vault[g]
                /\ \A g \in LiveGrants \cup net.queued : missed'[g] # "no"
           /\ ~SessionChanges(net, id) =>
                /\ UNCHANGED <<asked, offered, bound, vault>>
                /\ \A g \in net.queued : \A r \in Sockets \ {s} :
                      About("put", g) \in Range(net.up[r]) => missed'[g] # "no"
           /\ UNCHANGED <<asker, reading, session>>
<1>1. PICK f : f = Head(down[s])
  OBVIOUS
<1>2. f \in GoodFrames /\ f.type = "ok" /\ net.ws[s] = "open"
  BY <1>1, ReceivesIs DEF HelloOk
<1>3. PICK id : id = f.id
  OBVIOUS
<1>4. id \in Sockets
  BY <1>2, <1>3, FrameIs
<1>5. net \in Clients /\ net' = Welcomed(net, s, id)
  BY <1>1, <1>3 DEF HelloOk, Types
<1>6. /\ net' \in Clients
      /\ net'.state = "connected" /\ net'.socket = net.socket /\ net'.owned = net.owned
      /\ net'.lastId = id /\ net'.queued = {} /\ net'.ws = net.ws
      /\ \A r \in Sockets :
           net'.up[r] = IF r = s /\ ~SessionChanges(net, id)
                        THEN net.up[r] \o Revocations(net.queued) ELSE net.up[r]
  BY <1>2, <1>4, <1>5, WelcomedIs
<1>7. "changed" \in Reasons /\ "overtaken" \in Reasons /\ "changed" # "no" /\ "overtaken" # "no"
  BY DEF Reasons
<1>8. net.queued \in GrantSets /\ net.queued \subseteq Grants /\ LiveGrants \subseteq Grants
  BY <1>5 DEF Clients, GrantSets, LiveGrants
<1>9. UNCHANGED <<asker, reading, session>>
  BY DEF HelloOk
<1>10. CASE SessionChanges(net, id)
  <2>1. /\ asked' = {} /\ offered' = {} /\ bound' = {}
        /\ vault' = Revoked(LiveGrants)
        /\ missed' = Marked(LiveGrants \cup net.queued, "changed")
    BY <1>1, <1>3, <1>10 DEF HelloOk
  <2>2. vault' \in [Grants -> Vaults]
        /\ \A g \in Grants : vault'[g] = IF g \in LiveGrants THEN "gone" ELSE vault[g]
    BY <2>1, RevokedIs
  <2>3. missed' \in [Grants -> Reasons]
        /\ \A g \in Grants :
             missed'[g] = IF g \in LiveGrants \cup net.queued THEN "changed" ELSE missed[g]
    BY <1>7, <2>1, MarkedIs
  <2>4. \A g \in Grants : vault'[g] = IF Live(g) THEN "gone" ELSE vault[g]
    BY <2>2 DEF LiveGrants
  <2>5. \A g \in LiveGrants \cup net.queued : missed'[g] # "no"
    BY <1>7, <1>8, <2>3
  <2>6. \A g \in Grants : missed[g] # "no" => missed'[g] # "no"
    BY <1>7, <2>3
  <2> QED BY <1>1, <1>3, <1>4, <1>6, <1>9, <1>10, <2>1, <2>2, <2>3, <2>4, <2>5, <2>6
<1>11. CASE ~SessionChanges(net, id)
  <2>1. /\ UNCHANGED <<asked, offered, bound, vault>>
        /\ missed' = Marked(Elsewhere(net.queued, s), "overtaken")
    BY <1>1, <1>3, <1>11 DEF HelloOk
  <2>2. missed' \in [Grants -> Reasons]
        /\ \A g \in Grants :
             missed'[g] = IF g \in Elsewhere(net.queued, s) THEN "overtaken" ELSE missed[g]
    BY <1>7, <2>1, MarkedIs
  <2>3. vault' \in [Grants -> Vaults]
    BY <2>1 DEF Types, Vaults
  <2>4. ASSUME NEW g \in net.queued, NEW r \in Sockets \ {s}, About("put", g) \in Range(net.up[r])
        PROVE  missed'[g] # "no"
    <3>1. g \in Elsewhere(net.queued, s)
      BY <2>4 DEF Elsewhere
    <3> QED BY <1>7, <1>8, <2>2, <3>1
  <2> QED BY <1>1, <1>3, <1>4, <1>6, <1>7, <1>9, <1>11, <2>1, <2>2, <2>3, <2>4
<1> QED BY <1>10, <1>11

LEMMA DropIs ==
    ASSUME Types, NEW s \in Sockets, Drop(s)
    PROVE  /\ net.ws[s] \in {"opening", "open"}
           /\ net' \in Clients
           /\ net'.state = net.state /\ net'.socket = net.socket /\ net'.owned = net.owned
           /\ net'.lastId = net.lastId /\ net'.queued = net.queued
           /\ \A r \in Sockets : net'.ws[r] = IF r = s THEN "down" ELSE net.ws[r]
           /\ \A r \in Sockets : net'.up[r] = IF r = s THEN <<>> ELSE net.up[r]
           /\ down' \in Mail
           /\ \A r \in Sockets : down'[r] = IF r = s THEN <<>> ELSE down[r]
           /\ missed' \in [Grants -> Reasons]
           /\ \A g \in Grants : missed[g] # "no" => missed'[g] # "no"
           /\ \A g \in Grants : About("revoke", g) \in Range(net.up[s]) => missed'[g] # "no"
           /\ unheard' \in GrantSets /\ unheard \subseteq unheard'
           /\ \A g \in Grants : About("revoke", g) \in Range(down[s]) => g \in unheard'
           /\ UNCHANGED <<panel, host, restarts, asker, reading, asked, offered, vault,
                          session, bound>>
<1>1. net \in Clients /\ down \in Mail /\ unheard \in GrantSets
  BY DEF Types
<1>2. PICK k : k = Becomes(net, s, "down")
  OBVIOUS
<1>3. "down" \in Transports /\ "lost" \in Reasons /\ "lost" # "no"
  BY DEF Transports, Reasons
<1>4. /\ k \in Clients
      /\ k.state = net.state /\ k.socket = net.socket /\ k.owned = net.owned
      /\ k.lastId = net.lastId /\ k.queued = net.queued /\ k.up = net.up
      /\ \A r \in Sockets : k.ws[r] = IF r = s THEN "down" ELSE net.ws[r]
  BY <1>1, <1>2, <1>3, BecomesIs
<1>5. PICK u : u = [k.up EXCEPT ![s] = <<>>]
  OBVIOUS
<1>6. u \in Mail /\ \A r \in Sockets : u[r] = IF r = s THEN <<>> ELSE k.up[r]
  BY <1>4, <1>5, EmptyIs DEF Clients, Mail
<1>7. net' = [k EXCEPT !.up = u]
  BY <1>2, <1>5 DEF Drop
<1>8. /\ net' \in Clients /\ net'.state = k.state /\ net'.socket = k.socket
      /\ net'.owned = k.owned /\ net'.lastId = k.lastId /\ net'.queued = k.queued
      /\ net'.ws = k.ws /\ net'.up = u
  BY <1>4, <1>6, <1>7 DEF Clients, Mail
<1>9. down' = [down EXCEPT ![s] = <<>>] /\ <<>> \in Line
  BY EmptyIs DEF Drop
<1>10. down' \in Mail /\ \A r \in Sockets : down'[r] = IF r = s THEN <<>> ELSE down[r]
  BY <1>1, <1>9 DEF Mail
<1>11. missed' \in [Grants -> Reasons]
       /\ \A g \in Grants :
            missed'[g] = IF g \in InFlight(net.up[s], "revoke") THEN "lost" ELSE missed[g]
  BY <1>3, MarkedIs DEF Drop
<1>12. /\ \A g \in Grants : About("revoke", g) \in Range(net.up[s]) =>
              g \in InFlight(net.up[s], "revoke")
       /\ \A g \in Grants : About("revoke", g) \in Range(down[s]) =>
              g \in InFlight(down[s], "revoke")
  BY DEF InFlight, Range
<1>13. unheard' = unheard \cup InFlight(down[s], "revoke") /\ InFlight(down[s], "revoke") \subseteq Grants
  BY DEF Drop, InFlight
<1>14. net.ws[s] \in {"opening", "open"}
       /\ UNCHANGED <<panel, host, restarts, asker, reading, asked, offered, vault,
                      session, bound>>
  BY DEF Drop
<1>15. unheard' \in GrantSets /\ unheard \subseteq unheard'
       /\ \A g \in Grants : About("revoke", g) \in Range(down[s]) => g \in unheard'
  BY <1>1, <1>12, <1>13 DEF GrantSets
<1>16. /\ \A g \in Grants : missed[g] # "no" => missed'[g] # "no"
       /\ \A g \in Grants : About("revoke", g) \in Range(net.up[s]) => missed'[g] # "no"
  BY <1>3, <1>11, <1>12
<1>17. /\ \A r \in Sockets : net'.ws[r] = IF r = s THEN "down" ELSE net.ws[r]
       /\ \A r \in Sockets : net'.up[r] = IF r = s THEN <<>> ELSE net.up[r]
  BY <1>4, <1>6, <1>8
<1> QED BY <1>4, <1>8, <1>10, <1>11, <1>14, <1>15, <1>16, <1>17

(* The host greets a socket that it has not heard before.                  *)
LEMMA HostWelcomesIs ==
    ASSUME Types, NEW s \in Sockets, HostWelcomes(s), host.live # s
    PROVE  LET id   == IF host.id # 0 THEN host.id ELSE s
               more == <<Frame("ok", 0, id)>> \o Revocations(host.outbox)
           IN
           /\ id \in Sockets /\ more \in Line
           /\ host' \in Hosts /\ host'.live = s /\ host'.id = id
           /\ host'.records = host.records /\ host'.outbox = {}
           /\ down' \in Mail
           /\ \A r \in Sockets :
                down'[r] = IF r = s
                           THEN IF Reachable(r) THEN down[r] \o more ELSE down[r]
                           ELSE IF r = host.live /\ Reachable(r)
                           THEN down[r] \o <<Frame("bye", 0, 0)>> ELSE down[r]
           /\ unheard' \in GrantSets
           /\ unheard' = IF Reachable(s) THEN unheard ELSE unheard \cup host.outbox
<1>1. PICK id : id = IF host.id # 0 THEN host.id ELSE s
  OBVIOUS
<1>2. host \in Hosts /\ down \in Mail /\ unheard \in GrantSets /\ host.outbox \in GrantSets
      /\ host.id \in Sockets \cup {0} /\ host.live \in Sockets \cup {0}
  BY DEF Types, Hosts
<1>3. id \in Sockets
  BY <1>1, <1>2
<1>4. PICK more : more = <<Frame("ok", 0, id)>> \o Revocations(host.outbox)
  OBVIOUS
<1>5. more \in Line
  <2>1. Frame("ok", 0, id) \in GoodFrames
    BY <1>3, FramesOfHost
  <2>2. <<Frame("ok", 0, id)>> \in Line
    BY <2>1, OneIs
  <2>3. Revocations(host.outbox) \in Line
    BY <1>2, RevocationsAre
  <2> QED BY <1>4, <2>2, <2>3, JoinedIs
<1>6. PICK bye : bye = <<Frame("bye", 0, 0)>>
  OBVIOUS
<1>7. bye \in Line
  BY <1>6, FramesOfHost, OneIs
<1>8. PICK left : left = IF host.live \in Sockets THEN Mailed(down, host.live, bye) ELSE down
  OBVIOUS
<1>9. /\ left \in Mail
      /\ \A r \in Sockets : left[r] = IF r = host.live /\ Reachable(r)
                                      THEN down[r] \o bye ELSE down[r]
  <2>1. CASE host.live \in Sockets
    <3>1. PICK l \in Sockets : l = host.live
      BY <2>1
    <3>2. left = Mailed(down, l, bye) /\ l \in Sockets
      BY <1>8, <2>1, <3>1
    <3>3. /\ left \in Mail
          /\ \A r \in Sockets : left[r] = IF r = l /\ Reachable(l) THEN down[r] \o bye ELSE down[r]
      BY <1>2, <1>7, <3>2, MailedIs
    <3> QED BY <3>1, <3>3
  <2>2. CASE host.live \notin Sockets
    BY <1>2, <1>8, <2>2
  <2> QED BY <2>1, <2>2
<1>10. down' = Mailed(left, s, more)
  BY <1>1, <1>4, <1>6, <1>8 DEF HostWelcomes
<1>11. /\ down' \in Mail
       /\ \A r \in Sockets : down'[r] = IF r = s /\ Reachable(s) THEN left[r] \o more ELSE left[r]
  <2>1. PICK d : d = down'
    OBVIOUS
  <2>2. d = Mailed(left, s, more)
    BY <1>10, <2>1
  <2>3. /\ d \in Mail
        /\ \A r \in Sockets : d[r] = IF r = s /\ Reachable(s) THEN left[r] \o more ELSE left[r]
    BY <1>5, <1>9, <2>2, MailedIs
  <2> QED BY <2>1, <2>3
<1>12. left[s] = down[s]
  BY <1>9
<1>13. host' = [host EXCEPT !.live = s, !.id = id, !.outbox = {}]
  BY <1>1 DEF HostWelcomes
<1>14. /\ host' \in Hosts /\ host'.live = s /\ host'.id = id
       /\ host'.records = host.records /\ host'.outbox = {}
  BY <1>2, <1>3, <1>13 DEF Hosts, GrantSets
<1>15. unheard' = IF Reachable(s) THEN unheard ELSE unheard \cup host.outbox
  BY DEF HostWelcomes
<1>16. unheard' \in GrantSets
  BY <1>2, <1>15 DEF GrantSets
<1>17. \A r \in Sockets :
          down'[r] = IF r = s
                     THEN IF Reachable(r) THEN down[r] \o more ELSE down[r]
                     ELSE IF r = host.live /\ Reachable(r)
                     THEN down[r] \o <<Frame("bye", 0, 0)>> ELSE down[r]
  BY <1>6, <1>9, <1>11, <1>12
<1> QED BY <1>1, <1>3, <1>4, <1>5, <1>11, <1>14, <1>15, <1>16, <1>17

LEMMA HostAcceptsIs ==
    ASSUME Types, NEW s \in Sockets, HostAccepts(s)
    PROVE  LET g == Head(net.up[s]).grant IN
           /\ g \in Grants /\ Head(net.up[s]) = About("put", g)
           /\ host' \in Hosts /\ host'.live = host.live /\ host'.id = host.id
           /\ host'.outbox = host.outbox
           /\ host'.records = IF host.live = s THEN host.records \cup {g} ELSE host.records
           /\ down' \in Mail
           /\ host.live = s => host.id \in Sockets
           /\ \A r \in Sockets :
                down'[r] = IF r = s /\ host.live = s /\ Reachable(r)
                           THEN down[r] \o <<Frame("accepted", g, host.id)>> ELSE down[r]
           /\ unheard' = unheard
<1>1. PICK f : f = Head(net.up[s])
  OBVIOUS
<1>2. f \in GoodFrames /\ f.type = "put"
  BY <1>1, HearsIs DEF HostAccepts
<1>3. f.grant \in Grants /\ f = About("put", f.grant)
  BY <1>2, FrameIs
<1>4. PICK g \in Grants : g = f.grant
  BY <1>3
<1>5. host \in Hosts /\ down \in Mail /\ host.id \in Sockets \cup {0}
      /\ (host.live # 0 => host.id # 0)
  BY DEF Types, Hosts
<1>6. unheard' = unheard
  BY DEF HostAccepts
<1>7. CASE host.live = s
  <2>1. PICK rs \in GrantSets : rs = host.records \cup {g}
    BY <1>5 DEF Hosts, GrantSets
  <2>2. host' = [host EXCEPT !.records = rs]
    BY <1>1, <1>4, <1>7, <2>1 DEF HostAccepts
  <2>3. /\ host' \in Hosts /\ host'.live = host.live /\ host'.id = host.id
        /\ host'.records = rs /\ host'.outbox = host.outbox
    BY <1>5, <2>1, <2>2 DEF Hosts
  <2>4. host.id \in Sockets
    BY <1>5, <1>7 DEF Sockets
  <2>5. PICK fs : fs = <<Frame("accepted", g, host.id)>>
    OBVIOUS
  <2>6. fs \in Line
    <3>1. Frame("accepted", g, host.id) \in GoodFrames
      BY <1>4, <2>4, FramesOfHost
    <3> QED BY <2>5, <3>1, OneIs
  <2>7. PICK d : d = down'
    OBVIOUS
  <2>8. d = Mailed(down, s, fs)
    BY <1>1, <1>4, <1>7, <2>5, <2>7 DEF HostAccepts
  <2>9. d \in Mail
        /\ \A r \in Sockets : d[r] = IF r = s /\ Reachable(s) THEN down[r] \o fs ELSE down[r]
    BY <1>5, <2>6, <2>8, MailedIs
  <2> QED BY <1>1, <1>3, <1>4, <1>6, <1>7, <2>1, <2>3, <2>4, <2>5, <2>7, <2>9
<1>8. CASE host.live # s
  <2>1. host' = host /\ down' = down
    BY <1>8 DEF HostAccepts
  <2> QED BY <1>1, <1>3, <1>4, <1>5, <1>6, <1>8, <2>1
<1> QED BY <1>7, <1>8

LEMMA RestartIs ==
    ASSUME Types, HostRestarts
    PROVE  /\ host' \in Hosts /\ host'.live = 0 /\ host'.id = 0
           /\ host'.records = {} /\ host'.outbox = {}
           /\ net' \in Clients
           /\ net'.state = net.state /\ net'.socket = net.socket /\ net'.owned = net.owned
           /\ net'.lastId = net.lastId /\ net'.queued = net.queued /\ net'.ws = net.ws
           /\ \A r \in Sockets : net'.up[r] = <<>>
           /\ down' \in Mail
           /\ \A r \in Sockets : down'[r] \in {<<Frame("bye", 0, 0)>>, <<>>}
<1>1. net \in Clients
  BY DEF Types
<1>2. host' = NewHost
  BY DEF HostRestarts
<1>3. /\ host' \in Hosts /\ host'.live = 0 /\ host'.id = 0
      /\ host'.records = {} /\ host'.outbox = {}
  BY <1>2 DEF NewHost, Hosts, GrantSets
<1>4. PICK u : u = Mailboxes
  OBVIOUS
<1>5. u \in Mail /\ \A r \in Sockets : u[r] = <<>>
  BY <1>4, EmptyIs DEF Mailboxes, Mail
<1>6. net' = [net EXCEPT !.up = u]
  BY <1>4 DEF HostRestarts
<1>7. /\ net' \in Clients
      /\ net'.state = net.state /\ net'.socket = net.socket /\ net'.owned = net.owned
      /\ net'.lastId = net.lastId /\ net'.queued = net.queued /\ net'.ws = net.ws
      /\ net'.up = u
  BY <1>1, <1>5, <1>6 DEF Clients, Mail
<1>8. <<Frame("bye", 0, 0)>> \in Line /\ <<>> \in Line
  BY FramesOfHost, OneIs, EmptyIs
<1>9. down' = [s \in Sockets |-> IF net.ws[s] = "open" THEN <<Frame("bye", 0, 0)>> ELSE <<>>]
  BY DEF HostRestarts
<1>10. down' \in Mail /\ \A r \in Sockets : down'[r] \in {<<Frame("bye", 0, 0)>>, <<>>}
  BY <1>8, <1>9 DEF Mail
<1> QED BY <1>3, <1>5, <1>7, <1>10

LEMMA TabReadIs ==
    ASSUME Types, NEW g \in Grants, TabRead(g)
    PROVE  /\ net' \in Clients
           /\ net'.owned = net.owned /\ net'.lastId = net.lastId /\ net'.queued = net.queued
           /\ net'.socket \in {net.socket, 0}
           /\ net'.socket # 0 => net'.state = net.state
           /\ net'.state \in {net.state, "reconnecting"}
           /\ \A r \in Sockets :
                net'.ws[r] = net.ws[r] \/ (net.ws[r] = "opening" /\ net'.ws[r] = "closed")
           /\ \A r \in Sockets :
                \/ net'.up[r] = net.up[r]
                \/ /\ ~SendFails(net) /\ r = net.socket /\ net.ws[r] = "open"
                   /\ net'.up[r] = net.up[r] \o <<About("put", g)>>
<1>1. PICK f \in GoodFrames : f = About("put", g)
  BY AboutIs DEF FrameTypes
<1>2. f \in GoodFrames /\ net \in Clients /\ net' = Sent(net, f)
  BY <1>1 DEF TabRead, Types
<1>3. /\ net' \in Clients
      /\ net'.owned = net.owned /\ net'.lastId = net.lastId /\ net'.queued = net.queued
      /\ net'.socket \in {net.socket, 0}
      /\ net'.socket # 0 => net'.state = net.state
      /\ net'.state \in {net.state, "reconnecting"}
      /\ \A r \in Sockets :
           net'.ws[r] = net.ws[r] \/ (net.ws[r] = "opening" /\ net'.ws[r] = "closed")
      /\ \A r \in Sockets :
           \/ net'.up[r] = net.up[r]
           \/ ~SendFails(net) /\ r = net.socket /\ net.ws[r] = "open"
              /\ net'.up[r] = net.up[r] \o <<f>>
  BY <1>2, SentIs, SMTT(40)
<1> QED BY <1>1, <1>3

LEMMA ToolCallIs ==
    ASSUME Types, NEW s \in Sockets, ToolCall(s)
    PROVE  LET g == Head(down[s]).grant IN
           /\ g \in Grants /\ Head(down[s]) = About("call", g)
           /\ net' \in Clients
           /\ net'.owned = net.owned /\ net'.lastId = net.lastId /\ net'.queued = net.queued
           /\ net'.socket \in {net.socket, 0}
           /\ net'.socket # 0 => net'.state = net.state
           /\ net'.state \in {net.state, "reconnecting"}
           /\ \A r \in Sockets :
                net'.ws[r] = net.ws[r] \/ (net.ws[r] = "opening" /\ net'.ws[r] = "closed")
           /\ \A r \in Sockets :
                \/ net'.up[r] = net.up[r]
                \/ net.ws[r] = "open" /\ net'.up[r] = net.up[r] \o <<About("expired", g)>>
<1>1. PICK f : f = Head(down[s])
  OBVIOUS
<1>2. f \in GoodFrames /\ f.type = "call"
  BY <1>1, ReceivesIs DEF ToolCall
<1>3. f.grant \in Grants /\ f = About("call", f.grant)
  BY <1>2, FrameIs
<1>4. PICK g \in Grants : g = f.grant
  BY <1>3
<1>5. PICK e \in GoodFrames : e = About("expired", g)
  BY <1>4, AboutIs DEF FrameTypes
<1>6. e \in GoodFrames /\ net \in Clients /\ (net' = net \/ net' = Sent(net, e))
  BY <1>1, <1>4, <1>5 DEF ToolCall, Types
<1>7. CASE net' = Sent(net, e)
  <2>1. /\ net' \in Clients
        /\ net'.owned = net.owned /\ net'.lastId = net.lastId /\ net'.queued = net.queued
        /\ net'.socket \in {net.socket, 0}
        /\ net'.socket # 0 => net'.state = net.state
        /\ net'.state \in {net.state, "reconnecting"}
        /\ \A r \in Sockets :
             net'.ws[r] = net.ws[r] \/ (net.ws[r] = "opening" /\ net'.ws[r] = "closed")
        /\ \A r \in Sockets :
             \/ net'.up[r] = net.up[r]
             \/ net.ws[r] = "open" /\ net'.up[r] = net.up[r] \o <<e>>
    BY <1>6, <1>7, SentIs, SMTT(40)
  <2> QED BY <1>1, <1>3, <1>4, <1>5, <2>1
<1>8. CASE net' = net
  BY <1>1, <1>3, <1>4, <1>6, <1>8
<1> QED BY <1>6, <1>7, <1>8

-----------------------------------------------------------------------------
(* Every step keeps the types *)

(* What the host has yet to say grows by one frame.                        *)
LEMMA SaysIs ==
    ASSUME Types, NEW s \in Sockets, NEW f \in GoodFrames,
           down' = Mailed(down, s, <<f>>)
    PROVE  /\ down' \in Mail
           /\ \A r \in Sockets :
                down'[r] = IF r = s /\ Reachable(r) THEN down[r] \o <<f>> ELSE down[r]
<1>1. PICK fs \in Line : fs = <<f>>
  BY OneIs
<1>2. PICK d : d = down'
  OBVIOUS
<1>3. d = Mailed(down, s, fs) /\ fs \in Line /\ down \in Mail
  BY <1>1, <1>2 DEF Types
<1>4. /\ d \in Mail
      /\ \A r \in Sockets : d[r] = IF r = s /\ Reachable(s) THEN down[r] \o fs ELSE down[r]
  BY <1>3, MailedIs
<1> QED BY <1>1, <1>2, <1>4

LEMMA TypesPanel ==
    ASSUME Types, Drained, PanelStep
    PROVE  Types'
<1>1. ASSUME NEW p \in Panels, OpenPanel(p)
      PROVE  Types'
  <2>1. panel' \in [Panels -> {"new", "open", "closed"}]
    BY <1>1 DEF OpenPanel, Types
  <2> QED BY <1>1, <2>1 DEF OpenPanel, Types, grantVars, bridgeVars
<1>2. ASSUME NEW p \in Panels, ClosePanel(p)
      PROVE  Types'
  <2>1. panel' \in [Panels -> {"new", "open", "closed"}] /\ asked' = {} /\ offered' = {} /\ bound' = {}
        /\ vault' = Revoked(LiveGrants)
    BY <1>2 DEF ClosePanel, Types
  <2>2. net' \in Clients /\ missed' \in [Grants -> Reasons]
    BY <1>2, ClosePanelIs
  <2>3. vault' \in [Grants -> Vaults]
    BY <2>1, RevokedIs
  <2>4. UNCHANGED <<asker, reading, session, bridgeVars>>
    BY <1>2 DEF ClosePanel
  <2> QED BY <2>1, <2>2, <2>3, <2>4 DEF Types, bridgeVars, GrantSets, Vaults
<1>3. ASSUME NEW p \in Panels, NEW s \in Sockets, Connect(p, s)
      PROVE  Types'
  <2>1. net \in Clients /\ net' = Opened(net, s)
    BY <1>3 DEF Types, Connect
  <2>2. net' \in Clients
    BY <2>1, OpenedIs
  <2> QED BY <1>3, <2>2 DEF Connect, Types, grantVars, bridgeVars
<1>4. ASSUME NEW p \in Panels, NEW g \in Grants, CreateRequest(g, p)
      PROVE  Types'
  <2>1. asker' \in [Grants -> Panels \cup {NoPanel}] /\ reading' \in GrantSets
    BY <1>4 DEF CreateRequest, Types, GrantSets
  <2> QED BY <1>4, <2>1 DEF CreateRequest, Types, bridgeVars
<1>5. ASSUME NEW g \in Grants, TabRefused(g)
      PROVE  Types'
  <2>1. reading' \in GrantSets
    BY <1>5 DEF TabRefused, Types, GrantSets
  <2> QED BY <1>5, <2>1 DEF TabRefused, Types, bridgeVars
<1>6. ASSUME NEW g \in Grants, TabRead(g)
      PROVE  Types'
  <2>4. net' \in Clients
    BY <1>6, TabReadIs
  <2>5. reading' \in GrantSets /\ vault' \in [Grants -> Vaults]
        /\ asked' \in GrantSets /\ offered' \in GrantSets
    BY <1>6 DEF TabRead, Types, GrantSets, Vaults
  <2> QED BY <1>6, <2>4, <2>5 DEF TabRead, Types, Vaults, bridgeVars
<1>7. ASSUME NEW g \in Grants, Cancel(g)
      PROVE  Types'
  <2>1. RevokesAndTells(g) /\ asked' \in GrantSets /\ offered' \in GrantSets
    BY <1>7 DEF Cancel, Types, GrantSets
  <2>2. net' \in Clients /\ missed' \in [Grants -> Reasons] /\ vault' \in [Grants -> Vaults]
        /\ bound' \in GrantSets
    BY <2>1, RevokesIs
  <2> QED BY <1>7, <2>1, <2>2 DEF Cancel, Types, Vaults, bridgeVars
<1> QED BY <1>1, <1>2, <1>3, <1>4, <1>5, <1>6, <1>7 DEF PanelStep

LEMMA TypesTimer ==
    ASSUME Types, TimerStep
    PROVE  Types'
<1>1. ASSUME NEW g \in Grants, LocalRevoke(g)
      PROVE  Types'
  <2>1. net' \in Clients /\ missed' \in [Grants -> Reasons] /\ vault' \in [Grants -> Vaults]
        /\ bound' \in GrantSets
    BY <1>1, RevokesIs DEF LocalRevoke
  <2> QED BY <1>1, <2>1 DEF LocalRevoke, Types, Vaults, bridgeVars
<1>2. ASSUME NEW g \in Grants, AckTimeout(g)
      PROVE  Types'
  <2>1. offered' \in GrantSets /\ asked' \in GrantSets
    BY <1>2 DEF AckTimeout, Types, GrantSets
  <2>2. vault' \in [Grants -> Vaults]
    BY <1>2, RevokedIs DEF AckTimeout
  <2>3. missed' \in [Grants -> Reasons]
    <3>1. CASE Live(g)
      <4>1. missed' = Marked({g}, "timeout") /\ "timeout" \in Reasons
        BY <1>2, <3>1 DEF AckTimeout, Reasons
      <4> QED BY <4>1, MarkedIs
    <3>2. CASE ~Live(g)
      BY <1>2, <3>2 DEF AckTimeout, Types
    <3> QED BY <3>1, <3>2
  <2> QED BY <1>2, <2>1, <2>2, <2>3 DEF AckTimeout, Types, Vaults, bridgeVars
<1> QED BY <1>1, <1>2 DEF TimerStep

LEMMA TypesFrame ==
    ASSUME Types, FrameStep
    PROVE  Types'
<1>1. ASSUME NEW s \in Sockets, HelloOk(s)
      PROVE  Types'
  <2>1. Receives(s, "ok")
    BY <1>1 DEF HelloOk
  <2>2. down' \in Mail /\ UNCHANGED <<panel, host, restarts, unheard>>
    BY <2>1, ReceivesIs
  <2>3. /\ net' \in Clients /\ vault' \in [Grants -> Vaults] /\ missed' \in [Grants -> Reasons]
        /\ UNCHANGED <<asker, reading, session>>
    BY <1>1, HelloOkIs
  <2>4. asked' \in GrantSets /\ offered' \in GrantSets /\ bound' \in GrantSets
    BY <1>1 DEF HelloOk, Types, GrantSets
  <2> QED BY <2>2, <2>3, <2>4 DEF Types, Vaults
<1>2. ASSUME NEW s \in Sockets, Accepted(s)
      PROVE  Types'
  <2>1. Receives(s, "accepted")
    BY <1>2 DEF Accepted
  <2>2. PICK f : f = Head(down[s])
    OBVIOUS
  <2>3. down' \in Mail /\ f \in GoodFrames /\ f.type = "accepted"
        /\ UNCHANGED <<panel, host, restarts, unheard>>
    BY <2>1, <2>2, ReceivesIs
  <2>4. f.grant \in Grants /\ f.id \in Nat
    BY <2>3, FrameIs DEF Sockets
  <2>5. PICK g \in Grants, i \in Nat : g = f.grant /\ i = f.id
    BY <2>4
  <2>6. /\ vault' \in [Grants -> Vaults] /\ session' \in [Grants -> Nat]
        /\ bound' \in GrantSets /\ offered' \in GrantSets /\ asked' \in GrantSets
    <3>1. CASE f.grant \in offered /\ Live(f.grant)
      <4>1. /\ vault' = [vault EXCEPT ![g] = "accepted"]
            /\ session' = [session EXCEPT ![g] = i]
            /\ bound' \in {bound, bound \cup {g}}
            /\ offered' \in {offered, offered \ {g}} /\ asked' \in {asked, asked \ {g}}
        BY <1>2, <2>2, <2>5, <3>1 DEF Accepted
      <4> QED BY <4>1 DEF Types, Vaults, GrantSets
    <3>2. CASE ~(f.grant \in offered /\ Live(f.grant))
      BY <1>2, <2>2, <3>2 DEF Accepted, Types, Vaults
    <3> QED BY <3>1, <3>2
  <2> QED BY <1>2, <2>3, <2>6 DEF Accepted, Types, Vaults
<1>3. ASSUME NEW s \in Sockets, Rejected(s)
      PROVE  Types'
  <2>1. Receives(s, "error") /\ missed' = Marked(offered \cap LiveGrants, "refused")
        /\ vault' = Revoked(offered) /\ "refused" \in Reasons
    BY <1>3 DEF Rejected, Reasons
  <2>2. down' \in Mail /\ UNCHANGED <<panel, host, restarts, unheard>>
    BY <2>1, ReceivesIs
  <2>3. missed' \in [Grants -> Reasons] /\ vault' \in [Grants -> Vaults]
    BY <2>1, MarkedIs, RevokedIs
  <2>4. asked' \in GrantSets /\ offered' \in GrantSets
    BY <1>3 DEF Rejected, Types, GrantSets
  <2> QED BY <1>3, <2>2, <2>3, <2>4 DEF Rejected, Types, Vaults
<1>4. ASSUME NEW s \in Sockets, HostRevoked(s)
      PROVE  Types'
  <2>1. Receives(s, "revoke")
    BY <1>4 DEF HostRevoked
  <2>2. down' \in Mail /\ UNCHANGED <<panel, host, restarts, unheard>>
    BY <2>1, ReceivesIs
  <2>3. vault' \in [Grants -> Vaults]
    BY <1>4, RevokedIs DEF HostRevoked, Types, Vaults
  <2>4. bound' \in GrantSets
    BY <1>4 DEF HostRevoked, Types, GrantSets
  <2> QED BY <1>4, <2>2, <2>3, <2>4 DEF HostRevoked, Types, Vaults
<1>5. ASSUME NEW s \in Sockets, ToolCall(s)
      PROVE  Types'
  <2>1. Receives(s, "call")
    BY <1>5 DEF ToolCall
  <2>2. down' \in Mail /\ UNCHANGED <<panel, host, restarts, unheard>>
    BY <2>1, ReceivesIs
  <2>3. net' \in Clients
    BY <1>5, ToolCallIs
  <2> QED BY <1>5, <2>2, <2>3 DEF ToolCall, Types, grantVars
<1> QED BY <1>1, <1>2, <1>3, <1>4, <1>5 DEF FrameStep

LEMMA TypesWire ==
    ASSUME Types, WireStep
    PROVE  Types'
<1>0. net \in Clients /\ {"open", "down", "closed"} \subseteq Transports
  BY DEF Types, Transports
<1>1. ASSUME NEW s \in Sockets, WsOpens(s)
      PROVE  Types'
  <2>1. net' = Greeted(net, s)
    BY <1>1 DEF WsOpens
  <2>2. net' \in Clients
    BY <1>0, <2>1, GreetedIs
  <2> QED BY <1>1, <2>2 DEF WsOpens, Types, grantVars, bridgeVars
<1>2. ASSUME NEW s \in Sockets, HostCloses(s)
      PROVE  Types'
  <2>1. Receives(s, "bye") /\ net' = Becomes(net, s, "down") /\ "down" \in Transports
    BY <1>0, <1>2 DEF HostCloses
  <2>2. down' \in Mail /\ UNCHANGED <<panel, host, restarts, unheard>>
    BY <2>1, ReceivesIs
  <2>3. net' \in Clients
    BY <1>0, <2>1, BecomesIs
  <2> QED BY <1>2, <2>2, <2>3 DEF HostCloses, Types, grantVars
<1>3. ASSUME NEW s \in Sockets, Drop(s)
      PROVE  Types'
  <2>1. /\ net' \in Clients /\ down' \in Mail /\ missed' \in [Grants -> Reasons]
        /\ unheard' \in GrantSets
        /\ UNCHANGED <<panel, host, restarts, asker, reading, asked, offered, vault,
                       session, bound>>
    BY <1>3, DropIs
  <2> QED BY <2>1 DEF Types
<1>4. ASSUME NEW s \in Sockets, WsCloses(s)
      PROVE  Types'
  <2>1. PICK k : k = Becomes(net, s, "closed")
    OBVIOUS
  <2>2. "closed" \in Transports
    BY <1>0
  <2>3. k \in Clients
    BY <1>0, <2>1, <2>2, BecomesIs
  <2>4. net' = AfterClose(k, s)
    BY <1>4, <2>1 DEF WsCloses
  <2>5. net' \in Clients
    BY <2>3, <2>4, AfterCloseIs
  <2> QED BY <1>4, <2>5 DEF WsCloses, Types, grantVars, bridgeVars
<1> QED BY <1>1, <1>2, <1>3, <1>4 DEF WireStep

LEMMA TypesHost ==
    ASSUME Types, HostStep,
           \A s \in Sockets : HostWelcomes(s) => host.live # s
    PROVE  Types'
<1>1. ASSUME NEW s \in Sockets, HostWelcomes(s)
      PROVE  Types'
  <2>1. HostHears(s, "hello") /\ host.live # s
    BY <1>1 DEF HostWelcomes
  <2>2. net' \in Clients /\ UNCHANGED <<panel, grantVars, restarts>>
    BY <2>1, HearsIs
  <2>3. host' \in Hosts /\ down' \in Mail /\ unheard' \in GrantSets /\ host'.id \in Sockets
    BY <1>1, <2>1, HostWelcomesIs
  <2>4. host'.id # 0
    BY <2>3 DEF Sockets
  <2> QED BY <2>2, <2>3, <2>4 DEF Types, grantVars
<1>2. ASSUME NEW s \in Sockets, HostAccepts(s)
      PROVE  Types'
  <2>1. HostHears(s, "put")
    BY <1>2 DEF HostAccepts
  <2>2. net' \in Clients /\ UNCHANGED <<panel, grantVars, restarts>>
    BY <2>1, HearsIs
  <2>3. /\ host' \in Hosts /\ down' \in Mail /\ unheard' = unheard
        /\ host'.live = host.live /\ host'.id = host.id
    BY <1>2, HostAcceptsIs
  <2> QED BY <2>2, <2>3 DEF Types, grantVars
<1>3. ASSUME NEW s \in Sockets, HostRejects(s)
      PROVE  Types'
  <2>1. HostHears(s, "put")
    BY <1>3 DEF HostRejects
  <2>2. net' \in Clients /\ UNCHANGED <<panel, grantVars, restarts>>
    BY <2>1, HearsIs
  <2>3. PICK f \in GoodFrames : f = Frame("error", 0, 0)
    BY FramesOfHost
  <2>4. f \in GoodFrames /\ down' = Mailed(down, s, <<f>>)
    BY <1>3, <2>3 DEF HostRejects
  <2>5. down' \in Mail
    BY <2>4, SaysIs
  <2> QED BY <1>3, <2>2, <2>5 DEF HostRejects, Types, grantVars
<1>4. ASSUME NEW s \in Sockets, HostHearsRevoke(s)
      PROVE  Types'
  <2>1. PICK type \in {"revoke", "expired"} : HostHears(s, type)
    BY <1>4 DEF HostHearsRevoke
  <2>2. net' \in Clients /\ UNCHANGED <<panel, grantVars, restarts>>
    BY <2>1, HearsIs
  <2>3. PICK g : g = Head(net.up[s]).grant
    OBVIOUS
  <2>4. CASE g \in host.records
    <3>1. g \in Grants /\ HostForgets(g)
      BY <1>4, <2>3, <2>4 DEF HostHearsRevoke, Types, Hosts, GrantSets
    <3>2. /\ host' \in Hosts /\ down' \in Mail /\ unheard' \in GrantSets
          /\ host'.live = host.live /\ host'.id = host.id
      BY <3>1, ForgetsIs
    <3> QED BY <2>2, <3>2 DEF Types, grantVars
  <2>5. CASE g \notin host.records
    <3>1. UNCHANGED <<host, down, unheard>>
      BY <1>4, <2>3, <2>5 DEF HostHearsRevoke
    <3> QED BY <2>2, <3>1 DEF Types, grantVars
  <2> QED BY <2>4, <2>5
<1>5. ASSUME NEW g \in Grants, HostRevokes(g)
      PROVE  Types'
  <2>1. HostForgets(g)
    BY <1>5 DEF HostRevokes
  <2>2. /\ host' \in Hosts /\ down' \in Mail /\ unheard' \in GrantSets
        /\ host'.live = host.live /\ host'.id = host.id
    BY <2>1, ForgetsIs
  <2> QED BY <1>5, <2>2 DEF HostRevokes, Types, grantVars
<1>6. ASSUME NEW g \in Grants, HostCalls(g)
      PROVE  Types'
  <2>1. host.live \in Sockets
    BY <1>6 DEF HostCalls, Types, Hosts
  <2>2. PICK f \in GoodFrames : f = About("call", g)
    BY AboutIs DEF FrameTypes
  <2>3. PICK s \in Sockets : s = host.live
    BY <2>1
  <2>4. f \in GoodFrames /\ s \in Sockets /\ down' = Mailed(down, s, <<f>>)
    BY <1>6, <2>2, <2>3 DEF HostCalls
  <2>5. down' \in Mail
    BY <2>4, SaysIs
  <2> QED BY <1>6, <2>5 DEF HostCalls, Types, grantVars
<1>7. CASE HostSeesClose
  <2>1. host' \in Hosts /\ host'.live = 0
    BY <1>7 DEF HostSeesClose, Types, Hosts
  <2> QED BY <1>7, <2>1 DEF HostSeesClose, Types, grantVars
<1>8. CASE HostRestarts
  <2>1. net' \in Clients /\ down' \in Mail /\ host' \in Hosts /\ host'.live = 0
    BY <1>8, RestartIs
  <2> QED BY <1>8, <2>1 DEF HostRestarts, Types, grantVars
<1> QED BY <1>1, <1>2, <1>3, <1>4, <1>5, <1>6, <1>7, <1>8 DEF HostStep

-----------------------------------------------------------------------------
(* What a step does to the lines *)

(* q becomes r: nothing, all of it or its head goes, or frames of the      *)
(* given types come behind it.                                             *)
Behind(q, r, types) == \E more \in Line : r = q \o more /\ \A f \in Range(more) : f.type \in types

UpStep(types) ==
    \A r \in Sockets :
      \/ net'.up[r] = net.up[r]
      \/ net'.up[r] = <<>> /\ (Drop(r) \/ HostStep)
      \/ net.up[r] # <<>> /\ net'.up[r] = Tail(net.up[r]) /\ HostStep
      \/ net.ws[r] = "open" /\ Behind(net.up[r], net'.up[r], types)

(* A transport never opens again.                                          *)
WsStep ==
    \A r \in Sockets :
      /\ net'.ws[r] \in {"unused", "opening"} => net.ws[r] \in {"unused", "opening"}
      /\ net'.ws[r] = "open" => net.ws[r] \in {"opening", "open"}
      /\ net'.ws[r] = "unused" => net.ws[r] = "unused"

LEMMA BehindRevocations ==
    ASSUME NEW q \in Line, NEW gs \in GrantSets, NEW r, r = q \o Revocations(gs)
    PROVE  Behind(q, r, {"revoke", "expired"})
<1>1. Revocations(gs) \in Line
  BY RevocationsAre
<1>2. ASSUME NEW f \in Range(Revocations(gs))
      PROVE  f.type = "revoke"
  <2>1. PICK g \in gs : f = About("revoke", g)
    BY RangeRevocations
  <2> QED BY <2>1 DEF About, Frame
<1> QED BY <1>1, <1>2 DEF Behind

LEMMA BehindOne ==
    ASSUME NEW q \in Line, NEW f \in GoodFrames, NEW r, r = q \o <<f>>,
           NEW types, f.type \in types
    PROVE  Behind(q, r, types)
  BY OneIs, RangeOne DEF Behind

LEMMA Upward ==
    ASSUME Types, Drained, Next
    PROVE  /\ WsStep
           /\ \/ UpStep({"revoke", "expired"})
              \/ \E s \in Sockets : WsOpens(s)
              \/ \E g \in Grants : TabRead(g)
<1> DEFINE R == {"revoke", "expired"}
<1>0. net \in Clients /\ \A r \in Sockets : net.up[r] \in Line
  BY DEF Types, Clients
<1>1. CASE UNCHANGED net
  BY <1>1 DEF WsStep, UpStep
<1>2. ASSUME NEW p \in Panels, ClosePanel(p)
      PROVE  WsStep /\ UpStep(R)
  <2>1. PICK gs \in GrantSets : gs = LiveGrants
    BY DEF LiveGrants, GrantSets
  <2>2. /\ \A r \in Sockets : net'.ws[r] \in {net.ws[r], "closed"}
        /\ \A r \in Sockets :
             net'.up[r] = IF ~SendFails(net) /\ r = net.socket /\ net.ws[r] = "open"
                          THEN net.up[r] \o Revocations(gs) ELSE net.up[r]
    BY <1>2, <2>1, ClosePanelIs
  <2>3. gs \in GrantSets
    BY <2>1
  <2>4. \A r \in Sockets : net'.up[r] = net.up[r]
          \/ (net.ws[r] = "open" /\ Behind(net.up[r], net'.up[r], R))
    BY <1>0, <2>2, <2>3, BehindRevocations
  <2> QED BY <2>2, <2>4 DEF WsStep, UpStep
<1>3. ASSUME NEW p \in Panels, NEW s \in Sockets, Connect(p, s)
      PROVE  WsStep /\ UpStep(R)
  <2>1. net' = Opened(net, s) /\ net.ws[s] = "unused"
    BY <1>3 DEF Connect
  <2>2. net'.up = net.up
        /\ \A r \in Sockets : net'.ws[r] = IF r = s THEN "opening" ELSE net.ws[r]
    BY <1>0, <2>1, OpenedIs
  <2> QED BY <2>1, <2>2 DEF WsStep, UpStep
<1>4. ASSUME NEW g \in Grants, Cancel(g) \/ LocalRevoke(g)
      PROVE  WsStep /\ UpStep(R)
  <2>1. RevokesAndTells(g)
    BY <1>4 DEF Cancel, LocalRevoke
  <2>2. /\ \A r \in Sockets :
             net'.ws[r] = net.ws[r] \/ (net.ws[r] = "opening" /\ net'.ws[r] = "closed")
        /\ \A r \in Sockets :
             net'.up[r] = IF ~SendFails(net) /\ r = net.socket /\ net.ws[r] = "open"
                          THEN net.up[r] \o Revocations({g}) ELSE net.up[r]
    BY <2>1, RevokesIs
  <2>3. PICK gs \in GrantSets : gs = {g}
    BY DEF GrantSets
  <2>4. /\ gs \in GrantSets
        /\ \A r \in Sockets :
             net'.up[r] = IF ~SendFails(net) /\ r = net.socket /\ net.ws[r] = "open"
                          THEN net.up[r] \o Revocations(gs) ELSE net.up[r]
    BY <2>2, <2>3
  <2>5. \A r \in Sockets : net'.up[r] = net.up[r]
          \/ (net.ws[r] = "open" /\ Behind(net.up[r], net'.up[r], R))
    BY <1>0, <2>4, BehindRevocations
  <2> QED BY <2>2, <2>5 DEF WsStep, UpStep
<1>5. ASSUME NEW s \in Sockets, HelloOk(s)
      PROVE  WsStep /\ UpStep(R)
  <2>1. net'.ws = net.ws
        /\ \A r \in Sockets : \/ net'.up[r] = net.up[r]
                              \/ r = s /\ net'.up[r] = net.up[r] \o Revocations(net.queued)
    BY <1>5, HelloOkIs
  <2>2. net.ws[s] = "open" /\ net.queued \in GrantSets
    BY <1>0, <1>5 DEF HelloOk, Receives, Clients
  <2>3. \A r \in Sockets : net'.up[r] = net.up[r]
          \/ (net.ws[r] = "open" /\ Behind(net.up[r], net'.up[r], R))
    BY <1>0, <2>1, <2>2, BehindRevocations
  <2> QED BY <2>1, <2>3 DEF WsStep, UpStep
<1>6. ASSUME NEW s \in Sockets, ToolCall(s)
      PROVE  WsStep /\ UpStep(R)
  <2>1. PICK g \in Grants : g = Head(down[s]).grant
    BY <1>6, ToolCallIs
  <2>2. PICK e \in GoodFrames : e = About("expired", g)
    BY AboutIs DEF FrameTypes
  <2>3. e \in GoodFrames /\ e.type \in R
    BY <2>2 DEF About, Frame
  <2>4. /\ \A r \in Sockets :
             net'.ws[r] = net.ws[r] \/ (net.ws[r] = "opening" /\ net'.ws[r] = "closed")
        /\ \A r \in Sockets :
             net'.up[r] = net.up[r] \/ (net.ws[r] = "open" /\ net'.up[r] = net.up[r] \o <<e>>)
    BY <1>6, <2>1, <2>2, ToolCallIs
  <2>5. \A r \in Sockets : net'.up[r] = net.up[r]
          \/ (net.ws[r] = "open" /\ Behind(net.up[r], net'.up[r], R))
    BY <1>0, <2>3, <2>4, BehindOne
  <2> QED BY <2>4, <2>5 DEF WsStep, UpStep
<1>7. ASSUME NEW s \in Sockets, WsOpens(s)
      PROVE  WsStep
  <2>1. net' = Greeted(net, s) /\ net.ws[s] = "opening"
    BY <1>7 DEF WsOpens
  <2>2. \A r \in Sockets : net'.ws[r] = IF r = s THEN "open" ELSE net.ws[r]
    BY <1>0, <2>1, GreetedIs
  <2> QED BY <2>1, <2>2 DEF WsStep
<1>8. ASSUME NEW s \in Sockets, HostCloses(s)
      PROVE  WsStep /\ UpStep(R)
  <2>1. net' = Becomes(net, s, "down") /\ "down" \in Transports
    BY <1>8 DEF HostCloses, Transports
  <2>2. net'.up = net.up /\ \A r \in Sockets : net'.ws[r] = IF r = s THEN "down" ELSE net.ws[r]
    BY <1>0, <2>1, BecomesIs
  <2> QED BY <2>2 DEF WsStep, UpStep
<1>9. ASSUME NEW s \in Sockets, Drop(s)
      PROVE  WsStep /\ UpStep(R)
  <2>1. /\ \A r \in Sockets : net'.ws[r] = IF r = s THEN "down" ELSE net.ws[r]
        /\ \A r \in Sockets : net'.up[r] = IF r = s THEN <<>> ELSE net.up[r]
    BY <1>9, DropIs
  <2> QED BY <1>9, <2>1 DEF WsStep, UpStep
<1>10. ASSUME NEW s \in Sockets, WsCloses(s)
       PROVE  WsStep /\ UpStep(R)
  <2>1. PICK k : k = Becomes(net, s, "closed")
    OBVIOUS
  <2>2. "closed" \in Transports
    BY DEF Transports
  <2>3. k \in Clients /\ k.up = net.up
        /\ \A r \in Sockets : k.ws[r] = IF r = s THEN "closed" ELSE net.ws[r]
    BY <1>0, <2>1, <2>2, BecomesIs
  <2>4. net' = AfterClose(k, s)
    BY <1>10, <2>1 DEF WsCloses
  <2>5. net'.up = k.up /\ net'.ws = k.ws
    BY <2>3, <2>4, AfterCloseIs
  <2> QED BY <2>3, <2>5 DEF WsStep, UpStep
<1>11. ASSUME HostStep, NEW s \in Sockets, NEW type, HostHears(s, type)
       PROVE  WsStep /\ UpStep(R)
  <2>1. /\ net.up[s] # <<>> /\ net'.ws = net.ws
        /\ \A r \in Sockets : net'.up[r] = IF r = s THEN Tail(net.up[s]) ELSE net.up[r]
    BY <1>11, HearsIs
  <2> QED BY <1>11, <2>1 DEF WsStep, UpStep
<1>12. ASSUME HostStep, HostRestarts
       PROVE  WsStep /\ UpStep(R)
  <2>1. net'.ws = net.ws /\ \A r \in Sockets : net'.up[r] = <<>>
    BY <1>12, RestartIs
  <2> QED BY <1>12, <2>1 DEF WsStep, UpStep
<1>13. ASSUME NEW g \in Grants, TabRead(g)
       PROVE  WsStep
  <2>1. \A r \in Sockets :
          net'.ws[r] = net.ws[r] \/ (net.ws[r] = "opening" /\ net'.ws[r] = "closed")
    BY <1>13, TabReadIs
  <2> QED BY <2>1 DEF WsStep
<1>14. CASE PanelStep
  <2>1. UNCHANGED net \/ (\E p \in Panels : ClosePanel(p))
        \/ (\E p \in Panels, s \in Sockets : Connect(p, s))
        \/ (\E g \in Grants : Cancel(g)) \/ (\E g \in Grants : TabRead(g))
    BY <1>14 DEF PanelStep, OpenPanel, CreateRequest, TabRefused
  <2> QED BY <1>1, <1>2, <1>3, <1>4, <1>13, <2>1
<1>15. CASE TimerStep
  BY <1>1, <1>4, <1>15 DEF TimerStep, AckTimeout
<1>16. CASE FrameStep
  BY <1>1, <1>5, <1>6, <1>16 DEF FrameStep, Accepted, Rejected, HostRevoked
<1>17. CASE WireStep
  BY <1>7, <1>8, <1>9, <1>10, <1>17 DEF WireStep
<1>18. CASE HostStep
  BY <1>1, <1>11, <1>12, <1>18 DEF HostStep, HostWelcomes, HostAccepts, HostRejects,
     HostHearsRevoke, HostRevokes, HostCalls, HostSeesClose
<1> QED BY <1>14, <1>15, <1>16, <1>17, <1>18 DEF Next

-----------------------------------------------------------------------------
(* The inductive invariant *)

(* What the client knows of the host is of this host process, or nothing.  *)
Fresh == net.lastId \in {0, host.id}

(* The socket s has not said hello yet, or the host has not heard it.      *)
Greets(s) ==
    \/ net.ws[s] \in {"unused", "opening"}
    \/ \E i \in DOMAIN net.up[s] : net.up[s][i].type = "hello"

(* A socket says hello once and first, and no connection is named after it *)
(* before the host has heard that.                                         *)
HelloFirst ==
    \A s \in Sockets :
      /\ net.ws[s] \in {"unused", "opening"} => net.up[s] = <<>>
      /\ \A i \in DOMAIN net.up[s] : net.up[s][i].type = "hello" => i = 1
      /\ Greets(s) => net.lastId # s /\ host.id # s /\ host.live # s

(* What is on its way from the host is of its present process, and whoever *)
(* hears from it has met it first.                                         *)
Oks(s) == {i \in DOMAIN down[s] : down[s][i].type = "ok"}

Voice ==
    /\ host.live # 0 /\ Reachable(host.live) => Fresh \/ Oks(host.live) # {}
    /\ \A s \in Sockets : \A i \in DOMAIN down[s] :
         /\ down[s][i].type \in {"ok", "accepted"} => down[s][i].id = host.id
         /\ down[s][i].type = "accepted" => Fresh \/ \E j \in Oks(s) : j < i

(* The client is connected in some session, and revocations wait only while *)
(* it is owned and not connected.                                          *)
Link ==
    /\ net.state = "connected" => net.lastId # 0
    /\ ~net.owned => net.queued = {} /\ net.socket = 0
    /\ Connected(net) => net.queued = {}

(* The extension's grants and offers are of the session the client is in,  *)
(* and there are none without a panel.                                     *)
Scope ==
    /\ offered # {} => net.lastId # 0
    /\ \A g \in Grants : vault[g] = "accepted" => session[g] = net.lastId /\ net.lastId # 0
    /\ \A g \in offered : vault[g] # "none" /\ g \notin bound
    /\ \A g \in bound : vault[g] = "accepted"
    /\ AuthorityNeedsPanel
    /\ (\A p \in Panels : panel[p] # "open") => net.socket = 0

(* A grant is offered once: the host has its offer before it, its record,  *)
(* or has given it up.                                                     *)
Sending(g) == \E s \in Sockets : About("put", g) \in Range(net.up[s])
Ending(g) == \E s \in Sockets : About("revoke", g) \in Range(down[s])
GivenUp(g) == g \in host.outbox \/ Ending(g)
Accepting(g) ==
    \E s \in Sockets : \E f \in Range(down[s]) : f.type = "accepted" /\ f.grant = g

OfferedOnce ==
    \A g \in Grants :
      /\ asker[g] = NoPanel => g \notin reading
      /\ asker[g] = NoPanel \/ g \in reading =>
           /\ vault[g] = "none" /\ g \notin host.records
           /\ ~Sending(g) /\ ~GivenUp(g) /\ ~Accepting(g)
      /\ Sending(g) => g \notin host.records
      /\ Sending(g) \/ g \in host.records => ~GivenUp(g)

OneOffer ==
    \A g \in Grants : \A s, r \in Sockets :
      \A i \in DOMAIN net.up[s], j \in DOMAIN net.up[r] :
        net.up[s][i] = About("put", g) /\ net.up[r][j] = About("put", g)
          => s = r /\ i = j

(* A grant that has ended here has a notice of it behind its offer.        *)
Accounted(g) == Live(g) \/ g \in net.queued \/ missed[g] # "no"

Noticed ==
    \A g \in Grants :
      /\ g \in host.records =>
           Accounted(g) \/ \E s \in Sockets : About("revoke", g) \in Range(net.up[s])
      /\ \A s \in Sockets : \A i \in DOMAIN net.up[s] :
           net.up[s][i] = About("put", g) =>
             \/ Accounted(g)
             \/ \E j \in DOMAIN net.up[s] : i < j /\ net.up[s][j] = About("revoke", g)

(* A grant the host has ended has a notice of it on its way here.          *)
Reached(g) == g \in host.records \cup host.outbox \cup unheard \/ Ending(g)

Backed ==
    \A g \in Grants :
      /\ g \in bound => Reached(g) \/ net.lastId # host.id
      /\ Accepting(g) /\ Live(g) => Reached(g)

-----------------------------------------------------------------------------
(* Hellos *)

(* The host hears hello only from a socket it does not know.               *)
LEMMA HelloIsNew ==
    ASSUME Types, HelloFirst, NEW s \in Sockets, HostHears(s, "hello")
    PROVE  /\ host.live # s /\ host.id # s /\ net.lastId # s
           /\ net.ws[s] \notin {"unused", "opening"}
           /\ \A i \in DOMAIN Tail(net.up[s]) : Tail(net.up[s])[i].type # "hello"
<1>1. net.up[s] \in Line /\ net.up[s] # <<>>
  BY DEF Types, Clients, HostHears
<1>2. Head(net.up[s]) = net.up[s][1] /\ 1 \in DOMAIN net.up[s]
  BY <1>1, TailIs
<1>3. net.up[s][1].type = "hello"
  BY <1>2 DEF HostHears
<1>4. Greets(s)
  BY <1>2, <1>3 DEF Greets
<1>5. net.ws[s] \notin {"unused", "opening"}
  BY <1>1 DEF HelloFirst
<1>6. ASSUME NEW i \in DOMAIN Tail(net.up[s])
      PROVE  Tail(net.up[s])[i].type # "hello"
  <2>1. i \in Nat \ {0} /\ i + 1 \in DOMAIN net.up[s] /\ Tail(net.up[s])[i] = net.up[s][i + 1]
    BY <1>1, TailIs
  <2>2. net.up[s][i + 1].type = "hello" => i + 1 = 1
    BY <2>1 DEF HelloFirst
  <2> QED BY <2>1, <2>2
<1> QED BY <1>4, <1>5, <1>6 DEF HelloFirst

(* What the client and the host call their connection.                     *)
LEMMA Ids ==
    ASSUME Types, HelloFirst, Voice, Next
    PROVE  /\ \/ net'.lastId \in {net.lastId, 0}
              \/ (\E s \in Sockets : HelloOk(s)) /\ net'.lastId = host.id /\ host.id # 0
           /\ \/ host'.id \in {host.id, 0} /\ host'.live \in {host.live, 0}
              \/ \E s \in Sockets : HostWelcomes(s) /\ host'.live = s
                                    /\ host'.id \in {s, host.id} /\ (host.id # 0 => host'.id = host.id)
<1> DEFINE L == net'.lastId = net.lastId
           H == host' = host
<1>0. net \in Clients /\ host \in Hosts
  BY DEF Types
<1>1. CASE PanelStep
  <2>1. H
    BY <1>1 DEF PanelStep, OpenPanel, ClosePanel, Connect, CreateRequest, TabRefused, TabRead,
       Cancel, bridgeVars
  <2>2. ASSUME NEW p \in Panels, ClosePanel(p)
        PROVE  net'.lastId = 0
    <3>1. PICK told : net' = Closed(told)
      BY <2>2 DEF ClosePanel
    <3> QED BY <3>1 DEF Closed
  <2>3. ASSUME NEW p \in Panels, NEW s \in Sockets, Connect(p, s)
        PROVE  L
    <3>1. net' = Opened(net, s)
      BY <2>3 DEF Connect
    <3> QED BY <1>0, <3>1, OpenedIs
  <2>4. ASSUME NEW g \in Grants, TabRead(g)
        PROVE  L
    BY <2>4, TabReadIs
  <2>5. ASSUME NEW g \in Grants, Cancel(g)
        PROVE  L
    BY <2>5, RevokesIs DEF Cancel
  <2>6. ASSUME UNCHANGED net
        PROVE  L
    BY <2>6
  <2> QED BY <1>1, <2>1, <2>2, <2>3, <2>4, <2>5, <2>6
          DEF PanelStep, OpenPanel, CreateRequest, TabRefused
<1>2. CASE TimerStep
  <2>1. ASSUME NEW g \in Grants, LocalRevoke(g)
        PROVE  L /\ H
    BY <2>1, RevokesIs DEF LocalRevoke, bridgeVars
  <2>2. ASSUME NEW g \in Grants, AckTimeout(g)
        PROVE  L /\ H
    BY <2>2 DEF AckTimeout, bridgeVars
  <2> QED BY <1>2, <2>1, <2>2 DEF TimerStep
<1>3. CASE FrameStep
  <2>1. ASSUME NEW s \in Sockets, HelloOk(s)
        PROVE  net'.lastId = host.id /\ host.id # 0 /\ H
    <3>1. Receives(s, "ok")
      BY <2>1 DEF HelloOk
    <3>2. down[s] \in Line /\ down[s] # <<>> /\ H /\ Head(down[s]).type = "ok"
      BY <3>1 DEF Types, Mail, Receives
    <3>3. Head(down[s]) = down[s][1] /\ 1 \in DOMAIN down[s]
      BY <3>2, TailIs
    <3>4. Head(down[s]).id = host.id
      BY <3>2, <3>3 DEF Voice
    <3>5. net'.lastId = Head(down[s]).id /\ Head(down[s]).id \in Sockets
      BY <2>1, HelloOkIs
    <3>6. net'.lastId # 0
      BY <3>5 DEF Sockets
    <3> QED BY <3>2, <3>4, <3>5, <3>6
  <2>2. ASSUME NEW s \in Sockets, ToolCall(s)
        PROVE  L /\ H
    BY <2>2, ToolCallIs DEF ToolCall, Receives
  <2>3. ASSUME NEW s \in Sockets, Accepted(s) \/ Rejected(s) \/ HostRevoked(s)
        PROVE  L /\ H
    BY <2>3 DEF Accepted, Rejected, HostRevoked, Receives
  <2> QED BY <1>3, <2>1, <2>2, <2>3 DEF FrameStep
<1>4. CASE WireStep
  <2>1. ASSUME NEW s \in Sockets, WsOpens(s)
        PROVE  L /\ H
    <3>1. net' = Greeted(net, s)
      BY <2>1 DEF WsOpens
    <3>2. L
      BY <1>0, <3>1, GreetedIs
    <3> QED BY <2>1, <3>2 DEF WsOpens, bridgeVars
  <2>2. ASSUME NEW s \in Sockets, HostCloses(s)
        PROVE  L /\ H
    <3>1. net' = Becomes(net, s, "down") /\ "down" \in Transports
      BY <2>2 DEF HostCloses, Transports
    <3>2. L
      BY <1>0, <3>1, BecomesIs
    <3> QED BY <2>2, <3>2 DEF HostCloses, Receives
  <2>3. ASSUME NEW s \in Sockets, Drop(s)
        PROVE  L /\ H
    BY <2>3, DropIs
  <2>4. ASSUME NEW s \in Sockets, WsCloses(s)
        PROVE  L /\ H
    <3>1. PICK k : k = Becomes(net, s, "closed")
      OBVIOUS
    <3>2. "closed" \in Transports
      BY DEF Transports
    <3>3. k \in Clients /\ k.lastId = net.lastId
      BY <1>0, <3>1, <3>2, BecomesIs
    <3>4. net' = AfterClose(k, s)
      BY <2>4, <3>1 DEF WsCloses
    <3>5. net'.lastId = k.lastId
      BY <3>3, <3>4, AfterCloseIs
    <3> QED BY <2>4, <3>3, <3>5 DEF WsCloses, bridgeVars
  <2> QED BY <1>4, <2>1, <2>2, <2>3, <2>4 DEF WireStep
<1>5. CASE HostStep
  <2>1. ASSUME NEW s \in Sockets, HostWelcomes(s)
        PROVE  L /\ host'.live = s /\ host'.id \in {s, host.id} /\ (host.id # 0 => host'.id = host.id)
    <3>1. HostHears(s, "hello")
      BY <2>1 DEF HostWelcomes
    <3>2. host.live # s /\ L
      BY <3>1, HelloIsNew, HearsIs
    <3>3. host'.live = s /\ host'.id = IF host.id # 0 THEN host.id ELSE s
      BY <2>1, <3>2, HostWelcomesIs
    <3> QED BY <3>2, <3>3
  <2>2. ASSUME NEW s \in Sockets, HostAccepts(s)
        PROVE  L /\ host'.id = host.id /\ host'.live = host.live
    <3>1. HostHears(s, "put")
      BY <2>2 DEF HostAccepts
    <3> QED BY <2>2, <3>1, HearsIs, HostAcceptsIs
  <2>3. ASSUME NEW s \in Sockets, HostRejects(s)
        PROVE  L /\ H
    BY <2>3, HearsIs DEF HostRejects
  <2>4. ASSUME NEW s \in Sockets, HostHearsRevoke(s)
        PROVE  L /\ host'.id = host.id /\ host'.live = host.live
    <3>1. L
      BY <2>4, HearsIs DEF HostHearsRevoke
    <3>2. PICK g : g = Head(net.up[s]).grant
      OBVIOUS
    <3>3. CASE g \in host.records
      <4>1. g \in Grants /\ HostForgets(g)
        BY <1>0, <2>4, <3>2, <3>3 DEF HostHearsRevoke, Hosts, GrantSets
      <4> QED BY <3>1, <4>1, ForgetsIs
    <3>4. CASE g \notin host.records
      BY <2>4, <3>1, <3>2, <3>4 DEF HostHearsRevoke
    <3> QED BY <3>3, <3>4
  <2>5. ASSUME NEW g \in Grants, HostRevokes(g)
        PROVE  L /\ host'.id = host.id /\ host'.live = host.live
    BY <2>5, ForgetsIs DEF HostRevokes
  <2>6. ASSUME NEW g \in Grants, HostCalls(g)
        PROVE  L /\ H
    BY <2>6 DEF HostCalls
  <2>7. CASE HostSeesClose
    BY <1>0, <2>7 DEF HostSeesClose, Hosts
  <2>8. CASE HostRestarts
    BY <2>8, RestartIs
  <2> QED BY <1>5, <2>1, <2>2, <2>3, <2>4, <2>5, <2>6, <2>7, <2>8 DEF HostStep
<1> QED BY <1>1, <1>2, <1>3, <1>4, <1>5 DEF Next

LEMMA HelloFirstStep ==
    ASSUME Types, Types', HelloFirst, Voice,
           Drained, Next
    PROVE  HelloFirst'
<1> DEFINE R == {"revoke", "expired", "put"}
           First(s) == /\ net'.ws[s] \in {"unused", "opening"} => net'.up[s] = <<>>
                       /\ \A i \in DOMAIN net'.up[s] : net'.up[s][i].type = "hello" => i = 1
<1>0. WsStep /\ (\A r \in Sockets : net.up[r] \in Line) /\ (\A r \in Sockets : net'.up[r] \in Line)
  BY Upward DEF Types, Clients
<1>1. ASSUME UpStep(R), NEW s \in Sockets
      PROVE  First(s) /\ (Greets(s)' => Greets(s))
  <2>1. net.up[s] \in Line /\ net'.up[s] \in Line
    BY <1>0
  <2>2. net'.ws[s] \in {"unused", "opening"} => net.ws[s] \in {"unused", "opening"} /\ net.up[s] = <<>>
    BY <1>0 DEF WsStep, HelloFirst
  <2>3. \A i \in DOMAIN net.up[s] : net.up[s][i].type = "hello" => i = 1
    BY DEF HelloFirst
  <2>4. CASE net'.up[s] = net.up[s]
    BY <2>2, <2>3, <2>4 DEF Greets
  <2>5. CASE net'.up[s] = <<>>
    BY <2>2, <2>5, EmptyIs DEF Greets
  <2>6. CASE net.up[s] # <<>> /\ net'.up[s] = Tail(net.up[s])
    <3>1. \A i \in DOMAIN net'.up[s] : i \in Nat \ {0} /\ i + 1 \in DOMAIN net.up[s]
                                       /\ net'.up[s][i] = net.up[s][i + 1]
      BY <2>1, <2>6, TailIs
    <3>2. \A i \in DOMAIN net'.up[s] : net'.up[s][i].type # "hello"
      <4> SUFFICES ASSUME NEW i \in DOMAIN net'.up[s]
                   PROVE  net'.up[s][i].type # "hello"
        OBVIOUS
      <4>1. net.up[s][i + 1].type = "hello" => i + 1 = 1
        BY <2>3, <3>1
      <4> QED BY <3>1, <4>1
    <3> QED BY <2>2, <2>6, <3>2 DEF Greets
  <2>7. CASE net.ws[s] = "open" /\ Behind(net.up[s], net'.up[s], R)
    <3>1. PICK more \in Line : net'.up[s] = net.up[s] \o more /\ \A f \in Range(more) : f.type \in R
      BY <2>7 DEF Behind
    <3>2. \A j \in DOMAIN more : more[j].type # "hello"
      BY <3>1 DEF Range
    <3>3. \A i \in DOMAIN net'.up[s] :
             \/ i \in DOMAIN net.up[s] /\ net'.up[s][i] = net.up[s][i]
             \/ \E j \in DOMAIN more : net'.up[s][i] = more[j]
      BY <2>1, <3>1, JoinedIs, SMTT(40)
    <3>4. \A i \in DOMAIN net'.up[s] : net'.up[s][i].type = "hello" =>
             i \in DOMAIN net.up[s] /\ net.up[s][i].type = "hello"
      BY <3>2, <3>3
    <3> QED BY <2>2, <2>3, <2>7, <3>4 DEF Greets
  <2> QED BY <1>1, <2>4, <2>5, <2>6, <2>7 DEF UpStep
<1>2. ASSUME UpStep(R)
      PROVE  HelloFirst'
  <2>1. \A s \in Sockets : s # 0
    BY DEF Sockets
  <2>2. CASE \E t \in Sockets : HostWelcomes(t)
    <3>1. PICK t \in Sockets : HostWelcomes(t)
      BY <2>2
    <3>2. HostHears(t, "hello")
      BY <3>1 DEF HostWelcomes
    <3>3. /\ net'.lastId = net.lastId /\ net'.ws = net.ws
          /\ net'.up[t] = Tail(net.up[t])
      BY <3>2, HearsIs
    <3>4. ~Greets(t)'
      BY <3>2, <3>3, HelloIsNew DEF Greets
    <3>5. host.live # t
      BY <3>2, HelloIsNew
    <3>6. host'.live = t /\ host'.id \in {t, host.id}
      BY <3>1, <3>5, HostWelcomesIs
    <3>7. ASSUME NEW s \in Sockets, Greets(s)'
          PROVE  net'.lastId # s /\ host'.id # s /\ host'.live # s
      <4>1. s # t /\ Greets(s)
        BY <1>1, <1>2, <3>4, <3>7
      <4> QED BY <3>3, <3>6, <4>1 DEF HelloFirst
    <3> QED BY <1>1, <1>2, <3>7 DEF HelloFirst
  <2>3. CASE ~ \E t \in Sockets : HostWelcomes(t)
    <3>1. net'.lastId \in {net.lastId, 0, host.id}
      BY Ids
    <3>2. host'.id \in {host.id, 0} /\ host'.live \in {host.live, 0}
      BY <2>3, Ids
    <3>3. ASSUME NEW s \in Sockets, Greets(s)'
          PROVE  net'.lastId # s /\ host'.id # s /\ host'.live # s
      <4>1. Greets(s)
        BY <1>1, <1>2, <3>3
      <4> QED BY <2>1, <3>1, <3>2, <4>1 DEF HelloFirst
    <3> QED BY <1>1, <1>2, <3>3 DEF HelloFirst
  <2> QED BY <2>2, <2>3
<1>3. ASSUME NEW t \in Sockets, WsOpens(t)
      PROVE  HelloFirst'
  <2>1. net \in Clients /\ net' = Greeted(net, t) /\ net.ws[t] = "opening"
    BY <1>3 DEF WsOpens, Types
  <2>2. /\ net'.lastId = net.lastId
        /\ \A r \in Sockets : net'.ws[r] = IF r = t THEN "open" ELSE net.ws[r]
        /\ \A r \in Sockets : net'.up[r] = IF r = t /\ net.socket = t
                                           THEN net.up[r] \o <<Hello>> ELSE net.up[r]
    BY <2>1, GreetedIs
  <2>3. host' = host
    BY <1>3 DEF WsOpens, bridgeVars
  <2>4. net.up[t] = <<>> /\ Greets(t)
    BY <2>1 DEF HelloFirst, Greets
  <2>5. net'.up[t] = <<Hello>> \/ net'.up[t] = <<>>
    <3>1. PICK f \in GoodFrames : f = Hello
      BY FramesOfHost
    <3>2. <<>> \o <<f>> = <<f>>
      OBVIOUS
    <3> QED BY <2>2, <2>4, <3>1, <3>2
  <2>6. \A i \in DOMAIN net'.up[t] : i = 1
    BY <2>5, FramesOfHost, OneIs, EmptyIs
  <2>7. ASSUME NEW s \in Sockets
        PROVE  First(s) /\ (Greets(s)' => Greets(s))
    <3>1. CASE s = t
      BY <2>2, <2>4, <2>6, <3>1
    <3>2. CASE s # t
      BY <2>2, <3>2 DEF HelloFirst, Greets
    <3> QED BY <3>1, <3>2
  <2> QED BY <2>2, <2>3, <2>7 DEF HelloFirst
<1>4. ASSUME NEW g \in Grants, TabRead(g)
      PROVE  UpStep(R)
  <2>1. PICK f \in GoodFrames : f = About("put", g)
    BY AboutIs DEF FrameTypes
  <2>2. f \in GoodFrames /\ f.type \in R
    BY <2>1 DEF About, Frame
  <2>3. \A r \in Sockets :
          net'.up[r] = net.up[r] \/ (net.ws[r] = "open" /\ net'.up[r] = net.up[r] \o <<f>>)
    BY <1>4, <2>1, TabReadIs
  <2>4. \A r \in Sockets :
          net'.up[r] = net.up[r] \/ (net.ws[r] = "open" /\ Behind(net.up[r], net'.up[r], R))
    BY <1>0, <2>2, <2>3, BehindOne
  <2> QED BY <2>4 DEF UpStep
<1>5. ASSUME UpStep({"revoke", "expired"})
      PROVE  UpStep(R)
  BY <1>5 DEF UpStep, Behind
<1> QED BY <1>2, <1>3, <1>4, <1>5, Upward

-----------------------------------------------------------------------------
(* Whoever hears from the host has met it *)

DownStep ==
    \A r \in Sockets :
      \/ down'[r] = down[r]
      \/ down[r] # <<>> /\ Head(down[r]).type # "ok" /\ down'[r] = Tail(down[r])
      \/ down'[r] = <<>> /\ ~Reachable(r)'
      \/ Behind(down[r], down'[r], {"revoke", "error", "call"})

LEMMA VoiceKept ==
    ASSUME Types, Types', HelloFirst, Voice, WsStep, DownStep,
           net'.lastId \in {net.lastId, 0}, host'.id = host.id, host'.live \in {host.live, 0}
    PROVE  Voice'
<1>0. /\ \A r \in Sockets : down[r] \in Line /\ down'[r] \in Line
      /\ host.live \in Sockets \cup {0}
  BY DEF Types, Mail, Hosts
<1>1. Fresh => Fresh'
  BY DEF Fresh
<1> DEFINE Told(s) ==
             \A i \in DOMAIN down[s] :
               /\ down[s][i].type \in {"ok", "accepted"} => down[s][i].id = host.id
               /\ down[s][i].type = "accepted" => Fresh \/ \E j \in Oks(s) : j < i
           Told1(s) ==
             \A i \in DOMAIN down'[s] :
               /\ down'[s][i].type \in {"ok", "accepted"} => down'[s][i].id = host'.id
               /\ down'[s][i].type = "accepted" => Fresh' \/ \E j \in Oks(s)' : j < i
<1>2. ASSUME NEW s \in Sockets
      PROVE  Told1(s) /\ (Reachable(s)' /\ Oks(s) # {} => Oks(s)' # {})
  <2>0. Told(s) /\ down[s] \in Line /\ down'[s] \in Line
    BY <1>0 DEF Voice
  <2>1. CASE down'[s] = down[s]
    BY <1>1, <2>0, <2>1 DEF Oks
  <2>2. CASE down[s] # <<>> /\ Head(down[s]).type # "ok" /\ down'[s] = Tail(down[s])
    <3>1. /\ Head(down[s]) = down[s][1]
          /\ \A i \in DOMAIN down'[s] : i \in Nat \ {0} /\ i + 1 \in DOMAIN down[s]
                                        /\ down'[s][i] = down[s][i + 1]
          /\ \A i \in DOMAIN down[s] : i \in Nat \ {0} /\ (i = 1 \/ (i - 1 \in DOMAIN down'[s]
                                        /\ down'[s][i - 1] = down[s][i]))
      BY <2>0, <2>2, TailIs
    <3>2. ASSUME NEW j \in Oks(s)
          PROVE  j \in Nat /\ j - 1 \in Oks(s)'
      <4>1. j \in DOMAIN down[s] /\ down[s][j].type = "ok"
        BY <3>2 DEF Oks
      <4>2. j # 1 /\ j \in Nat
        BY <2>2, <3>1, <4>1
      <4> QED BY <3>1, <4>1, <4>2 DEF Oks
    <3>3. ASSUME NEW i \in DOMAIN down'[s]
          PROVE  /\ down'[s][i].type \in {"ok", "accepted"} => down'[s][i].id = host'.id
                 /\ down'[s][i].type = "accepted" => Fresh' \/ \E j \in Oks(s)' : j < i
      <4>1. i \in Nat /\ i + 1 \in DOMAIN down[s] /\ down'[s][i] = down[s][i + 1]
        BY <3>1
      <4>2. down'[s][i].type = "accepted" => Fresh \/ \E j \in Oks(s) : j < i + 1
        BY <2>0, <4>1
      <4>3. ASSUME NEW j \in Oks(s), j < i + 1
            PROVE  \E k \in Oks(s)' : k < i
        BY <3>2, <4>1, <4>3
      <4> QED BY <1>1, <2>0, <4>1, <4>2, <4>3
    <3> QED BY <3>2, <3>3
  <2>3. CASE down'[s] = <<>> /\ ~Reachable(s)'
    BY <2>3, EmptyIs
  <2>4. CASE Behind(down[s], down'[s], {"revoke", "error", "call"})
    <3>1. PICK more \in Line : down'[s] = down[s] \o more
                               /\ \A f \in Range(more) : f.type \in {"revoke", "error", "call"}
      BY <2>4 DEF Behind
    <3>2. \A j \in DOMAIN more : more[j].type \notin {"ok", "accepted"}
      BY <3>1 DEF Range
    <3>3. /\ \A i \in DOMAIN down[s] : i \in DOMAIN down'[s] /\ down'[s][i] = down[s][i]
          /\ \A i \in DOMAIN down'[s] :
               \/ i \in DOMAIN down[s] /\ down'[s][i] = down[s][i]
               \/ \E j \in DOMAIN more : down'[s][i] = more[j]
      <4>1. PICK p : p = down'[s]
        OBVIOUS
      <4>2. down[s] \in Line /\ p = down[s] \o more
        BY <1>0, <3>1, <4>1
      <4>3. /\ \A i \in DOMAIN down[s] : i \in DOMAIN p /\ p[i] = down[s][i]
            /\ \A i \in DOMAIN p :
                 \/ i \in DOMAIN down[s] /\ p[i] = down[s][i]
                 \/ \E j \in DOMAIN more : p[i] = more[j]
        BY <3>1, <4>2, JoinedIs, SMTT(40)
      <4> QED BY <4>1, <4>3
    <3>4. \A i \in DOMAIN down'[s] : down'[s][i].type \in {"ok", "accepted"} =>
             i \in DOMAIN down[s] /\ down'[s][i] = down[s][i]
      BY <3>2, <3>3
    <3>5. \A j \in Oks(s) : j \in Oks(s)'
      BY <3>3 DEF Oks
    <3>6. ASSUME NEW i \in DOMAIN down'[s]
          PROVE  /\ down'[s][i].type \in {"ok", "accepted"} => down'[s][i].id = host'.id
                 /\ down'[s][i].type = "accepted" => Fresh' \/ \E j \in Oks(s)' : j < i
      <4>1. CASE down'[s][i].type \in {"ok", "accepted"}
        <5>1. i \in DOMAIN down[s] /\ down'[s][i] = down[s][i]
          BY <3>4, <4>1
        <5> QED BY <1>1, <2>0, <3>5, <5>1
      <4>2. CASE down'[s][i].type \notin {"ok", "accepted"}
        BY <4>2
      <4> QED BY <4>1, <4>2
    <3> QED BY <3>5, <3>6
  <2> QED BY <2>1, <2>2, <2>3, <2>4 DEF DownStep
<1>3. ASSUME NEW l \in Sockets, l = host'.live, Reachable(l)'
      PROVE  Fresh' \/ Oks(l)' # {}
  <2>1. l = host.live
    BY <1>3 DEF Sockets
  <2>2. net.ws[l] \notin {"unused", "opening"}
    BY <2>1 DEF HelloFirst, Greets
  <2>3. Reachable(l)'
    BY <1>3
  <2>4. Reachable(l)
    BY <2>2, <2>3 DEF WsStep, Reachable
  <2>5. Fresh \/ Oks(l) # {}
    BY <2>1, <2>4 DEF Voice, Sockets
  <2> QED BY <1>1, <1>2, <2>1, <2>3, <2>5
<1>4. host'.live # 0 => host'.live \in Sockets
  BY <1>0
<1> QED BY <1>2, <1>3, <1>4 DEF Voice, Oks, Reachable

LEMMA JoinedFrom ==
    ASSUME NEW q \in Line, NEW more \in Line, NEW p, p = q \o more
    PROVE  /\ \A i \in DOMAIN q : i \in DOMAIN p /\ p[i] = q[i]
           /\ \A i \in DOMAIN p :
                \/ i \in DOMAIN q /\ p[i] = q[i]
                \/ \E j \in DOMAIN more : p[i] = more[j]
<1>1. \A i \in DOMAIN q : i \in DOMAIN p /\ p[i] = q[i]
  BY JoinedIs
<1>2. \A i \in DOMAIN p :
        \/ i \in DOMAIN q /\ p[i] = q[i]
        \/ \E j \in DOMAIN more : i = Len(q) + j /\ p[i] = more[j]
  BY JoinedIs
<1> QED BY <1>1, <1>2

LEMMA SaysDown ==
    ASSUME Types, NEW s \in Sockets, NEW f \in GoodFrames, f.type \in {"revoke", "error", "call"},
           \A r \in Sockets : down'[r] = down[r] \/ down'[r] = down[r] \o <<f>>
    PROVE  DownStep
<1>1. \A r \in Sockets : down[r] \in Line
  BY DEF Types, Mail
<1>2. \A r \in Sockets : down'[r] = down[r] \/ Behind(down[r], down'[r], {"revoke", "error", "call"})
  BY <1>1, BehindOne
<1> QED BY <1>2 DEF DownStep

LEMMA Downward ==
    ASSUME Types, HelloFirst, Voice, Next
    PROVE  \/ DownStep /\ host'.id = host.id
           \/ \E s \in Sockets : HelloOk(s) \/ HostWelcomes(s) \/ HostAccepts(s)
           \/ HostRestarts
<1> DEFINE Kept == DownStep /\ host'.id = host.id
<1>1. CASE down' = down /\ host' = host
  BY <1>1 DEF DownStep
<1>2. ASSUME NEW s \in Sockets, NEW type \in {"accepted", "error", "revoke", "call", "bye"},
             Receives(s, type)
      PROVE  Kept
  <2>1. /\ down[s] # <<>> /\ Head(down[s]).type # "ok" /\ host' = host
        /\ \A r \in Sockets : down'[r] = IF r = s THEN Tail(down[s]) ELSE down[r]
    BY <1>2, ReceivesIs
  <2> QED BY <2>1 DEF DownStep
<1>3. ASSUME NEW s \in Sockets, Drop(s)
      PROVE  Kept
  <2>1. /\ \A r \in Sockets : down'[r] = IF r = s THEN <<>> ELSE down[r]
        /\ net'.ws[s] = "down" /\ host' = host
    BY <1>3, DropIs
  <2>2. ~Reachable(s)'
    BY <2>1 DEF Reachable
  <2> QED BY <2>1, <2>2 DEF DownStep
<1>4. ASSUME NEW g \in Grants, HostForgets(g)
      PROVE  Kept
  <2>1. PICK f \in GoodFrames : f = About("revoke", g)
    BY AboutIs DEF FrameTypes
  <2>2. f \in GoodFrames /\ f.type \in {"revoke", "error", "call"}
    BY <2>1 DEF About, Frame
  <2>3. /\ host'.id = host.id
        /\ \A r \in Sockets : down'[r] = down[r] \/ down'[r] = down[r] \o <<f>>
    BY <1>4, <2>1, ForgetsIs
  <2>4. CASE Sockets = {}
    BY <2>3, <2>4 DEF DownStep
  <2>5. CASE Sockets # {}
    BY <2>2, <2>3, <2>5, SaysDown
  <2> QED BY <2>4, <2>5
<1>5. ASSUME NEW s \in Sockets, HostRejects(s)
      PROVE  Kept
  <2>1. PICK f \in GoodFrames : f = Frame("error", 0, 0)
    BY FramesOfHost
  <2>2. f \in GoodFrames /\ f.type \in {"revoke", "error", "call"}
    BY <2>1, FramesOfHost
  <2>3. down' = Mailed(down, s, <<f>>) /\ host' = host
    BY <1>5, <2>1 DEF HostRejects
  <2>4. \A r \in Sockets : down'[r] = down[r] \/ down'[r] = down[r] \o <<f>>
    BY <2>2, <2>3, SaysIs
  <2> QED BY <2>2, <2>3, <2>4, SaysDown
<1>6. ASSUME NEW g \in Grants, HostCalls(g)
      PROVE  Kept
  <2>1. host.live \in Sockets
    BY <1>6 DEF HostCalls, Types, Hosts
  <2>2. PICK f \in GoodFrames : f = About("call", g)
    BY AboutIs DEF FrameTypes
  <2>3. PICK s \in Sockets : s = host.live
    BY <2>1
  <2>4. f \in GoodFrames /\ f.type \in {"revoke", "error", "call"}
    BY <2>2 DEF About, Frame
  <2>5. down' = Mailed(down, s, <<f>>) /\ s \in Sockets /\ host' = host
    BY <1>6, <2>2, <2>3 DEF HostCalls
  <2>6. \A r \in Sockets : down'[r] = down[r] \/ down'[r] = down[r] \o <<f>>
    BY <2>4, <2>5, SaysIs
  <2> QED BY <2>4, <2>5, <2>6, SaysDown
<1>7. ASSUME NEW s \in Sockets, HostHearsRevoke(s)
      PROVE  Kept
  <2>1. PICK g : g = Head(net.up[s]).grant
    OBVIOUS
  <2>2. CASE g \in host.records
    <3>1. g \in Grants /\ HostForgets(g)
      BY <1>7, <2>1, <2>2 DEF HostHearsRevoke, Types, Hosts, GrantSets
    <3> QED BY <1>4, <3>1
  <2>3. CASE g \notin host.records
    <3>1. down' = down /\ host' = host
      BY <1>7, <2>1, <2>3 DEF HostHearsRevoke
    <3> QED BY <3>1 DEF DownStep
  <2> QED BY <2>2, <2>3
<1>8. CASE HostSeesClose
  <2>1. down' = down /\ host'.id = host.id
    BY <1>8 DEF HostSeesClose, Types, Hosts
  <2> QED BY <2>1 DEF DownStep
<1>9. CASE PanelStep
  BY <1>1, <1>9 DEF PanelStep, OpenPanel, ClosePanel, Connect, CreateRequest, TabRefused,
     TabRead, Cancel, bridgeVars
<1>10. CASE TimerStep
  BY <1>1, <1>10 DEF TimerStep, LocalRevoke, AckTimeout, bridgeVars
<1>11. CASE FrameStep
  BY <1>2, <1>11 DEF FrameStep, Accepted, Rejected, HostRevoked, ToolCall
<1>12. CASE WireStep
  BY <1>1, <1>2, <1>3, <1>12 DEF WireStep, WsOpens, HostCloses, WsCloses, bridgeVars
<1>13. CASE HostStep
  BY <1>4, <1>5, <1>6, <1>7, <1>8, <1>13 DEF HostStep, HostRevokes
<1> QED BY <1>9, <1>10, <1>11, <1>12, <1>13 DEF Next

LEMMA VoiceStep ==
    ASSUME Types, Types', HelloFirst, Voice, Drained, Next
    PROVE  Voice'
<1>0. /\ WsStep
      /\ \A r \in Sockets : down[r] \in Line /\ down'[r] \in Line
      /\ host.live \in Sockets \cup {0} /\ host.id \in Sockets \cup {0} /\ 0 \notin Sockets
      /\ host.live # 0 => host.id # 0
  BY Upward DEF Types, Mail, Hosts, Sockets
<1>1. ASSUME NEW s \in Sockets, HelloOk(s)
      PROVE  Voice'
  <2>1. Receives(s, "ok")
    BY <1>1 DEF HelloOk
  <2>2. /\ down[s] # <<>> /\ host' = host
        /\ \A r \in Sockets : down'[r] = IF r = s THEN Tail(down[s]) ELSE down[r]
    BY <2>1, ReceivesIs
  <2>3. net'.lastId = host.id
    <3>1. Head(down[s]) = down[s][1] /\ 1 \in DOMAIN down[s] /\ Head(down[s]).type = "ok"
      BY <1>0, <2>1, <2>2, TailIs DEF Receives
    <3>2. net'.lastId = Head(down[s]).id
      BY <1>1, HelloOkIs
    <3> QED BY <3>1, <3>2 DEF Voice
  <2>4. Fresh'
    BY <2>2, <2>3 DEF Fresh
  <2>5. ASSUME NEW r \in Sockets, NEW i \in DOMAIN down'[r], down'[r][i].type \in {"ok", "accepted"}
        PROVE  down'[r][i].id = host'.id
    <3>1. CASE r = s
      <4>0. PICK d, t : d = down[s] /\ t = Tail(d)
        OBVIOUS
      <4>1. d \in Line /\ d # <<>> /\ down'[s] = t
        BY <1>0, <2>2, <4>0
      <4>2. \A k \in DOMAIN t : k \in Nat \ {0} /\ k + 1 \in DOMAIN d /\ t[k] = d[k + 1]
        BY <4>0, <4>1, TailIs
      <4>3. i + 1 \in DOMAIN down[s] /\ down'[s][i] = down[s][i + 1]
        BY <2>5, <3>1, <4>0, <4>1, <4>2
      <4> QED BY <2>2, <2>5, <3>1, <4>3 DEF Voice
    <3>2. CASE r # s
      BY <2>2, <2>5, <3>2 DEF Voice
    <3> QED BY <3>1, <3>2
  <2> QED BY <2>4, <2>5 DEF Voice
<1>2. ASSUME NEW s \in Sockets, HostWelcomes(s)
      PROVE  Voice'
  <2>1. HostHears(s, "hello")
    BY <1>2 DEF HostWelcomes
  <2>2. net'.lastId = net.lastId /\ net'.ws = net.ws /\ host.live # s /\ host.id # s
    BY <2>1, HearsIs, HelloIsNew
  <2>3. PICK id, more : /\ id = IF host.id # 0 THEN host.id ELSE s
                        /\ more = <<Frame("ok", 0, id)>> \o Revocations(host.outbox)
    OBVIOUS
  <2>4. /\ id \in Sockets /\ more \in Line
        /\ host'.live = s /\ host'.id = id
        /\ \A r \in Sockets :
             down'[r] = IF r = s
                        THEN IF Reachable(r) THEN down[r] \o more ELSE down[r]
                        ELSE IF r = host.live /\ Reachable(r)
                        THEN down[r] \o <<Frame("bye", 0, 0)>> ELSE down[r]
    BY <1>2, <2>2, <2>3, HostWelcomesIs
  <2>5. PICK ok, rest : ok = <<Frame("ok", 0, id)>> /\ rest = Revocations(host.outbox)
    OBVIOUS
  <2>6. /\ Frame("ok", 0, id) \in GoodFrames /\ Frame("ok", 0, id).type = "ok"
        /\ Frame("ok", 0, id).id = id
    BY <2>4, FramesOfHost
  <2>7. ok \in Line /\ DOMAIN ok = {1} /\ ok[1] = Frame("ok", 0, id)
    BY <2>5, <2>6, OneIs
  <2>8. rest \in Line /\ \A i \in DOMAIN rest : rest[i].type = "revoke"
    <3>1. host.outbox \in GrantSets
      BY DEF Types, Hosts
    <3>2. rest \in Line /\ \A i \in DOMAIN rest : \E g \in host.outbox : rest[i] = About("revoke", g)
      BY <2>5, <3>1, RevocationsAre
    <3> QED BY <3>2 DEF About, Frame
  <2>9. more = ok \o rest
    BY <2>3, <2>5
  <2>10. /\ 1 \in DOMAIN more /\ more[1] = Frame("ok", 0, id)
         /\ \A i \in DOMAIN more : more[i].type # "accepted" /\ (more[i].type = "ok" => more[i].id = id)
    <3>0. ok \in Line /\ rest \in Line
      BY <2>7, <2>8
    <3>1. /\ \A i \in DOMAIN ok : i \in DOMAIN more /\ more[i] = ok[i]
          /\ \A i \in DOMAIN more : \/ i \in DOMAIN ok /\ more[i] = ok[i]
                                    \/ \E j \in DOMAIN rest : more[i] = rest[j]
      BY <2>9, <3>0, JoinedFrom
    <3> QED BY <2>6, <2>7, <2>8, <3>1
  <2>11. ASSUME NEW r \in Sockets, NEW i \in DOMAIN down[r], down[r][i].type \in {"ok", "accepted"}
         PROVE  host.id # 0 /\ down[r][i].id = host.id /\ host'.id = host.id
    <3>1. down[r][i] \in GoodFrames
      BY <1>0, RangeLine DEF Range
    <3>2. down[r][i].id # 0 /\ down[r][i].id = host.id
      BY <2>11, <3>1, FrameIs DEF Voice
    <3> QED BY <2>3, <2>4, <3>2
  <2>12. PICK bye : bye = <<Frame("bye", 0, 0)>>
    OBVIOUS
  <2>13. bye \in Line /\ \A i \in DOMAIN bye : bye[i].type = "bye"
    BY <2>12, FramesOfHost, OneIs
  <2>14. ASSUME NEW r \in Sockets
         PROVE  /\ \A i \in DOMAIN down[r] : i \in DOMAIN down'[r] /\ down'[r][i] = down[r][i]
                /\ \A i \in DOMAIN down'[r] :
                     \/ i \in DOMAIN down[r] /\ down'[r][i] = down[r][i]
                     \/ \E j \in DOMAIN more : down'[r][i] = more[j]
                     \/ down'[r][i].type = "bye"
    <3>0. PICK p, d : p = down'[r] /\ d = down[r]
      OBVIOUS
    <3>1. d \in Line /\ more \in Line /\ bye \in Line
      BY <1>0, <2>4, <2>13, <3>0
    <3>2. CASE p = d
      BY <3>0, <3>2
    <3>3. CASE p = d \o more
      <4>1. /\ \A i \in DOMAIN d : i \in DOMAIN p /\ p[i] = d[i]
            /\ \A i \in DOMAIN p :
                 \/ i \in DOMAIN d /\ p[i] = d[i]
                 \/ \E j \in DOMAIN more : p[i] = more[j]
        BY <3>1, <3>3, JoinedFrom, SMTT(40)
      <4> QED BY <3>0, <4>1
    <3>4. CASE p = d \o bye
      <4>1. /\ \A i \in DOMAIN d : i \in DOMAIN p /\ p[i] = d[i]
            /\ \A i \in DOMAIN p :
                 \/ i \in DOMAIN d /\ p[i] = d[i]
                 \/ \E j \in DOMAIN bye : p[i] = bye[j]
        BY <3>1, <3>4, JoinedFrom, SMTT(40)
      <4> QED BY <2>13, <3>0, <4>1
    <3> QED BY <2>4, <2>12, <3>0, <3>2, <3>3, <3>4
  <2>15. ASSUME NEW r \in Sockets, NEW i \in DOMAIN down'[r]
         PROVE  /\ down'[r][i].type \in {"ok", "accepted"} => down'[r][i].id = host'.id
                /\ down'[r][i].type = "accepted" => Fresh' \/ \E j \in Oks(r)' : j < i
    <3>1. CASE i \in DOMAIN down[r] /\ down'[r][i] = down[r][i]
      <4>1. down'[r][i].type \in {"ok", "accepted"} => down'[r][i].id = host'.id
        BY <2>11, <3>1
      <4>2. ASSUME down'[r][i].type = "accepted"
            PROVE  Fresh' \/ \E j \in Oks(r)' : j < i
        <5>1. host'.id = host.id
          BY <2>11, <3>1, <4>2
        <5>2. Fresh \/ \E j \in Oks(r) : j < i
          BY <3>1, <4>2 DEF Voice
        <5>3. \A j \in Oks(r) : j \in Oks(r)'
          BY <2>14 DEF Oks
        <5> QED BY <2>2, <5>1, <5>2, <5>3 DEF Fresh
      <4> QED BY <4>1, <4>2
    <3>2. CASE \E j \in DOMAIN more : down'[r][i] = more[j]
      BY <2>4, <2>10, <3>2
    <3>3. CASE down'[r][i].type = "bye"
      BY <3>3
    <3> QED BY <2>14, <3>1, <3>2, <3>3
  <2>16. ASSUME Reachable(s)'
         PROVE  Oks(s)' # {}
    <3>1. PICK p : p = down'[s]
      OBVIOUS
    <3>2. p = down[s] \o more /\ down[s] \in Line
      BY <1>0, <2>2, <2>4, <2>16, <3>1 DEF Reachable
    <3>3. \A i \in DOMAIN more : Len(down[s]) + i \in DOMAIN p /\ p[Len(down[s]) + i] = more[i]
      <4>1. PICK d : d = down[s]
        OBVIOUS
      <4>2. d \in Line /\ more \in Line /\ p = d \o more
        BY <2>4, <3>2, <4>1
      <4>3. \A i \in DOMAIN more : Len(d) + i \in DOMAIN p /\ p[Len(d) + i] = more[i]
        BY ONLY <4>2, JoinedIs
      <4> QED BY <4>1, <4>3
    <3>4. PICK k : k = Len(down[s]) + 1
      OBVIOUS
    <3>5. k \in DOMAIN p /\ p[k].type = "ok"
      BY <2>6, <2>10, <3>3, <3>4
    <3> QED BY <3>1, <3>5 DEF Oks
  <2> QED BY <2>4, <2>15, <2>16 DEF Voice, Oks, Reachable
<1>3. ASSUME NEW s \in Sockets, HostAccepts(s)
      PROVE  Voice'
  <2>1. HostHears(s, "put")
    BY <1>3 DEF HostAccepts
  <2>2. net'.lastId = net.lastId /\ net'.ws = net.ws
    BY <2>1, HearsIs
  <2>3. PICK g \in Grants : g = Head(net.up[s]).grant
    BY <1>3, HostAcceptsIs
  <2>4. /\ host'.live = host.live /\ host'.id = host.id
        /\ host.live = s => host.id \in Sockets
        /\ \A r \in Sockets :
             down'[r] = IF r = s /\ host.live = s /\ Reachable(r)
                        THEN down[r] \o <<Frame("accepted", g, host.id)>> ELSE down[r]
    BY <1>3, <2>3, HostAcceptsIs
  <2>5. Fresh' <=> Fresh
    BY <2>2, <2>4 DEF Fresh
  <2>6. CASE host.live = s /\ Reachable(s)
    <3>1. PICK f \in GoodFrames : f = Frame("accepted", g, host.id)
      BY <2>3, <2>4, <2>6, FramesOfHost
    <3>2. f.type = "accepted" /\ f.id = host.id
      BY <3>1 DEF Frame
    <3>3. PICK p, one : p = down'[s] /\ one = <<f>>
      OBVIOUS
    <3>4. one \in Line /\ DOMAIN one = {1} /\ one[1] = f
      BY <3>1, <3>3, OneIs
    <3>5. down[s] \in Line /\ p = down[s] \o one
      BY <1>0, <2>4, <2>6, <3>1, <3>3
    <3>6. /\ \A i \in DOMAIN down[s] : i \in DOMAIN p /\ p[i] = down[s][i]
          /\ \A i \in DOMAIN p :
               \/ i \in DOMAIN down[s] /\ p[i] = down[s][i]
               \/ \E j \in DOMAIN one : i = Len(down[s]) + j /\ p[i] = one[j]
          /\ Len(down[s]) \in Nat /\ \A i \in DOMAIN down[s] : i \in Nat /\ i <= Len(down[s])
      <4>1. PICK d : d = down[s]
        OBVIOUS
      <4>2. d \in Line /\ one \in Line /\ p = d \o one
        BY <3>4, <3>5, <4>1
      <4>3. /\ \A i \in DOMAIN d : i \in DOMAIN p /\ p[i] = d[i]
            /\ \A i \in DOMAIN p :
                 \/ i \in DOMAIN d /\ p[i] = d[i]
                 \/ \E j \in DOMAIN one : i = Len(d) + j /\ p[i] = one[j]
            /\ Len(d) \in Nat /\ \A i \in DOMAIN d : i \in Nat /\ i <= Len(d)
        BY <4>2, JoinedIs, SMTT(40)
      <4> QED BY <4>1, <4>3
    <3>7. \A j \in Oks(s) : j \in Oks(s)'
      BY <3>3, <3>6 DEF Oks
    <3>8. Fresh \/ Oks(s) # {}
      BY <1>0, <2>6 DEF Voice
    <3>9. ASSUME NEW i \in DOMAIN p
          PROVE  /\ p[i].type \in {"ok", "accepted"} => p[i].id = host.id
                 /\ p[i].type = "accepted" => Fresh \/ \E j \in Oks(s)' : j < i
      <4>1. CASE i \in DOMAIN down[s] /\ p[i] = down[s][i]
        BY <3>7, <4>1 DEF Voice
      <4>2. CASE i = Len(down[s]) + 1 /\ p[i] = f
        <5>1. ASSUME NEW j \in Oks(s)
              PROVE  j < i
          BY <3>6, <4>2 DEF Oks
        <5> QED BY <3>2, <3>7, <3>8, <4>2, <5>1
      <4> QED BY <3>4, <3>6, <4>1, <4>2
    <3>10. ASSUME NEW r \in Sockets, NEW i \in DOMAIN down'[r]
           PROVE  /\ down'[r][i].type \in {"ok", "accepted"} => down'[r][i].id = host'.id
                  /\ down'[r][i].type = "accepted" => Fresh' \/ \E j \in Oks(r)' : j < i
      <4>1. CASE r = s
        BY <2>4, <2>5, <3>3, <3>9, <4>1
      <4>2. CASE r # s
        <5>1. down'[r] = down[r]
          BY <2>4, <4>2
        <5> QED BY <2>4, <2>5, <5>1 DEF Voice, Oks
      <4> QED BY <4>1, <4>2
    <3>11. Fresh' \/ Oks(s)' # {}
      BY <2>5, <3>7, <3>8
    <3> QED BY <2>4, <2>6, <3>10, <3>11 DEF Voice, Oks, Reachable
  <2>7. CASE ~(host.live = s /\ Reachable(s))
    <3>1. \A r \in Sockets : down'[r] = down[r]
      BY <2>4, <2>7
    <3>2. DownStep
      BY <3>1 DEF DownStep
    <3> QED BY <1>0, <2>2, <2>4, <3>2, VoiceKept
  <2> QED BY <2>6, <2>7
<1>4. CASE HostRestarts
  <2>1. /\ host'.live = 0 /\ host'.id = 0
        /\ \A r \in Sockets : down'[r] \in {<<Frame("bye", 0, 0)>>, <<>>}
    BY <1>4, RestartIs
  <2>2. ASSUME NEW r \in Sockets, NEW i \in DOMAIN down'[r]
        PROVE  down'[r][i].type = "bye"
    BY <2>1, FramesOfHost, OneIs, EmptyIs
  <2> QED BY <2>1, <2>2 DEF Voice
<1>5. CASE /\ DownStep /\ host'.id = host.id
           /\ ~ \E s \in Sockets : HelloOk(s) \/ HostWelcomes(s) \/ HostAccepts(s)
  <2>1. net'.lastId \in {net.lastId, 0} /\ host'.live \in {host.live, 0}
    BY <1>5, Ids
  <2> QED BY <1>0, <1>5, <2>1, VoiceKept
<1> QED BY <1>1, <1>2, <1>3, <1>4, <1>5, Downward

-----------------------------------------------------------------------------
(* The client's session and the grants of it *)

LEMMA LinkDrained == ASSUME Link PROVE Drained
  BY DEF Link, Drained

(* Unless the bridge is opened, welcomed or given up, the client stays in  *)
(* its session with the socket it has, or loses that socket.               *)
LinkKept ==
    /\ net'.owned = net.owned /\ net'.lastId = net.lastId
    /\ net'.socket \in {net.socket, 0}
    /\ net'.state \in {net.state, "reconnecting"}

LEMMA LinkSame ==
    ASSUME Link, LinkKept, net'.queued = net.queued
    PROVE  Link'
  BY DEF Link, LinkKept, Connected

LEMMA LinkRevokes ==
    ASSUME Types, Link, NEW g \in Grants, RevokesAndTells(g)
    PROVE  Link' /\ LinkKept
<1>1. LinkKept
  BY RevokesIs DEF LinkKept
<1>2. CASE SendFails(net) /\ net.owned
  <2>1. net'.owned /\ (net'.socket # 0 => ~Connected(net))
    BY <1>1, <1>2, RevokesIs DEF LinkKept
  <2>2. ~Connected(net)'
    BY <1>1, <2>1 DEF LinkKept, Connected
  <2> QED BY <1>1, <2>1, <2>2 DEF Link, LinkKept
<1>3. CASE ~(SendFails(net) /\ net.owned)
  <2>1. net'.queued = net.queued
    BY <1>3, RevokesIs
  <2> QED BY <1>1, <2>1, LinkSame
<1> QED BY <1>1, <1>2, <1>3

LEMMA LinkStep ==
    ASSUME Types, Link, Next
    PROVE  /\ Link'
           /\ \/ LinkKept
              \/ \E p \in Panels : ClosePanel(p)
              \/ \E p \in Panels, s \in Sockets : Connect(p, s)
              \/ \E s \in Sockets : HelloOk(s)
<1> DEFINE Stays == LinkKept /\ net'.queued = net.queued
<1>0. net \in Clients /\ Drained
  BY LinkDrained DEF Types
<1>1. CASE UNCHANGED net
  BY <1>1 DEF Link, LinkKept, Connected
<1>2. ASSUME NEW p \in Panels, ClosePanel(p)
      PROVE  Link'
  <2>1. net'.state = "closed" /\ net'.socket = 0 /\ net'.queued = {}
    BY <1>0, <1>2, ClosePanelIs
  <2> QED BY <2>1 DEF Link, Connected
<1>3. ASSUME NEW p \in Panels, NEW s \in Sockets, Connect(p, s)
      PROVE  Link'
  <2>1. net' = Opened(net, s)
    BY <1>3 DEF Connect
  <2>2. net'.owned /\ net'.state = "connecting"
    BY <1>0, <2>1, OpenedIs
  <2> QED BY <2>2 DEF Link, Connected
<1>4. ASSUME NEW s \in Sockets, HelloOk(s)
      PROVE  Link'
  <2>1. /\ net'.lastId \in Sockets /\ net'.queued = {}
        /\ net'.owned = net.owned /\ net'.socket = net.socket
    BY <1>4, HelloOkIs
  <2>2. net'.lastId # 0
    BY <2>1 DEF Sockets
  <2> QED BY <2>1, <2>2 DEF Link
<1>5. ASSUME NEW g \in Grants, Cancel(g) \/ LocalRevoke(g)
      PROVE  Link' /\ LinkKept
  <2>1. RevokesAndTells(g)
    BY <1>5 DEF Cancel, LocalRevoke
  <2> QED BY <2>1, LinkRevokes
<1>6. ASSUME NEW g \in Grants, TabRead(g)
      PROVE  Stays
  BY <1>6, TabReadIs DEF LinkKept
<1>7. ASSUME NEW s \in Sockets, ToolCall(s)
      PROVE  Stays
  BY <1>7, ToolCallIs DEF LinkKept
<1>8. ASSUME NEW s \in Sockets, WsOpens(s)
      PROVE  Stays
  <2>1. net' = Greeted(net, s)
    BY <1>8 DEF WsOpens
  <2>2. /\ net'.state = net.state /\ net'.socket = net.socket /\ net'.owned = net.owned
        /\ net'.lastId = net.lastId /\ net'.queued = net.queued
    BY <1>0, <2>1, GreetedIs
  <2> QED BY <2>2 DEF LinkKept
<1>9. ASSUME NEW s \in Sockets, HostCloses(s)
      PROVE  Stays
  <2>1. net' = Becomes(net, s, "down") /\ "down" \in Transports
    BY <1>9 DEF HostCloses, Transports
  <2>2. /\ net'.state = net.state /\ net'.socket = net.socket /\ net'.owned = net.owned
        /\ net'.lastId = net.lastId /\ net'.queued = net.queued
    BY <1>0, <2>1, BecomesIs
  <2> QED BY <2>2 DEF LinkKept
<1>10. ASSUME NEW s \in Sockets, Drop(s)
       PROVE  Stays
  BY <1>10, DropIs DEF LinkKept
<1>11. ASSUME NEW s \in Sockets, WsCloses(s)
       PROVE  Stays
  <2>1. PICK k : k = Becomes(net, s, "closed")
    OBVIOUS
  <2>2. "closed" \in Transports
    BY DEF Transports
  <2>3. /\ k \in Clients /\ k.state = net.state /\ k.socket = net.socket
        /\ k.owned = net.owned /\ k.lastId = net.lastId /\ k.queued = net.queued
    BY <1>0, <2>1, <2>2, BecomesIs
  <2>4. net' = AfterClose(k, s)
    BY <1>11, <2>1 DEF WsCloses
  <2>5. /\ net'.owned = k.owned /\ net'.lastId = k.lastId /\ net'.queued = k.queued
        /\ net'.socket = IF k.socket = s THEN 0 ELSE k.socket
        /\ net'.state \in {k.state, "reconnecting"}
    BY <2>3, <2>4, AfterCloseIs
  <2> QED BY <2>3, <2>5 DEF LinkKept
<1>12. ASSUME NEW s \in Sockets, NEW type, HostHears(s, type)
       PROVE  Stays
  BY <1>12, HearsIs DEF LinkKept
<1>13. CASE HostRestarts
  <2>1. Stays
    BY <1>13, RestartIs DEF LinkKept
  <2> QED BY <2>1, LinkSame
<1>14. ASSUME Stays
       PROVE  Link' /\ LinkKept
  BY <1>14, LinkSame
<1>15. CASE PanelStep
  <2>1. UNCHANGED net \/ (\E p \in Panels : ClosePanel(p))
        \/ (\E p \in Panels, s \in Sockets : Connect(p, s))
        \/ (\E g \in Grants : Cancel(g)) \/ (\E g \in Grants : TabRead(g))
    BY <1>15 DEF PanelStep, OpenPanel, CreateRequest, TabRefused
  <2> QED BY <1>1, <1>2, <1>3, <1>5, <1>6, <1>14, <2>1
<1>16. CASE TimerStep
  BY <1>1, <1>5, <1>16 DEF TimerStep, AckTimeout
<1>17. CASE FrameStep
  BY <1>1, <1>4, <1>7, <1>14, <1>17 DEF FrameStep, Accepted, Rejected, HostRevoked
<1>18. CASE WireStep
  BY <1>8, <1>9, <1>10, <1>11, <1>14, <1>18 DEF WireStep
<1>19. CASE HostStep
  BY <1>1, <1>12, <1>13, <1>14, <1>19 DEF HostStep, HostWelcomes, HostAccepts, HostRejects,
     HostHearsRevoke, HostRevokes, HostCalls, HostSeesClose
<1> QED BY <1>15, <1>16, <1>17, <1>18, <1>19 DEF Next

LEMMA ScopeSame ==
    ASSUME Types, Scope, UNCHANGED <<panel, offered, vault, session, bound>>,
           net'.lastId = net.lastId, net'.socket \in {net.socket, 0}
    PROVE  Scope'
  BY DEF Scope, AuthorityNeedsPanel, LiveGrants, Live

(* A grant ends here, with its offer, its binding or neither.              *)
LEMMA ScopeEnds ==
    ASSUME Types, Scope, UNCHANGED <<panel, session>>,
           net'.lastId = net.lastId, net'.socket \in {net.socket, 0},
           offered' \subseteq offered, bound' \subseteq bound,
           \A g \in Grants : vault'[g] \in {vault[g], "gone"},
           \A g \in bound' : vault'[g] = vault[g]
    PROVE  Scope'
<1>1. \A g \in Grants : vault'[g] = "accepted" => vault[g] = "accepted"
  OBVIOUS
<1>2. offered \subseteq Grants
  BY DEF Types, GrantSets
<1>3. /\ \A g \in Grants : vault'[g] = "accepted" => session'[g] = net'.lastId /\ net'.lastId # 0
      /\ (offered' # {} => net'.lastId # 0)
  BY <1>1 DEF Scope
<1>4. \A g \in offered' : vault'[g] # "none" /\ g \notin bound'
  BY <1>2 DEF Scope
<1>5. \A g \in bound' : vault'[g] = "accepted"
  BY DEF Scope
<1>6. AuthorityNeedsPanel'
  <2>1. LiveGrants' \subseteq LiveGrants
    BY DEF LiveGrants, Live
  <2> QED BY <2>1 DEF Scope, AuthorityNeedsPanel
<1>7. (\A p \in Panels : panel'[p] # "open") => net'.socket = 0
  BY DEF Scope
<1> QED BY <1>3, <1>4, <1>5, <1>6, <1>7 DEF Scope

LEMMA ScopeRevokes ==
    ASSUME Types, Scope, NEW g \in Grants, RevokesAndTells(g), LinkKept,
           UNCHANGED <<panel, session>>, offered' \subseteq offered
    PROVE  Scope'
<1>1. /\ bound' = bound \ {g}
      /\ \A h \in Grants : vault'[h] = IF h = g /\ Live(g) THEN "gone" ELSE vault[h]
  BY RevokesIs
<1>2. bound \subseteq Grants
  BY DEF Types, GrantSets
<1>3. \A h \in bound' : vault'[h] = vault[h]
  BY <1>1, <1>2
<1>4. \A h \in Grants : vault'[h] \in {vault[h], "gone"}
  BY <1>1
<1>5. net'.lastId = net.lastId /\ net'.socket \in {net.socket, 0}
  BY DEF LinkKept
<1>6. bound' \subseteq bound
  BY <1>1
<1> QED BY <1>3, <1>4, <1>5, <1>6, ScopeEnds

LEMMA ScopeStep ==
    ASSUME Types, Voice, Link, Scope, OfferedOnce, Next
    PROVE  Scope'
<1>0. /\ Drained /\ net \in Clients
      /\ reading \subseteq Grants /\ asked \subseteq Grants
      /\ offered \subseteq Grants /\ bound \subseteq Grants
      /\ vault \in [Grants -> {"none", "issued", "accepted", "gone"}]
      /\ \A r \in Sockets : down[r] \in Line
  BY LinkDrained DEF Types, GrantSets, Mail
<1>1. ASSUME NEW p \in Panels, OpenPanel(p)
      PROVE  Scope'
  <2>1. panel'[p] = "open" /\ UNCHANGED <<net, offered, vault, session, bound>>
    BY <1>1 DEF OpenPanel, Types, grantVars
  <2> QED BY <2>1 DEF Scope, AuthorityNeedsPanel
<1>2. ASSUME NEW p \in Panels, ClosePanel(p)
      PROVE  Scope'
  <2>1. net'.socket = 0
    BY <1>0, <1>2, ClosePanelIs
  <2>2. offered' = {} /\ bound' = {} /\ vault' = Revoked(LiveGrants)
    BY <1>2 DEF ClosePanel
  <2>3. \A g \in Grants : vault'[g] = IF g \in LiveGrants THEN "gone" ELSE vault[g]
    BY <2>2 DEF Revoked
  <2>4. \A g \in Grants : vault'[g] \notin {"issued", "accepted"}
    BY <2>3 DEF LiveGrants, Live
  <2> QED BY <2>1, <2>2, <2>4 DEF Scope, AuthorityNeedsPanel, LiveGrants, Live
<1>3. ASSUME NEW p \in Panels, NEW s \in Sockets, Connect(p, s)
      PROVE  Scope'
  <2>1. net' = Opened(net, s)
    BY <1>3 DEF Connect
  <2>2. net'.lastId = net.lastId
    BY <1>0, <2>1, OpenedIs
  <2>3. panel[p] = "open" /\ UNCHANGED <<panel, offered, vault, session, bound>>
    BY <1>3 DEF Connect, grantVars
  <2> QED BY <2>2, <2>3 DEF Scope, AuthorityNeedsPanel
<1>4. ASSUME NEW s \in Sockets, HelloOk(s)
      PROVE  Scope'
  <2>1. PICK id : id = Head(down[s]).id
    OBVIOUS
  <2>2. /\ id \in Sockets /\ net'.lastId = id /\ net'.socket = net.socket
        /\ panel' = panel /\ session' = session
    BY <1>4, <2>1, HelloOkIs DEF HelloOk, Receives
  <2>3. id # 0
    BY <2>2 DEF Sockets
  <2>4. CASE SessionChanges(net, id)
    <3>1. /\ offered' = {} /\ bound' = {}
          /\ \A g \in Grants : vault'[g] = IF Live(g) THEN "gone" ELSE vault[g]
      BY <1>4, <2>1, <2>4, HelloOkIs
    <3>2. \A g \in Grants : vault'[g] \notin {"issued", "accepted"}
      BY <3>1 DEF Live
    <3> QED BY <2>2, <3>1, <3>2 DEF Scope, AuthorityNeedsPanel, LiveGrants, Live
  <2>5. CASE ~SessionChanges(net, id)
    <3>1. UNCHANGED <<offered, bound, vault>>
      BY <1>4, <2>1, <2>5 DEF HelloOk
    <3>2. net.lastId = 0 \/ net.lastId = id
      BY <2>5 DEF SessionChanges
    <3> QED BY <2>2, <2>3, <3>1, <3>2 DEF Scope, AuthorityNeedsPanel, LiveGrants, Live
  <2> QED BY <2>4, <2>5
<1>5. ASSUME LinkKept
      PROVE  net'.lastId = net.lastId /\ net'.socket \in {net.socket, 0}
  BY <1>5 DEF LinkKept
<1>6. ASSUME NEW g \in Grants, Cancel(g) \/ LocalRevoke(g), LinkKept
      PROVE  Scope'
  <2>1. RevokesAndTells(g) /\ UNCHANGED <<panel, session>> /\ offered' \subseteq offered
    BY <1>6 DEF Cancel, LocalRevoke
  <2> QED BY <1>6, <2>1, ScopeRevokes
<1>7. ASSUME NEW g \in Grants, TabRead(g), LinkKept
      PROVE  Scope'
  <2>1. g \in reading /\ UNCHANGED <<panel, session, bound>>
    BY <1>7 DEF TabRead
  <2>2. vault[g] = "none"
    BY <2>1 DEF OfferedOnce
  <2>3. g \notin bound /\ g \notin offered
    BY <2>2 DEF Scope
  <2>4. CASE SendFails(net)
    <3>1. vault' = [vault EXCEPT ![g] = "gone"] /\ offered' = offered
      BY <1>7, <2>4 DEF TabRead
    <3>2. \A h \in Grants : vault'[h] = IF h = g THEN "gone" ELSE vault[h]
      BY <1>0, <3>1
    <3>3. \A h \in Grants : vault'[h] \in {vault[h], "gone"}
      BY <3>2
    <3>4. \A h \in bound' : vault'[h] = vault[h]
      BY <1>0, <2>1, <2>3, <3>2
    <3> QED BY <1>5, <1>7, <2>1, <3>1, <3>3, <3>4, ScopeEnds
  <2>5. CASE ~SendFails(net)
    <3>1. vault' = [vault EXCEPT ![g] = "issued"] /\ offered' = offered \cup {g}
      BY <1>7, <2>5 DEF TabRead
    <3>2. \A h \in Grants : vault'[h] = IF h = g THEN "issued" ELSE vault[h]
      BY <1>0, <3>1
    <3>3. net.socket # 0 /\ net.lastId # 0
      BY <2>5 DEF SendFails, Connected, Link
    <3>4. net'.lastId = net.lastId
      BY <1>5, <1>7
    <3>5. \E p \in Panels : panel'[p] = "open"
      BY <2>1, <3>3 DEF Scope
    <3>6. \A h \in offered' : vault'[h] # "none" /\ h \notin bound'
      BY <1>0, <2>1, <2>3, <3>1, <3>2 DEF Scope
    <3>7. \A h \in bound' : vault'[h] = "accepted"
      BY <1>0, <2>1, <2>3, <3>2 DEF Scope
    <3>8. \A h \in Grants : vault'[h] = "accepted" => session'[h] = net'.lastId /\ net'.lastId # 0
      BY <2>1, <3>2, <3>4 DEF Scope
    <3> QED BY <3>3, <3>4, <3>5, <3>6, <3>7, <3>8 DEF Scope, AuthorityNeedsPanel
  <2> QED BY <2>4, <2>5
<1>8. ASSUME NEW g \in Grants, AckTimeout(g), LinkKept
      PROVE  Scope'
  <2>1. /\ g \in offered /\ offered' = offered \ {g} /\ vault' = Revoked({g})
        /\ UNCHANGED <<panel, session, bound>>
    BY <1>8 DEF AckTimeout
  <2>2. \A h \in Grants : vault'[h] = IF h = g THEN "gone" ELSE vault[h]
    BY <2>1 DEF Revoked
  <2>3. g \notin bound
    BY <2>1 DEF Scope
  <2>4. \A h \in bound' : vault'[h] = vault[h]
    BY <1>0, <2>1, <2>2, <2>3
  <2>5. \A h \in Grants : vault'[h] \in {vault[h], "gone"}
    BY <2>2
  <2>6. offered' \subseteq offered /\ bound' \subseteq bound
    BY <2>1
  <2> QED BY <1>5, <1>8, <2>1, <2>4, <2>5, <2>6, ScopeEnds
<1>9. ASSUME NEW s \in Sockets, Accepted(s), LinkKept
      PROVE  Scope'
  <2>1. PICK f : f = Head(down[s])
    OBVIOUS
  <2>2. Receives(s, "accepted") /\ panel' = panel
    BY <1>9 DEF Accepted, Receives
  <2>3. CASE ~(f.grant \in offered /\ Live(f.grant))
    <3>1. UNCHANGED <<vault, session, bound, offered>>
      BY <1>9, <2>1, <2>3 DEF Accepted
    <3> QED BY <1>5, <1>9, <2>2, <3>1, ScopeSame
  <2>4. CASE f.grant \in offered /\ Live(f.grant)
    <3>1. PICK g \in Grants : g = f.grant
      BY <1>0, <2>4
    <3>2. /\ vault' = [vault EXCEPT ![g] = "accepted"]
          /\ session' = [session EXCEPT ![g] = f.id]
          /\ \/ bound' = bound \cup {g} /\ offered' = offered \ {g}
             \/ bound' = bound /\ offered' = offered
      BY <1>9, <2>1, <2>4, <3>1 DEF Accepted
    <3>3. net.lastId # 0 /\ \E p \in Panels : panel[p] = "open"
      BY <2>4 DEF Scope, AuthorityNeedsPanel
    <3>4. f.id = net.lastId
      <4>1. PICK d : d = down[s]
        OBVIOUS
      <4>2. d \in Line /\ d # <<>> /\ f = Head(d) /\ f.type = "accepted"
        BY <1>0, <2>1, <2>2, <4>1 DEF Receives
      <4>3. Head(d) = d[1] /\ 1 \in DOMAIN d
        BY <4>2, TailIs
      <4>4. \A j \in DOMAIN d : j \in Nat \ {0}
        BY <4>2, TailIs
      <4>5. f.id = host.id /\ (Fresh \/ \E j \in Oks(s) : j < 1)
        BY <4>1, <4>2, <4>3 DEF Voice
      <4>6. ~ \E j \in Oks(s) : j < 1
        BY <4>1, <4>4 DEF Oks
      <4> QED BY <3>3, <4>5, <4>6 DEF Fresh
    <3>5. /\ \A h \in Grants : vault'[h] = IF h = g THEN "accepted" ELSE vault[h]
          /\ \A h \in Grants : session'[h] = IF h = g THEN f.id ELSE session[h]
      BY <1>0, <3>2 DEF Types
    <3>6. net'.lastId = net.lastId
      BY <1>5, <1>9
    <3>7. \A h \in Grants : vault'[h] = "accepted" => session'[h] = net'.lastId /\ net'.lastId # 0
      BY <3>3, <3>4, <3>5, <3>6 DEF Scope
    <3>8. \A h \in offered' : vault'[h] # "none" /\ h \notin bound'
      BY <1>0, <3>2, <3>5 DEF Scope
    <3>9. \A h \in bound' : vault'[h] = "accepted"
      BY <1>0, <3>2, <3>5 DEF Scope
    <3> QED BY <2>2, <3>3, <3>6, <3>7, <3>8, <3>9 DEF Scope, AuthorityNeedsPanel
  <2> QED BY <2>3, <2>4
<1>10. ASSUME NEW s \in Sockets, Rejected(s), LinkKept
       PROVE  Scope'
  <2>1. /\ offered' = {} /\ vault' = Revoked(offered)
        /\ UNCHANGED <<panel, session, bound>>
    BY <1>10 DEF Rejected, Receives
  <2>2. \A h \in Grants : vault'[h] = IF h \in offered THEN "gone" ELSE vault[h]
    BY <2>1 DEF Revoked
  <2>3. \A h \in bound : h \notin offered
    BY DEF Scope
  <2>4. \A h \in bound' : vault'[h] = vault[h]
    BY <1>0, <2>1, <2>2, <2>3
  <2>5. \A h \in Grants : vault'[h] \in {vault[h], "gone"}
    BY <2>2
  <2>6. offered' \subseteq offered /\ bound' \subseteq bound
    BY <2>1
  <2> QED BY <1>5, <1>10, <2>1, <2>4, <2>5, <2>6, ScopeEnds
<1>11. ASSUME NEW s \in Sockets, HostRevoked(s), LinkKept
       PROVE  Scope'
  <2>1. PICK g : g = Head(down[s]).grant
    OBVIOUS
  <2>2. /\ vault' = IF Live(g) THEN Revoked({g}) ELSE vault
        /\ bound' = bound \ {g}
        /\ UNCHANGED <<panel, session, offered>>
    BY <1>11, <2>1 DEF HostRevoked, Receives
  <2>3. \A h \in Grants : vault'[h] \in {vault[h], "gone"} /\ (h # g => vault'[h] = vault[h])
    BY <2>2 DEF Revoked
  <2>4. \A h \in bound' : vault'[h] = vault[h]
    BY <1>0, <2>2, <2>3
  <2>5. offered' \subseteq offered /\ bound' \subseteq bound
    BY <2>2
  <2> QED BY <1>5, <1>11, <2>2, <2>3, <2>4, <2>5, ScopeEnds
<1>12. ASSUME LinkKept, UNCHANGED <<panel, offered, vault, session, bound>>
       PROVE  Scope'
  BY <1>5, <1>12, ScopeSame
<1>13. CASE LinkKept
  <2>1. CASE PanelStep
    <3>1. \/ \E p \in Panels : OpenPanel(p) \/ ClosePanel(p)
          \/ \E p \in Panels, s \in Sockets : Connect(p, s)
          \/ \E g \in Grants : TabRead(g) \/ Cancel(g)
          \/ UNCHANGED <<panel, offered, vault, session, bound>>
      BY <2>1 DEF PanelStep, CreateRequest, TabRefused
    <3> QED BY <1>1, <1>2, <1>3, <1>6, <1>7, <1>12, <1>13, <3>1
  <2>2. CASE TimerStep
    BY <1>6, <1>8, <1>13, <2>2 DEF TimerStep
  <2>3. CASE FrameStep
    <3>1. ASSUME NEW s \in Sockets, ToolCall(s)
          PROVE  UNCHANGED <<panel, offered, vault, session, bound>>
      BY <3>1 DEF ToolCall, Receives, grantVars
    <3> QED BY <1>4, <1>9, <1>10, <1>11, <1>12, <1>13, <2>3, <3>1 DEF FrameStep
  <2>4. CASE WireStep
    <3>1. UNCHANGED <<panel, offered, vault, session, bound>>
      BY <2>4 DEF WireStep, WsOpens, HostCloses, Drop, WsCloses, Receives, grantVars
    <3> QED BY <1>12, <1>13, <3>1
  <2>5. CASE HostStep
    <3>1. UNCHANGED <<panel, offered, vault, session, bound>>
      BY <2>5 DEF HostStep, HostWelcomes, HostAccepts, HostRejects, HostHearsRevoke, HostRevokes,
         HostCalls, HostSeesClose, HostRestarts, HostHears, grantVars
    <3> QED BY <1>12, <1>13, <3>1
  <2> QED BY <2>1, <2>2, <2>3, <2>4, <2>5 DEF Next
<1> QED BY <1>2, <1>3, <1>4, <1>13, LinkStep

-----------------------------------------------------------------------------
(* An offer moves up its line, with what is behind it *)

Shifted(q, p, c, g) ==
    /\ \A i \in DOMAIN p : p[i] = About("put", g) =>
          i \in Nat \ {0} /\ i + c \in DOMAIN q /\ q[i + c] = About("put", g)
    /\ p = <<>> \/ \A j \in DOMAIN q : j > c => j \in Nat /\ j - c \in DOMAIN p /\ p[j - c] = q[j]

LEMMA BehindShifts ==
    ASSUME NEW g \in Grants, NEW q \in Line, NEW more \in Line, NEW p, p = q \o more,
           \A i \in DOMAIN more : more[i] # About("put", g)
    PROVE  Shifted(q, p, 0, g)
<1>1. \A i \in DOMAIN q : i \in Nat \ {0} /\ i \in DOMAIN p /\ p[i] = q[i]
  BY JoinedIs
<1>2. \A i \in DOMAIN p :
        \/ i \in DOMAIN q /\ p[i] = q[i]
        \/ \E j \in DOMAIN more : i = Len(q) + j /\ p[i] = more[j]
  BY JoinedIs
<1>3. ASSUME NEW i \in DOMAIN p, p[i] = About("put", g)
      PROVE  i \in Nat \ {0} /\ i + 0 \in DOMAIN q /\ q[i + 0] = About("put", g)
  <2>1. i \in DOMAIN q /\ p[i] = q[i]
    BY <1>2, <1>3
  <2>2. i \in Nat \ {0} /\ i + 0 = i
    BY <1>1, <2>1
  <2> QED BY <1>3, <2>1, <2>2
<1>4. ASSUME NEW j \in DOMAIN q
      PROVE  j \in Nat /\ j - 0 \in DOMAIN p /\ p[j - 0] = q[j]
  <2>1. j \in Nat /\ j - 0 = j
    BY <1>1
  <2> QED BY <1>1, <2>1
<1> QED BY <1>3, <1>4 DEF Shifted

LEMMA TailShifts ==
    ASSUME NEW g \in Grants, NEW q \in Line, q # <<>>, NEW p, p = Tail(q)
    PROVE  Shifted(q, p, 1, g)
<1>1. /\ \A i \in DOMAIN p : i \in Nat \ {0} /\ i + 1 \in DOMAIN q /\ p[i] = q[i + 1]
      /\ \A j \in DOMAIN q : j \in Nat \ {0} /\ (j = 1 \/ (j - 1 \in DOMAIN p /\ p[j - 1] = q[j]))
  BY TailIs
<1>2. \A j \in DOMAIN q : j > 1 => j \in Nat /\ j - 1 \in DOMAIN p /\ p[j - 1] = q[j]
  BY <1>1
<1> QED BY <1>1, <1>2 DEF Shifted

LEMMA SameShifts ==
    ASSUME NEW g \in Grants, NEW q \in Line
    PROVE  Shifted(q, q, 0, g) /\ Shifted(q, <<>>, 0, g)
<1>1. PICK more \in Line : more = <<>>
  BY EmptyIs
<1>2. q = q \o more
  <2> DEFINE F == GoodFrames
  <2>1. q \in Seq(F)
    BY DEF Line
  <2> HIDE DEF F
  <2> QED BY <1>1, <2>1
<1>3. \A i \in DOMAIN more : more[i] # About("put", g)
  BY <1>1
<1>4. PICK p : p = q
  OBVIOUS
<1>5. p = q \o more
  BY <1>2, <1>4
<1>6. Shifted(q, p, 0, g)
  BY <1>3, <1>5, BehindShifts
<1> QED BY <1>4, <1>6, EmptyIs DEF Shifted

LEMMA UpShifts ==
    ASSUME Types, NEW types, "put" \notin types, UpStep(types), NEW g \in Grants, NEW s \in Sockets
    PROVE  \E c \in {0, 1} : Shifted(net.up[s], net'.up[s], c, g)
<1>1. PICK q, p : q \in Line /\ q = net.up[s] /\ p = net'.up[s]
  BY DEF Types, Clients
<1>2. \/ p = q \/ p = <<>> \/ (q # <<>> /\ p = Tail(q)) \/ Behind(q, p, types)
  BY <1>1 DEF UpStep
<1>3. CASE p = q \/ p = <<>>
  BY <1>1, <1>3, SameShifts
<1>4. CASE q # <<>> /\ p = Tail(q)
  BY <1>1, <1>4, TailShifts
<1>5. CASE Behind(q, p, types)
  <2>1. PICK more \in Line : p = q \o more /\ \A f \in Range(more) : f.type \in types
    BY <1>5 DEF Behind
  <2>2. \A i \in DOMAIN more : more[i].type \in types
    BY <2>1 DEF Range
  <2>3. About("put", g).type = "put"
    BY DEF About, Frame
  <2>4. \A i \in DOMAIN more : more[i] # About("put", g)
    BY <2>2, <2>3
  <2>5. Shifted(q, p, 0, g)
    BY <1>1, <2>1, <2>4, BehindShifts
  <2> QED BY <1>1, <2>5
<1> QED BY <1>2, <1>3, <1>4, <1>5

LEMMA BehindIs ==
    ASSUME NEW q \in Line, NEW f \in GoodFrames, NEW p, p = q \o <<f>>
    PROVE  \A k \in DOMAIN p : (k \in DOMAIN q /\ p[k] = q[k]) \/ (k = Len(q) + 1 /\ p[k] = f)
<1>1. PICK more : more = <<f>>
  OBVIOUS
<1>2. more \in Line /\ p = q \o more
  BY <1>1, OneIs
<1>3. \A k \in DOMAIN p :
        \/ k \in DOMAIN q /\ p[k] = q[k]
        \/ \E j \in DOMAIN more : k = Len(q) + j /\ p[k] = more[j]
  BY <1>2, JoinedIs
<1>4. DOMAIN more = {1} /\ more[1] = f
  BY <1>1, OneIs
<1> QED BY <1>3, <1>4

LEMMA OpensUp ==
    ASSUME Types, NEW s \in Sockets, WsOpens(s)
    PROVE  \A r \in Sockets : net'.up[r] = net.up[r] \/ net'.up[r] = net.up[r] \o <<Hello>>
<1>1. net \in Clients /\ net' = Greeted(net, s)
  BY DEF WsOpens, Types
<1>2. \A r \in Sockets : net'.up[r] = IF r = s /\ net.socket = s
                                      THEN net.up[r] \o <<Hello>> ELSE net.up[r]
  BY <1>1, GreetedIs
<1> QED BY <1>2

(* An offer comes into a line only from TabRead.                           *)
LEMMA LinesMove ==
    ASSUME Types, Drained, Next, NEW g \in Grants, ~TabRead(g), NEW s \in Sockets
    PROVE  \E c \in {0, 1} : Shifted(net.up[s], net'.up[s], c, g)
<1>1. CASE UpStep({"revoke", "expired"})
  <2>1. PICK types : types = {"revoke", "expired"}
    OBVIOUS
  <2>2. "put" \notin types /\ UpStep(types)
    BY <1>1, <2>1
  <2> QED BY <2>2, UpShifts
<1>2. ASSUME NEW f \in GoodFrames, f # About("put", g),
             net'.up[s] = net.up[s] \/ net'.up[s] = net.up[s] \o <<f>>
      PROVE  \E c \in {0, 1} : Shifted(net.up[s], net'.up[s], c, g)
  <2>1. PICK q, p : q \in Line /\ q = net.up[s] /\ p = net'.up[s]
    BY DEF Types, Clients
  <2>2. CASE p = q
    BY <2>1, <2>2, SameShifts
  <2>3. CASE p = q \o <<f>>
    <3>1. PICK more : more = <<f>>
      OBVIOUS
    <3>2. more \in Line /\ p = q \o more /\ DOMAIN more = {1} /\ more[1] = f
      BY <2>3, <3>1, OneIs
    <3>3. \A i \in DOMAIN more : more[i] # About("put", g)
      BY <1>2, <3>2
    <3>4. Shifted(q, p, 0, g)
      BY <2>1, <3>2, <3>3, BehindShifts
    <3> QED BY <2>1, <3>4
  <2> QED BY <1>2, <2>1, <2>2, <2>3
<1>3. ASSUME NEW t \in Sockets, WsOpens(t)
      PROVE  \E c \in {0, 1} : Shifted(net.up[s], net'.up[s], c, g)
  <2>2. PICK f \in GoodFrames : f = Hello
    BY FramesOfHost
  <2>3. f.type = "hello" /\ About("put", g).type = "put"
    BY <2>2, FramesOfHost DEF About, Frame
  <2>4. net'.up[s] = net.up[s] \/ net'.up[s] = net.up[s] \o <<f>>
    BY <1>3, <2>2, OpensUp
  <2>5. f # About("put", g)
    BY <2>3
  <2> QED BY <1>2, <2>4, <2>5
<1>4. ASSUME NEW h \in Grants, TabRead(h)
      PROVE  \E c \in {0, 1} : Shifted(net.up[s], net'.up[s], c, g)
  <2>1. PICK f \in GoodFrames : f = About("put", h)
    BY AboutIs DEF FrameTypes
  <2>2. h # g
    BY <1>4
  <2>3. f # About("put", g)
    BY <2>1, <2>2 DEF About, Frame
  <2>4. net'.up[s] = net.up[s] \/ net'.up[s] = net.up[s] \o <<f>>
    BY <1>4, <2>1, TabReadIs
  <2> QED BY <1>2, <2>3, <2>4
<1> QED BY <1>1, <1>3, <1>4, Upward

(* An offer goes out once, when its grant is issued.                       *)
LEMMA Offers ==
    ASSUME Types, NEW g \in Grants, TabRead(g), ~Sending(g)
    PROVE  \A s \in Sockets : \A i \in DOMAIN net'.up[s] : net'.up[s][i] = About("put", g) =>
             s = net.socket /\ i = Len(net.up[s]) + 1 /\ vault'[g] = "issued"
<1> SUFFICES ASSUME NEW s \in Sockets, NEW i \in DOMAIN net'.up[s],
                    net'.up[s][i] = About("put", g)
             PROVE  s = net.socket /\ i = Len(net.up[s]) + 1 /\ vault'[g] = "issued"
  OBVIOUS
<1>1. PICK q, p : q \in Line /\ q = net.up[s] /\ p = net'.up[s]
  BY DEF Types, Clients
<1>2. PICK f \in GoodFrames : f = About("put", g)
  BY AboutIs DEF FrameTypes
<1>3. \A j \in DOMAIN q : q[j] # f
  BY <1>1, <1>2 DEF Sending, Range
<1>4. ~SendFails(net) /\ s = net.socket /\ p = q \o <<f>>
  BY <1>1, <1>2, <1>3, TabReadIs
<1>7. \A k \in DOMAIN p : (k \in DOMAIN q /\ p[k] = q[k]) \/ (k = Len(q) + 1 /\ p[k] = f)
  BY <1>4, BehindIs
<1>8. i = Len(q) + 1
  BY <1>1, <1>2, <1>3, <1>7
<1>9. vault'[g] = "issued"
  BY <1>4 DEF TabRead, Types
<1> QED BY <1>1, <1>4, <1>8, <1>9

LEMMA OneOfferStep ==
    ASSUME Types, Drained, OfferedOnce, OneOffer, Next
    PROVE  OneOffer'
<1> SUFFICES ASSUME NEW g \in Grants, NEW s \in Sockets, NEW r \in Sockets,
                    NEW i \in DOMAIN net'.up[s], NEW j \in DOMAIN net'.up[r],
                    net'.up[s][i] = About("put", g), net'.up[r][j] = About("put", g)
             PROVE  s = r /\ i = j
  BY DEF OneOffer
<1>1. CASE TabRead(g)
  <2>1. ~Sending(g)
    BY <1>1 DEF TabRead, OfferedOnce
  <2> QED BY <1>1, <2>1, Offers
<1>2. CASE ~TabRead(g)
  <2>1. PICK c \in {0, 1} : Shifted(net.up[s], net'.up[s], c, g)
    BY <1>2, LinesMove
  <2>2. PICK e \in {0, 1} : Shifted(net.up[r], net'.up[r], e, g)
    BY <1>2, LinesMove
  <2>3. i \in Nat /\ i + c \in DOMAIN net.up[s] /\ net.up[s][i + c] = About("put", g)
    BY <2>1 DEF Shifted
  <2>4. j + e \in DOMAIN net.up[r] /\ net.up[r][j + e] = About("put", g)
    BY <2>2 DEF Shifted
  <2>5. s = r
    BY <2>3, <2>4 DEF OneOffer
  <2>6. j \in Nat /\ j + c \in DOMAIN net.up[s] /\ net.up[s][j + c] = About("put", g)
    BY <2>1, <2>5 DEF Shifted
  <2>7. i + c = j + c
    BY <2>3, <2>6 DEF OneOffer
  <2> QED BY <2>3, <2>5, <2>6, <2>7
<1> QED BY <1>1, <1>2

(* Once the host has taken it, no offer is left.                           *)
LEMMA TakesOnly ==
    ASSUME Types, OneOffer, NEW s \in Sockets, NEW g \in Grants,
           HostHears(s, "put"), Head(net.up[s]) = About("put", g)
    PROVE  ~Sending(g)'
<1>1. /\ net.up[s] # <<>>
      /\ \A r \in Sockets : net'.up[r] = IF r = s THEN Tail(net.up[s]) ELSE net.up[r]
  BY HearsIs
<1>2. PICK q, p : q \in Line /\ q = net.up[s] /\ p = Tail(q)
  BY DEF Types, Clients
<1>3. /\ Head(q) = q[1] /\ 1 \in DOMAIN q
      /\ \A i \in DOMAIN p : i \in Nat \ {0} /\ i + 1 \in DOMAIN q /\ p[i] = q[i + 1]
  BY <1>1, <1>2, TailIs
<1>4. net.up[s][1] = About("put", g) /\ 1 \in DOMAIN net.up[s]
  BY <1>2, <1>3
<1>5. ASSUME NEW r \in Sockets, NEW i \in DOMAIN net'.up[r], net'.up[r][i] = About("put", g)
      PROVE  FALSE
  <2>1. CASE r = s
    <3>1. i \in Nat \ {0} /\ i + 1 \in DOMAIN net.up[s] /\ net.up[s][i + 1] = About("put", g)
      BY <1>1, <1>2, <1>3, <1>5, <2>1
    <3>2. i + 1 = 1
      BY <1>4, <3>1 DEF OneOffer
    <3> QED BY <3>1, <3>2
  <2>2. CASE r # s
    <3>1. net'.up[r] = net.up[r]
      BY <1>1, <2>2
    <3> QED BY <1>4, <1>5, <2>2, <3>1 DEF OneOffer
  <2> QED BY <2>1, <2>2
<1> QED BY <1>5 DEF Sending, Range

-----------------------------------------------------------------------------
(* What the host holds, gives up and says of a grant *)

(* The host takes the offer of g.                                          *)
Takes(s, g) == HostAccepts(s) /\ host.live = s /\ Head(net.up[s]) = About("put", g)
Taken(g) == \E s \in Sockets : Takes(s, g)

(* The extension hears that the host has ended g.                          *)
HearsOf(g) == \E s \in Sockets : HostRevoked(s) /\ Head(down[s]) = About("revoke", g)

LEMMA RangeAdds ==
    ASSUME NEW q \in Line, NEW f \in GoodFrames, NEW p, p = q \o <<f>>
    PROVE  Range(p) = Range(q) \cup {f}
<1>1. PICK more : more = <<f>>
  OBVIOUS
<1>2. more \in Line /\ p = q \o more
  BY <1>1, OneIs
<1>3. Range(p) = Range(q) \cup Range(more)
  BY <1>2, JoinedIs
<1>4. Range(more) = {f}
  BY <1>1, RangeOne
<1> QED BY <1>3, <1>4

LEMMA DownAdds ==
    ASSUME Types, NEW f \in GoodFrames, NEW g \in Grants,
           \A r \in Sockets : down'[r] = down[r] \/ down'[r] = down[r] \o <<f>>
    PROVE  /\ Ending(g) => Ending(g)'
           /\ Ending(g)' => Ending(g) \/ f = About("revoke", g)
           /\ Accepting(g)' => Accepting(g) \/ (f.type = "accepted" /\ f.grant = g)
<1>1. ASSUME NEW r \in Sockets
      PROVE  /\ Range(down[r]) \subseteq Range(down'[r])
             /\ Range(down'[r]) \subseteq Range(down[r]) \cup {f}
  <2>1. PICK q, p : q \in Line /\ q = down[r] /\ p = down'[r]
    BY DEF Types, Mail
  <2>2. CASE p = q
    BY <2>1, <2>2
  <2>3. CASE p = q \o <<f>>
    <3>1. Range(p) = Range(q) \cup {f}
      BY <2>1, <2>3, RangeAdds
    <3> QED BY <2>1, <3>1
  <2> QED BY <2>1, <2>2, <2>3
<1>2. Ending(g) => Ending(g)'
  BY <1>1 DEF Ending
<1>3. Ending(g)' => Ending(g) \/ f = About("revoke", g)
  BY <1>1 DEF Ending
<1>4. Accepting(g)' => Accepting(g) \/ (f.type = "accepted" /\ f.grant = g)
  BY <1>1 DEF Accepting
<1> QED BY <1>2, <1>3, <1>4

LEMMA DownTakes ==
    ASSUME Types, NEW s \in Sockets, NEW type, Receives(s, type), NEW g \in Grants
    PROVE  /\ host' = host /\ unheard' = unheard
           /\ Ending(g)' => Ending(g)
           /\ Ending(g) => Ending(g)' \/ (type = "revoke" /\ Head(down[s]) = About("revoke", g))
           /\ Accepting(g)' => Accepting(g)
<1>1. /\ down[s] # <<>> /\ Head(down[s]).type = type
      /\ \A r \in Sockets : down'[r] = IF r = s THEN Tail(down[s]) ELSE down[r]
  BY ReceivesIs
<1>2. host' = host /\ unheard' = unheard
  BY ReceivesIs
<1>3. PICK d \in Line : d = down[s]
  BY DEF Types, Mail
<1>4. Range(d) = {Head(d)} \cup Range(Tail(d))
  BY <1>1, <1>3, RangeTail
<1>5. ASSUME NEW r \in Sockets
      PROVE  /\ Range(down'[r]) \subseteq Range(down[r])
             /\ \A f \in Range(down[r]) : f \in Range(down'[r]) \/ f = Head(down[s])
  BY <1>1, <1>3, <1>4
<1>6. Ending(g)' => Ending(g)
  BY <1>5 DEF Ending
<1>7. Ending(g) => Ending(g)' \/ Head(down[s]) = About("revoke", g)
  BY <1>5 DEF Ending
<1>8. About("revoke", g).type = "revoke"
  BY DEF About, Frame
<1>9. Accepting(g)' => Accepting(g)
  BY <1>5 DEF Accepting
<1> QED BY <1>1, <1>2, <1>6, <1>7, <1>8, <1>9

(* The host's account of a grant moves on, and is not lost before it has   *)
(* reached the extension.                                                  *)
Books(g) ==
    /\ GivenUp(g)' => GivenUp(g) \/ (g \in host.records /\ g \notin host'.records)
    /\ Accepting(g)' => Accepting(g) \/ Taken(g)
    /\ g \in host'.records => g \in host.records \/ Taken(g)
    /\ Reached(g) => Reached(g)' \/ HostRestarts \/ HearsOf(g)

LEMMA BooksWelcome ==
    ASSUME Types, HelloFirst, NEW s \in Sockets, HostWelcomes(s), NEW g \in Grants
    PROVE  Books(g)
<1>1. HostHears(s, "hello")
  BY DEF HostWelcomes
<1>2. host.live # s /\ net'.ws = net.ws
  BY <1>1, HelloIsNew, HearsIs
<1>3. PICK id, more, rest : /\ id = IF host.id # 0 THEN host.id ELSE s
                            /\ more = <<Frame("ok", 0, id)>> \o rest
                            /\ rest = Revocations(host.outbox)
  OBVIOUS
<1>4. /\ id \in Sockets /\ more \in Line
      /\ host'.records = host.records /\ host'.outbox = {}
      /\ \A r \in Sockets :
           down'[r] = IF r = s
                      THEN IF Reachable(r) THEN down[r] \o more ELSE down[r]
                      ELSE IF r = host.live /\ Reachable(r)
                      THEN down[r] \o <<Frame("bye", 0, 0)>> ELSE down[r]
      /\ unheard' = IF Reachable(s) THEN unheard ELSE unheard \cup host.outbox
  BY <1>2, <1>3, HostWelcomesIs
<1>5. PICK ok \in GoodFrames : ok = Frame("ok", 0, id) /\ ok.type = "ok"
  BY <1>4, FramesOfHost
<1>6. PICK bye \in GoodFrames : bye = Frame("bye", 0, 0) /\ bye.type = "bye"
  BY FramesOfHost
<1>7. PICK gs \in GrantSets : gs = host.outbox
  BY DEF Types, Hosts
<1>8. rest \in Line /\ Range(rest) = {About("revoke", h) : h \in gs}
  BY <1>3, <1>7, RevocationsAre, RangeRevocations
<1>9. Range(more) = {ok} \cup Range(rest)
  <2>1. PICK one : one = <<ok>>
    OBVIOUS
  <2>2. one \in Line /\ rest \in Line /\ more = one \o rest
    BY <1>3, <1>5, <1>8, <2>1, OneIs
  <2>3. Range(more) = Range(one) \cup Range(rest)
    BY <2>2, JoinedIs
  <2> QED BY <2>1, <2>3, RangeOne
<1>10. ASSUME NEW r \in Sockets
       PROVE  /\ Range(down[r]) \subseteq Range(down'[r])
              /\ Range(down'[r]) \subseteq Range(down[r]) \cup Range(more) \cup {bye}
              /\ r = s /\ Reachable(s) => Range(more) \subseteq Range(down'[r])
  <2>1. PICK q, p : q \in Line /\ q = down[r] /\ p = down'[r]
    BY DEF Types, Mail
  <2>2. more \in Line
    BY <1>4
  <2>3. CASE p = q \o more
    <3>0. q \in Line
      BY <2>1
    <3>1. Range(p) = Range(q) \cup Range(more)
      BY <2>2, <2>3, <3>0, JoinedIs
    <3> QED BY <2>1, <3>1
  <2>4. CASE p = q \o <<bye>>
    <3>1. Range(p) = Range(q) \cup {bye}
      BY <2>1, <2>4, RangeAdds
    <3>2. CASE r = s /\ Reachable(s)
      BY <1>4, <2>1, <2>3, <3>2
    <3> QED BY <2>1, <3>1, <3>2
  <2>5. CASE p = q /\ ~(r = s /\ Reachable(s))
    BY <2>1, <2>5
  <2> QED BY <1>4, <1>6, <2>1, <2>3, <2>4, <2>5
<1>11. \A h : About("revoke", h).type = "revoke"
  BY DEF About, Frame
<1>12. ASSUME About("revoke", g) \in Range(more)
       PROVE  g \in gs
  <2>1. PICK h \in gs : About("revoke", g) = About("revoke", h)
    BY <1>5, <1>8, <1>9, <1>11, <1>12
  <2> QED BY <2>1 DEF About, Frame
<1>13. Ending(g)' => Ending(g) \/ g \in gs
  BY <1>6, <1>10, <1>11, <1>12 DEF Ending
<1>14. \A f \in Range(more) : f.type # "accepted"
  BY <1>5, <1>8, <1>9, <1>11
<1>15. Accepting(g)' => Accepting(g)
  BY <1>6, <1>10, <1>14 DEF Accepting
<1>16. Ending(g) => Ending(g)'
  BY <1>10 DEF Ending
<1>17. g \in gs => Ending(g)' \/ g \in unheard'
  BY <1>4, <1>7, <1>8, <1>9, <1>10 DEF Ending
<1> QED BY <1>4, <1>7, <1>13, <1>15, <1>16, <1>17 DEF Books, GivenUp, Reached

LEMMA BooksForgets ==
    ASSUME Types, NEW h \in Grants, h \in host.records, HostForgets(h), NEW g \in Grants
    PROVE  Books(g)
<1>1. /\ host'.records = host.records \ {h}
      /\ host'.outbox = IF host.live = 0 THEN host.outbox \cup {h} ELSE host.outbox
      /\ \A r \in Sockets :
           down'[r] = IF r = host.live /\ Reachable(r)
                      THEN down[r] \o <<About("revoke", h)>> ELSE down[r]
      /\ unheard' = IF host.live # 0 /\ ~Reachable(host.live)
                    THEN unheard \cup {h} ELSE unheard
  BY ForgetsIs
<1>2. PICK f \in GoodFrames : f = About("revoke", h)
  BY AboutIs DEF FrameTypes
<1>3. \A r \in Sockets : down'[r] = down[r] \/ down'[r] = down[r] \o <<f>>
  BY <1>1, <1>2
<1>4. /\ Ending(g) => Ending(g)'
      /\ Ending(g)' => Ending(g) \/ f = About("revoke", g)
      /\ Accepting(g)' => Accepting(g) \/ (f.type = "accepted" /\ f.grant = g)
  BY <1>2, <1>3, DownAdds
<1>5. f.type = "revoke" /\ (f = About("revoke", g) => h = g)
  BY <1>2 DEF About, Frame
<1>6. host.live # 0 /\ Reachable(host.live) => Ending(h)'
  <2> SUFFICES ASSUME host.live # 0, Reachable(host.live)
               PROVE  Ending(h)'
    OBVIOUS
  <2>1. PICK r \in Sockets : r = host.live
    BY DEF Types, Hosts
  <2>2. PICK q, p : q \in Line /\ q = down[r] /\ p = down'[r]
    BY DEF Types, Mail
  <2>3. p = q \o <<f>>
    BY <1>1, <1>2, <2>1, <2>2
  <2>4. Range(p) = Range(q) \cup {f}
    BY <2>2, <2>3, RangeAdds
  <2> QED BY <1>2, <2>2, <2>4 DEF Ending
<1> QED BY <1>1, <1>4, <1>5, <1>6 DEF Books, GivenUp, Reached

LEMMA BooksStep ==
    ASSUME Types, HelloFirst, Next, NEW g \in Grants
    PROVE  Books(g)
<1>1. CASE UNCHANGED <<down, host, unheard>>
  BY <1>1 DEF Books, GivenUp, Reached, Ending, Accepting
<1>2. ASSUME NEW s \in Sockets, NEW type, Receives(s, type), type # "revoke"
      PROVE  Books(g)
  <2>1. /\ host' = host /\ unheard' = unheard
        /\ Ending(g)' => Ending(g)
        /\ Ending(g) => Ending(g)' \/ (type = "revoke" /\ Head(down[s]) = About("revoke", g))
        /\ Accepting(g)' => Accepting(g)
    BY <1>2, DownTakes
  <2> QED BY <1>2, <2>1 DEF Books, GivenUp, Reached
<1>3. ASSUME NEW s \in Sockets, HostRevoked(s)
      PROVE  Books(g)
  <2>1. Receives(s, "revoke")
    BY <1>3 DEF HostRevoked
  <2>2. PICK type : type = "revoke"
    OBVIOUS
  <2>3. Receives(s, type)
    BY <2>1, <2>2
  <2>4. /\ host' = host /\ unheard' = unheard
        /\ Ending(g)' => Ending(g)
        /\ Ending(g) => Ending(g)' \/ (type = "revoke" /\ Head(down[s]) = About("revoke", g))
        /\ Accepting(g)' => Accepting(g)
    BY <2>3, DownTakes
  <2> QED BY <1>3, <2>4 DEF Books, GivenUp, Reached, HearsOf
<1>4. ASSUME NEW s \in Sockets, Drop(s)
      PROVE  Books(g)
  <2>1. /\ \A r \in Sockets : down'[r] = IF r = s THEN <<>> ELSE down[r]
        /\ unheard \subseteq unheard' /\ host' = host
        /\ \A h \in Grants : About("revoke", h) \in Range(down[s]) => h \in unheard'
    BY <1>4, DropIs
  <2>2. \A r \in Sockets : Range(down'[r]) \subseteq Range(down[r])
    BY <2>1, RangeOne
  <2>3. Ending(g)' => Ending(g)
    BY <2>2 DEF Ending
  <2>4. Accepting(g)' => Accepting(g)
    BY <2>2 DEF Accepting
  <2>5. Ending(g) => Ending(g)' \/ g \in unheard'
    BY <2>1 DEF Ending
  <2> QED BY <2>1, <2>3, <2>4, <2>5 DEF Books, GivenUp, Reached
<1>5. ASSUME NEW f \in GoodFrames, f.type \in {"error", "call"},
             \A r \in Sockets : down'[r] = down[r] \/ down'[r] = down[r] \o <<f>>,
             UNCHANGED <<host, unheard>>
      PROVE  Books(g)
  <2>1. /\ Ending(g) => Ending(g)'
        /\ Ending(g)' => Ending(g) \/ f = About("revoke", g)
        /\ Accepting(g)' => Accepting(g) \/ (f.type = "accepted" /\ f.grant = g)
    BY <1>5, DownAdds
  <2>2. f # About("revoke", g)
    BY <1>5 DEF About, Frame
  <2> QED BY <1>5, <2>1, <2>2 DEF Books, GivenUp, Reached
<1>6. ASSUME NEW s \in Sockets, HostRejects(s)
      PROVE  Books(g)
  <2>1. PICK f \in GoodFrames : f = Frame("error", 0, 0)
    BY FramesOfHost
  <2>2. f.type \in {"error", "call"}
    BY <2>1, FramesOfHost
  <2>3. down' = Mailed(down, s, <<f>>) /\ UNCHANGED <<host, unheard>>
    BY <1>6, <2>1 DEF HostRejects
  <2>4. \A r \in Sockets : down'[r] = down[r] \/ down'[r] = down[r] \o <<f>>
    BY <2>3, SaysIs
  <2> QED BY <1>5, <2>2, <2>3, <2>4
<1>7. ASSUME NEW h \in Grants, HostCalls(h)
      PROVE  Books(g)
  <2>1. PICK s \in Sockets : s = host.live
    BY <1>7 DEF HostCalls, Types, Hosts
  <2>2. PICK f \in GoodFrames : f = About("call", h)
    BY AboutIs DEF FrameTypes
  <2>3. f.type \in {"error", "call"}
    BY <2>2 DEF About, Frame
  <2>4. down' = Mailed(down, s, <<f>>) /\ UNCHANGED <<host, unheard>>
    BY <1>7, <2>1, <2>2 DEF HostCalls
  <2>5. \A r \in Sockets : down'[r] = down[r] \/ down'[r] = down[r] \o <<f>>
    BY <2>4, SaysIs
  <2> QED BY <1>5, <2>3, <2>4, <2>5
<1>8. ASSUME NEW s \in Sockets, HostAccepts(s)
      PROVE  Books(g)
  <2>1. PICK h \in Grants : h = Head(net.up[s]).grant /\ Head(net.up[s]) = About("put", h)
    BY <1>8, HostAcceptsIs
  <2>2. /\ host'.outbox = host.outbox
        /\ host'.records = IF host.live = s THEN host.records \cup {h} ELSE host.records
        /\ host.live = s => host.id \in Sockets
        /\ \A r \in Sockets :
             down'[r] = IF r = s /\ host.live = s /\ Reachable(r)
                        THEN down[r] \o <<Frame("accepted", h, host.id)>> ELSE down[r]
        /\ unheard' = unheard
    BY <1>8, <2>1, HostAcceptsIs
  <2>3. CASE host.live = s
    <3>1. PICK f \in GoodFrames : f = Frame("accepted", h, host.id)
      BY <2>2, <2>3, FramesOfHost
    <3>2. \A r \in Sockets : down'[r] = down[r] \/ down'[r] = down[r] \o <<f>>
      BY <2>2, <3>1
    <3>3. /\ Ending(g) => Ending(g)'
          /\ Ending(g)' => Ending(g) \/ f = About("revoke", g)
          /\ Accepting(g)' => Accepting(g) \/ (f.type = "accepted" /\ f.grant = g)
      BY <3>1, <3>2, DownAdds
    <3>4. f # About("revoke", g) /\ f.grant = h
      BY <3>1 DEF About, Frame
    <3>5. h = g => Taken(g)
      BY <1>8, <2>1, <2>3 DEF Taken, Takes
    <3> QED BY <2>2, <3>3, <3>4, <3>5 DEF Books, GivenUp, Reached
  <2>4. CASE host.live # s
    <3>1. \A r \in Sockets : down'[r] = down[r]
      BY <2>2, <2>4
    <3>2. (Ending(g)' <=> Ending(g)) /\ (Accepting(g)' <=> Accepting(g))
      BY <3>1 DEF Ending, Accepting
    <3> QED BY <2>2, <2>4, <3>2 DEF Books, GivenUp, Reached
  <2> QED BY <2>3, <2>4
<1>9. ASSUME NEW h \in Grants, HostRevokes(h)
      PROVE  Books(g)
  BY <1>9, BooksForgets DEF HostRevokes
<1>10. ASSUME NEW s \in Sockets, HostHearsRevoke(s)
       PROVE  Books(g)
  <2>1. PICK h : h = Head(net.up[s]).grant
    OBVIOUS
  <2>2. CASE h \in host.records
    <3>1. h \in Grants /\ HostForgets(h)
      BY <1>10, <2>1, <2>2 DEF HostHearsRevoke, Types, Hosts, GrantSets
    <3> QED BY <2>2, <3>1, BooksForgets
  <2>3. CASE h \notin host.records
    <3>1. UNCHANGED <<down, host, unheard>>
      BY <1>10, <2>1, <2>3 DEF HostHearsRevoke
    <3> QED BY <3>1 DEF Books, GivenUp, Reached, Ending, Accepting
  <2> QED BY <2>2, <2>3
<1>11. CASE HostSeesClose
  <2>1. /\ host'.records = host.records /\ host'.outbox = host.outbox
        /\ UNCHANGED <<down, unheard>>
    BY <1>11 DEF HostSeesClose, Types, Hosts
  <2> QED BY <2>1 DEF Books, GivenUp, Reached, Ending, Accepting
<1>12. CASE HostRestarts
  <2>1. /\ host'.records = {} /\ host'.outbox = {}
        /\ \A r \in Sockets : down'[r] \in {<<Frame("bye", 0, 0)>>, <<>>}
    BY <1>12, RestartIs
  <2>2. PICK bye \in GoodFrames : bye = Frame("bye", 0, 0) /\ bye.type = "bye"
    BY FramesOfHost
  <2>3. \A r \in Sockets : Range(down'[r]) \subseteq {bye}
    BY <2>1, <2>2, RangeOne
  <2>4. About("revoke", g) # bye
    BY <2>2 DEF About, Frame
  <2>5. ~Ending(g)'
    BY <2>3, <2>4 DEF Ending
  <2>6. ~Accepting(g)'
    BY <2>2, <2>3 DEF Accepting
  <2> QED BY <1>12, <2>1, <2>5, <2>6 DEF Books, GivenUp
<1>13. ASSUME NEW s \in Sockets, HostWelcomes(s)
       PROVE  Books(g)
  BY <1>13, BooksWelcome
<1>14. CASE PanelStep
  BY <1>1, <1>14 DEF PanelStep, OpenPanel, ClosePanel, Connect, CreateRequest, TabRefused,
     TabRead, Cancel, bridgeVars
<1>15. CASE TimerStep
  BY <1>1, <1>15 DEF TimerStep, LocalRevoke, AckTimeout, bridgeVars
<1>16. CASE FrameStep
  BY <1>2, <1>3, <1>16 DEF FrameStep, HelloOk, Accepted, Rejected, ToolCall
<1>17. CASE WireStep
  BY <1>1, <1>2, <1>4, <1>17 DEF WireStep, WsOpens, HostCloses, WsCloses, bridgeVars
<1>18. CASE HostStep
  BY <1>6, <1>7, <1>8, <1>9, <1>10, <1>11, <1>12, <1>13, <1>18 DEF HostStep
<1> QED BY <1>14, <1>15, <1>16, <1>17, <1>18 DEF Next

-----------------------------------------------------------------------------
(* A grant is offered once *)

LEMMA SendingStep ==
    ASSUME Types, Drained, Next, NEW g \in Grants, ~TabRead(g), Sending(g)'
    PROVE  Sending(g)
<1>1. PICK s \in Sockets : \E i \in DOMAIN net'.up[s] : net'.up[s][i] = About("put", g)
  BY DEF Sending, Range
<1>2. PICK c \in {0, 1} : Shifted(net.up[s], net'.up[s], c, g)
  BY LinesMove
<1>3. PICK i \in DOMAIN net'.up[s] : net'.up[s][i] = About("put", g)
  BY <1>1
<1>4. i + c \in DOMAIN net.up[s] /\ net.up[s][i + c] = About("put", g)
  BY <1>2, <1>3 DEF Shifted
<1> QED BY <1>4 DEF Sending, Range

(* A grant that has not been issued is touched by nothing.                 *)
LEMMA UntouchedStep ==
    ASSUME Types, Scope, Next, NEW g \in Grants, vault[g] = "none"
    PROVE  vault'[g] = "none" \/ TabRead(g)
<1>0. ~Live(g) /\ g \notin offered
  BY DEF Live, Scope
<1>1. CASE vault' = vault
  BY <1>1
<1>2. ASSUME NEW gs, vault' = Revoked(gs), g \notin gs
      PROVE  vault'[g] = "none"
  BY <1>2 DEF Revoked
<1>3. g \notin LiveGrants
  BY <1>0 DEF LiveGrants
<1>4. ASSUME NEW p \in Panels, ClosePanel(p)
      PROVE  vault'[g] = "none"
  BY <1>2, <1>3, <1>4 DEF ClosePanel
<1>5. ASSUME NEW h \in Grants, RevokesAndTells(h)
      PROVE  vault'[g] = "none"
  <2>1. \A k \in Grants : vault'[k] = IF k = h /\ Live(h) THEN "gone" ELSE vault[k]
    BY <1>5, RevokesIs
  <2> QED BY <1>0, <2>1
<1>6. ASSUME NEW h \in Grants, AckTimeout(h)
      PROVE  vault'[g] = "none"
  BY <1>0, <1>2, <1>6 DEF AckTimeout
<1>7. ASSUME NEW h \in Grants, TabRead(h), h # g
      PROVE  vault'[g] = "none"
  BY <1>7 DEF TabRead, Types
<1>8. ASSUME NEW s \in Sockets, HelloOk(s)
      PROVE  vault'[g] = "none"
  <2>1. vault' = Revoked(LiveGrants) \/ vault' = vault
    BY <1>8 DEF HelloOk
  <2> QED BY <1>2, <1>3, <2>1
<1>9. ASSUME NEW s \in Sockets, Accepted(s)
      PROVE  vault'[g] = "none"
  <2>1. PICK f : f = Head(down[s])
    OBVIOUS
  <2>2. vault' = vault \/ (Live(f.grant) /\ vault' = [vault EXCEPT ![f.grant] = "accepted"])
    BY <1>9, <2>1 DEF Accepted
  <2> QED BY <1>0, <2>2 DEF Types
<1>10. ASSUME NEW s \in Sockets, Rejected(s)
       PROVE  vault'[g] = "none"
  BY <1>0, <1>2, <1>10 DEF Rejected
<1>11. ASSUME NEW s \in Sockets, HostRevoked(s)
       PROVE  vault'[g] = "none"
  <2>1. PICK h : h = Head(down[s]).grant
    OBVIOUS
  <2>2. vault' = IF Live(h) THEN Revoked({h}) ELSE vault
    BY <1>11, <2>1 DEF HostRevoked
  <2> QED BY <1>0, <1>2, <2>2
<1>12. CASE PanelStep
  BY <1>1, <1>4, <1>5, <1>7, <1>12 DEF PanelStep, OpenPanel, Connect, CreateRequest, TabRefused,
     Cancel, grantVars
<1>13. CASE TimerStep
  BY <1>5, <1>6, <1>13 DEF TimerStep, LocalRevoke
<1>14. CASE FrameStep
  <2>1. ASSUME NEW s \in Sockets, ToolCall(s)
        PROVE  vault' = vault
    BY <2>1 DEF ToolCall, grantVars
  <2> QED BY <1>1, <1>8, <1>9, <1>10, <1>11, <1>14, <2>1 DEF FrameStep
<1>15. CASE WireStep
  BY <1>1, <1>15 DEF WireStep, WsOpens, HostCloses, Drop, WsCloses, grantVars
<1>16. CASE HostStep
  <2>1. vault' = vault
    BY <1>16 DEF HostStep, HostWelcomes, HostAccepts, HostRejects, HostHearsRevoke, HostRevokes,
       HostCalls, HostSeesClose, HostRestarts, HostHears, grantVars
  <2> QED BY <1>1, <2>1
<1> QED BY <1>12, <1>13, <1>14, <1>15, <1>16 DEF Next

LEMMA AskerStep ==
    ASSUME Types, Next, NEW g \in Grants
    PROVE  \/ asker'[g] = asker[g] /\ (g \in reading' => g \in reading /\ ~TabRead(g))
           \/ asker[g] = NoPanel /\ asker'[g] # NoPanel
<1>0. asker \in [Grants -> Panels \cup {NoPanel}] /\ NoPanel \notin Panels
  BY DEF Types
<1>1. ASSUME NEW p \in Panels, NEW h \in Grants, CreateRequest(h, p)
      PROVE  \/ asker'[g] = asker[g] /\ (g \in reading' => g \in reading /\ ~TabRead(g))
             \/ asker[g] = NoPanel /\ asker'[g] # NoPanel
  <2>1. /\ asker[h] = NoPanel /\ asker' = [asker EXCEPT ![h] = p]
        /\ reading' = reading \cup {h}
    BY <1>1 DEF CreateRequest
  <2>2. g \in reading => (~TabRead(g) \/ g \notin reading')
    BY DEF TabRead
  <2> QED BY <1>0, <2>1, <2>2
<1>2. ASSUME asker' = asker, reading' = reading \/ \E h \in Grants : reading' = reading \ {h}
      PROVE  asker'[g] = asker[g] /\ (g \in reading' => g \in reading /\ ~TabRead(g))
  BY <1>2 DEF TabRead
<1>3. \/ \E p \in Panels, h \in Grants : CreateRequest(h, p)
      \/ asker' = asker /\ (reading' = reading \/ \E h \in Grants : reading' = reading \ {h})
  <2>1. CASE PanelStep
    BY <2>1 DEF PanelStep, OpenPanel, ClosePanel, Connect, TabRefused, TabRead, Cancel, grantVars
  <2>2. CASE TimerStep
    BY <2>2 DEF TimerStep, LocalRevoke, AckTimeout
  <2>3. CASE FrameStep
    BY <2>3 DEF FrameStep, HelloOk, Accepted, Rejected, HostRevoked, ToolCall, grantVars
  <2>4. CASE WireStep
    BY <2>4 DEF WireStep, WsOpens, HostCloses, Drop, WsCloses, grantVars
  <2>5. CASE HostStep
    BY <2>5 DEF HostStep, HostWelcomes, HostAccepts, HostRejects, HostHearsRevoke, HostRevokes,
       HostCalls, HostSeesClose, HostRestarts, HostHears, grantVars
  <2> QED BY <2>1, <2>2, <2>3, <2>4, <2>5 DEF Next
<1> QED BY <1>1, <1>2, <1>3

(* Taking an offer takes the only one, into the records.                   *)
LEMMA TakenOnce ==
    ASSUME Types, OneOffer, NEW g \in Grants, Taken(g)
    PROVE  Sending(g) /\ ~Sending(g)' /\ g \in host'.records /\ vault' = vault
<1>1. PICK s \in Sockets : HostAccepts(s) /\ host.live = s /\ Head(net.up[s]) = About("put", g)
  BY DEF Taken, Takes
<1>2. HostHears(s, "put")
  BY <1>1 DEF HostAccepts
<1>3. ~Sending(g)'
  BY <1>1, <1>2, TakesOnly
<1>4. vault' = vault /\ net.up[s] # <<>>
  BY <1>2 DEF HostHears, grantVars
<1>5. PICK q \in Line : q = net.up[s]
  BY DEF Types, Clients
<1>6. Head(q) = q[1] /\ 1 \in DOMAIN q
  BY <1>4, <1>5, TailIs
<1>7. Sending(g)
  BY <1>1, <1>5, <1>6 DEF Sending, Range
<1>8. PICK h \in Grants : h = Head(net.up[s]).grant
  BY <1>1, HostAcceptsIs
<1>9. h = g
  BY <1>1, <1>8 DEF About, Frame
<1>10. host'.records = IF host.live = s THEN host.records \cup {h} ELSE host.records
  BY <1>1, <1>8, HostAcceptsIs
<1> QED BY <1>1, <1>3, <1>4, <1>7, <1>9, <1>10

LEMMA OfferedOnceStep ==
    ASSUME Types, HelloFirst, Drained, Scope, OfferedOnce, OneOffer, Next
    PROVE  OfferedOnce'
<1> SUFFICES ASSUME NEW g \in Grants
             PROVE  /\ asker'[g] = NoPanel => g \notin reading'
                    /\ asker'[g] = NoPanel \/ g \in reading' =>
                         /\ vault'[g] = "none" /\ g \notin host'.records
                         /\ ~Sending(g)' /\ ~GivenUp(g)' /\ ~Accepting(g)'
                    /\ Sending(g)' => g \notin host'.records
                    /\ Sending(g)' \/ g \in host'.records => ~GivenUp(g)'
  BY DEF OfferedOnce
<1>1. /\ asker[g] = NoPanel => g \notin reading
      /\ asker[g] = NoPanel \/ g \in reading =>
           /\ vault[g] = "none" /\ g \notin host.records
           /\ ~Sending(g) /\ ~GivenUp(g) /\ ~Accepting(g)
      /\ Sending(g) => g \notin host.records
      /\ Sending(g) \/ g \in host.records => ~GivenUp(g)
  BY DEF OfferedOnce
<1>2. Books(g)
  BY BooksStep
<1>3. Taken(g) => Sending(g) /\ ~Sending(g)' /\ g \in host'.records /\ vault' = vault
  BY TakenOnce
<1>4. TabRead(g) => g \in reading
  BY DEF TabRead
<1>5. Sending(g)' => Sending(g) \/ TabRead(g)
  BY SendingStep
<1>6. asker'[g] = NoPanel => g \notin reading'
  BY <1>1, AskerStep
<1>7. ASSUME asker'[g] = NoPanel \/ g \in reading'
      PROVE  (asker[g] = NoPanel \/ g \in reading) /\ ~TabRead(g)
  <2>1. CASE asker'[g] = asker[g] /\ (g \in reading' => g \in reading /\ ~TabRead(g))
    <3>1. asker[g] = NoPanel => ~TabRead(g)
      BY <1>1, <1>4
    <3> QED BY <1>7, <2>1, <3>1
  <2>2. CASE asker[g] = NoPanel /\ asker'[g] # NoPanel
    BY <1>1, <1>4, <2>2
  <2> QED BY <2>1, <2>2, AskerStep
<1>8. ASSUME asker'[g] = NoPanel \/ g \in reading'
      PROVE  /\ vault'[g] = "none" /\ g \notin host'.records
             /\ ~Sending(g)' /\ ~GivenUp(g)' /\ ~Accepting(g)'
  <2>1. /\ vault[g] = "none" /\ g \notin host.records
        /\ ~Sending(g) /\ ~GivenUp(g) /\ ~Accepting(g) /\ ~TabRead(g)
    BY <1>1, <1>7, <1>8
  <2>2. vault'[g] = "none"
    BY <2>1, UntouchedStep
  <2> QED BY <1>2, <1>3, <1>5, <2>1, <2>2 DEF Books
<1>9. ASSUME Sending(g)'
      PROVE  g \notin host'.records
  BY <1>1, <1>2, <1>3, <1>4, <1>5, <1>9 DEF Books
<1>10. ASSUME Sending(g)' \/ g \in host'.records
       PROVE  ~GivenUp(g)'
  BY <1>1, <1>2, <1>3, <1>4, <1>5, <1>10 DEF Books
<1> QED BY <1>6, <1>8, <1>9, <1>10

-----------------------------------------------------------------------------
(* What is bound here is held by the host, or its end is on the way *)

LEMMA RestartSilences ==
    ASSUME Types, HostRestarts, NEW g \in Grants
    PROVE  ~Accepting(g)' /\ bound' = bound /\ net'.lastId = net.lastId /\ host'.id = 0
<1>1. /\ host'.id = 0 /\ net'.lastId = net.lastId
      /\ \A r \in Sockets : down'[r] \in {<<Frame("bye", 0, 0)>>, <<>>}
  BY RestartIs
<1>2. PICK bye \in GoodFrames : bye = Frame("bye", 0, 0) /\ bye.type = "bye"
  BY FramesOfHost
<1>3. \A r \in Sockets : Range(down'[r]) \subseteq {bye}
  BY <1>1, <1>2, RangeOne
<1>4. ~Accepting(g)'
  BY <1>2, <1>3 DEF Accepting
<1> QED BY <1>1, <1>4 DEF HostRestarts, grantVars

(* A grant comes to life only when its tab has been read.                  *)
LEMMA LiveStep ==
    ASSUME Types, Next, NEW g \in Grants, Live(g)'
    PROVE  (Live(g) \/ TabRead(g)) /\ ~HearsOf(g)
<1> DEFINE I == Live(g) \/ TabRead(g)
<1>0. vault'[g] \in {"issued", "accepted"}
  BY DEF Live
<1>1. ASSUME vault' = vault
      PROVE  I
  BY <1>0, <1>1 DEF Live
<1>2. ASSUME NEW gs, vault' = Revoked(gs)
      PROVE  Live(g) /\ g \notin gs
  BY <1>0, <1>2 DEF Revoked, Live
<1>3. ASSUME NEW h \in Grants, RevokesAndTells(h)
      PROVE  I
  BY <1>1, <1>2, <1>3 DEF RevokesAndTells
<1>4. ASSUME NEW h \in Grants, TabRead(h)
      PROVE  I
  BY <1>0, <1>4 DEF TabRead, Types, Live
<1>5. ASSUME NEW s \in Sockets, Accepted(s)
      PROVE  I
  <2>1. PICK f : f = Head(down[s])
    OBVIOUS
  <2>2. vault' = vault \/ (Live(f.grant) /\ vault' = [vault EXCEPT ![f.grant] = "accepted"])
    BY <1>5, <2>1 DEF Accepted
  <2> QED BY <1>0, <2>2 DEF Types, Live
<1>6. ASSUME NEW s \in Sockets, HostRevoked(s)
      PROVE  I /\ Head(down[s]) # About("revoke", g)
  <2>1. PICK f : f = Head(down[s])
    OBVIOUS
  <2>2. vault' = IF Live(f.grant) THEN Revoked({f.grant}) ELSE vault
    BY <1>6, <2>1 DEF HostRevoked
  <2>3. Live(g)
    BY <1>0, <1>2, <2>2 DEF Live
  <2>4. f.grant # g
    BY <1>2, <2>2, <2>3
  <2> QED BY <2>1, <2>3, <2>4 DEF About, Frame
<1>7. I
  <2>1. CASE PanelStep
    BY <1>1, <1>2, <1>3, <1>4, <2>1 DEF PanelStep, OpenPanel, ClosePanel, Connect, CreateRequest,
       TabRefused, Cancel, grantVars
  <2>2. CASE TimerStep
    BY <1>2, <1>3, <2>2 DEF TimerStep, LocalRevoke, AckTimeout
  <2>3. CASE FrameStep
    BY <1>1, <1>2, <1>5, <1>6, <2>3 DEF FrameStep, HelloOk, Rejected, ToolCall, grantVars
  <2>4. CASE WireStep
    BY <1>1, <2>4 DEF WireStep, WsOpens, HostCloses, Drop, WsCloses, grantVars
  <2>5. CASE HostStep
    BY <1>1, <2>5 DEF HostStep, HostWelcomes, HostAccepts, HostRejects, HostHearsRevoke, HostRevokes,
       HostCalls, HostSeesClose, HostRestarts, HostHears, grantVars
  <2> QED BY <2>1, <2>2, <2>3, <2>4, <2>5 DEF Next
<1>8. ~HearsOf(g)
  BY <1>6 DEF HearsOf
<1> QED BY <1>7, <1>8

(* A grant is bound when its acceptance arrives, and by nothing else.      *)
LEMMA BoundStep ==
    ASSUME Types, Scope, Next, NEW g \in Grants, g \in bound', g \notin bound
    PROVE  Accepting(g) /\ Live(g)
<1>1. \E s \in Sockets : Accepted(s)
  <2>1. CASE PanelStep
    BY <2>1 DEF PanelStep, OpenPanel, ClosePanel, Connect, CreateRequest, TabRefused, TabRead,
       Cancel, RevokesAndTells, grantVars
  <2>2. CASE TimerStep
    BY <2>2 DEF TimerStep, LocalRevoke, AckTimeout, RevokesAndTells
  <2>3. CASE FrameStep
    BY <2>3 DEF FrameStep, HelloOk, Rejected, HostRevoked, ToolCall, grantVars
  <2>4. CASE WireStep
    BY <2>4 DEF WireStep, WsOpens, HostCloses, Drop, WsCloses, grantVars
  <2>5. CASE HostStep
    BY <2>5 DEF HostStep, HostWelcomes, HostAccepts, HostRejects, HostHearsRevoke, HostRevokes,
       HostCalls, HostSeesClose, HostRestarts, HostHears, grantVars
  <2> QED BY <2>1, <2>2, <2>3, <2>4, <2>5 DEF Next
<1>2. PICK s \in Sockets : Accepted(s)
  BY <1>1
<1>3. PICK f : f = Head(down[s])
  OBVIOUS
<1>4. f.grant \in offered /\ Live(f.grant) /\ bound' = bound \cup {f.grant}
  BY <1>2, <1>3 DEF Accepted
<1>5. f.grant = g /\ Live(g)
  BY <1>4
<1>6. Receives(s, "accepted")
  BY <1>2 DEF Accepted
<1>7. down[s] # <<>> /\ f.type = "accepted"
  BY <1>3, <1>6 DEF Receives
<1>8. PICK d \in Line : d = down[s]
  BY DEF Types, Mail
<1>9. f \in Range(d)
  BY <1>3, <1>7, <1>8, RangeTail
<1> QED BY <1>5, <1>7, <1>8, <1>9 DEF Accepting

LEMMA BackedStep ==
    ASSUME Types, HelloFirst, Voice, Scope, Scope', OfferedOnce, OneOffer, Backed, Next
    PROVE  Backed'
<1> SUFFICES ASSUME NEW g \in Grants
             PROVE  /\ g \in bound' => Reached(g)' \/ net'.lastId # host'.id
                    /\ Accepting(g)' /\ Live(g)' => Reached(g)'
  BY DEF Backed
<1>0. /\ g \in bound => Reached(g) \/ net.lastId # host.id
      /\ Accepting(g) /\ Live(g) => Reached(g)
  BY DEF Backed
<1>1. Books(g)
  BY BooksStep
<1>2. ASSUME g \in bound'
      PROVE  Reached(g)' \/ net'.lastId # host'.id
  <2>1. net'.lastId # 0
    BY <1>2 DEF Scope
  <2>2. ~HearsOf(g)
    <3>1. ASSUME NEW s \in Sockets, HostRevoked(s), Head(down[s]) = About("revoke", g)
          PROVE  FALSE
      <4>1. Head(down[s]).grant = g
        BY <3>1 DEF About, Frame
      <4> QED BY <1>2, <3>1, <4>1 DEF HostRevoked
    <3> QED BY <3>1 DEF HearsOf
  <2>3. CASE Reached(g)
    <3>1. CASE HostRestarts
      BY <2>1, <3>1, RestartSilences
    <3> QED BY <1>1, <2>2, <2>3, <3>1 DEF Books
  <2>4. CASE g \notin bound
    BY <1>0, <1>2, <2>3, <2>4, BoundStep
  <2>5. CASE g \in bound /\ ~Reached(g)
    <3>1. net.lastId # host.id /\ net.lastId # 0
      BY <1>0, <2>5 DEF Scope
    <3>2. ASSUME NEW s \in Sockets, HelloOk(s), net'.lastId = host.id
          PROVE  FALSE
      <4>1. PICK id : id = Head(down[s]).id
        OBVIOUS
      <4>2. net'.lastId = id
        BY <3>2, <4>1, HelloOkIs
      <4>3. SessionChanges(net, id)
        BY <3>1, <3>2, <4>2 DEF SessionChanges
      <4>4. bound' = {}
        BY <3>2, <4>1, <4>3 DEF HelloOk
      <4> QED BY <1>2, <4>4
    <3>3. net'.lastId = net.lastId
      BY <2>1, <3>2, Ids
    <3>4. CASE host'.id \in {host.id, 0}
      BY <2>1, <3>1, <3>3, <3>4
    <3>5. ASSUME NEW s \in Sockets, HostWelcomes(s), host'.id \in {s, host.id}
          PROVE  net'.lastId # host'.id
      <4>1. HostHears(s, "hello")
        BY <3>5 DEF HostWelcomes
      <4>2. net.lastId # s
        BY <4>1, HelloIsNew
      <4> QED BY <3>1, <3>3, <3>5, <4>2
    <3> QED BY <3>4, <3>5, Ids
  <2> QED BY <2>3, <2>4, <2>5
<1>3. ASSUME Accepting(g)', Live(g)'
      PROVE  Reached(g)'
  <2>1. (Live(g) \/ TabRead(g)) /\ ~HearsOf(g)
    BY <1>3, LiveStep
  <2>2. CASE Taken(g)
    <3>1. g \in host'.records
      BY <2>2, TakenOnce
    <3> QED BY <3>1 DEF Reached
  <2>3. CASE ~Taken(g)
    <3>1. Accepting(g)
      BY <1>1, <1>3, <2>3 DEF Books
    <3>2. ~TabRead(g)
      BY <3>1 DEF TabRead, OfferedOnce
    <3>3. Reached(g)
      BY <1>0, <2>1, <3>1, <3>2
    <3>4. ~HostRestarts
      BY <1>3, RestartSilences
    <3> QED BY <1>1, <2>1, <3>3, <3>4 DEF Books
  <2> QED BY <2>2, <2>3
<1> QED BY <1>2, <1>3

-----------------------------------------------------------------------------
(* A grant that has ended here is accounted for *)

(* The current socket has been opened.                                     *)
Dialed == net.socket # 0 => net.ws[net.socket] # "unused"

LEMMA DialedStep ==
    ASSUME Types, Link, Dialed, Next
    PROVE  Dialed'
<1>0. WsStep /\ net.socket \in Sockets \cup {0} /\ net \in Clients /\ Drained
  BY LinkDrained, Upward DEF Types, Clients
<1>1. ASSUME net'.socket \in {net.socket, 0}
      PROVE  Dialed'
  BY <1>0, <1>1 DEF Dialed, WsStep
<1>2. CASE LinkKept
  BY <1>1, <1>2 DEF LinkKept
<1>3. ASSUME NEW p \in Panels, ClosePanel(p)
      PROVE  net'.socket \in {net.socket, 0}
  BY <1>0, <1>3, ClosePanelIs
<1>4. ASSUME NEW p \in Panels, NEW s \in Sockets, Connect(p, s)
      PROVE  Dialed'
  <2>1. net' = Opened(net, s)
    BY <1>4 DEF Connect
  <2>2. net'.socket = s /\ \A r \in Sockets : net'.ws[r] = IF r = s THEN "opening" ELSE net.ws[r]
    BY <1>0, <2>1, OpenedIs
  <2> QED BY <2>2 DEF Dialed
<1>5. ASSUME NEW s \in Sockets, HelloOk(s)
      PROVE  net'.socket \in {net.socket, 0}
  BY <1>5, HelloOkIs
<1> QED BY <1>1, <1>2, <1>3, <1>4, <1>5, LinkStep

(* A notice on its way arrives, or leaves a reason why it did not.         *)
LEMMA NoticeKept ==
    ASSUME Types, Drained, Next, NEW g \in Grants, NEW s \in Sockets,
           About("revoke", g) \in Range(net.up[s]),
           g \in host'.records, missed'[g] = "no"
    PROVE  About("revoke", g) \in Range(net'.up[s])
<1>0. PICK f \in GoodFrames : f = About("revoke", g) /\ f.type = "revoke" /\ f.grant = g
  BY AboutIs DEF FrameTypes
<1>1. PICK q, p : q \in Line /\ q = net.up[s] /\ p = net'.up[s]
  BY DEF Types, Clients
<1>2. f \in Range(q)
  BY <1>0, <1>1
<1> SUFFICES f \in Range(p)
  BY <1>0, <1>1
<1>3. ASSUME NEW more \in Line, p = q \o more
      PROVE  f \in Range(p)
  <2>0. q \in Line
    BY <1>1
  <2>1. Range(p) = Range(q) \cup Range(more)
    BY <1>3, <2>0, JoinedIs
  <2> QED BY <1>2, <2>1
<1>4. ASSUME NEW e \in GoodFrames, p = q \/ p = q \o <<e>>
      PROVE  f \in Range(p)
  <2>1. p = q \o <<e>> => Range(p) = Range(q) \cup {e}
    BY <1>1, RangeAdds
  <2> QED BY <1>2, <1>4, <2>1
<1>5. CASE ~HostStep
  <2>1. CASE UpStep({"revoke", "expired"})
    <3>1. p = q \/ Drop(s) \/ Behind(q, p, {"revoke", "expired"})
      BY <1>1, <1>5, <2>1 DEF UpStep
    <3>2. CASE Drop(s)
      BY <3>2, DropIs
    <3>3. CASE Behind(q, p, {"revoke", "expired"})
      BY <1>3, <3>3 DEF Behind
    <3> QED BY <1>2, <3>1, <3>2, <3>3
  <2>2. ASSUME NEW t \in Sockets, WsOpens(t)
        PROVE  f \in Range(p)
    <3>1. PICK e \in GoodFrames : e = Hello
      BY FramesOfHost
    <3>2. p = q \/ p = q \o <<e>>
      BY <1>1, <2>2, <3>1, OpensUp
    <3> QED BY <1>4, <3>2
  <2>3. ASSUME NEW h \in Grants, TabRead(h)
        PROVE  f \in Range(p)
    <3>1. PICK e \in GoodFrames : e = About("put", h)
      BY AboutIs DEF FrameTypes
    <3>2. p = q \/ p = q \o <<e>>
      BY <1>1, <2>3, <3>1, TabReadIs
    <3> QED BY <1>4, <3>2
  <2> QED BY <2>1, <2>2, <2>3, Upward
<1>6. ASSUME NEW t \in Sockets, NEW type, HostHears(t, type), type # "revoke" \/ Head(net.up[t]) # f
      PROVE  f \in Range(p)
  <2>1. /\ net.up[t] # <<>> /\ Head(net.up[t]).type = type
        /\ \A r \in Sockets : net'.up[r] = IF r = t THEN Tail(net.up[t]) ELSE net.up[r]
    BY <1>6, HearsIs
  <2>2. CASE t = s
    <3>1. q # <<>> /\ p = Tail(q)
      BY <1>1, <2>1, <2>2
    <3>2. Range(q) = {Head(q)} \cup Range(p)
      BY <1>1, <3>1, RangeTail
    <3>3. Head(q) # f
      BY <1>0, <1>1, <1>6, <2>1, <2>2
    <3> QED BY <1>2, <3>2, <3>3
  <2>3. CASE t # s
    BY <1>1, <1>2, <2>1, <2>3
  <2> QED BY <2>2, <2>3
<1>7. ASSUME NEW t \in Sockets, HostHearsRevoke(t)
      PROVE  f \in Range(p)
  <2>1. PICK h : h = Head(net.up[t]).grant
    OBVIOUS
  <2>2. CASE h \in host.records
    <3>1. h \in Grants /\ HostForgets(h)
      BY <1>7, <2>1, <2>2 DEF HostHearsRevoke, Types, Hosts, GrantSets
    <3>2. h # g
      BY <3>1, ForgetsIs
    <3>3. Head(net.up[t]) # f
      BY <1>0, <2>1, <3>2
    <3> QED BY <1>6, <1>7, <3>3 DEF HostHearsRevoke
  <2>3. CASE h \notin host.records
    <3>1. host' = host
      BY <1>7, <2>1, <2>3 DEF HostHearsRevoke
    <3>2. Head(net.up[t]) # f
      BY <1>0, <2>1, <2>3, <3>1
    <3> QED BY <1>6, <1>7, <3>2 DEF HostHearsRevoke
  <2> QED BY <2>2, <2>3
<1>8. ~HostRestarts
  BY RestartIs
<1>9. ASSUME net' = net
      PROVE  f \in Range(p)
  BY <1>1, <1>2, <1>9
<1>10. CASE HostStep
  BY <1>6, <1>7, <1>8, <1>9, <1>10 DEF HostStep, HostWelcomes, HostAccepts, HostRejects,
     HostRevokes, HostCalls, HostSeesClose
<1> QED BY <1>5, <1>10

(* The end of g is said on the socket s, or at least accounted for.        *)
Tells(s, g) ==
    /\ \E gs \in GrantSets : g \in gs /\ net'.up[s] = net.up[s] \o Revocations(gs)
    /\ \A r \in Sockets \ {s} : About("put", g) \in Range(net.up[r]) => missed'[g] # "no"
Told(g) == \E s \in Sockets : Tells(s, g)

(* The notice of grants that end here goes to the current socket.          *)
LEMMA NoticeSent ==
    ASSUME Types, Dialed, NEW gs \in GrantSets, NEW g \in gs, ~SendFails(net),
           \A r \in Sockets :
             net'.up[r] = IF ~SendFails(net) /\ r = net.socket /\ net.ws[r] = "open"
                          THEN net.up[r] \o Revocations(gs) ELSE net.up[r],
           Swallows(net) => missed'[g] # "no",
           Connected(net) => \A r \in Sockets \ {net.socket} :
             About("put", g) \in Range(net.up[r]) => missed'[g] # "no"
    PROVE  missed'[g] # "no" \/ Told(g)
<1>1. Connected(net) /\ ~Throws(net, net.socket)
  BY DEF SendFails
<1>2. PICK s \in Sockets : s = net.socket
  BY <1>1 DEF Connected, Types, Clients
<1>3. net.ws[s] \in Transports \ {"unused", "opening"}
  BY <1>1, <1>2 DEF Throws, Dialed, Types, Clients, Sockets
<1>4. CASE net.ws[s] = "open"
  <2>1. net'.up[s] = net.up[s] \o Revocations(gs)
    BY <1>2, <1>4
  <2>2. \A r \in Sockets \ {s} : About("put", g) \in Range(net.up[r]) => missed'[g] # "no"
    BY <1>1, <1>2
  <2> QED BY <2>1, <2>2 DEF Tells, Told
<1>5. CASE net.ws[s] # "open"
  BY <1>1, <1>2, <1>3, <1>5 DEF Swallows, Transports
<1> QED BY <1>4, <1>5

LEMMA AccountPanel ==
    ASSUME Types, Drained, Dialed, NEW p \in Panels, ClosePanel(p), NEW g \in Grants, Accounted(g)
    PROVE  missed'[g] # "no" \/ Told(g)
<1>1. PICK gs \in GrantSets : gs = LiveGrants
  BY DEF LiveGrants, GrantSets
<1>2. /\ \A r \in Sockets :
           net'.up[r] = IF ~SendFails(net) /\ r = net.socket /\ net.ws[r] = "open"
                        THEN net.up[r] \o Revocations(gs) ELSE net.up[r]
      /\ \A h \in Grants : missed[h] # "no" => missed'[h] # "no"
      /\ \A h \in net.queued : missed'[h] # "no"
      /\ SendFails(net) /\ (net.owned => ~Swallows(net)) => \A h \in gs : missed'[h] # "no"
      /\ Swallows(net) => \A h \in gs : missed'[h] # "no"
      /\ \A h \in gs : Connected(net) => \A r \in Sockets \ {net.socket} :
           About("put", h) \in Range(net.up[r]) => missed'[h] # "no"
  BY <1>1, ClosePanelIs
<1>3. CASE g \in net.queued \/ missed[g] # "no"
  BY <1>2, <1>3
<1>4. CASE g \in gs
  <2>1. CASE SendFails(net)
    BY <1>2, <1>4, <2>1
  <2>2. CASE ~SendFails(net)
    <3>1. Swallows(net) => missed'[g] # "no"
      BY <1>2, <1>4
    <3>2. Connected(net) => \A r \in Sockets \ {net.socket} :
             About("put", g) \in Range(net.up[r]) => missed'[g] # "no"
      BY <1>2, <1>4
    <3>3. g \in gs
      BY <1>4
    <3> QED BY <1>2, <2>2, <3>1, <3>2, <3>3, NoticeSent
  <2> QED BY <2>1, <2>2
<1> QED BY <1>1, <1>3, <1>4 DEF Accounted, LiveGrants

LEMMA AccountRevokes ==
    ASSUME Types, Dialed, NEW h \in Grants, RevokesAndTells(h), NEW g \in Grants, Accounted(g)
    PROVE  Accounted(g)' \/ Told(g)
<1>1. /\ \A k \in Grants : vault'[k] = IF k = h /\ Live(h) THEN "gone" ELSE vault[k]
      /\ SendFails(net) /\ net.owned => net'.queued = net.queued \cup {h}
      /\ ~(SendFails(net) /\ net.owned) => net'.queued = net.queued
      /\ \A k \in Grants : missed[k] # "no" => missed'[k] # "no"
      /\ Swallows(net) \/ ~net.owned => missed'[h] # "no"
      /\ Connected(net) => \A r \in Sockets \ {net.socket} :
            About("put", h) \in Range(net.up[r]) => missed'[h] # "no"
  BY RevokesIs
<1>2. CASE g # h \/ g \in net.queued \/ missed[g] # "no"
  <2>1. g # h => vault'[g] = vault[g]
    BY <1>1
  <2>2. net.queued \subseteq net'.queued
    BY <1>1
  <2> QED BY <1>1, <1>2, <2>1, <2>2 DEF Accounted, Live
<1>3. CASE g = h
  <2>1. CASE SendFails(net)
    BY <1>1, <1>3, <2>1 DEF Accounted
  <2>2. CASE ~SendFails(net)
    <3>1. PICK gs \in GrantSets : gs = {h}
      BY DEF GrantSets
    <3>2. \A r \in Sockets :
            net'.up[r] = IF ~SendFails(net) /\ r = net.socket /\ net.ws[r] = "open"
                         THEN net.up[r] \o Revocations({h}) ELSE net.up[r]
      BY RevokesIs
    <3>3. g \in gs /\ \A r \in Sockets :
            net'.up[r] = IF ~SendFails(net) /\ r = net.socket /\ net.ws[r] = "open"
                         THEN net.up[r] \o Revocations(gs) ELSE net.up[r]
      BY <1>3, <3>1, <3>2
    <3>4. Swallows(net) => missed'[g] # "no"
      BY <1>1, <1>3
    <3>5. Connected(net) => \A r \in Sockets \ {net.socket} :
             About("put", g) \in Range(net.up[r]) => missed'[g] # "no"
      BY <1>1, <1>3
    <3>6. missed'[g] # "no" \/ Told(g)
      BY <2>2, <3>3, <3>4, <3>5, NoticeSent
    <3> QED BY <3>6 DEF Accounted
  <2> QED BY <2>1, <2>2
<1> QED BY <1>2, <1>3

LEMMA AccountWelcome ==
    ASSUME Types, NEW s \in Sockets, HelloOk(s), NEW g \in Grants, Accounted(g)
    PROVE  Accounted(g)' \/ Told(g)
<1>1. PICK id : id = Head(down[s]).id
  OBVIOUS
<1>2. \A h \in Grants : missed[h] # "no" => missed'[h] # "no"
  BY HelloOkIs
<1>3. CASE SessionChanges(net, id)
  <2>1. \A h \in LiveGrants \cup net.queued : missed'[h] # "no"
    BY <1>1, <1>3, HelloOkIs
  <2> QED BY <1>2, <2>1 DEF Accounted, LiveGrants
<1>4. CASE ~SessionChanges(net, id)
  <2>1. vault' = vault
        /\ \A h \in net.queued : \A r \in Sockets \ {s} :
             About("put", h) \in Range(net.up[r]) => missed'[h] # "no"
    BY <1>1, <1>4, HelloOkIs
  <2>2. CASE g \notin net.queued
    BY <1>2, <2>1, <2>2 DEF Accounted, Live
  <2>3. CASE g \in net.queued
    <3>1. \A r \in Sockets :
             net'.up[r] = IF r = s /\ ~SessionChanges(net, id)
                          THEN net.up[r] \o Revocations(net.queued) ELSE net.up[r]
      BY <1>1, HelloOkIs
    <3>2. net'.up[s] = net.up[s] \o Revocations(net.queued) /\ net.queued \in GrantSets
      BY <1>4, <3>1 DEF Types, Clients
    <3> QED BY <2>1, <2>3, <3>2 DEF Told, Tells
  <2> QED BY <2>2, <2>3
<1> QED BY <1>3, <1>4

(* What ends here is accounted for, unless it was the host who ended it.   *)
LEMMA AccountStep ==
    ASSUME Types, Link, Dialed, Next, NEW g \in Grants, Accounted(g), ~Ending(g), ~TabRead(g)
    PROVE  Accounted(g)' \/ Told(g)
<1> DEFINE A == Accounted(g)' \/ Told(g)
<1>0. Drained /\ net \in Clients
  BY LinkDrained DEF Types
<1>1. ASSUME net'.queued = net.queued, vault'[g] = vault[g] \/ vault'[g] = "accepted",
             missed[g] # "no" => missed'[g] # "no"
      PROVE  A
  BY <1>1 DEF Accounted, Live
<1>2. ASSUME net' = net, vault' = vault, missed' = missed
      PROVE  A
  BY <1>1, <1>2
<1>3. ASSUME NEW p \in Panels, ClosePanel(p)
      PROVE  A
  BY <1>0, <1>3, AccountPanel DEF Accounted
<1>4. ASSUME NEW p \in Panels, NEW s \in Sockets, Connect(p, s)
      PROVE  A
  <2>1. net' = Opened(net, s) /\ vault' = vault /\ missed' = missed
    BY <1>4 DEF Connect, grantVars
  <2>2. net'.queued = net.queued
    BY <1>0, <2>1, OpenedIs
  <2> QED BY <1>1, <2>1, <2>2
<1>5. ASSUME NEW h \in Grants, RevokesAndTells(h)
      PROVE  A
  BY <1>5, AccountRevokes
<1>6. ASSUME NEW h \in Grants, TabRead(h)
      PROVE  A
  <2>1. net'.queued = net.queued
    BY <1>6, TabReadIs
  <2>2. missed' = missed /\ h # g
    BY <1>6 DEF TabRead
  <2>3. vault'[g] = vault[g]
    BY <1>6, <2>2 DEF TabRead, Types
  <2> QED BY <1>1, <2>1, <2>2, <2>3
<1>7. ASSUME NEW h \in Grants, AckTimeout(h)
      PROVE  A
  <2>1. /\ net' = net /\ vault' = Revoked({h})
        /\ missed' = IF Live(h) THEN Marked({h}, "timeout") ELSE missed
    BY <1>7 DEF AckTimeout
  <2>2. g # h => vault'[g] = vault[g]
    BY <2>1 DEF Revoked
  <2>3. Live(h) => missed' = Marked({h}, "timeout")
    BY <2>1
  <2>4. missed[g] # "no" \/ (g = h /\ Live(h)) => missed'[g] # "no"
    BY <2>1 DEF Marked
  <2> QED BY <2>1, <2>2, <2>4 DEF Accounted, Live
<1>8. ASSUME NEW s \in Sockets, HelloOk(s)
      PROVE  A
  BY <1>8, AccountWelcome
<1>9. ASSUME NEW s \in Sockets, Accepted(s)
      PROVE  A
  <2>1. PICK f : f = Head(down[s])
    OBVIOUS
  <2>2. /\ net' = net /\ missed' = missed
        /\ vault' = vault \/ vault' = [vault EXCEPT ![f.grant] = "accepted"]
    BY <1>9, <2>1 DEF Accepted
  <2>3. vault'[g] = vault[g] \/ vault'[g] = "accepted"
    BY <2>2 DEF Types
  <2> QED BY <1>1, <2>2, <2>3
<1>10. ASSUME NEW s \in Sockets, Rejected(s)
       PROVE  A
  <2>1. /\ net' = net /\ vault' = Revoked(offered)
        /\ missed' = Marked(offered \cap LiveGrants, "refused")
    BY <1>10 DEF Rejected
  <2>2. g \notin offered => vault'[g] = vault[g]
    BY <2>1 DEF Revoked
  <2>3. missed[g] # "no" \/ g \in offered \cap LiveGrants => missed'[g] # "no"
    BY <2>1 DEF Marked
  <2> QED BY <2>1, <2>2, <2>3 DEF Accounted, Live, LiveGrants
<1>11. ASSUME NEW s \in Sockets, HostRevoked(s)
       PROVE  A
  <2>1. Receives(s, "revoke")
    BY <1>11 DEF HostRevoked
  <2>2. PICK d, f : d \in Line /\ d = down[s] /\ f = Head(d)
    BY DEF Types, Mail
  <2>3. d # <<>> /\ f.type = "revoke"
    BY <2>1, <2>2 DEF Receives
  <2>4. f \in Range(d) /\ f \in GoodFrames
    BY <2>2, <2>3, RangeTail, TailIs
  <2>5. f = About("revoke", f.grant)
    BY <2>3, <2>4, FrameIs
  <2>6. f.grant # g
    BY <2>2, <2>4, <2>5 DEF Ending
  <2>7. /\ net' = net /\ missed' = missed
        /\ vault' = IF Live(f.grant) THEN Revoked({f.grant}) ELSE vault
    BY <1>11, <2>2 DEF HostRevoked
  <2>8. vault'[g] = vault[g]
    BY <2>6, <2>7 DEF Revoked
  <2> QED BY <1>1, <2>7, <2>8
<1>12. ASSUME NEW s \in Sockets, ToolCall(s)
       PROVE  A
  <2>1. net'.queued = net.queued
    BY <1>12, ToolCallIs
  <2> QED BY <1>1, <1>12, <2>1 DEF ToolCall, grantVars
<1>13. ASSUME NEW s \in Sockets, WsOpens(s)
       PROVE  A
  <2>1. net' = Greeted(net, s) /\ vault' = vault /\ missed' = missed
    BY <1>13 DEF WsOpens, grantVars
  <2>2. net'.queued = net.queued
    BY <1>0, <2>1, GreetedIs
  <2> QED BY <1>1, <2>1, <2>2
<1>14. ASSUME NEW s \in Sockets, HostCloses(s)
       PROVE  A
  <2>1. net' = Becomes(net, s, "down") /\ "down" \in Transports /\ vault' = vault /\ missed' = missed
    BY <1>14 DEF HostCloses, Transports, grantVars
  <2>2. net'.queued = net.queued
    BY <1>0, <2>1, BecomesIs
  <2> QED BY <1>1, <2>1, <2>2
<1>15. ASSUME NEW s \in Sockets, Drop(s)
       PROVE  A
  <2>1. net'.queued = net.queued /\ vault' = vault
    BY <1>15, DropIs
  <2>2. missed[g] # "no" => missed'[g] # "no"
    BY <1>15, DropIs
  <2> QED BY <1>1, <2>1, <2>2
<1>16. ASSUME NEW s \in Sockets, WsCloses(s)
       PROVE  A
  <2>1. PICK k : k = Becomes(net, s, "closed")
    OBVIOUS
  <2>2. "closed" \in Transports
    BY DEF Transports
  <2>3. k \in Clients /\ k.queued = net.queued
    BY <1>0, <2>1, <2>2, BecomesIs
  <2>4. net' = AfterClose(k, s) /\ vault' = vault /\ missed' = missed
    BY <1>16, <2>1 DEF WsCloses, grantVars
  <2>5. net'.queued = k.queued
    BY <2>3, <2>4, AfterCloseIs
  <2> QED BY <1>1, <2>3, <2>4, <2>5
<1>17. ASSUME NEW s \in Sockets, NEW type, HostHears(s, type)
       PROVE  A
  <2>1. net'.queued = net.queued
    BY <1>17, HearsIs
  <2> QED BY <1>1, <1>17, <2>1 DEF HostHears, grantVars
<1>18. CASE HostRestarts
  <2>1. net'.queued = net.queued
    BY <1>18, RestartIs
  <2> QED BY <1>1, <1>18, <2>1 DEF HostRestarts, grantVars
<1>19. CASE PanelStep
  BY <1>2, <1>3, <1>4, <1>5, <1>6, <1>19 DEF PanelStep, OpenPanel, CreateRequest, TabRefused,
     Cancel, grantVars
<1>20. CASE TimerStep
  BY <1>5, <1>7, <1>20 DEF TimerStep, LocalRevoke
<1>21. CASE FrameStep
  BY <1>8, <1>9, <1>10, <1>11, <1>12, <1>21 DEF FrameStep
<1>22. CASE WireStep
  BY <1>13, <1>14, <1>15, <1>16, <1>22 DEF WireStep
<1>23. CASE HostStep
  BY <1>2, <1>17, <1>18, <1>23 DEF HostStep, HostWelcomes, HostAccepts, HostRejects,
     HostHearsRevoke, HostRevokes, HostCalls, HostSeesClose, grantVars
<1> QED BY <1>19, <1>20, <1>21, <1>22, <1>23 DEF Next

-----------------------------------------------------------------------------
(* The notice of a grant that has ended here is behind its offer *)

LEMMA ToldIs ==
    ASSUME Types, NEW s \in Sockets, NEW g \in Grants, Tells(s, g)
    PROVE  /\ About("revoke", g) \in Range(net'.up[s])
           /\ \A i \in DOMAIN net'.up[s] : net'.up[s][i] = About("put", g) =>
                \E j \in DOMAIN net'.up[s] : i < j /\ net'.up[s][j] = About("revoke", g)
<1>1. PICK gs \in GrantSets : g \in gs /\ net'.up[s] = net.up[s] \o Revocations(gs)
  BY DEF Tells
<1>2. PICK q, p : q \in Line /\ q = net.up[s] /\ p = net'.up[s]
  BY DEF Types, Clients
<1>3. PICK more \in Line : more = Revocations(gs)
  BY RevocationsAre
<1>4. p = q \o more
  BY <1>1, <1>2, <1>3
<1>5. /\ \A i \in DOMAIN more : /\ i \in Nat \ {0} /\ Len(q) + i \in DOMAIN p
                                /\ p[Len(q) + i] = more[i]
      /\ \A i \in DOMAIN p :
           \/ i \in DOMAIN q /\ p[i] = q[i]
           \/ \E j \in DOMAIN more : i = Len(q) + j /\ p[i] = more[j]
      /\ Len(q) \in Nat /\ \A i \in DOMAIN q : i \in Nat \ {0} /\ i <= Len(q)
  BY <1>4, JoinedIs, SMTT(40)
<1>6. PICK k \in DOMAIN more : more[k] = About("revoke", g)
  BY <1>1, <1>3, RevocationsAre DEF Waits
<1>7. PICK m : m = Len(q) + k
  OBVIOUS
<1>8. m \in DOMAIN p /\ p[m] = About("revoke", g)
  BY <1>5, <1>6, <1>7
<1>9. ASSUME NEW i \in DOMAIN p, p[i] = About("put", g)
      PROVE  i < m
  <2>1. ASSUME NEW j \in DOMAIN more, p[i] = more[j]
        PROVE  FALSE
    <3>1. PICK h \in gs : more[j] = About("revoke", h)
      BY <1>3, RevocationsAre
    <3>2. h \in Grants
      BY <3>1 DEF GrantSets
    <3>3. About("revoke", h).type = "revoke" /\ About("put", g).type = "put"
      BY DEF About, Frame
    <3> QED BY <1>9, <2>1, <3>1, <3>3
  <2>2. i \in DOMAIN q
    BY <1>5, <2>1
  <2> QED BY <1>5, <1>6, <1>7, <2>2
<1>10. About("revoke", g) \in Range(p)
  BY <1>8 DEF Range
<1>11. \A i \in DOMAIN p : p[i] = About("put", g) =>
         \E j \in DOMAIN p : i < j /\ p[j] = About("revoke", g)
  BY <1>8, <1>9
<1> QED BY <1>2, <1>10, <1>11

(* The host has the record: what it is to hear is on its way, or accounted *)
(* for.                                                                    *)
LEMMA RecordNoticed ==
    ASSUME Types, HelloFirst, Link, Dialed, OfferedOnce, OneOffer, Noticed, Next,
           NEW g \in Grants, g \in host'.records
    PROVE  Accounted(g)' \/ \E s \in Sockets : About("revoke", g) \in Range(net'.up[s])
<1>0. Drained /\ Books(g)
  BY LinkDrained, BooksStep
<1>1. CASE Taken(g)
  <2>1. PICK s \in Sockets : HostAccepts(s) /\ Head(net.up[s]) = About("put", g)
    BY <1>1 DEF Taken, Takes
  <2>2. HostHears(s, "put")
    BY <2>1 DEF HostAccepts
  <2>3. /\ net.up[s] # <<>> /\ net'.queued = net.queued
        /\ net'.up[s] = Tail(net.up[s]) /\ vault' = vault /\ missed' = missed
    BY <2>2, HearsIs DEF grantVars
  <2>4. PICK q, p : q \in Line /\ q = net.up[s] /\ p = Tail(q)
    BY DEF Types, Clients
  <2>5. /\ Head(q) = q[1] /\ 1 \in DOMAIN q
        /\ \A i \in DOMAIN q : i \in Nat \ {0} /\ (i = 1 \/ (i - 1 \in DOMAIN p /\ p[i - 1] = q[i]))
    BY <2>3, <2>4, TailIs
  <2>6. net.up[s][1] = About("put", g) /\ 1 \in DOMAIN net.up[s]
    BY <2>1, <2>4, <2>5
  <2>7. CASE Accounted(g)
    BY <2>3, <2>7 DEF Accounted, Live
  <2>8. ASSUME NEW j \in DOMAIN net.up[s], 1 < j, net.up[s][j] = About("revoke", g)
        PROVE  About("revoke", g) \in Range(net'.up[s])
    <3>1. j \in DOMAIN q /\ q[j] = About("revoke", g)
      BY <2>4, <2>8
    <3>2. j - 1 \in DOMAIN p /\ p[j - 1] = About("revoke", g)
      BY <2>5, <2>8, <3>1
    <3>3. About("revoke", g) \in Range(p)
      BY <3>2 DEF Range
    <3> QED BY <2>3, <2>4, <3>3
  <2> QED BY <2>6, <2>7, <2>8 DEF Noticed
<1>2. CASE ~Taken(g)
  <2>1. g \in host.records
    BY <1>0, <1>2 DEF Books
  <2>2. ~Ending(g) /\ ~TabRead(g)
    BY <2>1 DEF OfferedOnce, GivenUp, TabRead
  <2>3. CASE Accounted(g)
    <3>1. Accounted(g)' \/ Told(g)
      BY <2>2, <2>3, AccountStep
    <3>2. CASE Told(g)
      <4>1. PICK s \in Sockets : Tells(s, g)
        BY <3>2 DEF Told
      <4> QED BY <4>1, ToldIs
    <3> QED BY <3>1, <3>2
  <2>4. ASSUME NEW s \in Sockets, About("revoke", g) \in Range(net.up[s])
        PROVE  Accounted(g)' \/ About("revoke", g) \in Range(net'.up[s])
    <3>1. CASE missed'[g] = "no"
      BY <1>0, <2>4, <3>1, NoticeKept
    <3>2. CASE missed'[g] # "no"
      BY <3>2 DEF Accounted
    <3> QED BY <3>1, <3>2
  <2> QED BY <2>1, <2>3, <2>4 DEF Noticed
<1> QED BY <1>1, <1>2

LEMMA OfferNoticed ==
    ASSUME Types, HelloFirst, Link, Dialed, OfferedOnce, OneOffer, Noticed, Next,
           NEW g \in Grants, NEW s \in Sockets, NEW i \in DOMAIN net'.up[s],
           net'.up[s][i] = About("put", g)
    PROVE  \/ Accounted(g)'
           \/ \E j \in DOMAIN net'.up[s] : i < j /\ net'.up[s][j] = About("revoke", g)
<1>0. Drained
  BY LinkDrained
<1>1. CASE TabRead(g)
  <2>1. ~Sending(g)
    BY <1>1 DEF TabRead, OfferedOnce
  <2>2. vault'[g] = "issued"
    BY <1>1, <2>1, Offers
  <2> QED BY <2>2 DEF Accounted, Live
<1>2. CASE ~TabRead(g)
  <2>1. PICK c \in {0, 1} : Shifted(net.up[s], net'.up[s], c, g)
    BY <1>0, <1>2, LinesMove
  <2>2. /\ i \in Nat \ {0} /\ i + c \in DOMAIN net.up[s] /\ net.up[s][i + c] = About("put", g)
        /\ net'.up[s] = <<>> \/ \A j \in DOMAIN net.up[s] : j > c =>
             j \in Nat /\ j - c \in DOMAIN net'.up[s] /\ net'.up[s][j - c] = net.up[s][j]
    BY <2>1 DEF Shifted
  <2>3. About("put", g) \in Range(net.up[s])
    BY <2>2 DEF Range
  <2>4. ~Ending(g)
    BY <2>3 DEF OfferedOnce, GivenUp, Sending
  <2>5. CASE Accounted(g)
    <3>1. Accounted(g)' \/ Told(g)
      BY <1>2, <2>4, <2>5, AccountStep
    <3>2. ASSUME NEW t \in Sockets, Tells(t, g), ~Accounted(g)'
          PROVE  \E j \in DOMAIN net'.up[s] : i < j /\ net'.up[s][j] = About("revoke", g)
      <4>1. missed'[g] = "no"
        BY <3>2 DEF Accounted
      <4>2. t = s
        BY <2>3, <3>2, <4>1 DEF Tells
      <4>3. Tells(s, g)
        BY <3>2, <4>2
      <4> QED BY <4>3, ToldIs
    <3> QED BY <3>1, <3>2 DEF Told
  <2>6. ASSUME NEW j \in DOMAIN net.up[s], i + c < j, net.up[s][j] = About("revoke", g)
        PROVE  \E k \in DOMAIN net'.up[s] : i < k /\ net'.up[s][k] = About("revoke", g)
    <3>1. net'.up[s] # <<>>
      OBVIOUS
    <3>2. PICK q \in Line : q = net.up[s]
      BY DEF Types, Clients
    <3>3. j \in Nat
      BY <3>2, TailIs
    <3>4. j > c
      BY <2>2, <2>6, <3>3
    <3>5. j - c \in DOMAIN net'.up[s] /\ net'.up[s][j - c] = About("revoke", g) /\ i < j - c
      BY <2>2, <2>6, <3>1, <3>3, <3>4
    <3> QED BY <3>5
  <2> QED BY <2>2, <2>5, <2>6 DEF Noticed
<1> QED BY <1>1, <1>2

LEMMA NoticedStep ==
    ASSUME Types, HelloFirst, Link, Dialed, OfferedOnce, OneOffer, Noticed, Next
    PROVE  Noticed'
<1>1. ASSUME NEW g \in Grants, g \in host'.records
      PROVE  Accounted(g)' \/ \E s \in Sockets : About("revoke", g) \in Range(net'.up[s])
  BY <1>1, RecordNoticed
<1>2. ASSUME NEW g \in Grants, NEW s \in Sockets, NEW i \in DOMAIN net'.up[s],
             net'.up[s][i] = About("put", g)
      PROVE  \/ Accounted(g)'
             \/ \E j \in DOMAIN net'.up[s] : i < j /\ net'.up[s][j] = About("revoke", g)
  BY <1>2, OfferNoticed
<1> QED BY <1>1, <1>2 DEF Noticed

-----------------------------------------------------------------------------
(* The theorems *)

LEMMA TypesStep ==
    ASSUME Types, HelloFirst, Link, Next
    PROVE  Types'
<1>1. Drained
  BY LinkDrained
<1>2. ASSUME NEW s \in Sockets, HostWelcomes(s)
      PROVE  host.live # s
  <2>1. HostHears(s, "hello")
    BY <1>2 DEF HostWelcomes
  <2> QED BY <2>1, HelloIsNew
<1> QED BY <1>1, <1>2, TypesPanel, TypesTimer, TypesFrame, TypesWire, TypesHost DEF Next

RouterInv ==
    /\ Types
    /\ HelloFirst /\ Voice
    /\ Link /\ Dialed
    /\ Scope
    /\ OfferedOnce /\ OneOffer
    /\ Noticed
    /\ Backed

LEMMA RouterStarts ==
    ASSUME Init
    PROVE  RouterInv
<1>0. PICK q : q = <<>>
  OBVIOUS
<1>1. q \in Line /\ DOMAIN q = {} /\ Range(q) = {}
  BY <1>0, EmptyIs DEF Range
<1>2. /\ \A s \in Sockets : net.up[s] = q /\ down[s] = q /\ net.ws[s] = "unused"
      /\ net.up \in [Sockets -> Line] /\ down \in [Sockets -> Line]
      /\ net.ws \in [Sockets -> Transports]
  BY <1>0, <1>1 DEF Init, NewClient, Mailboxes, Transports
<1>3. /\ net.state = "idle" /\ net.socket = 0 /\ net.owned = FALSE /\ net.lastId = 0
      /\ net.queued = {}
      /\ host = NewHost
  BY DEF Init, NewClient
<1>4. host.live = 0 /\ host.id = 0 /\ host.records = {} /\ host.outbox = {}
  BY <1>3 DEF NewHost
<1>5. net \in Clients
  BY <1>2 DEF Init, NewClient, Clients, ClientStates, GrantSets
<1>6. host \in Hosts
  BY DEF Init, NewHost, Hosts, GrantSets
<1>7. Types
  <2>1. /\ panel \in [Panels -> {"new", "open", "closed"}] /\ restarts \in Nat
        /\ asker \in [Grants -> Panels \cup {NoPanel}]
        /\ vault \in [Grants -> {"none", "issued", "accepted", "gone"}]
        /\ session \in [Grants -> Nat]
    BY DEF Init
  <2>2. missed \in [Grants -> Reasons]
    BY DEF Init, Reasons
  <2>3. reading \in GrantSets /\ asked \in GrantSets /\ offered \in GrantSets
        /\ bound \in GrantSets /\ unheard \in GrantSets
    BY DEF Init, GrantSets
  <2> QED BY <1>2, <1>4, <1>5, <1>6, <2>1, <2>2, <2>3 DEF Types, Mail
<1>8. HelloFirst
  BY <1>0, <1>1, <1>2, <1>3, <1>4 DEF HelloFirst, Sockets
<1>9. Voice
  BY <1>1, <1>2, <1>4 DEF Voice
<1>10. Link /\ Dialed
  BY <1>3 DEF Link, Dialed, Connected
<1>11. \A g \in Grants : asker[g] = NoPanel /\ vault[g] = "none"
  BY DEF Init
<1>12. reading = {} /\ offered = {} /\ bound = {} /\ unheard = {}
  BY DEF Init
<1>13. Scope
  BY <1>3, <1>11, <1>12 DEF Scope, AuthorityNeedsPanel, LiveGrants, Live
<1>14. \A g \in Grants : ~Sending(g) /\ ~Ending(g) /\ ~Accepting(g)
  BY <1>1, <1>2 DEF Sending, Ending, Accepting
<1>15. OfferedOnce
  BY <1>4, <1>11, <1>12, <1>14 DEF OfferedOnce, GivenUp
<1>16. OneOffer
  BY <1>1, <1>2 DEF OneOffer
<1>17. Noticed
  BY <1>1, <1>2, <1>4 DEF Noticed
<1>18. Backed
  BY <1>12, <1>14 DEF Backed
<1> QED BY <1>7, <1>8, <1>9, <1>10, <1>13, <1>15, <1>16, <1>17, <1>18 DEF RouterInv

LEMMA RouterStutters ==
    ASSUME RouterInv, UNCHANGED vars
    PROVE  RouterInv'
<1>1. /\ UNCHANGED <<panel, net, asker, reading, asked, offered, vault, session, bound, missed>>
      /\ UNCHANGED <<down, host, restarts, unheard>>
  BY DEF vars, grantVars, bridgeVars
<1>2. Types' /\ HelloFirst' /\ Voice'
  BY <1>1 DEF RouterInv, Types, HelloFirst, Greets, Voice, Fresh, Oks, Reachable
<1>3. Link' /\ Dialed' /\ Scope'
  BY <1>1 DEF RouterInv, Link, Connected, Dialed, Scope, AuthorityNeedsPanel, LiveGrants, Live
<1>4. OfferedOnce' /\ OneOffer'
  BY <1>1 DEF RouterInv, OfferedOnce, Sending, GivenUp, Ending, Accepting, OneOffer
<1>5. Noticed' /\ Backed'
  BY <1>1 DEF RouterInv, Noticed, Accounted, Live, Backed, Reached, Ending, Accepting
<1> QED BY <1>2, <1>3, <1>4, <1>5 DEF RouterInv

LEMMA RouterStep ==
    ASSUME RouterInv, Next
    PROVE  RouterInv'
<1>1. /\ Types /\ HelloFirst /\ Voice /\ Link /\ Dialed /\ Scope
      /\ OfferedOnce /\ OneOffer /\ Noticed /\ Backed /\ Drained
  BY LinkDrained DEF RouterInv
<1>2. Types'
  BY <1>1, TypesStep
<1>3. Link'
  BY <1>1, LinkStep
<1>4. Scope'
  BY <1>1, ScopeStep
<1>5. HelloFirst'
  BY <1>1, <1>2, HelloFirstStep
<1>6. Voice'
  BY <1>1, <1>2, VoiceStep
<1>7. Dialed'
  BY <1>1, DialedStep
<1>8. OfferedOnce'
  BY <1>1, OfferedOnceStep
<1>9. OneOffer'
  BY <1>1, OneOfferStep
<1>10. Noticed'
  BY <1>1, NoticedStep
<1>11. Backed'
  BY <1>1, <1>4, BackedStep
<1> QED BY <1>2, <1>3, <1>4, <1>5, <1>6, <1>7, <1>8, <1>9, <1>10, <1>11 DEF RouterInv

LEMMA RouterAlways == Spec => []RouterInv
<1>1. Init => RouterInv
  BY RouterStarts
<1>2. RouterInv /\ [Next]_vars => RouterInv'
  BY RouterStutters, RouterStep
<1> QED BY <1>1, <1>2, PTL DEF Spec

(* For every number of grants, panels, sockets and restarts: a record the  *)
(* host keeps of a grant the extension has ended has its notice queued or  *)
(* on its way, or one of the recorded reasons why there is none            *)
(* (router.ts revokeGrantAndNotify, client.ts send and its queue).         *)
THEOREM RecordsCorrect == Spec => []RecordsAccounted
<1>1. RouterInv => RecordsAccounted
  <2> SUFFICES ASSUME RouterInv, NEW g \in host.records
               PROVE  \/ Live(g) \/ g \in net.queued
                      \/ \E s \in Sockets : Revoking(net.up[s], g)
                      \/ missed[g] # "no"
    BY DEF RecordsAccounted
  <2>1. g \in Grants
    BY DEF RouterInv, Types, Hosts, GrantSets
  <2>2. Accounted(g) \/ \E s \in Sockets : About("revoke", g) \in Range(net.up[s])
    BY <2>1 DEF RouterInv, Noticed
  <2> QED BY <2>2 DEF Accounted, Revoking, Range
<1> QED BY <1>1, RouterAlways, PTL

(* For all of them: a grant bound to a tab is accepted here, and held by   *)
(* the host, or its end on the host's side waits, is on its way, was lost  *)
(* or belongs to a host process the extension has not met (router.ts       *)
(* grant.accepted, server.ts deliverRevokes).                              *)
THEOREM BindingsCorrect == Spec => []BindingsAccounted
<1>1. RouterInv => BindingsAccounted
  <2> SUFFICES ASSUME RouterInv, NEW g \in bound
               PROVE  /\ vault[g] = "accepted"
                      /\ \/ g \in host.records \cup host.outbox \cup unheard
                         \/ \E s \in Sockets : Revoking(down[s], g)
                         \/ net.lastId # host.id
    BY DEF BindingsAccounted
  <2>1. g \in Grants
    BY DEF RouterInv, Types, GrantSets
  <2>2. vault[g] = "accepted"
    BY DEF RouterInv, Scope
  <2>3. Reached(g) \/ net.lastId # host.id
    BY <2>1 DEF RouterInv, Backed
  <2> QED BY <2>2, <2>3 DEF Reached, Ending, Revoking, Range
<1> QED BY <1>1, RouterAlways, PTL

(* For all of them: the grants accepted here belong to the session the     *)
(* client is in, and with no panel open there is no grant, offer or        *)
(* binding (client.ts onSessionChanged, background.ts connectPanel).       *)
THEOREM ScopeCorrect == Spec => []AuthorityScoped
<1>1. RouterInv => AuthorityScoped
  BY DEF RouterInv, Scope, AuthorityScoped, GrantsOfThisSession
<1> QED BY <1>1, RouterAlways, PTL

-----------------------------------------------------------------------------
(* The vault *)

USE TtlAssumption, BoundAssumption

(* What the record of a held grant says agrees with its history.           *)
Agrees(g) ==
    /\ grants[g].state = "none" => executing[g] = 0
    /\ Present(g) =>
         /\ grants[g].maxExpiresAt = issued[g] + MaxTtl
         /\ grants[g].active = executing[g]
         /\ grants[g].expiresAt =
              IF executing[g] > 0 THEN grants[g].maxExpiresAt
              ELSE Earlier(used[g] + IdleTtl, grants[g].maxExpiresAt)

VaultInv == TypeOK /\ \A g \in Grants : Agrees(g)

LEMMA RearmedTyped ==
    ASSUME TypeOK, grants' \in [Grants -> GrantRecords], Rearmed
    PROVE  timer' \in Nat
BY DEF TypeOK, Rearmed, Held, Present, NoTimer, Later, GrantRecords

LEMMA DroppedTyped ==
    ASSUME TypeOK, NEW gs, NEW how \in States
    PROVE  Dropped(gs, how) \in [Grants -> GrantRecords]
BY DEF TypeOK, Dropped, GrantRecords

LEMMA EndedTyped ==
    ASSUME TypeOK, NEW r \in GrantRecords, r.active > 0
    PROVE  Ended(r) \in GrantRecords
<1>1. /\ r.state \in States /\ r.expiresAt \in Nat
      /\ r.maxExpiresAt \in Nat /\ r.active \in Nat /\ now \in Nat
  BY DEF TypeOK, GrantRecords
<1>2. r.active - 1 \in Nat /\ now + IdleTtl \in Nat
  BY <1>1
<1>3. Earlier(now + IdleTtl, r.maxExpiresAt) \in Nat
  BY <1>1, <1>2 DEF Earlier
<1> QED BY <1>1, <1>2, <1>3 DEF Ended, GrantRecords

LEMMA VaultTypesStep == TypeOK /\ [VaultNext]_vaultVars => TypeOK'
<1> SUFFICES ASSUME TypeOK, [VaultNext]_vaultVars PROVE TypeOK'
    OBVIOUS
<1>1. ASSUME NEW g \in Grants, Create(g) PROVE TypeOK'
  <2>1. grants' \in [Grants -> GrantRecords]
    BY <1>1 DEF Create, TypeOK, GrantRecords, States, Earlier
  <2> QED BY <1>1, <2>1, RearmedTyped DEF Create, TypeOK
<1>2. ASSUME NEW g \in Grants, Accept(g) PROVE TypeOK'
  <2>1. grants' \in [Grants -> GrantRecords]
    BY <1>2 DEF Accept, TypeOK, GrantRecords, States
  <2> QED BY <1>2, <2>1, RearmedTyped DEF Accept, TypeOK
<1>3. ASSUME NEW g \in Grants, BeginActivity(g) PROVE TypeOK'
  <2>1. grants' \in [Grants -> GrantRecords]
    <3>1. /\ grants[g] \in GrantRecords /\ grants[g].active + 1 \in Nat
          /\ grants[g].maxExpiresAt \in Nat
      BY DEF TypeOK, GrantRecords
    <3>2. [grants[g] EXCEPT !.active = @ + 1, !.expiresAt = grants[g].maxExpiresAt]
            \in GrantRecords
      BY <3>1 DEF GrantRecords
    <3> QED BY <1>3, <3>2 DEF BeginActivity, TypeOK
  <2> QED BY <1>3, <2>1, RearmedTyped DEF BeginActivity, TypeOK
<1>4. ASSUME NEW g \in Grants, EndActivity(g) PROVE TypeOK'
  <2>1. executing' \in [Grants -> Nat] /\ used' \in [Grants -> Nat]
    BY <1>4 DEF EndActivity, TypeOK
  <2>2. CASE Present(g) /\ grants[g].active > 0
    <3>1. grants' \in [Grants -> GrantRecords]
      BY <1>4, <2>2, EndedTyped DEF EndActivity, TypeOK
    <3> QED BY <1>4, <2>1, <2>2, <3>1, RearmedTyped DEF EndActivity, TypeOK
  <2>3. CASE ~(Present(g) /\ grants[g].active > 0)
    BY <1>4, <2>1, <2>3 DEF EndActivity, TypeOK
  <2> QED BY <2>2, <2>3
<1>5. ASSUME NEW gs, Revoke(gs) PROVE TypeOK'
  <2>1. grants' \in [Grants -> GrantRecords]
    BY <1>5, DroppedTyped DEF Revoke, States
  <2> QED BY <1>5, <2>1, RearmedTyped DEF Revoke, TypeOK
<1>6. CASE Sweep
  <2>1. grants' \in [Grants -> GrantRecords]
    BY <1>6, DroppedTyped DEF Sweep, States
  <2> QED BY <1>6, <2>1, RearmedTyped DEF Sweep, TypeOK
<1>7. CASE Tick
  BY <1>7 DEF Tick, TypeOK
<1>8. CASE UNCHANGED vaultVars
  BY <1>8 DEF vaultVars, TypeOK
<1> QED BY <1>1, <1>2, <1>3, <1>4, <1>5, <1>6, <1>7, <1>8 DEF VaultNext, VaultStep

LEMMA VaultTyped == VaultInit => TypeOK
BY DEF VaultInit, TypeOK, GrantRecords, States, NoTimer

(* For any grants and time limits the state keeps its types                *)
(* (GrantVault's Map of VaultGrant and its expiry timer).                  *)
THEOREM VaultTypes == VaultSpec => []TypeOK
<1>1. VaultInit => TypeOK BY VaultTyped
<1>2. TypeOK /\ [VaultNext]_vaultVars => TypeOK' BY VaultTypesStep
<1> QED BY <1>1, <1>2, PTL DEF VaultSpec

(* A handler that re-arms the timer leaves it as the sweep needs it.       *)
LEMMA RearmedArms ==
    ASSUME TypeOK, TypeOK', now' = now, Rearmed
    PROVE  SweepArmed'
<1> SUFFICES ASSUME Held' # {}
             PROVE  /\ timer' # NoTimer
                    /\ \/ timer' <= now + 1
                       \/ \A g \in Held' : timer' <= grants'[g].expiresAt
    BY DEF SweepArmed
<1>1. PICK g \in Held' :
         /\ \A h \in Held' : grants'[g].expiresAt <= grants'[h].expiresAt
         /\ timer' = Later(now + 1, grants'[g].expiresAt)
    BY DEF Rearmed
<1>2. now \in Nat /\ grants'[g].expiresAt \in Nat
    BY <1>1 DEF TypeOK, GrantRecords, Held
<1> QED BY <1>1, <1>2 DEF Later, NoTimer

LEMMA ArmedStep == TypeOK /\ TypeOK' /\ SweepArmed /\ [VaultNext]_vaultVars => SweepArmed'
<1> SUFFICES ASSUME TypeOK, TypeOK', SweepArmed, [VaultNext]_vaultVars PROVE SweepArmed'
    OBVIOUS
<1>1. CASE now' = now /\ Rearmed
  BY <1>1, RearmedArms
<1>2. CASE UNCHANGED <<now, grants, timer>>
  BY <1>2 DEF SweepArmed, Held, Present
<1>3. CASE Tick
  <2>1. Held' = Held BY <1>3 DEF Tick, Held, Present
  <2> QED BY <1>3, <2>1 DEF Tick, SweepArmed, TypeOK
<1> QED
  BY <1>1, <1>2, <1>3 DEF VaultNext, vaultVars, VaultStep, Create, Accept, BeginActivity,
     EndActivity, Revoke, Sweep

(* No operation of the vault leaves a grant behind that no sweep will look *)
(* at: every path that changes the table calls schedule().                 *)
THEOREM SweepArmedCorrect == VaultSpec => []SweepArmed
<1>1. VaultInit => TypeOK /\ SweepArmed
  BY VaultTyped DEF VaultInit, SweepArmed, Held, Present
<1>2. TypeOK /\ SweepArmed /\ [VaultNext]_vaultVars => (TypeOK /\ SweepArmed)'
  BY VaultTypesStep, ArmedStep
<1> QED BY <1>1, <1>2, PTL DEF VaultSpec

-----------------------------------------------------------------------------
(* Implementation of Lease *)

LEMMA AgreesStep == VaultInv /\ [VaultNext]_vaultVars => VaultInv'
<1> SUFFICES ASSUME VaultInv, [VaultNext]_vaultVars, NEW h \in Grants PROVE Agrees(h)'
    BY VaultTypesStep DEF VaultInv
<1>t. TypeOK /\ TypeOK' /\ Agrees(h) BY VaultTypesStep DEF VaultInv
<1>r. /\ grants[h] \in GrantRecords /\ grants'[h] \in GrantRecords
      /\ issued[h] \in Nat /\ executing[h] \in Nat /\ used[h] \in Nat
      /\ now \in Nat /\ grants \in [Grants -> GrantRecords]
      /\ issued \in [Grants -> Nat] /\ executing \in [Grants -> Nat]
      /\ used \in [Grants -> Nat]
    BY <1>t DEF TypeOK
<1>1. ASSUME NEW g \in Grants, Create(g) PROVE Agrees(h)'
  <2>1. CASE g = h
    BY <1>1, <1>t, <1>r, <2>1 DEF Create, Agrees, Present, Earlier
  <2>2. CASE g # h
    BY <1>1, <1>t, <1>r, <2>2 DEF Create, Agrees, Present
  <2> QED BY <2>1, <2>2
<1>2. ASSUME NEW g \in Grants, Accept(g) PROVE Agrees(h)'
  BY <1>2, <1>t, <1>r DEF Accept, Agrees, Present, Earlier, GrantRecords
<1>3. ASSUME NEW g \in Grants, BeginActivity(g) PROVE Agrees(h)'
  <2>1. CASE g = h
    BY <1>3, <1>t, <1>r, <2>1
    DEF BeginActivity, Resolves, Agrees, Present, GrantRecords, States
  <2>2. CASE g # h
    BY <1>3, <1>t, <1>r, <2>2 DEF BeginActivity, Agrees, Present
  <2> QED BY <2>1, <2>2
<1>4. ASSUME NEW g \in Grants, EndActivity(g) PROVE Agrees(h)'
  <2>1. CASE g # h
    BY <1>4, <1>t, <1>r, <2>1 DEF EndActivity, Agrees, Present
  <2>2. CASE g = h /\ Present(g) /\ grants[g].active > 0
    <3>1. /\ grants'[h] = Ended(grants[h])
          /\ executing'[h] = executing[h] - 1
          /\ used'[h] = now /\ issued'[h] = issued[h]
      BY <1>4, <1>r, <2>2 DEF EndActivity
    <3>2. /\ Ended(grants[h]).state = grants[h].state
          /\ Ended(grants[h]).maxExpiresAt = grants[h].maxExpiresAt
          /\ Ended(grants[h]).active = grants[h].active - 1
          /\ Ended(grants[h]).expiresAt =
               IF grants[h].active = 1
               THEN Earlier(now + IdleTtl, grants[h].maxExpiresAt)
               ELSE grants[h].expiresAt
      BY <1>r DEF Ended, GrantRecords
    <3>3. /\ grants[h].active = executing[h] /\ grants[h].state # "none"
          /\ executing[h] > 0
          /\ grants[h].maxExpiresAt = issued[h] + MaxTtl
          /\ grants[h].expiresAt = grants[h].maxExpiresAt
      BY <1>t, <1>r, <2>2 DEF Agrees, Present
    <3> QED BY <1>r, <3>1, <3>2, <3>3 DEF Agrees
  <2>3. CASE g = h /\ ~Present(g)
    BY <1>4, <1>t, <1>r, <2>3 DEF EndActivity, Agrees, Present, GrantRecords
  <2>4. CASE g = h /\ Present(g) /\ ~(grants[g].active > 0)
    BY <1>4, <1>t, <1>r, <2>4 DEF EndActivity, Agrees, GrantRecords
  <2> QED BY <2>1, <2>2, <2>3, <2>4
<1>5. ASSUME NEW gs, Revoke(gs) PROVE Agrees(h)'
  BY <1>5, <1>t, <1>r DEF Revoke, Dropped, Agrees, Present, GrantRecords, Held
<1>6. CASE Sweep
  BY <1>6, <1>t, <1>r DEF Sweep, Dropped, Agrees, Present, GrantRecords, Held
<1>7. CASE Tick
  BY <1>7, <1>t DEF Tick, Agrees, Present
<1>8. CASE UNCHANGED vaultVars
  BY <1>8, <1>t DEF vaultVars, Agrees, Present
<1> QED BY <1>1, <1>2, <1>3, <1>4, <1>5, <1>6, <1>7, <1>8 DEF VaultNext, VaultStep

LEMMA VaultStarts == VaultInit => VaultInv
BY VaultTyped DEF VaultInit, VaultInv, Agrees, Present

LEMMA MappedInit == VaultInit => Promise!Init
BY DEF VaultInit, Promise!Init, LeaseOf

(* A handler maps to the lease's own step, or to none: Accept and a sweep  *)
(* that finds nothing expired change no promise.                           *)
LEMMA MappedStep == VaultInv /\ [VaultNext]_vaultVars => [Promise!Next]_(Promise!leaseVars)
<1> SUFFICES ASSUME VaultInv, [VaultNext]_vaultVars
             PROVE  Promise!Next \/ UNCHANGED Promise!leaseVars
    OBVIOUS
<1>t. TypeOK /\ \A g \in Grants : Agrees(g) BY DEF VaultInv
<1>r. \A g \in Grants : /\ grants[g] \in GrantRecords
                        /\ issued[g] \in Nat /\ executing[g] \in Nat
                        /\ used[g] \in Nat
    BY <1>t DEF TypeOK
<1>n. now \in Nat /\ grants \in [Grants -> GrantRecords] BY <1>t DEF TypeOK
<1>1. ASSUME NEW g \in Grants, Create(g) PROVE Promise!Next
  <2>1. Promise!Issue(g)
    BY <1>1, <1>n DEF Create, Promise!Issue, LeaseOf
  <2> QED BY <2>1 DEF Promise!Next
<1>2. ASSUME NEW g \in Grants, Accept(g) PROVE UNCHANGED Promise!leaseVars
  <2>1. \A h \in Grants : LeaseOf(grants'[h]) = LeaseOf(grants[h])
    BY <1>2, <1>n DEF Accept, LeaseOf, GrantRecords
  <2>2. [h \in Grants |-> LeaseOf(grants'[h])] = [h \in Grants |-> LeaseOf(grants[h])]
    BY <2>1
  <2> QED BY <1>2, <2>2 DEF Accept, Promise!leaseVars
<1>3. ASSUME NEW g \in Grants, BeginActivity(g) PROVE Promise!Next
  <2>1. \A h \in Grants : LeaseOf(grants'[h]) = LeaseOf(grants[h])
    BY <1>3, <1>n DEF BeginActivity, LeaseOf, GrantRecords
  <2>2. LeaseOf(grants[g]) = "live"
    BY <1>3 DEF BeginActivity, Resolves, Present, LeaseOf
  <2>3. now <= issued[g] + MaxTtl
    BY <1>3, <1>t, <1>r, <1>n DEF BeginActivity, Resolves, Agrees, Earlier
  <2>4. executing[g] > 0 \/ now <= used[g] + IdleTtl
    BY <1>3, <1>t, <1>r, <1>n DEF BeginActivity, Resolves, Agrees, Earlier
  <2>5. Promise!Use(g)
    BY <1>3, <2>1, <2>2, <2>3, <2>4
    DEF BeginActivity, Promise!Use, Promise!InForce, Promise!WithinCap, Promise!WithinIdle
  <2> QED BY <2>5 DEF Promise!Next
<1>4. ASSUME NEW g \in Grants, EndActivity(g) PROVE Promise!Next
  <2>1. \A h \in Grants : LeaseOf(grants'[h]) = LeaseOf(grants[h])
    <3>1. ASSUME NEW r \in GrantRecords PROVE Ended(r).state = r.state
      BY DEF Ended, GrantRecords
    <3>2. \A h \in Grants : grants'[h].state = grants[h].state
      BY <1>4, <1>n, <3>1 DEF EndActivity
    <3> QED BY <3>2 DEF LeaseOf
  <2>2. Promise!Release(g)
    BY <1>4, <2>1 DEF EndActivity, Promise!Release
  <2> QED BY <2>2 DEF Promise!Next
<1>5. ASSUME NEW gs, Revoke(gs) PROVE Promise!Next
  <2>1. gs \in SUBSET Grants BY <1>5 DEF Revoke, Held
  <2>2. \A h \in Grants : LeaseOf(grants'[h]) =
          IF h \in gs THEN "revoked" ELSE LeaseOf(grants[h])
    BY <1>5, <1>r DEF Revoke, Dropped, LeaseOf, GrantRecords
  <2>3. \A h \in gs : LeaseOf(grants[h]) = "live"
    BY <1>5 DEF Revoke, Held, Present, LeaseOf
  <2>4. Promise!Revoke(gs)
    BY <1>5, <2>1, <2>2, <2>3
    DEF Revoke, Promise!Revoke, Promise!Over, Promise!InForce
  <2> QED BY <2>1, <2>4 DEF Promise!Next
<1>6. ASSUME Sweep PROVE Promise!Next
  <2> DEFINE gs == {g \in Held : Expired(g)}
  <2>1. gs \in SUBSET Grants BY DEF Held
  <2>2. \A h \in Grants : LeaseOf(grants'[h]) =
          IF h \in gs THEN "expired" ELSE LeaseOf(grants[h])
    BY <1>6, <1>r DEF Sweep, Dropped, LeaseOf, GrantRecords
  <2>3. ASSUME NEW h \in gs
        PROVE  /\ LeaseOf(grants[h]) = "live"
               /\ ~(now <= issued[h] + MaxTtl
                    /\ (executing[h] > 0 \/ now <= used[h] + IdleTtl))
    BY <1>t, <1>r, <1>n DEF Held, Present, LeaseOf, Expired, Agrees, Earlier
  <2>4. Promise!Lapse(gs)
    BY <1>6, <2>1, <2>2, <2>3
    DEF Sweep, Promise!Lapse, Promise!Over, Promise!InForce,
        Promise!WithinCap, Promise!WithinIdle
  <2> QED BY <2>1, <2>4 DEF Promise!Next
<1>7. ASSUME Tick PROVE Promise!Next
  BY <1>7 DEF Tick, Promise!Next, Promise!Tick
<1>8. ASSUME UNCHANGED vaultVars PROVE UNCHANGED Promise!leaseVars
  BY <1>8 DEF vaultVars, Promise!leaseVars
<1> QED BY <1>1, <1>2, <1>3, <1>4, <1>5, <1>6, <1>7, <1>8 DEF VaultNext, VaultStep

(* For any grants, idle time and cap the vault keeps the promise of Lease: *)
(* a late sweep never lets a call begin past a limit, and no sweep ends a  *)
(* grant that is in use or was used within IdleTtl before its cap          *)
(* (beginActivity, endActivity, resolve and the sweep).                    *)
THEOREM VaultImplementsLease == VaultSpec => KeepsLease
<1>1. VaultInit => VaultInv BY VaultStarts
<1>2. VaultInv /\ [VaultNext]_vaultVars => VaultInv' BY AgreesStep
<1>3. VaultInit => Promise!Init BY MappedInit
<1>4. VaultInv /\ [VaultNext]_vaultVars => [Promise!Next]_(Promise!leaseVars) BY MappedStep
<1> QED BY <1>1, <1>2, <1>3, <1>4, PTL DEF VaultSpec, KeepsLease, Promise!Spec
=============================================================================
