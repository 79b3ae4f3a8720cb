------------------------- MODULE PanelChannelProofs -------------------------
(***************************************************************************)
(* Theorems about PanelChannel for any requests, buffer size and number of *)
(* ports: messages are never reordered, and no grant is left without       *)
(* somebody who wants it but for the named losses.                         *)
(***************************************************************************)
EXTENDS PanelChannel, TLAPS

Messages == [type : {"create", "cancel"}, request : Requests, nr : Nat]
            \cup [type : {"connect"}, request : {0}, nr : Nat]
Answers  == [type : {"handle", "refused"}, request : Requests]
            \cup [type : {"pair"}, request : {0}]
Reasons  == {"no", "overflow", "lost", "unmounted", "expired", "unfound"}

TypeOK ==
    /\ request \in [Requests -> {"new", "pending", "granted", "failed", "aborted", "expired"}]
    /\ connects \in Nat /\ clock \in Nat /\ seen \in Nat
    /\ mounted \in BOOLEAN /\ retry \in BOOLEAN
    /\ port \in Ports \cup {0}
    /\ ports \in [Ports -> {"unused", "live", "broken", "closed"}]
    /\ queue \in Seq(Messages) /\ wire \in [Ports -> Seq(Messages)]
    /\ replies \in [Ports -> Seq(Answers)]
    /\ panels \subseteq Ports /\ bridge \in {"off", "on", "lost"}
    /\ grant \in [Requests -> {"none", "reading", "offered", "accepted", "gone"}]
    /\ by \in [Requests -> Ports \cup {0}]
    /\ stray \in [Requests -> Reasons]

(* Where messages wait: line 0 is the buffer, line p the wire of port p.   *)
Lines   == Ports \cup {0}
Line(x) == IF x = 0 THEN queue ELSE wire[x]

(* Messages wait in one line only: on the wire of the port the panel has,  *)
(* or had when it was unmounted, or in the buffer while it has none.       *)
OneLine ==
    /\ \A x, y \in Lines : Line(x) # <<>> /\ Line(y) # <<>> => x = y
    /\ \A p \in Ports : wire[p] # <<>> =>
         p \in panels /\ (mounted => p = port /\ ports[p] = "live")
    /\ \A p \in Ports : ports[p] = "live" => p \in panels
    /\ port # 0 => mounted /\ ~retry /\ queue = <<>>
    /\ mounted /\ port = 0 => retry
    /\ ~mounted => queue = <<>>
    /\ Len(queue) <= MaxBuffer

(* They wait in the order they were sent, after the last one taken.        *)
Sorted ==
    /\ seen <= clock
    /\ \A x \in Lines : \A i \in 1 .. Len(Line(x)) :
         /\ seen < Line(x)[i].nr /\ Line(x)[i].nr <= clock
         /\ \A j \in 1 .. i - 1 : Line(x)[j].nr < Line(x)[i].nr

Creates(x, i, r) == Line(x)[i].type = "create" /\ Line(x)[i].request = r

(* A request is sent once, and its grant begins when it arrives.           *)
AskedOnce ==
    \A r \in Requests :
        /\ request[r] = "new" => grant[r] = "none"
        /\ \A x \in Lines : \A i \in 1 .. Len(Line(x)) : Creates(x, i, r) =>
             /\ request[r] # "new" /\ grant[r] = "none"
             /\ \A y \in Lines : \A j \in 1 .. Len(Line(y)) :
                  Creates(y, j, r) => y = x /\ j = i

(* A refused request has no grant, and a grant needs a panel.              *)
Refused ==
    /\ \A r \in Requests : request[r] = "failed" => grant[r] = "gone"
    /\ \A p \in Ports : \A i \in 1 .. Len(replies[p]) :
         replies[p][i].type = "refused" => grant[replies[p][i].request] = "gone"

PanelOfGrants ==
    /\ bridge # "off" => panels # {}
    /\ \A r \in Requests : Live(r) => panels # {}

Cancelling(r) == \E x \in Lines : r \in Cancels(Line(x))

(* Whoever does not want his grant any more has said so.                   *)
Wanted ==
    \A r \in Requests :
      \/ request[r] \in {"new", "pending", "granted"} \/ grant[r] = "gone"
      \/ Cancelling(r) \/ stray[r] # "no" \/ ~mounted

IInv == TypeOK /\ OneLine /\ Sorted /\ AskedOnce /\ Refused /\ PanelOfGrants /\ Wanted

LEMMA CancelsOf ==
  ASSUME NEW q \in Seq(Messages), NEW r
  PROVE  r \in Cancels(q) <=>
           \E i \in 1 .. Len(q) : q[i].type = "cancel" /\ q[i].request = r
<1>1. DOMAIN q = 1 .. Len(q)
  OBVIOUS
<1> QED BY <1>1 DEF Cancels, Range

LEMMA NoMessages == <<>> \in Seq(Messages) /\ <<>> \in Seq(Answers)
  OBVIOUS

LEMMA NoCancels == ASSUME NEW q, q = <<>> PROVE Cancels(q) = {}
<1>1. DOMAIN q = {}
  OBVIOUS
<1>2. Range(q) = {}
  BY <1>1 DEF Range
<1> QED BY <1>2 DEF Cancels

LEMMA PortNumbers == MaxPorts \in Nat /\ \A p \in Ports : p \in Nat /\ p # 0
  BY PortAssumption DEF Ports

LEMMA CancelsAre == ASSUME NEW q \in Seq(Messages) PROVE Cancels(q) \subseteq Requests
<1>1. ASSUME NEW r \in Cancels(q) PROVE r \in Requests
  <2>1. PICK i \in 1 .. Len(q) : q[i].type = "cancel" /\ q[i].request = r
    BY <1>1, CancelsOf
  <2>2. q[i] \in Messages
    OBVIOUS
  <2> QED BY <2>1, <2>2 DEF Messages
<1> QED BY <1>1

(* Line e is line q, its first messages gone perhaps, perhaps with m last. *)
Extends(q, e, m) ==
    \E d \in Nat : \A i \in 1 .. Len(e) :
      \/ i + d \in 1 .. Len(q) /\ e[i] = q[i + d]
      \/ i = Len(e) /\ e[i] = m

(* The buffer after a message: the last place is the message's, the others *)
(* are as they were or move up, and what was dropped is known.             *)
LEMMA EnqueuedFacts ==
  ASSUME NEW q \in Seq(Messages), NEW m \in Messages, Len(q) <= MaxBuffer
  PROVE  /\ Enqueued(q, m) \in Seq(Messages)
         /\ Len(Enqueued(q, m)) <= MaxBuffer
         /\ Extends(q, Enqueued(q, m), m)
         /\ \A r \in Cancels(q) : r \in Cancels(Enqueued(q, m)) \/ r \in Overflow(q)
         /\ m.type = "cancel" => m.request \in Cancels(Enqueued(q, m))
<1>1. MaxBuffer \in Nat /\ MaxBuffer # 0 /\ Len(q) \in Nat
  BY BufferAssumption
<1>2. CASE Len(q) >= MaxBuffer
  <2>1. /\ q # <<>> /\ Tail(q) \in Seq(Messages) /\ Len(Tail(q)) = Len(q) - 1
        /\ Head(q) \in Messages /\ Head(q) = q[1]
        /\ \A i \in 1 .. Len(q) - 1 : Tail(q)[i] = q[i + 1]
    BY <1>1, <1>2
  <2>2. PICK e : e = Append(Tail(q), m)
    OBVIOUS
  <2>3. /\ e \in Seq(Messages) /\ Len(e) = Len(q) /\ e[Len(q)] = m
        /\ \A i \in 1 .. Len(q) - 1 : e[i] = q[i + 1]
    BY <1>1, <2>1, <2>2
  <2>4. Enqueued(q, m) = e
    BY <1>2, <2>2 DEF Enqueued
  <2>5. \A i \in 1 .. Len(e) : \/ i + 1 \in 1 .. Len(q) /\ e[i] = q[i + 1]
                               \/ i = Len(e) /\ e[i] = m
    BY <1>1, <2>3
  <2>6. ASSUME NEW r \in Cancels(q) PROVE r \in Cancels(e) \/ r \in Overflow(q)
    <3>1. PICK i \in 1 .. Len(q) : q[i].type = "cancel" /\ q[i].request = r
      BY <2>6, CancelsOf
    <3>2. CASE i = 1
      <4>1. PICK h : h = <<Head(q)>>
        OBVIOUS
      <4>2. h \in Seq(Messages) /\ 1 \in 1 .. Len(h) /\ h[1] = q[1]
        BY <2>1, <4>1
      <4>3. r \in Cancels(h)
        BY <3>1, <3>2, <4>2, CancelsOf
      <4> QED BY <1>2, <4>1, <4>3 DEF Overflow
    <3>3. CASE i # 1
      <4>1. i - 1 \in 1 .. Len(e) /\ e[i - 1] = q[i]
        BY <1>1, <2>3, <3>3
      <4> QED BY <2>3, <3>1, <4>1, CancelsOf
    <3> QED BY <3>2, <3>3
  <2>7. m.type = "cancel" => m.request \in Cancels(e)
    <3>1. Len(q) \in 1 .. Len(e)
      BY <1>1, <1>2, <2>3
    <3> QED BY <2>3, <3>1, CancelsOf
  <2>8. Extends(q, e, m)
    <3>1. 1 \in Nat
      OBVIOUS
    <3> QED BY <2>5, <3>1 DEF Extends
  <2> QED BY <1>1, <2>3, <2>4, <2>6, <2>7, <2>8
<1>3. CASE ~(Len(q) >= MaxBuffer)
  <2>2. PICK e : e = Append(q, m)
    OBVIOUS
  <2>3. /\ e \in Seq(Messages) /\ Len(e) = Len(q) + 1 /\ e[Len(q) + 1] = m
        /\ \A i \in 1 .. Len(q) : e[i] = q[i]
    BY <1>1, <2>2
  <2>4. Enqueued(q, m) = e
    BY <1>3, <2>2 DEF Enqueued
  <2>5. \A i \in 1 .. Len(e) : \/ i + 0 \in 1 .. Len(q) /\ e[i] = q[i + 0]
                               \/ i = Len(e) /\ e[i] = m
    BY <1>1, <2>3
  <2>6. ASSUME NEW r \in Cancels(q) PROVE r \in Cancels(e)
    <3>1. PICK i \in 1 .. Len(q) : q[i].type = "cancel" /\ q[i].request = r
      BY <2>6, CancelsOf
    <3>2. i \in 1 .. Len(e)
      BY <1>1, <2>3
    <3> QED BY <2>3, <3>1, <3>2, CancelsOf
  <2>7. m.type = "cancel" => m.request \in Cancels(e)
    <3>1. Len(q) + 1 \in 1 .. Len(e)
      BY <1>1, <2>3
    <3> QED BY <2>3, <3>1, CancelsOf
  <2>8. Extends(q, e, m)
    <3>1. 0 \in Nat
      OBVIOUS
    <3> QED BY <2>5, <3>1 DEF Extends
  <2> QED BY <1>1, <1>3, <2>3, <2>4, <2>6, <2>7, <2>8
<1> QED BY <1>2, <1>3

-----------------------------------------------------------------------------
(* What a step does to the lines: what waits was there before, in the same *)
(* order on one line, but for a message of S at the end.                   *)

Came(S) ==
    \A x \in Lines : \E y \in Lines, d \in Nat : \A i \in 1 .. Len(Line(x)') :
        \/ i + d \in 1 .. Len(Line(y)) /\ Line(x)'[i] = Line(y)[i + d]
        \/ i = Len(Line(x)') /\ Line(x)'[i] \in S

(* No cancel is lost unnoticed, or taken without an end of its grant.      *)
Noticed ==
    \A r \in Requests :
      /\ Cancelling(r) => Cancelling(r)' \/ stray'[r] # "no" \/ grant'[r] = "gone"
      /\ stray[r] # "no" => stray'[r] # "no"

SendTyped ==
    /\ port' \in Ports \cup {0} /\ retry' \in BOOLEAN
    /\ ports' \in [Ports -> {"unused", "live", "broken", "closed"}]
    /\ queue' \in Seq(Messages) /\ wire' \in [Ports -> Seq(Messages)]
    /\ stray' \in [Requests -> Reasons]

LEMMA StrayedFacts ==
  ASSUME TypeOK, NEW rs, NEW why \in Reasons \ {"no"}
  PROVE  /\ Strayed(rs, why) \in [Requests -> Reasons]
         /\ \A r \in Requests : r \in rs => Strayed(rs, why)[r] # "no"
         /\ \A r \in Requests : stray[r] # "no" => Strayed(rs, why)[r] # "no"
  BY DEF Strayed, TypeOK, Reasons

LEMMA LinesTyped ==
  ASSUME TypeOK PROVE \A x \in Lines : Line(x) \in Seq(Messages) /\ Len(Line(x)) \in Nat
<1>1. ASSUME NEW x \in Lines PROVE Line(x) \in Seq(Messages)
  BY DEF TypeOK, Line, Lines
<1> QED BY <1>1

(* Lines that stay or are emptied.                                         *)
LEMMA CameNothing ==
  ASSUME TypeOK, NEW S, \A x \in Lines : Line(x)' = Line(x) \/ Line(x)' = <<>>
  PROVE  Came(S)
<1>1. ASSUME NEW x \in Lines
      PROVE  \A i \in 1 .. Len(Line(x)') : i + 0 \in 1 .. Len(Line(x)) /\ Line(x)'[i] = Line(x)[i + 0]
  <2>1. CASE Line(x)' = Line(x)
    BY <2>1, LinesTyped
  <2>2. CASE Line(x)' = <<>>
    BY <2>2
  <2> QED BY <2>1, <2>2
<1> QED BY <1>1 DEF Came

(* One line at most holds messages.                                        *)
LEMMA OthersEmpty ==
  ASSUME TypeOK, OneLine, mounted
  PROVE  /\ \A p \in Ports : p # port \/ ports[p] # "live" => wire[p] = <<>>
         /\ port # 0 => queue = <<>>
  BY DEF OneLine

LEMMA OneLineIs ==
  ASSUME TypeOK',
         \E z \in Lines : \A x \in Lines : x # z => Line(x)' = <<>>
  PROVE  \A x, y \in Lines : Line(x)' # <<>> /\ Line(y)' # <<>> => x = y
  OBVIOUS

Spoken(m) == m.type = "cancel" => Cancelling(m.request)' \/ stray'[m.request] # "no" \/ ~mounted'

(* The message goes to one line, whose other messages are kept in order.   *)
LEMMA PutOnLine ==
  ASSUME TypeOK, NEW m \in Messages, NEW z \in Lines, NEW q,
         Line(z)' = q, q \in Seq(Messages),
         \A x \in Lines : x # z => Line(x)' = Line(x),
         Extends(Line(z), q, m),
         \A r \in Cancels(Line(z)) : r \in Cancels(q) \/ stray'[r] # "no",
         m.type = "cancel" => m.request \in Cancels(q),
         \A r \in Requests : stray[r] # "no" => stray'[r] # "no"
  PROVE  Came({m}) /\ Noticed /\ Spoken(m)
<1>1. ASSUME NEW x \in Lines
      PROVE  \E y \in Lines, d \in Nat : \A i \in 1 .. Len(Line(x)') :
               \/ i + d \in 1 .. Len(Line(y)) /\ Line(x)'[i] = Line(y)[i + d]
               \/ i = Len(Line(x)') /\ Line(x)'[i] \in {m}
  <2>1. CASE x = z
    BY <2>1 DEF Extends
  <2>2. CASE x # z
    <3>1. Line(x)' = Line(x)
      BY <2>2
    <3>2. \A i \in 1 .. Len(Line(x)') :
             i + 0 \in 1 .. Len(Line(x)) /\ Line(x)'[i] = Line(x)[i + 0]
      BY <3>1, LinesTyped
    <3> QED BY <3>2
  <2> QED BY <2>1, <2>2
<1>2. ASSUME NEW r \in Requests, Cancelling(r) PROVE Cancelling(r)' \/ stray'[r] # "no"
  <2>1. PICK x \in Lines : r \in Cancels(Line(x))
    BY <1>2 DEF Cancelling
  <2>2. CASE x = z
    BY <2>1, <2>2 DEF Cancelling
  <2>3. CASE x # z
    BY <2>1, <2>3 DEF Cancelling
  <2> QED BY <2>2, <2>3
<1>3. Spoken(m)
  BY DEF Spoken, Cancelling
<1> QED BY <1>1, <1>2, <1>3 DEF Came, Noticed

LEMMA SendStep ==
  ASSUME TypeOK, OneLine, NEW m \in Messages, Send(m), UNCHANGED <<mounted, panels>>
  PROVE  SendTyped /\ OneLine' /\ Came({m}) /\ Noticed /\ Spoken(m)
<1> USE PortNumbers
<1>0. /\ queue \in Seq(Messages) /\ wire \in [Ports -> Seq(Messages)]
      /\ port \in Ports \cup {0} /\ stray \in [Requests -> Reasons]
      /\ ports \in [Ports -> {"unused", "live", "broken", "closed"}]
      /\ Len(queue) <= MaxBuffer /\ 0 \in Lines /\ Line(0) = queue
      /\ \A p \in Ports : p \in Lines /\ Line(p) = wire[p] /\ Line(p)' = wire'[p]
      /\ Line(0)' = queue'
  BY DEF TypeOK, OneLine, Lines, Line
<1>1. CASE ~mounted /\ UNCHANGED <<panelVars, stray>>
  <2>1. \A x \in Lines : Line(x)' = Line(x)
    BY <1>1 DEF Line, panelVars
  <2>2. Came({m}) /\ Noticed /\ Spoken(m)
    BY <1>1, <2>1, CameNothing DEF Noticed, Cancelling, Spoken
  <2>3. SendTyped
    BY <1>1, <1>0 DEF SendTyped, panelVars, TypeOK
  <2>4. OneLine'
    BY <1>1, <2>1 DEF OneLine, panelVars
  <2> QED BY <2>2, <2>3, <2>4
<1>2. ASSUME mounted, queue' = Enqueued(queue, m), stray' = Strayed(Overflow(queue), "overflow"),
             wire' = wire, \A p \in Ports : wire[p] = <<>>,
             port' = 0, retry', retry' \in BOOLEAN,
             ports' \in [Ports -> {"unused", "live", "broken", "closed"}],
             \A p \in Ports : ports'[p] = "live" => ports[p] = "live"
      PROVE  SendTyped /\ OneLine' /\ Came({m}) /\ Noticed /\ Spoken(m)
  <2>1. /\ stray' \in [Requests -> Reasons]
        /\ \A r \in Overflow(queue) : r \in Requests => stray'[r] # "no"
        /\ \A r \in Requests : stray[r] # "no" => stray'[r] # "no"
    BY <1>2, StrayedFacts DEF Reasons
  <2>2. queue' \in Seq(Messages) /\ Len(queue') <= MaxBuffer
    BY <1>0, <1>2, EnqueuedFacts
  <2>3. \A r \in Cancels(queue) : r \in Cancels(queue') \/ stray'[r] # "no"
    <3>1. \A r \in Cancels(queue) : r \in Requests
      BY <1>0, CancelsAre
    <3> QED BY <1>0, <1>2, <2>1, <3>1, EnqueuedFacts
  <2>4. Extends(queue, queue', m)
    BY <1>0, <1>2, EnqueuedFacts
  <2>5. m.type = "cancel" => m.request \in Cancels(queue')
    BY <1>0, <1>2, EnqueuedFacts
  <2>6. \A x \in Lines : x # 0 => Line(x)' = Line(x) /\ Line(x)' = <<>>
    BY <1>0, <1>2 DEF Lines
  <2>7. Came({m}) /\ Noticed /\ Spoken(m)
    BY <1>0, <2>1, <2>2, <2>3, <2>4, <2>5, <2>6, PutOnLine
  <2>8. SendTyped
    BY <1>2, <2>1, <2>2, <1>0 DEF SendTyped
  <2>9. OneLine'
    BY <1>0, <1>2, <2>2, <2>6 DEF OneLine
  <2> QED BY <2>7, <2>8, <2>9
<1>3. CASE /\ mounted /\ port = 0
           /\ queue' = Enqueued(queue, m)
           /\ stray' = Strayed(Overflow(queue), "overflow")
           /\ UNCHANGED <<port, retry, ports, wire>>
  <2>1. retry /\ \A p \in Ports : wire[p] = <<>>
    BY <1>3 DEF OneLine
  <2> QED BY <1>0, <1>2, <1>3, <2>1 DEF TypeOK
<1>4. CASE /\ mounted /\ port # 0 /\ ports[port] = "live"
           /\ wire' = [wire EXCEPT ![port] = Append(@, m)]
           /\ UNCHANGED <<port, queue, retry, ports, stray>>
  <2>0. port \in Ports /\ queue = <<>> /\ wire[port] \in Seq(Messages)
    BY <1>0, <1>4 DEF OneLine
  <2>z. PICK z : z = port
    OBVIOUS
  <2>1. PICK q : q = Append(wire[port], m)
    OBVIOUS
  <2>2. /\ q \in Seq(Messages) /\ Len(wire[port]) \in Nat /\ Len(q) = Len(wire[port]) + 1
        /\ q[Len(wire[port]) + 1] = m
        /\ \A i \in 1 .. Len(wire[port]) : q[i] = wire[port][i]
    BY <2>0, <2>1
  <2>3. Line(z)' = q /\ \A x \in Lines : x # z => Line(x)' = Line(x)
    <3>1. wire'[port] = q /\ port' = port /\ \A p \in Ports : p # port => wire'[p] = wire[p]
      BY <1>0, <1>4, <2>0, <2>1
    <3> QED BY <1>4, <2>0, <2>z, <3>1 DEF Line, Lines
  <2>4. Extends(Line(z), q, m)
    <3>1. \A i \in 1 .. Len(q) :
           \/ i + 0 \in 1 .. Len(Line(z)) /\ q[i] = Line(z)[i + 0]
           \/ i = Len(q) /\ q[i] = m
      BY <1>0, <2>0, <2>z, <2>2
    <3> QED BY <3>1 DEF Extends
  <2>5. \A r \in Cancels(Line(z)) : r \in Cancels(q)
    <3>1. ASSUME NEW r \in Cancels(wire[port]) PROVE r \in Cancels(q)
      <4>1. PICK i \in 1 .. Len(wire[port]) :
              wire[port][i].type = "cancel" /\ wire[port][i].request = r
        BY <2>0, <3>1, CancelsOf
      <4>2. i \in 1 .. Len(q) /\ q[i] = wire[port][i]
        BY <2>2
      <4> QED BY <2>2, <4>1, <4>2, CancelsOf
    <3> QED BY <1>0, <2>0, <2>z, <3>1
  <2>6. m.type = "cancel" => m.request \in Cancels(q)
    <3>1. Len(wire[port]) + 1 \in 1 .. Len(q)
      BY <2>2
    <3> QED BY <2>2, <3>1, CancelsOf
  <2>7. Came({m}) /\ Noticed /\ Spoken(m)
    <3>1. z \in Lines
      BY <1>0, <2>0, <2>z
    <3>2. \A r \in Cancels(Line(z)) : r \in Cancels(q) \/ stray'[r] # "no"
      BY <2>5
    <3>3. \A r \in Requests : stray[r] # "no" => stray'[r] # "no"
      BY <1>4
    <3>4. q \in Seq(Messages)
      BY <2>2
    <3> QED BY <3>1, <3>2, <3>3, <3>4, <2>3, <2>4, <2>6, PutOnLine
  <2>8. SendTyped
    <3>1. wire' \in [Ports -> Seq(Messages)]
      BY <1>0, <1>4, <2>0, <2>1, <2>2
    <3> QED BY <1>0, <1>4, <3>1 DEF SendTyped, TypeOK
  <2>9. OneLine'
    <3>1. \A p \in Ports : p # port => wire'[p] = <<>>
      BY <1>0, <1>4, <2>0 DEF OneLine
    <3>2. \A x \in Lines : x # z => Line(x)' = <<>>
      BY <1>0, <1>4, <2>0, <2>z, <3>1 DEF Line, Lines
    <3>3. \A x, y \in Lines : Line(x)' # <<>> /\ Line(y)' # <<>> => x = y
      BY <3>2
    <3> QED BY <1>4, <2>0, <3>1, <3>3 DEF OneLine
  <2> QED BY <2>7, <2>8, <2>9
<1>5. CASE /\ mounted /\ port # 0 /\ ports[port] = "broken"
           /\ stray' = Strayed(Cancels(<<m>>), "lost")
           /\ UNCHANGED panelVars
  <2>1. \A x \in Lines : Line(x)' = Line(x)
    BY <1>5 DEF Line, panelVars
  <2>2. /\ stray' \in [Requests -> Reasons]
        /\ \A r \in Cancels(<<m>>) : r \in Requests => stray'[r] # "no"
        /\ \A r \in Requests : stray[r] # "no" => stray'[r] # "no"
    BY <1>5, StrayedFacts DEF Reasons
  <2>3. Spoken(m)
    <3>1. PICK q : q = <<m>>
      OBVIOUS
    <3>2. q \in Seq(Messages) /\ 1 \in 1 .. Len(q) /\ q[1] = m
      BY <3>1
    <3>3. m.type = "cancel" => m.request \in Cancels(q) /\ m.request \in Requests
      BY <3>2, CancelsOf DEF Messages
    <3> QED BY <2>2, <3>1, <3>3 DEF Spoken
  <2>4. Came({m}) /\ Noticed
    BY <2>1, <2>2, CameNothing DEF Noticed, Cancelling
  <2>5. SendTyped
    BY <1>0, <1>5, <2>2 DEF SendTyped, panelVars, TypeOK
  <2>6. OneLine'
    BY <1>5, <2>1 DEF OneLine, panelVars
  <2> QED BY <2>3, <2>4, <2>5, <2>6
<1>6. CASE /\ mounted /\ port # 0 /\ ports[port] = "broken"
           /\ port' = 0 /\ retry' = TRUE
           /\ ports' = [ports EXCEPT ![port] = "closed"]
           /\ queue' = Enqueued(queue, m)
           /\ stray' = Strayed(Overflow(queue), "overflow")
           /\ UNCHANGED wire
  <2>1. \A p \in Ports : wire[p] = <<>>
    BY <1>6 DEF OneLine
  <2>2. /\ ports' \in [Ports -> {"unused", "live", "broken", "closed"}]
        /\ \A p \in Ports : ports'[p] = "live" => ports[p] = "live"
    BY <1>0, <1>6
  <2> QED BY <1>2, <1>6, <2>1, <2>2
<1> QED BY <1>1, <1>3, <1>4, <1>5, <1>6 DEF Send
-----------------------------------------------------------------------------
(* What keeps each part of the invariant *)

LEMMA Quiet ==
  ASSUME TypeOK, NEW S, UNCHANGED <<queue, wire>>,
         \A r \in Requests : stray[r] # "no" => stray'[r] # "no"
  PROVE  Came(S) /\ Noticed
<1>1. \A x \in Lines : Line(x)' = Line(x)
  BY DEF Line
<1>2. Came(S)
  BY <1>1, CameNothing
<1>3. Noticed
  BY <1>1 DEF Noticed, Cancelling
<1> QED BY <1>2, <1>3

LEMMA SortedStep ==
  ASSUME TypeOK, TypeOK', Sorted, NEW S, Came(S), seen' = seen, clock <= clock',
         \A m \in S : clock < m.nr /\ m.nr <= clock' /\ m.nr \in Nat
  PROVE  Sorted'
<1>0. clock \in Nat /\ seen \in Nat /\ clock' \in Nat /\ seen <= clock
  BY DEF TypeOK, Sorted
<1>1. ASSUME NEW x \in Lines, NEW i \in 1 .. Len(Line(x)')
      PROVE  /\ seen < Line(x)'[i].nr /\ Line(x)'[i].nr <= clock'
             /\ \A j \in 1 .. i - 1 : Line(x)'[j].nr < Line(x)'[i].nr
  <2>1. PICK y \in Lines : \E d \in Nat : \A k \in 1 .. Len(Line(x)') :
               \/ k + d \in 1 .. Len(Line(y)) /\ Line(x)'[k] = Line(y)[k + d]
               \/ k = Len(Line(x)') /\ Line(x)'[k] \in S
    BY DEF Came
  <2>2. PICK d \in Nat : \A k \in 1 .. Len(Line(x)') :
               \/ k + d \in 1 .. Len(Line(y)) /\ Line(x)'[k] = Line(y)[k + d]
               \/ k = Len(Line(x)') /\ Line(x)'[k] \in S
    BY <2>1
  <2>t. Line(x)' \in Seq(Messages) /\ Len(Line(x)') \in Nat
    BY DEF TypeOK, Line, Lines
  <2>u. \A k \in 1 .. Len(Line(y)) : Line(y)[k].nr \in Nat
    <3>1. \A k \in 1 .. Len(Line(y)) : Line(y)[k] \in Messages
      BY LinesTyped
    <3> QED BY <3>1 DEF Messages
  <2>3. \A k \in 1 .. Len(Line(y)) :
          /\ seen < Line(y)[k].nr /\ Line(y)[k].nr <= clock
          /\ \A j \in 1 .. k - 1 : Line(y)[j].nr < Line(y)[k].nr
    BY DEF Sorted
  <2>4. Len(Line(y)) \in Nat
    BY LinesTyped
  <2>5. CASE i + d \in 1 .. Len(Line(y)) /\ Line(x)'[i] = Line(y)[i + d]
    <3>1. ASSUME NEW j \in 1 .. i - 1
          PROVE  j + d \in 1 .. (i + d) - 1 /\ Line(x)'[j] = Line(y)[j + d]
      <4>1. j \in 1 .. Len(Line(x)') /\ j # Len(Line(x)') /\ j + d \in 1 .. (i + d) - 1
        BY <2>t
      <4> QED BY <4>1, <2>2
    <3>2. \A j \in 1 .. i - 1 : Line(x)'[j].nr < Line(x)'[i].nr
      BY <2>3, <2>5, <3>1
    <3> QED BY <1>0, <2>3, <2>u, <2>5, <3>2
  <2>6. CASE i = Len(Line(x)') /\ Line(x)'[i] \in S
    <3>1. ASSUME NEW j \in 1 .. i - 1
          PROVE  j + d \in 1 .. Len(Line(y)) /\ Line(x)'[j] = Line(y)[j + d]
      <4>1. j \in 1 .. Len(Line(x)') /\ j # Len(Line(x)')
        BY <2>t, <2>6
      <4> QED BY <4>1, <2>2
    <3>2. \A j \in 1 .. i - 1 : Line(x)'[j].nr < Line(x)'[i].nr
      BY SMTT(30), <1>0, <2>3, <2>u, <2>6, <3>1
    <3> QED BY <1>0, <2>6, <3>2
  <2> QED BY <2>2, <2>5, <2>6
<1>2. Lines' = Lines
  BY DEF Lines
<1> QED BY <1>0, <1>1 DEF Sorted

Asks(e, r) == e.type = "create" /\ e.request = r

LEMMA AskedStep ==
  ASSUME TypeOK, TypeOK', OneLine', AskedOnce, NEW S, Came(S),
         \A m \in S : m.type = "create" =>
           m.request \in Requests /\ request[m.request] = "new" /\ request'[m.request] # "new",
         \A r \in Requests : request[r] # "new" => request'[r] # "new",
         \A r \in Requests : grant[r] = "none" =>
           \/ grant'[r] = "none"
           \/ /\ request'[r] # "new"
              /\ \A x \in Lines : \A i \in 1 .. Len(Line(x)') : ~Asks(Line(x)'[i], r)
  PROVE  AskedOnce'
<1>1. ASSUME NEW r \in Requests, request'[r] = "new" PROVE grant'[r] = "none"
  BY <1>1 DEF AskedOnce
<1>2. ASSUME NEW r \in Requests, NEW x \in Lines, NEW i \in 1 .. Len(Line(x)'),
             Asks(Line(x)'[i], r)
      PROVE  /\ request'[r] # "new" /\ grant'[r] = "none"
             /\ \A y \in Lines : \A j \in 1 .. Len(Line(y)') :
                  Asks(Line(y)'[j], r) => y = x /\ j = i
  <2>1. PICK y \in Lines : \E d \in Nat : \A k \in 1 .. Len(Line(x)') :
               \/ k + d \in 1 .. Len(Line(y)) /\ Line(x)'[k] = Line(y)[k + d]
               \/ k = Len(Line(x)') /\ Line(x)'[k] \in S
    BY DEF Came
  <2>2. PICK d \in Nat : \A k \in 1 .. Len(Line(x)') :
               \/ k + d \in 1 .. Len(Line(y)) /\ Line(x)'[k] = Line(y)[k + d]
               \/ k = Len(Line(x)') /\ Line(x)'[k] \in S
    BY <2>1
  <2>t. Line(x)' \in Seq(Messages) /\ Len(Line(x)') \in Nat
    BY DEF TypeOK, Line, Lines
  <2>3. \A k \in 1 .. Len(Line(y)) : Asks(Line(y)[k], r) =>
          /\ request[r] # "new" /\ grant[r] = "none"
          /\ \A l \in 1 .. Len(Line(y)) : Asks(Line(y)[l], r) => l = k
    BY DEF AskedOnce, Creates, Asks
  <2>4. \A z \in Lines : \A j \in 1 .. Len(Line(z)') : Asks(Line(z)'[j], r) => z = x
    <3>1. ASSUME NEW z \in Lines, NEW j \in 1 .. Len(Line(z)') PROVE Line(z)' # <<>>
      BY <3>1 DEF TypeOK, Line, Lines
    <3>2. Line(x)' # <<>>
      BY <1>2, <3>1
    <3> QED BY <3>1, <3>2 DEF OneLine
  <2>5. CASE i + d \in 1 .. Len(Line(y)) /\ Line(x)'[i] = Line(y)[i + d]
    <3>1. request[r] # "new" /\ grant[r] = "none"
      BY <1>2, <2>3, <2>5
    <3>2. request'[r] # "new" /\ grant'[r] = "none"
      BY <1>2, <3>1
    <3>3. ASSUME NEW j \in 1 .. Len(Line(x)'), Asks(Line(x)'[j], r) PROVE j = i
      <4>1. CASE j + d \in 1 .. Len(Line(y)) /\ Line(x)'[j] = Line(y)[j + d]
        <5>1. Asks(Line(y)[j + d], r) /\ Asks(Line(y)[i + d], r)
          BY <1>2, <2>5, <3>3, <4>1
        <5>2. j + d = i + d
          BY <2>3, <2>5, <4>1, <5>1
        <5> QED BY <5>2
      <4>2. CASE Line(x)'[j] \in S
        BY <3>1, <3>3, <4>2 DEF Asks
      <4> QED BY <2>2, <4>1, <4>2
    <3> QED BY <2>4, <3>2, <3>3
  <2>6. CASE i = Len(Line(x)') /\ Line(x)'[i] \in S
    <3>1. r \in Requests /\ request[r] = "new" /\ request'[r] # "new"
      BY <1>2, <2>6 DEF Asks
    <3>2. grant'[r] = "none"
      BY <1>2, <3>1 DEF AskedOnce
    <3>3. ASSUME NEW j \in 1 .. Len(Line(x)'), Asks(Line(x)'[j], r) PROVE j = i
      <4>1. CASE j + d \in 1 .. Len(Line(y)) /\ Line(x)'[j] = Line(y)[j + d]
        BY <2>3, <3>1, <3>3, <4>1
      <4> QED BY <2>2, <2>6, <4>1
    <3> QED BY <2>4, <3>1, <3>2, <3>3
  <2> QED BY <2>2, <2>5, <2>6
<1> QED BY <1>1, <1>2 DEF AskedOnce, Creates, Asks

(* What has been said to the panel, and what is said now.                  *)
Told ==
    \A p \in Ports : \A i \in 1 .. Len(replies'[p]) :
      \/ \E j \in 1 .. Len(replies[p]) : replies'[p][i] = replies[p][j]
      \/ replies'[p][i].type = "refused" => grant'[replies'[p][i].request] = "gone"

GoneForGood == \A r \in Requests : grant[r] = "gone" => grant'[r] = "gone"

LEMMA RefusedStep ==
  ASSUME TypeOK, Refused, Told, GoneForGood,
         \A r \in Requests : request'[r] = "failed" => request[r] = "failed" \/ grant[r] = "gone"
  PROVE  Refused'
<1>1. ASSUME NEW p \in Ports, NEW i \in 1 .. Len(replies'[p]), replies'[p][i].type = "refused"
      PROVE  grant'[replies'[p][i].request] = "gone"
  <2>1. ASSUME NEW j \in 1 .. Len(replies[p]), replies'[p][i] = replies[p][j]
        PROVE  grant'[replies'[p][i].request] = "gone"
    <3>1. replies[p][j] \in Answers
      BY DEF TypeOK
    <3>2. replies[p][j].request \in Requests
      BY <1>1, <2>1, <3>1 DEF Answers
    <3> QED BY <1>1, <2>1, <3>2 DEF Refused, GoneForGood
  <2> QED BY <1>1, <2>1 DEF Told
<1>2. \A r \in Requests : request'[r] = "failed" => grant'[r] = "gone"
  BY DEF Refused, GoneForGood
<1> QED BY <1>1, <1>2 DEF Refused

LEMMA WantedStep ==
  ASSUME Wanted, Noticed, GoneForGood, mounted' => mounted,
         \A r \in Requests :
           \/ request'[r] = request[r] \/ request'[r] \in {"pending", "granted"}
           \/ grant'[r] = "gone" \/ Cancelling(r)' \/ stray'[r] # "no" \/ ~mounted'
  PROVE  Wanted'
  BY DEF Wanted, Noticed, GoneForGood
(* A step that takes no message: the whole invariant from what it does to  *)
(* the lines, the answers and the grants.                                  *)
LEMMA StepKeeps ==
  ASSUME IInv, TypeOK', OneLine', PanelOfGrants', NEW S, Came(S), Noticed, Told, GoneForGood,
         seen' = seen, clock <= clock', mounted' => mounted,
         \A m \in S : clock < m.nr /\ m.nr <= clock' /\ m.nr \in Nat,
         \A m \in S : m.type = "create" =>
           m.request \in Requests /\ request[m.request] = "new" /\ request'[m.request] # "new",
         \A r \in Requests : request[r] # "new" => request'[r] # "new",
         \A r \in Requests : grant[r] = "none" => grant'[r] = "none",
         \A r \in Requests : request'[r] = "failed" => request[r] = "failed" \/ grant[r] = "gone",
         \A r \in Requests :
           \/ request'[r] = request[r] \/ request'[r] \in {"pending", "granted"}
           \/ grant'[r] = "gone" \/ Cancelling(r)' \/ stray'[r] # "no" \/ ~mounted'
  PROVE  IInv'
<1>1. TypeOK /\ OneLine /\ Sorted /\ AskedOnce /\ Refused /\ PanelOfGrants /\ Wanted
  BY DEF IInv
<1>2. Sorted'
  BY <1>1, SortedStep
<1>3. AskedOnce'
  BY <1>1, AskedStep
<1>4. Refused'
  BY <1>1, RefusedStep
<1>5. Wanted'
  BY <1>1, WantedStep
<1> QED BY <1>2, <1>3, <1>4, <1>5 DEF IInv

-----------------------------------------------------------------------------
(* The iframe *)

LEMMA SendKeeps ==
  ASSUME IInv, NEW m \in Messages, Send(m), m.nr = clock + 1,
         UNCHANGED <<mounted, backVars>>, Told,
         request' \in [Requests -> {"new", "pending", "granted", "failed", "aborted", "expired"}],
         connects' \in Nat, replies' \in [Ports -> Seq(Answers)],
         m.type = "create" => request[m.request] = "new" /\ request'[m.request] # "new",
         \A r \in Requests :
           request'[r] = request[r] \/ request'[r] = "pending" \/
           (request'[r] = "aborted" /\ m.type = "cancel" /\ m.request = r)
  PROVE  IInv'
<1>0. TypeOK /\ OneLine /\ PanelOfGrants
  BY DEF IInv
<1>1. SendTyped /\ OneLine' /\ Came({m}) /\ Noticed /\ Spoken(m)
  BY <1>0, SendStep DEF backVars
<1>2. clock \in Nat /\ clock' = clock + 1
  BY <1>0 DEF TypeOK, Send
<1>3. TypeOK'
  BY <1>0, <1>1, <1>2 DEF TypeOK, SendTyped, backVars
<1>4. PanelOfGrants' /\ GoneForGood
  BY <1>0 DEF PanelOfGrants, Live, GoneForGood, backVars
<1>5. m.nr \in Nat /\ (m.type = "create" => m.request \in Requests)
  BY DEF Messages
<1>6. \A r \in Requests :
        /\ request[r] # "new" => request'[r] # "new"
        /\ grant[r] = "none" => grant'[r] = "none"
        /\ request'[r] = "failed" => request[r] = "failed" \/ grant[r] = "gone"
  BY DEF backVars
<1>7. \A r \in Requests :
        \/ request'[r] = request[r] \/ request'[r] \in {"pending", "granted"}
        \/ grant'[r] = "gone" \/ Cancelling(r)' \/ stray'[r] # "no" \/ ~mounted'
  BY <1>1 DEF Spoken
<1>8. \A k \in {m} : clock < k.nr /\ k.nr <= clock' /\ k.nr \in Nat
  BY <1>2, <1>5
<1>9. seen' = seen /\ clock <= clock' /\ mounted' = mounted
  BY <1>2 DEF backVars
<1> QED BY <1>1, <1>3, <1>4, <1>5, <1>6, <1>7, <1>8, <1>9, StepKeeps

LEMMA RepliesKept ==
  ASSUME UNCHANGED replies PROVE Told
  BY DEF Told

LEMMA RepliesTaken ==
  ASSUME TypeOK, NEW p \in Ports, replies[p] # <<>>,
         replies' = [replies EXCEPT ![p] = Tail(@)]
  PROVE  Told /\ replies' \in [Ports -> Seq(Answers)]
<1>1. replies[p] \in Seq(Answers) /\ replies \in [Ports -> Seq(Answers)]
  BY DEF TypeOK
<1>2. PICK t : t = Tail(replies[p])
  OBVIOUS
<1>3. /\ t \in Seq(Answers) /\ Len(t) = Len(replies[p]) - 1 /\ Len(replies[p]) \in Nat
      /\ \A i \in 1 .. Len(t) : i + 1 \in 1 .. Len(replies[p]) /\ t[i] = replies[p][i + 1]
  BY <1>1, <1>2
<1>4. /\ replies'[p] = t /\ replies' \in [Ports -> Seq(Answers)]
      /\ \A o \in Ports : o # p => replies'[o] = replies[o]
  BY <1>1, <1>2, <1>3
<1>5. ASSUME NEW o \in Ports, NEW i \in 1 .. Len(replies'[o])
      PROVE  \E j \in 1 .. Len(replies[o]) : replies'[o][i] = replies[o][j]
  BY <1>3, <1>4
<1> QED BY <1>4, <1>5 DEF Told

LEMMA HearsFacts ==
  ASSUME TypeOK, NEW type, Hears(type)
  PROVE  /\ port \in Ports /\ Told /\ replies' \in [Ports -> Seq(Answers)]
         /\ 1 \in 1 .. Len(replies[port])
         /\ Head(replies[port]) = replies[port][1] /\ replies[port][1] \in Answers
         /\ replies[port][1].type = type
<1>1. port \in Ports /\ replies[port] # <<>> /\ replies[port] \in Seq(Answers)
  BY DEF TypeOK, Hears
<1>2. /\ 1 \in 1 .. Len(replies[port])
      /\ Head(replies[port]) = replies[port][1] /\ replies[port][1] \in Answers
  BY <1>1
<1>3. replies[port][1].type = type
  BY <1>2 DEF Hears
<1>4. Told /\ replies' \in [Ports -> Seq(Answers)]
  BY <1>1, RepliesTaken DEF Hears
<1> QED BY <1>1, <1>2, <1>3, <1>4

LEMMA CreateStep == ASSUME IInv, NEW r \in Requests, Create(r) PROVE IInv'
<1>1. PICK m : m = Message("create", r, clock + 1)
  OBVIOUS
<1>2. m \in Messages /\ m.nr = clock + 1 /\ m.type = "create" /\ m.request = r
  BY <1>1 DEF Message, Messages, IInv, TypeOK
<1>3. Send(m) /\ UNCHANGED <<mounted, backVars>> /\ Told
  BY <1>1, RepliesKept DEF Create
<1>4. /\ request' \in [Requests -> {"new", "pending", "granted", "failed", "aborted", "expired"}]
      /\ connects' \in Nat /\ replies' \in [Ports -> Seq(Answers)]
      /\ request[r] = "new" /\ request'[r] = "pending"
      /\ \A q \in Requests : request'[q] = request[q] \/ request'[q] = "pending"
  BY DEF Create, IInv, TypeOK
<1> QED BY <1>2, <1>3, <1>4, SendKeeps

LEMMA AbortStep == ASSUME IInv, NEW r \in Requests, Abort(r) PROVE IInv'
<1>1. PICK m : m = Message("cancel", r, clock + 1)
  OBVIOUS
<1>2. m \in Messages /\ m.nr = clock + 1 /\ m.type = "cancel" /\ m.request = r
  BY <1>1 DEF Message, Messages, IInv, TypeOK
<1>3. Send(m) /\ UNCHANGED <<mounted, backVars>> /\ Told
  BY <1>1, RepliesKept DEF Abort
<1>4. /\ request' \in [Requests -> {"new", "pending", "granted", "failed", "aborted", "expired"}]
      /\ connects' \in Nat /\ replies' \in [Ports -> Seq(Answers)]
      /\ \A q \in Requests : request'[q] = request[q] \/ (request'[q] = "aborted" /\ q = r)
  BY DEF Abort, IInv, TypeOK
<1> QED BY <1>2, <1>3, <1>4, SendKeeps

LEMMA PairStep == ASSUME IInv, Pair \/ PairingRequired PROVE IInv'
<1>1. PICK m : m = Message("connect", 0, clock + 1)
  OBVIOUS
<1>2. m \in Messages /\ m.nr = clock + 1 /\ m.type = "connect"
  BY <1>1 DEF Message, Messages, IInv, TypeOK
<1>3. Send(m) /\ UNCHANGED <<mounted, backVars, request>>
  BY <1>1 DEF Pair, PairingRequired
<1>4. TypeOK
  BY DEF IInv
<1>5. Told /\ connects' \in Nat /\ replies' \in [Ports -> Seq(Answers)]
  <2>1. CASE Pair
    BY <1>4, <2>1, RepliesKept DEF Pair, TypeOK
  <2>2. CASE PairingRequired
    BY <1>4, <2>2, HearsFacts DEF PairingRequired, TypeOK
  <2> QED BY <2>1, <2>2
<1>6. request' \in [Requests -> {"new", "pending", "granted", "failed", "aborted", "expired"}]
  BY <1>3, <1>4 DEF TypeOK
<1>7. \A q \in Requests : request'[q] = request[q]
  BY <1>3
<1> QED BY <1>2, <1>3, <1>5, <1>6, <1>7, SendKeeps
-----------------------------------------------------------------------------
(* Steps that leave the lines as they are *)

LEMMA StillKeeps ==
  ASSUME IInv, TypeOK', PanelOfGrants', Told, GoneForGood,
         UNCHANGED <<clock, seen, mounted, queue, wire>>,
         \A p \in Ports : wire[p] # <<>> => p \in panels' /\ (mounted => p = port' /\ ports'[p] = "live"),
         \A p \in Ports : ports'[p] = "live" => p \in panels',
         port' # 0 => mounted /\ ~retry' /\ queue = <<>>,
         mounted /\ port' = 0 => retry',
         \A r \in Requests : stray[r] # "no" => stray'[r] # "no",
         \A r \in Requests : request[r] # "new" => request'[r] # "new",
         \A r \in Requests : grant[r] = "none" => grant'[r] = "none",
         \A r \in Requests : request'[r] = "failed" => request[r] = "failed" \/ grant[r] = "gone",
         \A r \in Requests :
           \/ request'[r] = request[r] \/ request'[r] \in {"pending", "granted"}
           \/ grant'[r] = "gone" \/ stray'[r] # "no"
  PROVE  IInv'
<1>1. TypeOK /\ OneLine /\ clock \in Nat
  BY DEF IInv, TypeOK
<1>2. \A x \in Lines : Line(x)' = Line(x)
  BY DEF Line
<1>3. OneLine'
  BY <1>1, <1>2 DEF OneLine
<1>4. Came({}) /\ Noticed
  BY <1>1, Quiet
<1>5. clock <= clock'
  BY <1>1
<1> QED BY <1>3, <1>4, <1>5, StepKeeps

(* The answers after Posts(p, type, r).                                    *)
LEMMA PostsFacts ==
  ASSUME TypeOK, NEW p, NEW type \in {"handle", "refused"}, NEW r \in Requests,
         Posts(p, type, r), type = "refused" => grant'[r] = "gone"
  PROVE  Told /\ replies' \in [Ports -> Seq(Answers)]
<1>1. CASE p \in Ports /\ ports[p] = "live"
  <2>1. PICK a : a = [type |-> type, request |-> r]
    OBVIOUS
  <2>2. a \in Answers /\ a.type = type /\ a.request = r
    BY <2>1 DEF Answers
  <2>3. PICK t : t = Append(replies[p], a)
    OBVIOUS
  <2>4. replies[p] \in Seq(Answers) /\ replies \in [Ports -> Seq(Answers)]
    BY <1>1 DEF TypeOK
  <2>5. /\ t \in Seq(Answers) /\ Len(t) = Len(replies[p]) + 1 /\ Len(replies[p]) \in Nat
        /\ t[Len(replies[p]) + 1] = a
        /\ \A i \in 1 .. Len(replies[p]) : t[i] = replies[p][i]
    BY <2>2, <2>3, <2>4
  <2>6. replies' = [replies EXCEPT ![p] = t]
    BY <1>1, <2>1, <2>3 DEF Posts
  <2>7. /\ replies'[p] = t /\ replies' \in [Ports -> Seq(Answers)]
        /\ \A o \in Ports : o # p => replies'[o] = replies[o]
    BY <1>1, <2>4, <2>5, <2>6
  <2>8. ASSUME NEW o \in Ports, NEW i \in 1 .. Len(replies'[o])
        PROVE  \/ \E j \in 1 .. Len(replies[o]) : replies'[o][i] = replies[o][j]
               \/ replies'[o][i] = a
    BY <2>5, <2>7
  <2> QED BY <2>2, <2>7, <2>8 DEF Told
<1>2. CASE ~(p \in Ports /\ ports[p] = "live")
  <2>1. replies' = replies \/ replies' = [replies EXCEPT ![p] = Append(@, [type |-> type, request |-> r])]
    BY DEF Posts
  <2>2. replies' = replies
    BY <1>2, <2>1 DEF Posts, TypeOK
  <2> QED BY <2>2, RepliesKept DEF TypeOK
<1> QED BY <1>1, <1>2

LEMMA TimesOutStep == ASSUME IInv, NEW r \in Requests, TimesOut(r) PROVE IInv'
<1>1. TypeOK /\ OneLine /\ PanelOfGrants
  BY DEF IInv
<1>2. /\ stray' \in [Requests -> Reasons] /\ stray'[r] # "no"
      /\ \A q \in Requests : stray[q] # "no" => stray'[q] # "no"
  BY <1>1, StrayedFacts DEF TimesOut, Reasons
<1>3. TypeOK'
  BY <1>1, <1>2 DEF TypeOK, TimesOut, panelVars, backVars
<1>4. Told /\ GoneForGood /\ PanelOfGrants'
  BY <1>1, RepliesKept DEF TimesOut, backVars, GoneForGood, PanelOfGrants, Live
<1>5. \A q \in Requests : request'[q] = request[q] \/ (q = r /\ request'[q] = "expired")
  BY <1>1 DEF TimesOut, TypeOK
<1>6. UNCHANGED <<clock, seen, mounted, queue, wire, port, ports, retry, panels, grant>>
  BY DEF TimesOut, panelVars, backVars
<1> QED BY <1>1, <1>2, <1>3, <1>4, <1>5, <1>6, StillKeeps DEF OneLine

LEMMA ReplyStep ==
  ASSUME IInv, Reply("handle", "granted") \/ Reply("refused", "failed") PROVE IInv'
<1>1. TypeOK /\ OneLine /\ PanelOfGrants /\ Refused
  BY DEF IInv
<1>2. PICK type \in {"handle", "refused"}, outcome \in {"granted", "failed"} :
        Reply(type, outcome) /\ (outcome = "failed" => type = "refused")
  OBVIOUS
<1>3. /\ port \in Ports /\ Told /\ replies' \in [Ports -> Seq(Answers)]
      /\ 1 \in 1 .. Len(replies[port])
      /\ Head(replies[port]) = replies[port][1] /\ replies[port][1] \in Answers
      /\ replies[port][1].type = type
  BY <1>1, <1>2, HearsFacts DEF Reply
<1>4. PICK r \in Requests : r = replies[port][1].request
  BY <1>3 DEF Answers
<1>5. outcome = "failed" => grant[r] = "gone"
  BY <1>1, <1>2, <1>3, <1>4 DEF Refused
<1>6. request' = IF request[r] = "pending" THEN [request EXCEPT ![r] = outcome] ELSE request
  BY <1>2, <1>3, <1>4 DEF Reply
<1>7. UNCHANGED <<connects, clock, mounted, panelVars, backVars, stray>>
  BY <1>2 DEF Reply
<1>8. TypeOK'
  BY <1>1, <1>3, <1>6, <1>7 DEF TypeOK, panelVars, backVars
<1>9. GoneForGood /\ PanelOfGrants'
  BY <1>1, <1>7 DEF backVars, GoneForGood, PanelOfGrants, Live
<1>10. \A q \in Requests : \/ request'[q] = request[q]
                           \/ q = r /\ request'[q] = outcome /\ request[q] = "pending"
  BY <1>1, <1>6 DEF TypeOK
<1>11. UNCHANGED <<clock, seen, mounted, queue, wire, port, ports, retry, panels, grant, stray>>
  BY <1>7 DEF panelVars, backVars
<1> QED BY <1>1, <1>3, <1>5, <1>8, <1>9, <1>10, <1>11, StillKeeps DEF OneLine

LEMMA PortDropsStep == ASSUME IInv, PortDrops PROVE IInv'
<1>1. TypeOK /\ OneLine /\ PanelOfGrants
  BY DEF IInv
<1>2. TypeOK'
  BY <1>1 DEF PortDrops, TypeOK, backVars
<1>3. Told /\ GoneForGood /\ PanelOfGrants'
  BY <1>1, RepliesKept DEF PortDrops, backVars, GoneForGood, PanelOfGrants, Live
<1>4. UNCHANGED <<request, clock, seen, mounted, queue, wire, panels, grant, stray>>
  BY DEF PortDrops, backVars
<1>5. \A p \in Ports : wire[p] = <<>>
  BY <1>1 DEF PortDrops, OneLine
<1>6. port' = 0 /\ retry' /\ \A p \in Ports : ports'[p] = "live" => p \in panels
  BY <1>1 DEF PortDrops, OneLine, TypeOK
<1> QED BY <1>1, <1>2, <1>3, <1>4, <1>5, <1>6, StillKeeps

(* The background's work on a grant whose request it has taken.            *)
LEMMA GrantStep ==
  ASSUME IInv, NEW r \in Requests, TabRead(r) \/ Accepted(r) \/ AckTimeout(r)
  PROVE  IInv'
<1>1. TypeOK /\ OneLine /\ PanelOfGrants
  BY DEF IInv
<1>2. UNCHANGED <<request, connects, clock, mounted, panelVars, panels, bridge, by, seen, stray>>
  BY DEF TabRead, Accepted, AckTimeout
<1>3. PICK g \in {"offered", "accepted", "gone"} :
        /\ grant' = [grant EXCEPT ![r] = g]
        /\ grant[r] \in {"reading", "offered"}
        /\ g = "gone" \/ bridge = "on" \/ Live(r)
        /\ \/ UNCHANGED replies
           \/ Posts(by[r], "handle", r)
           \/ Posts(by[r], "refused", r) /\ g = "gone"
  BY DEF TabRead, Accepted, AckTimeout, Live
<1>4. grant'[r] = g /\ \A q \in Requests : q # r => grant'[q] = grant[q]
  BY <1>1, <1>3 DEF TypeOK
<1>5. Told /\ replies' \in [Ports -> Seq(Answers)]
  <2>1. CASE UNCHANGED replies
    BY <1>1, <2>1, RepliesKept DEF TypeOK
  <2>2. CASE Posts(by[r], "handle", r)
    BY <1>1, <2>2, PostsFacts
  <2>3. CASE Posts(by[r], "refused", r) /\ g = "gone"
    BY <1>1, <1>4, <2>3, PostsFacts
  <2> QED BY <1>3, <2>1, <2>2, <2>3
<1>6. TypeOK'
  BY <1>1, <1>2, <1>3, <1>5 DEF TypeOK, panelVars
<1>7. GoneForGood /\ \A q \in Requests : grant[q] = "none" => grant'[q] = "none"
  BY <1>3, <1>4 DEF GoneForGood
<1>8. PanelOfGrants'
  BY <1>1, <1>2, <1>3, <1>4 DEF PanelOfGrants, Live
<1>9. UNCHANGED <<request, clock, seen, mounted, queue, wire, port, ports, retry, panels, stray>>
  BY <1>2 DEF panelVars
<1> QED BY <1>1, <1>5, <1>6, <1>7, <1>8, <1>9, StillKeeps DEF OneLine

LEMMA BackDisconnectStep == ASSUME IInv, NEW p \in Ports, BackDisconnect(p) PROVE IInv'
<1>1. TypeOK /\ OneLine
  BY DEF IInv
<1>2. TypeOK'
  BY <1>1 DEF BackDisconnect, TypeOK, panelVars, Live
<1>3. Told /\ GoneForGood /\ PanelOfGrants'
  BY <1>1, RepliesKept DEF BackDisconnect, GoneForGood, PanelOfGrants, Live
<1>4. UNCHANGED <<request, clock, seen, mounted, queue, wire, port, ports, retry, stray>>
  BY DEF BackDisconnect, panelVars
<1>5. \A r \in Requests : grant[r] = "none" => grant'[r] = "none"
  BY DEF BackDisconnect, Live
<1>6. /\ \A o \in Ports : wire[o] # <<>> => o \in panels' /\ (mounted => o = port /\ ports[o] = "live")
      /\ \A o \in Ports : ports[o] = "live" => o \in panels'
  BY <1>1 DEF BackDisconnect, OneLine
<1> QED BY <1>1, <1>2, <1>3, <1>4, <1>5, <1>6, StillKeeps DEF OneLine

LEMMA BridgeDropsStep == ASSUME IInv, BridgeDrops PROVE IInv'
<1>1. TypeOK /\ OneLine /\ PanelOfGrants
  BY DEF IInv
<1>2. PICK a : a = [type |-> "pair", request |-> 0]
  OBVIOUS
<1>3. a \in Answers /\ a.type = "pair"
  BY <1>2 DEF Answers
<1>4. ASSUME NEW p \in Ports
      PROVE  /\ replies'[p] \in Seq(Answers)
             /\ \A i \in 1 .. Len(replies'[p]) :
                  \/ \E j \in 1 .. Len(replies[p]) : replies'[p][i] = replies[p][j]
                  \/ replies'[p][i] = a
  <2>0. replies[p] \in Seq(Answers)
    BY <1>1 DEF TypeOK
  <2>1. CASE p \in panels /\ ports[p] = "live"
    <3>1. replies'[p] = Append(replies[p], a)
      BY <1>2, <2>1 DEF BridgeDrops
    <3>2. PICK t : t = Append(replies[p], a)
      OBVIOUS
    <3>3. /\ t \in Seq(Answers) /\ Len(t) = Len(replies[p]) + 1 /\ Len(replies[p]) \in Nat
          /\ t[Len(replies[p]) + 1] = a
          /\ \A i \in 1 .. Len(replies[p]) : t[i] = replies[p][i]
      BY <1>3, <2>0, <3>2
    <3> QED BY <3>1, <3>2, <3>3
  <2>2. CASE ~(p \in panels /\ ports[p] = "live")
    <3>1. replies'[p] = replies[p]
      BY <2>2 DEF BridgeDrops
    <3> QED BY <2>0, <3>1
  <2> QED BY <2>1, <2>2
<1>5. Told
  BY <1>3, <1>4 DEF Told
<1>6. replies' \in [Ports -> Seq(Answers)]
  BY <1>4 DEF BridgeDrops
<1>7. UNCHANGED <<request, connects, clock, mounted, panelVars, panels, grant, by, seen, stray>>
  BY DEF BridgeDrops
<1>8. TypeOK'
  BY <1>1, <1>6, <1>7 DEF BridgeDrops, TypeOK, panelVars
<1>9. GoneForGood /\ PanelOfGrants'
  BY <1>1, <1>7 DEF BridgeDrops, GoneForGood, PanelOfGrants, Live
<1>10. UNCHANGED <<request, clock, seen, mounted, queue, wire, port, ports, retry, panels, grant, stray>>
  BY <1>7 DEF panelVars
<1> QED BY <1>1, <1>5, <1>8, <1>9, <1>10, StillKeeps DEF OneLine
-----------------------------------------------------------------------------
(* Steps that lose what is on its way *)

LEMMA LoseKeeps ==
  ASSUME IInv, TypeOK', OneLine', PanelOfGrants', Told, GoneForGood,
         UNCHANGED <<request, clock, seen>>, mounted' => mounted,
         \A x \in Lines : \/ Line(x)' = Line(x)
                          \/ Line(x)' = <<>> /\ \A r \in Cancels(Line(x)) : stray'[r] # "no",
         \A r \in Requests : stray[r] # "no" => stray'[r] # "no",
         \A r \in Requests : grant[r] = "none" => grant'[r] = "none"
  PROVE  IInv'
<1>1. TypeOK /\ clock \in Nat
  BY DEF IInv, TypeOK
<1>2. Came({})
  BY <1>1, CameNothing
<1>3. Noticed
  <2>1. ASSUME NEW r \in Requests, Cancelling(r) PROVE Cancelling(r)' \/ stray'[r] # "no"
    <3>1. PICK x \in Lines : r \in Cancels(Line(x))
      BY <2>1 DEF Cancelling
    <3>2. CASE Line(x)' = Line(x)
      <4>1. r \in Cancels(Line(x)')
        BY <3>1, <3>2
      <4> QED BY <4>1 DEF Cancelling
    <3>3. CASE \A q \in Cancels(Line(x)) : stray'[q] # "no"
      BY <3>1, <3>3
    <3> QED BY <3>2, <3>3
  <2> QED BY <2>1 DEF Noticed
<1>4. clock <= clock'
  BY <1>1
<1> QED BY <1>2, <1>3, <1>4, StepKeeps

LEMMA CancelsTyped ==
  ASSUME TypeOK, NEW x \in Lines PROVE Cancels(Line(x)) \subseteq Requests
  BY LinesTyped, CancelsAre

LEMMA UnmountStep == ASSUME IInv, Unmount PROVE IInv'
<1> USE PortNumbers
<1>1. TypeOK /\ OneLine /\ PanelOfGrants
  BY DEF IInv
<1>2. /\ stray' \in [Requests -> Reasons]
      /\ \A r \in Cancels(queue) : r \in Requests => stray'[r] # "no"
      /\ \A r \in Requests : stray[r] # "no" => stray'[r] # "no"
  BY <1>1, StrayedFacts DEF Unmount, Reasons
<1>3. TypeOK'
  BY <1>1, <1>2, NoMessages DEF Unmount, TypeOK, backVars
<1>4. /\ mounted /\ ~mounted' /\ queue' = <<>> /\ port' = 0 /\ wire' = wire
      /\ \A p \in Ports : ports'[p] = "live" => ports[p] = "live"
      /\ UNCHANGED <<request, clock, seen, panels, grant, bridge, replies>>
  BY DEF Unmount, backVars
<1>5. \A x \in Lines : \/ Line(x)' = Line(x)
                       \/ Line(x)' = <<>> /\ \A r \in Cancels(Line(x)) : stray'[r] # "no"
  <2>1. ASSUME NEW x \in Lines, x # 0 PROVE Line(x)' = Line(x)
    BY <1>4, <2>1 DEF Line
  <2>2. 0 \in Lines /\ Line(0) = queue /\ Line(0)' = <<>>
    BY <1>4 DEF Line, Lines
  <2>3. \A r \in Cancels(Line(0)) : stray'[r] # "no"
    BY <1>1, <1>2, <2>2, CancelsTyped
  <2> QED BY <2>1, <2>2, <2>3
<1>6. OneLine'
  <2>1. \A x \in Lines : Line(x)' = Line(x) \/ Line(x)' = <<>>
    BY <1>5
  <2>2. \A x, y \in Lines : Line(x)' # <<>> /\ Line(y)' # <<>> => x = y
    BY <1>1, <2>1 DEF OneLine
  <2>3. Len(queue') <= MaxBuffer
    BY <1>4, BufferAssumption
  <2> QED BY <1>1, <1>4, <2>2, <2>3 DEF OneLine
<1>7. Told /\ GoneForGood /\ PanelOfGrants'
  BY <1>1, <1>4, RepliesKept DEF GoneForGood, PanelOfGrants, Live
<1> QED BY <1>2, <1>3, <1>4, <1>5, <1>6, <1>7, LoseKeeps

LEMMA PortBreaksStep == ASSUME IInv, NEW p \in Ports, PortBreaks(p) PROVE IInv'
<1> USE PortNumbers
<1>1. TypeOK /\ OneLine /\ PanelOfGrants
  BY DEF IInv
<1>2. /\ stray' \in [Requests -> Reasons]
      /\ \A r \in Cancels(wire[p]) : r \in Requests => stray'[r] # "no"
      /\ \A r \in Requests : stray[r] # "no" => stray'[r] # "no"
  BY <1>1, StrayedFacts DEF PortBreaks, Reasons
<1>3. /\ wire' = [o \in Ports |-> IF o = p THEN <<>> ELSE wire[o]]
      /\ replies' = [o \in Ports |-> IF o = p THEN <<>> ELSE replies[o]]
      /\ ports' = [o \in Ports |-> IF o = p /\ ports[o] = "live" THEN "broken" ELSE ports[o]]
      /\ UNCHANGED <<request, connects, clock, mounted, port, queue, retry, backVars>>
  BY DEF PortBreaks, Lost
<1>4. TypeOK'
  BY <1>1, <1>2, <1>3, NoMessages DEF TypeOK, backVars
<1>5. \A x \in Lines : \/ Line(x)' = Line(x)
                       \/ Line(x)' = <<>> /\ \A r \in Cancels(Line(x)) : stray'[r] # "no"
  <2>1. ASSUME NEW x \in Lines, x # p PROVE Line(x)' = Line(x)
    BY <1>3, <2>1 DEF Line, Lines
  <2>2. p \in Lines /\ Line(p) = wire[p] /\ Line(p)' = <<>>
    BY <1>3 DEF Line, Lines
  <2>3. \A r \in Cancels(Line(p)) : stray'[r] # "no"
    BY <1>1, <1>2, <2>2, CancelsTyped
  <2> QED BY <2>1, <2>2, <2>3
<1>6. OneLine'
  <2>1. \A x \in Lines : Line(x)' = Line(x) \/ Line(x)' = <<>>
    BY <1>5
  <2>2. \A x, y \in Lines : Line(x)' # <<>> /\ Line(y)' # <<>> => x = y
    BY <1>1, <2>1 DEF OneLine
  <2>3. \A o \in Ports : wire'[o] # <<>> => wire[o] # <<>> /\ o # p /\ ports'[o] = ports[o]
    BY <1>3
  <2>4. \A o \in Ports : ports'[o] = "live" => ports[o] = "live"
    BY <1>3
  <2> QED BY <1>1, <1>3, <2>2, <2>3, <2>4 DEF OneLine, backVars
<1>7. Told
  <2>1. ASSUME NEW o \in Ports, NEW i \in 1 .. Len(replies'[o]) PROVE replies'[o] = replies[o]
    BY <1>3, <2>1
  <2> QED BY <2>1 DEF Told
<1>8. GoneForGood /\ PanelOfGrants' /\ \A r \in Requests : grant[r] = "none" => grant'[r] = "none"
  BY <1>1, <1>3 DEF GoneForGood, PanelOfGrants, Live, backVars
<1>9. UNCHANGED <<request, clock, seen, mounted>>
  BY <1>3 DEF backVars
<1> QED BY <1>2, <1>4, <1>5, <1>6, <1>7, <1>8, <1>9, LoseKeeps

LEMMA WorkerStopsStep == ASSUME IInv, WorkerStops PROVE IInv'
<1> USE PortNumbers
<1>1. TypeOK /\ OneLine
  BY DEF IInv
<1>2. /\ stray' \in [Requests -> Reasons]
      /\ \A p \in Ports : \A r \in Cancels(wire[p]) : r \in Requests => stray'[r] # "no"
      /\ \A r \in Requests : stray[r] # "no" => stray'[r] # "no"
  BY <1>1, StrayedFacts DEF WorkerStops, Reasons
<1>3. /\ wire' = [o \in Ports |-> <<>>]
      /\ replies' = [o \in Ports |-> <<>>]
      /\ ports' = [o \in Ports |-> IF ports[o] = "live" THEN "broken" ELSE ports[o]]
      /\ panels' = {} /\ bridge' = "off"
      /\ grant' = [r \in Requests |-> IF grant[r] = "none" THEN "none" ELSE "gone"]
      /\ UNCHANGED <<request, connects, clock, mounted, port, queue, retry, by, seen>>
  BY DEF WorkerStops, Lost
<1>4. TypeOK'
  BY <1>1, <1>2, <1>3, NoMessages DEF TypeOK
<1>5. \A x \in Lines : \/ Line(x)' = Line(x)
                       \/ Line(x)' = <<>> /\ \A r \in Cancels(Line(x)) : stray'[r] # "no"
  <2>1. ASSUME NEW x \in Lines, x = 0 PROVE Line(x)' = Line(x)
    BY <1>3, <2>1 DEF Line
  <2>2. ASSUME NEW x \in Lines, x # 0 PROVE x \in Ports /\ Line(x) = wire[x] /\ Line(x)' = <<>>
    BY <1>3, <2>2 DEF Line, Lines
  <2>3. ASSUME NEW x \in Lines, x # 0, NEW r \in Cancels(Line(x)) PROVE stray'[r] # "no"
    <3>1. r \in Requests
      BY <1>1, <2>3, CancelsTyped
    <3> QED BY <1>2, <2>2, <2>3, <3>1
  <2> QED BY <2>1, <2>2, <2>3
<1>6. OneLine'
  <2>1. \A x \in Lines : Line(x)' = Line(x) \/ Line(x)' = <<>>
    BY <1>5
  <2>2. \A x, y \in Lines : Line(x)' # <<>> /\ Line(y)' # <<>> => x = y
    BY <1>1, <2>1 DEF OneLine
  <2>3. \A o \in Ports : wire'[o] = <<>> /\ ports'[o] # "live"
    BY <1>3
  <2> QED BY <1>1, <1>3, <2>2, <2>3 DEF OneLine
<1>7. Told
  BY <1>3 DEF Told
<1>8. GoneForGood /\ PanelOfGrants' /\ \A r \in Requests : grant[r] = "none" => grant'[r] = "none"
  BY <1>3 DEF GoneForGood, PanelOfGrants, Live
<1> QED BY <1>2, <1>3, <1>4, <1>5, <1>6, <1>7, <1>8, LoseKeeps

(* The flushed part of the buffer, and the rest.                           *)
LEMMA Flushed ==
  ASSUME NEW q \in Seq(Messages), NEW k \in 0 .. Len(q)
  PROVE  \E f, t \in Seq(Messages) :
           /\ f = SubSeq(q, 1, k) /\ t = SubSeq(q, k + 1, Len(q))
           /\ Len(t) = Len(q) - k /\ (k = Len(q) => t = <<>>)
           /\ \A i \in 1 .. Len(t) : i + k \in 1 .. Len(q) /\ t[i] = q[i + k]
           /\ \A r \in Cancels(q) : r \in Cancels(f) \/ r \in Cancels(t)
<1>0. Len(q) \in Nat /\ k \in Nat
  OBVIOUS
<1>1. PICK f : f = SubSeq(q, 1, k)
  OBVIOUS
<1>2. PICK t : t = SubSeq(q, k + 1, Len(q))
  OBVIOUS
<1>3. f \in Seq(Messages) /\ Len(f) = k /\ \A i \in 1 .. k : f[i] = q[i]
  BY <1>0, <1>1
<1>4. /\ t \in Seq(Messages) /\ Len(t) = Len(q) - k
      /\ \A i \in 1 .. Len(q) - k : t[i] = q[i + k]
  BY <1>0, <1>2
<1>5. ASSUME NEW r \in Cancels(q) PROVE r \in Cancels(f) \/ r \in Cancels(t)
  <2>1. PICK i \in 1 .. Len(q) : q[i].type = "cancel" /\ q[i].request = r
    BY <1>5, CancelsOf
  <2>2. CASE i <= k
    <3>1. i \in 1 .. Len(f) /\ f[i] = q[i]
      BY <1>0, <1>3, <2>2
    <3> QED BY <1>3, <2>1, <3>1, CancelsOf
  <2>3. CASE ~(i <= k)
    <3>1. i - k \in 1 .. Len(t) /\ t[i - k] = q[i]
      BY <1>0, <1>4, <2>3
    <3> QED BY <1>4, <2>1, <3>1, CancelsOf
  <2> QED BY <2>2, <2>3
<1>6. k = Len(q) => t = <<>>
  BY <1>0, <1>4
<1>7. \A i \in 1 .. Len(t) : i + k \in 1 .. Len(q) /\ t[i] = q[i + k]
  BY <1>0, <1>4
<1> QED BY <1>1, <1>2, <1>3, <1>4, <1>5, <1>6, <1>7
-----------------------------------------------------------------------------
(* The reconnect flushes the buffer; the fresh port takes it all or dies.  *)

LEMMA ConnectNowStep == ASSUME IInv, ConnectNow PROVE IInv'
<1> USE PortNumbers
<1>0. TypeOK /\ OneLine /\ PanelOfGrants /\ queue \in Seq(Messages) /\ Len(queue) \in Nat
  BY DEF IInv, TypeOK
<1>1. PICK p \in Ports, k \in 0 .. Len(queue) :
        /\ ports[p] = "unused"
        /\ \/ /\ k = Len(queue)
              /\ port' = p /\ retry' = FALSE
              /\ ports' = [ports EXCEPT ![p] = "live"]
              /\ wire' = [wire EXCEPT ![p] = queue]
              /\ panels' = panels \cup {p}
              /\ UNCHANGED stray
           \/ /\ k < Len(queue)
              /\ ports' = [ports EXCEPT ![p] = "closed"]
              /\ stray' = Strayed(Cancels(SubSeq(queue, 1, k)), "lost")
              /\ UNCHANGED <<port, retry, wire, panels>>
        /\ queue' = SubSeq(queue, k + 1, Len(queue))
  BY DEF ConnectNow
<1>2. PICK f, t \in Seq(Messages) :
        /\ f = SubSeq(queue, 1, k) /\ t = SubSeq(queue, k + 1, Len(queue))
        /\ Len(t) = Len(queue) - k /\ (k = Len(queue) => t = <<>>)
        /\ \A i \in 1 .. Len(t) : i + k \in 1 .. Len(queue) /\ t[i] = queue[i + k]
        /\ \A r \in Cancels(queue) : r \in Cancels(f) \/ r \in Cancels(t)
  BY <1>0, Flushed
<1>3. queue' = t
  BY <1>1, <1>2
<1>4. /\ mounted /\ port = 0 /\ retry
      /\ \A o \in Ports : wire[o] = <<>>
      /\ UNCHANGED <<request, connects, clock, mounted, replies, bridge, grant, by, seen>>
  BY <1>0 DEF ConnectNow, OneLine
<1>5. /\ 0 \in Lines /\ Line(0) = queue /\ Line(0)' = t
      /\ p \in Lines /\ p # 0 /\ Line(p)' = wire'[p]
      /\ \A x \in Lines : x # 0 => Line(x) = <<>> /\ Line(x)' = wire'[x]
  BY <1>3, <1>4 DEF Line, Lines
<1>6. /\ Told /\ GoneForGood
      /\ \A r \in Requests : grant[r] = "none" => grant'[r] = "none"
      /\ \A r \in Requests : request[r] # "new" => request'[r] # "new"
      /\ \A r \in Requests : request'[r] = request[r]
      /\ \A r \in Requests : request'[r] = "failed" => request[r] = "failed"
      /\ seen' = seen /\ clock <= clock' /\ mounted' = mounted
  BY <1>0, <1>4, RepliesKept DEF GoneForGood, TypeOK
<1>7. ASSUME /\ k = Len(queue)
             /\ port' = p /\ retry' = FALSE
             /\ ports' = [ports EXCEPT ![p] = "live"]
             /\ wire' = [wire EXCEPT ![p] = queue]
             /\ panels' = panels \cup {p}
             /\ UNCHANGED stray
      PROVE  IInv'
  <2>1. /\ t = <<>> /\ wire'[p] = queue /\ ports'[p] = "live"
        /\ \A o \in Ports : o # p => wire'[o] = <<>> /\ ports'[o] = ports[o]
    BY <1>0, <1>2, <1>4, <1>7 DEF TypeOK
  <2>2. TypeOK'
    BY <1>0, <1>3, <1>4, <1>7 DEF TypeOK
  <2>3. OneLine'
    <3>1. \A x \in Lines : x # p => Line(x)' = <<>>
      BY <1>5, <2>1 DEF Lines
    <3>2. Len(queue') <= MaxBuffer
      BY <1>3, <2>1, BufferAssumption
    <3> QED BY <1>0, <1>3, <1>4, <1>7, <2>1, <3>1, <3>2 DEF OneLine
  <2>4. Came({})
    <3>1. ASSUME NEW x \in Lines
          PROVE  \A i \in 1 .. Len(Line(x)') : i + 0 \in 1 .. Len(Line(0)) /\ Line(x)'[i] = Line(0)[i + 0]
      <4>1. CASE x = p
        <5>1. Line(x)' = queue
          BY <1>5, <2>1, <4>1
        <5> QED BY <1>0, <1>5, <5>1
      <4>2. CASE x # p
        <5>1. Line(x)' = <<>>
          BY <1>5, <2>1, <4>2 DEF Lines
        <5> QED BY <5>1
      <4> QED BY <4>1, <4>2
    <3> QED BY ZenonT(60), <1>5, <3>1 DEF Came
  <2>5. Noticed
    <3>1. ASSUME NEW r \in Requests, Cancelling(r) PROVE Cancelling(r)'
      <4>1. PICK x \in Lines : r \in Cancels(Line(x))
        BY <3>1 DEF Cancelling
      <4>2. x = 0
        <5>1. x # 0 => Cancels(Line(x)) = {}
          BY <1>5, NoCancels
        <5> QED BY <4>1, <5>1
      <4>3. r \in Cancels(Line(p)')
        BY <1>5, <2>1, <4>1, <4>2
      <4> QED BY <1>5, <4>3 DEF Cancelling
    <3> QED BY <1>7, <3>1 DEF Noticed
  <2>6. PanelOfGrants'
    BY <1>7, <2>1 DEF PanelOfGrants, Live
  <2> QED BY <1>6, <2>2, <2>3, <2>4, <2>5, <2>6, StepKeeps
<1>8. ASSUME /\ k < Len(queue)
             /\ ports' = [ports EXCEPT ![p] = "closed"]
             /\ stray' = Strayed(Cancels(SubSeq(queue, 1, k)), "lost")
             /\ UNCHANGED <<port, retry, wire, panels>>
      PROVE  IInv'
  <2>1. /\ stray' \in [Requests -> Reasons]
        /\ \A r \in Cancels(f) : r \in Requests => stray'[r] # "no"
        /\ \A r \in Requests : stray[r] # "no" => stray'[r] # "no"
    BY <1>0, <1>2, <1>8, StrayedFacts DEF Reasons
  <2>2. TypeOK'
    BY <1>0, <1>3, <1>4, <1>8, <2>1 DEF TypeOK
  <2>3. OneLine'
    <3>1. \A x \in Lines : x # 0 => Line(x)' = <<>>
      BY <1>4, <1>5, <1>8 DEF Lines
    <3>2. Len(queue') <= MaxBuffer
      BY <1>0, <1>2, <1>3, BufferAssumption DEF OneLine
    <3>3. \A o \in Ports : ports'[o] = "live" => ports[o] = "live"
      BY <1>0, <1>8 DEF TypeOK
    <3> QED BY <1>0, <1>3, <1>4, <1>8, <3>1, <3>2, <3>3 DEF OneLine
  <2>4. Came({})
    <3>1. ASSUME NEW x \in Lines
          PROVE  \A i \in 1 .. Len(Line(x)') : i + k \in 1 .. Len(Line(0)) /\ Line(x)'[i] = Line(0)[i + k]
      <4>1. CASE x = 0
        BY <1>2, <1>5, <4>1
      <4>2. CASE x # 0
        <5>1. Line(x)' = <<>>
          BY <1>4, <1>5, <1>8, <4>2 DEF Lines
        <5> QED BY <5>1
      <4> QED BY <4>1, <4>2
    <3>2. k \in Nat
      BY <1>0
    <3>3. \A x \in Lines : \E d \in Nat : \A i \in 1 .. Len(Line(x)') :
            i + d \in 1 .. Len(Line(0)) /\ Line(x)'[i] = Line(0)[i + d]
      BY <3>1, <3>2
    <3> QED BY <1>5, <3>3 DEF Came
  <2>5. Noticed
    <3>1. ASSUME NEW r \in Requests, Cancelling(r) PROVE Cancelling(r)' \/ stray'[r] # "no"
      <4>1. PICK x \in Lines : r \in Cancels(Line(x))
        BY <3>1 DEF Cancelling
      <4>2. x = 0
        <5>1. x # 0 => Cancels(Line(x)) = {}
          BY <1>5, NoCancels
        <5> QED BY <4>1, <5>1
      <4>3. CASE r \in Cancels(f)
        BY <2>1, <4>3
      <4>4. CASE r \in Cancels(t)
        <5>1. r \in Cancels(Line(0)')
          BY <1>5, <4>4
        <5> QED BY <1>5, <5>1 DEF Cancelling
      <4> QED BY <1>2, <1>5, <4>1, <4>2, <4>3, <4>4
    <3> QED BY <2>1, <3>1 DEF Noticed
  <2>6. PanelOfGrants'
    BY <1>0, <1>4, <1>8 DEF PanelOfGrants, Live
  <2> QED BY <1>6, <2>2, <2>3, <2>4, <2>5, <2>6, StepKeeps
<1> QED BY <1>1, <1>7, <1>8

-----------------------------------------------------------------------------
(* The background takes a message *)

LEMMA TakesFacts ==
  ASSUME IInv, NEW p \in Ports, NEW type, Takes(p, type)
  PROVE  \E m \in Messages :
           /\ m = Head(wire[p]) /\ m = wire[p][1] /\ m.type = type
           /\ 1 \in 1 .. Len(wire[p]) /\ p \in Lines /\ Line(p) = wire[p]
           /\ wire' \in [Ports -> Seq(Messages)] /\ p \in panels
           /\ seen' \in Nat /\ seen' = m.nr /\ seen' <= clock
           /\ OneLine' /\ Came({}) /\ Sorted'
           /\ \A x \in Lines : x # p => Line(x)' = <<>> /\ Line(x) = <<>>
           /\ \A i \in 1 .. Len(Line(p)') : i + 1 \in 1 .. Len(Line(p)) /\ Line(p)'[i] = Line(p)[i + 1]
           /\ \A r \in Cancels(Line(p)) :
                r \in Cancels(Line(p)') \/ (m.type = "cancel" /\ m.request = r)
<1> USE PortNumbers
<1>0. TypeOK /\ OneLine /\ Sorted /\ wire[p] \in Seq(Messages) /\ wire[p] # <<>>
  BY DEF IInv, TypeOK, Takes
<1>1. PICK t : t = Tail(wire[p])
  OBVIOUS
<1>2. PICK m : m = Head(wire[p])
  OBVIOUS
<1>3. /\ t \in Seq(Messages) /\ Len(t) = Len(wire[p]) - 1 /\ Len(wire[p]) \in Nat
      /\ m \in Messages /\ m = wire[p][1] /\ 1 \in 1 .. Len(wire[p])
      /\ \A i \in 1 .. Len(t) : i + 1 \in 1 .. Len(wire[p]) /\ t[i] = wire[p][i + 1]
  BY <1>0, <1>1, <1>2
<1>4. /\ wire' = [wire EXCEPT ![p] = t] /\ seen' = m.nr /\ m.type = type
      /\ UNCHANGED <<request, connects, clock, mounted, port, queue, retry, ports, panels>>
  BY <1>1, <1>2 DEF Takes
<1>5. /\ wire' \in [Ports -> Seq(Messages)] /\ wire'[p] = t
      /\ \A o \in Ports : o # p => wire'[o] = wire[o]
  BY <1>0, <1>3, <1>4 DEF TypeOK
<1>6. p \in Lines /\ Line(p) = wire[p] /\ Line(p)' = t
  BY <1>5 DEF Line, Lines
<1>7. \A x \in Lines : x # p => Line(x) = <<>> /\ Line(x)' = Line(x)
  <2>1. \A x \in Lines : x # p => Line(x)' = Line(x)
    BY <1>4, <1>5 DEF Line, Lines
  <2>2. \A x \in Lines : x # p => Line(x) = <<>>
    BY <1>0, <1>6 DEF OneLine
  <2> QED BY <2>1, <2>2
<1>8. p \in panels
  BY <1>0 DEF OneLine
<1>9. m.nr \in Nat /\ seen < m.nr /\ m.nr <= clock
  <2>1. m.nr \in Nat
    BY <1>3 DEF Messages
  <2>2. seen < Line(p)[1].nr /\ Line(p)[1].nr <= clock
    BY <1>0, <1>3, <1>6 DEF Sorted
  <2> QED BY <1>3, <1>6, <2>1, <2>2
<1>10. OneLine'
  <2>1. \A x \in Lines : x # p => Line(x)' = <<>>
    BY <1>7
  <2>2. \A o \in Ports : wire'[o] # <<>> => wire[o] # <<>>
    BY <1>0, <1>5
  <2> QED BY <1>0, <1>4, <2>1, <2>2 DEF OneLine
<1>11. Came({})
  <2>1. ASSUME NEW x \in Lines, x # p
        PROVE  \A i \in 1 .. Len(Line(x)') : i + 1 \in 1 .. Len(Line(p)) /\ Line(x)'[i] = Line(p)[i + 1]
    <3>1. Line(x)' = <<>>
      BY <1>7, <2>1
    <3> QED BY <3>1
  <2>2. \A i \in 1 .. Len(Line(p)') : i + 1 \in 1 .. Len(Line(p)) /\ Line(p)'[i] = Line(p)[i + 1]
    BY <1>3, <1>6
  <2>3. \A x \in Lines : \A i \in 1 .. Len(Line(x)') :
           i + 1 \in 1 .. Len(Line(p)) /\ Line(x)'[i] = Line(p)[i + 1]
    BY <2>1, <2>2
  <2> QED BY <1>6, <2>3 DEF Came
<1>12. Sorted'
  <2>1. ASSUME NEW i \in 1 .. Len(t)
        PROVE  /\ m.nr < t[i].nr /\ t[i].nr <= clock
               /\ \A j \in 1 .. i - 1 : t[j].nr < t[i].nr
    <3>1. /\ i + 1 \in 1 .. Len(Line(p)) /\ 1 \in 1 .. (i + 1) - 1 /\ t[i] = Line(p)[i + 1]
          /\ \A j \in 1 .. i - 1 : j + 1 \in 1 .. (i + 1) - 1 /\ t[j] = Line(p)[j + 1]
      BY <1>3, <1>6
    <3>2. /\ Line(p)[i + 1].nr <= clock
          /\ \A j \in 1 .. (i + 1) - 1 : Line(p)[j].nr < Line(p)[i + 1].nr
      BY <1>0, <1>6, <3>1 DEF Sorted
    <3> QED BY <1>3, <1>6, <3>1, <3>2
  <2>2. \A x \in Lines : \A i \in 1 .. Len(Line(x)') : x = p
    <3>1. \A x \in Lines : x # p => Len(Line(x)') = 0
      BY <1>7
    <3> QED BY <3>1
  <2>3. seen' <= clock'
    BY <1>4, <1>9
  <2> QED BY <1>4, <1>6, <2>1, <2>2, <2>3 DEF Sorted
<1>13. ASSUME NEW r \in Cancels(Line(p))
       PROVE  r \in Cancels(Line(p)') \/ (m.type = "cancel" /\ m.request = r)
  <2>1. PICK i \in 1 .. Len(wire[p]) : wire[p][i].type = "cancel" /\ wire[p][i].request = r
    BY <1>0, <1>6, <1>13, CancelsOf
  <2>2. CASE i = 1
    BY <1>3, <2>1, <2>2
  <2>3. CASE i # 1
    <3>1. i - 1 \in 1 .. Len(t) /\ t[i - 1] = wire[p][i]
      BY <1>3, <2>3
    <3> QED BY <1>3, <1>6, <2>1, <3>1, CancelsOf
  <2> QED BY <2>2, <2>3
<1>14. \A i \in 1 .. Len(Line(p)') : i + 1 \in 1 .. Len(Line(p)) /\ Line(p)'[i] = Line(p)[i + 1]
  BY <1>3, <1>6
<1> QED BY <1>2, <1>3, <1>4, <1>5, <1>6, <1>7, <1>8, <1>9, <1>10, <1>11, <1>12, <1>13, <1>14
LEMMA TakesKeeps ==
  ASSUME IInv, NEW p \in Ports, NEW type, Takes(p, type),
         TypeOK', PanelOfGrants', UNCHANGED replies, GoneForGood,
         \A r \in Requests : stray[r] # "no" => stray'[r] # "no",
         type = "cancel" =>
           LET r == Head(wire[p]).request IN grant'[r] = "gone" \/ stray'[r] # "no",
         \A r \in Requests : grant[r] = "none" =>
           grant'[r] = "none" \/ (type = "create" /\ r = Head(wire[p]).request)
  PROVE  IInv'
<1>0. TypeOK /\ OneLine /\ Sorted /\ AskedOnce /\ Refused /\ PanelOfGrants /\ Wanted
  BY DEF IInv
<1>1. PICK m \in Messages :
           /\ m = Head(wire[p]) /\ m = wire[p][1] /\ m.type = type
           /\ 1 \in 1 .. Len(wire[p]) /\ p \in Lines /\ Line(p) = wire[p]
           /\ OneLine' /\ Came({}) /\ Sorted'
           /\ \A x \in Lines : x # p => Line(x)' = <<>> /\ Line(x) = <<>>
           /\ \A i \in 1 .. Len(Line(p)') : i + 1 \in 1 .. Len(Line(p)) /\ Line(p)'[i] = Line(p)[i + 1]
           /\ \A r \in Cancels(Line(p)) :
                r \in Cancels(Line(p)') \/ (m.type = "cancel" /\ m.request = r)
  BY TakesFacts
<1>2. UNCHANGED <<request, connects, clock, mounted, port, queue, retry, ports, panels>>
  BY DEF Takes
<1>3. AskedOnce'
  <2>1. ASSUME type = "create", NEW r \in Requests, r = m.request
        PROVE  /\ request'[r] # "new"
               /\ \A x \in Lines : \A i \in 1 .. Len(Line(x)') : ~Asks(Line(x)'[i], r)
    <3>1. Asks(Line(p)[1], r) /\ 1 \in 1 .. Len(Line(p))
      BY <1>1, <2>1 DEF Asks
    <3>2. /\ request[r] # "new"
          /\ \A j \in 1 .. Len(Line(p)) : Asks(Line(p)[j], r) => j = 1
      BY <1>0, <1>1, <3>1 DEF AskedOnce, Creates, Asks
    <3>3. ASSUME NEW i \in 1 .. Len(Line(p)') PROVE ~Asks(Line(p)'[i], r)
      <4>1. i + 1 # 1
        BY <3>3
      <4> QED BY <1>1, <3>2, <4>1
    <3>4. ASSUME NEW x \in Lines, x # p PROVE Len(Line(x)') = 0
      BY <1>1, <3>4
    <3> QED BY <1>2, <3>2, <3>3, <3>4
  <2>2. \A r \in Requests : grant[r] = "none" =>
           \/ grant'[r] = "none"
           \/ /\ request'[r] # "new"
              /\ \A x \in Lines : \A i \in 1 .. Len(Line(x)') : ~Asks(Line(x)'[i], r)
    BY <1>1, <2>1
  <2>3. \A r \in Requests : request[r] # "new" => request'[r] # "new"
    BY <1>2
  <2>4. Came({}) /\ OneLine'
    BY <1>1
  <2> QED BY <1>0, <2>2, <2>3, <2>4, AskedStep
<1>4. Refused'
  <2>1. \A r \in Requests : request'[r] = "failed" => request[r] = "failed"
    BY <1>2
  <2> QED BY <1>0, <2>1, RefusedStep, RepliesKept
<1>5. Noticed
  <2>1. ASSUME NEW r \in Requests, Cancelling(r)
        PROVE  Cancelling(r)' \/ stray'[r] # "no" \/ grant'[r] = "gone"
    <3>1. PICK x \in Lines : r \in Cancels(Line(x))
      BY <2>1 DEF Cancelling
    <3>2. x = p
      <4>1. x # p => Cancels(Line(x)) = {}
        BY <1>1, NoCancels
      <4> QED BY <3>1, <4>1
    <3>3. CASE r \in Cancels(Line(p)')
      BY <1>1, <3>3 DEF Cancelling
    <3>4. CASE m.type = "cancel" /\ m.request = r
      BY <1>1, <3>4
    <3> QED BY <1>1, <3>1, <3>2, <3>3, <3>4
  <2> QED BY <2>1 DEF Noticed
<1>6. Wanted'
  BY <1>0, <1>2, <1>5, WantedStep
<1> QED BY <1>1, <1>3, <1>4, <1>6 DEF IInv

LEMMA BridgeConnectStep == ASSUME IInv, NEW p \in Ports, BridgeConnect(p) PROVE IInv'
<1>0. TypeOK /\ PanelOfGrants /\ Takes(p, "connect")
  BY DEF IInv, BridgeConnect
<1>1. wire' \in [Ports -> Seq(Messages)] /\ seen' \in Nat /\ p \in panels
  BY <1>0, TakesFacts
<1>2. UNCHANGED <<request, connects, clock, mounted, port, queue, retry, ports, panels>>
  BY <1>0 DEF Takes
<1>3. bridge' = "on" /\ UNCHANGED <<replies, grant, by, stray>>
  BY DEF BridgeConnect
<1>4. TypeOK'
  BY <1>0, <1>1, <1>2, <1>3 DEF TypeOK
<1>5. PanelOfGrants' /\ GoneForGood
  BY <1>1, <1>2, <1>3 DEF PanelOfGrants, GoneForGood, Live
<1> QED BY <1>0, <1>3, <1>4, <1>5, TakesKeeps

LEMMA GrantCreateStep == ASSUME IInv, NEW p \in Ports, GrantCreate(p) PROVE IInv'
<1>0. TypeOK /\ AskedOnce /\ PanelOfGrants /\ Takes(p, "create")
  BY DEF IInv, GrantCreate
<1>1. PICK m \in Messages :
         /\ m = Head(wire[p]) /\ m = wire[p][1] /\ m.type = "create"
         /\ 1 \in 1 .. Len(wire[p]) /\ p \in Lines /\ Line(p) = wire[p]
         /\ wire' \in [Ports -> Seq(Messages)] /\ seen' \in Nat /\ p \in panels
  BY <1>0, TakesFacts
<1>2. UNCHANGED <<request, connects, clock, mounted, port, queue, retry, ports, panels>>
  BY <1>0 DEF Takes
<1>3. PICK r \in Requests : r = m.request
  BY <1>1 DEF Messages
<1>4. grant[r] = "none"
  BY <1>0, <1>1, <1>3 DEF AskedOnce, Creates
<1>5. /\ grant' = [grant EXCEPT ![r] = "reading"] /\ by' = [by EXCEPT ![r] = p]
      /\ UNCHANGED <<replies, bridge, stray>>
  BY <1>1, <1>3 DEF GrantCreate
<1>6. TypeOK'
  BY <1>0, <1>1, <1>2, <1>5 DEF TypeOK
<1>7. /\ GoneForGood /\ PanelOfGrants'
      /\ \A q \in Requests : grant[q] = "none" => grant'[q] = "none" \/ q = r
  BY <1>0, <1>2, <1>4, <1>5 DEF GoneForGood, PanelOfGrants, Live, TypeOK
<1> QED BY <1>0, <1>1, <1>3, <1>5, <1>6, <1>7, TakesKeeps

LEMMA GrantCancelStep == ASSUME IInv, NEW p \in Ports, GrantCancel(p) PROVE IInv'
<1>0. TypeOK /\ PanelOfGrants /\ Takes(p, "cancel")
  BY DEF IInv, GrantCancel
<1>1. PICK m \in Messages :
         /\ m = Head(wire[p]) /\ m.type = "cancel"
         /\ wire' \in [Ports -> Seq(Messages)] /\ seen' \in Nat
  BY <1>0, TakesFacts
<1>2. UNCHANGED <<request, connects, clock, mounted, port, queue, retry, ports, panels>>
  BY <1>0 DEF Takes
<1>3. PICK r \in Requests : r = m.request
  BY <1>1 DEF Messages
<1>4. /\ IF grant[r] = "offered"
         THEN grant' = [grant EXCEPT ![r] = "gone"] /\ UNCHANGED stray
         ELSE stray' = Strayed({r}, "unfound") /\ UNCHANGED grant
      /\ UNCHANGED <<replies, bridge, by>>
  BY <1>1, <1>3 DEF GrantCancel
<1>5. /\ stray' \in [Requests -> Reasons]
      /\ \A q \in Requests : stray[q] # "no" => stray'[q] # "no"
      /\ grant'[r] = "gone" \/ stray'[r] # "no"
  BY <1>0, <1>4, StrayedFacts DEF TypeOK, Reasons
<1>6. TypeOK'
  BY <1>0, <1>1, <1>2, <1>4, <1>5 DEF TypeOK
<1>7. /\ GoneForGood /\ PanelOfGrants'
      /\ \A q \in Requests : grant[q] = "none" => grant'[q] = "none"
  BY <1>0, <1>2, <1>4 DEF GoneForGood, PanelOfGrants, Live, TypeOK
<1> QED BY <1>0, <1>1, <1>3, <1>4, <1>5, <1>6, <1>7, TakesKeeps

-----------------------------------------------------------------------------
LEMMA InvInit == Init => IInv
<1> SUFFICES ASSUME Init PROVE IInv
  OBVIOUS
<1> USE PortNumbers
<1>1. TypeOK
  BY NoMessages DEF Init, TypeOK, Reasons
<1>2. \A x \in Lines : Line(x) = <<>> /\ Len(Line(x)) = 0
  BY DEF Init, Line, Lines
<1>3. OneLine
  BY <1>2, BufferAssumption DEF Init, OneLine
<1>4. Sorted
  BY <1>2 DEF Init, Sorted
<1>5. AskedOnce
  BY <1>2 DEF Init, AskedOnce
<1>6. Refused
  BY DEF Init, Refused
<1>7. PanelOfGrants /\ Wanted
  BY DEF Init, PanelOfGrants, Wanted, Live
<1> QED BY <1>1, <1>3, <1>4, <1>5, <1>6, <1>7 DEF IInv

LEMMA InvNext == IInv /\ [Next]_vars => IInv'
<1> SUFFICES ASSUME IInv, [Next]_vars PROVE IInv'
  OBVIOUS
<1>1. CASE IframeStep
  BY <1>1, CreateStep, AbortStep, TimesOutStep, ReplyStep, PairStep DEF IframeStep
<1>2. CASE PortStep
  BY <1>2, ConnectNowStep, PortDropsStep, UnmountStep, PortBreaksStep DEF PortStep
<1>3. CASE BackgroundStep
  BY <1>3, BridgeConnectStep, GrantCreateStep, GrantCancelStep, BackDisconnectStep,
     GrantStep, BridgeDropsStep, WorkerStopsStep DEF BackgroundStep
<1>4. CASE UNCHANGED vars
  <2>1. \A x \in Lines : Line(x)' = Line(x)
    BY <1>4 DEF Line, vars, panelVars
  <2> QED BY <1>4, <2>1 DEF IInv, TypeOK, OneLine, Sorted, AskedOnce, Creates, Refused,
          PanelOfGrants, Live, Wanted, Cancelling, vars, panelVars, backVars
<1> QED BY <1>1, <1>2, <1>3, <1>4 DEF Next

LEMMA InvAlways == Spec => []IInv
  BY InvInit, InvNext, PTL DEF Spec

(* Every variable stays in its range.                                      *)
THEOREM TypeCorrect == Spec => []TypeOK
<1>1. IInv => TypeOK
  BY DEF IInv
<1> QED BY <1>1, InvAlways, PTL

(* The panel buffers only while it has no port, never more than its limit, *)
(* and without a port always has another one coming.                       *)
THEOREM BufferCorrect == Spec => []BufferedOnlyWithoutPort
<1>1. IInv => BufferedOnlyWithoutPort
  BY DEF IInv, OneLine, BufferedOnlyWithoutPort
<1> QED BY <1>1, InvAlways, PTL

LEMMA Joined ==
  ASSUME NEW a \in Seq(Nat), NEW b \in Seq(Nat)
  PROVE  \E c \in Seq(Nat) :
           /\ c = a \o b /\ Len(c) = Len(a) + Len(b)
           /\ \A i \in 1 .. Len(a) : c[i] = a[i]
           /\ \A i \in 1 .. Len(b) : c[Len(a) + i] = b[i]
<1>1. PICK c : c = a \o b
  OBVIOUS
<1>2. /\ c \in Seq(Nat) /\ Len(c) = Len(a) + Len(b)
      /\ \A i \in 1 .. Len(a) : c[i] = a[i]
      /\ \A i \in 1 .. Len(b) : c[Len(a) + i] = b[i]
  BY <1>1
<1> QED BY <1>1, <1>2

LEMMA NumbersOf ==
  ASSUME NEW q \in Seq(Messages)
  PROVE  /\ Numbers(q) \in Seq(Nat) /\ Len(Numbers(q)) = Len(q)
         /\ \A i \in 1 .. Len(q) : Numbers(q)[i] = q[i].nr
<1>1. DOMAIN q = 1 .. Len(q) /\ Len(q) \in Nat
  OBVIOUS
<1>2. \A i \in 1 .. Len(q) : q[i].nr \in Nat
  <2>1. \A i \in 1 .. Len(q) : q[i] \in Messages
    OBVIOUS
  <2> QED BY <2>1 DEF Messages
<1> QED BY <1>1, <1>2 DEF Numbers

(* What waits is taken in the order it was sent, through every buffer and  *)
(* port and whatever fails in between.                                     *)
THEOREM OrderCorrect == Spec => []NeverReordered
<1>1. ASSUME IInv, NEW p \in Ports
      PROVE  Increasing(<<seen>> \o Numbers(wire[p]) \o Numbers(queue))
  <2> USE PortNumbers
  <2>1. TypeOK /\ OneLine /\ Sorted
    BY <1>1 DEF IInv
  <2>2. PICK w \in Seq(Nat) : w = Numbers(wire[p])
    BY <2>1, NumbersOf DEF TypeOK
  <2>3. PICK q \in Seq(Nat) : q = Numbers(queue)
    BY <2>1, NumbersOf DEF TypeOK
  <2>4. /\ p \in Lines /\ 0 \in Lines /\ p # 0 /\ Line(p) = wire[p] /\ Line(0) = queue
    BY DEF Lines, Line
  <2>5. /\ Len(w) = Len(wire[p]) /\ \A i \in 1 .. Len(w) : w[i] = wire[p][i].nr
        /\ Len(q) = Len(queue) /\ \A i \in 1 .. Len(q) : q[i] = queue[i].nr
    BY <2>1, <2>2, <2>3, NumbersOf DEF TypeOK
  <2>6. \A i \in 1 .. Len(w) : seen < w[i] /\ \A j \in 1 .. i - 1 : w[j] < w[i]
    <3>1. \A i \in 1 .. Len(wire[p]) :
            seen < wire[p][i].nr /\ \A j \in 1 .. i - 1 : wire[p][j].nr < wire[p][i].nr
      BY <2>1, <2>4 DEF Sorted
    <3>2. ASSUME NEW i \in 1 .. Len(w), NEW j \in 1 .. i - 1 PROVE j \in 1 .. Len(w)
      OBVIOUS
    <3> QED BY <2>5, <3>1, <3>2
  <2>7. \A i \in 1 .. Len(q) : seen < q[i] /\ \A j \in 1 .. i - 1 : q[j] < q[i]
    <3>1. \A i \in 1 .. Len(queue) :
            seen < queue[i].nr /\ \A j \in 1 .. i - 1 : queue[j].nr < queue[i].nr
      BY <2>1, <2>4 DEF Sorted
    <3>2. ASSUME NEW i \in 1 .. Len(q), NEW j \in 1 .. i - 1 PROVE j \in 1 .. Len(q)
      OBVIOUS
    <3> QED BY <2>5, <3>1, <3>2
  <2>8. Len(w) = 0 \/ Len(q) = 0
    <3>1. wire[p] = <<>> \/ queue = <<>>
      BY <2>1, <2>4 DEF OneLine
    <3> QED BY <2>5, <3>1
  <2>9. PICK c : c = <<seen>> \o w \o q
    OBVIOUS
  <2>10. /\ Len(c) = 1 + Len(w) + Len(q) /\ Len(w) \in Nat /\ Len(q) \in Nat
         /\ c[1] = seen
         /\ \A i \in 1 .. Len(w) : c[1 + i] = w[i]
         /\ \A i \in 1 .. Len(q) : c[1 + Len(w) + i] = q[i]
    <3>1. PICK h : h = <<seen>>
      OBVIOUS
    <3>2. h \in Seq(Nat) /\ Len(h) = 1 /\ h[1] = seen
      BY <2>1, <3>1 DEF TypeOK
    <3>3. w \in Seq(Nat) /\ q \in Seq(Nat)
      OBVIOUS
    <3>4. PICK b \in Seq(Nat) :
            /\ b = h \o w /\ Len(b) = Len(h) + Len(w)
            /\ \A i \in 1 .. Len(h) : b[i] = h[i]
            /\ \A i \in 1 .. Len(w) : b[Len(h) + i] = w[i]
      BY ONLY <3>2, <3>3, Joined
    <3>5. PICK d \in Seq(Nat) :
            /\ d = b \o q /\ Len(d) = Len(b) + Len(q)
            /\ \A i \in 1 .. Len(b) : d[i] = b[i]
            /\ \A i \in 1 .. Len(q) : d[Len(b) + i] = q[i]
      BY ONLY b \in Seq(Nat), <3>3, Joined
    <3>6. c = d
      BY <2>9, <3>1, <3>4, <3>5
    <3>7. Len(w) \in Nat /\ Len(q) \in Nat
      OBVIOUS
    <3>8. 1 \in 1 .. Len(h) /\ 1 \in 1 .. Len(b) /\ \A i \in 1 .. Len(w) : 1 + i \in 1 .. Len(b)
      BY <3>2, <3>4, <3>7
    <3>9. c[1] = seen /\ \A i \in 1 .. Len(w) : c[1 + i] = w[i]
      BY <3>2, <3>4, <3>5, <3>6, <3>8
    <3>10. \A i \in 1 .. Len(q) : c[1 + Len(w) + i] = q[i]
      BY SMTT(30), <3>2, <3>4, <3>5, <3>6
    <3>11. Len(c) = 1 + Len(w) + Len(q)
      BY <3>2, <3>4, <3>5, <3>6
    <3> QED BY <3>7, <3>9, <3>10, <3>11
  <2>11. ASSUME NEW i \in 1 .. Len(c) - 1 PROVE c[i] < c[i + 1]
    <3>1. CASE Len(q) = 0
      <4>1. i \in 1 .. Len(w) /\ c[i + 1] = w[i]
        BY <2>10, <3>1
      <4>2. CASE i = 1
        BY <2>6, <2>10, <4>1, <4>2
      <4>3. CASE i # 1
        <5>0. i \in Nat /\ i - 1 \in 1 .. Len(w) /\ i - 1 \in 1 .. i - 1 /\ 1 + (i - 1) = i
          BY <2>10, <4>1, <4>3
        <5>1. c[i] = w[i - 1]
          BY <2>10, <5>0
        <5> QED BY <5>0, <2>6, <4>1, <5>1
      <4> QED BY <4>2, <4>3
    <3>2. CASE Len(w) = 0
      <4>1. i \in 1 .. Len(q) /\ c[i + 1] = q[i]
        BY <2>10, <3>2
      <4>2. CASE i = 1
        BY <2>7, <2>10, <4>1, <4>2
      <4>3. CASE i # 1
        <5>0. i \in Nat /\ i - 1 \in 1 .. Len(q) /\ i - 1 \in 1 .. i - 1 /\ 1 + (i - 1) = i
          BY <2>10, <4>1, <4>3
        <5>1. c[i] = q[i - 1]
          <6>1. 1 + Len(w) + (i - 1) = i
            BY <3>2, <5>0
          <6>2. \A k \in 1 .. Len(q) : c[1 + Len(w) + k] = q[k]
            BY <2>10
          <6>3. c[1 + Len(w) + (i - 1)] = q[i - 1]
            BY <5>0, <6>2
          <6> QED BY <6>1, <6>3
        <5> QED BY <5>0, <2>7, <4>1, <5>1
      <4> QED BY <4>2, <4>3
    <3> QED BY <2>8, <3>1, <3>2
  <2> QED BY <2>2, <2>3, <2>9, <2>11 DEF Increasing
<1>2. IInv => NeverReordered
  BY <1>1 DEF NeverReordered
<1> QED BY <1>2, InvAlways, PTL

(* A live grant has somebody who waits for it or has it, or an end on its  *)
(* way; the losses after which it is left to its deadline are those named. *)
THEOREM WantedCorrect == Spec => []GrantsWanted
<1>1. ASSUME IInv, NEW r \in Requests, Live(r)
      PROVE  \/ request[r] \in {"pending", "granted"}
             \/ r \in Cancels(queue) \/ \E p \in Ports : r \in Cancels(wire[p])
             \/ stray[r] # "no"
             \/ ~mounted /\ panels # {}
  <2>1. grant[r] # "gone" /\ grant[r] # "none"
    BY <1>1 DEF Live
  <2>2. request[r] # "new"
    BY <1>1, <2>1 DEF IInv, AskedOnce
  <2>3. panels # {}
    BY <1>1 DEF IInv, PanelOfGrants
  <2>4. Cancelling(r) => r \in Cancels(queue) \/ \E p \in Ports : r \in Cancels(wire[p])
    BY DEF Cancelling, Line, Lines
  <2> QED BY <1>1, <2>1, <2>2, <2>3, <2>4 DEF IInv, Wanted
<1>2. IInv => GrantsWanted
  BY <1>1 DEF GrantsWanted
<1> QED BY <1>2, InvAlways, PTL
=============================================================================
