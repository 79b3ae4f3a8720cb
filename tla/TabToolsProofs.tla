--------------------------- MODULE TabToolsProofs ---------------------------
(***************************************************************************)
(* Theorems about TabTools for any grants, calls, tools and documents.     *)
(*                                                                         *)
(* The first part is about windows: a grant follows its page to a foreign  *)
(* origin only through a window of its own.  The second is about calls and *)
(* what is on its way between the browser and the worker: where references *)
(* and runtime objects point, how often a call is executed, and that a     *)
(* write lands on a page its grant has judged.  Its invariant, TabInv,     *)
(* says of every queue what the messages still on it will find.            *)
(***************************************************************************)
EXTENDS TabTools, FiniteSetTheorems, TLAPS

ViewsOver(Seen) == [origin : Seen, suspended : BOOLEAN, window : BOOLEAN]

(* An open window is one that was armed and has not been spent.            *)
WindowsPaid ==
    /\ \E Seen : views \in [Grants -> ViewsOver(Seen)]
    /\ credit \in [Grants -> Int]
    /\ \A g \in Grants : credit[g] >= IF views[g].window THEN 1 ELSE 0

LEMMA Rebased ==
  ASSUME NEW Seen, NEW v \in ViewsOver(Seen), NEW o
  PROVE  /\ [v EXCEPT !.origin = o] \in ViewsOver(Seen \cup {o})
         /\ [v EXCEPT !.origin = o].window = v.window
  BY DEF ViewsOver

LEMMA InitWindows == Init => WindowsPaid
<1> SUFFICES ASSUME Init PROVE WindowsPaid
  OBVIOUS
<1>1. PICK g \in Grants :
        views = [h \in Grants |-> IF h = g THEN [Unbound EXCEPT !.origin = Home] ELSE Unbound]
  BY DEF Init
<1>2. Unbound \in ViewsOver({"unknown"}) /\ Unbound \in ViewsOver({"unknown", Home})
      /\ ~Unbound.window
  BY DEF Unbound, ViewsOver
<1>3. /\ [Unbound EXCEPT !.origin = Home] \in ViewsOver({"unknown", Home})
      /\ ~[Unbound EXCEPT !.origin = Home].window
  <2> HIDE DEF Unbound
  <2> QED BY <1>2, Rebased
<1>4. views \in [Grants -> ViewsOver({"unknown", Home})]
  BY <1>1, <1>2, <1>3
<1>5. \A h \in Grants : ~views[h].window /\ credit[h] = 0
  BY <1>1, <1>2, <1>3 DEF Init
<1>6. credit \in [Grants -> Int]
  BY DEF Init
<1> QED BY <1>4, <1>5, <1>6 DEF WindowsPaid

LEMMA ArmedPays ==
  ASSUME WindowsPaid, NEW call, Armed(call) PROVE WindowsPaid'
<1>1. PICK Seen : views \in [Grants -> ViewsOver(Seen)]
  BY DEF WindowsPaid
<1>2. CASE Arms(call.kind, call.pc)
  <2> DEFINE G == call.grant
  <2>1. /\ views' = [views EXCEPT ![G].window = TRUE]
        /\ credit' = [credit EXCEPT ![G] = @ + 1]
    BY <1>2 DEF Armed
  <2> HIDE DEF G
  <2>2. views' \in [Grants -> ViewsOver(Seen)]
    BY <1>1, <2>1 DEF ViewsOver
  <2>4. credit' \in [Grants -> Int]
    <3>1. CASE G \in Grants
      BY <2>1, <3>1 DEF WindowsPaid
    <3>2. CASE G \notin Grants
      <4>1. credit' = credit
        BY <2>1, <3>2 DEF WindowsPaid
      <4> QED BY <4>1 DEF WindowsPaid
    <3> QED BY <3>1, <3>2
  <2>3. ASSUME NEW g \in Grants
        PROVE  credit'[g] >= IF views'[g].window THEN 1 ELSE 0
    BY <1>1, <2>1 DEF WindowsPaid, ViewsOver
  <2> QED BY <2>2, <2>3, <2>4 DEF WindowsPaid
<1>3. CASE ~Arms(call.kind, call.pc)
  BY <1>3 DEF Armed, WindowsPaid
<1> QED BY <1>2, <1>3

LEMMA UnchangedPays == WindowsPaid /\ UNCHANGED <<views, credit>> => WindowsPaid'
  BY DEF WindowsPaid

LEMMA StartsPays ==
  ASSUME WindowsPaid, NEW c, NEW call, Starts(c, call) PROVE WindowsPaid'
<1>1. \A d, k, w : Step(d, k, w) => WindowsPaid'
  BY ArmedPays DEF Step
<1>2. \A d, k, w : Rests(d, k, w) => WindowsPaid'
  BY UnchangedPays DEF Rests
<1> QED BY <1>1, <1>2 DEF Starts

LEMMA WindowsStep == WindowsPaid /\ [Next]_vars => WindowsPaid'
<1> SUFFICES ASSUME WindowsPaid, [Next]_vars PROVE WindowsPaid'
  OBVIOUS
<1> USE UnchangedPays
<1>0. PICK Seen : views \in [Grants -> ViewsOver(Seen)]
  BY DEF WindowsPaid
<1>1. ASSUME NEW g \in Grants, Bind(g) PROVE WindowsPaid'
  <2>1. views' = [views EXCEPT ![g].origin = issued[g]] /\ credit' = credit
    BY <1>1 DEF Bind
  <2>2. views' \in [Grants -> ViewsOver(Seen \cup {issued[g]})]
    BY <1>0, <2>1 DEF ViewsOver
  <2>3. \A h \in Grants : views'[h].window = views[h].window
    BY <1>0, <2>1 DEF ViewsOver
  <2> QED BY <2>1, <2>2, <2>3 DEF WindowsPaid
<1>2. ASSUME NEW g \in Grants, WindowLapses(g) PROVE WindowsPaid'
  <2>1. views' = [views EXCEPT ![g].window = FALSE] /\ credit' = credit
    BY <1>2 DEF WindowLapses
  <2>2. views' \in [Grants -> ViewsOver(Seen)]
    BY <1>0, <2>1 DEF ViewsOver
  <2>3. \A h \in Grants : views'[h].window => views[h].window
    BY <1>0, <2>1 DEF ViewsOver
  <2> QED BY <2>1, <2>2, <2>3 DEF WindowsPaid
<1>3. ASSUME NEW c \in Calls, StartAction(c) PROVE WindowsPaid'
  <2>1. PICK call : Starts(c, call) \/ \E k : Rests(c, k, wire)
    BY <1>3 DEF StartAction
  <2> QED BY <2>1, StartsPays DEF Rests
<1>4. ASSUME NEW c \in Calls, Polls(c) PROVE WindowsPaid'
  <2>1. PICK call : Starts(c, call) \/ Rests(c, call, wire)
    BY <1>4 DEF Polls
  <2> QED BY <2>1, StartsPays DEF Rests
<1>5. CASE HandleReply
  <2>1. \A d, k, w : Step(d, k, w) => WindowsPaid'
    BY ArmedPays DEF Step
  <2>2. \A d, k, w : Rests(d, k, w) => WindowsPaid'
    BY DEF Rests
  <2>3. \A d, k, w : Closes(d, k, w) => WindowsPaid'
    BY <2>2 DEF Closes
  <2>4. \E d, k, w : Step(d, k, w) \/ Rests(d, k, w) \/ Closes(d, k, w)
    BY <1>5 DEF HandleReply
  <2> QED BY <2>1, <2>2, <2>3, <2>4
<1>6. CASE HandleNavigated
  <2>1. PICK o : /\ views' = [g \in Grants |-> IF g \in bound THEN Judged(g, o) ELSE views[g]]
                 /\ credit' = [g \in Grants |-> credit[g] - IF Follows(g, o) THEN 1 ELSE 0]
    BY <1>6 DEF HandleNavigated
  <2>2. ASSUME NEW g \in Grants
        PROVE  /\ Judged(g, o) \in ViewsOver(Seen \cup {o})
               /\ ~Judged(g, o).window
               /\ Follows(g, o) => g \in bound /\ views[g].window
    BY <1>0 DEF Judged, Follows, Covered, ViewsOver
  <2>3. views' \in [Grants -> ViewsOver(Seen \cup {o})]
    <3>1. ASSUME NEW g \in Grants PROVE views[g] \in ViewsOver(Seen \cup {o})
      BY <1>0 DEF ViewsOver
    <3> QED BY <2>1, <2>2, <3>1
  <2>4. credit' \in [Grants -> Int]
    BY <2>1 DEF WindowsPaid
  <2>5. ASSUME NEW g \in Grants
        PROVE  credit'[g] >= IF views'[g].window THEN 1 ELSE 0
    <3>1. CASE g \in bound
      <4>1. ~views'[g].window
        BY <2>1, <2>2, <3>1
      <4>2. credit'[g] >= 0
        BY <2>1, <2>2 DEF WindowsPaid
      <4> QED BY <4>1, <4>2
    <3>2. CASE g \notin bound
      BY <2>1, <2>2, <3>2 DEF WindowsPaid
    <3> QED BY <3>1, <3>2
  <2> QED BY <2>3, <2>4, <2>5 DEF WindowsPaid
<1>7. ASSUME NEW c \in Calls, Ends(c) \/ Pauses(c) \/ Settles(c) \/ Expires(c) \/ PageChanges(c)
      PROVE  WindowsPaid'
  BY <1>7 DEF Ends, Pauses, Settles, Expires, PageChanges, grantVars
<1>8. ASSUME NEW g \in Grants, Issue(g) \/ Revoke(g) \/ \E c \in Calls : Receive(c, g)
      PROVE  WindowsPaid'
  BY <1>8 DEF Issue, Revoke, Receive, grantVars
<1>9. CASE SessionOpens \/ HandleDetached \/ ChromeDetaches
  BY <1>9 DEF SessionOpens, HandleDetached, ChromeDetaches, grantVars
<1>10. ASSUME NEW o \in Origins, PageNavigates(o) PROVE WindowsPaid'
  BY <1>10 DEF PageNavigates
<1>11. CASE UNCHANGED vars
  BY <1>11 DEF vars, grantVars
<1> QED BY <1>1, <1>2, <1>3, <1>4, <1>5, <1>6, <1>7, <1>8, <1>9, <1>10, <1>11
        DEF Next, CallStep

(* A grant follows its page to at most as many foreign origins as its      *)
(* tools armed windows, however many grants share the tab and whatever     *)
(* commands, lapses and detaches come between.                             *)
THEOREM OneOriginCorrect == Spec => []OneOriginPerWindow
<1>1. ASSUME WindowsPaid, NEW g \in Grants PROVE credit[g] >= 0
  <2>1. credit[g] \in Int /\ credit[g] >= IF views[g].window THEN 1 ELSE 0
    BY <1>1 DEF WindowsPaid
  <2>2. (IF views[g].window THEN 1 ELSE 0) \in {0, 1}
    OBVIOUS
  <2> QED BY <2>1, <2>2
<1>2. WindowsPaid => OneOriginPerWindow
  BY <1>1 DEF OneOriginPerWindow
<1> QED BY <1>2, InitWindows, WindowsStep, PTL DEF Spec

-----------------------------------------------------------------------------
(***************************************************************************)
(* Types                                                                   *)

Phases   == {"none", "session", "ready", "paused", "act", "freeing", "ended"}
Writes   == ActKinds \cup NavKinds
AllKinds == Writes \cup Checks \cup {"observe", "wait"}
Commands == {"resolve", "read", "peek", "change", "input", "release", "ask", "tree"}
RefSet   == [doc : Nat, generation : Nat]

CallRecords ==
    [phase : Phases, grant : Grants \cup {"nobody"}, tool : ToolNames \cup {"none"},
     kind : AllKinds \cup {"none"}, pc : Nat, acts : Nat, ref : RefSet, obj : Nat,
     failed : BOOLEAN, expired : BOOLEAN, noisy : BOOLEAN, at : Int]

Replies  == [type : {"reply"}, call : Calls, cmd : Commands, ok : BOOLEAN, doc : Nat]
Reports  == [type : {"navigated"}, origin : Origins]
Messages == Replies \cup Reports \cup {Detached}

TypeOK ==
    /\ page \in [doc : Nat \ {0}, origin : Origins]
    /\ debugging \in BOOLEAN /\ attached \in BOOLEAN
    /\ wire \in Seq(Messages)
    /\ generation \in Nat /\ refs \subseteq RefSet
    /\ issued \in [Grants -> Origins \cup {"unknown"}]
    /\ bound \subseteq Grants /\ blind \subseteq Grants
    /\ views \in [Grants -> ViewsOver(Origins \cup {"unknown"})]
    /\ calls \in [Calls -> CallRecords]
    /\ handles \in [Calls -> Nat] /\ runs \in [Calls -> Nat]

-----------------------------------------------------------------------------
(* The invariant, part by part *)

IsReply(m, c) == m.type = "reply" /\ m.call = c

(* A grant that is bound, or has a call, has had its baseline.             *)
Baselined ==
    /\ \A g \in bound : views[g].origin # "unknown"
    /\ \A c \in Calls : calls[c].grant \in Grants => views[calls[c].grant].origin # "unknown"

Executed ==
    \A c \in Calls : /\ calls[c].phase = "none" <=> calls[c].grant = "nobody"
                     /\ runs[c] = IF calls[c].phase = "none" THEN 0 ELSE 1

(* Where a running tool may be.                                            *)
InScript(k) ==
    /\ k.phase = "act" => k.kind # "none" /\ k.pc \in 1 .. Len(Script(k.kind))
    /\ k.phase \in {"session", "ready", "paused"} => k.obj = 0
    /\ k.phase \in {"session", "ready", "paused", "act", "freeing"} => k.tool # "none"
    /\ k.tool = "settle" => k.phase \notin {"act", "freeing"} /\ k.kind = "none"
    /\ k.noisy => k.tool = "settle"

(* Every reply on the wire is awaited, and is the only one of its call.    *)
Awaited(w) ==
    \A i \in DOMAIN w : w[i].type = "reply" =>
      /\ calls[w[i].call].phase \in {"act", "freeing"}
      /\ \A j \in DOMAIN w : IsReply(w[j], w[i].call) => i = j

(* The object a call holds is the one its command in flight is about to    *)
(* hand out, or one it knows of.                                           *)
Held(c, w) ==
    handles[c] # 0 =>
      /\ handles[c] = 1 /\ debugging /\ calls[c].phase = "act"
      /\ \E i \in DOMAIN w :
           /\ IsReply(w[i], c)
           /\ \/ w[i].cmd = "resolve" /\ w[i].ok /\ w[i].doc = page.doc
              \/ w[i].cmd \notin {"resolve", "release"} /\ calls[c].obj = page.doc

Fails(m) == m.type = "reply" /\ ~m.ok

(* After a detach nothing but failed replies is sent, until its end has    *)
(* been seen and a session opened again.                                   *)
Severed(w) ==
    /\ ~attached => ~debugging /\ refs = {} /\ \A i \in DOMAIN w : Fails(w[i])
    /\ \A i \in DOMAIN w : w[i].type = "detached" =>
         attached /\ ~debugging /\ \A j \in DOMAIN w : j > i => Fails(w[j])

ReportAfter(i, w) == \E j \in DOMAIN w : j > i /\ w[j].type = "navigated"

(* References, known or on their way, are of the document on screen unless *)
(* the report that drops them is behind.                                   *)
RefsCurrent(w) ==
    debugging =>
      /\ \A ref \in refs : ref.doc = page.doc \/ ReportAfter(0, w)
      /\ \A i \in DOMAIN w : w[i].type = "reply" /\ w[i].cmd = "tree" /\ w[i].ok =>
            w[i].doc = page.doc \/ ReportAfter(i, w)

(* The last report is of the page on screen, or nobody bound will know.    *)
ReportsCurrent(w) ==
    \A i \in DOMAIN w : w[i].type = "navigated" /\ ~ReportAfter(i, w) =>
      w[i].origin = page.origin \/ (~debugging /\ bound \subseteq blind)

ViewsCurrent(w) ==
    \A g \in bound \ blind : views[g].origin = page.origin \/ ReportAfter(0, w)

(* A write that no navigation has overtaken is authorized.                 *)
WriteJudged(c, w) ==
    LET k == calls[c] IN
    k.phase = "act" /\ k.kind \in Writes /\ k.grant \in bound \ blind =>
      k.at < page.doc \/ (k.at = page.doc /\ Authorized(k.grant) /\ ~ReportAfter(0, w))

TabInv ==
    /\ TypeOK
    /\ Baselined /\ Executed
    /\ \A c \in Calls : InScript(calls[c])
    /\ Awaited(wire) /\ Severed(wire)
    /\ \A c \in Calls : Held(c, wire)
    /\ RefsCurrent(wire) /\ ReportsCurrent(wire) /\ ViewsCurrent(wire)
    /\ \A c \in Calls : WriteJudged(c, wire)

-----------------------------------------------------------------------------
(* Scripts and queues *)

Sendable(s) ==
    /\ s \in Seq(Commands) /\ 1 <= Len(s)
    /\ \A i \in 1 .. Len(s) : i > 1 => s[i] # "resolve"

Harmless(s) == \A i \in 1 .. Len(s) : s[i] \notin Effects

(* What any script sends: commands, an element resolved first if at all,   *)
(* and effects only when it writes.                                        *)
LEMMA ScriptsOK ==
  \A k \in AllKinds : Sendable(Script(k)) /\ (k \notin Writes => Harmless(Script(k)))
<1>1. /\ Sendable(ClickScript) /\ Sendable(HoverScript) /\ Sendable(FocusScript)
      /\ Sendable(FillScript) /\ Sendable(SelectScript)
  BY SMTT(30)
     DEF Sendable, Commands, ClickScript, HoverScript, FocusScript, FillScript,
         SelectScript
<1>2. Sendable(TypeScript) /\ Sendable(RetypeScript)
  BY SMTT(30) DEF Sendable, Commands, TypeScript, RetypeScript
<1>3. Sendable(ToggleScript)
  BY SMTT(30) DEF Sendable, Commands, ToggleScript
<1>4. /\ Sendable(PressScript) /\ Sendable(ScrollScript) /\ Sendable(WheelScript)
      /\ Sendable(OpenScript) /\ Sendable(BackScript)
  BY SMTT(30)
     DEF Sendable, Commands, PressScript, ScrollScript, WheelScript, OpenScript,
         BackScript
<1>5. /\ Sendable(CheckScript) /\ Sendable(LookScript) /\ Sendable(ObserveScript)
      /\ Sendable(WaitScript) /\ Harmless(CheckScript) /\ Harmless(LookScript)
      /\ Harmless(ObserveScript) /\ Harmless(WaitScript)
  BY SMTT(30)
     DEF Sendable, Harmless, Commands, Effects, CheckScript, LookScript, ObserveScript,
         WaitScript
<1> HIDE DEF ClickScript, ToggleScript, HoverScript, FocusScript, TypeScript,
             RetypeScript, FillScript, SelectScript, PressScript, ScrollScript,
             WheelScript, OpenScript, BackScript, CheckScript, LookScript,
             ObserveScript, WaitScript
<1>6. \A k \in AllKinds : Sendable(Script(k))
  BY <1>1, <1>2, <1>3, <1>4, <1>5
     DEF Script, AllKinds, Checks, Writes, ActKinds, NavKinds
<1>7. \A k \in AllKinds \ Writes : Harmless(Script(k))
  BY <1>5 DEF Script, AllKinds, Checks
<1> QED BY <1>6, <1>7

LEMMA TailIs ==
  ASSUME NEW w \in Seq(Messages), w # <<>>
  PROVE  /\ Head(w) = w[1] /\ 1 \in DOMAIN w
         /\ Tail(w) \in Seq(Messages)
         /\ \A i \in DOMAIN Tail(w) : i \in Nat /\ i + 1 \in DOMAIN w /\ Tail(w)[i] = w[i + 1]
         /\ \A i \in DOMAIN w : i > 1 => i - 1 \in DOMAIN Tail(w) /\ Tail(w)[i - 1] = w[i]
  OBVIOUS

LEMMA AppendIs ==
  ASSUME NEW w \in Seq(Messages), NEW m \in Messages
  PROVE  /\ Append(w, m) \in Seq(Messages)
         /\ Len(w) + 1 \in DOMAIN Append(w, m) /\ Append(w, m)[Len(w) + 1] = m
         /\ \A i \in DOMAIN w : i \in DOMAIN Append(w, m) /\ Append(w, m)[i] = w[i] /\ i <= Len(w)
         /\ \A i \in DOMAIN Append(w, m) : i \in DOMAIN w \/ i = Len(w) + 1
         /\ Len(w) \in Nat /\ Len(w) + 1 \notin DOMAIN w
  OBVIOUS

LEMMA ReportAfterTail ==
  ASSUME NEW w \in Seq(Messages), w # <<>>, NEW i \in Nat
  PROVE  ReportAfter(i, Tail(w)) <=> ReportAfter(i + 1, w)
<1>1. ASSUME NEW j \in DOMAIN Tail(w), j > i, Tail(w)[j].type = "navigated"
      PROVE  ReportAfter(i + 1, w)
  <2>1. j + 1 \in DOMAIN w /\ Tail(w)[j] = w[j + 1] /\ j \in Nat
    BY TailIs
  <2> QED BY <1>1, <2>1 DEF ReportAfter
<1>2. ASSUME NEW j \in DOMAIN w, j > i + 1, w[j].type = "navigated"
      PROVE  ReportAfter(i, Tail(w))
  <2>1. j \in Nat /\ j - 1 \in DOMAIN Tail(w) /\ Tail(w)[j - 1] = w[j]
    BY <1>2, TailIs
  <2> QED BY <1>2, <2>1 DEF ReportAfter
<1> QED BY <1>1, <1>2 DEF ReportAfter

LEMMA ReportAfterHead ==
  ASSUME NEW w \in Seq(Messages), w # <<>>
  PROVE  ReportAfter(0, w) <=> Head(w).type = "navigated" \/ ReportAfter(0, Tail(w))
<1>1. ReportAfter(0, Tail(w)) <=> ReportAfter(1, w)
  BY ReportAfterTail
<1>2. ReportAfter(0, w) <=> w[1].type = "navigated" \/ ReportAfter(1, w)
  BY TailIs DEF ReportAfter
<1> QED BY <1>1, <1>2, TailIs

LEMMA ReportAfterAppend ==
  ASSUME NEW w \in Seq(Messages), NEW m \in Messages, m.type # "navigated"
  PROVE  \A i : ReportAfter(i, Append(w, m)) <=> ReportAfter(i, w)
  BY AppendIs DEF ReportAfter

(* Unreported counts the reports on the wire.                              *)
LEMMA UnreportedIs ==
  ASSUME wire \in Seq(Messages)
  PROVE  Unreported \in Nat /\ (Unreported = 0 <=> ~ReportAfter(0, wire))
<1> DEFINE S == {i \in DOMAIN wire : wire[i].type = "navigated"}
<1>1. IsFiniteSet(S) /\ S \subseteq 1 .. Len(wire)
  <2>1. IsFiniteSet(1 .. Len(wire))
    BY FS_Interval
  <2>2. S \subseteq 1 .. Len(wire)
    OBVIOUS
  <2> QED BY <2>1, <2>2, FS_Subset
<1>2. Cardinality(S) \in Nat /\ (Cardinality(S) = 0 <=> S = {})
  BY <1>1, FS_CardinalityType, FS_EmptySet
<1>3. S = {} <=> ~ReportAfter(0, wire)
  BY <1>1 DEF ReportAfter
<1> QED BY <1>2, <1>3 DEF Unreported

-----------------------------------------------------------------------------
(* One call goes on: a command is sent, or none *)

(* What is left of the wire when c, which awaits nothing there, goes on.   *)
Loose(c, left) ==
    /\ left \in Seq(Messages)
    /\ \A i \in DOMAIN left : left[i].type = "reply" =>
         /\ left[i].call # c /\ calls[left[i].call].phase \in {"act", "freeing"}
         /\ \A j \in DOMAIN left : IsReply(left[j], left[i].call) => i = j
    /\ Severed(left)
    /\ \A d \in Calls \ {c} : Held(d, left)
    /\ RefsCurrent(left) /\ ReportsCurrent(left)
    /\ ReportAfter(0, left) <=> ReportAfter(0, wire)

(* What may change besides the call and the wire.                          *)
Aside ==
    /\ UNCHANGED <<page, debugging, attached, generation, issued, bound, blind, runs>>
    /\ views' \in [Grants -> ViewsOver(Origins \cup {"unknown"})]
    /\ \A g \in Grants : /\ views'[g].origin = views[g].origin
                         /\ views'[g].suspended = views[g].suspended
    /\ refs' \subseteq RefSet /\ (~attached => refs' = {})
    /\ debugging => \A ref \in refs' : ref.doc = page.doc \/ ReportAfter(0, wire)

(* A write in state k is overtaken or authorized.                          *)
Justified(k) ==
    k.kind \in Writes /\ k.grant \in bound \ blind =>
      k.at < page.doc \/ (k.at = page.doc /\ Authorized(k.grant) /\ ~ReportAfter(0, wire))

(* The state k the call c may go on in.                                    *)
Fit(c, k) ==
    /\ k \in CallRecords /\ InScript(k)
    /\ k.phase # "none" /\ calls[c].phase # "none" /\ k.grant = calls[c].grant
    /\ k.phase = "act" => Justified(k)

(* The object c holds when it sends cmd.                                   *)
Hands(c, k, cmd) ==
    /\ cmd # "release" => k.phase = "act"
    /\ handles[c] # 0 => /\ handles[c] = 1 /\ debugging
                         /\ cmd # "resolve" /\ k.obj = page.doc

LEMMA AsideViews ==
  ASSUME TabInv, Aside
  PROVE  /\ \A g \in Grants : Authorized(g)' <=> Authorized(g)
         /\ bound' = bound /\ blind' = blind /\ page' = page
  BY DEF Aside, Authorized

(* What does not depend on the wire.                                       *)
LEMMA MoveKeepsCalls ==
  ASSUME TabInv, NEW c \in Calls, NEW k, Fit(c, k), Aside,
         calls' = [calls EXCEPT ![c] = k]
  PROVE  /\ calls' \in [Calls -> CallRecords]
         /\ Baselined' /\ Executed'
         /\ \A d \in Calls : InScript(calls[d])'
<1> USE DEF TabInv
<1>1. calls \in [Calls -> CallRecords] /\ k \in CallRecords
  BY DEF TypeOK, Fit
<1>2. calls' \in [Calls -> CallRecords]
  BY <1>1
<1>3. \A d \in Calls : calls'[d] = IF d = c THEN k ELSE calls[d]
  BY <1>1
<1>4. \A d \in Calls : /\ calls'[d].grant = calls[d].grant
                       /\ calls'[d].phase = "none" <=> calls[d].phase = "none"
  BY <1>3 DEF Fit
<1>5. bound \subseteq Grants
  BY DEF TypeOK
<1>6. Baselined'
  BY <1>4, <1>5 DEF Baselined, Aside
<1>7. Executed'
  BY <1>4 DEF Executed, Aside
<1>8. ASSUME NEW d \in Calls PROVE InScript(calls[d])'
  <2>1. InScript(calls[d]) /\ InScript(k)
    BY DEF Fit
  <2> QED BY <1>3, <2>1 DEF InScript
<1> QED BY <1>2, <1>6, <1>7, <1>8

LEMMA MoveKeepsJudged ==
  ASSUME TabInv, NEW c \in Calls, NEW k, Fit(c, k), Aside,
         calls' = [calls EXCEPT ![c] = k],
         ReportAfter(0, wire') <=> ReportAfter(0, wire)
  PROVE  /\ ViewsCurrent(wire)'
         /\ \A d \in Calls : WriteJudged(d, wire)'
<1> USE DEF TabInv
<1>1. calls \in [Calls -> CallRecords] /\ bound \subseteq Grants
  BY DEF TypeOK
<1>2. ViewsCurrent(wire)'
  BY <1>1 DEF ViewsCurrent, Aside
<1>3. ASSUME NEW d \in Calls PROVE WriteJudged(d, wire)'
  <2>1. calls'[d] = IF d = c THEN k ELSE calls[d]
    BY <1>1
  <2>2. CASE d = c
    BY <1>1, <2>1, <2>2, AsideViews DEF Fit, Justified, WriteJudged
  <2>3. CASE d # c
    <3>1. WriteJudged(d, wire)
      OBVIOUS
    <3> QED BY <1>1, <2>1, <2>3, <3>1, AsideViews DEF WriteJudged
  <2> QED BY <2>2, <2>3
<1> QED BY <1>2, <1>3

LEMMA RestKeeps ==
  ASSUME TabInv, NEW c \in Calls, NEW k, NEW left, Loose(c, left), Fit(c, k), Aside,
         k.phase \in {"ready", "paused", "ended"}, handles[c] = 0, Rests(c, k, left)
  PROVE  TabInv'
<1> USE DEF TabInv
<1>1. calls' = [calls EXCEPT ![c] = k] /\ wire' = left /\ handles' = handles
  BY DEF Rests
<1>2. /\ calls \in [Calls -> CallRecords]
      /\ \A d \in Calls : calls'[d] = IF d = c THEN k ELSE calls[d]
  BY <1>1 DEF TypeOK
<1>3. TypeOK'
  <2>1. calls' \in [Calls -> CallRecords]
    BY <1>1, MoveKeepsCalls
  <2> QED BY <1>1, <2>1 DEF TypeOK, Aside, Loose
<1>4. Awaited(wire)'
  <2>1. ASSUME NEW i \in DOMAIN left, left[i].type = "reply"
        PROVE  calls'[left[i].call].phase \in {"act", "freeing"}
    <3>1. left[i].call # c /\ calls[left[i].call].phase \in {"act", "freeing"}
      BY <2>1 DEF Loose
    <3> QED BY <1>1, <3>1, <1>2
  <2> QED BY <1>1, <2>1 DEF Awaited, Loose
<1>5. Severed(wire)'
  BY <1>1 DEF Severed, Loose, Aside
<1>6. ASSUME NEW d \in Calls PROVE Held(d, wire)'
  <2>1. CASE d = c
    BY <1>1, <2>1 DEF Held
  <2>2. CASE d # c
    <3>1. Held(d, left)
      BY <2>2 DEF Loose
    <3> QED BY <1>1, <1>2, <2>2, <3>1 DEF Held, Aside
  <2> QED BY <2>1, <2>2
<1>7. RefsCurrent(wire)'
  BY <1>1 DEF RefsCurrent, Loose, Aside
<1>8. ReportsCurrent(wire)'
  BY <1>1 DEF ReportsCurrent, Loose, Aside
<1>9. ReportAfter(0, wire') <=> ReportAfter(0, wire)
  BY <1>1 DEF Loose
<1> QED BY <1>1, <1>3, <1>4, <1>5, <1>6, <1>7, <1>8, <1>9, MoveKeepsCalls, MoveKeepsJudged

LEMMA SendKeeps ==
  ASSUME TabInv, NEW c \in Calls, NEW k, NEW cmd \in Commands, NEW left,
         Loose(c, left), Fit(c, k), Hands(c, k, cmd), Aside,
         k.phase \in {"act", "freeing"}, Sends(c, k, cmd, left)
  PROVE  TabInv'
<1> USE DEF TabInv
<1>1. PICK ok \in Answers(k, cmd) :
        /\ wire' = Append(left, Reply(c, cmd, ok))
        /\ handles' = [handles EXCEPT ![c] =
              CASE ok /\ cmd = "resolve" -> @ + 1
                [] cmd = "release" /\ k.obj = page.doc /\ debugging -> 0
                [] OTHER -> @]
  BY DEF Sends
<1>2. calls' = [calls EXCEPT ![c] = k]
  BY DEF Sends
<1>3. ok \in BOOLEAN /\ (~debugging => ~ok)
  BY DEF Answers, Commands
<1>4. /\ calls \in [Calls -> CallRecords]
      /\ \A d \in Calls : calls'[d] = IF d = c THEN k ELSE calls[d]
  BY <1>2 DEF TypeOK
<1> DEFINE m == Reply(c, cmd, ok)
<1>5. PICK r : r = m
  OBVIOUS
<1>6. /\ r \in Messages /\ r.type = "reply" /\ r.call = c /\ r.cmd = cmd /\ r.ok = ok
      /\ r.doc = page.doc
  <2>1. page.doc \in Nat
    BY DEF TypeOK
  <2> QED BY <1>3, <1>5, <2>1 DEF Reply, Messages, Replies
<1>7. wire' = Append(left, r) /\ left \in Seq(Messages)
  BY <1>1, <1>5 DEF Loose
<1> HIDE DEF m
<1> DEFINE n == Len(left) + 1
<1>8. /\ wire' \in Seq(Messages)
      /\ n \in DOMAIN wire' /\ wire'[n] = r /\ n \in Nat
      /\ \A i \in DOMAIN left : i \in DOMAIN wire' /\ wire'[i] = left[i] /\ i < n
      /\ \A i \in DOMAIN wire' : i \in DOMAIN left \/ i = n
  BY <1>6, <1>7, AppendIs
<1>9. \A i : ReportAfter(i, wire') <=> ReportAfter(i, left)
  BY <1>6, <1>7, ReportAfterAppend
<1> HIDE DEF n
<1>10. TypeOK'
  <2>1. calls' \in [Calls -> CallRecords]
    BY <1>2, MoveKeepsCalls
  <2>2. handles' \in [Calls -> Nat]
    BY <1>1 DEF TypeOK
  <2> QED BY <1>8, <2>1, <2>2 DEF TypeOK, Aside
<1>11. Awaited(wire)'
  <2>1. ASSUME NEW i \in DOMAIN wire', wire'[i].type = "reply"
        PROVE  /\ calls'[wire'[i].call].phase \in {"act", "freeing"}
               /\ \A j \in DOMAIN wire' : IsReply(wire'[j], wire'[i].call) => i = j
    <3>1. CASE i = n
      <4>1. \A j \in DOMAIN left : ~IsReply(left[j], c)
        BY DEF Loose, IsReply
      <4> QED BY <1>4, <1>6, <1>8, <3>1, <4>1
    <3>2. CASE i \in DOMAIN left
      <4>1. /\ left[i].call # c /\ calls[left[i].call].phase \in {"act", "freeing"}
            /\ \A j \in DOMAIN left : IsReply(left[j], left[i].call) => i = j
        BY <1>8, <2>1, <3>2 DEF Loose
      <4>2. ~IsReply(r, left[i].call)
        BY <1>6, <4>1 DEF IsReply
      <4>3. calls'[left[i].call].phase \in {"act", "freeing"}
        BY <1>2, <1>4, <4>1
      <4> QED BY <1>8, <3>2, <4>1, <4>2, <4>3
    <3> QED BY <1>8, <3>1, <3>2
  <2> QED BY <2>1 DEF Awaited
<1>12. Severed(wire)'
  <2>1. ~debugging => Fails(r)
    BY <1>3, <1>6 DEF Fails
  <2>2. Severed(left) /\ UNCHANGED <<attached, debugging>> /\ (~attached => refs' = {})
    BY DEF Loose, Aside
  <2>3. ~attached => \A i \in DOMAIN wire' : Fails(wire'[i])
    BY <1>8, <2>1, <2>2 DEF Severed
  <2>4. ASSUME NEW i \in DOMAIN wire', wire'[i].type = "detached"
        PROVE  attached /\ ~debugging /\ \A j \in DOMAIN wire' : j > i => Fails(wire'[j])
    <3>1. i \in DOMAIN left
      BY <1>6, <1>8, <2>4
    <3> QED BY <1>8, <2>1, <2>2, <2>4, <3>1 DEF Severed
  <2> QED BY <2>2, <2>3, <2>4 DEF Severed
<1>13. ASSUME NEW d \in Calls PROVE Held(d, wire)'
  <2>1. CASE d = c
    <3>1. handles'[c] # 0 =>
            /\ handles'[c] = 1 /\ debugging /\ k.phase = "act"
            /\ \/ cmd = "resolve" /\ ok
               \/ cmd \notin {"resolve", "release"} /\ k.obj = page.doc
      <4>1. handles \in [Calls -> Nat]
        BY DEF TypeOK
      <4>2. CASE cmd = "resolve"
        <5>1. handles[c] = 0
          BY <4>2 DEF Hands
        <5>2. k.phase = "act"
          BY <4>2 DEF Hands
        <5> QED BY <1>1, <1>3, <4>1, <4>2, <5>1, <5>2
      <4>3. CASE cmd # "resolve"
        BY <1>1, <4>1, <4>3 DEF Hands
      <4> QED BY <4>2, <4>3
    <3>2. page' = page /\ debugging' = debugging
      BY DEF Aside
    <3> QED BY <1>4, <1>6, <1>8, <2>1, <3>1, <3>2 DEF Held, IsReply
  <2>2. CASE d # c
    <3>1. Held(d, left) /\ handles'[d] = handles[d]
      BY <1>1, <2>2 DEF Loose, TypeOK
    <3> QED BY <1>4, <1>8, <2>2, <3>1 DEF Held, Aside
  <2> QED BY <2>1, <2>2
<1>14. RefsCurrent(wire)'
  <2>1. ReportAfter(0, wire') <=> ReportAfter(0, wire)
    BY <1>9 DEF Loose
  <2>2. ASSUME debugging, NEW i \in DOMAIN wire', wire'[i].type = "reply", wire'[i].cmd = "tree",
               wire'[i].ok
        PROVE  wire'[i].doc = page.doc \/ ReportAfter(i, wire')
    BY <1>6, <1>8, <1>9, <2>2 DEF RefsCurrent, Loose
  <2> QED BY <2>1, <2>2 DEF RefsCurrent, Aside
<1>15. ReportsCurrent(wire)'
  BY <1>6, <1>8, <1>9 DEF ReportsCurrent, Loose, Aside
<1>16. ReportAfter(0, wire') <=> ReportAfter(0, wire)
  BY <1>9 DEF Loose
<1> QED BY <1>2, <1>10, <1>11, <1>12, <1>13, <1>14, <1>15, <1>16, MoveKeepsCalls,
           MoveKeepsJudged

LEMMA IdleLoose ==
  ASSUME TabInv, NEW c \in Calls, calls[c].phase \notin {"act", "freeing"}
  PROVE  Loose(c, wire) /\ handles[c] = 0
<1> USE DEF TabInv
<1>1. wire \in Seq(Messages)
  BY DEF TypeOK
<1>2. handles[c] = 0
  BY DEF Held
<1>3. ASSUME NEW i \in DOMAIN wire, wire[i].type = "reply"
      PROVE  /\ wire[i].call # c /\ calls[wire[i].call].phase \in {"act", "freeing"}
             /\ \A j \in DOMAIN wire : IsReply(wire[j], wire[i].call) => i = j
  BY <1>3 DEF Awaited
<1> QED BY <1>1, <1>2, <1>3 DEF Loose

LEMMA AnsweredLoose ==
  ASSUME TabInv, wire # <<>>, Head(wire).type = "reply"
  PROVE  Loose(Head(wire).call, Tail(wire)) /\ Head(wire) \in Replies
<1> USE DEF TabInv
<1>1. wire \in Seq(Messages)
  BY DEF TypeOK
<1>2. PICK c, w : c = wire[1].call /\ w = Tail(wire)
  OBVIOUS
<1>3. /\ Head(wire) = wire[1] /\ 1 \in DOMAIN wire /\ wire[1].type = "reply"
      /\ w \in Seq(Messages)
      /\ \A i \in DOMAIN w : i \in Nat /\ i + 1 \in DOMAIN wire /\ w[i] = wire[i + 1]
      /\ \A i \in DOMAIN wire : i > 1 => i - 1 \in DOMAIN w /\ w[i - 1] = wire[i]
  BY <1>1, <1>2, TailIs
<1>4. \A i \in Nat : ReportAfter(i, w) <=> ReportAfter(i + 1, wire)
  BY <1>1, <1>2, ReportAfterTail
<1>5. ReportAfter(0, w) <=> ReportAfter(0, wire)
  BY <1>1, <1>2, <1>3, ReportAfterHead
<1>6. wire[1] \in Replies
  <2>1. wire[1] \in Messages
    BY <1>1, <1>3
  <2> QED BY <1>3, <2>1 DEF Messages, Reports, Detached
<1>7. ASSUME NEW i \in DOMAIN w, w[i].type = "reply"
      PROVE  /\ w[i].call # c /\ calls[w[i].call].phase \in {"act", "freeing"}
             /\ \A j \in DOMAIN w : IsReply(w[j], w[i].call) => i = j
  <2>1. /\ calls[wire[i + 1].call].phase \in {"act", "freeing"}
        /\ \A j \in DOMAIN wire : IsReply(wire[j], wire[i + 1].call) => i + 1 = j
    BY <1>3, <1>7 DEF Awaited
  <2>2. i + 1 # 1
    BY <1>3
  <2>3. wire[i + 1].call # c
    BY <1>2, <1>3, <2>1, <2>2 DEF IsReply
  <2> QED BY <1>3, <2>1, <2>3
<1>8. Severed(w)
  BY <1>3 DEF Severed
<1>9. ASSUME NEW d \in Calls \ {c} PROVE Held(d, w)
  <2>1. SUFFICES ASSUME handles[d] # 0 PROVE Held(d, w)
    BY DEF Held
  <2>2. /\ handles[d] = 1 /\ debugging /\ calls[d].phase = "act"
        /\ \E i \in DOMAIN wire :
             /\ IsReply(wire[i], d)
             /\ \/ wire[i].cmd = "resolve" /\ wire[i].ok /\ wire[i].doc = page.doc
                \/ wire[i].cmd \notin {"resolve", "release"} /\ calls[d].obj = page.doc
    BY <2>1 DEF Held
  <2>3. PICK i \in DOMAIN wire :
             /\ IsReply(wire[i], d)
             /\ \/ wire[i].cmd = "resolve" /\ wire[i].ok /\ wire[i].doc = page.doc
                \/ wire[i].cmd \notin {"resolve", "release"} /\ calls[d].obj = page.doc
    BY <2>2
  <2>4. i > 1
    BY <1>1, <1>2, <2>3 DEF IsReply
  <2>5. i - 1 \in DOMAIN w /\ w[i - 1] = wire[i]
    BY <1>3, <2>4
  <2> QED BY <2>2, <2>3, <2>5 DEF Held
<1>10. RefsCurrent(w)
  <2>1. ASSUME debugging, NEW i \in DOMAIN w, w[i].type = "reply", w[i].cmd = "tree", w[i].ok
        PROVE  w[i].doc = page.doc \/ ReportAfter(i, w)
    BY <1>3, <1>4, <2>1 DEF RefsCurrent
  <2> QED BY <1>5, <2>1 DEF RefsCurrent
<1>11. ReportsCurrent(w)
  BY <1>3, <1>4 DEF ReportsCurrent
<1> QED BY <1>2, <1>3, <1>5, <1>6, <1>7, <1>8, <1>9, <1>10, <1>11 DEF Loose

LEMMA ArmedAside ==
  ASSUME TypeOK, NEW k \in CallRecords, Armed(k)
  PROVE  /\ views' \in [Grants -> ViewsOver(Origins \cup {"unknown"})]
         /\ \A g \in Grants : /\ views'[g].origin = views[g].origin
                              /\ views'[g].suspended = views[g].suspended
<1>1. CASE Arms(k.kind, k.pc)
  <2>1. PICK g : g = k.grant /\ views' = [views EXCEPT ![g].window = TRUE]
    BY <1>1 DEF Armed
  <2>2. PICK Seen : Seen = Origins \cup {"unknown"}
    OBVIOUS
  <2>3. views' \in [Grants -> ViewsOver(Seen)]
    <3>1. views \in [Grants -> ViewsOver(Seen)]
      BY <2>2 DEF TypeOK
    <3> QED BY <2>1, <3>1 DEF ViewsOver
  <2>4. \A h \in Grants : /\ views'[h].origin = views[h].origin
                          /\ views'[h].suspended = views[h].suspended
    BY <2>1 DEF TypeOK, ViewsOver
  <2> QED BY <2>2, <2>3, <2>4
<1>2. CASE ~Arms(k.kind, k.pc)
  BY <1>2 DEF Armed, TypeOK
<1> QED BY <1>1, <1>2

LEMMA RestedTyped ==
  ASSUME NEW k \in CallRecords, NEW n \in RefSet, NEW i \in Int, NEW q,
         q = [k EXCEPT !.phase = "ready", !.pc = 0, !.ref = n, !.obj = 0, !.at = i]
  PROVE  q \in CallRecords
  BY DEF CallRecords, Phases

LEMMA RestedIs ==
  ASSUME NEW k \in CallRecords
  PROVE  \E q \in CallRecords :
           /\ q = Rested(k) /\ q.phase = "ready" /\ q.obj = 0 /\ q.pc = 0 /\ q.at = 0
           /\ q.tool = k.tool /\ q.grant = k.grant /\ q.noisy = k.noisy /\ q.kind = k.kind
<1>1. NoRef \in RefSet
  BY DEF NoRef, RefSet
<1>2. PICK q : q = Rested(k)
  OBVIOUS
<1>3. q = [k EXCEPT !.phase = "ready", !.pc = 0, !.ref = NoRef, !.obj = 0, !.at = 0]
  BY <1>2 DEF Rested
<1>4. q \in CallRecords
  <2>1. 0 \in Int
    OBVIOUS
  <2> QED BY <1>1, <1>3, <2>1, RestedTyped
<1>5. /\ q.phase = "ready" /\ q.obj = 0 /\ q.pc = 0 /\ q.at = 0
      /\ q.tool = k.tool /\ q.grant = k.grant /\ q.noisy = k.noisy /\ q.kind = k.kind
  BY <1>3 DEF CallRecords
<1> QED BY <1>2, <1>4, <1>5

(* A call the worker has in hand, about to run the next script.            *)
Runnable(c, k) ==
    /\ calls[c].phase \in {"ready", "paused"}
    /\ k \in CallRecords /\ k.grant = calls[c].grant
    /\ k.kind # "none" /\ k.obj = 0 /\ ~k.noisy
    /\ k.tool \notin {"none", "settle"}

LEMMA RunnableIdle ==
  ASSUME TabInv, NEW c \in Calls, NEW k, Runnable(c, k)
  PROVE  Loose(c, wire) /\ handles[c] = 0
  BY IdleLoose DEF Runnable

LEMMA RefsStay ==
  ASSUME TabInv, refs' = refs
  PROVE  /\ refs' \subseteq RefSet
         /\ ~attached => refs' = {}
         /\ debugging => \A q \in refs' : q.doc = page.doc \/ ReportAfter(0, wire)
  BY DEF TabInv, TypeOK, Severed, RefsCurrent

(* The script is not started: no such element, or writes are suspended.    *)
LEMMA GivesUpKeeps ==
  ASSUME TabInv, NEW c \in Calls, NEW k, Runnable(c, k),
         Rests(c, [Rested(k) EXCEPT !.failed = TRUE], wire),
         UNCHANGED <<page, debugging, attached, generation, refs, issued, bound, blind, runs>>
  PROVE  TabInv'
<1>1. PICK p \in CallRecords :
        /\ p = Rested(k) /\ p.phase = "ready" /\ p.obj = 0
        /\ p.tool = k.tool /\ p.grant = k.grant /\ p.noisy = k.noisy
  BY RestedIs DEF Runnable
<1>2. PICK q : q = [Rested(k) EXCEPT !.failed = TRUE]
  OBVIOUS
<1>3. /\ q \in CallRecords /\ q.phase = "ready" /\ q.obj = 0
      /\ q.tool = k.tool /\ q.grant = k.grant /\ q.noisy = k.noisy
  BY <1>1, <1>2 DEF CallRecords
<1>4. Aside
  BY RefsStay DEF TabInv, Rests, Aside, TypeOK
<1>5. Fit(c, q)
  BY <1>3 DEF Fit, InScript, Runnable
<1> QED BY <1>2, <1>3, <1>4, <1>5, RunnableIdle, RestKeeps

LEMMA StartsKeeps ==
  ASSUME TabInv, NEW c \in Calls, NEW k, Runnable(c, k), Justified(k), Starts(c, k),
         UNCHANGED <<page, debugging, attached, generation, refs, issued, bound, blind, runs>>
  PROVE  TabInv'
<1>1. Loose(c, wire) /\ handles[c] = 0
  BY RunnableIdle
<1>2. TypeOK /\ refs \subseteq RefSet
  BY DEF TabInv, TypeOK
<1>3. PICK ref \in RefSet :
        IF ref = NoRef \/ Resolves(ref)
        THEN Step(c, [k EXCEPT !.pc = 1, !.ref = ref, !.failed = FALSE], wire)
        ELSE Rests(c, [Rested(k) EXCEPT !.failed = TRUE], wire)
  <2>1. NoRef \in RefSet /\ Stale \in RefSet
    BY DEF NoRef, Stale, RefSet
  <2> QED BY <1>2, <2>1 DEF Starts
<1>4. CASE Step(c, [k EXCEPT !.pc = 1, !.ref = ref, !.failed = FALSE], wire)
  <2>1. PICK q : q = [k EXCEPT !.pc = 1, !.ref = ref, !.failed = FALSE, !.phase = "act"]
    OBVIOUS
  <2>2. /\ q \in CallRecords /\ q.phase = "act" /\ q.pc = 1
        /\ q.kind = k.kind /\ q.obj = 0 /\ q.tool = k.tool /\ q.grant = k.grant
        /\ q.at = k.at /\ q.noisy = k.noisy
    BY <2>1 DEF Runnable, CallRecords, Phases
  <2>3. k.kind \in AllKinds /\ k.kind = [k EXCEPT !.pc = 1, !.ref = ref, !.failed = FALSE].kind
        /\ [k EXCEPT !.pc = 1, !.ref = ref, !.failed = FALSE] \in CallRecords
        /\ [k EXCEPT !.pc = 1, !.ref = ref, !.failed = FALSE].pc = 1
    BY DEF Runnable, CallRecords
  <2>4. Sendable(Script(k.kind))
    BY <2>3, ScriptsOK
  <2>5. PICK cmd : cmd = Script(k.kind)[1]
    OBVIOUS
  <2>6. cmd \in Commands /\ 1 \in 1 .. Len(Script(k.kind))
    BY <2>4, <2>5 DEF Sendable
  <2>7. Sends(c, q, cmd, wire)
    BY <1>4, <2>1, <2>3, <2>5 DEF Step
  <2>8. Aside
    BY <1>2, <1>4, <2>3, RefsStay, ArmedAside DEF Step, Aside
  <2>9. Fit(c, q)
    BY <2>2, <2>6 DEF Fit, InScript, Runnable, Justified
  <2>10. Hands(c, q, cmd)
    BY <1>1, <2>2 DEF Hands
  <2> QED BY <1>1, <2>2, <2>6, <2>7, <2>8, <2>9, <2>10, SendKeeps
<1>5. CASE Rests(c, [Rested(k) EXCEPT !.failed = TRUE], wire)
  BY <1>5, GivesUpKeeps
<1> QED BY <1>3, <1>4, <1>5

LEMMA EndedIs ==
  ASSUME NEW k \in CallRecords, NEW q, q = Ended(k)
  PROVE  /\ q \in CallRecords /\ q.phase = "ended" /\ q.grant = k.grant
         /\ q.tool = "none" /\ q.obj = 0 /\ ~q.noisy
<1>1. k.grant \in Grants \cup {"nobody"} /\ NoRef \in RefSet /\ 0 \in Int
  BY DEF CallRecords, NoRef, RefSet
<1>2. PICK i \in Int, n \in RefSet : i = 0 /\ n = NoRef
  BY <1>1
<1>3. q = [phase |-> "ended", grant |-> k.grant, tool |-> "none", kind |-> "none",
           pc |-> 0, acts |-> 0, ref |-> n, obj |-> 0, failed |-> FALSE,
           expired |-> FALSE, noisy |-> FALSE, at |-> i]
  BY <1>2 DEF Ended, Unused
<1> QED BY <1>1, <1>3 DEF CallRecords, Phases

LEMMA StartActionKeeps ==
  ASSUME TabInv, NEW c \in Calls, StartAction(c) PROVE TabInv'
<1> USE DEF TabInv
<1>1. calls[c] \in CallRecords /\ calls[c].phase = "ready" /\ InScript(calls[c])
  BY DEF StartAction, TypeOK
<1>2. page.doc \in Nat /\ Unreported \in Nat /\ (Unreported = 0 <=> ~ReportAfter(0, wire))
  BY UnreportedIs DEF TypeOK
<1>3. PICK n \in Int : n = page.doc - Unreported
  BY <1>2
<1>4. PICK k \in Offered(calls[c].tool) :
        LET call == [calls[c] EXCEPT !.kind = k, !.acts = @ + 1, !.at = n]
        IN  IF Writable(c) \/ k = "observe" THEN Starts(c, call)
            ELSE Rests(c, [Rested(call) EXCEPT !.failed = TRUE], wire)
  BY <1>3 DEF StartAction
<1>5. PICK q : q = [calls[c] EXCEPT !.kind = k, !.acts = @ + 1, !.at = n]
  OBVIOUS
<1>6. /\ calls[c].tool \notin {"none", "settle"}
      /\ k \in AllKinds
  <2>1. calls[c].tool \in ToolNames
    BY <1>1 DEF InScript, CallRecords
  <2>2. calls[c].tool \in {"act", "navigate", "observe"} /\ k \in AllKinds
    BY <1>4, <2>1 DEF ToolNames, Offered, AllKinds, Writes
  <2> QED BY <2>2
<1>7. PICK a \in Nat : a = calls[c].acts + 1
  BY <1>1 DEF CallRecords
<1>8. q = [calls[c] EXCEPT !.kind = k, !.acts = a, !.at = n]
  BY <1>5, <1>7
<1>9. /\ q \in CallRecords
      /\ q.kind = k /\ q.at = n /\ q.grant = calls[c].grant /\ q.tool = calls[c].tool
      /\ q.noisy = calls[c].noisy /\ q.obj = calls[c].obj
  BY <1>1, <1>6, <1>8 DEF CallRecords
<1>10. Runnable(c, q)
  <2>1. k # "none"
    BY <1>6 DEF AllKinds, Writes, ActKinds, NavKinds, Checks
  <2> QED BY <1>1, <1>6, <1>9, <2>1 DEF Runnable, InScript
<1>11. UNCHANGED <<page, debugging, attached, generation, refs, issued, bound, blind, runs>>
  BY DEF StartAction, tabVars
<1>12. CASE Writable(c) \/ k = "observe"
  <2>1. Justified(q)
    <3>1. SUFFICES ASSUME k \in Writes, q.grant \in bound \ blind
                   PROVE  \/ n < page.doc
                          \/ n = page.doc /\ Authorized(q.grant) /\ ~ReportAfter(0, wire)
      BY <1>9 DEF Justified
    <3>2. Writable(c)
      BY <1>12, <3>1 DEF Writes, ActKinds, NavKinds
    <3>3. CASE Unreported = 0
      BY <1>2, <1>3, <1>9, <3>1, <3>2, <3>3 DEF ViewsCurrent, Authorized, Writable
    <3>4. CASE Unreported # 0
      BY <1>2, <1>3, <3>4
    <3> QED BY <3>3, <3>4
  <2> QED BY <1>4, <1>5, <1>10, <1>11, <1>12, <2>1, StartsKeeps
<1>13. CASE ~(Writable(c) \/ k = "observe")
  BY <1>4, <1>5, <1>10, <1>11, <1>13, GivesUpKeeps
<1> QED BY <1>12, <1>13

LEMMA PollsKeeps ==
  ASSUME TabInv, NEW c \in Calls, Polls(c) PROVE TabInv'
<1> USE DEF TabInv
<1>1. calls[c] \in CallRecords /\ calls[c].phase \in {"ready", "paused"} /\ InScript(calls[c])
  BY DEF Polls, TypeOK
<1>2. UNCHANGED <<page, debugging, attached, generation, refs, issued, bound, blind, runs>>
  BY DEF Polls, tabVars
<1>3. calls[c].tool \notin {"none", "settle"} /\ ~calls[c].noisy
  BY <1>1 DEF Polls, InScript, ActKinds
<1>4. CASE calls[c].tool = "wait" /\ calls[c].expired
  <2>1. Rests(c, Ended(calls[c]), wire)
    BY <1>4 DEF Polls
  <2>2. PICK q : q = Ended(calls[c])
    OBVIOUS
  <2>3. /\ q \in CallRecords /\ q.phase = "ended" /\ q.grant = calls[c].grant
        /\ q.tool = "none" /\ q.obj = 0 /\ ~q.noisy
    BY <1>1, <2>2, EndedIs
  <2>4. Aside
    BY <1>2, <2>1, RefsStay DEF Rests, Aside, TypeOK
  <2>5. Fit(c, q)
    BY <1>1, <2>3 DEF Fit, InScript
  <2>6. Loose(c, wire) /\ handles[c] = 0
    BY <1>1, IdleLoose
  <2> QED BY <2>1, <2>2, <2>3, <2>4, <2>5, <2>6, RestKeeps
<1>5. CASE ~(calls[c].tool = "wait" /\ calls[c].expired)
  <2>0. PICK k \in Checks \cup {"wait"} : Starts(c, [calls[c] EXCEPT !.kind = k])
    BY <1>5 DEF Polls
  <2>1. PICK q : q = [calls[c] EXCEPT !.kind = k]
    OBVIOUS
  <2>2. /\ q \in CallRecords /\ q.kind \in Checks \cup {"wait"}
        /\ q.grant = calls[c].grant /\ q.tool = calls[c].tool
        /\ q.noisy = calls[c].noisy /\ q.obj = calls[c].obj
    BY <1>1, <2>1 DEF CallRecords, AllKinds
  <2>3. Runnable(c, q)
    BY <1>1, <1>3, <2>2 DEF Runnable, InScript, Checks
  <2>4. Justified(q)
    BY <2>2 DEF Justified, Writes, ActKinds, NavKinds, Checks
  <2>5. Starts(c, q)
    BY <2>0, <2>1
  <2> QED BY <1>2, <2>3, <2>4, <2>5, StartsKeeps
<1> QED BY <1>4, <1>5

(* A call that has had its reply, and still knows of any object it holds.  *)
Answered(c, k, left) ==
    /\ Loose(c, left)
    /\ k \in CallRecords /\ k.grant = calls[c].grant /\ calls[c].phase # "none"
    /\ k.tool \notin {"none", "settle"} /\ ~k.noisy
    /\ handles[c] # 0 => handles[c] = 1 /\ debugging /\ k.obj = page.doc

LEMMA RestsAfterKeeps ==
  ASSUME TabInv, NEW c \in Calls, NEW k, NEW left, Answered(c, k, left), Aside,
         handles[c] = 0, Rests(c, Rested(k), left)
  PROVE  TabInv'
<1>1. PICK q \in CallRecords :
        /\ q = Rested(k) /\ q.phase = "ready" /\ q.obj = 0
        /\ q.tool = k.tool /\ q.grant = k.grant /\ q.noisy = k.noisy
  BY RestedIs DEF Answered
<1>2. Fit(c, q)
  BY <1>1 DEF Fit, InScript, Answered
<1> QED BY <1>1, <1>2, RestKeeps DEF Answered

LEMMA ClosesKeeps ==
  ASSUME TabInv, NEW c \in Calls, NEW k, NEW left, Answered(c, k, left), Aside,
         Closes(c, k, left)
  PROVE  TabInv'
<1>1. CASE k.obj # 0
  <2>1. PICK q : q = [k EXCEPT !.phase = "freeing"]
    OBVIOUS
  <2>2. /\ q \in CallRecords /\ q.phase = "freeing" /\ q.grant = k.grant
        /\ q.tool = k.tool /\ q.noisy = k.noisy /\ q.obj = k.obj
    BY <2>1 DEF Answered, CallRecords, Phases
  <2>3. Fit(c, q) /\ Hands(c, q, "release")
    BY <2>2 DEF Fit, InScript, Hands, Answered
  <2>4. Sends(c, q, "release", left) /\ "release" \in Commands
    BY <1>1, <2>1 DEF Closes, Commands
  <2> QED BY <2>2, <2>3, <2>4, SendKeeps DEF Answered
<1>2. CASE k.obj = 0
  <2>1. handles[c] = 0
    BY <1>2 DEF Answered, TabInv, TypeOK
  <2> QED BY <1>2, <2>1, RestsAfterKeeps DEF Closes
<1> QED BY <1>1, <1>2

LEMMA HandleReplyKeeps ==
  ASSUME TabInv, HandleReply PROVE TabInv'
<1> USE DEF TabInv
<1>1. TypeOK /\ wire \in Seq(Messages) /\ wire # <<>> /\ Head(wire).type = "reply"
  BY DEF HandleReply, TypeOK
<1>2. PICK m \in Replies : m = Head(wire) /\ m = wire[1] /\ 1 \in DOMAIN wire
  BY <1>1, AnsweredLoose, TailIs
<1>3. PICK c \in Calls : c = m.call
  BY DEF Replies
<1>4. PICK left : left = Tail(wire) /\ Loose(c, left)
  BY <1>1, <1>2, <1>3, AnsweredLoose
<1>5. PICK k : k = [calls[c] EXCEPT !.obj = CASE m.cmd = "resolve" /\ m.ok -> m.doc
                                             [] m.cmd = "release" -> 0
                                             [] OTHER -> @]
  OBVIOUS
<1>6. calls[c] \in CallRecords /\ calls[c].phase \in {"act", "freeing"} /\ InScript(calls[c])
  BY <1>2, <1>3 DEF Awaited, TypeOK, Replies
<1>7. /\ k \in CallRecords
      /\ k.phase = calls[c].phase /\ k.grant = calls[c].grant /\ k.tool = calls[c].tool
      /\ k.kind = calls[c].kind /\ k.pc = calls[c].pc /\ k.at = calls[c].at
      /\ k.noisy = calls[c].noisy
      /\ k.obj = CASE m.cmd = "resolve" /\ m.ok -> m.doc
                   [] m.cmd = "release" -> 0
                   [] OTHER -> calls[c].obj
  BY <1>5, <1>6 DEF CallRecords, Replies
<1>8. handles[c] # 0 => /\ handles[c] = 1 /\ debugging /\ k.obj = page.doc
                        /\ calls[c].phase = "act"
  <2>1. SUFFICES ASSUME handles[c] # 0
                 PROVE  /\ handles[c] = 1 /\ debugging /\ k.obj = page.doc
                        /\ calls[c].phase = "act"
    OBVIOUS
  <2>2. /\ handles[c] = 1 /\ debugging /\ calls[c].phase = "act"
        /\ \E i \in DOMAIN wire :
             /\ IsReply(wire[i], c)
             /\ \/ wire[i].cmd = "resolve" /\ wire[i].ok /\ wire[i].doc = page.doc
                \/ wire[i].cmd \notin {"resolve", "release"} /\ calls[c].obj = page.doc
    BY <2>1 DEF Held
  <2>3. PICK i \in DOMAIN wire :
             /\ IsReply(wire[i], c)
             /\ \/ wire[i].cmd = "resolve" /\ wire[i].ok /\ wire[i].doc = page.doc
                \/ wire[i].cmd \notin {"resolve", "release"} /\ calls[c].obj = page.doc
    BY <2>2
  <2>4. i = 1
    BY <1>1, <1>2, <1>3, <2>3 DEF Awaited, IsReply
  <2> QED BY <1>2, <1>7, <2>2, <2>3, <2>4
<1>9. Answered(c, k, left)
  BY <1>4, <1>6, <1>7, <1>8 DEF Answered, InScript
<1> DEFINE registered == IF m.cmd = "tree" /\ m.ok
                         THEN {[doc |-> m.doc, generation |-> generation]} ELSE {}
<1>10. refs' = refs \cup registered
  BY <1>2 DEF HandleReply
<1>11. /\ refs' \subseteq RefSet /\ (~attached => refs' = {})
       /\ debugging => \A q \in refs' : q.doc = page.doc \/ ReportAfter(0, wire)
  <2>1. refs' \subseteq RefSet
    BY <1>1, <1>10 DEF TypeOK, RefSet, Replies
  <2>2. ~attached => refs' = {}
    BY <1>2, <1>10 DEF Severed, Fails
  <2>3. debugging /\ m.cmd = "tree" /\ m.ok => m.doc = page.doc \/ ReportAfter(0, wire)
    <3>1. ReportAfter(1, wire) => ReportAfter(0, wire)
      BY <1>1 DEF ReportAfter
    <3> QED BY <1>1, <1>2, <3>1 DEF RefsCurrent
  <2>4. debugging => \A q \in refs : q.doc = page.doc \/ ReportAfter(0, wire)
    BY DEF RefsCurrent
  <2> QED BY <1>10, <2>1, <2>2, <2>3, <2>4
<1>12. UNCHANGED <<page, debugging, attached, generation, issued, bound, blind, runs>>
  BY DEF HandleReply
<1>13. ASSUME UNCHANGED views PROVE Aside
  BY <1>1, <1>11, <1>12, <1>13 DEF Aside, TypeOK
<1>14. CASE k.phase = "freeing"
  <2>1. Rests(c, Rested(k), left)
    BY <1>2, <1>3, <1>4, <1>5, <1>14 DEF HandleReply
  <2> QED BY <1>6, <1>7, <1>8, <1>9, <1>13, <1>14, <2>1, RestsAfterKeeps DEF Rests
<1>15. CASE k.phase = "act" /\ ~m.ok /\ m.cmd \notin Forgiven
  <2>1. PICK q : q = [k EXCEPT !.failed = TRUE]
    OBVIOUS
  <2>2. Closes(c, q, left)
    BY <1>2, <1>3, <1>4, <1>5, <1>15, <2>1 DEF HandleReply
  <2>3. Answered(c, q, left)
    <3>1. /\ q \in CallRecords /\ q.grant = k.grant /\ q.tool = k.tool
          /\ q.noisy = k.noisy /\ q.obj = k.obj
      BY <1>7, <2>1 DEF CallRecords
    <3> QED BY <1>9, <3>1 DEF Answered
  <2> QED BY <1>13, <2>2, <2>3, ClosesKeeps DEF Closes, Rests
<1>16. CASE /\ k.phase = "act" /\ (m.ok \/ m.cmd \in Forgiven)
            /\ k.pc < Len(Script(k.kind))
  <2>1. PICK q : q = [k EXCEPT !.pc = @ + 1]
    OBVIOUS
  <2>2. Step(c, q, left)
    BY <1>2, <1>3, <1>4, <1>5, <1>16, <2>1 DEF HandleReply
  <2>3. /\ q \in CallRecords /\ q.grant = k.grant /\ q.tool = k.tool /\ q.at = k.at
        /\ q.noisy = k.noisy /\ q.obj = k.obj /\ q.pc = k.pc + 1 /\ q.kind = k.kind
        /\ q.phase = "act" /\ q = [q EXCEPT !.phase = "act"]
    <3>1. PICK a \in Nat : a = k.pc + 1
      BY <1>7 DEF CallRecords
    <3>2. q = [k EXCEPT !.pc = a]
      BY <2>1, <3>1
    <3>3. /\ q \in CallRecords /\ q.grant = k.grant /\ q.tool = k.tool /\ q.at = k.at
          /\ q.noisy = k.noisy /\ q.obj = k.obj /\ q.pc = a /\ q.kind = k.kind
          /\ q.phase = "act"
      BY <1>7, <1>16, <3>2 DEF CallRecords
    <3>4. q = [q EXCEPT !.phase = "act"]
      BY <3>3 DEF CallRecords
    <3> QED BY <3>1, <3>3, <3>4
  <2>4. /\ k.kind # "none" /\ k.kind \in AllKinds /\ k.pc \in 1 .. Len(Script(k.kind))
        /\ Sendable(Script(k.kind))
    BY <1>6, <1>7, <1>16, ScriptsOK DEF InScript, CallRecords
  <2>5. PICK cmd : cmd = Script(q.kind)[q.pc]
    OBVIOUS
  <2>6. cmd \in Commands /\ cmd # "resolve" /\ q.pc \in 1 .. Len(Script(q.kind))
    BY <1>16, <2>3, <2>4, <2>5 DEF Sendable
  <2>7. Sends(c, q, cmd, left)
    BY <2>2, <2>3, <2>5 DEF Step
  <2>8. Aside
    BY <1>1, <1>11, <1>12, <2>2, <2>3, ArmedAside DEF Step, Aside
  <2>9. Justified(q)
    BY <1>7, <1>16, <2>3 DEF WriteJudged, Justified
  <2>10. Fit(c, q)
    BY <1>9, <2>3, <2>4, <2>6, <2>9 DEF Fit, InScript, Answered
  <2>11. Hands(c, q, cmd)
    BY <1>8, <2>3, <2>6 DEF Hands
  <2> QED BY <1>4, <2>3, <2>6, <2>7, <2>8, <2>10, <2>11, SendKeeps
<1>17. CASE /\ k.phase = "act" /\ (m.ok \/ m.cmd \in Forgiven)
            /\ ~(k.pc < Len(Script(k.kind)))
  <2>1. Closes(c, k, left)
    BY <1>2, <1>3, <1>4, <1>5, <1>17 DEF HandleReply
  <2> QED BY <1>9, <1>13, <2>1, ClosesKeeps DEF Closes, Rests
<1> QED BY <1>6, <1>7, <1>14, <1>15, <1>16, <1>17

(* The worker moves a call it has in hand, and nothing else.               *)
LEMMA InHandKeeps ==
  ASSUME TabInv, NEW c \in Calls, calls[c].phase \in {"ready", "paused"},
         NEW k \in CallRecords, k.phase \in {"ready", "paused", "ended"},
         InScript(k), k.grant = calls[c].grant, calls' = [calls EXCEPT ![c] = k],
         UNCHANGED <<page, debugging, wire, attached, generation, refs, issued, bound, views,
                     blind, credit, handles, runs>>
  PROVE  TabInv'
<1>1. Loose(c, wire) /\ handles[c] = 0
  BY IdleLoose
<1>2. Aside
  BY RefsStay DEF Aside, TabInv, TypeOK
<1>3. Fit(c, k)
  BY DEF Fit
<1>4. Rests(c, k, wire)
  BY DEF Rests
<1> QED BY <1>1, <1>2, <1>3, <1>4, RestKeeps

LEMMA EndsKeeps ==
  ASSUME TabInv, NEW c \in Calls, Ends(c) \/ Pauses(c) \/ Settles(c) PROVE TabInv'
<1>1. /\ calls[c] \in CallRecords /\ calls[c].phase \in {"ready", "paused"}
      /\ InScript(calls[c]) /\ calls \in [Calls -> CallRecords]
  BY DEF TabInv, TypeOK, Ends, Pauses, Settles
<1>2. UNCHANGED <<page, debugging, wire, attached, generation, refs, issued, bound, views,
                  blind, credit, handles, runs>>
  BY DEF Ends, Pauses, Settles, tabVars, grantVars
<1>3. CASE calls' = [calls EXCEPT ![c] = Ended(calls[c])]
  <2>1. PICK q : q = Ended(calls[c])
    OBVIOUS
  <2>2. /\ q \in CallRecords /\ q.phase = "ended" /\ q.grant = calls[c].grant
        /\ q.tool = "none" /\ q.obj = 0 /\ ~q.noisy
    BY <1>1, <2>1, EndedIs
  <2> QED BY <1>1, <1>2, <1>3, <2>1, <2>2, InHandKeeps DEF InScript
<1>4. CASE calls' = [calls EXCEPT ![c] = [calls[c] EXCEPT !.phase = "paused"]]
  <2>1. PICK q : q = [calls[c] EXCEPT !.phase = "paused"]
    OBVIOUS
  <2>2. /\ q \in CallRecords /\ q.phase = "paused"
        /\ q.grant = calls[c].grant /\ q.obj = calls[c].obj
        /\ q.tool = calls[c].tool /\ q.kind = calls[c].kind /\ q.noisy = calls[c].noisy
    BY <1>1, <2>1 DEF CallRecords, Phases
  <2> QED BY <1>1, <1>2, <1>4, <2>1, <2>2, InHandKeeps DEF InScript
<1>5. CASE calls' = [calls EXCEPT ![c] = [calls[c] EXCEPT !.phase = "paused", !.noisy = FALSE]]
  <2>1. PICK q : q = [calls[c] EXCEPT !.phase = "paused", !.noisy = FALSE]
    OBVIOUS
  <2>2. /\ q \in CallRecords /\ q.phase = "paused"
        /\ q.grant = calls[c].grant /\ q.obj = calls[c].obj
        /\ q.tool = calls[c].tool /\ q.kind = calls[c].kind /\ ~q.noisy
    BY <1>1, <2>1 DEF CallRecords, Phases
  <2> QED BY <1>1, <1>2, <1>5, <2>1, <2>2, InHandKeeps DEF InScript
<1>6. CASE Ends(c)
  BY <1>3, <1>6 DEF Ends
<1>7. CASE Pauses(c)
  BY <1>1, <1>4, <1>7 DEF Pauses
<1>8. CASE Settles(c)
  BY <1>3, <1>5, <1>8 DEF Settles
<1> QED BY <1>6, <1>7, <1>8

(* Only what the invariant does not look at changes.                       *)
LEMMA AsideCallsKeep ==
  ASSUME TabInv, calls' \in [Calls -> CallRecords],
         \A d \in Calls :
           /\ calls'[d].phase = calls[d].phase /\ calls'[d].grant = calls[d].grant
           /\ calls'[d].kind = calls[d].kind /\ calls'[d].obj = calls[d].obj
           /\ calls'[d].at = calls[d].at /\ InScript(calls'[d]),
         UNCHANGED <<page, debugging, wire, attached, generation, refs, issued, bound, views,
                     blind, credit, handles, runs>>
  PROVE  TabInv'
<1> USE DEF TabInv
<1>1. TypeOK'
  BY DEF TypeOK
<1>2. bound \subseteq Grants /\ wire \in Seq(Messages)
  BY DEF TypeOK
<1>3. Baselined' /\ Executed'
  BY <1>2 DEF Baselined, Executed
<1>4. Awaited(wire)'
  <2>1. ASSUME NEW i \in DOMAIN wire, wire[i].type = "reply" PROVE wire[i].call \in Calls
    <3>1. wire[i] \in Messages
      BY <1>2
    <3> QED BY <2>1, <3>1 DEF Messages, Replies, Reports, Detached
  <2> QED BY <2>1 DEF Awaited
<1>5. Severed(wire)' /\ RefsCurrent(wire)' /\ ReportsCurrent(wire)' /\ ViewsCurrent(wire)'
  BY DEF Severed, RefsCurrent, ReportsCurrent, ViewsCurrent
<1>6. \A d \in Calls : Held(d, wire)' /\ WriteJudged(d, wire)'
  BY DEF Held, WriteJudged, Authorized
<1>7. \A d \in Calls : InScript(calls[d])'
  BY DEF InScript
<1> QED BY <1>1, <1>3, <1>4, <1>5, <1>6, <1>7

LEMMA ExpiresKeeps ==
  ASSUME TabInv, NEW c \in Calls, Expires(c) \/ PageChanges(c) PROVE TabInv'
<1>1. calls \in [Calls -> CallRecords] /\ \A d \in Calls : InScript(calls[d])
  BY DEF TabInv, TypeOK
<1>2. UNCHANGED <<page, debugging, wire, attached, generation, refs, issued, bound, views,
                  blind, credit, handles, runs>>
  BY DEF Expires, PageChanges, tabVars, grantVars
<1>3. CASE Expires(c)
  <2>1. PICK q : q = [calls[c] EXCEPT !.expired = TRUE]
    OBVIOUS
  <2>2. calls' = [calls EXCEPT ![c] = q]
    BY <1>3, <2>1 DEF Expires
  <2>3. /\ q \in CallRecords /\ q.phase = calls[c].phase /\ q.grant = calls[c].grant
        /\ q.kind = calls[c].kind /\ q.obj = calls[c].obj /\ q.at = calls[c].at
        /\ q.pc = calls[c].pc /\ q.tool = calls[c].tool /\ q.noisy = calls[c].noisy
    <3>1. calls[c] \in CallRecords
      BY <1>1
    <3> QED BY <2>1, <3>1 DEF CallRecords
  <2>4. /\ calls' \in [Calls -> CallRecords]
        /\ \A d \in Calls : calls'[d] = IF d = c THEN q ELSE calls[d]
    BY <1>1, <2>2, <2>3
  <2>5. \A d \in Calls : InScript(calls'[d])
    BY <1>1, <2>3, <2>4 DEF InScript
  <2> QED BY <1>2, <2>3, <2>4, <2>5, AsideCallsKeep
<1>4. CASE PageChanges(c)
  <2>1. calls' = [calls EXCEPT ![c].noisy = TRUE] /\ calls[c].tool = "settle"
    BY <1>4 DEF PageChanges
  <2>2. calls' \in [Calls -> CallRecords]
    BY <1>1, <2>1, ZenonT(60) DEF CallRecords
  <2>3. ASSUME NEW d \in Calls
        PROVE  /\ calls'[d].phase = calls[d].phase /\ calls'[d].grant = calls[d].grant
               /\ calls'[d].kind = calls[d].kind /\ calls'[d].obj = calls[d].obj
               /\ calls'[d].at = calls[d].at /\ calls'[d].pc = calls[d].pc
               /\ calls'[d].tool = calls[d].tool
               /\ calls'[d].noisy = calls[d].noisy \/ calls'[d].tool = "settle"
    BY <1>1, <2>1 DEF CallRecords
  <2>4. \A d \in Calls : InScript(calls'[d])
    BY <1>1, <2>3 DEF InScript
  <2> QED BY <1>2, <2>2, <2>3, <2>4, AsideCallsKeep
<1> QED BY <1>3, <1>4

LEMMA TypedStart ==
  /\ Unused \in CallRecords /\ Unused.phase = "none" /\ Unused.grant = "nobody"
  /\ Unused.obj = 0 /\ Unused.tool = "none" /\ ~Unused.noisy
<1>1. NoRef \in RefSet /\ 0 \in Int
  BY DEF NoRef, RefSet
<1>2. PICK i \in Int, n \in RefSet : i = 0 /\ n = NoRef
  BY <1>1
<1>3. PICK q : q = Unused
  OBVIOUS
<1>4. q = [phase |-> "none", grant |-> "nobody", tool |-> "none", kind |-> "none",
           pc |-> 0, acts |-> 0, ref |-> n, obj |-> 0, failed |-> FALSE,
           expired |-> FALSE, noisy |-> FALSE, at |-> i]
  BY <1>2, <1>3 DEF Unused
<1>5. /\ q \in CallRecords /\ q.phase = "none" /\ q.grant = "nobody"
      /\ q.obj = 0 /\ q.tool = "none" /\ ~q.noisy
  BY <1>4 DEF CallRecords, Phases
<1> QED BY <1>3, <1>5

LEMMA InitInv == Init => TabInv
<1> SUFFICES ASSUME Init PROVE TabInv
  OBVIOUS
<1>1. PICK g \in Grants :
        /\ bound = {g}
        /\ issued = [h \in Grants |-> IF h = g THEN Home ELSE "unknown"]
        /\ views = [h \in Grants |-> IF h = g THEN [Unbound EXCEPT !.origin = Home] ELSE Unbound]
  BY DEF Init
<1>2. /\ Unbound \in ViewsOver(Origins \cup {"unknown"})
      /\ [Unbound EXCEPT !.origin = Home] \in ViewsOver(Origins \cup {"unknown"})
      /\ [Unbound EXCEPT !.origin = Home].origin = Home
  BY HomeAssumption DEF Unbound, ViewsOver
<1>3. /\ page.doc = 1 /\ page.origin = Home /\ page \in [doc : Nat \ {0}, origin : Origins]
  BY HomeAssumption DEF Init
<1>4. calls = [c \in Calls |-> Unused] /\ wire = <<>> /\ DOMAIN wire = {}
  BY DEF Init
<1>5. calls \in [Calls -> CallRecords]
  BY <1>4, TypedStart
<1>6. views \in [Grants -> ViewsOver(Origins \cup {"unknown"})] /\ views[g].origin = Home
  BY <1>1, <1>2
<1>7. TypeOK
  <2>1. wire \in Seq(Messages) /\ refs \subseteq RefSet /\ generation \in Nat
    BY <1>4 DEF Init
  <2>2. handles \in [Calls -> Nat] /\ runs \in [Calls -> Nat]
    BY DEF Init
  <2>3. /\ debugging \in BOOLEAN /\ attached \in BOOLEAN
        /\ bound \subseteq Grants /\ blind \subseteq Grants
        /\ issued \in [Grants -> Origins \cup {"unknown"}]
    BY <1>1, HomeAssumption DEF Init
  <2> QED BY <1>3, <1>5, <1>6, <2>1, <2>2, <2>3 DEF TypeOK
<1>8. \A c \in Calls : calls[c].phase = "none" /\ calls[c].grant = "nobody" /\ calls[c].obj = 0
                       /\ calls[c].tool = "none" /\ ~calls[c].noisy
  BY <1>4, TypedStart
<1>9. Baselined /\ Executed
  BY <1>1, <1>6, <1>8, HomeAssumption, NullAssumption DEF Baselined, Executed, Init
<1>10. \A c \in Calls : InScript(calls[c]) /\ WriteJudged(c, wire) /\ Held(c, wire)
  BY <1>8 DEF InScript, WriteJudged, Held, Init
<1>11. Awaited(wire) /\ Severed(wire) /\ RefsCurrent(wire) /\ ReportsCurrent(wire)
  BY <1>4 DEF Awaited, Severed, RefsCurrent, ReportsCurrent, Init
<1>12. ViewsCurrent(wire)
  BY <1>1, <1>3, <1>6 DEF ViewsCurrent
<1> QED BY <1>7, <1>9, <1>10, <1>11, <1>12 DEF TabInv

-----------------------------------------------------------------------------
(* Grants come and go *)

LEMMA IssueKeeps ==
  ASSUME TabInv, NEW g \in Grants, Issue(g) PROVE TabInv'
<1> USE DEF TabInv
<1>1. /\ UNCHANGED <<page, debugging, wire, attached, generation, refs, bound, views, blind,
                     calls, handles, runs>>
      /\ issued' = [issued EXCEPT ![g] = page.origin]
  BY DEF Issue, tabVars
<1>2. issued' \in [Grants -> Origins \cup {"unknown"}]
  BY <1>1 DEF TypeOK
<1>3. TypeOK'
  BY <1>1, <1>2 DEF TypeOK
<1>4. Baselined' /\ Executed'
  BY <1>1 DEF Baselined, Executed
<1>5. Awaited(wire)' /\ Severed(wire)' /\ RefsCurrent(wire)' /\ \A c \in Calls : Held(c, wire)'
  BY <1>1 DEF Awaited, Severed, RefsCurrent, Held
<1>6. \A c \in Calls : InScript(calls[c])'
  BY <1>1 DEF InScript
<1>7. ReportsCurrent(wire)' /\ ViewsCurrent(wire)'
  BY <1>1 DEF ReportsCurrent, ViewsCurrent
<1>8. \A c \in Calls : WriteJudged(c, wire)'
  BY <1>1 DEF WriteJudged, Authorized
<1> QED BY <1>3, <1>4, <1>5, <1>6, <1>7, <1>8

LEMMA BindKeeps ==
  ASSUME TabInv, NEW g \in Grants, Bind(g) PROVE TabInv'
<1> USE DEF TabInv
<1>0. PICK o : o = issued[g]
  OBVIOUS
<1>1. /\ UNCHANGED <<page, debugging, wire, attached, generation, refs, issued, calls,
                     handles, runs>>
      /\ views' = [views EXCEPT ![g].origin = o] /\ bound' = bound \cup {g}
      /\ blind' = IF Overlooks(g) THEN blind \cup {g} ELSE blind
  BY <1>0 DEF Bind, tabVars
<1>2. /\ views \in [Grants -> ViewsOver(Origins \cup {"unknown"})] /\ o \in Origins
      /\ bound \subseteq Grants /\ wire \in Seq(Messages)
  BY <1>0 DEF TypeOK, Bind
<1>3. /\ views' \in [Grants -> ViewsOver(Origins \cup {"unknown"})]
      /\ views'[g].origin = o
      /\ \A h \in Grants \ {g} : views'[h] = views[h]
  BY <1>1, <1>2 DEF ViewsOver
<1>4. views[g].origin = "unknown"
  BY DEF Bind, Unbound
<1>5. g \notin bound /\ \A c \in Calls : calls[c].grant # g
  BY <1>4 DEF Baselined
<1>6. TypeOK'
  BY <1>1, <1>3 DEF TypeOK
<1>7. Baselined' /\ Executed'
  BY <1>1, <1>2, <1>3, <1>5, NullAssumption DEF Baselined, Executed
<1>8. Awaited(wire)' /\ Severed(wire)' /\ RefsCurrent(wire)' /\ \A c \in Calls : Held(c, wire)'
  BY <1>1 DEF Awaited, Severed, RefsCurrent, Held
<1>9. \A c \in Calls : InScript(calls[c])'
  BY <1>1 DEF InScript
<1>10. ReportsCurrent(wire)'
  <2>1. SUFFICES ASSUME NEW i \in DOMAIN wire, wire[i].type = "navigated", ~ReportAfter(i, wire)
                 PROVE  wire[i].origin = page.origin \/ (~debugging /\ bound' \subseteq blind')
    BY <1>1 DEF ReportsCurrent
  <2>2. CASE wire[i].origin = page.origin
    BY <2>2
  <2>3. CASE wire[i].origin # page.origin
    <3>1. ~debugging /\ bound \subseteq blind
      BY <2>1, <2>3 DEF ReportsCurrent
    <3>2. Unreported # 0
      <4>1. ReportAfter(0, wire)
        BY <1>2, <2>1 DEF ReportAfter
      <4> QED BY <1>2, <4>1, UnreportedIs
    <3>3. g \in blind'
      BY <1>1, <3>1, <3>2 DEF Overlooks
    <3> QED BY <1>1, <3>1, <3>3
  <2> QED BY <2>2, <2>3
<1>11. ViewsCurrent(wire)'
  <2>1. g \notin blind' => o = page.origin \/ ReportAfter(0, wire)
    BY <1>0, <1>1, <1>2, UnreportedIs DEF Overlooks
  <2> QED BY <1>1, <1>2, <1>3, <2>1 DEF ViewsCurrent
<1>12. ASSUME NEW c \in Calls PROVE WriteJudged(c, wire)'
  BY <1>1, <1>2, <1>3, <1>5 DEF WriteJudged, Authorized
<1> QED BY <1>6, <1>7, <1>8, <1>9, <1>10, <1>11, <1>12

LEMMA RevokeKeeps ==
  ASSUME TabInv, NEW g \in Grants, Revoke(g) PROVE TabInv'
<1> USE DEF TabInv
<1>1. /\ UNCHANGED <<page, debugging, wire, attached, generation, refs, issued, views, blind, calls,
                     handles, runs>>
      /\ bound' = bound \ {g}
  BY DEF Revoke, tabVars
<1>2. TypeOK'
  BY <1>1 DEF TypeOK
<1>3. Baselined' /\ Executed'
  BY <1>1 DEF Baselined, Executed
<1>4. Awaited(wire)' /\ Severed(wire)' /\ RefsCurrent(wire)' /\ \A c \in Calls : Held(c, wire)'
  BY <1>1 DEF Awaited, Severed, RefsCurrent, Held
<1>5. \A c \in Calls : InScript(calls[c])'
  BY <1>1 DEF InScript
<1>6. ReportsCurrent(wire)' /\ ViewsCurrent(wire)'
  BY <1>1 DEF ReportsCurrent, ViewsCurrent
<1>7. \A c \in Calls : WriteJudged(c, wire)'
  BY <1>1 DEF WriteJudged, Authorized
<1> QED BY <1>2, <1>3, <1>4, <1>5, <1>6, <1>7

LEMMA LapseKeeps ==
  ASSUME TabInv, NEW g \in Grants, WindowLapses(g) PROVE TabInv'
<1> USE DEF TabInv
<1>1. /\ UNCHANGED <<page, debugging, wire, attached, generation, refs, issued, bound, blind, calls,
                     handles, runs>>
      /\ views' = [views EXCEPT ![g].window = FALSE]
  BY DEF WindowLapses, tabVars
<1>2. views \in [Grants -> ViewsOver(Origins \cup {"unknown"})] /\ bound \subseteq Grants
  BY DEF TypeOK
<1>3. /\ views' \in [Grants -> ViewsOver(Origins \cup {"unknown"})]
      /\ \A h \in Grants : /\ views'[h].origin = views[h].origin
                           /\ views'[h].suspended = views[h].suspended
  BY <1>1, <1>2 DEF ViewsOver
<1>4. TypeOK'
  BY <1>1, <1>3 DEF TypeOK
<1>5. Baselined' /\ Executed'
  BY <1>1, <1>2, <1>3 DEF Baselined, Executed
<1>6. Awaited(wire)' /\ Severed(wire)' /\ RefsCurrent(wire)' /\ \A c \in Calls : Held(c, wire)'
  BY <1>1 DEF Awaited, Severed, RefsCurrent, Held
<1>7. \A c \in Calls : InScript(calls[c])'
  BY <1>1 DEF InScript
<1>8. ReportsCurrent(wire)' /\ ViewsCurrent(wire)'
  BY <1>1, <1>2, <1>3 DEF ReportsCurrent, ViewsCurrent
<1>9. \A c \in Calls : WriteJudged(c, wire)'
  BY <1>1, <1>2, <1>3 DEF WriteJudged, Authorized
<1> QED BY <1>4, <1>5, <1>6, <1>7, <1>8, <1>9

-----------------------------------------------------------------------------
(* A call arrives, a session opens *)

LEMMA ReceiveKeeps ==
  ASSUME TabInv, NEW c \in Calls, NEW g \in Grants, Receive(c, g) PROVE TabInv'
<1> USE DEF TabInv
<1>1. /\ UNCHANGED <<page, debugging, wire, attached, generation, refs, issued, views, bound,
                     blind, handles>>
      /\ runs' = [runs EXCEPT ![c] = @ + 1] /\ g \in bound
  BY DEF Receive, tabVars, grantVars
<1>2. PICK tool \in Tools[c] :
         calls' = [calls EXCEPT ![c] =
             [Unused EXCEPT !.phase = IF attached THEN "ready" ELSE "session",
                            !.grant = g, !.tool = tool, !.noisy = tool = "settle"]]
  BY DEF Receive
<1>3. PICK k : k = [Unused EXCEPT !.phase = IF attached THEN "ready" ELSE "session",
                            !.grant = g, !.tool = tool, !.noisy = tool = "settle"]
  OBVIOUS
<1> tool \in ToolNames /\ tool # "none"
  BY ToolAssumption DEF ToolNames
<1>4. /\ k \in CallRecords /\ k.phase \in {"ready", "session"} /\ k.grant = g /\ k.tool = tool
      /\ k.noisy = (tool = "settle") /\ k.obj = 0 /\ k.kind = "none"
  <2>1. Unused \in CallRecords /\ Unused.obj = 0 /\ Unused.kind = "none"
    <3>1. Unused.kind = "none"
      BY DEF Unused
    <3> QED BY <3>1, TypedStart
  <2> HIDE DEF Unused
  <2> QED BY <1>3, <2>1, ZenonT(60) DEF CallRecords, Phases
<1>5. calls \in [Calls -> CallRecords] /\ wire \in Seq(Messages) /\ runs \in [Calls -> Nat]
  BY DEF TypeOK
<1>6. /\ calls' \in [Calls -> CallRecords]
      /\ \A d \in Calls : calls'[d] = IF d = c THEN k ELSE calls[d]
  BY <1>2, <1>3, <1>4, <1>5
<1>7. calls[c].phase = "none" /\ runs[c] = 0
  BY <1>1 DEF Receive, Journaled, Executed
<1>8. TypeOK'
  <2>1. runs' \in [Calls -> Nat]
    BY <1>1, <1>5
  <2> QED BY <1>1, <1>6, <2>1 DEF TypeOK
<1>9. Baselined'
  BY <1>1, <1>4, <1>6 DEF Baselined
<1>10. Executed'
  <2>1. \A d \in Calls : runs'[d] = IF d = c THEN 1 ELSE runs[d]
    BY <1>1, <1>5, <1>7
  <2> QED BY <1>4, <1>6, <2>1, NullAssumption DEF Executed
<1>11. Awaited(wire)'
  <2>1. ASSUME NEW i \in DOMAIN wire, wire[i].type = "reply"
        PROVE  wire[i].call \in Calls /\ wire[i].call # c
    <3>1. wire[i] \in Messages
      BY <1>5
    <3> QED BY <1>7, <2>1, <3>1 DEF Messages, Replies, Reports, Detached, Awaited
  <2> QED BY <1>1, <1>6, <2>1 DEF Awaited
<1>12. Severed(wire)' /\ RefsCurrent(wire)' /\ ReportsCurrent(wire)' /\ ViewsCurrent(wire)'
  BY <1>1 DEF Severed, RefsCurrent, ReportsCurrent, ViewsCurrent
<1>13. \A d \in Calls : Held(d, wire)'
  <2>1. handles[c] = 0
    BY <1>7 DEF Held
  <2> QED BY <1>1, <1>6, <2>1 DEF Held
<1>14. \A d \in Calls : WriteJudged(d, wire)'
  BY <1>1, <1>4, <1>6 DEF WriteJudged, Authorized
<1>15. \A d \in Calls : InScript(calls[d])'
  <2>2. InScript(k)
    BY <1>4 DEF InScript
  <2> QED BY <1>6, <2>2 DEF InScript
<1> QED BY <1>8, <1>9, <1>10, <1>11, <1>12, <1>13, <1>14, <1>15

LEMMA SessionOpensKeeps ==
  ASSUME TabInv, SessionOpens PROVE TabInv'
<1> USE DEF TabInv
<1>1. /\ UNCHANGED <<page, wire, generation, refs, issued, bound, views, blind, handles, runs>>
      /\ ~attached
  BY DEF SessionOpens, grantVars
<1>2. PICK ok \in BOOLEAN :
         /\ attached' = ok /\ debugging' = ok
         /\ calls' = [c \in Calls |->
              IF calls[c].phase # "session" THEN calls[c]
              ELSE IF ok /\ calls[c].grant \in bound THEN [calls[c] EXCEPT !.phase = "ready"]
              ELSE Ended(calls[c])]
  BY DEF SessionOpens
<1>3. calls \in [Calls -> CallRecords] /\ wire \in Seq(Messages)
  BY DEF TypeOK
<1>4. ~debugging /\ refs = {} /\ \A i \in DOMAIN wire : Fails(wire[i])
  BY <1>1 DEF Severed
<1>5. ASSUME NEW c \in Calls
      PROVE  /\ calls'[c] \in CallRecords /\ calls'[c].grant = calls[c].grant
             /\ InScript(calls'[c])
             /\ \/ calls'[c] = calls[c]
                \/ calls[c].phase = "session" /\ calls'[c].phase \in {"ready", "ended"}
  <2>1. calls[c] \in CallRecords /\ InScript(calls[c])
    BY <1>3
  <2>2. CASE calls[c].phase # "session"
    <3>1. calls'[c] = calls[c]
      BY <1>2, <2>2
    <3> QED BY <2>1, <3>1
  <2>3. CASE calls[c].phase = "session" /\ ok /\ calls[c].grant \in bound
    <3>1. PICK q : q = [calls[c] EXCEPT !.phase = "ready"]
      OBVIOUS
    <3>2. /\ q \in CallRecords /\ q.phase = "ready" /\ q.grant = calls[c].grant
          /\ q.obj = calls[c].obj /\ q.tool = calls[c].tool /\ q.noisy = calls[c].noisy
          /\ q.kind = calls[c].kind
      BY <2>1, <3>1 DEF CallRecords, Phases
    <3>3. calls'[c] = q
      BY <1>2, <2>3, <3>1
    <3> QED BY <2>1, <2>3, <3>2, <3>3 DEF InScript
  <2>4. CASE calls[c].phase = "session" /\ ~(ok /\ calls[c].grant \in bound)
    <3>1. PICK q : q = Ended(calls[c])
      OBVIOUS
    <3>2. /\ q \in CallRecords /\ q.phase = "ended" /\ q.grant = calls[c].grant
          /\ q.tool = "none" /\ q.obj = 0 /\ ~q.noisy
      BY <2>1, <3>1, EndedIs
    <3>3. calls'[c] = q
      BY <1>2, <2>4, <3>1
    <3> QED BY <2>4, <3>2, <3>3 DEF InScript
  <2> QED BY <2>2, <2>3, <2>4
<1>6. calls' \in [Calls -> CallRecords]
  <2>1. calls' = [c \in Calls |-> calls'[c]]
    BY <1>2
  <2> QED BY <1>5, <2>1
<1>7. TypeOK'
  BY <1>1, <1>2, <1>6 DEF TypeOK
<1>8. Baselined' /\ Executed'
  BY <1>1, <1>5 DEF Baselined, Executed
<1>9. Awaited(wire)'
  <2>1. ASSUME NEW i \in DOMAIN wire, wire[i].type = "reply" PROVE wire[i].call \in Calls
    <3>1. wire[i] \in Messages
      BY <1>3
    <3> QED BY <2>1, <3>1 DEF Messages, Replies, Reports, Detached
  <2> QED BY <1>1, <1>5, <2>1 DEF Awaited
<1>10. Severed(wire)'
  BY <1>1, <1>2, <1>4 DEF Severed, Fails
<1>11. \A c \in Calls : Held(c, wire)'
  BY <1>1, <1>4 DEF Held
<1>12. RefsCurrent(wire)' /\ ReportsCurrent(wire)'
  BY <1>1, <1>4 DEF RefsCurrent, ReportsCurrent, Fails
<1>13. ViewsCurrent(wire)'
  BY <1>1 DEF ViewsCurrent
<1>14. \A c \in Calls : WriteJudged(c, wire)'
  BY <1>1, <1>5 DEF WriteJudged, Authorized
<1>15. \A c \in Calls : InScript(calls[c])'
  BY <1>5 DEF InScript
<1> QED BY <1>7, <1>8, <1>9, <1>10, <1>11, <1>12, <1>13, <1>14, <1>15

-----------------------------------------------------------------------------
(* Events *)

LEMMA HandleNavigatedKeeps ==
  ASSUME TabInv, HandleNavigated PROVE TabInv'
<1> USE DEF TabInv
<1>1. /\ UNCHANGED <<page, debugging, attached, issued, bound, blind, handles, runs>>
      /\ generation' = generation + 1 /\ refs' = {} /\ wire' = Tail(wire)
      /\ wire # <<>> /\ Head(wire).type = "navigated"
      /\ calls' = [c \in Calls |-> [calls[c] EXCEPT !.noisy = calls[c].tool = "settle"]]
  BY DEF HandleNavigated
<1>2. /\ wire \in Seq(Messages) /\ calls \in [Calls -> CallRecords] /\ bound \subseteq Grants
      /\ views \in [Grants -> ViewsOver(Origins \cup {"unknown"})]
  BY DEF TypeOK
<1>3. PICK w : w = Tail(wire)
  OBVIOUS
<1>4. /\ Head(wire) = wire[1] /\ 1 \in DOMAIN wire /\ wire[1].type = "navigated"
      /\ w \in Seq(Messages)
      /\ \A i \in DOMAIN w : i \in Nat /\ i + 1 \in DOMAIN wire /\ w[i] = wire[i + 1]
      /\ \A i \in DOMAIN wire : i > 1 => i - 1 \in DOMAIN w /\ w[i - 1] = wire[i]
  BY <1>1, <1>2, <1>3, TailIs
<1>5. \A i \in Nat : ReportAfter(i, w) <=> ReportAfter(i + 1, wire)
  BY <1>1, <1>2, <1>3, ReportAfterTail
<1>6. ReportAfter(0, wire)
  BY <1>4 DEF ReportAfter
<1>7. PICK o \in Origins : o = wire[1].origin
  <2>1. wire[1] \in Messages
    BY <1>2, <1>4
  <2> QED BY <1>4, <2>1 DEF Messages, Replies, Reports, Detached
<1>8. views' = [g \in Grants |-> IF g \in bound THEN Judged(g, o) ELSE views[g]]
  BY <1>4, <1>7 DEF HandleNavigated
<1>9. /\ views' \in [Grants -> ViewsOver(Origins \cup {"unknown"})]
      /\ \A g \in bound : views'[g].origin = o
      /\ \A g \in Grants : views'[g].origin \in {o, views[g].origin}
  <2>1. ASSUME NEW g \in Grants
        PROVE  Judged(g, o) \in ViewsOver(Origins \cup {"unknown"}) /\ Judged(g, o).origin = o
    BY <1>2 DEF Judged, ViewsOver
  <2> QED BY <1>2, <1>8, <2>1
<1>10. ASSUME NEW c \in Calls
       PROVE  /\ calls'[c] \in CallRecords /\ calls'[c].phase = calls[c].phase
              /\ calls'[c].grant = calls[c].grant /\ calls'[c].kind = calls[c].kind
              /\ calls'[c].obj = calls[c].obj /\ calls'[c].at = calls[c].at
              /\ InScript(calls'[c])
  <2>1. calls[c] \in CallRecords /\ InScript(calls[c])
    BY <1>2
  <2>2. PICK q : q = [calls[c] EXCEPT !.noisy = calls[c].tool = "settle"]
    OBVIOUS
  <2>3. /\ q \in CallRecords /\ q.phase = calls[c].phase
        /\ q.grant = calls[c].grant /\ q.kind = calls[c].kind
        /\ q.obj = calls[c].obj /\ q.at = calls[c].at /\ q.pc = calls[c].pc
        /\ q.tool = calls[c].tool /\ q.noisy = (calls[c].tool = "settle")
    BY <2>1, <2>2 DEF CallRecords
  <2>4. calls'[c] = q
    BY <1>1, <2>2
  <2> QED BY <2>1, <2>3, <2>4 DEF InScript
<1>11. TypeOK'
  <2>1. calls' \in [Calls -> CallRecords]
    <3>1. calls' = [c \in Calls |-> calls'[c]]
      BY <1>1
    <3> QED BY <1>10, <3>1
  <2>2. wire' \in Seq(Messages)
    BY <1>1, <1>3, <1>4
  <2>3. refs' \subseteq RefSet /\ generation' \in Nat
    BY <1>1 DEF TypeOK
  <2> QED BY <1>1, <1>9, <2>1, <2>2, <2>3 DEF TypeOK
<1>12. Baselined'
  <2>1. o # "unknown"
    BY NullAssumption
  <2>2. \A g \in bound : views'[g].origin # "unknown"
    BY <1>9, <2>1
  <2>3. ASSUME NEW c \in Calls, calls'[c].grant \in Grants
        PROVE  views'[calls'[c].grant].origin # "unknown"
    <3>1. PICK g \in Grants : g = calls[c].grant /\ g = calls'[c].grant
      BY <1>10, <2>3
    <3>2. views[g].origin # "unknown"
      BY <3>1 DEF Baselined
    <3> QED BY <1>9, <2>1, <3>1, <3>2
  <2> QED BY <1>1, <2>2, <2>3 DEF Baselined
<1>13. Executed'
  BY <1>1, <1>10 DEF Executed
<1>14. Awaited(w)'
  <2>1. ASSUME NEW i \in DOMAIN w, w[i].type = "reply"
        PROVE  /\ calls'[w[i].call].phase \in {"act", "freeing"}
               /\ \A j \in DOMAIN w : IsReply(w[j], w[i].call) => i = j
    <3>1. /\ calls[wire[i + 1].call].phase \in {"act", "freeing"}
          /\ \A j \in DOMAIN wire : IsReply(wire[j], wire[i + 1].call) => i + 1 = j
      BY <1>4, <2>1 DEF Awaited
    <3>2. wire[i + 1].call \in Calls
      <4>1. wire[i + 1] \in Messages /\ wire[i + 1].type = "reply"
        BY <1>2, <1>4, <2>1
      <4> QED BY <4>1 DEF Messages, Replies, Reports, Detached
    <3> QED BY <1>4, <1>10, <3>1, <3>2
  <2>2. PICK v : v = w
    OBVIOUS
  <2> QED BY <2>1 DEF Awaited
<1>15. Severed(w)'
  BY <1>1, <1>4 DEF Severed
<1>16. ASSUME NEW d \in Calls PROVE Held(d, w)'
  <2>1. SUFFICES ASSUME handles[d] # 0 PROVE Held(d, w)'
    BY <1>1 DEF Held
  <2>2. /\ handles[d] = 1 /\ debugging /\ calls[d].phase = "act"
        /\ \E i \in DOMAIN wire :
             /\ IsReply(wire[i], d)
             /\ \/ wire[i].cmd = "resolve" /\ wire[i].ok /\ wire[i].doc = page.doc
                \/ wire[i].cmd \notin {"resolve", "release"} /\ calls[d].obj = page.doc
    BY <2>1 DEF Held
  <2>3. PICK i \in DOMAIN wire :
             /\ IsReply(wire[i], d)
             /\ \/ wire[i].cmd = "resolve" /\ wire[i].ok /\ wire[i].doc = page.doc
                \/ wire[i].cmd \notin {"resolve", "release"} /\ calls[d].obj = page.doc
    BY <2>2
  <2>4. i > 1
    BY <1>2, <1>4, <2>3 DEF IsReply
  <2>5. i - 1 \in DOMAIN w /\ w[i - 1] = wire[i]
    BY <1>4, <2>4
  <2> QED BY <1>1, <1>10, <2>2, <2>3, <2>5 DEF Held
<1>17. RefsCurrent(w)'
  <2>1. ASSUME debugging, NEW i \in DOMAIN w, w[i].type = "reply", w[i].cmd = "tree", w[i].ok
        PROVE  w[i].doc = page.doc \/ ReportAfter(i, w)
    BY <1>4, <1>5, <2>1 DEF RefsCurrent
  <2> QED BY <1>1, <2>1 DEF RefsCurrent
<1>18. ReportsCurrent(w)'
  BY <1>1, <1>4, <1>5 DEF ReportsCurrent
<1>19. ViewsCurrent(w)'
  <2>1. SUFFICES ASSUME NEW g \in bound \ blind, ~ReportAfter(0, w)
                 PROVE  views'[g].origin = page.origin
    BY <1>1 DEF ViewsCurrent
  <2>2. ~ReportAfter(1, wire)
    BY <1>5, <2>1
  <2>3. o = page.origin
    BY <1>4, <1>7, <2>1, <2>2 DEF ReportsCurrent
  <2> QED BY <1>9, <2>1, <2>3
<1>20. \A c \in Calls : WriteJudged(c, w)'
  BY <1>1, <1>6, <1>10 DEF WriteJudged
<1>21. \A c \in Calls : InScript(calls[c])'
  BY <1>10 DEF InScript
<1>22. wire' = w
  BY <1>1, <1>3
<1> QED BY <1>11, <1>12, <1>13, <1>14, <1>15, <1>16, <1>17, <1>18, <1>19, <1>20, <1>21, <1>22

LEMMA HandleDetachedKeeps ==
  ASSUME TabInv, HandleDetached PROVE TabInv'
<1> USE DEF TabInv
<1>1. /\ UNCHANGED <<page, debugging, generation, issued, bound, views, blind, handles, runs>>
      /\ attached' = FALSE /\ refs' = {} /\ wire' = <<>>
      /\ wire # <<>> /\ Head(wire).type = "detached"
      /\ calls' = [c \in Calls |-> Rejected(calls[c])]
  BY DEF HandleDetached, grantVars
<1>2. /\ wire \in Seq(Messages) /\ calls \in [Calls -> CallRecords]
  BY DEF TypeOK
<1>3. /\ wire[1].type = "detached" /\ 1 \in DOMAIN wire
      /\ \A i \in DOMAIN wire : i \in Nat /\ (i = 1 \/ i > 1)
  BY <1>1, <1>2
<1>4. ~debugging /\ ~ReportAfter(0, wire)
  BY <1>3 DEF Severed, Fails, ReportAfter
<1>5. ASSUME NEW c \in Calls
      PROVE  /\ calls'[c] \in CallRecords /\ calls'[c].grant = calls[c].grant
             /\ calls'[c].phase \notin {"act", "freeing"}
             /\ calls'[c].phase = "none" <=> calls[c].phase = "none"
             /\ InScript(calls'[c])
  <2>1. calls[c] \in CallRecords /\ InScript(calls[c])
    BY <1>2
  <2>2. CASE calls[c].phase \in {"act", "freeing"}
    <3>1. PICK p \in CallRecords :
            /\ p = Rested(calls[c]) /\ p.phase = "ready" /\ p.obj = 0
            /\ p.tool = calls[c].tool /\ p.grant = calls[c].grant
            /\ p.noisy = calls[c].noisy /\ p.kind = calls[c].kind
      BY <2>1, RestedIs
    <3>2. PICK b \in BOOLEAN :
            b = (p.failed \/ (calls[c].phase = "act"
                               /\ Script(calls[c].kind)[calls[c].pc] # "peek"))
      OBVIOUS
    <3>3. PICK q : q = [p EXCEPT !.failed = b]
      OBVIOUS
    <3>4. /\ q \in CallRecords /\ q.phase = "ready" /\ q.obj = 0
          /\ q.tool = p.tool /\ q.grant = p.grant /\ q.noisy = p.noisy /\ q.kind = p.kind
      BY <3>1, <3>3 DEF CallRecords
    <3>5. calls'[c] = q
      <4>1. calls'[c] = [p EXCEPT !.failed =
              @ \/ (calls[c].phase = "act" /\ Script(calls[c].kind)[calls[c].pc] # "peek")]
        BY <1>1, <2>2, <3>1 DEF Rejected
      <4> QED BY <3>2, <3>3, <4>1
    <3> QED BY <2>1, <2>2, <3>1, <3>4, <3>5 DEF InScript
  <2>3. CASE calls[c].phase \notin {"act", "freeing"}
    <3>1. calls'[c] = calls[c]
      BY <1>1, <2>3 DEF Rejected
    <3> QED BY <2>1, <2>3, <3>1
  <2> QED BY <2>2, <2>3
<1>6. TypeOK'
  <2>1. calls' \in [Calls -> CallRecords]
    <3>1. calls' = [c \in Calls |-> calls'[c]]
      BY <1>1
    <3> QED BY <1>5, <3>1
  <2>2. wire' \in Seq(Messages) /\ refs' \subseteq RefSet
    BY <1>1
  <2> QED BY <1>1, <2>1, <2>2 DEF TypeOK
<1>7. Baselined' /\ Executed'
  BY <1>1, <1>5 DEF Baselined, Executed
<1>8. DOMAIN wire' = {}
  BY <1>1
<1>9. Awaited(wire)' /\ Severed(wire)' /\ RefsCurrent(wire)' /\ ReportsCurrent(wire)'
  BY <1>1, <1>4, <1>8 DEF Awaited, Severed, RefsCurrent, ReportsCurrent
<1>10. \A c \in Calls : Held(c, wire)'
  BY <1>1, <1>4 DEF Held
<1>11. ViewsCurrent(wire)'
  BY <1>1, <1>4 DEF ViewsCurrent
<1>12. \A c \in Calls : WriteJudged(c, wire)' /\ InScript(calls[c])'
  BY <1>5 DEF WriteJudged
<1> QED BY <1>6, <1>7, <1>9, <1>10, <1>11, <1>12

LEMMA PageNavigatesKeeps ==
  ASSUME TabInv, NEW o \in Origins, PageNavigates(o) PROVE TabInv'
<1> USE DEF TabInv
<1>1. /\ UNCHANGED <<debugging, attached, generation, refs, issued, bound, views, calls, runs>>
      /\ page' = [doc |-> page.doc + 1, origin |-> o]
      /\ handles' = [c \in Calls |-> 0]
      /\ wire' = IF debugging THEN Append(wire, Navigated(o)) ELSE wire
      /\ blind' = IF debugging THEN blind ELSE blind \cup bound
  BY DEF PageNavigates, tabVars
<1>2. /\ wire \in Seq(Messages) /\ page.doc \in Nat
      /\ bound \subseteq Grants /\ blind \subseteq Grants
  BY DEF TypeOK
<1>3. page'.doc = page.doc + 1 /\ page'.origin = o
  BY <1>1
<1>4. PICK m : m = Navigated(o)
  OBVIOUS
<1>5. m \in Messages /\ m.type = "navigated" /\ m.origin = o
  BY <1>4 DEF Navigated, Messages, Reports
<1>6. wire' \in Seq(Messages)
  BY <1>1, <1>2, <1>4, <1>5, AppendIs
<1>7. TypeOK'
  <2>1. page' \in [doc : Nat \ {0}, origin : Origins]
    BY <1>1, <1>2
  <2>2. handles' \in [Calls -> Nat] /\ blind' \subseteq Grants
    BY <1>1, <1>2
  <2> QED BY <1>1, <1>6, <2>1, <2>2 DEF TypeOK
<1>8. Baselined' /\ Executed'
  BY <1>1 DEF Baselined, Executed
<1>9. \A c \in Calls : Held(c, wire)'
  BY <1>1 DEF Held
<1>10. \A c \in Calls : InScript(calls[c])'
  BY <1>1 DEF InScript
<1>11. CASE debugging
  <2>1. PICK n : n = Len(wire) + 1
    OBVIOUS
  <2>2. /\ n \in DOMAIN wire' /\ wire'[n] = m /\ n \in Nat /\ n > 0
        /\ \A i \in DOMAIN wire : i \in DOMAIN wire' /\ wire'[i] = wire[i] /\ i < n
        /\ \A i \in DOMAIN wire' : i \in DOMAIN wire \/ i = n
    <3>1. wire' = Append(wire, m)
      BY <1>1, <1>4, <1>11
    <3> QED BY <1>2, <1>5, <2>1, <3>1, AppendIs
  <2>3. ReportAfter(0, wire') /\ \A i \in DOMAIN wire : ReportAfter(i, wire')
    BY <1>5, <2>2 DEF ReportAfter
  <2>4. Awaited(wire)'
    <3>1. ASSUME NEW i \in DOMAIN wire', wire'[i].type = "reply"
          PROVE  /\ calls[wire'[i].call].phase \in {"act", "freeing"}
                 /\ \A j \in DOMAIN wire' : IsReply(wire'[j], wire'[i].call) => i = j
      <4>1. i \in DOMAIN wire
        BY <1>5, <2>2, <3>1
      <4>2. ~IsReply(m, wire[i].call)
        BY <1>5 DEF IsReply
      <4> QED BY <2>2, <3>1, <4>1, <4>2 DEF Awaited
    <3> QED BY <1>1, <3>1 DEF Awaited
  <2>5. Severed(wire)'
    <3>1. attached /\ \A i \in DOMAIN wire : wire[i].type # "detached"
      BY <1>11 DEF Severed
    <3> QED BY <1>1, <1>5, <2>2, <3>1 DEF Severed
  <2>6. RefsCurrent(wire)'
    <3>1. ASSUME NEW i \in DOMAIN wire', wire'[i].type = "reply" PROVE ReportAfter(i, wire')
      BY <1>5, <2>2, <2>3, <3>1
    <3> QED BY <2>3, <3>1 DEF RefsCurrent
  <2>7. ReportsCurrent(wire)'
    BY <1>3, <1>5, <2>2, <2>3 DEF ReportsCurrent
  <2>8. ViewsCurrent(wire)'
    BY <2>3 DEF ViewsCurrent
  <2>9. ASSUME NEW c \in Calls PROVE WriteJudged(c, wire)'
    <3>1. WriteJudged(c, wire) /\ calls[c].at \in Int
      BY DEF TypeOK, CallRecords
    <3> QED BY <1>1, <1>2, <1>3, <1>11, <3>1 DEF WriteJudged
  <2> QED BY <1>7, <1>8, <1>9, <1>10, <2>4, <2>5, <2>6, <2>7, <2>8, <2>9
<1>12. CASE ~debugging
  <2>1. wire' = wire /\ blind' = blind \cup bound
    BY <1>1, <1>12
  <2>2. Awaited(wire)' /\ Severed(wire)' /\ RefsCurrent(wire)' /\ ReportsCurrent(wire)'
    BY <1>1, <1>12, <2>1 DEF Awaited, Severed, RefsCurrent, ReportsCurrent
  <2>3. ViewsCurrent(wire)' /\ \A c \in Calls : WriteJudged(c, wire)'
    BY <1>1, <2>1 DEF ViewsCurrent, WriteJudged
  <2> QED BY <1>7, <1>8, <1>9, <1>10, <2>2, <2>3
<1> QED BY <1>11, <1>12

LEMMA ChromeDetachesKeeps ==
  ASSUME TabInv, ChromeDetaches PROVE TabInv'
<1> USE DEF TabInv
<1>1. /\ UNCHANGED <<page, attached, generation, refs, issued, bound, views, blind, calls, runs>>
      /\ debugging /\ debugging' = FALSE
      /\ handles' = [c \in Calls |-> 0]
      /\ wire' = Append(wire, Detached)
  BY DEF ChromeDetaches, tabVars, grantVars
<1>2. wire \in Seq(Messages)
  BY DEF TypeOK
<1>3. Detached \in Messages /\ Detached.type = "detached"
  BY DEF Messages, Detached
<1>4. PICK n : n = Len(wire) + 1
  OBVIOUS
<1>5. /\ wire' \in Seq(Messages)
      /\ n \in DOMAIN wire' /\ wire'[n] = Detached /\ n \in Nat
      /\ \A i \in DOMAIN wire : i \in DOMAIN wire' /\ wire'[i] = wire[i] /\ i < n
      /\ \A i \in DOMAIN wire' : i \in DOMAIN wire \/ i = n
  BY <1>1, <1>2, <1>3, <1>4, AppendIs
<1>6. \A i : ReportAfter(i, wire') <=> ReportAfter(i, wire)
  BY <1>1, <1>2, <1>3, ReportAfterAppend
<1>7. TypeOK'
  BY <1>1, <1>5 DEF TypeOK
<1>8. Baselined' /\ Executed'
  BY <1>1 DEF Baselined, Executed
<1>9. \A c \in Calls : Held(c, wire)' /\ InScript(calls[c])'
  BY <1>1 DEF Held, InScript
<1>10. Awaited(wire)'
  <2>1. ASSUME NEW i \in DOMAIN wire', wire'[i].type = "reply"
        PROVE  /\ calls[wire'[i].call].phase \in {"act", "freeing"}
               /\ \A j \in DOMAIN wire' : IsReply(wire'[j], wire'[i].call) => i = j
    <3>1. i \in DOMAIN wire
      BY <1>3, <1>5, <2>1
    <3>2. ~IsReply(Detached, wire[i].call)
      BY <1>3 DEF IsReply
    <3> QED BY <1>5, <2>1, <3>1, <3>2 DEF Awaited
  <2> QED BY <1>1, <2>1 DEF Awaited
<1>11. Severed(wire)'
  <2>1. attached /\ \A i \in DOMAIN wire : wire[i].type # "detached"
    BY <1>1 DEF Severed
  <2>2. \A j \in DOMAIN wire' : ~(j > n)
    BY <1>5
  <2> QED BY <1>1, <1>5, <2>1, <2>2 DEF Severed
<1>12. RefsCurrent(wire)'
  BY <1>1 DEF RefsCurrent
<1>13. ReportsCurrent(wire)'
  BY <1>1, <1>3, <1>5, <1>6 DEF ReportsCurrent
<1>14. ViewsCurrent(wire)'
  BY <1>1, <1>6 DEF ViewsCurrent
<1>15. \A c \in Calls : WriteJudged(c, wire)'
  BY <1>1, <1>6 DEF WriteJudged, Authorized
<1> QED BY <1>7, <1>8, <1>9, <1>10, <1>11, <1>12, <1>13, <1>14, <1>15

LEMMA TabStep == TabInv /\ [Next]_vars => TabInv'
<1> SUFFICES ASSUME TabInv, [Next]_vars PROVE TabInv'
  OBVIOUS
<1>1. ASSUME NEW g \in Grants, Issue(g) \/ Bind(g) \/ Revoke(g) \/ WindowLapses(g)
      PROVE  TabInv'
  BY <1>1, IssueKeeps, BindKeeps, RevokeKeeps, LapseKeeps
<1>2. ASSUME NEW c \in Calls, NEW g \in Grants, Receive(c, g) PROVE TabInv'
  BY <1>2, ReceiveKeeps
<1>3. CASE SessionOpens
  BY <1>3, SessionOpensKeeps
<1>4. ASSUME NEW c \in Calls, CallStep(c) \/ Expires(c) \/ PageChanges(c) PROVE TabInv'
  BY <1>4, StartActionKeeps, PollsKeeps, EndsKeeps, ExpiresKeeps DEF CallStep
<1>5. CASE HandleReply \/ HandleNavigated \/ HandleDetached
  BY <1>5, HandleReplyKeeps, HandleNavigatedKeeps, HandleDetachedKeeps
<1>6. ASSUME NEW o \in Origins, PageNavigates(o) PROVE TabInv'
  BY <1>6, PageNavigatesKeeps
<1>7. CASE ChromeDetaches
  BY <1>7, ChromeDetachesKeeps
<1>8. CASE UNCHANGED vars
  <2>1. /\ UNCHANGED <<page, debugging, wire, attached, generation, refs, issued, bound, views,
                       blind, credit, calls, handles, runs>>
        /\ calls \in [Calls -> CallRecords] /\ \A d \in Calls : InScript(calls[d])
    BY <1>8 DEF vars, tabVars, grantVars, TabInv, TypeOK
  <2> QED BY <2>1, AsideCallsKeep
<1> QED BY <1>1, <1>2, <1>3, <1>4, <1>5, <1>6, <1>7, <1>8 DEF Next

-----------------------------------------------------------------------------
(* What follows *)

(* However calls, navigations and detaches interleave, a reference that    *)
(* still resolves is of the document on screen, unless the debugger is     *)
(* gone or the event that drops the reference is on its way.               *)
THEOREM RefsCorrect == Spec => []RefsOfThisDocument
<1>1. ASSUME TabInv PROVE RefsOfThisDocument
  <2>1. wire \in Seq(Messages)
    BY <1>1 DEF TabInv, TypeOK
  <2>2. Unreported \in Nat /\ (Unreported = 0 <=> ~ReportAfter(0, wire))
    BY <2>1, UnreportedIs
  <2>3. ReportAfter(0, wire) => Unreported > 0
    BY <2>2
  <2>4. debugging => \A ref \in refs : ref.doc = page.doc \/ ReportAfter(0, wire)
    BY <1>1 DEF TabInv, RefsCurrent
  <2> QED BY <2>3, <2>4 DEF RefsOfThisDocument
<1> QED BY <1>1, InitInv, TabStep, PTL DEF Spec

(* On every path through its script, a call holds one runtime object at    *)
(* most, and none once it is over or pausing between polls.                *)
THEOREM HandlesCorrect == Spec => []HandlesReturned
<1>1. ASSUME TabInv, NEW c \in Calls
      PROVE  handles[c] <= 1 /\ (calls[c].phase \in {"ended", "paused"} => handles[c] = 0)
  <2>1. handles[c] \in Nat
    BY <1>1 DEF TabInv, TypeOK
  <2>2. handles[c] # 0 => handles[c] = 1 /\ calls[c].phase = "act"
    BY <1>1 DEF TabInv, Held
  <2> QED BY <2>1, <2>2
<1>2. TabInv => HandlesReturned
  BY <1>1 DEF HandlesReturned
<1> QED BY <1>2, InitInv, TabStep, PTL DEF Spec

(* A request id is executed once, however often and whenever its tool.call *)
(* arrives.                                                                *)
THEOREM ExecutedCorrect == Spec => []ExecutedOnce
<1>1. TabInv => ExecutedOnce
  BY DEF TabInv, Executed, ExecutedOnce
<1> QED BY <1>1, InitInv, TabStep, PTL DEF Spec

(* The views a step leaves as authorized as they were.                     *)
ViewsStand == \A g \in Grants : /\ views'[g].origin = views[g].origin
                                /\ views'[g].suspended = views[g].suspended

LEMMA StepStands ==
  ASSUME TypeOK, NEW c, NEW k, NEW left, Step(c, k, left)
  PROVE  ViewsStand
<1>1. CASE Arms(k.kind, k.pc)
  <2>1. PICK g : g = k.grant
    OBVIOUS
  <2>2. views' = [views EXCEPT ![g].window = TRUE]
    BY <1>1, <2>1 DEF Step, Armed
  <2> QED BY <2>2 DEF TypeOK, ViewsOver, ViewsStand
<1>2. CASE ~Arms(k.kind, k.pc)
  BY <1>2 DEF Step, Armed, ViewsStand
<1> QED BY <1>1, <1>2

LEMMA RunStands ==
  ASSUME TypeOK, NEW c \in Calls, StartAction(c) \/ Polls(c) \/ HandleReply
  PROVE  ViewsStand
<1>1. \A d, k, w : Rests(d, k, w) => ViewsStand
  BY DEF Rests, ViewsStand
<1>2. \A d, k, w : Step(d, k, w) => ViewsStand
  BY StepStands
<1>3. \A d, k, w : Closes(d, k, w) => ViewsStand
  BY <1>1 DEF Closes, ViewsStand
<1>4. \A d, k : Starts(d, k) => ViewsStand
  BY <1>1, <1>2 DEF Starts
<1>5. CASE StartAction(c)
  <2>1. PICK k : Starts(c, k) \/ \E q : Rests(c, q, wire)
    BY <1>5 DEF StartAction
  <2> QED BY <1>1, <1>4, <2>1
<1>6. CASE Polls(c)
  <2>1. PICK k : Starts(c, k) \/ Rests(c, k, wire)
    BY <1>6 DEF Polls
  <2> QED BY <1>1, <1>4, <2>1
<1>7. CASE HandleReply
  <2>1. \E d, k, w : Step(d, k, w) \/ Rests(d, k, w) \/ Closes(d, k, w)
    BY <1>7 DEF HandleReply
  <2> QED BY <1>1, <1>2, <1>3, <2>1
<1> QED BY <1>5, <1>6, <1>7

(* Only a step of a script or of a call brings a call to act, and such a   *)
(* step changes neither the page nor what the grants know of it.           *)
LEMMA LandingStands ==
  ASSUME TabInv, [Next]_vars, NEW c \in Calls, Lands(c)
  PROVE  UNCHANGED <<page, bound, blind>> /\ ViewsStand
<1>1. TypeOK /\ calls \in [Calls -> CallRecords] /\ InScript(calls[c])
  BY DEF TabInv, TypeOK
<1>2. calls' # calls /\ calls'[c] # calls[c] /\ calls'[c].phase = "act"
  BY DEF Lands
<1>3. ASSUME NEW g \in Grants, Issue(g) \/ Bind(g) \/ Revoke(g) \/ WindowLapses(g)
      PROVE  FALSE
  BY <1>2, <1>3 DEF Issue, Bind, Revoke, WindowLapses
<1>4. ASSUME NEW d \in Calls, StartAction(d) \/ Polls(d) \/ HandleReply
      PROVE  UNCHANGED <<page, bound, blind>> /\ ViewsStand
  BY <1>1, <1>4, RunStands DEF StartAction, Polls, HandleReply
<1>5. ASSUME NEW d \in Calls, Ends(d) \/ Pauses(d) \/ Settles(d) \/ Expires(d) \/ PageChanges(d)
      PROVE  UNCHANGED <<page, bound, blind>> /\ ViewsStand
  BY <1>5 DEF Ends, Pauses, Settles, Expires, PageChanges, grantVars, ViewsStand
<1>6. ASSUME NEW d \in Calls, NEW g \in Grants, Receive(d, g)
      PROVE  UNCHANGED <<page, bound, blind>> /\ ViewsStand
  BY <1>6 DEF Receive, grantVars, ViewsStand
<1>7. CASE SessionOpens \/ HandleDetached
  BY <1>7 DEF SessionOpens, HandleDetached, grantVars, ViewsStand
<1>8. CASE HandleNavigated
  <2>1. PICK q : q = [calls[c] EXCEPT !.noisy = calls[c].tool = "settle"]
    OBVIOUS
  <2>2. calls'[c] = q /\ calls[c] \in CallRecords
    BY <1>1, <1>8, <2>1 DEF HandleNavigated
  <2>3. q.phase = calls[c].phase
    BY <2>1, <2>2 DEF CallRecords
  <2>4. calls[c].tool # "settle" /\ calls[c].noisy = FALSE
    BY <1>1, <1>2, <2>2, <2>3 DEF InScript, CallRecords
  <2>5. q = [calls[c] EXCEPT !.noisy = FALSE]
    BY <2>1, <2>4
  <2>6. q = calls[c]
    BY <2>2, <2>4, <2>5, ZenonT(60) DEF CallRecords
  <2> QED BY <1>2, <2>2, <2>6
<1>9. ASSUME NEW o \in Origins, PageNavigates(o) PROVE FALSE
  BY <1>2, <1>9 DEF PageNavigates
<1>10. CASE ChromeDetaches
  BY <1>2, <1>10 DEF ChromeDetaches
<1>11. CASE UNCHANGED vars
  BY <1>2, <1>11 DEF vars
<1> QED BY <1>3, <1>4, <1>5, <1>6, <1>7, <1>8, <1>9, <1>10, <1>11 DEF Next, CallStep

(* Every command that changes the page is sent for a grant whose view has  *)
(* judged that very page writable, unless a navigation overtook it, no     *)
(* report of one reached the grant, or the grant is gone.                  *)
THEOREM WritesCorrect == Spec => StrayWritesAreRaces
<1>1. ASSUME TabInv, TabInv', [Next]_vars, NEW c \in Calls, Lands(c)
      PROVE  LET g == calls'[c].grant IN
               Authorized(g) \/ calls'[c].at < page.doc \/ g \in blind \/ g \notin bound
  <2>1. UNCHANGED <<page, bound, blind>> /\ ViewsStand
    BY <1>1, LandingStands
  <2>2. PICK k : k = calls'[c]
    OBVIOUS
  <2>3. k \in CallRecords /\ InScript(k)
    BY <1>1, <2>2 DEF TabInv, TypeOK
  <2>4. k.phase = "act" /\ Script(k.kind)[k.pc] \in Effects
    BY <1>1, <2>2 DEF Lands
  <2>5. k.kind \in AllKinds /\ k.pc \in 1 .. Len(Script(k.kind))
    BY <2>3, <2>4 DEF InScript, CallRecords
  <2>6. k.kind \in Writes
    BY <2>4, <2>5, ScriptsOK DEF Harmless
  <2>7. WriteJudged(c, wire)'
    BY <1>1 DEF TabInv
  <2>8. k.grant \in bound \ blind =>
          \/ k.at < page.doc
          \/ views'[k.grant].origin = page.origin /\ ~views'[k.grant].suspended
    BY <2>1, <2>2, <2>4, <2>6, <2>7 DEF WriteJudged, Authorized
  <2>9. bound \subseteq Grants
    BY <1>1 DEF TabInv, TypeOK
  <2> QED BY <2>1, <2>2, <2>8, <2>9 DEF ViewsStand, Authorized
<1>2. TabInv /\ TabInv' /\ [Next]_vars
        => [\A c \in Calls : LET g == calls'[c].grant IN
             Lands(c) => \/ Authorized(g)
                         \/ calls'[c].at < page.doc
                         \/ g \in blind
                         \/ g \notin bound]_vars
  BY <1>1
<1> QED BY <1>2, InitInv, TabStep, PTL DEF Spec, StrayWritesAreRaces
=============================================================================
