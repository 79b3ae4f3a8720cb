-------------------------- MODULE ViteBrokerProofs --------------------------
(* Proofs about ViteBroker, for any grants, sessions, calls, page ids and  *)
(* origins, any number of sockets and any limits.                          *)
EXTENDS ViteBroker, FiniteSetTheorems, TLAPS

USE BrokerAssumption, GrantStoreAssumption

(* Connection x is the one by which target k is reached, or can still be   *)
(* resumed.                                                                *)
At(k, x) == x # 0 /\ (live[k].conn = x \/ tomb[k].conn = x)

(* Sockets and targets: a live target has a socket of its own that still   *)
(* hears its page, and sockets not attached yet have done nothing.         *)
Places ==
    /\ opened \in 0..MaxSockets
    /\ page \in [Sockets -> Pages]
    /\ live \in [Keys -> Lives]
    /\ tomb \in [Keys -> Tombs]
    /\ disposed \in BOOLEAN
    /\ \A s \in Sockets : s > opened => page[s].phase = "unopened"
    /\ \A k \in Keys :
        /\ live[k].socket \in Sockets \cup {0}
        /\ live[k].conn \in Sockets \cup {0}
        /\ tomb[k].conn \in Sockets \cup {0}
        /\ live[k].socket = 0 <=> live[k].conn = 0
        /\ Live(k) => Hearing(live[k].socket)
    /\ \A k, l \in Keys : Live(k) /\ live[k].socket = live[l].socket => k = l

(* A socket that may still register a target has given no target its name, *)
(* so two targets never share a connection id.                             *)
Fresh ==
    \A s \in Sockets, k \in Keys :
        page[s].phase \in {"unopened", "open"} /\ ~LiveSocket(s) => ~At(k, s)

Distinct == \A k, l \in Keys, x \in Sockets : At(k, x) /\ At(l, x) => k = l

Homes == Places /\ OneHomePerTarget /\ Fresh /\ Distinct

-----------------------------------------------------------------------------
(* Closing sockets closes open ones only. *)
LEMMA ClosingLemma ==
    ASSUME page \in [Sockets -> Pages], NEW S
    PROVE  /\ Closing(S) \in [Sockets -> Pages]
           /\ \A s \in Sockets :
                /\ Closing(S)[s].origin = page[s].origin
                /\ s \notin S => Closing(S)[s] = page[s]
                /\ Closing(S)[s].phase = "unopened" <=> page[s].phase = "unopened"
                /\ Closing(S)[s].phase = "open" => page[s].phase = "open"
                /\ Closing(S)[s].phase \in {"open", "closing"} <=> Hearing(s)
  BY DEF Closing, Pages, Hearing

LEMMA InitHomes == Init => Homes
<1> SUFFICES ASSUME Init PROVE Homes
  OBVIOUS
<1>1. \A k \in Keys : live[k] = NoLive /\ tomb[k] = NoTomb
  BY DEF Init
<1>2. page \in [Sockets -> Pages] /\ \A s \in Sockets : page[s].phase = "unopened"
  BY DEF Init, Pages
<1>3. Places
  <2>1. live \in [Keys -> Lives] /\ tomb \in [Keys -> Tombs]
    BY DEF Init, NoLive, NoTomb, Lives, Tombs
  <2>2. opened \in 0..MaxSockets
    BY DEF Init
  <2>3. disposed \in BOOLEAN
    BY Zenon DEF Init
  <2> QED BY <1>1, <1>2, <2>1, <2>2, <2>3 DEF Places, NoLive, NoTomb, Live
<1>4. \A k \in Keys : ~Live(k) /\ ~Dead(k) /\ \A x : ~At(k, x)
  BY <1>1 DEF Live, Dead, At, NoLive, NoTomb
<1> QED BY <1>3, <1>4 DEF Homes, OneHomePerTarget, Fresh, Distinct

(* Steps that change neither the live table nor the tombstones, and close  *)
(* sockets at most.                                                        *)
LEMMA QuietHomes ==
    ASSUME Homes, NEW S, page' = Closing(S), opened' = opened, live' = live,
           tomb' = tomb, disposed' = disposed
    PROVE  Homes'
<1> USE DEF Homes
<1>1. page \in [Sockets -> Pages]
  BY DEF Places
<1>2. Places'
  <2>1. \A s \in Sockets : s > opened' => page'[s].phase = "unopened"
    BY <1>1, ClosingLemma DEF Places
  <2>2. \A k \in Keys : Live(k)' => Hearing(live[k].socket)'
    BY <1>1, ClosingLemma DEF Places, Live, Hearing
  <2> QED BY <1>1, <2>1, <2>2, ClosingLemma DEF Places, Live
<1>3. OneHomePerTarget' /\ Distinct'
  BY DEF OneHomePerTarget, Distinct, At, Live, Dead
<1>4. Fresh'
  BY <1>1, ClosingLemma DEF Fresh, At, LiveSocket
<1> QED BY <1>2, <1>3, <1>4

(* Tombstones that age, or go. *)
LEMMA FewerTombsHomes ==
    ASSUME Homes, NEW S, page' = Closing(S), opened' = opened, live' = live,
           tomb' \in [Keys -> Tombs], disposed' = disposed,
           \A k \in Keys : tomb'[k].conn \in {tomb[k].conn, 0}
    PROVE  Homes'
<1> USE DEF Homes
<1>1. page \in [Sockets -> Pages]
  BY DEF Places
<1>2. Places'
  <2>1. \A s \in Sockets : s > opened' => page'[s].phase = "unopened"
    BY <1>1, ClosingLemma DEF Places
  <2>2. \A k \in Keys : Live(k)' => Hearing(live[k].socket)'
    BY <1>1, ClosingLemma DEF Places, Live, Hearing
  <2>3. \A k \in Keys : tomb'[k].conn \in Sockets \cup {0}
    BY DEF Places
  <2> QED BY <1>1, <2>1, <2>2, <2>3, ClosingLemma DEF Places, Live
<1>3. \A k \in Keys, x \in Sockets : At(k, x)' => At(k, x)
  BY DEF At, Sockets
<1>4. OneHomePerTarget' /\ Distinct'
  BY <1>3 DEF OneHomePerTarget, Distinct, Live, Dead
<1>5. Fresh'
  BY <1>1, <1>3, ClosingLemma DEF Fresh, LiveSocket
<1> QED BY <1>2, <1>4, <1>5

(* The close event of a live target moves its connection to the tombstone. *)
LEMMA ClosedHomes == Homes /\ (\E s \in Sockets : LiveClosed(s)) => Homes'
<1> SUFFICES ASSUME Homes, NEW s \in Sockets, LiveClosed(s) PROVE Homes'
  OBVIOUS
<1> USE DEF Homes
<1>1. PICK k \in Keys :
        /\ live[k].socket = s
        /\ live' = [live EXCEPT ![k] = NoLive]
        /\ tomb' = [tomb EXCEPT ![k] = [conn |-> live[k].conn, age |-> "within"]]
  BY DEF LiveClosed, Departed
<1>2. /\ page' = [page EXCEPT ![s].phase = "closed"]
      /\ opened' = opened /\ disposed' = disposed
  BY DEF LiveClosed
<1>3. Live(k) /\ ~Dead(k)
  BY <1>1 DEF Live, OneHomePerTarget, Sockets
<1>4. \A l \in Keys : l # k => live'[l] = live[l] /\ tomb'[l] = tomb[l] /\ live[l].socket # s
  BY <1>1, <1>3 DEF Places, Live
<1>5. live'[k] = NoLive /\ tomb'[k] = [conn |-> live[k].conn, age |-> "within"]
  BY <1>1 DEF Places
<1>6. /\ page' \in [Sockets -> Pages] /\ page'[s].phase = "closed"
      /\ \A t \in Sockets : t # s => page'[t] = page[t]
  BY <1>2 DEF Places, Pages
<1>7. \A l \in Keys, x \in Sockets : At(l, x)' <=> At(l, x)
  BY <1>3, <1>4, <1>5 DEF At, Dead, NoLive, Sockets
<1>8. Places'
  <2>1. live' \in [Keys -> Lives] /\ tomb' \in [Keys -> Tombs]
    BY <1>1 DEF Places, NoLive, Lives, Tombs
  <2>2. \A t \in Sockets : t > opened' => page'[t].phase = "unopened"
    BY <1>2, <1>3, <1>6, <1>1 DEF Places, Hearing
  <2>3. \A l \in Keys : /\ live'[l].socket \in Sockets \cup {0}
                        /\ live'[l].conn \in Sockets \cup {0}
                        /\ tomb'[l].conn \in Sockets \cup {0}
                        /\ live'[l].socket = 0 <=> live'[l].conn = 0
    BY <1>4, <1>5 DEF Places, NoLive
  <2>4. \A l \in Keys : Live(l)' => Hearing(live[l].socket)'
    BY <1>4, <1>5, <1>6 DEF Places, NoLive, Live, Hearing
  <2>5. \A l, m \in Keys : Live(l)' /\ live'[l].socket = live'[m].socket => l = m
    BY <1>4, <1>5 DEF Places, NoLive, Live
  <2> QED BY <1>2, <1>6, <2>1, <2>2, <2>3, <2>4, <2>5 DEF Places
<1>9. OneHomePerTarget'
  <2>1. \A l \in Keys : (Live(l)' \/ Dead(l)') => (Live(l) \/ Dead(l))
    BY <1>3, <1>4 DEF Live, Dead
  <2>2. \A l \in Keys : ~(Live(l)' /\ Dead(l)')
    BY <1>4, <1>5 DEF OneHomePerTarget, Live, Dead, NoLive
  <2> QED BY <2>1, <2>2 DEF OneHomePerTarget
<1>10. Distinct'
  BY <1>7 DEF Distinct
<1>11. Fresh'
  <2> SUFFICES ASSUME NEW t \in Sockets, NEW l \in Keys,
                      page'[t].phase \in {"unopened", "open"}, ~LiveSocket(t)'
               PROVE  ~At(l, t)'
    BY DEF Fresh
  <2>1. t # s
    BY <1>6
  <2>2. page[t].phase \in {"unopened", "open"} /\ ~LiveSocket(t)
    BY <1>1, <1>4, <1>6, <2>1 DEF LiveSocket
  <2> QED BY <1>7, <2>2 DEF Fresh
<1> QED BY <1>8, <1>9, <1>10, <1>11

(* A registration leaves the page at its new place only. *)
LEMMA RegisterHomes ==
    Homes /\ (\E s \in Sockets, id \in Ids : Register(s, id)) => Homes'
<1> SUFFICES ASSUME Homes, NEW s \in Sockets, NEW id \in Ids, Register(s, id) PROVE Homes'
  OBVIOUS
<1> USE DEF Homes
<1>1. PICK k \in Keys : k = KeyOn(s, id)
  BY DEF KeyOn, Keys, Places, Pages, Register
<1> DEFINE left == {l \in Moved(k) : Live(l)}
<1>0. PICK conn : conn = IF MayRebind(k) THEN tomb[k].conn ELSE s
  OBVIOUS
<1>2. /\ page[s].phase = "open" /\ ~LiveSocket(s) /\ ~Refused(k)
      /\ live' = [l \in Keys |-> IF l = k THEN [socket |-> s, conn |-> conn]
                                 ELSE IF l \in left THEN NoLive ELSE live[l]]
      /\ tomb' = [l \in Keys |-> IF l = k \/ l \in Moved(k) THEN NoTomb ELSE tomb[l]]
      /\ page' = Closing({live[l].socket : l \in left})
      /\ opened' = opened /\ disposed' = disposed
  BY <1>0, <1>1 DEF Register
<1>3. /\ conn \in Sockets /\ (conn = s \/ conn = tomb[k].conn)
      /\ live'[k] = [socket |-> s, conn |-> conn] /\ tomb'[k] = NoTomb
  BY <1>0, <1>1, <1>2 DEF MayRebind, Dead, Places
<1>4. \A l \in Moved(k) : l \in Keys /\ live'[l] = NoLive /\ tomb'[l] = NoTomb
  <2> SUFFICES ASSUME NEW l \in Moved(k) PROVE l \in Keys /\ live'[l] = NoLive /\ tomb'[l] = NoTomb
    OBVIOUS
  <2>1. l \in Keys /\ l # k
    BY DEF Moved
  <2>2. CASE Live(l)
    BY <1>2, <2>1, <2>2
  <2>3. CASE ~Live(l)
    <3>1. live[l] = NoLive
      BY <2>1, <2>3 DEF Live, NoLive, Places, Lives
    <3> QED BY <1>2, <2>1, <2>3, <3>1
  <2> QED BY <2>2, <2>3
<1>5. \A l \in Keys : l # k /\ l \notin Moved(k) => live'[l] = live[l] /\ tomb'[l] = tomb[l]
  BY <1>2
<1>6. ~Live(k) /\ live[k].conn = 0
  BY <1>1, <1>2 DEF Refused, Live, Places
<1>7. \A l \in Keys : live[l].socket # s
  BY <1>2 DEF LiveSocket
<1>8. page' \in [Sockets -> Pages]
      /\ \A t \in Sockets :
           /\ page'[t].phase = "unopened" <=> page[t].phase = "unopened"
           /\ page'[t].phase = "open" => page[t].phase = "open"
           /\ page'[t].phase \in {"open", "closing"} <=> Hearing(t)
           /\ (\A l \in left : live[l].socket # t) => page'[t] = page[t]
  BY <1>2, ClosingLemma DEF Places
<1>9. \A l \in Keys, x \in Sockets :
        /\ l # k => (At(l, x)' => At(l, x))
        /\ At(k, x)' => x = s \/ At(k, x)
  BY <1>3, <1>4, <1>5 DEF At, NoLive, NoTomb, Sockets
<1>10. \A l \in Keys : ~At(l, s)
  BY <1>2 DEF Fresh
<1>11. Places'
  <2>1. live' \in [Keys -> Lives] /\ tomb' \in [Keys -> Tombs]
    BY <1>1, <1>2, <1>3 DEF Places, NoLive, NoTomb, Lives, Tombs, Sockets
  <2>2. \A t \in Sockets : t > opened' => page'[t].phase = "unopened"
    BY <1>2, <1>8 DEF Places
  <2>3. \A l \in Keys : /\ live'[l].socket \in Sockets \cup {0}
                        /\ live'[l].conn \in Sockets \cup {0}
                        /\ tomb'[l].conn \in Sockets \cup {0}
                        /\ live'[l].socket = 0 <=> live'[l].conn = 0
    BY <1>3, <1>4, <1>5 DEF Places, NoLive, NoTomb, Sockets
  <2>4. \A l \in Keys : Live(l)' => Hearing(live[l].socket)'
    BY <1>2, <1>3, <1>4, <1>5, <1>8 DEF Places, NoLive, Live, Hearing
  <2>5. \A l, m \in Keys : Live(l)' /\ live'[l].socket = live'[m].socket => l = m
    BY <1>3, <1>4, <1>5, <1>7 DEF Places, NoLive, Live
  <2> QED BY <1>2, <1>8, <2>1, <2>2, <2>3, <2>4, <2>5 DEF Places
<1>12. OneHomePerTarget'
  <2>1. \A l \in Keys : l.id = k.id /\ (Live(l)' \/ Dead(l)') => l = k
    BY <1>4 DEF Moved, Live, Dead, NoLive, NoTomb
  <2>2. \A l \in Keys : ~(Live(l)' /\ Dead(l)')
    BY <1>3, <1>4, <1>5 DEF OneHomePerTarget, Live, Dead, NoLive, NoTomb
  <2>3. \A l \in Keys : l # k /\ (Live(l)' \/ Dead(l)') => (Live(l) \/ Dead(l))
    BY <1>4, <1>5 DEF Live, Dead, NoLive, NoTomb
  <2> QED BY <2>1, <2>2, <2>3 DEF OneHomePerTarget
<1>13. Distinct'
  BY <1>1, <1>9, <1>10 DEF Distinct
<1>14. Fresh'
  <2> SUFFICES ASSUME NEW t \in Sockets, NEW l \in Keys,
                      page'[t].phase \in {"unopened", "open"}, ~LiveSocket(t)'
               PROVE  ~At(l, t)'
    BY DEF Fresh
  <2>1. t # s
    BY <1>1, <1>3 DEF LiveSocket
  <2>2. page[t].phase \in {"unopened", "open"}
    BY <1>8
  <2>3. CASE ~LiveSocket(t)
    BY <1>9, <2>1, <2>2, <2>3 DEF Fresh
  <2>4. CASE LiveSocket(t)
    <3>1. PICK m \in Keys : live[m].socket = t
      BY <2>4 DEF LiveSocket
    <3>2. m \in Moved(k) /\ Live(m)
      BY <1>1, <1>4, <1>5, <1>6, <3>1 DEF LiveSocket, Live, Sockets
    <3>3. Closing({live[j].socket : j \in left})[t].phase # "open"
      BY <3>1, <3>2 DEF Closing, Places, Pages
    <3>4. page[t].phase # "unopened"
      BY <3>1, <3>2 DEF Places, Hearing
    <3> QED BY <1>2, <1>8, <3>3, <3>4
  <2> QED BY <2>3, <2>4
<1> QED BY <1>11, <1>12, <1>13, <1>14

LEMMA AttachHomes == Homes /\ (\E o \in Origins : Attach(o)) => Homes'
<1> SUFFICES ASSUME Homes, NEW o \in Origins, Attach(o) PROVE Homes'
  OBVIOUS
<1> USE DEF Homes
<1>1. /\ opened' = opened + 1 /\ opened' \in Sockets
      /\ page' = [page EXCEPT ![opened'] = [phase |-> "open", origin |-> o]]
      /\ live' = live /\ tomb' = tomb /\ disposed' = disposed
  BY DEF Attach, Places, Sockets
<1>2. page[opened'].phase = "unopened"
  BY <1>1 DEF Places
<1>3. /\ page' \in [Sockets -> Pages] /\ page'[opened'].phase = "open"
      /\ \A t \in Sockets : t # opened' => page'[t] = page[t]
  BY <1>1 DEF Places, Pages
<1>4. Places'
  <2>1. \A s \in Sockets : s > opened' => page'[s].phase = "unopened"
    BY <1>1, <1>3 DEF Places, Sockets
  <2>2. \A k \in Keys : Live(k)' => Hearing(live[k].socket)'
    BY <1>1, <1>2, <1>3 DEF Places, Live, Hearing
  <2>3. opened' \in 0..MaxSockets
    BY <1>1 DEF Sockets
  <2> QED BY <1>1, <1>3, <2>1, <2>2, <2>3 DEF Places, Live
<1>5. OneHomePerTarget' /\ Distinct'
  BY <1>1 DEF OneHomePerTarget, Distinct, At, Live, Dead
<1>6. Fresh'
  BY <1>1, <1>2, <1>3 DEF Fresh, At, LiveSocket
<1> QED BY <1>4, <1>5, <1>6

LEMMA OtherClosedHomes == Homes /\ (\E s \in Sockets : OtherClosed(s)) => Homes'
<1> SUFFICES ASSUME Homes, NEW s \in Sockets, OtherClosed(s) PROVE Homes'
  OBVIOUS
<1> USE DEF Homes
<1>1. /\ page' = [page EXCEPT ![s].phase = "closed"]
      /\ Hearing(s) /\ ~LiveSocket(s)
      /\ live' = live /\ tomb' = tomb /\ opened' = opened /\ disposed' = disposed
  BY DEF OtherClosed
<1>2. /\ page' \in [Sockets -> Pages] /\ page'[s].phase = "closed"
      /\ \A t \in Sockets : t # s => page'[t] = page[t]
  BY <1>1 DEF Places, Pages
<1>3. Places'
  <2>1. \A t \in Sockets : t > opened' => page'[t].phase = "unopened"
    BY <1>1, <1>2 DEF Places, Hearing
  <2>2. \A k \in Keys : Live(k)' => Hearing(live[k].socket)'
    BY <1>1, <1>2 DEF Places, Live, Hearing, LiveSocket
  <2> QED BY <1>1, <1>2, <2>1, <2>2 DEF Places, Live
<1>4. OneHomePerTarget' /\ Distinct'
  BY <1>1 DEF OneHomePerTarget, Distinct, At, Live, Dead
<1>5. Fresh'
  BY <1>1, <1>2 DEF Fresh, At, LiveSocket
<1> QED BY <1>3, <1>4, <1>5

LEMMA DisposeHomes == Homes /\ Dispose => Homes'
<1> SUFFICES ASSUME Homes, Dispose PROVE Homes'
  OBVIOUS
<1> USE DEF Homes
<1> DEFINE S == {live[k].socket : k \in LiveKeys}
<1>1. /\ page' = Closing(S) /\ opened' = opened /\ disposed' = TRUE
      /\ live' = [k \in Keys |-> NoLive] /\ tomb' = [k \in Keys |-> NoTomb]
  BY DEF Dispose
<1>2. \A k \in Keys : live'[k] = NoLive /\ tomb'[k] = NoTomb
  BY <1>1
<1>3. \A k \in Keys : ~Live(k)' /\ ~Dead(k)' /\ \A x : ~At(k, x)'
  BY <1>2 DEF Live, Dead, At, NoLive, NoTomb
<1>4. page \in [Sockets -> Pages]
  BY DEF Places
<1>5. Places'
  <2>1. live' \in [Keys -> Lives] /\ tomb' \in [Keys -> Tombs]
    BY <1>1 DEF NoLive, NoTomb, Lives, Tombs
  <2>2. \A s \in Sockets : s > opened' => page'[s].phase = "unopened"
    BY <1>1, <1>4, ClosingLemma DEF Places
  <2>3. disposed' \in BOOLEAN
    BY <1>1, Zenon
  <2>4. page' \in [Sockets -> Pages]
    BY <1>1, <1>4, ClosingLemma
  <2> QED BY <1>1, <1>2, <1>3, <2>1, <2>2, <2>3, <2>4 DEF Places, NoLive, NoTomb
<1> QED BY <1>3, <1>5 DEF OneHomePerTarget, Fresh, Distinct

(* No step breaks the order of targets and sockets. *)
LEMMA NextHomes == Homes /\ [Next]_vars => Homes'
<1> SUFFICES ASSUME Homes, [Next]_vars PROVE Homes'
  OBVIOUS
<1>0. Closing({}) = page
  BY DEF Homes, Places, Closing
<1>1. ASSUME UNCHANGED <<opened, page, live, tomb, disposed>> PROVE Homes'
  BY <1>0, <1>1, QuietHomes
<1>2. CASE SocketStep
  <2>1. ASSUME NEW s \in Sockets, StartClosing(s) PROVE Homes'
    BY <2>1, QuietHomes DEF StartClosing
  <2>2. ASSUME NEW s \in Sockets, NEW id \in Ids, RegisterRefused(s, id) PROVE Homes'
    BY <2>2, QuietHomes DEF RegisterRefused
  <2>3. ASSUME NEW s \in Sockets, NEW c \in Calls, Accept(s, c) \/ Result(s, c) PROVE Homes'
    BY <1>1, <2>3 DEF Accept, Result
  <2> QED BY <1>2, <2>1, <2>2, <2>3, AttachHomes, ClosedHomes, OtherClosedHomes,
             RegisterHomes DEF SocketStep
<1>3. CASE HostStep
  BY <1>1, <1>3 DEF HostStep, RevokeGrant, Offer, Request, Cancel
<1>4. CASE TimerStep
  <2>1. ASSUME NEW k \in Keys, Age(k) PROVE Homes'
    <3>1. /\ tomb' = [tomb EXCEPT ![k].age = IF @ = "within" THEN "edge" ELSE "past"]
          /\ UNCHANGED <<opened, page, live, disposed>>
      BY <2>1 DEF Age
    <3>2. tomb \in [Keys -> Tombs]
      BY DEF Homes, Places
    <3>3. tomb' \in [Keys -> Tombs] /\ \A l \in Keys : tomb'[l].conn \in {tomb[l].conn, 0}
      BY <3>1, <3>2 DEF Tombs
    <3> QED BY <1>0, <3>1, <3>3, FewerTombsHomes
  <2>2. ASSUME NEW silent \in SUBSET LiveKeys, Sweep(silent) PROVE Homes'
    <3> DEFINE old == {k \in Keys : Dead(k) /\ tomb[k].age # "within"}
    <3>1. /\ page' = Closing({live[k].socket : k \in silent})
          /\ tomb' = [k \in Keys |-> IF k \in old THEN NoTomb ELSE tomb[k]]
          /\ UNCHANGED <<opened, live, disposed>>
      BY <2>2 DEF Sweep
    <3>2. tomb \in [Keys -> Tombs]
      BY DEF Homes, Places
    <3>3. tomb' \in [Keys -> Tombs] /\ \A l \in Keys : tomb'[l].conn \in {tomb[l].conn, 0}
      BY <3>1, <3>2 DEF Tombs, NoTomb
    <3> QED BY <3>1, <3>3, FewerTombsHomes
  <2> QED BY <1>4, <2>1, <2>2 DEF TimerStep
<1>5. CASE Dispose
  BY <1>5, DisposeHomes
<1>6. CASE UNCHANGED vars
  BY <1>1, <1>6 DEF vars
<1> QED BY <1>2, <1>3, <1>4, <1>5, <1>6 DEF Next

-----------------------------------------------------------------------------
(* Grants and calls. *)
HeldTargets == \A g \in Grants : Held(store, g) => store[g].target \in Targets

(* Disposal leaves no target and no work. *)
Over ==
    disposed => /\ \A k \in Keys : ~Live(k) /\ ~Dead(k)
                /\ \A c \in Calls : ~Pending(c)

Authority ==
    /\ store \in Stores
    /\ call \in [Calls -> CallRecords]
    /\ ran \in [Sockets -> SUBSET (Calls \X BOOLEAN)]
    /\ HeldTargets /\ GrantFollowsTarget /\ NoDeadWork /\ Over

LEMMA SettledLemma ==
    ASSUME NEW cs \in [Calls -> CallRecords], NEW C
    PROVE  /\ Settled(cs, C) \in [Calls -> CallRecords]
           /\ \A c \in Calls :
                /\ Settled(cs, C)[c].grant = cs[c].grant
                /\ Settled(cs, C)[c].read = cs[c].read
                /\ Settled(cs, C)[c].conn = cs[c].conn
                /\ Settled(cs, C)[c].captured = cs[c].captured
                /\ Settled(cs, C)[c].accepted = cs[c].accepted
                /\ Settled(cs, C)[c].retried = cs[c].retried
                /\ c \in C => Settled(cs, C)[c].status = "done"
                /\ c \notin C => Settled(cs, C)[c] = cs[c]
  BY DEF Settled, CallRecords

LEMMA SettledTwice ==
    ASSUME NEW cs \in [Calls -> CallRecords], NEW C, NEW D
    PROVE  Settled(Settled(cs, C), D) = Settled(cs, C \cup D)
  BY DEF Settled, CallRecords

LEMMA WithoutLemma ==
    ASSUME NEW st \in Stores, NEW R
    PROVE  /\ Without(st, R) \in Stores
           /\ \A g \in Grants :
                /\ Without(st, R)[g].target = st[g].target
                /\ Held(Without(st, R), g) <=> Held(st, g) /\ g \notin R
  BY DEF Without, Stores, GrantRecord, Held

LEMMA WithoutNone == ASSUME NEW st \in Stores PROVE Without(st, {}) = st
  BY DEF Without, Stores

(* A held grant names a target and the connection it goes by. *)
LEMMA HeldLemma ==
    ASSUME Homes, Authority, NEW g \in Grants, Held(store, g)
    PROVE  /\ store[g].target.key \in Keys
           /\ store[g].target.conn \in Sockets
           /\ ~disposed => At(store[g].target.key, store[g].target.conn)
<1>1. store[g].target \in Targets
  BY DEF Authority, HeldTargets
<1>2. store[g].target.key \in Keys /\ store[g].target.conn \in Sockets
  BY <1>1
<1> QED BY <1>2 DEF Authority, GrantFollowsTarget, At, Sockets

(* revoke() finds every pending call of the grants it revokes: the calls   *)
(* of a grant are with its target, and that is live or remembered.         *)
LEMMA RevokedCallsComplete ==
    ASSUME Homes, Authority, NEW R, NEW c \in Calls, Pending(c), call[c].grant \in R
    PROVE  c \in RevokedCalls(R)
<1> DEFINE target == store[call[c].grant].target
<1>1. call[c].grant \in Grants /\ Held(store, call[c].grant) /\ call[c].conn = target.conn
  BY DEF Authority, NoDeadWork, CallRecords
<1>2. ~disposed
  BY DEF Authority, Over
<1>3. target.key \in Keys /\ At(target.key, target.conn)
  BY <1>1, <1>2, HeldLemma
<1>4. CASE live[target.key].conn = target.conn
  <2>1. Connected(target)
    BY <1>3, <1>4 DEF Connected, Live, At, Homes, Places
  <2> QED BY <1>1, <2>1 DEF RevokedCalls
<1>5. CASE tomb[target.key].conn = target.conn
  <2>1. Dead(target.key)
    BY <1>3, <1>5 DEF Dead, At
  <2> QED BY <1>1, <1>5, <2>1 DEF RevokedCalls
<1> QED BY <1>3, <1>4, <1>5 DEF At

(* What a step must see to that only ends grants and calls. *)
LEMMA NarrowAuthority ==
    ASSUME Authority, NEW R, store' = Without(store, R),
           call' \in [Calls -> CallRecords],
           \A c \in Calls : /\ call'[c].grant = call[c].grant /\ call'[c].conn = call[c].conn
                            /\ Pending(c)' => Pending(c) /\ call[c].grant \notin R,
           ran' \in [Sockets -> SUBSET (Calls \X BOOLEAN)],
           Over',
           \A g \in Grants : Held(store, g) /\ g \notin R /\ ~disposed' =>
                store[g].target.conn \in {live'[store[g].target.key].conn,
                                          tomb'[store[g].target.key].conn}
    PROVE  Authority'
<1>1. store \in Stores /\ call \in [Calls -> CallRecords]
  BY DEF Authority
<1>2. /\ store' \in Stores
      /\ \A g \in Grants : /\ store'[g].target = store[g].target
                           /\ Held(store', g) <=> Held(store, g) /\ g \notin R
  BY <1>1, WithoutLemma
<1>3. HeldTargets' /\ GrantFollowsTarget'
  BY <1>2 DEF Authority, HeldTargets, GrantFollowsTarget
<1>4. NoDeadWork'
  <2> SUFFICES ASSUME NEW c \in Calls, Pending(c)'
               PROVE  /\ Held(store', call'[c].grant)
                      /\ call'[c].conn = store'[call'[c].grant].target.conn
    BY DEF NoDeadWork
  <2>1. call[c].grant \in Grants
    BY <1>1 DEF CallRecords
  <2>2. Held(store, call[c].grant) /\ call[c].conn = store[call[c].grant].target.conn
    BY DEF Authority, NoDeadWork
  <2> QED BY <1>2, <2>1, <2>2
<1> QED BY <1>2, <1>3, <1>4 DEF Authority

LEMMA InitAuthority == Init => Authority
<1> SUFFICES ASSUME Init PROVE Authority
  OBVIOUS
<1>1. \A g \in Grants : ~Held(store, g)
  BY DEF Init, EmptyStore, Held
<1>2. \A c \in Calls : call[c] = UnusedCall /\ ~Pending(c)
  BY DEF Init, UnusedCall, Pending
<1>3. store \in Stores
  BY DEF Init, EmptyStore, Stores, GrantRecord
<1>4. UnusedCall \in CallRecords
  BY DEF UnusedCall, CallRecords
<1>5. call \in [Calls -> CallRecords] /\ ran \in [Sockets -> SUBSET (Calls \X BOOLEAN)]
  BY <1>4 DEF Init
<1>6. ~disposed
  BY Zenon DEF Init
<1> QED BY <1>1, <1>2, <1>3, <1>5, <1>6
        DEF Authority, HeldTargets, GrantFollowsTarget, NoDeadWork, Over

LEMMA RegisterAuthority ==
    Homes /\ Authority /\ (\E s \in Sockets, id \in Ids : Register(s, id)) => Authority'
<1> SUFFICES ASSUME Homes, Authority, NEW s \in Sockets, NEW id \in Ids, Register(s, id)
             PROVE  Authority'
  OBVIOUS
<1>1. PICK k \in Keys : k = KeyOn(s, id)
  BY DEF KeyOn, Keys, Places, Pages, Register, Homes
<1>2. PICK conn : conn = IF MayRebind(k) THEN tomb[k].conn ELSE s
  OBVIOUS
<1> DEFINE left == {l \in Moved(k) : Live(l)}
           gone == {l \in Moved(k) : Dead(l)} \cup Lapsed(k)
           R1 == UNION {KeyGrants(store, l) : l \in left}
           R2 == UNION {KeyGrants(Without(store, R1), l) : l \in gone}
           C1 == RevokedCalls(R1)
           C2 == RevokedCalls(R2) \cup UNION {PendingOf(tomb[l].conn) : l \in gone}
           mid == Settled(Settled(call, C1), C2)
           again == IF MayRebind(k)
                    THEN {c \in Retryable(conn) : mid[c].status = "pending"} ELSE {}
           rest == Without(Without(store, R1), R2)
<1>3. /\ ~Refused(k) /\ ~disposed /\ disposed' = disposed
      /\ live' = [l \in Keys |-> IF l = k THEN [socket |-> s, conn |-> conn]
                                 ELSE IF l \in left THEN NoLive ELSE live[l]]
      /\ tomb' = [l \in Keys |-> IF l = k \/ l \in Moved(k) THEN NoTomb ELSE tomb[l]]
      /\ store' = IF MayRebind(k) THEN Rebound(rest, k, conn) ELSE rest
      /\ call' = [c \in Calls |-> IF c \in again THEN [mid[c] EXCEPT !.retried = TRUE]
                                  ELSE mid[c]]
      /\ ran' = [ran EXCEPT ![s] = @ \cup {<<c, TRUE>> : c \in again}]
  BY <1>1, <1>2 DEF Register, Expire
<1>4. /\ store \in Stores /\ call \in [Calls -> CallRecords]
      /\ ran \in [Sockets -> SUBSET (Calls \X BOOLEAN)]
  BY DEF Authority
<1>5. ~Live(k) /\ live[k].conn = 0
  BY <1>3 DEF Refused, Live, Homes, Places
<1>6. /\ Without(store, R1) \in Stores /\ rest \in Stores /\ rest = Without(store, R1 \cup R2)
      /\ \A g \in Grants : Held(rest, g) <=> Held(store, g) /\ g \notin R1 \cup R2
      /\ \A g \in Grants : rest[g].target = store[g].target
  <2>1. rest = Without(store, R1 \cup R2)
    BY <1>4 DEF Without, Stores, GrantRecord, Held
  <2> QED BY <1>4, <2>1, WithoutLemma
<1>7. \A l \in gone : l \in Keys /\ Dead(l)
  BY <1>1 DEF Moved, Lapsed
<1>8. \A g \in Grants : Held(store, g) /\ g \notin R1 \cup R2 =>
        /\ store[g].target.key \notin left \cup gone
        /\ store[g].target.key \in Keys /\ store[g].target.conn \in Sockets
        /\ At(store[g].target.key, store[g].target.conn)
  <2> SUFFICES ASSUME NEW g \in Grants, Held(store, g), g \notin R1 \cup R2
               PROVE  store[g].target.key \notin left \cup gone
    BY <1>3, HeldLemma
  <2>1. Held(Without(store, R1), g) /\ Without(store, R1)[g].target = store[g].target
    BY <1>4, WithoutLemma
  <2> DEFINE key == store[g].target.key
  <2>2. g \in KeyGrants(store, key) /\ g \in KeyGrants(Without(store, R1), key)
    BY <2>1 DEF KeyGrants
  <2>3. key \in left => g \in R1
    BY <2>2
  <2>4. key \in gone => g \in R2
    <3> HIDE DEF gone, R1, key
    <3> QED BY <2>2
  <2> QED BY <2>3, <2>4
<1>9. \A g \in Grants : Held(store, g) /\ g \notin R1 \cup R2 =>
        /\ store[g].target.conn \in {live'[store[g].target.key].conn,
                                     tomb'[store[g].target.key].conn}
        /\ MayRebind(k) /\ store[g].target.key = k => store[g].target.conn = conn
  <2> SUFFICES ASSUME NEW g \in Grants, Held(store, g), g \notin R1 \cup R2
               PROVE  /\ store[g].target.conn \in {live'[store[g].target.key].conn,
                                                   tomb'[store[g].target.key].conn}
                      /\ MayRebind(k) /\ store[g].target.key = k => store[g].target.conn = conn
    OBVIOUS
  <2> DEFINE key == store[g].target.key
  <2>1. key \notin left \cup gone /\ key \in Keys /\ At(key, store[g].target.conn)
    BY <1>8
  <2>2. Live(key) \/ Dead(key)
    BY <2>1 DEF At, Live, Dead, Homes, Places
  <2>3. key \notin Moved(k)
    BY <2>1, <2>2
  <2>4. CASE key = k
    <3>1. MayRebind(k) /\ store[g].target.conn = tomb[k].conn
      BY <1>5, <2>1, <2>2, <2>4 DEF Lapsed, At
    <3> QED BY <1>2, <1>3, <2>4, <3>1
  <2>5. CASE key # k
    <3>1. live'[key] = live[key] /\ tomb'[key] = tomb[key]
      BY <1>3, <2>1, <2>3, <2>5
    <3> QED BY <2>1, <2>5, <3>1 DEF At
  <2> QED BY <2>4, <2>5
<1>10. store' = Without(store, R1 \cup R2)
  <2>1. CASE MayRebind(k)
    <3>1. \A g \in KeyGrants(rest, k) : [rest[g] EXCEPT !.target.conn = conn] = rest[g]
      <4> SUFFICES ASSUME NEW g \in KeyGrants(rest, k)
                   PROVE  [rest[g] EXCEPT !.target.conn = conn] = rest[g]
        OBVIOUS
      <4>1. g \in Grants /\ Held(rest, g) /\ rest[g].target.key = k
        BY DEF KeyGrants
      <4>2. Held(store, g) /\ g \notin R1 \cup R2 /\ rest[g].target = store[g].target
        BY <1>6, <4>1
      <4>3. rest[g].target.conn = conn
        BY <1>9, <2>1, <4>1, <4>2
      <4>4. rest[g].target \in [key : Keys, conn : Sockets]
        BY <4>1, <4>2 DEF Authority, HeldTargets
      <4>5. rest[g] \in GrantRecord
        BY <1>6, <4>1 DEF Stores
      <4> HIDE DEF rest
      <4>6. [rest[g].target EXCEPT !.conn = conn] = rest[g].target
        BY <4>3, <4>4
      <4> QED BY <4>5, <4>6 DEF GrantRecord
    <3>2. Rebound(rest, k, conn) = rest
      <4> HIDE DEF rest
      <4> QED BY <1>6, <3>1 DEF Rebound, Stores
    <3> QED BY <1>3, <1>6, <2>1, <3>2
  <2>2. CASE ~MayRebind(k)
    BY <1>3, <1>6, <2>2
  <2> QED BY <2>1, <2>2
<1>11. /\ mid \in [Calls -> CallRecords]
       /\ \A c \in Calls : /\ mid[c].grant = call[c].grant /\ mid[c].conn = call[c].conn
                           /\ mid[c].status = "pending" =>
                                Pending(c) /\ c \notin C1 \cup C2
  <2> HIDE DEF C1, C2
  <2>1. mid = Settled(call, C1 \cup C2)
    BY <1>4, SettledTwice
  <2> HIDE DEF mid
  <2> QED BY <1>4, <2>1, SettledLemma DEF Pending
<1> HIDE DEF mid
<1>12. call' \in [Calls -> CallRecords]
       /\ \A c \in Calls : /\ call'[c].grant = call[c].grant /\ call'[c].conn = call[c].conn
                           /\ Pending(c)' => Pending(c) /\ call[c].grant \notin R1 \cup R2
  <2>0. \A c \in Calls : call[c].grant \in R1 \cup R2 /\ Pending(c) => c \in C1 \cup C2
    <3>1. \A c \in Calls : call[c].grant \in R1 /\ Pending(c) => c \in C1
      <4> HIDE DEF R1
      <4> QED BY RevokedCallsComplete
    <3>2. \A c \in Calls : call[c].grant \in R2 /\ Pending(c) => c \in RevokedCalls(R2)
      <4> HIDE DEF R2
      <4> QED BY RevokedCallsComplete
    <3> QED BY <3>1, <3>2
  <2> HIDE DEF again, C1, C2, R1, R2
  <2>1. call' \in [Calls -> CallRecords]
    BY ZenonT(60), <1>3, <1>11 DEF CallRecords
  <2>2. \A c \in Calls : /\ call'[c].grant = mid[c].grant /\ call'[c].conn = mid[c].conn
                         /\ call'[c].status = mid[c].status
    BY <1>3, <1>11 DEF CallRecords
  <2> QED BY <1>11, <2>0, <2>1, <2>2 DEF Pending
<1>13. ran' \in [Sockets -> SUBSET (Calls \X BOOLEAN)]
  <2>1. again \subseteq Calls
    BY DEF Retryable, PendingOf
  <2> HIDE DEF again
  <2>2. {<<c, TRUE>> : c \in again} \subseteq Calls \X BOOLEAN
    <3>1. \A c \in again : <<c, TRUE>> \in Calls \X BOOLEAN
      BY <2>1
    <3> QED BY <3>1, Zenon
  <2> DEFINE sent == {<<c, TRUE>> : c \in again}
  <2>3. ran' = [ran EXCEPT ![s] = @ \cup sent]
    BY <1>3
  <2> HIDE DEF sent
  <2> QED BY <1>4, <2>2, <2>3 DEF sent
<1>14. Over'
  BY <1>3 DEF Over
<1> QED BY ZenonT(60), <1>3, <1>9, <1>10, <1>12, <1>13, <1>14, NarrowAuthority

LEMMA SweepAuthority ==
    Homes /\ Authority /\ (\E silent \in SUBSET LiveKeys : Sweep(silent)) => Authority'
<1> SUFFICES ASSUME Homes, Authority, NEW silent \in SUBSET LiveKeys, Sweep(silent)
             PROVE  Authority'
  OBVIOUS
<1> DEFINE old == {k \in Keys : Dead(k) /\ tomb[k].age # "within"}
           R == UNION {KeyGrants(store, k) : k \in old}
           C == RevokedCalls(R) \cup UNION {PendingOf(tomb[k].conn) : k \in old}
<1>1. /\ ~disposed /\ disposed' = disposed /\ live' = live /\ ran' = ran
      /\ tomb' = [k \in Keys |-> IF k \in old THEN NoTomb ELSE tomb[k]]
      /\ call' = Settled(call, C) /\ store' = Without(store, R)
  BY DEF Sweep, Expire
<1>2. /\ call \in [Calls -> CallRecords]
      /\ ran \in [Sockets -> SUBSET (Calls \X BOOLEAN)]
  BY DEF Authority
<1>3. call' \in [Calls -> CallRecords]
      /\ \A c \in Calls : /\ call'[c].grant = call[c].grant /\ call'[c].conn = call[c].conn
                          /\ Pending(c)' => Pending(c) /\ call[c].grant \notin R
  <2>1. \A c \in Calls : Pending(c) /\ call[c].grant \in R => c \in C
    BY RevokedCallsComplete
  <2> HIDE DEF C
  <2> QED BY <1>1, <1>2, <2>1, SettledLemma DEF Pending
<1>4. \A g \in Grants : Held(store, g) /\ g \notin R =>
        store[g].target.conn \in {live'[store[g].target.key].conn,
                                  tomb'[store[g].target.key].conn}
  <2> SUFFICES ASSUME NEW g \in Grants, Held(store, g), g \notin R
               PROVE  store[g].target.conn \in {live'[store[g].target.key].conn,
                                                tomb'[store[g].target.key].conn}
    OBVIOUS
  <2>1. store[g].target.key \notin old
    BY DEF KeyGrants
  <2> QED BY <1>1, <2>1, HeldLemma DEF At
<1>5. Over'
  BY <1>1 DEF Over
<1> QED BY <1>1, <1>2, <1>3, <1>4, <1>5, NarrowAuthority

(* Steps that end no grant and settle some calls at most. *)
LEMMA SettleAuthority ==
    ASSUME Authority, NEW C, store' = store, call' = Settled(call, C), ran' = ran,
           live' = live, tomb' = tomb, disposed' = disposed
    PROVE  Authority'
<1>1. store \in Stores /\ call \in [Calls -> CallRecords]
  BY DEF Authority
<1>2. store' = Without(store, {})
  BY <1>1, WithoutNone
<1>3. call' \in [Calls -> CallRecords]
      /\ \A c \in Calls : /\ call'[c].grant = call[c].grant /\ call'[c].conn = call[c].conn
                          /\ Pending(c)' => Pending(c) /\ call[c].grant \notin {}
  BY <1>1, SettledLemma DEF Pending
<1>4. Over'
  BY <1>3 DEF Authority, Over, Live, Dead
<1>5. \A g \in Grants : Held(store, g) /\ g \notin {} /\ ~disposed' =>
        store[g].target.conn \in {live'[store[g].target.key].conn,
                                  tomb'[store[g].target.key].conn}
  BY DEF Authority, GrantFollowsTarget
<1> QED BY <1>2, <1>3, <1>4, <1>5, NarrowAuthority DEF Authority

LEMMA ClosedAuthority ==
    Homes /\ Authority /\ (\E s \in Sockets : LiveClosed(s)) => Authority'
<1> SUFFICES ASSUME Homes, Authority, NEW s \in Sockets, LiveClosed(s) PROVE Authority'
  OBVIOUS
<1>1. PICK k \in Keys :
        /\ live[k].socket = s
        /\ live' = [live EXCEPT ![k] = NoLive]
        /\ tomb' = [tomb EXCEPT ![k] = [conn |-> live[k].conn, age |-> "within"]]
        /\ call' = Settled(call, Doomed(live[k].conn))
  BY DEF LiveClosed, Departed
<1>2. store' = store /\ ran' = ran /\ disposed' = disposed
  BY DEF LiveClosed
<1>3. store \in Stores /\ call \in [Calls -> CallRecords]
  BY DEF Authority
<1>4. store' = Without(store, {})
  BY <1>2, <1>3, WithoutNone
<1>5. call' \in [Calls -> CallRecords]
      /\ \A c \in Calls : /\ call'[c].grant = call[c].grant /\ call'[c].conn = call[c].conn
                          /\ Pending(c)' => Pending(c) /\ call[c].grant \notin {}
  BY <1>1, <1>3, SettledLemma DEF Pending
<1>6. Live(k) /\ ~Dead(k) /\ ~disposed
  BY <1>1 DEF Live, Homes, OneHomePerTarget, Authority, Over, Sockets
<1>7. \A g \in Grants : Held(store, g) /\ g \notin {} /\ ~disposed' =>
        store[g].target.conn \in {live'[store[g].target.key].conn,
                                  tomb'[store[g].target.key].conn}
  <2> SUFFICES ASSUME NEW g \in Grants, Held(store, g)
               PROVE  store[g].target.conn \in {live'[store[g].target.key].conn,
                                                tomb'[store[g].target.key].conn}
    OBVIOUS
  <2> DEFINE key == store[g].target.key
  <2>1. key \in Keys /\ At(key, store[g].target.conn)
    BY <1>6, HeldLemma
  <2>2. CASE key = k
    <3>1. store[g].target.conn = live[k].conn
      BY <1>6, <2>1, <2>2 DEF At, Dead
    <3>2. tomb'[k].conn = live[k].conn
      BY <1>1 DEF Homes, Places
    <3> QED BY <2>2, <3>1, <3>2
  <2>3. CASE key # k
    BY <1>1, <2>1, <2>3 DEF At, Homes, Places
  <2> QED BY <2>2, <2>3
<1>8. Over'
  BY <1>2, <1>6 DEF Over
<1> QED BY <1>2, <1>4, <1>5, <1>7, <1>8, NarrowAuthority DEF Authority

LEMMA RevokeAuthority ==
    Homes /\ Authority /\ (\E g \in Grants : RevokeGrant(g)) => Authority'
<1> SUFFICES ASSUME Homes, Authority, NEW g \in Grants, RevokeGrant(g) PROVE Authority'
  OBVIOUS
<1> DEFINE C == RevokedCalls({g})
<1>1. /\ call' = Settled(call, C) /\ store' = Without(store, {g})
      /\ live' = live /\ tomb' = tomb /\ ran' = ran /\ disposed' = disposed
  BY DEF RevokeGrant
<1>2. call \in [Calls -> CallRecords]
  BY DEF Authority
<1>3. \A c \in Calls : Pending(c) /\ call[c].grant \in {g} => c \in C
  BY RevokedCallsComplete
<1> HIDE DEF C
<1>4. call' \in [Calls -> CallRecords]
      /\ \A c \in Calls : /\ call'[c].grant = call[c].grant /\ call'[c].conn = call[c].conn
                          /\ Pending(c)' => Pending(c) /\ call[c].grant \notin {g}
  BY <1>1, <1>2, <1>3, SettledLemma DEF Pending
<1>5. Over'
  BY <1>1, <1>4 DEF Authority, Over, Live, Dead
<1>6. \A h \in Grants : Held(store, h) /\ h \notin {g} /\ ~disposed' =>
        store[h].target.conn \in {live'[store[h].target.key].conn,
                                  tomb'[store[h].target.key].conn}
  BY <1>1 DEF Authority, GrantFollowsTarget
<1> QED BY <1>1, <1>4, <1>5, <1>6, NarrowAuthority DEF Authority

LEMMA DisposeAuthority == Homes /\ Authority /\ Dispose => Authority'
<1> SUFFICES ASSUME Homes, Authority, Dispose PROVE Authority'
  OBVIOUS
<1> DEFINE C == UNION {PendingOf(live[k].conn) \cup PendingOf(tomb[k].conn) : k \in Keys}
<1>1. /\ ~disposed /\ disposed' = TRUE
      /\ call' = Settled(call, C) /\ store' = store /\ ran' = ran
      /\ live' = [k \in Keys |-> NoLive] /\ tomb' = [k \in Keys |-> NoTomb]
  BY DEF Dispose
<1>2. store \in Stores /\ call \in [Calls -> CallRecords]
  BY DEF Authority
<1>3. store' = Without(store, {})
  BY <1>1, <1>2, WithoutNone
<1>4. \A c \in Calls : Pending(c) => c \in C
  <2> SUFFICES ASSUME NEW c \in Calls, Pending(c) PROVE c \in C
    OBVIOUS
  <2> DEFINE target == store[call[c].grant].target
  <2>1. call[c].grant \in Grants /\ Held(store, call[c].grant) /\ call[c].conn = target.conn
    BY <1>2 DEF Authority, NoDeadWork, CallRecords
  <2>2. target.key \in Keys /\ At(target.key, call[c].conn)
    BY <1>1, <2>1, HeldLemma
  <2>3. c \in PendingOf(live[target.key].conn) \cup PendingOf(tomb[target.key].conn)
    BY <2>2 DEF PendingOf, At
  <2> HIDE DEF target
  <2> QED BY <2>2, <2>3
<1> HIDE DEF C
<1>5. call' \in [Calls -> CallRecords]
      /\ \A c \in Calls : /\ call'[c].grant = call[c].grant /\ call'[c].conn = call[c].conn
                          /\ ~Pending(c)'
  BY <1>1, <1>2, <1>4, SettledLemma DEF Pending
<1>6. Over'
  BY <1>1, <1>5 DEF Over, Live, Dead, NoLive, NoTomb
<1> QED BY <1>1, <1>3, <1>5, <1>6, NarrowAuthority DEF Authority

LEMMA OfferAuthority ==
    Homes /\ Authority
    /\ (\E g \in Grants, k \in Keys, session \in Sessions : Offer(g, k, session)) => Authority'
<1> SUFFICES ASSUME Homes, Authority, NEW g \in Grants, NEW k \in Keys,
                    NEW session \in Sessions, Offer(g, k, session)
             PROVE  Authority'
  OBVIOUS
<1>1. /\ CanOffer(store, g) /\ Live(k)
      /\ store' = Offered(store, g, session, [key |-> k, conn |-> live[k].conn])
      /\ UNCHANGED <<live, tomb, call, ran, disposed>>
  BY DEF Offer
<1> DEFINE target == [key |-> k, conn |-> live[k].conn]
<1>2. target \in Targets
  BY <1>1 DEF Homes, Places, Live
<1>3. store \in Stores
  BY DEF Authority
<1>4. /\ store' \in Stores
      /\ store'[g].target = target
      /\ \A h \in Grants : h # g => store'[h] = store[h]
  BY <1>1, <1>2, <1>3 DEF Offered, Stores, GrantRecord
<1>5. ~Held(store, g)
  BY <1>1 DEF CanOffer, Held
<1>6. HeldTargets' /\ GrantFollowsTarget'
  BY SMTT(30), <1>1, <1>2, <1>4 DEF Authority, HeldTargets, GrantFollowsTarget, Held
<1>7. NoDeadWork'
  BY <1>1, <1>4, <1>5 DEF Authority, NoDeadWork, Held, Pending, CallRecords
<1>8. Over'
  BY <1>1 DEF Authority, Over, Live, Dead, Pending
<1> QED BY <1>1, <1>4, <1>6, <1>7, <1>8 DEF Authority

LEMMA RequestAuthority ==
    Homes /\ Authority
    /\ (\E c \in Calls, g \in Grants, read \in BOOLEAN : Request(c, g, read)) => Authority'
<1> SUFFICES ASSUME Homes, Authority, NEW c \in Calls, NEW g \in Grants,
                    NEW read \in BOOLEAN, Request(c, g, read)
             PROVE  Authority'
  OBVIOUS
<1> DEFINE s == live[store[g].target.key].socket
           sent == [status |-> "pending", grant |-> g, read |-> read,
                    conn |-> store[g].target.conn, captured |-> s,
                    accepted |-> FALSE, retried |-> FALSE]
<1>1. /\ Held(store, g) /\ Connected(store[g].target)
      /\ call' = [call EXCEPT ![c] = sent]
      /\ ran' = [ran EXCEPT ![s] = Taken(s, {<<c, FALSE>>})]
      /\ UNCHANGED <<store, live, tomb, disposed>>
  BY DEF Request
<1>2. store[g].target.key \in Keys /\ store[g].target.conn \in Sockets /\ s \in Sockets
  BY <1>1, HeldLemma DEF Connected, Live, Homes, Places
<1>3. sent \in CallRecords
  BY <1>2 DEF CallRecords, Sockets
<1>4. /\ call' \in [Calls -> CallRecords] /\ call'[c] = sent
      /\ \A d \in Calls : d # c => call'[d] = call[d]
  BY <1>1, <1>3 DEF Authority
<1>5. ran' \in [Sockets -> SUBSET (Calls \X BOOLEAN)]
  <2>1. ran \in [Sockets -> SUBSET (Calls \X BOOLEAN)]
    BY DEF Authority
  <2>2. {<<c, FALSE>>} \subseteq Calls \X BOOLEAN
    <3>1. <<c, FALSE>> \in Calls \X BOOLEAN
      OBVIOUS
    <3> QED BY <3>1, Zenon
  <2> DEFINE frames == {<<c, FALSE>>}
  <2> HIDE DEF frames, s
  <2>3. Taken(s, frames) \in SUBSET (Calls \X BOOLEAN)
    BY <1>2, <2>1, <2>2 DEF Taken, frames
  <2> QED BY <1>1, <2>1, <2>3 DEF frames
<1>6. NoDeadWork'
  BY <1>1, <1>4 DEF Authority, NoDeadWork, Pending
<1>7. ~disposed
  BY <1>1, <1>2 DEF Connected, Authority, Over
<1>8. HeldTargets' /\ GrantFollowsTarget' /\ Over'
  BY <1>1, <1>7 DEF Authority, HeldTargets, GrantFollowsTarget, Over
<1> QED BY <1>1, <1>4, <1>5, <1>6, <1>8 DEF Authority

LEMMA AcceptAuthority ==
    Authority /\ (\E s \in Sockets, c \in Calls : Accept(s, c)) => Authority'
<1> SUFFICES ASSUME Authority, NEW s \in Sockets, NEW c \in Calls, Accept(s, c)
             PROVE  Authority'
  OBVIOUS
<1>1. /\ call' = [call EXCEPT ![c].accepted = TRUE]
      /\ UNCHANGED <<store, live, tomb, ran, disposed>>
  BY DEF Accept
<1>2. /\ call' \in [Calls -> CallRecords]
      /\ \A d \in Calls : /\ call'[d].status = call[d].status
                          /\ call'[d].grant = call[d].grant
                          /\ call'[d].conn = call[d].conn
  BY ZenonT(60), <1>1 DEF Authority, CallRecords
<1>3. NoDeadWork' /\ Over'
  BY <1>1, <1>2 DEF Authority, NoDeadWork, Over, Pending, Live, Dead
<1>4. HeldTargets' /\ GrantFollowsTarget'
  BY <1>1 DEF Authority, HeldTargets, GrantFollowsTarget
<1> QED BY <1>1, <1>2, <1>3, <1>4 DEF Authority

(* Every step keeps grants with their targets and calls with their grants. *)
LEMMA NextAuthority == Homes /\ Authority /\ [Next]_vars => Authority'
<1> SUFFICES ASSUME Homes, Authority, [Next]_vars PROVE Authority'
  OBVIOUS
<1>1. ASSUME UNCHANGED <<store, live, tomb, call, ran, disposed>> PROVE Authority'
  BY <1>1 DEF Authority, HeldTargets, GrantFollowsTarget, NoDeadWork, Over, Live, Dead, Pending
<1>2. CASE SocketStep
  <2>1. ASSUME NEW o \in Origins, Attach(o) PROVE Authority'
    BY <1>1, <2>1 DEF Attach
  <2>2. ASSUME NEW s \in Sockets, StartClosing(s) \/ OtherClosed(s) PROVE Authority'
    BY <1>1, <2>2 DEF StartClosing, OtherClosed
  <2>3. ASSUME NEW s \in Sockets, NEW id \in Ids, RegisterRefused(s, id) PROVE Authority'
    BY <1>1, <2>3 DEF RegisterRefused
  <2>4. ASSUME NEW s \in Sockets, NEW c \in Calls, Result(s, c) PROVE Authority'
    BY <2>4, SettleAuthority DEF Result
  <2> QED BY <1>2, <2>1, <2>2, <2>3, <2>4, ClosedAuthority, RegisterAuthority,
             AcceptAuthority DEF SocketStep
<1>3. CASE HostStep
  <2>1. ASSUME NEW c \in Calls, Cancel(c) PROVE Authority'
    BY <2>1, SettleAuthority DEF Cancel
  <2> QED BY <1>3, <2>1, RevokeAuthority, OfferAuthority, RequestAuthority DEF HostStep
<1>4. CASE TimerStep
  <2>1. ASSUME NEW k \in Keys, Age(k) PROVE Authority'
    <3>1. /\ tomb' = [tomb EXCEPT ![k].age = IF @ = "within" THEN "edge" ELSE "past"]
          /\ UNCHANGED <<store, live, call, ran, disposed>>
      BY <2>1 DEF Age
    <3>2. tomb \in [Keys -> Tombs]
      BY DEF Homes, Places
    <3>3. \A l \in Keys : tomb'[l].conn = tomb[l].conn
      BY <3>1, <3>2 DEF Tombs
    <3>4. GrantFollowsTarget'
      BY <3>1, <3>3, HeldLemma DEF Authority, GrantFollowsTarget
    <3> QED BY <3>1, <3>3, <3>4 DEF Authority, HeldTargets, NoDeadWork, Over, Live, Dead, Pending
  <2> QED BY <1>4, <2>1, SweepAuthority DEF TimerStep
<1>5. CASE Dispose
  BY <1>5, DisposeAuthority
<1>6. CASE UNCHANGED vars
  BY <1>1, <1>6 DEF vars
<1> QED BY <1>2, <1>3, <1>4, <1>5, <1>6 DEF Next

-----------------------------------------------------------------------------
(* What was sent.  A call that waits in a tombstone was not accepted; the  *)
(* first frame of a call goes to the socket it captured, the frame of its  *)
(* retry to one other.                                                     *)
Parked ==
    \A c \in Calls, k \in Keys :
        Pending(c) /\ Dead(k) /\ call[c].conn = tomb[k].conn => ~call[c].accepted

SentOnce ==
    \A c \in Calls :
        /\ call[c].status = "unused" => ~call[c].retried /\ ~call[c].accepted
        /\ \A s \in Sockets :
            /\ <<c, FALSE>> \in ran[s] => call[c].status # "unused" /\ s = call[c].captured
            /\ <<c, TRUE>> \in ran[s] => call[c].retried /\ call[c].read
        /\ \A s, t \in Sockets : <<c, TRUE>> \in ran[s] /\ <<c, TRUE>> \in ran[t] => s = t

Sent == Parked /\ SentOnce

IInv == Homes /\ Authority /\ Sent

LEMMA InitSent == Init => Sent
<1> SUFFICES ASSUME Init PROVE Sent
  OBVIOUS
<1>1. /\ \A c \in Calls : call[c] = UnusedCall
      /\ \A s \in Sockets : ran[s] = {}
  BY DEF Init
<1>2. \A c \in Calls : ~call[c].retried /\ ~call[c].accepted
  <2>1. UnusedCall.retried = FALSE /\ UnusedCall.accepted = FALSE
    BY DEF UnusedCall
  <2> QED BY <1>1, <2>1, Zenon
<1> QED BY <1>1, <1>2 DEF Sent, Parked, SentOnce

(* Steps that send nothing. *)
LEMMA QuietSent ==
    ASSUME Sent, ran' = ran,
           \A c \in Calls :
                /\ call'[c].captured = call[c].captured
                /\ call'[c].retried = call[c].retried
                /\ call'[c].read = call[c].read
                /\ call'[c].status = "unused" <=> call[c].status = "unused"
                /\ call[c].status = "unused" => call'[c].accepted = call[c].accepted,
           Parked'
    PROVE  Sent'
  BY DEF Sent, SentOnce

(* Of those, the ones that settle calls and drop tombstones. *)
LEMMA SettleSent ==
    ASSUME Homes, Authority, Sent, NEW C, call' = Settled(call, C), ran' = ran,
           \A c \in C : c \in Calls => Pending(c),
           \A k \in Keys : tomb'[k].conn \in {tomb[k].conn, 0}
    PROVE  Sent'
<1>1. call \in [Calls -> CallRecords]
  BY DEF Authority
<1>2. \A c \in Calls :
        /\ call'[c].captured = call[c].captured
        /\ call'[c].retried = call[c].retried
        /\ call'[c].read = call[c].read
        /\ call'[c].accepted = call[c].accepted
        /\ call'[c].conn = call[c].conn
        /\ call'[c].status = "unused" <=> call[c].status = "unused"
        /\ Pending(c)' => Pending(c)
  BY <1>1, SettledLemma DEF Pending
<1>3. Parked'
  BY <1>2 DEF Sent, Parked, Dead
<1> QED BY <1>2, <1>3, QuietSent

LEMMA RevokedCallsPending == ASSUME NEW R, NEW c \in RevokedCalls(R) PROVE Pending(c)
  BY DEF RevokedCalls

LEMMA ClosedSent ==
    Homes /\ Authority /\ Sent /\ (\E s \in Sockets : LiveClosed(s)) => Sent'
<1> SUFFICES ASSUME Homes, Authority, Sent, NEW s \in Sockets, LiveClosed(s) PROVE Sent'
  OBVIOUS
<1>1. PICK k \in Keys :
        /\ live[k].socket = s
        /\ tomb' = [tomb EXCEPT ![k] = [conn |-> live[k].conn, age |-> "within"]]
        /\ call' = Settled(call, Doomed(live[k].conn))
  BY DEF LiveClosed
<1>2. ran' = ran
  BY DEF LiveClosed
<1>3. call \in [Calls -> CallRecords]
  BY DEF Authority
<1>4. \A c \in Calls :
        /\ call'[c].captured = call[c].captured
        /\ call'[c].retried = call[c].retried
        /\ call'[c].read = call[c].read
        /\ call'[c].accepted = call[c].accepted
        /\ call'[c].conn = call[c].conn
        /\ call'[c].status = "unused" <=> call[c].status = "unused"
        /\ Pending(c)' => Pending(c) /\ c \notin Doomed(live[k].conn)
  <2>1. \A c \in Doomed(live[k].conn) : Pending(c)
    BY DEF Doomed, PendingOf
  <2> QED BY <1>1, <1>3, <2>1, SettledLemma DEF Pending
<1>5. Parked'
  <2> SUFFICES ASSUME NEW c \in Calls, NEW l \in Keys, Pending(c)', Dead(l)',
                      call'[c].conn = tomb'[l].conn
               PROVE  ~call'[c].accepted
    BY DEF Parked
  <2>1. CASE l = k
    <3>1. c \in PendingOf(live[k].conn)
      BY <1>1, <1>4, <2>1 DEF PendingOf, Homes, Places
    <3> QED BY <1>4, <3>1 DEF Doomed
  <2>2. CASE l # k
    <3>1. tomb'[l] = tomb[l]
      BY <1>1, <2>2 DEF Homes, Places
    <3> QED BY <1>4, <3>1 DEF Sent, Parked, Dead
  <2> QED BY <2>1, <2>2
<1> QED BY <1>2, <1>4, <1>5, QuietSent

LEMMA AcceptSent ==
    Homes /\ Authority /\ Sent /\ (\E s \in Sockets, c \in Calls : Accept(s, c)) => Sent'
<1> SUFFICES ASSUME Homes, Authority, Sent, NEW s \in Sockets, NEW c \in Calls, Accept(s, c)
             PROVE  Sent'
  OBVIOUS
<1>1. /\ call' = [call EXCEPT ![c].accepted = TRUE] /\ Pending(c)
      /\ ran' = ran /\ tomb' = tomb
  BY DEF Accept, Answers
<1>2. PICK k \in Keys : live[k] = [socket |-> s, conn |-> call[c].conn]
  BY DEF Accept, Answers
<1>3. call \in [Calls -> CallRecords]
  BY DEF Authority
<1>4. \A d \in Calls :
        /\ call'[d].captured = call[d].captured
        /\ call'[d].retried = call[d].retried
        /\ call'[d].read = call[d].read
        /\ call'[d].conn = call[d].conn
        /\ call'[d].status = call[d].status
        /\ d # c => call'[d] = call[d]
  BY <1>1, <1>3 DEF CallRecords
<1>5. \A l \in Keys : Dead(l) => tomb[l].conn # call[c].conn
  <2> SUFFICES ASSUME NEW l \in Keys, Dead(l), tomb[l].conn = call[c].conn PROVE FALSE
    OBVIOUS
  <2>1. tomb[l].conn \in Sockets /\ At(l, tomb[l].conn) /\ At(k, tomb[l].conn)
    BY <1>2 DEF Dead, At, Homes, Places
  <2>2. l = k
    BY <2>1 DEF Homes, Distinct
  <2>3. Live(k)
    BY <1>2 DEF Live, Sockets
  <2> QED BY <2>2, <2>3 DEF Homes, OneHomePerTarget
<1>6. Parked'
  BY <1>1, <1>4, <1>5 DEF Sent, Parked, Pending, Dead
<1> QED BY <1>1, <1>4, <1>6, QuietSent DEF Pending

LEMMA RequestSent ==
    Homes /\ Authority /\ Sent
    /\ (\E c \in Calls, g \in Grants, read \in BOOLEAN : Request(c, g, read)) => Sent'
<1> SUFFICES ASSUME Homes, Authority, Sent, NEW c \in Calls, NEW g \in Grants,
                    NEW read \in BOOLEAN, Request(c, g, read)
             PROVE  Sent'
  OBVIOUS
<1>1. PICK s : s = live[store[g].target.key].socket
  OBVIOUS
<1>2. /\ Held(store, g) /\ Connected(store[g].target) /\ call[c].status = "unused"
      /\ call' = [call EXCEPT ![c] =
                    [status |-> "pending", grant |-> g, read |-> read,
                     conn |-> store[g].target.conn, captured |-> s,
                     accepted |-> FALSE, retried |-> FALSE]]
      /\ ran' = [ran EXCEPT ![s] = Taken(s, {<<c, FALSE>>})]
      /\ tomb' = tomb
  BY <1>1 DEF Request
<1>3. s \in Sockets
  BY <1>1, <1>2, HeldLemma DEF Connected, Live, Homes, Places
<1>4. /\ call \in [Calls -> CallRecords]
      /\ ran \in [Sockets -> SUBSET (Calls \X BOOLEAN)]
  BY DEF Authority
<1>5. /\ call'[c].status = "pending" /\ call'[c].captured = s
      /\ ~call'[c].accepted /\ ~call'[c].retried
      /\ \A d \in Calls : d # c => call'[d] = call[d]
  BY <1>2, <1>4
<1>6. \A t \in Sockets : ran[t] \subseteq ran'[t]
      /\ \A d \in Calls, b \in BOOLEAN :
            <<d, b>> \in ran'[t] /\ <<d, b>> \notin ran[t] => d = c /\ b = FALSE /\ t = s
  BY <1>2, <1>3, <1>4 DEF Taken
<1>7. Parked'
  BY <1>2, <1>5 DEF Sent, Parked, Pending, Dead
<1>8. SentOnce'
  <2>1. \A t \in Sockets : <<c, FALSE>> \notin ran[t] /\ <<c, TRUE>> \notin ran[t]
    BY <1>2 DEF Sent, SentOnce
  <2>2. \A t \in Sockets, d \in Calls : <<d, TRUE>> \in ran'[t] => <<d, TRUE>> \in ran[t]
    BY <1>6
  <2>3. \A t \in Sockets, d \in Calls :
            <<d, FALSE>> \in ran'[t] => <<d, FALSE>> \in ran[t] \/ (d = c /\ t = s)
    BY <1>6
  <2>4. \A t \in Sockets : /\ <<c, FALSE>> \in ran'[t] => t = s
                           /\ <<c, TRUE>> \notin ran'[t]
    BY <2>1, <2>2, <2>3
  <2> SUFFICES ASSUME NEW d \in Calls
               PROVE  /\ call'[d].status = "unused" => ~call'[d].retried /\ ~call'[d].accepted
                      /\ \A t \in Sockets :
                          /\ <<d, FALSE>> \in ran'[t] =>
                                call'[d].status # "unused" /\ t = call'[d].captured
                          /\ <<d, TRUE>> \in ran'[t] => call'[d].retried /\ call'[d].read
                      /\ \A t, u \in Sockets :
                            <<d, TRUE>> \in ran'[t] /\ <<d, TRUE>> \in ran'[u] => t = u
    BY DEF SentOnce
  <2>5. CASE d = c
    BY <1>5, <2>4, <2>5
  <2>6. CASE d # c
    <3>1. call'[d] = call[d]
      BY <1>5, <2>6
    <3> QED BY <2>2, <2>3, <2>6, <3>1 DEF Sent, SentOnce
  <2> QED BY <2>5, <2>6
<1> QED BY <1>7, <1>8 DEF Sent

(* What a registration sends again: reads that wait in a tombstone, were   *)
(* not accepted and not retried before.                                    *)
LEMMA RegisterSends ==
    ASSUME Homes, Authority, Sent, NEW s \in Sockets, NEW id \in Ids, Register(s, id)
    PROVE  \E A \in SUBSET Calls :
              /\ \A c \in A : ~call[c].retried /\ call[c].read /\ ~call[c].accepted
              /\ \A c \in Calls :
                    /\ call'[c].captured = call[c].captured
                    /\ call'[c].read = call[c].read
                    /\ call'[c].accepted = call[c].accepted
                    /\ call'[c].conn = call[c].conn
                    /\ call'[c].status = "unused" <=> call[c].status = "unused"
                    /\ Pending(c)' => Pending(c)
                    /\ IF c \in A THEN call'[c].retried ELSE call'[c].retried = call[c].retried
                    /\ c \in A => call[c].status # "unused"
              /\ ran' = [ran EXCEPT ![s] = @ \cup {<<c, TRUE>> : c \in A}]
              /\ \A k \in Keys : tomb'[k].conn \in {tomb[k].conn, 0}
<1>1. PICK k \in Keys : k = KeyOn(s, id)
  BY DEF KeyOn, Keys, Places, Pages, Register, Homes
<1>2. PICK conn : conn = IF MayRebind(k) THEN tomb[k].conn ELSE s
  OBVIOUS
<1> DEFINE left == {l \in Moved(k) : Live(l)}
           gone == {l \in Moved(k) : Dead(l)} \cup Lapsed(k)
           R1 == UNION {KeyGrants(store, l) : l \in left}
           R2 == UNION {KeyGrants(Without(store, R1), l) : l \in gone}
           C1 == RevokedCalls(R1)
           C2 == RevokedCalls(R2) \cup UNION {PendingOf(tomb[l].conn) : l \in gone}
           mid == Settled(Settled(call, C1), C2)
           again == IF MayRebind(k)
                    THEN {c \in Retryable(conn) : mid[c].status = "pending"} ELSE {}
<1>3. /\ tomb' = [l \in Keys |-> IF l = k \/ l \in Moved(k) THEN NoTomb ELSE tomb[l]]
      /\ call' = [c \in Calls |-> IF c \in again THEN [mid[c] EXCEPT !.retried = TRUE]
                                  ELSE mid[c]]
      /\ ran' = [ran EXCEPT ![s] = @ \cup {<<c, TRUE>> : c \in again}]
  BY <1>1, <1>2 DEF Register, Expire
<1>4. call \in [Calls -> CallRecords]
  BY DEF Authority
<1>5. \A c \in C1 \cup C2 : c \in Calls /\ Pending(c)
  <2>1. \A R : \A c \in RevokedCalls(R) : c \in Calls /\ Pending(c)
    BY DEF RevokedCalls
  <2>2. \A x : \A c \in PendingOf(x) : c \in Calls /\ Pending(c)
    BY DEF PendingOf
  <2> HIDE DEF R1, R2, gone
  <2> QED BY <2>1, <2>2
<1>6. /\ mid \in [Calls -> CallRecords]
      /\ \A c \in Calls :
            /\ mid[c].captured = call[c].captured
            /\ mid[c].read = call[c].read
            /\ mid[c].accepted = call[c].accepted
            /\ mid[c].conn = call[c].conn
            /\ mid[c].retried = call[c].retried
            /\ mid[c].status = "unused" <=> call[c].status = "unused"
            /\ mid[c].status = "pending" => Pending(c)
  <2> HIDE DEF C1, C2
  <2>1. mid = Settled(call, C1 \cup C2)
    BY <1>4, SettledTwice
  <2> HIDE DEF mid
  <2> QED BY <1>4, <1>5, <2>1, SettledLemma DEF Pending
<1> HIDE DEF mid
<1>7. \A c \in again : /\ c \in Calls /\ Pending(c)
                       /\ ~call[c].retried /\ call[c].read /\ ~call[c].accepted
  <2> SUFFICES ASSUME NEW c \in again
               PROVE  /\ c \in Calls /\ Pending(c)
                      /\ ~call[c].retried /\ call[c].read /\ ~call[c].accepted
    OBVIOUS
  <2>1. /\ MayRebind(k) /\ conn = tomb[k].conn /\ Dead(k)
        /\ c \in Calls /\ Pending(c) /\ call[c].conn = conn
        /\ ~call[c].retried /\ call[c].read
    BY <1>2 DEF MayRebind, Retryable, PendingOf
  <2> QED BY <2>1 DEF Sent, Parked
<1> HIDE DEF again
<1>8. \A c \in Calls :
        /\ call'[c].captured = mid[c].captured
        /\ call'[c].read = mid[c].read
        /\ call'[c].accepted = mid[c].accepted
        /\ call'[c].conn = mid[c].conn
        /\ call'[c].status = mid[c].status
        /\ IF c \in again THEN call'[c].retried ELSE call'[c].retried = mid[c].retried
  BY <1>3, <1>6 DEF CallRecords
<1>9. \A l \in Keys : tomb'[l].conn \in {tomb[l].conn, 0}
  BY <1>3 DEF NoTomb
<1>10. again \in SUBSET Calls
  BY <1>7
<1>11. \A c \in Calls :
          /\ call'[c].captured = call[c].captured
          /\ call'[c].read = call[c].read
          /\ call'[c].accepted = call[c].accepted
          /\ call'[c].conn = call[c].conn
          /\ call'[c].status = "unused" <=> call[c].status = "unused"
          /\ Pending(c)' => Pending(c)
          /\ IF c \in again THEN call'[c].retried ELSE call'[c].retried = call[c].retried
          /\ c \in again => call[c].status # "unused"
  BY <1>6, <1>7, <1>8 DEF Pending
<1> QED BY <1>3, <1>7, <1>9, <1>10, <1>11

LEMMA RegisterSent ==
    Homes /\ Authority /\ Sent /\ (\E s \in Sockets, id \in Ids : Register(s, id)) => Sent'
<1> SUFFICES ASSUME Homes, Authority, Sent, NEW s \in Sockets, NEW id \in Ids, Register(s, id)
             PROVE  Sent'
  OBVIOUS
<1>1. PICK A \in SUBSET Calls :
        /\ \A c \in A : ~call[c].retried /\ call[c].read /\ ~call[c].accepted
        /\ \A c \in Calls :
              /\ call'[c].captured = call[c].captured
              /\ call'[c].read = call[c].read
              /\ call'[c].accepted = call[c].accepted
              /\ call'[c].conn = call[c].conn
              /\ call'[c].status = "unused" <=> call[c].status = "unused"
              /\ Pending(c)' => Pending(c)
              /\ IF c \in A THEN call'[c].retried ELSE call'[c].retried = call[c].retried
              /\ c \in A => call[c].status # "unused"
        /\ ran' = [ran EXCEPT ![s] = @ \cup {<<c, TRUE>> : c \in A}]
        /\ \A k \in Keys : tomb'[k].conn \in {tomb[k].conn, 0}
  BY RegisterSends
<1>2. ran \in [Sockets -> SUBSET (Calls \X BOOLEAN)]
  BY DEF Authority
<1>3. \A t \in Sockets, c \in Calls :
        /\ <<c, FALSE>> \in ran'[t] => <<c, FALSE>> \in ran[t]
        /\ <<c, TRUE>> \in ran'[t] => <<c, TRUE>> \in ran[t] \/ (c \in A /\ t = s)
  <2> DEFINE sent == {<<c, TRUE>> : c \in A}
  <2>1. \A c \in Calls : /\ <<c, FALSE>> \notin sent
                         /\ <<c, TRUE>> \in sent => c \in A
    OBVIOUS
  <2>2. ran' = [ran EXCEPT ![s] = @ \cup sent]
    BY <1>1
  <2> HIDE DEF sent
  <2> QED BY <1>2, <2>1, <2>2
<1>4. Parked'
  BY <1>1 DEF Sent, Parked, Dead
<1>5. \A t \in Sockets, c \in A : <<c, TRUE>> \notin ran[t]
  BY <1>1 DEF Sent, SentOnce
<1>6. SentOnce'
  <2> SUFFICES ASSUME NEW c \in Calls
               PROVE  /\ call'[c].status = "unused" => ~call'[c].retried /\ ~call'[c].accepted
                      /\ \A t \in Sockets :
                          /\ <<c, FALSE>> \in ran'[t] =>
                                call'[c].status # "unused" /\ t = call'[c].captured
                          /\ <<c, TRUE>> \in ran'[t] => call'[c].retried /\ call'[c].read
                      /\ \A t, u \in Sockets :
                            <<c, TRUE>> \in ran'[t] /\ <<c, TRUE>> \in ran'[u] => t = u
    BY DEF SentOnce
  <2>1. /\ call[c].status = "unused" => ~call[c].retried /\ ~call[c].accepted
        /\ \A t \in Sockets :
            /\ <<c, FALSE>> \in ran[t] => call[c].status # "unused" /\ t = call[c].captured
            /\ <<c, TRUE>> \in ran[t] => call[c].retried /\ call[c].read
        /\ \A t, u \in Sockets : <<c, TRUE>> \in ran[t] /\ <<c, TRUE>> \in ran[u] => t = u
    BY DEF Sent, SentOnce
  <2>2. /\ call'[c].captured = call[c].captured
        /\ call'[c].read = call[c].read
        /\ call'[c].accepted = call[c].accepted
        /\ call'[c].status = "unused" <=> call[c].status = "unused"
    BY <1>1
  <2>3. CASE c \in A
    <3>1. call'[c].retried /\ call[c].read /\ call[c].status # "unused"
      BY <1>1, <2>3
    <3>2. \A t \in Sockets : <<c, TRUE>> \in ran'[t] => t = s
      BY <1>3, <1>5, <2>3
    <3> QED BY <1>3, <2>1, <2>2, <3>1, <3>2
  <2>4. CASE c \notin A
    <3>1. call'[c].retried = call[c].retried
      BY <1>1, <2>4
    <3>2. \A t \in Sockets : <<c, TRUE>> \in ran'[t] => <<c, TRUE>> \in ran[t]
      BY <1>3, <2>4
    <3> QED BY <1>3, <2>1, <2>2, <3>1, <3>2
  <2> QED BY <2>3, <2>4
<1> QED BY <1>4, <1>6 DEF Sent

(* No step sends what must not be sent again. *)
LEMMA NextSent == Homes /\ Authority /\ Sent /\ [Next]_vars => Sent'
<1> SUFFICES ASSUME Homes, Authority, Sent, [Next]_vars PROVE Sent'
  OBVIOUS
<1>1. ASSUME UNCHANGED <<tomb, call, ran>> PROVE Sent'
  BY <1>1 DEF Sent, Parked, SentOnce, Dead, Pending
<1>2. CASE SocketStep
  <2>1. ASSUME NEW o \in Origins, Attach(o) PROVE Sent'
    BY <1>1, <2>1 DEF Attach
  <2>2. ASSUME NEW s \in Sockets, StartClosing(s) \/ OtherClosed(s) PROVE Sent'
    BY <1>1, <2>2 DEF StartClosing, OtherClosed
  <2>3. ASSUME NEW s \in Sockets, NEW id \in Ids, RegisterRefused(s, id) PROVE Sent'
    BY <1>1, <2>3 DEF RegisterRefused
  <2>4. ASSUME NEW s \in Sockets, NEW c \in Calls, Result(s, c) PROVE Sent'
    BY <2>4, SettleSent DEF Result, Answers
  <2> QED BY <1>2, <2>1, <2>2, <2>3, <2>4, ClosedSent, RegisterSent, AcceptSent
          DEF SocketStep
<1>3. CASE HostStep
  <2>1. ASSUME NEW c \in Calls, Cancel(c) PROVE Sent'
    BY <2>1, SettleSent DEF Cancel
  <2>2. ASSUME NEW g \in Grants, RevokeGrant(g) PROVE Sent'
    BY <2>2, SettleSent, RevokedCallsPending DEF RevokeGrant
  <2>3. ASSUME NEW g \in Grants, NEW k \in Keys, NEW session \in Sessions,
               Offer(g, k, session)
        PROVE  Sent'
    BY <1>1, <2>3 DEF Offer
  <2> QED BY <1>3, <2>1, <2>2, <2>3, RequestSent DEF HostStep
<1>4. CASE TimerStep
  <2>1. ASSUME NEW k \in Keys, Age(k) PROVE Sent'
    <3>1. /\ tomb' = [tomb EXCEPT ![k].age = IF @ = "within" THEN "edge" ELSE "past"]
          /\ UNCHANGED <<call, ran>>
      BY <2>1 DEF Age
    <3>2. \A l \in Keys : tomb'[l].conn = tomb[l].conn
      BY <3>1 DEF Homes, Places, Tombs
    <3> QED BY ZenonT(60), <3>1, <3>2 DEF Sent, Parked, SentOnce, Dead, Pending
  <2>2. ASSUME NEW silent \in SUBSET LiveKeys, Sweep(silent) PROVE Sent'
    <3> DEFINE old == {k \in Keys : Dead(k) /\ tomb[k].age # "within"}
               R == UNION {KeyGrants(store, k) : k \in old}
               C == RevokedCalls(R) \cup UNION {PendingOf(tomb[k].conn) : k \in old}
    <3>1. /\ ran' = ran /\ call' = Settled(call, C)
          /\ tomb' = [k \in Keys |-> IF k \in old THEN NoTomb ELSE tomb[k]]
      BY <2>2 DEF Sweep, Expire
    <3>2. \A c \in C : c \in Calls => Pending(c)
      <4>1. \A x : \A c \in PendingOf(x) : Pending(c)
        BY DEF PendingOf
      <4> HIDE DEF R, old
      <4> QED BY <4>1, RevokedCallsPending
    <3>3. \A k \in Keys : tomb'[k].conn \in {tomb[k].conn, 0}
      BY <3>1 DEF NoTomb
    <3> HIDE DEF C
    <3> QED BY <3>1, <3>2, <3>3, SettleSent
  <2> QED BY <1>4, <2>1, <2>2 DEF TimerStep
<1>5. CASE Dispose
  <2> DEFINE C == UNION {PendingOf(live[k].conn) \cup PendingOf(tomb[k].conn) : k \in Keys}
  <2>1. /\ ran' = ran /\ call' = Settled(call, C) /\ tomb' = [k \in Keys |-> NoTomb]
    BY <1>5 DEF Dispose
  <2>2. \A c \in C : c \in Calls => Pending(c)
    BY DEF PendingOf
  <2>3. \A k \in Keys : tomb'[k].conn \in {tomb[k].conn, 0}
    BY <2>1 DEF NoTomb
  <2> HIDE DEF C
  <2> QED BY <2>1, <2>2, <2>3, SettleSent
<1>6. CASE UNCHANGED vars
  BY <1>1, <1>6 DEF vars
<1> QED BY <1>2, <1>3, <1>4, <1>5, <1>6 DEF Next

-----------------------------------------------------------------------------
(* The inductive invariant. *)
THEOREM Inductive == Spec => []IInv
<1>1. Init => IInv
  BY InitHomes, InitAuthority, InitSent DEF IInv
<1>2. IInv /\ [Next]_vars => IInv'
  BY NextHomes, NextAuthority, NextSent DEF IInv
<1> QED BY <1>1, <1>2, PTL DEF Spec

(* Every variable keeps its type, and the socket of a live target has not  *)
(* had its close event.                                                    *)
THEOREM TypeCorrect == Spec => []TypeOK
<1>1. IInv => TypeOK
  BY DEF IInv, Homes, Places, Authority, TypeOK
<1> QED BY <1>1, Inductive, PTL

(* registerTarget() keeps a target id under one origin, live or remembered *)
(* and not both.                                                           *)
THEOREM OneHomeCorrect == Spec => []OneHomePerTarget
<1>1. IInv => OneHomePerTarget
  BY DEF IInv, Homes
<1> QED BY <1>1, Inductive, PTL

(* No expiry, rebind or change of origin leaves a held grant behind.       *)
THEOREM GrantFollowsCorrect == Spec => []GrantFollowsTarget
<1>1. IInv => GrantFollowsTarget
  BY DEF IInv, Authority
<1> QED BY <1>1, Inductive, PTL

(* A call is pending only while its grant is held, wherever the page is.   *)
THEOREM NoDeadWorkCorrect == Spec => []NoDeadWork
<1>1. IInv => NoDeadWork
  BY DEF IInv, Authority
<1> QED BY <1>1, Inductive, PTL

(* A write is sent at most once and a read at most twice.                  *)
THEOREM WritesRunOnceCorrect == Spec => []WritesRunOnce
<1>1. IInv => WritesRunOnce
  <2> SUFFICES ASSUME IInv, NEW c \in Calls
               PROVE  Cardinality(Runs(c)) <= IF call[c].read THEN 2 ELSE 1
    BY DEF WritesRunOnce
  <2> DEFINE first == <<call[c].captured, FALSE>>
             one == {first}
  <2>1. \A s \in Sockets :
          /\ <<c, FALSE>> \in ran[s] => s = call[c].captured
          /\ <<c, TRUE>> \in ran[s] => call[c].read
          /\ \A t \in Sockets : <<c, TRUE>> \in ran[s] /\ <<c, TRUE>> \in ran[t] => s = t
    BY DEF IInv, Sent, SentOnce
  <2>2. \A r \in Runs(c) : \E s \in Sockets, b \in BOOLEAN : r = <<s, b>> /\ <<c, b>> \in ran[s]
    BY DEF Runs
  <2>3. IsFiniteSet(one) /\ Cardinality(one) = 1
    BY FS_Singleton
  <2>4. CASE \E t \in Sockets : <<c, TRUE>> \in ran[t]
    <3>1. PICK t \in Sockets : <<c, TRUE>> \in ran[t]
      BY <2>4
    <3> DEFINE two == one \cup {<<t, TRUE>>}
    <3>2. IsFiniteSet(two) /\ Cardinality(two) <= 2
      <4> DEFINE second == <<t, TRUE>>
      <4> HIDE DEF one, second
      <4>1. /\ IsFiniteSet(one \cup {second})
            /\ Cardinality(one \cup {second}) = IF second \in one THEN 1 ELSE 1 + 1
        BY <2>3, FS_AddElement
      <4>2. Cardinality(one \cup {second}) <= 2
        BY <4>1
      <4> QED BY <4>1, <4>2 DEF second
    <3>3. Runs(c) \subseteq two
      BY <2>1, <2>2, <3>1
    <3>4. Cardinality(Runs(c)) <= Cardinality(two) /\ IsFiniteSet(Runs(c))
      BY <3>2, <3>3, FS_Subset
    <3>5. call[c].read
      BY <2>1, <3>1
    <3>6. Cardinality(two) \in Nat /\ Cardinality(Runs(c)) \in Nat
      BY <3>2, <3>4, FS_CardinalityType
    <3> HIDE DEF two
    <3> QED BY <3>2, <3>4, <3>5, <3>6
  <2>5. CASE ~ \E t \in Sockets : <<c, TRUE>> \in ran[t]
    <3>1. Runs(c) \subseteq one
      BY <2>1, <2>2, <2>5
    <3>2. Cardinality(Runs(c)) <= 1 /\ IsFiniteSet(Runs(c))
      BY <2>3, <3>1, FS_Subset
    <3>3. Cardinality(Runs(c)) \in Nat
      BY <3>2, FS_CardinalityType
    <3> QED BY <3>2, <3>3
  <2> QED BY <2>4, <2>5
<1> QED BY <1>1, Inductive, PTL

(* A call the page has accepted is never sent again.                       *)
THEOREM AcceptedCorrect == Spec => AcceptedNeverReplayed
<1>1. ASSUME IInv, [Next]_vars, NEW c \in Calls, call[c].accepted
      PROVE  Runs(c)' = Runs(c)
  <2> USE <1>1 DEF IInv
  <2>1. ASSUME ran' = ran PROVE Runs(c)' = Runs(c)
    BY <2>1 DEF Runs
  <2>2. ran \in [Sockets -> SUBSET (Calls \X BOOLEAN)]
    BY DEF Authority
  <2>3. ASSUME NEW s \in Sockets, NEW id \in Ids, Register(s, id)
        PROVE  Runs(c)' = Runs(c)
    <3>1. PICK A \in SUBSET Calls :
            /\ \A d \in A : ~call[d].retried /\ call[d].read /\ ~call[d].accepted
            /\ ran' = [ran EXCEPT ![s] = @ \cup {<<d, TRUE>> : d \in A}]
      BY <2>3, RegisterSends
    <3>2. c \notin A
      BY <1>1, <3>1
    <3>3. \A t \in Sockets, b \in BOOLEAN : <<c, b>> \in ran'[t] <=> <<c, b>> \in ran[t]
      BY <2>2, <3>1, <3>2
    <3> QED BY <3>3 DEF Runs
  <2>4. ASSUME NEW d \in Calls, NEW g \in Grants, NEW read \in BOOLEAN, Request(d, g, read)
        PROVE  Runs(c)' = Runs(c)
    <3>1. PICK s : s = live[store[g].target.key].socket
      OBVIOUS
    <3>2. /\ call[d].status = "unused"
          /\ ran' = [ran EXCEPT ![s] = Taken(s, {<<d, FALSE>>})]
      BY <2>4, <3>1 DEF Request
    <3>3. c # d
      BY <1>1, <3>2 DEF Sent, SentOnce
    <3>4. \A t \in Sockets, b \in BOOLEAN : <<c, b>> \in ran'[t] <=> <<c, b>> \in ran[t]
      BY <2>2, <3>2, <3>3 DEF Taken
    <3> QED BY <3>4 DEF Runs
  <2>5. CASE SocketStep
    BY <2>1, <2>3, <2>5 DEF SocketStep, Attach, StartClosing, LiveClosed, OtherClosed,
                            RegisterRefused, Accept, Result
  <2>6. CASE HostStep
    BY <2>1, <2>4, <2>6 DEF HostStep, RevokeGrant, Offer, Cancel
  <2>7. CASE TimerStep
    BY <2>1, <2>7 DEF TimerStep, Age, Sweep
  <2>8. CASE Dispose
    BY <2>1, <2>8 DEF Dispose
  <2>9. CASE UNCHANGED vars
    BY <2>1, <2>9 DEF vars
  <2> QED BY <1>1, <2>5, <2>6, <2>7, <2>8, <2>9 DEF Next
<1>2. IInv /\ [Next]_vars =>
        [\A c \in Calls : call[c].accepted => Runs(c)' = Runs(c)]_vars
  BY <1>1
<1> QED BY <1>2, Inductive, PTL DEF Spec, AcceptedNeverReplayed

(* A live target keeps its socket and its connection id until it is gone.  *)
THEOREM NoTakeoverCorrect == Spec => NoTakeover
<1>1. ASSUME IInv, [Next]_vars, NEW k \in Keys, Live(k), Live(k)'
      PROVE  live'[k] = live[k]
  <2> USE <1>1 DEF IInv
  <2>1. ASSUME NEW s \in Sockets, LiveClosed(s) PROVE live'[k] = live[k]
    <3>1. PICK l \in Keys : live' = [live EXCEPT ![l] = NoLive]
      BY <2>1 DEF LiveClosed, Departed
    <3>2. live'[l] = NoLive /\ \A m \in Keys : m # l => live'[m] = live[m]
      BY <3>1 DEF Homes, Places
    <3> QED BY <1>1, <3>2 DEF Live, NoLive
  <2>2. ASSUME NEW s \in Sockets, NEW id \in Ids, Register(s, id) PROVE live'[k] = live[k]
    <3>1. PICK l \in Keys : l = KeyOn(s, id)
      BY <2>2 DEF KeyOn, Keys, Places, Pages, Register, Homes
    <3>2. k # l
      BY <1>1, <2>2, <3>1 DEF Register, Refused
    <3>3. live'[k] = NoLive \/ live'[k] = live[k]
      BY <2>2, <3>1, <3>2 DEF Register
    <3> QED BY <1>1, <3>3 DEF Live, NoLive
  <2>3. ASSUME Dispose PROVE live'[k] = live[k]
    <3>1. live'[k] = NoLive
      BY <2>3 DEF Dispose
    <3> QED BY <1>1, <3>1 DEF Live, NoLive
  <2>4. CASE SocketStep
    BY <2>1, <2>2, <2>4 DEF SocketStep, Attach, StartClosing, OtherClosed,
                            RegisterRefused, Accept, Result
  <2>5. CASE HostStep
    BY <2>5 DEF HostStep, RevokeGrant, Offer, Request, Cancel
  <2>6. CASE TimerStep
    BY <2>6 DEF TimerStep, Age, Sweep
  <2>7. CASE UNCHANGED vars
    BY <2>7 DEF vars
  <2> QED BY <1>1, <2>3, <2>4, <2>5, <2>6, <2>7 DEF Next
<1>2. IInv /\ [Next]_vars =>
        [\A k \in Keys : Live(k) /\ Live(k)' => live'[k] = live[k]]_vars
  BY <1>1
<1> QED BY <1>2, Inductive, PTL DEF Spec, NoTakeover

(* Where the page is stays unambiguous: one home per page id, and a live   *)
(* target keeps its socket until the close event of that socket.           *)
THEOREM PageKeepsItsHomeCorrect == Spec => PageKeepsItsHome
<1> DEFINE Stays == \A k \in Keys : Live(k) /\ Live(k)' => live'[k] = live[k]
           Home == /\ OneHomePerTarget'
                   /\ \A k \in Keys : Live(k) /\ Live(k)' => live'[k] = live[k]
<1>1. Spec => [][Stays]_vars
  BY NoTakeoverCorrect DEF NoTakeover
<1>2. OneHomePerTarget' /\ [Stays]_vars => [Home]_vars
  OBVIOUS
<1>3. Spec => [][Home]_vars
  <2> HIDE DEF Stays, Home
  <2> QED BY <1>1, <1>2, OneHomeCorrect, PTL
<1> QED BY <1>3 DEF PageKeepsItsHome
=============================================================================
