-------------------------- MODULE CdpSessionsProofs --------------------------
(* Proofs about CdpSessions, for any grants, tabs and number of deaths. *)
EXTENDS CdpSessions, TLAPS

USE CdpAssumption

(* A shared state is not marked while an attach is in flight, and nothing  *)
(* is marked or in flight before startup reconciliation is over.           *)
Quiet ==
    /\ \A t \in Tabs : attach[t].phase # "idle" => ~state[t].attached
    /\ ~up => \A t \in Tabs : ~state[t].attached /\ attach[t].phase = "idle"

(* Grant ids are bound once, so a session() call awaits the attach of the  *)
(* tab its grant was, or still is, bound to.                               *)
BoundOnce ==
    \A g \in Grants :
        /\ tabOf[g] # NoTab => g \in used
        /\ waiting[g] # NoTab => g \in used /\ tabOf[g] \in {NoTab, waiting[g]}

IInv == TypeOK /\ AttachedMeansOurs /\ Quiet /\ BoundOnce

-----------------------------------------------------------------------------
(* What a tab's debugger is after a release. *)
LEMMA ReleasedType ==
    ASSUME TypeOK, NEW t \in Tabs
    PROVE  /\ Released(t) \in {"free", "other"}
           /\ Released(t) \in {"free", "ours", "other"}
  BY DEF TypeOK, Released

(* Detaching tabs keeps the types and never marks a state; what stays      *)
(* marked is not touched.                                                  *)
LEMMA DetachTabsLemma ==
    ASSUME TypeOK, NEW T \in SUBSET Tabs, DetachTabs(T)
    PROVE  /\ state' \in [Tabs -> TabStates]
           /\ debugger' \in [Tabs -> {"free", "ours", "other"}]
           /\ \A t \in Tabs : state'[t].attached =>
                /\ state'[t] = state[t]
                /\ debugger'[t] = debugger[t]
<1>1. state' \in [Tabs -> TabStates]
  BY ZenonT(60) DEF DetachTabs, TypeOK, TabStates
<1>2. debugger' \in [Tabs -> {"free", "ours", "other"}]
  BY ReleasedType DEF DetachTabs, TypeOK
<1>3. ASSUME NEW t \in Tabs, t \in T PROVE ~state'[t].attached
  BY <1>3 DEF DetachTabs, TypeOK, TabStates
<1>4. ASSUME NEW t \in Tabs, t \notin T
      PROVE  state'[t] = state[t] /\ debugger'[t] = debugger[t]
  BY <1>4 DEF DetachTabs
<1> QED BY <1>1, <1>2, <1>3, <1>4

(* The initial state satisfies the inductive invariant. *)
LEMMA InitIInv == Init => IInv
  BY DEF Init, IInv, TypeOK, AttachedMeansOurs, Quiet, BoundOnce, TabStates,
         Attaches, NoAttach

(* The steps of binding and revoking grants preserve it. *)
LEMMA GrantIInv == IInv /\ GrantStep => IInv'
<1> SUFFICES ASSUME IInv, GrantStep PROVE IInv'
  OBVIOUS
<1> USE DEF IInv
<1>1. ASSUME NEW g \in Grants, NEW t \in Tabs, Bind(g, t) PROVE IInv'
  <2>1. TypeOK'
    BY <1>1 DEF Bind, TypeOK, TabStates
  <2>2. AttachedMeansOurs' /\ Quiet'
    BY <1>1 DEF Bind, TypeOK, TabStates, AttachedMeansOurs, Quiet
  <2>3. BoundOnce'
    BY <1>1 DEF Bind, TypeOK, BoundOnce
  <2> QED BY <2>1, <2>2, <2>3
<1>2. ASSUME NEW g \in Grants, Revoke(g) PROVE IInv'
  <2>1. tabOf[g] \in Tabs
    BY <1>2 DEF Revoke, TypeOK
  <2>2. /\ state' \in [Tabs -> TabStates]
        /\ debugger' \in [Tabs -> {"free", "ours", "other"}]
        /\ ledger' \subseteq Tabs
        /\ orphaned' \subseteq Tabs
        /\ \A t \in Tabs : state'[t].attached =>
             state'[t] = state[t] /\ debugger'[t] = debugger[t]
    <3>1. CASE LastOf(g)
      <4>1. /\ DetachTabs({tabOf[g]})
            /\ ledger' = ledger \ {tabOf[g]}
            /\ orphaned' = orphaned \cup Attaching({tabOf[g]})
        BY <1>2, <3>1 DEF Revoke
      <4> QED BY <4>1, <2>1, DetachTabsLemma DEF TypeOK, Attaching
    <3>2. CASE ~LastOf(g)
      BY <1>2, <3>2 DEF Revoke, TypeOK
    <3> QED BY <3>1, <3>2
  <2>3. TypeOK'
    BY <1>2, <2>2 DEF Revoke, TypeOK
  <2>4. AttachedMeansOurs' /\ Quiet'
    BY <1>2, <2>2 DEF Revoke, AttachedMeansOurs, Quiet
  <2>5. BoundOnce'
    BY <1>2 DEF Revoke, TypeOK, BoundOnce
  <2> QED BY <2>3, <2>4, <2>5
<1>3. ASSUME RevokeAll PROVE IInv'
  <2> DEFINE present == {t \in Tabs : state[t].present}
  <2>0. /\ state' \in [Tabs -> TabStates]
        /\ debugger' \in [Tabs -> {"free", "ours", "other"}]
        /\ \A t \in Tabs : state'[t].attached =>
             state'[t] = state[t] /\ debugger'[t] = debugger[t]
    <3>1. DetachTabs(present) /\ present \in SUBSET Tabs
      BY <1>3 DEF RevokeAll
    <3> HIDE DEF present
    <3> QED BY <3>1, DetachTabsLemma
  <2>1. TypeOK'
    BY <1>3, <2>0 DEF RevokeAll, TypeOK, Attaching
  <2>2. AttachedMeansOurs' /\ Quiet'
    BY <1>3, <2>0 DEF RevokeAll, AttachedMeansOurs, Quiet
  <2>3. BoundOnce'
    BY <1>3 DEF RevokeAll, TypeOK, BoundOnce
  <2> QED BY <2>1, <2>2, <2>3
<1>4. ASSUME NEW g \in Grants, SessionReady(g) PROVE IInv'
  BY <1>4 DEF SessionReady, TypeOK, AttachedMeansOurs, Quiet, BoundOnce
<1>5. ASSUME NEW g \in Grants, SessionAttaches(g) PROVE IInv'
  <2>1. tabOf[g] \in Tabs
    BY <1>5 DEF SessionAttaches, TypeOK
  <2>2. TypeOK'
    BY <1>5, <2>1 DEF SessionAttaches, TypeOK, TabStates, Attaches
  <2>3. AttachedMeansOurs' /\ Quiet'
    BY <1>5, <2>1 DEF SessionAttaches, TypeOK, Attaches, AttachedMeansOurs, Quiet
  <2>4. BoundOnce'
    BY <1>5, <2>1 DEF SessionAttaches, TypeOK, BoundOnce
  <2> QED BY <2>2, <2>3, <2>4
<1> QED BY <1>1, <1>2, <1>3, <1>4, <1>5 DEF GrantStep

(* The steps of an attach preserve it. *)
LEMMA AttachIInv == ASSUME NEW t \in Tabs PROVE IInv /\ AttachStep(t) => IInv'
<1> SUFFICES ASSUME IInv, AttachStep(t) PROVE IInv'
  OBVIOUS
<1> USE DEF IInv
<1>1. CASE AttachSucceeds(t)
  <2>1. TypeOK'
    BY <1>1 DEF AttachSucceeds, TypeOK, Attaches
  <2>2. AttachedMeansOurs' /\ Quiet' /\ BoundOnce'
    BY <1>1 DEF AttachSucceeds, TypeOK, Attaches, AttachedMeansOurs, Quiet, BoundOnce
  <2> QED BY <2>1, <2>2
<1>2. CASE AttachRefused(t)
  <2>1. TypeOK'
    BY <1>2 DEF AttachRefused, Settle, NoAttach, TypeOK, Attaches
  <2>2. AttachedMeansOurs' /\ Quiet' /\ BoundOnce'
    BY <1>2 DEF AttachRefused, Settle, NoAttach, TypeOK, Attaches,
                AttachedMeansOurs, Quiet, BoundOnce
  <2> QED BY <2>1, <2>2
<1>3. CASE EnableSucceeds(t)
  <2>1. TypeOK'
    BY <1>3 DEF EnableSucceeds, Settle, NoAttach, Viewed, TypeOK, Attaches, TabStates
  <2>2. AttachedMeansOurs' /\ Quiet' /\ BoundOnce'
    BY <1>3 DEF EnableSucceeds, Settle, NoAttach, TypeOK, Attaches, TabStates,
                AttachedMeansOurs, Quiet, BoundOnce
  <2> QED BY <2>1, <2>2
<1>4. CASE EnableFails(t)
  <2>1. TypeOK'
    BY <1>4, ReleasedType DEF EnableFails, TypeOK, Attaches
  <2>2. AttachedMeansOurs' /\ Quiet' /\ BoundOnce'
    BY <1>4 DEF EnableFails, TypeOK, Attaches, AttachedMeansOurs, Quiet, BoundOnce
  <2> QED BY <2>1, <2>2
<1>5. CASE RollbackEnds(t)
  <2>1. TypeOK'
    BY <1>5 DEF RollbackEnds, Settle, NoAttach, TypeOK, Attaches
  <2>2. AttachedMeansOurs' /\ Quiet' /\ BoundOnce'
    BY <1>5 DEF RollbackEnds, Settle, NoAttach, TypeOK, Attaches,
                AttachedMeansOurs, Quiet, BoundOnce
  <2> QED BY <2>1, <2>2
<1> QED BY <1>1, <1>2, <1>3, <1>4, <1>5 DEF AttachStep

(* What Chrome does on its own preserves it. *)
LEMMA ChromeIInv == ASSUME NEW t \in Tabs PROVE IInv /\ ChromeStep(t) => IInv'
<1> SUFFICES ASSUME IInv, ChromeStep(t) PROVE IInv'
  OBVIOUS
<1> USE DEF IInv
<1>1. ASSUME NEW next \in {"free", "other"}, ChromeDetaches(t, next) PROVE IInv'
  <2>1. \A u \in Tabs : u \in notices' \/ debugger'[u] = debugger[u]
    BY <1>1 DEF ChromeDetaches, TypeOK
  <2>2. TypeOK'
    BY <1>1 DEF ChromeDetaches, TypeOK
  <2>3. AttachedMeansOurs' /\ Quiet' /\ BoundOnce'
    BY <1>1, <2>1 DEF ChromeDetaches, AttachedMeansOurs, Quiet, BoundOnce
  <2> QED BY <2>2, <2>3
<1>2. CASE HandleDetach(t)
  <2>1. state' \in [Tabs -> TabStates] /\ ~state'[t].attached
    BY <1>2 DEF HandleDetach, TypeOK, TabStates
  <2>2. \A u \in Tabs \ {t} : state'[u] = state[u]
    BY <1>2 DEF HandleDetach, TypeOK
  <2>3. TypeOK'
    BY <1>2, <2>1 DEF HandleDetach, TypeOK
  <2>4. AttachedMeansOurs' /\ Quiet' /\ BoundOnce'
    BY <1>2, <2>1, <2>2 DEF HandleDetach, AttachedMeansOurs, Quiet, BoundOnce
  <2> QED BY <2>3, <2>4
<1>3. CASE OtherDebugger(t)
  BY <1>3 DEF OtherDebugger, TypeOK, AttachedMeansOurs, Quiet, BoundOnce
<1> QED BY <1>1, <1>2, <1>3 DEF ChromeStep

(* So do the death of the worker and the reconciliation that follows it. *)
LEMMA CrashIInv == IInv /\ (WorkerDies \/ Reconcile) => IInv'
<1> SUFFICES ASSUME IInv, WorkerDies \/ Reconcile PROVE IInv'
  OBVIOUS
<1> USE DEF IInv
<1>1. CASE WorkerDies
  <2>1. ASSUME NEW t \in Tabs
        PROVE  /\ state'[t] \in TabStates
               /\ ~state'[t].attached
    <3>1. state'[t] = [state[t] EXCEPT !.present = FALSE, !.attached = FALSE]
      BY <1>1 DEF WorkerDies
    <3>2. state[t] \in TabStates
      BY DEF TypeOK
    <3> QED BY <3>1, <3>2 DEF TabStates
  <2>2. state' \in [Tabs -> TabStates]
    <3>1. state' = [t \in Tabs |-> state'[t]]
      BY <1>1 DEF WorkerDies
    <3> QED BY <2>1, <3>1
  <2>3. debugger' \in [Tabs -> {"free", "ours", "other"}]
    <3>1. PICK late \in SUBSET Tabs :
             debugger' = [t \in Tabs |-> IF t \in late THEN "ours" ELSE debugger[t]]
      BY <1>1 DEF WorkerDies
    <3> QED BY <3>1 DEF TypeOK
  <2>4. TypeOK'
    <3>1. /\ deaths' = deaths + 1
          /\ up' = FALSE
          /\ tabOf' = [g \in Grants |-> NoTab]
          /\ attach' = [t \in Tabs |-> NoAttach]
          /\ waiting' = [g \in Grants |-> NoTab]
          /\ returned' = [g \in Grants |-> "none"]
          /\ UNCHANGED <<used, notices, ledger>>
      BY <1>1 DEF WorkerDies
    <3>2. NoAttach \in Attaches
      BY DEF NoAttach, Attaches
    <3>3. attach' \in [Tabs -> Attaches]
      BY <3>1, <3>2
    <3>4. tabOf' \in [Grants -> Tabs \cup {NoTab}]
      BY <3>1
    <3>5. waiting' \in [Grants -> Tabs \cup {NoTab}] /\ \A g \in Grants : waiting'[g] = NoTab
      BY <3>1
    <3>6. returned' \in [Grants -> {"none", "view", "debugger_busy", "grant_expired", "failed"}]
      BY <3>1
    <3>7. used' \subseteq Grants /\ ledger' \subseteq Tabs /\ notices' \subseteq Tabs
      BY <3>1 DEF TypeOK
    <3>8. deaths' \in Nat
      BY <3>1 DEF TypeOK
    <3>9. up' \in BOOLEAN
      BY <3>1
    <3>10. orphaned' \subseteq Tabs
      <4>1. orphaned' = {t \in orphaned : debugger'[t] = "ours"}
        BY <1>1 DEF WorkerDies
      <4> QED BY <4>1 DEF TypeOK
    <3> QED BY <2>2, <2>3, <3>3, <3>4, <3>5, <3>6, <3>7, <3>8, <3>9, <3>10 DEF TypeOK
  <2>5. AttachedMeansOurs' /\ Quiet' /\ BoundOnce'
    BY <1>1, <2>1 DEF WorkerDies, NoAttach, AttachedMeansOurs, Quiet, BoundOnce
  <2> QED BY <2>4, <2>5
<1>2. CASE Reconcile
  <2>1. TypeOK'
    BY <1>2, ReleasedType DEF Reconcile, TypeOK
  <2>2. AttachedMeansOurs' /\ Quiet' /\ BoundOnce'
    BY <1>2 DEF Reconcile, TypeOK, AttachedMeansOurs, Quiet, BoundOnce
  <2> QED BY <2>1, <2>2
<1> QED BY <1>1, <1>2

(* The invariant is inductive. *)
LEMMA NextIInv == IInv /\ [Next]_vars => IInv'
<1> SUFFICES ASSUME IInv, [Next]_vars PROVE IInv'
  OBVIOUS
<1>1. CASE UNCHANGED vars
  BY <1>1 DEF vars, IInv, TypeOK, AttachedMeansOurs, Quiet, BoundOnce
<1>2. CASE Next
  BY <1>2, GrantIInv, AttachIInv, ChromeIInv, CrashIInv DEF Next
<1> QED BY <1>1, <1>2

(* The inductive invariant holds in every reachable state. *)
THEOREM SpecIInv == Spec => []IInv
  BY InitIInv, NextIInv, PTL DEF Spec

(* Type correctness; every awaited attach is still in flight. *)
THEOREM TypeCorrect == Spec => []TypeOK
  BY SpecIInv, PTL DEF IInv

(* A mark outlives its debugger only until the detach event arrives. *)
THEOREM AttachedCorrect == Spec => []AttachedMeansOurs
  BY SpecIInv, PTL DEF IInv

-----------------------------------------------------------------------------
(* One step returns views of bound grants on attached tabs only. *)
LEMMA NextViewIsLive ==
    ASSUME IInv, [Next]_vars, NEW g \in Grants,
           returned'[g] = "view", returned[g] # "view"
    PROVE  /\ tabOf'[g] # NoTab
           /\ debugger'[tabOf'[g]] = "ours" \/ tabOf'[g] \in notices'
           /\ attach'[tabOf'[g]].phase = "idle"
<1> USE DEF IInv
<1>1. ASSUME NEW h \in Grants, SessionReady(h)
      PROVE  /\ tabOf'[g] # NoTab
             /\ debugger'[tabOf'[g]] = "ours" \/ tabOf'[g] \in notices'
             /\ attach'[tabOf'[g]].phase = "idle"
  <2>1. h = g
    BY <1>1 DEF SessionReady, TypeOK
  <2>2. tabOf[g] \in Tabs
    BY <1>1, <2>1 DEF SessionReady, TypeOK
  <2> QED BY <1>1, <2>1, <2>2 DEF SessionReady, TypeOK, AttachedMeansOurs, Quiet
<1>2. ASSUME NEW t \in Tabs, EnableSucceeds(t)
      PROVE  /\ tabOf'[g] # NoTab
             /\ debugger'[tabOf'[g]] = "ours" \/ tabOf'[g] \in notices'
             /\ attach'[tabOf'[g]].phase = "idle"
  <2>1. waiting[g] = t /\ tabOf[g] # NoTab
    BY <1>2 DEF EnableSucceeds, Settle, Viewed, TypeOK
  <2>2. tabOf[g] = t
    BY <2>1 DEF BoundOnce
  <2> QED BY <1>2, <2>1, <2>2 DEF EnableSucceeds, Settle, NoAttach, TypeOK
<1>3. ASSUME NEW h \in Grants, SessionAttaches(h) PROVE FALSE
  BY <1>3 DEF SessionAttaches, TypeOK
<1>4. ASSUME NEW t \in Tabs, AttachRefused(t) PROVE FALSE
  BY <1>4 DEF AttachRefused, Settle, TypeOK
<1>5. ASSUME NEW t \in Tabs, RollbackEnds(t) PROVE FALSE
  BY <1>5 DEF RollbackEnds, Settle, TypeOK
<1>6. ASSUME WorkerDies PROVE FALSE
  BY <1>6 DEF WorkerDies
<1>7. CASE UNCHANGED returned
  BY <1>7
<1> QED
  BY <1>1, <1>2, <1>3, <1>4, <1>5, <1>6, <1>7
     DEF Next, vars, GrantStep, AttachStep, ChromeStep, Bind, Revoke, RevokeAll,
         AttachSucceeds, EnableFails, ChromeDetaches, HandleDetach, OtherDebugger, Reconcile

(* A session() call only returns a view of a bound grant on a tab we debug *)
(* or whose detach event is still on its way.                              *)
THEOREM ViewsAreLive == Spec => ViewIsLive
<1>1. IInv /\ [Next]_vars =>
        [\A g \in Grants :
          returned'[g] = "view" /\ returned[g] # "view"
          => /\ tabOf'[g] # NoTab
             /\ debugger'[tabOf'[g]] = "ours" \/ tabOf'[g] \in notices'
             /\ attach'[tabOf'[g]].phase = "idle"]_vars
  BY NextViewIsLive
<1> QED BY <1>1, SpecIInv, PTL DEF Spec, ViewIsLive

-----------------------------------------------------------------------------
(* Whose debugger it is: a tab has a shared state exactly when it has a    *)
(* grant, and then it is in the ledger; outside the races an attach works  *)
(* for the state of its tab, and a tab we debug is being attached, marked, *)
(* or in the ledger of a worker that has died; a detach event on its way   *)
(* comes before the answer to any later attach.                            *)
Shared ==
    /\ \A t \in Tabs : state[t].present <=> \E g \in Grants : tabOf[g] = t
    /\ \A g \in Grants : tabOf[g] # NoTab => up /\ tabOf[g] \in ledger

Accounted(t) ==
    /\ attach[t].phase \in {"attaching", "enabling"} =>
         state[t].present /\ state[t].incarnation = attach[t].incarnation
    /\ up /\ debugger[t] = "ours" =>
         attach[t].phase = "enabling" \/ (attach[t].phase = "idle" /\ state[t].attached)
    /\ ~up /\ debugger[t] = "ours" => t \in ledger
    /\ up /\ t \in notices => debugger[t] # "ours"

Owned == Shared /\ \A t \in Tabs \ orphaned : Accounted(t)

LEMMA InitOwned == Init => Owned
  BY DEF Init, NoAttach, Owned, Shared, Accounted

(* Grants and states come and go together. *)
LEMMA GrantOwned == IInv /\ Owned /\ GrantStep => Owned'
<1> SUFFICES ASSUME IInv, Owned, GrantStep PROVE Owned'
  OBVIOUS
<1> USE DEF IInv, Owned
<1>1. ASSUME NEW g \in Grants, NEW t \in Tabs, Bind(g, t) PROVE Owned'
  <2>1. tabOf[g] = NoTab /\ t # NoTab
    BY <1>1 DEF Bind, BoundOnce
  <2>2. \A u \in Tabs : state'[u].present <=> state[u].present \/ u = t
    BY <1>1 DEF Bind, TypeOK, TabStates
  <2>3. Shared'
    BY <1>1, <2>1, <2>2 DEF Bind, TypeOK, Shared
  <2>4. ASSUME NEW u \in Tabs \ orphaned' PROVE Accounted(u)'
    <3>1. CASE state'[u] = state[u]
      BY <1>1, <3>1 DEF Bind, Accounted
    <3>2. CASE state'[u] # state[u]
      <4>1. u = t /\ ~state[t].present
        BY <1>1, <3>2 DEF Bind, TypeOK
      <4> QED BY <1>1, <4>1 DEF Bind, Accounted, AttachedMeansOurs
    <3> QED BY <3>1, <3>2
  <2> QED BY <2>3, <2>4
<1>2. ASSUME NEW g \in Grants, Revoke(g) PROVE Owned'
  <2>1. tabOf[g] \in Tabs /\ up
    BY <1>2 DEF Revoke, TypeOK, Shared
  <2>2. CASE LastOf(g)
    <3> DEFINE t == tabOf[g]
    <3>1. /\ DetachTabs({t})
          /\ ledger' = ledger \ {t}
          /\ orphaned' = orphaned \cup Attaching({t})
          /\ tabOf' = [tabOf EXCEPT ![g] = NoTab]
          /\ UNCHANGED <<attach, notices, up>>
      BY <1>2, <2>2 DEF Revoke
    <3>2. \A h \in Grants : tabOf'[h] = IF tabOf[h] = t THEN NoTab ELSE tabOf[h]
      BY <2>2, <3>1 DEF LastOf, GrantsOf, TypeOK
    <3>3. ~state'[t].present
      BY <2>1, <3>1 DEF DetachTabs, TypeOK, TabStates
    <3>4. \A u \in Tabs \ {t} : state'[u] = state[u] /\ debugger'[u] = debugger[u]
      BY <3>1 DEF DetachTabs
    <3>5. debugger[t] = "ours" /\ state[t].attached => debugger'[t] # "ours"
      BY <2>1, <3>1 DEF DetachTabs, Released, AttachedMeansOurs
    <3>6. debugger'[t] = "ours" => debugger[t] = "ours"
      BY <2>1, <3>1 DEF DetachTabs, Released
    <3>7. Shared'
      BY <2>1, <3>1, <3>2, <3>3, <3>4 DEF Shared
    <3>8. ASSUME NEW u \in Tabs \ orphaned' PROVE Accounted(u)'
      <4>1. CASE u # t
        BY <3>1, <3>4, <3>8, <4>1 DEF Accounted
      <4>2. CASE u = t
        <5>1. attach[t].phase = "idle" /\ t \notin orphaned
          BY <3>1, <3>8, <4>2 DEF Attaching
        <5>2. debugger'[t] # "ours"
          BY <2>1, <3>5, <3>6, <5>1 DEF Accounted
        <5> QED BY <2>1, <3>1, <4>2, <5>1, <5>2 DEF Accounted
      <4> QED BY <4>1, <4>2
    <3> QED BY <3>7, <3>8
  <2>3. CASE ~LastOf(g)
    <3>1. /\ tabOf' = [tabOf EXCEPT ![g] = NoTab]
          /\ UNCHANGED <<state, debugger, notices, ledger, orphaned, attach, up>>
      BY <1>2, <2>3 DEF Revoke
    <3>2. PICK h \in Grants \ {g} : tabOf[h] = tabOf[g]
      BY <2>3 DEF LastOf, GrantsOf
    <3>3. Shared'
      BY <2>1, <3>1, <3>2 DEF Shared, TypeOK
    <3>4. ASSUME NEW u \in Tabs \ orphaned' PROVE Accounted(u)'
      BY <3>1 DEF Accounted
    <3> QED BY <3>3, <3>4
  <2> QED BY <2>2, <2>3
<1>3. ASSUME RevokeAll PROVE Owned'
  <2> DEFINE present == {t \in Tabs : state[t].present}
  <2>1. /\ DetachTabs(present)
        /\ orphaned' = orphaned \cup Attaching(present)
        /\ \A g \in Grants : tabOf'[g] = NoTab
        /\ UNCHANGED <<attach, up>>
    BY <1>3 DEF RevokeAll
  <2>2. up
    BY <1>3 DEF RevokeAll, Shared
  <2>3. \A u \in Tabs : ~state'[u].present /\ (debugger'[u] = "ours" => debugger[u] = "ours")
    BY <2>1 DEF DetachTabs, Released, TypeOK, TabStates
  <2>4. \A u \in Tabs : debugger[u] = "ours" /\ state[u].attached => debugger'[u] # "ours"
    BY <2>1 DEF DetachTabs, Released, AttachedMeansOurs
  <2>5. Shared'
    <3>1. ASSUME NEW u \in Tabs, NEW g \in Grants PROVE tabOf'[g] # u
      BY <2>1
    <3> QED BY <2>1, <2>3, <3>1 DEF Shared
  <2>6. ASSUME NEW u \in Tabs \ orphaned' PROVE Accounted(u)'
    <3>1. u \notin orphaned /\ (state[u].present => attach[u].phase = "idle")
      BY <2>1, <2>6 DEF Attaching
    <3>2. attach[u].phase \notin {"attaching", "enabling"}
      BY <3>1 DEF Accounted
    <3>3. debugger'[u] # "ours"
      BY <2>2, <2>3, <2>4, <3>1, <3>2 DEF Accounted
    <3> QED BY <2>1, <2>2, <3>2, <3>3 DEF Accounted
  <2> QED BY <2>5, <2>6
<1>4. ASSUME NEW g \in Grants, SessionReady(g) PROVE Owned'
  BY <1>4 DEF SessionReady, Shared, Accounted
<1>5. ASSUME NEW g \in Grants, SessionAttaches(g) PROVE Owned'
  <2>1. tabOf[g] \in Tabs /\ state[tabOf[g]].present /\ ~state[tabOf[g]].attached
    BY <1>5 DEF SessionAttaches, TypeOK, Shared
  <2>2. Shared'
    BY <1>5 DEF SessionAttaches, Shared
  <2>3. ASSUME NEW u \in Tabs \ orphaned' PROVE Accounted(u)'
    BY <1>5, <2>1 DEF SessionAttaches, TypeOK, Attaches, Accounted
  <2> QED BY <2>2, <2>3
<1> QED BY <1>1, <1>2, <1>3, <1>4, <1>5 DEF GrantStep

(* An attach marks the state it began with, or leaves nothing behind. *)
LEMMA AttachOwned == ASSUME NEW t \in Tabs PROVE IInv /\ Owned /\ AttachStep(t) => Owned'
<1> SUFFICES ASSUME IInv, Owned, AttachStep(t) PROVE Owned'
  OBVIOUS
<1> USE DEF IInv, Owned
<1>1. up
  BY DEF AttachStep, AttachSucceeds, AttachRefused, EnableSucceeds, EnableFails,
         RollbackEnds, Quiet
<1>2. CASE AttachSucceeds(t)
  BY <1>1, <1>2 DEF AttachSucceeds, TypeOK, Attaches, Shared, Accounted
<1>3. CASE AttachRefused(t)
  <2>1. Shared'
    BY <1>3 DEF AttachRefused, Shared
  <2>2. ASSUME NEW u \in Tabs \ orphaned' PROVE Accounted(u)'
    BY <1>1, <1>3 DEF AttachRefused, Settle, NoAttach, TypeOK, Attaches, Accounted
  <2> QED BY <2>1, <2>2
<1>4. CASE EnableSucceeds(t)
  <2>1. /\ \A u \in Tabs : state'[u].present = state[u].present
        /\ \A u \in Tabs : state'[u].incarnation = state[u].incarnation
    BY <1>4 DEF EnableSucceeds, TypeOK, TabStates
  <2>2. Shared'
    BY <1>4, <2>1 DEF EnableSucceeds, Shared
  <2>3. ASSUME NEW u \in Tabs \ orphaned' PROVE Accounted(u)'
    <3>1. CASE u = t
      <4>1. state[t].present /\ state[t].incarnation = attach[t].incarnation
        BY <1>4, <2>3, <3>1 DEF EnableSucceeds, Accounted
      <4>2. state'[t].attached /\ attach'[t].phase = "idle"
        BY <1>4, <4>1 DEF EnableSucceeds, Settle, NoAttach, TypeOK, TabStates
      <4> QED BY <1>1, <1>4, <3>1, <4>2 DEF EnableSucceeds, Accounted
    <3>2. CASE u # t
      BY <1>4, <3>2 DEF EnableSucceeds, Settle, Accounted
    <3> QED BY <3>1, <3>2
  <2> QED BY <2>2, <2>3
<1>5. CASE EnableFails(t)
  <2>1. Shared'
    BY <1>5 DEF EnableFails, Shared
  <2>2. ASSUME NEW u \in Tabs \ orphaned' PROVE Accounted(u)'
    BY <1>1, <1>5, ReleasedType DEF EnableFails, TypeOK, Attaches, Accounted
  <2> QED BY <2>1, <2>2
<1>6. CASE RollbackEnds(t)
  <2>1. Shared'
    BY <1>6 DEF RollbackEnds, Shared
  <2>2. ASSUME NEW u \in Tabs \ orphaned' PROVE Accounted(u)'
    BY <1>1, <1>6 DEF RollbackEnds, Settle, NoAttach, Accounted
  <2> QED BY <2>1, <2>2
<1> QED BY <1>2, <1>3, <1>4, <1>5, <1>6 DEF AttachStep

(* Chrome only takes debuggers away from us. *)
LEMMA ChromeOwned == ASSUME NEW t \in Tabs PROVE IInv /\ Owned /\ ChromeStep(t) => Owned'
<1> SUFFICES ASSUME IInv, Owned, ChromeStep(t) PROVE Owned'
  OBVIOUS
<1> USE DEF IInv, Owned
<1>1. ASSUME NEW next \in {"free", "other"}, ChromeDetaches(t, next) PROVE Owned'
  <2>1. /\ state' = state
        /\ \A u \in Tabs \ {t} : debugger'[u] = debugger[u] /\ (u \in notices' <=> u \in notices)
        /\ debugger'[t] # "ours"
    BY <1>1 DEF ChromeDetaches, TypeOK
  <2>2. Shared'
    BY <1>1, <2>1 DEF ChromeDetaches, Shared
  <2>3. ASSUME NEW u \in Tabs \ orphaned' PROVE Accounted(u)'
    <3>1. UNCHANGED <<attach, up, ledger>>
      BY <1>1 DEF ChromeDetaches
    <3>2. u \in orphaned => u = t /\ attach[t].phase = "idle"
      BY <1>1, <2>3 DEF ChromeDetaches, Attaching
    <3> QED BY <2>1, <3>1, <3>2 DEF Accounted
  <2> QED BY <2>2, <2>3
<1>2. CASE HandleDetach(t)
  <2>1. /\ \A u \in Tabs : state'[u].present = state[u].present
        /\ \A u \in Tabs : state'[u].incarnation = state[u].incarnation
        /\ \A u \in Tabs \ {t} : state'[u] = state[u]
        /\ t \in notices /\ notices' = notices \ {t}
        /\ UNCHANGED <<debugger, attach, up, ledger, orphaned, tabOf>>
    BY <1>2 DEF HandleDetach, TypeOK, TabStates
  <2>2. Shared'
    BY <2>1 DEF Shared
  <2>3. ASSUME NEW u \in Tabs \ orphaned' PROVE Accounted(u)'
    <3>1. CASE u = t
      BY <2>1, <2>3, <3>1 DEF Accounted
    <3>2. CASE u # t
      BY <2>1, <2>3, <3>2 DEF Accounted
    <3> QED BY <3>1, <3>2
  <2> QED BY <2>2, <2>3
<1>3. CASE OtherDebugger(t)
  BY <1>3 DEF OtherDebugger, TypeOK, Shared, Accounted
<1> QED BY <1>1, <1>2, <1>3 DEF ChromeStep

(* What a dead worker leaves attached is in its ledger. *)
LEMMA CrashOwned == IInv /\ Owned /\ (WorkerDies \/ Reconcile) => Owned'
<1> SUFFICES ASSUME IInv, Owned, WorkerDies \/ Reconcile PROVE Owned'
  OBVIOUS
<1> USE DEF IInv, Owned
<1>1. CASE WorkerDies
  <2>1. /\ \A u \in Tabs : attach'[u].phase = "idle"
        /\ \A g \in Grants : tabOf'[g] = NoTab
        /\ ~up'
        /\ ledger' = ledger
        /\ orphaned' = {t \in orphaned : debugger'[t] = "ours"}
    BY <1>1 DEF WorkerDies, NoAttach
  <2>2. ASSUME NEW u \in Tabs PROVE ~state'[u].present
    <3>1. state'[u] = [state[u] EXCEPT !.present = FALSE, !.attached = FALSE]
      BY <1>1 DEF WorkerDies
    <3>2. state[u] \in TabStates
      BY DEF TypeOK
    <3> QED BY <3>1, <3>2 DEF TabStates
  <2>3. Shared'
    <3>1. ASSUME NEW u \in Tabs, NEW g \in Grants PROVE tabOf'[g] # u
      BY <2>1
    <3> QED BY <2>1, <2>2, <3>1 DEF Shared
  <2>4. ASSUME NEW u \in Tabs \ orphaned', debugger'[u] = "ours" PROVE u \in ledger
    <3>1. u \notin orphaned
      BY <2>1, <2>4
    <3>2. CASE debugger[u] = "ours"
      BY <3>1, <3>2 DEF Accounted, Shared, AttachedMeansOurs
    <3>3. CASE debugger[u] # "ours"
      <4>1. PICK late \in SUBSET {t \in Tabs : attach[t].phase = "attaching" /\ debugger[t] = "free"} :
              debugger' = [t \in Tabs |-> IF t \in late THEN "ours" ELSE debugger[t]]
        BY <1>1 DEF WorkerDies
      <4>2. attach[u].phase = "attaching"
        BY <2>4, <3>3, <4>1
      <4> QED BY <3>1, <4>2 DEF Accounted, Shared
    <3> QED BY <3>2, <3>3
  <2>5. ASSUME NEW u \in Tabs \ orphaned' PROVE Accounted(u)'
    BY <2>1, <2>4, <2>5 DEF Accounted
  <2> QED BY <2>3, <2>5
<1>2. CASE Reconcile
  <2>1. Shared'
    BY <1>2 DEF Reconcile, Shared
  <2>2. ASSUME NEW u \in Tabs \ orphaned' PROVE Accounted(u)'
    <3>1. debugger'[u] # "ours"
      BY <1>2, <2>2 DEF Reconcile, Released, Accounted
    <3> QED BY <1>2, <3>1 DEF Reconcile, Quiet, Accounted
  <2> QED BY <2>1, <2>2
<1> QED BY <1>1, <1>2

(* Whose debugger it is stays accounted for. *)
LEMMA NextOwned == IInv /\ Owned /\ [Next]_vars => Owned'
<1> SUFFICES ASSUME IInv, Owned, [Next]_vars PROVE Owned'
  OBVIOUS
<1>1. CASE UNCHANGED vars
  BY <1>1 DEF vars, Owned, Shared, Accounted
<1>2. CASE Next
  BY <1>2, GrantOwned, AttachOwned, ChromeOwned, CrashOwned DEF Next
<1> QED BY <1>1, <1>2

(* Accounting holds in every reachable state. *)
THEOREM SpecOwned == Spec => []Owned
  BY SpecIInv, InitOwned, NextOwned, PTL DEF Spec

(* The only debugger left behind is one forgotten during its attach. *)
THEOREM OrphansCorrect == Spec => []OrphansAreRaces
<1>1. IInv /\ Owned => OrphansAreRaces
  BY DEF IInv, Owned, Shared, Accounted, AttachedMeansOurs, OrphansAreRaces, GrantsOf
<1> QED BY <1>1, SpecIInv, SpecOwned, PTL

(* We never ask Chrome to attach to a tab we have attached already. *)
THEOREM BusyCorrect == Spec => []BusyMeansOther
<1>1. IInv /\ Owned => BusyMeansOther
  BY DEF IInv, Quiet, Owned, Accounted, BusyMeansOther
<1> QED BY <1>1, SpecIInv, SpecOwned, PTL

(* Revoking one grant leaves the session of the others attached. *)
THEOREM SharedSessionsSurvive == Spec => SharedSessionSurvives
<1>1. ASSUME NEW g \in Grants, Revoke(g), NEW h \in Grants \ {g}, TypeOK, tabOf[h] # NoTab
      PROVE  debugger'[tabOf[h]] = debugger[tabOf[h]] /\ state'[tabOf[h]] = state[tabOf[h]]
  <2>1. CASE LastOf(g)
    <3>1. tabOf[h] \in Tabs /\ tabOf[h] # tabOf[g]
      BY <1>1, <2>1 DEF LastOf, GrantsOf, TypeOK
    <3> QED BY <1>1, <2>1, <3>1 DEF Revoke, DetachTabs
  <2>2. CASE ~LastOf(g)
    BY <1>1, <2>2 DEF Revoke
  <2> QED BY <2>1, <2>2
<1>2. TypeOK /\ [Next]_vars =>
        [\A g \in Grants : Revoke(g) =>
            \A h \in Grants \ {g} :
              tabOf[h] # NoTab => /\ debugger'[tabOf[h]] = debugger[tabOf[h]]
                                  /\ state'[tabOf[h]] = state[tabOf[h]]]_vars
  BY <1>1
<1> QED BY <1>2, TypeCorrect, PTL DEF Spec, SharedSessionSurvives
=============================================================================
