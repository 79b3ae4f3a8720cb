----------------------------- MODULE CdpSessions -----------------------------
(***************************************************************************)
(* Debugger sessions of the extension (cdp/session-manager.ts): grants are *)
(* bound to tabs, the first session() of a tab attaches chrome.debugger    *)
(* and enables its domains, every grant of the tab shares that attachment, *)
(* the revocation of the last one detaches it.  Also the death of the      *)
(* service worker and the startup reconciliation of background.ts.         *)
(*                                                                         *)
(* Chrome handles the commands of one extension in the order they are      *)
(* issued, so a detach takes effect for every later attach, and its events *)
(* and answers arrive in the order it sent them.                           *)
(***************************************************************************)
EXTENDS Naturals, FiniteSets

CONSTANTS Grants, Tabs, NoTab,
          MaxDeaths   \* deaths of the service worker explored

ASSUME CdpAssumption ==
    /\ NoTab \notin Tabs
    /\ MaxDeaths \in Nat

VARIABLES
    tabOf,      \* grantToTab (and the grant's view): its tab, or NoTab
    used,       \* grants bound so far; an id is never bound again
    state,      \* tabStates: tab -> its shared TabState
    attach,     \* attaching: tab -> the attach in flight
    waiting,    \* grant -> the tab whose attach its session() awaits, or NoTab
    returned,   \* grant -> what its latest session() gave
    debugger,   \* Chrome: who debugs the tab
    notices,    \* Chrome: tabs whose detach event is on its way to us
    ledger,     \* chrome.storage.session: tabs of the owned grants
    up,         \* startup reconciliation is over
    deaths,
    orphaned    \* history: tabs whose state was forgotten during an attach

vars == <<tabOf, used, state, attach, waiting, returned, debugger, notices, ledger, up, deaths,
          orphaned>>

(* A TabState object is told from its successors by its incarnation.       *)
TabStates == [present : BOOLEAN, incarnation : Nat, attached : BOOLEAN]
Attaches ==
    [phase : {"idle", "attaching", "enabling", "rollback"}, incarnation : Nat]

NoAttach == [phase |-> "idle", incarnation |-> 0]

GrantsOf(t) == {g \in Grants : tabOf[g] = t}

Init ==
    /\ tabOf = [g \in Grants |-> NoTab]
    /\ used = {}
    /\ state = [t \in Tabs |-> [present |-> FALSE, incarnation |-> 0, attached |-> FALSE]]
    /\ attach = [t \in Tabs |-> NoAttach]
    /\ waiting = [g \in Grants |-> NoTab]
    /\ returned = [g \in Grants |-> "none"]
    /\ debugger = [t \in Tabs |-> "free"]
    /\ notices = {}
    /\ ledger = {}
    /\ up = TRUE
    /\ deaths = 0
    /\ orphaned = {}

-----------------------------------------------------------------------------
(* Grants *)

(* bind(): createView() makes the shared state, nothing is attached. *)
Bind(g, t) ==
    /\ up /\ g \notin used
    /\ used' = used \cup {g}
    /\ tabOf' = [tabOf EXCEPT ![g] = t]
    /\ state' = IF state[t].present THEN state
                ELSE [state EXCEPT ![t] = [present |-> TRUE, attached |-> FALSE,
                                           incarnation |-> @.incarnation + 1]]
    /\ ledger' = ledger \cup {t}
    /\ UNCHANGED <<attach, waiting, returned, debugger, notices, up, deaths, orphaned>>

Released(t) == IF debugger[t] = "ours" THEN "free" ELSE debugger[t]

(* Mutation of DetachTabs: the debugger is left attached. *)
DetachTabsForgets(T) ==
    /\ state' = [t \in Tabs |-> IF t \in T
                               THEN [state[t] EXCEPT !.present = FALSE, !.attached = FALSE]
                               ELSE state[t]]
    /\ debugger' = debugger

(* detachTab(): the state is forgotten, an attached debugger is detached. *)
DetachTabs(T) ==
    /\ state' = [t \in Tabs |-> IF t \in T
                               THEN [state[t] EXCEPT !.present = FALSE, !.attached = FALSE]
                               ELSE state[t]]
    /\ debugger' = [t \in Tabs |-> IF t \in T /\ state[t].present /\ state[t].attached
                                  THEN Released(t) ELSE debugger[t]]

Attaching(T) == {t \in T : attach[t].phase # "idle"}

(* Mutation of LastOf: any revocation counts as the last one. *)
LastOfAny(g) == TRUE

LastOf(g) == GrantsOf(tabOf[g]) = {g}

(* revoke() *)
Revoke(g) ==
    /\ tabOf[g] # NoTab
    /\ tabOf' = [tabOf EXCEPT ![g] = NoTab]
    /\ IF LastOf(g)
       THEN /\ DetachTabs({tabOf[g]})
            /\ ledger' = ledger \ {tabOf[g]}
            /\ orphaned' = orphaned \cup Attaching({tabOf[g]})
       ELSE UNCHANGED <<state, debugger, ledger, orphaned>>
    /\ UNCHANGED <<used, attach, waiting, returned, notices, up, deaths>>

(* revokeAll(): the panel went away or the logical session changed. *)
RevokeAll ==
    /\ \E g \in Grants : tabOf[g] # NoTab
    /\ tabOf' = [g \in Grants |-> NoTab]
    /\ DetachTabs({t \in Tabs : state[t].present})
    /\ ledger' = {}
    /\ orphaned' = orphaned \cup Attaching({t \in Tabs : state[t].present})
    /\ UNCHANGED <<used, attach, waiting, returned, notices, up, deaths>>

-----------------------------------------------------------------------------
(* session() *)

(* The tab is attached: the view is returned at once. *)
SessionReady(g) ==
    /\ up /\ tabOf[g] # NoTab /\ waiting[g] = NoTab
    /\ state[tabOf[g]].attached
    /\ returned' = [returned EXCEPT ![g] = "view"]
    /\ UNCHANGED <<tabOf, used, state, attach, waiting, debugger, notices, ledger, up, deaths, orphaned>>

(* It is not: an attach in flight is shared, otherwise one is started. *)
SessionAttaches(g) ==
    LET t == tabOf[g]
    IN /\ up /\ t # NoTab /\ waiting[g] = NoTab
       /\ ~state[t].attached
       /\ attach' = IF attach[t].phase # "idle" THEN attach
                    ELSE [attach EXCEPT ![t] =
                            [phase |-> "attaching", incarnation |-> state[t].incarnation]]
       /\ waiting' = [waiting EXCEPT ![g] = t]
       /\ returned' = [returned EXCEPT ![g] = "none"]
       /\ UNCHANGED <<tabOf, used, state, debugger, notices, ledger, up, deaths, orphaned>>

(* The shared promise settles: everybody who awaits it goes on. *)
Settle(t, outcome) ==
    /\ attach' = [attach EXCEPT ![t] = NoAttach]
    /\ waiting' = [g \in Grants |-> IF waiting[g] = t THEN NoTab ELSE waiting[g]]
    /\ returned' = [g \in Grants |-> IF waiting[g] = t THEN outcome[g] ELSE returned[g]]

(* Chrome answers debugger.attach, after the detach events before it. *)
AttachSucceeds(t) ==
    /\ attach[t].phase = "attaching" /\ debugger[t] = "free" /\ t \notin notices
    /\ debugger' = [debugger EXCEPT ![t] = "ours"]
    /\ attach' = [attach EXCEPT ![t].phase = "enabling"]
    /\ UNCHANGED <<tabOf, used, state, waiting, returned, notices, ledger, up, deaths, orphaned>>

AttachRefused(t) ==
    /\ attach[t].phase = "attaching" /\ debugger[t] # "free" /\ t \notin notices
    /\ Settle(t, [g \in Grants |-> "debugger_busy"])
    /\ orphaned' = IF debugger[t] = "ours" THEN orphaned ELSE orphaned \ {t}
    /\ UNCHANGED <<tabOf, used, state, debugger, notices, ledger, up, deaths>>

(* Mutation of Viewed: the view is not looked up again after the attach. *)
ViewedBlindly(g) == "view"

(* The grant may have been revoked while the attach was pending. *)
Viewed(g) == IF tabOf[g] = NoTab THEN "grant_expired" ELSE "view"

(* The last domain is enabled; only the state the attach began with is     *)
(* marked, whether or not the tab still has that state.  The answer may    *)
(* come just ahead of the event of a detach that followed it.              *)
EnableSucceeds(t) ==
    /\ attach[t].phase = "enabling"
    /\ debugger[t] = "ours" \/ t \in notices
    /\ state' = [state EXCEPT ![t].attached =
                   @ \/ (state[t].present /\ state[t].incarnation = attach[t].incarnation)]
    /\ Settle(t, [g \in Grants |-> Viewed(g)])
    /\ UNCHANGED <<tabOf, used, debugger, notices, ledger, up, deaths, orphaned>>

(* A domain fails to enable: roll back, then report it. *)
EnableFails(t) ==
    /\ attach[t].phase = "enabling"
    /\ attach' = [attach EXCEPT ![t].phase = "rollback"]
    /\ debugger' = [debugger EXCEPT ![t] = Released(t)]
    /\ orphaned' = orphaned \ {t}
    /\ UNCHANGED <<tabOf, used, state, waiting, returned, notices, ledger, up, deaths>>

RollbackEnds(t) ==
    /\ attach[t].phase = "rollback"
    /\ Settle(t, [g \in Grants |-> "failed"])
    /\ UNCHANGED <<tabOf, used, state, debugger, notices, ledger, up, deaths, orphaned>>

-----------------------------------------------------------------------------
(* Chrome *)

(* DevTools replaces us, the user cancels, the tab closes. *)
ChromeDetaches(t, next) ==
    /\ debugger[t] = "ours"
    /\ debugger' = [debugger EXCEPT ![t] = next]
    /\ notices' = notices \cup {t}
    /\ orphaned' = orphaned \ ({t} \ Attaching({t}))
    /\ UNCHANGED <<tabOf, used, state, attach, waiting, returned, ledger, up, deaths>>

(* handleDetach(): Chrome's event reaches whatever state the tab has now. *)
HandleDetach(t) ==
    /\ t \in notices
    /\ notices' = notices \ {t}
    /\ state' = [state EXCEPT ![t].attached = FALSE]
    /\ UNCHANGED <<tabOf, used, attach, waiting, returned, debugger, ledger, up, deaths,
                   orphaned>>

OtherDebugger(t) ==
    /\ debugger[t] # "ours"
    /\ debugger' = [debugger EXCEPT ![t] = IF @ = "free" THEN "other" ELSE "free"]
    /\ UNCHANGED <<tabOf, used, state, attach, waiting, returned, notices, ledger, up, deaths, orphaned>>

(* The worker dies with everything it kept; an attach already on its way   *)
(* to Chrome may still be carried out.                                     *)
WorkerDies ==
    /\ deaths < MaxDeaths
    /\ deaths' = deaths + 1
    /\ up' = FALSE
    /\ tabOf' = [g \in Grants |-> NoTab]
    /\ state' = [t \in Tabs |-> [state[t] EXCEPT !.present = FALSE, !.attached = FALSE]]
    /\ attach' = [t \in Tabs |-> NoAttach]
    /\ waiting' = [g \in Grants |-> NoTab]
    /\ returned' = [g \in Grants |-> "none"]
    /\ \E late \in SUBSET {t \in Tabs : attach[t].phase = "attaching" /\ debugger[t] = "free"} :
          debugger' = [t \in Tabs |-> IF t \in late THEN "ours" ELSE debugger[t]]
    /\ orphaned' = {t \in orphaned : debugger'[t] = "ours"}
    /\ UNCHANGED <<used, notices, ledger>>

(* Mutation of Reconcile: only tabs with local session state are detached. *)
ReconcileKnown ==
    /\ ~up
    /\ up' = TRUE
    /\ ledger' = {}
    /\ DetachTabs(ledger)
    /\ orphaned' = orphaned \ ledger
    /\ UNCHANGED <<tabOf, used, attach, waiting, returned, notices, deaths>>

(* reconcileStartup() and cleanupOwned(): the tabs of the ledger are       *)
(* detached unconditionally before any request is let through.             *)
Reconcile ==
    /\ ~up
    /\ up' = TRUE
    /\ debugger' = [t \in Tabs |-> IF t \in ledger THEN Released(t) ELSE debugger[t]]
    /\ ledger' = {}
    /\ orphaned' = orphaned \ ledger
    /\ UNCHANGED <<tabOf, used, state, attach, waiting, returned, notices, deaths>>

-----------------------------------------------------------------------------
GrantStep ==
    \/ \E g \in Grants, t \in Tabs : Bind(g, t)
    \/ \E g \in Grants : Revoke(g) \/ SessionReady(g) \/ SessionAttaches(g)
    \/ RevokeAll

AttachStep(t) ==
    \/ AttachSucceeds(t) \/ AttachRefused(t)
    \/ EnableSucceeds(t) \/ EnableFails(t) \/ RollbackEnds(t)

ChromeStep(t) ==
    \/ \E next \in {"free", "other"} : ChromeDetaches(t, next)
    \/ HandleDetach(t) \/ OtherDebugger(t)

Next ==
    \/ GrantStep
    \/ \E t \in Tabs : AttachStep(t) \/ ChromeStep(t)
    \/ WorkerDies \/ Reconcile

Spec == Init /\ [][Next]_vars

-----------------------------------------------------------------------------
(* Types; and every session() call that waits has an attach in flight that *)
(* will settle it (attaching map).                                         *)
TypeOK ==
    /\ tabOf \in [Grants -> Tabs \cup {NoTab}]
    /\ used \subseteq Grants
    /\ state \in [Tabs -> TabStates]
    /\ attach \in [Tabs -> Attaches]
    /\ waiting \in [Grants -> Tabs \cup {NoTab}]
    /\ returned \in [Grants -> {"none", "view", "debugger_busy", "grant_expired", "failed"}]
    /\ debugger \in [Tabs -> {"free", "ours", "other"}]
    /\ notices \subseteq Tabs
    /\ ledger \subseteq Tabs
    /\ up \in BOOLEAN
    /\ deaths \in Nat
    /\ orphaned \subseteq Tabs
    /\ \A g \in Grants : waiting[g] # NoTab => attach[waiting[g]].phase # "idle"

(* A shared state marked attached is really attached, or the event that    *)
(* will clear the mark is on its way: detach events, the detach of the     *)
(* last revocation and failed attaches all clear it, so no tool call skips *)
(* the attach it needs (ensurePhysical).                                   *)
AttachedMeansOurs ==
    \A t \in Tabs :
        state[t].attached => state[t].present /\ (debugger[t] = "ours" \/ t \in notices)

(* A revocation detaches when it was the final grant of its tab            *)
(* (session-manager.ts:153): outside an attach in flight and startup, a    *)
(* tab we debug has a grant.                                               *)
NoOrphanAttach ==
    \A t \in Tabs :
        up /\ debugger[t] = "ours" /\ attach[t].phase = "idle" => GrantsOf(t) # {}

(* The only debugger left behind is one whose state was forgotten while    *)
(* its attach was in flight: any other tab we debug has a grant and a mark *)
(* by which the last revocation finds it, across lost and shared attaches, *)
(* deaths of the worker and reconciliation.                                *)
OrphansAreRaces ==
    \A t \in Tabs \ orphaned :
        up /\ debugger[t] = "ours" /\ attach[t].phase = "idle"
        => GrantsOf(t) # {} /\ state[t].attached

(* debugger_busy tells of another debugger: we never ask Chrome to attach  *)
(* to a tab we have attached already (attachPhysical), unless that         *)
(* attachment was left behind in such a race.                              *)
BusyMeansOther ==
    \A t \in Tabs \ orphaned : attach[t].phase = "attaching" => debugger[t] # "ours"

(* A view is only returned for a grant that is still bound, on a tab whose *)
(* debugger is attached and fully enabled, or whose detach event we have   *)
(* yet to see, however many grants shared the attach and whatever was      *)
(* revoked meanwhile (session()).                                          *)
ViewIsLive ==
    [][\A g \in Grants :
          returned'[g] = "view" /\ returned[g] # "view"
          => /\ tabOf'[g] # NoTab
             /\ debugger'[tabOf'[g]] = "ours" \/ tabOf'[g] \in notices'
             /\ attach'[tabOf'[g]].phase = "idle"]_vars

(* Revoking one grant leaves the session of the others attached. *)
SharedSessionSurvives ==
    [][\A g \in Grants : Revoke(g) =>
          \A h \in Grants \ {g} :
              tabOf[h] # NoTab => /\ debugger'[tabOf[h]] = debugger[tabOf[h]]
                                  /\ state'[tabOf[h]] = state[tabOf[h]]]_vars
=============================================================================
