------------------------------- MODULE TabTools -------------------------------
(***************************************************************************)
(* What a browser tool call does to its tab: the intake of                 *)
(* BridgeRouter.handleToolCall, the per-grant views and element references *)
(* of CdpSessionManager, and the tools of extension/src/cdp that send CDP  *)
(* commands (act, navigate, observe, wait).  One tab; its grants share the *)
(* debugger session and are judged one by one on every navigation.         *)
(*                                                                         *)
(* A tool is the sequence of commands it sends.  A command takes effect    *)
(* when it is sent and its reply travels back behind the events Chrome     *)
(* emitted before it; the worker handles one message at a time and runs    *)
(* every continuation of it before the next one.  Documents are numbered   *)
(* in the order the main frame commits them.  CdpSessions has the attach   *)
(* in detail, GrantVault the activity of a call.                           *)
(***************************************************************************)
EXTENDS Integers, Sequences, FiniteSets

CONSTANTS
    Grants,         \* grants of the tab
    Calls,          \* request ids of tool calls
    Tools,          \* [Calls -> tools the request may name], out of ToolNames
    Kinds,          \* used, out of ActKinds, NavKinds and Checks
    Origins,        \* origins the page visits
    Home,           \* the one it shows first
    MaxDocs,        \* bound: documents the main frame commits
    MaxActions,     \* bound: actions of one batch
    MaxDetaches     \* bound: detaches by DevTools

ToolNames == {"act", "navigate", "observe", "wait", "settle"}

ASSUME HomeAssumption  == Home \in Origins
ASSUME NullAssumption  == "nobody" \notin Grants /\ "unknown" \notin Origins
ASSUME ToolAssumption  == Tools \in [Calls -> SUBSET ToolNames]
ASSUME BoundAssumption == MaxDocs \in Nat \ {0} /\ MaxActions \in Nat \ {0}

VARIABLES
    page,       \* the main frame: number and origin of its document
    debugging,  \* Chrome has our debugger session
    wire,       \* replies and events on their way to the worker
    attached,   \* TabState.attached
    generation, \* TabState.generation
    refs,       \* TabState.refs: document and generation of each reference
    issued,     \* [Grants -> origin of the URL createGrant read for the grant]
    bound,      \* tabGrants
    views,      \* [Grants -> the grant's TabSession]
    calls,      \* [Calls -> the running tool call]
    handles,    \* [Calls -> Runtime objects the page holds for it]
    runs,       \* history: [Calls -> executions started]
    blind,      \* history: grants not told of the last document they should judge
    credit,     \* history: [Grants -> windows armed less foreign origins followed]
    detaches    \* history: detaches so far

tabVars  == <<attached, generation, refs>>
grantVars == <<issued, bound, views, blind, credit>>
vars == <<page, debugging, wire, tabVars, grantVars, calls, handles, runs, detaches>>

Unbound == [origin |-> "unknown", suspended |-> FALSE, window |-> FALSE]
NoRef   == [doc |-> 0, generation |-> 0]
Stale   == [doc |-> 0, generation |-> 1]
Unused  == [phase |-> "none", grant |-> "nobody", tool |-> "none", kind |-> "none",
            pc |-> 0, acts |-> 0, ref |-> NoRef, obj |-> 0, failed |-> FALSE,
            expired |-> FALSE, noisy |-> FALSE, at |-> 0]

Init ==
    /\ page = [doc |-> 1, origin |-> Home]
    /\ debugging = FALSE /\ wire = <<>>
    /\ attached = FALSE /\ generation = 1 /\ refs = {}
    /\ blind = {}
    /\ \E g \in Grants :
         /\ bound = {g}
         /\ issued = [h \in Grants |-> IF h = g THEN Home ELSE "unknown"]
         /\ views = [h \in Grants |-> IF h = g THEN [Unbound EXCEPT !.origin = Home]
                                              ELSE Unbound]
    /\ credit = [g \in Grants |-> 0]
    /\ calls = [c \in Calls |-> Unused]
    /\ handles = [c \in Calls |-> 0]
    /\ runs = [c \in Calls |-> 0]
    /\ detaches = 0

Reply(c, cmd, ok) ==
    [type |-> "reply", call |-> c, cmd |-> cmd, ok |-> ok, doc |-> page.doc]
Navigated(o) == [type |-> "navigated", origin |-> o]
Detached     == [type |-> "detached"]

Ended(call) == [Unused EXCEPT !.phase = "ended", !.grant = call.grant]

Running(c) == calls[c].phase \notin {"none", "ended"}

(* The worker has nothing left to run before the next message.             *)
Quiet == \A c \in Calls : calls[c].phase # "ready"

(* Documents whose navigation the worker has not been told of.             *)
Unreported == Cardinality({i \in DOMAIN wire : wire[i].type = "navigated"})

-----------------------------------------------------------------------------
(* The commands each tool sends, in order: "resolve" an element to a       *)
(* runtime object, "read" or "change" it through that object, "input"      *)
(* into whatever page is there, "release" the object, "ask" the page.  A    *)
(* "peek" is a read that may fail: the state of a toggle after its click.   *)
(* Placing the pointer is one read, whether or not it had to scroll first.  *)

ClickScript  == <<"resolve", "read", "read", "input", "input">>
ToggleScript == <<"resolve", "read", "read", "input", "input", "peek">>
HoverScript  == <<"resolve", "read", "input">>
FocusScript  == <<"resolve", "change">>
TypeScript   == <<"resolve", "read", "change", "input", "read">>
RetypeScript ==
    <<"resolve", "read", "change", "change", "input", "input", "input", "read">>
FillScript   == <<"resolve", "change">>
SelectScript == <<"resolve", "change">>
PressScript  == <<"input", "input">>
ScrollScript == <<"resolve", "read", "release", "input">>
WheelScript  == <<"input">>
BackScript   == <<"ask", "input">>
OpenScript   == <<"input">>
CheckScript  == <<"resolve", "read">>
LookScript   == <<"ask">>
ObserveScript == <<"ask", "tree">>
WaitScript   == <<"ask">>

Script(kind) ==
    CASE kind = "click"  -> ClickScript  [] kind = "toggle"  -> ToggleScript
      [] kind = "hover"  -> HoverScript  [] kind = "focus"   -> FocusScript
      [] kind = "type"   -> TypeScript   [] kind = "retype"  -> RetypeScript
      [] kind = "fill"   -> FillScript   [] kind = "select"  -> SelectScript
      [] kind = "press"  -> PressScript  [] kind = "scroll"  -> ScrollScript
      [] kind = "wheel"  -> WheelScript  [] kind = "back"    -> BackScript
      [] kind \in {"open", "reload"} -> OpenScript
      [] kind = "check"  -> CheckScript  [] kind = "look"    -> LookScript
      [] kind = "wait"   -> WaitScript   [] kind = "observe" -> ObserveScript

ActKinds == {"click", "toggle", "hover", "focus", "type", "retype", "fill", "select",
             "press", "scroll", "wheel"}
NavKinds == {"open", "reload", "back"}
Effects  == {"input", "change"}

(* Kinds of postcondition: of an element, of the page's URL.               *)
Checks == {"check", "look"}

(* Commands whose failure the tool swallows.                               *)
Forgiven == {"release", "peek"}

(* The command before which the tool calls expectNavigation.               *)
Arms(kind, pc) == \/ kind \in {"click", "toggle"} /\ pc = 4
                  \/ kind \in {"open", "reload"} /\ pc = 1
                  \/ kind = "back" /\ pc = 2

(* Kinds of action the tool may run next.                                  *)
Offered(tool) ==
    CASE tool = "act"      -> Kinds \cap ActKinds
      [] tool = "navigate" -> Kinds \cap NavKinds
      [] tool = "observe"  -> {"observe"}
      [] tool \in {"wait", "settle"} -> {}

-----------------------------------------------------------------------------
(* Grants of the tab *)

(* createGrant: the URL of the tab as it is now, before the offer travels  *)
(* to the host and its acceptance back.                                    *)
Issue(g) ==
    /\ Quiet
    /\ issued[g] = "unknown"
    /\ issued' = [issued EXCEPT ![g] = page.origin]
    /\ UNCHANGED <<page, debugging, wire, tabVars, bound, views, blind, credit, calls,
                   handles, runs, detaches>>

(* Nobody will tell a grant bound now what page is on screen: the reports  *)
(* are all handled and the page is not the one the grant was issued for,   *)
(* or they are from before a detach.                                       *)
Overlooks(g) == IF Unreported = 0 THEN issued[g] # page.origin ELSE ~debugging

(* grant.accepted binds: the baseline is the URL the grant was issued for, *)
(* which is not compared with the page again.                              *)
Bind(g) ==
    /\ Quiet
    /\ issued[g] # "unknown" /\ views[g] = Unbound
    /\ bound' = bound \cup {g}
    /\ views' = [views EXCEPT ![g].origin = issued[g]]
    /\ blind' = IF Overlooks(g) THEN blind \cup {g} ELSE blind
    /\ UNCHANGED <<page, debugging, wire, tabVars, issued, credit, calls, handles, runs,
                   detaches>>

(* revoke of one of several grants.  The view leaves the table; a running  *)
(* tool keeps the object.                                                  *)
Revoke(g) ==
    /\ Quiet
    /\ g \in bound /\ bound # {g}
    /\ bound' = bound \ {g}
    /\ UNCHANGED <<page, debugging, wire, tabVars, issued, views, blind, credit, calls,
                   handles, runs, detaches>>

(* The five seconds of an expected navigation pass.                        *)
WindowLapses(g) ==
    /\ Quiet
    /\ views[g].window
    /\ views' = [views EXCEPT ![g].window = FALSE]
    /\ UNCHANGED <<page, debugging, wire, tabVars, issued, bound, blind, credit, calls,
                   handles, runs, detaches>>

-----------------------------------------------------------------------------
(* Intake of a tool call *)

(* Mutation of Journaled: the entry goes when the execution settles.       *)
JournaledUntilSettled(c) == Running(c) /\ calls[c].grant \in bound

(* The execution journal: an entry lives as long as its grant.             *)
Journaled(c) == calls[c].phase # "none" /\ calls[c].grant \in bound

(* tool.call: a journaled id is answered with the outcome it has or will   *)
(* have; a dead grant is refused; anything else executes.                  *)
Receive(c, g) ==
    /\ Quiet
    /\ calls[c].grant \in {g, "nobody"}
    /\ ~Journaled(c) /\ g \in bound
    /\ \E tool \in Tools[c] :
         calls' = [calls EXCEPT ![c] =
             [Unused EXCEPT !.phase = IF attached THEN "ready" ELSE "session",
                            !.grant = g, !.tool = tool, !.noisy = tool = "settle"]]
    /\ runs' = [runs EXCEPT ![c] = @ + 1]
    /\ UNCHANGED <<page, debugging, wire, tabVars, grantVars, handles, detaches>>

(* session(): the attach the waiting calls share ends, well or not.        *)
SessionOpens ==
    /\ Quiet
    /\ ~attached /\ \E c \in Calls : calls[c].phase = "session"
    /\ \E ok \in BOOLEAN :
         /\ attached' = ok /\ debugging' = ok
         /\ calls' = [c \in Calls |->
              IF calls[c].phase # "session" THEN calls[c]
              ELSE IF ok /\ calls[c].grant \in bound THEN [calls[c] EXCEPT !.phase = "ready"]
              ELSE Ended(calls[c])]
    /\ UNCHANGED <<page, wire, generation, refs, grantVars, handles, runs, detaches>>

-----------------------------------------------------------------------------
(* Sending a command *)

(* What the page may answer.  An object and a backend node belong to one   *)
(* document; input reaches whatever document is there.                     *)
Answers(call, cmd) ==
    IF ~debugging THEN {FALSE}
    ELSE CASE cmd \in {"input", "release"} -> {TRUE}
           [] cmd \in {"ask", "tree"} -> BOOLEAN
           [] cmd = "resolve" ->
                IF call.ref # NoRef /\ call.ref.doc # page.doc THEN {FALSE} ELSE BOOLEAN
           [] cmd \in {"read", "change", "peek"} ->
                IF call.obj # page.doc THEN {FALSE} ELSE BOOLEAN

(* send, for the call in its new state, on what is left of the wire.       *)
Sends(c, call, cmd, left) ==
    /\ calls' = [calls EXCEPT ![c] = call]
    /\ \E ok \in Answers(call, cmd) :
         /\ wire' = Append(left, Reply(c, cmd, ok))
         /\ handles' = [handles EXCEPT ![c] =
              CASE ok /\ cmd = "resolve" -> @ + 1
                [] cmd = "release" /\ call.obj = page.doc /\ debugging -> 0
                [] OTHER -> @]

(* expectNavigation(5_000), just before the command that may navigate.     *)
Armed(call) ==
    IF Arms(call.kind, call.pc)
    THEN /\ views' = [views EXCEPT ![call.grant].window = TRUE]
         /\ credit' = [credit EXCEPT ![call.grant] = @ + 1]
    ELSE UNCHANGED <<views, credit>>

Step(c, call, left) ==
    /\ Sends(c, [call EXCEPT !.phase = "act"], Script(call.kind)[call.pc], left)
    /\ Armed(call)

Rests(c, call, left) ==
    /\ calls' = [calls EXCEPT ![c] = call]
    /\ wire' = left
    /\ UNCHANGED <<handles, views, credit>>

Rested(call) == [call EXCEPT !.phase = "ready", !.pc = 0, !.ref = NoRef, !.obj = 0, !.at = 0]

(* Mutation of Closes: a failed script keeps its object.                   *)
ClosesAfterSuccess(c, call, left) ==
    IF call.obj # 0 /\ ~call.failed
    THEN /\ Sends(c, [call EXCEPT !.phase = "freeing"], "release", left)
         /\ UNCHANGED <<views, credit>>
    ELSE Rests(c, Rested(call), left)

(* After a script, however it ended, its object goes back to the browser.  *)
Closes(c, call, left) ==
    IF call.obj # 0
    THEN /\ Sends(c, [call EXCEPT !.phase = "freeing"], "release", left)
         /\ UNCHANGED <<views, credit>>
    ELSE Rests(c, Rested(call), left)

-----------------------------------------------------------------------------
(* Running a tool *)

Targeted(kind) == Head(Script(kind)) = "resolve"

(* NodeRegistry.resolve: only a reference of the current generation.       *)
Resolves(ref) == ref \in refs /\ ref.generation = generation

(* A script starts, on a reference of the registry, one it no longer holds *)
(* (Stale) or a selector (NoRef).                                          *)
Starts(c, call) ==
    \E ref \in IF Targeted(call.kind) THEN refs \cup {Stale, NoRef} ELSE {NoRef} :
        IF ref = NoRef \/ Resolves(ref)
        THEN Step(c, [call EXCEPT !.pc = 1, !.ref = ref, !.failed = FALSE], wire)
        ELSE Rests(c, [Rested(call) EXCEPT !.failed = TRUE], wire)

(* Mutation of Writable: a tool that forgets the check.                    *)
WritableAssumed(c) == TRUE

(* assertWritable, of the grant's view.                                    *)
Writable(c) == ~views[calls[c].grant].suspended

(* The tool's next action: the only one of navigate and observe, up to     *)
(* MaxActions of a batch, none after one that failed.                      *)
StartAction(c) ==
    /\ calls[c].phase = "ready" /\ ~calls[c].failed
    /\ \/ calls[c].kind = "none"
       \/ calls[c].kind \in ActKinds /\ calls[c].acts < MaxActions
    /\ \E k \in Offered(calls[c].tool) :
         LET call == [calls[c] EXCEPT !.kind = k, !.acts = @ + 1,
                                      !.at = page.doc - Unreported]
         IN  IF Writable(c) \/ k = "observe" THEN Starts(c, call)
             ELSE Rests(c, [Rested(call) EXCEPT !.failed = TRUE], wire)
    /\ UNCHANGED <<page, debugging, tabVars, issued, bound, blind, runs, detaches>>

(* The call is over: the outcome reaches the journal and the host.         *)
Ends(c) ==
    /\ calls[c].phase = "ready"
    /\ \/ calls[c].kind \in NavKinds \cup ActKinds \cup {"observe"}
       \/ calls[c].kind \in Checks /\ (~calls[c].failed \/ calls[c].expired)
       \/ calls[c].kind = "wait"
    /\ calls' = [calls EXCEPT ![c] = Ended(calls[c])]
    /\ UNCHANGED <<page, debugging, wire, tabVars, grantVars, handles, runs, detaches>>

(* The condition does not hold yet: a poll of a postcondition goes on      *)
(* whatever the attempt threw, unless the budget is spent.                 *)
Pauses(c) ==
    /\ calls[c].phase = "ready"
    /\ \/ calls[c].kind \in Checks /\ ~calls[c].expired
       \/ calls[c].kind = "wait" /\ ~calls[c].failed
    /\ calls' = [calls EXCEPT ![c].phase = "paused"]
    /\ UNCHANGED <<page, debugging, wire, tabVars, grantVars, handles, runs, detaches>>

(* The first or the next attempt of a condition: of the postcondition of   *)
(* actions that succeeded, of a wait whose budget is not spent.            *)
Polls(c) ==
    LET call == calls[c] IN
    /\ \/ call.phase = "ready" /\ call.kind \in ActKinds /\ ~call.failed
       \/ call.phase = "ready" /\ call.tool = "wait" /\ call.kind = "none"
       \/ call.phase = "paused" /\ call.tool # "settle" /\ Quiet
    /\ IF call.tool = "wait" /\ call.expired
       THEN Rests(c, Ended(call), wire)
       ELSE \E k \in IF call.tool = "wait" THEN {"wait"}
                     ELSE IF call.kind \in Checks THEN {call.kind}
                     ELSE Kinds \cap Checks :
                Starts(c, [call EXCEPT !.kind = k])
    /\ UNCHANGED <<page, debugging, tabVars, issued, bound, blind, runs, detaches>>

(* wait for a stable page: once quiet for long enough it is over; a change *)
(* restarts the quiet period.  The loop never looks at the budget.         *)
Settles(c) ==
    /\ calls[c].tool = "settle"
    /\ \/ calls[c].phase = "ready"
       \/ calls[c].phase = "paused" /\ Quiet
    /\ calls' = [calls EXCEPT ![c] = IF @.noisy THEN [@ EXCEPT !.phase = "paused", !.noisy = FALSE]
                                     ELSE Ended(@)]
    /\ UNCHANGED <<page, debugging, wire, tabVars, grantVars, handles, runs, detaches>>

(* The budget of a wait or of a postcondition is spent.                    *)
Expires(c) ==
    /\ Running(c) /\ ~calls[c].expired
    /\ calls[c].tool = "settle" \/ calls[c].kind \in Checks \cup {"wait"}
    /\ calls' = [calls EXCEPT ![c].expired = TRUE]
    /\ UNCHANGED <<page, debugging, wire, tabVars, grantVars, handles, runs, detaches>>

-----------------------------------------------------------------------------
(* Messages of Chrome *)

(* A reply.  What fails ends the script unless the tool swallows it.  An   *)
(* accessibility tree is registered under the generation of the moment.    *)
HandleReply ==
    /\ Quiet
    /\ wire # <<>> /\ Head(wire).type = "reply"
    /\ LET m == Head(wire)
           c == m.call
           call == [calls[c] EXCEPT !.obj = CASE m.cmd = "resolve" /\ m.ok -> m.doc
                                              [] m.cmd = "release" -> 0
                                              [] OTHER -> @]
           registered == IF m.cmd = "tree" /\ m.ok
                         THEN {[doc |-> m.doc, generation |-> generation]} ELSE {}
       IN  /\ CASE call.phase = "freeing" ->
                     Rests(c, Rested(call), Tail(wire))
                [] call.phase = "act" /\ ~m.ok /\ m.cmd \notin Forgiven ->
                     Closes(c, [call EXCEPT !.failed = TRUE], Tail(wire))
                [] call.phase = "act" /\ (m.ok \/ m.cmd \in Forgiven)
                                      /\ call.pc < Len(Script(call.kind)) ->
                     Step(c, [call EXCEPT !.pc = @ + 1], Tail(wire))
                [] OTHER -> Closes(c, call, Tail(wire))
           /\ refs' = refs \cup registered
    /\ UNCHANGED <<page, debugging, attached, generation, issued, bound, blind, runs,
                   detaches>>

(* The grant's expected-navigation window is open.                         *)
Covered(g) == views[g].window

(* Mutation of Judged: the window stays open until it lapses.              *)
JudgedWindowStays(g, o) ==
    [origin |-> o, window |-> views[g].window,
     suspended |-> views[g].suspended \/ (~Covered(g) /\ o # views[g].origin)]

(* onMainFrameNavigated: an open window covers one navigation; any other   *)
(* one to a foreign origin suspends the grant's writes.                    *)
Judged(g, o) ==
    [origin |-> o, window |-> FALSE,
     suspended |-> views[g].suspended \/ (~Covered(g) /\ o # views[g].origin)]

(* The grant follows the page to a foreign origin without objecting.       *)
Follows(g, o) == g \in bound /\ o # views[g].origin /\ ~Judged(g, o).suspended

(* Page.frameNavigated of the main frame: a new generation without         *)
(* references, and every bound grant judges the navigation for itself.     *)
HandleNavigated ==
    /\ Quiet
    /\ wire # <<>> /\ Head(wire).type = "navigated"
    /\ LET o == Head(wire).origin IN
       /\ views' = [g \in Grants |-> IF g \in bound THEN Judged(g, o) ELSE views[g]]
       /\ credit' = [g \in Grants |-> credit[g] - IF Follows(g, o) THEN 1 ELSE 0]
    /\ generation' = generation + 1
    /\ refs' = {}
    /\ calls' = [c \in Calls |-> [calls[c] EXCEPT !.noisy = calls[c].tool = "settle"]]
    /\ wire' = Tail(wire)
    /\ UNCHANGED <<page, debugging, attached, issued, bound, blind, handles, runs, detaches>>

(* A pending command is rejected: its script fails, unless it is one whose *)
(* failure is swallowed at the end of the script.                          *)
Rejected(call) ==
    IF call.phase \notin {"act", "freeing"} THEN call
    ELSE [Rested(call) EXCEPT !.failed =
            @ \/ (call.phase = "act" /\ Script(call.kind)[call.pc] # "peek")]

(* Mutation of HandleDetached: the references stay.                        *)
HandleDetachedKeepsRefs ==
    /\ Quiet
    /\ wire # <<>> /\ Head(wire).type = "detached"
    /\ attached' = FALSE
    /\ calls' = [c \in Calls |-> Rejected(calls[c])]
    /\ wire' = <<>>
    /\ UNCHANGED <<page, debugging, generation, refs, grantVars, handles, runs, detaches>>

(* handleDetach: the references go and every pending command is rejected;  *)
(* the objects went with the session, so releasing them fails at once.     *)
HandleDetached ==
    /\ Quiet
    /\ wire # <<>> /\ Head(wire).type = "detached"
    /\ attached' = FALSE /\ refs' = {}
    /\ calls' = [c \in Calls |-> Rejected(calls[c])]
    /\ wire' = <<>>
    /\ UNCHANGED <<page, debugging, generation, grantVars, handles, runs, detaches>>

-----------------------------------------------------------------------------
(* The browser *)

(* The main frame commits a document.  Objects of the last one are gone.   *)
PageNavigates(o) ==
    /\ Quiet
    /\ page.doc < MaxDocs
    /\ page' = [doc |-> page.doc + 1, origin |-> o]
    /\ handles' = [c \in Calls |-> 0]
    /\ wire' = IF debugging THEN Append(wire, Navigated(o)) ELSE wire
    /\ blind' = IF debugging THEN blind ELSE blind \cup bound
    /\ UNCHANGED <<debugging, tabVars, issued, bound, views, credit, calls, runs, detaches>>

(* The page changes under a call that waits for it to be stable.           *)
PageChanges(c) ==
    /\ Quiet
    /\ calls[c].tool = "settle" /\ Running(c) /\ ~calls[c].noisy
    /\ calls' = [calls EXCEPT ![c].noisy = TRUE]
    /\ UNCHANGED <<page, debugging, wire, tabVars, grantVars, handles, runs, detaches>>

(* DevTools takes the tab.                                                 *)
ChromeDetaches ==
    /\ Quiet
    /\ debugging /\ detaches < MaxDetaches
    /\ debugging' = FALSE
    /\ detaches' = detaches + 1
    /\ handles' = [c \in Calls |-> 0]
    /\ wire' = Append(wire, Detached)
    /\ UNCHANGED <<page, tabVars, grantVars, calls, runs>>

-----------------------------------------------------------------------------
CallStep(c) == StartAction(c) \/ Ends(c) \/ Pauses(c) \/ Polls(c) \/ Settles(c)

Next ==
    \/ \E g \in Grants : Issue(g) \/ Bind(g) \/ Revoke(g) \/ WindowLapses(g)
    \/ \E c \in Calls, g \in Grants : Receive(c, g)
    \/ SessionOpens
    \/ \E c \in Calls : CallStep(c) \/ Expires(c) \/ PageChanges(c)
    \/ HandleReply \/ HandleNavigated \/ HandleDetached
    \/ \E o \in Origins : PageNavigates(o)
    \/ ChromeDetaches

(* Chrome answers, the worker runs and its timers fire.                    *)
Fairness ==
    /\ WF_vars(HandleReply \/ HandleNavigated \/ HandleDetached)
    /\ WF_vars(SessionOpens)
    /\ \A c \in Calls : WF_vars(CallStep(c)) /\ WF_vars(Expires(c))

Spec == Init /\ [][Next]_vars /\ Fairness

-----------------------------------------------------------------------------
(* Properties *)

(* An effect of c reaches the page in this step.                           *)
Lands(c) ==
    /\ calls[c] # calls'[c]
    /\ calls'[c].phase = "act" /\ debugging
    /\ Script(calls'[c].kind)[calls'[c].pc] \in Effects
    /\ calls'[c].obj \in {0, page.doc}

(* The grant's view knows the document on screen and does not object.      *)
Authorized(g) == views[g].origin = page.origin /\ ~views[g].suspended

(* A write only lands on a page its grant's view has judged writable.  The *)
(* exceptions: a navigation overtook the action after its check; the grant *)
(* was revoked while its call ran; no report of the page reached the grant *)
(* (blind).  That is so when no session was attached as the page moved     *)
(* (the lazy attach of session-manager.ts:206), when it moved between the  *)
(* reading of its URL and the host's acceptance (router.ts:247, 347), or   *)
(* when the grant was bound between a detach and the reports before it.    *)
(* No batch, postcondition or window adds another.                         *)
StrayWritesAreRaces ==
    [][\A c \in Calls : LET g == calls'[c].grant IN
         Lands(c) => \/ Authorized(g)
                     \/ calls'[c].at < page.doc
                     \/ g \in blind
                     \/ g \notin bound]_vars

(* A grant follows its page to at most as many foreign origins as its      *)
(* tools armed windows: a window covers one navigation and no later one    *)
(* (session-manager.ts:423-436).                                           *)
OneOriginPerWindow == \A g \in Grants : credit[g] >= 0

(* A reference that still resolves is of the document on screen, unless    *)
(* the event that drops it is on its way: navigations and detaches leave   *)
(* no reference to another document behind (nodes.ts:1-5).                 *)
RefsOfThisDocument ==
    \A ref \in refs :
        Resolves(ref) => ref.doc = page.doc \/ ~debugging \/ Unreported > 0

(* A call holds one runtime object at most and none once it is over:       *)
(* withResolvedObject releases what it resolved on every path              *)
(* (resolve.ts:77-83).                                                     *)
HandlesReturned ==
    \A c \in Calls : /\ handles[c] <= 1
                     /\ calls[c].phase \in {"ended", "paused"} => handles[c] = 0

(* A request id is executed once, however often its tool.call arrives,     *)
(* before, while or after it runs, and after its grant is gone             *)
(* (router.ts:371-378).                                                    *)
ExecutedOnce == \A c \in Calls : runs[c] <= 1

(* Every tool call ends, with its postcondition met or its budget spent,   *)
(* as long as Chrome answers - but for the wait for a stable page.         *)
CallsEnd == \A c \in Calls :
    (Running(c) /\ calls[c].tool # "settle") ~> (calls[c].phase = "ended")

(* "Bounded condition polling" (wait.ts:2): a wait whose budget is spent   *)
(* ends.                                                                   *)
WaitIsBounded == \A c \in Calls :
    (calls[c].phase = "paused" /\ calls[c].expired) ~> (calls[c].phase = "ended")

(* "Check session.writeSuspended immediately before dispatch so a          *)
(* cross-origin race cannot write after validation"                        *)
(* (docs/superpowers/plans/2026-08-10-dsh-browser-bridge.md:887).          *)
NoWriteWhileSuspended ==
    [][\A c \in Calls : Lands(c) => ~views[calls'[c].grant].suspended]_vars
=============================================================================
