# dsh-browser-bridge: TLA+ models and proofs

The bridge lets an agent of the DSH host use pages of the user's browser. A user
attaches a page to a prompt; the page becomes a *grant*, named in the prompt by a
*marker*; the host consumes the grant for one agent turn; browser tools of that
turn reach the page through a *provider* (the browser extension, or a page that
runs the Vite runtime); at the end of the turn the authority is gone. The project
models the parts in which that can go wrong through order, loss, failure or
death, checks them with TLC and proves the central facts with TLAPS.

Module names below are files of this directory; source paths are relative to the
repository. `PROJECT.json` maps each definition to the lines it translates.

## 1. Inventory

### Host (`packages/dsh-plugin/src`)

| Component | State | Operations | Talks to |
|---|---|---|---|
| Grant store `bridge/grant-store.ts` | records by handle and by id: session, consuming turn, target, deadline | offer, previewBatch, consumeBatch, resolve, revoke by handle / grant / connection / turn / target, rebind | called by the coordinator |
| Coordinator `targets/coordinator.ts` | the store, request id -> grant | offer, preview, consume, request, revoke*, rebindTarget | tells a provider of every revocation |
| Turn lifecycle `pre-step.ts` | `active`: agent -> turn, pages, authorized grants, tool disposers, abort listener | inbox claim, pre-step handler (around an `await next()`), abort, turn/end, dispose | coordinator, tool registry |
| Tool registration `tools/register.ts` | a tool surface per agent | register, execute | coordinator |
| Bridge server `bridge/server.ts` | live and last connection, revocation outbox, pending calls with retry timers | attach and handshake, receive, request, revoke, close, dispose | extension sockets, coordinator |
| Vite broker `vite/broker.ts` | live targets, tombstones, pending calls | register, update, request, close, sweep, revoke, dispose | page sockets, coordinator |
| Pairing store, provider registry, plugin wiring, web client | nonces; two providers; listeners | issue and consume; lookup | all of the above |

### Extension (`extension`)

| Component | State | Operations | Talks to |
|---|---|---|---|
| CDP session manager `src/cdp/session-manager.ts` | grant -> tab, grant views, shared tab states, attaches in flight | bind, session, revoke, revokeAll, cleanupOwned, Chrome events | chrome.debugger |
| Background `entrypoints/background.ts` | the ownership ledger in session storage | startup reconciliation, ledger mirror, expiry and tab listeners | vault, session manager, client |
| Grant vault `src/grants/vault.ts` | grants with idle deadline, hard cap, calls in flight | create, accept, beginActivity, endActivity, revoke, sweep | router, background |
| Router `src/bridge/router.ts` | pending offers, execution journal | panel requests, bridge frames, tool calls | all of the extension |
| Client `src/bridge/client.ts` | socket, state, queued revocations | connect, send, close, reconnect | bridge server |
| Panel port `src/bridge/resilient-panel-port.ts` | port, bounded queue, reconnect timer | send, reconnect, dispose | router |
| CDP tools `src/cdp/*.ts` | page references, runtime objects held by an action | act (batches), navigate, observe, wait: scripts of DevTools commands | session manager |
| Tab catalog, side panel | the excluded origins; the port of the panel | list tabs; forward messages | background, web client |

### Page runtime and build (`packages/page-runtime`, `packages/vite-plugin`, `packages/protocol`)

Page socket (registration promise, calls in flight, reconnect), activation
(single flight, revoke, dispose), HMR and element references (generations), DOM
tools, panel; the Vite plugin generates code; the protocol package is schemas.

### What is hard

* **await in the middle of a decision**: the pre-step handler decides after
  `await next()` about a turn that may have ended, been aborted or lost its grants.
* **partial failure**: registering tools can throw, and so can the restoration.
* **sockets**: at most one is live, but replaced and closing ones still deliver
  frames and their close events come late; calls and revocations must survive a
  drop, but not change session; a retry must not repeat an effect.
* **shared lazy attach**: several grants of one tab share one debugger attachment,
  whose attach takes several round trips, during which grants come and go.
* **death** of the service worker with debuggers attached.
* **silent endings**: a turn may end with no event.
* **authority kept on two sides**: a grant lives in the extension and as a record
  at the host, over connections that drop with notices on their way.
* **idle deadlines**: a grant lives while it is used, up to a cap, ended by a timer
  that may fire late.
* **messages through a panel** whose port dies with the service worker.
* **a page that moves under its tools**: every action is several round trips, and
  the page may navigate, or DevTools take the tab, between any two of them.

The properties that make each component correct are the invariants and action
properties of its module, listed in section 3; `PROJECT.json` lists every hazard
at its line, those without a property included.

## 2. Modules

| Module | Models |
|---|---|
| `GrantStore` | the grant table of the host as operators on its value (no state of its own) |
| `TurnLifecycle` | `pre-step.ts` over coordinator and store |
| `BridgeServer` | `bridge/server.ts` over coordinator and store |
| `ViteBroker` | `vite/broker.ts` over coordinator and store |
| `CdpSessions` | `session-manager.ts` (binding, attach, revoke), Chrome, worker death, startup reconciliation |
| `Lease`, `GrantVault` | what a grant promises, and `grants/vault.ts` that keeps the promise |
| `GrantIds` | the set of grants that the vault and the router share |
| `BridgeClient` | `bridge/client.ts` over `ws-socket.ts`, as operators on its value |
| `BridgeRouter` | `bridge/router.ts` and the revocation wiring of the background, composed with `BridgeClient`, a bridge that drops and a host that restarts |
| `PanelChannel` | web client, side panel, resilient port, and the router as a panel sees it |
| `TabTools` | the CDP tools and the views of the session manager on one tab |
| `PageRuntime` | activation and socket of a page, against the broker as a page sees it |
| `MC...` | symmetry sets for the runs of each |
| `...Proofs` | theorems |

`TurnLifecycle`, `BridgeServer` and `ViteBroker` extend `GrantStore`: in the first a
target is what a provider reports connected, in the second it is a connection id
of the bridge, in the third a logical page (id and origin) with the connection id
it had when the grant was offered or last rebound. `BridgeRouter` extends
`BridgeClient`, and both take the set of grants from `GrantIds`, as `GrantVault` does.
`GrantVault` instantiates `Lease` under a refinement mapping.

The modules meet where the code does. Each takes the other side of its interface
as the assumption the other module establishes: `BridgeRouter` has the host accept,
reject, revoke and call as `BridgeServer` does in full; `PageRuntime` has the broker
send what `ViteBroker` sends; `PanelChannel` answers a panel as `BridgeRouter` does;
`TabTools` opens its session as `CdpSessions` does and leaves activity to `GrantVault`.

### TurnLifecycle

An agent owns one session. `active[a]` is its `ActiveTurn`; turn 0 means no entry.
A handler that runs without `await` is one action on `World(a)` (the agent's
entry, its tool surface, the shared store), written back by `Become`:

| Code | Actions |
|---|---|
| `onInboxClaimed` | `ClaimUnmarked`, `ClaimRefused`, `ClaimKnown`, `ClaimAttached`, `ClaimUnregistered` |
| pre-step handler up to `await next()` | `PreStepBegin` |
| from its continuation | `StepRejected`, `StepUnmarked`, `StepRefused`, `StepExpired`, `StepCommitted` |
| abort listener, `onTurnEnd`, `dispose`, `disposeAll` | `Abort`, `TurnEnd`, `Dispose`, `DisposeAll` |
| a turn that ends without an event | `TurnLost` |
| providers, clock, user | `Offer`, `Expire`, `Disconnect`, `Reconnect`, `ProviderRevoke` |

`ClaimUnregistered` is the path on which registration throws; whether the earlier
surface can be restored is a choice (`restored`), as in `Rollback`. A marker is the
grant it names: handles are random and never reused. `claimed` and `shown` are
history: which turn's inbox claim took a grant, which aliases the model was told.
`StepExpired` is the handler that finds a handle expired in `consumeBatch` although
the preview a moment before found it live. `Abort` only cleans up when the listener
is attached, so an abort before the listener is added is missed, as in the code.

### BridgeServer

Sockets are numbered in the order they complete the handshake and a fresh
connection id is the number of the socket that got it. `Accept`, `Replace` and
`Takeover` are the three paths of `acceptAuthenticated` (no live connection; same
origin; another origin). `StartClosing` is the moment the transport is gone;
`LiveClosed`/`StaleClosed` are the close events. `wire[s]` is every frame handed to
the transport of `s`, in order; `owed` remembers what was queued when a socket was
accepted. A call carries the socket its current request id was sent on (`via`):
a frame naming a request id can only come from that socket, and only until its
close event. `ExtensionRevoke` is `grant.revoke` as the code takes it: from any socket
not yet closed, of any id, held or not; `CoordinatorRevoke` is the other path, which
leaves the pending calls of the grant alone. Two more histories name what gets lost:
`outlived`, the calls pending when the coordinator revoked their grant, and
`swallowed`, the revocations handed to a live socket whose transport had gone.

### ViteBroker

Page sockets are numbered in the order they are attached. `live` stands for both
`live` and `liveByKey`, `tomb` for `tombstones`; a call's `conn` tells the pending
map it is in, which a close moves to the tombstone and a rebind to the new target.

| Code | Actions |
|---|---|
| `attach`, a malformed or unwanted frame, the close events | `Attach`, `StartClosing`, `LiveClosed`, `OtherClosed` |
| `registerTarget` | `Register`, `RegisterRefused` |
| `request`, its frames, its abort and timeout handlers | `Request`, `Accept`, `Result`, `Cancel` |
| `coordinator.revoke` through the provider's `revoke` | `RevokeGrant` |
| the passing of the reconnect window, `sweep`, `dispose` | `Age`, `Sweep`, `Dispose` |

`Register` is the whole handler: it revokes what the same page left on another
origin (live or remembered), then resumes the tombstone of its own key while the
window allows it (rebinding the grants and sending unaccepted reads once more), or
revokes it. `age` tells `within`, the very last instant `edge`, on which a rebind
is still legal and the sweep already expires, and `past`. `ran[s]` is history: the
`tool.call` frames the transport of `s` took.

### CdpSessions

`tabOf` is `grantToTab`. `attach[t]` is the attach in flight with the phase Chrome
has to answer; `waiting[g]` the tab whose shared promise the `session()` call of
`g` awaits. A `TabState` object is told from its successors by `incarnation`:
`attachPhysical` marks the object it started with, which may have been forgotten
meanwhile. `ChromeDetaches` is the end of the debugger, `HandleDetach` the arrival of its
event (`notices`), before which the worker takes the tab for attached.
`WorkerDies` clears what the worker keeps and leaves Chrome and the
ledger; `orphaned` is history: the tabs whose last grant was revoked while their
attach was in flight. `Reconcile` is the startup of the next worker, before which nothing else
runs (`up`). Chrome carries out the commands of one extension in the order they
are given; an attach already on its way may still succeed after the death.

### GrantVault and Lease

Time is a number of timer ticks and only `Tick` moves it. A grant of the vault has
`expiresAt` and `maxExpiresAt`; `create`, `beginActivity`, `endActivity` move the
first, never past the second, and every operation re-arms the one timer
(`Rearmed`). `Sweep` may fire at its due time or any time later. As in the code, a
grant is good up to and including its deadline, so the sweep that fires at the
deadline finds nothing and re-arms.

`Lease` says the same without deadlines: authority is good for calls while in use
and for `IdleTtl` after, never past `MaxTtl`, and nothing but a revocation ends it
sooner. `Promise == INSTANCE Lease WITH lease <- ..., busy <- executing` maps the
vault's records to it; `now`, and the history `issued` and `used`, map to
themselves.

### BridgeRouter (with BridgeClient)

| Code | Actions |
|---|---|
| panel ports and messages | `OpenPanel`, `ClosePanel`, `Connect`, `CreateRequest`, `Cancel` |
| `createGrant` after its await on the tab | `TabRefused`, `TabRead` |
| `waitForAccepted` | `AckTimeout`, `Accepted`, `Rejected` |
| expiry sweep, closed tab | `LocalRevoke` |
| frames of the host | `HelloOk`, `Accepted`, `Rejected`, `HostRevoked`, `ToolCall` |
| the browser's WebSocket | `WsOpens`, `HostCloses`, `WsCloses`, `Drop` |
| the host | `HostHears...`, `HostAccepts`, `HostRejects`, `HostRevokes`, `HostCalls`, `HostForgets`, `HostSeesClose`, `HostRestarts` |

`net` is the client: which socket is current, what is queued, the transport of
every socket (one the client has left may still deliver) and what travels up;
`down[s]` is what travels down. A client socket may be gone before its close event:
what is sent then is swallowed, as the browser does. `Accepted` has the branch in which
`vault.resolve` throws after the vault has accepted (a grant past its deadline that no
sweep has met): accepted, not bound, and its offer waits for the timer. `missed` and `unheard` are
history: the reason for which one side was not told of the end of a grant.

### PanelChannel

The iframe (`Create`, `Pair`, `Abort`, `TimesOut`, `Hears`), the panel's port
(`ConnectNow` with its flush, `PortDrops`, `Unmount`, sends inside the iframe's
actions) and the background (`Takes` with the branches of `handlePanelMessage`,
`TabRead`, `Accepted`, `AckTimeout`, `BackDisconnect`). A port breaks alone
(`PortBreaks`) or with the worker, whose memory goes too (`WorkerStops`); until the
panel hears of it a message vanishes or throws, as the environment chooses.
Messages are numbered in the order they are sent.

### TabTools

A tool is the sequence of commands it sends (`Script`); `Step` sends the next one
with the check the code makes before it, `HandleReply` handles the answer. Chrome's
answers and events share one FIFO (`wire`); the worker handles one message and runs
its continuations before the next. The page commits documents (`PageNavigates`),
DevTools takes the tab (`ChromeDetaches`). A grant's baseline is the URL `createGrant`
read (`Issue`); `Bind`, after the host's round trip, does not read it again.

| Code | Definitions |
|---|---|
| `createGrant`, `grant.accepted` | `Issue`, `Bind` |
| `handleToolCall`, its journal | `Receive`, `Journaled`, `Ends` |
| `performAct`, `performBatch`, `performAction` | `StartAction`, `Rests`, `Script`, `Expires` |
| `resolveObjectId`, `withResolvedObject` | `Starts`, `Answers`, `Closes`, `handles` |
| `pollPostcondition`, `waitForCondition` | `Pauses`, `Polls`, `Settles` |
| `expectNavigation`, `onMainFrameNavigated` | `Armed`, `WindowLapses`, `Judged`, `HandleNavigated` |
| `handleDetach` | `HandleDetached` |

`blind` and `credit` are history: grants that no report has told or will tell of the
page on screen (it moved while no session was attached, or between `Issue` and `Bind`,
or the grant was bound between a detach and the reports before it), and the windows a
grant armed less the foreign origins it followed.

### PageRuntime

Activation pipelines (`Activate`, `ProbeFails`, `ProbeOk`) share one connection
attempt (`Connect`); the socket (`LinkOpens`, `HandleClose`, `Reopen`,
`Registered`, `TerminalError`, `RegisterTimeout`, `ToolCall`, `ToolCancel`,
`TargetRevoke`) reconnects; the broker may end a page with a terminal error in answer to
its registration or at any time later (`BrokerRejects`); executions end when they like (`ToolEnds`), aborted or
not; `Dispose` may come at any point. `answered` is history: the connection a
result was sent on.

## 3. Runs

All runs set `CHECK_DEADLOCK FALSE`: these systems may stop (every agent disposed,
the bridge or broker disposed, no grant left to bind, every call over).

| Run | Instance | Shows |
|---|---|---|
| `TurnFaults` | one agent, three pages, two turns, failing registrations, silent endings | `ConsumedHasOwner`, `ClaimedNeverReplayable`, `SurfaceMatchesPages`; `DecisionIsWhole`: a pre-step decides about its own turn, authorizes all of it or consumes nothing |
| `TurnEnds` | three pages, one turn; registration succeeds and turn/end is written | `AliasStable`; every claimed grant is finally revoked (`ClaimedIsEventuallyRevoked`) |
| `BridgeSessions` | two extensions, two grants, one call over three sockets that close in two steps | `RevokesBeforeWork`, `RevocationReachesSession`; `SessionsStayApart`: a connection id is of one origin, an outbox never belongs to the live session, a takeover is terminal |
| `BridgeCalls` | two calls over three lingering sockets, revocations by either side | `WritesNeverReplayed`, `PendingWaitsOnLive`, `RevokedNeverPending`, `WaitingReadsEnd` |
| `ViteBroker` | one page with two grants over three sockets and two origins | `GrantFollowsTarget`, `NoDeadWork`, `WritesRunOnce`, `AcceptedNeverReplayed`; `PageKeepsItsHome`: one home per page id, never taken over |
| `CdpShared` | three grants over two tabs, two deaths of the worker, late detach events | `OrphansAreRaces`, `BusyMeansOther`, `ViewIsLive`, `SharedSessionSurvives` |
| `VaultLeases` | two grants, two calls each, idle for one tick, capped at three | `KeepsLease` (the vault implements `Lease`), `SweepArmed`, `EveryGrantEnds` |
| `RouterGrants` | one grant, a panel, three sockets, one restart of the host | `RecordsAccounted` and `BindingsAccounted`: what one side still believes of a grant the other has ended is about to be corrected or one of the named losses; `AuthorityScoped`: authority is of the present session and needs a panel |
| `PageSockets` | two activations, two calls, three connections | `AnsweredWhereAsked`, `OneConnection`, `DisposedIsQuiet`, `ConnectingEnds` |
| `PanelRequests` | two requests, a buffer of two, three ports, a worker that stops | `NeverReordered`, `BufferedOnlyWithoutPort`, `GrantsWanted` |
| `TabCalls` | two grants, two calls of five tools, three documents of two origins, one detach | `StrayWritesAreRaces`, `OneOriginPerWindow`, `RefsOfThisDocument`, `HandlesReturned`, `ExecutedOnce` |
| `PanelAbort` | one request aborted while its tab is read | a counterexample to `AbortEndsGrant` (section 5) |

`DecisionIsWhole`, `SessionsStayApart`, `PageKeepsItsHome` and `AuthorityScoped` are
conjunctions of properties that also stand alone in their modules, as the proofs
use them.

### Switches

Two constants of `TurnLifecycle` restrict the environment, so that a property with a
known counterexample can still be checked around it. Flipping the first in the run
named gives that counterexample. No other module has such a switch.

* `RegistrationMayFail`: FALSE in `TurnEnds`. With TRUE, `AliasStable` fails: a
  rollback that cannot register the smaller surface closes the turn, and the next
  page of the same turn is `page_1` again.
* `TurnEndMayBeLost`: FALSE where liveness needs turn/end.

The model also shows that an abort during `await next()` is missed (the listener
is added to a signal that has aborted): the batch is consumed and stays until
turn/end. `ConsumedHasOwner` and `ClaimedIsEventuallyRevoked` hold with it.

### Bounds

* `MaxTurn` 1 or 2: two turns show every interaction with an earlier turn, since
  an entry of `active` is compared with the current turn only.
* Three grants per agent: one authorized, one provisional, one refused; aliases
  collide with two.
* `MaxSockets` 2 or 3. At the bridge: a session, its resumption, and a foreign one
  in between. At the broker: a first connection, a rebind, and a rebind of the
  rebind or a move to the other origin and back. In the extension: a socket left, its
  successor, and one after a restart of the host.
* One or two calls: calls interact through the live socket and their grant only.
* One page id over two origins at the broker: targets of different ids only meet
  in the limits, which this instance does not reach beyond a second origin.
* Three grants over two tabs: two that share a tab and one that does not.
* `MaxDeaths` 2: a death while another one's debuggers are still attached.
* `GrantVault`: grants are issued and used up to tick `LastUse`, which leaves a
  renewal after an idle deadline was due and one that meets the cap; `Tick` stops when nothing
  can be due any more.
* `RouterGrants` has one grant: grants meet in the queue of revocations, which is a
  set, and in `ClosePanel` and `HelloOk`, which end them all alike. Two panels over
  two sockets and one restart (489,000 states) are also clean. `HostCalls` keeps one
  call of a grant on its way at a time.
* `PanelRequests`: two requests and a pairing overflow a buffer of two; three ports
  are a first, one that dies before it is used, and one that works.
* `TabCalls`: three documents, so that a window used once may meet a second foreign
  navigation. One action per batch, one kind of it with an element, one navigation and
  one postcondition; the first call acts or waits, the second navigates or observes. One
  call of any tool with a toggled click, a scroll and two actions per batch (599,000
  states) is clean as well. `CallsEnd` holds with one grant and one call of any tool but
  `settle`.
* `MaxLinks` 3: a connection, one that is lost during registration, its successor.
* Grant ids, request ids and panel ports are never reused, so each lives once.
* Symmetry is used of grants, tabs, calls and requests in runs without liveness only.

### Fairness

* `TurnEnds`: weak fairness of `TurnEnd`. The session log writes turn/end for every
  outcome of a turn; the run sets `TurnEndMayBeLost` to FALSE accordingly. Nothing
  is assumed of the pre-step continuation: it may hang for ever.
* `BridgeCalls`: weak fairness of `RetryExpires`. It is a timer that only
  `finish` and a reconnect clear. Nothing is assumed of the extension.
* `VaultLeases`: weak fairness of `Tick` and `Sweep`: time passes, and an armed timer
  fires, however late. `SF` is not needed: a due timer stays due until it fires or
  is re-armed, and renewals end with the cap.
* `PageSockets`: weak fairness of the probe's end and of the registration timer.
  Nothing is assumed of the network or the broker.
* The other runs check safety and assume nothing. (`TabTools` states a fairness under
  which `CallsEnd` was checked in the smaller instance above: Chrome answers, the
  worker runs, its timers fire.)

## 4. Proofs

The `...Proofs` modules prove, for every value of the constants their modules'
assumptions allow, the theorems listed in `PROJECT.json`. `ExtensionGrantsProofs`
holds those of `GrantVault` and of `BridgeRouter`, the two halves of what the
extension knows of a grant; the other modules prove about the one they are named
for. Each theorem rests on an inductive invariant:

* **TurnLifecycle**: `IInv` is `TypeOK`, `NoStaleTurnInStep` and four more facts.
  `AgentOK` relates one agent's entry to its tool surface and the store: the
  surface is the page table's, an empty entry is `NoTurn`, what is authorized was
  offered and, if still held, consumed by this session for the entry's turn, and
  every held grant of the session that was consumed or claimed has its place in the
  entry. `SessionsKnown`: a held grant's session is an agent. `Unclaimed`: a grant
  not offered yet was not claimed. `RunningTurn`: a running agent's turn is not 0,
  which stands for no turn. `ConsumedHasOwner` and `ClaimedNeverReplayable` are not
  inductive alone: a cleanup drops the pages of an entry and what its turn
  consumed, so one has to know that every grant in question is among those. The
  proof has one lemma per handler; the helpers of the model (`Cleanup`,
  `DropStale`, `Rollback`, `Appended`) have lemmas of their own, and an order on
  stores (`Shrinks`: grants only go) carries what all revoking paths preserve.
  `RejectConsumesNothing` and `EnterIsFullyAuthorized` follow from the same
  invariant, since only `PreStepReturn` ends a step. `AliasStable` needs a second one
  on top (`Aliased`): an alias shown in the entry's turn belongs to a page that is
  still authorized, and a live turn without an entry has shown none. A rollback drops
  provisional pages only, whose aliases nobody has seen; but if it cannot register
  what is left it drops the entry with shown pages in it, hence the hypothesis
  `~RegistrationMayFail`, which is the constant of `TurnEnds`.
* **CdpSessions**: a first `IInv` adds to `TypeOK` and `AttachedMeansOurs` that
  nothing is marked attached during an attach in flight or before startup is over
  (`Quiet`), and that a `session()` call awaits the attach of the tab its grant is
  or was bound to (`BoundOnce`). `ViewIsLive` is proved per action from it. A
  second invariant on top of it (`Owned`) says that a shared state exists exactly
  while a grant has the tab, which is then in the ledger, and that, outside
  `orphaned`, a tab we debug is being attached for its present state, is marked
  attached, or is in the ledger of a worker that has died, and is not ours while
  the event of its end is on its way; from it follow
  `OrphansAreRaces` and `BusyMeansOther`. `SharedSessionSurvives` is an action
  property: only `Revoke` removes a single grant, and it detaches only when no
  other grant of the tab is left.
* **ViteBroker**: `IInv` has three layers, each proved inductive over the ones
  before it. `Homes` is about sockets and targets only: `OneHomePerTarget`, each
  live target has a socket of its own that still hears its page, no two targets
  share a connection id (`Distinct`), because a socket that may still register has
  not lent its name to one (`Fresh`). `Authority` is about grants and calls:
  `GrantFollowsTarget` and `NoDeadWork` need each other, since a revocation finds
  the calls of a grant through the place of its target (`RevokedCallsComplete`).
  `Sent` is about frames: what waits in a tombstone was not accepted (`Parked`),
  and a call's two request ids are each sent on one socket (`SentOnce`).
  `WritesRunOnce` then is a count of at most two frames, and
  `AcceptedNeverReplayed` and `NoTakeover` are proved per action.
* **GrantVault** (extended beside `BridgeRouter`, over the same `Grants`; no theorem
  is about both): `TypeOK` and `SweepArmed` are inductive (every operation
  re-arms for the table it leaves: `RearmedArms`). The refinement needs what the
  records say about the history (`VaultInv`): a held grant's cap is its issue plus `MaxTtl`, its
  deadline is at the cap or covers its last use plus `IdleTtl`, and while a call is
  in flight it is the cap. `MappedStep` then maps each operation to the step of
  `Lease` it implements: a sweep that finds something to a `Lapse` of just that,
  `beginActivity` to a `Use` within both limits even when the sweep is late.

* **BridgeServer**: `Shape` (types, and `Numbered`: sockets and connection ids come
  in order, what has not come yet is empty) carries everything else. The steps fall
  into three kinds, each with one lemma per action: a socket joins (`Joins`: it has
  a session's id and outbox, and some calls go on), steps that start no work
  (`OnlyEnds`: calls go on or end, wires gain revocations only), and `Request`.
  `PendingWaitsOnLive` is inductive with `Shape`; `RevokedNeverPending` is inductive
  with both, since a step that takes a grant out of the store ends its calls, or, if
  it is the coordinator's, enters them in `outlived`. `WritesNeverReplayed` counts
  frames: `Sendings`
  says that a call not retried, or waiting for its retry, was sent once, and one
  that has used it twice, being a read. `SessionsStayApart` is proved per action
  from one origin per id and the empty outbox of the live session.
  `RevokesBeforeWork` is inductive since wires only grow (`Kept`). For
  `RevocationReachesSession` every step is either a joining or hands over what it
  revokes (`Delivered`): to an open socket, to the outbox, or to a socket whose
  transport is gone, which is what `swallowed` remembers; `Answered` is what that
  leaves of each grant. None of these theorems assumes anything of who revokes or of
  when a transport is lost.
* **BridgeRouter**: `RouterInv`, for any grants, panels, sockets and restarts.
  - About the connection: a socket says hello once and first, and nothing is named
    after it before the host has heard that (`HelloFirst`); what is on its way from
    the host names its present id, and an acceptance comes behind the `hello.ok` that
    makes the client know it (`Voice`); revocations are queued only while the client
    is owned and not connected (`Link`); a current socket was opened (`Dialed`).
  - About authority: `Scope` is `AuthorityScoped` and what makes it inductive: an
    offer waits, or a grant is accepted, in the session the client is in; a grant on
    offer is in the vault and not bound, though it may be accepted already, when its
    deadline passed as it was to be bound; and without a panel there is no socket a
    `hello.ok` could start a session on.
  - About each grant: it is offered once (`OfferedOnce`, `OneOffer`), so the host
    has its offer before it, its record, or has given it up, never two of these. A
    record, and an offer on its way, has the end of its grant behind it once that has
    ended (`Noticed`): this is `RecordsAccounted` extended to offers, without which
    the host could take one whose notice it has already read. The other way round a
    bound grant, and a live one whose acceptance is on its way, is known to the host,
    or its end is (`Backed`), which gives `BindingsAccounted`.

  The steps are taken apart by what they do to a line of frames rather than by action:
  `Upward` and `Downward` say that outside a few actions a line only loses its head, is
  emptied, or gains revocations and expiries at its end; `LinesMove` that an offer then
  keeps what was behind it. `Books` says for every step how a grant's record, its
  revocation and its acceptance at the host may change, and `AccountStep` that what
  ends here leaves a reason or a notice behind any offer (`Told`).
* **TabTools**: `WindowsPaid` strengthens `OneOriginPerWindow`: what a grant has left
  to spend is not negative and at least one while a window of it is open. Arming
  adds one, following a foreign origin takes one and closes the window. The other
  four properties come from `TabInv`, which relates each call's place in its script
  to what is on the wire: every reply there is awaited (`Awaited`), the object
  it holds is the one its script has resolved and not yet released, a reply still to
  come included (`Held`: `HandlesReturned`); replies fail behind a detach
  (`Severed`); references, reports and views are of the page on screen unless a
  report is on the wire behind which they will be, or, for a view, its grant was
  bound past the report and is in `blind` (`RefsCurrent`, `ReportsCurrent`,
  `ViewsCurrent`: `RefsOfThisDocument`); an action past its check was judged on this
  document, or on one that is gone (`WriteJudged`: `StrayWritesAreRaces`). `Executed`
  ties the count of executions to the journal (`ExecutedOnce`). Assumed of the
  constants: the names used for "nobody" and "unknown" are not a grant and an origin,
  and the tools are those modelled.
* **PageRuntime**: `IInv` adds to the types that a link not yet over is the client's
  own and no reconnect is due besides it (`HeldIsOurs`), that nothing is left without
  a client or in flight while it waits to reconnect (`NothingLeft`), that a call in
  flight came on the client's link (`FlightIsHere`), and that a call reaches the page
  once (`CalledOnce`), without which an answer of its first arrival could be taken
  for one of its second. `OneConnection` and `DisposedIsQuiet` follow from it.
* **PanelChannel**: messages wait in lines, the buffer and one wire per port.
  `OneLine`: at most one of them holds messages, the wire of the port the panel
  has, or had when it was unmounted, or the buffer while it has none. `Sorted`: they
  are in the order they were sent and later than what was taken. A step of any kind
  leaves on a line a part of what one line had, in its order, with the message just
  sent at the end (`Came`); that keeps `Sorted`, and that a request is sent once and
  its grant begins when it arrives (`AskedOnce`). A cancel is lost only where it is
  noticed (`Noticed`), and so whoever does not want his grant any more has said so,
  or the loss has a name (`Wanted`); with `Refused` (a refusal means there is no
  grant) and `PanelOfGrants` that is `GrantsWanted`.

Only model-checked: liveness (`EveryGrantEnds`, `WaitingReadsEnd`, `ConnectingEnds`,
`ClaimedIsEventuallyRevoked`), which is out of the prover's reach. Every invariant
and every other action property of the passing runs is proved.

## 5. Where the code departs from what it says

Each of these is a property stated in a module next to the sentence it quotes, with
a counterexample TLC finds when the property is added to the run named with it. The
first one is kept as a run of its own.

| Property (run) | Sentence | What happens |
|---|---|---|
| `PanelChannel!AbortEndsGrant`, router.ts:209 (`PanelAbort`) | "so the grant, its CDP binding, and the host offer die immediately instead of lingering until the TTL" | the cancel arrives while `createGrant` awaits the tab and finds no offer; the grant is offered afterwards |
| `BridgeServer!NoForeignWork`, server.ts:415 (`BridgeCalls`) | "a foreign session must never observe another session's work" | a read waits for its extension; another one connects first and gets it |
| `BridgeServer!AcceptedNeverReplayed`, server.ts:570 (`BridgeCalls`) | "accepted or mutating calls never replay" | `accepted` is written and never read: an acknowledged read is sent again |
| `BridgeServer!RevokedNeverReplayed`, server.ts:226 (`BridgeCalls`) | "a revoked grant must never complete, retry, or replay" | turn cleanup goes through the coordinator, which does not cancel pending calls; a waiting read is sent again |
| `CdpSessions!NoOrphanAttach`, session-manager.ts:441 (`CdpShared`) | "detaches when it was the final grant of its tab" | the revocation comes during the attach, finds it unmarked, and nobody detaches later |
| `ViteBroker!CancelReachesPage`, broker.ts:260 (`ViteBroker`) | "Host-to-page `tool.cancel` is sent when the ... request signal aborts" | the handlers captured the socket of the first dispatch; after a rebind the cancel goes to the closed one |
| `BridgeRouter!TerminalReachesHost`, router.ts:238 (`RouterGrants`) | "Terminal paths have their own Host cleanup" | closing the last panel drops the queued revocations; the host has the records until they time out |
| `PageRuntime!ConnectedIsNotDead`, runtime.ts:152 (`PageSockets`) | a retry never reuses "a stale socket that would make connect() succeed with no live connection" | after a reconnect the broker refused the page for good, or threw out the registered one; a later activation finds the dead socket and reports connected |
| `PageRuntime!CancelledNotAnswered`, socket.ts:312 (`PageSockets`) | "a cancelled call is never answered" | a tool that does not look at its signal ends after the cancel and its result is sent |
| `TabTools!WaitIsBounded`, wait.ts:2 (`TabCalls` with one grant and one call, of `settle` only) | "Bounded condition polling" | the loop for `stable` looks at neither budget nor abort while the page keeps changing |
| `TabTools!NoWriteWhileSuspended`, act.ts:83 (`TabCalls`) | "a cross-origin race cannot write after validation" | the check is before the first of several commands; the navigation comes between |

`BridgeServer` and `ViteBroker` differ where the third and fourth rows say: the
broker settles accepted calls when a socket is lost and a revocation settles the
calls of its grant, live or remembered (`AcceptedNeverReplayed` and `NoDeadWork`
hold of it).

What the conditions of the properties that hold name is worth reading too:

* `RecordsAccounted`: the host keeps a record nobody cancels when an offer was not
  acknowledged in time or rejected late (router.ts:283), the notice was dropped with
  the last panel, at a change of session, or on a connection about to break, or
  overtook its offer on a later socket.
* `BindingsAccounted`: a `hello.ok` of a socket the client has left is not told
  from one of the current socket (client.ts:178) and flushes the queue there.
* `GrantsWanted`: after a port blip or a stopped worker nothing pairs the bridge
  again by itself; a grant whose request timed out, or whose cancel was lost, lives
  until its deadline.
* `OneOriginPerWindow`: a window covers one navigation. The comment at
  session-manager.ts:427 says "and its redirect chain"; only what the browser
  reports as one committed navigation is covered.
* `StrayWritesAreRaces`: a write lands on a page nobody judged when a navigation
  overtook the action after its check; when the grant was revoked and its batch runs
  on while another grant keeps the session; and when no report of the page reached
  the grant (`blind`): nothing was attached, the grant was bound between a detach and
  the reports before it, or the page moved between the reading of its URL
  (router.ts:247) and the host's acceptance, after which it is bound with that URL
  (router.ts:347). The comment at router.ts:344 gives as the reason for passing it
  "so the first navigation can already be classified cross-origin"; a navigation in
  that window is never classified.
* `RevocationReachesSession`: a revocation handed to the live socket after its
  transport was lost and before its close event is dropped (server.ts:79) and not
  queued, since the socket still counts as live (server.ts:445).
* `RevokedNeverPending`: calls pending when the coordinator revokes at the end of a
  turn (server.ts:226) stay pending; `outlived` holds exactly these.
* `PageRuntime`: a `target.revoke` names no grant, so it ends every call of the
  page; a probe that fails late marks the activation failed although another
  pipeline has connected.

## 6. Abstractions and what is not modelled

* Time outside `GrantVault`: a deadline is a set of expired grants; a timer is an
  action that may fire.
* Frames are records of a kind and what they are about. Handshake, codecs,
  nonces and error texts are left out; a socket enters when its handshake is done.
  The heartbeat is the choice that a connection breaks.
* Chrome's events and answers for a tab reach the worker in the order Chrome sent them.
* Iteration order of an outbox or of pending calls is fixed but arbitrary.
* The grants of other providers do not appear in `BridgeServer` and `ViteBroker`.
* A page frame the broker refuses (malformed, over the rate limit, not a page's to
  send) is the choice to close the socket; heartbeats and `target.update` change
  nothing a property sees.
* `TabTools`: a command takes effect when it is sent; the attach is one step
  (`CdpSessions` has it in detail); the last grant's revocation, which detaches, is
  there too. What a page answers is a choice, geometry and values are left out.
* Tool schemas (`definitions.ts`), protocol schemas and codecs: data, model values
  everywhere.
* Not modelled, because their content is the matter and not an order of steps: the
  DOM tools of the page runtime, `capture.ts`, `inspect.ts`, `sensitive.ts`, console
  and network buffers. Because they are a table without awaits: `refs/registry.ts`,
  `hmr.ts`, the pairing store, the provider registry. Because they are pure code
  generation or user interface: the Vite plugin, buttons, panels and styles.

## 7. What could come next

One abstract provider (a call settles once, a write is sent once, nothing of a
revoked grant is sent) that `ViteBroker` implements and of which section 5 names what
`BridgeServer` does not keep.
