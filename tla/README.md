# WEDECENT: TLA+ models, model checking and proofs

WEDECENT lets the owner of a set of devices open terminals and transfer files
between them. An agent (`cmd/wd-agent`) runs on each device; a controller
(`cmd/wd`, `cmd/wd-ui`, the desktop application) connects to it over pinned TLS
on the LAN, through a blind relay, or through one trusted router of the owner's
own mesh. This directory holds TLA+ modules for the parts of that program whose
correctness depends on the order of events, the TLC configurations that check
them, and proofs checked by TLAPS.

`PROJECT.json` maps every definition to the lines it models and lists runs,
findings, hazards and theorems. All paths below are relative to the repository.

## Inventory

### Parts that are modelled

| Part | State it keeps | Operations | Interaction | What is hard | What makes it correct |
|------|----------------|------------|-------------|--------------|-----------------------|
| Routes and planner (`internal/mesh/mesh.go`) | none | `Route.Validate`, `Route.Cost`, `LowestCostPlanner.Plan` | called by the controller, the forwarder and the verifier | `uint64` sums, malformed candidates | the plan is the documented best usable route |
| Route forwarder (`internal/mesh/forwarder.go`, `internal/meshruntime`) | policy, session counter, byte counters, the links of each operation | `ServeRouteOpen`, `SetPolicy`, `copyOpaque` | one goroutine per operation, two copies per tunnel; calls the authorizers and the replay store | nine returns after a slot was taken, stale policies, deadlines that close links under blocked copies | slots exact, limits kept, no link stranded, only authorized routes accepted, every operation ends |
| Replay store (`internal/meshstate/replay.go`) | consumed JTIs in memory and in a file | open, `ConsumeRouteAuthorization` | shared by all operations, survives the process | failed and half-failed saves, crash, expiry against purge, a full file | a consumed authorization stays consumed while it is valid |
| Typed streams (`internal/session/managed_multiplex.go`, `typed_stream_*.go`) | on each end: streams, windows, buffers; on the server also PTYs, slots, registry | open, read, write, resize, close on the client; dispatcher, `forwardOutput`, `waitProcess` on the server | frames in both directions over one connection | six goroutines per stream close and write concurrently, credit, close crossing exit, loss of the parent | credit conserved, windows kept, slots and processes released once, closes take effect |
| Pairing and trust (`internal/trust`, `handlePair` of `internal/session/server.go`) | the secret file, the store file and its lock | `RotatePairingSecret`, `handlePair`, `Put`, `DeletePeer`, `Revoke` | the agent's goroutines and separate commands share two files | check, removal and edit are separate steps; a process may die between them | no edit lost, a secret consumed before trust is added |
| Relay (`internal/relay`) | parked slots per device | `Park`, `Take`, `Remove`, prune, `handleRegister`, `handleConnect`, `bridge` | two goroutines per session meet at a slot | the timer of one goroutine against the session of the other | a slot serves one client, a parked one is usable, nothing left open |
| Terminal sessions (`internal/session/server.go`, `client.go`, `managed.go`, `policy.go`, `authorization.go`) | one PTY per connection, idle and absolute timers, the Core's output queue | `serveConn`, `handleAuthorizedTerminal`, `handleTerminal`, `ConnectTerminal`, `ManagedTerminal` | agent and client over one connection; the trust store and the relay's authorizer | timers racing output and a peer that stops reading, exit before the last output, a reader that waits | output whole and in order, no close before it, no shell without admission, expired and exited sessions end unless a write holds the loop |
| File transfer (`internal/coreapi/file_transfer_service.go`, `internal/session/managed_file_transfer.go`, `typed_file_server.go`, `file_transfer_store.go`) | the Core's operations, children on both ends, staged files | open, write, read, commit, cancel; dispatcher and forwarders of the agent | frames over the parent of the typed streams, files on the agent's disk | cancel during commit, failures on either end, credit, loss of the parent | a published file is whole and replaces nothing, removal of staging is always tried, credit conserved, operations forgotten |
| Core connections (`internal/coreapi/connection_service.go`, `connect_idempotency.go`, `terminal_stream_service.go`, `terminal_service.go`) | connections, opening slots, replay table, stream table | `Connect`, `Disconnect`, `Close`, the `Done` watcher, terminal streams | callers of the local API, the backend's handles | several short critical sections per call, duplicates of cancelled leaders, a close that fails | slots exact, every handle and path has an owner, one connection per operation, dead ones released |
| Core recovery (`cmd/wd-ui/recovering_core.go`, `bootstrap.go`, `internal/coreapi/client`, `ipc/server.go`, `terminal_write_idempotency.go`) | replay keys, pending input, generation of the Core, replay table | `Connect` and `WriteTerminal` with their retries, `recoverOnce`, `ensureLocalCore`, the Core's requests | a window, a reader and a Core process that dies and comes back | lost answers, requests that still run when they are repeated, two parties that recover at once | implements `OnceOnly`: one effect per key while its window lasts, no false first verdict; one recovery at a time; calls return |
| Account sessions (`internal/account`, `internal/coreapi/account_*.go`, the account commands of `cmd/wd`) | the session file, the Core's copy, the service's token families | sign-in, refresh, sign-out, grants, route authorizations, enrollments | the Core and commands share a file; the service rotates tokens | a spent token in another's hands, lost answers, restarts | Core and file agree, a signed-out session stays out, grants are issued to the user shown |
| Routed dial (`internal/coreconnect`, `internal/meshnet`, `internal/mesh/routecontrol.go`, connect commands of `cmd/wd`) | the attempt, its links, four trust files | choice of a path, of a router, authorization, link, tunnel, inner handshake | source, router and destination, each with its own files | trust edited between check and use, the deadline against the answer | every trust needed is there, the cheapest candidate, no fallback, nothing left open |
| Agent (`cmd/wd-agent/main.go`, `routing_listeners.go`, `serial_stream.go`, `internal/winservice`) | sockets, accept loops, connection tokens, relay slots, service status | `runAgent`, `serve`, `serveAgentListener`, `serveAgentSerial`, `relayLoop`, `serviceMain`, the control handler | loops end each other through contexts; the service manager and signals end the process | a failure of one of several parts, a stop during the start | whole or gone, sockets free at the end, limits kept, a stop always takes effect |
| Updates (`internal/updateinfo`) | state file, installed release, lock, staged archive | `DiscoverStable`, `Stage`, `ApplyVerifiedInstaller` | processes share state, lock and staging directory; the channel changes meanwhile | a replaced archive, a death or a failure between installation and commit | only signed files under the admitted version run, the sequence never falls, the lock comes free |

### Parts that are not modelled

| Part | Why |
|------|-----|
| Router control and audit (`internal/routercontrol`, `internal/audit`) | left for later work; the policy change itself is `SetPolicy` of `RouteForwarder` |
| Relay worker (`cloudflare/relay-worker`) | storage, alarms and hibernation are the platform's; left for later work |
| Route authority store (`internal/meshstate/route_authority.go`) | one file read at start, no step between read and use |
| Control plane (`supabase`) | database transactions; `AccountSession` models the service from how the Go code uses it |
| Wire encodings, PTYs, drivers, cryptography and key files, user interfaces, installers, scripts | input and output, or a library's order |

Inside the modelled parts these are left out: the issuer's side of
`routeauth.go`; the challenge and the connection limit of `cmd/wd-relay`;
latency figures; the raw mode of the user's terminal; WebSocket frames; commands
of `wd` and `wd-agent` that only print; installation of the Windows service; and
`StateStore.Advance`, which only tests call.

## Plan

1. Done, the models: `MeshRoute`, `RoutePlanner`, `RouteReplay`,
   `RouteForwarder`; `TypedStreams`; `Pairing`; `RelayBroker`; `FileTransfer`;
   `CoreConnections`; `CoreRecovery` with the abstract `OnceOnly` it implements;
   `TerminalSession`; `AccountSession`; `UpdateState`; `RoutedDial`;
   `AgentLifecycle`.
2. Done, the proofs: every type invariant, safety invariant and safety action
   property that a passing run checks, the refinement of `OnceOnly`, and that
   the combined runs implement their components. What is left to TLC is
   liveness and one property about a span of time (`RevokedSourceRefused`).
3. Further components: the audit log and router control, the relay worker.

Bounds stay at one to three actors and two values of each kind: each hazard
listed in `PROJECT.json` needs at most two actors and one failure.

## Modules

| Module | Models | Used by |
|--------|--------|---------|
| `MeshRoute` | routes as records, `Validate`, `Cost` in a small unsigned width, policies | `RoutePlanner`, `RouteForwarder` |
| `RoutePlanner` | the loop of `Plan`, a candidate per step | `MCRoutes` |
| `RouteReplay` | the replay store; one action per outcome of a consumption | `RouteForwarder` |
| `RouteForwarder` | the router of a one-hop route: composes `MeshRoute` and `RouteReplay` with the life of an operation | `MCRouteForwarder`, `MCRoutes` |
| `TypedStreams` | both ends of a multiplexed connection and the wire | `MCTypedStreams`, `MCStreams` |
| `Pairing` | secret file, trust store, pairings, revocations, rotations | `MCPairing`, `MCDevice` |
| `UpdateState` | updaters over one state file, lock, staged archive and installation | `MCDevice` |
| `RoutedDial` | one attempt to reach a device, with the router's and the destination's ends | `MCDevice` |
| `AgentLifecycle` | one agent process from its configuration to its exit | `MCDevice` |
| `RelayBroker` | broker, registrations, client connections, bridges | `MCRelayBroker`, `MCRemote` |
| `TerminalSession` | a terminal session without typed streams, both ends | `MCRemote` |
| `FileTransfer` | uploads and downloads from the Core to the agent's disk | `MCRemote` |
| `CoreConnections` | the Core's connection service with its replay and stream tables | `MCRemote` |
| `CoreRecovery` | the window's calls across lost answers and restarts of the Core | `MCRemote` |
| `OnceOnly` | abstract: what replay keys promise | `CoreRecovery`, by `INSTANCE` |
| `AccountSession` | the account session of a Core and of commands | `MCRemote` |

| Proofs | About |
|--------|-------|
| `LoopProofs` | induction over the steps of a loop; used by `RouteProofs` and `RemoteProofs` |
| `RouteProofs` | `RouteForwarder` with `RouteReplay`, `RoutePlanner` with `MeshRoute`, `MCRoutes` |
| `TypedStreamsProofs` | `TypedStreams` |
| `DeviceProofs` | `Pairing`, `UpdateState`, `RoutedDial`, `AgentLifecycle`, `MCDevice` |
| `AccountSessionProofs` | `AccountSession` |
| `CoreProofs` | `CoreConnections`, `CoreRecovery` and its refinement of `OnceOnly` |
| `FileTransferProofs` | `FileTransfer` |
| `RemoteProofs` | `RelayBroker`, `TerminalSession`, `MCRemote` |

`MCDevice`, `MCRemote` and `MCRoutes` check several components in one run. The
components share no variable; the variable `focus`, chosen at first and never
changed, says which of them takes steps. The others stay in an initial state in
which nothing was asked of them, and in which no action with a fairness
condition is enabled, so that conjoining the fairness of all of them adds
nothing to the one in focus and makes no property vacuous. In `MCStreams`, which
has one component, `focus` says how many streams there are and which traffic they
have.

### How state and actions correspond to the code

**RoutePlanner.** `position` and `best` are the loop index and `best` of `Plan`;
`Consider` is one iteration, `Return` the end, `Cancelled` the `ctx.Err()`
checks. `Cost` wraps at `MaxCost + 1` where the code wraps at 2^64.

**RouteForwarder.** `pc[o]` is the place of operation `o` in
`Runtime.ServeRouteControl` and `Forwarder.ServeRouteOpen`: reading the
request, `Prepare` (which takes the policy snapshot), `Acquire`
(`acquireSession`), `LocalAuthorize` (the trusted-source check), `Verify` and
`Consume` (`VerifyAndConsume`, two steps because it reads the clock before and
the store afterwards), `Dial`, `Accept`, then the two copies, `Collect`,
`ContextCloses` and `Finish`. `Abandon` is the release on the error returns of
`prepareForward`. `SetPolicy`, `SetTrust`, `Stop` and `Restart` are the
operator and the process. A signature is the field `signed` of a request.

**TypedStreams.** Client variables are the fields of `ManagedMultiplexTerminal`
and `managedMuxChild`; `opener`, `reader`, `writer`, `closer` are the places of
callers inside `OpenTerminalStream`, `ReadTerminalStream`,
`WriteTerminalStream`, `CloseTerminalStream`. Server variables are the
registry, the `typedTerminalChild`, the slot counter, and the places of the
dispatcher (`task`), `forwardOutput` and `waitProcess`. An action ends where the
code takes a mutex, writes a frame or waits. Payloads are byte counts. `ended`
records why the parent ended and which streams were open.

**Pairing.** `pc[e]` is the place of a pairing inside `handlePair` and
`Store.Put`, or of a revocation inside `Store.DeletePeer`. The store is the set
of its peers. `"torn"` is the secret file that `os.WriteFile` has truncated and
not written. `Crash` ends the agent or one command and frees its file lock.

**RelayBroker.** `agent[a]` is the place of `handleRegister`, `client[c]` of
`handleConnect`, `copying[c]` the copies of `bridge`. Time is the age of a slot
and the rest of a timer, so that no bound on a clock is needed. A copy returns
when its source ends or when it has data for a destination that is closed; it
does not notice otherwise that the other connection was closed.

**TerminalSession.** `serving` is the place of `serveConn` and `handleTerminal`,
`forwarding` of the goroutine that copies PTY output, `using` and `reading` of
the client and of a caller of `ReadTerminal`. `variant` selects
`ConnectTerminal` or `ManagedTerminal` (which queues and probes). The peer of
either may stop reading (`OutputStalls`). The loop of `handleTerminal` itself
writes the PTY's input (`PtyWrites`) and the `Pong`, and selects nothing, no
timer either, until that write returns. Timers fire whenever they are armed.
Output is the sequence of its numbers, so that loss and reordering show.

**FileTransfer.** `op[t]` is the entry of an operation in the Core, `kid[t]` the
client's child, `agentKid[t]` the agent's child with its staged file,
`stream[t]`, `commit[t]` and `cancel[t]` the places of the callers. A file is a
number of chunks, and all uploads name one destination path. Every removal of a
staged file may fail: the file is then left (`stage = "left"`), which the code
ignores except after a publication, where the commit reports an error for a file
that is in place.

**CoreConnections.** A caller also names the connection it creates. `connect[c]`
is the place inside `ConnectIdempotencyService.Connect` and
`ConnectionService.Connect`; `entry`, `feed`, `path`, `opening` and `replay` are
the tables; `disconnect`, `watch`, `sweep` and `term` the places of
`Disconnect`, `watchRemoteClose`, `Close` and the terminal streams. What the
code does under one lock is one step; a `Close` that failed and the later look
at `Done` (`ObserveDone`) are two. `cleanupBackend` may give up after its two
seconds, which leaves the child stream to its parent (`"lost"`).

**CoreRecovery.** `ui` is the place of the window's call in `recoveringCore`,
`pending` the key it keeps, `request[n]` a request on its way or in a Core,
`table` the Core's replay table, `recovery[p]` the place of a party in
`recoverOnce`. `times[k]` counts how often the mutation of key `k` took effect.
The Core prunes a key some time after it completed, and the replay window of a
key whose outcome is unknown may end at any step, so also between the
preparation of a retry and its arrival; `expired` is the set of those keys. The
refinement maps `effects` of `OnceOnly` to `times` and `over` to `expired`.
`verdict` is what the window was told last of each key, and a definite refusal
after an "unknown" is a verdict of its own, "retracted", because the code says it
without knowing what became of the earlier request. `KeysTakeEffectOnce` is the
abstract specification, checked as a property.

**AccountSession.** A session is a login with a generation of its tokens;
`families` is the service's record, `sessionFile` the file, `memory` and `shown`
the Core's copy and status. `stage[p]` is the place of a request or command.
Each service call may be answered, refused, or lose its answer after it acted.
The Core compares only the claims that the answer echoes (devices, permission,
route, lifetime). That a grant is issued to the user of the token is what the
service does (`supabase/functions/connection-grant/index.ts:72-104`); it is the
external definition `TokenUser`. What the Go code contributes, and what
`IssuedForShownUser` is about, is which token a request carries.

**RoutedDial.** `dialing` is the place in `Backend.Open` or `runConnect` and
below; `trusts` the four trust files; `outer` the link to the router, `tunnel`
the router's side. Edits of trust files and of the policy happen between any two
steps, also between the lookup of the router's trust with its discovery
(`ResolveRouter`) and the TCP dial (`ConnectRouter`). `ever` records which
trust files named the pair at some time since the route was authorized.

**AgentLifecycle.** `phase` is the place of `runAgent`; `socket`, `accepting`,
`tokens` and `open` the listeners; `serial` and `relaySlot` the other transports;
`main`, `status`, `carried`, `reported` and `control` the Windows service.
`cancelled` is the set of contexts that are done. `StartWorkers` may take one of
the error returns behind the binding of the sockets.

**UpdateState.** `at[u]` is the place of an updater; `published` and `signed` are
the two objects of the channel, `archive[u]` the staged file, `package[u]` what
was extracted from it, `admitted[u]` the sequence the state file had. A package
has the release of its signed `files` and the `version` its `VERSION.txt` says,
which no signature covers; whoever can write the staging directory may replace
the archive by any mix of the two.

## Runs

| Run | Checks | Bounds |
|-----|--------|--------|
| `route_admission` | `AcceptedMatchesCapability`, `RevokedSourceRefused`, `NoStrandedLinks`, `EverySessionEnds` | one operation, good requests and one for each check that can fail, two transports, three policies |
| `route_sessions` | `RouteForwarder` with `RouteReplay`: `SlotAccounting`, `LimitRespected`, `ConsumptionDurable`, `SingleUse`, `StoreReopens` | two operations, two authorizations of different expiry, limits 1 and 2, a store of one entry, counters that saturate at 1 |
| | `RoutePlanner`: `PlanIsLowestCost` against an independent definition of usable and cheapest | three candidates, 2-bit costs, one route for each way to be malformed |
| `stream_safety` | `CreditConserved` (`OutputCreditConserved`, `BufferWithinWindow`, `InputWithinWindow`), `ClosedOnce` (`SlotsExact`, `NoOrphanProcess`) | windows of two bytes, one frame per direction; one stream with output, with input, or with both a byte at a time, or two streams without traffic |
| `stream_ends` | `CloseTakesEffect`, `LossNoticed`, each unless the dispatcher stays in a write to a PTY | one stream, windows of one byte |
| `device` | `Pairing`: `NoLostEdit`, `ConsumedBeforeTrust`; progress: `EveryEditEnds` | two pairings, a revocation, two peers, two secrets |
| | `UpdateState`: `AdmittedOnly` (`ExecutesAdmitted`, `AdmissionHolds`), `CommittedWasInstalled`; progress: `LockComesFree` | two updaters, two releases and every mix of their files and version texts, one death |
| | `RoutedDial`: `RouteIsSound` (`RoutedNeedsEveryTrust`, `RevokedNotDialed`, `ChoiceIsCheapest`), `DialIsHonest` (`NoFallbackFromRoute`, `ConnectedIsOpen`, `FailedHoldsNothing`); progress: `DialEnds` | two routers, three candidates, two edits, every kind of locator |
| | `AgentLifecycle`: `WholeOrGone` (`StoppedMeansReleased`, `WorkersAfterSockets`, `ConnectionsWithinLimit`); progress: `NoPartialAgent`, `StopEndsAgent` | four configurations, one connection per role, one relay slot, a service or a foreground process |
| `remote_safety` | `AccountSession`: `SessionsAgree` (`CoreAndFileAgree`, `SignedOutStaysOut`, `ShownIsHeld`), `IssuedForShownUser` | one caller, a command and a restart, or two callers; two users, two logins, two generations |
| | `RelayBroker`: `ConnectionsAccounted` (`ParkedIsUsable`, `SlotExclusive`, `NothingLeftOpen`) | two agents, two clients, one slot, one hang-up |
| | `TerminalSession`: `OutputComplete` (`CloseAfterOutput`, `OutputWhole`, `EndMeansDrained`), `ShellAdmitted` | two chunks of output, one frame of the client (input or probe), a wire and a queue of one |
| | `FileTransfer`: `PublishedWhole`, `NoStageLeft`, `EndsAgree` (`AgentHasRoom`, `DownloadCreditConserved`, `CompleteIsWhole`) | one transfer with cancellation, or an upload and a download at once; two chunks, a window of one |
| | `CoreConnections`: `NothingStranded` (`OpeningExact`, `PathHasOwner`, `DisconnectHidesPath`, `HandleHasOwner`, `TerminalHasOwner`, `NothingListedAfterClose`), `OneConnectionPerOperation` | two callers that share an operation or not, one of them impatient, one handle whose close may fail, one terminal stream, limits of one |
| | `CoreRecovery`: `KeysTakeEffectOnce` (refinement of `OnceOnly`), `RepeatsAreHarmless` (`NoSecondEffect`, `OneRecovery`) | two calls, two keys, two requests, one crash, one read |
| `remote_progress` | `CallsReturn` (`AccountCallReturns`, `ConnectReturns`, `CallReturns`, `ReaderServed`), `EndedIsReleased` (`ExpiredSessionEnds`, `ExitedSessionEnds`, `EveryAgentLeaves`, `OperationsReleased`, `DeadConnectionReleased`, `TerminalsReleased`) | as before, with one client of the relay and two hang-ups, one chunk of output, one transfer at a time, one operation, handles that close, no command beside the Core |

A property in a `.cfg` is the conjunction of the parts named in brackets; each
part is stated, with its comment, in the component's module. `DeviceProgress` is
the conjunction of the progress parts of `device`. `TypeOK`,
`DeviceTypeOK` and `RemoteTypeOK` are the type invariants. Safety and progress of
`MCRemote` are two runs because a liveness check costs several times as much per
state: the first explores several times as many states as the second.

Most liveness properties say that a component is at rest again and again
(`[]<>`): every call, edit or operation that was begun in it has ended. Since
beginnings are not fair, a behaviour that stops beginning things must come to
rest.

Five runs show a disagreement between the code and what the repository says of
it; TLC must find the violation.

| Run | What the code does | What the repository says |
|-----|--------------------|--------------------------|
| `stream_siblings` | when a process exits while a frame of its stream is on its way, the dispatcher finds no open entry, calls the frame a protocol error and ends the parent with every sibling | `docs/PHASE4_STREAM_CONTRACT.md:108`: one stream closing does not close its siblings |
| `stream_final_output` | `finish` empties the stream map, so that output buffered when the remote end closed the parent is found by no later read | `docs/LOCAL_CORE_API.md:199`: final output may be read for up to 30 seconds |
| `replay_input` | the window is checked when a retry is prepared; a retry that arrives after its end finds its key pruned and the input goes out again | `docs/WINDOWS_GUI_PROTOTYPE.md:95`, `:96`: reconciliation fails closed, no duplicate delivery |
| `pairing_single_use` | two connections check one secret before either removes the file, and a removal accepts a file that is gone: both are paired | `internal/session/server.go:133`, `README.md:13`: the secret cannot be reused |
| `relay_cut` | taking a slot does not stop the six-minute timer of `handleRegister`, which closes a session that is in use | `cmd/wd-relay/main.go:26`: the maximum age is that of an unused slot |

Where a passing run has a property about the same code, it states what does
hold: `NoSecondEffect` is about the replay window, and `SlotExclusive`,
`ConsumedBeforeTrust` and `CreditConserved` about what these races leave intact.

More disagreements and limits are in the models and have no run of their own:

- `Pairing`: a secret rotated between `CheckPairingSecret` and the removal of
  the file is removed in place of the old one.
- `RelayBroker`: `Park` precedes `Announce`, so a client can take a slot and
  have `ready` written before `waiting`; the agent refuses that order.
- `RouteForwarder`: `Verify` and `Consume` read the clock separately. Of two
  operations verified just before the expiry the second can consume after the
  purge dropped the first one's entry. `SingleUse` is therefore stated for
  consumptions before the expiry; `internal/mesh/routeauth.go:84` ("exactly one
  success") and `:138` ("single-use JTI") have no such limit.
- `TypedStreams`: the dispatcher, which alone notices the loss of the parent,
  writes to a PTY without a deadline. `CloseTakesEffect` and `LossNoticed` except
  a dispatcher that stays there for good (`DispatcherStuck`), as it may when a
  process does not read; `docs/PHASE4_STREAM_CONTRACT.md:98` and `:109` say
  without exception that a slow stream does not block others and that the loss
  of the parent closes every child.
- `TypedStreams`: the client admits eight typed streams
  (`managedMuxMaxStreams`) and the server seven
  (`maxTerminalStreamsPerConnection - 1`), so the eighth open is a protocol error
  that ends the parent. With `ClientLimit = 2` and `ServerLimit = 1`,
  `SiblingsSurvive` fails without any race; the runs give both ends one limit.
- `CoreRecovery`: a plain refusal may follow an "unknown" of the same key
  (`cmd/wd-ui/recovering_core.go:184`, `:197`, `:216`). It says nothing about the
  request before it, so `OnceOnly` promises nothing of it ("retracted"), but it
  drops the key: with three calls the next repetition, under a fresh key, sends
  the input again within the window, though `docs/WINDOWS_GUI_PROTOTYPE.md:96`
  says that no new key is silently assigned. `InputOnce` fails in that way too.
- `CoreConnections`: when a handle's close fails, a `Done` signal between
  `observableHandleDoneClosed` and the lock is dropped by the watcher.
  `DeadConnectionReleased` is therefore stated for handles that close. A child
  stream whose cleanup is given up stays until its parent ends.
- `FileTransfer`: the agent closes an upload it refuses. The error of a
  cancellation that the Core sent before it heard of that is a protocol error
  that ends the session, though `internal/session/managed_file_transfer.go:304`
  says that a cancellation does not close the parent.
- `FileTransfer`: removals of staged files fail silently, so `NoStageLeft` says
  that the removal was tried. `CompleteIsWhole` counts chunks that are queued in
  the Core as delivered; `watchOperation` forgets an operation once it is done,
  whether its reader has taken them or not.
- `TerminalSession`: the loop that selects the timers also writes the PTY's input
  (`internal/session/server.go:397`) and the `Pong` (`:411`), the latter behind
  output that the peer may not read, and after the exit of the shell the exit
  frame (`:378`), all without a deadline. A loop held there (`LoopHeld`) selects
  no limit, and `ExpiredSessionEnds` and `ExitedSessionEnds` have that exception;
  `docs/SESSION_POLICY.md:30` and `:8` say that such a peer cannot keep an
  expired session. A `Pong` of a probe that was
  given up answers the next probe.
- `UpdateState`: an installation whose check afterwards or whose commit fails
  leaves a newer release installed than the recorded sequence. `VERSION.txt` is
  not signed, so that who can replace the staged archive between its hash and
  its extraction can have older signed files run under the admitted version;
  `ExecutesAdmitted` and `CommittedWasInstalled` therefore speak of signed files
  and of the version text. An installer runs without a timeout.
- `AccountSession`: a command takes no lock. Its refresh makes the Core's token
  stale, a Core's refresh can write an older login over a command's, and a file
  removed by `wd account logout` can come back. The properties about the file
  hold until a command interferes (`disturbed`).
- `RoutedDial`: nothing looks at the trust file between the resolver's lookup
  and the TCP dial, so a router revoked meanwhile is dialled; `RevokedNotDialed`
  is about one revoked before the route was authorized. When no candidate is
  trusted, `RouteRequest` reports no route and the attempt goes on over a
  non-routed path, as `docs/LOCAL_ROUTE_SELECTION.md:77` says.
- `AgentLifecycle`: a serial session blocked in a write to a PTY keeps an agent
  that was told to stop. `WaitRelaySession` reads the relay's first answers
  without a deadline (`internal/transport/relay.go:127`); relay loops run until
  the process ends; statuses may reach the service manager out of order, which
  the exit of the process ends; the service reports exit code 0 whatever
  happened.

### Why the bounds are enough

The proofs hold for every value of the constants, so for safety the bounds only
matter to TLC; for liveness they are what was checked.

Every hazard involves at most two actors of a kind. Two operations around one
limit, or one JTI, give each order of snapshot, acquisition, consumption and
release. A window of
two bytes has an empty, a partial and a full state, and chunks of one and two
bytes split and fill it, in each direction by itself; with both directions at
once a byte each is under way. A queue of one frame per direction lets each end act
before it sees the other's last frame. One slot and two agents reach the
limit, the pruning of an expired slot, and a timer that fires in each phase of
a session. Two updaters, one death and two releases give each order of admission
and commit; two callers of one operation give a leader and a duplicate; a window
of one chunk under a file of two makes a transfer wait for credit; two keys and
two requests let a repeated request meet the first one. `MaxHangUps`,
`MaxClock`, `MaxCandidates`, `Buffer`, `MaxLogins`, `MaxGenerations`,
`MaxRestarts`, `MaxRelease`, `MaxDeaths`, `MaxEdits`, `MaxOutput`, `MaxInput`,
`MaxProbes`, `MaxClientFrames`, `MaxKeys`, `MaxCalls`, `MaxRequests`, `MaxCrashes`, `MaxReads` and
`BackoffCap` are the bounds that only exist for TLC.

Deadlock is not checked: operations, editors, streams and connections are
started a bounded number of times and the models stop when all have ended. What
must not stay stuck is stated as a liveness property.

### Fairness

Weak fairness is assumed of goroutines that can run, of timers and of the
clock, which is what the Go scheduler and runtime provide. No fairness is
assumed of peers, users, operators, failures or crashes. In `RouteForwarder` a
copy must return only once its link is closed, because a read of a closed
connection fails; a copy with two silent peers may stay for ever. In
`TypedStreams` a write to a PTY must return only once the PTY is closed. In
`Pairing` an editor takes a free lock in the end; crashes release locks because
`flock` does. In `RelayBroker` a copy must return when its source is gone or
closed, and need not notice that its destination is.

In the other modules fairness begins when something was begun: a client sends
its first frame, a caller its request and an updater its discovery when they
like. HTTP calls have timeouts and end; an installer has none and owes nothing.
In `TerminalSession` the shell and the user owe nothing, a write to the PTY may
stay, and a stalled output may stay stalled. In `FileTransfer` the
callers that were started, the monitor, the dispatcher and the forwarders go on.
In `AgentLifecycle` a blocked `Accept` returns only when its socket is closed,
and nothing is owed by a session, the serial one included, or by a relay. In `CoreConnections` nobody owes a caller a successful dial: what is fair
is that an open dial ends, in success or by its own failure or timeout.

## Proofs

Every invariant and every action property of a passing run is a theorem, for
every value of the constants that satisfies the assumptions. A theorem about a component is about
its own specification without fairness; `RoutesImplementParts`,
`DeviceImplementsParts` and `RemoteImplementsParts` show that a combined run is
a run of each of its components, and so carry the theorems over.

### Assumptions

Each module names its own (`RouteForwarderAssumption`,
`TypedStreamsAssumption`, `PairingAssumption` and so on). They say three kinds
of things: limits, windows and bounds are natural numbers, positive where the
code has a positive constant; values that stand for "none" are not members of
the sets they complement, and sets of different actors are disjoint; and inputs
are of the kind the code decodes. Of the last kind are, in `RouteForwarder`, finitely
many operations and JTIs, and each signed authorization with the expiry of its
JTI; in `RoutePlanner`, costs that fit the width of the sum, as both
are `uint64`; in `AgentLifecycle`, that the control and admin listeners are configured
together. `FileTransfer` and `TypedStreams` assume nothing of how windows,
chunks and limits compare, except that the initial window of a stream is a legal
one.

### Routes (`RouteProofs`)

- `TypeCorrect`. `TypeOK` alone is not inductive: a JTI enters the store from
  `request[o]`, which must be a request that was read. `TypeInv` adds
  `RequestRead`, that it is one in each phase that uses it.
- `SlotsAccounted` and `LimitHolds`. `SlotStep` reduces every step to one of
  four: holders and counter stay, one operation enters below the limit of its
  snapshot, one leaves, or a restart empties both. A group that contains the new
  session is no larger than the counter, hence than the new session's own limit;
  any other group was there before.
- `ConsumptionIsDurable` and `ConsumptionIsUnique`. `StoreStep` reduces every
  step to a change that keeps the live entries, a consumption, or time passing.
  `HistoryOK` adds that an operation's request does not change after it
  consumed, and that none has consumed before its consuming step. Uniqueness
  follows from durability: a second consumption of a valid JTI finds it in
  memory. `ReplayFileReopens` is from the same invariant.
- `LinksNotStranded`, and `AcceptancesMatch`, whose invariant `AcceptanceOK`
  says for each phase which of the checks before it have been made, and of what:
  the conditions an acceptance relies on were tested in different phases, some
  against a policy that has since been replaced.
- `PlanCorrect`. `PlanInv` is the loop invariant of `Plan`: `best` precedes
  every usable candidate examined. It needs that `Cost`, which wraps, equals the
  true sum whenever it reports no overflow, which is by induction over the hops.

### Typed streams (`TypedStreamsProofs`)

`StreamInv` is about both ends and both channels. For credit it adds up, for
each stream and direction, the bytes an end may still send, those on the wire,
those the other end holds, and the window updates on their way back. The sums
are kept only together with what the ends know of each other: nothing of a
stream reaches the client before its `StreamAccepted` (`Answers`), no caller
uses a stream before the client has taken that in, so that the server returns no
credit for it (`Unaccepted`), and the dispatcher works for a stream it has
reserved (`Tasks`). `StreamTypeCorrect`, `StreamCreditConserved` and
`StreamsClosedOnce` follow.

### Devices (`DeviceProofs`)

- `Pairing`: `SecretConsumed` needs `SecretPlaces`, that a secret is not
  generated, being written, or out, in exactly one of the three; `EditsAreKept`
  needs that who has read the file holds its lock and that the file is still
  what it read.
- `UpdateState`: `OnlyAdmittedRuns` and `CommitsInstalled` rest on
  `HolderIsAlone`: between lock and commit there is one updater, so that what it
  checked stays true until it commits. Of the package the invariant says only
  what the code checks: its files are signed and its version text is the
  manifest's.
- `RoutedDial`: `RoutesAreSound`, `DialsAreHonest`.
  `ChecksDone` records at each place the trust that was checked before it, and
  `ChoiceSoFar` is the invariant of the loop over candidates while the trust
  files change under it.
- `AgentLifecycle`: `AgentWholeOrGone` relates the phase of `runAgent` to the
  loops, tokens and sockets and to the service around it.

### Accounts (`AccountSessionProofs`)

`AccountSessionsAgree` and `GrantsAreForShownUser`. File, memory and tokens
differ while a request works. `Agreement` says where the request that holds
`mu` leaves each of them, and `Locked` that only that request is at such a
place. The second theorem is about the token: what is issued carries the user of
the token (the external `TokenUser`), and that token is the shown user's
whatever the others do between the request and its answer.

### Core (`CoreProofs`)

- `CoreStrandsNothing` and `OperationConnectsOnce`. `CoreInv` says for each
  stage of a `Connect` whether it holds an opening, a handle and the lead of its
  operation, and that a duplicate waits for a call that still leads. The number
  of openings is the cardinality of the set of calls that hold one.
- `RepeatsHarmless` and `ImplementsOnceOnly`. `RecInv` says that at most one
  request leads a key, that the table remembers every effect of a key until its
  window is over or a crash cuts the window off, and that a key with a second
  effect is an expired one. `VerdictInv` is what makes "refused" true as a first
  verdict: no request of that key had an effect or can have one. The refinement
  maps initial states to initial states and every step to one of `OnceOnly` or
  to a stutter.

### File transfer (`FileTransferProofs`)

`StagesRemoved`, `FileEndsAgree`, `UploadsPublishedWhole`. The ends share
nothing but frames, so `FileInv` counts, for each transfer, the frames of each
kind on the two wires: chunks sent are chunks stored and under way, credit is
what either end holds and what is under way, an open or a close is on the wire
at most once. A staged file is open only while its child is. `Room` is the hardest part. The Core admits a transfer by its own
count, the agent by another; `OpenBy(i)` is the set of transfers that the
agent will have open when it reaches frame `i`, and it stays below the limit.
Each step moves one transfer, and one lemma per step shows what it keeps.

### Relay and terminal sessions (`RemoteProofs`)

- `RelayAccounts`. `Queues` says that a slot is parked once, for one device, and
  that a parked one is open; `HandedOver` that a slot that was taken belongs to
  one client. Pruning and removing filter a queue; that filtering keeps the order
  and no other element is by induction.
- `SessionOutputComplete` and `ShellsAdmitted`. `OutputInOrder` says that what
  was read, queued and is on the wire are consecutive numbers up to what was
  taken from the PTY; `CloseIsLast` that a close is sent only once all that the
  shell made has been taken.

### Induction and how definitions were written for it

The library's induction theorems take a predicate as a parameter, which the
provers cannot instantiate. `LoopProofs` derives from the well-foundedness of
the naturals that a nonempty set of naturals has a least element, and from that
an induction for a set in place of a predicate; the set is one of the steps of a
given loop. To be within its reach, `Cost`, the reference sum of the planner and
the relay's filter are recursive functions over the length of a sequence, and
what lies on a wire is counted with `Cardinality`.

### Only model-checked

- The liveness properties: `EverySessionEnds`, `CloseTakesEffect`,
  `LossNoticed`, `DeviceProgress`, `CallsReturn` and `EndedIsReleased`. They are
  about fairness and `ENABLED`, which are outside the prover's reach.
- `RevokedSourceRefused`, which is about a span of time and stated with temporal
  operators.
- The five runs that end in a violation: TLC's counterexample is the result.

## Running

    tlc -workers 2 -config MCRouteSessions.cfg MCRoutes
    tlc -workers 2 -config MCRemoteSafety.cfg MCRemote
    tlapm RouteProofs.tla

`tlapm` takes from a few seconds (`LoopProofs`) to about ten minutes
(`TypedStreamsProofs`) for a module of proofs.

Definitions introduced as "variant for sensitivity checks" are mutated forms of
the definition that follows them; `PROJECT.json` names, for each property, one
that breaks it.
