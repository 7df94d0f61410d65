# Aries Mesh in TLA+

Aries Mesh joins the devices of one household into a peer-to-peer mesh: they
find each other, authenticate each other, replicate a small memory, route
prompts to models, run a model across several devices and hand a conversation
from one device to another. Each device is one Python process around one
asyncio event loop (`src/src/aries/node.py`), which also serves the web
dashboard (`src/dashboard/src/`, React), where the household watches its mesh.

This directory holds TLA+ modules translated from that code, TLC runs over
small households, and proofs that TLAPS checks for households of any size.
Python paths below are relative to `src/src/aries/`, JavaScript paths to
`src/dashboard/src/`.

## The system

| Component | State | Operations | Talks to |
|---|---|---|---|
| Memory store, `memory/store.py` | Lamport clock, registers, logs, `memory.json` | get, set, delete, log_append, merge_entry, merge_log, get_sync_state, compute_diff, apply_diff, save, load | change callbacks to synchronisation; the disk |
| Synchronisation, `memory/sync.py` | debounce task, periodic task | push, request, response, update | store; transport (`MEMORY_SYNC`, `MEMORY_UPDATE`) |
| Transport, `transport/peer.py` | table DID to connection, one receive loop per connection | connect, accept and bind, send, broadcast, receive, disconnect callbacks | every message handler |
| Noise session, `transport/crypto.py` | cipher states | handshake, encrypt, decrypt | transport |
| Discovery, `transport/discovery.py` | peer table | announce, peer found | node opens a connection |
| Keys, DIDs, `identity/keys.py`, `did.py` | key files, Shamir shares | create, split, combine | household |
| UCAN, `identity/ucan.py` | tokens, revocation list | issue, attenuate, validate a chain | household, store |
| Household, `identity/household.py` | devices, agents, revocations, a pending offer, on disk | initialise, pair, join, register agent, revoke | node (`PAIRING_*`) |
| Scheduler, `scheduler/` | health per device, weights, mandates | filter, mandate, score, select | node, profiler (`PROFILE_UPDATE`) |
| Inference registry and probe, `inference/registry.py`, `capability.py` | capability per device, configurations, link measurements | update, remove, compute, measure | node (`INFERENCE_CAPABILITY`, `INFERENCE_PROBE`) |
| Inference coordinator, `inference/coordinator.py` | session, readiness futures, worker processes | set up, generate, tear down, monitor | transport (`INFERENCE_SETUP/READY/TEARDOWN`) |
| Continuations, receipts, `continuation.py`, `receipt.py` | signed envelopes, hash chain | hand off, receive, resume | memory, transport |
| Streaming, `inference/streaming.py` | chunks of one answer | send, collect | transport, memory |
| HTTP API, `api/server.py` | a bounded event queue per client of `/api/events` | push event, stream events, answer queries, stop | node; dashboard |
| Web dashboard, `App.jsx`, `hooks/`, `pages/`, `components/` | per mounted hook: list, flag, backoff, source, or data and requests; filter, pause, snapshot; hovered device | subscribe, reconnect, poll, navigate, filter, pause, hover | HTTP API |
| Model adapters, command line | none that outlives a call | | |

What is hard about it:

- **Concurrency.** Everything on a device runs on one event loop, so a handler
  is atomic between two awaits and no further. A broadcast awaits each send; the
  receive loops, the two push tasks and the greetings of new connections run
  in between. Across devices nothing is synchronised.
- **Connections.** Discovery makes both sides connect, so two devices often
  share two connections, and the table keeps the one that was bound last.
- **Failure.** A process may die at any point; streams break, and what was sent
  may or may not be read. Only the store persists what this project models.
- **Time.** Registers expire by the wall clock of whoever looks at them; logs
  are sorted by the wall clocks of those who appended.
- **The view from outside.** A browser learns of all this through streams that
  break, queues that overflow and answers that overtake one another, while
  React mounts and unmounts the pages that asked.

What makes each part correct: replicas of a register take the same winner and
never go back; a device's stamps are never reused; nothing a peer has been told
is lost in a crash; logs keep every record once; connected devices converge; a departed
peer is forgotten everywhere; a session that ends leaves no process behind; an invitation admits one device; a token never grants
more than its parent; a stream that ended leaves no queue behind; a feed repeats
and swaps no event, and does not call itself live when it is not; a page shows
nothing that was never true, and in the end what is true.

## Modules

| Module | Models | Notes |
|---|---|---|
| `Mesh` | the devices | numbers, ordered like their DIDs |
| `LWW` | `LWWEntry`, `merge_entry`'s decision, digests | constant-level |
| `AppendLog` | `AppendLog` | constant-level; `merge` is a function, with the stable sort as a rank |
| `Transport` | `PeerConnection`, `TransportServer` | variables of the connections; actions that the services complete |
| `MemorySync` | `MemoryStore`, `MemorySyncService`, `_connect_and_announce` | EXTENDS the three above |
| `ReplicatedRegister` | | the abstract specification of the registers |
| `InferenceRegistry` | `InferenceRegistry.update_device`, `remove_device`, `_compute_configs` | constant-level |
| `CapabilityExchange` | capability messages, link measurement, disconnection and health broadcasts of `node.py` | EXTENDS `Transport` and `InferenceRegistry` |
| `InferenceSession` | `InferenceCoordinator`, `_invoke_distributed`, `_handle_invoke` and the `INFERENCE_*` session handlers of `node.py` | EXTENDS `Transport` |
| `Pairing` | `start_pairing`, `accept_pairing_request`, `_save` of `identity/household.py`; `_handle_pairing_request`, `pair_with_invitation` of `node.py` | a service of its own: a joining device runs no other |
| `EventStream` | `/api/events`: `push_event`, `_handle_events`, `start` and `stop` of `api/server.py` | variables of the streams; the browser's side of a stream is left to the importer |
| `EventView` | the filters of `Activity.jsx`, `EventCard.jsx` | constant-level |
| `Pages` | the routes of `App.jsx` | constant-level |
| `LiveFeed` | `useSSE.js`, `Layout.jsx`, the feeds of `Activity.jsx` and `Topology.jsx` | EXTENDS the three above |
| `FeedWindow` | | the abstract specification of a feed |
| `NodeApi` | the handlers of `/api/peers`, `/api/inference`, `/api/tasks` | constant-level: an answer as a function of what the daemon knows |
| `Polling` | `useAPI.js` | EXTENDS `NodeApi`; variables of the requests |
| `TopologyView`, `InferenceView` | the graph, circles and tooltip; the tables of `Inference.jsx` | constant-level |
| `Dashboard` | the polled pages, with the mouse and the router | EXTENDS `Polling`, the views and `Pages` |
| `MCMemorySync`, `MCCapabilityExchange`, `MCInferenceSession`, `MCPairing`, `MCLiveFeed`, `MCDashboard` | | constants for TLC |
| `AppendLog_proofs`, `Transport_proofs`, `MemorySync_proofs`, `CapabilityExchange_proofs`, `InferenceSession_proofs`, `Pairing_proofs`, `LiveFeed_proofs`, `Dashboard_proofs` | | theorems |

`MemorySync`, `CapabilityExchange` and `InferenceSession` are three services over
the same transport, each with its own messages in the inboxes. They share no
other state: the capability that a greeting sends between ANNOUNCE and the first
synchronisation request is in one model, the request in the other. A session
that holds a receive loop delays the messages of the other two on that
connection, which they allow for any time already.

`LiveFeed` and `Dashboard` are the two ways in which the dashboard follows the
daemon: pushed events and polled answers. One tab runs both; they share the path
and nothing else, so each has a model of its own and moves it itself. What the
daemon emits and knows is any event and any member of `Known`, which is more
than the services would produce.

### Transport

A connection `c` has two ends; `openAt[c]` are those whose receive loop still
runs, `broken` says that the stream is cut. `table[d][e]` is
`TransportServer._connections` of `d`. `inbox[c][d]` is what `d` has not read
yet: TCP keeps the order, and a cut stream swallows what is sent from then on.
The opener enters the connection in its table at once (`Connect`); the acceptor
when it reads the first message (`Dispatch`). `LoopEnds` is the `finally` clause
of the receive loop, `BroadcastSend` one send of a broadcast with its exception
path: it removes the table entry by DID, after the await. `Reset` is a crash and
a restart.

### MemorySync

One action is the stretch of code between two awaits. `HandleResponse` for
instance merges the diff, moves the clock, schedules the debounce task, saves,
computes what the peer lacks and sends it: nothing else runs in between.
`ApplyDiff` picks an order of the registers in the diff because the dict order
is the sender's; the clock after each entry and the clock at the moment of the
last save (the file holds the latter) follow from that order. The push tasks do
await: a task sleeps, wakes with the request it builds (`Wake`), and sends it to
the connections in its snapshot of the table one by one (`PushSend`).

`written` and `appended` are history variables; no action reads them except to
bound the run.

### CapabilityExchange

`own[d]` is what a start finds on the device (`probe_inference_capability`),
`registry[d]` the catalogue, `measured[d]` the peers with a figure in
`peer_latency_ms`. `ConnectToPeer` sends ANNOUNCE and the capability in one
step: a stream cut between the two is one whose reader stopped before the
second. `HandleCapability` registers the sender, answers once and starts a
measurement unless a figure is on record. A measurement is a task that ends at
any later time (`MeasurementEnds`); its probes, echoes and timeouts only decide
which figure that is, and the figures are not told apart. `ReceiveLoopEnds` runs
the disconnect callback when the table still names the connection
(`ListenersCalled`). A health broadcast (`StartBroadcast`, `BroadcastNext`) is
here for what its failing sends do to the table. `told` is a history variable.

### InferenceSession

A member of `Sessions` is one call of `invoke` or `invoke_stream` (`Streams`)
that chose a configuration of two devices, which is what `_compute_configs`
offers; the call keeps a stage of its own, as each builds an
`InferenceCoordinator`. `future[d][w]` is `_inference_ready_futures`,
`server[d][i]` is `_inference_rpc_processes`, `alive` the processes themselves,
each named for the call whose SETUP started it. `Begin` is `setup` up to the
wait for READY, `SetupTimesOut` the expiry of that wait, `SetupSucceeds` the rest
of it with the start of llama-server, `GenerationEnds` the end of `generate`, by
an answer or an exception, `Teardown` what both callers do then. `Failed` is
where they differ: `_invoke_distributed` tears down in a `finally` clause,
`invoke_stream` only what was set up. On the worker, `HandleSetup` and
`ServerReady` are the two halves of `_handle_inference_setup` around its sleep.

A receive loop awaits its handler, and `_handle_invoke` is a whole call: `Busy`
keeps the loop from the next message, READY included, and from its end.
An ERROR has no handler at the host and an ACK changes nothing: neither is in
the inboxes. What a teardown waits for (the process to die) is one step.

### EventStream and LiveFeed

A member of `Streams` is one request for `/api/events` and the response to it.
`conn` is how far it has come (`asked`, `served`, `cut` by the daemon, or `left`
by the browser while the handler does not know), `queue` the handler's
`asyncio.Queue`, `wire` what is written and unread. `PushEvent` is `put_nowait`
into every queue in `_sse_clients`, with `QueueFull` swallowed. `Accept` is the
handler up to its loop, one step because `prepare` and the first write do not
yield on a fresh connection; `WriteEvent`, `ReadClose` and `WriteFails` are the
rounds of the loop and its ends, heartbeats included; each end runs the `finally`
clause (`Returns`). `Stop` is `stop()` up to `runner.cleanup()`: `_close` into
every queue that has room, then the clients are forgotten. `Cleanup` is what that
call waits for or cancels: handlers whose `_close` was dropped end here, which is
why a full queue at the wrong moment costs a minute and not the shutdown.
`Crash` and `Boot` are the process.

On the browser's side one hook per feed: `mounted` before its effect has run,
`open` with an `EventSource` in `source` (`sourceRef`), `waiting` for the timeout
of its backoff. `owner` says whose callbacks a source still calls: `close()` takes
them away. `OnOpen`, `OnMessage` and `OnError` are the callbacks, `Effect` and
`Retry` the two calls of `open()`, `LateRetry` the timeout of an effect that was
cancelled. `Navigate` is the router: `main` has the path as its key
(`Layout.jsx`), so even `/` to `/topology` unmounts a page and mounts a new one.
The clean-up of a hook that has no source closes nothing.
The order of events is that of their numbers; a type is what the filters and
colours tell apart.

### Dashboard

`known` is what the daemon would answer from, `calls[ep]` the requests of one
`useAPI` hook under way, in the order they were made. `Fetch` is `fetchData`, at
the mount and at every tick of `setInterval`, which waits for no answer; `Served`
reads the daemon's state, `Arrives` is `setData` for any answered request, in any
order; `Fails` is the `catch` clause. `Navigate` cancels the effects
of the old page: what it still waits for changes nothing, so its requests are
dropped at once. `hovered` is the hovered state of the graph: it keeps the peer
as it was in the answer it was hovered under, and `LeavePeer` is ignored unless
it names the circle that is left. `seen` is a history variable: everything the
daemon has known since the page was mounted.

`peers`, `inference` and `tasks` are the endpoints whose answers are sorted, cut,
joined or drawn. `status`, `health`, `agents` and `memory` go through the same
hook, pass records on and are printed; they are left out. Positions are modelled
as the page computes them (percent; on the arc, the angle as a fraction), since
`CirclesApart` is about them. Names, weights, colours and wording are not.

### Pairing

A member of `Members` is a daemon with a `household.json`; those in `root` hold
the root key of the household they founded, which `load` does not bring back, so
that a founder that restarts can admit nobody. A member of `Joiners` is one call
of `pair_with_invitation` on a fresh device. A code is the number of its
invitation: two invitations never share a code (six words of 256), and nobody
presents a code that was not given out. `StartPairing` replaces the daemon's
offer. `PairInvite` is `aries pair --invite`, which makes the offer in its own
process: the code it prints is refused by every daemon, although
`cli/main.py:488` says that the daemon can accept the request.
`AcceptRequest` and `RefuseRequest` are `_handle_pairing_request`, which awaits
nothing before its answer; `CrashInSave` is a crash in `write_text`, after which
`household.json` does not parse and the daemon does not start.

A call goes from member to member (`Ask`, `AskFails`) and waits for each, but
always for the same `accept_future`: the first timeout cancels it, the next wait
then ends the call with `CancelledError` (`Awaited`), and an answer that comes
late is dropped, although the member has recorded the device. The properties
claim what is left: the code is used up by the first device, a device that has
joined was admitted with its code, the file is complete, and the call ends.
`admitted` is a history variable.

### Abstractions

What is abstracted, and why that is sound for what is checked:

- Values, records, keys and connections are model values. A content hash is
  equal when the values are; the clock field of a sync state is not sent, since
  no receiver reads it. A timestamp is an integer, as all floats here are.
- One true time `now`, which each device sees with a constant `Skew`. The wall
  clocks are monotone. Every reading in one handler gives the same time.
- The handshake succeeds, and messages carry their true sender; the checks that
  end a connection otherwise are a `DropConn`. An ANNOUNCE that fails to send is
  one that was cut before it was read.
- `MaxOutstanding` is the back-pressure of the stream: a push waits while its
  last request on a connection is unanswered. A sleeping period is any time.
- A crash and the restart are one action. A crash between two merges of one diff
  is a crash after a smaller diff.
- A send from inside a handler (an answer, a response, an update) does not yield;
  it would only when the write buffer of the stream is full.
- Memory sizes and models stand for the capability; scores and estimates rank
  configurations and are left out.
- The `finally` clause awaits `close()` before it looks at the table; `LoopEnds`
  is the look, `broken` holds from the cut on.
- A timeout and a tick come at any time; of the backoff only the delay is kept.
- A browser opens six connections to one server and no more. Three tabs with two
  streams each would leave none for polling. One tab is modelled, which has two.
- React's StrictMode mounts everything twice in development; it is not modelled.
- `clock`, `registers` and `logs` without a persist directory (unit tests) are
  not modelled; nor is `_check_write_permission`, a guard before any change.

## Runs

Every run has `Spec` with the fairness below and `CHECK_DEADLOCK FALSE`: when
every task has finished and nobody calls, the system rests. Devices are numbers,
so only connections are symmetric, and symmetry is used in runs without
liveness only.

| Run | Bounds | Shows |
|---|---|---|
| `sync_registers` | 2 devices, 1 connection, 2 keys, 2 writes (value or deletion), 1 crash | every safety property of the registers, diffs of two entries in either order; devices that stay linked end with the same values |
| `sync_adverse` | ttl 1, time to 2, 1 crash, in a save or not | what still holds when entries expire and a file is torn |
| `sync_logs` | one log with one writer, one with two; 2 records, 1 crash, one clock ahead | no record lost or doubled; the log with one writer grows as a prefix and becomes the same everywhere |
| `pairing_once` | 2 members of which one founded its household, 2 new devices, 2 invitations, 1 crash, in a save or not | a code admits one device; memberships and files agree; every call ends |
| `links_learnt` | 2 devices, 2 connections opened by either, 1 crash, 1 health broadcast | linked peers are registered and measured; the exchange comes to rest |
| `sessions_end` | 2 devices, 2 connections, a call of `invoke` (by the device or asked for by its peer) and one of `invoke_stream` with the same worker | set-ups and teardowns end; a future belongs to a call that waits; on one connection every server of `invoke` is stopped |
| `feed_live` | 3 streams, queue and wire of 1, windows of 1, 1 and 2 events, 2 events, 1 stop or crash, 1 navigation, 1 pause | one source per feed and one queue per handler; no event repeated or out of order; feeds reconnect, notice a dead daemon, show what was queued for them |
| `pages_follow` | 2 requests under way per endpoint, 2 changes, 1 crash, 1 navigation; 0, 2 or 4 peers, 4 configurations, 4 tasks of which 2 are listed | answers out of order, lost or late never show what was not true since the page was mounted; in the end the page is right |

Two writes suffice for a conflict, two connections for a race, one crash for
every comparison of memory with the file. One broadcast is one send that fails
at the wrong time. Two calls suffice to replace each other's future or server.
The registers are checked over one connection; that diffs may overtake one
another on two, and what a larger household could add, is left to the proofs,
which bound nothing.

A queue and a wire of one are full after two events, so that events and `_close`
are dropped. Three streams are two feeds and the one that a page left behind.
Two requests can overtake each other; four peers are the first number on the arc.
Two new devices can present one code, and one device can ask two members and
have the first answer come late. Convergence is checked without torn saves, which
`sync_adverse` has.

The properties that several actors are needed to violate: `ReadYourWrites`,
`SavedBeforeSeen`, `UniqueStamps`, `ConflictsResolved`, `OfferAdmitsOne`,
`MembershipsAgree`, `RecordsKept`,
`RecordIdsUnique`, `LogsArePrefixes`, `RegistersConverge`, `OwnLogsConverge`,
`ConnectedPeersKnown`, `LinkedPeersLearnt`, `FuturesWaited`, `SetupsEnd`,
`ServersStop`, `OneSource`, `ClientsAreServed`, `PausedHolds`, `Reconnects`,
`LastArrives`, `ShownWasTrue`, `TooltipWasTrue`, `PagesFollow`, and the
refinements `RegistersImplemented` and `FeedsImplemented`.

### Where the code and its documents disagree

| Run | The code |
|---|---|
| `logs_diverge` | `compute_diff` compares log lengths; after one append on each side the logs differ for good |
| `links_stale` | a broadcast removes the entry of a dead connection before its receive loop ends, so the disconnect callback is never called and configurations with the departed peer are still offered |
| `links_unforgotten` | a measurement that ends after the disconnection puts the figure back, and the peer is not measured when it returns |
| `sessions_orphan` | a worker keeps its servers under the id of the configuration; two overlapping calls with one configuration leave one server running for good |

### Fairness

Weak fairness of each receive loop, push task, greeting, end of a receive loop
and of time: the event loop runs every task that is ready, `sleep` ends, and an
ended stream is noticed. Nothing is assumed of callers, of discovery, of streams
or of crashes. Convergence is claimed for devices that stay linked from some
time on (`Linked`): both ends send on one working connection. In
`CapabilityExchange` the ends of measurements (each probe has a timeout) and the
sends of a broadcast are fair as well; that a broadcast starts is not. In
`InferenceSession` the wait for READY ends (its timeout), and so do llama-server's
start and the teardown; a generation need not end, since the code sets no timeout
for it: `ServersStop` presumes that it does, and presumes one connection that is
never cut. The second is needed: with two connections a TEARDOWN may travel on
another one than its SETUP and overtake it, and then the server stays.

In `Pairing` the two timeouts of a call are fair, and nothing else is.

In `LiveFeed` the handlers of the daemon, the browser's callbacks, the effects and
timeouts of the hooks and `runner.cleanup()` (it has a timeout) are fair; that
the daemon is booted again, emits or stops is not, nor is anything the user does.
`Reconnects` presumes a daemon that stays up, `DeadIsNoticed` one that stays down.
In `Dashboard` the ticks are fair, and so is every single request: it is answered
or it fails, in whatever order. `PagesFollow` presumes a daemon that stays up and
a page the user stays on; that the daemon learns nothing new from some time on
follows from `MaxChanges`, and with only finitely many changes the last answer to
arrive is one that was given after the last of them, because ticks go on for ever.

## Proofs

TLAPS checks every theorem for any set of devices, keys, connections and values
that satisfies the named assumptions, and for crashes and torn saves without
bound.

- `TypeCorrect`: `Spec => []TypeOK`.
- `SyncInvariant`: `Spec => []SyncInv`. `SyncInv` is inductive together with
  `TypeOK`. The wanted facts are not: that a write is stamped as no other needs
  the clock to be ahead of every stamp the device gave out (`StampsOnRecord`), in
  memory and, because of crashes, on disk; that a merged entry has a known author
  needs every entry in memory, on disk and in flight to be one that was written
  (`NothingInvented`); that a restart keeps the clock ahead of the registers needs
  the file to be consistent by itself (`SavedClockDominates`).
- `ClockAlwaysDominates`, `AlwaysSavedBeforeSeen`: conjuncts of it. The first
  shows that the early return of `set` is unreachable.
- `StampsUnique`, `RegistersRefine` and `OwnWritesRead`, assuming no torn save.
  The assumption cannot go: `_save` (`memory/store.py:402`) is not atomic and
  `_load` ignores a file that does not parse, so that a torn save restarts the
  clock and stamps are used twice. `ReadYourWrites` is claimed of keys that
  nobody gave an expiry: `get` (`memory/store.py:237`) forgets an expired entry
  with its timestamp, so that an older value may come back from a peer. `RegistersRefine` maps
  `Set` to `Write`, a merge to `Adopt`, `Get` to `Forget`, a restart to `Adopt`
  or a stutter; `OwnWritesRead` follows from the steps of the abstract module.
- `RecordsAlwaysKept`, `RecordsUnique` (assuming no torn save, which would lose a
  log and with it the positions taken). The first follows from `SyncInv`, by
  which a crash finds on disk what was in memory. That a device and a position
  identify one record needs more: `LogInv` adds that every record in a log or in
  flight was appended (`KnownRecords`), and that a device's log is longer than
  every position it gave out (`PositionsTaken`), which the merges must keep, since
  the position is the length of the log.
- `ConflictsAlwaysResolved` (no torn save): two entries that are held were written
  (`NothingInvented`) and written entries differ in their stamps (`UniqueStamps`).
- `PrefixInvariant`, `LogsAlwaysPrefixes` (no torn save). That replicas of a
  one-writer log are beginnings of the writer's is not inductive: a diff is an
  answer to a length reported earlier, and comes when the receiver's log has grown
  or the diff is a repetition. `PrefixInv` adds that no report, waiting or held by a
  push task, exceeds what its author keeps (`Reported`: logs only grow, and crashes
  bring back all of a log), that a diff on its way therefore starts no later than
  its receiver's log ends and agrees with the writer's from there (`Continues`), and
  that the writer's timestamps ascend, so that the sort moves nothing (`OwnLog`; the
  wall clock is monotone in the model). `LogMergedExtends` is the merge itself.
- `MergeOrderIrrelevant`: entries that differ in their stamps, as by `StampsUnique`
  all do, merge to the same register in any order and any number of times.
- `OneExchangeSettles` (no torn save): from every reachable state one request, its
  response and its update, with nothing in between, leave two devices with the same
  values of the keys that never expire and the same one-writer logs. This is what
  convergence rests on besides fairness: a digest that matches is one of an equal
  value, a conflict has a winner that both sides choose, and of two beginnings of one
  log the shorter becomes the longer. Of expiring keys and of logs with several
  writers it is false, as `logs_diverge` shows for the latter.
- `AppendLog_proofs`: `merge` returns a log, keeps every record of the local one,
  invents none and repeats no identity. The sort is described by ranks: the lemma
  behind these is that the rank is a bijection onto the positions.
- `Transport_proofs`: the steps of the transport keep its shape and
  `TransportInv`: receive loops run over opened connections, and a table entry
  names a connection that leads to its peer.
- `ExchangeTypeCorrect`, `PeersStayKnown`: `Spec => []TypeOK` and
  `Spec => []ConnectedPeersKnown` for `CapabilityExchange`. That a linked peer
  stays registered is not inductive: an old connection must not come back into
  the table once its capability was handled and the peer removed. `ExchangeInv`
  adds that a capability is handled on opened connections only, and by an
  acceptor only after the connection was bound, which happens once.
- `SessionTypeCorrect`, `FuturesAlwaysWaited`: `Spec => []TypeOK` and
  `Spec => []FuturesWaited` for `InferenceSession`, for any number of calls,
  devices and connections. `FuturesWaited` is inductive with `TypeOK` and
  `TransportInv`: it says under which host and worker a future may stand, so the
  call that leaves the waiting stage takes away the only one it can have.
- `CallsAlwaysGoOn`: `Spec => CallsGoOn` for `InferenceSession`, the safety half of
  `SetupsEnd`: a step moves a call forward in the order asked, waiting, ready,
  running, closing, done, or leaves it alone. It rests on `FuturesWaited`: a READY
  moves whichever call the future names, and without that invariant it could take
  back a call that is over.
- `ServersAlwaysPlaced`: `Spec => []ServersPlaced` for `InferenceSession`. The
  inductive `PlacedInv` adds `SetupsPlaced` (a SETUP on its way, on a wire or read,
  goes to the worker of a call that has begun) and follows it through the start of
  the process to the list of servers, where a server stands under the
  configuration of its own call, so a TEARDOWN stops none of another one.
- `FeedTypeCorrect`, `SourcesSingle`, `LiveAlwaysTrue`, `ClientsAlwaysServed`: the
  invariants of `LiveFeed`, for any sizes, any number of streams, stops and
  navigations. `SourceInv` makes them inductive: `Sourced` ties `hook`, `source`,
  `owner` and `conn` to each other in both directions, `Unwritten` says that the
  wire of a stream nobody has answered is empty (else a reused stream would open a
  feed with what an earlier one was sent). `ClientsInv` adds which clients are
  listed in which state of the server (`Listed`) and that only handlers have queues.
- `FeedsRefine`: every feed implements `FeedWindow`. What a feed shows is older
  than all that waits for it: `Ordered` says this of `Pending(s)`, the wire
  followed by the queue, which each step of the daemon only extends at its end or
  cuts short. A callback maps to `Arrive`, an unmount to `Clear`, all else stutters.
- `PausedAlwaysHolds`: while paused the list is the snapshot, which only Pause sets.
- `FooterAlwaysHonest`: a frozen list is not longer than what is buffered, because
  what is buffered never shrinks while the page stays: an event that pushes the
  oldest out leaves as many (`FooterInv`, with the windows' sizes). Live, the counts
  are of the list that is shown. The filter is `Selected`, by position, since nothing
  can be proved of the recursive `SelectSeq`; TLC checks in `feed_live` that the two
  are equal on short lists (`MatchesSelects`).
- `PairingTypeCorrect`, `OffersAdmitOne`, `MembershipsAlwaysAgree`: the invariants
  of `Pairing`, for any number of members, devices, invitations and crashes. That a
  code admits once needs that it is open at one member at most, and nowhere once it
  has admitted somebody (`CodesGivenOnce`); that a membership was given for the code
  needs the same of every answer under way, late ones included (`AnswersAdmitted`);
  that the file is complete needs the daemon's memory to be the file and what it has
  admitted (`FilesComplete`), since the save writes the whole memory.
- `PagesTypeCorrect`, `ShownAlwaysTrue`, `TooltipAlwaysTrue`: the invariants of
  `Dashboard`, for any contents and any number of requests. `PageInv` carries the
  claim from the page to its requests: an answer on its way is one to something in
  `seen`, and a page holds requests only for the endpoints it polls.
- `CirclesAlwaysApart`: the layout's cases, one to three peers in a column, more on an
  arc, give different places for any number of peers, all right of the host. It uses
  that every peer has a `connected` flag.
- `BestAlwaysFirst`, `TasksAlwaysLatest`: by `ShownWasTrue` the page shows an answer
  to something the daemon knew; the rest is about that answer. `SortedRearranges`
  says that counting what comes before an item gives each a place of its own, so that
  the sorted list is the items, the largest key first. The cut to `TaskLimit` then
  leaves out nothing that is later, and the rows are as many as the tasks listed
  because no two chains have the same name.

The assumptions on `Dashboard`'s constants are those of the code: a list is a list,
scores and times are numbers, the receipt chains are a dict by task
(`KnownAssumption`), and the page's limit of 20 rows is no smaller than the daemon's
of 20 tasks (`LimitsAssumption`).

Every invariant, action property and refinement that a run checks is thus a theorem.
Only model-checked is liveness under fairness, which TLAPS does not do
(`RegistersConverge`, `OwnLogsConverge`, `PairingEnds`, `CapabilitiesSettle`,
`LinkedPeersLearnt`, `SetupsEnd`, `ServersStop`, `Reconnects`, `DeadIsNoticed`,
`LastArrives`, `PagesFollow`), and what `MatchesSelects` says of the filter.

## Not modelled

- Noise session, discovery, model adapters, command line: a library, I/O or a call
  without state of its own; their effect on the modelled parts (a connection that
  appears or is cut, an answer or an exception) is in the models.
- Keys and secret sharing, UCAN, scheduler, continuations, receipts, streaming:
  planned below.
- Of the household: agents and `aries register`, a second process that reads and
  rewrites `household.json` beside a running daemon, so that the later save of
  either undoes the other's; `revoke`, which nothing calls.
- In the HTTP API: the frontend's files, the start of the server, the endpoints
  that pass a record on.
- In the dashboard: the cards that print numbers (`ThisDeviceCard`, `AgentsCard`,
  `MemoryCard`, `HealthBar`), the wording of times, icons and styles.
  `DeviceNode.jsx` is imported nowhere. The banner of an active inference session
  (`pages/Inference.jsx`) is never shown: `_inference_coordinator` (`node.py:69`) is
  set to `None` and never to a coordinator, so `/api/inference` always answers with
  no session.
- The tooltip may stand where another device is drawn by the time, since its place
  is that of the answer it was hovered under. `TooltipWasTrue` claims what does
  hold: place, pill and figures belong together.

## Plan

In this order; each part brings its module, runs, mutants and, where the list
says so, theorems.

1. Memory and synchronisation (done).
2. Capability exchange (done).
3. Inference sessions (done).
4. Event streams and the dashboard (done).
5. Pairing (done). `UCAN`: attenuation and chain validation as functions against
   a reference definition; theorems that a valid chain never grants more than its
   root. Agents in `household.json`, with the commands that write it.
6. `Handoff`: continuations, receipts (the hash chain) and streamed chunks over
   the shared logs.
7. `Router`: filter, mandate, score, select over late health reports; Shamir
   sharing over a small field.
8. Theorems about UCAN.

Runs stay few: as the later parts come, runs of one component are merged, and a
run whose properties are theorems gives way.
