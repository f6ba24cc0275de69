# LOOPZE Edge in TLA+

LOOPZE Edge is a flow runtime for edge devices: an editor in the browser deploys
a *workspace* (tabs of nodes connected by wires, plus shared configuration
nodes), a Go server runs every node in a goroutine of its own and passes
messages between them over buffered channels.  This directory holds a formal
model of the parts of the server whose correctness depends on the order in
which goroutines, timers, connections and deploys meet, the model-checking runs
that examine them, and machine-checked proofs.

    tlc -workers 2 -config RegistryRace.cfg ResponseRegistry     # one run
    tlapm ResponseRegistryProofs.tla                             # its proofs

`PROJECT.json` maps every definition to source lines, every property to a
mutation of the model that breaks it, and every known hazard to the properties
that guard against it.

## 1. Inventory of the system

| Component (`src/internal/...`) | State | Operations | Hard because |
|---|---|---|---|
| flow engine (`flow/engine.go`) | `nodes`, `configInstances`, `flows`, per-node wires, targets, channels `inputCh`/`stopCh`/`done` | `Start`, `Stop`, `Deploy` in three modes, node loops, `SendFunc`, `TriggerNode` | loops, tickers and HTTP handlers run on, without the engine lock, while a deploy replaces their neighbours |
| workspace diff (`flow/diff.go`) | none | `DiffWorkspaces`, `ExpandConfigDependents` | decides what a partial deploy restarts |
| response registry (`flow/response_registry.go`), http-in, http-response | slots by handle, a `sync.Once` and a `done` channel per slot, the sweeper | `Register`, `Complete`, sweep, `DrainAll` | flow branches, timeout, shutdown and the waiting handler race for one `ResponseWriter` |
| TCP sessions (`flow/session_registry.go`, `nodes/network/tcp_in.go`, `tcp_out.go`) | slots by handle and owner, a mutex per session, accept/client loops, readers | `Register`, `Resolve`, `Close`, `CloseByOwner`, reply, broadcast, `Stop` | a slot leaves the map under the lock, its socket is closed after it; three parties may close the same session |
| WebSocket hub (`ws/hub.go`) | client set, broadcast queue, a send queue per client | `Run`, `Broadcast`, `DisconnectUser`, `Stop`, the pumps | the loop releases its lock in the middle of a range; channels may be closed by three paths |
| deploy API, storage (`api/handlers.go`, `storage/`) | the files for workspace, users and certificates, one mutex | save, load, deploy | save and deploy are two critical sections; a crash may come between any two steps of a save |
| server (`server/`) | the other components | start, OPC UA migration, shutdown | the migration writes two files; the engine stops before the requests in flight |
| user and certificate store (`auth/filestore.go`, `credentials/`) | a copy in memory, a mutex each | setup, create, update, delete, roll back | copies are read under one lock and written back under another; saves fail |
| sessions, throttle (`auth/session*.go`, `auth/throttle.go`) | sessions, failure counts | login, renewal, revocation | expiry against renewal |
| delay node (`nodes/core/delay.go`) | held messages, rate queue, reset signal, counter | hold, flush, reset, rate worker, `Stop` | timer, flush, reset, eviction and `Stop` meet at one message |
| state machine node (`nodes/core/statemachine*.go`) | current state, timers, history, persisted state | event, after-timer, restore, `Stop` | a timer that has fired can no longer be cancelled |
| catch and status nodes (`nodes/core/catch.go`, `status.go`, fan-out in `flow/engine.go`) | listener tables under an RWMutex | report, fan-out, register, unregister | the fan-out runs on the reporter's goroutine with the read lock held |
| log buffer (`logbuffer/`) | ring, sequence number | `Add`, `Last`, push | entries reach the panel on two ways |
| MQTT (`nodes/mqtt/`) | subscription tables, pending requests | subscribe, unsubscribe, publish, request | packets leave after the unlock; rollback and reconnect while others join the subscription |
| Modbus, S7 (`nodes/modbus`, `s7`) | one shared connection, its unit, its reconnect window, the last value | read, write, poll, `Stop` | several nodes on one connection, values compared and sent in different steps |
| OPC UA (`nodes/opcua`) | client state, subscription, items by handle, type and schema caches | subscribe, control, rebuild, read, write | rebuild, control and `Stop` release the node's mutex around each server call |
| files (`nodes/filesystem/`) | cursor and folder map in the persistent context | tail, write, watch | the file changes between any two calls; crashes between save and send |
| tcp-request, tcp-out client, udp, framers (`nodes/network/`) | a cached socket, a queue, a reassembly buffer | request, send, redial, `Stop` | late answers, a dial that ends after `Stop`, reads that cut a frame anywhere |
| NATS, scripting, configuration, logging, editor | third-party servers and interpreters | | outside the scope |

Interactions.  The API calls `Engine.Deploy`; the engine calls `Init`, `Start`,
`HandleMessage` and `Stop` of nodes and config nodes, asks the server to swap the
HTTP route table and drains the response registry.  Nodes call back through
`SendFunc`; http-in registers a slot and blocks, http-response completes it from
another goroutine; tcp-in registers sessions that tcp-out resolves by handle.
Status and debug events reach the hub over NATS.

What makes each component correct:

* **engine**: no goroutine sends on a closed channel; a channel is closed once;
  a node has one loop; a config instance outlives its users; what runs between two operations is what was deployed,
  wired to what runs; nothing runs after `Stop`; every deploy returns.
* **responses**: one response per request, written before the handler returns;
  the caller of `Complete` is told what happened; no slot is lost or kept.
* **TCP sessions**: a socket is closed by somebody, a dead session is not offered,
  a stopped node leaves nothing, writers and `Stop` return.
* **persistence**: a file is the old or the new one at every moment; memory and file
  agree after failed saves, roll-backs and restarts; there is one first admin and
  then always an active one; a restart runs what ran; every request is answered.
* **hub**: no send on a closed channel, no double close, no gap in what a client
  sees, both pumps of a dropped client return.
* **nodes**: a held message is sent once or discarded, in order; a state is never
  without its timers and is left by its after-transition; an error is caught once; a
  line of a followed file is sent once and whole; a change of a watched folder is told;
  an answer goes to the request it belongs to; a message is written once or reported, and
  sockets are not piled up; every handler and every `Stop` returns.
* **devices**: a subscription that is held is known to the server; a request has one
  outcome; values are of the unit, item and type they are labelled with; a write reports
  what it did; a change is not lost between comparing and sending.

Not all of these hold in the code.  Section 5 lists what is refuted, and the properties of
section 3 name the exceptions they make.

## 2. The modules

| Module | Models |
|---|---|
| `Workspace` | the workspace as data and `flow/diff.go`: what a partial deploy sees as added, removed, modified |
| `FlowEngine` | `flow/engine.go` |
| `MCFlowEngine` | the workspaces the engine runs deploy |
| `OneShotResponse` | abstract specification: a request is answered once, then its handler leaves |
| `ResponseRegistry` | `flow/response_registry.go` with the http-in handler, http-response branches, sweeper and engine drains |
| `TcpSessions` | `flow/session_registry.go`, tcp-in (server, client), tcp-out (reply, broadcast) |
| `WsHub`, `MCWsHub` | `ws/hub.go` |
| `Persistence`, `MCPersistence` | `storage/storage.go`, the user and certificate store, the handlers that write them, the deploy handler, start-up, migration, shutdown and crash |
| `DelayNode` | `nodes/core/delay.go` |
| `StateMachineNode` | `nodes/core/statemachine.go`, `statemachine_engine.go` |
| `Observers` | `nodes/core/catch.go`, `status.go`, the fan-outs of `flow/engine.go` |
| `FileTail` | `nodes/filesystem/file_out.go`, `file_read.go`, `cursor.go` |
| `FileWatch` | `nodes/filesystem/file_watch.go`, `cursor.go` |
| `TcpRequest`, `TcpOutClient`, `UdpNodes`, `Framing` | `nodes/network/tcp_request.go`, the client mode of `tcp_out.go`, `udp_in.go` and `udp_out.go`, `framing.go` |
| `LogBuffer` | `logbuffer/` with the REST snapshot |
| `MCNodes` | the ten modules above in one run |
| `MqttBroker`, `MqttRequest` | `nodes/mqtt/broker.go` with `in.go`; `request.go` with `out.go` |
| `S7Device` | `nodes/s7/plc.go`, `read.go`, `write.go` |
| `ModbusDevice` | `nodes/modbus/server.go`, `read.go`, `write.go` |
| `OpcuaSubscribe`, `OpcuaIo` | `nodes/opcua/server.go`, `subscribe.go`; `read.go`, `write.go`, the type caches |
| `MCDevices` | the six modules above in one run |
| `FlowEngineProofs`, `FlowEngineLifecycle`, `ResponseRegistryProofs`, `TcpSessionsProofs`, `WsHubProofs`, `PersistenceProofs`, `NodesProofs`, `DevicesProofs` | theorems, section 4 |

### FlowEngine

A `*runningNode` is a pointer `<<id, g>>` into a small heap, so an object that was
replaced and one that runs under the same ID are different things, and an object
nobody refers to can be allocated again (`Fresh`).  Its fields are functions over
the pointers: `def` (config and flow ID), `lw`/`lt` (localWires, localTargets),
`len`/`closed` (inputCh), `stop`, `done`, `held` (the config instance it resolved).
`go[p][k]` are the goroutines of the object: slot 0 is the ticker of a source node,
an HTTP handler or a timer, the others are node loops.

What sends besides the loops comes in three kinds.  `Stop` of a node in `Sources`
waits for its goroutine.  Nobody waits for the handlers of `HttpIn`, nor for the timers
of `Timers`: the after-timers of a state machine past their `done` check
(`statemachine.go:490-548`) and the goroutines of a delay node that a message handled
during `Stop` spawns (`delay.go:289-325`).  `TimerEnter` takes the targets while the loop
lives, `TimerSend` sends whenever it comes to it, also after `Stop` returned.

`Engine.mu` is held by one operation from its first to its last step, so the
operation is a program counter `pc`: `configs` (config nodes are started or
stopped), `pick` and `detach` (the affected nodes leave the maps, the rest is
rewired, the route table rebuilt), `halt` (`Stop` of each instance, then the stop
signals), `await` (all `done` channels), closing of the input channels, `build`
(instantiation and wiring), `start` (each node's `Start` and loop), `down` (end of
`Stop`).  Every one of these steps interleaves with the node goroutines.  A loop
first looks a target up (`LoopRoute`) and then sends (`LoopSend`): the lookup and
the send are two steps in the code as well, and the finding on closed channels
lies between them.  A partial deploy stops config instances before the nodes that use
them, a full one after.  A send never blocks: a full channel drops the message.  A
panic of a node goroutine ends the process (`Fatal`); one inside an HTTP handler
is recovered by the server and recorded apart.  Map accesses of the running loops
are atomic here; the code reads `localWires` and the link registry without a lock
while a deploy writes them.

Node contents are a version number, a config reference and a set of wires; the
diff compares those.  A creation or `Start` of a member of `Flaky` may fail.  A second
`Start` of a running source in a "flows" deploy makes a second ticker in the code; here
the two are one (`StartOK`), the second loop of the same `Start` being what
`NoDoubleClose` is about.

### ResponseRegistry and OneShotResponse

Per request: whether its slot is in the map, its `sync.Once` (`open`, `busy`,
`done`), who wrote, whether `done` is closed, where the handler stands and where
each branch stands in `Complete` (looked up, writing, deleting).  The sweeper and
the drain first take their victims out of the map and then complete them one by
one, as in the code.  `Engine.Stop` and deploys are `Swap` (the route table), then
`DrainAll`, then, for a stop, the end of the sweeper.  `Panics` are requests whose
handler may panic in its send, on a channel a deploy has closed: the `Recoverer`
middleware (`server.go:258`) writes a 500 and the request is over, but its slot stays in
the map and whoever takes it writes to the same `ResponseWriter`.  `writes` counts both.
The abstract request may end the same way (`Fail`) and be answered all the same, by one
party; the refinement maps a finished `Once` to the answer:
`ImplementsOneShot`.

### TcpSessions

Per connection: in the map or not, `owner`, the `Closed` flag, the socket, and the
stage of its goroutine (accepted, spawned, reading, closing, teardown, done).  Per
tcp-in node: life cycle, what the accept or client loop has in hand, the connection
count and the victims of `CloseByOwner`.  Per tcp-out node: the sessions still to be
written to and the steps lock, write, close, teardown.  A connection names its slot
because handle IDs are fresh.  Only the peers of `Polite` hang up by themselves.

### WsHub

`run` says whether the loop is at its select, in the range over the clients (read
lock held), between the two locks with a slow client, or returned.  `DisconnectUser`
runs whenever the range does not hold the lock.  `taken`, `since` and `wire` are
history variables for `NoGap`.  A client is in turn registering, registered,
reading, leaving (blocked on unregister), closing, gone.

### Persistence

`disk` holds the three files, `mem` the copies of the user and certificate store,
`fsMu`, `storeMu` and `setupMu` the mutexes, `srv` where the process stands (down, the
stages of `New` and `Start`, up, draining), `engine` whether the engine runs and what.
`job` gives each serving goroutine its request and how far it has come: setup lock and
count, reference scan, store lock, file lock, temporary file, rename, saved or failed,
and for a deploy the engine's stop, start and deploy.  A record of a user is its role
and whether it is disabled, a certificate a version, a workspace the certificates it
names and the state of its OPC UA configuration: what the stores decide on.

The user store writes the file before it changes memory, the certificate store changes
memory first and rolls back; both orders are kept.  The update handlers carry the copy
they read when the request arrived.  Every step of `atomicWriteFile` may fail.  `Crash`
may follow any step and loses everything but `disk`; it is the end of the process, not
of the machine: a rename is durable once it returned (the code syncs the file and not
the directory).  `founders`, `deleted` and `orderly` are history variables.  A request
for a read takes and releases a read lock at once, so it is a guard here; sessions,
cookies and hashing are left out, so every request is one of an authorised client.

### The nodes (`MCNodes`)

The components of `MCNodes` share no state, so a behaviour is one of one of them,
chosen initially in `part`; the others keep an initial state.  The state spaces add up
instead of multiplying, and every part is explored with its own bounds.

* **DelayNode**: where each message is (`dlAt`) and its goroutine (`dlGo`); the captured
  reset signals; the rate queue and its worker; the counter and what the editor was
  last shown.  The loop hands a message over in the code's steps, so that a flush, a
  reset or `Stop` comes between counting, spawning and sending.
* **StateMachineNode**: current state, timers by delay (armed, expired, waiting for the
  mutex), history and persisted state.  A machine definition is a constant; what a
  guard answers is a choice.  `Start` arms timers one by one, without the mutex.
* **Observers**: threads that report, each inside a fan-out with the read lock, a deploy
  that wants the write lock and lets no new reader in, and the branch behind the
  observers that reports in turn.  A message carries how often it was caught and told.
  The goroutine that resets the status of a catch node reports a status of its own, which
  fans out like any other; one such goroutine is under way at a time.
* **FileTail**: a file of numbered bytes, a writer that appends, truncates or creates,
  and a reader in its steps stat, load cursor, read, save cursor, send.  The cursor
  survives a crash, the steps do not.
* **FileWatch**: modification times of files, pending reports, the stored map, and a loop
  that waits out a burst, scans, sends and saves.  A time is its number and its
  RFC3339Nano text, and the code compares texts; scan, load and save may fail, and the
  failed scan is taken for an empty folder; `watchEvents` masks what is told.  `fwMissed`
  collects the files of which a change was missed in one of these ways.
* **TcpRequest**: connections with requests and late answers on them; one retry on a new
  connection when a reused one fails.  **TcpOutClient**: queue, worker and `Stop`.
  **UdpNodes**: sockets of udp-out by number, reader and `Stop` of udp-in.
* **Framing**: one step per chunk and per turn of `Append`'s loop.  **LogBuffer**: the ring;
  entries pushed to the hub after the unlock, in any order; a hub that drops what finds its
  channel full and logs a warning about it; and a panel that subscribes, waits for the
  snapshot, merges what it staged and takes a number not above its last one for a
  duplicate.  The panel's limit of rows is left out.

### The devices (`MCDevices`)

The same construction for the nodes that share a connection.

* **MqttBroker**: the tables `mqMux` and owners under the mutex, packets on their way
  outside it, the server's subscription per topic, failures, drops, reconnect.
  `mqRaced` records that two packets could pass each other or one failed, `mqMixed` the
  topics that were held with two option sets: only then may table and server differ.
* **MqttRequest**: the pending map, the one-shot subscription and the outcomes of each
  request; router, timers, message loop and `failAllInflight` meet there.
* **S7Device**: the connection with its reconnect window and mutex; calls in chunks, rows
  of results, last value and what was sent.  The PLC, like the config nodes of Modbus and
  OPC UA, may be stopped before the nodes that use it, and a call then connects again.
* **ModbusDevice**: the transport's unit, set and used in one critical section; values
  carry the unit they were read from.
* **OpcuaSubscribe**: the server's subscriptions and items against the node's, handles,
  rebuilds, control messages and late notifications.  `uaLost` records an update that was
  lost: refused by the server, overlapping with another or with `Stop`, or a rebuild that
  dropped out for one that is not as good (`UaCurrent`).  **OpcuaIo**: rows of reads and
  writes in which single entries fail, the type cache and its reset.  A write is submitted,
  applied by the server and answered in three steps, and may fail after any of them; one
  that is applied after its caller gave up is the same as one applied just before.

## 3. The runs

| Run | Instance | Checks |
|---|---|---|
| `engine_full` | 3 nodes, one of them a source and one with timers, 1 config node, 2 objects per ID, full deploys of 3 workspaces, a node that may fail | `TypeOK`, `FullDeploySafe`, `ConfigOutlivesUsers`, `OperationReturns` |
| `engine_nodes` | 2 nodes (one http-in), 2 objects per ID, config node in two versions, "full" and "nodes" deploys | `GoroutinesAccounted`, `RunsWhatWasDeployed`, `NoStaleConfig`, `UnchangedNodesKeepRunning` |
| `engine_flows` | 2 nodes on two tabs, "full" and "flows" deploys, a tab that is disabled or removed | `RunsWhatWasDeployed` |
| `registry_race` | 2 requests (one with a timeout, one whose handler may panic), 2 branches, stops and deploys | `ExchangeSound`, `SlotsKept`, `ImplementsOneShot`, `TimedRequestReturns` |
| `tcp_sessions` | 2 connections, one of a peer that never hangs up, a server, a replier, a broadcaster, a limit of one connection | `SessionsSound`, `NobodyHangs` |
| `ws_hub` | 2 clients of two users, 2 events, capacities of one | `ClosedOnce`, `StreamsWhole`, `PumpsReturn` |
| `persistence` | 2 goroutines, 2 users, 1 certificate, 2 workspaces | `TypeOK`, `ServesWhatIsStored`, `AdminRule`, `RequestReturns` |
| `nodes` | each of the ten parts of `MCNodes` | `NodesTypeOK`, `DelaySound`, `SmSound`, `ObSound`, `FtTailExact`, `FwMapCurrent`, `TrSound`, `NetworkSound`, `StreamsSound`, `NodesReturn` |
| `devices` | each of the six parts of `MCDevices` | `DevicesTypeOK`, `MqSound`, `RqSound`, `S7Sound`, `MbRightUnit`, `UaSound`, `IoSound`, `DevicesReturn` |
| `nodes_send_on_closed` | 3 nodes in a chain, "nodes" deploys | violates `NoSendOnClosed` |
| `flows_double_close` | 2 tabs, "flows" deploys | violates `NoDoubleClose` |
| `tail_never_emits` | file-out and file-read as in `nodes` | violates `FtTailFromEnd` |

A property of a run is often a conjunction of named parts, defined above it in the
module: `GoroutinesAccounted` is one loop per node, `done` closed once, no orphan,
nothing after `Stop`; `FullDeploySafe` no send on a closed channel by a goroutine that is
waited for (loop, source, trigger), although timers run late, `done` closed once, no orphan;
`RunsWhatWasDeployed` is the node map, the wires and the route table; `ExchangeSound` is
one response, two at most of a request whose handler panicked, none after the handler
returned from its wait, a truthful `Complete`; `SlotsKept` no
lost and no leaked slot; `SessionsSound` no dead session, no leaked socket, nothing of a
stopped node, "unknown" only of the closed; `NobodyHangs` that writers return, and `Stop`
too unless it waits for a session that registered too late and whose peer is silent; `StreamsWhole` types and no gap; `ServesWhatIsStored` memory, files and engine.
`PROJECT.json` has a mutant for every property and for most of the parts.

**Bounds.**  A property of the engine needs a sender, a receiver and an operation
that treats them differently: two or three nodes, and two objects per ID where a
partial deploy lets an old and a new one coexist.  `Gen` bounds the heap: an object
is reused only when nothing reaches it, so the bound limits how many old objects
live on at once, not how often one deploys; deploys themselves are not bounded.
`MaxLoops = 2` is enough to see a second loop.  Channel capacity 1 makes the full
channel frequent.  Two requests suffice for the response registry because slots
share only the map and its lock: one is answered while the other is swept or
drained; two branches race for each.  Two connections and one writer of each kind
let every pair of closers meet, and a limit of one connection makes the second one
rejected or accepted.  In `Persistence` two requests
meet at every pair of steps, and two users are the least with which the last admin can
be lost to a stale copy.  A behaviour takes its requests from one of two groups
(`Traffic`): users; deploys and certificates.  Requests of different groups share only
`fsMu`, whose holder never waits.  The deployed workspaces have no certRef of their own,
so the only one is the migration's.  For the hub, two events and capacity one make a client slow
at the second event.  The limits of the proved
properties are lifted by the theorems of section 4.

In `Nodes.cfg` and `Devices.cfg` a bound is the least at which the case of the hazard
occurs.  Two messages and a rate queue of one make the delay node queue, evict and
reorder; two late timers of the state machine meet two transitions.  One report, two
deploy operations and a branch inbox of one let a writer wait between two fan-outs.  Two
writes, three reads and one crash are a truncation seen late and a read repeated after a
restart; two files with three times, of which two are in another order as text, a change
during a scan, with one fault and with removals told or not.  Two calls and two faults of
tcp-request are a retry whose connection is used again; three messages of tcp-out a
redial with one queued.  Seven bytes in chunks of one to four cut every framer's header,
delimiter and body; a ring of two with four entries of two loggers wraps and overtakes.  Two mqtt-in nodes with
two option sets of one topic share and split an entry, with one failure and one lost
connection; two requests of mqtt-request cross a drop.  Two variables make two chunks of
an S7 call, and `S7Budgets` two reads, or a read and a write, with one failure; two units and three calls interleave Modbus nodes of different units.
`UaBudgets` gives opcua-subscribe two control messages, or one and a fault; the lists of
`OpcuaIo` put failing entries of every kind before good ones.

**Fairness.**  The Go scheduler runs every goroutine that stays runnable: weak
fairness of each goroutine's steps.  `select` picks at random among its ready cases,
so a case that is ready again and again is taken: strong fairness where a stop
signal or an unregister competes with messages.  `sync.Mutex` hands a contended lock
over (its starvation mode), hence strong fairness of the writers
and of the steps of a request.  Nothing obliges a
client to send a request, a flow to answer, an operator to deploy, a timer to send, or a
peer to hang up; only the peers of `Polite` do, and one of the two is not.  The hub's events are bounded by `MaxEvent`, so a
behaviour cannot postpone an unregister by broadcasts alone; strong fairness makes
that irrelevant.  In `nodes` and `devices` the fairness is that of the
part that moves: a goroutine inside a handler goes on, deadlines and timers pass, a
burst of file reports ends, a `Stop` goes on once it has begun.  Messages, faults,
crashes and the peers' answers are never owed, but a request to an OPC UA server is
answered or times out; where a node must react to what its
client library delivers (`RqRouterStep`), delivery is the library's goroutine.
`CHECK_DEADLOCK FALSE` is set where the system may come to rest: after a panic in the
engine runs, in the hub when no client is left to act, and in `nodes`
and `devices`, whose parts rest when their messages are used up; that they rest only
when nothing is pending is what `NodesReturn` and `DevicesReturn` say.

## 4. What is proved

Every invariant of a passing run, the action property of the engine runs and the
refinement are theorems.  They hold for every value of the constants under the assumption
of the module (`EngineAssumption`, `SessionAssumption`, ..., and one for each node and
device module: bounds and counters are natural numbers, capacities positive, tokens
distinct, machine definitions and byte sequences of the right kind).  TLC evaluates these
assumptions in the runs.  Where a theorem needs more, the hypothesis is in its statement
and named below.

An argument has the same shape everywhere: an inductive invariant, a lemma per action that
it is kept, a theorem.  The properties were checked with TLC before they were proved.
Theorems about a specification whose fairness is part of it use its safety part only.

* `FlowEngineProofs!TypeCorrect`: type correctness; `Engine.nodes` stays a map.
* `FlowEngineLifecycle`: `OneLoop`, `DoneClosedOnce`, `NoOrphan`, `StopQuiets` and their
  conjunction `LifecycleSound` for an engine that deploys in "full" and "nodes" mode
  (`"flows" \notin Modes`), and `JoinedSendersFinish` and with it `FullDeploysSafe` for
  one that deploys in "full" mode only.  The conditions are necessary: the violation
  runs refute the properties outside them.  The
  invariant `LifeInv` says, for each `pc`, which objects the operation works on
  (`Progress`), that running nodes belong to the workspace the operation reads and
  a "nodes" deploy has detached what it replaces (`Deployed`), and that a loop runs
  only while `done` is open and for an object that is in the map or being stopped
  (`Lifecycle`).  None of the properties is inductive alone: that `done` is closed
  once rests on there being one loop, that on the started objects being fresh, and
  that on the detaching.  `Routed` adds where messages go in full deploys: whatever a
  loop, source or trigger holds to send to is in the map, and what is in the map is open.
  Of timers and handlers nothing of the kind is true, and nothing is claimed.
  `ConfigStoppedLast` is `ConfigOutlivesUsers` for full deploys: `Holders` says that only an
  object in the map that has not been stopped yet refers to a config instance.
* `FlowEngineProofs!DeploysFaithfully`: `RunsWhatWasDeployed` in all three modes, if in an
  engine with "nodes" deploys no node changes its tab or lies on a disabled one (`TabsStay`).
  The property speaks of the engine between operations only; `DeployInv` says what each
  step of a deploy has kept: what still runs is as the old workspace defines it, a
  "flows" deploy has taken every flow that differs (`Covers`) and nothing but what it
  spares is left in the map when it builds, a "nodes" deploy has taken exactly the removed and modified nodes.  The
  lemmas on `DiffWorkspaces` turn "not in the difference" into "the same definition in both
  workspaces".
* `FlowEngineProofs!ConfigsStayFresh`: `NoStaleConfig`, if every reference names a config
  node of its workspace (`RefsResolve`) and, with both partial modes, `TabsStay`.  A restart
  of a config node takes its dependents along because `ExpandConfigDependents` follows the
  references of the new workspace.  `UnchangedKeepRunning`: the action property
  `UnchangedNodesKeepRunning` under the same condition on tabs.
  The hypotheses of these theorems are needed: section 5 has the instances on which TLC
  refutes the properties without them.
* `ResponseRegistryProofs`: `WritesOnce`, `WriterOwned`, `Truthful`, together with the types
  `ExchangeIsSound`; `SlotsAccounted` (no slot lost, none leaked) and
  `Refinement` (safety part of the one-shot response: initial states map to initial
  states, every step to a step or a stutter).  The invariant ties the `Once` to its
  writer and to the party that holds the slot outside the map (sweeper's `expired`,
  drain's `victims`, a branch in `delete`).  A request whose handler panicked has
  Recoverer's response and at most the one of its slot.
* `TcpSessionsProofs`: `SlotsAreRead`, `SocketsClosed`, `StopLeavesNothing`,
  `UnknownMeansClosed`, together with the types `RegistrySound`.  The invariant counts who is about to close a connection that
  has left the map, ties a node's life cycle to its loop and readers, and describes
  what a writer knows of the session it holds.
* `WsHubProofs!ChannelsClosedOnce`: the channel discipline, from the fact that only a
  client that has passed registration is listed.  `StreamsAreWhole`: no client sees a gap,
  for any capacities, clients and events.  `StreamInv` follows the range of the loop: whom it
  has served holds everything taken from the queue since it registered, whom it has not
  lacks just the last event, so a client that is dropped for a full queue ends with a prefix.

* `PersistenceProofs`: `TypeCorrect` and `AdminRuleHolds`, for any number of requests,
  users, certificates and workspaces.  `AdminRule` is not inductive: `AdminInv` adds
  that a mutex is held exactly by the request between its lock and its unlock
  (`UserLocks`), that memory is the file but for the record of the one request whose
  file is written (`UsersAgree`), that what a request was admitted for under the lock is
  still true (`Admitted`), and that a setup past its count is before the first admin
  (`BeforeFirst`).  Steps that are not about users are shown to be `Quiet` once and for
  all, so that the rest of the argument has eleven cases.  `ServesStored`: what memory and
  engine serve is what the files say.  `CertInv` adds the same for the certificates, whose
  store changes memory first and carries the old entry for the roll-back (`CertsAgree`), and
  that the certificate of a migration is stored before its reference (`RefKept`); `EngineInv`
  says how far the one deploy of an `orderly` behaviour has brought file and engine.

* `NodesProofs`, about the parts of `MCNodes`, each for its own specification:

  | Theorem | Property | The invariant adds |
  |---|---|---|
  | `DelayIsSound` | `DelaySound` | `DlInv`: a message is in one place, which the loop's, the worker's and its goroutine's steps determine; the counter is what is held or queued, plus what has left and is not uncounted yet, less what is in the channel before it is counted; as long as no control message came, numbers rise from the output over the worker and the queue to the loop |
  | `MachineSound` | `SmSound`, `SmTypeOK` | `SmInv`: the history is a chain that ends in the current state, and a state has its timers armed, being armed, or due |
  | `ObserversSound` | `ObSound` | `ObInv`: what the tables hold in the middle of a registration, that the writer is the deploy, that only a message nobody caught is in a fan-out of errors, and that the message whose status a reset tells is one that was caught no more than once (`ObShows`) |
  | `TailIsExact` | `FtTailExact` | `FtInv`: what was sent, with what the read in hand will send, is the file up to the cursor it will store |
  | `WatchIsCurrent` | `FwMapCurrent` | `FwInv`: per file, how told, stored and scanned times lie in each phase, for any texts of the times, masks and faults, unless the file is in `fwMissed` |
  | `RequestsSound` | `TrSound` | `TrInv`: who holds each socket at every step of a call, and (until a second attempt fails, the terminator not being a time) that nothing is to come on a connection that may be used again, and only its own answer on one that is being read |
  | `NetworkIsSound` | `NetworkSound` | `ToInv`: sent, queued, in hand and reported messages partition those handled, in rising order, and an open socket is the stored one or about to be; `UdInv`: with `reuseSocket` an open socket is the cached one or that of the call, and a `Stop` of udp-in that returned has left none |
  | `StreamsAreSound` | `StreamsSound` | `FrInv`: frames put back on the wire with what is held are the input; `LbInv`: which entry each place of the ring has, and that an entry behind the snapshot is in the panel, still with its logger, on its way through the hub or staged, or was dropped or overtaken |
  | `NodesTyped` | `NodesTypeOK` | the conjunction of these, and the bounds they leave open: lengths against capacities, listener ids against those given out, bytes against those written |

  Only `part` moves, so a step of `NodesSpec` is a step of each part or leaves it alone
  (`NodesMove`, `NodesMoveEach`).
* `DevicesProofs`, about the parts of `MCDevices`:

  | Theorem | Property | The invariant adds |
  |---|---|---|
  | `SubscriptionsSound` | `MqSound` | `MqInv`: an entry exists while it has a handler; unless packets raced or the topic has two option sets, an entry is subscribed at the server or its packet is on the way, alone |
  | `RequestEndsOnce` | `RqSound` | `RqInv`: a request is held by one of map, router, timer and the two failing loops, and while it is held its flow was told of no end |
  | `PlcIsSound` | `S7Sound` | `S7Inv`: a call on the wire has mutex and connection; what is being sent differs from what was sent last and is what is remembered; rows of a write and what was applied agree in every chunk; no order of the stops of PLC and nodes is assumed |
  | `RightUnit` | `MbRightUnit` | `MbInv`: the mutex is held between lock and unlock and once the unit is set the transport addresses it; what a reader is about to send it has just remembered |
  | `ItemsStayMonitored` | `UaSound` | `UaInv`: what a rebuild or a control message has done to the server at each step, that the last report of the library is how the session is, that a rebuild which others may rely on has the items of now (`UaMaking`), and that no subscription is forgotten unless an update was lost |
  | `RowsAndRecordsSound` | `IoSound` | `IoInv`: nothing is applied before the server served the request, and no row is good before it answered; unless a lookup was crossed, caches are of the session there is and a marked structure is known or about to be |
  | `DevicesAreSound` | `DevicesTypeOK` and all of these | the conjunction |

The prover has no induction over numbers: where an argument needs a least or a greatest one
(the first delimiter, the last newline) it takes a minimal element of a set of naturals
(`WFMin`).

What the proofs taught about the model: the ghost `ftLost` of `FileTail` has to be set by an
open that truncates as well; what a framer still holds is bounded only until an error, which ends the
connection; the migrated reference is a promise about a workspace the server wrote, not one
a client deployed; and the lists that the S7 and OPC UA nodes build from their variables
are in the order of the variables, which is why a row can be matched to its answer.

Only model-checked: everything temporal (`OperationReturns`, `TimedRequestReturns`,
`NobodyHangs`, `PumpsReturn`, `RequestReturns`, `NodesReturn`, `DevicesReturn`, and the
liveness of the one-shot response), since the prover does neither fairness nor `ENABLED`.
Goroutines, channels and the life of config instances under the partial modes that the
theorems exclude are not safe in the code, as section 5 says.

## 5. What the model says about the code

1. **A "nodes" deploy can send on a closed channel** (`engine.go:863`).  A loop that
   looked its target up before the rewiring sends after the channel was closed, and
   the panic ends the process.  In full deploys the loops, sources and triggers are
   proved free of it; timers and HTTP handlers, which nobody waits for, are not free of it
   in any mode.
2. **A "flows" deploy starts a second loop** for the nodes of the flows it leaves alone
   (`engine.go:797`); both close `done` when the node is stopped.
3. **An incremental file-read with `fromStart=false` never sends** (`cursor.go:93`): with no
   stored cursor every read starts at the end of the file, finds nothing new and stores
   nothing.  The documentation says that the cursor is pinned at the start.

Statements of the same kind that TLC refutes as well, with the constants to repeat it;
each is a definition of its module and says in its comment what happens.

| Definition | Refuted with | What happens |
|---|---|---|
| `FlowEngine!NoOrphanGoroutine` | `Workspaces <- WsMove`, `Modes = {"flows", "nodes"}`, 2 nodes, 2 objects | a node moved between tabs by a "nodes" deploy keeps its old flow ID; the next "flows" deploy does not find it (`engine.go:877`) |
| `FlowEngine!RunsWhatWasDeployed` | `WsMove` or `WsFlows`, `Modes = {"full", "nodes"}` | a "nodes" deploy keeps a moved node with its old flow, and does not look at whether a tab is disabled |
| `FlowEngine!NoStaleConfig` | `Workspaces <- WsGone`, `Modes = {"full", "nodes"}` | the removal of a config node does not restart the nodes that still name it |
| `FlowEngine!NoSendOnClosed` | `EngineFull.cfg` | in a full deploy too, a timer that the node's `Stop` does not wait for sends to a neighbour whose channel is closed (`engine.go:917`) |
| `FlowEngine!ConfigOutlivesUsers` | `EngineNodes.cfg` | a partial deploy stops config instances before their users (`engine.go:393`, `475`), against `config_instance.go:12` |
| `ResponseRegistry!OneResponseAlways`, `NoWriteAfterEnd` | `RegistryRace.cfg` | a handler that panicked got a 500 from `Recoverer`, and its slot is still answered |
| `ResponseRegistry!HandlerReturns` | 1 timed request, 1 branch | a handler that registers after `DrainAll` of `Stop`, when the sweeper is gone, waits for ever (`http_in.go:272`) |
| `TcpSessions!StopTerminates` | `TcpSessions.cfg` | a connection registered after `CloseByOwner` is not closed from this end; the deploy waits for the peer (`tcp_in.go:287`) |
| `UdpNodes!UdOneSocket` | `Nodes.cfg` | without `reuseSocket` the deferred close is applied to `n.conn`, which was never set |
| `TcpOutClient!ToStopCloses` | `Nodes.cfg` | a dial that ends after `Stop` closed the stored connection is stored and stays open |
| `TcpOutClient!ToOverride` | `Nodes.cfg` | with a configured address the worker writes messages with a host of their own to it as well, against `docs/nodes/tcp-out.md:18` |
| `Observers!ObNoStatusLoop` | `Nodes.cfg`, `ObGens = 2` | a node behind a status node that shows a status per message triggers it again |
| `TcpRequest!TrAlwaysOwnAnswer` | `Nodes.cfg`, `TrCalls = 3`, `TrDests = {"p"}`, `TrTerms = {"exact", "time"}` | when the second attempt times out its connection stays cached, and the next call reads the late answer |
| `FileWatch!FwRemovalsTrue` | `Nodes.cfg` | a scan that fails is taken for an empty folder: every file is told as removed, and the map is saved empty (`file_watch.go:351`) |
| `FileWatch!FwFindsTold` | `Nodes.cfg` | times are compared as RFC3339Nano text, whose order is not that of time when digits are dropped: a change goes into the map and is not told (`file_watch.go:427`) |
| `LogBuffer!LbNeverLost` | `Nodes.cfg` | an entry pushed after a later one is taken for a duplicate by the panel (`TerminalLogPanel.vue:85`), and the hub drops when its channel is full (`hub.go:267`) |
| `LogBuffer!LbDropEndsThere` | `Nodes.cfg` | the warning about a drop is an entry that is pushed and dropped in turn, against `cmd/loopze/main.go:88` |
| `ModbusDevice!MbStatusRecovers` | `Devices.cfg` | after an exception the node stays red although reads succeed again: the server, green all the time, reports no change |
| `OpcuaSubscribe!UaOneConsumer` | `Devices.cfg` | notify channels are never closed, so that the consumer before a rebuild stays |
| `MqttBroker!MqEachOptionSet` | `Devices.cfg` | of two option sets of one topic, used one after the other, the unsubscribe of one removes the topic of the other, against `broker.go:397` |
| `MqttBroker!MqAllServed` | `Devices.cfg` | the unsubscribe of one node passes the subscribe of another; the table has an entry the server does not know |
| `S7Device!S7StoppedQuiet` | `Devices.cfg` | a call of a node that is not stopped yet connects the stopped PLC again (`plc.go:308`) |
| `OpcuaSubscribe!UaCoalescingSafe` | `Devices.cfg` | a rebuild that began before `Start` was through makes the caller of `Start` drop out and ends without a subscription, against `subscribe.go:457` |
| `OpcuaSubscribe!UaStopLeavesNone` | `Devices.cfg` | a rebuild that meets `Stop` stores its subscription after it (`subscribe.go:513`) |
| `OpcuaIo!IoRowsExact` | `Devices.cfg` | the server applied a write whose answer was lost; its row is BadCommunicationError (`write.go:386`) |
| `OpcuaIo!IoTypesAlwaysFresh` | `Devices.cfg` | a lookup answered before a reset stores its type after it (`server.go:590`) |
| `MqttRequest!RqStatusTruthful` | `Devices.cfg` | `failAllInflight`, or a timeout, turns the node green while the connection is down |
| `OpcuaIo!IoNoDataLost` | `Devices.cfg`, `IoShape = "by-name"`, the list `<<"a", "b", "s">>` | the counter suffix of one name collides with another record's name |
| `Persistence!DeletedUnreferenced` | `Persistence.cfg` | the scan for references looks at "tls" blocks and not at the certRef of OPC UA configurations, and a deploy may come between scan and delete, against `cert_handlers.go:101` |

Met while modelling and kept under `hazards`: `stopAllNodes` returns before it stops
config instances when no node runs; the connection limit of tcp-in is checked and
counted in different goroutines; `Server.Shutdown` does not stop the hub although its
comment says so; of two overlapping deploys one may be saved last and the other run last
(`ServesWhatIsStored` speaks of `orderly` behaviours for that reason); the copy that
`handleUpdateUser` or `handleSetPassword` writes back can undo a change of role made in
between, though never the last active admin; a restart request in flight starts the
engine again after `Shutdown` stopped it; a state machine's timer that fired late is taken
for one of the new state if that has an after-transition with the same delay.

## 6. Not modelled, and abstractions

* Message contents, formats, headers, CORS, logging, status texts, metrics.
* Torn or stale reads of unsynchronised maps in the engine: map reads are atomic.
* Route conflicts reported by the mux builder; link nodes (resolved like wires).
* `SessionRegistry.CloseAll`: `SessionsSound` shows that it has nothing to do.
* Idle and read timeouts of TCP beyond "the read ends"; back-off delays and all other
  durations: a timer may be due at any moment.
* Power loss during a save; the read-only API handlers; sessions and the login throttle.
* How `isS7TransportError` tells errors apart by their text: the model knows which of them
  end the connection.  Errors that the OPC UA nodes ignore when they unmonitor or cancel.
* The origin check of the hub; pongs and deadlines are `PeerGone`.
* Nodes that transform one message and keep nothing (function, switch, change, template,
  most parsers) and http-request, which is one library call per message.
* Codecs, address parsers, coercion and browsing of Modbus, S7 and OPC UA; the length
  headers of the framers longer than one byte.
* The scripts' side of the state machine: context, assignments, action messages.
* Third-party code (NATS, gorilla, paho, goja, yaegi, gopcua) and the browser editor.

## 7. Plan

What remains, by weight for the system:

1. **An abstract specification of subscriptions** ("every subscriber is served") that
   `MqttBroker` without racing packets implements.
2. **Auth**: session expiry and renewal, login throttle.
3. **Algorithms** against reference definitions over bounded inputs: topic matching, S7
   addresses, Modbus and S7 codecs at the edges of their widths, CSV records.
4. link-call's return paths, context-watch, http-request.
