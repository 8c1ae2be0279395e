# Verification of the runtime-aware orchestration daemon

TLA+ specifications, TLC runs and TLAPS proofs for the node daemon in
`src/daemon` and the eBPF programs it loads. The daemon runs as a Kubernetes
DaemonSet, one process per node. It loads eBPF programs, aggregates their events,
serves a REST and WebSocket API, exchanges metrics and messages with the daemons of
the other nodes, and scales Deployments by rules kept in MongoDB.

`PROJECT.json` lists the runs, the definition-to-source map, the mutants that show
each property can fail, the hazards, the findings and the theorems.

## 1. Inventory

Paths are relative to `src/daemon/pkg` unless they start with `src/`.

### Scaling (`scaling/`, `api/scaling.go`, `api/pod_actions.go`)

* **State.** In MongoDB, one document per rule (condition, action, step, bounds,
  `enabled`, last-action status). In every daemon, a copy of the enabled rules
  (`scalingController.rules`), and three goroutines: the main loop (ticker and
  `trigger` channel of capacity one), `refreshRulesLoop` (ticker, 10 s) and
  `watchRuleChanges` (change stream through an events channel of capacity one). In
  Kubernetes, the Deployment with its replica count and resource version.
* **Operations.** Create, update, toggle, delete a rule; refresh the copy; evaluate
  (measure, get the Deployment, decide, update it, write the status); scale by hand.
* **Hard.** No leader: all daemons scale the same Deployments. Rule copies go stale;
  the copy is read outside its lock; a toggle is two Mongo commands; the status is
  written after the update; a lost reply looks like a failure; the stream may be
  refused (standalone MongoDB, as in `src/k8s/mongo.yaml`) or end for good; `int32`
  arithmetic.
* **Correct means.** Every change of the replica count is one decision on the count it
  replaces; counts stay within the rules' bounds; caches converge on the enabled
  rules; a lasting breach is answered; deleted rules and
  concurrent edits are not undone; arithmetic clamps as documented.

### Peer communication (`comm/comm.go`)

* **State.** Peer addresses and the name/address maps, send and receive counters, a log
  of the last 200 entries, registered handlers.
* **Operations.** Refresh the peers from Kubernetes or from a file; broadcast, unicast,
  multicast (one goroutine and one HTTP request per target, 3 s timeout, then a log
  entry with a result); receive (count, log, run handlers asynchronously).
* **Hard.** A timed-out request may still be processed; requests of different senders,
  and handlers of one sender, interleave; the three tables are under three locks; peers
  change during a send.
* **Correct means.** A send reported as delivered has reached its targets; log and
  counters agree; every send ends although nodes are dead.

### Metrics federation and stream (`api/metrics_stream.go`, `frontend/src/hooks/useMetrics.ts`)

* **State.** `clusterMetrics`, the latest metrics of each node; the set of WebSocket
  clients and one write lock per client.
* **Operations.** Publish every 5 s (store, push to clients, broadcast to the peers);
  handle a remote update; connect (register, snapshot), push, disconnect.
* **Hard.** Updates carry no sequence number and are handled asynchronously; a client is
  registered before its snapshot is taken and the snapshot is written after it was
  copied; two goroutines may remove the same client.
* **Correct means.** The view of every node, and of every client, converges; no client
  misses the last update for good.

### WebSocket hub (`api/websocket.go`)

* **State.** The client set, one send channel (capacity 256) per client, three hub
  channels. **Operations.** Register, unregister, broadcast, read and write pumps.
* **Hard.** A full channel evicts its client while its pumps run.
* **Correct means.** No channel is closed twice or sent on after it is closed; the hub
  never blocks on a client.

### Routing (`api/routing_rules.go`, `plugins/routing/latency_router.go`)

* **State.** Rules (append-only list), decisions, a ticker in each loop. **Operations.**
  Add and list rules, evaluate them against measured latency, read the decisions.
* **Hard.** Nothing in the code that runs: `startRoutingEvaluator` has no caller, the
  router only logs, and nobody asks `SelectEndpoint`.

### Telemetry collectors (`telemetry/`)

* **State.** Per collector, aggregates and bounded lists of recent events, filled from a
  ring buffer by one goroutine (`dns_latency`, `rtt`, `tcp_metrics`, `sched_latency`,
  `disk_io`), plus `container_mapper` (a PID cache with a 60 s lifetime over container
  and pod tables refreshed on a ticker), `connection_tracker` (connections removed two
  minutes after they were last seen), `service_health`, `nat_metadata`,
  `packet_distribution` and `node_system`.
* **Hard.** Subscribers with bounded channels and non-blocking sends; caches outliving
  what they describe; lookups in tables that are replaced meanwhile; events that are lost,
  also the one that tells of an end; records shared with readers; decoding kernel records.
* **Correct means.** An event is counted once and a reader does not stop a collector; a
  pod shown for an address had that address; a pod named for a process is in the end the
  one it runs in; what is closed is in the end not shown as open.

### Kernel programs (`src/ebpf/component-1-daemon/*.c`) and `loader/`

* **State.** Hash maps from a thread, task, socket or key of a connection to a start
  record or a connection's numbers; ring buffers; a queue depth. **Operations.** One
  handler per probe.
* **Hard.** Maps of bounded size, entries whose closing event never arrives, keys and
  addresses that are used again, one map shared by six probes, handlers of several CPUs
  and interrupts, a ring that is full, probes that could not be attached.
* **Correct means.** A latency is measured from the last start of what it is reported
  for, and once; numbers of a connection were measured on it; what is closed is forgotten.

### Others

Request handlers that only read (`api.go`, `connections.go`, `disk_io.go`,
`pod_details.go`, `pod_logs.go`, `sched_*.go`, `unified_metrics.go`), the Kubernetes and
BCC wrappers (`k8s_client.go`, `ebpf_actions.go`), `cmd/daemon/main.go`, the React
frontend, the manifests and scripts, the example workloads and the kernel headers.

### Interaction

`main.go` loads the programs, starts the collectors, then communication, then the API
(which starts streaming and registers its message handler), then scaling. Collectors feed
the unified metrics, which are published to clients and peers, and, through a metric
event, wake the scaling controller. All daemons meet in MongoDB, in the Kubernetes API
and in each other's `/receive` endpoint.

## 2. Modules

| Module | Models | Uses |
| --- | --- | --- |
| `ReplicaDecision` | `decideReplicas`, `applyDefaults`: the arithmetic of one decision | |
| `RuleLoop` | one rule evaluated for ever by one controller | `ReplicaDecision` |
| `RuleParts` | a rule's arithmetic and the rules' collection, either at a time | `RuleLoop`, `RuleStore` |
| `AtomicScaler` | abstract specification: the replica count changes by whole decisions | `ReplicaDecision` |
| `RuleStore` | the rules in MongoDB, the REST calls, the change streams | |
| `ScalingController` | a controller per daemon, one Deployment, an operator | `RuleStore`, `ReplicaDecision`, `AtomicScaler` |
| `PeerTransport` | known peers, `sendData`, requests, time-outs, restarts | |
| `PeerComm` | REST sends, `/receive`, counters, bounded log | `PeerTransport` |
| `MetricsFederation` | `clusterMetrics` of every daemon | `PeerTransport` |
| `MetricsStream` | clients of `/api/metrics/ws` on one daemon | |
| `WebSocketHub` | the hub, its clients and pumps | |
| `BpfMap` | the kernel's bounded hash maps: update, delete | |
| `Stopwatch` | abstract specification: a report measures from the last start of its key, and no start is reported twice | |
| `DnsPipeline` | the DNS probes, their map and ring, the collector, its subscribers | `Stopwatch` |
| `SchedProbes` | wakeups, switches and run queue latency | `BpfMap` |
| `TcpProbes` | the TCP probes over the life of a socket | `BpfMap` |
| `RttProbes` | connect latency, for any function that makes keys | `BpfMap` |
| `RttKey` | the key the code makes, where two connections may have the same | `Bitwise` |
| `DiskProbes` | VFS calls and block requests over one start map, the queue depth | `BpfMap`, `Stopwatch` |
| `NodeProbes` | the programs of a node, any one at a time | the four above |
| `ConnectionTracker` | the list of connections, its map of pods, its clean-up | `BpfMap` |
| `ContainerMapper` | the pod of a process: PID cache, lookups, list of pods | `BpfMap` |
| `DaemonFlows` | the pipelines of a daemon, any one at a time | `DnsPipeline`, `ConnectionTracker`, `ContainerMapper`, `WebSocketHub`, `MetricsStream` |
| `*Proofs` | TLAPS theorems about the module they are named after and the modules it composes: `ScalingControllerProofs` also about `RuleStore`, `DaemonFlowsProofs` about the five flows of a daemon, `KernelProbesProofs` about the four probe modules and `NodeProbes` | those modules |
| `MC*` | constant definitions for TLC | that module |

Definitions named as a *faulty variant* are not part of any specification. Each replaces
the definition below it in a mutant: with it, TLC finds the property violated.

`RuleParts`, `NodeProbes` and `DaemonFlows` compose parts that share no variable. To the
collection a rule's body is opaque and the arithmetic knows no store (the two meet in
`ScalingController`), the probe programs have maps and rings of their own, and the
pipelines of a daemon do not wait for each other; where one asks another (a collector asks
for the pod of an event) the answer is arbitrary in its own module. Interleaving such
parts would multiply the states and show nothing, so a behaviour of the composition is one
of any single part, and one run checks the properties of all.

### How state and actions correspond to the code

* **`ScalingController`.** `pc`, `todo` and `job` are the main loop: waiting, with a copy
  of the cache, between `Get` and `Update`, and between `Update` and the status write.
  `loop` and `watch` are what the two refreshing goroutines have read from MongoDB and
  not yet stored into `cache`. Kubernetes' resource version is the `fresh` flag of a
  decision: any change of the Deployment, its status included, clears it, and the API
  server takes an update only while it is set. A crash clears everything a daemon
  keeps in memory. The metric is an arbitrary value of a set; a decision only compares it.
* **`RuleStore`.** A Mongo command is one step. `ToggleScalingRule` is two. A rule is
  created under any id that is not in use: the API decodes `_id` from the body of the
  POST, so also under that of a rule that was deleted. Of a rule's status only the replica
  count last set is kept, which a client may send as well. `stream`, `pending` and
  `signal` are a daemon's change stream, the events not delivered yet, and the one-place
  channel.
* **`PeerTransport`.** A slot of `send` is a call of `sendData`; `wire` holds its HTTP
  requests. A time-out moves the target to `failed` and leaves the request to be lost or
  to be processed with nobody waiting. `reached` is a history variable.
* **`PeerComm`.** The receiver counts in one step and logs in a later one, because the
  code takes two locks. `recorded` is a history variable: every entry in the log carries
  which of the daemon's entries it is. Messages are numbered; a REST target is a name or
  an address.
* **`MetricsFederation`.** Metrics are version numbers; `handlers` are the goroutines of
  `dispatchMessage`. The slot of a send is the publishing daemon: it has one loop.
* **`MetricsStream`.** A pusher is the publishing loop or a handler: it stores, lists the
  clients, then writes to each. `view` is the dashboard's copy; `written` a history variable.
* **`WebSocketHub`.** One action per case of `Run`'s select, per step of each pump and of
  the HTTP handler. A rendezvous on an unbuffered channel is one step of both sides.
* **`DnsPipeline`.** `start` is the map `dns_start`; the number of a send stands for its
  time stamp, and `sent` and `counted` are history variables. Each probe is one step, as a
  thread runs one probe at a time and nobody else has its key. `stage` is where the
  collector's goroutine is: reading, counting for a pod, about to notify, or walking
  through the subscribers under the read lock, which keeps `Subscribe` and `Unsubscribe`
  out. The pod of an event is arbitrary, since both tables it is looked up in may be out
  of date. Nothing in the repository calls `Unsubscribe` yet; the model does, as the
  `Collector` interface offers it.
* **`SchedProbes`.** The two programs do not use the same key. `trace_sched_switch` looks
  up the PID of the next task; the wakeup handlers read four bytes at `ctx + 16`, which by
  `src/ebpf/common/vmlinux.h` (lines 142532-142539) are in the middle of the task's name,
  as the PID is at 24. `NameKeys` is the set of numbers such bytes may be, those of tasks
  among them, and each wakeup uses any. A handler is two steps, the reading of the clock
  and the work on the map, with handlers of other CPUs in between; the lock of the task's
  run queue keeps it from being in two tracepoints at once. Differences of times wrap at
  `TimeMod`. `woken`, `since`, `last_ran` and `measured` are history variables. A task may
  be woken while it runs, and a full ring is a choice of `SwitchEnds`.
* **`TcpProbes`.** The kernel's side is the life of a socket: connect, passive open, states,
  samples, retransmissions, close, and free, after which its address may be used again.
  `attached` is what the loader brought up. The record is kept without what identifies the
  connection; the map is shared with the node's other sockets, so a new key may not fit.
* **`RttProbes`.** A connect has a number, which stands for its time stamp. The key is a
  parameter, given the code's exclusive or (`RttKey`) over narrow numbers in the run. What
  the kernel has filled in of the two ends when the connect begins, and which process the
  answer finds, are choices.
* **`DiskProbes`.** `handler` is where an issue or completion handler is between its look at
  the queue depth and its change of it; the rest of a handler is one step, as its entry
  belongs to the thread it interrupts. `links` is what `AttachDiskIOProbes` brought up.
* **`ConnectionTracker`.** `tracking` is the event `TrackConnection` is at: the two lookups
  take the lock of the pod map one after the other, and the list has another lock. The age
  of an entry is counted in the ticks of the clean-up.
* **`ContainerMapper`.** `lookup` is how far a goroutine has got: each look at `/proc` and
  each use of a lock is a step. The age of a cache entry is counted in ticks. `waiting` are
  the listed pods with a container that had no ID when they were listed: `containerHasNetNS`
  asks whether a cgroup contains the ID, and every cgroup contains the empty one, so while
  such a pod is listed `MatchNetNS` may answer it for any process.

## 3. Runs

Every run ends within the bounds given and has no state constraint: the bounds are
guards on the environment's actions (`MaxWrites`, `MaxHand`, `MaxCrashes`, `MaxPending`,
`MaxRestarts`, `MaxSends`, `MaxVersion`, `MaxMessages`, `MaxClock`, `MaxRetrans`,
`MaxConnects`, `MaxStarts`) or sizes of sets.

| Run | Question | Bounds, and why they are enough |
| --- | --- | --- |
| `rule_parts` | Is the arithmetic the documented one? Do toggles, edits, deletions and status writes undo each other? | Arithmetic: `int32` is narrowed to five bits, so that every operator, action and pair of bounds meets the overflow. Collection: two rules, two requests, five writes: each pair of commands can be interleaved |
| `rule_store_toggle` | Does a toggle answered OK flip the flag? **No** | two requests |
| `scaling_race` | Is each change a whole decision on the count it replaces? | two controllers and an operator: a conflict needs two writers; two opposite rule bodies; one edit |
| `scaling_faults` | ... under faults? Do caches converge on the enabled rules? Is a lasting breach answered? | one controller (caches do not interact) and an operator, one restart, one edit and the status writes, two pending events; every call may fail or lose its reply. Decisions are dropped by conflicts with the operator and the status writes; that a second controller does not lead away from the bound is a theorem (`ChangesApproachABound`) |
| `scaling_status` | Is the last action shown the last one? **No** | two controllers |
| `peer_comm` | Are the log and the counters true, does every send end? | two daemons, an address nobody has, two sends at once, one restart, a log of one entry, which both trims and keeps; while Kubernetes fails, the file names nobody alive |
| `federation_converges` | Is no view ahead of the node it is of, and do the views converge? | one publisher (entries of different nodes do not interact), two versions, a restart |
| `daemon_flows` | Does each pipeline of a daemon keep what it promises? DNS: measured from the last send, counted once, no send on a closed channel, a ring that drains. Connections: pods that were mapped, nothing closed shown as open for ever. Processes: answers that come right. Messages: no panic, no gap, no leak. Metrics: no update missed, views that converge | DNS: two threads for a map of one, a ring of two, three sends, two subscribers with channels of one. Connections: one (entries do not interact), two addresses, a ring of one event, expiry after two ticks. Processes: one PID (entries do not interact), two goroutines, a pod with and one without a network of its own, expiry after a tick. Messages: two clients, channels of two, four messages. Metrics: one client (each write has its own lock), two publishers, two versions. Each bounded place can be full and each entry used twice |
| `node_probes` | Is what the eBPF programs report measured on what it is reported for, from the right start, and once? | Scheduler: two tasks on two CPUs, a map of two, names that spell either PID or neither, five tracepoints. TCP: one address used again and again, every probe missing once. RTT: two sockets and keys that collide, three connects, a map of two. Disk: two threads, a map of one, three starts, every probe missing once |
| `sched_wait` | Is a task's wait measured from its own latest wakeup? **No** | two tasks on two CPUs, a name that spells the PID of a task |
| `sched_cpu_time` | Does a sample of a task that has run carry how long it ran? **No** | one task that may run on either of two CPUs |
| `tcp_close` | Is nothing left of a socket that is freed? **No** | one socket, all probes attached |

Runs with `CHECK_DEADLOCK FALSE` (`rule_parts`, `rule_store_toggle`, `daemon_flows`,
`node_probes`, `sched_wait`, `sched_cpu_time`, `tcp_close`) come to an end when the
bounded number of writes, messages, sends, tracepoints or connects is used up.

### Findings

Each violated run states what the repository says and the code does not do; the
counterexamples are explained in `PROJECT.json`.

* Two overlapping toggles flip a rule once (`ToggleScalingRule`).
* With two daemons the last action of a rule may not be the last one (`evaluateOnce`).
* Every connection that is closed leaves an entry in `tcp_connections`: `tcp_close` deletes
  it, and the change of state that follows enters it again (`tcp_set_state_probe`).
* The run queue latency of a task is not measured from its own wakeup: the wakeup handlers
  key their map by bytes of the task's name (`trace_sched_wakeup`, `trace_sched_wakeup_new`).
  What is left true is `ReportedOnce`, whatever the keys are.
* The CPU time in a sample is not that of the task's previous run: each wakeup replaces the
  entry that holds it, and only an entry with a new wakeup is reported
  (`trace_sched_wakeup`, `trace_sched_switch`).

What some passing properties do not say. `StaysPermitted` bounds the count by rules and
operators, and would hold of a controller that acts on a stale count, which
`ScalesAtomically` excludes. `PodsWereMapped` allows the two pods of a connection to come
from different maps. `ReportsAreTrue` is about targets other than the sender.
`MeasuresLastStart` holds although a request may replace the start that a VFS call has
entered on its thread. `AnswersConverge` promises nothing while a pod is listed that has
a container without an ID. The hazards behind them say so in `PROJECT.json`.

More disagreements were met while modelling, with no run of their own.

*Daemon.* A remote update is stored with no comparison of time stamps by a handler that may
be late, so older metrics replace newer ones until the next publication
(`handleRemoteMetricUpdate`); `federation_converges` shows that they do not stay. A large
step overflows and scales up to the minimum (`decideReplicas`). A multicast that selects
its own sender is reported as delivered to it (`sendData`). A snapshot may take a client
back to older metrics until the next update (`sendClusterSnapshot`). `GetConnectionStats`
reads the pod map without its lock. A pod once shown of a connection is never cleared, and
an open connection with no traffic for two minutes is no longer listed. A PID is matched by
its network namespace, so a container of a pod with several is any one of them, and a
process of the node is taken for a pod on the host's network, such as the daemon itself
(`matchNetNSToContainer`). `main.go` logs "Continuing without Disk I/O collection..." and
starts the collector all the same, which then reads from a nil reader.

*Kernel programs.* The key of a connect holds
the target's port, which is not set when `tcp_v4_connect` is entered, so few connects are
found again; after a failure a note may be taken for the socket's next connect. A socket
first met by the RTT probe is entered as established with an unchecked sample, and one that
is opened passively takes over the numbers left at its address. A request that completes in
an interrupt uses up the start of the VFS call it interrupts. A full ring skips the
decrement of the queue depth, and two completions that both see one request left take it
below zero, that is to 2^64 - 1, which the daemon keeps as the maximum: TLC finds this in
eight steps of `DiskProbes`, for which nothing in the repository states a bound.

*Between the two.* The decoders of RTT and TCP records read their fields at offsets that
leave out the padding of the C structures (`rtt_collector.go:147`,
`tcp_metrics_collector.go:325`). `loader.Close` closes neither the TCP nor the disk links.
`nat_conntrack.c` and `socket_count.c` are loaded by nothing.

## 4. Fairness

Weak fairness stands for goroutines that are scheduled and for tickers: a refresh, an
evaluation, a publication, a started write go on. It is strong in three places.

* `ScalingController`: a rule is eventually measured when its pods are listed, and an
  update that conflicts again and again succeeds in the end. Conflicts come from other
  controllers and from status writes, which are not synchronised with this one.
* `MetricsFederation`: of the requests from one daemon to another, some get through. A
  network that loses all of them gives no guarantee.
* `MetricsStream`: the metrics of every node are published again and again, although the
  goroutines that do it take turns.

In `DnsPipeline` only the collector's goroutine is scheduled for certain: threads need not
receive and subscribers need not read, and the ring drains all the same. In
`ConnectionTracker` it is the collector's goroutine and the clean-up's ticker, in
`ContainerMapper` only the clock: a lookup may take for ever. The kernel owes nothing; no
liveness is asked of the probes. `DaemonFlows` takes the fairness of each pipeline, which
asks nothing of a behaviour of another one, as its actions are disabled there; only the
publications of `MetricsStream`, always enabled, are asked for in its own flow alone.

Time-outs of HTTP requests and WebSocket writes make their failures fair. Nothing is
assumed about crashes, refreshes from Kubernetes that fail, clients that leave or
operators.

## 5. Proofs

`tlapm` checks the theorems for every value of the constants that satisfies the
assumptions named in the modules: any number of rules, controllers, daemons, clients,
threads and sockets, any capacities, any width of the integers. Every safety invariant,
action property and refinement that a passing run checks is a theorem; what is left to TLC
is liveness.

The assumptions are those a deployment meets. Nodes and concurrent calls are finite in
number (`TransportAssumption`: sums over them are taken), there are metrics to publish
(`MaxVersion` is positive), capacities are natural numbers, and `IntMax >= 5`.

### Safety

* **`ReplicaDecisionProofs`.** Case analysis on the arithmetic. With positive bounds a
  decision leaves the count alone or ends within them, overflow included
  (`DecisionIsWithin`). Where `current + step` fits, a change brings the count nearer to
  the bound of the action and never past it (`ActionsApproachTheirBound`); where it does
  not fit, `scale_up` ends at the minimum, whatever the maximum (`OverflowEndsAtMinimum`).
* **`RuleLoopProofs`.** Type correctness; the clamped count is the nearest allowed one when
  nothing overflows; steps stay inside and go the right way.
* **`ScalingControllerProofs`, the store.** Type correctness, then two action properties
  from it, one step of the proof per action. A rule that was deleted comes back by
  a creation only (`DeletionIsFinal`): no other command writes a document that is not there.
* **`ScalingControllerProofs`, the controllers.** `TypeOK` and the refinement
  `ScalesAtomically` are not inductive by themselves. The invariant is
  `IInv == TypeOK /\ JobsSound /\ JobInHand`: a decision in hand that is still fresh was
  taken on the present replica count and is what `DecideReplicas` gives for its rule and
  value, and the main loop holds a decision exactly when it is about to use one. With it
  every accepted update is a step of `AtomicScaler` and any other step a stutter, so
  `Spec => Scaler!Spec`; `StaysPermitted` follows with the lemma on bounds, and
  `ChangesApproachABound` with the one on direction. `ControllersUseTheStore` shows that
  each action of a controller or an operator is, on the database, one action of the store
  or none, so what the store promises holds of the whole system (`StoreIsSafeInUse`).
* **`PeerTransportProofs`.** What both uses of the transport need, stated of its actions
  once. `SendInv`: every target of a call but the sender is in exactly one of delivered,
  failed and waiting; who is awaited waits in a slot that still runs the same call; one
  request at most is awaited of a target; a request that was answered has reached its
  target. Then, action by action, by how much the number of sends and of requests being
  handled changes, and that a call only goes forward.
* **`PeerCommProofs`.** `ReportsAreTrue` follows from `SendInv`; `RecordLogInv` carries a
  true entry through the trimming of the log. `LogMatchesStats` (`CountersAndLogAgree`)
  says that all but the messages counted and not yet logged were recorded, and that the
  log holds the last of these in order, by their numbers; `TrimKeepsLast` says what
  trimming does to the numbers. It counts what is under way, so it needs `Books`: the
  requests are finitely many and, as sends are numbered, no two are the same. Then each
  step that counts a message adds exactly one to what is not logged yet, and each that
  logs one takes exactly one away.
* **`MetricsFederationProofs`.** `NobodyKnowsMore` is not inductive, as the metrics a
  daemon will show may still be a request or a handler. The invariant
  `IInv == TypeOK /\ SendInv /\ OnlyReported` says that whatever is shown, under way or
  about to be handled of a node was reported by that node and is no newer than what the
  node's own daemon shows, unless that one has restarted and shows nothing yet; and that no
  update goes to its own sender, so no late one can take back what it has published.
* **`DaemonFlowsProofs`.** Five flows that share nothing, each with its own invariant.
  DNS: `CountedOnce` needs that the entries of the map are numbers neither in the ring
  nor counted, that no two threads have the same (`Fresh`), and that the counted set is
  finite; the refinement `MeasuresLastSend` maps what was counted and what is in the ring
  to the reports of `Stopwatch`, and `Fresh` makes each of them new. `NoSendOnClosed`
  has an invariant of its own: outside a notification nobody is left to notify.
  Tracker: the pods found so far for the event in hand, and those in the map, had its
  addresses at some time. Mapper: what is about to be cached is a pod. Hub:
  a client that `Run` has not registered has an open channel and has received nothing, and
  the messages `Run` has not taken yet are numbered on from the last it took; only with
  these are `NoPanic` and `NoGaps` inductive. Stream: once a client's snapshot was copied,
  the present metrics of each node were written to it, are in that snapshot, or come with
  an update under way.
* **`KernelProbesProofs`.** Type correctness rests on one lemma on bounded maps
  (`UpdateEffect`). For the scheduler, `ReportedOnce` (`WakeupsReportedOnce`) needs that a
  wakeup is in one place at most, one entry, one handler under way or the reported ones, and
  that no time in a handler or an entry is yet to come, so that a difference that wraps is
  above the limit. For the disk, an entry is its thread's last
  start, and with the probes on entry attached one made no earlier than the call the thread
  is in. For TCP, `OwnNumbers` with the types is inductive: a connect writes a new record
  before anything is measured. For RTT, with any function that makes keys, `NotesOK` says of
  a map of notes that each is of a connect of its own socket that was not reported, and no
  two of the same; updates, deletions and the move to another key keep it.

### Compositions

`FlowsAreApart` and `ProgramsAreApart` are refinements: a behaviour of a daemon (a node) is
one of each of its flows (programs). What is proved of a part therefore holds of the whole,
and `DaemonKeepsPromises` and `NodeKeepsPromises` say it for all of them. They justify
that one run checks the parts together.

### The part of liveness that is provable

A convergence property has two halves: the good state is reached, which needs fairness,
and it is not left again, which does not. TLC checks the whole on small instances; the
second half is an action property, proved for all. Each names what must be true of the
state besides the goal, namely what no longer may be under way. Of a property that
something happens after something else, the part proved is that it is never forgotten:
whoever is to do it is still there.

| TLC checks | The theorem says |
| --- | --- |
| `Rests` | `BoundIsKept`: at the bound of its action a rule moves nothing |
| `CachesConverge` | `UpToDateStays`: with no older read in either goroutine, an up-to-date cache stays so until a rule changes or the daemon is killed |
| `EventLeadsToRead` | `ChangesAreHeard`: no change of the rules escapes an open stream, and an event or the token stays under way until the rules are read |
| `ViewsConverge` | `SettledStays`: with no older update on the wire or in a handler, all views stay at the last metrics until there are news or a restart |
| `ClosedAreNotEstablished` | `ClosedStaysClosed`: with no event of it that says otherwise, a closed connection is not shown as established until it is opened anew |
| `AnswersConverge` | `RightAnswersStay`: with no misleading pod listed, and neither such a pod nor one of the PID's last owner in the cache or a lookup, every answer is right and stays so until the process exits or such a pod is listed |
| `ClientsConverge` | `LastIsKept`: with no older publication or snapshot under way, a client sees the last metrics until there are newer ones |
| `ClosedConnsLeave` | `ClosedConnsStayOut`: no handler returns before its connection is unregistered, and one that is out stays out |
| `ClientsLeave`, `EvictedAreClosed` | `LeaversAreTended`: an entry in the hub has a read pump to take it out, an evicted connection that is open a write pump to close it |

Two more give a variant of the first half: while a rule stands, each step is strictly nearer
to its bound (`StepsApproachTheBound`), and a call of `sendData` loses targets it waits for
and never takes one up again (`OutcomesStand`, for `SendsEnd`).

### Out of reach

Liveness under fairness is checked by TLC only, as the prover supports neither fairness
nor `ENABLED`: `Rests`, `EventLeadsToRead`, `CachesConverge`, `BreachIsAnswered`,
`SendsEnd`, `ViewsConverge`, `RingDrains`, `ClosedAreNotEstablished`, `AnswersConverge`,
`ClientsLeave`, `EvictedAreClosed`, `ClosedConnsLeave`, `ClientsConverge`. Nothing is proved
by induction over data, and no module under proof has recursive operators; `RttKey`, which
needs `Bitwise`, is a parameter of the proofs, which hold for any function in its place.

## 6. Not modelled

* Metrics are values or version numbers; how they are measured, and the sums, averages and
  bounded lists a collector keeps of them under its one lock, are left out.
* Time. Tickers and time-outs are fair or nondeterministic actions, so no property speaks
  of durations; an expiry that depends on a duration is a step that may happen.
* The conversion of numbers from JSON (`toInt32` cuts fractions and large values), and
  `InitMongo`, which is called once.
* Wording, logging, time stamps, JSON, HTTP status codes other than success and failure.
* Hazards of a single step that no property covers: two threads with one id in turn (DNS),
  the 32 bits of a DNS latency, start maps that dead threads fill for good, collectors
  registered after `subscribeMetrics`.
* The reads of a kernel structure that changes meanwhile, and NAT and socket counting, whose
  programs nothing loads.
* Components with status `not_modelled` in `PROJECT.json`, with the reason given there.

## 7. Plan

The number of runs is kept small: a module below that needs one shares a configuration with
a module it composes with.

1. Proofs: the halves without fairness of `BreachIsAnswered` and `RingDrains`.
2. The aggregates of the collectors against the stream of samples they are made of.
3. Loader and start-up: what is released after partial failures.
