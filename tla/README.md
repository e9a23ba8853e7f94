# Formal models of silvernode-go

TLA+ models of the parts of silvernode-go in which several goroutines, or several
nodes, share state: the connection life cycle of a node, a cluster of nodes with its
registry, the callback table of the peers (RPC), background services, task processors,
message channels, pools, logging, and the encodings and containers below them. Every definition is translated
from the Go source; `PROJECT.json` maps each one to the lines it stands for. TLC
checks small instances, TLAPS proves the most important invariants for all of them.

Paths are relative to the repository. Line numbers are those of the modelled commit.

## 1. Inventory

A silvernode program is a *node*. `silvernode.Serve` reads the configuration,
installs plugins, listens on one or more endpoints and, as a back-end node, scans a
registry (etcd, consul or nacos) for other nodes and connects to them. Connections
are of three kinds (TCP, KCP over UDP, WebSocket) and share one table. User code
talks to another node through `silvernode.Send` and the bound pipeline, or through
*peers*: objects whose methods other nodes call. Everything that runs in the
background is a *process*: a service (a loop), a processor (a task queue), a
scheduler or a coroutine.

| component | source | state | operations | interacts with |
|---|---|---|---|---|
| connection table | `nets/connect.go` | `kv`, `vk`, per connection a `ConnectInfo` (id, conn, worker, ping) | Add/RemoveConnectInfo, GetConnectInfo, GetNodeIdByConn, GetNodes, PingPong | all workers, `Send`, `Close`, onCheckNode |
| TCP, KCP, WebSocket workers | `nets/tcp.go`, `kcp.go`, `ws.go` | the worker service of each connection, the receive buffer (`TcpBuffer`), the KCP worker's client | Listen, accept handler, Connect, Send, Close, handshake of both sides, packet loop, onConn/onMsg/onClose/onError | connection table, services, listener |
| net layer | `nets/nets.go` | event listener, serial pool | CreateNetWorker, BindEventListener, origin strings | node |
| node | `silvernode.go` | map of net workers, the pipeline, `ctx.NodeInfo` | Serve, Listen, Connect, Send, Close, onScanning, onCheckNode | workers, cluster, peers, plugins |
| cluster | `cluster/*.go` | the registry client, scanning goroutine | Serve, RegNodeInfo, GetNodeById, SelectNodesByName, CheckNodeSig | node (callback onScanning) |
| configuration, identity | `ctx/*.go` | node info, node signature, endpoints | parsing, NodeSignature, suitableEP | node, cluster |
| peers | `peers/peer.go`, `peers.go`, `init.go`, `exchange.go` | per peer the callback table, `_lock` over all peers | Invoke, Call, SendEvent, onExchange, loopCheck, Dispose | `silvernode.Send`, a scheduler |
| peer registration, code generator | `peers/proc/*.go`, `peers/codecs.go` | method tables built by reflection | Register, generate | peers |
| services, scheduler | `process/service.go`, `scheduler.go` | signal channel, `killing`, `terminated` | Start, StartTick, Sync, Terminate, schedule | workers (one service per connection and per accept loop), peers |
| processors | `process/processor.go`, `executor.go` | executors with a queue each, `killing` | Execute, Terminate, boot | message channels, peers |
| process table, coroutines | `process/process.go`, `coroutine.go` | `_processors` | Spawn*, Kill, Go, remove | services, processors |
| message channels | `process/channel/*.go` | subscribers per topic | Publish, Subscribe, Unsubscribe | processors |
| pools | `utils/pools/*.go` | objects with a time of disposal, the service that looks after them | Fetch, Put, Dispose, DisposeAll, check | a service |
| snowflake | `utils/snowflake` | last time stamp, step, seed | Generate | node ids, processes |
| byte buffers, codecs | `utils/buffutil`, `peers/codecs.go`, `exchange.go` | a buffer, a parser with its error, the two codecs | Write\*, Read\*, Marshal, Unmarshal, FetchArgs | TCP packets, peers |
| collections | `utils/stlutil` | a map, a slice or both under a lock | Add, Remove, Set, Clear, Swap, set operations | user code |
| logging | `log/*.go` | the bound writer; per file a channel and a goroutine | Log, BindWriter, Write, Close | everywhere |
| plugins, http, board | | start-up lists, `net/http` | - | node |

### How the parts interact

A connection is made by the accept handler of an endpoint or by `Connect`. The two
sides exchange an *origin* (node id, signature, tag); `onCheckNode` asks the registry
whether the signature is right and decides under which id the other side is
registered: its own id, its id with the guest prefix, its id with protocol and port
(a second url of the same node), a fresh guest id, or not at all. The connection
enters the tables, OnConnect is emitted, and the worker service reads packets and
emits OnMessage. A read error, a handler error or `silvernode.Close` take it out:
OnClose, RemoveConnectInfo, conn.Close, Terminate of the worker. The peers send
their exchanges with `silvernode.Send` and get answers from OnMessage.

### What is hard here

* Table accesses are locked one by one; "look the id up, then use it", "check for a
  duplicate, then add" and "emit, then remove" are not atomic (`connect.go`,
  `silvernode.go:388-422`).
* `ConnectInfo` objects are held over unlocks, by Close in particular.
* Services and processors are terminated without any lock; the flags they use are
  also reset by the goroutines they start (`scheduler.go:19`, `executor.go:22`).
* Order of Start and registration differs between the protocols (`ws.go`, Connect).
* The timeout loop of the peers runs callbacks under two locks.
* Lengths and counters are at their limits in the packet header (16 bits, signed),
  in the snowflake step and in the receive buffer, and a Read may end anywhere.
* Two nodes may connect to each other at the same time, each holding its own lock, and
  a connection is registered at its two ends at different times (`tcp.go:264-282`).
* A node crashes and starts again under the same id; the registry finds out later.
* Pools, channels and loggers mix locks, user functions and goroutines that end.

`PROJECT.json` lists each of these as a hazard at its line, with the properties that
cover it or the reason why none does.

### What makes each component correct

* **Connection table and workers.** An id that can be sent to leads to an open
  connection registered under that id; no two connections share an id; the listener
  sees OnConnect, OnMessage\*, OnClose per id; dead connections are forgotten; a
  worker whose socket is closed stops; Close returns.
* **Services.** However many calls of Terminate race, the buffer is recycled once;
  a terminated loop ends; whoever waits in Sync is released.
* **Processors.** Accepted tasks run, once, in order; executors end.
* **Peer calls.** A call is completed once, by the answer or the timeout; nothing is
  sent on a closed channel; the reply object is not written after the caller went on;
  every call that was sent ends.
* **Cluster.** A node gets and keeps a link to its back end, half-open connections end,
  the node lock is given back, and only nodes the registry does not vouch for are guests.
* **Framing.** The packets read are the packets sent, wherever the stream is cut.
* **Encoding.** What is read is what was written; a cut is noticed.
* **Pools.** An object leaves a pool only by its Dispose; overdue objects are disposed
  of; a listed pool is looked after.
* **Message channels.** Publish returns; nothing reaches a function after Unsubscribe.
* **Logging.** No log call hangs; switching the file loses only lines that race with it.
* **Snowflake, collections.** Ids are unique; every entry of a dictionary is listed; set
  operations do not wait for each other for ever.

## 2. Modules

| module | models | built on |
|---|---|---|
| `NetEvents` | what a bound `NetEventListener` is promised (abstract) | |
| `Nets` | tables, three kinds of workers, both handshakes, `onCheckNode`, Connect, Close, the life of a connection's worker service | `NetEvents` (refined) |
| `PeerCalls` | callback table of a peer, its callers, the exchange in flight, the dealing goroutine, the timeout loop | |
| `Service` | service and scheduler loop, one step per shared field access | |
| `Processor` | processor and executors, one step per channel operation or field access | |
| `TcpFraming` | Send, TcpBuffer and the packet loop of a TCP connection, byte by byte | |
| `ClusterLink` | what the two ends of one connection may count on (abstract) | |
| `Cluster` | the start and crash of nodes, etcd, consul and nacos, the scan, both ends of the TCP handshake | `ClusterLink` (refined) |
| `Pools` | the table of pools, pools, the service that checks them | |
| `Channels` | one message channel, its RWMutex, publishers, users, processors of subscribers | |
| `FileLog` | a logger, its writers and their goroutines | |
| `Snowflake` | the package seed and Generate | |
| `Codec` | Buffer, Parser, exchanges | |
| `Dictionary`, `HashSet` | two of the containers | |
| `MCLibrary` | one run of `TcpFraming`, `Service` and the last seven rows, see below | |
| `MCNets`, `MCPeerCalls`, `MCService`, `MCProcessor`, `MCTcpFraming`, `MCCluster` | constants for TLC | the modules above |
| `NetsProofs`, `PeerCallsProofs`, `ProcessorProofs`, `TcpFramingProofs`, `ClusterProofs` | theorems | the module of that name |
| `ClusterLinkProofs` | theorems: the refinement | `Cluster`, `ClusterLink` |
| `ProcessProofs` | theorems | `Service`, `Channels`, `FileLog` |
| `UtilsProofs` | theorems | `Pools`, `Dictionary`, `HashSet`, `Snowflake` |

### Nets

`kv`, `vk` are the maps of `ConnectManager`; `sock`, `rclosed` are this end and the
other end of a `net.Conn`; `nid` is the local variable with the id the connection was
given; `killing`, `term`, `signal` are the fields of its worker service. `pc[c]` says
where the goroutine is that owns connection c: `dial`, `hs` (handshake), `check`/`add`
(onCheckNode, AddConnectInfo), `announce` (OnConnect), `start`/`boot`/`loop`/`read`
(the service loop), `pkt`/`msg`/`more` (one packet), `err`, `cl_ev`, `cl_rm`,
`cl_sock` (onError and onClose in their order), `term` (Terminate of itself), `done`.
Each step takes the ConnectManager lock at most once. The registry's verdict on a
signature (right, wrong, error) is an input. A *closer* is a goroutine inside
`silvernode.Close`: lookup, terminate, event, remove, conn.Close, one step each.

Differences between the protocols that the model keeps: accepted TCP and KCP workers
are started before the handshake, which is their first packet, the WebSocket handler
and Connect register first and start later; a KCP dial never gets beyond DialFail
(`kcp.go` trims the characters of `kcp://` from `udp://host`, and dials a string that
is no address); the WebSocket error path has no buffer to dispose of; nobody tells KCP that the
other end is gone, since the heartbeat is commented out (`nets.go:52`). The handler of an
accepted WebSocket waits in `worker.Sync()` (`ws.go:46`) beside its worker: Terminate lets it
return, and the server closes the connection (`HandlerReturn`), at a moment of its own choice.

Handlers panic in three places, all recovered by the scheduler's `Try`: `errutil.Extend` of a nil
error inside a handshake (`HandShakePanic`; of a WebSocket request net/http recovers and closes),
a slice of a buffer that Terminate has disposed of, and CheckPingPong over an empty message
(`Packet`). None of them calls onError.

`Service.Terminate` is one step in `Nets` and is taken apart in `Service`.

### PeerCalls

`table` holds the keys of `callbacks`; `left` is the deadline minus the clock; `net`
and `hpc` are the exchange and the goroutine dealing with it; `lock` is true while
checkTimeOut holds `p.lock` and `_lock` and runs callbacks. A callback that itself
makes a call on the same peer (`Chained`) blocks that loop for good: `stuck`.

### Service, Processor

`Service` splits Start, Terminate, Sync and schedule at every access to `signal`,
`killing` and `terminated`, none of which is locked; Terminate may be called from other
goroutines and from the loop's own body, as the workers do on a read error.

`Processor` splits Execute, Terminate, executor.terminate and boot in the same way: the
read lock Execute and Terminate take does not exclude them from each other, and boot
takes none. A send evaluates `e.tasks` first (`Load`) and sends later (`Send`), so it may
meet a channel closed since (panic) or have taken nil (blocks for ever). The queue holds
what the buffered channel holds; a blocked sender is one whose send is not enabled.

### TcpFraming

`stream` is the bytes the sender wrote that the socket has not delivered; `Read` delivers
any number of them that fits into the buffer behind the offset. `buffer`, `offset` and `count` are the
fields of `TcpBuffer`, and each way through the packet loop is an action: the loop ends
(`ParseNone`), a wrong mark clears the buffer, a length above the count waits for more, a
slice beyond the buffer panics and is recovered by the scheduler's `Try`, a message is
handed over. Behind `DeleteData` a panic leaves the loop without `Reset` (`LeaveLoop`): always over
an empty message, whose first byte CheckPingPong takes (`EmptyPanic`, `connect.go:68`), and over any
other one if `Panicking` says that the listener or dealHandShake may (`HandlerPanic`); the packets
behind the message then stay where they are, and if it was the last one the offset may be left at
the end of the buffer, where Read returns nothing and the worker calls onError (`ReadNothing`).
Mark and length are one byte each instead of four and two; message bytes are
told apart from the mark. The history variables record that some Read ended inside a packet, or
that a panic over a message has left others behind in the buffer (`torn`), that a Read ended with
the packet of an empty message (`hollow`), and that such a panic skipped the last Reset
(`skipped`). The connection is registered, and #ping and #pong, which CheckPingPong keeps to
itself, are not sent. In `Nets` the same loop appears as the steps `read`, `pkt`, `msg`, `more`.

### Cluster

`phase`, `inc`, `listening` are a node's process: `inc` counts its starts and stands for
the signature `NodeSignature` makes each time. `entries` are the registry's instances; what
differs between the three registries is in `RegNodeInfo`, `GetNodeById` and
`SelectNodesByName` (etcd and consul replace the entry of an id, nacos keeps the instance of
an earlier start until its check fails and then shows it as unhealthy). `scan` is the scan
goroutine; from `each` to `wait` it is inside onScanning and holds the node's lock, which
`Listen` waits for. A *slot* (`Socks`) is one connection after another from one node to
another: `dial` and `acc` are its two ends, which register, close and notice the other's
close by steps of their own. `leaked` is the socket a failed handshake forgets
(`tcp.go:161-163`); its descriptor is closed by the finalizer of the Go runtime
(`Finalize`), and only then does the accepting end read the end of the stream. A dial that
finds the back end's id taken by an accepted connection is registered under the alias
(`silvernode.go:283-292`), `alias`.

`ClusterLink` is the life of one connection without nodes, tables, registries and the other
connections: the dialler asks, is admitted or refused, the answer is under way, each end
registers, gives up, reads the end of the other one or goes down with its process.
`Link(s)` is its instance for slot s: `DiallerOf(s)` and `AcceptorOf(s)` are computed from
`dial[s]` and `acc[s]` (links, aliases and guests are all "linked", a handler that hangs is
none), `answered` is `hsuc[s]`, and the processes run while their `phase` is not "down". TLC
takes no specification under a quantifier as a property; `LinksInOrder` therefore states the
initial states and the steps of all slots, and the theorem `ImplementsClusterLink` states
`Spec => Link(s)!Spec`.

Faults, bounded by `conf.faults`: crashes (`Stop`), handshakes that take over six seconds,
registry calls that fail or hang, registrations that get lost. Handlers of one end are
single steps here; `Nets` takes them apart.

### Pools, Channels, FileLog

`Pools`: `table` is `_pools`, `svc` is `_svc`; a service is a scheduler loop (`svcAt`) that
may be told to end before it begins or in a pass, and go on beside its successor. Dispose of
a `Faulty` object panics: in `DisposeAll` that ends the loop and keeps the map, in a pass it
is recovered for each object.

`Channels`: `Publications` are the calls of Publish: of a goroutine (`Outer`), of a function that
goroutine calls inline (`Inner`), and of a function in an executor (`InTask`). `pubAt` says where
each is, from `lock` on with the read lock; users and functions ask for
the write lock, and a writer that waits keeps new readers out (`WriterWaits`). `deed`, chosen in
the initial state, is what the function of a subscriber does: unsubscribe itself, call Chan, or
publish on the channel that called it. A function reached by the Publish of a function does
not publish once more; it would only repeat the same waits one level down. A subscriber
with a processor gets a task in the queue of its executor, which may be full, or whose
executor may end between the test of `killing` and the send (`SendFails`: panic, or a nil
channel for ever, as in `Processor`).

`FileLog`: `logchan` is the buffered channel of each `FileLogWriter`, with `Nil` for the nil
that Close sends. Write evaluates the writer first (`DoLog`), sends later, and panics on a
channel that `dispose` has closed.

### Snowflake, Codec, Dictionary, HashSet

`Snowflake`: seed and Generate with few bits; two goroutines may each make a seed. An id is the
set of the positions of its ones, so that the shifts and the `|` of `snowflake.go:62` are what
they are also for a step that has grown into the seed number. `Bits` is a constant, the
positions of a number (`Binary` in `MCLibrary`); `BitsAssumption` says of it what is true of
binary numbers. `peak` remembers the highest step.
`Codec`: bytes have 16 values, types have small widths, numbers are little endian in two's
complement, so that truncation and sign are kept; a value is a type and a sequence. It
writes values or one exchange, loses a part of the end, and reads.
`Dictionary`: `_keys` and `_map`; Add, Set, Remove, Clear, Swap each hold the lock, so each
is a step. `HashSet`: every operation on two sets at the granularity of its lock sections;
`readers` and `writer` are the lock of each set, where a writer that has announced itself
keeps new readers out.

### MCLibrary: several modules in one run

These nine modules share no variable. `MCLibrary` extends all of them; `unit`, chosen in the
initial state, says which one runs, the variables of the others stay as they are. Its
specification is therefore the disjoint union of nine specifications, each with its own
fairness, and a property of one module says of the run what it says of the module.

## 3. Runs

| run | instance | what it shows |
|---|---|---|
| `nets_solo` | one handle each of KCP, dialled TCP, WebSocket; no Close; public node | `TablesAgree`: kv and vk stay inverse. `EventsInOrder`: the workers implement `NetEvents` |
| `nets_close` | an accepted TCP and a WebSocket handle, one closer, FairSpec | `KvBacked`, `OpenWhileRegistered` beside Close; `DeadConnForgotten`, `WorkerStops`, `CloseReturns`. The socket of the WebSocket may be closed while it is registered, between Terminate and RemoveConnectInfo of its Close, and only then |
| `nets_stale_close` | two accepted TCP handles, one closer | **violation** of `OneConnPerNode` |
| `nets_unverified` | public node, no Close | **violation** of `UnverifiedIsGuest` |
| `peer_calls` | an Invoke to another node, a Call that may fail and whose callback calls again, an Invoke to the own node | `CompletedOnce`, `NoSendOnClosed`, `ReplyStable`, `SentCompletes` |
| `peer_timeout` | the same | **violation** of `OnlyExpiredTimeOut` |
| `service_stop` | one goroutine and the loop body | **violation** of `TerminatedLoopEnds` |
| `processor` | two executors with one place each, one goroutine with two tasks, two Terminates | `TypeOK` (no nil task is run), `RunInOrder`, `EarlyTasksRun`, `ExecutorsEnd` |
| `tcp_split` | three messages of lengths 1, 2, 5 in a buffer of 8 bytes | **violation** of `SplitsHandled` |
| `cluster` | two nodes, two slots in each direction; etcd, consul and nacos, public and not, up to two faults; only one node scans, or both without faults | `TypeOK` (among it: a scan waits exactly while its handshake is under way), `GuestIsStale`, `LinksInOrder`: every slot implements `ClusterLink`; `BackEndsLinked`, `HalfOpenEnds`, `ScanReturns` |
| `cluster_mutual` | both nodes scan, no faults | **violation** of `BackEndsKnown` |
| `library`: framing | three messages of length 0 or 1, 6 bytes of buffer, handlers that may panic | `WholeReadsInOrder`, `WholeReadsArrive`: whole packets, also several per Read, arrive unless a panic leaves some of them behind; `RoomToRead` wherever the stream is cut, but for a Reset that such a panic skipped |
| `library`: service | two goroutines and the loop body call Terminate | `RecycledOnce`, `RunningLoopEnds`, `SyncReleased` |
| `library`: pools | two names, two objects one of which panics, two services, two seconds | `DisposedOf`, `PoolsWatched`, `OverdueDisposed` |
| `library`: channels | a publisher, a user with three calls, a subscriber with a processor that unsubscribes itself or publishes, and one called inline that calls Chan or publishes | `QuietAfterUnsubscribe`, `PublishReturns` |
| `library`: filelog | two goroutines that log, two BindWriters, three files, channels of one place | `SwitchKeepsLines`, `LogReturns` |
| `library`: snowflake | two goroutines with three ids each, two steps per millisecond | `UniqueIds` |
| `library`: codec | two values of every type, nested, too long, not writable; exchanges; cut anywhere | `ReadsMatch`, `CutNoticed` |
| `library`: dictionary | three keys | `Enumerable` |
| `library`: sets | two sets, two goroutines with two calls | `NoStandstill`, `OnlyLocksStop`: calls stop only for a lock, and all of them only in a circle |

The violations, each a disagreement of the code with a line of the repository:

1. **A stale Close removes somebody else's entry** (`connect.go:125`). Close fetched the
   ConnectInfo; the worker closed that connection and the node came back; Close then deletes
   the new connection's `kv` entry. The next connection of the same node is not recognised
   as a duplicate (comment at `silvernode.go:415`), and two connections live under one id.
2. **A node the registry does not know is rejected on a public node too**
   (`silvernode.go:393`): the error is returned before IsPub is looked at, where the
   comment at `silvernode.go:402` and `README.md:50` make it a guest.
3. **The timeout test is the wrong way round** (`peer.go:225`): calls whose time is *not*
   over are reported as timed out at the first turn of the loop; the expired ones stay.
4. **A service terminated right after Start runs on** (`scheduler.go:19`): the loop
   goroutine resets the flag Terminate has set. The executor has the same flaw
   (`executor.go:22`).
5. **A packet cut by a Read is mangled** (`tcp.go:79`, `tcp.go:314`): it is taken from the
   buffer up to six bytes too early, and the next Read overwrites the bytes that were
   kept. `README.md:27` says that split packets are taken care of.
6. **Two back ends of each other may miss each other** (`silvernode.go:283`): the accepted
   connection appears between onScanning's lookup and Connect's, the dial is registered under
   an alias, the accepted one is refused at the other end. One node then has the other under
   the alias only, dials it every three seconds and is refused, and cannot send to it by its
   id, against `README.md:46` and `README.md:54`.

Not checked by a run, met while reading: `plugins.go:142` joins its two tests with `||`, so a
plugin package must have the prefix *and* the suffix, where the message below asks for one of
them; `errutil.Extend` of a nil error panics (`consul.go:90`, `nacos.go:125`, `tcp.go:279`, `buffer.go:242`);
an empty message panics at the receiver (`connect.go:68`), and so the packets of the same Read
behind it wait for the next Read at an offset nobody reset. Both panics are in the models.

What passes holds with limits a reader should know:

* `TablesAgree` and `EventsInOrder` hold only while nobody calls Close; with Close, see 1.
* `WorkerStops` and `CloseReturns` beside Close are for workers started before they are
  registered (accepted TCP, KCP): for the others, 4 and the nil signal channel
  (`connect.go:85`) apply, and Close may block or the worker spin.
* `OpenWhileRegistered` leaves out one state, in which Send finds a closed socket: an accepted
  WebSocket whose Close has called Terminate (which lets the handler return, `ws.go:46`) and has
  not yet called RemoveConnectInfo.
* `DeadConnForgotten` is about TCP and WebSocket: a KCP worker is not told of the remote end's
  close, and its connection stays registered.
* `SentCompletes` needs a timeout longer than the period of the loop (7 s in Boot): with a
  shorter one a call never is in the state the loop looks for, because of 3. It also
  excludes a disposed peer and a blocked timeout loop.
* `CompletedOnce` allows two completions for a Call whose request failed: `request` leaves
  the entry in the table.
* `EarlyTasksRun` is about tasks handed over before Terminate begins. A task accepted by
  an Execute that runs beside Terminate may be lost, or its Execute panics or hangs.
* `ExecutorsEnd` is about executors whose goroutine had begun.

* `BackEndsLinked` is for nodes that are registered and running in the end, of which only
  one dials (6), and not for public nodes with nacos: there a restarted node may meet the
  healthy instance of its old start, become a guest (`onCheckNode`) and stay one, since the
  dialling end has a link. A lease that runs out is not noticed (`etcd.go:83`): such a node is
  never registered again.
* `HalfOpenEnds` relies on the finalizer for leaked sockets, which takes up to minutes.
* `PublishReturns` names the cases in which it does not: a function called inline that
  unsubscribes (`stuck`), an executor that ended between test and send (`hung`), and calls of
  Publish that wait for one another (`Crossed`): a Publish that waits for room in the queue of an
  executor whose function waits for the write lock, or for the table that Close holds; a function
  called inline that waits for that table; one called inline that publishes, and waits for the read
  lock (`msgchannel.go:28`) behind a writer that waits for the Publish around it; functions in
  executors that publish and wait for room in their own queue, or in one another's. Each of these
  circles was found reachable, and once closed it stays.
* `SwitchKeepsLines` is about lines that Write had taken before BindWriter began.
* `UniqueIds` is about one seed until its step reaches the time bits, or seeds of different
  numbers whose step has not run over. The step is not reset when it runs over
  (`snowflake.go:53`) and grows by one in every further millisecond that finds the seed full:
  after 70 minutes of uninterrupted overflow it would reach bit 22, and an id could be that of
  the next millisecond. A clock that steps back is not modelled and repeats ids.
* `ReadsMatch` excludes what the code itself excludes: strings over 10240 bytes, ends that
  differ in the codec, types a Buffer cannot write (which panic half-way).
* `Enumerable` is exact only until the key at index 0 is removed (`dictionary.go:53`).
* `NoStandstill` leaves out a circle (`Opposed`): calls each of which goes through one set
  while it asks for the next one's. Two calls that combine the same sets the other way round
  are the smallest, or one that combines a set with itself.
* `WholeReadsInOrder` and `WholeReadsArrive` are for streams no Read has cut inside a packet
  (5) and none has ended with an empty message: the packet loop wants more than a header
  (`tcp.go:67`), the next Read overwrites such a packet, and the count keeps it. They are also
  for connections on which no panic over a message has left others behind in the buffer. An empty
  message followed by others in its Read is such a panic (`connect.go:68`): it is not handed
  over, and the packets behind it lose their place. A message that does not fit into the
  buffer is always cut.
* `RoomToRead` allows for a Reset that a panic over a message has skipped: when that message ended
  at the end of the buffer the next Read has no room, and the worker closes the connection.

### Bounds

Handles (`Conns`) are reused once their goroutines are gone (`Collect`), so runs are
unboundedly long with two or three connections at a time. Every table property relates at
most two connections and one closer, and each hazard above needs no more; one registered
node gives all kinds of ids (own, guest, alias, fresh, blank). Larger sets multiply
states without new pairs. For the safety properties the theorems remove the bound, which also
brings KCP and dialled connections beside Close.

`PeerCalls` has one call of each kind, each used once: calls meet only in the timeout
loop, which takes expired calls in any order. `Timeout` 2 and `Every` 1 are the smallest
values for which the loop runs before, at and after a deadline. In `Service` three
goroutines reach every pair of positions in Terminate, and a third to come late. In
`Processor` one place per queue makes a full queue the normal case; two tasks are enough
to overtake one another.

In `TcpFraming` the buffer holds one long packet or several short ones; three messages let
a Read return the end of one, another, and the beginning of the third. In `library` three messages
of one byte do not fit into six bytes, so that a panic over the second one, at the end of the
buffer, leaves no room for the third. `Bound` stops the
loop in which a mangled message is handed over for ever.

`Cluster`: two nodes, since a link, an alias and a registration concern a pair; two slots for
each direction, for the connection being dialled and a leaked or half-open one. Two faults
make a restart while an earlier socket is leaked, or a hung handler and a crash. `inc` is bounded
by the faults. `Pools`: `Horizon` seconds, `Room` objects; two services are the one told to
end and its successor. `Channels`: `Ops` calls of users, a queue of one place, so that it is
often full; one function publishes at most, and the publisher and that function are the two calls
of Publish that meet (two processors that both publish were tried by hand, without Terminate). `FileLog`: `Lines` per goroutine. `Snowflake`: `LastMs`, `Draws`. `Codec`:
`MaxValues`, widths of one to three bytes, `LongestString` 3. `Dictionary`: `MaxListed`.
`HashSet`: `SetCalls`; two goroutines and two sets make every opposition of locks, and three
goroutines with two elements and three calls were tried by hand (5 million states, no error).

Runs without deadlock checking (`peer_*`, `service_stop`, `processor`, `tcp_*`,
`cluster*`, `library`) describe finite work: calls are made once, services terminated once,
three messages sent, and in `cluster` nodes may all have stopped for the last time.

### Fairness

Weak fairness of each goroutine's own steps: the Go scheduler runs what can run. Not
assumed: that callers call, that the other end answers or closes, that data arrives
(`ReadData`), that handlers of a peer return. In `Nets` the handler of a
WebSocket that has been released returns, garbage need not be collected; in
`Cluster` it is, in the end (`Finalize`: the runtime forces a collection every two minutes),
registries drop what is not served, and `Listen` gets a mutex that is free again and again
(strong fairness: Go's mutex hands over to a starving waiter). Starts, crashes and faults are
never assumed. In `Channels` a Publish that waits for room in a queue gets it in turn (strong
fairness of `SendTask`: a Go channel serves waiting senders in order). In `PeerCalls`
time passes (`Tick`); in `TcpFraming` what was sent can be read in the end.

## 4. Proofs

Theorems hold for every value of the constants that satisfies the module's assumptions:
any set of nodes, connections, closers, calls, threads, timeouts.

* **NetsProofs.** `IInv` = TypeOK, KvBacked, `ConnInv` and `CloserInv`: what the pc of a
  connection and of a closer implies about tables and id. KvBacked is not inductive alone: RemoveConnectInfo deletes `kv[nid]` and
  `vk[conn]`, and it depends on the pc which of the two still belong to the connection and
  whether it has an id. `IInvStep` has one step per action. From it:
  `TypeCorrect`, `KvBackedCorrect`. With `Closers = {}`
  (`SoloInv` adds that only the owner of a connection removes it): `TablesAgreeCorrect`,
  `OneConnCorrect`, and the refinement `EventsInOrderCorrect`, in which every step of
  Nets is shown to be a step or a stutter of NetEvents. With any callers of Close again,
  `SInv` follows the start and the end of a worker: whose service has not been started
  (`StartedInv`), and that `terminated` is set only after the connection was removed or by a
  Close that will remove it (`TermInv`; what a hung Close has set, Boot clears). It gives
  what DeadConnForgotten and CloseReturns rest on: no connection is left in the tables
  with nobody to take it out (`AttendedCorrect`), and Close never hangs on a connection whose
  worker was started first (`NoneHangsCorrect`). `OpenInv`, on top of `SInv`, says who may have
  closed the signal of a worker (`ClosedInv`: the worker itself after onError, or a Close that will
  remove the connection), hence when the handler of a WebSocket may have returned:
  `OpenWhileRegisteredCorrect`.
* **PeerCallsProofs.** `IInv` says who may complete a call: while an entry is in the table
  nobody holds it; a goroutine in `taken`, or the timeout loop for a call in `scan`, is
  the only one. `CompletedOnceCorrect`, `NoSendOnClosedCorrect`, `ReplyStableCorrect`,
  `TypeCorrect`. The converse, that there always is one, needs that an exchange is never both
  under way and dealt with (`OnePlace`): `PendingKeptCorrect`, what SentCompletes rests on.
* **ProcessProofs.** Three components in one module.
  *Service*: `SInv` says that only the goroutine that closed the signal channel recycles and
  that a second close panics. `RecycledOnceCorrect`, `ServiceTypeCorrect`. A signal that
  makes others wait is followed by the close that releases them: `SignalAttendedCorrect`.
  *Channels*: `QuietAfterUnsubscribe` says that a Publish has only current subscribers left
  to call. `CInv` adds that a goroutine has any left only while it holds the read lock
  (`ReadersOnly`), so that an Unsubscribe, which holds the write lock, finds none, and that a
  function is inside Publish only while the goroutine or the executor that called it waits for it
  (`Within`), so that a call of Publish begins where none is under way.
  `QuietCorrect`, `ChannelsTypeCorrect` (no executor's queue outgrows its capacity).
  *FileLog*: `SwitchKeepsLines` speaks of a file that is closed, and a line may be lost much
  earlier, when the nil of Close overtakes it in the channel or a second one follows. `FInv`
  adds where an early line is meanwhile (`EarlyKept`: in the file, or in the channel with no
  nil before it) and that a nil in a channel, or a goroutine past its loop, comes only from a
  BindWriter at that file or from a failed write (`ClosedByBinder`). `SwitchKeepsLinesCorrect`,
  `FileLogTypeCorrect`.
* **ProcessorProofs.** RunInOrder speaks of tasks that have run; it is not inductive, since
  what will run next is still in `cur` and in the queue. `IInv` orders all three (`RanInv`,
  `CurInv`, `QueueInv`) and keeps every round number in them below the producer's current
  one, so that what Send appends is the youngest. `RunInOrderCorrect`, `TypeCorrect`.
  `EInv` adds what the two liveness properties of the module rest on: no executor stops
  serving and no nil task is queued before killing is set (`NilsLate`), and a channel that is
  served is open (`ServedOpen`). It gives their safety halves: a task handed over before
  killing has run, runs, or waits before any nil task (`EarlyTasksKeptCorrect`), and an
  executor that serves with `terminated` set has a nil task in its queue or on its way
  (`EndComesCorrect`). `IInv` bounds the queue; that it drains is fairness, which TLC checks.
* **ClusterProofs.** `GuestIsStale` speaks of registered guests; the decision was made at
  CheckNodeSig, several steps earlier. `IInv` adds that a guest on its way is old already
  (`GuestsOld`), that a registry that replaces entries holds only the current start of a node
  once a connection carries that start's signature (`EntriesCurrent`), and that signatures
  are never from the future. `GuestsAreStale`, `TypeCorrect`. `AInv` adds that an answer under
  way comes from an end that has decided about the dialler, and that the dialler is still waiting for
  it (`AnswersVetted`): a time-out gives up the socket with the answer that may still come, so
  none reaches the next dial. `LinksAreAnswered`: no dialler has a connection registered which
  the other end has not vetted.
* **ClusterLinkProofs.** `Cluster` implements `ClusterLink` at every slot. `LInv` adds to `AInv`
  that a process that is down has no connections and does not listen (`DownIsClosed`); with it
  a start finds both ends closed and a dial two running processes. `AnswersVetted` is
  what makes a refusal leave the answer alone, and an admission the first answer of its dial.
  Each action is shown to be one abstract step of its slot (`DiallerSteps`, `AcceptorSteps`,
  `ConnectStep`) and a stutter of the others (`SlotUntouched`); a start or a crash is a step of
  all slots of its node (`ServeStep`, `StopStep`). `ImplementsClusterLink`,
  `LinksAreInOrder`.
* **UtilsProofs.** Three containers and the ids in one module.
  *Pools*: the inductive invariant `WInv` adds to `PoolsWatched` that the service in `_svc` has
  been spawned and has not been told to end, that a service not spawned yet has not been told
  to end either (so the next one spawned is live), and that a service collecting or disposing
  is at some pool; `PoolsWatchedCorrect` and `PoolsTypeCorrect` follow. On top of it
  `DisposedOfCorrect`: every place that deletes objects disposes of them in the same step, and
  a panic leaves them in the pool.
  *Dictionary*: `Enumerable` and the types are inductive together; the lemmas say what
  appending, removing one index and swapping two do to a sequence without repetitions.
  `EnumerableCorrect`.
  *HashSet*: `HInv` says which call holds a lock, and in which part of its operation
  (`LocksHeld`, `CallsUnderWay`). From it `HolderAhead`: what a combining call waits for is
  held by another combining call, or was announced by a writer that waits for one; and
  `SomebodyGoes`: without combining calls somebody goes on. If everybody waits, the combining
  calls are therefore a set each of which waits for another, which is the circle of
  `NoStandstillCorrect`, for any number of sets and goroutines. `HashSetTypeCorrect`.
  *Snowflake*: `UniqueIds` counts ids; that the next one is new follows from `UInv`, which says
  where those given so far come from (`IdsPast`): a millisecond not after the seed's last, and in
  the last one a step it has taken. `IdParts` finds the three numbers in an id again, `IdTells`
  that equal ids have the same millisecond, and the same step and seed if these have not run
  over. That a seed is made once, before anybody uses it (`SeedsMade`), keeps its number the
  same for all its ids. `UniqueIdsCorrect`, from `BitsAssumption` and a clock that does not step
  back.
* **TcpFramingProofs.** A recovered panic leaves the packet loop without Reset, so the
  invariant must hold inside the loop and not only between reads: the offset is at the
  end of the buffer only while the loop still runs and has nothing left, so that it ends by its
  condition, with a Reset, or after a panic over a message has skipped that Reset (`RoomInv`).
  `RoomToReadCorrect`.
  `WholeReadsInOrderCorrect` needs to know what the bytes in the buffer and in the socket
  are: `OrderInv` says that together they are the packets of the messages not handed over
  yet, without a gap, as long as no Read and no panic has left a part of them behind, and that a
  packet that begins in the buffer ends in it and is not an empty one at its end. The places of the packets are a function `at` of the message, whose
  existence is part of the invariant, since a sum of lengths is a recursion the provers cannot
  unfold; each step shows the function for the next state. The theorem is for any number of
  messages of any lengths, any reads, any buffer and any length field that can hold its size.

The type invariants of all these modules are proved; a run checks those of `Processor` and
`Cluster`, which say more than types.

Only model-checked: all liveness (DeadConnForgotten, WorkerStops, CloseReturns,
SentCompletes, RunningLoopEnds, SyncReleased, EarlyTasksRun, ExecutorsEnd,
WholeReadsArrive, BackEndsLinked, HalfOpenEnds, ScanReturns, OverdueDisposed, PublishReturns,
LogReturns), since fairness and ENABLED are out of the prover's reach, and OnlyLocksStop for
its ENABLED. For DeadConnForgotten, CloseReturns, SentCompletes, SyncReleased, EarlyTasksRun
and ExecutorsEnd the safety half is proved: as long as what is promised has not happened, there
is somebody who will do it (`AttendedCorrect`, `NoneHangsCorrect`, `PendingKeptCorrect`,
`SignalAttendedCorrect`, `EarlyTasksKeptCorrect`, `EndComesCorrect`). That fair scheduling then
gets there is what the runs check. `NoStandstill` is stated without ENABLED: `Waits` says
what a call waits for, and OnlyLocksStop, which TLC checks, that nothing else stops one.
Further ReadsMatch and CutNoticed, which are about recursive operators.

## 5. Possible extensions

1. `List`: Remove looks the index up and removes under two locks (`list.go:64-71`).
2. The heartbeat (`connect.go:149-171`) as an optional action, since it is commented out.

## 6. Not modelled, and why

* JSON and gob, reflection and code generation of the peers, configuration parsing,
  formatting, the choice of addresses: conversions without protocol state.
* HTTP, dashboard, plugins, file helpers, log levels and the console: output and
  sequential start-up.
* The servers of etcd, consul and nacos: external; what they do to entries is in `Cluster`,
  their verdict is an input of `Nets`.
* Send: it looks an id up and writes; `KvBacked` and `OpenWhileRegistered` state what it
  relies on, the latter with its one exception.
* Data races on Go maps (`connect.go:196`, `silvernode.go:304`): the runtime aborts the
  process, there is no state to continue from.
* `List`, `HashTable`, `Map`: one slice or map under one lock, but for `List.Remove` (section 5).
  `Less` of `Dictionary` takes the read lock twice (`dictionary.go:176`) and may deadlock
  with a waiting writer; `Dictionary` is modelled one operation at a time and does not show it.

## 7. Running the checks

    tlc -workers 2 -config MCNetsSolo.cfg MCNets.tla
    tlapm NetsProofs.tla

Operators named `X_variant` (marked "Mutant") are faulty forms of an action; with one of
them in the place of the action the property it belongs to is violated. `PROJECT.json`
lists the pairs.
