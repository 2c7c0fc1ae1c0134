# A TLA+ verification of Collage and Equalizer

Equalizer (`libs/eq`) is a framework for parallel OpenGL rendering: a server
schedules frames for nodes, pipes, windows and channels that run on many
machines. All of it is built on Collage (`libs/co`), a library for cluster
communication: nodes, commands, distributed objects with versions, barriers and
queues. This directory holds TLA+ models of the parts of that code whose
correctness depends on the order in which threads and messages meet, the TLC
configurations that check them on small instances, and proofs, checked by
TLAPS, of the facts that hold for instances of any size.

The subsystem everything else relies on is the **distribution of versioned
objects**: the server's configuration entities, the application's scene data, the
frame data, the swap barriers and the load balancing queues are all distributed
objects. Around it the project treats the **connections** the objects are sent
over, the **reliable multicast** below them, and, above them, the **barrier**,
the **tile queues** and the **frame loop** of Equalizer.

## 1. Inventory

### 1.1 How a Collage node works

A `LocalNode` runs a *receiver thread*, which reads packets from all connections
and either executes them at once or queues them, and a *command thread*, which
executes the queued ones. Applications add threads of their own (in Equalizer: a
main thread, one thread per pipe). A request to another node is a packet with a
request identifier; the caller blocks in `waitRequest` until a handler calls
`serveRequest`. So nearly every operation is split over four threads, two on each
side, and what a handler may assume depends on which of them it runs in.

| component | state it keeps | operations | what is hard |
|---|---|---|---|
| master change managers (`versionedMasterCM`, `fullMasterCM`, `deltaMasterCM`, `unbufferedMasterCM`) | `_version`, `_commitCount`, retained `_instanceDatas`, `_slaves`, `_slaveData`, `_maxVersion` | `commit`, `setAutoObsolete`, `addSlave`, `removeSlave(s)`, `_cmdMaxVersion` | three threads; commit waits for `_maxVersion` outside of the lock; 64 bit sums; retained versions must stay without a gap |
| slave change manager (`versionedSlaveCM`) | `_version`, `_queuedVersions` | `applyMapData`, `sync`, `_cmdData`, `_sendAck` | the order of map data, commits and reply; drops during mapping |
| object store (`objectStore`) | dispatch table `_objects`, pending requests | `mapObject`, `unmapObject`, `deregisterObject` and their handlers | master deregistered or node lost in the middle of any of them |
| instance cache (`instanceCache`) | streams per object with pins and times | `add`, `operator[]`, `release`, `expire` | incomplete streams, lifetime of pinned data |
| barrier (`barrier`) | `leaveNotify` and `_version` on each node; `enteredNodes` on the master node | `enter`, `_cmdEnter`, `_cmdEnterReply` | a new version for each frame, timeouts with incarnations, threads that share an instance |
| send token (`localNode`) | `sendToken`, `sendTokenQueue`, `lastSendToken` | `acquireSendToken`, `releaseSendToken` | timeouts, hand-over |
| connections between nodes (`localNode`, `node`) | the node tables, listeners | connect, connect reply, ack, disconnect | both sides connect at once |
| reliable multicast (`rspConnection`) | windows of 16 bit sequence numbers per member, identifiers | data, ack, nack, repeat; negotiation | wrap-around, loss, reordering |
| queue (`queueMaster`, `queueSlave`) | items of the master, prefetched items of slaves | push, getItem, pop | prefetch racing with the end of the queue |
| commands (`commandCache`, `commandQueue`, `dispatcher`, `worker`) | reference-counted buffers, queues | alloc, clone, push, dispatch | buffers reused while they are referenced |
| frame loop (`server/config`, `server/node`, `client/config`, `client/node`) | current, finished and unlocked frame in the application, the server and every node | `startFrame`, `finishFrame`, `finishAllFrames`, releases | latency, nodes that join or leave, three processes that count frames |
| compounds, equalizers, tile queues (`server`) | the compound tree, load data | update visitors | mostly sequential computation |
| pipes, windows, channels, frame data (`client`) | OpenGL state, image readiness | task handlers | readiness across nodes |
| transports, streams, compressors, plugins, loader, fabric, admin, sequel | bytes, files | I/O and encoding | outside of what a model of the protocols shows |

`PROJECT.json` lists each of them with its sources and status, and the hazards of
the code with the line at which each one bites.

### 1.2 What makes the modelled components correct

* The versions a master retains are consecutive and end with the head version;
  `setAutoObsolete(n)` never loses a version younger than `n` commits.
* `commit` is held back by the slowest slave that is subscribed and by nothing
  else; a slave that leaves or dies holds nobody back.
* A slave shows exactly the content the master committed as that version, and
  moves one version at a time, whatever was under way when it was mapped and
  whichever part of its data came from the cache.
* Cached data stays while a request relies on it, and no longer.
* A slave with `getMaxVersions() = m` that was mapped at the head lags behind by
  `m` versions at most.
* `mapObject`, `unmapObject` and `commit` return; a slave that syncs gets to
  every version.
* Nobody leaves a barrier that not everybody has entered; nobody stays in one
  that everybody has. One holder of a singular token.
* Two nodes agree on whether they are connected; `connect` returns.
* All members of a multicast group read what was written, once, in order, also
  where sequence numbers wrap around.
* Each tile of a frame is drawn once, in its own frame, and no channel waits for
  tiles for ever.
* A frame that is reported finished is finished on every node and pipe; nodes
  are started and stopped only while nothing is under way; `startFrame`,
  `finishFrame` and `finishAllFrames` return.

## 2. Modules

```
VersionedObject                what a distributed object promises
      ^  ImplementsObject (refinement, proved in SlaveQueue_proofs)
ObjectMapping  --------------> MasterCM   (EXTENDS; ImplementsMaster proved)
  |   ^     ^                     ^--- MasterCM_proofs
  |   |     +--- ObjectMapping_proofs <- InstanceCache_proofs <- SlaveQueue_proofs
  |   MCObjectMapping
  +-> InstanceCache
Barrier     <- MCBarrier,     Barrier_proofs
NodeConnect <- MCNodeConnect, NodeConnect_proofs
TileQueue   <- MCTileQueue,   TileQueue_proofs
FrameLoop   <- MCFrameLoop,   FrameLoop_proofs
RSP         <- MCRSP
SendToken
```

`Barrier`, `RSP`, `NodeConnect` and `FrameLoop` have a constant variable `setup`,
chosen in `Init` from the constant `Setups`: one run explores several
configurations, each with the bounds it needs.

### 2.1 `MasterCM` - the master change manager

| model | code |
|---|---|
| `version`, `commitCount`, `nVersions`, `instanceDatas` | `_version`, `_commitCount`, `_nVersions`, `_instanceDatas` |
| `slaves`, `slaveMax` | the entries of `_slaveData` and their `maxVersion` (one map instead of two parallel containers) |
| `maxVersion` | the monitor `_maxVersion` |
| `committing` | the program counter of `commit()`: idle, in `waitGE`, past it but without the lock |
| `CommitBegin`, `CommitProceed`, `CommitLocked`/`CommitEmpty` | `commit` of a dirty object: call, end of `waitGE`, locked section with or without data |
| `CommitClean` | `commit` of an object that is not dirty |
| `Obsolete`, `SetAutoObsolete` | `_obsolete`, `setAutoObsolete` |
| `AddSlave`, `RemoveSlaves`, `CmdMaxVersion` | `addSlave`, `removeSlave`/`removeSlaves`, `_cmdMaxVersion`, each including `_updateMaxVersion` |
| `MappedVersion`, `MapDataRange` | what `_initSlave` replies and sends |

The three subclasses differ in `ChangeType`. `MasterSpec` puts the manager in
the most general environment: slaves subscribe, send *any* 64 bit limit, and
leave at any moment.

The content of a version is abstracted to its number, and a commit count to a
number that never decreases (the assertion in `_updateCommitCount`).

### 2.2 `ObjectMapping` - one object, its master and its slaves

Extends `MasterCM` by the object stores: an application thread for each slave
instance, a receiver thread for each node, receiver and command thread of the
master's node, and streams between them.

| model | code |
|---|---|
| `NewVersion`, `MasterOnly` | `commit` with the packet it sends; the commit steps that send nothing |
| `DeregisterNotify`, `DeregisterDetach` | `deregisterObject`: `notifyDetach`, then the detach - other threads run in between |
| `MasterReceive` | dispatch in the receiver thread: acknowledgements are executed there, all else is queued |
| `CmdMapObject`, `CmdUnsubscribeObject`, `CmdRemoveNode` | the handlers of `ObjectStore` in the master's command thread |
| `CmdMapObjectSuccess`, `CmdMapObjectReply`, `CmdInstance`, `CmdData`, `CmdDetachObject`, `CmdUnmapObject` | the handlers in the receiver thread of a slave's node |
| `MapObjectNB`, `MapObjectSync`, `ApplyMapData` | `mapObject` in the application thread; `ApplyMapData` is one round of its loop |
| `CacheHit`, `RepliesUseCache`, `SentVersions`, `MapData` | what a request announces of its cache, and what `_initSlave` makes of it: the versions sent, and the reply's `useCache` and `releaseCache` |
| `AddInstanceDatas` | `addInstanceDatas`: cached versions put in front of and behind the received ones |
| `Expire` | `expireInstanceData`: any prefix of complete streams that is not in use |
| `UnpackOneVersion`, `SendAck` | one round of the loop in `sync`, with the acknowledgement |
| `UnmapObject` | `unmapObject` |
| `NodeLost` | a lost connection: everything the node had sent is read first, then `_cmdRemoveNode` is queued |
| `down`, `up`, `cmdQueue` | connections (a unicast stream, and a multicast stream if `UseMulticast`) and the command queue |
| `content` | history of what was unpacked: instance data replaces the content, a delta advances it by one |

`CommitLink` is `gatherConnections`: a multicast connection is used if at least
two receivers share it. `MapLink` is what `_initSlave` uses.

Abstractions: the search for the master node (`_connectMaster`) is done; a lookup
in the dispatch table and the use of the object it returns are one step, and so are
the packets one call sends on one connection; only nodes with slaves are
lost, never the master's; `Forget` clears what nobody reads any more; slaves do
not commit. `mapObjectNB` reads the deque of cached versions after the cache has released
its lock; as the entry is pinned by then, what it reads is what a request sent at
that moment would announce, and the model sends the request then. The map data
of a buffered object is one packet for each version (`DataOStream::_resend`),
that of an unbuffered one may be several: `Large` makes it two, so that streams in
the cache are incomplete for a while. A commit is one packet. In the code large commits
are cut up too; the parts follow each other on one stream and are put together
by the slave's change manager before the version is queued, so that for the queue
only the last part counts, but in the cache of an `INSTANCE` object the
stream is incomplete in between, which the model shows for unbuffered objects only.
Mapping with `VERSION_NONE` applies no data: the application has initialized the object
"by other means" (`localNode.h:216`), and `content` takes its word for it, so that
`SlaveContent` says something of such an instance from its first sync on.
A reply repeats the cached range of its request, which in the code it identifies by
`requestID`; only `AnnouncedStaysCached` looks at it.

### 2.3 `InstanceCache`

The entry of one object in `co::InstanceCache` as a value: `Add`, `Pin`, `Release`,
`Erase`, `Expired` are `add`, `operator[]`, `release`, `erase` and `expire`.
`ObjectMapping` keeps one such value for each node and applies these operators in its
handlers. There is one master, so `from` and the master instance never differ, and the cache is below
its size limit (`_releaseItems` drops nothing). With `UseCache = FALSE` a request
announces nothing and nothing is cached (`disableInstanceCache`).

### 2.4 `VersionedObject` - the abstract specification

A head version that counts up, and for each mapped instance the version it
shows, which starts at any committed version and advances one by one. Under the
mapping `head <- version`, `view <- slaveVersion` (0 while an instance is not
mapped) `ObjectMapping` implements it.

### 2.5 `Barrier`

Users are pipe threads; those of a node share one instance. `GetBarrier`,
`Unpack` and `SetVersion` are `Node::getBarrier` with the sync of the instance,
cut where other threads can observe it: `unpack` resets `leaveNotify` *before*
`_unpackOneVersion` sets the version. `Enter`, `Leave`, `TimeoutBarrier` are `enter`
up to its wait and its two outcomes; `CmdEnter` and `CmdEnterReply` are the
handlers, with `Counted`, `Outdated`, `Late`, `Reached`, `Cleanup`, `SendNotify`
for the branches of `_cmdEnter`. `CommitEachRound` is Equalizer's use as a swap
barrier (a new version each frame); without it the same version is entered again and
again. The height is fixed and no node is lost. Time is abstracted: a timed wait
may expire whenever its value is not there, and `_cleanup` may forget any other
request.

### 2.6 `SendToken`

`acquireSendToken`, `releaseSendToken` and their handlers. `expired` stands for
"more than `getTimeout()` since the last release".

### 2.7 `NodeConnect` - connections between nodes

| model | code |
|---|---|
| `conns`, `inbox`, `incoming`, `closed` | connections with a stream in each direction; `_impl->incoming`; closed ends |
| `outgoing` | `_outgoing` of the connected nodes in `_impl->nodes`, and with it `connectionNodes` |
| `call` | a thread in `connect( nodeID )`: its try, the connection it opened, its request |
| `StartConnect`, `AlreadyConnected`, `OpenConnection`, `Unreachable`, `NextTry`, `TryAgain`, `Timeout`, `Connected` | `connect`, `_connect` with its tries, the wait for the handshake |
| `HandleConnect` | `_handleConnect`: the listener accepts |
| `CmdConnect`, `CmdConnectRefused` | `_cmdConnect`, with its answer |
| `CmdConnectSimultaneous`, `CmdConnectReply` | `_cmdConnectReply` when the peer is already connected through another connection, and otherwise |
| `CmdConnectAck` | `_cmdConnectAck` |
| `HandleDisconnect`, `ForgetNode` | `_handleDisconnect` of an end the other side has closed, with `_cmdDisconnect` on the node it was of |
| `CmdDisconnect` | `disconnect` and `_cmdDisconnect` |
| `Stop` | a node is lost |

### 2.8 `RSP` - the reliable stream protocol

One writer, its readers and its connection to itself. The sequence numbers are
those of the code, modulo 2^16; a setup says at which one the stream is looked at.

| model | code |
|---|---|
| `Write` | `write` by the application, which needs an empty buffer |
| `RepeatData`, `WriteData`, `SendAckRequest`, `NothingToSend` | `_processOutgoing` |
| `HandleAck`, `HandleNack`, `AddRepeat` | `_handleAck`, `_handleNack`, `_addRepeat` in the writer's thread |
| `FinishWrite`, `FinishDone` | `_finishWriteQueue`, one buffer at a time; the writer's own connection reads it |
| `DataInOrder`, `DataOutOfOrder`, `DataIgnored`, `Completed`, `EarlyNack` | the branches of `_handleData` and `_handleDataInOrder/OutOfOrder` |
| `HandleAckRequest`, `GotAll`, `Missing`, `Cut` | `_handleAckRequest` and the ranges it asks for |
| `ReadSync` | `readSync` by the application, which gives the buffer back |
| `Fault` | a datagram is lost, repeated, or (with `Reorder`) overtaken |

### 2.9 `TileQueue` - tiles on distributed queues

| model | code |
|---|---|
| `CycleData`, `Unused` | `TileQueue::cycleData`: the oldest queue of the pool, if no frame under way uses it, or a new one |
| `ClearTest`, `ClearPop`, `Push` | `QueueMaster::clear` (a test, then a pop that may block) and `push` |
| `Dim`, `GenerateTiles` and what it uses | `_generateTiles` of `CompoundUpdateOutputVisitor` |
| `SendTasks` | `ChannelUpdateVisitor::_updateDrawTiles` |
| `CmdGetItem` | `QueueMaster::_cmdGetItem` in the server's command thread, racing with the above |
| `FrameTiles`, `PopRequest`, `PopItem`, `PopEmpty` | `Channel::_frameTiles` and `QueueSlave::pop` with its prefetch |

### 2.10 `FrameLoop` - frames in application, server and render clients

| model | code |
|---|---|
| `StartFrame`, `RequestFrame`, `UpdateFinish`, `UpdateAck` | `client::Config::startFrame` with `update` |
| `FinishFrame`, `LocalSync`, `LocalNodeSync`, `GlobalSync` | `finishFrame` and its three waits |
| `FinishAllFrames`, `AllFinished` | `finishAllFrames` |
| `ProcessCommand`, `EnterPop` | the main thread's `processCommand`, which also runs the commands of the node in its process |
| `Receive`, `EnforceUnlock` | the receiver thread: `_cmdFrameFinish`, replies, and the wakeup of the main thread |
| `CmdUpdate`, `WaitIdle`, `UpdateRunning` | `server::Config::_cmdUpdate`: flush, wait, start and stop nodes |
| `CmdStartFrame`, `CmdFinishAllFrames` | `_startFrame` with `Node::update`, `_flushAllFrames` |
| `CmdFrameFinishReply`, `NotifyCheck`, `NotifySet`, `NotifySend` | `Node::_cmdFrameFinishReply` and `notifyNodeFrameFinished`, cut where the other thread of the server can interfere |
| `NodeStep`, `PipeStep`, `Runnable`, `Unlocks`, `After` | the frame commands of `client::Node` and `client::Pipe`, with their waits and releases |

A setup gives the latency, and for each node its thread model, whether its
pipe has a thread, and whether it draws. `Switches` are the changes of the active
nodes an update may make. Nodes start and stop in one step and do not fail.

### 2.11 Operators named `X_Something` next to an operator `X`

They are deliberately wrong variants of `X` (each says how). Putting one in place
of `X` makes TLC report the property named with it under "mutants" in
`PROJECT.json`: this is how we know that each property depends on the code it is
about. No specification uses them.

## 3. Runs

`tlc -config <run>.cfg <module>`; the modules are named in `PROJECT.json`.

| run | instance | shows |
|---|---|---|
| `ObjectMapping_one` | 1 slave with limit 1, 4 versions of instance data, auto-obsolete 1, maps the oldest, no, or version 2, cache on and expiring, the node may be lost, fair (166,379 states) | `SlaveContent`, `MapUnmapReturn`, `CommitCompletes`, `CatchesUp`, both refinements, `CheckConsistency` and `RetainsYoung` |
| `ObjectMapping_flow` | 2 slaves on 1 node with limits 1 and 2, unbuffered, deltas, map data of two packets, 4 versions, cache on (278,801) | `FlowControl` and `SlowestSlaveLimits` with a slower and a faster slave, `PinsBalanced`, `AnnouncedStaysCached` from the request until its reply is handled, and `SlaveContent`: map data reaches only the instance it is for |
| `Barrier_rounds` | 3 users: one on each node with 3 frames, the same with timeouts and 2 frames, and two on one node that enter one version 3 times; fair (169,170) | `LeavesTogether` until someone has given up, `AllRoundsComplete` without timeouts |
| `NodeConnect_pairs` | one node connects the other up to 3 times with 3 disconnects; both connect each other once; one of them may be lost; 3 tries; fair (15,209) | `ConnectReturns`, `EndsAgree`, `Settles`, `CrossingEnds` |
| `RSP_stream` | 3 items, 3 buffers, acknowledgement every 2 datagrams; 1 reader at sequence 0 and at 65535 with 2 faults, 2 readers at 65535 with 1 fault; fair (238,692) | `InOrder`, `KeptUntilReceived`, `WindowRespected`, `EverythingArrives` |
| `TileQueue_frames` | 2 channels, latency 1, 3 frames of a 3x1 viewport in tiles of 2x1, prefetch 2 with mark 1; fair (401,636) | `TilesOfFrame`, `EveryPixelOnce`, `FramesFinish` |
| `FrameLoop_run` | application node and render client, 3 frames, latencies 0 to 2, all thread models, threaded or not, nodes that join and leave; fair (549,472) | `FinishedIsFinished`, `NoNodeFails`, `LocalDataFree`, `FramesInOrder`, `ReconfigureIdle`, `NeverBack`, `CallsReturn` |

Five runs find a disagreement between the code and what it says of itself:

| run | disagreement |
|---|---|
| `ObjectMapping_multicast` | Map data goes through the multicast connection; a commit, while only one node has slaves, goes through its unicast connection. The commit can arrive first, and the versions are queued out of order, which the assertion at `versionedSlaveCM.cpp:341` excludes. |
| `Barrier_threads` | Two pipe threads of a node are released; the first one goes on to the next frame and resets `leaveNotify` before the second has looked at it. The second waits for ever. |
| `SendToken_singular` | `!_impl->sendToken == 0` is true if the token is available: an available token is queued for, a taken one is given out again. |
| `RSP_reorder` | An ack request overtaken by the next datagram: the ranges a reader asks for already reach the requested sequence, one more, empty range is added, taken for one that wraps around and split. The writer is asked to repeat datagrams it has not sent. |
| `NodeConnect_both` | Two nodes connect each other, both accept, and one closes its own connection while the other goes on with it: a `CONNECT_ACK` arrives on a connection without a node. |

### 3.1 Observed while modelling, not kept as runs

Variants of these instances, or consequences read off the code:

* *Mapping a version beyond the head* (`MapFuture = TRUE`): `applyMapData` drops the
  commits that lead to it, though `localNode.h:225` says "mapObject() will block
  until the requested version is available" and an assertion there says that only newer
  data is dropped. The dropped commits are not acknowledged: a slave with
  `getMaxVersions() = 1` that maps two versions ahead blocks the commit it waits for.
* *An incomplete stream at the back of the cache* is announced as
  `VERSION_INVALID`, the largest version (`objectStore.cpp:414`). If the head is newer
  than that stream, the master takes the head for cached and sends nothing; the
  streams in the cache do not contain it, and `mapObject` waits in
  `applyMapData` for ever. It needs an unbuffered object, map data of several
  packets and two instances on a node; `ObjectMapping_flow` checks no liveness
  for this reason, and of such an announcement `AnnouncedStaysCached` says that its
  oldest version stays, not that the version the reply names is there.
* *A limit of nearly 2^64*: `addSlave` (`versionedMasterCM.cpp:117`) adds the head
  version without a test for overflow, which `_sendAck` has. With
  `getMaxVersions() = UINT64_MAX - 1` and a head version of 2 the limit is 0, `TypeOK` and
  `CommitCompletes` fail, and commit waits for ever.
* `InstanceCache::remove` asserts that no data is in use, though a map
  request may be under way when the master's node is lost.
* `addSlave` counts the limit from the head version even if the slave is mapped to
  an old version: its queue can hold more than `getMaxVersions()` versions. This is why
  `FlowControl` is checked for an unbuffered object, whose slaves are always
  mapped at the head.
* A commit that waits is starved by slaves that come and go for ever: the thread in
  `waitGE` need not run while the limit is away. `CommitCompletes` excuses it.
* A user that enters the *same* version of a barrier again after a timeout is counted twice,
  and can pass a barrier of height 2 alone. With a new version in each round this does not
  happen.
* A late reply for the version before can be counted between `unpack` and the
  update of the version. With three users this releases a user of the next round early;
  `LeavesTogether` therefore excuses a round if someone timed out in it or in an
  earlier one.
* *Timeouts and two threads of a node*: with three rounds of new versions, a thread
  whose node is already at version 3 enters rounds 1, 2 and 3, all with version 3.
  The master then counts 4 enters for a barrier of height 3, against
  `LBASSERT( nodes.size() == _impl->height )` in `_cmdEnter` - one more request
  than the bound in `TypeOK`. This is why `BarrierTypeCorrect` is stated without
  timeouts, and why `Barrier_rounds` has timeouts for users on different nodes only.
* Without a timeout, the first client to ask for the send token is never
  answered.
* *A config that goes to no active node.* `notifyNodeFrameFinished`
  (`config.cpp:891`) checks and sets `_finishedFrame` without a lock. When
  no node is active the main thread calls it at the start of a frame (the comment says "Fix
  2976899: Config::finishFrame deadlocks when no nodes are active"); a command
  thread that was delayed between check and set then puts the finished frame back, and
  `finishFrame` hangs. `MCSwitches` leaves this change out; all others are in.
* `Config::unlockedFrame` may go back; nothing depends on it.
* *RSP at the wrap-around*: a repetition that is older than the window and from
  before the wrap is taken for an early datagram (the assertion at
  `rspConnection.cpp:1016`); early datagrams from just behind the wrap are ignored and
  asked for again; a late acknowledgement from before the wrap moves `_acked` back,
  which only delays. `_checkNewID` denies an identifier with its own.
* "There is no close() here" (`localNode.cpp:1601`), but `_removeConnection` closes.

### 3.2 Bounds, and why they are enough

* *Versions* (`LastVersion` 4) and *incarnations* (`LastCommitCount` 3): with
  `setAutoObsolete(1)` two versions are retained, so the first one becomes
  obsolete at the third commit, and is still in a cache. A slave with limit 1 blocks
  commit from the second unacknowledged version on.
* *Instances*: 1 for the refinements and liveness, as a slave interacts with others
  through the streams and the cache of its node and `maxVersion` only; 2 on one
  node for these. One is limited and one is not, so there is no symmetry to use.
  `ObjectMapping_multicast` has one slave node, the case in which commits and map
  data take different connections. `ObjectMapping_one` uses full
  instance data, so that commits enter the cache too; deltas are in
  `ObjectMapping_flow`.
* *`UINT64_MAX`* is 99, a limit that is never reached; sums that wrap around are
  the subject of the theorems, which hold for every value.
* *Rounds of the barrier*: with 3, a node can be one version behind and
  another one ahead of the master; with timeouts, 2 suffice for packets of an
  earlier round.
* *Connections*: up to 3 calls for each caller and 3 tries, so that a try can
  fail, be repeated, and meet a packet of a connection closed before.
* *RSP*: three buffers and three items: the window is full, and a datagram
  can be missing in front of two others. Starting at 65535 the second datagram has sequence 0.
* *Tiles*: latency 1 means two queues; the third frame uses the first one again
  while the second is under way. The second tile is cut at the viewport's edge.
* *Frames*: three, which is one more than the largest latency, so that each run
  waits for a frame to finish.

Deadlock is not checked: every one of these systems may come to rest (all
versions committed, all frames done). That nobody gets stuck *before* is what the
liveness properties say.

### 3.3 Fairness

Weak fairness of every thread that can proceed: receiver and command threads,
the application in a call it has begun (`mapObjectSync`, `applyMapData`, `commit`,
`connect`, `startFrame` ...), pipe threads with a task. Streams are TCP connections, so what
was sent is received unless the node is lost; of RSP's datagrams only a bounded
number is disturbed. The application of a mapped instance is assumed to go on
syncing, as Equalizer does for every frame: without it `commit` with limits must
block, by design. Nothing makes an application map, unmap, commit, connect,
disconnect or time out, and no strong fairness is used: a thread in `waitEQ` is not bound to
see a value that another thread changes again, which is exactly what
`Barrier_threads` is about.

## 4. Proofs

`tlapm <module>.tla` for each of the eight `*_proofs` modules. Every theorem holds
for every value of the constants that satisfies the assumption named in the module the
proofs are about (`MasterAssumption`, `MappingAssumption`,
`ConnectAssumption`, `TileQueueAssumption`, `BarrierAssumption`, `FrameLoopAssumption`: types, and what the
code takes for granted, e.g. that a barrier has more than one user and
that tiles are not empty). Nothing else is assumed unless the table says so.

| theorem | statement |
|---|---|
| `MasterCM_proofs` | every set of instances, limit, `UINT64_MAX`, argument of `setAutoObsolete`, any environment of slaves |
| `MasterTypeCorrect` | `MasterSpec => []MasterTypeOK`, the base of the other invariants; limits are 64 bit numbers, 0 included, as the sum in `addSlave` may wrap around |
| `MasterConsistent` | `MasterSpec => []CheckConsistency`, the assertions of `_checkConsistency` |
| `MasterHeldBackBySlowest` | `MasterSpec => []SlowestSlaveLimits` |
| `MasterRetainsYoung` | `MasterSpec => RetainsYoung`, an action property |
| `ObjectMapping_proofs` | every number of slaves and nodes, with and without multicast, cache, deltas, lost nodes |
| `MappingImplementsMaster` | `Spec => ImplementsMaster`: seen from the change manager the rest of the system is an environment of `MasterSpec` |
| `MappingConsistent`, `MappingHeldBackBySlowest`, `MappingRetainsYoung` | the three properties above, of the whole system |
| `MappingTypeCorrect` | `Spec => []TypeOK`, assuming `NoOverflow`: no slave's limit is so large that head version plus limit exceeds 64 bits. Without it `addSlave` can compute the limit 0, which `TypeOK` excludes |
| `InstanceCache_proofs` | the same system |
| `MappingPinsBalanced` | `Spec => []PinsBalanced`: the cache entry is in use once for each request and reply under way, no more and no less |
| `MappingAnnouncedCached` | `Spec => []AnnouncedStaysCached`: what a request announced as cached is in the cache, complete, from the request until its reply is handled. Of an announcement whose newest stream was incomplete (`VERSION_INVALID`) this is said of its oldest version only |
| `SlaveQueue_proofs` | the same system, with the assumption `UnicastCommitted`: no multicast, no map of a version beyond the head, and versions are smaller than `VERSION_INVALID`. Without the first, `ObjectMapping_multicast` is a counterexample, and so is `MapFuture` (section 3.1) without the second |
| `MappingQueueConsecutive` | `Spec => []QueueConsecutive`, the assertion that multicast violates |
| `MappingSlaveContent` | `Spec => []SlaveContent`: an instance shows what was committed as its version, whichever part came from map data, cache or commits |
| `MappingImplementsObject` | `Spec => ImplementsObject`, the refinement of `VersionedObject` |
| `MappingFlowControl` | `Spec => []FlowControl`, assuming also `MappedAtHead`: `NoOverflow`, and a buffered object is mapped without a version request. Section 3.1 says what happens with old versions |
| `NodeConnect_proofs` | every number of nodes, callers, calls, disconnects, lost nodes and tries (at least 2) |
| `NodesTypeCorrect` | `Spec => []TypeOK` |
| `NodesAgree` | `Spec => []EndsAgree` |
| `TileQueue_proofs` | every number of channels, latency, prefetch, viewport and tile size |
| `TilesTypeCorrect` | `Spec => []TypeOK` |
| `TilesAreOfFrame` | `Spec => []TilesOfFrame`: no channel draws a tile of another frame, though queues are used again |
| `FrameLoop_proofs` | every number of nodes and frames, every latency, thread model, threaded or not, and every change of the active nodes that `KeepsNodes` allows: no update leaves a config without active nodes. Without it `NeverBack` fails (section 3.1) |
| `FrameLoopTypeCorrect` | `Spec => []TypeOK` |
| `FrameLoopFinished` | `Spec => []FinishedIsFinished`: what the application or the server takes for finished, all running nodes and their pipes have finished |
| `FrameLoopNoNodeFails` | `Spec => []NoNodeFails`: `_verifyFrameFinished` never gives up a running node |
| `FrameLoopLocalData` | `Spec => []LocalDataFree`: after `finishFrame`, the local pipe is done with the frame's data as its thread model promises |
| `FrameLoopInOrder` | `Spec => []FramesInOrder`, the assertions of both `_cmdFrameStart` |
| `FrameLoopNeverBack` | `Spec => NeverBack`, an action property: the finished frame does not go back, though two threads set it without a lock |
| `FrameLoopReconfigureIdle` | `Spec => ReconfigureIdle`, an action property: nodes start and stop only when nothing is under way |
| `Barrier_proofs` | every number of users and nodes and every placement of users on nodes, with the assumption `NewVersions`: the barrier is committed for each round, which is how Equalizer's compounds use it |
| `BarrierLeavesTogether` | `Spec => []LeavesTogether`, timeouts included |
| `BarrierTypeCorrect` | `Spec => []TypeOK`, assuming also that no wait has a timeout (section 3.1 says what happens with one) |

### 4.1 The inductive invariants

None of the invariants above is inductive as it stands. Each strengthening was
checked with TLC, on the instance of the component's run, before it was proved.

*`MasterInv`.* `_obsolete` drops from the front and stops at the first version
that is young enough; that the rest contains no obsolete version besides its first
follows only if commit counts do not decrease along the queue. `MasterInv` adds
that (`InCommitOrder`). The lemmas follow the code: `ObsoleteIsSuffix` (what remains
is a suffix), `ObsoleteConsistent` and `ObsoleteKeepsYoung` (what that means
for the retained versions), `AppendConsistent` (a commit appends the next version),
`UpdateMaxVersionIsMinimum`. `MasterSlaveSteps` and `MasterCommitSteps` then have one
step for each action.

*`MappingInv`* is `MasterInv` and the types of every instance, stream, queue and
cache (`InstanceTypeOK`, `NetTypeOK`). The types are what the refinement needs: an
acknowledgement carries a 64 bit limit, a command names instances that exist. With them
`StepIsMasterStep` shows, action by action, that a step of the system is a step of
`MasterNext` or leaves `masterVars` alone, and the results of `MasterCM_proofs`
carry over. `MappingTypeCorrect` adds `Bounds`, that no limit is ever 0.

*`PinInv`.* `PinsBalanced` counts requests in a stream or in the command queue and
replies in a stream. To show that it survives a lost node one has to know
that the requests of a node are for its own instances (`OwnRequests`); to
show that `release` finds the entry, that an entry in use is cached
(`PinnedIsCached`). The counting lemmas say what `Pins` does for `Append`, `Tail`
and concatenation; each handler then moves one pin or none.

*`AnnounceInv`.* What `mapObjectNB` announces, the versions from the oldest to
the newest one that is complete, are cached as a gapless run (`Gapless`), and stay
so until the reply is handled, because the entry is in use. `Announced` says so of every
packet under way that pins the entry: the request in its stream or in the command queue, and
the reply or refusal that answers it (`AnswerBacked`: the answer stands for what its
request announced). The
step that could break it is `add` of a packet to the stream at the back: that it
continues that stream follows from the way map data is sent, the packets
of a version together and in order (`Whole`) and on one connection only
(`OnMapLink`), and from `Expected`: an incomplete stream in the cache is the one whose
next packet is at the head of the connection's map data.

*`QueueInv`.* An instance that is being mapped gets its versions from three places: the
map data sent with the answer, the cache of its node, and the commits that follow. Each
place by itself is in order; that together they have no gap and nothing twice is a matter
of what is committed, cached and expired between request and reply. `QueueInv` has three
parts about the streams (`OneStream`: everything for a node is in one of them;
`OwnPackets`: a packet names instances of the node it goes to; `NoneNewer`: no data is
newer than the head), and for each instance one that says where it stands:
`Tokens` (at most one request of the instance is under way, as a packet up, a command,
or an answer down; every success is followed by its reply), `Knows` (the instance is
attached, or about to be, exactly if the master has it as a slave), `QueueFits` (what is
queued is consecutive and follows the version shown), and `Stage`. `Stage` is the core:
in each stage of `mapObject` it names the versions that are still missing between what
the instance has queued and the head, and where they will come from - from the stream
(`Covers`), from the cache when the reply says so (`LeadsTo`, which needs what
`AnnounceInv` says about cached versions), or from commits (`Trails`). Then
`addInstanceDatas` (`CacheFits`) and `applyMapData` find the versions they look for, and `SlaveContent`, `QueueConsecutive` and the steps of
`VersionedObject` follow. `Unpacked` is the operator all of them are about: instance
data replaces the content, a delta advances the instance by
one version, which is right only on top of the version before.

*`FlowInv`.* The master may be ahead of a slave by the slave's limit, counted from
the last acknowledgement it has handled; later ones may be on their way. `FlowInv` says
of each instance that its acknowledgements do not decrease and come before the request
that ends them (`AcksInOrder`), that none is left once the master handles that request,
until the instance shows a version again (`AcksDone`), that each one raises the limit the master
keeps, up to what the version shown allows (`AcksRaise`), and that this limit is
at most that of the version the instance shows or will show (`LimitFits`). The head is
within the limit, with the version of a commit that has passed its wait but
not yet taken the lock (`HeadWithin`): a slave that is added at that moment is counted
from the head, and its limit allows one more version. It is mapped at the head because
requests ask for nothing else (`HeadRequests`).

*`NetInv`.* `EndsAgree` relates what the two ends of a connection think of each
other. `Handshake` says that at most one packet is under way on a connection, and
which ones exclude that an end has recorded it. `OneConnection` is about two nodes of which
only one connects the other: an open connection is recorded by the caller or waited for
in `connect`, and the two ends disagree only while the acceptance is under way or the other
end is closed. `CallsRun` and `Listening` tie callers and tables to connections. The
lemmas `...Kept` say what an action on another connection leaves alone, so that each
action is looked at only for the connection it is about.

*`TileInv`.* A tile queue is reused after `latency` frames. `PoolInv` (with
`AgesInv`) says that the k-th queue of the pool was last used k - 1 frames ago, and that
no two queues belong to one frame; `TilesInv` that the items of a queue, unless it is
being cleared, are of the frame that uses it; `ChannelInv` that tasks, requests, answers
and prefetched items belong to a frame the channel has not finished, and that an
empty answer to its latest request means that no tile is left anywhere.
The difficult case is `CmdGetItem`, which answers a request while the server clears
and refills queues in another thread: the request's queue is the one of an open frame, so
it is not the one being cleared.

*`BarrierInv`.* Each version nobody gave up is in one of two phases (`PhaseInv`).
While it *is open*, no user has left it and no reply for it exists, and the enters counted by the
master plus those under way are no more than the users that have entered. When it *is
over*, all users have entered, nothing of it is left on the way to the master, and a
node gets at most one reply, which finds it at that version. The step from the first
to the second is `CmdEnter` with the last enter: as many enters as the height
and each user entering a version once means that everybody has entered.
`SyncInv` says how far the instance of a node can be from the rounds of its users;
`PatientInv` that nobody gives up without a timeout.

*`FrameInv`.* Application, server, node and pipe each count frames; each learns of the
others' counters from messages, and every property compares two of them. `Chain` orders the counters of a running node: the frame
the server takes for finished, the last reply it has handled, the node's finished frame, the one
up to which finishes were flushed, the server's current frame; and beside it the
pipe's finished and unlocked frames. What is under way must not
break the order when it arrives: `NodeAhead` and `PipeAhead` say of every queued command, and
`Replying` of every reply, which counters its frame lies between, and
`InOrder` that it comes after everything it has to (`Follows`: starts in order, nothing of
a frame after its finish). `Coming` says that no frame is left out, which
`FramesInOrder` needs: the next start is that of the very next frame.
`StoppedInv` keeps other nodes without tasks, so that a node that joins
starts at the server's frame with empty queues.

`NotifyInv` is about `notifyNodeFrameFinished`, which the server's main and command threads
run without a lock. A thread that has passed the check holds a frame that all
running nodes have finished; the command thread's frame is moreover the latest that
some running node has finished. So when the main thread also passes the check, with the current
frame, both hold the same frame, and no order of their assignments can put it back. That
argument needs a running node whenever the command thread is between check and set:
this is what `KeepsNodes` is for.

`UpdateInv` and `RequestInv` follow the request of an update and of a frame: at
most one of each is under way, and the server waits for idle nodes exactly while
the application is in `update`, so that nodes change when all queues are empty.
`ToldInv` bounds the application by its latency, from which `NoNodeFails` follows,
and `LocalInv` says that the main thread does not leave the waits of `finishFrame`
before the local pipe has released the frame. One lemma for each action shows that it keeps `FrameInv`;
the lemmas about `In` and `Ordered` say what `Append`, `Tail` and concatenation do to a
stream, and `Finishes`, that flushing sends exactly the missing finishes, in order.

### 4.2 Only model-checked

* All liveness properties (`MapUnmapReturn`, `CommitCompletes`, `CatchesUp`,
  `AllRoundsComplete`, `ConnectReturns`, `Settles`, `CrossingEnds`,
  `EverythingArrives`, `FramesFinish`, `CallsReturn`): fairness is out of TLAPS's
  reach.
* The slave properties with multicast or with versions mapped beyond the head: they do
  not hold. `CommitCompletes` and `CatchesUp` are liveness.
* `EveryPixelOnce`: that the generated tiles cover the viewport is an induction over
  the sequence of tiles.
* `FrameLoop` with an update that leaves no active node: `NeverBack` does not hold.
* `RSP`: its properties hold for a bounded number of disturbed datagrams only. With more,
  a repetition from before the wrap-around is taken for an early datagram (section 3.1),
  so there is no invariant for every value of the constants.
* The barrier with one version for all rounds, and `SendToken`, whose property does
  not hold.

## 5. Not modelled, and why

* Transports, byte streams, compression, plugins, the configuration loader,
  OpenGL: input, output and encoding; the models assume what they provide (streams in order,
  data that arrives as it was sent). They, the examples, the vendored code and the
  classes of fabric and sequel that only hold data are most of the repository's lines.
* Compounds and load balancing: sequential computations, the latter in floating
  point.
* Fabric, admin, sequel, examples: data members and thin layers above the
  libraries.
* Failures in the frame loop (`_verifyFrameFinished` beyond its condition, timeouts,
  `IATTR_ROBUSTNESS`), and the steps in which pipes, windows and channels are
  initialized.
* RSP's negotiation of identifiers, members that leave, and the send rate, which is
  real-valued.
* `lunchbox` (requests, monitors, queues, threads) is not in the repository: the
  modules use it as a monitor or queue that does what its callers expect. So a request that times out
  exactly when it is served is not treated.
* Loss of the master's node, slave commits, the command cache: see the plan.

## 6. Plan

1. **Proofs**: `LeavesTogether` for a barrier with one version, which needs an
   invariant about late replies; `EveryPixelOnce`, once induction over sequences is in
   reach of the prover; the properties of RSP for a stream without wrap-around.
2. **Entities**: initialization and exit of nodes, pipes, windows and channels
   (the states of `server/node`, `server/pipe`, ...), which `FrameLoop` takes
   as one step.
3. **RSP membership**: `ID_HELLO` to `ID_CONFIRM`, and members that are given up.
4. **Slave commits** (`_slaveCommits`, `DataIStreamQueue`) and the object map.
5. **Command cache**: no buffer is reused while it is referenced.
