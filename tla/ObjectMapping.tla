---------------------------- MODULE ObjectMapping ----------------------------
(***************************************************************************)
(* Distribution of one versioned object: the master change manager         *)
(* (MasterCM) on its node, slave instances (VersionedSlaveCM) on other     *)
(* nodes, and the packets the object stores exchange.                      *)
(*                                                                         *)
(* A node has a receiver thread, which takes packets off the connections,  *)
(* a command thread, which executes the queued ones, and an application    *)
(* thread per slave instance, which maps, syncs and unmaps it.  The        *)
(* connection from the master to a node is a unicast stream and, with      *)
(* UseMulticast, a multicast stream shared by all nodes; each is in order  *)
(* and reliable, their relative order is not defined.  A node keeps the    *)
(* instance data it receives in a cache, which later map requests use.     *)
(***************************************************************************)
EXTENDS MasterCM, InstanceCache, FiniteSets

CONSTANTS
    Nodes,          \* nodes with slave instances
    NodeOf,         \* the node of each instance
    UseMulticast,   \* all nodes are in one multicast group
    UseCache,       \* FALSE after LocalNode::disableInstanceCache
    Large,          \* instance data is larger than the object buffer
    Requests,       \* the version arguments applications map with
    MapFuture,      \* applications may map a version not yet committed
    MayFail,        \* nodes that may be lost
    LastVersion     \* bound: the last version committed

ASSUME MappingAssumption ==
    /\ NodeOf \in [Instances -> Nodes]
    /\ UseMulticast \in BOOLEAN /\ UseCache \in BOOLEAN /\ Large \in BOOLEAN
    /\ MapFuture \in BOOLEAN
    /\ Requests \subseteq (Nat \cup {VERSION_OLDEST})
    /\ MayFail \subseteq Nodes
    /\ LastVersion \in Nat \ {0}

VARIABLES
    master,       \* registration state of the master object
    state,        \* what the application of each instance is doing
    attached,     \* instances in the dispatch table of their node
    queue,        \* VersionedSlaveCM::_queuedVersions
    mapTo,        \* the version of the map reply
    slaveVersion, \* VersionedSlaveCM::_version
    content,      \* what applying the data made of the instance: the version
                  \* whose content it has
    cache,        \* the object's entry in each node's InstanceCache
    alive,        \* nodes that are connected
    down,         \* streams from the master to each node
    up,           \* stream from each node to the master
    cmdQueue      \* queue of the master's command thread

instanceVars == <<state, attached, queue, mapTo, slaveVersion, content>>
slaveVars == <<instanceVars, cache>>
netVars == <<alive, down, up, cmdQueue>>
vars == <<masterVars, master, slaveVars, netVars>>

Links == {"unicast", "multicast"}
On(n) == {i \in Instances : NodeOf[i] = n}
IsDelta == ChangeType # "INSTANCE"

VERSION_INVALID == UINT64_MAX - 1

\* A packet, the instances it is for and the version it carries; a map request
\* with the range of cached versions, its reply, and a packet of map data.  In
\* the code a reply names its request by the requestID only; that it repeats
\* what the request announced is for AnnouncedStaysCached, no step reads it.
Packet(type, insts, v) == [type |-> type, insts |-> insts, version |-> v]

MapRequest(i, v, use, min, max) ==
    [type |-> "mapObject", insts |-> {i}, version |-> v,
     useCache |-> use, minCached |-> min, maxCached |-> max]

Reply(type, request, v, use) ==
    [type |-> type, insts |-> request.insts, version |-> v,
     releaseCache |-> request.useCache, useCache |-> use,
     minCached |-> request.minCached, maxCached |-> request.maxCached]

MapPacket(i, v, last) ==
    [type |-> "map", insts |-> {i}, version |-> v, last |-> last]

-----------------------------------------------------------------------------
(* Streams.                                                                *)

MapLink == IF UseMulticast THEN "multicast" ELSE "unicast"

(* gatherConnections: a multicast stream is used if two receivers or more  *)
(* share it, and reaches the whole group.                                  *)
CommitLink(receivers) ==
    IF UseMulticast /\ Cardinality(receivers \cap alive) > 1
    THEN "multicast" ELSE "unicast"

Send(receivers, link, packets) ==
    down' = [n \in Nodes |->
        IF n \in alive /\ (n \in receivers \/ link = "multicast")
        THEN [down[n] EXCEPT ![link] = @ \o packets]
        ELSE down[n]]

SendUp(n, packet) == up' = [up EXCEPT ![n] = Append(@, packet)]

SlaveNodes == {NodeOf[i] : i \in slaves}

-----------------------------------------------------------------------------
Init ==
    /\ MasterInit
    /\ master = "registered"
    /\ state = [i \in Instances |-> "unmapped"]
    /\ attached = {}
    /\ queue = [i \in Instances |-> <<>>]
    /\ mapTo = [i \in Instances |-> VERSION_NONE]
    /\ slaveVersion = [i \in Instances |-> VERSION_NONE]
    /\ content = [i \in Instances |-> VERSION_NONE]
    /\ cache = [n \in Nodes |-> NoItem]
    /\ alive = Nodes
    /\ down = [n \in Nodes |-> [l \in Links |-> <<>>]]
    /\ up = [n \in Nodes |-> <<>>]
    /\ cmdQueue = <<>>

-----------------------------------------------------------------------------
(* The application thread of the master.                                   *)

(* commit of changes: a new version, sent to the slaves.  Its data is one  *)
(* packet here.  In the code large data is cut into several, which follow  *)
(* each other on their stream; the slave's change manager collects them    *)
(* and queues the version when the last one comes.                         *)
NewVersion ==
    /\ master = "registered"
    /\ version < LastVersion
    /\ \E incarnation \in commitCount..LastCommitCount : CommitLocked(incarnation)
    /\ Send(SlaveNodes, CommitLink(SlaveNodes),
            <<Packet("commit", Instances, version + 1)>>)
    /\ UNCHANGED <<master, slaveVars, alive, up, cmdQueue>>

MasterOnly ==
    /\ master = "registered"
    /\ \/ version < LastVersion /\ (CommitBegin \/ CommitProceed)
       \/ \E incarnation \in commitCount..LastCommitCount :
             CommitClean(incarnation) \/ CommitEmpty(incarnation)
       \/ \E count \in AutoObsolete : SetAutoObsolete(count)
    /\ UNCHANGED <<master, slaveVars, netVars>>

(* deregisterObject: notifyDetach tells the nodes that have slaves at that *)
(* moment, then the object is detached and its change manager deleted.     *)
DeregisterNotify ==
    /\ master = "registered" /\ committing = "idle"
    /\ master' = "detaching"
    /\ down' = [n \in Nodes |->
           IF n \in alive \cap SlaveNodes
           THEN [down[n] EXCEPT !["unicast"] =
                     Append(@, Packet("unmap", On(n), VERSION_NONE))]
           ELSE down[n]]
    /\ UNCHANGED <<masterVars, slaveVars, alive, up, cmdQueue>>

DeregisterDetach ==
    /\ master = "detaching"
    /\ master' = "gone"
    /\ RemoveSlaves(Instances)
    /\ UNCHANGED <<slaveVars, netVars>>

-----------------------------------------------------------------------------
(* The receiver and the command thread of the master's node.               *)

\* Mutant: acknowledgements are queued like all other commands.
MasterReceive_AllQueued(n) ==
    /\ up[n] # <<>>
    /\ up' = [up EXCEPT ![n] = Tail(@)]
    /\ cmdQueue' = Append(cmdQueue, Head(up[n]))
    /\ UNCHANGED <<masterVars, master, slaveVars, alive, down>>

(* Acknowledgements are handled by the receiver thread (and stay pending   *)
(* when the object is gone), everything else is queued.                    *)
MasterReceive(n) ==
    /\ up[n] # <<>>
    /\ up' = [up EXCEPT ![n] = Tail(@)]
    /\ LET packet == Head(up[n]) IN
       IF packet.type = "maxVersion"
       THEN /\ IF master = "gone" THEN UNCHANGED masterVars
               ELSE \E i \in packet.insts : CmdMaxVersion(i, packet.version)
            /\ UNCHANGED cmdQueue
       ELSE /\ cmdQueue' = Append(cmdQueue, packet)
            /\ UNCHANGED masterVars
    /\ UNCHANGED <<master, slaveVars, alive, down>>

(* The reply uses the cache of the slave's node: of a buffered object      *)
(* whenever there is one, of an unbuffered one if it has the version.      *)
CacheHit(request, v) ==
    request.useCache /\ request.minCached =< v /\ v =< request.maxCached

RepliesUseCache(request) ==
    /\ request.version # VERSION_NONE
    /\ request.useCache
    /\ Buffered \/ CacheHit(request, MappedVersion(request.version))

\* Mutant: the cached versions end with the head version.
SentVersions_TrustsCache(request) ==
    IF CacheHit(request, MappedVersion(request.version))
    THEN [start |-> version + 1, end |-> version]
    ELSE MapDataRange(request.version)

(* _initSlave of a buffered object: the retained versions from the mapped  *)
(* one on, without those at either end that are cached.                    *)
SentVersions(request) ==
    LET all == MapDataRange(request.version) IN
    IF CacheHit(request, all.start) THEN [all EXCEPT !.start = request.maxCached + 1]
    ELSE IF /\ request.useCache /\ request.maxCached = all.end
            /\ request.minCached \in all.start + 1..all.end
    THEN [all EXCEPT !.end = request.minCached - 1]
    ELSE all

(* What a new slave is sent: without a version (_sendEmptyVersion), or of  *)
(* an unbuffered object that is not cached, the current version; data that *)
(* is written while it is sent (ObjectCM::_initSlave) may take several     *)
(* packets.                                                                *)
MapData(i, request) ==
    IF request.version = VERSION_NONE THEN <<Packet("empty", {i}, version)>>
    ELSE IF Buffered
    THEN LET range == SentVersions(request)
             dropped == instanceDatas[1].version - 1
             sent == SubSeq(instanceDatas, range.start - dropped, range.end - dropped)
         IN  [k \in 1..Len(sent) |-> MapPacket(i, sent[k].version, TRUE)]
    ELSE IF RepliesUseCache(request) THEN <<>>
    ELSE IF Large THEN <<MapPacket(i, version, FALSE), MapPacket(i, version, TRUE)>>
    ELSE <<MapPacket(i, version, TRUE)>>

\* Mutant: no answer when the master object is gone.
CmdMapObject_NoAnswer(packet) ==
    /\ packet.type = "mapObject"
    /\ LET i == CHOOSE j \in packet.insts : TRUE IN
       IF master = "gone"
       THEN UNCHANGED <<masterVars, down>>
       ELSE /\ AddSlave(i)
            /\ Send({NodeOf[i]}, "unicast", <<Packet("success", {i}, VERSION_NONE),
                   Packet("empty", {i}, version), Reply("reply", packet, version, FALSE)>>)

(* _cmdMapObject: a new slave, its success packet, the map data and the    *)
(* reply; a negative reply if there is no master object.                   *)
CmdMapObject(packet) ==
    /\ packet.type = "mapObject"
    /\ LET i == CHOOSE j \in packet.insts : TRUE
           data == MapData(i, packet)
           link == IF packet.version = VERSION_NONE \/ data = <<>>
                   THEN "unicast" ELSE MapLink
       IN  IF master = "gone"
           THEN /\ UNCHANGED masterVars
                /\ Send({NodeOf[i]}, "unicast",
                        <<Reply("failed", packet, packet.version, FALSE)>>)
           ELSE /\ AddSlave(i)
                /\ Send({NodeOf[i]}, link,
                        <<Packet("success", {i}, VERSION_NONE)>> \o data
                        \o <<Reply("reply", packet, MappedVersion(packet.version),
                                   RepliesUseCache(packet))>>)

\* Mutants: the slave stays subscribed; it leaves and its limit stays in force;
\* it is not told when the master is gone.
CmdUnsubscribeObject_LimitStays(packet) ==
    /\ packet.type = "unsubscribe"
    /\ IF master = "gone" THEN UNCHANGED slaves ELSE slaves' = slaves \ packet.insts
    /\ UNCHANGED <<version, commitCount, nVersions, instanceDatas, slaveMax,
                   maxVersion, committing>>
    /\ Send({NodeOf[i] : i \in packet.insts}, "unicast",
            <<Packet("detach", packet.insts, VERSION_NONE)>>)

(* _cmdUnsubscribeObject: the slave is told to detach in any case.         *)
CmdUnsubscribeObject(packet) ==
    /\ packet.type = "unsubscribe"
    /\ IF master = "gone" THEN UNCHANGED masterVars ELSE RemoveSlaves(packet.insts)
    /\ Send({NodeOf[i] : i \in packet.insts}, "unicast",
            <<Packet("detach", packet.insts, VERSION_NONE)>>)

(* _cmdRemoveNode: the connection to a node was lost.                      *)
CmdRemoveNode(packet) ==
    /\ packet.type = "removeNode"
    /\ IF master = "gone" THEN UNCHANGED masterVars ELSE RemoveSlaves(packet.insts)
    /\ UNCHANGED down

MasterCommand ==
    /\ cmdQueue # <<>>
    /\ cmdQueue' = Tail(cmdQueue)
    /\ LET packet == Head(cmdQueue)
       IN  CmdMapObject(packet) \/ CmdUnsubscribeObject(packet) \/ CmdRemoveNode(packet)
    /\ UNCHANGED <<master, slaveVars, alive, up>>

-----------------------------------------------------------------------------
(* The receiver thread of a slave's node.                                  *)

(* _cmdMapObjectSuccess: a new change manager, and the instance is         *)
(* attached to the dispatch table.                                         *)
CmdMapObjectSuccess(mine) ==
    /\ attached' = attached \cup mine
    /\ queue' = [i \in Instances |-> IF i \in mine THEN <<>> ELSE queue[i]]
    /\ slaveVersion' = [i \in Instances |->
                            IF i \in mine THEN VERSION_NONE ELSE slaveVersion[i]]
    /\ UNCHANGED <<state, mapTo, content>>

(* The complete ones among the cached streams of versions from..to, which  *)
(* addInstanceDatas finds by looking at each: cached versions have no gap, *)
(* and only the newest may be incomplete.                                  *)
CompleteStreams(item, from, to) ==
    LET streams == item.versions
        before == streams[1].version - 1
        complete == IF Newest(item).ready THEN Len(streams) ELSE Len(streams) - 1
        first == IF from > before THEN from - before ELSE 1
        last == IF to < before + complete THEN to - before ELSE complete
    IN  IF Cached(item) THEN SubSeq(streams, first, last) ELSE <<>>

(* addInstanceDatas: the complete cached streams from the mapped version   *)
(* on, in front of the versions received so far and behind them.           *)
AddInstanceDatas(q, item, start) ==
    LET oldest == IF q = <<>> THEN VERSION_NONE ELSE q[1].version
        newest == IF q = <<>> THEN VERSION_NONE ELSE q[Len(q)].version
        Queued(p) == [k \in 1..Len(p) |-> [version |-> p[k].version, delta |-> FALSE]]
    IN  Queued(CompleteStreams(item, start, oldest - 1)) \o q
        \o Queued(CompleteStreams(item, IF start > newest THEN start ELSE newest + 1,
                                  Newest(item).version))

\* Mutant: a negative reply does not release the cache.
CmdMapObjectReply_KeepsPin(n, mine, packet) ==
    /\ mapTo' = [i \in Instances |-> IF i \in mine THEN packet.version ELSE mapTo[i]]
    /\ state' = [i \in Instances |-> IF i \in mine THEN "replied" ELSE state[i]]
    /\ cache' = [cache EXCEPT ![n] =
           IF mine # {} /\ packet.releaseCache /\ packet.type = "reply"
           THEN Release(@, 1) ELSE @]
    /\ UNCHANGED <<attached, queue, slaveVersion, content>>

(* _cmdMapObjectReply takes data from the cache, releases it and serves    *)
(* the request mapObjectSync waits for.                                    *)
CmdMapObjectReply(n, mine, packet) ==
    /\ mapTo' = [i \in Instances |-> IF i \in mine THEN packet.version ELSE mapTo[i]]
    /\ state' = [i \in Instances |-> IF i \in mine THEN "replied" ELSE state[i]]
    /\ queue' = [i \in Instances |->
           IF i \in mine /\ packet.useCache
           THEN AddInstanceDatas(queue[i], cache[n], packet.version) ELSE queue[i]]
    /\ cache' = [cache EXCEPT ![n] =
           IF mine = {} THEN @
           ELSE IF packet.useCache THEN Release(Pin(@), 2)
           ELSE IF packet.releaseCache THEN Release(@, 1) ELSE @]
    /\ UNCHANGED <<attached, slaveVersion, content>>

\* Mutants: map data reaches all instances of the object; commits that come
\* before the map data was applied are ignored.
CmdData_AnyInstance(mine, v, delta) ==
    /\ queue' = [i \in Instances |->
           IF mine # {} /\ i \in attached
           THEN Append(queue[i], [version |-> v, delta |-> delta])
           ELSE queue[i]]
    /\ UNCHANGED <<state, attached, mapTo, slaveVersion, content>>

CmdData_DropsEarlyCommit(mine, v, delta) ==
    /\ queue' = [i \in Instances |->
           IF i \in mine \cap attached /\ state[i] \in {"mapping", "mapped"}
           THEN Append(queue[i], [version |-> v, delta |-> delta])
           ELSE queue[i]]
    /\ UNCHANGED <<state, attached, mapTo, slaveVersion, content>>

(* dispatchObjectCommand and _cmdData: data is queued at the attached      *)
(* instances it is for; without any it is dropped.                         *)
CmdData(mine, v, delta) ==
    /\ queue' = [i \in Instances |->
           IF i \in mine \cap attached
           THEN Append(queue[i], [version |-> v, delta |-> delta])
           ELSE queue[i]]
    /\ UNCHANGED <<state, attached, mapTo, slaveVersion, content>>

(* _cmdInstance: instance data of a mapping or of a commit is cached, also *)
(* when it is for others, and queued when it is complete.                  *)
CmdInstance(n, mine, v, last) ==
    /\ cache' = IF UseCache THEN [cache EXCEPT ![n] = Add(@, v, last)] ELSE cache
    /\ IF last THEN CmdData(mine, v, FALSE) ELSE UNCHANGED instanceVars

(* Once its application has done with it, nothing reads the change manager *)
(* of an instance any more: its state is forgotten.                        *)
Forget(gone) ==
    /\ state' = [i \in Instances |-> IF i \in gone THEN "unmapped" ELSE state[i]]
    /\ queue' = [i \in Instances |-> IF i \in gone THEN <<>> ELSE queue[i]]
    /\ mapTo' = [i \in Instances |-> IF i \in gone THEN VERSION_NONE ELSE mapTo[i]]
    /\ slaveVersion' = [i \in Instances |->
                            IF i \in gone THEN VERSION_NONE ELSE slaveVersion[i]]
    /\ content' = [i \in Instances |->
                       IF i \in gone THEN VERSION_NONE ELSE content[i]]

(* _cmdDetachObject serves the request unmapObject waits for.              *)
CmdDetachObject(mine) ==
    /\ attached' = attached \ mine
    /\ Forget(mine)

(* _cmdUnmapObject detaches all instances of the node, their applications  *)
(* are not told.                                                           *)
CmdUnmapObject(n, mine) ==
    /\ attached' = attached \ mine
    /\ cache' = [cache EXCEPT ![n] = Erase(@)]
    /\ UNCHANGED <<state, queue, mapTo, slaveVersion, content>>

Receive(n, link) ==
    /\ down[n][link] # <<>>
    /\ down' = [down EXCEPT ![n][link] = Tail(@)]
    /\ LET packet == Head(down[n][link])
           mine == packet.insts \cap On(n)
       IN  \/ packet.type = "success" /\ CmdMapObjectSuccess(mine) /\ UNCHANGED cache
           \/ packet.type \in {"reply", "failed"} /\ CmdMapObjectReply(n, mine, packet)
           \/ packet.type = "map" /\ CmdInstance(n, mine, packet.version, packet.last)
           \/ /\ packet.type = "empty" /\ CmdData(mine, packet.version, FALSE)
              /\ UNCHANGED cache
           \/ /\ packet.type = "commit"
              /\ IF IsDelta THEN CmdData(mine, packet.version, TRUE) /\ UNCHANGED cache
                            ELSE CmdInstance(n, mine, packet.version, TRUE)
           \/ packet.type = "detach" /\ CmdDetachObject(mine) /\ UNCHANGED cache
           \/ packet.type = "unmap" /\ CmdUnmapObject(n, mine)
    /\ UNCHANGED <<masterVars, master, alive, up, cmdQueue>>

-----------------------------------------------------------------------------
(* The application thread of a slave instance.                             *)

(* getVersion of a stream that is not ready *)
GetVersion(stream) == IF stream.ready THEN stream.version ELSE VERSION_INVALID

(* mapObjectNB announces and pins what the cache has.  (It reads the       *)
(* streams without the cache's lock; while they are pinned only the newest *)
(* may change, which is as if the request came later.)                     *)
MapObjectNB(i, requested) ==
    LET n == NodeOf[i]
        item == cache[n]
    IN  /\ n \in alive
        /\ state[i] = "unmapped"
        /\ requested =< version \/ MapFuture
        /\ state' = [state EXCEPT ![i] = "mapping"]
        /\ cache' = [cache EXCEPT ![n] = Pin(@)]
        /\ SendUp(n, IF Cached(item)
                     THEN MapRequest(i, requested, TRUE, GetVersion(item.versions[1]),
                                     GetVersion(Newest(item)))
                     ELSE MapRequest(i, requested, FALSE, VERSION_NONE, VERSION_NONE))
        /\ UNCHANGED <<masterVars, master, attached, queue, mapTo, slaveVersion,
                       content, alive, down, cmdQueue>>

(* mapObjectSync: the request was served; without an attached object the   *)
(* mapping failed.                                                         *)
MapObjectSync(i) ==
    /\ state[i] = "replied"
    /\ IF i \in attached
       THEN /\ state' = [state EXCEPT ![i] = "applying"]
            /\ UNCHANGED <<queue, mapTo, slaveVersion, content>>
       ELSE Forget({i})
    /\ UNCHANGED <<masterVars, master, attached, cache, netVars>>

(* What data makes of the content of an instance: instance data replaces   *)
(* it, a delta advances it by one version.  From an empty version nothing  *)
(* is applied: an application that maps without a version has initialized  *)
(* the object "by other means" (localNode.h:216), and its content is taken *)
(* to be what it vouches for, that of the version it is mapped to.         *)
Unpacked(data, old) == IF data.delta THEN old + 1 ELSE data.version

(* One pop of the loop in applyMapData: data of another version than the   *)
(* mapped one is dropped.  That the mapped one is instance data is an      *)
(* assertion of the code, not a guard.                                     *)
ApplyMapData(i) ==
    /\ state[i] = "applying"
    /\ queue[i] # <<>>
    /\ queue' = [queue EXCEPT ![i] = Tail(@)]
    /\ LET data == Head(queue[i]) IN
       IF data.version = mapTo[i]
       THEN /\ state' = [state EXCEPT ![i] = "mapped"]
            /\ slaveVersion' = [slaveVersion EXCEPT ![i] = data.version]
            /\ content' = [content EXCEPT ![i] = Unpacked(data, @)]
       ELSE UNCHANGED <<state, slaveVersion, content>>
    /\ UNCHANGED <<masterVars, master, attached, mapTo, cache, netVars>>

(* _sendAck: no limit is sent when the 64 bit sum overflows or the         *)
(* instance has no limit.                                                  *)
SendAck(i, v) ==
    LET limit == (v + MaxVersions[i]) % (UINT64_MAX + 1) IN
    IF limit =< v THEN UNCHANGED up
    ELSE SendUp(NodeOf[i], Packet("maxVersion", {i}, limit))

(* One pop of the loop in sync: _unpackOneVersion and _sendAck.            *)
UnpackOneVersion(i) ==
    /\ state[i] = "mapped"
    /\ queue[i] # <<>>
    /\ queue' = [queue EXCEPT ![i] = Tail(@)]
    /\ LET data == Head(queue[i]) IN
       /\ slaveVersion' = [slaveVersion EXCEPT ![i] = data.version]
       /\ content' = [content EXCEPT ![i] = Unpacked(data, @)]
       /\ SendAck(i, data.version)
    /\ UNCHANGED <<masterVars, master, state, attached, mapTo, cache, alive, down,
                   cmdQueue>>

UnmapObject(i) ==
    /\ state[i] = "mapped"
    /\ IF i \in attached
       THEN /\ state' = [state EXCEPT ![i] = "unmapping"]
            /\ SendUp(NodeOf[i], Packet("unsubscribe", {i}, VERSION_NONE))
            /\ UNCHANGED <<queue, mapTo, slaveVersion, content>>
       ELSE Forget({i}) /\ UNCHANGED up
    /\ UNCHANGED <<masterVars, master, attached, cache, alive, down, cmdQueue>>

(* expireInstanceData, as finishFrame calls it.                            *)
Expire(n) ==
    /\ n \in alive
    /\ cache' \in {[cache EXCEPT ![n] = item] : item \in Expired(cache[n]) \ {cache[n]}}
    /\ UNCHANGED <<masterVars, master, instanceVars, netVars>>

-----------------------------------------------------------------------------
(* A node is lost.  The master reads what the node had sent before it      *)
(* handles the disconnect (_handleDisconnect).                             *)
NodeLost(n) ==
    /\ n \in alive \cap MayFail
    /\ alive' = alive \ {n}
    /\ down' = [down EXCEPT ![n] = [l \in Links |-> <<>>]]
    /\ SendUp(n, Packet("removeNode", On(n), VERSION_NONE))
    /\ attached' = attached \ On(n)
    /\ Forget(On(n))
    /\ cache' = [cache EXCEPT ![n] = NoItem]
    /\ UNCHANGED <<masterVars, master, cmdQueue>>

-----------------------------------------------------------------------------
SlaveNext(i) ==
    \/ \E requested \in Requests : MapObjectNB(i, requested)
    \/ MapObjectSync(i)
    \/ ApplyMapData(i)
    \/ UnpackOneVersion(i)
    \/ UnmapObject(i)

Next ==
    \/ NewVersion
    \/ MasterOnly
    \/ DeregisterNotify
    \/ DeregisterDetach
    \/ \E n \in Nodes : MasterReceive(n) \/ Expire(n) \/ NodeLost(n)
    \/ MasterCommand
    \/ \E n \in Nodes, link \in Links : Receive(n, link)
    \/ \E i \in Instances : SlaveNext(i)

Spec == Init /\ [][Next]_vars
-----------------------------------------------------------------------------
(* Properties.                                                             *)

Showing(i) == state[i] \in {"mapped", "unmapping"}

\* Type invariant: no version beyond the bound, no limit of a slave that would
\* never let a commit through, and every packet is one its receiver handles.
TypeOK ==
    /\ version \in 1..LastVersion
    /\ commitCount \in 0..LastCommitCount
    /\ instanceDatas \in Seq(InstanceData)
    /\ slaveMax \in [Instances -> 1..UINT64_MAX]
    /\ maxVersion \in 1..UINT64_MAX
    /\ slaves \subseteq Instances
    /\ master \in {"registered", "detaching", "gone"}
    /\ state \in [Instances -> {"unmapped", "mapping", "replied", "applying",
                                "mapped", "unmapping"}]
    /\ attached \subseteq Instances
    /\ slaveVersion \in [Instances -> 0..LastVersion]
    /\ content \in [Instances -> Nat]
    /\ \A k \in 1..Len(cmdQueue) :
          cmdQueue[k].type \in {"mapObject", "unsubscribe", "removeNode"}

\* A slave instance that shows version v has the content the master
\* committed as v, and what it will apply next is v + 1, v + 2, ... without a
\* gap or a repetition (the assertions in _unpackOneVersion and _cmdData).
SlaveContent ==
    \A i \in Instances : Showing(i) =>
        /\ content[i] = slaveVersion[i]
        /\ \A k \in 1..Len(queue[i]) : queue[i][k].version = slaveVersion[i] + k

\* Versions are queued in order and without gaps (the assertion in
\* _cmdData), also while the instance is being mapped.
QueueConsecutive ==
    \A i \in Instances : \A k \in 1..Len(queue[i]) - 1 :
        queue[i][k + 1].version = queue[i][k].version + 1

\* A request or a reply under way for which data of node n is pinned, and
\* their number in a stream.
IsPin(n, p) ==
    /\ p.insts \subseteq On(n)
    /\ \/ p.type = "mapObject" /\ p.useCache
       \/ p.type \in {"reply", "failed"} /\ p.releaseCache

Pins(n, q) == Cardinality({k \in 1..Len(q) : IsPin(n, q[k])})

\* Cached data is pinned by the map requests under way and by nothing else,
\* whether they succeed, fail or find the object gone: data in use is never
\* dropped, and data nobody uses can expire.
PinsBalanced ==
    \A n \in alive :
        cache[n].access = Pins(n, up[n]) + Pins(n, cmdQueue)
            + Pins(n, down[n]["unicast"]) + Pins(n, down[n]["multicast"])

\* The versions a map request announced, of which the master may send none.
\* When the newest stream was incomplete, announced as VERSION_INVALID, it is
\* the oldest version alone that is known to be complete.
AnnouncedBy(p) ==
    IF p.maxCached # VERSION_INVALID THEN p.minCached..p.maxCached
    ELSE {p.minCached} \ {VERSION_INVALID}

\* What a map request announced as cached stays in the cache, complete, while
\* the request is sent, waits for the master's command thread and is answered,
\* until the reply is handled and takes it from there (_cmdMapObjectReply), or
\* is refused; whatever expires, is received or is unmapped meanwhile.
AnnouncedStaysCached ==
    \A n \in alive :
        LET complete == {k \in 1..Len(cache[n].versions) : cache[n].versions[k].ready}
            ready == {cache[n].versions[k].version : k \in complete}
        IN  \A q \in {up[n], cmdQueue} \cup {down[n][link] : link \in Links} :
                \A k \in 1..Len(q) :
                    IsPin(n, q[k]) => AnnouncedBy(q[k]) \subseteq ready

Limited(i) == MaxVersions[i] \notin {0, UINT64_MAX}

\* A slave instance that was mapped at the head version never lags more than
\* getMaxVersions() behind the master, whatever is queued or on its way:
\* commit waits for the acknowledgement of older versions.
FlowControl ==
    \A i \in slaves : state[i] = "mapped" /\ Limited(i) =>
        version - slaveVersion[i] =< MaxVersions[i]

\* The abstract object: head is the master's version, an instance shows the
\* version it synced to.
Object == INSTANCE VersionedObject WITH
    head <- version,
    view <- [i \in Instances |-> IF Showing(i) THEN slaveVersion[i] ELSE 0]

ImplementsObject == Object!Spec

\* Seen from the change manager, the rest of the system is one of the
\* environments MasterSpec allows: its handlers change the state of the
\* manager in the steps of MasterNext only, and the limits they pass on are
\* 64 bit numbers.  What is proved of MasterSpec holds here.
ImplementsMaster == MasterSpec
-----------------------------------------------------------------------------
(* Liveness.  Threads that can proceed do, streams deliver, and the        *)
(* application of a mapped instance goes on syncing.  Nothing makes        *)
(* applications map, unmap or commit.                                      *)
Fairness ==
    /\ \A n \in Nodes : WF_vars(MasterReceive(n))
    /\ \A n \in Nodes, link \in Links : WF_vars(Receive(n, link))
    /\ WF_vars(MasterCommand)
    /\ WF_vars(NewVersion)
    /\ WF_vars(master = "registered" /\ CommitProceed
               /\ UNCHANGED <<master, slaveVars, netVars>>)
    /\ \A i \in Instances :
          WF_vars(MapObjectSync(i)) /\ WF_vars(ApplyMapData(i))
          /\ WF_vars(UnpackOneVersion(i))

FairSpec == Spec /\ Fairness

\* mapObject() and unmapObject() return, whatever becomes of the master.
MapUnmapReturn ==
    \A i \in Instances :
        /\ state[i] = "mapping" ~> state[i] \in {"mapped", "unmapped"}
        /\ state[i] = "unmapping" ~> state[i] = "unmapped"

\* A commit that waits for slave instances gets through: they sync, unmap or
\* are lost.  Only slaves that come and go for ever can hold it back: the
\* thread in waitGE need not run in the moments in which nothing limits it,
\* and a slave mapped to an old version lowers its own limit when it syncs.
CommitCompletes ==
    \/ \E i \in Instances : []<>(i \in slaves) /\ []<>(i \notin slaves)
    \/ committing = "waiting" ~> committing # "waiting"

\* A slave that stays mapped gets to every version the master commits.
CatchesUp ==
    \A i \in Instances, v \in 1..LastVersion :
        (i \in slaves /\ state[i] = "mapped" /\ version >= v)
            ~> (slaveVersion[i] >= v \/ state[i] # "mapped")
=============================================================================
