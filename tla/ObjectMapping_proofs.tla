------------------------ MODULE ObjectMapping_proofs ------------------------
(***************************************************************************)
(* Proofs about the distribution of one object, for every set of nodes and *)
(* slave instances, with and without multicast, cache and lost nodes.      *)
(*                                                                         *)
(* Every packet is one that its receiver handles, and the limits that it   *)
(* carries are 64 bit numbers (NetTypeOK).  From that alone, the handlers  *)
(* of the master's node drive its change manager by steps of MasterNext    *)
(* only, whatever slaves do and whenever they are lost: what is proved of  *)
(* MasterSpec holds of the whole system.                                   *)
(***************************************************************************)
EXTENDS ObjectMapping, MasterCM_proofs, FiniteSetTheorems

USE DEF VERSION_NONE

-----------------------------------------------------------------------------
(* The types of packets and of what a node caches.                         *)

Version == 0..LastVersion
Single == {{i} : i \in Instances}

RequestPacket == [type : {"mapObject"}, insts : Single, version : Int,
                  useCache : BOOLEAN, minCached : Nat, maxCached : Nat]

CommandPacket ==
    RequestPacket \cup
    [type : {"unsubscribe", "removeNode"}, insts : SUBSET Instances, version : Nat]

UpPacket ==
    CommandPacket \cup
    [type : {"maxVersion"}, insts : Single, version : 1..UINT64_MAX]

PlainPacket == [type : {"success", "empty", "commit", "detach", "unmap"},
                insts : SUBSET Instances, version : Version]

DataPacket == [type : {"map"}, insts : Single, version : Version, last : BOOLEAN]

ReplyPacket ==
    {p \in [type : {"reply", "failed"}, insts : Single, version : Int,
            releaseCache : BOOLEAN, useCache : BOOLEAN,
            minCached : Nat, maxCached : Nat] :
        p.useCache => p.releaseCache}

DownPacket == PlainPacket \cup DataPacket \cup ReplyPacket

CacheStream == [version : Version, ready : BOOLEAN]
CacheItem == [versions : Seq(CacheStream), access : Int]

QueuedVersion == [version : Version, delta : BOOLEAN]

InstanceTypeOK ==
    /\ version \in 1..LastVersion
    /\ master \in {"registered", "detaching", "gone"}
    /\ state \in [Instances -> {"unmapped", "mapping", "replied", "applying",
                                "mapped", "unmapping"}]
    /\ attached \subseteq Instances
    /\ queue \in [Instances -> Seq(QueuedVersion)]
    /\ mapTo \in [Instances -> Int]
    /\ slaveVersion \in [Instances -> Version]
    /\ content \in [Instances -> Nat]

NetTypeOK ==
    /\ alive \subseteq Nodes
    /\ cache \in [Nodes -> CacheItem]
    /\ down \in [Nodes -> [Links -> Seq(DownPacket)]]
    /\ up \in [Nodes -> Seq(UpPacket)]
    /\ cmdQueue \in Seq(CommandPacket)

MappingInv ==
    /\ MasterTypeOK /\ MasterInv /\ SlowestSlaveLimits
    /\ InstanceTypeOK /\ NetTypeOK

-----------------------------------------------------------------------------
(* Steps of the change manager.                                            *)

(* addSlave of an instance that is a slave already is a new limit for it.  *)
LEMMA AddSlaveIsMasterStep ==
    ASSUME MasterTypeOK, NEW i \in Instances, AddSlave(i)
    PROVE  MasterNext
  <1>1. CASE i \notin slaves
    BY <1>1 DEF MasterNext
  <1>2. CASE i \in slaves
    <2> DEFINE sum == (MaxVersions[i] + version) % (UINT64_MAX + 1)
               limit == IF MaxVersions[i] \in {0, UINT64_MAX} THEN UINT64_MAX ELSE sum
    <2>1. UINT64_MAX \in Nat /\ MaxVersions[i] + version \in Nat
      BY MasterAssumption DEF MasterTypeOK
    <2>2. sum \in 0..UINT64_MAX
      BY <2>1, WrapsIntoRange
    <2>3. limit \in 0..UINT64_MAX
      BY <2>1, <2>2
    <2>4. CmdMaxVersion(i, limit)
      BY <1>2 DEF AddSlave, CmdMaxVersion
    <2> QED
      BY <2>3, <2>4 DEF MasterNext
  <1> QED
    BY <1>1, <1>2

(* The instance a request or an acknowledgement is from.                   *)
LEMMA ChosenInstance ==
    ASSUME NEW insts \in Single
    PROVE  /\ (CHOOSE j \in insts : TRUE) \in Instances
           /\ insts = {CHOOSE j \in insts : TRUE}
  <1>1. PICK i \in Instances : insts = {i}
    BY DEF Single
  <1>2. (CHOOSE j \in insts : TRUE) \in insts
    BY <1>1
  <1> QED
    BY <1>1, <1>2

(* The first packet of a stream, and the rest.                             *)
LEMMA FirstAndRest ==
    ASSUME NEW S, NEW q \in Seq(S), q # <<>>
    PROVE  Head(q) \in S /\ Tail(q) \in Seq(S)
  BY HeadTailProperties

(* The receiver thread of the master executes acknowledgements.            *)
LEMMA MasterReceiveIsMasterStep ==
    ASSUME NetTypeOK, NEW n \in Nodes, MasterReceive(n)
    PROVE  [MasterNext]_masterVars
  <1> DEFINE packet == Head(up[n])
  <1>1. packet \in UpPacket
    BY FirstAndRest DEF NetTypeOK, MasterReceive
  <1>2. CASE packet.type = "maxVersion" /\ master # "gone"
    <2>1. packet.insts \subseteq Instances /\ packet.version \in 0..UINT64_MAX
      BY <1>1, <1>2, MasterAssumption DEF UpPacket, CommandPacket, RequestPacket, Single
    <2>2. \E i \in packet.insts : CmdMaxVersion(i, packet.version)
      BY <1>2 DEF MasterReceive
    <2> QED
      BY <2>1, <2>2 DEF MasterNext
  <1>3. CASE ~(packet.type = "maxVersion" /\ master # "gone")
    BY <1>3 DEF MasterReceive
  <1> QED
    BY <1>2, <1>3

(* The command thread of the master adds and removes slaves.               *)
LEMMA MasterCommandIsMasterStep ==
    ASSUME MasterTypeOK, NetTypeOK, MasterCommand
    PROVE  [MasterNext]_masterVars
  <1> DEFINE packet == Head(cmdQueue)
  <1>1. packet \in CommandPacket
    BY FirstAndRest DEF NetTypeOK, MasterCommand
  <1>2. CASE CmdMapObject(packet)
    <2>1. packet.insts \in Single
      BY <1>1, <1>2 DEF CommandPacket, RequestPacket, CmdMapObject
    <2>2. UNCHANGED masterVars \/ AddSlave(CHOOSE j \in packet.insts : TRUE)
      BY <1>2 DEF CmdMapObject
    <2> QED
      BY <2>1, <2>2, ChosenInstance, AddSlaveIsMasterStep
  <1>3. CASE CmdUnsubscribeObject(packet) \/ CmdRemoveNode(packet)
    <2>1. packet.insts \in SUBSET Instances
      BY <1>1, <1>3 DEF CommandPacket, RequestPacket, CmdUnsubscribeObject, CmdRemoveNode
    <2>2. UNCHANGED masterVars \/ RemoveSlaves(packet.insts)
      BY <1>3 DEF CmdUnsubscribeObject, CmdRemoveNode
    <2> QED
      BY <2>1, <2>2 DEF MasterNext
  <1> QED
    BY <1>2, <1>3 DEF MasterCommand

(* All handlers together: no other step touches the change manager.        *)
LEMMA StepIsMasterStep ==
    ASSUME MasterTypeOK, NetTypeOK, [Next]_vars
    PROVE  [MasterNext]_masterVars
  <1>1. CASE NewVersion
    BY <1>1 DEF NewVersion, MasterNext, MasterCommit
  <1>2. CASE MasterOnly
    BY <1>2 DEF MasterOnly, MasterNext, MasterCommit
  <1>3. CASE DeregisterDetach
    BY <1>3 DEF DeregisterDetach, MasterNext
  <1>4. CASE DeregisterNotify
    BY <1>4 DEF DeregisterNotify
  <1>5. ASSUME NEW n \in Nodes, MasterReceive(n) \/ Expire(n) \/ NodeLost(n)
        PROVE  [MasterNext]_masterVars
    BY <1>5, MasterReceiveIsMasterStep DEF Expire, NodeLost
  <1>6. CASE MasterCommand
    BY <1>6, MasterCommandIsMasterStep
  <1>7. ASSUME NEW n \in Nodes, NEW link \in Links, Receive(n, link)
        PROVE  [MasterNext]_masterVars
    BY <1>7 DEF Receive
  <1>8. ASSUME NEW i \in Instances, SlaveNext(i)
        PROVE  [MasterNext]_masterVars
    BY <1>8 DEF SlaveNext, MapObjectNB, MapObjectSync, ApplyMapData,
                UnpackOneVersion, UnmapObject
  <1>9. CASE UNCHANGED vars
    BY <1>9 DEF vars, masterVars
  <1> QED
    BY <1>1, <1>2, <1>3, <1>4, <1>5, <1>6, <1>7, <1>8, <1>9 DEF Next

-----------------------------------------------------------------------------
(* Types of what is sent.                                                  *)

(* The retained data _initSlave sends is within what is retained, so that  *)
(* it never reads beyond _instanceDatas.                                   *)
LEMMA SentIsRetained ==
    ASSUME MasterTypeOK, CheckConsistency, Buffered,
           NEW request \in RequestPacket, request.version # VERSION_NONE,
           NEW sent,
           sent = SubSeq(instanceDatas,
                      SentVersions(request).start - (instanceDatas[1].version - 1),
                      SentVersions(request).end - (instanceDatas[1].version - 1))
    PROVE  sent \in Seq({instanceDatas[k] : k \in 1..Len(instanceDatas)})
  <1> DEFINE oldest == instanceDatas[1].version
             start == MappedVersion(request.version)
             range == SentVersions(request)
             a == range.start - (oldest - 1)
             b == range.end - (oldest - 1)
  <1>1. /\ instanceDatas \in Seq(InstanceData) /\ Len(instanceDatas) \in Nat \ {0}
        /\ version \in Nat /\ oldest \in Nat
        /\ oldest = version - Len(instanceDatas) + 1
    <2>1. instanceDatas \in Seq(InstanceData) /\ Len(instanceDatas) \in Nat \ {0}
      BY EmptySeq, LenProperties DEF MasterTypeOK, CheckConsistency
    <2>2. 1 \in 1..Len(instanceDatas)
      BY <2>1
    <2> QED
      BY <2>1, <2>2, DataFields DEF MasterTypeOK, CheckConsistency, Consecutive
  <1>2. /\ request.version \in Int /\ request.minCached \in Nat
        /\ request.maxCached \in Nat
    BY DEF RequestPacket
  <1>3. start \in Int /\ start >= oldest
    BY <1>1, <1>2 DEF MappedVersion, VERSION_OLDEST
  <1>4. /\ range.start \in Int /\ range.start >= start
        /\ range.end \in Int /\ range.end =< version
    <2>1. MapDataRange(request.version) = [start |-> start, end |-> version]
      BY DEF MapDataRange
    <2> HIDE DEF start
    <2>2. CASE CacheHit(request, start)
      <3>1. range = [start |-> request.maxCached + 1, end |-> version]
        BY <2>1, <2>2 DEF SentVersions
      <3>2. start =< request.maxCached
        BY <2>2 DEF CacheHit
      <3>3. request.maxCached + 1 \in Int /\ request.maxCached + 1 >= start
        BY <1>2, <1>3, <3>2
      <3> HIDE DEF range
      <3> QED
        BY <1>1, <3>1, <3>3
    <2>3. CASE /\ ~CacheHit(request, start)
               /\ request.useCache /\ request.maxCached = version
               /\ request.minCached \in start + 1..version
      <3>1. range = [start |-> start, end |-> request.minCached - 1]
        BY <2>1, <2>3 DEF SentVersions
      <3> HIDE DEF range
      <3> QED
        BY <1>1, <1>2, <1>3, <2>3, <3>1
    <2>4. CASE /\ ~CacheHit(request, start)
               /\ ~(/\ request.useCache /\ request.maxCached = version
                    /\ request.minCached \in start + 1..version)
      <3>1. range = [start |-> start, end |-> version]
        BY <2>1, <2>4 DEF SentVersions
      <3> HIDE DEF range
      <3> QED
        BY <1>1, <1>3, <3>1
    <2> QED
      BY <2>2, <2>3, <2>4
  <1> HIDE DEF oldest, start, range
  <1>5. a \in Int /\ b \in Int /\ a >= 1 /\ b =< Len(instanceDatas)
    BY SMTT(30), <1>1, <1>3, <1>4
  <1> DEFINE R == {instanceDatas[k] : k \in 1..Len(instanceDatas)}
  <1>6. \A k \in a..b : instanceDatas[k] \in R
    BY <1>1, <1>5
  <1> HIDE DEF a, b, R
  <1>7. SubSeq(instanceDatas, a, b) \in Seq(R)
    BY <1>5, <1>6, SubSeqProperties
  <1> QED
    BY <1>7 DEF a, b, oldest, range, R

(* A sequence that is given by a formula for its elements.                 *)
LEMMA FunctionIsSeq ==
    ASSUME NEW S, NEW n \in Nat, NEW f \in [1..n -> S]
    PROVE  f \in Seq(S) /\ Len(f) = n
  BY SeqDef

(* Streams of at most two packets.                                         *)
LEMMA ShortSeqs ==
    ASSUME NEW S, NEW p \in S, NEW q \in S
    PROVE  <<>> \in Seq(S) /\ <<p>> \in Seq(S) /\ <<p, q>> \in Seq(S)
  OBVIOUS

(* What a new slave is sent before the reply.                              *)
LEMMA MapDataType ==
    ASSUME MasterTypeOK, InstanceTypeOK, CheckConsistency,
           NEW request \in RequestPacket, NEW i \in Instances
    PROVE  MapData(i, request) \in Seq(PlainPacket \cup DataPacket)
  <1>1. version \in Version /\ version \in Nat
    BY DEF InstanceTypeOK, Version
  <1>2. /\ Packet("empty", {i}, version) \in PlainPacket \cup DataPacket
        /\ MapPacket(i, version, TRUE) \in PlainPacket \cup DataPacket
        /\ MapPacket(i, version, FALSE) \in PlainPacket \cup DataPacket
    BY <1>1 DEF Packet, MapPacket, PlainPacket, DataPacket, Single
  <1>3. CASE request.version # VERSION_NONE /\ Buffered
    <2> DEFINE sent == SubSeq(instanceDatas,
                   SentVersions(request).start - (instanceDatas[1].version - 1),
                   SentVersions(request).end - (instanceDatas[1].version - 1))
               data == [k \in 1..Len(sent) |-> MapPacket(i, sent[k].version, TRUE)]
    <2>1. MapData(i, request) = data
      BY <1>3 DEF MapData
    <2> DEFINE R == {instanceDatas[k] : k \in 1..Len(instanceDatas)}
    <2>2. sent \in Seq(R)
      BY <1>3, SentIsRetained
    <2>3. \A d \in R : d.version \in Version
      <3>1. \A k \in 1..Len(instanceDatas) :
               instanceDatas[k].version \in Nat /\ instanceDatas[k].version =< version
        BY <1>3, DataFields, LenProperties DEF MasterTypeOK, CheckConsistency, Consecutive
      <3> QED
        BY <1>1, <3>1, MappingAssumption DEF Version
    <2> HIDE DEF sent, R
    <2>6. Len(sent) \in Nat /\ \A k \in 1..Len(sent) : sent[k].version \in Version
      BY <2>2, <2>3, LenProperties, ElementOfSeq
    <2>4. \A k \in 1..Len(sent) : MapPacket(i, sent[k].version, TRUE) \in DataPacket
      BY <2>6 DEF MapPacket, DataPacket, Single
    <2>5. data \in [1..Len(sent) -> PlainPacket \cup DataPacket]
      BY <2>4
    <2> QED
      BY <2>1, <2>6, <2>5, FunctionIsSeq
  <1>4. CASE ~(request.version # VERSION_NONE /\ Buffered)
    <2>1. MapData(i, request) \in
             {<<Packet("empty", {i}, version)>>, <<>>, <<MapPacket(i, version, TRUE)>>,
              <<MapPacket(i, version, FALSE), MapPacket(i, version, TRUE)>>}
      BY <1>4 DEF MapData
    <2> DEFINE S == PlainPacket \cup DataPacket
    <2> HIDE DEF S
    <2>2. \A p, q \in S : <<>> \in Seq(S) /\ <<p>> \in Seq(S) /\ <<p, q>> \in Seq(S)
      BY ShortSeqs
    <2>3. MapData(i, request) \in Seq(S)
      BY <1>2, <2>1, <2>2 DEF S
    <2> QED
      BY <2>3 DEF S
  <1> QED
    BY <1>3, <1>4

(* The operations of the cache.                                            *)
LEMMA ItemFields ==
    ASSUME NEW item \in CacheItem
    PROVE  /\ item.versions \in Seq(CacheStream) /\ item.access \in Int
           /\ Len(item.versions) \in Nat
           /\ \A k \in 1..Len(item.versions) :
                 /\ item.versions[k] \in CacheStream
                 /\ item.versions[k].version \in Version
                 /\ item.versions[k].ready \in BOOLEAN
           /\ Cached(item) => Len(item.versions) \in 1..Len(item.versions)
  <1>1. item.versions \in Seq(CacheStream) /\ item.access \in Int
    BY DEF CacheItem
  <1>2. Len(item.versions) \in Nat
    BY <1>1, LenProperties
  <1>3. \A k \in 1..Len(item.versions) : item.versions[k] \in CacheStream
    BY <1>1, ElementOfSeq
  <1>4. Cached(item) => Len(item.versions) \in 1..Len(item.versions)
    BY <1>1, <1>2, EmptySeq DEF Cached
  <1> QED
    BY <1>1, <1>2, <1>3, <1>4 DEF CacheStream

(* add puts a stream behind the others, completes the newest one, starts   *)
(* again with the new one, or ignores it.                                  *)
LEMMA AddCases ==
    ASSUME NEW item \in CacheItem, NEW v \in Version, NEW last \in BOOLEAN
    PROVE  /\ Add(item, v, last) \in CacheItem
           /\ Add(item, v, last).access = item.access
           /\ \/ /\ ~Cached(item) \/ Newest(item).version + 1 = v
                 /\ Add(item, v, last).versions = Append(item.versions, Stream(v, last))
              \/ /\ Cached(item) /\ Newest(item) = Stream(v, FALSE)
                 /\ Add(item, v, last).versions =
                       [item.versions EXCEPT ![Len(item.versions)] = Stream(v, last)]
              \/ /\ Cached(item) /\ item.access = 0
                 /\ Add(item, v, last).versions = <<Stream(v, last)>>
              \/ /\ Cached(item) /\ Newest(item) # Stream(v, FALSE)
                 /\ Add(item, v, last) = item
  <1> DEFINE new == Stream(v, last)
             A == ~Cached(item) \/ Newest(item).version + 1 = v
             B == Cached(item) /\ Newest(item) = Stream(v, FALSE)
             C == Cached(item) /\ Newest(item).version + 1 < v /\ item.access = 0
  <1>1. new \in CacheStream /\ Stream(v, FALSE).version = v
    BY DEF Stream, CacheStream
  <1>2. /\ item.versions \in Seq(CacheStream) /\ item.access \in Int
        /\ Cached(item) => Len(item.versions) \in 1..Len(item.versions)
        /\ Cached(item) => Newest(item).version \in Nat
    BY ItemFields, MappingAssumption DEF Newest, Version
  <1>3. ~(A /\ B) /\ ~(A /\ C) /\ ~(B /\ C)
    <2>1. ASSUME Cached(item), NEW w \in Nat, w = Newest(item).version
          PROVE  ~(A /\ B) /\ ~(A /\ C) /\ ~(B /\ C)
      <3>1. /\ A => w + 1 = v
            /\ B => w = v
            /\ C => w + 1 < v
        BY <1>1, <2>1, Zenon
      <3> HIDE DEF A, B, C
      <3> QED
        BY <2>1, <3>1
    <2> QED
      BY <1>2, <2>1
  <1>4. CASE A
    <2>1. Add(item, v, last) = [item EXCEPT !.versions = Append(@, new)]
      BY <1>3, <1>4 DEF Add
    <2>2. Append(item.versions, new) \in Seq(CacheStream)
      BY <1>1, <1>2, AppendProperties
    <2> HIDE DEF new
    <2>3. /\ Add(item, v, last) \in CacheItem
          /\ Add(item, v, last).access = item.access
          /\ Add(item, v, last).versions = Append(item.versions, new)
      BY <2>1, <2>2 DEF CacheItem
    <2> QED
      BY <1>4, <2>3 DEF new
  <1>5. CASE B
    <2> DEFINE changed == [item.versions EXCEPT ![Len(item.versions)] = new]
    <2>1. Add(item, v, last) = [item EXCEPT !.versions = changed]
      BY <1>3, <1>5 DEF Add
    <2>2. changed \in Seq(CacheStream)
      BY <1>1, <1>2, <1>5, ExceptSeq
    <2> HIDE DEF changed
    <2>3. /\ Add(item, v, last) \in CacheItem
          /\ Add(item, v, last).access = item.access
          /\ Add(item, v, last).versions = changed
      BY <2>1, <2>2 DEF CacheItem
    <2> QED
      BY <1>5, <2>3 DEF changed
  <1>6. CASE C
    <2>1. Add(item, v, last) = [item EXCEPT !.versions = <<new>>]
      BY <1>3, <1>6 DEF Add
    <2>2. <<new>> \in Seq(CacheStream)
      BY <1>1, ShortSeqs
    <2> HIDE DEF new
    <2>3. /\ Add(item, v, last) \in CacheItem
          /\ Add(item, v, last).access = item.access
          /\ Add(item, v, last).versions = <<new>>
      BY <2>1, <2>2 DEF CacheItem
    <2> QED
      BY <1>6, <2>3 DEF new
  <1>7. CASE ~A /\ ~B /\ ~C
    <2>1. Add(item, v, last) = item
      BY <1>7 DEF Add
    <2> QED
      BY <1>7, <2>1
  <1> QED
    BY <1>4, <1>5, <1>6, <1>7

(* The operations of InstanceCache keep the type of an entry.              *)
LEMMA CacheOpsType ==
    ASSUME NEW item \in CacheItem, NEW count \in Nat
    PROVE  /\ NoItem \in CacheItem
           /\ Pin(item) \in CacheItem
           /\ Release(item, count) \in CacheItem
           /\ Erase(item) \in CacheItem
           /\ Expired(item) \subseteq CacheItem
  <1>1. <<>> \in Seq(CacheStream)
    BY EmptySeq
  <1>2. NoItem \in CacheItem
    BY <1>1 DEF NoItem, CacheItem
  <1>3. Pin(item) \in CacheItem /\ Release(item, count) \in CacheItem
    BY DEF Pin, Release, CacheItem
  <1>4. Erase(item) \in CacheItem
    BY <1>2 DEF Erase
  <1>5. ASSUME NEW k \in 0..Len(item.versions)
        PROVE  [item EXCEPT !.versions = SubSeq(@, k + 1, Len(@))] \in CacheItem
    <2> DEFINE rest == SubSeq(item.versions, k + 1, Len(item.versions))
    <2>1. rest \in Seq(CacheStream)
      <3>1. \A j \in k + 1..Len(item.versions) : item.versions[j] \in CacheStream
        BY <1>5, ItemFields
      <3> QED
        BY <1>5, <3>1, ItemFields, SubSeqProperties
    <2> HIDE DEF rest
    <2>2. [item EXCEPT !.versions = rest] \in CacheItem
      BY <2>1 DEF CacheItem
    <2> QED
      BY <2>2 DEF rest
  <1>6. Expired(item) \subseteq CacheItem
    BY <1>5 DEF Expired
  <1> QED
    BY <1>2, <1>3, <1>4, <1>6

-----------------------------------------------------------------------------
(* NetTypeOK, action by action.                                            *)

(* Sending keeps the type of the streams to the slaves.                    *)
LEMMA SendType ==
    ASSUME NetTypeOK, NEW receivers, NEW link \in Links,
           NEW packets \in Seq(DownPacket), Send(receivers, link, packets)
    PROVE  down' \in [Nodes -> [Links -> Seq(DownPacket)]]
  <1>1. ASSUME NEW n \in Nodes
        PROVE  [down[n] EXCEPT ![link] = @ \o packets] \in [Links -> Seq(DownPacket)]
    <2>1. down[n] \in [Links -> Seq(DownPacket)]
      BY DEF NetTypeOK
    <2>2. down[n][link] \o packets \in Seq(DownPacket)
      BY <2>1, ConcatProperties
    <2> QED
      BY <2>1, <2>2
  <1>2. \A n \in Nodes : down[n] \in [Links -> Seq(DownPacket)]
    BY DEF NetTypeOK
  <1> QED
    BY <1>1, <1>2 DEF Send

(* Sending keeps the type of the streams to the master.                    *)
LEMMA SendUpType ==
    ASSUME NetTypeOK, NEW n \in Nodes, NEW packet \in UpPacket, SendUp(n, packet)
    PROVE  up' \in [Nodes -> Seq(UpPacket)]
  <1>1. up[n] \in Seq(UpPacket)
    BY DEF NetTypeOK
  <1>2. Append(up[n], packet) \in Seq(UpPacket)
    BY <1>1, AppendProperties
  <1> QED
    BY <1>2 DEF SendUp, NetTypeOK

(* commit.                                                                 *)
LEMMA CommitTypes ==
    ASSUME MasterTypeOK, InstanceTypeOK, NetTypeOK, NewVersion \/ MasterOnly
    PROVE  NetTypeOK'
  <1>1. CASE NewVersion
    <2>1. Packet("commit", Instances, version + 1) \in DownPacket
      BY <1>1, MappingAssumption
         DEF NewVersion, InstanceTypeOK, Packet, DownPacket, PlainPacket, Version
    <2>2. CommitLink(SlaveNodes) \in Links
      BY DEF CommitLink, Links
    <2>3. down' \in [Nodes -> [Links -> Seq(DownPacket)]]
      BY <1>1, <2>1, <2>2, ShortSeqs, SendType DEF NewVersion
    <2> QED
      BY <1>1, <2>3 DEF NewVersion, slaveVars, NetTypeOK
  <1>2. CASE MasterOnly
    BY <1>2 DEF MasterOnly, slaveVars, netVars, NetTypeOK
  <1> QED
    BY <1>1, <1>2

(* deregisterObject.                                                       *)
LEMMA DeregisterTypes ==
    ASSUME NetTypeOK, DeregisterNotify \/ DeregisterDetach
    PROVE  NetTypeOK'
  <1>1. CASE DeregisterNotify
    <2>1. ASSUME NEW n \in Nodes
          PROVE  [down[n] EXCEPT !["unicast"] =
                     Append(@, Packet("unmap", On(n), VERSION_NONE))]
                     \in [Links -> Seq(DownPacket)]
      <3>1. down[n] \in [Links -> Seq(DownPacket)] /\ "unicast" \in Links
        BY DEF NetTypeOK, Links
      <3>2. Packet("unmap", On(n), VERSION_NONE) \in DownPacket
        BY MappingAssumption DEF Packet, On, DownPacket, PlainPacket, Version
      <3>3. Append(down[n]["unicast"], Packet("unmap", On(n), VERSION_NONE))
                \in Seq(DownPacket)
        BY <3>1, <3>2, AppendProperties
      <3> QED
        BY <3>1, <3>3
    <2>2. \A n \in Nodes : down[n] \in [Links -> Seq(DownPacket)]
      BY DEF NetTypeOK
    <2>3. down' \in [Nodes -> [Links -> Seq(DownPacket)]]
      BY <1>1, <2>1, <2>2 DEF DeregisterNotify
    <2> QED
      BY <1>1, <2>3 DEF DeregisterNotify, slaveVars, NetTypeOK
  <1>2. CASE DeregisterDetach
    BY <1>2 DEF DeregisterDetach, slaveVars, netVars, NetTypeOK
  <1> QED
    BY <1>1, <1>2

(* The receiver thread of the master.                                      *)
LEMMA MasterReceiveTypes ==
    ASSUME NetTypeOK, NEW n \in Nodes, MasterReceive(n)
    PROVE  NetTypeOK'
  <1> DEFINE packet == Head(up[n])
  <1>1. packet \in UpPacket /\ Tail(up[n]) \in Seq(UpPacket)
    BY FirstAndRest DEF NetTypeOK, MasterReceive
  <1>2. up' \in [Nodes -> Seq(UpPacket)]
    BY <1>1 DEF NetTypeOK, MasterReceive
  <1>3. cmdQueue' \in Seq(CommandPacket)
    <2>1. CASE packet.type = "maxVersion"
      BY <2>1 DEF MasterReceive, NetTypeOK
    <2>2. CASE packet.type # "maxVersion"
      <3>1. packet \in CommandPacket
        BY <1>1, <2>2 DEF UpPacket
      <3>2. cmdQueue' = Append(cmdQueue, packet)
        BY <2>2 DEF MasterReceive
      <3>3. cmdQueue \in Seq(CommandPacket)
        BY DEF NetTypeOK
      <3> HIDE DEF packet
      <3> QED
        BY <3>1, <3>2, <3>3, AppendProperties
    <2> QED
      BY <2>1, <2>2
  <1> QED
    BY <1>2, <1>3 DEF MasterReceive, slaveVars, NetTypeOK

(* What the command thread sends: the answer to a map request, or the word *)
(* that an instance may detach.                                            *)
LEMMA AnswerTypes ==
    ASSUME MasterTypeOK, InstanceTypeOK, CheckConsistency,
           NEW packet \in RequestPacket, NEW i \in Instances
    PROVE  /\ <<Reply("failed", packet, packet.version, FALSE)>> \in Seq(DownPacket)
           /\ <<Packet("success", {i}, VERSION_NONE)>> \o MapData(i, packet)
              \o <<Reply("reply", packet, MappedVersion(packet.version),
                         RepliesUseCache(packet))>> \in Seq(DownPacket)
  <1>1. /\ packet.insts \in Single /\ packet.version \in Int
        /\ packet.useCache \in BOOLEAN
        /\ packet.minCached \in Nat /\ packet.maxCached \in Nat
    BY DEF RequestPacket
  <1>2. MappedVersion(packet.version) \in Int
    <2>1. CASE Buffered
      <3>1. 1 \in 1..Len(instanceDatas)
        BY <2>1, EmptySeq DEF MasterTypeOK, CheckConsistency
      <3> QED
        BY <1>1, <3>1, DataFields DEF MasterTypeOK, MappedVersion
    <2>2. CASE ~Buffered
      BY <2>2 DEF MasterTypeOK, MappedVersion
    <2> QED
      BY <2>1, <2>2
  <1>3. /\ RepliesUseCache(packet) \in BOOLEAN
        /\ RepliesUseCache(packet) => packet.useCache
    BY <1>1 DEF RepliesUseCache
  <1>4. /\ Reply("failed", packet, packet.version, FALSE) \in DownPacket
        /\ Reply("reply", packet, MappedVersion(packet.version),
                 RepliesUseCache(packet)) \in DownPacket
    BY <1>1, <1>2, <1>3 DEF Reply, DownPacket, ReplyPacket
  <1>5. Packet("success", {i}, VERSION_NONE) \in DownPacket
    BY MappingAssumption DEF Packet, DownPacket, PlainPacket, Version
  <1>6. MapData(i, packet) \in Seq(DownPacket)
    BY MapDataType, SeqMonotonic DEF DownPacket
  <1> QED
    BY <1>4, <1>5, <1>6, ShortSeqs, ConcatProperties

(* The command thread of the master.                                       *)
LEMMA MasterCommandTypes ==
    ASSUME MasterTypeOK, InstanceTypeOK, CheckConsistency, NetTypeOK, MasterCommand
    PROVE  NetTypeOK'
  <1> DEFINE packet == Head(cmdQueue)
             i == CHOOSE j \in packet.insts : TRUE
  <1>1. packet \in CommandPacket /\ cmdQueue' \in Seq(CommandPacket)
    BY FirstAndRest DEF NetTypeOK, MasterCommand
  <1>2. "unicast" \in Links /\ MapLink \in Links
    BY DEF Links, MapLink
  <1>3. down' \in [Nodes -> [Links -> Seq(DownPacket)]]
    <2>1. CASE CmdMapObject(packet)
      <3>1. packet \in RequestPacket
        BY <1>1, <2>1 DEF CmdMapObject, CommandPacket
      <3>2. i \in Instances
        BY <3>1, ChosenInstance DEF RequestPacket
      <3> HIDE DEF packet, i
      <3>3. \E link \in Links : \E receivers :
              \/ Send(receivers, link, <<Reply("failed", packet, packet.version, FALSE)>>)
              \/ Send(receivers, link,
                     <<Packet("success", {i}, VERSION_NONE)>> \o MapData(i, packet)
                     \o <<Reply("reply", packet, MappedVersion(packet.version),
                                RepliesUseCache(packet))>>)
        BY <1>2, <2>1 DEF CmdMapObject, i
      <3> QED
        BY <3>1, <3>2, <3>3, AnswerTypes, SendType
    <2>2. CASE CmdUnsubscribeObject(packet)
      <3>1. packet.insts \subseteq Instances
        BY <1>1, <2>2 DEF CommandPacket, RequestPacket, CmdUnsubscribeObject
      <3>2. Packet("detach", packet.insts, VERSION_NONE) \in DownPacket
        BY <3>1, MappingAssumption DEF Packet, DownPacket, PlainPacket, Version
      <3> QED
        BY <1>2, <2>2, <3>2, ShortSeqs, SendType DEF CmdUnsubscribeObject
    <2>3. CASE CmdRemoveNode(packet)
      BY <2>3 DEF CmdRemoveNode, NetTypeOK
    <2> QED
      BY <2>1, <2>2, <2>3 DEF MasterCommand
  <1> QED
    BY <1>1, <1>3 DEF MasterCommand, slaveVars, NetTypeOK

(* addInstanceDatas takes nothing but what is cached and complete.         *)
LEMMA CompleteStreamsType ==
    ASSUME NEW item \in CacheItem, NEW from \in Int, NEW to \in Int
    PROVE  CompleteStreams(item, from, to) \in Seq(CacheStream)
  <1> DEFINE streams == item.versions
             before == streams[1].version - 1
             complete == IF Newest(item).ready THEN Len(streams) ELSE Len(streams) - 1
             first == IF from > before THEN from - before ELSE 1
             last == IF to < before + complete THEN to - before ELSE complete
  <1>1. CASE Cached(item)
    <2>1. Len(streams) \in Nat \ {0} /\ 1 \in 1..Len(streams)
      BY <1>1, ItemFields
    <2>2. before \in Int
      BY <2>1, ItemFields, MappingAssumption DEF Version
    <2>3. complete \in Int /\ complete =< Len(streams)
      BY <2>1
    <2> HIDE DEF complete, before
    <2>4. first \in Int /\ last \in Int /\ first >= 1 /\ last =< Len(streams)
      BY <2>1, <2>2, <2>3
    <2>5. \A k \in first..last : streams[k] \in CacheStream
      BY <2>1, <2>4, ItemFields
    <2> HIDE DEF first, last
    <2>6. SubSeq(streams, first, last) \in Seq(CacheStream)
      BY <2>4, <2>5, SubSeqProperties
    <2> QED
      BY <1>1, <2>6 DEF CompleteStreams, first, last, complete, before
  <1>2. CASE ~Cached(item)
    BY <1>2, EmptySeq DEF CompleteStreams
  <1> QED
    BY <1>1, <1>2

(* The fields of queued versions and of cached streams.                    *)
LEMMA QueuedFields ==
    ASSUME NEW q \in Seq(QueuedVersion), NEW k \in 1..Len(q)
    PROVE  /\ q[k] \in QueuedVersion
           /\ q[k].version \in Version /\ q[k].version \in Nat
           /\ q[k].delta \in BOOLEAN
  <1>1. q[k] \in QueuedVersion
    BY ElementOfSeq
  <1> QED
    BY <1>1, MappingAssumption DEF QueuedVersion, Version

(* The fields of a cached stream.                                          *)
LEMMA StreamFields ==
    ASSUME NEW p \in Seq(CacheStream), NEW k \in 1..Len(p)
    PROVE  /\ p[k] \in CacheStream
           /\ p[k].version \in Version /\ p[k].version \in Nat
           /\ p[k].ready \in BOOLEAN
  <1>1. p[k] \in CacheStream
    BY ElementOfSeq
  <1> QED
    BY <1>1, MappingAssumption DEF CacheStream, Version

(* addInstanceDatas queues versions of the object.                         *)
LEMMA AddInstanceDatasType ==
    ASSUME NEW q \in Seq(QueuedVersion), NEW item \in CacheItem, NEW start \in Int
    PROVE  AddInstanceDatas(q, item, start) \in Seq(QueuedVersion)
  <1> DEFINE oldest == IF q = <<>> THEN VERSION_NONE ELSE q[1].version
             newest == IF q = <<>> THEN VERSION_NONE ELSE q[Len(q)].version
             front == CompleteStreams(item, start, oldest - 1)
             after == IF start > newest THEN start ELSE newest + 1
             back == CompleteStreams(item, after, Newest(item).version)
             Queued(p) == [k \in 1..Len(p) |-> [version |-> p[k].version, delta |-> FALSE]]
  <1>1. oldest \in Int /\ newest \in Int
    <2>1. CASE q # <<>>
      <3>1. 1 \in 1..Len(q) /\ Len(q) \in 1..Len(q)
        BY <2>1, EmptySeq
      <3>2. q[1].version \in Int /\ q[Len(q)].version \in Int
        BY <3>1, QueuedFields
      <3> QED
        BY <2>1, <3>2
    <2> QED
      BY <2>1
  <1> HIDE DEF oldest, newest
  <1>2. ASSUME NEW p \in Seq(CacheStream)
        PROVE  Queued(p) \in Seq(QueuedVersion)
    <2>1. Len(p) \in Nat /\ \A k \in 1..Len(p) : p[k].version \in Version
      BY LenProperties, StreamFields
    <2>2. Queued(p) \in [1..Len(p) -> QueuedVersion]
      BY <2>1 DEF QueuedVersion
    <2> QED
      BY <2>1, <2>2, FunctionIsSeq
  <1>3. front \in Seq(CacheStream)
    BY <1>1, CompleteStreamsType
  <1>4. back \in Seq(CacheStream)
    <2>1. CASE Cached(item)
      <3>1. Newest(item).version \in Int /\ after \in Int
        BY <1>1, <2>1, ItemFields, MappingAssumption DEF Newest, Version
      <3> QED
        BY <3>1, CompleteStreamsType
    <2>2. CASE ~Cached(item)
      BY <2>2, EmptySeq DEF CompleteStreams
    <2> QED
      BY <2>1, <2>2
  <1> HIDE DEF front, back
  <1>5. Queued(front) \in Seq(QueuedVersion) /\ Queued(back) \in Seq(QueuedVersion)
    BY <1>2, <1>3, <1>4
  <1>6. AddInstanceDatas(q, item, start) = Queued(front) \o q \o Queued(back)
    BY DEF AddInstanceDatas, front, back, oldest, newest
  <1> HIDE DEF Queued
  <1> QED
    BY <1>5, <1>6, ConcatProperties

(* The handlers of a slave's node.                                         *)
LEMMA CmdDataTypes ==
    ASSUME InstanceTypeOK, NEW mine, NEW v \in Version, NEW delta \in BOOLEAN,
           CmdData(mine, v, delta), UNCHANGED <<version, master>>
    PROVE  InstanceTypeOK'
  <1>1. [version |-> v, delta |-> delta] \in QueuedVersion
    BY DEF QueuedVersion
  <1>2. ASSUME NEW i \in Instances
        PROVE  Append(queue[i], [version |-> v, delta |-> delta]) \in Seq(QueuedVersion)
    BY <1>1, AppendProperties DEF InstanceTypeOK
  <1>3. queue' \in [Instances -> Seq(QueuedVersion)]
    BY <1>2 DEF CmdData, InstanceTypeOK
  <1> QED
    BY <1>3 DEF CmdData, InstanceTypeOK

(* _cmdInstance.                                                           *)
LEMMA CmdInstanceTypes ==
    ASSUME InstanceTypeOK, NetTypeOK, NEW n \in Nodes, NEW mine, NEW v \in Version,
           NEW last \in BOOLEAN, CmdInstance(n, mine, v, last),
           UNCHANGED <<version, master>>
    PROVE  InstanceTypeOK' /\ cache' \in [Nodes -> CacheItem]
  <1>1. Add(cache[n], v, last) \in CacheItem
    BY AddCases DEF NetTypeOK
  <1>2. cache' \in [Nodes -> CacheItem]
    BY <1>1 DEF CmdInstance, NetTypeOK
  <1>3. InstanceTypeOK'
    <2>1. CASE last
      BY <2>1, CmdDataTypes DEF CmdInstance
    <2>2. CASE ~last
      BY <2>2 DEF CmdInstance, instanceVars, InstanceTypeOK
    <2> QED
      BY <2>1, <2>2
  <1> QED
    BY <1>2, <1>3

(* _cmdMapObjectReply.                                                     *)
LEMMA CmdReplyTypes ==
    ASSUME InstanceTypeOK, NetTypeOK, NEW n \in Nodes, NEW mine,
           NEW packet \in ReplyPacket, CmdMapObjectReply(n, mine, packet),
           UNCHANGED <<version, master>>
    PROVE  InstanceTypeOK' /\ cache' \in [Nodes -> CacheItem]
  <1>1. packet.version \in Int
    BY DEF ReplyPacket
  <1>2. cache[n] \in CacheItem
    BY DEF NetTypeOK
  <1>3. /\ Release(Pin(cache[n]), 2) \in CacheItem
        /\ Release(cache[n], 1) \in CacheItem
    BY <1>2, CacheOpsType
  <1>4. cache' \in [Nodes -> CacheItem]
    BY <1>2, <1>3 DEF CmdMapObjectReply, NetTypeOK
  <1>5. queue' \in [Instances -> Seq(QueuedVersion)]
    BY <1>1, <1>2, AddInstanceDatasType DEF CmdMapObjectReply, InstanceTypeOK
  <1> QED
    BY <1>1, <1>4, <1>5 DEF CmdMapObjectReply, InstanceTypeOK

(* What is cleared of an instance that is gone.                            *)
LEMMA ForgetTypes ==
    ASSUME InstanceTypeOK, NEW gone, Forget(gone), attached' \subseteq Instances,
           UNCHANGED <<version, master>>
    PROVE  InstanceTypeOK'
  <1>1. 0 \in Version /\ <<>> \in Seq(QueuedVersion)
    BY EmptySeq, MappingAssumption DEF Version
  <1> QED
    BY <1>1 DEF Forget, InstanceTypeOK

(* The receiver thread of a node with slaves.                              *)
LEMMA ReceiveTypes ==
    ASSUME InstanceTypeOK, NetTypeOK, NEW n \in Nodes, NEW link \in Links,
           Receive(n, link)
    PROVE  InstanceTypeOK' /\ NetTypeOK'
  <1> DEFINE packet == Head(down[n][link])
             mine == packet.insts \cap On(n)
  <1>0. down[n][link] \in Seq(DownPacket) /\ down[n] \in [Links -> Seq(DownPacket)]
    BY DEF NetTypeOK
  <1>1. packet \in DownPacket /\ Tail(down[n][link]) \in Seq(DownPacket)
    BY <1>0, FirstAndRest DEF Receive
  <1>2. down' \in [Nodes -> [Links -> Seq(DownPacket)]]
    BY <1>0, <1>1 DEF Receive, NetTypeOK
  <1>3. UNCHANGED <<version, master, alive, up, cmdQueue>>
    BY DEF Receive, masterVars
  <1>4. 0 \in Version /\ <<>> \in Seq(QueuedVersion)
    BY EmptySeq, MappingAssumption DEF Version
  <1>5. InstanceTypeOK' /\ cache' \in [Nodes -> CacheItem]
    <2>0. cache[n] \in CacheItem /\ cache \in [Nodes -> CacheItem]
      BY DEF NetTypeOK
    <2>1. CASE CmdMapObjectSuccess(mine) /\ UNCHANGED cache
      <3>1. attached' \subseteq Instances
        BY <2>1 DEF CmdMapObjectSuccess, InstanceTypeOK, On
      <3> QED
        BY <1>3, <1>4, <2>0, <2>1, <3>1 DEF CmdMapObjectSuccess, InstanceTypeOK
    <2>2. CASE packet.type \in {"reply", "failed"} /\ CmdMapObjectReply(n, mine, packet)
      <3>1. packet \in ReplyPacket
        BY <1>1, <2>2 DEF DownPacket, PlainPacket, DataPacket
      <3> HIDE DEF packet, mine
      <3> QED
        BY <1>3, <2>2, <3>1, CmdReplyTypes
    <2>3. CASE packet.type = "map" /\ CmdInstance(n, mine, packet.version, packet.last)
      <3>1. packet.version \in Version /\ packet.last \in BOOLEAN
        BY <1>1, <2>3 DEF DownPacket, PlainPacket, DataPacket, ReplyPacket
      <3> HIDE DEF packet, mine
      <3> QED
        BY <1>3, <2>3, <3>1, CmdInstanceTypes
    <2>4. CASE packet.type \in {"empty", "commit"}
               /\ \/ \E delta \in BOOLEAN :
                        CmdData(mine, packet.version, delta) /\ UNCHANGED cache
                  \/ CmdInstance(n, mine, packet.version, TRUE)
      <3>1. packet.version \in Version
        BY <1>1, <2>4 DEF DownPacket, PlainPacket, DataPacket, ReplyPacket
      <3> HIDE DEF packet, mine
      <3> QED
        BY <1>3, <2>0, <2>4, <3>1, CmdDataTypes, CmdInstanceTypes
    <2>5. CASE CmdDetachObject(mine) /\ UNCHANGED cache
      <3>1. attached' \subseteq Instances
        BY <2>5 DEF CmdDetachObject, InstanceTypeOK
      <3> QED
        BY <1>3, <2>0, <2>5, <3>1, ForgetTypes DEF CmdDetachObject
    <2>6. CASE CmdUnmapObject(n, mine)
      <3>1. Erase(cache[n]) \in CacheItem
        BY <2>0, CacheOpsType
      <3> QED
        BY <1>3, <2>0, <2>6, <3>1 DEF CmdUnmapObject, InstanceTypeOK
    <2> QED
      BY <2>1, <2>2, <2>3, <2>4, <2>5, <2>6 DEF Receive
  <1> QED
    BY <1>2, <1>3, <1>5 DEF NetTypeOK

(* The application thread of an instance.                                  *)
LEMMA RequestType ==
    ASSUME NetTypeOK, NEW i \in Instances, NEW requested \in Requests
    PROVE  (IF Cached(cache[NodeOf[i]])
            THEN MapRequest(i, requested, TRUE,
                            GetVersion(cache[NodeOf[i]].versions[1]),
                            GetVersion(Newest(cache[NodeOf[i]])))
            ELSE MapRequest(i, requested, FALSE, VERSION_NONE, VERSION_NONE)) \in UpPacket
  <1> DEFINE n == NodeOf[i]
             item == cache[n]
             hit == MapRequest(i, requested, TRUE, GetVersion(item.versions[1]),
                               GetVersion(Newest(item)))
             miss == MapRequest(i, requested, FALSE, VERSION_NONE, VERSION_NONE)
  <1>1. n \in Nodes /\ requested \in Int
    BY MappingAssumption DEF VERSION_OLDEST
  <1>2. item \in CacheItem
    BY <1>1 DEF NetTypeOK
  <1>3. ASSUME NEW stream \in CacheStream
        PROVE  GetVersion(stream) \in Nat
    BY MasterAssumption, MappingAssumption
       DEF GetVersion, VERSION_INVALID, CacheStream, Version
  <1>4. Cached(item) => hit \in UpPacket
    <2> SUFFICES ASSUME Cached(item) PROVE hit \in UpPacket
      OBVIOUS
    <2>1. item.versions[1] \in CacheStream /\ Newest(item) \in CacheStream
      BY <1>2, ItemFields DEF Newest
    <2>2. GetVersion(item.versions[1]) \in Nat /\ GetVersion(Newest(item)) \in Nat
      BY <1>3, <2>1
    <2> HIDE DEF item
    <2> QED
      BY <1>1, <2>2 DEF MapRequest, UpPacket, CommandPacket, RequestPacket, Single
  <1>5. miss \in UpPacket
    BY <1>1 DEF MapRequest, UpPacket, CommandPacket, RequestPacket, Single
  <1> QED
    BY <1>4, <1>5

(* mapObjectNB.                                                            *)
LEMMA MapObjectNBTypes ==
    ASSUME InstanceTypeOK, NetTypeOK, NEW i \in Instances, NEW requested \in Requests,
           MapObjectNB(i, requested)
    PROVE  InstanceTypeOK' /\ NetTypeOK'
  <1> DEFINE n == NodeOf[i]
             item == cache[n]
             packet == IF Cached(item)
                       THEN MapRequest(i, requested, TRUE, GetVersion(item.versions[1]),
                                       GetVersion(Newest(item)))
                       ELSE MapRequest(i, requested, FALSE, VERSION_NONE, VERSION_NONE)
  <1>1. n \in Nodes /\ item \in CacheItem
    BY MappingAssumption DEF NetTypeOK
  <1>2. packet \in UpPacket
    BY RequestType
  <1>3. SendUp(n, packet)
    BY DEF MapObjectNB
  <1>4. up' \in [Nodes -> Seq(UpPacket)]
    <2> HIDE DEF packet, n
    <2> QED
      BY <1>1, <1>2, <1>3, SendUpType
  <1>5. Pin(item) \in CacheItem
    BY <1>1, CacheOpsType
  <1>6. cache' \in [Nodes -> CacheItem]
    BY <1>1, <1>5 DEF MapObjectNB, NetTypeOK
  <1>7. UNCHANGED <<version, master, attached, queue, mapTo, slaveVersion, content,
                    alive, down, cmdQueue>>
    BY DEF MapObjectNB, masterVars
  <1>8. InstanceTypeOK'
    BY <1>7 DEF MapObjectNB, InstanceTypeOK
  <1> QED
    BY <1>4, <1>6, <1>7, <1>8 DEF NetTypeOK

(* An acknowledgement carries a limit of 64 bit.                           *)
LEMMA AckType ==
    ASSUME InstanceTypeOK, NEW i \in Instances, UnpackOneVersion(i)
    PROVE  UNCHANGED up \/ \E packet \in UpPacket :
               /\ SendUp(NodeOf[i], packet) /\ packet.insts = {i}
               /\ packet.type = "maxVersion"
  <1> DEFINE data == Head(queue[i])
             limit == (data.version + MaxVersions[i]) % (UINT64_MAX + 1)
  <1>1. data \in QueuedVersion
    BY FirstAndRest DEF UnpackOneVersion, InstanceTypeOK
  <1>2. data.version \in Nat
    BY <1>1, MappingAssumption DEF QueuedVersion, Version
  <1>3. UINT64_MAX \in Nat /\ data.version + MaxVersions[i] \in Nat
    BY <1>2, MasterAssumption
  <1>4. limit \in 0..UINT64_MAX
    BY <1>3, WrapsIntoRange
  <1>5. \/ UNCHANGED up
        \/ /\ limit > data.version
           /\ SendUp(NodeOf[i], Packet("maxVersion", {i}, limit))
    BY <1>2, <1>3, <1>4 DEF UnpackOneVersion, SendAck
  <1> HIDE DEF limit, data
  <1>6. limit > data.version => limit \in 1..UINT64_MAX
    BY <1>2, <1>3, <1>4
  <1>7. limit \in 1..UINT64_MAX => Packet("maxVersion", {i}, limit) \in UpPacket
    BY DEF Packet, UpPacket, Single
  <1>8. /\ Packet("maxVersion", {i}, limit).type = "maxVersion"
        /\ Packet("maxVersion", {i}, limit).insts = {i}
    BY DEF Packet
  <1> QED
    BY <1>5, <1>6, <1>7, <1>8

(* _unpackOneVersion with its acknowledgement.                             *)
LEMMA UnpackOneVersionTypes ==
    ASSUME InstanceTypeOK, NetTypeOK, NEW i \in Instances, UnpackOneVersion(i)
    PROVE  InstanceTypeOK' /\ NetTypeOK'
  <1> DEFINE data == Head(queue[i])
  <1>1. data \in QueuedVersion /\ Tail(queue[i]) \in Seq(QueuedVersion)
    BY FirstAndRest DEF UnpackOneVersion, InstanceTypeOK
  <1>2. data.version \in Version /\ data.version \in Nat
    BY <1>1, MappingAssumption DEF QueuedVersion, Version
  <1>3. UNCHANGED <<version, master, state, attached, mapTo, cache, alive, down, cmdQueue>>
    BY DEF UnpackOneVersion, masterVars
  <1>4. InstanceTypeOK'
    <2>1. Unpacked(data, content[i]) \in Nat
      BY <1>2 DEF Unpacked, InstanceTypeOK
    <2> QED
      BY <1>1, <1>2, <1>3, <2>1 DEF UnpackOneVersion, InstanceTypeOK
  <1>5. up' \in [Nodes -> Seq(UpPacket)]
    BY AckType, SendUpType, MappingAssumption DEF NetTypeOK
  <1> QED
    BY <1>3, <1>4, <1>5 DEF NetTypeOK

(* The application thread of an instance.                                  *)
LEMMA SlaveTypes ==
    ASSUME InstanceTypeOK, NetTypeOK, NEW i \in Instances, SlaveNext(i)
    PROVE  InstanceTypeOK' /\ NetTypeOK'
  <1>1. CASE \E requested \in Requests : MapObjectNB(i, requested)
    BY <1>1, MapObjectNBTypes
  <1>2. CASE MapObjectSync(i)
    <2>1. UNCHANGED <<version, master, attached, cache, alive, down, up, cmdQueue>>
      BY <1>2 DEF MapObjectSync, masterVars, netVars
    <2>2. CASE i \in attached
      BY <1>2, <2>1, <2>2 DEF MapObjectSync, InstanceTypeOK, NetTypeOK
    <2>3. CASE i \notin attached
      <3>1. InstanceTypeOK'
        BY <1>2, <2>1, <2>3, ForgetTypes DEF MapObjectSync, InstanceTypeOK
      <3> QED
        BY <2>1, <3>1 DEF NetTypeOK
    <2> QED
      BY <2>2, <2>3
  <1>3. CASE ApplyMapData(i)
    <2>1. Head(queue[i]) \in QueuedVersion /\ Tail(queue[i]) \in Seq(QueuedVersion)
      BY <1>3, FirstAndRest DEF ApplyMapData, InstanceTypeOK
    <2>2. Head(queue[i]).version \in Version /\ Head(queue[i]).version \in Nat
      BY <2>1, MappingAssumption DEF QueuedVersion, Version
    <2>3. UNCHANGED <<version, master, attached, mapTo, cache, alive, down, up, cmdQueue>>
      BY <1>3 DEF ApplyMapData, masterVars, netVars
    <2>a. Unpacked(Head(queue[i]), content[i]) \in Nat
      BY <2>2 DEF Unpacked, InstanceTypeOK
    <2>4. InstanceTypeOK'
      <3>1. CASE Head(queue[i]).version = mapTo[i]
        BY <1>3, <2>1, <2>2, <2>3, <2>a, <3>1 DEF ApplyMapData, InstanceTypeOK
      <3>2. CASE Head(queue[i]).version # mapTo[i]
        BY <1>3, <2>1, <2>2, <2>3, <3>2 DEF ApplyMapData, InstanceTypeOK
      <3> QED
        BY <3>1, <3>2
    <2> QED
      BY <2>3, <2>4 DEF NetTypeOK
  <1>4. CASE UnpackOneVersion(i)
    BY <1>4, UnpackOneVersionTypes
  <1>5. CASE UnmapObject(i)
    <2>1. UNCHANGED <<version, master, attached, cache, alive, down, cmdQueue>>
      BY <1>5 DEF UnmapObject, masterVars
    <2>2. CASE i \in attached
      <3>1. Packet("unsubscribe", {i}, VERSION_NONE) \in UpPacket
        BY DEF Packet, UpPacket, CommandPacket
      <3>2. up' \in [Nodes -> Seq(UpPacket)]
        BY <1>5, <2>2, <3>1, SendUpType, MappingAssumption DEF UnmapObject
      <3> QED
        BY <1>5, <2>1, <2>2, <3>2 DEF UnmapObject, InstanceTypeOK, NetTypeOK
    <2>3. CASE i \notin attached
      <3>1. InstanceTypeOK'
        BY <1>5, <2>1, <2>3, ForgetTypes DEF UnmapObject, InstanceTypeOK
      <3> QED
        BY <1>5, <2>1, <2>3, <3>1 DEF UnmapObject, NetTypeOK
    <2> QED
      BY <2>2, <2>3
  <1> QED
    BY <1>1, <1>2, <1>3, <1>4, <1>5 DEF SlaveNext

(* Expiring and losing a node.                                             *)
LEMMA NodeTypes ==
    ASSUME InstanceTypeOK, NetTypeOK, NEW n \in Nodes, Expire(n) \/ NodeLost(n)
    PROVE  InstanceTypeOK' /\ NetTypeOK'
  <1>0. cache[n] \in CacheItem
    BY DEF NetTypeOK
  <1>1. CASE Expire(n)
    <2>1. \A item \in Expired(cache[n]) : item \in CacheItem
      BY <1>0, CacheOpsType
    <2>2. cache' \in [Nodes -> CacheItem]
      BY <1>1, <2>1 DEF Expire, NetTypeOK
    <2> QED
      BY <1>1, <2>2 DEF Expire, masterVars, instanceVars, netVars, InstanceTypeOK, NetTypeOK
  <1>2. CASE NodeLost(n)
    <2>1. UNCHANGED <<version, master, cmdQueue>>
      BY <1>2 DEF NodeLost, masterVars
    <2>2. InstanceTypeOK'
      <3>1. attached' \subseteq Instances
        BY <1>2 DEF NodeLost, InstanceTypeOK
      <3> QED
        BY <1>2, <2>1, <3>1, ForgetTypes DEF NodeLost
    <2>3. cache' \in [Nodes -> CacheItem]
      BY <1>0, <1>2, CacheOpsType DEF NodeLost, NetTypeOK
    <2>4. Packet("removeNode", On(n), VERSION_NONE) \in UpPacket
      BY DEF Packet, UpPacket, CommandPacket, On
    <2>5. up' \in [Nodes -> Seq(UpPacket)]
      BY <1>2, <2>4, SendUpType DEF NodeLost
    <2>6. [l \in Links |-> <<>>] \in [Links -> Seq(DownPacket)]
      BY EmptySeq
    <2>7. down' \in [Nodes -> [Links -> Seq(DownPacket)]]
      BY <1>2, <2>6 DEF NodeLost, NetTypeOK
    <2> QED
      BY <1>2, <2>1, <2>2, <2>3, <2>5, <2>7 DEF NodeLost, NetTypeOK
  <1> QED
    BY <1>1, <1>2

(* The steps of the master's node leave the instances alone.               *)
LEMMA MasterNodeTypes ==
    ASSUME InstanceTypeOK,
           \/ NewVersion \/ MasterOnly \/ DeregisterNotify \/ DeregisterDetach
           \/ (\E n \in Nodes : MasterReceive(n)) \/ MasterCommand,
           version' \in 1..LastVersion
    PROVE  InstanceTypeOK'
  BY DEF NewVersion, MasterOnly, DeregisterNotify, DeregisterDetach, MasterReceive,
         MasterCommand, slaveVars, instanceVars, InstanceTypeOK

(* Versions do not go beyond the bound.                                    *)
LEMMA VersionBound ==
    ASSUME InstanceTypeOK, NetTypeOK,
           \/ NewVersion \/ MasterOnly \/ DeregisterNotify \/ DeregisterDetach
           \/ (\E n \in Nodes : MasterReceive(n)) \/ MasterCommand
    PROVE  version' \in 1..LastVersion
  <1>1. version \in 1..LastVersion
    BY DEF InstanceTypeOK
  <1>2. CASE NewVersion
    BY <1>1, <1>2, MappingAssumption DEF NewVersion, CommitLocked
  <1>3. CASE MasterOnly
    BY <1>1, <1>3 DEF MasterOnly, CommitBegin, CommitProceed, CommitClean, CommitEmpty,
                      SetAutoObsolete
  <1>4. CASE DeregisterNotify \/ DeregisterDetach
    BY <1>1, <1>4 DEF DeregisterNotify, DeregisterDetach, RemoveSlaves, masterVars
  <1>5. CASE \E n \in Nodes : MasterReceive(n)
    BY <1>1, <1>5 DEF MasterReceive, CmdMaxVersion, masterVars
  <1>6. CASE MasterCommand
    BY <1>1, <1>6 DEF MasterCommand, CmdMapObject, CmdUnsubscribeObject, CmdRemoveNode,
                      AddSlave, RemoveSlaves, masterVars
  <1> QED
    BY <1>2, <1>3, <1>4, <1>5, <1>6

(* MappingInv holds at first.                                              *)
LEMMA MappingInitInv ==
    ASSUME Init
    PROVE  MappingInv
  <1>1. MasterTypeOK /\ MasterInv /\ SlowestSlaveLimits
    BY MasterInitInv DEF Init
  <1>2. version \in 1..LastVersion
    BY MappingAssumption DEF Init, MasterInit, VERSION_FIRST
  <1>3. 0 \in Version /\ <<>> \in Seq(QueuedVersion) /\ <<>> \in Seq(DownPacket)
        /\ <<>> \in Seq(UpPacket) /\ <<>> \in Seq(CommandPacket)
        /\ <<>> \in Seq(CacheStream)
    BY EmptySeq, MappingAssumption DEF Version
  <1>4. NoItem \in CacheItem
    BY <1>3 DEF NoItem, CacheItem
  <1>5. InstanceTypeOK
    BY <1>2, <1>3 DEF Init, InstanceTypeOK
  <1>6. NetTypeOK
    BY <1>3, <1>4 DEF Init, NetTypeOK
  <1> QED
    BY <1>1, <1>5, <1>6 DEF MappingInv

(* MappingInv is inductive.                                                *)
LEMMA MappingStepInv ==
    ASSUME MappingInv, [Next]_vars
    PROVE  MappingInv'
  <1>0. /\ MasterTypeOK /\ MasterInv /\ SlowestSlaveLimits
        /\ InstanceTypeOK /\ NetTypeOK /\ CheckConsistency
    BY DEF MappingInv, MasterInv
  <1>1. MasterTypeOK' /\ MasterInv' /\ SlowestSlaveLimits'
    BY <1>0, StepIsMasterStep, MasterStepInv
  <1>2. InstanceTypeOK' /\ NetTypeOK'
    <2>1. CASE NewVersion \/ MasterOnly
      BY <1>0, <2>1, CommitTypes, VersionBound, MasterNodeTypes
    <2>2. CASE DeregisterNotify \/ DeregisterDetach
      BY <1>0, <2>2, DeregisterTypes, VersionBound, MasterNodeTypes
    <2>3. ASSUME NEW n \in Nodes, MasterReceive(n)
          PROVE  InstanceTypeOK' /\ NetTypeOK'
      BY <1>0, <2>3, MasterReceiveTypes, VersionBound, MasterNodeTypes
    <2>4. ASSUME NEW n \in Nodes, Expire(n) \/ NodeLost(n)
          PROVE  InstanceTypeOK' /\ NetTypeOK'
      BY <1>0, <2>4, NodeTypes
    <2>5. CASE MasterCommand
      BY <1>0, <2>5, MasterCommandTypes, VersionBound, MasterNodeTypes
    <2>6. ASSUME NEW n \in Nodes, NEW link \in Links, Receive(n, link)
          PROVE  InstanceTypeOK' /\ NetTypeOK'
      BY <1>0, <2>6, ReceiveTypes
    <2>7. ASSUME NEW i \in Instances, SlaveNext(i)
          PROVE  InstanceTypeOK' /\ NetTypeOK'
      BY <1>0, <2>7, SlaveTypes
    <2>8. CASE UNCHANGED vars
      BY <1>0, <2>8 DEF vars, masterVars, slaveVars, instanceVars, netVars,
                        InstanceTypeOK, NetTypeOK
    <2> QED
      BY <2>1, <2>2, <2>3, <2>4, <2>5, <2>6, <2>7, <2>8 DEF Next
  <1> QED
    BY <1>1, <1>2 DEF MappingInv

(* The inductive invariant of the typed system.                            *)
LEMMA MappingInvariant == Spec => []MappingInv
  <1>1. Init => MappingInv
    BY MappingInitInv
  <1>2. MappingInv /\ [Next]_vars => MappingInv'
    BY MappingStepInv
  <1> QED
    BY <1>1, <1>2, PTL DEF Spec

-----------------------------------------------------------------------------
(* The whole system drives the change manager of the master as MasterSpec  *)
(* allows: map requests, acknowledgements, unsubscriptions and lost nodes, *)
(* in whatever order they are handled, are steps of MasterNext.            *)
THEOREM MappingImplementsMaster == Spec => ImplementsMaster
  <1>1. Init => MasterInit
    BY DEF Init
  <1>2. MappingInv /\ [Next]_vars => [MasterNext]_masterVars
    BY StepIsMasterStep DEF MappingInv
  <1> QED
    BY <1>1, <1>2, MappingInvariant, PTL DEF Spec, ImplementsMaster, MasterSpec

(* With all the threads and nodes around it, the master still retains a    *)
(* gapless run of versions that ends with the current one: _initSlave can  *)
(* send a new slave every version from the mapped one on.                  *)
THEOREM MappingConsistent == Spec => []CheckConsistency
  BY MappingImplementsMaster, MasterConsistent, PTL DEF ImplementsMaster

(* commit() is held back by the slowest mapped slave and by no slave that  *)
(* has unsubscribed or whose node was lost.                                *)
THEOREM MappingHeldBackBySlowest == Spec => []SlowestSlaveLimits
  BY MappingImplementsMaster, MasterHeldBackBySlowest, PTL DEF ImplementsMaster

(* Nothing that slaves do makes the master drop a version that             *)
(* setAutoObsolete promises to retain.                                     *)
THEOREM MappingRetainsYoung == Spec => RetainsYoung
  BY MappingImplementsMaster, MasterRetainsYoung, PTL DEF ImplementsMaster

-----------------------------------------------------------------------------
(* Type correctness.  A limit of 0 would block every commit: none is sent, *)
(* and addSlave computes none as long as versions stay so far below 2^64   *)
(* that the sum does not overflow.                                         *)

NoOverflow == \A i \in Instances : MaxVersions[i] \in {0, UINT64_MAX}
                                   \/ MaxVersions[i] + LastVersion =< UINT64_MAX

Bounds ==
    /\ commitCount \in 0..LastCommitCount
    /\ slaveMax \in [Instances -> 1..UINT64_MAX]

(* No limit of 0, and no commit count beyond the bound.                    *)
LEMMA BoundsStep ==
    ASSUME NoOverflow, MappingInv, Bounds, [Next]_vars
    PROVE  Bounds'
  <1>0. /\ MasterTypeOK /\ InstanceTypeOK /\ NetTypeOK
        /\ UINT64_MAX \in Nat /\ UINT64_MAX > 1
        /\ LastVersion \in Nat /\ LastCommitCount \in Nat
    BY MasterAssumption, MappingAssumption DEF MappingInv
  <1>1. ASSUME NEW i \in Instances, AddSlave(i)
        PROVE  Bounds'
    <2> DEFINE sum == MaxVersions[i] + version
    <2>1. MaxVersions[i] \in 0..UINT64_MAX /\ version \in 1..LastVersion
      BY <1>0, MasterAssumption DEF InstanceTypeOK
    <2>2. CASE MaxVersions[i] \in {0, UINT64_MAX}
      BY <1>0, <1>1, <2>2 DEF AddSlave, Bounds
    <2>3. CASE MaxVersions[i] \notin {0, UINT64_MAX}
      <3>1. sum \in 1..UINT64_MAX
        BY <1>0, <2>1, <2>3 DEF NoOverflow
      <3> HIDE DEF sum
      <3>2. sum % (UINT64_MAX + 1) = sum
        BY <1>0, <3>1, Z3
      <3> QED
        BY <1>0, <1>1, <2>3, <3>1, <3>2 DEF AddSlave, Bounds, sum
    <2> QED
      BY <2>2, <2>3
  <1>2. ASSUME NEW gone, RemoveSlaves(gone)
        PROVE  Bounds'
    BY <1>0, <1>2 DEF RemoveSlaves, Bounds
  <1>3. ASSUME UNCHANGED masterVars
        PROVE  Bounds'
    BY <1>3 DEF masterVars, Bounds
  <1>4. ASSUME NEW n \in Nodes, MasterReceive(n)
        PROVE  Bounds'
    <2> DEFINE packet == Head(up[n])
    <2>1. packet \in UpPacket
      BY <1>0, <1>4, FirstAndRest DEF NetTypeOK, MasterReceive
    <2>2. CASE packet.type = "maxVersion" /\ master # "gone"
      <3>1. packet.insts \subseteq Instances /\ packet.version \in 1..UINT64_MAX
        BY <2>1, <2>2 DEF UpPacket, CommandPacket, RequestPacket, Single
      <3>2. \E i \in packet.insts : CmdMaxVersion(i, packet.version)
        BY <1>4, <2>2 DEF MasterReceive
      <3> HIDE DEF packet
      <3> QED
        BY <3>1, <3>2 DEF CmdMaxVersion, Bounds
    <2>3. CASE ~(packet.type = "maxVersion" /\ master # "gone")
      BY <1>3, <1>4, <2>3 DEF MasterReceive
    <2> QED
      BY <2>2, <2>3
  <1>5. CASE MasterCommand
    <2> DEFINE packet == Head(cmdQueue)
    <2>1. packet \in CommandPacket
      BY <1>0, <1>5, FirstAndRest DEF NetTypeOK, MasterCommand
    <2>2. CASE CmdMapObject(packet)
      <3>1. packet.insts \in Single
        BY <2>1, <2>2 DEF CommandPacket, RequestPacket, CmdMapObject
      <3>2. UNCHANGED masterVars \/ AddSlave(CHOOSE j \in packet.insts : TRUE)
        BY <2>2 DEF CmdMapObject
      <3> QED
        BY <1>1, <1>3, <3>1, <3>2, ChosenInstance
    <2>3. CASE CmdUnsubscribeObject(packet) \/ CmdRemoveNode(packet)
      BY <1>2, <1>3, <2>3 DEF CmdUnsubscribeObject, CmdRemoveNode
    <2> QED
      BY <1>5, <2>2, <2>3 DEF MasterCommand
  <1>6. CASE NewVersion
    <2>1. PICK incarnation \in commitCount..LastCommitCount : CommitLocked(incarnation)
      BY <1>6 DEF NewVersion
    <2> QED
      BY <1>0, <2>1 DEF CommitLocked, UpdateCommitCount, Bounds
  <1>7. CASE MasterOnly
    BY <1>0, <1>7 DEF MasterOnly, CommitBegin, CommitProceed, CommitClean, CommitEmpty,
                      SetAutoObsolete, UpdateCommitCount, Bounds
  <1>8. CASE DeregisterNotify \/ DeregisterDetach
    BY <1>2, <1>3, <1>8 DEF DeregisterNotify, DeregisterDetach
  <1>9. ASSUME NEW n \in Nodes, Expire(n) \/ NodeLost(n)
        PROVE  Bounds'
    BY <1>3, <1>9 DEF Expire, NodeLost
  <1>10. ASSUME NEW n \in Nodes, NEW link \in Links, Receive(n, link)
         PROVE  Bounds'
    BY <1>3, <1>10 DEF Receive
  <1>11. ASSUME NEW i \in Instances, SlaveNext(i)
         PROVE  Bounds'
    BY <1>3, <1>11 DEF SlaveNext, MapObjectNB, MapObjectSync, ApplyMapData,
                       UnpackOneVersion, UnmapObject
  <1>12. CASE UNCHANGED vars
    BY <1>3, <1>12 DEF vars
  <1> QED
    BY <1>4, <1>5, <1>6, <1>7, <1>8, <1>9, <1>10, <1>11, <1>12 DEF Next

(* The invariants imply the type invariant of the runs.                    *)
LEMMA InvIsTypeOK ==
    ASSUME MappingInv, Bounds
    PROVE  TypeOK
  <1>0. /\ MasterTypeOK /\ InstanceTypeOK /\ NetTypeOK /\ SlowestSlaveLimits
        /\ UINT64_MAX \in Nat /\ UINT64_MAX > 1
    BY MasterAssumption DEF MappingInv
  <1>1. maxVersion \in 1..UINT64_MAX
    BY <1>0 DEF MasterTypeOK, SlowestSlaveLimits, Bounds
  <1>2. \A k \in 1..Len(cmdQueue) :
           cmdQueue[k].type \in {"mapObject", "unsubscribe", "removeNode"}
    <2> SUFFICES ASSUME NEW k \in 1..Len(cmdQueue)
                 PROVE  cmdQueue[k].type \in {"mapObject", "unsubscribe", "removeNode"}
      OBVIOUS
    <2>1. cmdQueue[k] \in CommandPacket
      BY <1>0, ElementOfSeq DEF NetTypeOK
    <2> QED
      BY <2>1 DEF CommandPacket, RequestPacket
  <1> QED
    BY <1>0, <1>1, <1>2 DEF MasterTypeOK, InstanceTypeOK, Bounds, Version, TypeOK

(* The system is type correct: no version beyond the bound reaches a slave *)
(* by any way (unicast, multicast, cache, map data), no slave ever has the *)
(* limit 0, which would block every commit, and the command thread gets no *)
(* packet it has no handler for.                                           *)
THEOREM MappingTypeCorrect ==
    ASSUME NoOverflow
    PROVE  Spec => []TypeOK
  <1>1. Init => Bounds
    BY MasterAssumption DEF Init, MasterInit, Bounds, Buffered
  <1>2. MappingInv /\ Bounds /\ [Next]_vars => Bounds'
    BY BoundsStep
  <1>3. MappingInv /\ Bounds => TypeOK
    BY InvIsTypeOK
  <1> QED
    BY <1>1, <1>2, <1>3, MappingInvariant, PTL DEF Spec
=============================================================================
