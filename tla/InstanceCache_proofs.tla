------------------------ MODULE InstanceCache_proofs ------------------------
(***************************************************************************)
(* Proofs about the instance cache of a node within the whole system: the  *)
(* map requests under way pin its data, and nothing else does.             *)
(***************************************************************************)
EXTENDS ObjectMapping_proofs, FunctionTheorems

USE DEF VERSION_NONE

-----------------------------------------------------------------------------
(* Counting the packets of a stream that hold a pin.                       *)

(* Moving the members of a set of numbers keeps their number.              *)
LEMMA ShiftKeepsCount ==
    ASSUME NEW A \in SUBSET Int, IsFiniteSet(A), NEW d \in Int,
           NEW B, B = {k + d : k \in A}
    PROVE  IsFiniteSet(B) /\ Cardinality(B) = Cardinality(A)
  <1> DEFINE f == [k \in A |-> k + d]
  <1>1. f \in [A -> B]
    OBVIOUS
  <1>2. \A k, l \in A : f[k] = f[l] => k = l
    OBVIOUS
  <1>3. \A b \in B : \E k \in A : f[k] = b
    OBVIOUS
  <1>4. f \in Bijection(A, B)
    BY <1>1, <1>2, <1>3, Fun_IsBij
  <1>5. ExistsBijection(A, B)
    BY <1>4, Fun_ExistsBij
  <1> QED
    BY <1>5, FS_Bijection

PinsAt(n, q) == {k \in 1..Len(q) : IsPin(n, q[k])}

(* Pins counts the places of a stream at which a pin is.                   *)
LEMMA PinsFinite ==
    ASSUME NEW S, NEW q \in Seq(S), NEW n
    PROVE  IsFiniteSet(PinsAt(n, q)) /\ Pins(n, q) = Cardinality(PinsAt(n, q))
           /\ Pins(n, q) \in Nat
  <1>1. IsFiniteSet(1..Len(q))
    BY LenProperties, FS_Interval
  <1>2. IsFiniteSet(PinsAt(n, q))
    BY <1>1, FS_Subset DEF PinsAt
  <1> QED
    BY <1>2, FS_CardinalityType DEF PinsAt, Pins

(* Streams one behind the other.                                           *)
LEMMA PinsConcat ==
    ASSUME NEW S, NEW q \in Seq(S), NEW r \in Seq(S), NEW n
    PROVE  Pins(n, q \o r) = Pins(n, q) + Pins(n, r)
  <1> DEFINE A == PinsAt(n, q)
             B == PinsAt(n, r)
             C == {k + Len(q) : k \in B}
  <1>1. /\ q \o r \in Seq(S) /\ Len(q) \in Nat /\ Len(r) \in Nat
        /\ Len(q \o r) = Len(q) + Len(r)
        /\ \A k \in 1..Len(q) + Len(r) :
              (q \o r)[k] = IF k <= Len(q) THEN q[k] ELSE r[k - Len(q)]
    BY ConcatProperties, LenProperties
  <1>2. IsFiniteSet(A) /\ IsFiniteSet(B) /\ Pins(n, q) = Cardinality(A)
        /\ Pins(n, r) = Cardinality(B) /\ Pins(n, q \o r) = Cardinality(PinsAt(n, q \o r))
    BY <1>1, PinsFinite
  <1>3. IsFiniteSet(C) /\ Cardinality(C) = Cardinality(B)
    <2>1. B \in SUBSET Int
      BY <1>1 DEF PinsAt
    <2>2. Len(q) \in Int
      BY <1>1
    <2> DEFINE m == Len(q)
    <2>3. C = {k + m : k \in B}
      OBVIOUS
    <2> HIDE DEF B, C, m
    <2> QED
      BY <1>2, <2>1, <2>2, <2>3, ShiftKeepsCount DEF m
  <1>4. PinsAt(n, q \o r) = A \cup C
    <2>1. ASSUME NEW k \in 1..Len(q) + Len(r)
          PROVE  k \in PinsAt(n, q \o r) <=> k \in A \cup C
      <3>1. CASE k =< Len(q)
        BY <1>1, <3>1 DEF PinsAt
      <3>2. CASE k > Len(q)
        <4>1. (q \o r)[k] = r[k - Len(q)] /\ k - Len(q) \in 1..Len(r) /\ k \notin A
          BY <1>1, <3>2 DEF PinsAt
        <4>2. k \in C <=> k - Len(q) \in B
          BY <1>1, <4>1 DEF PinsAt
        <4>3. k - Len(q) \in B <=> IsPin(n, r[k - Len(q)])
          BY <4>1 DEF PinsAt
        <4>4. k \in PinsAt(n, q \o r) <=> IsPin(n, (q \o r)[k])
          BY <1>1 DEF PinsAt
        <4> QED
          BY <4>1, <4>2, <4>3, <4>4
      <3> QED
        BY <1>1, <3>1, <3>2
    <2>2. A \cup C \subseteq 1..Len(q) + Len(r)
      BY <1>1 DEF PinsAt
    <2>3. PinsAt(n, q \o r) \subseteq 1..Len(q) + Len(r)
      BY <1>1 DEF PinsAt
    <2> QED
      BY <2>1, <2>2, <2>3
  <1>5. A \cap C = {}
    BY <1>1 DEF PinsAt
  <1>6. Cardinality(A \cup C) = Cardinality(A) + Cardinality(C) - Cardinality(A \cap C)
    BY <1>2, <1>3, FS_Union
  <1>7. Cardinality(A) \in Nat /\ Cardinality(C) \in Nat
    BY <1>2, <1>3, FS_CardinalityType
  <1>8. Cardinality(A \cap C) = 0
    BY <1>5, FS_EmptySet
  <1> HIDE DEF A, B, C
  <1> QED
    BY <1>2, <1>3, <1>4, <1>6, <1>7, <1>8

(* A stream without pins.                                                  *)
LEMMA PinsNone ==
    ASSUME NEW S, NEW q \in Seq(S), NEW n, \A k \in 1..Len(q) : ~IsPin(n, q[k])
    PROVE  Pins(n, q) = 0
  BY FS_EmptySet DEF Pins

PinCount(n, p) == IF IsPin(n, p) THEN 1 ELSE 0

(* The pins of a single packet.                                            *)
LEMMA PinsOne ==
    ASSUME NEW n, NEW p
    PROVE  Pins(n, <<p>>) = PinCount(n, p)
  <1>1. Len(<<p>>) = 1 /\ <<p>>[1] = p /\ 1..1 = {1}
    OBVIOUS
  <1>2. CASE IsPin(n, p)
    <2>1. {k \in 1..Len(<<p>>) : IsPin(n, <<p>>[k])} = {1}
      BY <1>1, <1>2
    <2> QED
      BY <1>2, <2>1, FS_Singleton DEF Pins, PinCount
  <1>3. CASE ~IsPin(n, p)
    <2>1. {k \in 1..Len(<<p>>) : IsPin(n, <<p>>[k])} = {}
      BY <1>1, <1>3
    <2> QED
      BY <1>3, <2>1, FS_EmptySet DEF Pins, PinCount
  <1> QED
    BY <1>2, <1>3

(* A packet is sent.                                                       *)
LEMMA PinsAppend ==
    ASSUME NEW S, NEW q \in Seq(S), NEW p \in S, NEW n
    PROVE  Pins(n, Append(q, p)) = Pins(n, q) + PinCount(n, p)
  <1>1. Append(q, p) = q \o <<p>> /\ <<p>> \in Seq(S)
    BY AppendIsConcat, ShortSeqs
  <1> QED
    BY <1>1, PinsConcat, PinsOne

(* A packet is received.                                                   *)
LEMMA PinsHead ==
    ASSUME NEW S, NEW q \in Seq(S), q # <<>>, NEW n
    PROVE  Pins(n, q) = PinCount(n, Head(q)) + Pins(n, Tail(q))
  <1>1. Head(q) \in S /\ Tail(q) \in Seq(S)
    BY HeadTailProperties
  <1>2. <<Head(q)>> \in Seq(S) /\ q = <<Head(q)>> \o Tail(q)
    <2>1. <<Head(q)>> \in Seq(S)
      BY <1>1, ShortSeqs
    <2>2. /\ Len(q) \in Nat \ {0} /\ Len(Tail(q)) = Len(q) - 1
          /\ \A k \in 1..Len(Tail(q)) : Tail(q)[k] = q[k + 1]
          /\ Head(q) = q[1]
      BY EmptySeq, HeadTailProperties
    <2> DEFINE h == <<Head(q)>>
               t == Tail(q)
    <2>3. Len(h) = 1 /\ h[1] = Head(q)
      OBVIOUS
    <2> HIDE DEF h, t
    <2>4. h \o t \in Seq(S) /\ Len(h \o t) = Len(h) + Len(t)
          /\ \A k \in 1..Len(h) + Len(t) :
                (h \o t)[k] = IF k <= Len(h) THEN h[k] ELSE t[k - Len(h)]
      BY <1>1, <2>1, ConcatProperties DEF h, t
    <2>5. Len(t) = Len(q) - 1 /\ \A k \in 1..Len(t) : t[k] = q[k + 1]
      BY <2>2 DEF t
    <2>6. Len(h \o t) = Len(q) /\ \A k \in 1..Len(q) : (h \o t)[k] = q[k]
      BY <2>2, <2>3, <2>4, <2>5
    <2>7. h \o t = q
      BY <2>4, <2>6, SeqEqual
    <2> QED
      BY <2>1, <2>7 DEF h, t
  <1>3. Pins(n, <<Head(q)>> \o Tail(q)) = Pins(n, <<Head(q)>>) + Pins(n, Tail(q))
    BY <1>1, <1>2, PinsConcat
  <1> QED
    BY <1>2, <1>3, PinsOne

-----------------------------------------------------------------------------
(* The inductive invariant.  A request is queued on the stream of the node *)
(* of its instance, and an entry that is in use exists.                    *)

OwnRequests ==
    \A n \in Nodes : \A k \in 1..Len(up[n]) :
        up[n][k].type = "mapObject" => up[n][k].insts \subseteq On(n)

PinnedIsCached == \A n \in alive : cache[n].access # 0 => Cached(cache[n])

PinInv == PinsBalanced /\ OwnRequests /\ PinnedIsCached

Total(n) == Pins(n, up[n]) + Pins(n, cmdQueue)
            + Pins(n, down[n]["unicast"]) + Pins(n, down[n]["multicast"])

(* The types of the streams of a node, for the counting lemmas.            *)
LEMMA StreamTypes ==
    ASSUME NetTypeOK, NEW n \in Nodes
    PROVE  /\ up[n] \in Seq(UpPacket) /\ cmdQueue \in Seq(CommandPacket)
           /\ \A l \in Links : down[n][l] \in Seq(DownPacket)
           /\ cache[n] \in CacheItem
           /\ Pins(n, up[n]) \in Nat /\ Pins(n, cmdQueue) \in Nat
           /\ \A l \in Links : Pins(n, down[n][l]) \in Nat
  BY PinsFinite DEF NetTypeOK

(* Which packets are pins.                                                 *)
LEMMA PlainIsNoPin ==
    ASSUME NEW p, p.type \notin {"mapObject", "reply", "failed"}, NEW n
    PROVE  ~IsPin(n, p) /\ PinCount(n, p) = 0
  BY DEF IsPin, PinCount

(* A packet for one instance pins the cache of that instance's node only.  *)
LEMMA RequestIsPin ==
    ASSUME NEW i \in Instances, NEW p, p.insts = {i}, NEW n
    PROVE  /\ p.type = "mapObject" =>
                 (IsPin(n, p) <=> n = NodeOf[i] /\ p.useCache)
           /\ p.type \in {"reply", "failed"} =>
                 (IsPin(n, p) <=> n = NodeOf[i] /\ p.releaseCache)
  BY DEF IsPin, On

(* Packets that are sent down.                                             *)
LEMMA SendPins ==
    ASSUME NetTypeOK, NEW n \in alive, NEW receivers, NEW link \in Links,
           NEW packets \in Seq(DownPacket), Send(receivers, link, packets), NEW l \in Links
    PROVE  /\ (l = link /\ (n \in receivers \/ link = "multicast")) =>
                 Pins(n, down'[n][l]) = Pins(n, down[n][l]) + Pins(n, packets)
           /\ ~(l = link /\ (n \in receivers \/ link = "multicast")) =>
                 Pins(n, down'[n][l]) = Pins(n, down[n][l])
  <1>1. n \in Nodes /\ down[n] \in [Links -> Seq(DownPacket)] /\ Pins(n, down[n][l]) \in Nat
    BY StreamTypes DEF NetTypeOK
  <1>2. CASE l = link /\ (n \in receivers \/ link = "multicast")
    <2>1. down'[n][l] = down[n][l] \o packets
      BY <1>1, <1>2 DEF Send
    <2>2. Pins(n, down[n][l] \o packets) = Pins(n, down[n][l]) + Pins(n, packets)
      BY <1>1, PinsConcat
    <2> QED
      BY <1>2, <2>1, <2>2
  <1>3. CASE ~(l = link /\ (n \in receivers \/ link = "multicast"))
    <2>1. down'[n][l] = down[n][l]
      BY <1>1, <1>3 DEF Send
    <2> QED
      BY <1>1, <1>3, <2>1
  <1> QED
    BY <1>2, <1>3

(* The sum over both links after packets were sent on one of them.         *)
LEMMA SendTotal ==
    ASSUME NetTypeOK, NEW n \in alive, NEW receivers, NEW link \in Links,
           NEW packets \in Seq(DownPacket), Send(receivers, link, packets),
           NEW count, count = Pins(n, packets),
           ~(n \in receivers \/ link = "multicast") => count = 0
    PROVE  Pins(n, down'[n]["unicast"]) + Pins(n, down'[n]["multicast"]) =
           Pins(n, down[n]["unicast"]) + Pins(n, down[n]["multicast"]) + count
  <1>1. n \in Nodes /\ Pins(n, packets) \in Nat
        /\ Pins(n, down[n]["unicast"]) \in Nat /\ Pins(n, down[n]["multicast"]) \in Nat
    BY StreamTypes, PinsFinite DEF NetTypeOK, Links
  <1>2. /\ link = "unicast" \/ link = "multicast"
        /\ "unicast" \in Links /\ "multicast" \in Links /\ "unicast" # "multicast"
    BY DEF Links
  <1>3. CASE n \in receivers \/ link = "multicast"
    <2>1. CASE link = "unicast"
      <3>1. /\ Pins(n, down'[n]["unicast"]) = Pins(n, down[n]["unicast"]) + Pins(n, packets)
            /\ Pins(n, down'[n]["multicast"]) = Pins(n, down[n]["multicast"])
        BY <1>2, <1>3, <2>1, SendPins
      <3> QED
        BY <1>1, <3>1
    <2>2. CASE link = "multicast"
      <3>1. Pins(n, down'[n]["multicast"]) = Pins(n, down[n]["multicast"]) + Pins(n, packets)
        BY <1>2, <2>2, SendPins, ZenonT(30)
      <3>2. Pins(n, down'[n]["unicast"]) = Pins(n, down[n]["unicast"])
        BY <1>2, <2>2, SendPins
      <3> QED
        BY <1>1, <3>1, <3>2
    <2> QED
      BY <1>2, <2>1, <2>2
  <1>4. CASE ~(n \in receivers \/ link = "multicast")
    <2>1. /\ Pins(n, down'[n]["unicast"]) = Pins(n, down[n]["unicast"])
          /\ Pins(n, down'[n]["multicast"]) = Pins(n, down[n]["multicast"])
      BY <1>2, <1>4, SendPins
    <2> QED
      BY <1>1, <1>4, <2>1
  <1> QED
    BY <1>3, <1>4

(* What sending a packet to the master adds to the pins.                   *)
LEMMA SendUpPins ==
    ASSUME NetTypeOK, NEW m \in Nodes, NEW packet \in UpPacket, SendUp(m, packet),
           NEW n \in Nodes
    PROVE  Pins(n, up'[n]) = Pins(n, up[n]) + IF n = m THEN PinCount(n, packet) ELSE 0
  <1>1. up[n] \in Seq(UpPacket) /\ Pins(n, up[n]) \in Nat
    BY StreamTypes
  <1>2. CASE n = m
    <2>1. up'[n] = Append(up[n], packet)
      BY <1>2 DEF SendUp, NetTypeOK
    <2> QED
      BY <1>1, <1>2, <2>1, PinsAppend
  <1>3. CASE n # m
    <2>1. up'[n] = up[n]
      BY <1>3 DEF SendUp, NetTypeOK
    <2> QED
      BY <1>1, <1>3, <2>1
  <1> QED
    BY <1>2, <1>3

(* Requests stay on the streams of their nodes.                            *)
LEMMA SendUpOwn ==
    ASSUME NetTypeOK, OwnRequests, NEW m \in Nodes, NEW packet \in UpPacket,
           SendUp(m, packet), packet.type = "mapObject" => packet.insts \subseteq On(m)
    PROVE  OwnRequests'
  <1> SUFFICES ASSUME NEW n \in Nodes, NEW k \in 1..Len(up'[n]),
                      up'[n][k].type = "mapObject"
               PROVE  up'[n][k].insts \subseteq On(n)
    BY DEF OwnRequests, On
  <1>1. up[n] \in Seq(UpPacket) /\ Len(up[n]) \in Nat
    BY StreamTypes, LenProperties
  <1>2. CASE n = m
    <2>1. up'[n] = Append(up[n], packet)
      BY <1>2 DEF SendUp, NetTypeOK
    <2>2. /\ Len(up'[n]) = Len(up[n]) + 1
          /\ \A j \in 1..Len(up[n]) : up'[n][j] = up[n][j]
          /\ up'[n][Len(up[n]) + 1] = packet
      BY <1>1, <2>1, AppendProperties
    <2>3. k \in 1..Len(up[n]) \/ k = Len(up[n]) + 1
      BY <1>1, <2>2
    <2> QED
      BY <1>2, <2>2, <2>3 DEF OwnRequests
  <1>3. CASE n # m
    <2>1. up'[n] = up[n]
      BY <1>3 DEF SendUp, NetTypeOK
    <2> QED
      BY <2>1 DEF OwnRequests
  <1> QED
    BY <1>2, <1>3

-----------------------------------------------------------------------------
(* The inductive step, action by action.                                   *)

(* Steps that touch neither streams nor caches.                            *)
LEMMA PinsSame ==
    ASSUME PinInv, UNCHANGED <<alive, cache, up, cmdQueue, down>>
    PROVE  PinInv'
  BY DEF PinInv, PinsBalanced, OwnRequests, PinnedIsCached

(* What the application thread of the master sends is no pin.              *)
LEMMA CommitPins ==
    ASSUME MappingInv, PinInv,
           NewVersion \/ MasterOnly \/ DeregisterNotify \/ DeregisterDetach
    PROVE  PinInv'
  <1>0. MasterTypeOK /\ InstanceTypeOK /\ NetTypeOK
    BY DEF MappingInv
  <1>1. CASE MasterOnly \/ DeregisterDetach
    BY <1>1, PinsSame DEF MasterOnly, DeregisterDetach, slaveVars, netVars
  <1>2. CASE NewVersion
    <2> DEFINE packet == Packet("commit", Instances, version + 1)
    <2>1. packet \in DownPacket
      BY <1>0, <1>2, MappingAssumption
         DEF NewVersion, InstanceTypeOK, Packet, DownPacket, PlainPacket, Version
    <2>2. packet.type = "commit"
      BY DEF Packet
    <2>3. Send(SlaveNodes, CommitLink(SlaveNodes), <<packet>>)
          /\ UNCHANGED <<alive, cache, up, cmdQueue>>
      BY <1>2 DEF NewVersion, slaveVars
    <2>4. CommitLink(SlaveNodes) \in Links
      BY DEF CommitLink, Links
    <2> HIDE DEF packet
    <2>5. ASSUME NEW n \in alive
          PROVE  Pins(n, down'[n]["unicast"]) + Pins(n, down'[n]["multicast"]) =
                 Pins(n, down[n]["unicast"]) + Pins(n, down[n]["multicast"])
      <3>1. Pins(n, <<packet>>) = 0
        BY <2>2, PinsOne, PlainIsNoPin
      <3>2. <<packet>> \in Seq(DownPacket)
        BY <2>1, ShortSeqs
      <3>3. Pins(n, down[n]["unicast"]) \in Nat /\ Pins(n, down[n]["multicast"]) \in Nat
        BY <1>0, StreamTypes DEF NetTypeOK, Links
      <3> DEFINE packets == <<packet>>
      <3>4. Send(SlaveNodes, CommitLink(SlaveNodes), packets) /\ packets \in Seq(DownPacket)
            /\ 0 = Pins(n, packets)
        BY <2>3, <3>1, <3>2
      <3> HIDE DEF packets
      <3>5. Pins(n, down'[n]["unicast"]) + Pins(n, down'[n]["multicast"]) =
            Pins(n, down[n]["unicast"]) + Pins(n, down[n]["multicast"]) + 0
        BY <1>0, <2>4, <3>4, SendTotal
      <3> QED
        BY <3>3, <3>5
    <2>6. ASSUME NEW n \in alive
          PROVE  cache'[n].access = Total(n)'
      <3>1. Pins(n, up[n]) \in Nat /\ Pins(n, cmdQueue) \in Nat
            /\ Pins(n, down[n]["unicast"]) \in Nat /\ Pins(n, down[n]["multicast"]) \in Nat
        BY <1>0, StreamTypes DEF NetTypeOK, Links
      <3>2. /\ down'[n]["unicast"] \in Seq(DownPacket)
            /\ down'[n]["multicast"] \in Seq(DownPacket)
        BY <1>0, <1>2, CommitTypes DEF NetTypeOK, Links
      <3>3. Pins(n, down'[n]["unicast"]) \in Nat /\ Pins(n, down'[n]["multicast"]) \in Nat
        BY <3>2, PinsFinite
      <3>4. cache[n].access = Total(n)
        BY DEF PinInv, PinsBalanced, Total
      <3> QED
        BY <2>3, <2>5, <3>1, <3>3, <3>4 DEF Total
    <2> QED
      BY <2>3, <2>6 DEF PinInv, PinsBalanced, OwnRequests, PinnedIsCached, Total
  <1>3. CASE DeregisterNotify
    <2>1. UNCHANGED <<alive, cache, up, cmdQueue>>
      BY <1>3 DEF DeregisterNotify, slaveVars
    <2>2. ASSUME NEW n \in alive
          PROVE  /\ Pins(n, down'[n]["unicast"]) = Pins(n, down[n]["unicast"])
                 /\ Pins(n, down'[n]["multicast"]) = Pins(n, down[n]["multicast"])
      <3> DEFINE packet == Packet("unmap", On(n), VERSION_NONE)
      <3>1. n \in Nodes /\ down[n] \in [Links -> Seq(DownPacket)]
            /\ "unicast" \in Links /\ "multicast" \in Links
            /\ down[n]["unicast"] \in Seq(DownPacket)
            /\ Pins(n, down[n]["unicast"]) \in Nat
        BY <1>0, StreamTypes DEF NetTypeOK, Links
      <3>2. packet \in DownPacket /\ packet.type = "unmap"
        BY MappingAssumption DEF Packet, On, DownPacket, PlainPacket, Version
      <3>3. /\ down'[n]["multicast"] = down[n]["multicast"]
            /\ \/ down'[n]["unicast"] = down[n]["unicast"]
               \/ down'[n]["unicast"] = Append(down[n]["unicast"], packet)
        BY <1>3, <3>1 DEF DeregisterNotify
      <3> HIDE DEF packet
      <3>4. PinCount(n, packet) = 0
        BY <3>2, PlainIsNoPin
      <3>5. Pins(n, Append(down[n]["unicast"], packet)) =
            Pins(n, down[n]["unicast"]) + PinCount(n, packet)
        BY <3>1, <3>2, PinsAppend
      <3>6. CASE down'[n]["unicast"] = down[n]["unicast"]
        BY <3>3, <3>6
      <3>7. CASE down'[n]["unicast"] = Append(down[n]["unicast"], packet)
        <4>1. Pins(n, down'[n]["unicast"]) = Pins(n, down[n]["unicast"]) + 0
          BY <3>4, <3>5, <3>7
        <4> QED
          BY <3>1, <3>3, <4>1
      <3> QED
        BY <3>3, <3>6, <3>7
    <2> QED
      BY <2>1, <2>2 DEF PinInv, PinsBalanced, OwnRequests, PinnedIsCached
  <1> QED
    BY <1>1, <1>2, <1>3

(* A packet moves from a connection to the queue of the command thread; an *)
(* acknowledgement is no pin.                                              *)
LEMMA MasterReceivePins ==
    ASSUME MappingInv, PinInv, NEW m \in Nodes, MasterReceive(m)
    PROVE  PinInv'
  <1> DEFINE packet == Head(up[m])
  <1>0. NetTypeOK
    BY DEF MappingInv
  <1>1. up[m] \in Seq(UpPacket) /\ up[m] # <<>> /\ packet \in UpPacket
    BY <1>0, FirstAndRest DEF NetTypeOK, MasterReceive
  <1>2. UNCHANGED <<alive, cache, down>> /\ up' = [up EXCEPT ![m] = Tail(up[m])]
    BY DEF MasterReceive, slaveVars
  <1>3. OwnRequests'
    <2> SUFFICES ASSUME NEW n \in Nodes, NEW k \in 1..Len(up'[n]),
                        up'[n][k].type = "mapObject"
                 PROVE  up'[n][k].insts \subseteq On(n)
      BY DEF OwnRequests, On
    <2>1. CASE n = m
      <3>1. up'[n] = Tail(up[m])
        BY <1>0, <1>2, <2>1 DEF NetTypeOK
      <3>2. Len(up[m]) \in Nat \ {0} /\ Len(Tail(up[m])) = Len(up[m]) - 1
            /\ \A j \in 1..Len(Tail(up[m])) : Tail(up[m])[j] = up[m][j + 1]
        BY <1>1, EmptySeq, HeadTailProperties
      <3>3. up'[n][k] = up[m][k + 1] /\ k + 1 \in 1..Len(up[m])
        BY <3>1, <3>2
      <3> QED
        BY <2>1, <3>3 DEF PinInv, OwnRequests
    <2>2. CASE n # m
      BY <1>0, <1>2, <2>2 DEF NetTypeOK, PinInv, OwnRequests
    <2> QED
      BY <2>1, <2>2
  <1>4. packet.type = "mapObject" => packet.insts \subseteq On(m)
    <2>1. 1 \in 1..Len(up[m]) /\ Head(up[m]) = up[m][1]
      BY <1>1, EmptySeq, HeadTailProperties
    <2> QED
      BY <2>1 DEF PinInv, OwnRequests
  <1>5. ASSUME NEW n \in alive
        PROVE  cache'[n].access = Total(n)'
    <2>0. n \in Nodes
      BY <1>0 DEF NetTypeOK
    <2>1. /\ Pins(n, up[n]) \in Nat /\ Pins(n, cmdQueue) \in Nat
          /\ Pins(n, down[n]["unicast"]) \in Nat /\ Pins(n, down[n]["multicast"]) \in Nat
          /\ cmdQueue \in Seq(CommandPacket)
      BY <1>0, <2>0, StreamTypes DEF Links
    <2>2. Pins(n, Tail(up[m])) \in Nat /\ PinCount(n, packet) \in Nat
      BY <1>1, FirstAndRest, PinsFinite DEF PinCount
    <2>3. n # m => PinCount(n, packet) = 0
      <3>1. packet.type \in {"mapObject", "unsubscribe", "removeNode", "maxVersion"}
            /\ (packet.type = "mapObject" => packet.insts \in Single)
        BY <1>1 DEF UpPacket, CommandPacket, RequestPacket
      <3>2. CASE packet.type = "mapObject"
        <4>1. PICK i \in Instances : packet.insts = {i}
          BY <3>1, <3>2 DEF Single
        <4>2. NodeOf[i] = m
          BY <1>4, <3>2, <4>1 DEF On
        <4> HIDE DEF packet
        <4> QED
          BY <3>2, <4>1, <4>2, RequestIsPin DEF PinCount
      <3>3. CASE packet.type # "mapObject"
        <4> HIDE DEF packet
        <4>1. packet.type \notin {"mapObject", "reply", "failed"}
          BY <3>1, <3>3
        <4> QED
          BY <4>1, PlainIsNoPin
      <3> QED
        BY <3>2, <3>3
    <2>4. Pins(n, up'[n]) = Pins(n, up[n]) - PinCount(n, packet)
      <3>1. CASE n = m
        <4>1. up'[n] = Tail(up[m])
          BY <1>0, <1>2, <3>1 DEF NetTypeOK
        <4>2. Pins(n, up[m]) = PinCount(n, Head(up[m])) + Pins(n, Tail(up[m]))
          BY <1>1, PinsHead
        <4> HIDE DEF packet
        <4> QED
          BY <2>1, <2>2, <3>1, <4>1, <4>2 DEF packet
      <3>2. CASE n # m
        <4>1. up'[n] = up[n]
          BY <1>0, <1>2, <2>0, <3>2 DEF NetTypeOK
        <4> HIDE DEF packet
        <4> QED
          BY <2>1, <2>3, <3>2, <4>1
      <3> QED
        BY <3>1, <3>2
    <2>5. Pins(n, cmdQueue') = Pins(n, cmdQueue) + PinCount(n, packet)
      <3>1. CASE packet.type = "maxVersion"
        <4>1. cmdQueue' = cmdQueue
          BY <3>1 DEF MasterReceive
        <4>2. PinCount(n, packet) = 0
          BY <3>1, PlainIsNoPin
        <4> HIDE DEF packet
        <4> QED
          BY <2>1, <4>1, <4>2
      <3>2. CASE packet.type # "maxVersion"
        <4>1. cmdQueue' = Append(cmdQueue, packet)
          BY <3>2 DEF MasterReceive
        <4>2. packet \in CommandPacket
          BY <1>1, <3>2 DEF UpPacket
        <4> HIDE DEF packet
        <4> QED
          BY <2>1, <4>1, <4>2, PinsAppend
      <3> QED
        BY <3>1, <3>2
    <2>6. cache[n].access = Total(n)
      BY DEF PinInv, PinsBalanced, Total
    <2> HIDE DEF packet
    <2> QED
      BY <1>2, <2>1, <2>2, <2>4, <2>5, <2>6 DEF Total
  <1> QED
    BY <1>2, <1>3, <1>5 DEF PinInv, PinsBalanced, PinnedIsCached, Total

(* The answer to a map request holds the pin of the request.               *)
LEMMA AnswerPins ==
    ASSUME MappingInv, NEW packet \in RequestPacket, NEW i \in Instances,
           packet.insts = {i}, NEW n, NEW packets,
           \/ packets = <<Reply("failed", packet, packet.version, FALSE)>>
           \/ packets = <<Packet("success", {i}, VERSION_NONE)>> \o MapData(i, packet)
                  \o <<Reply("reply", packet, MappedVersion(packet.version),
                             RepliesUseCache(packet))>>
    PROVE  packets \in Seq(DownPacket) /\ Pins(n, packets) = PinCount(n, packet)
  <1>0. MasterTypeOK /\ InstanceTypeOK /\ CheckConsistency
    BY DEF MappingInv, MasterInv
  <1>1. packet.type = "mapObject"
    BY DEF RequestPacket
  <1>2. ASSUME NEW reply, reply.type \in {"reply", "failed"}, reply.insts = packet.insts,
               reply.releaseCache = packet.useCache
        PROVE  PinCount(n, reply) = PinCount(n, packet)
    BY <1>1, <1>2, RequestIsPin DEF PinCount
  <1>3. CASE packets = <<Reply("failed", packet, packet.version, FALSE)>>
    <2> DEFINE reply == Reply("failed", packet, packet.version, FALSE)
    <2>1. reply.type = "failed" /\ reply.insts = packet.insts
          /\ reply.releaseCache = packet.useCache
      BY DEF Reply
    <2>2. packets \in Seq(DownPacket)
      BY <1>0, <1>3, AnswerTypes
    <2> HIDE DEF reply
    <2>3. PinCount(n, reply) = PinCount(n, packet)
      BY <1>2, <2>1
    <2>4. packets = <<reply>>
      BY <1>3 DEF reply
    <2> QED
      BY <2>2, <2>3, <2>4, PinsOne
  <1>4. CASE packets = <<Packet("success", {i}, VERSION_NONE)>> \o MapData(i, packet)
                  \o <<Reply("reply", packet, MappedVersion(packet.version),
                             RepliesUseCache(packet))>>
    <2> DEFINE reply == Reply("reply", packet, MappedVersion(packet.version),
                              RepliesUseCache(packet))
               success == Packet("success", {i}, VERSION_NONE)
               data == MapData(i, packet)
    <2>1. /\ reply.type = "reply" /\ reply.insts = packet.insts
          /\ reply.releaseCache = packet.useCache
          /\ success.type = "success"
      BY DEF Reply, Packet
    <2>2. packets \in Seq(DownPacket)
      BY <1>0, <1>4, AnswerTypes
    <2>3. data \in Seq(PlainPacket \cup DataPacket)
      BY <1>0, MapDataType
    <2>4. packets = <<success>> \o data \o <<reply>>
      BY <1>4
    <2> HIDE DEF reply, success, data
    <2>5. PinCount(n, reply) = PinCount(n, packet) /\ PinCount(n, success) = 0
      BY <1>2, <2>1, PlainIsNoPin
    <2>6. Pins(n, data) = 0
      <3> SUFFICES ASSUME NEW k \in 1..Len(data)
                   PROVE  ~IsPin(n, data[k])
        BY <2>3, PinsNone
      <3>1. data[k] \in PlainPacket \cup DataPacket
        BY <2>3, ElementOfSeq
      <3>2. data[k].type \notin {"mapObject", "reply", "failed"}
        BY <3>1 DEF PlainPacket, DataPacket
      <3> QED
        BY <3>2, PlainIsNoPin
    <2> DEFINE T == {success, reply} \cup PlainPacket \cup DataPacket
               first == <<success>>
               rest == <<reply>>
    <2>7. first \in Seq(T) /\ rest \in Seq(T) /\ data \in Seq(T)
      <3>1. success \in T /\ reply \in T /\ PlainPacket \cup DataPacket \subseteq T
        OBVIOUS
      <3> HIDE DEF T
      <3> QED
        BY <2>3, <3>1, ShortSeqs, SeqMonotonic
    <2>10. PinCount(n, reply) \in Nat /\ Pins(n, rest) = PinCount(n, reply)
           /\ Pins(n, first) = PinCount(n, success)
      BY PinsOne DEF PinCount
    <2>11. packets = (first \o data) \o rest
      BY <2>4
    <2> HIDE DEF T, first, rest
    <2>8. first \o data \in Seq(T) /\ Pins(n, first \o data) = Pins(n, first) + Pins(n, data)
      BY <2>7, ConcatProperties, PinsConcat
    <2>9. Pins(n, (first \o data) \o rest) = Pins(n, first \o data) + Pins(n, rest)
      BY <2>7, <2>8, PinsConcat
    <2>12. Pins(n, packets) = PinCount(n, packet)
      BY <2>5, <2>6, <2>8, <2>9, <2>10, <2>11
    <2> QED
      BY <2>2, <2>12
  <1> QED
    BY <1>3, <1>4

(* A command is popped and what it asks for is sent.                       *)
LEMMA MasterCommandPins ==
    ASSUME MappingInv, PinInv, MasterCommand
    PROVE  PinInv'
  <1> DEFINE packet == Head(cmdQueue)
             i == CHOOSE j \in packet.insts : TRUE
  <1>0. NetTypeOK
    BY DEF MappingInv
  <1>1. /\ cmdQueue \in Seq(CommandPacket) /\ cmdQueue # <<>>
        /\ packet \in CommandPacket /\ Tail(cmdQueue) \in Seq(CommandPacket)
    BY <1>0, FirstAndRest DEF NetTypeOK, MasterCommand
  <1>2. UNCHANGED <<alive, cache, up>> /\ cmdQueue' = Tail(cmdQueue)
    BY DEF MasterCommand, slaveVars
  <1>3. "unicast" \in Links /\ "multicast" \in Links /\ MapLink \in Links
    BY DEF Links, MapLink
  <1>4. ASSUME NEW n \in alive
        PROVE  Pins(n, down'[n]["unicast"]) + Pins(n, down'[n]["multicast"]) =
               Pins(n, down[n]["unicast"]) + Pins(n, down[n]["multicast"])
               + PinCount(n, packet)
    <2>0. n \in Nodes
      BY <1>0 DEF NetTypeOK
    <2>1. /\ Pins(n, down[n]["unicast"]) \in Nat /\ Pins(n, down[n]["multicast"]) \in Nat
      BY <1>0, <2>0, StreamTypes DEF Links
    <2>2. CASE CmdMapObject(packet)
      <3>1. packet \in RequestPacket /\ packet.type = "mapObject"
        BY <1>1, <2>2 DEF CmdMapObject, CommandPacket
      <3>2. i \in Instances /\ packet.insts = {i}
        BY <3>1, ChosenInstance DEF RequestPacket
      <3> HIDE DEF packet, i
      <3>3. \E link \in Links : \E packets :
              /\ Send({NodeOf[i]}, link, packets)
              /\ \/ packets = <<Reply("failed", packet, packet.version, FALSE)>>
                 \/ packets = <<Packet("success", {i}, VERSION_NONE)>> \o MapData(i, packet)
                     \o <<Reply("reply", packet, MappedVersion(packet.version),
                                RepliesUseCache(packet))>>
        BY <1>3, <2>2 DEF CmdMapObject, i
      <3>4. PICK link \in Links, packets \in Seq(DownPacket) :
              /\ Send({NodeOf[i]}, link, packets)
              /\ Pins(n, packets) = PinCount(n, packet)
        BY <3>1, <3>2, <3>3, AnswerPins
      <3>5. ~(n \in {NodeOf[i]} \/ link = "multicast") => PinCount(n, packet) = 0
        BY <3>1, <3>2, RequestIsPin DEF PinCount
      <3> QED
        BY <1>0, <3>4, <3>5, SendTotal
    <2>3. CASE CmdUnsubscribeObject(packet)
      <3> DEFINE answer == Packet("detach", packet.insts, VERSION_NONE)
                 packets == <<answer>>
      <3>1. packet.insts \subseteq Instances /\ packet.type = "unsubscribe"
        BY <1>1, <2>3 DEF CmdUnsubscribeObject, CommandPacket, RequestPacket
      <3>2. answer \in DownPacket /\ answer.type = "detach"
        BY <3>1, MappingAssumption DEF Packet, DownPacket, PlainPacket, Version
      <3>3. \E receivers : Send(receivers, "unicast", packets)
        BY <2>3 DEF CmdUnsubscribeObject
      <3> HIDE DEF answer, packet
      <3>4. packets \in Seq(DownPacket) /\ 0 = Pins(n, packets) /\ PinCount(n, packet) = 0
        BY <3>1, <3>2, ShortSeqs, PinsOne, PlainIsNoPin
      <3> HIDE DEF packets
      <3>5. Pins(n, down'[n]["unicast"]) + Pins(n, down'[n]["multicast"]) =
            Pins(n, down[n]["unicast"]) + Pins(n, down[n]["multicast"]) + 0
        BY <1>0, <1>3, <3>3, <3>4, SendTotal
      <3> QED
        BY <3>4, <3>5
    <2>4. CASE CmdRemoveNode(packet)
      <3>1. packet.type = "removeNode" /\ down' = down
        BY <2>4 DEF CmdRemoveNode
      <3> HIDE DEF packet
      <3>2. PinCount(n, packet) = 0
        BY <3>1, PlainIsNoPin
      <3> QED
        BY <2>1, <3>1, <3>2
    <2> QED
      BY <2>2, <2>3, <2>4 DEF MasterCommand
  <1>5. ASSUME NEW n \in alive
        PROVE  cache'[n].access = Total(n)'
    <2>0. n \in Nodes
      BY <1>0 DEF NetTypeOK
    <2>1. /\ Pins(n, up[n]) \in Nat /\ Pins(n, cmdQueue) \in Nat
          /\ Pins(n, down[n]["unicast"]) \in Nat /\ Pins(n, down[n]["multicast"]) \in Nat
      BY <1>0, <2>0, StreamTypes DEF Links
    <2>2. Pins(n, cmdQueue) = PinCount(n, packet) + Pins(n, cmdQueue')
      BY <1>1, <1>2, PinsHead
    <2>3. Pins(n, cmdQueue') \in Nat /\ PinCount(n, packet) \in Nat
      BY <1>1, <1>2, PinsFinite DEF PinCount
    <2>4. down'[n]["unicast"] \in Seq(DownPacket) /\ down'[n]["multicast"] \in Seq(DownPacket)
      BY <2>0, MasterCommandTypes DEF NetTypeOK, MappingInv, MasterInv, Links
    <2>5. Pins(n, down'[n]["unicast"]) \in Nat /\ Pins(n, down'[n]["multicast"]) \in Nat
      BY <2>4, PinsFinite
    <2>6. cache[n].access = Total(n)
      BY DEF PinInv, PinsBalanced, Total
    <2>7. Pins(n, down'[n]["unicast"]) + Pins(n, down'[n]["multicast"]) =
          Pins(n, down[n]["unicast"]) + Pins(n, down[n]["multicast"]) + PinCount(n, packet)
      BY <1>4
    <2>8. cache'[n].access = cache[n].access /\ Pins(n, up'[n]) = Pins(n, up[n])
      BY <1>2
    <2> HIDE DEF packet
    <2> QED
      BY <2>1, <2>2, <2>3, <2>5, <2>6, <2>7, <2>8 DEF Total
  <1> QED
    BY <1>2, <1>5 DEF PinInv, PinsBalanced, OwnRequests, PinnedIsCached, Total

(* What a packet does to the cache: a reply gives its pin back, whether it *)
(* takes data from the cache, was refused or had to send the data; nothing *)
(* else changes the number of pins, and data in use stays.                 *)
LEMMA ReplyCache ==
    ASSUME NEW item \in CacheItem, NEW p \in ReplyPacket, NEW n \in Nodes,
           PinCount(n, p) = 1 => item.access # 0 /\ Cached(item),
           NEW new,
           new = IF p.insts \cap On(n) = {} THEN item
                 ELSE IF p.useCache THEN Release(Pin(item), 2)
                 ELSE IF p.releaseCache THEN Release(item, 1) ELSE item
    PROVE  new.access = item.access - PinCount(n, p) /\ new.versions = item.versions
  <1>1. PICK i \in Instances : p.insts = {i}
    BY DEF ReplyPacket, Single
  <1>2. /\ p.type \in {"reply", "failed"} /\ p.releaseCache \in BOOLEAN
        /\ p.useCache \in BOOLEAN /\ (p.useCache => p.releaseCache)
    BY DEF ReplyPacket
  <1>3. IsPin(n, p) <=> n = NodeOf[i] /\ p.releaseCache
    BY <1>1, <1>2, RequestIsPin
  <1>4. p.insts \cap On(n) = {} <=> n # NodeOf[i]
    BY <1>1 DEF On
  <1>5. item.access \in Int
    BY DEF CacheItem
  <1>6. CASE n = NodeOf[i] /\ p.useCache
    <2>1. PinCount(n, p) = 1 /\ Cached(item)
      BY <1>2, <1>3, <1>6 DEF PinCount
    <2>2. new = Release(Pin(item), 2)
      BY <1>4, <1>6
    <2>3. Pin(item) = [item EXCEPT !.access = item.access + 1]
      BY <2>1 DEF Pin
    <2> DEFINE pinned == Pin(item)
    <2>5. pinned.access = item.access + 1 /\ pinned.versions = item.versions
          /\ pinned \in CacheItem
      BY <1>5, <2>3 DEF CacheItem
    <2>6. new = [pinned EXCEPT !.access = pinned.access - 2]
      BY <2>2 DEF Release
    <2> HIDE DEF pinned
    <2>4. new.versions = item.versions /\ new.access = item.access + 1 - 2
      BY <2>5, <2>6 DEF CacheItem
    <2> QED
      BY <1>5, <2>1, <2>4
  <1>7. CASE n = NodeOf[i] /\ ~p.useCache /\ p.releaseCache
    <2>1. PinCount(n, p) = 1 /\ new = Release(item, 1)
      BY <1>3, <1>4, <1>7 DEF PinCount
    <2> QED
      BY <2>1 DEF Release, CacheItem
  <1>8. CASE ~(n = NodeOf[i] /\ p.releaseCache)
    <2>1. PinCount(n, p) = 0 /\ new = item
      BY <1>2, <1>3, <1>4, <1>8 DEF PinCount
    <2> QED
      BY <1>5, <2>1
  <1> QED
    BY <1>2, <1>6, <1>7, <1>8

\* InstanceCache::add leaves the use count alone and never empties an entry.
LEMMA AddKeepsUse ==
    ASSUME NEW item \in CacheItem, NEW v \in Version, NEW last \in BOOLEAN
    PROVE  /\ Add(item, v, last).access = item.access
           /\ Cached(item) => Cached(Add(item, v, last))
  <1>1. Add(item, v, last).access = item.access
    BY AddCases
  <1>2. ASSUME Cached(item) PROVE Cached(Add(item, v, last))
    <2> DEFINE s == item.versions
               x == Stream(v, last)
               new == Add(item, v, last)
    <2>1. s \in Seq(CacheStream) /\ Len(s) \in 1..Len(s)
      BY <1>2, ItemFields
    <2>2. x \in CacheStream
      BY DEF Stream, CacheStream
    <2>3. \/ new.versions = Append(s, x)
          \/ new.versions = [s EXCEPT ![Len(s)] = x]
          \/ new.versions = <<x>>
          \/ new = item
      BY AddCases
    <2> HIDE DEF s, x, new
    <2>4. Append(s, x) # <<>>
      BY <2>1, <2>2, AppendProperties
    <2>5. [s EXCEPT ![Len(s)] = x] # <<>>
      <3>1. [s EXCEPT ![Len(s)] = x] \in Seq(CacheStream)
            /\ Len([s EXCEPT ![Len(s)] = x]) = Len(s)
        BY <2>1, <2>2, ExceptSeq
      <3> QED
        BY <2>1, <3>1, EmptySeq
    <2>6. <<x>> # <<>>
      OBVIOUS
    <2> QED
      BY <1>2, <2>3, <2>4, <2>5, <2>6 DEF Cached, new
  <1> QED
    BY <1>1, <1>2

(* A node changes only its own cache.                                      *)
LEMMA OthersKeep ==
    ASSUME NetTypeOK, NEW n \in Nodes, NEW link \in Links, Receive(n, link)
    PROVE  \A m \in Nodes \ {n} : cache'[m] = cache[m]
  <1>1. cache' = cache \/ \E new : cache' = [cache EXCEPT ![n] = new]
    BY DEF Receive, CmdMapObjectReply, CmdInstance, CmdUnmapObject
  <1> QED
    BY <1>1, SMTT(30) DEF NetTypeOK

(* What receiving a packet does to the cache and its use count.            *)
LEMMA ReceiveCache ==
    ASSUME NetTypeOK, NEW n \in Nodes, NEW link \in Links, Receive(n, link),
           cache[n].access # 0 => Cached(cache[n]),
           PinCount(n, Head(down[n][link])) = 1 => cache[n].access # 0
    PROVE  /\ \A m \in Nodes \ {n} : cache'[m] = cache[m]
           /\ cache'[n].access = cache[n].access - PinCount(n, Head(down[n][link]))
           /\ cache'[n].access # 0 => Cached(cache'[n])
  <1> DEFINE packet == Head(down[n][link])
             mine == packet.insts \cap On(n)
  <1>1. packet \in DownPacket
    BY FirstAndRest DEF Receive, NetTypeOK
  <1>2. cache \in [Nodes -> CacheItem] /\ cache[n] \in CacheItem
        /\ cache[n].access \in Int
    BY DEF NetTypeOK, CacheItem
  <1>3. CASE packet.type \in {"reply", "failed"}
    <2>1. packet \in ReplyPacket
      BY <1>1, <1>3 DEF DownPacket, PlainPacket, DataPacket
    <2>2. CmdMapObjectReply(n, mine, packet)
      BY <1>3 DEF Receive
    <2> DEFINE new == IF packet.insts \cap On(n) = {} THEN cache[n]
                 ELSE IF packet.useCache THEN Release(Pin(cache[n]), 2)
                 ELSE IF packet.releaseCache THEN Release(cache[n], 1) ELSE cache[n]
    <2>3. cache' = [cache EXCEPT ![n] = new]
      BY <2>2 DEF CmdMapObjectReply
    <2> HIDE DEF packet
    <2>4. new.access = cache[n].access - PinCount(n, packet)
          /\ new.versions = cache[n].versions
      BY <1>2, <2>1, ReplyCache DEF packet
    <2>5. PinCount(n, packet) = 0 \/ PinCount(n, packet) = 1
      BY DEF PinCount
    <2> HIDE DEF new
    <2>6. new.access # 0 => Cached(new)
      <3>1. CASE PinCount(n, packet) = 0
        BY <1>2, <2>4, <3>1 DEF Cached
      <3>2. CASE PinCount(n, packet) = 1
        BY <2>4, <3>2 DEF Cached, packet
      <3> QED
        BY <2>5, <3>1, <3>2
    <2> QED
      BY <1>2, <2>3, <2>4, <2>6 DEF packet
  <1>4. CASE packet.type \notin {"reply", "failed"}
    <2>1. packet.type \in {"success", "empty", "commit", "detach", "unmap", "map"}
      BY <1>1, <1>4 DEF DownPacket, PlainPacket, DataPacket, ReplyPacket
    <2>2. PinCount(n, packet) = 0
      <3> HIDE DEF packet
      <3>1. packet.type \notin {"mapObject", "reply", "failed"}
        BY <2>1
      <3> QED
        BY <3>1, PlainIsNoPin
    <2>3. \/ UNCHANGED cache
          \/ packet.type \in {"map", "commit"} /\ \E last \in BOOLEAN :
                cache' = [cache EXCEPT ![n] = Add(cache[n], packet.version, last)]
          \/ cache' = [cache EXCEPT ![n] = Erase(cache[n])]
      <3>1. packet.type = "map" => packet.last \in BOOLEAN
        BY <1>1 DEF DownPacket, PlainPacket, DataPacket, ReplyPacket
      <3> QED
        BY <1>4, <2>1, <3>1 DEF Receive, CmdInstance, CmdUnmapObject
    <2>4. CASE UNCHANGED cache
      BY <1>2, <2>2, <2>4
    <2>5. CASE packet.type \in {"map", "commit"} /\ \E last \in BOOLEAN :
                cache' = [cache EXCEPT ![n] = Add(cache[n], packet.version, last)]
      <3>1. PICK last \in BOOLEAN :
                cache' = [cache EXCEPT ![n] = Add(cache[n], packet.version, last)]
        BY <2>5
      <3>2. packet.version \in Version
        BY <1>1, <2>5 DEF DownPacket, PlainPacket, DataPacket, ReplyPacket
      <3>3. cache'[n] = Add(cache[n], packet.version, last)
            /\ \A m \in Nodes \ {n} : cache'[m] = cache[m]
        BY <1>2, <3>1
      <3> HIDE DEF packet
      <3>4. cache'[n].access = cache[n].access /\ (Cached(cache[n]) => Cached(cache'[n]))
        BY <1>2, <3>2, <3>3, AddKeepsUse
      <3> QED
        BY <1>2, <2>2, <3>3, <3>4 DEF packet
    <2>6. CASE cache' = [cache EXCEPT ![n] = Erase(cache[n])]
      <3>1. cache'[n] = Erase(cache[n]) /\ \A m \in Nodes \ {n} : cache'[m] = cache[m]
        BY <1>2, <2>6
      <3>2. CASE cache[n].access = 0
        BY <2>2, <3>1, <3>2 DEF Erase, NoItem
      <3>3. CASE cache[n].access # 0
        BY <1>2, <2>2, <3>1, <3>3 DEF Erase
      <3> QED
        BY <3>2, <3>3
    <2> QED
      BY <2>3, <2>4, <2>5, <2>6
  <1> QED
    BY <1>3, <1>4

(* A packet of n's is received: its pin leaves the stream and the cache.   *)
LEMMA ReceivePins ==
    ASSUME MappingInv, PinInv, NEW n \in Nodes, NEW link \in Links, Receive(n, link)
    PROVE  PinInv'
  <1> DEFINE packet == Head(down[n][link])
  <1>0. NetTypeOK /\ InstanceTypeOK
    BY DEF MappingInv
  <1>1. down[n][link] \in Seq(DownPacket) /\ down[n][link] # <<>>
        /\ Tail(down[n][link]) \in Seq(DownPacket)
    BY <1>0, FirstAndRest DEF NetTypeOK, Receive
  <1>2. UNCHANGED <<alive, up, cmdQueue>>
    BY DEF Receive
  <1>3. /\ \A m \in Nodes \ {n} : down'[m] = down[m]
        /\ down'[n] = [down[n] EXCEPT ![link] = Tail(down[n][link])]
    BY <1>0 DEF Receive, NetTypeOK
  <1>4. ASSUME n \in alive
        PROVE  /\ Pins(n, down[n]["unicast"]) + Pins(n, down[n]["multicast"]) =
                  Pins(n, down'[n]["unicast"]) + Pins(n, down'[n]["multicast"])
                  + PinCount(n, packet)
               /\ Pins(n, down'[n]["unicast"]) \in Nat
               /\ Pins(n, down'[n]["multicast"]) \in Nat
    <2>1. Pins(n, down[n][link]) = PinCount(n, packet) + Pins(n, Tail(down[n][link]))
      BY <1>1, PinsHead
    <2>2. /\ down[n] \in [Links -> Seq(DownPacket)]
          /\ Pins(n, down[n]["unicast"]) \in Nat /\ Pins(n, down[n]["multicast"]) \in Nat
          /\ Pins(n, Tail(down[n][link])) \in Nat /\ PinCount(n, packet) \in Nat
      BY <1>0, <1>1, StreamTypes, PinsFinite DEF Links, NetTypeOK, PinCount
    <2> HIDE DEF packet
    <2>3. CASE link = "unicast"
      <3>1. down'[n]["unicast"] = Tail(down[n][link])
            /\ down'[n]["multicast"] = down[n]["multicast"]
        BY <1>3, <2>2, <2>3 DEF Links
      <3> QED
        BY <2>1, <2>2, <2>3, <3>1
    <2>4. CASE link = "multicast"
      <3>1. down'[n]["multicast"] = Tail(down[n][link])
            /\ down'[n]["unicast"] = down[n]["unicast"]
        BY <1>3, <2>2, <2>4 DEF Links
      <3> QED
        BY <2>1, <2>2, <2>4, <3>1
    <2> QED
      BY <2>3, <2>4 DEF Links
  <1>5. ASSUME NEW m \in alive
        PROVE  cache'[m].access = Total(m)' /\ (cache'[m].access # 0 => Cached(cache'[m]))
    <2>0. m \in Nodes
      BY <1>0 DEF NetTypeOK
    <2>1. cache[m].access = Total(m) /\ (cache[m].access # 0 => Cached(cache[m]))
      BY DEF PinInv, PinsBalanced, PinnedIsCached, Total
    <2>2. /\ Pins(m, up[m]) \in Nat /\ Pins(m, cmdQueue) \in Nat
          /\ Pins(m, down[m]["unicast"]) \in Nat /\ Pins(m, down[m]["multicast"]) \in Nat
          /\ cache[m].access \in Int
      BY <1>0, <2>0, StreamTypes DEF Links, CacheItem
    <2>3. CASE m = n
      <3>1. PinCount(n, packet) \in Nat /\ (PinCount(n, packet) = 1 => cache[n].access # 0)
        <4>1. PinCount(n, packet) \in Nat
          BY DEF PinCount
        <4> HIDE DEF packet
        <4>2. cache[n].access >= PinCount(n, packet)
          BY <1>4, <2>1, <2>2, <2>3, <4>1 DEF Total
        <4> QED
          BY <2>2, <2>3, <4>1, <4>2
      <3>2. /\ cache'[n].access = cache[n].access - PinCount(n, packet)
            /\ (cache'[n].access # 0 => Cached(cache'[n]))
        BY <1>0, <2>1, <2>3, <3>1, ReceiveCache
      <3> HIDE DEF packet
      <3>3. cache'[n].access = Total(n)'
        BY <1>2, <1>4, <2>1, <2>2, <2>3, <3>1, <3>2 DEF Total
      <3> QED
        BY <2>3, <3>2, <3>3
    <2>4. CASE m # n
      <3>1. cache'[m] = cache[m] /\ down'[m] = down[m]
        BY <1>0, <1>3, <2>0, <2>4, OthersKeep
      <3> QED
        BY <1>2, <2>1, <3>1 DEF Total
    <2> QED
      BY <2>3, <2>4
  <1> QED
    BY <1>2, <1>5 DEF PinInv, PinsBalanced, OwnRequests, PinnedIsCached, Total

(* Data in use does not expire, and a lost node has no cache.              *)
LEMMA NodePins ==
    ASSUME MappingInv, PinInv, NEW n \in Nodes, Expire(n) \/ NodeLost(n)
    PROVE  PinInv'
  <1>0. NetTypeOK
    BY DEF MappingInv
  <1>1. CASE Expire(n)
    <2>1. UNCHANGED <<alive, up, down, cmdQueue>>
      BY <1>1 DEF Expire, netVars
    <2>2. PICK item \in Expired(cache[n]) \ {cache[n]} : cache' = [cache EXCEPT ![n] = item]
      BY <1>1 DEF Expire
    <2>3. cache[n] \in CacheItem
      BY <1>0 DEF NetTypeOK
    <2>4. cache[n].access = 0
      BY <2>2 DEF Expired
    <2>5. item.access = 0
      <3>1. PICK k \in 0..Len(cache[n].versions) :
               item = [cache[n] EXCEPT !.versions =
                           SubSeq(cache[n].versions, k + 1, Len(cache[n].versions))]
        BY <2>2, <2>4 DEF Expired
      <3> QED
        BY <2>3, <2>4, <3>1 DEF CacheItem
    <2>6. \A m \in Nodes : (cache'[m] = cache[m])
                            \/ (cache'[m].access = 0 /\ cache[m].access = 0)
      BY <1>0, <2>2, <2>4, <2>5 DEF NetTypeOK
    <2> QED
      BY <1>0, <2>1, <2>6 DEF PinInv, PinsBalanced, OwnRequests, PinnedIsCached, NetTypeOK
  <1>2. CASE NodeLost(n)
    <2> DEFINE packet == Packet("removeNode", On(n), VERSION_NONE)
    <2>1. packet \in UpPacket /\ packet.type = "removeNode"
      BY DEF Packet, UpPacket, CommandPacket, On
    <2>2. SendUp(n, packet) /\ alive' = alive \ {n} /\ UNCHANGED cmdQueue
          /\ \A m \in Nodes \ {n} : down'[m] = down[m] /\ cache'[m] = cache[m]
      BY <1>0, <1>2 DEF NodeLost, NetTypeOK
    <2> HIDE DEF packet
    <2>3. OwnRequests'
      BY <1>0, <2>1, <2>2, SendUpOwn DEF PinInv
    <2>4. \A m \in Nodes \ {n} : up'[m] = up[m]
      BY <1>0, <2>2 DEF SendUp, NetTypeOK
    <2> QED
      BY <1>0, <2>2, <2>3, <2>4 DEF PinInv, PinsBalanced, PinnedIsCached, NetTypeOK
  <1> QED
    BY <1>1, <1>2

(* mapObjectNB pins the cache if and only if its request says so.          *)
LEMMA MapObjectNBPins ==
    ASSUME MappingInv, PinInv, NEW i \in Instances, NEW requested \in Requests,
           MapObjectNB(i, requested)
    PROVE  PinInv'
  <1> DEFINE n == NodeOf[i]
             item == cache[n]
             hit == MapRequest(i, requested, TRUE, GetVersion(item.versions[1]),
                               GetVersion(Newest(item)))
             miss == MapRequest(i, requested, FALSE, VERSION_NONE, VERSION_NONE)
             packet == IF Cached(item) THEN hit ELSE miss
  <1>0. NetTypeOK /\ InstanceTypeOK
    BY DEF MappingInv
  <1>1. n \in Nodes /\ n \in alive /\ item \in CacheItem /\ item.access \in Int
    BY <1>0, MappingAssumption DEF MapObjectNB, NetTypeOK, CacheItem
  <1>2. /\ packet.type = "mapObject" /\ packet.insts = {i}
        /\ (packet.useCache <=> Cached(item))
    BY DEF MapRequest
  <1>3. SendUp(n, packet) /\ UNCHANGED <<alive, down, cmdQueue>>
        /\ cache' = [cache EXCEPT ![n] = Pin(item)]
    BY DEF MapObjectNB
  <1>4. up[n] \in Seq(UpPacket) /\ Len(up[n]) \in Nat
    BY <1>0, <1>1, StreamTypes, LenProperties
  <1>5. packet \in UpPacket
    BY <1>0, RequestType
  <1> HIDE DEF packet, hit, miss
  <1>6. packet.insts \subseteq On(n)
    BY <1>2 DEF On
  <1>7. OwnRequests'
    BY <1>0, <1>1, <1>3, <1>5, <1>6, SendUpOwn DEF PinInv
  <1>8. ASSUME NEW m \in alive
        PROVE  cache'[m].access = Total(m)' /\ (cache'[m].access # 0 => Cached(cache'[m]))
    <2>0. m \in Nodes
      BY <1>0 DEF NetTypeOK
    <2>1. cache[m].access = Total(m) /\ (cache[m].access # 0 => Cached(cache[m]))
      BY DEF PinInv, PinsBalanced, PinnedIsCached, Total
    <2>2. /\ Pins(m, up[m]) \in Nat /\ Pins(m, cmdQueue) \in Nat
          /\ Pins(m, down[m]["unicast"]) \in Nat /\ Pins(m, down[m]["multicast"]) \in Nat
          /\ cache[m].access \in Int
      BY <1>0, <2>0, StreamTypes DEF Links, CacheItem
    <2>3. Pins(m, up'[m]) = Pins(m, up[m]) + IF m = n THEN PinCount(m, packet) ELSE 0
      BY <1>0, <1>1, <1>3, <1>5, <2>0, SendUpPins
    <2>4. CASE m = n
      <3>1. cache'[m] = Pin(item)
        BY <1>0, <1>1, <1>3, <2>4 DEF NetTypeOK
      <3>2. PinCount(m, packet) = IF Cached(item) THEN 1 ELSE 0
        BY <1>2, <2>4, RequestIsPin DEF PinCount
      <3>3. CASE Cached(item)
        <4>1. cache'[m].access = item.access + 1 /\ Cached(cache'[m])
          BY <1>1, <3>1, <3>3 DEF Pin, Cached, CacheItem
        <4>2. Pins(m, up'[m]) = Pins(m, up[m]) + 1
          BY <2>3, <2>4, <3>2, <3>3
        <4> QED
          BY <1>3, <2>1, <2>2, <2>4, <4>1, <4>2 DEF Total
      <3>4. CASE ~Cached(item)
        <4>1. cache'[m] = cache[m]
          BY <2>4, <3>1, <3>4 DEF Pin
        <4>2. Pins(m, up'[m]) = Pins(m, up[m]) + 0
          BY <2>3, <2>4, <3>2, <3>4
        <4> QED
          BY <1>3, <2>1, <2>2, <4>1, <4>2 DEF Total
      <3> QED
        BY <3>3, <3>4
    <2>5. CASE m # n
      <3>1. cache'[m] = cache[m] /\ up'[m] = up[m]
        BY <1>0, <1>3, <2>0, <2>5 DEF SendUp, NetTypeOK
      <3> QED
        BY <1>3, <2>1, <3>1 DEF Total
    <2> QED
      BY <2>4, <2>5
  <1> QED
    BY <1>3, <1>7, <1>8 DEF PinInv, PinsBalanced, PinnedIsCached, Total

(* The packets a mapped instance sends hold no pin.                        *)
LEMMA SlaveSends ==
    ASSUME InstanceTypeOK, NEW i \in Instances, UnpackOneVersion(i) \/ UnmapObject(i)
    PROVE  UNCHANGED up \/ \E packet \in UpPacket :
               SendUp(NodeOf[i], packet) /\ packet.type \in {"maxVersion", "unsubscribe"}
  <1>1. CASE UnmapObject(i)
    <2>1. Packet("unsubscribe", {i}, VERSION_NONE) \in UpPacket
          /\ Packet("unsubscribe", {i}, VERSION_NONE).type = "unsubscribe"
      BY DEF Packet, UpPacket, CommandPacket
    <2> QED
      BY <1>1, <2>1 DEF UnmapObject
  <1>2. CASE UnpackOneVersion(i)
    BY <1>2, AckType
  <1> QED
    BY <1>1, <1>2

(* The other steps of a slave send at most an acknowledgement or an        *)
(* unsubscription.                                                         *)
LEMMA SlavePins ==
    ASSUME MappingInv, PinInv, NEW i \in Instances, SlaveNext(i)
    PROVE  PinInv'
  <1>0. NetTypeOK /\ InstanceTypeOK
    BY DEF MappingInv
  <1>1. CASE \E requested \in Requests : MapObjectNB(i, requested)
    BY <1>1, MapObjectNBPins
  <1>2. CASE MapObjectSync(i) \/ ApplyMapData(i)
    BY <1>2, PinsSame DEF MapObjectSync, ApplyMapData, netVars
  <1>3. CASE UnpackOneVersion(i) \/ UnmapObject(i)
    <2>1. UNCHANGED <<alive, cache, down, cmdQueue>>
      BY <1>3 DEF UnpackOneVersion, UnmapObject
    <2>2. UNCHANGED up \/ \E packet \in UpPacket :
              SendUp(NodeOf[i], packet) /\ packet.type \in {"maxVersion", "unsubscribe"}
      BY <1>0, <1>3, SlaveSends
    <2>3. CASE UNCHANGED up
      BY <2>1, <2>3, PinsSame
    <2>4. CASE \E packet \in UpPacket : SendUp(NodeOf[i], packet)
                               /\ packet.type \in {"maxVersion", "unsubscribe"}
      <3>1. PICK packet \in UpPacket : SendUp(NodeOf[i], packet)
                               /\ packet.type \in {"maxVersion", "unsubscribe"}
        BY <2>4
      <3>2. NodeOf[i] \in Nodes
        BY MappingAssumption
      <3>3. OwnRequests'
        BY <1>0, <3>1, <3>2, SendUpOwn DEF PinInv
      <3>4. ASSUME NEW m \in alive
            PROVE  Pins(m, up'[m]) = Pins(m, up[m])
        <4>1. m \in Nodes /\ Pins(m, up[m]) \in Nat
          BY <1>0, StreamTypes DEF NetTypeOK
        <4>2. packet.type \notin {"mapObject", "reply", "failed"}
          BY <3>1
        <4>3. PinCount(m, packet) = 0
          BY <4>2, PlainIsNoPin
        <4>4. Pins(m, up'[m]) = Pins(m, up[m])
                                + IF m = NodeOf[i] THEN PinCount(m, packet) ELSE 0
          BY <1>0, <3>1, <3>2, <4>1, SendUpPins
        <4> QED
          BY <4>1, <4>3, <4>4
      <3> QED
        BY <2>1, <3>3, <3>4 DEF PinInv, PinsBalanced, PinnedIsCached
    <2> QED
      BY <2>2, <2>3, <2>4
  <1> QED
    BY <1>1, <1>2, <1>3 DEF SlaveNext

(* No pins at first.                                                       *)
LEMMA PinsInit ==
    ASSUME Init
    PROVE  PinInv
  <1>1. ASSUME NEW n \in Nodes
        PROVE  Pins(n, <<>>) = 0
    <2>1. <<>> \in Seq({}) /\ 1..Len(<<>>) = {}
      BY EmptySeq
    <2> QED
      BY <2>1, PinsNone
  <1> QED
    BY <1>1 DEF Init, PinInv, PinsBalanced, OwnRequests, PinnedIsCached, NoItem, Links

(* PinInv is inductive relative to MappingInv.                             *)
LEMMA PinsStep ==
    ASSUME MappingInv, PinInv, [Next]_vars
    PROVE  PinInv'
  <1>1. CASE NewVersion \/ MasterOnly \/ DeregisterNotify \/ DeregisterDetach
    BY <1>1, CommitPins
  <1>2. ASSUME NEW n \in Nodes, MasterReceive(n) \/ Expire(n) \/ NodeLost(n)
        PROVE  PinInv'
    BY <1>2, MasterReceivePins, NodePins
  <1>3. CASE MasterCommand
    BY <1>3, MasterCommandPins
  <1>4. ASSUME NEW n \in Nodes, NEW link \in Links, Receive(n, link)
        PROVE  PinInv'
    BY <1>4, ReceivePins
  <1>5. ASSUME NEW i \in Instances, SlaveNext(i)
        PROVE  PinInv'
    BY <1>5, SlavePins
  <1>6. CASE UNCHANGED vars
    BY <1>6, PinsSame DEF vars, slaveVars, netVars
  <1> QED
    BY <1>1, <1>2, <1>3, <1>4, <1>5, <1>6 DEF Next

(* InstanceCache::operator[] and release are balanced in every run: the    *)
(* use count of a node's entry is the number of map requests and replies   *)
(* under way that rely on it, through multicast replies that other nodes   *)
(* overhear, refused requests, unmapped objects and lost nodes.            *)
THEOREM MappingPinsBalanced == Spec => []PinsBalanced
  <1>1. Init => PinInv
    BY PinsInit
  <1>2. MappingInv /\ PinInv /\ [Next]_vars => PinInv'
    BY PinsStep
  <1>3. PinInv => PinsBalanced
    BY DEF PinInv
  <1> QED
    BY <1>1, <1>2, <1>3, MappingInvariant, PTL DEF Spec

-----------------------------------------------------------------------------
(* What was announced stays cached.  A node's streams are consecutive, and *)
(* only the newest may be incomplete: map data of several packets is one   *)
(* behind the other on one connection, and nothing else is cached of an    *)
(* unbuffered object.                                                      *)

IsMap(p) == p.type = "map"

(* The packets of map data are together.                                   *)
Whole(q) ==
    \A k \in 1..Len(q) : IsMap(q[k]) /\ ~q[k].last =>
        /\ ~Buffered
        /\ k + 1 \in 1..Len(q)
        /\ IsMap(q[k + 1]) /\ q[k + 1].last /\ q[k + 1].version = q[k].version

OnMapLink ==
    \A n \in alive, l \in Links :
        /\ Whole(down[n][l])
        /\ l # MapLink => \A k \in 1..Len(down[n][l]) : ~IsMap(down[n][l][k])

Gapless(item) ==
    /\ \A k \in 1..Len(item.versions) :
          item.versions[k].version = item.versions[1].version + k - 1
    /\ \A k \in 1..Len(item.versions) : k < Len(item.versions) => item.versions[k].ready

(* The newest stream is complete, or its last packet is the next one.      *)
Expected(item, q) ==
    /\ Cached(item) => UseCache
    /\ Cached(item) /\ ~Newest(item).ready =>
          /\ ~Buffered /\ q # <<>>
          /\ IsMap(Head(q)) /\ Head(q).last /\ Head(q).version = Newest(item).version

(* Streams of packets.                                                     *)
LEMMA WholeConcat ==
    ASSUME NEW S, NEW q \in Seq(S), NEW r \in Seq(S), Whole(q), Whole(r)
    PROVE  Whole(q \o r)
  <1>1. /\ q \o r \in Seq(S) /\ Len(q) \in Nat /\ Len(r) \in Nat
        /\ Len(q \o r) = Len(q) + Len(r)
        /\ \A k \in 1..Len(q) + Len(r) :
              (q \o r)[k] = IF k <= Len(q) THEN q[k] ELSE r[k - Len(q)]
    BY ConcatProperties, LenProperties
  <1> DEFINE c == q \o r
             a == Len(q)
             b == Len(r)
  <1>2. \A k \in 1..a : c[k] = q[k]
    BY <1>1
  <1>3. \A k \in a + 1..a + b : c[k] = r[k - a]
    BY <1>1
  <1>4. Len(c) = a + b /\ a \in Nat /\ b \in Nat
    BY <1>1
  <1> HIDE DEF c
  <1> SUFFICES ASSUME NEW k \in 1..a + b, IsMap(c[k]), ~c[k].last
               PROVE  /\ ~Buffered
                      /\ k + 1 \in 1..a + b
                      /\ IsMap(c[k + 1]) /\ c[k + 1].last /\ c[k + 1].version = c[k].version
    BY <1>4 DEF Whole, c
  <1>5. CASE k \in 1..a
    <2>1. c[k] = q[k]
      BY <1>2, <1>5
    <2>2. /\ ~Buffered /\ k + 1 \in 1..a
          /\ IsMap(q[k + 1]) /\ q[k + 1].last /\ q[k + 1].version = q[k].version
      BY <1>5, <2>1 DEF Whole
    <2>3. c[k + 1] = q[k + 1]
      BY <1>2, <2>2
    <2> QED
      BY <1>4, <2>1, <2>2, <2>3
  <1>6. CASE k \in a + 1..a + b
    <2> DEFINE j == k - a
    <2>1. c[k] = r[j] /\ j \in 1..b
      BY <1>3, <1>4, <1>6
    <2>2. /\ ~Buffered /\ j + 1 \in 1..b
          /\ IsMap(r[j + 1]) /\ r[j + 1].last /\ r[j + 1].version = r[j].version
      BY <2>1 DEF Whole
    <2>3. k + 1 \in a + 1..a + b /\ k + 1 - a = j + 1
      BY <1>4, <1>6, <2>2
    <2>4. c[k + 1] = r[j + 1]
      BY <1>3, <2>3
    <2> HIDE DEF j
    <2> QED
      BY <1>4, <2>1, <2>2, <2>3, <2>4
  <1> QED
    BY <1>4, <1>5, <1>6

(* Head and tail of a stream, element by element.                          *)
LEMMA RestOfStream ==
    ASSUME NEW S, NEW q \in Seq(S), q # <<>>
    PROVE  /\ Tail(q) \in Seq(S) /\ Len(q) \in Nat \ {0} /\ Len(Tail(q)) = Len(q) - 1
           /\ \A k \in 1..Len(q) - 1 : Tail(q)[k] = q[k + 1]
           /\ Head(q) = q[1]
  BY EmptySeq, LenProperties, HeadTailProperties

\* Receiving keeps a stream whole, and the second packet of map data follows its first.
LEMMA WholeTail ==
    ASSUME NEW S, NEW q \in Seq(S), q # <<>>, Whole(q)
    PROVE  /\ Whole(Tail(q))
           /\ IsMap(Head(q)) /\ ~Head(q).last =>
                 /\ ~Buffered /\ Tail(q) # <<>>
                 /\ IsMap(Head(Tail(q))) /\ Head(Tail(q)).last
                 /\ Head(Tail(q)).version = Head(q).version
  <1>1. /\ Tail(q) \in Seq(S) /\ Len(q) \in Nat \ {0} /\ Len(Tail(q)) = Len(q) - 1
        /\ \A k \in 1..Len(q) - 1 : Tail(q)[k] = q[k + 1]
        /\ Head(q) = q[1]
    BY RestOfStream
  <1> DEFINE t == Tail(q)
  <1> HIDE DEF t
  <1>2. Whole(t)
    <2> SUFFICES ASSUME NEW k \in 1..Len(t), IsMap(t[k]), ~t[k].last
                 PROVE  /\ ~Buffered
                        /\ k + 1 \in 1..Len(t)
                        /\ IsMap(t[k + 1]) /\ t[k + 1].last /\ t[k + 1].version = t[k].version
      BY DEF Whole
    <2>1. t[k] = q[k + 1] /\ k + 1 \in 1..Len(q)
      BY <1>1 DEF t
    <2>2. /\ ~Buffered /\ k + 2 \in 1..Len(q) /\ k + 1 + 1 = k + 2
          /\ IsMap(q[k + 2]) /\ q[k + 2].last /\ q[k + 2].version = q[k + 1].version
      BY <2>1 DEF Whole
    <2>3. k + 1 \in 1..Len(t)
      BY <1>1, <2>2 DEF t
    <2>4. t[k + 1] = q[k + 2]
      BY <1>1, <2>2, <2>3 DEF t
    <2> QED
      BY <2>1, <2>2, <2>3, <2>4
  <1>3. ASSUME IsMap(Head(q)), ~Head(q).last
        PROVE  /\ ~Buffered /\ t # <<>>
               /\ IsMap(Head(t)) /\ Head(t).last /\ Head(t).version = Head(q).version
    <2>1. /\ ~Buffered /\ 2 \in 1..Len(q) /\ 1 + 1 = 2
          /\ IsMap(q[2]) /\ q[2].last /\ q[2].version = q[1].version
      BY <1>1, <1>3 DEF Whole
    <2>2. t[1] = q[2] /\ Len(t) > 0 /\ t \in Seq(S)
      BY <1>1, <2>1 DEF t
    <2>3. t # <<>>
      BY <2>2, EmptySeq
    <2>4. Head(t) = t[1]
      BY <2>2, <2>3, HeadTailProperties
    <2> QED
      BY <1>1, <2>1, <2>2, <2>3, <2>4
  <1> QED
    BY <1>2, <1>3 DEF t

(* A stream without first parts of map data is whole.                      *)
LEMMA WithoutParts ==
    ASSUME NEW q, \A k \in 1..Len(q) : ~(IsMap(q[k]) /\ ~q[k].last)
    PROVE  Whole(q)
  BY DEF Whole

(* The map data of one slave.                                              *)
LEMMA MapDataWhole ==
    ASSUME MasterTypeOK, InstanceTypeOK, CheckConsistency,
           NEW request \in RequestPacket, NEW i \in Instances, NEW data,
           data = MapData(i, request)
    PROVE  /\ Whole(data)
           /\ request.version = VERSION_NONE => \A k \in 1..Len(data) : ~IsMap(data[k])
  <1>1. CASE request.version = VERSION_NONE
    <2>1. data = <<Packet("empty", {i}, version)>>
      BY <1>1 DEF MapData
    <2>2. Len(data) = 1 /\ data[1].type = "empty"
      BY <2>1 DEF Packet
    <2>3. \A k \in 1..Len(data) : ~IsMap(data[k])
      BY <2>2 DEF IsMap
    <2> QED
      BY <2>3, WithoutParts
  <1>2. CASE request.version # VERSION_NONE /\ Buffered
    <2> DEFINE sent == SubSeq(instanceDatas,
                   SentVersions(request).start - (instanceDatas[1].version - 1),
                   SentVersions(request).end - (instanceDatas[1].version - 1))
               packets == [k \in 1..Len(sent) |-> MapPacket(i, sent[k].version, TRUE)]
    <2>1. data = packets
      BY <1>2 DEF MapData
    <2>2. sent \in Seq({instanceDatas[k] : k \in 1..Len(instanceDatas)})
      BY <1>2, SentIsRetained
    <2>3. Len(sent) \in Nat
      BY <2>2, LenProperties
    <2> HIDE DEF sent
    <2> DEFINE P == {MapPacket(i, sent[k].version, TRUE) : k \in 1..Len(sent)}
    <2>4. packets \in [1..Len(sent) -> P]
      OBVIOUS
    <2> HIDE DEF P
    <2>5. Len(packets) = Len(sent)
      BY <2>3, <2>4, FunctionIsSeq
    <2>6. \A k \in 1..Len(sent) : packets[k].last
      BY DEF MapPacket
    <2> QED
      BY <1>2, <2>1, <2>5, <2>6, WithoutParts
  <1>3. CASE request.version # VERSION_NONE /\ ~Buffered
    <2> DEFINE p == MapPacket(i, version, FALSE)
               q == MapPacket(i, version, TRUE)
    <2>1. data \in {<<>>, <<q>>, <<p, q>>}
      BY <1>3 DEF MapData
    <2>2. IsMap(p) /\ ~p.last /\ IsMap(q) /\ q.last /\ p.version = q.version
      BY DEF MapPacket, IsMap
    <2> HIDE DEF p, q
    <2>3. CASE data = <<>>
      BY <1>3, <2>3 DEF Whole
    <2>4. CASE data = <<q>>
      BY <1>3, <2>2, <2>4 DEF Whole
    <2>5. CASE data = <<p, q>>
      <3>1. Len(data) = 2 /\ data[1] = p /\ data[2] = q
        BY <2>5
      <3> QED
        BY <1>3, <2>2, <3>1 DEF Whole
    <2> QED
      BY <1>3, <2>1, <2>3, <2>4, <2>5
  <1> QED
    BY <1>1, <1>2, <1>3

WithoutMap(q) == \A k \in 1..Len(q) : ~IsMap(q[k])

\* Appending a whole stream keeps a stream whole and what is expected expected.
LEMMA StreamGrows ==
    ASSUME NEW S, NEW q \in Seq(S), NEW r \in Seq(S), Whole(q), Whole(r)
    PROVE  /\ Whole(q \o r)
           /\ WithoutMap(q) /\ WithoutMap(r) => WithoutMap(q \o r)
           /\ \A item : Expected(item, q) => Expected(item, q \o r)
  <1>1. /\ q \o r \in Seq(S) /\ Len(q) \in Nat /\ Len(r) \in Nat
        /\ Len(q \o r) = Len(q) + Len(r)
        /\ \A k \in 1..Len(q) + Len(r) :
              (q \o r)[k] = IF k <= Len(q) THEN q[k] ELSE r[k - Len(q)]
    BY ConcatProperties, LenProperties
  <1>2. ASSUME WithoutMap(q), WithoutMap(r), NEW k \in 1..Len(q) + Len(r)
        PROVE  ~IsMap((q \o r)[k])
    <2>1. CASE k =< Len(q)
      BY <1>1, <1>2, <2>1 DEF WithoutMap
    <2>2. CASE k > Len(q)
      <3>1. (q \o r)[k] = r[k - Len(q)] /\ k - Len(q) \in 1..Len(r)
        BY <1>1, <2>2
      <3> QED
        BY <1>2, <3>1 DEF WithoutMap
    <2> QED
      BY <1>1, <2>1, <2>2
  <1>3. q # <<>> => q \o r # <<>> /\ Head(q \o r) = Head(q)
    <2> SUFFICES ASSUME q # <<>>
                 PROVE  q \o r # <<>> /\ Head(q \o r) = Head(q)
      OBVIOUS
    <2>1. Len(q) > 0 /\ Head(q) = q[1]
      BY <1>1, EmptySeq, HeadTailProperties
    <2>2. (q \o r)[1] = q[1] /\ Len(q \o r) > 0
      BY <1>1, <2>1
    <2>3. q \o r # <<>>
      BY <1>1, <2>2, EmptySeq
    <2> QED
      BY <1>1, <2>1, <2>2, <2>3, HeadTailProperties
  <1>4. Whole(q \o r)
    BY WholeConcat
  <1>5. WithoutMap(q) /\ WithoutMap(r) => WithoutMap(q \o r)
    BY <1>1, <1>2 DEF WithoutMap
  <1>6. \A item : Expected(item, q) => Expected(item, q \o r)
    BY <1>3 DEF Expected
  <1> QED
    BY <1>4, <1>5, <1>6

(* What may be sent on a link, and that it keeps the streams as they are.  *)
Sendable(r, l) == r \in Seq(DownPacket) /\ Whole(r) /\ (l # MapLink => WithoutMap(r))

(* Sending such packets on any links keeps the streams as they should be.  *)
LEMMA DownGrows ==
    ASSUME NetTypeOK, OnMapLink, UNCHANGED alive,
           \A n \in alive, l \in Links :
              down'[n][l] = down[n][l] \/ \E r : Sendable(r, l) /\ down'[n][l] = down[n][l] \o r
    PROVE  /\ OnMapLink'
           /\ \A n \in alive : \A item :
                 Expected(item, down[n][MapLink]) => Expected(item, down'[n][MapLink])
  <1>1. ASSUME NEW n \in alive, NEW l \in Links
        PROVE  /\ Whole(down'[n][l])
               /\ (l # MapLink => WithoutMap(down'[n][l]))
               /\ \A item : Expected(item, down[n][l]) => Expected(item, down'[n][l])
    <2>1. down[n][l] \in Seq(DownPacket) /\ Whole(down[n][l])
          /\ (l # MapLink => WithoutMap(down[n][l]))
      BY DEF NetTypeOK, OnMapLink, WithoutMap
    <2>2. CASE down'[n][l] = down[n][l]
      BY <2>1, <2>2
    <2>3. CASE \E r : Sendable(r, l) /\ down'[n][l] = down[n][l] \o r
      <3>1. PICK r : Sendable(r, l) /\ down'[n][l] = down[n][l] \o r
        BY <2>3
      <3> QED
        BY <2>1, <3>1, StreamGrows DEF Sendable
    <2> QED
      BY <2>2, <2>3
  <1>2. OnMapLink'
    BY <1>1 DEF OnMapLink, WithoutMap, MapLink
  <1>3. MapLink \in Links
    BY DEF MapLink, Links
  <1> QED
    BY <1>1, <1>2, <1>3

(* Send appends its packets to the streams of living receivers.            *)
LEMMA SendGrows ==
    ASSUME NetTypeOK, NEW receivers, NEW link \in Links, NEW packets,
           Sendable(packets, link), Send(receivers, link, packets)
    PROVE  \A n \in alive, l \in Links :
              down'[n][l] = down[n][l]
              \/ (Sendable(packets, l) /\ down'[n][l] = down[n][l] \o packets)
  <1> SUFFICES ASSUME NEW n \in alive, NEW l \in Links
               PROVE  down'[n][l] = down[n][l]
                      \/ (Sendable(packets, l) /\ down'[n][l] = down[n][l] \o packets)
    OBVIOUS
  <1>1. n \in Nodes /\ down[n] \in [Links -> Seq(DownPacket)]
    BY DEF NetTypeOK
  <1>2. down'[n][l] = down[n][l] \/ (l = link /\ down'[n][l] = down[n][l] \o packets)
    BY <1>1 DEF Send
  <1> QED
    BY <1>2

(* The answer to a map request may be sent on the link it is sent on.      *)
LEMMA AnswerSendable ==
    ASSUME MasterTypeOK, InstanceTypeOK, CheckConsistency,
           NEW packet \in RequestPacket, NEW i \in Instances
    PROVE  /\ Sendable(<<Reply("failed", packet, packet.version, FALSE)>>, "unicast")
           /\ \A link : (link = MapLink \/ packet.version = VERSION_NONE
                          \/ MapData(i, packet) = <<>>) =>
                 Sendable(<<Packet("success", {i}, VERSION_NONE)>> \o MapData(i, packet)
                          \o <<Reply("reply", packet, MappedVersion(packet.version),
                                     RepliesUseCache(packet))>>, link)
  <1> DEFINE failed == Reply("failed", packet, packet.version, FALSE)
             reply == Reply("reply", packet, MappedVersion(packet.version),
                            RepliesUseCache(packet))
             success == Packet("success", {i}, VERSION_NONE)
             data == MapData(i, packet)
  <1>1. ~IsMap(failed) /\ ~IsMap(reply) /\ ~IsMap(success)
    BY DEF IsMap, Reply, Packet
  <1>2. <<failed>> \in Seq(DownPacket) /\ <<success>> \o data \o <<reply>> \in Seq(DownPacket)
    BY AnswerTypes
  <1>3. data \in Seq(PlainPacket \cup DataPacket)
    BY MapDataType
  <1>4. Whole(data) /\ (packet.version = VERSION_NONE \/ data = <<>> => WithoutMap(data))
    <2>1. data = <<>> => WithoutMap(data)
      BY DEF WithoutMap
    <2>2. Whole(data) /\ (packet.version = VERSION_NONE => WithoutMap(data))
      BY MapDataWhole DEF WithoutMap
    <2> QED
      BY <2>1, <2>2
  <1> HIDE DEF failed, reply, success, data
  <1>5. ASSUME NEW p, ~IsMap(p)
        PROVE  Whole(<<p>>) /\ WithoutMap(<<p>>)
    BY <1>5 DEF Whole, WithoutMap
  <1> DEFINE T == {success, reply} \cup PlainPacket \cup DataPacket
             first == <<success>>
             rest == <<reply>>
  <1>6. first \in Seq(T) /\ rest \in Seq(T) /\ data \in Seq(T)
    <2>1. success \in T /\ reply \in T /\ PlainPacket \cup DataPacket \subseteq T
      OBVIOUS
    <2> HIDE DEF T
    <2> QED
      BY <1>3, <2>1, ShortSeqs, SeqMonotonic
  <1>7. Whole(first) /\ WithoutMap(first) /\ Whole(rest) /\ WithoutMap(rest)
    BY <1>1, <1>5
  <1>8. first \o data \o rest \in Seq(DownPacket)
    BY <1>2
  <1> HIDE DEF T, first, rest
  <1>9. first \o data \in Seq(T) /\ Whole(first \o data)
        /\ (WithoutMap(data) => WithoutMap(first \o data))
    BY <1>4, <1>6, <1>7, StreamGrows, ConcatProperties
  <1> DEFINE front == first \o data
  <1> HIDE DEF front
  <1>10. Whole(front \o rest) /\ (WithoutMap(data) => WithoutMap(front \o rest))
    <2>1. front \in Seq(T) /\ Whole(front) /\ (WithoutMap(data) => WithoutMap(front))
      BY <1>9 DEF front
    <2> QED
      BY <1>6, <1>7, <2>1, StreamGrows
  <1>11. \A link : (link = MapLink \/ packet.version = VERSION_NONE \/ data = <<>>) =>
             Sendable(front \o rest, link)
    BY <1>4, <1>8, <1>10 DEF Sendable, front
  <1>12. Sendable(<<failed>>, "unicast")
    BY <1>1, <1>2, <1>5 DEF Sendable
  <1> QED
    BY <1>11, <1>12 DEF front, first, rest, data, reply, success, failed

(* The cached streams.                                                     *)
ReadyIn(item, v) ==
    \E k \in 1..Len(item.versions) : item.versions[k].ready /\ item.versions[k].version = v

\* InstanceCache::add keeps the cached versions consecutive, and those in use complete.
LEMMA AddGapless ==
    ASSUME NEW item \in CacheItem, NEW v \in Version, NEW last \in BOOLEAN, Gapless(item),
           Cached(item) /\ ~Newest(item).ready => Newest(item).version = v,
           NEW new, new = Add(item, v, last)
    PROVE  /\ Gapless(new)
           /\ item.access # 0 => \A w : ReadyIn(item, w) => ReadyIn(new, w)
           /\ Cached(new) /\ ~Newest(new).ready => ~last /\ Newest(new).version = v
  <1> DEFINE s == item.versions
             t == new.versions
             x == Stream(v, last)
             N == Len(s)
  <1>1. /\ s \in Seq(CacheStream) /\ N \in Nat /\ v \in Nat
        /\ \A k \in 1..N : s[k] \in CacheStream /\ s[k].version \in Nat
        /\ Cached(item) => N \in 1..N
        /\ Newest(item) = s[N]
    BY ItemFields, MappingAssumption DEF Version, Newest
  <1>2. x \in CacheStream /\ x.version = v /\ x.ready = last
    BY DEF Stream, CacheStream
  <1>3. new \in CacheItem /\ Newest(new) = t[Len(t)]
    BY AddCases DEF Newest
  <1>4. /\ \A k \in 1..N : s[k].version = s[1].version + k - 1
        /\ \A k \in 1..N : k < N => s[k].ready
    BY DEF Gapless
  <1>5. \/ /\ ~Cached(item) \/ Newest(item).version + 1 = v
           /\ t = Append(s, x)
        \/ /\ Cached(item) /\ Newest(item) = Stream(v, FALSE)
           /\ t = [s EXCEPT ![N] = x]
        \/ /\ Cached(item) /\ item.access = 0
           /\ t = <<x>>
        \/ /\ Cached(item) /\ Newest(item) # Stream(v, FALSE)
           /\ new = item
    BY AddCases
  <1> HIDE DEF s, t, x, N
  <1>6. CASE /\ ~Cached(item) \/ Newest(item).version + 1 = v
             /\ t = Append(s, x)
    <2>1. /\ Len(t) = N + 1 /\ t[N + 1] = x
          /\ \A k \in 1..N : t[k] = s[k]
      BY <1>1, <1>2, <1>6, AppendProperties DEF N
    <2>2. CASE ~Cached(item)
      <3>1. N = 0
        BY <1>1, <2>2, EmptySeq DEF Cached, N, s
      <3>2. Len(t) = 1 /\ t[1] = x
        BY <2>1, <3>1
      <3>3. Gapless(new)
        BY <1>1, <1>2, <3>2 DEF Gapless, t
      <3>4. \A w : ~ReadyIn(item, w)
        BY <3>1 DEF ReadyIn, N, s
      <3> QED
        BY <1>2, <1>3, <3>2, <3>3, <3>4
    <2>3. CASE Cached(item)
      <3>1. N \in 1..N /\ s[N].version + 1 = v /\ s[N].ready
        <4>1. N \in 1..N /\ s[N].version + 1 = v
          BY <1>1, <1>6, <2>3
        <4>2. s[N].version # v
          BY <1>1, <4>1
        <4> QED
          BY <1>1, <2>3, <4>1, <4>2
      <3>2. t[1] = s[1] /\ s[1].version \in Nat /\ 1 \in 1..N
        BY <1>1, <2>1, <3>1
      <3>3. \A k \in 1..N + 1 : t[k].version = t[1].version + k - 1
        <4>1. s[N].version = s[1].version + N - 1
          BY <1>4, <3>1
        <4>2. t[N + 1].version = s[1].version + N
          BY <1>1, <1>2, <2>1, <3>1, <3>2, <4>1, SMTT(30)
        <4>3. \A k \in 1..N : t[k].version = s[1].version + k - 1
          BY <1>4, <2>1
        <4> QED
          BY <1>1, <3>2, <4>2, <4>3
      <3>4. \A k \in 1..N + 1 : k < N + 1 => t[k].ready
        BY <1>1, <1>4, <2>1, <3>1, SMTT(30)
      <3>5. Gapless(new)
        BY <2>1, <3>3, <3>4 DEF Gapless, t
      <3>6. \A w : ReadyIn(item, w) => ReadyIn(new, w)
        BY <1>1, <2>1, SMTT(30) DEF ReadyIn, t, s, N
      <3> QED
        BY <1>2, <1>3, <2>1, <3>5, <3>6
    <2> QED
      BY <2>2, <2>3
  <1>7. CASE /\ Cached(item) /\ Newest(item) = Stream(v, FALSE)
             /\ t = [s EXCEPT ![N] = x]
    <2>1. /\ Len(t) = N /\ t[N] = x /\ N \in 1..N
          /\ \A k \in 1..N : k # N => t[k] = s[k]
      BY <1>1, <1>2, <1>7, ExceptSeq DEF N
    <2>2. s[N].version = v /\ ~s[N].ready
      BY <1>1, <1>7 DEF Stream
    <2>3. \A k \in 1..N : t[k].version = s[k].version
      BY <1>2, <2>1, <2>2
    <2>4. 1 \in 1..N
      BY <1>1, <2>1
    <2>5. Gapless(new)
      <3>1. \A k \in 1..N : t[k].version = t[1].version + k - 1
        BY <1>4, <2>3, <2>4
      <3>2. \A k \in 1..N : k < N => t[k].ready
        BY <1>1, <1>4, <2>1, SMTT(30)
      <3> QED
        BY <2>1, <3>1, <3>2 DEF Gapless, t
    <2>6. \A w : ReadyIn(item, w) => ReadyIn(new, w)
      BY <2>1, <2>2 DEF ReadyIn, t, s, N
    <2> QED
      BY <1>2, <1>3, <2>1, <2>5, <2>6
  <1>8. CASE /\ Cached(item) /\ item.access = 0
             /\ t = <<x>>
    <2>1. Len(t) = 1 /\ t[1] = x
      BY <1>8
    <2>2. Gapless(new)
      BY <1>1, <1>2, <2>1 DEF Gapless, t
    <2> QED
      BY <1>2, <1>3, <1>8, <2>1, <2>2
  <1>9. CASE /\ Cached(item) /\ Newest(item) # Stream(v, FALSE)
             /\ new = item
    <2>1. Newest(item).ready
      <3>1. Newest(item) \in CacheStream
        BY <1>1, <1>9
      <3>2. ~Newest(item).ready => Newest(item) = Stream(v, FALSE)
        BY <1>9, <3>1 DEF CacheStream, Stream
      <3> QED
        BY <1>9, <3>2
    <2> QED
      BY <1>9, <2>1
  <1> QED
    BY <1>5, <1>6, <1>7, <1>8, <1>9

(* Expiring drops from the front only.                                     *)
LEMMA ExpiredGapless ==
    ASSUME NEW item \in CacheItem, Gapless(item), NEW new \in Expired(item)
    PROVE  /\ Gapless(new)
           /\ Cached(new) => Cached(item) /\ Newest(new) = Newest(item)
  <1>1. CASE item.access # 0
    BY <1>1 DEF Expired
  <1>2. CASE item.access = 0
    <2> DEFINE s == item.versions
               N == Len(s)
               t == new.versions
    <2>1. PICK k \in 0..N : new = [item EXCEPT !.versions = SubSeq(s, k + 1, N)]
      BY <1>2 DEF Expired
    <2>2. /\ s \in Seq(CacheStream) /\ N \in Nat
          /\ \A j \in 1..N : s[j] \in CacheStream /\ s[j].version \in Nat
      BY ItemFields, MappingAssumption DEF Version
    <2>3. t = SubSeq(s, k + 1, N)
      BY <2>1 DEF CacheItem
    <2>4. /\ \A j \in 1..N : s[j].version = s[1].version + j - 1
          /\ \A j \in 1..N : j < N => s[j].ready
      BY DEF Gapless
    <2> HIDE DEF s, t, N
    <2>5. /\ t \in Seq(CacheStream) /\ Len(t) = N - k
          /\ \A j \in 1..N - k : t[j] = s[k + j]
      <3>1. k + 1 \in 1..N + 1 /\ N \in 0..N /\ N \in Int
        BY <2>2
      <3>2. \A j \in k + 1..N : s[j] \in CacheStream
        BY <2>2
      <3>3. /\ SubSeq(s, k + 1, N) \in Seq(CacheStream)
            /\ Len(SubSeq(s, k + 1, N)) = IF k + 1 <= N THEN N - (k + 1) + 1 ELSE 0
            /\ \A j \in 1..N - (k + 1) + 1 : SubSeq(s, k + 1, N)[j] = s[k + 1 + j - 1]
        BY <2>2, <3>1, <3>2, SubSeqProperties
      <3>4. Len(t) = N - k
        BY <2>2, <2>3, <3>3
      <3>5. \A j \in 1..N - k : t[j] = s[k + j]
        <4> SUFFICES ASSUME NEW j \in 1..N - k PROVE t[j] = s[k + j]
          OBVIOUS
        <4>1. j \in 1..N - (k + 1) + 1 /\ k + 1 + j - 1 = k + j
          BY <2>2
        <4> QED
          BY <2>3, <3>3, <4>1
      <3> QED
        BY <2>3, <3>3, <3>4, <3>5
    <2>6. Gapless(new)
      <3>1. ASSUME NEW j \in 1..N - k
            PROVE  t[j].version = t[1].version + j - 1 /\ (j < N - k => t[j].ready)
        <4>1. 1 \in 1..N - k /\ 1 \in 1..N /\ k + j \in 1..N /\ k + 1 \in 1..N
          BY <2>2
        <4>2. t[j] = s[k + j] /\ t[1] = s[k + 1]
          BY <2>5, <4>1
        <4>3. s[k + j].version = s[1].version + (k + j) - 1
              /\ s[k + 1].version = s[1].version + (k + 1) - 1
              /\ (k + j < N => s[k + j].ready)
          BY <2>4, <4>1
        <4>4. s[1].version \in Nat
          BY <2>2, <4>1
        <4>5. t[j].version = t[1].version + j - 1
          <5>1. t[j].version = s[1].version + (k + j) - 1
            BY <4>2, <4>3
          <5>2. t[1].version = s[1].version + (k + 1) - 1
            BY <4>2, <4>3
          <5>3. k \in Int /\ j \in Int
            BY <2>2
          <5> QED
            BY <4>4, <5>1, <5>2, <5>3
        <4>6. j < N - k => t[j].ready
          BY <2>2, <4>2, <4>3
        <4> QED
          BY <4>5, <4>6
      <3> QED
        BY <2>5, <3>1 DEF Gapless, t
    <2>7. Cached(new) => Cached(item) /\ Newest(new) = Newest(item)
      <3> SUFFICES ASSUME Cached(new)
                   PROVE  Cached(item) /\ Newest(new) = Newest(item)
        OBVIOUS
      <3>1. N - k # 0
        BY <2>5, EmptySeq DEF Cached, t
      <3>2. N - k \in 1..N - k /\ k + (N - k) = N /\ N # 0
        BY <2>2, <3>1
      <3>3. t[N - k] = s[N]
        BY <2>5, <3>2
      <3>4. s # <<>>
        BY <3>2, EmptySeq DEF N
      <3> QED
        BY <2>5, <3>3, <3>4 DEF Cached, Newest, s, t, N
    <2> QED
      BY <2>6, <2>7
  <1> QED
    BY <1>1, <1>2

(* What a node receives keeps its cache in order.                          *)
LEMMA ReceiveKeepsCache ==
    ASSUME NetTypeOK, OnMapLink, NEW n \in alive, NEW link \in Links, Receive(n, link),
           Gapless(cache[n]), Expected(cache[n], down[n][MapLink])
    PROVE  /\ OnMapLink'
           /\ Gapless(cache'[n]) /\ Expected(cache'[n], down'[n][MapLink])
           /\ cache[n].access # 0 => \A w : ReadyIn(cache[n], w) => ReadyIn(cache'[n], w)
  <1> DEFINE packet == Head(down[n][link])
             q == down[n][link]
  <1>0. MapLink \in Links
    BY DEF MapLink, Links
  <1>1. /\ n \in Nodes /\ q \in Seq(DownPacket) /\ q # <<>> /\ packet \in DownPacket
        /\ down[n] \in [Links -> Seq(DownPacket)]
        /\ cache \in [Nodes -> CacheItem] /\ cache[n] \in CacheItem
    BY FirstAndRest DEF Receive, NetTypeOK
  <1>2. /\ \A m \in Nodes \ {n} : down'[m] = down[m]
        /\ down'[n] = [down[n] EXCEPT ![link] = Tail(q)]
        /\ UNCHANGED alive
    BY DEF Receive, NetTypeOK
  <1>3. Whole(q) /\ (link # MapLink => WithoutMap(q))
    BY DEF OnMapLink, WithoutMap
  <1>4. /\ Whole(Tail(q))
        /\ IsMap(packet) /\ ~packet.last =>
              /\ ~Buffered /\ Tail(q) # <<>>
              /\ IsMap(Head(Tail(q))) /\ Head(Tail(q)).last
              /\ Head(Tail(q)).version = packet.version
    BY <1>1, <1>3, WholeTail
  <1>5. link # MapLink => WithoutMap(Tail(q)) /\ ~IsMap(packet)
    <2>1. /\ Tail(q) \in Seq(DownPacket) /\ Len(q) \in Nat \ {0}
          /\ Len(Tail(q)) = Len(q) - 1
          /\ \A k \in 1..Len(q) - 1 : Tail(q)[k] = q[k + 1]
          /\ Head(q) = q[1]
      BY <1>1, RestOfStream
    <2> HIDE DEF q
    <2> QED
      BY <1>3, <2>1 DEF WithoutMap, q
  <1>6. OnMapLink'
    <2>1. ASSUME NEW m \in alive, NEW l \in Links
          PROVE  Whole(down'[m][l]) /\ (l # MapLink => WithoutMap(down'[m][l]))
      <3>1. CASE m = n /\ l = link
        <4>1. down'[m][l] = Tail(q)
          BY <1>1, <1>2, <3>1
        <4> QED
          BY <1>4, <1>5, <3>1, <4>1
      <3>2. CASE ~(m = n /\ l = link)
        <4>1. down'[m][l] = down[m][l]
          BY <1>1, <1>2, <3>2 DEF NetTypeOK
        <4> QED
          BY <4>1 DEF OnMapLink, WithoutMap
      <3> QED
        BY <3>1, <3>2
    <2> QED
      BY <1>2, <2>1 DEF OnMapLink, WithoutMap, MapLink
  <1> DEFINE old == cache[n]
             new == cache'[n]
             Partial(item) == Cached(item) /\ ~Newest(item).ready
  <1>7. Partial(old) => /\ ~Buffered
                        /\ link = MapLink => /\ IsMap(packet) /\ packet.last
                                             /\ packet.version = Newest(old).version
    BY DEF Expected
  <1>8. CASE \E last \in BOOLEAN : /\ new = Add(old, packet.version, last) /\ UseCache
                                   /\ packet.version \in Version
                                   /\ \/ link = MapLink /\ IsMap(packet) /\ last = packet.last
                                      \/ Buffered /\ last
    <2>1. PICK last \in BOOLEAN : /\ new = Add(old, packet.version, last) /\ UseCache
                                  /\ packet.version \in Version
                                  /\ \/ link = MapLink /\ IsMap(packet) /\ last = packet.last
                                     \/ Buffered /\ last
      BY <1>8
    <2>2. Partial(old) => Newest(old).version = packet.version
      BY <1>7, <2>1
    <2> HIDE DEF packet
    <2>3. /\ Gapless(new)
          /\ old.access # 0 => \A w : ReadyIn(old, w) => ReadyIn(new, w)
          /\ Partial(new) => ~last /\ Newest(new).version = packet.version
      BY <1>1, <2>1, <2>2, AddGapless
    <2>4. Expected(new, down'[n][MapLink])
      <3> SUFFICES ASSUME Partial(new)
                   PROVE  LET r == down'[n][MapLink] IN
                          /\ ~Buffered /\ r # <<>>
                          /\ IsMap(Head(r)) /\ Head(r).last
                          /\ Head(r).version = Newest(new).version
        BY <2>1 DEF Expected
      <3>1. ~last /\ Newest(new).version = packet.version
        BY <2>3
      <3>2. link = MapLink /\ IsMap(packet) /\ ~packet.last
        BY <2>1, <3>1
      <3>3. down'[n][MapLink] = Tail(q)
        BY <1>1, <1>2, <3>2
      <3> QED
        BY <1>4, <3>1, <3>2, <3>3
    <2> QED
      BY <1>6, <2>3, <2>4
  <1>9. CASE new.versions = old.versions /\ ~(IsMap(packet) /\ link = MapLink)
    <2>1. Gapless(new) /\ (\A w : ReadyIn(old, w) => ReadyIn(new, w))
          /\ (Cached(new) => Cached(old) /\ Newest(new) = Newest(old))
      BY <1>9 DEF Gapless, ReadyIn, Cached, Newest
    <2>2. Expected(new, down'[n][MapLink])
      <3>1. CASE link = MapLink
        BY <1>7, <1>9, <2>1, <3>1 DEF Expected
      <3>2. CASE link # MapLink
        <4>1. down'[n][MapLink] = down[n][MapLink]
          BY <1>0, <1>1, <1>2, <3>2
        <4> QED
          BY <2>1, <4>1 DEF Expected
      <3> QED
        BY <3>1, <3>2
    <2> QED
      BY <1>6, <2>1, <2>2
  <1>10. CASE new = NoItem /\ old.access = 0
    <2>1. new.versions = <<>>
      BY <1>10 DEF NoItem
    <2> QED
      BY <1>6, <1>10, <2>1 DEF Gapless, Expected, Cached
  <1>11. CASE new.versions = old.versions /\ ~UseCache
    <2>1. new.versions = <<>> /\ old.versions = <<>>
      BY <1>11 DEF Expected, Cached
    <2> QED
      BY <1>6, <2>1 DEF Gapless, Expected, Cached, ReadyIn
  <1>12. \/ /\ packet.type = "success" /\ UNCHANGED cache
         \/ /\ packet.type \in {"reply", "failed"}
            /\ CmdMapObjectReply(n, packet.insts \cap On(n), packet)
         \/ /\ packet.type = "map"
            /\ CmdInstance(n, packet.insts \cap On(n), packet.version, packet.last)
         \/ packet.type = "empty" /\ UNCHANGED cache
         \/ packet.type = "commit" /\ IsDelta /\ UNCHANGED cache
         \/ /\ packet.type = "commit" /\ ~IsDelta
            /\ CmdInstance(n, packet.insts \cap On(n), packet.version, TRUE)
         \/ packet.type = "detach" /\ UNCHANGED cache
         \/ packet.type = "unmap" /\ CmdUnmapObject(n, packet.insts \cap On(n))
    BY DEF Receive
  <1>13. CASE packet.type \in {"success", "empty", "commit", "detach"} /\ UNCHANGED cache
    <2>1. new.versions = old.versions /\ ~IsMap(packet)
      BY <1>13 DEF IsMap
    <2> QED
      BY <1>9, <2>1
  <1>14. CASE /\ packet.type \in {"reply", "failed"}
              /\ CmdMapObjectReply(n, packet.insts \cap On(n), packet)
    <2>1. new \in {old, Release(Pin(old), 2), Release(old, 1)}
      BY <1>1, <1>14 DEF CmdMapObjectReply
    <2>2. /\ Release(Pin(old), 2).versions = old.versions
          /\ Release(old, 1).versions = old.versions
      BY <1>1 DEF Release, Pin, CacheItem
    <2>3. ~IsMap(packet)
      BY <1>14 DEF IsMap
    <2> QED
      BY <1>9, <2>1, <2>2, <2>3
  <1>15. CASE /\ packet.type = "map"
              /\ CmdInstance(n, packet.insts \cap On(n), packet.version, packet.last)
    <2>1. packet.version \in Version /\ packet.last \in BOOLEAN
      BY <1>1, <1>15 DEF DownPacket, PlainPacket, DataPacket, ReplyPacket
    <2>2. IsMap(packet) /\ link = MapLink
      BY <1>5, <1>15 DEF IsMap
    <2>3. CASE UseCache
      <3>1. new = Add(old, packet.version, packet.last)
        BY <1>1, <1>15, <2>3 DEF CmdInstance
      <3> QED
        BY <1>8, <2>1, <2>2, <2>3, <3>1
    <2>4. CASE ~UseCache
      <3>1. new = old
        BY <1>15, <2>4 DEF CmdInstance
      <3> QED
        BY <1>11, <2>4, <3>1
    <2> QED
      BY <2>3, <2>4
  <1>16. CASE /\ packet.type = "commit" /\ ~IsDelta
              /\ CmdInstance(n, packet.insts \cap On(n), packet.version, TRUE)
    <2>1. packet.version \in Version /\ Buffered
      BY <1>1, <1>16 DEF DownPacket, PlainPacket, DataPacket, ReplyPacket, IsDelta, Buffered
    <2>3. CASE UseCache
      <3>1. new = Add(old, packet.version, TRUE)
        BY <1>1, <1>16, <2>3 DEF CmdInstance
      <3> QED
        BY <1>8, <2>1, <2>3, <3>1
    <2>4. CASE ~UseCache
      <3>1. new = old
        BY <1>16, <2>4 DEF CmdInstance
      <3> QED
        BY <1>11, <2>4, <3>1
    <2> QED
      BY <2>3, <2>4
  <1>17. CASE packet.type = "unmap" /\ CmdUnmapObject(n, packet.insts \cap On(n))
    <2>1. new = Erase(old) /\ ~IsMap(packet)
      BY <1>1, <1>17 DEF CmdUnmapObject, IsMap
    <2>2. new = old \/ (new = NoItem /\ old.access = 0)
      BY <2>1 DEF Erase
    <2> QED
      BY <1>9, <1>10, <2>1, <2>2
  <1> QED
    BY <1>12, <1>13, <1>14, <1>15, <1>16, <1>17

(* Announcements.                                                          *)
In(q) == {q[k] : k \in 1..Len(q)}

Holds(p, item) == \A v \in AnnouncedBy(p) : ReadyIn(item, v)

\* The packets between a node and the master, in both directions.
UnderWay(n) ==
    In(up[n]) \cup In(cmdQueue) \cup In(down[n]["unicast"]) \cup In(down[n]["multicast"])

Announced(n) == \A p \in UnderWay(n) : IsPin(n, p) => Holds(p, cache[n])

(* The invariant's form of the announced versions implies the property.    *)
LEMMA AnnouncedIsProperty ==
    ASSUME \A n \in alive : Announced(n)
    PROVE  AnnouncedStaysCached
  <1> SUFFICES ASSUME NEW n \in alive,
                      NEW q \in {up[n], cmdQueue} \cup {down[n][link] : link \in Links},
                      NEW k \in 1..Len(q), IsPin(n, q[k]), NEW v \in AnnouncedBy(q[k])
               PROVE  v \in {cache[n].versions[j].version :
                          j \in {l \in 1..Len(cache[n].versions) :
                                     cache[n].versions[l].ready}}
    BY DEF AnnouncedStaysCached
  <1>1. q[k] \in UnderWay(n)
    BY DEF In, UnderWay, Links
  <1>2. ReadyIn(cache[n], v)
    BY <1>1 DEF Announced, Holds
  <1> QED
    BY <1>2 DEF ReadyIn

(* The packets of a stream after one was sent.                             *)
LEMMA InAppend ==
    ASSUME NEW S, NEW q \in Seq(S), NEW p \in S
    PROVE  In(Append(q, p)) = In(q) \cup {p}
  <1>1. /\ Len(q) \in Nat /\ Len(Append(q, p)) = Len(q) + 1
        /\ \A k \in 1..Len(q) : Append(q, p)[k] = q[k]
        /\ Append(q, p)[Len(q) + 1] = p
    BY AppendProperties, LenProperties
  <1>2. 1..Len(q) + 1 = 1..Len(q) \cup {Len(q) + 1}
    BY <1>1
  <1> QED
    BY <1>1, <1>2 DEF In

(* The packet of a stream of one.                                          *)
LEMMA InOne ==
    ASSUME NEW p
    PROVE  In(<<p>>) = {p}
  BY DEF In

(* The packets of a stream after several were sent.                        *)
LEMMA InConcat ==
    ASSUME NEW S, NEW q \in Seq(S), NEW r \in Seq(S)
    PROVE  In(q \o r) = In(q) \cup In(r)
  <1> DEFINE t == q \o r
  <1>1. /\ Len(q) \in Nat /\ Len(r) \in Nat /\ Len(t) = Len(q) + Len(r)
        /\ \A k \in 1..Len(q) + Len(r) :
              t[k] = IF k =< Len(q) THEN q[k] ELSE r[k - Len(q)]
    BY ConcatProperties, LenProperties
  <1> HIDE DEF t
  <1>2. \A k \in 1..Len(t) :
            \/ k \in 1..Len(q) /\ t[k] = q[k]
            \/ k - Len(q) \in 1..Len(r) /\ t[k] = r[k - Len(q)]
    BY <1>1
  <1>3. /\ \A k \in 1..Len(q) : k \in 1..Len(t) /\ t[k] = q[k]
        /\ \A k \in 1..Len(r) : k + Len(q) \in 1..Len(t) /\ t[k + Len(q)] = r[k]
    BY <1>1
  <1>4. In(t) \subseteq In(q) \cup In(r)
    BY <1>2 DEF In
  <1>5. In(q) \cup In(r) \subseteq In(t)
    BY <1>3 DEF In
  <1> QED
    BY <1>4, <1>5 DEF t

(* The packets of a stream after one was received.                         *)
LEMMA InTail ==
    ASSUME NEW S, NEW q \in Seq(S), q # <<>>
    PROVE  In(Tail(q)) \subseteq In(q) /\ Head(q) \in In(q)
  <1>1. /\ Len(q) \in Nat \ {0} /\ Len(Tail(q)) = Len(q) - 1
        /\ \A k \in 1..Len(q) - 1 : Tail(q)[k] = q[k + 1]
        /\ Head(q) = q[1]
    BY RestOfStream
  <1> QED
    BY <1>1 DEF In

(* Data that nobody uses was announced by nobody.                          *)
LEMMA UnusedIsFree ==
    ASSUME NetTypeOK, PinInv, NEW n \in alive, cache[n].access = 0
    PROVE  \A p \in UnderWay(n) : ~IsPin(n, p)
  <1>1. n \in Nodes
    BY DEF NetTypeOK
  <1>2. /\ Pins(n, up[n]) \in Nat /\ Pins(n, cmdQueue) \in Nat
        /\ Pins(n, down[n]["unicast"]) \in Nat /\ Pins(n, down[n]["multicast"]) \in Nat
        /\ up[n] \in Seq(UpPacket) /\ cmdQueue \in Seq(CommandPacket)
        /\ down[n]["unicast"] \in Seq(DownPacket) /\ down[n]["multicast"] \in Seq(DownPacket)
    BY <1>1, StreamTypes DEF Links
  <1>3. /\ Pins(n, up[n]) = 0 /\ Pins(n, cmdQueue) = 0
        /\ Pins(n, down[n]["unicast"]) = 0 /\ Pins(n, down[n]["multicast"]) = 0
    BY <1>2 DEF PinInv, PinsBalanced
  <1>4. ASSUME NEW S, NEW q \in Seq(S), Pins(n, q) = 0, NEW p \in In(q)
        PROVE  ~IsPin(n, p)
    <2>1. IsFiniteSet(PinsAt(n, q)) /\ Cardinality(PinsAt(n, q)) = 0
      BY <1>4, PinsFinite
    <2>2. PinsAt(n, q) = {}
      BY <2>1, FS_EmptySet
    <2> QED
      BY <1>4, <2>2 DEF PinsAt, In
  <1> QED
    BY <1>2, <1>3, <1>4 DEF UnderWay

AnnounceInv ==
    /\ OnMapLink
    /\ \A n \in alive : Gapless(cache[n]) /\ Expected(cache[n], down[n][MapLink])
    /\ \A n \in alive : Announced(n)

(* Steps that touch neither streams nor caches.                            *)
LEMMA AnnounceSame ==
    ASSUME AnnounceInv, UNCHANGED <<alive, cache, up, cmdQueue, down>>
    PROVE  AnnounceInv'
  BY DEF AnnounceInv, OnMapLink, Announced, UnderWay, In, MapLink

\* Packets for node n that announce nothing that is not cached.
Backed(n, r) == \A p \in In(r) : IsPin(n, p) => Holds(p, cache[n])

(* Steps that leave the caches alone.                                      *)
LEMMA AnnounceSends ==
    ASSUME NetTypeOK, AnnounceInv, UNCHANGED <<alive, cache>>,
           \A n \in alive, l \in Links :
              down'[n][l] = down[n][l]
              \/ \E r : Sendable(r, l) /\ Backed(n, r) /\ down'[n][l] = down[n][l] \o r,
           \A n \in alive : \A p \in In(up'[n]) \cup In(cmdQueue') :
              p \in UnderWay(n) \/ ~IsPin(n, p) \/ Holds(p, cache[n])
    PROVE  AnnounceInv'
  <1>1. /\ OnMapLink'
        /\ \A n \in alive : \A item :
              Expected(item, down[n][MapLink]) => Expected(item, down'[n][MapLink])
    <2>1. \A n \in alive, l \in Links :
              down'[n][l] = down[n][l] \/ \E r : Sendable(r, l) /\ down'[n][l] = down[n][l] \o r
      OBVIOUS
    <2> QED
      BY <2>1, DownGrows DEF AnnounceInv
  <1>2. \A n \in alive : Gapless(cache[n]) /\ Expected(cache[n], down[n][MapLink])
    BY DEF AnnounceInv
  <1>3. \A n \in alive' : Gapless(cache'[n]) /\ Expected(cache'[n], down'[n][MapLink])
    BY <1>1, <1>2
  <1>4. ASSUME NEW n \in alive, NEW l \in Links, NEW p \in In(down'[n][l])
        PROVE  p \in In(down[n][l]) \/ ~IsPin(n, p) \/ Holds(p, cache[n])
    <2>1. CASE down'[n][l] = down[n][l]
      BY <1>4, <2>1
    <2>2. ASSUME NEW r, Sendable(r, l), Backed(n, r), down'[n][l] = down[n][l] \o r
          PROVE  p \in In(down[n][l]) \/ ~IsPin(n, p) \/ Holds(p, cache[n])
      <3>1. down[n][l] \in Seq(DownPacket) /\ r \in Seq(DownPacket)
        BY <2>2 DEF NetTypeOK, Sendable
      <3>2. In(down[n][l] \o r) \subseteq In(down[n][l]) \cup In(r)
        BY <3>1, InConcat
      <3> QED
        BY <1>4, <2>2, <3>2 DEF Backed
    <2> QED
      BY <2>1, <2>2
  <1>5. ASSUME NEW n \in alive, NEW p \in UnderWay(n)', IsPin(n, p)
        PROVE  Holds(p, cache[n])
    <2>1. p \in UnderWay(n) \/ Holds(p, cache[n])
      <3>1. CASE p \in In(up'[n]) \cup In(cmdQueue')
        BY <1>5, <3>1
      <3>2. CASE p \in In(down'[n]["unicast"]) \cup In(down'[n]["multicast"])
        BY <1>4, <1>5, <3>2 DEF UnderWay, Links
      <3> QED
        BY <1>5, <3>1, <3>2 DEF UnderWay
    <2> QED
      BY <1>5, <2>1 DEF AnnounceInv, Announced
  <1>6. \A n \in alive' : Announced(n)'
    BY <1>5 DEF Announced
  <1> QED
    BY <1>1, <1>3, <1>6 DEF AnnounceInv, MapLink

(* Packets that are no map data may be sent on any link.                   *)
LEMMA PlainSendable ==
    ASSUME NEW p \in PlainPacket, NEW l
    PROVE  Sendable(<<p>>, l)
  <1>1. p \in DownPacket /\ ~IsMap(p)
    BY DEF DownPacket, PlainPacket, IsMap
  <1>2. <<p>> \in Seq(DownPacket)
    BY <1>1, ShortSeqs
  <1> QED
    BY <1>1, <1>2 DEF Sendable, Whole, WithoutMap

(* They announce nothing.                                                  *)
LEMMA PlainBacked ==
    ASSUME NEW p \in PlainPacket, NEW n
    PROVE  Backed(n, <<p>>)
  <1>1. ~IsPin(n, p)
    BY PlainIsNoPin DEF PlainPacket
  <1>2. In(<<p>>) = {p}
    BY InOne
  <1> QED
    BY <1>1, <1>2 DEF Backed

(* The answer to a map request announces what the request did.             *)
LEMMA AnswerBacked ==
    ASSUME MappingInv, NEW packet \in RequestPacket, NEW i \in Instances, NEW n,
           IsPin(n, packet) => Holds(packet, cache[n])
    PROVE  /\ Backed(n, <<Reply("failed", packet, packet.version, FALSE)>>)
           /\ Backed(n, <<Packet("success", {i}, VERSION_NONE)>> \o MapData(i, packet)
                        \o <<Reply("reply", packet, MappedVersion(packet.version),
                                   RepliesUseCache(packet))>>)
  <1> DEFINE failed == Reply("failed", packet, packet.version, FALSE)
             reply == Reply("reply", packet, MappedVersion(packet.version),
                            RepliesUseCache(packet))
             success == Packet("success", {i}, VERSION_NONE)
             data == MapData(i, packet)
  <1>0. MasterTypeOK /\ InstanceTypeOK /\ CheckConsistency
    BY DEF MappingInv, MasterInv
  <1>1. ASSUME NEW p \in {failed, reply}, IsPin(n, p)
        PROVE  Holds(p, cache[n])
    <2>1. /\ p.type \in {"reply", "failed"}
          /\ p.insts = packet.insts /\ p.releaseCache = packet.useCache
          /\ p.minCached = packet.minCached /\ p.maxCached = packet.maxCached
      BY <1>1 DEF Reply
    <2>2. packet.type = "mapObject"
      BY DEF RequestPacket
    <2>3. IsPin(n, packet)
      BY <1>1, <2>1, <2>2 DEF IsPin
    <2> QED
      BY <2>1, <2>3 DEF Holds, AnnouncedBy
  <1>2. ~IsPin(n, success)
    BY PlainIsNoPin DEF Packet
  <1>3. data \in Seq(PlainPacket \cup DataPacket)
    BY <1>0, MapDataType
  <1>4. ASSUME NEW p \in In(data)
        PROVE  ~IsPin(n, p)
    <2>1. p \in PlainPacket \cup DataPacket
      BY <1>3, <1>4, ElementOfSeq DEF In
    <2> QED
      BY <2>1, PlainIsNoPin DEF PlainPacket, DataPacket
  <1> DEFINE T == {success, reply} \cup PlainPacket \cup DataPacket
             first == <<success>>
             rest == <<reply>>
  <1>5. In(<<failed>>) = {failed} /\ In(first) = {success} /\ In(rest) = {reply}
    BY InOne
  <1>6. first \in Seq(T) /\ rest \in Seq(T) /\ data \in Seq(T)
    <2>1. success \in T /\ reply \in T /\ PlainPacket \cup DataPacket \subseteq T
      OBVIOUS
    <2> HIDE DEF T, success, reply
    <2> QED
      BY <1>3, <2>1, ShortSeqs, SeqMonotonic
  <1> HIDE DEF T, first, rest, failed, reply, success, data
  <1>7. first \o data \in Seq(T)
    BY <1>6, ConcatProperties
  <1>8. In(first \o data) \subseteq In(first) \cup In(data)
    BY <1>6, InConcat
  <1> DEFINE front == first \o data
  <1>9. front \in Seq(T) /\ In(front) \subseteq In(first) \cup In(data)
    BY <1>7, <1>8
  <1> HIDE DEF front
  <1>10. In(front \o rest) \subseteq In(front) \cup In(rest)
    BY <1>6, <1>9, InConcat
  <1>11. Backed(n, front \o rest)
    BY <1>1, <1>2, <1>4, <1>5, <1>9, <1>10 DEF Backed
  <1>12. Backed(n, <<failed>>)
    BY <1>1, <1>5 DEF Backed
  <1> QED
    BY <1>11, <1>12 DEF front, first, rest, data, reply, success, failed

(* The master's application thread.                                        *)
LEMMA CommitAnnounce ==
    ASSUME MappingInv, AnnounceInv,
           NewVersion \/ MasterOnly \/ DeregisterNotify \/ DeregisterDetach
    PROVE  AnnounceInv'
  <1>0. InstanceTypeOK /\ NetTypeOK
    BY DEF MappingInv
  <1>1. CASE MasterOnly \/ DeregisterDetach
    BY <1>1, AnnounceSame DEF MasterOnly, DeregisterDetach, slaveVars, netVars
  <1>2. CASE NewVersion
    <2> DEFINE packet == Packet("commit", Instances, version + 1)
               packets == <<packet>>
    <2>1. packet \in PlainPacket
      BY <1>0, <1>2, MappingAssumption
         DEF NewVersion, InstanceTypeOK, Packet, PlainPacket, Version
    <2>2. Send(SlaveNodes, CommitLink(SlaveNodes), packets)
          /\ UNCHANGED <<alive, cache, up, cmdQueue>>
      BY <1>2 DEF NewVersion, slaveVars
    <2>3. CommitLink(SlaveNodes) \in Links
      BY DEF CommitLink, Links
    <2> HIDE DEF packet
    <2>4. Sendable(packets, CommitLink(SlaveNodes))
      BY <2>1, PlainSendable
    <2> HIDE DEF packets
    <2>5. \A n \in alive, l \in Links :
            down'[n][l] = down[n][l]
            \/ (Sendable(packets, l) /\ down'[n][l] = down[n][l] \o packets)
      BY <1>0, <2>2, <2>3, <2>4, SendGrows
    <2>6. \A n : Backed(n, packets)
      BY <2>1, PlainBacked DEF packets
    <2>7. \A n \in alive : In(up'[n]) \cup In(cmdQueue') \subseteq UnderWay(n)
      BY <2>2 DEF UnderWay
    <2> QED
      BY <1>0, <2>2, <2>5, <2>6, <2>7, AnnounceSends
  <1>3. CASE DeregisterNotify
    <2>1. UNCHANGED <<alive, cache, up, cmdQueue>>
      BY <1>3 DEF DeregisterNotify, slaveVars
    <2>2. ASSUME NEW n \in alive, NEW l \in Links
          PROVE  down'[n][l] = down[n][l]
                 \/ \E r : Sendable(r, l) /\ Backed(n, r) /\ down'[n][l] = down[n][l] \o r
      <3> DEFINE packet == Packet("unmap", On(n), VERSION_NONE)
      <3>1. n \in Nodes /\ down[n] \in [Links -> Seq(DownPacket)]
            /\ "unicast" \in Links /\ down[n]["unicast"] \in Seq(DownPacket)
        BY <1>0 DEF NetTypeOK, Links
      <3>2. packet \in PlainPacket
        BY MappingAssumption DEF Packet, On, PlainPacket, Version
      <3>3. \/ down'[n][l] = down[n][l]
            \/ l = "unicast" /\ down'[n][l] = Append(down[n]["unicast"], packet)
        BY <1>3, <3>1 DEF DeregisterNotify
      <3> HIDE DEF packet
      <3>4. packet \in DownPacket
        BY <3>2 DEF DownPacket
      <3>5. Append(down[n]["unicast"], packet) = down[n]["unicast"] \o <<packet>>
        BY <3>1, <3>4, AppendIsConcat
      <3>6. Sendable(<<packet>>, l) /\ Backed(n, <<packet>>)
        BY <3>2, PlainSendable, PlainBacked
      <3> QED
        BY <3>3, <3>5, <3>6
    <2>3. \A n \in alive : In(up'[n]) \cup In(cmdQueue') \subseteq UnderWay(n)
      BY <2>1 DEF UnderWay
    <2> QED
      BY <1>0, <2>1, <2>2, <2>3, AnnounceSends
  <1> QED
    BY <1>1, <1>2, <1>3

(* The master's receiver thread: requests move to the command queue.       *)
LEMMA MasterReceiveAnnounce ==
    ASSUME MappingInv, PinInv, AnnounceInv, NEW m \in Nodes, MasterReceive(m)
    PROVE  AnnounceInv'
  <1> DEFINE packet == Head(up[m])
  <1>0. NetTypeOK
    BY DEF MappingInv
  <1>1. /\ up[m] \in Seq(UpPacket) /\ up[m] # <<>> /\ packet \in UpPacket
        /\ cmdQueue \in Seq(CommandPacket)
    BY <1>0, FirstAndRest DEF NetTypeOK, MasterReceive
  <1>2. UNCHANGED <<alive, cache, down>> /\ up' = [up EXCEPT ![m] = Tail(up[m])]
    BY DEF MasterReceive, slaveVars
  <1>3. In(cmdQueue') \subseteq In(cmdQueue) \cup {packet}
    <2>1. CASE packet.type = "maxVersion"
      BY <2>1 DEF MasterReceive
    <2>2. CASE packet.type # "maxVersion"
      <3>1. cmdQueue' = Append(cmdQueue, packet)
        BY <2>2 DEF MasterReceive
      <3>2. packet \in CommandPacket
        BY <1>1, <2>2 DEF UpPacket
      <3> HIDE DEF packet
      <3> QED
        BY <1>1, <3>1, <3>2, InAppend
    <2> QED
      BY <2>1, <2>2
  <1>4. In(Tail(up[m])) \subseteq In(up[m]) /\ packet \in In(up[m])
    BY <1>1, InTail
  <1>5. ASSUME NEW n \in alive, IsPin(n, packet)
        PROVE  n = m
    <2>0. packet.type = "mapObject" /\ packet.insts \subseteq On(n)
      BY <1>1, <1>5 DEF IsPin, UpPacket, CommandPacket, RequestPacket
    <2>1. packet.insts \subseteq On(m)
      BY <1>4, <2>0 DEF PinInv, OwnRequests, In
    <2>2. packet.insts # {}
      BY <1>1, <2>0 DEF UpPacket, CommandPacket, RequestPacket, Single
    <2> QED
      BY <2>0, <2>1, <2>2 DEF On
  <1>6. ASSUME NEW n \in alive, NEW p \in In(up'[n]) \cup In(cmdQueue')
        PROVE  p \in UnderWay(n) \/ ~IsPin(n, p)
    <2>1. n \in Nodes
      BY <1>0 DEF NetTypeOK
    <2>2. In(up'[n]) \subseteq In(up[n])
      BY <1>0, <1>2, <1>4, <2>1 DEF NetTypeOK
    <2> HIDE DEF packet
    <2> QED
      BY <1>3, <1>4, <1>5, <2>2 DEF UnderWay
  <1>7. \A n \in alive, l \in Links : down'[n][l] = down[n][l]
    BY <1>2
  <1> QED
    BY <1>0, <1>2, <1>6, <1>7, AnnounceSends

(* The master's command thread: map data and replies are sent.             *)
LEMMA MasterCommandAnnounce ==
    ASSUME MappingInv, AnnounceInv, MasterCommand
    PROVE  AnnounceInv'
  <1> DEFINE packet == Head(cmdQueue)
             i == CHOOSE j \in packet.insts : TRUE
  <1>0. NetTypeOK /\ MasterTypeOK /\ InstanceTypeOK /\ CheckConsistency
    BY DEF MappingInv, MasterInv
  <1>1. cmdQueue \in Seq(CommandPacket) /\ cmdQueue # <<>> /\ packet \in CommandPacket
    BY <1>0, FirstAndRest DEF NetTypeOK, MasterCommand
  <1>2. UNCHANGED <<alive, cache, up>> /\ cmdQueue' = Tail(cmdQueue)
    BY DEF MasterCommand, slaveVars
  <1>3. In(cmdQueue') \subseteq In(cmdQueue) /\ packet \in In(cmdQueue)
    BY <1>1, <1>2, InTail
  <1>4. "unicast" \in Links /\ MapLink \in Links
    BY DEF Links, MapLink
  <1>5. \A n \in alive, l \in Links :
            down'[n][l] = down[n][l]
            \/ \E r : Sendable(r, l) /\ Backed(n, r) /\ down'[n][l] = down[n][l] \o r
    <2>1. CASE CmdMapObject(packet)
      <3>0. \A n \in alive : IsPin(n, packet) => Holds(packet, cache[n])
        BY <1>3 DEF AnnounceInv, Announced, UnderWay
      <3>1. packet \in RequestPacket
        BY <1>1, <2>1 DEF CmdMapObject, CommandPacket
      <3>2. i \in Instances
        BY <3>1, ChosenInstance DEF RequestPacket
      <3> HIDE DEF packet, i
      <3> DEFINE answer == <<Packet("success", {i}, VERSION_NONE)>> \o MapData(i, packet)
                     \o <<Reply("reply", packet, MappedVersion(packet.version),
                                RepliesUseCache(packet))>>
                 link == IF packet.version = VERSION_NONE \/ MapData(i, packet) = <<>>
                         THEN "unicast" ELSE MapLink
                 refusal == <<Reply("failed", packet, packet.version, FALSE)>>
      <3>3. Send({NodeOf[i]}, "unicast", refusal) \/ Send({NodeOf[i]}, link, answer)
        BY <2>1 DEF CmdMapObject, i
      <3>4. Sendable(refusal, "unicast") /\ Sendable(answer, link) /\ link \in Links
        BY <1>0, <1>4, <3>1, <3>2, AnswerSendable
      <3>5. \A n \in alive : Backed(n, refusal) /\ Backed(n, answer)
        BY <3>0, <3>1, <3>2, AnswerBacked
      <3> HIDE DEF answer, link, refusal
      <3>6. \E r : (\A n \in alive : Backed(n, r)) /\ \A n \in alive, l \in Links :
              down'[n][l] = down[n][l] \/ (Sendable(r, l) /\ down'[n][l] = down[n][l] \o r)
        BY <1>0, <1>4, <3>3, <3>4, <3>5, SendGrows
      <3> QED
        BY <3>6
    <2>2. CASE CmdUnsubscribeObject(packet)
      <3> DEFINE answer == Packet("detach", packet.insts, VERSION_NONE)
                 packets == <<answer>>
      <3>1. packet.insts \subseteq Instances
        BY <1>1, <2>2 DEF CmdUnsubscribeObject, CommandPacket, RequestPacket
      <3>2. answer \in PlainPacket
        BY <3>1, MappingAssumption DEF Packet, PlainPacket, Version
      <3>3. \E receivers : Send(receivers, "unicast", packets)
        BY <2>2 DEF CmdUnsubscribeObject
      <3> HIDE DEF answer
      <3>4. Sendable(packets, "unicast") /\ \A n : Backed(n, packets)
        BY <3>2, PlainSendable, PlainBacked
      <3> HIDE DEF packets
      <3>5. \A n \in alive, l \in Links :
              down'[n][l] = down[n][l]
              \/ (Sendable(packets, l) /\ down'[n][l] = down[n][l] \o packets)
        BY <1>0, <1>4, <3>3, <3>4, SendGrows
      <3> QED
        BY <3>4, <3>5
    <2>3. CASE CmdRemoveNode(packet)
      BY <2>3 DEF CmdRemoveNode
    <2> QED
      BY <2>1, <2>2, <2>3 DEF MasterCommand
  <1>6. \A n \in alive : In(up'[n]) \cup In(cmdQueue') \subseteq UnderWay(n)
    BY <1>2, <1>3 DEF UnderWay
  <1> QED
    BY <1>0, <1>2, <1>5, <1>6, AnnounceSends

(* The receiver thread of a node with slaves.                              *)
LEMMA ReceiveAnnounce ==
    ASSUME MappingInv, PinInv, AnnounceInv, NEW n \in Nodes, NEW link \in Links,
           Receive(n, link)
    PROVE  AnnounceInv'
  <1>0. NetTypeOK
    BY DEF MappingInv
  <1>1. UNCHANGED <<alive, up, cmdQueue>>
    BY SMTT(30) DEF Receive
  <1>2. /\ \A m \in Nodes \ {n} : down'[m] = down[m]
        /\ \A m \in Nodes \ {n} : cache'[m] = cache[m]
    BY <1>0, OthersKeep DEF Receive, NetTypeOK
  <1>3. ASSUME NEW m \in Nodes
        PROVE  UnderWay(m)' \subseteq UnderWay(m)
    <2>1. ASSUME NEW l \in Links
          PROVE  In(down'[m][l]) \subseteq In(down[m][l])
      <3>1. CASE m = n /\ l = link
        <4>1. down[n][link] \in Seq(DownPacket) /\ down[n][link] # <<>>
              /\ down'[n][link] = Tail(down[n][link])
          BY <1>0 DEF Receive, NetTypeOK
        <4> QED
          BY <3>1, <4>1, InTail
      <3>2. CASE ~(m = n /\ l = link)
        <4>1. down'[m][l] = down[m][l]
          BY <1>0, <3>2 DEF Receive, NetTypeOK
        <4> QED
          BY <4>1
      <3> QED
        BY <3>1, <3>2
    <2> QED
      BY <1>1, <2>1 DEF UnderWay, Links
  <1>4. CASE n \in alive
    <2>1. /\ OnMapLink'
          /\ Gapless(cache'[n]) /\ Expected(cache'[n], down'[n][MapLink])
          /\ cache[n].access # 0 => \A w : ReadyIn(cache[n], w) => ReadyIn(cache'[n], w)
      BY <1>0, <1>4, ReceiveKeepsCache DEF AnnounceInv
    <2>2. \A m \in alive : Gapless(cache'[m]) /\ Expected(cache'[m], down'[m][MapLink])
      BY <1>0, <1>2, <2>1 DEF AnnounceInv, NetTypeOK
    <2>3. ASSUME NEW m \in alive, NEW p \in UnderWay(m), IsPin(m, p)
          PROVE  Holds(p, cache'[m])
      <3>1. Holds(p, cache[m])
        BY <2>3 DEF AnnounceInv, Announced
      <3>2. CASE m # n
        BY <1>0, <1>2, <3>1, <3>2 DEF NetTypeOK
      <3>3. CASE m = n /\ cache[n].access # 0
        BY <2>1, <3>1, <3>3 DEF Holds
      <3>4. CASE m = n /\ cache[n].access = 0
        BY <1>0, <2>3, <3>4, UnusedIsFree
      <3> QED
        BY <3>2, <3>3, <3>4
    <2>4. \A m \in alive' : Announced(m)'
      BY <1>0, <1>1, <1>3, <2>3 DEF Announced, NetTypeOK
    <2> QED
      BY <1>1, <2>1, <2>2, <2>4 DEF AnnounceInv, MapLink
  <1>5. CASE n \notin alive
    <2>1. \A m \in alive : down'[m] = down[m] /\ cache'[m] = cache[m]
      BY <1>0, <1>2, <1>5 DEF NetTypeOK
    <2> QED
      BY <1>1, <2>1 DEF AnnounceInv, OnMapLink, Announced, UnderWay, MapLink
  <1> QED
    BY <1>4, <1>5

(* Expiring and losing a node.                                             *)
LEMMA NodeAnnounce ==
    ASSUME MappingInv, PinInv, AnnounceInv, NEW n \in Nodes, Expire(n) \/ NodeLost(n)
    PROVE  AnnounceInv'
  <1>0. NetTypeOK
    BY DEF MappingInv
  <1>1. CASE Expire(n)
    <2>1. UNCHANGED <<alive, up, down, cmdQueue>> /\ n \in alive
      BY <1>1 DEF Expire, netVars
    <2>2. PICK item \in Expired(cache[n]) \ {cache[n]} : cache' = [cache EXCEPT ![n] = item]
      BY <1>1 DEF Expire
    <2>3. cache[n] \in CacheItem /\ cache \in [Nodes -> CacheItem]
      BY <1>0 DEF NetTypeOK
    <2>4. cache[n].access = 0
      BY <2>2 DEF Expired
    <2>5. Gapless(cache[n]) /\ Expected(cache[n], down[n][MapLink])
      BY <2>1 DEF AnnounceInv
    <2>6. Gapless(item) /\ (Cached(item) => Cached(cache[n]) /\ Newest(item) = Newest(cache[n]))
      BY <2>2, <2>3, <2>5, ExpiredGapless
    <2>7. Expected(item, down[n][MapLink])
      BY <2>5, <2>6 DEF Expected
    <2>8. cache'[n] = item /\ \A m \in Nodes \ {n} : cache'[m] = cache[m]
      BY <2>2, <2>3
    <2>9. \A m \in alive : Gapless(cache'[m]) /\ Expected(cache'[m], down[m][MapLink])
      BY <1>0, <2>6, <2>7, <2>8 DEF AnnounceInv, NetTypeOK
    <2>10. ASSUME NEW m \in alive, NEW p \in UnderWay(m), IsPin(m, p)
           PROVE  Holds(p, cache'[m])
      <3>1. CASE m = n
        BY <1>0, <2>4, <2>10, <3>1, UnusedIsFree
      <3>2. CASE m # n
        <4>1. cache'[m] = cache[m]
          BY <1>0, <2>8, <3>2 DEF NetTypeOK
        <4> QED
          BY <2>10, <4>1 DEF AnnounceInv, Announced
      <3> QED
        BY <3>1, <3>2
    <2>11. \A m \in alive' : Announced(m)'
      BY <2>1, <2>10 DEF Announced, UnderWay
    <2> QED
      BY <2>1, <2>9, <2>11 DEF AnnounceInv, OnMapLink, MapLink
  <1>2. CASE NodeLost(n)
    <2>1. alive' = alive \ {n} /\ UNCHANGED cmdQueue
          /\ \A m \in Nodes \ {n} :
                 down'[m] = down[m] /\ cache'[m] = cache[m] /\ up'[m] = up[m]
      BY <1>0, <1>2 DEF NodeLost, SendUp, NetTypeOK
    <2>2. \A m \in alive' : m \in alive /\ down'[m] = down[m] /\ cache'[m] = cache[m]
                           /\ up'[m] = up[m]
      BY <1>0, <2>1 DEF NetTypeOK
    <2> QED
      BY <2>1, <2>2 DEF AnnounceInv, OnMapLink, Announced, UnderWay, MapLink
  <1> QED
    BY <1>1, <1>2

(* What mapObjectNB announces is there.                                    *)
LEMMA RequestHolds ==
    ASSUME NEW item \in CacheItem, Gapless(item), Cached(item),
           NEW p, p.minCached = GetVersion(item.versions[1]),
           p.maxCached = GetVersion(Newest(item))
    PROVE  Holds(p, item)
  <1> DEFINE s == item.versions
             N == Len(s)
  <1>1. N \in Nat /\ N \in 1..N /\ 1 \in 1..N /\ Newest(item) = s[N]
        /\ s[1].version \in Nat
    BY ItemFields, MappingAssumption DEF Version, Newest
  <1>2. /\ \A k \in 1..N : s[k].version = s[1].version + k - 1
        /\ \A k \in 1..N : k < N => s[k].ready
    BY DEF Gapless
  <1>3. CASE p.maxCached # VERSION_INVALID
    <2> SUFFICES ASSUME NEW v \in p.minCached..p.maxCached
                 PROVE  ReadyIn(item, v)
      BY <1>3 DEF Holds, AnnouncedBy
    <2>1. s[N].ready
      BY <1>1, <1>3 DEF GetVersion
    <2> HIDE DEF s, N
    <2>2. \A k \in 1..N : s[k].ready
      BY <1>1, <1>2, <2>1
    <2>3. p.minCached = s[1].version /\ p.maxCached = s[N].version
      BY <1>1, <2>2 DEF GetVersion, s
    <2>4. s[N].version = s[1].version + N - 1
      BY <1>1, <1>2
    <2> DEFINE k == v - s[1].version + 1
    <2>5. k \in 1..N /\ s[1].version + k - 1 = v
      BY <1>1, <2>3, <2>4
    <2> HIDE DEF k
    <2>6. s[k].ready /\ s[k].version = v
      BY <1>2, <2>2, <2>5
    <2> QED
      BY <2>5, <2>6 DEF ReadyIn, s, N
  <1>4. CASE p.maxCached = VERSION_INVALID
    <2> SUFFICES ASSUME p.minCached # VERSION_INVALID
                 PROVE  ReadyIn(item, p.minCached)
      BY <1>4 DEF Holds, AnnouncedBy
    <2>1. s[1].ready /\ s[1].version = p.minCached
      BY DEF GetVersion
    <2> QED
      BY <1>1, <2>1 DEF ReadyIn
  <1> QED
    BY <1>3, <1>4

(* A map request announces what is in the cache at that moment.            *)
LEMMA MapObjectNBAnnounce ==
    ASSUME MappingInv, AnnounceInv, NEW i \in Instances, NEW requested \in Requests,
           MapObjectNB(i, requested)
    PROVE  AnnounceInv'
  <1> DEFINE n == NodeOf[i]
             item == cache[n]
             hit == MapRequest(i, requested, TRUE, GetVersion(item.versions[1]),
                               GetVersion(Newest(item)))
             miss == MapRequest(i, requested, FALSE, VERSION_NONE, VERSION_NONE)
             packet == IF Cached(item) THEN hit ELSE miss
  <1>0. NetTypeOK
    BY DEF MappingInv
  <1>1. n \in Nodes /\ n \in alive /\ item \in CacheItem /\ up[n] \in Seq(UpPacket)
    BY <1>0, MappingAssumption DEF MapObjectNB, NetTypeOK
  <1>2. packet \in UpPacket
    BY <1>0, RequestType
  <1>3. SendUp(n, packet) /\ UNCHANGED <<alive, down, cmdQueue>>
        /\ cache' = [cache EXCEPT ![n] = Pin(item)]
    BY DEF MapObjectNB
  <1>4. Gapless(item)
    BY <1>1 DEF AnnounceInv
  <1>5. IsPin(n, packet) => Holds(packet, item)
    <2>1. CASE Cached(item)
      <3>1. packet = hit
        BY <2>1
      <3>2. hit.minCached = GetVersion(item.versions[1])
            /\ hit.maxCached = GetVersion(Newest(item))
        BY DEF MapRequest
      <3> HIDE DEF packet, hit, item
      <3> QED
        BY <1>1, <1>4, <2>1, <3>1, <3>2, RequestHolds
    <2>2. CASE ~Cached(item)
      BY <2>2 DEF IsPin, MapRequest
    <2> QED
      BY <2>1, <2>2
  <1> HIDE DEF packet, hit, miss
  <1>6. \A m \in Nodes : cache'[m].versions = cache[m].versions
    BY <1>0, <1>1, <1>3 DEF NetTypeOK, Pin, CacheItem
  <1>7. In(up'[n]) = In(up[n]) \cup {packet} /\ \A m \in Nodes \ {n} : up'[m] = up[m]
    <2>1. up'[n] = Append(up[n], packet) /\ \A m \in Nodes \ {n} : up'[m] = up[m]
      BY <1>0, <1>1, <1>3 DEF SendUp, NetTypeOK
    <2> QED
      BY <1>1, <1>2, <2>1, InAppend
  <1>8. \A m \in alive : Gapless(cache'[m]) /\ Expected(cache'[m], down[m][MapLink])
    <2> SUFFICES ASSUME NEW m \in alive
                 PROVE  Gapless(cache'[m]) /\ Expected(cache'[m], down[m][MapLink])
      OBVIOUS
    <2>1. cache'[m].versions = cache[m].versions
      BY <1>0, <1>6 DEF NetTypeOK
    <2>2. Gapless(cache[m]) /\ Expected(cache[m], down[m][MapLink])
      BY DEF AnnounceInv
    <2> QED
      BY <2>1, <2>2 DEF Gapless, Expected, Cached, Newest
  <1>9. ASSUME NEW m \in alive, NEW p \in UnderWay(m)', IsPin(m, p)
        PROVE  Holds(p, cache'[m])
    <2>1. m \in Nodes /\ cache'[m].versions = cache[m].versions
      BY <1>0, <1>6 DEF NetTypeOK
    <2>2. Holds(p, cache[m])
      <3>1. CASE p \in UnderWay(m)
        BY <1>9, <3>1 DEF AnnounceInv, Announced
      <3>2. CASE p \notin UnderWay(m)
        <4>1. m = n /\ p = packet
          BY <1>3, <1>7, <1>9, <2>1, <3>2 DEF UnderWay
        <4> QED
          BY <1>5, <1>9, <4>1
      <3> QED
        BY <3>1, <3>2
    <2> QED
      BY <2>1, <2>2 DEF Holds, ReadyIn
  <1>10. \A m \in alive' : Announced(m)'
    BY <1>3, <1>9 DEF Announced
  <1> QED
    BY <1>3, <1>8, <1>10 DEF AnnounceInv, OnMapLink, MapLink

(* The application threads of the instances.                               *)
LEMMA SlaveAnnounce ==
    ASSUME MappingInv, AnnounceInv, NEW i \in Instances, SlaveNext(i)
    PROVE  AnnounceInv'
  <1>0. NetTypeOK /\ InstanceTypeOK
    BY DEF MappingInv
  <1>1. CASE \E requested \in Requests : MapObjectNB(i, requested)
    BY <1>1, MapObjectNBAnnounce
  <1>2. CASE MapObjectSync(i) \/ ApplyMapData(i)
    BY <1>2, AnnounceSame DEF MapObjectSync, ApplyMapData, netVars
  <1>3. CASE UnpackOneVersion(i) \/ UnmapObject(i)
    <2>1. UNCHANGED <<alive, cache, down, cmdQueue>>
      BY <1>3 DEF UnpackOneVersion, UnmapObject
    <2>2. UNCHANGED up \/ \E packet \in UpPacket :
              SendUp(NodeOf[i], packet) /\ packet.type \in {"maxVersion", "unsubscribe"}
      BY <1>0, <1>3, SlaveSends
    <2>3. ASSUME NEW n \in alive, NEW p \in In(up'[n])
          PROVE  p \in In(up[n]) \/ ~IsPin(n, p)
      <3>0. n \in Nodes /\ up[n] \in Seq(UpPacket)
        BY <1>0 DEF NetTypeOK
      <3>1. CASE up'[n] = up[n]
        BY <2>3, <3>1
      <3>2. CASE up'[n] # up[n]
        <4>1. PICK packet \in UpPacket :
                SendUp(NodeOf[i], packet) /\ packet.type \in {"maxVersion", "unsubscribe"}
          BY <2>2, <3>2
        <4>2. up'[n] = Append(up[n], packet)
          BY <1>0, <3>0, <3>2, <4>1 DEF SendUp, NetTypeOK
        <4>3. In(up'[n]) = In(up[n]) \cup {packet}
          BY <3>0, <4>2, InAppend
        <4>4. ~IsPin(n, packet)
          BY <4>1, PlainIsNoPin
        <4> QED
          BY <2>3, <4>3, <4>4
      <3> QED
        BY <3>1, <3>2
    <2>4. \A n \in alive : \A p \in In(up'[n]) \cup In(cmdQueue') :
              p \in UnderWay(n) \/ ~IsPin(n, p)
      BY <2>1, <2>3 DEF UnderWay
    <2> QED
      BY <1>0, <2>1, <2>4, AnnounceSends
  <1> QED
    BY <1>1, <1>2, <1>3 DEF SlaveNext

(* AnnounceInv is inductive relative to MappingInv and PinInv.             *)
LEMMA AnnounceStep ==
    ASSUME MappingInv, PinInv, AnnounceInv, [Next]_vars
    PROVE  AnnounceInv'
  <1>1. CASE NewVersion \/ MasterOnly \/ DeregisterNotify \/ DeregisterDetach
    BY <1>1, CommitAnnounce
  <1>2. ASSUME NEW n \in Nodes, MasterReceive(n) \/ Expire(n) \/ NodeLost(n)
        PROVE  AnnounceInv'
    BY <1>2, MasterReceiveAnnounce, NodeAnnounce
  <1>3. CASE MasterCommand
    BY <1>3, MasterCommandAnnounce
  <1>4. ASSUME NEW n \in Nodes, NEW link \in Links, Receive(n, link)
        PROVE  AnnounceInv'
    BY <1>4, ReceiveAnnounce
  <1>5. ASSUME NEW i \in Instances, SlaveNext(i)
        PROVE  AnnounceInv'
    BY <1>5, SlaveAnnounce
  <1>6. CASE UNCHANGED vars
    BY <1>6, AnnounceSame DEF vars, slaveVars, netVars
  <1> QED
    BY <1>1, <1>2, <1>3, <1>4, <1>5, <1>6 DEF Next

(* Nothing is announced at first.                                          *)
LEMMA AnnounceInit ==
    ASSUME Init
    PROVE  AnnounceInv
  <1>1. MapLink \in Links
    BY DEF MapLink, Links
  <1> QED
    BY <1>1 DEF Init, AnnounceInv, OnMapLink, Whole, Gapless, Expected, Cached, Announced,
                UnderWay, NoItem, In, Links

(* The master leaves out of its reply what the request announced as        *)
(* cached, and rightly so: from the request until its reply is handled it  *)
(* stays in the cache, complete, whatever is received, expires or is       *)
(* unmapped meanwhile (mapObjectNB, _initSlave, _cmdMapObjectReply).  Of   *)
(* an announcement whose newest stream was incomplete this is said of its  *)
(* oldest version.                                                         *)
THEOREM MappingAnnouncedCached == Spec => []AnnouncedStaysCached
  <1>1. Init => PinInv /\ AnnounceInv
    BY PinsInit, AnnounceInit
  <1>2. MappingInv /\ (PinInv /\ AnnounceInv) /\ [Next]_vars => (PinInv /\ AnnounceInv)'
    BY PinsStep, AnnounceStep
  <1>3. PinInv /\ AnnounceInv => AnnouncedStaysCached
    BY AnnouncedIsProperty DEF AnnounceInv
  <1> QED
    BY <1>1, <1>2, <1>3, MappingInvariant, PTL DEF Spec
=============================================================================
