-------------------------- MODULE SlaveQueue_proofs --------------------------
(***************************************************************************)
(* Proofs about what a slave instance applies, when all data comes by one  *)
(* stream (~UseMulticast) and no application maps a version that is not    *)
(* committed yet (~MapFuture).                                             *)
(*                                                                         *)
(* An instance gets its versions from three places: the map data that its  *)
(* answer brings, the cache of its node, and the commits.  Each place by   *)
(* itself is in order; what has to be shown is that the three fit together *)
(* whatever is committed, cached or expired between the request and the    *)
(* reply.  The invariant says, of every instance, what is missing between  *)
(* what it has queued and the head version, and where it will come from.   *)
(*                                                                         *)
(* The last part is about flow control: how far the limit that the master  *)
(* keeps of a slave is from the version the slave shows.                   *)
(***************************************************************************)
EXTENDS InstanceCache_proofs

USE DEF VERSION_NONE

-----------------------------------------------------------------------------
(* Packets under way for an instance.                                      *)

(* A packet that the instance queues, and the ones that begin and end the  *)
(* time in which it does.                                                  *)
Carries(p, i) ==
    i \in p.insts /\ (p.type \in {"commit", "empty"} \/ (p.type = "map" /\ p.last))
Begins(p, i) == i \in p.insts /\ p.type = "success"
Answers(p, i) == i \in p.insts /\ p.type \in {"reply", "failed"}
Ends(p, i) == i \in p.insts /\ p.type = "detach"

(* A request of the instance, or the answer to one.                        *)
IsToken(p, i) ==
    i \in p.insts /\ p.type \in {"mapObject", "unsubscribe", "reply", "failed", "detach"}

Has(q, i) == \E k \in 1..Len(q) : IsToken(q[k], i)
AtMostOne(q, i) ==
    \A j, k \in 1..Len(q) : IsToken(q[j], i) /\ IsToken(q[k], i) => j = k

(* What the application of the instance waits for: an answer, and a reply  *)
(* follows every success.                                                  *)
Awaited(q, i, st, att) ==
    \A k \in 1..Len(q) : IsToken(q[k], i) =>
        /\ q[k].type \in {"mapObject", "reply", "failed"} => st = "mapping"
        /\ q[k].type \in {"unsubscribe", "detach"} => st = "unmapping"
        /\ q[k].type \in {"mapObject", "failed"} => ~att
        /\ q[k].type = "failed" => ~q[k].useCache

Replied(q, i) ==
    \A k \in 1..Len(q) : Begins(q[k], i) =>
        \E r \in k + 1..Len(q) : Answers(q[r], i) /\ q[r].type = "reply"

(* The instance has at most one request under way.                         *)
Tokens(i, u, c, d, st, att) ==
    /\ AtMostOne(u, i) /\ AtMostOne(c, i) /\ AtMostOne(d, i)
    /\ ~(Has(u, i) /\ Has(c, i)) /\ ~(Has(u, i) /\ Has(d, i)) /\ ~(Has(c, i) /\ Has(d, i))
    /\ Awaited(u, i, st, att) /\ Awaited(c, i, st, att) /\ Awaited(d, i, st, att)
    /\ Replied(d, i)

-----------------------------------------------------------------------------
(* The data between two positions of a stream.                             *)

(* It continues version lo, one version at a time.                         *)
Open(q, i, k) == \A j \in 1..k - 1 : ~Ends(q[j], i)

Chain(q, i, from, to, lo) ==
    \A k \in from + 1..to : Carries(q[k], i) /\ Open(q, i, k) =>
        /\ q[k].version > lo
        /\ \A j \in from + 1..k - 1 : Carries(q[j], i) => q[j].version < q[k].version
        /\ \/ q[k].version = lo + 1
           \/ \E j \in from + 1..k - 1 : Carries(q[j], i) /\ q[j].version + 1 = q[k].version

(* It gets to version hi.                                                  *)
Covers(q, i, from, to, lo, hi) ==
    /\ lo =< hi
    /\ \A k \in from + 1..to : Carries(q[k], i) => q[k].version =< hi
    /\ hi = lo \/ \E k \in from + 1..to : Carries(q[k], i) /\ q[k].version = hi

(* A queue that ends with version lo; the first version of such a queue    *)
(* and of what will follow it.                                             *)
EndsWith(qu, lo) == qu # <<>> => lo = qu[Len(qu)].version
First(qu, lo) == IF qu # <<>> THEN qu[1].version ELSE lo + 1

NotAfter(item, v) == \A k \in 1..Len(item.versions) : item.versions[k].version =< v
Ready(item, from, to) == \A v \in from..to : ReadyIn(item, v)

(* Map data a..b and what the cache adds to it lead from the mapped        *)
(* version to v, the head version when the reply was sent.                 *)
Glued(reply, a, b, v, item) ==
    IF ~reply.useCache THEN a =< b => b = v
    ELSE IF a =< b
    THEN reply.version =< a /\ Ready(item, reply.version, a - 1) /\ Ready(item, b + 1, v)
    ELSE reply.version >= v \/ Ready(item, reply.version, v)

IsData(p) == p.type \in {"commit", "empty", "map"}

(* The answer begins at position start of the stream d, or has begun, and  *)
(* its reply is at position r.                                             *)
Batch(i, d, start, r, att) ==
    /\ IF start = 0 THEN att ELSE ~att /\ Begins(d[start], i)
    /\ \A k \in 1..start - 1 : ~Begins(d[k], i)
    /\ \A k \in start + 1..r - 1 : i \in d[k].insts /\ d[k].type \in {"map", "empty"}

(* What the instance has of it so far, and the map data to come.           *)
Held(start, qu) == IF start = 0 THEN qu ELSE <<>>

Brings(i, d, start, r, q, lo, hi) ==
    EndsWith(q, lo) /\ Chain(d, i, start, r - 1, lo) /\ Covers(d, i, start, r - 1, lo, hi)

(* With the cache, the map data a..hi leads from the mapped version to v.  *)
LeadsTo(reply, a, hi, v, item) ==
    /\ hi =< v /\ reply.version \in 1..v
    /\ a =< hi => reply.version =< a
    /\ NotAfter(item, v)
    /\ Glued(reply, a, hi, v, item)

(* What is received before the reply is not newer than v.                  *)
Older(d, r, v) == \A k \in 1..r - 1 : IsData(d[k]) => d[k].version =< v

(* Commits continue version v, up to the head version for an instance that *)
(* the master knows.                                                       *)
Trails(i, d, from, v, head, member) ==
    /\ v =< head
    /\ Chain(d, i, from, Len(d), v)
    /\ member => Covers(d, i, from, Len(d), v, head)

Answered(i, d, r, att, qu, item, head, member) ==
    \E start \in 0..r - 1 : \E lo, hi, v \in Version :
        /\ Batch(i, d, start, r, att)
        /\ Brings(i, d, start, r, Held(start, qu), lo, hi)
        /\ LeadsTo(d[r], First(Held(start, qu), lo), hi, v, item)
        /\ Older(d, r, v)
        /\ Trails(i, d, r, v, head, member)

(* The instance is attached and has its answer.                            *)
Following(i, d, st, qu, sv, mt, head, member) ==
    \E lo \in Version :
        /\ st # "mapping"
        /\ EndsWith(qu, lo)
        /\ qu = <<>> /\ st \in {"mapped", "unmapping"} => lo = sv
        /\ st \in {"replied", "applying"} => mt \in 1..lo
        /\ Trails(i, d, 0, lo, head, member)

(* Consecutive versions.                                                   *)
InRow(qu) == \A k \in 1..Len(qu) : qu[k].version = qu[1].version + k - 1

(* What an instance has queued, and the content that it has.               *)
QueueFits(st, att, qu, sv, co, mt, head) ==
    /\ \A k \in 1..Len(qu) : qu[k].version =< head
    /\ InRow(qu)
    /\ st \in {"unmapped", "mapping"} /\ ~att => qu = <<>>
    /\ st = "mapping" => \A k \in 1..Len(qu) : ~qu[k].delta
    /\ st \in {"replied", "applying"} =>
          \A k \in 1..Len(qu) :
              mt \in 1..qu[k].version /\ (qu[k].delta => mt < qu[k].version)
    /\ st \in {"mapped", "unmapping"} =>
          /\ co = sv /\ sv \in 1..head
          /\ qu # <<>> => qu[1].version = sv + 1

(* All of it for one instance.                                             *)
Stage(i, d, st, att, qu, sv, mt, item, head, member) ==
    /\ \A r \in 1..Len(d) : Answers(d[r], i) /\ d[r].type = "reply" =>
          Answered(i, d, r, att, qu, item, head, member)
    /\ att /\ (\A r \in 1..Len(d) : ~Answers(d[r], i)) =>
          Following(i, d, st, qu, sv, mt, head, member)

-----------------------------------------------------------------------------
(* The invariant.                                                          *)

OneStream ==
    \A n \in Nodes :
        /\ down[n]["multicast"] = <<>>
        /\ n \notin alive => down[n]["unicast"] = <<>>

(* Nodes speak for their own instances, and requests are for versions      *)
(* there are; the versions of a buffered object are complete in the cache. *)
Requested(p) ==
    p.type = "mapObject" =>
        p.version =< version /\ (Buffered => p.maxCached # VERSION_INVALID)

OwnPackets ==
    /\ \A n \in Nodes : \A p \in In(up[n]) :
          /\ Requested(p)
          /\ p.insts \subseteq On(n)
          /\ p.type = "removeNode" => n \notin alive
    /\ \A p \in In(cmdQueue) :
          /\ Requested(p)
          /\ p.type = "removeNode" => \A i \in p.insts : NodeOf[i] \notin alive

(* No data is newer than the head version.                                 *)
NoneNewer ==
    \A n \in Nodes :
        /\ \A p \in In(down[n]["unicast"]) : IsData(p) => p.version =< version
        /\ NotAfter(cache[n], version)

(* The master knows an instance that follows it.                           *)
Knows(i, d, att, slave) ==
    \/ slave
    \/ /\ \A k \in 1..Len(d) : ~(Answers(d[k], i) /\ d[k].type = "reply")
       /\ att => \E k \in 1..Len(d) : Ends(d[k], i)

Live(i) == NodeOf[i] \in alive
DownTo(i) == down[NodeOf[i]]["unicast"]

(* An instance that is not mapped, or on a lost node, is not attached; its *)
(* queue; its requests; and, with them, where its data will come from.     *)
RestsInv(i) ==
    /\ ~Live(i) \/ state[i] = "unmapped" => i \notin attached
    /\ ~Live(i) => state[i] = "unmapped"

FitsInv(i) ==
    QueueFits(state[i], i \in attached, queue[i], slaveVersion[i], content[i], mapTo[i],
              version)

TokenInv(i) ==
    Live(i) => Tokens(i, up[NodeOf[i]], cmdQueue, DownTo(i), state[i], i \in attached)

KnownInv(i) ==
    Live(i) => master = "gone" \/ Knows(i, DownTo(i), i \in attached, i \in slaves)

StageInv(i) ==
    Live(i) => Stage(i, DownTo(i), state[i], i \in attached, queue[i], slaveVersion[i],
                     mapTo[i], cache[NodeOf[i]], version, i \in slaves /\ master # "gone")

InstanceInv(i) == RestsInv(i) /\ FitsInv(i) /\ TokenInv(i) /\ KnownInv(i) /\ StageInv(i)

QueueInv ==
    /\ OneStream /\ OwnPackets /\ NoneNewer
    /\ \A i \in Instances : InstanceInv(i)
-----------------------------------------------------------------------------
(* Lemmas about streams.                                                   *)

(* The fields of a packet to a node.                                       *)
LEMMA DownFields ==
    ASSUME NEW p \in DownPacket
    PROVE  /\ p.version \in Int
           /\ IsData(p) => p.version \in Version /\ p.version \in Nat
           /\ p.type \in {"reply", "failed"} => p \in ReplyPacket
           /\ p.type \in {"map", "reply", "failed"} => p.insts \in Single
           /\ p.insts \subseteq Instances
  <1>1. Version \subseteq Nat
    BY MappingAssumption DEF Version
  <1>2. CASE p \in PlainPacket
    <2>1. /\ p.type \in {"success", "empty", "commit", "detach", "unmap"}
          /\ p.insts \in SUBSET Instances /\ p.version \in Version
      BY <1>2 DEF PlainPacket
    <2>2. p.version \in Nat /\ p.version \in Int
      <3> DEFINE v == p.version
      <3>1. v \in Version
        BY ONLY <2>1 DEF v
      <3> HIDE DEF v
      <3>2. v \in Nat /\ v \in Int
        BY ONLY <1>1, <3>1
      <3> QED
        BY ONLY <3>2 DEF v
    <2>3. p.type \notin {"map", "reply", "failed"}
      BY <2>1
    <2> QED
      BY <2>1, <2>2, <2>3
  <1>3. CASE p \in DataPacket
    BY <1>1, <1>3 DEF DataPacket, Single
  <1>4. CASE p \in ReplyPacket
    BY <1>4 DEF ReplyPacket, IsData, Single
  <1> QED
    BY <1>2, <1>3, <1>4 DEF DownPacket

(* The positions of a stream to a node hold packets to a node.             *)
LEMMA StreamElements ==
    ASSUME NEW S, NEW q \in Seq(S)
    PROVE  Len(q) \in Nat /\ \A k \in 1..Len(q) : q[k] \in S
  OBVIOUS

(* Packets are sent: those before them stay where they are.                *)
LEMMA Grows ==
    ASSUME NEW S, NEW q \in Seq(S), NEW r \in Seq(S), NEW t, t = q \o r
    PROVE  /\ t \in Seq(S)
           /\ Len(t) = Len(q) + Len(r)
           /\ Len(q) \in Nat /\ Len(r) \in Nat
           /\ \A k \in 1..Len(q) : t[k] = q[k]
           /\ \A k \in 1..Len(r) : t[Len(q) + k] = r[k]
           /\ \A k \in Len(q) + 1..Len(t) : k - Len(q) \in 1..Len(r) /\ t[k] = r[k - Len(q)]
  <1>1. /\ t \in Seq(S)
        /\ Len(t) = Len(q) + Len(r)
        /\ Len(q) \in Nat /\ Len(r) \in Nat
        /\ \A k \in 1..Len(q) : t[k] = q[k]
        /\ \A k \in 1..Len(r) : t[Len(q) + k] = r[k]
    BY ConcatProperties, LenProperties
  <1>2. ASSUME NEW k \in Len(q) + 1..Len(t)
        PROVE  k - Len(q) \in 1..Len(r) /\ t[k] = r[k - Len(q)]
    <2>1. k - Len(q) \in 1..Len(r) /\ Len(q) + (k - Len(q)) = k
      BY <1>1
    <2> QED
      BY <1>1, <2>1
  <1> QED
    BY <1>1, <1>2

(* What is between two positions of a stream does not depend on what is    *)
(* sent later.                                                             *)
LEMMA SameBefore ==
    ASSUME NEW q, NEW t, NEW i, NEW from \in Nat, NEW to \in Nat, NEW lo, NEW hi,
           \A k \in 1..to : t[k] = q[k]
    PROVE  /\ Chain(q, i, from, to, lo) => Chain(t, i, from, to, lo)
           /\ Covers(q, i, from, to, lo, hi) => Covers(t, i, from, to, lo, hi)
  <1>1. \A k \in from + 1..to : Open(t, i, k) => Open(q, i, k)
    BY DEF Open
  <1>2. \A k \in from + 1..to : k \in 1..to
    OBVIOUS
  <1>3. \A k \in from + 1..to : \A j \in from + 1..k - 1 : j \in 1..to
    OBVIOUS
  <1>4. Chain(q, i, from, to, lo) => Chain(t, i, from, to, lo)
    BY <1>1, <1>2, <1>3 DEF Chain
  <1>5. Covers(q, i, from, to, lo, hi) => Covers(t, i, from, to, lo, hi)
    BY <1>2 DEF Covers
  <1> QED
    BY <1>4, <1>5

(* More packets that do not carry data for the instance.                   *)
LEMMA GrowsQuietly ==
    ASSUME NEW q \in Seq(DownPacket), NEW r \in Seq(DownPacket), NEW t, t = q \o r,
           NEW i, NEW from \in Nat, NEW lo, NEW hi,
           \A k \in 1..Len(r) : ~Carries(r[k], i)
    PROVE  /\ Chain(q, i, from, Len(q), lo) => Chain(t, i, from, Len(t), lo)
           /\ Covers(q, i, from, Len(q), lo, hi) => Covers(t, i, from, Len(t), lo, hi)
  <1>1. /\ Len(q) \in Nat /\ Len(t) \in Nat /\ Len(q) =< Len(t)
        /\ \A k \in 1..Len(q) : t[k] = q[k]
        /\ \A k \in Len(q) + 1..Len(t) : ~Carries(t[k], i)
    BY Grows
  <1>2. /\ Chain(q, i, from, Len(q), lo) => Chain(t, i, from, Len(q), lo)
        /\ Covers(q, i, from, Len(q), lo, hi) => Covers(t, i, from, Len(q), lo, hi)
    BY <1>1, SameBefore
  <1>3. \A k \in from + 1..Len(t) : Carries(t[k], i) => k \in from + 1..Len(q)
    BY <1>1
  <1>4. \A k \in from + 1..Len(q) : k \in from + 1..Len(t)
    BY <1>1
  <1>5. Chain(t, i, from, Len(q), lo) => Chain(t, i, from, Len(t), lo)
    BY <1>3 DEF Chain
  <1>6. Covers(t, i, from, Len(q), lo, hi) => Covers(t, i, from, Len(t), lo, hi)
    BY <1>3, <1>4 DEF Covers
  <1> QED
    BY <1>2, <1>5, <1>6

(* Data that gets to the head version, and the next version.               *)
LEMMA ChainExtends ==
    ASSUME NEW t, NEW i, NEW from \in Nat, NEW N \in Nat, from =< N, NEW lo \in Int,
           NEW head \in Int, \A k \in from + 1..N : t[k].version \in Int,
           Carries(t[N + 1], i), t[N + 1].version = head + 1,
           Chain(t, i, from, N, lo), Covers(t, i, from, N, lo, head)
    PROVE  Chain(t, i, from, N + 1, lo) /\ Covers(t, i, from, N + 1, lo, head + 1)
  <1>1. /\ \A k \in from + 1..N + 1 : k \in from + 1..N \/ k = N + 1
        /\ \A k \in from + 1..N : k \in from + 1..N + 1
        /\ N + 1 \in from + 1..N + 1 /\ (N + 1) - 1 = N
    OBVIOUS
  <1>2. \A k \in from + 1..N : Carries(t[k], i) => t[k].version =< head
    BY DEF Covers
  <1>3. lo =< head /\ (head = lo \/ \E k \in from + 1..N : Carries(t[k], i) /\ t[k].version = head)
    BY DEF Covers
  <1>4. \A k \in from + 1..N : Carries(t[k], i) =>
           t[k].version =< head + 1 /\ t[k].version < t[N + 1].version
    BY <1>2
  <1>5. Covers(t, i, from, N + 1, lo, head + 1)
    <2>1. lo =< head + 1
      BY <1>3
    <2>2. \A k \in from + 1..N + 1 : Carries(t[k], i) => t[k].version =< head + 1
      BY <1>1, <1>4
    <2> QED
      BY <1>1, <2>1, <2>2 DEF Covers
  <1>6. Chain(t, i, from, N + 1, lo)
    <2>1. t[N + 1].version > lo
      BY <1>3
    <2>2. \/ t[N + 1].version = lo + 1
          \/ \E j \in from + 1..N : Carries(t[j], i) /\ t[j].version + 1 = t[N + 1].version
      BY <1>3
    <2> SUFFICES ASSUME NEW k \in from + 1..N + 1, Carries(t[k], i), Open(t, i, k)
                 PROVE  /\ t[k].version > lo
                        /\ \A j \in from + 1..k - 1 : Carries(t[j], i) => t[j].version < t[k].version
                        /\ \/ t[k].version = lo + 1
                           \/ \E j \in from + 1..k - 1 :
                                 Carries(t[j], i) /\ t[j].version + 1 = t[k].version
      BY DEF Chain
    <2>3. CASE k = N + 1
      BY <1>1, <1>4, <2>1, <2>2, <2>3
    <2>4. CASE k \in from + 1..N
      BY <2>4 DEF Chain
    <2> QED
      BY <1>1, <2>3, <2>4
  <1> QED
    BY <1>5, <1>6

(* A commit is sent to an instance that has everything before it.          *)
LEMMA GrowsByCommit ==
    ASSUME NEW q \in Seq(DownPacket), NEW p \in DownPacket, NEW t, t = q \o <<p>>,
           NEW i, NEW from \in Nat, from =< Len(q), NEW lo \in Int, NEW head \in Int,
           Carries(p, i), p.version = head + 1,
           Chain(q, i, from, Len(q), lo), Covers(q, i, from, Len(q), lo, head)
    PROVE  Chain(t, i, from, Len(t), lo) /\ Covers(t, i, from, Len(t), lo, head + 1)
  <1> DEFINE N == Len(q)
  <1>1. /\ N \in Nat /\ Len(t) = N + 1
        /\ \A k \in 1..N : t[k] = q[k]
        /\ t[N + 1] = p
        /\ \A k \in 1..N : q[k] \in DownPacket /\ q[k].version \in Int
    BY Grows, StreamElements, DownFields
  <1>2. Chain(t, i, from, N, lo) /\ Covers(t, i, from, N, lo, head)
    BY <1>1, SameBefore
  <1>3. from =< N /\ \A k \in from + 1..N : t[k].version \in Int
    BY <1>1
  <1> HIDE DEF N
  <1> QED
    BY <1>1, <1>2, <1>3, ChainExtends

(* What comes behind the end of the instance's data does not count.        *)
LEMMA GrowsBehindEnd ==
    ASSUME NEW q \in Seq(DownPacket), NEW r \in Seq(DownPacket), NEW t, t = q \o r,
           NEW i, NEW from \in Nat, from =< Len(q), NEW lo,
           \E k \in 1..Len(q) : Ends(q[k], i),
           Chain(q, i, from, Len(q), lo)
    PROVE  Chain(t, i, from, Len(t), lo)
  <1> DEFINE N == Len(q)
  <1>1. /\ N \in Nat /\ Len(t) \in Nat /\ N =< Len(t)
        /\ \A k \in 1..N : t[k] = q[k]
    BY Grows
  <1>2. Chain(t, i, from, N, lo)
    BY <1>1, SameBefore
  <1>3. PICK e \in 1..N : Ends(t[e], i)
    BY <1>1
  <1>4. \A k \in from + 1..Len(t) : Open(t, i, k) => k \in from + 1..N
    <2> SUFFICES ASSUME NEW k \in from + 1..Len(t), k > N
                 PROVE  ~Open(t, i, k)
      BY <1>1
    <2>1. e \in 1..k - 1
      BY <1>1
    <2> QED
      BY <1>3, <2>1 DEF Open
  <1> HIDE DEF N
  <1> QED
    BY <1>2, <1>4 DEF Chain

(* The first packet of a stream is received.                               *)
LEMMA Shrinks ==
    ASSUME NEW q \in Seq(DownPacket), q # <<>>, NEW t, t = Tail(q)
    PROVE  /\ t \in Seq(DownPacket)
           /\ Len(q) \in Nat \ {0} /\ Len(t) = Len(q) - 1 /\ Len(t) \in Nat
           /\ \A k \in 1..Len(t) : t[k] = q[k + 1] /\ k + 1 \in 2..Len(q)
           /\ \A k \in 2..Len(q) : t[k - 1] = q[k] /\ k - 1 \in 1..Len(t)
           /\ Head(q) = q[1] /\ q[1] \in DownPacket
           /\ \A k \in 1..Len(q) : q[k].version \in Int
  <1>1. /\ t \in Seq(DownPacket)
        /\ Len(q) \in Nat \ {0} /\ Len(t) = Len(q) - 1 /\ Len(t) \in Nat
        /\ \A k \in 1..Len(q) - 1 : t[k] = q[k + 1]
        /\ Head(q) = q[1] /\ 1 \in 1..Len(q)
    BY RestOfStream
  <1>2. \A k \in 1..Len(q) : q[k] \in DownPacket /\ q[k].version \in Int
    BY StreamElements, DownFields
  <1>3. ASSUME NEW k \in 2..Len(q)
        PROVE  t[k - 1] = q[k] /\ k - 1 \in 1..Len(t)
    <2>1. k - 1 \in 1..Len(q) - 1 /\ (k - 1) + 1 = k
      BY <1>1
    <2> QED
      BY <1>1, <2>1
  <1> QED
    BY <1>1, <1>2, <1>3

(* Data behind the first packet.                                           *)
LEMMA ShrinksBefore ==
    ASSUME NEW q \in Seq(DownPacket), q # <<>>, NEW t, t = Tail(q),
           NEW i, NEW f \in Nat, NEW to \in Int, to =< Len(q), NEW lo, NEW hi,
           ~Ends(q[1], i)
    PROVE  /\ Chain(q, i, f + 1, to, lo) => Chain(t, i, f, to - 1, lo)
           /\ Covers(q, i, f + 1, to, lo, hi) => Covers(t, i, f, to - 1, lo, hi)
  <1>1. /\ \A k \in 1..Len(t) : t[k] = q[k + 1]
        /\ Len(t) = Len(q) - 1 /\ Len(q) \in Nat
    BY Shrinks
  <1>2. \A k \in f + 1..to - 1 : k \in 1..Len(t) /\ k + 1 \in (f + 1) + 1..to /\ t[k] = q[k + 1]
    BY <1>1
  <1>3. \A k \in (f + 1) + 1..to : k - 1 \in f + 1..to - 1 /\ t[k - 1] = q[k]
    <2> SUFFICES ASSUME NEW k \in (f + 1) + 1..to
                 PROVE  k - 1 \in f + 1..to - 1 /\ t[k - 1] = q[k]
      OBVIOUS
    <2>1. k - 1 \in f + 1..to - 1 /\ (k - 1) + 1 = k
      OBVIOUS
    <2> QED
      BY <1>2, <2>1
  <1>4. ASSUME NEW k \in f + 1..to - 1, Open(t, i, k)
        PROVE  Open(q, i, k + 1)
    <2> SUFFICES ASSUME NEW j \in 1..(k + 1) - 1
                 PROVE  ~Ends(q[j], i)
      BY DEF Open
    <2>1. CASE j = 1
      BY <2>1
    <2>2. CASE j # 1
      <3>1. j - 1 \in 1..k - 1 /\ j - 1 \in 1..Len(t) /\ (j - 1) + 1 = j
        BY <1>1, <2>2
      <3>2. ~Ends(t[j - 1], i)
        BY <1>4, <3>1 DEF Open
      <3> QED
        BY <1>1, <3>1, <3>2
    <2> QED
      BY <2>1, <2>2
  <1>5. ASSUME Chain(q, i, f + 1, to, lo)
        PROVE  Chain(t, i, f, to - 1, lo)
    <2> SUFFICES ASSUME NEW k \in f + 1..to - 1, Carries(t[k], i), Open(t, i, k)
                 PROVE  /\ t[k].version > lo
                        /\ \A j \in f + 1..k - 1 : Carries(t[j], i) => t[j].version < t[k].version
                        /\ \/ t[k].version = lo + 1
                           \/ \E j \in f + 1..k - 1 :
                                 Carries(t[j], i) /\ t[j].version + 1 = t[k].version
      BY DEF Chain
    <2>1. k + 1 \in (f + 1) + 1..to /\ t[k] = q[k + 1] /\ Open(q, i, k + 1)
      BY <1>2, <1>4
    <2>2. /\ q[k + 1].version > lo
          /\ \A j \in (f + 1) + 1..(k + 1) - 1 : Carries(q[j], i) => q[j].version < q[k + 1].version
          /\ \/ q[k + 1].version = lo + 1
             \/ \E j \in (f + 1) + 1..(k + 1) - 1 :
                   Carries(q[j], i) /\ q[j].version + 1 = q[k + 1].version
      BY <1>5, <2>1 DEF Chain
    <2>3. \A j \in f + 1..k - 1 : j + 1 \in (f + 1) + 1..(k + 1) - 1 /\ t[j] = q[j + 1]
      BY <1>2
    <2>4. \A j \in (f + 1) + 1..(k + 1) - 1 : j - 1 \in f + 1..k - 1 /\ t[j - 1] = q[j]
      BY <1>3
    <2> QED
      BY <2>1, <2>2, <2>3, <2>4
  <1>6. ASSUME Covers(q, i, f + 1, to, lo, hi)
        PROVE  Covers(t, i, f, to - 1, lo, hi)
    BY <1>2, <1>3, <1>6 DEF Covers
  <1> QED
    BY <1>5, <1>6

(* The first packet is not for the instance, or it is the next version.    *)
LEMMA SkipsFirst ==
    ASSUME NEW q, NEW i, NEW to \in Int, NEW lo \in Int, NEW hi \in Int,
           \A k \in 1..to : q[k].version \in Int, to > 0,
           Chain(q, i, 0, to, lo)
    PROVE  /\ ~Carries(q[1], i) =>
                 /\ Chain(q, i, 1, to, lo)
                 /\ Covers(q, i, 0, to, lo, hi) => Covers(q, i, 1, to, lo, hi)
           /\ Carries(q[1], i) =>
                 /\ q[1].version = lo + 1
                 /\ Chain(q, i, 1, to, lo + 1)
                 /\ Covers(q, i, 0, to, lo, hi) => Covers(q, i, 1, to, lo + 1, hi)
  <1>1. /\ 1 \in 0 + 1..to /\ 0 + 1..1 - 1 = {}
        /\ \A k \in 1 + 1..to : k \in 0 + 1..to /\ k \in 1..to /\ 1 \in 0 + 1..k - 1
        /\ \A k \in 1 + 1..to : \A j \in 1 + 1..k - 1 : j \in 0 + 1..k - 1
        /\ \A k \in 1 + 1..to : \A j \in 0 + 1..k - 1 : j = 1 \/ j \in 1 + 1..k - 1
        /\ \A k \in 0 + 1..to : k = 1 \/ k \in 1 + 1..to
    OBVIOUS
  <1>2. ASSUME NEW k \in 1 + 1..to, Carries(q[k], i), Open(q, i, k)
        PROVE  /\ q[k].version > lo
               /\ \A j \in 0 + 1..k - 1 : Carries(q[j], i) => q[j].version < q[k].version
               /\ \/ q[k].version = lo + 1
                  \/ \E j \in 0 + 1..k - 1 : Carries(q[j], i) /\ q[j].version + 1 = q[k].version
    BY <1>1, <1>2 DEF Chain
  <1>3. ASSUME ~Carries(q[1], i)
        PROVE  /\ Chain(q, i, 1, to, lo)
               /\ Covers(q, i, 0, to, lo, hi) => Covers(q, i, 1, to, lo, hi)
    <2>1. Chain(q, i, 1, to, lo)
      <3> SUFFICES ASSUME NEW k \in 1 + 1..to, Carries(q[k], i), Open(q, i, k)
                   PROVE  /\ q[k].version > lo
                          /\ \A j \in 1 + 1..k - 1 : Carries(q[j], i) => q[j].version < q[k].version
                          /\ \/ q[k].version = lo + 1
                             \/ \E j \in 1 + 1..k - 1 :
                                   Carries(q[j], i) /\ q[j].version + 1 = q[k].version
        BY DEF Chain
      <3> QED
        BY <1>1, <1>2, <1>3
    <2>2. Covers(q, i, 0, to, lo, hi) => Covers(q, i, 1, to, lo, hi)
      BY <1>1, <1>3 DEF Covers
    <2> QED
      BY <2>1, <2>2
  <1>4. ASSUME Carries(q[1], i)
        PROVE  /\ q[1].version = lo + 1
               /\ Chain(q, i, 1, to, lo + 1)
               /\ Covers(q, i, 0, to, lo, hi) => Covers(q, i, 1, to, lo + 1, hi)
    <2>1. Open(q, i, 1)
      BY DEF Open
    <2>2. q[1].version = lo + 1
      BY <1>1, <1>4, <2>1 DEF Chain
    <2>3. Chain(q, i, 1, to, lo + 1)
      <3> SUFFICES ASSUME NEW k \in 1 + 1..to, Carries(q[k], i), Open(q, i, k)
                   PROVE  /\ q[k].version > lo + 1
                          /\ \A j \in 1 + 1..k - 1 : Carries(q[j], i) => q[j].version < q[k].version
                          /\ \/ q[k].version = (lo + 1) + 1
                             \/ \E j \in 1 + 1..k - 1 :
                                   Carries(q[j], i) /\ q[j].version + 1 = q[k].version
        BY DEF Chain
      <3>1. q[k].version > lo + 1 /\ q[k].version \in Int
        BY <1>1, <1>2, <1>4, <2>2
      <3>2. q[k].version # lo + 1
        BY <3>1
      <3>3. PICK j \in 0 + 1..k - 1 : Carries(q[j], i) /\ q[j].version + 1 = q[k].version
        BY <1>2, <3>2
      <3>4. q[k].version = (lo + 1) + 1 \/ j \in 1 + 1..k - 1
        BY <1>1, <2>2, <3>3
      <3> QED
        BY <1>1, <1>2, <3>1, <3>3, <3>4
    <2>4. ASSUME Covers(q, i, 0, to, lo, hi)
          PROVE  Covers(q, i, 1, to, lo + 1, hi)
      <3>1. \A k \in 0 + 1..to : Carries(q[k], i) => q[k].version =< hi
        BY <2>4 DEF Covers
      <3>2. lo + 1 =< hi
        BY <1>1, <1>4, <2>2, <3>1
      <3>3. PICK k \in 0 + 1..to : Carries(q[k], i) /\ q[k].version = hi
        BY <2>4, <3>2 DEF Covers
      <3>4. hi = lo + 1 \/ k \in 1 + 1..to
        BY <1>1, <2>2, <3>3
      <3> QED
        BY <1>1, <3>1, <3>2, <3>3, <3>4 DEF Covers
    <2> QED
      BY <2>2, <2>3, <2>4
  <1> QED
    BY <1>3, <1>4

(* The first packet is received, with the data up to some position.        *)
LEMMA ShrinksFromStart ==
    ASSUME NEW q \in Seq(DownPacket), q # <<>>, NEW t, t = Tail(q), NEW i,
           NEW to \in Int, 0 < to, to =< Len(q), NEW lo \in Int, NEW hi \in Int,
           ~Ends(q[1], i), Chain(q, i, 0, to, lo)
    PROVE  /\ ~Carries(q[1], i) =>
                 /\ Chain(t, i, 0, to - 1, lo)
                 /\ Covers(q, i, 0, to, lo, hi) => Covers(t, i, 0, to - 1, lo, hi)
           /\ Carries(q[1], i) =>
                 /\ q[1].version = lo + 1
                 /\ Chain(t, i, 0, to - 1, lo + 1)
                 /\ Covers(q, i, 0, to, lo, hi) => Covers(t, i, 0, to - 1, lo + 1, hi)
  <1>1. \A k \in 1..to : q[k].version \in Int
    BY Shrinks
  <1>2. /\ ~Carries(q[1], i) =>
              /\ Chain(q, i, 1, to, lo)
              /\ Covers(q, i, 0, to, lo, hi) => Covers(q, i, 1, to, lo, hi)
        /\ Carries(q[1], i) =>
              /\ q[1].version = lo + 1
              /\ Chain(q, i, 1, to, lo + 1)
              /\ Covers(q, i, 0, to, lo, hi) => Covers(q, i, 1, to, lo + 1, hi)
    BY <1>1, SkipsFirst
  <1>3. \A x : /\ Chain(q, i, 0 + 1, to, x) => Chain(t, i, 0, to - 1, x)
               /\ Covers(q, i, 0 + 1, to, x, hi) => Covers(t, i, 0, to - 1, x, hi)
    BY ShrinksBefore
  <1>4. 0 + 1 = 1
    OBVIOUS
  <1> QED
    BY <1>2, <1>3, <1>4

-----------------------------------------------------------------------------
(* What the cache adds to a queue.                                         *)

Within(s, from, to) == \A k \in 1..Len(s) : s[k].version \in from..to
Contains(s, v) == \E k \in 1..Len(s) : s[k].version = v

(* The complete streams of a range are consecutive, and all that there are.*)
LEMMA CompleteInRow ==
    ASSUME NEW item \in CacheItem, Gapless(item), NEW from \in Int, NEW to \in Int,
           NEW s, s = CompleteStreams(item, from, to)
    PROVE  /\ s \in Seq(CacheStream) /\ InRow(s) /\ Within(s, from, to)
           /\ \A v \in from..to : ReadyIn(item, v) => Contains(s, v)
  <1> USE DEF Within, Contains
  <1> DEFINE streams == item.versions
             N == Len(streams)
             before == streams[1].version - 1
             complete == IF Newest(item).ready THEN N ELSE N - 1
             first == IF from > before THEN from - before ELSE 1
             last == IF to < before + complete THEN to - before ELSE complete
  <1>1. CASE Cached(item)
    <2>1. N \in Nat \ {0} /\ 1 \in 1..N
      BY <1>1, ItemFields
    <2>2. before \in Int
      BY <2>1, ItemFields, MappingAssumption DEF Version
    <2>3. /\ streams \in Seq(CacheStream)
          /\ \A k \in 1..N : streams[k].version = before + k
      <3>1. \A k \in 1..N : streams[k].version = streams[1].version + k - 1
        BY DEF Gapless
      <3>2. streams[1].version \in Int
        BY <2>1, ItemFields, MappingAssumption DEF Version
      <3> QED
        BY SMTT(40), <2>1, <3>1, <3>2, ItemFields
    <2>4. /\ complete \in {N, N - 1}
          /\ \A k \in 1..N : streams[k].ready => k =< complete
      <3>1. ASSUME NEW k \in 1..N, streams[k].ready
            PROVE  k =< complete
        <4>1. CASE Newest(item).ready
          BY <2>1, <4>1
        <4>2. CASE ~Newest(item).ready
          <5>1. k # N
            BY <3>1, <4>2 DEF Newest
          <5> QED
            BY <2>1, <4>2, <5>1
        <4> QED
          BY <4>1, <4>2
      <3> QED
        BY <3>1
    <2> HIDE DEF complete, before
    <2>5. /\ first \in Int /\ last \in Int /\ first >= 1 /\ last =< N
          /\ before + first >= from /\ before + last =< to
          /\ last =< complete
      BY SMTT(40), <2>1, <2>2, <2>4
    <2>6. ASSUME NEW v \in from..to, v - before \in 1..complete
          PROVE  v - before \in first..last
      <3>1. first =< v - before
        BY <2>2, <2>6
      <3>2. complete \in Int
        BY <2>1, <2>4
      <3>3. v - before =< last
        BY <2>2, <2>6, <3>2
      <3> QED
        BY <2>5, <2>6, <3>1, <3>3
    <2> HIDE DEF first, last
    <2>7. s = SubSeq(streams, first, last)
      BY <1>1 DEF CompleteStreams, first, last, complete, before
    <2>8. \A k \in first..last : streams[k] \in CacheStream /\ k \in 1..N
      BY <2>1, <2>5, ItemFields
    <2>9. /\ s \in Seq(CacheStream)
          /\ Len(s) = IF first =< last THEN last - first + 1 ELSE 0
          /\ \A k \in 1..last - first + 1 : s[k] = streams[first + k - 1]
      BY <2>5, <2>7, <2>8, SubSeqProperties
    <2>10. Len(s) \in Nat /\ \A k \in 1..Len(s) : k \in 1..last - first + 1 /\ first + k - 1 \in first..last
      BY <2>5, <2>9
    <2>11. \A k \in 1..Len(s) : s[k].version = before + (first + k - 1)
      BY <2>3, <2>8, <2>9, <2>10
    <2>12. InRow(s)
      <3> SUFFICES ASSUME NEW k \in 1..Len(s)
                   PROVE  s[k].version = s[1].version + k - 1
        BY DEF InRow
      <3>1. 1 \in 1..Len(s)
        BY <2>10
      <3>2. s[1].version = before + (first + 1 - 1) /\ s[k].version = before + (first + k - 1)
        BY <2>11, <3>1
      <3> QED
        BY <2>2, <2>5, <3>2
    <2>13. \A k \in 1..Len(s) : s[k].version \in from..to
      BY <2>2, <2>5, <2>10, <2>11
    <2>14. ASSUME NEW v \in from..to, ReadyIn(item, v)
           PROVE  \E k \in 1..Len(s) : s[k].version = v
      <3>1. PICK l \in 1..N : streams[l].ready /\ streams[l].version = v
        BY <2>14 DEF ReadyIn
      <3>2. v = before + l /\ l \in 1..complete
        BY <2>1, <2>3, <2>4, <3>1
      <3>3. l \in first..last
        BY <2>2, <2>6, <3>2
      <3>4. l - first + 1 \in 1..Len(s) /\ before + (first + (l - first + 1) - 1) = v
        BY <2>2, <2>5, <2>9, <3>2, <3>3
      <3> QED
        BY <2>11, <3>4
    <2> QED
      BY <2>9, <2>12, <2>13, <2>14
  <1>2. CASE ~Cached(item)
    <2>1. s = <<>> /\ item.versions = <<>>
      BY <1>2 DEF CompleteStreams, Cached
    <2>2. s \in Seq(CacheStream) /\ Len(s) = 0 /\ Len(item.versions) = 0
      BY <2>1, EmptySeq
    <2> QED
      BY <2>2 DEF InRow, ReadyIn
  <1> QED
    BY <1>1, <1>2

(* Consecutive versions that contain both ends of a range.                 *)
Spans(s, from, to) ==
    /\ 1 \in 1..Len(s) /\ Len(s) \in 1..Len(s)
    /\ s[1].version = from /\ s[Len(s)].version = to

(* Versions in a row that contain both ends of a range are that range.     *)
LEMMA RowOfRange ==
    ASSUME NEW s \in Seq(CacheStream), InRow(s), NEW from \in Int, NEW to \in Int,
           Within(s, from, to), Contains(s, from), Contains(s, to)
    PROVE  Spans(s, from, to)
  <1> USE DEF Within, Contains
  <1>0. Len(s) \in Nat /\ \A k \in 1..Len(s) : s[k].version \in Int
    BY StreamFields, LenProperties
  <1>1. PICK j \in 1..Len(s) : s[j].version = from
    OBVIOUS
  <1>2. PICK k \in 1..Len(s) : s[k].version = to
    OBVIOUS
  <1>3. 1 \in 1..Len(s) /\ Len(s) \in 1..Len(s)
    BY <1>0, <1>1
  <1>4. /\ s[j].version = s[1].version + j - 1
        /\ s[k].version = s[1].version + k - 1
        /\ s[Len(s)].version = s[1].version + Len(s) - 1
        /\ s[1].version \in from..to /\ s[Len(s)].version \in from..to
    BY <1>3 DEF InRow
  <1> DEFINE a == s[1].version
             b == s[Len(s)].version
             N == Len(s)
  <1>5. /\ a \in Int /\ b \in Int /\ N \in Nat /\ from =< a /\ b =< to
        /\ 1 =< j /\ k =< N /\ j \in Int /\ k \in Int
        /\ from = a + j - 1 /\ to = a + k - 1 /\ b = a + N - 1
    BY <1>0, <1>1, <1>2, <1>3, <1>4
  <1> HIDE DEF a, b, N
  <1>6. a = from /\ b = to
    BY <1>5
  <1> QED
    BY <1>3, <1>6 DEF a, b, N, Spans

(* Two rows that fit make one.                                             *)
Fit(p, q) == p # <<>> /\ q # <<>> => q[1].version = p[Len(p)].version + 1
Joins(t, p, q) ==
    /\ p # <<>> => t # <<>> /\ t[1] = p[1]
    /\ q # <<>> => t # <<>> /\ t[Len(t)] = q[Len(q)]
    /\ p = <<>> => t = q
    /\ q = <<>> => t = p
    /\ \A k \in 1..Len(t) : (\E j \in 1..Len(p) : t[k] = p[j]) \/ (\E j \in 1..Len(q) : t[k] = q[j])

(* Two rows of versions that fit, put together, are a row.                 *)
LEMMA RowsJoin ==
    ASSUME NEW p \in Seq(QueuedVersion), NEW q \in Seq(QueuedVersion), InRow(p), InRow(q),
           Fit(p, q), NEW t, t = p \o q
    PROVE  t \in Seq(QueuedVersion) /\ InRow(t) /\ Joins(t, p, q)
  <1>1. /\ t \in Seq(QueuedVersion)
        /\ Len(t) = Len(p) + Len(q) /\ Len(p) \in Nat /\ Len(q) \in Nat
        /\ \A k \in 1..Len(p) : t[k] = p[k]
        /\ \A k \in 1..Len(q) : t[Len(p) + k] = q[k]
        /\ \A k \in Len(p) + 1..Len(t) : k - Len(p) \in 1..Len(q) /\ t[k] = q[k - Len(p)]
    BY Grows
  <1>2. /\ p # <<>> => 1 \in 1..Len(p) /\ Len(p) \in 1..Len(p)
        /\ q # <<>> => 1 \in 1..Len(q) /\ Len(q) \in 1..Len(q)
        /\ p = <<>> => Len(p) = 0
        /\ q = <<>> => Len(q) = 0
        /\ t = <<>> => Len(t) = 0
    BY <1>1, EmptySeq
  <1>3. /\ p = <<>> => t = q
        /\ q = <<>> => t = p
    BY ConcatEmptySeq
  <1>4. /\ p # <<>> => t # <<>> /\ t[1] = p[1]
        /\ q # <<>> => t # <<>> /\ t[Len(t)] = q[Len(q)]
    BY <1>1, <1>2
  <1>5. InRow(t)
    <2>1. CASE p = <<>> \/ q = <<>>
      BY <1>3, <2>1
    <2>2. CASE p # <<>> /\ q # <<>>
      <3> SUFFICES ASSUME NEW k \in 1..Len(t)
                   PROVE  t[k].version = t[1].version + k - 1
        BY DEF InRow
      <3>1. CASE k \in 1..Len(p)
        BY <1>1, <1>2, <1>4, <2>2, <3>1 DEF InRow
      <3>2. CASE k \in Len(p) + 1..Len(t)
        <4>1. k - Len(p) \in 1..Len(q) /\ t[k] = q[k - Len(p)]
          BY <1>1, <3>2
        <4>2. q[k - Len(p)].version = q[1].version + (k - Len(p)) - 1
          BY <4>1 DEF InRow
        <4>3. p[Len(p)].version = p[1].version + Len(p) - 1
          BY <1>2, <2>2 DEF InRow
        <4>4. p[1].version \in Int /\ q[1].version \in Int /\ p[Len(p)].version \in Int
          BY <1>2, <2>2, QueuedFields
        <4>5. t[1].version = p[1].version /\ t[k].version = q[k - Len(p)].version
          BY <1>4, <2>2, <4>1
        <4>6. q[1].version = p[1].version + Len(p) - 1 + 1 /\ Len(p) \in Int /\ k \in Int
          BY <1>1, <2>2, <4>3 DEF Fit
        <4> DEFINE a == p[1].version
                   b == q[1].version
                   m == Len(p)
        <4>7. t[k].version = b + (k - m) - 1 /\ b = a + m - 1 + 1 /\ a \in Int /\ b \in Int /\ m \in Int
          BY <4>2, <4>4, <4>5, <4>6
        <4> HIDE DEF a, b, m
        <4>8. b + (k - m) - 1 = a + k - 1
          BY <4>6, <4>7
        <4> QED
          BY <4>5, <4>7, <4>8 DEF a
      <3> QED
        BY <1>1, <3>1, <3>2
    <2> QED
      BY <2>1, <2>2
  <1>6. \A k \in 1..Len(t) : (\E j \in 1..Len(p) : t[k] = p[j]) \/ (\E j \in 1..Len(q) : t[k] = q[j])
    BY SMTT(40), <1>1
  <1>7. Joins(t, p, q)
    BY <1>3, <1>4, <1>6 DEF Joins
  <1> QED
    BY <1>1, <1>5, <1>7

(* The complete streams from some version to the newest, when none of them *)
(* is newer than v.                                                        *)
LEMMA CompleteBehind ==
    ASSUME NEW item \in CacheItem, Gapless(item), NEW from \in Int, NEW v \in Int,
           NotAfter(item, v), NEW s, s = CompleteStreams(item, from, Newest(item).version)
    PROVE  /\ s \in Seq(CacheStream) /\ InRow(s) /\ Within(s, from, v)
           /\ from =< v /\ Ready(item, from, v) => Spans(s, from, v)
  <1>1. CASE Cached(item)
    <2> DEFINE N == Len(item.versions)
               to == Newest(item).version
    <2>1. N \in 1..N /\ 1 \in 1..N /\ N \in Nat /\ to \in Int
      BY <1>1, ItemFields, MappingAssumption DEF Newest, Version
    <2>2. to =< v
      BY <2>1 DEF Newest, NotAfter
    <2>3. \A w : ReadyIn(item, w) => w =< to
      <3> SUFFICES ASSUME NEW w, ReadyIn(item, w)
                   PROVE  w =< to
        OBVIOUS
      <3>1. PICK k \in 1..N : item.versions[k].version = w
        BY DEF ReadyIn
      <3>2. /\ item.versions[k].version = item.versions[1].version + k - 1
            /\ item.versions[N].version = item.versions[1].version + N - 1
            /\ item.versions[1].version \in Int
        <4>1. item.versions[1].version \in Int
          BY <2>1, ItemFields, MappingAssumption DEF Version
        <4> QED
          BY <2>1, <4>1 DEF Gapless
      <3> QED
        BY SMTT(40), <2>1, <3>1, <3>2 DEF Newest
    <2> HIDE DEF to, N
    <2>4. /\ s \in Seq(CacheStream) /\ InRow(s) /\ Within(s, from, to)
          /\ \A w \in from..to : ReadyIn(item, w) => Contains(s, w)
      BY <2>1, CompleteInRow DEF to
    <2>6. Within(s, from, v)
      BY <2>1, <2>2, <2>4 DEF Within
    <2>7. ASSUME from =< v, Ready(item, from, v)
          PROVE  Spans(s, from, v)
      <3>1. ReadyIn(item, from) /\ ReadyIn(item, v)
        BY <2>7 DEF Ready
      <3>2. to = v
        BY <2>1, <2>2, <2>3, <3>1
      <3>3. Contains(s, from) /\ Contains(s, v)
        BY <2>4, <2>7, <3>1, <3>2
      <3> QED
        BY <2>4, <2>6, <3>3, RowOfRange
    <2> QED
      BY <2>4, <2>6, <2>7
  <1>2. CASE ~Cached(item)
    <2>1. s = <<>> /\ item.versions = <<>>
      BY <1>2 DEF CompleteStreams, Cached
    <2>2. s \in Seq(CacheStream) /\ Len(s) = 0 /\ Len(item.versions) = 0
      BY <2>1, EmptySeq
    <2>3. from =< v => ~Ready(item, from, v)
      <3> SUFFICES ASSUME from =< v
                   PROVE  ~ReadyIn(item, from)
        BY DEF Ready
      <3> QED
        BY <2>2 DEF ReadyIn
    <2> QED
      BY <2>2, <2>3 DEF InRow, Within
  <1> QED
    BY <1>1, <1>2

(* z is the streams p as they are put in an instance's queue.              *)
AsQueued(z, p) == z = [k \in 1..Len(p) |-> [version |-> p[k].version, delta |-> FALSE]]

(* Cached streams in a queue.                                              *)
LEMMA StreamsQueued ==
    ASSUME NEW p \in Seq(CacheStream), InRow(p), NEW z, AsQueued(z, p)
    PROVE  /\ z \in Seq(QueuedVersion) /\ Len(z) = Len(p) /\ InRow(z)
           /\ \A k \in 1..Len(p) : z[k].version = p[k].version /\ ~z[k].delta
           /\ z = <<>> <=> Len(p) = 0
  <1> USE DEF AsQueued
  <1>1. Len(p) \in Nat /\ \A k \in 1..Len(p) : p[k].version \in Version
    BY LenProperties, StreamFields
  <1>2. z \in [1..Len(p) -> QueuedVersion]
    BY <1>1 DEF QueuedVersion
  <1>3. z \in Seq(QueuedVersion) /\ Len(z) = Len(p)
    BY SMTT(40), <1>1, <1>2, FunctionIsSeq
  <1>4. \A k \in 1..Len(p) : z[k].version = p[k].version /\ ~z[k].delta
    OBVIOUS
  <1>5. InRow(z)
    <2> SUFFICES ASSUME NEW k \in 1..Len(p)
                 PROVE  z[k].version = z[1].version + k - 1
      BY <1>3 DEF InRow
    <2>1. 1 \in 1..Len(p)
      BY <1>1
    <2> QED
      BY <1>4, <2>1 DEF InRow
  <1>6. z = <<>> <=> Len(p) = 0
    BY <1>3, EmptySeq
  <1> QED
    BY <1>3, <1>4, <1>5, <1>6

(* A queue that is not empty, and its ends.                                *)
LEMMA QueueEnds ==
    ASSUME NEW q \in Seq(QueuedVersion)
    PROVE  /\ Len(q) \in Nat
           /\ q = <<>> <=> Len(q) = 0
           /\ q # <<>> => /\ 1 \in 1..Len(q) /\ Len(q) \in 1..Len(q)
                          /\ q[1].version \in Int /\ q[Len(q)].version \in Int
                          /\ InRow(q) => q[Len(q)].version = q[1].version + Len(q) - 1
                          /\ InRow(q) => q[1].version =< q[Len(q)].version
           /\ \A k \in 1..Len(q) : q[k].version \in Nat
           /\ InRow(q) => \A k \in 1..Len(q) : q[1].version =< q[k].version
                                               /\ q[k].version =< q[Len(q)].version
  <1>1. Len(q) \in Nat /\ (q = <<>> <=> Len(q) = 0)
    BY EmptySeq, LenProperties
  <1>2. \A k \in 1..Len(q) : q[k].version \in Nat
    BY QueuedFields
  <1>3. q # <<>> => 1 \in 1..Len(q) /\ Len(q) \in 1..Len(q)
    BY <1>1
  <1>4. ASSUME InRow(q), NEW k \in 1..Len(q)
        PROVE  q[1].version =< q[k].version /\ q[k].version =< q[Len(q)].version
    <2>1. 1 \in 1..Len(q) /\ Len(q) \in 1..Len(q)
      BY <1>1
    <2>2. /\ q[k].version = q[1].version + k - 1
          /\ q[Len(q)].version = q[1].version + Len(q) - 1
          /\ q[1].version \in Nat
      BY <1>2, <1>4, <2>1 DEF InRow
    <2> QED
      BY <1>1, <2>2
  <1>5. q # <<>> /\ InRow(q) => q[Len(q)].version = q[1].version + Len(q) - 1
    BY <1>3 DEF InRow
  <1> QED
    BY <1>1, <1>2, <1>3, <1>4, <1>5

(* addInstanceDatas: with what the cache adds, the queue leads from the    *)
(* mapped version to v.                                                    *)
LEMMA CacheFits ==
    ASSUME NEW q \in Seq(QueuedVersion), InRow(q), \A k \in 1..Len(q) : ~q[k].delta,
           NEW item \in CacheItem, Gapless(item),
           NEW v \in Int, NotAfter(item, v),
           NEW reply, reply.useCache, reply.version \in 1..v,
           NEW lo \in Int, EndsWith(q, lo), lo =< v,
           Glued(reply, First(q, lo), lo, v, item),
           NEW t, t = AddInstanceDatas(q, item, reply.version)
    PROVE  /\ t \in Seq(QueuedVersion) /\ InRow(t) /\ EndsWith(t, v)
           /\ \A k \in 1..Len(t) : ~t[k].delta /\ reply.version =< t[k].version
  <1> DEFINE start == reply.version
             oldest == IF q = <<>> THEN VERSION_NONE ELSE q[1].version
             newest == IF q = <<>> THEN VERSION_NONE ELSE q[Len(q)].version
             after == IF start > newest THEN start ELSE newest + 1
             front == CompleteStreams(item, start, oldest - 1)
             back == CompleteStreams(item, after, Newest(item).version)
             F == [k \in 1..Len(front) |-> [version |-> front[k].version, delta |-> FALSE]]
             B == [k \in 1..Len(back) |-> [version |-> back[k].version, delta |-> FALSE]]
  <1>1. start \in Int /\ 1 =< start /\ start =< v
    OBVIOUS
  <1>2. /\ oldest \in Int /\ newest \in Int
        /\ q = <<>> => oldest = 0 /\ newest = 0 /\ First(q, lo) = lo + 1
        /\ q # <<>> => /\ oldest = q[1].version /\ newest = lo /\ oldest =< newest
                       /\ First(q, lo) = oldest
    BY SMTT(40), QueueEnds DEF EndsWith, First
  <1>3. t = F \o q \o B
    BY DEF AddInstanceDatas
  <1> HIDE DEF oldest, newest
  <1> HIDE DEF start
  <1>4. /\ after \in Int
        /\ q = <<>> => after = start
        /\ q # <<>> /\ start =< oldest => after = newest + 1
    BY <1>1, <1>2
  <1> HIDE DEF after
  <1> HIDE DEF front, back
  <1>a. front = CompleteStreams(item, start, oldest - 1)
    BY DEF front
  <1>b. back = CompleteStreams(item, after, Newest(item).version)
    BY DEF back
  <1>c. oldest - 1 \in Int
    BY <1>2
  <1>5. /\ front \in Seq(CacheStream) /\ InRow(front) /\ Within(front, start, oldest - 1)
        /\ \A w \in start..oldest - 1 : ReadyIn(item, w) => Contains(front, w)
    BY <1>1, <1>a, <1>c, CompleteInRow
  <1>6. /\ back \in Seq(CacheStream) /\ InRow(back) /\ Within(back, after, v)
        /\ after =< v /\ Ready(item, after, v) => Spans(back, after, v)
    BY <1>4, <1>b, CompleteBehind
  <1>7. /\ F \in Seq(QueuedVersion) /\ Len(F) = Len(front) /\ InRow(F)
        /\ \A k \in 1..Len(front) : F[k].version = front[k].version /\ ~F[k].delta
        /\ F = <<>> <=> Len(front) = 0
    <2>1. front \in Seq(CacheStream) /\ InRow(front) /\ AsQueued(F, front)
      BY <1>5 DEF AsQueued
    <2> HIDE DEF F
    <2> QED
      BY ONLY <2>1, StreamsQueued
  <1>8. /\ B \in Seq(QueuedVersion) /\ Len(B) = Len(back) /\ InRow(B)
        /\ \A k \in 1..Len(back) : B[k].version = back[k].version /\ ~B[k].delta
        /\ B = <<>> <=> Len(back) = 0
    <2>1. back \in Seq(CacheStream) /\ InRow(back) /\ AsQueued(B, back)
      BY <1>6 DEF AsQueued
    <2> HIDE DEF B
    <2> QED
      BY ONLY <2>1, StreamsQueued
  <1> HIDE DEF F, B
  <1>9. Len(front) \in Nat /\ Len(back) \in Nat
    BY <1>5, <1>6, LenProperties
  <1>10. CASE q = <<>>
    <2>1. front = <<>> \/ Len(front) = 0
      <3>1. start..oldest - 1 = {}
        BY <1>1, <1>2, <1>10
      <3> QED
        BY <1>5, <1>9, <3>1 DEF Within
    <2>2. F = <<>>
      BY <1>7, <2>1, EmptySeq
    <2>3. t = B
      BY <1>3, <1>8, <1>10, <2>2, ConcatEmptySeq
    <2>4. after = start
      BY <1>4, <1>10
    <2>5. start >= v \/ Ready(item, start, v)
      BY <1>2, <1>10 DEF Glued, start
    <2>6. B # <<>> => B[Len(B)].version = v
      <3> SUFFICES ASSUME B # <<>>
                   PROVE  B[Len(B)].version = v
        OBVIOUS
      <3>1. Len(back) \in 1..Len(back)
        BY <1>8, <1>9
      <3>2. back[Len(back)].version \in start..v
        BY <1>6, <2>4, <3>1 DEF Within
      <3>3. back[Len(back)].version = v
        BY <1>1, <1>6, <2>4, <2>5, <3>2 DEF Spans
      <3> QED
        BY <1>8, <3>1, <3>3
    <2>7. \A k \in 1..Len(B) : ~B[k].delta /\ start =< B[k].version
      BY <1>1, <1>6, <1>8, <2>4 DEF Within
    <2> QED
      BY <1>8, <2>3, <2>6, <2>7 DEF EndsWith, start
  <1>11. CASE q # <<>>
    <2>1. /\ start =< oldest /\ Ready(item, start, oldest - 1) /\ Ready(item, lo + 1, v)
          /\ oldest = q[1].version /\ newest = lo /\ oldest =< lo
      BY <1>2, <1>11 DEF Glued, start
    <2>2. after = lo + 1
      BY <1>4, <1>11, <2>1
    <2>a. \A k \in 1..Len(F) : ~F[k].delta /\ start =< F[k].version
      <3> SUFFICES ASSUME NEW k \in 1..Len(front)
                   PROVE  ~F[k].delta /\ start =< F[k].version
        BY <1>7
      <3>1. front[k].version \in start..oldest - 1 /\ F[k].version = front[k].version /\ ~F[k].delta
        BY <1>5, <1>7 DEF Within
      <3> QED
        BY <1>1, <1>2, <3>1
    <2>b. \A k \in 1..Len(q) : ~q[k].delta /\ start =< q[k].version
      <3> SUFFICES ASSUME NEW k \in 1..Len(q)
                   PROVE  start =< q[k].version
        OBVIOUS
      <3>1. q[1].version =< q[k].version /\ q[k].version \in Nat
        BY QueueEnds
      <3> QED
        BY <1>1, <1>2, <2>1, <3>1
    <2>3. F # <<>> => F[Len(F)].version + 1 = q[1].version
      <3> SUFFICES ASSUME F # <<>>
                   PROVE  F[Len(F)].version + 1 = q[1].version
        OBVIOUS
      <3>1. 1 \in 1..Len(front) /\ Len(front) \in 1..Len(front)
        BY <1>7, <1>9
      <3>2. start =< oldest - 1
        <4>1. front[1].version \in start..oldest - 1
          BY <1>5, <3>1 DEF Within
        <4> QED
          BY <1>1, <1>2, <4>1
      <3>3. Contains(front, start) /\ Contains(front, oldest - 1)
        <4>1. start \in start..oldest - 1 /\ oldest - 1 \in start..oldest - 1
          BY <1>1, <1>2, <3>2
        <4>2. ReadyIn(item, start) /\ ReadyIn(item, oldest - 1)
          BY <2>1, <4>1 DEF Ready
        <4> QED
          BY <1>5, <4>1, <4>2
      <3>4. front \in Seq(CacheStream) /\ InRow(front) /\ Within(front, start, oldest - 1)
        BY <1>5
      <3>5. Spans(front, start, oldest - 1)
        BY <1>1, <1>c, <3>3, <3>4, RowOfRange
      <3>6. front[Len(front)].version = oldest - 1
        BY <3>5 DEF Spans
      <3>7. F[Len(F)].version = oldest - 1
        BY <1>7, <3>1, <3>6
      <3> QED
        BY <1>2, <2>1, <3>7
    <2>f. Fit(F, q)
      <3> SUFFICES ASSUME F # <<>>
                   PROVE  q[1].version = F[Len(F)].version + 1
        BY DEF Fit
      <3> QED
        BY <2>3
    <2>4. CASE lo = v
      <3>1. after..v = {}
        BY <2>2, <2>4
      <3>2. B = <<>>
        BY <1>6, <1>8, <1>9, <3>1 DEF Within
      <3>3. t = F \o q
        BY <1>3, <1>7, <3>2, ConcatEmptySeq, ConcatProperties
      <3>4. t \in Seq(QueuedVersion) /\ InRow(t) /\ Joins(t, F, q)
        <4>1. Fit(F, q)
          BY <2>f
        <4>2. F \in Seq(QueuedVersion) /\ InRow(F)
          BY <1>7
        <4> QED
          BY <3>3, <4>1, <4>2, RowsJoin
      <3>5. EndsWith(t, v)
        BY <1>11, <2>4, <3>4 DEF EndsWith, Joins
      <3>6. \A k \in 1..Len(t) : ~t[k].delta /\ start =< t[k].version
        BY <2>a, <2>b, <3>4 DEF Joins
      <3> QED
        BY <3>4, <3>5, <3>6 DEF start
    <2>5. CASE lo < v
      <3>1. /\ 1 \in 1..Len(back) /\ Len(back) \in 1..Len(back)
            /\ back[1].version = lo + 1 /\ back[Len(back)].version = v
        BY <1>6, <2>1, <2>2, <2>5 DEF Spans
      <3> DEFINE u == F \o q
      <3>2. u \in Seq(QueuedVersion) /\ InRow(u) /\ Joins(u, F, q)
        <4>1. Fit(F, q)
          BY <2>f
        <4>2. F \in Seq(QueuedVersion) /\ InRow(F)
          BY <1>7
        <4> HIDE DEF u
        <4>3. u = F \o q
          BY DEF u
        <4> QED
          BY <4>1, <4>2, <4>3, RowsJoin
      <3> HIDE DEF u
      <3>3. t = u \o B
        BY <1>3 DEF u
      <3>4. B # <<>> /\ B[1].version = lo + 1 /\ B[Len(B)].version = v
        BY <1>8, <1>9, <3>1
      <3>5. u[Len(u)].version = lo
        BY <1>11, <3>2 DEF EndsWith, Joins
      <3>6. t \in Seq(QueuedVersion) /\ InRow(t) /\ Joins(t, u, B)
        <4>1. Fit(u, B)
          BY <3>4, <3>5 DEF Fit
        <4>2. B \in Seq(QueuedVersion) /\ InRow(B) /\ u \in Seq(QueuedVersion) /\ InRow(u)
          BY <1>8, <3>2
        <4> QED
          BY <3>3, <4>1, <4>2, RowsJoin
      <3>7. EndsWith(t, v)
        BY <3>4, <3>6 DEF EndsWith, Joins
      <3>10. \A k \in 1..Len(B) : ~B[k].delta /\ start =< B[k].version
        <4> SUFFICES ASSUME NEW k \in 1..Len(back)
                     PROVE  ~B[k].delta /\ start =< B[k].version
          BY <1>8
        <4>1. back[k].version \in lo + 1..v /\ B[k].version = back[k].version /\ ~B[k].delta
          BY <1>6, <1>8, <2>2 DEF Within
        <4> QED
          BY <1>1, <1>2, <2>1, <4>1
      <3>11. \A k \in 1..Len(u) : ~u[k].delta /\ start =< u[k].version
        BY <2>a, <2>b, <3>2 DEF Joins
      <3>12. \A k \in 1..Len(t) : ~t[k].delta /\ start =< t[k].version
        BY <3>6, <3>10, <3>11 DEF Joins
      <3> QED
        BY <3>6, <3>7, <3>12 DEF start
    <2> QED
      BY <2>4, <2>5
  <1> QED
    BY <1>10, <1>11
-----------------------------------------------------------------------------
(* Requests and answers under way.                                         *)

(* Packets are sent behind others, at most one of them for the instance.   *)
LEMMA TokensGrow ==
    ASSUME NEW S, NEW q \in Seq(S), NEW r \in Seq(S), NEW t, t = q \o r, NEW i, NEW st, NEW att
    PROVE  /\ Has(t, i) <=> Has(q, i) \/ Has(r, i)
           /\ AtMostOne(q, i) /\ AtMostOne(r, i) /\ ~(Has(q, i) /\ Has(r, i)) => AtMostOne(t, i)
           /\ Awaited(q, i, st, att) /\ Awaited(r, i, st, att) => Awaited(t, i, st, att)
           /\ Replied(q, i) /\ Replied(r, i) => Replied(t, i)
  <1> DEFINE a == Len(q)
             b == Len(r)
  <1>1. /\ Len(t) = a + b /\ a \in Nat /\ b \in Nat
        /\ \A k \in 1..a : t[k] = q[k] /\ k \in 1..Len(t)
        /\ \A k \in 1..b : t[a + k] = r[k] /\ a + k \in 1..Len(t)
    BY Grows
  <1>2. \A k \in 1..Len(t) : k \in 1..a \/ (k - a \in 1..b /\ t[k] = r[k - a])
    BY Grows
  <1> HIDE DEF a, b
  <1>3. Has(t, i) <=> Has(q, i) \/ Has(r, i)
    BY <1>1, <1>2 DEF Has, a, b
  <1>4. ASSUME AtMostOne(q, i), AtMostOne(r, i), ~(Has(q, i) /\ Has(r, i))
        PROVE  AtMostOne(t, i)
    <2> SUFFICES ASSUME NEW j \in 1..Len(t), NEW k \in 1..Len(t),
                        IsToken(t[j], i), IsToken(t[k], i)
                 PROVE  j = k
      BY DEF AtMostOne
    <2>1. j \in 1..a => IsToken(q[j], i) /\ Has(q, i)
      BY <1>1 DEF Has, a
    <2>2. k \in 1..a => IsToken(q[k], i) /\ Has(q, i)
      BY <1>1 DEF Has, a
    <2>3. j \notin 1..a => j - a \in 1..b /\ IsToken(r[j - a], i) /\ Has(r, i)
      BY <1>2 DEF Has, b
    <2>4. k \notin 1..a => k - a \in 1..b /\ IsToken(r[k - a], i) /\ Has(r, i)
      BY <1>2 DEF Has, b
    <2>5. CASE j \in 1..a /\ k \in 1..a
      BY <1>4, <2>1, <2>2, <2>5 DEF AtMostOne, a
    <2>6. CASE j \notin 1..a /\ k \notin 1..a
      <3>1. j - a = k - a
        BY <1>4, <2>3, <2>4, <2>6 DEF AtMostOne, b
      <3> QED
        BY <1>1, <3>1
    <2> QED
      BY <1>4, <2>1, <2>2, <2>3, <2>4, <2>5, <2>6
  <1>5. Awaited(q, i, st, att) /\ Awaited(r, i, st, att) => Awaited(t, i, st, att)
    BY <1>1, <1>2 DEF Awaited, a, b
  <1>6. ASSUME Replied(q, i), Replied(r, i), NEW k \in 1..Len(t), Begins(t[k], i)
        PROVE  \E p \in k + 1..Len(t) : Answers(t[p], i) /\ t[p].type = "reply"
    <2>1. CASE k \in 1..a
      <3>1. PICK p \in k + 1..a : Answers(q[p], i) /\ q[p].type = "reply"
        BY <1>1, <1>6, <2>1 DEF Replied, a
      <3>2. p \in 1..a /\ p \in k + 1..Len(t)
        BY <1>1, <2>1, <3>1
      <3> QED
        BY <1>1, <3>1, <3>2
    <2>2. CASE k \notin 1..a
      <3>1. k - a \in 1..b /\ t[k] = r[k - a]
        BY <1>2, <2>2
      <3>2. PICK p \in (k - a) + 1..b : Answers(r[p], i) /\ r[p].type = "reply"
        BY <1>6, <3>1 DEF Replied, b
      <3>3. p \in 1..b /\ a + p \in k + 1..Len(t)
        BY SMTT(40), <1>1, <3>1, <3>2
      <3> QED
        BY <1>1, <3>2, <3>3
    <2> QED
      BY <2>1, <2>2
  <1>7. Replied(q, i) /\ Replied(r, i) => Replied(t, i)
    BY <1>6 DEF Replied
  <1> QED
    BY <1>3, <1>4, <1>5, <1>7

(* Packets without requests and answers of the instance.                   *)
LEMMA NoTokens ==
    ASSUME NEW q, NEW i, \A k \in 1..Len(q) : ~IsToken(q[k], i), NEW st, NEW att
    PROVE  ~Has(q, i) /\ AtMostOne(q, i) /\ Awaited(q, i, st, att)
  BY DEF Has, AtMostOne, Awaited

(* A single packet.                                                        *)
LEMMA OneToken ==
    ASSUME NEW p, NEW i
    PROVE  /\ AtMostOne(<<p>>, i)
           /\ Has(<<p>>, i) <=> IsToken(p, i)
           /\ ~Begins(p, i) => Replied(<<p>>, i)
           /\ Len(<<p>>) = 1 /\ <<p>>[1] = p
  <1>1. Len(<<p>>) = 1 /\ <<p>>[1] = p
    OBVIOUS
  <1> DEFINE q == <<p>>
  <1> HIDE DEF q
  <1>2. /\ AtMostOne(q, i)
        /\ Has(q, i) <=> IsToken(p, i)
        /\ ~Begins(p, i) => Replied(q, i)
    BY <1>1 DEF AtMostOne, Has, Replied, q
  <1> QED
    BY <1>1, <1>2 DEF q

(* A packet is received.                                                   *)
LEMMA TokensShrink ==
    ASSUME NEW S, NEW q \in Seq(S), q # <<>>, NEW t, t = Tail(q), NEW i, NEW st, NEW att
    PROVE  /\ Has(t, i) => Has(q, i)
           /\ IsToken(Head(q), i) => Has(q, i)
           /\ AtMostOne(q, i) => AtMostOne(t, i)
           /\ AtMostOne(q, i) /\ IsToken(Head(q), i) => ~Has(t, i)
           /\ Awaited(q, i, st, att) => Awaited(t, i, st, att)
           /\ Replied(q, i) => Replied(t, i)
  <1>1. /\ Len(q) \in Nat \ {0} /\ Len(t) = Len(q) - 1
        /\ \A k \in 1..Len(q) - 1 : t[k] = q[k + 1]
        /\ Head(q) = q[1]
    BY RestOfStream
  <1>2. \A k \in 1..Len(t) : t[k] = q[k + 1] /\ k + 1 \in 1..Len(q) /\ k + 1 # 1
    BY <1>1
  <1>3. 1 \in 1..Len(q)
    BY <1>1
  <1>4. /\ Has(t, i) => Has(q, i)
        /\ IsToken(Head(q), i) => Has(q, i)
        /\ AtMostOne(q, i) /\ IsToken(Head(q), i) => ~Has(t, i)
        /\ Awaited(q, i, st, att) => Awaited(t, i, st, att)
    BY <1>1, <1>2, <1>3 DEF Has, AtMostOne, Awaited
  <1>5. ASSUME AtMostOne(q, i), NEW j \in 1..Len(t), NEW k \in 1..Len(t),
               IsToken(t[j], i), IsToken(t[k], i)
        PROVE  j = k
    <2>1. j + 1 = k + 1
      BY <1>2, <1>5 DEF AtMostOne
    <2> QED
      BY <2>1
  <1>6. ASSUME Replied(q, i), NEW k \in 1..Len(t), Begins(t[k], i)
        PROVE  \E r \in k + 1..Len(t) : Answers(t[r], i) /\ t[r].type = "reply"
    <2>1. PICK r \in (k + 1) + 1..Len(q) : Answers(q[r], i) /\ q[r].type = "reply"
      BY <1>2, <1>6 DEF Replied
    <2>2. r - 1 \in k + 1..Len(t) /\ r - 1 \in 1..Len(q) - 1 /\ (r - 1) + 1 = r
      BY <1>1, <2>1
    <2> QED
      BY <1>1, <2>1, <2>2
  <1> QED
    BY <1>4, <1>5, <1>6 DEF AtMostOne, Replied
-----------------------------------------------------------------------------
(* Packets are sent to an instance.                                        *)

Continues(i, d, t, from, head, member, newHead, newMember) ==
    \A v \in Version : Trails(i, d, from, v, head, member) =>
                       Trails(i, t, from, v, newHead, newMember)

IsReply(p, i) == Answers(p, i) /\ p.type = "reply"

(* Nothing changes in front of what is sent.                               *)
LEMMA StageGrows ==
    ASSUME NEW d \in Seq(DownPacket), NEW new \in Seq(DownPacket), NEW t, t = d \o new,
           NEW i, NEW st, NEW att \in BOOLEAN, NEW qu, NEW sv, NEW mt, NEW item,
           NEW head, NEW member, NEW newHead, NEW newMember,
           Stage(i, d, st, att, qu, sv, mt, item, head, member),
           \A k \in 1..Len(new) : ~IsReply(new[k], i),
           \A from \in 0..Len(d) :
              att \/ (\E k \in 1..Len(d) : IsReply(d[k], i)) =>
                 Continues(i, d, t, from, head, member, newHead, newMember)
    PROVE  Stage(i, t, st, att, qu, sv, mt, item, newHead, newMember)
  <1>1. /\ Len(t) = Len(d) + Len(new) /\ Len(d) \in Nat /\ Len(new) \in Nat
        /\ \A k \in 1..Len(d) : t[k] = d[k] /\ k \in 1..Len(t)
        /\ \A k \in Len(d) + 1..Len(t) : k - Len(d) \in 1..Len(new) /\ t[k] = new[k - Len(d)]
    BY Grows
  <1>2. ASSUME NEW r \in 1..Len(t), IsReply(t[r], i)
        PROVE  Answered(i, t, r, att, qu, item, newHead, newMember)
    <2>1. r \in 1..Len(d) /\ t[r] = d[r]
      BY <1>1, <1>2
    <2>2. Answered(i, d, r, att, qu, item, head, member)
      BY <1>2, <2>1 DEF Stage, IsReply
    <2>3. PICK start \in 0..r - 1 : \E lo, hi, v \in Version :
              /\ Batch(i, d, start, r, att)
              /\ Brings(i, d, start, r, Held(start, qu), lo, hi)
              /\ LeadsTo(d[r], First(Held(start, qu), lo), hi, v, item)
              /\ Older(d, r, v)
              /\ Trails(i, d, r, v, head, member)
      BY <2>2 DEF Answered
    <2>4. PICK lo, hi, v \in Version :
              /\ Batch(i, d, start, r, att)
              /\ Brings(i, d, start, r, Held(start, qu), lo, hi)
              /\ LeadsTo(d[r], First(Held(start, qu), lo), hi, v, item)
              /\ Older(d, r, v)
              /\ Trails(i, d, r, v, head, member)
      BY <2>3
    <2>5. start \in Nat /\ r - 1 \in Nat /\ \A k \in 1..r - 1 : t[k] = d[k]
      BY <1>1, <2>1
    <2>6. Batch(i, t, start, r, att)
      <3>1. \A k \in 1..start - 1 : k \in 1..r - 1
        BY <2>1, <2>5
      <3>2. \A k \in start + 1..r - 1 : k \in 1..r - 1
        BY <2>1, <2>5
      <3>3. start # 0 => start \in 1..r - 1
        BY <2>1, <2>5
      <3> QED
        BY <2>4, <2>5, <3>1, <3>2, <3>3 DEF Batch
    <2>7. Brings(i, t, start, r, Held(start, qu), lo, hi)
      BY <2>4, <2>5, SameBefore DEF Brings
    <2>8. Older(t, r, v)
      BY <2>4, <2>5 DEF Older
    <2>9. Trails(i, t, r, v, newHead, newMember)
      <3>1. Continues(i, d, t, r, head, member, newHead, newMember)
        BY <1>1, <1>2, <2>1
      <3> QED
        BY <2>4, <3>1 DEF Continues
    <2> QED
      BY <2>1, <2>4, <2>6, <2>7, <2>8, <2>9 DEF Answered
  <1>3. ASSUME att, \A r \in 1..Len(t) : ~Answers(t[r], i)
        PROVE  Following(i, t, st, qu, sv, mt, newHead, newMember)
    <2>1. \A r \in 1..Len(d) : ~Answers(d[r], i)
      BY <1>1, <1>3
    <2>2. Following(i, d, st, qu, sv, mt, head, member)
      BY <1>3, <2>1 DEF Stage
    <2>3. Continues(i, d, t, 0, head, member, newHead, newMember)
      BY <1>1, <1>3
    <2> QED
      BY <2>2, <2>3 DEF Following, Continues
  <1> QED
    BY <1>2, <1>3 DEF Stage, IsReply

(* Packets without data for the instance; the master may forget it.        *)
LEMMA StageQuiet ==
    ASSUME NEW d \in Seq(DownPacket), NEW new \in Seq(DownPacket), NEW t, t = d \o new,
           NEW i, NEW st, NEW att \in BOOLEAN, NEW qu, NEW sv, NEW mt, NEW item,
           NEW head, NEW member, NEW newMember, newMember => member,
           Stage(i, d, st, att, qu, sv, mt, item, head, member),
           \A k \in 1..Len(new) : ~IsReply(new[k], i) /\ ~Carries(new[k], i)
    PROVE  Stage(i, t, st, att, qu, sv, mt, item, head, newMember)
  <1>1. ASSUME NEW from \in 0..Len(d)
        PROVE  Continues(i, d, t, from, head, member, head, newMember)
    <2>1. \A k \in 1..Len(new) : ~Carries(new[k], i)
      OBVIOUS
    <2>2. from \in Nat
      BY LenProperties
    <2>3. ASSUME NEW v \in Version
          PROVE  /\ Chain(d, i, from, Len(d), v) => Chain(t, i, from, Len(t), v)
                 /\ Covers(d, i, from, Len(d), v, head) => Covers(t, i, from, Len(t), v, head)
      BY <2>1, <2>2, GrowsQuietly
    <2> QED
      BY <2>3 DEF Continues, Trails
  <1> QED
    BY <1>1, StageGrows

(* A commit is sent to an instance: the master knows it, it has left, or   *)
(* it is not mapped yet.                                                   *)
LEMMA StageCommit ==
    ASSUME NEW d \in Seq(DownPacket), NEW p \in DownPacket, NEW t, t = d \o <<p>>,
           NEW i, NEW st, NEW att \in BOOLEAN, NEW qu, NEW sv, NEW mt, NEW item,
           NEW head \in Int, NEW member \in BOOLEAN,
           Stage(i, d, st, att, qu, sv, mt, item, head, member),
           Knows(i, d, att, member),
           Carries(p, i), p.version = head + 1, p.type = "commit"
    PROVE  Stage(i, t, st, att, qu, sv, mt, item, head + 1, member)
  <1>0. Version \subseteq Int
    BY MappingAssumption DEF Version
  <1>1. ASSUME NEW from \in 0..Len(d), att \/ (\E k \in 1..Len(d) : IsReply(d[k], i))
        PROVE  Continues(i, d, t, from, head, member, head + 1, member)
    <2> SUFFICES ASSUME NEW v \in Version, Trails(i, d, from, v, head, member)
                 PROVE  Trails(i, t, from, v, head + 1, member)
      BY DEF Continues
    <2>1. from \in Nat /\ from =< Len(d) /\ v \in Int /\ v =< head + 1
      BY <1>0, LenProperties DEF Trails
    <2>2. CASE member
      <3>1. Chain(d, i, from, Len(d), v) /\ Covers(d, i, from, Len(d), v, head)
        BY <2>2 DEF Trails
      <3>2. Chain(t, i, from, Len(t), v) /\ Covers(t, i, from, Len(t), v, head + 1)
        BY <2>1, <3>1, GrowsByCommit
      <3> QED
        BY <2>1, <3>2 DEF Trails
    <2>3. CASE ~member
      <3>1. \E k \in 1..Len(d) : Ends(d[k], i)
        BY <1>1, <2>3 DEF Knows, IsReply
      <3>2. Chain(d, i, from, Len(d), v)
        BY DEF Trails
      <3>3. <<p>> \in Seq(DownPacket)
        BY ShortSeqs
      <3>4. Chain(t, i, from, Len(t), v)
        BY <2>1, <3>1, <3>2, <3>3, GrowsBehindEnd
      <3> QED
        BY <2>1, <2>3, <3>4 DEF Trails
    <2> QED
      BY <2>2, <2>3
  <1>2. <<p>> \in Seq(DownPacket) /\ \A k \in 1..Len(<<p>>) : ~IsReply(<<p>>[k], i)
    BY ShortSeqs, OneToken DEF IsReply
  <1> QED
    BY <1>1, <1>2, StageGrows

(* A commit that is not sent to a node.                                    *)
LEMMA StageUnfollowed ==
    ASSUME NEW d \in Seq(DownPacket),
           NEW i, NEW st, NEW att \in BOOLEAN, NEW qu, NEW sv, NEW mt, NEW item,
           NEW head \in Int, NEW member,
           Stage(i, d, st, att, qu, sv, mt, item, head, member)
    PROVE  Stage(i, d, st, att, qu, sv, mt, item, head + 1, FALSE)
  <1> DEFINE none == <<>>
  <1>1. d = d \o none /\ none \in Seq(DownPacket) /\ Len(none) = 0
    BY ConcatEmptySeq
  <1>2. Version \subseteq Int
    BY MappingAssumption DEF Version
  <1>3. ASSUME NEW from \in 0..Len(d)
        PROVE  Continues(i, d, d, from, head, member, head + 1, FALSE)
    BY <1>2 DEF Continues, Trails
  <1>4. \A k \in 1..Len(none) : ~IsReply(none[k], i)
    BY <1>1
  <1> HIDE DEF none
  <1> QED
    BY <1>1, <1>3, <1>4, StageGrows
-----------------------------------------------------------------------------
(* A packet is received by an instance.                                    *)

(* What data makes of the queue of an attached instance.                   *)
Data(p) == [version |-> p.version, delta |-> p.type = "commit" /\ IsDelta]
Received(qu, p, i) == IF Carries(p, i) THEN Append(qu, Data(p)) ELSE qu

(* What the first packet makes of the attachment and the queue, as far as  *)
(* an instance is concerned that has its reply still before it.            *)
Takes(i, p, att, qu, newAtt, newQu) ==
    /\ Begins(p, i) => newAtt /\ newQu = <<>>
    /\ att /\ i \in p.insts /\ p.type \in {"map", "empty"} =>
          newAtt /\ newQu = Received(qu, p, i)
    /\ ~att /\ ~Begins(p, i) => ~newAtt

(* What it makes of the cache.                                             *)
KeepsOld(p, item, new) ==
    \A v \in Version :
        NotAfter(item, v) /\ (IsData(p) => p.version =< v) => NotAfter(new, v)
KeepsReady(item, new) == \A v : ReadyIn(item, v) => ReadyIn(new, v)

(* As long as a reply may take versions from the cache.                    *)
Provides(i, d, item, new) ==
    \A r \in 1..Len(d) : IsReply(d[r], i) /\ d[r].useCache => KeepsReady(item, new)

(* What the first packet makes of an instance that has its answer.         *)
Follows(i, d, st, att, qu, sv, mt, newSt, newAtt, newQu, newSv, newMt) ==
    newAtt /\ (\A r \in 1..Len(d) : ~Answers(d[r], i)) =>
        att /\ newSt = st /\ newSv = sv /\ newMt = mt /\ newQu = Received(qu, d[1], i)

(* A queue that gets the next version.                                     *)
IsNext(qu, x, lo, t) == EndsWith(qu, lo) /\ x.version = lo + 1 /\ t = Append(qu, x)

(* A queue that gets the next version stays in a row and ends with it.     *)
LEMMA QueueGrows ==
    ASSUME NEW qu \in Seq(QueuedVersion), NEW x \in QueuedVersion, NEW lo \in Int,
           NEW t, IsNext(qu, x, lo, t), NEW new, new = lo + 1
    PROVE  /\ EndsWith(t, new) /\ First(t, new) = First(qu, lo)
           /\ t # <<>> /\ Len(t) = Len(qu) + 1 /\ Len(qu) \in Nat
           /\ \A k \in 1..Len(qu) : t[k] = qu[k]
           /\ t[Len(t)] = x
           /\ InRow(qu) => InRow(t)
  <1>1. /\ Len(qu) \in Nat /\ Len(t) = Len(qu) + 1
        /\ \A k \in 1..Len(qu) : t[k] = qu[k]
        /\ t[Len(t)] = x
        /\ t # <<>>
    BY AppendProperties, LenProperties DEF IsNext
  <1>a. EndsWith(qu, lo) /\ x.version = lo + 1
    BY DEF IsNext
  <1>2. EndsWith(t, new)
    BY <1>1, <1>a DEF EndsWith
  <1>3. First(t, new) = First(qu, lo)
    <2>1. CASE qu = <<>>
      <3>1. Len(t) = 1
        BY <1>1, <2>1
      <3> QED
        BY <1>1, <1>a, <2>1, <3>1 DEF First
    <2>2. CASE qu # <<>>
      <3>1. 1 \in 1..Len(qu)
        BY <2>2, QueueEnds
      <3> QED
        BY <1>1, <2>2, <3>1 DEF First
    <2> QED
      BY <2>1, <2>2
  <1>4. ASSUME InRow(qu), NEW k \in 1..Len(t)
        PROVE  t[k].version = t[1].version + k - 1
    <2>1. CASE qu = <<>>
      <3>1. Len(t) = 1 /\ k = 1
        BY <1>1, <2>1
      <3>a. t[1] = x /\ lo + 1 \in Int
        BY <1>1, <3>1
      <3>2. t[1].version \in Int
        BY <1>a, <3>a
      <3> QED
        BY <3>1, <3>2
    <2>2. CASE qu # <<>>
      <3>1. /\ 1 \in 1..Len(qu) /\ Len(qu) \in 1..Len(qu) /\ qu[1].version \in Int
            /\ qu[Len(qu)].version = qu[1].version + Len(qu) - 1
        BY <1>4, <2>2, QueueEnds
      <3>2. t[1] = qu[1]
        BY <1>1, <3>1
      <3>3. CASE k \in 1..Len(qu)
        BY <1>1, <1>4, <3>2, <3>3 DEF InRow
      <3>4. CASE k = Len(qu) + 1
        <4>1. t[k].version = lo + 1 /\ lo = qu[1].version + Len(qu) - 1
          BY <1>1, <1>a, <2>2, <3>1, <3>4 DEF EndsWith
        <4>2. (qu[1].version + Len(qu) - 1) + 1 = qu[1].version + k - 1
          BY <1>1, <3>1, <3>4
        <4> QED
          BY <3>2, <4>1, <4>2
      <3> QED
        BY <1>1, <3>3, <3>4
    <2> QED
      BY <2>1, <2>2
  <1> QED
    BY <1>1, <1>2, <1>3, <1>4 DEF InRow

(* A reply that is still to come, with the cache that it will find.        *)
LEMMA StillLeads ==
    ASSUME NEW p, NEW reply, NEW a, NEW hi, NEW v \in Version, NEW item, NEW new,
           LeadsTo(reply, a, hi, v, item), IsData(p) => p.version =< v,
           KeepsOld(p, item, new), reply.useCache => KeepsReady(item, new)
    PROVE  LeadsTo(reply, a, hi, v, new)
  <1>1. NotAfter(new, v)
    BY DEF KeepsOld, LeadsTo
  <1>2. Glued(reply, a, hi, v, new)
    <2>1. CASE ~reply.useCache
      BY <2>1 DEF LeadsTo, Glued
    <2>2. CASE reply.useCache
      BY <2>2 DEF LeadsTo, Glued, Ready, KeepsReady
    <2> QED
      BY <2>1, <2>2
  <1> QED
    BY <1>1, <1>2 DEF LeadsTo

(* The reply gets nearer.                                                  *)
LEMMA AnsweredShrinks ==
    ASSUME NEW d \in Seq(DownPacket), d # <<>>, NEW t, t = Tail(d), NEW i,
           NEW r \in 2..Len(d), NEW att \in BOOLEAN, NEW qu \in Seq(QueuedVersion),
           NEW item, NEW head, NEW member,
           Answered(i, d, r, att, qu, item, head, member), ~Ends(d[1], i),
           NEW newAtt \in BOOLEAN, NEW newQu, NEW new,
           Takes(i, d[1], att, qu, newAtt, newQu),
           KeepsOld(d[1], item, new), d[r].useCache => KeepsReady(item, new)
    PROVE  Answered(i, t, r - 1, newAtt, newQu, new, head, member)
  <1>0. Version \subseteq Int /\ Version \subseteq Nat
    BY MappingAssumption DEF Version
  <1>1. /\ Len(d) \in Nat \ {0} /\ Len(t) = Len(d) - 1 /\ Len(t) \in Nat
        /\ \A k \in 1..Len(t) : t[k] = d[k + 1]
        /\ \A k \in 2..Len(d) : t[k - 1] = d[k] /\ k - 1 \in 1..Len(t)
        /\ d[1] \in DownPacket
    BY Shrinks
  <1>2. PICK start \in 0..r - 1 : \E lo, hi, v \in Version :
            /\ Batch(i, d, start, r, att)
            /\ Brings(i, d, start, r, Held(start, qu), lo, hi)
            /\ LeadsTo(d[r], First(Held(start, qu), lo), hi, v, item)
            /\ Older(d, r, v)
            /\ Trails(i, d, r, v, head, member)
    BY DEF Answered
  <1>3. PICK lo, hi, v \in Version :
            /\ Batch(i, d, start, r, att)
            /\ Brings(i, d, start, r, Held(start, qu), lo, hi)
            /\ LeadsTo(d[r], First(Held(start, qu), lo), hi, v, item)
            /\ Older(d, r, v)
            /\ Trails(i, d, r, v, head, member)
    BY <1>2
  <1>4. t[r - 1] = d[r] /\ r - 1 \in 1..Len(t) /\ (r - 1) + 1 = r
    BY <1>1
  <1>5. Trails(i, t, r - 1, v, head, member)
    <2> DEFINE f == r - 1
               m == Len(d)
    <2>1. f \in Nat /\ f + 1 = r /\ m \in Int /\ m =< Len(d) /\ Len(t) = m - 1 /\ m = Len(d)
      BY <1>1, <1>4
    <2> HIDE DEF f, m
    <2>2. /\ Chain(d, i, f + 1, m, v) => Chain(t, i, f, m - 1, v)
          /\ Covers(d, i, f + 1, m, v, head) => Covers(t, i, f, m - 1, v, head)
      BY <2>1, ShrinksBefore
    <2> QED
      BY <1>3, <2>1, <2>2 DEF Trails, f
  <1>6. IsData(d[1]) => d[1].version =< v
    BY <1>3 DEF Older
  <1>7. Older(t, r - 1, v)
    <2> SUFFICES ASSUME NEW k \in 1..(r - 1) - 1, IsData(t[k])
                 PROVE  t[k].version =< v
      BY DEF Older
    <2>1. t[k] = d[k + 1] /\ k + 1 \in 1..r - 1
      BY <1>1, <1>4
    <2> QED
      BY <1>3, <2>1 DEF Older
  <1>8. LeadsTo(d[r], First(Held(start, qu), lo), hi, v, new)
    BY <1>3, <1>6, StillLeads
  <1>9. \A k \in 1..Len(t) : k + 1 \in 2..Len(d)
    BY <1>1
  <1>10. CASE start >= 1
    <2> DEFINE f == start - 1
    <2>1. f \in Nat /\ f + 1 = start /\ f \in 0..(r - 1) - 1 /\ r - 1 \in Int /\ r - 1 =< Len(d)
      BY <1>1, <1>10
    <2>2. ~att /\ Begins(d[start], i) /\ \A k \in 1..start - 1 : ~Begins(d[k], i)
      BY <1>3, <1>10 DEF Batch
    <2>3. Held(start, qu) = <<>> /\ Held(f, newQu) = <<>>
      <3>1. CASE start = 1
        BY <1>10, <2>1, <2>2, <3>1 DEF Held, Takes
      <3>2. CASE start # 1
        BY <1>10, <2>1, <3>2 DEF Held
      <3> QED
        BY <3>1, <3>2
    <2>4. IF f = 0 THEN newAtt ELSE ~newAtt /\ Begins(t[f], i)
      <3>1. CASE f = 0
        BY <2>1, <2>2, <3>1 DEF Takes
      <3>2. CASE f # 0
        <4>1. 1 \in 1..start - 1 /\ f \in 1..Len(t) /\ t[f] = d[start]
          BY <1>1, <2>1, <3>2
        <4> QED
          BY <2>2, <3>2, <4>1 DEF Takes
      <3> QED
        BY <3>1, <3>2
    <2>5. Batch(i, t, f, r - 1, newAtt)
      <3>1. \A k \in 1..f - 1 : t[k] = d[k + 1] /\ k + 1 \in 1..start - 1
        BY <1>1, <2>1
      <3>2. \A k \in f + 1..(r - 1) - 1 : t[k] = d[k + 1] /\ k + 1 \in start + 1..r - 1
        BY <1>1, <2>1
      <3> QED
        BY <1>3, <2>4, <3>1, <3>2 DEF Batch
    <2> HIDE DEF f
    <2>6. Brings(i, t, f, r - 1, <<>>, lo, hi)
      <3>1. /\ Chain(d, i, f + 1, r - 1, lo) => Chain(t, i, f, (r - 1) - 1, lo)
            /\ Covers(d, i, f + 1, r - 1, lo, hi) => Covers(t, i, f, (r - 1) - 1, lo, hi)
        BY <2>1, ShrinksBefore
      <3> QED
        BY <1>3, <2>1, <2>3, <3>1 DEF Brings
    <2> QED
      BY <1>4, <1>5, <1>7, <1>8, <2>1, <2>3, <2>5, <2>6 DEF Answered
  <1>11. CASE start = 0
    <2>1. att /\ i \in d[1].insts /\ d[1].type \in {"map", "empty"}
      <3>1. 1 \in start + 1..r - 1
        BY <1>1, <1>11
      <3> QED
        BY <1>3, <1>11, <3>1 DEF Batch
    <2>2. newAtt /\ newQu = Received(qu, d[1], i)
      BY <2>1 DEF Takes
    <2>3. Batch(i, t, 0, r - 1, newAtt)
      <3>1. \A k \in 0 + 1..(r - 1) - 1 : t[k] = d[k + 1] /\ k + 1 \in 0 + 1..r - 1
        BY <1>1
      <3> QED
        BY <1>3, <1>11, <2>2, <3>1 DEF Batch
    <2>4. Held(start, qu) = qu /\ Held(0, newQu) = newQu
      BY <1>11 DEF Held
    <2>5. /\ EndsWith(qu, lo) /\ Chain(d, i, 0, r - 1, lo) /\ Covers(d, i, 0, r - 1, lo, hi)
      BY <1>3, <1>11, <2>4 DEF Brings
    <2>6. lo \in Int /\ hi \in Int /\ r - 1 \in Int /\ 0 < r - 1 /\ r - 1 =< Len(d)
      BY <1>0, <1>1
    <2>7. /\ ~Carries(d[1], i) =>
                /\ Chain(t, i, 0, (r - 1) - 1, lo)
                /\ Covers(d, i, 0, r - 1, lo, hi) => Covers(t, i, 0, (r - 1) - 1, lo, hi)
          /\ Carries(d[1], i) =>
                /\ d[1].version = lo + 1
                /\ Chain(t, i, 0, (r - 1) - 1, lo + 1)
                /\ Covers(d, i, 0, r - 1, lo, hi) => Covers(t, i, 0, (r - 1) - 1, lo + 1, hi)
      <3> DEFINE to == r - 1
      <3>1. /\ to \in Int /\ 0 < to /\ to =< Len(d) /\ Chain(d, i, 0, to, lo)
            /\ d \in Seq(DownPacket) /\ d # <<>> /\ t = Tail(d) /\ ~Ends(d[1], i)
        BY <1>1, <2>5, <2>6
      <3> HIDE DEF to
      <3>2. /\ ~Carries(d[1], i) =>
                  /\ Chain(t, i, 0, to - 1, lo)
                  /\ Covers(d, i, 0, to, lo, hi) => Covers(t, i, 0, to - 1, lo, hi)
            /\ Carries(d[1], i) =>
                  /\ d[1].version = lo + 1
                  /\ Chain(t, i, 0, to - 1, lo + 1)
                  /\ Covers(d, i, 0, to, lo, hi) => Covers(t, i, 0, to - 1, lo + 1, hi)
        BY ONLY <2>6, <3>1, ShrinksFromStart
      <3> QED
        BY ONLY <3>2 DEF to
    <2>8. 0 \in 0..(r - 1) - 1
      BY <2>6
    <2>9. CASE ~Carries(d[1], i)
      <3>1. newQu = qu
        BY <2>2, <2>9 DEF Received
      <3>2. Brings(i, t, 0, r - 1, newQu, lo, hi)
        BY <2>5, <2>7, <2>9, <3>1 DEF Brings
      <3> QED
        BY <1>4, <1>5, <1>7, <1>8, <2>3, <2>4, <2>8, <3>1, <3>2 DEF Answered
    <2>10. CASE Carries(d[1], i)
      <3>1. newQu = Append(qu, Data(d[1]))
        BY <2>2, <2>10 DEF Received
      <3>2. d[1].version \in Version
        BY <1>1, <2>1, DownFields DEF IsData
      <3>3. Data(d[1]) \in QueuedVersion /\ Data(d[1]).version = lo + 1
        BY <2>7, <2>10, <3>2 DEF Data, QueuedVersion
      <3>4. EndsWith(newQu, lo + 1) /\ First(newQu, lo + 1) = First(qu, lo)
        <4> DEFINE x == Data(d[1])
                   next == lo + 1
        <4>1. x \in QueuedVersion /\ lo \in Int /\ next = lo + 1
          BY <2>6, <3>1, <3>3
        <4>2. IsNext(qu, x, lo, newQu)
          BY <2>5, <3>1, <3>3 DEF IsNext
        <4> HIDE DEF x, next
        <4>3. EndsWith(newQu, next) /\ First(newQu, next) = First(qu, lo)
          BY <4>1, <4>2, QueueGrows
        <4> QED
          BY <4>3 DEF next
      <3>5. lo + 1 \in Version
        BY <2>7, <2>10, <3>2
      <3>6. Brings(i, t, 0, r - 1, newQu, lo + 1, hi)
        BY <2>5, <2>7, <2>10, <3>4 DEF Brings
      <3> QED
        BY <1>4, <1>5, <1>7, <1>8, <2>3, <2>4, <2>8, <3>4, <3>5, <3>6 DEF Answered
    <2> QED
      BY <2>9, <2>10
  <1> QED
    BY <1>10, <1>11
(* The data of an attached instance that has its answer.                   *)
LEMMA FollowingShrinks ==
    ASSUME NEW d \in Seq(DownPacket), d # <<>>, NEW t, t = Tail(d), NEW i,
           NEW st, NEW qu \in Seq(QueuedVersion), NEW sv, NEW mt \in Int,
           NEW head \in Int, NEW member,
           Following(i, d, st, qu, sv, mt, head, member), ~Ends(d[1], i),
           IsData(d[1]) => d[1].version =< head
    PROVE  Following(i, t, st, Received(qu, d[1], i), sv, mt, head, member)
  <1>0. Version \subseteq Int
    BY MappingAssumption DEF Version
  <1>1. PICK lo \in Version :
            /\ st # "mapping"
            /\ EndsWith(qu, lo)
            /\ qu = <<>> /\ st \in {"mapped", "unmapping"} => lo = sv
            /\ st \in {"replied", "applying"} => mt \in 1..lo
            /\ Trails(i, d, 0, lo, head, member)
    BY DEF Following
  <1> DEFINE m == Len(d)
  <1>2. m \in Int /\ 0 < m /\ m =< Len(d) /\ Len(t) = m - 1 /\ m = Len(d) /\ lo \in Int
        /\ d[1] \in DownPacket
    BY <1>0, Shrinks
  <1> HIDE DEF m
  <1>3. Chain(d, i, 0, m, lo) /\ (member => Covers(d, i, 0, m, lo, head)) /\ lo =< head
    BY <1>1, <1>2 DEF Trails
  <1>4. /\ ~Carries(d[1], i) =>
              /\ Chain(t, i, 0, m - 1, lo)
              /\ Covers(d, i, 0, m, lo, head) => Covers(t, i, 0, m - 1, lo, head)
        /\ Carries(d[1], i) =>
              /\ d[1].version = lo + 1
              /\ Chain(t, i, 0, m - 1, lo + 1)
              /\ Covers(d, i, 0, m, lo, head) => Covers(t, i, 0, m - 1, lo + 1, head)
    BY <1>2, <1>3, ShrinksFromStart
  <1>5. CASE ~Carries(d[1], i)
    <2>1. Trails(i, t, 0, lo, head, member)
      BY <1>2, <1>3, <1>4, <1>5 DEF Trails
    <2> QED
      BY <1>1, <1>5, <2>1 DEF Following, Received
  <1>6. CASE Carries(d[1], i)
    <2>1. IsData(d[1])
      BY <1>6 DEF Carries, IsData
    <2>2. d[1].version \in Version /\ d[1].version = lo + 1 /\ lo + 1 =< head
      BY <1>2, <1>4, <1>6, <2>1, DownFields
    <2> DEFINE x == Data(d[1])
               next == lo + 1
               new == Append(qu, x)
    <2>3. x \in QueuedVersion /\ x.version = lo + 1 /\ next = lo + 1 /\ next \in Version
      BY <2>2 DEF Data, QueuedVersion
    <2>4. IsNext(qu, x, lo, new)
      BY <1>1, <2>3 DEF IsNext
    <2>5. Trails(i, t, 0, next, head, member)
      BY <1>2, <1>3, <1>4, <1>6, <2>2 DEF Trails
    <2>6. Received(qu, d[1], i) = new
      BY <1>6 DEF Received
    <2>7. st \in {"replied", "applying"} => mt \in 1..next
      BY <1>1, <1>2
    <2> HIDE DEF x, next, new
    <2>8. EndsWith(new, next) /\ new # <<>>
      BY <1>2, <2>3, <2>4, QueueGrows
    <2> QED
      BY <1>1, <2>3, <2>5, <2>6, <2>7, <2>8 DEF Following
  <1> QED
    BY <1>5, <1>6

(* The reply is received: with what the cache adds, the queue leads from   *)
(* the mapped version to the first commit.                                 *)
LEMMA ReplyTaken ==
    ASSUME NEW d \in Seq(DownPacket), d # <<>>, NEW t, t = Tail(d), NEW i,
           NEW att \in BOOLEAN, NEW qu \in Seq(QueuedVersion), InRow(qu),
           \A k \in 1..Len(qu) : ~qu[k].delta,
           NEW item \in CacheItem, Gapless(item), NEW sv, NEW head \in Int, NEW member,
           IsReply(d[1], i), Answered(i, d, 1, att, qu, item, head, member),
           NEW new, new = IF d[1].useCache THEN AddInstanceDatas(qu, item, d[1].version) ELSE qu
    PROVE  /\ att
           /\ new \in Seq(QueuedVersion) /\ InRow(new)
           /\ \A k \in 1..Len(new) :
                 ~new[k].delta /\ d[1].version \in 1..new[k].version /\ new[k].version =< head
           /\ Following(i, t, "replied", new, sv, d[1].version, head, member)
  <1>0. Version \subseteq Int
    BY MappingAssumption DEF Version
  <1>1. PICK start \in 0..1 - 1 : \E lo, hi, v \in Version :
            /\ Batch(i, d, start, 1, att)
            /\ Brings(i, d, start, 1, Held(start, qu), lo, hi)
            /\ LeadsTo(d[1], First(Held(start, qu), lo), hi, v, item)
            /\ Older(d, 1, v)
            /\ Trails(i, d, 1, v, head, member)
    BY DEF Answered
  <1>2. PICK lo, hi, v \in Version :
            /\ Batch(i, d, start, 1, att)
            /\ Brings(i, d, start, 1, Held(start, qu), lo, hi)
            /\ LeadsTo(d[1], First(Held(start, qu), lo), hi, v, item)
            /\ Older(d, 1, v)
            /\ Trails(i, d, 1, v, head, member)
    BY <1>1
  <1>3. start = 0 /\ lo \in Int /\ v \in Int
    BY <1>0
  <1>4. att /\ Held(start, qu) = qu
    BY <1>2, <1>3 DEF Batch, Held
  <1>5. EndsWith(qu, lo) /\ hi = lo
    <2>1. EndsWith(qu, lo) /\ Covers(d, i, 0, 1 - 1, lo, hi)
      BY <1>2, <1>3, <1>4 DEF Brings
    <2>2. 0 + 1..1 - 1 = {}
      OBVIOUS
    <2> QED
      BY <2>1, <2>2 DEF Covers
  <1>6. LeadsTo(d[1], First(qu, lo), lo, v, item)
    BY <1>2, <1>4, <1>5
  <1>7. /\ lo =< v /\ d[1].version \in 1..v
        /\ First(qu, lo) =< lo => d[1].version =< First(qu, lo)
        /\ NotAfter(item, v) /\ Glued(d[1], First(qu, lo), lo, v, item)
    BY <1>6 DEF LeadsTo
  <1>8. /\ new \in Seq(QueuedVersion) /\ InRow(new) /\ EndsWith(new, v)
        /\ \A k \in 1..Len(new) : ~new[k].delta /\ d[1].version =< new[k].version
    <2>1. CASE d[1].useCache
      <3> DEFINE reply == d[1]
      <3>1. /\ reply.useCache /\ reply.version \in 1..v /\ NotAfter(item, v)
            /\ Glued(reply, First(qu, lo), lo, v, item) /\ lo =< v /\ EndsWith(qu, lo)
            /\ new = AddInstanceDatas(qu, item, reply.version)
        BY <1>5, <1>7, <2>1
      <3> HIDE DEF reply
      <3>2. /\ new \in Seq(QueuedVersion) /\ InRow(new) /\ EndsWith(new, v)
            /\ \A k \in 1..Len(new) : ~new[k].delta /\ reply.version =< new[k].version
        BY <1>3, <3>1, CacheFits
      <3> QED
        BY <3>2 DEF reply
    <2>2. CASE ~d[1].useCache
      <3>1. new = qu
        BY <2>2
      <3>2. CASE qu = <<>>
        <4>1. Len(qu) = 0
          BY <3>2
        <4>2. EndsWith(qu, v)
          BY <3>2 DEF EndsWith
        <4>3. \A k \in 1..Len(qu) : d[1].version =< qu[k].version
          BY <4>1
        <4> QED
          BY <3>1, <4>2, <4>3
      <3>3. CASE qu # <<>>
        <4>1. First(qu, lo) = qu[1].version /\ lo = qu[Len(qu)].version
          BY <1>5, <3>3 DEF First, EndsWith
        <4>2. /\ qu[1].version =< qu[Len(qu)].version
              /\ \A k \in 1..Len(qu) : qu[k].version \in Nat /\ qu[1].version =< qu[k].version
              /\ qu[1].version \in Int
          BY <3>3, QueueEnds
        <4>3. lo = v
          BY <1>7, <2>2, <4>1, <4>2 DEF Glued
        <4>4. d[1].version =< qu[1].version /\ d[1].version \in Int
          BY <1>7, <4>1, <4>2
        <4>5. \A k \in 1..Len(qu) : d[1].version =< qu[k].version
          BY SMTT(40), <4>2, <4>4
        <4> QED
          BY <3>1, <1>5, <4>3, <4>5
      <3> QED
        BY <3>2, <3>3
    <2> QED
      BY <2>1, <2>2
  <1>9. ASSUME NEW k \in 1..Len(new)
        PROVE  ~new[k].delta /\ d[1].version \in 1..new[k].version /\ new[k].version =< head
    <2>1. new # <<>>
      BY <1>8, <1>9, QueueEnds
    <2>2. new[k].version \in Nat /\ new[k].version =< new[Len(new)].version
      BY <1>8, <1>9, QueueEnds
    <2>3. new[Len(new)].version = v /\ v =< head
      BY <1>2, <1>8, <2>1 DEF EndsWith, Trails
    <2>4. ~new[k].delta /\ d[1].version =< new[k].version
      BY <1>8, <1>9
    <2> DEFINE w == new[k].version
               z == d[1].version
    <2>5. w \in Nat /\ w =< v /\ z =< w /\ z \in 1..v /\ v =< head
      BY <1>7, <2>2, <2>3, <2>4
    <2> HIDE DEF w, z
    <2>6. z \in 1..w /\ w =< head
      BY <1>3, <2>5
    <2> QED
      BY <2>4, <2>6 DEF w, z
  <1>10. Trails(i, t, 0, v, head, member)
    <2> DEFINE f == 0
               m == Len(d)
    <2>1. f \in Nat /\ f + 1 = 1 /\ m \in Int /\ m =< Len(d) /\ Len(t) = m - 1 /\ m = Len(d)
      BY Shrinks
    <2>2. ~Ends(d[1], i)
      BY DEF IsReply, Ends
    <2> HIDE DEF f, m
    <2>3. /\ Chain(d, i, f + 1, m, v) => Chain(t, i, f, m - 1, v)
          /\ Covers(d, i, f + 1, m, v, head) => Covers(t, i, f, m - 1, v, head)
      BY <2>1, <2>2, ShrinksBefore
    <2> QED
      BY <1>2, <2>1, <2>3 DEF Trails, f
  <1>11. Following(i, t, "replied", new, sv, d[1].version, head, member)
    BY <1>3, <1>7, <1>8, <1>10 DEF Following
  <1> QED
    BY <1>4, <1>8, <1>9, <1>11
(* Nothing is to be said of an instance that is not attached and has no    *)
(* reply to come.                                                          *)
LEMMA StageVoid ==
    ASSUME NEW d, NEW i, \A k \in 1..Len(d) : ~IsReply(d[k], i),
           NEW st, NEW att, ~att, NEW qu, NEW sv, NEW mt, NEW item, NEW head, NEW member
    PROVE  Stage(i, d, st, att, qu, sv, mt, item, head, member)
  BY DEF Stage, IsReply

(* A packet that is not the reply of the instance, nor its end.            *)
LEMMA StageShrinks ==
    ASSUME NEW d \in Seq(DownPacket), d # <<>>, NEW t, t = Tail(d), NEW i,
           NEW st, NEW att \in BOOLEAN, NEW qu \in Seq(QueuedVersion), NEW sv, NEW mt \in Int,
           NEW item, NEW head \in Int, NEW member,
           Stage(i, d, st, att, qu, sv, mt, item, head, member),
           ~IsReply(d[1], i), ~Ends(d[1], i), IsData(d[1]) => d[1].version =< head,
           NEW newSt, NEW newAtt \in BOOLEAN, NEW newQu, NEW newSv, NEW newMt, NEW new,
           Takes(i, d[1], att, qu, newAtt, newQu), KeepsOld(d[1], item, new),
           Provides(i, d, item, new), newAtt => ~Answers(d[1], i),
           Follows(i, d, st, att, qu, sv, mt, newSt, newAtt, newQu, newSv, newMt)
    PROVE  Stage(i, t, newSt, newAtt, newQu, newSv, newMt, new, head, member)
  <1>1. /\ Len(d) \in Nat \ {0} /\ Len(t) = Len(d) - 1
        /\ \A k \in 1..Len(t) : t[k] = d[k + 1] /\ k + 1 \in 2..Len(d)
        /\ \A k \in 2..Len(d) : t[k - 1] = d[k] /\ k - 1 \in 1..Len(t)
    BY Shrinks
  <1>2. ASSUME NEW k \in 1..Len(t), IsReply(t[k], i)
        PROVE  Answered(i, t, k, newAtt, newQu, new, head, member)
    <2> DEFINE r == k + 1
    <2>1. r \in 2..Len(d) /\ r \in 1..Len(d) /\ IsReply(d[r], i) /\ r - 1 = k
      BY <1>1, <1>2
    <2> HIDE DEF r
    <2>2. Answered(i, d, r, att, qu, item, head, member)
      BY <2>1 DEF Stage, IsReply
    <2>3. d[r].useCache => KeepsReady(item, new)
      BY <2>1 DEF Provides
    <2>4. Answered(i, t, r - 1, newAtt, newQu, new, head, member)
      BY <2>1, <2>2, <2>3, AnsweredShrinks
    <2> QED
      BY <2>1, <2>4
  <1>3. ASSUME newAtt, \A k \in 1..Len(t) : ~Answers(t[k], i)
        PROVE  Following(i, t, newSt, newQu, newSv, newMt, head, member)
    <2>1. \A r \in 1..Len(d) : r = 1 \/ r \in 2..Len(d)
      BY <1>1
    <2>2. \A r \in 1..Len(d) : ~Answers(d[r], i)
      BY <1>1, <1>3, <2>1
    <2>3. att /\ newSt = st /\ newSv = sv /\ newMt = mt /\ newQu = Received(qu, d[1], i)
      BY <1>3, <2>2 DEF Follows
    <2>4. Following(i, d, st, qu, sv, mt, head, member)
      BY <2>2, <2>3 DEF Stage
    <2>5. Following(i, t, st, Received(qu, d[1], i), sv, mt, head, member)
      BY <2>4, FollowingShrinks
    <2> QED
      BY <2>3, <2>5
  <1> QED
    BY <1>2, <1>3 DEF Stage, IsReply

(* The first packet of a stream is taken.                                  *)
IsTaken(p, c, x) == c # <<>> /\ x = Tail(c) /\ p = Head(c)

(* What the queue becomes with the reply.                                  *)
Completed(z, qu, item, p) ==
    z = IF p.useCache THEN AddInstanceDatas(qu, item, p.version) ELSE qu

(* Complete versions, and those from v on.                                 *)
NoDelta(qu) == \A k \in 1..Len(qu) : ~qu[k].delta

InstancesSince(qu, v, head) ==
    \A k \in 1..Len(qu) : ~qu[k].delta /\ v \in 1..qu[k].version /\ qu[k].version =< head

(* The reply of the instance completes its queue.                          *)
LEMMA QueueReplied ==
    ASSUME NEW d \in Seq(DownPacket), NEW p, NEW t, IsTaken(p, d, t), NEW i, IsReply(p, i),
           NEW st, NEW att \in BOOLEAN, NEW qu \in Seq(QueuedVersion), NEW sv, NEW mt,
           NEW item \in CacheItem, Gapless(item), NEW head \in Int, NEW member,
           Stage(i, d, st, att, qu, sv, mt, item, head, member),
           InRow(qu), NoDelta(qu), NEW new, Completed(new, qu, item, p)
    PROVE  /\ new \in Seq(QueuedVersion) /\ InRow(new)
           /\ InstancesSince(new, p.version, head)
           /\ Following(i, t, "replied", new, sv, p.version, head, member)
  <1>0. d # <<>> /\ t = Tail(d) /\ p = d[1]
    BY RestOfStream DEF IsTaken
  <1>1. Len(d) \in Nat \ {0} /\ 1 \in 1..Len(d)
    BY <1>0, Shrinks
  <1>2. Answered(i, d, 1, att, qu, item, head, member)
    BY <1>0, <1>1 DEF Stage, IsReply
  <1>3. /\ new = IF d[1].useCache THEN AddInstanceDatas(qu, item, d[1].version) ELSE qu
        /\ IsReply(d[1], i)
    BY <1>0 DEF Completed
  <1>4. /\ new \in Seq(QueuedVersion) /\ InRow(new)
        /\ InstancesSince(new, d[1].version, head)
        /\ Following(i, t, "replied", new, sv, d[1].version, head, member)
    BY <1>0, <1>2, <1>3, ReplyTaken DEF InstancesSince, NoDelta
  <1> QED
    BY <1>0, <1>4

(* Afterwards the instance follows the commits.                            *)
LEMMA StageReplied ==
    ASSUME NEW d \in Seq(DownPacket), NEW p, NEW t, IsTaken(p, d, t), NEW i,
           AtMostOne(d, i), IsReply(p, i), NEW qu, NEW att, NEW sv, NEW mt, NEW item,
           NEW head, NEW member, Following(i, t, "replied", qu, sv, mt, head, member)
    PROVE  Stage(i, t, "replied", att, qu, sv, mt, item, head, member)
  <1>0. d # <<>> /\ t = Tail(d) /\ p = d[1]
    BY RestOfStream DEF IsTaken
  <1>1. /\ 1 \in 1..Len(d)
        /\ \A k \in 1..Len(t) : t[k] = d[k + 1] /\ k + 1 \in 1..Len(d) /\ k + 1 # 1
    BY <1>0, Shrinks
  <1>2. \A k \in 1..Len(d) : Answers(d[k], i) => IsToken(d[k], i)
    BY DEF Answers, IsToken
  <1>3. \A k \in 1..Len(d) : Answers(d[k], i) => k = 1
    BY <1>0, <1>1, <1>2 DEF AtMostOne, IsReply
  <1>4. \A k \in 1..Len(t) : ~Answers(t[k], i)
    BY <1>1, <1>3
  <1> QED
    BY <1>4 DEF Stage

-----------------------------------------------------------------------------
(* The queue of an instance.                                               *)

(* The version x that makes the queue t of qu is the next one that the     *)
(* instance needs.                                                         *)
IsNeeded(qu, x, st, sv, mt, t) ==
    \E lo \in Int :
        /\ IsNext(qu, x, lo, t)
        /\ st = "mapping" => ~x.delta
        /\ st \in {"replied", "applying"} => mt \in 1..lo
        /\ qu = <<>> /\ st \in {"mapped", "unmapping"} => lo = sv

(* The version of data that an attached instance receives is the next one. *)
LEMMA NextIsReceived ==
    ASSUME NEW d \in Seq(DownPacket), d # <<>>, NEW i,
           NEW st, NEW att, att, NEW qu \in Seq(QueuedVersion), NEW sv, NEW mt,
           NEW item, NEW head \in Int, NEW member,
           Stage(i, d, st, att, qu, sv, mt, item, head, member),
           Awaited(d, i, st, att), Carries(d[1], i), NEW t, t = Received(qu, d[1], i)
    PROVE  IsNeeded(qu, Data(d[1]), st, sv, mt, t)
  <1>0. Version \subseteq Int
    BY MappingAssumption DEF Version
  <1>1. Len(d) \in Nat \ {0} /\ \A k \in 1..Len(d) : d[k].version \in Int
    BY Shrinks
  <1>2. t = Append(qu, Data(d[1])) /\ Data(d[1]).version = d[1].version
    BY DEF Received, Data
  <1>3. Open(d, i, 1)
    BY DEF Open
  <1>4. ASSUME NEW to \in Int, 0 < to, NEW lo \in Int, Chain(d, i, 0, to, lo)
        PROVE  d[1].version = lo + 1
    <2>1. 1 \in 0 + 1..to /\ 0 + 1..1 - 1 = {}
      BY <1>4
    <2> QED
      BY <1>3, <1>4, <2>1 DEF Chain
  <1>5. CASE \E r \in 1..Len(d) : Answers(d[r], i)
    <2>1. PICK r \in 1..Len(d) : Answers(d[r], i)
      BY <1>5
    <2>2. IsToken(d[r], i) /\ d[r].type \in {"reply", "failed"}
      BY <2>1 DEF Answers, IsToken
    <2>3. st = "mapping" /\ d[r].type = "reply"
      BY <2>1, <2>2 DEF Awaited
    <2>4. Answered(i, d, r, att, qu, item, head, member)
      BY <2>1, <2>3 DEF Stage
    <2>5. PICK start \in 0..r - 1 : \E lo, hi, v \in Version :
              /\ Batch(i, d, start, r, att)
              /\ Brings(i, d, start, r, Held(start, qu), lo, hi)
      BY <2>4 DEF Answered
    <2>6. PICK lo \in Version : \E hi \in Version :
              /\ Batch(i, d, start, r, att)
              /\ Brings(i, d, start, r, Held(start, qu), lo, hi)
      BY <2>5
    <2>7. start = 0
      BY <2>6 DEF Batch
    <2>8. EndsWith(qu, lo) /\ Chain(d, i, 0, r - 1, lo)
      BY <2>6, <2>7 DEF Brings, Held
    <2>9. r # 1
      BY <2>2 DEF Carries
    <2>10. r - 1 \in Int /\ 0 < r - 1 /\ lo \in Int /\ 1 \in start + 1..r - 1
      BY <1>0, <1>1, <2>7, <2>9
    <2>11. d[1].version = lo + 1
      BY <1>4, <2>8, <2>10
    <2>12. ~Data(d[1]).delta
      BY <2>6, <2>10 DEF Batch, Data
    <2>13. IsNext(qu, Data(d[1]), lo, t)
      BY <1>2, <2>8, <2>11 DEF IsNext
    <2> QED
      BY <2>3, <2>10, <2>12, <2>13 DEF IsNeeded
  <1>6. CASE \A r \in 1..Len(d) : ~Answers(d[r], i)
    <2>1. Following(i, d, st, qu, sv, mt, head, member)
      BY <1>6 DEF Stage
    <2>2. PICK lo \in Version :
              /\ st # "mapping"
              /\ EndsWith(qu, lo)
              /\ qu = <<>> /\ st \in {"mapped", "unmapping"} => lo = sv
              /\ st \in {"replied", "applying"} => mt \in 1..lo
              /\ Trails(i, d, 0, lo, head, member)
      BY <2>1 DEF Following
    <2>3. lo \in Int /\ Chain(d, i, 0, Len(d), lo)
      BY <1>0, <2>2 DEF Trails
    <2>4. d[1].version = lo + 1
      BY <1>1, <1>4, <2>3
    <2>5. IsNext(qu, Data(d[1]), lo, t)
      BY <1>2, <2>2, <2>4 DEF IsNext
    <2> QED
      BY <2>2, <2>3, <2>5 DEF IsNeeded
  <1> QED
    BY <1>5, <1>6

(* It fits the queue.                                                      *)
LEMMA QueueTakes ==
    ASSUME NEW qu \in Seq(QueuedVersion), NEW x \in QueuedVersion, NEW t, NEW lo \in Int,
           IsNext(qu, x, lo, t),
           NEW st, NEW att, att, NEW sv \in Int, NEW co, NEW mt \in Int, NEW head \in Int,
           x.version =< head,
           QueueFits(st, att, qu, sv, co, mt, head),
           st # "unmapped",
           st = "mapping" => ~x.delta,
           st \in {"replied", "applying"} => mt \in 1..lo,
           qu = <<>> /\ st \in {"mapped", "unmapping"} => lo = sv
    PROVE  QueueFits(st, att, t, sv, co, mt, head)
  <1> DEFINE new == lo + 1
  <1>1. new = lo + 1
    OBVIOUS
  <1> HIDE DEF new
  <1>2. /\ First(t, new) = First(qu, lo)
        /\ t # <<>> /\ Len(t) = Len(qu) + 1 /\ Len(qu) \in Nat
        /\ \A k \in 1..Len(qu) : t[k] = qu[k]
        /\ t[Len(t)] = x
        /\ InRow(qu) => InRow(t)
    BY <1>1, QueueGrows
  <1>3. \A k \in 1..Len(t) : k \in 1..Len(qu) \/ t[k] = x
    BY <1>2
  <1>4. x.version = lo + 1
    BY DEF IsNext
  <1>5. \A k \in 1..Len(t) : t[k].version =< head
    BY <1>2, <1>3 DEF QueueFits
  <1>6. InRow(t)
    BY <1>2 DEF QueueFits
  <1>7. st = "mapping" => \A k \in 1..Len(t) : ~t[k].delta
    BY <1>2, <1>3 DEF QueueFits
  <1>8. ASSUME st \in {"replied", "applying"}
        PROVE  \A k \in 1..Len(t) :
                  mt \in 1..t[k].version /\ (t[k].delta => mt < t[k].version)
    <2>1. \A k \in 1..Len(qu) :
              mt \in 1..qu[k].version /\ (qu[k].delta => mt < qu[k].version)
      BY <1>8 DEF QueueFits
    <2>2. 1 =< mt
      BY <1>8
    <2>3. mt < x.version
      BY <1>4, <1>8
    <2>4. mt \in 1..x.version
      BY <1>4, <2>2, <2>3
    <2> QED
      BY <1>2, <1>3, <2>1, <2>3, <2>4
  <1>9. ASSUME st \in {"mapped", "unmapping"}
        PROVE  co = sv /\ sv \in 1..head /\ t[1].version = sv + 1
    <2>1. First(t, new) = t[1].version
      BY <1>2 DEF First
    <2>2. First(qu, lo) = sv + 1
      BY <1>9 DEF First, QueueFits
    <2> QED
      BY <1>2, <1>9, <2>1, <2>2 DEF QueueFits
  <1> QED
    BY <1>5, <1>6, <1>7, <1>8, <1>9 DEF QueueFits
(* The rest of a queue.                                                    *)
IsRest(t, qu) ==
    /\ Head(qu) = qu[1] /\ 1 \in 1..Len(qu)
    /\ \A k \in 1..Len(t) : t[k] = qu[k + 1] /\ k + 1 \in 1..Len(qu)
    /\ t # <<>> => t[1].version = qu[1].version + 1

(* The rest of a queue in a row is a row that ends where the queue did.    *)
LEMMA QueueShrinks ==
    ASSUME NEW qu \in Seq(QueuedVersion), qu # <<>>, InRow(qu), NEW t, t = Tail(qu)
    PROVE  /\ t \in Seq(QueuedVersion) /\ InRow(t) /\ IsRest(t, qu)
           /\ \A lo : EndsWith(qu, lo) => EndsWith(t, lo)
           /\ \A lo : t = <<>> /\ EndsWith(qu, lo) => lo = qu[1].version
  <1>1. /\ t \in Seq(QueuedVersion) /\ Len(qu) \in Nat \ {0} /\ Len(t) = Len(qu) - 1
        /\ \A k \in 1..Len(qu) - 1 : t[k] = qu[k + 1]
        /\ Head(qu) = qu[1]
    BY RestOfStream
  <1>2. 1 \in 1..Len(qu) /\ \A k \in 1..Len(t) : t[k] = qu[k + 1] /\ k + 1 \in 1..Len(qu)
    BY <1>1
  <1>3. qu[1].version \in Int
    BY <1>2, QueuedFields
  <1>4. t = <<>> <=> Len(t) = 0
    BY <1>1, QueueEnds
  <1>5. \A k \in 1..Len(t) : t[k].version = qu[1].version + k
    BY <1>1, <1>2, <1>3 DEF InRow
  <1>6. ASSUME t # <<>>
        PROVE  1 \in 1..Len(t) /\ t[1].version = qu[1].version + 1 /\ t[Len(t)] = qu[Len(qu)]
    <2>1. 1 \in 1..Len(t) /\ Len(t) \in 1..Len(t) /\ Len(t) + 1 = Len(qu)
      BY <1>1, <1>4, <1>6
    <2> QED
      BY <1>2, <1>5, <2>1
  <1>7. InRow(t)
    <2> SUFFICES ASSUME NEW k \in 1..Len(t)
                 PROVE  t[k].version = t[1].version + k - 1
      BY DEF InRow
    <2>1. 1 \in 1..Len(t) /\ k \in Int
      BY <1>1
    <2>2. t[1].version = qu[1].version + 1 /\ t[k].version = qu[1].version + k
      BY <1>5, <2>1
    <2> QED
      BY <1>3, <2>1, <2>2
  <1>8. \A lo : EndsWith(qu, lo) => EndsWith(t, lo)
    BY <1>6 DEF EndsWith
  <1>9. \A lo : t = <<>> /\ EndsWith(qu, lo) => lo = qu[1].version
    <2>1. t = <<>> => Len(qu) = 1
      BY <1>1, <1>4
    <2> QED
      BY <2>1 DEF EndsWith
  <1>10. IsRest(t, qu)
    BY <1>1, <1>2, <1>6 DEF IsRest
  <1> QED
    BY <1>1, <1>7, <1>8, <1>9, <1>10

(* applyMapData and sync take a version from the queue.                    *)
LEMMA QueueGives ==
    ASSUME NEW qu \in Seq(QueuedVersion), qu # <<>>, NEW t, t = Tail(qu),
           NEW st, NEW att, NEW sv \in Int, NEW co \in Int, NEW mt \in Int, NEW head \in Int,
           QueueFits(st, att, qu, sv, co, mt, head)
    PROVE  /\ st = "applying" =>
                 IF qu[1].version = mt
                 THEN QueueFits("mapped", att, t, mt, Unpacked(qu[1], co), mt, head)
                 ELSE QueueFits("applying", att, t, sv, co, mt, head)
           /\ st = "mapped" =>
                 QueueFits("mapped", att, t, qu[1].version, Unpacked(qu[1], co), mt, head)
  <1>0. InRow(qu) /\ \A k \in 1..Len(qu) : qu[k].version =< head
    BY DEF QueueFits
  <1>a. t \in Seq(QueuedVersion) /\ InRow(t) /\ IsRest(t, qu)
    BY <1>0, QueueShrinks
  <1>1. /\ t \in Seq(QueuedVersion) /\ InRow(t)
        /\ 1 \in 1..Len(qu)
        /\ \A k \in 1..Len(t) : t[k] = qu[k + 1] /\ k + 1 \in 1..Len(qu)
        /\ t # <<>> => t[1].version = qu[1].version + 1
    BY <1>a DEF IsRest
  <1>2. \A k \in 1..Len(t) : t[k].version =< head
    BY <1>0, <1>1
  <1>3. qu[1].version \in Nat /\ qu[1].version =< head /\ qu[1].delta \in BOOLEAN
    BY <1>0, <1>1, QueuedFields
  <1>4. ASSUME st = "applying"
        PROVE  IF qu[1].version = mt
               THEN QueueFits("mapped", att, t, mt, Unpacked(qu[1], co), mt, head)
               ELSE QueueFits("applying", att, t, sv, co, mt, head)
    <2>1. \A k \in 1..Len(qu) :
              mt \in 1..qu[k].version /\ (qu[k].delta => mt < qu[k].version)
      BY <1>4 DEF QueueFits
    <2>2. CASE qu[1].version = mt
      <3>1. ~qu[1].delta /\ mt \in 1..head
        BY <1>1, <1>3, <2>1, <2>2
      <3>2. Unpacked(qu[1], co) = mt
        BY <2>2, <3>1 DEF Unpacked
      <3> QED
        BY <1>1, <1>2, <2>2, <3>1, <3>2 DEF QueueFits
    <2>3. CASE qu[1].version # mt
      BY <1>1, <1>2, <2>1, <2>3 DEF QueueFits
    <2> QED
      BY <2>2, <2>3
  <1>5. ASSUME st = "mapped"
        PROVE  QueueFits("mapped", att, t, qu[1].version, Unpacked(qu[1], co), mt, head)
    <2>1. co = sv /\ sv \in 1..head /\ qu[1].version = sv + 1
      BY <1>5 DEF QueueFits
    <2>2. Unpacked(qu[1], co) = qu[1].version
      BY <2>1 DEF Unpacked
    <2>3. qu[1].version \in 1..head
      BY <1>3, <2>1
    <2> QED
      BY <1>1, <1>2, <2>2, <2>3 DEF QueueFits
  <1> QED
    BY <1>4, <1>5

(* An instance that does not wait for its mapping has no answer to come.   *)
LEMMA NoneAnswered ==
    ASSUME NEW d, NEW i, NEW st, NEW att, Awaited(d, i, st, att), st # "mapping"
    PROVE  \A k \in 1..Len(d) : ~Answers(d[k], i) /\ ~IsReply(d[k], i)
  BY DEF Awaited, Answers, IsToken, IsReply

(* What its application may do then: get ahead, or take the first version  *)
(* off its queue.                                                          *)
Gives(st, qu, sv, newSt, newQu, newSv) ==
    \/ st = "replied" /\ newSt = "applying" /\ newQu = qu /\ newSv = sv
    \/ st = "mapped" /\ newSt = "unmapping" /\ newQu = qu /\ newSv = sv
    \/ /\ InRow(qu) /\ qu # <<>> /\ newQu = Tail(qu)
       /\ \/ st = "applying" /\ newSt = "applying" /\ newSv = sv
          \/ st \in {"applying", "mapped"} /\ newSt = "mapped" /\ newSv = qu[1].version

(* An instance that takes the head of its queue keeps the stage it is in.  *)
LEMMA StageGives ==
    ASSUME NEW d, NEW i, NEW st, NEW att, Awaited(d, i, st, att), st # "mapping",
           NEW qu \in Seq(QueuedVersion), NEW sv, NEW mt, NEW item, NEW head, NEW member,
           Stage(i, d, st, att, qu, sv, mt, item, head, member),
           NEW newSt, NEW newQu, NEW newSv, Gives(st, qu, sv, newSt, newQu, newSv)
    PROVE  Stage(i, d, newSt, att, newQu, newSv, mt, item, head, member)
  <1>1. \A k \in 1..Len(d) : ~Answers(d[k], i) /\ ~IsReply(d[k], i)
    BY NoneAnswered
  <1>2. ASSUME att
        PROVE  Following(i, d, newSt, newQu, newSv, mt, head, member)
    <2>1. Following(i, d, st, qu, sv, mt, head, member)
      BY <1>1, <1>2 DEF Stage
    <2>2. PICK lo \in Version :
              /\ st # "mapping"
              /\ EndsWith(qu, lo)
              /\ qu = <<>> /\ st \in {"mapped", "unmapping"} => lo = sv
              /\ st \in {"replied", "applying"} => mt \in 1..lo
              /\ Trails(i, d, 0, lo, head, member)
      BY <2>1 DEF Following
    <2>3. CASE newQu = qu
      BY <2>2, <2>3 DEF Following, Gives
    <2>4. CASE InRow(qu) /\ qu # <<>> /\ newQu = Tail(qu)
      <3>1. EndsWith(newQu, lo) /\ (newQu = <<>> => lo = qu[1].version)
        BY <2>2, <2>4, QueueShrinks
      <3>2. CASE st = "applying" /\ newSt = "applying" /\ newSv = sv
        BY <2>2, <3>1, <3>2 DEF Following
      <3>3. CASE newSt = "mapped" /\ newSv = qu[1].version
        BY <2>2, <3>1, <3>3 DEF Following
      <3> QED
        BY <2>3, <3>2, <3>3 DEF Gives
    <2> QED
      BY <2>3, <2>4 DEF Gives
  <1> QED
    BY <1>1, <1>2 DEF Stage, IsReply
-----------------------------------------------------------------------------
(* The answer to a map request.                                            *)

(* Data somewhere in a stream.                                             *)
LEMMA Shifts ==
    ASSUME NEW q, NEW t, NEW i, NEW s \in Nat, NEW N \in Nat, NEW lo, NEW hi,
           \A k \in 1..N : t[s + k] = q[k]
    PROVE  /\ Chain(q, i, 0, N, lo) => Chain(t, i, s, s + N, lo)
           /\ Covers(q, i, 0, N, lo, hi) => Covers(t, i, s, s + N, lo, hi)
  <1>1. \A k \in s + 1..s + N : k - s \in 0 + 1..N /\ t[k] = q[k - s]
    <2> SUFFICES ASSUME NEW k \in s + 1..s + N
                 PROVE  k - s \in 0 + 1..N /\ t[k] = q[k - s]
      OBVIOUS
    <2>1. k - s \in 1..N /\ s + (k - s) = k
      OBVIOUS
    <2> QED
      BY <2>1
  <1>2. \A k \in 0 + 1..N : s + k \in s + 1..s + N /\ t[s + k] = q[k]
    OBVIOUS
  <1>3. Covers(q, i, 0, N, lo, hi) => Covers(t, i, s, s + N, lo, hi)
    BY <1>1, <1>2 DEF Covers
  <1>4. ASSUME NEW k \in s + 1..s + N, Open(t, i, k)
        PROVE  Open(q, i, k - s)
    <2> SUFFICES ASSUME NEW j \in 1..(k - s) - 1
                 PROVE  ~Ends(q[j], i)
      BY DEF Open
    <2>1. j \in 1..N /\ s + j \in 1..k - 1
      OBVIOUS
    <2> QED
      BY <1>4, <2>1 DEF Open
  <1>5. ASSUME Chain(q, i, 0, N, lo)
        PROVE  Chain(t, i, s, s + N, lo)
    <2> SUFFICES ASSUME NEW k \in s + 1..s + N, Carries(t[k], i), Open(t, i, k)
                 PROVE  /\ t[k].version > lo
                        /\ \A j \in s + 1..k - 1 : Carries(t[j], i) => t[j].version < t[k].version
                        /\ \/ t[k].version = lo + 1
                           \/ \E j \in s + 1..k - 1 :
                                 Carries(t[j], i) /\ t[j].version + 1 = t[k].version
      BY DEF Chain
    <2> DEFINE m == k - s
    <2>1. m \in 0 + 1..N /\ t[k] = q[m] /\ Open(q, i, m)
      BY <1>1, <1>4
    <2>2. /\ q[m].version > lo
          /\ \A j \in 0 + 1..m - 1 : Carries(q[j], i) => q[j].version < q[m].version
          /\ \/ q[m].version = lo + 1
             \/ \E j \in 0 + 1..m - 1 : Carries(q[j], i) /\ q[j].version + 1 = q[m].version
      BY <1>5, <2>1 DEF Chain
    <2>3. \A j \in s + 1..k - 1 : j - s \in 0 + 1..m - 1 /\ t[j] = q[j - s]
      BY <1>1
    <2>4. \A j \in 0 + 1..m - 1 : s + j \in s + 1..k - 1 /\ t[s + j] = q[j]
      BY <1>2
    <2> HIDE DEF m
    <2> QED
      BY <2>1, <2>2, <2>3, <2>4
  <1> QED
    BY <1>3, <1>5

(* Map data that leads from version lo to version hi, in parts.            *)
Delivers(data, i, lo, hi) ==
    /\ \A k \in 1..Len(data) : i \in data[k].insts /\ data[k].type \in {"map", "empty"}
    /\ Chain(data, i, 0, Len(data), lo)
    /\ Covers(data, i, 0, Len(data), lo, hi)

(* The positions of an answer behind the stream d.                         *)
IsAnswer(t, d, p, data, reply) ==
    /\ Len(t) = Len(d) + Len(data) + 2
    /\ \A k \in 1..Len(d) : t[k] = d[k]
    /\ t[Len(d) + 1] = p
    /\ \A k \in 1..Len(data) : t[(Len(d) + 1) + k] = data[k]
    /\ t[Len(t)] = reply

(* A success packet, the map data and the reply.                           *)
LEMMA AnswerParts ==
    ASSUME NEW S, NEW d \in Seq(S), NEW data \in Seq(S), NEW p \in S, NEW reply \in S,
           NEW t, t = d \o (<<p>> \o data \o <<reply>>)
    PROVE  /\ t \in Seq(S) /\ Len(d) \in Nat /\ Len(data) \in Nat
           /\ IsAnswer(t, d, p, data, reply)
  <1> DEFINE a == <<p>> \o data
             b == a \o <<reply>>
  <1>1. <<p>> \in Seq(S) /\ <<reply>> \in Seq(S) /\ Len(<<p>>) = 1 /\ Len(<<reply>>) = 1
        /\ <<p>>[1] = p /\ <<reply>>[1] = reply
    OBVIOUS
  <1>2. /\ a \in Seq(S) /\ Len(a) = Len(data) + 1 /\ Len(data) \in Nat
        /\ a[1] = p /\ \A k \in 1..Len(data) : a[1 + k] = data[k]
    <2>1. /\ a \in Seq(S) /\ Len(a) = Len(<<p>>) + Len(data) /\ Len(data) \in Nat
          /\ \A k \in 1..Len(<<p>>) : a[k] = <<p>>[k]
          /\ \A k \in 1..Len(data) : a[Len(<<p>>) + k] = data[k]
      BY <1>1, Grows
    <2> HIDE DEF a
    <2> QED
      BY <1>1, <2>1
  <1>3. /\ b \in Seq(S) /\ Len(b) = Len(data) + 2
        /\ b[1] = p /\ \A k \in 1..Len(data) : b[1 + k] = data[k]
        /\ b[Len(b)] = reply
    <2>1. /\ b \in Seq(S) /\ Len(b) = Len(a) + Len(<<reply>>)
          /\ \A k \in 1..Len(a) : b[k] = a[k]
          /\ \A k \in 1..Len(<<reply>>) : b[Len(a) + k] = <<reply>>[k]
      BY <1>1, <1>2, Grows
    <2>2. 1 \in 1..Len(a) /\ \A k \in 1..Len(data) : 1 + k \in 1..Len(a)
      BY <1>2
    <2>3. Len(b) = Len(data) + 2 /\ b[Len(b)] = reply
      BY <1>1, <1>2, <2>1
    <2> HIDE DEF a, b
    <2> QED
      BY <1>2, <2>1, <2>2, <2>3
  <1>4. /\ t \in Seq(S) /\ Len(t) = Len(d) + Len(b) /\ Len(d) \in Nat
        /\ \A k \in 1..Len(d) : t[k] = d[k]
        /\ \A k \in 1..Len(b) : t[Len(d) + k] = b[k]
    BY <1>3, Grows
  <1>5. /\ 1 \in 1..Len(b) /\ Len(b) \in 1..Len(b) /\ Len(t) = Len(d) + Len(data) + 2
        /\ Len(d) + Len(b) = Len(t)
        /\ \A k \in 1..Len(data) : 1 + k \in 1..Len(b) /\ Len(d) + (1 + k) = (Len(d) + 1) + k
    BY <1>2, <1>3, <1>4
  <1> HIDE DEF a, b
  <1> QED
    BY <1>2, <1>3, <1>4, <1>5 DEF IsAnswer

(* What is sent to an instance that is not attached yet.                   *)
LEMMA AnswerStage ==
    ASSUME NEW d \in Seq(DownPacket), NEW data \in Seq(DownPacket),
           NEW p \in DownPacket, NEW reply \in DownPacket,
           NEW t, IsAnswer(t, d, p, data, reply), NEW i,
           Begins(p, i), IsReply(reply, i),
           \A k \in 1..Len(d) : ~Begins(d[k], i) /\ ~IsReply(d[k], i),
           NEW lo \in Version, NEW hi \in Version, NEW v \in Version,
           Delivers(data, i, lo, hi), NEW item, LeadsTo(reply, lo + 1, hi, v, item),
           \A k \in 1..Len(d) : IsData(d[k]) => d[k].version =< v,
           \A k \in 1..Len(data) : data[k].version =< v,
           NEW st, NEW att, ~att, NEW qu, NEW sv, NEW mt, NEW member
    PROVE  Stage(i, t, st, att, qu, sv, mt, item, v, member)
  <1> DEFINE D == Len(d)
             N == Len(data)
             start == D + 1
             r == Len(t)
  <1>1. D \in Nat /\ N \in Nat /\ start \in Nat /\ r = start + N + 1 /\ start \in 0..r - 1
        /\ r - 1 = start + N /\ r \in Nat /\ v \in Nat
    BY MappingAssumption DEF IsAnswer, Version
  <1>2. \A k \in 1..r : k \in 1..D \/ k = start \/ k \in start + 1..start + N \/ k = r
    BY <1>1
  <1>3. \A k \in start + 1..start + N : k - start \in 1..N /\ t[k] = data[k - start]
    <2> SUFFICES ASSUME NEW k \in start + 1..start + N
                 PROVE  k - start \in 1..N /\ t[k] = data[k - start]
      OBVIOUS
    <2>1. k - start \in 1..N /\ start + (k - start) = k
      BY <1>1
    <2> QED
      BY <2>1 DEF IsAnswer
  <1>4. \A k \in start + 1..start + N :
           /\ i \in t[k].insts /\ t[k].type \in {"map", "empty"} /\ t[k].version =< v
    BY <1>3 DEF Delivers
  <1>5. t[start] = p /\ t[r] = reply /\ \A k \in 1..D : t[k] = d[k]
    BY DEF IsAnswer
  <1>6. Held(start, qu) = <<>> /\ First(Held(start, qu), lo) = lo + 1
        /\ EndsWith(Held(start, qu), lo)
    BY <1>1 DEF Held, First, EndsWith
  <1>7. Batch(i, t, start, r, att)
    <2>1. start # 0 /\ \A k \in 1..start - 1 : k \in 1..D
      BY <1>1
    <2>2. \A k \in start + 1..r - 1 : i \in t[k].insts /\ t[k].type \in {"map", "empty"}
      BY <1>1, <1>4
    <2> HIDE DEF start, r, D
    <2> QED
      BY <1>5, <2>1, <2>2 DEF Batch, D
  <1>8. Brings(i, t, start, r, Held(start, qu), lo, hi)
    <2>1. \A k \in 1..N : t[start + k] = data[k]
      BY DEF IsAnswer
    <2>2. Chain(data, i, 0, N, lo) /\ Covers(data, i, 0, N, lo, hi)
      BY DEF Delivers
    <2> HIDE DEF start, N, r
    <2>3. Chain(t, i, start, start + N, lo) /\ Covers(t, i, start, start + N, lo, hi)
      BY <1>1, <2>1, <2>2, Shifts
    <2> QED
      BY <1>1, <1>6, <2>3 DEF Brings
  <1>9. LeadsTo(t[r], First(Held(start, qu), lo), hi, v, item)
    BY <1>5, <1>6
  <1>10. Older(t, r, v)
    <2> SUFFICES ASSUME NEW k \in 1..r - 1, IsData(t[k])
                 PROVE  t[k].version =< v
      BY DEF Older
    <2>1. k \in 1..D \/ k = start \/ k \in start + 1..start + N
      BY <1>1
    <2>2. ~IsData(p)
      BY DEF Begins, IsData
    <2> HIDE DEF start, r, D, N
    <2> QED
      BY <1>4, <1>5, <2>1, <2>2 DEF IsAnswer, D
  <1>11. Trails(i, t, r, v, v, member)
    <2>1. \A k \in r + 1..r : FALSE
      BY <1>1
    <2>2. v =< v
      BY <1>1
    <2> QED
      BY <2>1, <2>2 DEF Trails, Chain, Covers
  <1>12. Answered(i, t, r, att, qu, item, v, member)
    <2> HIDE DEF start, r
    <2> QED
      BY <1>1, <1>7, <1>8, <1>9, <1>10, <1>11 DEF Answered
  <1>13. ASSUME NEW k \in 1..r, IsReply(t[k], i)
         PROVE  k = r
    <2>1. ~IsReply(p, i)
      BY DEF Begins, IsReply
    <2>2. \A j \in start + 1..start + N : ~IsReply(t[j], i)
      BY <1>4 DEF IsReply
    <2> HIDE DEF start, r, D, N
    <2> QED
      BY <1>2, <1>5, <1>13, <2>1, <2>2 DEF D
  <1> HIDE DEF start, D, N
  <1> QED
    BY <1>12, <1>13 DEF Stage, IsReply

(* Map data of consecutive versions, one packet each.                      *)
LEMMA RowDelivers ==
    ASSUME NEW data, NEW i, NEW a \in Int, NEW b \in Int, NEW N \in Nat, Len(data) = N,
           N = IF a =< b THEN b - a + 1 ELSE 0, NEW hi, hi = IF a =< b THEN b ELSE a - 1,
           \A k \in 1..N : /\ i \in data[k].insts /\ data[k].type = "map" /\ data[k].last
                           /\ data[k].version = a + k - 1
    PROVE  Delivers(data, i, a - 1, hi)
  <1>1. \A k \in 1..N : Carries(data[k], i)
    BY DEF Carries
  <1>2. Chain(data, i, 0, N, a - 1)
    <2> SUFFICES ASSUME NEW k \in 0 + 1..N
                 PROVE  /\ data[k].version > a - 1
                        /\ \A j \in 0 + 1..k - 1 : Carries(data[j], i) => data[j].version < data[k].version
                        /\ \/ data[k].version = (a - 1) + 1
                           \/ \E j \in 0 + 1..k - 1 :
                                 Carries(data[j], i) /\ data[j].version + 1 = data[k].version
      BY DEF Chain
    <2>1. k \in 1..N /\ data[k].version = a + k - 1
      OBVIOUS
    <2>2. \A j \in 0 + 1..k - 1 : j \in 1..N /\ data[j].version = a + j - 1
      OBVIOUS
    <2>3. CASE k = 1
      BY <2>1, <2>3
    <2>4. CASE k # 1
      <3>1. k - 1 \in 0 + 1..k - 1 /\ k - 1 \in 1..N
        BY <2>4
      <3>2. Carries(data[k - 1], i) /\ data[k - 1].version + 1 = data[k].version
        BY <1>1, <2>1, <2>2, <3>1
      <3> QED
        BY <2>1, <2>2, <3>1, <3>2
    <2> QED
      BY <2>3, <2>4
  <1>3. Covers(data, i, 0, N, a - 1, hi)
    <2>1. CASE a =< b
      <3>1. N \in 0 + 1..N /\ N \in 1..N /\ data[N].version = b
        BY <2>1
      <3>2. \A k \in 0 + 1..N : data[k].version =< b
        BY <2>1
      <3> QED
        BY <1>1, <2>1, <3>1, <3>2 DEF Covers
    <2>2. CASE ~(a =< b)
      BY <2>2 DEF Covers
    <2> QED
      BY <2>1, <2>2
  <1> QED
    BY <1>2, <1>3 DEF Delivers

(* Map data of one version: no packet, or one that carries it, behind one  *)
(* that does not.                                                          *)
LEMMA OneDelivers ==
    ASSUME NEW i, NEW v \in Nat, NEW p, NEW part,
           i \in p.insts /\ Carries(p, i) /\ p.type \in {"map", "empty"} /\ p.version = v,
           i \in part.insts /\ ~Carries(part, i) /\ part.type \in {"map", "empty"}
    PROVE  /\ Delivers(<<>>, i, v, v)
           /\ Delivers(<<p>>, i, v - 1, v)
           /\ Delivers(<<part, p>>, i, v - 1, v)
  <1>1. Delivers(<<>>, i, v, v)
    BY DEF Delivers, Chain, Covers
  <1>2. Delivers(<<p>>, i, v - 1, v)
    <2>1. Len(<<p>>) = 1 /\ <<p>>[1] = p /\ 1 \in 0 + 1..1
          /\ (\A k \in 0 + 1..1 : k = 1) /\ (\A k \in 1..1 : k = 1)
          /\ (v - 1) + 1 = v /\ v > v - 1 /\ v =< v /\ v - 1 =< v
          /\ \A k \in 0 + 1..1 - 1 : FALSE
      OBVIOUS
    <2> DEFINE s == <<p>>
    <2> HIDE DEF s
    <2>2. Len(s) = 1 /\ s[1] = p
      BY <2>1 DEF s
    <2>3. Chain(s, i, 0, 1, v - 1)
      BY <2>1, <2>2 DEF Chain
    <2>4. Covers(s, i, 0, 1, v - 1, v)
      BY <2>1, <2>2 DEF Covers
    <2> QED
      BY <2>1, <2>2, <2>3, <2>4 DEF Delivers, s
  <1>3. Delivers(<<part, p>>, i, v - 1, v)
    <2> DEFINE s == <<part, p>>
    <2>1. Len(s) = 2 /\ s[1] = part /\ s[2] = p
      OBVIOUS
    <2>2. 2 \in 0 + 1..2 /\ (\A k \in 0 + 1..2 : k = 1 \/ k = 2)
          /\ (\A k \in 1..2 : k = 1 \/ k = 2)
          /\ (v - 1) + 1 = v /\ v > v - 1 /\ v =< v /\ v - 1 =< v
          /\ \A k \in 0 + 1..2 - 1 : k = 1
      OBVIOUS
    <2> HIDE DEF s
    <2>3. Chain(s, i, 0, 2, v - 1)
      BY <2>1, <2>2 DEF Chain
    <2>4. Covers(s, i, 0, 2, v - 1, v)
      BY <2>1, <2>2 DEF Covers
    <2> QED
      BY <2>1, <2>2, <2>3, <2>4 DEF Delivers, s
  <1> QED
    BY <1>1, <1>2, <1>3

(* A part of a sequence.                                                   *)
IsPart(s, q, m, n) ==
    /\ Len(s) = IF m <= n THEN n - m + 1 ELSE 0
    /\ \A k \in 1..Len(s) : s[k] = q[m + k - 1]

(* SubSeq takes the elements between two positions.                        *)
LEMMA PartOfSeq ==
    ASSUME NEW S, NEW q, NEW m \in Int, NEW n \in Int, \A k \in m..n : q[k] \in S
    PROVE  IsPart(SubSeq(q, m, n), q, m, n)
  <1> DEFINE s == SubSeq(q, m, n)
  <1>1. /\ Len(s) = IF m <= n THEN n - m + 1 ELSE 0
        /\ \A k \in 1..n - m + 1 : s[k] = q[m + k - 1]
    BY SubSeqProperties
  <1> HIDE DEF s
  <1>2. \A k \in 1..Len(s) : k \in 1..n - m + 1
    BY <1>1
  <1>3. IsPart(s, q, m, n)
    BY <1>1, <1>2 DEF IsPart
  <1> QED
    BY <1>3 DEF s

(* The retained versions from a to b, at positions m to n.                 *)
Positions(m, n, a, b, v, L) ==
    /\ m \in Int /\ n \in Int /\ m = a - (v - L) /\ n = b - (v - L)
    /\ m >= 1 /\ n =< L

(* The versions that MapData takes from the retained ones are in a row.    *)
LEMMA PartInRow ==
    ASSUME NEW sent, NEW datas, NEW L \in Nat, NEW v \in Int,
           \A k \in 1..L : datas[k].version = v - L + k,
           NEW a \in Int, NEW b \in Int, NEW m, NEW n, Positions(m, n, a, b, v, L),
           IsPart(sent, datas, m, n)
    PROVE  /\ Len(sent) \in Nat
           /\ Len(sent) = IF a =< b THEN b - a + 1 ELSE 0
           /\ \A k \in 1..Len(sent) : sent[k].version = a + k - 1
  <1>1. Len(sent) = IF m <= n THEN n - m + 1 ELSE 0
    BY DEF IsPart
  <1> USE DEF Positions
  <1>2. Len(sent) \in Nat /\ Len(sent) = IF a =< b THEN b - a + 1 ELSE 0
    BY <1>1
  <1>3. ASSUME NEW k \in 1..Len(sent)
        PROVE  sent[k].version = a + k - 1
    <2> DEFINE j == m + k - 1
    <2>1. j \in 1..L
      BY <1>1
    <2>2. sent[k] = datas[j]
      BY DEF IsPart
    <2>3. v - L + j = a + k - 1
      OBVIOUS
    <2> HIDE DEF j
    <2> QED
      BY <2>1, <2>2, <2>3
  <1> QED
    BY <1>2, <1>3

(* The oldest retained version.                                            *)
LEMMA OldestRetained ==
    ASSUME MasterTypeOK, CheckConsistency, Buffered
    PROVE  /\ instanceDatas \in Seq(InstanceData) /\ Len(instanceDatas) \in Nat \ {0}
           /\ version \in Nat
           /\ \A k \in 1..Len(instanceDatas) :
                 instanceDatas[k].version = version - Len(instanceDatas) + k
           /\ instanceDatas[1].version = version - Len(instanceDatas) + 1
           /\ instanceDatas[1].version \in 1..version
  <1>1. instanceDatas \in Seq(InstanceData) /\ Len(instanceDatas) \in Nat \ {0}
    BY EmptySeq, LenProperties DEF MasterTypeOK, CheckConsistency
  <1>2. 1 \in 1..Len(instanceDatas)
    BY <1>1
  <1>3. \A k \in 1..Len(instanceDatas) :
           /\ instanceDatas[k].version = version - Len(instanceDatas) + k
           /\ instanceDatas[k].version # 0
    BY DEF CheckConsistency, Consecutive
  <1>4. version \in Nat /\ instanceDatas[1].version \in Nat
    BY <1>1, <1>2, DataFields DEF MasterTypeOK
  <1>5. instanceDatas[1].version = version - Len(instanceDatas) + 1
        /\ instanceDatas[1].version # 0
    BY <1>2, <1>3
  <1>6. instanceDatas[1].version \in 1..version
    BY <1>1, <1>4, <1>5
  <1> QED
    BY <1>1, <1>3, <1>4, <1>5, <1>6

IsSent(sent, a, b) ==
    LET dropped == instanceDatas[1].version - 1
    IN  sent = SubSeq(instanceDatas, a - dropped, b - dropped)

(* What _initSlave takes from the retained data.                           *)
LEMMA RetainedInRow ==
    ASSUME MasterTypeOK, CheckConsistency, Buffered, NEW a \in Int, NEW b \in Int,
           a >= instanceDatas[1].version, b =< version, NEW sent, IsSent(sent, a, b)
    PROVE  /\ Len(sent) \in Nat
           /\ Len(sent) = IF a =< b THEN b - a + 1 ELSE 0
           /\ \A k \in 1..Len(sent) : sent[k].version = a + k - 1
  <1> DEFINE L == Len(instanceDatas)
             oldest == instanceDatas[1].version
             m == a - (oldest - 1)
             n == b - (oldest - 1)
  <1>1. /\ instanceDatas \in Seq(InstanceData) /\ L \in Nat
        /\ version \in Nat /\ version \in Int
        /\ oldest \in Int /\ oldest = version - L + 1
        /\ \A k \in 1..L : instanceDatas[k].version = version - L + k
    BY OldestRetained
  <1>2. L = Len(instanceDatas) /\ a >= oldest
    OBVIOUS
  <1>3. sent = SubSeq(instanceDatas, m, n)
    BY DEF IsSent
  <1> HIDE DEF L, oldest
  <1>4. Positions(m, n, a, b, version, L) /\ m \in Int /\ n \in Int /\ m >= 1 /\ n =< L
    BY <1>1, <1>2 DEF Positions
  <1> HIDE DEF m, n
  <1>5. \A k \in m..n : instanceDatas[k] \in InstanceData
    <2>1. \A k \in m..n : k \in 1..L
      BY <1>1, <1>4
    <2> QED
      BY <1>1, <1>2, <2>1, ElementOfSeq
  <1>6. IsPart(sent, instanceDatas, m, n)
    BY <1>3, <1>4, <1>5, PartOfSeq
  <1> QED
    BY <1>1, <1>4, <1>6, PartInRow

(* The version of the map reply.                                           *)
LEMMA MappedIsCommitted ==
    ASSUME MasterTypeOK, InstanceTypeOK, CheckConsistency, NEW requested \in Int,
           requested =< version
    PROVE  /\ MappedVersion(requested) \in 1..version
           /\ ~Buffered \/ requested = VERSION_NONE => MappedVersion(requested) = version
           /\ Buffered => MappedVersion(requested) >= instanceDatas[1].version
  <1>1. version \in Int /\ version >= 1
    BY MappingAssumption DEF InstanceTypeOK
  <1>2. CASE ~Buffered
    BY <1>1, <1>2 DEF MappedVersion
  <1>3. CASE Buffered
    <2>1. instanceDatas[1].version \in 1..version
      BY <1>3, OldestRetained
    <2> QED
      BY <1>1, <1>3, <2>1 DEF MappedVersion, VERSION_OLDEST
  <1> QED
    BY <1>2, <1>3

\* What a request announced is in the cache.
CacheHolds(request, item) == request.useCache => Holds(request, item)

(* What was announced as cached is there, and none of it is newer than the *)
(* head version.                                                           *)
LEMMA AnnouncedIsOld ==
    ASSUME NEW item \in CacheItem, NotAfter(item, version), InstanceTypeOK,
           NEW request \in RequestPacket, CacheHolds(request, item),
           request.useCache, request.maxCached # VERSION_INVALID
    PROVE  /\ Ready(item, request.minCached, request.maxCached)
           /\ request.minCached =< request.maxCached => request.maxCached =< version
  <1>1. request.minCached \in Nat /\ request.maxCached \in Nat
        /\ request.type = "mapObject"
    BY DEF RequestPacket
  <1>2. \A w \in request.minCached..request.maxCached : ReadyIn(item, w)
    BY <1>1 DEF CacheHolds, Holds, AnnouncedBy
  <1>3. ASSUME request.minCached =< request.maxCached
        PROVE  request.maxCached =< version
    <2>1. request.maxCached \in request.minCached..request.maxCached
      BY <1>1, <1>3
    <2>2. ReadyIn(item, request.maxCached)
      BY <1>2, <2>1
    <2> QED
      BY <2>2 DEF ReadyIn, NotAfter
  <1> QED
    BY <1>2, <1>3 DEF Ready

(* What _initSlave of a buffered object sends, a..b, is completed by what  *)
(* the node has cached.                                                    *)
LEMMA SentLeads ==
    ASSUME MasterTypeOK, InstanceTypeOK, CheckConsistency, Buffered,
           NEW item \in CacheItem, NotAfter(item, version),
           NEW request \in RequestPacket, CacheHolds(request, item), Requested(request),
           request.version # VERSION_NONE,
           NEW reply, reply.version = MappedVersion(request.version),
           reply.useCache = request.useCache,
           NEW a, NEW b, a = SentVersions(request).start, b = SentVersions(request).end,
           NEW hi, hi = IF a =< b THEN b ELSE a - 1
    PROVE  /\ a \in Int /\ b \in Int /\ a >= instanceDatas[1].version /\ b =< version
           /\ a - 1 \in Version /\ hi \in Version
           /\ LeadsTo(reply, a, hi, version, item)
  <1> DEFINE V == MappedVersion(request.version)
             min == request.minCached
             max == request.maxCached
  <1>1. /\ request.version \in Int /\ min \in Nat /\ max \in Nat
        /\ request.type = "mapObject" /\ request.useCache \in BOOLEAN
        /\ version \in Nat /\ version \in Int /\ version =< LastVersion /\ LastVersion \in Nat
    BY MappingAssumption DEF RequestPacket, InstanceTypeOK
  <1>2. request.version =< version /\ max # VERSION_INVALID
    BY <1>1 DEF Requested
  <1>3. V \in 1..version /\ V >= instanceDatas[1].version /\ instanceDatas[1].version \in Int
    <2>1. instanceDatas[1].version \in Int
      BY OldestRetained
    <2>2. \A x \in Int : x =< version =>
             MappedVersion(x) \in 1..version /\ MappedVersion(x) >= instanceDatas[1].version
      BY MappedIsCommitted
    <2> QED
      BY <1>1, <1>2, <2>1, <2>2
  <1>4. request.useCache =>
           /\ \A w \in min..max : ReadyIn(item, w)
           /\ min =< max => max =< version
    BY <1>2, AnnouncedIsOld DEF Ready
  <1>5. SentVersions(request) =
           IF CacheHit(request, V) THEN [start |-> max + 1, end |-> version]
           ELSE IF request.useCache /\ max = version /\ min \in V + 1..version
           THEN [start |-> V, end |-> min - 1]
           ELSE [start |-> V, end |-> version]
    BY DEF SentVersions, MapDataRange
  <1>6. reply.version = V
    OBVIOUS
  <1> HIDE DEF V, min, max
  <1>7. CASE CacheHit(request, V)
    <2>1. a = max + 1 /\ b = version
      BY <1>5, <1>7
    <2>2. request.useCache /\ min =< V /\ V =< max
      BY <1>7 DEF CacheHit, min, max
    <2>3. min =< max /\ max =< version
      BY <1>1, <1>3, <1>4, <2>2
    <2>4. /\ a \in Int /\ b \in Int /\ a >= instanceDatas[1].version /\ b =< version
          /\ a - 1 \in Version /\ hi \in Version /\ hi = version
      BY <1>1, <1>3, <2>1, <2>2, <2>3 DEF Version
    <2>5. Ready(item, V, a - 1)
      BY <1>1, <1>3, <1>4, <2>1, <2>2 DEF Ready
    <2>6. Ready(item, hi + 1, version)
      BY <1>1, <2>4 DEF Ready
    <2>7. a =< hi => V =< a
      BY <1>1, <1>3, <2>1, <2>2
    <2>8. ~(a =< hi) => Ready(item, V, version)
      BY <1>1, <2>1, <2>3, <2>4, <2>5 DEF Ready
    <2>9. Glued(reply, a, hi, version, item)
      BY <1>6, <2>2, <2>5, <2>6, <2>7, <2>8 DEF Glued
    <2> QED
      BY <1>1, <1>3, <1>6, <2>4, <2>7, <2>9 DEF LeadsTo
  <1>8. CASE /\ ~CacheHit(request, V)
             /\ request.useCache /\ max = version /\ min \in V + 1..version
    <2>1. a = V /\ b = min - 1
      BY <1>5, <1>8
    <2>2. /\ a \in Int /\ b \in Int /\ a >= instanceDatas[1].version /\ b =< version
          /\ a - 1 \in Version /\ hi \in Version /\ hi = b /\ a =< hi /\ V =< a
          /\ hi + 1 = min /\ hi =< version
      BY <1>1, <1>3, <1>8, <2>1 DEF Version
    <2>3. Ready(item, V, a - 1)
      BY <1>1, <1>3, <2>1 DEF Ready
    <2>4. Ready(item, hi + 1, version)
      BY <1>4, <1>8, <2>2 DEF Ready
    <2>5. Glued(reply, a, hi, version, item)
      BY <1>6, <1>8, <2>2, <2>3, <2>4 DEF Glued
    <2> QED
      BY <1>3, <1>6, <2>2, <2>5 DEF LeadsTo
  <1>9. CASE /\ ~CacheHit(request, V)
             /\ ~(request.useCache /\ max = version /\ min \in V + 1..version)
    <2>1. a = V /\ b = version
      BY <1>5, <1>9
    <2>2. /\ a \in Int /\ b \in Int /\ a >= instanceDatas[1].version /\ b =< version
          /\ a - 1 \in Version /\ hi \in Version /\ hi = version /\ a =< hi /\ V =< a
          /\ hi =< version
      BY <1>1, <1>3, <2>1 DEF Version
    <2>3. Ready(item, V, a - 1)
      BY <1>1, <1>3, <2>1 DEF Ready
    <2>4. Ready(item, hi + 1, version)
      BY <1>1, <2>2 DEF Ready
    <2>5. Glued(reply, a, hi, version, item)
      BY <1>6, <2>2, <2>3, <2>4 DEF Glued
    <2> QED
      BY <1>3, <1>6, <2>2, <2>5 DEF LeadsTo
  <1> QED
    BY <1>7, <1>8, <1>9

(* The map data and the reply, with what the node has cached, lead the new *)
(* slave to the head version.                                              *)
LEMMA MapDataLeads ==
    ASSUME MasterTypeOK, InstanceTypeOK, CheckConsistency,
           NEW item \in CacheItem, NotAfter(item, version),
           NEW request \in RequestPacket, CacheHolds(request, item), Requested(request),
           NEW i \in Instances, NEW reply, reply.version = MappedVersion(request.version),
           reply.useCache = RepliesUseCache(request),
           NEW data, data = MapData(i, request)
    PROVE  /\ \E lo, hi \in Version :
                 Delivers(data, i, lo, hi) /\ LeadsTo(reply, lo + 1, hi, version, item)
           /\ \A k \in 1..Len(data) : data[k].version =< version
  <1> DEFINE V == MappedVersion(request.version)
             empty == Packet("empty", {i}, version)
             part == MapPacket(i, version, FALSE)
             whole == MapPacket(i, version, TRUE)
             Goal == /\ \E lo, hi \in Version :
                           Delivers(data, i, lo, hi)
                           /\ LeadsTo(reply, lo + 1, hi, version, item)
                     /\ \A k \in 1..Len(data) : data[k].version =< version
  <1>1. /\ request.version \in Int /\ request.type = "mapObject"
        /\ request.useCache \in BOOLEAN
        /\ version \in Nat /\ version >= 1 /\ version =< LastVersion /\ LastVersion \in Nat
    BY MappingAssumption DEF RequestPacket, InstanceTypeOK
  <1>2. request.version =< version
    BY <1>1 DEF Requested
  <1>3. V \in 1..version
    BY <1>1, <1>2, MappedIsCommitted
  <1>4. version \in Version /\ version - 1 \in Version /\ (version - 1) + 1 = version
    BY <1>1 DEF Version
  <1>5. /\ Delivers(<<>>, i, version, version)
        /\ Delivers(<<empty>>, i, version - 1, version)
        /\ Delivers(<<whole>>, i, version - 1, version)
        /\ Delivers(<<part, whole>>, i, version - 1, version)
    <2>1. /\ i \in empty.insts /\ Carries(empty, i) /\ empty.type \in {"map", "empty"}
          /\ empty.version = version
          /\ i \in whole.insts /\ Carries(whole, i) /\ whole.type \in {"map", "empty"}
          /\ whole.version = version
          /\ i \in part.insts /\ ~Carries(part, i) /\ part.type \in {"map", "empty"}
      BY DEF Carries, Packet, MapPacket
    <2> HIDE DEF empty, whole, part
    <2> QED
      BY <1>1, <2>1, OneDelivers
  <1>6. /\ \A k \in 1..Len(<<empty>>) : <<empty>>[k].version =< version
        /\ \A k \in 1..Len(<<whole>>) : <<whole>>[k].version =< version
        /\ \A k \in 1..Len(<<part, whole>>) : <<part, whole>>[k].version =< version
    <2>1. empty.version =< version /\ whole.version =< version /\ part.version =< version
      BY <1>1 DEF Packet, MapPacket
    <2> HIDE DEF empty, whole, part
    <2> QED
      BY <2>1
  <1>7. ASSUME V = version
        PROVE  /\ ~reply.useCache => LeadsTo(reply, version, version, version, item)
               /\ LeadsTo(reply, version + 1, version, version, item)
    <2>1. reply.version = version /\ version =< version /\ ~(version + 1 =< version)
          /\ version \in 1..version
      BY <1>1, <1>7
    <2> QED
      BY <2>1 DEF LeadsTo, Glued
  <1>8. CASE request.version = 0
    <2>1. data = <<empty>>
      BY <1>8 DEF MapData
    <2>2. V = version
      BY <1>1, <1>2, <1>8, MappedIsCommitted
    <2>3. ~reply.useCache
      BY <1>8 DEF RepliesUseCache
    <2> HIDE DEF empty, V
    <2> QED
      BY <1>4, <1>5, <1>6, <1>7, <2>1, <2>2, <2>3
  <1>9. CASE request.version # 0 /\ ~Buffered
    <2>1. data \in {<<>>, <<whole>>, <<part, whole>>}
          /\ (data = <<>> \/ ~RepliesUseCache(request))
      BY <1>9 DEF MapData
    <2>2. V = version
      BY <1>1, <1>2, <1>9, MappedIsCommitted
    <2> HIDE DEF empty, V, whole, part
    <2>3. CASE data = <<>>
      <3>1. Len(data) = 0
        BY <2>3
      <3> QED
        BY <1>4, <1>5, <1>7, <2>2, <2>3, <3>1
    <2>4. CASE data # <<>>
      BY <1>4, <1>5, <1>6, <1>7, <2>1, <2>2, <2>4
    <2> QED
      BY <2>3, <2>4
  <1>10. CASE request.version # 0 /\ Buffered
    <2> DEFINE a == SentVersions(request).start
               b == SentVersions(request).end
               hi == IF a =< b THEN b ELSE a - 1
               dropped == instanceDatas[1].version - 1
               sent == SubSeq(instanceDatas, a - dropped, b - dropped)
    <2>1. data = [k \in 1..Len(sent) |-> MapPacket(i, sent[k].version, TRUE)]
      BY <1>10 DEF MapData
    <2>2. IsSent(sent, a, b)
      BY DEF IsSent
    <2>3. reply.useCache = request.useCache
      BY <1>1, <1>10 DEF RepliesUseCache
    <2> HIDE DEF sent, a, b, hi
    <2>4. a = SentVersions(request).start /\ b = SentVersions(request).end
          /\ hi = IF a =< b THEN b ELSE a - 1
      BY DEF a, b, hi
    <2>5. /\ a \in Int /\ b \in Int /\ a >= instanceDatas[1].version /\ b =< version
          /\ a - 1 \in Version /\ hi \in Version
          /\ LeadsTo(reply, a, hi, version, item)
      BY <1>10, <2>3, <2>4, SentLeads
    <2>6. /\ Len(sent) \in Nat
          /\ Len(sent) = IF a =< b THEN b - a + 1 ELSE 0
          /\ \A k \in 1..Len(sent) : sent[k].version = a + k - 1
      BY <1>10, <2>2, <2>5, RetainedInRow
    <2> DEFINE N == Len(sent)
    <2>7. /\ Len(data) = N
          /\ \A k \in 1..N : /\ i \in data[k].insts /\ data[k].type = "map" /\ data[k].last
                             /\ data[k].version = a + k - 1
      BY <2>1, <2>6 DEF MapPacket
    <2> HIDE DEF N
    <2>8. N \in Nat /\ N = IF a =< b THEN b - a + 1 ELSE 0
      BY <2>6 DEF N
    <2>9. Delivers(data, i, a - 1, hi)
      BY <2>4, <2>5, <2>7, <2>8, RowDelivers
    <2>10. \A k \in 1..Len(data) : data[k].version =< version
      BY SMTT(40), <1>1, <2>5, <2>7, <2>8
    <2>11. (a - 1) + 1 = a
      BY <2>5
    <2> QED
      BY <2>5, <2>9, <2>10, <2>11
  <1> QED
    BY <1>8, <1>9, <1>10
-----------------------------------------------------------------------------
(* Steps that only add to the streams.                                     *)

(* What the state of an instance is made of.                               *)
LEMMA InstanceFields ==
    ASSUME InstanceTypeOK, NetTypeOK, NEW i \in Instances
    PROVE  /\ NodeOf[i] \in Nodes
           /\ DownTo(i) \in Seq(DownPacket)
           /\ up[NodeOf[i]] \in Seq(UpPacket)
           /\ cmdQueue \in Seq(CommandPacket)
           /\ cache[NodeOf[i]] \in CacheItem
           /\ queue[i] \in Seq(QueuedVersion)
           /\ mapTo[i] \in Int /\ slaveVersion[i] \in Int /\ content[i] \in Int
           /\ version \in Int /\ version \in Version
           /\ (i \in attached) \in BOOLEAN /\ (i \in slaves) \in BOOLEAN
  <1>1. NodeOf[i] \in Nodes /\ "unicast" \in Links
    BY MappingAssumption DEF Links
  <1>2. down[NodeOf[i]] \in [Links -> Seq(DownPacket)]
    BY <1>1 DEF NetTypeOK
  <1>3. /\ DownTo(i) \in Seq(DownPacket)
        /\ up[NodeOf[i]] \in Seq(UpPacket)
        /\ cmdQueue \in Seq(CommandPacket)
        /\ cache[NodeOf[i]] \in CacheItem
    BY <1>1, <1>2 DEF NetTypeOK, DownTo
  <1>4. /\ queue[i] \in Seq(QueuedVersion)
        /\ mapTo[i] \in Int /\ slaveVersion[i] \in Int /\ content[i] \in Int
        /\ version \in Int /\ version \in Version
    BY MappingAssumption DEF InstanceTypeOK, Version
  <1> QED
    BY <1>1, <1>3, <1>4

(* A packet that means nothing to the instance.                            *)
Quiet(p, i) == ~IsToken(p, i) /\ ~Begins(p, i) /\ ~Carries(p, i)

(* Packets that mean nothing to an instance leave its requests alone.      *)
LEMMA QuietTokens ==
    ASSUME NEW d \in Seq(DownPacket), NEW new \in Seq(DownPacket), NEW t, t = d \o new, NEW i,
           \A k \in 1..Len(new) : Quiet(new[k], i),
           NEW u, NEW c, NEW st, NEW att, Tokens(i, u, c, d, st, att)
    PROVE  Tokens(i, u, c, t, st, att)
  <1>1. ~Has(new, i) /\ AtMostOne(new, i) /\ Awaited(new, i, st, att)
    BY NoTokens DEF Quiet
  <1>2. Replied(new, i)
    BY DEF Replied, Quiet
  <1>3. /\ Has(t, i) <=> Has(d, i)
        /\ AtMostOne(d, i) => AtMostOne(t, i)
        /\ Awaited(d, i, st, att) => Awaited(t, i, st, att)
        /\ Replied(d, i) => Replied(t, i)
    BY <1>1, <1>2, TokensGrow
  <1> QED
    BY <1>3 DEF Tokens

(* They leave what the master knows of the instance as it is, too.         *)
LEMMA QuietKnows ==
    ASSUME NEW d \in Seq(DownPacket), NEW new \in Seq(DownPacket), NEW t, t = d \o new, NEW i,
           \A k \in 1..Len(new) : Quiet(new[k], i),
           NEW att, NEW slave, Knows(i, d, att, slave)
    PROVE  Knows(i, t, att, slave)
  <1>1. /\ Len(d) \in Nat /\ Len(t) \in Nat /\ Len(d) =< Len(t)
        /\ \A k \in 1..Len(d) : t[k] = d[k]
        /\ \A k \in Len(d) + 1..Len(t) : k - Len(d) \in 1..Len(new) /\ t[k] = new[k - Len(d)]
    BY Grows
  <1>2. \A k \in 1..Len(t) : k \in 1..Len(d) \/ k \in Len(d) + 1..Len(t)
    BY <1>1
  <1>3. \A k \in 1..Len(d) : k \in 1..Len(t)
    BY <1>1
  <1>4. \A k \in Len(d) + 1..Len(t) : ~(Answers(t[k], i) /\ t[k].type = "reply")
    <2>1. \A k \in Len(d) + 1..Len(t) : ~IsToken(t[k], i)
      BY <1>1 DEF Quiet
    <2> QED
      BY <2>1 DEF IsToken, Answers
  <1> QED
    BY <1>1, <1>2, <1>3, <1>4 DEF Knows

(* The head version grows.                                                 *)
LEMMA FitsHigher ==
    ASSUME NEW st, NEW att, NEW qu \in Seq(QueuedVersion), NEW sv \in Int, NEW co, NEW mt,
           NEW head \in Int, QueueFits(st, att, qu, sv, co, mt, head)
    PROVE  QueueFits(st, att, qu, sv, co, mt, head + 1)
  <1>1. \A k \in 1..Len(qu) : qu[k].version \in Int /\ qu[k].version =< head
    BY QueueEnds DEF QueueFits
  <1>2. \A k \in 1..Len(qu) : qu[k].version =< head + 1
    BY <1>1
  <1>3. sv \in 1..head => sv \in 1..head + 1
    OBVIOUS
  <1> QED
    BY <1>2, <1>3 DEF QueueFits

(* The master forgets the instance.                                        *)
LEMMA StageForgotten ==
    ASSUME NEW d \in Seq(DownPacket), NEW i, NEW st, NEW att \in BOOLEAN, NEW qu, NEW sv,
           NEW mt, NEW item, NEW head, NEW member, NEW newMember, newMember => member,
           Stage(i, d, st, att, qu, sv, mt, item, head, member)
    PROVE  Stage(i, d, st, att, qu, sv, mt, item, head, newMember)
  <1> DEFINE new == <<>>
  <1>1. new \in Seq(DownPacket) /\ d = d \o new /\ Len(new) = 0
    BY ConcatEmptySeq, ShortSeqs
  <1>2. \A k \in 1..Len(new) : ~IsReply(new[k], i) /\ ~Carries(new[k], i)
    BY <1>1
  <1> HIDE DEF new
  <1> QED
    BY ZenonT(60), <1>1, <1>2, StageQuiet

(* A step of the master that tells the instance nothing.                   *)
LEMMA InstanceQuiet ==
    ASSUME InstanceTypeOK, NetTypeOK, NEW i \in Instances, InstanceInv(i),
           UNCHANGED <<version, slaveVars, alive, up, cmdQueue>>,
           i \in slaves' => i \in slaves,
           master = "gone" => master' = "gone",
           master' = "gone" \/ i \in slaves' \/ i \notin slaves,
           NEW new \in Seq(DownPacket), Live(i) => DownTo(i)' = DownTo(i) \o new,
           \A k \in 1..Len(new) : Quiet(new[k], i)
    PROVE  InstanceInv(i)'
  <1> DEFINE n == NodeOf[i]
             d == DownTo(i)
             t == d \o new
             att == i \in attached
             member == i \in slaves /\ master # "gone"
             newMember == i \in slaves' /\ master' # "gone"
  <1>1. /\ d \in Seq(DownPacket) /\ att \in BOOLEAN /\ (newMember => member)
        /\ RestsInv(i) /\ FitsInv(i) /\ TokenInv(i) /\ KnownInv(i) /\ StageInv(i)
    BY InstanceFields DEF InstanceInv
  <1>2. /\ state'[i] = state[i] /\ queue'[i] = queue[i] /\ mapTo'[i] = mapTo[i]
        /\ slaveVersion'[i] = slaveVersion[i] /\ content'[i] = content[i]
        /\ attached' = attached /\ cache' = cache /\ alive' = alive /\ version' = version
        /\ up' = up /\ cmdQueue' = cmdQueue
    BY DEF slaveVars, instanceVars
  <1>3. RestsInv(i)'
    BY <1>1, <1>2 DEF RestsInv, Live
  <1>4. FitsInv(i)'
    BY <1>1, <1>2 DEF FitsInv
  <1>5. Live(i)' = Live(i)
    BY <1>2 DEF Live
  <1>6. CASE ~Live(i)
    BY <1>3, <1>4, <1>5, <1>6 DEF InstanceInv, TokenInv, KnownInv, StageInv
  <1>7. CASE Live(i)
    <2>1. DownTo(i)' = t
      BY <1>7
    <2>2. Tokens(i, up[n], cmdQueue, t, state[i], att)
      <3>1. Tokens(i, up[n], cmdQueue, d, state[i], att)
        BY <1>1, <1>7 DEF TokenInv
      <3> HIDE DEF d, n, att
      <3> QED
        BY <1>1, <3>1, QuietTokens
    <2>3. master = "gone" \/ Knows(i, t, att, i \in slaves)
      <3> DEFINE slave == i \in slaves
      <3>1. master = "gone" \/ Knows(i, d, att, slave)
        BY <1>1, <1>7 DEF KnownInv
      <3> HIDE DEF d, n, att, slave
      <3>2. master = "gone" \/ Knows(i, t, att, slave)
        BY <1>1, <3>1, QuietKnows
      <3> QED
        BY <3>2 DEF slave
    <2>4. Stage(i, t, state[i], att, queue[i], slaveVersion[i], mapTo[i], cache[n], version,
                newMember)
      <3>1. Stage(i, d, state[i], att, queue[i], slaveVersion[i], mapTo[i], cache[n], version,
                  member)
        BY <1>1, <1>7 DEF StageInv
      <3>2. \A k \in 1..Len(new) : ~IsReply(new[k], i) /\ ~Carries(new[k], i)
        BY DEF Quiet, IsReply, IsToken, Answers
      <3> HIDE DEF d, n, att, member, newMember
      <3> QED
        BY <1>1, <3>1, <3>2, StageQuiet
    <2>5. TokenInv(i)'
      BY <1>2, <2>1, <2>2 DEF TokenInv
    <2>6. KnownInv(i)'
      BY <1>2, <2>1, <2>3 DEF KnownInv, Knows
    <2>7. StageInv(i)'
      BY <1>2, <2>1, <2>4 DEF StageInv
    <2> QED
      BY <1>3, <1>4, <2>5, <2>6, <2>7 DEF InstanceInv
  <1> QED
    BY <1>6, <1>7

(* Packets are sent by the unicast streams.                                *)
LEMMA SendUnicast ==
    ASSUME NetTypeOK, NEW receivers, NEW packets, Send(receivers, "unicast", packets)
    PROVE  \A n \in Nodes :
              /\ down'[n]["multicast"] = down[n]["multicast"]
              /\ down'[n]["unicast"] = IF n \in alive /\ n \in receivers
                                       THEN down[n]["unicast"] \o packets
                                       ELSE down[n]["unicast"]
  <1>1. ASSUME NEW n \in Nodes
        PROVE  /\ down'[n]["multicast"] = down[n]["multicast"]
               /\ down'[n]["unicast"] = IF n \in alive /\ n \in receivers
                                        THEN down[n]["unicast"] \o packets
                                        ELSE down[n]["unicast"]
    <2>1. down[n] \in [Links -> Seq(DownPacket)] /\ "unicast" \in Links /\ "multicast" \in Links
      BY DEF NetTypeOK, Links
    <2>2. down'[n] = IF n \in alive /\ n \in receivers
                     THEN [down[n] EXCEPT !["unicast"] = @ \o packets]
                     ELSE down[n]
      BY DEF Send
    <2> QED
      BY <2>1, <2>2
  <1> QED
    BY <1>1

(* The streams after more was sent.                                        *)
LEMMA StreamsGrow ==
    ASSUME NetTypeOK, OneStream, NoneNewer, InstanceTypeOK, UNCHANGED <<alive, cache>>,
           version' \in Int, version =< version',
           \A n \in Nodes :
              /\ down'[n]["multicast"] = down[n]["multicast"]
              /\ \/ down'[n]["unicast"] = down[n]["unicast"]
                 \/ n \in alive /\ \E new \in Seq(DownPacket) :
                       /\ down'[n]["unicast"] = down[n]["unicast"] \o new
                       /\ \A k \in 1..Len(new) : IsData(new[k]) => new[k].version =< version'
    PROVE  OneStream' /\ NoneNewer'
  <1>1. OneStream'
    BY DEF OneStream
  <1>2. ASSUME NEW n \in Nodes, NEW p \in In(down'[n]["unicast"]), IsData(p)
        PROVE  p.version =< version'
    <2>1. down[n]["unicast"] \in Seq(DownPacket)
      BY DEF NetTypeOK, Links
    <2>2. CASE p \in In(down[n]["unicast"])
      <3>1. p \in DownPacket
        BY <2>1, <2>2, StreamElements DEF In
      <3>2. p.version \in Int /\ p.version =< version /\ version \in Int
        BY <1>2, <2>2, <3>1, DownFields, MappingAssumption DEF NoneNewer, InstanceTypeOK
      <3> QED
        BY <3>2
    <2>3. CASE p \notin In(down[n]["unicast"])
      <3>1. PICK new \in Seq(DownPacket) :
                 /\ down'[n]["unicast"] = down[n]["unicast"] \o new
                 /\ \A k \in 1..Len(new) : IsData(new[k]) => new[k].version =< version'
        BY <1>2, <2>3
      <3>2. p \in In(new)
        BY <1>2, <2>1, <2>3, <3>1, InConcat
      <3> QED
        BY <1>2, <3>1, <3>2 DEF In
    <2> QED
      BY <2>2, <2>3
  <1>3. ASSUME NEW n \in Nodes
        PROVE  NotAfter(cache'[n], version')
    <2>1. NotAfter(cache[n], version) /\ cache'[n] = cache[n] /\ cache[n] \in CacheItem
      BY DEF NoneNewer, NetTypeOK
    <2>2. \A k \in 1..Len(cache[n].versions) :
             cache[n].versions[k].version \in Int /\ cache[n].versions[k].version =< version
      BY <2>1, ItemFields, MappingAssumption DEF NotAfter, Version
    <2>3. version \in Int
      BY MappingAssumption DEF InstanceTypeOK
    <2>4. \A k \in 1..Len(cache[n].versions) : cache[n].versions[k].version =< version'
      BY <2>2, <2>3
    <2> QED
      BY <2>1, <2>4 DEF NotAfter
  <1> QED
    BY <1>1, <1>2, <1>3 DEF NoneNewer

(* The requests after a version was committed.                             *)
LEMMA RequestsStay ==
    ASSUME NetTypeOK, OwnPackets, InstanceTypeOK, UNCHANGED <<alive, up, cmdQueue>>,
           version' \in Int, version =< version'
    PROVE  OwnPackets'
  <1>1. version \in Int
    BY MappingAssumption DEF InstanceTypeOK
  <1>2. ASSUME NEW p \in UpPacket, Requested(p)
        PROVE  Requested(p)'
    <2>1. p.type = "mapObject" => p.version \in Int
      BY MasterAssumption DEF UpPacket, CommandPacket, RequestPacket
    <2> QED
      BY <1>1, <1>2, <2>1 DEF Requested
  <1>3. \A n \in Nodes : In(up[n]) \subseteq UpPacket
    BY StreamElements DEF In, NetTypeOK
  <1>4. In(cmdQueue) \subseteq UpPacket
    BY StreamElements DEF In, NetTypeOK, UpPacket
  <1> QED
    BY <1>2, <1>3, <1>4 DEF OwnPackets

(* One more packet.                                                        *)
OneMore(t, d, p) ==
    /\ Len(d) \in Nat /\ Len(t) = Len(d) + 1
    /\ \A k \in 1..Len(d) : t[k] = d[k]
    /\ t[Len(t)] = p
    /\ \A k \in 1..Len(t) : k \in 1..Len(d) \/ t[k] = p

(* What a stream looks like after one more packet.                         *)
LEMMA SendsOne ==
    ASSUME NEW S, NEW d \in Seq(S), NEW p \in S, NEW t, t = d \o <<p>>
    PROVE  OneMore(t, d, p)
  <1>1. Len(d) \in Nat /\ Len(t) = Len(d) + 1
        /\ (\A k \in 1..Len(d) : t[k] = d[k]) /\ t[Len(d) + 1] = p
    BY Grows
  <1>2. \A k \in 1..Len(t) : k \in 1..Len(d) \/ k = Len(d) + 1
    BY <1>1
  <1> QED
    BY <1>1, <1>2 DEF OneMore

(* A commit: the nodes with slaves are told.                               *)
LEMMA CommitInstance ==
    ASSUME InstanceTypeOK, NetTypeOK, NEW i \in Instances, InstanceInv(i),
           UNCHANGED <<slaveVars, alive, up, cmdQueue, slaves, master>>, master # "gone",
           version' = version + 1, NEW p \in DownPacket,
           p.type = "commit", i \in p.insts, p.version = version + 1,
           Live(i) => \/ DownTo(i)' = DownTo(i) \o <<p>>
                      \/ DownTo(i)' = DownTo(i) /\ i \notin slaves
    PROVE  InstanceInv(i)'
  <1> DEFINE n == NodeOf[i]
             d == DownTo(i)
             t == DownTo(i)'
             att == i \in attached
             member == i \in slaves
  <1>1. /\ d \in Seq(DownPacket) /\ att \in BOOLEAN /\ member \in BOOLEAN
        /\ queue[i] \in Seq(QueuedVersion) /\ slaveVersion[i] \in Int /\ version \in Int
        /\ RestsInv(i) /\ FitsInv(i) /\ TokenInv(i) /\ KnownInv(i) /\ StageInv(i)
    BY InstanceFields DEF InstanceInv
  <1>2. /\ state'[i] = state[i] /\ queue'[i] = queue[i] /\ mapTo'[i] = mapTo[i]
        /\ slaveVersion'[i] = slaveVersion[i] /\ content'[i] = content[i]
        /\ attached' = attached /\ cache' = cache /\ alive' = alive
        /\ up' = up /\ cmdQueue' = cmdQueue /\ slaves' = slaves /\ master' = master
    BY DEF slaveVars, instanceVars
  <1>3. RestsInv(i)'
    BY <1>1, <1>2 DEF RestsInv, Live
  <1>4. FitsInv(i)'
    <2>1. QueueFits(state[i], att, queue[i], slaveVersion[i], content[i], mapTo[i], version)
      BY <1>1 DEF FitsInv
    <2> HIDE DEF att
    <2>2. QueueFits(state[i], att, queue[i], slaveVersion[i], content[i], mapTo[i], version + 1)
      BY <1>1, <2>1, FitsHigher
    <2> QED
      BY <1>2, <2>2 DEF FitsInv, att
  <1>5. Live(i)' = Live(i)
    BY <1>2 DEF Live
  <1>6. CASE ~Live(i)
    BY <1>3, <1>4, <1>5, <1>6 DEF InstanceInv, TokenInv, KnownInv, StageInv
  <1>7. CASE Live(i)
    <2>1. /\ Tokens(i, up[n], cmdQueue, d, state[i], att)
          /\ Knows(i, d, att, member)
          /\ Stage(i, d, state[i], att, queue[i], slaveVersion[i], mapTo[i], cache[n],
                   version, member)
      BY <1>1, <1>7 DEF TokenInv, KnownInv, StageInv
    <2>2. /\ Tokens(i, up[n], cmdQueue, t, state[i], att)
          /\ Knows(i, t, att, member)
          /\ Stage(i, t, state[i], att, queue[i], slaveVersion[i], mapTo[i], cache[n],
                   version + 1, member)
      <3>1. CASE t = d \o <<p>>
        <4> DEFINE new == <<p>>
        <4>1. new \in Seq(DownPacket) /\ Len(new) = 1 /\ new[1] = p
          OBVIOUS
        <4>2. Carries(p, i)
          BY DEF Carries
        <4>3. ~IsToken(p, i) /\ ~Begins(p, i)
          BY DEF IsToken, Begins
        <4> HIDE DEF d, t, att, member, n
        <4>4. Stage(i, t, state[i], att, queue[i], slaveVersion[i], mapTo[i], cache[n],
                   version + 1, member)
          BY ZenonT(60), <1>1, <2>1, <3>1, <4>2, StageCommit
        <4> HIDE DEF new
        <4>5. \A k \in 1..Len(new) : ~IsToken(new[k], i) /\ ~Begins(new[k], i)
          BY <4>1, <4>3
        <4>6. t = d \o new
          BY <3>1 DEF new
        <4>7. Tokens(i, up[n], cmdQueue, t, state[i], att)
          <5>1. ~Has(new, i) /\ AtMostOne(new, i) /\ Awaited(new, i, state[i], att)
            BY <4>5, NoTokens
          <5>2. Replied(new, i)
            BY <4>5 DEF Replied
          <5>3. /\ Has(t, i) <=> Has(d, i)
                /\ AtMostOne(d, i) => AtMostOne(t, i)
                /\ Awaited(d, i, state[i], att) => Awaited(t, i, state[i], att)
                /\ Replied(d, i) => Replied(t, i)
            BY <1>1, <4>1, <4>6, <5>1, <5>2, TokensGrow
          <5> QED
            BY <2>1, <5>3 DEF Tokens
        <4>8. Knows(i, t, att, member)
          <5>1. OneMore(t, d, p)
            BY <1>1, <3>1, SendsOne
          <5>2. /\ Len(d) \in Nat /\ Len(t) = Len(d) + 1
                /\ \A k \in 1..Len(d) : t[k] = d[k]
                /\ \A k \in 1..Len(t) : k \in 1..Len(d) \/ t[k] = p
            BY <5>1 DEF OneMore
          <5>3. \A k \in 1..Len(d) : k \in 1..Len(t)
            BY <5>2
          <5>4. ~(Answers(p, i) /\ p.type = "reply")
            OBVIOUS
          <5> QED
            BY <2>1, <5>2, <5>3, <5>4 DEF Knows
        <4> QED
          BY <4>4, <4>7, <4>8
      <3>2. CASE t = d /\ i \notin slaves
        <4>1. member = FALSE
          BY <3>2
        <4> HIDE DEF d, t, att, member, n
        <4>2. Stage(i, d, state[i], att, queue[i], slaveVersion[i], mapTo[i], cache[n],
                    version + 1, FALSE)
          BY <1>1, <2>1, StageUnfollowed
        <4> QED
          BY <2>1, <3>2, <4>1, <4>2
      <3> QED
        BY <1>7, <3>1, <3>2
    <2>3. TokenInv(i)'
      BY <1>2, <2>2 DEF TokenInv
    <2>4. KnownInv(i)'
      BY <1>2, <2>2 DEF KnownInv
    <2>5. StageInv(i)'
      <3>1. (i \in slaves' /\ master' # "gone") = member
        BY <1>2
      <3> HIDE DEF member
      <3> QED
        BY <1>2, <2>2, <3>1 DEF StageInv
    <2> QED
      BY <1>3, <1>4, <2>3, <2>4, <2>5 DEF InstanceInv
  <1> QED
    BY <1>6, <1>7

(* Every step keeps the invariant: a commit.                                *)
LEMMA NewVersionQueues ==
    ASSUME ~UseMulticast, MappingInv, QueueInv, NewVersion
    PROVE  QueueInv'
  <1> DEFINE p == Packet("commit", Instances, version + 1)
             new == <<p>>
  <1>1. /\ InstanceTypeOK /\ NetTypeOK /\ OneStream /\ OwnPackets /\ NoneNewer
        /\ \A i \in Instances : InstanceInv(i)
    BY DEF MappingInv, QueueInv
  <1>2. /\ version' = version + 1 /\ slaves' = slaves /\ master' = master /\ master # "gone"
        /\ UNCHANGED <<slaveVars, alive, up, cmdQueue>> /\ cache' = cache
        /\ Send(SlaveNodes, "unicast", new)
    BY DEF NewVersion, CommitLocked, CommitLink, slaveVars
  <1>3. version \in Int /\ version + 1 \in Version /\ version' \in Int /\ version =< version'
    BY <1>1, <1>2, MappingAssumption DEF NewVersion, InstanceTypeOK, Version
  <1>4. p \in DownPacket /\ p.type = "commit" /\ p.insts = Instances /\ p.version = version + 1
    BY <1>3 DEF Packet, DownPacket, PlainPacket
  <1>5. new \in Seq(DownPacket) /\ Len(new) = 1 /\ new[1] = p
    BY <1>4
  <1> HIDE DEF p
  <1>6. \A n \in Nodes :
           /\ down'[n]["multicast"] = down[n]["multicast"]
           /\ down'[n]["unicast"] = IF n \in alive /\ n \in SlaveNodes
                                    THEN down[n]["unicast"] \o new ELSE down[n]["unicast"]
    BY <1>1, <1>2, SendUnicast
  <1>7. \A k \in 1..Len(new) : new[k].version =< version'
    BY <1>2, <1>3, <1>4, <1>5
  <1>8. OneStream' /\ NoneNewer'
    <2> HIDE DEF new
    <2> QED
      BY <1>1, <1>2, <1>3, <1>5, <1>6, <1>7, StreamsGrow
  <1>9. OwnPackets'
    BY <1>1, <1>2, <1>3, RequestsStay
  <1>10. ASSUME NEW i \in Instances
         PROVE  InstanceInv(i)'
    <2>1. i \in slaves => NodeOf[i] \in SlaveNodes
      BY DEF SlaveNodes
    <2>2. NodeOf[i] \in Nodes
      BY MappingAssumption
    <2>3. Live(i) => \/ DownTo(i)' = DownTo(i) \o new
                     \/ DownTo(i)' = DownTo(i) /\ i \notin slaves
      BY <1>6, <2>1, <2>2 DEF DownTo, Live
    <2> QED
      BY <1>1, <1>2, <1>4, <2>3, CommitInstance
  <1> QED
    BY <1>8, <1>9, <1>10 DEF QueueInv

(* Steps that send nothing and change no instance.                         *)
LEMMA MasterRests ==
    ASSUME MappingInv, QueueInv, UNCHANGED <<version, slaveVars, netVars>>,
           \/ UNCHANGED <<slaves, master>>
           \/ slaves' \subseteq slaves /\ master' = "gone"
    PROVE  QueueInv'
  <1>1. /\ InstanceTypeOK /\ NetTypeOK /\ OneStream /\ OwnPackets /\ NoneNewer
        /\ \A i \in Instances : InstanceInv(i)
    BY DEF MappingInv, QueueInv
  <1>2. UNCHANGED <<alive, down, up, cmdQueue, cache>> /\ UNCHANGED slaveVars
    BY DEF netVars, slaveVars
  <1>3. OneStream' /\ OwnPackets' /\ NoneNewer'
    BY <1>1, <1>2 DEF OneStream, OwnPackets, NoneNewer, Requested
  <1>4. ASSUME NEW i \in Instances
        PROVE  InstanceInv(i)'
    <2> DEFINE new == <<>>
    <2>1. new \in Seq(DownPacket) /\ Len(new) = 0
      OBVIOUS
    <2>2. DownTo(i)' = DownTo(i) \o new
      BY <1>1, <1>2, ConcatEmptySeq, InstanceFields DEF DownTo
    <2>3. \A k \in 1..Len(new) : Quiet(new[k], i)
      BY <2>1
    <2> HIDE DEF new
    <2> QED
      BY <1>1, <1>2, <2>1, <2>2, <2>3, InstanceQuiet
  <1> QED
    BY <1>3, <1>4 DEF QueueInv

(* Every step keeps the invariant: the other steps of the master's         *)
(* application.                                                            *)
LEMMA MasterOnlyQueues ==
    ASSUME MappingInv, QueueInv, MasterOnly \/ DeregisterDetach
    PROVE  QueueInv'
  <1>1. CASE MasterOnly
    <2>1. UNCHANGED <<version, slaves, master, slaveVars, netVars>>
      BY <1>1 DEF MasterOnly, CommitBegin, CommitProceed, CommitClean, CommitEmpty,
                  SetAutoObsolete
    <2> QED
      BY <2>1, MasterRests
  <1>2. CASE DeregisterDetach
    <2>1. /\ UNCHANGED <<version, slaveVars, netVars>>
          /\ slaves' \subseteq slaves /\ master' = "gone"
      BY <1>2 DEF DeregisterDetach, RemoveSlaves
    <2> QED
      BY <2>1, MasterRests
  <1> QED
    BY <1>1, <1>2

(* The nodes with slaves are told that the object is gone.                 *)
LEMMA DeregisterQueues ==
    ASSUME MappingInv, QueueInv, DeregisterNotify
    PROVE  QueueInv'
  <1>1. /\ InstanceTypeOK /\ NetTypeOK /\ OneStream /\ OwnPackets /\ NoneNewer
        /\ \A i \in Instances : InstanceInv(i)
    BY DEF MappingInv, QueueInv
  <1>2. /\ UNCHANGED <<slaveVars, alive, up, cmdQueue, version, slaves>> /\ cache' = cache
        /\ master # "gone" /\ master' # "gone"
    BY DEF DeregisterNotify, slaveVars, masterVars
  <1>3. version' = version /\ version \in Int /\ version' \in Int /\ version =< version'
    BY <1>1, <1>2, MappingAssumption DEF InstanceTypeOK
  <1> DEFINE p(n) == Packet("unmap", On(n), VERSION_NONE)
             new(n) == IF n \in alive \cap SlaveNodes THEN <<p(n)>> ELSE <<>>
  <1>4. ASSUME NEW n \in Nodes
        PROVE  /\ down'[n]["multicast"] = down[n]["multicast"]
               /\ down'[n]["unicast"] = down[n]["unicast"] \o new(n)
               /\ new(n) = <<>> \/ n \in alive
               /\ new(n) \in Seq(DownPacket)
               /\ \A k \in 1..Len(new(n)) : new(n)[k].type = "unmap"
    <2>1. down[n] \in [Links -> Seq(DownPacket)] /\ "unicast" \in Links /\ "multicast" \in Links
      BY <1>1 DEF NetTypeOK, Links
    <2>2. down'[n] = IF n \in alive \cap SlaveNodes
                     THEN [down[n] EXCEPT !["unicast"] = Append(@, p(n))]
                     ELSE down[n]
      BY DEF DeregisterNotify
    <2>3. 0 \in Version
      BY MappingAssumption DEF Version
    <2>4. p(n) \in DownPacket /\ p(n).type = "unmap"
      BY <2>3 DEF Packet, DownPacket, PlainPacket, On
    <2>5. down[n]["unicast"] \in Seq(DownPacket)
      BY <2>1
    <2> HIDE DEF p
    <2>6. /\ <<p(n)>> \in Seq(DownPacket) /\ <<>> \in Seq(DownPacket)
          /\ \A k \in 1..Len(<<p(n)>>) : <<p(n)>>[k].type = "unmap"
          /\ Len(<<>>) = 0
      BY <2>4
    <2>7. /\ Append(down[n]["unicast"], p(n)) = down[n]["unicast"] \o <<p(n)>>
          /\ down[n]["unicast"] \o <<>> = down[n]["unicast"]
      BY <2>4, <2>5, AppendIsConcat, ConcatEmptySeq
    <2>8. CASE n \in alive \cap SlaveNodes
      BY <2>1, <2>2, <2>6, <2>7, <2>8
    <2>9. CASE n \notin alive \cap SlaveNodes
      <3>1. new(n) = <<>>
        BY <2>9
      <3> HIDE DEF new
      <3>2. \A k \in 1..Len(new(n)) : FALSE
        BY <3>1
      <3> QED
        BY <2>2, <2>6, <2>7, <2>9, <3>1, <3>2
    <2> QED
      BY <2>8, <2>9
  <1> HIDE DEF new
  <1>5. OneStream' /\ NoneNewer'
    <2>1. ASSUME NEW n \in Nodes
          PROVE  /\ down'[n]["multicast"] = down[n]["multicast"]
                 /\ \/ down'[n]["unicast"] = down[n]["unicast"]
                    \/ n \in alive /\ \E x \in Seq(DownPacket) :
                          /\ down'[n]["unicast"] = down[n]["unicast"] \o x
                          /\ \A k \in 1..Len(x) : IsData(x[k]) => x[k].version =< version'
      <3>1. \A k \in 1..Len(new(n)) : ~IsData(new(n)[k])
        BY <1>4 DEF IsData
      <3>2. CASE n \in alive
        BY <1>4, <3>1, <3>2
      <3>3. CASE n \notin alive
        <4>1. down[n]["unicast"] \in Seq(DownPacket)
          BY <1>1 DEF NetTypeOK, Links
        <4> QED
          BY <1>4, <3>3, <4>1, ConcatEmptySeq
      <3> QED
        BY <3>2, <3>3
    <2> QED
      BY <1>1, <1>2, <1>3, <2>1, StreamsGrow
  <1>6. OwnPackets'
    BY <1>1, <1>2, <1>3, RequestsStay
  <1>7. ASSUME NEW i \in Instances
        PROVE  InstanceInv(i)'
    <2> DEFINE x == new(NodeOf[i])
    <2>1. NodeOf[i] \in Nodes
      BY MappingAssumption
    <2>2. x \in Seq(DownPacket) /\ DownTo(i)' = DownTo(i) \o x
      BY <1>4, <2>1 DEF DownTo
    <2>3. \A k \in 1..Len(x) : Quiet(x[k], i)
      BY <1>4, <2>1 DEF Quiet, IsToken, Begins, Carries
    <2> HIDE DEF x
    <2> QED
      BY <1>1, <1>2, <2>2, <2>3, InstanceQuiet
  <1> QED
    BY <1>5, <1>6, <1>7 DEF QueueInv

(* A request moves from the stream of its node to the command thread.      *)
LEMMA TokenMoves ==
    ASSUME NEW S, NEW u \in Seq(S), u # <<>>, NEW c \in Seq(S), NEW x, x = Tail(u), NEW y,
           y = c \/ y = c \o <<Head(u)>>, NEW d, NEW i, NEW st, NEW att,
           Tokens(i, u, c, d, st, att)
    PROVE  Tokens(i, x, y, d, st, att)
  <1>1. /\ Has(x, i) => Has(u, i)
        /\ IsToken(Head(u), i) => Has(u, i)
        /\ AtMostOne(x, i)
        /\ IsToken(Head(u), i) => ~Has(x, i)
        /\ Awaited(x, i, st, att)
    BY TokensShrink DEF Tokens
  <1>2. CASE y = c
    BY <1>1, <1>2 DEF Tokens
  <1>3. CASE y = c \o <<Head(u)>>
    <2> DEFINE p == Head(u)
               r == <<p>>
    <2>1. p \in S /\ r \in Seq(S) /\ 1 \in 1..Len(u) /\ u[1] = p
      BY HeadTailProperties, RestOfStream
    <2>2. AtMostOne(r, i) /\ (Has(r, i) <=> IsToken(p, i)) /\ Len(r) = 1 /\ r[1] = p
      BY OneToken
    <2>3. Awaited(r, i, st, att)
      <3>1. \A k \in 1..Len(r) : r[k] = u[1]
        BY <2>1, <2>2
      <3> HIDE DEF r, p
      <3> QED
        BY <2>1, <3>1 DEF Awaited, Tokens
    <2> HIDE DEF r, p
    <2>4. y = c \o r
      BY <1>3 DEF r, p
    <2>5. /\ Has(y, i) <=> Has(c, i) \/ Has(r, i)
          /\ AtMostOne(c, i) /\ AtMostOne(r, i) /\ ~(Has(c, i) /\ Has(r, i)) => AtMostOne(y, i)
          /\ Awaited(c, i, st, att) /\ Awaited(r, i, st, att) => Awaited(y, i, st, att)
      BY <2>1, <2>4, TokensGrow
    <2> QED
      BY <1>1, <2>2, <2>3, <2>5 DEF Tokens, p
  <1> QED
    BY <1>2, <1>3

(* A request of another instance.                                          *)
LEMMA OtherToken ==
    ASSUME NEW S, NEW c \in Seq(S), NEW p \in S, NEW i, ~IsToken(p, i), NEW y,
           y = c \/ y = c \o <<p>>, NEW u, NEW d, NEW st, NEW att, Tokens(i, u, c, d, st, att)
    PROVE  Tokens(i, u, y, d, st, att)
  <1>1. CASE y = c
    BY <1>1
  <1>2. CASE y = c \o <<p>>
    <2> DEFINE r == <<p>>
    <2>1. r \in Seq(S) /\ Len(r) = 1 /\ r[1] = p
      OBVIOUS
    <2> HIDE DEF r
    <2>2. ~Has(r, i) /\ AtMostOne(r, i) /\ Awaited(r, i, st, att)
      <3>1. \A k \in 1..Len(r) : ~IsToken(r[k], i)
        BY <2>1
      <3> QED
        BY <3>1, NoTokens
    <2>3. /\ Has(y, i) <=> Has(c, i) \/ Has(r, i)
          /\ AtMostOne(c, i) /\ AtMostOne(r, i) /\ ~(Has(c, i) /\ Has(r, i)) => AtMostOne(y, i)
          /\ Awaited(c, i, st, att) /\ Awaited(r, i, st, att) => Awaited(y, i, st, att)
      BY <1>2, <2>1, TokensGrow DEF r
    <2> QED
      BY <2>2, <2>3 DEF Tokens
  <1> QED
    BY <1>1, <1>2

(* A step that changes the requests under way only.                        *)
LEMMA InstanceRests ==
    ASSUME NEW i \in Instances, InstanceInv(i),
           UNCHANGED <<version, slaveVars, alive, down, slaves, master>>,
           Live(i) => Tokens(i, up'[NodeOf[i]], cmdQueue', DownTo(i), state[i], i \in attached)
    PROVE  InstanceInv(i)'
  <1>1. /\ state'[i] = state[i] /\ queue'[i] = queue[i] /\ mapTo'[i] = mapTo[i]
        /\ slaveVersion'[i] = slaveVersion[i] /\ content'[i] = content[i]
        /\ attached' = attached /\ cache' = cache /\ alive' = alive /\ version' = version
        /\ slaves' = slaves /\ master' = master
        /\ DownTo(i)' = DownTo(i) /\ Live(i)' = Live(i)
    BY DEF slaveVars, instanceVars, DownTo, Live
  <1>2. RestsInv(i)' /\ FitsInv(i)'
    BY <1>1 DEF RestsInv, FitsInv, InstanceInv
  <1>3. TokenInv(i)'
    BY <1>1 DEF TokenInv
  <1>4. KnownInv(i)' /\ StageInv(i)'
    BY <1>1 DEF KnownInv, StageInv, InstanceInv
  <1> QED
    BY <1>2, <1>3, <1>4 DEF InstanceInv

(* Every step keeps the invariant: the receiver thread of the master.      *)
LEMMA MasterReceiveQueues ==
    ASSUME MappingInv, QueueInv, NEW m \in Nodes, MasterReceive(m)
    PROVE  QueueInv'
  <1> DEFINE packet == Head(up[m])
  <1>1. /\ InstanceTypeOK /\ NetTypeOK /\ OneStream /\ OwnPackets /\ NoneNewer
        /\ \A i \in Instances : InstanceInv(i)
    BY DEF MappingInv, QueueInv
  <1>2. /\ up[m] \in Seq(UpPacket) /\ up[m] # <<>> /\ cmdQueue \in Seq(UpPacket)
        /\ up' = [up EXCEPT ![m] = Tail(up[m])] /\ up \in [Nodes -> Seq(UpPacket)]
        /\ UNCHANGED <<master, slaveVars, alive, down>> /\ cache' = cache
    <2>1. cmdQueue \in Seq(UpPacket)
      BY <1>1 DEF NetTypeOK, UpPacket
    <2> QED
      BY <1>1, <2>1 DEF MasterReceive, NetTypeOK, slaveVars
  <1>3. version' = version /\ slaves' = slaves
    BY DEF MasterReceive, CmdMaxVersion, masterVars
  <1>4. packet \in UpPacket /\ packet \in In(up[m]) /\ In(Tail(up[m])) \subseteq In(up[m])
    BY <1>2, FirstAndRest, InTail
  <1>5. packet.insts \subseteq On(m)
    BY <1>1, <1>4 DEF OwnPackets
  <1>6. cmdQueue' = cmdQueue \/ cmdQueue' = cmdQueue \o <<packet>>
    <2>1. Append(cmdQueue, packet) = cmdQueue \o <<packet>>
      BY <1>2, <1>4, AppendIsConcat
    <2> QED
      BY <2>1 DEF MasterReceive
  <1>7. In(cmdQueue') \subseteq In(cmdQueue) \cup {packet}
    <2>1. In(Append(cmdQueue, packet)) = In(cmdQueue) \cup {packet}
      BY <1>2, <1>4, InAppend
    <2>2. cmdQueue' = cmdQueue \/ cmdQueue' = Append(cmdQueue, packet)
      BY DEF MasterReceive
    <2> QED
      BY <2>1, <2>2
  <1> HIDE DEF packet
  <1>8. OneStream' /\ NoneNewer'
    BY <1>1, <1>2, <1>3 DEF OneStream, NoneNewer
  <1>9. OwnPackets'
    <2>1. \A p : Requested(p)' <=> Requested(p)
      BY <1>3 DEF Requested
    <2>2. \A n \in Nodes : In(up'[n]) \subseteq In(up[n])
      BY <1>2, <1>4
    <2>3. packet.type = "removeNode" => \A i \in packet.insts : NodeOf[i] \notin alive
      BY <1>1, <1>4, <1>5 DEF OwnPackets, On
    <2>4. Requested(packet)
      BY <1>1, <1>4 DEF OwnPackets
    <2> QED
      BY <1>1, <1>2, <1>7, <2>1, <2>2, <2>3, <2>4 DEF OwnPackets
  <1>10. ASSUME NEW i \in Instances
         PROVE  InstanceInv(i)'
    <2> DEFINE n == NodeOf[i]
               u == up[n]
               d == DownTo(i)
               att == i \in attached
    <2>1. InstanceInv(i) /\ n \in Nodes
      BY <1>1, MappingAssumption
    <2>2. ASSUME Live(i)
          PROVE  Tokens(i, up'[n], cmdQueue', d, state[i], att)
      <3>1. Tokens(i, u, cmdQueue, d, state[i], att)
        BY <2>1, <2>2 DEF InstanceInv, TokenInv
      <3>2. CASE n = m
        <4>1. up'[n] = Tail(u) /\ u \in Seq(UpPacket) /\ u # <<>>
              /\ (cmdQueue' = cmdQueue \/ cmdQueue' = cmdQueue \o <<Head(u)>>)
          BY <1>2, <1>6, <3>2 DEF packet
        <4> HIDE DEF u, d, att, n
        <4> QED
          BY <1>2, <3>1, <4>1, TokenMoves
      <3>3. CASE n # m
        <4>1. up'[n] = u
          BY <1>2, <2>1, <3>3
        <4>2. ~IsToken(packet, i)
          BY <1>5, <3>3 DEF On, IsToken
        <4> HIDE DEF u, d, att, n
        <4> QED
          BY <1>2, <1>4, <1>6, <3>1, <4>1, <4>2, OtherToken
      <3> QED
        BY <3>2, <3>3
    <2> QED
      BY <1>2, <1>3, <2>1, <2>2, InstanceRests
  <1> QED
    BY <1>8, <1>9, <1>10 DEF QueueInv
-----------------------------------------------------------------------------
(* Steps of a node that change its cache.                                  *)

(* Expiring leaves no data that was not there.                             *)
LEMMA ExpiredIsOld ==
    ASSUME NEW item \in CacheItem, NEW new \in Expired(item), NEW v, NotAfter(item, v)
    PROVE  NotAfter(new, v)
  <1>1. CASE item.access # 0
    BY <1>1 DEF Expired
  <1>2. CASE item.access = 0
    <2> DEFINE s == item.versions
               N == Len(s)
    <2>1. PICK k \in 0..N : new = [item EXCEPT !.versions = SubSeq(s, k + 1, N)]
      BY <1>2 DEF Expired
    <2> DEFINE t == SubSeq(s, k + 1, N)
               m == k + 1
    <2>2. N \in Nat /\ N \in Int /\ m \in Int /\ \A j \in m..N : s[j] \in CacheStream
      BY ItemFields
    <2>3. new.versions = t
      BY <2>1 DEF CacheItem
    <2>4. IsPart(t, s, m, N)
      <3> HIDE DEF s, N, m
      <3>1. IsPart(SubSeq(s, m, N), s, m, N)
        BY <2>2, PartOfSeq
      <3> QED
        BY <3>1 DEF m
    <2> HIDE DEF t
    <2>5. ASSUME NEW j \in 1..Len(t)
          PROVE  t[j].version =< v
      <3>1. Len(t) = (IF m <= N THEN N - m + 1 ELSE 0) /\ t[j] = s[m + j - 1]
        BY <2>4 DEF IsPart
      <3>2. m + j - 1 \in 1..N
        BY <2>2, <3>1
      <3> QED
        BY <3>1, <3>2 DEF NotAfter
    <2> QED
      BY <2>3, <2>5 DEF NotAfter
  <1> QED
    BY <1>1, <1>2

(* No reply under way relies on data that nobody uses.                     *)
LEMMA UnusedInReplies ==
    ASSUME NetTypeOK, PinInv, NEW i \in Instances, Live(i), cache[NodeOf[i]].access = 0
    PROVE  \A k \in 1..Len(DownTo(i)) : IsReply(DownTo(i)[k], i) => ~DownTo(i)[k].useCache
  <1> DEFINE n == NodeOf[i]
             d == DownTo(i)
  <1>1. n \in Nodes /\ n \in alive
    BY MappingAssumption DEF Live
  <1>2. /\ Pins(n, up[n]) \in Nat /\ Pins(n, cmdQueue) \in Nat
        /\ Pins(n, d) \in Nat /\ Pins(n, down[n]["multicast"]) \in Nat
        /\ d \in Seq(DownPacket)
    BY <1>1, StreamTypes DEF Links, DownTo
  <1>3. Pins(n, d) = 0
    BY <1>1, <1>2 DEF PinInv, PinsBalanced, DownTo
  <1> HIDE DEF d
  <1>4. PinsAt(n, d) = {}
    <2>1. IsFiniteSet(PinsAt(n, d)) /\ Cardinality(PinsAt(n, d)) = 0
      BY <1>2, <1>3, PinsFinite
    <2> QED
      BY <2>1, FS_EmptySet
  <1>5. ASSUME NEW k \in 1..Len(d), IsReply(d[k], i), d[k].useCache
        PROVE  FALSE
    <2>1. d[k] \in DownPacket /\ d[k].type = "reply" /\ i \in d[k].insts
      BY <1>2, <1>5, StreamElements DEF IsReply, Answers
    <2>2. d[k] \in ReplyPacket /\ d[k].insts \in Single
      BY <2>1, DownFields
    <2>3. d[k].insts \subseteq On(n) /\ d[k].releaseCache
      BY <1>5, <2>1, <2>2 DEF ReplyPacket, Single, On
    <2>4. IsPin(n, d[k])
      BY <2>1, <2>3 DEF IsPin
    <2> QED
      BY <1>4, <2>4 DEF PinsAt
  <1> QED
    BY <1>5 DEF d

(* Another cache with the data that the instance relies on.                *)
LEMMA StageCache ==
    ASSUME NEW d, NEW i, NEW st, NEW att, NEW qu, NEW sv, NEW mt, NEW item, NEW head,
           NEW member, Stage(i, d, st, att, qu, sv, mt, item, head, member),
           NEW new, \A v \in Version : NotAfter(item, v) => NotAfter(new, v),
           \A r \in 1..Len(d) : IsReply(d[r], i) /\ d[r].useCache => KeepsReady(item, new)
    PROVE  Stage(i, d, st, att, qu, sv, mt, new, head, member)
  <1>1. ASSUME NEW r \in 1..Len(d), IsReply(d[r], i)
        PROVE  Answered(i, d, r, att, qu, new, head, member)
    <2>1. Answered(i, d, r, att, qu, item, head, member)
      BY <1>1 DEF Stage, IsReply
    <2>2. PICK start \in 0..r - 1 : \E lo, hi, v \in Version :
             /\ Batch(i, d, start, r, att)
             /\ Brings(i, d, start, r, Held(start, qu), lo, hi)
             /\ LeadsTo(d[r], First(Held(start, qu), lo), hi, v, item)
             /\ Older(d, r, v)
             /\ Trails(i, d, r, v, head, member)
      BY <2>1 DEF Answered
    <2>3. PICK lo \in Version, hi \in Version, v \in Version :
             /\ Batch(i, d, start, r, att)
             /\ Brings(i, d, start, r, Held(start, qu), lo, hi)
             /\ LeadsTo(d[r], First(Held(start, qu), lo), hi, v, item)
             /\ Older(d, r, v)
             /\ Trails(i, d, r, v, head, member)
      BY <2>2
    <2> DEFINE p == [type |-> "success"]
    <2>4. ~IsData(p)
      BY DEF IsData
    <2> HIDE DEF p
    <2>5. KeepsOld(p, item, new) /\ (d[r].useCache => KeepsReady(item, new))
      BY <1>1 DEF KeepsOld
    <2>6. LeadsTo(d[r], First(Held(start, qu), lo), hi, v, new)
      BY <2>3, <2>4, <2>5, StillLeads
    <2> QED
      BY <2>3, <2>6 DEF Answered
  <1> QED
    BY <1>1 DEF Stage, IsReply

(* Every step keeps the invariant: cached data expires.                    *)
LEMMA ExpireQueues ==
    ASSUME MappingInv, PinInv, QueueInv, NEW m \in Nodes, Expire(m)
    PROVE  QueueInv'
  <1>1. /\ InstanceTypeOK /\ NetTypeOK /\ OneStream /\ OwnPackets /\ NoneNewer
        /\ \A i \in Instances : InstanceInv(i)
    BY DEF MappingInv, QueueInv
  <1>2. /\ UNCHANGED <<version, slaves, master, alive, down, up, cmdQueue>>
        /\ UNCHANGED instanceVars
    BY DEF Expire, masterVars, netVars
  <1>3. PICK new \in Expired(cache[m]) \ {cache[m]} : cache' = [cache EXCEPT ![m] = new]
    BY DEF Expire
  <1>4. cache[m] \in CacheItem /\ cache \in [Nodes -> CacheItem] /\ cache[m].access = 0
    <2>1. cache[m] \in CacheItem /\ cache \in [Nodes -> CacheItem]
      BY <1>1 DEF NetTypeOK
    <2> QED
      BY <1>3, <2>1 DEF Expired
  <1>5. \A v : NotAfter(cache[m], v) => NotAfter(new, v)
    BY <1>3, <1>4, ExpiredIsOld
  <1>6. \A n \in Nodes : cache'[n] = IF n = m THEN new ELSE cache[n]
    BY <1>3, <1>4
  <1>7. OneStream' /\ OwnPackets'
    BY <1>1, <1>2 DEF OneStream, OwnPackets, Requested
  <1>8. NoneNewer'
    BY <1>1, <1>2, <1>5, <1>6 DEF NoneNewer
  <1>9. ASSUME NEW i \in Instances
        PROVE  InstanceInv(i)'
    <2> DEFINE n == NodeOf[i]
               d == DownTo(i)
               att == i \in attached
               member == i \in slaves /\ master # "gone"
    <2>1. InstanceInv(i) /\ n \in Nodes
      BY <1>1, MappingAssumption
    <2>2. /\ state'[i] = state[i] /\ queue'[i] = queue[i] /\ mapTo'[i] = mapTo[i]
          /\ slaveVersion'[i] = slaveVersion[i] /\ content'[i] = content[i]
          /\ attached' = attached /\ Live(i)' = Live(i) /\ DownTo(i)' = DownTo(i)
      BY <1>2 DEF instanceVars, Live, DownTo
    <2>3. RestsInv(i)' /\ FitsInv(i)' /\ TokenInv(i)' /\ KnownInv(i)'
      BY <1>2, <2>1, <2>2 DEF InstanceInv, RestsInv, FitsInv, TokenInv, KnownInv
    <2>4. ASSUME Live(i)
          PROVE  Stage(i, d, state[i], att, queue[i], slaveVersion[i], mapTo[i], cache'[n],
                       version, member)
      <3>1. Stage(i, d, state[i], att, queue[i], slaveVersion[i], mapTo[i], cache[n],
                  version, member)
        BY <2>1, <2>4 DEF InstanceInv, StageInv
      <3>2. CASE n = m
        <4>1. \A r \in 1..Len(d) : IsReply(d[r], i) => ~d[r].useCache
          BY <1>1, <1>4, <2>4, <3>2, UnusedInReplies
        <4>2. cache'[n] = new /\ cache[n] = cache[m]
          BY <1>6, <2>1, <3>2
        <4> HIDE DEF d, n, att, member
        <4> QED
          BY <1>5, <3>1, <4>1, <4>2, StageCache
      <3>3. CASE n # m
        BY <1>6, <2>1, <3>1, <3>3
      <3> QED
        BY <3>2, <3>3
    <2>5. StageInv(i)'
      BY <1>2, <2>2, <2>4 DEF StageInv
    <2> QED
      BY <2>3, <2>5 DEF InstanceInv
  <1> QED
    BY <1>7, <1>8, <1>9 DEF QueueInv

(* An instance that is not mapped.                                         *)
LEMMA NothingQueued ==
    ASSUME NEW att, NEW sv, NEW co, NEW mt, NEW head
    PROVE  QueueFits("unmapped", att, <<>>, sv, co, mt, head)
  <1>1. Len(<<>>) = 0 /\ \A k \in 1..0 : FALSE
    OBVIOUS
  <1> QED
    BY <1>1 DEF QueueFits, InRow

(* Nothing that concerns the instance changes.                             *)
LEMMA InstanceSame ==
    ASSUME NEW i \in Instances, InstanceInv(i), UNCHANGED <<version, cmdQueue, master>>,
           /\ state'[i] = state[i] /\ queue'[i] = queue[i] /\ mapTo'[i] = mapTo[i]
           /\ slaveVersion'[i] = slaveVersion[i] /\ content'[i] = content[i]
           /\ (i \in attached') = (i \in attached) /\ (i \in slaves') = (i \in slaves)
           /\ cache'[NodeOf[i]] = cache[NodeOf[i]] /\ up'[NodeOf[i]] = up[NodeOf[i]]
           /\ Live(i)' = Live(i) /\ DownTo(i)' = DownTo(i)
    PROVE  InstanceInv(i)'
  <1>1. RestsInv(i)' /\ FitsInv(i)' /\ TokenInv(i)'
    BY DEF InstanceInv, RestsInv, FitsInv, TokenInv
  <1>2. KnownInv(i)' /\ StageInv(i)'
    BY DEF InstanceInv, KnownInv, StageInv
  <1> QED
    BY <1>1, <1>2 DEF InstanceInv

(* Every step keeps the invariant: a node is lost.                         *)
LEMMA NodeLostQueues ==
    ASSUME MappingInv, QueueInv, NEW m \in Nodes, NodeLost(m)
    PROVE  QueueInv'
  <1> DEFINE p == Packet("removeNode", On(m), VERSION_NONE)
  <1>1. /\ InstanceTypeOK /\ NetTypeOK /\ OneStream /\ OwnPackets /\ NoneNewer
        /\ \A i \in Instances : InstanceInv(i)
    BY DEF MappingInv, QueueInv
  <1>2. /\ UNCHANGED <<version, slaves, master, cmdQueue>>
        /\ alive' = alive \ {m}
    BY DEF NodeLost, masterVars
  <1>3. /\ down \in [Nodes -> [Links -> Seq(DownPacket)]]
        /\ up \in [Nodes -> Seq(UpPacket)] /\ cache \in [Nodes -> CacheItem]
    BY <1>1 DEF NetTypeOK
  <1>4. \A n \in Nodes :
           /\ down'[n] = IF n = m THEN [l \in Links |-> <<>>] ELSE down[n]
           /\ up'[n] = IF n = m THEN Append(up[n], p) ELSE up[n]
           /\ cache'[n] = IF n = m THEN NoItem ELSE cache[n]
    BY <1>3 DEF NodeLost, SendUp
  <1>5. p \in UpPacket /\ p.type = "removeNode" /\ p.insts = On(m)
    BY DEF Packet, UpPacket, CommandPacket, On
  <1> HIDE DEF p
  <1>6. OneStream'
    BY <1>1, <1>2, <1>4 DEF OneStream, Links
  <1>7. NoneNewer'
    <2>1. In(<<>>) = {} /\ \A v : NotAfter(NoItem, v)
      BY DEF In, NotAfter, NoItem
    <2>2. [l \in Links |-> <<>>]["unicast"] = <<>>
      BY DEF Links
    <2> QED
      BY <1>1, <1>2, <1>4, <2>1, <2>2 DEF NoneNewer
  <1>8. OwnPackets'
    <2>1. \A x : Requested(x)' <=> Requested(x)
      BY <1>2 DEF Requested
    <2>2. In(up'[m]) = In(up[m]) \cup {p}
      BY <1>3, <1>4, <1>5, InAppend
    <2>3. ASSUME NEW n \in Nodes, NEW x \in In(up'[n])
          PROVE  /\ Requested(x)' /\ x.insts \subseteq On(n)
                 /\ x.type = "removeNode" => n \notin alive'
      <3>1. CASE x \in In(up[n])
        BY <1>1, <1>2, <2>1, <3>1 DEF OwnPackets
      <3>2. CASE x \notin In(up[n])
        <4>1. n = m /\ x = p
          BY <1>4, <2>2, <2>3, <3>2
        <4>2. Requested(p) /\ m \notin alive'
          BY <1>2, <1>5 DEF Requested
        <4> QED
          BY <1>5, <2>1, <4>1, <4>2
      <3> QED
        BY <3>1, <3>2
    <2>4. ASSUME NEW x \in In(cmdQueue')
          PROVE  Requested(x)' /\ (x.type = "removeNode" => \A i \in x.insts : NodeOf[i] \notin alive')
      BY <1>1, <1>2, <2>1, <2>4 DEF OwnPackets
    <2> QED
      BY <2>3, <2>4 DEF OwnPackets
  <1>9. ASSUME NEW i \in Instances
        PROVE  InstanceInv(i)'
    <2>1. InstanceInv(i) /\ NodeOf[i] \in Nodes
      BY <1>1, MappingAssumption
    <2>2. CASE NodeOf[i] = m
      <3>1. i \in On(m)
        BY <2>2 DEF On
      <3>2. state'[i] = "unmapped" /\ queue'[i] = <<>> /\ i \notin attached' /\ ~Live(i)'
        BY <1>2, <2>2, <3>1 DEF NodeLost, Forget, Live
      <3>3. FitsInv(i)'
        <4>1. QueueFits("unmapped", i \in attached', <<>>, slaveVersion'[i], content'[i],
                        mapTo'[i], version')
          BY NothingQueued
        <4> QED
          BY <3>2, <4>1 DEF FitsInv
      <3> QED
        BY <3>2, <3>3 DEF InstanceInv, RestsInv, TokenInv, KnownInv, StageInv
    <2>3. CASE NodeOf[i] # m
      <3>1. i \notin On(m)
        BY <2>3 DEF On
      <3>2. /\ state'[i] = state[i] /\ queue'[i] = queue[i] /\ mapTo'[i] = mapTo[i]
            /\ slaveVersion'[i] = slaveVersion[i] /\ content'[i] = content[i]
            /\ (i \in attached') = (i \in attached)
        BY <3>1 DEF NodeLost, Forget
      <3>3. /\ cache'[NodeOf[i]] = cache[NodeOf[i]] /\ up'[NodeOf[i]] = up[NodeOf[i]]
            /\ Live(i)' = Live(i) /\ DownTo(i)' = DownTo(i)
        BY <1>2, <1>4, <2>1, <2>3 DEF Live, DownTo
      <3>4. (i \in slaves') = (i \in slaves)
        BY <1>2
      <3> QED
        BY <1>2, <2>1, <3>2, <3>3, <3>4, InstanceSame
    <2> QED
      BY <2>2, <2>3
  <1> QED
    BY <1>6, <1>7, <1>8, <1>9 DEF QueueInv
-----------------------------------------------------------------------------
(* Steps of the application of an instance.                                *)

(* An application that waits for nothing has nothing under way.            *)
LEMMA NothingUnderWay ==
    ASSUME NEW q, NEW i, NEW st, NEW att, Awaited(q, i, st, att),
           st \notin {"mapping", "unmapping"}, NEW newSt, NEW newAtt
    PROVE  ~Has(q, i) /\ Awaited(q, i, newSt, newAtt)
  <1>1. \A k \in 1..Len(q) : ~IsToken(q[k], i)
    BY DEF Awaited, IsToken
  <1> QED
    BY <1>1, NoTokens

(* An instance without a request under way may change its state.           *)
LEMMA TokensFree ==
    ASSUME NEW i, NEW u, NEW c, NEW d, NEW st, NEW att, Tokens(i, u, c, d, st, att),
           st \notin {"mapping", "unmapping"}, NEW newSt, NEW newAtt
    PROVE  Tokens(i, u, c, d, newSt, newAtt)
  <1>1. Awaited(u, i, st, att) /\ Awaited(c, i, st, att) /\ Awaited(d, i, st, att)
    BY DEF Tokens
  <1>2. Awaited(u, i, newSt, newAtt) /\ Awaited(c, i, newSt, newAtt) /\ Awaited(d, i, newSt, newAtt)
    BY <1>1, NothingUnderWay
  <1> QED
    BY <1>2 DEF Tokens

(* A new request of the instance.                                          *)
LEMMA TokenSent ==
    ASSUME NEW S, NEW u \in Seq(S), NEW p \in S, NEW y, y = u \o <<p>>,
           NEW i, NEW c, NEW d, NEW st, NEW att, Tokens(i, u, c, d, st, att),
           st \notin {"mapping", "unmapping"}, NEW newSt, NEW newAtt,
           Awaited(<<p>>, i, newSt, newAtt)
    PROVE  Tokens(i, y, c, d, newSt, newAtt)
  <1> DEFINE r == <<p>>
  <1>1. Awaited(u, i, st, att) /\ Awaited(c, i, st, att) /\ Awaited(d, i, st, att)
    BY DEF Tokens
  <1>2. /\ Awaited(u, i, newSt, newAtt) /\ Awaited(c, i, newSt, newAtt)
        /\ Awaited(d, i, newSt, newAtt)
        /\ ~Has(u, i) /\ ~Has(c, i) /\ ~Has(d, i)
    BY <1>1, NothingUnderWay
  <1>3. r \in Seq(S) /\ AtMostOne(r, i)
    BY OneToken
  <1> HIDE DEF r
  <1>4. y = u \o r /\ Awaited(r, i, newSt, newAtt)
    BY DEF r
  <1>5. /\ AtMostOne(u, i) /\ AtMostOne(r, i) /\ ~(Has(u, i) /\ Has(r, i)) => AtMostOne(y, i)
        /\ Awaited(u, i, newSt, newAtt) /\ Awaited(r, i, newSt, newAtt)
              => Awaited(y, i, newSt, newAtt)
    BY <1>3, <1>4, TokensGrow
  <1> QED
    BY <1>2, <1>3, <1>4, <1>5 DEF Tokens

(* A packet that is no request of the instance.                            *)
LEMMA OtherSent ==
    ASSUME NEW S, NEW u \in Seq(S), NEW p \in S, NEW i, ~IsToken(p, i), NEW y,
           y = u \o <<p>>, NEW c, NEW d, NEW st, NEW att, Tokens(i, u, c, d, st, att)
    PROVE  Tokens(i, y, c, d, st, att)
  <1> DEFINE r == <<p>>
  <1>1. r \in Seq(S) /\ Len(r) = 1 /\ r[1] = p
    OBVIOUS
  <1> HIDE DEF r
  <1>2. ~Has(r, i) /\ AtMostOne(r, i) /\ Awaited(r, i, st, att)
    <2>1. \A k \in 1..Len(r) : ~IsToken(r[k], i)
      BY <1>1
    <2> QED
      BY <2>1, NoTokens
  <1>3. y = u \o r
    BY DEF r
  <1>4. /\ Has(y, i) <=> Has(u, i) \/ Has(r, i)
        /\ AtMostOne(u, i) /\ AtMostOne(r, i) /\ ~(Has(u, i) /\ Has(r, i)) => AtMostOne(y, i)
        /\ Awaited(u, i, st, att) /\ Awaited(r, i, st, att) => Awaited(y, i, st, att)
    BY <1>1, <1>3, TokensGrow
  <1> QED
    BY <1>2, <1>4 DEF Tokens

(* A cache entry that is used by more or fewer, with the same data.        *)
LEMMA SameData ==
    ASSUME NEW item, NEW new, new.versions = item.versions
    PROVE  /\ \A v : NotAfter(item, v) => NotAfter(new, v)
           /\ KeepsReady(item, new)
  BY DEF NotAfter, KeepsReady, ReadyIn

(* What an instance on the same node sends and caches.                     *)
LEMMA InstanceBeside ==
    ASSUME NetTypeOK, NEW j \in Instances, InstanceInv(j),
           UNCHANGED <<version, cmdQueue, master, slaves, alive, down>>,
           /\ state'[j] = state[j] /\ queue'[j] = queue[j] /\ mapTo'[j] = mapTo[j]
           /\ slaveVersion'[j] = slaveVersion[j] /\ content'[j] = content[j]
           /\ (j \in attached') = (j \in attached),
           cache'[NodeOf[j]].versions = cache[NodeOf[j]].versions,
           \/ up'[NodeOf[j]] = up[NodeOf[j]]
           \/ \E p \in UpPacket : up'[NodeOf[j]] = up[NodeOf[j]] \o <<p>> /\ ~IsToken(p, j)
    PROVE  InstanceInv(j)'
  <1> DEFINE n == NodeOf[j]
             u == up[n]
             d == DownTo(j)
             att == j \in attached
             member == j \in slaves /\ master # "gone"
  <1>1. Live(j)' = Live(j) /\ DownTo(j)' = DownTo(j)
    BY DEF Live, DownTo
  <1>2. RestsInv(j)' /\ FitsInv(j)' /\ KnownInv(j)'
    BY <1>1 DEF InstanceInv, RestsInv, FitsInv, KnownInv
  <1>3. TokenInv(j)'
    <2> SUFFICES ASSUME Live(j)
                 PROVE  Tokens(j, up'[n], cmdQueue, d, state[j], att)
      BY <1>1 DEF TokenInv
    <2>1. Tokens(j, u, cmdQueue, d, state[j], att)
      BY DEF InstanceInv, TokenInv
    <2>2. CASE up'[n] = u
      BY <2>1, <2>2
    <2>3. ASSUME NEW p \in UpPacket, up'[n] = u \o <<p>>, ~IsToken(p, j)
          PROVE  Tokens(j, up'[n], cmdQueue, d, state[j], att)
      <3> DEFINE y == up'[n]
                 c == cmdQueue
                 st == state[j]
      <3>1. u \in Seq(UpPacket)
        BY SMTT(40), MappingAssumption DEF NetTypeOK
      <3>2. y = u \o <<p>> /\ ~IsToken(p, j)
        BY <2>3
      <3>3. Tokens(j, u, c, d, st, att)
        BY <2>1
      <3> HIDE DEF u, d, att, n, y, c, st
      <3>4. Tokens(j, y, c, d, st, att)
        BY ONLY <3>1, <3>2, <3>3, p \in UpPacket, OtherSent
      <3> QED
        BY <3>4 DEF y, c, st
    <2> QED
      BY <2>2, <2>3
  <1>4. StageInv(j)'
    <2> SUFFICES ASSUME Live(j)
                 PROVE  Stage(j, d, state[j], att, queue[j], slaveVersion[j], mapTo[j],
                              cache'[n], version, member)
      BY <1>1 DEF StageInv
    <2>1. Stage(j, d, state[j], att, queue[j], slaveVersion[j], mapTo[j], cache[n], version,
                member)
      BY DEF InstanceInv, StageInv
    <2>2. /\ \A v : NotAfter(cache[n], v) => NotAfter(cache'[n], v)
          /\ KeepsReady(cache[n], cache'[n])
      BY SameData
    <2> HIDE DEF d, att, n, member
    <2> QED
      BY <2>1, <2>2, StageCache
  <1> QED
    BY <1>2, <1>3, <1>4 DEF InstanceInv

(* A node sends a packet for its instances.                                *)
LEMMA OwnSends ==
    ASSUME NetTypeOK, OwnPackets, UNCHANGED <<version, alive, cmdQueue>>,
           \/ UNCHANGED up
           \/ \E n \in Nodes, p \in UpPacket :
                 /\ SendUp(n, p) /\ Requested(p) /\ p.insts \subseteq On(n)
                 /\ p.type # "removeNode"
    PROVE  OwnPackets'
  <1>1. \A x : Requested(x)' <=> Requested(x)
    BY DEF Requested
  <1>2. CASE UNCHANGED up
    BY <1>1, <1>2 DEF OwnPackets
  <1>3. ASSUME NEW n \in Nodes, NEW p \in UpPacket, SendUp(n, p), Requested(p),
               p.insts \subseteq On(n), p.type # "removeNode"
        PROVE  OwnPackets'
    <2>1. up \in [Nodes -> Seq(UpPacket)] /\ up' = [up EXCEPT ![n] = Append(up[n], p)]
      BY <1>3 DEF NetTypeOK, SendUp
    <2>2. In(Append(up[n], p)) = In(up[n]) \cup {p}
      BY <2>1, InAppend
    <2>3. \A m \in Nodes : \A x \in In(up'[m]) : x \in In(up[m]) \/ (m = n /\ x = p)
      BY <2>1, <2>2
    <2> QED
      BY <1>1, <1>3, <2>3 DEF OwnPackets
  <1> QED
    BY <1>2, <1>3

(* What every step of an application leaves alone, and what it sends.      *)
OwnStep(i) ==
    /\ UNCHANGED <<version, cmdQueue, master, slaves, alive, down, attached>>
    /\ \A j \in Instances \ {i} :
          /\ state'[j] = state[j] /\ queue'[j] = queue[j] /\ mapTo'[j] = mapTo[j]
          /\ slaveVersion'[j] = slaveVersion[j] /\ content'[j] = content[j]
    /\ \A n \in Nodes : cache'[n].versions = cache[n].versions
    /\ \/ UNCHANGED up
       \/ \E p \in UpPacket :
             /\ SendUp(NodeOf[i], p) /\ p.insts = {i} /\ p.type # "removeNode"
             /\ Requested(p)

(* A step of the application of instance i keeps the invariant if it keeps *)
(* the parts of it that are about the instance.                            *)
LEMMA OwnStepQueues ==
    ASSUME MappingInv, QueueInv, NEW i \in Instances, OwnStep(i), Live(i),
           state'[i] = "unmapped" => i \notin attached,
           QueueFits(state'[i], i \in attached, queue'[i], slaveVersion'[i], content'[i],
                     mapTo'[i], version),
           Tokens(i, up'[NodeOf[i]], cmdQueue, DownTo(i), state'[i], i \in attached),
           Stage(i, DownTo(i), state'[i], i \in attached, queue'[i], slaveVersion'[i],
                 mapTo'[i], cache[NodeOf[i]], version, i \in slaves /\ master # "gone")
    PROVE  QueueInv'
  <1> DEFINE m == NodeOf[i]
  <1>1. NetTypeOK /\ OneStream /\ OwnPackets /\ NoneNewer /\ \A j \in Instances : InstanceInv(j)
    BY DEF MappingInv, QueueInv
  <1>2. m \in Nodes
    BY MappingAssumption
  <1>3. UNCHANGED <<version, cmdQueue, master, slaves, alive, down, attached>>
    BY DEF OwnStep
  <1>4. \A n \in Nodes : cache'[n].versions = cache[n].versions
    BY DEF OwnStep
  <1>5. OneStream' /\ NoneNewer'
    BY <1>1, <1>3, <1>4 DEF OneStream, NoneNewer, NotAfter
  <1>6. OwnPackets'
    <2>1. \/ UNCHANGED up
          \/ \E n \in Nodes, p \in UpPacket :
                /\ SendUp(n, p) /\ Requested(p) /\ p.insts \subseteq On(n)
                /\ p.type # "removeNode"
      BY <1>2 DEF OwnStep, On
    <2> QED
      BY <1>1, <1>3, <2>1, OwnSends
  <1>7. InstanceInv(i)'
    <2>1. Live(i)' = Live(i) /\ DownTo(i)' = DownTo(i)
      BY <1>3 DEF Live, DownTo
    <2>2. RestsInv(i)'
      BY <1>3, <2>1 DEF RestsInv
    <2>3. FitsInv(i)'
      BY <1>3 DEF FitsInv
    <2>4. TokenInv(i)'
      BY <1>3, <2>1 DEF TokenInv
    <2>5. KnownInv(i)'
      BY <1>1, <1>3, <2>1 DEF InstanceInv, KnownInv
    <2>6. StageInv(i)'
      <3> DEFINE d == DownTo(i)
                 st == state'[i]
                 att == i \in attached
                 qu == queue'[i]
                 sv == slaveVersion'[i]
                 mt == mapTo'[i]
                 item == cache[m]
                 new == cache'[m]
                 member == i \in slaves /\ master # "gone"
      <3>1. Stage(i, d, st, att, qu, sv, mt, item, version, member)
        OBVIOUS
      <3>2. /\ \A v : NotAfter(item, v) => NotAfter(new, v)
            /\ KeepsReady(item, new)
        BY <1>2, <1>4, SameData
      <3> SUFFICES Stage(i, d, st, att, qu, sv, mt, new, version, member)
        BY SMTT(40), <1>3, <2>1 DEF StageInv
      <3> HIDE DEF d, st, att, qu, sv, mt, item, new, member
      <3> QED
        BY ONLY <3>1, <3>2, StageCache
    <2> QED
      BY <2>2, <2>3, <2>4, <2>5, <2>6 DEF InstanceInv
  <1>8. ASSUME NEW j \in Instances, j # i
        PROVE  InstanceInv(j)'
    <2>1. /\ state'[j] = state[j] /\ queue'[j] = queue[j] /\ mapTo'[j] = mapTo[j]
          /\ slaveVersion'[j] = slaveVersion[j] /\ content'[j] = content[j]
          /\ (j \in attached') = (j \in attached)
      BY <1>3, <1>8 DEF OwnStep
    <2>2. NodeOf[j] \in Nodes /\ cache'[NodeOf[j]].versions = cache[NodeOf[j]].versions
      BY <1>4, MappingAssumption
    <2>3. \/ up'[NodeOf[j]] = up[NodeOf[j]]
          \/ \E p \in UpPacket : up'[NodeOf[j]] = up[NodeOf[j]] \o <<p>> /\ ~IsToken(p, j)
      <3>1. CASE UNCHANGED up
        BY <3>1
      <3>2. ASSUME NEW p \in UpPacket, SendUp(m, p), p.insts = {i}
            PROVE  \/ up'[NodeOf[j]] = up[NodeOf[j]]
                   \/ up'[NodeOf[j]] = up[NodeOf[j]] \o <<p>> /\ ~IsToken(p, j)
        <4>1. up \in [Nodes -> Seq(UpPacket)]
          BY <1>1 DEF NetTypeOK
        <4>2. up'[NodeOf[j]] = IF NodeOf[j] = m THEN Append(up[NodeOf[j]], p) ELSE up[NodeOf[j]]
          BY <2>2, <3>2, <4>1 DEF SendUp
        <4>3. Append(up[NodeOf[j]], p) = up[NodeOf[j]] \o <<p>>
          BY <2>2, <4>1, AppendIsConcat
        <4>4. ~IsToken(p, j)
          BY <1>8, <3>2 DEF IsToken
        <4> QED
          BY <4>2, <4>3, <4>4
      <3> QED
        BY <3>1, <3>2 DEF OwnStep
    <2> QED
      BY <1>1, <1>3, <2>1, <2>2, <2>3, InstanceBeside
  <1> QED
    BY <1>5, <1>6, <1>7, <1>8 DEF QueueInv

(* What is known of an instance whose application takes a step.            *)
LEMMA OwnState ==
    ASSUME MappingInv, QueueInv, NEW i \in Instances, state[i] # "unmapped"
    PROVE  /\ Live(i) /\ NodeOf[i] \in Nodes
           /\ QueueFits(state[i], i \in attached, queue[i], slaveVersion[i], content[i],
                        mapTo[i], version)
           /\ Tokens(i, up[NodeOf[i]], cmdQueue, DownTo(i), state[i], i \in attached)
           /\ Awaited(DownTo(i), i, state[i], i \in attached)
           /\ Stage(i, DownTo(i), state[i], i \in attached, queue[i], slaveVersion[i],
                    mapTo[i], cache[NodeOf[i]], version, i \in slaves /\ master # "gone")
  <1>1. InstanceInv(i)
    BY DEF QueueInv
  <1>2. Live(i)
    BY <1>1 DEF InstanceInv, RestsInv
  <1>3. Tokens(i, up[NodeOf[i]], cmdQueue, DownTo(i), state[i], i \in attached)
    BY <1>1, <1>2 DEF InstanceInv, TokenInv
  <1> QED
    BY <1>1, <1>2, <1>3, MappingAssumption DEF InstanceInv, FitsInv, StageInv, Tokens

(* An application gives up an instance that is not attached.               *)
LEMMA ForgetQueues ==
    ASSUME MappingInv, QueueInv, NEW i \in Instances, i \notin attached,
           state[i] \in {"replied", "mapped"}, Forget({i}),
           UNCHANGED <<version, cmdQueue, master, slaves, alive, down, attached, cache, up>>
    PROVE  QueueInv'
  <1>1. /\ state'[i] = "unmapped" /\ queue'[i] = <<>>
        /\ mapTo'[i] = VERSION_NONE /\ slaveVersion'[i] = VERSION_NONE
        /\ content'[i] = VERSION_NONE
    BY DEF Forget
  <1>2. OwnStep(i)
    BY DEF OwnStep, Forget
  <1>3. /\ Live(i)
        /\ Tokens(i, up[NodeOf[i]], cmdQueue, DownTo(i), state[i], i \in attached)
        /\ Awaited(DownTo(i), i, state[i], i \in attached)
    BY OwnState
  <1>4. QueueFits(state'[i], i \in attached, queue'[i], slaveVersion'[i], content'[i],
                  mapTo'[i], version)
    BY <1>1, NothingQueued
  <1>5. Tokens(i, up'[NodeOf[i]], cmdQueue, DownTo(i), state'[i], i \in attached)
    BY <1>3, TokensFree
  <1>6. Stage(i, DownTo(i), state'[i], i \in attached, queue'[i], slaveVersion'[i],
              mapTo'[i], cache[NodeOf[i]], version, i \in slaves /\ master # "gone")
    <2>1. \A k \in 1..Len(DownTo(i)) : ~IsReply(DownTo(i)[k], i)
      BY <1>3, NoneAnswered
    <2> QED
      BY <2>1, StageVoid
  <1> QED
    BY <1>2, <1>3, <1>4, <1>5, <1>6, OwnStepQueues

(* mapObjectSync preserves the invariant.                                  *)
LEMMA MapObjectSyncQueues ==
    ASSUME MappingInv, QueueInv, NEW i \in Instances, MapObjectSync(i)
    PROVE  QueueInv'
  <1>1. /\ state[i] = "replied"
        /\ UNCHANGED <<version, cmdQueue, master, slaves, alive, down, attached, cache, up>>
    BY DEF MapObjectSync, masterVars, netVars
  <1>2. CASE i \notin attached
    BY <1>1, <1>2, ForgetQueues DEF MapObjectSync
  <1>3. CASE i \in attached
    <2>1. state' = [state EXCEPT ![i] = "applying"] /\ UNCHANGED <<queue, mapTo, slaveVersion, content>>
      BY <1>3 DEF MapObjectSync
    <2>2. state'[i] = "applying" /\ \A j \in Instances \ {i} : state'[j] = state[j]
      BY <2>1 DEF MappingInv, InstanceTypeOK
    <2>3. OwnStep(i)
      BY <1>1, <2>1, <2>2 DEF OwnStep
    <2> DEFINE d == DownTo(i)
               att == i \in attached
               qu == queue[i]
               sv == slaveVersion[i]
               mt == mapTo[i]
               item == cache[NodeOf[i]]
               member == i \in slaves /\ master # "gone"
    <2>4. /\ Live(i) /\ Awaited(d, i, "replied", att)
          /\ QueueFits("replied", att, qu, sv, content[i], mt, version)
          /\ Tokens(i, up[NodeOf[i]], cmdQueue, d, "replied", att)
          /\ Stage(i, d, "replied", att, qu, sv, mt, item, version, member)
          /\ qu \in Seq(QueuedVersion)
      BY <1>1, OwnState DEF MappingInv, InstanceTypeOK
    <2> HIDE DEF d, att, qu, sv, mt, item, member
    <2>5. QueueFits("applying", att, qu, sv, content[i], mt, version)
      BY <2>4 DEF QueueFits
    <2>6. Tokens(i, up[NodeOf[i]], cmdQueue, d, "applying", att)
      BY <2>4, TokensFree
    <2>7. Stage(i, d, "applying", att, qu, sv, mt, item, version, member)
      <3>1. Gives("replied", qu, sv, "applying", qu, sv)
        BY DEF Gives
      <3> QED
        BY <2>4, <3>1, StageGives
    <2> QED
      BY <1>1, <2>1, <2>2, <2>3, <2>4, <2>5, <2>6, <2>7, OwnStepQueues
         DEF d, att, qu, sv, mt, item, member
  <1> QED
    BY <1>2, <1>3

(* applyMapData preserves the invariant.                                   *)
LEMMA ApplyMapDataQueues ==
    ASSUME MappingInv, QueueInv, NEW i \in Instances, ApplyMapData(i)
    PROVE  QueueInv'
  <1> DEFINE d == DownTo(i)
             att == i \in attached
             qu == queue[i]
             sv == slaveVersion[i]
             co == content[i]
             mt == mapTo[i]
             t == Tail(qu)
             item == cache[NodeOf[i]]
             member == i \in slaves /\ master # "gone"
  <1>1. /\ state[i] = "applying" /\ qu # <<>>
        /\ UNCHANGED <<version, cmdQueue, master, slaves, alive, down, attached, cache, up, mapTo>>
    BY DEF ApplyMapData, masterVars, netVars
  <1>2. /\ Live(i) /\ Awaited(d, i, "applying", att)
        /\ QueueFits("applying", att, qu, sv, co, mt, version)
        /\ Tokens(i, up[NodeOf[i]], cmdQueue, d, "applying", att)
        /\ Stage(i, d, "applying", att, qu, sv, mt, item, version, member)
    BY <1>1, OwnState
  <1>3. /\ qu \in Seq(QueuedVersion) /\ sv \in Int /\ co \in Int /\ mt \in Int /\ version \in Int
        /\ InRow(qu) /\ Head(qu) = qu[1]
    BY <1>2, InstanceFields DEF QueueFits, MappingInv
  <1>4. /\ queue'[i] = t
        /\ \A j \in Instances \ {i} :
              /\ queue'[j] = queue[j] /\ state'[j] = state[j]
              /\ slaveVersion'[j] = slaveVersion[j] /\ content'[j] = content[j]
        /\ IF qu[1].version = mt
           THEN state'[i] = "mapped" /\ slaveVersion'[i] = qu[1].version
                /\ content'[i] = Unpacked(qu[1], co)
           ELSE state'[i] = "applying" /\ slaveVersion'[i] = sv /\ content'[i] = co
    BY <1>1, <1>3 DEF ApplyMapData, MappingInv, InstanceTypeOK
  <1>5. OwnStep(i)
    BY <1>1, <1>4 DEF OwnStep
  <1> HIDE DEF d, att, qu, sv, co, mt, t, item, member
  <1>6. IF qu[1].version = mt
        THEN QueueFits("mapped", att, t, mt, Unpacked(qu[1], co), mt, version)
        ELSE QueueFits("applying", att, t, sv, co, mt, version)
    BY <1>1, <1>2, <1>3, QueueGives DEF t
  <1>7. /\ Tokens(i, up[NodeOf[i]], cmdQueue, d, "applying", att)
        /\ Tokens(i, up[NodeOf[i]], cmdQueue, d, "mapped", att)
    BY <1>2, TokensFree
  <1>8. /\ Stage(i, d, "applying", att, t, sv, mt, item, version, member)
        /\ Stage(i, d, "mapped", att, t, qu[1].version, mt, item, version, member)
    <2>1. /\ Gives("applying", qu, sv, "applying", t, sv)
          /\ Gives("applying", qu, sv, "mapped", t, qu[1].version)
      BY <1>1, <1>3 DEF Gives, t
    <2> QED
      BY <1>2, <1>3, <2>1, StageGives
  <1>9. /\ QueueFits(state'[i], att, t, slaveVersion'[i], content'[i], mt, version)
        /\ Tokens(i, up[NodeOf[i]], cmdQueue, d, state'[i], att)
        /\ Stage(i, d, state'[i], att, t, slaveVersion'[i], mt, item, version, member)
        /\ state'[i] # "unmapped"
    BY <1>4, <1>6, <1>7, <1>8
  <1> QED
    BY <1>1, <1>2, <1>4, <1>5, <1>9, OwnStepQueues DEF d, att, mt, item, member

(* A stream that gets one packet.                                          *)
LEMMA SentUp ==
    ASSUME NetTypeOK, NEW n \in Nodes, NEW p \in UpPacket, SendUp(n, p)
    PROVE  up[n] \in Seq(UpPacket) /\ up'[n] = up[n] \o <<p>>
  <1>1. up[n] \in Seq(UpPacket) /\ up'[n] = Append(up[n], p)
    BY DEF NetTypeOK, SendUp
  <1> QED
    BY <1>1, AppendIsConcat

(* _unpackOneVersion, with the acknowledgement it sends, preserves it.     *)
LEMMA UnpackOneVersionQueues ==
    ASSUME MappingInv, QueueInv, NEW i \in Instances, UnpackOneVersion(i)
    PROVE  QueueInv'
  <1> DEFINE d == DownTo(i)
             att == i \in attached
             qu == queue[i]
             sv == slaveVersion[i]
             co == content[i]
             mt == mapTo[i]
             t == Tail(qu)
             item == cache[NodeOf[i]]
             member == i \in slaves /\ master # "gone"
             u == up[NodeOf[i]]
             y == up'[NodeOf[i]]
  <1>1. /\ state[i] = "mapped" /\ qu # <<>>
        /\ UNCHANGED <<version, cmdQueue, master, slaves, alive, down, attached, cache, mapTo, state>>
    BY DEF UnpackOneVersion, masterVars
  <1>2. /\ Live(i) /\ NodeOf[i] \in Nodes /\ Awaited(d, i, "mapped", att)
        /\ QueueFits("mapped", att, qu, sv, co, mt, version)
        /\ Tokens(i, u, cmdQueue, d, "mapped", att)
        /\ Stage(i, d, "mapped", att, qu, sv, mt, item, version, member)
    BY <1>1, OwnState
  <1>3. /\ qu \in Seq(QueuedVersion) /\ sv \in Int /\ co \in Int /\ mt \in Int /\ version \in Int
        /\ InRow(qu) /\ Head(qu) = qu[1]
    BY <1>2, InstanceFields DEF QueueFits, MappingInv
  <1>4. /\ queue'[i] = t
        /\ \A j \in Instances \ {i} :
              /\ queue'[j] = queue[j]
              /\ slaveVersion'[j] = slaveVersion[j] /\ content'[j] = content[j]
        /\ slaveVersion'[i] = qu[1].version
        /\ content'[i] = Unpacked(qu[1], co)
    BY <1>1, <1>3 DEF UnpackOneVersion, MappingInv, InstanceTypeOK
  <1>5. UNCHANGED up \/ \E p \in UpPacket :
            SendUp(NodeOf[i], p) /\ p.insts = {i} /\ p.type = "maxVersion"
    BY AckType DEF MappingInv
  <1>6. OwnStep(i)
    BY <1>1, <1>4, <1>5 DEF OwnStep, Requested
  <1>7. Tokens(i, y, cmdQueue, d, "mapped", att)
    <2>1. CASE UNCHANGED up
      BY <1>2, <2>1
    <2>2. ASSUME NEW p \in UpPacket, SendUp(NodeOf[i], p), p.type = "maxVersion"
          PROVE  Tokens(i, y, cmdQueue, d, "mapped", att)
      <3>1. u \in Seq(UpPacket) /\ y = u \o <<p>>
        BY <1>2, <2>2, SentUp DEF MappingInv
      <3>2. ~IsToken(p, i)
        BY <2>2 DEF IsToken
      <3> DEFINE c == cmdQueue
                 st == "mapped"
      <3>3. Tokens(i, u, c, d, st, att)
        BY <1>2
      <3> HIDE DEF u, y, c, d, st, att
      <3>4. Tokens(i, y, c, d, st, att)
        BY ONLY <3>1, <3>2, <3>3, p \in UpPacket, OtherSent
      <3> QED
        BY <3>4 DEF c, st
    <2> QED
      BY <1>5, <2>1, <2>2
  <1> HIDE DEF d, att, qu, sv, co, mt, t, item, member, u, y
  <1>8. QueueFits("mapped", att, t, qu[1].version, Unpacked(qu[1], co), mt, version)
    BY <1>1, <1>2, <1>3, QueueGives DEF t
  <1>9. Stage(i, d, "mapped", att, t, qu[1].version, mt, item, version, member)
    <2>1. Gives("mapped", qu, sv, "mapped", t, qu[1].version)
      BY <1>1, <1>3 DEF Gives, t
    <2> QED
      BY <1>2, <1>3, <2>1, StageGives
  <1> QED
    BY <1>1, <1>2, <1>4, <1>6, <1>7, <1>8, <1>9, OwnStepQueues DEF d, att, mt, item, member, y

(* unmapObject preserves it: the unsubscribe is a new request.             *)
LEMMA UnmapObjectQueues ==
    ASSUME MappingInv, QueueInv, NEW i \in Instances, UnmapObject(i)
    PROVE  QueueInv'
  <1>1. /\ state[i] = "mapped"
        /\ UNCHANGED <<version, cmdQueue, master, slaves, alive, down, attached, cache>>
    BY DEF UnmapObject, masterVars
  <1>2. CASE i \notin attached
    BY <1>1, <1>2, ForgetQueues DEF UnmapObject
  <1>3. CASE i \in attached
    <2> DEFINE d == DownTo(i)
               att == i \in attached
               qu == queue[i]
               sv == slaveVersion[i]
               mt == mapTo[i]
               item == cache[NodeOf[i]]
               member == i \in slaves /\ master # "gone"
               u == up[NodeOf[i]]
               y == up'[NodeOf[i]]
               c == cmdQueue
               p == Packet("unsubscribe", {i}, VERSION_NONE)
    <2>1. /\ state' = [state EXCEPT ![i] = "unmapping"]
          /\ UNCHANGED <<queue, mapTo, slaveVersion, content>>
          /\ SendUp(NodeOf[i], p)
      BY <1>3 DEF UnmapObject
    <2>2. state'[i] = "unmapping" /\ \A j \in Instances \ {i} : state'[j] = state[j]
      BY <2>1 DEF MappingInv, InstanceTypeOK
    <2>3. p \in UpPacket /\ p.type = "unsubscribe" /\ p.insts = {i}
      BY DEF Packet, UpPacket, CommandPacket
    <2>4. OwnStep(i)
      BY <1>1, <2>1, <2>2, <2>3 DEF OwnStep, Requested
    <2>5. /\ Live(i) /\ NodeOf[i] \in Nodes /\ Awaited(d, i, "mapped", att)
          /\ QueueFits("mapped", att, qu, sv, content[i], mt, version)
          /\ Tokens(i, u, c, d, "mapped", att)
          /\ Stage(i, d, "mapped", att, qu, sv, mt, item, version, member)
          /\ qu \in Seq(QueuedVersion)
      BY <1>1, OwnState DEF MappingInv, InstanceTypeOK
    <2>6. u \in Seq(UpPacket) /\ y = u \o <<p>>
      BY <2>1, <2>3, <2>5, SentUp DEF MappingInv
    <2> HIDE DEF d, att, qu, sv, mt, item, member, u, y, c, p
    <2>7. QueueFits("unmapping", att, qu, sv, content[i], mt, version)
      BY <2>5 DEF QueueFits
    <2>8. Tokens(i, y, c, d, "unmapping", att)
      <3> DEFINE st == "mapped"
                 new == "unmapping"
      <3>1. Awaited(<<p>>, i, new, att)
        BY <2>3 DEF Awaited
      <3>2. Tokens(i, u, c, d, st, att) /\ st \notin {"mapping", "unmapping"}
        BY <2>5
      <3> HIDE DEF st, new
      <3>3. Tokens(i, y, c, d, new, att)
        BY ONLY <2>3, <2>6, <3>1, <3>2, TokenSent
      <3> QED
        BY <3>3 DEF new
    <2>9. Stage(i, d, "unmapping", att, qu, sv, mt, item, version, member)
      <3>1. Gives("mapped", qu, sv, "unmapping", qu, sv)
        BY DEF Gives
      <3> QED
        BY <2>5, <3>1, StageGives
    <2> QED
      BY <1>1, <2>1, <2>2, <2>4, <2>5, <2>7, <2>8, <2>9, OwnStepQueues
         DEF d, att, qu, sv, mt, item, member, y, c
  <1> QED
    BY <1>2, <1>3

(* The request of mapObjectNB: the cached versions of a buffered object    *)
(* are complete, and their numbers are no invalid version.                 *)
LEMMA RequestFits ==
    ASSUME ~MapFuture, LastVersion < VERSION_INVALID, MappingInv, AnnounceInv,
           NEW i \in Instances, NEW requested \in Requests, MapObjectNB(i, requested)
    PROVE  \E p \in UpPacket :
              /\ SendUp(NodeOf[i], p) /\ p.insts = {i} /\ p.type = "mapObject"
              /\ Requested(p)
  <1> DEFINE n == NodeOf[i]
             item == cache[n]
             hit == MapRequest(i, requested, TRUE, GetVersion(item.versions[1]),
                               GetVersion(Newest(item)))
             miss == MapRequest(i, requested, FALSE, VERSION_NONE, VERSION_NONE)
             packet == IF Cached(item) THEN hit ELSE miss
  <1>1. n \in Nodes /\ n \in alive /\ item \in CacheItem
    BY MappingAssumption DEF MapObjectNB, NetTypeOK, MappingInv
  <1>2. packet \in UpPacket
    BY RequestType DEF MappingInv
  <1>3. SendUp(n, packet) /\ requested =< version
    BY DEF MapObjectNB
  <1>4. packet.insts = {i} /\ packet.type = "mapObject" /\ packet.version = requested
    BY DEF MapRequest
  <1>5. Buffered => packet.maxCached # VERSION_INVALID
    <2> SUFFICES ASSUME Buffered
                 PROVE  packet.maxCached # VERSION_INVALID
      OBVIOUS
    <2>1. \A v \in Version : v # VERSION_INVALID
      BY MasterAssumption, MappingAssumption DEF Version, VERSION_INVALID
    <2>2. CASE Cached(item)
      <3>1. packet.maxCached = GetVersion(Newest(item))
        BY <2>2 DEF MapRequest
      <3>2. Newest(item).ready
        BY <1>1, <2>2 DEF AnnounceInv, Expected
      <3>3. Newest(item).version \in Version
        BY <1>1, <2>2, ItemFields DEF Newest
      <3> QED
        BY <2>1, <3>1, <3>2, <3>3 DEF GetVersion
    <2>3. CASE ~Cached(item)
      <3>1. packet.maxCached = VERSION_NONE
        BY <2>3 DEF MapRequest
      <3>2. VERSION_NONE \in Version
        BY MappingAssumption DEF Version
      <3> QED
        BY <2>1, <3>1, <3>2
    <2> QED
      BY <2>2, <2>3
  <1> HIDE DEF packet
  <1> QED
    BY <1>2, <1>3, <1>4, <1>5 DEF Requested

(* mapObjectNB preserves it: the request names what the cache holds.       *)
LEMMA MapObjectNBQueues ==
    ASSUME ~MapFuture, LastVersion < VERSION_INVALID, MappingInv, AnnounceInv, QueueInv,
           NEW i \in Instances, NEW requested \in Requests, MapObjectNB(i, requested)
    PROVE  QueueInv'
  <1> DEFINE d == DownTo(i)
             att == i \in attached
             qu == queue[i]
             sv == slaveVersion[i]
             mt == mapTo[i]
             item == cache[NodeOf[i]]
             member == i \in slaves /\ master # "gone"
             u == up[NodeOf[i]]
             y == up'[NodeOf[i]]
             c == cmdQueue
  <1>1. /\ state[i] = "unmapped" /\ Live(i) /\ NodeOf[i] \in Nodes
        /\ UNCHANGED <<version, cmdQueue, master, slaves, alive, down, attached, queue, mapTo,
                       slaveVersion, content>>
    BY MappingAssumption DEF MapObjectNB, masterVars, Live
  <1>2. InstanceInv(i)
    BY DEF QueueInv
  <1>3. ~att /\ qu = <<>> /\ Tokens(i, u, c, d, "unmapped", att)
    BY <1>1, <1>2 DEF InstanceInv, RestsInv, FitsInv, QueueFits, TokenInv
  <1>4. state'[i] = "mapping" /\ \A j \in Instances \ {i} : state'[j] = state[j]
    BY DEF MapObjectNB, MappingInv, InstanceTypeOK
  <1>5. \A n \in Nodes : cache'[n].versions = cache[n].versions
    BY <1>1 DEF MapObjectNB, MappingInv, NetTypeOK, Pin, CacheItem
  <1>6. PICK p \in UpPacket :
            SendUp(NodeOf[i], p) /\ p.insts = {i} /\ p.type = "mapObject" /\ Requested(p)
    BY RequestFits
  <1>7. OwnStep(i)
    BY <1>1, <1>4, <1>5, <1>6 DEF OwnStep
  <1>8. u \in Seq(UpPacket) /\ y = u \o <<p>>
    BY <1>1, <1>6, SentUp DEF MappingInv
  <1> HIDE DEF d, att, qu, sv, mt, item, member, u, y, c
  <1>9. Tokens(i, y, c, d, "mapping", att)
    <2> DEFINE st == "unmapped"
               new == "mapping"
    <2>1. Awaited(<<p>>, i, new, att)
      BY <1>3, <1>6 DEF Awaited
    <2>2. Tokens(i, u, c, d, st, att) /\ st \notin {"mapping", "unmapping"}
      BY <1>3
    <2> HIDE DEF st, new
    <2>3. Tokens(i, y, c, d, new, att)
      BY ONLY <1>6, <1>8, <2>1, <2>2, TokenSent
    <2> QED
      BY <2>3 DEF new
  <1>10. QueueFits("mapping", att, qu, sv, content[i], mt, version)
    <2>1. \A k \in 1..Len(qu) : FALSE
      BY <1>3
    <2> QED
      BY <1>3, <2>1 DEF QueueFits, InRow
  <1>11. Stage(i, d, "mapping", att, qu, sv, mt, item, version, member)
    <2>1. Awaited(d, i, "unmapped", att)
      BY <1>3 DEF Tokens
    <2>2. \A k \in 1..Len(d) : ~IsReply(d[k], i)
      BY <2>1, NoneAnswered
    <2> QED
      BY <1>3, <2>2, StageVoid
  <1> QED
    BY <1>1, <1>4, <1>7, <1>9, <1>10, <1>11, OwnStepQueues
       DEF d, att, qu, sv, mt, item, member, y, c

(* All steps of an application.                                            *)
LEMMA SlaveQueues ==
    ASSUME ~MapFuture, LastVersion < VERSION_INVALID, MappingInv, AnnounceInv, QueueInv,
           NEW i \in Instances, SlaveNext(i)
    PROVE  QueueInv'
  BY MapObjectNBQueues, MapObjectSyncQueues, ApplyMapDataQueues, UnpackOneVersionQueues,
     UnmapObjectQueues DEF SlaveNext
-----------------------------------------------------------------------------
(* Steps of the command thread of the master.                              *)

(* A command is executed: an instance that it is from has no other request *)
(* under way.                                                              *)
LEMMA TokensTaken ==
    ASSUME NEW S, NEW c \in Seq(S), NEW p, NEW x, IsTaken(p, c, x),
           NEW i, NEW u, NEW d, NEW st, NEW att, Tokens(i, u, c, d, st, att)
    PROVE  /\ Tokens(i, u, x, d, st, att)
           /\ IsToken(p, i) =>
                 /\ ~Has(u, i) /\ ~Has(x, i) /\ ~Has(d, i)
                 /\ p.type = "mapObject" => st = "mapping" /\ ~att
                 /\ p.type = "unsubscribe" => st = "unmapping"
  <1>1. /\ Has(x, i) => Has(c, i)
        /\ IsToken(p, i) => Has(c, i)
        /\ AtMostOne(x, i)
        /\ IsToken(p, i) => ~Has(x, i)
        /\ Awaited(x, i, st, att)
    BY TokensShrink DEF Tokens, IsTaken
  <1>2. 1 \in 1..Len(c) /\ c[1] = p
    BY RestOfStream DEF IsTaken
  <1>3. IsToken(p, i) =>
           /\ p.type = "mapObject" => st = "mapping" /\ ~att
           /\ p.type = "unsubscribe" => st = "unmapping"
    BY <1>2 DEF Tokens, Awaited
  <1> QED
    BY <1>1, <1>3 DEF Tokens

(* The parts of the invariant that the command thread can disturb.         *)
Serves(i, c, d, slave) ==
    /\ Tokens(i, up[NodeOf[i]], c, d, state[i], i \in attached)
    /\ master = "gone" \/ Knows(i, d, i \in attached, slave)
    /\ Stage(i, d, state[i], i \in attached, queue[i], slaveVersion[i], mapTo[i],
             cache[NodeOf[i]], version, slave /\ master # "gone")

(* A command has to be served for the live instances only.                 *)
LEMMA ServedInstance ==
    ASSUME NEW i \in Instances, InstanceInv(i),
           UNCHANGED <<version, slaveVars, alive, up, master>>,
           Live(i) => Serves(i, cmdQueue', DownTo(i)', i \in slaves')
    PROVE  InstanceInv(i)'
  <1>1. /\ state'[i] = state[i] /\ queue'[i] = queue[i] /\ mapTo'[i] = mapTo[i]
        /\ slaveVersion'[i] = slaveVersion[i] /\ content'[i] = content[i]
        /\ attached' = attached /\ cache' = cache /\ alive' = alive /\ version' = version
        /\ up' = up /\ master' = master /\ Live(i)' = Live(i)
    BY DEF slaveVars, instanceVars, Live
  <1>2. RestsInv(i)' /\ FitsInv(i)'
    BY <1>1 DEF RestsInv, FitsInv, InstanceInv
  <1>3. TokenInv(i)'
    BY <1>1 DEF TokenInv, Serves
  <1>4. KnownInv(i)'
    BY <1>1 DEF KnownInv, Serves
  <1>5. StageInv(i)'
    BY <1>1 DEF StageInv, Serves
  <1> QED
    BY <1>2, <1>3, <1>4, <1>5 DEF InstanceInv

(* Before the step.                                                        *)
LEMMA ServedBefore ==
    ASSUME NEW i \in Instances, InstanceInv(i), Live(i)
    PROVE  Serves(i, cmdQueue, DownTo(i), i \in slaves)
  BY DEF Serves, InstanceInv, TokenInv, KnownInv, StageInv

(* An instance that the command is not for.                                *)
LEMMA ServesQuiet ==
    ASSUME InstanceTypeOK, NetTypeOK, NEW i \in Instances, NEW S, NEW c \in Seq(S),
           NEW p, NEW x, IsTaken(p, c, x), NEW slave, Serves(i, c, DownTo(i), slave),
           NEW new \in Seq(DownPacket), NEW t, t = DownTo(i) \o new,
           \A k \in 1..Len(new) : Quiet(new[k], i)
    PROVE  Serves(i, x, t, slave)
  <1> DEFINE n == NodeOf[i]
             d == DownTo(i)
             att == i \in attached
             u == up[n]
             st == state[i]
             member == slave /\ master # "gone"
  <1>1. d \in Seq(DownPacket) /\ att \in BOOLEAN
    BY InstanceFields
  <1>2. Tokens(i, u, x, t, st, att)
    <2>1. Tokens(i, u, c, d, st, att) /\ t = d \o new
      BY DEF Serves
    <2> HIDE DEF u, d, st, att
    <2>2. Tokens(i, u, x, d, st, att)
      BY <2>1, TokensTaken
    <2> QED
      BY <1>1, <2>1, <2>2, QuietTokens
  <1>3. master = "gone" \/ Knows(i, t, att, slave)
    <2>1. (master = "gone" \/ Knows(i, d, att, slave)) /\ t = d \o new
      BY DEF Serves
    <2> HIDE DEF d, att
    <2> QED
      BY <1>1, <2>1, QuietKnows
  <1>4. Stage(i, t, st, att, queue[i], slaveVersion[i], mapTo[i], cache[n], version, member)
    <2>1. Stage(i, d, st, att, queue[i], slaveVersion[i], mapTo[i], cache[n], version, member)
          /\ t = d \o new
      BY DEF Serves
    <2>2. \A k \in 1..Len(new) : ~IsReply(new[k], i) /\ ~Carries(new[k], i)
      BY DEF Quiet, IsReply, IsToken, Answers
    <2> HIDE DEF d, n, att, st, member
    <2> QED
      BY ZenonT(60), <1>1, <2>1, <2>2, StageQuiet
  <1> QED
    BY <1>2, <1>3, <1>4 DEF Serves

(* Nothing is sent.                                                        *)
LEMMA ServesNothing ==
    ASSUME NEW i \in Instances, NEW S, NEW c \in Seq(S),
           NEW p, NEW x, IsTaken(p, c, x), NEW slave, NEW d, Serves(i, c, d, slave)
    PROVE  Serves(i, x, d, slave)
  <1> DEFINE u == up[NodeOf[i]]
             st == state[i]
             att == i \in attached
  <1>1. Tokens(i, u, c, d, st, att)
    BY DEF Serves
  <1>2. Tokens(i, u, x, d, st, att)
    <2> HIDE DEF u, st, att
    <2> QED
      BY <1>1, TokensTaken
  <1> QED
    BY <1>2 DEF Serves

(* The answer that is one packet: the master is gone, or the instance      *)
(* detaches.                                                               *)
IsRefusal(p, r) ==
    \/ p.type = "mapObject" /\ r.type = "failed" /\ ~r.useCache /\ master = "gone"
    \/ p.type = "unsubscribe" /\ r.type = "detach"

(* A refusal, or the detach, takes the place of the request it answers.    *)
LEMMA RefusalTokens ==
    ASSUME NEW S, NEW d \in Seq(S), NEW r \in S, NEW t, t = d \o <<r>>,
           NEW i, ~Has(d, i), NEW u, ~Has(u, i), NEW x, ~Has(x, i), NEW st, NEW att,
           Tokens(i, u, x, d, st, att), r.type \in {"failed", "detach"},
           r.type = "failed" => st = "mapping" /\ ~att /\ ~r.useCache,
           r.type = "detach" => st = "unmapping"
    PROVE  Tokens(i, u, x, t, st, att)
  <1> DEFINE q == <<r>>
  <1>1. q \in Seq(S) /\ Len(q) = 1 /\ q[1] = r
    OBVIOUS
  <1>2. AtMostOne(q, i)
    BY OneToken
  <1>3. Replied(q, i)
    BY OneToken DEF Begins
  <1> HIDE DEF q
  <1>4. Awaited(q, i, st, att)
    <2>1. \A k \in 1..Len(q) : q[k] = r
      BY <1>1
    <2> QED
      BY <2>1 DEF Awaited
  <1>5. t = d \o q
    BY DEF q
  <1>6. /\ AtMostOne(d, i) /\ AtMostOne(q, i) /\ ~(Has(d, i) /\ Has(q, i)) => AtMostOne(t, i)
        /\ Awaited(d, i, st, att) /\ Awaited(q, i, st, att) => Awaited(t, i, st, att)
        /\ Replied(d, i) /\ Replied(q, i) => Replied(t, i)
    BY ZenonT(60), <1>1, <1>5, TokensGrow
  <1> QED
    BY <1>2, <1>3, <1>4, <1>6 DEF Tokens

(* A refusal, or the detach, serves the instance.                          *)
LEMMA ServesRefusal ==
    ASSUME InstanceTypeOK, NetTypeOK, NEW i \in Instances, NEW S, NEW c \in Seq(S),
           NEW p, NEW x, IsTaken(p, c, x), IsToken(p, i),
           NEW slave, Serves(i, c, DownTo(i), slave), NEW newSlave, newSlave => slave,
           NEW r \in DownPacket, i \in r.insts, IsRefusal(p, r), NEW t, t = DownTo(i) \o <<r>>
    PROVE  Serves(i, x, t, newSlave)
  <1> DEFINE n == NodeOf[i]
             d == DownTo(i)
             att == i \in attached
             u == up[n]
             st == state[i]
             member == slave /\ master # "gone"
             newMember == newSlave /\ master # "gone"
  <1>1. d \in Seq(DownPacket) /\ att \in BOOLEAN
    BY InstanceFields
  <1>2. /\ Tokens(i, u, x, d, st, att)
        /\ ~Has(u, i) /\ ~Has(x, i) /\ ~Has(d, i)
        /\ p.type = "mapObject" => st = "mapping" /\ ~att
        /\ p.type = "unsubscribe" => st = "unmapping"
    <2>1. Tokens(i, u, c, d, st, att)
      BY DEF Serves
    <2> HIDE DEF u, d, st, att
    <2> QED
      BY <2>1, TokensTaken
  <1>3. Tokens(i, u, x, t, st, att)
    <2>1. /\ t = d \o <<r>> /\ r.type \in {"failed", "detach"}
          /\ r.type = "failed" => st = "mapping" /\ ~att /\ ~r.useCache
          /\ r.type = "detach" => st = "unmapping"
      BY <1>2 DEF IsRefusal
    <2> HIDE DEF u, d, st, att
    <2> QED
      BY ONLY <1>1, <1>2, <2>1, r \in DownPacket, RefusalTokens
  <1>4. OneMore(t, d, r)
    BY <1>1, SendsOne
  <1>5. master = "gone" \/ Knows(i, t, att, newSlave)
    <2> SUFFICES ASSUME master # "gone"
                 PROVE  Knows(i, t, att, newSlave)
      OBVIOUS
    <2>1. r.type = "detach"
      BY DEF IsRefusal
    <2>2. \A k \in 1..Len(d) : ~IsToken(d[k], i)
      BY <1>2 DEF Has
    <2> HIDE DEF d, att
    <2>3. \A k \in 1..Len(t) : ~(Answers(t[k], i) /\ t[k].type = "reply")
      BY <1>4, <2>1, <2>2 DEF OneMore, Answers, IsToken
    <2>4. Len(t) \in 1..Len(t) /\ Ends(t[Len(t)], i)
      BY <1>4, <2>1 DEF OneMore, Ends
    <2> QED
      BY <2>3, <2>4 DEF Knows
  <1>6. Stage(i, t, st, att, queue[i], slaveVersion[i], mapTo[i], cache[n], version, newMember)
    <2> DEFINE new == <<r>>
    <2>1. Stage(i, d, st, att, queue[i], slaveVersion[i], mapTo[i], cache[n], version, member)
          /\ t = d \o new /\ (newMember => member)
      BY DEF Serves
    <2>2. new \in Seq(DownPacket) /\ \A k \in 1..Len(new) : ~IsReply(new[k], i) /\ ~Carries(new[k], i)
      BY DEF IsReply, Carries, IsRefusal
    <2> HIDE DEF d, n, att, st, member, new, newMember
    <2> QED
      BY <1>1, <2>1, <2>2, StageQuiet
  <1> QED
    BY <1>3, <1>5, <1>6 DEF Serves

(* The answer that maps the instance.                                      *)
LEMMA AnswerTokens ==
    ASSUME NEW d, NEW data, NEW p, NEW reply, Len(d) \in Nat, Len(data) \in Nat,
           NEW t, IsAnswer(t, d, p, data, reply), NEW i, p.type = "success", IsReply(reply, i),
           \A k \in 1..Len(data) : data[k].type \in {"map", "empty"},
           NEW u, NEW x, NEW st, NEW att, Tokens(i, u, x, d, st, att),
           ~Has(u, i), ~Has(x, i), ~Has(d, i), st = "mapping"
    PROVE  Tokens(i, u, x, t, st, att)
  <1> DEFINE N == Len(d)
             L == Len(t)
  <1>1. /\ N \in Nat /\ L \in Nat /\ L > N + 1
        /\ \A k \in 1..N : t[k] = d[k]
        /\ t[N + 1] = p /\ t[L] = reply
    BY DEF IsAnswer
  <1>2. \A k \in 1..L : k \in 1..N \/ k = N + 1 \/ k = L \/ t[k].type \in {"map", "empty"}
    <2> SUFFICES ASSUME NEW k \in 1..L, k \notin 1..N, k # N + 1, k # L
                 PROVE  t[k].type \in {"map", "empty"}
      OBVIOUS
    <2> DEFINE D == Len(data)
    <2>1. D \in Nat /\ L = N + D + 2 /\ \A j \in 1..D : t[(N + 1) + j] = data[j]
      BY DEF IsAnswer
    <2> HIDE DEF N, L, D
    <2>2. (k - (N + 1)) \in 1..D /\ (N + 1) + (k - (N + 1)) = k
      BY ONLY <1>1, <2>1, k \in 1..L, k \notin 1..N, k # N + 1, k # L
    <2> QED
      BY <2>1, <2>2 DEF D
  <1> HIDE DEF N, L
  <1>3. \A k \in 1..N : ~IsToken(d[k], i) /\ ~Begins(d[k], i)
    <2>1. \A k \in 1..N : ~IsToken(d[k], i)
      BY DEF Has, N
    <2>2. Replied(d, i)
      BY DEF Tokens
    <2>3. \A k \in 1..N : \A r \in k + 1..N : r \in 1..N
      BY <1>1
    <2> QED
      BY <2>1, <2>2, <2>3 DEF Replied, Answers, IsToken, N
  <1>4. \A k \in 1..L : IsToken(t[k], i) => k = L
    BY <1>1, <1>2, <1>3 DEF IsToken
  <1>5. AtMostOne(t, i)
    BY <1>4 DEF AtMostOne, L
  <1>6. Awaited(t, i, st, att)
    BY <1>1, <1>4 DEF Awaited, IsReply, L
  <1>7. Replied(t, i)
    <2>1. \A k \in 1..L : Begins(t[k], i) => k = N + 1
      BY <1>1, <1>2, <1>3 DEF Begins, IsReply, Answers
    <2>2. L \in (N + 1) + 1..L
      BY <1>1
    <2> QED
      BY <1>1, <2>1, <2>2 DEF Replied, IsReply, L
  <1> QED
    BY <1>5, <1>6, <1>7 DEF Tokens

(* The map data of an instance is for that instance.                       *)
LEMMA DataIsOwn ==
    ASSUME MasterTypeOK, InstanceTypeOK, CheckConsistency,
           NEW request \in RequestPacket, NEW i \in Instances, NEW data, data = MapData(i, request)
    PROVE  /\ data \in Seq(DownPacket)
           /\ \A k \in 1..Len(data) : data[k].insts = {i} /\ data[k].type \in {"map", "empty"}
  <1> DEFINE empty == Packet("empty", {i}, version)
             part == MapPacket(i, version, FALSE)
             whole == MapPacket(i, version, TRUE)
  <1>1. data \in Seq(DownPacket)
    <2>1. data \in Seq(PlainPacket \cup DataPacket)
      BY MapDataType
    <2>2. \A k \in 1..Len(data) : data[k] \in DownPacket
      BY <2>1, StreamElements DEF DownPacket
    <2> QED
      BY <2>1, <2>2
  <1>2. /\ empty.insts = {i} /\ empty.type = "empty" /\ part.insts = {i} /\ part.type = "map"
        /\ whole.insts = {i} /\ whole.type = "map"
    BY DEF Packet, MapPacket
  <1>3. CASE request.version = VERSION_NONE
    <2>1. data = <<empty>>
      BY <1>3 DEF MapData
    <2> HIDE DEF empty
    <2> QED
      BY <1>1, <1>2, <2>1
  <1>4. CASE request.version # VERSION_NONE /\ Buffered
    <2> DEFINE range == SentVersions(request)
               dropped == instanceDatas[1].version - 1
               sent == SubSeq(instanceDatas, range.start - dropped, range.end - dropped)
    <2>1. data = [k \in 1..Len(sent) |-> MapPacket(i, sent[k].version, TRUE)]
      BY <1>4 DEF MapData
    <2>2. Len(sent) \in Nat
      <3>1. sent \in Seq({instanceDatas[k] : k \in 1..Len(instanceDatas)})
        BY <1>4, SentIsRetained
      <3> HIDE DEF sent
      <3> QED
        BY <3>1
    <2> HIDE DEF sent
    <2>3. \A k \in 1..Len(data) : data[k] = MapPacket(i, sent[k].version, TRUE)
      BY <2>1, <2>2
    <2>4. \A v : MapPacket(i, v, TRUE).insts = {i} /\ MapPacket(i, v, TRUE).type = "map"
      BY DEF MapPacket
    <2> QED
      BY <1>1, <2>3, <2>4
  <1>5. CASE request.version # VERSION_NONE /\ ~Buffered
    <2>1. data = <<>> \/ data = <<whole>> \/ data = <<part, whole>>
      BY <1>5 DEF MapData
    <2> HIDE DEF whole, part
    <2> QED
      BY <1>1, <1>2, <2>1
  <1> QED
    BY <1>3, <1>4, <1>5

(* Success, map data and reply, sent together, serve the instance.         *)
LEMMA ServesAnswer ==
    ASSUME MappingInv, NEW i \in Instances, NEW S, NEW c \in Seq(S), NEW p \in RequestPacket,
           NEW x, IsTaken(p, c, x), p.insts = {i}, Requested(p), CacheHolds(p, cache[NodeOf[i]]),
           NotAfter(cache[NodeOf[i]], version),
           \A k \in 1..Len(DownTo(i)) : IsData(DownTo(i)[k]) => DownTo(i)[k].version =< version,
           NEW slave, Serves(i, c, DownTo(i), slave), NEW newSlave, newSlave,
           NEW t, t = DownTo(i) \o (<<Packet("success", {i}, VERSION_NONE)>> \o MapData(i, p)
                          \o <<Reply("reply", p, MappedVersion(p.version), RepliesUseCache(p))>>)
    PROVE  Serves(i, x, t, newSlave)
  <1> DEFINE n == NodeOf[i]
             d == DownTo(i)
             att == i \in attached
             u == up[n]
             st == state[i]
             item == cache[n]
             newMember == newSlave /\ master # "gone"
             success == Packet("success", {i}, VERSION_NONE)
             data == MapData(i, p)
             reply == Reply("reply", p, MappedVersion(p.version), RepliesUseCache(p))
  <1>0. MasterTypeOK /\ InstanceTypeOK /\ NetTypeOK /\ CheckConsistency
    BY DEF MappingInv, MasterInv
  <1>1. d \in Seq(DownPacket) /\ att \in BOOLEAN /\ item \in CacheItem /\ version \in Version
    BY <1>0, InstanceFields
  <1>2. /\ data \in Seq(DownPacket)
        /\ \A k \in 1..Len(data) : data[k].insts = {i} /\ data[k].type \in {"map", "empty"}
    BY <1>0, DataIsOwn
  <1>3. success \in DownPacket /\ reply \in DownPacket
    <2>1. success \in PlainPacket
      BY MappingAssumption DEF Packet, PlainPacket, Version
    <2>2. reply \in ReplyPacket
      <3>1. /\ p.insts \in Single /\ p.useCache \in BOOLEAN /\ p.version \in Int
            /\ p.minCached \in Nat /\ p.maxCached \in Nat
        BY DEF RequestPacket
      <3>2. MappedVersion(p.version) \in Int
        <4>1. p.version =< version
          BY DEF Requested, RequestPacket
        <4>2. MappedVersion(p.version) \in 1..version
          BY <1>0, <3>1, <4>1, MappedIsCommitted
        <4> QED
          BY <4>2
      <3>3. RepliesUseCache(p) \in BOOLEAN /\ (RepliesUseCache(p) => p.useCache)
        BY DEF RepliesUseCache
      <3> QED
        BY <3>1, <3>2, <3>3 DEF Reply, ReplyPacket
    <2> QED
      BY <2>1, <2>2 DEF DownPacket
  <1>4. /\ success.type = "success" /\ success.insts = {i}
        /\ reply.type = "reply" /\ reply.insts = {i}
        /\ reply.version = MappedVersion(p.version)
        /\ reply.useCache = RepliesUseCache(p)
    BY DEF Packet, Reply
  <1>5. Begins(success, i) /\ IsReply(reply, i)
    BY <1>4 DEF Begins, IsReply, Answers
  <1>6. t = d \o (<<success>> \o data \o <<reply>>)
    OBVIOUS
  <1>7. /\ Tokens(i, u, x, d, st, att)
        /\ ~Has(u, i) /\ ~Has(x, i) /\ ~Has(d, i)
        /\ st = "mapping" /\ ~att
    <2>1. Tokens(i, u, c, d, st, att)
      BY DEF Serves
    <2>2. IsToken(p, i) /\ p.type = "mapObject"
      BY DEF IsToken, RequestPacket
    <2> HIDE DEF u, d, st, att
    <2> QED
      BY <2>1, <2>2, TokensTaken
  <1>8. /\ \E lo, hi \in Version :
                 Delivers(data, i, lo, hi) /\ LeadsTo(reply, lo + 1, hi, version, item)
        /\ \A k \in 1..Len(data) : data[k].version =< version
    <2> HIDE DEF data, reply, item
    <2>1. data = MapData(i, p) /\ NotAfter(item, version) /\ CacheHolds(p, item)
      BY DEF data, item
    <2> QED
      BY <1>0, <1>1, <1>4, <2>1, MapDataLeads
  <1>9. \A k \in 1..Len(d) : IsData(d[k]) => d[k].version =< version
    OBVIOUS
  <1> HIDE DEF n, d, att, u, st, item, newMember, success, data, reply
  <1>10. IsAnswer(t, d, success, data, reply) /\ Len(d) \in Nat /\ Len(data) \in Nat
    <2>1. d \in Seq(DownPacket) /\ data \in Seq(DownPacket)
      BY <1>1, <1>2
    <2> QED
      BY ONLY ZenonT(60), <1>3, <1>6, <2>1, AnswerParts, Zenon
  <1>11. Tokens(i, u, x, t, st, att)
    BY ONLY <1>2, <1>4, <1>5, <1>7, <1>10, AnswerTokens
  <1>12. \A k \in 1..Len(d) : ~Begins(d[k], i) /\ ~IsReply(d[k], i)
    <2>1. \A k \in 1..Len(d) : ~IsToken(d[k], i)
      BY <1>7 DEF Has
    <2>2. Replied(d, i)
      BY <1>7 DEF Tokens
    <2>3. \A k \in 1..Len(d) : \A r \in k + 1..Len(d) : r \in 1..Len(d)
      BY <1>10
    <2> QED
      BY <2>1, <2>2, <2>3 DEF Replied, Answers, IsToken, IsReply
  <1>13. Stage(i, t, st, att, queue[i], slaveVersion[i], mapTo[i], item, version, newMember)
    BY ONLY <1>1, <1>2, <1>3, <1>5, <1>7, <1>8, <1>9, <1>10, <1>12, AnswerStage
  <1>14. Knows(i, t, att, newSlave)
    BY DEF Knows
  <1> QED
    BY <1>11, <1>13, <1>14 DEF Serves, u, st, att, item, n, newMember

(* What a command sends, as far as the instances of its receivers are      *)
(* served by it.                                                           *)
LEMMA CommandSends ==
    ASSUME MappingInv, QueueInv, UNCHANGED <<version, slaveVars, alive, up, master>>,
           NEW p, IsTaken(p, cmdQueue, cmdQueue'),
           NEW receivers, NEW packets \in Seq(DownPacket), Send(receivers, "unicast", packets),
           \A k \in 1..Len(packets) : IsData(packets[k]) => packets[k].version =< version,
           \A j \in Instances : Live(j) /\ NodeOf[j] \in receivers =>
              Serves(j, cmdQueue', DownTo(j) \o packets, j \in slaves'),
           \A j \in Instances : Live(j) /\ NodeOf[j] \notin receivers =>
              (j \in slaves') = (j \in slaves)
    PROVE  QueueInv'
  <1>1. /\ InstanceTypeOK /\ NetTypeOK /\ OneStream /\ OwnPackets /\ NoneNewer
        /\ \A i \in Instances : InstanceInv(i)
    BY DEF MappingInv, QueueInv
  <1>2. \A n \in Nodes :
            /\ down'[n]["multicast"] = down[n]["multicast"]
            /\ down'[n]["unicast"] = IF n \in alive /\ n \in receivers
                                     THEN down[n]["unicast"] \o packets
                                     ELSE down[n]["unicast"]
    BY <1>1, SendUnicast
  <1>3. OneStream' /\ NoneNewer'
    <2>1. version' = version /\ version \in Int /\ UNCHANGED <<alive, cache>>
      BY <1>1 DEF slaveVars, InstanceTypeOK
    <2>2. \A n \in Nodes :
            /\ down'[n]["multicast"] = down[n]["multicast"]
            /\ \/ down'[n]["unicast"] = down[n]["unicast"]
               \/ n \in alive /\ \E new \in Seq(DownPacket) :
                     /\ down'[n]["unicast"] = down[n]["unicast"] \o new
                     /\ \A k \in 1..Len(new) : IsData(new[k]) => new[k].version =< version'
      BY <1>2, <2>1
    <2> QED
      BY <1>1, <2>1, <2>2, StreamsGrow
  <1>4. cmdQueue \in Seq(CommandPacket)
    BY <1>1 DEF NetTypeOK
  <1>5. OwnPackets'
    <2>1. In(cmdQueue') \subseteq In(cmdQueue)
      BY <1>4, InTail DEF IsTaken
    <2>2. \A y : Requested(y)' <=> Requested(y)
      BY DEF Requested
    <2> QED
      BY <1>1, <2>1, <2>2 DEF OwnPackets
  <1>6. ASSUME NEW j \in Instances
        PROVE  InstanceInv(j)'
    <2>1. InstanceInv(j) /\ NodeOf[j] \in Nodes
      BY <1>1, MappingAssumption
    <2>2. ASSUME Live(j)
          PROVE  Serves(j, cmdQueue', DownTo(j)', j \in slaves')
      <3>1. CASE NodeOf[j] \in receivers
        <4>1. DownTo(j)' = DownTo(j) \o packets
          BY <1>2, <2>1, <2>2, <3>1 DEF DownTo, Live
        <4> QED
          BY <2>2, <3>1, <4>1
      <3>2. CASE NodeOf[j] \notin receivers
        <4>1. DownTo(j)' = DownTo(j) /\ (j \in slaves') = (j \in slaves)
          BY <1>2, <2>1, <2>2, <3>2 DEF DownTo
        <4>2. Serves(j, cmdQueue, DownTo(j), j \in slaves)
          BY <2>1, <2>2, ServedBefore
        <4> DEFINE c == cmdQueue
                   x == cmdQueue'
                   d == DownTo(j)
                   slave == j \in slaves
        <4>3. Serves(j, c, d, slave) /\ c \in Seq(CommandPacket) /\ c # <<>> /\ x = Tail(c)
          BY <1>4, <4>2 DEF IsTaken
        <4> HIDE DEF c, x, d, slave
        <4>4. Serves(j, x, d, slave)
          BY <1>6, <4>3, ServesNothing DEF IsTaken
        <4> QED
          BY <4>1, <4>4 DEF x, d, slave
      <3> QED
        BY <3>1, <3>2
    <2> QED
      BY <2>1, <2>2, ServedInstance
  <1> QED
    BY <1>3, <1>5, <1>6 DEF QueueInv

(* _cmdUnsubscribeObject preserves the invariant.                          *)
LEMMA UnsubscribeQueues ==
    ASSUME MappingInv, QueueInv, UNCHANGED <<version, slaveVars, alive, up, master>>,
           NEW p \in CommandPacket, IsTaken(p, cmdQueue, cmdQueue'), CmdUnsubscribeObject(p)
    PROVE  QueueInv'
  <1> DEFINE receivers == {NodeOf[i] : i \in p.insts}
             r == Packet("detach", p.insts, VERSION_NONE)
             packets == <<r>>
  <1>1. /\ InstanceTypeOK /\ NetTypeOK /\ cmdQueue \in Seq(CommandPacket)
        /\ \A i \in Instances : InstanceInv(i)
    BY DEF MappingInv, QueueInv, NetTypeOK
  <1>2. /\ p.type = "unsubscribe" /\ p.insts \subseteq Instances
        /\ Send(receivers, "unicast", packets)
    BY DEF CmdUnsubscribeObject, CommandPacket, RequestPacket
  <1>3. \A j \in Instances : (j \in slaves' => j \in slaves)
            /\ (j \notin p.insts => (j \in slaves') = (j \in slaves))
    BY DEF CmdUnsubscribeObject, RemoveSlaves, masterVars
  <1>4. r \in DownPacket /\ r.type = "detach" /\ r.insts = p.insts
    <2>1. VERSION_NONE \in Version
      BY MappingAssumption DEF Version
    <2> QED
      BY <1>2, <2>1 DEF Packet, PlainPacket, DownPacket
  <1> HIDE DEF r
  <1>5. packets \in Seq(DownPacket) /\ \A k \in 1..Len(packets) : packets[k] = r
    BY <1>4
  <1>6. \A k \in 1..Len(packets) : IsData(packets[k]) => packets[k].version =< version
    BY <1>4, <1>5 DEF IsData
  <1>7. ASSUME NEW j \in Instances, Live(j), NodeOf[j] \in receivers
        PROVE  Serves(j, cmdQueue', DownTo(j) \o packets, j \in slaves')
    <2> DEFINE c == cmdQueue
               x == cmdQueue'
               t == DownTo(j) \o packets
               slave == j \in slaves
               newSlave == j \in slaves'
    <2>1. Serves(j, c, DownTo(j), slave)
      BY <1>1, <1>7, ServedBefore
    <2>2. /\ c \in Seq(CommandPacket) /\ IsTaken(p, c, x) /\ (newSlave => slave)
          /\ t = DownTo(j) \o <<r>>
      BY <1>1, <1>3
    <2>3. CASE j \in p.insts
      <3>1. j \in r.insts /\ IsRefusal(p, r) /\ IsToken(p, j)
        BY <1>2, <1>4, <2>3 DEF IsRefusal, IsToken
      <3> HIDE DEF c, x, t, slave, newSlave, packets
      <3>2. Serves(j, x, t, newSlave)
        BY ZenonT(60), <1>1, <1>4, <2>1, <2>2, <3>1, ServesRefusal
      <3> QED
        BY <3>2 DEF x, t, newSlave
    <2>4. CASE j \notin p.insts
      <3>1. \A k \in 1..Len(packets) : Quiet(packets[k], j)
        BY <1>4, <1>5, <2>4 DEF Quiet, IsToken, Begins, Carries
      <3>2. newSlave = slave
        BY <1>3, <2>4
      <3>3. t = DownTo(j) \o packets
        OBVIOUS
      <3> HIDE DEF c, x, t, slave, newSlave, packets
      <3>4. Serves(j, x, t, slave)
        BY <1>1, <1>5, <2>1, <2>2, <3>1, <3>3, ServesQuiet
      <3> QED
        BY <3>2, <3>4 DEF x, t, newSlave, slave
    <2> QED
      BY <2>3, <2>4
  <1>8. ASSUME NEW j \in Instances, NodeOf[j] \notin receivers
        PROVE  (j \in slaves') = (j \in slaves)
    BY <1>3, <1>8
  <1> HIDE DEF receivers, packets
  <1> QED
    BY <1>2, <1>5, <1>6, <1>7, <1>8, CommandSends

(* _cmdRemoveNode preserves the invariant.                                 *)
LEMMA RemoveNodeQueues ==
    ASSUME MappingInv, QueueInv, UNCHANGED <<version, slaveVars, alive, up, master>>,
           NEW p \in CommandPacket, IsTaken(p, cmdQueue, cmdQueue'), CmdRemoveNode(p)
    PROVE  QueueInv'
  <1> DEFINE packets == <<>>
             receivers == {}
  <1>1. NetTypeOK /\ OwnPackets /\ cmdQueue \in Seq(CommandPacket)
    BY DEF MappingInv, QueueInv, NetTypeOK
  <1>2. p \in In(cmdQueue)
    BY <1>1, InTail DEF IsTaken
  <1>3. \A j \in p.insts : NodeOf[j] \notin alive
    BY <1>1, <1>2 DEF OwnPackets, CmdRemoveNode
  <1>4. Send(receivers, "unicast", packets)
    BY <1>1 DEF Send, CmdRemoveNode, NetTypeOK
  <1>5. \A j \in Instances : Live(j) => (j \in slaves') = (j \in slaves)
    BY <1>3 DEF CmdRemoveNode, RemoveSlaves, masterVars, Live
  <1>6. packets \in Seq(DownPacket) /\ \A k \in 1..Len(packets) : FALSE
    OBVIOUS
  <1>7. \A j \in Instances : NodeOf[j] \notin receivers
    OBVIOUS
  <1> HIDE DEF packets, receivers
  <1> QED
    BY <1>4, <1>5, <1>6, <1>7, CommandSends

(* A request to map an instance, when the master object is gone.           *)
LEMMA RefuseQueues ==
    ASSUME MappingInv, QueueInv, UNCHANGED <<version, slaveVars, alive, up, master, slaves>>,
           NEW p \in RequestPacket, IsTaken(p, cmdQueue, cmdQueue'), master = "gone",
           NEW i \in Instances, p.insts = {i},
           Send({NodeOf[i]}, "unicast", <<Reply("failed", p, p.version, FALSE)>>)
    PROVE  QueueInv'
  <1> DEFINE receivers == {NodeOf[i]}
             r == Reply("failed", p, p.version, FALSE)
             packets == <<r>>
  <1>1. /\ InstanceTypeOK /\ NetTypeOK /\ cmdQueue \in Seq(CommandPacket)
        /\ \A j \in Instances : InstanceInv(j)
    BY DEF MappingInv, QueueInv, NetTypeOK
  <1>2. r \in DownPacket /\ r.type = "failed" /\ r.insts = p.insts /\ ~r.useCache
    BY DEF Reply, RequestPacket, ReplyPacket, DownPacket
  <1>3. p.type = "mapObject"
    BY DEF RequestPacket
  <1> HIDE DEF r
  <1>4. packets \in Seq(DownPacket) /\ \A k \in 1..Len(packets) : packets[k] = r
    BY <1>2
  <1>5. \A k \in 1..Len(packets) : IsData(packets[k]) => packets[k].version =< version
    BY <1>2, <1>4 DEF IsData
  <1>6. ASSUME NEW j \in Instances, Live(j)
        PROVE  Serves(j, cmdQueue', DownTo(j) \o packets, j \in slaves')
    <2> DEFINE c == cmdQueue
               x == cmdQueue'
               t == DownTo(j) \o packets
               slave == j \in slaves
    <2>1. Serves(j, c, DownTo(j), slave)
      BY <1>1, <1>6, ServedBefore
    <2>2. c \in Seq(CommandPacket) /\ IsTaken(p, c, x) /\ t = DownTo(j) \o <<r>>
      BY <1>1
    <2>3. CASE j = i
      <3>1. j \in r.insts /\ IsRefusal(p, r) /\ IsToken(p, j)
        BY <1>2, <1>3, <2>3 DEF IsRefusal, IsToken
      <3> HIDE DEF c, x, t, slave, packets
      <3>2. Serves(j, x, t, slave)
        BY ZenonT(60), <1>1, <1>2, <2>1, <2>2, <3>1, ServesRefusal
      <3> QED
        BY <3>2 DEF x, t, slave
    <2>4. CASE j # i
      <3>1. \A k \in 1..Len(packets) : Quiet(packets[k], j)
        BY <1>2, <1>4, <2>4 DEF Quiet, IsToken, Begins, Carries
      <3>2. t = DownTo(j) \o packets
        OBVIOUS
      <3> HIDE DEF c, x, t, slave, packets
      <3>3. Serves(j, x, t, slave)
        BY <1>1, <1>4, <2>1, <2>2, <3>1, <3>2, ServesQuiet
      <3> QED
        BY <3>3 DEF x, t, slave
    <2> QED
      BY <2>3, <2>4
  <1>7. Send(receivers, "unicast", packets)
    BY DEF r
  <1> HIDE DEF receivers, packets
  <1> QED
    BY <1>4, <1>5, <1>6, <1>7, CommandSends

(* The packets of an answer.                                               *)
LEMMA AnswerPackets ==
    ASSUME MasterTypeOK, InstanceTypeOK, CheckConsistency,
           NEW p \in RequestPacket, NEW i \in Instances, p.insts = {i}, Requested(p),
           NEW item \in CacheItem, NotAfter(item, version), CacheHolds(p, item),
           NEW packets \in Seq(DownPacket),
           packets = <<Packet("success", {i}, VERSION_NONE)>> \o MapData(i, p)
                     \o <<Reply("reply", p, MappedVersion(p.version), RepliesUseCache(p))>>
    PROVE  \A k \in 1..Len(packets) :
              packets[k].insts = {i} /\ (IsData(packets[k]) => packets[k].version =< version)
  <1> DEFINE success == Packet("success", {i}, VERSION_NONE)
             data == MapData(i, p)
             reply == Reply("reply", p, MappedVersion(p.version), RepliesUseCache(p))
             S == {success, reply} \cup In(data)
             first == <<success>>
             last == <<reply>>
  <1>1. /\ data \in Seq(DownPacket)
        /\ \A k \in 1..Len(data) : data[k].insts = {i}
    BY DataIsOwn
  <1>2. success.insts = {i} /\ ~IsData(success) /\ reply.insts = {i} /\ ~IsData(reply)
    BY DEF Packet, Reply, IsData
  <1>3. \A k \in 1..Len(data) : data[k].version =< version
    <2>1. /\ reply.version = MappedVersion(p.version)
          /\ reply.useCache = RepliesUseCache(p)
          /\ data = MapData(i, p)
      BY DEF Reply
    <2> HIDE DEF data, reply
    <2> QED
      BY <2>1, MapDataLeads
  <1>4. packets = (first \o data) \o last
    OBVIOUS
  <1> HIDE DEF success, data, reply
  <1>5. In(packets) \subseteq S
    <2>1. first \in Seq(S) /\ last \in Seq(S) /\ In(first) = {success} /\ In(last) = {reply}
      BY DEF In
    <2> DEFINE front == first \o data
    <2>2. \A k \in 1..Len(data) : data[k] \in S
      BY DEF In
    <2> HIDE DEF first, last, S
    <2>3. data \in Seq(S)
      BY <1>1, <2>2
    <2>4. front \in Seq(S) /\ In(front) = In(first) \cup In(data)
      BY <2>1, <2>3, InConcat
    <2>5. packets = front \o last
      BY <1>4
    <2> HIDE DEF front
    <2>6. In(front \o last) = In(front) \cup In(last)
      BY ONLY <2>1, <2>4, InConcat
    <2> QED
      BY <2>1, <2>4, <2>5, <2>6 DEF S
  <1>6. \A y \in S : y.insts = {i} /\ (IsData(y) => y.version =< version)
    BY <1>1, <1>2, <1>3 DEF In
  <1>7. \A k \in 1..Len(packets) : packets[k] \in In(packets)
    BY DEF In
  <1> QED
    BY <1>5, <1>6, <1>7

(* A request that is answered.                                             *)
LEMMA AnswerQueues ==
    ASSUME MappingInv, AnnounceInv, QueueInv, UNCHANGED <<version, slaveVars, alive, up, master>>,
           NEW p \in RequestPacket, IsTaken(p, cmdQueue, cmdQueue'),
           NEW i \in Instances, p.insts = {i}, slaves' = slaves \cup {i},
           NEW packets,
           packets = <<Packet("success", {i}, VERSION_NONE)>> \o MapData(i, p)
                     \o <<Reply("reply", p, MappedVersion(p.version), RepliesUseCache(p))>>,
           Send({NodeOf[i]}, "unicast", packets)
    PROVE  QueueInv'
  <1> DEFINE item == cache[NodeOf[i]]
  <1>1. /\ InstanceTypeOK /\ NetTypeOK /\ MasterTypeOK /\ CheckConsistency
        /\ cmdQueue \in Seq(CommandPacket)
        /\ OneStream /\ OwnPackets /\ NoneNewer /\ \A j \in Instances : InstanceInv(j)
    BY DEF MappingInv, MasterInv, QueueInv, NetTypeOK
  <1>2. NodeOf[i] \in Nodes /\ item \in CacheItem
    BY <1>1, InstanceFields
  <1>3. p \in In(cmdQueue)
    BY <1>1, InTail DEF IsTaken
  <1>4. Requested(p) /\ NotAfter(item, version)
    BY <1>1, <1>2, <1>3 DEF OwnPackets, NoneNewer
  <1>5. CASE ~Live(i)
    <2> DEFINE none == <<>>
               receivers == {}
    <2>1. Send(receivers, "unicast", none)
      BY <1>1, <1>5 DEF Send, Live, NetTypeOK
    <2>2. \A j \in Instances : Live(j) => (j \in slaves') = (j \in slaves)
      BY <1>5
    <2>3. none \in Seq(DownPacket) /\ \A k \in 1..Len(none) : FALSE
      OBVIOUS
    <2>4. \A j \in Instances : NodeOf[j] \notin receivers
      OBVIOUS
    <2> HIDE DEF none, receivers
    <2> QED
      BY <2>1, <2>2, <2>3, <2>4, CommandSends
  <1>6. CASE Live(i)
    <2> DEFINE receivers == {NodeOf[i]}
    <2>1. CacheHolds(p, item)
      <3>1. p.useCache => IsPin(NodeOf[i], p)
        BY DEF IsPin, On, RequestPacket
      <3>2. p \in UnderWay(NodeOf[i])
        BY <1>3 DEF UnderWay
      <3> QED
        BY <1>6, <3>1, <3>2 DEF AnnounceInv, Announced, Live, CacheHolds
    <2>2. packets \in Seq(DownPacket)
      BY <1>1, AnswerTypes
    <2>3. \A k \in 1..Len(packets) :
             packets[k].insts = {i} /\ (IsData(packets[k]) => packets[k].version =< version)
      BY ZenonT(60), <1>1, <1>2, <1>4, <2>1, <2>2, AnswerPackets
    <2>4. ASSUME NEW j \in Instances, Live(j), NodeOf[j] \in receivers
          PROVE  Serves(j, cmdQueue', DownTo(j) \o packets, j \in slaves')
      <3> DEFINE c == cmdQueue
                 x == cmdQueue'
                 t == DownTo(j) \o packets
                 slave == j \in slaves
                 newSlave == j \in slaves'
      <3>1. Serves(j, c, DownTo(j), slave)
        BY <1>1, <2>4, ServedBefore
      <3>2. c \in Seq(CommandPacket) /\ IsTaken(p, c, x) /\ t = DownTo(j) \o packets
        BY <1>1
      <3>3. CASE j = i
        <4>1. newSlave
          BY <3>3
        <4>2. \A k \in 1..Len(DownTo(j)) :
                 IsData(DownTo(j)[k]) => DownTo(j)[k].version =< version
          BY <1>1, <1>2, <3>3 DEF NoneNewer, DownTo, In
        <4> HIDE DEF c, x, t, slave, newSlave
        <4>3. Serves(j, x, t, newSlave)
          BY <1>4, <2>1, <3>1, <3>2, <3>3, <4>1, <4>2, ServesAnswer
        <4> QED
          BY <4>3 DEF x, t, newSlave
      <3>4. CASE j # i
        <4>1. \A k \in 1..Len(packets) : Quiet(packets[k], j)
          <5> SUFFICES ASSUME NEW k \in 1..Len(packets)
                       PROVE  Quiet(packets[k], j)
            OBVIOUS
          <5>1. j \notin packets[k].insts
            BY <2>3, <3>4
          <5> QED
            BY <5>1 DEF Quiet, IsToken, Begins, Carries
        <4>2. newSlave = slave
          BY <3>4
        <4> HIDE DEF c, x, t, slave, newSlave
        <4>3. Serves(j, x, t, slave)
          BY <1>1, <2>2, <3>1, <3>2, <4>1, ServesQuiet
        <4> QED
          BY <4>2, <4>3 DEF x, t, slave, newSlave
      <3> QED
        BY <3>3, <3>4
    <2>5. \A j \in Instances : NodeOf[j] \notin receivers => (j \in slaves') = (j \in slaves)
      OBVIOUS
    <2> HIDE DEF receivers
    <2>6. Send(receivers, "unicast", packets)
      BY DEF receivers
    <2> QED
      BY <2>2, <2>3, <2>4, <2>5, <2>6, CommandSends
  <1> QED
    BY <1>5, <1>6

(* Every step keeps the invariant: the command thread of the master.       *)
LEMMA MasterCommandQueues ==
    ASSUME ~UseMulticast, MappingInv, AnnounceInv, QueueInv, MasterCommand
    PROVE  QueueInv'
  <1> DEFINE p == Head(cmdQueue)
             i == CHOOSE j \in p.insts : TRUE
             answer == <<Packet("success", {i}, VERSION_NONE)>> \o MapData(i, p)
                       \o <<Reply("reply", p, MappedVersion(p.version), RepliesUseCache(p))>>
  <1>1. p \in CommandPacket /\ IsTaken(p, cmdQueue, cmdQueue')
    BY FirstAndRest DEF MappingInv, NetTypeOK, MasterCommand, IsTaken
  <1>2. UNCHANGED <<slaveVars, alive, up, master>>
    BY DEF MasterCommand
  <1>3. CASE CmdMapObject(p)
    <2>1. p \in RequestPacket
      BY <1>1, <1>3 DEF CmdMapObject, CommandPacket
    <2>2. i \in Instances /\ p.insts = {i}
      BY <2>1, ChosenInstance DEF RequestPacket
    <2>3. \/ /\ master = "gone" /\ UNCHANGED <<version, slaves>>
             /\ Send({NodeOf[i]}, "unicast", <<Reply("failed", p, p.version, FALSE)>>)
          \/ /\ slaves' = slaves \cup {i} /\ UNCHANGED version
             /\ Send({NodeOf[i]}, "unicast", answer)
      BY <1>3 DEF CmdMapObject, MapLink, AddSlave, masterVars
    <2> HIDE DEF p, i
    <2>4. CASE /\ master = "gone" /\ UNCHANGED <<version, slaves>>
               /\ Send({NodeOf[i]}, "unicast", <<Reply("failed", p, p.version, FALSE)>>)
      BY <1>1, <1>2, <2>1, <2>2, <2>4, RefuseQueues
    <2>5. CASE /\ slaves' = slaves \cup {i} /\ UNCHANGED version
               /\ Send({NodeOf[i]}, "unicast", answer)
      <3> DEFINE packets == answer
      <3>1. Send({NodeOf[i]}, "unicast", packets) /\ packets = answer
        BY <2>5
      <3> HIDE DEF packets
      <3> QED
        BY <1>1, <1>2, <2>1, <2>2, <2>5, <3>1, AnswerQueues
    <2> QED
      BY <2>3, <2>4, <2>5
  <1>4. CASE CmdUnsubscribeObject(p)
    <2>1. UNCHANGED version
      BY <1>4 DEF CmdUnsubscribeObject, RemoveSlaves, masterVars
    <2> HIDE DEF p
    <2> QED
      BY <1>1, <1>2, <1>4, <2>1, UnsubscribeQueues
  <1>5. CASE CmdRemoveNode(p)
    <2>1. UNCHANGED version
      BY <1>5 DEF CmdRemoveNode, RemoveSlaves, masterVars
    <2> HIDE DEF p
    <2> QED
      BY <1>1, <1>2, <1>5, <2>1, RemoveNodeQueues
  <1> QED
    BY <1>3, <1>4, <1>5 DEF MasterCommand
-----------------------------------------------------------------------------
(* Steps of the receiver thread of a slave's node.                         *)

(* The first packet of the stream is received: the requests under way.     *)
LEMMA TokensReceived ==
    ASSUME NEW d \in Seq(DownPacket), NEW p, NEW t, IsTaken(p, d, t), NEW i, NEW u, NEW c,
           NEW st, NEW att, Tokens(i, u, c, d, st, att)
    PROVE  /\ Tokens(i, u, c, t, st, att)
           /\ Tokens(i, u, c, t, st, FALSE)
           /\ IsToken(p, i) =>
                 /\ \A k \in 1..Len(t) : ~IsToken(t[k], i)
                 /\ \A newSt, newAtt : Tokens(i, u, c, t, newSt, newAtt)
                 /\ p.type = "reply" => st = "mapping"
                 /\ p.type = "failed" => st = "mapping" /\ ~att /\ ~p.useCache
                 /\ p.type = "detach" => st = "unmapping"
  <1>1. /\ Has(t, i) => Has(d, i)
        /\ IsToken(p, i) => Has(d, i)
        /\ AtMostOne(t, i)
        /\ IsToken(p, i) => ~Has(t, i)
        /\ Awaited(t, i, st, att)
        /\ Replied(t, i)
    BY TokensShrink DEF Tokens, IsTaken
  <1>2. 1 \in 1..Len(d) /\ d[1] = p
    BY RestOfStream DEF IsTaken
  <1>3. Tokens(i, u, c, t, st, att)
    BY <1>1 DEF Tokens
  <1>4. Tokens(i, u, c, t, st, FALSE)
    <2>1. \A q : Awaited(q, i, st, att) => Awaited(q, i, st, FALSE)
      BY DEF Awaited
    <2> QED
      BY <1>3, <2>1 DEF Tokens
  <1>5. ASSUME IsToken(p, i)
        PROVE  /\ \A k \in 1..Len(t) : ~IsToken(t[k], i)
               /\ \A newSt, newAtt : Tokens(i, u, c, t, newSt, newAtt)
    <2>1. ~Has(u, i) /\ ~Has(c, i) /\ ~Has(t, i)
      BY <1>1, <1>5 DEF Tokens
    <2>2. \A newSt, newAtt : /\ Awaited(u, i, newSt, newAtt) /\ Awaited(c, i, newSt, newAtt)
                             /\ Awaited(t, i, newSt, newAtt)
      BY <2>1 DEF Has, Awaited
    <2> QED
      BY <1>3, <2>1, <2>2 DEF Tokens, Has
  <1>6. IsToken(p, i) =>
           /\ p.type = "reply" => st = "mapping"
           /\ p.type = "failed" => st = "mapping" /\ ~att /\ ~p.useCache
           /\ p.type = "detach" => st = "unmapping"
    BY <1>2 DEF Tokens, Awaited
  <1> QED
    BY <1>3, <1>4, <1>5, <1>6

(* After a success packet comes a reply, and there is no other request.    *)
LEMMA TokensBegin ==
    ASSUME NEW d \in Seq(DownPacket), NEW p, NEW t, IsTaken(p, d, t), NEW i, NEW u, NEW c,
           NEW st, NEW att, Tokens(i, u, c, d, st, att), Begins(p, i)
    PROVE  /\ st = "mapping" /\ Tokens(i, u, c, t, st, TRUE)
           /\ \E r \in 1..Len(d) : IsReply(d[r], i)
  <1>1. /\ Len(d) \in Nat \ {0} /\ d[1] = p /\ Len(t) = Len(d) - 1
        /\ \A k \in 1..Len(t) : t[k] = d[k + 1] /\ k + 1 \in 1..Len(d)
    BY Shrinks DEF IsTaken
  <1>2. PICK r \in 1..Len(d) : IsReply(d[r], i)
    <2>1. \E r \in 1 + 1..Len(d) : Answers(d[r], i) /\ d[r].type = "reply"
      BY <1>1 DEF Tokens, Replied
    <2> QED
      BY <1>1, <2>1 DEF IsReply
  <1>3. IsToken(d[r], i)
    BY <1>2 DEF IsReply, Answers, IsToken
  <1>4. st = "mapping"
    BY <1>2, <1>3 DEF Tokens, Awaited, IsReply
  <1>5. ~Has(u, i) /\ ~Has(c, i)
    BY <1>3 DEF Tokens, Has
  <1>6. \A k \in 1..Len(t) : IsToken(t[k], i) => t[k].type = "reply"
    <2> SUFFICES ASSUME NEW k \in 1..Len(t), IsToken(t[k], i)
                 PROVE  t[k].type = "reply"
      OBVIOUS
    <2>1. k + 1 = r
      BY <1>1, <1>3 DEF Tokens, AtMostOne
    <2> QED
      BY <1>1, <1>2, <2>1 DEF IsReply
  <1>7. Awaited(u, i, st, TRUE) /\ Awaited(c, i, st, TRUE) /\ Awaited(t, i, st, TRUE)
    BY <1>4, <1>5, <1>6 DEF Awaited, Has
  <1>8. Tokens(i, u, c, t, st, att)
    BY TokensReceived
  <1> QED
    BY <1>2, <1>4, <1>7, <1>8 DEF Tokens

(* What the master knows.                                                  *)
LEMMA KnowsShrinks ==
    ASSUME NEW d \in Seq(DownPacket), NEW p, NEW t, IsTaken(p, d, t), NEW i,
           NEW att, NEW slave, Knows(i, d, att, slave)
    PROVE  /\ ~Ends(p, i) => Knows(i, t, att, slave)
           /\ Knows(i, t, FALSE, slave)
           /\ (\E r \in 1..Len(d) : IsReply(d[r], i)) => slave
  <1>1. /\ Len(d) \in Nat \ {0} /\ d[1] = p /\ Len(t) = Len(d) - 1
        /\ \A k \in 1..Len(t) : t[k] = d[k + 1] /\ k + 1 \in 1..Len(d)
        /\ \A k \in 2..Len(d) : t[k - 1] = d[k] /\ k - 1 \in 1..Len(t)
    BY Shrinks DEF IsTaken
  <1>2. (\A k \in 1..Len(d) : ~(Answers(d[k], i) /\ d[k].type = "reply")) =>
           \A k \in 1..Len(t) : ~(Answers(t[k], i) /\ t[k].type = "reply")
    BY <1>1
  <1>3. ~Ends(p, i) /\ (\E k \in 1..Len(d) : Ends(d[k], i)) => \E k \in 1..Len(t) : Ends(t[k], i)
    <2> SUFFICES ASSUME ~Ends(p, i), NEW k \in 1..Len(d), Ends(d[k], i)
                 PROVE  \E l \in 1..Len(t) : Ends(t[l], i)
      OBVIOUS
    <2>1. k \in 2..Len(d)
      BY <1>1
    <2> QED
      BY <1>1, <2>1
  <1> QED
    BY <1>2, <1>3 DEF Knows, IsReply

(* What the invariant says of an instance on a node that is connected.     *)
Agrees(i, d, st, att, qu, sv, co, mt, item) ==
    /\ st = "unmapped" => ~att
    /\ QueueFits(st, att, qu, sv, co, mt, version)
    /\ Tokens(i, up[NodeOf[i]], cmdQueue, d, st, att)
    /\ master = "gone" \/ Knows(i, d, att, i \in slaves)
    /\ Stage(i, d, st, att, qu, sv, mt, item, version, i \in slaves /\ master # "gone")

(* What the invariant says of a live instance, before a packet ...         *)
LEMMA AgreesBefore ==
    ASSUME NEW i \in Instances, InstanceInv(i), Live(i)
    PROVE  Agrees(i, DownTo(i), state[i], i \in attached, queue[i], slaveVersion[i],
                  content[i], mapTo[i], cache[NodeOf[i]])
  BY DEF Agrees, InstanceInv, RestsInv, FitsInv, TokenInv, KnownInv, StageInv

(* ... and what it takes to say it again afterwards.                       *)
LEMMA AgreesAfter ==
    ASSUME NEW i \in Instances, Live(i), UNCHANGED <<version, up, cmdQueue, master, slaves, alive>>,
           Agrees(i, DownTo(i)', state'[i], i \in attached', queue'[i], slaveVersion'[i],
                  content'[i], mapTo'[i], cache'[NodeOf[i]])
    PROVE  InstanceInv(i)'
  <1>1. Live(i)' = Live(i)
    BY DEF Live
  <1> QED
    BY <1>1 DEF Agrees, InstanceInv, RestsInv, FitsInv, TokenInv, KnownInv, StageInv

(* A packet is received, and the cache keeps what a reply may still need.  *)
Receives(i, d, p, t, item, new) ==
    /\ IsTaken(p, d, t)
    /\ IsData(p) => p.version =< version
    /\ KeepsOld(p, item, new)
    /\ Provides(i, d, item, new)

(* A packet that is neither reply nor detach leaves the stage as it is.    *)
LEMMA StageTaken ==
    ASSUME version \in Int, NEW d \in Seq(DownPacket), NEW p, NEW t, NEW i, NEW item, NEW new,
           Receives(i, d, p, t, item, new), NEW st, NEW att \in BOOLEAN,
           NEW qu \in Seq(QueuedVersion), NEW sv, NEW mt \in Int, NEW member,
           Stage(i, d, st, att, qu, sv, mt, item, version, member),
           ~IsReply(p, i), ~Ends(p, i), NEW newSt, NEW newAtt \in BOOLEAN, NEW newQu, NEW newSv,
           NEW newMt, Takes(i, p, att, qu, newAtt, newQu), newAtt => ~Answers(p, i),
           Follows(i, d, st, att, qu, sv, mt, newSt, newAtt, newQu, newSv, newMt)
    PROVE  Stage(i, t, newSt, newAtt, newQu, newSv, newMt, new, version, member)
  <1>1. d # <<>> /\ t = Tail(d) /\ d[1] = p
    BY RestOfStream DEF Receives, IsTaken
  <1>2. /\ IsData(d[1]) => d[1].version =< version
        /\ KeepsOld(d[1], item, new)
        /\ Provides(i, d, item, new)
    BY <1>1 DEF Receives
  <1>3. /\ ~IsReply(d[1], i) /\ ~Ends(d[1], i) /\ Takes(i, d[1], att, qu, newAtt, newQu)
        /\ newAtt => ~Answers(d[1], i)
    BY <1>1
  <1> DEFINE head == version
  <1>4. head \in Int /\ Stage(i, d, st, att, qu, sv, mt, item, head, member)
        /\ (IsData(d[1]) => d[1].version =< head)
    BY <1>2
  <1> HIDE DEF head
  <1>5. Stage(i, t, newSt, newAtt, newQu, newSv, newMt, new, head, member)
    BY ZenonT(60), <1>1, <1>2, <1>3, <1>4, StageShrinks
  <1> QED
    BY <1>5 DEF head

(* A packet that changes nothing for the instance.                         *)
LEMMA ReceivesOther ==
    ASSUME version \in Int, NEW d \in Seq(DownPacket), NEW p, NEW t, NEW i, NEW item, NEW new,
           Receives(i, d, p, t, item, new), NEW st, NEW att \in BOOLEAN,
           NEW qu \in Seq(QueuedVersion), NEW sv, NEW co, NEW mt \in Int,
           Agrees(i, d, st, att, qu, sv, co, mt, item),
           ~IsToken(p, i), ~Begins(p, i), ~(att /\ Carries(p, i))
    PROVE  Agrees(i, t, st, att, qu, sv, co, mt, new)
  <1> DEFINE u == up[NodeOf[i]]
             c == cmdQueue
             slave == i \in slaves
             member == slave /\ master # "gone"
  <1>1. /\ Tokens(i, u, c, d, st, att) /\ (master = "gone" \/ Knows(i, d, att, slave))
        /\ Stage(i, d, st, att, qu, sv, mt, item, version, member)
    BY DEF Agrees
  <1>2. ~Ends(p, i) /\ ~Answers(p, i) /\ ~IsReply(p, i)
    BY DEF IsToken, Ends, Answers, IsReply
  <1>4. IsTaken(p, d, t) /\ d[1] = p
    BY RestOfStream DEF Receives, IsTaken
  <1>3. Takes(i, p, att, qu, att, qu) /\ Follows(i, d, st, att, qu, sv, mt, st, att, qu, sv, mt)
    BY <1>4 DEF Takes, Received, Follows
  <1> HIDE DEF u, c, slave, member
  <1>5. Tokens(i, u, c, t, st, att)
    BY <1>1, <1>4, TokensReceived
  <1>6. master = "gone" \/ Knows(i, t, att, slave)
    BY <1>1, <1>2, <1>4, KnowsShrinks
  <1>7. Stage(i, t, st, att, qu, sv, mt, new, version, member)
    BY <1>1, <1>2, <1>3, StageTaken
  <1> QED
    BY <1>5, <1>6, <1>7 DEF Agrees, u, c, slave, member

(* Data for an attached instance.                                          *)
Attached(att) == att
IsReceived(z, qu, p, i) == z = Received(qu, p, i)

(* Data that an attached instance queues preserves the invariant.          *)
LEMMA ReceivesData ==
    ASSUME version \in Int, NEW d \in Seq(DownPacket), NEW p \in DownPacket, NEW t, NEW i,
           NEW item, NEW new,
           Receives(i, d, p, t, item, new), NEW st, NEW att \in BOOLEAN,
           NEW qu \in Seq(QueuedVersion), NEW sv \in Int, NEW co, NEW mt \in Int,
           Agrees(i, d, st, att, qu, sv, co, mt, item), Attached(att), Carries(p, i),
           NEW z, IsReceived(z, qu, p, i)
    PROVE  Agrees(i, t, st, att, z, sv, co, mt, new)
  <1> DEFINE u == up[NodeOf[i]]
             c == cmdQueue
             slave == i \in slaves
             member == slave /\ master # "gone"
             x == Data(p)
             head == version
  <1> USE DEF Attached
  <1>1. /\ Tokens(i, u, c, d, st, att) /\ (master = "gone" \/ Knows(i, d, att, slave))
        /\ Stage(i, d, st, att, qu, sv, mt, item, head, member)
        /\ QueueFits(st, att, qu, sv, co, mt, head) /\ st # "unmapped"
    BY DEF Agrees
  <1>2. ~Ends(p, i) /\ ~Answers(p, i) /\ ~IsReply(p, i) /\ ~Begins(p, i) /\ IsData(p)
    BY DEF Carries, Ends, Answers, IsReply, Begins, IsData
  <1>3. Takes(i, p, att, qu, att, z)
    BY <1>2 DEF Takes, IsReceived
  <1>4. /\ IsTaken(p, d, t) /\ d # <<>> /\ d[1] = p
    BY RestOfStream DEF Receives, IsTaken
  <1>b. Follows(i, d, st, att, qu, sv, mt, st, att, z, sv, mt)
    BY <1>4 DEF Follows, IsReceived
  <1>5. x \in QueuedVersion /\ x.version =< head
    <2>1. p.version \in Version
      BY <1>2, DownFields
    <2>2. p.version =< version
      BY <1>2 DEF Receives
    <2> QED
      BY <2>1, <2>2 DEF Data, QueuedVersion
  <1>6. Awaited(d, i, st, att)
    BY <1>1 DEF Tokens
  <1>a. head \in Int
    OBVIOUS
  <1> HIDE DEF u, c, slave, member, x, head
  <1>7. IsNeeded(qu, x, st, sv, mt, z)
    <2>1. /\ Carries(d[1], i) /\ z = Received(qu, d[1], i) /\ x = Data(d[1])
      BY <1>4 DEF x, IsReceived
    <2> QED
      BY <1>a, <1>1, <1>4, <1>6, <2>1, NextIsReceived
  <1>8. QueueFits(st, att, z, sv, co, mt, head)
    BY <1>a, <1>1, <1>5, <1>7, QueueTakes DEF IsNeeded
  <1>9. Tokens(i, u, c, t, st, att)
    BY <1>1, <1>4, TokensReceived
  <1>10. master = "gone" \/ Knows(i, t, att, slave)
    BY <1>1, <1>2, <1>4, KnowsShrinks
  <1>11. Stage(i, t, st, att, z, sv, mt, new, head, member)
    BY <1>1, <1>2, <1>3, <1>b, StageTaken DEF head
  <1> QED
    BY <1>1, <1>8, <1>9, <1>10, <1>11 DEF Agrees, u, c, slave, member, head

(* Nothing is queued.                                                      *)
Blank(z) == z = <<>>

(* The answer begins: the instance is attached.                            *)
LEMMA ReceivesSuccess ==
    ASSUME version \in Int, NEW d \in Seq(DownPacket), NEW p, NEW t, NEW i, NEW item, NEW new,
           Receives(i, d, p, t, item, new), NEW st, NEW att \in BOOLEAN,
           NEW qu \in Seq(QueuedVersion), NEW sv, NEW co, NEW mt \in Int,
           Agrees(i, d, st, att, qu, sv, co, mt, item), Begins(p, i), NEW newSv,
           NEW newAtt \in BOOLEAN, Attached(newAtt), NEW z, Blank(z)
    PROVE  Agrees(i, t, st, newAtt, z, newSv, co, mt, new)
  <1> DEFINE u == up[NodeOf[i]]
             c == cmdQueue
             slave == i \in slaves
             member == slave /\ master # "gone"
  <1>1. /\ Tokens(i, u, c, d, st, att) /\ (master = "gone" \/ Knows(i, d, att, slave))
        /\ Stage(i, d, st, att, qu, sv, mt, item, version, member)
    BY DEF Agrees
  <1>2. ~Ends(p, i) /\ ~Answers(p, i) /\ ~IsReply(p, i)
    BY DEF Begins, Ends, Answers, IsReply
  <1>3. IsTaken(p, d, t)
    BY DEF Receives
  <1> HIDE DEF u, c, slave, member
  <1>4. /\ st = "mapping" /\ Tokens(i, u, c, t, st, TRUE)
        /\ \E r \in 1..Len(d) : IsReply(d[r], i)
    BY <1>1, <1>3, TokensBegin
  <1>5. master = "gone" \/ Knows(i, t, TRUE, slave)
    <2>1. master = "gone" \/ slave
      BY <1>1, <1>4 DEF Knows, IsReply
    <2> QED
      BY <2>1 DEF Knows
  <1>6. QueueFits(st, TRUE, <<>>, newSv, co, mt, version)
    <2>1. 1..Len(<<>>) = {}
      OBVIOUS
    <2> QED
      BY <1>4, <2>1 DEF QueueFits, InRow
  <1> DEFINE none == <<>>
  <1>7. Takes(i, p, att, qu, TRUE, none)
    BY DEF Takes, Begins
  <1>8. Follows(i, d, st, att, qu, sv, mt, st, TRUE, none, newSv, mt)
    BY <1>4 DEF Follows, IsReply
  <1> HIDE DEF none
  <1>9. Stage(i, t, st, TRUE, none, newSv, mt, new, version, member)
    BY <1>1, <1>2, <1>7, <1>8, StageTaken
  <1> QED
    <2>1. Agrees(i, t, st, TRUE, <<>>, newSv, co, mt, new)
      BY <1>4, <1>5, <1>6, <1>9 DEF Agrees, u, c, slave, member, none
    <2>2. newAtt = TRUE /\ z = <<>>
      BY DEF Blank, Attached
    <2> QED
      BY <2>1, <2>2

(* The master withdraws the object: its slaves have had their answer.      *)
LEMMA UnmapFollows ==
    ASSUME NEW d, NEW i, 1 \in 1..Len(d), d[1].type = "unmap",
           NEW st, NEW att, att, NEW qu, NEW sv, NEW mt, NEW item, NEW head, NEW member,
           Stage(i, d, st, att, qu, sv, mt, item, head, member), Awaited(d, i, st, att)
    PROVE  st # "mapping"
  <1>1. ASSUME NEW r \in 1..Len(d), Answers(d[r], i)
        PROVE  FALSE
    <2>1. IsToken(d[r], i) /\ d[r].type = "reply"
      BY <1>1 DEF Answers, IsToken, Awaited
    <2>2. Answered(i, d, r, att, qu, item, head, member)
      BY <1>1, <2>1 DEF Stage
    <2>3. PICK start \in 0..r - 1 : Batch(i, d, start, r, att)
      BY <2>2 DEF Answered
    <2>4. start = 0
      BY <2>3 DEF Batch
    <2>5. r # 1
      BY <2>1
    <2>6. 1 \in start + 1..r - 1
      BY <2>4, <2>5
    <2> QED
      BY <2>3, <2>6 DEF Batch
  <1>2. Following(i, d, st, qu, sv, mt, head, member)
    BY <1>1 DEF Stage
  <1> QED
    BY <1>2 DEF Following

(* An unmap packet detaches the instance and leaves its queue.             *)
LEMMA ReceivesUnmap ==
    ASSUME version \in Int, NEW d \in Seq(DownPacket), NEW p, NEW t, NEW i, NEW item, NEW new,
           Receives(i, d, p, t, item, new), NEW st, NEW att \in BOOLEAN,
           NEW qu \in Seq(QueuedVersion), NEW sv, NEW co, NEW mt \in Int,
           Agrees(i, d, st, att, qu, sv, co, mt, item), p.type = "unmap",
           NEW newAtt \in BOOLEAN, ~newAtt
    PROVE  Agrees(i, t, st, newAtt, qu, sv, co, mt, new)
  <1> DEFINE u == up[NodeOf[i]]
             c == cmdQueue
             slave == i \in slaves
             member == slave /\ master # "gone"
  <1>1. /\ Tokens(i, u, c, d, st, att) /\ (master = "gone" \/ Knows(i, d, att, slave))
        /\ Stage(i, d, st, att, qu, sv, mt, item, version, member)
        /\ QueueFits(st, att, qu, sv, co, mt, version) /\ (st = "unmapped" => ~att)
    BY DEF Agrees
  <1>2. ~Ends(p, i) /\ ~Answers(p, i) /\ ~IsReply(p, i)
    BY DEF Ends, Answers, IsReply
  <1>3. IsTaken(p, d, t) /\ d[1] = p /\ 1 \in 1..Len(d)
    BY RestOfStream DEF Receives, IsTaken
  <1>4. att => st # "mapping"
    BY <1>1, <1>3, UnmapFollows DEF Tokens
  <1>5. QueueFits(st, FALSE, qu, sv, co, mt, version)
    BY <1>1, <1>4 DEF QueueFits
  <1>6. /\ Takes(i, p, att, qu, FALSE, qu)
        /\ Follows(i, d, st, att, qu, sv, mt, st, FALSE, qu, sv, mt)
    BY DEF Takes, Follows, Begins
  <1> HIDE DEF u, c, slave, member
  <1>7. Tokens(i, u, c, t, st, FALSE)
    BY <1>1, <1>3, TokensReceived
  <1>8. master = "gone" \/ Knows(i, t, FALSE, slave)
    BY <1>1, <1>3, KnowsShrinks
  <1>9. Stage(i, t, st, FALSE, qu, sv, mt, new, version, member)
    BY ZenonT(60), <1>1, <1>2, <1>6, StageTaken
  <1>10. Agrees(i, t, st, FALSE, qu, sv, co, mt, new) /\ newAtt = FALSE
    BY <1>5, <1>7, <1>8, <1>9 DEF Agrees, u, c, slave, member
  <1> QED
    BY <1>10

(* The reply: the cache adds what the map data does not bring.             *)
LEMMA ReceivesReply ==
    ASSUME version \in Int, NEW d \in Seq(DownPacket), NEW p, NEW t, NEW i,
           NEW item \in CacheItem, Gapless(item), NEW new,
           IsTaken(p, d, t), NEW st, NEW att \in BOOLEAN,
           NEW qu \in Seq(QueuedVersion), NEW sv, NEW co, NEW mt,
           Agrees(i, d, st, att, qu, sv, co, mt, item), IsReply(p, i),
           NEW z, Completed(z, qu, item, p)
    PROVE  Agrees(i, t, "replied", att, z, sv, co, p.version, new)
  <1> DEFINE u == up[NodeOf[i]]
             c == cmdQueue
             slave == i \in slaves
             member == slave /\ master # "gone"
             head == version
  <1>1. /\ Tokens(i, u, c, d, st, att) /\ (master = "gone" \/ Knows(i, d, att, slave))
        /\ Stage(i, d, st, att, qu, sv, mt, item, head, member)
        /\ QueueFits(st, att, qu, sv, co, mt, head) /\ (st = "unmapped" => ~att)
        /\ head \in Int
    BY DEF Agrees
  <1>2. ~Ends(p, i) /\ IsToken(p, i) /\ p.type = "reply"
    BY DEF Ends, Answers, IsReply, IsToken
  <1> HIDE DEF u, c, slave, member, head
  <1>4. st = "mapping" /\ \A newSt, newAtt : Tokens(i, u, c, t, newSt, newAtt)
    BY <1>1, <1>2, TokensReceived
  <1>5. Tokens(i, u, c, t, "replied", att)
    BY <1>4
  <1>6. master = "gone" \/ Knows(i, t, att, slave)
    BY <1>1, <1>2, KnowsShrinks
  <1>7. AtMostOne(d, i) /\ InRow(qu) /\ NoDelta(qu)
    BY <1>1, <1>4 DEF Tokens, QueueFits, NoDelta
  <1>a. /\ InRow(z) /\ InstancesSince(z, p.version, head)
        /\ Following(i, t, "replied", z, sv, p.version, head, member)
    BY <1>1, <1>7, QueueReplied
  <1>8. Stage(i, t, "replied", att, z, sv, p.version, new, head, member)
    BY <1>7, <1>a, StageReplied
  <1>9. QueueFits("replied", att, z, sv, co, p.version, head)
    BY <1>a DEF QueueFits, InstancesSince
  <1> QED
    BY <1>5, <1>6, <1>8, <1>9 DEF Agrees, u, c, slave, member, head

(* A negative reply: the instance was not attached.                        *)
LEMMA ReceivesFailed ==
    ASSUME NEW d \in Seq(DownPacket), NEW p, NEW t, NEW i, NEW item, NEW new,
           IsTaken(p, d, t), NEW st, NEW att \in BOOLEAN,
           NEW qu \in Seq(QueuedVersion), NEW sv, NEW co, NEW mt,
           Agrees(i, d, st, att, qu, sv, co, mt, item),
           Answers(p, i), p.type = "failed"
    PROVE  ~p.useCache /\ Agrees(i, t, "replied", att, qu, sv, co, p.version, new)
  <1> DEFINE u == up[NodeOf[i]]
             c == cmdQueue
             slave == i \in slaves
             member == slave /\ master # "gone"
  <1>1. /\ Tokens(i, u, c, d, st, att) /\ (master = "gone" \/ Knows(i, d, att, slave))
        /\ QueueFits(st, att, qu, sv, co, mt, version)
    BY DEF Agrees
  <1>2. ~Ends(p, i) /\ IsToken(p, i)
    BY DEF Ends, Answers, IsToken
  <1> HIDE DEF u, c, slave, member
  <1>3. /\ st = "mapping" /\ ~att /\ ~p.useCache
        /\ \A newSt, newAtt : Tokens(i, u, c, t, newSt, newAtt)
        /\ \A k \in 1..Len(t) : ~IsToken(t[k], i)
    <2>1. d \in Seq(DownPacket) /\ IsTaken(p, d, t) /\ p.type = "failed"
      OBVIOUS
    <2> QED
      BY ONLY ZenonT(60), <1>1, <1>2, <2>1, TokensReceived
  <1>4. Tokens(i, u, c, t, "replied", att)
    BY <1>3
  <1>5. master = "gone" \/ Knows(i, t, att, slave)
    BY <1>1, <1>2, KnowsShrinks
  <1>6. qu = <<>> /\ 1..Len(<<>>) = {}
    BY <1>1, <1>3 DEF QueueFits
  <1>7. QueueFits("replied", att, qu, sv, co, p.version, version)
    BY <1>6 DEF QueueFits, InRow
  <1>8. \A k \in 1..Len(t) : ~IsReply(t[k], i)
    BY <1>3 DEF IsReply, Answers, IsToken
  <1>9. Stage(i, t, "replied", att, qu, sv, p.version, new, version, member)
    BY <1>3, <1>8 DEF Stage, IsReply
  <1> QED
    BY <1>3, <1>4, <1>5, <1>7, <1>9 DEF Agrees, u, c, slave, member

(* The end: the instance is forgotten.                                     *)
LEMMA ReceivesDetach ==
    ASSUME NEW d \in Seq(DownPacket), NEW p, NEW t, NEW i, NEW item, NEW new,
           IsTaken(p, d, t), NEW st, NEW att \in BOOLEAN,
           NEW qu \in Seq(QueuedVersion), NEW sv, NEW co, NEW mt,
           Agrees(i, d, st, att, qu, sv, co, mt, item),
           Ends(p, i), NEW newSv, NEW newCo, NEW newMt,
           NEW newAtt \in BOOLEAN, ~newAtt, NEW z, Blank(z)
    PROVE  Agrees(i, t, "unmapped", newAtt, z, newSv, newCo, newMt, new)
  <1> DEFINE u == up[NodeOf[i]]
             c == cmdQueue
             slave == i \in slaves
             member == slave /\ master # "gone"
  <1>1. /\ Tokens(i, u, c, d, st, att) /\ (master = "gone" \/ Knows(i, d, att, slave))
    BY DEF Agrees
  <1>2. IsToken(p, i)
    BY DEF Ends, IsToken
  <1> HIDE DEF u, c, slave, member
  <1>3. /\ \A s, a : Tokens(i, u, c, t, s, a)
        /\ \A k \in 1..Len(t) : ~IsToken(t[k], i)
    BY <1>1, <1>2, TokensReceived
  <1>4. Tokens(i, u, c, t, "unmapped", FALSE)
    BY <1>3
  <1>5. master = "gone" \/ Knows(i, t, FALSE, slave)
    BY <1>1, KnowsShrinks
  <1>6. 1..Len(<<>>) = {}
    OBVIOUS
  <1>7. QueueFits("unmapped", FALSE, <<>>, newSv, newCo, newMt, version)
    BY <1>6 DEF QueueFits, InRow
  <1>8. \A k \in 1..Len(t) : ~IsReply(t[k], i)
    BY <1>3 DEF IsReply, Answers, IsToken
  <1>9. Stage(i, t, "unmapped", FALSE, <<>>, newSv, newMt, new, version, member)
    BY <1>8 DEF Stage, IsReply
  <1>10. Agrees(i, t, "unmapped", FALSE, <<>>, newSv, newCo, newMt, new)
    BY <1>4, <1>5, <1>7, <1>9 DEF Agrees, u, c, slave, member
  <1>11. newAtt = FALSE /\ z = <<>>
    BY DEF Blank
  <1> QED
    BY <1>10, <1>11

(* add keeps no version that is newer than the stream added and those      *)
(* before.                                                                 *)
LEMMA AddKeepsOld ==
    ASSUME NEW item \in CacheItem, NEW p, p.version \in Version, IsData(p),
           NEW last \in BOOLEAN
    PROVE  KeepsOld(p, item, Add(item, p.version, last))
  <1> DEFINE s == item.versions
             x == Stream(p.version, last)
             t == Add(item, p.version, last).versions
  <1>1. s \in Seq(CacheStream) /\ Len(s) \in Nat /\ (Cached(item) => Len(s) \in 1..Len(s))
    BY ItemFields
  <1>2. x \in CacheStream /\ x.version = p.version
    BY DEF Stream, CacheStream
  <1>3. \/ t = Append(s, x)
        \/ Cached(item) /\ t = [s EXCEPT ![Len(s)] = x]
        \/ t = <<x>>
        \/ t = s
    BY AddCases
  <1> HIDE DEF s, x, t
  <1>4. \A k \in 1..Len(t) : t[k] = x \/ (k \in 1..Len(s) /\ t[k] = s[k])
    <2>1. CASE t = Append(s, x)
      BY <1>1, <1>2, <2>1, AppendProperties
    <2>2. CASE Cached(item) /\ t = [s EXCEPT ![Len(s)] = x]
      <3>1. Len(t) = Len(s) /\ \A k \in 1..Len(s) : t[k] = IF k = Len(s) THEN x ELSE s[k]
        BY <1>1, <1>2, <2>2, ExceptSeq
      <3> QED
        BY <3>1
    <2>3. CASE t = <<x>>
      BY <2>3
    <2>4. CASE t = s
      BY <2>4
    <2> QED
      BY <1>3, <2>1, <2>2, <2>3, <2>4
  <1>5. ASSUME NEW v \in Version, \A k \in 1..Len(s) : s[k].version =< v, p.version =< v
        PROVE  \A k \in 1..Len(t) : t[k].version =< v
    BY <1>2, <1>4, <1>5
  <1> QED
    BY <1>5 DEF KeepsOld, NotAfter, s, t

(* What a node receives makes its cache no newer than that.                *)
LEMMA ReceiveKeepsOld ==
    ASSUME NetTypeOK, NEW n \in Nodes, NEW link \in Links, Receive(n, link)
    PROVE  KeepsOld(Head(down[n][link]), cache[n], cache'[n])
  <1> DEFINE packet == Head(down[n][link])
             old == cache[n]
             new == cache'[n]
  <1>1. /\ packet \in DownPacket
        /\ cache \in [Nodes -> CacheItem] /\ cache[n] \in CacheItem
    BY FirstAndRest DEF Receive, NetTypeOK
  <1>2. CASE new.versions = old.versions
    BY <1>2 DEF KeepsOld, NotAfter
  <1>3. CASE new = NoItem
    <2>1. Len(new.versions) = 0
      BY <1>3 DEF NoItem
    <2>2. 1..0 = {}
      OBVIOUS
    <2> QED
      BY <2>1, <2>2 DEF KeepsOld, NotAfter
  <1>4. CASE \E last \in BOOLEAN : new = Add(old, packet.version, last) /\ IsData(packet)
    <2>1. PICK last \in BOOLEAN : new = Add(old, packet.version, last) /\ IsData(packet)
      BY <1>4
    <2> HIDE DEF packet
    <2>2. packet.version \in Version
      BY <1>1, <2>1, DownFields
    <2> QED
      BY <1>1, <2>1, <2>2, AddKeepsOld DEF packet
  <1>12. \/ UNCHANGED cache
         \/ /\ packet.type \in {"reply", "failed"}
            /\ CmdMapObjectReply(n, packet.insts \cap On(n), packet)
         \/ /\ packet.type = "map"
            /\ CmdInstance(n, packet.insts \cap On(n), packet.version, packet.last)
         \/ /\ packet.type = "commit" /\ ~IsDelta
            /\ CmdInstance(n, packet.insts \cap On(n), packet.version, TRUE)
         \/ packet.type = "unmap" /\ CmdUnmapObject(n, packet.insts \cap On(n))
    BY DEF Receive
  <1>13. CASE UNCHANGED cache
    BY <1>2, <1>13
  <1>14. CASE /\ packet.type \in {"reply", "failed"}
              /\ CmdMapObjectReply(n, packet.insts \cap On(n), packet)
    <2>1. new \in {old, Release(Pin(old), 2), Release(old, 1)}
      BY <1>1, <1>14 DEF CmdMapObjectReply
    <2>2. /\ Release(Pin(old), 2).versions = old.versions
          /\ Release(old, 1).versions = old.versions
      BY <1>1 DEF Release, Pin, CacheItem
    <2> QED
      BY <1>2, <2>1, <2>2
  <1>15. CASE /\ packet.type = "map"
              /\ CmdInstance(n, packet.insts \cap On(n), packet.version, packet.last)
    <2>1. packet.last \in BOOLEAN /\ IsData(packet)
      BY <1>1, <1>15 DEF DownPacket, PlainPacket, DataPacket, ReplyPacket, IsData
    <2>2. new = Add(old, packet.version, packet.last) \/ new = old
      BY <1>1, <1>15 DEF CmdInstance
    <2> QED
      BY <1>2, <1>4, <2>1, <2>2
  <1>16. CASE /\ packet.type = "commit" /\ ~IsDelta
              /\ CmdInstance(n, packet.insts \cap On(n), packet.version, TRUE)
    <2>1. IsData(packet)
      BY <1>16 DEF IsData
    <2>2. new = Add(old, packet.version, TRUE) \/ new = old
      BY <1>1, <1>16 DEF CmdInstance
    <2> QED
      BY <1>2, <1>4, <2>1, <2>2
  <1>17. CASE packet.type = "unmap" /\ CmdUnmapObject(n, packet.insts \cap On(n))
    <2>1. new = Erase(old)
      BY <1>1, <1>17 DEF CmdUnmapObject
    <2>2. new = old \/ new = NoItem
      BY <2>1 DEF Erase
    <2> QED
      BY <1>2, <1>3, <2>2
  <1> QED
    BY <1>12, <1>13, <1>14, <1>15, <1>16, <1>17

(* A reply that takes versions from the cache pins them.                   *)
LEMMA ReceiveProvides ==
    ASSUME NetTypeOK, PinInv, AnnounceInv, NEW i \in Instances, Live(i),
           NEW link \in Links, Receive(NodeOf[i], link)
    PROVE  Provides(i, DownTo(i), cache[NodeOf[i]], cache'[NodeOf[i]])
  <1> DEFINE n == NodeOf[i]
  <1>1. n \in alive
    BY DEF Live
  <1>2. cache[n].access # 0 => KeepsReady(cache[n], cache'[n])
    BY <1>1, ReceiveKeepsCache DEF AnnounceInv, KeepsReady
  <1>3. cache[n].access = 0 =>
           \A k \in 1..Len(DownTo(i)) : IsReply(DownTo(i)[k], i) => ~DownTo(i)[k].useCache
    BY SMTT(40), UnusedInReplies
  <1> QED
    BY <1>2, <1>3 DEF Provides

(* What a packet does to an instance on the node that receives it.         *)
Same(i) ==
    /\ state'[i] = state[i] /\ queue'[i] = queue[i] /\ mapTo'[i] = mapTo[i]
    /\ slaveVersion'[i] = slaveVersion[i] /\ content'[i] = content[i]

Attends(i) == (i \in attached') = (i \in attached)

(* What receiving a packet does to one instance.                           *)
LEMMA ReceiveEffect ==
    ASSUME NEW i \in Instances, NEW link \in Links, NEW p, p \in DownPacket,
           Receive(NodeOf[i], link), p = Head(down[NodeOf[i]][link])
    PROVE  /\ i \notin p.insts => Same(i) /\ Attends(i)
           /\ i \in p.insts /\ p.type = "success" =>
                 /\ i \in attached' /\ queue'[i] = <<>>
                 /\ state'[i] = state[i] /\ mapTo'[i] = mapTo[i] /\ content'[i] = content[i]
           /\ i \in p.insts /\ p.type \in {"reply", "failed"} =>
                 /\ state'[i] = "replied" /\ mapTo'[i] = p.version
                 /\ Completed(queue'[i], queue[i], cache[NodeOf[i]], p)
                 /\ slaveVersion'[i] = slaveVersion[i] /\ content'[i] = content[i]
                 /\ Attends(i)
           /\ i \in p.insts /\ p.type \in {"map", "empty", "commit"} =>
                 /\ state'[i] = state[i] /\ mapTo'[i] = mapTo[i]
                 /\ slaveVersion'[i] = slaveVersion[i] /\ content'[i] = content[i]
                 /\ Attends(i)
                 /\ queue'[i] = IF i \in attached THEN Received(queue[i], p, i) ELSE queue[i]
           /\ i \in p.insts /\ p.type = "detach" =>
                 i \notin attached' /\ state'[i] = "unmapped" /\ queue'[i] = <<>>
           /\ i \in p.insts /\ p.type = "unmap" => Same(i) /\ i \notin attached'
  <1> DEFINE n == NodeOf[i]
             mine == p.insts \cap On(n)
  <1>1. i \in mine <=> i \in p.insts
    BY SMTT(40) DEF On
  <1>2. \/ p.type = "success" /\ CmdMapObjectSuccess(mine)
        \/ p.type \in {"reply", "failed"} /\ CmdMapObjectReply(n, mine, p)
        \/ p.type = "map" /\ CmdInstance(n, mine, p.version, p.last)
        \/ p.type = "empty" /\ CmdData(mine, p.version, FALSE)
        \/ p.type = "commit" /\ IsDelta /\ CmdData(mine, p.version, TRUE)
        \/ p.type = "commit" /\ ~IsDelta /\ CmdInstance(n, mine, p.version, TRUE)
        \/ p.type = "detach" /\ CmdDetachObject(mine)
        \/ p.type = "unmap" /\ CmdUnmapObject(n, mine)
    BY DEF Receive
  <1>3. /\ Carries(p, i) => Received(queue[i], p, i) = Append(queue[i], Data(p))
        /\ ~Carries(p, i) => Received(queue[i], p, i) = queue[i]
    BY DEF Received
  <1> HIDE DEF mine
  <1>4. CASE p.type = "success" /\ CmdMapObjectSuccess(mine)
    BY SMTT(40), <1>1, <1>4 DEF CmdMapObjectSuccess, Same, Attends
  <1>5. CASE p.type \in {"reply", "failed"} /\ CmdMapObjectReply(n, mine, p)
    BY SMTT(40), <1>1, <1>5 DEF CmdMapObjectReply, Same, Attends, Completed
  <1>6. ASSUME NEW delta, CmdData(mine, p.version, delta), p.type \in {"map", "empty", "commit"},
               i \in p.insts => Carries(p, i) /\ Data(p).delta = delta
        PROVE  /\ state'[i] = state[i] /\ mapTo'[i] = mapTo[i]
               /\ slaveVersion'[i] = slaveVersion[i] /\ content'[i] = content[i]
               /\ Attends(i)
               /\ i \notin p.insts => queue'[i] = queue[i]
               /\ i \in p.insts =>
                     queue'[i] = IF i \in attached THEN Received(queue[i], p, i) ELSE queue[i]
    <2>1. /\ state'[i] = state[i] /\ mapTo'[i] = mapTo[i]
          /\ slaveVersion'[i] = slaveVersion[i] /\ content'[i] = content[i]
          /\ Attends(i)
      BY <1>6 DEF CmdData, Attends
    <2>2. queue'[i] = IF i \in p.insts /\ i \in attached
                      THEN Append(queue[i], [version |-> p.version, delta |-> delta])
                      ELSE queue[i]
      BY <1>1, <1>6 DEF CmdData
    <2>3. i \in p.insts => Data(p) = [version |-> p.version, delta |-> delta]
      BY SMTT(40), <1>6 DEF Data
    <2> QED
      BY <1>3, <1>6, <2>1, <2>2, <2>3
  <1>7. CASE p.type = "map" /\ CmdInstance(n, mine, p.version, p.last)
    <2>1. CASE p.last
      <3>1. CmdData(mine, p.version, FALSE)
        BY <1>7, <2>1 DEF CmdInstance
      <3>2. i \in p.insts => Carries(p, i) /\ Data(p).delta = FALSE
        BY <1>7, <2>1 DEF Carries, Data
      <3> QED
        BY <1>6, <1>7, <3>1, <3>2 DEF Same
    <2>2. CASE ~p.last
      <3>1. UNCHANGED instanceVars /\ ~Carries(p, i)
        BY SMTT(40), <1>7, <2>2 DEF CmdInstance, Carries
      <3> QED
        BY <1>3, <1>7, <3>1 DEF instanceVars, Same, Attends
    <2> QED
      BY SMTT(40), <2>1, <2>2
  <1>8. CASE p.type = "empty" /\ CmdData(mine, p.version, FALSE)
    <2>1. i \in p.insts => Carries(p, i) /\ Data(p).delta = FALSE
      BY <1>8 DEF Carries, Data
    <2> QED
      BY <1>6, <1>8, <2>1 DEF Same
  <1>9. CASE p.type = "commit" /\ IsDelta /\ CmdData(mine, p.version, TRUE)
    <2>1. i \in p.insts => Carries(p, i) /\ Data(p).delta = TRUE
      BY <1>9 DEF Carries, Data
    <2> QED
      BY <1>6, <1>9, <2>1 DEF Same
  <1>10. CASE p.type = "commit" /\ ~IsDelta /\ CmdInstance(n, mine, p.version, TRUE)
    <2>1. i \in p.insts => Carries(p, i) /\ Data(p).delta = FALSE
      BY <1>10 DEF Carries, Data
    <2>2. CmdData(mine, p.version, FALSE)
      BY <1>10 DEF CmdInstance
    <2> QED
      BY <1>6, <1>10, <2>1, <2>2 DEF Same
  <1>11. CASE p.type = "detach" /\ CmdDetachObject(mine)
    BY <1>1, <1>11 DEF CmdDetachObject, Forget, Same, Attends
  <1>12. CASE p.type = "unmap" /\ CmdUnmapObject(n, mine)
    BY <1>1, <1>12 DEF CmdUnmapObject, Same, Attends
  <1> QED
    BY <1>2, <1>4, <1>5, <1>7, <1>8, <1>9, <1>10, <1>11, <1>12

(* The invariant of an instance whose node receives a packet.              *)
LEMMA ReceiveInstance ==
    ASSUME MappingInv, PinInv, AnnounceInv, QueueInv, NEW i \in Instances, Live(i),
           Receive(NodeOf[i], "unicast")
    PROVE  InstanceInv(i)'
  <1> DEFINE n == NodeOf[i]
             d == DownTo(i)
             p == Head(d)
             t == DownTo(i)'
             item == cache[n]
             new == cache'[n]
             st == state[i]
             att == i \in attached
             qu == queue[i]
             sv == slaveVersion[i]
             co == content[i]
             mt == mapTo[i]
  <1>1. /\ InstanceTypeOK /\ NetTypeOK /\ NoneNewer /\ InstanceInv(i)
    BY DEF MappingInv, QueueInv
  <1>2. /\ version \in Int /\ d \in Seq(DownPacket) /\ item \in CacheItem
        /\ qu \in Seq(QueuedVersion) /\ sv \in Int /\ co \in Int /\ mt \in Int
        /\ att \in BOOLEAN /\ n \in Nodes /\ n \in alive /\ "unicast" \in Links
    BY <1>1, InstanceFields DEF Live, Links
  <1>3. IsTaken(p, d, t)
    <2>1. d # <<>> /\ down' = [down EXCEPT ![n]["unicast"] = Tail(@)]
      BY DEF Receive, DownTo
    <2>2. down \in [Nodes -> [Links -> Seq(DownPacket)]]
      BY <1>1 DEF NetTypeOK
    <2>3. t = Tail(d)
      BY <1>2, <2>1, <2>2 DEF DownTo
    <2> QED
      BY SMTT(40), <2>1, <2>3 DEF IsTaken
  <1>4. p \in DownPacket /\ p = Head(down[n]["unicast"])
    BY SMTT(40), <1>2, <1>3, FirstAndRest DEF IsTaken, DownTo
  <1>5. UNCHANGED <<version, up, cmdQueue, master, slaves, alive>>
    BY DEF Receive, masterVars
  <1>6. Agrees(i, d, st, att, qu, sv, co, mt, item)
    BY <1>1, AgreesBefore
  <1>7. Receives(i, d, p, t, item, new)
    <2>1. KeepsOld(p, item, new)
      BY <1>1, <1>2, <1>4, ReceiveKeepsOld
    <2>2. Provides(i, d, item, new)
      BY <1>1, <1>2, ReceiveProvides
    <2>3. p \in In(d)
      BY <1>2, <1>3, RestOfStream DEF In, IsTaken
    <2>4. IsData(p) => p.version =< version
      BY <1>1, <1>2, <2>3 DEF NoneNewer, DownTo
    <2> QED
      BY <1>3, <2>1, <2>2, <2>4 DEF Receives
  <1>8. Gapless(item)
    BY <1>2 DEF AnnounceInv
  <1> DEFINE newSt == state'[i]
             newAtt == i \in attached'
             z == queue'[i]
             newSv == slaveVersion'[i]
             newCo == content'[i]
             newMt == mapTo'[i]
  <1> SUFFICES Agrees(i, t, newSt, newAtt, z, newSv, newCo, newMt, new)
    BY <1>5, AgreesAfter
  <1>9. /\ i \notin p.insts =>
              /\ newSt = st /\ newAtt = att /\ z = qu /\ newSv = sv /\ newCo = co /\ newMt = mt
        /\ i \in p.insts /\ p.type = "success" =>
              newAtt /\ z = <<>> /\ newSt = st /\ newCo = co /\ newMt = mt
        /\ i \in p.insts /\ p.type \in {"reply", "failed"} =>
              /\ newSt = "replied" /\ newMt = p.version /\ Completed(z, qu, item, p)
              /\ newSv = sv /\ newCo = co /\ newAtt = att
        /\ i \in p.insts /\ p.type \in {"map", "empty", "commit"} =>
              /\ newSt = st /\ newAtt = att /\ newSv = sv /\ newCo = co /\ newMt = mt
              /\ z = IF att THEN Received(qu, p, i) ELSE qu
        /\ i \in p.insts /\ p.type = "detach" =>
              ~newAtt /\ newSt = "unmapped" /\ z = <<>>
        /\ i \in p.insts /\ p.type = "unmap" =>
              /\ ~newAtt /\ newSt = st /\ z = qu /\ newSv = sv /\ newCo = co /\ newMt = mt
    BY <1>2, <1>4, ReceiveEffect DEF Same, Attends
  <1>10. p.type \in {"success", "reply", "failed", "map", "empty", "commit", "detach", "unmap"}
    BY <1>4 DEF DownPacket, PlainPacket, DataPacket, ReplyPacket
  <1>a. newAtt \in BOOLEAN
    OBVIOUS
  <1> HIDE DEF n, d, p, t, item, new, st, att, qu, sv, co, mt, newSt, newAtt, z, newSv, newCo, newMt
  <1>11. CASE i \notin p.insts
    <2>1. ~IsToken(p, i) /\ ~Begins(p, i) /\ ~(att /\ Carries(p, i))
      BY <1>11 DEF IsToken, Begins, Carries
    <2>2. Agrees(i, t, st, att, qu, sv, co, mt, new)
      BY <1>2, <1>6, <1>7, <2>1, ReceivesOther
    <2> QED
      BY <1>9, <1>11, <2>2
  <1>12. CASE i \in p.insts /\ p.type = "success"
    <2>1. Begins(p, i)
      BY <1>12 DEF Begins
    <2>2. Attached(newAtt) /\ Blank(z) /\ newSt = st /\ newCo = co /\ newMt = mt
      BY <1>9, <1>12 DEF Blank, Attached
    <2>3. Agrees(i, t, st, newAtt, z, newSv, co, mt, new)
      BY <1>2, <1>6, <1>7, <1>a, <2>1, <2>2, ReceivesSuccess
    <2> QED
      BY <2>2, <2>3
  <1>13. CASE i \in p.insts /\ p.type = "reply"
    <2>1. IsReply(p, i) /\ Completed(z, qu, item, p)
      BY <1>9, <1>13 DEF IsReply, Answers
    <2>2. Agrees(i, t, "replied", att, z, sv, co, p.version, new)
      BY <1>2, <1>3, <1>6, <1>8, <2>1, ReceivesReply
    <2> QED
      BY <1>9, <1>13, <2>2
  <1>14. CASE i \in p.insts /\ p.type = "failed"
    <2>1. Answers(p, i) /\ p.type = "failed"
      BY <1>14 DEF Answers
    <2>2. ~p.useCache /\ Agrees(i, t, "replied", att, qu, sv, co, p.version, new)
      BY ZenonT(60), <1>2, <1>3, <1>6, <2>1, ReceivesFailed
    <2>3. z = qu
      BY <1>9, <1>14, <2>2 DEF Completed
    <2> QED
      BY <1>9, <1>14, <2>2, <2>3
  <1>15. CASE i \in p.insts /\ p.type \in {"map", "empty", "commit"}
    <2>1. CASE att /\ Carries(p, i)
      <3>1. IsReceived(z, qu, p, i) /\ Attached(att) /\ Carries(p, i)
        BY <1>9, <1>15, <2>1 DEF IsReceived, Attached
      <3>2. Agrees(i, t, st, att, z, sv, co, mt, new)
        BY <1>2, <1>4, <1>6, <1>7, <3>1, ReceivesData
      <3> QED
        BY <1>9, <1>15, <3>2
    <2>2. CASE ~(att /\ Carries(p, i))
      <3>1. ~IsToken(p, i) /\ ~Begins(p, i)
        BY <1>15 DEF IsToken, Begins
      <3>2. Agrees(i, t, st, att, qu, sv, co, mt, new)
        BY <1>2, <1>6, <1>7, <2>2, <3>1, ReceivesOther
      <3>3. z = qu
        BY <1>9, <1>15, <2>2 DEF Received
      <3> QED
        BY <1>9, <1>15, <3>2, <3>3
    <2> QED
      BY <2>1, <2>2
  <1>16. CASE i \in p.insts /\ p.type = "detach"
    <2>1. Ends(p, i)
      BY <1>16 DEF Ends
    <2>2. ~newAtt /\ newSt = "unmapped" /\ Blank(z)
      BY <1>9, <1>16 DEF Blank
    <2>3. Agrees(i, t, "unmapped", newAtt, z, newSv, newCo, newMt, new)
      BY <1>2, <1>3, <1>6, <1>a, <2>1, <2>2, ReceivesDetach
    <2> QED
      BY <2>2, <2>3
  <1>17. CASE i \in p.insts /\ p.type = "unmap"
    <2>1. ~newAtt
      BY <1>9, <1>17
    <2>2. Agrees(i, t, st, newAtt, qu, sv, co, mt, new)
      BY <1>2, <1>6, <1>7, <1>17, <1>a, <2>1, ReceivesUnmap
    <2> QED
      BY <1>9, <1>17, <2>2
  <1> QED
    BY <1>10, <1>11, <1>12, <1>13, <1>14, <1>15, <1>16, <1>17

(* The instances of other nodes do not change.                             *)
LEMMA ReceiveOthers ==
    ASSUME NEW n \in Nodes, NEW link \in Links, Receive(n, link), NEW i \in Instances,
           NodeOf[i] # n
    PROVE  Same(i) /\ Attends(i)
  <1> DEFINE mine == Head(down[n][link]).insts \cap On(n)
  <1>1. i \notin mine
    BY SMTT(40) DEF On
  <1> HIDE DEF mine
  <1>2. \/ CmdMapObjectSuccess(mine)
        \/ CmdMapObjectReply(n, mine, Head(down[n][link]))
        \/ \E v, delta : CmdData(mine, v, delta)
        \/ UNCHANGED instanceVars
        \/ CmdDetachObject(mine)
        \/ CmdUnmapObject(n, mine)
    BY DEF Receive, CmdInstance, mine
  <1>3. CASE CmdMapObjectSuccess(mine)
    BY <1>1, <1>3 DEF CmdMapObjectSuccess, Same, Attends
  <1>4. CASE CmdMapObjectReply(n, mine, Head(down[n][link]))
    BY <1>1, <1>4 DEF CmdMapObjectReply, Same, Attends
  <1>5. ASSUME NEW v, NEW delta, CmdData(mine, v, delta)
        PROVE  Same(i) /\ Attends(i)
    BY <1>1, <1>5 DEF CmdData, Same, Attends
  <1>6. CASE UNCHANGED instanceVars
    BY <1>6 DEF instanceVars, Same, Attends
  <1>7. CASE CmdDetachObject(mine)
    BY <1>1, <1>7 DEF CmdDetachObject, Forget, Same, Attends
  <1>8. CASE CmdUnmapObject(n, mine)
    BY <1>1, <1>8 DEF CmdUnmapObject, Same, Attends
  <1> QED
    BY <1>2, <1>3, <1>4, <1>5, <1>6, <1>7, <1>8

(* Every step keeps the invariant: the receiver thread of a node.          *)
LEMMA ReceiveQueues ==
    ASSUME MappingInv, PinInv, AnnounceInv, QueueInv, NEW n \in Nodes, NEW link \in Links,
           Receive(n, link)
    PROVE  QueueInv'
  <1>1. /\ InstanceTypeOK /\ NetTypeOK /\ OneStream /\ OwnPackets /\ NoneNewer
        /\ \A i \in Instances : InstanceInv(i)
    BY DEF MappingInv, QueueInv
  <1>2. link = "unicast" /\ n \in alive
    BY <1>1 DEF Receive, OneStream, Links
  <1> DEFINE d == down[n]["unicast"]
             p == Head(d)
  <1>3. down \in [Nodes -> [Links -> Seq(DownPacket)]] /\ "unicast" \in Links
        /\ "multicast" \in Links /\ d \in Seq(DownPacket)
    BY <1>1 DEF NetTypeOK, Links
  <1>4. /\ d # <<>>
        /\ down' = [down EXCEPT ![n]["unicast"] = Tail(@)]
        /\ UNCHANGED <<version, up, cmdQueue, master, slaves, alive>>
    BY <1>2 DEF Receive, masterVars
  <1>5. /\ down'[n]["unicast"] = Tail(d) /\ down'[n]["multicast"] = down[n]["multicast"]
        /\ \A m \in Nodes \ {n} : down'[m] = down[m]
    BY <1>3, <1>4
  <1>6. \A m \in Nodes \ {n} : cache'[m] = cache[m]
    BY <1>1, OthersKeep
  <1>7. OneStream'
    <2>1. ASSUME NEW m \in Nodes
          PROVE  /\ down'[m]["multicast"] = <<>>
                 /\ m \notin alive => down'[m]["unicast"] = <<>>
      BY <1>1, <1>2, <1>5 DEF OneStream
    <2> QED
      BY <1>4, <2>1 DEF OneStream
  <1>8. OwnPackets'
    BY <1>1, <1>4 DEF OwnPackets, Requested
  <1>9. NoneNewer'
    <2>1. /\ \A x \in In(d) : IsData(x) => x.version =< version
          /\ NotAfter(cache[n], version)
      BY <1>1 DEF NoneNewer
    <2>2. version \in Version
      BY <1>1, MappingAssumption DEF InstanceTypeOK, Version
    <2>3. KeepsOld(p, cache[n], cache'[n])
      BY <1>1, <1>2, ReceiveKeepsOld
    <2> HIDE DEF d
    <2>4. In(Tail(d)) \subseteq In(d) /\ p \in In(d)
      <3>1. /\ Len(d) \in Nat \ {0} /\ Head(d) = d[1] /\ Len(Tail(d)) = Len(d) - 1
            /\ \A k \in 1..Len(d) - 1 : Tail(d)[k] = d[k + 1]
        BY <1>3, <1>4, RestOfStream
      <3> QED
        BY <3>1 DEF In
    <2>5. NotAfter(cache'[n], version)
      BY <2>1, <2>2, <2>3, <2>4 DEF KeepsOld
    <2>6. \A x \in In(down'[n]["unicast"]) : IsData(x) => x.version =< version
      BY <1>5, <2>1, <2>4
    <2>7. ASSUME NEW m \in Nodes
          PROVE  /\ \A x \in In(down'[m]["unicast"]) : IsData(x) => x.version =< version
                 /\ NotAfter(cache'[m], version)
      <3>1. CASE m = n
        BY <2>5, <2>6, <3>1
      <3>2. CASE m # n
        BY <1>1, <1>5, <1>6, <3>2 DEF NoneNewer
      <3> QED
        BY <3>1, <3>2
    <2> QED
      BY <1>4, <2>7 DEF NoneNewer
  <1>10. ASSUME NEW i \in Instances
         PROVE  InstanceInv(i)'
    <2>1. InstanceInv(i) /\ NodeOf[i] \in Nodes
      BY <1>1, MappingAssumption
    <2>2. CASE NodeOf[i] = n
      BY <1>2, <2>2, ReceiveInstance DEF Live
    <2>3. CASE NodeOf[i] # n
      <3>1. Same(i) /\ Attends(i)
        BY <2>3, ReceiveOthers
      <3>2. /\ cache'[NodeOf[i]] = cache[NodeOf[i]] /\ up'[NodeOf[i]] = up[NodeOf[i]]
            /\ Live(i)' = Live(i) /\ DownTo(i)' = DownTo(i) /\ (i \in slaves') = (i \in slaves)
        BY <1>4, <1>5, <1>6, <2>1, <2>3 DEF Live, DownTo
      <3> QED
        BY <1>4, <2>1, <3>1, <3>2, InstanceSame DEF Same, Attends
    <2> QED
      BY <2>2, <2>3
  <1> QED
    BY <1>7, <1>8, <1>9, <1>10 DEF QueueInv
-----------------------------------------------------------------------------
(* The invariant of the system.                                            *)

(* Nothing is mapped at first.                                             *)
LEMMA QueueInit ==
    ASSUME Init
    PROVE  QueueInv
  <1>1. Len(<<>>) = 0 /\ 1..0 = {} /\ In(<<>>) = {}
    BY DEF In
  <1>2. /\ \A n \in Nodes : /\ up[n] = <<>> /\ cache[n] = NoItem
                            /\ \A l \in Links : down[n][l] = <<>>
        /\ cmdQueue = <<>> /\ alive = Nodes
        /\ \A i \in Instances : state[i] = "unmapped" /\ queue[i] = <<>> /\ i \notin attached
    BY DEF Init
  <1>3. "unicast" \in Links /\ "multicast" \in Links
    BY DEF Links
  <1>4. OneStream /\ OwnPackets /\ NoneNewer
    <2>1. \A v : NotAfter(NoItem, v)
      BY <1>1 DEF NotAfter, NoItem
    <2> QED
      BY <1>1, <1>2, <1>3, <2>1 DEF OneStream, OwnPackets, NoneNewer
  <1>5. ASSUME NEW i \in Instances
        PROVE  InstanceInv(i)
    <2>1. NodeOf[i] \in Nodes
      BY MappingAssumption
    <2>2. /\ DownTo(i) = <<>> /\ up[NodeOf[i]] = <<>> /\ Live(i)
          /\ state[i] = "unmapped" /\ queue[i] = <<>> /\ i \notin attached
      BY <1>2, <1>3, <2>1 DEF DownTo, Live
    <2>3. RestsInv(i)
      BY <2>2 DEF RestsInv
    <2>4. FitsInv(i)
      BY <2>2, NothingQueued DEF FitsInv
    <2>5. TokenInv(i)
      BY <1>1, <1>2, <2>2 DEF TokenInv, Tokens, AtMostOne, Has, Awaited, Replied
    <2>6. KnownInv(i)
      BY <1>1, <2>2 DEF KnownInv, Knows
    <2>7. StageInv(i)
      BY <1>1, <2>2 DEF StageInv, Stage
    <2> QED
      BY <2>3, <2>4, <2>5, <2>6, <2>7 DEF InstanceInv
  <1> QED
    BY <1>4, <1>5 DEF QueueInv

(* No application maps a version that the master has not committed, and    *)
(* all packets to a node come by one connection.                           *)
UnicastCommitted == ~UseMulticast /\ ~MapFuture /\ LastVersion < VERSION_INVALID

(* QueueInv is inductive, together with the invariants of the caches.      *)
LEMMA QueueStep ==
    ASSUME UnicastCommitted, MappingInv, PinInv, AnnounceInv, QueueInv, [Next]_vars
    PROVE  QueueInv'
  <1>0. ~UseMulticast /\ ~MapFuture /\ LastVersion < VERSION_INVALID
    BY DEF UnicastCommitted
  <1>1. CASE NewVersion
    BY <1>0, <1>1, NewVersionQueues
  <1>2. CASE MasterOnly \/ DeregisterDetach
    BY <1>2, MasterOnlyQueues
  <1>3. CASE DeregisterNotify
    BY <1>3, DeregisterQueues
  <1>4. ASSUME NEW n \in Nodes, MasterReceive(n) \/ Expire(n) \/ NodeLost(n)
        PROVE  QueueInv'
    BY <1>4, MasterReceiveQueues, ExpireQueues, NodeLostQueues
  <1>5. CASE MasterCommand
    BY <1>0, <1>5, MasterCommandQueues
  <1>6. ASSUME NEW n \in Nodes, NEW link \in Links, Receive(n, link)
        PROVE  QueueInv'
    BY <1>6, ReceiveQueues
  <1>7. ASSUME NEW i \in Instances, SlaveNext(i)
        PROVE  QueueInv'
    BY <1>0, <1>7, SlaveQueues
  <1>8. CASE UNCHANGED vars
    BY <1>8, MasterRests DEF vars, masterVars
  <1> QED
    BY <1>1, <1>2, <1>3, <1>4, <1>5, <1>6, <1>7, <1>8 DEF Next

(* The inductive invariant.                                                *)
LEMMA QueueInvariant ==
    ASSUME UnicastCommitted
    PROVE  Spec => [](MappingInv /\ PinInv /\ AnnounceInv /\ QueueInv)
  <1>1. Init => PinInv /\ AnnounceInv /\ QueueInv
    BY PinsInit, AnnounceInit, QueueInit
  <1>2. MappingInv /\ (PinInv /\ AnnounceInv /\ QueueInv) /\ [Next]_vars
           => (PinInv /\ AnnounceInv /\ QueueInv)'
    BY PinsStep, AnnounceStep, QueueStep
  <1> QED
    BY <1>1, <1>2, MappingInvariant, PTL DEF Spec
-----------------------------------------------------------------------------
(* What the invariant shows.                                               *)

(* With all packets to a node on one connection and committed versions     *)
(* mapped, a slave instance that shows a version has what the master       *)
(* committed as that version, and will apply the versions after it without *)
(* a gap or a repetition: map data, cached versions and commits fit        *)
(* together however requests, commits, expiry, deregistration and the loss *)
(* of nodes interleave.                                                    *)
THEOREM MappingSlaveContent ==
    ASSUME UnicastCommitted
    PROVE  Spec => []SlaveContent
  <1>1. MappingInv /\ QueueInv => SlaveContent
    <2> SUFFICES ASSUME MappingInv, QueueInv, NEW i \in Instances, Showing(i)
                 PROVE  /\ content[i] = slaveVersion[i]
                        /\ \A k \in 1..Len(queue[i]) :
                              queue[i][k].version = slaveVersion[i] + k
      BY DEF SlaveContent
    <2>1. QueueFits(state[i], i \in attached, queue[i], slaveVersion[i], content[i],
                    mapTo[i], version)
      BY DEF QueueInv, InstanceInv, FitsInv
    <2>2. /\ content[i] = slaveVersion[i] /\ InRow(queue[i])
          /\ queue[i] # <<>> => queue[i][1].version = slaveVersion[i] + 1
      BY <2>1 DEF QueueFits, Showing
    <2>3. slaveVersion[i] \in Int /\ queue[i] \in Seq(QueuedVersion)
      BY InstanceFields DEF MappingInv
    <2> QED
      BY <2>2, <2>3 DEF InRow
  <1> QED
    BY <1>1, QueueInvariant, PTL

(* Versions are queued in order and without a gap, also while the instance *)
(* is being mapped: what _cmdData asserts of every packet.                 *)
THEOREM MappingQueueConsecutive ==
    ASSUME UnicastCommitted
    PROVE  Spec => []QueueConsecutive
  <1>1. MappingInv /\ QueueInv => QueueConsecutive
    <2> SUFFICES ASSUME MappingInv, QueueInv, NEW i \in Instances,
                        NEW k \in 1..Len(queue[i]) - 1
                 PROVE  queue[i][k + 1].version = queue[i][k].version + 1
      BY DEF QueueConsecutive
    <2> DEFINE q == queue[i]
    <2>1. InRow(q)
      BY DEF QueueInv, InstanceInv, FitsInv, QueueFits
    <2>2. q \in Seq(QueuedVersion) /\ k \in 1..Len(q) - 1
      BY InstanceFields DEF MappingInv
    <2> HIDE DEF q
    <2>3. Len(q) \in Nat /\ 1 \in 1..Len(q) /\ k \in 1..Len(q) /\ k + 1 \in 1..Len(q)
      BY <2>2
    <2>4. q[1].version \in Int
      BY <2>2, <2>3, QueuedFields, MappingAssumption
    <2>5. q[k].version = q[1].version + k - 1 /\ q[k + 1].version = q[1].version + (k + 1) - 1
      BY <2>1, <2>3 DEF InRow
    <2> QED
      BY <2>2, <2>4, <2>5 DEF q
  <1> QED
    BY <1>1, QueueInvariant, PTL
-----------------------------------------------------------------------------
(* The abstract object: steps of the system are steps of VersionedObject.  *)

View(i) == IF Showing(i) THEN slaveVersion[i] ELSE 0

(* The instances that a step changes no longer show a version.             *)
Keeps(i) == View(i)' = View(i) \/ View(i)' = 0

(* A step in which views only disappear is an unmap, or a stutter.         *)
LEMMA StepIsUnmap ==
    ASSUME UNCHANGED version, \A i \in Instances : Keeps(i)
    PROVE  \E gone \in SUBSET Instances : Object!Unmap(gone)
  <1>1. PICK gone \in SUBSET Instances : \A i \in Instances : i \in gone <=> View(i)' = 0
    <2> DEFINE S == {i \in Instances : (IF Showing(i) THEN slaveVersion[i] ELSE 0)' = 0}
    <2>1. S \in SUBSET Instances /\ \A i \in Instances : i \in S <=> View(i)' = 0
      BY DEF View
    <2> HIDE DEF S
    <2> QED
      BY <2>1
  <1>2. \A i \in Instances : View(i)' = IF i \in gone THEN 0 ELSE View(i)
    BY <1>1 DEF Keeps
  <1>3. Object!Unmap(gone)
    BY <1>2 DEF Object!Unmap, View
  <1> QED
    BY <1>3

(* Steps that leave an instance as it is, or do not show a version.        *)
LEMMA KeepsView ==
    ASSUME NEW i, \/ state'[i] = state[i] /\ slaveVersion'[i] = slaveVersion[i]
                  \/ state'[i] \notin {"mapped", "unmapping"}
                  \/ slaveVersion'[i] = 0
    PROVE  Keeps(i)
  BY DEF Keeps, View, Showing

(* The data that makes a version visible is of the mapped version, which   *)
(* the master has committed.                                               *)
LEMMA ApplyIsMap ==
    ASSUME MappingInv, QueueInv, NEW i \in Instances, ApplyMapData(i)
    PROVE  Object!Map(i) \/ \E gone \in SUBSET Instances : Object!Unmap(gone)
  <1>1. InstanceTypeOK /\ queue[i] \in Seq(QueuedVersion) /\ queue[i] # <<>>
        /\ state[i] = "applying" /\ UNCHANGED version
    BY InstanceFields DEF MappingInv, ApplyMapData, masterVars
  <1>2. CASE Head(queue[i]).version = mapTo[i]
    <2> DEFINE v == mapTo[i]
    <2>1. QueueFits(state[i], i \in attached, queue[i], slaveVersion[i], content[i],
                    mapTo[i], version)
      BY DEF QueueInv, InstanceInv, FitsInv
    <2>2. 1 \in 1..Len(queue[i]) /\ Head(queue[i]) = queue[i][1]
      BY <1>1
    <2>3. v \in 1..version
      <3>1. version \in Int /\ v \in Int
        BY InstanceFields DEF MappingInv
      <3>2. queue[i][1].version = v /\ queue[i][1].version =< version
        BY <1>2, <2>1, <2>2 DEF QueueFits
      <3>3. v \in 1..queue[i][1].version
        BY <1>1, <2>1, <2>2 DEF QueueFits
      <3> HIDE DEF v
      <3> QED
        BY ONLY <3>1, <3>2, <3>3
    <2>4. /\ state' = [state EXCEPT ![i] = "mapped"]
          /\ slaveVersion' = [slaveVersion EXCEPT ![i] = v]
      BY <1>2 DEF ApplyMapData
    <2>5. /\ state \in [Instances -> {"unmapped", "mapping", "replied", "applying",
                                      "mapped", "unmapping"}]
          /\ slaveVersion \in [Instances -> Version]
      BY <1>1 DEF InstanceTypeOK
    <2> HIDE DEF v
    <2>6. \A j \in Instances : View(j)' = IF j = i THEN v ELSE View(j)
      BY <2>4, <2>5 DEF View, Showing
    <2>7. View(i) = 0
      BY <1>1 DEF View, Showing
    <2>8. Object!Map(i)
      BY <1>1, <2>3, <2>6, <2>7 DEF Object!Map, View
    <2> QED
      BY <2>8
  <1>3. CASE Head(queue[i]).version # mapTo[i]
    <2>1. \A j \in Instances : Keeps(j)
      BY <1>3, KeepsView DEF ApplyMapData
    <2> QED
      BY <1>1, <2>1, StepIsUnmap
  <1> QED
    BY <1>2, <1>3

(* sync moves an instance forward by one committed version.                *)
LEMMA UnpackIsSync ==
    ASSUME MappingInv, QueueInv, NEW i \in Instances, UnpackOneVersion(i)
    PROVE  Object!Sync(i)
  <1>1. InstanceTypeOK /\ queue[i] \in Seq(QueuedVersion) /\ queue[i] # <<>>
        /\ state[i] = "mapped" /\ UNCHANGED <<version, state>>
    BY InstanceFields DEF MappingInv, UnpackOneVersion, masterVars
  <1>2. QueueFits(state[i], i \in attached, queue[i], slaveVersion[i], content[i],
                  mapTo[i], version)
    BY DEF QueueInv, InstanceInv, FitsInv
  <1>3. 1 \in 1..Len(queue[i]) /\ Head(queue[i]) = queue[i][1]
    BY <1>1
  <1>4. /\ Head(queue[i]).version = slaveVersion[i] + 1
        /\ slaveVersion[i] + 1 =< version /\ slaveVersion[i] \in 1..version
    BY <1>1, <1>2, <1>3 DEF QueueFits
  <1>5. slaveVersion' = [slaveVersion EXCEPT ![i] = Head(queue[i]).version]
    BY DEF UnpackOneVersion
  <1>6. slaveVersion \in [Instances -> Version] /\ version \in Int
    BY <1>1, InstanceFields DEF InstanceTypeOK, MappingInv
  <1>7. \A j \in Instances : View(j)' = IF j = i THEN View(i) + 1 ELSE View(j)
    BY <1>1, <1>4, <1>5, <1>6 DEF View, Showing
  <1>8. View(i) \in 1..version - 1
    BY <1>1, <1>4, <1>6 DEF View, Showing
  <1> QED
    BY <1>1, <1>7, <1>8 DEF Object!Sync, View

(* What the nodes of slaves do by themselves.                              *)
LEMMA ReceiveKeepsViews ==
    ASSUME NEW n \in Nodes, NEW link \in Links, Receive(n, link), NEW i \in Instances
    PROVE  Keeps(i)
  <1> DEFINE packet == Head(down[n][link])
             mine == packet.insts \cap On(n)
  <1>1. \/ CmdMapObjectSuccess(mine)
        \/ CmdMapObjectReply(n, mine, packet)
        \/ \E v, delta : CmdData(mine, v, delta)
        \/ UNCHANGED instanceVars
        \/ CmdDetachObject(mine)
        \/ CmdUnmapObject(n, mine)
    BY DEF Receive, CmdInstance
  <1> HIDE DEF packet, mine
  <1>2. CASE CmdMapObjectSuccess(mine)
    BY <1>2, KeepsView DEF CmdMapObjectSuccess
  <1>3. CASE CmdMapObjectReply(n, mine, packet)
    BY <1>3, KeepsView DEF CmdMapObjectReply
  <1>4. ASSUME NEW v, NEW delta, CmdData(mine, v, delta)
        PROVE  Keeps(i)
    BY <1>4, KeepsView DEF CmdData
  <1>5. CASE UNCHANGED instanceVars
    BY <1>5, KeepsView DEF instanceVars
  <1>6. CASE CmdDetachObject(mine)
    BY <1>6, KeepsView DEF CmdDetachObject, Forget
  <1>7. CASE CmdUnmapObject(n, mine)
    BY <1>7, KeepsView DEF CmdUnmapObject
  <1> QED
    BY <1>1, <1>2, <1>3, <1>4, <1>5, <1>6, <1>7

(* Every step is one of the abstract object, or changes nothing of it.     *)
LEMMA StepIsObjectStep ==
    ASSUME MappingInv, QueueInv, [Next]_vars
    PROVE  [Object!Next]_(Object!vars)
  <1>0. InstanceTypeOK /\ state \in [Instances -> {"unmapped", "mapping", "replied",
                                       "applying", "mapped", "unmapping"}]
    BY DEF MappingInv, InstanceTypeOK
  <1>1. CASE NewVersion
    <2>1. version' = version + 1 /\ UNCHANGED slaveVars
      BY <1>1 DEF NewVersion, CommitLocked
    <2>2. Object!Commit
      BY <2>1 DEF Object!Commit, slaveVars, instanceVars, Showing
    <2> QED
      BY <2>2 DEF Object!Next
  <1>2. ASSUME UNCHANGED version, \A i \in Instances : Keeps(i)
        PROVE  Object!Next
    BY <1>2, StepIsUnmap DEF Object!Next
  <1>3. ASSUME UNCHANGED version, UNCHANGED <<state, slaveVersion>>
        PROVE  Object!Next
    BY <1>2, <1>3, KeepsView
  <1>4. CASE MasterOnly \/ DeregisterNotify \/ DeregisterDetach \/ MasterCommand
    <2>1. UNCHANGED version
      <3>1. CASE MasterOnly
        BY <3>1 DEF MasterOnly, CommitBegin, CommitProceed, CommitClean, CommitEmpty,
                    SetAutoObsolete
      <3>2. CASE DeregisterNotify
        BY <3>2 DEF DeregisterNotify, masterVars
      <3>3. CASE DeregisterDetach
        BY <3>3 DEF DeregisterDetach, RemoveSlaves
      <3>4. CASE MasterCommand
        BY <3>4 DEF MasterCommand, CmdMapObject, CmdUnsubscribeObject, CmdRemoveNode,
                    AddSlave, RemoveSlaves, masterVars
      <3> QED
        BY <1>4, <3>1, <3>2, <3>3, <3>4
    <2>2. UNCHANGED <<state, slaveVersion>>
      BY <1>4 DEF MasterOnly, DeregisterNotify, DeregisterDetach, MasterCommand, slaveVars,
                  instanceVars
    <2> QED
      BY <1>3, <2>1, <2>2
  <1>5. ASSUME NEW n \in Nodes, MasterReceive(n) \/ Expire(n) \/ NodeLost(n)
        PROVE  Object!Next
    <2>1. CASE MasterReceive(n)
      BY <1>3, <2>1 DEF MasterReceive, slaveVars, instanceVars, CmdMaxVersion, masterVars
    <2>2. CASE Expire(n)
      BY <1>3, <2>2 DEF Expire, instanceVars, masterVars
    <2>3. CASE NodeLost(n)
      BY <1>2, <2>3, KeepsView DEF NodeLost, Forget, masterVars
    <2> QED
      BY <1>5, <2>1, <2>2, <2>3
  <1>6. ASSUME NEW n \in Nodes, NEW link \in Links, Receive(n, link)
        PROVE  Object!Next
    BY <1>2, <1>6, ReceiveKeepsViews DEF Receive, masterVars
  <1>7. ASSUME NEW i \in Instances, SlaveNext(i)
        PROVE  Object!Next
    <2>1. ASSUME NEW requested \in Requests, MapObjectNB(i, requested)
          PROVE  Object!Next
      <3>1. \A j \in Instances : state'[j] = "mapping" \/ state'[j] = state[j]
        BY <1>0, <2>1 DEF MapObjectNB
      <3>2. UNCHANGED <<version, slaveVersion>>
        BY <2>1 DEF MapObjectNB, masterVars
      <3> QED
        BY <1>2, <3>1, <3>2, KeepsView
    <2>2. CASE MapObjectSync(i)
      <3>1. \A j \in Instances : \/ state'[j] \in {"applying", "unmapped"}
                                 \/ state'[j] = state[j] /\ slaveVersion'[j] = slaveVersion[j]
        BY <1>0, <2>2 DEF MapObjectSync, Forget
      <3>2. UNCHANGED version
        BY <2>2 DEF MapObjectSync, masterVars
      <3> QED
        BY <1>2, <3>1, <3>2, KeepsView
    <2>3. CASE ApplyMapData(i)
      BY <2>3, ApplyIsMap DEF Object!Next
    <2>4. CASE UnpackOneVersion(i)
      BY <2>4, UnpackIsSync DEF Object!Next
    <2>5. CASE UnmapObject(i)
      <3>1. UNCHANGED version
        BY <2>5 DEF UnmapObject, masterVars
      <3>2. \A j \in Instances : Keeps(j)
        <4>1. CASE i \in attached
          <5>1. /\ state' = [state EXCEPT ![i] = "unmapping"] /\ state[i] = "mapped"
                /\ UNCHANGED slaveVersion
            BY <2>5, <4>1 DEF UnmapObject
          <5> QED
            BY <1>0, <5>1 DEF Keeps, View, Showing
        <4>2. CASE i \notin attached
          BY <2>5, <4>2, KeepsView DEF UnmapObject, Forget
        <4> QED
          BY <4>1, <4>2
      <3> QED
        BY <1>2, <3>1, <3>2
    <2> QED
      BY <1>7, <2>1, <2>2, <2>3, <2>4, <2>5 DEF SlaveNext
  <1>8. CASE UNCHANGED vars
    BY <1>8 DEF vars, masterVars, slaveVars, instanceVars, Object!vars, Showing
  <1> QED
    BY <1>1, <1>4, <1>5, <1>6, <1>7, <1>8 DEF Next

(* Seen from an application, the distributed object is the abstract one:   *)
(* an instance that is mapped shows a committed version, sync moves it     *)
(* forward one committed version at a time, never back and never past one, *)
(* and it shows nothing once it is unmapped, withdrawn or lost.            *)
THEOREM MappingImplementsObject ==
    ASSUME UnicastCommitted
    PROVE  Spec => ImplementsObject
  <1>1. Init => Object!Init
    BY DEF Init, MasterInit, VERSION_FIRST, Object!Init, Showing
  <1>2. MappingInv /\ QueueInv /\ [Next]_vars => [Object!Next]_(Object!vars)
    BY StepIsObjectStep
  <1> QED
    BY <1>1, <1>2, QueueInvariant, PTL DEF Spec, ImplementsObject, Object!Spec

-----------------------------------------------------------------------------
(* Flow control.  The limit of a slave is at most getMaxVersions() beyond  *)
(* the version it shows: addSlave computes it from the version the slave   *)
(* is mapped to, later ones are in acknowledgements.  An acknowledgement   *)
(* sent by an earlier mapping of the instance must not count: it is        *)
(* handled by the receiver thread before the next request is even queued.  *)

IsAck(p, i) == p.type = "maxVersion" /\ i \in p.insts
NoAcks(u, i) == \A k \in 1..Len(u) : ~IsAck(u[k], i)

(* Acknowledgements come before the request that ends them, and do not     *)
(* decrease.                                                               *)
AcksInOrder(u, i) ==
    \A j, k \in 1..Len(u) : IsAck(u[j], i) =>
        /\ IsToken(u[k], i) => j < k
        /\ IsAck(u[k], i) /\ j < k => u[j].version =< u[k].version

(* None is under way once the master handles that request, and until the   *)
(* instance shows a version again.                                         *)
AcksDone(i, u, c, d, st) ==
    Has(c, i) \/ Has(d, i) \/ st \in {"replied", "applying"} => NoAcks(u, i)

(* Acknowledgements raise the limit of the slave, up to what the version   *)
(* it shows allows.                                                        *)
AcksRaise(i, u, st, sv, slave, max) ==
    \A k \in 1..Len(u) : IsAck(u[k], i) =>
        /\ slave => max =< u[k].version
        /\ st \in {"mapped", "unmapping"} => u[k].version =< sv + MaxVersions[i]

(* The limit of the slave is that of the version it shows or will show.    *)
LimitFits(i, d, st, att, sv, mt, max) ==
    /\ st \in {"mapped", "unmapping"} => max =< sv + MaxVersions[i]
    /\ st = "applying" \/ (st = "replied" /\ att) => max =< mt + MaxVersions[i]
    /\ \A r \in 1..Len(d) : IsReply(d[r], i) => max =< d[r].version + MaxVersions[i]

(* Commits respect it, the one that has been let through included.         *)
HeadWithin(head, released, max) == head =< max /\ (released => head + 1 =< max)

Flow(i, u, c, d, st, att, sv, mt, slave, max) ==
    /\ AcksInOrder(u, i)
    /\ AcksDone(i, u, c, d, st)
    /\ Limited(i) => AcksRaise(i, u, st, sv, slave, max)
    /\ Limited(i) /\ slave => LimitFits(i, d, st, att, sv, mt, max)

FlowOf(i) ==
    /\ Flow(i, up[NodeOf[i]], cmdQueue, DownTo(i), state[i], i \in attached,
            slaveVersion[i], mapTo[i], i \in slaves, slaveMax[i])
    /\ Limited(i) /\ i \in slaves =>
          HeadWithin(version, committing = "released", slaveMax[i])

(* Every request is answered with the head version.                        *)
ForHead(p) == Buffered /\ p.type = "mapObject" => p.version = VERSION_NONE
HeadRequests ==
    /\ \A n \in Nodes : \A p \in In(up[n]) : ForHead(p)
    /\ \A p \in In(cmdQueue) : ForHead(p)

FlowInv == HeadRequests /\ \A i \in Instances : FlowOf(i)

(* No slave asks for an old version; the sums do not overflow.             *)
MappedAtHead == NoOverflow /\ (Buffered => Requests \subseteq {VERSION_NONE})

(* The acknowledgements of one stream are all in another, and so are the   *)
(* replies.                                                                *)
AcksFrom(y, u, i) ==
    \A k \in 1..Len(y) : IsAck(y[k], i) =>
        \E j \in 1..Len(u) : IsAck(u[j], i) /\ u[j].version = y[k].version
RepliesFrom(t, d, i) ==
    \A r \in 1..Len(t) : IsReply(t[r], i) =>
        \E j \in 1..Len(d) : IsReply(d[j], i) /\ d[j].version = t[r].version

(* The instance shows, or is about to show, nothing new.                   *)
Stays(st, att, sv, mt, newSt, newAtt, newSv, newMt) ==
    /\ newSt \in {"mapped", "unmapping"} => st \in {"mapped", "unmapping"} /\ newSv = sv
    /\ newSt = "applying" \/ (newSt = "replied" /\ newAtt) =>
          (st = "applying" \/ (st = "replied" /\ att)) /\ newMt = mt

(* Steps that bring nothing new keep the limits.                           *)
LEMMA FlowRests ==
    ASSUME NEW i, NEW u, NEW c, NEW d, NEW st, NEW att, NEW sv, NEW mt, NEW slave, NEW max,
           Flow(i, u, c, d, st, att, sv, mt, slave, max),
           NEW y, NEW x, NEW t, NEW newSt, NEW newAtt, NEW newSv, NEW newMt, NEW newSlave,
           NEW newMax,
           AcksInOrder(y, i), AcksDone(i, y, x, t, newSt), AcksFrom(y, u, i),
           RepliesFrom(t, d, i), Stays(st, att, sv, mt, newSt, newAtt, newSv, newMt),
           newSlave => slave /\ newMax = max
    PROVE  Flow(i, y, x, t, newSt, newAtt, newSv, newMt, newSlave, newMax)
  <1>1. ASSUME Limited(i), AcksRaise(i, u, st, sv, slave, max)
        PROVE  AcksRaise(i, y, newSt, newSv, newSlave, newMax)
    <2> SUFFICES ASSUME NEW k \in 1..Len(y), IsAck(y[k], i)
                 PROVE  /\ newSlave => newMax =< y[k].version
                        /\ newSt \in {"mapped", "unmapping"} =>
                              y[k].version =< newSv + MaxVersions[i]
      BY DEF AcksRaise
    <2>1. PICK j \in 1..Len(u) : IsAck(u[j], i) /\ u[j].version = y[k].version
      BY DEF AcksFrom
    <2>2. /\ slave => max =< u[j].version
          /\ st \in {"mapped", "unmapping"} => u[j].version =< sv + MaxVersions[i]
      BY <1>1, <2>1 DEF AcksRaise
    <2> QED
      BY <2>1, <2>2 DEF Stays
  <1>2. ASSUME newSlave, LimitFits(i, d, st, att, sv, mt, max)
        PROVE  LimitFits(i, t, newSt, newAtt, newSv, newMt, newMax)
    <2>1. ASSUME NEW r \in 1..Len(t), IsReply(t[r], i)
          PROVE  newMax =< t[r].version + MaxVersions[i]
      <3>1. PICK j \in 1..Len(d) : IsReply(d[j], i) /\ d[j].version = t[r].version
        BY <2>1 DEF RepliesFrom
      <3> QED
        BY <1>2, <3>1 DEF LimitFits
    <2> QED
      BY <1>2, <2>1 DEF LimitFits, Stays
  <1> QED
    BY <1>1, <1>2 DEF Flow

(* A stream that gets a packet which is no acknowledgement.                *)
LEMMA AcksPassed ==
    ASSUME NEW u, NEW p, NEW y, OneMore(y, u, p), NEW i, ~IsAck(p, i), AcksInOrder(u, i)
    PROVE  AcksInOrder(y, i) /\ AcksFrom(y, u, i) /\ (NoAcks(u, i) => NoAcks(y, i))
  <1>1. \A k \in 1..Len(y) : IsAck(y[k], i) => k \in 1..Len(u) /\ y[k] = u[k]
    BY DEF OneMore
  <1>2. \A k \in 1..Len(y) : k \in 1..Len(u) \/ k > Len(u)
    BY DEF OneMore
  <1>3. \A k \in 1..Len(u) : y[k] = u[k] /\ k =< Len(u)
    BY DEF OneMore
  <1>4. AcksInOrder(y, i)
    <2> SUFFICES ASSUME NEW j \in 1..Len(y), NEW k \in 1..Len(y), IsAck(y[j], i)
                 PROVE  /\ IsToken(y[k], i) => j < k
                        /\ IsAck(y[k], i) /\ j < k => y[j].version =< y[k].version
      BY DEF AcksInOrder
    <2>1. j \in 1..Len(u) /\ y[j] = u[j] /\ Len(u) \in Nat
      BY <1>1 DEF OneMore
    <2>2. CASE k \in 1..Len(u)
      BY <1>3, <2>1, <2>2 DEF AcksInOrder
    <2>3. CASE k > Len(u)
      BY <1>1, <2>1, <2>3
    <2> QED
      BY <1>2, <2>2, <2>3
  <1> QED
    BY <1>1, <1>4 DEF AcksFrom, NoAcks

(* A stream that gets a higher acknowledgement, and holds no request.      *)
LEMMA AckSent ==
    ASSUME NEW u, NEW p, NEW y, OneMore(y, u, p), NEW i, AcksInOrder(u, i), ~Has(u, i),
           IsAck(p, i), \A k \in 1..Len(u) : IsAck(u[k], i) => u[k].version =< p.version,
           p.version \in Int
    PROVE  AcksInOrder(y, i)
  <1>1. \A k \in 1..Len(y) : (k \in 1..Len(u) /\ y[k] = u[k]) \/ (k = Len(y) /\ y[k] = p)
    BY DEF OneMore
  <1>2. ~IsToken(p, i)
    BY DEF IsAck, IsToken
  <1>3. \A k \in 1..Len(y) : ~IsToken(y[k], i)
    BY <1>1, <1>2 DEF Has
  <1>4. \A k \in 1..Len(u) : k < Len(y) /\ ~(Len(y) < k)
    BY DEF OneMore
  <1>5. Len(y) \in Nat
    BY DEF OneMore
  <1> QED
    BY <1>1, <1>3, <1>4, <1>5 DEF AcksInOrder

(* A stream whose first packet is received.                                *)
LEMMA AcksShrink ==
    ASSUME NEW S, NEW u \in Seq(S), NEW p, NEW y, IsTaken(p, u, y), NEW i, AcksInOrder(u, i)
    PROVE  /\ AcksInOrder(y, i) /\ AcksFrom(y, u, i) /\ (NoAcks(u, i) => NoAcks(y, i))
           /\ IsToken(p, i) => NoAcks(y, i)
           /\ IsAck(p, i) => \A k \in 1..Len(y) : IsAck(y[k], i) => p.version =< y[k].version
  <1>1. /\ Len(u) \in Nat \ {0} /\ Len(y) = Len(u) - 1 /\ p = u[1]
        /\ \A k \in 1..Len(u) - 1 : y[k] = u[k + 1]
    BY RestOfStream DEF IsTaken
  <1>2. \A k \in 1..Len(y) : k + 1 \in 1..Len(u) /\ y[k] = u[k + 1] /\ 1 < k + 1 /\ ~(k + 1 < 1)
    BY <1>1
  <1>3. 1 \in 1..Len(u) /\ u[1] = p
    BY <1>1
  <1>4. AcksInOrder(y, i)
    <2>1. \A j, k \in 1..Len(y) : j < k <=> j + 1 < k + 1
      BY <1>1
    <2> QED
      BY <1>2, <2>1 DEF AcksInOrder
  <1>5. AcksFrom(y, u, i) /\ (NoAcks(u, i) => NoAcks(y, i))
    BY <1>2 DEF AcksFrom, NoAcks
  <1>6. IsToken(p, i) => NoAcks(y, i)
    BY <1>2, <1>3 DEF AcksInOrder, NoAcks
  <1>7. IsAck(p, i) => \A k \in 1..Len(y) : IsAck(y[k], i) => p.version =< y[k].version
    BY <1>2, <1>3 DEF AcksInOrder
  <1> QED
    BY <1>4, <1>5, <1>6, <1>7

(* Packets that answer no request of an instance.                          *)
LEMMA FlowQuiet ==
    ASSUME NEW d \in Seq(DownPacket), NEW new \in Seq(DownPacket), NEW t, t = d \o new, NEW i,
           \A k \in 1..Len(new) : ~IsToken(new[k], i)
    PROVE  RepliesFrom(t, d, i) /\ (Has(t, i) => Has(d, i))
  <1>1. /\ Len(d) \in Nat /\ Len(t) \in Nat
        /\ \A k \in 1..Len(d) : t[k] = d[k]
        /\ \A k \in Len(d) + 1..Len(t) : k - Len(d) \in 1..Len(new) /\ t[k] = new[k - Len(d)]
    BY Grows
  <1>2. \A k \in 1..Len(t) : k \in 1..Len(d) \/ k \in Len(d) + 1..Len(t)
    BY <1>1
  <1>3. \A k \in 1..Len(t) : IsToken(t[k], i) => k \in 1..Len(d) /\ t[k] = d[k]
    BY <1>1, <1>2
  <1>4. \A p : IsReply(p, i) => IsToken(p, i)
    BY DEF IsReply, Answers, IsToken
  <1> QED
    BY <1>3, <1>4 DEF RepliesFrom, Has

(* A stream is its own source.                                             *)
LEMMA AcksSame ==
    ASSUME NEW u, NEW i
    PROVE  AcksFrom(u, u, i) /\ RepliesFrom(u, u, i)
  BY DEF AcksFrom, RepliesFrom

(* Steps of the master's application: the streams to the nodes grow.       *)
LEMMA MasterFlows ==
    ASSUME InstanceTypeOK, NetTypeOK, NEW i \in Instances, FlowOf(i),
           UNCHANGED <<instanceVars, up, cmdQueue>>,
           NEW new \in Seq(DownPacket), DownTo(i)' = DownTo(i) \o new,
           \A k \in 1..Len(new) : ~IsToken(new[k], i),
           i \in slaves' => i \in slaves /\ slaveMax'[i] = slaveMax[i],
           Limited(i) /\ i \in slaves' =>
              HeadWithin(version', committing' = "released", slaveMax[i])
    PROVE  FlowOf(i)'
  <1> DEFINE u == up[NodeOf[i]]
             d == DownTo(i)
             t == DownTo(i)'
             st == state[i]
             att == i \in attached
             sv == slaveVersion[i]
             mt == mapTo[i]
             slave == i \in slaves
             newSlave == i \in slaves'
             newMax == slaveMax'[i]
  <1>1. /\ state'[i] = st /\ mapTo'[i] = mt /\ slaveVersion'[i] = sv /\ attached' = attached
        /\ up'[NodeOf[i]] = u /\ cmdQueue' = cmdQueue
    BY DEF instanceVars
  <1>2. Flow(i, u, cmdQueue, d, st, att, sv, mt, slave, slaveMax[i])
    BY DEF FlowOf
  <1>3. d \in Seq(DownPacket) /\ t = d \o new
    BY InstanceFields
  <1>4. newSlave => slave /\ newMax = slaveMax[i]
    OBVIOUS
  <1> HIDE DEF u, d, t, st, att, sv, mt, slave, newSlave, newMax
  <1>5. RepliesFrom(t, d, i) /\ (Has(t, i) => Has(d, i))
    BY <1>3, FlowQuiet
  <1>6. AcksInOrder(u, i) /\ AcksDone(i, u, cmdQueue, t, st) /\ AcksFrom(u, u, i)
    BY <1>2, <1>5, AcksSame DEF Flow, AcksDone
  <1>7. Stays(st, att, sv, mt, st, att, sv, mt)
    BY DEF Stays
  <1>8. Flow(i, u, cmdQueue, t, st, att, sv, mt, newSlave, newMax)
    BY <1>2, <1>4, <1>5, <1>6, <1>7, FlowRests
  <1>9. Limited(i) /\ newSlave => HeadWithin(version', committing' = "released", newMax)
    BY <1>4 DEF newSlave
  <1>10. Flow(i, up'[NodeOf[i]], cmdQueue', DownTo(i)', state'[i], i \in attached',
              slaveVersion'[i], mapTo'[i], i \in slaves', slaveMax'[i])
    BY <1>1, <1>8 DEF u, t, st, att, sv, mt, newSlave, newMax
  <1>11. Limited(i)' <=> Limited(i)
    BY DEF Limited
  <1> QED
    BY <1>9, <1>10, <1>11 DEF FlowOf, newSlave, newMax, Flow, AcksRaise, LimitFits

(* The requests under way stay the same.                                   *)
LEMMA HeadRequestsStay ==
    ASSUME HeadRequests, UNCHANGED <<up, cmdQueue>>
    PROVE  HeadRequests'
  BY DEF HeadRequests, ForHead

(* A commit: it was let through by the limit of every slave.               *)
LEMMA NewVersionFlow ==
    ASSUME ~UseMulticast, MappingInv, FlowInv, NewVersion
    PROVE  FlowInv'
  <1> DEFINE p == Packet("commit", Instances, version + 1)
             new == <<p>>
             none == <<>>
  <1>1. /\ MasterTypeOK /\ InstanceTypeOK /\ NetTypeOK
        /\ HeadRequests /\ \A i \in Instances : FlowOf(i)
    BY DEF MappingInv, FlowInv
  <1>2. /\ version' = version + 1 /\ UNCHANGED <<slaves, slaveMax>>
        /\ committing = "released" /\ committing' = "idle"
        /\ UNCHANGED <<instanceVars, up, cmdQueue>>
        /\ Send(SlaveNodes, "unicast", new)
    BY DEF NewVersion, CommitLocked, CommitLink, slaveVars
  <1>3. version \in Int /\ version + 1 \in Version
    BY <1>1, MappingAssumption DEF NewVersion, InstanceTypeOK, Version
  <1>4. p \in DownPacket /\ p.type = "commit"
    BY <1>3 DEF Packet, DownPacket, PlainPacket
  <1>5. /\ new \in Seq(DownPacket) /\ Len(new) = 1 /\ new[1] = p
        /\ none \in Seq(DownPacket) /\ Len(none) = 0
    BY <1>4
  <1> HIDE DEF p
  <1>6. \A n \in Nodes :
           down'[n]["unicast"] = IF n \in alive /\ n \in SlaveNodes
                                 THEN down[n]["unicast"] \o new ELSE down[n]["unicast"]
    BY <1>1, <1>2, SendUnicast
  <1>7. ASSUME NEW i \in Instances
        PROVE  FlowOf(i)'
    <2>1. NodeOf[i] \in Nodes /\ DownTo(i) \in Seq(DownPacket) /\ slaveMax[i] \in Int
      BY <1>1, InstanceFields DEF MasterTypeOK
    <2>2. Limited(i) /\ i \in slaves' =>
             HeadWithin(version', committing' = "released", slaveMax[i])
      BY <1>1, <1>2, <1>3, <2>1 DEF FlowOf, HeadWithin
    <2>3. FlowOf(i) /\ (i \in slaves' => i \in slaves /\ slaveMax'[i] = slaveMax[i])
      BY <1>1, <1>2
    <2>4. /\ \A k \in 1..Len(new) : ~IsToken(new[k], i)
          /\ \A k \in 1..Len(none) : ~IsToken(none[k], i)
      BY <1>4, <1>5 DEF IsToken
    <2>5. DownTo(i) \o none = DownTo(i)
      BY <2>1, ConcatEmptySeq
    <2>6. DownTo(i)' = DownTo(i) \o new \/ DownTo(i)' = DownTo(i) \o none
      BY <1>6, <2>1, <2>5 DEF DownTo
    <2> HIDE DEF new, none
    <2> QED
      BY <1>1, <1>2, <1>5, <2>2, <2>3, <2>4, <2>6, MasterFlows
  <1> QED
    BY <1>1, <1>2, <1>7, HeadRequestsStay DEF FlowInv

(* Steps that send nothing and change no instance.                         *)
LEMMA SilentFlow ==
    ASSUME MappingInv, FlowInv, UNCHANGED <<version, instanceVars, down, up, cmdQueue>>,
           \A i \in slaves' : i \in slaves /\ slaveMax'[i] = slaveMax[i],
           \A i \in slaves : committing' = "released" =>
              committing = "released" \/ version + 1 =< slaveMax[i]
    PROVE  FlowInv'
  <1> DEFINE none == <<>>
  <1>1. /\ MasterTypeOK /\ InstanceTypeOK /\ NetTypeOK
        /\ HeadRequests /\ \A i \in Instances : FlowOf(i)
    BY DEF MappingInv, FlowInv
  <1>2. none \in Seq(DownPacket) /\ Len(none) = 0
    OBVIOUS
  <1>3. ASSUME NEW i \in Instances
        PROVE  FlowOf(i)'
    <2>1. DownTo(i) \in Seq(DownPacket)
      BY <1>1, InstanceFields
    <2>2. FlowOf(i) /\ (i \in slaves' => i \in slaves /\ slaveMax'[i] = slaveMax[i])
      BY <1>1
    <2>3. Limited(i) /\ i \in slaves' =>
             HeadWithin(version', committing' = "released", slaveMax[i])
      BY <2>2 DEF FlowOf, HeadWithin
    <2>4. DownTo(i)' = DownTo(i) \o none
      BY <2>1, ConcatEmptySeq DEF DownTo
    <2>5. \A k \in 1..Len(none) : ~IsToken(none[k], i)
      BY <1>2
    <2> HIDE DEF none
    <2> QED
      BY <1>1, <1>2, <2>2, <2>3, <2>4, <2>5, MasterFlows
  <1> QED
    BY <1>1, <1>3, HeadRequestsStay DEF FlowInv

(* The other steps of the master's application: a commit is let through by *)
(* the slowest slave.                                                      *)
LEMMA MasterOnlyFlow ==
    ASSUME MappingInv, FlowInv, MasterOnly \/ DeregisterDetach
    PROVE  FlowInv'
  <1>1. MasterTypeOK /\ InstanceTypeOK /\ \A i \in slaves : maxVersion =< slaveMax[i]
    BY DEF MappingInv, SlowestSlaveLimits
  <1>2. CASE MasterOnly
    <2>1. /\ UNCHANGED <<version, slaves, slaveMax, instanceVars, down, up, cmdQueue>>
          /\ committing' = "released" => committing = "released" \/ maxVersion >= version + 1
      BY <1>2 DEF MasterOnly, CommitBegin, CommitProceed, CommitClean, CommitEmpty,
                  SetAutoObsolete, slaveVars, netVars
    <2>2. \A i \in slaves : slaveMax[i] \in Int /\ maxVersion \in Int /\ version \in Int
      BY <1>1 DEF MasterTypeOK
    <2>3. \A i \in slaves : committing' = "released" =>
             committing = "released" \/ version + 1 =< slaveMax[i]
      BY <1>1, <2>1, <2>2
    <2> QED
      BY <2>1, <2>3, SilentFlow
  <1>3. CASE DeregisterDetach
    <2>1. /\ UNCHANGED <<version, committing, instanceVars, down, up, cmdQueue>>
          /\ slaves' = slaves \ Instances
      BY <1>3 DEF DeregisterDetach, RemoveSlaves, slaveVars, netVars
    <2>2. slaves' = {}
      BY <1>1, <2>1 DEF MasterTypeOK
    <2> QED
      BY <2>1, <2>2, SilentFlow
  <1> QED
    BY <1>2, <1>3

(* The nodes with slaves are told that the object is gone.                 *)
LEMMA DeregisterFlow ==
    ASSUME MappingInv, FlowInv, DeregisterNotify
    PROVE  FlowInv'
  <1> DEFINE none == <<>>
  <1>1. /\ MasterTypeOK /\ InstanceTypeOK /\ NetTypeOK
        /\ HeadRequests /\ \A i \in Instances : FlowOf(i)
    BY DEF MappingInv, FlowInv
  <1>2. UNCHANGED <<version, committing, slaves, slaveMax, instanceVars, up, cmdQueue>>
    BY DEF DeregisterNotify, masterVars, slaveVars
  <1>3. none \in Seq(DownPacket) /\ Len(none) = 0
    OBVIOUS
  <1>4. ASSUME NEW i \in Instances
        PROVE  FlowOf(i)'
    <2> DEFINE n == NodeOf[i]
               p == Packet("unmap", On(n), VERSION_NONE)
               new == <<p>>
    <2>1. n \in Nodes /\ DownTo(i) \in Seq(DownPacket)
      BY <1>1, InstanceFields
    <2>2. FlowOf(i) /\ (i \in slaves' => i \in slaves /\ slaveMax'[i] = slaveMax[i])
      BY <1>1, <1>2
    <2>3. Limited(i) /\ i \in slaves' =>
             HeadWithin(version', committing' = "released", slaveMax[i])
      BY <1>2, <2>2 DEF FlowOf
    <2>4. 0 \in Version
      BY MappingAssumption DEF Version
    <2>5. p \in DownPacket /\ p.type = "unmap"
      BY <2>4 DEF Packet, DownPacket, PlainPacket, On
    <2>6. down'[n] = IF n \in alive \cap SlaveNodes
                     THEN [down[n] EXCEPT !["unicast"] = Append(@, p)] ELSE down[n]
      BY <2>1 DEF DeregisterNotify
    <2>7. down[n] \in [Links -> Seq(DownPacket)] /\ "unicast" \in Links
      BY <1>1, <2>1 DEF NetTypeOK, Links
    <2> HIDE DEF p
    <2>8. Append(DownTo(i), p) = DownTo(i) \o new /\ DownTo(i) \o none = DownTo(i)
      BY <2>1, <2>5, AppendIsConcat, ConcatEmptySeq
    <2>9. DownTo(i)' = DownTo(i) \o new \/ DownTo(i)' = DownTo(i) \o none
      BY <2>6, <2>7, <2>8 DEF DownTo
    <2>10. new \in Seq(DownPacket) /\ Len(new) = 1 /\ new[1] = p
      BY <2>5
    <2>11. /\ \A k \in 1..Len(new) : ~IsToken(new[k], i)
           /\ \A k \in 1..Len(none) : ~IsToken(none[k], i)
      BY <1>3, <2>5, <2>10 DEF IsToken
    <2> HIDE DEF new, none
    <2> QED
      BY <1>1, <1>2, <1>3, <2>2, <2>3, <2>9, <2>10, <2>11, MasterFlows
  <1> QED
    BY <1>1, <1>2, <1>4, HeadRequestsStay DEF FlowInv

(* The master takes an acknowledgement: a higher limit, and still one that *)
(* the version the instance shows allows.                                  *)
LEMMA AckTaken ==
    ASSUME NEW S, NEW u \in Seq(S), NEW p, NEW y, IsTaken(p, u, y), NEW i, IsAck(p, i),
           NEW c, NEW d, NEW st, NEW att, NEW sv, NEW mt, NEW slave, NEW max,
           Flow(i, u, c, d, st, att, sv, mt, slave, max)
    PROVE  /\ Flow(i, y, c, d, st, att, sv, mt, slave, p.version)
           /\ Limited(i) /\ slave => max =< p.version
  <1>1. /\ AcksInOrder(y, i) /\ AcksFrom(y, u, i) /\ (NoAcks(u, i) => NoAcks(y, i))
        /\ \A k \in 1..Len(y) : IsAck(y[k], i) => p.version =< y[k].version
    BY AcksShrink DEF Flow
  <1>2. 1 \in 1..Len(u) /\ u[1] = p
    BY RestOfStream DEF IsTaken
  <1>3. ~Has(d, i) /\ st \notin {"replied", "applying"} /\ AcksDone(i, y, c, d, st)
    BY <1>1, <1>2 DEF Flow, AcksDone, NoAcks
  <1>4. ASSUME Limited(i)
        PROVE  /\ AcksRaise(i, y, st, sv, slave, p.version)
               /\ slave => max =< p.version
               /\ st \in {"mapped", "unmapping"} => p.version =< sv + MaxVersions[i]
    <2>1. AcksRaise(i, u, st, sv, slave, max)
      BY <1>4 DEF Flow
    <2>2. /\ slave => max =< p.version
          /\ st \in {"mapped", "unmapping"} => p.version =< sv + MaxVersions[i]
      BY <1>2, <2>1 DEF AcksRaise
    <2>3. AcksRaise(i, y, st, sv, slave, p.version)
      <3> SUFFICES ASSUME NEW k \in 1..Len(y), IsAck(y[k], i)
                   PROVE  /\ slave => p.version =< y[k].version
                          /\ st \in {"mapped", "unmapping"} =>
                                y[k].version =< sv + MaxVersions[i]
        BY DEF AcksRaise
      <3>1. PICK j \in 1..Len(u) : IsAck(u[j], i) /\ u[j].version = y[k].version
        BY <1>1 DEF AcksFrom
      <3> QED
        BY <1>1, <2>1, <3>1 DEF AcksRaise
    <2> QED
      BY <2>2, <2>3
  <1>5. \A r \in 1..Len(d) : ~IsReply(d[r], i)
    BY <1>3 DEF Has, IsReply, Answers, IsToken
  <1>6. Limited(i) => LimitFits(i, d, st, att, sv, mt, p.version)
    BY <1>3, <1>4, <1>5 DEF LimitFits
  <1> QED
    BY <1>1, <1>3, <1>4, <1>6 DEF Flow

(* The request of one packet more.                                         *)
LEMMA OneMoreToken ==
    ASSUME NEW S, NEW c \in Seq(S), NEW p \in S, NEW i, NEW y, y = c \o <<p>>
    PROVE  Has(y, i) => Has(c, i) \/ IsToken(p, i)
  <1> DEFINE r == <<p>>
  <1>1. r \in Seq(S) /\ (Has(r, i) <=> IsToken(p, i))
    BY OneToken
  <1> HIDE DEF r
  <1>2. Has(y, i) <=> Has(c, i) \/ Has(r, i)
    BY <1>1, TokensGrow DEF r
  <1> QED
    BY <1>1, <1>2

(* The receiver thread of the master.                                      *)
LEMMA MasterReceiveFlow ==
    ASSUME MappingInv, OwnPackets, FlowInv, NEW m \in Nodes, MasterReceive(m)
    PROVE  FlowInv'
  <1> DEFINE p == Head(up[m])
  <1>1. /\ MasterTypeOK /\ InstanceTypeOK /\ NetTypeOK
        /\ HeadRequests /\ \A i \in Instances : FlowOf(i)
    BY DEF MappingInv, FlowInv
  <1>2. /\ up[m] \in Seq(UpPacket) /\ up[m] # <<>> /\ cmdQueue \in Seq(UpPacket)
        /\ up' = [up EXCEPT ![m] = Tail(up[m])] /\ up \in [Nodes -> Seq(UpPacket)]
        /\ UNCHANGED <<instanceVars, down>>
    <2>1. cmdQueue \in Seq(UpPacket)
      BY <1>1 DEF NetTypeOK, UpPacket
    <2> QED
      BY <1>1, <2>1 DEF MasterReceive, NetTypeOK, slaveVars
  <1>3. version' = version /\ slaves' = slaves /\ committing' = committing
    BY DEF MasterReceive, CmdMaxVersion, masterVars
  <1>4. p \in UpPacket /\ p \in In(up[m]) /\ In(Tail(up[m])) \subseteq In(up[m])
    BY <1>2, FirstAndRest, InTail
  <1>5. p.insts \subseteq On(m) /\ ForHead(p)
    BY <1>1, <1>4 DEF OwnPackets, HeadRequests
  <1>6. p.type = "maxVersion" => p.insts \in Single /\ p.version \in Int
    BY <1>4 DEF UpPacket, CommandPacket, RequestPacket
  <1>7. Append(cmdQueue, p) = cmdQueue \o <<p>> /\ In(Append(cmdQueue, p)) = In(cmdQueue) \cup {p}
    BY <1>2, <1>4, AppendIsConcat, InAppend
  <1>8. /\ p.type = "maxVersion" => cmdQueue' = cmdQueue
        /\ p.type # "maxVersion" => cmdQueue' = cmdQueue \o <<p>> /\ slaveMax' = slaveMax
        /\ cmdQueue' = cmdQueue \/ cmdQueue' = Append(cmdQueue, p)
    BY <1>7 DEF MasterReceive, masterVars
  <1>9. \A i \in Instances :
           \/ slaveMax'[i] = slaveMax[i]
           \/ IsAck(p, i) /\ i \in slaves /\ slaveMax'[i] = p.version
    BY <1>1 DEF MasterReceive, CmdMaxVersion, masterVars, MasterTypeOK, IsAck
  <1> HIDE DEF p
  <1>10. HeadRequests'
    <2>1. \A n \in Nodes : In(up'[n]) \subseteq In(up[n])
      BY <1>2, <1>4
    <2>2. In(cmdQueue') \subseteq In(cmdQueue) \cup {p}
      BY <1>7, <1>8
    <2> QED
      BY <1>1, <1>5, <2>1, <2>2 DEF HeadRequests, ForHead
  <1>11. ASSUME NEW i \in Instances
         PROVE  FlowOf(i)'
    <2> DEFINE n == NodeOf[i]
               u == up[n]
               y == up'[n]
               c == cmdQueue
               x == cmdQueue'
               d == DownTo(i)
               st == state[i]
               att == i \in attached
               sv == slaveVersion[i]
               mt == mapTo[i]
               slave == i \in slaves
               max == slaveMax[i]
               newMax == slaveMax'[i]
    <2>1. /\ state'[i] = st /\ mapTo'[i] = mt /\ slaveVersion'[i] = sv /\ attached' = attached
          /\ DownTo(i)' = d /\ slaves' = slaves
      BY <1>2, <1>3 DEF instanceVars, DownTo
    <2>2. /\ Flow(i, u, c, d, st, att, sv, mt, slave, max)
          /\ Limited(i) /\ slave => HeadWithin(version, committing = "released", max)
      BY <1>1 DEF FlowOf
    <2>3. n \in Nodes /\ max \in Int /\ version \in Int
      BY <1>1, MappingAssumption DEF MasterTypeOK
    <2>4. n = m => u \in Seq(UpPacket) /\ IsTaken(p, u, y)
      BY <1>2 DEF p, IsTaken
    <2>5. n # m => y = u /\ i \notin p.insts
      BY <1>2, <1>5, <2>3 DEF On
    <2>6. newMax = max \/ (IsAck(p, i) /\ slave /\ newMax = p.version)
      BY <1>9
    <2>7. Has(x, i) => Has(c, i) \/ (IsToken(p, i) /\ p.type # "maxVersion")
      <3>1. CASE p.type = "maxVersion"
        BY <1>8, <3>1
      <3>2. CASE p.type # "maxVersion"
        BY <1>2, <1>4, <1>8, <3>2, OneMoreToken
      <3> QED
        BY <3>1, <3>2
    <2>8. p.type = "maxVersion" => x = c
      BY <1>8
    <2> HIDE DEF n, u, y, c, x, d, st, att, sv, mt, slave, max, newMax
    <2>9. Stays(st, att, sv, mt, st, att, sv, mt) /\ RepliesFrom(d, d, i) /\ AcksFrom(u, u, i)
      BY AcksSame DEF Stays
    <2>10. /\ Flow(i, y, x, d, st, att, sv, mt, slave, newMax)
           /\ Limited(i) /\ slave => max =< newMax
      <3>1. CASE n # m
        <4>1. newMax = max /\ y = u /\ ~IsToken(p, i)
          BY <2>5, <2>6, <3>1 DEF IsAck, IsToken
        <4>2. AcksInOrder(u, i) /\ AcksDone(i, u, x, d, st)
          BY <2>2, <2>7, <4>1 DEF Flow, AcksDone
        <4>3. Flow(i, u, x, d, st, att, sv, mt, slave, max)
          BY <2>2, <2>9, <4>2, FlowRests
        <4> QED
          BY <2>3, <4>1, <4>3
      <3>2. CASE n = m /\ newMax = max
        <4>1. /\ AcksInOrder(y, i) /\ AcksFrom(y, u, i) /\ (NoAcks(u, i) => NoAcks(y, i))
              /\ IsToken(p, i) => NoAcks(y, i)
          BY <2>2, <2>4, <3>2, AcksShrink DEF Flow
        <4>2. AcksDone(i, y, x, d, st)
          BY <2>2, <2>7, <4>1 DEF Flow, AcksDone
        <4>3. Flow(i, y, x, d, st, att, sv, mt, slave, max)
          BY <2>2, <2>9, <4>1, <4>2, FlowRests
        <4> QED
          BY <2>3, <3>2, <4>3
      <3>3. CASE n = m /\ IsAck(p, i) /\ newMax = p.version
        <4>1. x = c
          BY <2>8, <3>3 DEF IsAck
        <4>2. /\ Flow(i, y, c, d, st, att, sv, mt, slave, p.version)
              /\ Limited(i) /\ slave => max =< p.version
          BY <2>2, <2>4, <3>3, AckTaken
        <4> QED
          BY <3>3, <4>1, <4>2
      <3> QED
        BY <2>6, <3>1, <3>2, <3>3
    <2>11. newMax \in Int
      BY <1>6, <2>3, <2>6 DEF IsAck
    <2>12. Limited(i) /\ slave => HeadWithin(version, committing = "released", newMax)
      BY <2>2, <2>3, <2>10, <2>11 DEF HeadWithin
    <2> QED
      BY <1>3, <2>1, <2>10, <2>12
         DEF FlowOf, Flow, Limited, AcksRaise, LimitFits, n, y, x, d, st, att, sv, mt, slave, newMax
  <1> QED
    BY <1>10, <1>11 DEF FlowInv

(* What a stream to a node has when packets without a reply are sent.      *)
LEMMA RepliesStay ==
    ASSUME NEW d \in Seq(DownPacket), NEW new \in Seq(DownPacket), NEW t, t = d \o new, NEW i,
           \A k \in 1..Len(new) : ~IsReply(new[k], i)
    PROVE  RepliesFrom(t, d, i)
  <1>1. /\ Len(d) \in Nat /\ Len(t) \in Nat
        /\ \A k \in 1..Len(d) : t[k] = d[k]
        /\ \A k \in Len(d) + 1..Len(t) : k - Len(d) \in 1..Len(new) /\ t[k] = new[k - Len(d)]
    BY Grows
  <1>2. \A k \in 1..Len(t) : k \in 1..Len(d) \/ k \in Len(d) + 1..Len(t)
    BY <1>1
  <1> QED
    BY <1>1, <1>2 DEF RepliesFrom

(* The command thread has taken a command and added no slave.              *)
LEMMA CommandFlows ==
    ASSUME MasterTypeOK, InstanceTypeOK, NetTypeOK, NEW i \in Instances, FlowOf(i),
           UNCHANGED <<version, committing, instanceVars, up>>,
           NEW p, IsTaken(p, cmdQueue, cmdQueue'),
           RepliesFrom(DownTo(i)', DownTo(i), i),
           Has(DownTo(i)', i) => Has(DownTo(i), i) \/ IsToken(p, i),
           i \in slaves' => i \in slaves /\ slaveMax'[i] = slaveMax[i]
    PROVE  FlowOf(i)'
  <1> DEFINE u == up[NodeOf[i]]
             c == cmdQueue
             x == cmdQueue'
             d == DownTo(i)
             t == DownTo(i)'
             st == state[i]
             att == i \in attached
             sv == slaveVersion[i]
             mt == mapTo[i]
             slave == i \in slaves
             newSlave == i \in slaves'
             max == slaveMax[i]
             newMax == slaveMax'[i]
  <1>1. /\ state'[i] = st /\ mapTo'[i] = mt /\ slaveVersion'[i] = sv /\ attached' = attached
        /\ up'[NodeOf[i]] = u /\ version' = version /\ committing' = committing
    BY DEF instanceVars
  <1>2. /\ Flow(i, u, c, d, st, att, sv, mt, slave, max)
        /\ Limited(i) /\ slave => HeadWithin(version, committing = "released", max)
    BY DEF FlowOf
  <1>3. c \in Seq(CommandPacket) /\ IsTaken(p, c, x)
    BY DEF NetTypeOK
  <1>4. /\ RepliesFrom(t, d, i) /\ (Has(t, i) => Has(d, i) \/ IsToken(p, i))
        /\ newSlave => slave /\ newMax = max
    OBVIOUS
  <1> HIDE DEF u, c, x, d, t, st, att, sv, mt, slave, newSlave, max, newMax
  <1>5. (Has(x, i) => Has(c, i)) /\ (IsToken(p, i) => Has(c, i))
    BY <1>3, TokensShrink DEF IsTaken
  <1>6. /\ AcksInOrder(u, i) /\ AcksDone(i, u, x, t, st) /\ AcksFrom(u, u, i)
        /\ Stays(st, att, sv, mt, st, att, sv, mt)
    BY <1>2, <1>4, <1>5, AcksSame DEF Flow, AcksDone, Stays
  <1>7. Flow(i, u, x, t, st, att, sv, mt, newSlave, newMax)
    BY <1>2, <1>4, <1>6, FlowRests
  <1>8. Limited(i) /\ newSlave => HeadWithin(version, committing = "released", newMax)
    BY <1>2, <1>4
  <1> QED
    BY <1>1, <1>7, <1>8
       DEF FlowOf, Flow, Limited, AcksRaise, LimitFits, u, x, t, st, att, sv, mt, newSlave, newMax

(* Requests that are handled leave the others.                             *)
LEMMA CommandRequests ==
    ASSUME NetTypeOK, HeadRequests, UNCHANGED up, NEW p, IsTaken(p, cmdQueue, cmdQueue')
    PROVE  HeadRequests' /\ ForHead(p)
  <1>1. cmdQueue \in Seq(CommandPacket)
    BY DEF NetTypeOK
  <1>2. In(cmdQueue') \subseteq In(cmdQueue) /\ p \in In(cmdQueue)
    BY <1>1, InTail DEF IsTaken
  <1> QED
    BY <1>2 DEF HeadRequests, ForHead

(* Slaves that leave take their limits with them, the others keep theirs.  *)
LEMMA RemovedFlow ==
    ASSUME MappingInv, FlowInv, UNCHANGED <<version, committing, instanceVars, up>>,
           NEW p \in CommandPacket, IsTaken(p, cmdQueue, cmdQueue'),
           \A j \in slaves' : j \in slaves /\ slaveMax'[j] = slaveMax[j],
           NEW receivers, NEW r \in DownPacket, Send(receivers, "unicast", <<r>>) \/ UNCHANGED down,
           r.type # "reply", \A i \in Instances : IsToken(r, i) => IsToken(p, i)
    PROVE  FlowInv'
  <1> DEFINE packets == <<r>>
  <1>1. /\ MasterTypeOK /\ InstanceTypeOK /\ NetTypeOK
        /\ HeadRequests /\ \A i \in Instances : FlowOf(i)
    BY DEF MappingInv, FlowInv
  <1>2. packets \in Seq(DownPacket) /\ Len(packets) = 1 /\ packets[1] = r
    OBVIOUS
  <1>3. \A n \in Nodes : \/ down'[n]["unicast"] = down[n]["unicast"]
                         \/ down'[n]["unicast"] = down[n]["unicast"] \o packets
    <2>1. CASE Send(receivers, "unicast", packets)
      <3> HIDE DEF packets
      <3>1. NetTypeOK
        BY <1>1
      <3>2. \A n \in Nodes :
               down'[n]["unicast"] = IF n \in alive /\ n \in receivers
                                     THEN down[n]["unicast"] \o packets
                                     ELSE down[n]["unicast"]
        BY ONLY <2>1, <3>1, SendUnicast
      <3> QED
        BY <3>2
    <2>2. CASE UNCHANGED down
      BY <2>2
    <2> QED
      BY <2>1, <2>2
  <1>4. ASSUME NEW i \in Instances
        PROVE  FlowOf(i)'
    <2> DEFINE d == DownTo(i)
               t == DownTo(i)'
    <2>1. d \in Seq(DownPacket) /\ NodeOf[i] \in Nodes
      BY <1>1, InstanceFields
    <2>2. t = d \/ t = d \o packets
      BY <1>3, <2>1 DEF DownTo
    <2> HIDE DEF d, t
    <2>3. RepliesFrom(t, d, i) /\ (Has(t, i) => Has(d, i) \/ IsToken(p, i))
      <3>1. CASE t = d
        BY <3>1, AcksSame
      <3>2. CASE t = d \o packets
        <4>1. \A k \in 1..Len(packets) : ~IsReply(packets[k], i)
          BY <1>2 DEF IsReply
        <4>2. Has(t, i) => Has(d, i) \/ IsToken(r, i)
          BY <2>1, <3>2, OneMoreToken
        <4> HIDE DEF packets
        <4> QED
          BY <1>2, <2>1, <3>2, <4>1, <4>2, RepliesStay
      <3> QED
        BY <2>2, <3>1, <3>2
    <2>4. i \in slaves' => i \in slaves /\ slaveMax'[i] = slaveMax[i]
      OBVIOUS
    <2>5. FlowOf(i)
      BY <1>1
    <2> QED
      BY <1>1, <2>3, <2>4, <2>5, CommandFlows DEF d, t
  <1> QED
    BY <1>1, <1>4, CommandRequests DEF FlowInv

(* The packets of an answer, and the version its reply tells.              *)
IsAnswerTo(p, i, packets) ==
    packets = <<Packet("success", {i}, VERSION_NONE)>> \o MapData(i, p)
              \o <<Reply("reply", p, MappedVersion(p.version), RepliesUseCache(p))>>

(* All packets are for the instance.                                       *)
LEMMA AnswerReplies ==
    ASSUME MasterTypeOK, InstanceTypeOK, CheckConsistency,
           NEW p \in RequestPacket, NEW i \in Instances, p.insts = {i},
           NEW packets \in Seq(DownPacket),
           IsAnswerTo(p, i, packets)
    PROVE  \A k \in 1..Len(packets) :
              /\ packets[k].insts = {i}
              /\ packets[k].type = "reply" => packets[k].version = MappedVersion(p.version)
  <1> DEFINE success == Packet("success", {i}, VERSION_NONE)
             data == MapData(i, p)
             reply == Reply("reply", p, MappedVersion(p.version), RepliesUseCache(p))
             S == {success, reply} \cup In(data)
             first == <<success>>
             last == <<reply>>
  <1>1. /\ data \in Seq(DownPacket)
        /\ \A k \in 1..Len(data) : data[k].insts = {i} /\ data[k].type \in {"map", "empty"}
    BY DataIsOwn
  <1>2. /\ success.insts = {i} /\ success.type = "success"
        /\ reply.insts = {i} /\ reply.version = MappedVersion(p.version)
    BY DEF Packet, Reply
  <1>3. packets = (first \o data) \o last
    BY DEF IsAnswerTo
  <1> HIDE DEF success, data, reply
  <1>4. In(packets) \subseteq S
    <2>1. first \in Seq(S) /\ last \in Seq(S) /\ In(first) = {success} /\ In(last) = {reply}
      BY DEF In
    <2> DEFINE front == first \o data
    <2>2. \A k \in 1..Len(data) : data[k] \in S
      BY DEF In
    <2> HIDE DEF first, last, S
    <2>3. data \in Seq(S)
      BY <1>1, <2>2
    <2>4. front \in Seq(S) /\ In(front) = In(first) \cup In(data)
      BY <2>1, <2>3, InConcat
    <2>5. packets = front \o last
      BY <1>3
    <2> HIDE DEF front
    <2>6. In(front \o last) = In(front) \cup In(last)
      BY ONLY <2>1, <2>4, InConcat
    <2> QED
      BY <2>1, <2>4, <2>5, <2>6 DEF S
  <1>5. \A y \in S : y.insts = {i} /\ (y.type = "reply" => y.version = MappedVersion(p.version))
    BY <1>1, <1>2 DEF In
  <1>6. \A k \in 1..Len(packets) : packets[k] \in In(packets)
    BY DEF In
  <1> HIDE DEF S
  <1> QED
    BY <1>4, <1>5, <1>6

(* A new slave: the limit addSlave computes is that of the version it is   *)
(* mapped to.                                                              *)
LEMMA AddedLimit ==
    ASSUME MasterTypeOK, InstanceTypeOK, NoOverflow, NEW i \in Instances, AddSlave(i), Limited(i)
    PROVE  slaveMax'[i] = version + MaxVersions[i] /\ MaxVersions[i] \in Nat \ {0}
  <1>1. MaxVersions[i] \in 0..UINT64_MAX /\ UINT64_MAX \in Nat /\ LastVersion \in Nat
    BY MasterAssumption, MappingAssumption
  <1>2. MaxVersions[i] \notin {0, UINT64_MAX} /\ MaxVersions[i] + LastVersion =< UINT64_MAX
    BY DEF Limited, NoOverflow
  <1>3. version \in 1..LastVersion
    BY DEF InstanceTypeOK
  <1> DEFINE sum == MaxVersions[i] + version
  <1>4. sum \in 0..UINT64_MAX /\ sum = version + MaxVersions[i]
    BY <1>1, <1>2, <1>3
  <1>5. slaveMax'[i] = sum % (UINT64_MAX + 1)
    BY <1>2 DEF AddSlave, MasterTypeOK
  <1> HIDE DEF sum
  <1>6. sum % (UINT64_MAX + 1) = sum
    BY <1>1, <1>4
  <1> QED
    BY <1>1, <1>2, <1>4, <1>5, <1>6

(* Every reply in a stream to the instance tells the version.              *)
RepliesAre(t, i, v) == \A r \in 1..Len(t) : IsReply(t[r], i) => t[r].version = v

(* The instance that becomes a slave: no acknowledgement is under way, and *)
(* what it will show is in the reply.                                      *)
LEMMA AnsweredFlow ==
    ASSUME NEW i, NEW u, AcksInOrder(u, i), NoAcks(u, i), NEW x, NEW d, NEW t, NEW st, NEW att,
           NEW sv, NEW mt, NEW slave, NEW max, NEW head,
           st \in {"mapping", "unmapped"}, RepliesAre(t, i, head),
           Limited(i) => max =< head + MaxVersions[i]
    PROVE  Flow(i, u, x, t, st, att, sv, mt, slave, max)
  <1>1. AcksDone(i, u, x, t, st)
    BY DEF AcksDone
  <1>2. AcksRaise(i, u, st, sv, slave, max)
    BY DEF AcksRaise, NoAcks
  <1>3. Limited(i) => LimitFits(i, t, st, att, sv, mt, max)
    BY DEF LimitFits, RepliesAre
  <1> QED
    BY <1>1, <1>2, <1>3 DEF Flow

(* _cmdMapObject of a new slave.                                           *)
LEMMA AnswerFlow ==
    ASSUME NoOverflow, MappingInv, QueueInv, FlowInv,
           UNCHANGED <<instanceVars, alive, up>>,
           NEW p \in RequestPacket, IsTaken(p, cmdQueue, cmdQueue'),
           NEW i \in Instances, p.insts = {i}, AddSlave(i),
           NEW packets \in Seq(DownPacket),
           IsAnswerTo(p, i, packets),
           Send({NodeOf[i]}, "unicast", packets)
    PROVE  FlowInv'
  <1>1. /\ MasterTypeOK /\ CheckConsistency /\ InstanceTypeOK /\ NetTypeOK
        /\ HeadRequests /\ \A j \in Instances : FlowOf(j)
        /\ OneStream /\ OwnPackets /\ \A j \in Instances : InstanceInv(j)
    BY DEF MappingInv, MasterInv, FlowInv, QueueInv
  <1>2. /\ UNCHANGED <<version, committing>> /\ slaves' = slaves \cup {i}
        /\ \A j \in Instances \ {i} : slaveMax'[j] = slaveMax[j]
    BY <1>1 DEF AddSlave, MasterTypeOK
  <1>3. HeadRequests' /\ ForHead(p) /\ cmdQueue \in Seq(CommandPacket)
    BY <1>1, CommandRequests DEF NetTypeOK
  <1>4. p \in In(cmdQueue) /\ Requested(p) /\ p.type = "mapObject" /\ p.version \in Int
    <2>1. p \in In(cmdQueue)
      BY <1>3, InTail DEF IsTaken
    <2> QED
      BY <1>1, <2>1 DEF OwnPackets, RequestPacket
  <1>5. MappedVersion(p.version) = version
    <2>1. p.version =< version /\ (~Buffered \/ p.version = VERSION_NONE)
      BY <1>3, <1>4 DEF ForHead, Requested
    <2> QED
      BY <1>1, <1>4, <2>1, MappedIsCommitted
  <1>6. \A k \in 1..Len(packets) :
           packets[k].insts = {i} /\ (packets[k].type = "reply" => packets[k].version = version)
    BY <1>1, <1>5, AnswerReplies
  <1>7. \A n \in Nodes :
           down'[n]["unicast"] = IF n \in alive /\ n \in {NodeOf[i]}
                                 THEN down[n]["unicast"] \o packets ELSE down[n]["unicast"]
    BY ONLY <1>1, Send({NodeOf[i]}, "unicast", packets), SendUnicast
  <1>8. ASSUME NEW j \in Instances, j # i
        PROVE  FlowOf(j)'
    <2> DEFINE d == DownTo(j)
               t == DownTo(j)'
    <2>1. d \in Seq(DownPacket) /\ NodeOf[j] \in Nodes
      BY <1>1, InstanceFields
    <2>2. t = d \/ t = d \o packets
      BY <1>7, <2>1 DEF DownTo
    <2>3. \A k \in 1..Len(packets) : ~IsToken(packets[k], j)
      BY <1>6, <1>8 DEF IsToken
    <2> HIDE DEF d, t
    <2>4. RepliesFrom(t, d, j) /\ (Has(t, j) => Has(d, j))
      BY <2>1, <2>2, <2>3, FlowQuiet, AcksSame
    <2>5. FlowOf(j) /\ (j \in slaves' => j \in slaves /\ slaveMax'[j] = slaveMax[j])
      BY <1>1, <1>2, <1>8
    <2> QED
      BY <1>1, <1>2, <2>4, <2>5, CommandFlows DEF d, t
  <1>9. FlowOf(i)'
    <2> DEFINE u == up[NodeOf[i]]
               c == cmdQueue
               x == cmdQueue'
               d == DownTo(i)
               t == DownTo(i)'
               st == state[i]
               att == i \in attached
    <2>1. d \in Seq(DownPacket) /\ NodeOf[i] \in Nodes
      BY <1>1, InstanceFields
    <2>2. IsToken(p, i) /\ IsTaken(p, c, x) /\ c \in Seq(CommandPacket)
      BY <1>3, <1>4 DEF IsToken
    <2>3. Has(c, i)
      BY <2>2, TokensShrink DEF IsTaken
    <2>4. AcksInOrder(u, i) /\ NoAcks(u, i)
      BY <1>1, <2>3 DEF FlowOf, Flow, AcksDone
    <2>5. /\ Live(i) => Tokens(i, u, c, d, st, att)
          /\ ~Live(i) => st = "unmapped"
      BY <1>1 DEF InstanceInv, TokenInv, RestsInv
    <2>6. Live(i) => ~Has(d, i) /\ st = "mapping"
      BY <1>4, <2>2, <2>5, TokensTaken
    <2>7. (Live(i) => t = d \o packets) /\ (~Live(i) => t = <<>>)
      BY <1>1, <1>7, <2>1 DEF DownTo, Live, OneStream
    <2> HIDE DEF u, c, x, d, t, st, att
    <2>8. RepliesAre(t, i, version)
      <3>1. CASE Live(i)
        <4>1. /\ Len(d) \in Nat /\ Len(t) \in Nat
              /\ \A k \in 1..Len(d) : t[k] = d[k]
              /\ \A k \in Len(d) + 1..Len(t) :
                    k - Len(d) \in 1..Len(packets) /\ t[k] = packets[k - Len(d)]
          BY <2>1, <2>7, <3>1, Grows
        <4>2. \A k \in 1..Len(t) : k \in 1..Len(d) \/ k \in Len(d) + 1..Len(t)
          BY <4>1
        <4>3. \A k \in 1..Len(d) : ~IsReply(d[k], i)
          BY <2>6, <3>1 DEF Has, IsReply, Answers, IsToken
        <4>4. \A k \in 1..Len(packets) : IsReply(packets[k], i) => packets[k].version = version
          BY <1>6 DEF IsReply
        <4> QED
          BY <4>1, <4>2, <4>3, <4>4 DEF RepliesAre
      <3>2. CASE ~Live(i)
        <4>1. 1..Len(t) = {}
          BY <2>7, <3>2
        <4> QED
          BY <4>1 DEF RepliesAre
      <3> QED
        BY <3>1, <3>2
    <2>9. Limited(i) => /\ slaveMax'[i] = version + MaxVersions[i]
                        /\ MaxVersions[i] \in Nat \ {0} /\ version \in Int
      BY <1>1, AddedLimit DEF InstanceTypeOK
    <2>10. Limited(i) => slaveMax'[i] =< version + MaxVersions[i]
                         /\ HeadWithin(version, committing = "released", slaveMax'[i])
      BY <2>9 DEF HeadWithin
    <2>11. st \in {"mapping", "unmapped"}
      BY <2>5, <2>6
    <2>12. Flow(i, u, x, t, st, att, slaveVersion[i], mapTo[i], i \in slaves', slaveMax'[i])
      <3> DEFINE sv == slaveVersion[i]
                 mt == mapTo[i]
                 slave == i \in slaves'
                 max == slaveMax'[i]
      <3>1. Limited(i) => max =< version + MaxVersions[i]
        BY <2>10
      <3> HIDE DEF sv, mt, slave, max
      <3>2. Flow(i, u, x, t, st, att, sv, mt, slave, max)
        BY <2>4, <2>8, <2>11, <3>1, AnsweredFlow
      <3> QED
        BY <3>2 DEF sv, mt, slave, max
    <2>13. /\ state'[i] = state[i] /\ mapTo'[i] = mapTo[i] /\ slaveVersion'[i] = slaveVersion[i]
           /\ attached' = attached /\ up' = up
      BY DEF instanceVars
    <2> QED
      BY <1>2, <2>10, <2>12, <2>13
         DEF FlowOf, Flow, Limited, AcksRaise, LimitFits, u, x, t, st, att
  <1> QED
    BY <1>3, <1>8, <1>9 DEF FlowInv

(* The command thread of the master.                                       *)
LEMMA MasterCommandFlow ==
    ASSUME ~UseMulticast, NoOverflow, MappingInv, QueueInv, FlowInv, MasterCommand
    PROVE  FlowInv'
  <1> DEFINE p == Head(cmdQueue)
             i == CHOOSE j \in p.insts : TRUE
             answer == <<Packet("success", {i}, VERSION_NONE)>> \o MapData(i, p)
                       \o <<Reply("reply", p, MappedVersion(p.version), RepliesUseCache(p))>>
             failed == Reply("failed", p, p.version, FALSE)
             detach == Packet("detach", p.insts, VERSION_NONE)
  <1>1. p \in CommandPacket /\ IsTaken(p, cmdQueue, cmdQueue')
    BY FirstAndRest DEF MappingInv, NetTypeOK, MasterCommand, IsTaken
  <1>2. UNCHANGED <<instanceVars, alive, up>>
    BY DEF MasterCommand, slaveVars
  <1>3. /\ MasterTypeOK /\ CheckConsistency /\ InstanceTypeOK /\ NetTypeOK
        /\ slaves \subseteq Instances /\ slaveMax \in [Instances -> Int] /\ 0 \in Version
    BY MappingAssumption DEF MappingInv, MasterInv, MasterTypeOK, Version
  <1>4. CASE CmdMapObject(p)
    <2>1. p \in RequestPacket
      BY <1>1, <1>4 DEF CmdMapObject, CommandPacket
    <2>2. i \in Instances /\ p.insts = {i}
      BY <2>1, ChosenInstance DEF RequestPacket
    <2>3. \/ /\ UNCHANGED <<version, committing, slaves, slaveMax>>
             /\ Send({NodeOf[i]}, "unicast", <<failed>>)
          \/ AddSlave(i) /\ Send({NodeOf[i]}, "unicast", answer)
      BY <1>4 DEF CmdMapObject, MapLink, masterVars
    <2>4. failed \in DownPacket /\ failed.type = "failed" /\ failed.insts = p.insts
      BY <2>1 DEF Reply, DownPacket, ReplyPacket, RequestPacket
    <2>5. p.type = "mapObject"
      BY <1>4 DEF CmdMapObject
    <2>6. Sendable(answer, "unicast")
      BY <1>3, <2>1, <2>2, AnswerSendable DEF MapLink
    <2> HIDE DEF p, i, failed
    <2>7. CASE UNCHANGED <<version, committing, slaves, slaveMax>>
               /\ Send({NodeOf[i]}, "unicast", <<failed>>)
      <3>1. \A j \in Instances : IsToken(failed, j) => IsToken(p, j)
        BY <2>4, <2>5 DEF IsToken
      <3>2. \A j \in slaves' : j \in slaves /\ slaveMax'[j] = slaveMax[j]
        BY <2>7
      <3> DEFINE receivers == {NodeOf[i]}
      <3>3. Send(receivers, "unicast", <<failed>>) /\ UNCHANGED <<version, committing>>
        BY <2>7
      <3> HIDE DEF receivers
      <3> QED
        BY <1>1, <1>2, <2>4, <3>1, <3>2, <3>3, RemovedFlow
    <2>8. CASE AddSlave(i) /\ Send({NodeOf[i]}, "unicast", answer)
      <3> DEFINE packets == answer
      <3>1. Send({NodeOf[i]}, "unicast", packets) /\ IsAnswerTo(p, i, packets)
            /\ packets \in Seq(DownPacket)
        BY <2>6, <2>8 DEF IsAnswerTo, Sendable
      <3> HIDE DEF packets
      <3> QED
        BY <1>1, <1>2, <2>1, <2>2, <2>8, <3>1, AnswerFlow
    <2> QED
      BY <2>3, <2>7, <2>8
  <1>5. \A gone : RemoveSlaves(gone) \/ UNCHANGED masterVars =>
           /\ UNCHANGED <<version, committing>>
           /\ \A j \in slaves' : j \in slaves /\ slaveMax'[j] = slaveMax[j]
    BY <1>3 DEF RemoveSlaves, masterVars
  <1>6. detach \in DownPacket /\ detach.type = "detach" /\ detach.insts = p.insts
    BY <1>1, <1>3 DEF Packet, DownPacket, PlainPacket, CommandPacket, RequestPacket, Single
  <1>7. CASE CmdUnsubscribeObject(p)
    <2>1. /\ RemoveSlaves(p.insts) \/ UNCHANGED masterVars
          /\ p.type = "unsubscribe"
          /\ Send({NodeOf[j] : j \in p.insts}, "unicast", <<detach>>)
      BY <1>7 DEF CmdUnsubscribeObject
    <2>2. /\ UNCHANGED <<version, committing>>
          /\ \A j \in slaves' : j \in slaves /\ slaveMax'[j] = slaveMax[j]
      BY <1>5, <2>1
    <2> DEFINE receivers == {NodeOf[j] : j \in p.insts}
    <2>3. Send(receivers, "unicast", <<detach>>)
      BY <2>1
    <2> HIDE DEF p, detach, receivers
    <2>4. \A j \in Instances : IsToken(detach, j) => IsToken(p, j)
      BY <1>6, <2>1 DEF IsToken
    <2> QED
      BY <1>1, <1>2, <1>6, <2>2, <2>3, <2>4, RemovedFlow
  <1>8. CASE CmdRemoveNode(p)
    <2>1. (RemoveSlaves(p.insts) \/ UNCHANGED masterVars) /\ UNCHANGED down
      BY <1>8 DEF CmdRemoveNode
    <2>2. /\ UNCHANGED <<version, committing>>
          /\ \A j \in slaves' : j \in slaves /\ slaveMax'[j] = slaveMax[j]
      BY <1>5, <2>1
    <2> DEFINE success == Packet("success", {}, VERSION_NONE)
               receivers == {}
    <2>3. success \in DownPacket /\ success.type = "success"
      BY <1>3 DEF Packet, DownPacket, PlainPacket
    <2> HIDE DEF p, success, receivers
    <2>4. \A j \in Instances : IsToken(success, j) => IsToken(p, j)
      BY <2>3 DEF IsToken
    <2>5. Send(receivers, "unicast", <<success>>) \/ UNCHANGED down
      BY <2>1
    <2> QED
      BY <1>1, <1>2, <2>2, <2>3, <2>4, <2>5, RemovedFlow
  <1> QED
    BY <1>4, <1>7, <1>8 DEF MasterCommand

(* What a stream to a node has left when a packet was taken.               *)
LEMMA RepliesShrink ==
    ASSUME NEW d \in Seq(DownPacket), NEW p, NEW t, IsTaken(p, d, t), NEW i
    PROVE  /\ RepliesFrom(t, d, i)
           /\ Has(t, i) => Has(d, i)
           /\ IsToken(p, i) => Has(d, i)
           /\ 1 \in 1..Len(d) /\ d[1] = p
  <1>1. /\ Len(d) \in Nat \ {0} /\ Len(t) = Len(d) - 1 /\ p = d[1]
        /\ \A k \in 1..Len(d) - 1 : t[k] = d[k + 1]
    BY RestOfStream DEF IsTaken
  <1>2. \A k \in 1..Len(t) : k + 1 \in 1..Len(d) /\ t[k] = d[k + 1]
    BY <1>1
  <1>3. 1 \in 1..Len(d) /\ d[1] = p
    BY <1>1
  <1> QED
    BY <1>2, <1>3 DEF RepliesFrom, Has

(* A packet that tells an instance nothing about the version it is mapped  *)
(* to, or one that ends its mapping.                                       *)
LEMMA FlowTaken ==
    ASSUME NEW d \in Seq(DownPacket), NEW p, NEW t, IsTaken(p, d, t), NEW i,
           NEW u, NEW c, NEW st, NEW att, NEW sv, NEW mt, NEW slave, NEW max,
           Flow(i, u, c, d, st, att, sv, mt, slave, max),
           NEW newSt, NEW newAtt, NEW newSv, NEW newMt,
           Stays(st, att, sv, mt, newSt, newAtt, newSv, newMt),
           newSt = st \/ IsToken(p, i)
    PROVE  Flow(i, u, c, t, newSt, newAtt, newSv, newMt, slave, max)
  <1>1. RepliesFrom(t, d, i) /\ (Has(t, i) => Has(d, i)) /\ (IsToken(p, i) => Has(d, i))
    BY RepliesShrink
  <1>2. AcksInOrder(u, i) /\ AcksFrom(u, u, i) /\ AcksDone(i, u, c, t, newSt)
    BY <1>1, AcksSame DEF Flow, AcksDone
  <1> QED
    BY <1>1, <1>2, FlowRests

(* The reply: the limit fits the version the instance is mapped to.        *)
LEMMA FlowReplied ==
    ASSUME NEW d \in Seq(DownPacket), NEW p, NEW t, IsTaken(p, d, t), NEW i, IsReply(p, i),
           NEW u, NEW c, NEW st, NEW att, NEW sv, NEW mt, NEW slave, NEW max,
           Flow(i, u, c, d, st, att, sv, mt, slave, max)
    PROVE  Flow(i, u, c, t, "replied", att, sv, p.version, slave, max)
  <1>1. /\ RepliesFrom(t, d, i) /\ (Has(t, i) => Has(d, i)) /\ Has(d, i)
        /\ 1 \in 1..Len(d) /\ d[1] = p
    BY RepliesShrink DEF IsReply, Answers, IsToken
  <1>2. NoAcks(u, i) /\ AcksInOrder(u, i)
    BY <1>1 DEF Flow, AcksDone
  <1>3. AcksDone(i, u, c, t, "replied") /\ AcksRaise(i, u, "replied", sv, slave, max)
    BY <1>2 DEF AcksDone, AcksRaise, NoAcks
  <1>4. ASSUME LimitFits(i, d, st, att, sv, mt, max)
        PROVE  LimitFits(i, t, "replied", att, sv, p.version, max)
    <2>1. \A r \in 1..Len(d) : IsReply(d[r], i) => max =< d[r].version + MaxVersions[i]
      BY <1>4 DEF LimitFits
    <2>2. max =< p.version + MaxVersions[i]
      BY <1>1, <2>1
    <2>3. ASSUME NEW r \in 1..Len(t), IsReply(t[r], i)
          PROVE  max =< t[r].version + MaxVersions[i]
      <3>1. PICK j \in 1..Len(d) : IsReply(d[j], i) /\ d[j].version = t[r].version
        BY <1>1, <2>3 DEF RepliesFrom
      <3> QED
        BY <2>1, <3>1
    <2> QED
      BY <2>2, <2>3 DEF LimitFits
  <1> QED
    BY <1>2, <1>3, <1>4 DEF Flow

(* An instance whose node receives a packet.                               *)
LEMMA ReceiveFlowOwn ==
    ASSUME MappingInv, QueueInv, NEW i \in Instances, Live(i), FlowOf(i),
           Receive(NodeOf[i], "unicast")
    PROVE  FlowOf(i)'
  <1> DEFINE n == NodeOf[i]
             u == up[n]
             c == cmdQueue
             d == DownTo(i)
             p == Head(d)
             t == DownTo(i)'
             st == state[i]
             att == i \in attached
             sv == slaveVersion[i]
             mt == mapTo[i]
             slave == i \in slaves
             max == slaveMax[i]
             newSt == state'[i]
             newAtt == i \in attached'
             newSv == slaveVersion'[i]
             newMt == mapTo'[i]
  <1>1. InstanceTypeOK /\ NetTypeOK /\ InstanceInv(i)
    BY DEF MappingInv, QueueInv
  <1>2. d \in Seq(DownPacket) /\ n \in Nodes /\ "unicast" \in Links
    BY <1>1, InstanceFields DEF Links
  <1>3. IsTaken(p, d, t)
    <2>1. d # <<>> /\ down' = [down EXCEPT ![n]["unicast"] = Tail(@)]
      BY DEF Receive, DownTo
    <2>2. down \in [Nodes -> [Links -> Seq(DownPacket)]]
      BY <1>1 DEF NetTypeOK
    <2>3. t = Tail(d)
      BY <1>2, <2>1, <2>2 DEF DownTo
    <2> QED
      BY <2>1, <2>3 DEF IsTaken
  <1>4. p \in DownPacket /\ p = Head(down[n]["unicast"])
    BY <1>2, <1>3, FirstAndRest DEF IsTaken, DownTo
  <1>5. UNCHANGED <<version, up, cmdQueue, slaves, slaveMax, committing>>
    BY DEF Receive, masterVars
  <1>6. Tokens(i, u, c, d, st, att)
    BY <1>1 DEF InstanceInv, TokenInv
  <1>7. /\ Flow(i, u, c, d, st, att, sv, mt, slave, max)
        /\ Limited(i) /\ slave => HeadWithin(version, committing = "released", max)
    BY DEF FlowOf
  <1>8. /\ i \notin p.insts => newSt = st /\ newAtt = att /\ newSv = sv /\ newMt = mt
        /\ i \in p.insts /\ p.type = "success" => newSt = st
        /\ i \in p.insts /\ p.type \in {"reply", "failed"} =>
              newSt = "replied" /\ newMt = p.version /\ newSv = sv /\ newAtt = att
        /\ i \in p.insts /\ p.type \in {"map", "empty", "commit"} =>
              newSt = st /\ newAtt = att /\ newSv = sv /\ newMt = mt
        /\ i \in p.insts /\ p.type = "detach" => newSt = "unmapped"
        /\ i \in p.insts /\ p.type = "unmap" =>
              ~newAtt /\ newSt = st /\ newSv = sv /\ newMt = mt
    BY <1>2, <1>4, ReceiveEffect DEF Same, Attends
  <1>9. p.type \in {"success", "reply", "failed", "map", "empty", "commit", "detach", "unmap"}
    BY <1>4 DEF DownPacket, PlainPacket, DataPacket, ReplyPacket
  <1> HIDE DEF n, u, c, d, p, t, st, att, sv, mt, slave, max, newSt, newAtt, newSv, newMt
  <1>10. 1 \in 1..Len(d) /\ d[1] = p
    BY <1>2, <1>3, RepliesShrink
  <1>11. Awaited(d, i, st, att) /\ Replied(d, i)
    BY <1>6 DEF Tokens
  <1>12. Flow(i, u, c, t, newSt, newAtt, newSv, newMt, slave, max)
    <2>1. CASE i \notin p.insts \/ p.type \in {"map", "empty", "commit", "unmap"}
      <3>1. Stays(st, att, sv, mt, newSt, newAtt, newSv, newMt) /\ newSt = st
        BY <1>8, <1>9, <2>1 DEF Stays
      <3> QED
        BY <1>2, <1>3, <1>7, <3>1, FlowTaken
    <2>2. CASE i \in p.insts /\ p.type = "success"
      <3>1. Begins(d[1], i)
        BY <1>10, <2>2 DEF Begins
      <3>2. PICK r \in 1 + 1..Len(d) : Answers(d[r], i) /\ d[r].type = "reply"
        BY <1>10, <1>11, <3>1 DEF Replied
      <3>3. r \in 1..Len(d)
        OBVIOUS
      <3>4. st = "mapping"
        BY <1>11, <3>2, <3>3 DEF Awaited, Answers, IsToken
      <3>5. Stays(st, att, sv, mt, newSt, newAtt, newSv, newMt) /\ newSt = st
        BY <1>8, <2>2, <3>4 DEF Stays
      <3> QED
        BY <1>2, <1>3, <1>7, <3>5, FlowTaken
    <2>3. CASE i \in p.insts /\ p.type = "reply"
      <3>1. IsReply(p, i)
        BY <2>3 DEF IsReply, Answers
      <3>2. Flow(i, u, c, t, "replied", att, sv, p.version, slave, max)
        BY <1>2, <1>3, <1>7, <3>1, FlowReplied
      <3> QED
        BY <1>8, <2>3, <3>2
    <2>4. CASE i \in p.insts /\ p.type = "failed"
      <3>1. IsToken(p, i)
        BY <2>4 DEF IsToken
      <3>2. ~att
        BY <1>10, <1>11, <2>4, <3>1 DEF Awaited
      <3>3. Stays(st, att, sv, mt, newSt, newAtt, newSv, newMt)
        BY <1>8, <2>4, <3>2 DEF Stays
      <3> QED
        BY <1>2, <1>3, <1>7, <3>1, <3>3, FlowTaken
    <2>5. CASE i \in p.insts /\ p.type = "detach"
      <3>1. IsToken(p, i)
        BY <2>5 DEF IsToken
      <3>2. Stays(st, att, sv, mt, newSt, newAtt, newSv, newMt)
        BY <1>8, <2>5 DEF Stays
      <3> QED
        BY <1>2, <1>3, <1>7, <3>1, <3>2, FlowTaken
    <2> QED
      BY <1>9, <2>1, <2>2, <2>3, <2>4, <2>5
  <1>13. Flow(i, up'[NodeOf[i]], cmdQueue', DownTo(i)', state'[i], i \in attached',
              slaveVersion'[i], mapTo'[i], i \in slaves', slaveMax'[i])
    BY <1>5, <1>12 DEF n, u, c, t, slave, max, newSt, newAtt, newSv, newMt
  <1> QED
    BY <1>5, <1>7, <1>13 DEF FlowOf, Flow, Limited, AcksRaise, LimitFits, slave, max

(* An instance that does not change, while its node may send a packet that *)
(* is no acknowledgement of it.                                            *)
LEMMA FlowBeside ==
    ASSUME InstanceTypeOK, NetTypeOK, NEW j \in Instances, FlowOf(j),
           UNCHANGED <<version, committing, slaves, slaveMax, cmdQueue>>,
           state'[j] = state[j], mapTo'[j] = mapTo[j], slaveVersion'[j] = slaveVersion[j],
           (j \in attached') = (j \in attached), DownTo(j)' = DownTo(j),
           \/ up'[NodeOf[j]] = up[NodeOf[j]]
           \/ \E p \in UpPacket : up'[NodeOf[j]] = up[NodeOf[j]] \o <<p>> /\ ~IsAck(p, j)
    PROVE  FlowOf(j)'
  <1> DEFINE u == up[NodeOf[j]]
             y == up'[NodeOf[j]]
             c == cmdQueue
             d == DownTo(j)
             st == state[j]
             att == j \in attached
             sv == slaveVersion[j]
             mt == mapTo[j]
             slave == j \in slaves
             max == slaveMax[j]
  <1>1. /\ Flow(j, u, c, d, st, att, sv, mt, slave, max)
        /\ Limited(j) /\ slave => HeadWithin(version, committing = "released", max)
    BY DEF FlowOf
  <1>2. u \in Seq(UpPacket)
    BY InstanceFields
  <1>3. y = u \/ \E p \in UpPacket : y = u \o <<p>> /\ ~IsAck(p, j)
    OBVIOUS
  <1>4. Flow(j, up'[NodeOf[j]], cmdQueue', DownTo(j)', state'[j], j \in attached',
             slaveVersion'[j], mapTo'[j], j \in slaves', slaveMax'[j])
        <=> Flow(j, y, c, d, st, att, sv, mt, slave, max)
    OBVIOUS
  <1> HIDE DEF u, y, c, d, st, att, sv, mt, slave, max
  <1>5. Stays(st, att, sv, mt, st, att, sv, mt) /\ RepliesFrom(d, d, j)
    BY AcksSame DEF Stays
  <1>6. ASSUME y = u
        PROVE  Flow(j, y, c, d, st, att, sv, mt, slave, max)
    BY <1>1, <1>6
  <1>7. ASSUME NEW p \in UpPacket, y = u \o <<p>>, ~IsAck(p, j)
        PROVE  Flow(j, y, c, d, st, att, sv, mt, slave, max)
    <2>1. OneMore(y, u, p)
      BY <1>2, <1>7, SendsOne
    <2>2. AcksInOrder(y, j) /\ AcksFrom(y, u, j) /\ (NoAcks(u, j) => NoAcks(y, j))
      BY <1>1, <1>7, <2>1, AcksPassed DEF Flow
    <2>3. AcksDone(j, y, c, d, st)
      BY <1>1, <2>2 DEF Flow, AcksDone
    <2> QED
      BY <1>1, <1>5, <2>2, <2>3, FlowRests
  <1>8. Flow(j, y, c, d, st, att, sv, mt, slave, max)
    BY <1>3, <1>6, <1>7
  <1>9. Flow(j, up'[NodeOf[j]], cmdQueue', DownTo(j)', state'[j], j \in attached',
             slaveVersion'[j], mapTo'[j], j \in slaves', slaveMax'[j])
    BY <1>4, <1>8
  <1> QED
    BY <1>1, <1>9 DEF FlowOf, Flow, Limited, AcksRaise, LimitFits, slave, max

(* The receiver thread of a node.                                          *)
LEMMA ReceiveFlow ==
    ASSUME MappingInv, QueueInv, FlowInv, NEW n \in Nodes, NEW link \in Links, Receive(n, link)
    PROVE  FlowInv'
  <1>1. /\ InstanceTypeOK /\ NetTypeOK /\ OneStream
        /\ HeadRequests /\ \A i \in Instances : FlowOf(i)
    BY DEF MappingInv, QueueInv, FlowInv
  <1>2. link = "unicast" /\ n \in alive
    BY <1>1 DEF Receive, OneStream, Links
  <1>3. UNCHANGED <<version, committing, slaves, slaveMax, up, cmdQueue>>
    BY DEF Receive, masterVars
  <1>4. down' = [down EXCEPT ![n]["unicast"] = Tail(@)]
        /\ down \in [Nodes -> [Links -> Seq(DownPacket)]]
    BY <1>1, <1>2 DEF Receive, NetTypeOK
  <1>5. ASSUME NEW i \in Instances
        PROVE  FlowOf(i)'
    <2>1. NodeOf[i] \in Nodes /\ FlowOf(i)
      BY <1>1, MappingAssumption
    <2>2. CASE NodeOf[i] = n
      BY <1>2, <2>1, <2>2, ReceiveFlowOwn DEF Live
    <2>3. CASE NodeOf[i] # n
      <3>1. Same(i) /\ Attends(i)
        BY <2>3, ReceiveOthers
      <3>2. DownTo(i)' = DownTo(i) /\ up'[NodeOf[i]] = up[NodeOf[i]]
        BY <1>3, <1>4, <2>1, <2>3 DEF DownTo
      <3> QED
        BY <1>1, <1>3, <2>1, <3>1, <3>2, FlowBeside DEF Same, Attends
    <2> QED
      BY <2>2, <2>3
  <1> QED
    BY <1>1, <1>3, <1>5, HeadRequestsStay DEF FlowInv

(* A node sends a packet that is no map request, or one for the head.      *)
LEMMA HeadRequestsSent ==
    ASSUME NetTypeOK, HeadRequests, cmdQueue' = cmdQueue,
           UNCHANGED up \/ \E n \in Nodes, p \in UpPacket : SendUp(n, p) /\ ForHead(p)
    PROVE  HeadRequests'
  <1>1. CASE UNCHANGED up
    BY <1>1, HeadRequestsStay
  <1>2. ASSUME NEW n \in Nodes, NEW p \in UpPacket, SendUp(n, p), ForHead(p)
        PROVE  HeadRequests'
    <2>1. up \in [Nodes -> Seq(UpPacket)] /\ up' = [up EXCEPT ![n] = Append(up[n], p)]
      BY <1>2 DEF NetTypeOK, SendUp
    <2>2. In(Append(up[n], p)) = In(up[n]) \cup {p}
      BY <2>1, InAppend
    <2>3. \A m \in Nodes : \A x \in In(up'[m]) : x \in In(up[m]) \/ x = p
      BY <2>1, <2>2
    <2> QED
      BY <1>2, <2>3 DEF HeadRequests, ForHead
  <1> QED
    BY <1>1, <1>2

(* A node is lost: its instances are unmapped, and the acknowledgements it *)
(* has sent are still handled.                                             *)
LEMMA NodeLostFlow ==
    ASSUME MappingInv, QueueInv, FlowInv, NEW m \in Nodes, NodeLost(m)
    PROVE  FlowInv'
  <1> DEFINE p == Packet("removeNode", On(m), VERSION_NONE)
  <1>1. /\ InstanceTypeOK /\ NetTypeOK
        /\ HeadRequests /\ \A i \in Instances : FlowOf(i)
    BY DEF MappingInv, FlowInv
  <1>2. UNCHANGED <<version, committing, slaves, slaveMax, cmdQueue>> /\ SendUp(m, p)
    BY DEF NodeLost, masterVars
  <1>3. /\ down \in [Nodes -> [Links -> Seq(DownPacket)]] /\ up \in [Nodes -> Seq(UpPacket)]
    BY <1>1 DEF NetTypeOK
  <1>4. p \in UpPacket /\ p.type = "removeNode"
    BY DEF Packet, UpPacket, CommandPacket, On
  <1>5. \A n \in Nodes :
           /\ down'[n] = IF n = m THEN [l \in Links |-> <<>>] ELSE down[n]
           /\ n # m => up'[n] = up[n]
    BY <1>2, <1>3 DEF NodeLost, SendUp
  <1> HIDE DEF p
  <1>6. up[m] \in Seq(UpPacket) /\ up'[m] = up[m] \o <<p>>
    BY <1>1, <1>2, <1>4, SentUp
  <1>7. HeadRequests'
    BY <1>1, <1>2, <1>4, HeadRequestsSent DEF ForHead
  <1>8. ASSUME NEW i \in Instances
        PROVE  FlowOf(i)'
    <2>1. NodeOf[i] \in Nodes /\ FlowOf(i)
      BY <1>1, MappingAssumption
    <2>2. CASE NodeOf[i] = m
      <3> DEFINE u == up[m]
                 y == up'[m]
                 c == cmdQueue
                 d == DownTo(i)
                 t == DownTo(i)'
                 st == state[i]
                 att == i \in attached
                 sv == slaveVersion[i]
                 mt == mapTo[i]
                 slave == i \in slaves
                 max == slaveMax[i]
                 newSt == state'[i]
                 newAtt == i \in attached'
                 newSv == slaveVersion'[i]
                 newMt == mapTo'[i]
      <3>1. newSt = "unmapped"
        BY <2>2 DEF NodeLost, Forget, On
      <3>2. Len(t) = 0
        BY <1>5, <2>1, <2>2 DEF DownTo, Links
      <3>3. /\ Flow(i, u, c, d, st, att, sv, mt, slave, max)
            /\ Limited(i) /\ slave => HeadWithin(version, committing = "released", max)
        BY <2>1, <2>2 DEF FlowOf
      <3>4. OneMore(y, u, p) /\ ~IsAck(p, i)
        BY <1>4, <1>6, SendsOne DEF IsAck
      <3> HIDE DEF u, y, c, d, t, st, att, sv, mt, slave, max, newSt, newAtt, newSv, newMt
      <3>5. AcksInOrder(y, i) /\ AcksFrom(y, u, i) /\ (NoAcks(u, i) => NoAcks(y, i))
        BY <3>3, <3>4, AcksPassed DEF Flow
      <3>6. RepliesFrom(t, d, i) /\ ~Has(t, i)
        BY <3>2 DEF RepliesFrom, Has
      <3>7. AcksDone(i, y, c, t, newSt) /\ Stays(st, att, sv, mt, newSt, newAtt, newSv, newMt)
        BY <3>1, <3>3, <3>5, <3>6 DEF Flow, AcksDone, Stays
      <3>8. Flow(i, y, c, t, newSt, newAtt, newSv, newMt, slave, max)
        BY <3>3, <3>5, <3>6, <3>7, FlowRests
      <3>9. Flow(i, up'[NodeOf[i]], cmdQueue', DownTo(i)', state'[i], i \in attached',
                 slaveVersion'[i], mapTo'[i], i \in slaves', slaveMax'[i])
        BY <1>2, <2>2, <3>8 DEF y, c, t, slave, max, newSt, newAtt, newSv, newMt
      <3> QED
        BY <1>2, <3>3, <3>9 DEF FlowOf, Flow, Limited, AcksRaise, LimitFits, slave, max
    <2>3. CASE NodeOf[i] # m
      <3>1. /\ state'[i] = state[i] /\ mapTo'[i] = mapTo[i]
            /\ slaveVersion'[i] = slaveVersion[i] /\ (i \in attached') = (i \in attached)
        BY <2>3 DEF NodeLost, Forget, On
      <3>2. up'[NodeOf[i]] = up[NodeOf[i]] /\ DownTo(i)' = DownTo(i)
        BY <1>5, <2>1, <2>3 DEF DownTo
      <3> QED
        BY <1>1, <1>2, <2>1, <3>1, <3>2, FlowBeside
    <2> QED
      BY <2>2, <2>3
  <1> QED
    BY <1>7, <1>8 DEF FlowInv

(* What every step of an application leaves alone, and what it sends.      *)
OwnFlow(i) ==
    /\ UNCHANGED <<version, committing, slaves, slaveMax, cmdQueue, down, attached>>
    /\ \A j \in Instances \ {i} :
          state'[j] = state[j] /\ mapTo'[j] = mapTo[j] /\ slaveVersion'[j] = slaveVersion[j]
    /\ \/ UNCHANGED up
       \/ \E p \in UpPacket : SendUp(NodeOf[i], p) /\ p.insts = {i} /\ ForHead(p)

(* A step of the application of instance i keeps the invariant if it keeps *)
(* the part of it that is about the instance.                              *)
LEMMA OwnStepFlow ==
    ASSUME MappingInv, FlowInv, NEW i \in Instances, OwnFlow(i),
           Flow(i, up'[NodeOf[i]], cmdQueue, DownTo(i), state'[i], i \in attached,
                slaveVersion'[i], mapTo'[i], i \in slaves, slaveMax[i])
    PROVE  FlowInv'
  <1>1. /\ InstanceTypeOK /\ NetTypeOK
        /\ HeadRequests /\ \A j \in Instances : FlowOf(j)
    BY DEF MappingInv, FlowInv
  <1>2. /\ UNCHANGED <<version, committing, slaves, slaveMax, cmdQueue, down, attached>>
        /\ UNCHANGED up \/ \E p \in UpPacket :
              SendUp(NodeOf[i], p) /\ p.insts = {i} /\ ForHead(p)
    BY DEF OwnFlow
  <1>3. NodeOf[i] \in Nodes
    BY MappingAssumption
  <1>4. HeadRequests'
    BY <1>1, <1>2, <1>3, HeadRequestsSent
  <1>5. \A j \in Instances : DownTo(j)' = DownTo(j)
    BY <1>2 DEF DownTo
  <1>6. FlowOf(i)'
    <2>1. Limited(i) /\ i \in slaves => HeadWithin(version, committing = "released", slaveMax[i])
      BY <1>1 DEF FlowOf
    <2> QED
      BY <1>2, <1>5, <2>1 DEF FlowOf, Flow, Limited, AcksRaise, LimitFits
  <1>7. ASSUME NEW j \in Instances \ {i}
        PROVE  FlowOf(j)'
    <2>1. NodeOf[j] \in Nodes /\ FlowOf(j)
      BY <1>1, MappingAssumption
    <2>2. \/ up'[NodeOf[j]] = up[NodeOf[j]]
          \/ \E p \in UpPacket : up'[NodeOf[j]] = up[NodeOf[j]] \o <<p>> /\ ~IsAck(p, j)
      <3>1. CASE UNCHANGED up
        BY <3>1
      <3>2. ASSUME NEW p \in UpPacket, SendUp(NodeOf[i], p), p.insts = {i}
            PROVE  \/ up'[NodeOf[j]] = up[NodeOf[j]]
                   \/ up'[NodeOf[j]] = up[NodeOf[j]] \o <<p>> /\ ~IsAck(p, j)
        <4>1. ~IsAck(p, j)
          BY <3>2 DEF IsAck
        <4>2. CASE NodeOf[j] = NodeOf[i]
          BY <1>1, <1>3, <3>2, <4>1, <4>2, SentUp
        <4>3. CASE NodeOf[j] # NodeOf[i]
          BY <1>1, <2>1, <3>2, <4>3 DEF SendUp, NetTypeOK
        <4> QED
          BY <4>2, <4>3
      <3> QED
        BY <1>2, <3>1, <3>2
    <2>3. /\ state'[j] = state[j] /\ mapTo'[j] = mapTo[j] /\ slaveVersion'[j] = slaveVersion[j]
          /\ (j \in attached') = (j \in attached) /\ DownTo(j)' = DownTo(j)
      BY <1>2, <1>5 DEF OwnFlow
    <2> QED
      BY <1>1, <1>2, <2>1, <2>2, <2>3, FlowBeside
  <1> QED
    BY <1>4, <1>6, <1>7 DEF FlowInv

(* An application asks for something, or ends a mapping: it shows nothing  *)
(* new.                                                                    *)
LEMMA FlowAsked ==
    ASSUME NEW i, NEW u, NEW c, NEW d, NEW st, NEW att, NEW sv, NEW mt, NEW slave, NEW max,
           Flow(i, u, c, d, st, att, sv, mt, slave, max), NEW y, NEW newSt, NEW newSv, NEW newMt,
           y = u \/ \E p : OneMore(y, u, p) /\ ~IsAck(p, i),
           Stays(st, att, sv, mt, newSt, att, newSv, newMt), newSt # "replied"
    PROVE  Flow(i, y, c, d, newSt, att, newSv, newMt, slave, max)
  <1>1. AcksInOrder(u, i) /\ AcksDone(i, u, c, d, st) /\ AcksFrom(u, u, i) /\ RepliesFrom(d, d, i)
    BY AcksSame DEF Flow
  <1>2. AcksInOrder(y, i) /\ AcksFrom(y, u, i) /\ (NoAcks(u, i) => NoAcks(y, i))
    <2>1. CASE y = u
      BY <1>1, <2>1
    <2>2. ASSUME NEW p, OneMore(y, u, p), ~IsAck(p, i)
          PROVE  AcksInOrder(y, i) /\ AcksFrom(y, u, i) /\ (NoAcks(u, i) => NoAcks(y, i))
      BY <1>1, <2>2, AcksPassed
    <2> QED
      BY <2>1, <2>2
  <1>3. AcksDone(i, y, c, d, newSt)
    BY <1>1, <1>2 DEF AcksDone, Stays
  <1> QED
    BY <1>1, <1>2, <1>3, FlowRests

(* mapObjectNB: the request comes after all acknowledgements.              *)
LEMMA MapObjectNBFlow ==
    ASSUME MappedAtHead, MappingInv, FlowInv, NEW i \in Instances,
           NEW requested \in Requests, MapObjectNB(i, requested)
    PROVE  FlowInv'
  <1> DEFINE n == NodeOf[i]
             item == cache[n]
             packet == IF Cached(item)
                       THEN MapRequest(i, requested, TRUE, GetVersion(item.versions[1]),
                                       GetVersion(Newest(item)))
                       ELSE MapRequest(i, requested, FALSE, VERSION_NONE, VERSION_NONE)
             u == up[n]
             y == up'[n]
             c == cmdQueue
             d == DownTo(i)
             st == state[i]
             att == i \in attached
             sv == slaveVersion[i]
             mt == mapTo[i]
             slave == i \in slaves
             max == slaveMax[i]
             newSt == state'[i]
  <1>1. InstanceTypeOK /\ NetTypeOK /\ FlowOf(i) /\ n \in Nodes
    BY MappingAssumption DEF MappingInv, FlowInv
  <1>2. UNCHANGED <<version, committing, slaves, slaveMax, cmdQueue, down, attached, mapTo,
                    slaveVersion>>
    BY DEF MapObjectNB, masterVars
  <1>3. newSt = "mapping" /\ \A j \in Instances \ {i} : state'[j] = state[j]
    BY <1>1 DEF MapObjectNB, InstanceTypeOK
  <1>4. packet \in UpPacket /\ SendUp(n, packet)
    BY <1>1, RequestType DEF MapObjectNB
  <1>5. packet.insts = {i} /\ packet.type = "mapObject" /\ packet.version = requested
    BY DEF MapRequest
  <1> HIDE DEF packet
  <1>6. OwnFlow(i)
    BY <1>2, <1>3, <1>4, <1>5 DEF OwnFlow, ForHead, MappedAtHead
  <1>7. OneMore(y, u, packet) /\ ~IsAck(packet, i)
    BY <1>1, <1>4, <1>5, SentUp, SendsOne DEF IsAck
  <1>8. Flow(i, u, c, d, st, att, sv, mt, slave, max)
    BY <1>1 DEF FlowOf
  <1>9. slaveVersion'[i] = sv /\ mapTo'[i] = mt
    BY <1>2
  <1> HIDE DEF u, y, c, d, st, att, sv, mt, slave, max, newSt
  <1>10. Stays(st, att, sv, mt, newSt, att, sv, mt) /\ newSt # "replied"
    BY <1>3 DEF Stays
  <1>11. Flow(i, y, c, d, newSt, att, sv, mt, slave, max)
    BY <1>7, <1>8, <1>10, FlowAsked
  <1> QED
    BY <1>6, <1>9, <1>11, OwnStepFlow DEF u, y, c, d, st, att, sv, mt, slave, max, newSt

(* mapObjectSync: the instance will show the version of the reply.         *)
LEMMA MapObjectSyncFlow ==
    ASSUME MappingInv, FlowInv, NEW i \in Instances, MapObjectSync(i)
    PROVE  FlowInv'
  <1> DEFINE u == up[NodeOf[i]]
             y == up'[NodeOf[i]]
             c == cmdQueue
             d == DownTo(i)
             st == state[i]
             att == i \in attached
             sv == slaveVersion[i]
             mt == mapTo[i]
             slave == i \in slaves
             max == slaveMax[i]
             newSt == state'[i]
             newSv == slaveVersion'[i]
             newMt == mapTo'[i]
  <1>1. InstanceTypeOK /\ FlowOf(i)
    BY DEF MappingInv, FlowInv
  <1>2. /\ st = "replied"
        /\ UNCHANGED <<version, committing, slaves, slaveMax, cmdQueue, down, attached, up>>
    BY DEF MapObjectSync, masterVars, netVars
  <1>3. /\ IF i \in attached THEN newSt = "applying" /\ newSv = sv /\ newMt = mt
                             ELSE newSt = "unmapped"
        /\ \A j \in Instances \ {i} : /\ state'[j] = state[j] /\ mapTo'[j] = mapTo[j]
                                      /\ slaveVersion'[j] = slaveVersion[j]
    BY <1>1 DEF MapObjectSync, InstanceTypeOK, Forget
  <1>4. OwnFlow(i)
    BY <1>2, <1>3 DEF OwnFlow
  <1>5. Flow(i, u, c, d, st, att, sv, mt, slave, max) /\ y = u
    BY <1>1, <1>2 DEF FlowOf
  <1>6. IF att THEN newSt = "applying" /\ newSv = sv /\ newMt = mt ELSE newSt = "unmapped"
    BY <1>3
  <1> HIDE DEF u, y, c, d, st, att, sv, mt, slave, max, newSt, newSv, newMt
  <1>7. Stays(st, att, sv, mt, newSt, att, newSv, newMt) /\ newSt # "replied"
    BY <1>2, <1>6 DEF Stays
  <1>8. Flow(i, y, c, d, newSt, att, newSv, newMt, slave, max)
    BY <1>5, <1>7, FlowAsked
  <1> QED
    BY <1>4, <1>8, OwnStepFlow DEF u, y, c, d, att, slave, max, newSt, newSv, newMt

(* unmapObject: the unsubscribe comes after all acknowledgements.          *)
LEMMA UnmapObjectFlow ==
    ASSUME MappingInv, FlowInv, NEW i \in Instances, UnmapObject(i)
    PROVE  FlowInv'
  <1> DEFINE n == NodeOf[i]
             p == Packet("unsubscribe", {i}, VERSION_NONE)
             u == up[n]
             y == up'[n]
             c == cmdQueue
             d == DownTo(i)
             st == state[i]
             att == i \in attached
             sv == slaveVersion[i]
             mt == mapTo[i]
             slave == i \in slaves
             max == slaveMax[i]
             newSt == state'[i]
             newSv == slaveVersion'[i]
             newMt == mapTo'[i]
  <1>1. InstanceTypeOK /\ NetTypeOK /\ FlowOf(i) /\ n \in Nodes
    BY MappingAssumption DEF MappingInv, FlowInv
  <1>2. /\ st = "mapped"
        /\ UNCHANGED <<version, committing, slaves, slaveMax, cmdQueue, down, attached>>
        /\ UNCHANGED up \/ SendUp(n, p)
    BY DEF UnmapObject, masterVars
  <1>3. /\ newSt \in {"unmapping", "unmapped"} /\ (newSt = "unmapping" => newSv = sv)
        /\ \A j \in Instances \ {i} : /\ state'[j] = state[j] /\ mapTo'[j] = mapTo[j]
                                      /\ slaveVersion'[j] = slaveVersion[j]
    BY <1>1 DEF UnmapObject, InstanceTypeOK, Forget
  <1>4. p \in UpPacket /\ p.type = "unsubscribe" /\ p.insts = {i}
    BY DEF Packet, UpPacket, CommandPacket
  <1> HIDE DEF p
  <1>5. OwnFlow(i)
    BY <1>2, <1>3, <1>4 DEF OwnFlow, ForHead
  <1>6. y = u \/ (OneMore(y, u, p) /\ ~IsAck(p, i))
    BY <1>1, <1>2, <1>4, SentUp, SendsOne DEF IsAck
  <1>7. Flow(i, u, c, d, st, att, sv, mt, slave, max)
    BY <1>1 DEF FlowOf
  <1> HIDE DEF u, y, c, d, st, att, sv, mt, slave, max, newSt, newSv, newMt
  <1>8. Stays(st, att, sv, mt, newSt, att, newSv, newMt) /\ newSt # "replied"
    BY <1>2, <1>3 DEF Stays
  <1>9. Flow(i, y, c, d, newSt, att, newSv, newMt, slave, max)
    BY <1>6, <1>7, <1>8, FlowAsked
  <1> QED
    BY <1>5, <1>9, OwnStepFlow DEF u, y, c, d, att, slave, max, newSt, newSv, newMt

(* applyMapData: the instance shows the version it is mapped to, which its *)
(* limit fits.                                                             *)
LEMMA ApplyMapDataFlow ==
    ASSUME MappingInv, FlowInv, NEW i \in Instances, ApplyMapData(i)
    PROVE  FlowInv'
  <1> DEFINE u == up[NodeOf[i]]
             y == up'[NodeOf[i]]
             c == cmdQueue
             d == DownTo(i)
             st == state[i]
             att == i \in attached
             sv == slaveVersion[i]
             mt == mapTo[i]
             slave == i \in slaves
             max == slaveMax[i]
             newSt == state'[i]
             newSv == slaveVersion'[i]
             newMt == mapTo'[i]
  <1>1. InstanceTypeOK /\ FlowOf(i)
    BY DEF MappingInv, FlowInv
  <1>2. /\ st = "applying" /\ newMt = mt
        /\ UNCHANGED <<version, committing, slaves, slaveMax, cmdQueue, down, attached, up, mapTo>>
    BY DEF ApplyMapData, masterVars, netVars
  <1>3. /\ \/ newSt = "mapped" /\ newSv = mt
           \/ newSt = "applying" /\ newSv = sv
        /\ \A j \in Instances \ {i} :
              state'[j] = state[j] /\ slaveVersion'[j] = slaveVersion[j]
    BY <1>1 DEF ApplyMapData, InstanceTypeOK
  <1>4. OwnFlow(i)
    BY <1>2, <1>3 DEF OwnFlow
  <1>5. Flow(i, u, c, d, st, att, sv, mt, slave, max) /\ y = u
    BY <1>1, <1>2 DEF FlowOf
  <1> HIDE DEF u, y, c, d, st, att, sv, mt, slave, max, newSt, newSv, newMt
  <1>6. NoAcks(u, i) /\ AcksInOrder(u, i)
    BY <1>2, <1>5 DEF Flow, AcksDone
  <1>7. Limited(i) /\ slave => LimitFits(i, d, newSt, att, newSv, newMt, max)
    BY <1>2, <1>3, <1>5 DEF Flow, LimitFits
  <1>8. Flow(i, u, c, d, newSt, att, newSv, newMt, slave, max)
    BY <1>6, <1>7 DEF Flow, AcksDone, AcksRaise, NoAcks
  <1> QED
    BY <1>4, <1>5, <1>8, OwnStepFlow DEF u, y, c, d, att, slave, max, newSt, newSv, newMt

(* The 64 bit sum of a version and the largest number does not exceed the  *)
(* version.                                                                *)
LEMMA Wraps ==
    ASSUME NEW m \in Nat, NEW v \in 1..m
    PROVE  (v + m) % (m + 1) =< v
  OBVIOUS

(* _sendAck: an instance that has a limit acknowledges the version it      *)
(* shows, the others nothing.                                              *)
LEMMA AckOf ==
    ASSUME NoOverflow, LastVersion < VERSION_INVALID, NEW i \in Instances,
           NEW v \in 1..LastVersion, SendAck(i, v)
    PROVE  \/ UNCHANGED up
           \/ /\ Limited(i)
              /\ SendUp(NodeOf[i], Packet("maxVersion", {i}, v + MaxVersions[i]))
  <1> DEFINE size == UINT64_MAX + 1
             sum == v + MaxVersions[i]
  <1>1. /\ MaxVersions[i] \in 0..UINT64_MAX /\ UINT64_MAX \in Nat /\ LastVersion \in Nat
        /\ v \in 1..UINT64_MAX
    BY MasterAssumption, MappingAssumption DEF VERSION_INVALID
  <1>2. IF sum % size =< v THEN UNCHANGED up
        ELSE SendUp(NodeOf[i], Packet("maxVersion", {i}, sum % size))
    BY DEF SendAck
  <1>3. CASE MaxVersions[i] = UINT64_MAX
    <2>1. sum % size =< v
      BY <1>1, <1>3, Wraps
    <2> QED
      BY <1>2, <2>1
  <1>4. CASE MaxVersions[i] # UINT64_MAX
    <2>1. sum \in 0..UINT64_MAX
      BY <1>1, <1>4 DEF NoOverflow
    <2>2. sum % size = sum
      <3> HIDE DEF sum
      <3> QED
        BY <1>1, <2>1
    <2>3. CASE MaxVersions[i] = 0
      <3>1. sum =< v
        BY <1>1, <2>3
      <3> QED
        BY <1>2, <2>2, <3>1
    <2>4. CASE MaxVersions[i] # 0
      <3>1. Limited(i) /\ ~(sum =< v)
        BY <1>1, <1>4, <2>4 DEF Limited
      <3> QED
        BY <1>2, <2>2, <3>1
    <2> QED
      BY <2>3, <2>4
  <1> QED
    BY <1>3, <1>4

(* An instance shows the next version, and acknowledges it if it has a     *)
(* limit: what was allowed stays allowed.                                  *)
LEMMA FlowAcknowledged ==
    ASSUME NEW i \in Instances, NEW u, NEW c, NEW d, NEW att, NEW sv \in Int, NEW mt, NEW slave,
           NEW max \in Int, Flow(i, u, c, d, "mapped", att, sv, mt, slave, max),
           \A k \in 1..Len(u) : IsAck(u[k], i) => u[k].version \in Int,
           ~Has(u, i), ~Has(c, i), ~Has(d, i), NEW y,
           \/ y = u
           \/ Limited(i) /\ \E p : OneMore(y, u, p) /\ IsAck(p, i)
                                   /\ p.version = sv + 1 + MaxVersions[i]
    PROVE  Flow(i, y, c, d, "mapped", att, sv + 1, mt, slave, max)
  <1> DEFINE limit == sv + 1 + MaxVersions[i]
  <1>1. MaxVersions[i] \in Int /\ limit \in Int
    BY MasterAssumption
  <1>2. AcksInOrder(u, i) /\ AcksDone(i, y, c, d, "mapped")
    BY DEF Flow, AcksDone
  <1>3. \A x \in Int : x =< sv + MaxVersions[i] => x =< limit
    BY <1>1
  <1>4. ASSUME Limited(i)
        PROVE  \A k \in 1..Len(u) : IsAck(u[k], i) =>
                  (slave => max =< u[k].version) /\ u[k].version =< limit
    BY <1>3, <1>4 DEF Flow, AcksRaise
  <1>5. ASSUME Limited(i), slave
        PROVE  LimitFits(i, d, "mapped", att, sv + 1, mt, max) /\ max =< limit
    <2>1. LimitFits(i, d, "mapped", att, sv, mt, max)
      BY <1>5 DEF Flow
    <2>2. max =< limit
      BY <1>3, <2>1 DEF LimitFits
    <2>3. \A r \in 1..Len(d) : ~IsReply(d[r], i)
      BY DEF Has, IsReply, Answers, IsToken
    <2> QED
      BY <2>2, <2>3 DEF LimitFits
  <1>6. CASE y = u
    <2>1. Limited(i) => AcksRaise(i, u, "mapped", sv + 1, slave, max)
      BY <1>4 DEF AcksRaise
    <2> QED
      BY <1>2, <1>5, <1>6, <2>1 DEF Flow
  <1>7. ASSUME Limited(i), NEW p, OneMore(y, u, p), IsAck(p, i), p.version = limit
        PROVE  Flow(i, y, c, d, "mapped", att, sv + 1, mt, slave, max)
    <2>1. AcksInOrder(y, i)
      BY <1>1, <1>2, <1>4, <1>7, AckSent
    <2>2. \A k \in 1..Len(y) : (k \in 1..Len(u) /\ y[k] = u[k]) \/ y[k] = p
      BY <1>7 DEF OneMore
    <2>3. AcksRaise(i, y, "mapped", sv + 1, slave, max)
      <3> SUFFICES ASSUME NEW k \in 1..Len(y), IsAck(y[k], i)
                   PROVE  (slave => max =< y[k].version) /\ y[k].version =< limit
        BY DEF AcksRaise
      <3>1. CASE k \in 1..Len(u) /\ y[k] = u[k]
        BY <1>4, <1>7, <3>1
      <3>2. CASE y[k] = p
        BY <1>1, <1>5, <1>7, <3>2
      <3> QED
        BY <2>2, <3>1, <3>2
    <2> QED
      BY <1>2, <1>5, <2>1, <2>3 DEF Flow
  <1> QED
    BY <1>6, <1>7

(* _unpackOneVersion.                                                      *)
LEMMA UnpackOneVersionFlow ==
    ASSUME NoOverflow, LastVersion < VERSION_INVALID, MappingInv, QueueInv, FlowInv,
           NEW i \in Instances, UnpackOneVersion(i)
    PROVE  FlowInv'
  <1> DEFINE n == NodeOf[i]
             u == up[n]
             y == up'[n]
             c == cmdQueue
             d == DownTo(i)
             att == i \in attached
             qu == queue[i]
             sv == slaveVersion[i]
             mt == mapTo[i]
             slave == i \in slaves
             max == slaveMax[i]
             p == Packet("maxVersion", {i}, sv + 1 + MaxVersions[i])
  <1>1. MasterTypeOK /\ InstanceTypeOK /\ NetTypeOK /\ FlowOf(i)
    BY DEF MappingInv, FlowInv
  <1>2. /\ state[i] = "mapped" /\ qu # <<>>
        /\ UNCHANGED <<version, committing, slaves, slaveMax, cmdQueue, down, attached, mapTo, state>>
    BY DEF UnpackOneVersion, masterVars
  <1>3. /\ n \in Nodes /\ QueueFits("mapped", att, qu, sv, content[i], mt, version)
        /\ Tokens(i, u, c, d, "mapped", att)
    BY <1>2, OwnState
  <1>4. /\ qu \in Seq(QueuedVersion) /\ sv \in Int /\ Head(qu) = qu[1] /\ max \in Int
        /\ version \in 1..LastVersion /\ 1 \in 1..Len(qu) /\ u \in Seq(UpPacket)
    <2>1. qu \in Seq(QueuedVersion) /\ sv \in Int /\ u \in Seq(UpPacket)
      BY <1>1, InstanceFields
    <2>2. max \in Int /\ version \in 1..LastVersion
      BY <1>1 DEF MasterTypeOK, InstanceTypeOK
    <2> QED
      BY <1>2, <2>1, <2>2
  <1>5. qu[1].version = sv + 1 /\ sv + 1 \in 1..LastVersion
    BY <1>2, <1>3, <1>4, MappingAssumption DEF QueueFits
  <1>6. /\ slaveVersion'[i] = sv + 1 /\ SendAck(i, sv + 1)
        /\ \A j \in Instances \ {i} : slaveVersion'[j] = slaveVersion[j]
    BY <1>1, <1>4, <1>5 DEF UnpackOneVersion, InstanceTypeOK
  <1>7. UNCHANGED up \/ (Limited(i) /\ SendUp(n, p))
    BY <1>5, <1>6, AckOf
  <1>8. /\ p.type = "maxVersion" /\ p.insts = {i} /\ p.version = sv + 1 + MaxVersions[i]
        /\ UNCHANGED up \/ p \in UpPacket
    <2>1. UNCHANGED up \/ \E x \in UpPacket :
             SendUp(n, x) /\ x.insts = {i} /\ x.type = "maxVersion"
      BY <1>1, AckType
    <2>2. p.type = "maxVersion" /\ p.insts = {i} /\ p.version = sv + 1 + MaxVersions[i]
      BY DEF Packet
    <2>3. ASSUME NEW x \in UpPacket, SendUp(n, x), SendUp(n, p)
          PROVE  x = p
      <3>1. Append(u, x) = Append(u, p)
        BY <1>1, <1>3, <2>3 DEF SendUp, NetTypeOK
      <3> DEFINE w == Append(u, x)
      <3>2. w[Len(u) + 1] = x /\ w[Len(u) + 1] = p
        <4>1. Append(u, x)[Len(u) + 1] = x
          BY <1>4
        <4>2. Append(u, p)[Len(u) + 1] = p
          BY <1>4
        <4> QED
          BY <3>1, <4>1, <4>2
      <3> QED
        BY <3>2
    <2> QED
      BY <1>7, <2>1, <2>2, <2>3
  <1> HIDE DEF p
  <1>9. OwnFlow(i)
    BY <1>2, <1>6, <1>7, <1>8 DEF OwnFlow, ForHead
  <1>10. y = u \/ (Limited(i) /\ OneMore(y, u, p) /\ IsAck(p, i))
    BY <1>1, <1>3, <1>7, <1>8, SentUp, SendsOne DEF IsAck
  <1>11. Flow(i, u, c, d, "mapped", att, sv, mt, slave, max)
    BY <1>1, <1>2 DEF FlowOf
  <1>12. \A k \in 1..Len(u) : IsAck(u[k], i) => u[k].version \in Int
    <2>1. \A k \in 1..Len(u) : u[k] \in UpPacket
      BY <1>4
    <2> QED
      BY <2>1 DEF IsAck, UpPacket, CommandPacket, RequestPacket
  <1> HIDE DEF u, y, c, d, att, sv, mt, slave, max
  <1>13. ~Has(u, i) /\ ~Has(c, i) /\ ~Has(d, i)
    <2>1. Awaited(u, i, "mapped", att) /\ Awaited(c, i, "mapped", att) /\ Awaited(d, i, "mapped", att)
      BY <1>3 DEF Tokens
    <2> QED
      BY <2>1, NothingUnderWay
  <1>14. Flow(i, y, c, d, "mapped", att, sv + 1, mt, slave, max)
    BY <1>4, <1>8, <1>10, <1>11, <1>12, <1>13, FlowAcknowledged
  <1> QED
    BY <1>2, <1>6, <1>9, <1>14, OwnStepFlow DEF u, y, c, d, att, sv, mt, slave, max

(* All steps of an application.                                            *)
LEMMA SlaveFlow ==
    ASSUME MappedAtHead, LastVersion < VERSION_INVALID, MappingInv, QueueInv, FlowInv,
           NEW i \in Instances, SlaveNext(i)
    PROVE  FlowInv'
  BY MapObjectNBFlow, MapObjectSyncFlow, ApplyMapDataFlow, UnpackOneVersionFlow,
     UnmapObjectFlow DEF SlaveNext, MappedAtHead

(* Nothing is under way at first, and there is no slave.                   *)
LEMMA FlowInit ==
    ASSUME Init
    PROVE  FlowInv
  <1>1. Len(<<>>) = 0 /\ In(<<>>) = {}
    BY DEF In
  <1>2. /\ \A n \in Nodes : up[n] = <<>>
        /\ cmdQueue = <<>> /\ slaves = {}
        /\ \A i \in Instances : state[i] = "unmapped"
    BY DEF Init, MasterInit
  <1>3. HeadRequests
    BY <1>1, <1>2 DEF HeadRequests
  <1>4. ASSUME NEW i \in Instances
        PROVE  FlowOf(i)
    <2>1. up[NodeOf[i]] = <<>> /\ i \notin slaves
      BY <1>2, MappingAssumption
    <2>2. AcksInOrder(<<>>, i) /\ NoAcks(<<>>, i)
      BY <1>1 DEF AcksInOrder, NoAcks
    <2> QED
      BY <2>1, <2>2 DEF FlowOf, Flow, AcksDone, AcksRaise, NoAcks
  <1> QED
    BY <1>3, <1>4 DEF FlowInv

(* FlowInv is inductive, together with the invariant of the queues.        *)
LEMMA FlowStep ==
    ASSUME UnicastCommitted, MappedAtHead, MappingInv, QueueInv, FlowInv, [Next]_vars
    PROVE  FlowInv'
  <1>0. ~UseMulticast /\ LastVersion < VERSION_INVALID /\ NoOverflow /\ OwnPackets
    BY DEF UnicastCommitted, MappedAtHead, QueueInv
  <1>1. CASE NewVersion
    BY <1>0, <1>1, NewVersionFlow
  <1>2. CASE MasterOnly \/ DeregisterDetach
    BY <1>2, MasterOnlyFlow
  <1>3. CASE DeregisterNotify
    BY <1>3, DeregisterFlow
  <1>4. ASSUME NEW n \in Nodes, MasterReceive(n)
        PROVE  FlowInv'
    BY <1>0, <1>4, MasterReceiveFlow
  <1>5. ASSUME NEW n \in Nodes, Expire(n)
        PROVE  FlowInv'
    <2>1. UNCHANGED <<version, committing, slaves, slaveMax, instanceVars, down, up, cmdQueue>>
      BY <1>5 DEF Expire, masterVars, netVars
    <2> QED
      BY <2>1, SilentFlow
  <1>6. ASSUME NEW n \in Nodes, NodeLost(n)
        PROVE  FlowInv'
    BY <1>6, NodeLostFlow
  <1>7. CASE MasterCommand
    BY <1>0, <1>7, MasterCommandFlow
  <1>8. ASSUME NEW n \in Nodes, NEW link \in Links, Receive(n, link)
        PROVE  FlowInv'
    BY <1>8, ReceiveFlow
  <1>9. ASSUME NEW i \in Instances, SlaveNext(i)
        PROVE  FlowInv'
    BY <1>0, <1>9, SlaveFlow
  <1>10. CASE UNCHANGED vars
    <2>1. UNCHANGED <<version, committing, slaves, slaveMax, instanceVars, down, up, cmdQueue>>
      BY <1>10 DEF vars, masterVars, slaveVars, netVars
    <2> QED
      BY <2>1, SilentFlow
  <1> QED
    BY <1>1, <1>2, <1>3, <1>4, <1>5, <1>6, <1>7, <1>8, <1>9, <1>10 DEF Next

(* A slave that was mapped at the head version never lags more than        *)
(* getMaxVersions() behind the master, for any number of slaves on any     *)
(* number of nodes and whatever is queued or on its way, if packets to a   *)
(* node come by one connection.  Without MappedAtHead this is false: the   *)
(* limit of a slave that maps an old version starts at the head.           *)
THEOREM MappingFlowControl ==
    ASSUME UnicastCommitted, MappedAtHead
    PROVE  Spec => []FlowControl
  <1>1. Init => FlowInv
    BY FlowInit
  <1>2. (MappingInv /\ PinInv /\ AnnounceInv /\ QueueInv) /\ FlowInv /\ [Next]_vars => FlowInv'
    BY FlowStep
  <1>3. MappingInv /\ FlowInv => FlowControl
    <2> SUFFICES ASSUME MappingInv, FlowInv, NEW i \in slaves, state[i] = "mapped", Limited(i)
                 PROVE  version - slaveVersion[i] =< MaxVersions[i]
      BY DEF FlowControl
    <2>1. i \in Instances /\ slaveMax[i] \in Int /\ version \in Int /\ slaveVersion[i] \in Int
      BY InstanceFields DEF MappingInv, MasterTypeOK
    <2>2. /\ version =< slaveMax[i]
          /\ slaveMax[i] =< slaveVersion[i] + MaxVersions[i]
      BY <2>1 DEF FlowInv, FlowOf, Flow, LimitFits, HeadWithin
    <2>3. MaxVersions[i] \in Int
      BY <2>1, MasterAssumption
    <2> QED
      BY <2>1, <2>2, <2>3
  <1> QED
    BY <1>1, <1>2, <1>3, QueueInvariant, PTL DEF Spec
=============================================================================
