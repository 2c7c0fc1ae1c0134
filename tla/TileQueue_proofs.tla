--------------------------- MODULE TileQueue_proofs ---------------------------
(***************************************************************************)
(* Proofs about the tile queues, for every number of channels, every       *)
(* latency, prefetch amount and mark, tile size and set of viewports.      *)
(*                                                                         *)
(* Two arguments.  The pool (PoolInv): the queues of the pool were used in *)
(* the last frames, one in each, in the order of the pool, so that no more *)
(* than latency + 1 are ever needed, and the one at the end may be used    *)
(* again once there are so many.  The channels (ChannelInv): a queue is    *)
(* not used again while a channel has a task for it, a tile of it, a       *)
(* request for it under way, or an end of frame that the server does not   *)
(* know yet; and the empty packet that ends a channel's frame is the last  *)
(* answer that may hold tiles.                                             *)
(***************************************************************************)
EXTENDS TileQueue, SequenceTheorems, TLAPS

Tiles == [frame : Frames, x : Int, y : Int, w : Int, h : Int]
Tasks == [type : {"tiles"}, frame : Frames, queue : QueueIDs]
Items == [type : {ITEM}, queue : QueueIDs, tile : Tiles]
Empties == [type : {EMPTY}, queue : QueueIDs, request : Nat]
Requests == [type : {"getItem"}, queue : QueueIDs, request : Nat]
Finishes == [type : {"finish"}, frame : Frames]

Types ==
    /\ frame \in 0..LastFrame
    /\ server \in {"idle", "clear", "clearPop", "push"}
    /\ active \in [Frames -> SUBSET Channels]
    /\ viewport \in [Frames -> Nat \X Nat]
    /\ queues \in Seq(QueueIDs)
    /\ age \in [QueueIDs -> Nat]
    /\ items \in [QueueIDs -> Seq(Tiles)]
    /\ toPush \in Seq(Tiles)
    /\ down \in [Channels -> Seq(Tasks \cup Items \cup Empties)]
    /\ up \in [Channels -> Seq(Requests \cup Finishes)]
    /\ tasks \in [Channels -> Seq(Tasks)]
    /\ local \in [Channels -> [QueueIDs -> Seq(Items \cup Empties)]]
    /\ pc \in [Channels -> {"idle", "request", "pop"}]
    /\ request \in [Channels -> Nat]
    /\ finished \in [Channels -> SUBSET Frames]
    /\ DOMAIN drawn = Frames

(* A frame uses one queue.                                                 *)
AgesInv ==
    /\ \A q \in QueueIDs : age[q] =< frame
    /\ \A p, q \in QueueIDs : age[p] = age[q] => p = q \/ age[p] = 0

(* The pool: the k-th queue was last used k - 1 frames ago.                *)
PoolInv ==
    /\ Len(queues) =< frame /\ Len(queues) =< Latency + 1
    /\ server # "idle" => queues # <<>>
    /\ \A k \in 1..Len(queues) : /\ queues[k] =< Len(queues)
                                 /\ age[queues[k]] = frame - k + 1
    /\ \A q \in QueueIDs : q > Len(queues) => age[q] = 0
    /\ AgesInv

(* The frame f was started, and its tiles are in its queue.                *)
Started(f) == f \in 1..frame /\ (f < frame \/ server = "idle")

Clearing(q) == server \in {"clear", "clearPop"} /\ q = current

(* Tiles that wait are those of the frame that uses the queue.             *)
TilesInv ==
    /\ \A q \in QueueIDs : ~Clearing(q) =>
          \A k \in 1..Len(items[q]) : items[q][k].frame = age[q]
    /\ \A k \in 1..Len(toPush) : toPush[k].frame = frame
    /\ server # "push" => toPush = <<>>

(* Frame f is under way on channel c, as far as the server knows.          *)
Open(c, f) == Started(f) /\ c \in active[f] /\ f \notin finished[c]

(* A task of channel c, which it has not finished.                         *)
TaskOf(c, t) ==
    /\ Open(c, t.frame) /\ age[t.queue] = t.frame
    /\ \A j \in 1..Len(up[c]) : up[c][j].type = "finish" => up[c][j].frame # t.frame

IsTask(p) == p.type = "tiles"

(* The tasks of channel c, in the order of their frames.                   *)
TasksInv(c) ==
    /\ pc[c] # "idle" => tasks[c] # <<>>
    /\ \A k \in 1..Len(tasks[c]) : TaskOf(c, tasks[c][k])
    /\ \A k \in 1..Len(down[c]) : IsTask(down[c][k]) => TaskOf(c, down[c][k])
    /\ \A j, k \in 1..Len(tasks[c]) : j < k => tasks[c][j].frame < tasks[c][k].frame
    /\ \A j \in 1..Len(tasks[c]), k \in 1..Len(down[c]) :
          IsTask(down[c][k]) => tasks[c][j].frame < down[c][k].frame
    /\ \A j, k \in 1..Len(down[c]) :
          j < k /\ IsTask(down[c][j]) /\ IsTask(down[c][k]) => down[c][j].frame < down[c][k].frame

(* Channel c works on a task of queue q.                                   *)
Busy(c, q) == pc[c] # "idle" /\ queueOf(c) = q

(* What the server knows of the frames that channel c has finished.        *)
FinishedInv(c) == \A f \in finished[c] : Started(f)

(* What channel c has sent: the end of a frame, when no tile of it is left *)
(* in its queue, and requests, before the end of the frame.                *)
UpInv(c) ==
    /\ \A j \in 1..Len(up[c]) : up[c][j].type = "finish" =>
          /\ Open(c, up[c][j].frame)
          /\ \A q \in QueueIDs : age[q] = up[c][j].frame => items[q] = <<>>
          /\ \A k \in 1..j - 1 : up[c][k].type = "finish" => up[c][k].frame # up[c][j].frame
    /\ \A k \in 1..Len(up[c]) : up[c][k].type = "getItem" =>
          /\ up[c][k].request =< request[c]
          /\ \/ Busy(c, up[c][k].queue)
             \/ \E j \in k + 1..Len(up[c]) :
                   up[c][j].type = "finish" /\ up[c][j].frame = age[up[c][k].queue]

(* A tile that channel c was sent, and an empty packet: the one it waits   *)
(* for means that no tiles are left.                                       *)
TileOf(c, p) == Busy(c, p.queue) /\ p.tile.frame = age[p.queue]

EndOf(c, p) ==
    p.type = EMPTY /\ Busy(c, p.queue) /\ p.request = request[c]

DownInv(c) ==
    /\ \A k \in 1..Len(down[c]) : down[c][k].type = ITEM => TileOf(c, down[c][k])
    /\ \A k \in 1..Len(down[c]) : down[c][k].type = EMPTY => down[c][k].request =< request[c]
    /\ \A k \in 1..Len(down[c]) : EndOf(c, down[c][k]) =>
          /\ items[down[c][k].queue] = <<>>
          /\ \A j \in k + 1..Len(down[c]) : down[c][j].type # ITEM

LocalInv(c) ==
    \A q \in QueueIDs :
        /\ \A k \in 1..Len(local[c][q]) :
              /\ local[c][q][k].queue = q
              /\ local[c][q][k].type = ITEM => TileOf(c, local[c][q][k])
              /\ local[c][q][k].type = EMPTY => local[c][q][k].request =< request[c]
              /\ EndOf(c, local[c][q][k]) =>
                    /\ items[q] = <<>>
                    /\ \A j \in k + 1..Len(local[c][q]) : local[c][q][j].type # ITEM
                    /\ \A j \in 1..Len(down[c]) : down[c][j].type # ITEM

ChannelInv ==
    \A c \in Channels :
        FinishedInv(c) /\ TasksInv(c) /\ UpInv(c) /\ DownInv(c) /\ LocalInv(c)

TileInv == Types /\ PoolInv /\ TilesInv /\ ChannelInv /\ TilesOfFrame

-----------------------------------------------------------------------------
(* Sequences.                                                              *)

(* What is left of a sequence when its first element is taken.             *)
LEMMA TailElements ==
    ASSUME NEW S, NEW s \in Seq(S), s # <<>>
    PROVE  /\ Tail(s) \in Seq(S) /\ Len(Tail(s)) = Len(s) - 1 /\ Len(s) \in Nat \ {0}
           /\ Head(s) = s[1] /\ s[1] \in S /\ 1 \in 1..Len(s)
           /\ \A k \in 1..Len(Tail(s)) : Tail(s)[k] = s[k + 1] /\ k + 1 \in 1..Len(s)
  <1>1. Len(s) \in Nat /\ Len(s) # 0
        BY EmptySeq, LenProperties
  <1>2. /\ Head(s) \in S /\ Tail(s) \in Seq(S) /\ Len(Tail(s)) = Len(s) - 1
        /\ \A i \in 1..Len(Tail(s)) : Tail(s)[i] = s[i + 1]
        BY HeadTailProperties
  <1>3. Head(s) = s[1]
        OBVIOUS
  <1> QED BY <1>1, <1>2, <1>3

(* The elements of a sequence with one more.                               *)
LEMMA AppendElements ==
    ASSUME NEW S, NEW s \in Seq(S), NEW e \in S
    PROVE  /\ Append(s, e) \in Seq(S) /\ Len(s) \in Nat /\ Len(Append(s, e)) = Len(s) + 1
           /\ Append(s, e)[Len(s) + 1] = e
           /\ \A k \in 1..Len(s) : Append(s, e)[k] = s[k]
           /\ \A k \in 1..Len(s) + 1 : k \in 1..Len(s) \/ k = Len(s) + 1
  <1>1. Len(s) \in Nat
        BY LenProperties
  <1>2. /\ Append(s, e) \in Seq(S) /\ Len(Append(s, e)) = Len(s) + 1
        /\ Append(s, e)[Len(s) + 1] = e
        /\ \A k \in 1..Len(s) : Append(s, e)[k] = s[k]
        BY AppendProperties
  <1> QED BY <1>1, <1>2

-----------------------------------------------------------------------------
(* Tiles.                                                                  *)

\* The number of tiles in a dimension.
LEMMA TileCount ==
    ASSUME NEW size \in Nat, NEW tile \in Nat \ {0}
    PROVE  Dim(size, tile) \in Nat
  <1>1. size \div tile \in Nat
        OBVIOUS
  <1> QED BY <1>1 DEF Dim

(* The tiles of a frame.                                                   *)
LEMMA TilesOf ==
    ASSUME NEW f \in Frames, NEW pvp \in Nat \X Nat
    PROVE  /\ GenerateTiles(f, pvp) \in Seq(Tiles)
           /\ \A k \in 1..Len(GenerateTiles(f, pvp)) : GenerateTiles(f, pvp)[k].frame = f
  <1> DEFINE dim == <<Dim(pvp[1], TileSize[1]), Dim(pvp[2], TileSize[2])>>
             tiles == Zigzag(dim)
             n == dim[1] * dim[2]
  <1>1. TileSize[1] \in Nat \ {0} /\ TileSize[2] \in Nat \ {0} /\ pvp[1] \in Nat /\ pvp[2] \in Nat
        BY TileQueueAssumption
  <1>2. dim[1] \in Nat /\ dim[2] \in Nat
        BY <1>1, TileCount
  <1>3. n \in Nat
        BY <1>2
  <1>4. ASSUME NEW k \in 1..n
        PROVE  tiles[k][1] \in Int /\ tiles[k][2] \in Int
    <2> DEFINE y == (k - 1) \div dim[1]
               x == (k - 1) % dim[1]
    <2>1. dim[1] # 0
          BY <1>2, <1>4
    <2>2. x \in Int /\ y \in Int
      <3> HIDE DEF dim
      <3> QED BY <1>2, <2>1
    <2>3. tiles[k] = <<IF y % 2 = 1 THEN dim[1] - 1 - x ELSE x, y>>
          BY DEF Zigzag
    <2> HIDE DEF tiles, dim, x, y
    <2> QED BY <1>2, <2>2, <2>3
  <1>5. DOMAIN tiles = 1..n /\ tiles = [k \in 1..n |-> tiles[k]]
        BY DEF Zigzag
  <1>6. Len(tiles) = n
    <2> HIDE DEF tiles, n
    <2> QED BY <1>3, <1>5
  <1>7. ASSUME NEW k \in 1..n
        PROVE  TilePVP(f, pvp, tiles[k]) \in Tiles /\ TilePVP(f, pvp, tiles[k]).frame = f
    <2> DEFINE x == tiles[k][1] * TileSize[1]
               y == tiles[k][2] * TileSize[2]
    <2>1. x \in Int /\ y \in Int
      <3>1. tiles[k][1] \in Int /\ tiles[k][2] \in Int
            BY <1>4
      <3> HIDE DEF tiles
      <3> QED BY <1>1, <3>1
    <2>2. Extent(x, TileSize[1], pvp[1]) \in Int /\ Extent(y, TileSize[2], pvp[2]) \in Int
      <3> HIDE DEF x, y
      <3> QED BY <1>1, <2>1 DEF Extent
    <2>3. TilePVP(f, pvp, tiles[k]) =
            [frame |-> f, x |-> x, y |-> y, w |-> Extent(x, TileSize[1], pvp[1]),
             h |-> Extent(y, TileSize[2], pvp[2])]
          BY Zenon DEF TilePVP
    <2> HIDE DEF x, y, tiles
    <2> QED BY <2>1, <2>2, <2>3 DEF Tiles
  <1> DEFINE g == [k \in 1..n |-> TilePVP(f, pvp, tiles[k])]
  <1>8. GenerateTiles(f, pvp) = g
    <2>1. GenerateTiles(f, pvp) = [k \in 1..Len(tiles) |-> TilePVP(f, pvp, tiles[k])]
          BY DEF GenerateTiles
    <2> HIDE DEF tiles, n
    <2> QED BY <1>6, <2>1
  <1>9. g \in [1..n -> Tiles] /\ \A k \in 1..n : g[k].frame = f
    <2> HIDE DEF tiles, n
    <2> QED BY <1>7
  <1> HIDE DEF g, tiles, n
  <1>10. g \in Seq(Tiles)
         BY <1>3, <1>9, SeqDef
  <1>11. Len(g) = n
         BY <1>3, <1>9, <1>10
  <1> QED BY <1>8, <1>9, <1>10, <1>11

-----------------------------------------------------------------------------
(* The pool.                                                               *)

(* cycleData: the queue it takes is in no frame under way, and the pool    *)
(* stays in order.                                                         *)
LEMMA CyclePool ==
    ASSUME Types, PoolInv, NEW channels, NEW pvp, CycleData(channels, pvp)
    PROVE  /\ queues' \in Seq(QueueIDs) /\ queues' # <<>> /\ frame' = frame + 1
           /\ frame' \in Frames
           /\ \E queue \in QueueIDs :
                 /\ age' = [age EXCEPT ![queue] = frame'] /\ queue = Head(queues')
                 /\ age[queue] = 0 \/ age[queue] \in 1..frame - Latency
           /\ PoolInv'
  <1> USE DEF Last, Front
  <1> DEFINE len == Len(queues)
  <1>0. /\ frame' = frame + 1 /\ frame \in Nat /\ frame < LastFrame /\ Latency \in Nat
        /\ LastFrame \in Nat /\ queues \in Seq(QueueIDs) /\ len \in Nat
        /\ age \in [QueueIDs -> Nat] /\ server' = "clear"
        BY TileQueueAssumption, LenProperties DEF CycleData, Types
  <1>1. frame' \in Frames
        BY <1>0 DEF Frames
  <1>2. /\ len =< frame /\ len =< Latency + 1
        /\ \A k \in 1..len : queues[k] =< len /\ age[queues[k]] = frame - k + 1
                             /\ queues[k] \in QueueIDs
        /\ \A q \in QueueIDs : q > len => age[q] = 0
        BY <1>0, ElementOfSeq DEF PoolInv
  <1>3. QueueIDs = 1..Latency + 1
        BY DEF QueueIDs
  <1>a. ASSUME NEW queue \in QueueIDs, age' = [age EXCEPT ![queue] = frame']
        PROVE  AgesInv'
    <2>1. \A q \in QueueIDs : age'[q] = IF q = queue THEN frame + 1 ELSE age[q]
          BY <1>0, <1>a
    <2>2. \A q \in QueueIDs : age[q] =< frame /\ age[q] \in Nat
          BY <1>0 DEF PoolInv, AgesInv
    <2>3. \A p, q \in QueueIDs : age[p] = age[q] => p = q \/ age[p] = 0
          BY DEF PoolInv, AgesInv
    <2> QED BY <1>0, <2>1, <2>2, <2>3 DEF AgesInv
  <1>4. CASE len > Latency
    <2>1. len = Latency + 1 /\ queues # <<>> /\ len \in 1..len
          BY <1>0, <1>2, <1>4
    <2>2. age[queues[len]] = frame - len + 1 /\ queues[len] \in QueueIDs
          BY <1>2, <2>1
    <2>3. queues # <<>> /\ Unused(Last(queues))
          BY <1>0, <1>2, <2>1, <2>2 DEF Unused
    <2> DEFINE queue == queues[len]
               front == SubSeq(queues, 1, len - 1)
    <2>4. queues' = <<queue>> \o front /\ age' = [age EXCEPT ![queue] = frame']
          BY <2>3 DEF CycleData
    <2>5. /\ front \in Seq(QueueIDs) /\ Len(front) = len - 1
          /\ \A k \in 1..len - 1 : front[k] = queues[k]
      <3>1. 1 \in 1..len + 1 /\ len - 1 \in 0..len
            BY <1>0, <2>1
      <3>2. \A k \in 1..len - 1 : k \in 1..len /\ queues[k] \in QueueIDs
            BY <1>0, <1>2
      <3> QED BY <1>0, <2>1, <3>1, <3>2, SubSeqProperties
    <2> HIDE DEF front, queue
    <2>6. queue \in QueueIDs /\ <<queue>> \in Seq(QueueIDs) /\ Len(<<queue>>) = 1 /\ <<queue>>[1] = queue
          BY <2>2 DEF queue
    <2>7. /\ queues' \in Seq(QueueIDs) /\ Len(queues') = len
          /\ queues'[1] = queue
          /\ \A k \in 2..len : queues'[k] = queues[k - 1] /\ k - 1 \in 1..len - 1
      <3>1. /\ <<queue>> \o front \in Seq(QueueIDs)
            /\ Len(<<queue>> \o front) = 1 + (len - 1)
            /\ \A i \in 1..1 + (len - 1) :
                  (<<queue>> \o front)[i] = IF i =< 1 THEN <<queue>>[i] ELSE front[i - 1]
            BY <2>5, <2>6, ConcatProperties
      <3>2. ASSUME NEW k \in 2..len
            PROVE  queues'[k] = queues[k - 1] /\ k - 1 \in 1..len - 1
            BY <1>0, <2>4, <2>5, <3>1
      <3> QED BY <1>0, <2>1, <2>4, <2>6, <3>1, <3>2
    <2>8. queues' # <<>> /\ Head(queues') = queue
          BY <1>0, <2>1, <2>7
    <2>9. age[queue] \in 1..frame - Latency
          BY <1>0, <1>2, <2>1, <2>2 DEF queue
    <2>10. ASSUME NEW k \in 1..len
           PROVE  queues'[k] =< len /\ age'[queues'[k]] = frame' - k + 1
      <3>1. CASE k = 1
        <4>1. queue =< len
              BY <1>2, <2>1 DEF queue
        <4>2. age'[queue] = frame'
              BY <1>0, <2>4, <2>6
        <4> QED BY <1>0, <2>7, <3>1, <4>1, <4>2
      <3>2. CASE k # 1
        <4>1. k \in 2..len /\ k - 1 \in 1..len /\ k - 1 # len
              BY <1>0, <3>2
        <4>2. queues'[k] = queues[k - 1]
              BY <2>7, <4>1
        <4>3. /\ queues[k - 1] =< len /\ age[queues[k - 1]] = frame - (k - 1) + 1
              /\ queues[k - 1] \in QueueIDs
              BY <1>2, <4>1
        <4>4. queues[k - 1] # queue
              BY <1>0, <2>2, <4>1, <4>3 DEF queue
        <4>5. age'[queues[k - 1]] = age[queues[k - 1]]
              BY <1>0, <2>4, <4>3, <4>4
        <4> QED BY <1>0, <4>1, <4>2, <4>3, <4>5
      <3> QED BY <3>1, <3>2
    <2>11. ASSUME NEW q \in QueueIDs, q > len
           PROVE  age'[q] = 0
           BY <1>0, <1>2, <1>3, <2>1, <2>11
    <2>a. AgesInv'
          BY <1>a, <2>4, <2>6
    <2>12. PoolInv'
           BY <1>0, <1>2, <2>a, <2>7, <2>8, <2>10, <2>11 DEF PoolInv
    <2> QED BY <1>0, <1>1, <2>4, <2>6, <2>7, <2>8, <2>9, <2>12
  <1>5. CASE len =< Latency
    <2>1. ~(queues # <<>> /\ Unused(Last(queues)))
      <3> SUFFICES ASSUME queues # <<>>, Unused(Last(queues)) PROVE FALSE
          OBVIOUS
      <3>1. len \in 1..len
            BY <1>0, EmptySeq
      <3>2. age[queues[len]] = frame - len + 1
            BY <1>2, <3>1
      <3> QED BY <1>0, <1>5, <3>1, <3>2 DEF Unused
    <2> DEFINE queue == len + 1
    <2>2. queues' = <<queue>> \o queues /\ age' = [age EXCEPT ![queue] = frame']
          BY <2>1 DEF CycleData
    <2>3. queue \in QueueIDs /\ <<queue>> \in Seq(QueueIDs) /\ Len(<<queue>>) = 1 /\ <<queue>>[1] = queue
      <3>1. queue \in QueueIDs
            BY <1>0, <1>3, <1>5
      <3> QED BY <3>1
    <2>4. age[queue] = 0
          BY <1>0, <1>2, <2>3
    <2> HIDE DEF queue
    <2>5. /\ queues' \in Seq(QueueIDs) /\ Len(queues') = len + 1
          /\ queues'[1] = queue
          /\ \A k \in 2..len + 1 : queues'[k] = queues[k - 1] /\ k - 1 \in 1..len
      <3>1. /\ <<queue>> \o queues \in Seq(QueueIDs)
            /\ Len(<<queue>> \o queues) = 1 + len
            /\ \A i \in 1..1 + len :
                  (<<queue>> \o queues)[i] = IF i =< 1 THEN <<queue>>[i] ELSE queues[i - 1]
            BY <1>0, <2>3, ConcatProperties
      <3>2. ASSUME NEW k \in 2..len + 1
            PROVE  queues'[k] = queues[k - 1] /\ k - 1 \in 1..len
            BY <1>0, <2>2, <3>1
      <3> QED BY <1>0, <2>2, <2>3, <3>1, <3>2
    <2>6. queues' # <<>> /\ Head(queues') = queue
          BY <1>0, <2>5
    <2>7. ASSUME NEW k \in 1..len + 1
          PROVE  queues'[k] =< len + 1 /\ age'[queues'[k]] = frame' - k + 1
      <3>1. CASE k = 1
        <4>1. queue =< len + 1
              BY <1>0 DEF queue
        <4>2. age'[queue] = frame'
              BY <1>0, <2>2, <2>3
        <4> QED BY <1>0, <2>5, <3>1, <4>1, <4>2
      <3>2. CASE k # 1
        <4>1. k \in 2..len + 1 /\ k - 1 \in 1..len
              BY <1>0, <3>2
        <4>2. queues'[k] = queues[k - 1]
              BY <2>5, <4>1
        <4>3. /\ queues[k - 1] =< len /\ age[queues[k - 1]] = frame - (k - 1) + 1
              /\ queues[k - 1] \in QueueIDs
              BY <1>2, <4>1
        <4>4. queues[k - 1] # queue /\ queues[k - 1] =< len + 1
              BY <1>0, <1>3, <4>3 DEF queue
        <4>5. age'[queues[k - 1]] = age[queues[k - 1]]
              BY <1>0, <2>2, <4>3, <4>4
        <4> QED BY <1>0, <4>1, <4>2, <4>3, <4>4, <4>5
      <3> QED BY <3>1, <3>2
    <2>8. ASSUME NEW q \in QueueIDs, q > len + 1
          PROVE  age'[q] = 0
      <3>1. q # queue /\ q > len
            BY <1>0, <1>3, <2>8 DEF queue
      <3> QED BY <1>0, <1>2, <2>2, <3>1
    <2>a. AgesInv'
          BY <1>a, <2>2, <2>3
    <2>9. PoolInv'
          BY <1>0, <1>2, <1>5, <2>a, <2>5, <2>6, <2>7, <2>8 DEF PoolInv
    <2> QED BY <1>0, <1>1, <2>2, <2>3, <2>4, <2>5, <2>6, <2>9
  <1> QED BY <1>0, <1>4, <1>5

(* The queue of the current frame.                                         *)
LEMMA CurrentQueue ==
    ASSUME Types, PoolInv, server # "idle"
    PROVE  current \in QueueIDs /\ age[current] = frame /\ frame \in Frames
  <1>1. queues # <<>> /\ queues \in Seq(QueueIDs) /\ frame \in 0..LastFrame
        BY DEF Types, PoolInv
  <1>2. /\ Head(queues) = queues[1] /\ queues[1] \in QueueIDs /\ 1 \in 1..Len(queues)
        /\ Len(queues) \in Nat \ {0}
        BY <1>1, TailElements
  <1>3. age[queues[1]] = frame - 1 + 1 /\ Len(queues) =< frame
        BY <1>2 DEF PoolInv
  <1> QED BY <1>1, <1>2, <1>3, TileQueueAssumption DEF current, Frames

-----------------------------------------------------------------------------
(* Channels.                                                               *)

(* The queue of the task a channel works on is the one of a frame that is  *)
(* open.                                                                   *)
LEMMA BusyOpen ==
    ASSUME Types, NEW c \in Channels, TasksInv(c), pc[c] # "idle"
    PROVE  /\ tasks[c] # <<>> /\ Head(tasks[c]) = tasks[c][1] /\ tasks[c][1] \in Tasks
           /\ 1 \in 1..Len(tasks[c]) /\ queueOf(c) \in QueueIDs
           /\ Open(c, age[queueOf(c)]) /\ age[queueOf(c)] = tasks[c][1].frame
           /\ TaskOf(c, tasks[c][1]) /\ queueOf(c) = tasks[c][1].queue
  <1>1. tasks[c] # <<>> /\ tasks[c] \in Seq(Tasks)
        BY DEF TasksInv, Types
  <1>2. Head(tasks[c]) = tasks[c][1] /\ tasks[c][1] \in Tasks /\ 1 \in 1..Len(tasks[c])
        BY <1>1, TailElements
  <1>3. TaskOf(c, tasks[c][1])
        BY <1>2 DEF TasksInv
  <1>4. tasks[c][1].queue \in QueueIDs
        BY <1>2 DEF Tasks
  <1> QED BY <1>1, <1>2, <1>3, <1>4 DEF TaskOf, queueOf

(* What a step of the server, or of another channel, leaves alone.         *)
OthersLeave(c) ==
    /\ tasks'[c] = tasks[c] /\ down'[c] = down[c] /\ up'[c] = up[c] /\ local'[c] = local[c]
    /\ pc'[c] = pc[c] /\ request'[c] = request[c] /\ finished'[c] = finished[c]

FramesLeave(c) ==
    /\ \A f \in Frames : Started(f) => Started(f)'
    /\ \A f \in Frames : Open(c, f) => Open(c, f)'
    /\ \A f \in Frames, q \in QueueIDs : Open(c, f) => (age'[q] = f <=> age[q] = f)
    /\ \A q \in QueueIDs : Open(c, age[q]) /\ items[q] = <<>> => items'[q] = <<>>

\* A frame a channel works on is one that was started.
LEMMA OpenFrame ==
    ASSUME Types, NEW c \in Channels, NEW f, Open(c, f)
    PROVE  f \in Frames
  BY TileQueueAssumption DEF Types, Open, Started, Frames

(* What a channel has sent stays true while it works on the same task.     *)
LEMMA UpSame ==
    ASSUME Types, NEW c \in Channels, UpInv(c), FramesLeave(c),
           up'[c] = up[c], request'[c] = request[c],
           \A q \in QueueIDs : Busy(c, q) => Busy(c, q)'
    PROVE  UpInv(c)'
  <1>u. \A k \in 1..Len(up[c]) :
           /\ up[c][k].type = "finish" => up[c][k].frame \in Frames
           /\ up[c][k].type = "getItem" => up[c][k].queue \in QueueIDs
    <2> SUFFICES ASSUME NEW k \in 1..Len(up[c])
                 PROVE  /\ up[c][k].type = "finish" => up[c][k].frame \in Frames
                        /\ up[c][k].type = "getItem" => up[c][k].queue \in QueueIDs
        OBVIOUS
    <2>1. up[c][k] \in Requests \cup Finishes
          BY ElementOfSeq DEF Types
    <2> QED BY <2>1 DEF Requests, Finishes
  <1>1. ASSUME NEW j \in 1..Len(up[c]), up[c][j].type = "finish", NEW f, f = up[c][j].frame
        PROVE  /\ Open(c, f)'
               /\ \A q \in QueueIDs : age'[q] = f => items'[q] = <<>>
               /\ \A k \in 1..j - 1 : up[c][k].type = "finish" => up[c][k].frame # f
    <2>1. /\ Open(c, f) /\ \A q \in QueueIDs : age[q] = f => items[q] = <<>>
          /\ \A k \in 1..j - 1 : up[c][k].type = "finish" => up[c][k].frame # f
          BY <1>1 DEF UpInv
    <2>2. f \in Frames
          BY <1>u, <1>1
    <2> QED BY <2>1, <2>2 DEF FramesLeave
  <1>2. ASSUME NEW k \in 1..Len(up[c]), up[c][k].type = "getItem", NEW q, q = up[c][k].queue
        PROVE  /\ up[c][k].request =< request[c]
               /\ \/ Busy(c, q)'
                  \/ \E j \in k + 1..Len(up[c]) :
                        up[c][j].type = "finish" /\ up[c][j].frame = age'[q]
    <2>1. /\ up[c][k].request =< request[c]
          /\ \/ Busy(c, q)
             \/ \E j \in k + 1..Len(up[c]) :
                   up[c][j].type = "finish" /\ up[c][j].frame = age[q]
          BY <1>2 DEF UpInv
    <2>2. q \in QueueIDs
          BY <1>u, <1>2
    <2>3. CASE Busy(c, q)
          BY <2>1, <2>2, <2>3
    <2>4. ASSUME NEW j \in k + 1..Len(up[c]), up[c][j].type = "finish", up[c][j].frame = age[q]
          PROVE  up[c][j].frame = age'[q]
      <3>1. j \in 1..Len(up[c])
            OBVIOUS
      <3>2. Open(c, up[c][j].frame) /\ up[c][j].frame \in Frames
            BY <1>u, <2>4, <3>1 DEF UpInv
      <3>3. age'[q] = up[c][j].frame <=> age[q] = up[c][j].frame
            BY <2>2, <3>2 DEF FramesLeave
      <3> QED BY <2>4, <3>3
    <2> QED BY <2>1, <2>3, <2>4
  <1>3. \A j \in 1..Len(up[c]) : up[c][j].type = "finish" =>
           /\ Open(c, up[c][j].frame)'
           /\ \A q \in QueueIDs : age'[q] = up[c][j].frame => items'[q] = <<>>
           /\ \A k \in 1..j - 1 : up[c][k].type = "finish" => up[c][k].frame # up[c][j].frame
        BY <1>1 DEF Open, Started
  <1>4. \A k \in 1..Len(up[c]) : up[c][k].type = "getItem" =>
           /\ up[c][k].request =< request[c]
           /\ \/ Busy(c, up[c][k].queue)'
              \/ \E j \in k + 1..Len(up[c]) :
                    up[c][j].type = "finish" /\ up[c][j].frame = age'[up[c][k].queue]
        BY <1>2 DEF Busy, queueOf
  <1> QED BY <1>3, <1>4 DEF UpInv

\* What is known of a channel survives steps of the others.
LEMMA ChannelSame ==
    ASSUME Types, ChannelInv, NEW c \in Channels, OthersLeave(c), FramesLeave(c)
    PROVE  FinishedInv(c)' /\ TasksInv(c)' /\ UpInv(c)' /\ DownInv(c)' /\ LocalInv(c)'
  <1>c. FinishedInv(c) /\ TasksInv(c) /\ UpInv(c) /\ DownInv(c) /\ LocalInv(c)
        BY DEF ChannelInv
  <1>o. /\ tasks'[c] = tasks[c] /\ down'[c] = down[c] /\ up'[c] = up[c] /\ local'[c] = local[c]
        /\ pc'[c] = pc[c] /\ request'[c] = request[c] /\ finished'[c] = finished[c]
        BY DEF OthersLeave
  <1>b. ASSUME NEW q
        PROVE  Busy(c, q)' <=> Busy(c, q)
        BY <1>o DEF Busy, queueOf
  <1>a. ASSUME NEW q, Busy(c, q)
        PROVE  q \in QueueIDs /\ Open(c, age[q]) /\ age'[q] = age[q]
    <2>1. q \in QueueIDs /\ Open(c, age[q])
          BY <1>a, <1>c, BusyOpen DEF Busy
    <2>2. age[q] \in Frames
          BY <2>1, OpenFrame
    <2> QED BY <2>1, <2>2 DEF FramesLeave
  <1>t. ASSUME NEW t \in Tasks, TaskOf(c, t)
        PROVE  TaskOf(c, t)'
    <2>1. t.frame \in Frames /\ t.queue \in QueueIDs /\ Open(c, t.frame)
          BY <1>t DEF Tasks, TaskOf
    <2>2. Open(c, t.frame)' /\ (age'[t.queue] = t.frame <=> age[t.queue] = t.frame)
          BY <2>1 DEF FramesLeave
    <2> QED BY <1>o, <1>t, <2>2 DEF TaskOf
  <1>1. TasksInv(c)'
    <2>1. \A k \in 1..Len(tasks[c]) : tasks[c][k] \in Tasks
          BY ElementOfSeq DEF Types
    <2>2. \A k \in 1..Len(down[c]) : IsTask(down[c][k]) => down[c][k] \in Tasks
      <3> SUFFICES ASSUME NEW k \in 1..Len(down[c]), IsTask(down[c][k])
                   PROVE  down[c][k] \in Tasks
          OBVIOUS
      <3>1. down[c][k] \in Tasks \cup Items \cup Empties
            BY ElementOfSeq DEF Types
      <3> QED BY <3>1 DEF IsTask, Items, Empties, ITEM, EMPTY
    <2>3. \A k \in 1..Len(tasks[c]) : TaskOf(c, tasks[c][k])'
      <3> SUFFICES ASSUME NEW k \in 1..Len(tasks[c]), NEW t, t = tasks[c][k]
                   PROVE  TaskOf(c, t)'
          BY <1>o DEF TaskOf, Open, Started
      <3> QED BY <1>c, <1>t, <2>1 DEF TasksInv
    <2>4. \A k \in 1..Len(down[c]) : IsTask(down[c][k])' => TaskOf(c, down[c][k])'
      <3> SUFFICES ASSUME NEW k \in 1..Len(down[c]), NEW t, t = down[c][k], IsTask(t)
                   PROVE  TaskOf(c, t)'
          BY <1>o DEF TaskOf, Open, Started, IsTask
      <3> QED BY <1>c, <1>t, <2>2 DEF TasksInv
    <2> QED BY <1>c, <1>o, <2>3, <2>4 DEF TasksInv, IsTask
  <1>2. UpInv(c)'
        BY <1>b, <1>c, <1>o, UpSame
  <1>p. ASSUME NEW p, TileOf(c, p)
        PROVE  TileOf(c, p)'
        BY <1>a, <1>b, <1>p DEF TileOf
  <1>e. ASSUME NEW p
        PROVE  EndOf(c, p)' <=> EndOf(c, p)
        BY <1>b, <1>o DEF EndOf
  <1>i. ASSUME NEW p, EndOf(c, p), items[p.queue] = <<>>
        PROVE  items'[p.queue] = <<>>
    <2>1. p.queue \in QueueIDs /\ Open(c, age[p.queue])
          BY <1>a, <1>i DEF EndOf
    <2> QED BY <1>i, <2>1 DEF FramesLeave
  <1>3. DownInv(c)'
    <2> SUFFICES ASSUME NEW k \in 1..Len(down[c]), NEW p, p = down[c][k]
                 PROVE  /\ p.type = ITEM => TileOf(c, p)'
                        /\ p.type = EMPTY => p.request =< request[c]
                        /\ EndOf(c, p)' => /\ items'[p.queue] = <<>>
                                           /\ \A j \in k + 1..Len(down[c]) : down[c][j].type # ITEM
        BY <1>o DEF DownInv, TileOf, EndOf, Busy, queueOf
    <2>1. /\ p.type = ITEM => TileOf(c, p)
          /\ p.type = EMPTY => p.request =< request[c]
          /\ EndOf(c, p) => /\ items[p.queue] = <<>>
                            /\ \A j \in k + 1..Len(down[c]) : down[c][j].type # ITEM
          BY <1>c DEF DownInv
    <2> QED BY <1>p, <1>e, <1>i, <2>1
  <1>4. LocalInv(c)'
    <2> SUFFICES ASSUME NEW q \in QueueIDs, NEW k \in 1..Len(local[c][q]), NEW p, p = local[c][q][k]
                 PROVE  /\ p.queue = q
                        /\ p.type = ITEM => TileOf(c, p)'
                        /\ p.type = EMPTY => p.request =< request[c]
                        /\ EndOf(c, p)' =>
                              /\ items'[q] = <<>>
                              /\ \A j \in k + 1..Len(local[c][q]) : local[c][q][j].type # ITEM
                              /\ \A j \in 1..Len(down[c]) : down[c][j].type # ITEM
        BY <1>o DEF LocalInv, TileOf, EndOf, Busy, queueOf
    <2>1. /\ p.queue = q
          /\ p.type = ITEM => TileOf(c, p)
          /\ p.type = EMPTY => p.request =< request[c]
          /\ EndOf(c, p) =>
                /\ items[q] = <<>>
                /\ \A j \in k + 1..Len(local[c][q]) : local[c][q][j].type # ITEM
                /\ \A j \in 1..Len(down[c]) : down[c][j].type # ITEM
          BY <1>c DEF LocalInv
    <2> QED BY <1>p, <1>e, <1>i, <2>1
  <1>5. FinishedInv(c)'
    <2>1. \A f \in finished[c] : f \in Frames /\ Started(f)
          BY <1>c DEF Types, FinishedInv
    <2> QED BY <1>o, <2>1 DEF FinishedInv, FramesLeave
  <1> QED BY <1>1, <1>2, <1>3, <1>4, <1>5

-----------------------------------------------------------------------------
(* The server's main thread.                                               *)

\* cycleData: a queue is taken for the frame.
LEMMA CycleStep ==
    ASSUME TileInv, NEW channels \in SUBSET Channels, NEW pvp \in Viewports,
           CycleData(channels, pvp)
    PROVE  TileInv'
  <1>t. Types /\ PoolInv /\ TilesInv /\ ChannelInv /\ TilesOfFrame
        BY DEF TileInv
  <1>0. /\ server = "idle" /\ server' = "clear"
        /\ \A f \in 1..frame - Latency : Done(f)
        /\ active' = [active EXCEPT ![frame'] = channels]
        /\ viewport' = [viewport EXCEPT ![frame'] = pvp]
        /\ items' = items /\ toPush' = toPush /\ down' = down /\ up' = up /\ finished' = finished
        /\ tasks' = tasks /\ local' = local /\ pc' = pc /\ request' = request /\ drawn' = drawn
        BY DEF CycleData, channelVars
  <1>1. /\ queues' \in Seq(QueueIDs) /\ queues' # <<>> /\ frame' = frame + 1 /\ frame' \in Frames
        /\ \E queue \in QueueIDs :
              /\ age' = [age EXCEPT ![queue] = frame'] /\ queue = Head(queues')
              /\ age[queue] = 0 \/ age[queue] \in 1..frame - Latency
        /\ PoolInv'
        BY <1>t, CyclePool
  <1>2. PICK queue \in QueueIDs : /\ age' = [age EXCEPT ![queue] = frame'] /\ queue = Head(queues')
                                  /\ age[queue] = 0 \/ age[queue] \in 1..frame - Latency
        BY <1>1
  <1>3. frame \in Nat /\ LastFrame \in Nat /\ Latency \in Nat /\ frame' \in 0..LastFrame
        BY <1>1, <1>t, TileQueueAssumption DEF Types, Frames
  <1>4. /\ \A q \in QueueIDs : q # queue => age'[q] = age[q]
        /\ age'[queue] = frame' /\ age' \in [QueueIDs -> Nat]
        BY <1>1, <1>2, <1>3, <1>t DEF Types
  <1>5. Types'
    <2>1. active' \in [Frames -> SUBSET Channels]
          BY <1>0, <1>1, <1>t DEF Types
    <2>2. viewport' \in [Frames -> Nat \X Nat]
      <3>1. pvp \in Nat \X Nat
            BY TileQueueAssumption
      <3> HIDE <1>1
      <3> QED BY <1>0, <1>t, <3>1 DEF Types
    <2> QED BY <1>0, <1>1, <1>3, <1>4, <1>t, <2>1, <2>2 DEF Types
  <1>6. TilesInv'
    <2>1. \A q \in QueueIDs : ~Clearing(q)
          BY <1>0 DEF Clearing
    <2>2. Clearing(queue)'
          BY <1>0, <1>2 DEF Clearing, current
    <2>3. toPush = <<>>
          BY <1>0, <1>t DEF TilesInv
    <2>4. ASSUME NEW q \in QueueIDs, ~Clearing(q)'
          PROVE  \A k \in 1..Len(items'[q]) : items'[q][k].frame = age'[q]
      <3>1. q # queue
            BY <2>2, <2>4 DEF Clearing
      <3> QED BY <1>0, <1>4, <1>t, <2>1, <3>1 DEF TilesInv
    <2>5. \A k \in 1..Len(toPush') : toPush'[k].frame = frame'
          BY <1>0, <2>3
    <2> QED BY <1>0, <2>3, <2>4, <2>5 DEF TilesInv
  <1>7. ASSUME NEW c \in Channels
        PROVE  OthersLeave(c) /\ FramesLeave(c)
    <2>1. OthersLeave(c)
          BY <1>0 DEF OthersLeave
    <2>2. \A f \in Frames : Started(f) => Started(f)' /\ f # frame'
          BY <1>1, <1>3 DEF Started, Frames
    <2>3. \A f \in Frames : Open(c, f) => Open(c, f)' /\ f # frame'
      <3>1. \A f \in Frames : f # frame' => active'[f] = active[f]
            BY <1>0, <1>t DEF Types
      <3> QED BY <1>0, <2>2, <3>1 DEF Open
    <2>4. ASSUME NEW f \in Frames, Open(c, f)
          PROVE  age[queue] # f
      <3>1. f \in Nat \ {0} /\ f \notin finished[c] /\ c \in active[f]
            BY <2>4 DEF Frames, Open
      <3>2. CASE age[queue] \in 1..frame - Latency
        <4>1. Done(age[queue])
              BY <1>0, <3>2
        <4> QED BY <3>1, <4>1 DEF Done
      <3> QED BY <1>2, <3>1, <3>2
    <2>5. \A f \in Frames, q \in QueueIDs : Open(c, f) => (age'[q] = f <=> age[q] = f)
          BY <1>4, <2>3, <2>4
    <2> QED BY <1>0, <2>1, <2>2, <2>3, <2>5 DEF FramesLeave
  <1>8. ChannelInv'
        BY <1>7, <1>t, ChannelSame DEF ChannelInv
  <1>9. TilesOfFrame'
        BY <1>0, <1>t DEF TilesOfFrame
  <1> QED BY <1>1, <1>5, <1>6, <1>8, <1>9 DEF TileInv

(* The frames that are open do not use the queue the server fills.         *)
LEMMA ServerFills ==
    ASSUME Types, PoolInv, server # "idle", server' # "idle",
           NEW c \in Channels,
           frame' = frame, active' = active, finished' = finished, age' = age,
           \A q \in QueueIDs : q # current => items'[q] = items[q]
    PROVE  FramesLeave(c)
  <1>1. age[current] = frame
        BY CurrentQueue
  <1>2. ASSUME NEW f \in Frames
        PROVE  (Started(f) => Started(f)' /\ f # frame)
               /\ (Open(c, f) => Open(c, f)' /\ f # frame)
        BY DEF Started, Open, Types, Frames
  <1>3. ASSUME NEW q \in QueueIDs, Open(c, age[q]), items[q] = <<>>
        PROVE  items'[q] = <<>>
    <2>1. age[q] \in Frames
          BY <1>3, OpenFrame
    <2>2. q # current
          BY <1>1, <1>2, <1>3, <2>1
    <2> QED BY <1>3, <2>2
  <1> QED BY <1>2, <1>3 DEF FramesLeave

\* clear and push.
LEMMA FillStep ==
    ASSUME TileInv, ClearTest \/ ClearPop \/ Push
    PROVE  TileInv'
  <1>t. Types /\ PoolInv /\ TilesInv /\ ChannelInv /\ TilesOfFrame
        BY DEF TileInv
  <1>0. /\ server # "idle" /\ server' \in {"clear", "clearPop", "push"}
        /\ frame' = frame /\ active' = active /\ viewport' = viewport /\ queues' = queues
        /\ age' = age /\ down' = down /\ up' = up /\ finished' = finished
        /\ tasks' = tasks /\ local' = local /\ pc' = pc /\ request' = request /\ drawn' = drawn
        BY DEF ClearTest, ClearPop, Push, channelVars
  <1>1. current \in QueueIDs /\ age[current] = frame /\ frame \in Frames /\ current' = current
        BY <1>0, <1>t, CurrentQueue DEF current
  <1>2. /\ items' \in [QueueIDs -> Seq(Tiles)] /\ toPush' \in Seq(Tiles)
        /\ \A q \in QueueIDs : q # current => items'[q] = items[q]
        /\ server' = "push" =>
              /\ \A k \in 1..Len(items'[current]) : items'[current][k].frame = frame
              /\ \A k \in 1..Len(toPush') : toPush'[k].frame = frame
        /\ server' # "push" => toPush' = <<>>
    <2>i. items \in [QueueIDs -> Seq(Tiles)] /\ items[current] \in Seq(Tiles) /\ toPush \in Seq(Tiles)
          BY <1>1, <1>t DEF Types
    <2>1. CASE ClearTest /\ items[current] # <<>>
          BY <1>t, <2>1, <2>i DEF ClearTest, TilesInv
    <2>2. CASE ClearTest /\ items[current] = <<>>
      <3>1. viewport[frame] \in Nat \X Nat
            BY <1>1, <1>t DEF Types
      <3>2. /\ GenerateTiles(frame, viewport[frame]) \in Seq(Tiles)
            /\ \A k \in 1..Len(GenerateTiles(frame, viewport[frame])) :
                  GenerateTiles(frame, viewport[frame])[k].frame = frame
            BY <1>1, <3>1, TilesOf
      <3>3. server' = "push" /\ toPush' = GenerateTiles(frame, viewport[frame]) /\ items' = items
            BY <2>2 DEF ClearTest
      <3> QED BY <2>2, <2>i, <3>2, <3>3
    <2>3. CASE ClearPop
      <3>1. items' = [items EXCEPT ![current] = Tail(items[current])] /\ items[current] # <<>>
            /\ server = "clearPop" /\ server' = "clear" /\ toPush' = toPush
            BY <2>3 DEF ClearPop
      <3>2. Tail(items[current]) \in Seq(Tiles)
            BY <2>i, <3>1, TailElements
      <3> QED BY <1>1, <1>t, <2>i, <3>1, <3>2 DEF TilesInv
    <2>4. CASE Push
      <3>1. /\ items' = [items EXCEPT ![current] = Append(items[current], Head(toPush))]
            /\ toPush # <<>> /\ toPush' = Tail(toPush) /\ server = "push" /\ server' = "push"
            BY <2>4 DEF Push
      <3>2. /\ Tail(toPush) \in Seq(Tiles) /\ Head(toPush) = toPush[1] /\ toPush[1] \in Tiles
            /\ 1 \in 1..Len(toPush)
            /\ \A k \in 1..Len(Tail(toPush)) :
                  Tail(toPush)[k] = toPush[k + 1] /\ k + 1 \in 1..Len(toPush)
            BY <2>i, <3>1, TailElements
      <3> DEFINE new == Append(items[current], Head(toPush))
      <3>3. /\ new \in Seq(Tiles) /\ Len(items[current]) \in Nat
            /\ Len(new) = Len(items[current]) + 1
            /\ new[Len(items[current]) + 1] = Head(toPush)
            /\ \A k \in 1..Len(items[current]) : new[k] = items[current][k]
            /\ \A k \in 1..Len(items[current]) + 1 :
                  k \in 1..Len(items[current]) \/ k = Len(items[current]) + 1
            BY <2>i, <3>2, AppendElements
      <3>4. /\ \A k \in 1..Len(items[current]) : items[current][k].frame = frame
            /\ \A k \in 1..Len(toPush) : toPush[k].frame = frame
            BY <1>1, <1>t, <3>1 DEF TilesInv, Clearing
      <3> HIDE DEF new
      <3>5. items' = [items EXCEPT ![current] = new]
            BY <3>1 DEF new
      <3>6. items'[current] = new
            BY <1>1, <2>i, <3>5
      <3>7. \A k \in 1..Len(new) : new[k].frame = frame
            BY <3>2, <3>3, <3>4, SMTT(30)
      <3> QED BY <1>1, <2>i, <3>1, <3>2, <3>3, <3>4, <3>5, <3>6, <3>7
    <2> QED BY <2>1, <2>2, <2>3, <2>4
  <1>3. Types'
        BY <1>0, <1>2, <1>t DEF Types
  <1>4. PoolInv'
        BY <1>0, <1>t DEF PoolInv, AgesInv
  <1>5. TilesInv'
    <2>1. ASSUME NEW q \in QueueIDs, ~Clearing(q)'
          PROVE  \A k \in 1..Len(items'[q]) : items'[q][k].frame = age'[q]
      <3>1. CASE q = current
            BY <1>0, <1>1, <1>2, <2>1, <3>1 DEF Clearing
      <3>2. CASE q # current
            BY <1>0, <1>2, <1>t, <3>2 DEF TilesInv, Clearing
      <3> QED BY <3>1, <3>2
    <2>2. \A k \in 1..Len(toPush') : toPush'[k].frame = frame'
          BY <1>0, <1>2
    <2> QED BY <1>2, <2>1, <2>2 DEF TilesInv
  <1>6. ASSUME NEW c \in Channels
        PROVE  OthersLeave(c) /\ FramesLeave(c)
    <2>1. OthersLeave(c)
          BY <1>0 DEF OthersLeave
    <2> QED BY <1>0, <1>2, <1>t, <2>1, ServerFills
  <1>7. ChannelInv'
        BY <1>6, <1>t, ChannelSame DEF ChannelInv
  <1>8. TilesOfFrame'
        BY <1>0, <1>t DEF TilesOfFrame
  <1> QED BY <1>3, <1>4, <1>5, <1>7, <1>8 DEF TileInv

(* What is in the streams and in the queues of a channel.                  *)
LEMMA Packets ==
    ASSUME Types, NEW c \in Channels
    PROVE  /\ \A k \in 1..Len(tasks[c]) :
                 tasks[c][k] \in Tasks /\ tasks[c][k].frame \in Frames /\ tasks[c][k].queue \in QueueIDs
           /\ \A k \in 1..Len(down[c]) :
                 /\ down[c][k].queue \in QueueIDs
                 /\ IsTask(down[c][k]) => down[c][k] \in Tasks /\ down[c][k].frame \in Frames
                 /\ ~IsTask(down[c][k]) => down[c][k] \in Items \cup Empties
                 /\ down[c][k].type = EMPTY => down[c][k].request \in Nat
           /\ \A k \in 1..Len(up[c]) :
                 /\ up[c][k].type = "finish" => up[c][k].frame \in Frames
                 /\ up[c][k].type = "getItem" => up[c][k].queue \in QueueIDs /\ up[c][k].request \in Nat
           /\ \A q \in QueueIDs : \A k \in 1..Len(local[c][q]) :
                 /\ local[c][q][k].type = ITEM => local[c][q][k] \in Items
                 /\ local[c][q][k].type = EMPTY => local[c][q][k].request \in Nat
  <1>1. ASSUME NEW k \in 1..Len(tasks[c])
        PROVE  tasks[c][k] \in Tasks /\ tasks[c][k].frame \in Frames /\ tasks[c][k].queue \in QueueIDs
    <2>1. tasks[c][k] \in Tasks
          BY ElementOfSeq DEF Types
    <2> QED BY <2>1 DEF Tasks
  <1>2. ASSUME NEW k \in 1..Len(down[c])
        PROVE  /\ down[c][k].queue \in QueueIDs
               /\ IsTask(down[c][k]) => down[c][k] \in Tasks /\ down[c][k].frame \in Frames
               /\ ~IsTask(down[c][k]) => down[c][k] \in Items \cup Empties
               /\ down[c][k].type = EMPTY => down[c][k].request \in Nat
    <2>1. down[c][k] \in Tasks \cup Items \cup Empties
          BY ElementOfSeq DEF Types
    <2> QED BY <2>1 DEF IsTask, Tasks, Items, Empties, ITEM, EMPTY
  <1>3. ASSUME NEW k \in 1..Len(up[c])
        PROVE  /\ up[c][k].type = "finish" => up[c][k].frame \in Frames
               /\ up[c][k].type = "getItem" => up[c][k].queue \in QueueIDs /\ up[c][k].request \in Nat
    <2>1. up[c][k] \in Requests \cup Finishes
          BY ElementOfSeq DEF Types
    <2> QED BY <2>1 DEF Requests, Finishes
  <1>4. ASSUME NEW q \in QueueIDs, NEW k \in 1..Len(local[c][q])
        PROVE  /\ local[c][q][k].type = ITEM => local[c][q][k] \in Items
               /\ local[c][q][k].type = EMPTY => local[c][q][k].request \in Nat
    <2>1. local[c][q][k] \in Items \cup Empties
          BY ElementOfSeq DEF Types
    <2> QED BY <2>1 DEF Items, Empties, ITEM, EMPTY
  <1> QED BY <1>1, <1>2, <1>3, <1>4

-----------------------------------------------------------------------------
\* TileInv holds at first.
LEMMA TileInit ==
    ASSUME Init
    PROVE  TileInv
  <1>0. /\ frame = 0 /\ server = "idle" /\ queues = <<>> /\ toPush = <<>>
        /\ active = [f \in Frames |-> {}] /\ viewport = [f \in Frames |-> <<0, 0>>]
        /\ age = [q \in QueueIDs |-> 0] /\ items = [q \in QueueIDs |-> <<>>]
        /\ down = [c \in Channels |-> <<>>] /\ up = [c \in Channels |-> <<>>]
        /\ tasks = [c \in Channels |-> <<>>]
        /\ local = [c \in Channels |-> [q \in QueueIDs |-> <<>>]]
        /\ pc = [c \in Channels |-> "idle"] /\ request = [c \in Channels |-> 0]
        /\ finished = [c \in Channels |-> {}] /\ drawn = [f \in Frames |-> EmptyBag]
        BY DEF Init
  <1>1. Types
        BY <1>0, TileQueueAssumption DEF Types
  <1>2. PoolInv
        BY <1>0, TileQueueAssumption DEF PoolInv, AgesInv
  <1>3. TilesInv
        BY <1>0 DEF TilesInv
  <1>4. ASSUME NEW c \in Channels
        PROVE  FinishedInv(c) /\ TasksInv(c) /\ UpInv(c) /\ DownInv(c) /\ LocalInv(c)
    <2>1. /\ tasks[c] = <<>> /\ down[c] = <<>> /\ up[c] = <<>> /\ pc[c] = "idle" /\ finished[c] = {}
          /\ \A q \in QueueIDs : local[c][q] = <<>>
          BY <1>0
    <2> QED BY <2>1 DEF FinishedInv, TasksInv, UpInv, DownInv, LocalInv
  <1>5. TilesOfFrame
    <2>1. BagToSet(EmptyBag) = {}
          BY DEF BagToSet, EmptyBag, SetToBag
    <2> QED BY <1>0, <2>1 DEF TilesOfFrame
  <1> QED BY <1>1, <1>2, <1>3, <1>4, <1>5 DEF TileInv, ChannelInv

(* The channels of the frame are told, when all its tiles are in the queue.*)
LEMMA SendStep ==
    ASSUME TileInv, SendTasks
    PROVE  TileInv'
  <1>t. Types /\ PoolInv /\ TilesInv /\ ChannelInv /\ TilesOfFrame
        BY DEF TileInv
  <1>0. /\ server = "push" /\ server' = "idle" /\ toPush = <<>> /\ toPush' = toPush
        /\ frame' = frame /\ active' = active /\ viewport' = viewport /\ queues' = queues
        /\ age' = age /\ items' = items /\ up' = up /\ finished' = finished
        /\ tasks' = tasks /\ local' = local /\ pc' = pc /\ request' = request /\ drawn' = drawn
        BY DEF SendTasks, channelVars
  <1>1. current \in QueueIDs /\ age[current] = frame /\ frame \in Frames /\ current' = current
        BY <1>0, <1>t, CurrentQueue DEF current
  <1> DEFINE task == [type |-> "tiles", frame |-> frame, queue |-> current]
  <1>2. down' = [c \in Channels |-> IF c \in active[frame] THEN Append(down[c], task) ELSE down[c]]
        BY DEF SendTasks
  <1>3. task \in Tasks /\ IsTask(task) /\ task.frame = frame /\ task.queue = current
        /\ task.type # ITEM /\ task.type # EMPTY
        BY <1>1 DEF Tasks, IsTask, ITEM, EMPTY
  <1> HIDE DEF task
  <1>4. down \in [Channels -> Seq(Tasks \cup Items \cup Empties)]
        BY <1>t DEF Types
  <1>5. Types'
    <2>1. \A c \in Channels : Append(down[c], task) \in Seq(Tasks \cup Items \cup Empties)
          BY <1>3, <1>4, AppendElements
    <2>2. down' \in [Channels -> Seq(Tasks \cup Items \cup Empties)]
          BY <1>2, <1>4, <2>1
    <2> QED BY <1>0, <1>t, <2>2 DEF Types
  <1>6. PoolInv'
        BY <1>0, <1>t DEF PoolInv, AgesInv
  <1>7. TilesInv'
        BY <1>0, <1>t DEF TilesInv, Clearing, current
  <1>8. ASSUME NEW c \in Channels
        PROVE  FramesLeave(c)
        BY <1>0 DEF FramesLeave, Started, Open
  <1>9. ASSUME NEW c \in Channels, c \notin active[frame]
        PROVE  FinishedInv(c)' /\ TasksInv(c)' /\ UpInv(c)' /\ DownInv(c)' /\ LocalInv(c)'
    <2>1. OthersLeave(c)
          BY <1>0, <1>2, <1>9 DEF OthersLeave
    <2> QED BY <1>8, <1>t, <2>1, ChannelSame
  <1>10. ASSUME NEW c \in Channels, c \in active[frame]
         PROVE  FinishedInv(c)' /\ TasksInv(c)' /\ UpInv(c)' /\ DownInv(c)' /\ LocalInv(c)'
    <2>c. FinishedInv(c) /\ TasksInv(c) /\ UpInv(c) /\ DownInv(c) /\ LocalInv(c)
          BY <1>t DEF ChannelInv
    <2>1. down'[c] = Append(down[c], task)
          BY <1>2, <1>10
    <2>2. /\ Len(down[c]) \in Nat /\ Len(down'[c]) = Len(down[c]) + 1
          /\ down'[c][Len(down[c]) + 1] = task
          /\ \A k \in 1..Len(down[c]) : down'[c][k] = down[c][k]
          /\ \A k \in 1..Len(down[c]) + 1 : k \in 1..Len(down[c]) \/ k = Len(down[c]) + 1
      <3>1. task \in Tasks \cup Items \cup Empties /\ down[c] \in Seq(Tasks \cup Items \cup Empties)
            BY <1>3, <1>4
      <3> QED BY <2>1, <3>1, AppendElements
    <2>3. FinishedInv(c)'
          BY <1>0, <2>c DEF FinishedInv, Started
    <2>4. \A f \in Frames : /\ Started(f) => Started(f)' /\ f < frame
                            /\ Open(c, f) => Open(c, f)' /\ f < frame
      <3>1. frame \in Nat /\ \A f \in Frames : f \in Nat
            BY <1>1 DEF Frames
      <3> QED BY <1>0, <3>1 DEF Started, Open
    <2>5. ASSUME NEW t, t.frame \in Frames, TaskOf(c, t)
          PROVE  TaskOf(c, t)' /\ t.frame < frame
          BY <1>0, <2>4, <2>5 DEF TaskOf
    <2>6. ASSUME NEW t, t = task
          PROVE  TaskOf(c, t)'
      <3>1. frame \notin finished[c]
            BY <1>1, <2>4, <2>c DEF FinishedInv, Frames
      <3>2. Open(c, frame)'
            BY <1>0, <1>1, <1>10, <3>1 DEF Open, Started, Frames
      <3>3. ASSUME NEW j \in 1..Len(up[c]), up[c][j].type = "finish"
            PROVE  up[c][j].frame # frame
        <4>1. up[c][j].frame \in Frames
              BY <1>t, <3>3, Packets
        <4>2. Open(c, up[c][j].frame)
              BY <2>c, <3>3 DEF UpInv
        <4> QED BY <1>1, <2>4, <4>1, <4>2 DEF Frames
      <3> QED BY <1>0, <1>1, <1>3, <2>6, <3>2, <3>3 DEF TaskOf, Open, Started
    <2>7. TasksInv(c)'
      <3>1. \A k \in 1..Len(tasks[c]) : TaskOf(c, tasks[c][k]) /\ tasks[c][k].frame \in Frames
            BY <1>t, <2>c, Packets DEF TasksInv
      <3>2. \A k \in 1..Len(down[c]) : IsTask(down[c][k]) =>
                                          TaskOf(c, down[c][k]) /\ down[c][k].frame \in Frames
            BY <1>t, <2>c, Packets DEF TasksInv
      <3>3. ASSUME NEW k \in 1..Len(tasks[c]), NEW t, t = tasks[c][k]
            PROVE  TaskOf(c, t)' /\ t.frame < frame
            BY <2>5, <3>1, <3>3
      <3>4. ASSUME NEW k \in 1..Len(down[c]), NEW t, t = down[c][k], IsTask(t)
            PROVE  TaskOf(c, t)' /\ t.frame < frame
            BY <2>5, <3>2, <3>4
      <3>5. ASSUME NEW k \in 1..Len(down'[c]), NEW t, t = down'[c][k], IsTask(t)
            PROVE  TaskOf(c, t)'
        <4>1. CASE k \in 1..Len(down[c])
              BY <2>2, <3>4, <3>5, <4>1
        <4>2. CASE k = Len(down[c]) + 1
          <5>1. t = task
                BY <2>2, <3>5, <4>2
          <5> QED BY <2>6, <5>1
        <4> QED BY <2>2, <3>5, <4>1, <4>2
      <3>6. \A k \in 1..Len(tasks'[c]) : TaskOf(c, tasks[c][k])'
            BY <1>0, <3>3 DEF TaskOf, Open, Started
      <3>7. \A k \in 1..Len(down'[c]) : IsTask(down[c][k])' => TaskOf(c, down[c][k])'
            BY <3>5 DEF TaskOf, Open, Started, IsTask
      <3>8. \A j \in 1..Len(tasks[c]), k \in 1..Len(down'[c]) :
               IsTask(down'[c][k]) => tasks[c][j].frame < down'[c][k].frame
            BY <1>3, <2>2, <2>c, <3>3 DEF TasksInv
      <3>9. \A j, k \in 1..Len(down'[c]) :
               j < k /\ IsTask(down'[c][j]) /\ IsTask(down'[c][k]) => down'[c][j].frame < down'[c][k].frame
            BY <1>3, <2>2, <2>c, <3>4 DEF TasksInv
      <3> QED BY <1>0, <2>c, <3>6, <3>7, <3>8, <3>9 DEF TasksInv, IsTask
    <2>8. UpInv(c)'
      <3>1. \A q \in QueueIDs : Busy(c, q) => Busy(c, q)'
            BY <1>0 DEF Busy, queueOf
      <3> QED BY <1>0, <1>8, <1>t, <2>c, <3>1, UpSame
    <2>9. DownInv(c)'
      <3> SUFFICES ASSUME NEW k \in 1..Len(down'[c]), NEW p, p = down'[c][k]
                   PROVE  /\ p.type = ITEM => TileOf(c, p)'
                          /\ p.type = EMPTY => p.request =< request[c]
                          /\ EndOf(c, p)' => /\ items[p.queue] = <<>>
                                             /\ \A j \in k + 1..Len(down'[c]) : down'[c][j].type # ITEM
          BY <1>0 DEF DownInv, TileOf, EndOf, Busy, queueOf
      <3>1. CASE k \in 1..Len(down[c])
        <4>1. /\ p.type = ITEM => TileOf(c, p)
              /\ p.type = EMPTY => p.request =< request[c]
              /\ EndOf(c, p) => /\ items[p.queue] = <<>>
                                /\ \A j \in k + 1..Len(down[c]) : down[c][j].type # ITEM
              BY <2>2, <2>c, <3>1 DEF DownInv
        <4>2. (TileOf(c, p) => TileOf(c, p)') /\ (EndOf(c, p)' => EndOf(c, p))
              BY <1>0 DEF TileOf, EndOf, Busy, queueOf
        <4> QED BY <1>3, <2>2, <4>1, <4>2, SMTT(30)
      <3>2. CASE k = Len(down[c]) + 1
            BY <1>3, <2>2, <3>2 DEF EndOf
      <3> QED BY <2>2, <3>1, <3>2
    <2>10. LocalInv(c)'
          BY <1>0, <1>3, <2>2, <2>c, SMTT(30) DEF LocalInv, TileOf, EndOf, Busy, queueOf
    <2> QED BY <2>3, <2>7, <2>8, <2>9, <2>10
  <1>11. TilesOfFrame'
         BY <1>0, <1>t DEF TilesOfFrame
  <1> QED BY <1>5, <1>6, <1>7, <1>9, <1>10, <1>11 DEF TileInv, ChannelInv

-----------------------------------------------------------------------------
(* The threads of a channel.                                               *)

(* What a channel leaves alone.                                            *)
ServerLeaves ==
    /\ frame' = frame /\ server' = server /\ active' = active /\ viewport' = viewport
    /\ queues' = queues /\ age' = age /\ items' = items /\ toPush' = toPush
    /\ finished' = finished

\* Steps of a channel concern that channel only.
LEMMA OwnStep ==
    ASSUME TileInv, ServerLeaves, NEW c \in Channels,
           \A d \in Channels : d # c => OthersLeave(d),
           Types', TasksInv(c)', UpInv(c)', DownInv(c)', LocalInv(c)', TilesOfFrame'
    PROVE  TileInv'
  <1>t. Types /\ PoolInv /\ TilesInv /\ ChannelInv
        BY DEF TileInv
  <1>1. PoolInv'
        BY <1>t DEF ServerLeaves, PoolInv, AgesInv
  <1>2. TilesInv'
        BY <1>t DEF ServerLeaves, TilesInv, Clearing, current
  <1>3. FinishedInv(c)'
        BY <1>t DEF ServerLeaves, ChannelInv, FinishedInv, Started
  <1>4. ASSUME NEW d \in Channels, d # c
        PROVE  FinishedInv(d)' /\ TasksInv(d)' /\ UpInv(d)' /\ DownInv(d)' /\ LocalInv(d)'
    <2>1. FramesLeave(d)
          BY DEF ServerLeaves, FramesLeave, Started, Open
    <2> QED BY <1>4, <1>t, <2>1, ChannelSame
  <1>5. ChannelInv'
        BY <1>3, <1>4 DEF ChannelInv
  <1> QED BY <1>1, <1>2, <1>5 DEF TileInv

(* The tasks of a channel that none of its threads takes.                  *)
LEMMA TasksSame ==
    ASSUME ServerLeaves, NEW c \in Channels, TasksInv(c),
           tasks'[c] = tasks[c], down'[c] = down[c], up'[c] = up[c],
           pc'[c] # "idle" => tasks[c] # <<>>
    PROVE  TasksInv(c)'
  BY DEF ServerLeaves, TasksInv, TaskOf, Open, Started, IsTask

\* _frameTiles: a channel begins with its task.
LEMMA FrameTilesStep ==
    ASSUME TileInv, NEW c \in Channels, FrameTiles(c)
    PROVE  TileInv'
  <1>t. Types /\ ChannelInv /\ TilesOfFrame
        BY DEF TileInv
  <1>c. TasksInv(c) /\ UpInv(c) /\ DownInv(c) /\ LocalInv(c)
        BY <1>t DEF ChannelInv
  <1>0. /\ pc[c] = "idle" /\ tasks[c] # <<>> /\ pc' = [pc EXCEPT ![c] = "request"]
        /\ request' = [request EXCEPT ![c] = request[c] + 1]
        /\ down' = down /\ up' = up /\ tasks' = tasks /\ local' = local /\ drawn' = drawn
        /\ ServerLeaves
        BY DEF FrameTiles, serverVars, ServerLeaves
  <1>1. /\ pc'[c] = "request" /\ request'[c] = request[c] + 1 /\ request[c] \in Nat
        /\ \A d \in Channels : d # c => OthersLeave(d)
        BY <1>0, <1>t DEF Types, OthersLeave, ServerLeaves
  <1>2. Types'
    <2>1. pc' \in [Channels -> {"idle", "request", "pop"}] /\ request' \in [Channels -> Nat]
          BY <1>0, <1>t DEF Types
    <2> QED BY <1>0, <1>t, <2>1 DEF Types, ServerLeaves
  <1>3. \A q : ~Busy(c, q)
        BY <1>0 DEF Busy
  <1>4. TasksInv(c)'
        BY <1>0, <1>c, TasksSame
  <1>5. UpInv(c)'
    <2>1. \A j \in 1..Len(up[c]) : up[c][j].type = "finish" =>
             /\ Open(c, up[c][j].frame)'
             /\ \A q \in QueueIDs : age'[q] = up[c][j].frame => items'[q] = <<>>
             /\ \A k \in 1..j - 1 : up[c][k].type = "finish" => up[c][k].frame # up[c][j].frame
          BY <1>0, <1>c DEF UpInv, ServerLeaves, Open, Started
    <2>2. \A k \in 1..Len(up[c]) : up[c][k].type = "getItem" =>
             /\ up[c][k].request =< request[c] /\ up[c][k].request \in Nat
             /\ \E j \in k + 1..Len(up[c]) :
                   up[c][j].type = "finish" /\ up[c][j].frame = age[up[c][k].queue]
          BY <1>3, <1>c, <1>t, Packets DEF UpInv
    <2>3. \A k \in 1..Len(up[c]) : up[c][k].type = "getItem" => up[c][k].request =< request'[c]
          BY <1>1, <2>2
    <2> QED BY <1>0, <2>1, <2>2, <2>3 DEF UpInv, ServerLeaves
  <1>6. DownInv(c)'
    <2>1. \A k \in 1..Len(down[c]) : down[c][k].type # ITEM
          BY <1>3, <1>c DEF DownInv, TileOf
    <2>2. \A k \in 1..Len(down[c]) : down[c][k].type = EMPTY =>
             down[c][k].request =< request[c] /\ down[c][k].request \in Nat
          BY <1>c, <1>t, Packets DEF DownInv
    <2>3. \A k \in 1..Len(down[c]) : down[c][k].type = EMPTY =>
             down[c][k].request =< request'[c] /\ down[c][k].request # request'[c]
          BY <1>1, <2>2
    <2> QED BY <1>0, <2>1, <2>3 DEF DownInv, EndOf
  <1>7. LocalInv(c)'
    <2> SUFFICES ASSUME NEW q \in QueueIDs, NEW k \in 1..Len(local[c][q]), NEW p, p = local[c][q][k]
                 PROVE  /\ p.queue = q /\ p.type # ITEM
                        /\ p.type = EMPTY => p.request =< request'[c] /\ p.request # request'[c]
        BY <1>0 DEF LocalInv, EndOf
    <2>1. p.queue = q /\ p.type # ITEM /\ (p.type = EMPTY => p.request =< request[c] /\ p.request \in Nat)
          BY <1>3, <1>c, <1>t, Packets DEF LocalInv, TileOf
    <2> QED BY <1>1, <2>1
  <1>8. TilesOfFrame'
        BY <1>0, <1>t DEF TilesOfFrame
  <1> QED BY <1>0, <1>1, <1>2, <1>4, <1>5, <1>6, <1>7, <1>8, OwnStep

(* pop() asks for tiles of the task's queue.                               *)
LEMMA PopRequestStep ==
    ASSUME TileInv, NEW c \in Channels, PopRequest(c)
    PROVE  TileInv'
  <1>t. Types /\ ChannelInv /\ TilesOfFrame
        BY DEF TileInv
  <1>c. TasksInv(c) /\ UpInv(c) /\ DownInv(c) /\ LocalInv(c)
        BY <1>t DEF ChannelInv
  <1> DEFINE ask == [type |-> "getItem", queue |-> queueOf(c), request |-> request[c]]
  <1>0. /\ pc[c] = "request" /\ pc' = [pc EXCEPT ![c] = "pop"]
        /\ request' = request /\ down' = down /\ tasks' = tasks /\ local' = local /\ drawn' = drawn
        /\ ServerLeaves
        /\ up' = up \/ up' = [up EXCEPT ![c] = Append(up[c], ask)]
        BY DEF PopRequest, serverVars, ServerLeaves
  <1>1. queueOf(c) \in QueueIDs /\ request[c] \in Nat /\ tasks[c] # <<>>
        BY <1>0, <1>c, <1>t, BusyOpen DEF Types
  <1>2. /\ ask \in Requests /\ ask.type = "getItem" /\ ask.queue = queueOf(c)
        /\ ask.request = request[c] /\ ask.type # "finish"
        BY <1>1 DEF Requests
  <1> HIDE DEF ask
  <1>3. up \in [Channels -> Seq(Requests \cup Finishes)] /\ ask \in Requests \cup Finishes
        BY <1>2, <1>t DEF Types
  <1>4. /\ Append(up[c], ask) \in Seq(Requests \cup Finishes)
        /\ Len(up[c]) \in Nat /\ Len(Append(up[c], ask)) = Len(up[c]) + 1
        /\ Append(up[c], ask)[Len(up[c]) + 1] = ask
        /\ \A k \in 1..Len(up[c]) : Append(up[c], ask)[k] = up[c][k]
        /\ \A k \in 1..Len(up[c]) + 1 : k \in 1..Len(up[c]) \/ k = Len(up[c]) + 1
    <2>1. up[c] \in Seq(Requests \cup Finishes)
          BY <1>3
    <2> QED BY <1>3, <2>1, AppendElements
  <1>5. /\ up'[c] = up[c] \/ up'[c] = Append(up[c], ask)
        /\ up' \in [Channels -> Seq(Requests \cup Finishes)]
        /\ \A d \in Channels : d # c => up'[d] = up[d]
        BY <1>0, <1>3, <1>4
  <1>6. /\ pc'[c] = "pop" /\ pc' \in [Channels -> {"idle", "request", "pop"}]
        /\ \A d \in Channels : d # c => pc'[d] = pc[d]
        BY <1>0, <1>t DEF Types
  <1>7. \A d \in Channels : d # c => OthersLeave(d)
        BY <1>0, <1>5, <1>6 DEF OthersLeave, ServerLeaves
  <1>8. Types'
        BY <1>0, <1>5, <1>6, <1>t DEF Types, ServerLeaves
  <1>9. \A q : Busy(c, q) <=> Busy(c, q)'
        BY <1>0, <1>6 DEF Busy, queueOf
  <1>10. /\ Len(up'[c]) \in {Len(up[c]), Len(up[c]) + 1}
         /\ \A k \in 1..Len(up'[c]) :
               \/ k \in 1..Len(up[c]) /\ up'[c][k] = up[c][k]
               \/ k = Len(up[c]) + 1 /\ up'[c][k] = ask
         BY <1>4, <1>5
  <1>11. TasksInv(c)'
    <2>1. ASSUME NEW t, TaskOf(c, t)
          PROVE  TaskOf(c, t)'
          BY <1>0, <1>2, <1>10, <2>1 DEF TaskOf, Open, Started, ServerLeaves
    <2>2. \A k \in 1..Len(tasks[c]) : TaskOf(c, tasks[c][k])'
      <3> SUFFICES ASSUME NEW k \in 1..Len(tasks[c]), NEW t, t = tasks[c][k]
                   PROVE  TaskOf(c, t)'
          BY <1>0 DEF TaskOf, Open, Started
      <3> QED BY <1>c, <2>1 DEF TasksInv
    <2>3. \A k \in 1..Len(down[c]) : IsTask(down[c][k])' => TaskOf(c, down[c][k])'
      <3> SUFFICES ASSUME NEW k \in 1..Len(down[c]), NEW t, t = down[c][k], IsTask(t)
                   PROVE  TaskOf(c, t)'
          BY <1>0 DEF TaskOf, Open, Started, IsTask
      <3> QED BY <1>c, <2>1 DEF TasksInv
    <2> QED BY <1>0, <1>1, <1>c, <2>2, <2>3 DEF TasksInv, IsTask
  <1>12. UpInv(c)'
    <2>1. ASSUME NEW j \in 1..Len(up'[c]), up'[c][j].type = "finish", NEW f, f = up'[c][j].frame
          PROVE  /\ Open(c, f)'
                 /\ \A q \in QueueIDs : age'[q] = f => items'[q] = <<>>
                 /\ \A k \in 1..j - 1 : up'[c][k].type = "finish" => up'[c][k].frame # f
      <3>1. j \in 1..Len(up[c]) /\ up'[c][j] = up[c][j]
            BY <1>2, <1>10, <2>1
      <3>2. /\ Open(c, f) /\ \A q \in QueueIDs : age[q] = f => items[q] = <<>>
            /\ \A k \in 1..j - 1 : up[c][k].type = "finish" => up[c][k].frame # f
            BY <1>c, <2>1, <3>1 DEF UpInv
      <3>3. \A k \in 1..j - 1 : up'[c][k] = up[c][k]
            BY <1>4, <1>10, <3>1
      <3> QED BY <1>0, <3>2, <3>3 DEF ServerLeaves, Open, Started
    <2>2. ASSUME NEW k \in 1..Len(up'[c]), up'[c][k].type = "getItem", NEW q, q = up'[c][k].queue
          PROVE  /\ up'[c][k].request =< request[c]
                 /\ \/ Busy(c, q)'
                    \/ \E j \in k + 1..Len(up'[c]) :
                          up'[c][j].type = "finish" /\ up'[c][j].frame = age[q]
      <3>1. CASE k \in 1..Len(up[c]) /\ up'[c][k] = up[c][k]
        <4>1. /\ up[c][k].request =< request[c]
              /\ \/ Busy(c, q)
                 \/ \E j \in k + 1..Len(up[c]) :
                       up[c][j].type = "finish" /\ up[c][j].frame = age[q]
              BY <1>c, <2>2, <3>1 DEF UpInv
        <4>2. \A j \in k + 1..Len(up[c]) : j \in k + 1..Len(up'[c]) /\ up'[c][j] = up[c][j]
              BY <1>4, <1>10, <3>1
        <4> QED BY <1>9, <3>1, <4>1, <4>2
      <3>2. CASE up'[c][k] = ask
        <4>1. Busy(c, q)
              BY <1>0, <1>2, <2>2, <3>2 DEF Busy
        <4> QED BY <1>1, <1>2, <1>9, <3>2, <4>1
      <3> QED BY <1>10, <3>1, <3>2
    <2>3. \A j \in 1..Len(up'[c]) : up'[c][j].type = "finish" =>
             /\ Open(c, up[c][j].frame)'
             /\ \A q \in QueueIDs : age'[q] = up'[c][j].frame => items'[q] = <<>>
             /\ \A k \in 1..j - 1 : up'[c][k].type = "finish" => up'[c][k].frame # up'[c][j].frame
          BY <2>1 DEF Open, Started
    <2>4. \A k \in 1..Len(up'[c]) : up'[c][k].type = "getItem" =>
             /\ up'[c][k].request =< request[c]
             /\ \/ Busy(c, up[c][k].queue)'
                \/ \E j \in k + 1..Len(up'[c]) :
                      up'[c][j].type = "finish" /\ up'[c][j].frame = age[up'[c][k].queue]
          BY <2>2 DEF Busy, queueOf
    <2> QED BY <1>0, <2>3, <2>4 DEF UpInv, ServerLeaves
  <1>13. DownInv(c)'
         BY <1>0, <1>6, <1>c DEF DownInv, ServerLeaves, TileOf, EndOf, Busy, queueOf
  <1>14. LocalInv(c)'
         BY <1>0, <1>6, <1>c DEF LocalInv, ServerLeaves, TileOf, EndOf, Busy, queueOf
  <1>15. TilesOfFrame'
         BY <1>0, <1>t DEF TilesOfFrame
  <1> QED BY <1>0, <1>7, <1>8, <1>11, <1>12, <1>13, <1>14, <1>15, OwnStep

(* The empty packets and the tiles of a channel mean what they did.        *)
StillMeant(c) ==
    /\ request[c] \in Nat /\ request'[c] \in Nat /\ request'[c] >= request[c]
    /\ \A p : p.request \in Nat /\ p.request =< request[c] /\ EndOf(c, p)' => EndOf(c, p)
    /\ \A p : TileOf(c, p) => TileOf(c, p)'

(* t is what is left of s.                                                 *)
IsLeft(t, s) ==
    \A k \in 1..Len(t) : \E i \in 1..Len(s) :
        /\ t[k] = s[i]
        /\ \A j \in k + 1..Len(t) : \E m \in i + 1..Len(s) : t[j] = s[m]

\* What is left of a stream when a packet was received.
LEMMA TailLeft ==
    ASSUME NEW S, NEW s \in Seq(S), s # <<>>
    PROVE  IsLeft(Tail(s), s)
  <1>1. /\ Len(Tail(s)) = Len(s) - 1 /\ Len(s) \in Nat
        /\ \A k \in 1..Len(Tail(s)) : Tail(s)[k] = s[k + 1] /\ k + 1 \in 1..Len(s)
        BY TailElements
  <1>2. ASSUME NEW k \in 1..Len(Tail(s)), NEW j \in k + 1..Len(Tail(s))
        PROVE  j + 1 \in (k + 1) + 1..Len(s) /\ Tail(s)[j] = s[j + 1]
        BY <1>1
  <1> QED BY <1>1, <1>2 DEF IsLeft

\* The packets under way to a channel keep their meaning.
LEMMA DownKept ==
    ASSUME Types, NEW c \in Channels, DownInv(c), StillMeant(c),
           down'[c] = down[c], items' = items
    PROVE  DownInv(c)'
  <1> SUFFICES ASSUME NEW k \in 1..Len(down[c]), NEW p, p = down[c][k]
               PROVE  /\ p.type = ITEM => TileOf(c, p)'
                      /\ p.type = EMPTY => p.request =< request'[c]
                      /\ EndOf(c, p)' => /\ items[p.queue] = <<>>
                                         /\ \A j \in k + 1..Len(down[c]) : down[c][j].type # ITEM
      BY DEF DownInv, TileOf, EndOf, Busy, queueOf
  <1>1. /\ p.type = ITEM => TileOf(c, p)
        /\ p.type = EMPTY => p.request =< request[c] /\ p.request \in Nat
        /\ EndOf(c, p) => /\ items[p.queue] = <<>>
                          /\ \A j \in k + 1..Len(down[c]) : down[c][j].type # ITEM
        BY Packets DEF DownInv
  <1>2. EndOf(c, p)' => p.type = EMPTY
        BY DEF EndOf
  <1> QED BY <1>1, <1>2 DEF StillMeant

\* The packets queued in a channel keep their meaning.
LEMMA LocalKept ==
    ASSUME Types, NEW c \in Channels, LocalInv(c), StillMeant(c), items' = items, down'[c] = down[c],
           \A q \in QueueIDs : IsLeft(local'[c][q], local[c][q])
    PROVE  LocalInv(c)'
  <1> SUFFICES ASSUME NEW q \in QueueIDs, NEW k \in 1..Len(local'[c][q]), NEW p, p = local'[c][q][k]
               PROVE  /\ p.queue = q
                      /\ p.type = ITEM => TileOf(c, p)'
                      /\ p.type = EMPTY => p.request =< request'[c]
                      /\ EndOf(c, p)' =>
                            /\ items[q] = <<>>
                            /\ \A j \in k + 1..Len(local'[c][q]) : local'[c][q][j].type # ITEM
                            /\ \A j \in 1..Len(down[c]) : down[c][j].type # ITEM
      BY DEF LocalInv, TileOf, EndOf, Busy, queueOf
  <1>1. PICK i \in 1..Len(local[c][q]) :
           /\ p = local[c][q][i]
           /\ \A j \in k + 1..Len(local'[c][q]) :
                 \E m \in i + 1..Len(local[c][q]) : local'[c][q][j] = local[c][q][m]
        BY DEF IsLeft
  <1>2. /\ p.queue = q
        /\ p.type = ITEM => TileOf(c, p)
        /\ p.type = EMPTY => p.request =< request[c] /\ p.request \in Nat
        /\ EndOf(c, p) =>
              /\ items[q] = <<>>
              /\ \A j \in i + 1..Len(local[c][q]) : local[c][q][j].type # ITEM
              /\ \A j \in 1..Len(down[c]) : down[c][j].type # ITEM
        BY <1>1, Packets DEF LocalInv
  <1>3. EndOf(c, p)' => p.type = EMPTY /\ EndOf(c, p)
        BY <1>2 DEF EndOf, StillMeant
  <1>4. EndOf(c, p)' => \A j \in k + 1..Len(local'[c][q]) : local'[c][q][j].type # ITEM
        BY <1>1, <1>2, <1>3, SMTT(30)
  <1> QED BY <1>2, <1>3, <1>4 DEF StillMeant

(* pop() takes a packet from the channel's queue.                          *)
LEMMA LocalTaken ==
    ASSUME Types, NEW c \in Channels, pc[c] = "pop", TasksInv(c), local[c][queueOf(c)] # <<>>, TakeLocal(c)
    PROVE  /\ local' \in [Channels -> [QueueIDs -> Seq(Items \cup Empties)]]
           /\ \A d \in Channels : d # c => local'[d] = local[d]
           /\ \A q \in QueueIDs : IsLeft(local'[c][q], local[c][q])
           /\ local'[c][queueOf(c)] = Tail(local[c][queueOf(c)])
           /\ \A q \in QueueIDs : q # queueOf(c) => local'[c][q] = local[c][q]
  <1> DEFINE q0 == queueOf(c)
  <1>1. q0 \in QueueIDs
        BY BusyOpen
  <1>2. local \in [Channels -> [QueueIDs -> Seq(Items \cup Empties)]]
        BY DEF Types
  <1>3. local' = [local EXCEPT ![c][q0] = Tail(local[c][q0])] /\ local[c][q0] # <<>>
        BY DEF TakeLocal
  <1> HIDE DEF q0
  <1>4. local[c] \in [QueueIDs -> Seq(Items \cup Empties)] /\ local[c][q0] \in Seq(Items \cup Empties)
        BY <1>1, <1>2
  <1>5. Tail(local[c][q0]) \in Seq(Items \cup Empties) /\ IsLeft(Tail(local[c][q0]), local[c][q0])
        BY <1>3, <1>4, TailElements, TailLeft
  <1>6. /\ local' \in [Channels -> [QueueIDs -> Seq(Items \cup Empties)]]
        /\ \A d \in Channels : d # c => local'[d] = local[d]
        /\ \A q \in QueueIDs : q # q0 => local'[c][q] = local[c][q]
        /\ local'[c][q0] = Tail(local[c][q0])
        BY <1>1, <1>2, <1>3, <1>5
  <1>7. ASSUME NEW q \in QueueIDs
        PROVE  IsLeft(local'[c][q], local[c][q])
    <2>1. CASE q = q0
          BY <1>5, <1>6, <2>1
    <2>2. CASE q # q0
      <3>1. \A k \in 1..Len(local[c][q]) :
               \A j \in k + 1..Len(local[c][q]) : local[c][q][j] = local[c][q][j]
            OBVIOUS
      <3>2. IsLeft(local[c][q], local[c][q])
            BY <3>1 DEF IsLeft
      <3> QED BY <1>6, <2>2, <3>2
    <2> QED BY <2>1, <2>2
  <1> QED BY <1>6, <1>7 DEF q0

(* A tile is drawn: one of the frame of the task.                          *)
LEMMA PopItemStep ==
    ASSUME TileInv, NEW c \in Channels, PopItem(c)
    PROVE  TileInv'
  <1>t. Types /\ ChannelInv /\ TilesOfFrame
        BY DEF TileInv
  <1>c. TasksInv(c) /\ UpInv(c) /\ DownInv(c) /\ LocalInv(c)
        BY <1>t DEF ChannelInv
  <1> DEFINE q == queueOf(c)
             packet == Head(local[c][q])
             f == Head(tasks[c]).frame
  <1>0. /\ pc[c] = "pop" /\ pc' = [pc EXCEPT ![c] = "request"] /\ local[c][q] # <<>> /\ TakeLocal(c)
        /\ request' = [request EXCEPT ![c] = request[c] + 1]
        /\ down' = down /\ up' = up /\ tasks' = tasks
        /\ packet.type = ITEM /\ drawn' = [drawn EXCEPT ![f] = drawn[f] (+) SetToBag({packet.tile})]
        /\ ServerLeaves
        BY DEF PopItem, serverVars, ServerLeaves
  <1>1. /\ q \in QueueIDs /\ age[q] = f /\ tasks[c] # <<>> /\ f \in Frames
    <2>1. q \in QueueIDs /\ age[q] = tasks[c][1].frame /\ tasks[c] # <<>> /\ tasks[c][1] \in Tasks
          /\ Head(tasks[c]) = tasks[c][1]
          BY <1>0, <1>c, <1>t, BusyOpen
    <2> QED BY <2>1 DEF Tasks
  <1>2. /\ local' \in [Channels -> [QueueIDs -> Seq(Items \cup Empties)]]
        /\ \A d \in Channels : d # c => local'[d] = local[d]
        /\ \A r \in QueueIDs : IsLeft(local'[c][r], local[c][r])
        BY <1>0, <1>c, <1>t, LocalTaken
  <1>3. packet = local[c][q][1] /\ 1 \in 1..Len(local[c][q])
    <2>1. local[c][q] \in Seq(Items \cup Empties)
          BY <1>1, <1>t DEF Types
    <2> QED BY <1>0, <2>1, TailElements
  <1>4. packet.tile.frame = f
    <2>1. packet.queue = q /\ TileOf(c, packet)
          BY <1>0, <1>1, <1>3, <1>c DEF LocalInv
    <2> QED BY <1>1, <2>1 DEF TileOf
  <1> HIDE DEF packet, q, f
  <1>5. /\ pc'[c] = "request" /\ request'[c] = request[c] + 1 /\ request[c] \in Nat
        /\ pc' \in [Channels -> {"idle", "request", "pop"}] /\ request' \in [Channels -> Nat]
        /\ \A d \in Channels : d # c => pc'[d] = pc[d] /\ request'[d] = request[d]
        BY <1>0, <1>t DEF Types
  <1>6. \A d \in Channels : d # c => OthersLeave(d)
        BY <1>0, <1>2, <1>5 DEF OthersLeave, ServerLeaves
  <1>7. Types'
        BY <1>0, <1>2, <1>5, <1>t DEF Types, ServerLeaves
  <1>8. \A r : Busy(c, r) <=> Busy(c, r)'
        BY <1>0, <1>5 DEF Busy, queueOf
  <1>9. StillMeant(c)
    <2>1. \A p : p.request \in Nat /\ p.request =< request[c] => ~EndOf(c, p)'
          BY <1>5 DEF EndOf
    <2>2. \A p : TileOf(c, p) => TileOf(c, p)'
          BY <1>0, <1>8 DEF TileOf, ServerLeaves
    <2> QED BY <1>5, <2>1, <2>2 DEF StillMeant
  <1>10. TasksInv(c)'
         BY <1>0, <1>1, <1>c, TasksSame
  <1>11. UpInv(c)'
    <2>1. \A k \in 1..Len(up[c]) : up[c][k].type = "getItem" => up[c][k].request =< request'[c]
          BY <1>5, <1>c, <1>t, Packets DEF UpInv
    <2> QED BY <1>0, <1>5, <1>c, <2>1 DEF UpInv, ServerLeaves, Open, Started, Busy, queueOf
  <1>12. DownInv(c)'
         BY <1>0, <1>9, <1>c, <1>t, DownKept DEF ServerLeaves
  <1>13. LocalInv(c)'
         BY <1>0, <1>2, <1>9, <1>c, <1>t, LocalKept DEF ServerLeaves
  <1>14. TilesOfFrame'
    <2>1. DOMAIN drawn = Frames
          BY <1>t DEF Types
    <2>2. \A g \in Frames : g # f => drawn'[g] = drawn[g]
          BY <1>0, <2>1
    <2>3. drawn'[f] = drawn[f] (+) SetToBag({packet.tile})
          BY <1>0, <1>1, <2>1
    <2>4. BagToSet(drawn'[f]) = BagToSet(drawn[f]) \cup {packet.tile}
          BY <2>3 DEF BagToSet, SetToBag, (+)
    <2> QED BY <1>4, <1>t, <2>2, <2>4 DEF TilesOfFrame
  <1> QED BY <1>0, <1>6, <1>7, <1>10, <1>11, <1>12, <1>13, <1>14, OwnStep

(* pop() discards the empty packet of an earlier call.                     *)
LEMMA DiscardStep ==
    ASSUME TileInv, NEW c \in Channels, PopEmpty(c), pc'[c] # "idle"
    PROVE  TileInv'
  <1>t. Types /\ ChannelInv /\ TilesOfFrame
        BY DEF TileInv
  <1>c. TasksInv(c) /\ UpInv(c) /\ DownInv(c) /\ LocalInv(c)
        BY <1>t DEF ChannelInv
  <1>0. /\ pc[c] = "pop" /\ local[c][queueOf(c)] # <<>> /\ TakeLocal(c)
        /\ request' = request /\ down' = down /\ drawn' = drawn
        /\ ServerLeaves
        BY DEF PopEmpty, serverVars, ServerLeaves
  <1>1. up' = up /\ tasks' = tasks /\ pc' = [pc EXCEPT ![c] = "request"]
    <2>1. pc \in [Channels -> {"idle", "request", "pop"}]
          BY <1>t DEF Types
    <2>2. ~IsEnd(c, Head(local[c][queueOf(c)]))
          BY <2>1 DEF PopEmpty
    <2> QED BY <2>2 DEF PopEmpty
  <1>2. /\ local' \in [Channels -> [QueueIDs -> Seq(Items \cup Empties)]]
        /\ \A d \in Channels : d # c => local'[d] = local[d]
        /\ \A r \in QueueIDs : IsLeft(local'[c][r], local[c][r])
        BY <1>0, <1>c, <1>t, LocalTaken
  <1>3. /\ pc'[c] = "request" /\ pc' \in [Channels -> {"idle", "request", "pop"}]
        /\ \A d \in Channels : d # c => pc'[d] = pc[d]
        BY <1>1, <1>t DEF Types
  <1>4. \A d \in Channels : d # c => OthersLeave(d)
        BY <1>0, <1>1, <1>2, <1>3 DEF OthersLeave, ServerLeaves
  <1>5. Types'
        BY <1>0, <1>1, <1>2, <1>3, <1>t DEF Types, ServerLeaves
  <1>6. \A r : Busy(c, r) <=> Busy(c, r)'
        BY <1>0, <1>1, <1>3 DEF Busy, queueOf
  <1>7. StillMeant(c)
    <2>1. request[c] \in Nat
          BY <1>t DEF Types
    <2>2. \A p : (TileOf(c, p) => TileOf(c, p)') /\ (EndOf(c, p)' => EndOf(c, p))
          BY <1>0, <1>6 DEF TileOf, EndOf, ServerLeaves
    <2> QED BY <1>0, <2>1, <2>2 DEF StillMeant
  <1>8. TasksInv(c)'
    <2>1. tasks[c] # <<>>
          BY <1>0, <1>c DEF TasksInv
    <2> QED BY <1>0, <1>1, <1>c, <2>1, TasksSame
  <1>9. UpInv(c)'
        BY <1>0, <1>1, <1>3, <1>c DEF UpInv, ServerLeaves, Open, Started, Busy, queueOf
  <1>10. DownInv(c)'
         BY <1>0, <1>7, <1>c, <1>t, DownKept DEF ServerLeaves
  <1>11. LocalInv(c)'
         BY <1>0, <1>2, <1>7, <1>c, <1>t, LocalKept DEF ServerLeaves
  <1>12. TilesOfFrame'
         BY <1>0, <1>t DEF TilesOfFrame
  <1> QED BY <1>0, <1>4, <1>5, <1>8, <1>9, <1>10, <1>11, <1>12, OwnStep

(* pop() returns 0: the channel has no tile of the frame, and the server   *)
(* has none.                                                               *)
LEMMA EndStep ==
    ASSUME TileInv, NEW c \in Channels, PopEmpty(c), pc'[c] = "idle"
    PROVE  TileInv'
  <1>t. Types /\ PoolInv /\ ChannelInv /\ TilesOfFrame
        BY DEF TileInv
  <1>c. TasksInv(c) /\ UpInv(c) /\ DownInv(c) /\ LocalInv(c)
        BY <1>t DEF ChannelInv
  <1> DEFINE q == queueOf(c)
             packet == Head(local[c][q])
             f == Head(tasks[c]).frame
             end == [type |-> "finish", frame |-> f]
  <1>0. /\ pc[c] = "pop" /\ local[c][q] # <<>> /\ TakeLocal(c) /\ packet.type = EMPTY
        /\ request' = request /\ down' = down /\ drawn' = drawn
        /\ ServerLeaves
        BY DEF PopEmpty, serverVars, ServerLeaves
  <1>1. /\ up' = [up EXCEPT ![c] = Append(up[c], end)] /\ tasks' = [tasks EXCEPT ![c] = Tail(tasks[c])]
        /\ pc' = [pc EXCEPT ![c] = "idle"] /\ packet.request = request[c]
    <2>1. pc \in [Channels -> {"idle", "request", "pop"}]
          BY <1>t DEF Types
    <2>2. IsEnd(c, Head(local[c][queueOf(c)]))
          BY <2>1 DEF PopEmpty
    <2> QED BY <2>2 DEF PopEmpty, IsEnd
  <1>2. /\ q \in QueueIDs /\ age[q] = f /\ tasks[c] # <<>> /\ f \in Frames
        /\ TaskOf(c, tasks[c][1]) /\ f = tasks[c][1].frame
    <2>1. q \in QueueIDs /\ age[q] = tasks[c][1].frame /\ tasks[c] # <<>> /\ tasks[c][1] \in Tasks
          /\ Head(tasks[c]) = tasks[c][1] /\ TaskOf(c, tasks[c][1])
          BY <1>0, <1>c, <1>t, BusyOpen
    <2> QED BY <2>1 DEF Tasks
  <1>3. /\ local' \in [Channels -> [QueueIDs -> Seq(Items \cup Empties)]]
        /\ \A d \in Channels : d # c => local'[d] = local[d]
        /\ local'[c][q] = Tail(local[c][q])
        /\ \A r \in QueueIDs : r # q => local'[c][r] = local[c][r]
        BY <1>0, <1>c, <1>t, LocalTaken
  <1>4. /\ packet = local[c][q][1] /\ 1 \in 1..Len(local[c][q]) /\ Len(local[c][q]) \in Nat
        /\ \A k \in 1..Len(Tail(local[c][q])) :
              Tail(local[c][q])[k] = local[c][q][k + 1] /\ k + 1 \in 2..Len(local[c][q])
    <2>1. local[c][q] \in Seq(Items \cup Empties)
          BY <1>2, <1>t DEF Types
    <2>2. /\ packet = local[c][q][1] /\ 1 \in 1..Len(local[c][q]) /\ Len(local[c][q]) \in Nat
          /\ Len(Tail(local[c][q])) = Len(local[c][q]) - 1
          /\ \A k \in 1..Len(Tail(local[c][q])) :
                Tail(local[c][q])[k] = local[c][q][k + 1] /\ k + 1 \in 1..Len(local[c][q])
          BY <1>0, <2>1, TailElements
    <2> HIDE DEF q
    <2> QED BY <2>2
  <1>5. packet.queue = q /\ EndOf(c, packet)
    <2>1. packet.queue = q
          BY <1>2, <1>4, <1>c DEF LocalInv
    <2> QED BY <1>0, <1>1, <2>1 DEF EndOf, Busy
  <1>6. /\ items[q] = <<>>
        /\ \A j \in 2..Len(local[c][q]) : local[c][q][j].type # ITEM
        /\ \A j \in 1..Len(down[c]) : down[c][j].type # ITEM
        BY <1>2, <1>4, <1>5, <1>c DEF LocalInv
  <1>7. \A r \in QueueIDs : \A k \in 1..Len(local[c][r]) :
           /\ local[c][r][k].queue = r
           /\ local[c][r][k].type = ITEM => r = q
           /\ local[c][r][k].type = EMPTY => local[c][r][k].request =< request[c]
        BY <1>c DEF LocalInv, TileOf, Busy
  <1>8. end \in Finishes /\ end.type = "finish" /\ end.frame = f /\ end.type # "getItem"
        BY <1>2 DEF Finishes
  <1>b. \A r : Busy(c, r) => r = q
        BY DEF Busy
  <1> HIDE DEF packet, q, f, end
  <1>10. /\ Append(up[c], end) \in Seq(Requests \cup Finishes)
         /\ Len(up[c]) \in Nat /\ Len(Append(up[c], end)) = Len(up[c]) + 1
         /\ Append(up[c], end)[Len(up[c]) + 1] = end
         /\ \A k \in 1..Len(up[c]) : Append(up[c], end)[k] = up[c][k]
         /\ \A k \in 1..Len(up[c]) + 1 : k \in 1..Len(up[c]) \/ k = Len(up[c]) + 1
    <2>1. up[c] \in Seq(Requests \cup Finishes) /\ end \in Requests \cup Finishes
          BY <1>8, <1>t DEF Types
    <2> QED BY <2>1, AppendElements
  <1>11. /\ up' \in [Channels -> Seq(Requests \cup Finishes)] /\ up'[c] = Append(up[c], end)
         /\ \A d \in Channels : d # c => up'[d] = up[d]
         BY <1>1, <1>10, <1>t DEF Types
  <1>12. /\ Tail(tasks[c]) \in Seq(Tasks) /\ Len(Tail(tasks[c])) = Len(tasks[c]) - 1 /\ Len(tasks[c]) \in Nat
         /\ \A k \in 1..Len(Tail(tasks[c])) :
               Tail(tasks[c])[k] = tasks[c][k + 1] /\ k + 1 \in 1..Len(tasks[c])
         /\ 1 \in 1..Len(tasks[c])
    <2>1. tasks[c] \in Seq(Tasks)
          BY <1>t DEF Types
    <2> QED BY <1>2, <2>1, TailElements
  <1>13. /\ tasks' \in [Channels -> Seq(Tasks)] /\ tasks'[c] = Tail(tasks[c])
         /\ \A d \in Channels : d # c => tasks'[d] = tasks[d]
         BY <1>1, <1>12, <1>t DEF Types
  <1>14. /\ pc' \in [Channels -> {"idle", "request", "pop"}]
         /\ \A d \in Channels : d # c => pc'[d] = pc[d]
         BY <1>1, <1>t DEF Types
  <1>15. \A d \in Channels : d # c => OthersLeave(d)
         BY <1>0, <1>3, <1>11, <1>13, <1>14 DEF OthersLeave, ServerLeaves
  <1>16. Types'
         BY <1>0, <1>3, <1>11, <1>13, <1>14, <1>t DEF Types, ServerLeaves
  <1>17. \A j \in 1..Len(up[c]) : up[c][j].type = "finish" => up[c][j].frame # f
         BY <1>2 DEF TaskOf
  <1>18. TasksInv(c)'
    <2>1. ASSUME NEW t, TaskOf(c, t), t.frame # f
          PROVE  TaskOf(c, t)'
          BY <1>0, <1>8, <1>10, <1>11, <2>1 DEF TaskOf, Open, Started, ServerLeaves
    <2>2. ASSUME NEW k \in 1..Len(tasks'[c]), NEW t, t = tasks'[c][k]
          PROVE  TaskOf(c, t)'
      <3>1. k + 1 \in 1..Len(tasks[c]) /\ t = tasks[c][k + 1] /\ 1 < k + 1
            BY <1>12, <1>13, <2>2
      <3>2. TaskOf(c, t) /\ f < t.frame /\ t.frame \in Frames
            BY <1>2, <1>12, <1>c, <1>t, <3>1, Packets DEF TasksInv
      <3> QED BY <1>2, <2>1, <3>2 DEF Frames
    <2>3. ASSUME NEW k \in 1..Len(down[c]), NEW t, t = down[c][k], IsTask(t)
          PROVE  TaskOf(c, t)'
      <3>1. TaskOf(c, t) /\ f < t.frame /\ t.frame \in Frames
            BY <1>2, <1>12, <1>c, <1>t, <2>3, Packets DEF TasksInv
      <3> QED BY <1>2, <2>1, <3>1 DEF Frames
    <2>4. \A k \in 1..Len(tasks'[c]) : TaskOf(c, tasks[c][k])'
          BY <2>2 DEF TaskOf, Open, Started
    <2>5. \A k \in 1..Len(down'[c]) : IsTask(down[c][k])' => TaskOf(c, down[c][k])'
          BY <1>0, <2>3 DEF TaskOf, Open, Started, IsTask
    <2>6. ASSUME NEW j \in 1..Len(tasks'[c]), NEW k \in 1..Len(tasks'[c]), j < k
          PROVE  tasks'[c][j].frame < tasks'[c][k].frame
      <3>1. /\ j + 1 \in 1..Len(tasks[c]) /\ k + 1 \in 1..Len(tasks[c]) /\ j + 1 < k + 1
            /\ tasks'[c][j] = tasks[c][j + 1] /\ tasks'[c][k] = tasks[c][k + 1]
            BY <1>12, <1>13, <2>6
      <3> QED BY <1>c, <3>1 DEF TasksInv
    <2>7. \A j \in 1..Len(tasks'[c]), k \in 1..Len(down[c]) :
             IsTask(down[c][k]) => tasks'[c][j].frame < down[c][k].frame
          BY <1>12, <1>13, <1>c, ZenonT(30) DEF TasksInv
    <2> QED BY <1>0, <1>c, <2>4, <2>5, <2>6, <2>7 DEF TasksInv, IsTask
  <1>19. UpInv(c)'
    <2>1. ASSUME NEW j \in 1..Len(up'[c]), up'[c][j].type = "finish", NEW g, g = up'[c][j].frame
          PROVE  /\ Open(c, g)'
                 /\ \A r \in QueueIDs : age'[r] = g => items'[r] = <<>>
                 /\ \A k \in 1..j - 1 : up'[c][k].type = "finish" => up'[c][k].frame # g
      <3>1. CASE j \in 1..Len(up[c])
        <4>1. /\ Open(c, g) /\ \A r \in QueueIDs : age[r] = g => items[r] = <<>>
              /\ \A k \in 1..j - 1 : up[c][k].type = "finish" => up[c][k].frame # g
              BY <1>10, <1>11, <1>c, <2>1, <3>1 DEF UpInv
        <4>2. \A k \in 1..j - 1 : up'[c][k] = up[c][k]
              BY <1>10, <1>11, <3>1
        <4> QED BY <1>0, <4>1, <4>2 DEF ServerLeaves, Open, Started
      <3>2. CASE j = Len(up[c]) + 1
        <4>1. g = f /\ Open(c, f)
              BY <1>2, <1>8, <1>10, <1>11, <2>1, <3>2 DEF TaskOf
        <4>2. ASSUME NEW r \in QueueIDs, age[r] = f
              PROVE  items[r] = <<>>
          <5>1. r = q
                BY <1>2, <1>t, <4>2 DEF PoolInv, AgesInv, Frames
          <5> QED BY <1>6, <5>1
        <4>3. \A k \in 1..j - 1 : up'[c][k].type = "finish" => up'[c][k].frame # f
              BY <1>10, <1>11, <1>17, <3>2
        <4> QED BY <1>0, <4>1, <4>2, <4>3 DEF ServerLeaves, Open, Started
      <3> QED BY <1>10, <1>11, <2>1, <3>1, <3>2
    <2>2. ASSUME NEW k \in 1..Len(up'[c]), up'[c][k].type = "getItem"
          PROVE  /\ up'[c][k].request =< request[c]
                 /\ \E j \in k + 1..Len(up'[c]) :
                       up'[c][j].type = "finish" /\ up'[c][j].frame = age[up'[c][k].queue]
      <3>1. k \in 1..Len(up[c]) /\ up'[c][k] = up[c][k]
            BY <1>8, <1>10, <1>11, <2>2
      <3>2. /\ up[c][k].request =< request[c]
            /\ \/ Busy(c, up[c][k].queue)
               \/ \E j \in k + 1..Len(up[c]) :
                     up[c][j].type = "finish" /\ up[c][j].frame = age[up[c][k].queue]
            BY <1>c, <2>2, <3>1 DEF UpInv
      <3>3. \A j \in k + 1..Len(up[c]) : j \in k + 1..Len(up'[c]) /\ up'[c][j] = up[c][j]
            BY <1>10, <1>11, <3>1
      <3>4. CASE Busy(c, up[c][k].queue)
        <4>1. up[c][k].queue = q /\ Len(up[c]) + 1 \in k + 1..Len(up'[c])
              BY <1>10, <1>11, <1>b, <3>1, <3>4
        <4>2. up'[c][Len(up[c]) + 1] = end
              BY <1>10, <1>11
        <4> QED BY <1>2, <1>8, <3>1, <3>2, <4>1, <4>2
      <3> QED BY <3>1, <3>2, <3>3, <3>4
    <2>3. \A j \in 1..Len(up'[c]) : up'[c][j].type = "finish" =>
             /\ Open(c, up[c][j].frame)'
             /\ \A r \in QueueIDs : age'[r] = up'[c][j].frame => items'[r] = <<>>
             /\ \A k \in 1..j - 1 : up'[c][k].type = "finish" => up'[c][k].frame # up'[c][j].frame
          BY <2>1 DEF Open, Started
    <2> QED BY <1>0, <2>2, <2>3 DEF UpInv, ServerLeaves
  <1>20. DownInv(c)'
    <2>1. \A k \in 1..Len(down[c]) : down[c][k].type = EMPTY => down[c][k].request =< request[c]
          BY <1>c DEF DownInv
    <2> QED BY <1>0, <1>6, <2>1 DEF DownInv, EndOf, Busy
  <1>21. LocalInv(c)'
    <2> SUFFICES ASSUME NEW r \in QueueIDs, NEW k \in 1..Len(local'[c][r]), NEW p, p = local'[c][r][k]
                 PROVE  p.queue = r /\ p.type # ITEM /\ (p.type = EMPTY => p.request =< request[c])
        BY <1>0 DEF LocalInv, EndOf, Busy
    <2>1. CASE r = q
      <3>1. p = local[c][q][k + 1] /\ k + 1 \in 2..Len(local[c][q])
            BY <1>3, <1>4, <2>1
      <3>2. k + 1 \in 1..Len(local[c][q])
            BY <1>4, <3>1
      <3> QED BY <1>2, <1>6, <1>7, <2>1, <3>1, <3>2, SMTT(30)
    <2>2. CASE r # q
          BY <1>3, <1>7, <2>2
    <2> QED BY <2>1, <2>2
  <1>22. TilesOfFrame'
         BY <1>0, <1>t DEF TilesOfFrame
  <1> QED BY <1>0, <1>15, <1>16, <1>18, <1>19, <1>20, <1>21, <1>22, OwnStep

(* The receiver thread hands a packet over.                                *)
LEMMA ReceiveStep ==
    ASSUME TileInv, NEW c \in Channels, Receive(c)
    PROVE  TileInv'
  <1>t. Types /\ ChannelInv /\ TilesOfFrame
        BY DEF TileInv
  <1>c. TasksInv(c) /\ UpInv(c) /\ DownInv(c) /\ LocalInv(c)
        BY <1>t DEF ChannelInv
  <1> DEFINE packet == Head(down[c])
             q == packet.queue
             P == Tasks \cup Items \cup Empties
  <1>0. /\ down[c] # <<>> /\ down' = [down EXCEPT ![c] = Tail(down[c])]
        /\ IF IsTask(packet)
           THEN tasks' = [tasks EXCEPT ![c] = Append(tasks[c], packet)] /\ local' = local
           ELSE /\ local' = [local EXCEPT ![c][q] = Append(local[c][q], packet)]
                /\ tasks' = tasks
        /\ up' = up /\ pc' = pc /\ request' = request /\ drawn' = drawn /\ ServerLeaves
        BY DEF Receive, serverVars, ServerLeaves, IsTask
  <1>1. /\ Tail(down[c]) \in Seq(P) /\ Len(Tail(down[c])) = Len(down[c]) - 1 /\ Len(down[c]) \in Nat
        /\ packet = down[c][1] /\ 1 \in 1..Len(down[c])
        /\ \A k \in 1..Len(Tail(down[c])) : Tail(down[c])[k] = down[c][k + 1] /\ k + 1 \in 1..Len(down[c])
    <2>1. down[c] \in Seq(P)
          BY <1>t DEF Types
    <2> HIDE DEF P
    <2> QED BY <1>0, <2>1, TailElements
  <1>2. /\ down' \in [Channels -> Seq(P)] /\ down'[c] = Tail(down[c])
        /\ \A d \in Channels : d # c => down'[d] = down[d]
        BY <1>0, <1>1, <1>t DEF Types
  <1>3. /\ q \in QueueIDs
        /\ IsTask(packet) => packet \in Tasks /\ packet.frame \in Frames
        /\ ~IsTask(packet) => packet \in Items \cup Empties
        BY <1>1, <1>t, Packets
  <1>4. /\ Len(down'[c]) = Len(down[c]) - 1
        /\ \A k \in 1..Len(down'[c]) : down'[c][k] = down[c][k + 1] /\ k + 1 \in 2..Len(down[c])
                                       /\ k + 1 \in 1..Len(down[c])
        BY <1>1, <1>2
  <1> HIDE DEF packet, q, P
  <1>5. TilesOfFrame'
        BY <1>0, <1>t DEF TilesOfFrame
  <1>6. ASSUME NEW p, TaskOf(c, p)
        PROVE  TaskOf(c, p)'
        BY <1>0, <1>6 DEF TaskOf, Open, Started, ServerLeaves
  <1>7. \A k \in 1..Len(down'[c]) : IsTask(down[c][k])' => TaskOf(c, down[c][k])'
    <2> SUFFICES ASSUME NEW k \in 1..Len(down'[c]), NEW t, t = down'[c][k], IsTask(t)
                 PROVE  TaskOf(c, t)'
        BY DEF TaskOf, Open, Started, IsTask
    <2>1. TaskOf(c, t)
          BY <1>4, <1>c DEF TasksInv
    <2> QED BY <1>6, <2>1
  <1>8. \A j, k \in 1..Len(down'[c]) :
           j < k /\ IsTask(down'[c][j]) /\ IsTask(down'[c][k]) => down'[c][j].frame < down'[c][k].frame
    <2> SUFFICES ASSUME NEW j \in 1..Len(down'[c]), NEW k \in 1..Len(down'[c]), j < k,
                        IsTask(down'[c][j]), IsTask(down'[c][k])
                 PROVE  down'[c][j].frame < down'[c][k].frame
        OBVIOUS
    <2>1. /\ j + 1 \in 1..Len(down[c]) /\ k + 1 \in 1..Len(down[c]) /\ j + 1 < k + 1
          /\ down'[c][j] = down[c][j + 1] /\ down'[c][k] = down[c][k + 1]
          BY <1>4
    <2> QED BY <1>c, <2>1 DEF TasksInv
  <1>9. ASSUME \A r : Busy(c, r)' <=> Busy(c, r)
        PROVE  DownInv(c)'
    <2> SUFFICES ASSUME NEW k \in 1..Len(down'[c]), NEW p, p = down'[c][k]
                 PROVE  /\ p.type = ITEM => TileOf(c, p)'
                        /\ p.type = EMPTY => p.request =< request[c]
                        /\ EndOf(c, p)' => /\ items[p.queue] = <<>>
                                           /\ \A j \in k + 1..Len(down'[c]) : down'[c][j].type # ITEM
        BY <1>0 DEF DownInv, TileOf, EndOf, Busy, queueOf, ServerLeaves
    <2>1. /\ p.type = ITEM => TileOf(c, p)
          /\ p.type = EMPTY => p.request =< request[c]
          /\ EndOf(c, p) => /\ items[p.queue] = <<>>
                            /\ \A j \in (k + 1) + 1..Len(down[c]) : down[c][j].type # ITEM
          BY <1>4, <1>c DEF DownInv
    <2>2. (TileOf(c, p)' <=> TileOf(c, p)) /\ (EndOf(c, p)' <=> EndOf(c, p))
          BY <1>0, <1>9 DEF TileOf, EndOf, ServerLeaves
    <2>3. \A j \in k + 1..Len(down'[c]) : down'[c][j] = down[c][j + 1] /\ j + 1 \in (k + 1) + 1..Len(down[c])
          BY <1>1, <1>4, SMTT(30)
    <2> QED BY <2>1, <2>2, <2>3
  <1>10. CASE IsTask(packet)
    <2>1. /\ tasks' = [tasks EXCEPT ![c] = Append(tasks[c], packet)] /\ local' = local
          /\ tasks \in [Channels -> Seq(Tasks)] /\ packet \in Tasks
          BY <1>0, <1>3, <1>10, <1>t DEF Types
    <2>2. /\ Append(tasks[c], packet) \in Seq(Tasks)
          /\ Len(tasks[c]) \in Nat /\ Len(Append(tasks[c], packet)) = Len(tasks[c]) + 1
          /\ Append(tasks[c], packet)[Len(tasks[c]) + 1] = packet
          /\ \A k \in 1..Len(tasks[c]) : Append(tasks[c], packet)[k] = tasks[c][k]
          /\ \A k \in 1..Len(tasks[c]) + 1 : k \in 1..Len(tasks[c]) \/ k = Len(tasks[c]) + 1
          BY <2>1, AppendElements
    <2>3. /\ tasks' \in [Channels -> Seq(Tasks)] /\ tasks'[c] = Append(tasks[c], packet)
          /\ \A d \in Channels : d # c => tasks'[d] = tasks[d]
          BY <2>1, <2>2
    <2>4. Types'
          BY <1>0, <1>2, <1>t, <2>1, <2>3 DEF Types, ServerLeaves, P
    <2>5. \A d \in Channels : d # c => OthersLeave(d)
          BY <1>0, <1>2, <2>1, <2>3 DEF OthersLeave, ServerLeaves
    <2>6. \A r : Busy(c, r)' <=> Busy(c, r)
      <3>1. CASE pc[c] = "idle"
            BY <1>0, <3>1 DEF Busy
      <3>2. CASE pc[c] # "idle"
        <4>1. Head(tasks[c]) = tasks[c][1] /\ 1 \in 1..Len(tasks[c])
              BY <1>c, <1>t, <3>2, BusyOpen
        <4>2. Head(tasks'[c]) = tasks'[c][1] /\ tasks'[c][1] = tasks[c][1]
          <5>1. tasks'[c] \in Seq(Tasks) /\ tasks'[c] # <<>>
                BY <2>2, <2>3
          <5> QED BY <2>2, <2>3, <4>1, <5>1, TailElements
        <4> QED BY <1>0, <4>1, <4>2 DEF Busy, queueOf
      <3> QED BY <3>1, <3>2
    <2>7. DownInv(c)'
          BY <1>9, <2>6
    <2>8. LocalInv(c)'
      <3> SUFFICES ASSUME NEW r \in QueueIDs, NEW k \in 1..Len(local[c][r]), NEW p, p = local[c][r][k]
                   PROVE  /\ p.queue = r
                          /\ p.type = ITEM => TileOf(c, p)'
                          /\ p.type = EMPTY => p.request =< request[c]
                          /\ EndOf(c, p)' =>
                                /\ items[r] = <<>>
                                /\ \A j \in k + 1..Len(local[c][r]) : local[c][r][j].type # ITEM
                                /\ \A j \in 1..Len(down'[c]) : down'[c][j].type # ITEM
          BY <1>0, <2>1, SMTT(30) DEF LocalInv, TileOf, EndOf, Busy, queueOf, ServerLeaves
      <3>1. /\ p.queue = r
            /\ p.type = ITEM => TileOf(c, p)
            /\ p.type = EMPTY => p.request =< request[c]
            /\ EndOf(c, p) =>
                  /\ items[r] = <<>>
                  /\ \A j \in k + 1..Len(local[c][r]) : local[c][r][j].type # ITEM
                  /\ \A j \in 1..Len(down[c]) : down[c][j].type # ITEM
            BY <1>c DEF LocalInv
      <3>2. (TileOf(c, p)' <=> TileOf(c, p)) /\ (EndOf(c, p)' <=> EndOf(c, p))
            BY <1>0, <2>6 DEF TileOf, EndOf, ServerLeaves
      <3> QED BY <1>4, <3>1, <3>2
    <2>9. UpInv(c)'
      <3>1. FramesLeave(c)
            BY <1>0 DEF ServerLeaves, FramesLeave, Started, Open
      <3> QED BY <1>0, <1>c, <1>t, <2>6, <3>1, UpSame
    <2>10. TasksInv(c)'
      <3>1. \A k \in 1..Len(tasks'[c]) : TaskOf(c, tasks[c][k])'
        <4> SUFFICES ASSUME NEW k \in 1..Len(tasks'[c]), NEW t, t = tasks'[c][k]
                     PROVE  TaskOf(c, t)'
            BY DEF TaskOf, Open, Started
        <4>1. CASE k \in 1..Len(tasks[c])
          <5>1. TaskOf(c, t)
                BY <1>c, <2>2, <2>3, <4>1 DEF TasksInv
          <5> QED BY <1>6, <5>1
        <4>2. CASE k = Len(tasks[c]) + 1
          <5>1. t = packet
                BY <2>2, <2>3, <4>2
          <5>2. TaskOf(c, t)
                BY <1>1, <1>10, <1>c, <5>1 DEF TasksInv
          <5> QED BY <1>6, <5>2
        <4> QED BY <2>2, <2>3, <4>1, <4>2
      <3>2. \A k \in 1..Len(tasks[c]) : tasks[c][k].frame < packet.frame
            BY <1>1, <1>10, <1>c DEF TasksInv
      <3>3. \A k \in 2..Len(down[c]) : IsTask(down[c][k]) => packet.frame < down[c][k].frame
            BY <1>1, <1>10, <1>c DEF TasksInv
      <3>4. \A j, k \in 1..Len(tasks'[c]) : j < k => tasks'[c][j].frame < tasks'[c][k].frame
            BY <1>c, <2>2, <2>3, <3>2 DEF TasksInv
      <3>5. ASSUME NEW j \in 1..Len(tasks'[c]), NEW k \in 1..Len(down'[c]), IsTask(down'[c][k])
            PROVE  tasks'[c][j].frame < down'[c][k].frame
        <4>1. down'[c][k] = down[c][k + 1] /\ k + 1 \in 2..Len(down[c]) /\ k + 1 \in 1..Len(down[c])
              BY <1>4
        <4>2. CASE j \in 1..Len(tasks[c])
              BY <1>c, <2>2, <2>3, <3>5, <4>1, <4>2 DEF TasksInv
        <4>3. CASE j = Len(tasks[c]) + 1
              BY <2>2, <2>3, <3>3, <3>5, <4>1, <4>3
        <4> QED BY <2>2, <2>3, <4>2, <4>3
      <3>6. tasks'[c] # <<>>
            BY <2>2, <2>3
      <3> QED BY <1>7, <1>8, <3>1, <3>4, <3>5, <3>6 DEF TasksInv, IsTask
    <2> QED BY <1>0, <1>5, <2>4, <2>5, <2>7, <2>8, <2>9, <2>10, OwnStep
  <1>11. CASE ~IsTask(packet)
    <2> DEFINE new == Append(local[c][q], packet)
    <2>1. /\ local' = [local EXCEPT ![c][q] = new] /\ tasks' = tasks
          /\ packet \in Items \cup Empties
          /\ local \in [Channels -> [QueueIDs -> Seq(Items \cup Empties)]]
          BY <1>0, <1>3, <1>11, <1>t DEF Types
    <2>2. /\ new \in Seq(Items \cup Empties)
          /\ Len(local[c][q]) \in Nat /\ Len(new) = Len(local[c][q]) + 1
          /\ new[Len(local[c][q]) + 1] = packet
          /\ \A k \in 1..Len(local[c][q]) : new[k] = local[c][q][k]
          /\ \A k \in 1..Len(local[c][q]) + 1 : k \in 1..Len(local[c][q]) \/ k = Len(local[c][q]) + 1
      <3>1. local[c][q] \in Seq(Items \cup Empties)
            BY <1>3, <2>1
      <3> QED BY <2>1, <3>1, AppendElements
    <2> HIDE DEF new
    <2>3. /\ local' \in [Channels -> [QueueIDs -> Seq(Items \cup Empties)]]
          /\ \A d \in Channels : d # c => local'[d] = local[d]
          /\ \A r \in QueueIDs : r # q => local'[c][r] = local[c][r]
          /\ local'[c][q] = new
          BY <1>3, <2>1, <2>2
    <2>4. Types'
          BY <1>0, <1>2, <1>t, <2>1, <2>3 DEF Types, ServerLeaves, P
    <2>5. \A d \in Channels : d # c => OthersLeave(d)
          BY <1>0, <1>2, <2>1, <2>3 DEF OthersLeave, ServerLeaves
    <2>6. \A r : Busy(c, r)' <=> Busy(c, r)
          BY <1>0, <2>1 DEF Busy, queueOf
    <2>7. DownInv(c)'
          BY <1>9, <2>6
    <2>8. UpInv(c)'
      <3>1. FramesLeave(c)
            BY <1>0 DEF ServerLeaves, FramesLeave, Started, Open
      <3> QED BY <1>0, <1>c, <1>t, <2>6, <3>1, UpSame
    <2>9. TasksInv(c)'
      <3>1. \A k \in 1..Len(tasks[c]) : TaskOf(c, tasks[c][k])'
        <4> SUFFICES ASSUME NEW k \in 1..Len(tasks[c]), NEW t, t = tasks[c][k]
                     PROVE  TaskOf(c, t)'
            BY <2>1 DEF TaskOf, Open, Started
        <4> QED BY <1>6, <1>c DEF TasksInv
      <3>2. \A j \in 1..Len(tasks[c]), k \in 1..Len(down'[c]) :
               IsTask(down'[c][k]) => tasks[c][j].frame < down'[c][k].frame
            BY <1>4, <1>c DEF TasksInv
      <3> QED BY <1>0, <1>7, <1>8, <1>c, <2>1, <3>1, <3>2 DEF TasksInv, IsTask
    <2>s. items' = items /\ request' = request
          BY <1>0 DEF ServerLeaves
    <2>10. LocalInv(c)'
      <3> SUFFICES ASSUME NEW r \in QueueIDs, NEW k \in 1..Len(local'[c][r]), NEW p, p = local'[c][r][k]
                   PROVE  /\ p.queue = r
                          /\ p.type = ITEM => TileOf(c, p)'
                          /\ p.type = EMPTY => p.request =< request[c]
                          /\ EndOf(c, p)' =>
                                /\ items[r] = <<>>
                                /\ \A j \in k + 1..Len(local'[c][r]) : local'[c][r][j].type # ITEM
                                /\ \A j \in 1..Len(down'[c]) : down'[c][j].type # ITEM
          BY <2>s DEF LocalInv, TileOf, EndOf, Busy, queueOf
      <3>1. (TileOf(c, p)' <=> TileOf(c, p)) /\ (EndOf(c, p)' <=> EndOf(c, p))
            BY <1>0, <2>6 DEF TileOf, EndOf, ServerLeaves
      <3>2. CASE k \in 1..Len(local[c][r])
        <4>1. p = local[c][r][k]
              BY <2>2, <2>3, <3>2
        <4>2. /\ p.queue = r
              /\ p.type = ITEM => TileOf(c, p)
              /\ p.type = EMPTY => p.request =< request[c]
              /\ EndOf(c, p) =>
                    /\ items[r] = <<>>
                    /\ \A j \in k + 1..Len(local[c][r]) : local[c][r][j].type # ITEM
                    /\ \A j \in 1..Len(down[c]) : down[c][j].type # ITEM
              BY <1>c, <3>2, <4>1 DEF LocalInv
        <4>3. ASSUME NEW j \in k + 1..Len(local'[c][r])
              PROVE  \/ local'[c][r][j] = packet
                     \/ j \in k + 1..Len(local[c][r]) /\ local'[c][r][j] = local[c][r][j]
          <5>1. CASE r = q
                BY <2>2, <2>3, <3>2, <5>1
          <5>2. CASE r # q
                BY <2>3, <5>2
          <5> QED BY <5>1, <5>2
        <4> QED BY <1>1, <1>4, <3>1, <4>2, <4>3
      <3>3. CASE r = q /\ k = Len(local[c][q]) + 1
        <4>1. p = packet /\ p.queue = r
              BY <2>2, <2>3, <3>3 DEF q
        <4>2. /\ p.type = ITEM => TileOf(c, p)
              /\ p.type = EMPTY => p.request =< request[c]
              /\ EndOf(c, p) => /\ items[p.queue] = <<>>
                                /\ \A j \in 2..Len(down[c]) : down[c][j].type # ITEM
              BY <1>1, <1>c, <4>1 DEF DownInv
        <4>3. \A j \in k + 1..Len(local'[c][r]) : FALSE
              BY <2>2, <2>3, <3>3
        <4> QED BY <1>4, <3>1, <4>1, <4>2, <4>3
      <3> QED BY <2>2, <2>3, <3>2, <3>3
    <2> QED BY <1>0, <1>5, <2>4, <2>5, <2>7, <2>8, <2>9, <2>10, OwnStep
  <1> QED BY <1>10, <1>11

-----------------------------------------------------------------------------
(* The server's command thread.                                            *)

(* n tiles of queue q leave it for channel c, and an empty packet if e is  *)
(* 1, which is the case only if none is left.                              *)
Answer(c, q, r, n, e) ==
    /\ n \in Nat /\ n =< Len(items[q]) /\ e \in {0, 1} /\ (e = 1 => n = Len(items[q]))
    /\ \A k \in 1..Len(items'[q]) : items'[q][k] = items[q][k + n] /\ k + n \in 1..Len(items[q])
    /\ Len(items'[q]) = Len(items[q]) - n
    /\ \A p \in QueueIDs : p # q => items'[p] = items[p]
    /\ \A d \in Channels : d # c => down'[d] = down[d]
    /\ Len(down'[c]) = Len(down[c]) + n + e
    /\ \A k \in 1..Len(down[c]) : down'[c][k] = down[c][k]
    /\ \A k \in 1..n : LET p == down'[c][Len(down[c]) + k]
                       IN  p.type = ITEM /\ p.queue = q /\ p.tile = items[q][k]
    /\ e = 1 => LET p == down'[c][Len(down[c]) + n + 1]
                IN  p.type = EMPTY /\ p.queue = q /\ p.request = r

\* _cmdGetItem sends items, and an empty packet if there are too few.
LEMMA GetItemAnswer ==
    ASSUME Types, NEW c \in Channels, NEW packet \in Requests, CmdGetItem(c, packet)
    PROVE  /\ items' \in [QueueIDs -> Seq(Tiles)]
           /\ down' \in [Channels -> Seq(Tasks \cup Items \cup Empties)]
           /\ \E n \in Nat, e \in {0, 1} : Answer(c, packet.queue, packet.request, n, e)
  <1> DEFINE q == packet.queue
             its == items[q]
             n == IF Len(its) < PrefetchAmount THEN Len(its) ELSE PrefetchAmount
             taken == SubSeq(its, 1, n)
             replies == [k \in 1..n |-> [type |-> ITEM, queue |-> q, tile |-> taken[k]]]
             empty == [type |-> EMPTY, queue |-> q, request |-> packet.request]
             rest == IF PrefetchAmount > n THEN <<empty>> ELSE <<>>
             e == IF PrefetchAmount > n THEN 1 ELSE 0
             P == Tasks \cup Items \cup Empties
  <1>1. /\ items' = [items EXCEPT ![q] = SubSeq(its, n + 1, Len(its))]
        /\ down' = [down EXCEPT ![c] = down[c] \o replies \o rest]
        BY DEF CmdGetItem
  <1>2. q \in QueueIDs /\ packet.request \in Nat /\ items \in [QueueIDs -> Seq(Tiles)]
        /\ down \in [Channels -> Seq(P)]
        BY DEF Requests, Types
  <1>3. its \in Seq(Tiles) /\ Len(its) \in Nat /\ PrefetchAmount \in Nat \ {0} /\ down[c] \in Seq(P)
        BY <1>2, LenProperties, TileQueueAssumption
  <1>4. empty \in Empties /\ empty.type = EMPTY /\ empty.queue = q /\ empty.request = packet.request
        BY <1>2 DEF Empties
  <1> HIDE DEF q, its, empty
  <1>5. n \in Nat /\ n =< Len(its) /\ e \in {0, 1} /\ (e = 1 => n = Len(its)) /\ (e = 1 <=> PrefetchAmount > n)
        BY <1>3
  <1> HIDE DEF n, e
  <1>6. /\ taken \in Seq(Tiles) /\ Len(taken) = n /\ \A k \in 1..n : taken[k] = its[k]
    <2>1. \A i \in 1..n : its[i] \in Tiles
          BY <1>3, <1>5, ElementOfSeq
    <2> QED BY <1>3, <1>5, <2>1, SubSeqProperties
  <1> HIDE DEF taken
  <1>7. \A k \in 1..n : taken[k] \in Tiles
        BY <1>6, ElementOfSeq
  <1>8. ASSUME NEW k \in 1..n
        PROVE  /\ replies[k] \in Items /\ replies[k].type = ITEM /\ replies[k].queue = q
               /\ replies[k].tile = its[k]
    <2>1. replies[k] = [type |-> ITEM, queue |-> q, tile |-> taken[k]]
          OBVIOUS
    <2>2. taken[k] \in Tiles /\ taken[k] = its[k]
          BY <1>6, <1>7
    <2> HIDE DEF replies
    <2> QED BY <1>2, <2>1, <2>2 DEF Items
  <1>9. replies \in Seq(Items) /\ Len(replies) = n
    <2>1. DOMAIN replies = 1..n /\ replies = [k \in 1..n |-> replies[k]]
          OBVIOUS
    <2> HIDE DEF replies
    <2>2. replies \in [1..n -> Items]
          BY <1>8, <2>1
    <2>3. replies \in Seq(Items)
          BY <1>5, <2>2, SeqDef
    <2> QED BY <1>5, <2>2, <2>3
  <1> HIDE DEF replies
  <1>10. /\ rest \in Seq(Empties) /\ Len(rest) = e
         /\ e = 1 => rest[1] = empty
    <2>1. CASE PrefetchAmount > n
      <3>1. rest = <<empty>> /\ e = 1
            BY <2>1, <1>5
      <3>2. <<empty>> \in Seq(Empties) /\ Len(<<empty>>) = 1 /\ <<empty>>[1] = empty
            BY <1>4
      <3> HIDE DEF rest
      <3> QED BY <3>1, <3>2
    <2>2. CASE ~(PrefetchAmount > n)
      <3>1. rest = <<>> /\ e = 0
            BY <2>2, <1>5
      <3> HIDE DEF rest
      <3> QED BY <3>1, EmptySeq
    <2> QED BY <2>1, <2>2
  <1> HIDE DEF rest
  <1>11. replies \in Seq(P) /\ rest \in Seq(P)
    <2>1. \A i \in 1..Len(replies) : replies[i] \in P
          BY <1>8, <1>9
    <2>2. \A i \in 1..Len(rest) : rest[i] \in P
          BY <1>4, <1>10
    <2> HIDE DEF P
    <2> QED BY <1>9, <1>10, <2>1, <2>2, SeqDef
  <1> HIDE DEF P
  <1>12. /\ down[c] \o replies \in Seq(P) /\ Len(down[c] \o replies) = Len(down[c]) + n
         /\ Len(down[c]) \in Nat
         /\ \A i \in 1..Len(down[c]) + n :
               (down[c] \o replies)[i] =
                   IF i =< Len(down[c]) THEN down[c][i] ELSE replies[i - Len(down[c])]
         BY <1>3, <1>9, <1>11, ConcatProperties, LenProperties, ZenonT(30)
  <1> DEFINE dr == down[c] \o replies
             new == dr \o rest
  <1> HIDE DEF dr
  <1>13. /\ new \in Seq(P) /\ Len(new) = Len(down[c]) + n + e
         /\ \A i \in 1..Len(down[c]) + n + e :
               new[i] = IF i =< Len(down[c]) + n THEN dr[i] ELSE rest[i - (Len(down[c]) + n)]
    <2>1. dr \in Seq(P) /\ Len(dr) = Len(down[c]) + n
          BY <1>12 DEF dr
    <2>2. /\ dr \o rest \in Seq(P) /\ Len(dr \o rest) = Len(dr) + Len(rest)
          /\ \A i \in 1..Len(dr) + Len(rest) :
                (dr \o rest)[i] = IF i =< Len(dr) THEN dr[i] ELSE rest[i - Len(dr)]
          BY <1>11, <2>1, ConcatProperties, Zenon
    <2>3. Len(rest) = e
          BY <1>10
    <2> QED BY <2>1, <2>2, <2>3, Zenon
  <1> HIDE DEF new
  <1>14. down' \in [Channels -> Seq(P)] /\ down'[c] = new /\ \A d \in Channels : d # c => down'[d] = down[d]
         BY <1>1, <1>2, <1>13 DEF new, dr
  <1>15. \A k \in 1..Len(down[c]) : new[k] = down[c][k]
         BY <1>5, <1>12, <1>13, SMTT(30) DEF dr
  <1>16. ASSUME NEW k \in 1..n
         PROVE  new[Len(down[c]) + k] = replies[k]
    <2>1. Len(down[c]) + k \in 1..Len(down[c]) + n /\ Len(down[c]) + k \in 1..Len(down[c]) + n + e
          /\ ~(Len(down[c]) + k =< Len(down[c])) /\ (Len(down[c]) + k) - Len(down[c]) = k
          BY <1>5, <1>12
    <2>2. new[Len(down[c]) + k] = dr[Len(down[c]) + k]
          BY <1>12, <1>13, <2>1, <1>5, SMTT(30)
    <2>3. dr[Len(down[c]) + k] = replies[(Len(down[c]) + k) - Len(down[c])]
          BY <1>12, <2>1 DEF dr
    <2> QED BY <2>1, <2>2, <2>3
  <1>17. e = 1 => new[Len(down[c]) + n + 1] = empty
         BY <1>5, <1>10, <1>12, <1>13, SMTT(30)
  <1>18. /\ SubSeq(its, n + 1, Len(its)) \in Seq(Tiles) /\ Len(SubSeq(its, n + 1, Len(its))) = Len(its) - n
         /\ \A k \in 1..Len(its) - n : SubSeq(its, n + 1, Len(its))[k] = its[k + n] /\ k + n \in 1..Len(its)
    <2>1. \A i \in n + 1..Len(its) : its[i] \in Tiles
          BY <1>3, <1>5, ElementOfSeq
    <2>2. n + 1 \in 1..Len(its) + 1 /\ Len(its) \in n..Len(its)
          BY <1>3, <1>5
    <2>3. SubSeq(its, n + 1, Len(its)) \in Seq(Tiles)
          BY <1>3, <1>5, <2>1
    <2>4. /\ Len(SubSeq(its, n + 1, Len(its))) = Len(its) - n
          /\ \A k \in 1..Len(its) - n : SubSeq(its, n + 1, Len(its))[k] = its[k + n]
          BY <1>3, <1>5
    <2> QED BY <1>3, <1>5, <2>3, <2>4, SMTT(30)
  <1>19. /\ items' \in [QueueIDs -> Seq(Tiles)] /\ items'[q] = SubSeq(its, n + 1, Len(its))
         /\ \A p \in QueueIDs : p # q => items'[p] = items[p]
         BY <1>1, <1>2, <1>18
  <1>20. \A k \in 1..n : LET p == down'[c][Len(down[c]) + k]
                         IN  p.type = ITEM /\ p.queue = q /\ p.tile = items[q][k]
         BY <1>8, <1>14, <1>16 DEF its
  <1>21. e = 1 => LET p == down'[c][Len(down[c]) + n + 1]
                  IN  p.type = EMPTY /\ p.queue = q /\ p.request = packet.request
         BY <1>4, <1>14, <1>17
  <1>22. Answer(c, q, packet.request, n, e)
         BY <1>5, <1>13, <1>14, <1>15, <1>18, <1>19, <1>20, <1>21 DEF Answer, its
  <1> QED BY <1>5, <1>14, <1>19, <1>22 DEF q, P

(* Tiles go to a channel that works on their frame, and the empty packet   *)
(* after them means that the queue is empty.                               *)
LEMMA GetItemStep ==
    ASSUME TileInv, NEW c \in Channels, ServerCommand(c), Head(up[c]).type = "getItem"
    PROVE  TileInv'
  <1>t. Types /\ PoolInv /\ TilesInv /\ ChannelInv /\ TilesOfFrame
        BY DEF TileInv
  <1>c. FinishedInv(c) /\ TasksInv(c) /\ UpInv(c) /\ DownInv(c) /\ LocalInv(c)
        BY <1>t DEF ChannelInv
  <1> DEFINE packet == Head(up[c])
             q == packet.queue
             len == Len(down[c])
  <1>0. /\ up[c] # <<>> /\ up' = [up EXCEPT ![c] = Tail(up[c])]
        /\ CmdGetItem(c, packet) /\ finished' = finished
        /\ frame' = frame /\ server' = server /\ active' = active /\ viewport' = viewport
        /\ queues' = queues /\ age' = age /\ toPush' = toPush
        /\ tasks' = tasks /\ local' = local /\ pc' = pc /\ request' = request /\ drawn' = drawn
        BY DEF ServerCommand, serverVars, channelVars
  <1>1. /\ Tail(up[c]) \in Seq(Requests \cup Finishes) /\ Len(Tail(up[c])) = Len(up[c]) - 1
        /\ Len(up[c]) \in Nat /\ packet = up[c][1] /\ 1 \in 1..Len(up[c])
        /\ packet \in Requests \cup Finishes
        /\ \A k \in 1..Len(Tail(up[c])) : Tail(up[c])[k] = up[c][k + 1] /\ k + 1 \in 1..Len(up[c])
    <2>1. up[c] \in Seq(Requests \cup Finishes)
          BY <1>t DEF Types
    <2> QED BY <1>0, <2>1, TailElements
  <1>2. packet \in Requests /\ q \in QueueIDs /\ packet.request \in Nat
    <2>1. packet \in Requests
          BY <1>1 DEF Finishes
    <2> QED BY <2>1 DEF Requests
  <1>3. /\ items' \in [QueueIDs -> Seq(Tiles)]
        /\ down' \in [Channels -> Seq(Tasks \cup Items \cup Empties)]
        /\ \E n \in Nat, e \in {0, 1} : Answer(c, packet.queue, packet.request, n, e)
        BY <1>0, <1>2, <1>t, GetItemAnswer
  <1>4. PICK n \in Nat, e \in {0, 1} : Answer(c, q, packet.request, n, e)
        BY <1>3
  <1>5. /\ n =< Len(items[q]) /\ (e = 1 => n = Len(items[q]))
        /\ \A k \in 1..Len(items'[q]) : items'[q][k] = items[q][k + n] /\ k + n \in 1..Len(items[q])
        /\ Len(items'[q]) = Len(items[q]) - n
        /\ \A p \in QueueIDs : p # q => items'[p] = items[p]
        /\ \A d \in Channels : d # c => down'[d] = down[d]
        /\ Len(down'[c]) = len + n + e
        /\ \A k \in 1..len : down'[c][k] = down[c][k]
        /\ \A k \in 1..n : /\ down'[c][len + k].type = ITEM /\ down'[c][len + k].queue = q
                           /\ down'[c][len + k].tile = items[q][k]
        /\ e = 1 => /\ down'[c][len + n + 1].type = EMPTY /\ down'[c][len + n + 1].queue = q
                    /\ down'[c][len + n + 1].request = packet.request
        BY <1>4 DEF Answer
  <1>6. len \in Nat /\ Len(items[q]) \in Nat /\ items[q] \in Seq(Tiles) /\ items'[q] \in Seq(Tiles)
        BY <1>2, <1>3, <1>t, LenProperties DEF Types
  <1>7. /\ up' \in [Channels -> Seq(Requests \cup Finishes)] /\ up'[c] = Tail(up[c])
        /\ \A d \in Channels : d # c => up'[d] = up[d]
        BY <1>0, <1>1, <1>t DEF Types
  <1>u. /\ Len(up'[c]) = Len(up[c]) - 1
        /\ \A k \in 1..Len(up'[c]) : up'[c][k] = up[c][k + 1] /\ k + 1 \in 1..Len(up[c])
        BY <1>1, <1>7
  <1>8. /\ packet.request =< request[c]
        /\ Busy(c, q) \/ items[q] = <<>>
    <2>1. /\ packet.request =< request[c]
          /\ \/ Busy(c, q)
             \/ \E j \in 2..Len(up[c]) : up[c][j].type = "finish" /\ up[c][j].frame = age[q]
          BY <1>1, <1>c DEF UpInv
    <2>2. \A j \in 2..Len(up[c]) : up[c][j].type = "finish" /\ up[c][j].frame = age[q] => items[q] = <<>>
          BY <1>1, <1>2, <1>c DEF UpInv
    <2> QED BY <2>1, <2>2
  <1> HIDE DEF packet, q, len
  <1>9. items[q] = <<>> => n = 0 /\ items'[q] = <<>>
        BY <1>5, <1>6, EmptySeq
  <1>10. \A p \in QueueIDs : items[p] = <<>> => items'[p] = <<>>
         BY <1>5, <1>9
  <1>11. n # 0 => Busy(c, q) /\ \A p \in QueueIDs : Busy(c, p) => items[p] # <<>>
         BY <1>8, <1>9 DEF Busy
  <1>12. e = 1 => items'[q] = <<>>
         BY <1>5, <1>6, EmptySeq
  <1>13. Types'
         BY <1>0, <1>3, <1>7, <1>t DEF Types
  <1>14. PoolInv'
         BY <1>0, <1>t DEF PoolInv, AgesInv
  <1>15. TilesInv'
    <2>1. ASSUME NEW p \in QueueIDs, ~Clearing(p)'
          PROVE  \A k \in 1..Len(items'[p]) : items'[p][k].frame = age'[p]
      <3>1. ~Clearing(p)
            BY <1>0, <2>1 DEF Clearing, current
      <3>2. \A k \in 1..Len(items[p]) : items[p][k].frame = age[p]
            BY <1>t, <3>1 DEF TilesInv
      <3>3. CASE p = q
            BY <1>0, <1>5, <3>2, <3>3
      <3>4. CASE p # q
            BY <1>0, <1>5, <3>2, <3>4
      <3> QED BY <3>3, <3>4
    <2> QED BY <1>0, <1>t, <2>1 DEF TilesInv
  <1>16. ASSUME NEW d \in Channels
         PROVE  FramesLeave(d)
         BY <1>0, <1>10 DEF FramesLeave, Open, Started
  <1>17. ASSUME NEW d \in Channels, d # c
         PROVE  FinishedInv(d)' /\ TasksInv(d)' /\ UpInv(d)' /\ DownInv(d)' /\ LocalInv(d)'
    <2>1. OthersLeave(d)
          BY <1>0, <1>5, <1>7, <1>17 DEF OthersLeave
    <2> QED BY <1>16, <1>t, <2>1, ChannelSame
  <1>18. FinishedInv(c)'
         BY <1>0, <1>c DEF FinishedInv, Started
  <1>19. ASSUME NEW k \in 1..Len(down'[c])
         PROVE  \/ k \in 1..len
                \/ k - len \in 1..n /\ k = len + (k - len)
                \/ e = 1 /\ k = len + n + 1
         BY <1>5, <1>6
  <1>20. \A k \in 1..Len(down'[c]) : IsTask(down'[c][k]) => k \in 1..len /\ down'[c][k] = down[c][k]
    <2> SUFFICES ASSUME NEW k \in 1..Len(down'[c]), IsTask(down'[c][k])
                 PROVE  k \in 1..len /\ down'[c][k] = down[c][k]
        OBVIOUS
    <2>1. down'[c][k].type # ITEM /\ down'[c][k].type # EMPTY
          BY DEF IsTask, ITEM, EMPTY
    <2> QED BY <1>5, <1>19, <2>1
  <1>21. TasksInv(c)'
    <2>1. ASSUME NEW t, TaskOf(c, t)
          PROVE  TaskOf(c, t)'
          BY <1>0, <1>u, <2>1 DEF TaskOf, Open, Started
    <2>2. \A k \in 1..Len(tasks[c]) : TaskOf(c, tasks[c][k])'
      <3> SUFFICES ASSUME NEW k \in 1..Len(tasks[c]), NEW t, t = tasks[c][k]
                   PROVE  TaskOf(c, t)'
          BY <1>0 DEF TaskOf, Open, Started
      <3> QED BY <1>c, <2>1 DEF TasksInv
    <2>3. \A k \in 1..Len(down'[c]) : IsTask(down[c][k])' => TaskOf(c, down[c][k])'
      <3> SUFFICES ASSUME NEW k \in 1..Len(down'[c]), NEW t, t = down'[c][k], IsTask(t)
                   PROVE  TaskOf(c, t)'
          BY DEF TaskOf, Open, Started, IsTask
      <3> QED BY <1>20, <1>c, <2>1 DEF TasksInv, len
    <2>4. \A j \in 1..Len(tasks[c]), k \in 1..Len(down'[c]) :
             IsTask(down'[c][k]) => tasks[c][j].frame < down'[c][k].frame
          BY <1>20, <1>c DEF TasksInv, len
    <2>5. \A j, k \in 1..Len(down'[c]) :
             j < k /\ IsTask(down'[c][j]) /\ IsTask(down'[c][k]) => down'[c][j].frame < down'[c][k].frame
          BY <1>20, <1>c DEF TasksInv, len
    <2> QED BY <1>0, <1>c, <2>2, <2>3, <2>4, <2>5 DEF TasksInv, IsTask
  <1>22. UpInv(c)'
    <2>1. ASSUME NEW j \in 1..Len(up'[c]), up'[c][j].type = "finish", NEW f, f = up'[c][j].frame
          PROVE  /\ Open(c, f)'
                 /\ \A r \in QueueIDs : age'[r] = f => items'[r] = <<>>
                 /\ \A k \in 1..j - 1 : up'[c][k].type = "finish" => up'[c][k].frame # f
      <3>1. /\ Open(c, f) /\ \A r \in QueueIDs : age[r] = f => items[r] = <<>>
            /\ \A k \in 1..(j + 1) - 1 : up[c][k].type = "finish" => up[c][k].frame # f
            BY <1>u, <1>c, <2>1, ZenonT(30) DEF UpInv
      <3>2. ASSUME NEW k \in 1..j - 1
            PROVE  up'[c][k] = up[c][k + 1] /\ k + 1 \in 1..(j + 1) - 1
        <4>1. Len(up'[c]) \in Nat
              BY <1>7
        <4>2. k \in 1..Len(up'[c]) /\ k + 1 \in 1..(j + 1) - 1
              BY <4>1
        <4> QED BY <1>u, <4>2, Zenon
      <3> QED BY <1>0, <1>10, <3>1, <3>2 DEF Open, Started
    <2>2. ASSUME NEW k \in 1..Len(up'[c]), up'[c][k].type = "getItem", NEW r, r = up'[c][k].queue
          PROVE  /\ up'[c][k].request =< request[c]
                 /\ \/ Busy(c, r)'
                    \/ \E j \in k + 1..Len(up'[c]) :
                          up'[c][j].type = "finish" /\ up'[c][j].frame = age[r]
      <3>1. /\ up'[c][k].request =< request[c]
            /\ \/ Busy(c, r)
               \/ \E j \in (k + 1) + 1..Len(up[c]) :
                     up[c][j].type = "finish" /\ up[c][j].frame = age[r]
            BY <1>u, <1>c, <2>2, ZenonT(30) DEF UpInv
      <3>2. ASSUME NEW j \in (k + 1) + 1..Len(up[c])
            PROVE  j - 1 \in k + 1..Len(up'[c]) /\ up'[c][j - 1] = up[c][j]
        <4>1. j - 1 \in k + 1..Len(up'[c]) /\ j - 1 \in 1..Len(up'[c]) /\ (j - 1) + 1 = j
              BY <1>1, <1>u
        <4> QED BY <1>u, <4>1
      <3>3. Busy(c, r)' <=> Busy(c, r)
            BY <1>0 DEF Busy, queueOf
      <3> QED BY <3>1, <3>2, <3>3
    <2>3. \A j \in 1..Len(up'[c]) : up'[c][j].type = "finish" =>
             /\ Open(c, up[c][j].frame)'
             /\ \A r \in QueueIDs : age'[r] = up'[c][j].frame => items'[r] = <<>>
             /\ \A k \in 1..j - 1 : up'[c][k].type = "finish" => up'[c][k].frame # up'[c][j].frame
          BY <2>1 DEF Open, Started
    <2>4. \A k \in 1..Len(up'[c]) : up'[c][k].type = "getItem" =>
             /\ up'[c][k].request =< request[c]
             /\ \/ Busy(c, up[c][k].queue)'
                \/ \E j \in k + 1..Len(up'[c]) :
                      up'[c][j].type = "finish" /\ up'[c][j].frame = age[up'[c][k].queue]
          BY <2>2 DEF Busy, queueOf
    <2> QED BY <1>0, <2>3, <2>4 DEF UpInv
  <1>23. \A p : (TileOf(c, p)' <=> TileOf(c, p)) /\ (EndOf(c, p)' <=> EndOf(c, p))
         BY <1>0 DEF TileOf, EndOf, Busy, queueOf
  <1>24. DownInv(c)'
    <2> SUFFICES ASSUME NEW k \in 1..Len(down'[c]), NEW p, p = down'[c][k]
                 PROVE  /\ p.type = ITEM => TileOf(c, p)
                        /\ p.type = EMPTY => p.request =< request[c]
                        /\ EndOf(c, p) => /\ items'[p.queue] = <<>>
                                          /\ \A j \in k + 1..Len(down'[c]) : down'[c][j].type # ITEM
        BY <1>0 DEF DownInv, TileOf, EndOf, Busy, queueOf
    <2>1. CASE k \in 1..len
      <3>1. /\ p.queue \in QueueIDs
            /\ p.type = ITEM => TileOf(c, p)
            /\ p.type = EMPTY => p.request =< request[c]
            /\ EndOf(c, p) => /\ items[p.queue] = <<>>
                              /\ \A j \in k + 1..len : down[c][j].type # ITEM
            BY <1>5, <1>c, <1>t, <2>1, Packets DEF DownInv, len
      <3>2. EndOf(c, p) => n = 0
            BY <1>11, <3>1 DEF EndOf
      <3>3. ASSUME EndOf(c, p), NEW j \in k + 1..Len(down'[c])
            PROVE  down'[c][j].type # ITEM
        <4>1. CASE j \in k + 1..len
          <5>1. j \in 1..len
                BY <1>6, <2>1, <4>1
          <5>2. down'[c][j] = down[c][j]
                BY <1>5, <5>1
          <5> QED BY <3>1, <3>3, <4>1, <5>2
        <4>2. CASE e = 1 /\ j = len + n + 1
              BY <1>5, <4>2 DEF ITEM, EMPTY
        <4> QED BY <1>5, <1>6, <2>1, <3>2, <3>3, <4>1, <4>2
      <3> QED BY <1>10, <3>1, <3>3
    <2>2. CASE k - len \in 1..n /\ k = len + (k - len)
      <3>1. p.type = ITEM /\ p.queue = q /\ p.tile = items[q][k - len] /\ k - len \in 1..Len(items[q])
            BY <1>5, <1>6, <2>2
      <3>2. n # 0 /\ Busy(c, q)
            BY <1>11, <2>2
      <3>3. ~Clearing(q)
        <4>1. Open(c, age[q])
              BY <1>c, <1>t, <3>2, BusyOpen DEF Busy
        <4>2. server # "idle" => age[current] = frame /\ frame \in Frames
              BY <1>t, CurrentQueue
        <4> QED BY <4>1, <4>2 DEF Clearing, Open, Started, Frames
      <3>4. p.tile.frame = age[q]
            BY <1>2, <1>t, <3>1, <3>3 DEF TilesInv
      <3> QED BY <3>1, <3>2, <3>4 DEF TileOf, EndOf, ITEM, EMPTY
    <2>3. CASE e = 1 /\ k = len + n + 1
      <3>1. p.type = EMPTY /\ p.queue = q /\ p.request = packet.request /\ Len(down'[c]) = k
            BY <1>5, <2>3
      <3> QED BY <1>8, <1>12, <2>3, <3>1 DEF ITEM, EMPTY
    <2> QED BY <1>19, <2>1, <2>2, <2>3
  <1>25. LocalInv(c)'
    <2> SUFFICES ASSUME NEW r \in QueueIDs, NEW k \in 1..Len(local[c][r]), NEW p, p = local[c][r][k]
                 PROVE  /\ p.queue = r
                        /\ p.type = ITEM => TileOf(c, p)
                        /\ p.type = EMPTY => p.request =< request[c]
                        /\ EndOf(c, p) =>
                              /\ items'[r] = <<>>
                              /\ \A j \in k + 1..Len(local[c][r]) : local[c][r][j].type # ITEM
                              /\ \A j \in 1..Len(down'[c]) : down'[c][j].type # ITEM
        BY <1>0 DEF LocalInv, TileOf, EndOf, Busy, queueOf
    <2>1. /\ p.queue = r
          /\ p.type = ITEM => TileOf(c, p)
          /\ p.type = EMPTY => p.request =< request[c]
          /\ EndOf(c, p) =>
                /\ items[r] = <<>>
                /\ \A j \in k + 1..Len(local[c][r]) : local[c][r][j].type # ITEM
                /\ \A j \in 1..len : down[c][j].type # ITEM
          BY <1>c DEF LocalInv, len
    <2>2. EndOf(c, p) => n = 0
          BY <1>11, <2>1 DEF EndOf
    <2>3. ASSUME EndOf(c, p), NEW j \in 1..Len(down'[c])
          PROVE  down'[c][j].type # ITEM
      <3>1. CASE j \in 1..len
            BY <1>5, <2>1, <2>3, <3>1
      <3>2. CASE e = 1 /\ j = len + n + 1
            BY <1>5, <3>2 DEF ITEM, EMPTY
      <3> QED BY <1>19, <2>2, <2>3, <3>1, <3>2
    <2> QED BY <1>10, <2>1, <2>3
  <1>26. TilesOfFrame'
         BY <1>0, <1>t DEF TilesOfFrame
  <1>27. ChannelInv'
         BY <1>17, <1>18, <1>21, <1>22, <1>24, <1>25 DEF ChannelInv
  <1> QED BY <1>13, <1>14, <1>15, <1>26, <1>27 DEF TileInv

(* The server learns that a channel has finished a frame.                  *)
LEMMA FinishStep ==
    ASSUME TileInv, NEW c \in Channels, ServerCommand(c), Head(up[c]).type = "finish"
    PROVE  TileInv'
  <1>t. Types /\ PoolInv /\ TilesInv /\ ChannelInv /\ TilesOfFrame
        BY DEF TileInv
  <1>c. FinishedInv(c) /\ TasksInv(c) /\ UpInv(c) /\ DownInv(c) /\ LocalInv(c)
        BY <1>t DEF ChannelInv
  <1> DEFINE packet == Head(up[c])
             g == packet.frame
  <1>0. /\ up[c] # <<>> /\ up' = [up EXCEPT ![c] = Tail(up[c])]
        /\ finished' = [finished EXCEPT ![c] = finished[c] \cup {g}]
        /\ items' = items /\ down' = down
        /\ frame' = frame /\ server' = server /\ active' = active /\ viewport' = viewport
        /\ queues' = queues /\ age' = age /\ toPush' = toPush
        /\ tasks' = tasks /\ local' = local /\ pc' = pc /\ request' = request /\ drawn' = drawn
        BY DEF ServerCommand, serverVars, channelVars
  <1>1. /\ Tail(up[c]) \in Seq(Requests \cup Finishes) /\ Len(Tail(up[c])) = Len(up[c]) - 1
        /\ Len(up[c]) \in Nat /\ packet = up[c][1] /\ 1 \in 1..Len(up[c])
        /\ \A k \in 1..Len(Tail(up[c])) : Tail(up[c])[k] = up[c][k + 1] /\ k + 1 \in 1..Len(up[c])
    <2>1. up[c] \in Seq(Requests \cup Finishes)
          BY <1>t DEF Types
    <2> QED BY <1>0, <2>1, TailElements
  <1>2. g \in Frames /\ Open(c, g)
        BY <1>1, <1>c, <1>t, Packets DEF UpInv
  <1>3. \A j \in 2..Len(up[c]) : up[c][j].type = "finish" => up[c][j].frame # g
    <2> SUFFICES ASSUME NEW j \in 2..Len(up[c]), up[c][j].type = "finish"
                 PROVE  up[c][j].frame # g
        OBVIOUS
    <2>1. j \in 1..Len(up[c]) /\ 1 \in 1..j - 1
          BY <1>1
    <2>2. up[c][1].type = "finish" /\ up[c][1].frame = g
          BY <1>1
    <2>3. up[c][1].frame # up[c][j].frame
          BY <1>c, <2>1, <2>2 DEF UpInv
    <2> QED BY <2>2, <2>3
  <1>4. \A t : TaskOf(c, t) => t.frame # g
        BY <1>1 DEF TaskOf
  <1> HIDE DEF packet, g
  <1>5. /\ up' \in [Channels -> Seq(Requests \cup Finishes)] /\ up'[c] = Tail(up[c])
        /\ \A d \in Channels : d # c => up'[d] = up[d]
        BY <1>0, <1>1, <1>t DEF Types
  <1>6. /\ finished' \in [Channels -> SUBSET Frames] /\ finished'[c] = finished[c] \cup {g}
        /\ \A d \in Channels : d # c => finished'[d] = finished[d]
        BY <1>0, <1>2, <1>t DEF Types
  <1>u. /\ Len(up'[c]) = Len(up[c]) - 1
        /\ \A k \in 1..Len(up'[c]) : /\ up'[c][k] = up[c][k + 1] /\ k + 1 \in 1..Len(up[c])
                                     /\ k + 1 \in 2..Len(up[c])
        BY <1>1, <1>5
  <1>7. Types'
        BY <1>0, <1>5, <1>6, <1>t DEF Types
  <1>8. PoolInv'
        BY <1>0, <1>t DEF PoolInv, AgesInv
  <1>9. TilesInv'
        BY <1>0, <1>t DEF TilesInv, Clearing, current
  <1>10. ASSUME NEW d \in Channels, d # c
         PROVE  FinishedInv(d)' /\ TasksInv(d)' /\ UpInv(d)' /\ DownInv(d)' /\ LocalInv(d)'
    <2>1. OthersLeave(d)
          BY <1>0, <1>5, <1>6, <1>10 DEF OthersLeave
    <2>2. FramesLeave(d)
          BY <1>0, <1>6, <1>10 DEF FramesLeave, Open, Started
    <2> QED BY <1>t, <2>1, <2>2, ChannelSame
  <1>11. FinishedInv(c)'
         BY <1>0, <1>2, <1>6, <1>c DEF FinishedInv, Open, Started
  <1>12. ASSUME NEW f, Open(c, f), f # g
         PROVE  Open(c, f)'
         BY <1>0, <1>6, <1>12 DEF Open, Started
  <1>13. TasksInv(c)'
    <2>1. ASSUME NEW t, TaskOf(c, t)
          PROVE  TaskOf(c, t)'
      <3>1. Open(c, t.frame) /\ t.frame # g
            BY <1>4, <2>1 DEF TaskOf
      <3>2. Open(c, t.frame)'
            BY <1>0, <1>6, <3>1 DEF Open, Started
      <3> QED BY <1>0, <1>u, <2>1, <3>2 DEF TaskOf
    <2>2. \A k \in 1..Len(tasks[c]) : TaskOf(c, tasks[c][k])'
      <3> SUFFICES ASSUME NEW k \in 1..Len(tasks[c]), NEW t, t = tasks[c][k]
                   PROVE  TaskOf(c, t)'
          BY <1>0 DEF TaskOf, Open, Started
      <3> QED BY <1>c, <2>1 DEF TasksInv
    <2>3. \A k \in 1..Len(down[c]) : IsTask(down[c][k])' => TaskOf(c, down[c][k])'
      <3> SUFFICES ASSUME NEW k \in 1..Len(down[c]), NEW t, t = down[c][k], IsTask(t)
                   PROVE  TaskOf(c, t)'
          BY <1>0 DEF TaskOf, Open, Started, IsTask
      <3> QED BY <1>c, <2>1 DEF TasksInv
    <2> QED BY <1>0, <1>c, <2>2, <2>3 DEF TasksInv, IsTask
  <1>14. UpInv(c)'
    <2>1. ASSUME NEW j \in 1..Len(up'[c]), up'[c][j].type = "finish", NEW f, f = up'[c][j].frame
          PROVE  /\ Open(c, f)'
                 /\ \A r \in QueueIDs : age'[r] = f => items'[r] = <<>>
                 /\ \A k \in 1..j - 1 : up'[c][k].type = "finish" => up'[c][k].frame # f
      <3>1. /\ Open(c, f) /\ \A r \in QueueIDs : age[r] = f => items[r] = <<>>
            /\ \A k \in 1..(j + 1) - 1 : up[c][k].type = "finish" => up[c][k].frame # f
            /\ f # g
            BY <1>3, <1>u, <1>c, <2>1 DEF UpInv
      <3>2. ASSUME NEW k \in 1..j - 1
            PROVE  up'[c][k] = up[c][k + 1] /\ k + 1 \in 1..(j + 1) - 1
        <4>1. k \in 1..Len(up'[c]) /\ k + 1 \in 1..(j + 1) - 1
              BY <1>1, <1>u
        <4> QED BY <1>u, <4>1
      <3>3. Open(c, f)'
            BY <1>12, <3>1
      <3> QED BY <1>0, <3>1, <3>2, <3>3
    <2>2. ASSUME NEW k \in 1..Len(up'[c]), up'[c][k].type = "getItem", NEW r, r = up'[c][k].queue
          PROVE  /\ up'[c][k].request =< request[c]
                 /\ \/ Busy(c, r)'
                    \/ \E j \in k + 1..Len(up'[c]) :
                          up'[c][j].type = "finish" /\ up'[c][j].frame = age[r]
      <3>1. /\ up'[c][k].request =< request[c]
            /\ \/ Busy(c, r)
               \/ \E j \in (k + 1) + 1..Len(up[c]) :
                     up[c][j].type = "finish" /\ up[c][j].frame = age[r]
            BY <1>u, <1>c, <2>2 DEF UpInv
      <3>2. ASSUME NEW j \in (k + 1) + 1..Len(up[c])
            PROVE  j - 1 \in k + 1..Len(up'[c]) /\ up'[c][j - 1] = up[c][j]
        <4>1. j - 1 \in k + 1..Len(up'[c]) /\ j - 1 \in 1..Len(up'[c]) /\ (j - 1) + 1 = j
              BY <1>1, <1>u
        <4> QED BY <1>u, <4>1
      <3>3. Busy(c, r)' <=> Busy(c, r)
            BY <1>0 DEF Busy, queueOf
      <3> QED BY <3>1, <3>2, <3>3
    <2>3. \A j \in 1..Len(up'[c]) : up'[c][j].type = "finish" =>
             /\ Open(c, up[c][j].frame)'
             /\ \A r \in QueueIDs : age'[r] = up'[c][j].frame => items'[r] = <<>>
             /\ \A k \in 1..j - 1 : up'[c][k].type = "finish" => up'[c][k].frame # up'[c][j].frame
          BY <2>1 DEF Open, Started
    <2>4. \A k \in 1..Len(up'[c]) : up'[c][k].type = "getItem" =>
             /\ up'[c][k].request =< request[c]
             /\ \/ Busy(c, up[c][k].queue)'
                \/ \E j \in k + 1..Len(up'[c]) :
                      up'[c][j].type = "finish" /\ up'[c][j].frame = age[up'[c][k].queue]
          BY <2>2 DEF Busy, queueOf
    <2>5. age' = age /\ request' = request
          BY <1>0
    <2> QED BY <2>3, <2>4, <2>5 DEF UpInv
  <1>15. DownInv(c)'
         BY <1>0, <1>c DEF DownInv, TileOf, EndOf, Busy, queueOf
  <1>16. LocalInv(c)'
         BY <1>0, <1>c DEF LocalInv, TileOf, EndOf, Busy, queueOf
  <1>17. TilesOfFrame'
         BY <1>0, <1>t DEF TilesOfFrame
  <1>18. ChannelInv'
         BY <1>10, <1>11, <1>13, <1>14, <1>15, <1>16 DEF ChannelInv
  <1> QED BY <1>7, <1>8, <1>9, <1>17, <1>18 DEF TileInv

-----------------------------------------------------------------------------
\* A step that changes nothing.
LEMMA StutterStep ==
    ASSUME TileInv, UNCHANGED vars
    PROVE  TileInv'
  <1>0. ServerLeaves /\ drawn' = drawn /\ \A c \in Channels : OthersLeave(c) /\ FramesLeave(c)
        BY DEF vars, serverVars, channelVars, ServerLeaves, OthersLeave, FramesLeave, Open, Started
  <1>1. Types'
        BY DEF vars, serverVars, channelVars, TileInv, Types
  <1>2. PoolInv' /\ TilesInv' /\ TilesOfFrame'
        BY <1>0 DEF ServerLeaves, TileInv, PoolInv, AgesInv, TilesInv, Clearing, current, TilesOfFrame
  <1>3. ChannelInv'
        BY <1>0, ChannelSame DEF TileInv, ChannelInv
  <1> QED BY <1>1, <1>2, <1>3 DEF TileInv

\* TileInv is inductive: one lemma above for each action.
LEMMA TileStep ==
    ASSUME TileInv, [Next]_vars
    PROVE  TileInv'
  <1>1. ASSUME NEW channels \in SUBSET Channels, NEW pvp \in Viewports, CycleData(channels, pvp)
        PROVE  TileInv'
        BY <1>1, CycleStep
  <1>2. CASE ClearTest \/ ClearPop \/ Push
        BY <1>2, FillStep
  <1>3. CASE SendTasks
        BY <1>3, SendStep
  <1>4. ASSUME NEW c \in Channels, ServerCommand(c)
        PROVE  TileInv'
    <2>1. Head(up[c]).type = "getItem" \/ Head(up[c]).type = "finish"
          BY <1>4 DEF ServerCommand
    <2> QED BY <1>4, <2>1, GetItemStep, FinishStep
  <1>5. ASSUME NEW c \in Channels, Receive(c)
        PROVE  TileInv'
        BY <1>5, ReceiveStep
  <1>6. ASSUME NEW c \in Channels, PipeThread(c)
        PROVE  TileInv'
    <2>1. CASE FrameTiles(c)
          BY <2>1, FrameTilesStep
    <2>2. CASE PopRequest(c)
          BY <2>2, PopRequestStep
    <2>3. CASE PopItem(c)
          BY <2>3, PopItemStep
    <2>4. CASE PopEmpty(c)
          BY <2>4, DiscardStep, EndStep
    <2> QED BY <1>6, <2>1, <2>2, <2>3, <2>4 DEF PipeThread
  <1>7. CASE UNCHANGED vars
        BY <1>7, StutterStep
  <1> QED BY <1>1, <1>2, <1>3, <1>4, <1>5, <1>6, <1>7 DEF Next, ServerMain

\* TileInv holds in every run.
LEMMA TileInvariance == Spec => []TileInv
  <1>1. Spec => Init /\ [][Next]_vars
        BY PTL DEF Spec
  <1> QED BY <1>1, TileInit, TileStep, PTL

\* The variables keep their types for every latency: cycleData never needs
\* more than latency + 1 queues, since the oldest one of so many belongs to a
\* frame that the application has waited for.
THEOREM TilesTypeCorrect == Spec => []TypeOK
  <1>1. TileInv => TypeOK
        BY DEF TileInv, Types, TypeOK
  <1> QED BY <1>1, TileInvariance, PTL

\* A channel draws in a frame tiles of that frame only, however the threads
\* of the server and of the channels are interleaved: no prefetched tile, no
\* request and no empty packet of pop() is left when the queue is used again.
THEOREM TilesAreOfFrame == Spec => []TilesOfFrame
  <1>1. TileInv => TilesOfFrame
        BY DEF TileInv
  <1> QED BY <1>1, TileInvariance, PTL
===============================================================================
