------------------------------ MODULE TileQueue ------------------------------
(***************************************************************************)
(* Tile rendering of Equalizer on the distributed queues of Collage: the   *)
(* server cuts the pixel viewport of each frame into tiles and pushes them *)
(* on a co::QueueMaster; the channels that take part in the frame pop them *)
(* from their co::QueueSlave, which prefetches, until pop() returns 0.     *)
(* Frames overlap (the latency of the config), and the queues are used     *)
(* again for later frames (TileQueue::cycleData).                          *)
(*                                                                         *)
(* On the server, the main thread starts frames and the command thread     *)
(* answers the requests of channels.  A channel has a receiver thread and  *)
(* a pipe thread.  One stream in each direction joins it to the server, so *)
(* that a channel's end of a frame comes after its requests.               *)
(***************************************************************************)
EXTENDS Integers, Sequences, FiniteSets, Bags, SequencesExt

CONSTANTS
    Channels,        \* channels with an input queue
    Latency,         \* Config::getLatency
    PrefetchMark,    \* QueueSlave's prefetchMark
    PrefetchAmount,  \* QueueSlave's prefetchAmount
    Viewports,       \* the sizes <<w, h>> the destination may have
    TileSize,        \* TileQueue::getTileSize
    LastFrame        \* bound: the last frame

ASSUME TileQueueAssumption ==
    /\ IsFiniteSet(Channels)
    /\ Latency \in Nat /\ PrefetchMark \in Nat /\ LastFrame \in Nat
    /\ PrefetchAmount \in Nat \ {0}
    /\ TileSize \in (Nat \ {0}) \X (Nat \ {0})
    /\ Viewports \subseteq (Nat \X Nat)

VARIABLES
    frame,     \* Config::_currentFrame of the server
    server,    \* what the server's main thread is doing
    active,    \* channels with a task in each frame
    viewport,  \* inherited pixel viewport of each frame
    queues,    \* TileQueue::_queues, the pool; a queue is a number
    age,       \* LatencyQueue::_frameNumber
    items,     \* the items of each QueueMaster
    toPush,    \* tiles the main thread has still to push
    down,      \* stream from the server to each channel
    up,        \* stream from each channel to the server
    tasks,     \* tiles tasks in the queue of each pipe thread
    local,     \* the command queue of each channel's QueueSlaves
    pc,        \* where each pipe thread is
    request,   \* the local "request" of pop()
    finished,  \* frames that each channel has finished, as the server knows
    drawn      \* history: the tiles drawn in each frame

serverVars == <<frame, server, active, viewport, queues, age, toPush>>
channelVars == <<tasks, local, pc, request, drawn>>
vars == <<serverVars, items, down, up, channelVars, finished>>

Frames == 1..LastFrame
QueueIDs == 1..Latency + 1
EMPTY == "empty"
ITEM == "item"

Init ==
    /\ frame = 0
    /\ server = "idle"
    /\ active = [f \in Frames |-> {}]
    /\ viewport = [f \in Frames |-> <<0, 0>>]
    /\ queues = <<>>
    /\ age = [q \in QueueIDs |-> 0]
    /\ items = [q \in QueueIDs |-> <<>>]
    /\ toPush = <<>>
    /\ down = [c \in Channels |-> <<>>]
    /\ up = [c \in Channels |-> <<>>]
    /\ tasks = [c \in Channels |-> <<>>]
    /\ local = [c \in Channels |-> [q \in QueueIDs |-> <<>>]]
    /\ pc = [c \in Channels |-> "idle"]
    /\ request = [c \in Channels |-> 0]
    /\ finished = [c \in Channels |-> {}]
    /\ drawn = [f \in Frames |-> EmptyBag]

-----------------------------------------------------------------------------
(* Tiles.                                                                  *)

\* Mutant: the remainder is not covered by tiles.
Dim_Floor(size, tile) == size \div tile

(* The number of tiles along one axis.                                     *)
Dim(size, tile) == (size \div tile) + (IF size % tile # 0 THEN 1 ELSE 0)

(* ZigzagStrategy: every second row runs backwards.                        *)
Zigzag(dim) ==
    [k \in 1..dim[1] * dim[2] |->
        LET y == (k - 1) \div dim[1]
            x == (k - 1) % dim[1]
        IN  <<IF y % 2 = 1 THEN dim[1] - 1 - x ELSE x, y>>]

(* _addTilesToQueue: tiles at the right and the upper border are cut.      *)
Extent(offset, tile, size) ==
    IF offset + tile > size THEN size - offset ELSE tile

TilePVP(f, pvp, tile) ==
    LET x == tile[1] * TileSize[1]
        y == tile[2] * TileSize[2]
    IN  [frame |-> f, x |-> x, y |-> y, w |-> Extent(x, TileSize[1], pvp[1]),
         h |-> Extent(y, TileSize[2], pvp[2])]

GenerateTiles(f, pvp) ==
    LET tiles == Zigzag(<<Dim(pvp[1], TileSize[1]), Dim(pvp[2], TileSize[2])>>)
    IN  [k \in 1..Len(tiles) |-> TilePVP(f, pvp, tiles[k])]

-----------------------------------------------------------------------------
(* The server's main thread.                                               *)

(* All channels of a frame have finished it: what notifyNodeFrameFinished  *)
(* looks for before it tells the application.                              *)
Done(f) == \A c \in active[f] : f \in finished[c]

\* Mutants: a queue is used again one frame too early, or too late.
Unused_Early(q) == frame' >= Latency /\ age[q] =< frame' - Latency

Unused_Late(q) == frame' > Latency + 1 /\ age[q] < frame' - Latency - 1

(* A queue of the pool that no frame under way uses.                       *)
Unused(q) == frame' > Latency /\ age[q] < frame' - Latency

(* The server starts a frame: the application has waited for the one       *)
(* Latency frames before the last one (Config::finishFrame).  cycleData    *)
(* takes the oldest queue of the pool or a new one.                        *)
CycleData(channels, pvp) ==
    /\ server = "idle"
    /\ frame < LastFrame
    /\ \A f \in 1..frame - Latency : Done(f)
    /\ frame' = frame + 1
    /\ active' = [active EXCEPT ![frame'] = channels]
    /\ viewport' = [viewport EXCEPT ![frame'] = pvp]
    /\ LET reuse == queues # <<>> /\ Unused(Last(queues))
           queue == IF reuse THEN Last(queues) ELSE Len(queues) + 1
       IN  /\ queues' = <<queue>> \o IF reuse THEN Front(queues) ELSE queues
           /\ age' = [age EXCEPT ![queue] = frame']
    /\ server' = "clear"
    /\ UNCHANGED <<items, toPush, down, up, channelVars, finished>>

current == Head(queues)

(* QueueMaster::clear tests for an item ...                                *)
ClearTest ==
    /\ server = "clear"
    /\ IF items[current] # <<>>
       THEN server' = "clearPop" /\ UNCHANGED toPush
       ELSE /\ server' = "push"
            /\ toPush' = GenerateTiles(frame, viewport[frame])
    /\ UNCHANGED <<frame, active, viewport, queues, age, items, down, up,
                   channelVars, finished>>

(* ... and then pops it, which blocks if the command thread was faster.    *)
ClearPop ==
    /\ server = "clearPop"
    /\ items[current] # <<>>
    /\ items' = [items EXCEPT ![current] = Tail(@)]
    /\ server' = "clear"
    /\ UNCHANGED <<frame, active, viewport, queues, age, toPush, down, up,
                   channelVars, finished>>

Push ==
    /\ server = "push"
    /\ toPush # <<>>
    /\ items' = [items EXCEPT ![current] = Append(@, Head(toPush))]
    /\ toPush' = Tail(toPush)
    /\ UNCHANGED <<frame, server, active, viewport, queues, age, down, up,
                   channelVars, finished>>

(* _updateDrawTiles: the channels are told when all tiles are in the queue.*)
SendTasks ==
    /\ server = "push"
    /\ toPush = <<>>
    /\ down' = [c \in Channels |->
           IF c \in active[frame]
           THEN Append(down[c], [type |-> "tiles", frame |-> frame, queue |-> current])
           ELSE down[c]]
    /\ server' = "idle"
    /\ UNCHANGED <<frame, active, viewport, queues, age, items, toPush, up,
                   channelVars, finished>>

-----------------------------------------------------------------------------
(* The server's command thread.                                            *)

\* Mutant: an incomplete answer is not followed by an empty packet.
CmdGetItem_NoEmpty(c, packet) ==
    LET n == IF Len(items[packet.queue]) < PrefetchAmount
             THEN Len(items[packet.queue]) ELSE PrefetchAmount
        taken == SubSeq(items[packet.queue], 1, n)
    IN  /\ items' = [items EXCEPT ![packet.queue] = SubSeq(@, n + 1, Len(@))]
        /\ down' = [down EXCEPT ![c] =
               @ \o [k \in 1..n |-> [type |-> ITEM, queue |-> packet.queue,
                                     tile |-> taken[k]]]]

(* cmdGetItem: as many items as there are, and an empty packet if they are *)
(* less than requested.                                                    *)
CmdGetItem(c, packet) ==
    LET n == IF Len(items[packet.queue]) < PrefetchAmount
             THEN Len(items[packet.queue]) ELSE PrefetchAmount
        taken == SubSeq(items[packet.queue], 1, n)
        replies == [k \in 1..n |-> [type |-> ITEM, queue |-> packet.queue,
                                    tile |-> taken[k]]]
        empty == [type |-> EMPTY, queue |-> packet.queue, request |-> packet.request]
    IN  /\ items' = [items EXCEPT ![packet.queue] = SubSeq(@, n + 1, Len(@))]
        /\ down' = [down EXCEPT ![c] =
               @ \o replies \o IF PrefetchAmount > n THEN <<empty>> ELSE <<>>]

ServerCommand(c) ==
    /\ up[c] # <<>>
    /\ up' = [up EXCEPT ![c] = Tail(@)]
    /\ LET packet == Head(up[c]) IN
       \/ /\ packet.type = "getItem"
          /\ CmdGetItem(c, packet)
          /\ UNCHANGED finished
       \/ /\ packet.type = "finish"
          /\ finished' = [finished EXCEPT ![c] = @ \cup {packet.frame}]
          /\ UNCHANGED <<items, down>>
    /\ UNCHANGED <<serverVars, channelVars>>

-----------------------------------------------------------------------------
(* A channel: its receiver thread and its pipe thread.                     *)

(* Items and empty packets go to the queue of the QueueSlave, tasks to the *)
(* one of the pipe thread.                                                 *)
Receive(c) ==
    /\ down[c] # <<>>
    /\ down' = [down EXCEPT ![c] = Tail(@)]
    /\ LET packet == Head(down[c]) IN
       IF packet.type = "tiles"
       THEN /\ tasks' = [tasks EXCEPT ![c] = Append(@, packet)]
            /\ UNCHANGED local
       ELSE /\ local' = [local EXCEPT ![c][packet.queue] = Append(@, packet)]
            /\ UNCHANGED tasks
    /\ UNCHANGED <<serverVars, items, up, pc, request, drawn, finished>>

(* _frameTiles: the first call of pop().                                   *)
FrameTiles(c) ==
    /\ pc[c] = "idle"
    /\ tasks[c] # <<>>
    /\ pc' = [pc EXCEPT ![c] = "request"]
    /\ request' = [request EXCEPT ![c] = @ + 1]
    /\ UNCHANGED <<serverVars, items, down, up, tasks, local, drawn, finished>>

queueOf(c) == Head(tasks[c]).queue

(* The loop of pop(): ask for more if few are left ...                     *)
PopRequest(c) ==
    /\ pc[c] = "request"
    /\ pc' = [pc EXCEPT ![c] = "pop"]
    /\ up' = IF Len(local[c][queueOf(c)]) =< PrefetchMark
             THEN [up EXCEPT ![c] = Append(@, [type |-> "getItem",
                       queue |-> queueOf(c), request |-> request[c]])]
             ELSE up
    /\ UNCHANGED <<serverVars, items, down, tasks, local, request, drawn, finished>>

TakeLocal(c) == local' = [local EXCEPT ![c][queueOf(c)] = Tail(@)]

(* ... and wait.  A tile is drawn, and pop() is called again.              *)
PopItem(c) ==
    /\ pc[c] = "pop"
    /\ local[c][queueOf(c)] # <<>>
    /\ LET packet == Head(local[c][queueOf(c)])
           f == Head(tasks[c]).frame
       IN  /\ packet.type = ITEM
           /\ drawn' = [drawn EXCEPT ![f] = @ (+) SetToBag({packet.tile})]
    /\ TakeLocal(c)
    /\ request' = [request EXCEPT ![c] = @ + 1]
    /\ pc' = [pc EXCEPT ![c] = "request"]
    /\ UNCHANGED <<serverVars, items, down, up, tasks, finished>>

\* Mutant: an empty packet of an earlier request ends the frame.
IsEnd_AnyRequest(c, packet) == TRUE

(* The empty packet that answers this pop().                               *)
IsEnd(c, packet) == packet.request = request[c]

(* pop() returns 0 and the task ends, or it discards a left-over packet.   *)
PopEmpty(c) ==
    /\ pc[c] = "pop"
    /\ local[c][queueOf(c)] # <<>>
    /\ LET packet == Head(local[c][queueOf(c)]) IN
       /\ packet.type = EMPTY
       /\ IF IsEnd(c, packet)
          THEN /\ tasks' = [tasks EXCEPT ![c] = Tail(@)]
               /\ pc' = [pc EXCEPT ![c] = "idle"]
               /\ up' = [up EXCEPT ![c] = Append(@,
                             [type |-> "finish", frame |-> Head(tasks[c]).frame])]
          ELSE /\ pc' = [pc EXCEPT ![c] = "request"]
               /\ UNCHANGED <<tasks, up>>
    /\ TakeLocal(c)
    /\ UNCHANGED <<serverVars, items, down, request, drawn, finished>>

-----------------------------------------------------------------------------
ServerMain ==
    \/ \E channels \in SUBSET Channels, pvp \in Viewports : CycleData(channels, pvp)
    \/ ClearTest
    \/ ClearPop
    \/ Push
    \/ SendTasks

PipeThread(c) ==
    \/ FrameTiles(c)
    \/ PopRequest(c)
    \/ PopItem(c)
    \/ PopEmpty(c)

Next ==
    \/ ServerMain
    \/ \E c \in Channels : ServerCommand(c) \/ Receive(c) \/ PipeThread(c)

(* All threads go on when they can.                                        *)
Spec ==
    /\ Init /\ [][Next]_vars
    /\ WF_vars(ServerMain)
    /\ \A c \in Channels :
          WF_vars(ServerCommand(c)) /\ WF_vars(Receive(c)) /\ WF_vars(PipeThread(c))

-----------------------------------------------------------------------------
\* Type invariant: in particular, latency + 1 queues are enough.
TypeOK ==
    /\ frame \in 0..LastFrame
    /\ server \in {"idle", "clear", "clearPop", "push"}
    /\ queues \in Seq(QueueIDs)
    /\ pc \in [Channels -> {"idle", "request", "pop"}]
    /\ \A c \in Channels : finished[c] \subseteq Frames

\* What a channel draws in a frame are tiles of that frame: neither a
\* prefetched item nor a request outlives the frame it was made for and meets
\* the tiles of the frame that uses the queue next.
TilesOfFrame ==
    \A f \in Frames : \A tile \in BagToSet(drawn[f]) : tile.frame = f

Pixels(f) == (0..viewport[f][1] - 1) \X (0..viewport[f][2] - 1)

Covers(tile, p) ==
    /\ p[1] \in tile.x..tile.x + tile.w - 1
    /\ p[2] \in tile.y..tile.y + tile.h - 1

\* When the channels of a frame have finished it, every pixel was drawn once:
\* the tiles make up the viewport, and each was handed to one channel, which
\* did not stop while tiles were left.
EveryPixelOnce ==
    \A f \in 1..frame : active[f] # {} /\ Done(f) /\ (f < frame \/ server = "idle") =>
        \A p \in Pixels(f) :
            /\ \E tile \in BagToSet(drawn[f]) :
                  Covers(tile, p) /\ drawn[f][tile] = 1
            /\ \A s, t \in BagToSet(drawn[f]) : Covers(s, p) /\ Covers(t, p) => s = t

\* Every frame is started and finished: no pop() and no clear() blocks for
\* ever.
FramesFinish ==
    <>(frame = LastFrame /\ server = "idle" /\ \A f \in Frames : Done(f))
==============================================================================
