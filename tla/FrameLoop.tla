------------------------------ MODULE FrameLoop ------------------------------
(***************************************************************************)
(* The frame loop of Equalizer: the application's eq::Config (startFrame,  *)
(* finishFrame, finishAllFrames), the server's Config and Nodes, and the   *)
(* render clients' Node and Pipe.  Up to "latency" frames are under way    *)
(* at once, and the set of running nodes changes between frames.           *)
(*                                                                         *)
(* Threads: the application's main thread, which also runs the commands    *)
(* of the node in its process, and its receiver thread; the server's main  *)
(* thread and command thread; on each render client a node thread and,     *)
(* when its pipe is threaded, a pipe thread.                               *)
(*                                                                         *)
(* Node and pipe start and stop in one step here, and never fail to.       *)
(* Waits have no timeout: IATTR_ROBUSTNESS and Config::getTimeout are left *)
(* out.                                                                    *)
(***************************************************************************)
EXTENDS Integers, Sequences, FiniteSets

CONSTANTS
    Nodes,      \* the nodes of the config
    AppNode,    \* the node in the application's process
    Setups,     \* configurations: [latency, model, threaded, draws]
    Switches,   \* changes of the active nodes that updates may make
    LastFrame   \* bound: the last frame the application starts

Frames == 0..LastFrame
Models == {"ASYNC", "DRAW_SYNC", "LOCAL_SYNC"}

ASSUME FrameLoopAssumption ==
    /\ IsFiniteSet(Nodes) /\ AppNode \in Nodes /\ LastFrame \in Nat
    /\ Setups \subseteq [latency: Nat, model: [Nodes -> Models],
                         threaded: [Nodes -> BOOLEAN], draws: [Nodes -> BOOLEAN]]
    /\ Switches \subseteq (SUBSET Nodes) \X (SUBSET Nodes)

VARIABLES
    setup,     \* the configuration
    app,       \* the application's Config
    mainQ,     \* its main thread queue; WAKEUP is the 0 of wakeup()
    toApp,     \* stream from the server to the application
    receiver,  \* frame whose _cmdFrameFinish the receiver thread is in, or 0
    server,    \* the server's Config
    toServer,  \* stream from the application to the server's main thread
    notify,    \* notifyNodeFrameFinished in each of the server's threads
    active,    \* nodes used by the active layouts
    running,   \* nodes in STATE_RUNNING
    flushed,   \* server Node::_flushedFrame
    finished,  \* server Node::_finishedFrame
    frameIDs,  \* server Node::_frameIDs: frames whose finish is not yet sent
    nodeQ,     \* commands of each render client's node thread
    node,      \* client Node: current, unlocked and finished frame
    pipeQ,     \* commands of each threaded pipe
    pipe,      \* client Pipe: current, unlocked and finished frame
    replies    \* stream of finish replies from each node to the server

appVars == <<app, mainQ, receiver>>
serverVars == <<server, notify, active, running, flushed, finished, frameIDs>>
clientVars == <<nodeQ, node, pipeQ, pipe, replies>>
vars == <<setup, appVars, toApp, serverVars, toServer, clientVars>>

Latency == setup.latency
Threads == {"main", "command"}
WAKEUP == [type |-> "WAKEUP", frame |-> 0]
Cmd(type, f) == [type |-> type, frame |-> f]
\* Mutant: a new node's finished frame is one too low.
AtFrame_FinishLow(f) == [current |-> f, unlocked |-> f, finished |-> f - 1]

AtFrame(f) == [current |-> f, unlocked |-> f, finished |-> f]

Init ==
    /\ setup \in Setups
    /\ app = [pc |-> "idle", popping |-> FALSE, current |-> 0, unlocked |-> 0,
              finished |-> 0, version |-> "none", served |-> FALSE]
    /\ mainQ = <<>> /\ toApp = <<>> /\ receiver = 0
    /\ server = [pc |-> "idle", current |-> 0, finished |-> 0,
                 acked |-> FALSE]
    /\ toServer = <<>>
    /\ notify = [t \in Threads |-> [pc |-> "idle", frame |-> 0]]
    /\ active \in SUBSET Nodes
    /\ running = active
    /\ flushed = [n \in Nodes |-> 0]
    /\ finished = [n \in Nodes |-> 0]
    /\ frameIDs = [n \in Nodes |-> {}]
    /\ nodeQ = [n \in Nodes |-> <<>>]
    /\ node = [n \in Nodes |-> AtFrame(0)]
    /\ pipeQ = [n \in Nodes |-> <<>>]
    /\ pipe = [n \in Nodes |-> AtFrame(0)]
    /\ replies = [n \in Nodes |-> <<>>]

-----------------------------------------------------------------------------
(* Application, main thread.                                               *)

\* Mutant: only LOCAL_SYNC needs a local sync.
NeedsLocalSync_LocalOnly ==
    AppNode \notin running \/ (setup.model[AppNode] = "LOCAL_SYNC" /\ setup.draws[AppNode])

NeedsLocalSync ==
    \/ AppNode \notin running
    \/ setup.model[AppNode] # "ASYNC" /\ setup.draws[AppNode]

\* Mutant: finishFrame waits for one frame less.
FrameToFinish_Less ==
    IF app.current >= Latency + 1 THEN app.current - Latency - 1 ELSE 0

FrameToFinish == IF app.current >= Latency THEN app.current - Latency ELSE 0

\* startFrame: update() sends the request ...
StartFrame ==
    /\ app.pc = "idle" /\ app.current < LastFrame
    /\ app' = [app EXCEPT !.pc = "version", !.version = "none", !.served = FALSE]
    /\ toServer' = Append(toServer, Cmd("UPDATE", 0))
    /\ UNCHANGED <<setup, mainQ, receiver, toApp, serverVars, clientVars>>

\* ... and update() returns: the frame is requested.
RequestFrame ==
    /\ \/ app.pc = "version" /\ app.version = "go"
       \/ app.pc = "reply" /\ ~app.popping /\ app.served
    /\ app' = [app EXCEPT !.pc = "started", !.current = @ + 1]
    /\ toServer' = Append(toServer, Cmd("START", 0))
    /\ UNCHANGED <<setup, mainQ, receiver, toApp, serverVars, clientVars>>

\* update() has to wait until the config is idle
UpdateFinish ==
    /\ app.pc = "version" /\ app.version = "finish"
    /\ app' = [app EXCEPT !.pc = "update"]
    /\ UNCHANGED <<setup, mainQ, receiver, toApp, serverVars, toServer, clientVars>>

\* the loop of update() is over: ackRequest
UpdateAck ==
    /\ app.pc = "update" /\ ~app.popping /\ app.finished >= app.current
    /\ app' = [app EXCEPT !.pc = "reply"]
    /\ server' = [server EXCEPT !.acked = TRUE]
    /\ UNCHANGED <<setup, mainQ, receiver, toApp, notify, active, running, flushed,
                   finished, frameIDs, toServer, clientVars>>

FinishFrame ==
    /\ app.pc = "started"
    /\ app' = [app EXCEPT !.pc = IF NeedsLocalSync THEN "unlock" ELSE "node"]
    /\ UNCHANGED <<setup, mainQ, receiver, toApp, serverVars, toServer, clientVars>>

\* the local draw sync is over
LocalSync ==
    /\ app.pc = "unlock" /\ ~app.popping /\ app.unlocked >= app.current
    /\ app' = [app EXCEPT !.pc = "node"]
    /\ UNCHANGED <<setup, mainQ, receiver, toApp, serverVars, toServer, clientVars>>

\* the local node has finished the frame
LocalNodeSync ==
    /\ app.pc = "node" /\ ~app.popping
    /\ AppNode \in running => node[AppNode].finished >= FrameToFinish
    /\ app' = [app EXCEPT !.pc = "global"]
    /\ UNCHANGED <<setup, mainQ, receiver, toApp, serverVars, toServer, clientVars>>

\* waitGE, without processing commands; finishFrame returns
GlobalSync ==
    /\ app.pc = "global" /\ app.finished >= FrameToFinish
    /\ app' = [app EXCEPT !.pc = "idle"]
    /\ UNCHANGED <<setup, mainQ, receiver, toApp, serverVars, toServer, clientVars>>

FinishAllFrames ==
    /\ app.pc = "idle" /\ app.finished # app.current
    /\ app' = [app EXCEPT !.pc = "all"]
    /\ toServer' = Append(toServer, Cmd("FINISH_ALL", 0))
    /\ UNCHANGED <<setup, mainQ, receiver, toApp, serverVars, clientVars>>

AllFinished ==
    /\ app.pc = "all" /\ ~app.popping /\ app.finished >= app.current
    /\ app' = [app EXCEPT !.pc = "idle"]
    /\ UNCHANGED <<setup, mainQ, receiver, toApp, serverVars, toServer, clientVars>>

\* The condition of a processCommand loop holds: the thread goes to pop().
Loops ==
    \/ app.pc \in {"update", "all"} /\ app.finished < app.current
    \/ app.pc = "reply" /\ ~app.served
    \/ app.pc = "unlock" /\ app.unlocked < app.current
    \/ app.pc = "node" /\ AppNode \in running
       /\ node[AppNode].finished < FrameToFinish

EnterPop ==
    /\ ~app.popping /\ Loops
    /\ app' = [app EXCEPT !.popping = TRUE]
    /\ UNCHANGED <<setup, mainQ, receiver, toApp, serverVars, toServer, clientVars>>

-----------------------------------------------------------------------------
(* Render clients: the commands of a node and of its pipe.                 *)

NodeCommands == {"START", "DRAW", "TASKS", "FINISH"}
PipeCommands == {"PSTART", "PDRAW", "PFINISH"}

\* Mutant: the finish of a node does not wait for its pipe's frame finish.
Runnable_NoPipeWait(n, c) ==
    LET f == c.frame
        synced(m) == setup.model[n] = m /\ setup.draws[n] => pipe[n].unlocked >= f
    IN CASE c.type = "PSTART"  -> setup.model[n] # "ASYNC" => node[n].current >= f
         [] c.type = "DRAW"    -> synced("DRAW_SYNC")
         [] c.type = "TASKS"   -> synced("LOCAL_SYNC")
         [] c.type = "FINISH"  -> pipe[n].unlocked >= f
         [] OTHER              -> TRUE

\* The waits of a command's handler are over.
Runnable(n, c) ==
    LET f == c.frame
        synced(m) == setup.model[n] = m /\ setup.draws[n] => pipe[n].unlocked >= f
    IN CASE c.type = "PSTART"  -> setup.model[n] # "ASYNC" => node[n].current >= f
         [] c.type = "DRAW"    -> synced("DRAW_SYNC")
         [] c.type = "TASKS"   -> synced("LOCAL_SYNC")
         [] c.type = "FINISH"  -> pipe[n].unlocked >= f /\ pipe[n].finished >= f
         [] OTHER              -> TRUE

\* Does the handler of the command release the frame locally?
Unlocks(n, c) ==
    CASE c.type \in {"START", "PSTART"} -> setup.model[n] = "ASYNC"
      [] c.type \in {"DRAW", "PDRAW"}   -> setup.model[n] = "DRAW_SYNC"
      [] c.type \in {"TASKS", "PFINISH"} -> setup.model[n] = "LOCAL_SYNC"
      [] OTHER                          -> FALSE

\* The frame numbers of a node or pipe after it has handled a command: start,
\* local release and finish, which enforces the local release.
After(n, c, r) ==
    LET f == c.frame
        fin == c.type \in {"FINISH", "PFINISH"}
    IN [current  |-> IF c.type \in {"START", "PSTART"} THEN f ELSE r.current,
        unlocked |-> IF Unlocks(n, c) \/ (fin /\ r.unlocked < f) THEN f ELSE r.unlocked,
        finished |-> IF fin THEN f ELSE r.finished]

RunPipe(n, c) == pipe' = [pipe EXCEPT ![n] = After(n, c, @)]

RunNode(n, c) ==
    /\ node' = [node EXCEPT ![n] = After(n, c, @)]
    /\ replies' = IF c.type = "FINISH" /\ node[n].finished < c.frame
                  THEN [replies EXCEPT ![n] = Append(@, c.frame)] ELSE replies

\* The node thread of a render client.
NodeStep(n) ==
    /\ n # AppNode /\ nodeQ[n] # <<>>
    /\ LET c == Head(nodeQ[n]) IN
       /\ Runnable(n, c)
       /\ IF c.type \in PipeCommands
          THEN RunPipe(n, c) /\ UNCHANGED <<node, replies>>
          ELSE RunNode(n, c) /\ UNCHANGED pipe
    /\ nodeQ' = [nodeQ EXCEPT ![n] = Tail(@)]
    /\ UNCHANGED <<setup, appVars, toApp, serverVars, toServer, pipeQ>>

PipeStep(n) ==
    /\ pipeQ[n] # <<>>
    /\ Runnable(n, Head(pipeQ[n]))
    /\ RunPipe(n, Head(pipeQ[n]))
    /\ pipeQ' = [pipeQ EXCEPT ![n] = Tail(@)]
    /\ UNCHANGED <<setup, appVars, toApp, serverVars, toServer, nodeQ, node, replies>>

\* processCommand of the application: its own commands and its node's.
ProcessCommand ==
    /\ app.popping /\ mainQ # <<>>
    /\ LET c == Head(mainQ)
           back == [app EXCEPT !.popping = FALSE]
           unlock == [app EXCEPT !.popping = FALSE, !.unlocked = c.frame]
       IN \/ /\ c.type = "WAKEUP"
             /\ app' = back /\ UNCHANGED <<node, pipe, replies>>
          \/ /\ c.type = "UPDATE_REPLY"
             /\ app' = [app EXCEPT !.popping = FALSE, !.served = TRUE]
             /\ UNCHANGED <<node, pipe, replies>>
          \/ /\ c.type = "RELEASE_LOCAL"
             /\ app' = unlock /\ UNCHANGED <<node, pipe, replies>>
          \/ /\ c.type \in PipeCommands
             /\ Runnable(AppNode, c) /\ RunPipe(AppNode, c)
             /\ app' = back /\ UNCHANGED <<node, replies>>
          \/ /\ c.type \in NodeCommands
             /\ Runnable(AppNode, c) /\ RunNode(AppNode, c)
             /\ app' = IF node'[AppNode].unlocked # node[AppNode].unlocked
                       THEN unlock ELSE back
             /\ UNCHANGED pipe
    /\ mainQ' = Tail(mainQ)
    /\ UNCHANGED <<setup, receiver, toApp, serverVars, toServer, nodeQ, pipeQ>>

-----------------------------------------------------------------------------
(* Application, receiver thread: it serves requests and frame finishes     *)
(* itself and hands everything else to the main thread.                    *)

\* Mutant: _cmdFrameFinish does not wake up the main thread.
Receive_NoWakeup ==
    /\ receiver = 0 /\ toApp # <<>>
    /\ LET c == Head(toApp) IN
       \/ /\ c.type \in {"go", "finish"}
          /\ app' = [app EXCEPT !.version = c.type] /\ UNCHANGED <<mainQ, receiver>>
       \/ /\ c.type = "FRAME_FINISH"
          /\ app' = [app EXCEPT !.finished = c.frame]
          /\ receiver' = IF app.unlocked < c.frame THEN c.frame ELSE 0
          /\ UNCHANGED mainQ
       \/ /\ c.type \notin {"go", "finish", "FRAME_FINISH"}
          /\ mainQ' = Append(mainQ, c) /\ UNCHANGED <<app, receiver>>
    /\ toApp' = Tail(toApp)
    /\ UNCHANGED <<setup, serverVars, toServer, clientVars>>

Receive ==
    /\ receiver = 0 /\ toApp # <<>>
    /\ LET c == Head(toApp) IN
       \/ /\ c.type \in {"go", "finish"}
          /\ app' = [app EXCEPT !.version = c.type] /\ UNCHANGED <<mainQ, receiver>>
       \/ /\ c.type = "FRAME_FINISH"
          /\ app' = [app EXCEPT !.finished = c.frame]
          /\ IF app.unlocked < c.frame
             THEN receiver' = c.frame /\ UNCHANGED mainQ
             ELSE mainQ' = Append(mainQ, WAKEUP) /\ UNCHANGED receiver
       \/ /\ c.type \notin {"go", "finish", "FRAME_FINISH"}
          /\ mainQ' = Append(mainQ, c) /\ UNCHANGED <<app, receiver>>
    /\ toApp' = Tail(toApp)
    /\ UNCHANGED <<setup, serverVars, toServer, clientVars>>

\* _cmdFrameFinish goes on: "was not locally unlocked, enforcing unlock"
EnforceUnlock ==
    /\ receiver # 0
    /\ app' = [app EXCEPT !.unlocked = app.finished]
    /\ mainQ' = Append(mainQ, WAKEUP)
    /\ receiver' = 0
    /\ UNCHANGED <<setup, toApp, serverVars, toServer, clientVars>>

-----------------------------------------------------------------------------
(* Server, main thread.                                                    *)

GetFinishLatency(n) ==
    IF setup.draws[n]
    THEN CASE setup.model[n] = "DRAW_SYNC"  -> IF Latency < 1 THEN Latency ELSE 1
           [] setup.model[n] = "LOCAL_SYNC" -> 0
           [] OTHER -> Latency
    ELSE Latency

\* The frames of a set one after the other.  (SequencesExt sorts with SortSeq of
\* module TLC, which the proof system does not know.)
InSequence(S) ==
    CHOOSE s \in [1..Cardinality(S) -> S] :
        \A i, j \in 1..Cardinality(S) : i < j => s[i] < s[j]

\* flushFrames: the finish commands up to frame f that were not yet sent
Finishes(n, ids, f) ==
    LET fs == InSequence({i \in ids : flushed[n] < i /\ i <= f})
    IN [i \in DOMAIN fs |-> Cmd("FINISH", fs[i])]

\* Node::_finish: the frame up to which update() of frame f flushes
FlushUpTo(n, f) == IF setup.threaded[n] THEN f - GetFinishLatency(n) ELSE f

\* The commands of one frame: the node's, and its pipe's
PipeTasks(f) == <<Cmd("PSTART", f), Cmd("PDRAW", f), Cmd("PFINISH", f)>>
NodeTasks(n, f) ==
    LET c(type) == Cmd(type, f)
    IN CASE setup.threaded[n] -> <<c("START"), c("DRAW"), c("TASKS")>>
         [] ~setup.threaded[n] /\ setup.draws[n] ->
              <<c("START"), c("PSTART"), c("PDRAW"), c("DRAW"), c("PFINISH"), c("TASKS")>>
         [] OTHER ->
              <<c("START"), c("PSTART"), c("PDRAW"), c("PFINISH"), c("DRAW"), c("TASKS")>>

\* Sends the nodes their commands cmds[n]; those of the application's node
\* travel in the application's stream, between "before" and "after".
SendNodes(cmds, before, after) ==
    /\ nodeQ' = [n \in Nodes |-> IF n = AppNode THEN <<>> ELSE nodeQ[n] \o cmds[n]]
    /\ toApp' = toApp \o before \o cmds[AppNode] \o after

FlushAllFrames(before) ==
    LET f == server.current IN
    /\ SendNodes([n \in Nodes |-> IF n \in running
                                  THEN Finishes(n, frameIDs[n], f) ELSE <<>>],
                 before, <<>>)
    /\ frameIDs' = [n \in Nodes |-> IF n \in running
                                    THEN {i \in frameIDs[n] : i > f} ELSE frameIDs[n]]
    /\ flushed' = [n \in Nodes |-> IF n \in running /\ flushed[n] < f
                                   THEN f ELSE flushed[n]]

MainIdle == server.pc = "idle" /\ notify["main"].pc = "idle" /\ toServer # <<>>

\* _cmdUpdate: sync() may change which nodes are active (postNeedsFinish).
CmdUpdate ==
    /\ MainIdle /\ Head(toServer).type = "UPDATE"
    /\ active' \in {active} \cup {s[2] : s \in {t \in Switches : t[1] = active}}
    /\ IF active' = active
       THEN /\ toApp' = Append(toApp, Cmd("go", 0))
            /\ UNCHANGED <<server, nodeQ, frameIDs, flushed>>
       ELSE /\ server' = [server EXCEPT !.pc = "waitIdle"]
            /\ FlushAllFrames(<<Cmd("finish", 0)>>)
    /\ toServer' = Tail(toServer)
    /\ UNCHANGED <<setup, appVars, notify, running, finished, node, pipeQ, pipe, replies>>

\* _finishedFrame.waitEQ( _currentFrame )
WaitIdle ==
    /\ server.pc = "waitIdle" /\ server.finished = server.current
    /\ server' = [server EXCEPT !.pc = "waitAck"]
    /\ UNCHANGED <<setup, appVars, toApp, notify, active, running, flushed, finished,
                   frameIDs, toServer, clientVars>>

\* Mutant: nodes that join start at frame 0.
UpdateRunning_FromZero ==
    /\ server.pc = "waitAck" /\ server.acked
    /\ server' = [server EXCEPT !.pc = "idle", !.acked = FALSE]
    /\ running' = active
    /\ LET fresh == active \ running IN
       /\ flushed' = [n \in Nodes |-> IF n \in fresh THEN server.finished ELSE flushed[n]]
       /\ finished' = [n \in Nodes |-> IF n \in fresh THEN server.finished ELSE finished[n]]
       /\ frameIDs' = [n \in Nodes |-> IF n \in running \cap active THEN frameIDs[n] ELSE {}]
       /\ node' = [n \in Nodes |-> IF n \in fresh THEN AtFrame(0) ELSE node[n]]
       /\ pipe' = [n \in Nodes |-> IF n \in fresh THEN AtFrame(0) ELSE pipe[n]]
    /\ toApp' = Append(toApp, Cmd("UPDATE_REPLY", 0))
    /\ UNCHANGED <<setup, appVars, notify, active, toServer, nodeQ, pipeQ, replies>>

\* The application has synced: _updateRunning starts and stops nodes.
UpdateRunning ==
    /\ server.pc = "waitAck" /\ server.acked
    /\ server' = [server EXCEPT !.pc = "idle", !.acked = FALSE]
    /\ running' = active
    /\ LET fresh == active \ running IN
       /\ flushed' = [n \in Nodes |-> IF n \in fresh THEN server.finished ELSE flushed[n]]
       /\ finished' = [n \in Nodes |-> IF n \in fresh THEN server.finished ELSE finished[n]]
       /\ frameIDs' = [n \in Nodes |-> IF n \in running \cap active THEN frameIDs[n] ELSE {}]
       /\ node' = [n \in Nodes |-> IF n \in fresh THEN AtFrame(server.current) ELSE node[n]]
       /\ pipe' = [n \in Nodes |-> IF n \in fresh THEN AtFrame(server.current) ELSE pipe[n]]
    /\ toApp' = Append(toApp, Cmd("UPDATE_REPLY", 0))
    /\ UNCHANGED <<setup, appVars, notify, active, toServer, nodeQ, pipeQ, replies>>

\* _verifyFrameFinished: running nodes too far behind frame f, to be failed
Late(f) == {n \in running : finished[n] + Latency < f}

\* _startFrame, up to notifyNodeFrameFinished
CmdStartFrame ==
    /\ MainIdle /\ Head(toServer).type = "START"
    /\ LET f == server.current + 1
           ok == running \ Late(server.current)
           ids(n) == frameIDs[n] \cup {f}
           cmds(n) == NodeTasks(n, f) \o Finishes(n, ids(n), FlushUpTo(n, f))
           max(a, b) == IF a > b THEN a ELSE b
       IN /\ server' = [server EXCEPT !.current = f]
          /\ running' = ok
          /\ SendNodes([n \in Nodes |-> IF n \in ok THEN cmds(n) ELSE <<>>], <<>>,
                       IF AppNode \in ok THEN <<>> ELSE <<Cmd("RELEASE_LOCAL", f)>>)
          /\ pipeQ' = [n \in Nodes |-> IF n \in ok /\ setup.threaded[n]
                                       THEN pipeQ[n] \o PipeTasks(f) ELSE pipeQ[n]]
          /\ frameIDs' = [n \in Nodes |-> IF n \in ok
                                          THEN {i \in ids(n) : i > FlushUpTo(n, f)}
                                          ELSE frameIDs[n]]
          /\ flushed' = [n \in Nodes |-> IF n \in ok THEN max(flushed[n], FlushUpTo(n, f))
                                         ELSE flushed[n]]
          /\ notify' = [notify EXCEPT !["main"] = [pc |-> "check", frame |-> f]]
    /\ toServer' = Tail(toServer)
    /\ UNCHANGED <<setup, appVars, active, finished, node, pipe, replies>>

CmdFinishAllFrames ==
    /\ MainIdle /\ Head(toServer).type = "FINISH_ALL"
    /\ FlushAllFrames(<<>>)
    /\ toServer' = Tail(toServer)
    /\ UNCHANGED <<setup, appVars, server, notify, active, running, finished, node,
                   pipeQ, pipe, replies>>

-----------------------------------------------------------------------------
(* Server: Node::_cmdFrameFinishReply in the command thread, and           *)
(* notifyNodeFrameFinished, which runs in both threads without a lock.     *)

CmdFrameFinishReply(n) ==
    /\ notify["command"].pc = "idle" /\ replies[n] # <<>>
    /\ finished' = [finished EXCEPT ![n] = Head(replies[n])]
    /\ notify' = [notify EXCEPT !["command"] = [pc |-> "check", frame |-> Head(replies[n])]]
    /\ replies' = [replies EXCEPT ![n] = Tail(@)]
    /\ UNCHANGED <<setup, appVars, toApp, server, active, running, flushed, frameIDs,
                   toServer, nodeQ, node, pipeQ, pipe>>

\* Mutant: one node that has finished the frame is enough.
AllFinishedBy_One(f) == running = {} \/ \E n \in running : finished[n] >= f

AllFinishedBy(f) == \A n \in running : finished[n] >= f

\* Mutant: every finish reply is passed on to the application.
NotifyCheck_Always(t) ==
    /\ notify[t].pc = "check"
    /\ notify' = [notify EXCEPT ![t].pc = "set"]
    /\ UNCHANGED <<setup, appVars, toApp, server, active, running, flushed, finished,
                   frameIDs, toServer, clientVars>>

NotifyCheck(t) ==
    /\ notify[t].pc = "check"
    /\ LET f == notify[t].frame
           pass == server.finished < f /\ AllFinishedBy(f)
       IN notify' = [notify EXCEPT ![t].pc = IF pass THEN "set" ELSE "idle"]
    /\ UNCHANGED <<setup, appVars, toApp, server, active, running, flushed, finished,
                   frameIDs, toServer, clientVars>>

NotifySet(t) ==
    /\ notify[t].pc = "set"
    /\ server' = [server EXCEPT !.finished = notify[t].frame]
    /\ notify' = [notify EXCEPT ![t].pc = "send"]
    /\ UNCHANGED <<setup, appVars, toApp, active, running, flushed, finished, frameIDs,
                   toServer, clientVars>>

NotifySend(t) ==
    /\ notify[t].pc = "send"
    /\ toApp' = Append(toApp, Cmd("FRAME_FINISH", notify[t].frame))
    /\ notify' = [notify EXCEPT ![t].pc = "idle"]
    /\ UNCHANGED <<setup, appVars, server, active, running, flushed, finished, frameIDs,
                   toServer, clientVars>>

-----------------------------------------------------------------------------
AppMain ==
    \/ RequestFrame \/ UpdateFinish \/ UpdateAck
    \/ FinishFrame \/ LocalSync \/ LocalNodeSync \/ GlobalSync
    \/ AllFinished \/ EnterPop \/ ProcessCommand

AppReceiver == Receive \/ EnforceUnlock

Notify(t) == NotifyCheck(t) \/ NotifySet(t) \/ NotifySend(t)

ServerMain == CmdUpdate \/ WaitIdle \/ UpdateRunning \/ CmdStartFrame \/ CmdFinishAllFrames

Next ==
    \/ StartFrame \/ FinishAllFrames
    \/ AppMain \/ AppReceiver \/ ServerMain
    \/ \E n \in Nodes : NodeStep(n) \/ PipeStep(n) \/ CmdFrameFinishReply(n)
    \/ \E t \in Threads : Notify(t)

\* Every thread goes on; the application need not make another call.
Fairness ==
    /\ WF_vars(AppMain) /\ WF_vars(AppReceiver) /\ WF_vars(ServerMain)
    /\ \A n \in Nodes : WF_vars(NodeStep(n)) /\ WF_vars(PipeStep(n))
    /\ WF_vars(Notify("main"))
    /\ WF_vars(Notify("command") \/ \E n \in Nodes : CmdFrameFinishReply(n))

Spec == Init /\ [][Next]_vars /\ Fairness

-----------------------------------------------------------------------------
(* Properties.                                                             *)

FrameRecord == [current: Frames, unlocked: Frames, finished: Frames]

\* Types: every frame counter, on every side, is a frame the application
\* may have started, also on nodes that joined later.
TypeOK ==
    /\ app.current \in Frames /\ app.unlocked \in Frames /\ app.finished \in Frames
    /\ server.current \in Frames /\ server.finished \in Frames
    /\ active \subseteq Nodes /\ running \subseteq Nodes
    /\ node \in [Nodes -> FrameRecord] /\ pipe \in [Nodes -> FrameRecord]
    /\ finished \in [Nodes -> Frames]
    /\ frameIDs \in [Nodes -> SUBSET Frames]

\* A frame that the application, or the server, believes to be finished has
\* been finished by every running node and its pipe (finishFrame,
\* notifyNodeFrameFinished, Node::_finishFrame).
FinishedIsFinished ==
    \A n \in running : \A f \in {app.finished, server.finished} :
        node[n].finished >= f /\ pipe[n].finished >= f

\* With an application that calls finishFrame after each startFrame, the
\* server never takes a running node for a failed one (_verifyFrameFinished
\* uses node finish times that the command thread is updating).
NoNodeFails ==
    MainIdle /\ Head(toServer).type = "START" => Late(server.current) = {}

\* Nodes are started and stopped only when the config is idle: no command,
\* pipe task or reply of any node is under way ("wait for render clients
\* idle" in _cmdUpdate).
ReconfigureIdle ==
    [][running' # running =>
        \A n \in Nodes : nodeQ[n] = <<>> /\ pipeQ[n] = <<>> /\ replies[n] = <<>>]_vars

\* The finished frame never goes back, although both threads of the server
\* check and set it without a lock (notifyNodeFrameFinished).
\* (Config::unlockedFrame may: a queued release can follow an enforced one.)
NeverBack ==
    [][app'.finished >= app.finished /\ server'.finished >= server.finished]_vars

\* When finishFrame has returned, the local pipe is done with the data of
\* every frame started, as its thread model promises: its draws (DRAW_SYNC)
\* or all of its tasks (LOCAL_SYNC).
LocalDataFree ==
    app.pc = "idle" /\ AppNode \in running /\ setup.draws[AppNode] =>
        CASE setup.model[AppNode] = "DRAW_SYNC"  -> pipe[AppNode].unlocked = app.current
          [] setup.model[AppNode] = "LOCAL_SYNC" -> pipe[AppNode].finished = app.current
          [] OTHER -> TRUE

\* The assertions of the clients: frames start one after the other on nodes
\* and pipes (Node::_cmdFrameStart, Pipe::_cmdFrameStart), also on nodes that
\* join later.
FramesInOrder ==
    \A n \in Nodes :
        LET q == IF n = AppNode THEN mainQ ELSE nodeQ[n] IN
        /\ q # <<>> /\ Head(q).type = "START" => node[n].current = Head(q).frame - 1
        /\ q # <<>> /\ Head(q).type = "PSTART" => pipe[n].current = Head(q).frame - 1
        /\ pipeQ[n] # <<>> /\ Head(pipeQ[n]).type = "PSTART"
              => pipe[n].current = Head(pipeQ[n]).frame - 1

\* startFrame, finishFrame and finishAllFrames return: no thread waits for
\* another for ever, and no wakeup of the main thread is lost.
CallsReturn == app.pc # "idle" ~> app.pc = "idle"
=============================================================================
