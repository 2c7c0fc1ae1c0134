--------------------------- MODULE FrameLoop_proofs ---------------------------
(***************************************************************************)
(* Proofs about the frame loop, for any number of nodes, any latency, any  *)
(* thread models and any changes of the active nodes but one: an update    *)
(* never leaves a config without active nodes (KeepsNodes).                *)
(*                                                                         *)
(* Three processes count frames.  The invariant says that the counters of  *)
(* a running node are a chain, from what the application takes for         *)
(* finished to what the server has flushed; that what is under way between *)
(* two of them lies between their values and comes in order; and that the  *)
(* server's two threads, which check and set the finished frame without a  *)
(* lock, are never both about to set it to different frames.               *)
(***************************************************************************)
EXTENDS FrameLoop, FiniteSetTheorems, SequenceTheorems, TLAPS

(* No update makes all nodes inactive (see README, 3.1, for what happens   *)
(* when one does).                                                         *)
KeepsNodes == \A s \in Switches : s[2] # {}

Tasks == NodeCommands \cup PipeCommands
MainTypes == Tasks \cup {"WAKEUP", "UPDATE_REPLY", "RELEASE_LOCAL"}
AnswerTypes == {"go", "finish"}

NodeCommand == [type : Tasks, frame : Frames]
PipeCommand == [type : PipeCommands, frame : Frames]
MainCommand == [type : MainTypes, frame : Frames]
AppCommand == [type : MainTypes \cup AnswerTypes \cup {"FRAME_FINISH"}, frame : Frames]
ServerCommand == [type : {"UPDATE", "START", "FINISH_ALL"}, frame : Frames]

AppRecord ==
    [pc : {"idle", "version", "update", "reply", "started", "unlock", "node", "global", "all"},
     popping : BOOLEAN, current : Frames, unlocked : Frames, finished : Frames,
     version : AnswerTypes \cup {"none"}, served : BOOLEAN]
ServerRecord ==
    [pc : {"idle", "waitIdle", "waitAck"}, current : Frames, finished : Frames, acked : BOOLEAN]
NotifyRecord == [pc : {"idle", "check", "set", "send"}, frame : Frames]

Types ==
    /\ setup \in Setups
    /\ app \in AppRecord
    /\ mainQ \in Seq(MainCommand) /\ toApp \in Seq(AppCommand) /\ receiver \in Frames
    /\ server \in ServerRecord
    /\ toServer \in Seq(ServerCommand)
    /\ notify \in [Threads -> NotifyRecord]
    /\ active \in SUBSET Nodes /\ running \in SUBSET Nodes
    /\ flushed \in [Nodes -> Frames] /\ finished \in [Nodes -> Frames]
    /\ frameIDs \in [Nodes -> SUBSET Frames]
    /\ nodeQ \in [Nodes -> Seq(NodeCommand)] /\ nodeQ[AppNode] = <<>>
    /\ node \in [Nodes -> FrameRecord]
    /\ pipeQ \in [Nodes -> Seq(PipeCommand)]
    /\ pipe \in [Nodes -> FrameRecord]
    /\ replies \in [Nodes -> Seq(Frames)]

-----------------------------------------------------------------------------
(* The commands under way.                                                 *)

In(q) == {q[k] : k \in 1..Len(q)}

(* What may come after x in a stream: frames start in order, nothing of a  *)
(* frame comes after its finish, finished frames do not decrease, and      *)
(* there is one answer to an update.                                       *)
Follows(x, y) ==
    /\ x.type = "START" /\ y.type = "START" => x.frame < y.frame
    /\ x.type = "FINISH" /\ y.type \in NodeCommands => x.frame < y.frame
    /\ x.type = "PSTART" /\ y.type = "PSTART" => x.frame < y.frame
    /\ x.type = "PFINISH" /\ y.type \in PipeCommands => x.frame < y.frame
    /\ x.type \in PipeCommands /\ y.type \in PipeCommands => x.frame =< y.frame
    /\ x.type = "FRAME_FINISH" /\ y.type = "FRAME_FINISH" => x.frame =< y.frame
    /\ ~(x.type \in AnswerTypes /\ y.type \in AnswerTypes)
    /\ ~(x.type = "UPDATE_REPLY" /\ y.type = "UPDATE_REPLY")

Ordered(q) == \A j, k \in 1..Len(q) : j < k => Follows(q[j], q[k])

InOrder ==
    /\ Ordered(mainQ) /\ Ordered(toApp)
    /\ \A x \in In(mainQ), y \in In(toApp) : Follows(x, y)
    /\ \A n \in Nodes : Ordered(nodeQ[n]) /\ Ordered(pipeQ[n])

(* The stream of commands of a node, and the commands of its pipe.         *)
Stream(n) == IF n = AppNode THEN In(mainQ) \cup In(toApp) ELSE In(nodeQ[n])
PipeStream(n) == IF setup.threaded[n] THEN In(pipeQ[n]) ELSE Stream(n)

(* Pipe commands are where they belong.                                    *)
Placed ==
    \A n \in Nodes :
        IF setup.threaded[n] THEN \A x \in Stream(n) : x.type \notin PipeCommands
                             ELSE pipeQ[n] = <<>>

(* A command of a node is for a frame that was started and that the node   *)
(* has not finished yet; r: the node's frames, sc: the server's frame, fl: *)
(* the frame up to which the server has sent finishes.                     *)
NodeAhead(x, r, sc, fl) ==
    /\ x.type \in NodeCommands => r.finished < x.frame /\ x.frame =< sc
    /\ x.type = "START" => r.current < x.frame
    /\ x.type = "FINISH" => x.frame =< fl

PipeAhead(x, p, sc) ==
    /\ x.type \in PipeCommands => p.finished < x.frame /\ x.frame =< sc /\ p.unlocked =< x.frame
    /\ x.type = "PSTART" => p.current < x.frame

(* The chain of a running node's frames.                                   *)
Chain(n) ==
    /\ server.finished =< finished[n] /\ finished[n] =< node[n].finished
    /\ node[n].finished =< flushed[n] /\ flushed[n] =< server.current
    /\ node[n].finished =< pipe[n].finished /\ pipe[n].finished =< pipe[n].unlocked
    /\ pipe[n].unlocked =< server.current
    /\ setup.model[n] = "LOCAL_SYNC" => pipe[n].unlocked = pipe[n].finished
    /\ node[n].current =< server.current /\ pipe[n].current =< server.current

(* Every frame the node has not started is on its way.                     *)
Coming(n) ==
    /\ \A f \in node[n].current + 1..server.current : Cmd("START", f) \in Stream(n)
    /\ \A f \in pipe[n].current + 1..server.current : Cmd("PSTART", f) \in PipeStream(n)

Replying(n) ==
    /\ \A f \in In(replies[n]) : finished[n] < f /\ f =< node[n].finished
    /\ \A j, k \in 1..Len(replies[n]) : j < k => replies[n][j] < replies[n][k]

RunningInv ==
    \A n \in running :
        /\ Chain(n) /\ Coming(n) /\ Replying(n)
        /\ frameIDs[n] = flushed[n] + 1..server.current
        /\ \A x \in Stream(n) : NodeAhead(x, node[n], server.current, flushed[n])
        /\ \A x \in PipeStream(n) : PipeAhead(x, pipe[n], server.current)

StoppedInv ==
    \A n \in Nodes \ running :
        /\ replies[n] = <<>>
        /\ \A x \in Stream(n) : x.type \notin Tasks
        /\ pipeQ[n] = <<>>

-----------------------------------------------------------------------------
(* The finished frame: the two threads of the server.                      *)

NotifyInv ==
    /\ server.finished =< server.current
    /\ \A t \in Threads :
          /\ notify[t].pc # "idle" =>
                server.finished =< notify[t].frame /\ notify[t].frame =< server.current
          /\ notify[t].pc = "set" => \A n \in running : notify[t].frame =< finished[n]
          /\ notify[t].pc = "send" => notify[t].frame =< server.finished
    /\ notify["main"].pc # "idle" =>
          server.pc = "idle" /\ notify["main"].frame = server.current
    /\ notify["command"].pc # "idle" =>
          \E n \in running : finished[n] =< notify["command"].frame
    /\ server.pc # "idle" => active # {}
    /\ server.pc = "waitAck" => server.finished = server.current

(* The application: finished frames it has been, or will be, told of.      *)
ToldInv ==
    /\ app.finished =< server.finished
    /\ \A x \in In(toApp) : x.type = "FRAME_FINISH" =>
          app.finished =< x.frame /\ x.frame =< server.finished
    /\ app.current =< app.finished + 1 + Latency
    /\ app.pc \in {"idle", "version", "update", "reply", "all"} =>
          app.current =< app.finished + Latency

-----------------------------------------------------------------------------
(* The update at the beginning of a frame.                                 *)

Answering == \E x \in In(toApp) : x.type \in AnswerTypes
Replied == \E x \in In(mainQ) \cup In(toApp) : x.type = "UPDATE_REPLY"

UpdateInv ==
    /\ \A k \in 1..Len(toServer) : toServer[k].type = "UPDATE" =>
          k = Len(toServer) /\ app.pc = "version" /\ app.version = "none" /\ ~Answering
    /\ Answering => app.pc = "version" /\ app.version = "none" /\ toServer = <<>>
    /\ app.pc = "version" /\ app.version # "none" => toServer = <<>>
    /\ app.pc \in {"update", "reply"} => toServer = <<>>
    /\ app.pc \in {"version", "update", "reply"} => app.current < LastFrame
    /\ app.pc \in {"version", "update"} => ~app.served
    /\ server.pc # "idle" =>
          /\ \A x \in In(toApp) : x.type # "go"
          /\ \/ app.pc = "version" /\ app.version # "go"
             \/ app.pc = "update"
             \/ app.pc = "reply" /\ ~app.served
          /\ toServer = <<>> /\ ~Replied
    /\ Replied => app.pc = "reply" /\ ~app.served /\ ~server.acked
    /\ server.acked => app.pc = "reply" /\ ~app.served
    
(* A frame is requested once.                                              *)
RequestInv ==
    /\ \A j, k \in 1..Len(toServer) :
          toServer[j].type = "START" /\ toServer[k].type = "START" => j = k
    /\ IF \E x \in In(toServer) : x.type = "START"
       THEN server.current = app.current - 1 ELSE server.current = app.current

-----------------------------------------------------------------------------
(* The local node.                                                         *)

(* Its pipe draws, and the application waits for it.                       *)
Synced ==
    AppNode \in running /\ setup.draws[AppNode] /\ setup.model[AppNode] # "ASYNC"

LocalInv ==
    /\ app.unlocked =< server.current
    /\ \A x \in In(mainQ) \cup In(toApp) : x.type = "RELEASE_LOCAL" => x.frame =< server.current
    /\ Synced =>
          /\ app.unlocked =< pipe[AppNode].unlocked
          /\ \A x \in In(mainQ) \cup In(toApp) :
                x.type = "RELEASE_LOCAL" => x.frame =< pipe[AppNode].unlocked
          /\ app.pc \notin {"started", "unlock"} => app.current =< pipe[AppNode].unlocked

FrameInv ==
    /\ InOrder /\ Placed /\ RunningInv /\ StoppedInv
    /\ NotifyInv /\ ToldInv /\ UpdateInv /\ RequestInv /\ LocalInv
-----------------------------------------------------------------------------
(* Lemmas about streams.                                                   *)

(* An element added to a queue, and two queues.                            *)
LEMMA InAppend ==
    ASSUME NEW T, NEW q \in Seq(T), NEW x \in T
    PROVE  In(Append(q, x)) = In(q) \cup {x}
  <1>1. /\ Len(q) \in Nat /\ Len(Append(q, x)) = Len(q) + 1
        /\ \A k \in 1..Len(q) : Append(q, x)[k] = q[k]
        /\ Append(q, x)[Len(q) + 1] = x
    BY AppendProperties, LenProperties
  <1>2. \A y : y \in In(Append(q, x)) <=> \E k \in 1..Len(q) + 1 : y = Append(q, x)[k]
    BY <1>1 DEF In
  <1>3. \A k : k \in 1..Len(q) + 1 <=> k \in 1..Len(q) \/ k = Len(q) + 1
    BY <1>1
  <1>4. \A y : y \in In(q) <=> \E k \in 1..Len(q) : y = q[k]
    BY DEF In
  <1> QED
    BY <1>1, <1>2, <1>3, <1>4

(* The members of a concatenation are those of its two parts.              *)
LEMMA InConcat ==
    ASSUME NEW T, NEW p \in Seq(T), NEW q \in Seq(T)
    PROVE  In(p \o q) = In(p) \cup In(q)
  <1>1. /\ Len(p) \in Nat /\ Len(q) \in Nat /\ Len(p \o q) = Len(p) + Len(q)
        /\ \A k \in 1..Len(p) + Len(q) :
              (p \o q)[k] = IF k =< Len(p) THEN p[k] ELSE q[k - Len(p)]
    BY ConcatProperties, LenProperties
  <1>2. \A y : y \in In(p \o q) <=> \E k \in 1..Len(p) + Len(q) : y = (p \o q)[k]
    BY <1>1 DEF In
  <1>3. ASSUME NEW y \in In(p \o q)
        PROVE  y \in In(p) \cup In(q)
    <2>1. PICK k \in 1..Len(p) + Len(q) : y = (p \o q)[k]
      BY <1>2, <1>3
    <2>2. CASE k =< Len(p)
      <3>1. k \in 1..Len(p) /\ y = p[k]
        BY <1>1, <2>1, <2>2
      <3> QED
        BY <3>1 DEF In
    <2>3. CASE ~(k =< Len(p))
      <3>1. k - Len(p) \in 1..Len(q) /\ y = q[k - Len(p)]
        BY <1>1, <2>1, <2>3
      <3> QED
        BY <3>1 DEF In
    <2> QED
      BY <2>2, <2>3
  <1>4. ASSUME NEW y \in In(p)
        PROVE  y \in In(p \o q)
    <2>1. PICK k \in 1..Len(p) : y = p[k]
      BY <1>4 DEF In
    <2>2. k \in 1..Len(p) + Len(q) /\ (p \o q)[k] = y
      BY <1>1, <2>1
    <2> QED
      BY <1>2, <2>2
  <1>5. ASSUME NEW y \in In(q)
        PROVE  y \in In(p \o q)
    <2>1. PICK k \in 1..Len(q) : y = q[k]
      BY <1>5 DEF In
    <2> DEFINE j == k + Len(p)
    <2>2. j \in 1..Len(p) + Len(q) /\ ~(j =< Len(p)) /\ j - Len(p) = k
      BY <1>1
    <2>3. (p \o q)[j] = y
      BY <1>1, <2>1, <2>2
    <2> QED
      BY <1>2, <2>2, <2>3
  <1> QED
    BY <1>3, <1>4, <1>5

(* The first element of a queue and the rest.                              *)
LEMMA InTail ==
    ASSUME NEW T, NEW q \in Seq(T), q # <<>>
    PROVE  /\ Head(q) \in T /\ Tail(q) \in Seq(T) /\ Head(q) = q[1]
           /\ In(q) = In(Tail(q)) \cup {Head(q)}
           /\ Len(Tail(q)) = Len(q) - 1 /\ Len(q) \in Nat \ {0}
           /\ \A k \in 1..Len(Tail(q)) : Tail(q)[k] = q[k + 1] /\ k + 1 \in 2..Len(q)
  <1>1. /\ Head(q) \in T /\ Tail(q) \in Seq(T) /\ Head(q) = q[1]
        /\ Len(Tail(q)) = Len(q) - 1 /\ Len(q) \in Nat \ {0}
        /\ \A k \in 1..Len(Tail(q)) : Tail(q)[k] = q[k + 1]
    BY HeadTailProperties, LenProperties, EmptySeq
  <1>2. \A k \in 1..Len(Tail(q)) : k + 1 \in 2..Len(q)
    BY <1>1
  <1>3. ASSUME NEW y \in In(q)
        PROVE  y \in In(Tail(q)) \cup {Head(q)}
    <2>1. PICK k \in 1..Len(q) : y = q[k]
      BY <1>3 DEF In
    <2>2. CASE k = 1
      BY <1>1, <2>1, <2>2
    <2>3. CASE k # 1
      <3> DEFINE j == k - 1
      <3>1. j \in 1..Len(Tail(q)) /\ j + 1 = k
        BY <1>1, <2>1, <2>3
      <3>2. y = Tail(q)[j]
        BY <1>1, <2>1, <3>1
      <3> QED
        BY <3>1, <3>2 DEF In
    <2> QED
      BY <2>2, <2>3
  <1>4. ASSUME NEW y \in In(Tail(q))
        PROVE  y \in In(q)
    <2>1. PICK k \in 1..Len(Tail(q)) : y = Tail(q)[k]
      BY <1>4 DEF In
    <2>2. k + 1 \in 1..Len(q) /\ y = q[k + 1]
      BY <1>1, <1>2, <2>1
    <2> QED
      BY <2>2 DEF In
  <1>5. Head(q) \in In(q)
    <2>1. 1 \in 1..Len(q)
      BY <1>1
    <2> QED
      BY <1>1, <2>1 DEF In
  <1> QED
    BY <1>1, <1>2, <1>3, <1>4, <1>5

(* An empty queue, and a queue of one.                                     *)
LEMMA InOne ==
    ASSUME NEW x
    PROVE  /\ In(<<x>>) = {x} /\ Ordered(<<x>>)
           /\ In(<<>>) = {} /\ Ordered(<<>>)
  <1>1. Len(<<x>>) = 1 /\ 1..1 = {1} /\ <<x>>[1] = x /\ Len(<<>>) = 0 /\ 1..0 = {}
    OBVIOUS
  <1>2. In(<<x>>) = {x} /\ Ordered(<<x>>)
    BY <1>1 DEF In, Ordered
  <1>3. In(<<>>) = {} /\ Ordered(<<>>)
    BY <1>1 DEF In, Ordered
  <1> QED
    BY <1>2, <1>3

(* The elements of a queue.                                                *)
LEMMA InType ==
    ASSUME NEW T, NEW q \in Seq(T)
    PROVE  /\ In(q) \subseteq T
           /\ In(q) = {} <=> q = <<>>
  <1>1. Len(q) \in Nat /\ \A k \in 1..Len(q) : q[k] \in T
    BY LenProperties, ElementOfSeq
  <1>2. q = <<>> <=> Len(q) = 0
    BY EmptySeq
  <1>3. q # <<>> => 1 \in 1..Len(q) /\ q[1] \in In(q)
    BY <1>1, <1>2 DEF In
  <1>4. q = <<>> => In(q) = {}
    BY InOne
  <1> QED
    BY <1>1, <1>3, <1>4 DEF In

(* What may follow all that is in an ordered queue can be appended to it.  *)
LEMMA OrderedConcat ==
    ASSUME NEW T, NEW p \in Seq(T), NEW q \in Seq(T), Ordered(p), Ordered(q),
           \A x \in In(p), y \in In(q) : Follows(x, y)
    PROVE  Ordered(p \o q)
  <1>1. /\ Len(p) \in Nat /\ Len(q) \in Nat /\ Len(p \o q) = Len(p) + Len(q)
        /\ \A k \in 1..Len(p) + Len(q) :
              (p \o q)[k] = IF k =< Len(p) THEN p[k] ELSE q[k - Len(p)]
    BY ConcatProperties, LenProperties
  <1> SUFFICES ASSUME NEW j \in 1..Len(p) + Len(q), NEW k \in 1..Len(p) + Len(q), j < k
               PROVE  Follows((p \o q)[j], (p \o q)[k])
    BY <1>1 DEF Ordered
  <1>2. CASE k =< Len(p)
    <2>1. j \in 1..Len(p) /\ k \in 1..Len(p)
      BY <1>1, <1>2
    <2>2. (p \o q)[j] = p[j] /\ (p \o q)[k] = p[k]
      BY <1>1, <2>1
    <2> QED
      BY <2>1, <2>2 DEF Ordered
  <1>3. CASE j =< Len(p) /\ ~(k =< Len(p))
    <2>1. j \in 1..Len(p) /\ k - Len(p) \in 1..Len(q)
      BY <1>1, <1>3
    <2>2. (p \o q)[j] = p[j] /\ (p \o q)[k] = q[k - Len(p)]
      BY <1>1, <1>3
    <2>3. p[j] \in In(p) /\ q[k - Len(p)] \in In(q)
      BY <2>1 DEF In
    <2> QED
      BY <2>2, <2>3
  <1>4. CASE ~(j =< Len(p))
    <2>1. /\ j - Len(p) \in 1..Len(q) /\ k - Len(p) \in 1..Len(q)
          /\ j - Len(p) < k - Len(p) /\ ~(k =< Len(p))
      BY <1>1, <1>4
    <2>2. (p \o q)[j] = q[j - Len(p)] /\ (p \o q)[k] = q[k - Len(p)]
      BY <1>1, <1>4, <2>1
    <2> QED
      BY <2>1, <2>2 DEF Ordered
  <1> QED
    BY <1>2, <1>3, <1>4

(* A command that may follow every queued one keeps the queue in order.    *)
LEMMA OrderedAppend ==
    ASSUME NEW T, NEW p \in Seq(T), NEW x \in T, Ordered(p), \A y \in In(p) : Follows(y, x)
    PROVE  Ordered(Append(p, x))
  <1>1. /\ Len(p) \in Nat /\ Len(Append(p, x)) = Len(p) + 1
        /\ \A k \in 1..Len(p) : Append(p, x)[k] = p[k]
        /\ Append(p, x)[Len(p) + 1] = x
    BY AppendProperties, LenProperties
  <1> SUFFICES ASSUME NEW j \in 1..Len(p) + 1, NEW k \in 1..Len(p) + 1, j < k
               PROVE  Follows(Append(p, x)[j], Append(p, x)[k])
    BY <1>1 DEF Ordered
  <1>2. j \in 1..Len(p) /\ Append(p, x)[j] = p[j] /\ p[j] \in In(p)
    BY <1>1 DEF In
  <1>3. CASE k = Len(p) + 1
    BY <1>1, <1>2, <1>3
  <1>4. CASE k # Len(p) + 1
    <2>1. k \in 1..Len(p) /\ Append(p, x)[k] = p[k]
      BY <1>1, <1>4
    <2> QED
      BY <1>2, <2>1 DEF Ordered
  <1> QED
    BY <1>3, <1>4

(* The head of an ordered queue comes before the rest.                     *)
LEMMA OrderedTail ==
    ASSUME NEW T, NEW q \in Seq(T), q # <<>>, Ordered(q)
    PROVE  /\ Ordered(Tail(q))
           /\ \A y \in In(Tail(q)) : Follows(Head(q), y)
  <1>1. /\ Head(q) = q[1] /\ Len(Tail(q)) = Len(q) - 1 /\ Len(q) \in Nat \ {0}
        /\ \A k \in 1..Len(Tail(q)) : Tail(q)[k] = q[k + 1] /\ k + 1 \in 2..Len(q)
    BY InTail
  <1>2. ASSUME NEW j \in 1..Len(Tail(q)), NEW k \in 1..Len(Tail(q)), j < k
        PROVE  Follows(Tail(q)[j], Tail(q)[k])
    <2>1. j + 1 \in 1..Len(q) /\ k + 1 \in 1..Len(q) /\ j + 1 < k + 1
      BY <1>1, <1>2
    <2> QED
      BY <1>1, <2>1 DEF Ordered
  <1>3. ASSUME NEW y \in In(Tail(q))
        PROVE  Follows(Head(q), y)
    <2>1. PICK k \in 1..Len(Tail(q)) : y = Tail(q)[k]
      BY <1>3 DEF In
    <2>2. 1 \in 1..Len(q) /\ k + 1 \in 1..Len(q) /\ 1 < k + 1 /\ y = q[k + 1]
      BY <1>1, <2>1
    <2> QED
      BY <1>1, <2>2 DEF Ordered
  <1> QED
    BY <1>2, <1>3 DEF Ordered
-----------------------------------------------------------------------------
(* Lemmas about the commands the server sends.                             *)

(* What the setup of a config gives for every node.                        *)
LEMMA SetupFields ==
    ASSUME Types
    PROVE  /\ Latency \in Nat
           /\ \A n \in Nodes : /\ setup.model[n] \in Models
                               /\ setup.threaded[n] \in BOOLEAN /\ setup.draws[n] \in BOOLEAN
           /\ AppNode \in Nodes /\ LastFrame \in Nat /\ Frames \subseteq Int
  <1>1. setup \in [latency: Nat, model: [Nodes -> Models],
                   threaded: [Nodes -> BOOLEAN], draws: [Nodes -> BOOLEAN]]
    BY FrameLoopAssumption DEF Types
  <1>2. LastFrame \in Nat /\ AppNode \in Nodes
    BY FrameLoopAssumption
  <1> QED
    BY <1>1, <1>2 DEF Latency, Frames

(* The frames of an interval one after the other.                          *)
LEMMA InSequenceSorts ==
    ASSUME NEW lo \in Int, NEW hi \in Int
    PROVE  LET s == InSequence(lo + 1..hi)
               m == Cardinality(lo + 1..hi)
           IN /\ m \in Nat /\ s \in [1..m -> lo + 1..hi]
              /\ \A i, j \in 1..m : i < j => s[i] < s[j]
  <1> DEFINE S == lo + 1..hi
             m == Cardinality(S)
             P(s) == \A i, j \in 1..m : i < j => s[i] < s[j]
             z == [i \in 1..m |-> lo + i]
  <1>1. m = IF lo + 1 > hi THEN 0 ELSE hi - (lo + 1) + 1
    BY FS_Interval
  <1>2. m \in Nat /\ \A i \in 1..m : lo + i \in S
    BY <1>1
  <1>3. z \in [1..m -> S] /\ P(z)
    BY <1>2
  <1>4. InSequence(S) = CHOOSE s \in [1..m -> S] : P(s)
    BY DEF InSequence
  <1> HIDE DEF z, m, P, S
  <1>5. InSequence(S) \in [1..m -> S] /\ P(InSequence(S))
    BY <1>3, <1>4
  <1> QED
    BY <1>2, <1>5 DEF m, P, S

(* The finishes that flushFrames sends.                                    *)
LEMMA FinishesSorted ==
    ASSUME NEW n, NEW ids, NEW sc \in Frames, NEW f \in Int, f =< sc,
           flushed[n] \in Frames, ids = flushed[n] + 1..sc
    PROVE  LET q == Finishes(n, ids, f)
           IN /\ q \in Seq(NodeCommand) /\ Ordered(q)
              /\ \A x \in In(q) : x.type = "FINISH" /\ flushed[n] < x.frame /\ x.frame =< f
  <1> DEFINE lo == flushed[n]
             S == {i \in ids : lo < i /\ i =< f}
             s == InSequence(lo + 1..f)
             m == Cardinality(lo + 1..f)
             q == Finishes(n, ids, f)
  <1>0. lo \in Nat /\ sc \in Nat /\ lo \in Int /\ sc =< LastFrame /\ LastFrame \in Nat
    BY FrameLoopAssumption DEF Frames
  <1>1. S = lo + 1..f
    BY <1>0
  <1>2. q = [i \in DOMAIN s |-> Cmd("FINISH", s[i])]
    BY <1>1 DEF Finishes
  <1> HIDE DEF q, S
  <1>3. m \in Nat /\ s \in [1..m -> lo + 1..f] /\ \A i, j \in 1..m : i < j => s[i] < s[j]
    BY <1>0, InSequenceSorts
  <1> HIDE DEF s, m
  <1>4. \A i \in 1..m : s[i] \in lo + 1..f /\ s[i] \in Frames
    <2>1. \A g \in lo + 1..f : g \in Frames
      BY <1>0 DEF Frames
    <2> QED
      BY <1>3, <2>1
  <1>5. DOMAIN q = 1..m /\ \A i \in 1..m : q[i] = Cmd("FINISH", s[i])
    BY <1>2, <1>3
  <1>6. q \in [1..m -> NodeCommand]
    <2>1. \A i \in 1..m : Cmd("FINISH", s[i]) \in NodeCommand
      BY <1>4 DEF Cmd, NodeCommand, Tasks, NodeCommands
    <2> QED
      BY <1>2, <1>3, <2>1
  <1>7. q \in Seq(NodeCommand) /\ Len(q) = m
    BY SMTT(30), <1>3, <1>6
  <1>8. Ordered(q)
    BY <1>3, <1>4, <1>5, <1>7 DEF Ordered, Follows, Cmd, PipeCommands, AnswerTypes
  <1>9. \A x \in In(q) : x.type = "FINISH" /\ lo < x.frame /\ x.frame =< f
    BY <1>0, <1>4, <1>5, <1>7 DEF In, Cmd
  <1> QED
    BY <1>7, <1>8, <1>9 DEF q

(* The commands of a frame for a pipe.                                     *)
LEMMA PipeTasksSent ==
    ASSUME NEW f \in Frames
    PROVE  /\ PipeTasks(f) \in Seq(PipeCommand) /\ Ordered(PipeTasks(f))
           /\ In(PipeTasks(f)) = {Cmd("PSTART", f), Cmd("PDRAW", f), Cmd("PFINISH", f)}
  <1> DEFINE q == PipeTasks(f)
  <1>1. q = <<Cmd("PSTART", f), Cmd("PDRAW", f), Cmd("PFINISH", f)>>
    BY DEF PipeTasks
  <1>2. \A t \in PipeCommands : Cmd(t, f) \in PipeCommand
    BY DEF Cmd, PipeCommand
  <1>3. q \in Seq(PipeCommand)
    BY <1>1, <1>2 DEF PipeCommands
  <1> HIDE DEF q
  <1>4. /\ Len(q) = 3 /\ 1..3 = {1, 2, 3}
        /\ q[1] = Cmd("PSTART", f) /\ q[2] = Cmd("PDRAW", f) /\ q[3] = Cmd("PFINISH", f)
    BY <1>1
  <1>5. Ordered(q)
    <2>1. \A j, k \in {1, 2, 3} : j < k => <<j, k>> \in {<<1, 2>>, <<1, 3>>, <<2, 3>>}
      OBVIOUS
    <2>2. f \in Int
      BY FrameLoopAssumption DEF Frames
    <2> QED
      BY <1>4, <2>1, <2>2 DEF Ordered, Follows, Cmd, PipeCommands, NodeCommands, AnswerTypes
  <1>6. In(q) = {Cmd("PSTART", f), Cmd("PDRAW", f), Cmd("PFINISH", f)}
    BY <1>4 DEF In
  <1> QED
    BY <1>3, <1>5, <1>6 DEF q

(* The commands of a frame for a node.                                     *)
LEMMA NodeTasksSent ==
    ASSUME Types, NEW n \in Nodes, NEW f \in Frames
    PROVE  LET q == NodeTasks(n, f)
           IN /\ q \in Seq(NodeCommand) /\ Ordered(q)
              /\ \A x \in In(q) : x.frame = f /\ x.type \in Tasks \ {"FINISH"}
              /\ Cmd("START", f) \in In(q)
              /\ setup.threaded[n] => \A x \in In(q) : x.type \notin PipeCommands
              /\ ~setup.threaded[n] => Cmd("PSTART", f) \in In(q)
  <1> DEFINE q == NodeTasks(n, f)
             C(t) == Cmd(t, f)
  <1>1. \A t \in Tasks : C(t) \in NodeCommand
    BY DEF Cmd, NodeCommand
  <1>2. f \in Int /\ \A t \in Tasks : C(t).type = t /\ C(t).frame = f
    BY FrameLoopAssumption DEF Frames, Cmd
  <1>3. CASE setup.threaded[n]
    <2>1. q = <<C("START"), C("DRAW"), C("TASKS")>>
      BY <1>3 DEF NodeTasks
    <2>2. q \in Seq(NodeCommand)
      BY <1>1, <2>1 DEF Tasks, NodeCommands
    <2>3. /\ Len(q) = 3 /\ 1..3 = {1, 2, 3}
          /\ q[1] = C("START") /\ q[2] = C("DRAW") /\ q[3] = C("TASKS")
      BY <2>1
    <2> HIDE DEF q
    <2>4. Ordered(q)
      BY <1>2, <2>3 DEF Ordered, Follows, PipeCommands, Tasks, NodeCommands, AnswerTypes, Cmd
    <2>5. In(q) = {C("START"), C("DRAW"), C("TASKS")}
      BY <2>3 DEF In
    <2> QED
      BY <1>2, <1>3, <2>2, <2>4, <2>5 DEF q, Tasks, NodeCommands, PipeCommands
  <1>4. CASE ~setup.threaded[n] /\ setup.draws[n]
    <2>1. q = <<C("START"), C("PSTART"), C("PDRAW"), C("DRAW"), C("PFINISH"), C("TASKS")>>
      BY <1>4 DEF NodeTasks
    <2>2. q \in Seq(NodeCommand)
      BY <1>1, <2>1 DEF Tasks, NodeCommands, PipeCommands
    <2>3. /\ Len(q) = 6 /\ 1..6 = {1, 2, 3, 4, 5, 6}
          /\ q[1] = C("START") /\ q[2] = C("PSTART") /\ q[3] = C("PDRAW")
          /\ q[4] = C("DRAW") /\ q[5] = C("PFINISH") /\ q[6] = C("TASKS")
      BY <2>1
    <2> HIDE DEF q
    <2>4. Ordered(q)
      BY <1>2, <2>3 DEF Ordered, Follows, PipeCommands, Tasks, NodeCommands, AnswerTypes, Cmd
    <2>5. In(q) = {C("START"), C("PSTART"), C("PDRAW"), C("DRAW"), C("PFINISH"), C("TASKS")}
      BY <2>3 DEF In
    <2> QED
      BY <1>2, <1>4, <2>2, <2>4, <2>5 DEF q, Tasks, NodeCommands, PipeCommands
  <1>5. CASE ~setup.threaded[n] /\ ~setup.draws[n]
    <2>1. q = <<C("START"), C("PSTART"), C("PDRAW"), C("PFINISH"), C("DRAW"), C("TASKS")>>
      BY <1>5 DEF NodeTasks
    <2>2. q \in Seq(NodeCommand)
      BY <1>1, <2>1 DEF Tasks, NodeCommands, PipeCommands
    <2>3. /\ Len(q) = 6 /\ 1..6 = {1, 2, 3, 4, 5, 6}
          /\ q[1] = C("START") /\ q[2] = C("PSTART") /\ q[3] = C("PDRAW")
          /\ q[4] = C("PFINISH") /\ q[5] = C("DRAW") /\ q[6] = C("TASKS")
      BY <2>1
    <2> HIDE DEF q
    <2>4. Ordered(q)
      BY <1>2, <2>3 DEF Ordered, Follows, PipeCommands, Tasks, NodeCommands, AnswerTypes, Cmd
    <2>5. In(q) = {C("START"), C("PSTART"), C("PDRAW"), C("PFINISH"), C("DRAW"), C("TASKS")}
      BY <2>3 DEF In
    <2> QED
      BY <1>2, <1>5, <2>2, <2>4, <2>5 DEF q, Tasks, NodeCommands, PipeCommands
  <1> QED
    BY <1>3, <1>4, <1>5
-----------------------------------------------------------------------------
(* Lemmas about the commands of nodes and pipes.                           *)

(* The commands of a stream.                                               *)
LEMMA StreamFields ==
    ASSUME Types, NEW n \in Nodes
    PROVE  /\ \A x \in Stream(n) : x.frame \in Frames /\ x.frame \in Int
           /\ \A x \in PipeStream(n) : x.frame \in Frames /\ x.frame \in Int
           /\ \A x \in In(pipeQ[n]) : x.type \in PipeCommands
           /\ n # AppNode => \A x \in Stream(n) : x.type \in Tasks
  <1>1. Frames \subseteq Int
    BY SetupFields
  <1>2. In(mainQ) \subseteq MainCommand /\ In(toApp) \subseteq AppCommand
    BY InType DEF Types
  <1>3. In(nodeQ[n]) \subseteq NodeCommand /\ In(pipeQ[n]) \subseteq PipeCommand
    BY InType DEF Types
  <1>4. \A x \in In(nodeQ[n]) : x.type \in Tasks /\ x.frame \in Frames
    BY <1>3 DEF NodeCommand
  <1>5. \A x \in In(pipeQ[n]) : x.type \in PipeCommands /\ x.frame \in Frames
    BY <1>3 DEF PipeCommand
  <1>6. \A x \in In(mainQ) \cup In(toApp) : x.frame \in Frames
    BY <1>2 DEF MainCommand, AppCommand
  <1> QED
    BY <1>1, <1>4, <1>5, <1>6 DEF Stream, PipeStream

(* The frames of a node or pipe.                                           *)
LEMMA NodeFields ==
    ASSUME Types, NEW n \in Nodes
    PROVE  /\ node[n] \in FrameRecord /\ pipe[n] \in FrameRecord
           /\ node[n].current \in Int /\ node[n].unlocked \in Int /\ node[n].finished \in Int
           /\ pipe[n].current \in Int /\ pipe[n].unlocked \in Int /\ pipe[n].finished \in Int
           /\ finished[n] \in Int /\ flushed[n] \in Int
           /\ server.current \in Int /\ server.finished \in Int
           /\ replies[n] \in Seq(Frames)
  <1>1. Frames \subseteq Int
    BY SetupFields
  <1>2. node[n] \in FrameRecord /\ pipe[n] \in FrameRecord /\ replies[n] \in Seq(Frames)
    BY DEF Types
  <1>3. finished[n] \in Frames /\ flushed[n] \in Frames
    BY DEF Types
  <1>4. server.current \in Frames /\ server.finished \in Frames
    BY DEF Types, ServerRecord
  <1> QED
    BY <1>1, <1>2, <1>3, <1>4 DEF FrameRecord

(* A pipe's frames p become z when it has run the command c.               *)
PipeRan(n, c, p, z, sc) ==
    /\ z \in FrameRecord
    /\ p.finished =< z.finished /\ p.unlocked =< z.unlocked
    /\ z.finished =< z.unlocked /\ z.unlocked =< sc
    /\ setup.model[n] = "LOCAL_SYNC" => z.unlocked = z.finished
    /\ z.current = IF c.type = "PSTART" THEN c.frame ELSE p.current
    /\ \A y : PipeAhead(y, p, sc) /\ Follows(c, y) /\ y.frame \in Int => PipeAhead(y, z, sc)

(* A command that the pipe was ready for leaves it ready for every one     *)
(* that may follow.                                                        *)
LEMMA PipeAfter ==
    ASSUME NEW n, NEW c, c.frame \in Frames, c.type \in PipeCommands, NEW p \in FrameRecord,
           NEW sc \in Int, PipeAhead(c, p, sc), Frames \subseteq Int,
           p.finished =< p.unlocked, p.unlocked =< sc,
           setup.model[n] = "LOCAL_SYNC" => p.unlocked = p.finished,
           NEW z, z = After(n, c, p)
    PROVE  PipeRan(n, c, p, z, sc)
  <1>1. /\ p.current \in Frames /\ p.unlocked \in Frames /\ p.finished \in Frames
        /\ p.current \in Int /\ p.unlocked \in Int /\ p.finished \in Int /\ c.frame \in Int
    BY DEF FrameRecord
  <1> DEFINE u == c.type = "PFINISH" \/ Unlocks(n, c)
  <1>2. /\ z.current = IF c.type = "PSTART" THEN c.frame ELSE p.current
        /\ z.unlocked = IF u THEN c.frame ELSE p.unlocked
        /\ z.finished = IF c.type = "PFINISH" THEN c.frame ELSE p.finished
        /\ z = [current |-> z.current, unlocked |-> z.unlocked, finished |-> z.finished]
    <2>1. p.unlocked =< c.frame
      BY DEF PipeAhead
    <2> QED
      BY <1>1, <2>1 DEF After, PipeCommands
  <1>3. setup.model[n] = "LOCAL_SYNC" => (u <=> c.type = "PFINISH")
    BY DEF Unlocks, PipeCommands
  <1> HIDE DEF u
  <1>4. z \in FrameRecord
    <2>1. z.current \in Frames /\ z.unlocked \in Frames /\ z.finished \in Frames
      BY <1>1, <1>2
    <2> QED
      BY <1>2, <2>1 DEF FrameRecord
  <1>5. p.finished < c.frame /\ c.frame =< sc /\ p.unlocked =< c.frame
    BY DEF PipeAhead
  <1>6. /\ p.finished =< z.finished /\ p.unlocked =< z.unlocked
        /\ z.finished =< z.unlocked /\ z.unlocked =< sc
    <2>1. c.type = "PFINISH" => u
      BY DEF u
    <2> QED
      BY <1>1, <1>2, <1>5, <2>1
  <1>7. setup.model[n] = "LOCAL_SYNC" => z.unlocked = z.finished
    BY <1>2, <1>3
  <1>8. ASSUME NEW y, PipeAhead(y, p, sc), Follows(c, y), y.frame \in Int
        PROVE  PipeAhead(y, z, sc)
    <2>1. y.type \in PipeCommands => z.finished < y.frame /\ z.unlocked =< y.frame
      BY <1>1, <1>2, <1>8 DEF PipeAhead, Follows
    <2>2. y.type = "PSTART" => z.current < y.frame
      BY <1>1, <1>2, <1>8 DEF PipeAhead, Follows
    <2> QED
      BY <1>8, <2>1, <2>2 DEF PipeAhead
  <1> QED
    BY <1>2, <1>4, <1>6, <1>7, <1>8 DEF PipeRan

(* A node's frames r become z when it has run the command c.               *)
NodeRan(n, c, r, z, sc, fl) ==
    /\ z \in FrameRecord
    /\ r.finished =< z.finished /\ z.finished =< fl
    /\ z.finished = IF c.type = "FINISH" THEN c.frame ELSE r.finished
    /\ z.current = IF c.type = "START" THEN c.frame ELSE r.current
    /\ z.unlocked # r.unlocked => Unlocks(n, c) \/ c.type = "FINISH"
    /\ \A y : NodeAhead(y, r, sc, fl) /\ Follows(c, y) /\ y.frame \in Int
                 => NodeAhead(y, z, sc, fl)

(* A command that the node was ready for leaves it ready for every one that*)
(* may follow.                                                             *)
LEMMA NodeAfter ==
    ASSUME NEW n, NEW c, c.frame \in Frames, c.type \in NodeCommands, NEW r \in FrameRecord,
           NEW sc \in Int, NEW fl \in Int, NodeAhead(c, r, sc, fl), Frames \subseteq Int,
           r.finished =< fl,
           NEW z, z = After(n, c, r)
    PROVE  NodeRan(n, c, r, z, sc, fl)
  <1>1. /\ r.current \in Frames /\ r.unlocked \in Frames /\ r.finished \in Frames
        /\ r.current \in Int /\ r.unlocked \in Int /\ r.finished \in Int /\ c.frame \in Int
    BY DEF FrameRecord
  <1>2. /\ z.current = IF c.type = "START" THEN c.frame ELSE r.current
        /\ z.unlocked = IF Unlocks(n, c) \/ (c.type = "FINISH" /\ r.unlocked < c.frame)
                        THEN c.frame ELSE r.unlocked
        /\ z.finished = IF c.type = "FINISH" THEN c.frame ELSE r.finished
        /\ z = [current |-> z.current, unlocked |-> z.unlocked, finished |-> z.finished]
    BY DEF After, NodeCommands
  <1>3. z \in FrameRecord
    <2>1. z.current \in Frames /\ z.unlocked \in Frames /\ z.finished \in Frames
      BY <1>1, <1>2
    <2> QED
      BY <1>2, <2>1 DEF FrameRecord
  <1>4. r.finished =< z.finished /\ z.finished =< fl
    BY <1>1, <1>2 DEF NodeAhead, NodeCommands
  <1>5. ASSUME NEW y, NodeAhead(y, r, sc, fl), Follows(c, y), y.frame \in Int
        PROVE  NodeAhead(y, z, sc, fl)
    <2>1. y.type \in NodeCommands => z.finished < y.frame
      BY <1>1, <1>2, <1>5 DEF NodeAhead, Follows
    <2>2. y.type = "START" => z.current < y.frame
      BY <1>1, <1>2, <1>5 DEF NodeAhead, Follows
    <2> QED
      BY <1>5, <2>1, <2>2 DEF NodeAhead
  <1> QED
    BY <1>2, <1>3, <1>4, <1>5 DEF NodeRan
(* z is S without c, or the same set.                                      *)
Drops(S, z, c) == z \subseteq S /\ S \subseteq z \cup {c}
AllFollow(c, S) == \A y \in S : Follows(c, y)

(* Only the commands of node n change.                                     *)
OnlyStreamsOf(n) ==
    \A m \in Nodes \ {n} : Stream(m)' = Stream(m) /\ PipeStream(m)' = PipeStream(m)

(* A command of a pipe runs.                                               *)
LEMMA PipeTaskRuns ==
    ASSUME Types, RunningInv, NEW n \in running, NEW c \in PipeStream(n),
           c.type \in PipeCommands,
           RunPipe(n, c), UNCHANGED <<setup, serverVars, node, replies>>,
           OnlyStreamsOf(n), Drops(Stream(n), Stream(n)', c),
           Drops(PipeStream(n), PipeStream(n)', c), AllFollow(c, PipeStream(n)')
    PROVE  RunningInv' /\ \A m \in Nodes : pipe[m].unlocked =< pipe'[m].unlocked
  <1>0. n \in Nodes /\ Frames \subseteq Int /\ running \subseteq Nodes
    BY SetupFields DEF Types
  <1>1. /\ node' = node /\ replies' = replies /\ finished' = finished /\ flushed' = flushed
        /\ server' = server /\ running' = running /\ setup' = setup /\ frameIDs' = frameIDs
    BY DEF serverVars
  <1>2. ASSUME NEW m \in running, m # n
        PROVE  /\ Chain(m)' /\ Coming(m)' /\ Replying(m)'
               /\ frameIDs'[m] = flushed'[m] + 1..server'.current
               /\ \A x \in Stream(m)' : NodeAhead(x, node'[m], server'.current, flushed'[m])
               /\ \A x \in PipeStream(m)' : PipeAhead(x, pipe'[m], server'.current)
    <2>1. m \in Nodes /\ pipe'[m] = pipe[m]
      BY <1>0, <1>2 DEF RunPipe, Types
    <2>2. Stream(m)' = Stream(m) /\ PipeStream(m)' = PipeStream(m)
      BY <1>2, <2>1 DEF OnlyStreamsOf
    <2> QED
      BY <1>1, <2>1, <2>2 DEF RunningInv, Chain, Coming, Replying
  <1> DEFINE p == pipe[n]
             z == After(n, c, p)
             sc == server.current
  <1>3. pipe'[n] = z
    BY <1>0 DEF RunPipe, Types
  <1>4. /\ Chain(n) /\ Coming(n) /\ Replying(n) /\ frameIDs[n] = flushed[n] + 1..sc
        /\ \A x \in Stream(n) : NodeAhead(x, node[n], sc, flushed[n])
        /\ \A x \in PipeStream(n) : PipeAhead(x, p, sc)
    BY DEF RunningInv
  <1>5. /\ p \in FrameRecord /\ sc \in Int /\ c.frame \in Frames /\ c.frame \in Int
        /\ \A x \in PipeStream(n) : x.frame \in Int
        /\ p.finished \in Int /\ node[n].finished \in Int
    BY <1>0, NodeFields, StreamFields
  <1>6. p.finished =< p.unlocked /\ p.unlocked =< sc /\ node[n].finished =< p.finished
    BY <1>4 DEF Chain
  <1>7. setup.model[n] = "LOCAL_SYNC" => p.unlocked = p.finished
    BY <1>4 DEF Chain
  <1> HIDE DEF p, z, sc
  <1>8. /\ z \in FrameRecord /\ p.finished =< z.finished /\ p.unlocked =< z.unlocked
        /\ z.finished =< z.unlocked /\ z.unlocked =< sc
        /\ setup.model[n] = "LOCAL_SYNC" => z.unlocked = z.finished
        /\ z.current = IF c.type = "PSTART" THEN c.frame ELSE p.current
        /\ \A y : PipeAhead(y, p, sc) /\ Follows(c, y) /\ y.frame \in Int => PipeAhead(y, z, sc)
    <2>1. PipeAhead(c, p, sc)
      BY <1>4
    <2>2. z = After(n, c, p)
      BY DEF z
    <2>3. PipeRan(n, c, p, z, sc)
      BY ONLY <1>0, <1>5, <1>6, <1>7, <2>1, <2>2, PipeAfter, c.type \in PipeCommands
    <2> QED
      BY ONLY <2>3 DEF PipeRan
  <1>9. z.finished \in Int /\ p.current \in Int
    BY <1>0, <1>5, <1>8 DEF FrameRecord
  <1>10. node[n].finished =< z.finished
    BY <1>5, <1>6, <1>8, <1>9
  <1>d. z.current =< sc
    <2>1. PipeAhead(c, p, sc) /\ p.current =< sc
      BY <1>4 DEF Chain, p, sc
    <2> QED
      BY <1>8, <2>1 DEF PipeAhead
  <1>11. Chain(n)'
    BY <1>1, <1>3, <1>4, <1>8, <1>10, <1>d DEF Chain, sc
  <1>12. Coming(n)'
    <2>1. \A f : Cmd("START", f) # c
      BY DEF Cmd, PipeCommands
    <2>2. \A f \in node[n].current + 1..sc : Cmd("START", f) \in Stream(n)'
      BY <1>4, <2>1 DEF Coming, Drops, sc
    <2>3. ASSUME NEW f \in z.current + 1..sc
          PROVE  Cmd("PSTART", f) \in PipeStream(n)'
      <3>1. f \in p.current + 1..sc /\ Cmd("PSTART", f) # c
        <4>1. CASE c.type = "PSTART"
          <5>1. p.current < c.frame
            BY <1>4, <4>1 DEF PipeAhead
          <5> QED
            BY <1>5, <1>8, <1>9, <2>3, <4>1, <5>1 DEF Cmd
        <4>2. CASE c.type # "PSTART"
          BY <1>8, <2>3, <4>2 DEF Cmd
        <4> QED
          BY <4>1, <4>2
      <3> QED
        BY <1>4, <3>1 DEF Coming, Drops, sc, p
    <2> QED
      BY <1>1, <1>3, <2>2, <2>3 DEF Coming, sc
  <1>13. Replying(n)'
    BY <1>1, <1>4 DEF Replying
  <1>14. \A x \in Stream(n)' : NodeAhead(x, node[n], sc, flushed[n])
    BY <1>4 DEF Drops
  <1>15. \A x \in PipeStream(n)' : PipeAhead(x, z, sc)
    BY <1>4, <1>5, <1>8 DEF Drops, AllFollow
  <1>16. RunningInv'
    BY <1>1, <1>2, <1>3, <1>4, <1>11, <1>12, <1>13, <1>14, <1>15 DEF RunningInv, sc
  <1>17. ASSUME NEW m \in Nodes
         PROVE  pipe[m].unlocked =< pipe'[m].unlocked
    <2>1. CASE m = n
      BY <1>3, <1>8, <2>1 DEF p
    <2>2. CASE m # n
      <3>1. pipe'[m] = pipe[m] /\ pipe[m].unlocked \in Int
        BY <2>2, NodeFields DEF RunPipe, Types
      <3> QED
        BY <3>1
    <2> QED
      BY <2>1, <2>2
  <1> QED
    BY <1>16, <1>17

(* A command of a node runs, and its finish is replied.                    *)
LEMMA NodeTaskRuns ==
    ASSUME Types, RunningInv, NEW n \in running, NEW c \in Stream(n),
           c.type \in NodeCommands, Runnable(n, c),
           RunNode(n, c), UNCHANGED <<setup, serverVars, pipe>>,
           OnlyStreamsOf(n), Drops(Stream(n), Stream(n)', c),
           Drops(PipeStream(n), PipeStream(n)', c), AllFollow(c, Stream(n)')
    PROVE  RunningInv'
  <1>0. n \in Nodes /\ Frames \subseteq Int /\ running \subseteq Nodes
    BY SetupFields DEF Types
  <1>1. /\ pipe' = pipe /\ finished' = finished /\ flushed' = flushed
        /\ server' = server /\ running' = running /\ setup' = setup /\ frameIDs' = frameIDs
    BY DEF serverVars
  <1>2. ASSUME NEW m \in running, m # n
        PROVE  /\ Chain(m)' /\ Coming(m)' /\ Replying(m)'
               /\ frameIDs'[m] = flushed'[m] + 1..server'.current
               /\ \A x \in Stream(m)' : NodeAhead(x, node'[m], server'.current, flushed'[m])
               /\ \A x \in PipeStream(m)' : PipeAhead(x, pipe'[m], server'.current)
    <2>1. m \in Nodes /\ node'[m] = node[m] /\ replies'[m] = replies[m]
      BY <1>0, <1>2 DEF RunNode, Types
    <2>2. Stream(m)' = Stream(m) /\ PipeStream(m)' = PipeStream(m)
      BY <1>2, <2>1 DEF OnlyStreamsOf
    <2> QED
      BY <1>1, <2>1, <2>2 DEF RunningInv, Chain, Coming, Replying
  <1> DEFINE r == node[n]
             z == After(n, c, r)
             sc == server.current
             fl == flushed[n]
  <1>3. node'[n] = z
    BY <1>0 DEF RunNode, Types
  <1>4. /\ Chain(n) /\ Coming(n) /\ Replying(n) /\ frameIDs[n] = fl + 1..sc
        /\ \A x \in Stream(n) : NodeAhead(x, r, sc, fl)
        /\ \A x \in PipeStream(n) : PipeAhead(x, pipe[n], sc)
    BY DEF RunningInv
  <1>5. /\ r \in FrameRecord /\ sc \in Int /\ fl \in Int /\ c.frame \in Frames /\ c.frame \in Int
        /\ \A x \in Stream(n) : x.frame \in Int
        /\ r.finished \in Int /\ r.current \in Int /\ finished[n] \in Int
        /\ pipe[n].finished \in Int /\ replies[n] \in Seq(Frames)
    BY <1>0, NodeFields, StreamFields
  <1>6. /\ finished[n] =< r.finished /\ r.finished =< fl /\ r.finished =< pipe[n].finished
    BY <1>4 DEF Chain
  <1>a. replies'[n] = IF c.type = "FINISH" /\ r.finished < c.frame
                      THEN Append(replies[n], c.frame) ELSE replies[n]
    BY <1>0 DEF RunNode, Types
  <1>b. NodeAhead(c, r, sc, fl)
    BY <1>4
  <1>c. c.type = "FINISH" => c.frame =< pipe[n].finished
    BY DEF Runnable
  <1> HIDE DEF r, z, sc, fl
  <1>8. /\ z \in FrameRecord /\ r.finished =< z.finished /\ z.finished =< fl
        /\ z.finished = IF c.type = "FINISH" THEN c.frame ELSE r.finished
        /\ z.current = IF c.type = "START" THEN c.frame ELSE r.current
        /\ \A y : NodeAhead(y, r, sc, fl) /\ Follows(c, y) /\ y.frame \in Int
                     => NodeAhead(y, z, sc, fl)
    <2>1. z = After(n, c, r)
      BY DEF z
    <2>2. NodeRan(n, c, r, z, sc, fl)
      BY ONLY <1>0, <1>5, <1>6, <1>b, <2>1, NodeAfter, c.type \in NodeCommands
    <2> QED
      BY ONLY <2>2 DEF NodeRan
  <1>9. z.finished \in Int
    BY <1>0, <1>5, <1>8 DEF FrameRecord
  <1>10. finished[n] =< z.finished /\ z.finished =< pipe[n].finished
    BY <1>5, <1>6, <1>8, <1>9, <1>c
  <1>d. z.current =< sc
    <2>1. r.current =< sc
      BY <1>4 DEF Chain, r, sc
    <2> QED
      BY <1>8, <1>b, <2>1 DEF NodeAhead, NodeCommands
  <1>11. Chain(n)'
    BY <1>1, <1>3, <1>4, <1>8, <1>10, <1>d DEF Chain, fl, sc
  <1>12. Coming(n)'
    <2>1. \A f : Cmd("PSTART", f) # c
      BY DEF Cmd, NodeCommands
    <2>2. \A f \in pipe[n].current + 1..sc : Cmd("PSTART", f) \in PipeStream(n)'
      BY <1>4, <2>1 DEF Coming, Drops, sc
    <2>3. ASSUME NEW f \in z.current + 1..sc
          PROVE  Cmd("START", f) \in Stream(n)'
      <3>1. f \in r.current + 1..sc /\ Cmd("START", f) # c
        <4>1. CASE c.type = "START"
          <5>1. r.current < c.frame
            BY <1>b, <4>1 DEF NodeAhead
          <5> QED
            BY <1>5, <1>8, <2>3, <4>1, <5>1 DEF Cmd
        <4>2. CASE c.type # "START"
          BY <1>8, <2>3, <4>2 DEF Cmd
        <4> QED
          BY <4>1, <4>2
      <3> QED
        BY <1>4, <3>1 DEF Coming, Drops, sc, r
    <2> QED
      BY <1>1, <1>3, <2>2, <2>3 DEF Coming, sc
  <1>13. Replying(n)'
    <2>1. CASE c.type = "FINISH"
      <3>1. r.finished < c.frame /\ z.finished = c.frame
        BY <1>8, <1>b, <2>1 DEF NodeAhead, NodeCommands
      <3> DEFINE s == replies[n]
                 s2 == Append(s, c.frame)
      <3>2. replies'[n] = s2
        BY <1>a, <2>1, <3>1
      <3>3. /\ \A f \in In(s) : finished[n] < f /\ f =< r.finished
            /\ \A j, k \in 1..Len(s) : j < k => s[j] < s[k]
            /\ s \in Seq(Frames)
        BY <1>4, <1>5 DEF Replying, r
      <3> HIDE DEF s
      <3>4. /\ In(s2) = In(s) \cup {c.frame} /\ In(s) \subseteq Int
            /\ Len(s) \in Nat /\ Len(s2) = Len(s) + 1 /\ s2[Len(s) + 1] = c.frame
            /\ \A k \in 1..Len(s) : s2[k] = s[k] /\ s[k] \in In(s)
        <4>1. In(s) \subseteq Frames
          BY <3>3, InType
        <4>2. In(s2) = In(s) \cup {c.frame}
          BY <1>5, <3>3, InAppend
        <4>3. /\ Len(s) \in Nat /\ Len(s2) = Len(s) + 1 /\ s2[Len(s) + 1] = c.frame
              /\ \A k \in 1..Len(s) : s2[k] = s[k]
          BY <1>5, <3>3, AppendProperties, LenProperties
        <4>4. \A k \in 1..Len(s) : s[k] \in In(s)
          BY DEF In
        <4> QED
          BY <1>0, <4>1, <4>2, <4>3, <4>4
      <3> HIDE DEF s2
      <3>5. \A f \in In(s2) : finished[n] < f /\ f =< c.frame
        BY <1>5, <1>6, <3>1, <3>3, <3>4
      <3>6. ASSUME NEW j \in 1..Len(s2), NEW k \in 1..Len(s2), j < k
            PROVE  s2[j] < s2[k]
        <4>1. j \in 1..Len(s) /\ s2[j] = s[j] /\ s[j] \in In(s)
          BY <3>4, <3>6
        <4>2. CASE k \in 1..Len(s)
          BY <3>3, <3>4, <3>6, <4>1, <4>2
        <4>3. CASE k = Len(s) + 1
          BY <1>5, <3>1, <3>3, <3>4, <4>1, <4>3
        <4> QED
          BY <3>4, <4>2, <4>3
      <3> QED
        BY <1>1, <1>3, <3>1, <3>2, <3>5, <3>6 DEF Replying
    <2>2. CASE c.type # "FINISH"
      BY <1>1, <1>3, <1>4, <1>8, <1>a, <2>2 DEF Replying, r
    <2> QED
      BY <2>1, <2>2
  <1>14. \A x \in Stream(n)' : NodeAhead(x, z, sc, fl)
    BY <1>4, <1>5, <1>8 DEF Drops, AllFollow
  <1>15. \A x \in PipeStream(n)' : PipeAhead(x, pipe[n], sc)
    BY <1>4 DEF Drops
  <1> QED
    BY <1>1, <1>2, <1>3, <1>4, <1>11, <1>12, <1>13, <1>14, <1>15 DEF RunningInv, sc, fl
-----------------------------------------------------------------------------
(* The steps of the render clients.                                        *)

(* Commands of a stopped node are not under way.                           *)
LEMMA TaskOfRunning ==
    ASSUME StoppedInv, NEW n \in Nodes, NEW c \in Stream(n) \cup In(pipeQ[n]),
           c \in Stream(n) => c.type \in Tasks
    PROVE  n \in running
  <1>1. CASE c \in Stream(n)
    BY <1>1 DEF StoppedInv
  <1>2. CASE c \in In(pipeQ[n])
    BY <1>2, InOne DEF StoppedInv
  <1> QED
    BY <1>1, <1>2

(* Streams that shrink keep their order and place.                         *)
LEMMA StoppedShrinks ==
    ASSUME StoppedInv, Placed, running' = running, setup' = setup,
           \A m \in Nodes : Stream(m)' \subseteq Stream(m),
           \A m \in Nodes : pipeQ[m] = <<>> => pipeQ'[m] = <<>>,
           \A m \in Nodes \ running : replies'[m] = replies[m]
    PROVE  StoppedInv' /\ Placed'
  <1>1. StoppedInv'
    BY DEF StoppedInv
  <1>2. Placed'
    BY DEF Placed
  <1> QED
    BY <1>1, <1>2

(* The pipe of the local node goes on.                                     *)
LEMMA LocalKept ==
    ASSUME Types, Types', LocalInv, UNCHANGED <<setup, running>>,
           server'.current = server.current, app'.unlocked = app.unlocked,
           app'.current = app.current,
           app'.pc \notin {"started", "unlock"} => app.pc \notin {"started", "unlock"},
           In(mainQ') \cup In(toApp') \subseteq In(mainQ) \cup In(toApp),
           \A m \in Nodes : pipe[m].unlocked =< pipe'[m].unlocked
    PROVE  LocalInv'
  <1>1. /\ pipe[AppNode].unlocked \in Int /\ pipe'[AppNode].unlocked \in Int
        /\ pipe[AppNode].unlocked =< pipe'[AppNode].unlocked /\ Frames \subseteq Int
    BY SetupFields, NodeFields DEF Types, FrameRecord
  <1>2. /\ \A x \in In(mainQ) \cup In(toApp) : x.frame \in Int
        /\ app.unlocked \in Int /\ app.current \in Int
    <2>1. In(mainQ) \subseteq MainCommand /\ In(toApp) \subseteq AppCommand
      BY InType DEF Types
    <2>2. app \in AppRecord
      BY DEF Types
    <2> QED
      BY <1>1, <2>1, <2>2 DEF MainCommand, AppCommand, AppRecord
  <1>3. Synced' <=> Synced
    BY DEF Synced
  <1> QED
    BY <1>1, <1>2, <1>3 DEF LocalInv

(* A command of a render client's node.                                    *)
LEMMA NodeStepKeeps ==
    ASSUME Types, Types', FrameInv, NEW n \in Nodes, NodeStep(n)
    PROVE  FrameInv'
  <1> DEFINE c == Head(nodeQ[n])
  <1>1. /\ n # AppNode /\ nodeQ[n] # <<>> /\ Runnable(n, c)
        /\ nodeQ' = [nodeQ EXCEPT ![n] = Tail(nodeQ[n])]
        /\ UNCHANGED <<setup, appVars, toApp, serverVars, toServer, pipeQ>>
    BY DEF NodeStep
  <1>2. /\ c.type \in PipeCommands => RunPipe(n, c) /\ UNCHANGED <<node, replies>>
        /\ c.type \notin PipeCommands => RunNode(n, c) /\ UNCHANGED pipe
    BY DEF NodeStep
  <1>3. /\ app' = app /\ mainQ' = mainQ /\ receiver' = receiver /\ toApp' = toApp
        /\ server' = server /\ notify' = notify /\ active' = active /\ running' = running
        /\ flushed' = flushed /\ finished' = finished /\ frameIDs' = frameIDs
        /\ pipeQ' = pipeQ /\ setup' = setup /\ toServer' = toServer
    BY <1>1 DEF appVars, serverVars
  <1>4. nodeQ[n] \in Seq(NodeCommand) /\ nodeQ'[n] = Tail(nodeQ[n])
    BY <1>1 DEF Types
  <1>5. /\ c \in NodeCommand /\ In(nodeQ[n]) = In(nodeQ'[n]) \cup {c}
        /\ Ordered(nodeQ'[n]) /\ \A y \in In(nodeQ'[n]) : Follows(c, y)
    BY <1>1, <1>4, InTail, OrderedTail DEF FrameInv, InOrder
  <1>6. \A m \in Nodes \ {n} : nodeQ'[m] = nodeQ[m]
    BY <1>1 DEF Types
  <1>7. Stream(n) = In(nodeQ[n]) /\ Stream(n)' = In(nodeQ'[n])
    BY <1>1 DEF Stream
  <1> HIDE DEF c
  <1>8. c \in Stream(n) /\ c.type \in Tasks /\ n \in running
    <2>1. c.type \in Tasks /\ c \in Stream(n)
      BY <1>5, <1>7 DEF NodeCommand
    <2> QED
      BY <2>1, TaskOfRunning DEF FrameInv
  <1>9. OnlyStreamsOf(n)
    BY <1>3, <1>6 DEF OnlyStreamsOf, Stream, PipeStream
  <1>10. Drops(Stream(n), Stream(n)', c) /\ AllFollow(c, Stream(n)')
    BY <1>5, <1>7 DEF Drops, AllFollow
  <1>11. setup.threaded[n] => c.type \notin PipeCommands
    BY <1>8 DEF FrameInv, Placed
  <1>12. Drops(PipeStream(n), PipeStream(n)', c)
    BY <1>3, <1>10 DEF Drops, PipeStream
  <1>13. /\ RunningInv' /\ pipe'[AppNode] = pipe[AppNode]
         /\ \A m \in Nodes \ {n} : replies'[m] = replies[m]
    <2>1. CASE c.type \in PipeCommands
      <3>1. c \in PipeStream(n) /\ AllFollow(c, PipeStream(n)')
        BY <1>3, <1>8, <1>10, <1>11, <2>1 DEF PipeStream
      <3>2. RunningInv'
        BY <1>1, <1>2, <1>8, <1>9, <1>10, <1>12, <2>1, <3>1, PipeTaskRuns DEF FrameInv
      <3>3. pipe'[AppNode] = pipe[AppNode] /\ replies' = replies
        BY <1>1, <1>2, <2>1, FrameLoopAssumption DEF RunPipe, Types
      <3> QED
        BY <3>2, <3>3
    <2>2. CASE c.type \notin PipeCommands
      <3>1. c.type \in NodeCommands
        BY <1>8, <2>2 DEF Tasks
      <3>2. RunningInv'
        BY <1>1, <1>2, <1>8, <1>9, <1>10, <1>12, <2>2, <3>1, NodeTaskRuns DEF FrameInv
      <3>3. pipe' = pipe /\ \A m \in Nodes \ {n} : replies'[m] = replies[m]
        BY <1>2, <2>2 DEF RunNode, Types
      <3> QED
        BY <3>2, <3>3
    <2> QED
      BY <2>1, <2>2
  <1>14. InOrder'
    BY <1>3, <1>5, <1>6 DEF FrameInv, InOrder
  <1>15. StoppedInv' /\ Placed'
    <2>1. \A m \in Nodes : Stream(m)' \subseteq Stream(m)
      BY <1>9, <1>10 DEF OnlyStreamsOf, Drops
    <2> QED
      BY <1>3, <1>8, <1>13, <2>1, StoppedShrinks DEF FrameInv
  <1>16. NotifyInv' /\ ToldInv'
    BY <1>3 DEF FrameInv, NotifyInv, ToldInv, Latency
  <1>17. UpdateInv' /\ RequestInv'
    BY <1>3 DEF FrameInv, UpdateInv, RequestInv, Answering, Replied
  <1>18. LocalInv'
    BY <1>3, <1>13 DEF FrameInv, LocalInv, Synced
  <1> QED
    BY <1>13, <1>14, <1>15, <1>16, <1>17, <1>18 DEF FrameInv

(* A command of a threaded pipe.                                           *)
LEMMA PipeStepKeeps ==
    ASSUME Types, Types', FrameInv, NEW n \in Nodes, PipeStep(n)
    PROVE  FrameInv'
  <1> DEFINE c == Head(pipeQ[n])
  <1>1. /\ pipeQ[n] # <<>> /\ Runnable(n, c) /\ RunPipe(n, c)
        /\ pipeQ' = [pipeQ EXCEPT ![n] = Tail(pipeQ[n])]
        /\ UNCHANGED <<setup, appVars, toApp, serverVars, toServer, nodeQ, node, replies>>
    BY DEF PipeStep
  <1>3. /\ app' = app /\ mainQ' = mainQ /\ receiver' = receiver /\ toApp' = toApp
        /\ server' = server /\ notify' = notify /\ active' = active /\ running' = running
        /\ flushed' = flushed /\ finished' = finished /\ frameIDs' = frameIDs
        /\ nodeQ' = nodeQ /\ setup' = setup /\ toServer' = toServer
        /\ node' = node /\ replies' = replies
    BY <1>1 DEF appVars, serverVars
  <1>4. pipeQ[n] \in Seq(PipeCommand) /\ pipeQ'[n] = Tail(pipeQ[n])
    BY <1>1 DEF Types
  <1>5. /\ c \in PipeCommand /\ In(pipeQ[n]) = In(pipeQ'[n]) \cup {c}
        /\ Ordered(pipeQ'[n]) /\ \A y \in In(pipeQ'[n]) : Follows(c, y)
    BY <1>1, <1>4, InTail, OrderedTail DEF FrameInv, InOrder
  <1>6. \A m \in Nodes \ {n} : pipeQ'[m] = pipeQ[m]
    BY <1>1 DEF Types
  <1>7. setup.threaded[n] /\ PipeStream(n) = In(pipeQ[n]) /\ PipeStream(n)' = In(pipeQ'[n])
    BY <1>1, <1>3 DEF PipeStream, FrameInv, Placed
  <1> HIDE DEF c
  <1>8. c \in PipeStream(n) /\ c.type \in PipeCommands /\ n \in running
    <2>1. c.type \in PipeCommands /\ c \in In(pipeQ[n])
      BY <1>5 DEF PipeCommand
    <2>2. c.type \in Tasks
      BY <2>1 DEF Tasks
    <2> QED
      BY <1>7, <2>1, <2>2, TaskOfRunning DEF FrameInv
  <1>9. \A m \in Nodes : Stream(m)' = Stream(m)
    BY <1>3 DEF Stream
  <1>10. OnlyStreamsOf(n)
    BY <1>3, <1>6, <1>9 DEF OnlyStreamsOf, PipeStream
  <1>11. /\ Drops(Stream(n), Stream(n)', c)
         /\ Drops(PipeStream(n), PipeStream(n)', c) /\ AllFollow(c, PipeStream(n)')
    BY <1>5, <1>7, <1>9 DEF Drops, AllFollow
  <1>12. RunningInv' /\ \A m \in Nodes : pipe[m].unlocked =< pipe'[m].unlocked
    BY <1>1, <1>3, <1>8, <1>10, <1>11, PipeTaskRuns DEF FrameInv
  <1>13. InOrder'
    BY <1>3, <1>5, <1>6 DEF FrameInv, InOrder
  <1>14. StoppedInv' /\ Placed'
    <2>1. \A m \in Nodes : pipeQ[m] = <<>> => pipeQ'[m] = <<>>
      BY <1>1, <1>6
    <2> QED
      BY <1>3, <1>9, <2>1, StoppedShrinks DEF FrameInv
  <1>15. NotifyInv' /\ ToldInv'
    BY <1>3 DEF FrameInv, NotifyInv, ToldInv, Latency
  <1>16. UpdateInv' /\ RequestInv'
    BY <1>3 DEF FrameInv, UpdateInv, RequestInv, Answering, Replied
  <1>17. LocalInv'
    BY <1>3, <1>12, LocalKept DEF FrameInv
  <1> QED
    BY <1>12, <1>13, <1>14, <1>15, <1>16, <1>17 DEF FrameInv
-----------------------------------------------------------------------------
(* The steps of the application.                                           *)

(* The same commands of nodes and pipes are under way.                     *)
SameTasks ==
    \A m \in Nodes : \A x : x.type \in Tasks => (x \in Stream(m)' <=> x \in Stream(m))

(* Commands that are not frame tasks (answers, releases) come and go without*)
(* a node noticing.                                                        *)
LEMMA SameTasksKeep ==
    ASSUME RunningInv, StoppedInv, Placed, SameTasks, running \subseteq Nodes,
           UNCHANGED <<setup, running, flushed, finished, frameIDs, node, pipe, pipeQ, replies>>,
           server'.current = server.current, server'.finished = server.finished
    PROVE  RunningInv' /\ StoppedInv' /\ Placed'
  <1>1. \A m \in Nodes : \A x : x.type \in Tasks => (x \in PipeStream(m)' <=> x \in PipeStream(m))
    BY DEF SameTasks, PipeStream
  <1>2. Placed'
    <2>1. \A m \in Nodes : \A x : x.type \in PipeCommands => (x \in Stream(m)' <=> x \in Stream(m))
      BY DEF SameTasks, Tasks
    <2> QED
      BY <2>1 DEF Placed
  <1>3. StoppedInv'
    BY DEF StoppedInv, SameTasks
  <1>4. ASSUME NEW m \in running
        PROVE  /\ Chain(m)' /\ Coming(m)' /\ Replying(m)'
               /\ frameIDs'[m] = flushed'[m] + 1..server'.current
               /\ \A x \in Stream(m)' : NodeAhead(x, node'[m], server'.current, flushed'[m])
               /\ \A x \in PipeStream(m)' : PipeAhead(x, pipe'[m], server'.current)
    <2>1. /\ Chain(m) /\ Coming(m) /\ Replying(m)
          /\ frameIDs[m] = flushed[m] + 1..server.current
          /\ \A x \in Stream(m) : NodeAhead(x, node[m], server.current, flushed[m])
          /\ \A x \in PipeStream(m) : PipeAhead(x, pipe[m], server.current)
      BY DEF RunningInv
    <2>2. Chain(m)' /\ Replying(m)' /\ frameIDs'[m] = flushed'[m] + 1..server'.current
      BY <2>1 DEF Chain, Replying
    <2>3. \A f : Cmd("START", f).type \in Tasks /\ Cmd("PSTART", f).type \in Tasks
      BY DEF Cmd, Tasks, NodeCommands, PipeCommands
    <2>4. Coming(m)'
      <3>1. \A f \in node[m].current + 1..server.current : Cmd("START", f) \in Stream(m)'
        BY <2>1, <2>3 DEF Coming, SameTasks
      <3>2. \A f \in pipe[m].current + 1..server.current : Cmd("PSTART", f) \in PipeStream(m)'
        BY <1>1, <2>1, <2>3 DEF Coming
      <3> QED
        BY <3>1, <3>2 DEF Coming
    <2>5. \A x \in Stream(m)' : NodeAhead(x, node[m], server.current, flushed[m])
      <3> SUFFICES ASSUME NEW x \in Stream(m)'
                   PROVE  NodeAhead(x, node[m], server.current, flushed[m])
        OBVIOUS
      <3>1. CASE x.type \in Tasks
        BY <2>1, <3>1 DEF SameTasks
      <3>2. CASE x.type \notin Tasks
        BY <3>2 DEF NodeAhead, Tasks, NodeCommands
      <3> QED
        BY <3>1, <3>2
    <2>6. \A x \in PipeStream(m)' : PipeAhead(x, pipe[m], server.current)
      <3> SUFFICES ASSUME NEW x \in PipeStream(m)'
                   PROVE  PipeAhead(x, pipe[m], server.current)
        OBVIOUS
      <3>1. CASE x.type \in Tasks
        BY <1>1, <2>1, <3>1
      <3>2. CASE x.type \notin Tasks
        BY <3>2 DEF PipeAhead, Tasks, PipeCommands
      <3> QED
        BY <3>1, <3>2
    <2> QED
      BY <2>2, <2>4, <2>5, <2>6
  <1>5. RunningInv'
    BY <1>4 DEF RunningInv
  <1> QED
    BY <1>2, <1>3, <1>5

(* The application's fields.                                               *)
LEMMA AppFields ==
    ASSUME Types
    PROVE  /\ app.unlocked \in Int /\ app.current \in Int /\ app.finished \in Int
           /\ app.current \in Frames /\ app.finished \in Frames
           /\ server.current \in Int /\ server.finished \in Int /\ Latency \in Int
           /\ \A x \in In(mainQ) : x \in MainCommand /\ x.frame \in Int /\ x.type \in MainTypes
           /\ \A x \in In(toApp) : x \in AppCommand /\ x.frame \in Int
           /\ running \subseteq Nodes
  <1>1. In(mainQ) \subseteq MainCommand /\ In(toApp) \subseteq AppCommand
    BY InType DEF Types
  <1>2. app \in AppRecord /\ server \in ServerRecord /\ running \subseteq Nodes
    BY DEF Types
  <1>3. Frames \subseteq Int /\ Latency \in Nat
    BY SetupFields
  <1>4. /\ app.unlocked \in Frames /\ app.current \in Frames /\ app.finished \in Frames
        /\ server.current \in Frames /\ server.finished \in Frames
    BY <1>2 DEF AppRecord, ServerRecord
  <1>5. \A x \in MainCommand : x.frame \in Frames /\ x.type \in MainTypes
    BY DEF MainCommand
  <1>6. \A x \in AppCommand : x.frame \in Frames
    BY DEF AppCommand
  <1>7. /\ app.unlocked \in Int /\ app.current \in Int /\ app.finished \in Int
        /\ server.current \in Int /\ server.finished \in Int
    BY <1>3, <1>4
  <1>a. Latency \in Int
    <2>1. \A k \in Nat : k \in Int
      OBVIOUS
    <2> QED
      BY ONLY <1>3, <2>1, Zenon
  <1>8. \A x \in In(mainQ) : x \in MainCommand /\ x.frame \in Int /\ x.type \in MainTypes
    BY <1>1, <1>3, <1>5
  <1>9. \A x \in In(toApp) : x \in AppCommand /\ x.frame \in Int
    BY <1>1, <1>3, <1>6
  <1> QED
    BY <1>2, <1>4, <1>7, <1>8, <1>9, <1>a

(* The main thread takes a command of its own from the queue.              *)
LEMMA OwnCommandKeeps ==
    ASSUME Types, Types', FrameInv, ProcessCommand, Head(mainQ).type \notin Tasks
    PROVE  FrameInv'
  <1> DEFINE c == Head(mainQ)
  <1>1. /\ mainQ # <<>> /\ mainQ' = Tail(mainQ)
        /\ UNCHANGED <<setup, receiver, toApp, serverVars, toServer, nodeQ, pipeQ>>
    BY DEF ProcessCommand
  <1>2. /\ toApp' = toApp /\ running' = running
        /\ server' = server /\ notify' = notify /\ active' = active
        /\ flushed' = flushed /\ finished' = finished /\ frameIDs' = frameIDs
        /\ nodeQ' = nodeQ /\ pipeQ' = pipeQ /\ setup' = setup /\ toServer' = toServer
    BY <1>1 DEF serverVars
  <1>3. /\ c \in MainCommand /\ In(mainQ) = In(mainQ') \cup {c}
        /\ Ordered(mainQ') /\ \A y \in In(mainQ') : Follows(c, y)
    BY <1>1, InTail, OrderedTail DEF FrameInv, InOrder, Types
  <1>4. c.type \in {"WAKEUP", "UPDATE_REPLY", "RELEASE_LOCAL"} /\ c.frame \in Int
    BY <1>3, SetupFields DEF MainCommand, MainTypes
  <1>5. /\ UNCHANGED <<node, pipe, replies>>
        /\ c.type = "WAKEUP" => app' = [app EXCEPT !.popping = FALSE]
        /\ c.type = "UPDATE_REPLY" => app' = [app EXCEPT !.popping = FALSE, !.served = TRUE]
        /\ c.type = "RELEASE_LOCAL" => app' = [app EXCEPT !.popping = FALSE, !.unlocked = c.frame]
    BY <1>4 DEF ProcessCommand, NodeCommands, PipeCommands
  <1>6. app \in AppRecord
    BY DEF Types
  <1>7. /\ app'.pc = app.pc /\ app'.current = app.current /\ app'.finished = app.finished
        /\ app'.version = app.version
        /\ app'.unlocked = IF c.type = "RELEASE_LOCAL" THEN c.frame ELSE app.unlocked
        /\ c.type # "UPDATE_REPLY" => app'.served = app.served
    BY <1>4, <1>5, <1>6 DEF AppRecord
  <1> HIDE DEF c
  <1>8. SameTasks
    BY <1>2, <1>3, <1>4 DEF SameTasks, Stream, Tasks, NodeCommands, PipeCommands
  <1>9. RunningInv' /\ StoppedInv' /\ Placed'
    BY <1>2, <1>5, <1>8, AppFields, SameTasksKeep DEF FrameInv
  <1>10. InOrder'
    BY <1>2, <1>3 DEF FrameInv, InOrder
  <1>11. NotifyInv' /\ ToldInv'
    BY <1>2, <1>7 DEF FrameInv, NotifyInv, ToldInv, Latency
  <1>12. RequestInv'
    BY <1>2, <1>7 DEF FrameInv, RequestInv
  <1>13. UpdateInv'
    <2>1. UpdateInv /\ (Answering' <=> Answering) /\ (Replied' => Replied)
      BY <1>2, <1>3 DEF FrameInv, Answering, Replied
    <2>2. CASE c.type # "UPDATE_REPLY"
      BY <1>2, <1>7, <2>1, <2>2 DEF UpdateInv
    <2>3. CASE c.type = "UPDATE_REPLY"
      <3>1. Replied
        BY <1>3, <2>3 DEF Replied
      <3>2. ~Replied'
        <4>1. \A y \in In(mainQ') : y.type # "UPDATE_REPLY"
          BY <1>3, <2>3 DEF Follows
        <4>2. \A y \in In(toApp) : Follows(c, y)
          BY <1>3 DEF FrameInv, InOrder
        <4> QED
          BY <1>2, <2>3, <4>1, <4>2 DEF Follows, Replied
      <3>3. app.pc = "reply" /\ ~server.acked /\ server.pc = "idle"
        BY <2>1, <3>1 DEF UpdateInv
      <3> QED
        BY <1>2, <1>7, <2>1, <3>2, <3>3 DEF UpdateInv
    <2> QED
      BY <2>2, <2>3
  <1>14. LocalInv'
    <2>1. LocalInv /\ (Synced' <=> Synced)
      BY <1>2 DEF FrameInv, Synced
    <2>2. In(mainQ') \subseteq In(mainQ) /\ c \in In(mainQ)
      BY <1>3
    <2>3. /\ app'.unlocked =< server.current
          /\ Synced => app'.unlocked =< pipe[AppNode].unlocked
      BY <1>7, <2>1, <2>2 DEF LocalInv
    <2> QED
      BY <1>2, <1>5, <1>7, <2>1, <2>2, <2>3 DEF LocalInv
  <1> QED
    BY <1>9, <1>10, <1>11, <1>12, <1>13, <1>14 DEF FrameInv
(* What a command releases locally has been released by the pipe.          *)
LEMMA ReleasedByPipe ==
    ASSUME NEW n, NEW c, Runnable(n, c), Unlocks(n, c) \/ c.type = "FINISH",
           c.type \in NodeCommands, setup.draws[n], setup.model[n] # "ASYNC"
    PROVE  c.frame =< pipe[n].unlocked
  <1>1. CASE c.type = "START"
    BY <1>1 DEF Unlocks
  <1>2. CASE c.type = "DRAW"
    BY <1>2 DEF Unlocks, Runnable
  <1>3. CASE c.type = "TASKS"
    BY <1>3 DEF Unlocks, Runnable
  <1>4. CASE c.type = "FINISH"
    BY <1>4 DEF Runnable
  <1> QED
    BY <1>1, <1>2, <1>3, <1>4 DEF NodeCommands

(* A command of the node in the application's process: what it leaves.     *)
LEMMA LocalCommandRest ==
    ASSUME Types, FrameInv, ProcessCommand, Head(mainQ).type \in Tasks, RunningInv', LocalInv'
    PROVE  FrameInv'
  <1> DEFINE c == Head(mainQ)
  <1>1. /\ mainQ # <<>> /\ mainQ' = Tail(mainQ)
        /\ UNCHANGED <<setup, receiver, toApp, serverVars, toServer, nodeQ, pipeQ>>
    BY DEF ProcessCommand
  <1>2. /\ toApp' = toApp /\ running' = running
        /\ server' = server /\ notify' = notify /\ active' = active
        /\ finished' = finished
        /\ nodeQ' = nodeQ /\ pipeQ' = pipeQ /\ setup' = setup /\ toServer' = toServer
    BY <1>1 DEF serverVars
  <1>3. /\ c \in MainCommand /\ In(mainQ) = In(mainQ') \cup {c} /\ Ordered(mainQ')
    BY <1>1, InTail, OrderedTail DEF FrameInv, InOrder, Types
  <1>4. c.type \in Tasks /\ AppNode \in Nodes
    BY FrameLoopAssumption
  <1>5. \/ /\ RunPipe(AppNode, c) /\ app' = [app EXCEPT !.popping = FALSE]
           /\ UNCHANGED <<node, replies>>
        \/ /\ RunNode(AppNode, c)
           /\ \/ app' = [app EXCEPT !.popping = FALSE, !.unlocked = c.frame]
              \/ app' = [app EXCEPT !.popping = FALSE]
    BY <1>4 DEF ProcessCommand, Tasks, NodeCommands, PipeCommands
  <1>6. app \in AppRecord
    BY DEF Types
  <1>7. /\ app'.pc = app.pc /\ app'.current = app.current /\ app'.finished = app.finished
        /\ app'.version = app.version /\ app'.served = app.served
    BY <1>5, <1>6 DEF AppRecord
  <1> HIDE DEF c
  <1>8. AppNode \in running
    <2>1. c \in Stream(AppNode)
      BY <1>3 DEF Stream
    <2> QED
      BY <1>4, <2>1, TaskOfRunning DEF FrameInv
  <1>9. \A m \in Nodes \ running : replies'[m] = replies[m]
    BY <1>5, <1>8 DEF RunNode, Types
  <1>10. \A m \in Nodes : Stream(m)' \subseteq Stream(m)
    BY <1>2, <1>3 DEF Stream
  <1>11. StoppedInv' /\ Placed'
    BY <1>2, <1>9, <1>10, StoppedShrinks DEF FrameInv
  <1>12. InOrder'
    BY <1>2, <1>3 DEF FrameInv, InOrder
  <1>13. NotifyInv' /\ ToldInv'
    BY <1>2, <1>7 DEF FrameInv, NotifyInv, ToldInv, Latency
  <1>14. RequestInv'
    BY <1>2, <1>7 DEF FrameInv, RequestInv
  <1>15. UpdateInv'
    <2>1. UpdateInv /\ (Answering' <=> Answering) /\ (Replied' => Replied)
      BY <1>2, <1>3 DEF FrameInv, Answering, Replied
    <2> QED
      BY <1>2, <1>7, <2>1 DEF UpdateInv
  <1> QED
    BY <1>11, <1>12, <1>13, <1>14, <1>15 DEF FrameInv

(* The main thread runs a command of the node in its process.              *)
LEMMA LocalCommandKeeps ==
    ASSUME Types, Types', FrameInv, ProcessCommand, Head(mainQ).type \in Tasks
    PROVE  FrameInv'
  <1> DEFINE c == Head(mainQ)
             n == AppNode
  <1>1. /\ mainQ # <<>> /\ mainQ' = Tail(mainQ)
        /\ UNCHANGED <<setup, receiver, toApp, serverVars, toServer, nodeQ, pipeQ>>
    BY DEF ProcessCommand
  <1>2. /\ toApp' = toApp /\ running' = running
        /\ server' = server /\ notify' = notify /\ active' = active
        /\ flushed' = flushed /\ finished' = finished /\ frameIDs' = frameIDs
        /\ nodeQ' = nodeQ /\ pipeQ' = pipeQ /\ setup' = setup /\ toServer' = toServer
    BY <1>1 DEF serverVars
  <1>3. /\ c \in MainCommand /\ In(mainQ) = In(mainQ') \cup {c}
        /\ Ordered(mainQ') /\ \A y \in In(mainQ') : Follows(c, y)
    BY <1>1, InTail, OrderedTail DEF FrameInv, InOrder, Types
  <1>4. c.type \in Tasks /\ n \in Nodes
    BY FrameLoopAssumption
  <1>5. /\ c.type \in PipeCommands =>
              /\ Runnable(n, c) /\ RunPipe(n, c) /\ app' = [app EXCEPT !.popping = FALSE]
              /\ UNCHANGED <<node, replies>>
        /\ c.type \in NodeCommands =>
              /\ Runnable(n, c) /\ RunNode(n, c) /\ UNCHANGED pipe
              /\ app' = IF node'[n].unlocked # node[n].unlocked
                        THEN [app EXCEPT !.popping = FALSE, !.unlocked = c.frame]
                        ELSE [app EXCEPT !.popping = FALSE]
    BY <1>4 DEF ProcessCommand, Tasks, NodeCommands, PipeCommands
  <1>6. app \in AppRecord
    BY DEF Types
  <1>7. /\ app'.pc = app.pc /\ app'.current = app.current /\ app'.finished = app.finished
        /\ app'.version = app.version /\ app'.served = app.served
        /\ \/ app'.unlocked = app.unlocked
           \/ /\ c.type \in NodeCommands /\ node'[n].unlocked # node[n].unlocked
              /\ app'.unlocked = c.frame
    BY <1>4, <1>5, <1>6 DEF AppRecord, Tasks
  <1> HIDE DEF c
  <1>8. Stream(n) = In(mainQ) \cup In(toApp) /\ Stream(n)' = In(mainQ') \cup In(toApp)
    BY <1>2 DEF Stream
  <1>9. c \in Stream(n) /\ n \in running
    BY <1>3, <1>4, <1>8, TaskOfRunning DEF FrameInv
  <1>10. OnlyStreamsOf(n)
    BY <1>2 DEF OnlyStreamsOf, Stream, PipeStream
  <1>11. Drops(Stream(n), Stream(n)', c) /\ AllFollow(c, Stream(n)')
    <2>1. \A y \in In(toApp) : Follows(c, y)
      BY <1>3 DEF FrameInv, InOrder
    <2> QED
      BY <1>3, <1>8, <2>1 DEF Drops, AllFollow
  <1>12. setup.threaded[n] => c.type \notin PipeCommands
    BY <1>4, <1>9 DEF FrameInv, Placed
  <1>13. Drops(PipeStream(n), PipeStream(n)', c)
    BY <1>2, <1>11 DEF Drops, PipeStream
  <1> HIDE DEF n
  <1>14. CASE c.type \in PipeCommands
    <2>1. c \in PipeStream(n) /\ AllFollow(c, PipeStream(n)')
      BY <1>2, <1>9, <1>11, <1>12, <1>14 DEF PipeStream
    <2>2. RunningInv' /\ \A m \in Nodes : pipe[m].unlocked =< pipe'[m].unlocked
      BY <1>1, <1>5, <1>9, <1>10, <1>11, <1>13, <1>14, <2>1, PipeTaskRuns DEF FrameInv
    <2>3. app'.unlocked = app.unlocked
      BY <1>7, <1>14 DEF NodeCommands, PipeCommands
    <2>4. LocalInv'
      BY <1>2, <1>3, <1>7, <2>2, <2>3, LocalKept DEF FrameInv
    <2> QED
      BY <1>5, <1>14, <2>2, <2>4, LocalCommandRest DEF n, c
  <1>15. CASE c.type \in NodeCommands
    <2>2. RunningInv'
      BY <1>1, <1>5, <1>9, <1>10, <1>11, <1>13, <1>15, NodeTaskRuns DEF FrameInv
    <2>4. LocalInv'
      <3>1. CASE app'.unlocked = app.unlocked
        BY <1>2, <1>3, <1>5, <1>7, <1>15, <3>1 DEF FrameInv, LocalInv, Synced
      <3>2. CASE app'.unlocked # app.unlocked
        <4>1. app'.unlocked = c.frame /\ node'[n].unlocked # node[n].unlocked
          BY <1>7, <3>2
        <4> DEFINE r == node[n]
                   sc == server.current
                   fl == flushed[n]
        <4>2. NodeAhead(c, r, sc, fl) /\ r.finished =< fl
          BY <1>9 DEF FrameInv, RunningInv, Chain
        <4>3. r \in FrameRecord /\ sc \in Int /\ fl \in Int /\ Frames \subseteq Int
          BY <1>4, SetupFields, NodeFields
        <4>4. c.frame \in Frames
          BY <1>3 DEF MainCommand
        <4>5. node'[n] = After(n, c, r)
          BY <1>4, <1>5, <1>15 DEF RunNode, Types
        <4> HIDE DEF r, sc, fl
        <4>6. NodeRan(n, c, r, node'[n], sc, fl)
          BY ONLY <1>15, <4>2, <4>3, <4>4, <4>5, NodeAfter
        <4>7. Unlocks(n, c) \/ c.type = "FINISH"
          BY <4>1, <4>6 DEF NodeRan, r
        <4>8. c.frame =< server.current
          BY <1>15, <4>2 DEF NodeAhead, sc
        <4>9. Synced => c.frame =< pipe[n].unlocked
          BY <1>5, <1>15, <4>7, ReleasedByPipe DEF Synced, n
        <4> QED
          BY <1>2, <1>3, <1>5, <1>7, <1>15, <4>1, <4>8, <4>9 DEF FrameInv, LocalInv, Synced, n
      <3> QED
        BY <3>1, <3>2
    <2> QED
      BY <1>5, <1>15, <2>2, <2>4, LocalCommandRest DEF n, c
  <1> QED
    BY <1>4, <1>14, <1>15 DEF Tasks

-----------------------------------------------------------------------------
(* The receiver thread.                                                    *)

(* The commands of the main thread are where they were, queued or in the   *)
(* stream.                                                                 *)
SameMain ==
    \A x : x.type \in Tasks \cup {"UPDATE_REPLY", "RELEASE_LOCAL"} =>
              (x \in In(mainQ') \cup In(toApp') <=> x \in In(mainQ) \cup In(toApp))

(* What the receiver thread does not touch.                                *)
LEMMA ReceiverRest ==
    ASSUME Types, FrameInv, SameMain, UNCHANGED <<setup, serverVars, toServer, clientVars>>,
           app'.current = app.current
    PROVE  /\ RunningInv' /\ StoppedInv' /\ Placed' /\ NotifyInv' /\ RequestInv'
           /\ Replied' <=> Replied
  <1>1. /\ running' = running
        /\ server' = server /\ notify' = notify /\ active' = active
        /\ flushed' = flushed /\ finished' = finished /\ frameIDs' = frameIDs
        /\ nodeQ' = nodeQ /\ pipeQ' = pipeQ /\ setup' = setup /\ toServer' = toServer
        /\ node' = node /\ pipe' = pipe /\ replies' = replies
    BY DEF serverVars, clientVars
  <1>2. SameTasks
    BY <1>1 DEF SameTasks, SameMain, Stream
  <1>3. RunningInv' /\ StoppedInv' /\ Placed'
    BY <1>1, <1>2, AppFields, SameTasksKeep DEF FrameInv
  <1>4. NotifyInv' /\ RequestInv'
    BY <1>1 DEF FrameInv, NotifyInv, RequestInv
  <1>5. Replied' <=> Replied
    BY DEF SameMain, Replied
  <1> QED
    BY <1>3, <1>4, <1>5

(* The receiver thread takes a command from the stream.                    *)
LEMMA ReceiveKeeps ==
    ASSUME Types, Types', FrameInv, Receive
    PROVE  FrameInv'
  <1> DEFINE c == Head(toApp)
  <1>1. /\ toApp # <<>> /\ toApp' = Tail(toApp)
        /\ UNCHANGED <<setup, serverVars, toServer, clientVars>>
    BY DEF Receive
  <1>2. \/ /\ c.type \in AnswerTypes
           /\ app' = [app EXCEPT !.version = c.type] /\ mainQ' = mainQ
        \/ /\ c.type = "FRAME_FINISH"
           /\ app' = [app EXCEPT !.finished = c.frame]
           /\ mainQ' = mainQ \/ mainQ' = Append(mainQ, WAKEUP)
        \/ /\ c.type \notin AnswerTypes \cup {"FRAME_FINISH"}
           /\ mainQ' = Append(mainQ, c) /\ app' = app
    BY DEF Receive, AnswerTypes
  <1>3. /\ c \in AppCommand /\ In(toApp) = In(toApp') \cup {c}
        /\ Ordered(toApp') /\ \A y \in In(toApp') : Follows(c, y)
    BY <1>1, InTail, OrderedTail DEF FrameInv, InOrder, Types
  <1>4. /\ mainQ \in Seq(MainCommand) /\ app \in AppRecord /\ WAKEUP \in MainCommand
    BY FrameLoopAssumption DEF Types, WAKEUP, MainCommand, MainTypes, Frames
  <1>5. /\ setup' = setup /\ toServer' = toServer /\ server' = server /\ nodeQ' = nodeQ
        /\ pipeQ' = pipeQ /\ pipe' = pipe /\ running' = running /\ finished' = finished
    BY <1>1 DEF serverVars, clientVars
  <1>6. /\ Ordered(mainQ) /\ \A x \in In(mainQ), y \in In(toApp) : Follows(x, y)
        /\ UpdateInv /\ ToldInv /\ LocalInv
        /\ \A m \in Nodes : Ordered(nodeQ[m]) /\ Ordered(pipeQ[m])
    BY DEF FrameInv, InOrder
  <1>7. \A x : Follows(x, WAKEUP) /\ Follows(WAKEUP, x)
    BY DEF Follows, WAKEUP, NodeCommands, PipeCommands, AnswerTypes
  <1> HIDE DEF c
  <1>a. \/ mainQ' = mainQ /\ c.type \in AnswerTypes \cup {"FRAME_FINISH"}
        \/ mainQ' = Append(mainQ, WAKEUP) /\ c.type = "FRAME_FINISH"
        \/ mainQ' = Append(mainQ, c) /\ c \in MainCommand
    <2>1. c.type \notin AnswerTypes \cup {"FRAME_FINISH"} => c \in MainCommand
      BY <1>3 DEF AppCommand, MainCommand
    <2> QED
      BY <1>2, <2>1
  <1>8. InOrder' /\ SameMain
    <2>1. CASE mainQ' = mainQ /\ c.type \in AnswerTypes \cup {"FRAME_FINISH"}
      <3>1. InOrder'
        BY <1>3, <1>5, <1>6, <2>1 DEF InOrder
      <3>2. SameMain
        BY <1>3, <2>1 DEF SameMain, AnswerTypes, Tasks, NodeCommands, PipeCommands
      <3> QED
        BY <3>1, <3>2
    <2>2. CASE mainQ' = Append(mainQ, WAKEUP) /\ c.type = "FRAME_FINISH"
      <3>1. In(mainQ') = In(mainQ) \cup {WAKEUP} /\ Ordered(mainQ')
        BY <1>4, <1>6, <1>7, <2>2, InAppend, OrderedAppend
      <3>2. InOrder'
        BY <1>3, <1>5, <1>6, <1>7, <3>1 DEF InOrder
      <3>3. SameMain
        BY <1>3, <2>2, <3>1 DEF SameMain, WAKEUP, Tasks, NodeCommands, PipeCommands
      <3> QED
        BY <3>2, <3>3
    <2>3. CASE mainQ' = Append(mainQ, c) /\ c \in MainCommand
      <3>1. In(mainQ') = In(mainQ) \cup {c} /\ Ordered(mainQ')
        BY <1>3, <1>4, <1>6, <2>3, InAppend, OrderedAppend
      <3>2. InOrder'
        BY <1>3, <1>5, <1>6, <3>1 DEF InOrder
      <3>3. SameMain
        BY <1>3, <3>1 DEF SameMain
      <3> QED
        BY <3>2, <3>3
    <2> QED
      BY <1>a, <2>1, <2>2, <2>3
  <1>9. /\ app'.pc = app.pc /\ app'.current = app.current /\ app'.unlocked = app.unlocked
        /\ app'.served = app.served
        /\ app'.version = IF c.type \in AnswerTypes THEN c.type ELSE app.version
        /\ app'.finished = IF c.type = "FRAME_FINISH" THEN c.frame ELSE app.finished
    BY <1>2, <1>4 DEF AppRecord, AnswerTypes
  <1>10. /\ RunningInv' /\ StoppedInv' /\ Placed' /\ NotifyInv' /\ RequestInv'
         /\ Replied' <=> Replied
    BY <1>1, <1>8, <1>9, ReceiverRest
  <1>11. ToldInv'
    <2>1. /\ \A x \in In(toApp) : x.frame \in Int
          /\ app.current \in Int /\ app.finished \in Int /\ server.finished \in Int
          /\ Latency \in Int /\ Latency' = Latency
      BY <1>5, AppFields DEF Latency
    <2>2. CASE c.type = "FRAME_FINISH"
      <3>1. app.finished =< c.frame /\ c.frame =< server.finished /\ c.frame \in Int
        BY <1>3, <1>6, <2>1, <2>2 DEF ToldInv
      <3>2. \A x \in In(toApp') : x.type = "FRAME_FINISH" =>
                c.frame =< x.frame /\ x.frame =< server.finished
        BY <1>3, <1>6, <2>2 DEF ToldInv, Follows
      <3>3. /\ app.current =< c.frame + 1 + Latency
            /\ app.pc \in {"idle", "version", "update", "reply", "all"} =>
                  app.current =< c.frame + Latency
        BY <1>6, <2>1, <3>1 DEF ToldInv
      <3> QED
        BY <1>5, <1>9, <2>1, <2>2, <3>1, <3>2, <3>3 DEF ToldInv
    <2>3. CASE c.type # "FRAME_FINISH"
      BY <1>3, <1>5, <1>6, <1>9, <2>1, <2>3 DEF ToldInv
    <2> QED
      BY <2>2, <2>3
  <1>12. UpdateInv'
    <2>1. Answering' => Answering
      BY <1>3 DEF Answering
    <2>2. CASE c.type \in AnswerTypes
      <3>1. /\ Answering /\ ~Answering'
        BY <1>3, <2>2 DEF Answering, Follows
      <3>2. server.pc # "idle" => c.type = "finish"
        BY <1>3, <1>6, <2>2 DEF UpdateInv, AnswerTypes
      <3>3. c.type # "none"
        BY <2>2 DEF AnswerTypes
      <3>4. app.pc = "version" /\ toServer = <<>>
        BY <1>6, <3>1 DEF UpdateInv
      <3>5. Len(toServer) = 0 /\ 1..0 = {}
        BY <3>4
      <3> QED
        BY <1>3, <1>5, <1>6, <1>9, <1>10, <2>2, <3>1, <3>2, <3>3, <3>4, <3>5 DEF UpdateInv
    <2>3. CASE c.type \notin AnswerTypes
      BY <1>3, <1>5, <1>6, <1>9, <1>10, <2>1, <2>3 DEF UpdateInv
    <2> QED
      BY <2>2, <2>3
  <1>13. LocalInv'
    <2>1. Synced' <=> Synced
      BY <1>5 DEF Synced
    <2>2. \A x : x.type = "RELEASE_LOCAL" =>
              (x \in In(mainQ') \cup In(toApp') <=> x \in In(mainQ) \cup In(toApp))
      BY <1>8 DEF SameMain
    <2> QED
      BY <1>5, <1>6, <1>9, <2>1, <2>2 DEF LocalInv
  <1> QED
    BY <1>8, <1>10, <1>11, <1>12, <1>13 DEF FrameInv

(* The receiver thread enforces the local release of a finished frame.     *)
LEMMA EnforceUnlockKeeps ==
    ASSUME Types, Types', FrameInv, EnforceUnlock
    PROVE  FrameInv'
  <1>1. /\ app' = [app EXCEPT !.unlocked = app.finished] /\ mainQ' = Append(mainQ, WAKEUP)
        /\ toApp' = toApp /\ UNCHANGED <<setup, serverVars, toServer, clientVars>>
    BY DEF EnforceUnlock
  <1>2. /\ mainQ \in Seq(MainCommand) /\ app \in AppRecord /\ WAKEUP \in MainCommand
    BY FrameLoopAssumption DEF Types, WAKEUP, MainCommand, MainTypes, Frames
  <1>3. /\ setup' = setup /\ toServer' = toServer /\ server' = server /\ nodeQ' = nodeQ
        /\ pipeQ' = pipeQ /\ pipe' = pipe /\ running' = running /\ finished' = finished
    BY <1>1 DEF serverVars, clientVars
  <1>4. /\ InOrder /\ UpdateInv /\ ToldInv /\ LocalInv /\ RunningInv /\ NotifyInv
    BY DEF FrameInv
  <1>5. \A x : Follows(x, WAKEUP) /\ Follows(WAKEUP, x)
    BY DEF Follows, WAKEUP, NodeCommands, PipeCommands, AnswerTypes
  <1>6. In(mainQ') = In(mainQ) \cup {WAKEUP} /\ Ordered(mainQ')
    BY <1>1, <1>2, <1>4, <1>5, InAppend, OrderedAppend DEF InOrder
  <1>7. InOrder'
    BY <1>1, <1>3, <1>4, <1>5, <1>6 DEF InOrder
  <1>8. SameMain
    BY <1>1, <1>6 DEF SameMain, WAKEUP, Tasks, NodeCommands, PipeCommands
  <1>9. /\ app'.pc = app.pc /\ app'.current = app.current /\ app'.unlocked = app.finished
        /\ app'.served = app.served /\ app'.version = app.version /\ app'.finished = app.finished
    BY <1>1, <1>2 DEF AppRecord
  <1>10. /\ RunningInv' /\ StoppedInv' /\ Placed' /\ NotifyInv' /\ RequestInv'
         /\ Replied' <=> Replied
    BY <1>1, <1>8, <1>9, ReceiverRest
  <1>11. ToldInv'
    BY <1>1, <1>3, <1>4, <1>9 DEF ToldInv, Latency
  <1>12. UpdateInv'
    BY <1>1, <1>3, <1>4, <1>9, <1>10 DEF UpdateInv, Answering
  <1>13. LocalInv'
    <2>1. Synced' <=> Synced
      BY <1>3 DEF Synced
    <2>2. \A x : x.type = "RELEASE_LOCAL" =>
              (x \in In(mainQ') \cup In(toApp') <=> x \in In(mainQ) \cup In(toApp))
      BY <1>8 DEF SameMain
    <2>3. app.finished =< server.finished /\ server.finished =< server.current
      BY <1>4 DEF ToldInv, NotifyInv
    <2>4. app.finished \in Int /\ server.finished \in Int /\ server.current \in Int
      BY AppFields
    <2>5. Synced => app.finished =< pipe[AppNode].unlocked
      <3> SUFFICES ASSUME Synced
                   PROVE  app.finished =< pipe[AppNode].unlocked
        OBVIOUS
      <3>1. AppNode \in running /\ AppNode \in Nodes
        BY FrameLoopAssumption DEF Synced
      <3>2. Chain(AppNode)
        BY <1>4, <3>1 DEF RunningInv
      <3> QED
        BY <2>3, <2>4, <3>1, <3>2, NodeFields DEF Chain
    <2> QED
      BY <1>3, <1>4, <1>9, <2>1, <2>2, <2>3, <2>4, <2>5 DEF LocalInv
  <1> QED
    BY <1>7, <1>10, <1>11, <1>12, <1>13 DEF FrameInv

-----------------------------------------------------------------------------
(* The calls of the application.                                           *)

(* A call leaves the streams alone; what it has to keep.                   *)
CallFrame ==
    /\ UNCHANGED <<setup, mainQ, toApp, notify, active, running, flushed, finished, frameIDs,
                   clientVars>>
    /\ server'.current = server.current /\ server'.finished = server.finished
    /\ server'.pc = server.pc
    /\ app'.finished = app.finished /\ app'.unlocked = app.unlocked

CallBounds ==
    /\ app'.current =< app.finished + 1 + Latency
    /\ app'.pc \in {"idle", "version", "update", "reply", "all"} =>
          app'.current =< app.finished + Latency
    /\ Synced /\ app'.pc \notin {"started", "unlock"} => app'.current =< pipe[AppNode].unlocked

(* A step of one of the application's calls keeps the invariant when the   *)
(* call's own bounds and its exchange with the server hold after it.       *)
LEMMA CallKeeps ==
    ASSUME Types, FrameInv, CallFrame, CallBounds, UpdateInv', RequestInv'
    PROVE  FrameInv'
  <1>1. /\ running' = running /\ notify' = notify /\ active' = active
        /\ flushed' = flushed /\ finished' = finished /\ frameIDs' = frameIDs
        /\ nodeQ' = nodeQ /\ pipeQ' = pipeQ /\ setup' = setup
        /\ node' = node /\ pipe' = pipe /\ replies' = replies
        /\ mainQ' = mainQ /\ toApp' = toApp
        /\ server'.current = server.current /\ server'.finished = server.finished
        /\ server'.pc = server.pc
        /\ app'.finished = app.finished /\ app'.unlocked = app.unlocked
    BY DEF CallFrame, clientVars
  <1>2. SameTasks
    BY <1>1 DEF SameTasks, Stream
  <1>3. RunningInv' /\ StoppedInv' /\ Placed'
    BY <1>1, <1>2, AppFields, SameTasksKeep DEF FrameInv
  <1>4. InOrder' /\ NotifyInv'
    BY <1>1 DEF FrameInv, InOrder, NotifyInv
  <1>5. ToldInv'
    BY <1>1 DEF FrameInv, ToldInv, CallBounds, Latency
  <1>6. LocalInv'
    <2>1. Synced' <=> Synced
      BY <1>1 DEF Synced
    <2> QED
      BY <1>1, <2>1 DEF FrameInv, LocalInv, CallBounds
  <1> QED
    BY <1>3, <1>4, <1>5, <1>6 DEF FrameInv

(* The bounds of a call that does not change the current frame.            *)
LEMMA SameBounds ==
    ASSUME Types, FrameInv, app'.current = app.current,
           app'.pc \in {"idle", "version", "update", "reply", "all"} =>
              app.pc \in {"idle", "version", "update", "reply", "all"},
           app'.pc \notin {"started", "unlock"} => app.pc \notin {"started", "unlock"}
    PROVE  CallBounds
  BY DEF FrameInv, ToldInv, LocalInv, CallBounds

(* Calls that send nothing.                                                *)
LEMMA QuietCall ==
    ASSUME UpdateInv, RequestInv,
           UNCHANGED <<mainQ, toApp, toServer, server>>, app'.current = app.current
    PROVE  /\ RequestInv' /\ (Answering' <=> Answering) /\ (Replied' <=> Replied)
           /\ Len(toServer') = Len(toServer)
  BY DEF RequestInv, Answering, Replied

(* A command is added to the stream to the server.                         *)
LEMMA ToServerAppend ==
    ASSUME Types, NEW x, x.type \in {"UPDATE", "START", "FINISH_ALL"},
           x \in ServerCommand, toServer' = Append(toServer, x)
    PROVE  /\ Len(toServer) \in Nat /\ Len(toServer') = Len(toServer) + 1
           /\ \A k \in 1..Len(toServer') :
                 \/ k \in 1..Len(toServer) /\ toServer'[k] = toServer[k]
                 \/ k = Len(toServer) + 1 /\ toServer'[k] = x
           /\ In(toServer') = In(toServer) \cup {x}
  <1>1. toServer \in Seq(ServerCommand)
    BY DEF Types
  <1>2. In(toServer') = In(toServer) \cup {x}
    BY <1>1, InAppend
  <1>3. /\ Len(toServer) \in Nat /\ Len(toServer') = Len(toServer) + 1
        /\ \A k \in 1..Len(toServer) : toServer'[k] = toServer[k]
        /\ toServer'[Len(toServer) + 1] = x
    BY <1>1, AppendProperties, LenProperties
  <1> QED
    BY <1>2, <1>3

(* startFrame sends the update request.                                    *)
LEMMA StartFrameKeeps ==
    ASSUME Types, FrameInv, StartFrame
    PROVE  FrameInv'
  <1> DEFINE x == Cmd("UPDATE", 0)
  <1>1. /\ app.pc = "idle" /\ app.current < LastFrame /\ toServer' = Append(toServer, x)
        /\ app' = [app EXCEPT !.pc = "version", !.version = "none", !.served = FALSE]
        /\ UNCHANGED <<setup, mainQ, receiver, toApp, serverVars, clientVars>>
    BY DEF StartFrame
  <1>2. app \in AppRecord
    BY DEF Types
  <1>3. /\ app'.pc = "version" /\ app'.version = "none" /\ ~app'.served
        /\ app'.current = app.current /\ app'.finished = app.finished
        /\ app'.unlocked = app.unlocked
    BY <1>1, <1>2 DEF AppRecord
  <1>4. CallFrame
    BY <1>1, <1>3 DEF CallFrame, serverVars
  <1>5. CallBounds
    BY <1>1, <1>3, SameBounds
  <1>6. x.type = "UPDATE" /\ x \in ServerCommand
    BY FrameLoopAssumption DEF Cmd, ServerCommand, Frames
  <1> HIDE DEF x
  <1>7. /\ Len(toServer) \in Nat /\ Len(toServer') = Len(toServer) + 1
        /\ \A k \in 1..Len(toServer') :
              \/ k \in 1..Len(toServer) /\ toServer'[k] = toServer[k]
              \/ k = Len(toServer) + 1 /\ toServer'[k] = x
        /\ In(toServer') = In(toServer) \cup {x}
    BY <1>1, <1>6, ToServerAppend
  <1>8. /\ server' = server /\ mainQ' = mainQ /\ toApp' = toApp
    BY <1>1 DEF serverVars
  <1>9. (Answering' <=> Answering) /\ (Replied' <=> Replied)
    BY <1>8 DEF Answering, Replied
  <1>10. RequestInv'
    <2>1. RequestInv
      BY DEF FrameInv
    <2>2. (\E y \in In(toServer') : y.type = "START") <=> (\E y \in In(toServer) : y.type = "START")
      BY <1>6, <1>7
    <2> QED
      BY <1>3, <1>6, <1>7, <1>8, <2>1, <2>2 DEF RequestInv
  <1>11. UpdateInv'
    BY <1>1, <1>3, <1>7, <1>8, <1>9 DEF FrameInv, UpdateInv
  <1> QED
    BY <1>4, <1>5, <1>10, <1>11, CallKeeps

(* The frame is requested after the update.                                *)
LEMMA RequestFrameKeeps ==
    ASSUME Types, FrameInv, RequestFrame
    PROVE  FrameInv'
  <1> DEFINE x == Cmd("START", 0)
  <1>1. /\ \/ app.pc = "version" /\ app.version = "go"
           \/ app.pc = "reply" /\ app.served
        /\ toServer' = Append(toServer, x)
        /\ app' = [app EXCEPT !.pc = "started", !.current = app.current + 1]
        /\ UNCHANGED <<setup, mainQ, receiver, toApp, serverVars, clientVars>>
    BY DEF RequestFrame
  <1>2. app \in AppRecord
    BY DEF Types
  <1>3. /\ app'.pc = "started" /\ app'.version = app.version /\ app'.served = app.served
        /\ app'.current = app.current + 1 /\ app'.finished = app.finished
        /\ app'.unlocked = app.unlocked
    BY <1>1, <1>2 DEF AppRecord
  <1>4. CallFrame
    BY <1>1, <1>3 DEF CallFrame, serverVars
  <1>5. CallBounds
    BY SMTT(40), <1>1, <1>3, AppFields DEF FrameInv, ToldInv, CallBounds
  <1>6. x.type = "START" /\ x \in ServerCommand
    BY FrameLoopAssumption DEF Cmd, ServerCommand, Frames
  <1> HIDE DEF x
  <1>7. /\ Len(toServer) \in Nat /\ Len(toServer') = Len(toServer) + 1
        /\ \A k \in 1..Len(toServer') :
              \/ k \in 1..Len(toServer) /\ toServer'[k] = toServer[k]
              \/ k = Len(toServer) + 1 /\ toServer'[k] = x
        /\ In(toServer') = In(toServer) \cup {x}
    BY <1>1, <1>6, ToServerAppend
  <1>8. /\ server' = server /\ mainQ' = mainQ /\ toApp' = toApp
    BY <1>1 DEF serverVars
  <1>9. (Answering' <=> Answering) /\ (Replied' <=> Replied)
    BY <1>8 DEF Answering, Replied
  <1>10. toServer = <<>> /\ In(toServer) = {} /\ Len(toServer) = 0
    <2>1. toServer = <<>>
      BY <1>1 DEF FrameInv, UpdateInv
    <2> QED
      BY <2>1, InOne
  <1>11. RequestInv'
    <2>1. RequestInv /\ app.current \in Int
      BY AppFields DEF FrameInv
    <2>2. server.current = app.current
      BY <1>10, <2>1 DEF RequestInv
    <2>3. \E y \in In(toServer') : y.type = "START"
      BY <1>6, <1>7
    <2>4. \A j, k \in 1..Len(toServer') : j = k
      BY <1>7, <1>10
    <2> QED
      BY <1>3, <1>8, <2>1, <2>2, <2>3, <2>4 DEF RequestInv
  <1>12. UpdateInv'
    <2>1. \A k \in 1..Len(toServer') : toServer'[k].type # "UPDATE"
      BY <1>6, <1>7, <1>10
    <2>2. ~Answering /\ server.pc = "idle" /\ ~Replied /\ ~server.acked
      BY <1>1 DEF FrameInv, UpdateInv
    <2> QED
      BY <1>3, <1>8, <1>9, <2>1, <2>2 DEF UpdateInv
  <1> QED
    BY <1>4, <1>5, <1>11, <1>12, CallKeeps

(* finishAllFrames sends its request.                                      *)
LEMMA FinishAllFramesKeeps ==
    ASSUME Types, FrameInv, FinishAllFrames
    PROVE  FrameInv'
  <1> DEFINE x == Cmd("FINISH_ALL", 0)
  <1>1. /\ app.pc = "idle" /\ toServer' = Append(toServer, x)
        /\ app' = [app EXCEPT !.pc = "all"]
        /\ UNCHANGED <<setup, mainQ, receiver, toApp, serverVars, clientVars>>
    BY DEF FinishAllFrames
  <1>2. app \in AppRecord
    BY DEF Types
  <1>3. /\ app'.pc = "all" /\ app'.version = app.version /\ app'.served = app.served
        /\ app'.current = app.current /\ app'.finished = app.finished
        /\ app'.unlocked = app.unlocked
    BY <1>1, <1>2 DEF AppRecord
  <1>4. CallFrame
    BY <1>1, <1>3 DEF CallFrame, serverVars
  <1>5. CallBounds
    BY <1>1, <1>3, SameBounds
  <1>6. x.type = "FINISH_ALL" /\ x \in ServerCommand
    BY FrameLoopAssumption DEF Cmd, ServerCommand, Frames
  <1> HIDE DEF x
  <1>7. /\ Len(toServer) \in Nat /\ Len(toServer') = Len(toServer) + 1
        /\ \A k \in 1..Len(toServer') :
              \/ k \in 1..Len(toServer) /\ toServer'[k] = toServer[k]
              \/ k = Len(toServer) + 1 /\ toServer'[k] = x
        /\ In(toServer') = In(toServer) \cup {x}
    BY <1>1, <1>6, ToServerAppend
  <1>8. /\ server' = server /\ mainQ' = mainQ /\ toApp' = toApp
    BY <1>1 DEF serverVars
  <1>9. (Answering' <=> Answering) /\ (Replied' <=> Replied)
    BY <1>8 DEF Answering, Replied
  <1>10. RequestInv'
    <2>1. RequestInv
      BY DEF FrameInv
    <2>2. (\E y \in In(toServer') : y.type = "START") <=> (\E y \in In(toServer) : y.type = "START")
      BY <1>6, <1>7
    <2> QED
      BY <1>3, <1>6, <1>7, <1>8, <2>1, <2>2 DEF RequestInv
  <1>11. UpdateInv'
    BY <1>1, <1>3, <1>6, <1>7, <1>8, <1>9 DEF FrameInv, UpdateInv
  <1> QED
    BY <1>4, <1>5, <1>10, <1>11, CallKeeps

(* The application's part of a call that only moves on.                    *)
Moves(pc) ==
    /\ app' = [app EXCEPT !.pc = pc]
    /\ UNCHANGED <<setup, mainQ, receiver, toApp, serverVars, toServer, clientVars>>

(* A call that moves on to its next wait touches only its own position.    *)
LEMMA MovesFields ==
    ASSUME Types, FrameInv, NEW pc, Moves(pc)
    PROVE  /\ app'.pc = pc /\ app'.version = app.version /\ app'.served = app.served
           /\ app'.current = app.current /\ server' = server /\ toServer' = toServer
           /\ toApp' = toApp /\ CallFrame /\ RequestInv'
           /\ (Answering' <=> Answering) /\ (Replied' <=> Replied)
  <1>1. app \in AppRecord
    BY DEF Types
  <1>2. /\ app'.pc = pc /\ app'.version = app.version /\ app'.served = app.served
        /\ app'.current = app.current /\ app'.finished = app.finished
        /\ app'.unlocked = app.unlocked
    BY <1>1 DEF Moves, AppRecord
  <1>3. server' = server /\ toServer' = toServer /\ toApp' = toApp /\ mainQ' = mainQ
    BY DEF Moves, serverVars
  <1>4. CallFrame
    BY <1>2 DEF Moves, CallFrame, serverVars
  <1>5. RequestInv' /\ (Answering' <=> Answering) /\ (Replied' <=> Replied)
    BY <1>2, <1>3, QuietCall DEF FrameInv
  <1> QED
    BY <1>2, <1>3, <1>4, <1>5

(* update() has been told to wait for the config to be idle.               *)
LEMMA UpdateFinishKeeps ==
    ASSUME Types, FrameInv, UpdateFinish
    PROVE  FrameInv'
  <1>1. app.pc = "version" /\ app.version = "finish" /\ Moves("update")
    BY DEF UpdateFinish, Moves
  <1>2. UpdateInv'
    BY <1>1, MovesFields DEF FrameInv, UpdateInv
  <1>3. CallBounds
    BY <1>1, MovesFields, SameBounds
  <1> QED
    BY <1>1, <1>2, <1>3, MovesFields, CallKeeps

(* update() has waited: it acknowledges.                                   *)
LEMMA UpdateAckKeeps ==
    ASSUME Types, FrameInv, UpdateAck
    PROVE  FrameInv'
  <1>1. /\ app.pc = "update" /\ app' = [app EXCEPT !.pc = "reply"]
        /\ server' = [server EXCEPT !.acked = TRUE]
        /\ UNCHANGED <<setup, mainQ, receiver, toApp, notify, active, running, flushed,
                       finished, frameIDs, toServer, clientVars>>
    BY DEF UpdateAck
  <1>2. app \in AppRecord /\ server \in ServerRecord
    BY DEF Types
  <1>3. /\ app'.pc = "reply" /\ app'.version = app.version /\ app'.served = app.served
        /\ app'.current = app.current /\ app'.finished = app.finished
        /\ app'.unlocked = app.unlocked
    BY <1>1, <1>2 DEF AppRecord
  <1>4. /\ server'.current = server.current /\ server'.finished = server.finished
        /\ server'.pc = server.pc /\ server'.acked
    BY <1>1, <1>2 DEF ServerRecord
  <1>5. toServer' = toServer /\ toApp' = toApp /\ mainQ' = mainQ
    BY <1>1
  <1>6. CallFrame
    BY <1>1, <1>3, <1>4 DEF CallFrame
  <1>7. RequestInv'
    BY <1>3, <1>4, <1>5 DEF FrameInv, RequestInv
  <1>8. UpdateInv'
    <2>1. (Answering' <=> Answering) /\ (Replied' <=> Replied)
      BY <1>5 DEF Answering, Replied
    <2> QED
      BY <1>1, <1>3, <1>4, <1>5, <2>1 DEF FrameInv, UpdateInv
  <1>9. CallBounds
    BY <1>1, <1>3, SameBounds
  <1> QED
    BY <1>6, <1>7, <1>8, <1>9, CallKeeps

(* The parts of finishFrame, and the end of finishAllFrames.               *)
LEMMA FinishFrameKeeps ==
    ASSUME Types, FrameInv,
           FinishFrame \/ LocalSync \/ LocalNodeSync \/ GlobalSync \/ AllFinished
    PROVE  FrameInv'
  <1>1. PICK pc \in {"unlock", "node", "global", "idle"} :
            /\ Moves(pc)
            /\ \/ app.pc = "started" /\ pc = IF NeedsLocalSync THEN "unlock" ELSE "node"
               \/ app.pc = "unlock" /\ pc = "node" /\ app.unlocked >= app.current
               \/ app.pc = "node" /\ pc = "global"
               \/ app.pc = "global" /\ pc = "idle" /\ app.finished >= FrameToFinish
               \/ app.pc = "all" /\ pc = "idle"
    <2>1. CASE FinishFrame
      <3> DEFINE pc == IF NeedsLocalSync THEN "unlock" ELSE "node"
      <3>1. app.pc = "started" /\ Moves(pc)
        BY <2>1 DEF FinishFrame, Moves
      <3> QED
        BY <3>1
    <2>2. CASE LocalSync
      BY <2>2 DEF LocalSync, Moves
    <2>3. CASE LocalNodeSync
      BY <2>3 DEF LocalNodeSync, Moves
    <2>4. CASE GlobalSync
      BY <2>4 DEF GlobalSync, Moves
    <2>5. CASE AllFinished
      BY <2>5 DEF AllFinished, Moves
    <2> QED
      BY <2>1, <2>2, <2>3, <2>4, <2>5
  <1>2. /\ app'.pc = pc /\ app'.version = app.version /\ app'.served = app.served
        /\ app'.current = app.current /\ server' = server /\ toServer' = toServer
        /\ toApp' = toApp /\ CallFrame /\ RequestInv'
        /\ (Answering' <=> Answering) /\ (Replied' <=> Replied)
    BY <1>1, MovesFields
  <1>3. app.pc \in {"started", "unlock", "node", "global", "all"}
    BY <1>1
  <1>4. UpdateInv'
    BY <1>1, <1>2, <1>3 DEF FrameInv, UpdateInv
  <1>5. CallBounds
    <2>1. ToldInv /\ LocalInv
      BY DEF FrameInv
    <2>2. app'.current =< app.finished + 1 + Latency
      BY <1>2, <2>1 DEF ToldInv
    <2>3. pc \in {"idle", "version", "update", "reply", "all"} =>
              app.current =< app.finished + Latency
      <3>1. CASE app.pc = "global"
        <4>1. app.finished >= FrameToFinish
          BY <1>1, <3>1
        <4>2. app.current \in Int /\ app.finished \in Int /\ Latency \in Int /\ app.finished >= 0
          <5>1. app.finished \in Frames
            BY AppFields
          <5> QED
            BY <5>1, AppFields, FrameLoopAssumption DEF Frames
        <4> QED
          BY <4>1, <4>2 DEF FrameToFinish
      <3>2. CASE app.pc # "global"
        BY <1>1, <2>1, <3>2 DEF ToldInv
      <3> QED
        BY <3>1, <3>2
    <2>4. Synced /\ pc \notin {"started", "unlock"} => app.current =< pipe[AppNode].unlocked
      <3> SUFFICES ASSUME Synced, pc # "unlock"
                   PROVE  app.current =< pipe[AppNode].unlocked
        OBVIOUS
      <3>1. NeedsLocalSync
        BY DEF Synced, NeedsLocalSync
      <3>2. app.pc # "started"
        BY <1>1, <3>1
      <3>3. CASE app.pc = "unlock"
        <4>1. app.current =< app.unlocked /\ app.unlocked =< pipe[AppNode].unlocked
          BY <1>1, <2>1, <3>3 DEF LocalInv
        <4>2. app.current \in Int /\ app.unlocked \in Int /\ pipe[AppNode].unlocked \in Int
          BY AppFields, NodeFields, FrameLoopAssumption
        <4> QED
          BY <4>1, <4>2
      <3>4. CASE app.pc # "unlock"
        BY <2>1, <3>2, <3>4 DEF LocalInv
      <3> QED
        BY <3>3, <3>4
    <2> QED
      BY <1>2, <2>2, <2>3, <2>4 DEF CallBounds
  <1> QED
    BY <1>2, <1>4, <1>5, CallKeeps

(* The main thread waits for a command.                                    *)
LEMMA EnterPopKeeps ==
    ASSUME Types, FrameInv, EnterPop
    PROVE  FrameInv'
  <1>1. /\ app' = [app EXCEPT !.popping = TRUE]
        /\ UNCHANGED <<setup, mainQ, receiver, toApp, serverVars, toServer, clientVars>>
    BY DEF EnterPop
  <1>2. app \in AppRecord
    BY DEF Types
  <1>3. /\ app'.pc = app.pc /\ app'.version = app.version /\ app'.served = app.served
        /\ app'.current = app.current /\ app'.finished = app.finished
        /\ app'.unlocked = app.unlocked
    BY <1>1, <1>2 DEF AppRecord
  <1>4. server' = server /\ toServer' = toServer /\ toApp' = toApp /\ mainQ' = mainQ
    BY <1>1 DEF serverVars
  <1>5. CallFrame
    BY <1>1, <1>3 DEF CallFrame, serverVars
  <1>6. RequestInv' /\ (Answering' <=> Answering) /\ (Replied' <=> Replied)
    BY <1>3, <1>4, QuietCall DEF FrameInv
  <1>7. UpdateInv'
    BY <1>3, <1>4, <1>6 DEF FrameInv, UpdateInv
  <1>8. CallBounds
    BY <1>3, SameBounds
  <1> QED
    BY <1>5, <1>6, <1>7, <1>8, CallKeeps

-----------------------------------------------------------------------------
(* The server: notifyNodeFrameFinished.                                    *)

(* The fields of notify, and the two threads.                              *)
LEMMA NotifyFields ==
    ASSUME Types
    PROVE  /\ \A t \in Threads : notify[t].frame \in Int /\ notify[t].frame \in Frames
           /\ DOMAIN notify = Threads /\ Threads = {"main", "command"}
           /\ \A t \in Threads : notify[t] \in [pc : {"idle", "check", "set", "send"}, frame : Frames]
  <1>1. notify \in [Threads -> NotifyRecord] /\ Frames \subseteq Int
    BY SetupFields DEF Types
  <1> QED
    BY <1>1 DEF NotifyRecord, Threads

(* A thread of the server goes on in notifyNodeFrameFinished, and sends    *)
(* nothing.                                                                *)
LEMMA NotifyCheckKeeps ==
    ASSUME Types, FrameInv, NEW t \in Threads, NotifyCheck(t)
    PROVE  FrameInv'
  <1> DEFINE f == notify[t].frame
             pass == server.finished < f /\ AllFinishedBy(f)
  <1>1. /\ notify[t].pc = "check"
        /\ notify' = [notify EXCEPT ![t].pc = IF pass THEN "set" ELSE "idle"]
        /\ UNCHANGED <<setup, appVars, toApp, server, active, running, flushed, finished,
                       frameIDs, toServer, clientVars>>
    BY DEF NotifyCheck
  <1>2. /\ app' = app /\ mainQ' = mainQ /\ toApp' = toApp /\ running' = running
        /\ server' = server /\ active' = active
        /\ flushed' = flushed /\ finished' = finished /\ frameIDs' = frameIDs
        /\ nodeQ' = nodeQ /\ pipeQ' = pipeQ /\ setup' = setup /\ toServer' = toServer
        /\ node' = node /\ pipe' = pipe /\ replies' = replies
    BY <1>1 DEF appVars, clientVars
  <1>3. /\ notify'[t].frame = f /\ notify'[t].pc = IF pass THEN "set" ELSE "idle"
        /\ \A u \in Threads \ {t} : notify'[u] = notify[u]
    BY <1>1, NotifyFields
  <1>4. /\ pass => \A n \in running : f =< finished[n]
    <2>1. \A n \in running : finished[n] \in Int /\ f \in Int
      BY NodeFields, NotifyFields, AppFields
    <2> QED
      BY <2>1 DEF AllFinishedBy
  <1> HIDE DEF pass
  <1>5. NotifyInv'
    <2>1. NotifyInv
      BY DEF FrameInv
    <2>2. \A u \in Threads :
              /\ notify'[u].frame = notify[u].frame
              /\ notify'[u].pc # "idle" => notify[u].pc # "idle"
              /\ notify'[u].pc = "set" => \A n \in running : notify[u].frame =< finished[n]
              /\ notify'[u].pc = "send" => notify[u].frame =< server.finished
      <3> SUFFICES ASSUME NEW u \in Threads
                   PROVE  /\ notify'[u].frame = notify[u].frame
                          /\ notify'[u].pc # "idle" => notify[u].pc # "idle"
                          /\ notify'[u].pc = "set" => \A n \in running : notify[u].frame =< finished[n]
                          /\ notify'[u].pc = "send" => notify[u].frame =< server.finished
        OBVIOUS
      <3>1. CASE u = t
        BY <1>1, <1>3, <1>4, <3>1
      <3>2. CASE u # t
        BY <1>3, <2>1, <3>2 DEF NotifyInv
      <3> QED
        BY <3>1, <3>2
    <2>3. "main" \in Threads /\ "command" \in Threads
      BY DEF Threads
    <2> QED
      BY <1>2, <2>1, <2>2, <2>3 DEF NotifyInv
  <1>6. SameTasks
    BY <1>2 DEF SameTasks, Stream
  <1>7. RunningInv' /\ StoppedInv' /\ Placed'
    BY <1>2, <1>6, AppFields, SameTasksKeep DEF FrameInv
  <1>8. InOrder' /\ ToldInv' /\ RequestInv'
    BY <1>2 DEF FrameInv, InOrder, ToldInv, RequestInv, Latency
  <1>9. UpdateInv' /\ LocalInv'
    BY <1>2 DEF FrameInv, UpdateInv, Answering, Replied, LocalInv, Synced
  <1> QED
    BY <1>5, <1>7, <1>8, <1>9 DEF FrameInv

(* A thread of the server sets the finished frame.                         *)
LEMMA NotifySetKeeps ==
    ASSUME Types, FrameInv, NEW t \in Threads, NotifySet(t)
    PROVE  FrameInv' /\ server.finished =< server'.finished
  <1> DEFINE f == notify[t].frame
  <1>1. /\ notify[t].pc = "set"
        /\ server' = [server EXCEPT !.finished = f]
        /\ notify' = [notify EXCEPT ![t].pc = "send"]
        /\ UNCHANGED <<setup, appVars, toApp, active, running, flushed, finished, frameIDs,
                       toServer, clientVars>>
    BY DEF NotifySet
  <1>2. /\ app' = app /\ mainQ' = mainQ /\ toApp' = toApp /\ running' = running
        /\ active' = active
        /\ flushed' = flushed /\ finished' = finished /\ frameIDs' = frameIDs
        /\ nodeQ' = nodeQ /\ pipeQ' = pipeQ /\ setup' = setup /\ toServer' = toServer
        /\ node' = node /\ pipe' = pipe /\ replies' = replies
    BY <1>1 DEF appVars, clientVars
  <1>3. /\ notify'[t].frame = f /\ notify'[t].pc = "send"
        /\ \A u \in Threads \ {t} : notify'[u] = notify[u]
    BY <1>1, NotifyFields
  <1>4. server \in ServerRecord
    BY DEF Types
  <1>5. /\ server'.finished = f /\ server'.current = server.current /\ server'.pc = server.pc
        /\ server'.acked = server.acked
    BY <1>1, <1>4 DEF ServerRecord
  <1>6. /\ InOrder /\ Placed /\ RunningInv /\ StoppedInv
        /\ NotifyInv /\ ToldInv /\ UpdateInv /\ RequestInv /\ LocalInv
    BY DEF FrameInv
  <1>7. /\ server.finished =< f /\ f =< server.current
        /\ \A n \in running : f =< finished[n]
    BY <1>1, <1>6 DEF NotifyInv
  <1>8. /\ f \in Int /\ server.current \in Int /\ server.finished \in Int /\ app.finished \in Int
        /\ \A u \in Threads : notify[u].frame \in Int
        /\ \A n \in running : finished[n] \in Int
        /\ \A x \in In(toApp) : x.frame \in Int
    BY AppFields, NotifyFields, NodeFields
  <1>9. "main" \in Threads /\ "command" \in Threads /\ Threads = {"main", "command"}
    BY DEF Threads
  <1> HIDE DEF f
  <1>10. ASSUME NEW u \in Threads, notify[u].pc # "idle"
         PROVE  f =< notify[u].frame
    <2>1. CASE u = "main"
      BY <1>6, <1>7, <1>10, <2>1 DEF NotifyInv
    <2>2. CASE u = "command"
      <3>1. PICK n \in running : finished[n] =< notify["command"].frame
        BY <1>6, <1>10, <2>2 DEF NotifyInv
      <3>2. f =< finished[n] /\ finished[n] \in Int
        BY <1>7, <1>8
      <3> QED
        BY <1>8, <2>2, <3>1, <3>2
    <2> QED
      BY <1>9, <2>1, <2>2
  <1>11. ASSUME NEW u \in Threads
         PROVE  /\ notify'[u].frame = notify[u].frame
                /\ notify'[u].pc # "idle" => notify[u].pc # "idle"
                /\ notify'[u].pc = "set" => notify[u].pc = "set"
                /\ notify'[u].pc = "send" => notify[u].frame =< f
    <2>1. CASE u = t
      BY <1>1, <1>3, <1>8, <2>1 DEF f
    <2>2. CASE u # t
      <3>1. notify[u].pc = "send" => notify[u].frame =< server.finished
        BY <1>6 DEF NotifyInv
      <3> QED
        BY <1>3, <1>7, <1>8, <2>2, <3>1
    <2> QED
      BY <2>1, <2>2
  <1>12. NotifyInv'
    <2>1. \A u \in Threads :
              /\ notify'[u].pc # "idle" => f =< notify'[u].frame /\ notify'[u].frame =< server.current
              /\ notify'[u].pc = "set" => \A n \in running : notify'[u].frame =< finished[n]
              /\ notify'[u].pc = "send" => notify'[u].frame =< f
      BY <1>6, <1>10, <1>11 DEF NotifyInv
    <2>2. server.pc = "waitAck" => f = server.current
      BY <1>6, <1>7, <1>8 DEF NotifyInv
    <2>3. /\ notify'["main"].pc # "idle" => server.pc = "idle" /\ notify'["main"].frame = server.current
          /\ notify'["command"].pc # "idle" => \E n \in running : finished[n] =< notify'["command"].frame
      BY <1>6, <1>9, <1>11 DEF NotifyInv
    <2> QED
      BY <1>2, <1>5, <1>6, <1>7, <2>1, <2>2, <2>3 DEF NotifyInv
  <1>13. RunningInv'
    <2>1. \A n \in Nodes : Stream(n)' = Stream(n) /\ PipeStream(n)' = PipeStream(n)
      BY <1>2 DEF Stream, PipeStream
    <2>2. running \subseteq Nodes
      BY AppFields
    <2>3. \A n \in running : Chain(n)'
      BY <1>2, <1>5, <1>6, <1>7 DEF RunningInv, Chain
    <2>4. \A n \in running : Coming(n)' /\ Replying(n)'
      BY <1>2, <1>5, <1>6, <2>1, <2>2 DEF RunningInv, Coming, Replying
    <2> QED
      BY <1>2, <1>5, <1>6, <2>1, <2>2, <2>3, <2>4 DEF RunningInv
  <1>14. StoppedInv' /\ Placed'
    <2>1. \A n \in Nodes : Stream(n)' = Stream(n)
      BY <1>2 DEF Stream
    <2> QED
      BY <1>2, <1>6, <2>1 DEF StoppedInv, Placed
  <1>15. ToldInv'
    <2>1. /\ app.finished =< f
          /\ \A x \in In(toApp) : x.type = "FRAME_FINISH" =>
                app.finished =< x.frame /\ x.frame =< f
      BY <1>6, <1>7, <1>8 DEF ToldInv
    <2> QED
      BY <1>2, <1>5, <1>6, <2>1 DEF ToldInv, Latency
  <1>16. InOrder' /\ RequestInv' /\ UpdateInv' /\ LocalInv'
    BY <1>2, <1>5, <1>6
       DEF InOrder, RequestInv, UpdateInv, Answering, Replied, LocalInv, Synced
  <1> QED
    BY <1>5, <1>7, <1>12, <1>13, <1>14, <1>15, <1>16 DEF FrameInv

(* A thread of the server tells the application.                           *)
LEMMA NotifySendKeeps ==
    ASSUME Types, FrameInv, NEW t \in Threads, NotifySend(t)
    PROVE  FrameInv'
  <1> DEFINE f == notify[t].frame
             c == Cmd("FRAME_FINISH", f)
  <1>1. /\ notify[t].pc = "send"
        /\ toApp' = Append(toApp, c)
        /\ notify' = [notify EXCEPT ![t].pc = "idle"]
        /\ UNCHANGED <<setup, appVars, server, active, running, flushed, finished, frameIDs,
                       toServer, clientVars>>
    BY DEF NotifySend
  <1>2. /\ app' = app /\ mainQ' = mainQ /\ server' = server /\ running' = running
        /\ active' = active
        /\ flushed' = flushed /\ finished' = finished /\ frameIDs' = frameIDs
        /\ nodeQ' = nodeQ /\ pipeQ' = pipeQ /\ setup' = setup /\ toServer' = toServer
        /\ node' = node /\ pipe' = pipe /\ replies' = replies
    BY <1>1 DEF appVars, clientVars
  <1>3. /\ notify'[t].frame = f /\ notify'[t].pc = "idle"
        /\ \A u \in Threads \ {t} : notify'[u] = notify[u]
    BY <1>1, NotifyFields
  <1>4. /\ InOrder /\ Placed /\ RunningInv /\ StoppedInv
        /\ NotifyInv /\ ToldInv /\ UpdateInv /\ RequestInv /\ LocalInv
    BY DEF FrameInv
  <1>5. c \in AppCommand /\ c.type = "FRAME_FINISH" /\ c.frame = f /\ toApp \in Seq(AppCommand)
    BY NotifyFields DEF Cmd, AppCommand, Types
  <1>6. f = server.finished
    <2>1. server.finished =< f /\ f =< server.finished
      BY <1>1, <1>4 DEF NotifyInv
    <2> QED
      BY <2>1, AppFields, NotifyFields
  <1> HIDE DEF c
  <1>7. /\ In(toApp') = In(toApp) \cup {c} /\ Ordered(toApp')
    <2>1. \A y \in In(toApp) : Follows(y, c)
      <3>1. \A y \in In(toApp) : y.type = "FRAME_FINISH" => y.frame =< c.frame
        BY <1>4, <1>5, <1>6 DEF ToldInv
      <3> QED
        BY <1>5, <3>1 DEF Follows, NodeCommands, PipeCommands, AnswerTypes
    <2> QED
      BY <1>1, <1>4, <1>5, <2>1, InAppend, OrderedAppend DEF InOrder
  <1>8. InOrder'
    <2>1. \A x \in In(mainQ) : x.type \in MainTypes
      BY AppFields
    <2>2. \A x \in In(mainQ) : Follows(x, c)
      BY <1>5, <2>1 DEF MainTypes, Tasks, NodeCommands, PipeCommands, Follows, AnswerTypes
    <2> QED
      BY <1>2, <1>4, <1>7, <2>2 DEF InOrder
  <1>9. SameTasks
    BY <1>2, <1>5, <1>7 DEF SameTasks, Stream, Tasks, NodeCommands, PipeCommands
  <1>10. RunningInv' /\ StoppedInv' /\ Placed'
    BY <1>2, <1>4, <1>9, AppFields, SameTasksKeep
  <1>11. NotifyInv'
    <2>1. \A u \in Threads :
              /\ notify'[u].frame = notify[u].frame
              /\ notify'[u].pc # "idle" => notify'[u].pc = notify[u].pc
      BY <1>3
    <2>2. "main" \in Threads /\ "command" \in Threads
      BY DEF Threads
    <2> QED
      BY <1>2, <1>4, <2>1, <2>2 DEF NotifyInv
  <1>12. ToldInv'
    <2>1. f \in Int /\ f =< server.finished /\ app.finished =< f
      BY <1>4, <1>6, NotifyFields DEF ToldInv
    <2> QED
      BY <1>2, <1>4, <1>5, <1>7, <2>1 DEF ToldInv, Latency
  <1>13. UpdateInv'
    <2>1. (Answering' <=> Answering) /\ (Replied' <=> Replied)
      BY <1>2, <1>5, <1>7 DEF Answering, Replied, AnswerTypes
    <2> QED
      BY <1>2, <1>4, <1>5, <1>7, <2>1 DEF UpdateInv
  <1>14. LocalInv'
    BY <1>2, <1>4, <1>5, <1>7 DEF LocalInv, Synced
  <1>15. RequestInv'
    BY <1>2, <1>4 DEF RequestInv
  <1> QED
    BY <1>8, <1>10, <1>11, <1>12, <1>13, <1>14, <1>15 DEF FrameInv

(* The config is idle.                                                     *)
LEMMA WaitIdleKeeps ==
    ASSUME Types, FrameInv, WaitIdle
    PROVE  FrameInv'
  <1>1. /\ server.pc = "waitIdle" /\ server.finished = server.current
        /\ server' = [server EXCEPT !.pc = "waitAck"]
        /\ UNCHANGED <<setup, appVars, toApp, notify, active, running, flushed, finished,
                       frameIDs, toServer, clientVars>>
    BY DEF WaitIdle
  <1>2. /\ app' = app /\ mainQ' = mainQ /\ toApp' = toApp /\ running' = running
        /\ active' = active /\ notify' = notify
        /\ flushed' = flushed /\ finished' = finished /\ frameIDs' = frameIDs
        /\ nodeQ' = nodeQ /\ pipeQ' = pipeQ /\ setup' = setup /\ toServer' = toServer
        /\ node' = node /\ pipe' = pipe /\ replies' = replies
    BY <1>1 DEF appVars, clientVars
  <1>3. server \in ServerRecord
    BY DEF Types
  <1>4. /\ server'.finished = server.finished /\ server'.current = server.current
        /\ server'.pc = "waitAck" /\ server'.acked = server.acked
    BY <1>1, <1>3 DEF ServerRecord
  <1>5. SameTasks
    BY <1>2 DEF SameTasks, Stream
  <1>6. RunningInv' /\ StoppedInv' /\ Placed'
    BY <1>2, <1>4, <1>5, AppFields, SameTasksKeep DEF FrameInv
  <1>7. InOrder' /\ ToldInv' /\ RequestInv' /\ NotifyInv'
    BY <1>1, <1>2, <1>4 DEF FrameInv, InOrder, ToldInv, RequestInv, Latency, NotifyInv
  <1>8. UpdateInv' /\ LocalInv'
    BY <1>1, <1>2, <1>4 DEF FrameInv, UpdateInv, Answering, Replied, LocalInv, Synced
  <1> QED
    BY <1>6, <1>7, <1>8 DEF FrameInv

(* A finish reply of a node: _cmdFrameFinishReply.                         *)
LEMMA CmdFrameFinishReplyKeeps ==
    ASSUME Types, FrameInv, NEW n \in Nodes, CmdFrameFinishReply(n)
    PROVE  FrameInv'
  <1> DEFINE f == Head(replies[n])
  <1>1. /\ notify["command"].pc = "idle" /\ replies[n] # <<>>
        /\ finished' = [finished EXCEPT ![n] = f]
        /\ notify' = [notify EXCEPT !["command"] = [pc |-> "check", frame |-> f]]
        /\ replies' = [replies EXCEPT ![n] = Tail(replies[n])]
        /\ UNCHANGED <<setup, appVars, toApp, server, active, running, flushed, frameIDs,
                       toServer, nodeQ, node, pipeQ, pipe>>
    BY DEF CmdFrameFinishReply
  <1>2. /\ app' = app /\ mainQ' = mainQ /\ toApp' = toApp /\ running' = running
        /\ active' = active /\ server' = server
        /\ flushed' = flushed /\ frameIDs' = frameIDs
        /\ nodeQ' = nodeQ /\ pipeQ' = pipeQ /\ setup' = setup /\ toServer' = toServer
        /\ node' = node /\ pipe' = pipe
    BY <1>1 DEF appVars
  <1>3. /\ InOrder /\ Placed /\ RunningInv /\ StoppedInv
        /\ NotifyInv /\ ToldInv /\ UpdateInv /\ RequestInv /\ LocalInv
    BY DEF FrameInv
  <1>4. n \in running
    BY <1>1, <1>3 DEF StoppedInv
  <1>5. Chain(n) /\ Coming(n) /\ Replying(n)
    BY <1>3, <1>4 DEF RunningInv
  <1>6. /\ replies[n] \in Seq(Frames) /\ finished[n] \in Int /\ node[n].finished \in Int
        /\ flushed[n] \in Int /\ server.current \in Int /\ server.finished \in Int
        /\ Frames \subseteq Int
    BY NodeFields, SetupFields
  <1> DEFINE s == replies[n]
             s2 == Tail(s)
  <1>7. /\ finished'[n] = f /\ replies'[n] = s2
        /\ \A m \in Nodes \ {n} : finished'[m] = finished[m] /\ replies'[m] = replies[m]
    BY <1>1 DEF Types
  <1>8. /\ f \in Frames /\ s2 \in Seq(Frames) /\ f = s[1]
        /\ In(s) = In(s2) \cup {f}
        /\ Len(s2) = Len(s) - 1 /\ Len(s) \in Nat \ {0}
        /\ \A k \in 1..Len(s2) : s2[k] = s[k + 1] /\ k + 1 \in 2..Len(s)
    BY <1>1, <1>6, InTail
  <1>a. /\ \A g \in In(s) : finished[n] < g /\ g =< node[n].finished
        /\ \A j, k \in 1..Len(s) : j < k => s[j] < s[k]
    BY <1>5 DEF Replying
  <1> HIDE DEF f, s2, s
  <1>9. finished[n] < f /\ f =< node[n].finished /\ f \in Int
    BY <1>6, <1>8, <1>a
  <1>10. Replying(n)'
    <2>1. ASSUME NEW g \in In(s2)
          PROVE  f < g /\ g =< node[n].finished
      <3>1. PICK k \in 1..Len(s2) : g = s2[k]
        BY DEF In
      <3>2. 1 \in 1..Len(s) /\ k + 1 \in 1..Len(s) /\ 1 < k + 1 /\ g = s[k + 1]
        BY <1>8, <3>1
      <3>3. s[1] < s[k + 1]
        BY <1>a, <3>2
      <3> QED
        BY <1>8, <1>a, <3>2, <3>3
    <2>2. ASSUME NEW j \in 1..Len(s2), NEW k \in 1..Len(s2), j < k
          PROVE  s2[j] < s2[k]
      <3>1. j + 1 \in 1..Len(s) /\ k + 1 \in 1..Len(s) /\ j + 1 < k + 1
        BY <1>8, <2>2
      <3>2. s[j + 1] < s[k + 1]
        BY <1>a, <3>1
      <3> QED
        BY <1>8, <3>2
    <2> QED
      BY <1>2, <1>7, <2>1, <2>2 DEF Replying
  <1>11. Chain(n)'
    <2>1. server.finished =< f
      BY <1>5, <1>6, <1>9 DEF Chain
    <2> QED
      BY <1>2, <1>5, <1>7, <1>9, <2>1 DEF Chain
  <1>12. RunningInv'
    <2>1. \A m \in Nodes : Stream(m)' = Stream(m) /\ PipeStream(m)' = PipeStream(m)
      BY <1>2 DEF Stream, PipeStream
    <2>2. running \subseteq Nodes
      BY AppFields
    <2>3. \A m \in running : Chain(m)'
      BY <1>2, <1>3, <1>7, <1>11, <2>2 DEF RunningInv, Chain
    <2>4. \A m \in running : Replying(m)'
      BY <1>2, <1>3, <1>7, <1>10, <2>2 DEF RunningInv, Replying
    <2>5. \A m \in running : Coming(m)'
      BY <1>2, <1>3, <2>1, <2>2 DEF RunningInv, Coming
    <2> QED
      BY <1>2, <1>3, <2>1, <2>2, <2>3, <2>4, <2>5 DEF RunningInv
  <1>13. StoppedInv' /\ Placed'
    <2>1. \A m \in Nodes : Stream(m)' = Stream(m)
      BY <1>2 DEF Stream
    <2> QED
      BY <1>2, <1>3, <1>4, <1>7, <2>1 DEF StoppedInv, Placed
  <1>14. NotifyInv'
    <2>1. "main" \in Threads /\ "command" \in Threads /\ Threads = {"main", "command"}
      BY DEF Threads
    <2>2. /\ notify'["main"] = notify["main"]
          /\ notify'["command"].pc = "check" /\ notify'["command"].frame = f
      BY <1>1, <2>1, NotifyFields
    <2>3. \A m \in running : finished[m] \in Int /\ finished'[m] \in Int /\ finished[m] =< finished'[m]
      <3> SUFFICES ASSUME NEW m \in running
                   PROVE  finished[m] \in Int /\ finished'[m] \in Int /\ finished[m] =< finished'[m]
        OBVIOUS
      <3>1. m \in Nodes /\ finished[m] \in Int
        BY AppFields, NodeFields
      <3> QED
        BY <1>7, <1>9, <3>1
    <2>4. server.finished =< f /\ f =< server.current
      BY <1>5, <1>6, <1>9 DEF Chain
    <2>5. notify["main"].pc = "set" => \A m \in running : notify["main"].frame =< finished'[m]
      <3>1. notify["main"].frame \in Int
        BY <2>1, NotifyFields
      <3>2. notify["main"].pc = "set" => \A m \in running : notify["main"].frame =< finished[m]
        BY <1>3, <2>1 DEF NotifyInv
      <3> QED
        BY <2>3, <3>1, <3>2
    <2>6. \E m \in running : finished'[m] =< f
      BY <1>4, <1>7, <1>9
    <2> QED
      BY <1>2, <1>3, <2>1, <2>2, <2>4, <2>5, <2>6 DEF NotifyInv
  <1>15. InOrder' /\ ToldInv' /\ RequestInv'
    BY <1>2, <1>3 DEF InOrder, ToldInv, RequestInv, Latency
  <1>16. UpdateInv' /\ LocalInv'
    BY <1>2, <1>3 DEF UpdateInv, Answering, Replied, LocalInv, Synced
  <1> QED
    BY <1>12, <1>13, <1>14, <1>15, <1>16 DEF FrameInv

-----------------------------------------------------------------------------
(* The server: the update.                                                 *)

(* When the last frame is finished nothing is under way.                   *)
LEMMA IdleConfig ==
    ASSUME Types, FrameInv, server.finished = server.current
    PROVE  /\ \A n \in running :
                 /\ finished[n] = server.current /\ flushed[n] = server.current
                 /\ pipe[n].unlocked = server.current
           /\ \A n \in Nodes :
                 /\ nodeQ[n] = <<>> /\ pipeQ[n] = <<>> /\ replies[n] = <<>>
                 /\ \A x \in Stream(n) : x.type \notin Tasks
  <1>1. RunningInv /\ StoppedInv /\ Placed /\ running \subseteq Nodes
    BY AppFields DEF FrameInv
  <1>2. ASSUME NEW n \in running
        PROVE  /\ finished[n] = server.current /\ flushed[n] = server.current
               /\ node[n].finished = server.current /\ pipe[n].finished = server.current
               /\ pipe[n].unlocked = server.current
    <2>1. Chain(n) /\ n \in Nodes
      BY <1>1 DEF RunningInv
    <2> QED
      BY <2>1, NodeFields DEF Chain
  <1>3. ASSUME NEW n \in Nodes, NEW x \in Stream(n), x.type \in Tasks
        PROVE  FALSE
    <2>1. n \in running /\ x.frame \in Int /\ server.current \in Int
      BY <1>1, <1>3, StreamFields, AppFields DEF StoppedInv
    <2>2. CASE x.type \in NodeCommands
      <3>1. NodeAhead(x, node[n], server.current, flushed[n])
        BY <1>1, <2>1 DEF RunningInv
      <3> QED
        BY <1>2, <2>1, <2>2, <3>1 DEF NodeAhead
    <2>3. CASE x.type \in PipeCommands
      <3>1. x \in PipeStream(n)
        BY <1>1, <2>3 DEF Placed, PipeStream
      <3>2. PipeAhead(x, pipe[n], server.current)
        BY <1>1, <2>1, <3>1 DEF RunningInv
      <3> QED
        BY <1>2, <2>1, <2>3, <3>2 DEF PipeAhead
    <2> QED
      BY <1>3, <2>2, <2>3 DEF Tasks
  <1>4. ASSUME NEW n \in Nodes
        PROVE  nodeQ[n] = <<>>
    <2>1. CASE n = AppNode
      BY <2>1 DEF Types
    <2>2. CASE n # AppNode
      <3>1. In(nodeQ[n]) = {}
        BY <1>3, <2>2, StreamFields DEF Stream
      <3>2. nodeQ[n] \in Seq(NodeCommand)
        BY DEF Types
      <3> QED
        BY <3>1, <3>2, InType
    <2> QED
      BY <2>1, <2>2
  <1>5. ASSUME NEW n \in Nodes
        PROVE  pipeQ[n] = <<>> /\ replies[n] = <<>>
    <2>1. CASE n \notin running
      BY <1>1, <2>1 DEF StoppedInv
    <2>2. CASE n \in running
      <3>1. pipeQ[n] \in Seq(PipeCommand) /\ replies[n] \in Seq(Frames) /\ Frames \subseteq Int
        BY SetupFields DEF Types
      <3>2. In(pipeQ[n]) = {}
        <4> SUFFICES ASSUME NEW x \in In(pipeQ[n])
                     PROVE  FALSE
          OBVIOUS
        <4>1. setup.threaded[n]
          BY <1>1, InOne DEF Placed
        <4>2. PipeAhead(x, pipe[n], server.current) /\ x.type \in PipeCommands
          BY <1>1, <2>2, <4>1, StreamFields DEF RunningInv, PipeStream
        <4>3. x.frame \in Int /\ server.current \in Int
          BY <4>1, StreamFields, AppFields DEF PipeStream
        <4> QED
          BY <1>2, <2>2, <4>2, <4>3 DEF PipeAhead
      <3>3. In(replies[n]) = {}
        <4> SUFFICES ASSUME NEW f \in In(replies[n])
                     PROVE  FALSE
          OBVIOUS
        <4>1. finished[n] < f /\ f =< node[n].finished
          BY <1>1, <2>2 DEF RunningInv, Replying
        <4>2. f \in Int /\ server.current \in Int
          BY <3>1, InType, AppFields
        <4> QED
          BY <1>2, <2>2, <4>1, <4>2
      <3> QED
        BY <3>1, <3>2, <3>3, InType
    <2> QED
      BY <2>1, <2>2
  <1> QED
    BY <1>2, <1>3, <1>4, <1>5

(* _updateRunning: nodes are started and stopped.                          *)
LEMMA UpdateRunningKeeps ==
    ASSUME Types, FrameInv, UpdateRunning
    PROVE  /\ FrameInv'
           /\ \A n \in Nodes : nodeQ[n] = <<>> /\ pipeQ[n] = <<>> /\ replies[n] = <<>>
  <1> DEFINE fresh == active \ running
             sc == server.current
             c == Cmd("UPDATE_REPLY", 0)
  <1>1. /\ server.pc = "waitAck" /\ server.acked
        /\ server' = [server EXCEPT !.pc = "idle", !.acked = FALSE]
        /\ running' = active
        /\ flushed' = [n \in Nodes |-> IF n \in fresh THEN server.finished ELSE flushed[n]]
        /\ finished' = [n \in Nodes |-> IF n \in fresh THEN server.finished ELSE finished[n]]
        /\ frameIDs' = [n \in Nodes |-> IF n \in running \cap active THEN frameIDs[n] ELSE {}]
        /\ node' = [n \in Nodes |-> IF n \in fresh THEN AtFrame(sc) ELSE node[n]]
        /\ pipe' = [n \in Nodes |-> IF n \in fresh THEN AtFrame(sc) ELSE pipe[n]]
        /\ toApp' = Append(toApp, c)
        /\ UNCHANGED <<setup, appVars, notify, active, toServer, nodeQ, pipeQ, replies>>
    BY DEF UpdateRunning
  <1>2. /\ app' = app /\ mainQ' = mainQ /\ notify' = notify /\ setup' = setup
        /\ active' = active /\ nodeQ' = nodeQ /\ pipeQ' = pipeQ /\ toServer' = toServer
        /\ replies' = replies
    BY <1>1 DEF appVars
  <1>3. /\ InOrder /\ Placed /\ RunningInv /\ StoppedInv
        /\ NotifyInv /\ ToldInv /\ UpdateInv /\ RequestInv /\ LocalInv
    BY DEF FrameInv
  <1>4. server.finished = sc
    BY <1>1, <1>3 DEF NotifyInv
  <1>5. /\ \A n \in running :
              finished[n] = sc /\ flushed[n] = sc /\ pipe[n].unlocked = sc
        /\ \A n \in Nodes :
              /\ nodeQ[n] = <<>> /\ pipeQ[n] = <<>> /\ replies[n] = <<>>
              /\ \A x \in Stream(n) : x.type \notin Tasks
    BY <1>4, IdleConfig
  <1>6. server \in ServerRecord /\ active \subseteq Nodes /\ sc \in Int
    BY AppFields DEF Types
  <1>7. /\ server'.pc = "idle" /\ ~server'.acked /\ server'.current = sc
        /\ server'.finished = sc
    BY <1>1, <1>4, <1>6 DEF ServerRecord
  <1>8. c.type = "UPDATE_REPLY" /\ c \in AppCommand /\ toApp \in Seq(AppCommand)
    BY FrameLoopAssumption DEF Cmd, AppCommand, MainTypes, Types, Frames
  <1> HIDE DEF c, sc
  <1>9. /\ app.pc = "reply" /\ ~app.served /\ ~Replied /\ toServer = <<>> /\ active # {}
        /\ ~Answering /\ notify["main"].pc = "idle" /\ app.current = sc
    <2>1. app.pc = "reply" /\ ~app.served /\ ~Replied /\ toServer = <<>> /\ ~Answering
      BY <1>1, <1>3 DEF UpdateInv
    <2>2. active # {} /\ notify["main"].pc = "idle"
      BY <1>1, <1>3 DEF NotifyInv
    <2>3. app.current = sc
      BY <1>3, <2>1, InOne DEF RequestInv, sc
    <2> QED
      BY <2>1, <2>2, <2>3
  <1>10. In(toApp') = In(toApp) \cup {c}
    BY <1>1, <1>8, InAppend
  <1>11. InOrder'
    <2>1. \A x \in In(mainQ) \cup In(toApp) : x.type # "UPDATE_REPLY"
      BY <1>9 DEF Replied
    <2>2. \A x \in In(mainQ) \cup In(toApp) : Follows(x, c)
      BY <1>8, <2>1 DEF Follows, NodeCommands, PipeCommands, AnswerTypes
    <2>3. Ordered(toApp')
      BY <1>1, <1>3, <1>8, <2>2, OrderedAppend DEF InOrder
    <2> QED
      BY <1>2, <1>3, <1>10, <2>2, <2>3 DEF InOrder
  <1>12. ASSUME NEW n \in Nodes
         PROVE  /\ \A x \in Stream(n)' : x.type \notin Tasks
                /\ \A x \in PipeStream(n)' : x.type \notin Tasks
                /\ In(replies'[n]) = {} /\ Len(replies'[n]) = 0
    <2>1. c.type \notin Tasks
      BY <1>8 DEF Tasks, NodeCommands, PipeCommands
    <2>2. Stream(n)' \subseteq Stream(n) \cup {c}
      BY <1>2, <1>10 DEF Stream
    <2>3. \A x \in Stream(n)' : x.type \notin Tasks
      BY <1>5, <2>1, <2>2
    <2>4. In(pipeQ'[n]) = {} /\ In(replies'[n]) = {} /\ Len(replies'[n]) = 0
      BY <1>2, <1>5, InOne
    <2> QED
      BY <2>3, <2>4 DEF PipeStream
  <1>13. StoppedInv' /\ Placed'
    BY <1>2, <1>5, <1>12 DEF StoppedInv, Placed, Tasks
  <1>14. RunningInv'
    <2> SUFFICES ASSUME NEW n \in active
                 PROVE  /\ Chain(n)' /\ Coming(n)' /\ Replying(n)'
                        /\ frameIDs'[n] = flushed'[n] + 1..server'.current
                        /\ \A x \in Stream(n)' : NodeAhead(x, node'[n], server'.current, flushed'[n])
                        /\ \A x \in PipeStream(n)' : PipeAhead(x, pipe'[n], server'.current)
      BY <1>1 DEF RunningInv
    <2>1. n \in Nodes
      BY <1>6
    <2>2. /\ \A x \in Stream(n)' : NodeAhead(x, node'[n], server'.current, flushed'[n])
          /\ \A x \in PipeStream(n)' : PipeAhead(x, pipe'[n], server'.current)
      BY <1>12, <2>1 DEF NodeAhead, PipeAhead, Tasks, NodeCommands, PipeCommands
    <2>3. Replying(n)'
      BY <1>12, <2>1 DEF Replying
    <2>4. CASE n \in running
      <3>1. /\ flushed'[n] = flushed[n] /\ finished'[n] = finished[n] /\ node'[n] = node[n]
            /\ pipe'[n] = pipe[n] /\ frameIDs'[n] = frameIDs[n]
        BY <1>1, <2>1, <2>4
      <3>2. Chain(n) /\ Coming(n) /\ frameIDs[n] = flushed[n] + 1..sc
        BY <1>3, <2>4 DEF RunningInv, sc
      <3>3. Chain(n)'
        BY <1>2, <1>4, <1>7, <3>1, <3>2 DEF Chain, sc
      <3>4. Coming(n)'
        <4>1. Stream(n) \subseteq Stream(n)' /\ PipeStream(n) \subseteq PipeStream(n)'
          BY <1>2, <1>10 DEF Stream, PipeStream
        <4> QED
          BY <1>7, <3>1, <3>2, <4>1 DEF Coming, sc
      <3> QED
        BY <1>7, <2>2, <2>3, <3>1, <3>2, <3>3, <3>4
    <2>5. CASE n \notin running
      <3>1. /\ flushed'[n] = sc /\ finished'[n] = sc /\ node'[n] = AtFrame(sc)
            /\ pipe'[n] = AtFrame(sc) /\ frameIDs'[n] = {}
        BY <1>1, <1>4, <2>1, <2>5
      <3>2. /\ AtFrame(sc).current = sc /\ AtFrame(sc).unlocked = sc /\ AtFrame(sc).finished = sc
            /\ sc + 1..sc = {}
        BY <1>6 DEF AtFrame, sc
      <3>3. Chain(n)'
        <4>1. sc =< sc
          BY <1>6 DEF sc
        <4> QED
          BY <1>7, <3>1, <3>2, <4>1 DEF Chain
      <3>4. Coming(n)'
        BY <1>7, <3>1, <3>2 DEF Coming
      <3> QED
        BY <1>7, <2>2, <2>3, <3>1, <3>2, <3>3, <3>4
    <2> QED
      BY <2>4, <2>5
  <1>15. \A n \in active : finished'[n] = sc /\ pipe'[n].unlocked = sc
    <2> SUFFICES ASSUME NEW n \in active
                 PROVE  finished'[n] = sc /\ pipe'[n].unlocked = sc
      OBVIOUS
    <2>1. AtFrame(sc).unlocked = sc /\ n \in Nodes
      BY <1>6 DEF AtFrame
    <2> QED
      BY <1>1, <1>4, <1>5, <2>1
  <1>16. NotifyInv'
    <2>1. PICK n \in active : TRUE
      BY <1>9
    <2>2. "main" \in Threads /\ "command" \in Threads /\ Threads = {"main", "command"}
      BY DEF Threads
    <2>3. \A t \in Threads : notify[t].pc # "idle" => sc =< notify[t].frame /\ notify[t].frame =< sc
      BY <1>3, <1>4 DEF NotifyInv, sc
    <2>4. \A t \in Threads : notify[t].pc = "set" => \A m \in active : notify[t].frame =< finished'[m]
      BY <1>15, <2>3
    <2>5. notify["command"].pc # "idle" => \E m \in active : finished'[m] =< notify["command"].frame
      BY <1>15, <2>1, <2>2, <2>3
    <2>6. \A t \in Threads : notify[t].pc = "send" => notify[t].frame =< sc
      BY <2>3
    <2>7. sc =< sc
      BY <1>6 DEF sc
    <2> QED
      BY <1>1, <1>2, <1>7, <1>9, <2>2, <2>3, <2>4, <2>5, <2>6, <2>7 DEF NotifyInv
  <1>17. ToldInv'
    BY <1>2, <1>3, <1>4, <1>7, <1>8, <1>10 DEF ToldInv, Latency
  <1>18. UpdateInv'
    <2>1. ~Answering'
      BY <1>8, <1>9, <1>10 DEF Answering, AnswerTypes
    <2> QED
      BY <1>2, <1>3, <1>7, <1>9, <2>1 DEF UpdateInv
  <1>19. RequestInv'
    BY <1>2, <1>3, <1>7 DEF RequestInv, sc
  <1>20. LocalInv'
    <2>1. /\ app.unlocked =< sc
          /\ \A x \in In(mainQ) \cup In(toApp) : x.type = "RELEASE_LOCAL" => x.frame =< sc
      BY <1>3 DEF LocalInv, sc
    <2>2. Synced' => pipe'[AppNode].unlocked = sc
      BY <1>1, <1>15 DEF Synced
    <2>3. sc =< sc
      BY <1>6 DEF sc
    <2> QED
      BY <1>2, <1>7, <1>8, <1>9, <1>10, <2>1, <2>2, <2>3 DEF LocalInv
  <1> QED
    BY <1>5, <1>11, <1>13, <1>14, <1>16, <1>17, <1>18, <1>19, <1>20 DEF FrameInv

-----------------------------------------------------------------------------
(* The server: commands to the nodes.                                      *)

(* Commands are sent to all nodes, each in its stream.                     *)
LEMMA NodesSent ==
    ASSUME Types, InOrder, NEW cmds, NEW before, NEW after,
           before \in Seq(AppCommand), after \in Seq(AppCommand),
           \A n \in Nodes : cmds[n] \in Seq(NodeCommand) /\ Ordered(cmds[n]),
           Ordered(before), Ordered(after), SendNodes(cmds, before, after), mainQ' = mainQ,
           \A n \in Nodes : \A x \in Stream(n), y \in In(cmds[n]) : Follows(x, y),
           \A x \in Stream(AppNode), y \in In(before) \cup In(after) : Follows(x, y),
           \A x \in In(before), y \in In(cmds[AppNode]) \cup In(after) : Follows(x, y),
           \A x \in In(cmds[AppNode]), y \in In(after) : Follows(x, y)
    PROVE  /\ Ordered(mainQ') /\ Ordered(toApp') /\ \A n \in Nodes : Ordered(nodeQ'[n])
           /\ \A x \in In(mainQ'), y \in In(toApp') : Follows(x, y)
           /\ \A n \in Nodes : Stream(n)' = Stream(n) \cup In(cmds[n])
                                  \cup (IF n = AppNode THEN In(before) \cup In(after) ELSE {})
           /\ In(toApp') = In(toApp) \cup In(before) \cup In(cmds[AppNode]) \cup In(after)
           /\ toApp' \in Seq(AppCommand)
           /\ nodeQ' \in [Nodes -> Seq(NodeCommand)] /\ nodeQ'[AppNode] = <<>>
  <1> DEFINE a == AppNode
             own == cmds[a]
             s1 == toApp \o before
             s2 == s1 \o own
             s3 == s2 \o after
  <1>0. a \in Nodes /\ toApp \in Seq(AppCommand) /\ nodeQ \in [Nodes -> Seq(NodeCommand)]
    BY FrameLoopAssumption DEF Types
  <1>1. /\ nodeQ' = [n \in Nodes |-> IF n = a THEN <<>> ELSE nodeQ[n] \o cmds[n]]
        /\ toApp' = s3
    BY DEF SendNodes
  <1>2. NodeCommand \subseteq AppCommand
    BY DEF NodeCommand, AppCommand, MainTypes
  <1>3. own \in Seq(AppCommand) /\ Ordered(own)
    <2>1. \A T1, T2 : T1 \subseteq T2 => Seq(T1) \subseteq Seq(T2)
      OBVIOUS
    <2> QED
      BY <1>0, <1>2, <2>1
  <1>4. Stream(a) = In(mainQ) \cup In(toApp)
    BY DEF Stream
  <1>5. Ordered(mainQ) /\ Ordered(toApp) /\ \A x \in In(mainQ), y \in In(toApp) : Follows(x, y)
    BY DEF InOrder
  <1>6. \A x \in Stream(a), y \in In(own) : Follows(x, y)
    BY <1>0
  <1>7. \A x \in Stream(a), y \in In(before) \cup In(after) : Follows(x, y)
    OBVIOUS
  <1>8. /\ \A x \in In(before), y \in In(own) \cup In(after) : Follows(x, y)
        /\ \A x \in In(own), y \in In(after) : Follows(x, y)
    OBVIOUS
  <1> HIDE DEF own, a
  <1>9. s1 \in Seq(AppCommand) /\ In(s1) = In(toApp) \cup In(before) /\ Ordered(s1)
    <2>1. \A x \in In(toApp), y \in In(before) : Follows(x, y)
      BY <1>4, <1>7
    <2>2. s1 \in Seq(AppCommand) /\ In(s1) = In(toApp) \cup In(before)
      BY <1>0, InConcat, ConcatProperties
    <2> QED
      BY <1>0, <1>5, <2>1, <2>2, OrderedConcat
  <1> HIDE DEF s1
  <1>10. s2 \in Seq(AppCommand) /\ In(s2) = In(s1) \cup In(own) /\ Ordered(s2)
    <2>1. \A x \in In(s1), y \in In(own) : Follows(x, y)
      BY <1>4, <1>6, <1>8, <1>9
    <2>2. s2 \in Seq(AppCommand) /\ In(s2) = In(s1) \cup In(own)
      BY <1>3, <1>9, InConcat, ConcatProperties
    <2> QED
      BY <1>3, <1>9, <2>1, <2>2, OrderedConcat
  <1> HIDE DEF s2
  <1>11. s3 \in Seq(AppCommand) /\ In(s3) = In(s2) \cup In(after) /\ Ordered(s3)
    <2>1. \A x \in In(s2), y \in In(after) : Follows(x, y)
      BY <1>4, <1>7, <1>8, <1>9, <1>10
    <2>2. s3 \in Seq(AppCommand) /\ In(s3) = In(s2) \cup In(after)
      BY <1>10, InConcat, ConcatProperties
    <2> QED
      BY <1>10, <2>1, <2>2, OrderedConcat
  <1> HIDE DEF s3
  <1>12. In(toApp') = In(toApp) \cup In(before) \cup In(own) \cup In(after)
    BY <1>1, <1>9, <1>10, <1>11
  <1>13. \A x \in In(mainQ'), y \in In(toApp') : Follows(x, y)
    BY <1>4, <1>5, <1>6, <1>7, <1>12
  <1>14. ASSUME NEW n \in Nodes, n # a
         PROVE  /\ nodeQ'[n] = nodeQ[n] \o cmds[n] /\ nodeQ'[n] \in Seq(NodeCommand)
                /\ In(nodeQ'[n]) = In(nodeQ[n]) \cup In(cmds[n]) /\ Ordered(nodeQ'[n])
    <2>1. /\ nodeQ'[n] = nodeQ[n] \o cmds[n]
          /\ nodeQ[n] \in Seq(NodeCommand) /\ cmds[n] \in Seq(NodeCommand)
      BY <1>0, <1>1, <1>14
    <2>2. Ordered(nodeQ[n]) /\ Ordered(cmds[n]) /\ Stream(n) = In(nodeQ[n])
      BY <1>14 DEF InOrder, Stream, a
    <2>3. \A x \in In(nodeQ[n]), y \in In(cmds[n]) : Follows(x, y)
      BY <2>2
    <2> QED
      BY <2>1, <2>2, <2>3, InConcat, OrderedConcat, ConcatProperties
  <1>15. nodeQ'[a] = <<>> /\ Ordered(nodeQ'[a]) /\ <<>> \in Seq(NodeCommand)
    <2>1. nodeQ'[a] = <<>>
      BY <1>0, <1>1
    <2>2. Ordered(<<>>)
      BY InOne
    <2>3. <<>> \in Seq(NodeCommand)
      OBVIOUS
    <2> QED
      BY <2>1, <2>2, <2>3
  <1>16. nodeQ' \in [Nodes -> Seq(NodeCommand)]
    BY <1>1, <1>14, <1>15
  <1>17. ASSUME NEW n \in Nodes
         PROVE  Stream(n)' = Stream(n) \cup In(cmds[n])
                                  \cup (IF n = a THEN In(before) \cup In(after) ELSE {})
    <2>1. CASE n = a
      BY <1>12, <2>1 DEF Stream, a, own
    <2>2. CASE n # a
      BY <1>14, <2>2 DEF Stream, a
    <2> QED
      BY <2>1, <2>2
  <1> QED
    BY <1>1, <1>5, <1>11, <1>12, <1>13, <1>14, <1>15, <1>16, <1>17 DEF a, own

(* The commands of a running node are for frames that were started.        *)
LEMMA StartedTasks ==
    ASSUME Types, RunningInv, Placed, NEW n \in running, NEW x \in Stream(n), x.type \in Tasks
    PROVE  /\ x.frame =< server.current
           /\ x.type = "FINISH" => x.frame =< flushed[n]
  <1>1. NodeAhead(x, node[n], server.current, flushed[n]) /\ n \in Nodes
    BY AppFields DEF RunningInv
  <1>2. CASE x.type \in NodeCommands
    BY <1>1, <1>2 DEF NodeAhead
  <1>3. CASE x.type \in PipeCommands
    <2>1. x \in PipeStream(n)
      BY <1>1, <1>3 DEF Placed, PipeStream
    <2>2. PipeAhead(x, pipe[n], server.current)
      BY <2>1 DEF RunningInv
    <2> QED
      BY <1>3, <2>2 DEF PipeAhead, PipeCommands
  <1> QED
    BY <1>2, <1>3 DEF Tasks

(* flushAllFrames: every frame's finish has been sent.                     *)
LEMMA AllFlushed ==
    ASSUME Types, FrameInv, NEW before, before \in Seq(AppCommand), Ordered(before),
           \A x \in In(before) : x.type = "finish",
           before # <<>> => ~Answering,
           FlushAllFrames(before),
           UNCHANGED <<setup, mainQ, running, finished, node, pipeQ, pipe, replies>>,
           server'.current = server.current, server'.finished = server.finished
    PROVE  /\ InOrder' /\ Placed' /\ RunningInv' /\ StoppedInv'
           /\ toApp' \in Seq(AppCommand)
           /\ nodeQ' \in [Nodes -> Seq(NodeCommand)] /\ nodeQ'[AppNode] = <<>>
           /\ flushed' \in [Nodes -> Frames] /\ frameIDs' \in [Nodes -> SUBSET Frames]
           /\ In(toApp) \cup In(before) \subseteq In(toApp')
           /\ \A x \in In(toApp') : x \in In(toApp) \cup In(before) \/ x.type = "FINISH"
  <1> DEFINE sc == server.current
             cmds == [n \in Nodes |-> IF n \in running THEN Finishes(n, frameIDs[n], sc) ELSE <<>>]
  <1>1. /\ SendNodes(cmds, before, <<>>)
        /\ frameIDs' = [n \in Nodes |-> IF n \in running
                                        THEN {i \in frameIDs[n] : i > sc} ELSE frameIDs[n]]
        /\ flushed' = [n \in Nodes |-> IF n \in running /\ flushed[n] < sc
                                       THEN sc ELSE flushed[n]]
    BY DEF FlushAllFrames
  <1>2. /\ InOrder /\ Placed /\ RunningInv /\ StoppedInv
    BY DEF FrameInv
  <1>3. /\ sc \in Int /\ sc \in Frames /\ Frames \subseteq Int /\ running \subseteq Nodes
        /\ flushed \in [Nodes -> Frames] /\ frameIDs \in [Nodes -> SUBSET Frames]
        /\ AppNode \in Nodes
    BY AppFields, SetupFields DEF Types, ServerRecord
  <1>4. /\ In(<<>>) = {} /\ Ordered(<<>>)
    BY InOne
  <1>e. <<>> \in Seq(NodeCommand) /\ <<>> \in Seq(AppCommand)
    OBVIOUS
  <1>5. ASSUME NEW n \in Nodes
        PROVE  /\ cmds[n] \in Seq(NodeCommand) /\ Ordered(cmds[n])
               /\ n \notin running => cmds[n] = <<>>
               /\ \A x \in In(cmds[n]) : x.type = "FINISH" /\ flushed[n] < x.frame /\ x.frame =< sc
    <2>1. CASE n \notin running
      BY <1>4, <1>e, <2>1
    <2>2. CASE n \in running
      <3>1. cmds[n] = Finishes(n, frameIDs[n], sc)
        BY <2>2
      <3>2. frameIDs[n] = flushed[n] + 1..sc /\ flushed[n] \in Frames /\ sc =< sc
        BY <1>2, <1>3, <2>2 DEF RunningInv
      <3>3. LET q == Finishes(n, frameIDs[n], sc)
            IN /\ q \in Seq(NodeCommand) /\ Ordered(q)
               /\ \A x \in In(q) : x.type = "FINISH" /\ flushed[n] < x.frame /\ x.frame =< sc
        BY ONLY <1>3, <3>2, FinishesSorted
      <3> QED
        BY <2>2, <3>1, <3>3
    <2> QED
      BY <2>1, <2>2
  <1> HIDE DEF cmds, sc
  <1>6. ASSUME NEW n \in Nodes, NEW x \in Stream(n), NEW y \in In(cmds[n])
        PROVE  Follows(x, y)
    <2>1. n \in running
      BY <1>4, <1>5
    <2>2. y.type = "FINISH" /\ flushed[n] < y.frame
      BY <1>5
    <2>3. x.type = "FINISH" => x.frame =< flushed[n]
      BY <1>2, <2>1, StartedTasks DEF Tasks, NodeCommands
    <2>4. x.frame \in Int /\ flushed[n] \in Int
      BY StreamFields, NodeFields
    <2>5. y.frame \in Int
      <3>1. In(cmds[n]) \subseteq NodeCommand
        BY <1>5, InType
      <3> QED
        BY <1>3, <3>1 DEF NodeCommand
    <2>6. x.type = "FINISH" => x.frame < y.frame
      BY <2>2, <2>3, <2>4, <2>5
    <2> QED
      BY <2>2, <2>6 DEF Follows, PipeCommands, AnswerTypes
  <1>7. \A x \in Stream(AppNode), y \in In(before) : Follows(x, y)
    <2> SUFFICES ASSUME NEW x \in Stream(AppNode), NEW y \in In(before)
                 PROVE  Follows(x, y)
      OBVIOUS
    <2>1. ~Answering /\ y.type = "finish"
      BY <1>4
    <2>2. x \in In(mainQ) \/ x \in In(toApp)
      BY DEF Stream
    <2>3. x.type \notin AnswerTypes
      BY <2>1, <2>2, AppFields
         DEF Answering, AnswerTypes, MainTypes, Tasks, NodeCommands, PipeCommands
    <2> QED
      BY <2>1, <2>3 DEF Follows, NodeCommands, PipeCommands
  <1>8. \A x \in In(before), y \in In(cmds[AppNode]) : Follows(x, y)
    BY <1>3, <1>5 DEF Follows, PipeCommands, AnswerTypes
  <1>9. /\ Ordered(mainQ') /\ Ordered(toApp') /\ \A n \in Nodes : Ordered(nodeQ'[n])
        /\ \A x \in In(mainQ'), y \in In(toApp') : Follows(x, y)
        /\ \A n \in Nodes : Stream(n)' = Stream(n) \cup In(cmds[n])
                                  \cup (IF n = AppNode THEN In(before) \cup In(<<>>) ELSE {})
        /\ In(toApp') = In(toApp) \cup In(before) \cup In(cmds[AppNode]) \cup In(<<>>)
        /\ toApp' \in Seq(AppCommand)
        /\ nodeQ' \in [Nodes -> Seq(NodeCommand)] /\ nodeQ'[AppNode] = <<>>
    <2>1. \A n \in Nodes : cmds[n] \in Seq(NodeCommand) /\ Ordered(cmds[n])
      BY <1>5
    <2>2. \A n \in Nodes : \A x \in Stream(n), y \in In(cmds[n]) : Follows(x, y)
      BY <1>6
    <2>3. /\ \A x \in Stream(AppNode), y \in In(before) \cup In(<<>>) : Follows(x, y)
          /\ \A x \in In(before), y \in In(cmds[AppNode]) \cup In(<<>>) : Follows(x, y)
          /\ \A x \in In(cmds[AppNode]), y \in In(<<>>) : Follows(x, y)
      BY <1>4, <1>7, <1>8
    <2>4. mainQ' = mainQ
      OBVIOUS
    <2> QED
      BY ONLY Types, before \in Seq(AppCommand), Ordered(before),
              <1>1, <1>2, <1>4, <1>e, <2>1, <2>2, <2>3, <2>4, NodesSent
  <1>10. InOrder'
    BY <1>2, <1>9 DEF InOrder
  <1>11. ASSUME NEW n \in Nodes, NEW x \in Stream(n)'
         PROVE  x \in Stream(n) \/ x \in In(cmds[n]) \/ x.type = "finish"
    BY <1>4, <1>9, <1>11
  <1>12. "finish" \notin Tasks /\ "FINISH" \notin PipeCommands /\ PipeCommands \subseteq Tasks
    BY DEF Tasks, NodeCommands, PipeCommands
  <1>13. Placed' /\ StoppedInv'
    <2>1. Placed'
      BY <1>2, <1>5, <1>11, <1>12 DEF Placed
    <2>2. StoppedInv'
      BY <1>2, <1>4, <1>5, <1>11, <1>12 DEF StoppedInv
    <2> QED
      BY <2>1, <2>2
  <1>14. ASSUME NEW n \in running
         PROVE  flushed'[n] = sc /\ frameIDs'[n] = {} /\ flushed[n] =< sc /\ n \in Nodes
    <2>1. n \in Nodes /\ flushed[n] =< sc /\ flushed[n] \in Int
      BY <1>2, <1>3, NodeFields DEF RunningInv, Chain, sc
    <2>2. frameIDs[n] = flushed[n] + 1..sc
      BY <1>2 DEF RunningInv, sc
    <2>3. frameIDs'[n] = {i \in frameIDs[n] : i > sc} /\ flushed'[n] = sc
      BY <1>1, <1>3, <2>1
    <2> QED
      BY <1>3, <2>1, <2>2, <2>3
  <1>15. flushed' \in [Nodes -> Frames] /\ frameIDs' \in [Nodes -> SUBSET Frames]
    BY <1>1, <1>3
  <1>16. ASSUME NEW n \in running
         PROVE  /\ Chain(n)' /\ Coming(n)' /\ Replying(n)'
                /\ frameIDs'[n] = flushed'[n] + 1..server'.current
                /\ \A x \in Stream(n)' : NodeAhead(x, node'[n], server'.current, flushed'[n])
                /\ \A x \in PipeStream(n)' : PipeAhead(x, pipe'[n], server'.current)
    <2>1. /\ Chain(n) /\ Coming(n) /\ Replying(n)
          /\ \A x \in Stream(n) : NodeAhead(x, node[n], sc, flushed[n])
          /\ \A x \in PipeStream(n) : PipeAhead(x, pipe[n], sc)
          /\ node[n].finished \in Int /\ flushed[n] \in Int
      BY <1>2, <1>14, NodeFields DEF RunningInv, sc
    <2>2. node[n].finished =< flushed[n] /\ node[n].finished =< sc
      BY <1>3, <1>14, <2>1 DEF Chain
    <2>3. Chain(n)'
      <3>1. sc =< sc
        BY <1>3
      <3> QED
        BY <1>14, <2>1, <2>2, <3>1 DEF Chain, sc
    <2>4. Stream(n) \subseteq Stream(n)' /\ PipeStream(n) \subseteq PipeStream(n)'
      BY <1>9, <1>14 DEF PipeStream
    <2>5. Coming(n)' /\ Replying(n)'
      BY <2>1, <2>4 DEF Coming, Replying
    <2>6. frameIDs'[n] = flushed'[n] + 1..server'.current
      <3>1. sc + 1..sc = {}
        BY <1>3
      <3> QED
        BY <1>14, <3>1 DEF sc
    <2>7. ASSUME NEW x \in Stream(n)'
          PROVE  NodeAhead(x, node[n], sc, sc)
      <3>1. CASE x \in Stream(n)
        <4>1. NodeAhead(x, node[n], sc, flushed[n]) /\ x.frame \in Int
          BY <1>14, <2>1, <3>1, StreamFields
        <4> QED
          BY <1>3, <1>14, <2>1, <4>1 DEF NodeAhead
      <3>2. CASE x \in In(cmds[n])
        <4>1. x.type = "FINISH" /\ flushed[n] < x.frame /\ x.frame =< sc
          BY <1>5, <1>14, <3>2
        <4>2. x.frame \in Int
          <5>1. In(cmds[n]) \subseteq NodeCommand
            BY <1>5, <1>14, InType
          <5> QED
            BY <1>3, <3>2, <5>1 DEF NodeCommand
        <4> QED
          BY <2>1, <2>2, <4>1, <4>2 DEF NodeAhead
      <3>3. CASE x.type = "finish"
        BY <3>3 DEF NodeAhead, NodeCommands
      <3> QED
        BY <1>11, <1>14, <2>7, <3>1, <3>2, <3>3
    <2>8. ASSUME NEW x \in PipeStream(n)'
          PROVE  PipeAhead(x, pipe[n], sc)
      <3>1. CASE x \in PipeStream(n)
        BY <2>1, <3>1
      <3>2. CASE x \notin PipeStream(n)
        <4>1. ~setup.threaded[n] /\ x \in Stream(n)' /\ x \notin Stream(n)
          BY <2>8, <3>2 DEF PipeStream
        <4>2. x.type \in {"FINISH", "finish"}
          BY <1>5, <1>11, <1>14, <4>1
        <4> QED
          BY <4>2 DEF PipeAhead, PipeCommands
      <3> QED
        BY <3>1, <3>2
    <2> QED
      BY <1>14, <2>3, <2>5, <2>6, <2>7, <2>8 DEF sc
  <1>17. RunningInv'
    BY <1>16 DEF RunningInv
  <1>18. /\ In(toApp) \cup In(before) \subseteq In(toApp')
         /\ \A x \in In(toApp') : x \in In(toApp) \cup In(before) \/ x.type = "FINISH"
    <2>1. In(toApp') = In(toApp) \cup In(before) \cup In(cmds[AppNode]) \cup In(<<>>)
      BY <1>9
    <2>2. In(<<>>) = {} /\ AppNode \in Nodes
      BY <1>3, <1>4
    <2>3. \A x \in In(cmds[AppNode]) : x.type = "FINISH"
      BY ONLY <1>5, <2>2
    <2> QED
      BY ONLY <2>1, <2>2, <2>3
  <1> QED
    BY <1>9, <1>10, <1>13, <1>15, <1>17, <1>18

(* The main thread of the server takes a command of the application.       *)
LEMMA ToServerTail ==
    ASSUME Types, UpdateInv, RequestInv, toServer # <<>>, toServer' = Tail(toServer)
    PROVE  LET c == Head(toServer)
               starts(q) == \E x \in In(q) : x.type = "START"
           IN /\ c \in ServerCommand /\ toServer' \in Seq(ServerCommand)
              /\ ~Answering /\ ~Replied /\ app.pc \notin {"update", "reply"}
              /\ app.pc = "version" => app.version = "none"
              /\ \A k \in 1..Len(toServer') : toServer'[k].type = "UPDATE" =>
                    k = Len(toServer') /\ app.pc = "version" /\ app.version = "none"
              /\ \A j, k \in 1..Len(toServer') :
                    toServer'[j].type = "START" /\ toServer'[k].type = "START" => j = k
              /\ c.type = "UPDATE" =>
                    toServer' = <<>> /\ app.pc = "version" /\ server.current = app.current
              /\ c.type = "START" => ~starts(toServer') /\ server.current = app.current - 1
              /\ c.type = "FINISH_ALL" => (starts(toServer') <=> starts(toServer))
  <1> DEFINE c == Head(toServer)
             starts(q) == \E x \in In(q) : x.type = "START"
  <1>1. toServer \in Seq(ServerCommand)
    BY DEF Types
  <1>2. /\ c \in ServerCommand /\ toServer' \in Seq(ServerCommand) /\ c = toServer[1]
        /\ In(toServer) = In(toServer') \cup {c}
        /\ Len(toServer') = Len(toServer) - 1 /\ Len(toServer) \in Nat \ {0}
        /\ \A k \in 1..Len(toServer') : toServer'[k] = toServer[k + 1] /\ k + 1 \in 2..Len(toServer)
    BY <1>1, InTail
  <1> HIDE DEF c
  <1>3. /\ ~Answering /\ ~Replied /\ app.pc \notin {"update", "reply"}
        /\ app.pc = "version" => app.version = "none"
    BY DEF UpdateInv
  <1>4. ASSUME NEW k \in 1..Len(toServer'), toServer'[k].type = "UPDATE"
        PROVE  k = Len(toServer') /\ app.pc = "version" /\ app.version = "none"
    <2>1. k + 1 \in 1..Len(toServer) /\ toServer[k + 1].type = "UPDATE"
      BY <1>2, <1>4
    <2>2. k + 1 = Len(toServer) /\ app.pc = "version" /\ app.version = "none"
      BY <2>1 DEF UpdateInv
    <2>3. Len(toServer') = Len(toServer) - 1 /\ Len(toServer) \in Int
      BY <1>2
    <2>4. k \in Int
      OBVIOUS
    <2>5. k = Len(toServer')
      BY ONLY <2>2, <2>3, <2>4
    <2> QED
      BY <2>2, <2>5
  <1>5. ASSUME NEW j \in 1..Len(toServer'), NEW k \in 1..Len(toServer'),
               toServer'[j].type = "START", toServer'[k].type = "START"
        PROVE  j = k
    <2>1. /\ j + 1 \in 1..Len(toServer) /\ toServer[j + 1].type = "START"
          /\ k + 1 \in 1..Len(toServer) /\ toServer[k + 1].type = "START"
      BY <1>2, <1>5
    <2>2. j + 1 = k + 1
      BY <2>1 DEF RequestInv
    <2> QED
      BY <2>2
  <1>6. ASSUME c.type = "UPDATE"
        PROVE  toServer' = <<>> /\ app.pc = "version" /\ server.current = app.current
    <2>1. 1 \in 1..Len(toServer) /\ toServer[1].type = "UPDATE"
      BY <1>2, <1>6
    <2>2. 1 = Len(toServer) /\ app.pc = "version"
      BY <2>1 DEF UpdateInv
    <2>3. toServer' = <<>>
      <3>1. Len(toServer') = 0
        BY <1>2, <2>2
      <3> QED
        BY <1>2, <3>1, EmptySeq
    <2>4. In(toServer) = {c}
      BY <1>2, <2>3, InOne
    <2>5. server.current = app.current
      BY <1>6, <2>4 DEF RequestInv
    <2> QED
      BY <2>2, <2>3, <2>5
  <1>7. ASSUME c.type = "START"
        PROVE  ~starts(toServer') /\ server.current = app.current - 1
    <2>1. starts(toServer)
      BY <1>2, <1>7
    <2>2. ASSUME NEW x \in In(toServer'), x.type = "START"
          PROVE  FALSE
      <3>1. PICK k \in 1..Len(toServer') : x = toServer'[k]
        BY <2>2 DEF In
      <3>2. k + 1 \in 1..Len(toServer) /\ toServer[k + 1].type = "START" /\ k + 1 # 1
        BY <1>2, <2>2, <3>1
      <3>3. 1 \in 1..Len(toServer) /\ toServer[1].type = "START"
        BY <1>2, <1>7
      <3> QED
        BY <3>2, <3>3 DEF RequestInv
    <2> QED
      BY <2>1, <2>2 DEF RequestInv
  <1>8. c.type = "FINISH_ALL" => (starts(toServer') <=> starts(toServer))
    BY <1>2
  <1> QED
    BY <1>2, <1>3, <1>4, <1>5, <1>6, <1>7, <1>8 DEF c

(* The rest of the invariant when the server has sent commands to the      *)
(* nodes; c: an answer to the application, if any.                         *)
LEMMA FlushRest ==
    ASSUME Types, FrameInv, NEW S,
           UNCHANGED <<setup, appVars, running, pipe>>,
           server'.current = server.current, server'.finished = server.finished,
           In(toApp) \subseteq In(toApp'),
           \A x \in S : x.type \in AnswerTypes,
           \A x \in In(toApp') : x \in In(toApp) \cup S \/ x.type = "FINISH"
    PROVE  ToldInv' /\ LocalInv' /\ (Replied' <=> Replied)
  <1>1. app' = app /\ mainQ' = mainQ /\ ToldInv /\ LocalInv
    BY DEF appVars, FrameInv
  <1>2. \A x \in In(toApp') : x.type \in {"FRAME_FINISH", "RELEASE_LOCAL", "UPDATE_REPLY"}
                                 => x \in In(toApp)
    BY DEF AnswerTypes
  <1>3. ToldInv'
    BY <1>1, <1>2 DEF ToldInv, Latency
  <1>4. LocalInv'
    BY <1>1, <1>2 DEF LocalInv, Synced
  <1>5. Replied' <=> Replied
    BY <1>1, <1>2 DEF Replied
  <1> QED
    BY <1>3, <1>4, <1>5

(* finishAllFrames at the server.                                          *)
LEMMA CmdFinishAllFramesKeeps ==
    ASSUME Types, FrameInv, CmdFinishAllFrames
    PROVE  FrameInv'
  <1>1. /\ MainIdle /\ Head(toServer).type = "FINISH_ALL" /\ FlushAllFrames(<<>>)
        /\ toServer' = Tail(toServer)
        /\ UNCHANGED <<setup, appVars, server, notify, active, running, finished, node,
                       pipeQ, pipe, replies>>
    BY DEF CmdFinishAllFrames
  <1>2. In(<<>>) = {} /\ Ordered(<<>>)
    BY InOne
  <1>3. <<>> \in Seq(AppCommand)
    OBVIOUS
  <1>4. /\ app' = app /\ mainQ' = mainQ /\ server' = server /\ notify' = notify
        /\ active' = active /\ running' = running /\ finished' = finished
    BY <1>1 DEF appVars
  <1>5. /\ InOrder' /\ Placed' /\ RunningInv' /\ StoppedInv'
        /\ In(toApp) \cup In(<<>>) \subseteq In(toApp')
        /\ \A x \in In(toApp') : x \in In(toApp) \cup In(<<>>) \/ x.type = "FINISH"
    BY <1>1, <1>2, <1>3, <1>4, AllFlushed
  <1>6. ToldInv' /\ LocalInv' /\ (Replied' <=> Replied)
    BY <1>1, <1>2, <1>4, <1>5, FlushRest
  <1>7. NotifyInv'
    BY <1>4 DEF FrameInv, NotifyInv
  <1>8. /\ UpdateInv /\ RequestInv /\ toServer # <<>> /\ server.pc = "idle"
    BY <1>1 DEF FrameInv, MainIdle
  <1> DEFINE starts(q) == \E x \in In(q) : x.type = "START"
  <1>9. /\ ~Answering /\ ~Replied /\ app.pc \notin {"update", "reply"}
        /\ app.pc = "version" => app.version = "none"
        /\ \A k \in 1..Len(toServer') : toServer'[k].type = "UPDATE" =>
              k = Len(toServer') /\ app.pc = "version" /\ app.version = "none"
        /\ \A j, k \in 1..Len(toServer') :
              toServer'[j].type = "START" /\ toServer'[k].type = "START" => j = k
        /\ starts(toServer') <=> starts(toServer)
    BY <1>1, <1>8, ToServerTail
  <1>10. ~Answering'
    BY <1>2, <1>5, <1>9 DEF Answering, AnswerTypes
  <1>11. UpdateInv'
    BY <1>4, <1>6, <1>8, <1>9, <1>10 DEF UpdateInv
  <1>12. RequestInv'
    BY <1>4, <1>8, <1>9 DEF RequestInv
  <1> QED
    BY <1>5, <1>6, <1>7, <1>11, <1>12 DEF FrameInv

(* The update request: the answer, and the wait for an idle config.        *)
LEMMA CmdUpdateKeeps ==
    ASSUME Types, FrameInv, KeepsNodes, CmdUpdate
    PROVE  FrameInv'
  <1>1. /\ MainIdle /\ Head(toServer).type = "UPDATE"
        /\ active' \in {active} \cup {s[2] : s \in {t \in Switches : t[1] = active}}
        /\ toServer' = Tail(toServer)
        /\ UNCHANGED <<setup, appVars, notify, running, finished, node, pipeQ, pipe, replies>>
    BY DEF CmdUpdate
  <1>2. /\ app' = app /\ mainQ' = mainQ /\ notify' = notify /\ running' = running
        /\ finished' = finished /\ node' = node /\ pipeQ' = pipeQ /\ pipe' = pipe
        /\ replies' = replies /\ setup' = setup
    BY <1>1 DEF appVars
  <1>3. /\ UpdateInv /\ RequestInv /\ NotifyInv /\ InOrder
        /\ toServer # <<>> /\ server.pc = "idle" /\ notify["main"].pc = "idle"
    BY <1>1 DEF FrameInv, MainIdle
  <1>4. /\ ~Answering /\ ~Replied /\ app.pc = "version" /\ app.version = "none"
        /\ toServer' = <<>> /\ server.current = app.current
    BY <1>1, <1>3, ToServerTail
  <1>5. In(toServer') = {} /\ 1..Len(toServer') = {}
    <2>1. Len(<<>>) = 0 /\ 1..0 = {}
      OBVIOUS
    <2> QED
      BY <1>4, <2>1, InOne
  <1>6. app.current < LastFrame /\ ~app.served /\ ~server.acked
    BY <1>3, <1>4 DEF UpdateInv
  <1>7. CASE active' = active
    <2> DEFINE c == Cmd("go", 0)
    <2>1. toApp' = Append(toApp, c) /\ UNCHANGED <<server, nodeQ, frameIDs, flushed>>
      BY <1>7 DEF CmdUpdate
    <2>2. c \in AppCommand /\ c.type = "go" /\ toApp \in Seq(AppCommand)
      BY FrameLoopAssumption DEF Cmd, AppCommand, AnswerTypes, Frames, Types
    <2> HIDE DEF c
    <2>3. In(toApp') = In(toApp) \cup {c}
      BY <2>1, <2>2, InAppend
    <2>4. \A x \in In(mainQ) \cup In(toApp) : Follows(x, c)
      <3>1. \A x \in In(mainQ) \cup In(toApp) : x.type \notin AnswerTypes
        BY <1>4, AppFields
           DEF Answering, AnswerTypes, MainTypes, Tasks, NodeCommands, PipeCommands
      <3> QED
        BY <2>2, <3>1 DEF Follows, NodeCommands, PipeCommands
    <2>5. Ordered(toApp')
      BY <1>3, <2>1, <2>2, <2>4, OrderedAppend DEF InOrder
    <2>6. InOrder'
      BY <1>2, <1>3, <2>1, <2>3, <2>4, <2>5 DEF InOrder
    <2>7. SameTasks
      BY <1>2, <2>1, <2>2, <2>3 DEF SameTasks, Stream, Tasks, NodeCommands, PipeCommands
    <2>8. RunningInv' /\ StoppedInv' /\ Placed'
      BY <1>2, <2>1, <2>7, AppFields, SameTasksKeep DEF FrameInv
    <2>9. ToldInv' /\ LocalInv' /\ (Replied' <=> Replied)
      <3>1. \A x \in {c} : x.type \in AnswerTypes
        BY <2>2 DEF AnswerTypes
      <3> QED
        BY <1>1, <2>1, <2>3, <3>1, FlushRest
    <2>10. NotifyInv'
      BY <1>2, <1>3, <1>7, <2>1 DEF NotifyInv
    <2>11. UpdateInv'
      BY <1>2, <1>3, <1>4, <1>5, <1>6, <2>1, <2>9 DEF UpdateInv
    <2>12. RequestInv'
      BY <1>2, <1>4, <1>5, <2>1 DEF RequestInv
    <2> QED
      BY <2>6, <2>8, <2>9, <2>10, <2>11, <2>12 DEF FrameInv
  <1>8. CASE active' # active
    <2> DEFINE c == Cmd("finish", 0)
    <2>1. server' = [server EXCEPT !.pc = "waitIdle"] /\ FlushAllFrames(<<c>>)
      BY <1>8 DEF CmdUpdate
    <2>2. active' # {}
      BY <1>1, <1>8 DEF KeepsNodes
    <2>3. c \in AppCommand /\ c.type = "finish"
      BY FrameLoopAssumption DEF Cmd, AppCommand, AnswerTypes, Frames
    <2>4. server \in ServerRecord
      BY DEF Types
    <2>5. /\ server'.pc = "waitIdle" /\ server'.current = server.current
          /\ server'.finished = server.finished /\ server'.acked = server.acked
      BY <2>1, <2>4 DEF ServerRecord
    <2> HIDE DEF c
    <2>6. In(<<c>>) = {c} /\ Ordered(<<c>>)
      BY InOne
    <2>7. <<c>> \in Seq(AppCommand)
      BY <2>3
    <2>8. /\ InOrder' /\ Placed' /\ RunningInv' /\ StoppedInv'
          /\ In(toApp) \cup In(<<c>>) \subseteq In(toApp')
          /\ \A x \in In(toApp') : x \in In(toApp) \cup In(<<c>>) \/ x.type = "FINISH"
      BY <1>2, <1>4, <2>1, <2>3, <2>5, <2>6, <2>7, AllFlushed
    <2>9. ToldInv' /\ LocalInv' /\ (Replied' <=> Replied)
      <3>1. \A x \in In(<<c>>) : x.type \in AnswerTypes
        BY <2>3, <2>6 DEF AnswerTypes
      <3> QED
        BY <1>1, <2>5, <2>8, <3>1, FlushRest
    <2>10. NotifyInv'
      BY <1>2, <1>3, <2>2, <2>5 DEF NotifyInv
    <2>11. \A x \in In(toApp') : x.type # "go"
      BY <1>4, <2>3, <2>6, <2>8 DEF Answering, AnswerTypes
    <2>12. UpdateInv'
      BY <1>2, <1>4, <1>5, <1>6, <2>5, <2>9, <2>11 DEF UpdateInv
    <2>13. RequestInv'
      BY <1>2, <1>4, <1>5, <2>5 DEF RequestInv
    <2> QED
      BY <2>8, <2>9, <2>10, <2>12, <2>13 DEF FrameInv
  <1> QED
    BY <1>7, <1>8

-----------------------------------------------------------------------------
(* The server: the start of a frame.                                       *)

(* A frame is not flushed before it is started.                            *)
LEMMA FlushBound ==
    ASSUME Types, NEW n \in Nodes, NEW f \in Int
    PROVE  FlushUpTo(n, f) \in Int /\ FlushUpTo(n, f) =< f
  <1>1. Latency \in Nat
    BY SetupFields
  <1>2. GetFinishLatency(n) \in Nat
    <2> DEFINE l == Latency
    <2> HIDE DEF l
    <2>1. l \in Nat
      BY <1>1 DEF l
    <2>2. GetFinishLatency(n) \in {l, 1, 0}
      BY DEF GetFinishLatency, l
    <2> QED
      BY <2>1, <2>2
  <1>3. \A g \in Nat : f - g \in Int /\ f - g =< f
    OBVIOUS
  <1> QED
    BY <1>2, <1>3 DEF FlushUpTo

(* No running node is late, so that none is taken for failed.              *)
LEMMA NoneLate ==
    ASSUME Types, FrameInv, server.current = app.current - 1
    PROVE  Late(server.current) = {}
  <1> SUFFICES ASSUME NEW n \in running
               PROVE  ~(finished[n] + Latency < server.current)
    BY DEF Late
  <1>1. server.finished =< finished[n] /\ n \in Nodes
    BY AppFields DEF FrameInv, RunningInv, Chain
  <1>2. app.finished =< server.finished /\ app.current =< app.finished + 1 + Latency
    BY DEF FrameInv, ToldInv
  <1>3. /\ finished[n] \in Int /\ app.finished \in Int /\ server.finished \in Int
        /\ app.current \in Int /\ Latency \in Int
    BY <1>1, AppFields, NodeFields
  <1> DEFINE l == Latency
             fin == finished[n]
  <1> HIDE DEF l, fin
  <1>4. /\ app.finished =< fin /\ app.current =< app.finished + 1 + l
        /\ l \in Int /\ fin \in Int
    BY <1>1, <1>2, <1>3 DEF l, fin
  <1>5. ~(fin + l < app.current - 1)
    BY ONLY <1>3, <1>4
  <1> QED
    BY <1>5 DEF l, fin

(* What the server sends a running node for frame f.                       *)
FrameCommands(n, f) ==
    NodeTasks(n, f) \o Finishes(n, frameIDs[n] \cup {f}, FlushUpTo(n, f))

MaxOf(a, b) == IF a > b THEN a ELSE b

(* The commands of frame f come after those of the frames before.          *)
LEMMA FrameCommandsSent ==
    ASSUME Types, FrameInv, NEW n \in running, NEW f \in Frames, f = server.current + 1
    PROVE  LET q == FrameCommands(n, f)
               fl == MaxOf(flushed[n], FlushUpTo(n, f))
           IN /\ q \in Seq(NodeCommand) /\ Ordered(q)
              /\ \A x \in Stream(n), y \in In(q) : Follows(x, y)
              /\ Cmd("START", f) \in In(q)
              /\ ~setup.threaded[n] => Cmd("PSTART", f) \in In(q)
              /\ setup.threaded[n] => \A x \in In(q) : x.type \notin PipeCommands
              /\ \A x \in In(q) : NodeAhead(x, node[n], f, fl) /\ PipeAhead(x, pipe[n], f)
              /\ fl \in Int /\ flushed[n] =< fl /\ fl =< f
              /\ {i \in frameIDs[n] \cup {f} : i > FlushUpTo(n, f)} = fl + 1..f
  <1> DEFINE sc == server.current
             up == FlushUpTo(n, f)
             lo == flushed[n]
             fl == MaxOf(lo, up)
             p == NodeTasks(n, f)
             s == Finishes(n, frameIDs[n] \cup {f}, up)
             q == p \o s
  <1>1. n \in Nodes /\ Chain(n) /\ frameIDs[n] = lo + 1..sc /\ Placed /\ RunningInv
    BY AppFields DEF FrameInv, RunningInv
  <1>2. /\ sc \in Int /\ lo \in Int /\ lo \in Frames /\ f \in Int /\ Frames \subseteq Int
        /\ node[n].finished \in Int /\ node[n].current \in Int
        /\ pipe[n].finished \in Int /\ pipe[n].unlocked \in Int /\ pipe[n].current \in Int
    BY <1>1, SetupFields, NodeFields DEF Types
  <1>3. up \in Int /\ up =< f
    BY <1>1, <1>2, FlushBound
  <1>4. /\ lo =< sc /\ node[n].finished =< lo /\ node[n].current =< sc
        /\ pipe[n].finished =< pipe[n].unlocked /\ pipe[n].unlocked =< sc /\ pipe[n].current =< sc
    BY <1>1 DEF Chain
  <1>5. frameIDs[n] \cup {f} = lo + 1..f
    BY <1>1, <1>2, <1>4
  <1> HIDE DEF up
  <1>6. /\ s \in Seq(NodeCommand) /\ Ordered(s)
        /\ \A x \in In(s) : x.type = "FINISH" /\ lo < x.frame /\ x.frame =< up
    BY <1>2, <1>3, <1>5, FinishesSorted
  <1>7. /\ p \in Seq(NodeCommand) /\ Ordered(p)
        /\ \A x \in In(p) : x.frame = f /\ x.type \in Tasks \ {"FINISH"}
        /\ Cmd("START", f) \in In(p)
        /\ setup.threaded[n] => \A x \in In(p) : x.type \notin PipeCommands
        /\ ~setup.threaded[n] => Cmd("PSTART", f) \in In(p)
    BY <1>1, NodeTasksSent
  <1> HIDE DEF s, p
  <1>8. \A x \in In(p), y \in In(s) : Follows(x, y)
    BY <1>6, <1>7 DEF Follows, Tasks, NodeCommands, PipeCommands, AnswerTypes
  <1>9. q \in Seq(NodeCommand) /\ In(q) = In(p) \cup In(s) /\ Ordered(q)
    BY <1>6, <1>7, <1>8, InConcat, OrderedConcat, ConcatProperties
  <1>10. q = FrameCommands(n, f)
    BY DEF FrameCommands, p, s, up
  <1> HIDE DEF q
  <1>11. \A x \in In(s) : x.frame \in Int
    <2>1. In(s) \subseteq NodeCommand
      BY <1>6, InType
    <2> QED
      BY <1>2, <2>1 DEF NodeCommand
  <1>12. ASSUME NEW x \in Stream(n), NEW y \in In(q)
         PROVE  Follows(x, y)
    <2>1. x.frame \in Int
      BY <1>1, StreamFields
    <2>2. x.type \in Tasks => x.frame =< sc /\ (x.type = "FINISH" => x.frame =< lo)
      BY <1>1, StartedTasks
    <2>3. CASE y \in In(p)
      <3>1. y.type \in Tasks /\ (x.type \in Tasks => x.frame < y.frame /\ x.frame =< y.frame)
        BY SMTT(40), <1>2, <1>7, <2>1, <2>2, <2>3
      <3> QED
        BY <3>1 DEF Follows, Tasks, NodeCommands, PipeCommands, AnswerTypes
    <2>4. CASE y \in In(s)
      <3>1. y.type = "FINISH" /\ (x.type = "FINISH" => x.frame < y.frame)
        BY SMTT(40), <1>2, <1>6, <1>11, <2>1, <2>2, <2>4 DEF Tasks, NodeCommands
      <3> QED
        BY <3>1 DEF Follows, PipeCommands, AnswerTypes
    <2> QED
      BY <1>9, <2>3, <2>4
  <1>13. fl \in Int /\ lo =< fl /\ fl =< f /\ up =< fl
    BY <1>2, <1>3, <1>4 DEF MaxOf
  <1>14. {i \in frameIDs[n] \cup {f} : i > up} = fl + 1..f
    BY <1>2, <1>3, <1>5, <1>13 DEF MaxOf
  <1> HIDE DEF fl
  <1>15. ASSUME NEW x \in In(q)
         PROVE  NodeAhead(x, node[n], f, fl) /\ PipeAhead(x, pipe[n], f)
    <2>1. CASE x \in In(p)
      <3>1. x.frame = f /\ x.type # "FINISH"
        BY <1>7, <2>1
      <3>2. /\ node[n].finished < f /\ node[n].current < f /\ pipe[n].finished < f
            /\ pipe[n].unlocked =< f /\ pipe[n].current < f /\ f =< f
        BY <1>2, <1>4
      <3> QED
        BY <3>1, <3>2 DEF NodeAhead, PipeAhead
    <2>2. CASE x \in In(s)
      <3>1. x.type = "FINISH" /\ lo < x.frame /\ x.frame =< up /\ x.frame \in Int
        BY <1>6, <1>11, <2>2
      <3>2. node[n].finished < x.frame /\ x.frame =< f /\ x.frame =< fl
        BY <1>2, <1>3, <1>4, <1>13, <3>1
      <3> QED
        BY <3>1, <3>2 DEF NodeAhead, PipeAhead, PipeCommands
    <2> QED
      BY <1>9, <2>1, <2>2
  <1>16. setup.threaded[n] => \A x \in In(q) : x.type \notin PipeCommands
    BY <1>6, <1>7, <1>9 DEF PipeCommands
  <1> QED
    BY <1>7, <1>9, <1>10, <1>12, <1>13, <1>14, <1>15, <1>16 DEF fl, up

(* The server starts a frame on all running nodes.                         *)
LEMMA CmdStartFrameKeeps ==
    ASSUME Types, FrameInv, CmdStartFrame
    PROVE  FrameInv' /\ running' = running /\ Types'
  <1> DEFINE f == server.current + 1
             up(n) == FlushUpTo(n, f)
             fl(n) == MaxOf(flushed[n], up(n))
             cmds == [n \in Nodes |-> IF n \in running THEN FrameCommands(n, f) ELSE <<>>]
             after == IF AppNode \in running THEN <<>> ELSE <<Cmd("RELEASE_LOCAL", f)>>
  <1>1. /\ MainIdle /\ Head(toServer).type = "START" /\ toServer' = Tail(toServer)
        /\ UNCHANGED <<setup, appVars, active, finished, node, pipe, replies>>
        /\ server' = [server EXCEPT !.current = f]
        /\ notify' = [notify EXCEPT !["main"] = [pc |-> "check", frame |-> f]]
    BY DEF CmdStartFrame
  <1>2. /\ app' = app /\ mainQ' = mainQ /\ receiver' = receiver /\ active' = active
        /\ finished' = finished /\ node' = node /\ pipe' = pipe /\ replies' = replies
        /\ setup' = setup
    BY <1>1 DEF appVars
  <1>3. /\ InOrder /\ Placed /\ RunningInv /\ StoppedInv
        /\ NotifyInv /\ ToldInv /\ UpdateInv /\ RequestInv /\ LocalInv
        /\ toServer # <<>> /\ server.pc = "idle" /\ notify["main"].pc = "idle"
    BY <1>1 DEF FrameInv, MainIdle
  <1> DEFINE starts(q) == \E x \in In(q) : x.type = "START"
  <1>4. /\ ~Answering /\ ~Replied /\ app.pc \notin {"update", "reply"}
        /\ app.pc = "version" => app.version = "none"
        /\ \A k \in 1..Len(toServer') : toServer'[k].type = "UPDATE" =>
              k = Len(toServer') /\ app.pc = "version" /\ app.version = "none"
        /\ \A j, k \in 1..Len(toServer') :
              toServer'[j].type = "START" /\ toServer'[k].type = "START" => j = k
        /\ ~starts(toServer') /\ server.current = app.current - 1
        /\ toServer' \in Seq(ServerCommand)
    BY <1>1, <1>3, ToServerTail
  <1>5. running \ Late(server.current) = running
    BY <1>4, NoneLate
  <1>6. /\ server.current \in Int /\ server.finished \in Int /\ app.current \in Int
        /\ app.current \in Frames /\ running \subseteq Nodes /\ Frames \subseteq Int
        /\ AppNode \in Nodes /\ app.unlocked \in Int /\ Frames = 0..LastFrame /\ LastFrame \in Int
        /\ server.finished =< server.current /\ server \in ServerRecord
    <2>1. /\ server.current \in Int /\ server.finished \in Int /\ app.current \in Int
          /\ app.current \in Frames /\ running \subseteq Nodes /\ app.unlocked \in Int
      BY AppFields
    <2>2. Frames \subseteq Int /\ AppNode \in Nodes /\ LastFrame \in Nat
      BY SetupFields
    <2>3. Frames = 0..LastFrame /\ LastFrame \in Int
      BY <2>2 DEF Frames
    <2>4. server.finished =< server.current /\ server \in ServerRecord
      BY <1>3 DEF NotifyInv, Types
    <2> QED
      BY <2>1, <2>2, <2>3, <2>4
  <1>7. f = app.current /\ f \in Frames /\ f \in Int /\ server.current =< f
    BY <1>4, <1>6
  <1>8. /\ running' = running
        /\ SendNodes(cmds, <<>>, after)
        /\ pipeQ' = [n \in Nodes |-> IF n \in running /\ setup.threaded[n]
                                     THEN pipeQ[n] \o PipeTasks(f) ELSE pipeQ[n]]
        /\ frameIDs' = [n \in Nodes |-> IF n \in running
                                        THEN {i \in frameIDs[n] \cup {f} : i > up(n)}
                                        ELSE frameIDs[n]]
        /\ flushed' = [n \in Nodes |-> IF n \in running THEN fl(n) ELSE flushed[n]]
    BY <1>5 DEF CmdStartFrame, FrameCommands, MaxOf
  <1>9. /\ server'.current = f /\ server'.finished = server.finished
        /\ server'.pc = server.pc /\ server'.acked = server.acked /\ server' \in ServerRecord
    BY <1>1, <1>6, <1>7 DEF ServerRecord
  <1> HIDE DEF f
  <1>10. ASSUME NEW n \in running
         PROVE  /\ cmds[n] \in Seq(NodeCommand) /\ Ordered(cmds[n])
                /\ \A x \in Stream(n), y \in In(cmds[n]) : Follows(x, y)
                /\ Cmd("START", f) \in In(cmds[n])
                /\ ~setup.threaded[n] => Cmd("PSTART", f) \in In(cmds[n])
                /\ setup.threaded[n] => \A x \in In(cmds[n]) : x.type \notin PipeCommands
                /\ \A x \in In(cmds[n]) : NodeAhead(x, node[n], f, fl(n)) /\ PipeAhead(x, pipe[n], f)
                /\ fl(n) \in Int /\ flushed[n] =< fl(n) /\ fl(n) =< f
                /\ {i \in frameIDs[n] \cup {f} : i > up(n)} = fl(n) + 1..f
    <2>1. cmds[n] = FrameCommands(n, f) /\ f = server.current + 1
      BY <1>6 DEF f
    <2> QED
      BY SMTT(60), <1>7, <2>1, FrameCommandsSent
  <1>11. \A n \in Nodes \ running : cmds[n] = <<>>
    OBVIOUS
  <1> HIDE DEF cmds, fl, up
  <1>12. /\ In(<<>>) = {} /\ Ordered(<<>>)
    BY InOne
  <1>e. <<>> \in Seq(NodeCommand) /\ <<>> \in Seq(AppCommand)
    OBVIOUS
  <1>13. /\ after \in Seq(AppCommand) /\ Ordered(after)
         /\ \A x \in In(after) : x = Cmd("RELEASE_LOCAL", f)
         /\ AppNode \in running => In(after) = {}
    <2>1. CASE AppNode \in running
      BY <1>12, <1>e, <2>1
    <2>2. CASE AppNode \notin running
      <3> DEFINE c == Cmd("RELEASE_LOCAL", f)
      <3>1. c \in AppCommand
        BY <1>7 DEF Cmd, AppCommand, MainTypes
      <3> HIDE DEF c
      <3>2. <<c>> \in Seq(AppCommand)
        BY <3>1
      <3>3. In(<<c>>) = {c} /\ Ordered(<<c>>)
        BY InOne
      <3>4. after = <<c>>
        BY <2>2 DEF c
      <3> QED
        BY <2>2, <3>2, <3>3, <3>4 DEF c
    <2> QED
      BY <2>1, <2>2
  <1> HIDE DEF after
  <1>14. /\ Cmd("RELEASE_LOCAL", f).type = "RELEASE_LOCAL" /\ Cmd("RELEASE_LOCAL", f).frame = f
         /\ \A x : Follows(x, Cmd("RELEASE_LOCAL", f))
    BY DEF Cmd, Follows, NodeCommands, PipeCommands, AnswerTypes
  <1>15. /\ Ordered(mainQ') /\ Ordered(toApp') /\ \A n \in Nodes : Ordered(nodeQ'[n])
         /\ \A x \in In(mainQ'), y \in In(toApp') : Follows(x, y)
         /\ \A n \in Nodes : Stream(n)' = Stream(n) \cup In(cmds[n])
                                  \cup (IF n = AppNode THEN In(<<>>) \cup In(after) ELSE {})
         /\ In(toApp') = In(toApp) \cup In(<<>>) \cup In(cmds[AppNode]) \cup In(after)
         /\ toApp' \in Seq(AppCommand)
         /\ nodeQ' \in [Nodes -> Seq(NodeCommand)] /\ nodeQ'[AppNode] = <<>>
    <2>1. \A n \in Nodes : cmds[n] \in Seq(NodeCommand) /\ Ordered(cmds[n])
      BY <1>10, <1>11, <1>12, <1>e
    <2>2. \A n \in Nodes : \A x \in Stream(n), y \in In(cmds[n]) : Follows(x, y)
      BY <1>10, <1>11, <1>12
    <2>3. /\ \A x \in Stream(AppNode), y \in In(<<>>) \cup In(after) : Follows(x, y)
          /\ \A x \in In(<<>>), y \in In(cmds[AppNode]) \cup In(after) : Follows(x, y)
          /\ \A x \in In(cmds[AppNode]), y \in In(after) : Follows(x, y)
      BY <1>12, <1>13, <1>14
    <2> QED
      BY ONLY Types, <1>2, <1>3, <1>8, <1>12, <1>e, <1>13, <2>1, <2>2, <2>3, NodesSent
  <1>16. ASSUME NEW n \in Nodes
         PROVE  /\ Stream(n) \cup In(cmds[n]) \subseteq Stream(n)'
                /\ \A x \in Stream(n)' : x \in Stream(n) \cup In(cmds[n]) \/ x.type = "RELEASE_LOCAL"
    BY <1>12, <1>13, <1>14, <1>15
  (* The pipes. *)
  <1>17. /\ PipeTasks(f) \in Seq(PipeCommand) /\ Ordered(PipeTasks(f))
         /\ In(PipeTasks(f)) = {Cmd("PSTART", f), Cmd("PDRAW", f), Cmd("PFINISH", f)}
    BY <1>7, PipeTasksSent
  <1>18. \A x \in In(PipeTasks(f)) : x.frame = f /\ x.type \in PipeCommands
    BY <1>17 DEF Cmd, PipeCommands
  <1>19. ASSUME NEW n \in Nodes
         PROVE  /\ pipeQ'[n] \in Seq(PipeCommand) /\ Ordered(pipeQ'[n])
                /\ In(pipeQ'[n]) = In(pipeQ[n])
                      \cup (IF n \in running /\ setup.threaded[n] THEN In(PipeTasks(f)) ELSE {})
                /\ ~(n \in running /\ setup.threaded[n]) => pipeQ'[n] = pipeQ[n]
    <2>1. pipeQ[n] \in Seq(PipeCommand) /\ Ordered(pipeQ[n])
      BY <1>3 DEF Types, InOrder
    <2>2. CASE ~(n \in running /\ setup.threaded[n])
      BY <1>8, <2>1, <2>2
    <2>3. CASE n \in running /\ setup.threaded[n]
      <3>1. pipeQ'[n] = pipeQ[n] \o PipeTasks(f)
        BY <1>8, <2>3
      <3>2. ASSUME NEW x \in In(pipeQ[n]), NEW y \in In(PipeTasks(f))
            PROVE  Follows(x, y)
        <4>1. x \in PipeStream(n) /\ x.type \in PipeCommands /\ x.frame \in Int
          BY <2>3, StreamFields DEF PipeStream
        <4>2. x.frame =< server.current
          BY <1>3, <2>3, <4>1 DEF RunningInv, PipeAhead
        <4>3. x.frame < y.frame /\ x.frame =< y.frame /\ y.type \in PipeCommands
          BY <1>6, <1>18, <4>1, <4>2 DEF f
        <4> QED
          BY <4>1, <4>3 DEF Follows, NodeCommands, PipeCommands, AnswerTypes
      <3> DEFINE t == PipeTasks(f)
      <3> HIDE DEF t
      <3>3. t \in Seq(PipeCommand) /\ Ordered(t)
        BY <1>17 DEF t
      <3>4. pipeQ[n] \o t \in Seq(PipeCommand) /\ In(pipeQ[n] \o t) = In(pipeQ[n]) \cup In(t)
        BY <2>1, <3>3, InConcat, ConcatProperties
      <3>5. \A x \in In(pipeQ[n]), y \in In(t) : Follows(x, y)
        BY <3>2 DEF t
      <3>6. Ordered(pipeQ[n] \o t)
        BY <2>1, <3>3, <3>5, OrderedConcat
      <3> QED
        BY <2>3, <3>1, <3>4, <3>6 DEF t
    <2> QED
      BY <2>2, <2>3
  <1>20. InOrder'
    BY <1>15, <1>19 DEF InOrder
  <1>21. Placed'
    <2> SUFFICES ASSUME NEW n \in Nodes
                 PROVE  IF setup.threaded[n] THEN \A x \in Stream(n)' : x.type \notin PipeCommands
                                             ELSE pipeQ'[n] = <<>>
      BY <1>2 DEF Placed
    <2>1. CASE ~setup.threaded[n]
      BY <1>3, <1>19, <2>1 DEF Placed
    <2>2. CASE setup.threaded[n]
      <3>1. \A x \in In(cmds[n]) : x.type \notin PipeCommands
        BY <1>10, <1>11, <1>12, <2>2
      <3> QED
        BY <1>3, <1>16, <2>2, <3>1 DEF Placed, PipeCommands
    <2> QED
      BY <2>1, <2>2
  <1>22. StoppedInv'
    <2> SUFFICES ASSUME NEW n \in Nodes \ running
                 PROVE  /\ replies'[n] = <<>> /\ pipeQ'[n] = <<>>
                        /\ \A x \in Stream(n)' : x.type \notin Tasks
      BY <1>8 DEF StoppedInv
    <2>1. "RELEASE_LOCAL" \notin Tasks
      BY DEF Tasks, NodeCommands, PipeCommands
    <2> QED
      BY <1>2, <1>3, <1>11, <1>12, <1>16, <1>19, <2>1 DEF StoppedInv
  <1>23. ASSUME NEW n \in running
         PROVE  /\ Chain(n)' /\ Coming(n)' /\ Replying(n)'
                /\ frameIDs'[n] = flushed'[n] + 1..server'.current
                /\ \A x \in Stream(n)' : NodeAhead(x, node'[n], server'.current, flushed'[n])
                /\ \A x \in PipeStream(n)' : PipeAhead(x, pipe'[n], server'.current)
    <2>1. /\ Chain(n) /\ Coming(n) /\ Replying(n) /\ n \in Nodes
          /\ \A x \in Stream(n) : NodeAhead(x, node[n], server.current, flushed[n])
          /\ \A x \in PipeStream(n) : PipeAhead(x, pipe[n], server.current)
      BY <1>3, <1>6 DEF RunningInv
    <2>2. /\ node[n].finished \in Int /\ node[n].current \in Int /\ flushed[n] \in Int
          /\ pipe[n].finished \in Int /\ pipe[n].unlocked \in Int /\ pipe[n].current \in Int
      BY <2>1, NodeFields
    <2>3. flushed'[n] = fl(n) /\ frameIDs'[n] = fl(n) + 1..f
      BY <1>8, <1>10, <2>1
    <2>4. Chain(n)'
      <3>1. /\ node[n].finished =< fl(n) /\ pipe[n].unlocked =< f
            /\ node[n].current =< f /\ pipe[n].current =< f
        BY SMTT(60), <1>6, <1>7, <1>10, <2>1, <2>2 DEF Chain
      <3> QED
        BY <1>2, <1>9, <1>10, <2>1, <2>3, <3>1 DEF Chain
    <2>5. Replying(n)'
      BY <1>2, <2>1 DEF Replying
    <2>6. ASSUME NEW x \in Stream(n)'
          PROVE  NodeAhead(x, node[n], f, fl(n))
      <3>1. CASE x \in Stream(n)
        <4>1. NodeAhead(x, node[n], server.current, flushed[n]) /\ x.frame \in Int
          BY <2>1, <3>1, StreamFields
        <4>2. flushed[n] =< fl(n) /\ fl(n) \in Int
          BY <1>10
        <4> QED
          BY SMTT(40), <1>6, <1>7, <2>2, <4>1, <4>2 DEF NodeAhead
      <3>2. CASE x \in In(cmds[n])
        BY <1>10, <3>2
      <3>3. CASE x.type = "RELEASE_LOCAL"
        BY <3>3 DEF NodeAhead, NodeCommands
      <3> QED
        BY <1>16, <2>1, <2>6, <3>1, <3>2, <3>3
    <2>7. ASSUME NEW x \in PipeStream(n)'
          PROVE  PipeAhead(x, pipe[n], f)
      <3>1. CASE x \in PipeStream(n)
        <4>1. PipeAhead(x, pipe[n], server.current) /\ x.frame \in Int
          BY <2>1, <3>1, StreamFields
        <4> QED
          BY <1>6, <1>7, <4>1 DEF PipeAhead
      <3>2. CASE x \in In(PipeTasks(f))
        <4>1. x.frame = f
          BY <1>18, <3>2
        <4>2. pipe[n].finished < f /\ pipe[n].unlocked =< f /\ pipe[n].current < f /\ f =< f
          <5>1. pipe[n].finished =< pipe[n].unlocked /\ pipe[n].unlocked =< server.current
                /\ pipe[n].current =< server.current
            BY <2>1 DEF Chain
          <5> QED
            BY SMTT(40), <1>6, <2>2, <5>1 DEF f
        <4> QED
          BY <4>1, <4>2 DEF PipeAhead
      <3>3. CASE x \in In(cmds[n])
        BY <1>10, <3>3
      <3>4. CASE x.type = "RELEASE_LOCAL"
        BY <3>4 DEF PipeAhead, PipeCommands
      <3>5. \/ x \in PipeStream(n) \/ x \in In(PipeTasks(f)) \/ x \in In(cmds[n])
            \/ x.type = "RELEASE_LOCAL"
        <4>1. CASE setup.threaded[n]
          BY <1>2, <1>19, <2>1, <2>7, <4>1 DEF PipeStream
        <4>2. CASE ~setup.threaded[n]
          BY <1>2, <1>16, <2>1, <2>7, <4>2 DEF PipeStream
        <4> QED
          BY <4>1, <4>2
      <3> QED
        BY <3>1, <3>2, <3>3, <3>4, <3>5
    <2>8. Coming(n)'
      <3>1. PipeStream(n) \subseteq PipeStream(n)' /\ Cmd("PSTART", f) \in PipeStream(n)'
        <4>1. CASE setup.threaded[n]
          BY <1>2, <1>17, <1>19, <2>1, <4>1 DEF PipeStream
        <4>2. CASE ~setup.threaded[n]
          BY <1>2, <1>10, <1>16, <2>1, <4>2 DEF PipeStream
        <4> QED
          BY <4>1, <4>2
      <3>2. Stream(n) \subseteq Stream(n)' /\ Cmd("START", f) \in Stream(n)'
        BY <1>10, <1>16, <2>1
      <3>3. \A k \in Int : \A g \in k + 1..f : g = f \/ g \in k + 1..server.current
        BY <1>6 DEF f
      <3>4. \A g \in node[n].current + 1..f : Cmd("START", g) \in Stream(n)'
        BY <2>1, <2>2, <3>2, <3>3 DEF Coming
      <3>5. \A g \in pipe[n].current + 1..f : Cmd("PSTART", g) \in PipeStream(n)'
        BY <2>1, <2>2, <3>1, <3>3 DEF Coming
      <3> QED
        BY <1>2, <1>9, <3>4, <3>5 DEF Coming
    <2> QED
      BY <1>2, <1>9, <2>3, <2>4, <2>5, <2>6, <2>7, <2>8
  <1>24. RunningInv'
    BY <1>8, <1>23 DEF RunningInv
  (* The rest. *)
  <1>25. "main" \in Threads /\ "command" \in Threads /\ Threads = {"main", "command"}
    BY DEF Threads
  <1>26. /\ notify'["command"] = notify["command"]
         /\ notify'["main"].pc = "check" /\ notify'["main"].frame = f
         /\ notify' \in [Threads -> NotifyRecord]
    <2>1. notify \in [Threads -> NotifyRecord]
      BY DEF Types
    <2>2. [pc |-> "check", frame |-> f] \in NotifyRecord
      BY <1>7 DEF NotifyRecord
    <2> QED
      BY <1>1, <1>25, <2>1, <2>2
  <1>27. NotifyInv'
    <2>1. server.finished =< f /\ f =< f
      BY <1>6, <1>7
    <2>2. notify["command"].frame \in Int
      BY <1>25, NotifyFields
    <2>3. notify["command"].pc # "idle" =>
              server.finished =< notify["command"].frame /\ notify["command"].frame =< f
      BY <1>3, <1>6, <1>7, <1>25, <2>2 DEF NotifyInv
    <2> QED
      BY <1>2, <1>3, <1>8, <1>9, <1>25, <1>26, <2>1, <2>3 DEF NotifyInv
  <1>28. \A x \in In(cmds[AppNode]) : x.type \in Tasks
    <2>1. cmds[AppNode] \in Seq(NodeCommand)
      BY <1>6, <1>10, <1>11, <1>e
    <2>2. In(cmds[AppNode]) \subseteq NodeCommand
      BY <2>1, InType
    <2> QED
      BY <2>2 DEF NodeCommand
  <1>29. \A x \in In(toApp') : \/ x \in In(toApp) \/ x.type \in Tasks
                               \/ x = Cmd("RELEASE_LOCAL", f) /\ AppNode \notin running
    BY <1>12, <1>13, <1>15, <1>28
  <1>30. In(toApp) \subseteq In(toApp')
    BY <1>15
  <1>31. ToldInv'
    BY <1>2, <1>3, <1>9, <1>14, <1>29 DEF ToldInv, Latency, Tasks, NodeCommands, PipeCommands
  <1>32. UpdateInv'
    <2>1. ~Answering'
      BY <1>4, <1>14, <1>29 DEF Answering, AnswerTypes, Tasks, NodeCommands, PipeCommands
    <2>2. ~Replied'
      BY <1>2, <1>4, <1>14, <1>29 DEF Replied, Tasks, NodeCommands, PipeCommands
    <2> QED
      BY <1>2, <1>3, <1>4, <1>9, <2>1, <2>2 DEF UpdateInv
  <1>33. RequestInv'
    BY <1>2, <1>4, <1>7, <1>9 DEF RequestInv
  <1>34. LocalInv'
    <2>1. Synced' <=> Synced
      BY <1>2, <1>8 DEF Synced
    <2>2. \A x \in In(mainQ) \cup In(toApp) : x.frame \in Int
      BY AppFields
    <2>3. /\ app.unlocked =< f
          /\ \A x \in In(mainQ) \cup In(toApp) : x.type = "RELEASE_LOCAL" => x.frame =< f
      BY <1>3, <1>6, <1>7, <2>2 DEF LocalInv
    <2>4. \A x \in In(toApp') : x.type = "RELEASE_LOCAL" =>
              x \in In(toApp) \/ (x.frame = f /\ AppNode \notin running)
      BY <1>14, <1>29 DEF Tasks, NodeCommands, PipeCommands
    <2>5. Synced => AppNode \in running
      BY DEF Synced
    <2>6. f =< f
      BY <1>7
    <2> QED
      BY <1>2, <1>3, <1>9, <2>1, <2>3, <2>4, <2>5, <2>6 DEF LocalInv
  <1>35. Types'
    <2>1. flushed' \in [Nodes -> Frames] /\ frameIDs' \in [Nodes -> SUBSET Frames]
      <3>1. flushed \in [Nodes -> Frames] /\ frameIDs \in [Nodes -> SUBSET Frames]
        BY DEF Types
      <3>2. \A n \in running : fl(n) \in Frames
        <4> SUFFICES ASSUME NEW n \in running
                     PROVE  fl(n) \in Frames
          OBVIOUS
        <4>1. fl(n) \in Int /\ flushed[n] =< fl(n) /\ fl(n) =< f
          BY <1>10
        <4>2. flushed[n] \in Frames
          BY <1>6, <3>1
        <4> QED
          BY <1>6, <1>7, <4>1, <4>2
      <3>3. flushed' \in [Nodes -> Frames]
        BY <1>8, <3>1, <3>2
      <3>4. \A n \in Nodes : {i \in frameIDs[n] \cup {f} : i > up(n)} \in SUBSET Frames
        BY <1>7, <3>1
      <3> QED
        BY <1>8, <3>1, <3>3, <3>4
    <2>2. pipeQ' \in [Nodes -> Seq(PipeCommand)]
      BY <1>8, <1>19
    <2> QED
      BY <1>2, <1>4, <1>8, <1>9, <1>15, <1>26, <2>1, <2>2 DEF Types
  <1> QED
    BY <1>8, <1>20, <1>21, <1>22, <1>24, <1>27, <1>31, <1>32, <1>33, <1>34, <1>35 DEF FrameInv

-----------------------------------------------------------------------------
(* Types.                                                                  *)

(* Every command leaves frames of the model in a node or pipe.             *)
LEMMA AfterType ==
    ASSUME NEW n, NEW c, c.frame \in Frames, NEW r \in FrameRecord
    PROVE  After(n, c, r) \in FrameRecord
  <1>1. r.current \in Frames /\ r.unlocked \in Frames /\ r.finished \in Frames
    BY DEF FrameRecord
  <1> DEFINE z == After(n, c, r)
             g == c.frame
  <1>2. /\ z.current \in {g, r.current} /\ z.unlocked \in {g, r.unlocked}
        /\ z.finished \in {g, r.finished}
        /\ z = [current |-> z.current, unlocked |-> z.unlocked, finished |-> z.finished]
    BY DEF After
  <1>3. z.current \in Frames /\ z.unlocked \in Frames /\ z.finished \in Frames
    BY <1>1, <1>2
  <1> HIDE DEF z
  <1>4. z \in FrameRecord
    BY <1>2, <1>3 DEF FrameRecord
  <1> QED
    BY <1>4 DEF z

(* A command that a node or a pipe runs leaves frame numbers in its state. *)
LEMMA RunTypes ==
    ASSUME Types, NEW n \in Nodes, NEW c, c.frame \in Frames,
           \/ RunPipe(n, c) /\ UNCHANGED <<node, replies>>
           \/ RunNode(n, c) /\ UNCHANGED pipe
    PROVE  /\ node' \in [Nodes -> FrameRecord] /\ pipe' \in [Nodes -> FrameRecord]
           /\ replies' \in [Nodes -> Seq(Frames)]
  <1>1. /\ node \in [Nodes -> FrameRecord] /\ pipe \in [Nodes -> FrameRecord]
        /\ replies \in [Nodes -> Seq(Frames)]
    BY DEF Types
  <1>2. After(n, c, node[n]) \in FrameRecord /\ After(n, c, pipe[n]) \in FrameRecord
    BY <1>1, AfterType
  <1>3. Append(replies[n], c.frame) \in Seq(Frames)
    BY <1>1, AppendProperties
  <1>4. CASE RunPipe(n, c) /\ UNCHANGED <<node, replies>>
    BY <1>1, <1>2, <1>4 DEF RunPipe
  <1>5. CASE RunNode(n, c) /\ UNCHANGED pipe
    BY <1>1, <1>2, <1>3, <1>5 DEF RunNode
  <1> QED
    BY <1>4, <1>5

(* The steps of nodes and pipes.                                           *)
LEMMA ClientTypes ==
    ASSUME Types, NEW n \in Nodes, NodeStep(n) \/ PipeStep(n)
    PROVE  Types'
  <1>1. nodeQ[n] \in Seq(NodeCommand) /\ pipeQ[n] \in Seq(PipeCommand)
    BY DEF Types
  <1>2. CASE NodeStep(n)
    <2> DEFINE c == Head(nodeQ[n])
    <2>1. /\ n # AppNode /\ nodeQ[n] # <<>> /\ nodeQ' = [nodeQ EXCEPT ![n] = Tail(nodeQ[n])]
          /\ UNCHANGED <<setup, appVars, toApp, serverVars, toServer, pipeQ>>
          /\ \/ RunPipe(n, c) /\ UNCHANGED <<node, replies>>
             \/ RunNode(n, c) /\ UNCHANGED pipe
      BY <1>2 DEF NodeStep
    <2>2. c \in NodeCommand /\ Tail(nodeQ[n]) \in Seq(NodeCommand)
      BY <1>1, <2>1, InTail
    <2>3. c.frame \in Frames
      BY <2>2 DEF NodeCommand
    <2> HIDE DEF c
    <2>4. /\ node' \in [Nodes -> FrameRecord] /\ pipe' \in [Nodes -> FrameRecord]
          /\ replies' \in [Nodes -> Seq(Frames)]
      BY <2>1, <2>3, RunTypes
    <2>5. nodeQ' \in [Nodes -> Seq(NodeCommand)] /\ nodeQ'[AppNode] = <<>>
      BY <2>1, <2>2, FrameLoopAssumption DEF Types
    <2> QED
      BY <2>1, <2>4, <2>5 DEF Types, appVars, serverVars
  <1>3. CASE PipeStep(n)
    <2> DEFINE c == Head(pipeQ[n])
    <2>1. /\ pipeQ[n] # <<>> /\ pipeQ' = [pipeQ EXCEPT ![n] = Tail(pipeQ[n])]
          /\ UNCHANGED <<setup, appVars, toApp, serverVars, toServer, nodeQ, node, replies>>
          /\ RunPipe(n, c)
      BY <1>3 DEF PipeStep
    <2>2. c \in PipeCommand /\ Tail(pipeQ[n]) \in Seq(PipeCommand)
      BY <1>1, <2>1, InTail
    <2>3. c.frame \in Frames
      BY <2>2 DEF PipeCommand
    <2> HIDE DEF c
    <2>4. pipe' \in [Nodes -> FrameRecord]
      BY <2>1, <2>3, RunTypes
    <2>5. pipeQ' \in [Nodes -> Seq(PipeCommand)]
      BY <2>1, <2>2 DEF Types
    <2> QED
      BY <2>1, <2>4, <2>5 DEF Types, appVars, serverVars
  <1> QED
    BY <1>2, <1>3

(* The commands of the application's main thread.                          *)
LEMMA ProcessTypes ==
    ASSUME Types, ProcessCommand
    PROVE  Types'
  <1> DEFINE c == Head(mainQ)
  <1>1. /\ mainQ # <<>> /\ mainQ' = Tail(mainQ)
        /\ UNCHANGED <<setup, receiver, toApp, serverVars, toServer, nodeQ, pipeQ>>
    BY DEF ProcessCommand
  <1>2. /\ \/ RunPipe(AppNode, c) /\ UNCHANGED <<node, replies>>
           \/ RunNode(AppNode, c) /\ UNCHANGED pipe
           \/ UNCHANGED <<node, pipe, replies>>
        /\ \/ app' = [app EXCEPT !.popping = FALSE]
           \/ app' = [app EXCEPT !.popping = FALSE, !.served = TRUE]
           \/ app' = [app EXCEPT !.popping = FALSE, !.unlocked = c.frame]
    BY DEF ProcessCommand
  <1>3. c \in MainCommand /\ mainQ' \in Seq(MainCommand)
    BY <1>1, InTail DEF Types
  <1>4. c.frame \in Frames /\ AppNode \in Nodes
    BY <1>3, FrameLoopAssumption DEF MainCommand
  <1> HIDE DEF c
  <1>5. app \in AppRecord
    BY DEF Types
  <1>6. app' \in AppRecord
    BY <1>2, <1>4, <1>5 DEF AppRecord
  <1>7. /\ node' \in [Nodes -> FrameRecord] /\ pipe' \in [Nodes -> FrameRecord]
        /\ replies' \in [Nodes -> Seq(Frames)]
    <2>1. CASE UNCHANGED <<node, pipe, replies>>
      BY <2>1 DEF Types
    <2>2. CASE ~(UNCHANGED <<node, pipe, replies>>)
      BY <1>2, <1>4, <2>2, RunTypes
    <2> QED
      BY <2>1, <2>2
  <1> QED
    BY <1>1, <1>3, <1>6, <1>7 DEF Types, serverVars

(* The calls of the application.                                           *)
LEMMA CallTypes ==
    ASSUME Types, FrameInv,
           StartFrame \/ RequestFrame \/ UpdateFinish \/ FinishFrame \/ LocalSync
           \/ LocalNodeSync \/ GlobalSync \/ FinishAllFrames \/ AllFinished \/ EnterPop
    PROVE  Types'
  <1>1. app \in AppRecord /\ toServer \in Seq(ServerCommand)
    BY DEF Types
  <1>2. \A t \in {"UPDATE", "START", "FINISH_ALL"} : Cmd(t, 0) \in ServerCommand
    BY FrameLoopAssumption DEF Cmd, ServerCommand, Frames
  <1>3. \A t \in {"UPDATE", "START", "FINISH_ALL"} :
            Append(toServer, Cmd(t, 0)) \in Seq(ServerCommand)
    BY <1>1, <1>2, AppendProperties
  <1>4. RequestFrame => app.current + 1 \in Frames
    <2> SUFFICES ASSUME RequestFrame
                 PROVE  app.current + 1 \in Frames
      OBVIOUS
    <2>1. app.current < LastFrame
      BY DEF RequestFrame, FrameInv, UpdateInv
    <2>2. app.current \in Frames /\ LastFrame \in Nat
      BY AppFields, FrameLoopAssumption
    <2> QED
      BY <2>1, <2>2 DEF Frames
  <1>5. UNCHANGED <<setup, mainQ, receiver, toApp, serverVars, clientVars>>
    BY DEF StartFrame, RequestFrame, UpdateFinish, FinishFrame, LocalSync, LocalNodeSync,
           GlobalSync, FinishAllFrames, AllFinished, EnterPop
  <1>6. app' \in AppRecord /\ toServer' \in Seq(ServerCommand)
    <2>1. CASE StartFrame
      BY <1>1, <1>3, <2>1 DEF StartFrame, AppRecord
    <2>2. CASE RequestFrame
      <3>1. app' = [app EXCEPT !.pc = "started", !.current = app.current + 1]
        BY <2>2 DEF RequestFrame
      <3>2. app' \in AppRecord
        BY <1>1, <1>4, <2>2, <3>1 DEF AppRecord
      <3>3. toServer' \in Seq(ServerCommand)
        BY <1>3, <2>2 DEF RequestFrame
      <3> QED
        BY <3>2, <3>3
    <2>3. CASE FinishAllFrames
      BY <1>1, <1>3, <2>3 DEF FinishAllFrames, AppRecord
    <2>4. CASE UpdateFinish \/ FinishFrame \/ LocalSync \/ LocalNodeSync \/ GlobalSync
               \/ AllFinished \/ EnterPop
      <3>1. toServer' = toServer
        BY <2>4 DEF UpdateFinish, FinishFrame, LocalSync, LocalNodeSync, GlobalSync,
                    AllFinished, EnterPop
      <3>2. \/ app' = [app EXCEPT !.popping = TRUE]
            \/ \E pc \in {"update", "unlock", "node", "global", "idle"} :
                  app' = [app EXCEPT !.pc = pc]
        BY <2>4 DEF UpdateFinish, FinishFrame, LocalSync, LocalNodeSync, GlobalSync,
                    AllFinished, EnterPop
      <3>3. app' \in AppRecord
        BY <1>1, <3>2 DEF AppRecord
      <3> QED
        BY <1>1, <3>1, <3>3
    <2> QED
      BY <2>1, <2>2, <2>3, <2>4
  <1> QED
    BY <1>5, <1>6 DEF Types, serverVars, clientVars

(* The acknowledgement, the receiver thread and the finished frame.        *)
LEMMA SmallTypes ==
    ASSUME Types, FrameInv,
           UpdateAck \/ Receive \/ EnforceUnlock \/ WaitIdle \/ \E t \in Threads : Notify(t)
    PROVE  Types'
  <1>1. /\ app \in AppRecord /\ server \in ServerRecord /\ toApp \in Seq(AppCommand)
        /\ mainQ \in Seq(MainCommand)
    BY DEF Types
  <1>2. WAKEUP \in MainCommand /\ 0 \in Frames
    BY FrameLoopAssumption DEF WAKEUP, MainCommand, MainTypes, Frames
  <1>3. CASE UpdateAck
    <2>1. app' \in AppRecord /\ server' \in ServerRecord
      BY <1>1, <1>3 DEF UpdateAck, AppRecord, ServerRecord
    <2> QED
      BY <1>3, <2>1 DEF UpdateAck, Types, clientVars
  <1>4. CASE Receive
    <2> DEFINE c == Head(toApp)
    <2>1. /\ toApp # <<>> /\ toApp' = Tail(toApp)
          /\ UNCHANGED <<setup, serverVars, toServer, clientVars>>
      BY <1>4 DEF Receive
    <2>2. c \in AppCommand /\ toApp' \in Seq(AppCommand)
      BY <1>1, <2>1, InTail
    <2>3. \/ c.type \in AnswerTypes /\ app' = [app EXCEPT !.version = c.type]
             /\ UNCHANGED <<mainQ, receiver>>
          \/ /\ app' = [app EXCEPT !.finished = c.frame]
             /\ \/ receiver' = c.frame /\ UNCHANGED mainQ
                \/ mainQ' = Append(mainQ, WAKEUP) /\ UNCHANGED receiver
          \/ /\ c.type \notin AnswerTypes \cup {"FRAME_FINISH"}
             /\ mainQ' = Append(mainQ, c) /\ UNCHANGED <<app, receiver>>
      BY <1>4 DEF Receive, AnswerTypes
    <2> HIDE DEF c
    <2>4. c.frame \in Frames /\ c.type \in MainTypes \cup AnswerTypes \cup {"FRAME_FINISH"}
      BY <2>2 DEF AppCommand
    <2>5. app' \in AppRecord
      BY <1>1, <2>3, <2>4 DEF AppRecord
    <2>6. c.type \notin AnswerTypes \cup {"FRAME_FINISH"} => c \in MainCommand
      BY <2>2 DEF AppCommand, MainCommand
    <2>7. mainQ' \in Seq(MainCommand)
      <3>1. \A x \in MainCommand : Append(mainQ, x) \in Seq(MainCommand)
        BY <1>1, AppendProperties
      <3>2. \/ mainQ' = mainQ \/ mainQ' = Append(mainQ, WAKEUP)
            \/ c \in MainCommand /\ mainQ' = Append(mainQ, c)
        BY <2>3, <2>6
      <3> QED
        BY <1>1, <1>2, <3>1, <3>2
    <2>8. receiver' \in Frames
      BY <2>3, <2>4 DEF Types
    <2> QED
      BY <2>1, <2>2, <2>5, <2>7, <2>8 DEF Types, serverVars, clientVars
  <1>5. CASE EnforceUnlock
    <2>1. app' \in AppRecord
      BY <1>1, <1>5 DEF EnforceUnlock, AppRecord
    <2>2. mainQ' \in Seq(MainCommand)
      BY <1>1, <1>2, <1>5, AppendProperties DEF EnforceUnlock
    <2> QED
      BY <1>2, <1>5, <2>1, <2>2 DEF EnforceUnlock, Types, serverVars, clientVars
  <1>6. CASE WaitIdle
    <2>1. server' \in ServerRecord
      BY <1>1, <1>6 DEF WaitIdle, ServerRecord
    <2> QED
      BY <1>6, <2>1 DEF WaitIdle, Types, appVars, clientVars
  <1>7. ASSUME NEW t \in Threads, Notify(t)
        PROVE  Types'
    <2>1. notify \in [Threads -> NotifyRecord] /\ notify[t].frame \in Frames
      BY NotifyFields DEF Types
    <2>2. notify' \in [Threads -> NotifyRecord]
      <3>1. \E pc \in {"idle", "set", "send"} : notify' = [notify EXCEPT ![t].pc = pc]
        BY <1>7 DEF Notify, NotifyCheck, NotifySet, NotifySend
      <3> QED
        BY <2>1, <3>1 DEF NotifyRecord
    <2>3. server' \in ServerRecord
      BY <1>1, <1>7, <2>1 DEF Notify, NotifyCheck, NotifySet, NotifySend, ServerRecord
    <2>4. toApp' \in Seq(AppCommand)
      <3>1. Cmd("FRAME_FINISH", notify[t].frame) \in AppCommand
        BY <2>1 DEF Cmd, AppCommand
      <3>2. toApp' = toApp \/ toApp' = Append(toApp, Cmd("FRAME_FINISH", notify[t].frame))
        BY <1>7 DEF Notify, NotifyCheck, NotifySet, NotifySend
      <3> QED
        BY <1>1, <3>1, <3>2, AppendProperties
    <2>5. UNCHANGED <<setup, appVars, active, running, flushed, finished, frameIDs, toServer,
                      clientVars>>
      BY <1>7 DEF Notify, NotifyCheck, NotifySet, NotifySend
    <2> QED
      BY <2>2, <2>3, <2>4, <2>5 DEF Types, appVars, clientVars
  <1> QED
    BY <1>3, <1>4, <1>5, <1>6, <1>7

(* The commands of the server.                                             *)
LEMMA ServerTypes ==
    ASSUME Types, FrameInv,
           CmdUpdate \/ UpdateRunning \/ CmdFinishAllFrames
           \/ \E n \in Nodes : CmdFrameFinishReply(n)
    PROVE  Types'
  <1>1. /\ server \in ServerRecord /\ toApp \in Seq(AppCommand) /\ active \in SUBSET Nodes
        /\ server.current \in Frames /\ server.finished \in Frames
    BY DEF Types, ServerRecord
  <1>2. /\ \A t \in {"go", "finish", "UPDATE_REPLY"} : Cmd(t, 0) \in AppCommand
    BY FrameLoopAssumption DEF Cmd, AppCommand, AnswerTypes, MainTypes, Frames
  <1>3. toServer # <<>> => Tail(toServer) \in Seq(ServerCommand)
    BY InTail DEF Types
  <1>4. (In(<<>>) = {} /\ Ordered(<<>>))
    BY InOne
  <1>5. <<>> \in Seq(AppCommand)
    OBVIOUS
  <1>6. CASE CmdUpdate
    <2>1. /\ MainIdle /\ toServer' = Tail(toServer) /\ Head(toServer).type = "UPDATE"
          /\ active' \in {active} \cup {s[2] : s \in {t \in Switches : t[1] = active}}
          /\ UNCHANGED <<setup, appVars, notify, running, finished, node, pipeQ, pipe, replies>>
      BY <1>6 DEF CmdUpdate
    <2>2. active' \in SUBSET Nodes
      <3>1. \A s \in (SUBSET Nodes) \X (SUBSET Nodes) : s[2] \in SUBSET Nodes
        OBVIOUS
      <3>2. \A s \in Switches : s[2] \in SUBSET Nodes
        BY <3>1, FrameLoopAssumption
      <3> QED
        BY <1>1, <2>1, <3>2
    <2>3. toServer' \in Seq(ServerCommand) /\ toServer # <<>>
      BY <1>3, <2>1 DEF MainIdle
    <2>4. CASE active' = active
      <3>1. toApp' = Append(toApp, Cmd("go", 0)) /\ UNCHANGED <<server, nodeQ, frameIDs, flushed>>
        BY <1>6, <2>4 DEF CmdUpdate
      <3>2. toApp' \in Seq(AppCommand)
        BY <1>1, <1>2, <3>1, AppendProperties
      <3> QED
        BY <2>1, <2>2, <2>3, <3>1, <3>2 DEF Types, appVars
    <2>5. CASE active' # active
      <3> DEFINE c == Cmd("finish", 0)
      <3>1. server' = [server EXCEPT !.pc = "waitIdle"] /\ FlushAllFrames(<<c>>)
        BY <1>6, <2>5 DEF CmdUpdate
      <3>2. c.type = "finish" /\ c \in AppCommand
        BY <1>2 DEF Cmd
      <3> HIDE DEF c
      <3>3. /\ In(<<c>>) = {c} /\ Ordered(<<c>>)
        BY InOne
      <3>4. <<c>> \in Seq(AppCommand)
        BY <3>2
      <3>5. /\ server' \in ServerRecord /\ server'.current = server.current
            /\ server'.finished = server.finished
        BY <1>1, <3>1 DEF ServerRecord
      <3>6. ~Answering
        BY <2>3 DEF FrameInv, UpdateInv
      <3>7. /\ setup' = setup /\ mainQ' = mainQ /\ running' = running /\ finished' = finished
            /\ node' = node /\ pipeQ' = pipeQ /\ pipe' = pipe /\ replies' = replies
        BY <2>1 DEF appVars
      <3>8. /\ toApp' \in Seq(AppCommand)
            /\ nodeQ' \in [Nodes -> Seq(NodeCommand)] /\ nodeQ'[AppNode] = <<>>
            /\ flushed' \in [Nodes -> Frames] /\ frameIDs' \in [Nodes -> SUBSET Frames]
        BY <3>1, <3>2, <3>3, <3>4, <3>5, <3>6, <3>7, AllFlushed
      <3> QED
        BY <2>1, <2>2, <2>3, <3>5, <3>8 DEF Types, appVars
    <2> QED
      BY <2>4, <2>5
  <1>7. CASE UpdateRunning
    <2> DEFINE sc == server.current
    <2>1. /\ server' = [server EXCEPT !.pc = "idle", !.acked = FALSE]
          /\ running' = active
          /\ toApp' = Append(toApp, Cmd("UPDATE_REPLY", 0))
          /\ UNCHANGED <<setup, appVars, notify, active, toServer, nodeQ, pipeQ, replies>>
      BY <1>7 DEF UpdateRunning
    <2>2. AtFrame(sc) \in FrameRecord
      BY <1>1 DEF AtFrame, FrameRecord
    <2>3. /\ flushed' \in [Nodes -> Frames] /\ finished' \in [Nodes -> Frames]
          /\ frameIDs' \in [Nodes -> SUBSET Frames]
      BY <1>1, <1>7 DEF UpdateRunning, Types
    <2>4. /\ node' \in [Nodes -> FrameRecord] /\ pipe' \in [Nodes -> FrameRecord]
      BY <1>7, <2>2 DEF UpdateRunning, Types
    <2>5. server' \in ServerRecord
      BY <1>1, <2>1 DEF ServerRecord
    <2>6. toApp' \in Seq(AppCommand)
      BY <1>1, <1>2, <2>1, AppendProperties
    <2> QED
      BY <1>1, <2>1, <2>3, <2>4, <2>5, <2>6 DEF Types, appVars
  <1>8. CASE CmdFinishAllFrames
    <2>1. /\ MainIdle /\ FlushAllFrames(<<>>) /\ toServer' = Tail(toServer)
          /\ UNCHANGED <<setup, appVars, server, notify, active, running, finished, node,
                         pipeQ, pipe, replies>>
      BY <1>8 DEF CmdFinishAllFrames
    <2>2. toServer' \in Seq(ServerCommand)
      BY <1>3, <2>1 DEF MainIdle
    <2>3. /\ setup' = setup /\ mainQ' = mainQ /\ running' = running /\ finished' = finished
          /\ node' = node /\ pipeQ' = pipeQ /\ pipe' = pipe /\ replies' = replies
          /\ server' = server
      BY <2>1 DEF appVars
    <2>4. /\ toApp' \in Seq(AppCommand)
          /\ nodeQ' \in [Nodes -> Seq(NodeCommand)] /\ nodeQ'[AppNode] = <<>>
          /\ flushed' \in [Nodes -> Frames] /\ frameIDs' \in [Nodes -> SUBSET Frames]
      BY <1>4, <1>5, <2>1, <2>3, AllFlushed
    <2> QED
      BY <2>1, <2>2, <2>4 DEF Types, appVars
  <1>9. ASSUME NEW n \in Nodes, CmdFrameFinishReply(n)
        PROVE  Types'
    <2> DEFINE f == Head(replies[n])
    <2>1. /\ replies[n] # <<>> /\ finished' = [finished EXCEPT ![n] = f]
          /\ notify' = [notify EXCEPT !["command"] = [pc |-> "check", frame |-> f]]
          /\ replies' = [replies EXCEPT ![n] = Tail(replies[n])]
          /\ UNCHANGED <<setup, appVars, toApp, server, active, running, flushed, frameIDs,
                         toServer, nodeQ, node, pipeQ, pipe>>
      BY <1>9 DEF CmdFrameFinishReply
    <2>2. f \in Frames /\ Tail(replies[n]) \in Seq(Frames)
      BY <2>1, InTail DEF Types
    <2> HIDE DEF f
    <2>3. finished' \in [Nodes -> Frames] /\ replies' \in [Nodes -> Seq(Frames)]
      BY <2>1, <2>2 DEF Types
    <2>4. notify' \in [Threads -> NotifyRecord]
      BY <2>1, <2>2 DEF Types, NotifyRecord
    <2> QED
      BY <2>1, <2>3, <2>4 DEF Types, appVars
  <1> QED
    BY <1>6, <1>7, <1>8, <1>9

-----------------------------------------------------------------------------
(* The invariant.                                                          *)

(* A new config satisfies the invariant.                                   *)
LEMMA InitFrame ==
    ASSUME Init
    PROVE  Types /\ FrameInv
  <1>1. 0 \in Frames /\ AppNode \in Nodes /\ LastFrame \in Nat
    BY FrameLoopAssumption DEF Frames
  <1>2. AtFrame(0) \in FrameRecord /\ AtFrame(0) = [current |-> 0, unlocked |-> 0, finished |-> 0]
    BY <1>1 DEF AtFrame, FrameRecord
  <1>3. /\ mainQ = <<>> /\ toApp = <<>> /\ toServer = <<>>
        /\ \A n \in Nodes : /\ nodeQ[n] = <<>> /\ pipeQ[n] = <<>> /\ replies[n] = <<>>
                            /\ node[n] = AtFrame(0) /\ pipe[n] = AtFrame(0)
                            /\ flushed[n] = 0 /\ finished[n] = 0 /\ frameIDs[n] = {}
        /\ running = active /\ active \in SUBSET Nodes
        /\ \A t \in Threads : notify[t].pc = "idle"
        /\ server.pc = "idle" /\ server.current = 0 /\ server.finished = 0 /\ ~server.acked
        /\ app.pc = "idle" /\ app.current = 0 /\ app.unlocked = 0 /\ app.finished = 0
        /\ ~app.served
    BY DEF Init
  <1>4. Types
    <2>1. app \in AppRecord /\ server \in ServerRecord
      BY <1>1 DEF Init, AppRecord, ServerRecord
    <2>2. notify \in [Threads -> NotifyRecord]
      BY <1>1 DEF Init, NotifyRecord
    <2>3. /\ flushed \in [Nodes -> Frames] /\ finished \in [Nodes -> Frames]
          /\ frameIDs \in [Nodes -> SUBSET Frames]
          /\ node \in [Nodes -> FrameRecord] /\ pipe \in [Nodes -> FrameRecord]
      BY <1>1, <1>2 DEF Init
    <2>4. /\ nodeQ \in [Nodes -> Seq(NodeCommand)] /\ pipeQ \in [Nodes -> Seq(PipeCommand)]
          /\ replies \in [Nodes -> Seq(Frames)] /\ mainQ \in Seq(MainCommand)
          /\ toApp \in Seq(AppCommand) /\ toServer \in Seq(ServerCommand)
      BY DEF Init
    <2> QED
      BY <1>1, <1>3, <2>1, <2>2, <2>3, <2>4 DEF Types, Init
  <1>5. In(<<>>) = {} /\ Ordered(<<>>)
    BY InOne
  <1>6. /\ In(mainQ) = {} /\ In(toApp) = {} /\ In(toServer) = {}
        /\ \A n \in Nodes : Stream(n) = {} /\ PipeStream(n) = {} /\ In(replies[n]) = {}
    BY <1>3, <1>5 DEF Stream, PipeStream
  <1>7. Len(<<>>) = 0 /\ 1..0 = {} /\ 0 + 1..0 = {} /\ 0 =< 0
    OBVIOUS
  <1>8. InOrder
    BY <1>3, <1>5, <1>6 DEF InOrder
  <1>9. Placed /\ StoppedInv
    BY <1>3, <1>6 DEF Placed, StoppedInv
  <1>10. RunningInv
    <2> SUFFICES ASSUME NEW n \in running
                 PROVE  /\ Chain(n) /\ Coming(n) /\ Replying(n)
                        /\ frameIDs[n] = flushed[n] + 1..server.current
                        /\ \A x \in Stream(n) : NodeAhead(x, node[n], server.current, flushed[n])
                        /\ \A x \in PipeStream(n) : PipeAhead(x, pipe[n], server.current)
      BY DEF RunningInv
    <2>1. n \in Nodes
      BY <1>3
    <2>2. /\ node[n].current = 0 /\ node[n].finished = 0 /\ pipe[n].current = 0
          /\ pipe[n].finished = 0 /\ pipe[n].unlocked = 0
      BY <1>2, <1>3, <2>1
    <2>3. Chain(n)
      BY <1>3, <1>7, <2>1, <2>2 DEF Chain
    <2>4. Coming(n) /\ Replying(n)
      BY <1>3, <1>6, <1>7, <2>1, <2>2 DEF Coming, Replying
    <2> QED
      BY <1>3, <1>6, <1>7, <2>1, <2>3, <2>4
  <1>11. NotifyInv
    <2>1. "main" \in Threads /\ "command" \in Threads
      BY DEF Threads
    <2> QED
      BY <1>3, <1>7, <2>1 DEF NotifyInv
  <1>12. ToldInv
    <2>1. Latency \in Nat
      BY <1>4, SetupFields
    <2>2. \A l \in Nat : 0 =< 0 + 1 + l /\ 0 =< 0 + l
      OBVIOUS
    <2> QED
      BY <1>3, <1>6, <1>7, <2>1, <2>2 DEF ToldInv
  <1>13. UpdateInv /\ RequestInv
    BY <1>3, <1>6, <1>7 DEF UpdateInv, RequestInv, Answering, Replied
  <1>14. LocalInv
    <2>1. pipe[AppNode].unlocked = 0
      BY <1>1, <1>2, <1>3
    <2> QED
      BY <1>3, <1>6, <1>7, <2>1 DEF LocalInv
  <1> QED
    BY <1>4, <1>8, <1>9, <1>10, <1>11, <1>12, <1>13, <1>14 DEF FrameInv

(* Every step keeps the types.                                             *)
LEMMA TypesStep ==
    ASSUME Types, FrameInv, Next
    PROVE  Types'
  <1>1. CASE StartFrame \/ FinishAllFrames
    BY <1>1, CallTypes
  <1>2. CASE AppMain
    BY <1>2, CallTypes, SmallTypes, ProcessTypes DEF AppMain
  <1>3. CASE AppReceiver
    BY <1>3, SmallTypes DEF AppReceiver
  <1>4. CASE ServerMain
    BY <1>4, ServerTypes, SmallTypes, CmdStartFrameKeeps DEF ServerMain
  <1>5. ASSUME NEW n \in Nodes, NodeStep(n) \/ PipeStep(n) \/ CmdFrameFinishReply(n)
        PROVE  Types'
    BY <1>5, ClientTypes, ServerTypes
  <1>6. ASSUME NEW t \in Threads, Notify(t)
        PROVE  Types'
    BY <1>6, SmallTypes
  <1> QED
    BY <1>1, <1>2, <1>3, <1>4, <1>5, <1>6 DEF Next

(* Every step keeps the invariant.                                         *)
LEMMA FrameStep ==
    ASSUME KeepsNodes, Types, FrameInv, Next
    PROVE  Types' /\ FrameInv'
  <1>1. Types'
    BY TypesStep
  <1>2. CASE StartFrame \/ FinishAllFrames
    BY <1>1, <1>2, StartFrameKeeps, FinishAllFramesKeeps
  <1>3. CASE AppMain
    <2>1. CASE ProcessCommand
      BY <1>1, <2>1, OwnCommandKeeps, LocalCommandKeeps
    <2>2. CASE RequestFrame \/ UpdateFinish \/ UpdateAck
      BY <1>1, <2>2, RequestFrameKeeps, UpdateFinishKeeps, UpdateAckKeeps
    <2>3. CASE FinishFrame \/ LocalSync \/ LocalNodeSync \/ GlobalSync \/ AllFinished
      BY <1>1, <2>3, FinishFrameKeeps
    <2>4. CASE EnterPop
      BY <1>1, <2>4, EnterPopKeeps
    <2> QED
      BY <1>3, <2>1, <2>2, <2>3, <2>4 DEF AppMain
  <1>4. CASE AppReceiver
    BY <1>1, <1>4, ReceiveKeeps, EnforceUnlockKeeps DEF AppReceiver
  <1>5. CASE ServerMain
    BY <1>1, <1>5, CmdUpdateKeeps, WaitIdleKeeps, UpdateRunningKeeps, CmdStartFrameKeeps,
       CmdFinishAllFramesKeeps DEF ServerMain
  <1>6. ASSUME NEW n \in Nodes, NodeStep(n) \/ PipeStep(n) \/ CmdFrameFinishReply(n)
        PROVE  FrameInv'
    BY <1>1, <1>6, NodeStepKeeps, PipeStepKeeps, CmdFrameFinishReplyKeeps
  <1>7. ASSUME NEW t \in Threads, Notify(t)
        PROVE  FrameInv'
    BY <1>7, NotifyCheckKeeps, NotifySetKeeps, NotifySendKeeps DEF Notify
  <1> QED
    BY <1>1, <1>2, <1>3, <1>4, <1>5, <1>6, <1>7 DEF Next

(* A step that changes nothing keeps it.                                   *)
LEMMA FrameStutter ==
    ASSUME Types, FrameInv, UNCHANGED vars
    PROVE  Types' /\ FrameInv'
  <1>1. /\ app' = app /\ mainQ' = mainQ /\ receiver' = receiver /\ toApp' = toApp
        /\ server' = server /\ notify' = notify /\ active' = active /\ running' = running
        /\ flushed' = flushed /\ finished' = finished /\ frameIDs' = frameIDs
        /\ nodeQ' = nodeQ /\ node' = node /\ pipeQ' = pipeQ /\ pipe' = pipe
        /\ replies' = replies /\ setup' = setup /\ toServer' = toServer
    BY DEF vars, appVars, serverVars, clientVars
  <1>2. Types'
    BY <1>1 DEF Types
  <1>3. SameTasks
    BY <1>1 DEF SameTasks, Stream
  <1>4. RunningInv' /\ StoppedInv' /\ Placed'
    BY <1>1, <1>3, AppFields, SameTasksKeep DEF FrameInv
  <1>5. InOrder' /\ NotifyInv' /\ ToldInv' /\ RequestInv'
    BY <1>1 DEF FrameInv, InOrder, NotifyInv, ToldInv, RequestInv, Latency
  <1>6. UpdateInv' /\ LocalInv'
    BY <1>1 DEF FrameInv, UpdateInv, LocalInv, Answering, Replied, Synced
  <1> QED
    BY <1>2, <1>4, <1>5, <1>6 DEF FrameInv

(* The invariant holds always.                                             *)
LEMMA FrameInvariant ==
    ASSUME KeepsNodes
    PROVE  Spec => [](Types /\ FrameInv)
  <1>1. Init => Types /\ FrameInv
    BY InitFrame
  <1>2. Types /\ FrameInv /\ [Next]_vars => (Types /\ FrameInv)'
    BY FrameStep, FrameStutter
  <1> QED
    BY <1>1, <1>2, PTL DEF Spec

-----------------------------------------------------------------------------
(* What follows from the invariant.                                        *)

(* The types the proofs use are at least as strong as those the run checks.*)
LEMMA TypesGiveTypeOK ==
    ASSUME Types
    PROVE  TypeOK
  <1>1. app \in AppRecord /\ server \in ServerRecord
    BY DEF Types
  <1>2. /\ app.current \in Frames /\ app.unlocked \in Frames /\ app.finished \in Frames
        /\ server.current \in Frames /\ server.finished \in Frames
    BY <1>1 DEF AppRecord, ServerRecord
  <1> QED
    BY <1>2 DEF Types, TypeOK

(* The chain of counters: what the application takes for finished, the     *)
(* server, the node and the pipe have finished before.                     *)
LEMMA FinishedByInvariant ==
    ASSUME Types, FrameInv
    PROVE  FinishedIsFinished
  <1> SUFFICES ASSUME NEW n \in running
               PROVE  /\ node[n].finished >= app.finished /\ pipe[n].finished >= app.finished
                      /\ node[n].finished >= server.finished /\ pipe[n].finished >= server.finished
    BY DEF FinishedIsFinished
  <1>1. n \in Nodes /\ Chain(n) /\ app.finished =< server.finished
    BY AppFields DEF FrameInv, RunningInv, ToldInv
  <1>2. app.finished \in Int
    BY AppFields
  <1> QED
    BY <1>1, <1>2, NodeFields DEF Chain

(* A start request is only under way when no node is late for it.          *)
LEMMA NoneFailsByInvariant ==
    ASSUME Types, FrameInv
    PROVE  NoNodeFails
  <1> SUFFICES ASSUME MainIdle, Head(toServer).type = "START"
               PROVE  Late(server.current) = {}
    BY DEF NoNodeFails
  <1>1. toServer \in Seq(ServerCommand) /\ toServer # <<>>
    BY DEF Types, MainIdle
  <1>2. Head(toServer) \in In(toServer)
    BY <1>1, InTail
  <1>3. server.current = app.current - 1
    BY <1>2 DEF FrameInv, RequestInv
  <1> QED
    BY <1>3, NoneLate

(* An idle application has been through the waits of its thread model.     *)
LEMMA LocalDataByInvariant ==
    ASSUME Types, FrameInv
    PROVE  LocalDataFree
  <1> SUFFICES ASSUME app.pc = "idle", AppNode \in running, setup.draws[AppNode],
                      setup.model[AppNode] # "ASYNC"
               PROVE  /\ pipe[AppNode].unlocked = app.current
                      /\ setup.model[AppNode] = "LOCAL_SYNC" =>
                            pipe[AppNode].finished = app.current
    BY DEF LocalDataFree
  <1>1. Synced
    BY DEF Synced
  <1>2. app.current =< pipe[AppNode].unlocked
    BY <1>1 DEF FrameInv, LocalInv
  <1>3. Chain(AppNode)
    BY DEF FrameInv, RunningInv
  <1>4. server.current =< app.current
    <2>1. server.current = app.current - 1 \/ server.current = app.current
      BY DEF FrameInv, RequestInv
    <2> QED
      BY <2>1, AppFields
  <1>5. /\ app.current \in Int /\ server.current \in Int /\ pipe[AppNode].unlocked \in Int
    BY AppFields, NodeFields, FrameLoopAssumption
  <1>6. pipe[AppNode].unlocked = app.current
    BY <1>2, <1>3, <1>4, <1>5 DEF Chain
  <1> QED
    BY <1>3, <1>6 DEF Chain

(* The first start in a stream is that of the next frame.                  *)
LEMMA NextFrame ==
    ASSUME NEW S, NEW t \in {"START", "PSTART"}, NEW c \in S, c.type = t, c.frame \in Int,
           NEW cur \in Int, NEW sc \in Int, cur < c.frame, c.frame =< sc,
           \A f \in cur + 1..sc : Cmd(t, f) \in S,
           \A y \in S : y = c \/ Follows(c, y)
    PROVE  cur = c.frame - 1
  <1> SUFFICES ASSUME cur # c.frame - 1
               PROVE  FALSE
    OBVIOUS
  <1> DEFINE g == c.frame - 1
             y == Cmd(t, g)
  <1>1. g \in cur + 1..sc /\ g < c.frame
    OBVIOUS
  <1>2. y \in S /\ y.type = t /\ y.frame = g
    BY <1>1 DEF Cmd
  <1>3. y # c
    BY <1>1, <1>2
  <1> HIDE DEF y, g
  <1>4. Follows(c, y)
    BY <1>2, <1>3
  <1>5. c.frame < g
    BY <1>2, <1>4 DEF Follows
  <1> QED
    BY <1>1, <1>5 DEF g

(* The next frame start in a queue is that of the frame after the current  *)
(* one: all frames up to the server's are coming, in order.                *)
LEMMA InOrderByInvariant ==
    ASSUME Types, FrameInv
    PROVE  FramesInOrder
  <1> SUFFICES ASSUME NEW n \in Nodes
               PROVE  LET q == IF n = AppNode THEN mainQ ELSE nodeQ[n] IN
                      /\ q # <<>> /\ Head(q).type = "START" => node[n].current = Head(q).frame - 1
                      /\ q # <<>> /\ Head(q).type = "PSTART" => pipe[n].current = Head(q).frame - 1
                      /\ pipeQ[n] # <<>> /\ Head(pipeQ[n]).type = "PSTART"
                            => pipe[n].current = Head(pipeQ[n]).frame - 1
    BY DEF FramesInOrder
  <1> DEFINE q == IF n = AppNode THEN mainQ ELSE nodeQ[n]
             c == Head(q)
             d == Head(pipeQ[n])
  <1>1. InOrder /\ Placed /\ RunningInv /\ StoppedInv
    BY DEF FrameInv
  <1>2. /\ node[n].current \in Int /\ pipe[n].current \in Int /\ server.current \in Int
        /\ Frames \subseteq Int
    BY NodeFields, SetupFields
  <1>3. n \in running => Coming(n)
    BY <1>1 DEF RunningInv
  <1>4. ASSUME q # <<>>, c.type \in {"START", "PSTART"}
        PROVE  /\ c \in Stream(n) /\ c.frame \in Int /\ n \in running
               /\ \A y \in Stream(n) : y = c \/ Follows(c, y)
    <2>1. /\ In(q) = In(Tail(q)) \cup {c} /\ \A y \in In(Tail(q)) : Follows(c, y)
      <3>1. CASE n = AppNode
        BY <1>1, <1>4, <3>1, InTail, OrderedTail DEF InOrder, Types
      <3>2. CASE n # AppNode
        BY <1>1, <1>4, <3>2, InTail, OrderedTail DEF InOrder, Types
      <3> QED
        BY <3>1, <3>2
    <2>2. n = AppNode => \A y \in In(toApp) : Follows(c, y)
      BY <1>1, <2>1 DEF InOrder
    <2>3. Stream(n) = IF n = AppNode THEN In(q) \cup In(toApp) ELSE In(q)
      BY DEF Stream
    <2> HIDE DEF c, q
    <2>4. c \in Stream(n) /\ c.type \in Tasks
      BY <1>4, <2>1, <2>3 DEF Tasks, NodeCommands, PipeCommands
    <2>5. c.frame \in Int /\ n \in running
      BY <1>1, <2>4, StreamFields, TaskOfRunning
    <2>6. \A y \in Stream(n) : y = c \/ Follows(c, y)
      BY <2>1, <2>2, <2>3
    <2> QED
      BY <2>4, <2>5, <2>6
  <1>5. ASSUME pipeQ[n] # <<>>, d.type = "PSTART"
        PROVE  /\ d \in PipeStream(n) /\ d.frame \in Int /\ n \in running
               /\ \A y \in PipeStream(n) : y = d \/ Follows(d, y)
    <2>1. n \in running /\ setup.threaded[n]
      BY <1>1, <1>5 DEF StoppedInv, Placed
    <2>2. /\ In(pipeQ[n]) = In(Tail(pipeQ[n])) \cup {d}
          /\ \A y \in In(Tail(pipeQ[n])) : Follows(d, y)
      BY <1>1, <1>5, InTail, OrderedTail DEF InOrder, Types
    <2>3. PipeStream(n) = In(pipeQ[n])
      BY <2>1 DEF PipeStream
    <2> HIDE DEF d
    <2> QED
      BY <2>1, <2>2, <2>3, StreamFields
  <1> HIDE DEF c, d, q
  <1>6. ASSUME q # <<>>, c.type = "START"
        PROVE  node[n].current = c.frame - 1
    <2>1. /\ c \in Stream(n) /\ c.frame \in Int /\ n \in running
          /\ \A y \in Stream(n) : y = c \/ Follows(c, y)
      BY <1>4, <1>6
    <2>2. node[n].current < c.frame /\ c.frame =< server.current
      BY <1>1, <1>6, <2>1 DEF RunningInv, NodeAhead, NodeCommands
    <2>3. \A f \in node[n].current + 1..server.current : Cmd("START", f) \in Stream(n)
      BY <1>3, <2>1 DEF Coming
    <2> QED
      BY <1>2, <1>6, <2>1, <2>2, <2>3, NextFrame
  <1>7. ASSUME q # <<>>, c.type = "PSTART"
        PROVE  pipe[n].current = c.frame - 1
    <2>1. /\ c \in Stream(n) /\ c.frame \in Int /\ n \in running
          /\ \A y \in Stream(n) : y = c \/ Follows(c, y)
      BY <1>4, <1>7
    <2>2. PipeStream(n) = Stream(n)
      BY <1>1, <1>7, <2>1 DEF Placed, PipeStream, PipeCommands
    <2>3. pipe[n].current < c.frame /\ c.frame =< server.current
      BY <1>1, <1>7, <2>1, <2>2 DEF RunningInv, PipeAhead, PipeCommands
    <2>4. \A f \in pipe[n].current + 1..server.current : Cmd("PSTART", f) \in Stream(n)
      BY <1>3, <2>1, <2>2 DEF Coming
    <2> QED
      BY <1>2, <1>7, <2>1, <2>3, <2>4, NextFrame
  <1>8. ASSUME pipeQ[n] # <<>>, d.type = "PSTART"
        PROVE  pipe[n].current = d.frame - 1
    <2>1. /\ d \in PipeStream(n) /\ d.frame \in Int /\ n \in running
          /\ \A y \in PipeStream(n) : y = d \/ Follows(d, y)
      BY <1>5, <1>8
    <2>2. pipe[n].current < d.frame /\ d.frame =< server.current
      BY <1>1, <1>8, <2>1 DEF RunningInv, PipeAhead, PipeCommands
    <2>3. \A f \in pipe[n].current + 1..server.current : Cmd("PSTART", f) \in PipeStream(n)
      BY <1>3, <2>1 DEF Coming
    <2> QED
      BY <1>2, <1>8, <2>1, <2>2, <2>3, NextFrame
  <1> QED
    BY <1>6, <1>7, <1>8 DEF q, c, d

(* The finished frame of the application and of the server.                *)
LEMMA FinishedStep ==
    ASSUME Types, FrameInv, Next
    PROVE  app'.finished >= app.finished /\ server'.finished >= server.finished
  <1>0. /\ app \in AppRecord /\ server \in ServerRecord
        /\ app.finished \in Int /\ server.finished \in Int
        /\ app.finished >= app.finished /\ server.finished >= server.finished
    BY AppFields DEF Types
  <1> DEFINE A == app'.finished = app.finished
             B == server'.finished = server.finished
  <1>1. ASSUME A, B
        PROVE  app'.finished >= app.finished /\ server'.finished >= server.finished
    BY <1>0, <1>1
  <1>2. CASE StartFrame \/ FinishAllFrames
    <2>1. A /\ B
      BY <1>0, <1>2 DEF StartFrame, FinishAllFrames, AppRecord, serverVars
    <2> QED
      BY <1>1, <2>1
  <1>3. CASE AppMain
    <2>1. CASE ProcessCommand
      <3>1. server' = server /\ \/ app' = [app EXCEPT !.popping = FALSE]
                                \/ app' = [app EXCEPT !.popping = FALSE, !.served = TRUE]
                                \/ app' = [app EXCEPT !.popping = FALSE, !.unlocked = Head(mainQ).frame]
        BY <2>1 DEF ProcessCommand, serverVars
      <3>2. A /\ B
        BY <1>0, <3>1 DEF AppRecord
      <3> QED
        BY <1>1, <3>2
    <2>2. CASE RequestFrame \/ UpdateFinish \/ FinishFrame \/ LocalSync \/ LocalNodeSync
               \/ GlobalSync \/ AllFinished \/ EnterPop
      <3>1. server' = server
        BY <2>2 DEF RequestFrame, UpdateFinish, FinishFrame, LocalSync, LocalNodeSync,
                    GlobalSync, AllFinished, EnterPop, serverVars
      <3>2. \/ app' = [app EXCEPT !.popping = TRUE]
            \/ app' = [app EXCEPT !.pc = "started", !.current = @ + 1]
            \/ \E pc \in {"update", "unlock", "node", "global", "idle"} :
                  app' = [app EXCEPT !.pc = pc]
        BY <2>2 DEF RequestFrame, UpdateFinish, FinishFrame, LocalSync, LocalNodeSync,
                    GlobalSync, AllFinished, EnterPop
      <3>3. A /\ B
        BY <1>0, <3>1, <3>2 DEF AppRecord
      <3> QED
        BY <1>1, <3>3
    <2>3. CASE UpdateAck
      <3>1. A /\ B
        BY <1>0, <2>3 DEF UpdateAck, AppRecord, ServerRecord
      <3> QED
        BY <1>1, <3>1
    <2> QED
      BY <1>3, <2>1, <2>2, <2>3 DEF AppMain
  <1>4. CASE AppReceiver
    <2>1. CASE EnforceUnlock
      <3>1. A /\ B
        BY <1>0, <2>1 DEF EnforceUnlock, AppRecord, serverVars
      <3> QED
        BY <1>1, <3>1
    <2>2. CASE Receive
      <3> DEFINE c == Head(toApp)
      <3>1. toApp # <<>> /\ toApp \in Seq(AppCommand) /\ B
        BY <2>2 DEF Receive, Types, serverVars
      <3>2. c \in In(toApp)
        BY <3>1, InTail
      <3>3. \/ app' = [app EXCEPT !.version = c.type]
            \/ c.type = "FRAME_FINISH" /\ app' = [app EXCEPT !.finished = c.frame]
            \/ app' = app
        BY <2>2 DEF Receive
      <3> HIDE DEF c
      <3>4. A \/ (c.type = "FRAME_FINISH" /\ app'.finished = c.frame)
        BY <1>0, <3>3 DEF AppRecord
      <3>5. c.type = "FRAME_FINISH" => app.finished =< c.frame /\ c.frame \in Int
        BY <3>2, AppFields DEF FrameInv, ToldInv
      <3> QED
        BY <1>0, <1>1, <3>1, <3>4, <3>5
    <2> QED
      BY <1>4, <2>1, <2>2 DEF AppReceiver
  <1>5. CASE ServerMain
    <2>1. app' = app
      BY <1>5 DEF ServerMain, CmdUpdate, WaitIdle, UpdateRunning, CmdStartFrame,
                  CmdFinishAllFrames, appVars
    <2>2. B
      <3>1. CASE CmdUpdate
        <4>1. server' = server \/ server' = [server EXCEPT !.pc = "waitIdle"]
          BY <3>1 DEF CmdUpdate
        <4> QED
          BY <1>0, <4>1 DEF ServerRecord
      <3>2. CASE WaitIdle
        BY <1>0, <3>2 DEF WaitIdle, ServerRecord
      <3>3. CASE UpdateRunning
        <4>1. server' = [server EXCEPT !.pc = "idle", !.acked = FALSE]
          BY <3>3 DEF UpdateRunning
        <4> QED
          BY <1>0, <4>1 DEF ServerRecord
      <3>4. CASE CmdStartFrame
        <4>1. server' = [server EXCEPT !.current = server.current + 1]
          BY <3>4 DEF CmdStartFrame
        <4> QED
          BY <1>0, <4>1 DEF ServerRecord
      <3>5. CASE CmdFinishAllFrames
        BY <3>5 DEF CmdFinishAllFrames
      <3> QED
        BY <1>5, <3>1, <3>2, <3>3, <3>4, <3>5 DEF ServerMain
    <2> QED
      BY <1>1, <2>1, <2>2
  <1>6. ASSUME NEW n \in Nodes, NodeStep(n) \/ PipeStep(n) \/ CmdFrameFinishReply(n)
        PROVE  app'.finished >= app.finished /\ server'.finished >= server.finished
    <2>1. A /\ B
      BY <1>6 DEF NodeStep, PipeStep, CmdFrameFinishReply, appVars, serverVars
    <2> QED
      BY <1>1, <2>1
  <1>7. ASSUME NEW t \in Threads, Notify(t)
        PROVE  app'.finished >= app.finished /\ server'.finished >= server.finished
    <2>1. A
      BY <1>7 DEF Notify, NotifyCheck, NotifySet, NotifySend, appVars
    <2>2. CASE NotifySet(t)
      <3>1. server'.finished = notify[t].frame /\ notify[t].pc = "set"
        BY <1>0, <2>2 DEF NotifySet, ServerRecord
      <3>2. server.finished =< notify[t].frame
        BY <3>1 DEF FrameInv, NotifyInv
      <3>3. notify[t].frame \in Int
        BY NotifyFields
      <3> QED
        BY <1>0, <2>1, <3>1, <3>2, <3>3
    <2>3. CASE NotifyCheck(t) \/ NotifySend(t)
      <3>1. B
        BY <2>3 DEF NotifyCheck, NotifySend
      <3> QED
        BY <1>1, <2>1, <3>1
    <2> QED
      BY <1>7, <2>2, <2>3 DEF Notify
  <1> QED
    BY <1>2, <1>3, <1>4, <1>5, <1>6, <1>7 DEF Next

(* The running nodes change in an idle config.                             *)
LEMMA ReconfigureStep ==
    ASSUME Types, FrameInv, Next, running' # running
    PROVE  \A n \in Nodes : nodeQ[n] = <<>> /\ pipeQ[n] = <<>> /\ replies[n] = <<>>
  <1>1. CASE UpdateRunning
    BY <1>1, UpdateRunningKeeps
  <1>2. CASE CmdStartFrame
    BY <1>2, CmdStartFrameKeeps
  <1>3. ~(StartFrame \/ FinishAllFrames \/ AppReceiver)
    BY DEF StartFrame, FinishAllFrames, AppReceiver, Receive, EnforceUnlock, serverVars
  <1>4. ~AppMain
    BY DEF AppMain, RequestFrame, UpdateFinish, UpdateAck, FinishFrame, LocalSync,
           LocalNodeSync, GlobalSync, AllFinished, EnterPop, ProcessCommand, serverVars
  <1>5. ~(CmdUpdate \/ WaitIdle \/ CmdFinishAllFrames)
    BY DEF CmdUpdate, WaitIdle, CmdFinishAllFrames
  <1>6. \A n \in Nodes : ~(NodeStep(n) \/ PipeStep(n) \/ CmdFrameFinishReply(n))
    BY DEF NodeStep, PipeStep, CmdFrameFinishReply, serverVars
  <1>7. \A t \in Threads : ~Notify(t)
    BY DEF Notify, NotifyCheck, NotifySet, NotifySend
  <1> QED
    BY <1>1, <1>2, <1>3, <1>4, <1>5, <1>6, <1>7 DEF Next, ServerMain

-----------------------------------------------------------------------------
(* The theorems.                                                           *)

(* Frame numbers, on every side, stay frames that the application may have *)
(* started.                                                                *)
THEOREM FrameLoopTypeCorrect ==
    ASSUME KeepsNodes
    PROVE  Spec => []TypeOK
  <1>1. Spec => [](Types /\ FrameInv)
    BY FrameInvariant
  <1>2. Types => TypeOK
    BY TypesGiveTypeOK
  <1> QED
    BY <1>1, <1>2, PTL

(* A frame that the application or the server takes for finished has been  *)
(* finished by every running node and its pipe.                            *)
THEOREM FrameLoopFinished ==
    ASSUME KeepsNodes
    PROVE  Spec => []FinishedIsFinished
  <1>1. Spec => [](Types /\ FrameInv)
    BY FrameInvariant
  <1>2. Types /\ FrameInv => FinishedIsFinished
    BY FinishedByInvariant
  <1> QED
    BY <1>1, <1>2, PTL

(* _verifyFrameFinished never takes a running node for a failed one.       *)
THEOREM FrameLoopNoNodeFails ==
    ASSUME KeepsNodes
    PROVE  Spec => []NoNodeFails
  <1>1. Spec => [](Types /\ FrameInv)
    BY FrameInvariant
  <1>2. Types /\ FrameInv => NoNodeFails
    BY NoneFailsByInvariant
  <1> QED
    BY <1>1, <1>2, PTL

(* When finishFrame has returned, the local pipe is done with the data of  *)
(* every frame started, as its thread model promises.                      *)
THEOREM FrameLoopLocalData ==
    ASSUME KeepsNodes
    PROVE  Spec => []LocalDataFree
  <1>1. Spec => [](Types /\ FrameInv)
    BY FrameInvariant
  <1>2. Types /\ FrameInv => LocalDataFree
    BY LocalDataByInvariant
  <1> QED
    BY <1>1, <1>2, PTL

(* The assertions of Node::_cmdFrameStart and Pipe::_cmdFrameStart: frames *)
(* start one after the other, also on nodes that join later.               *)
THEOREM FrameLoopInOrder ==
    ASSUME KeepsNodes
    PROVE  Spec => []FramesInOrder
  <1>1. Spec => [](Types /\ FrameInv)
    BY FrameInvariant
  <1>2. Types /\ FrameInv => FramesInOrder
    BY InOrderByInvariant
  <1> QED
    BY <1>1, <1>2, PTL

(* The finished frame never goes back, although notifyNodeFrameFinished    *)
(* runs in two threads without a lock.                                     *)
THEOREM FrameLoopNeverBack ==
    ASSUME KeepsNodes
    PROVE  Spec => NeverBack
  <1>1. Spec => [](Types /\ FrameInv)
    BY FrameInvariant
  <1>2. Types /\ FrameInv /\ [Next]_vars =>
            [app'.finished >= app.finished /\ server'.finished >= server.finished]_vars
    BY FinishedStep
  <1> QED
    BY <1>1, <1>2, PTL DEF Spec, NeverBack

(* Nodes are started and stopped only when nothing is under way.           *)
THEOREM FrameLoopReconfigureIdle ==
    ASSUME KeepsNodes
    PROVE  Spec => ReconfigureIdle
  <1>1. Spec => [](Types /\ FrameInv)
    BY FrameInvariant
  <1>2. Types /\ FrameInv /\ [Next]_vars =>
            [running' # running =>
                \A n \in Nodes : nodeQ[n] = <<>> /\ pipeQ[n] = <<>> /\ replies[n] = <<>>]_vars
    BY ReconfigureStep
  <1> QED
    BY <1>1, <1>2, PTL DEF Spec, ReconfigureIdle
=============================================================================
