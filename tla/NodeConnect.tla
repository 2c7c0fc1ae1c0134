---------------------------- MODULE NodeConnect -----------------------------
(***************************************************************************)
(* Connections between co::LocalNodes: connect( nodeID ), the handshake of *)
(* the receiver threads (CONNECT, CONNECT_REPLY, CONNECT_ACK), disconnect, *)
(* and the loss of a node.                                                 *)
(*                                                                         *)
(* A connection is a pair of ordered, reliable streams; the receiver       *)
(* thread of a node takes the next event of any of its connections, in any *)
(* order.  A node that knows the other one's descriptions is always found  *)
(* (_cmdGetNodeData), and a handshake times out only when its answer can   *)
(* no longer come.  Multicast connections are not modelled.                *)
(***************************************************************************)
EXTENDS Naturals, Sequences, FiniteSets

CONSTANTS
    Nodes,
    Tries,    \* "tries" of LocalNode::_connect, 10 in the code
    Setups    \* who connects whom, see below

\* A setup: the pairs <<n, m>> for which n's application connects m, the nodes
\* that may be lost, and the bounds: calls of connect for each pair, calls of
\* disconnect.
ASSUME ConnectAssumption ==
    /\ Tries \in Nat /\ Tries > 1
    /\ \A s \in Setups :
         /\ s.callers \subseteq {p \in Nodes \X Nodes : p[1] # p[2]}
         /\ s.mayStop \subseteq Nodes
         /\ s.calls \in Nat /\ s.disconnects \in Nat

VARIABLES
    setup,       \* the setup of this run, constant
    conns,       \* the connections opened so far: <<from, to>>
    incoming,    \* ConnectionSet of each node
    closed,      \* <<n, c>>: n has closed its end of c
    inbox,       \* packets under way to n on c
    outgoing,    \* _outgoing of the connected nodes each node knows, or NONE
    call,        \* what each caller's connect() is doing
    calls,       \* number of calls made
    disconnects, \* number of disconnects made
    alive        \* nodes that run

netVars == <<conns, incoming, closed, inbox>>
vars == <<setup, netVars, outgoing, call, calls, disconnects, alive>>

Callers == setup.callers
AllCallers == UNION {s.callers : s \in Setups}

NONE == 0
Conns == DOMAIN conns
OtherEnd(n, c) == IF conns[c][1] = n THEN conns[c][2] ELSE conns[c][1]

\* _impl->connectionNodes: the node connected through c
HasNode(n, c) == outgoing[n][OtherEnd(n, c)] = c

Connect == "CONNECT"
Accepted == "ACCEPTED"   \* CONNECT_REPLY with the node's id
Refused == "REFUSED"     \* CONNECT_REPLY without
Ack == "CONNECT_ACK"

\* A call: where it is, the connection it opened, the connection its Node
\* object is or was connected with, and the tries left
Idle == [at |-> "idle", conn |-> NONE, node |-> NONE, tries |-> 0]

Init ==
    /\ setup \in Setups
    /\ conns = <<>>
    /\ incoming = [n \in Nodes |-> {}]
    /\ closed = {}
    /\ inbox = [n \in Nodes |-> <<>>]
    /\ outgoing = [n \in Nodes |-> [m \in Nodes |-> NONE]]
    /\ call = [p \in AllCallers |-> Idle]
    /\ calls = [p \in AllCallers |-> 0]
    /\ disconnects = 0
    /\ alive = Nodes

-----------------------------------------------------------------------------
(* Streams.  A packet to an end that is closed is lost.                    *)

\* Packets on c to n' that is not closed; used by the receiver thread of n
\* after it took the packet at the head.
Send(from, c, packet) ==
    LET to == OtherEnd(from, c) IN
    inbox' = [inbox EXCEPT ![from][c] = Tail(@),
                           ![to][c] = IF <<to, c>> \in closed THEN @
                                      ELSE Append(@, packet)]

Take(n, c) == inbox' = [inbox EXCEPT ![n][c] = Tail(@)]

\* _removeConnection, which also closes
RemoveConnection(n, c) ==
    /\ incoming' = [incoming EXCEPT ![n] = @ \ {c}]
    /\ closed' = closed \cup {<<n, c>>}

-----------------------------------------------------------------------------
(* The application: connect( nodeID ).                                     *)

\* connectLock: one call of a node at a time
Calling(n) == \E p \in Callers : p[1] = n /\ call[p].at # "idle"

\* A node that is not connected is looked up by way of others, and was not
\* connected either when their answer came (_cmdGetNodeDataReply).
StartConnect(p) ==
    /\ p \in Callers /\ p[1] \in alive /\ ~Calling(p[1])
    /\ calls[p] < setup.calls
    /\ outgoing[p[1]][p[2]] = NONE
    /\ call' = [call EXCEPT ![p] = [at |-> "try", conn |-> NONE, node |-> NONE,
                                    tries |-> Tries - 1]]
    /\ calls' = [calls EXCEPT ![p] = @ + 1]
    /\ UNCHANGED <<setup, netVars, outgoing, disconnects, alive>>

Returns(p) == call' = [call EXCEPT ![p] = Idle]

\* _connect( node ) for a node that is connected by now ...
AlreadyConnected(p) ==
    /\ call[p].at = "try"
    /\ call[p].node # NONE /\ outgoing[p[1]][p[2]] = call[p].node
    /\ Returns(p)
    /\ UNCHANGED <<setup, netVars, outgoing, calls, disconnects, alive>>

\* ... or through a new connection, on which CONNECT is sent ...
OpenConnection(p) ==
    /\ call[p].at = "try"
    /\ call[p].node = NONE \/ outgoing[p[1]][p[2]] # call[p].node
    /\ p[2] \in alive
    /\ LET c == Len(conns) + 1 IN
       /\ conns' = Append(conns, p)
       /\ incoming' = [incoming EXCEPT ![p[1]] = @ \cup {c}]
       /\ inbox' = [n \in Nodes |-> Append(inbox[n], IF n = p[2] THEN <<Connect>> ELSE <<>>)]
       /\ call' = [call EXCEPT ![p] = [@ EXCEPT !.at = "wait", !.conn = c]]
    /\ UNCHANGED <<setup, closed, outgoing, calls, disconnects, alive>>

\* Mutant: tries are not counted.
NextTry_Uncounted(p) ==
    call' = [call EXCEPT ![p] = [@ EXCEPT !.at = "try", !.conn = NONE]]

\* The end of a try that failed: the peer may have connected in the meantime.
NextTry(p) ==
    LET node == IF outgoing[p[1]][p[2]] # NONE THEN outgoing[p[1]][p[2]]
                ELSE call[p].node
    IN IF call[p].tries = 1 THEN Returns(p)
       ELSE call' = [call EXCEPT ![p] = [at |-> "try", conn |-> NONE, node |-> node,
                                         tries |-> @.tries - 1]]

\* ... which fails when the node is lost (CONNECT_UNREACHABLE).
Unreachable(p) ==
    /\ call[p].at = "try"
    /\ call[p].node = NONE \/ outgoing[p[1]][p[2]] # call[p].node
    /\ p[2] \notin alive
    /\ NextTry(p)
    /\ UNCHANGED <<setup, netVars, outgoing, calls, disconnects, alive>>

\* waitRequest: CONNECT_OK, CONNECT_TRY_AGAIN, or CONNECT_TIMEOUT
Connected(p) ==
    /\ call[p].at = "served"
    /\ Returns(p)
    /\ UNCHANGED <<setup, netVars, outgoing, calls, disconnects, alive>>

TryAgain(p) ==
    /\ call[p].at = "refused"
    /\ NextTry(p)
    /\ UNCHANGED <<setup, netVars, outgoing, calls, disconnects, alive>>

Timeout(p) ==
    /\ call[p].at = "wait"
    /\ call[p].conn \notin incoming[p[1]]
    /\ Returns(p)
    /\ UNCHANGED <<setup, netVars, outgoing, calls, disconnects, alive>>

\* waitRequest of the call that waits for an answer on c
Serve(n, c, at) ==
    call' = [p \in AllCallers |-> IF p[1] = n /\ call[p].at = "wait" /\ call[p].conn = c
                               THEN [call[p] EXCEPT !.at = at] ELSE call[p]]

-----------------------------------------------------------------------------
(* The receiver thread.                                                    *)

HandleConnect(n, c) ==
    /\ n \in alive /\ conns[c][2] = n
    /\ c \notin incoming[n] /\ <<n, c>> \notin closed
    /\ incoming' = [incoming EXCEPT ![n] = @ \cup {c}]
    /\ UNCHANGED <<setup, conns, closed, inbox, outgoing, call, calls, disconnects,
                   alive>>

Receives(n, c, packet) ==
    n \in alive /\ c \in incoming[n] /\ inbox[n][c] # <<>> /\ Head(inbox[n][c]) = packet

\* _cmdConnect: "Already got node, refusing connect"
CmdConnect(n, c) ==
    LET peer == OtherEnd(n, c) IN
    /\ Receives(n, c, Connect)
    /\ \/ /\ outgoing[n][peer] # NONE
          /\ Send(n, c, Refused)
          /\ RemoveConnection(n, c)
          /\ UNCHANGED outgoing
       \/ /\ outgoing[n][peer] = NONE
          /\ outgoing' = [outgoing EXCEPT ![n][peer] = c]
          /\ Send(n, c, Accepted)
          /\ UNCHANGED <<incoming, closed>>
    /\ UNCHANGED <<setup, conns, call, calls, disconnects, alive>>

\* _cmdConnectReply, "connection refused"
CmdConnectRefused(n, c) ==
    /\ Receives(n, c, Refused)
    /\ Take(n, c)
    /\ RemoveConnection(n, c)
    /\ Serve(n, c, "refused")
    /\ UNCHANGED <<setup, conns, outgoing, calls, disconnects, alive>>

\* Mutant: the reply is taken whether the node is connected or not.
Simultaneous_Never(n, c) == FALSE

Simultaneous(n, c) == outgoing[n][OtherEnd(n, c)] # NONE

\* ... "simultaneous connect": this connection is closed, and the node
\* forgotten, but the connection it used stays open
CmdConnectSimultaneous(n, c) ==
    /\ Receives(n, c, Accepted) /\ Simultaneous(n, c)
    /\ Take(n, c)
    /\ RemoveConnection(n, c)
    /\ outgoing' = [outgoing EXCEPT ![n][OtherEnd(n, c)] = NONE]
    /\ Serve(n, c, "refused")
    /\ UNCHANGED <<setup, conns, calls, disconnects, alive>>

\* ... or the node is connected
CmdConnectReply(n, c) ==
    /\ Receives(n, c, Accepted) /\ ~Simultaneous(n, c)
    /\ outgoing' = [outgoing EXCEPT ![n][OtherEnd(n, c)] = c]
    /\ Send(n, c, Ack)
    /\ Serve(n, c, "served")
    /\ UNCHANGED <<setup, conns, incoming, closed, calls, disconnects, alive>>

CmdConnectAck(n, c) ==
    /\ Receives(n, c, Ack)
    /\ Take(n, c)
    /\ UNCHANGED <<setup, conns, incoming, closed, outgoing, call, calls,
                   disconnects, alive>>

\* Mutant: the node stays connected.
ForgetNode_Not(n, c) == outgoing' = outgoing

ForgetNode(n, c) ==
    outgoing' = IF HasNode(n, c) THEN [outgoing EXCEPT ![n][OtherEnd(n, c)] = NONE]
                ELSE outgoing

\* Mutant: a connection without a node is not removed.
HandleDisconnect_NodesOnly(n, c) ==
    /\ n \in alive /\ c \in incoming[n]
    /\ <<OtherEnd(n, c), c>> \in closed /\ inbox[n][c] = <<>>
    /\ HasNode(n, c)
    /\ RemoveConnection(n, c)
    /\ ForgetNode(n, c)
    /\ UNCHANGED <<setup, conns, inbox, call, calls, disconnects, alive>>

\* The stream has ended, after all that was sent
HandleDisconnect(n, c) ==
    /\ n \in alive /\ c \in incoming[n]
    /\ <<OtherEnd(n, c), c>> \in closed /\ inbox[n][c] = <<>>
    /\ RemoveConnection(n, c)
    /\ ForgetNode(n, c)
    /\ UNCHANGED <<setup, conns, inbox, call, calls, disconnects, alive>>

\* Mutant: the connection is not closed.
CmdDisconnect_LeavesOpen(n, c) ==
    /\ n \in alive /\ HasNode(n, c)
    /\ disconnects < setup.disconnects
    /\ disconnects' = disconnects + 1
    /\ ForgetNode(n, c)
    /\ UNCHANGED <<setup, netVars, call, calls, alive>>

\* disconnect( node ), and _cmdDisconnect
CmdDisconnect(n, c) ==
    /\ n \in alive /\ HasNode(n, c)
    /\ disconnects < setup.disconnects
    /\ disconnects' = disconnects + 1
    /\ RemoveConnection(n, c)
    /\ inbox' = [inbox EXCEPT ![n][c] = <<>>]
    /\ ForgetNode(n, c)
    /\ UNCHANGED <<setup, conns, call, calls, alive>>

\* The process of a node ends.
Stop(n) ==
    /\ n \in setup.mayStop \cap alive
    /\ alive' = alive \ {n}
    /\ incoming' = [incoming EXCEPT ![n] = {}]
    /\ closed' = closed \cup {<<n, c>> : c \in {d \in Conns : n \in {conns[d][1], conns[d][2]}}}
    /\ inbox' = [inbox EXCEPT ![n] = [c \in Conns |-> <<>>]]
    /\ outgoing' = [outgoing EXCEPT ![n] = [m \in Nodes |-> NONE]]
    /\ call' = [p \in AllCallers |-> IF p[1] = n THEN Idle ELSE call[p]]
    /\ UNCHANGED <<setup, conns, calls, disconnects>>

-----------------------------------------------------------------------------
Application(p) ==
    \/ AlreadyConnected(p) \/ OpenConnection(p) \/ Unreachable(p)
    \/ Connected(p) \/ TryAgain(p) \/ Timeout(p)

Receiver(n) == \E c \in Conns :
    \/ HandleConnect(n, c) \/ CmdConnect(n, c) \/ CmdConnectRefused(n, c)
    \/ CmdConnectSimultaneous(n, c) \/ CmdConnectReply(n, c) \/ CmdConnectAck(n, c)
    \/ HandleDisconnect(n, c)

Next ==
    \/ \E p \in AllCallers : StartConnect(p) \/ Application(p)
    \/ \E n \in Nodes : Receiver(n) \/ Stop(n)
    \/ \E n \in Nodes : \E c \in Conns : CmdDisconnect(n, c)

Spec == Init /\ [][Next]_vars

\* The threads of a node run; nobody has to connect, disconnect or stop.
Fairness ==
    /\ \A p \in AllCallers : WF_vars(Application(p))
    /\ \A n \in Nodes : WF_vars(Receiver(n))

FairSpec == Spec /\ Fairness

-----------------------------------------------------------------------------
(* Properties.                                                             *)

TypeOK ==
    /\ \A c \in Conns : conns[c] \in Callers
    /\ \A n \in Nodes :
         /\ incoming[n] \subseteq {c \in Conns : n \in {conns[c][1], conns[c][2]}}
         /\ \A c \in incoming[n] : <<n, c>> \notin closed
         /\ DOMAIN inbox[n] = Conns
         /\ \A m \in Nodes : outgoing[n][m] # NONE => outgoing[n][m] \in incoming[n]
         /\ \A c \in Conns : <<n, c>> \in closed => inbox[n][c] = <<>>
    /\ \A p \in Callers : call[p].tries < Tries
                          /\ call[p].at \in {"idle", "try", "wait", "served", "refused"}

\* Only one of two nodes connects the other.
OneSided(n, m) == ~({<<n, m>>, <<m, n>>} \subseteq Callers)

\* The two ends of a connection agree if only one of two nodes connects the
\* other: when a node has its peer connected through a connection, so has the
\* peer, or it will learn of it by the reply that is under way, or it has
\* closed its end, which ends this one.
EndsAgree ==
    \A n \in alive : \A c \in incoming[n] :
        LET peer == OtherEnd(n, c) IN
        OneSided(n, peer) /\ HasNode(n, c) =>
            \/ HasNode(peer, c)
            \/ inbox[peer][c] # <<>> /\ Head(inbox[peer][c]) = Accepted
            \/ <<peer, c>> \in closed

\* The assertion of _handleData and _cmdConnectAck: only the packets of the
\* handshake arrive on a connection without a node.
NodeKnown ==
    \A n \in alive : \A c \in incoming[n] :
        inbox[n][c] # <<>> /\ Head(inbox[n][c]) = Ack => HasNode(n, c)

\* connect() returns: answered, refused, or given up.
ConnectReturns ==
    \A p \in AllCallers : call[p].at # "idle" ~> call[p].at = "idle"

\* In the end two nodes of which only one connects the other see each other
\* alike, and no connection is left open between them that is of no node.
Settles ==
    <>[](\A n \in alive : \A c \in incoming[n] :
            OneSided(n, OtherEnd(n, c)) =>
                HasNode(n, c) /\ HasNode(OtherEnd(n, c), c))

\* Two nodes that connect each other at the same time do not stay connected
\* through two different connections.
Crossed(n, m) ==
    outgoing[n][m] # NONE /\ outgoing[m][n] # NONE /\ outgoing[n][m] # outgoing[m][n]

CrossingEnds ==
    \A p \in AllCallers : Crossed(p[1], p[2]) ~> ~Crossed(p[1], p[2])
=============================================================================
