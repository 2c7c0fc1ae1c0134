------------------------------ MODULE Barrier -------------------------------
(***************************************************************************)
(* co::Barrier, the networked, versioned barrier of Collage, and its use   *)
(* as the swap barrier of Equalizer (eq::Window::_enterBarrier).           *)
(*                                                                         *)
(* Each user is a pipe thread of some node.  The threads of a node share   *)
(* one mapped instance: its version and its leaveNotify monitor.  One node *)
(* is the barrier's master: its command thread counts the enter packets    *)
(* and sends one reply to each distinct node once "height" were counted.   *)
(*                                                                         *)
(* Equalizer commits the barrier for every frame (CommitEachRound), and    *)
(* users enter a new version in each round; the tests enter the same       *)
(* version over and over.  The timeout of enter() is finite if and only    *)
(* if Timed.  Time is abstracted: a timed wait may expire at any moment.   *)
(* A setup says which of these a behaviour is about.                       *)
(***************************************************************************)
EXTENDS Integers, Sequences, FiniteSets

CONSTANTS
    Users,    \* the threads that enter the barrier
    Nodes,    \* the nodes they run on
    Master,   \* the node of Barrier::masterID
    Setups    \* how the barrier is used, see below

\* A setup: the node of each user; whether every round uses a new version of the
\* barrier; whether enter() is called with a finite timeout; and the bound, the
\* rounds each user enters.
ASSUME BarrierAssumption ==
    /\ IsFiniteSet(Users) /\ Cardinality(Users) > 1
    /\ \A s \in Setups :
         /\ s.nodeOf \in [Users -> Nodes]
         /\ \E u \in Users : s.nodeOf[u] = Master
         /\ s.commitEachRound \in BOOLEAN /\ s.timed \in BOOLEAN
         /\ s.lastRound \in Nat \ {0}

VARIABLES
    setup,        \* the setup of this run, constant
    version,      \* Object::getVersion of each node's instance
    leaveNotify,  \* the leaveNotify monitor of each node's instance
    pc,           \* where each user is
    round,        \* the round each user entered last or is about to enter
    leaveVal,     \* the local leaveVal of each user's enter()
    enter,        \* BarrierEnterPackets under way from each node to the master
    reply,        \* BarrierEnterReplyPackets under way to each node
    enteredNodes, \* on the master, the Request of each version
    left,         \* history: the rounds each user returned from normally
    gaveUp        \* history: the rounds each user got a timeout exception from

vars == <<setup, version, leaveNotify, pc, round, leaveVal, enter, reply,
          enteredNodes, left, gaveUp>>

userVars == <<pc, round, leaveVal, left, gaveUp>>

NodeOf == setup.nodeOf
CommitEachRound == setup.commitEachRound
Timed == setup.timed
LastRound == setup.lastRound

\* Mutant: the barrier is reached one user early.
height_OneLess == Cardinality(Users) - 1

height == Cardinality(Users)
Rounds == 1..LastRound
Versions == IF CommitEachRound THEN Rounds ELSE {1}
VersionOf(r) == IF CommitEachRound THEN r ELSE 1

\* A request without nodes is one that is not in enteredNodes.
NoRequest == [nodes |-> <<>>, incarnation |-> 0]

Init ==
    /\ setup \in Setups
    /\ version = [n \in Nodes |-> 1]
    /\ leaveNotify = [n \in Nodes |-> 0]
    /\ pc = [u \in Users |-> "idle"]
    /\ round = [u \in Users |-> 0]
    /\ leaveVal = [u \in Users |-> 0]
    /\ enter = [n \in Nodes |-> <<>>]
    /\ reply = [n \in Nodes |-> <<>>]
    /\ enteredNodes = [v \in Versions |-> NoRequest]
    /\ left = [u \in Users |-> {}]
    /\ gaveUp = [u \in Users |-> {}]

-----------------------------------------------------------------------------
(* The users.                                                              *)

(* Node::getBarrier, which holds the lock of _barriers while it syncs: the *)
(* instance is already at the version of the round ...                     *)
GetBarrier(u) ==
    /\ pc[u] = "idle"
    /\ round[u] < LastRound
    /\ \A other \in Users : NodeOf[other] = NodeOf[u] => pc[other] # "syncing"
    /\ version[NodeOf[u]] >= VersionOf(round[u] + 1)
    /\ round' = [round EXCEPT ![u] = @ + 1]
    /\ pc' = [pc EXCEPT ![u] = "synced"]
    /\ UNCHANGED <<setup, version, leaveNotify, leaveVal, enter, reply,
                   enteredNodes, left, gaveUp>>

(* ... or has to apply it: unpack() resets leaveNotify first ...           *)
Unpack(u) ==
    /\ pc[u] = "idle"
    /\ round[u] < LastRound
    /\ \A other \in Users : NodeOf[other] = NodeOf[u] => pc[other] # "syncing"
    /\ version[NodeOf[u]] < VersionOf(round[u] + 1)
    /\ round' = [round EXCEPT ![u] = @ + 1]
    /\ leaveNotify' = [leaveNotify EXCEPT ![NodeOf[u]] = 0]
    /\ pc' = [pc EXCEPT ![u] = "syncing"]
    /\ UNCHANGED <<setup, version, leaveVal, enter, reply, enteredNodes, left,
                   gaveUp>>

(* ... and _unpackOneVersion then sets the version, one at a time.         *)
SetVersion(u) ==
    /\ pc[u] = "syncing"
    /\ version' = [version EXCEPT ![NodeOf[u]] = @ + 1]
    /\ IF version[NodeOf[u]] + 1 = VersionOf(round[u])
       THEN /\ pc' = [pc EXCEPT ![u] = "synced"]
            /\ UNCHANGED leaveNotify
       ELSE /\ leaveNotify' = [leaveNotify EXCEPT ![NodeOf[u]] = 0]
            /\ UNCHANGED pc
    /\ UNCHANGED <<setup, round, leaveVal, enter, reply, enteredNodes, left,
                   gaveUp>>

(* enter() up to its wait.                                                 *)
Enter(u) ==
    LET n == NodeOf[u] IN
    /\ pc[u] = "synced"
    /\ leaveVal' = [leaveVal EXCEPT ![u] = leaveNotify[n] + 1]
    /\ enter' = [enter EXCEPT ![n] =
                    Append(@, [version |-> version[n],
                               incarnation |-> leaveNotify[n]])]
    /\ pc' = [pc EXCEPT ![u] = "waiting"]
    /\ UNCHANGED <<setup, version, leaveNotify, round, reply, enteredNodes,
                   left, gaveUp>>

(* waitEQ or timedWaitEQ sees the value it waits for.                      *)
Leave(u) ==
    /\ pc[u] = "waiting"
    /\ leaveNotify[NodeOf[u]] = leaveVal[u]
    /\ pc' = [pc EXCEPT ![u] = "idle"]
    /\ left' = [left EXCEPT ![u] = @ \cup {round[u]}]
    /\ UNCHANGED <<setup, version, leaveNotify, round, leaveVal, enter, reply,
                   enteredNodes, gaveUp>>

(* timedWaitEQ expires: the exception, which the caller catches before it  *)
(* goes on to its next round.                                              *)
TimeoutBarrier(u) ==
    /\ Timed
    /\ pc[u] = "waiting"
    /\ leaveNotify[NodeOf[u]] # leaveVal[u]
    /\ pc' = [pc EXCEPT ![u] = "idle"]
    /\ gaveUp' = [gaveUp EXCEPT ![u] = @ \cup {round[u]}]
    /\ UNCHANGED <<setup, version, leaveNotify, round, leaveVal, enter, reply,
                   enteredNodes, left>>

-----------------------------------------------------------------------------
(* The command threads.                                                    *)

\* Mutant: the local users are not told.
SendNotify_RemoteOnly(v, nodes) ==
    /\ UNCHANGED leaveNotify
    /\ reply' = [n \in Nodes |-> IF n \in nodes \ {Master}
                                 THEN Append(reply[n], v) ELSE reply[n]]

(* _sendNotify to each of a set of nodes: the local one directly, and only *)
(* if its version is still the one that was entered.                       *)
SendNotify(v, nodes) ==
    /\ leaveNotify' = IF Master \in nodes /\ v = version[Master]
                      THEN [leaveNotify EXCEPT ![Master] = @ + 1]
                      ELSE leaveNotify
    /\ reply' = [n \in Nodes |-> IF n \in nodes \ {Master}
                                 THEN Append(reply[n], v) ELSE reply[n]]

(* The request after an enter packet of node n was counted: a packet of an *)
(* earlier incarnation starts a new synchronization.                       *)
Counted(n, p) ==
    LET request == enteredNodes[p.version]
        restart == \/ request.nodes = <<>>
                   \/ Timed /\ p.incarnation < request.incarnation
    IN  IF restart
        THEN [nodes |-> <<n>>, incarnation |-> p.incarnation]
        ELSE [request EXCEPT !.nodes = Append(@, n)]

\* Mutant: the nodes of a barrier that was reached are not forgotten.
Erase_Keeps(requests, v) == requests

(* The request of a barrier that was reached is deleted.                   *)
Erase(requests, v) == [requests EXCEPT ![v] = NoRequest]

(* _cleanup: at most one other request, one whose timeout has passed, is   *)
(* forgotten.                                                              *)
Cleanup(requests, v) ==
    {requests} \cup {Erase(requests, w) :
                        w \in {w \in Versions \ {v} : Timed}}

(* A packet with a newer incarnation than the request it would join is     *)
(* answered at once.                                                       *)
Outdated(p) ==
    /\ Timed
    /\ enteredNodes[p.version].nodes # <<>>
    /\ enteredNodes[p.version].incarnation < p.incarnation

(* An enter of a version the master has left behind: after a timeout.      *)
Late(p) == Timed /\ p.version < version[Master]

(* The last user has entered.  Enters of a later version than the master's *)
(* are only noted.                                                         *)
Reached(p, request) ==
    p.version =< version[Master] /\ Len(request.nodes) >= height

(* _cmdEnter on the master, for the next packet of node n.                 *)
CmdEnter(n) ==
    /\ enter[n] # <<>>
    /\ enter' = [enter EXCEPT ![n] = Tail(@)]
    /\ LET p == Head(enter[n])
           request == Counted(n, p)
           counted == [enteredNodes EXCEPT ![p.version] = request]
       IN  \/ /\ Outdated(p)
              /\ SendNotify(p.version, {n})
              /\ UNCHANGED enteredNodes
           \/ /\ ~Outdated(p)
              /\ \E requests \in Cleanup(counted, p.version) :
                    \/ /\ Late(p)
                       /\ SendNotify(p.version, {n})
                       /\ enteredNodes' = requests
                    \/ /\ ~Late(p) /\ Reached(p, request)
                       /\ SendNotify(p.version,
                              {request.nodes[k] : k \in 1..Len(request.nodes)})
                       /\ enteredNodes' = Erase(requests, p.version)
                    \/ /\ ~Late(p) /\ ~Reached(p, request)
                       /\ enteredNodes' = requests
                       /\ UNCHANGED <<leaveNotify, reply>>
    /\ UNCHANGED <<setup, version, userVars>>

CmdEnterReply(n) ==
    /\ reply[n] # <<>>
    /\ reply' = [reply EXCEPT ![n] = Tail(@)]
    /\ leaveNotify' = IF Head(reply[n]) = version[n]
                      THEN [leaveNotify EXCEPT ![n] = @ + 1]
                      ELSE leaveNotify
    /\ UNCHANGED <<setup, version, enter, enteredNodes, userVars>>

-----------------------------------------------------------------------------
UserStep(u) ==
    \/ GetBarrier(u)
    \/ Unpack(u)
    \/ SetVersion(u)
    \/ Enter(u)
    \/ Leave(u)

Next ==
    \/ \E u \in Users : UserStep(u) \/ TimeoutBarrier(u)
    \/ \E n \in Nodes : CmdEnter(n) \/ CmdEnterReply(n)

Spec == Init /\ [][Next]_vars

(* Every thread that can run does: the pipe threads, the command thread of *)
(* each node.  A timed wait ends at the latest with its timeout.  Weak     *)
(* fairness: a thread that sleeps in waitEQ while another one changes the  *)
(* monitor to and fro is not bound to see each value.                      *)
Fairness ==
    /\ \A u \in Users : WF_vars(UserStep(u) \/ TimeoutBarrier(u))
    /\ \A n \in Nodes : WF_vars(CmdEnter(n)) /\ WF_vars(CmdEnterReply(n))

FairSpec == Spec /\ Fairness

-----------------------------------------------------------------------------
(* Type invariant: the packets and requests name versions of the barrier,  *)
(* and the master never counts more enters than its height before it       *)
(* releases them (_cmdEnter asserts nodes.size() == height when reached).  *)
TypeOK ==
    /\ version \in [Nodes -> Versions]
    /\ leaveNotify \in [Nodes -> Nat]
    /\ pc \in [Users -> {"idle", "syncing", "synced", "waiting"}]
    /\ round \in [Users -> 0..LastRound]
    /\ leaveVal \in [Users -> Nat]
    /\ \A n \in Nodes :
          /\ \A k \in 1..Len(enter[n]) : enter[n][k].version \in Versions
          /\ \A k \in 1..Len(reply[n]) : reply[n][k] \in Versions
    /\ \A v \in Versions : Len(enteredNodes[v].nodes) =< height
    /\ left \in [Users -> SUBSET Rounds]
    /\ gaveUp \in [Users -> SUBSET Rounds]

HasEntered(u, r) ==
    \/ round[u] > r
    \/ round[u] = r /\ pc[u] \in {"waiting", "idle"}

(* The barrier: a user returns normally from enter() in a round only when  *)
(* every user has entered it (barrier.h: "blocks until the barrier has     *)
(* been reached"), or someone has given up this round or an earlier one    *)
(* with a timeout: a reply that comes late may be counted for the round    *)
(* that follows it.                                                        *)
LeavesTogether ==
    \A u \in Users : \A r \in left[u] :
        \/ \A other \in Users : HasEntered(other, r)
        \/ \E other \in Users : \E q \in gaveUp[other] : q =< r

(* No user blocks in enter() for ever: all rounds are completed.  In       *)
(* particular a reply that releases the users of a node wakes all of them. *)
AllRoundsComplete ==
    <>(\A u \in Users : round[u] = LastRound /\ pc[u] = "idle")
=============================================================================
