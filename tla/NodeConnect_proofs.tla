-------------------------- MODULE NodeConnect_proofs --------------------------
(***************************************************************************)
(* Proofs about the connections between nodes: the state stays well formed *)
(* and the two ends of a connection agree, for any set of nodes, any       *)
(* callers and any number of tries.                                        *)
(*                                                                         *)
(* EndsAgree is not inductive.  NetInv adds what is under way on each      *)
(* connection at each step of the handshake (Handshake), and, for pairs of *)
(* which one node connects the other, that the caller never has more than  *)
(* one connection open to its peer, the one its call waits for or the one  *)
(* the peer is connected through (OneConnection).                          *)
(***************************************************************************)
EXTENDS NodeConnect, SequenceTheorems, TLAPS

Packets == {Connect, Accepted, Refused, Ack}
CallStates == {"idle", "try", "wait", "served", "refused"}

Types ==
    /\ setup \in Setups
    /\ conns \in Seq(Callers)
    /\ incoming \in [Nodes -> SUBSET Conns]
    /\ closed \subseteq Nodes \X Conns
    /\ inbox \in [Nodes -> Seq(Seq(Packets))]
    /\ \A n \in Nodes : Len(inbox[n]) = Len(conns)
    /\ outgoing \in [Nodes -> [Nodes -> Nat]]
    /\ call \in [AllCallers -> [at : CallStates, conn : Nat, node : Nat, tries : Nat]]
    /\ alive \subseteq Nodes

(* A call that is under way is one of the setup's, has tries left, and     *)
(* waits for an answer on a connection it opened.                          *)
CallsRun ==
    \A p \in AllCallers :
        /\ call[p].at # "idle" => p \in Callers /\ call[p].tries > 0
        /\ call[p].tries < Tries
        /\ call[p].at = "wait" => call[p].conn \in Conns /\ conns[call[p].conn] = p

(* A node listens on its ends of connections, as long as it has not closed *)
(* them; those it is connected to its peers through are among them.        *)
Listening ==
    \A n \in Nodes :
        /\ \A c \in incoming[n] : n \in {conns[c][1], conns[c][2]}
        /\ \A c \in incoming[n] : <<n, c>> \notin closed
        /\ \A m \in Nodes : outgoing[n][m] # NONE =>
              /\ outgoing[n][m] \in incoming[n]
              /\ m = OtherEnd(n, outgoing[n][m])
        /\ \A c \in Conns : <<n, c>> \in closed => inbox[n][c] = <<>>

(* What is under way on each connection.                                   *)
Handshake ==
    \A c \in Conns :
        LET a == conns[c][1]
            b == conns[c][2]
        IN  /\ inbox[b][c] \in {<<>>, <<Connect>>, <<Ack>>}
            /\ inbox[a][c] \in {<<>>, <<Accepted>>, <<Refused>>}
            /\ inbox[b][c] # <<>> => inbox[a][c] = <<>>
            /\ inbox[b][c] = <<Connect>> => outgoing[a][b] # c /\ outgoing[b][a] # c
            /\ inbox[a][c] # <<>> => outgoing[a][b] # c

Single(p) == <<p[2], p[1]>> \notin Callers

(* The callers whose peers do not call them.                               *)
OneConnection ==
    \A p \in Callers : Single(p) =>
        /\ call[p].at \in {"try", "wait", "refused"} => outgoing[p[1]][p[2]] = NONE
        /\ \A c \in Conns : conns[c] = p =>
              /\ c \in incoming[p[1]] =>
                    \/ outgoing[p[1]][p[2]] = c
                    \/ call[p].at = "wait" /\ call[p].conn = c
              /\ outgoing[p[1]][p[2]] = c \/ inbox[p[1]][c] = <<Accepted>> =>
                    outgoing[p[2]][p[1]] = c \/ <<p[2], c>> \in closed
              /\ outgoing[p[2]][p[1]] = c =>
                    \/ outgoing[p[1]][p[2]] = c
                    \/ inbox[p[1]][c] = <<Accepted>>
                    \/ <<p[1], c>> \in closed

NetInv == Types /\ CallsRun /\ Listening /\ Handshake /\ OneConnection

-----------------------------------------------------------------------------
(* A stream that holds one packet or none.                                 *)
LEMMA OnePacket ==
    ASSUME NEW x
    PROVE  /\ Head(<<x>>) = x /\ Tail(<<x>>) = <<>> /\ Append(<<>>, x) = <<x>>
           /\ <<x>> # <<>>
  OBVIOUS

(* One-packet streams are equal only with equal packets.                   *)
LEMMA TwoPackets ==
    ASSUME NEW x, NEW y, <<x>> = <<y>>
    PROVE  x = y
  OBVIOUS

(* The two ends of a connection.                                           *)
LEMMA TwoEnds ==
    ASSUME Types, NEW c \in Conns
    PROVE  /\ conns[c] \in Callers /\ conns[c] \in AllCallers
           /\ conns[c][1] \in Nodes /\ conns[c][2] \in Nodes
           /\ conns[c][1] # conns[c][2]
           /\ conns[c] = <<conns[c][1], conns[c][2]>>
           /\ OtherEnd(conns[c][1], c) = conns[c][2]
           /\ OtherEnd(conns[c][2], c) = conns[c][1]
           /\ c \in Nat /\ c # NONE /\ c \in 1..Len(conns)
  <1>1. conns[c] \in Callers /\ c \in 1..Len(conns) /\ setup \in Setups
        BY DEF Types, Conns
  <1>2. conns[c] \in AllCallers
        BY <1>1 DEF AllCallers, Callers
  <1>3. conns[c] \in {p \in Nodes \X Nodes : p[1] # p[2]}
        BY <1>1, ConnectAssumption DEF Callers
  <1> QED BY <1>1, <1>2, <1>3 DEF OtherEnd, NONE

(* The first state.                                                        *)
LEMMA NetInit ==
    Init => NetInv
  <1> SUFFICES ASSUME Init PROVE NetInv
      OBVIOUS
  <1>1. conns = <<>> /\ Conns = {} /\ Len(conns) = 0
        BY DEF Init, Conns
  <1>2. Types
    <2>1. \A n \in Nodes : inbox[n] = <<>> /\ <<>> \in Seq(Seq(Packets))
          BY DEF Init
    <2>2. Idle \in [at : CallStates, conn : Nat, node : Nat, tries : Nat]
          BY DEF Idle, CallStates, NONE
    <2> QED BY <1>1, <2>1, <2>2 DEF Types, Init, NONE
  <1>3. CallsRun
        BY ConnectAssumption DEF CallsRun, Init, Idle
  <1>4. Listening
        BY <1>1 DEF Listening, Init
  <1>5. Handshake
        BY <1>1 DEF Handshake
  <1>6. OneConnection
    <2>1. \A p \in Callers : p \in AllCallers /\ p[1] \in Nodes /\ p[2] \in Nodes
          BY ConnectAssumption DEF Init, Callers, AllCallers
    <2> QED BY <1>1, <2>1 DEF OneConnection, Init
  <1> QED BY <1>2, <1>3, <1>4, <1>5, <1>6 DEF NetInv

-----------------------------------------------------------------------------
(* The application.                                                        *)

CallRecord == [at : CallStates, conn : Nat, node : Nat, tries : Nat]

(* A step of a call: nothing else changes, and the call does not forget a  *)
(* connection it waits for.                                                *)
LEMMA CallStep ==
    ASSUME NetInv, NEW p \in AllCallers, NEW r \in CallRecord,
           UNCHANGED <<setup, netVars, outgoing, alive>>,
           call' = [call EXCEPT ![p] = r],
           r.at # "wait", r.at # "idle" => p \in Callers /\ r.tries > 0,
           r.tries < Tries,
           r.at \in {"try", "wait", "refused"} =>
               outgoing[p[1]][p[2]] = NONE \/ call[p].at \in {"try", "wait", "refused"},
           call[p].at = "wait" => call[p].conn \notin incoming[p[1]]
    PROVE  NetInv'
  <1>0. /\ setup' = setup /\ conns' = conns /\ incoming' = incoming /\ closed' = closed
        /\ inbox' = inbox /\ outgoing' = outgoing /\ alive' = alive
        /\ Conns' = Conns /\ Callers' = Callers
        BY DEF netVars, Conns, Callers
  <1>1. /\ call' \in [AllCallers -> CallRecord]
        /\ call'[p] = r
        /\ \A q \in AllCallers : q # p => call'[q] = call[q]
        BY DEF NetInv, Types, CallRecord
  <1>2. Types'
        BY <1>0, <1>1, SMTT(30) DEF NetInv, Types, CallRecord
  <1>3. CallsRun'
        BY <1>0, <1>1 DEF NetInv, CallsRun
  <1>4. Listening' /\ Handshake'
        BY <1>0 DEF NetInv, Listening, Handshake, OtherEnd
  <1>5. OneConnection'
    <2> SUFFICES ASSUME NEW q \in Callers, Single(q)
                 PROVE  /\ call'[q].at \in {"try", "wait", "refused"} =>
                              outgoing[q[1]][q[2]] = NONE
                        /\ \A c \in Conns : conns[c] = q =>
                              /\ c \in incoming[q[1]] =>
                                    \/ outgoing[q[1]][q[2]] = c
                                    \/ call'[q].at = "wait" /\ call'[q].conn = c
                              /\ outgoing[q[1]][q[2]] = c \/ inbox[q[1]][c] = <<Accepted>> =>
                                    outgoing[q[2]][q[1]] = c \/ <<q[2], c>> \in closed
                              /\ outgoing[q[2]][q[1]] = c =>
                                    \/ outgoing[q[1]][q[2]] = c
                                    \/ inbox[q[1]][c] = <<Accepted>>
                                    \/ <<q[1], c>> \in closed
        BY <1>0 DEF OneConnection, Single
    <2>1. q \in AllCallers
          BY DEF NetInv, Types, AllCallers, Callers
    <2>2. CASE q # p
          BY <1>1, <2>1, <2>2 DEF NetInv, OneConnection
    <2>3. CASE q = p
          BY <1>1, <2>3 DEF NetInv, OneConnection
    <2> QED BY <2>2, <2>3
  <1> QED BY <1>2, <1>3, <1>4, <1>5 DEF NetInv

(* The record of a call that is not made.                                  *)
LEMMA IdleCall ==
    Idle \in CallRecord /\ Idle.at = "idle" /\ Idle.tries = 0
  BY DEF Idle, CallRecord, CallStates, NONE

(* The end of a try that failed.                                           *)
LEMMA NextTryStep ==
    ASSUME NetInv, NEW p \in AllCallers, NextTry(p), call[p].at \in {"try", "refused"},
           p[1] \in Nodes, p[2] \in Nodes,
           UNCHANGED <<setup, netVars, outgoing, alive>>
    PROVE  NetInv'
  <1>1. call[p] \in CallRecord /\ p \in Callers /\ call[p].tries > 0 /\ call[p].tries < Tries
        BY DEF NetInv, Types, CallRecord, CallsRun
  <1>2. outgoing[p[1]][p[2]] \in Nat
        BY DEF NetInv, Types
  <1>3. CASE call[p].tries = 1
    <2>1. call' = [call EXCEPT ![p] = Idle]
          BY <1>3 DEF NextTry, Returns
    <2>2. Idle.tries < Tries
          BY ConnectAssumption, IdleCall
    <2> QED BY <2>1, <2>2, IdleCall, CallStep
  <1>4. CASE call[p].tries # 1
    <2> DEFINE node == IF outgoing[p[1]][p[2]] # NONE THEN outgoing[p[1]][p[2]]
                       ELSE call[p].node
               r == [at |-> "try", conn |-> NONE, node |-> node, tries |-> call[p].tries - 1]
    <2>1. call' = [call EXCEPT ![p] = r]
          BY <1>4 DEF NextTry, NetInv, Types
    <2>2. call[p].node \in Nat /\ call[p].tries \in Nat
          BY <1>1 DEF CallRecord
    <2>3. r \in CallRecord
          BY <1>1, <1>2, <1>4, <2>2 DEF CallRecord, CallStates, NONE
    <2>4. r.at = "try" /\ r.tries > 0 /\ r.tries < Tries
          BY <1>1, <1>4, <2>2, ConnectAssumption
    <2> HIDE DEF r
    <2> QED BY <1>1, <2>1, <2>3, <2>4, CallStep
  <1> QED BY <1>3, <1>4

(* The callers are pairs of different nodes.                               *)
LEMMA CallerPair ==
    ASSUME NEW p \in AllCallers
    PROVE  p[1] \in Nodes /\ p[2] \in Nodes /\ p[1] # p[2] /\ p = <<p[1], p[2]>>
  BY ConnectAssumption DEF AllCallers

(* The steps of connect() that open no connection.                         *)
LEMMA ApplicationStep ==
    ASSUME NetInv, NEW p \in AllCallers,
           \/ StartConnect(p) \/ AlreadyConnected(p) \/ Unreachable(p)
           \/ Connected(p) \/ TryAgain(p) \/ Timeout(p)
    PROVE  NetInv'
  <1>1. Idle.tries < Tries
        BY ConnectAssumption, IdleCall
  <1>2. CASE StartConnect(p)
    <2> DEFINE r == [at |-> "try", conn |-> NONE, node |-> NONE, tries |-> Tries - 1]
    <2>1. call' = [call EXCEPT ![p] = r] /\ p \in Callers
          BY <1>2 DEF StartConnect
    <2>2. r \in CallRecord /\ r.at = "try" /\ r.tries = Tries - 1
      <3>1. Tries - 1 \in Nat
            BY ConnectAssumption
      <3> QED BY <3>1 DEF CallRecord, CallStates, NONE
    <2>3. r.tries > 0 /\ r.tries < Tries
          BY <2>2, ConnectAssumption
    <2>4. outgoing[p[1]][p[2]] = NONE /\ call[p].at # "wait"
          BY <1>2 DEF StartConnect, Calling
    <2>5. UNCHANGED <<setup, netVars, outgoing, alive>>
          BY <1>2 DEF StartConnect
    <2> HIDE DEF r
    <2> QED BY <2>1, <2>2, <2>3, <2>4, <2>5, CallStep
  <1>3. CASE AlreadyConnected(p) \/ Connected(p) \/ Timeout(p)
    <2>1. /\ call' = [call EXCEPT ![p] = Idle]
          /\ UNCHANGED <<setup, netVars, outgoing, alive>>
          /\ call[p].at = "wait" => call[p].conn \notin incoming[p[1]]
          BY <1>3 DEF AlreadyConnected, Connected, Timeout, Returns
    <2> QED BY <1>1, <2>1, IdleCall, CallStep
  <1>4. CASE Unreachable(p) \/ TryAgain(p)
        BY <1>4, CallerPair, NextTryStep DEF Unreachable, TryAgain
  <1> QED BY <1>2, <1>3, <1>4

(* A new connection, on which CONNECT is sent.                             *)
LEMMA OpenStep ==
    ASSUME NetInv, NEW p \in AllCallers, OpenConnection(p)
    PROVE  NetInv'
  <1> DEFINE c == Len(conns) + 1
             first(n) == IF n = p[2] THEN <<Connect>> ELSE <<>>
  <1>p. /\ p[1] \in Nodes /\ p[2] \in Nodes /\ p[1] # p[2] /\ p = <<p[1], p[2]>>
        /\ p \in Callers /\ call[p].at = "try" /\ call[p].tries > 0 /\ call[p].tries < Tries
        BY CallerPair DEF OpenConnection, NetInv, CallsRun
  <1>t. Types /\ CallsRun /\ Listening /\ Handshake /\ OneConnection
        BY DEF NetInv
  <1>0. /\ conns \in Seq(Callers) /\ Len(conns) \in Nat /\ Conns = 1..Len(conns)
        /\ conns' = Append(conns, p)
        /\ inbox' = [n \in Nodes |-> Append(inbox[n], first(n))]
        /\ incoming' = [incoming EXCEPT ![p[1]] = @ \cup {c}]
        /\ closed' = closed /\ outgoing' = outgoing /\ alive' = alive /\ setup' = setup
        BY <1>t DEF OpenConnection, Types, Conns
  <1>1. /\ conns' \in Seq(Callers) /\ Len(conns') = c /\ Conns' = 1..c /\ conns'[c] = p
        /\ \A d \in Conns : conns'[d] = conns[d]
    <2>1. /\ conns' \in Seq(Callers) /\ Len(conns') = c /\ conns'[c] = p
          /\ \A d \in 1..Len(conns) : conns'[d] = conns[d]
          BY <1>0, <1>p, AppendProperties
    <2>2. DOMAIN conns' = 1..c
          BY <2>1, LenProperties
    <2> QED BY <1>0, <2>1, <2>2 DEF Conns
  <1>2. /\ Callers' = Callers /\ Conns \subseteq Conns' /\ c \in Conns' /\ c \notin Conns
        /\ c \in Nat /\ c # NONE
        /\ \A d \in Conns' : d \in Conns \/ d = c
        BY <1>0, <1>1 DEF Callers, NONE
  <1>3. \A n \in Nodes :
           /\ inbox'[n] \in Seq(Seq(Packets)) /\ Len(inbox'[n]) = c
           /\ inbox'[n][c] = first(n)
           /\ \A d \in Conns : inbox'[n][d] = inbox[n][d]
    <2> SUFFICES ASSUME NEW n \in Nodes
                 PROVE  /\ inbox'[n] \in Seq(Seq(Packets)) /\ Len(inbox'[n]) = c
                        /\ inbox'[n][c] = first(n)
                        /\ \A d \in Conns : inbox'[n][d] = inbox[n][d]
        OBVIOUS
    <2>1. inbox[n] \in Seq(Seq(Packets)) /\ Len(inbox[n]) = Len(conns)
          BY <1>t DEF Types
    <2>2. first(n) \in Seq(Packets)
          BY DEF Packets
    <2>3. inbox'[n] = Append(inbox[n], first(n))
          BY <1>0
    <2> HIDE DEF first
    <2> QED BY <1>0, <2>1, <2>2, <2>3, AppendProperties
  <1>4. /\ call' \in [AllCallers -> CallRecord]
        /\ call'[p].at = "wait" /\ call'[p].conn = c /\ call'[p].tries = call[p].tries
        /\ \A q \in AllCallers : q # p => call'[q] = call[q]
    <2>1. call \in [AllCallers -> CallRecord]
          BY <1>t DEF Types, CallRecord
    <2>2. call' = [call EXCEPT ![p] = [@ EXCEPT !.at = "wait", !.conn = c]]
          BY DEF OpenConnection
    <2> QED BY <1>2, <2>1, <2>2 DEF CallRecord, CallStates
  <1>5. Types'
    <2>1. incoming' \in [Nodes -> SUBSET Conns']
          BY <1>0, <1>2, <1>t DEF Types
    <2>2. closed' \subseteq Nodes \X Conns'
          BY <1>0, <1>2, <1>t DEF Types
    <2>3. inbox' \in [Nodes -> Seq(Seq(Packets))]
          BY <1>0, <1>3
    <2>4. outgoing' \in [Nodes -> [Nodes -> Nat]] /\ alive' \subseteq Nodes /\ setup' \in Setups
          BY <1>0, <1>t DEF Types
    <2> QED BY <1>1, <1>2, <1>3, <1>4, <2>1, <2>2, <2>3, <2>4 DEF Types, CallRecord
  <1>6. CallsRun'
        BY <1>1, <1>2, <1>4, <1>p, <1>t DEF CallsRun
  <1> HIDE DEF c
  <1>i. \A n \in Nodes : incoming'[n] = IF n = p[1] THEN incoming[n] \cup {c} ELSE incoming[n]
        BY <1>0, <1>t DEF Types
  <1>c. \A n \in Nodes : <<n, c>> \notin closed /\ incoming[n] \subseteq Conns
        BY <1>2, <1>t DEF Types
  <1>o. \A n \in Nodes, m \in Nodes : outgoing[n][m] # NONE =>
            /\ outgoing[n][m] \in incoming[n] /\ outgoing[n][m] \in Conns
            /\ m = OtherEnd(n, outgoing[n][m])
        BY <1>t, <1>c DEF Listening
  <1>e. \A d \in Conns : \A n \in Nodes : OtherEnd(n, d)' = OtherEnd(n, d)
        BY <1>1 DEF OtherEnd
  <1>7. Listening'
    <2> SUFFICES ASSUME NEW n \in Nodes
                 PROVE  /\ \A d \in incoming'[n] : n \in {conns'[d][1], conns'[d][2]}
                        /\ \A d \in incoming'[n] : <<n, d>> \notin closed'
                        /\ \A m \in Nodes : outgoing'[n][m] # NONE =>
                              /\ outgoing'[n][m] \in incoming'[n]
                              /\ m = OtherEnd(n, outgoing[n][m])'
                        /\ \A d \in Conns' : <<n, d>> \in closed' => inbox'[n][d] = <<>>
        BY Zenon DEF Listening, NONE
    <2>1. \A d \in incoming'[n] : n \in {conns'[d][1], conns'[d][2]} /\ <<n, d>> \notin closed'
      <3> SUFFICES ASSUME NEW d \in incoming'[n]
                   PROVE  n \in {conns'[d][1], conns'[d][2]} /\ <<n, d>> \notin closed
          BY <1>0
      <3>1. CASE d \in incoming[n]
        <4>1. n \in {conns[d][1], conns[d][2]} /\ <<n, d>> \notin closed /\ d \in Conns
              BY <1>t, <1>c, <3>1 DEF Listening
        <4> QED BY <4>1, <1>1
      <3>2. CASE n = p[1] /\ d = c
            BY <1>1, <1>c, <3>2
      <3> QED BY <1>i, <3>1, <3>2
    <2>2. \A m \in Nodes : outgoing'[n][m] # NONE =>
                              /\ outgoing'[n][m] \in incoming'[n]
                              /\ m = OtherEnd(n, outgoing[n][m])'
          BY <1>0, <1>1, <1>i, <1>o, <1>e DEF OtherEnd
    <2>3. \A d \in Conns' : <<n, d>> \in closed' => inbox'[n][d] = <<>>
      <3> SUFFICES ASSUME NEW d, d \in Conns', <<n, d>> \in closed
                   PROVE  inbox'[n][d] = <<>>
          BY <1>0
      <3>1. d \in Conns
            BY <1>2, <1>c
      <3>2. inbox[n][d] = <<>>
            BY <1>t, <3>1 DEF Listening
      <3> QED BY <1>3, <3>1, <3>2
    <2> QED BY <2>1, <2>2, <2>3
  <1>n. \A n \in Nodes, m \in Nodes : outgoing[n][m] # c
        BY <1>o, <1>2
  <1>8. Handshake'
    <2> SUFFICES ASSUME NEW d \in Conns', NEW a, a = conns'[d][1], NEW b, b = conns'[d][2]
                 PROVE  /\ inbox'[b][d] \in {<<>>, <<Connect>>, <<Ack>>}
                        /\ inbox'[a][d] \in {<<>>, <<Accepted>>, <<Refused>>}
                        /\ inbox'[b][d] # <<>> => inbox'[a][d] = <<>>
                        /\ inbox'[b][d] = <<Connect>> => outgoing'[a][b] # d /\ outgoing'[b][a] # d
                        /\ inbox'[a][d] # <<>> => outgoing'[a][b] # d
        BY DEF Handshake
    <2>1. CASE d \in Conns
      <3>1. a = conns[d][1] /\ b = conns[d][2] /\ a \in Nodes /\ b \in Nodes
            BY <1>1, <2>1, <1>t, TwoEnds
      <3>2. inbox'[a][d] = inbox[a][d] /\ inbox'[b][d] = inbox[b][d]
            BY <1>3, <2>1, <3>1
      <3> QED BY <1>0, <2>1, <3>1, <3>2, <1>t, ZenonT(30) DEF Handshake
    <2>2. CASE d = c
      <3>1. a = p[1] /\ b = p[2]
            BY <1>1, <2>2
      <3>2. inbox'[a][d] = <<>> /\ inbox'[b][d] = <<Connect>>
            BY <1>3, <2>2, <3>1, <1>p
      <3>3. outgoing'[a][b] # d /\ outgoing'[b][a] # d
            BY <1>0, <1>n, <3>1, <1>p, <2>2
      <3> QED BY <3>2, <3>3
    <2> QED BY <1>2, <2>1, <2>2
  <1>9. OneConnection'
    <2> SUFFICES ASSUME NEW q \in Callers, Single(q)
                 PROVE  /\ call'[q].at \in {"try", "wait", "refused"} =>
                              outgoing[q[1]][q[2]] = NONE
                        /\ \A d \in Conns' : conns'[d] = q =>
                              /\ d \in incoming'[q[1]] =>
                                    \/ outgoing[q[1]][q[2]] = d
                                    \/ call'[q].at = "wait" /\ call'[q].conn = d
                              /\ outgoing[q[1]][q[2]] = d \/ inbox'[q[1]][d] = <<Accepted>> =>
                                    outgoing[q[2]][q[1]] = d \/ <<q[2], d>> \in closed
                              /\ outgoing[q[2]][q[1]] = d =>
                                    \/ outgoing[q[1]][q[2]] = d
                                    \/ inbox'[q[1]][d] = <<Accepted>>
                                    \/ <<q[1], d>> \in closed
        BY <1>0, <1>2 DEF OneConnection, Single
    <2>1. /\ q \in AllCallers /\ q[1] \in Nodes /\ q[2] \in Nodes /\ q[1] # q[2]
          BY <1>t, CallerPair DEF Types, AllCallers, Callers
    <2>2. call'[q].at \in {"try", "wait", "refused"} => outgoing[q[1]][q[2]] = NONE
          BY <1>t, <1>4, <1>p, <2>1 DEF OneConnection
    <2>3. ASSUME NEW d \in Conns, conns[d] = q
          PROVE  /\ d \in incoming'[q[1]] =>
                      \/ outgoing[q[1]][q[2]] = d
                      \/ call'[q].at = "wait" /\ call'[q].conn = d
                 /\ outgoing[q[1]][q[2]] = d \/ inbox'[q[1]][d] = <<Accepted>> =>
                      outgoing[q[2]][q[1]] = d \/ <<q[2], d>> \in closed
                 /\ outgoing[q[2]][q[1]] = d =>
                      \/ outgoing[q[1]][q[2]] = d
                      \/ inbox'[q[1]][d] = <<Accepted>>
                      \/ <<q[1], d>> \in closed
      <3>1. inbox'[q[1]][d] = inbox[q[1]][d]
            BY <1>3, <2>1
      <3>2. d \in incoming'[q[1]] => d \in incoming[q[1]]
            BY <1>i, <1>2, <2>1
      <3>3. /\ d \in incoming[q[1]] =>
                      \/ outgoing[q[1]][q[2]] = d
                      \/ call[q].at = "wait" /\ call[q].conn = d
            /\ outgoing[q[1]][q[2]] = d \/ inbox[q[1]][d] = <<Accepted>> =>
                      outgoing[q[2]][q[1]] = d \/ <<q[2], d>> \in closed
            /\ outgoing[q[2]][q[1]] = d =>
                      \/ outgoing[q[1]][q[2]] = d
                      \/ inbox[q[1]][d] = <<Accepted>>
                      \/ <<q[1], d>> \in closed
            BY <1>t, <2>3 DEF OneConnection
      <3>4. q = p => outgoing[q[1]][q[2]] = NONE /\ call[q].at # "wait"
            BY <1>t, <1>p DEF OneConnection
      <3>5. q = p => d \notin incoming[q[1]]
            BY <3>3, <3>4, <1>0 DEF NONE
      <3>6. q # p => call'[q] = call[q]
            BY <1>4, <2>1
      <3> QED BY <3>1, <3>2, <3>3, <3>5, <3>6
    <2>4. ASSUME q = p
          PROVE  /\ call'[q].at = "wait" /\ call'[q].conn = c
                 /\ outgoing[q[1]][q[2]] # c /\ inbox'[q[1]][c] = <<>> /\ outgoing[q[2]][q[1]] # c
          BY <1>3, <1>4, <1>n, <1>p, <2>1, <2>4
    <2> HIDE DEF first
    <2> QED
      <3> SUFFICES ASSUME NEW d \in Conns', conns'[d] = q
                   PROVE  /\ d \in incoming'[q[1]] =>
                                \/ outgoing[q[1]][q[2]] = d
                                \/ call'[q].at = "wait" /\ call'[q].conn = d
                          /\ outgoing[q[1]][q[2]] = d \/ inbox'[q[1]][d] = <<Accepted>> =>
                                outgoing[q[2]][q[1]] = d \/ <<q[2], d>> \in closed
                          /\ outgoing[q[2]][q[1]] = d =>
                                \/ outgoing[q[1]][q[2]] = d
                                \/ inbox'[q[1]][d] = <<Accepted>>
                                \/ <<q[1], d>> \in closed
          BY <2>2
      <3>1. CASE d \in Conns
            BY <1>1, <2>3, <3>1
      <3>2. CASE d = c
        <4>1. q = p /\ <<>> # <<Accepted>>
              BY <1>1, <3>2, OnePacket
        <4> QED BY <4>1, <2>4, <3>2
      <3> QED BY <1>2, <3>1, <3>2
  <1> QED BY <1>5, <1>6, <1>7, <1>8, <1>9 DEF NetInv

-----------------------------------------------------------------------------
(* The receiver thread.                                                    *)

(* Handshake and OneConnection, of one connection.                         *)
HandshakeOn(c) ==
    LET a == conns[c][1]
        b == conns[c][2]
    IN  /\ inbox[b][c] \in {<<>>, <<Connect>>, <<Ack>>}
        /\ inbox[a][c] \in {<<>>, <<Accepted>>, <<Refused>>}
        /\ inbox[b][c] # <<>> => inbox[a][c] = <<>>
        /\ inbox[b][c] = <<Connect>> => outgoing[a][b] # c /\ outgoing[b][a] # c
        /\ inbox[a][c] # <<>> => outgoing[a][b] # c

AgreeOn(c) ==
    LET p == conns[c]
    IN  /\ c \in incoming[p[1]] =>
              \/ outgoing[p[1]][p[2]] = c
              \/ call[p].at = "wait" /\ call[p].conn = c
        /\ outgoing[p[1]][p[2]] = c \/ inbox[p[1]][c] = <<Accepted>> =>
              outgoing[p[2]][p[1]] = c \/ <<p[2], c>> \in closed
        /\ outgoing[p[2]][p[1]] = c =>
              \/ outgoing[p[1]][p[2]] = c
              \/ inbox[p[1]][c] = <<Accepted>>
              \/ <<p[1], c>> \in closed

(* Parts of the invariant.                                                 *)
LEMMA CallerOfSetup ==
    ASSUME Types, NEW q \in Callers
    PROVE  /\ q \in AllCallers /\ q[1] \in Nodes /\ q[2] \in Nodes /\ q[1] # q[2]
           /\ q = <<q[1], q[2]>>
  <1>1. q \in AllCallers
        BY DEF Types, AllCallers, Callers
  <1> QED BY <1>1, CallerPair

\* The table of nodes names connections to these nodes that are listened on.
LEMMA ConnectedThrough ==
    ASSUME NetInv
    PROVE  \A k \in Nodes, l \in Nodes : outgoing[k][l] # NONE =>
              /\ outgoing[k][l] \in incoming[k]
              /\ outgoing[k][l] \in Conns
              /\ l = OtherEnd(k, outgoing[k][l])
  BY DEF NetInv, Types, Listening

(* Nothing is under way to a closed end.                                   *)
LEMMA ClosedIsEmpty ==
    ASSUME NetInv, NEW k \in Nodes, NEW d \in Conns, <<k, d>> \in closed
    PROVE  inbox[k][d] = <<>>
  BY DEF NetInv, Listening

(* The parts of the invariant, for one connection.                         *)
LEMMA PartsOf ==
    ASSUME NetInv, NEW d \in Conns
    PROVE  /\ HandshakeOn(d)
           /\ Single(conns[d]) => AgreeOn(d)
  <1>1. conns[d] \in Callers
        BY TwoEnds DEF NetInv
  <1> QED BY <1>1 DEF NetInv, Handshake, HandshakeOn, OneConnection, AgreeOn

(* What a step of node n on its end of c, its peer being m, leaves alone:  *)
(* the calls that do not wait for an answer on c, ...                      *)
CallsKept(c) ==
    /\ call' \in [AllCallers -> CallRecord] /\ CallsRun'
    /\ \A q \in AllCallers :
          /\ q # conns[c] => call'[q] = call[q]
          /\ call[q].at = "wait" /\ call[q].conn # c => call'[q] = call[q]

(* ... the other ends of connections, ...                                  *)
EndsKept(n, c) ==
    /\ incoming' \in [Nodes -> SUBSET Conns]
    /\ \A k \in Nodes, d \in Conns :
          k # n \/ d # c => (d \in incoming'[k] <=> d \in incoming[k])
    /\ closed' \subseteq Nodes \X Conns /\ closed \subseteq closed'
    /\ \A k \in Nodes, d \in Conns :
          k # n \/ d # c => (<<k, d>> \in closed' <=> <<k, d>> \in closed)

(* ... the other streams, ...                                              *)
StreamsKept(c) ==
    /\ inbox' \in [Nodes -> Seq(Seq(Packets))]
    /\ \A k \in Nodes : Len(inbox'[k]) = Len(conns)
    /\ \A k \in Nodes, d \in Conns : d # c => inbox'[k][d] = inbox[k][d]

(* ... and how other nodes are connected.                                  *)
NodesKept(n, c, m) ==
    /\ outgoing' \in [Nodes -> [Nodes -> Nat]]
    /\ \A k \in Nodes, l \in Nodes : k # n \/ l # m => outgoing'[k][l] = outgoing[k][l]
    /\ outgoing'[n][m] \in {outgoing[n][m], NONE, c}
    /\ Single(conns[c]) =>
          outgoing'[n][m] = outgoing[n][m] \/ outgoing[n][m] \in {NONE, c}

(* A step of node n on its end of c, its peer being m: what is to be shown *)
(* is about c, all other connections are as they were.                     *)
LEMMA LinkStep ==
    ASSUME NetInv, NEW n \in Nodes, NEW c \in Conns, NEW m,
           n \in {conns[c][1], conns[c][2]}, m = OtherEnd(n, c),
           setup' = setup, conns' = conns, alive' = alive,
           EndsKept(n, c), StreamsKept(c), NodesKept(n, c, m), CallsKept(c),
           c \in incoming'[n] => <<n, c>> \notin closed',
           outgoing'[n][m] = c => c \in incoming'[n],
           \A k \in Nodes : <<k, c>> \in closed' => inbox'[k][c] = <<>>,
           HandshakeOn(c)',
           Single(conns[c]) => AgreeOn(c)',
           Single(conns[c]) /\ call'[conns[c]].at \in {"try", "wait", "refused"} =>
              outgoing'[conns[c][1]][conns[c][2]] = NONE
    PROVE  NetInv'
  <1> USE DEF EndsKept, StreamsKept, NodesKept, CallsKept
  <1>t. Types /\ CallsRun /\ Listening /\ Handshake /\ OneConnection
        BY DEF NetInv
  <1>0. Conns' = Conns /\ Callers' = Callers /\ \A k \in Nodes, d \in Conns : OtherEnd(k, d)' = OtherEnd(k, d)
        BY DEF Conns, Callers, OtherEnd
  <1>1. /\ conns[c] \in Callers /\ conns[c] \in AllCallers
        /\ conns[c][1] \in Nodes /\ conns[c][2] \in Nodes
        /\ conns[c][1] # conns[c][2] /\ c # NONE
        /\ m \in Nodes /\ m # n
        /\ {n, m} = {conns[c][1], conns[c][2]}
    <2>1. /\ conns[c] \in Callers /\ conns[c] \in AllCallers
          /\ conns[c][1] \in Nodes /\ conns[c][2] \in Nodes
          /\ conns[c][1] # conns[c][2] /\ c # NONE
          /\ OtherEnd(conns[c][1], c) = conns[c][2]
          /\ OtherEnd(conns[c][2], c) = conns[c][1]
          BY <1>t, TwoEnds
    <2>2. CASE n = conns[c][1]
          BY <2>1, <2>2
    <2>3. CASE n = conns[c][2]
          BY <2>1, <2>3
    <2> QED BY <2>2, <2>3
  <1>2. Types'
        BY <1>0, <1>t DEF Types, CallRecord
  <1>3. Listening'
    <2> SUFFICES ASSUME NEW k \in Nodes
                 PROVE  /\ \A d \in incoming'[k] : k \in {conns[d][1], conns[d][2]}
                        /\ \A d \in incoming'[k] : <<k, d>> \notin closed'
                        /\ \A l \in Nodes : outgoing'[k][l] # NONE =>
                              /\ outgoing'[k][l] \in incoming'[k]
                              /\ l = OtherEnd(k, outgoing[k][l])'
                        /\ \A d \in Conns : <<k, d>> \in closed' => inbox'[k][d] = <<>>
        BY <1>0, Zenon DEF Listening, NONE
    <2>1. incoming'[k] \subseteq Conns /\ incoming[k] \subseteq Conns
          BY <1>t DEF Types
    <2>2. ASSUME NEW d \in incoming'[k]
          PROVE  k \in {conns[d][1], conns[d][2]} /\ <<k, d>> \notin closed'
      <3>1. CASE k = n /\ d = c
            BY <3>1
      <3>2. CASE k # n \/ d # c
            BY <1>t, <2>1, <3>2, <2>2, ZenonT(30) DEF Listening
      <3> QED BY <3>1, <3>2
    <2>3. ASSUME NEW l \in Nodes, outgoing'[k][l] # NONE
          PROVE  outgoing'[k][l] \in incoming'[k] /\ l = OtherEnd(k, outgoing[k][l])'
      <3>1. CASE outgoing'[k][l] = outgoing[k][l]
        <4> DEFINE e == outgoing[k][l]
        <4>1. e \in incoming[k] /\ e \in Conns /\ l = OtherEnd(k, e)
          <5>1. e # NONE
                BY <2>3, <3>1
          <5>2. \A i \in Nodes, j \in Nodes : outgoing[i][j] # NONE =>
                   /\ outgoing[i][j] \in incoming[i]
                   /\ outgoing[i][j] \in Conns
                   /\ j = OtherEnd(i, outgoing[i][j])
                BY ConnectedThrough
          <5> QED BY <5>1, <5>2, Zenon
        <4>2. OtherEnd(k, outgoing[k][l])' = OtherEnd(k, e)
              BY <3>1 DEF OtherEnd
        <4>3. CASE k = n /\ e = c
          <5>1. l = m
                BY <4>1, <4>3
          <5> QED BY <3>1, <4>1, <4>2, <4>3, <5>1
        <4>4. CASE k # n \/ e # c
              BY <3>1, <4>1, <4>2, <4>4
        <4> QED BY <4>3, <4>4
      <3>2. CASE outgoing'[k][l] # outgoing[k][l]
        <4>1. k = n /\ l = m /\ outgoing'[k][l] = c
              BY <1>1, <2>3, <3>2
        <4>2. OtherEnd(k, outgoing[k][l])' = OtherEnd(k, c)
              BY <4>1 DEF OtherEnd
        <4> QED BY <4>1, <4>2
      <3> QED BY <3>1, <3>2
    <2>4. ASSUME NEW d \in Conns, <<k, d>> \in closed'
          PROVE  inbox'[k][d] = <<>>
      <3>1. CASE d = c
            BY <3>1, <2>4
      <3>2. CASE d # c
        <4>1. <<k, d>> \in closed /\ inbox'[k][d] = inbox[k][d]
              BY <3>2, <2>4
        <4> QED BY <4>1, ClosedIsEmpty
      <3> QED BY <3>1, <3>2
    <2> QED BY <2>2, <2>3, <2>4
  <1>4. \A d \in Conns : d # c =>
           \A k \in Nodes, l \in Nodes : outgoing[k][l] # d => outgoing'[k][l] # d
    <2> SUFFICES ASSUME NEW d \in Conns, d # c, NEW k \in Nodes, NEW l \in Nodes,
                        outgoing[k][l] # d
                 PROVE  outgoing'[k][l] # d
        OBVIOUS
    <2>1. d # NONE
          BY <1>t, TwoEnds
    <2> QED BY <2>1
  <1>5. Handshake'
    <2> SUFFICES ASSUME NEW d \in Conns PROVE HandshakeOn(d)'
        BY <1>0 DEF Handshake, HandshakeOn
    <2>1. CASE d = c
          BY <2>1
    <2>2. CASE d # c
      <3>1. HandshakeOn(d)
            BY PartsOf
      <3> DEFINE a == conns[d][1]
                 b == conns[d][2]
      <3>2. a \in Nodes /\ b \in Nodes
            BY <1>t, TwoEnds
      <3>3. inbox'[a][d] = inbox[a][d] /\ inbox'[b][d] = inbox[b][d]
            BY <2>2, <3>2
      <3>4. /\ outgoing[a][b] # d => outgoing'[a][b] # d
            /\ outgoing[b][a] # d => outgoing'[b][a] # d
        <4> HIDE DEF a, b
        <4> QED BY <1>4, <2>2, <3>2, ZenonT(30)
      <3> QED BY <3>1, <3>3, <3>4 DEF HandshakeOn
    <2> QED BY <2>1, <2>2
  <1>6. OneConnection'
    <2>1. ASSUME NEW q \in Callers, Single(q),
                 call'[q].at \in {"try", "wait", "refused"}
          PROVE  outgoing'[q[1]][q[2]] = NONE
      <3>1. q \in AllCallers /\ q[1] \in Nodes /\ q[2] \in Nodes /\ q = <<q[1], q[2]>>
            BY <1>t, CallerOfSetup
      <3>2. CASE q = conns[c]
            BY <2>1, <3>2
      <3>3. CASE q # conns[c]
        <4>1. outgoing[q[1]][q[2]] = NONE
              BY <1>t, <2>1, <3>1, <3>3 DEF OneConnection
        <4>2. conns[c] = <<conns[c][1], conns[c][2]>>
              BY <1>t, TwoEnds
        <4>3. q[1] # n \/ q[2] # m
          <5>1. CASE n = conns[c][1]
                BY <5>1, <1>1, <3>1, <3>3, <4>2, ZenonT(30)
          <5>2. CASE n = conns[c][2]
            <6>1. m = conns[c][1]
                  BY <5>2, <1>1
            <6>2. CASE q[1] = n /\ q[2] = m
              <7>1. conns[c] = <<q[2], q[1]>>
                    BY <4>2, <5>2, <6>1, <6>2
              <7> QED BY <7>1, <1>1, <2>1 DEF Single
            <6> QED BY <6>2
          <5> QED BY <5>1, <5>2
        <4> QED BY <4>1, <4>3, <3>1
      <3> QED BY <3>2, <3>3
    <2>2. ASSUME NEW d \in Conns, Single(conns[d])
          PROVE  AgreeOn(d)'
      <3>1. CASE d = c
            BY <2>2, <3>1
      <3>2. CASE d # c
        <4>1. /\ conns[d] \in Callers /\ conns[d] \in AllCallers
              /\ conns[d][1] \in Nodes /\ conns[d][2] \in Nodes /\ conns[d][1] # conns[d][2]
              /\ conns[d] = <<conns[d][1], conns[d][2]>>
              /\ conns[c] = <<conns[c][1], conns[c][2]>>
              BY <1>t, TwoEnds
        <4>2. AgreeOn(d)
              BY <1>t, <2>2, <4>1 DEF OneConnection, AgreeOn
        <4>3. call[conns[d]].at = "wait" /\ call[conns[d]].conn = d => call'[conns[d]] = call[conns[d]]
              BY <3>2, <4>1
        <4>4. ASSUME NEW k \in Nodes, NEW l \in Nodes, {k, l} = {conns[d][1], conns[d][2]},
                     outgoing[k][l] = d
              PROVE  outgoing'[k][l] = d
          <5>1. CASE k = n /\ l = m
            <6>1. outgoing[n][m] \notin {NONE, c}
                  BY <4>4, <5>1, <3>2, <1>t, TwoEnds
            <6>2. {conns[d][1], conns[d][2]} = {conns[c][1], conns[c][2]}
                  BY <1>1, <4>4, <5>1
            <6>3. conns[c] = conns[d]
              <7>1. \/ conns[c][1] = conns[d][1] /\ conns[c][2] = conns[d][2]
                    \/ conns[c][1] = conns[d][2] /\ conns[c][2] = conns[d][1]
                    BY <6>2, <1>1, <4>1
              <7>2. CASE conns[c][1] = conns[d][1] /\ conns[c][2] = conns[d][2]
                    BY <7>2, <4>1
              <7>3. CASE conns[c][1] = conns[d][2] /\ conns[c][2] = conns[d][1]
                <8>1. conns[c] = <<conns[d][2], conns[d][1]>>
                      BY <7>3, <4>1
                <8> QED BY <8>1, <1>1, <2>2 DEF Single
              <7> QED BY <7>1, <7>2, <7>3
            <6> QED BY <6>1, <6>3, <2>2, <5>1, <4>4
          <5>2. CASE k # n \/ l # m
                BY <4>4, <5>2
          <5> QED BY <5>1, <5>2
        <4>5. ASSUME NEW k \in Nodes, NEW l \in Nodes, {k, l} = {conns[d][1], conns[d][2]}
              PROVE  outgoing'[k][l] = d <=> outgoing[k][l] = d
              BY <1>4, <3>2, <4>4, <4>5
        <4>6. /\ outgoing'[conns[d][1]][conns[d][2]] = d <=> outgoing[conns[d][1]][conns[d][2]] = d
              /\ outgoing'[conns[d][2]][conns[d][1]] = d <=> outgoing[conns[d][2]][conns[d][1]] = d
          <5>1. {conns[d][2], conns[d][1]} = {conns[d][1], conns[d][2]}
                OBVIOUS
          <5> QED BY <4>1, <4>5, <5>1
        <4>7. /\ inbox'[conns[d][1]][d] = inbox[conns[d][1]][d]
              /\ d \in incoming'[conns[d][1]] <=> d \in incoming[conns[d][1]]
              /\ <<conns[d][1], d>> \in closed' <=> <<conns[d][1], d>> \in closed
              /\ <<conns[d][2], d>> \in closed' <=> <<conns[d][2], d>> \in closed
              BY <3>2, <4>1
        <4> QED BY <4>2, <4>3, <4>6, <4>7 DEF AgreeOn
      <3> QED BY <3>1, <3>2
    <2>4. ASSUME NEW q \in Callers
          PROVE  Single(q)' <=> Single(q)
          BY <1>0 DEF Single
    <2> SUFFICES ASSUME NEW q \in Callers, Single(q)
                 PROVE  /\ call'[q].at \in {"try", "wait", "refused"} => outgoing'[q[1]][q[2]] = NONE
                        /\ \A d \in Conns : conns[d] = q =>
                              /\ d \in incoming'[q[1]] =>
                                    \/ outgoing'[q[1]][q[2]] = d
                                    \/ call'[q].at = "wait" /\ call'[q].conn = d
                              /\ outgoing'[q[1]][q[2]] = d \/ inbox'[q[1]][d] = <<Accepted>> =>
                                    outgoing'[q[2]][q[1]] = d \/ <<q[2], d>> \in closed'
                              /\ outgoing'[q[2]][q[1]] = d =>
                                    \/ outgoing'[q[1]][q[2]] = d
                                    \/ inbox'[q[1]][d] = <<Accepted>>
                                    \/ <<q[1], d>> \in closed'
        BY <1>0, <2>4, Zenon DEF OneConnection
    <2>5. ASSUME NEW d \in Conns, conns[d] = q
          PROVE  /\ d \in incoming'[q[1]] =>
                      \/ outgoing'[q[1]][q[2]] = d
                      \/ call'[q].at = "wait" /\ call'[q].conn = d
                 /\ outgoing'[q[1]][q[2]] = d \/ inbox'[q[1]][d] = <<Accepted>> =>
                      outgoing'[q[2]][q[1]] = d \/ <<q[2], d>> \in closed'
                 /\ outgoing'[q[2]][q[1]] = d =>
                      \/ outgoing'[q[1]][q[2]] = d
                      \/ inbox'[q[1]][d] = <<Accepted>>
                      \/ <<q[1], d>> \in closed'
      <3>1. AgreeOn(d)'
            BY <2>2, <2>5
      <3>2. conns'[d] = q
            BY <2>5
      <3> QED BY <3>1, <3>2, Zenon DEF AgreeOn
    <2>6. call'[q].at \in {"try", "wait", "refused"} => outgoing'[q[1]][q[2]] = NONE
          BY <2>1
    <2> QED BY <2>5, <2>6, Zenon
  <1> QED BY <1>2, <1>3, <1>5, <1>6 DEF NetInv

(* A packet that node n takes from connection c, and where it comes from.  *)
Taken(n, c, m, packet) ==
    /\ n \in {conns[c][1], conns[c][2]} /\ m \in Nodes /\ m # n
    /\ c \in incoming[n] /\ <<n, c>> \notin closed
    /\ inbox[n][c] = <<packet>> /\ inbox[m][c] = <<>>
    /\ packet \in {Connect, Ack} => n = conns[c][2] /\ m = conns[c][1]
    /\ packet \in {Accepted, Refused} => n = conns[c][1] /\ m = conns[c][2]
    /\ packet # Ack => outgoing[n][m] # c
    /\ packet = Connect => outgoing[m][n] # c

(* Where a packet that is received comes from.                             *)
LEMMA Received ==
    ASSUME NetInv, NEW n \in Nodes, NEW c \in Conns, NEW packet \in Packets,
           Receives(n, c, packet), NEW m, m = OtherEnd(n, c)
    PROVE  Taken(n, c, m, packet)
  <1> DEFINE a == conns[c][1]
             b == conns[c][2]
  <1>1. /\ a \in Nodes /\ b \in Nodes /\ a # b
        /\ OtherEnd(a, c) = b /\ OtherEnd(b, c) = a
        BY TwoEnds DEF NetInv
  <1>2. c \in incoming[n] /\ inbox[n][c] # <<>> /\ Head(inbox[n][c]) = packet
        BY DEF Receives
  <1>3. n \in {a, b} /\ <<n, c>> \notin closed
        BY <1>2 DEF NetInv, Listening
  <1>4. HandshakeOn(c)
        BY PartsOf
  <1>5. \A x \in Packets : Head(<<x>>) = x
        OBVIOUS
  <1>6. CASE n = b
    <2>1. m = a
          BY <1>1, <1>6
    <2>2. inbox[b][c] \in {<<Connect>>, <<Ack>>} /\ inbox[a][c] = <<>>
          BY <1>2, <1>4, <1>6 DEF HandshakeOn
    <2>3. inbox[b][c] = <<packet>> /\ packet \in {Connect, Ack}
          BY <1>2, <1>5, <1>6, <2>2 DEF Packets
    <2>4. packet = Connect => outgoing[a][b] # c /\ outgoing[b][a] # c
          BY <1>4, <2>3 DEF HandshakeOn
    <2>5. packet \notin {Accepted, Refused}
          BY <2>3 DEF Connect, Ack, Accepted, Refused
    <2> QED BY <1>1, <1>2, <1>3, <1>6, <2>1, <2>2, <2>3, <2>4, <2>5 DEF Taken
  <1>7. CASE n = a
    <2>1. m = b
          BY <1>1, <1>7
    <2>2. inbox[a][c] \in {<<Accepted>>, <<Refused>>} /\ inbox[b][c] = <<>>
          BY <1>2, <1>4, <1>7 DEF HandshakeOn
    <2>3. inbox[a][c] = <<packet>> /\ packet \in {Accepted, Refused}
          BY <1>2, <1>5, <1>7, <2>2 DEF Packets
    <2>4. outgoing[a][b] # c
          BY <1>2, <1>4, <1>7 DEF HandshakeOn
    <2>5. packet \notin {Connect, Ack}
          BY <2>3 DEF Connect, Ack, Accepted, Refused
    <2> QED BY <1>1, <1>2, <1>3, <1>7, <2>1, <2>2, <2>3, <2>4, <2>5 DEF Taken
  <1> QED BY <1>3, <1>6, <1>7

(* The streams of connection c after a step.                               *)
LEMMA StreamsChange ==
    ASSUME Types, NEW n \in Nodes, NEW m \in Nodes, n # m, NEW c \in Conns,
           NEW x \in Seq(Packets), NEW y \in Seq(Packets),
           inbox' = [inbox EXCEPT ![n][c] = x, ![m][c] = y]
    PROVE  /\ inbox' \in [Nodes -> Seq(Seq(Packets))]
           /\ \A k \in Nodes : Len(inbox'[k]) = Len(conns)
           /\ \A k \in Nodes, d \in Conns : d # c => inbox'[k][d] = inbox[k][d]
           /\ \A k \in Nodes : k # n /\ k # m => inbox'[k][c] = inbox[k][c]
           /\ inbox'[n][c] = x /\ inbox'[m][c] = y
  <1>1. inbox \in [Nodes -> Seq(Seq(Packets))] /\ c \in 1..Len(conns)
        /\ \A k \in Nodes : Len(inbox[k]) = Len(conns)
        BY SMTT(30) DEF Types, Conns
  <1>2. /\ inbox' = [[inbox EXCEPT ![n] = [inbox[n] EXCEPT ![c] = x]]
                                EXCEPT ![m] = [inbox[m] EXCEPT ![c] = y]]
        BY <1>1
  <1>3. ASSUME NEW k \in Nodes, NEW z \in Seq(Packets)
        PROVE  /\ [inbox[k] EXCEPT ![c] = z] \in Seq(Seq(Packets))
               /\ Len([inbox[k] EXCEPT ![c] = z]) = Len(conns)
               /\ [inbox[k] EXCEPT ![c] = z][c] = z
               /\ \A d \in Conns : d # c => [inbox[k] EXCEPT ![c] = z][d] = inbox[k][d]
    <2>1. inbox[k] \in Seq(Seq(Packets)) /\ Len(inbox[k]) = Len(conns) /\ c \in 1..Len(inbox[k])
          BY <1>1
    <2>2. /\ [inbox[k] EXCEPT ![c] = z] \in Seq(Seq(Packets))
          /\ Len([inbox[k] EXCEPT ![c] = z]) = Len(conns)
          /\ \A i \in 1..Len(inbox[k]) : [inbox[k] EXCEPT ![c] = z][i] = IF i = c THEN z ELSE inbox[k][i]
          BY <2>1, ExceptSeq
    <2> QED BY <2>1, <2>2 DEF Types, Conns
  <1>4. /\ inbox'[n] = [inbox[n] EXCEPT ![c] = x]
        /\ inbox'[m] = [inbox[m] EXCEPT ![c] = y]
        /\ \A k \in Nodes : k # n /\ k # m => inbox'[k] = inbox[k]
        /\ DOMAIN inbox' = Nodes
        BY <1>1, <1>2
  <1>5. /\ inbox'[n] \in Seq(Seq(Packets)) /\ Len(inbox'[n]) = Len(conns) /\ inbox'[n][c] = x
        /\ \A d \in Conns : d # c => inbox'[n][d] = inbox[n][d]
    <2>1. /\ [inbox[n] EXCEPT ![c] = x] \in Seq(Seq(Packets))
          /\ Len([inbox[n] EXCEPT ![c] = x]) = Len(conns)
          /\ [inbox[n] EXCEPT ![c] = x][c] = x
          /\ \A d \in Conns : d # c => [inbox[n] EXCEPT ![c] = x][d] = inbox[n][d]
          BY <1>3
    <2>2. inbox'[n] = [inbox[n] EXCEPT ![c] = x]
          BY <1>4
    <2> QED BY <2>1, <2>2, Zenon
  <1>6. /\ inbox'[m] \in Seq(Seq(Packets)) /\ Len(inbox'[m]) = Len(conns) /\ inbox'[m][c] = y
        /\ \A d \in Conns : d # c => inbox'[m][d] = inbox[m][d]
    <2>1. /\ [inbox[m] EXCEPT ![c] = y] \in Seq(Seq(Packets))
          /\ Len([inbox[m] EXCEPT ![c] = y]) = Len(conns)
          /\ [inbox[m] EXCEPT ![c] = y][c] = y
          /\ \A d \in Conns : d # c => [inbox[m] EXCEPT ![c] = y][d] = inbox[m][d]
          BY <1>3
    <2>2. inbox'[m] = [inbox[m] EXCEPT ![c] = y]
          BY <1>4
    <2> QED BY <2>1, <2>2, Zenon
  <1>7. \A k \in Nodes : inbox'[k] \in Seq(Seq(Packets)) /\ Len(inbox'[k]) = Len(conns)
        BY <1>1, <1>4, <1>5, <1>6
  <1>8. inbox' \in [Nodes -> Seq(Seq(Packets))]
        BY <1>2, <1>4, <1>7, <1>1
  <1>9. ASSUME NEW k \in Nodes, NEW d \in Conns, d # c
        PROVE  inbox'[k][d] = inbox[k][d]
    <2>1. CASE k # n /\ k # m
      <3>1. inbox'[k] = inbox[k]
            BY <1>4, <2>1
      <3> QED BY <3>1, Zenon
    <2>2. CASE k = n
          BY <1>5, <1>9, <2>2, Zenon
    <2>3. CASE k = m
          BY <1>6, <1>9, <2>3, Zenon
    <2> QED BY <2>1, <2>2, <2>3
  <1>10. ASSUME NEW k \in Nodes, k # n, k # m
         PROVE  inbox'[k][c] = inbox[k][c]
    <2>1. inbox'[k] = inbox[k]
          BY <1>4, <1>10
    <2> QED BY <2>1, Zenon
  <1> QED BY <1>5, <1>6, <1>7, <1>8, <1>9, <1>10, Zenon

(* A step that changes the stream to one end only.                         *)
LEMMA StreamChange ==
    ASSUME Types, NEW n \in Nodes, NEW c \in Conns, NEW x \in Seq(Packets),
           inbox' = [inbox EXCEPT ![n][c] = x]
    PROVE  /\ inbox' \in [Nodes -> Seq(Seq(Packets))]
           /\ \A k \in Nodes : Len(inbox'[k]) = Len(conns)
           /\ \A k \in Nodes, d \in Conns : d # c => inbox'[k][d] = inbox[k][d]
           /\ \A k \in Nodes : k # n => inbox'[k][c] = inbox[k][c]
           /\ inbox'[n][c] = x
  <1>1. inbox \in [Nodes -> Seq(Seq(Packets))] /\ c \in 1..Len(conns) /\ Conns = 1..Len(conns)
        /\ \A k \in Nodes : Len(inbox[k]) = Len(conns)
        BY DEF Types, Conns
  <1>2. /\ inbox'[n] = [inbox[n] EXCEPT ![c] = x]
        /\ \A k \in Nodes : k # n => inbox'[k] = inbox[k]
        /\ inbox' = [k \in Nodes |-> inbox'[k]]
        BY <1>1
  <1>3. /\ inbox'[n] \in Seq(Seq(Packets)) /\ Len(inbox'[n]) = Len(conns) /\ inbox'[n][c] = x
        /\ \A d \in Conns : d # c => inbox'[n][d] = inbox[n][d]
    <2>1. inbox[n] \in Seq(Seq(Packets)) /\ Len(inbox[n]) = Len(conns) /\ c \in 1..Len(inbox[n])
          BY <1>1
    <2>2. /\ [inbox[n] EXCEPT ![c] = x] \in Seq(Seq(Packets))
          /\ Len([inbox[n] EXCEPT ![c] = x]) = Len(inbox[n])
          /\ \A i \in 1..Len(inbox[n]) :
                [inbox[n] EXCEPT ![c] = x][i] = IF i = c THEN x ELSE inbox[n][i]
          BY <2>1, ExceptSeq
    <2> QED BY <1>1, <1>2, <2>1, <2>2
  <1>4. \A k \in Nodes : inbox'[k] \in Seq(Seq(Packets)) /\ Len(inbox'[k]) = Len(conns)
        BY <1>1, <1>2, <1>3
  <1>5. inbox' \in [Nodes -> Seq(Seq(Packets))]
        BY <1>2, <1>4
  <1>6. ASSUME NEW k \in Nodes, NEW d \in Conns, d # c
        PROVE  inbox'[k][d] = inbox[k][d]
    <2>1. CASE k # n
      <3>1. inbox'[k] = inbox[k]
            BY <1>2, <2>1
      <3> QED BY <3>1, Zenon
    <2>2. CASE k = n
          BY <1>3, <1>6, <2>2, Zenon
    <2> QED BY <2>1, <2>2
  <1>7. ASSUME NEW k \in Nodes, k # n
        PROVE  inbox'[k][c] = inbox[k][c]
    <2>1. inbox'[k] = inbox[k]
          BY <1>2, <1>7
    <2> QED BY <2>1, Zenon
  <1> QED BY <1>3, <1>4, <1>5, <1>6, <1>7, Zenon

(* The streams when node n takes a packet, and when it answers it.         *)
LEMMA TakeStep ==
    ASSUME NetInv, NEW n \in Nodes, NEW c \in Conns, NEW m, m = OtherEnd(n, c),
           NEW packet \in Packets, Receives(n, c, packet), Take(n, c)
    PROVE  /\ inbox' \in [Nodes -> Seq(Seq(Packets))]
           /\ \A k \in Nodes : Len(inbox'[k]) = Len(conns)
           /\ \A k \in Nodes, d \in Conns : d # c => inbox'[k][d] = inbox[k][d]
           /\ \A k \in Nodes : k # n /\ k # m => inbox'[k][c] = inbox[k][c]
           /\ inbox'[n][c] = <<>> /\ inbox'[m][c] = <<>>
  <1>1. /\ inbox[n][c] = <<packet>> /\ inbox[m][c] = <<>> /\ m \in Nodes /\ m # n
    <2>1. Taken(n, c, m, packet)
          BY Received
    <2> QED BY <2>1 DEF Taken
  <1>2. Tail(<<packet>>) = <<>> /\ <<>> \in Seq(Packets)
        BY OnePacket
  <1>3. inbox' = [inbox EXCEPT ![n][c] = Tail(inbox[n][c])]
        BY DEF Take, NetInv, Types, Conns
  <1>4. inbox' = [inbox EXCEPT ![n][c] = <<>>]
        BY <1>1, <1>2, <1>3
  <1>5. Types
        BY DEF NetInv
  <1>6. /\ inbox' \in [Nodes -> Seq(Seq(Packets))]
        /\ \A k \in Nodes : Len(inbox'[k]) = Len(conns)
        /\ \A k \in Nodes, d \in Conns : d # c => inbox'[k][d] = inbox[k][d]
        /\ \A k \in Nodes : k # n => inbox'[k][c] = inbox[k][c]
        /\ inbox'[n][c] = <<>>
        BY <1>2, <1>4, <1>5, StreamChange, ZenonT(60)
  <1> QED BY <1>1, <1>6, Zenon

(* A packet is received and answered on the same connection.               *)
LEMMA SendStep ==
    ASSUME NetInv, NEW n \in Nodes, NEW c \in Conns, NEW m, m = OtherEnd(n, c),
           NEW packet \in Packets, Receives(n, c, packet),
           NEW answer \in Packets, Send(n, c, answer)
    PROVE  /\ inbox' \in [Nodes -> Seq(Seq(Packets))]
           /\ \A k \in Nodes : Len(inbox'[k]) = Len(conns)
           /\ \A k \in Nodes, d \in Conns : d # c => inbox'[k][d] = inbox[k][d]
           /\ \A k \in Nodes : k # n /\ k # m => inbox'[k][c] = inbox[k][c]
           /\ inbox'[n][c] = <<>>
           /\ <<m, c>> \in closed => inbox'[m][c] = <<>>
           /\ <<m, c>> \notin closed => inbox'[m][c] = <<answer>>
  <1>1. /\ inbox[n][c] = <<packet>> /\ inbox[m][c] = <<>> /\ m \in Nodes /\ m # n
    <2>1. Taken(n, c, m, packet)
          BY Received
    <2> QED BY <2>1 DEF Taken
  <1>2. /\ Tail(<<packet>>) = <<>> /\ <<>> \in Seq(Packets)
        /\ Append(<<>>, answer) = <<answer>> /\ <<answer>> \in Seq(Packets)
        BY OnePacket
  <1>3. Types /\ inbox \in [Nodes -> Seq(Seq(Packets))] /\ \A k \in Nodes : c \in DOMAIN inbox[k]
        BY DEF NetInv, Types, Conns
  <1> DEFINE y == IF <<m, c>> \in closed THEN <<>> ELSE <<answer>>
  <1>4. inbox' = [inbox EXCEPT ![n][c] = Tail(@),
                               ![m][c] = IF <<m, c>> \in closed THEN @ ELSE Append(@, answer)]
        BY Zenon DEF Send
  <1>5. inbox' = [inbox EXCEPT ![n][c] = <<>>, ![m][c] = y]
    <2>1. inbox' = [inbox EXCEPT ![n] = [inbox[n] EXCEPT ![c] = Tail(inbox[n][c])],
                                 ![m] = [inbox[m] EXCEPT ![c] = IF <<m, c>> \in closed THEN inbox[m][c]
                                                                ELSE Append(inbox[m][c], answer)]]
          BY <1>1, <1>3, <1>4
    <2>2. Tail(inbox[n][c]) = <<>>
          BY <1>1, <1>2
    <2>3. (IF <<m, c>> \in closed THEN inbox[m][c] ELSE Append(inbox[m][c], answer)) = y
          BY <1>1, <1>2
    <2> HIDE DEF y
    <2>4. inbox' = [inbox EXCEPT ![n] = [inbox[n] EXCEPT ![c] = <<>>],
                                 ![m] = [inbox[m] EXCEPT ![c] = y]]
          BY <2>1, <2>2, <2>3, Zenon
    <2> QED BY <1>1, <1>3, <2>4
  <1>6. y \in Seq(Packets)
        BY <1>2
  <1>7. <<m, c>> \in closed => y = <<>>
        OBVIOUS
  <1>8. <<m, c>> \notin closed => y = <<answer>>
        OBVIOUS
  <1> HIDE DEF y
  <1>9. /\ inbox' \in [Nodes -> Seq(Seq(Packets))]
        /\ \A k \in Nodes : Len(inbox'[k]) = Len(conns)
        /\ \A k \in Nodes, d \in Conns : d # c => inbox'[k][d] = inbox[k][d]
        /\ \A k \in Nodes : k # n /\ k # m => inbox'[k][c] = inbox[k][c]
        /\ inbox'[n][c] = <<>> /\ inbox'[m][c] = y
        BY <1>1, <1>2, <1>3, <1>5, <1>6, StreamsChange, ZenonT(60)
  <1> QED BY <1>7, <1>8, <1>9, Zenon

(* Calls when nobody is served, and when an answer has come.               *)
LEMMA NobodyServed ==
    ASSUME NetInv, NEW c \in Conns, call' = call, setup' = setup, conns' = conns
    PROVE  CallsKept(c)
  <1>1. call' \in [AllCallers -> CallRecord]
        BY DEF NetInv, Types, CallRecord
  <1>2. CallsRun'
        BY DEF NetInv, CallsRun, Callers, Conns
  <1> QED BY <1>1, <1>2 DEF CallsKept

(* A request that is served.                                               *)
LEMMA Served ==
    ASSUME NetInv, NEW n \in Nodes, NEW c \in Conns, n = conns[c][1],
           NEW at \in {"served", "refused"}, Serve(n, c, at), setup' = setup, conns' = conns
    PROVE  /\ CallsKept(c)
           /\ LET p == conns[c] IN
              /\ call[p].at = "wait" /\ call[p].conn = c => call'[p].at = at
              /\ ~(call[p].at = "wait" /\ call[p].conn = c) => call'[p] = call[p]
  <1>0. call \in [AllCallers -> CallRecord] /\ at \in CallStates /\ CallsRun
        BY DEF NetInv, Types, CallRecord, CallStates
  <1>1. ASSUME NEW q \in AllCallers, ~(call[q].at = "wait" /\ call[q].conn = c)
        PROVE  call'[q] = call[q]
        BY <1>1 DEF Serve
  <1>2. ASSUME NEW q \in AllCallers, call[q].at = "wait", call[q].conn = c
        PROVE  /\ q = conns[c] /\ q \in Callers /\ call[q].tries > 0 /\ call[q].tries < Tries
               /\ call'[q] \in CallRecord /\ call'[q].at = at /\ call'[q].tries = call[q].tries
    <2>1. q = conns[c] /\ q \in Callers /\ call[q].tries > 0 /\ call[q].tries < Tries
          BY <1>0, <1>2 DEF CallsRun
    <2>2. call'[q] = [call[q] EXCEPT !.at = at]
          BY <1>2, <2>1 DEF Serve
    <2> QED BY <1>0, <2>1, <2>2 DEF CallRecord
  <1>3. call' \in [AllCallers -> CallRecord]
    <2>1. \A q \in AllCallers : call'[q] \in CallRecord
          BY <1>0, <1>1, <1>2
    <2>2. call' = [q \in AllCallers |-> call'[q]]
          BY DEF Serve
    <2> QED BY <2>1, <2>2
  <1>4. CallsRun'
    <2> SUFFICES ASSUME NEW q \in AllCallers
                 PROVE  /\ call'[q].at # "idle" => q \in Callers /\ call'[q].tries > 0
                        /\ call'[q].tries < Tries
                        /\ call'[q].at = "wait" =>
                              call'[q].conn \in Conns /\ conns[call'[q].conn] = q
        BY DEF CallsRun, Callers, Conns
    <2>1. CASE call[q].at = "wait" /\ call[q].conn = c
          BY <1>2, <2>1
    <2>2. CASE ~(call[q].at = "wait" /\ call[q].conn = c)
          BY <1>0, <1>1, <2>2 DEF CallsRun
    <2> QED BY <2>1, <2>2
  <1>5. conns[c] \in AllCallers
        BY TwoEnds DEF NetInv
  <1>6. CallsKept(c)
        BY <1>1, <1>2, <1>3, <1>4 DEF CallsKept
  <1> QED BY <1>1, <1>2, <1>5, <1>6

(* The ends when node n closes its end of c, and when none is closed.      *)
LEMMA Removed ==
    ASSUME NetInv, NEW n \in Nodes, NEW c \in Conns, RemoveConnection(n, c)
    PROVE  EndsKept(n, c) /\ c \notin incoming'[n] /\ <<n, c>> \in closed'
  <1>1. /\ incoming' = [incoming EXCEPT ![n] = incoming[n] \ {c}]
        /\ closed' = closed \cup {<<n, c>>}
        /\ incoming \in [Nodes -> SUBSET Conns] /\ closed \subseteq Nodes \X Conns
        BY DEF RemoveConnection, NetInv, Types
  <1>2. \A k \in Nodes : incoming'[k] = IF k = n THEN incoming[k] \ {c} ELSE incoming[k]
        BY <1>1
  <1>3. incoming' \in [Nodes -> SUBSET Conns] /\ closed' \subseteq Nodes \X Conns
        BY <1>1
  <1> QED BY <1>1, <1>2, <1>3 DEF EndsKept

(* A step that neither adds nor closes an end.                             *)
LEMMA NoneRemoved ==
    ASSUME NetInv, NEW n \in Nodes, NEW c \in Conns, incoming' = incoming, closed' = closed
    PROVE  EndsKept(n, c)
  BY DEF EndsKept, NetInv, Types


(* How node n is connected, when nothing changes.                          *)
LEMMA NodesSame ==
    ASSUME NetInv, NEW n \in Nodes, NEW c \in Conns, NEW m \in Nodes, outgoing' = outgoing
    PROVE  NodesKept(n, c, m)
  BY DEF NodesKept, NetInv, Types

(* Streams that are closed stay empty.                                     *)
LEMMA ClosedStays ==
    ASSUME NetInv, NEW n \in Nodes, NEW c \in Conns, NEW m \in Nodes, EndsKept(n, c),
           inbox'[n][c] = <<>>,
           <<m, c>> \in closed => inbox'[m][c] = <<>>,
           \A k \in Nodes : k # n /\ k # m => inbox'[k][c] = inbox[k][c]
    PROVE  \A k \in Nodes : <<k, c>> \in closed' => inbox'[k][c] = <<>>
  <1> SUFFICES ASSUME NEW k \in Nodes, <<k, c>> \in closed', k # n
               PROVE  inbox'[k][c] = <<>>
      OBVIOUS
  <1>1. <<k, c>> \in closed
        BY DEF EndsKept
  <1>2. inbox[k][c] = <<>>
        BY <1>1, ClosedIsEmpty
  <1> QED BY <1>1, <1>2

(* _handleConnect                                                          *)
LEMMA HandleConnectStep ==
    ASSUME NetInv, NEW n \in Nodes, NEW c \in Conns, HandleConnect(n, c)
    PROVE  NetInv'
  <1> DEFINE m == OtherEnd(n, c)
  <1>1. /\ conns[c][2] = n /\ <<n, c>> \notin closed
        /\ incoming' = [incoming EXCEPT ![n] = @ \cup {c}]
        /\ setup' = setup /\ conns' = conns /\ alive' = alive /\ closed' = closed
        /\ inbox' = inbox /\ outgoing' = outgoing /\ call' = call
        BY DEF HandleConnect
  <1>2. m = conns[c][1] /\ m \in Nodes /\ m # n /\ conns[c] = <<m, n>>
        BY <1>1, TwoEnds DEF NetInv
  <1> HIDE DEF m
  <1>3. /\ incoming \in [Nodes -> SUBSET Conns] /\ closed \subseteq Nodes \X Conns
        /\ \A k \in Nodes : incoming'[k] = IF k = n THEN incoming[k] \cup {c} ELSE incoming[k]
        BY <1>1 DEF NetInv, Types
  <1>4. EndsKept(n, c) /\ c \in incoming'[n]
    <2>1. incoming' \in [Nodes -> SUBSET Conns]
          BY <1>1, <1>3
    <2> QED BY <1>1, <1>3, <2>1 DEF EndsKept
  <1>5. StreamsKept(c)
        BY <1>1 DEF StreamsKept, NetInv, Types
  <1>6. NodesKept(n, c, m)
        BY <1>1, <1>2, NodesSame
  <1>7. CallsKept(c)
        BY <1>1, NobodyServed
  <1>8. HandshakeOn(c) /\ (Single(conns[c]) => AgreeOn(c))
        BY PartsOf
  <1>9. HandshakeOn(c)'
        BY <1>1, <1>8 DEF HandshakeOn
  <1>10. Single(conns[c]) => AgreeOn(c)'
    <2>1. incoming'[conns[c][1]] = incoming[conns[c][1]]
          BY <1>2, <1>3
    <2> QED BY <1>1, <1>8, <2>1 DEF AgreeOn
  <1>11. Single(conns[c]) /\ call'[conns[c]].at \in {"try", "wait", "refused"} =>
              outgoing'[conns[c][1]][conns[c][2]] = NONE
    <2>1. conns[c] \in Callers
          BY TwoEnds DEF NetInv
    <2> QED BY <1>1, <2>1 DEF NetInv, OneConnection
  <1>12. \A k \in Nodes : <<k, c>> \in closed' => inbox'[k][c] = <<>>
         BY <1>1, ClosedIsEmpty
  <1>13. m = OtherEnd(n, c)
         BY DEF m
  <1>14. n \in {conns[c][1], conns[c][2]}
         BY <1>1
  <1> QED BY <1>1, <1>4, <1>5, <1>6, <1>7, <1>9, <1>10, <1>11, <1>12, <1>13, <1>14, LinkStep

(* _cmdConnect                                                             *)
LEMMA CmdConnectStep ==
    ASSUME NetInv, NEW n \in Nodes, NEW c \in Conns, CmdConnect(n, c)
    PROVE  NetInv'
  <1> DEFINE m == OtherEnd(n, c)
  <1>0. /\ Receives(n, c, Connect)
        /\ setup' = setup /\ conns' = conns /\ alive' = alive /\ call' = call
        BY DEF CmdConnect
  <1>m. m = OtherEnd(n, c)
        OBVIOUS
  <1>s. \/ /\ outgoing[n][m] # NONE /\ Send(n, c, Refused)
           /\ RemoveConnection(n, c) /\ outgoing' = outgoing
        \/ /\ outgoing[n][m] = NONE /\ Send(n, c, Accepted)
           /\ outgoing' = [outgoing EXCEPT ![n][m] = c]
           /\ incoming' = incoming /\ closed' = closed
        BY DEF CmdConnect
  <1> HIDE DEF m
  <1>p. Connect \in Packets /\ Accepted \in Packets /\ Refused \in Packets
        BY DEF Packets
  <1>1. Taken(n, c, m, Connect)
        BY <1>0, <1>m, <1>p, Received
  <1>2. /\ n = conns[c][2] /\ m = conns[c][1] /\ m \in Nodes /\ m # n
        /\ c \in incoming[n] /\ <<n, c>> \notin closed
        /\ outgoing[n][m] # c /\ outgoing[m][n] # c /\ inbox[m][c] = <<>>
        BY <1>1 DEF Taken, Connect, Ack
  <1>3. CallsKept(c)
        BY <1>0, NobodyServed
  <1>4. HandshakeOn(c) /\ (Single(conns[c]) => AgreeOn(c))
        BY PartsOf
  <1>w. Single(conns[c]) /\ call[conns[c]].at \in {"try", "wait", "refused"} =>
              outgoing[m][n] = NONE
    <2>1. conns[c] \in Callers
          BY TwoEnds DEF NetInv
    <2> QED BY <1>2, <2>1 DEF NetInv, OneConnection
  <1>e. <<>> # <<Accepted>> /\ <<>> # <<Refused>> /\ <<>> # <<Connect>> /\ <<Refused>> # <<Accepted>>
        BY OnePacket, TwoPackets DEF Accepted, Refused
  <1>5. CASE /\ outgoing[n][m] # NONE /\ Send(n, c, Refused)
             /\ RemoveConnection(n, c) /\ outgoing' = outgoing
    <2>1. EndsKept(n, c) /\ c \notin incoming'[n] /\ <<n, c>> \in closed'
          BY <1>5, Removed
    <2>2. /\ inbox' \in [Nodes -> Seq(Seq(Packets))]
          /\ \A k \in Nodes : Len(inbox'[k]) = Len(conns)
          /\ \A k \in Nodes, d \in Conns : d # c => inbox'[k][d] = inbox[k][d]
          /\ \A k \in Nodes : k # n /\ k # m => inbox'[k][c] = inbox[k][c]
          /\ inbox'[n][c] = <<>>
          /\ <<m, c>> \in closed => inbox'[m][c] = <<>>
          /\ <<m, c>> \notin closed => inbox'[m][c] = <<Refused>>
          BY <1>0, <1>m, <1>p, <1>5, SendStep
    <2>3. StreamsKept(c)
          BY <2>2 DEF StreamsKept
    <2>4. NodesKept(n, c, m)
          BY <1>2, <1>5, NodesSame
    <2>5. \A k \in Nodes : <<k, c>> \in closed' => inbox'[k][c] = <<>>
          BY <1>2, <2>1, <2>2, ClosedStays, ZenonT(60)
    <2>6. HandshakeOn(c)'
          BY <1>0, <1>2, <1>5, <2>2 DEF HandshakeOn
    <2>7. Single(conns[c]) => AgreeOn(c)'
      <3>1. c \in incoming'[m] <=> c \in incoming[m]
            BY <1>2, <2>1 DEF EndsKept
      <3>2. inbox'[m][c] # <<Accepted>> /\ <<n, c>> \in closed'
            BY <1>e, <2>1, <2>2
      <3> QED BY <1>0, <1>2, <1>4, <1>5, <3>1, <3>2 DEF AgreeOn
    <2> QED BY <1>0, <1>2, <1>3, <1>5, <1>m, <1>w, <2>1, <2>3, <2>4, <2>5, <2>6, <2>7, LinkStep
  <1>6. CASE /\ outgoing[n][m] = NONE /\ Send(n, c, Accepted)
             /\ outgoing' = [outgoing EXCEPT ![n][m] = c]
             /\ incoming' = incoming /\ closed' = closed
    <2>1. EndsKept(n, c)
          BY <1>6, NoneRemoved
    <2>2. /\ inbox' \in [Nodes -> Seq(Seq(Packets))]
          /\ \A k \in Nodes : Len(inbox'[k]) = Len(conns)
          /\ \A k \in Nodes, d \in Conns : d # c => inbox'[k][d] = inbox[k][d]
          /\ \A k \in Nodes : k # n /\ k # m => inbox'[k][c] = inbox[k][c]
          /\ inbox'[n][c] = <<>>
          /\ <<m, c>> \in closed => inbox'[m][c] = <<>>
          /\ <<m, c>> \notin closed => inbox'[m][c] = <<Accepted>>
          BY <1>0, <1>m, <1>p, <1>6, SendStep
    <2>3. StreamsKept(c)
          BY <2>2 DEF StreamsKept
    <2>4. NodesKept(n, c, m) /\ outgoing'[n][m] = c
      <3>1. outgoing[n][m] \in {NONE, c}
            BY <1>6
      <3>2. c \in Nat /\ outgoing \in [Nodes -> [Nodes -> Nat]]
            BY TwoEnds DEF NetInv, Types
      <3> QED BY <1>2, <1>6, <3>1, <3>2 DEF NodesKept
    <2>o. outgoing'[m][n] = outgoing[m][n]
          BY <1>2, <2>4 DEF NodesKept
    <2>5. \A k \in Nodes : <<k, c>> \in closed' => inbox'[k][c] = <<>>
          BY <1>2, <2>1, <2>2, ClosedStays, ZenonT(60)
    <2>6. HandshakeOn(c)'
          BY <1>0, <1>2, <1>e, <2>2, <2>o DEF HandshakeOn
    <2>7. Single(conns[c]) => AgreeOn(c)'
          BY <1>0, <1>2, <1>4, <1>6, <2>2, <2>4, <2>o DEF AgreeOn
    <2> QED BY <1>0, <1>2, <1>3, <1>6, <1>m, <1>w, <2>1, <2>3, <2>4, <2>o, <2>5, <2>6, <2>7, LinkStep
  <1> QED BY <1>s, <1>5, <1>6

(* The caller whose peer does not call it waits for the answer.            *)
LEMMA SingleWaits ==
    ASSUME NetInv, NEW c \in Conns, Single(conns[c]), c \in incoming[conns[c][1]],
           outgoing[conns[c][1]][conns[c][2]] # c
    PROVE  /\ call[conns[c]].at = "wait" /\ call[conns[c]].conn = c
           /\ outgoing[conns[c][1]][conns[c][2]] = NONE
  <1>1. conns[c] \in Callers
        BY TwoEnds DEF NetInv
  <1> QED BY <1>1 DEF NetInv, OneConnection

(* A node is not connected to a peer it is still connecting.               *)
LEMMA AtClause ==
    ASSUME NetInv, NEW c \in Conns
    PROVE  Single(conns[c]) /\ call[conns[c]].at \in {"try", "wait", "refused"} =>
              outgoing[conns[c][1]][conns[c][2]] = NONE
  <1>1. conns[c] \in Callers
        BY TwoEnds DEF NetInv
  <1> QED BY <1>1 DEF NetInv, OneConnection

(* _cmdConnectReply: the connection was refused.                           *)
LEMMA RefusedStep ==
    ASSUME NetInv, NEW n \in Nodes, NEW c \in Conns, CmdConnectRefused(n, c)
    PROVE  NetInv'
  <1> DEFINE m == OtherEnd(n, c)
  <1>m. m = OtherEnd(n, c)
        OBVIOUS
  <1> HIDE DEF m
  <1>0. /\ Receives(n, c, Refused) /\ Take(n, c) /\ RemoveConnection(n, c)
        /\ Serve(n, c, "refused")
        /\ setup' = setup /\ conns' = conns /\ alive' = alive /\ outgoing' = outgoing
        BY DEF CmdConnectRefused
  <1>p. Refused \in Packets
        BY DEF Packets
  <1>1. Taken(n, c, m, Refused)
        BY <1>0, <1>m, <1>p, Received
  <1>2. /\ n = conns[c][1] /\ m = conns[c][2] /\ m \in Nodes /\ m # n
        /\ c \in incoming[n] /\ outgoing[n][m] # c /\ inbox[m][c] = <<>>
        BY <1>1 DEF Taken, Refused, Ack
  <1>3. /\ CallsKept(c)
        /\ call[conns[c]].at = "wait" /\ call[conns[c]].conn = c => call'[conns[c]].at = "refused"
        /\ ~(call[conns[c]].at = "wait" /\ call[conns[c]].conn = c) => call'[conns[c]] = call[conns[c]]
        BY <1>0, <1>2, Served
  <1>4. EndsKept(n, c) /\ c \notin incoming'[n] /\ <<n, c>> \in closed'
        BY <1>0, Removed
  <1>5. /\ inbox' \in [Nodes -> Seq(Seq(Packets))]
        /\ \A k \in Nodes : Len(inbox'[k]) = Len(conns)
        /\ \A k \in Nodes, d \in Conns : d # c => inbox'[k][d] = inbox[k][d]
        /\ \A k \in Nodes : k # n /\ k # m => inbox'[k][c] = inbox[k][c]
        /\ inbox'[n][c] = <<>> /\ inbox'[m][c] = <<>>
        BY <1>0, <1>m, <1>p, TakeStep
  <1>6. StreamsKept(c)
        BY <1>5 DEF StreamsKept
  <1>7. NodesKept(n, c, m)
        BY <1>0, <1>2, NodesSame
  <1>8. \A k \in Nodes : <<k, c>> \in closed' => inbox'[k][c] = <<>>
        BY <1>2, <1>4, <1>5, ClosedStays, ZenonT(60)
  <1>9. HandshakeOn(c)'
        BY <1>0, <1>2, <1>5 DEF HandshakeOn
  <1>10. <<>> # <<Accepted>>
         BY OnePacket
  <1>11. Single(conns[c]) => AgreeOn(c)'
         BY <1>0, <1>2, <1>4, <1>5, <1>10 DEF AgreeOn
  <1>12. Single(conns[c]) /\ call'[conns[c]].at \in {"try", "wait", "refused"} =>
              outgoing'[conns[c][1]][conns[c][2]] = NONE
         BY <1>0, <1>2, <1>3, SingleWaits, AtClause
  <1>13. outgoing'[n][m] # c /\ n \in {conns[c][1], conns[c][2]}
         BY <1>0, <1>2
  <1> QED BY <1>0, <1>m, <1>3, <1>4, <1>6, <1>7, <1>8, <1>9, <1>11, <1>12, <1>13, LinkStep

(* _cmdConnectReply: a simultaneous connect, which does not happen to a    *)
(* caller whose peer does not call it.                                     *)
LEMMA SimultaneousStep ==
    ASSUME NetInv, NEW n \in Nodes, NEW c \in Conns, CmdConnectSimultaneous(n, c)
    PROVE  NetInv'
  <1> DEFINE m == OtherEnd(n, c)
  <1>m. m = OtherEnd(n, c)
        OBVIOUS
  <1>0. /\ Receives(n, c, Accepted) /\ Take(n, c) /\ RemoveConnection(n, c)
        /\ outgoing[n][m] # NONE /\ outgoing' = [outgoing EXCEPT ![n][m] = NONE]
        /\ Serve(n, c, "refused")
        /\ setup' = setup /\ conns' = conns /\ alive' = alive
        BY DEF CmdConnectSimultaneous, Simultaneous
  <1> HIDE DEF m
  <1>p. Accepted \in Packets
        BY DEF Packets
  <1>1. Taken(n, c, m, Accepted)
        BY <1>0, <1>m, <1>p, Received
  <1>2. /\ n = conns[c][1] /\ m = conns[c][2] /\ m \in Nodes /\ m # n
        /\ c \in incoming[n] /\ outgoing[n][m] # c /\ inbox[m][c] = <<>>
        BY <1>1 DEF Taken, Accepted, Ack
  <1>3. CallsKept(c)
        BY <1>0, <1>2, Served
  <1>4. EndsKept(n, c) /\ c \notin incoming'[n] /\ <<n, c>> \in closed'
        BY <1>0, Removed
  <1>5. /\ inbox' \in [Nodes -> Seq(Seq(Packets))]
        /\ \A k \in Nodes : Len(inbox'[k]) = Len(conns)
        /\ \A k \in Nodes, d \in Conns : d # c => inbox'[k][d] = inbox[k][d]
        /\ \A k \in Nodes : k # n /\ k # m => inbox'[k][c] = inbox[k][c]
        /\ inbox'[n][c] = <<>> /\ inbox'[m][c] = <<>>
        BY <1>0, <1>m, <1>p, TakeStep
  <1>6. StreamsKept(c)
        BY <1>5 DEF StreamsKept
  <1>7. ~Single(conns[c])
        BY <1>0, <1>2, SingleWaits
  <1>8. NodesKept(n, c, m) /\ outgoing'[n][m] = NONE
    <2>1. NONE \in Nat /\ outgoing \in [Nodes -> [Nodes -> Nat]]
          BY DEF NetInv, Types, NONE
    <2> QED BY <1>0, <1>2, <1>7, <2>1 DEF NodesKept
  <1>9. \A k \in Nodes : <<k, c>> \in closed' => inbox'[k][c] = <<>>
        BY <1>2, <1>4, <1>5, ClosedStays, ZenonT(60)
  <1>10. HandshakeOn(c)'
         BY <1>0, <1>2, <1>5 DEF HandshakeOn
  <1>11. c # NONE /\ n \in {conns[c][1], conns[c][2]}
         BY <1>2, TwoEnds DEF NetInv
  <1> QED BY <1>0, <1>m, <1>3, <1>4, <1>6, <1>7, <1>8, <1>9, <1>10, <1>11, LinkStep

(* _cmdConnectReply: the node is connected.                                *)
LEMMA ReplyStep ==
    ASSUME NetInv, NEW n \in Nodes, NEW c \in Conns, CmdConnectReply(n, c)
    PROVE  NetInv'
  <1> DEFINE m == OtherEnd(n, c)
  <1>m. m = OtherEnd(n, c)
        OBVIOUS
  <1>0. /\ Receives(n, c, Accepted) /\ Send(n, c, Ack)
        /\ outgoing[n][m] = NONE /\ outgoing' = [outgoing EXCEPT ![n][m] = c]
        /\ Serve(n, c, "served") /\ incoming' = incoming /\ closed' = closed
        /\ setup' = setup /\ conns' = conns /\ alive' = alive
        BY DEF CmdConnectReply, Simultaneous
  <1> HIDE DEF m
  <1>p. Accepted \in Packets /\ Ack \in Packets
        BY DEF Packets
  <1>1. Taken(n, c, m, Accepted)
        BY <1>0, <1>m, <1>p, Received
  <1>2. /\ n = conns[c][1] /\ m = conns[c][2] /\ m \in Nodes /\ m # n
        /\ c \in incoming[n] /\ <<n, c>> \notin closed /\ outgoing[n][m] # c
        /\ inbox[n][c] = <<Accepted>> /\ inbox[m][c] = <<>>
        BY <1>1 DEF Taken, Accepted, Ack
  <1>3. /\ CallsKept(c)
        /\ call[conns[c]].at = "wait" /\ call[conns[c]].conn = c => call'[conns[c]].at = "served"
        /\ ~(call[conns[c]].at = "wait" /\ call[conns[c]].conn = c) => call'[conns[c]] = call[conns[c]]
        BY <1>0, <1>2, Served
  <1>4. EndsKept(n, c)
        BY <1>0, NoneRemoved
  <1>5. /\ inbox' \in [Nodes -> Seq(Seq(Packets))]
        /\ \A k \in Nodes : Len(inbox'[k]) = Len(conns)
        /\ \A k \in Nodes, d \in Conns : d # c => inbox'[k][d] = inbox[k][d]
        /\ \A k \in Nodes : k # n /\ k # m => inbox'[k][c] = inbox[k][c]
        /\ inbox'[n][c] = <<>>
        /\ <<m, c>> \in closed => inbox'[m][c] = <<>>
        /\ <<m, c>> \notin closed => inbox'[m][c] = <<Ack>>
        BY <1>0, <1>m, <1>p, SendStep
  <1>6. StreamsKept(c)
        BY <1>5 DEF StreamsKept
  <1>7. NodesKept(n, c, m) /\ outgoing'[n][m] = c
    <2>1. c \in Nat /\ outgoing \in [Nodes -> [Nodes -> Nat]]
          BY TwoEnds DEF NetInv, Types
    <2> QED BY <1>0, <1>2, <2>1 DEF NodesKept
  <1>o. outgoing'[m][n] = outgoing[m][n]
        BY <1>2, <1>7 DEF NodesKept
  <1>8. \A k \in Nodes : <<k, c>> \in closed' => inbox'[k][c] = <<>>
        BY <1>2, <1>4, <1>5, ClosedStays, ZenonT(60)
  <1>9. HandshakeOn(c)'
    <2>1. <<Ack>> # <<Connect>> /\ <<>> # <<Connect>>
          BY OnePacket, TwoPackets DEF Ack, Connect
    <2> QED BY <1>0, <1>2, <1>5, <2>1 DEF HandshakeOn
  <1>10. Single(conns[c]) => AgreeOn(c)'
    <2>1. Single(conns[c]) => AgreeOn(c)
          BY PartsOf
    <2> QED BY <1>0, <1>2, <1>7, <1>o, <2>1 DEF AgreeOn
  <1>11. Single(conns[c]) /\ call'[conns[c]].at \in {"try", "wait", "refused"} =>
              outgoing'[conns[c][1]][conns[c][2]] = NONE
         BY <1>2, <1>3, SingleWaits
  <1>12. c \in incoming'[n] /\ <<n, c>> \notin closed' /\ n \in {conns[c][1], conns[c][2]}
         BY <1>0, <1>2
  <1> QED BY <1>0, <1>m, <1>3, <1>4, <1>6, <1>7, <1>8, <1>9, <1>10, <1>11, <1>12, LinkStep

(* _cmdConnectAck                                                          *)
LEMMA AckStep ==
    ASSUME NetInv, NEW n \in Nodes, NEW c \in Conns, CmdConnectAck(n, c)
    PROVE  NetInv'
  <1> DEFINE m == OtherEnd(n, c)
  <1>m. m = OtherEnd(n, c)
        OBVIOUS
  <1> HIDE DEF m
  <1>0. /\ Receives(n, c, Ack) /\ Take(n, c) /\ call' = call
        /\ incoming' = incoming /\ closed' = closed /\ outgoing' = outgoing
        /\ setup' = setup /\ conns' = conns /\ alive' = alive
        BY DEF CmdConnectAck
  <1>p. Ack \in Packets
        BY DEF Packets
  <1>1. Taken(n, c, m, Ack)
        BY <1>0, <1>m, <1>p, Received
  <1>2. /\ n = conns[c][2] /\ m = conns[c][1] /\ m \in Nodes /\ m # n
        /\ c \in incoming[n] /\ <<n, c>> \notin closed /\ inbox[m][c] = <<>>
        BY <1>1 DEF Taken
  <1>3. CallsKept(c)
        BY <1>0, NobodyServed
  <1>4. EndsKept(n, c)
        BY <1>0, NoneRemoved
  <1>5. /\ inbox' \in [Nodes -> Seq(Seq(Packets))]
        /\ \A k \in Nodes : Len(inbox'[k]) = Len(conns)
        /\ \A k \in Nodes, d \in Conns : d # c => inbox'[k][d] = inbox[k][d]
        /\ \A k \in Nodes : k # n /\ k # m => inbox'[k][c] = inbox[k][c]
        /\ inbox'[n][c] = <<>> /\ inbox'[m][c] = <<>>
        BY <1>0, <1>m, <1>p, TakeStep
  <1>6. StreamsKept(c)
        BY <1>5 DEF StreamsKept
  <1>7. NodesKept(n, c, m)
        BY <1>0, <1>2, NodesSame
  <1>8. \A k \in Nodes : <<k, c>> \in closed' => inbox'[k][c] = <<>>
        BY <1>2, <1>4, <1>5, ClosedStays, ZenonT(60)
  <1>9. HandshakeOn(c)'
        BY <1>0, <1>2, <1>5, OnePacket DEF HandshakeOn
  <1>10. Single(conns[c]) => AgreeOn(c)'
    <2>1. Single(conns[c]) => AgreeOn(c)
          BY PartsOf
    <2> QED BY <1>0, <1>2, <1>5, <2>1 DEF AgreeOn
  <1>11. Single(conns[c]) /\ call'[conns[c]].at \in {"try", "wait", "refused"} =>
              outgoing'[conns[c][1]][conns[c][2]] = NONE
         BY <1>0, AtClause
  <1>12. c \in incoming'[n] /\ <<n, c>> \notin closed' /\ n \in {conns[c][1], conns[c][2]}
         BY <1>0, <1>2
  <1> QED BY <1>0, <1>m, <1>3, <1>4, <1>6, <1>7, <1>8, <1>9, <1>10, <1>11, <1>12, LinkStep

(* A connection is lost or closed, and the node with it.                   *)
LEMMA CloseStep ==
    ASSUME NetInv, NEW n \in Nodes, NEW c \in Conns,
           HandleDisconnect(n, c) \/ CmdDisconnect(n, c)
    PROVE  NetInv'
  <1> DEFINE m == OtherEnd(n, c)
  <1>m. m = OtherEnd(n, c)
        OBVIOUS
  <1>0. /\ c \in incoming[n] \/ outgoing[n][m] = c
        /\ RemoveConnection(n, c)
        /\ outgoing' = IF outgoing[n][m] = c THEN [outgoing EXCEPT ![n][m] = NONE] ELSE outgoing
        /\ setup' = setup /\ conns' = conns /\ alive' = alive /\ call' = call
        BY DEF HandleDisconnect, CmdDisconnect, ForgetNode, HasNode
  <1>1. c \in Nat /\ c # NONE /\ Types
        BY TwoEnds DEF NetInv
  <1>2. /\ n \in {conns[c][1], conns[c][2]} /\ m \in Nodes /\ m # n
        /\ {n, m} = {conns[c][1], conns[c][2]}
    <2>1. /\ conns[c][1] \in Nodes /\ conns[c][2] \in Nodes /\ conns[c][1] # conns[c][2]
          /\ OtherEnd(conns[c][1], c) = conns[c][2] /\ OtherEnd(conns[c][2], c) = conns[c][1]
          BY TwoEnds DEF NetInv
    <2>2. m \in Nodes
          BY <2>1 DEF OtherEnd
    <2> HIDE DEF m
    <2>3. c \in incoming[n]
      <3>1. outgoing[n][m] # NONE => outgoing[n][m] \in incoming[n]
            BY <2>2, ConnectedThrough
      <3> QED BY <1>0, <1>1, <3>1
    <2>4. n \in {conns[c][1], conns[c][2]}
          BY <2>3 DEF NetInv, Listening
    <2>5. CASE n = conns[c][1]
          BY <1>m, <2>1, <2>5
    <2>6. CASE n = conns[c][2]
          BY <1>m, <2>1, <2>6
    <2> QED BY <2>4, <2>5, <2>6
  <1>3. /\ inbox' \in [Nodes -> Seq(Seq(Packets))]
        /\ \A k \in Nodes : Len(inbox'[k]) = Len(conns)
        /\ \A k \in Nodes, d \in Conns : d # c => inbox'[k][d] = inbox[k][d]
        /\ \A k \in Nodes : k # n => inbox'[k][c] = inbox[k][c]
        /\ inbox'[n][c] = <<>>
    <2>1. CASE HandleDisconnect(n, c)
          BY <2>1 DEF HandleDisconnect, NetInv, Types
    <2>2. CASE CmdDisconnect(n, c)
      <3>1. inbox' = [inbox EXCEPT ![n][c] = <<>>] /\ <<>> \in Seq(Packets)
            BY <2>2 DEF CmdDisconnect
      <3> QED BY <1>1, <3>1, StreamChange, ZenonT(60)
    <2> QED BY <2>1, <2>2
  <1> HIDE DEF m
  <1>4. EndsKept(n, c) /\ c \notin incoming'[n] /\ <<n, c>> \in closed'
        BY <1>0, Removed
  <1>5. StreamsKept(c)
        BY <1>3 DEF StreamsKept
  <1>6. NodesKept(n, c, m) /\ outgoing'[n][m] # c
    <2>1. NONE \in Nat /\ outgoing \in [Nodes -> [Nodes -> Nat]]
          BY DEF NetInv, Types, NONE
    <2> QED BY <1>0, <1>1, <1>2, <2>1 DEF NodesKept
  <1>7. CallsKept(c)
        BY <1>0, NobodyServed
  <1>8. \A k \in Nodes : <<k, c>> \in closed' => inbox'[k][c] = <<>>
    <2>1. /\ <<m, c>> \in closed => inbox'[m][c] = <<>>
          /\ \A k \in Nodes : k # n /\ k # m => inbox'[k][c] = inbox[k][c]
          BY <1>2, <1>3, ClosedIsEmpty
    <2> QED BY <1>2, <1>3, <1>4, <2>1, ClosedStays, ZenonT(60)
  <1>9. outgoing'[m][n] = outgoing[m][n]
        BY <1>2, <1>6 DEF NodesKept
  <1>10. HandshakeOn(c) /\ (Single(conns[c]) => AgreeOn(c))
         BY PartsOf
  <1>11. inbox'[m][c] = inbox[m][c]
         BY <1>2, <1>3
  <1>12. (c \in incoming'[m] <=> c \in incoming[m]) /\ closed \subseteq closed'
         BY <1>2, <1>4 DEF EndsKept
  <1>13. HandshakeOn(c)' /\ (Single(conns[c]) => AgreeOn(c)')
    <2>1. CASE n = conns[c][1] /\ m = conns[c][2]
      <3>1. HandshakeOn(c)'
            BY <1>0, <1>3, <1>6, <1>9, <1>10, <1>11, <2>1 DEF HandshakeOn
      <3>2. Single(conns[c]) => AgreeOn(c)'
        <4>1. <<>> # <<Accepted>>
              BY OnePacket
        <4> QED BY <1>0, <1>3, <1>4, <1>6, <2>1, <4>1 DEF AgreeOn
      <3> QED BY <3>1, <3>2
    <2>2. CASE n = conns[c][2] /\ m = conns[c][1]
      <3>1. HandshakeOn(c)'
        <4>1. <<>> # <<Connect>>
              BY OnePacket
        <4> QED BY <1>0, <1>3, <1>9, <1>10, <1>11, <2>2, <4>1 DEF HandshakeOn
      <3>2. Single(conns[c]) => AgreeOn(c)'
            BY <1>0, <1>3, <1>4, <1>6, <1>9, <1>10, <1>11, <1>12, <2>2 DEF AgreeOn
      <3> QED BY <3>1, <3>2
    <2> QED BY <1>2, <2>1, <2>2
  <1>14. Single(conns[c]) /\ call'[conns[c]].at \in {"try", "wait", "refused"} =>
              outgoing'[conns[c][1]][conns[c][2]] = NONE
    <2>1. Single(conns[c]) /\ call[conns[c]].at \in {"try", "wait", "refused"} =>
              outgoing[conns[c][1]][conns[c][2]] = NONE
          BY AtClause
    <2>2. outgoing[n][m] = NONE => outgoing'[n][m] = NONE
          BY <1>0, <1>1
    <2> QED BY <1>0, <1>2, <1>9, <2>1, <2>2
  <1> QED BY <1>0, <1>m, <1>2, <1>4, <1>5, <1>6, <1>7, <1>8, <1>13, <1>14, LinkStep

-----------------------------------------------------------------------------
(* The process of a node ends: all its ends are closed.                    *)
LEMMA StopStep ==
    ASSUME NetInv, NEW n \in Nodes, Stop(n)
    PROVE  NetInv'
  <1>t. Types /\ CallsRun /\ Listening /\ Handshake /\ OneConnection
        BY DEF NetInv
  <1>0. /\ alive' = alive \ {n}
        /\ incoming' = [incoming EXCEPT ![n] = {}]
        /\ closed' = closed \cup
             {<<n, c>> : c \in {d \in Conns : n \in {conns[d][1], conns[d][2]}}}
        /\ inbox' = [inbox EXCEPT ![n] = [c \in Conns |-> <<>>]]
        /\ outgoing' = [outgoing EXCEPT ![n] = [m \in Nodes |-> NONE]]
        /\ call' = [p \in AllCallers |-> IF p[1] = n THEN Idle ELSE call[p]]
        /\ setup' = setup /\ conns' = conns
        BY DEF Stop
  <1>1. Conns' = Conns /\ Callers' = Callers /\ Conns = 1..Len(conns) /\ Len(conns) \in Nat
        BY <1>0, <1>t DEF Conns, Callers, Types
  <1>2. /\ incoming' \in [Nodes -> SUBSET Conns] /\ incoming'[n] = {}
        /\ \A k \in Nodes : k # n => incoming'[k] = incoming[k]
        BY <1>0, <1>t DEF Types
  <1>3. /\ closed' \subseteq Nodes \X Conns /\ closed \subseteq closed'
        /\ \A d \in Conns : n \in {conns[d][1], conns[d][2]} => <<n, d>> \in closed'
        /\ \A k \in Nodes, d \in Conns : k # n => (<<k, d>> \in closed' <=> <<k, d>> \in closed)
    <2>1. closed' \subseteq Nodes \X Conns
          BY <1>0, <1>t DEF Types
    <2> QED BY <1>0, <2>1
  <1>4. /\ inbox' \in [Nodes -> Seq(Seq(Packets))]
        /\ \A k \in Nodes : Len(inbox'[k]) = Len(conns)
        /\ \A d \in Conns : inbox'[n][d] = <<>>
        /\ \A k \in Nodes : k # n => inbox'[k] = inbox[k]
    <2> DEFINE none == [c \in Conns |-> <<>>]
    <2>1. none \in Seq(Seq(Packets)) /\ Len(none) = Len(conns)
      <3>1. none \in [1..Len(conns) -> Seq(Packets)]
            BY <1>1
      <3> HIDE DEF none
      <3>2. none \in Seq(Seq(Packets))
            BY <1>1, <3>1, SeqDef
      <3>3. DOMAIN none = 1..Len(conns)
            BY <3>1
      <3> QED BY <1>1, <3>2, <3>3, LenProperties
    <2>2. \A d \in Conns : none[d] = <<>>
          OBVIOUS
    <2> HIDE DEF none
    <2>3. inbox' = [inbox EXCEPT ![n] = none]
          BY <1>0 DEF none
    <2> QED BY <1>t, <2>1, <2>2, <2>3 DEF Types
  <1>5. /\ outgoing' \in [Nodes -> [Nodes -> Nat]]
        /\ \A m \in Nodes : outgoing'[n][m] = NONE
        /\ \A k \in Nodes, m \in Nodes : k # n => outgoing'[k][m] = outgoing[k][m]
        BY <1>0, <1>t DEF Types, NONE
  <1>6. /\ call' \in [AllCallers -> CallRecord]
        /\ \A q \in AllCallers : q[1] = n => call'[q] = Idle
        /\ \A q \in AllCallers : q[1] # n => call'[q] = call[q]
        BY <1>0, <1>t, IdleCall DEF Types, CallRecord
  <1>7. Types'
        BY <1>0, <1>1, <1>2, <1>3, <1>4, <1>5, <1>6, <1>t DEF Types, CallRecord
  <1>8. CallsRun'
    <2> SUFFICES ASSUME NEW q \in AllCallers
                 PROVE  /\ call'[q].at # "idle" => q \in Callers /\ call'[q].tries > 0
                        /\ call'[q].tries < Tries
                        /\ call'[q].at = "wait" =>
                              call'[q].conn \in Conns /\ conns[call'[q].conn] = q
        BY <1>0, <1>1 DEF CallsRun
    <2>1. CASE q[1] = n
          BY <1>6, <2>1, IdleCall, ConnectAssumption
    <2>2. CASE q[1] # n
          BY <1>6, <1>t, <2>2 DEF CallsRun
    <2> QED BY <2>1, <2>2
  <1>9. Listening'
    <2> SUFFICES ASSUME NEW k \in Nodes
                 PROVE  /\ \A d \in incoming'[k] : k \in {conns[d][1], conns[d][2]}
                        /\ \A d \in incoming'[k] : <<k, d>> \notin closed'
                        /\ \A l \in Nodes : outgoing'[k][l] # NONE =>
                              /\ outgoing'[k][l] \in incoming'[k]
                              /\ l = OtherEnd(k, outgoing[k][l])'
                        /\ \A d \in Conns : <<k, d>> \in closed' => inbox'[k][d] = <<>>
        BY <1>0, <1>1, Zenon DEF Listening, NONE
    <2>1. CASE k = n
          BY <1>2, <1>4, <1>5, <2>1
    <2>2. CASE k # n
      <3>1. incoming'[k] = incoming[k] /\ inbox'[k] = inbox[k] /\ incoming[k] \subseteq Conns
            BY <1>2, <1>4, <1>t, <2>2 DEF Types
      <3>2. \A d \in incoming'[k] : k \in {conns[d][1], conns[d][2]} /\ <<k, d>> \notin closed'
            BY <1>3, <1>t, <2>2, <3>1 DEF Listening
      <3>3. ASSUME NEW l \in Nodes, outgoing'[k][l] # NONE
            PROVE  outgoing'[k][l] \in incoming'[k] /\ l = OtherEnd(k, outgoing[k][l])'
        <4>1. outgoing'[k][l] = outgoing[k][l]
              BY <1>5, <2>2
        <4>2. OtherEnd(k, outgoing[k][l])' = OtherEnd(k, outgoing[k][l])
              BY <1>0, <4>1 DEF OtherEnd
        <4> QED BY <1>t, <3>1, <3>3, <4>1, <4>2 DEF Listening
      <3>4. \A d \in Conns : <<k, d>> \in closed' => inbox'[k][d] = <<>>
        <4>1. \A d \in Conns : <<k, d>> \in closed => inbox[k][d] = <<>>
              BY <1>t DEF Listening
        <4> QED BY <1>3, <2>2, <3>1, <4>1
      <3> QED BY <3>2, <3>3, <3>4
    <2> QED BY <2>1, <2>2
  <1>10. Handshake'
    <2> SUFFICES ASSUME NEW d \in Conns PROVE HandshakeOn(d)'
        BY <1>1 DEF Handshake, HandshakeOn
    <2> DEFINE a == conns[d][1]
               b == conns[d][2]
    <2>1. a \in Nodes /\ b \in Nodes /\ a # b /\ d # NONE
          BY <1>t, TwoEnds
    <2>2. HandshakeOn(d)
          BY PartsOf
    <2>3. /\ inbox'[a][d] = inbox[a][d] \/ inbox'[a][d] = <<>>
          /\ inbox'[b][d] = inbox[b][d] \/ inbox'[b][d] = <<>>
          /\ outgoing[a][b] # d => outgoing'[a][b] # d
          /\ outgoing[b][a] # d => outgoing'[b][a] # d
      <3> HIDE DEF a, b
      <3>1. ASSUME NEW k \in Nodes
            PROVE  inbox'[k][d] = inbox[k][d] \/ inbox'[k][d] = <<>>
            BY <1>4
      <3>2. ASSUME NEW k \in Nodes, NEW l \in Nodes, outgoing[k][l] # d
            PROVE  outgoing'[k][l] # d
            BY <1>5, <2>1, <3>2
      <3> QED BY <2>1, <3>1, <3>2, Zenon
    <2>4. <<>> # <<Connect>>
          BY OnePacket
    <2> QED BY <1>0, <2>2, <2>3, <2>4 DEF HandshakeOn
  <1>11. ASSUME NEW d \in Conns, Single(conns[d])
         PROVE  AgreeOn(d)'
    <2> DEFINE a == conns[d][1]
               b == conns[d][2]
    <2>1. a \in Nodes /\ b \in Nodes /\ a # b /\ d # NONE /\ conns[d] \in AllCallers
          BY <1>t, TwoEnds
    <2>2. AgreeOn(d)
          BY <1>11, PartsOf
    <2>3. <<>> # <<Accepted>>
          BY OnePacket
    <2>4. CASE a = n
      <3>1. /\ incoming'[a] = {} /\ outgoing'[a][b] # d /\ inbox'[a][d] = <<>>
            /\ <<a, d>> \in closed'
            BY <1>2, <1>3, <1>4, <1>5, <2>1, <2>4
      <3> QED BY <1>0, <2>3, <3>1 DEF AgreeOn
    <2>5. CASE b = n
      <3>1. /\ incoming'[a] = incoming[a] /\ outgoing'[a][b] = outgoing[a][b]
            /\ inbox'[a][d] = inbox[a][d] /\ <<b, d>> \in closed' /\ outgoing'[b][a] # d
            /\ call'[conns[d]] = call[conns[d]]
            BY <1>2, <1>3, <1>4, <1>5, <1>6, <2>1, <2>5
      <3> QED BY <1>0, <2>2, <3>1 DEF AgreeOn
    <2>6. CASE a # n /\ b # n
      <3>1. /\ incoming'[a] = incoming[a] /\ outgoing'[a][b] = outgoing[a][b]
            /\ inbox'[a][d] = inbox[a][d] /\ outgoing'[b][a] = outgoing[b][a]
            /\ call'[conns[d]] = call[conns[d]] /\ closed \subseteq closed'
            BY <1>2, <1>3, <1>4, <1>5, <1>6, <2>1, <2>6
      <3> QED BY <1>0, <2>2, <3>1 DEF AgreeOn
    <2> QED BY <2>4, <2>5, <2>6
  <1>12. ASSUME NEW q \in Callers, Single(q), call'[q].at \in {"try", "wait", "refused"}
         PROVE  outgoing'[q[1]][q[2]] = NONE
    <2>1. q \in AllCallers /\ q[1] \in Nodes /\ q[2] \in Nodes
          BY <1>t, CallerOfSetup
    <2>2. CASE q[1] = n
          BY <1>5, <2>1, <2>2
    <2>3. CASE q[1] # n
          BY <1>5, <1>6, <1>12, <1>t, <2>1, <2>3 DEF OneConnection
    <2> QED BY <2>2, <2>3
  <1>13. OneConnection'
    <2>1. ASSUME NEW q \in Callers
          PROVE  Single(q)' <=> Single(q)
          BY <1>1 DEF Single
    <2> SUFFICES ASSUME NEW q \in Callers, Single(q), NEW d \in Conns, conns[d] = q
                 PROVE  /\ d \in incoming'[q[1]] =>
                              \/ outgoing'[q[1]][q[2]] = d
                              \/ call'[q].at = "wait" /\ call'[q].conn = d
                        /\ outgoing'[q[1]][q[2]] = d \/ inbox'[q[1]][d] = <<Accepted>> =>
                              outgoing'[q[2]][q[1]] = d \/ <<q[2], d>> \in closed'
                        /\ outgoing'[q[2]][q[1]] = d =>
                              \/ outgoing'[q[1]][q[2]] = d
                              \/ inbox'[q[1]][d] = <<Accepted>>
                              \/ <<q[1], d>> \in closed'
        BY <1>0, <1>1, <1>12, <2>1, Zenon DEF OneConnection
    <2>2. AgreeOn(d)'
          BY <1>11
    <2>3. conns'[d] = q
          BY <1>0
    <2> QED BY <2>2, <2>3, Zenon DEF AgreeOn
  <1> QED BY <1>7, <1>8, <1>9, <1>10, <1>13 DEF NetInv

-----------------------------------------------------------------------------
(* NetInv is inductive: one lemma above for each action.                   *)
LEMMA NetStep ==
    NetInv /\ [Next]_vars => NetInv'
  <1> SUFFICES ASSUME NetInv, [Next]_vars PROVE NetInv'
      OBVIOUS
  <1>1. CASE UNCHANGED vars
    <2>0. /\ setup' = setup /\ conns' = conns /\ incoming' = incoming /\ closed' = closed
          /\ inbox' = inbox /\ outgoing' = outgoing /\ call' = call /\ alive' = alive
          BY <1>1 DEF vars, netVars
    <2>1. Types'
          BY <2>0 DEF NetInv, Types, Conns, Callers
    <2>2. CallsRun'
          BY <2>0 DEF NetInv, CallsRun, Conns, Callers
    <2>3. Listening'
          BY <2>0 DEF NetInv, Listening, Conns, OtherEnd
    <2>4. Handshake'
          BY <2>0 DEF NetInv, Handshake, Conns
    <2>5. OneConnection'
          BY <2>0 DEF NetInv, OneConnection, Single, Conns, Callers
    <2> QED BY <2>1, <2>2, <2>3, <2>4, <2>5 DEF NetInv
  <1>2. ASSUME NEW p \in AllCallers, StartConnect(p) \/ Application(p)
        PROVE  NetInv'
        BY <1>2, ApplicationStep, OpenStep DEF Application
  <1>3. ASSUME NEW n \in Nodes, Receiver(n)
        PROVE  NetInv'
        BY <1>3, HandleConnectStep, CmdConnectStep, RefusedStep, SimultaneousStep, ReplyStep,
           AckStep, CloseStep DEF Receiver
  <1>4. ASSUME NEW n \in Nodes, Stop(n)
        PROVE  NetInv'
        BY <1>4, StopStep
  <1>5. ASSUME NEW n \in Nodes, NEW c \in Conns, CmdDisconnect(n, c)
        PROVE  NetInv'
        BY <1>5, CloseStep
  <1> QED BY <1>1, <1>2, <1>3, <1>4, <1>5 DEF Next

(* The connections are well formed: a node is connected only through an    *)
(* end it listens on, nothing is under way to an end that was closed       *)
(* (LocalNode::_removeConnection, _cmdConnect, _cmdConnectReply), and a    *)
(* call never uses more tries than LocalNode::connect gives it.            *)
THEOREM NodesTypeCorrect ==
    Spec => []TypeOK
  <1>1. NetInv => TypeOK
    <2> SUFFICES ASSUME NetInv PROVE TypeOK
        OBVIOUS
    <2>1. \A c \in Conns : conns[c] \in Callers
          BY TwoEnds DEF NetInv
    <2>2. ASSUME NEW n \in Nodes
          PROVE  /\ incoming[n] \subseteq {c \in Conns : n \in {conns[c][1], conns[c][2]}}
                 /\ \A c \in incoming[n] : <<n, c>> \notin closed
                 /\ DOMAIN inbox[n] = Conns
                 /\ \A m \in Nodes : outgoing[n][m] # NONE => outgoing[n][m] \in incoming[n]
                 /\ \A c \in Conns : <<n, c>> \in closed => inbox[n][c] = <<>>
      <3>1. DOMAIN inbox[n] = Conns
            BY DEF NetInv, Types, Conns
      <3>2. incoming[n] \subseteq Conns
            BY DEF NetInv, Types
      <3> QED BY <3>1, <3>2 DEF NetInv, Listening
    <2>3. \A p \in Callers : call[p].tries < Tries
                          /\ call[p].at \in {"idle", "try", "wait", "served", "refused"}
      <3>1. \A p \in Callers : p \in AllCallers
            BY CallerOfSetup DEF NetInv
      <3> QED BY <3>1 DEF NetInv, Types, CallsRun, CallStates
    <2> QED BY <2>1, <2>2, <2>3 DEF TypeOK
  <1> QED BY <1>1, NetInit, NetStep, PTL DEF Spec

(* The two ends of a connection agree, when one of two nodes connects the  *)
(* other: a node that is connected through it is known to its peer, or the *)
(* CONNECT_REPLY is under way, or the peer has closed its end              *)
(* (_cmdConnect, _cmdConnectReply, _cmdDisconnect, _handleDisconnect).     *)
THEOREM NodesAgree ==
    Spec => []EndsAgree
  <1>1. NetInv => EndsAgree
    <2> SUFFICES ASSUME NetInv, NEW n \in alive, NEW c \in incoming[n], NEW m,
                        m = OtherEnd(n, c), OneSided(n, m), outgoing[n][m] = c
                 PROVE  \/ HasNode(m, c)
                        \/ inbox[m][c] # <<>> /\ Head(inbox[m][c]) = Accepted
                        \/ <<m, c>> \in closed
        BY DEF EndsAgree, HasNode
    <2>1. n \in Nodes /\ c \in Conns /\ n \in {conns[c][1], conns[c][2]}
          BY DEF NetInv, Types, Listening
    <2>2. /\ conns[c] \in Callers /\ conns[c] = <<conns[c][1], conns[c][2]>>
          /\ conns[c][1] # conns[c][2]
          /\ OtherEnd(conns[c][1], c) = conns[c][2] /\ OtherEnd(conns[c][2], c) = conns[c][1]
          BY <2>1, TwoEnds DEF NetInv
    <2>3. HasNode(m, c) <=> outgoing[m][n] = c
          BY <2>1, <2>2 DEF HasNode
    <2>4. Head(<<Accepted>>) = Accepted /\ <<Accepted>> # <<>>
          BY OnePacket
    <2>5. CASE n = conns[c][1]
      <3>1. m = conns[c][2] /\ conns[c] = <<n, m>>
            BY <2>2, <2>5
      <3>2. Single(conns[c])
        <4>1. <<n, m>> \in Callers
              BY <2>2, <3>1
        <4>2. <<m, n>> \notin Callers
              BY <4>1 DEF OneSided
        <4> QED BY <2>5, <3>1, <4>2 DEF Single
      <3>3. AgreeOn(c)
            BY <2>1, <3>2, PartsOf
      <3> QED BY <2>3, <2>5, <3>1, <3>3 DEF AgreeOn
    <2>6. CASE n = conns[c][2]
      <3>1. m = conns[c][1] /\ conns[c] = <<m, n>>
            BY <2>2, <2>6
      <3>2. Single(conns[c])
        <4>1. <<m, n>> \in Callers
              BY <2>2, <3>1
        <4>2. <<n, m>> \notin Callers
              BY <4>1 DEF OneSided
        <4> QED BY <2>6, <3>1, <4>2 DEF Single
      <3>3. AgreeOn(c)
            BY <2>1, <3>2, PartsOf
      <3>4. outgoing[m][n] = c \/ inbox[m][c] = <<Accepted>> \/ <<m, c>> \in closed
            BY <2>6, <3>1, <3>3 DEF AgreeOn
      <3> QED BY <2>3, <2>4, <3>4
    <2> QED BY <2>1, <2>5, <2>6
  <1> QED BY <1>1, NetInit, NetStep, PTL DEF Spec
===============================================================================
