--------------------------------- MODULE RSP ---------------------------------
(***************************************************************************)
(* The reliable stream protocol of co::RSPConnection over UDP multicast:   *)
(* one writer's stream to its readers and to itself.  Datagrams carry a    *)
(* 16 bit sequence number and stay in the writer's buffers until every     *)
(* reader has acknowledged them; readers acknowledge every few datagrams,  *)
(* ask for what they miss (negative acknowledgements), and answer the      *)
(* writer's ack requests.  The network loses, repeats and reorders         *)
(* datagrams.                                                              *)
(*                                                                         *)
(* The group is complete: finding the members (ID_HELLO .. COUNTNODE) and  *)
(* leaving (ID_EXIT, 2000 timeouts in a row) are not modelled, nor is the  *)
(* send rate.                                                              *)
(***************************************************************************)
EXTENDS Integers, Sequences, FiniteSets, SequencesExt

CONSTANTS
    Modulus,     \* number of sequence numbers (2^16 in the code)
    NumBuffers,  \* IATTR_RSP_NUM_BUFFERS
    AckFreq,     \* IATTR_RSP_ACK_FREQUENCY
    Payload,     \* items that fit in a datagram
    Reorder,     \* may datagrams overtake each other?
    Setups       \* the groups and their bounds, see below

\* A setup: the ids of the other members of the group, the sequence number at
\* which the stream is looked at, and the bounds: items the application writes,
\* datagrams under way to a reader (and to the writer, when it repeats an ack
\* request), datagrams lost, repeated or reordered.
ASSUME RSPAssumption ==
    /\ NumBuffers \in Nat \ {0} /\ AckFreq \in Nat \ {0} /\ Payload \in Nat \ {0}
    /\ Modulus \in Nat /\ Modulus > 2 * NumBuffers
    /\ Reorder \in BOOLEAN
    /\ \A s \in Setups :
         /\ s.readers \subseteq Nat \ {0} /\ IsFiniteSet(s.readers)
         /\ s.first \in 0..Modulus - 1
         /\ s.items \in Nat /\ s.inFlight \in Nat /\ s.faults \in Nat

VARIABLES
    setup,       \* the setup of this run, constant
    \* the writer
    written,     \* items the application has written
    appFree,     \* empty write buffers in _appBuffers
    threadQ,     \* _threadBuffers: items to be sent
    seq,         \* _sequence, the next one to use
    writeQ,      \* _writeBuffers: datagrams sent and not yet acknowledged
    repeatQ,     \* _repeatQueue
    acked,       \* _acked of each reader's connection
    selfSeq,     \* _sequence of the writer's connection to itself
    selfApp,     \* _appBuffers of the writer's connection to itself
    finishing,   \* sequence _finishWriteQueue is working towards, or NONE
    process,     \* _processOutgoing is due, after a datagram was handled
    \* the readers' connections to the writer
    expected,    \* _sequence, the next one expected
    recv,        \* _recvBuffers: out-of-order datagrams, or NoBuffer
    ready,       \* _appBuffers: datagrams for the application
    \* the network
    toReader,    \* datagrams under way to each reader
    toWriter,    \* datagrams under way to the writer
    faults,      \* datagrams disturbed so far
    \* history
    read,        \* items each application has read; 0 is the writer's
    sent, got    \* number of datagrams sent; received in order

writerVars == <<written, appFree, threadQ, seq, writeQ, repeatQ, acked, selfSeq,
                selfApp, finishing, process, sent>>
readerVars == <<expected, recv, ready, got>>
netVars == <<toReader, toWriter, faults>>
vars == <<setup, writerVars, readerVars, netVars, read>>

Readers == setup.readers
LastItem == setup.items
MaxInFlight == setup.inFlight
MaxFaults == setup.faults
AllReaders == UNION {s.readers : s \in Setups}

NONE == -1
Mod(i) == i % Modulus
Datagram(s, items) == [seq |-> s, data |-> items]
NoBuffer == Datagram(NONE, <<>>)
Msg(type, d) == [type |-> type, body |-> d]
From(r, m) == [from |-> r, type |-> m.type, body |-> m.body]

\* All datagrams before some first one are sent, received and acknowledged;
\* 0 is the start of the stream.
Init ==
    /\ setup \in Setups /\ seq = setup.first
    /\ written = 0 /\ appFree = NumBuffers /\ threadQ = <<>>
    /\ writeQ = <<>> /\ repeatQ = <<>>
    /\ acked = [r \in Readers |-> Mod(seq - 1)]
    /\ selfSeq = seq /\ selfApp = <<>> /\ finishing = NONE /\ process = FALSE
    /\ expected = [r \in Readers |-> seq]
    /\ recv = [r \in Readers |-> <<>>]
    /\ ready = [r \in Readers |-> <<>>]
    /\ toReader = [r \in Readers |-> <<>>]
    /\ toWriter = <<>>
    /\ faults = 0
    /\ read = [r \in Readers \cup {0} |-> <<>>]
    /\ sent = 0 /\ got = [r \in Readers |-> 0]

-----------------------------------------------------------------------------
(* Writer, application: write() and readSync on its own connection.        *)

Write ==
    /\ written < LastItem /\ appFree > 0
    /\ written' = written + 1
    /\ appFree' = appFree - 1
    /\ threadQ' = Append(threadQ, written + 1)
    /\ UNCHANGED <<setup, seq, writeQ, repeatQ, acked, selfSeq, selfApp, finishing,
                   process, sent, readerVars, netVars, read>>

ReadSelf ==
    /\ selfApp # <<>>
    /\ read' = [read EXCEPT ![0] = @ \o Head(selfApp).data]
    /\ selfApp' = Tail(selfApp)
    /\ UNCHANGED <<setup, written, appFree, threadQ, seq, writeQ, repeatQ, acked,
                   selfSeq, finishing, process, sent, readerVars, netVars>>

-----------------------------------------------------------------------------
(* Writer, protocol thread: _processOutgoing.                              *)

Idle == finishing = NONE
CanSend == \A r \in Readers : Len(toReader[r]) < MaxInFlight
Multicast(m) == toReader' = [r \in Readers |-> Append(toReader[r], m)]

\* One datagram of the first repeat request that is still in the buffers.
RepeatData ==
    /\ Idle /\ repeatQ # <<>> /\ CanSend
    /\ LET q == Head(repeatQ)
           distance == Mod(seq - q.start)
       IN /\ IF distance <= Len(writeQ)
             THEN /\ Multicast(Msg("DATA", writeQ[Len(writeQ) - distance + 1]))
                  /\ process' = FALSE
             ELSE UNCHANGED <<toReader, process>>
          /\ repeatQ' = IF q.start = q.end THEN Tail(repeatQ)
                        ELSE <<[q EXCEPT !.start = Mod(@ + 1)]>> \o Tail(repeatQ)
    /\ UNCHANGED <<setup, written, appFree, threadQ, seq, writeQ, acked, selfSeq,
                   selfApp, finishing, sent, readerVars, toWriter, faults, read>>

\* Mutant: all of n merged buffers are free again.
GivenBack_All(n) == n

\* All but the first of n merged buffers are free again.
GivenBack(n) == n - 1

\* The next datagram, with as many of the queued items as fit.
WriteData ==
    /\ Idle /\ repeatQ = <<>> /\ threadQ # <<>> /\ CanSend
    /\ LET n == IF Len(threadQ) < Payload THEN Len(threadQ) ELSE Payload
           d == Datagram(seq, SubSeq(threadQ, 1, n))
       IN /\ threadQ' = SubSeq(threadQ, n + 1, Len(threadQ))
          /\ appFree' = appFree + GivenBack(n)
          /\ writeQ' = Append(writeQ, d)
          /\ Multicast(Msg("DATA", d))
    /\ seq' = Mod(seq + 1)
    /\ sent' = sent + 1
    /\ finishing' = IF Readers = {} THEN seq ELSE NONE
    /\ process' = FALSE
    /\ UNCHANGED <<setup, written, repeatQ, acked, selfSeq, selfApp, readerVars,
                   toWriter, faults, read>>

\* Nothing to send, and the ack timeout has passed: a request may go out while
\* answers to earlier ones are under way, but not while one is still ahead.
SendAckRequest ==
    /\ Idle /\ repeatQ = <<>> /\ threadQ = <<>> /\ writeQ # <<>> /\ CanSend
    /\ \A r \in Readers : \A i \in DOMAIN toReader[r] : toReader[r][i].type # "ACKREQ"
    /\ Len(toWriter) < MaxInFlight
    /\ Multicast(Msg("ACKREQ", Mod(seq - 1)))
    /\ process' = FALSE
    /\ UNCHANGED <<setup, written, appFree, threadQ, seq, writeQ, repeatQ, acked,
                   selfSeq, selfApp, finishing, sent, readerVars, toWriter, faults,
                   read>>

\* Nothing to send, and it has not
NothingToSend ==
    /\ Idle /\ process /\ repeatQ = <<>> /\ threadQ = <<>>
    /\ process' = FALSE
    /\ UNCHANGED <<setup, written, appFree, threadQ, seq, writeQ, repeatQ, acked,
                   selfSeq, selfApp, finishing, sent, readerVars, netVars, read>>

-----------------------------------------------------------------------------
(* Writer, protocol thread: acknowledgements.                              *)

LateAck(r, q) == acked[r] >= q /\ acked[r] - q <= NumBuffers

\* Mutant: the ack of one reader counts for all.
OldestAck_Latest(acks, q) == q

\* The oldest of an ack and the acks of all readers
OldestAck(acks, q) ==
    FoldLeft(LAMBDA a, r : IF Mod(acks[r] - a) > NumBuffers THEN acks[r] ELSE a,
             q, SetToSeq(Readers))

HandleAck ==
    /\ Idle /\ ~process /\ toWriter # <<>>
    /\ LET m == Head(toWriter)
           q == m.body
           acks == [acked EXCEPT ![m.from] = q]
           a == OldestAck(acks, q)
       IN /\ m.type = "ACK"
          /\ IF LateAck(m.from, q) THEN UNCHANGED <<acked, finishing>>
             ELSE /\ acked' = acks
                  /\ finishing' = IF Mod(a - Mod(selfSeq - 1)) <= NumBuffers
                                  THEN a ELSE NONE
    /\ toWriter' = Tail(toWriter)
    /\ process' = TRUE
    /\ UNCHANGED <<setup, written, appFree, threadQ, seq, writeQ, repeatQ, selfSeq,
                   selfApp, sent, readerVars, toReader, faults, read>>

\* _finishWriteQueue: the acknowledged datagrams go to the writer's own
\* connection one by one, waiting for its application when it has no buffer.
FinishWrite ==
    /\ finishing # NONE
    /\ Len(writeQ) > Mod(seq - finishing - 1)
    /\ Len(selfApp) < NumBuffers
    /\ selfApp' = Append(selfApp, Head(writeQ))
    /\ writeQ' = Tail(writeQ)
    /\ UNCHANGED <<setup, written, appFree, threadQ, seq, repeatQ, acked, selfSeq,
                   finishing, process, sent, readerVars, netVars, read>>

\* ... and its end: the buffers of these datagrams, from the sequence of the
\* writer's own connection to the acknowledged one, are free for the application.
FinishDone ==
    /\ finishing # NONE
    /\ Len(writeQ) <= Mod(seq - finishing - 1)
    /\ selfSeq' = Mod(finishing + 1)
    /\ appFree' = appFree + Mod(finishing + 1 - selfSeq)
    /\ finishing' = NONE
    /\ UNCHANGED <<setup, written, threadQ, seq, writeQ, repeatQ, acked, selfApp,
                   process, sent, readerVars, netVars, read>>

\* _addRepeat: a request that overlaps queued ones extends the first that it
\* does not lie within; otherwise it is queued.
Overlaps(p, q) == p.start <= q.end /\ p.end >= q.start
Within(q, p) == p.start <= q.start /\ q.end <= p.end
AddRepeat(queue, q) ==
    LET js == {j \in DOMAIN queue : Overlaps(queue[j], q) /\ ~Within(q, queue[j])}
        min(a, b) == IF a < b THEN a ELSE b
        max(a, b) == IF a > b THEN a ELSE b
        j == CHOOSE i \in js : \A k \in js : i <= k
    IN IF js = {} THEN Append(queue, q)
       ELSE [queue EXCEPT ![j] = [start |-> min(@.start, q.start),
                                  end |-> max(@.end, q.end)]]

HandleNack ==
    /\ Idle /\ ~process /\ toWriter # <<>>
    /\ Head(toWriter).type = "NACK"
    /\ repeatQ' = FoldLeft(AddRepeat, repeatQ, Head(toWriter).body)
    /\ toWriter' = Tail(toWriter)
    /\ process' = TRUE
    /\ UNCHANGED <<setup, written, appFree, threadQ, seq, writeQ, acked, selfSeq,
                   selfApp, finishing, sent, readerVars, toReader, faults, read>>

-----------------------------------------------------------------------------
(* Readers, protocol thread.                                               *)

HasBuffer(r) ==
    Len(ready[r]) + Cardinality({i \in DOMAIN recv[r] : recv[r][i] # NoBuffer})
        < NumBuffers

Receives(r, type) ==
    r \in Readers /\ toReader[r] # <<>> /\ Head(toReader[r]).type = type

Taken(r, answers) ==
    /\ toReader' = [toReader EXCEPT ![r] = Tail(@)]
    /\ toWriter' = toWriter \o [i \in DOMAIN answers |-> From(r, answers[i])]
    /\ UNCHANGED <<setup, writerVars, faults, read>>

\* _pushDataBuffer acknowledges some of the datagrams
AckOf(r, s) == IF (s + r) % AckFreq = 0 THEN <<Msg("ACK", s)>> ELSE <<>>

\* Mutant: holes in _recvBuffers are not seen.
Completed_All(b) == Len(b)

\* How many of _recvBuffers follow without a hole
Completed(b) ==
    CHOOSE k \in 0..Len(b) : /\ \A i \in 1..k : b[i] # NoBuffer
                             /\ k < Len(b) => b[k + 1] = NoBuffer

\* _handleData, a datagram in order: it is passed on, with the ones received
\* before it that it completes.
DataInOrder(r) ==
    /\ Receives(r, "DATA")
    /\ LET d == Head(toReader[r]).body
           k == Completed(recv[r])
           batch == <<d>> \o SubSeq(recv[r], 1, k)
       IN /\ d.seq = expected[r]
          /\ HasBuffer(r)
          /\ ready' = [ready EXCEPT ![r] = @ \o batch]
          /\ expected' = [expected EXCEPT ![r] = Mod(@ + k + 1)]
          /\ got' = [got EXCEPT ![r] = @ + k + 1]
          /\ recv' = [recv EXCEPT ![r] = SubSeq(@, k + 2, Len(@))]
          /\ Taken(r, FlattenSeq([i \in DOMAIN batch |-> AckOf(r, Mod(d.seq + i - 1))]))

\* "a repetition for another reader", one received already, or no buffer
Repetition(r, s) == expected[r] > s \/ Mod(expected[r] - s) <= NumBuffers
Gap(r, s) == Mod(s - expected[r])
GotPacket(r, s) == Len(recv[r]) >= Gap(r, s) /\ recv[r][Gap(r, s)] # NoBuffer

DataIgnored(r) ==
    /\ Receives(r, "DATA")
    /\ LET s == Head(toReader[r]).body.seq IN
       \/ s = expected[r] /\ ~HasBuffer(r)
       \/ s # expected[r] /\ (Repetition(r, s) \/ GotPacket(r, s) \/ ~HasBuffer(r))
    /\ Taken(r, <<>>)
    /\ UNCHANGED readerVars

\* A datagram out of order: it is kept, and what misses before it requested.
EarlyNack(r, s) ==
    LET size == Gap(r, s)
        have == {i \in 1..size - 1 : i \in DOMAIN recv[r] /\ recv[r][i] # NoBuffer}
        start == IF size < 3 \/ have = {} THEN expected[r]
                 ELSE Mod(expected[r] + (CHOOSE i \in have : \A j \in have : j <= i) + 1)
        end == Mod(s - 1)
    IN IF size >= 3 /\ size - 1 \in have THEN <<>>
       ELSE <<Msg("NACK", <<[start |-> start,
                             end |-> IF end < start THEN Modulus - 1 ELSE end]>>)>>

DataOutOfOrder(r) ==
    /\ Receives(r, "DATA")
    /\ LET d == Head(toReader[r]).body
           s == d.seq
           size == Gap(r, s)
           len == IF Len(recv[r]) > size THEN Len(recv[r]) ELSE size
       IN /\ s # expected[r] /\ ~Repetition(r, s) /\ ~GotPacket(r, s) /\ HasBuffer(r)
          /\ recv' = [recv EXCEPT ![r] =
                        [i \in 1..len |-> IF i = size THEN d
                                          ELSE IF i \in DOMAIN @ THEN @[i] ELSE NoBuffer]]
          /\ Taken(r, EarlyNack(r, s))
    /\ UNCHANGED <<expected, ready, got>>

\* Mutant: sequence numbers are compared as if they did not wrap around.
GotAll_Unbounded(r, q) == Mod(expected[r] - 1) >= q

\* _handleAckRequest: an ack when everything requested was received ...
GotAll(r, q) ==
    LET have == Mod(expected[r] - 1) IN
    \/ q = have
    \/ have > q /\ have - q <= NumBuffers
    \/ have < q /\ Mod(q - have) > NumBuffers

\* Mutant: a range is sent as it is.
Cut_Not(n) == <<n>>

\* ... or else the ranges that miss, cut at the end of the sequence numbers.
Cut(n) == IF n.end < n.start
          THEN <<[n EXCEPT !.end = Modulus - 1], [n EXCEPT !.start = 0]>> ELSE <<n>>

Missing(r, q) ==
    LET x == expected[r]
        b == recv[r]
        has(i) == i \in DOMAIN b /\ b[i] # NoBuffer
        firsts == {i \in 0..Len(b) : ~has(i) /\ (i = 0 \/ has(i - 1))}
        last(i) == CHOOSE j \in i..Len(b) : has(j + 1) /\ \A k \in i..j : ~has(k)
        starts == SetToSortSeq(firsts, <)
        ranges == [k \in DOMAIN starts |-> [start |-> Mod(x + starts[k]),
                                            end |-> Mod(x + last(starts[k]))]]
        end == ranges[Len(ranges)].end
        all == IF b = <<>> THEN <<[start |-> x, end |-> q]>>
               ELSE IF Mod(q - end) < NumBuffers
               THEN Append(ranges, [start |-> Mod(end + 1), end |-> q])
               ELSE ranges
    IN FlattenSeq([k \in DOMAIN all |-> Cut(all[k])])

HandleAckRequest(r) ==
    /\ Receives(r, "ACKREQ")
    /\ LET q == Head(toReader[r]).body IN
       Taken(r, IF GotAll(r, q) THEN <<Msg("ACK", Mod(expected[r] - 1))>>
                ELSE <<Msg("NACK", Missing(r, q))>>)
    /\ UNCHANGED readerVars

\* The application: readSync
ReadSync(r) ==
    /\ r \in Readers /\ ready[r] # <<>>
    /\ read' = [read EXCEPT ![r] = @ \o Head(ready[r]).data]
    /\ ready' = [ready EXCEPT ![r] = Tail(@)]
    /\ UNCHANGED <<setup, writerVars, expected, recv, got, netVars>>

-----------------------------------------------------------------------------
(* The network: datagrams are lost, repeated, or overtake one another.     *)

Disturbed(c) ==
    IF c = <<>> THEN {}
    ELSE {Tail(c), <<Head(c)>> \o c} \cup
         (IF Reorder /\ Len(c) > 1 THEN {<<c[2], c[1]>> \o SubSeq(c, 3, Len(c))} ELSE {})

Fault ==
    /\ faults < MaxFaults
    /\ faults' = faults + 1
    /\ \/ \E r \in Readers : \E c \in Disturbed(toReader[r]) :
            toReader' = [toReader EXCEPT ![r] = c] /\ UNCHANGED toWriter
       \/ \E c \in Disturbed(toWriter) : toWriter' = c /\ UNCHANGED toReader
    /\ UNCHANGED <<setup, writerVars, readerVars, read>>

-----------------------------------------------------------------------------
ProcessOutgoing == RepeatData \/ WriteData \/ SendAckRequest \/ NothingToSend
Finish == FinishWrite \/ FinishDone
HandleReply == HandleAck \/ HandleNack
HandleDatagram(r) ==
    DataInOrder(r) \/ DataIgnored(r) \/ DataOutOfOrder(r) \/ HandleAckRequest(r)

Next ==
    \/ Write \/ ReadSelf \/ ProcessOutgoing \/ Finish \/ HandleReply \/ Fault
    \/ \E r \in AllReaders : HandleDatagram(r) \/ ReadSync(r)

\* The applications write and read, and every protocol thread goes on.
Fairness ==
    /\ WF_vars(Write) /\ WF_vars(ReadSelf) /\ WF_vars(Finish)
    /\ WF_vars(ProcessOutgoing) /\ WF_vars(HandleReply)
    /\ \A r \in AllReaders : WF_vars(HandleDatagram(r)) /\ WF_vars(ReadSync(r))

Spec == Init /\ [][Next]_vars /\ Fairness

-----------------------------------------------------------------------------
(* Properties.                                                             *)

Seqs == 0..Modulus - 1
Requests == [start: Seqs, end: Seqs]

\* Types, and the bounds of the buffers: each connection has NumBuffers.
TypeOK ==
    /\ seq \in Seqs /\ selfSeq \in Seqs /\ acked \in [Readers -> Seqs]
    /\ expected \in [Readers -> Seqs] /\ (finishing = NONE \/ finishing \in Seqs)
    /\ appFree \in 0..NumBuffers
    /\ appFree + Len(threadQ) + Len(writeQ) <= NumBuffers
    /\ \A i \in DOMAIN repeatQ : repeatQ[i] \in Requests
    /\ \A r \in Readers : Len(ready[r]) <= NumBuffers

\* Every application reads what was written, in order, without loss or
\* repetition, across the wrap-around of the sequence numbers.
InOrder ==
    \A r \in DOMAIN read : read[r] = [i \in 1..Len(read[r]) |-> i]

\* The writer gives up a datagram only when every reader has received it
\* (_handleAck, _finishWriteQueue).
KeptUntilReceived ==
    \A r \in Readers : sent - Len(writeQ) <= got[r]

\* The assertions of the code: requests are not empty ranges (_addRepeat),
\* a datagram that is not a repetition is within the window (_handleData),
\* and a repeat is of an earlier datagram (_repeatData).
WindowRespected ==
    /\ \A i \in DOMAIN toWriter : toWriter[i].type = "NACK" =>
         \A k \in DOMAIN toWriter[i].body : toWriter[i].body[k].start <= toWriter[i].body[k].end
    /\ \A r \in Readers : \A i \in DOMAIN toReader[r] :
         LET m == toReader[r][i] IN
         m.type = "DATA" /\ m.body.seq # expected[r] /\ ~Repetition(r, m.body.seq)
            => Gap(r, m.body.seq) <= NumBuffers
    /\ repeatQ # <<>> => Mod(seq - Head(repeatQ).start) # 0

\* Everything written is read by every application, and finish(), which
\* waits for all buffers, returns.
EverythingArrives ==
    written = LastItem ~> (\A r \in DOMAIN read : Len(read[r]) = LastItem)
                          /\ appFree = NumBuffers
=============================================================================
