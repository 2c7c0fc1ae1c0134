----------------------------- MODULE MCBarrier ------------------------------
(* Instances of Barrier for TLC: the first user runs on the master node.   *)
EXTENDS Barrier, TLC

CONSTANTS u1, u2, u3, n1, n2, n3

OneEach == (u1 :> n1) @@ (u2 :> n2) @@ (u3 :> n3)
TwoOnSlave == (u1 :> n1) @@ (u2 :> n2) @@ (u3 :> n2)

Setup(on, commits, timeouts, rounds) ==
    [nodeOf |-> on, commitEachRound |-> commits, timed |-> timeouts,
     lastRound |-> rounds]

\* The swap barrier of Equalizer, without and with a timeout, and the barrier
\* of the tests
MCSetups == {Setup(OneEach, TRUE, FALSE, 3), Setup(OneEach, TRUE, TRUE, 2),
             Setup(TwoOnSlave, FALSE, FALSE, 3)}

\* The swap barrier, two pipe threads on one node
MCThreads == {Setup(TwoOnSlave, TRUE, FALSE, 2)}
=============================================================================
