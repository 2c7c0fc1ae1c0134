------------------------------- MODULE MCRSP -------------------------------
(* Small instances of RSP. *)
EXTENDS RSP

Group(ids, s, n, m, f) ==
    [readers |-> ids, first |-> s, items |-> n, inFlight |-> m, faults |-> f]

\* One reader at the start of the stream; one and two where the sequence
\* numbers wrap around after the first datagram
MCSetups == {Group({1}, 0, 3, 2, 2), Group({1}, Modulus - 1, 3, 2, 2),
             Group({1, 2}, Modulus - 1, 3, 1, 1)}

MCReordered == {Group({1}, 0, 3, 2, 2)}
=============================================================================
