--------------------------- MODULE MCNodeConnect ----------------------------
(* Small instances of NodeConnect. *)
EXTENDS NodeConnect

CONSTANTS a, b

Setup(pairs, stop, n, m) ==
    [callers |-> pairs, mayStop |-> stop, calls |-> n, disconnects |-> m]

BothWays == {<<a, b>>, <<b, a>>}

\* One node connects the other, again and again; or both connect each other.
MCSetups == {Setup({<<a, b>>}, {b}, 3, 3), Setup(BothWays, {b}, 1, 2)}

MCBothWays == {Setup(BothWays, {}, 1, 0)}
=============================================================================
