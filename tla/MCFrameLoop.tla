---------------------------- MODULE MCFrameLoop ----------------------------
(* Small instances of FrameLoop. *)
EXTENDS FrameLoop

OnNodes(x, y) == [n \in Nodes |-> IF n = AppNode THEN x ELSE y]

\* The thread models, with threaded and unthreaded pipes, and an
\* application node that draws nothing.
MCSetups ==
    {[latency |-> 1, model |-> OnNodes("DRAW_SYNC", "ASYNC"),
      threaded |-> OnNodes(TRUE, TRUE), draws |-> OnNodes(TRUE, TRUE)],
     [latency |-> 0, model |-> OnNodes("LOCAL_SYNC", "DRAW_SYNC"),
      threaded |-> OnNodes(TRUE, TRUE), draws |-> OnNodes(TRUE, TRUE)],
     [latency |-> 2, model |-> OnNodes("ASYNC", "LOCAL_SYNC"),
      threaded |-> OnNodes(FALSE, FALSE), draws |-> OnNodes(FALSE, TRUE)]}

\* The render client joins, the application's node leaves, and a config
\* without nodes gets one; not the change to no active node.
MCSwitches ==
    {<<{AppNode}, Nodes>>, <<Nodes, Nodes \ {AppNode}>>, <<{}, {AppNode}>>}
=============================================================================
