--------------------------- MODULE VersionedObject ---------------------------
(***************************************************************************)
(* What a distributed object of Collage promises to the application, with  *)
(* no threads, queues or messages: the master commits versions 1, 2, 3...  *)
(* and every mapped slave instance shows one of them and moves forward one *)
(* version at a time (object.h, commit() and sync(); localNode.h,          *)
(* mapObject()).                                                           *)
(***************************************************************************)
EXTENDS Naturals

CONSTANT Instances

VARIABLES
    head,   \* the newest committed version
    view    \* the version each instance shows, 0 if it is not mapped

vars == <<head, view>>

Init ==
    /\ head = 1
    /\ view = [i \in Instances |-> 0]

Commit ==
    /\ head' = head + 1
    /\ UNCHANGED view

Map(i) ==
    /\ view[i] = 0
    /\ \E v \in 1..head : view' = [view EXCEPT ![i] = v]
    /\ UNCHANGED head

Sync(i) ==
    /\ view[i] \in 1..head - 1
    /\ view' = [view EXCEPT ![i] = @ + 1]
    /\ UNCHANGED head

(* Unmapping by the slave, by the deregistration of the master, which      *)
(* takes all instances of a node at once, or by the loss of a node.        *)
Unmap(gone) ==
    /\ view' = [i \in Instances |-> IF i \in gone THEN 0 ELSE view[i]]
    /\ UNCHANGED head

Next ==
    \/ Commit
    \/ \E i \in Instances : Map(i) \/ Sync(i)
    \/ \E gone \in SUBSET Instances : Unmap(gone)

Spec == Init /\ [][Next]_vars
==============================================================================
