--------------------------- MODULE MCObjectMapping ---------------------------
(* Small instances of ObjectMapping for TLC: one or two slave instances on *)
(* one or two nodes.                                                       *)
EXTENDS ObjectMapping

CONSTANTS n1, n2, i1, i2

OwnNode == [i \in Instances |-> IF i = i1 THEN n1 ELSE n2]
SameNode == [i \in Instances |-> n1]

\* i1 may lag one version behind, i2 has the default, no limit.
Limit1 == [i \in Instances |-> IF i = i1 THEN 1 ELSE UINT64_MAX]

\* i1 may lag one version behind, i2 two.
Limit12 == [i \in Instances |-> IF i = i1 THEN 1 ELSE 2]

\* 2 is a version that may be retained, cached, both or obsolete.
SomeRequests == {VERSION_OLDEST, VERSION_NONE, 2}
Oldest == {VERSION_OLDEST}
==============================================================================
