SPECIFICATION FairSpec
CONSTANTS
    u1 = u1
    u2 = u2
    u3 = u3
    n1 = n1
    n2 = n2
    n3 = n3
    Users = {u1, u2, u3}
    Nodes = {n1, n2, n3}
    Master = n1
    Setups <- MCSetups
INVARIANTS TypeOK LeavesTogether
PROPERTY AllRoundsComplete
CHECK_DEADLOCK FALSE
