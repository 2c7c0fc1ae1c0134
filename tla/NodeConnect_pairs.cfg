SPECIFICATION FairSpec
CONSTANTS
    a = a
    b = b
    Nodes = {a, b}
    Tries = 3
    Setups <- MCSetups
INVARIANTS
    TypeOK
    EndsAgree
PROPERTIES
    ConnectReturns
    Settles
    CrossingEnds
CHECK_DEADLOCK FALSE
