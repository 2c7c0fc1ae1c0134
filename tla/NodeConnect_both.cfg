SPECIFICATION Spec
CONSTANTS
    a = a
    b = b
    Nodes = {a, b}
    Tries = 3
    Setups <- MCBothWays
INVARIANT NodeKnown
CHECK_DEADLOCK FALSE
