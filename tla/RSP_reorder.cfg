SPECIFICATION Spec
CONSTANTS
    Modulus = 65536
    NumBuffers = 3
    AckFreq = 2
    Payload = 2
    Reorder = TRUE
    Setups <- MCReordered
INVARIANT WindowRespected
CHECK_DEADLOCK FALSE
