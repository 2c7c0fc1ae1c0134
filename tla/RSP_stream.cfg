SPECIFICATION Spec
CONSTANTS
    Modulus = 65536
    NumBuffers = 3
    AckFreq = 2
    Payload = 2
    Reorder = FALSE
    Setups <- MCSetups
INVARIANTS
    TypeOK
    InOrder
    KeptUntilReceived
    WindowRespected
PROPERTY EverythingArrives
CHECK_DEADLOCK FALSE
