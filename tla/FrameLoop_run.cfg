SPECIFICATION Spec
CONSTANTS
    AppNode = a
    Nodes = {a, r}
    Setups <- MCSetups
    Switches <- MCSwitches
    LastFrame = 3
INVARIANTS
    TypeOK
    FinishedIsFinished
    NoNodeFails
    LocalDataFree
    FramesInOrder
PROPERTIES
    ReconfigureIdle
    NeverBack
    CallsReturn
CHECK_DEADLOCK FALSE
