SPECIFICATION FairSpec
CONSTANTS
    Publishers = {"loop"}
    Slots = 3
    PipeRoom = 3
    MaxMsgs = 2
    MaxFaults = 2
    MaxPushes = 2
    MaxOrders = 0
    Operator = {}
    NoMemory = FALSE
CHECK_DEADLOCK FALSE
PROPERTIES ComesBack PipeDrains KeepsServing
