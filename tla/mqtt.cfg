SPECIFICATION Spec
CONSTANTS
    Publishers = {"loop", "upload"}
    Slots = 1
    PipeRoom = 5
    MaxMsgs = 2
    MaxFaults = 1
    MaxPushes = 0
    MaxOrders = 1
    Operator = {"stop"}
    NoMemory = FALSE
CHECK_DEADLOCK FALSE
INVARIANTS TypeOK JunkNeedsMixing LossNeedsCause SentInOrder
PROPERTY ServesPublishers
