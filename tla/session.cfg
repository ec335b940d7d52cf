SPECIFICATION Spec
CONSTANTS
    Publishers = {"loop"}
    Slots = 3
    PipeRoom = 3
    MaxMsgs = 0
    MaxFaults = 1
    MaxPushes = 1
    MaxOrders = 3
    Operator = {"start", "stop", "unsubscribe"}
    NoMemory = TRUE
CHECK_DEADLOCK FALSE
INVARIANTS Resubscribed NoTopicTwice ConnectedMeansSession DeadMeansReleased
