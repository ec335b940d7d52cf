SPECIFICATION FairSpec
CONSTANTS
    Size = 2
    Writers = {"loop", "upload"}
    ReadSize = 4
    MaxLen = 3
    MaxBytes = 3
    MaxEvents = 1
INVARIANTS TypeOK NoLostWakeup NoWriterForgotten ReadDoesNotBlock
PROPERTIES IsByteQueue WriteEnds
CHECK_DEADLOCK FALSE
