SPECIFICATION TimelySpec
CONSTANTS
    Size = 2
    Writers = {"loop", "upload"}
    ReadSize = 4
    MaxLen = 2
    MaxBytes = 2
    MaxEvents = 1
PROPERTIES SelectReturns
CHECK_DEADLOCK FALSE
