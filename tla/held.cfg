SPECIFICATION BuildingSpec
CONSTANTS
    RefMax = 2
    Temps = {0, 60}
    Humis = {0}
    Lights = {0}
    Settings = {}
    Commands <- EscapeCommands
    Syncs = {}
    ConsoleLeds = {}
    Keys = {}
    Uploads = {}
    PipeRoom = 1
    RecordSize = 1
CHECK_DEADLOCK FALSE
INVARIANT HeldInStep
CONSTRAINT DoorInStep
