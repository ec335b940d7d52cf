SPECIFICATION Spec
CONSTANTS
    RefMax = 3
    Temps = {0, 60}
    Humis = {0}
    Lights = {0}
    Settings = {}
    Commands <- EscapeCommands
    Syncs = {}
    ConsoleLeds = {}
    Keys = {}
CHECK_DEADLOCK FALSE
INVARIANTS TypeOK SirenMatches AssertOnlyAfterCut LampDark DoorMatches ServoFollows
CONSTRAINT WrapsOnce
