SPECIFICATION Spec
CONSTANTS
    RefMax = 255
    Temps = {0, 60}
    Humis = {0}
    Lights = {0}
    Settings = {}
    Commands <- SirenCommands
    Syncs = {}
    ConsoleLeds = {}
    Keys = {}
INVARIANT RefCountAssertion
