SPECIFICATION FairBuilding
CONSTANTS
    RefMax = 255
    Temps = {20, 60}
    Humis = {0}
    Lights = {1500}
    Settings = {}
    Commands <- LampCommands
    Syncs = {}
    ConsoleLeds = {}
    Keys = {}
    Uploads = {"upload"}
    PipeRoom = 3
    RecordSize = 2
CHECK_DEADLOCK FALSE
PROPERTIES EvacuatesWhenServed CallsOffWhenServed
