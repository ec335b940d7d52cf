SPECIFICATION FairSpec
CONSTANTS
    RefMax = 255
    Temps = {0}
    Humis = {0, 80}
    Lights = {0, 1500, 2500}
    Settings <- SettingsOfLight
    Commands <- ComfortCommands
    Syncs = {}
    ConsoleLeds = {"LED1"}
    Keys = {"KEY1"}
INVARIANT FanAndLightMatch
PROPERTY LightSettles
