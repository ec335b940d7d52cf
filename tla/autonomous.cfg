SPECIFICATION FairSpec
CONSTANTS
    RefMax = 255
    Temps <- FireTemps
    Humis = {0, 80}
    Lights = {0}
    Settings <- SettingsOfTemp
    Commands <- LampCommands
    Syncs <- SensorSyncs
    ConsoleLeds = {"LED0"}
    Keys = {"KEY0"}
INVARIANT LampDark
PROPERTIES Evacuates CallsOff AlarmsAlternate
