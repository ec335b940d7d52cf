--------------------------- MODULE MCAutoControl ---------------------------
(* Small instances of AutoControl for TLC.                                 *)
EXTENDS AutoControlClaims

NoSetting == [fields |-> {}, value |-> [f \in LimitField |-> 0]]
Limit(f, v) == [fields |-> {f}, value |-> [g \in LimitField |-> v]]
Switch(f, v) == [fields |-> {f}, on |-> IF v THEN {f} ELSE {}]
Switches(F) == {Switch(f, v) : f \in F, v \in BOOLEAN}

(* Temperature above, at and below its limit.                              *)
FireTemps == {20, 50, 60}
SirenCommands == Switches({"alarm"})

(* Commands that switch siren and door at once.                            *)
EscapeCommands ==
    LET Both == {"alarm", "emergencyDoor"}
    IN  {[fields |-> Both, on |-> F] : F \in {{}, Both}}

(* Bound: of an angle that wrapped around 256 only the eight values within *)
(* one wrap of 0, 90 and 180 are followed further, not all 128.            *)
WrapsOnce == angle % DoorStep \in {0, 14, 76}

(* Messages that switch no device: the autonomous regime.                  *)
LampCommands == Switches({"warningLight"})
SensorSyncs == Switches({"dht11Status"})

ComfortCommands == Switches({"exhaustFan"})

SettingsOfLight == {NoSetting, Limit("Light_Up_Limit", 1000),
                    Limit("Light_Up_Limit", 2000), Limit("Light_Down_Limit", 3000)}
SettingsOfTemp == {NoSetting, Limit("Temp_Limit", 50), Limit("Temp_Limit", 60)}
=============================================================================
