----------------------------- MODULE MCBuilding -----------------------------
(* Small instances of Building for TLC.                                    *)
EXTENDS Building

Switch(f, v) == [fields |-> {f}, on |-> IF v THEN {f} ELSE {}]

(* Commands that are executed and responded to and leave siren and door to *)
(* the loop.                                                               *)
LampCommands == {Switch("warningLight", v) : v \in BOOLEAN}

(* Commands that switch siren and door at once.                            *)
EscapeCommands ==
    LET Both == {"alarm", "emergencyDoor"}
    IN  {[fields |-> Both, on |-> F] : F \in {{}, Both}}

(* Bound: a door that got out of step is not followed further; that is the *)
(* subject of the run that switches siren and door without the client.     *)
DoorInStep == "door" \notin stray
=============================================================================
