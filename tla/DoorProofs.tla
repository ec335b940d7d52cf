----------------------------- MODULE DoorProofs -----------------------------
(***************************************************************************)
(* The escape door: angle, record and servo.                               *)
(***************************************************************************)
EXTENDS AutoControlProofs

(* Until a callback cuts into a turn of the door, the angle is one of      *)
(* three positions, what the loop tested and loaded is still true, and a   *)
(* door that is or is about to be recorded open is not shut.               *)
DoorInv ==
    "door" \notin stray /\ pc # "starved" =>
        /\ angle \in {0, 90, 180}
        /\ pc \in {"door2", "door3"} => MayTurn(angle, state)
        /\ pc = "door3" => reg = angle
        /\ pc = "door4" => (state => angle > 0)
        /\ ~Inside("door") => (my_devices.Door_State => angle > 0)

LEMMA DoorAuto == TypeInv /\ DoorInv /\ AutoStep => DoorInv'
  <1> SUFFICES ASSUME TypeInv, DoorInv, AutoStep, "door" \notin stray'
               PROVE  DoorInv'
    BY DEF DoorInv
  <1>1. CASE DoorChange
    <2>1. /\ "door" \notin stray /\ pc # "starved"
          /\ state' = state /\ state \in BOOLEAN
      BY <1>1 DEF DoorChange, TypeInv, TypeOK
    <2>2. CASE pc = "door1"
      <3>1. angle' = angle /\ my_devices' = my_devices
        BY <1>1, <2>2 DEF DoorChange
      <3>2. pc' = IF MayTurn(angle, state) THEN "door2" ELSE "door4"
        BY <1>1, <2>2 DEF DoorChange
      <3>3. angle \in {0, 90, 180}  BY <2>1 DEF DoorInv
      <3>4. ~MayTurn(angle, state) => (state => angle > 0)
        BY <3>3 DEF MayTurn
      <3> QED  BY <2>1, <3>1, <3>2, <3>3, <3>4 DEF DoorInv, Inside
    <2>3. CASE pc = "door2"
      BY <1>1, <2>1, <2>3 DEF DoorChange, DoorInv, Inside
    <2>4. CASE pc = "door3"
      <3>1. angle' = Turned(angle, state) /\ MayTurn(angle, state)
        BY <1>1, <2>1, <2>4 DEF DoorChange, DoorInv
      <3>0. angle \in {0, 90, 180}  BY <2>1 DEF DoorInv
      <3>2. angle' \in {0, 90, 180} /\ (state => angle' > 0)
        BY <3>1, <3>0 DEF MayTurn, Turned, DoorStep
      <3>3. pc' = "door4"  BY <1>1, <2>4 DEF DoorChange
      <3> QED  BY <2>1, <3>2, <3>3 DEF DoorInv, Inside
    <2>5. CASE pc = "door4"
      <3>1. my_devices'.Door_State = state
        BY <1>1, <2>5 DEF DoorChange, TypeInv, TypeOK, DeviceType
      <3> QED  BY <1>1, <2>1, <2>5, <3>1 DEF DoorChange, DoorInv, Inside
    <2>6. CASE pc \in {"door5", "door6"}
      BY <1>1, <2>1, <2>6 DEF DoorChange, DoorInv, Inside
    <2> QED  BY <1>1, <2>2, <2>3, <2>4, <2>5, <2>6 DEF DoorChange
  <1>2. CASE ~DoorChange
    <2>1. /\ "door" \notin stray /\ UNCHANGED angle /\ pc # "starved"
          /\ ~Inside("door") /\ pc' \notin {"door2", "door3", "door4"}
      <3>1. CASE BellOpen \/ BellClose
        BY <3>1, BellOpenFrame, BellCloseFrame DEF Inside, Opening, Closing
      <3>2. CASE ~BellOpen /\ ~BellClose
        BY <1>2, <3>2 DEF AutoStep, WakeUp, CheckSensor, CheckFlags, Look, Judge,
           Skip, Compare, PublishAlarm, BellRecord, RelayChange, LightChange,
           PublishStatus, Advance, door, Inside, TypeInv, TypeOK, Quantity
      <3> QED  BY <3>1, <3>2
    <2>2. my_devices'.Door_State = my_devices.Door_State
      <3>1. CASE BellOpen \/ BellClose
        BY <3>1, BellOpenFrame, BellCloseFrame
      <3>2. CASE ~BellOpen /\ ~BellClose
        BY <1>2, <3>2 DEF AutoStep, WakeUp, CheckSensor, CheckFlags, Compare,
           PublishAlarm, BellRecord, RelayChange, LightChange, PublishStatus,
           Set_Devpro_RelayState, Set_Devpro_LED1State, TypeInv, TypeOK, DeviceType
      <3> QED  BY <3>1, <3>2
    <2> QED  BY <2>1, <2>2 DEF DoorInv, Inside
  <1> QED  BY <1>1, <1>2

LEMMA DoorApply ==
    ASSUME TypeInv, DoorInv, NEW m \in Commands \union Syncs, Apply(m)
    PROVE  DoorInv'
  <1> SUFFICES ASSUME "door" \notin stray', pc' # "starved"  PROVE DoorInv'
    BY DEF DoorInv
  <1>1. /\ UNCHANGED <<pc, sec, state, reg>>
        /\ my_devices' = Recorded(m) /\ TurnDoor(m) /\ stray' = StrayAfter(m)
    BY ReachedMessage DEF Apply
  <1>2. "door" \notin stray /\ pc # "starved"
    BY <1>1 DEF StrayAfter, Repairs
  <1>3. CASE "emergencyDoor" \notin m.fields
    <2>1. angle' = angle /\ my_devices'.Door_State = my_devices.Door_State
      BY <1>1, <1>3 DEF TurnDoor, Recorded, Field
    <2> QED  BY <1>1, <1>2, <2>1 DEF DoorInv, Inside
  <1>4. CASE "emergencyDoor" \in m.fields
    <2> DEFINE d == "emergencyDoor" \in m.on
    <2>1. ~Inside("door")
      BY <1>1, <1>4 DEF StrayAfter, OutputOf
    <2>2. angle' = IF MayTurn(angle, d) THEN Turned(angle, d) ELSE angle
      BY <1>1, <1>4 DEF TurnDoor
    <2>3. my_devices'.Door_State = d  BY <1>1, <1>4 DEF Recorded, Field
    <2>4. d \in BOOLEAN  OBVIOUS
    <2> HIDE DEF d
    <2>5. angle \in {0, 90, 180}  BY <1>2 DEF DoorInv
    <2>6. angle' \in {0, 90, 180}  BY <2>2, <2>5 DEF MayTurn, Turned, DoorStep
    <2>7. d => angle' > 0  BY <2>2, <2>5 DEF MayTurn, Turned, DoorStep
    <2> QED  BY <1>1, <2>1, <2>3, <2>6, <2>7 DEF DoorInv, Inside
  <1> QED  BY <1>3, <1>4

LEMMA DoorStepInv == TypeInv /\ DoorInv /\ [Next]_vars => DoorInv'
  <1> SUFFICES ASSUME TypeInv, DoorInv, [Next]_vars  PROVE DoorInv'
    OBVIOUS
  <1>1. CASE AutoStep  BY <1>1, DoorAuto
  <1>2. ASSUME NEW m \in Commands \union Syncs, Apply(m)  PROVE DoorInv'
    BY <1>2, DoorApply
  <1>3. CASE Callback
    <2>1. ASSUME NEW s \in Settings, mqtt_thresholds_callback(s)
          PROVE  DoorInv'
      BY <2>1 DEF mqtt_thresholds_callback, loop, DoorInv, Inside
    <2> QED  BY <1>2, <1>3, <2>1
             DEF Callback, mqtt_dev_control_callback, mqtt_sync_callback
  <1>4. CASE Environment
    <2>1. ASSUME NEW l \in ConsoleLeds, NEW v \in Level, my_control_led(l, v)
          PROVE  DoorInv'
      BY <2>1 DEF my_control_led, loop, DoorInv, Inside
    <2>2. CASE SampleDht11 \/ Dht11Fails \/ SampleLight \/ Tim3Irq
      BY <2>2 DEF SampleDht11, Dht11Fails, SampleLight, Tim3Irq, others, loop,
                  DoorInv, Inside
    <2>3. CASE IQR_HANDALE_KEY0 \/ IQR_HANDALE_KEY1
      BY <2>3 DEF IQR_HANDALE_KEY0, IQR_HANDALE_KEY1, others, loop, DoorInv,
                  Inside, TypeInv, TypeOK, DeviceType
    <2> QED  BY <1>4, <2>1, <2>2, <2>3 DEF Environment
  <1>5. CASE UNCHANGED vars  BY <1>5 DEF vars, DoorInv, Inside
  <1> QED  BY <1>1, <1>3, <1>4, <1>5 DEF Next

(***************************************************************************)
(* Angle and record of the escape door agree, and the uint8_t angle does   *)
(* not wrap, for every sequence of commands in which no callback cuts into *)
(* a turn of the door by the control loop.                                 *)
(***************************************************************************)
THEOREM DoorCorrect == Spec => []DoorMatches
  <1>1. Init => DoorInv  BY DEF Init, DoorInv, Inside
  <1>2. DoorInv => DoorMatches  BY DEF DoorInv, DoorMatches, Inside
  <1> QED  BY <1>1, <1>2, TypeInvariant, DoorStepInv, PTL DEF Spec

(* The servo is on its way to the angle the loop loaded, which is still    *)
(* the angle unless a callback turned the door since.                      *)
ServoInv ==
    /\ ServoFollows
    /\ pc = "door6" /\ "servo" \notin stray => reg = angle

LEMMA ServoAuto == TypeInv /\ ServoInv /\ AutoStep => ServoInv'
  <1> SUFFICES ASSUME TypeInv, ServoInv, AutoStep  PROVE ServoInv'
    OBVIOUS
  <1>1. CASE DoorChange
    BY <1>1 DEF DoorChange, ServoInv, ServoFollows
  <1>2. CASE ~DoorChange
    <2>1. /\ UNCHANGED <<angle, servo>>
          /\ pc \notin {"door4", "door5", "door6", "starved"}
          /\ pc' # "door6" /\ ("servo" \in stray' <=> "servo" \in stray)
      <3>1. CASE BellOpen \/ BellClose
        BY <3>1, BellOpenFrame, BellCloseFrame DEF Opening, Closing
      <3>2. CASE ~BellOpen /\ ~BellClose
        BY <1>2, <3>2 DEF AutoStep, WakeUp, CheckSensor, CheckFlags, Look, Judge,
           Skip, Compare, PublishAlarm, BellRecord, RelayChange, LightChange,
           PublishStatus, Advance, door, TypeInv, TypeOK, Quantity
      <3> QED  BY <3>1, <3>2
    <2> QED  BY <2>1 DEF ServoInv, ServoFollows
  <1> QED  BY <1>1, <1>2

LEMMA ServoApply ==
    ASSUME ServoInv, NEW m \in Commands \union Syncs, Apply(m)
    PROVE  ServoInv'
  <1> SUFFICES ASSUME pc' # "starved"  PROVE ServoInv'
    BY DEF ServoInv, ServoFollows
  <1>1. /\ UNCHANGED <<pc, reg>>
        /\ TurnDoor(m) /\ stray' = StrayAfter(m)
    BY ReachedMessage DEF Apply
  <1>2. CASE "emergencyDoor" \in m.fields
    <2>1. servo' = my_pwm_set_angle(angle')  BY <1>1, <1>2 DEF TurnDoor, TurnServo
    <2>2. pc = "door6" => "servo" \in stray'
      BY <1>1, <1>2 DEF StrayAfter, OutputOf, Inside
    <2> QED  BY <1>1, <2>1, <2>2 DEF ServoInv, ServoFollows
  <1>3. CASE "emergencyDoor" \notin m.fields
    <2>1. UNCHANGED <<angle, servo>>  BY <1>1, <1>3 DEF TurnDoor, TurnServo
    <2>2. "servo" \in stray => "servo" \in stray'
      BY <1>1, <1>3 DEF StrayAfter, Repairs
    <2> QED  BY <1>1, <2>1, <2>2 DEF ServoInv, ServoFollows
  <1> QED  BY <1>2, <1>3

(***************************************************************************)
(* The servo follows the angle for all samples, commands and sync answers: *)
(* after every turn, by the loop or by a callback, it stands where the     *)
(* angle says, unless a callback hit the window between the loop's load of *)
(* the angle and its setting of the servo and no turn has followed.        *)
(***************************************************************************)
THEOREM ServoCorrect == Spec => []ServoFollows
  <1>1. Init => ServoInv  BY DEF Init, ServoInv, ServoFollows
  <1>2. TypeInv /\ ServoInv /\ [Next]_vars => ServoInv'
    <2> SUFFICES ASSUME TypeInv, ServoInv, [Next]_vars  PROVE ServoInv'
      OBVIOUS
    <2>1. CASE AutoStep  BY <2>1, ServoAuto
    <2>2. CASE /\ UNCHANGED <<angle, servo, pc, reg>>
               /\ "servo" \in stray' <=> "servo" \in stray
      BY <2>2 DEF ServoInv, ServoFollows
    <2>3. ASSUME NEW m \in Commands \union Syncs, Apply(m)  PROVE ServoInv'
      BY <2>3, ServoApply
    <2>4. CASE Callback
      BY <2>2, <2>3, <2>4 DEF Callback, mqtt_dev_control_callback,
         mqtt_thresholds_callback, mqtt_sync_callback, loop
    <2>5. CASE Environment
      BY <2>2, <2>5 DEF Environment, SampleDht11, Dht11Fails, SampleLight,
         IQR_HANDALE_KEY0, IQR_HANDALE_KEY1, Tim3Irq, my_control_led, others, loop
    <2>6. CASE UNCHANGED vars  BY <2>2, <2>6 DEF vars
    <2> QED  BY <2>1, <2>4, <2>5, <2>6 DEF Next
  <1>3. ServoInv => ServoFollows  BY DEF ServoInv
  <1> QED  BY <1>1, <1>2, <1>3, TypeInvariant, PTL DEF Spec
=============================================================================
