-------------------------- MODULE AutoControlProofs --------------------------
(***************************************************************************)
(* Proofs about AutoControl for every set of sensor values, commands,      *)
(* settings, sync answers, keys and console lamps.                         *)
(***************************************************************************)
EXTENDS AutoControl, TLAPS

(***************************************************************************)
(* Timer operators keep the type of the timer record.                      *)
(***************************************************************************)
LEMMA TimerOps ==
    ASSUME NEW t \in TimerType
    PROVE  /\ DeviceFind(t) \in TimerType
           /\ InitMode(t) \in TimerType
           /\ \A c \in BOOLEAN : InitStore(t, c) \in TimerType
           /\ InitDone(t) \in TimerType
           /\ OpenFlag(t) \in TimerType
           /\ \A n \in 0 .. RefMax : RefMore(t, n) \in TimerType
           /\ \A n \in 0 .. RefMax : RefLess(t, n) \in TimerType
           /\ \A c \in BOOLEAN : Result(t, c) \in TimerType
           /\ SetRxIndicate(t) \in TimerType
           /\ ControlMode(t) \in TimerType
           /\ WriteTimeout(t) \in TimerType
           /\ CloseRefused(t) \in TimerType
           /\ CloseActive(t) \in TimerType
           /\ CloseRx(t) \in TimerType
           /\ CloseFlag(t) \in TimerType
           /\ LampOff(t) \in TimerType
           /\ BuzzerOff(t) \in TimerType
           /\ TimerIsr(t) \in TimerType
  <1> USE RefAssumption DEF TimerType, Level, PIN_LOW, PIN_HIGH
  <1>1. DeviceFind(t) \in TimerType  BY DEF DeviceFind
  <1>2. InitMode(t) \in TimerType  BY DEF InitMode
  <1>3. ASSUME NEW c \in BOOLEAN  PROVE InitStore(t, c) \in TimerType
    <2>1. (t.running /\ c) \in BOOLEAN  OBVIOUS
    <2> QED  BY <2>1 DEF InitStore
  <1>4. InitDone(t) \in TimerType  BY DEF InitDone
  <1>5. OpenFlag(t) \in TimerType  BY DEF OpenFlag
  <1>6. ASSUME NEW n \in 0 .. RefMax  PROVE RefMore(t, n) \in TimerType
    <2>1. (IF n = RefMax THEN 0 ELSE n + 1) \in 0 .. RefMax  OBVIOUS
    <2> QED  BY <2>1 DEF RefMore
  <1>7. ASSUME NEW n \in 0 .. RefMax  PROVE RefLess(t, n) \in TimerType
    <2>1. (IF n = 0 THEN RefMax ELSE n - 1) \in 0 .. RefMax  OBVIOUS
    <2> QED  BY <2>1 DEF RefLess
  <1>8. ASSUME NEW c \in BOOLEAN  PROVE Result(t, c) \in TimerType
    BY DEF Result
  <1>9. SetRxIndicate(t) \in TimerType  BY DEF SetRxIndicate
  <1>10. ControlMode(t) \in TimerType  BY DEF ControlMode
  <1>11. WriteTimeout(t) \in TimerType  BY DEF WriteTimeout
  <1>12. CloseRefused(t) \in TimerType  BY DEF CloseRefused, Result
  <1>13. CloseActive(t) \in TimerType  BY DEF CloseActive
  <1>14. CloseRx(t) \in TimerType  BY DEF CloseRx
  <1>15. CloseFlag(t) \in TimerType  BY DEF CloseFlag
  <1>16. LampOff(t) \in TimerType  BY DEF LampOff
  <1>17. BuzzerOff(t) \in TimerType  BY DEF BuzzerOff
  <1>18. TimerIsr(t) \in TimerType
    <2> DEFINE s == IF t.mode = "ONESHOT" THEN [t EXCEPT !.running = FALSE]
                                          ELSE t
    <2>1. s \in TimerType  OBVIOUS
    <2> HIDE DEF s
    <2>2. 1 - s.led0 \in {0, 1} /\ 1 - s.beep \in {0, 1}  BY <2>1
    <2>3. my_timeout_cb(s) \in TimerType  BY <2>1, <2>2 DEF my_timeout_cb
    <2>4. TimerIsr(t) = IF s.rx THEN my_timeout_cb(s) ELSE s
      BY DEF TimerIsr, s
    <2> QED  BY <2>1, <2>3, <2>4
  <1> QED  BY <1>1, <1>2, <1>3, <1>4, <1>5, <1>6, <1>7, <1>8, <1>9, <1>10,
              <1>11, <1>12, <1>13, <1>14, <1>15, <1>16, <1>17, <1>18

(* A whole beep_change by a callback keeps the type too.                   *)
LEMMA BeepTimerOps ==
    ASSUME NEW t \in TimerType, NEW b \in BOOLEAN
    PROVE  BeepTimer(t, b) \in TimerType
  <1>1. OpenTimer(t) \in TimerType
    <2> DEFINE f == DeviceFind(t)
               i == DeviceInit(f)
               h == OpenHeld(i)
    <2>1. f \in TimerType  BY TimerOps
    <2> HIDE DEF f
    <2>2. i \in TimerType
      <3>1. InitMode(f) \in TimerType  BY <2>1, TimerOps
      <3>2. InitDone(InitMode(f)) \in TimerType  BY <3>1, TimerOps
      <3> QED  BY <2>1, <3>2 DEF DeviceInit
    <2>3. OpenTimer(t) = IF OpenBusy(i) THEN Result(i, FALSE)
                         ELSE IF AssertFails(h) THEN h ELSE OpenRest(h)
      BY DEF OpenTimer, f
    <2> HIDE DEF i
    <2>4. h \in TimerType
      <3>1. OpenFlag(i) \in TimerType  BY <2>2, TimerOps
      <3>2. i.ref \in 0 .. RefMax  BY <2>2 DEF TimerType
      <3> QED  BY <3>1, <3>2, TimerOps DEF OpenHeld
    <2> HIDE DEF h
    <2>5. OpenRest(h) \in TimerType
      <3>1. Result(h, TRUE) \in TimerType  BY <2>4, TimerOps
      <3>2. SetRxIndicate(Result(h, TRUE)) \in TimerType  BY <3>1, TimerOps
      <3>3. ControlMode(SetRxIndicate(Result(h, TRUE))) \in TimerType
        BY <3>2, TimerOps
      <3> QED  BY <3>3, TimerOps DEF OpenRest
    <2>6. Result(i, FALSE) \in TimerType  BY <2>2, TimerOps
    <2> QED  BY <2>3, <2>4, <2>5, <2>6
  <1>2. BuzzerOff(LampOff(CloseTimer(t))) \in TimerType
    <2> DEFINE d == RefLess(t, t.ref)
               c == CloseTimer(t)
    <2>1. d \in TimerType
      <3>1. t.ref \in 0 .. RefMax  BY DEF TimerType
      <3> QED  BY <3>1, TimerOps
    <2>2. c = IF CloseIdle(t) THEN CloseRefused(t)
              ELSE IF CloseShared(d) THEN Result(d, TRUE)
              ELSE Result(CloseFlag(CloseRx(CloseActive(d))), TRUE)
      BY DEF CloseTimer
    <2> HIDE DEF d, c
    <2>3. CloseActive(d) \in TimerType  BY <2>1, TimerOps
    <2>4. CloseRx(CloseActive(d)) \in TimerType  BY <2>3, TimerOps
    <2>5. CloseFlag(CloseRx(CloseActive(d))) \in TimerType  BY <2>4, TimerOps
    <2>6. c \in TimerType
      <3>1. Result(CloseFlag(CloseRx(CloseActive(d))), TRUE) \in TimerType
        BY <2>5, TimerOps
      <3>2. Result(d, TRUE) \in TimerType  BY <2>1, TimerOps
      <3>3. CloseRefused(t) \in TimerType  BY TimerOps
      <3> QED  BY <2>2, <3>1, <3>2, <3>3
    <2>7. LampOff(c) \in TimerType  BY <2>6, TimerOps
    <2> QED  BY <2>7, TimerOps DEF c
  <1> QED  BY <1>1, <1>2 DEF BeepTimer

----------------------------------------------------------------------------
(* What the loop stores back is what it loaded: a count, or whether TIM3   *)
(* runs.                                                                   *)
TypeInv ==
    /\ TypeOK
    /\ pc \in {"open6", "close3"} => reg \in 0 .. RefMax
    /\ pc \in {"door3", "door6"} => reg \in 0 .. 255

LEMMA DoorOps ==
    ASSUME NEW a \in 0 .. 255, NEW d \in BOOLEAN
    PROVE  /\ Turned(a, d) \in 0 .. 255
           /\ my_pwm_set_angle(a) \in 0 .. 179
  BY DEF Turned, DoorStep, my_pwm_set_angle

(* A message as far as it is executed.                                     *)
LEMMA ReachedMessage ==
    ASSUME NEW m \in Commands \union Syncs
    PROVE  /\ Reached(m).on = m.on
           /\ ~Spins(m) => Reached(m) = m
           /\ Spins(m) => Reached(m).fields =
                  m.fields \intersect {"warningLight", "fillLight", "exhaustFan"}
           /\ Reached(m).fields \subseteq m.fields
  BY MessageAssumption DEF Reached, Message

(* A callback keeps the types of everything it writes.                     *)
LEMMA ApplyTypes ==
    ASSUME TypeInv, NEW m \in Commands \union Syncs, Apply(m)
    PROVE  /\ my_devices' \in DeviceType
           /\ timer' \in TimerType
           /\ angle' \in 0 .. 255 /\ servo' \in 0 .. 179
           /\ relay_pin' \in Level /\ led1_pin' \in Level
           /\ stray' \subseteq Output
  <1> DEFINE c == Reached(m)
  <1>1. my_devices' \in DeviceType
    <2>1. \A f, old : old \in BOOLEAN => Field(c, f, old) \in BOOLEAN
      <3> TAKE f, old
      <3> HAVE old \in BOOLEAN
      <3>1. (f \in c.on) \in BOOLEAN  OBVIOUS
      <3>2. CASE f \in c.fields  BY <3>1, <3>2, Zenon DEF Field
      <3>3. CASE f \notin c.fields  BY <3>3, Zenon DEF Field
      <3> QED  BY <3>2, <3>3
    <2>2. my_devices' = Recorded(c)  BY DEF Apply
    <2> HIDE DEF c
    <2> QED  BY <2>1, <2>2 DEF Recorded, TypeInv, TypeOK, DeviceType
  <1>2. timer \in TimerType  BY DEF TypeInv, TypeOK
  <1>3. timer' \in TimerType
    <2>1. CASE "alarm" \in m.fields
      <3> DEFINE b == "alarm" \in m.on
      <3>1. timer' = BeepTimer(timer, b)  BY <2>1 DEF Apply
      <3>2. b \in BOOLEAN  OBVIOUS
      <3> HIDE DEF b
      <3> QED  BY <1>2, <3>1, <3>2, BeepTimerOps
    <2>2. CASE "alarm" \notin m.fields
      BY <1>2, <2>2 DEF Apply
    <2> QED  BY <2>1, <2>2
  <1>4. angle' \in 0 .. 255
    <2> DEFINE d == "emergencyDoor" \in c.on
    <2>1. angle' = IF "emergencyDoor" \in c.fields /\ MayTurn(angle, d)
                   THEN Turned(angle, d) ELSE angle
      BY DEF Apply, TurnDoor
    <2>2. d \in BOOLEAN  OBVIOUS
    <2> HIDE DEF d, c
    <2> QED  BY <2>1, <2>2, DoorOps DEF TypeInv, TypeOK
  <1>5. servo' \in 0 .. 179
    <2>1. TurnServo(c)  BY DEF Apply, TurnDoor
    <2> HIDE DEF c
    <2> QED  BY <1>4, <2>1, DoorOps DEF TurnServo, TypeInv, TypeOK
  <1>6. relay_pin' \in Level /\ led1_pin' \in Level
    BY DEF Apply, FanLevel, LightLevel, Level, PIN_LOW, PIN_HIGH, TypeInv, TypeOK
  <1>7. stray' \subseteq Output
    <2>1. stray' = StrayAfter(c)  BY DEF Apply
    <2> HIDE DEF c
    <2> QED  BY <2>1 DEF StrayAfter, OutputOf, Output, TypeInv, TypeOK
  <1> QED  BY <1>1, <1>3, <1>4, <1>5, <1>6, <1>7

LEMMA LimitTypes ==
    ASSUME TypeInv, NEW s \in Settings, SetLimits(s)
    PROVE  my_thresholds' \in [LimitField -> Int]
  BY MessageAssumption DEF SetLimits, TypeInv, TypeOK

(***************************************************************************)
(* TypeInv is inductive: one step per action.                              *)
(***************************************************************************)
LEMMA TypeInvInit == Init => TypeInv
  <1> SUFFICES ASSUME Init PROVE TypeInv
    OBVIOUS
  <1>1. my_devices \in DeviceType /\ dht_alive \in BOOLEAN
    BY DEF Init, DeviceType
  <1>2. my_environment \in [Quantity -> Int]  BY DEF Init, Quantity
  <1>3. my_thresholds \in [LimitField -> Int]  BY DEF Init, LimitField
  <1>4. timer \in TimerType
    BY RefAssumption DEF Init, TimerInit, TimerType, Level, PIN_LOW, PIN_HIGH
  <1>5. relay_pin \in Level /\ led1_pin \in Level
    BY DEF Init, Level, PIN_LOW, PIN_HIGH
  <1>6. angle \in 0 .. 255 /\ servo \in 0 .. 179 /\ reg \in 0 .. 255
    BY DEF Init
  <1>7. /\ pc = "sensor" /\ pc \in PC /\ sec \in Quantity
        /\ state \in BOOLEAN /\ alarmed \in [Quantity -> BOOLEAN]
        /\ stray \subseteq Output
    BY DEF Init, PC, Quantity
  <1> QED  BY <1>1, <1>2, <1>3, <1>4, <1>5, <1>6, <1>7 DEF TypeInv, TypeOK

(* The loop inside beep_change: what it leaves alone, where it goes and    *)
(* what it keeps in its register.                                          *)
LEMMA BellOpenFrame ==
    ASSUME BellOpen
    PROVE  /\ UNCHANGED <<my_devices, my_environment, my_thresholds, dht_alive>>
           /\ UNCHANGED <<angle, servo, relay_pin, led1_pin, sec, state, alarmed>>
           /\ UNCHANGED stray
           /\ pc \in Opening \union {"open1", "open2"}
           /\ pc' \in Opening \union {"open2", "led0", "asserted"}
           /\ reg' \in {reg, 0, 1, timer.ref}
           /\ pc' = "open6" => reg' = timer.ref
  <1> USE DEF Goes, Tests, Loads, Stores, Bell, sensed, Opening
  <1>1. CASE \/ Goes("open1", DeviceFind(timer), "open2")
             \/ Tests("open2", timer.active, "open3", "init1")
             \/ Goes("init1", InitMode(timer), "init2")
             \/ Loads("init2", IF timer.running THEN 1 ELSE 0, "init3")
             \/ Stores("init3", InitStore(timer, reg = 1), "init4")
    BY <1>1
  <1>2. CASE \/ Goes("init4", InitDone(timer), "open3")
             \/ Tests("open3", OpenBusy(timer), "busy", "open4")
             \/ Goes("busy", Result(timer, FALSE), "ret1")
             \/ Goes("open4", OpenFlag(timer), "open5")
             \/ Loads("open5", timer.ref, "open6")
    BY <1>2
  <1>3. CASE \/ Stores("open6", RefMore(timer, reg), "open7")
             \/ Tests("open7", AssertFails(timer), "asserted", "open8")
             \/ Goes("open8", Result(timer, TRUE), "ret1")
             \/ Tests("ret1", timer.ret, "rx", "led0")
             \/ Goes("rx", SetRxIndicate(timer), "mode")
    BY <1>3
  <1>4. CASE \/ Goes("mode", ControlMode(timer), "ret")
             \/ Goes("ret", Result(timer, TRUE), "ret2")
             \/ Tests("ret2", timer.ret, "write1", "led0")
             \/ Tests("write1", WriteIdle(timer), "led0", "write2")
             \/ Goes("write2", WriteTimeout(timer), "led0")
    BY <1>4
  <1> QED  BY <1>1, <1>2, <1>3, <1>4, Zenon DEF BellOpen

LEMMA BellCloseFrame ==
    ASSUME BellClose
    PROVE  /\ UNCHANGED <<my_devices, my_environment, my_thresholds, dht_alive>>
           /\ UNCHANGED <<angle, servo, relay_pin, led1_pin, sec, state, alarmed>>
           /\ stray' \in {stray, stray \ {"lamp"}}
           /\ pc # "lamp" => stray' = stray
           /\ pc \in Closing \union {"close1"}
           /\ pc' \in Closing \union {"led0"}
           /\ reg' \in {reg, 0, timer.ref}
           /\ pc' = "close3" => reg' = timer.ref
  BY DEF BellClose, Goes, Loads, Stores, Bell, sensed, Closing

(* And what becomes of the timer.                                          *)
LEMMA BellTypes ==
    ASSUME timer \in TimerType, pc \in {"open6", "close3"} => reg \in 0 .. RefMax,
           BellOpen \/ BellClose
    PROVE  timer' \in TimerType
  <1> USE DEF Goes, Tests, Loads, Stores, Bell
  <1>1. CASE BellOpen
    <2>1. CASE pc \in {"init3", "open6"}
      <3>1. (reg = 1) \in BOOLEAN  OBVIOUS
      <3>2. timer' = InitStore(timer, reg = 1) \/ timer' = RefMore(timer, reg)
        BY <1>1, <2>1 DEF BellOpen
      <3>3. pc = "init3" => timer' = InitStore(timer, reg = 1)
        BY <1>1 DEF BellOpen
      <3> QED  BY <2>1, <3>1, <3>2, <3>3, TimerOps
    <2>2. CASE pc \notin {"init3", "open6"}
      <3>1. timer' \in {timer, DeviceFind(timer), InitMode(timer), InitDone(timer),
                        Result(timer, FALSE), Result(timer, TRUE), OpenFlag(timer),
                        SetRxIndicate(timer), ControlMode(timer),
                        WriteTimeout(timer)}
        BY <1>1, <2>2 DEF BellOpen
      <3> QED  BY <3>1, TimerOps
    <2> QED  BY <2>1, <2>2
  <1>2. CASE BellClose
    <2>1. \/ timer' \in {timer, CloseRefused(timer), Result(timer, TRUE),
                        CloseActive(timer), CloseRx(timer),
                        Result(CloseFlag(timer), TRUE), LampOff(timer),
                        BuzzerOff(timer)}
          \/ pc = "close3" /\ timer' = RefLess(timer, reg)
      BY <1>2 DEF BellClose
    <2>2. Result(CloseFlag(timer), TRUE) \in TimerType
      <3>1. CloseFlag(timer) \in TimerType  BY TimerOps
      <3> QED  BY <3>1, TimerOps
    <2> QED  BY <2>1, <2>2, TimerOps
  <1> QED  BY <1>1, <1>2

LEMMA TypeInvAuto == TypeInv /\ AutoStep => TypeInv'
  <1> SUFFICES ASSUME TypeInv, AutoStep PROVE TypeInv'
    OBVIOUS
  <1> USE DEF TypeInv, TypeOK, sensed, door
  <1>1. CASE WakeUp  BY <1>1 DEF WakeUp, PC
  <1>2. CASE CheckSensor  BY <1>2 DEF CheckSensor, PC, Quantity
  <1>3. CASE CheckFlags
    <2>1. /\ pc' \in {"flags", "flags2", "flags3", "flags4", "compare", "sensor",
                      "delay"}
          /\ sec' \in Quantity /\ state' \in BOOLEAN
      BY <1>3 DEF CheckFlags, Look, Judge, Skip, Advance, Quantity
    <2>2. pc' \in PC  BY <2>1 DEF PC
    <2> QED  BY <1>3, <2>1, <2>2 DEF CheckFlags
  <1>4. CASE Compare  BY <1>4 DEF Compare, Advance, PC, Quantity
  <1>5. CASE PublishAlarm  BY <1>5 DEF PublishAlarm, PC, Quantity
  <1>6. CASE BellOpen \/ BellClose
    <2>1. timer' \in TimerType  BY <1>6, BellTypes
    <2>2. timer.ref \in 0 .. RefMax /\ RefMax \in Nat \ {0}
      BY RefAssumption DEF TimerType
    <2>3. /\ reg' \in 0 .. 255 \union 0 .. RefMax
          /\ pc' \in {"open6", "close3"} => reg' \in 0 .. RefMax
      BY <1>6, <2>2, BellOpenFrame, BellCloseFrame DEF Opening, Closing
    <2>4. stray' \subseteq Output
      BY <1>6, BellOpenFrame, BellCloseFrame
    <2>5. pc' \in Opening \union Closing \union {"open2", "led0", "asserted"}
      BY <1>6, BellOpenFrame, BellCloseFrame
    <2>6. pc' \in PC /\ pc' \notin {"door3", "door6"}
      BY <2>5 DEF PC, Opening, Closing
    <2> QED  BY <1>6, <2>1, <2>3, <2>4, <2>6, BellOpenFrame, BellCloseFrame
  <1>8. CASE BellRecord  BY <1>8 DEF BellRecord, DeviceType, PC
  <1>9. CASE DoorChange
    <2>1. my_devices' \in DeviceType /\ pc' \in PC
      BY <1>9 DEF DoorChange, DeviceType, PC
    <2>2. /\ angle' \in 0 .. 255 /\ servo' \in 0 .. 179
          /\ reg' \in 0 .. 255 \union 0 .. RefMax
          /\ pc' \in {"door3", "door6"} => reg' \in 0 .. 255
          /\ pc' \notin {"open6", "close3"}
      <3>1. CASE pc = "door3"
        <4>1. Turned(reg, state) \in 0 .. 255  BY <3>1, DoorOps
        <4> QED  BY <1>9, <3>1, <4>1, RefAssumption DEF DoorChange
      <3>2. CASE pc = "door6"
        <4>1. my_pwm_set_angle(reg) \in 0 .. 179  BY <3>2, DoorOps
        <4> QED  BY <1>9, <3>2, <4>1, RefAssumption DEF DoorChange
      <3>3. CASE pc \notin {"door3", "door6"}
        BY <1>9, <3>3 DEF DoorChange
      <3> QED  BY <3>1, <3>2, <3>3
    <2>3. stray' \subseteq Output  BY <1>9 DEF DoorChange
    <2> QED  BY <1>9, <2>1, <2>2, <2>3 DEF DoorChange
  <1>10. CASE RelayChange
    BY <1>10 DEF RelayChange, Set_Devpro_RelayState, FanLevel, DeviceType, PC,
                 Level, PIN_LOW, PIN_HIGH
  <1>11. CASE LightChange
    BY <1>11 DEF LightChange, Set_Devpro_LED1State, LightLevel, DeviceType, PC,
                 Level, PIN_LOW, PIN_HIGH
  <1>12. CASE PublishStatus
    BY <1>12 DEF PublishStatus, Advance, PC, Quantity
  <1> QED  BY <1>1, <1>2, <1>3, <1>4, <1>5, <1>6, <1>8, <1>9, <1>10, <1>11,
              <1>12 DEF AutoStep

LEMMA ApplyTypeInv ==
    ASSUME TypeInv, NEW m \in Commands \union Syncs, Apply(m),
           UNCHANGED <<my_environment, dht_alive, alarmed>>,
           my_thresholds' \in [LimitField -> Int]
    PROVE  TypeInv'
  <1>1. pc' \in {pc, "starved"} /\ UNCHANGED <<sec, state, reg>>  BY DEF Apply
  <1>2. pc' \in PC  BY <1>1 DEF TypeInv, TypeOK, PC
  <1> QED  BY <1>1, <1>2, ApplyTypes DEF TypeInv, TypeOK

LEMMA TypeInvCallback == TypeInv /\ Callback => TypeInv'
  <1> SUFFICES ASSUME TypeInv, Callback PROVE TypeInv'
    OBVIOUS
  <1>1. ASSUME NEW m \in Commands, mqtt_dev_control_callback(m)
        PROVE  TypeInv'
    <2>1. Apply(m) /\ UNCHANGED <<my_environment, my_thresholds, dht_alive, alarmed>>
      BY <1>1 DEF mqtt_dev_control_callback, sensed
    <2> QED  BY <2>1, ApplyTypeInv DEF TypeInv, TypeOK
  <1>2. ASSUME NEW s \in Settings, mqtt_thresholds_callback(s)
        PROVE  TypeInv'
    BY <1>2, LimitTypes DEF mqtt_thresholds_callback, TypeInv, TypeOK,
                            loop
  <1>3. ASSUME NEW s \in Settings, NEW m \in Syncs, mqtt_sync_callback(s, m)
        PROVE  TypeInv'
    <2>1. Apply(m) /\ SetLimits(s) /\ UNCHANGED <<my_environment, dht_alive, alarmed>>
      BY <1>3 DEF mqtt_sync_callback
    <2>2. my_thresholds' \in [LimitField -> Int]  BY <2>1, LimitTypes
    <2> QED  BY <2>1, <2>2, ApplyTypeInv
  <1> QED  BY <1>1, <1>2, <1>3 DEF Callback

LEMMA TypeInvEnvironment == TypeInv /\ Environment => TypeInv'
  <1> SUFFICES ASSUME TypeInv, Environment PROVE TypeInv'
    OBVIOUS
  <1> USE DEF TypeInv, TypeOK, others, loop
  <1>1. CASE SampleDht11
    BY <1>1, SensorAssumption DEF SampleDht11, Quantity
  <1>2. CASE Dht11Fails  BY <1>2 DEF Dht11Fails
  <1>3. CASE SampleLight
    BY <1>3, SensorAssumption DEF SampleLight, Quantity
  <1>4. CASE IQR_HANDALE_KEY0
    <2>1. my_devices' \in DeviceType  BY <1>4 DEF IQR_HANDALE_KEY0, DeviceType
    <2> QED  BY <1>4, <2>1 DEF IQR_HANDALE_KEY0
  <1>5. CASE IQR_HANDALE_KEY1
    <2>1. my_devices' \in DeviceType  BY <1>5 DEF IQR_HANDALE_KEY1, DeviceType
    <2> QED  BY <1>5, <2>1 DEF IQR_HANDALE_KEY1
  <1>6. CASE Tim3Irq
    <2>1. timer' \in TimerType  BY <1>6, TimerOps DEF Tim3Irq
    <2> QED  BY <1>6, <2>1 DEF Tim3Irq, sensed
  <1>7. ASSUME NEW l \in ConsoleLeds, NEW v \in Level, my_control_led(l, v)
        PROVE  TypeInv'
    BY <1>7 DEF my_control_led, sensed, TimerType, Output
  <1> QED  BY <1>1, <1>2, <1>3, <1>4, <1>5, <1>6, <1>7 DEF Environment

LEMMA TypeInvStep == TypeInv /\ [Next]_vars => TypeInv'
  <1> SUFFICES ASSUME TypeInv, [Next]_vars PROVE TypeInv'
    OBVIOUS
  <1>1. CASE Next
    BY <1>1, TypeInvAuto, TypeInvCallback, TypeInvEnvironment DEF Next
  <1>2. CASE UNCHANGED vars
    BY <1>2 DEF vars, TypeInv, TypeOK
  <1> QED  BY <1>1, <1>2

LEMMA TypeInvariant == Spec => []TypeInv
  BY TypeInvInit, TypeInvStep, PTL DEF Spec

(***************************************************************************)
(* The type invariant of the control loop holds for all inputs; what the   *)
(* loop stores back into the reference count and into the angle, however   *)
(* late, is in range.                                                      *)
(***************************************************************************)
THEOREM TypeCorrect == Spec => []TypeOK
  <1>1. TypeInv => TypeOK  BY DEF TypeInv
  <1> QED  BY <1>1, TypeInvariant, PTL

----------------------------------------------------------------------------
(* Fan and fill light: between the pin and the record the pin already has  *)
(* the new level, everywhere else it has the recorded one.  Once the       *)
(* worker spins nothing is said.                                           *)
FanInv ==
    "relay" \notin stray /\ pc # "starved" =>
        relay_pin = FanLevel(IF Inside("relay") THEN state
                                                ELSE my_devices.Relay_State)
LightInv ==
    "led1" \notin stray /\ pc # "starved" =>
        led1_pin = LightLevel(IF Inside("led1") THEN state
                                                ELSE my_devices.LED1_State)

LEMMA FanLightAuto ==
    TypeInv /\ FanInv /\ LightInv /\ AutoStep => FanInv' /\ LightInv'
  <1> SUFFICES ASSUME TypeInv, FanInv, LightInv, AutoStep
               PROVE  FanInv' /\ LightInv'
    OBVIOUS
  <1> USE DEF FanInv, LightInv, Inside
  <1>1. CASE RelayChange
    BY <1>1 DEF RelayChange, Set_Devpro_RelayState, TypeInv, TypeOK, DeviceType
  <1>2. CASE LightChange
    BY <1>2 DEF LightChange, Set_Devpro_LED1State, TypeInv, TypeOK, DeviceType
  <1>3. CASE WakeUp \/ CheckSensor \/ CheckFlags \/ Compare \/ PublishAlarm
             \/ BellOpen \/ BellClose \/ BellRecord \/ DoorChange \/ PublishStatus
    <2>1. /\ UNCHANGED <<relay_pin, led1_pin>>
          /\ {"relay", "led1"} \intersect stray' = {"relay", "led1"} \intersect stray
          /\ pc \notin {"recorded", "starved"} /\ pc' \notin {"recorded", "starved"}
      BY <1>3 DEF WakeUp, CheckSensor, CheckFlags, Look, Judge, Skip, Compare,
         PublishAlarm, BellOpen, BellClose, Goes, Tests, Loads, Stores, Bell,
         BellRecord, DoorChange, PublishStatus, Advance, TypeInv, TypeOK, Quantity
    <2>2. /\ my_devices'.Relay_State = my_devices.Relay_State
          /\ my_devices'.LED1_State = my_devices.LED1_State
      BY <1>3 DEF WakeUp, CheckSensor, CheckFlags, Compare, PublishAlarm,
         BellOpen, BellClose, Goes, Tests, Loads, Stores, Bell, BellRecord,
         DoorChange, PublishStatus, TypeInv, TypeOK, DeviceType
    <2> QED  BY <2>1, <2>2
  <1> QED  BY <1>1, <1>2, <1>3 DEF AutoStep

LEMMA FanLightApply ==
    ASSUME TypeInv, FanInv, LightInv, NEW m \in Commands \union Syncs, Apply(m)
    PROVE  FanInv' /\ LightInv'
  <1> SUFFICES ASSUME pc' # "starved"  PROVE FanInv' /\ LightInv'
    BY DEF FanInv, LightInv
  <1>1. UNCHANGED <<pc, sec, state>> /\ Reached(m) = m
    BY ReachedMessage DEF Apply
  <1>2. FanInv'
    <2>1. CASE "exhaustFan" \in m.fields
      <3>1. Inside("relay") => "relay" \in stray'
        BY <1>1, <2>1 DEF Apply, StrayAfter, OutputOf
      <3>2. relay_pin' = FanLevel(my_devices'.Relay_State)
        BY <1>1, <2>1 DEF Apply, Recorded, Field
      <3> QED  BY <1>1, <3>1, <3>2 DEF FanInv, Inside
    <2>2. CASE "exhaustFan" \notin m.fields
      <3>1. relay_pin' = relay_pin /\ my_devices'.Relay_State = my_devices.Relay_State
        BY <1>1, <2>2 DEF Apply, Recorded, Field
      <3>2. "relay" \in stray => "relay" \in stray'
        BY <1>1, <2>2 DEF Apply, StrayAfter, Repairs
      <3> QED  BY <1>1, <3>1, <3>2 DEF FanInv, Inside
    <2> QED  BY <2>1, <2>2
  <1>3. LightInv'
    <2>1. CASE "fillLight" \in m.fields
      <3>1. Inside("led1") => "led1" \in stray'
        BY <1>1, <2>1 DEF Apply, StrayAfter, OutputOf
      <3>2. led1_pin' = LightLevel(my_devices'.LED1_State)
        BY <1>1, <2>1 DEF Apply, Recorded, Field
      <3> QED  BY <1>1, <3>1, <3>2 DEF LightInv, Inside
    <2>2. CASE "fillLight" \notin m.fields
      <3>1. led1_pin' = led1_pin /\ my_devices'.LED1_State = my_devices.LED1_State
        BY <1>1, <2>2 DEF Apply, Recorded, Field
      <3>2. "led1" \in stray => "led1" \in stray'
        BY <1>1, <2>2 DEF Apply, StrayAfter, Repairs
      <3> QED  BY <1>1, <3>1, <3>2 DEF LightInv, Inside
    <2> QED  BY <2>1, <2>2
  <1> QED  BY <1>2, <1>3

LEMMA FanLightStep ==
    TypeInv /\ FanInv /\ LightInv /\ [Next]_vars => FanInv' /\ LightInv'
  <1> SUFFICES ASSUME TypeInv, FanInv, LightInv, [Next]_vars
               PROVE  FanInv' /\ LightInv'
    OBVIOUS
  <1>1. CASE AutoStep  BY <1>1, FanLightAuto
  <1>2. ASSUME NEW m \in Commands \union Syncs, Apply(m)
        PROVE  FanInv' /\ LightInv'
    BY <1>2, FanLightApply
  <1>3. CASE Callback
    <2>1. ASSUME NEW s \in Settings, mqtt_thresholds_callback(s)
          PROVE  FanInv' /\ LightInv'
      BY <2>1 DEF mqtt_thresholds_callback, loop, FanInv, LightInv, Inside
    <2> QED  BY <1>2, <1>3, <2>1
             DEF Callback, mqtt_dev_control_callback, mqtt_sync_callback
  <1>4. CASE Environment
    <2>1. ASSUME NEW l \in ConsoleLeds, NEW v \in Level, my_control_led(l, v)
          PROVE  FanInv' /\ LightInv'
      BY <2>1 DEF my_control_led, loop, FanInv, LightInv, Inside
    <2>2. CASE SampleDht11 \/ Dht11Fails \/ SampleLight \/ Tim3Irq
      BY <2>2 DEF SampleDht11, Dht11Fails, SampleLight, Tim3Irq, others, loop,
                  FanInv, LightInv, Inside
    <2>3. CASE IQR_HANDALE_KEY0 \/ IQR_HANDALE_KEY1
      BY <2>3 DEF IQR_HANDALE_KEY0, IQR_HANDALE_KEY1, others, loop, FanInv,
                  LightInv, Inside, TypeInv, TypeOK, DeviceType
    <2> QED  BY <1>4, <2>1, <2>2, <2>3 DEF Environment
  <1>5. CASE UNCHANGED vars  BY <1>5 DEF vars, FanInv, LightInv, Inside
  <1> QED  BY <1>1, <1>3, <1>4, <1>5 DEF Next

(***************************************************************************)
(* Fan and fill light are as recorded whatever commands, samples, keys and *)
(* console writes arrive, unless a second writer hit the one window in     *)
(* which relay_change or emergency_light_change is half done.              *)
(***************************************************************************)
THEOREM FanAndLightCorrect == Spec => []FanAndLightMatch
  <1>1. Init => FanInv /\ LightInv
    BY DEF Init, FanInv, LightInv, Inside, FanLevel, LightLevel
  <1>2. FanInv /\ LightInv => FanAndLightMatch
    BY DEF FanInv, LightInv, FanAndLightMatch, Inside
  <1> QED  BY <1>1, <1>2, TypeInvariant, FanLightStep, PTL DEF Spec

----------------------------------------------------------------------------
(* Alarms.  No message switches a device that the loop judges by.          *)
Autonomous ==
    \A m \in Commands \union Syncs :
        m.fields \intersect {"alarm", "emergencyDoor", "exhaustFan", "fillLight"} = {}

(* Where the loop has sent a temperature alarm and not yet recorded the    *)
(* siren, not yet recorded the door, not yet left the door.                *)
BeforeBeep == Opening \union Closing
                  \union {"open1", "open2", "close1", "led0", "beep", "asserted"}
BeforeDoor == BeforeBeep \union {"door1", "door2", "door3", "door4"}
Turning == BeforeDoor \union {"door5", "door6"}

(* The last alarm on a quantity is what its devices are recorded to be,    *)
(* except on the way from the alarm to the record; an alarm that is about  *)
(* to be sent is the opposite of the last one.                             *)
LastAlarm ==
    /\ pc \in Turning => sec = "temp" /\ alarmed["temp"] = state
    /\ pc \in {"pin", "recorded"} => sec \in {"humi", "light"} /\ alarmed[sec] = state
    /\ pc \in {"compare", "alarm"} => alarmed[sec] = ~state
    /\ pc \in {"flags2", "flags4"} => sec = "temp"
    /\ my_devices.Beep_State = IF pc \in BeforeBeep THEN ~state ELSE alarmed["temp"]
    /\ my_devices.Door_State = IF pc \in BeforeDoor THEN ~state ELSE alarmed["temp"]
    /\ my_devices.Relay_State =
          IF pc \in {"pin", "recorded"} /\ sec = "humi" THEN ~state ELSE alarmed["humi"]
    /\ my_devices.LED1_State =
          IF pc \in {"pin", "recorded"} /\ sec = "light" THEN ~state ELSE alarmed["light"]

(* A step that leaves the loop and the four records alone.                 *)
LEMMA AlarmKept ==
    ASSUME LastAlarm, UNCHANGED <<pc, sec, state, alarmed>>,
           my_devices'.Beep_State = my_devices.Beep_State,
           my_devices'.Door_State = my_devices.Door_State,
           my_devices'.Relay_State = my_devices.Relay_State,
           my_devices'.LED1_State = my_devices.LED1_State
    PROVE  LastAlarm'
  BY DEF LastAlarm

(* Away from the changes every record is the last alarm.                   *)
LEMMA AlarmAdvance ==
    ASSUME LastAlarm, UNCHANGED <<my_devices, alarmed>>,
           pc \notin Turning \union {"pin", "recorded"},
           pc' \notin Turning \union {"pin", "recorded", "compare", "alarm"},
           pc' \in {"flags2", "flags4"} => sec' = "temp"
    PROVE  LastAlarm'
  BY DEF LastAlarm, Turning, BeforeDoor

LEMMA AlarmAuto == TypeInv /\ LastAlarm /\ AutoStep => LastAlarm'
  <1> SUFFICES ASSUME TypeInv, LastAlarm, AutoStep  PROVE LastAlarm'
    OBVIOUS
  <1> USE DEF Turning, BeforeDoor, BeforeBeep, Opening, Closing
  <1>0. /\ sec \in Quantity /\ state \in BOOLEAN /\ alarmed \in [Quantity -> BOOLEAN]
        /\ my_devices \in DeviceType
    BY DEF TypeInv, TypeOK
  <1>1. CASE WakeUp \/ CheckSensor \/ PublishStatus
    BY <1>0, <1>1, AlarmAdvance DEF WakeUp, CheckSensor, PublishStatus, Advance, Quantity
  <1>2. CASE CheckFlags
    <2>1. /\ UNCHANGED <<my_devices, alarmed>>
          /\ pc \in {"flags", "flags2", "flags3", "flags4"}
      BY <1>2 DEF CheckFlags
    <2>2. \/ /\ pc' = "compare" /\ sec' = sec /\ state' = TRUE
             /\ IF pc = "flags2" THEN ~my_devices.Door_State
                                 ELSE ~FirstFlag(sec) /\ sec # "temp"
          \/ /\ pc' = "compare" /\ sec' = sec /\ state' = FALSE
             /\ IF pc = "flags4" THEN my_devices.Door_State
                                 ELSE FirstFlag(sec) /\ sec # "temp"
          \/ /\ pc' \in {"flags", "flags2", "flags3", "flags4", "sensor", "delay"}
             /\ pc' \in {"flags2", "flags4"} => sec' = "temp"
      BY <1>0, <1>2 DEF CheckFlags, Look, Judge, Skip, Advance, Quantity
    <2>3. CASE pc' # "compare"  BY <2>1, <2>2, <2>3, AlarmAdvance
    <2>4. CASE pc' = "compare"
      <3>1. alarmed[sec] = ~state'
        BY <1>0, <2>1, <2>2, <2>4 DEF LastAlarm, FirstFlag, Quantity, DeviceType
      <3> QED  BY <2>1, <2>2, <2>4, <3>1 DEF LastAlarm
    <2> QED  BY <2>3, <2>4
  <1>3. CASE Compare
    <2>1. /\ pc = "compare" /\ UNCHANGED <<my_devices, alarmed, state>>
          /\ (pc' = "alarm" /\ sec' = sec) \/ pc' \in {"flags", "sensor", "delay"}
      BY <1>0, <1>3 DEF Compare, Advance, Quantity
    <2>2. CASE pc' = "alarm" /\ sec' = sec  BY <2>1, <2>2 DEF LastAlarm
    <2>3. CASE pc' \in {"flags", "sensor", "delay"}  BY <2>1, <2>3, AlarmAdvance
    <2> QED  BY <2>1, <2>2, <2>3
  <1>4. CASE PublishAlarm
    <2>1. /\ pc = "alarm" /\ UNCHANGED <<my_devices, sec, state>>
          /\ alarmed' = [alarmed EXCEPT ![sec] = state]
          /\ pc' = IF sec = "temp" THEN IF state THEN "open1" ELSE "close1" ELSE "pin"
      BY <1>4 DEF PublishAlarm
    <2>2. alarmed[sec] = ~state  BY <2>1 DEF LastAlarm
    <2>3. CASE sec = "temp"
      <3>1. pc' \in {"open1", "close1"}  BY <2>1, <2>3
      <3>2. /\ alarmed'["temp"] = state /\ alarmed'["humi"] = alarmed["humi"]
            /\ alarmed'["light"] = alarmed["light"]
        BY <1>0, <2>1, <2>3 DEF Quantity
      <3> QED  BY <2>1, <2>2, <2>3, <3>1, <3>2 DEF LastAlarm
    <2>4. CASE sec = "humi"
      <3>1. /\ alarmed'["humi"] = state /\ alarmed'["temp"] = alarmed["temp"]
            /\ alarmed'["light"] = alarmed["light"] /\ pc' = "pin"
        BY <1>0, <2>1, <2>4 DEF Quantity
      <3> QED  BY <2>1, <2>2, <2>4, <3>1 DEF LastAlarm
    <2>5. CASE sec = "light"
      <3>1. /\ alarmed'["light"] = state /\ alarmed'["temp"] = alarmed["temp"]
            /\ alarmed'["humi"] = alarmed["humi"] /\ pc' = "pin"
        BY <1>0, <2>1, <2>5 DEF Quantity
      <3> QED  BY <2>1, <2>2, <2>5, <3>1 DEF LastAlarm
    <2> QED  BY <1>0, <2>3, <2>4, <2>5 DEF Quantity
  <1>5. CASE BellOpen \/ BellClose
    <2>1. /\ UNCHANGED <<my_devices, alarmed, sec, state>>
          /\ pc \in BeforeBeep /\ pc' \in BeforeBeep
      BY <1>5 DEF BellOpen, BellClose, Goes, Tests, Loads, Stores, Bell
    <2> QED  BY <2>1 DEF LastAlarm
  <1>6. CASE BellRecord
    <2>1. UNCHANGED <<alarmed, sec, state>>  BY <1>6 DEF BellRecord
    <2>2. \/ /\ pc = "led0" /\ pc' = "beep"
             /\ my_devices' = [my_devices EXCEPT !.LED0_State = state]
          \/ /\ pc = "beep" /\ pc' = "door1"
             /\ my_devices' = [my_devices EXCEPT !.Beep_State = state]
      BY <1>6 DEF BellRecord
    <2>3. /\ my_devices'.Beep_State = IF pc = "beep" THEN state ELSE my_devices.Beep_State
          /\ my_devices'.Door_State = my_devices.Door_State
          /\ my_devices'.Relay_State = my_devices.Relay_State
          /\ my_devices'.LED1_State = my_devices.LED1_State
      BY <1>0, <2>2 DEF DeviceType
    <2> QED  BY <2>1, <2>2, <2>3 DEF LastAlarm
  <1>7. CASE DoorChange
    <2>1. UNCHANGED <<alarmed, sec, state>>  BY <1>7 DEF DoorChange
    <2>2. \/ /\ pc \in {"door1", "door2", "door3"} /\ pc' \in {"door2", "door3", "door4"}
             /\ UNCHANGED my_devices
          \/ /\ pc = "door4" /\ pc' = "door5"
             /\ my_devices' = [my_devices EXCEPT !.Door_State = state]
          \/ /\ pc \in {"door5", "door6"} /\ pc' \in {"door6", "status"}
             /\ UNCHANGED my_devices
      BY <1>7 DEF DoorChange
    <2>3. /\ my_devices'.Door_State = IF pc = "door4" THEN state ELSE my_devices.Door_State
          /\ my_devices'.Beep_State = my_devices.Beep_State
          /\ my_devices'.Relay_State = my_devices.Relay_State
          /\ my_devices'.LED1_State = my_devices.LED1_State
      BY <1>0, <2>2 DEF DeviceType
    <2> QED  BY <2>1, <2>2, <2>3 DEF LastAlarm
  <1>8. CASE RelayChange
    <2>1. UNCHANGED <<alarmed, sec, state>> /\ sec = "humi"  BY <1>8 DEF RelayChange
    <2>2. \/ pc = "pin" /\ pc' = "recorded" /\ UNCHANGED my_devices
          \/ /\ pc = "recorded" /\ pc' = "status"
             /\ my_devices' = [my_devices EXCEPT !.Relay_State = state]
      BY <1>8 DEF RelayChange, Set_Devpro_RelayState
    <2>3. /\ my_devices'.Relay_State = IF pc = "recorded" THEN state ELSE my_devices.Relay_State
          /\ my_devices'.Beep_State = my_devices.Beep_State
          /\ my_devices'.Door_State = my_devices.Door_State
          /\ my_devices'.LED1_State = my_devices.LED1_State
      BY <1>0, <2>2 DEF DeviceType
    <2> QED  BY <2>1, <2>2, <2>3 DEF LastAlarm
  <1>9. CASE LightChange
    <2>1. UNCHANGED <<alarmed, sec, state>> /\ sec = "light"  BY <1>9 DEF LightChange
    <2>2. \/ pc = "pin" /\ pc' = "recorded" /\ UNCHANGED my_devices
          \/ /\ pc = "recorded" /\ pc' = "status"
             /\ my_devices' = [my_devices EXCEPT !.LED1_State = state]
      BY <1>9 DEF LightChange, Set_Devpro_LED1State
    <2>3. /\ my_devices'.LED1_State = IF pc = "recorded" THEN state ELSE my_devices.LED1_State
          /\ my_devices'.Beep_State = my_devices.Beep_State
          /\ my_devices'.Door_State = my_devices.Door_State
          /\ my_devices'.Relay_State = my_devices.Relay_State
      BY <1>0, <2>2 DEF DeviceType
    <2> QED  BY <2>1, <2>2, <2>3 DEF LastAlarm
  <1> QED
    BY <1>1, <1>2, <1>3, <1>4, <1>5, <1>6, <1>7, <1>8, <1>9 DEF AutoStep

LEMMA AlarmStep ==
    ASSUME Autonomous, TypeInv, LastAlarm, [Next]_vars
    PROVE  LastAlarm'
  <1>1. CASE AutoStep  BY <1>1, AlarmAuto
  <1>2. ASSUME NEW m \in Commands \union Syncs, Apply(m), UNCHANGED alarmed
        PROVE  LastAlarm'
    <2>1. /\ "alarm" \notin m.fields /\ "emergencyDoor" \notin m.fields
          /\ "exhaustFan" \notin m.fields /\ "fillLight" \notin m.fields
      BY DEF Autonomous
    <2>2. /\ my_devices'.Beep_State = my_devices.Beep_State
          /\ my_devices'.Door_State = my_devices.Door_State
          /\ my_devices'.Relay_State = my_devices.Relay_State
          /\ my_devices'.LED1_State = my_devices.LED1_State
      BY <1>2, <2>1, ReachedMessage DEF Apply, Spins, Recorded, Field
    <2>3. UNCHANGED <<pc, sec, state>>  BY <1>2, <2>1 DEF Apply, Spins
    <2> QED  BY <1>2, <2>2, <2>3, AlarmKept
  <1>3. CASE Callback
    <2>1. ASSUME NEW s \in Settings, mqtt_thresholds_callback(s)  PROVE LastAlarm'
      BY <2>1, AlarmKept DEF mqtt_thresholds_callback, loop
    <2> QED  BY <1>2, <1>3, <2>1
             DEF Callback, mqtt_dev_control_callback, mqtt_sync_callback
  <1>4. CASE Environment
    <2>1. ASSUME NEW l \in ConsoleLeds, NEW v \in Level, my_control_led(l, v)
          PROVE  LastAlarm'
      BY <2>1, AlarmKept DEF my_control_led, loop
    <2>2. CASE SampleDht11 \/ Dht11Fails \/ SampleLight \/ Tim3Irq
      BY <2>2, AlarmKept DEF SampleDht11, Dht11Fails, SampleLight, Tim3Irq, others, loop
    <2>3. CASE IQR_HANDALE_KEY0 \/ IQR_HANDALE_KEY1
      BY <2>3, AlarmKept DEF IQR_HANDALE_KEY0, IQR_HANDALE_KEY1, others, loop,
                             TypeInv, TypeOK, DeviceType
    <2> QED  BY <1>4, <2>1, <2>2, <2>3 DEF Environment
  <1>5. CASE UNCHANGED vars  BY <1>5, AlarmKept DEF vars
  <1> QED  BY <1>1, <1>3, <1>4, <1>5 DEF Next

(***************************************************************************)
(* As long as no command and no sync answer switches siren, door, fan or   *)
(* fill light, "exceeded" and "back to normal" alternate for every         *)
(* quantity, through all samples, limit changes, keys and sensor faults.   *)
(***************************************************************************)
THEOREM AlarmsAlternateCorrect ==
    ASSUME Autonomous
    PROVE  Spec => AlarmsAlternate
  <1>1. Init => LastAlarm
    BY DEF Init, LastAlarm, Turning, BeforeDoor, BeforeBeep, Opening, Closing,
           Quantity
  <1>2. TypeInv /\ LastAlarm /\ [Next]_vars => LastAlarm'  BY AlarmStep
  <1>3. TypeInv /\ LastAlarm =>
           [PublishAlarm => alarmed[sec] # state]_vars
    BY DEF LastAlarm, PublishAlarm, TypeInv, TypeOK
  <1> QED
    BY <1>1, <1>2, <1>3, TypeInvariant, PTL DEF Spec, AlarmsAlternate
=============================================================================
