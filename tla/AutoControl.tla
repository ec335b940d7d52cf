----------------------------- MODULE AutoControl -----------------------------
(***************************************************************************)
(* The automatic control loop of the building (my_auto_control.c) and      *)
(* everything that shares its data: the MQTT callbacks that execute the    *)
(* server's commands (mqtt_sample.c), the sampling threads, the two keys,  *)
(* the TIM3 interrupt and the TCP console that drives the lamps.           *)
(*                                                                         *)
(* No lock protects any of it.  The loop runs at priority 16, the MQTT     *)
(* worker at 10: a callback preempts the loop between any two of its       *)
(* accesses, and its own device section never blocks.  So the loop is cut  *)
(* into one step per access to what a callback or an interrupt also        *)
(* accesses (pc), a callback is one step and an interrupt is one step.     *)
(* The image is built without optimisation (-O0): every access in the C    *)
(* text is a load or a store.  Accesses share a step only where nobody     *)
(* else can tell: the comments say so.                                     *)
(***************************************************************************)
EXTENDS Integers, HwTimer

CONSTANTS
    Temps, Humis, Lights,  \* values the sensors can report
    Settings,              \* contents of threshold commands and of a sync answer
    Commands,              \* contents of device commands
    Syncs,                 \* device part of a sync answer
    ConsoleLeds,           \* lamps the TCP console drives
    Keys                   \* keys that are pressed

LimitField == {"Temp_Limit", "Humi_Limit", "Light_Up_Limit", "Light_Down_Limit"}
CommandField ==
    {"warningLight", "fillLight", "exhaustFan", "alarm", "emergencyDoor"}
SyncField == CommandField \union {"dht11Status", "lightSensorStatus"}

(* A JSON object: the fields it has, and those whose value is JSON true.   *)
(* Any other value counts as false (node->type == cJSON_True).             *)
Message(F) == [fields : SUBSET F, on : SUBSET F]

ASSUME SensorAssumption ==
    Temps \subseteq Int /\ Humis \subseteq Int /\ Lights \subseteq Int

ASSUME MessageAssumption ==
    /\ Settings \subseteq [fields : SUBSET LimitField, value : [LimitField -> Int]]
    /\ Commands \subseteq Message(CommandField)
    /\ Syncs \subseteq Message(SyncField)

ASSUME InputAssumption ==
    ConsoleLeds \subseteq {"LED0", "LED1"} /\ Keys \subseteq {"KEY0", "KEY1"}

VARIABLES
    my_devices,      \* recorded state of the devices and of the sensors
    my_environment,  \* last sample of every sensor
    my_thresholds,   \* limits
    dht_alive,       \* the DHT11 sampling thread has not ended
    timer,           \* TIM3, the lamp pin and the buzzer pin (module HwTimer)
    angle, servo,    \* door: the uint8_t angle, the angle the servo is set to
    relay_pin,       \* level of Relay_PIN, the exhaust fan (on at 1)
    led1_pin,        \* level of LED1_PIN, the fill light (on at 0)
    pc, sec,         \* the loop: next access, quantity being judged
    state,           \* the loop: argument of the change in progress
    reg,             \* the loop: what it loaded (angle, ref_count, TIM3 runs)
    alarmed,         \* history: last alarm sent on a quantity was "exceeded"
    stray            \* history: outputs a second writer left unrecorded

vars == <<my_devices, my_environment, my_thresholds, dht_alive, timer, angle,
          servo, relay_pin, led1_pin, pc, sec, state, reg, alarmed, stray>>

loop == <<pc, sec, state, reg>>
door == <<angle, servo, reg>>
sensed == <<my_environment, my_thresholds, dht_alive>>

----------------------------------------------------------------------------
Quantity == {"temp", "humi", "light"}
Output == {"siren", "lamp", "door", "servo", "relay", "led1"}

(* "asserted": the loop spins in RT_ASSERT.  "starved": the worker does,   *)
(* and no thread below it runs again.                                      *)
PC == {"delay", "sensor", "flags", "flags2", "flags3", "flags4", "compare",
       "alarm",
       "open1", "open2", "init1", "init2", "init3", "init4", "open3", "busy",
       "open4", "open5", "open6", "open7", "open8", "ret1", "rx", "mode",
       "ret", "ret2", "write1", "write2",
       "close1", "close2", "close3", "close4", "close5", "close6", "close7",
       "lamp", "buzzer", "led0", "beep",
       "door1", "door2", "door3", "door4", "door5", "door6",
       "pin", "recorded", "status", "asserted", "starved"}

DeviceType ==
    [Beep_State : BOOLEAN, Relay_State : BOOLEAN, LED0_State : BOOLEAN,
     LED1_State : BOOLEAN, Door_State : BOOLEAN,
     DHT11_Sensor_State : BOOLEAN, Light_Sensor_State : BOOLEAN]

Init ==
    /\ my_devices = [Beep_State |-> FALSE, Relay_State |-> FALSE,
                     LED0_State |-> FALSE, LED1_State |-> FALSE,
                     Door_State |-> FALSE, DHT11_Sensor_State |-> TRUE,
                     Light_Sensor_State |-> TRUE]
    /\ my_environment = [temp |-> 0, humi |-> 0, light |-> 0]
    /\ my_thresholds = [Temp_Limit |-> 50, Humi_Limit |-> 60,
                        Light_Up_Limit |-> 2000, Light_Down_Limit |-> 1250]
    /\ dht_alive = TRUE
    /\ timer = TimerInit
    /\ angle = 0 /\ servo = 0
    /\ relay_pin = PIN_LOW /\ led1_pin = PIN_HIGH
    /\ pc = "sensor" /\ sec = "temp" /\ state = FALSE /\ reg = 0
    /\ alarmed = [q \in Quantity |-> FALSE]
    /\ stray = {}

----------------------------------------------------------------------------
(* Where the loop goes when it is done with a quantity.                    *)
Advance ==
    /\ sec' = CASE sec = "temp"  -> "humi"
                [] sec = "humi"  -> "light"
                [] sec = "light" -> "temp"
    /\ pc'  = CASE sec = "temp"  -> "flags"
                [] sec = "humi"  -> "sensor"
                [] sec = "light" -> "delay"

(* The delay of 2000 ticks is over: the loop body starts again.            *)
WakeUp ==
    /\ pc = "delay"
    /\ pc' = "sensor"
    /\ UNCHANGED <<my_devices, sensed, timer, door, relay_pin, led1_pin, sec,
                   state, alarmed, stray>>

(* if(device_status->DHT11_Sensor_State), guarding temperature and         *)
(* humidity, and if(device_status->Light_Sensor_State).                    *)
CheckSensor ==
    /\ pc = "sensor"
    /\ \/ /\ IF sec = "light" THEN my_devices.Light_Sensor_State
                              ELSE my_devices.DHT11_Sensor_State
          /\ pc' = "flags" /\ sec' = sec
       \/ /\ sec = "light" /\ ~my_devices.Light_Sensor_State
          /\ pc' = "delay" /\ sec' = "temp"
       \/ /\ sec # "light" /\ ~my_devices.DHT11_Sensor_State
          /\ pc' = "sensor" /\ sec' = "light"
    /\ UNCHANGED <<my_devices, sensed, timer, door, relay_pin, led1_pin,
                   state, alarmed, stray>>

(* The record the loop looks at first, and for temperature alone second.   *)
FirstFlag(q) ==
    CASE q = "temp"  -> my_devices.Beep_State
      [] q = "humi"  -> my_devices.Relay_State
      [] q = "light" -> my_devices.LED1_State

Judge(limit) == pc' = "compare" /\ state' = limit /\ sec' = sec
Look(next) == pc' = next /\ state' = state /\ sec' = sec
Skip == Advance /\ state' = state

(* Which limit is judged depends on the recorded state of the devices:     *)
(* if(!first && !Door) ... else if(first && Door), with the loads that C   *)
(* makes; humidity and light have no second device.                        *)
CheckFlags ==
    /\ \/ pc = "flags" /\ FirstFlag(sec) /\ Look("flags3")
       \/ /\ pc = "flags" /\ ~FirstFlag(sec)
          /\ IF sec = "temp" THEN Look("flags2") ELSE Judge(TRUE)
       \/ pc = "flags2" /\ my_devices.Door_State /\ Look("flags3")
       \/ pc = "flags2" /\ ~my_devices.Door_State /\ Judge(TRUE)
       \/ /\ pc = "flags3" /\ FirstFlag(sec)
          /\ IF sec = "temp" THEN Look("flags4") ELSE Judge(FALSE)
       \/ pc = "flags3" /\ ~FirstFlag(sec) /\ Skip
       \/ pc = "flags4" /\ my_devices.Door_State /\ Judge(FALSE)
       \/ pc = "flags4" /\ ~my_devices.Door_State /\ Skip
    /\ UNCHANGED <<my_devices, sensed, timer, door, relay_pin, led1_pin,
                   alarmed, stray>>

CrossedSwapped(q, on) ==
    LET e == my_environment
        t == my_thresholds
    IN  CASE q = "temp"  -> IF on THEN e.temp > t.Temp_Limit
                                  ELSE e.temp < t.Temp_Limit
          [] q = "humi"  -> IF on THEN e.humi > t.Humi_Limit
                                  ELSE e.humi < t.Humi_Limit
          [] q = "light" -> IF on THEN e.light < t.Light_Up_Limit
                                  ELSE e.light > t.Light_Down_Limit

(* The value calls for switching the devices on (on) or back off (~on).    *)
Crossed(q, on) ==
    LET e == my_environment
        t == my_thresholds
    IN  CASE q = "temp"  -> IF on THEN e.temp > t.Temp_Limit
                                  ELSE e.temp < t.Temp_Limit
          [] q = "humi"  -> IF on THEN e.humi > t.Humi_Limit
                                  ELSE e.humi < t.Humi_Limit
          [] q = "light" -> IF on THEN e.light < t.Light_Down_Limit
                                  ELSE e.light > t.Light_Up_Limit

(* Value and limit are loaded one after the other, but no thread writes    *)
(* both: what is compared is what stood there at one moment, in this order *)
(* of the writes or in one with the same outcome.                          *)
Compare ==
    /\ pc = "compare"
    /\ \/ Crossed(sec, state) /\ pc' = "alarm" /\ sec' = sec
       \/ ~Crossed(sec, state) /\ Advance
    /\ UNCHANGED <<my_devices, sensed, timer, door, relay_pin, led1_pin,
                   state, alarmed, stray>>

(* Publish_Alarm_Info reads value and limit again; its result is ignored.  *)
PublishAlarm ==
    /\ pc = "alarm"
    /\ alarmed' = [alarmed EXCEPT ![sec] = state]
    /\ pc' = IF sec = "temp" THEN IF state THEN "open1" ELSE "close1"
                             ELSE "pin"
    /\ UNCHANGED <<my_devices, sensed, timer, door, relay_pin, led1_pin, sec,
                   state, stray>>

----------------------------------------------------------------------------
(* beep_change(state) as the loop executes it.                             *)
Bell(from, t, to) ==
    /\ pc = from
    /\ timer' = t
    /\ pc' = to
    /\ UNCHANGED <<my_devices, sensed, angle, servo, relay_pin, led1_pin, sec,
                   state, alarmed>>

Goes(from, t, to) == Bell(from, t, to) /\ UNCHANGED <<reg, stray>>
Tests(from, cond, yes, no) == Goes(from, timer, IF cond THEN yes ELSE no)
Loads(from, value, to) ==
    Bell(from, timer, to) /\ reg' = value /\ UNCHANGED stray
Stores(from, t, to) == Bell(from, t, to) /\ reg' = 0 /\ UNCHANGED stray

(* my_hwtimer_openTimer, and in it rt_device_open from "open2" to "open7". *)
BellOpen ==
    \/ Goes("open1", DeviceFind(timer), "open2")
    \/ Tests("open2", timer.active, "open3", "init1")
    \/ Goes("init1", InitMode(timer), "init2")
    \/ Loads("init2", IF timer.running THEN 1 ELSE 0, "init3")
    \/ Stores("init3", InitStore(timer, reg = 1), "init4")
    \/ Goes("init4", InitDone(timer), "open3")
    \/ Tests("open3", OpenBusy(timer), "busy", "open4")
    \/ Goes("busy", Result(timer, FALSE), "ret1")
    \/ Goes("open4", OpenFlag(timer), "open5")
    \/ Loads("open5", timer.ref, "open6")
    \/ Stores("open6", RefMore(timer, reg), "open7")
    \/ Tests("open7", AssertFails(timer), "asserted", "open8")
    \/ Goes("open8", Result(timer, TRUE), "ret1")
    \/ Tests("ret1", timer.ret, "rx", "led0")
    \/ Goes("rx", SetRxIndicate(timer), "mode")
    \/ Goes("mode", ControlMode(timer), "ret")
    \/ Goes("ret", Result(timer, TRUE), "ret2")
    \/ Tests("ret2", timer.ret, "write1", "led0")
    \/ Tests("write1", WriteIdle(timer), "led0", "write2")
    \/ Goes("write2", WriteTimeout(timer), "led0")

(* my_hwtimer_closeTimer and the two pins.  The handle is tested in the    *)
(* step of the first ref_count test: once found it is never lost.  The     *)
(* result goes with the access before it: the loop never reads it.         *)
BellClose ==
    \/ CloseIdle(timer) /\ Goes("close1", CloseRefused(timer), "lamp")
    \/ ~CloseIdle(timer) /\ Goes("close1", timer, "close2")
    \/ Loads("close2", timer.ref, "close3")
    \/ Stores("close3", RefLess(timer, reg), "close4")
    \/ CloseShared(timer) /\ Goes("close4", Result(timer, TRUE), "lamp")
    \/ ~CloseShared(timer) /\ Goes("close4", timer, "close5")
    \/ Goes("close5", CloseActive(timer), "close6")
    \/ Goes("close6", CloseRx(timer), "close7")
    \/ Goes("close7", Result(CloseFlag(timer), TRUE), "lamp")
    \/ /\ Bell("lamp", LampOff(timer), "buzzer")
       /\ stray' = stray \ {"lamp"} /\ UNCHANGED reg
    \/ Goes("buzzer", BuzzerOff(timer), "led0")

(* Set_Devpro_LED0State, then Set_Devpro_BeepState.                        *)
BellRecord ==
    /\ \/ /\ pc = "led0" /\ pc' = "beep"
          /\ my_devices' = [my_devices EXCEPT !.LED0_State = state]
       \/ /\ pc = "beep" /\ pc' = "door1"
          /\ my_devices' = [my_devices EXCEPT !.Beep_State = state]
    /\ UNCHANGED <<sensed, timer, door, relay_pin, led1_pin, sec, state,
                   alarmed, stray>>

----------------------------------------------------------------------------
(* uint8_t arithmetic of the door angle.                                   *)
DoorStep == 90
Turned(a, direction) ==
    IF direction THEN (a + DoorStep) % 256 ELSE (a + 256 - DoorStep) % 256

(* if(angle < 180) on opening, if(angle > 0) on closing.                   *)
MayTurnTooFar(a, direction) == IF direction THEN a <= 180 ELSE a > 0
MayTurnTooLittle(a, direction) == IF direction THEN a < 180 ELSE a > 90
MayTurn(a, direction) == IF direction THEN a < 180 ELSE a > 0

(* my_pwm_set_angle keeps the servo off its end stops.                     *)
my_pwm_set_angle(a) == IF a <= 0 THEN 5 ELSE IF a >= 180 THEN 170 ELSE a

(* my_pwm_angle_change(state, 90) as the loop executes it: the test, the   *)
(* load and the store of "angle += angles", the record, the load of the    *)
(* angle for my_pwm_set_angle, the servo.                                  *)
DoorChange ==
    /\ \/ /\ pc = "door1"
          /\ pc' = IF MayTurn(angle, state) THEN "door2" ELSE "door4"
          /\ UNCHANGED <<my_devices, angle, servo, reg, stray>>
       \/ /\ pc = "door2" /\ reg' = angle /\ pc' = "door3"
          /\ UNCHANGED <<my_devices, angle, servo, stray>>
       \/ /\ pc = "door3" /\ angle' = Turned(reg, state) /\ pc' = "door4"
          /\ reg' = 0
          /\ UNCHANGED <<my_devices, servo, stray>>
       \/ /\ pc = "door4" /\ pc' = "door5"
          /\ my_devices' = [my_devices EXCEPT !.Door_State = state]
          /\ UNCHANGED <<angle, servo, reg, stray>>
       \/ /\ pc = "door5" /\ reg' = angle /\ pc' = "door6"
          /\ stray' = stray \ {"servo"}
          /\ UNCHANGED <<my_devices, angle, servo>>
       \/ /\ pc = "door6" /\ servo' = my_pwm_set_angle(reg) /\ pc' = "status"
          /\ reg' = 0
          /\ UNCHANGED <<my_devices, angle, stray>>
    /\ UNCHANGED <<sensed, timer, relay_pin, led1_pin, sec, state, alarmed>>

(* relay_change(state) and emergency_light_change(state): pin, record.     *)
FanLevel(on) == IF on THEN PIN_HIGH ELSE PIN_LOW
LightLevel(on) == IF on THEN PIN_LOW ELSE PIN_HIGH

SetRelayStateLost(on) == my_devices
Set_Devpro_RelayState(on) == [my_devices EXCEPT !.Relay_State = on]
Set_Devpro_LED1State(on) == [my_devices EXCEPT !.LED1_State = on]

RelayChange ==
    /\ sec = "humi"
    /\ \/ /\ pc = "pin" /\ pc' = "recorded"
          /\ relay_pin' = FanLevel(state) /\ stray' = stray \ {"relay"}
          /\ UNCHANGED my_devices
       \/ /\ pc = "recorded" /\ pc' = "status"
          /\ my_devices' = Set_Devpro_RelayState(state)
          /\ UNCHANGED <<relay_pin, stray>>
    /\ UNCHANGED <<sensed, timer, door, led1_pin, sec, state, alarmed>>

LightChange ==
    /\ sec = "light"
    /\ \/ /\ pc = "pin" /\ pc' = "recorded"
          /\ led1_pin' = LightLevel(state) /\ stray' = stray \ {"led1"}
          /\ UNCHANGED my_devices
       \/ /\ pc = "recorded" /\ pc' = "status"
          /\ my_devices' = Set_Devpro_LED1State(state)
          /\ UNCHANGED <<led1_pin, stray>>
    /\ UNCHANGED <<sensed, timer, door, relay_pin, sec, state, alarmed>>

(* Publish_Device_Status; its result is ignored.                           *)
PublishStatus ==
    /\ pc = "status"
    /\ Advance
    /\ UNCHANGED <<my_devices, sensed, timer, door, relay_pin, led1_pin,
                   state, alarmed, stray>>

AutoStep ==
    \/ WakeUp \/ CheckSensor \/ CheckFlags \/ Compare \/ PublishAlarm
    \/ BellOpen \/ BellClose \/ BellRecord \/ DoorChange
    \/ RelayChange \/ LightChange \/ PublishStatus

----------------------------------------------------------------------------
Opening == {"open3", "init1", "init2", "init3", "init4", "busy", "open4",
            "open5", "open6", "open7", "open8", "ret1", "rx", "mode", "ret",
            "ret2", "write1", "write2"}
Closing == {"close2", "close3", "close4", "close5", "close6", "close7", "lamp",
            "buzzer"}

(* The loop has looked at the output or begun to change it, and has not    *)
(* recorded the change: a write by anybody else now can leave the output   *)
(* different from what will be recorded.                                   *)
Inside(o) ==
    \/ pc = "starved"
    \/ CASE o = "siren" -> pc \in Opening \union Closing
                                    \union {"led0", "beep", "asserted"}
         [] o = "door"  -> pc \in {"door2", "door3", "door4"}
         [] o = "servo" -> pc = "door6"
         [] o = "relay" -> pc = "recorded" /\ sec = "humi"
         [] o = "led1"  -> pc = "recorded" /\ sec = "light"
         [] o = "lamp"  -> FALSE

OutputOf(f) ==
    CASE f = "alarm"         -> {"siren"}
      [] f = "emergencyDoor" -> {"door", "servo"}
      [] f = "exhaustFan"    -> {"relay"}
      [] f = "fillLight"     -> {"led1"}
      [] OTHER               -> {}

(* Outputs a complete change by a callback puts back in step with the      *)
(* record; the siren and the door have memory and do not recover.          *)
Repairs(m) ==
    (IF "exhaustFan" \in m.fields THEN {"relay"} ELSE {})
        \union (IF "fillLight" \in m.fields THEN {"led1"} ELSE {})
        \union (IF "emergencyDoor" \in m.fields THEN {"servo"} ELSE {})
        \union (IF "alarm" \in m.fields \ m.on THEN {"lamp"} ELSE {})

StrayAfter(m) ==
    (stray \ Repairs(m)) \union
        {o \in UNION {OutputOf(f) : f \in m.fields} : Inside(o)}

(* The servo moves after the angle has changed.                            *)
TurnServoEarly(m) ==
    servo' = IF "emergencyDoor" \in m.fields
             THEN my_pwm_set_angle(angle) ELSE servo
TurnServo(m) ==
    servo' = IF "emergencyDoor" \in m.fields
             THEN my_pwm_set_angle(angle') ELSE servo

(* What a message leaves recorded: warningLight only records, alarm        *)
(* (beep_change), which comes later, records LED0_State too.               *)
Field(m, f, old) == IF f \in m.fields THEN f \in m.on ELSE old

Recorded(m) ==
    [Beep_State  |-> Field(m, "alarm", my_devices.Beep_State),
     Relay_State |-> Field(m, "exhaustFan", my_devices.Relay_State),
     LED0_State  |-> Field(m, "alarm",
                           Field(m, "warningLight", my_devices.LED0_State)),
     LED1_State  |-> Field(m, "fillLight", my_devices.LED1_State),
     Door_State  |-> Field(m, "emergencyDoor", my_devices.Door_State),
     DHT11_Sensor_State |->
         Field(m, "dht11Status", my_devices.DHT11_Sensor_State),
     Light_Sensor_State |->
         Field(m, "lightSensorStatus", my_devices.Light_Sensor_State)]

(* The alarm field runs into the assertion of rt_device_open: the fields   *)
(* after it, and its own records, are not reached.                         *)
Spins(m) == {"alarm"} \subseteq m.fields \intersect m.on /\ OpenSpins(timer)

Reached(m) ==
    IF Spins(m)
    THEN [m EXCEPT !.fields = @ \intersect {"warningLight", "fillLight", "exhaustFan"}]
    ELSE m

(* The door of a message: the angle, then the servo.                       *)
TurnDoor(m) ==
    /\ angle' = IF /\ "emergencyDoor" \in m.fields
                   /\ MayTurn(angle, "emergencyDoor" \in m.on)
                THEN Turned(angle, "emergencyDoor" \in m.on) ELSE angle
    /\ TurnServo(m)

(* The fields of a command or of a sync answer, in the order of the code.  *)
Apply(m) ==
    /\ my_devices' = Recorded(Reached(m))
    /\ timer' = IF "alarm" \in m.fields
                THEN BeepTimer(timer, "alarm" \in m.on) ELSE timer
    /\ TurnDoor(Reached(m))
    /\ relay_pin' = IF "exhaustFan" \in m.fields
                    THEN FanLevel("exhaustFan" \in m.on) ELSE relay_pin
    /\ led1_pin' = IF "fillLight" \in m.fields
                   THEN LightLevel("fillLight" \in m.on) ELSE led1_pin
    /\ stray' = StrayAfter(Reached(m))
    /\ pc' = IF Spins(m) THEN "starved" ELSE pc
    /\ UNCHANGED <<sec, state, reg>>

SetLimits(s) ==
    my_thresholds' =
        [f \in LimitField |-> IF f \in s.fields THEN s.value[f]
                                                ELSE my_thresholds[f]]

mqtt_dev_control_callback(m) ==
    /\ pc # "starved"
    /\ Apply(m)
    /\ UNCHANGED <<sensed, alarmed>>

mqtt_thresholds_callback(s) ==
    /\ pc # "starved"
    /\ SetLimits(s)
    /\ UNCHANGED <<my_devices, my_environment, dht_alive, timer, angle, servo,
                   relay_pin, led1_pin, loop, alarmed, stray>>

mqtt_sync_callback(s, m) ==
    /\ pc # "starved"
    /\ SetLimits(s)
    /\ Apply(m)
    /\ UNCHANGED <<my_environment, dht_alive, alarmed>>

----------------------------------------------------------------------------
others == <<my_thresholds, timer, angle, servo, relay_pin, led1_pin, loop,
            alarmed, stray>>

(* my_read_temp_entry stores temperature and humidity one after the other. *)
SampleDht11 ==
    /\ dht_alive /\ pc # "starved"
    /\ \/ \E v \in Temps : my_environment' = [my_environment EXCEPT !.temp = v]
       \/ \E v \in Humis : my_environment' = [my_environment EXCEPT !.humi = v]
    /\ UNCHANGED <<my_devices, dht_alive, others>>

(* A failed read closes the sensor and ends the thread for good.           *)
Dht11Fails ==
    /\ dht_alive /\ pc # "starved"
    /\ dht_alive' = FALSE
    /\ UNCHANGED <<my_devices, my_environment, others>>

SampleLight ==
    /\ pc # "starved"
    /\ \E v \in Lights : my_environment' = [my_environment EXCEPT !.light = v]
    /\ UNCHANGED <<my_devices, dht_alive, others>>

(* Falling edges of KEY0 and KEY1 flip the "sensor is sound" flags.        *)
IQR_HANDALE_KEY0 ==
    /\ "KEY0" \in Keys
    /\ my_devices' = [my_devices EXCEPT !.DHT11_Sensor_State = ~@]
    /\ UNCHANGED <<my_environment, dht_alive, others>>

IQR_HANDALE_KEY1 ==
    /\ "KEY1" \in Keys
    /\ my_devices' = [my_devices EXCEPT !.Light_Sensor_State = ~@]
    /\ UNCHANGED <<my_environment, dht_alive, others>>

(* The update interrupt of TIM3.                                           *)
Tim3Irq ==
    /\ timer.running
    /\ timer' = TimerIsr(timer)
    /\ UNCHANGED <<my_devices, sensed, angle, servo, relay_pin, led1_pin, loop,
                   alarmed, stray>>

(* LED commands of my_tcp_control.  The shell has priority 20: it runs     *)
(* only while the loop is delayed or held up in a publish.                 *)
my_control_led(l, level) ==
    /\ pc \in {"delay", "alarm", "status"}
    /\ \/ /\ l = "LED0" /\ timer' = [timer EXCEPT !.led0 = level]
          /\ stray' = stray \union {"lamp"} /\ UNCHANGED led1_pin
       \/ /\ l = "LED1" /\ led1_pin' = level
          /\ stray' = stray \union {"led1"} /\ UNCHANGED timer
    /\ UNCHANGED <<my_devices, sensed, angle, servo, relay_pin, loop, alarmed>>

Callback ==
    \/ \E m \in Commands : mqtt_dev_control_callback(m)
    \/ \E s \in Settings : mqtt_thresholds_callback(s)
    \/ \E s \in Settings, m \in Syncs : mqtt_sync_callback(s, m)

Environment ==
    \/ SampleDht11 \/ Dht11Fails \/ SampleLight
    \/ IQR_HANDALE_KEY0 \/ IQR_HANDALE_KEY1 \/ Tim3Irq
    \/ \E l \in ConsoleLeds, level \in Level : my_control_led(l, level)

Next == AutoStep \/ Callback \/ Environment

Spec == Init /\ [][Next]_vars

(* The loop blocks only in rt_thread_delay; nothing of higher priority     *)
(* runs for ever, as long as the MQTT worker does not spin (see Building). *)
FairSpec == Spec /\ WF_vars(AutoStep)

----------------------------------------------------------------------------
(* Every variable has its type.                                            *)
TypeOK ==
    /\ my_devices \in DeviceType
    /\ my_environment \in [Quantity -> Int]
    /\ my_thresholds \in [LimitField -> Int]
    /\ dht_alive \in BOOLEAN
    /\ timer \in TimerType
    /\ angle \in 0 .. 255 /\ servo \in 0 .. 179 /\ reg \in 0 .. 255 \union 0 .. RefMax
    /\ relay_pin \in Level /\ led1_pin \in Level
    /\ pc \in PC /\ sec \in Quantity /\ state \in BOOLEAN
    /\ alarmed \in [Quantity -> BOOLEAN]
    /\ stray \subseteq Output

(* beep_change: unless a callback cut into a change of the siren, a        *)
(* recorded alarm means a siren that keeps sounding and that one close     *)
(* will silence, and no recorded alarm means a silent buzzer that no timer *)
(* interrupt can start again.                                              *)
SirenMatches ==
    "siren" \notin stray /\ ~Inside("siren") =>
        IF my_devices.Beep_State THEN SirenOn(timer) ELSE SirenOff(timer)

(* rt_device_open: the loop or a callback can run into the assertion on    *)
(* ref_count only after a callback cut into a change of the siren.         *)
AssertOnlyAfterCut == pc \in {"asserted", "starved"} => "siren" \in stray

(* beep_change(false): the warning lamp, which the interrupt may have left *)
(* lit, is off whenever the alarm is off, except where the TCP console lit *)
(* it or a callback cut into the change.                                   *)
LampDark ==
    ({"siren", "lamp"} \intersect stray = {}) /\ ~Inside("siren")
        /\ ~my_devices.Beep_State => timer.led0 = PIN_HIGH

(* relay_change and emergency_light_change: fan and fill light are as      *)
(* recorded, except after a callback (or the console) drove the pin while  *)
(* the loop was between the pin and the record; the next complete change   *)
(* restores the agreement.                                                 *)
FanAndLightMatch ==
    /\ "relay" \notin stray /\ ~Inside("relay") =>
          relay_pin = FanLevel(my_devices.Relay_State)
    /\ "led1" \notin stray /\ ~Inside("led1") =>
          led1_pin = LightLevel(my_devices.LED1_State)

(* my_pwm_angle_change: unless a callback cut into a turn of the door, the *)
(* angle is one of its three positions and a door recorded open is not     *)
(* shut.                                                                   *)
DoorMatches ==
    "door" \notin stray /\ ~Inside("door") =>
        angle \in {0, 90, 180} /\ (my_devices.Door_State => angle > 0)

(* my_pwm_set_angle comes last in every turn of the door: in whatever      *)
(* order turns were cut into each other, the servo ends up where the angle *)
(* says, unless a callback turned the door between the load of the angle   *)
(* and the servo; the next turn repairs that.                              *)
ServoFollows ==
    "servo" \notin stray /\ pc \notin {"door4", "door5", "door6", "starved"} =>
        servo = my_pwm_set_angle(angle) \/ (angle = 0 /\ servo = 0)

----------------------------------------------------------------------------
Hot == my_environment.temp > my_thresholds.Temp_Limit
Cool == my_environment.temp < my_thresholds.Temp_Limit

(* The fire case of my_auto_control_entry: if the temperature stays above  *)
(* its limit while the sensor counts as sound, the siren ends up sounding  *)
(* and the escape door ends up open, both for good.                        *)
Evacuates ==
    <>[](Hot /\ my_devices.DHT11_Sensor_State) =>
        <>[](SirenOn(timer) /\ my_devices.Door_State /\ servo > 5)

(* The way back: if the temperature stays below its limit the siren ends   *)
(* up silent and the door ends up shut.                                    *)
CallsOff ==
    <>[](Cool /\ my_devices.DHT11_Sensor_State) =>
        <>[](SirenOff(timer) /\ ~my_devices.Door_State /\ servo <= 5)

(* Hysteresis of the fill light: while light and limits stay put and the   *)
(* upper limit is not below the lower one, the light is not switched for   *)
(* ever.                                                                   *)
LightSettles ==
    (\E v \in Lights \union {0} :
        <>[](/\ my_environment.light = v
             /\ my_thresholds.Light_Up_Limit >= my_thresholds.Light_Down_Limit))
        => (<>[]my_devices.LED1_State \/ <>[]~my_devices.LED1_State)

(* Alarms of my_auto_control_entry alternate: while no command switches    *)
(* devices, "exceeded" and "back to normal" follow each other for every    *)
(* quantity, so the server never sees the same alarm twice in a row.       *)
AlarmsAlternate ==
    [][PublishAlarm => alarmed[sec] # state]_vars

=============================================================================
