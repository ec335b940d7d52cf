------------------------------ MODULE Building ------------------------------
(***************************************************************************)
(* The control loop (AutoControl) and the MQTT client it reports to        *)
(* (PublishService, which MqttClient implements) put together.  They meet  *)
(* in two places.  The loop publishes: Publish_Alarm_Info comes before the *)
(* siren and the door are switched and may wait for room in the pipe.  And *)
(* the worker executes the server's commands, and then publishes the       *)
(* response itself.                                                        *)
(*                                                                         *)
(* AutoControl alone lets every publish return.  Here it returns when the  *)
(* service lets it.  And the worker has the higher priority: while it      *)
(* spins, in select or in the assertion of a command, no thread below it   *)
(* runs, only interrupts do.                                               *)
(***************************************************************************)
EXTENDS AutoControl

CONSTANTS
    Uploads,     \* other threads that publish: the data upload
    PipeRoom, RecordSize

Publishers == {"loop"} \union Uploads

ASSUME RoomAssumption ==
    /\ "loop" \notin Uploads
    /\ PipeRoom \in Nat \ {0} /\ RecordSize \in Nat \ {0}

VARIABLES
    online, worker, level, call, owed,  \* the service
    calling                             \* the loop is inside its publish

S == INSTANCE PublishService

service == <<online, worker, level, call, owed>>
building == <<vars, service, calling>>

BuildingInit == Init /\ S!ServiceInit /\ calling = FALSE

-----------------------------------------------------------------------------
\* A thread below the worker has the processor.
ThreadsRun == worker # "spinning" /\ pc # "starved"
Interrupt == IQR_HANDALE_KEY0 \/ IQR_HANDALE_KEY1 \/ Tim3Irq

PublishingEarly == pc \in {"alarm", "beep", "status"}
Publishing == pc \in {"alarm", "status"}

\* The loop away from its two publishes.
LoopRuns ==
    /\ ThreadsRun
    /\ ~Publishing /\ AutoStep
    /\ UNCHANGED <<service, calling>>

\* Publish_Alarm_Info and Publish_Device_Status: MQTTPublish refuses, or goes
\* on to the pipe.
LoopCalls ==
    /\ ThreadsRun
    /\ Publishing /\ ~calling
    /\ S!Publish("loop") \/ UNCHANGED service
    /\ calling' = TRUE
    /\ UNCHANGED vars

LoopWrites ==
    /\ ThreadsRun
    /\ S!Write("loop")
    /\ UNCHANGED <<vars, calling>>

\* The call is over, with whatever result.
LoopReturns ==
    /\ ThreadsRun
    /\ calling /\ call["loop"] = "idle"
    /\ PublishAlarm \/ PublishStatus
    /\ calling' = FALSE
    /\ UNCHANGED service

\* The data upload thread.
UploadPublishes ==
    /\ ThreadsRun
    /\ \E p \in Uploads : S!Publish(p) \/ S!Write(p)
    /\ UNCHANGED <<vars, calling>>

\* The worker executes a command and publishes the response; the answer to a
\* sync request is not responded to, nor is a command that runs into the
\* assertion.  All only in a session.
WorkerExecutes ==
    /\ worker = "up" /\ online
    /\ Callback
    /\ \/ UNCHANGED service
       \/ pc' # "starved" /\ (S!Alien(RecordSize) \/ S!Stick)
    /\ UNCHANGED calling

\* The rest of the client: reading the pipe, connecting, losing connections.
WorkerRuns ==
    /\ pc # "starved"
    /\ S!Worker
    /\ UNCHANGED <<vars, calling>>

Surroundings ==
    /\ Environment
    /\ ThreadsRun \/ Interrupt
    /\ UNCHANGED <<service, calling>>

BuildingNext ==
    \/ LoopRuns \/ LoopCalls \/ LoopWrites \/ LoopReturns
    \/ UploadPublishes \/ WorkerExecutes \/ WorkerRuns \/ Surroundings

BuildingSpec == BuildingInit /\ [][BuildingNext]_building

\* The loop runs on unless it waits in the pipe, where it gets its turn if
\* there is room again and again (WriteEnds of PipeSync), all of it only while
\* the worker does not spin; the worker keeps its promise.
FairBuilding ==
    /\ BuildingSpec
    /\ WF_building(LoopRuns \/ LoopCalls \/ LoopReturns)
    /\ SF_building(LoopWrites)
    /\ WF_building(online /\ S!Read /\ UNCHANGED <<vars, calling>>)

-----------------------------------------------------------------------------
\* my_auto_control_entry publishes before and after a change of its devices,
\* never within one.  So while the loop is held up in a publish, for ever if
\* its pipe is gone, siren, door, fan and fill light are as recorded, whatever
\* the worker executes meanwhile (apart from what was left different before,
\* and from a command that got no further than the assertion).
HeldInStep ==
    call["loop"] # "idle" /\ pc # "starved" =>
        /\ "siren" \notin stray =>
              IF my_devices.Beep_State THEN SirenOn(timer) ELSE SirenOff(timer)
        /\ "door" \notin stray =>
              angle \in {0, 90, 180} /\ (my_devices.Door_State => angle > 0)
        /\ "servo" \notin stray =>
              servo = my_pwm_set_angle(angle) \/ (angle = 0 /\ servo = 0)
        /\ "relay" \notin stray => relay_pin = FanLevel(my_devices.Relay_State)
        /\ "led1" \notin stray => led1_pin = LightLevel(my_devices.LED1_State)

\* A client that in the end has a worker that has a session and does not
\* spin, and that did not delete its pipe under the loop.
Served == <>[](worker = "up" /\ online /\ call["loop"] # "lost")

LastingHeat == <>[](Hot /\ my_devices.DHT11_Sensor_State)

\* my_auto_control_entry with its publishes: lasting heat ends with the siren
\* sounding and the door open for good, whatever happened to the connection
\* and to the pipe before, if no command switches siren or door and the client
\* is served in the end.
EvacuatesWhenServed ==
    LastingHeat /\ Served =>
        <>[](SirenOn(timer) /\ my_devices.Door_State /\ servo > 5)

\* The way back likewise: lasting cool ends with the siren silent and the
\* door shut.
CallsOffWhenServed ==
    <>[](Cool /\ my_devices.DHT11_Sensor_State) /\ Served =>
        <>[](SirenOff(timer) /\ ~my_devices.Door_State /\ servo <= 5)
=============================================================================
