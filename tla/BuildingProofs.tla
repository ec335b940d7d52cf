--------------------------- MODULE BuildingProofs ---------------------------
(***************************************************************************)
(* Control loop and MQTT client put together: what holds of each alone     *)
(* still holds, and the loop is never held up within a change.             *)
(***************************************************************************)
EXTENDS Building, SirenProofs, DoorProofs

(* Every step of the composition is one of the loop, of a callback or of   *)
(* the surroundings, or leaves the loop's data alone.                      *)
LEMMA BuildingControlStep == [BuildingNext]_building => [Next]_vars
  <1> SUFFICES ASSUME BuildingNext \/ UNCHANGED building  PROVE [Next]_vars
    OBVIOUS
  <1>1. CASE LoopRuns  BY <1>1 DEF LoopRuns, Next
  <1>2. CASE LoopCalls  BY <1>2 DEF LoopCalls
  <1>3. CASE LoopWrites  BY <1>3 DEF LoopWrites
  <1>4. CASE LoopReturns  BY <1>4 DEF LoopReturns, Next, AutoStep
  <1>5. CASE UploadPublishes  BY <1>5 DEF UploadPublishes
  <1>6. CASE WorkerExecutes  BY <1>6 DEF WorkerExecutes, Next
  <1>7. CASE WorkerRuns  BY <1>7 DEF WorkerRuns
  <1>8. CASE Surroundings  BY <1>8 DEF Surroundings, Next
  <1>9. CASE UNCHANGED building  BY <1>9 DEF building
  <1> QED
    BY <1>1, <1>2, <1>3, <1>4, <1>5, <1>6, <1>7, <1>8, <1>9 DEF BuildingNext

(***************************************************************************)
(* The composition does to the loop's data only what AutoControl allows: a *)
(* publish that waits, is lost or fails adds nothing, so every safety      *)
(* property of AutoControl holds in the building.                          *)
(***************************************************************************)
THEOREM BuildingIsControl == BuildingSpec => Spec
  <1>1. BuildingInit => Init  BY DEF BuildingInit
  <1> QED  BY <1>1, BuildingControlStep, PTL DEF BuildingSpec, Spec

(* ... and one of the service, or leaves the client alone.                 *)
LEMMA BuildingServiceStep == [BuildingNext]_building => [S!ServiceNext]_(S!service)
  <1> SUFFICES ASSUME BuildingNext \/ UNCHANGED building
               PROVE  [S!ServiceNext]_(S!service)
    OBVIOUS
  <1>0. "loop" \in Publishers /\ Uploads \subseteq Publishers  BY DEF Publishers
  <1> USE DEF service, S!service
  <1>1. CASE LoopRuns  BY <1>1 DEF LoopRuns
  <1>2. CASE LoopCalls  BY <1>0, <1>2 DEF LoopCalls, S!ServiceNext
  <1>3. CASE LoopWrites  BY <1>0, <1>3 DEF LoopWrites, S!ServiceNext
  <1>4. CASE LoopReturns  BY <1>4 DEF LoopReturns
  <1>5. CASE UploadPublishes  BY <1>0, <1>5 DEF UploadPublishes, S!ServiceNext
  <1>6. CASE WorkerExecutes
    <2>1. RecordSize \in 1 .. RecordSize  BY RoomAssumption
    <2> QED  BY <1>6, <2>1 DEF WorkerExecutes, S!ServiceNext, S!Worker
  <1>7. CASE WorkerRuns  BY <1>7 DEF WorkerRuns, S!ServiceNext
  <1>8. CASE Surroundings  BY <1>8 DEF Surroundings
  <1>9. CASE UNCHANGED building  BY <1>9 DEF building
  <1> QED
    BY <1>1, <1>2, <1>3, <1>4, <1>5, <1>6, <1>7, <1>8, <1>9 DEF BuildingNext

(***************************************************************************)
(* The loop, the upload thread and the worker with its responses use the   *)
(* client as PublishService describes it, which is what MqttClient         *)
(* implements (ServesPublishersCorrect).                                   *)
(***************************************************************************)
THEOREM BuildingIsService == BuildingSpec => S!ServiceSpec
  <1>1. BuildingInit => S!ServiceInit  BY DEF BuildingInit
  <1> QED
    BY <1>1, BuildingServiceStep, PTL DEF BuildingSpec, S!ServiceSpec

----------------------------------------------------------------------------
(* The loop is in the client only from its call to its return, and it      *)
(* calls only where it publishes; there it stays when a command spins.     *)
HeldInv ==
    /\ call \in [Publishers -> S!CallState]
    /\ calling \in BOOLEAN
    /\ call["loop"] # "idle" => calling
    /\ calling => Publishing \/ pc = "starved"

(* What the service does to the loop's call when somebody else acts.       *)
LEMMA OthersLeaveCall ==
    ASSUME call \in [Publishers -> S!CallState], S!Worker
    PROVE  /\ call' \in [Publishers -> S!CallState]
           /\ call'["loop"] = call["loop"] \/ call["loop"] # "idle"
  <1>1. CASE S!Delete
    <2>1. PICK fate \in [Publishers -> {"idle", "lost"}] :
             call' = [p \in Publishers |->
                         IF call[p] = "writing" THEN fate[p] ELSE call[p]]
      BY <1>1 DEF S!Delete
    <2> QED  BY <2>1 DEF S!CallState, Publishers
  <1>2. CASE ~S!Delete
    <2>1. UNCHANGED call
      BY <1>2 DEF S!Worker, S!Stick, S!Read, S!Spin, S!Recover, S!Connect,
                  S!Disconnect, S!Open, S!Alien
    <2> QED  BY <2>1
  <1> QED  BY <1>1, <1>2

(* A publisher's own steps.                                                *)
LEMMA OwnCall ==
    ASSUME call \in [Publishers -> S!CallState], NEW p \in Publishers,
           S!Publish(p) \/ S!Write(p)
    PROVE  /\ call' \in [Publishers -> S!CallState]
           /\ \A q \in Publishers : q # p => call'[q] = call[q]
  <1>1. \E s \in S!CallState : call' = [call EXCEPT ![p] = s]
    <2>1. CASE S!Publish(p)  BY <2>1 DEF S!Publish, S!CallState
    <2>2. CASE S!Write(p)
      <3>1. call' = [call EXCEPT ![p] = "idle"]
               \/ call' = [call EXCEPT ![p] = "writing"]
        BY <2>2 DEF S!Write
      <3> QED  BY <3>1 DEF S!CallState
    <2> QED  BY <2>1, <2>2
  <1> QED  BY <1>1

LEMMA HeldStep == HeldInv /\ [BuildingNext]_building => HeldInv'
  <1> SUFFICES ASSUME HeldInv, BuildingNext \/ UNCHANGED building  PROVE HeldInv'
    OBVIOUS
  <1>0. "loop" \in Publishers /\ Uploads \subseteq Publishers /\ "loop" \notin Uploads
    BY RoomAssumption DEF Publishers
  <1> USE DEF HeldInv
  <1>1. CASE LoopRuns  BY <1>1 DEF LoopRuns, ThreadsRun, service
  <1>2. CASE LoopCalls
    <2>1. calling' = TRUE /\ Publishing /\ Publishing'
      BY <1>2 DEF LoopCalls, Publishing, vars, loop
    <2>2. call' \in [Publishers -> S!CallState]
      BY <1>0, <1>2, OwnCall DEF LoopCalls, service
    <2> QED  BY <2>1, <2>2
  <1>3. CASE LoopWrites
    <2>1. call["loop"] # "idle"  BY <1>3 DEF LoopWrites, S!Write, S!MayWrite
    <2>2. UNCHANGED <<calling, pc>> /\ Publishing' = Publishing
      BY <1>3 DEF LoopWrites, Publishing, vars, loop
    <2>3. call' \in [Publishers -> S!CallState]
      BY <1>0, <1>3, OwnCall DEF LoopWrites
    <2> QED  BY <2>1, <2>2, <2>3
  <1>4. CASE LoopReturns  BY <1>4 DEF LoopReturns, service
  <1>5. CASE UploadPublishes
    <2>1. call' \in [Publishers -> S!CallState] /\ call'["loop"] = call["loop"]
      BY <1>0, <1>5, OwnCall DEF UploadPublishes
    <2>2. UNCHANGED <<calling, pc>> /\ Publishing' = Publishing
      BY <1>5 DEF UploadPublishes, Publishing, vars, loop
    <2> QED  BY <2>1, <2>2
  <1>6. CASE WorkerExecutes
    <2>1. UNCHANGED <<call, calling>>
      BY <1>6 DEF WorkerExecutes, S!Alien, S!Stick, service
    <2>2. UNCHANGED pc \/ pc' = "starved"
      BY <1>6 DEF WorkerExecutes, Callback, mqtt_dev_control_callback,
                  mqtt_thresholds_callback, mqtt_sync_callback, Apply, loop
    <2> QED  BY <2>1, <2>2 DEF Publishing
  <1>7. CASE WorkerRuns
    <2>1. UNCHANGED <<calling, pc>> /\ Publishing' = Publishing
      BY <1>7 DEF WorkerRuns, Publishing, vars, loop
    <2>2. /\ call' \in [Publishers -> S!CallState]
          /\ call'["loop"] = call["loop"] \/ call["loop"] # "idle"
      BY <1>7, OthersLeaveCall DEF WorkerRuns
    <2> QED  BY <2>1, <2>2
  <1>8. CASE Surroundings
    <2>1. UNCHANGED <<call, calling>>  BY <1>8 DEF Surroundings, service
    <2>2. UNCHANGED pc
      BY <1>8 DEF Surroundings, Environment, SampleDht11, Dht11Fails, SampleLight,
                  IQR_HANDALE_KEY0, IQR_HANDALE_KEY1, Tim3Irq, my_control_led,
                  others, loop
    <2> QED  BY <2>1, <2>2 DEF Publishing
  <1>9. CASE UNCHANGED building
    BY <1>9 DEF building, service, vars, loop, Publishing
  <1> QED
    BY <1>1, <1>2, <1>3, <1>4, <1>5, <1>6, <1>7, <1>8, <1>9 DEF BuildingNext

LEMMA HeldInvariant == BuildingSpec => []HeldInv
  <1>1. BuildingInit => HeldInv
    BY DEF BuildingInit, S!ServiceInit, HeldInv, S!CallState, Publishers
  <1> QED  BY <1>1, HeldStep, PTL DEF BuildingSpec

(***************************************************************************)
(* While the loop waits in a publish, even for ever, siren, door, fan and  *)
(* fill light are what is recorded unless a command had cut into a change  *)
(* of that very output, for every set of commands the worker executes      *)
(* meanwhile, every room of the pipe and every record size.                *)
(***************************************************************************)
THEOREM HeldInStepCorrect == BuildingSpec => []HeldInStep
  <1>1. HeldInv /\ SirenMatches /\ DoorMatches /\ ServoFollows /\ FanAndLightMatch
           => HeldInStep
    <2> SUFFICES ASSUME HeldInv, SirenMatches, DoorMatches, ServoFollows,
                        FanAndLightMatch, call["loop"] # "idle", pc # "starved"
                 PROVE  HeldInStep
      BY DEF HeldInStep
    <2>1. pc \in {"alarm", "status"}  BY DEF HeldInv, Publishing
    <2>2. /\ ~Inside("siren") /\ ~Inside("door")
          /\ ~Inside("relay") /\ ~Inside("led1")
      BY <2>1 DEF Inside, Opening, Closing
    <2>3. "servo" \notin stray =>
             servo = my_pwm_set_angle(angle) \/ (angle = 0 /\ servo = 0)
      BY <2>1 DEF ServoFollows
    <2> QED
      BY <2>2, <2>3 DEF SirenMatches, DoorMatches, FanAndLightMatch, HeldInStep
  <1>2. BuildingSpec => [](SirenMatches /\ DoorMatches /\ ServoFollows /\ FanAndLightMatch)
    BY BuildingIsControl, SirenCorrect, DoorCorrect, ServoCorrect,
       FanAndLightCorrect, PTL
  <1> QED  BY <1>1, <1>2, HeldInvariant, PTL
=============================================================================
