--------------------------- MODULE PublishService ---------------------------
(***************************************************************************)
(* What the MQTT client is to a thread that publishes: a test of           *)
(* isconnected, then a write into a pipe of limited room that waits until  *)
(* somebody makes room.  The worker that makes room may be away for a      *)
(* reconnect, may wait for room itself, may go round in select and leave   *)
(* no processor time to the publishers, or may have ended and taken the    *)
(* pipe with it.                                                           *)
(*                                                                         *)
(* MqttClient implements this specification (ServesPublishers there); the  *)
(* control loop is composed with it in module Building.                    *)
(***************************************************************************)
EXTENDS Naturals

CONSTANTS
    Publishers,  \* threads that publish
    PipeRoom,    \* what fits into the pipe
    RecordSize   \* what a message takes of it

VARIABLES
    online,      \* isconnected
    worker,      \* "up": there is a pipe and a worker that may read it
    level,       \* how much is in the pipe
    call,        \* where a publisher is in MQTTPublish
    owed         \* what it has still to write

service == <<online, worker, level, call, owed>>

CallState == {"idle", "checked", "writing", "lost"}

ServiceType ==
    /\ online \in BOOLEAN
    /\ worker \in {"none", "up", "stuck", "spinning"}
    /\ level \in 0 .. PipeRoom
    /\ call \in [Publishers -> CallState]
    /\ owed \in [Publishers -> 0 .. RecordSize]

ServiceInit ==
    /\ online = FALSE /\ worker = "none" /\ level = 0
    /\ call = [p \in Publishers |-> "idle"]
    /\ owed = [p \in Publishers |-> 0]

-----------------------------------------------------------------------------
\* The test of isconnected is passed; a publish that fails it or finds no
\* memory changes nothing.
Publish(p) ==
    /\ call[p] = "idle" /\ online /\ worker # "spinning"
    /\ call' = [call EXCEPT ![p] = "checked"]
    /\ owed' = [owed EXCEPT ![p] = RecordSize]
    /\ UNCHANGED <<online, worker, level>>

\* A writer that waits is woken when there is room.
NeverWoken(p) == call[p] = "checked"
MayWrite(p) == call[p] = "checked" \/ (call[p] = "writing" /\ level < PipeRoom)

\* As much as there is room for; the rest waits, for ever if need be.
Write(p) ==
    /\ MayWrite(p) /\ worker # "spinning"
    /\ IF worker = "none"
       THEN /\ call' = [call EXCEPT ![p] = "idle"]
            /\ owed' = [owed EXCEPT ![p] = 0]
            /\ UNCHANGED level
       ELSE \E n \in 0 .. owed[p] :
            /\ level + n <= PipeRoom
            /\ n = owed[p] \/ level + n = PipeRoom
            /\ level' = level + n
            /\ owed' = [owed EXCEPT ![p] = @ - n]
            /\ call' = [call EXCEPT ![p] = IF n = owed[p] THEN "idle" ELSE "writing"]
    /\ UNCHANGED <<online, worker>>

\* The shell's command, or a message of the worker itself that fits.
Alien(n) ==
    /\ worker \in {"up", "stuck"} /\ n > 0 /\ level + n <= PipeRoom
    /\ level' = level + n
    /\ UNCHANGED <<online, worker, call, owed>>

\* A message of the worker that does not fit: the only reader waits.
Stick ==
    /\ worker = "up" /\ online /\ level + RecordSize > PipeRoom
    /\ level' = PipeRoom /\ worker' = "stuck"
    /\ UNCHANGED <<online, call, owed>>

\* The worker takes everything there is.
Read ==
    /\ worker = "up" /\ level > 0
    /\ level' = 0
    /\ UNCHANGED <<online, worker, call, owed>>

\* A late wakeup: select goes round without sleeping until a packet comes.
Spin ==
    /\ worker = "up" /\ level = 0
    /\ worker' = "spinning"
    /\ UNCHANGED <<online, level, call, owed>>

Recover ==
    /\ worker = "spinning"
    /\ worker' = "up"
    /\ UNCHANGED <<online, level, call, owed>>

Connect ==
    /\ worker = "up" /\ ~online
    /\ online' = TRUE
    /\ UNCHANGED <<worker, level, call, owed>>

Disconnect ==
    /\ online /\ worker # "spinning"
    /\ online' = FALSE
    /\ UNCHANGED <<worker, level, call, owed>>

Open ==
    /\ worker = "none"
    /\ worker' = "up" /\ level' = 0
    /\ UNCHANGED <<online, call, owed>>

\* The pipe is deleted under those who wait in it: they return or never do.
Delete ==
    /\ worker = "up"
    /\ worker' = "none" /\ online' = FALSE /\ level' = 0
    /\ \E fate \in [Publishers -> {"idle", "lost"}] :
          call' = [p \in Publishers |->
                      IF call[p] = "writing" THEN fate[p] ELSE call[p]]
    /\ owed' = [p \in Publishers |-> IF call[p] = "writing" THEN 0 ELSE owed[p]]

Worker ==
    \/ Stick \/ Read \/ Spin \/ Recover \/ Connect \/ Disconnect \/ Open
    \/ Delete
    \/ \E n \in 1 .. RecordSize : Alien(n)

ServiceNext == Worker \/ \E p \in Publishers : Publish(p) \/ Write(p)

ServiceSpec == ServiceInit /\ [][ServiceNext]_service

\* A worker that is up, does not spin and stays connected gets round to the pipe.
Serves == WF_service(online /\ Read)

FairService == ServiceSpec /\ Serves
=============================================================================
