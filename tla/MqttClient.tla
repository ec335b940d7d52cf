----------------------------- MODULE MqttClient -----------------------------
(***************************************************************************)
(* The MQTT client of the device: the worker thread of paho_mqtt_pipe.c    *)
(* with its connection, its subscription table and its publish pipe, the   *)
(* threads that publish, and the shell commands that start and stop it     *)
(* (mqtt_sample.c).  The broker and the TCP connection are modelled from   *)
(* how the client uses them.                                               *)
(*                                                                         *)
(* The worker is one thread: it reconnects, subscribes, reads the socket,  *)
(* runs the callbacks, and is also the only reader of the pipe into which  *)
(* its own callbacks publish.                                              *)
(***************************************************************************)
EXTENDS Integers, Sequences, MqttPipe

CONSTANTS
    Publishers,    \* threads that publish: control loop, data upload
    Slots,         \* MAX_MESSAGE_HANDLERS
    PipeRoom,      \* cells that fit into the pipe
    MaxMsgs,       \* bound: messages per publisher
    MaxFaults,     \* bound: connections lost or refused
    MaxPushes,     \* bound: messages the broker pushes
    MaxOrders,     \* bound: shell commands
    Operator,      \* shell commands that are given
    NoMemory       \* TRUE: allocations may fail

Topics == <<"sync/response", "device/control", "threshold/set">>
TopicSet == {Topics[i] : i \in DOMAIN Topics}
NONE == "none"
Writers == Publishers \union {"worker", "shell"}
OtherWriters == Publishers \union {"shell"}

ASSUME ClientAssumption ==
    /\ "worker" \notin Publishers /\ "shell" \notin Publishers
    /\ Slots \in Nat /\ PipeRoom \in Nat \ {0}
    /\ MaxMsgs \in Nat /\ MaxFaults \in Nat
    /\ MaxPushes \in Nat /\ MaxOrders \in Nat
    /\ Operator \subseteq {"start", "stop", "unsubscribe"}
    /\ NoMemory \in BOOLEAN

VARIABLES
    is_started,   \* mqtt_sample.c: the client counts as started
    workers,      \* worker threads alive
    isconnected,  \* client: the session is established
    wpc, idx,     \* worker: where it is, position in a loop over topics
    handlers,     \* messageHandlers: topic filter of every slot
    sock,         \* client: sock >= 0
    pipe_open,    \* the pipe exists
    pipe,         \* its contents
    wstate,       \* other writers: see WriterState
    wrest,        \* what a writer has still to put into the pipe
    count,        \* publishers: messages tried so far
    link,         \* external: the TCP connection works
    subs,         \* external: topics the broker has for this session
    inbox,        \* external: packets on their way to the client
    faults, pushes, orders,    \* bounds: what network and shell still may do
    clearing,     \* shell: slot it has still to clear, 0 if none
    late,         \* a writer has still to wake the worker for bytes it has read
    devices,      \* pipe devices that exist
    unopened,     \* history: pipe devices that could not be opened
    accepted, sent,            \* history: publishes reported as successful, sent
    mixed, merged, junk        \* history: see the properties

connection == <<sock, link, subs, inbox>>
writers == <<wstate, wrest, count, accepted>>
aside == <<clearing, late, devices, unopened, sent, merged, junk>>
bounds == <<faults, pushes, orders>>
vars == <<is_started, workers, isconnected, wpc, idx, handlers, pipe_open, pipe,
          connection, writers, bounds, aside, mixed>>

----------------------------------------------------------------------------
WorkerPC == {"dead", "pipe", "start", "connect", "resub", "suback", "online",
             "sync", "select", "asleep", "spinning", "respond", "puback",
             "stuck", "disconnect", "restart", "exit"}

(* The worker waits in select: with a timeout, with one that is negative   *)
(* and so is none, or going round in poll_do without sleeping, which only  *)
(* a packet ends.                                                          *)
Selecting == {"select", "asleep", "spinning"}

(* "FIN" is the end of the stream.                                         *)
Packets == {"ACK", "UNSUBACK", "FIN"} \union TopicSet

(* A writer is in no call, between the test of isconnected and the write,  *)
(* waiting for room, starting the client, or waiting in a pipe that is     *)
(* gone.                                                                   *)
WriterState == {"idle", "checked", "writing", "starting", "lost"}

(* main has called mqtt_start; it has the worker's own priority and so     *)
(* sets is_started before the worker runs.                                 *)
Init ==
    /\ is_started = TRUE /\ workers = 1 /\ isconnected = FALSE
    /\ wpc = "pipe" /\ idx = 1
    /\ handlers = [i \in 1 .. Slots |-> NONE]
    /\ sock = FALSE /\ link = FALSE /\ subs = {} /\ inbox = <<>>
    /\ pipe_open = FALSE /\ pipe = <<>>
    /\ wstate = [w \in OtherWriters |-> "idle"]
    /\ wrest = [w \in OtherWriters |-> <<>>]
    /\ count = [p \in Publishers |-> 0]
    /\ faults = MaxFaults /\ pushes = MaxPushes /\ orders = MaxOrders
    /\ clearing = 0 /\ late = FALSE /\ devices = 0 /\ unopened = 0
    /\ accepted = {} /\ sent = <<>>
    /\ mixed = FALSE /\ merged = FALSE /\ junk = FALSE

----------------------------------------------------------------------------
(* Putting data into the pipe.  Bytes of two kinds next to each other, or  *)
(* a record that does not fit as a whole, can later be taken for another   *)
(* record.                                                                 *)
PutInto(data) ==
    /\ pipe' = Put(pipe, data, PipeRoom)
    /\ mixed' = (mixed \/ Rest(pipe, data, PipeRoom) # <<>>
                   \/ (pipe # <<>> /\ \E i \in 1 .. Len(pipe \o data) :
                                          (pipe \o data)[i].part = "cmd"))

(* MQTTPublish called by the worker itself.  A pipe without room blocks it *)
(* for ever: nobody else reads the pipe.                                   *)
PublishByWorker(next) ==
    \/ /\ ~isconnected \/ NoMemory
       /\ wpc' = next /\ UNCHANGED <<pipe, mixed>>
    \/ /\ isconnected
       /\ PutInto(Record("worker", 0))
       /\ wpc' = IF Rest(pipe, Record("worker", 0), PipeRoom) = <<>>
                 THEN next ELSE "stuck"

----------------------------------------------------------------------------
(* paho_mqtt_thread.  A pipe that cannot be created ends the worker, and   *)
(* so does one that cannot be opened: its device stays.                    *)
mqtt_pipe_init ==
    /\ wpc = "pipe"
    /\ \/ /\ pipe_open' = TRUE /\ pipe' = <<>> /\ devices' = devices + 1
          /\ wpc' = "start" /\ UNCHANGED <<workers, unopened>>
       \/ /\ NoMemory /\ wpc' = "dead" /\ workers' = workers - 1
          /\ \/ UNCHANGED <<devices, unopened>>
             \/ devices' = devices + 1 /\ unopened' = unopened + 1
          /\ UNCHANGED <<pipe_open, pipe>>
    /\ UNCHANGED <<is_started, isconnected, idx, handlers, connection, writers,
                   bounds, clearing, late, sent, merged, junk, mixed>>

net_connect ==
    /\ wpc = "start"
    /\ \/ /\ sock' = TRUE /\ link' = TRUE /\ wpc' = "connect"
          /\ UNCHANGED faults
       \/ /\ faults > 0 /\ faults' = faults - 1
          /\ sock' = FALSE /\ link' = FALSE /\ wpc' = "restart"
    /\ subs' = {} /\ inbox' = <<>>
    /\ UNCHANGED <<is_started, workers, isconnected, idx, handlers, pipe_open,
                   pipe, writers, pushes, orders, aside, mixed>>

(* The connect packet is not sent a second time: then, and when no answer  *)
(* comes, the result is an error.                                          *)
MQTTConnect ==
    /\ wpc = "connect"
    /\ IF isconnected \/ ~link
       THEN wpc' = "restart" /\ UNCHANGED isconnected
       ELSE wpc' = "resub" /\ isconnected' = TRUE
    /\ idx' = 1
    /\ UNCHANGED <<is_started, workers, handlers, pipe_open, pipe, connection,
                   writers, bounds, aside, mixed>>

(* The loop over the subscription table after a (re)connect.               *)
LastSlotSkipped == Slots - 1
LastSlot == Slots

MQTTSubscribe ==
    /\ wpc = "resub"
    /\ \/ /\ idx > LastSlot
          /\ wpc' = "online" /\ idx' = 1 /\ UNCHANGED connection
       \/ /\ idx <= LastSlot /\ handlers[idx] = NONE
          /\ idx' = idx + 1 /\ UNCHANGED <<wpc, connection>>
       \/ /\ idx <= LastSlot /\ handlers[idx] # NONE
          /\ \/ /\ isconnected /\ link
                /\ subs' = subs \union {handlers[idx]}
                /\ inbox' = Append(inbox, "ACK")
                /\ wpc' = "suback" /\ UNCHANGED <<sock, link>>
             \/ /\ ~isconnected \/ ~link
                /\ wpc' = "disconnect" /\ UNCHANGED connection
          /\ UNCHANGED idx
    /\ UNCHANGED <<is_started, workers, isconnected, handlers, pipe_open, pipe,
                   writers, bounds, aside, mixed>>

(* One packet is read; anything but SUBACK is an error, also a message the *)
(* broker pushes on a topic that is subscribed again already.              *)
WaitSuback ==
    /\ wpc = "suback"
    /\ \/ /\ inbox # <<>>
          /\ wpc' = IF Head(inbox) = "ACK" THEN "resub" ELSE "disconnect"
          /\ inbox' = Tail(inbox)
       \/ /\ inbox = <<>> /\ ~link
          /\ wpc' = "disconnect" /\ UNCHANGED inbox
    /\ idx' = idx + 1
    /\ UNCHANGED <<is_started, workers, isconnected, handlers, pipe_open, pipe,
                   sock, link, subs, writers, bounds, aside, mixed>>

----------------------------------------------------------------------------
SubscribedNever(t) == FALSE
Subscribed(t) == \E i \in 1 .. Slots : handlers[i] = t
FreeSlot(i) == handlers[i] = NONE /\ \A j \in 1 .. i - 1 : handlers[j] # NONE

(* mqtt_sub_init, one topic: nothing if the client does not count as       *)
(* started, if the topic is in the table or if the table is full.  On a    *)
(* broken connection the send fails or goes nowhere.                       *)
paho_mqtt_subscribe ==
    /\ wpc = "online" /\ idx <= Len(Topics)
    /\ LET t == Topics[idx]
           skip == ~is_started \/ Subscribed(t)
                     \/ \A i \in 1 .. Slots : handlers[i] # NONE
       IN  \/ skip /\ UNCHANGED <<handlers, isconnected, connection>>
           \/ /\ ~skip
              /\ \/ \E i \in 1 .. Slots : FreeSlot(i)
                                          /\ handlers' = [handlers EXCEPT ![i] = t]
                 \/ NoMemory /\ UNCHANGED handlers
              /\ IF link THEN /\ subs' = subs \union {t}
                              /\ inbox' = Append(inbox, "ACK")
                         ELSE UNCHANGED <<subs, inbox>>
              /\ UNCHANGED <<isconnected, sock, link>>
           \/ /\ ~skip /\ ~link /\ isconnected' = FALSE
              /\ UNCHANGED <<handlers, connection>>
    /\ idx' = idx + 1
    /\ wpc' = IF idx = Len(Topics) THEN "sync" ELSE "online"
    /\ UNCHANGED <<is_started, workers, pipe_open, pipe, writers, bounds,
                   aside, mixed>>

Publish_Sync_Request ==
    /\ wpc = "sync"
    /\ PublishByWorker("select")
    /\ UNCHANGED <<is_started, workers, isconnected, idx, handlers, pipe_open,
                   connection, writers, bounds, aside>>

----------------------------------------------------------------------------
(* The select loop.  The socket comes first: MQTT_cycle takes one packet.  *)
Answered(t) == Subscribed(t) /\ t \in {"device/control", "threshold/set"}

(* It may return so late that the next timeout is negative.                *)
Reselect == {"select", "asleep"}

MQTT_cycle ==
    /\ wpc \in Selecting /\ inbox # <<>>
    /\ LET packet == Head(inbox)
       IN  \/ packet \in {"ACK", "UNSUBACK"} /\ wpc' \in Reselect
           \/ packet = "FIN" /\ wpc' = "disconnect"
           \/ Answered(packet) /\ wpc' = "respond"
           \/ packet \in TopicSet /\ ~Answered(packet) /\ wpc' = "puback"
    /\ inbox' = Tail(inbox)
    /\ UNCHANGED <<is_started, workers, isconnected, idx, handlers, pipe_open,
                   pipe, sock, link, subs, writers, bounds, aside, mixed>>

(* select times out and the ping is not answered.                          *)
LinkDead ==
    /\ wpc = "select" /\ inbox = <<>> /\ ~link
    /\ wpc' = "disconnect"
    /\ UNCHANGED <<is_started, workers, isconnected, idx, handlers, pipe_open,
                   pipe, connection, writers, bounds, aside, mixed>>

(* Publish_Device_Response, Publish_Thresholds_Response in the callback.   *)
Respond ==
    /\ wpc = "respond"
    /\ PublishByWorker("puback")
    /\ UNCHANGED <<is_started, workers, isconnected, idx, handlers, pipe_open,
                   connection, writers, bounds, aside>>

SendPuback ==
    /\ wpc = "puback"
    /\ \/ wpc' \in Reselect
       \/ ~link /\ wpc' = "disconnect"
    /\ UNCHANGED <<is_started, workers, isconnected, idx, handlers, pipe_open,
                   pipe, connection, writers, bounds, aside, mixed>>

(* The pipe has data and the socket has none: read all, handle the first   *)
(* record.  Bytes that are not a record are sent as whatever they look     *)
(* like, ignored, or fail to serialise.  The writers may not have come to  *)
(* their wakeup yet.                                                       *)
ReadPipe ==
    /\ wpc \in Selecting /\ inbox = <<>> /\ pipe # <<>>
    /\ pipe' = LeftAfterRead(pipe)
    /\ merged' = (merged \/ IsMerged(pipe))
    /\ \/ UNCHANGED late
       \/ (\E i \in 1 .. Len(pipe) : pipe[i].from # "worker") /\ late' = TRUE
    /\ \/ /\ IsMessage(pipe)
          /\ wpc' \in Reselect \union (IF link THEN {} ELSE {"disconnect"})
          /\ sent' = IF link /\ pipe[1].from \in Publishers
                     THEN Append(sent, <<pipe[1].from, pipe[1].n>>) ELSE sent
          /\ UNCHANGED junk
       \/ /\ IsDisconnect(pipe)
          /\ wpc' = "exit" /\ UNCHANGED <<sent, junk>>
       \/ /\ ~IsMessage(pipe) /\ ~IsDisconnect(pipe)
          /\ wpc' \in Reselect \union {"disconnect"}
          /\ junk' = TRUE /\ UNCHANGED sent
    /\ UNCHANGED <<is_started, workers, isconnected, idx, handlers, pipe_open,
                   connection, writers, bounds, clearing, devices, unopened, mixed>>

----------------------------------------------------------------------------
DisconnectKeepsFlag == isconnected
DisconnectedFlag == FALSE

MQTTDisconnect ==
    /\ wpc = "disconnect"
    /\ isconnected' = DisconnectedFlag
    /\ wpc' = "restart"
    /\ UNCHANGED <<is_started, workers, idx, handlers, pipe_open, pipe,
                   connection, writers, bounds, aside, mixed>>

(* offline_callback, net_disconnect, the delay; table and pipe survive.    *)
net_disconnect ==
    /\ wpc = "restart"
    /\ sock' = FALSE /\ link' = FALSE /\ subs' = {} /\ inbox' = <<>>
    /\ wpc' = "start"
    /\ UNCHANGED <<is_started, workers, isconnected, idx, handlers, pipe_open,
                   pipe, writers, bounds, aside, mixed>>

ClearedHandlersKept == handlers
ClearedHandlers == [i \in 1 .. Slots |-> NONE]

DeviceLeft == devices
DeviceDeleted == devices - 1

(* Everything is released.  A writer still waiting for room is left in a   *)
(* freed pipe: it comes back with an error or never.                       *)
net_disconnect_exit ==
    /\ wpc = "exit"
    /\ isconnected' = FALSE
    /\ sock' = FALSE /\ link' = FALSE /\ subs' = {} /\ inbox' = <<>>
    /\ pipe_open' = FALSE /\ pipe' = <<>> /\ devices' = DeviceDeleted
    /\ late' = FALSE
    /\ handlers' = ClearedHandlers
    /\ wpc' = "dead" /\ workers' = workers - 1
    /\ \E fate \in [OtherWriters -> {"idle", "lost"}] :
          wstate' = [w \in OtherWriters |->
                        IF wstate[w] = "writing" THEN fate[w] ELSE wstate[w]]
    /\ wrest' = [w \in OtherWriters |->
                     IF wstate[w] = "writing" THEN <<>> ELSE wrest[w]]
    /\ UNCHANGED <<is_started, idx, count, accepted, bounds, clearing, unopened,
                   sent, merged, junk, mixed>>

WorkerStep ==
    \/ mqtt_pipe_init \/ net_connect \/ MQTTConnect \/ MQTTSubscribe \/ WaitSuback
    \/ paho_mqtt_subscribe \/ Publish_Sync_Request \/ MQTT_cycle \/ LinkDead
    \/ Respond \/ SendPuback \/ ReadPipe \/ MQTTDisconnect \/ net_disconnect
    \/ net_disconnect_exit

----------------------------------------------------------------------------
client == <<is_started, workers, isconnected, wpc, idx, handlers, pipe_open>>
outside == <<connection, faults, pushes, aside>>

(* MQTTPublish by another thread: the test of isconnected and the message  *)
(* put together, then the write, which waits for room.                     *)
MQTTPublish(p) ==
    /\ wstate[p] = "idle" /\ count[p] < MaxMsgs
    /\ count' = [count EXCEPT ![p] = @ + 1]
    /\ \/ /\ isconnected
          /\ wstate' = [wstate EXCEPT ![p] = "checked"]
          /\ wrest' = [wrest EXCEPT ![p] = Record(p, count[p] + 1)]
       \/ /\ ~isconnected \/ NoMemory
          /\ UNCHANGED <<wstate, wrest>>
    /\ UNCHANGED <<client, pipe, outside, orders, accepted, mixed>>

(* pipe_fops_write.                                                        *)
Write(w) ==
    /\ \/ wstate[w] = "checked"
       \/ wstate[w] = "writing" /\ Len(pipe) < PipeRoom
    /\ IF ~pipe_open
       THEN /\ wstate' = [wstate EXCEPT ![w] = "idle"]
            /\ wrest' = [wrest EXCEPT ![w] = <<>>]
            /\ UNCHANGED <<pipe, accepted, mixed>>
       ELSE LET left == Rest(pipe, wrest[w], PipeRoom)
            IN  /\ PutInto(wrest[w])
                /\ wrest' = [wrest EXCEPT ![w] = left]
                /\ wstate' = [wstate EXCEPT ![w] = IF left = <<>> THEN "idle"
                                                              ELSE "writing"]
                /\ accepted' = IF left = <<>> /\ w \in Publishers
                               THEN accepted \union {<<w, count[w]>>} ELSE accepted
    /\ UNCHANGED <<client, outside, orders, count>>

(* The wakeup of a writer whose bytes the worker has read already: poll_do *)
(* finds nothing and does not sleep again (Spinning in module PipeSync).   *)
LateWakeup ==
    /\ late /\ late' = FALSE
    /\ wpc' = IF wpc \in Reselect /\ inbox = <<>> /\ pipe = <<>>
              THEN "spinning" ELSE wpc
    /\ UNCHANGED <<is_started, workers, isconnected, idx, handlers, pipe_open,
                   pipe, connection, writers, bounds, clearing, devices, unopened,
                   sent, merged, junk, mixed>>

----------------------------------------------------------------------------
(* The shell commands.  The client structure is not made for two workers:  *)
(* the model ends where a second one is started.                           *)
Order(command) ==
    /\ command \in Operator /\ wstate["shell"] = "idle" /\ clearing = 0
    /\ orders > 0 /\ orders' = orders - 1

mqtt_stop ==
    /\ Order("stop")
    /\ is_started' = FALSE
    /\ \/ /\ isconnected
          /\ wstate' = [wstate EXCEPT !["shell"] = "checked"]
          /\ wrest' = [wrest EXCEPT !["shell"] = Disconnect("shell")]
       \/ /\ ~isconnected \/ NoMemory
          /\ UNCHANGED <<wstate, wrest>>
    /\ UNCHANGED <<workers, isconnected, wpc, idx, handlers, pipe_open, pipe,
                   outside, count, accepted, mixed>>

(* The worker preempts the shell: is_started is set some time later.       *)
(* Without memory for the buffers the command gives up; a thread or mutex  *)
(* that could not be created goes unnoticed.                               *)
mqtt_start ==
    /\ Order("start") /\ ~is_started
    /\ isconnected' = FALSE
    /\ \/ /\ workers' = workers + 1
          /\ wpc' = IF workers = 0 THEN "pipe" ELSE wpc
          /\ wstate' = [wstate EXCEPT !["shell"] = "starting"]
       \/ /\ NoMemory /\ UNCHANGED <<workers, wpc>>
          /\ wstate' \in {wstate, [wstate EXCEPT !["shell"] = "starting"]}
    /\ UNCHANGED <<is_started, idx, handlers, pipe_open, pipe, outside, wrest,
                   count, accepted, mixed>>

Started ==
    /\ wstate["shell"] = "starting"
    /\ is_started' = TRUE
    /\ wstate' = [wstate EXCEPT !["shell"] = "idle"]
    /\ UNCHANGED <<workers, isconnected, wpc, idx, handlers, pipe_open, pipe,
                   outside, orders, wrest, count, accepted, mixed>>

(* paho_mqtt_unsubscribe compares only as many characters as were typed:   *)
(* a prefix empties the slot but unsubscribes nothing at the broker.  The  *)
(* packet is sent, which blocks, and then the slot is cleared.             *)
paho_mqtt_unsubscribe(i, exact) ==
    /\ Order("unsubscribe") /\ is_started
    /\ handlers[i] # NONE
    /\ \/ /\ sock /\ clearing' = i
          /\ subs' = IF link /\ exact THEN subs \ {handlers[i]} ELSE subs
          /\ link' = (link /\ wpc # "connect")
          /\ inbox' = IF link' THEN Append(inbox, "UNSUBACK") ELSE inbox
          /\ UNCHANGED isconnected
       \/ ~link /\ isconnected' = FALSE /\ UNCHANGED <<clearing, subs, link, inbox>>
    /\ UNCHANGED <<is_started, workers, wpc, idx, handlers, pipe_open, pipe, sock,
                   faults, pushes, late, devices, unopened, sent, merged, junk,
                   writers, mixed>>

ClearHandler ==
    /\ clearing # 0 /\ clearing' = 0
    /\ handlers' = [handlers EXCEPT ![clearing] = NONE]
    /\ UNCHANGED <<is_started, workers, isconnected, wpc, idx, pipe_open, pipe,
                   connection, writers, bounds, late, devices, unopened, sent,
                   merged, junk, mixed>>

----------------------------------------------------------------------------
(* External: the connection breaks, with or without what was under way,    *)
(* and the client is told or not; the broker pushes a message.             *)
Drop ==
    /\ link /\ faults > 0
    /\ link' = FALSE /\ faults' = faults - 1
    /\ inbox' \in {inbox, <<>>, Append(inbox, "FIN")}
    /\ UNCHANGED <<client, pipe, sock, subs, pushes, orders, aside, writers, mixed>>

Push ==
    /\ link /\ pushes > 0
    /\ \E t \in subs : inbox' = Append(inbox, t)
    /\ pushes' = pushes - 1
    /\ UNCHANGED <<client, pipe, sock, link, subs, faults, orders, aside,
                   writers, mixed>>

Network == Drop \/ Push

Others ==
    \/ \E p \in Publishers : MQTTPublish(p)
    \/ \E w \in OtherWriters : Write(w)
    \/ LateWakeup \/ mqtt_stop \/ mqtt_start \/ Started
    \/ \E i \in 1 .. Slots, exact \in BOOLEAN : paho_mqtt_unsubscribe(i, exact)
    \/ ClearHandler

(* A spinning worker leaves the processor to nobody.                       *)
Next ==
    /\ workers <= 1
    /\ WorkerStep \/ Network \/ (wpc # "spinning" /\ Others)

Spec == Init /\ [][Next]_vars

(* The worker has the highest priority of all application threads, and     *)
(* what it waits for comes or fails, but for the waits that its state      *)
(* shows: "stuck", "asleep" and "spinning".  A writer runs whenever the    *)
(* pipe has room for it and the worker does not spin.                      *)
FairSpec ==
    /\ Spec
    /\ WF_vars(workers <= 1 /\ WorkerStep)
    /\ \A w \in OtherWriters : WF_vars(workers <= 1 /\ wpc # "spinning" /\ Write(w))
    /\ WF_vars(workers <= 1 /\ wpc # "spinning" /\ Started)

----------------------------------------------------------------------------
(* Every variable has its type; the pipe never holds more than its room.   *)
TypeOK ==
    /\ is_started \in BOOLEAN /\ workers \in 0 .. 2 /\ isconnected \in BOOLEAN
    /\ wpc \in WorkerPC /\ idx \in Nat
    /\ handlers \in [1 .. Slots -> TopicSet \union {NONE}]
    /\ sock \in BOOLEAN /\ link \in BOOLEAN
    /\ subs \subseteq TopicSet /\ inbox \in Seq(Packets)
    /\ pipe_open \in BOOLEAN /\ pipe \in Seq(Cells(Writers, Nat))
    /\ Len(pipe) <= PipeRoom
    /\ wstate \in [OtherWriters -> WriterState]
    /\ wrest \in [OtherWriters -> Seq(Cells(Writers, Nat))]
    /\ count \in [Publishers -> Nat]
    /\ clearing \in 0 .. Slots /\ late \in BOOLEAN
    /\ devices \in Nat /\ unopened \in Nat
    /\ faults \in Nat /\ pushes \in Nat /\ orders \in Nat
    /\ accepted \subseteq Publishers \X Nat /\ sent \in Seq(Publishers \X Nat)
    /\ mixed \in BOOLEAN /\ merged \in BOOLEAN /\ junk \in BOOLEAN

Listening == wpc \in {"online", "sync", "respond", "puback"} \union Selecting

(* paho_mqtt_thread subscribes again after a reconnect (the session is     *)
(* clean): once it serves a working connection, the broker has every topic *)
(* of the table, whatever was lost, pushed or unsubscribed in between, but *)
(* for the one that the shell has unsubscribed and has still to clear.     *)
Resubscribed ==
    Listening /\ link =>
        \A i \in 1 .. Slots :
            handlers[i] # NONE /\ i # clearing => handlers[i] \in subs

(* The table holds no topic twice, so a command runs its callback once     *)
(* (deliverMessage calls every slot that matches).                         *)
NoTopicTwice ==
    \A i, j \in 1 .. Slots : i # j /\ handlers[i] = handlers[j] => handlers[i] = NONE

(* isconnected stands for an established session: publishers pass its test *)
(* only between a CONNACK and the next disconnect, on an open socket and   *)
(* with a pipe to write to.                                                *)
ConnectedMeansSession ==
    isconnected =>
        /\ sock /\ pipe_open
        /\ wpc \in {"resub", "suback", "online", "sync", "respond", "puback",
                    "stuck", "disconnect", "exit"} \union Selecting

(* A worker that has ended leaves nothing behind that a new one would      *)
(* find, and no pipe device but those that could not be opened: starts and *)
(* stops do not use up devices (net_disconnect_exit, mqtt_pipe_init).      *)
DeadMeansReleased ==
    wpc = "dead" =>
        /\ ~isconnected /\ ~sock /\ ~pipe_open /\ pipe = <<>>
        /\ devices = unopened
        /\ \A i \in 1 .. Slots : handlers[i] = NONE

(* The worker takes bytes for a record that are none only after a record   *)
(* that did not fit was split, or a command went next to a record.         *)
JunkNeedsMixing == junk => mixed

InPipe(m) ==
    \E i \in 1 .. Len(pipe) : pipe[i].from = m[1] /\ pipe[i].n = m[2]

(* A publish that reported success is sent, unless a connection was lost   *)
(* or the worker found more than one record in the pipe.                   *)
LossNeedsCause ==
    faults = MaxFaults /\ ~merged /\ ~junk /\ workers = 1 =>
        \A m \in accepted :
            InPipe(m) \/ \E i \in 1 .. Len(sent) : sent[i] = m

(* Messages of one publisher are sent in order and none is sent twice.     *)
SentInOrder ==
    \A i, j \in 1 .. Len(sent) :
        i < j /\ sent[i][1] = sent[j][1] => sent[i][2] < sent[j][2]

Online == wpc \in Reselect /\ isconnected /\ link /\ subs = TopicSet

(* paho_mqtt_thread: whatever connections are lost, in the end the worker  *)
(* serves a session with all topics, unless it waits for room in its own   *)
(* pipe, goes round in select, or missed its ping and was never told that  *)
(* the connection is gone.                                                 *)
ComesBack ==
    \/ <>[]Online
    \/ <>[](wpc \in {"stuck", "spinning"})
    \/ <>[](wpc = "asleep" /\ ~link)

(* pipe_fops_write wakes up: every writer that waits for room gets on, and *)
(* the worker drains the pipe again and again, unless it waits for room    *)
(* itself.                                                                 *)
PipeDrains == []<>(pipe = <<>>) \/ <>[](wpc = "stuck")

----------------------------------------------------------------------------
(* What the client is to its publishers.                                   *)
Service == INSTANCE PublishService WITH
    RecordSize <- Len(Record("worker", 0)),
    online <- isconnected,
    worker <- IF ~pipe_open THEN "none"
              ELSE IF wpc \in {"stuck", "spinning"} THEN wpc ELSE "up",
    level <- Len(pipe),
    call <- [p \in Publishers |-> wstate[p]],
    owed <- [p \in Publishers |-> Len(wrest[p])]

(* MQTTPublish, the pipe and the worker with all its reconnects are, for a *)
(* publisher, the service of module PublishService: nothing but a write    *)
(* and the worker's read moves data, only a publisher that waits for room  *)
(* can be lost, only the worker's own message makes it stuck, and only an  *)
(* empty pipe makes it spin.                                               *)
ServesPublishers == Service!ServiceSpec

(* ... and a worker whose session holds does get round to the pipe.        *)
KeepsServing == Service!Serves
=============================================================================
