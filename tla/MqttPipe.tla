------------------------------ MODULE MqttPipe ------------------------------
(***************************************************************************)
(* The publish pipe between the threads that publish and the MQTT worker:  *)
(* the ring buffer of pipe.c, the records paho_mqtt_pipe.c writes into it  *)
(* and how the worker takes them out again.                                *)
(*                                                                         *)
(* The pipe is a byte stream: it keeps no record boundaries.  Bytes are    *)
(* modelled as cells: a published message is a head (the MQTTMessage       *)
(* structure and what follows it) and a tail (the rest of the payload and  *)
(* the topic), the command "DISCONNECT" is one cell.  A cell records who   *)
(* wrote it and which of the writer's messages it belongs to.              *)
(***************************************************************************)
EXTENDS Naturals, Sequences

(* [MQTTMessage] + [payload] + [topic] + '\0'                              *)
Record(w, k) == <<[from |-> w, n |-> k, part |-> "head"],
                  [from |-> w, n |-> k, part |-> "tail"]>>

(* MQTT_CMD writes the bare string.                                        *)
Disconnect(w) == <<[from |-> w, n |-> 0, part |-> "cmd"]>>

Cells(W, K) == [from : W, n : K, part : {"head", "tail", "cmd"}]

Least(a, b) == IF a < b THEN a ELSE b

(* rt_ringbuffer_put: as much of the data as there is room for.            *)
TakenAll(pipe, data, room) == Len(data)
Taken(pipe, data, room) == Least(Len(data), room - Len(pipe))
Put(pipe, data, room) == pipe \o SubSeq(data, 1, Taken(pipe, data, room))
RestForgotten(pipe, data, room) == <<>>
Rest(pipe, data, room) == SubSeq(data, Taken(pipe, data, room) + 1, Len(data))

----------------------------------------------------------------------------
(* The worker reads up to readbuf_size (1024) bytes of at most PIPE_BUFSZ  *)
(* (512) and looks at the first record only.                               *)
LeftUnconsumed(data) == data
LeftOfShortRead(data) == SubSeq(data, 2, Len(data))
LeftAfterRead(data) == <<>>

IsMessage(data) ==
    /\ Len(data) >= 2
    /\ data[1].part = "head" /\ data[2].part = "tail"
    /\ data[1].from = data[2].from /\ data[1].n = data[2].n

(* Shorter than an MQTTMessage and equal to "DISCONNECT".                  *)
IsDisconnect(data) == Len(data) = 1 /\ data[1].part = "cmd"

(* Two writers' bytes in one read: everything after the first record is    *)
(* thrown away with the read buffer.                                       *)
IsMerged(data) ==
    Len(data) > (IF data # <<>> /\ data[1].part = "cmd" THEN 1 ELSE 2)
=============================================================================
