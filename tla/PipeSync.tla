------------------------------ MODULE PipeSync ------------------------------
(***************************************************************************)
(* The publish pipe as its threads see it: pipe_fops_write called by the   *)
(* threads that publish, and the worker's loop of select and read          *)
(* (paho_mqtt_pipe.c), over the ring buffer, the mutex of the pipe, the    *)
(* wait queues of waitqueue.c and the poll table of poll.c.                *)
(*                                                                         *)
(* RT-Thread schedules by strict priority: the worker (priority 10) runs   *)
(* whenever it is ready, the publishers (15, 16, the shell 20) only while  *)
(* it is blocked.  It can become ready between any two steps of a          *)
(* publisher, when the network or a timer wakes it.                        *)
(***************************************************************************)
EXTENDS RingBuffer, FiniteSets

CONSTANTS
    Writers,      \* threads that publish
    ReadSize,     \* readbuf_size
    MaxLen,       \* bound: bytes of one write
    MaxBytes,     \* bound: bytes of one writer
    MaxEvents     \* bound: times the socket becomes readable

ASSUME SyncAssumption ==
    /\ ReadSize \in Nat \ {0} /\ MaxLen \in Nat \ {0}
    /\ MaxBytes \in Nat /\ MaxEvents \in Nat
    /\ "free" \notin Writers

VARIABLES
    fifo,       \* the ring buffer as it is in memory
    ring,       \* the ring buffer once the put under way is complete
    lock,       \* pipe->lock: its holder or "free"
    flag,       \* writer_queue.flag is RT_WQ_FLAG_WAKEUP
    queue,      \* writer_queue: the writers that sleep, in order
    node,       \* the worker's poll node is in reader_queue
    triggered,  \* poll table: triggered
    sock,       \* external: the socket is readable
    events,     \* bound: see MaxEvents
    worker,     \* where the worker is
    readbuf,    \* what its last read returned
    pc,         \* where each writer is in pipe_fops_write
    goal,       \* bytes each writer has been asked to write so far
    stream      \* bytes each writer has put so far

pipevars == <<fifo, ring, stream>>
vars == <<pipevars, lock, flag, queue, node, triggered, sock, events, worker,
          readbuf, pc, goal>>

WorkerPC == {"select", "poll", "sleep", "asleep", "late", "cycle", "read",
             "blocked", "away"}
WriterPC == {"idle", "lock", "store", "unlock", "wake", "last", "wait",
             "asleep", "resumed"}

Byte == Writers \X Nat
Blank == <<"free", 0>>
Memory == Byte \union {Blank}

Init ==
    /\ fifo = rt_ringbuffer_init([i \in Slots |-> Blank]) /\ ring = fifo
    /\ lock = "free" /\ flag = FALSE /\ queue = <<>>
    /\ node = FALSE /\ triggered = FALSE
    /\ sock = FALSE /\ events = MaxEvents
    /\ worker = "select" /\ readbuf = <<>>
    /\ pc = [w \in Writers |-> "idle"]
    /\ goal = [w \in Writers |-> 0] /\ stream = [w \in Writers |-> 0]

----------------------------------------------------------------------------
(* select: poll_do with the poll nodes, the test of both descriptors and   *)
(* poll_wait_timeout.                                                      *)

(* The first pass queues the worker's node before it looks at the ring.    *)
poll_add ==
    /\ worker = "select"
    /\ node' = TRUE /\ triggered' = FALSE
    /\ worker' = "poll"
    /\ UNCHANGED <<pipevars, lock, flag, queue, sock, events, readbuf, pc, goal>>

WakeupTrusted == sock \/ triggered
Readable == sock \/ rt_ringbuffer_data_len(fifo) # 0

(* do_pollfd without the pipe's lock, then poll_teardown; the socket is    *)
(* served first.  A pass after the timeout ends the call in any case: the  *)
(* worker pings.                                                           *)
poll_found ==
    /\ worker \in {"poll", "late"} /\ Readable
    /\ worker' = IF sock THEN "cycle" ELSE "read"
    /\ node' = FALSE
    /\ UNCHANGED <<pipevars, lock, flag, queue, triggered, sock, events,
                   readbuf, pc, goal>>

poll_empty ==
    /\ worker = "poll" /\ ~Readable
    /\ worker' = "sleep"
    /\ UNCHANGED <<pipevars, lock, flag, queue, node, triggered, sock, events,
                   readbuf, pc, goal>>

poll_timeout ==
    /\ worker = "late" /\ ~Readable
    /\ worker' = "away" /\ node' = FALSE
    /\ UNCHANGED <<pipevars, lock, flag, queue, triggered, sock, events,
                   readbuf, pc, goal>>

(* With interrupts off: no sleep once a wakeup has been seen.              *)
poll_wait ==
    /\ worker = "sleep"
    /\ worker' = IF triggered THEN "poll" ELSE "asleep"
    /\ UNCHANGED <<pipevars, lock, flag, queue, node, triggered, sock, events,
                   readbuf, pc, goal>>

(* The thread timer of poll_wait_timeout.                                  *)
Timeout ==
    /\ worker = "asleep"
    /\ worker' = "late"
    /\ UNCHANGED <<pipevars, lock, flag, queue, node, triggered, sock, events,
                   readbuf, pc, goal>>

----------------------------------------------------------------------------
(* MQTT_cycle takes the packet.                                            *)
MQTT_cycle ==
    /\ worker = "cycle"
    /\ sock' = FALSE /\ worker' = "away"
    /\ UNCHANGED <<pipevars, lock, flag, queue, node, triggered, events,
                   readbuf, pc, goal>>

(* rt_wqueue_wakeup(&writer_queue, POLLOUT): the flag, and the first       *)
(* sleeper only.                                                           *)
WakeNobody == flag' = TRUE /\ UNCHANGED <<queue, pc>>
WakeAWriter ==
    /\ flag' = TRUE
    /\ IF queue = <<>>
       THEN UNCHANGED <<queue, pc>>
       ELSE /\ queue' = Tail(queue)
            /\ pc' = [pc EXCEPT ![Head(queue)] = "resumed"]

(* pipe_fops_read.  The writers cannot run before the lock is released.    *)
(* Without data the worker would sleep in reader_queue.                    *)
pipe_fops_read ==
    /\ worker = "read" /\ lock = "free"
    /\ readbuf' = Got(fifo, ReadSize)
    /\ fifo' = rt_ringbuffer_get(fifo, ReadSize) /\ ring' = fifo'
    /\ WakeAWriter
    /\ worker' = IF GetLen(fifo, ReadSize) > 0 THEN "away" ELSE "blocked"
    /\ UNCHANGED <<lock, node, triggered, sock, events, goal, stream>>

(* The worker waits for the network: it handles a packet, pings or sends   *)
(* what it has read.                                                       *)
Continue ==
    /\ worker = "away"
    /\ worker' = "select"
    /\ UNCHANGED <<pipevars, lock, flag, queue, node, triggered, sock, events,
                   readbuf, pc, goal>>

(* External: a packet arrives (at_client's parser runs at priority 9).     *)
Arrive ==
    /\ events > 0 /\ ~sock
    /\ events' = events - 1
    /\ sock' = TRUE
    /\ triggered' = (triggered \/ worker \in {"poll", "sleep", "asleep", "late"})
    /\ worker' = IF worker = "asleep" THEN "poll" ELSE worker
    /\ UNCHANGED <<pipevars, lock, flag, queue, node, readbuf, pc, goal>>

----------------------------------------------------------------------------
(* pipe_fops_write by a thread that publishes.                             *)
WorkerBlocked ==
    \/ worker \in {"asleep", "away", "blocked"}
    \/ worker = "read" /\ lock # "free"

Data(w) == [i \in 1 .. goal[w] - stream[w] |-> <<w, stream[w] + i>>]

pipe_fops_write(w) ==
    /\ WorkerBlocked /\ pc[w] = "idle"
    /\ \E n \in 1 .. MaxLen : /\ goal[w] + n <= MaxBytes
                              /\ goal' = [goal EXCEPT ![w] = @ + n]
    /\ pc' = [pc EXCEPT ![w] = "lock"]
    /\ UNCHANGED <<pipevars, lock, flag, queue, node, triggered, sock, events,
                   worker, readbuf>>

(* rt_ringbuffer_put stores mirror and index one after the other, in an    *)
(* order the compiler may choose, or both at once.                         *)
FirstStore(old, new) ==
    {[new EXCEPT !.write_index = old.write_index],
     [new EXCEPT !.write_mirror = old.write_mirror],
     new}

PutBytes(w) ==
    /\ WorkerBlocked /\ pc[w] = "lock" /\ lock = "free"
    /\ lock' = w
    /\ ring' = rt_ringbuffer_put(fifo, Data(w))
    /\ fifo' \in FirstStore(fifo, ring')
    /\ stream' = [stream EXCEPT ![w] = @ + PutLen(fifo, Data(w))]
    /\ pc' = [pc EXCEPT ![w] = IF fifo' = ring' THEN "unlock" ELSE "store"]
    /\ UNCHANGED <<flag, queue, node, triggered, sock, events, worker, readbuf,
                   goal>>

SecondStore(w) ==
    /\ WorkerBlocked /\ pc[w] = "store"
    /\ fifo' = ring
    /\ pc' = [pc EXCEPT ![w] = "unlock"]
    /\ UNCHANGED <<ring, stream, lock, flag, queue, node, triggered, sock,
                   events, worker, readbuf, goal>>

Unlock(w) ==
    /\ WorkerBlocked /\ pc[w] = "unlock"
    /\ lock' = "free"
    /\ pc' = [pc EXCEPT ![w] = IF stream[w] = goal[w] THEN "last" ELSE "wake"]
    /\ UNCHANGED <<pipevars, flag, queue, node, triggered, sock, events, worker,
                   readbuf, goal>>

(* rt_wqueue_wakeup(&reader_queue, POLLIN): the poll node is taken off the *)
(* queue and its thread resumed.                                           *)
WakeForgotten(w) == FALSE
Wakes(w) == node

WakeReader(w) ==
    /\ WorkerBlocked /\ pc[w] \in {"wake", "last"}
    /\ node' = (node /\ ~Wakes(w))
    /\ triggered' = (triggered \/ Wakes(w))
    /\ worker' = IF Wakes(w) /\ worker = "asleep" THEN "poll" ELSE worker
    /\ pc' = [pc EXCEPT ![w] = IF @ = "last" THEN "idle" ELSE "wait"]
    /\ UNCHANGED <<pipevars, lock, flag, queue, sock, events, readbuf, goal>>

(* rt_wqueue_wait(&writer_queue, 0, -1) with interrupts off.               *)
FlagIgnored == FALSE
FlagSeen == flag

WaitForRoom(w) ==
    /\ WorkerBlocked /\ pc[w] = "wait"
    /\ IF FlagSeen
       THEN /\ flag' = FALSE /\ UNCHANGED queue
            /\ pc' = [pc EXCEPT ![w] = "lock"]
       ELSE /\ queue' = Append(queue, w) /\ UNCHANGED flag
            /\ pc' = [pc EXCEPT ![w] = "asleep"]
    /\ UNCHANGED <<pipevars, lock, node, triggered, sock, events, worker,
                   readbuf, goal>>

Resumed(w) ==
    /\ WorkerBlocked /\ pc[w] = "resumed"
    /\ flag' = FALSE
    /\ pc' = [pc EXCEPT ![w] = "lock"]
    /\ UNCHANGED <<pipevars, lock, queue, node, triggered, sock, events, worker,
                   readbuf, goal>>

----------------------------------------------------------------------------
WorkerStep ==
    \/ poll_add \/ poll_found \/ poll_empty \/ poll_timeout \/ poll_wait
    \/ MQTT_cycle \/ pipe_fops_read \/ Continue

WriterStep(w) ==
    \/ PutBytes(w) \/ SecondStore(w) \/ Unlock(w) \/ WakeReader(w)
    \/ WaitForRoom(w) \/ Resumed(w)

Next ==
    \/ WorkerStep \/ Timeout \/ Arrive
    \/ \E w \in Writers : pipe_fops_write(w) \/ WriterStep(w)

Spec == Init /\ [][Next]_vars

(* The scheduler runs the worker when it is ready, and the network answers *)
(* it.  It blocks for seconds at a time, so a writer that is ready again   *)
(* and again while it does gets on.  Nothing here rests on the timeout of  *)
(* select, which may be negative, and then is none (paho_mqtt_pipe.c:1070).*)
FairSpec ==
    /\ Spec
    /\ WF_vars(WorkerStep)
    /\ \A w \in Writers : SF_vars(WriterStep(w))

----------------------------------------------------------------------------
TypeOK ==
    /\ fifo \in Rings(Memory) /\ ring \in Rings(Memory)
    /\ lock \in Writers \union {"free"} /\ flag \in BOOLEAN
    /\ queue \in Seq(Writers)
    /\ node \in BOOLEAN /\ triggered \in BOOLEAN /\ sock \in BOOLEAN
    /\ events \in Nat /\ worker \in WorkerPC /\ readbuf \in Seq(Memory)
    /\ pc \in [Writers -> WriterPC]
    /\ goal \in [Writers -> Nat] /\ stream \in [Writers -> Nat]

HasData == rt_ringbuffer_data_len(ring) # 0

(* poll.c and pipe_fops_write: the worker sleeps on bytes in the ring only *)
(* while a writer is still on its way to wake it, although the test of the *)
(* ring takes no lock and the wakeup comes after the unlock.               *)
NoLostWakeup ==
    worker = "asleep" /\ HasData =>
        node /\ \E w \in Writers : pc[w] \in {"store", "unlock", "wake", "last"}

(* waitqueue.c wakes one writer per read: a writer that sleeps is behind   *)
(* bytes the worker has still to read, or behind a writer that is awake    *)
(* and has bytes to put.                                                   *)
NoWriterForgotten ==
    \A w \in Writers : pc[w] = "asleep" =>
        \/ HasData
        \/ \E v \in Writers : pc[v] \in {"lock", "resumed"}

(* select.c promises that the descriptors it returns can be read "without  *)
(* blocking": the worker never goes to sleep in pipe_fops_read.            *)
ReadDoesNotBlock == worker # "blocked"

Queue == INSTANCE ByteQueue WITH
             Room <- Size, q <- Contents(ring), taken <- readbuf

(* Whatever the interleaving, the pipe is a bounded queue of bytes.        *)
IsByteQueue == Queue!Spec

(* The worker goes round in poll_do without sleeping: a wakeup came when   *)
(* its cause was gone, and triggered is never reset.                       *)
Spinning == worker \in {"poll", "sleep"} /\ triggered /\ ~Readable

(* pipe_fops_write comes back, whatever room there is, unless the worker   *)
(* spins and takes the processor for itself.                               *)
WriteEnds ==
    \A w \in Writers : pc[w] # "idle" ~> pc[w] = "idle" \/ Spinning
=============================================================================
