----------------------------- MODULE PipeProofs -----------------------------
(***************************************************************************)
(* Proofs about the publish pipe, for any number of writers, any size of   *)
(* the ring and any lengths: it implements a bounded queue of bytes, no    *)
(* wakeup of the worker or of a writer is lost, and a read that select     *)
(* allowed does not block.                                                 *)
(***************************************************************************)
EXTENDS PipeSync, RingBufferProofs

(* The mutex is held by the writer that is between its put and its unlock. *)
LockHeld == \A w \in Writers : pc[w] \in {"store", "unlock"} <=> lock = w

(* Only a put under way makes memory differ from the complete ring.        *)
TornOnlyInPut == (\A w \in Writers : pc[w] # "store") => ring = fifo

(* A writer that has put something has not been read before it unlocks.    *)
PutIsThere == (\E w \in Writers : pc[w] \in {"store", "unlock"}) => HasData

(* Who is in the loop of pipe_fops_write has bytes left.                   *)
BytesLeft ==
    \A w \in Writers :
        /\ stream[w] <= goal[w]
        /\ pc[w] \in {"lock", "wake", "wait", "asleep", "resumed"} => stream[w] < goal[w]

(* Every writer that sleeps is queued.                                     *)
QueuedSleep ==
    \A w \in Writers : pc[w] = "asleep" => \E i \in 1 .. Len(queue) : queue[i] = w

(* Who is queued sleeps, and is queued once.                               *)
QueueSleeps ==
    \A i \in 1 .. Len(queue) :
        /\ pc[queue[i]] = "asleep"
        /\ \A j \in 1 .. Len(queue) : queue[i] = queue[j] => i = j

(* A worker in poll_do has its node queued or has been triggered.          *)
NodeOrTriggered ==
    /\ worker \in {"poll", "sleep", "asleep", "late"} => node \/ triggered
    /\ worker = "asleep" => ~triggered

(* From the test of the ring to the end of the sleep.                      *)
WakeupComes ==
    worker \in {"sleep", "asleep"} /\ HasData =>
        \E w \in Writers : pc[w] \in {"store", "unlock", "wake", "last"}

ReadHasData == worker = "read" => HasData

(* A writer that sleeps, or will sleep because the flag is not set.        *)
RoomComes ==
    \A w \in Writers :
        pc[w] = "asleep" \/ (pc[w] \in {"wake", "wait"} /\ ~flag) =>
            HasData \/ \E v \in Writers : pc[v] \in {"lock", "resumed"}

IndInv ==
    /\ TypeOK /\ Consistent(ring)
    /\ LockHeld /\ TornOnlyInPut /\ PutIsThere /\ BytesLeft /\ QueuedSleep /\ QueueSleeps
    /\ NodeOrTriggered /\ WakeupComes /\ ReadHasData /\ ReadDoesNotBlock /\ RoomComes

----------------------------------------------------------------------------
(* A new pipe satisfies the invariant.                                     *)
LEMMA InitInv == Init => IndInv
<1> SUFFICES ASSUME Init PROVE IndInv
  OBVIOUS
<1>0. [i \in Slots |-> Blank] \in [Slots -> Memory] /\ 0 \in Slots
  BY SizeAssumption DEF Memory, Slots
<1>1. fifo \in Rings(Memory) /\ Consistent(fifo) /\ rt_ringbuffer_data_len(fifo) = 0
  BY <1>0 DEF Init, rt_ringbuffer_init, Rings, Consistent, rt_ringbuffer_data_len
<1>2. TypeOK
  <2>1. queue \in Seq(Writers) /\ readbuf \in Seq(Memory)
    BY EmptySeq DEF Init
  <2>2. ring \in Rings(Memory)
    BY <1>1 DEF Init
  <2> QED
    BY <1>1, <2>1, <2>2, SyncAssumption DEF Init, TypeOK, WorkerPC, WriterPC
<1>3. LockHeld
  BY SyncAssumption DEF Init, LockHeld
<1>4. BytesLeft
  BY DEF Init, BytesLeft
<1> QED
  BY <1>1, <1>2, <1>3, <1>4
     DEF Init, IndInv, TornOnlyInPut, PutIsThere, QueuedSleep, QueueSleeps, NodeOrTriggered,
         WakeupComes, ReadHasData, ReadDoesNotBlock, RoomComes, HasData

(* The steps of the worker that leave the pipe and its writers alone.      *)
LEMMA WorkerKeepsInv ==
    IndInv /\ (poll_add \/ poll_found \/ poll_empty \/ poll_timeout \/ poll_wait
                 \/ Timeout \/ MQTT_cycle \/ Continue \/ Arrive) => IndInv'
<1> SUFFICES ASSUME IndInv,
                    poll_add \/ poll_found \/ poll_empty \/ poll_timeout \/ poll_wait
                      \/ Timeout \/ MQTT_cycle \/ Continue \/ Arrive
             PROVE  IndInv'
  OBVIOUS
<1>1. CASE poll_add
  BY <1>1
     DEF poll_add, pipevars,
         IndInv,
         TypeOK, LockHeld, TornOnlyInPut, PutIsThere, BytesLeft, QueuedSleep, QueueSleeps,
         NodeOrTriggered, WakeupComes, ReadHasData, ReadDoesNotBlock, RoomComes, HasData, WorkerPC
<1>2. CASE poll_found
  BY <1>2
     DEF poll_found, Readable, pipevars,
         IndInv,
         TypeOK, LockHeld, TornOnlyInPut, PutIsThere, BytesLeft, QueuedSleep, QueueSleeps,
         NodeOrTriggered, WakeupComes, ReadHasData, ReadDoesNotBlock, RoomComes, HasData, WorkerPC
<1>3. CASE poll_empty
  BY <1>3
     DEF poll_empty, Readable, pipevars,
         IndInv,
         TypeOK, LockHeld, TornOnlyInPut, PutIsThere, BytesLeft, QueuedSleep, QueueSleeps,
         NodeOrTriggered, WakeupComes, ReadHasData, ReadDoesNotBlock, RoomComes, HasData, WorkerPC
<1>4. CASE poll_timeout
  BY <1>4
     DEF poll_timeout, Readable, pipevars,
         IndInv,
         TypeOK, LockHeld, TornOnlyInPut, PutIsThere, BytesLeft, QueuedSleep, QueueSleeps,
         NodeOrTriggered, WakeupComes, ReadHasData, ReadDoesNotBlock, RoomComes, HasData, WorkerPC
<1>5. CASE poll_wait
  BY <1>5
     DEF poll_wait, pipevars,
         IndInv,
         TypeOK, LockHeld, TornOnlyInPut, PutIsThere, BytesLeft, QueuedSleep, QueueSleeps,
         NodeOrTriggered, WakeupComes, ReadHasData, ReadDoesNotBlock, RoomComes, HasData, WorkerPC
<1>6. CASE Timeout
  BY <1>6
     DEF Timeout, pipevars,
         IndInv,
         TypeOK, LockHeld, TornOnlyInPut, PutIsThere, BytesLeft, QueuedSleep, QueueSleeps,
         NodeOrTriggered, WakeupComes, ReadHasData, ReadDoesNotBlock, RoomComes, HasData, WorkerPC
<1>7. CASE MQTT_cycle
  BY <1>7
     DEF MQTT_cycle, pipevars,
         IndInv,
         TypeOK, LockHeld, TornOnlyInPut, PutIsThere, BytesLeft, QueuedSleep, QueueSleeps,
         NodeOrTriggered, WakeupComes, ReadHasData, ReadDoesNotBlock, RoomComes, HasData, WorkerPC
<1>8. CASE Continue
  BY <1>8
     DEF Continue, pipevars,
         IndInv,
         TypeOK, LockHeld, TornOnlyInPut, PutIsThere, BytesLeft, QueuedSleep, QueueSleeps,
         NodeOrTriggered, WakeupComes, ReadHasData, ReadDoesNotBlock, RoomComes, HasData, WorkerPC
<1>9. CASE Arrive
  BY <1>9
     DEF Arrive, pipevars,
         IndInv,
         TypeOK, LockHeld, TornOnlyInPut, PutIsThere, BytesLeft, QueuedSleep, QueueSleeps,
         NodeOrTriggered, WakeupComes, ReadHasData, ReadDoesNotBlock, RoomComes, HasData, WorkerPC
<1> QED
  BY <1>1, <1>2, <1>3, <1>4, <1>5, <1>6, <1>7, <1>8, <1>9

----------------------------------------------------------------------------
(* What a writer hands to the ring.                                        *)
LEMMA DataType ==
    ASSUME TypeOK, BytesLeft, NEW w \in Writers
    PROVE  Data(w) \in Seq(Memory) /\ Len(Data(w)) = goal[w] - stream[w]
<1>1. goal[w] \in Nat /\ stream[w] \in Nat /\ stream[w] <= goal[w]
  BY DEF TypeOK, BytesLeft
<1>2. \A i \in 1 .. goal[w] - stream[w] : <<w, stream[w] + i>> \in Memory
  BY <1>1 DEF Memory, Byte
<1> QED
  BY <1>1, <1>2 DEF Data

(* A put of nothing changes nothing.                                       *)
LEMMA PutNothing ==
    ASSUME NEW rb \in Rings(Memory), NEW data \in Seq(Memory), PutLen(rb, data) = 0
    PROVE  rt_ringbuffer_put(rb, data) = rb
<1>1. /\ rb.write_index \in 0 .. Size - 1
      /\ rb.buffer \in [Slots -> Memory]
  BY DEF Rings, Slots
<1>2. Forward(rb.write_index, 0) = rb.write_index
  BY <1>1, SizeAssumption DEF Forward
<1>3. Mirror(rb.write_mirror, rb.write_index, 0) = rb.write_mirror
  BY <1>1, SizeAssumption DEF Mirror
<1>4. \A i \in Slots : ~(Distance(rb.write_index, i) < 0)
  BY <1>1, SizeAssumption DEF Distance, Slots
<1>5. [i \in Slots |-> IF Distance(rb.write_index, i) < 0
                        THEN data[Distance(rb.write_index, i) + 1]
                        ELSE rb.buffer[i]] = rb.buffer
  BY <1>1, <1>4
<1> QED
  BY <1>2, <1>3, <1>5 DEF rt_ringbuffer_put, Rings

(* A put of a writer with bytes left: the ring is well formed and has data *)
(* afterwards.                                                             *)
LEMMA PutFacts ==
    ASSUME IndInv, NEW w \in Writers, PutBytes(w)
    PROVE  /\ ring = fifo
           /\ Data(w) \in Seq(Memory)
           /\ ring' = rt_ringbuffer_put(ring, Data(w))
           /\ ring' \in Rings(Memory) /\ Consistent(ring')
           /\ fifo' \in Rings(Memory)
           /\ rt_ringbuffer_data_len(ring') # 0
           /\ PutLen(fifo, Data(w)) \in 0 .. goal[w] - stream[w]
<1>1. ring = fifo
  BY SyncAssumption DEF PutBytes, IndInv, LockHeld, TornOnlyInPut, TypeOK
<1>2. Data(w) \in Seq(Memory) /\ Len(Data(w)) = goal[w] - stream[w]
  BY DataType DEF IndInv
<1>3. goal[w] \in Nat /\ stream[w] \in Nat /\ stream[w] < goal[w]
  BY DEF PutBytes, IndInv, BytesLeft, TypeOK
<1>4. ring \in Rings(Memory) /\ Consistent(ring)
  BY DEF IndInv, TypeOK
<1>5. ring' = rt_ringbuffer_put(ring, Data(w)) /\ fifo' \in FirstStore(fifo, ring')
  BY <1>1 DEF PutBytes
<1>6. ring' \in Rings(Memory)
  BY <1>2, <1>4, <1>5, PutType
<1>7. /\ Consistent(ring')
      /\ rt_ringbuffer_data_len(ring') = rt_ringbuffer_data_len(ring) + PutLen(ring, Data(w))
  BY <1>2, <1>4, <1>5, PutDataLen
<1>8. fifo' \in Rings(Memory)
  BY <1>1, <1>4, <1>5, <1>6 DEF FirstStore, Rings
<1>9. /\ rt_ringbuffer_data_len(ring) \in 0 .. Size
      /\ PutLen(ring, Data(w)) \in 0 .. Len(Data(w))
      /\ PutLen(ring, Data(w)) = Len(Data(w))
            \/ PutLen(ring, Data(w)) = Size - rt_ringbuffer_data_len(ring)
  BY <1>2, <1>4, DataLenType, PutLenType
<1>10. rt_ringbuffer_data_len(ring') # 0
  BY <1>2, <1>3, <1>7, <1>9, SizeAssumption
<1> QED
  BY <1>1, <1>2, <1>5, <1>6, <1>7, <1>8, <1>9, <1>10

(* The put of pipe_fops_write keeps the invariant, also when the worker    *)
(* sees the ring between the two stores.                                   *)
LEMMA PutKeepsInv ==
    ASSUME IndInv, NEW w \in Writers, PutBytes(w)
    PROVE  IndInv'
<1>1. /\ ring' \in Rings(Memory) /\ Consistent(ring')
      /\ fifo' \in Rings(Memory) /\ HasData'
      /\ PutLen(fifo, Data(w)) \in 0 .. goal[w] - stream[w]
  BY PutFacts DEF HasData
<1> DEFINE n == PutLen(fifo, Data(w))
<1>2. /\ lock = "free" /\ lock' = w /\ pc[w] = "lock"
      /\ stream' = [stream EXCEPT ![w] = @ + n]
      /\ pc' = [pc EXCEPT ![w] = IF fifo' = ring' THEN "unlock" ELSE "store"]
      /\ UNCHANGED <<flag, queue, node, triggered, sock, events, worker, readbuf, goal>>
  BY DEF PutBytes
<1> HIDE DEF n
<1>3. goal[w] \in Nat /\ stream[w] \in Nat /\ n \in 0 .. goal[w] - stream[w]
  BY <1>1 DEF IndInv, TypeOK, n
<1>4. TypeOK'
  BY <1>1, <1>2, <1>3 DEF IndInv, TypeOK, WriterPC
<1>5. LockHeld'
  BY <1>2, SyncAssumption DEF IndInv, TypeOK, LockHeld
<1>6. TornOnlyInPut'
  BY <1>2 DEF IndInv, TypeOK, TornOnlyInPut
<1>7. BytesLeft'
  BY <1>2, <1>3 DEF IndInv, TypeOK, BytesLeft
<1>11. QueueSleeps'
  BY <1>2 DEF IndInv, TypeOK, QueueSleeps
<1>8. QueuedSleep' /\ NodeOrTriggered' /\ ReadDoesNotBlock' /\ RoomComes'
  BY <1>1, <1>2 DEF IndInv, TypeOK, QueuedSleep, NodeOrTriggered, ReadDoesNotBlock, RoomComes
<1>9. PutIsThere' /\ ReadHasData'
  BY <1>1 DEF PutIsThere, ReadHasData
<1>10. WakeupComes'
  BY <1>2 DEF IndInv, TypeOK, WakeupComes
<1> QED
  BY <1>1, <1>4, <1>5, <1>6, <1>7, <1>8, <1>9, <1>10, <1>11 DEF IndInv

(* The other steps of a writer.                                            *)
LEMMA WriterKeepsInv ==
    ASSUME IndInv, NEW w \in Writers,
           pipe_fops_write(w) \/ SecondStore(w) \/ Unlock(w) \/ WakeReader(w)
             \/ WaitForRoom(w) \/ Resumed(w)
    PROVE  IndInv'
<1>0. queue' = queue => QueueSleeps'
  <2>1. pc[w] # "asleep" /\ \E x : pc' = [pc EXCEPT ![w] = x]
    BY DEF pipe_fops_write, SecondStore, Unlock, WakeReader, WaitForRoom, Resumed
  <2>2. \A v \in Writers : pc[v] = "asleep" => pc'[v] = "asleep"
    BY <2>1 DEF IndInv, TypeOK
  <2>3. \A i \in 1 .. Len(queue) : queue[i] \in Writers
    BY ElementOfSeq DEF IndInv, TypeOK
  <2> QED
    BY <2>2, <2>3 DEF IndInv, QueueSleeps
<1>1. CASE pipe_fops_write(w)
  <2>1. PICK n \in 1 .. MaxLen : goal' = [goal EXCEPT ![w] = @ + n]
    BY <1>1 DEF pipe_fops_write
  <2>2. n \in Nat /\ n > 0
    BY <2>1, SyncAssumption
  <2>3. TypeOK' /\ BytesLeft'
    BY <1>1, <2>1, <2>2
       DEF pipe_fops_write, pipevars, IndInv, TypeOK, BytesLeft, WriterPC
  <2> QED
    BY <1>0, <1>1, <2>3
       DEF pipe_fops_write, pipevars, IndInv, TypeOK, LockHeld, TornOnlyInPut, PutIsThere,
           QueuedSleep, NodeOrTriggered, WakeupComes, ReadHasData, ReadDoesNotBlock,
           RoomComes, HasData
<1>2. CASE SecondStore(w)
  BY <1>0, <1>2, SyncAssumption
     DEF SecondStore, WorkerBlocked, pipevars, IndInv,
         TypeOK, LockHeld, TornOnlyInPut, PutIsThere, BytesLeft, QueuedSleep,
         NodeOrTriggered, WakeupComes, ReadHasData, ReadDoesNotBlock, RoomComes, HasData,
         WorkerPC, WriterPC
<1>3. CASE Unlock(w)
  BY <1>0, <1>3, SyncAssumption
     DEF Unlock, WorkerBlocked, pipevars, IndInv,
         TypeOK, LockHeld, TornOnlyInPut, PutIsThere, BytesLeft, QueuedSleep,
         NodeOrTriggered, WakeupComes, ReadHasData, ReadDoesNotBlock, RoomComes, HasData,
         WorkerPC, WriterPC
<1>4. CASE WakeReader(w)
  BY <1>0, <1>4, SyncAssumption
     DEF WakeReader, Wakes, WorkerBlocked, pipevars, IndInv,
         TypeOK, LockHeld, TornOnlyInPut, PutIsThere, BytesLeft, QueuedSleep,
         NodeOrTriggered, WakeupComes, ReadHasData, ReadDoesNotBlock, RoomComes, HasData,
         WorkerPC, WriterPC
<1>5. CASE WaitForRoom(w)
  <2>1. CASE flag
    <3>1. /\ pc[w] = "wait" /\ flag' = FALSE
          /\ pc' = [pc EXCEPT ![w] = "lock"]
          /\ UNCHANGED <<pipevars, lock, queue, node, triggered, sock, events, worker,
                         readbuf, goal>>
      BY <1>5, <2>1 DEF WaitForRoom, FlagSeen
    <3> QED
      BY <1>0, <3>1
         DEF pipevars, IndInv, TypeOK, LockHeld, TornOnlyInPut, PutIsThere, BytesLeft,
             QueuedSleep, NodeOrTriggered, WakeupComes, ReadHasData, ReadDoesNotBlock,
             RoomComes, HasData, WriterPC
  <2>2. CASE ~flag
    <3>1. /\ queue' = Append(queue, w) /\ pc[w] = "wait"
          /\ pc' = [pc EXCEPT ![w] = "asleep"]
          /\ UNCHANGED <<pipevars, lock, flag, node, triggered, sock, events, worker,
                         readbuf, goal>>
      BY <1>5, <2>2 DEF WaitForRoom, FlagSeen
    <3>2. queue \in Seq(Writers)
      BY DEF IndInv, TypeOK
    <3>3. /\ queue' \in Seq(Writers) /\ Len(queue') = Len(queue) + 1
          /\ queue'[Len(queue) + 1] = w
          /\ \A i \in 1 .. Len(queue) : queue'[i] = queue[i]
      BY <3>1, <3>2
    <3>4. QueuedSleep'
      <4>1. \A v \in Writers : pc'[v] = "asleep" /\ v # w => pc[v] = "asleep"
        BY <3>1 DEF IndInv, TypeOK
      <4>2. \A i \in 1 .. Len(queue) : i \in 1 .. Len(queue')
        BY <3>2, <3>3, LenProperties
      <4>3. Len(queue) + 1 \in 1 .. Len(queue')
        BY <3>2, <3>3, LenProperties
      <4> QED
        BY <3>3, <4>1, <4>2, <4>3 DEF IndInv, QueuedSleep
    <3>6. QueueSleeps'
      <4>1. \A i \in 1 .. Len(queue) : queue[i] # w /\ queue[i] \in Writers
        BY <3>1, <3>2 DEF IndInv, QueueSleeps
      <4>2. Len(queue) \in Nat
        BY <3>2, LenProperties
      <4>3. \A i \in 1 .. Len(queue') : i \in 1 .. Len(queue) \/ i = Len(queue) + 1
        BY <3>3, <4>2
      <4>4. \A i \in 1 .. Len(queue') : pc'[queue'[i]] = "asleep"
        BY <3>1, <3>3, <4>1, <4>3 DEF IndInv, TypeOK, QueueSleeps
      <4>5. \A i, j \in 1 .. Len(queue') : queue'[i] = queue'[j] => i = j
        BY <3>3, <4>1, <4>3 DEF IndInv, QueueSleeps
      <4> QED
        BY <4>4, <4>5 DEF QueueSleeps
    <3>5. TypeOK'
      BY <3>1, <3>3 DEF IndInv, TypeOK, pipevars, WriterPC
    <3> QED
      BY <3>1, <3>4, <3>5, <3>6, <2>2
         DEF pipevars, IndInv, TypeOK, LockHeld, TornOnlyInPut, PutIsThere, BytesLeft,
             NodeOrTriggered, WakeupComes, ReadHasData, ReadDoesNotBlock, RoomComes,
             HasData
  <2> QED
    BY <2>1, <2>2
<1>6. CASE Resumed(w)
  BY <1>0, <1>6, SyncAssumption
     DEF Resumed, WorkerBlocked, pipevars, IndInv,
         TypeOK, LockHeld, TornOnlyInPut, PutIsThere, BytesLeft, QueuedSleep,
         NodeOrTriggered, WakeupComes, ReadHasData, ReadDoesNotBlock, RoomComes, HasData,
         WorkerPC, WriterPC
<1> QED
  BY <1>1, <1>2, <1>3, <1>4, <1>5, <1>6

----------------------------------------------------------------------------
(* A read that the worker is allowed to start.                             *)
LEMMA ReadFacts ==
    ASSUME IndInv, pipe_fops_read
    PROVE  /\ ring = fifo
           /\ ring' = rt_ringbuffer_get(ring, ReadSize) /\ fifo' = ring'
           /\ readbuf' = Got(ring, ReadSize)
           /\ ring' \in Rings(Memory) /\ Consistent(ring')
           /\ readbuf' \in Seq(Memory)
           /\ worker' = "away"
<1>1. ring = fifo
  BY SyncAssumption DEF pipe_fops_read, IndInv, LockHeld, TornOnlyInPut, TypeOK
<1>2. ring \in Rings(Memory) /\ Consistent(ring) /\ HasData
  BY DEF pipe_fops_read, IndInv, TypeOK, ReadHasData
<1>3. /\ ring' = rt_ringbuffer_get(ring, ReadSize) /\ fifo' = ring'
      /\ readbuf' = Got(ring, ReadSize)
      /\ worker' = IF GetLen(ring, ReadSize) > 0 THEN "away" ELSE "blocked"
  BY <1>1 DEF pipe_fops_read
<1>4. ReadSize \in Nat /\ ReadSize # 0
  BY SyncAssumption
<1>5. ring' \in Rings(Memory) /\ Consistent(ring')
  BY <1>2, <1>3, <1>4, GetType
<1>6. GetLen(ring, ReadSize) \in Nat /\ GetLen(ring, ReadSize) # 0
      /\ GetLen(ring, ReadSize) \in 0 .. rt_ringbuffer_data_len(ring)
  BY <1>2, <1>4, GetLenType DEF HasData
<1>7. readbuf' \in Seq(Memory)
  <2>1. readbuf' = SubSeq(Contents(ring), 1, GetLen(ring, ReadSize))
    BY <1>2, <1>3, <1>4, GetTakesPrefix
  <2>2. Contents(ring) \in Seq(Memory) /\ Len(Contents(ring)) = rt_ringbuffer_data_len(ring)
    BY <1>2, ContentsType
  <2> QED
    BY <2>1, <2>2, <1>6, SubSeqProperties
<1> QED
  BY <1>1, <1>3, <1>5, <1>6, <1>7

(* pipe_fops_read finds bytes, takes them and wakes the first sleeper.      *)
LEMMA ReadKeepsInv ==
    ASSUME IndInv, pipe_fops_read
    PROVE  IndInv'
<1>1. /\ ring' \in Rings(Memory) /\ Consistent(ring') /\ fifo' = ring'
      /\ readbuf' \in Seq(Memory) /\ worker' = "away"
  BY ReadFacts
<1>2. /\ worker = "read" /\ lock = "free" /\ WakeAWriter
      /\ UNCHANGED <<lock, node, triggered, sock, events, goal, stream>>
  BY DEF pipe_fops_read
<1>3. queue \in Seq(Writers) /\ pc \in [Writers -> WriterPC]
  BY DEF IndInv, TypeOK
<1>4. CASE queue = <<>>
  <2>1. flag' = TRUE /\ queue' = queue /\ pc' = pc
    BY <1>2, <1>4 DEF WakeAWriter
  <2>2. \A w \in Writers : pc[w] # "asleep"
    BY <1>4 DEF IndInv, QueuedSleep
  <2>3. \A w \in Writers : pc[w] \notin {"store", "unlock"}
    BY <1>2, SyncAssumption DEF IndInv, LockHeld
  <2> QED
    BY <1>1, <1>2, <2>1, <2>2, <2>3
       DEF IndInv, TypeOK, LockHeld, TornOnlyInPut, PutIsThere, BytesLeft, QueuedSleep, QueueSleeps,
           NodeOrTriggered, WakeupComes, ReadHasData, ReadDoesNotBlock, RoomComes, WorkerPC
<1>5. CASE queue # <<>>
  <2>1. /\ flag' = TRUE /\ queue' = Tail(queue)
        /\ pc' = [pc EXCEPT ![Head(queue)] = "resumed"]
    BY <1>2, <1>5 DEF WakeAWriter
  <2>2. /\ Head(queue) \in Writers /\ Head(queue) = queue[1]
        /\ Tail(queue) \in Seq(Writers) /\ Len(Tail(queue)) = Len(queue) - 1
        /\ \A i \in 1 .. Len(queue) - 1 : Tail(queue)[i] = queue[i + 1]
    BY <1>3, <1>5, HeadTailProperties
  <2>3. \A w \in Writers : pc[w] \notin {"store", "unlock"}
    BY <1>2, SyncAssumption DEF IndInv, LockHeld
  <2>4. QueuedSleep'
    <3> SUFFICES ASSUME NEW w \in Writers, pc'[w] = "asleep"
                 PROVE  \E i \in 1 .. Len(queue') : queue'[i] = w
      BY DEF QueuedSleep
    <3>1. w # Head(queue) /\ pc[w] = "asleep"
      BY <2>1, <2>2, <1>3
    <3>2. PICK i \in 1 .. Len(queue) : queue[i] = w
      BY <3>1 DEF IndInv, QueuedSleep
    <3>3. i - 1 \in 1 .. Len(queue) - 1 /\ (i - 1) + 1 = i
      BY <3>1, <3>2, <2>2, <1>3, LenProperties
    <3>4. Tail(queue)[i - 1] = w
      BY <3>2, <3>3, <2>2
    <3> QED
      BY <3>3, <3>4, <2>1, <2>2
  <2>5. RoomComes'
    BY <2>1, <2>2, <1>3 DEF RoomComes
  <2>6. TypeOK'
    BY <1>1, <1>2, <2>1, <2>2 DEF IndInv, TypeOK, WorkerPC, WriterPC
  <2>7. BytesLeft'
    <3>1. 1 \in 1 .. Len(queue)
      BY <1>3, <1>5, LenProperties, EmptySeq
    <3>2. stream[Head(queue)] < goal[Head(queue)]
      BY <3>1, <2>2 DEF IndInv, QueueSleeps, BytesLeft
    <3> QED
      BY <1>2, <2>1, <2>2, <3>2 DEF IndInv, TypeOK, BytesLeft
  <2>8. QueueSleeps'
    <3>1. Len(queue) \in Nat /\ Len(queue) # 0 /\ Len(queue') = Len(queue) - 1
      BY <1>3, <1>5, <2>1, <2>2, LenProperties, EmptySeq
    <3>2. ASSUME NEW i \in 1 .. Len(queue')
          PROVE  i + 1 \in 1 .. Len(queue) /\ queue'[i] = queue[i + 1]
      BY <3>1, <2>1, <2>2
    <3>3. ASSUME NEW i \in 1 .. Len(queue')
          PROVE  pc'[queue'[i]] = "asleep"
      <4>1. i + 1 \in 1 .. Len(queue) /\ queue'[i] = queue[i + 1] /\ 1 \in 1 .. Len(queue)
            /\ i + 1 # 1
        BY <3>1, <3>2
      <4>2. queue[i + 1] # queue[1] /\ pc[queue[i + 1]] = "asleep"
        BY <4>1 DEF IndInv, QueueSleeps
      <4>3. queue[i + 1] \in Writers
        BY <4>1, <1>3, ElementOfSeq
      <4> QED
        BY <4>1, <4>2, <4>3, <2>1, <2>2, <1>3
    <3>4. ASSUME NEW i \in 1 .. Len(queue'), NEW j \in 1 .. Len(queue'), queue'[i] = queue'[j]
          PROVE  i = j
      <4>1. i + 1 \in 1 .. Len(queue) /\ j + 1 \in 1 .. Len(queue)
            /\ queue[i + 1] = queue[j + 1]
        BY <3>2, <3>4
      <4>2. i + 1 = j + 1
        BY <4>1 DEF IndInv, QueueSleeps
      <4> QED
        BY <4>2
    <3> QED
      BY <3>3, <3>4 DEF QueueSleeps
  <2> QED
    BY <1>1, <1>2, <2>1, <2>2, <2>3, <2>4, <2>5, <2>6, <2>7, <2>8
       DEF IndInv, TypeOK, LockHeld, TornOnlyInPut, PutIsThere,
           NodeOrTriggered, WakeupComes, ReadHasData, ReadDoesNotBlock
<1> QED
  BY <1>4, <1>5

----------------------------------------------------------------------------
(* Every step of worker, writers, timer and network keeps the invariant.   *)
LEMMA NextInv == IndInv /\ [Next]_vars => IndInv'
<1> SUFFICES ASSUME IndInv, [Next]_vars PROVE IndInv'
  OBVIOUS
<1>1. CASE UNCHANGED vars
  BY <1>1 DEF vars, pipevars, IndInv, TypeOK, LockHeld, TornOnlyInPut, PutIsThere,
       BytesLeft, QueuedSleep, QueueSleeps, NodeOrTriggered, WakeupComes, ReadHasData,
       ReadDoesNotBlock, RoomComes, HasData
<1>2. CASE WorkerStep \/ Timeout \/ Arrive
  BY <1>2, WorkerKeepsInv, ReadKeepsInv DEF WorkerStep
<1>3. CASE \E w \in Writers : pipe_fops_write(w) \/ WriterStep(w)
  BY <1>3, PutKeepsInv, WriterKeepsInv DEF WriterStep
<1> QED
  BY <1>1, <1>2, <1>3 DEF Next

(* The pipe of pipe.c with its mutex, wait queues and poll table keeps the *)
(* inductive invariant.                                                    *)
THEOREM PipeInvariant == Spec => []IndInv
BY InitInv, NextInv, PTL DEF Spec

(* Every variable of the pipe keeps its type.                              *)
THEOREM PipeTypeCorrect == Spec => []TypeOK
<1>1. IndInv => TypeOK
  BY DEF IndInv
<1> QED
  BY <1>1, PipeInvariant, PTL

(* No wakeup of the worker is lost between the unlocked test of the ring   *)
(* in pipe_fops_poll and the wakeup after the unlock in pipe_fops_write.   *)
THEOREM PipeNoLostWakeup == Spec => []NoLostWakeup
<1>1. IndInv => NoLostWakeup
  BY DEF IndInv, NoLostWakeup, WakeupComes, NodeOrTriggered
<1> QED
  BY <1>1, PipeInvariant, PTL

(* No writer sleeps in writer_queue with nobody left to wake it, although  *)
(* a read wakes only one of them.                                          *)
THEOREM PipeNoWriterForgotten == Spec => []NoWriterForgotten
<1>1. IndInv => NoWriterForgotten
  BY DEF IndInv, NoWriterForgotten, RoomComes
<1> QED
  BY <1>1, PipeInvariant, PTL

(* What select reports as readable can be read without blocking.           *)
THEOREM PipeReadDoesNotBlock == Spec => []ReadDoesNotBlock
<1>1. IndInv => ReadDoesNotBlock
  BY DEF IndInv
<1> QED
  BY <1>1, PipeInvariant, PTL

----------------------------------------------------------------------------
(* Steps that leave ring, stream and readbuf alone are stutters of the     *)
(* queue.                                                                  *)
abstract == <<Contents(ring), stream, readbuf>>

(* The put is a put of the byte queue.                                     *)
LEMMA PutIsPut ==
    ASSUME IndInv, NEW w \in Writers, PutBytes(w)
    PROVE  [Queue!Next]_abstract
<1> DEFINE n == PutLen(ring, Data(w))
<1>1. /\ Data(w) \in Seq(Memory) /\ ring' = rt_ringbuffer_put(ring, Data(w))
      /\ ring = fifo /\ n \in 0 .. goal[w] - stream[w]
  BY PutFacts
<1>2. ring \in Rings(Memory) /\ Consistent(ring)
  BY DEF IndInv, TypeOK
<1>3. stream' = [stream EXCEPT ![w] = @ + n] /\ readbuf' = readbuf
  BY <1>1 DEF PutBytes
<1>4. /\ goal[w] \in Nat /\ stream[w] \in Nat /\ stream \in [Writers -> Nat]
      /\ stream[w] <= goal[w]
  BY DEF IndInv, TypeOK, BytesLeft
<1>5. CASE n = 0
  <2>1. ring' = ring
    BY <1>1, <1>2, <1>5, PutNothing
  <2>2. stream' = stream
    BY <1>3, <1>4, <1>5
  <2> QED
    BY <2>1, <2>2, <1>3 DEF abstract
<1>6. CASE n # 0
  <2>1. Contents(ring') = Contents(ring) \o SubSeq(Data(w), 1, n)
    BY <1>1, <1>2, PutAppends
  <2>2. SubSeq(Data(w), 1, n) = Queue!Chunk(w, stream[w], n)
    <3>1. SubSeq(Data(w), 1, n) = [i \in 1 .. n |-> Data(w)[i]]
      BY <1>1, <1>4
    <3>2. \A i \in 1 .. n : Data(w)[i] = <<w, stream[w] + i>>
      BY <1>1, <1>4 DEF Data
    <3> QED
      BY <3>1, <3>2 DEF Queue!Chunk
  <2>3. n \in 1 .. Size /\ Len(Contents(ring)) + n <= Size
    BY <1>1, <1>2, <1>4, <1>6, PutLenType, DataLenType, ContentsType, SizeAssumption
  <2>4. Queue!Put(w, n)
    BY <2>1, <2>2, <2>3, <1>3 DEF Queue!Put
  <2> QED
    BY <2>3, <2>4 DEF Queue!Next
<1> QED
  BY <1>5, <1>6

(* The read is a take of the byte queue.                                   *)
LEMMA ReadIsTake ==
    ASSUME IndInv, pipe_fops_read
    PROVE  [Queue!Next]_abstract
<1> DEFINE n == GetLen(ring, ReadSize)
<1>1. /\ ring' = rt_ringbuffer_get(ring, ReadSize) /\ readbuf' = Got(ring, ReadSize)
  BY ReadFacts
<1>2. ring \in Rings(Memory) /\ Consistent(ring) /\ HasData
  BY DEF pipe_fops_read, IndInv, TypeOK, ReadHasData
<1>3. ReadSize \in Nat /\ ReadSize # 0
  BY SyncAssumption
<1>4. /\ readbuf' = SubSeq(Contents(ring), 1, n)
      /\ Contents(ring') = SubSeq(Contents(ring), n + 1, Len(Contents(ring)))
  BY <1>1, <1>2, <1>3, GetTakesPrefix
<1>5. n \in 1 .. Len(Contents(ring))
  BY <1>2, <1>3, GetLenType, ContentsType DEF HasData
<1>6. stream' = stream
  BY DEF pipe_fops_read
<1> QED
  BY <1>4, <1>5, <1>6 DEF Queue!Next, Queue!Take

(* The detailed pipe implements the bounded queue of bytes: torn stores,   *)
(* preemption and partial writes included.                                 *)
THEOREM PipeIsByteQueue == Spec => IsByteQueue
<1>1. Init => Queue!Init
  <2> SUFFICES ASSUME Init PROVE Queue!Init
    OBVIOUS
  <2>1. rt_ringbuffer_data_len(ring) = 0
    BY SizeAssumption DEF Init, rt_ringbuffer_init, rt_ringbuffer_data_len
  <2>2. Contents(ring) = <<>>
    BY <2>1 DEF Contents
  <2> QED
    BY <2>2 DEF Init, Queue!Init
<1>2. IndInv /\ [Next]_vars => [Queue!Next]_abstract
  <2> SUFFICES ASSUME IndInv, [Next]_vars PROVE [Queue!Next]_abstract
    OBVIOUS
  <2>1. CASE UNCHANGED vars
    BY <2>1 DEF vars, pipevars, abstract
  <2>2. CASE pipe_fops_read
    BY <2>2, ReadIsTake
  <2>3. CASE poll_add \/ poll_found \/ poll_empty \/ poll_timeout \/ poll_wait
               \/ MQTT_cycle \/ Continue \/ Timeout \/ Arrive
    BY <2>3 DEF poll_add, poll_found, poll_empty, poll_timeout, poll_wait, MQTT_cycle,
                Continue, Timeout, Arrive, pipevars, abstract
  <2>4. ASSUME NEW w \in Writers, PutBytes(w)
        PROVE  [Queue!Next]_abstract
    BY <2>4, PutIsPut
  <2>5. ASSUME NEW w \in Writers,
               pipe_fops_write(w) \/ SecondStore(w) \/ Unlock(w) \/ WakeReader(w)
                 \/ WaitForRoom(w) \/ Resumed(w)
        PROVE  [Queue!Next]_abstract
    BY <2>5 DEF pipe_fops_write, SecondStore, Unlock, WakeReader, WaitForRoom, Resumed,
                pipevars, abstract
  <2> QED
    BY <2>1, <2>2, <2>3, <2>4, <2>5 DEF Next, WorkerStep, WriterStep
<1>3. IsByteQueue <=> Queue!Init /\ [][Queue!Next]_abstract
  BY DEF IsByteQueue, Queue!Spec, abstract
<1> QED
  BY <1>1, <1>2, <1>3, PipeInvariant, PTL DEF Spec
=============================================================================
