----------------------------- MODULE RingBuffer -----------------------------
(***************************************************************************)
(* The ring buffer of ringbuffer.c, the store of every pipe.  Each index   *)
(* has a mirror bit that flips when the index wraps: with equal indices    *)
(* the buffer is empty if the mirrors agree and full if they differ.       *)
(***************************************************************************)
EXTENDS Integers, Sequences

CONSTANT Size     \* buffer_size

ASSUME SizeAssumption == Size \in Nat \ {0}

Slots == 0 .. Size - 1

Rings(Byte) == [buffer : [Slots -> Byte],
                read_index : Slots, read_mirror : {0, 1},
                write_index : Slots, write_mirror : {0, 1}]

(* The write index is ahead of the read index, in its mirror or the other. *)
Consistent(rb) ==
    IF rb.read_mirror = rb.write_mirror THEN rb.read_index <= rb.write_index
                                        ELSE rb.write_index <= rb.read_index

(* rt_ringbuffer_init; the pool is as malloc returned it.                  *)
rt_ringbuffer_init(pool) ==
    [buffer |-> pool, read_index |-> 0, read_mirror |-> 0,
     write_index |-> 0, write_mirror |-> 0]

(* rt_ringbuffer_status and rt_ringbuffer_data_len.                        *)
rt_ringbuffer_data_len(rb) ==
    IF rb.read_index = rb.write_index
    THEN IF rb.read_mirror = rb.write_mirror THEN 0 ELSE Size
    ELSE IF rb.write_index > rb.read_index
         THEN rb.write_index - rb.read_index
         ELSE Size - (rb.read_index - rb.write_index)

rt_ringbuffer_space_len(rb) == Size - rt_ringbuffer_data_len(rb)

Smaller(a, b) == IF a < b THEN a ELSE b

(* The slot n places behind index, and how far slot i is behind it.        *)
Forward(index, n) == IF Size - index > n THEN index + n ELSE n - (Size - index)
Distance(index, i) == IF i >= index THEN i - index ELSE Size - index + i

(* An index that reaches the end of the buffer goes to the other mirror.   *)
MirrorKept(mirror, index, n) == mirror
Mirror(mirror, index, n) == IF Size - index > n THEN mirror ELSE 1 - mirror

(* rt_ringbuffer_put drops what does not fit; the caller is told how much  *)
(* went in.                                                                *)
PutLenUnbounded(rb, data) == Len(data)
PutLen(rb, data) == Smaller(Len(data), rt_ringbuffer_space_len(rb))

rt_ringbuffer_put(rb, data) ==
    LET length == PutLen(rb, data)
    IN  [buffer |-> [i \in Slots |->
                        IF Distance(rb.write_index, i) < length
                        THEN data[Distance(rb.write_index, i) + 1]
                        ELSE rb.buffer[i]],
         read_index |-> rb.read_index, read_mirror |-> rb.read_mirror,
         write_index |-> Forward(rb.write_index, length),
         write_mirror |-> Mirror(rb.write_mirror, rb.write_index, length)]

(* rt_ringbuffer_get: what is returned, and the ring that is left.         *)
GetLen(rb, count) == Smaller(count, rt_ringbuffer_data_len(rb))

Got(rb, count) ==
    [i \in 1 .. GetLen(rb, count) |-> rb.buffer[Forward(rb.read_index, i - 1)]]

rt_ringbuffer_get(rb, count) ==
    LET length == GetLen(rb, count)
    IN  [buffer |-> rb.buffer,
         read_index |-> Forward(rb.read_index, length),
         read_mirror |-> Mirror(rb.read_mirror, rb.read_index, length),
         write_index |-> rb.write_index, write_mirror |-> rb.write_mirror]

(* The bytes in the ring, oldest first: what a reader with a large enough  *)
(* buffer would get.                                                       *)
Contents(rb) ==
    [i \in 1 .. rt_ringbuffer_data_len(rb) |->
        rb.buffer[Forward(rb.read_index, i - 1)]]
=============================================================================
