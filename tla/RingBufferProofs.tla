-------------------------- MODULE RingBufferProofs --------------------------
(***************************************************************************)
(* The ring buffer of ringbuffer.c is a bounded sequence, for every size   *)
(* and every kind of byte: a put appends what fits, a get removes from the *)
(* front, whether or not an index wraps.                                   *)
(***************************************************************************)
EXTENDS RingBuffer, SequenceTheorems, TLAPS

(* rt_ringbuffer_data_len never exceeds the buffer.                        *)
LEMMA DataLenType ==
    ASSUME NEW Byte, NEW rb \in Rings(Byte)
    PROVE  rt_ringbuffer_data_len(rb) \in 0 .. Size
BY SizeAssumption DEF Rings, Slots, rt_ringbuffer_data_len

(* A put takes no more than it is given and no more than fits.             *)
LEMMA PutLenType ==
    ASSUME NEW Byte, NEW rb \in Rings(Byte), NEW data \in Seq(Byte)
    PROVE  /\ PutLen(rb, data) \in 0 .. Len(data)
           /\ PutLen(rb, data) <= Size - rt_ringbuffer_data_len(rb)
           /\ PutLen(rb, data) = Len(data)
                \/ PutLen(rb, data) = Size - rt_ringbuffer_data_len(rb)
<1>1. rt_ringbuffer_data_len(rb) \in 0 .. Size
  BY DataLenType
<1>2. Len(data) \in Nat
  BY LenProperties
<1> QED
  BY <1>1, <1>2, SizeAssumption DEF PutLen, Smaller, rt_ringbuffer_space_len

(* A put leaves a well-formed ring.                                        *)
LEMMA PutType ==
    ASSUME NEW Byte, NEW rb \in Rings(Byte), NEW data \in Seq(Byte)
    PROVE  rt_ringbuffer_put(rb, data) \in Rings(Byte)
<1> DEFINE n == PutLen(rb, data)
<1>1. n \in 0 .. Len(data) /\ n <= Size - rt_ringbuffer_data_len(rb)
  BY PutLenType
<1>2. n <= Size /\ n \in Nat
  BY <1>1, DataLenType, LenProperties, SizeAssumption
<1>3. /\ rb.write_index \in Slots /\ rb.write_mirror \in {0, 1}
      /\ rb.read_index \in Slots /\ rb.read_mirror \in {0, 1}
      /\ rb.buffer \in [Slots -> Byte]
  BY DEF Rings
<1>4. Forward(rb.write_index, n) \in Slots
  BY <1>2, <1>3, SizeAssumption DEF Forward, Slots
<1>5. Mirror(rb.write_mirror, rb.write_index, n) \in {0, 1}
  BY <1>3 DEF Mirror
<1>6. ASSUME NEW i \in Slots, Distance(rb.write_index, i) < n
      PROVE  data[Distance(rb.write_index, i) + 1] \in Byte
  <2>1. Distance(rb.write_index, i) \in Nat
    BY <1>3, SizeAssumption DEF Distance, Slots
  <2>2. Distance(rb.write_index, i) + 1 \in 1 .. Len(data)
    BY <2>1, <1>1, <1>6, LenProperties
  <2> QED
    BY <2>2, ElementOfSeq
<1>7. [i \in Slots |-> IF Distance(rb.write_index, i) < n
                       THEN data[Distance(rb.write_index, i) + 1]
                       ELSE rb.buffer[i]] \in [Slots -> Byte]
  BY <1>3, <1>6
<1> HIDE DEF n
<1> QED
  BY <1>3, <1>4, <1>5, <1>7 DEF Rings, rt_ringbuffer_put, n

(* The arithmetic of an index that moves forward by n, with the ring's     *)
(* fields as plain numbers.                                                *)
Length(r, rm, w, wm) ==
    IF r = w THEN IF rm = wm THEN 0 ELSE Size
    ELSE IF w > r THEN w - r ELSE Size - (r - w)

Ahead(r, rm, w, wm) == IF rm = wm THEN r <= w ELSE w <= r

(* The length of a consistent ring, by its mirrors.                        *)
LEMMA LengthOfRing ==
    ASSUME NEW rb
    PROVE  /\ rt_ringbuffer_data_len(rb)
                = Length(rb.read_index, rb.read_mirror, rb.write_index, rb.write_mirror)
           /\ Consistent(rb)
                <=> Ahead(rb.read_index, rb.read_mirror, rb.write_index, rb.write_mirror)
BY DEF rt_ringbuffer_data_len, Length, Consistent, Ahead

(* The write index moves: the length grows by as much.                     *)
LEMMA WriteArithmetic ==
    ASSUME NEW r \in 0 .. Size - 1, NEW w \in 0 .. Size - 1,
           NEW rm \in {0, 1}, NEW wm \in {0, 1}, Ahead(r, rm, w, wm),
           NEW n \in Nat, n <= Size - Length(r, rm, w, wm)
    PROVE  /\ Length(r, rm, Forward(w, n), Mirror(wm, w, n))
                = Length(r, rm, w, wm) + n
           /\ Ahead(r, rm, Forward(w, n), Mirror(wm, w, n))
<1>1. CASE Size - w > n
  BY <1>1, SizeAssumption DEF Length, Ahead, Forward, Mirror
<1>2. CASE ~(Size - w > n)
  BY <1>2, SizeAssumption DEF Length, Ahead, Forward, Mirror
<1> QED
  BY <1>1, <1>2

(* The read index moves: the length shrinks by as much.                    *)
LEMMA ReadArithmetic ==
    ASSUME NEW r \in 0 .. Size - 1, NEW w \in 0 .. Size - 1,
           NEW rm \in {0, 1}, NEW wm \in {0, 1}, Ahead(r, rm, w, wm),
           NEW n \in Nat, n <= Length(r, rm, w, wm)
    PROVE  /\ Length(Forward(r, n), Mirror(rm, r, n), w, wm)
                = Length(r, rm, w, wm) - n
           /\ Ahead(Forward(r, n), Mirror(rm, r, n), w, wm)
<1>1. CASE Size - r > n
  BY <1>1, SizeAssumption DEF Length, Ahead, Forward, Mirror
<1>2. CASE ~(Size - r > n)
  BY <1>2, SizeAssumption DEF Length, Ahead, Forward, Mirror
<1> QED
  BY <1>1, <1>2

(* The i-th byte lies before the write index, and a slot within the length *)
(* is not one the put writes to.                                           *)
LEMMA SlotArithmetic ==
    ASSUME NEW r \in 0 .. Size - 1, NEW w \in 0 .. Size - 1,
           NEW rm \in {0, 1}, NEW wm \in {0, 1}, Ahead(r, rm, w, wm),
           NEW n \in Nat, n <= Size - Length(r, rm, w, wm),
           NEW i \in 1 .. Length(r, rm, w, wm) + n
    PROVE  /\ Forward(r, i - 1) \in Slots
           /\ i <= Length(r, rm, w, wm) => Distance(w, Forward(r, i - 1)) >= n
           /\ i > Length(r, rm, w, wm) =>
                 Distance(w, Forward(r, i - 1)) = i - Length(r, rm, w, wm) - 1
<1>1. CASE Size - r > i - 1
  BY <1>1, SizeAssumption DEF Length, Ahead, Forward, Distance, Slots
<1>2. CASE ~(Size - r > i - 1)
  BY <1>2, SizeAssumption DEF Length, Ahead, Forward, Distance, Slots
<1> QED
  BY <1>1, <1>2

(* A put adds to the length what it took and keeps the indices in order.   *)
LEMMA PutDataLen ==
    ASSUME NEW Byte, NEW rb \in Rings(Byte), NEW data \in Seq(Byte), Consistent(rb)
    PROVE  /\ rt_ringbuffer_data_len(rt_ringbuffer_put(rb, data))
                = rt_ringbuffer_data_len(rb) + PutLen(rb, data)
           /\ Consistent(rt_ringbuffer_put(rb, data))
<1> DEFINE n == PutLen(rb, data)
<1>1. n \in Nat /\ n <= Size - rt_ringbuffer_data_len(rb)
  BY PutLenType, LenProperties
<1>2. /\ rb.write_index \in 0 .. Size - 1 /\ rb.write_mirror \in {0, 1}
      /\ rb.read_index \in 0 .. Size - 1 /\ rb.read_mirror \in {0, 1}
  BY DEF Rings, Slots
<1> DEFINE new == rt_ringbuffer_put(rb, data)
<1>3. /\ new.read_index = rb.read_index /\ new.read_mirror = rb.read_mirror
      /\ new.write_index = Forward(rb.write_index, n)
      /\ new.write_mirror = Mirror(rb.write_mirror, rb.write_index, n)
  BY DEF rt_ringbuffer_put
<1> HIDE DEF n, new
<1>4. rt_ringbuffer_data_len(new) = rt_ringbuffer_data_len(rb) + n /\ Consistent(new)
  BY <1>1, <1>2, <1>3, LengthOfRing, WriteArithmetic
<1> QED
  BY <1>4 DEF n, new

(* A put appends: the bytes that were there stay where they were, the new  *)
(* ones follow.                                                            *)
THEOREM PutAppends ==
    ASSUME NEW Byte, NEW rb \in Rings(Byte), NEW data \in Seq(Byte), Consistent(rb)
    PROVE  Contents(rt_ringbuffer_put(rb, data))
             = Contents(rb) \o SubSeq(data, 1, PutLen(rb, data))
<1> DEFINE n == PutLen(rb, data)
           d == rt_ringbuffer_data_len(rb)
           new == rt_ringbuffer_put(rb, data)
           add == SubSeq(data, 1, n)
<1>1. /\ n \in 0 .. Len(data) /\ n \in Nat /\ n <= Size - d
      /\ d \in 0 .. Size
  BY PutLenType, DataLenType, LenProperties
<1>2. rt_ringbuffer_data_len(new) = d + n
  BY PutDataLen
<1>3. /\ rb.write_index \in 0 .. Size - 1 /\ rb.write_mirror \in {0, 1}
      /\ rb.read_index \in 0 .. Size - 1 /\ rb.read_mirror \in {0, 1}
  BY DEF Rings, Slots
<1>4. /\ new.read_index = rb.read_index
      /\ \A i \in Slots : new.buffer[i] =
            IF Distance(rb.write_index, i) < n
            THEN data[Distance(rb.write_index, i) + 1] ELSE rb.buffer[i]
  BY DEF rt_ringbuffer_put
<1>5. add \in Seq(Byte) /\ Len(add) = n /\ \A i \in 1 .. n : add[i] = data[i]
  BY <1>1, LenProperties, SubSeqProperties
<1>6. Contents(rb) \in Seq(Byte) /\ Len(Contents(rb)) = d
  <2>1. \A i \in 1 .. d : Forward(rb.read_index, i - 1) \in Slots
    BY <1>1, <1>3, SizeAssumption DEF Forward, Slots
  <2>2. \A i \in 1 .. d : rb.buffer[Forward(rb.read_index, i - 1)] \in Byte
    BY <2>1 DEF Rings
  <2> QED
    BY <1>1, <2>2 DEF Contents
<1> HIDE DEF n, d, new, add
<1>7. ASSUME NEW i \in 1 .. d + n
      PROVE  new.buffer[Forward(rb.read_index, i - 1)]
               = (Contents(rb) \o add)[i]
  <2> DEFINE s == Forward(rb.read_index, i - 1)
  <2>4. /\ s \in Slots
        /\ i <= d => Distance(rb.write_index, s) >= n
        /\ i > d => Distance(rb.write_index, s) = i - d - 1
    <3> DEFINE r == rb.read_index  rm == rb.read_mirror
               w == rb.write_index wm == rb.write_mirror
    <3>1. d = Length(r, rm, w, wm) /\ Ahead(r, rm, w, wm)
      BY LengthOfRing DEF d
    <3>2. r \in 0 .. Size - 1 /\ w \in 0 .. Size - 1 /\ rm \in {0, 1} /\ wm \in {0, 1}
      BY <1>3
    <3>3. n \in Nat /\ n <= Size - Length(r, rm, w, wm)
          /\ i \in 1 .. Length(r, rm, w, wm) + n
      BY <1>1, <3>1
    <3> HIDE DEF r, rm, w, wm
    <3>4. /\ Forward(r, i - 1) \in Slots
          /\ i <= Length(r, rm, w, wm) => Distance(w, Forward(r, i - 1)) >= n
          /\ i > Length(r, rm, w, wm) =>
                Distance(w, Forward(r, i - 1)) = i - Length(r, rm, w, wm) - 1
      BY <3>1, <3>2, <3>3, SlotArithmetic
    <3> QED
      BY <3>1, <3>4 DEF r, w
  <2>1. s \in Slots
    BY <2>4
  <2>2. CASE i <= d
    <3>1. ~(Distance(rb.write_index, s) < n)
      BY <2>1, <2>2, <2>4, <1>1, <1>3, SizeAssumption DEF Distance, Slots
    <3>2. new.buffer[s] = rb.buffer[s]
      BY <2>1, <3>1, <1>4
    <3>3. (Contents(rb) \o add)[i] = Contents(rb)[i]
      BY <2>2, <1>1, <1>5, <1>6
    <3>4. Contents(rb)[i] = rb.buffer[s]
      BY <2>2, <1>1 DEF Contents, d
    <3> QED
      BY <3>2, <3>3, <3>4
  <2>3. CASE i > d
    <3>1. Distance(rb.write_index, s) = i - d - 1
      BY <2>3, <2>4
    <3>2. i - d - 1 < n /\ i - d - 1 + 1 = i - d /\ i - d \in 1 .. n
      BY <2>3, <1>1
    <3>3. new.buffer[s] = data[i - d]
      BY <2>1, <3>1, <3>2, <1>4
    <3>4. (Contents(rb) \o add)[i] = add[i - d]
      BY <2>3, <1>1, <1>5, <1>6
    <3> QED
      BY <3>2, <3>3, <3>4, <1>5
  <2>5. i <= d \/ i > d
    BY <1>1
  <2> QED
    BY <2>2, <2>3, <2>5
<1>8. Contents(new) = [i \in 1 .. d + n |->
                          new.buffer[Forward(rb.read_index, i - 1)]]
  BY <1>2, <1>4 DEF Contents
<1>9. Contents(rb) \o add = [i \in 1 .. d + n |-> (Contents(rb) \o add)[i]]
  <2>1. Contents(rb) \o add \in Seq(Byte) /\ Len(Contents(rb) \o add) = d + n
    BY <1>5, <1>6, ConcatProperties
  <2> QED
    BY <2>1, LenProperties
<1> QED
  BY <1>7, <1>8, <1>9 DEF n, new, add

----------------------------------------------------------------------------
(* The bytes of a ring are a sequence of its length.                       *)
LEMMA ContentsType ==
    ASSUME NEW Byte, NEW rb \in Rings(Byte)
    PROVE  /\ Contents(rb) \in Seq(Byte)
           /\ Len(Contents(rb)) = rt_ringbuffer_data_len(rb)
           /\ \A i \in 1 .. rt_ringbuffer_data_len(rb) :
                 Contents(rb)[i] = rb.buffer[Forward(rb.read_index, i - 1)]
<1> DEFINE d == rt_ringbuffer_data_len(rb)
<1>1. d \in 0 .. Size /\ rb.read_index \in 0 .. Size - 1
  BY DataLenType DEF Rings, Slots
<1>2. \A i \in 1 .. d : Forward(rb.read_index, i - 1) \in Slots
  BY <1>1, SizeAssumption DEF Forward, Slots
<1>3. \A i \in 1 .. d : rb.buffer[Forward(rb.read_index, i - 1)] \in Byte
  BY <1>2 DEF Rings
<1> QED
  BY <1>1, <1>3 DEF Contents

(* A get returns no more than it is asked for and no more than there is.   *)
LEMMA GetLenType ==
    ASSUME NEW Byte, NEW rb \in Rings(Byte), NEW count \in Nat
    PROVE  /\ GetLen(rb, count) \in 0 .. rt_ringbuffer_data_len(rb)
           /\ GetLen(rb, count) \in Nat /\ GetLen(rb, count) <= Size
           /\ count # 0 /\ rt_ringbuffer_data_len(rb) # 0 => GetLen(rb, count) # 0
<1>1. rt_ringbuffer_data_len(rb) \in 0 .. Size
  BY DataLenType
<1> QED
  BY <1>1, SizeAssumption DEF GetLen, Smaller

(* A get leaves a well-formed ring that is shorter by what was returned.   *)
LEMMA GetType ==
    ASSUME NEW Byte, NEW rb \in Rings(Byte), NEW count \in Nat, Consistent(rb)
    PROVE  /\ rt_ringbuffer_get(rb, count) \in Rings(Byte)
           /\ Consistent(rt_ringbuffer_get(rb, count))
           /\ rt_ringbuffer_data_len(rt_ringbuffer_get(rb, count))
                = rt_ringbuffer_data_len(rb) - GetLen(rb, count)
<1> DEFINE n == GetLen(rb, count)
           new == rt_ringbuffer_get(rb, count)
<1>1. n \in Nat /\ n <= rt_ringbuffer_data_len(rb) /\ n <= Size
  BY GetLenType, DataLenType
<1>2. /\ rb.write_index \in 0 .. Size - 1 /\ rb.write_mirror \in {0, 1}
      /\ rb.read_index \in 0 .. Size - 1 /\ rb.read_mirror \in {0, 1}
      /\ rb.buffer \in [Slots -> Byte]
  BY DEF Rings, Slots
<1>3. /\ new.read_index = Forward(rb.read_index, n)
      /\ new.read_mirror = Mirror(rb.read_mirror, rb.read_index, n)
      /\ new.write_index = rb.write_index /\ new.write_mirror = rb.write_mirror
  BY DEF rt_ringbuffer_get
<1>4. Forward(rb.read_index, n) \in Slots
  BY <1>1, <1>2, SizeAssumption DEF Forward, Slots
<1>5. Mirror(rb.read_mirror, rb.read_index, n) \in {0, 1}
  BY <1>2 DEF Mirror
<1>6. new \in Rings(Byte)
  BY <1>2, <1>4, <1>5 DEF Rings, rt_ringbuffer_get, Slots
<1> HIDE DEF n, new
<1>7. rt_ringbuffer_data_len(new) = rt_ringbuffer_data_len(rb) - n /\ Consistent(new)
  BY <1>1, <1>2, <1>3, LengthOfRing, ReadArithmetic
<1> QED
  BY <1>6, <1>7 DEF n, new

(* Moving twice is moving by the sum.                                      *)
LEMMA ForwardTwice ==
    ASSUME NEW r \in 0 .. Size - 1, NEW n \in Nat, NEW m \in Nat, n + m < Size
    PROVE  Forward(Forward(r, n), m) = Forward(r, n + m)
BY SizeAssumption DEF Forward

(* A get takes from the front: what it returns and what is left are the    *)
(* bytes of the ring in their order.                                       *)
THEOREM GetTakesPrefix ==
    ASSUME NEW Byte, NEW rb \in Rings(Byte), NEW count \in Nat, Consistent(rb)
    PROVE  LET n == GetLen(rb, count)
           IN  /\ Got(rb, count) = SubSeq(Contents(rb), 1, n)
               /\ Contents(rt_ringbuffer_get(rb, count))
                    = SubSeq(Contents(rb), n + 1, Len(Contents(rb)))
<1> DEFINE n == GetLen(rb, count)
           d == rt_ringbuffer_data_len(rb)
           new == rt_ringbuffer_get(rb, count)
           c == Contents(rb)
<1>1. n \in Nat /\ d \in Nat /\ n <= d /\ d <= Size
  BY GetLenType, DataLenType, SizeAssumption
<1>2. /\ c \in Seq(Byte) /\ Len(c) = d
      /\ \A i \in 1 .. d : c[i] = rb.buffer[Forward(rb.read_index, i - 1)]
  BY ContentsType
<1>3. new \in Rings(Byte) /\ rt_ringbuffer_data_len(new) = d - n
  BY GetType
<1>4. new.buffer = rb.buffer /\ new.read_index = Forward(rb.read_index, n)
  BY DEF rt_ringbuffer_get
<1>5. rb.read_index \in 0 .. Size - 1
  BY DEF Rings, Slots
<1>6. Got(rb, count) = [i \in 1 .. n |-> rb.buffer[Forward(rb.read_index, i - 1)]]
  BY DEF Got
<1>7. Contents(new) = [i \in 1 .. d - n |->
                          rb.buffer[Forward(Forward(rb.read_index, n), i - 1)]]
  BY <1>3, <1>4 DEF Contents
<1> HIDE DEF n, d, new, c
<1>8. Got(rb, count) = SubSeq(c, 1, n)
  <2>1. SubSeq(c, 1, n) = [i \in 1 .. n |-> c[i]]
    BY <1>1, <1>2
  <2>2. \A i \in 1 .. n : c[i] = rb.buffer[Forward(rb.read_index, i - 1)]
    BY <1>1, <1>2
  <2> QED
    BY <2>1, <2>2, <1>6
<1>9. Contents(new) = SubSeq(c, n + 1, d)
  <2>1. SubSeq(c, n + 1, d) = [i \in 1 .. d - n |-> c[i + n]]
    BY <1>1, <1>2
  <2>2. ASSUME NEW i \in 1 .. d - n
        PROVE  c[i + n] = rb.buffer[Forward(Forward(rb.read_index, n), i - 1)]
    <3>1. i + n \in 1 .. d /\ i - 1 \in Nat /\ n + (i - 1) < Size
          /\ n + (i - 1) = (i + n) - 1
      BY <1>1, SizeAssumption
    <3>2. Forward(Forward(rb.read_index, n), i - 1) = Forward(rb.read_index, (i + n) - 1)
      BY <3>1, <1>1, <1>5, ForwardTwice
    <3> QED
      BY <3>1, <3>2, <1>2
  <2> QED
    BY <2>1, <2>2, <1>7
<1> QED
  BY <1>2, <1>8, <1>9 DEF n, d, new, c
=============================================================================
