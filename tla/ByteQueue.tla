----------------------------- MODULE ByteQueue ------------------------------
(***************************************************************************)
(* What the publish pipe promises, whatever its threads do: a bounded      *)
(* queue of bytes.  The bytes of one writer are numbered; a put appends    *)
(* the next bytes of one writer, a take removes bytes from the front and   *)
(* hands them to the reader.  Nothing is lost, doubled or reordered.       *)
(***************************************************************************)
EXTENDS Naturals, Sequences

CONSTANTS Writers, Room

VARIABLES
    q,        \* bytes in the queue
    stream,   \* number of bytes each writer has put so far
    taken     \* what the last take handed to the reader

Chunk(w, k, n) == [i \in 1 .. n |-> <<w, k + i>>]

Init ==
    /\ q = <<>> /\ taken = <<>>
    /\ stream = [w \in Writers |-> 0]

Put(w, n) ==
    /\ Len(q) + n <= Room
    /\ q' = q \o Chunk(w, stream[w], n)
    /\ stream' = [stream EXCEPT ![w] = @ + n]
    /\ UNCHANGED taken

Take(n) ==
    /\ taken' = SubSeq(q, 1, n)
    /\ q' = SubSeq(q, n + 1, Len(q))
    /\ UNCHANGED stream

Next ==
    \/ \E w \in Writers, n \in 1 .. Room : Put(w, n)
    \/ \E n \in 1 .. Len(q) : Take(n)

Spec == Init /\ [][Next]_<<q, stream, taken>>
=============================================================================
