---------------------------- MODULE CircularBuffer ----------------------------
(***************************************************************************)
(* The buffers between the network callbacks and the RPC server            *)
(* (circular_buffer.cpp): an array, two indices and a size; a piece that   *)
(* does not fit in front of the array's end is copied in two steps.        *)
(***************************************************************************)
EXTENDS Naturals, Sequences

CONSTANTS
    Bytes,
    Capacity,
    Longest    \* bound: bytes of one call

ASSUME CircularBufferAssumption == Capacity \in Nat \ {0} /\ Longest \in Nat /\ Bytes # {}

VARIABLES
    data,      \* data_
    beg,       \* beg_index_
    end,       \* end_index_
    size,      \* size_
    result     \* of the last call: the bytes it was given, those it read, and their number

ring == <<data, beg, end, size, result>>

Indices == 0..(Capacity - 1)

TypeOK ==
    /\ data \in [Indices -> Bytes]
    /\ beg \in Indices /\ end \in Indices /\ size \in 0..Capacity
    /\ result.given \in Seq(Bytes) /\ result.read \in Seq(Bytes) /\ result.count \in 0..Capacity

\* The array is not cleared.
BufferInit ==
    /\ data \in [Indices -> Bytes]
    /\ beg = 0 /\ end = 0 /\ size = 0
    /\ result = [given |-> <<>>, read |-> <<>>, count |-> 0]

Least(a, b) == IF a < b THEN a ELSE b

\* memcpy(data_ + at, bytes, n)
Copied(array, at, bytes, n) ==
    [i \in Indices |-> IF at <= i /\ i < at + n THEN bytes[i - at + 1] ELSE array[i]]

\* memcpy(bytes, data_ + at, n)
Taken(at, n) == [k \in 1..n |-> data[at + k - 1]]

\* An index that has come to the end of the array.
Around(i) == IF i = Capacity THEN 0 ELSE i

\* Mutant: the second step copies from the start of the piece again.
RestFromStart(bytes, first, n) == SubSeq(bytes, 1, n - first)

\* What the second step of a write copies.
Rest(bytes, first, n) == SubSeq(bytes, first + 1, n)

Write(bytes) ==
    LET n == Least(Len(bytes), Capacity - size)
        first == Capacity - end
    IN  /\ IF n <= first
           THEN /\ data' = Copied(data, end, bytes, n)
                /\ end' = Around(end + n)
           ELSE /\ data' = Copied(Copied(data, end, bytes, first), 0, Rest(bytes, first, n), n - first)
                /\ end' = n - first
        /\ size' = size + n
        /\ result' = [given |-> bytes, read |-> <<>>, count |-> n]
        /\ UNCHANGED beg

Read(bytes) ==
    LET n == Least(bytes, size)
        first == Capacity - beg
    IN  /\ IF n <= first
           THEN /\ result' = [given |-> <<>>, read |-> Taken(beg, n), count |-> n]
                /\ beg' = Around(beg + n)
           ELSE /\ result' = [given |-> <<>>, read |-> Taken(beg, first) \o Taken(0, n - first), count |-> n]
                /\ beg' = n - first
        /\ size' = size - n
        /\ UNCHANGED <<data, end>>

BufferNext ==
    \/ \E n \in 0..Longest : \E bytes \in [1..n -> Bytes] : Write(bytes)
    \/ \E n \in 0..Longest : Read(n)

BufferSpec == BufferInit /\ [][BufferNext]_ring

-----------------------------------------------------------------------------
(* The refinement.                                                          *)

\* What is in the buffer, from its oldest byte on.
Content == [k \in 1..size |-> data[(beg + k - 1) % Capacity]]

Fifo == INSTANCE ByteFifo WITH queue <- Content

\* The indices are the size apart.
Apart == end = (beg + size) % Capacity

\* The buffer is a FIFO: every call returns and leaves what the promised one would,
\* however the pieces lie around the end of the array.
IsFifo == Fifo!Spec
=============================================================================
