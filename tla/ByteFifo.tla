------------------------------- MODULE ByteFifo -------------------------------
(***************************************************************************)
(* What a CircularBuffer promises (circular_buffer.h): a sequence of at    *)
(* most Capacity bytes that takes what there is room for at one end and    *)
(* hands it out in order at the other.                                     *)
(***************************************************************************)
EXTENDS Naturals, Sequences

CONSTANTS
    Bytes,
    Capacity,
    Longest    \* bound: bytes of one call

VARIABLES
    queue,
    result     \* of the last call: the bytes it was given, those it read, and their number

Least(a, b) == IF a < b THEN a ELSE b

Init == queue = <<>> /\ result = [given |-> <<>>, read |-> <<>>, count |-> 0]

Write(data) ==
    LET n == Least(Len(data), Capacity - Len(queue))
    IN  /\ queue' = queue \o SubSeq(data, 1, n)
        /\ result' = [given |-> data, read |-> <<>>, count |-> n]

Read(bytes) ==
    LET n == Least(bytes, Len(queue))
    IN  /\ queue' = SubSeq(queue, n + 1, Len(queue))
        /\ result' = [given |-> <<>>, read |-> SubSeq(queue, 1, n), count |-> n]

Next ==
    \/ \E n \in 0..Longest : \E data \in [1..n -> Bytes] : Write(data)
    \/ \E n \in 0..Longest : Read(n)

Spec == Init /\ [][Next]_<<queue, result>>
=============================================================================
