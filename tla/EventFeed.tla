------------------------------ MODULE EventFeed ------------------------------
(***************************************************************************)
(* What the event bus promises a user's websockets: each has a mailbox of  *)
(* its own, is written the events of its mailbox in the order they were    *)
(* broadcast and once each, and misses an event only if its mailbox holds  *)
(* Cap events already.  Nobody's slowness costs another websocket.         *)
(***************************************************************************)
EXTENDS Integers, Sequences

CONSTANTS Sockets, Cap, MaxEvents

VARIABLES
    count,   \* events broadcast; an event is its number
    member,  \* the websockets that listen
    box,     \* the mailbox of each
    out      \* what each was written

vars == <<count, member, box, out>>

Init ==
    /\ count = 0 /\ member = {}
    /\ box = [w \in Sockets |-> <<>>]
    /\ out = [w \in Sockets |-> <<>>]

Join(w) ==
    /\ w \notin member
    /\ member' = member \cup {w}
    /\ UNCHANGED <<count, box, out>>

Leave(w) ==
    /\ w \in member
    /\ member' = member \ {w}
    /\ box' = [box EXCEPT ![w] = <<>>]
    /\ UNCHANGED <<count, out>>

\* A mailbox with room takes the event; one that is full may miss it.
Publish ==
    /\ count < MaxEvents
    /\ count' = count + 1
    /\ \E missed \in SUBSET {w \in member : Len(box[w]) >= Cap} :
        box' = [w \in Sockets |-> IF w \in member \ missed
                                  THEN Append(box[w], count + 1) ELSE box[w]]
    /\ UNCHANGED <<member, out>>

Write(w) ==
    /\ w \in member /\ box[w] # <<>>
    /\ out' = [out EXCEPT ![w] = Append(@, Head(box[w]))]
    /\ box' = [box EXCEPT ![w] = Tail(@)]
    /\ UNCHANGED <<count, member>>

Next == Publish \/ \E w \in Sockets : Join(w) \/ Leave(w) \/ Write(w)

Spec == Init /\ [][Next]_vars
=============================================================================
