----------------------------- MODULE UserEvents ------------------------------
(***************************************************************************)
(* The events of one user: connections of the user's nodes broadcast them  *)
(* on the user's topic of CoEventBus (coroutine_msgbus.py), and each of    *)
(* the user's websockets (NodesEventHandler, handlers.py) has a bounded    *)
(* queue on that topic and a coroutine, fetch_event, that empties it.      *)
(*                                                                         *)
(* A topic that is broadcast to without a queue is destroyed, and the next *)
(* listener makes a new one: `topics' has all there ever were, topicPool   *)
(* the one the bus knows.                                                  *)
(***************************************************************************)
EXTENDS Integers, Sequences, FiniteSets

CONSTANTS
    Sockets,    \* the user's websockets, each opened once
    maxsize,    \* of a queue; 10 in coroutine_msgbus.py:34
    MaxEvents   \* bound: events broadcast

ASSUME EventsAssumption ==
    /\ IsFiniteSet(Sockets)
    /\ maxsize \in Nat \ {0}
    /\ MaxEvents \in Nat

NoTopic == 0
Stop == 0        \* the None of delete_queue; an event is its number

VARIABLES
    count,      \* events broadcast
    phase,      \* the websocket itself
    connected,  \* self.connected
    topicPool,  \* the user's topic in CoEventBus.topic_pool, or NoTopic
    topics,     \* q_list of each topic: the websockets whose queues it has,
                \* each once; their order makes no difference
    topicOf,    \* self.event_listener, NoTopic before the token
    queue,      \* self.event_q
    fetch,      \* where fetch_event stands
    item,       \* what a get was resolved with
    sent        \* the events written to the websocket

vars == <<count, phase, connected, topicPool, topics, topicOf, queue, fetch,
          item, sent>>

Init ==
    /\ count = 0
    /\ phase = [w \in Sockets |-> "new"]
    /\ connected = [w \in Sockets |-> FALSE]
    /\ topicPool = NoTopic /\ topics = <<>>
    /\ topicOf = [w \in Sockets |-> NoTopic]
    /\ queue = [w \in Sockets |-> <<>>]
    /\ fetch = [w \in Sockets |-> "none"]
    /\ item = [w \in Sockets |-> Stop]
    /\ sent = [w \in Sockets |-> <<>>]

-----------------------------------------------------------------------------
(* The bus.                                                                *)

Registered(w) == topicOf[w] # NoTopic /\ w \in topics[topicOf[w]]

\* not Queue.full()
RoomForOneMore(w) == Len(queue[w]) <= maxsize
HasRoom(w) == Len(queue[w]) < maxsize

\* put_nowait of x on the queues of the websockets in to: a coroutine that
\* waits in get has it at once, a full queue raises QueueFull.
Put(to, x) ==
    /\ queue' = [w \in Sockets |->
            IF w \in to /\ fetch[w] # "getting" /\ HasRoom(w)
            THEN Append(queue[w], x) ELSE queue[w]]
    /\ item' = [w \in Sockets |->
            IF w \in to /\ fetch[w] = "getting" THEN x ELSE item[w]]
    /\ fetch' = [w \in Sockets |->
            IF w \in to /\ fetch[w] = "getting" THEN "got" ELSE fetch[w]]

\* CoEventBus.broadcast, by a connection of one of the user's nodes: a piece
\* of type event, a good hello, or kill_myself.  QueueFull is swallowed.
Broadcast ==
    /\ count < MaxEvents
    /\ count' = count + 1
    /\ \/ /\ topicPool = NoTopic
          /\ UNCHANGED <<topicPool, queue, fetch, item>>
       \/ /\ topicPool # NoTopic /\ topics[topicPool] = {}
          /\ topicPool' = NoTopic
          /\ UNCHANGED <<queue, fetch, item>>
       \/ /\ topicPool # NoTopic /\ topics[topicPool] # {}
          /\ Put(topics[topicPool], count + 1)
          /\ UNCHANGED topicPool
    /\ UNCHANGED <<phase, connected, topics, topicOf, sent>>

\* CoEventBus.listener, which makes the topic if the bus has none, and
\* EventTopic.create_queue.
ListenAnew(w) ==
    /\ topics' = Append(topics, {w})
    /\ topicPool' = Len(topics) + 1
    /\ topicOf' = [topicOf EXCEPT ![w] = topicPool']
Listen(w) ==
    /\ \/ /\ topicPool = NoTopic
          /\ topics' = Append(topics, {w})
          /\ topicPool' = Len(topics) + 1
       \/ /\ topicPool # NoTopic
          /\ topics' = [topics EXCEPT ![topicPool] = @ \cup {w}]
          /\ UNCHANGED topicPool
    /\ topicOf' = [topicOf EXCEPT ![w] = topicPool']

\* EventTopic.delete_queue: None for the coroutine, then the removal, which
\* QueueFull prevents.
DeleteSilently(w) ==
    /\ topics' = [topics EXCEPT ![topicOf[w]] = @ \ {w}]
    /\ UNCHANGED <<queue, fetch, item>>
StopOnly(w) == Put({w}, Stop) /\ UNCHANGED topics
DeleteQueue(w) ==
    \/ /\ HasRoom(w)
       /\ Put({w}, Stop)
       /\ topics' = [topics EXCEPT ![topicOf[w]] = @ \ {w}]
    \/ /\ ~HasRoom(w)
       /\ UNCHANGED <<queue, fetch, item, topics>>

-----------------------------------------------------------------------------
(* NodesEventHandler.                                                      *)

Open(w) ==
    /\ phase[w] = "new"
    /\ phase' = [phase EXCEPT ![w] = "open"]
    /\ connected' = [connected EXCEPT ![w] = TRUE]
    /\ UNCHANGED <<count, topicPool, topics, topicOf, queue, fetch, item, sent>>

\* No token for five seconds, or a bad one: the server begins the closing
\* handshake.  Only the bad token clears self.connected.
NoToken(w) ==
    /\ phase[w] = "open" /\ topicOf[w] = NoTopic
    /\ phase' = [phase EXCEPT ![w] = "closing"]
    /\ \/ connected' = [connected EXCEPT ![w] = FALSE]
       \/ UNCHANGED connected
    /\ UNCHANGED <<count, topicPool, topics, topicOf, queue, fetch, item, sent>>

\* The user's token: it may still arrive while the server is closing.
Token(w) ==
    /\ phase[w] \in {"open", "closing"} /\ topicOf[w] = NoTopic
    /\ Listen(w)
    /\ fetch' = [fetch EXCEPT ![w] = "start"]
    /\ UNCHANGED <<count, phase, connected, queue, item, sent>>

\* on_close: the client left, or the handshake is over.
Close(w) ==
    /\ phase[w] \in {"open", "closing"}
    /\ phase' = [phase EXCEPT ![w] = "closed"]
    /\ connected' = [connected EXCEPT ![w] = FALSE]
    /\ \/ topicOf[w] # NoTopic /\ DeleteQueue(w)
       \/ topicOf[w] = NoTopic /\ UNCHANGED <<topics, queue, fetch, item>>
    /\ UNCHANGED <<count, topicPool, topicOf, sent>>

\* Where fetch_event stands after an item: at the gen.moment of its loop.
AndEnd == "ended"
AndLoop == "moment"

\* write_message raises once the websocket is closing, and ends fetch_event.

WriteMessage(w, x) ==
    \/ /\ x = Stop
       /\ fetch' = [fetch EXCEPT ![w] = AndLoop]
       /\ UNCHANGED sent
    \/ /\ x # Stop /\ phase[w] = "open"
       /\ sent' = [sent EXCEPT ![w] = Append(@, x)]
       /\ fetch' = [fetch EXCEPT ![w] = AndLoop]
    \/ /\ x # Stop /\ phase[w] # "open"
       /\ fetch' = [fetch EXCEPT ![w] = "ended"]
       /\ UNCHANGED sent

\* while self.connected: an item that is there is taken and written at once.
Loop(w) ==
    \/ /\ ~connected[w]
       /\ fetch' = [fetch EXCEPT ![w] = "ended"]
       /\ UNCHANGED <<queue, sent>>
    \/ /\ connected[w] /\ queue[w] # <<>>
       /\ WriteMessage(w, Head(queue[w]))
       /\ queue' = [queue EXCEPT ![w] = Tail(@)]
    \/ /\ connected[w] /\ queue[w] = <<>>
       /\ fetch' = [fetch EXCEPT ![w] = "getting"]
       /\ UNCHANGED <<queue, sent>>

\* fetch_event runs: for the first time, with an item, or after gen.moment.
FetchEvent(w) ==
    /\ \/ fetch[w] \in {"start", "moment"} /\ Loop(w)
       \/ fetch[w] = "got" /\ WriteMessage(w, item[w]) /\ UNCHANGED queue
    /\ UNCHANGED <<count, phase, connected, topicPool, topics, topicOf, item>>

-----------------------------------------------------------------------------
Next ==
    \/ Broadcast
    \/ \E w \in Sockets :
        Open(w) \/ NoToken(w) \/ Token(w) \/ Close(w) \/ FetchEvent(w)

Spec == Init /\ [][Next]_vars

\* The IOLoop runs every coroutine that is ready.
FairSpec == Spec /\ \A w \in Sockets : WF_vars(FetchEvent(w))

-----------------------------------------------------------------------------
(* Correctness.                                                            *)

\* Every variable holds a value of its kind, and no queue exceeds maxsize.
TypeOK ==
    /\ count \in 0..MaxEvents
    /\ phase \in [Sockets -> {"new", "open", "closing", "closed"}]
    /\ connected \in [Sockets -> BOOLEAN]
    /\ topicPool \in 0..Len(topics) /\ topics \in Seq(SUBSET Sockets)
    /\ topicOf \in [Sockets -> 0..Len(topics)]
    /\ queue \in [Sockets -> Seq(0..count)]
    /\ \A w \in Sockets : Len(queue[w]) <= maxsize
    /\ fetch \in [Sockets -> {"none", "start", "getting", "got", "moment", "ended"}]
    /\ item \in [Sockets -> 0..count]
    /\ sent \in [Sockets -> Seq(1..count)]

\* The refinement mapping: what a listening websocket has not been written yet
\* is its item in hand and its queue.
Listening(w) == phase[w] = "open" /\ topicOf[w] # NoTopic
InHand(w) == IF fetch[w] = "got" THEN <<item[w]>> ELSE <<>>

Members == {w \in Sockets : Listening(w)}
Boxes ==
    [w \in Sockets |-> IF Listening(w) THEN InHand(w) \o queue[w] ELSE <<>>]

Feed == INSTANCE EventFeed WITH
    Cap <- maxsize, member <- Members, box <- Boxes, out <- sent

\* The bus with its pool of topics, which are destroyed and made again, its
\* queues and coroutines gives every websocket the feed EventFeed describes:
\* no event out of order or twice, none missed by a websocket whose queue has
\* room, and no open websocket on a topic the bus has forgotten.
ImplementsFeed == Feed!Spec

\* The queue of a closed websocket goes with it, unless it was full when
\* on_close tried to delete it: then it stays on the topic, full, for ever,
\* and keeps the topic from being destroyed.
DeadQueueIsFull ==
    \A w \in Sockets : phase[w] = "closed" /\ Registered(w) => Len(queue[w]) = maxsize

\* Queues keep to their size, and only a full one outlives its websocket.
QueueInv == TypeOK /\ DeadQueueIsFull

\* No fetch_event outlives its websocket waiting for an event.
FetcherEnds ==
    \A w \in Sockets :
        (phase[w] = "closed" /\ fetch[w] # "none") ~> (fetch[w] = "ended")

\* An event that found room is written, if the websocket stays open.
KeptIsWritten ==
    \A w \in Sockets :
        (Listening(w) /\ queue[w] # <<>>) ~> (queue[w] = <<>> \/ phase[w] = "closed")

\* A fetch_event writes what it has kept, and ends with its websocket.
WritesOrEnds == KeptIsWritten /\ FetcherEnds
=============================================================================
