-------------------------- MODULE UserEventsProofs --------------------------
(***************************************************************************)
(* Proofs about UserEvents, for any number of websockets and any size of   *)
(* their queues: the invariant of the queues, and that the bus with its    *)
(* topics, queues and coroutines implements EventFeed, step by step.       *)
(***************************************************************************)
EXTENDS UserEvents, SequenceTheorems, TLAPS

\* A websocket without a topic has nothing queued and no fetch_event; a closed
\* one is not connected.
PhaseOK ==
    \A w \in Sockets :
        /\ phase[w] = "new" => topicOf[w] = NoTopic
        /\ topicOf[w] = NoTopic => queue[w] = <<>> /\ fetch[w] = "none"
        /\ phase[w] = "closed" => ~connected[w]

\* A coroutine waits for an event only if none is queued.
WaitOK == \A w \in Sockets : fetch[w] = "getting" => queue[w] = <<>>

\* The topic of an open websocket is the one the bus knows, and lists it; no
\* topic lists the websocket of another.
ListedOK ==
    /\ \A w \in Sockets :
          Listening(w) => topicOf[w] = topicPool /\ w \in topics[topicPool]
    /\ \A t \in 1..Len(topics) : \A w \in topics[t] : topicOf[w] = t

\* The None of delete_queue is not seen before the websocket is closed.
StopOK ==
    \A w \in Sockets : phase[w] # "closed" =>
        /\ \A i \in 1..Len(queue[w]) : queue[w][i] # Stop
        /\ fetch[w] = "got" => item[w] # Stop

IInv == TypeOK /\ DeadQueueIsFull /\ PhaseOK /\ WaitOK /\ ListedOK /\ StopOK

-----------------------------------------------------------------------------
(* Queues.                                                                 *)

\* A longer queue: one entry at its end.
LEMMA Appended ==
    ASSUME NEW S, NEW q \in Seq(S), NEW e \in S
    PROVE  /\ Append(q, e) \in Seq(S) /\ Len(q) \in Nat
           /\ Len(Append(q, e)) = Len(q) + 1
           /\ \A i \in 1..Len(q) : Append(q, e)[i] = q[i]
           /\ Append(q, e)[Len(q) + 1] = e
OBVIOUS

\* A shorter queue: without its head.
LEMMA HeadTail ==
    ASSUME NEW S, NEW q \in Seq(S), q # <<>>
    PROVE  /\ Head(q) \in S /\ Tail(q) \in Seq(S) /\ Len(q) \in Nat
           /\ 1 \in 1..Len(q) /\ Head(q) = q[1]
           /\ Len(Tail(q)) = Len(q) - 1
           /\ \A i \in 1..Len(Tail(q)) : Tail(q)[i] = q[i + 1] /\ i + 1 \in 1..Len(q)
OBVIOUS

\* One entry of a sequence changed.
LEMMA EntryChanged ==
    ASSUME NEW S, NEW q \in Seq(S), NEW i \in 1..Len(q), NEW e \in S
    PROVE  /\ [q EXCEPT ![i] = e] \in Seq(S) /\ Len([q EXCEPT ![i] = e]) = Len(q)
           /\ \A t \in 1..Len(q) : [q EXCEPT ![i] = e][t] = IF t = i THEN e ELSE q[t]
<1>1. q \in [1..Len(q) -> S] /\ Len(q) \in Nat
  OBVIOUS
<1>2. [q EXCEPT ![i] = e] \in [1..Len(q) -> S]
  BY <1>1
<1> QED
  BY <1>1, <1>2

\* A longer range of events holds the queues of a shorter one.
LEMMA WiderSeq ==
    ASSUME NEW m \in Nat, NEW n \in Nat, m <= n, NEW q \in Seq(0..m)
    PROVE  q \in Seq(0..n)
OBVIOUS

\* What is in hand in front of the queue: the queue itself if nothing is, and
\* otherwise the item and then the queue.
LEMMA HandAndQueue ==
    ASSUME NEW S, NEW q \in Seq(S), NEW x \in S
    PROVE  /\ <<>> \o q = q
           /\ Head(<<x>> \o q) = x /\ Tail(<<x>> \o q) = q /\ <<x>> \o q # <<>>
           /\ \A e \in S : <<x>> \o Append(q, e) = Append(<<x>> \o q, e)
           /\ Len(<<x>> \o q) = Len(q) + 1
OBVIOUS

\* What Put does to the queue of w: w waits and has x at once, or x is queued
\* if there is room, or w misses it.
PutOn(w, x) ==
    \/ /\ fetch[w] = "getting" /\ fetch'[w] = "got" /\ item'[w] = x
       /\ queue'[w] = queue[w]
    \/ /\ fetch[w] # "getting" /\ HasRoom(w) /\ queue'[w] = Append(queue[w], x)
       /\ fetch'[w] = fetch[w] /\ item'[w] = item[w]
    \/ /\ fetch[w] # "getting" /\ ~HasRoom(w) /\ queue'[w] = queue[w]
       /\ fetch'[w] = fetch[w] /\ item'[w] = item[w]

\* Put of x, when n events have been broadcast: the queues keep to their size,
\* and those it is not meant for are left alone.
LEMMA PutDoes ==
    ASSUME TypeOK, NEW to \in SUBSET Sockets, NEW n \in Nat, count <= n,
           NEW x \in 0..n, Put(to, x)
    PROVE  /\ queue' \in [Sockets -> Seq(0..n)] /\ item' \in [Sockets -> 0..n]
           /\ \A w \in Sockets : Len(queue'[w]) <= maxsize
           /\ fetch' \in [Sockets -> {"none", "start", "getting", "got", "moment", "ended"}]
           /\ \A w \in to : PutOn(w, x)
           /\ \A w \in Sockets \ to :
                 queue'[w] = queue[w] /\ fetch'[w] = fetch[w] /\ item'[w] = item[w]
<1>1. /\ count \in Nat /\ queue \in [Sockets -> Seq(0..count)]
      /\ item \in [Sockets -> 0..count] /\ maxsize \in Nat
      /\ \A w \in Sockets : Len(queue[w]) <= maxsize
      /\ fetch \in [Sockets -> {"none", "start", "getting", "got", "moment", "ended"}]
  BY EventsAssumption DEF TypeOK
<1>2. \A w \in Sockets : queue[w] \in Seq(0..n)
  BY <1>1, WiderSeq
<1>3. \A w \in Sockets : /\ Append(queue[w], x) \in Seq(0..n)
                         /\ Len(Append(queue[w], x)) = Len(queue[w]) + 1
                         /\ Len(queue[w]) \in Nat
  BY <1>2, Appended
<1>4. queue' \in [Sockets -> Seq(0..n)]
  BY <1>2, <1>3 DEF Put
<1>5. ASSUME NEW w \in Sockets PROVE Len(queue'[w]) <= maxsize
  <2>1. CASE queue'[w] = queue[w]
    BY <1>1, <2>1
  <2>2. CASE queue'[w] = Append(queue[w], x) /\ HasRoom(w)
    BY <1>1, <1>3, <2>2 DEF HasRoom
  <2> QED
    BY <2>1, <2>2 DEF Put
<1>6. item' \in [Sockets -> 0..n]
  BY <1>1 DEF Put
<1>7. fetch' \in [Sockets -> {"none", "start", "getting", "got", "moment", "ended"}]
  BY <1>1 DEF Put
<1>8. \A w \in to : PutOn(w, x)
  BY DEF Put, PutOn
<1>9. \A w \in Sockets \ to :
          queue'[w] = queue[w] /\ fetch'[w] = fetch[w] /\ item'[w] = item[w]
  BY DEF Put
<1> QED
  BY <1>4, <1>5, <1>6, <1>7, <1>8, <1>9

-----------------------------------------------------------------------------
(* The bus.                                                                *)

\* A broadcast is EventFeed's Publish: every open websocket is on the topic the
\* bus knows, and the ones that miss the event have maxsize of them queued.
LEMMA BroadcastKeeps ==
    ASSUME IInv, Broadcast
    PROVE  IInv' /\ Feed!Publish
<1> USE DEF IInv
<1>1. /\ TypeOK /\ count \in Nat /\ count < MaxEvents /\ count' = count + 1
      /\ UNCHANGED <<phase, connected, topics, topicOf, sent>>
      /\ maxsize \in Nat \ {0} /\ MaxEvents \in Nat
  BY EventsAssumption DEF Broadcast, TypeOK
<1> DEFINE to == IF topicPool = NoTopic THEN {} ELSE topics[topicPool]
<1>2. to \in SUBSET Sockets
  BY <1>1 DEF TypeOK, NoTopic
<1>3. \A w \in to : topicOf[w] # NoTopic
  BY <1>1 DEF TypeOK, ListedOK, NoTopic
<1>4. /\ queue' \in [Sockets -> Seq(0..(count + 1))] /\ item' \in [Sockets -> 0..(count + 1)]
      /\ \A w \in Sockets : Len(queue'[w]) <= maxsize
      /\ fetch' \in [Sockets -> {"none", "start", "getting", "got", "moment", "ended"}]
      /\ \A w \in to : PutOn(w, count + 1)
      /\ \A w \in Sockets \ to :
            queue'[w] = queue[w] /\ fetch'[w] = fetch[w] /\ item'[w] = item[w]
  <2>1. CASE to = {} /\ UNCHANGED <<queue, fetch, item>>
    <3>1. \A w \in Sockets : queue[w] \in Seq(0..(count + 1))
      BY <1>1, WiderSeq DEF TypeOK
    <3> QED
      BY <1>1, <2>1, <3>1 DEF TypeOK
  <2>2. CASE Put(to, count + 1)
    <3>1. count + 1 \in Nat /\ count <= count + 1 /\ count + 1 \in 0..(count + 1)
      BY <1>1
    <3> HIDE DEF to
    <3> QED
      BY <1>1, <1>2, <2>2, <3>1, PutDoes
  <2> QED
    BY <2>1, <2>2 DEF Broadcast, NoTopic
<1>5. topicPool' \in {topicPool, NoTopic} /\ (topicPool' # topicPool => to = {})
  BY DEF Broadcast
<1>6. TypeOK'
  <2>1. sent' \in [Sockets -> Seq(1..count')]
    BY <1>1 DEF TypeOK
  <2>2. topicPool' \in 0..Len(topics')
    BY <1>1, <1>5 DEF TypeOK, NoTopic
  <2> QED
    BY <1>1, <1>4, <2>1, <2>2 DEF TypeOK
<1>7. \A w \in Sockets : Listening(w) => w \in to
  BY DEF ListedOK, Listening, NoTopic
<1>8. DeadQueueIsFull'
  <2> SUFFICES ASSUME NEW w \in Sockets, phase[w] = "closed", Registered(w)
               PROVE  Len(queue'[w]) = maxsize
    BY <1>1 DEF DeadQueueIsFull, Registered
  <2>1. Len(queue[w]) = maxsize
    BY DEF DeadQueueIsFull
  <2>2. queue'[w] = queue[w]
    BY <1>1, <1>4, <2>1 DEF PutOn, HasRoom
  <2> QED
    BY <2>1, <2>2
<1>9. PhaseOK'
  BY <1>1, <1>4, <1>3 DEF PhaseOK
<1>10. WaitOK'
  BY <1>4 DEF WaitOK, PutOn
<1>11. ListedOK'
  <2>1. \A w \in Sockets : Listening(w)' => topicPool' = topicPool
    BY <1>1, <1>5, <1>7 DEF Listening
  <2> QED
    BY <1>1, <2>1 DEF ListedOK, Listening
<1>12. StopOK'
  <2> SUFFICES ASSUME NEW w \in Sockets, phase[w] # "closed"
               PROVE  /\ \A i \in 1..Len(queue'[w]) : queue'[w][i] # Stop
                      /\ fetch'[w] = "got" => item'[w] # Stop
    BY <1>1 DEF StopOK
  <2>1. CASE queue'[w] = queue[w] /\ fetch'[w] = fetch[w] /\ item'[w] = item[w]
    BY <2>1 DEF StopOK
  <2>2. CASE fetch'[w] = "got" /\ item'[w] = count + 1 /\ queue'[w] = queue[w]
    BY <1>1, <2>2 DEF StopOK, Stop
  <2>3. CASE /\ queue'[w] = Append(queue[w], count + 1)
             /\ fetch'[w] = fetch[w] /\ item'[w] = item[w]
    <3>1. count + 1 \in Nat /\ queue[w] \in Seq(Nat)
      BY <1>1 DEF TypeOK
    <3>2. /\ Len(queue'[w]) = Len(queue[w]) + 1 /\ Len(queue[w]) \in Nat
          /\ \A i \in 1..Len(queue[w]) : queue'[w][i] = queue[w][i]
          /\ queue'[w][Len(queue[w]) + 1] = count + 1
      BY <2>3, <3>1, Appended
    <3>3. \A i \in 1..Len(queue[w]) : queue[w][i] # Stop
      BY DEF StopOK
    <3>4. \A i \in 1..Len(queue'[w]) : queue'[w][i] # Stop
      <4>1. ASSUME NEW i \in 1..Len(queue'[w]) PROVE queue'[w][i] # Stop
        <5>1. i \in 1..Len(queue[w]) \/ i = Len(queue[w]) + 1
          BY <3>2
        <5>2. count + 1 # Stop
          BY <1>1 DEF Stop
        <5> QED
          BY <3>2, <3>3, <5>1, <5>2
      <4> QED
        BY <4>1
    <3> QED
      BY <2>3, <3>4 DEF StopOK
  <2> QED
    BY <1>4, <2>1, <2>2, <2>3 DEF PutOn
<1>13. Members' = Members
  BY <1>1 DEF Members, Listening
<1> DEFINE missed == {w \in Members : fetch[w] # "getting" /\ ~HasRoom(w)}
<1>14. missed \subseteq {w \in Members : Len(Boxes[w]) >= maxsize}
  <2> SUFFICES ASSUME NEW w \in Members, fetch[w] # "getting", ~HasRoom(w)
               PROVE  Len(Boxes[w]) >= maxsize
    OBVIOUS
  <2>1. /\ w \in Sockets /\ Boxes[w] = InHand(w) \o queue[w]
        /\ queue[w] \in Seq(0..count) /\ item[w] \in 0..count
        /\ Len(queue[w]) \in Nat /\ Len(queue[w]) >= maxsize
    BY <1>1 DEF Members, Boxes, TypeOK, HasRoom
  <2>2. CASE fetch[w] = "got"
    <3>1. InHand(w) = <<item[w]>>
      BY <2>2 DEF InHand
    <3>2. Len(<<item[w]>> \o queue[w]) = Len(queue[w]) + 1
      BY <2>1, HandAndQueue
    <3> QED
      BY <1>1, <2>1, <3>1, <3>2
  <2>3. CASE fetch[w] # "got"
    <3>1. InHand(w) \o queue[w] = queue[w]
      BY <2>1, <2>3, HandAndQueue DEF InHand
    <3> QED
      BY <2>1, <3>1
  <2> QED
    BY <2>2, <2>3
<1>15. ASSUME NEW w \in Sockets
       PROVE  Boxes'[w] = IF w \in Members \ missed
                          THEN Append(Boxes[w], count + 1) ELSE Boxes[w]
  <2>1. CASE w \notin Members
    BY <1>13, <2>1 DEF Members, Boxes, Listening
  <2>2. CASE w \in Members
    <3>1. /\ Boxes[w] = InHand(w) \o queue[w] /\ Boxes'[w] = InHand(w)' \o queue'[w]
          /\ PutOn(w, count + 1)
      BY <1>1, <1>4, <1>7, <1>13, <2>2 DEF Members, Boxes, Listening
    <3>2. /\ queue[w] \in Seq(0..(count + 1)) /\ item[w] \in 0..(count + 1)
          /\ count + 1 \in 0..(count + 1)
      BY <1>1, WiderSeq DEF TypeOK
    <3>3. CASE fetch[w] = "getting"
      <4>1. /\ queue[w] = <<>> /\ InHand(w) = <<>> /\ InHand(w)' = <<count + 1>>
            /\ queue'[w] = queue[w]
        BY <3>1, <3>3 DEF WaitOK, PutOn, InHand
      <4>2. Boxes[w] = <<>> /\ Boxes'[w] = <<count + 1>>
        BY <3>1, <4>1
      <4> QED
        BY <2>2, <3>3, <4>2
    <3>4. CASE fetch[w] # "getting" /\ HasRoom(w)
      <4>1. /\ queue'[w] = Append(queue[w], count + 1) /\ InHand(w)' = InHand(w)
            /\ InHand(w) = <<>> \/ InHand(w) = <<item[w]>>
        BY <3>1, <3>4 DEF PutOn, InHand
      <4>2. InHand(w) \o Append(queue[w], count + 1)
                = Append(InHand(w) \o queue[w], count + 1)
        <5>1. CASE InHand(w) = <<item[w]>>
          BY <3>2, <5>1, HandAndQueue
        <5>2. CASE InHand(w) = <<>>
          <6>1. Append(queue[w], count + 1) \in Seq(0..(count + 1))
            BY <3>2, Appended
          <6>2. /\ <<>> \o Append(queue[w], count + 1) = Append(queue[w], count + 1)
                /\ <<>> \o queue[w] = queue[w]
            BY <3>2, <6>1, HandAndQueue
          <6> QED
            BY <5>2, <6>2
        <5> QED
          BY <4>1, <5>1, <5>2
      <4> QED
        BY <2>2, <3>1, <3>4, <4>1, <4>2
    <3>5. CASE fetch[w] # "getting" /\ ~HasRoom(w)
      <4>1. queue'[w] = queue[w] /\ InHand(w)' = InHand(w)
        BY <3>1, <3>5 DEF PutOn, InHand
      <4> QED
        BY <2>2, <3>1, <3>5, <4>1
    <3> QED
      BY <3>3, <3>4, <3>5
  <2> QED
    BY <2>1, <2>2
<1>16. Boxes' = [w \in Sockets |-> IF w \in Members \ missed
                                 THEN Append(Boxes[w], count + 1) ELSE Boxes[w]]
  <2>1. Boxes' = [w \in Sockets |-> Boxes'[w]]
    BY DEF Boxes
  <2> QED
    BY <1>15, <2>1
<1>17. Feed!Publish
  <2>1. missed \in SUBSET {w \in Members : Len(Boxes[w]) >= maxsize}
    BY <1>14
  <2> HIDE DEF missed
  <2> QED
    BY <1>1, <1>13, <1>16, <2>1 DEF Feed!Publish
<1> QED
  BY <1>6, <1>8, <1>9, <1>10, <1>11, <1>12, <1>17

-----------------------------------------------------------------------------
(* The websockets.                                                         *)

\* Nothing EventFeed knows of has changed.
FeedSame == UNCHANGED <<count, sent>> /\ Members' = Members /\ Boxes' = Boxes

LEMMA FeedStutters ==
    ASSUME FeedSame PROVE UNCHANGED Feed!vars
BY DEF FeedSame, Feed!vars

\* Opening a websocket, or beginning to close one that has no topic.
LEMMA OpenKeeps ==
    ASSUME IInv, NEW w \in Sockets, Open(w) \/ NoToken(w)
    PROVE  IInv' /\ UNCHANGED Feed!vars
<1> USE DEF IInv
<1>1. /\ UNCHANGED <<count, topicPool, topics, topicOf, queue, fetch, item, sent>>
      /\ topicOf[w] = NoTopic /\ phase[w] # "closed"
      /\ \E p \in {"open", "closing"} : phase' = [phase EXCEPT ![w] = p]
      /\ \E b \in BOOLEAN : connected' = [connected EXCEPT ![w] = b]
  <2>1. CASE Open(w)
    BY <2>1 DEF Open, PhaseOK
  <2>2. CASE NoToken(w)
    <3>1. connected' = connected => connected' = [connected EXCEPT ![w] = connected[w]]
      BY DEF TypeOK
    <3>2. connected[w] \in BOOLEAN
      BY DEF TypeOK
    <3> QED
      BY <2>2, <3>1, <3>2 DEF NoToken
  <2> QED
    BY <2>1, <2>2
<1>2. \A v \in Sockets \ {w} : phase'[v] = phase[v] /\ connected'[v] = connected[v]
  BY <1>1 DEF TypeOK
<1>3. phase'[w] \in {"open", "closing"}
  BY <1>1 DEF TypeOK
<1>4. TypeOK'
  BY <1>1 DEF TypeOK
<1>5. DeadQueueIsFull'
  BY <1>1, <1>2, <1>3 DEF DeadQueueIsFull, Registered
<1>6. PhaseOK'
  BY <1>1, <1>2, <1>3 DEF PhaseOK
<1>7. WaitOK'
  BY <1>1 DEF WaitOK
<1>8. \A v \in Sockets : Listening(v)' = Listening(v)
  BY <1>1, <1>2 DEF Listening
<1>9. ListedOK'
  BY <1>1, <1>8 DEF ListedOK
<1>10. StopOK'
  BY <1>1, <1>2 DEF StopOK
<1>11. FeedSame
  BY <1>1, <1>8 DEF FeedSame, Members, Boxes, InHand
<1> QED
  BY <1>4, <1>5, <1>6, <1>7, <1>9, <1>10, <1>11, FeedStutters

\* Listen puts w, and nothing else, on the topic that is the bus's afterwards.
LEMMA ListenDoes ==
    ASSUME TypeOK, NEW w \in Sockets, Listen(w)
    PROVE  /\ topics' \in Seq(SUBSET Sockets)
           /\ Len(topics) \in Nat /\ Len(topics') \in Nat /\ Len(topics) <= Len(topics')
           /\ topicPool' \in 1..Len(topics') /\ w \in topics'[topicPool']
           /\ topicPool = NoTopic \/ topicPool' = topicPool
           /\ topicOf' = [topicOf EXCEPT ![w] = topicPool']
           /\ \A t \in 1..Len(topics) : topics[t] \subseteq topics'[t]
           /\ \A t \in 1..Len(topics') : \A v \in topics'[t] :
                 \/ v = w /\ t = topicPool'
                 \/ t \in 1..Len(topics) /\ v \in topics[t]
<1>1. /\ topics \in Seq(SUBSET Sockets) /\ Len(topics) \in Nat
      /\ topicPool \in 0..Len(topics) /\ {w} \in SUBSET Sockets
  BY DEF TypeOK
<1>2. CASE topicPool = NoTopic
  <2>1. topics' = Append(topics, {w}) /\ topicPool' = Len(topics) + 1
    BY <1>2 DEF Listen
  <2>2. /\ topics' \in Seq(SUBSET Sockets) /\ Len(topics') = Len(topics) + 1
        /\ \A i \in 1..Len(topics) : topics'[i] = topics[i]
        /\ topics'[Len(topics) + 1] = {w}
    BY <1>1, <2>1, Appended
  <2> QED
    BY <1>1, <1>2, <2>1, <2>2 DEF Listen
<1>3. CASE topicPool # NoTopic
  <2>1. /\ topics' = [topics EXCEPT ![topicPool] = @ \cup {w}] /\ topicPool' = topicPool
        /\ topicPool \in 1..Len(topics)
    BY <1>1, <1>3 DEF Listen, NoTopic
  <2>2. /\ topics' \in Seq(SUBSET Sockets) /\ Len(topics') = Len(topics)
        /\ \A t \in 1..Len(topics) :
              topics'[t] = IF t = topicPool THEN topics[t] \cup {w} ELSE topics[t]
    <3>1. topics[topicPool] \cup {w} \in SUBSET Sockets
      BY <1>1, <2>1
    <3> DEFINE e == topics[topicPool] \cup {w}
    <3>2. topics' = [topics EXCEPT ![topicPool] = e]
      BY <2>1
    <3> HIDE DEF e
    <3>3. e \in SUBSET Sockets
      BY <3>1 DEF e
    <3>4. /\ [topics EXCEPT ![topicPool] = e] \in Seq(SUBSET Sockets)
          /\ Len([topics EXCEPT ![topicPool] = e]) = Len(topics)
          /\ \A t \in 1..Len(topics) :
                [topics EXCEPT ![topicPool] = e][t] = IF t = topicPool THEN e ELSE topics[t]
      BY <1>1, <2>1, <3>3, EntryChanged
    <3> QED
      BY <3>2, <3>4 DEF e
  <2>3. w \in topics'[topicPool']
    BY <2>1, <2>2
  <2>4. \A t \in 1..Len(topics) : topics[t] \subseteq topics'[t]
    BY <2>2
  <2>5. \A t \in 1..Len(topics') : \A v \in topics'[t] :
           \/ v = w /\ t = topicPool'
           \/ t \in 1..Len(topics) /\ v \in topics[t]
    BY <2>1, <2>2
  <2>6. topicOf' = [topicOf EXCEPT ![w] = topicPool']
    BY DEF Listen
  <2>7. topicPool' \in 1..Len(topics') /\ Len(topics) <= Len(topics')
    BY <1>1, <2>1, <2>2
  <2> QED
    BY <1>1, <2>1, <2>2, <2>3, <2>4, <2>5, <2>6, <2>7
<1> QED
  BY <1>2, <1>3

\* The token: an open websocket joins the feed, with nothing queued yet.
LEMMA TokenKeeps ==
    ASSUME IInv, NEW w \in Sockets, Token(w)
    PROVE  IInv' /\ (Feed!Join(w) \/ UNCHANGED Feed!vars)
<1> USE DEF IInv
<1>1. /\ UNCHANGED <<count, phase, connected, queue, item, sent>>
      /\ phase[w] \in {"open", "closing"} /\ topicOf[w] = NoTopic
      /\ fetch' = [fetch EXCEPT ![w] = "start"] /\ Listen(w)
      /\ queue[w] = <<>> /\ fetch[w] = "none"
  BY DEF Token, PhaseOK
<1>2. /\ topics' \in Seq(SUBSET Sockets)
      /\ Len(topics) \in Nat /\ Len(topics') \in Nat /\ Len(topics) <= Len(topics')
      /\ topicPool' \in 1..Len(topics') /\ w \in topics'[topicPool']
      /\ topicPool = NoTopic \/ topicPool' = topicPool
      /\ topicOf' = [topicOf EXCEPT ![w] = topicPool']
      /\ \A t \in 1..Len(topics) : topics[t] \subseteq topics'[t]
      /\ \A t \in 1..Len(topics') : \A v \in topics'[t] :
            \/ v = w /\ t = topicPool'
            \/ t \in 1..Len(topics) /\ v \in topics[t]
  BY <1>1, ListenDoes
<1>3. /\ fetch'[w] = "start" /\ topicOf'[w] = topicPool' /\ topicPool' # NoTopic
      /\ \A v \in Sockets \ {w} : fetch'[v] = fetch[v] /\ topicOf'[v] = topicOf[v]
  BY <1>1, <1>2 DEF TypeOK, NoTopic
<1>4. \A v \in Sockets : topicOf[v] \in 0..Len(topics)
  BY DEF TypeOK
<1>5. TypeOK'
  <2>1. topicOf' \in [Sockets -> 0..Len(topics')]
    BY <1>2, <1>4 DEF TypeOK
  <2>2. fetch' \in [Sockets -> {"none", "start", "getting", "got", "moment", "ended"}]
    BY <1>1 DEF TypeOK
  <2>3. topicPool' \in 0..Len(topics')
    BY <1>2
  <2> QED
    BY <1>1, <1>2, <2>1, <2>2, <2>3 DEF TypeOK
<1>6. DeadQueueIsFull'
  <2> SUFFICES ASSUME NEW v \in Sockets, phase[v] = "closed", Registered(v)'
               PROVE  Len(queue[v]) = maxsize
    BY <1>1 DEF DeadQueueIsFull
  <2>1. v # w /\ topicOf[v] # NoTopic /\ v \in topics'[topicOf[v]]
    BY <1>1, <1>3 DEF Registered
  <2>2. v \in topics[topicOf[v]]
    BY <1>2, <1>4, <2>1 DEF NoTopic
  <2> QED
    BY <2>1, <2>2 DEF DeadQueueIsFull, Registered
<1>7. PhaseOK'
  BY <1>1, <1>3 DEF PhaseOK
<1>8. WaitOK'
  BY <1>1, <1>3 DEF WaitOK
<1>9. ListedOK'
  <2>1. ASSUME NEW v \in Sockets, Listening(v)'
        PROVE  topicOf'[v] = topicPool' /\ v \in topics'[topicPool']
    <3>1. CASE v = w
      BY <1>2, <1>3, <3>1
    <3>2. CASE v # w
      <4>1. topicOf'[v] = topicOf[v] /\ Listening(v)
        BY <1>1, <1>3, <2>1, <3>2 DEF Listening
      <4>2. topicOf[v] = topicPool /\ v \in topics[topicPool] /\ topicPool # NoTopic
        BY <4>1 DEF ListedOK, Listening
      <4> QED
        BY <1>2, <1>4, <4>1, <4>2 DEF NoTopic
    <3> QED
      BY <3>1, <3>2
  <2>2. ASSUME NEW t \in 1..Len(topics'), NEW v \in topics'[t] PROVE topicOf'[v] = t
    <3>1. CASE v = w /\ t = topicPool'
      BY <1>3, <3>1
    <3>2. CASE t \in 1..Len(topics) /\ v \in topics[t]
      <4>1. v \in Sockets /\ topicOf[v] = t /\ t # NoTopic
        BY <3>2 DEF ListedOK, TypeOK, NoTopic
      <4> QED
        BY <1>1, <1>3, <4>1
    <3> QED
      BY <1>2, <3>1, <3>2
  <2> QED
    BY <2>1, <2>2 DEF ListedOK
<1>10. StopOK'
  BY <1>1, <1>3 DEF StopOK
<1>11. \A v \in Sockets \ {w} : Listening(v)' = Listening(v)
  BY <1>1, <1>3 DEF Listening
<1>12. ~Listening(w) /\ (Listening(w)' <=> phase[w] = "open")
  BY <1>1, <1>3 DEF Listening
<1>13. Boxes' = Boxes
  <2>1. ASSUME NEW v \in Sockets PROVE Boxes'[v] = Boxes[v]
    <3>1. CASE v = w
      BY <1>1, <1>3, <1>12, <3>1 DEF Boxes, InHand
    <3>2. CASE v # w
      BY <1>1, <1>3, <1>11, <3>2 DEF Boxes, InHand
    <3> QED
      BY <3>1, <3>2
  <2>2. Boxes' = [v \in Sockets |-> Boxes'[v]] /\ Boxes = [v \in Sockets |-> Boxes[v]]
    BY DEF Boxes
  <2> QED
    BY <2>1, <2>2
<1>14. CASE phase[w] = "open"
  <2>1. w \notin Members /\ Members' = Members \cup {w}
    BY <1>11, <1>12, <1>14 DEF Members
  <2>2. Feed!Join(w)
    BY <1>1, <1>13, <2>1 DEF Feed!Join
  <2> QED
    BY <1>5, <1>6, <1>7, <1>8, <1>9, <1>10, <2>2
<1>15. CASE phase[w] # "open"
  <2>1. Members' = Members
    BY <1>11, <1>12, <1>15 DEF Members
  <2>2. FeedSame
    BY <1>1, <1>13, <2>1 DEF FeedSame
  <2> QED
    BY <1>5, <1>6, <1>7, <1>8, <1>9, <1>10, <2>2, FeedStutters
<1> QED
  BY <1>14, <1>15

\* delete_queue takes w, and nothing else, off its topic if there is room for
\* the None, and otherwise leaves everything as it is.
LEMMA DeleteDoes ==
    ASSUME TypeOK, NEW w \in Sockets, topicOf[w] # NoTopic, DeleteQueue(w)
    PROVE  /\ topics' \in Seq(SUBSET Sockets) /\ Len(topics') = Len(topics)
           /\ \A t \in 1..Len(topics) : /\ topics'[t] \subseteq topics[t]
                                        /\ topics[t] \subseteq topics'[t] \cup {w}
           /\ \/ HasRoom(w) /\ Put({w}, Stop) /\ w \notin topics'[topicOf[w]]
              \/ ~HasRoom(w) /\ UNCHANGED <<queue, fetch, item, topics>>
<1>1. topics \in Seq(SUBSET Sockets) /\ topicOf[w] \in 1..Len(topics)
  BY DEF TypeOK, NoTopic
<1>2. CASE /\ HasRoom(w) /\ Put({w}, Stop)
           /\ topics' = [topics EXCEPT ![topicOf[w]] = @ \ {w}]
  <2> DEFINE e == topics[topicOf[w]] \ {w}
  <2>1. e \in SUBSET Sockets
    BY <1>1
  <2>2. topics' = [topics EXCEPT ![topicOf[w]] = e]
    BY <1>2
  <2> HIDE DEF e
  <2>3. /\ [topics EXCEPT ![topicOf[w]] = e] \in Seq(SUBSET Sockets)
        /\ Len([topics EXCEPT ![topicOf[w]] = e]) = Len(topics)
        /\ \A t \in 1..Len(topics) :
              [topics EXCEPT ![topicOf[w]] = e][t]
                  = IF t = topicOf[w] THEN e ELSE topics[t]
    BY <1>1, <2>1, EntryChanged
  <2> QED
    BY <1>1, <1>2, <2>2, <2>3 DEF e
<1>3. CASE ~HasRoom(w) /\ UNCHANGED <<queue, fetch, item, topics>>
  BY <1>1, <1>3
<1> QED
  BY <1>2, <1>3 DEF DeleteQueue

\* on_close: an open websocket that had joined leaves, and its mailbox with it.
LEMMA CloseKeeps ==
    ASSUME IInv, NEW w \in Sockets, Close(w)
    PROVE  IInv' /\ (Feed!Leave(w) \/ UNCHANGED Feed!vars)
<1> USE DEF IInv
<1>1. /\ UNCHANGED <<count, topicPool, topicOf, sent>>
      /\ phase' = [phase EXCEPT ![w] = "closed"]
      /\ connected' = [connected EXCEPT ![w] = FALSE]
      /\ \/ topicOf[w] # NoTopic /\ DeleteQueue(w)
         \/ topicOf[w] = NoTopic /\ UNCHANGED <<topics, queue, fetch, item>>
      /\ maxsize \in Nat \ {0} /\ count \in Nat
  BY EventsAssumption DEF Close, TypeOK
<1>2. /\ phase'[w] = "closed" /\ connected'[w] = FALSE
      /\ \A v \in Sockets \ {w} : phase'[v] = phase[v] /\ connected'[v] = connected[v]
  BY <1>1 DEF TypeOK
<1>3. /\ queue' \in [Sockets -> Seq(0..count)] /\ item' \in [Sockets -> 0..count]
      /\ \A v \in Sockets : Len(queue'[v]) <= maxsize
      /\ fetch' \in [Sockets -> {"none", "start", "getting", "got", "moment", "ended"}]
      /\ \A v \in Sockets \ {w} :
            queue'[v] = queue[v] /\ fetch'[v] = fetch[v] /\ item'[v] = item[v]
      /\ \/ PutOn(w, Stop)
         \/ queue'[w] = queue[w] /\ fetch'[w] = fetch[w] /\ item'[w] = item[w]
  <2>1. CASE UNCHANGED <<queue, fetch, item>>
    BY <2>1 DEF TypeOK
  <2>2. CASE Put({w}, Stop)
    <3>1. {w} \in SUBSET Sockets /\ count <= count /\ Stop \in 0..count
      BY <1>1 DEF Stop
    <3> QED
      BY <1>1, <2>2, <3>1, PutDoes
  <2> QED
    BY <1>1, <2>1, <2>2 DEF DeleteQueue
<1>4. /\ topics' \in Seq(SUBSET Sockets) /\ Len(topics') = Len(topics)
      /\ \A t \in 1..Len(topics) : /\ topics'[t] \subseteq topics[t]
                                   /\ topics[t] \subseteq topics'[t] \cup {w}
  <2>1. CASE topics' = topics
    BY <2>1 DEF TypeOK
  <2> QED
    BY <1>1, <2>1, DeleteDoes
<1>5. topicOf[w] # NoTopic =>
         \/ HasRoom(w) /\ w \notin topics'[topicOf[w]]
         \/ ~HasRoom(w) /\ queue'[w] = queue[w]
  BY <1>1, DeleteDoes
<1>6. \A v \in Sockets : topicOf[v] \in 0..Len(topics)
  BY DEF TypeOK
<1>7. TypeOK'
  <2>1. phase' \in [Sockets -> {"new", "open", "closing", "closed"}]
    BY <1>1 DEF TypeOK
  <2>2. connected' \in [Sockets -> BOOLEAN]
    BY <1>1 DEF TypeOK
  <2> QED
    BY <1>1, <1>3, <1>4, <2>1, <2>2 DEF TypeOK
<1>8. DeadQueueIsFull'
  <2> SUFFICES ASSUME NEW v \in Sockets, phase'[v] = "closed", Registered(v)'
               PROVE  Len(queue'[v]) = maxsize
    BY DEF DeadQueueIsFull
  <2>1. topicOf[v] # NoTopic /\ v \in topics'[topicOf[v]] /\ topicOf[v] \in 1..Len(topics)
    BY <1>1, <1>6 DEF Registered, NoTopic
  <2>2. CASE v = w
    <3>1. ~HasRoom(w) /\ queue'[w] = queue[w]
      BY <1>5, <2>1, <2>2
    <3>2. Len(queue[w]) \in Nat /\ Len(queue[w]) <= maxsize
      BY DEF TypeOK
    <3> QED
      BY <1>1, <2>2, <3>1, <3>2 DEF HasRoom
  <2>3. CASE v # w
    <3>1. phase[v] = "closed" /\ Registered(v) /\ queue'[v] = queue[v]
      BY <1>2, <1>3, <1>4, <2>1, <2>3 DEF Registered
    <3> QED
      BY <3>1 DEF DeadQueueIsFull
  <2> QED
    BY <2>2, <2>3
<1>9. PhaseOK'
  <2> SUFFICES ASSUME NEW v \in Sockets
               PROVE  /\ phase'[v] = "new" => topicOf[v] = NoTopic
                      /\ topicOf[v] = NoTopic => queue'[v] = <<>> /\ fetch'[v] = "none"
                      /\ phase'[v] = "closed" => ~connected'[v]
    BY <1>1 DEF PhaseOK
  <2>1. CASE v = w
    BY <1>1, <1>2, <2>1 DEF PhaseOK
  <2>2. CASE v # w
    BY <1>2, <1>3, <2>2 DEF PhaseOK
  <2> QED
    BY <2>1, <2>2
<1>10. WaitOK'
  BY <1>3 DEF WaitOK, PutOn
<1>11. /\ ~Listening(w)'
       /\ \A v \in Sockets \ {w} : Listening(v)' = Listening(v)
  BY <1>1, <1>2 DEF Listening
<1>12. ListedOK'
  <2>1. ASSUME NEW v \in Sockets, Listening(v)'
        PROVE  topicOf[v] = topicPool /\ v \in topics'[topicPool]
    <3>1. v # w /\ Listening(v) /\ topicOf[v] # NoTopic
      BY <1>11, <2>1 DEF Listening
    <3>2. topicOf[v] = topicPool /\ v \in topics[topicPool] /\ topicPool \in 1..Len(topics)
      BY <1>6, <3>1 DEF ListedOK, NoTopic
    <3> QED
      BY <1>4, <3>1, <3>2
  <2>2. ASSUME NEW t \in 1..Len(topics), NEW v \in topics'[t] PROVE topicOf[v] = t
    BY <1>4 DEF ListedOK
  <2> QED
    BY <1>1, <1>4, <2>1, <2>2 DEF ListedOK
<1>13. StopOK'
  <2> SUFFICES ASSUME NEW v \in Sockets, phase'[v] # "closed"
               PROVE  /\ \A i \in 1..Len(queue'[v]) : queue'[v][i] # Stop
                      /\ fetch'[v] = "got" => item'[v] # Stop
    BY DEF StopOK
  <2>1. v # w /\ phase[v] # "closed"
    BY <1>2
  <2>2. queue'[v] = queue[v] /\ fetch'[v] = fetch[v] /\ item'[v] = item[v]
    BY <1>3, <2>1
  <2> QED
    BY <2>1, <2>2 DEF StopOK
<1>14. ASSUME NEW v \in Sockets PROVE Boxes'[v] = IF v = w THEN <<>> ELSE Boxes[v]
  BY <1>3, <1>11 DEF Boxes, InHand
<1>15. /\ Boxes' = [v \in Sockets |-> Boxes'[v]] /\ Boxes = [v \in Sockets |-> Boxes[v]]
       /\ w \notin Members => Boxes[w] = <<>>
  BY DEF Boxes, Members
<1>16. CASE w \in Members
  <2>1. Members' = Members \ {w}
    BY <1>11 DEF Members
  <2>2. Boxes' = [Boxes EXCEPT ![w] = <<>>]
    BY <1>14, <1>15
  <2>3. Feed!Leave(w)
    BY <1>1, <1>16, <2>1, <2>2 DEF Feed!Leave
  <2> QED
    BY <1>7, <1>8, <1>9, <1>10, <1>12, <1>13, <2>3
<1>17. CASE w \notin Members
  <2>1. Members' = Members
    BY <1>11, <1>17 DEF Members
  <2>2. \A v \in Sockets : Boxes'[v] = Boxes[v]
    BY <1>14, <1>15, <1>17
  <2>3. FeedSame
    BY <1>1, <1>15, <2>1, <2>2 DEF FeedSame
  <2> QED
    BY <1>7, <1>8, <1>9, <1>10, <1>12, <1>13, <2>3, FeedStutters
<1> QED
  BY <1>16, <1>17

\* fetch_event has nothing to write, or drops an item, or writes the first of
\* its queue, or the one in hand.
FetchWrites(w, x) ==
    /\ phase[w] = "open" /\ x # Stop /\ fetch'[w] = "moment"
    /\ sent' = [sent EXCEPT ![w] = Append(@, x)]
TakesFirst(w) ==
    /\ fetch[w] \in {"start", "moment"} /\ connected[w] /\ queue[w] # <<>>
    /\ queue' = [queue EXCEPT ![w] = Tail(@)]
LEMMA FetchDoes ==
    ASSUME IInv, NEW w \in Sockets, FetchEvent(w)
    PROVE  /\ UNCHANGED <<count, phase, connected, topicPool, topics, topicOf, item>>
           /\ topicOf[w] # NoTopic
           /\ \E f \in {"moment", "getting", "ended"} : fetch' = [fetch EXCEPT ![w] = f]
           /\ fetch'[w] = "getting" => queue'[w] = <<>>
           /\ \/ fetch[w] # "got" /\ UNCHANGED <<queue, sent>>
              \/ /\ ~Listening(w) /\ UNCHANGED sent
                 /\ queue' = queue \/ TakesFirst(w)
              \/ TakesFirst(w) /\ FetchWrites(w, Head(queue[w]))
              \/ fetch[w] = "got" /\ UNCHANGED queue /\ FetchWrites(w, item[w])
<1> USE DEF IInv
<1>1. /\ UNCHANGED <<count, phase, connected, topicPool, topics, topicOf, item>>
      /\ fetch[w] \in {"start", "moment", "got"} /\ topicOf[w] # NoTopic
  BY DEF FetchEvent, PhaseOK
<1>2. CASE /\ fetch[w] \in {"start", "moment"} /\ UNCHANGED <<queue, sent>>
           /\ \/ fetch' = [fetch EXCEPT ![w] = "ended"]
              \/ fetch' = [fetch EXCEPT ![w] = "getting"] /\ queue[w] = <<>>
  BY <1>1, <1>2 DEF TypeOK
<1>3. CASE TakesFirst(w) /\ WriteMessage(w, Head(queue[w]))
  <2>1. Head(queue[w]) = Stop => phase[w] = "closed"
    <3>1. 1 \in 1..Len(queue[w]) /\ Head(queue[w]) = queue[w][1]
      BY <1>3, HeadTail DEF TypeOK, TakesFirst
    <3> QED
      BY <3>1 DEF StopOK
  <2>2. /\ \E f \in {"moment", "ended"} : fetch' = [fetch EXCEPT ![w] = f]
        /\ \/ phase[w] # "open" /\ UNCHANGED sent
           \/ FetchWrites(w, Head(queue[w]))
    BY <1>3, <2>1 DEF WriteMessage, FetchWrites, AndLoop, TypeOK
  <2>3. fetch'[w] # "getting"
    BY <2>2 DEF TypeOK
  <2> QED
    BY <1>1, <1>3, <2>2, <2>3 DEF Listening
<1>4. CASE fetch[w] = "got" /\ WriteMessage(w, item[w]) /\ UNCHANGED queue
  <2>1. item[w] = Stop => phase[w] = "closed"
    BY <1>4 DEF StopOK
  <2>2. /\ \E f \in {"moment", "ended"} : fetch' = [fetch EXCEPT ![w] = f]
        /\ \/ phase[w] # "open" /\ UNCHANGED sent
           \/ FetchWrites(w, item[w])
    BY <1>4, <2>1 DEF WriteMessage, FetchWrites, AndLoop, TypeOK
  <2>3. fetch'[w] # "getting"
    BY <2>2 DEF TypeOK
  <2> QED
    BY <1>1, <1>4, <2>2, <2>3 DEF Listening
<1> QED
  BY <1>1, <1>2, <1>3, <1>4 DEF FetchEvent, Loop, TakesFirst

\* fetch_event: EventFeed's Write if something is written, and no step of it
\* otherwise.
LEMMA FetchKeeps ==
    ASSUME IInv, NEW w \in Sockets, FetchEvent(w)
    PROVE  IInv' /\ (Feed!Write(w) \/ UNCHANGED Feed!vars)
<1> USE DEF IInv
<1>1. /\ UNCHANGED <<count, phase, connected, topicPool, topics, topicOf, item>>
      /\ topicOf[w] # NoTopic /\ count \in Nat
      /\ \E f \in {"moment", "getting", "ended"} : fetch' = [fetch EXCEPT ![w] = f]
      /\ fetch'[w] = "getting" => queue'[w] = <<>>
      /\ \/ fetch[w] # "got" /\ UNCHANGED <<queue, sent>>
         \/ /\ ~Listening(w) /\ UNCHANGED sent
            /\ queue' = queue \/ TakesFirst(w)
         \/ TakesFirst(w) /\ FetchWrites(w, Head(queue[w]))
         \/ fetch[w] = "got" /\ UNCHANGED queue /\ FetchWrites(w, item[w])
  BY FetchDoes DEF TypeOK
<1>2. /\ fetch' \in [Sockets -> {"none", "start", "getting", "got", "moment", "ended"}]
      /\ fetch'[w] \in {"moment", "getting", "ended"}
      /\ \A v \in Sockets \ {w} : fetch'[v] = fetch[v]
  BY <1>1 DEF TypeOK
<1>3. queue[w] \in Seq(0..count) /\ Len(queue[w]) <= maxsize /\ maxsize \in Nat
  BY EventsAssumption DEF TypeOK
<1>4. ASSUME queue' = queue
      PROVE  /\ queue' \in [Sockets -> Seq(0..count)]
             /\ \A v \in Sockets : Len(queue'[v]) <= maxsize
  <2>1. queue' \in [Sockets -> Seq(0..count)]
    BY <1>4 DEF TypeOK
  <2>2. \A v \in Sockets : Len(queue'[v]) <= maxsize
    BY <1>4 DEF TypeOK
  <2> QED
    BY <2>1, <2>2
<1>5. ASSUME TakesFirst(w)
      PROVE  /\ queue' \in [Sockets -> Seq(0..count)] /\ queue'[w] = Tail(queue[w])
             /\ \A v \in Sockets \ {w} : queue'[v] = queue[v]
             /\ \A v \in Sockets : Len(queue'[v]) <= maxsize
             /\ Head(queue[w]) \in 0..count /\ phase[w] # "closed"
             /\ \A i \in 1..Len(queue'[w]) :
                   queue'[w][i] = queue[w][i + 1] /\ i + 1 \in 1..Len(queue[w])
  <2>1. /\ Tail(queue[w]) \in Seq(0..count) /\ Head(queue[w]) \in 0..count
        /\ Len(queue[w]) \in Nat /\ Len(Tail(queue[w])) = Len(queue[w]) - 1
        /\ \A i \in 1..Len(Tail(queue[w])) :
              Tail(queue[w])[i] = queue[w][i + 1] /\ i + 1 \in 1..Len(queue[w])
    BY <1>3, <1>5, HeadTail DEF TakesFirst
  <2>2. /\ queue' \in [Sockets -> Seq(0..count)] /\ queue'[w] = Tail(queue[w])
        /\ \A v \in Sockets \ {w} : queue'[v] = queue[v]
    BY <1>5, <2>1 DEF TakesFirst, TypeOK
  <2>3. \A v \in Sockets : Len(queue'[v]) <= maxsize
    <3>1. Len(queue'[w]) <= maxsize
      BY <1>3, <2>1, <2>2
    <3>2. \A v \in Sockets : Len(queue[v]) <= maxsize
      BY DEF TypeOK
    <3> QED
      BY <2>2, <3>1, <3>2
  <2>4. phase[w] # "closed"
    BY <1>5 DEF TakesFirst, PhaseOK
  <2> QED
    BY <2>1, <2>2, <2>3, <2>4
<1>6. \A v \in Sockets \ {w} : queue'[v] = queue[v]
  BY <1>1, <1>5
<1>7. TypeOK'
  <2>1. queue' \in [Sockets -> Seq(0..count)] /\ \A v \in Sockets : Len(queue'[v]) <= maxsize
    BY <1>1, <1>4, <1>5
  <2>2. sent' \in [Sockets -> Seq(1..count)]
    <3>1. CASE sent' = sent
      BY <3>1 DEF TypeOK
    <3>2. ASSUME NEW x \in 0..count, FetchWrites(w, x)
          PROVE  sent' \in [Sockets -> Seq(1..count)]
      <4>1. x \in 1..count /\ sent[w] \in Seq(1..count)
        BY <1>1, <3>2 DEF FetchWrites, Stop, TypeOK
      <4>2. Append(sent[w], x) \in Seq(1..count)
        BY <4>1, Appended
      <4> QED
        BY <3>2, <4>2 DEF FetchWrites, TypeOK
    <3>3. item[w] \in 0..count
      BY DEF TypeOK
    <3> QED
      BY <1>1, <1>5, <3>1, <3>2, <3>3
  <2> QED
    BY <1>1, <1>2, <2>1, <2>2 DEF TypeOK
<1>8. DeadQueueIsFull'
  <2> SUFFICES ASSUME NEW v \in Sockets, phase[v] = "closed", Registered(v)
               PROVE  Len(queue'[v]) = maxsize
    BY <1>1 DEF DeadQueueIsFull, Registered
  <2>1. queue'[v] = queue[v]
    BY <1>1, <1>5, <1>6 DEF FetchWrites
  <2> QED
    BY <2>1 DEF DeadQueueIsFull
<1>9. PhaseOK'
  BY <1>1, <1>2, <1>6 DEF PhaseOK
<1>10. WaitOK'
  BY <1>1, <1>2, <1>6 DEF WaitOK
<1>11. \A v \in Sockets : Listening(v)' = Listening(v)
  BY <1>1 DEF Listening
<1>12. ListedOK'
  BY <1>1, <1>11 DEF ListedOK
<1>13. StopOK'
  <2> SUFFICES ASSUME NEW v \in Sockets, phase[v] # "closed"
               PROVE  /\ \A i \in 1..Len(queue'[v]) : queue'[v][i] # Stop
                      /\ fetch'[v] = "got" => item[v] # Stop
    BY <1>1 DEF StopOK
  <2>1. CASE v # w
    BY <1>2, <1>6, <2>1 DEF StopOK
  <2>2. CASE v = w
    <3>1. CASE queue' = queue
      BY <1>2, <2>2, <3>1 DEF StopOK
    <3>2. CASE TakesFirst(w)
      <4>1. \A i \in 1..Len(queue[w]) : queue[w][i] # Stop
        BY <2>2 DEF StopOK
      <4>2. fetch'[w] # "got"
        BY <1>2
      <4> QED
        BY <1>5, <2>2, <3>2, <4>1, <4>2
    <3> QED
      BY <1>1, <3>1, <3>2
  <2> QED
    BY <2>1, <2>2
<1>14. Members' = Members
  BY <1>11 DEF Members
<1>15. \A v \in Sockets \ {w} : Boxes'[v] = Boxes[v]
  BY <1>1, <1>2, <1>6, <1>11 DEF Boxes, InHand
<1>16. Boxes' = [v \in Sockets |-> Boxes'[v]] /\ Boxes = [v \in Sockets |-> Boxes[v]]
  BY DEF Boxes
<1>17. ASSUME Boxes'[w] = Boxes[w], UNCHANGED sent PROVE UNCHANGED Feed!vars
  <2>1. \A v \in Sockets : Boxes'[v] = Boxes[v]
    BY <1>15, <1>17
  <2>2. FeedSame
    BY <1>1, <1>14, <1>16, <1>17, <2>1 DEF FeedSame
  <2> QED
    BY <2>2, FeedStutters
<1>18. ASSUME NEW x, FetchWrites(w, x), Boxes[w] # <<>>, Head(Boxes[w]) = x,
              Boxes'[w] = Tail(Boxes[w])
       PROVE  Feed!Write(w)
  <2>1. w \in Members
    BY <1>1, <1>18 DEF FetchWrites, Members, Listening
  <2>2. Boxes' = [Boxes EXCEPT ![w] = Tail(@)]
    BY <1>15, <1>16, <1>18
  <2>3. sent' = [sent EXCEPT ![w] = Append(@, Head(Boxes[w]))]
    BY <1>18 DEF FetchWrites
  <2> QED
    BY <1>1, <1>14, <1>18, <2>1, <2>2, <2>3 DEF Feed!Write
<1>19. /\ Boxes[w] = IF Listening(w) THEN InHand(w) \o queue[w] ELSE <<>>
       /\ Boxes'[w] = IF Listening(w) THEN <<>> \o queue'[w] ELSE <<>>
  BY <1>2, <1>11 DEF Boxes, InHand
<1>20. ASSUME fetch[w] # "got", UNCHANGED <<queue, sent>>
       PROVE  Feed!Write(w) \/ UNCHANGED Feed!vars
  BY <1>17, <1>19, <1>20 DEF InHand
<1>21. ASSUME ~Listening(w), UNCHANGED sent
       PROVE  Feed!Write(w) \/ UNCHANGED Feed!vars
  BY <1>17, <1>19, <1>21
<1>22. ASSUME TakesFirst(w), FetchWrites(w, Head(queue[w]))
       PROVE  Feed!Write(w) \/ UNCHANGED Feed!vars
  <2>1. /\ Listening(w) /\ InHand(w) = <<>> /\ queue[w] # <<>>
        /\ queue'[w] = Tail(queue[w]) /\ queue'[w] \in Seq(0..count)
    BY <1>1, <1>5, <1>22 DEF FetchWrites, TakesFirst, Listening, InHand
  <2>2. Boxes[w] = queue[w] /\ Boxes'[w] = Tail(queue[w])
    BY <1>3, <1>19, <2>1
  <2> QED
    BY <1>18, <1>22, <2>1, <2>2
<1>23. ASSUME fetch[w] = "got", UNCHANGED queue, FetchWrites(w, item[w])
       PROVE  Feed!Write(w) \/ UNCHANGED Feed!vars
  <2>1. Listening(w) /\ InHand(w) = <<item[w]>> /\ item[w] \in 0..count
    BY <1>1, <1>23 DEF FetchWrites, Listening, InHand, TypeOK
  <2>2. /\ Boxes[w] = <<item[w]>> \o queue[w] /\ Boxes'[w] = <<>> \o queue[w]
    BY <1>19, <1>23, <2>1
  <2>3. /\ Boxes[w] # <<>> /\ Head(Boxes[w]) = item[w] /\ Boxes'[w] = Tail(Boxes[w])
    BY <1>3, <2>1, <2>2, HandAndQueue
  <2> QED
    BY <1>18, <1>23, <2>3
<1> QED
  BY <1>1, <1>7, <1>8, <1>9, <1>10, <1>12, <1>13, <1>20, <1>21, <1>22, <1>23

-----------------------------------------------------------------------------
(* The theorems.                                                           *)

LEMMA InitKeeps ==
    ASSUME Init PROVE IInv /\ Feed!Init
<1>1. TypeOK
  BY EventsAssumption DEF Init, TypeOK, NoTopic, Stop
<1>2. DeadQueueIsFull /\ PhaseOK /\ WaitOK /\ ListedOK /\ StopOK
  BY DEF Init, DeadQueueIsFull, PhaseOK, WaitOK, ListedOK, StopOK, Registered,
         Listening, NoTopic
<1>3. Members = {} /\ Boxes = [w \in Sockets |-> <<>>]
  BY DEF Init, Members, Boxes, Listening
<1>4. Feed!Init
  BY <1>3 DEF Init, Feed!Init
<1> QED
  BY <1>1, <1>2, <1>4 DEF IInv

\* A step of the bus or of a websocket keeps the invariant, and is a step of
\* the feed or none.
THEOREM Inductive ==
    ASSUME IInv, [Next]_vars PROVE IInv' /\ [Feed!Next]_(Feed!vars)
<1>1. CASE UNCHANGED vars
  <2>1. IInv'
    BY <1>1 DEF IInv, vars, TypeOK, DeadQueueIsFull, PhaseOK, WaitOK, ListedOK,
                StopOK, Registered, Listening
  <2>2. FeedSame
    BY <1>1 DEF vars, FeedSame, Members, Boxes, Listening, InHand
  <2> QED
    BY <2>1, <2>2, FeedStutters
<1>2. CASE Broadcast
  BY <1>2, BroadcastKeeps DEF Feed!Next
<1>3. ASSUME NEW w \in Sockets, Open(w) \/ NoToken(w)
      PROVE  IInv' /\ [Feed!Next]_(Feed!vars)
  BY <1>3, OpenKeeps
<1>4. ASSUME NEW w \in Sockets, Token(w) PROVE IInv' /\ [Feed!Next]_(Feed!vars)
  BY <1>4, TokenKeeps DEF Feed!Next
<1>5. ASSUME NEW w \in Sockets, Close(w) PROVE IInv' /\ [Feed!Next]_(Feed!vars)
  BY <1>5, CloseKeeps DEF Feed!Next
<1>6. ASSUME NEW w \in Sockets, FetchEvent(w) PROVE IInv' /\ [Feed!Next]_(Feed!vars)
  BY <1>6, FetchKeeps DEF Feed!Next
<1> QED
  BY <1>1, <1>2, <1>3, <1>4, <1>5, <1>6 DEF Next

\* Every queue keeps to its size, every listening websocket is on the topic
\* the bus knows, and the None of delete_queue is only for closed ones.
THEOREM Invariant == Spec => []IInv
<1>1. IInv /\ [Next]_vars => IInv'
  BY Inductive
<1> QED
  BY <1>1, InitKeeps, PTL DEF Spec

\* QueueInv: no queue exceeds maxsize, and only a full one outlives its
\* websocket on its topic.
THEOREM QueuesKeepSize == Spec => []QueueInv
<1>1. IInv => QueueInv
  BY DEF IInv, QueueInv
<1> QED
  BY <1>1, Invariant, PTL

\* CoEventBus, EventTopic and NodesEventHandler give every websocket the feed
\* of EventFeed: its events in order and once each, none missed while its
\* queue has room, whatever the other websockets do.
THEOREM BusImplementsFeed == Spec => ImplementsFeed
<1>1. Init => Feed!Init
  BY InitKeeps
<1>2. IInv /\ [Next]_vars => [Feed!Next]_(Feed!vars)
  BY Inductive
<1> QED
  BY <1>1, <1>2, Invariant, PTL DEF Spec, ImplementsFeed, Feed!Spec
=============================================================================
