--------------------------- MODULE ConnPoolProofs ---------------------------
(***************************************************************************)
(* Proofs about ConnPool, for any number of connections and nodes.  What   *)
(* makes the invariants of the pool inductive is an order in the IOLoop's  *)
(* queue: a coroutine that was promised a hello or a piece runs before the *)
(* close callback of its connection, so it never enters a connection into  *)
(* the pool that on_close would not see; what else may arm a timer behind  *)
(* on_close is named and nothing more does.  And about two more of the     *)
(* server's parts that many users share: RowCache, the rows of the nodes   *)
(* that it keeps in memory (what it serves is not stale), and BuildThreads,*)
(* the builds of all nodes (what a thread makes is what it was asked,      *)
(* unless the others misled it).                                           *)
(***************************************************************************)
EXTENDS ConnPool, RowCache, BuildThreads, FiniteSetTheorems, SequenceTheorems, WellFoundedInduction,
        NaturalsInduction, TLAPS

\* What may be queued: only a connection that was accepted sends PINGs.
Entries == (Conns \X {"run", "close"}) \cup ({c \in Conns : ident[c]} \X Pings)
QueueNamed == ready \in Seq(Entries)

\* The queue q holds no close callback of c.
NoClose(c, q) == \A i \in 1..Len(q) : q[i] # <<c, "close">>

\* The coroutine of c is in the queue q, before any close callback of c.
RunsFirst(c, q) ==
    \E j \in 1..Len(q) :
        q[j] = <<c, "run">> /\ \A i \in 1..j : q[i] # <<c, "close">>

\* The phases in which a coroutine was resumed while its stream was open.
Promised == {"hellogot", "accepted", "got"}

\* A close callback is queued by the close only, and after what was promised.
Ordered(q, st, ph) ==
    \A c \in Conns :
        /\ st[c] \in {"none", "open"} => NoClose(c, q)
        /\ ph[c] \in Promised => RunsFirst(c, q) /\ st[c] # "dropped"

QueueOrder == Ordered(ready, stream, phase)

\* A coroutine waits on an open stream only; before the accept there is none.
StreamOK ==
    \A c \in Conns :
        /\ phase[c] = "new" <=> stream[c] = "none"
        /\ phase[c] \in {"hello", "reading"} => stream[c] = "open"
        /\ phase[c] = "got" => inbuf[c] > 0

\* Who was accepted, who may be killed, and who has timers.
NamedOK ==
    \A c \in Conns :
        /\ ident[c] => phase[c] \in ServingPhases \cup {"ended", "crashed"}
        /\ phase[c] \in ServingPhases => ident[c]
        /\ killed[c] => ident[c] \/ phase[c] = "ended"
        /\ junk[c] => killed[c]
        /\ tCheck[c] \/ tOffline[c] \/ unsent[c] > 0 => ident[c]

IInv ==
    /\ TypeOK /\ PoolHoldsWhole /\ OneLivePerNode /\ OnlineExact
    /\ QueueNamed /\ QueueOrder /\ StreamOK /\ NamedOK

-----------------------------------------------------------------------------
(* The queue of the IOLoop.                                                *)

\* The queue holds callbacks of connections.
LEMMA EntriesAreKinds ==
    ASSUME NEW q \in Seq(Entries)
    PROVE  q \in Seq(Conns \X Kinds)
<1>1. Entries \subseteq Conns \X Kinds
  BY DEF Entries, Kinds
<1>2. \A i \in 1..Len(q) : q[i] \in Conns \X Kinds
  BY <1>1
<1> HIDE DEF Entries
<1> QED
  BY <1>2

\* What a step queues when no connection is accepted by it.
LEMMA QueueKept ==
    ASSUME ready' \in Seq(Entries), UNCHANGED ident
    PROVE  QueueNamed' /\ ready' \in Seq(Conns \X Kinds)
<1>1. QueueNamed'
  BY DEF QueueNamed, Entries
<1>2. ready' \in Seq(Conns \X Kinds)
  BY EntriesAreKinds
<1> QED
  BY <1>1, <1>2

\* A callback that is run leaves the queue; the others keep their order.
LEMMA TailOrder ==
    ASSUME NEW q \in Seq(Entries), q # <<>>, NEW c \in Conns
    PROVE  /\ Tail(q) \in Seq(Entries)
           /\ NoClose(c, q) => NoClose(c, Tail(q))
           /\ RunsFirst(c, q) /\ Head(q) # <<c, "run">> => RunsFirst(c, Tail(q))
<1>1. /\ Tail(q) \in Seq(Entries) /\ Len(q) \in Nat /\ Len(Tail(q)) = Len(q) - 1
      /\ Head(q) = q[1] /\ \A i \in 1..Len(Tail(q)) : Tail(q)[i] = q[i + 1]
  OBVIOUS
<1>2. NoClose(c, q) => NoClose(c, Tail(q))
  <2> SUFFICES ASSUME NoClose(c, q), NEW i \in 1..Len(Tail(q))
               PROVE  Tail(q)[i] # <<c, "close">>
    BY DEF NoClose
  <2>1. i + 1 \in 1..Len(q) /\ Tail(q)[i] = q[i + 1]
    BY <1>1
  <2> QED
    BY <2>1 DEF NoClose
<1>3. RunsFirst(c, q) /\ Head(q) # <<c, "run">> => RunsFirst(c, Tail(q))
  <2> SUFFICES ASSUME RunsFirst(c, q), Head(q) # <<c, "run">>
               PROVE  RunsFirst(c, Tail(q))
    OBVIOUS
  <2>1. PICK j \in 1..Len(q) :
             q[j] = <<c, "run">> /\ \A i \in 1..j : q[i] # <<c, "close">>
    BY DEF RunsFirst
  <2>2. j - 1 \in 1..Len(Tail(q)) /\ Tail(q)[j - 1] = q[j]
    BY <1>1, <2>1
  <2>3. ASSUME NEW i \in 1..(j - 1) PROVE Tail(q)[i] # <<c, "close">>
    <3>1. i + 1 \in 1..j /\ Tail(q)[i] = q[i + 1]
      BY <1>1, <2>2
    <3> QED
      BY <3>1, <2>1
  <2> QED
    BY <2>1, <2>2, <2>3 DEF RunsFirst
<1> QED
  BY <1>1, <1>2, <1>3

\* Callbacks are queued behind those that are there.
LEMMA LongerOrder ==
    ASSUME NEW q \in Seq(Entries), NEW w \in Seq(Entries), NEW c \in Conns
    PROVE  /\ q \o w \in Seq(Entries)
           /\ NoClose(c, q) /\ NoClose(c, w) => NoClose(c, q \o w)
           /\ RunsFirst(c, q) => RunsFirst(c, q \o w)
           /\ NoClose(c, q) /\ RunsFirst(c, w) => RunsFirst(c, q \o w)
<1>1. /\ q \o w \in Seq(Entries) /\ Len(q) \in Nat /\ Len(w) \in Nat
      /\ Len(q \o w) = Len(q) + Len(w)
      /\ \A i \in 1..Len(q) : (q \o w)[i] = q[i]
      /\ \A i \in (Len(q) + 1)..(Len(q) + Len(w)) : (q \o w)[i] = w[i - Len(q)]
  BY ConcatProperties
<1>2. ASSUME NoClose(c, q), NoClose(c, w) PROVE NoClose(c, q \o w)
  <2> SUFFICES ASSUME NEW i \in 1..Len(q \o w) PROVE (q \o w)[i] # <<c, "close">>
    BY DEF NoClose
  <2>1. CASE i \in 1..Len(q)
    BY <1>1, <1>2, <2>1 DEF NoClose
  <2>2. CASE i \in (Len(q) + 1)..(Len(q) + Len(w))
    <3>1. i - Len(q) \in 1..Len(w)
      BY <1>1, <2>2
    <3> QED
      BY <1>1, <1>2, <2>2, <3>1 DEF NoClose
  <2> QED
    BY <1>1, <2>1, <2>2
<1>3. ASSUME RunsFirst(c, q) PROVE RunsFirst(c, q \o w)
  <2>1. PICK j \in 1..Len(q) :
             q[j] = <<c, "run">> /\ \A i \in 1..j : q[i] # <<c, "close">>
    BY <1>3 DEF RunsFirst
  <2>2. j \in 1..Len(q \o w) /\ \A i \in 1..j : i \in 1..Len(q)
    BY <1>1
  <2> QED
    BY <1>1, <2>1, <2>2 DEF RunsFirst
<1>4. ASSUME NoClose(c, q), RunsFirst(c, w) PROVE RunsFirst(c, q \o w)
  <2>1. PICK j \in 1..Len(w) :
             w[j] = <<c, "run">> /\ \A i \in 1..j : w[i] # <<c, "close">>
    BY <1>4 DEF RunsFirst
  <2> DEFINE k == Len(q) + j
  <2>2. k \in 1..Len(q \o w) /\ (q \o w)[k] = <<c, "run">>
    BY <1>1, <2>1
  <2>3. ASSUME NEW i \in 1..k PROVE (q \o w)[i] # <<c, "close">>
    <3>1. CASE i \in 1..Len(q)
      BY <1>1, <1>4, <3>1 DEF NoClose
    <3>2. CASE i \in (Len(q) + 1)..(Len(q) + j)
      <4>1. i - Len(q) \in 1..j /\ (q \o w)[i] = w[i - Len(q)]
        BY <1>1, <3>2
      <4> QED
        BY <2>1, <4>1
    <3> QED
      BY <1>1, <3>1, <3>2
  <2> QED
    BY <2>2, <2>3 DEF RunsFirst
<1> QED
  BY <1>1, <1>2, <1>3, <1>4

\* A queue of one resumed coroutine, of one close callback, and both.
LEMMA Singles ==
    ASSUME NEW c \in Conns
    PROVE  /\ <<<<c, "run">>>> \in Seq(Entries) /\ <<<<c, "close">>>> \in Seq(Entries)
           /\ RunsFirst(c, <<<<c, "run">>>>)
           /\ \A d \in Conns : NoClose(d, <<<<c, "run">>>>)
           /\ \A d \in Conns \ {c} : NoClose(d, <<<<c, "close">>>>)
BY DEF Entries, RunsFirst, NoClose

\* Any other callback of a connection that was accepted.
LEMMA SinglePing ==
    ASSUME NEW c \in Conns, NEW k \in Pings, ident[c]
    PROVE  /\ <<<<c, k>>>> \in Seq(Entries)
           /\ \A d \in Conns : NoClose(d, <<<<c, k>>>>)
<1>1. <<c, k>> \in Entries /\ k # "close"
  BY DEF Entries, Pings
<1> QED
  BY <1>1 DEF NoClose

\* What IOStream.close queues is about its connection only.
LEMMA WakesOrder ==
    ASSUME NEW c \in Conns, NEW ph, unsent[c] \in Nat, unsent[c] > 0 => ident[c]
    PROVE  /\ Wakes(c, ph) \in Seq(Entries)
           /\ \A d \in Conns \ {c} : NoClose(d, Wakes(c, ph))
<1> DEFINE r == IF ph[c] \in {"hello", "reading"} THEN <<<<c, "run">>>> ELSE <<>>
           u == [i \in 1..unsent[c] |-> <<c, "unwritten">>]
<1>1. r \in Seq(Entries) /\ \A d \in Conns : NoClose(d, r)
  BY Singles DEF NoClose, Entries
<1>2. u \in Seq(Entries) /\ \A d \in Conns : NoClose(d, u)
  <2>1. \A i \in 1..unsent[c] : <<c, "unwritten">> \in Entries
    BY DEF Entries, Pings
  <2>2. u \in Seq(Entries) /\ Len(u) = unsent[c]
    <3> HIDE DEF Entries
    <3> QED
      BY <2>1
  <2> QED
    BY <2>2 DEF NoClose
<1> HIDE DEF r, u
<1>3. r \o u \in Seq(Entries) /\ \A d \in Conns : NoClose(d, r \o u)
  BY <1>1, <1>2, LongerOrder
<1>4. (r \o u) \o <<<<c, "close">>>> \in Seq(Entries)
  BY <1>3, Singles, LongerOrder
<1>5. \A d \in Conns \ {c} : NoClose(d, (r \o u) \o <<<<c, "close">>>>)
  BY <1>3, Singles, LongerOrder
<1> QED
  BY <1>4, <1>5 DEF Wakes, r, u

\* The coroutine of c, resumed while its stream is open, runs before any close.
LEMMA ResumedOrder ==
    ASSUME NEW q \in Seq(Entries), NEW st, NEW ph \in [Conns -> Phases],
           NEW c \in Conns, NEW p \in Phases,
           Ordered(q, st, ph), st[c] = "open" \/ p \notin Promised
    PROVE  /\ Append(q, <<c, "run">>) \in Seq(Entries)
           /\ Ordered(Append(q, <<c, "run">>), st, [ph EXCEPT ![c] = p])
<1> DEFINE w == <<<<c, "run">>>>
<1>1. w \in Seq(Entries) /\ RunsFirst(c, w) /\ \A d \in Conns : NoClose(d, w)
  BY Singles
<1>2. Append(q, <<c, "run">>) = q \o w
  BY AppendIsConcat DEF Entries
<1> HIDE DEF w
<1>3. q \o w \in Seq(Entries)
  BY <1>1, LongerOrder
<1>4. ASSUME NEW d \in Conns, st[d] \in {"none", "open"} PROVE NoClose(d, q \o w)
  BY <1>1, <1>4, LongerOrder DEF Ordered
<1>5. ASSUME NEW d \in Conns, [ph EXCEPT ![c] = p][d] \in Promised
      PROVE  RunsFirst(d, q \o w) /\ st[d] # "dropped"
  <2>1. CASE d = c
    <3>1. st[c] = "open"
      BY <1>5, <2>1
    <3> QED
      BY <1>1, <2>1, <3>1, LongerOrder DEF Ordered
  <2>2. CASE d # c
    BY <1>1, <1>5, <2>2, LongerOrder DEF Ordered
  <2> QED
    BY <2>1, <2>2
<1> QED
  BY <1>2, <1>3, <1>4, <1>5 DEF Ordered

\* The coroutine of c asks to be run again.
LEMMA AgainOrder ==
    ASSUME NEW q \in Seq(Entries), NEW st, NEW ph, NEW c \in Conns, Ordered(q, st, ph)
    PROVE  /\ Append(q, <<c, "run">>) \in Seq(Entries)
           /\ Ordered(Append(q, <<c, "run">>), st, ph)
<1> DEFINE w == <<<<c, "run">>>>
<1>1. w \in Seq(Entries) /\ \A d \in Conns : NoClose(d, w)
  BY Singles
<1>2. Append(q, <<c, "run">>) = q \o w
  BY AppendIsConcat DEF Entries
<1> HIDE DEF w
<1> QED
  BY <1>1, <1>2, LongerOrder DEF Ordered

\* The coroutine of c ran: it waits, or has ended.
LEMMA RanOrder ==
    ASSUME TypeOK, QueueNamed, QueueOrder, NEW c \in Conns, Running(c, "run"),
           NEW p \in Phases \ Promised
    PROVE  /\ Tail(ready) \in Seq(Entries)
           /\ Ordered(Tail(ready), stream, [phase EXCEPT ![c] = p])
<1>1. /\ ready \in Seq(Entries) /\ ready # <<>> /\ Head(ready) = <<c, "run">>
      /\ phase \in [Conns -> Phases]
  BY DEF TypeOK, Running, QueueNamed
<1>2. ASSUME NEW d \in Conns, [phase EXCEPT ![c] = p][d] \in Promised
      PROVE  RunsFirst(d, Tail(ready)) /\ stream[d] # "dropped"
  <2>1. d # c /\ phase[d] \in Promised
    BY <1>1, <1>2
  <2>2. Head(ready) # <<d, "run">>
    BY <1>1, <2>1
  <2> QED
    BY <1>1, <2>1, <2>2, TailOrder DEF QueueOrder, Ordered
<1> QED
  BY <1>1, <1>2, TailOrder DEF QueueOrder, Ordered

\* The stream of c is closed: its close callback is the last in the queue.
LEMMA ClosedOrder ==
    ASSUME NEW q \in Seq(Entries), NEW ph \in [Conns -> Phases], NEW c \in Conns,
           stream \in [Conns -> {"none", "open", "closed", "dropped"}],
           unsent[c] \in Nat, unsent[c] > 0 => ident[c],
           Ordered(q, stream, ph), stream[c] = "open"
    PROVE  /\ q \o Wakes(c, ph) \in Seq(Entries)
           /\ Ordered(q \o Wakes(c, ph), [stream EXCEPT ![c] = "closed"],
                      FailRead(c, ph))
<1>1. /\ Wakes(c, ph) \in Seq(Entries)
      /\ \A d \in Conns \ {c} : NoClose(d, Wakes(c, ph))
  BY WakesOrder
<1>2. q \o Wakes(c, ph) \in Seq(Entries)
  BY <1>1, LongerOrder
<1> DEFINE st == [stream EXCEPT ![c] = "closed"]
<1>3. ASSUME NEW d \in Conns, st[d] \in {"none", "open"}
      PROVE  NoClose(d, q \o Wakes(c, ph))
  <2>1. d # c /\ stream[d] \in {"none", "open"}
    BY <1>3
  <2> QED
    BY <1>1, <2>1, LongerOrder DEF Ordered
<1>4. ASSUME NEW d \in Conns, FailRead(c, ph)[d] \in Promised
      PROVE  RunsFirst(d, q \o Wakes(c, ph)) /\ st[d] # "dropped"
  <2>1. ph[d] \in Promised
    BY <1>4 DEF FailRead, Promised
  <2>2. RunsFirst(d, q) /\ stream[d] # "dropped"
    BY <2>1 DEF Ordered
  <2> QED
    BY <1>1, <2>2, LongerOrder
<1> QED
  BY <1>2, <1>3, <1>4 DEF Ordered

-----------------------------------------------------------------------------
(* The end of a connection.                                                *)

\* What CloseStream does, whatever the caller's phases and queue are: if the
\* stream is open, it is closed and a pending read fails.
LEMMA CloseStreamDoes ==
    ASSUME TypeOK, NEW c \in Conns, unsent[c] > 0 => ident[c],
           NEW ph \in [Conns -> Phases], NEW rest \in Seq(Entries),
           Ordered(rest, stream, ph), CloseStream(c, ph, rest)
    PROVE  /\ ready' \in Seq(Entries) /\ QueueOrder'
           /\ unsent' = unsent \/ unsent' = [unsent EXCEPT ![c] = 0]
           /\ \/ /\ stream[c] = "open" /\ stream' = [stream EXCEPT ![c] = "closed"]
                 /\ phase' = FailRead(c, ph)
              \/ stream[c] # "open" /\ stream' = stream /\ phase' = ph
<1>1. stream \in [Conns -> {"none", "open", "closed", "dropped"}] /\ unsent[c] \in Nat
  BY DEF TypeOK
<1>2. CASE stream[c] = "open"
  <2>1. /\ stream' = [stream EXCEPT ![c] = "closed"] /\ phase' = FailRead(c, ph)
        /\ ready' = rest \o Wakes(c, ph) /\ unsent' = [unsent EXCEPT ![c] = 0]
    BY <1>2 DEF CloseStream
  <2>2. rest \o Wakes(c, ph) \in Seq(Entries) /\ Ordered(ready', stream', phase')
    BY <1>1, <1>2, <2>1, ClosedOrder
  <2> QED
    BY <1>2, <2>1, <2>2 DEF QueueOrder
<1>3. CASE stream[c] # "open"
  BY <1>1, <1>3 DEF CloseStream, QueueOrder
<1> QED
  BY <1>2, <1>3

\* No PING waits for the socket of a connection that is closed, or as before.
LEMMA FewerUnsent ==
    ASSUME unsent \in [Conns -> Nat], NEW c \in Conns,
           unsent' = unsent \/ unsent' = [unsent EXCEPT ![c] = 0]
    PROVE  /\ unsent' \in [Conns -> Nat]
           /\ \A d \in Conns : unsent'[d] > 0 => unsent[d] > 0
<1>1. CASE unsent' = unsent
  BY <1>1
<1>2. CASE unsent' = [unsent EXCEPT ![c] = 0]
  <2>1. \A d \in Conns : unsent'[d] = IF d = c THEN 0 ELSE unsent[d]
    BY <1>2
  <2> QED
    BY <1>2, <2>1
<1> QED
  BY <1>1, <1>2

\* A failed read leaves its phase for readerror or helloerror.
LEMMA FailReadDoes ==
    ASSUME NEW ph \in [Conns -> Phases], NEW c \in Conns
    PROVE  /\ FailRead(c, ph) \in [Conns -> Phases]
           /\ \A d \in Conns : d # c => FailRead(c, ph)[d] = ph[d]
           /\ ph[c] = "hello" => FailRead(c, ph)[c] = "helloerror"
           /\ ph[c] = "reading" => FailRead(c, ph)[c] = "readerror"
           /\ ph[c] \notin {"hello", "reading"} => FailRead(c, ph)[c] = ph[c]
BY DEF FailRead, Phases, HelloPhases, ServingPhases

\* kill_myself keeps the invariant, whoever calls it: the coroutine of c as it
\* ends (ph and rest without it), a timer or a user (ph and rest as they are).
\* The timers of c may have been disarmed or armed by the caller.
LEMMA KillKeeps ==
    ASSUME IInv, NEW c \in Conns,
           NEW ph \in [Conns -> Phases], NEW rest \in Seq(Entries),
           Ordered(rest, stream, ph),
           ph = phase \/ (ph = [phase EXCEPT ![c] = "ended"] /\ phase[c] # "new"),
           ident[c] \/ ph[c] = "ended",
           KillMyself(c, ph, rest),
           tCheck' \in [Conns -> BOOLEAN], tOffline' \in [Conns -> BOOLEAN],
           \A d \in Conns : tCheck'[d] \/ tOffline'[d] =>
               \/ tCheck[d] \/ tOffline[d]
               \/ d = c /\ ident[c],
           UNCHANGED <<ident, junk, inbuf, lines, pieces, gone, pool>>
    PROVE  IInv'
<1> USE DEF IInv
<1>1. TypeOK /\ QueueNamed /\ QueueOrder /\ StreamOK /\ NamedOK
  OBVIOUS
<1>2. \A d \in Conns : d # c => ph[d] = phase[d]
  BY <1>1 DEF TypeOK
<1>3. phase[c] = "new" <=> ph[c] = "new"
  BY <1>1 DEF TypeOK
<1>4. CASE killed[c] \/ stream[c] = "dropped"
  <2>1. phase' = ph /\ ready' = rest /\ UNCHANGED <<stream, unsent, killed, lastSeen>>
    BY <1>4 DEF KillMyself
  <2>2. TypeOK' /\ QueueNamed'
    BY <1>1, <2>1, QueueKept DEF TypeOK
  <2>3. QueueOrder'
    BY <2>1 DEF QueueOrder
  <2>4. StreamOK'
    BY <1>1, <1>2, <1>3, <2>1 DEF StreamOK, TypeOK
  <2>5. NamedOK'
    <3> SUFFICES ASSUME NEW d \in Conns PROVE NamedOK!(d)'
      BY DEF NamedOK
    <3>1. CASE d # c
      BY <1>1, <1>2, <2>1, <3>1 DEF NamedOK
    <3>2. CASE d = c
      BY <1>1, <2>1, <3>2 DEF NamedOK, TypeOK, ServingPhases
    <3> QED
      BY <3>1, <3>2
  <2>6. PoolHoldsWhole' /\ OneLivePerNode' /\ OnlineExact'
    BY <2>1 DEF PoolHoldsWhole, OneLivePerNode, OnlineExact, OnlineMeansServed,
                ServedMeansOnline
  <2> QED
    BY <2>2, <2>3, <2>4, <2>5, <2>6
<1>5. CASE ~killed[c] /\ stream[c] # "dropped"
  <2>1. /\ CloseStream(c, ph, rest)
        /\ killed' = [killed EXCEPT ![c] = TRUE]
        /\ lastSeen' = Offline(c)
    BY <1>5 DEF KillMyself
  <2>2. /\ ready' \in Seq(Entries) /\ QueueOrder'
        /\ unsent' = unsent \/ unsent' = [unsent EXCEPT ![c] = 0]
        /\ \/ /\ stream[c] = "open" /\ stream' = [stream EXCEPT ![c] = "closed"]
              /\ phase' = FailRead(c, ph)
           \/ stream[c] # "open" /\ stream' = stream /\ phase' = ph
    <3>1. unsent[c] > 0 => ident[c]
      BY <1>1 DEF NamedOK
    <3> QED
      BY <1>1, <2>1, <3>1, CloseStreamDoes
  <2>3. /\ stream' \in [Conns -> {"none", "open", "closed", "dropped"}]
        /\ \A d \in Conns : d # c => stream'[d] = stream[d]
        /\ stream'[c] # "dropped" /\ stream'[c] # "open"
        /\ stream'[c] = "none" <=> stream[c] = "none"
    BY <1>1, <1>5, <2>2 DEF TypeOK
  <2>4. /\ phase' \in [Conns -> Phases]
        /\ \A d \in Conns : d # c => phase'[d] = phase[d]
        /\ phase'[c] = "new" <=> phase[c] = "new"
        /\ phase'[c] = "got" => phase[c] = "got"
        /\ phase'[c] \notin {"hello", "reading"}
        /\ phase'[c] \in ServingPhases <=> ph[c] \in ServingPhases
        /\ ph[c] = "ended" => phase'[c] = "ended"
        /\ ph[c] = "crashed" => phase'[c] = "crashed"
    <3>1. CASE stream[c] = "open"
      <4>1. phase' = FailRead(c, ph)
        BY <2>2, <3>1
      <4>2. phase[c] = "got" \/ ph[c] # "got"
        BY <1>1 DEF TypeOK
      <4>3. "readerror" \in ServingPhases /\ "reading" \in ServingPhases
            /\ "hello" \notin ServingPhases /\ "helloerror" \notin ServingPhases
        BY DEF ServingPhases
      <4>4. /\ FailRead(c, ph) \in [Conns -> Phases]
            /\ \A d \in Conns : d # c => FailRead(c, ph)[d] = ph[d]
            /\ ph[c] = "hello" => FailRead(c, ph)[c] = "helloerror"
            /\ ph[c] = "reading" => FailRead(c, ph)[c] = "readerror"
            /\ ph[c] \notin {"hello", "reading"} => FailRead(c, ph)[c] = ph[c]
        BY FailReadDoes
      <4> QED
        BY <1>2, <1>3, <4>1, <4>2, <4>3, <4>4
    <3>2. CASE stream[c] # "open"
      BY <1>1, <1>2, <1>3, <2>2, <3>2, FailReadDoes DEF StreamOK, TypeOK
    <3> QED
      BY <3>1, <3>2
  <2>5. /\ killed' \in [Conns -> BOOLEAN] /\ killed'[c]
        /\ \A d \in Conns : d # c => killed'[d] = killed[d]
    BY <1>1, <2>1 DEF TypeOK
  <2>6. TypeOK' /\ QueueNamed' /\ \A d \in Conns : unsent'[d] > 0 => unsent[d] > 0
    <3>1. lastSeen' \in [Sns -> {"never", "online", "offline"}]
      BY <1>1, <2>1 DEF TypeOK, Offline
    <3>2. /\ unsent' \in [Conns -> Nat]
          /\ \A d \in Conns : unsent'[d] > 0 => unsent[d] > 0
      BY <1>1, <2>2, FewerUnsent DEF TypeOK
    <3> QED
      BY <1>1, <2>2, <2>3, <2>4, <2>5, <3>1, <3>2, QueueKept DEF TypeOK
  <2>7. StreamOK'
    BY <1>1, <2>3, <2>4 DEF StreamOK
  <2>8. NamedOK'
    <3> SUFFICES ASSUME NEW d \in Conns PROVE NamedOK!(d)'
      BY DEF NamedOK
    <3>1. CASE d # c
      BY <1>1, <2>4, <2>5, <2>6, <3>1 DEF NamedOK
    <3>2. CASE d = c
      <4>1. ident[c] => phase'[c] \in ServingPhases \cup {"ended", "crashed"}
        BY <1>1, <2>4 DEF NamedOK, TypeOK
      <4>2. phase'[c] \in ServingPhases => ident[c]
        BY <1>1, <2>4 DEF NamedOK, TypeOK, ServingPhases
      <4>3. ident[c] \/ phase'[c] = "ended"
        BY <2>4
      <4>4. tCheck'[c] \/ tOffline'[c] \/ unsent'[c] > 0 => ident[c]
        BY <1>1, <2>6 DEF NamedOK
      <4> QED
        BY <2>5, <3>2, <4>1, <4>2, <4>3, <4>4
    <3> QED
      BY <3>1, <3>2
  <2>10. PoolHoldsWhole'
    BY <1>1, <2>2 DEF PoolHoldsWhole, TypeOK
  <2>11. OneLivePerNode'
    BY <2>3, <2>5 DEF OneLivePerNode
  <2>12. OnlineExact'
    <3>1. Sn[c] \in Sns /\ lastSeen \in [Sns -> {"never", "online", "offline"}]
          /\ NoConn \notin Conns
      BY <1>1, PoolAssumption DEF TypeOK
    <3>2. ~junk[c]
      BY <1>1, <1>5 DEF NamedOK
    <3>3. CASE ident[c]
      <4>1. lastSeen' = [lastSeen EXCEPT ![Sn[c]] = "offline"]
        BY <2>1, <3>2, <3>3 DEF Offline
      <4>2. pool[Sn[c]] = c
        BY <1>5, <3>3 DEF OneLivePerNode
      <4>3. ASSUME NEW s \in Sns, s # Sn[c]
            PROVE  lastSeen'[s] = lastSeen[s] /\ pool[s] # c
        BY <3>1, <4>1, <4>3 DEF PoolHoldsWhole
      <4>4. OnlineMeansServed'
        <5> SUFFICES ASSUME NEW s \in Sns, lastSeen'[s] = "online"
                     PROVE  OnlineMeansServed!(s)!2'
          BY DEF OnlineMeansServed
        <5>1. s # Sn[c] /\ lastSeen[s] = "online"
          BY <3>1, <4>1, <4>3
        <5>2. CASE pool[s] # NoConn /\ ~killed[pool[s]]
          <6>1. pool[s] \in Conns /\ pool[s] # c
            BY <1>1, <4>3, <5>1, <5>2 DEF TypeOK
          <6> QED
            BY <2>5, <5>2, <6>1
        <5>3. CASE \E d \in Conns : Sn[d] = s /\ stream[d] = "dropped" /\ ~killed[d]
          BY <1>5, <2>3, <2>5, <5>3
        <5> QED
          BY <5>1, <5>2, <5>3 DEF OnlineExact, OnlineMeansServed
      <4>5. ServedMeansOnline'
        <5> SUFFICES ASSUME NEW s \in Sns, pool[s] # NoConn, ~killed'[pool[s]]
                     PROVE  lastSeen'[s] = "online"
          BY DEF ServedMeansOnline
        <5>1. pool[s] \in Conns /\ pool[s] # c
          BY <1>1, <2>5 DEF TypeOK
        <5>2. s # Sn[c] /\ ~killed[pool[s]]
          BY <2>5, <4>2, <5>1
        <5> QED
          BY <4>3, <5>2 DEF OnlineExact, ServedMeansOnline
      <4> QED
        BY <4>4, <4>5 DEF OnlineExact
    <3>4. CASE ~ident[c]
      <4>1. lastSeen' = lastSeen
        BY <2>1, <3>4 DEF Offline
      <4>2. \A s \in Sns : pool[s] # NoConn => pool[s] \in Conns /\ pool[s] # c
        BY <1>1, <3>4 DEF TypeOK, PoolHoldsWhole
      <4>3. \A s \in Sns : pool[s] # NoConn => killed'[pool[s]] = killed[pool[s]]
        BY <2>5, <4>2
      <4>4. \A d \in Conns : stream[d] = "dropped" => stream'[d] = "dropped"
                                                   /\ killed'[d] = killed[d]
        BY <1>5, <2>3, <2>5
      <4> QED
        BY <4>1, <4>3, <4>4 DEF OnlineExact, OnlineMeansServed, ServedMeansOnline
    <3> QED
      BY <3>3, <3>4
  <2> QED
    BY <2>2, <2>6, <2>7, <2>8, <2>10, <2>11, <2>12
<1> QED
  BY <1>4, <1>5

\* on_close: the connection leaves the pool, if it is still in it.
LEMMA OnCloseKeeps ==
    ASSUME IInv, NEW c \in Conns, OnClose(c)
    PROVE  IInv'
<1> USE DEF IInv
<1>1. TypeOK /\ QueueNamed /\ QueueOrder /\ StreamOK /\ NamedOK
  OBVIOUS
<1>2. /\ ready # <<>> /\ Head(ready) = <<c, "close">> /\ ready' = Tail(ready)
      /\ tCheck' = [tCheck EXCEPT ![c] = FALSE]
      /\ tOffline' = [tOffline EXCEPT ![c] = FALSE]
      /\ pool' = Forget(c) /\ stream' = [stream EXCEPT ![c] = "dropped"]
      /\ UNCHANGED <<phase, ident, killed, junk, inbuf, lines, pieces, unsent, gone,
                     lastSeen>>
  BY DEF OnClose, Running, CancelTimers
<1>3. ready \in Seq(Entries) /\ 1 \in 1..Len(ready) /\ ready[1] = <<c, "close">>
  BY <1>1, <1>2 DEF QueueNamed
<1>4. stream[c] \notin {"none", "open"} /\ phase[c] \notin Promised
  <2>1. ~NoClose(c, ready) /\ ~RunsFirst(c, ready)
    BY <1>3 DEF NoClose, RunsFirst
  <2> QED
    BY <1>1, <2>1 DEF QueueOrder, Ordered
<1>5. Sn[c] \in Sns /\ NoConn \notin Conns
  BY PoolAssumption
<1>6. TypeOK' /\ QueueNamed'
  <2>1. pool' \in [Sns -> Conns \cup {NoConn}]
    BY <1>1, <1>2 DEF Forget, TypeOK
  <2>2. ready' \in Seq(Entries)
    BY <1>2, <1>3, TailOrder
  <2> QED
    BY <1>1, <1>2, <2>1, <2>2, QueueKept DEF TypeOK
<1>7. QueueOrder'
  <2>1. ASSUME NEW d \in Conns, stream'[d] \in {"none", "open"}
        PROVE  NoClose(d, ready')
    BY <1>1, <1>2, <1>3, <2>1, TailOrder DEF QueueOrder, Ordered, TypeOK
  <2>2. ASSUME NEW d \in Conns, phase'[d] \in Promised
        PROVE  RunsFirst(d, ready') /\ stream'[d] # "dropped"
    <3>1. d # c /\ phase[d] \in Promised
      BY <1>2, <1>4, <2>2
    <3>2. Head(ready) # <<d, "run">>
      BY <1>2
    <3> QED
      BY <1>1, <1>2, <1>3, <3>1, <3>2, TailOrder DEF QueueOrder, Ordered, TypeOK
  <2> QED
    BY <2>1, <2>2 DEF QueueOrder, Ordered
<1>8. StreamOK'
  BY <1>1, <1>2, <1>4 DEF StreamOK, TypeOK
<1>9. NamedOK'
  BY <1>1, <1>2 DEF NamedOK, TypeOK
<1>11. \A s \in Sns : /\ pool'[s] # NoConn => pool'[s] = pool[s] /\ pool[s] # c
                      /\ pool[s] # NoConn /\ pool[s] # c => pool'[s] = pool[s]
  BY <1>1, <1>2, <1>5 DEF Forget, TypeOK, PoolHoldsWhole
<1>12. PoolHoldsWhole'
  BY <1>1, <1>2, <1>11 DEF PoolHoldsWhole, TypeOK
<1>13. OneLivePerNode'
  <2> SUFFICES ASSUME NEW d \in Conns, ident[d], ~killed[d], stream'[d] # "dropped"
               PROVE  pool'[Sn[d]] = d
    BY <1>2 DEF OneLivePerNode
  <2>1. d # c /\ pool[Sn[d]] = d /\ Sn[d] \in Sns
    BY <1>1, <1>2, PoolAssumption DEF OneLivePerNode, TypeOK
  <2> QED
    BY <1>5, <1>11, <2>1
<1>14. OnlineExact'
  <2>1. OnlineMeansServed'
    <3> SUFFICES ASSUME NEW s \in Sns, lastSeen[s] = "online"
                 PROVE  OnlineMeansServed!(s)!2'
      BY <1>2 DEF OnlineMeansServed
    <3>1. CASE pool[s] # NoConn /\ ~killed[pool[s]] /\ pool[s] # c
      BY <1>2, <1>11, <3>1
    <3>2. CASE pool[s] = c /\ ~killed[c]
      BY <1>1, <1>2, <1>5, <3>2 DEF PoolHoldsWhole, TypeOK
    <3>3. CASE \E d \in Conns : Sn[d] = s /\ stream[d] = "dropped" /\ ~killed[d]
      BY <1>1, <1>2, <3>3 DEF TypeOK
    <3> QED
      BY <3>1, <3>2, <3>3 DEF OnlineExact, OnlineMeansServed
  <2>2. ServedMeansOnline'
    BY <1>2, <1>11 DEF OnlineExact, ServedMeansOnline
  <2> QED
    BY <2>1, <2>2 DEF OnlineExact
<1> QED
  BY <1>6, <1>7, <1>8, <1>9, <1>12, <1>13, <1>14

-----------------------------------------------------------------------------
(* The hello.                                                              *)

\* The step leaves alone what only hellos, ends and timers touch.
Undisturbed ==
    UNCHANGED <<stream, unsent, ident, killed, junk, gone, pool, lastSeen>>

\* Of a step that only moves the coroutine of c on, the invariant asks the new
\* queue to be in order and the new phase to fit what it leaves alone.
LEMMA MovesKeep ==
    ASSUME IInv, NEW c \in Conns, NEW p \in Phases,
           phase' = [phase EXCEPT ![c] = p], Undisturbed,
           ready' \in Seq(Entries), QueueOrder',
           phase[c] # "new", p # "new",
           p \in {"hello", "reading"} => stream[c] = "open",
           p = "got" => inbuf'[c] > 0,
           p \in ServingPhases => ident[c],
           ident[c] => p \in ServingPhases \cup {"ended", "crashed"},
           killed[c] => ident[c] \/ p = "ended",
           pieces' \in Nat, pieces' <= MaxPieces, inbuf' \in [Conns -> Nat],
           lines' \in [Conns -> Nat],
           \A d \in Conns : inbuf'[d] <= pieces' /\ (d # c => inbuf'[d] = inbuf[d]),
           UNCHANGED <<tCheck, tOffline>> \/ (ArmTimers(c) /\ ident[c])
    PROVE  IInv'
<1> USE DEF IInv
<1>1. TypeOK /\ StreamOK /\ NamedOK
  OBVIOUS
<1>2. /\ tCheck' \in [Conns -> BOOLEAN] /\ tOffline' \in [Conns -> BOOLEAN]
      /\ \A d \in Conns : tCheck'[d] \/ tOffline'[d] =>
             tCheck[d] \/ tOffline[d] \/ (d = c /\ ident[c])
  BY <1>1 DEF TypeOK, ArmTimers
<1>3. TypeOK' /\ QueueNamed'
  BY <1>1, <1>2, QueueKept DEF TypeOK, Undisturbed
<1>4. phase'[c] = p /\ \A d \in Conns : d # c => phase'[d] = phase[d]
  BY <1>1 DEF TypeOK
<1>5. StreamOK'
  BY <1>1, <1>4 DEF StreamOK, Undisturbed
<1>6. NamedOK'
  <2> SUFFICES ASSUME NEW d \in Conns PROVE NamedOK!(d)'
    BY DEF NamedOK
  <2>1. CASE d # c
    BY <1>1, <1>2, <1>4, <2>1 DEF NamedOK, Undisturbed
  <2>2. CASE d = c
    BY <1>1, <1>2, <1>4, <2>2 DEF NamedOK, Undisturbed
  <2> QED
    BY <2>1, <2>2
<1>8. PoolHoldsWhole' /\ OneLivePerNode' /\ OnlineExact'
  BY DEF Undisturbed, PoolHoldsWhole, OneLivePerNode, OnlineExact,
         OnlineMeansServed, ServedMeansOnline
<1> QED
  BY <1>3, <1>5, <1>6, <1>8

\* A connection is accepted: nothing is queued for it.
LEMMA AcceptKeeps ==
    ASSUME IInv, NEW c \in Conns, Accept(c)
    PROVE  IInv'
<1> USE DEF IInv
<1>1. TypeOK /\ QueueNamed /\ QueueOrder /\ StreamOK /\ NamedOK
  OBVIOUS
<1>2. /\ phase[c] = "new" /\ stream[c] = "none"
      /\ stream' = [stream EXCEPT ![c] = "open"] /\ phase' = [phase EXCEPT ![c] = "hello"]
      /\ UNCHANGED <<ready, ident, killed, junk, inbuf, lines, pieces, unsent, gone,
                     tCheck, tOffline, pool, lastSeen>>
  BY <1>1 DEF Accept, StreamOK
<1>3. "hello" \in Phases /\ "hello" \notin Promised
  BY DEF Phases, HelloPhases, Promised
<1>4. TypeOK' /\ QueueNamed'
  BY <1>1, <1>2, <1>3 DEF TypeOK, QueueNamed, Entries
<1>5. QueueOrder'
  BY <1>1, <1>2, <1>3 DEF QueueOrder, Ordered, TypeOK
<1>6. StreamOK'
  BY <1>1, <1>2 DEF StreamOK, TypeOK
<1>7. ~ident[c]
  BY <1>1, <1>2 DEF NamedOK, ServingPhases
<1>8. NamedOK'
  <2>1. ~killed[c]
    BY <1>1, <1>2, <1>7 DEF NamedOK
  <2> QED
    BY <1>1, <1>2, <1>7, <2>1 DEF NamedOK, TypeOK, ServingPhases
<1>10. PoolHoldsWhole'
  BY <1>1, <1>2, <1>7 DEF PoolHoldsWhole, TypeOK
<1>11. OneLivePerNode'
  BY <1>1, <1>2, <1>7 DEF OneLivePerNode, TypeOK
<1>12. OnlineExact'
  BY <1>1, <1>2 DEF OnlineExact, OnlineMeansServed, ServedMeansOnline, TypeOK
<1> QED
  BY <1>4, <1>5, <1>6, <1>8, <1>10, <1>11, <1>12

\* The hello arrives, or its time is up, or the sleep after a bad one.
LEMMA WaitEndsKeeps ==
    ASSUME IInv, NEW c \in Conns, WaitEnds(c)
    PROVE  IInv'
<1>1. TypeOK /\ QueueNamed /\ QueueOrder /\ StreamOK /\ NamedOK
  BY DEF IInv
<1>2. PICK p \in {"hellogot", "hellotimeout", "sorrydone"} :
          /\ phase' = [phase EXCEPT ![c] = p] /\ phase[c] \in {"hello", "sorry"}
          /\ p = "hellogot" => stream[c] = "open"
  BY DEF WaitEnds
<1>3. /\ ready' = Append(ready, <<c, "run">>) /\ Undisturbed
      /\ UNCHANGED <<inbuf, lines, pieces, tCheck, tOffline>>
  BY DEF WaitEnds, Undisturbed
<1>4. p \in Phases /\ (p = "hellogot" \/ p \notin Promised) /\ p \notin ServingPhases
  BY DEF Phases, HelloPhases, Promised, ServingPhases
<1>5. ready' \in Seq(Entries) /\ QueueOrder'
  BY <1>1, <1>2, <1>3, <1>4, ResumedOrder DEF QueueOrder, QueueNamed, TypeOK, Undisturbed
<1>6. ~ident[c] /\ ~killed[c]
  BY <1>1, <1>2 DEF NamedOK, ServingPhases
<1> QED
  BY <1>1, <1>2, <1>3, <1>4, <1>5, <1>6, MovesKeep DEF TypeOK

\* The coroutine of c kills its connection and ends.
LEMMA EndsKeeps ==
    ASSUME IInv, NEW c \in Conns, Running(c, "run"), phase[c] # "new",
           KillMyself(c, [phase EXCEPT ![c] = "ended"], Tail(ready)),
           UNCHANGED <<tCheck, tOffline>> \/ (ArmTimers(c) /\ ident[c]),
           UNCHANGED <<ident, junk, inbuf, lines, pieces, gone, pool>>
    PROVE  IInv'
<1>1. TypeOK /\ QueueNamed /\ QueueOrder /\ "ended" \in Phases \ Promised
  BY DEF IInv, Phases, Promised
<1> DEFINE ph == [phase EXCEPT ![c] = "ended"]
<1>2. /\ Tail(ready) \in Seq(Entries) /\ Ordered(Tail(ready), stream, ph)
      /\ ph \in [Conns -> Phases] /\ ph[c] = "ended"
  BY <1>1, RanOrder DEF TypeOK
<1>3. /\ tCheck' \in [Conns -> BOOLEAN] /\ tOffline' \in [Conns -> BOOLEAN]
      /\ \A d \in Conns : tCheck'[d] \/ tOffline'[d] =>
             tCheck[d] \/ tOffline[d] \/ (d = c /\ ident[c])
  BY <1>1 DEF TypeOK, ArmTimers
<1> QED
  BY <1>2, <1>3, KillKeeps

\* No hello, a late one, or the end of the sleep after a bad one.
LEMMA HelloFailsKeeps ==
    ASSUME IInv, NEW c \in Conns, HelloFails(c)
    PROVE  IInv'
BY EndsKeeps DEF HelloFails

\* A bad hello.
LEMMA BadHelloKeeps ==
    ASSUME IInv, NEW c \in Conns, BadHello(c)
    PROVE  IInv'
<1>1. /\ Running(c, "run") /\ phase[c] = "hellogot"
      /\ UNCHANGED <<ident, junk, inbuf, lines, pieces, gone, tCheck, tOffline, pool>>
  BY DEF BadHello
<1>2. CASE KillMyself(c, [phase EXCEPT ![c] = "ended"], Tail(ready))
  BY <1>1, <1>2, EndsKeeps
<1>3. CASE /\ phase' = [phase EXCEPT ![c] = "sorry"]
           /\ ready' = Tail(ready)
           /\ UNCHANGED <<stream, unsent, killed, lastSeen>>
  <2>1. TypeOK /\ QueueNamed /\ QueueOrder /\ NamedOK /\ "sorry" \in Phases \ Promised
    BY DEF IInv, Phases, HelloPhases, Promised
  <2>2. ready' \in Seq(Entries) /\ QueueOrder'
    BY <1>1, <1>3, <2>1, RanOrder DEF QueueOrder
  <2>3. ~ident[c] /\ ~killed[c] /\ "sorry" \notin ServingPhases
    BY <1>1, <2>1 DEF NamedOK, ServingPhases
  <2> QED
    BY <1>1, <1>3, <2>1, <2>2, <2>3, MovesKeep DEF TypeOK, Undisturbed
<1> QED
  BY <1>2, <1>3 DEF BadHello

-----------------------------------------------------------------------------
(* Serving.                                                                *)

\* The coroutine of c, which is served, takes a piece or goes on with its lines.
\* Nothing is asked of the stream: it may be dropped by now.
LEMMA LinesKeep ==
    ASSUME IInv, NEW c \in Conns, NEW n \in Nat, NEW arm \in BOOLEAN,
           Running(c, "run"), ident[c], HandleLines(c, n, arm),
           UNCHANGED inbuf \/ (inbuf' = TakePiece(c) /\ inbuf[c] > 0),
           UNCHANGED <<ident, junk, pieces, gone, pool>>
    PROVE  IInv'
<1>1. TypeOK /\ QueueNamed /\ QueueOrder /\ StreamOK /\ NamedOK
  BY DEF IInv
<1>2. PICK p \in {"replied", "moment"}, m \in Nat :
         /\ phase' = [phase EXCEPT ![c] = p] /\ lines' = [lines EXCEPT ![c] = m]
  BY DEF HandleLines
<1>3. /\ ready' = Append(Tail(ready), <<c, "run">>)
      /\ UNCHANGED <<tCheck, tOffline>> \/ ArmTimers(c)
      /\ UNCHANGED <<stream, unsent, killed, lastSeen>>
  BY DEF HandleLines
<1>4. /\ p \in Phases \ Promised /\ p \in ServingPhases /\ p # "new"
      /\ p \notin {"hello", "reading", "got"} /\ phase[c] # "new"
  BY <1>1 DEF Phases, ServingPhases, Promised, NamedOK
<1>5. /\ Tail(ready) \in Seq(Entries)
      /\ Ordered(Tail(ready), stream, [phase EXCEPT ![c] = p])
  BY <1>1, <1>4, RanOrder
<1>6. ready' \in Seq(Entries) /\ QueueOrder'
  BY <1>2, <1>3, <1>5, AgainOrder DEF QueueOrder
<1>7. /\ pieces' \in Nat /\ pieces' <= MaxPieces /\ inbuf' \in [Conns -> Nat]
      /\ lines' \in [Conns -> Nat]
      /\ \A d \in Conns : inbuf'[d] <= pieces' /\ (d # c => inbuf'[d] = inbuf[d])
  BY <1>1, <1>2 DEF TypeOK, TakePiece
<1> QED
  BY <1>2, <1>3, <1>4, <1>6, <1>7, MovesKeep DEF Undisturbed

\* The same after a piece was taken.
LEMMA HandlePieceKeeps ==
    ASSUME IInv, NEW c \in Conns, NEW arm \in BOOLEAN,
           Running(c, "run"), ident[c], inbuf[c] > 0, HandlePiece(c, arm),
           UNCHANGED <<ident, junk, pieces, gone, pool>>
    PROVE  IInv'
<1>1. PICK n \in 0..MaxLines : HandleLines(c, lines[c] + n, arm)
  BY DEF HandlePiece
<1>2. lines[c] + n \in Nat /\ inbuf' = TakePiece(c)
  BY PoolAssumption DEF IInv, TypeOK, HandlePiece
<1> QED
  BY <1>1, <1>2, LinesKeep

\* The loop of the reader.
LEMMA LoopKeeps ==
    ASSUME IInv, NEW c \in Conns, NEW arm \in BOOLEAN,
           Running(c, "run"), phase[c] \in {"accepted", "moment"}, Loop(c, arm),
           UNCHANGED <<ident, junk, pieces, gone, pool>>
    PROVE  IInv'
<1>1. TypeOK /\ QueueNamed /\ QueueOrder /\ StreamOK /\ NamedOK
  BY DEF IInv
<1>2. ident[c] /\ phase[c] # "new"
  BY <1>1 DEF NamedOK, ServingPhases
<1>3. {"reading", "crashed", "ended"} \subseteq Phases \ Promised
  BY DEF Phases, ServingPhases, Promised
<1>4. \A p \in Phases \ Promised :
         /\ Tail(ready) \in Seq(Entries)
         /\ Ordered(Tail(ready), stream, [phase EXCEPT ![c] = p])
  BY <1>1, RanOrder
<1>5. CASE inbuf[c] > 0 /\ HandlePiece(c, arm)
  BY <1>2, <1>5, HandlePieceKeeps
<1>6. ASSUME NEW p \in {"reading", "crashed", "ended"},
             /\ phase' = [phase EXCEPT ![c] = p] /\ ready' = Tail(ready)
             /\ UNCHANGED <<stream, unsent, killed, lastSeen, inbuf, lines>>
             /\ IF arm THEN ArmTimers(c) ELSE UNCHANGED <<tCheck, tOffline>>,
             p = "reading" => stream[c] = "open" /\ ~killed[c]
      PROVE  IInv'
  <2>1. ready' \in Seq(Entries) /\ QueueOrder'
    BY <1>3, <1>4, <1>6 DEF QueueOrder
  <2>2. UNCHANGED <<tCheck, tOffline>> \/ ArmTimers(c)
    BY <1>6
  <2> QED
    BY <1>1, <1>2, <1>3, <1>6, <2>1, <2>2, MovesKeep
    DEF Undisturbed, ServingPhases, TypeOK
<1>7. CASE /\ KillMyself(c, [phase EXCEPT ![c] = "ended"], Tail(ready))
           /\ IF arm THEN ArmTimers(c) ELSE UNCHANGED <<tCheck, tOffline>>
           /\ UNCHANGED <<inbuf, lines>>
  BY <1>2, <1>7, EndsKeeps
<1> QED
  BY <1>5, <1>6, <1>7 DEF Loop, ReadNext

\* The timers are armed and the loop is entered.
LEMMA StartServingKeeps ==
    ASSUME IInv, NEW c \in Conns, StartServing(c)
    PROVE  IInv'
BY LoopKeeps DEF StartServing

\* A piece, an error, the lines behind a reply or the next turn of the loop.
LEMMA ReaderResumesKeeps ==
    ASSUME IInv, NEW c \in Conns, ReaderResumes(c)
    PROVE  IInv'
<1>1. Running(c, "run") /\ UNCHANGED <<ident, junk, pieces, gone, pool>>
  BY DEF ReaderResumes
<1>2. CASE phase[c] = "moment" /\ Loop(c, FALSE)
  BY <1>1, <1>2, LoopKeeps
<1>3. CASE /\ phase[c] = "readerror"
           /\ KillMyself(c, [phase EXCEPT ![c] = "ended"], Tail(ready))
           /\ UNCHANGED <<inbuf, lines, tCheck, tOffline>>
  BY <1>1, <1>3, EndsKeeps
<1>4. CASE phase[c] = "got" /\ HandlePiece(c, FALSE)
  <2>1. ident[c] /\ inbuf[c] > 0
    BY <1>4 DEF IInv, NamedOK, StreamOK, ServingPhases
  <2> QED
    BY <1>1, <1>4, <2>1, HandlePieceKeeps
<1>5. CASE phase[c] = "replied" /\ HandleLines(c, lines[c], FALSE) /\ UNCHANGED inbuf
  <2>1. ident[c] /\ lines[c] \in Nat
    BY <1>5 DEF IInv, TypeOK, NamedOK, ServingPhases
  <2> QED
    BY <1>1, <1>5, <2>1, LinesKeep
<1> QED
  BY <1>2, <1>3, <1>4, <1>5 DEF ReaderResumes

\* kill_myself by someone else than the coroutine: a timer or a user.
LEMMA KilledFromOutside ==
    ASSUME IInv, NEW c \in Conns, ident[c], KillMyself(c, phase, ready),
           \/ UNCHANGED <<tCheck, tOffline>>
           \/ UNCHANGED tCheck /\ tOffline' = [tOffline EXCEPT ![c] = FALSE]
           \/ /\ tCheck' = [tCheck EXCEPT ![c] = FALSE]
              /\ tOffline' = [tOffline EXCEPT ![c] = FALSE],
           UNCHANGED <<ident, junk, inbuf, lines, pieces, gone, pool>>
    PROVE  IInv'
<1>1. TypeOK /\ QueueNamed /\ QueueOrder
  BY DEF IInv
<1>2. /\ phase \in [Conns -> Phases] /\ ready \in Seq(Entries)
      /\ Ordered(ready, stream, phase)
  BY <1>1 DEF TypeOK, QueueNamed, QueueOrder
<1>3. /\ tCheck' \in [Conns -> BOOLEAN] /\ tOffline' \in [Conns -> BOOLEAN]
      /\ \A d \in Conns : tCheck'[d] \/ tOffline'[d] => tCheck[d] \/ tOffline[d]
  BY <1>1 DEF TypeOK
<1> QED
  BY <1>2, <1>3, KillKeeps

\* Of a step that moves only the queue, the PINGs and the timers, the invariant
\* asks that the connection was accepted.
LEMMA PingMoves ==
    ASSUME IInv, NEW c \in Conns, ident[c], ready' \in Seq(Entries), QueueOrder',
           tCheck' \in [Conns -> BOOLEAN], unsent' \in [Conns -> Nat],
           \A d \in Conns \ {c} : tCheck'[d] = tCheck[d] /\ unsent'[d] = unsent[d],
           UNCHANGED <<stream, phase, ident, killed, junk, inbuf, lines, pieces, gone,
                       tOffline, pool, lastSeen>>
    PROVE  IInv'
<1> USE DEF IInv
<1>1. TypeOK' /\ QueueNamed'
  BY QueueKept DEF TypeOK
<1>2. StreamOK' /\ NamedOK'
  BY DEF StreamOK, NamedOK
<1>3. PoolHoldsWhole' /\ OneLivePerNode' /\ OnlineExact'
  BY DEF PoolHoldsWhole, OneLivePerNode, OnlineExact, OnlineMeansServed, ServedMeansOnline
<1> QED
  BY <1>1, <1>2, <1>3

\* A step that does nothing.
LEMMA NothingKeeps == IInv /\ UNCHANGED vars => IInv'
BY DEF vars, IInv, TypeOK, PoolHoldsWhole, OneLivePerNode, OnlineExact,
       OnlineMeansServed, ServedMeansOnline, QueueNamed, Entries, QueueOrder,
       StreamOK, NamedOK

\* The heartbeat's check goes off, or nothing was heard in time.
LEMMA TimersKeep ==
    ASSUME IInv, NEW c \in Conns, OnlineCheck(c) \/ OfflineFires(c)
    PROVE  IInv'
<1>1. /\ TypeOK /\ ident[c] /\ ready \in Seq(Entries)
      /\ UNCHANGED <<ready, stream, phase>> => QueueOrder'
  BY DEF IInv, NamedOK, OnlineCheck, OfflineFires, QueueNamed, QueueOrder
<1>2. CASE UNCHANGED vars
  BY <1>2, NothingKeeps
<1>3. CASE OfflineFires(c)
  BY <1>1, <1>3, KilledFromOutside DEF OfflineFires
<1>4. ASSUME NotRearmed(c), tOffline' = [tOffline EXCEPT ![c] = FALSE],
             KillMyself(c, phase, ready),
             UNCHANGED <<ident, junk, inbuf, lines, pieces, gone, pool>>
      PROVE  IInv'
  BY <1>1, <1>4, KilledFromOutside DEF NotRearmed
<1>5. ASSUME NotRearmed(c),
             unsent' = [unsent EXCEPT ![c] = @ + 1] \/ UNCHANGED unsent,
             UNCHANGED <<ready, stream, phase, killed, tOffline, lastSeen>>,
             UNCHANGED <<ident, junk, inbuf, lines, pieces, gone, pool>>
      PROVE  IInv'
  <2>1. /\ tCheck' \in [Conns -> BOOLEAN] /\ unsent' \in [Conns -> Nat]
        /\ \A d \in Conns \ {c} : tCheck'[d] = tCheck[d] /\ unsent'[d] = unsent[d]
    <3>1. tCheck' \in [Conns -> BOOLEAN] /\ \A d \in Conns \ {c} : tCheck'[d] = tCheck[d]
      BY <1>1, <1>5 DEF TypeOK, NotRearmed
    <3>2. unsent \in [Conns -> Nat]
      BY <1>1 DEF TypeOK
    <3>3. CASE unsent' = [unsent EXCEPT ![c] = @ + 1]
      BY <3>1, <3>2, <3>3
    <3>4. CASE UNCHANGED unsent
      BY <3>1, <3>2, <3>4
    <3> QED
      BY <1>5, <3>3, <3>4
  <2>2. ready' \in Seq(Entries) /\ QueueOrder'
    BY <1>1, <1>5
  <2> QED
    BY <1>1, <1>5, <2>1, <2>2, PingMoves
<1> QED
  BY <1>2, <1>3, <1>4, <1>5 DEF OnlineCheck

\* Another callback of an accepted connection is queued behind the others.
LEMMA PingOrder ==
    ASSUME NEW q \in Seq(Entries), NEW c \in Conns, NEW k \in Pings, ident[c],
           Ordered(q, stream, phase)
    PROVE  /\ Append(q, <<c, k>>) \in Seq(Entries)
           /\ Ordered(Append(q, <<c, k>>), stream, phase)
<1> DEFINE w == <<<<c, k>>>>
<1>1. w \in Seq(Entries) /\ \A d \in Conns : NoClose(d, w)
  BY SinglePing
<1>2. Append(q, <<c, k>>) = q \o w
  <2>1. <<c, k>> \in Entries
    BY DEF Entries
  <2> HIDE DEF Entries
  <2> QED
    BY <2>1, AppendIsConcat
<1> HIDE DEF w
<1> QED
  BY <1>1, <1>2, LongerOrder DEF Ordered

\* A callback of a PING leaves the queue; its connection was accepted.
LEMMA PingRan ==
    ASSUME IInv, NEW c \in Conns, NEW k \in Pings, Running(c, k)
    PROVE  ident[c] /\ Tail(ready) \in Seq(Entries) /\ Ordered(Tail(ready), stream, phase)
<1>1. ready \in Seq(Entries) /\ ready # <<>> /\ Head(ready) = <<c, k>>
  BY DEF IInv, QueueNamed, Running
<1>2. <<c, k>> \in Entries
  <2> HIDE DEF Entries
  <2> QED
    BY <1>1
<1>3. ident[c] /\ k # "run"
  BY <1>2 DEF Entries, Pings
<1>4. \A d \in Conns : Head(ready) # <<d, "run">>
  BY <1>1, <1>3
<1> QED
  BY <1>1, <1>3, <1>4, TailOrder DEF IInv, QueueOrder, Ordered

\* A PING is sent late; secure_write and then _online_check go on after it.
LEMMA PingKeeps ==
    ASSUME IInv, NEW c \in Conns, PingSent(c) \/ SecureWriteEnds(c) \/ CheckAgain(c)
    PROVE  IInv'
<1>1. TypeOK /\ {"written", "pinged", "unwritten", "unpinged"} \subseteq Pings
  BY DEF IInv, Pings
<1>2. CASE PingSent(c)
  <2>1. /\ ident[c] /\ ready \in Seq(Entries) /\ Ordered(ready, stream, phase)
        /\ unsent[c] \in Nat /\ unsent[c] > 0
    BY <1>1, <1>2 DEF IInv, TypeOK, NamedOK, QueueNamed, QueueOrder, PingSent
  <2>2. /\ ready' = Append(ready, <<c, "written">>)
        /\ unsent' = [unsent EXCEPT ![c] = unsent[c] - 1]
        /\ UNCHANGED <<stream, phase, ident, killed, junk, inbuf, lines, pieces, gone,
                       tCheck, tOffline, pool, lastSeen>>
    BY <1>2 DEF PingSent
  <2>3. ready' \in Seq(Entries) /\ QueueOrder'
    BY <1>1, <2>1, <2>2, PingOrder DEF QueueOrder
  <2>4. /\ tCheck' \in [Conns -> BOOLEAN] /\ unsent' \in [Conns -> Nat]
        /\ \A d \in Conns \ {c} : tCheck'[d] = tCheck[d] /\ unsent'[d] = unsent[d]
    BY <1>1, <2>1, <2>2 DEF TypeOK
  <2> QED
    BY <2>1, <2>2, <2>3, <2>4, PingMoves
<1>3. CASE SecureWriteEnds(c)
  <2>1. PICK k \in Pings, e \in Pings :
          Running(c, k) /\ ready' = Append(Tail(ready), <<c, e>>)
    BY <1>1, <1>3 DEF SecureWriteEnds
  <2>2. UNCHANGED <<stream, phase, ident, killed, junk, inbuf, lines, pieces, unsent,
                    gone, tCheck, tOffline, pool, lastSeen>>
    BY <1>3 DEF SecureWriteEnds
  <2>3. /\ ident[c] /\ Tail(ready) \in Seq(Entries)
        /\ Ordered(Tail(ready), stream, phase)
    BY <2>1, PingRan
  <2>4. ready' \in Seq(Entries) /\ QueueOrder'
    BY <2>1, <2>2, <2>3, PingOrder DEF QueueOrder
  <2> QED
    BY <1>1, <2>2, <2>3, <2>4, PingMoves DEF TypeOK
<1>4. CASE CheckAgain(c)
  <2>1. /\ Running(c, "pinged") /\ ready' = Tail(ready)
        /\ tCheck' = [tCheck EXCEPT ![c] = TRUE]
        /\ UNCHANGED <<stream, phase, ident, killed, junk, inbuf, lines, pieces, unsent,
                       gone, tOffline, pool, lastSeen>>
    BY <1>4 DEF CheckAgain
  <2>2. /\ ident[c] /\ Tail(ready) \in Seq(Entries)
        /\ Ordered(Tail(ready), stream, phase)
    BY <1>1, <2>1, PingRan
  <2>3. ready' \in Seq(Entries) /\ QueueOrder'
    BY <2>1, <2>2 DEF QueueOrder
  <2> QED
    BY <1>1, <2>1, <2>2, <2>3, PingMoves DEF TypeOK
<1> QED
  BY <1>2, <1>3, <1>4

\* The stream was closed under the PING.
LEMMA CheckFailsKeeps ==
    ASSUME IInv, NEW c \in Conns, CheckFails(c)
    PROVE  IInv'
<1>1. /\ ident[c] /\ Tail(ready) \in Seq(Entries) /\ Ordered(Tail(ready), stream, phase)
  BY PingRan DEF CheckFails, Pings
<1>2. /\ KillMyself(c, phase, Tail(ready)) /\ TypeOK
      /\ tOffline' = [tOffline EXCEPT ![c] = FALSE]
      /\ UNCHANGED <<ident, junk, inbuf, lines, pieces, gone, tCheck, pool>>
  BY DEF CheckFails, IInv
<1>3. /\ tCheck' \in [Conns -> BOOLEAN] /\ tOffline' \in [Conns -> BOOLEAN]
      /\ \A d \in Conns : tCheck'[d] \/ tOffline'[d] => tCheck[d] \/ tOffline[d]
      /\ phase \in [Conns -> Phases]
  BY <1>2 DEF TypeOK
<1> QED
  BY <1>1, <1>2, <1>3, KillKeeps

\* A user drops a node: the connection in the pool can still be killed.
LEMMA SettingDropKeeps ==
    ASSUME IInv, NEW s \in Sns, SettingDrop(s)
    PROVE  IInv'
<1>1. pool[s] \in Conns /\ ident[pool[s]]
  BY DEF IInv, TypeOK, PoolHoldsWhole, SettingDrop
<1> QED
  BY <1>1, KilledFromOutside DEF SettingDrop

\* What the node's end of the connection does.
LEMMA PieceArrivesKeeps ==
    ASSUME IInv, NEW c \in Conns, PieceArrives(c)
    PROVE  IInv'
<1>1. TypeOK /\ QueueNamed /\ QueueOrder /\ StreamOK /\ NamedOK
  BY DEF IInv
<1>2. /\ stream[c] = "open" /\ phase[c] \in ServingPhases /\ ident[c]
      /\ UNCHANGED <<stream, ident, killed, junk, lines, unsent, gone, tCheck, tOffline,
                     pool, lastSeen>>
  BY <1>1 DEF PieceArrives, NamedOK
<1>3. /\ pieces' \in Nat /\ pieces' <= MaxPieces /\ lines' \in [Conns -> Nat]
      /\ inbuf' \in [Conns -> Nat] /\ inbuf'[c] > 0
      /\ \A d \in Conns : inbuf'[d] <= pieces' /\ (d # c => inbuf'[d] = inbuf[d])
  <2>1. /\ pieces' = pieces + 1 /\ pieces < MaxPieces
        /\ inbuf' = [inbuf EXCEPT ![c] = inbuf[c] + 1]
        /\ inbuf \in [Conns -> Nat] /\ pieces \in Nat /\ MaxPieces \in Nat
        /\ \A d \in Conns : inbuf[d] <= pieces
    BY <1>1, PoolAssumption DEF PieceArrives, TypeOK
  <2> QED
    BY <1>1, <1>2, <2>1 DEF TypeOK
<1>4. PICK p \in ServingPhases :
          /\ phase' = [phase EXCEPT ![c] = p]
          /\ ready' \in Seq(Entries) /\ QueueOrder'
  <2>1. CASE /\ phase[c] = "reading" /\ phase' = [phase EXCEPT ![c] = "got"]
             /\ ready' = Append(ready, <<c, "run">>)
    <3>1. "got" \in ServingPhases /\ "got" \in Phases
      BY DEF ServingPhases, Phases
    <3>2. ready' \in Seq(Entries) /\ QueueOrder'
      BY <1>1, <1>2, <2>1, <3>1, ResumedOrder DEF QueueOrder, QueueNamed, TypeOK
    <3> QED
      BY <2>1, <3>1, <3>2
  <2>2. CASE phase[c] # "reading" /\ UNCHANGED <<phase, ready>>
    <3>1. phase' = [phase EXCEPT ![c] = phase[c]]
      BY <1>1, <2>2 DEF TypeOK
    <3>2. ready' \in Seq(Entries) /\ QueueOrder'
      BY <1>1, <1>2, <2>2 DEF QueueOrder, QueueNamed, TypeOK
    <3> QED
      BY <1>2, <2>2, <3>1, <3>2
  <2> QED
    BY <2>1, <2>2 DEF PieceArrives
<1>5. p \in Phases /\ p # "new" /\ p # "hello" /\ phase[c] # "new"
  BY <1>2, <1>4 DEF ServingPhases, Phases
<1> QED
  BY <1>2, <1>3, <1>4, <1>5, MovesKeep DEF Undisturbed

\* The stream is closed under the connection, which goes on for now.
LEMMA PeerClosesKeeps ==
    ASSUME IInv, NEW c \in Conns, PeerCloses(c)
    PROVE  IInv'
<1> USE DEF IInv
<1>1. TypeOK /\ QueueNamed /\ QueueOrder /\ StreamOK /\ NamedOK
  OBVIOUS
<1>2. /\ stream[c] = "open" /\ CloseStream(c, phase, ready)
      /\ UNCHANGED <<ident, killed, junk, inbuf, lines, pieces, gone, tCheck,
                     tOffline, pool, lastSeen>>
  BY DEF PeerCloses
<1>3. /\ phase \in [Conns -> Phases] /\ ready \in Seq(Entries)
      /\ Ordered(ready, stream, phase)
  BY <1>1 DEF TypeOK, QueueNamed, QueueOrder
<1>4. /\ ready' \in Seq(Entries) /\ QueueOrder'
      /\ unsent' = unsent \/ unsent' = [unsent EXCEPT ![c] = 0]
      /\ stream' = [stream EXCEPT ![c] = "closed"] /\ phase' = FailRead(c, phase)
  <2>1. unsent[c] > 0 => ident[c]
    BY <1>1 DEF NamedOK
  <2> QED
    BY <1>1, <1>2, <1>3, <2>1, CloseStreamDoes
<1>5. /\ phase' \in [Conns -> Phases]
      /\ \A d \in Conns : d # c => phase'[d] = phase[d]
      /\ phase[c] = "hello" => phase'[c] = "helloerror"
      /\ phase[c] = "reading" => phase'[c] = "readerror"
      /\ phase[c] \notin {"hello", "reading"} => phase'[c] = phase[c]
  BY <1>3, <1>4, FailReadDoes
<1>6. /\ stream' \in [Conns -> {"none", "open", "closed", "dropped"}]
      /\ stream'[c] = "closed" /\ \A d \in Conns : d # c => stream'[d] = stream[d]
  BY <1>1, <1>4 DEF TypeOK
<1>7. TypeOK' /\ QueueNamed' /\ \A d \in Conns : unsent'[d] > 0 => unsent[d] > 0
  <2>1. /\ unsent' \in [Conns -> Nat]
        /\ \A d \in Conns : unsent'[d] > 0 => unsent[d] > 0
    BY <1>1, <1>4, FewerUnsent DEF TypeOK
  <2> QED
    BY <1>1, <1>2, <1>4, <1>5, <1>6, <2>1, QueueKept DEF TypeOK
<1>8. StreamOK'
  BY <1>1, <1>2, <1>5, <1>6 DEF StreamOK
<1>9. NamedOK'
  <2> SUFFICES ASSUME NEW d \in Conns PROVE NamedOK!(d)'
    BY DEF NamedOK
  <2>1. phase'[d] \in ServingPhases <=> phase[d] \in ServingPhases
    BY <1>5 DEF ServingPhases
  <2>2. phase[d] \in {"ended", "crashed"} => phase'[d] = phase[d]
    BY <1>5
  <2> QED
    BY <1>1, <1>2, <1>7, <2>1, <2>2 DEF NamedOK
<1>10. PoolHoldsWhole' /\ OneLivePerNode'
  <2>1. PoolHoldsWhole'
    BY <1>1, <1>2, <1>6 DEF PoolHoldsWhole, TypeOK
  <2>2. OneLivePerNode'
    BY <1>2, <1>6 DEF OneLivePerNode
  <2> QED
    BY <2>1, <2>2
<1>11. OnlineExact'
  BY <1>2, <1>6 DEF OnlineExact, OnlineMeansServed, ServedMeansOnline
<1> QED
  BY <1>4, <1>7, <1>8, <1>9, <1>10, <1>11

\* The node falls silent: nothing on the server's side changes.
LEMMA PeerVanishesKeeps ==
    ASSUME IInv, NEW c \in Conns, PeerVanishes(c)
    PROVE  IInv'
<1>1. TypeOK' /\ QueueNamed'
  BY DEF IInv, TypeOK, QueueNamed, Entries, PeerVanishes
<1>2. QueueOrder' /\ StreamOK' /\ NamedOK'
  BY DEF IInv, QueueOrder, StreamOK, NamedOK, PeerVanishes
<1>3. PoolHoldsWhole' /\ OneLivePerNode' /\ OnlineExact'
  BY DEF IInv, PoolHoldsWhole, OneLivePerNode, OnlineExact, OnlineMeansServed,
         ServedMeansOnline, PeerVanishes
<1> QED
  BY <1>1, <1>2, <1>3 DEF IInv

-----------------------------------------------------------------------------
(* The takeover.                                                           *)

\* Where the coroutine of c goes with a good hello, and what is queued for it.
Place(c, st) == IF st[c] = "open" THEN "accepted" ELSE "ended"
Self(c, st)  == IF st[c] = "open" THEN <<<<c, "run">>>> ELSE <<>>

\* Behind what is queued, a good hello queues the connection c itself, if its
\* stream is open; otherwise c has ended.
LEMMA TakesPlace ==
    ASSUME NEW q \in Seq(Entries), NEW st, NEW ph \in [Conns -> Phases],
           NEW c \in Conns, ph[c] = "ended", Ordered(q, st, ph)
    PROVE  /\ q \o Self(c, st) \in Seq(Entries)
           /\ Ordered(q \o Self(c, st), st, [ph EXCEPT ![c] = Place(c, st)])
<1>1. CASE st[c] = "open"
  <2>1. /\ Append(q, <<c, "run">>) \in Seq(Entries)
        /\ Ordered(Append(q, <<c, "run">>), st, [ph EXCEPT ![c] = "accepted"])
    BY <1>1, ResumedOrder DEF Phases, ServingPhases
  <2>2. Append(q, <<c, "run">>) = q \o <<<<c, "run">>>>
    BY AppendIsConcat DEF Entries
  <2> QED
    BY <1>1, <2>1, <2>2 DEF Self, Place
<1>2. CASE st[c] # "open"
  <2>1. [ph EXCEPT ![c] = "ended"] = ph
    OBVIOUS
  <2>2. q \o <<>> = q
    BY ConcatEmptySeq
  <2> QED
    BY <1>2, <2>1, <2>2 DEF Self, Place
<1> QED
  BY <1>1, <1>2

\* What a good hello of c leaves of another connection d: it is as it was, or it
\* was the one in the pool, still open, and is closed.
Displaced(c, d) ==
    \/ stream'[d] = stream[d] /\ phase'[d] = phase[d]
    \/ /\ d \in JunkOf(c) /\ stream[d] = "open" /\ stream'[d] = "closed"
       /\ phase[d] = "hello" => phase'[d] = "helloerror"
       /\ phase[d] = "reading" => phase'[d] = "readerror"
       /\ phase[d] \notin {"hello", "reading"} => phase'[d] = phase[d]

\* What a good hello does to the queue, the streams and the coroutines: the
\* connection it replaces, if it is still open, is closed first.
LEMMA GoodHelloDoes ==
    ASSUME TypeOK, QueueNamed, QueueOrder, NEW c \in Conns, GoodHello(c),
           c \notin JunkOf(c), JunkOf(c) \subseteq Conns,
           \A d \in JunkOf(c) : unsent[d] > 0 => ident[d]
    PROVE  /\ ready' \in Seq(Entries) /\ QueueOrder'
           /\ phase' \in [Conns -> Phases] /\ phase'[c] = Place(c, stream)
           /\ stream' \in [Conns -> {"none", "open", "closed", "dropped"}]
           /\ stream'[c] = stream[c]
           /\ \A d \in Conns \ {c} : Displaced(c, d)
<1> DEFINE old == {x \in JunkOf(c) : stream[x] = "open"}
           ph  == [phase EXCEPT ![c] = Place(c, stream)]
           ph0 == [phase EXCEPT ![c] = "ended"]
<1>1. /\ Running(c, "run")
      /\ stream' = [x \in Conns |-> IF x \in old THEN "closed" ELSE stream[x]]
      /\ \/ old = {} /\ phase' = ph /\ ready' = Tail(ready) \o Self(c, stream)
         \/ \E x \in old : /\ phase' = FailRead(x, ph)
                           /\ ready' = Tail(ready) \o Wakes(x, ph) \o Self(c, stream)
  BY DEF GoodHello, Place, Self
<1>2. /\ Place(c, stream) \in Phases /\ "ended" \in Phases \ Promised
      /\ phase \in [Conns -> Phases]
      /\ stream \in [Conns -> {"none", "open", "closed", "dropped"}]
  BY DEF Phases, ServingPhases, Promised, TypeOK, Place
<1>3. /\ Tail(ready) \in Seq(Entries) /\ Ordered(Tail(ready), stream, ph0)
      /\ ph0 \in [Conns -> Phases] /\ ph0[c] = "ended" /\ ph \in [Conns -> Phases]
      /\ ph = [ph0 EXCEPT ![c] = Place(c, stream)] /\ ph[c] = Place(c, stream)
      /\ \A d \in Conns \ {c} : ph[d] = phase[d] /\ ph0[d] = phase[d]
  BY <1>1, <1>2, RanOrder
<1> HIDE DEF ph, ph0
<1>4. CASE old = {} /\ phase' = ph /\ ready' = Tail(ready) \o Self(c, stream)
  <2>1. stream' = stream
    BY <1>1, <1>2, <1>4
  <2>2. ready' \in Seq(Entries) /\ Ordered(ready', stream, ph)
    BY <1>3, <1>4, TakesPlace
  <2> QED
    BY <1>2, <1>3, <1>4, <2>1, <2>2 DEF QueueOrder, Displaced
<1>5. ASSUME NEW x \in old, phase' = FailRead(x, ph),
             ready' = Tail(ready) \o Wakes(x, ph) \o Self(c, stream)
      PROVE  /\ ready' \in Seq(Entries) /\ QueueOrder'
             /\ phase' \in [Conns -> Phases] /\ phase'[c] = Place(c, stream)
             /\ stream' \in [Conns -> {"none", "open", "closed", "dropped"}]
             /\ stream'[c] = stream[c]
             /\ \A d \in Conns \ {c} : Displaced(c, d)
  <2>1. x \in Conns /\ x # c /\ stream[x] = "open" /\ old = {x}
    BY <1>5 DEF JunkOf
  <2> DEFINE st == [stream EXCEPT ![x] = "closed"]
             q  == Tail(ready) \o Wakes(x, ph0)
             f0 == FailRead(x, ph0)
  <2>2. stream' = st /\ st[c] = stream[c]
    BY <1>1, <1>2, <2>1
  <2>3. q \in Seq(Entries) /\ Ordered(q, st, f0)
    <3>1. unsent[x] \in Nat /\ (unsent[x] > 0 => ident[x])
      BY <2>1 DEF TypeOK
    <3> QED
      BY <1>2, <1>3, <2>1, <3>1, ClosedOrder
  <2>4. Wakes(x, ph) = Wakes(x, ph0) /\ ph[x] = ph0[x]
    BY <1>3, <2>1 DEF Wakes
  <2>5. f0 \in [Conns -> Phases] /\ f0[c] = "ended"
    BY <1>3, <2>1, FailReadDoes
  <2>6. FailRead(x, ph) = [f0 EXCEPT ![c] = Place(c, stream)]
    <3>1. ph = [ph0 EXCEPT ![c] = Place(c, stream)] /\ ph0 \in [Conns -> Phases] /\ x # c
      BY <1>3, <2>1
    <3>2. \A d \in Conns : FailRead(x, ph)[d] = [f0 EXCEPT ![c] = Place(c, stream)][d]
      BY <3>1 DEF FailRead
    <3> QED
      BY <3>1, <3>2 DEF FailRead
  <2> HIDE DEF q, f0, st
  <2>7. /\ q \o Self(c, st) \in Seq(Entries)
        /\ Ordered(q \o Self(c, st), st, [f0 EXCEPT ![c] = Place(c, st)])
    BY <2>3, <2>5, TakesPlace
  <2>8. Self(c, st) = Self(c, stream) /\ Place(c, st) = Place(c, stream)
    BY <2>2 DEF Self, Place
  <2>9. ready' \in Seq(Entries) /\ QueueOrder'
    BY <1>5, <2>2, <2>4, <2>6, <2>7, <2>8 DEF QueueOrder, q
  <2>10. /\ phase' \in [Conns -> Phases]
         /\ \A d \in Conns : d # x => phase'[d] = ph[d]
         /\ ph[x] = "hello" => phase'[x] = "helloerror"
         /\ ph[x] = "reading" => phase'[x] = "readerror"
         /\ ph[x] \notin {"hello", "reading"} => phase'[x] = ph[x]
    BY <1>3, <1>5, <2>1, FailReadDoes
  <2>11. ASSUME NEW d \in Conns \ {c} PROVE Displaced(c, d)
    <3>1. CASE d = x
      BY <1>2, <1>3, <1>5, <2>1, <2>2, <2>10, <3>1 DEF Displaced, st
    <3>2. CASE d # x
      BY <1>2, <1>3, <2>1, <2>2, <2>10, <3>2 DEF Displaced, st
    <3> QED
      BY <3>1, <3>2
  <2>12. stream' \in [Conns -> {"none", "open", "closed", "dropped"}]
    BY <1>2, <2>2 DEF st
  <2> QED
    BY <1>3, <2>1, <2>2, <2>9, <2>10, <2>11, <2>12
<1> QED
  BY <1>1, <1>4, <1>5

\* A good hello: the connection c takes the place of the one in the pool.
LEMMA GoodHelloKeeps ==
    ASSUME IInv, NEW c \in Conns, GoodHello(c)
    PROVE  IInv'
<1> USE DEF IInv
<1>1. TypeOK /\ QueueNamed /\ QueueOrder /\ StreamOK /\ NamedOK
  OBVIOUS
<1>2. /\ phase[c] = "hellogot" /\ ident' = [ident EXCEPT ![c] = TRUE]
      /\ junk' = [x \in Conns |-> junk[x] \/ x \in JunkOf(c)]
      /\ killed' = [x \in Conns |->
                       killed[x] \/ x \in JunkOf(c) \/ (x = c /\ stream[c] # "open")]
      /\ pool' = [pool EXCEPT ![Sn[c]] = c]
      /\ lastSeen' = [lastSeen EXCEPT ![Sn[c]] =
                        IF stream[c] = "open" THEN "online" ELSE "offline"]
      /\ \A x \in Conns : unsent'[x] = 0 \/ unsent'[x] = unsent[x]
      /\ unsent' = [x \in Conns |-> unsent'[x]]
      /\ UNCHANGED <<inbuf, lines, pieces, gone, tCheck, tOffline>>
  BY DEF GoodHello
<1>3. ~ident[c] /\ ~killed[c] /\ ~junk[c] /\ stream[c] \in {"open", "closed"}
  <2>1. ~ident[c] /\ ~killed[c] /\ ~junk[c]
    BY <1>1, <1>2 DEF NamedOK, ServingPhases
  <2>2. stream[c] # "dropped" /\ stream[c] # "none"
    BY <1>1, <1>2 DEF QueueOrder, Ordered, Promised, StreamOK
  <2> QED
    BY <1>1, <2>1, <2>2 DEF TypeOK
<1>4. Sn[c] \in Sns /\ NoConn \notin Conns /\ c # NoConn
  BY PoolAssumption
<1>5. /\ JunkOf(c) \subseteq Conns /\ c \notin JunkOf(c)
      /\ \A d \in JunkOf(c) : d = pool[Sn[c]] /\ ident[d] /\ Sn[d] = Sn[c]
      /\ \A d \in Conns : d = pool[Sn[c]] => d \in JunkOf(c)
  BY <1>1, <1>3, <1>4 DEF JunkOf, TypeOK, PoolHoldsWhole
<1>6. /\ ready' \in Seq(Entries) /\ QueueOrder'
      /\ phase' \in [Conns -> Phases] /\ phase'[c] = Place(c, stream)
      /\ stream' \in [Conns -> {"none", "open", "closed", "dropped"}]
      /\ stream'[c] = stream[c]
      /\ \A d \in Conns \ {c} : Displaced(c, d)
  BY <1>1, <1>5, GoodHelloDoes
<1>7. /\ ident' \in [Conns -> BOOLEAN] /\ ident'[c]
      /\ \A d \in Conns \ {c} : ident'[d] = ident[d]
      /\ \A d \in Conns \ {c} : killed'[d] <=> killed[d] \/ d \in JunkOf(c)
      /\ killed'[c] <=> stream[c] # "open"
      /\ \A d \in Conns \ {c} : junk'[d] <=> junk[d] \/ d \in JunkOf(c)
      /\ ~junk'[c]
  BY <1>1, <1>2, <1>3, <1>5 DEF TypeOK
<1>8. /\ pool' \in [Sns -> Conns \cup {NoConn}] /\ pool'[Sn[c]] = c
      /\ \A s \in Sns \ {Sn[c]} : pool'[s] = pool[s] /\ lastSeen'[s] = lastSeen[s]
      /\ lastSeen'[Sn[c]] = IF stream[c] = "open" THEN "online" ELSE "offline"
      /\ lastSeen' \in [Sns -> {"never", "online", "offline"}]
  BY <1>1, <1>2, <1>4 DEF TypeOK
<1>9. TypeOK' /\ QueueNamed' /\ \A d \in Conns : unsent'[d] > 0 => unsent[d] > 0
  <2>1. killed' \in [Conns -> BOOLEAN] /\ junk' \in [Conns -> BOOLEAN]
    BY <1>1, <1>2 DEF TypeOK
  <2>2. /\ unsent' \in [Conns -> Nat]
        /\ \A d \in Conns : unsent'[d] > 0 => unsent[d] > 0
    <3>1. \A d \in Conns : unsent[d] \in Nat
      BY <1>1 DEF TypeOK
    <3>2. \A d \in Conns : unsent'[d] \in Nat /\ (unsent'[d] > 0 => unsent[d] > 0)
      BY <1>2, <3>1
    <3> QED
      BY <1>2, <3>2
  <2>3. QueueNamed' /\ ready' \in Seq(Conns \X Kinds)
    <3>1. Entries \subseteq Entries'
      BY <1>1, <1>7 DEF Entries
    <3>2. ready' \in Seq(Entries')
      <4> HIDE DEF Entries
      <4> QED
        BY <1>6, <3>1
    <3> QED
      BY <1>6, <3>2, EntriesAreKinds DEF QueueNamed
  <2> QED
    BY <1>1, <1>2, <1>6, <1>7, <1>8, <2>1, <2>2, <2>3 DEF TypeOK
<1>10. StreamOK'
  <2> SUFFICES ASSUME NEW d \in Conns PROVE StreamOK!(d)'
    BY DEF StreamOK
  <2>1. CASE d = c
    BY <1>3, <1>6, <2>1 DEF Place
  <2>2. CASE d # c
    BY <1>1, <1>2, <1>6, <2>2 DEF StreamOK, Displaced
  <2> QED
    BY <2>1, <2>2
<1>11. NamedOK'
  <2> SUFFICES ASSUME NEW d \in Conns PROVE NamedOK!(d)'
    BY DEF NamedOK
  <2>1. CASE d = c
    BY <1>2, <1>6, <1>7, <2>1 DEF Place, ServingPhases
  <2>2. CASE d # c
    <3>1. phase'[d] \in ServingPhases <=> phase[d] \in ServingPhases
      BY <1>6, <2>2 DEF Displaced, ServingPhases
    <3>2. phase[d] \in {"ended", "crashed"} => phase'[d] = phase[d]
      BY <1>6, <2>2 DEF Displaced
    <3> QED
      BY <1>1, <1>2, <1>5, <1>7, <1>9, <2>2, <3>1, <3>2 DEF NamedOK
  <2> QED
    BY <2>1, <2>2
<1>12. \A d \in Conns : stream'[d] = "dropped" <=> stream[d] = "dropped"
  BY <1>6 DEF Displaced
<1>14. PoolHoldsWhole'
  <2> SUFFICES ASSUME NEW s \in Sns, pool'[s] # NoConn
               PROVE  PoolHoldsWhole!(s)!2'
    BY DEF PoolHoldsWhole
  <2>1. CASE s = Sn[c]
    BY <1>3, <1>6, <1>7, <1>8, <2>1
  <2>2. CASE s # Sn[c]
    <3>1. pool'[s] = pool[s] /\ pool[s] \in Conns /\ Sn[pool[s]] = s
          /\ ident[pool[s]] /\ stream[pool[s]] \in {"open", "closed"}
      BY <1>1, <1>8, <2>2 DEF TypeOK, PoolHoldsWhole
    <3>2. pool[s] # c /\ pool[s] \notin JunkOf(c)
      BY <1>5, <2>2, <3>1
    <3> QED
      BY <1>6, <1>7, <3>1, <3>2 DEF Displaced
  <2> QED
    BY <2>1, <2>2
<1>15. OneLivePerNode'
  <2> SUFFICES ASSUME NEW d \in Conns, ident'[d], ~killed'[d], stream'[d] # "dropped"
               PROVE  pool'[Sn[d]] = d
    BY DEF OneLivePerNode
  <2>1. CASE d = c
    BY <1>8, <2>1
  <2>2. CASE d # c
    <3>1. pool[Sn[d]] = d /\ d \notin JunkOf(c) /\ Sn[d] \in Sns
      BY <1>7, <1>12, <2>2, PoolAssumption DEF OneLivePerNode
    <3>2. Sn[d] # Sn[c]
      BY <1>5, <3>1
    <3> QED
      BY <1>8, <3>1, <3>2
  <2> QED
    BY <2>1, <2>2
<1>16. OnlineMeansServed'
  <2> SUFFICES ASSUME NEW s \in Sns, lastSeen'[s] = "online"
               PROVE  OnlineMeansServed!(s)!2'
    BY DEF OnlineMeansServed
  <2>1. CASE s = Sn[c]
    BY <1>4, <1>7, <1>8, <2>1
  <2>2. CASE s # Sn[c]
    <3>1. CASE pool[s] # NoConn /\ ~killed[pool[s]]
      <4>1. pool'[s] = pool[s] /\ pool[s] \in Conns /\ Sn[pool[s]] = s
        BY <1>1, <1>8, <2>2, <3>1 DEF TypeOK, PoolHoldsWhole
      <4>2. pool[s] # c /\ pool[s] \notin JunkOf(c)
        BY <1>5, <2>2, <4>1
      <4> QED
        BY <1>7, <3>1, <4>1, <4>2
    <3>2. CASE \E d \in Conns : Sn[d] = s /\ stream[d] = "dropped" /\ ~killed[d]
      <4>1. PICK d \in Conns : Sn[d] = s /\ stream[d] = "dropped" /\ ~killed[d]
        BY <3>2
      <4>2. d # c /\ d \notin JunkOf(c)
        BY <1>5, <2>2, <4>1
      <4> QED
        BY <1>7, <1>12, <4>1, <4>2
    <3> QED
      BY <1>8, <2>2, <3>1, <3>2 DEF OnlineExact, OnlineMeansServed
  <2> QED
    BY <2>1, <2>2
<1>17. ServedMeansOnline'
  <2> SUFFICES ASSUME NEW s \in Sns, pool'[s] # NoConn, ~killed'[pool'[s]]
               PROVE  lastSeen'[s] = "online"
    BY DEF ServedMeansOnline
  <2>1. CASE s = Sn[c]
    BY <1>7, <1>8, <2>1
  <2>2. CASE s # Sn[c]
    <3>1. pool'[s] = pool[s] /\ pool[s] \in Conns /\ Sn[pool[s]] = s
      BY <1>1, <1>8, <2>2 DEF TypeOK, PoolHoldsWhole
    <3>2. ~killed[pool[s]]
      BY <1>7, <2>2, <3>1
    <3> QED
      BY <1>8, <2>2, <3>1, <3>2 DEF OnlineExact, ServedMeansOnline
  <2> QED
    BY <2>1, <2>2
<1> QED
  BY <1>6, <1>9, <1>10, <1>11, <1>14, <1>15, <1>16, <1>17 DEF OnlineExact

-----------------------------------------------------------------------------
(* The theorems.                                                           *)

\* Before the first connection, the invariant holds.
LEMMA InitKeeps == Init => IInv
<1> SUFFICES ASSUME Init PROVE IInv
  OBVIOUS
<1>1. TypeOK
  BY PoolAssumption DEF Init, TypeOK, Phases
<1>2. QueueNamed /\ QueueOrder
  <2>1. \A c \in Conns : NoClose(c, <<>>)
    BY DEF NoClose
  <2>2. \A c \in Conns : phase[c] \notin Promised
    BY DEF Init, Promised
  <2> QED
    BY <2>1, <2>2 DEF Init, QueueNamed, QueueOrder, Ordered
<1>3. StreamOK /\ NamedOK
  BY DEF Init, StreamOK, NamedOK, ServingPhases
<1>4. PoolHoldsWhole /\ OneLivePerNode /\ OnlineExact
  BY DEF Init, PoolHoldsWhole, OneLivePerNode, OnlineExact, OnlineMeansServed,
         ServedMeansOnline
<1> QED
  BY <1>1, <1>2, <1>3, <1>4 DEF IInv

\* Every callback of the IOLoop, every timer and every event of the network
\* keeps the invariant.
THEOREM Inductive == IInv /\ [Next]_vars => IInv'
<1> SUFFICES ASSUME IInv, [Next]_vars PROVE IInv'
  OBVIOUS
<1>1. ASSUME NEW c \in Conns, HelloFails(c) \/ BadHello(c) \/ GoodHello(c)
      PROVE  IInv'
  BY <1>1, HelloFailsKeeps, BadHelloKeeps, GoodHelloKeeps
<1>2. ASSUME NEW c \in Conns, StartServing(c) \/ ReaderResumes(c) \/ OnClose(c)
      PROVE  IInv'
  BY <1>2, StartServingKeeps, ReaderResumesKeeps, OnCloseKeeps
<1>3. ASSUME NEW c \in Conns, Accept(c) \/ WaitEnds(c) PROVE IInv'
  BY <1>3, AcceptKeeps, WaitEndsKeeps
<1>4. ASSUME NEW c \in Conns,
             \/ OnlineCheck(c) \/ OfflineFires(c) \/ PingSent(c)
             \/ SecureWriteEnds(c) \/ CheckAgain(c) \/ CheckFails(c)
      PROVE  IInv'
  BY <1>4, TimersKeep, PingKeeps, CheckFailsKeeps
<1>5. ASSUME NEW c \in Conns, PieceArrives(c) \/ PeerCloses(c) \/ PeerVanishes(c)
      PROVE  IInv'
  BY <1>5, PieceArrivesKeeps, PeerClosesKeeps, PeerVanishesKeeps
<1>6. ASSUME NEW s \in Sns, SettingDrop(s) PROVE IInv'
  BY <1>6, SettingDropKeeps
<1>7. CASE UNCHANGED vars
  BY <1>7, NothingKeeps
<1> QED
  BY <1>1, <1>2, <1>3, <1>4, <1>5, <1>6, <1>7 DEF Next, RunCallback

\* The invariant holds in every behaviour of the server.
THEOREM Invariant == Spec => []IInv
<1>1. Init => IInv
  BY InitKeeps
<1>2. IInv /\ [Next]_vars => IInv'
  BY Inductive
<1> QED
  BY <1>1, <1>2, PTL DEF Spec

\* The pool names whole connections only, so that a handler that finds one can
\* kill it, and every live one, for any number of nodes and connections: through
\* PINGs that wait for the socket, lines behind a reply and takeovers alike.
THEOREM PoolCorrect == Spec => []PoolInv
<1>1. IInv => PoolInv
  BY DEF IInv, PoolInv
<1> QED
  BY <1>1, Invariant, PTL

\* What the user was told last of a node is what is so, in whatever order the
\* end of a connection and the hello of the next fall.
THEOREM UserToldRight == Spec => []OnlineExact
<1>1. IInv => OnlineExact
  BY DEF IInv
<1> QED
  BY <1>1, Invariant, PTL

\* A node's entry in the pool changes in two ways only: on_close takes out the
\* connection it takes apart, or a newer connection of the same node takes the
\* place of one that is killed with it.
LeavesInOrder ==
    \A s \in Sns : pool[s] # NoConn /\ pool'[s] # pool[s] =>
        \/ pool'[s] = NoConn /\ stream'[pool[s]] = "dropped"
        \/ pool'[s] \in Conns /\ Sn[pool'[s]] = s /\ killed'[pool[s]]

\* No step takes a node that is served out of the pool in any other way.
THEOREM PoolChangesInOrder == Spec => [][LeavesInOrder]_vars
<1>1. ASSUME IInv, [Next]_vars PROVE [LeavesInOrder]_vars
  <2>1. TypeOK /\ NoConn \notin Conns
    BY <1>1, PoolAssumption DEF IInv
  <2>2. ASSUME NEW c \in Conns, OnClose(c) PROVE LeavesInOrder
    BY <2>1, <2>2 DEF OnClose, Forget, LeavesInOrder, TypeOK
  <2>3. ASSUME NEW c \in Conns, GoodHello(c) PROVE LeavesInOrder
    <3>1. /\ pool' = [pool EXCEPT ![Sn[c]] = c]
          /\ killed' = [x \in Conns |->
                          killed[x] \/ x \in JunkOf(c) \/ (x = c /\ stream[c] # "open")]
      BY <2>3 DEF GoodHello
    <3> QED
      BY <2>1, <3>1 DEF LeavesInOrder, TypeOK, JunkOf
  <2>4. CASE UNCHANGED pool
    BY <2>4 DEF LeavesInOrder
  <2>5. [Next]_vars => \/ UNCHANGED pool
                      \/ \E c \in Conns : OnClose(c) \/ GoodHello(c)
    BY DEF vars, Next, RunCallback, HelloFails, BadHello, StartServing, ReaderResumes,
           Accept, WaitEnds, OnlineCheck, OfflineFires, PieceArrives, PeerCloses,
           PeerVanishes, SettingDrop, PingSent, SecureWriteEnds, CheckAgain, CheckFails
  <2> QED
    BY <1>1, <2>2, <2>3, <2>4, <2>5
<1> QED
  BY <1>1, Invariant, PTL DEF Spec

\* A step that drops no stream keeps LateOnly if what it arms, it arms on a
\* stream that is not dropped, or in one of the two late callbacks.
LEMMA NoneLate ==
    ASSUME \A d \in Conns : stream'[d] = "dropped" => stream[d] = "dropped",
           \A d \in Conns : tCheck'[d] =>
               tCheck[d] \/ stream[d] # "dropped" \/ LateLines(d) \/ LatePing(d),
           \A d \in Conns : tOffline'[d] =>
               tOffline[d] \/ stream[d] # "dropped" \/ LateLines(d)
    PROVE  LateOnly
BY DEF LateOnly

\* kill_myself closes a stream, and drops none.
LEMMA KillDropsNone ==
    ASSUME TypeOK, NEW c \in Conns, NEW ph, NEW rest, KillMyself(c, ph, rest)
    PROVE  \A d \in Conns : stream'[d] = "dropped" => stream[d] = "dropped"
BY DEF KillMyself, CloseStream, TypeOK

\* The lines behind a reply, and those of a piece of a connection that is whole.
LEMMA LinesLate ==
    ASSUME TypeOK, NEW c \in Conns, NEW n \in Nat, NEW arm \in BOOLEAN,
           HandleLines(c, n, arm),
           (arm \/ n > 0) => stream[c] # "dropped" \/ LateLines(c)
    PROVE  LateOnly
<1>1. /\ stream' = stream
      /\ IF arm \/ n > 0 THEN ArmTimers(c) ELSE UNCHANGED <<tCheck, tOffline>>
  BY DEF HandleLines
<1>2. \A d \in Conns : tCheck'[d] =>
          tCheck[d] \/ stream[d] # "dropped" \/ LateLines(d) \/ LatePing(d)
  BY <1>1 DEF ArmTimers, TypeOK
<1>3. \A d \in Conns : tOffline'[d] =>
          tOffline[d] \/ stream[d] # "dropped" \/ LateLines(d)
  BY <1>1 DEF ArmTimers, TypeOK
<1> QED
  BY <1>1, <1>2, <1>3, NoneLate

\* The loop of the reader, which arms the timers on a whole connection only.
LEMMA LoopLate ==
    ASSUME TypeOK, NEW c \in Conns, NEW arm \in BOOLEAN, Loop(c, arm),
           arm => stream[c] # "dropped"
    PROVE  LateOnly
<1>1. ASSUME stream[c] # "dropped", HandlePiece(c, arm) PROVE LateOnly
  <2>1. PICK n \in 0..MaxLines : HandleLines(c, lines[c] + n, arm)
    BY <1>1 DEF HandlePiece
  <2>2. lines[c] + n \in Nat
    BY PoolAssumption DEF TypeOK
  <2> QED
    BY <1>1, <2>1, <2>2, LinesLate
<1>2. ASSUME IF arm THEN ArmTimers(c) ELSE UNCHANGED <<tCheck, tOffline>>,
             \A d \in Conns : stream'[d] = "dropped" => stream[d] = "dropped"
      PROVE  LateOnly
  <2>1. \A d \in Conns : tCheck'[d] => tCheck[d] \/ stream[d] # "dropped"
    BY <1>2 DEF ArmTimers, TypeOK
  <2>2. \A d \in Conns : tOffline'[d] => tOffline[d] \/ stream[d] # "dropped"
    BY <1>2 DEF ArmTimers, TypeOK
  <2> QED
    BY <1>2, <2>1, <2>2, NoneLate
<1>3. \/ stream[c] # "dropped" /\ HandlePiece(c, arm)
      \/ /\ IF arm THEN ArmTimers(c) ELSE UNCHANGED <<tCheck, tOffline>>
         /\ \/ UNCHANGED stream
            \/ KillMyself(c, [phase EXCEPT ![c] = "ended"], Tail(ready))
  BY DEF Loop, ReadNext
<1> QED
  BY <1>1, <1>2, <1>3, KillDropsNone

\* on_close leaves no timer behind, and of all that may still be queued for the
\* connection it took apart, only the lines behind a reply and a PING sent in
\* time arm one again; for any number of connections.
THEOREM OnlyTwoAreLate == Spec => LateTimers
<1>1. ASSUME IInv, [Next]_vars PROVE [LateOnly]_vars
  <2>1. TypeOK /\ \A d \in Conns : phase[d] \in Promised => stream[d] # "dropped"
    BY <1>1 DEF IInv, QueueOrder, Ordered
  <2>2. ASSUME NEW c \in Conns, OnClose(c) PROVE LateOnly
    <3>1. /\ tCheck' = [tCheck EXCEPT ![c] = FALSE]
          /\ tOffline' = [tOffline EXCEPT ![c] = FALSE]
          /\ stream' = [stream EXCEPT ![c] = "dropped"]
      BY <2>2 DEF OnClose, CancelTimers
    <3> QED
      BY <2>1, <3>1 DEF LateOnly, TypeOK
  <2>3. ASSUME NEW c \in Conns, StartServing(c) PROVE LateOnly
    BY <2>1, <2>3, LoopLate DEF StartServing, Promised
  <2>4. ASSUME NEW c \in Conns, ReaderResumes(c) PROVE LateOnly
    <3>1. CASE phase[c] = "got" /\ HandlePiece(c, FALSE)
      <4>1. PICK n \in 0..MaxLines : HandleLines(c, lines[c] + n, FALSE)
        BY <3>1 DEF HandlePiece
      <4>2. lines[c] + n \in Nat /\ stream[c] # "dropped"
        BY <2>1, <3>1, PoolAssumption DEF TypeOK, Promised
      <4> QED
        BY <2>1, <4>1, <4>2, LinesLate
    <3>2. CASE KillMyself(c, [phase EXCEPT ![c] = "ended"], Tail(ready))
               /\ UNCHANGED <<tCheck, tOffline>>
      BY <2>1, <3>2, KillDropsNone, NoneLate
    <3>3. CASE phase[c] = "replied" /\ HandleLines(c, lines[c], FALSE)
      <4>1. lines[c] \in Nat /\ (lines[c] > 0 => LateLines(c))
        BY <2>1, <2>4, <3>3 DEF TypeOK, LateLines, ReaderResumes
      <4> QED
        BY <2>1, <3>3, <4>1, LinesLate
    <3>4. CASE Loop(c, FALSE)
      BY <2>1, <3>4, LoopLate
    <3> QED
      BY <2>4, <3>1, <3>2, <3>3, <3>4 DEF ReaderResumes
  <2>5. ASSUME NEW c \in Conns, CheckAgain(c) PROVE LateOnly
    <3>1. /\ LatePing(c) /\ tCheck' = [tCheck EXCEPT ![c] = TRUE]
          /\ UNCHANGED <<stream, tOffline>>
      BY <2>5 DEF CheckAgain, LatePing
    <3>2. \A d \in Conns : tCheck'[d] => tCheck[d] \/ LatePing(d)
      BY <2>1, <3>1 DEF TypeOK
    <3> QED
      BY <3>1, <3>2, NoneLate
  <2>6. ASSUME NEW c \in Conns, OnlineCheck(c) \/ OfflineFires(c) \/ CheckFails(c)
        PROVE  LateOnly
    <3>1. \A d \in Conns : (tCheck'[d] => tCheck[d]) /\ (tOffline'[d] => tOffline[d])
      BY <2>1, <2>6 DEF OnlineCheck, OfflineFires, CheckFails, NotRearmed, TypeOK, vars
    <3>2. \/ UNCHANGED stream
          \/ \E ph, rest : KillMyself(c, ph, rest)
      BY <2>6 DEF OnlineCheck, OfflineFires, CheckFails, vars
    <3> QED
      BY <2>1, <3>1, <3>2, KillDropsNone, NoneLate
  <2>7. ASSUME NEW c \in Conns, HelloFails(c) \/ BadHello(c) PROVE LateOnly
    <3>1. /\ UNCHANGED <<tCheck, tOffline>>
          /\ UNCHANGED stream \/ \E ph, rest : KillMyself(c, ph, rest)
      BY <2>7 DEF HelloFails, BadHello
    <3> QED
      BY <2>1, <3>1, KillDropsNone, NoneLate
  <2>8. ASSUME NEW c \in Conns, Accept(c) \/ GoodHello(c) \/ PeerCloses(c) PROVE LateOnly
    <3>1. \A d \in Conns : stream'[d] = "dropped" => stream[d] = "dropped"
      BY <2>1, <2>8 DEF Accept, GoodHello, PeerCloses, CloseStream, TypeOK
    <3>2. UNCHANGED <<tCheck, tOffline>>
      BY <2>8 DEF Accept, GoodHello, PeerCloses
    <3> QED
      BY <3>1, <3>2, NoneLate
  <2>9. ASSUME NEW s \in Sns, SettingDrop(s) PROVE LateOnly
    <3>1. /\ pool[s] \in Conns /\ KillMyself(pool[s], phase, ready)
          /\ UNCHANGED <<tCheck, tOffline>>
      BY <2>1, <2>9 DEF SettingDrop, TypeOK
    <3> QED
      BY <2>1, <3>1, KillDropsNone, NoneLate
  <2>10. ASSUME UNCHANGED <<stream, tCheck, tOffline>> PROVE LateOnly
    BY <2>10, NoneLate
  <2>11. ASSUME NEW c \in Conns,
                \/ WaitEnds(c) \/ PingSent(c) \/ SecureWriteEnds(c)
                \/ PieceArrives(c) \/ PeerVanishes(c)
         PROVE  LateOnly
    BY <2>10, <2>11 DEF WaitEnds, PingSent, SecureWriteEnds, PieceArrives, PeerVanishes
  <2> QED
    BY <1>1, <2>2, <2>3, <2>4, <2>5, <2>6, <2>7, <2>8, <2>9, <2>11 DEF Next, RunCallback
<1> QED
  BY <1>1, Invariant, PTL DEF Spec, LateTimers

-----------------------------------------------------------------------------
(* The rows in memory (RowCache), for any tokens, size, time to live and   *)
(* period.  A row that is served was in the table when it was cached, or   *)
(* was changed since.                                                      *)

Entry == [token : Tokens, row : Nat, time : Nat]
Alone(s) == \A i, j \in 1..Len(s) : s[i].token = s[j].token => i = j

CacheTypes ==
    /\ cache \in Seq(Entry) /\ Alone(cache)
    /\ rows \in [Tokens -> Nat \cup {Gone}]
    /\ was \in [Tokens -> Seq(Nat)]
    /\ clock = [now |-> clock.now, keep |-> clock.keep, changes |-> clock.changes]
    /\ clock.now \in Nat

\* A version is in the table, or all that came before it were.
Numbered == \A t \in Tokens : rows[t] # Gone => rows[t] = Len(was[t])

\* Version row of t was in the table at that time, or later.
Since(t, row, time) ==
    \/ row = rows[t]
    \/ row + 1 \in 1..Len(was[t]) /\ was[t][row + 1] >= time

Fresh == \A i \in 1..Len(cache) :
            cache[i].time <= clock.now /\ Since(cache[i].token, cache[i].row, cache[i].time)

Told(last) ==
    /\ last.token \in Tokens /\ last.row \in Nat \cup {Gone}
    /\ last.time \in 0..clock.now
    /\ last.full \in BOOLEAN
    /\ last.row # Gone => Since(last.token, last.row, last.time - Ttl)
    /\ last.row = Gone => rows[last.token] = Gone \/ last.full

AnswerOK ==
    /\ answer.last = None \/ Told(answer.last)
    /\ answer.last.full => Len(cache) < MaxSize
    /\ ~(answer.last.full /\ answer.before)

CacheInv == CacheTypes /\ Numbered /\ Fresh /\ AnswerOK

LEMMA RowsRead == RowCacheAssumption /\ CacheInv => RowsFresh
<1> SUFFICES ASSUME RowCacheAssumption, CacheInv, answer.last.time >= 0 PROVE
       LET last == answer.last
       IN /\ last.row # Gone => \/ last.row = rows[last.token]
                                \/ was[last.token][last.row + 1] >= last.time - Ttl
          /\ last.row = Gone => rows[last.token] = Gone \/ last.full
          /\ ~(last.full /\ answer.before)
          /\ \A i, j \in DOMAIN cache : cache[i].token = cache[j].token => i = j
  BY DEF RowsFresh
<1>1. answer.last # None
  <2>1. None.time = -1 /\ ~(-1 >= 0)
    BY DEF None
  <2> QED
    BY <2>1
<1>2. Told(answer.last) /\ ~(answer.last.full /\ answer.before)
  BY <1>1 DEF CacheInv, AnswerOK
<1>3. DOMAIN cache = 1..Len(cache)
  BY DEF CacheInv, CacheTypes
<1> QED
  BY <1>2, <1>3 DEF CacheInv, CacheTypes, Alone, Told, Since

LEMMA LeastNumber ==
    ASSUME NEW T, T \subseteq Nat, T # {}
    PROVE  \E x \in T : \A y \in T : x <= y
<1>1. PICK x \in T : \A y \in T : ~ (<<y, x>> \in OpToRel(<, Nat))
  <2>1. IsWellFoundedOn(OpToRel(<, Nat), Nat)
    BY NatLessThanWellFounded
  <2> QED
    BY <2>1, WFMin
<1>2. \A y \in T : ~(y < x)
  BY <1>1 DEF OpToRel
<1> QED
  BY <1>2

LEMMA LastTaken ==
    ASSUME NEW m \in Nat \ {0}, NEW s \in SUBSET (1..m)
    PROVE  /\ m \in s => Max(s) = m /\ s \ {m} \in SUBSET (1..(m - 1))
           /\ m \notin s => \A x : s \ {x} \in SUBSET (1..(m - 1))
<1>1. \A x \in s : m >= x /\ x \in 1..m
  OBVIOUS
<1>2. ASSUME m \in s PROVE Max(s) = m
  <2>1. \A x \in s : (\A y \in s : x >= y) => x = m
    BY <1>1, <1>2
  <2> QED
    BY <1>1, <1>2, <2>1 DEF Max
<1>3. \A x \in 1..m : x # m => x \in 1..(m - 1)
  OBVIOUS
<1> QED
  BY <1>1, <1>2, <1>3

LEMMA FirstOnes ==
    ASSUME NEW k \in Nat \ {0}
    PROVE  1..k # {} /\ Max(1..k) = k /\ (1..k) \ {k} = 1..(k - 1)
<1>1. k \in 1..k
  OBVIOUS
<1> QED
  BY <1>1, LastTaken

LEMMA Joined ==
    ASSUME NEW S, NEW a \in Seq(S), NEW b \in Seq(S)
    PROVE  /\ a \o b \in Seq(S) /\ Len(a \o b) = Len(a) + Len(b)
           /\ \A k \in 1..Len(a) : (a \o b)[k] = a[k]
           /\ \A k \in 1..Len(b) : (a \o b)[Len(a) + k] = b[k]
OBVIOUS

\* What is left of a sequence: entries of it, each once.
Thinned(r, s) ==
    /\ r \in Seq(Entry) /\ Len(r) <= Len(s) /\ Alone(r)
    /\ \A k \in 1..Len(r) : \E i \in 1..Len(s) : r[k] = s[i]

LEMMA Piece ==
    ASSUME NEW s \in Seq(Entry), NEW m \in 1..Len(s) + 1, NEW n \in m - 1..Len(s)
    PROVE  /\ SubSeq(s, m, n) \in Seq(Entry) /\ Len(SubSeq(s, m, n)) = n - m + 1
           /\ \A k \in 1..n - m + 1 : SubSeq(s, m, n)[k] = s[m - 1 + k]
OBVIOUS

LEMMA Removed ==
    ASSUME NEW s \in Seq(Entry), Alone(s), NEW i \in 1..Len(s)
    PROVE  /\ Thinned(RemoveAt(s, i), s)
           /\ Len(RemoveAt(s, i)) = Len(s) - 1
           /\ \A k \in 1..Len(RemoveAt(s, i)) : RemoveAt(s, i)[k].token # s[i].token
<1>1. PICK n \in Nat : n = Len(s)
  OBVIOUS
<1>2. PICK a, b, r : a = SubSeq(s, 1, i - 1) /\ b = SubSeq(s, i + 1, n) /\ r = a \o b
  OBVIOUS
<1>3. /\ a \in Seq(Entry) /\ Len(a) = i - 1
      /\ \A k \in 1..i - 1 : a[k] = s[k]
  BY <1>1, <1>2, Piece
<1>4. /\ b \in Seq(Entry) /\ Len(b) = n - i
      /\ \A k \in 1..n - i : b[k] = s[i + k]
  BY <1>1, <1>2, Piece
<1>5. /\ r \in Seq(Entry) /\ Len(r) = n - 1
      /\ \A k \in 1..i - 1 : r[k] = a[k]
      /\ \A k \in 1..n - i : r[i - 1 + k] = b[k]
  <2>1. /\ r \in Seq(Entry) /\ Len(r) = Len(a) + Len(b)
        /\ \A k \in 1..Len(a) : r[k] = a[k]
        /\ \A k \in 1..Len(b) : r[Len(a) + k] = b[k]
    BY <1>2, <1>3, <1>4, Joined
  <2> QED
    BY <1>1, <1>3, <1>4, <2>1
<1>6. ASSUME NEW k \in 1..n - 1
      PROVE  r[k] = IF k < i THEN s[k] ELSE s[k + 1]
  <2>1. CASE k < i
    <3>1. k \in 1..i - 1 /\ r[k] = a[k]
      BY <1>1, <1>5, <2>1
    <3> QED
      BY <1>3, <2>1, <3>1
  <2>2. CASE ~(k < i)
    <3>1. /\ k - (i - 1) \in 1..n - i /\ i + (k - (i - 1)) = k + 1
          /\ i - 1 + (k - (i - 1)) = k
      BY <1>1, <2>2
    <3>2. r[k] = b[k - (i - 1)]
      BY <1>5, <3>1
    <3> QED
      BY <1>4, <2>2, <3>1, <3>2
  <2> QED
    BY <2>1, <2>2
<1>7. \A k \in 1..n - 1 : (IF k < i THEN k ELSE k + 1) \in 1..n /\ (IF k < i THEN k ELSE k + 1) # i
  BY <1>1
<1>8. \A k \in 1..n - 1 : r[k].token # s[i].token
  BY <1>1, <1>6, <1>7 DEF Alone
<1>9. Alone(r)
  <2> SUFFICES ASSUME NEW k \in 1..n - 1, NEW l \in 1..n - 1, r[k].token = r[l].token PROVE k = l
    BY <1>5 DEF Alone
  <2>1. (IF k < i THEN k ELSE k + 1) = (IF l < i THEN l ELSE l + 1)
    BY <1>1, <1>6, <1>7 DEF Alone
  <2> QED
    BY <2>1
<1>10. Thinned(r, s)
  <2>1. \A k \in 1..Len(r) : \E j \in 1..Len(s) : r[k] = s[j]
    <3> SUFFICES ASSUME NEW k \in 1..n - 1 PROVE \E j \in 1..n : r[k] = s[j]
      BY <1>1, <1>5
    <3>1. PICK j \in 1..n : j = IF k < i THEN k ELSE k + 1
      BY <1>7
    <3>2. r[k] = s[j]
      BY <1>6, <3>1
    <3> QED
      BY <3>2
  <2>2. r \in Seq(Entry) /\ Len(r) <= Len(s)
    BY <1>1, <1>5
  <2> QED
    BY ONLY <1>9, <2>1, <2>2 DEF Thinned
<1>11. r = RemoveAt(s, i)
  BY <1>1, <1>2 DEF RemoveAt
<1> QED
  BY <1>1, <1>5, <1>8, <1>10, <1>11

\* g keeps the entries of the cache, up to the n-th (Kept).
Keeping(n, g) ==
    g = [s \in SUBSET (1..n) |->
            IF s = {} THEN <<>> ELSE KeptWith(g[s \ {Max(s)}], cache[Max(s)])]

\* The housekeeper keeps one entry after the other.
LEMMA KeptMade ==
    ASSUME NEW E, cache \in Seq(E)
    PROVE  \E f : /\ f[0] = <<>>
                  /\ \A k \in 1..Len(cache) : f[k] = KeptWith(f[k - 1], cache[k])
                  /\ Kept = f[Len(cache)]
<1> DEFINE P(n, g) == Keeping(n, g)
           Keep(k, v) == KeptWith(v, cache[k])
           fold == CHOOSE g : P(Len(cache), g)
<1>1. Len(cache) \in Nat /\ DOMAIN cache = 1..Len(cache)
  OBVIOUS
<1>2. Kept = fold[1..Len(cache)]
  BY <1>1 DEF Kept, FoldLeft, MapThenFoldSet, Keeping
<1>3. \A n, g : P(n, g) <=> g = [s \in SUBSET (1..n) |-> IF s = {} THEN <<>> ELSE Keep(Max(s), g[s \ {Max(s)}])]
  BY DEF Keeping
<1> HIDE DEF P, Keep
<1>4. \A n \in 0..Len(cache) : \E g : P(n, g)
  <2> DEFINE Bad == {n \in 0..Len(cache) : ~\E g : P(n, g)}
  <2> SUFFICES ASSUME Bad # {} PROVE FALSE
    OBVIOUS
  <2>1. PICK n \in Bad : \A y \in Bad : n <= y
    <3>1. Bad \subseteq Nat
      OBVIOUS
    <3> HIDE DEF Bad
    <3> QED
      BY <3>1, LeastNumber
  <2>2. n # 0
    <3>1. SUBSET (1..0) = {{}}
      OBVIOUS
    <3>2. P(0, [s \in SUBSET (1..0) |-> <<>>])
      BY <1>3, <3>1
    <3> QED
      BY <3>2
  <2>3. n \in Nat \ {0} /\ n - 1 \in 0..Len(cache) /\ n - 1 \notin Bad
    <3>1. n \in 0..Len(cache)
      OBVIOUS
    <3>2. n \in Nat \ {0} /\ n - 1 \in 0..Len(cache) /\ ~(n <= n - 1)
      BY <1>1, <2>2, <3>1
    <3> HIDE DEF Bad
    <3> QED
      BY <2>1, <3>2
  <2>4. PICK g : P(n - 1, g)
    BY <2>3
  <2> DEFINE h == [s \in SUBSET (1..n) |-> IF n \in s THEN Keep(n, g[s \ {n}]) ELSE g[s]]
  <2>5. ASSUME NEW s \in SUBSET (1..n)
        PROVE  h[s] = IF s = {} THEN <<>> ELSE Keep(Max(s), h[s \ {Max(s)}])
    <3>1. CASE n \in s
      <4>1. Max(s) = n /\ s \ {n} \in SUBSET (1..n) /\ n \notin s \ {n}
        BY <2>3, <3>1, LastTaken
      <4>2. h[s \ {n}] = g[s \ {n}]
        BY <4>1
      <4> QED
        BY <3>1, <4>1, <4>2
    <3>2. CASE n \notin s
      <4> DEFINE r == s \ {Max(s)}
      <4>1. s \in SUBSET (1..(n - 1)) /\ r \in SUBSET (1..(n - 1))
        <5>1. s = s \ {n}
          BY <3>2
        <5> QED
          BY <2>3, <3>2, <5>1, LastTaken
      <4>2. r \in SUBSET (1..n) /\ n \notin r
        BY <3>2
      <4>3. h[r] = g[r] /\ h[s] = g[s]
        BY <3>2, <4>2
      <4>4. g[s] = IF s = {} THEN <<>> ELSE Keep(Max(s), g[r])
        BY <1>3, <2>4, <4>1
      <4> QED
        BY <4>3, <4>4
    <3> QED
      BY <3>1, <3>2
  <2>6. P(n, h)
    <3> HIDE DEF h
    <3>1. h = [s \in SUBSET (1..n) |-> h[s]]
      BY DEF h
    <3>2. h = [s \in SUBSET (1..n) |-> IF s = {} THEN <<>> ELSE Keep(Max(s), h[s \ {Max(s)}])]
      BY <2>5, <3>1
    <3> QED
      BY <1>3, <3>2
  <2> QED
    BY <2>1, <2>6
<1>5. P(Len(cache), fold)
  BY <1>1, <1>4
<1> HIDE DEF fold
<1> DEFINE f == [k \in 0..Len(cache) |-> fold[1..k]]
<1>6. ASSUME NEW s \in SUBSET (1..Len(cache))
      PROVE  fold[s] = IF s = {} THEN <<>> ELSE Keep(Max(s), fold[s \ {Max(s)}])
  BY <1>3, <1>5
<1>7. f[0] = <<>>
  <2>1. 1..0 = {} /\ 0 \in 0..Len(cache)
    BY <1>1
  <2> QED
    BY <1>6, <2>1
<1>8. ASSUME NEW k \in 1..Len(cache) PROVE f[k] = Keep(k, f[k - 1])
  <2>1. k \in 0..Len(cache) /\ k - 1 \in 0..Len(cache) /\ k \in Nat \ {0} /\ 1..k \in SUBSET (1..Len(cache))
    BY <1>1
  <2>2. 1..k # {} /\ Max(1..k) = k /\ (1..k) \ {k} = 1..(k - 1)
    BY ONLY <2>1, FirstOnes
  <2>3. fold[1..k] = Keep(k, fold[1..(k - 1)])
    BY <1>6, <2>1, <2>2
  <2> QED
    BY <2>1, <2>3
<1>9. Kept = f[Len(cache)]
  BY <1>1, <1>2
<1> QED
  BY <1>7, <1>8, <1>9 DEF Keep

LEMMA KeptThinned ==
    ASSUME cache \in Seq(Entry), Alone(cache)
    PROVE  Thinned(Kept, cache)
<1>1. PICK f : /\ f[0] = <<>>
               /\ \A k \in 1..Len(cache) : f[k] = KeptWith(f[k - 1], cache[k])
               /\ Kept = f[Len(cache)]
  BY KeptMade
<1>2. PICK n : n \in Nat /\ n = Len(cache)
  OBVIOUS
<1> DEFINE Good(k) == /\ f[k] \in Seq(Entry) /\ Len(f[k]) <= k /\ Alone(f[k])
                      /\ \A m \in 1..Len(f[k]) : \E i \in 1..k : f[k][m] = cache[i]
<1>3. Good(0)
  BY <1>1 DEF Alone
<1>4. ASSUME NEW k \in 1..n, Good(k - 1) PROVE Good(k)
  <2>1. PICK c : c = f[k - 1]
    OBVIOUS
  <2>2. /\ c \in Seq(Entry) /\ Len(c) <= k - 1 /\ Len(c) \in Nat /\ Alone(c)
        /\ \A m \in 1..Len(c) : \E i \in 1..k - 1 : c[m] = cache[i]
    BY <1>4, <2>1
  <2>3. k \in Nat /\ k - 1 \in Nat /\ k \in 1..k /\ 1..k - 1 \subseteq 1..k /\ \A i \in 1..k - 1 : i # k /\ i \in 1..n
    BY <1>2
  <2>4. cache[k] \in Entry
    BY <1>2
  <2>5. f[k] = c \/ f[k] = Append(c, cache[k])
    BY <1>1, <1>2, <2>1 DEF KeptWith
  <2>6. CASE f[k] = c
    <3>1. \A m \in 1..Len(c) : \E i \in 1..k : c[m] = cache[i]
      BY <2>2, <2>3
    <3>2. Len(c) <= k
      BY <2>2, <2>3
    <3> QED
      BY <2>2, <2>6, <3>1, <3>2
  <2>7. CASE f[k] = Append(c, cache[k])
    <3>1. PICK d : d = f[k]
      OBVIOUS
    <3>2. /\ d \in Seq(Entry) /\ Len(d) = Len(c) + 1
          /\ \A m \in 1..Len(d) : (m \in 1..Len(c) /\ d[m] = c[m]) \/ (m = Len(d) /\ d[m] = cache[k])
      BY <2>2, <2>4, <2>7, <3>1
    <3>3. \A m \in 1..Len(d) : \E i \in 1..k : d[m] = cache[i]
      BY <2>2, <2>3, <3>2
    <3>4. \A m \in 1..Len(c) : c[m].token # cache[k].token
      <4> SUFFICES ASSUME NEW m \in 1..Len(c), c[m].token = cache[k].token PROVE FALSE
        OBVIOUS
      <4>1. PICK i \in 1..k - 1 : c[m] = cache[i]
        BY <2>2
      <4> QED
        BY <1>2, <2>3, <4>1 DEF Alone
    <3>5. Alone(d)
      <4> SUFFICES ASSUME NEW m \in 1..Len(d), NEW l \in 1..Len(d), d[m].token = d[l].token PROVE m = l
        BY DEF Alone
      <4> QED
        BY <2>2, <3>2, <3>4 DEF Alone
    <3> QED
      BY <2>2, <3>1, <3>2, <3>3, <3>5
  <2> QED
    BY <2>5, <2>6, <2>7
<1> HIDE DEF Good
<1>5. \A k \in 0..n : Good(k)
  <2> DEFINE Bad == {k \in 0..n : ~Good(k)}
  <2> SUFFICES ASSUME Bad # {} PROVE FALSE
    OBVIOUS
  <2>1. Bad \subseteq Nat
    BY <1>2
  <2>2. PICK k \in Bad : \A y \in Bad : k <= y
    <3> HIDE DEF Bad
    <3> QED
      BY <2>1, LeastNumber
  <2>3. k \in 1..n
    <3>1. k \in 0..n /\ ~Good(k)
      BY <2>2
    <3> QED
      BY <1>2, <1>3, <3>1
  <2>4. k - 1 \in 0..n /\ ~(k <= k - 1)
    BY <1>2, <2>3
  <2>5. Good(k - 1)
    BY <2>2, <2>4
  <2> QED
    BY <1>4, <2>3, <2>5
<1>6. Good(n)
  BY <1>2, <1>5
<1> QED
  BY <1>1, <1>2, <1>6 DEF Good, Thinned

-----------------------------------------------------------------------------

LEMMA EntryIs ==
    ASSUME NEW s \in Seq(Entry), NEW i \in 1..Len(s)
    PROVE  /\ s[i].token \in Tokens /\ s[i].row \in Nat /\ s[i].row # Gone
           /\ s[i].time \in Nat
<1>1. s[i] \in Entry
  OBVIOUS
<1> QED
  BY <1>1 DEF Entry, Gone

LEMMA PositionIs ==
    ASSUME NEW t, cache \in Seq(Entry), Cached(t)
    PROVE  Position(t) \in 1..Len(cache) /\ cache[Position(t)].token = t
BY DEF Position, Cached

\* The entry of t goes.
LEMMA WithoutIs ==
    ASSUME NEW t, cache \in Seq(Entry), Alone(cache)
    PROVE  /\ Thinned(Without(t), cache)
           /\ \A k \in 1..Len(Without(t)) : Without(t)[k].token # t
<1>1. CASE Cached(t)
  <2>1. Position(t) \in 1..Len(cache) /\ cache[Position(t)].token = t
    BY <1>1, PositionIs
  <2>2. Without(t) = RemoveAt(cache, Position(t))
    BY <1>1 DEF Without
  <2> QED
    BY <2>1, <2>2, Removed
<1>2. CASE ~Cached(t)
  <2>1. Without(t) = cache
    BY <1>2 DEF Without
  <2>2. \A k \in 1..Len(cache) : cache[k].token # t
    BY <1>2 DEF Cached
  <2>3. Thinned(cache, cache)
    BY DEF Thinned
  <2> QED
    BY <2>1, <2>2, <2>3
<1> QED
  BY <1>1, <1>2

\* What is left of fresh entries is fresh.
LEMMA StillFresh ==
    ASSUME CacheTypes, Fresh, NEW r, Thinned(r, cache)
    PROVE  \A i \in 1..Len(r) : r[i].time <= clock.now /\ Since(r[i].token, r[i].row, r[i].time)
<1> SUFFICES ASSUME NEW i \in 1..Len(r)
             PROVE  r[i].time <= clock.now /\ Since(r[i].token, r[i].row, r[i].time)
  OBVIOUS
<1>1. PICK k \in 1..Len(cache) : r[i] = cache[k]
  BY DEF Thinned
<1> QED
  BY <1>1 DEF Fresh

-----------------------------------------------------------------------------

LEMMA StartsFresh == RowCacheAssumption /\ CacheInit => CacheInv
<1> SUFFICES ASSUME RowCacheAssumption, CacheInit PROVE CacheInv
  OBVIOUS
<1>1. <<>> \in Seq(Entry) /\ Len(<<>>) = 0 /\ <<>> \in Seq(Nat)
  OBVIOUS
<1>2. CacheTypes
  <2>1. cache \in Seq(Entry) /\ Alone(cache)
    BY <1>1 DEF CacheInit, Alone
  <2>2. clock = [now |-> clock.now, keep |-> clock.keep, changes |-> clock.changes] /\ clock.now \in Nat
    BY DEF CacheInit
  <2>3. rows \in [Tokens -> Nat \cup {Gone}]
    BY DEF CacheInit
  <2>4. was \in [Tokens -> Seq(Nat)]
    BY <1>1 DEF CacheInit
  <2> QED
    BY <2>1, <2>2, <2>3, <2>4 DEF CacheTypes
<1>3. Numbered
  BY <1>1 DEF CacheInit, Numbered
<1>4. Fresh
  BY <1>1 DEF CacheInit, Fresh
<1>5. AnswerOK
  <2>1. answer.last = None /\ None.full = FALSE
    BY DEF CacheInit, None
  <2> QED
    BY <2>1 DEF AnswerOK
<1> QED
  BY <1>2, <1>3, <1>4, <1>5 DEF CacheInv

\* What a round of the housekeeper, or a request, may do to the entries.
LEMMA Swept == RowCacheAssumption /\ CacheInv /\ Housekeeper => CacheInv'
<1> SUFFICES ASSUME RowCacheAssumption, CacheInv, Housekeeper PROVE CacheInv'
  OBVIOUS
<1> USE DEF CacheInv
<1>1. Thinned(cache', cache)
  BY KeptThinned DEF Housekeeper, CacheTypes
<1>2. /\ clock' = [clock EXCEPT !.keep = clock.now + Period]
      /\ rows' = rows /\ was' = was /\ answer' = answer
  BY DEF Housekeeper
<1>3. clock'.now = clock.now /\ clock' = [now |-> clock'.now, keep |-> clock'.keep, changes |-> clock'.changes]
  BY <1>2 DEF CacheTypes
<1>4. CacheTypes'
  BY <1>1, <1>2, <1>3 DEF CacheTypes, Thinned
<1>5. Numbered'
  BY <1>2 DEF Numbered
<1>6. \A t, row, time : Since(t, row, time)' <=> Since(t, row, time)
  BY <1>2 DEF Since
<1>7. Fresh'
  <2>1. \A i \in 1..Len(cache') :
           cache'[i].time <= clock.now /\ Since(cache'[i].token, cache'[i].row, cache'[i].time)
    BY <1>1, StillFresh
  <2> QED
    BY <1>3, <1>6, <2>1 DEF Fresh
<1>8. AnswerOK'
  <2>1. \A last : Told(last)' <=> Told(last)
    BY <1>2, <1>3, <1>6 DEF Told
  <2>2. Len(cache') <= Len(cache) /\ Len(cache') \in Nat /\ Len(cache) \in Nat
    BY <1>1 DEF Thinned, CacheTypes
  <2>3. None' = None
    BY DEF None
  <2> QED
    BY <1>2, <2>1, <2>2, <2>3 DEF AnswerOK, RowCacheAssumption
<1> QED
  BY <1>4, <1>5, <1>7, <1>8

LEMMA Ticked == RowCacheAssumption /\ CacheInv /\ Tick => CacheInv'
<1> SUFFICES ASSUME RowCacheAssumption, CacheInv, Tick PROVE CacheInv'
  OBVIOUS
<1> USE DEF CacheInv
<1>1. /\ clock' = [clock EXCEPT !.now = @ + 1]
      /\ cache' = cache /\ rows' = rows /\ was' = was /\ answer' = answer
  BY DEF Tick
<1>2. /\ clock.now \in Nat /\ clock'.now = clock.now + 1
      /\ clock' = [now |-> clock'.now, keep |-> clock'.keep, changes |-> clock'.changes]
  BY <1>1 DEF CacheTypes
<1>3. CacheTypes'
  BY <1>1, <1>2 DEF CacheTypes
<1>4. Numbered'
  BY <1>1 DEF Numbered
<1>5. \A t, row, time : Since(t, row, time)' <=> Since(t, row, time)
  BY <1>1 DEF Since
<1>6. Fresh'
  <2> SUFFICES ASSUME NEW i \in 1..Len(cache)
               PROVE  cache[i].time <= clock'.now /\ Since(cache[i].token, cache[i].row, cache[i].time)
    BY <1>1, <1>5 DEF Fresh
  <2>1. cache[i].time \in Nat
    BY EntryIs DEF CacheTypes
  <2> QED
    BY <1>2, <2>1 DEF Fresh
<1>7. AnswerOK'
  <2>1. \A last : Told(last) => Told(last)'
    BY <1>1, <1>2, <1>5 DEF Told
  <2>2. None' = None
    BY DEF None
  <2> QED
    BY <1>1, <2>1, <2>2 DEF AnswerOK
<1> QED
  BY <1>3, <1>4, <1>6, <1>7

\* A change of the table numbers the version that goes, and keeps the time of it.
LEMMA Changed == RowCacheAssumption /\ CacheInv /\ (\E t \in Tokens : \E row : Change(t, row)) => CacheInv'
<1> SUFFICES ASSUME RowCacheAssumption, CacheInv, NEW t \in Tokens, NEW row, Change(t, row) PROVE CacheInv'
  OBVIOUS
<1> USE DEF CacheInv
<1>1. /\ rows[t] # Gone /\ row \in {rows[t] + 1, Gone}
      /\ rows' = [rows EXCEPT ![t] = row]
      /\ was' = [was EXCEPT ![t] = Append(@, clock.now)]
      /\ clock' = [clock EXCEPT !.changes = @ - 1]
      /\ cache' = cache /\ answer' = answer
  BY DEF Change
<1>2. /\ clock.now \in Nat /\ clock'.now = clock.now
      /\ clock' = [now |-> clock'.now, keep |-> clock'.keep, changes |-> clock'.changes]
  BY <1>1 DEF CacheTypes
<1>3. /\ rows' \in [Tokens -> Nat \cup {Gone}] /\ rows'[t] = row
      /\ \A u \in Tokens : u # t => rows'[u] = rows[u]
      /\ rows[t] \in Nat
  BY <1>1 DEF CacheTypes
<1>4. PICK w, n : w = was[t] /\ n = Len(was[t])
  OBVIOUS
<1>5. w \in Seq(Nat) /\ n \in Nat /\ n = Len(w)
  BY <1>4 DEF CacheTypes
<1>6. /\ Append(w, clock.now) \in Seq(Nat) /\ Len(Append(w, clock.now)) = n + 1
      /\ \A i \in 1..n : Append(w, clock.now)[i] = w[i]
      /\ Append(w, clock.now)[n + 1] = clock.now
  BY <1>2, <1>5
<1>7. /\ was' \in [Tokens -> Seq(Nat)] /\ was'[t] = Append(w, clock.now)
      /\ \A u \in Tokens : u # t => was'[u] = was[u]
  BY <1>1, <1>4, <1>6 DEF CacheTypes
<1>8. rows[t] = n
  BY <1>1, <1>4 DEF Numbered
<1>9. CacheTypes'
  BY <1>1, <1>2, <1>3, <1>7 DEF CacheTypes
<1>10. Numbered'
  <2> SUFFICES ASSUME NEW u \in Tokens, rows'[u] # Gone PROVE rows'[u] = Len(was'[u])
    BY DEF Numbered, Gone
  <2>1. CASE u = t
    BY <1>1, <1>3, <1>6, <1>7, <1>8, <2>1
  <2>2. CASE u # t
    BY <1>3, <1>7, <2>2 DEF Numbered
  <2> QED
    BY <2>1, <2>2
<1>11. ASSUME NEW u \in Tokens, NEW r, r # Gone, NEW time \in Int, time <= clock.now, Since(u, r, time)
       PROVE  Since(u, r, time)'
  <2>1. CASE u # t
    BY <1>3, <1>7, <1>11, <2>1 DEF Since
  <2>2. CASE u = t /\ r = rows[u]
    <3>1. r = n /\ r + 1 = n + 1 /\ n + 1 \in 1..n + 1
      BY <1>5, <1>8, <2>2
    <3> QED
      BY <1>2, <1>6, <1>7, <1>11, <2>2, <3>1 DEF Since
  <2>3. CASE u = t /\ r + 1 \in 1..n /\ w[r + 1] >= time
    <3>1. r + 1 \in 1..n + 1
      BY <1>5, <2>3
    <3> QED
      BY <1>6, <1>7, <2>3, <3>1 DEF Since
  <2> QED
    BY <1>4, <1>11, <2>1, <2>2, <2>3 DEF Since
<1>12. Fresh'
  <2> SUFFICES ASSUME NEW i \in 1..Len(cache)
               PROVE  cache[i].time <= clock'.now /\ Since(cache[i].token, cache[i].row, cache[i].time)'
    BY <1>1 DEF Fresh
  <2>1. cache[i].token \in Tokens /\ cache[i].row \in Nat /\ cache[i].time \in Nat /\ cache[i].row # Gone
    BY EntryIs DEF CacheTypes
  <2>2. cache[i].time <= clock.now /\ Since(cache[i].token, cache[i].row, cache[i].time)
    BY DEF Fresh
  <2>3. Since(cache[i].token, cache[i].row, cache[i].time)'
    BY <1>1, <1>11, <2>1, <2>2
  <2> QED
    BY <1>2, <2>2, <2>3
<1>13. AnswerOK'
  <2>1. ASSUME NEW last, Told(last) PROVE Told(last)'
    <3>1. /\ last.token \in Tokens /\ last.time \in 0..clock.now
          /\ last.row # Gone => Since(last.token, last.row, last.time - Ttl)
          /\ last.row = Gone => rows[last.token] = Gone \/ last.full
      BY <2>1 DEF Told
    <3>2. last.time - Ttl \in Int /\ last.time - Ttl <= clock.now
      BY <1>2, <3>1 DEF RowCacheAssumption
    <3>3. last.row # Gone => Since(last.token, last.row, last.time - Ttl)'
      BY <1>11, <3>1, <3>2
    <3>4. last.row = Gone => rows'[last.token] = Gone \/ last.full
      BY <1>1, <1>3, <3>1
    <3> QED
      BY <1>2, <2>1, <3>3, <3>4 DEF Told, Gone
  <2>2. None' = None
    BY DEF None
  <2> QED
    BY <1>1, <2>1, <2>2 DEF AnswerOK
<1> QED
  BY <1>9, <1>10, <1>12, <1>13

\* A request: a hit, a token of no node, and a row that is fetched.
LEMMA Requested == RowCacheAssumption /\ CacheInv /\ (\E t \in Tokens : GetNode(t)) => CacheInv'
<1> SUFFICES ASSUME RowCacheAssumption, CacheInv, NEW t \in Tokens, GetNode(t) PROVE CacheInv'
  OBVIOUS
<1>0. CacheTypes /\ Numbered /\ Fresh /\ AnswerOK
  BY DEF CacheInv
<1>1. rows' = rows /\ clock' = clock /\ was' = was /\ clock.now \in Nat
  BY <1>0 DEF GetNode, CacheTypes
<1>2. cache \in Seq(Entry) /\ Alone(cache)
  BY <1>0 DEF CacheTypes
<1>3. \A u, row, time : Since(u, row, time)' <=> Since(u, row, time)
  BY <1>1 DEF Since
<1>4. ASSUME NEW row, NEW full \in BOOLEAN, Answered(t, row, full), row \in Nat \cup {Gone},
             row # Gone => Since(t, row, clock.now - Ttl),
             row = Gone => rows[t] = Gone \/ full,
             full => Len(cache') < MaxSize /\ ~answer.last.full
      PROVE  AnswerOK'
  <2>1. PICK last : last = [token |-> t, row |-> row, full |-> full, time |-> clock.now]
    OBVIOUS
  <2>2. /\ last.token = t /\ last.row = row /\ last.full = full /\ last.time = clock.now
    BY <2>1
  <2>3. answer'.last = last /\ answer'.before = answer.last.full
    BY <1>4, <2>1 DEF Answered
  <2>4. Told(last)
    BY <1>1, <1>4, <2>2 DEF Told
  <2>5. Told(last)'
    BY <1>1, <1>3, <2>4 DEF Told
  <2> QED
    BY <1>4, <2>2, <2>3, <2>5 DEF AnswerOK
<1>5. ASSUME cache' \in Seq(Entry), Alone(cache'), AnswerOK',
             \A i \in 1..Len(cache') :
                 cache'[i].time <= clock.now /\ Since(cache'[i].token, cache'[i].row, cache'[i].time)
      PROVE  CacheInv'
  <2>1. CacheTypes'
    BY <1>0, <1>1, <1>5 DEF CacheTypes
  <2>2. Numbered'
    BY <1>0, <1>1 DEF Numbered
  <2>3. Fresh'
    BY <1>1, <1>3, <1>5 DEF Fresh
  <2> QED
    BY <1>5, <2>1, <2>2, <2>3 DEF CacheInv
<1>6. PICK c : c = Without(t)
  OBVIOUS
<1>7. Thinned(c, cache) /\ \A k \in 1..Len(c) : c[k].token # t
  BY <1>2, <1>6, WithoutIs
<1>8. /\ c \in Seq(Entry) /\ Alone(c) /\ Len(c) \in Nat /\ Len(c) <= Len(cache)
      /\ \A i \in 1..Len(c) : c[i].time <= clock.now /\ Since(c[i].token, c[i].row, c[i].time)
  <2>1. \A i \in 1..Len(c) : c[i].time <= clock.now /\ Since(c[i].token, c[i].row, c[i].time)
    BY <1>0, <1>7, StillFresh
  <2>2. c \in Seq(Entry) /\ Alone(c) /\ Len(c) <= Len(cache)
    BY <1>7 DEF Thinned
  <2> QED
    BY <2>1, <2>2
<1>9. CASE Found(t) /\ cache' = Hit(t) /\ Answered(t, Item(t).row, FALSE)
  <2>1. PICK p : p = Position(t)
    OBVIOUS
  <2>2. ~(clock.now > Item(t).time + Ttl)
    BY <1>9 DEF Found, Expired
  <2>3. p \in 1..Len(cache) /\ cache[p].token = t
    BY <1>2, <1>9, <2>1, PositionIs DEF Found
  <2>4. PICK row, time : row = cache[p].row /\ time = cache[p].time
    OBVIOUS
  <2>5. Item(t).row = row /\ Item(t).time = time
    BY <2>1, <2>4 DEF Item
  <2>6. row \in Nat /\ row # Gone /\ time \in Nat
    BY <1>2, <2>3, <2>4, EntryIs
  <2>7. Since(t, row, time)
    BY <1>0, <2>3, <2>4 DEF Fresh
  <2>8. clock.now - Ttl <= time
    BY <1>1, <2>2, <2>5, <2>6 DEF RowCacheAssumption
  <2>9. Since(t, row, clock.now - Ttl)
    <3>1. \A i \in 1..Len(was[t]) : was[t][i] \in Nat
      BY <1>0 DEF CacheTypes
    <3>2. clock.now - Ttl \in Int
      BY <1>1 DEF RowCacheAssumption
    <3> QED
      BY <2>6, <2>7, <2>8, <3>1, <3>2 DEF Since
  <2>10. AnswerOK'
    BY <1>4, <1>9, <2>5, <2>6, <2>9
  <2>11. cache' = cache
    BY <1>9 DEF Hit
  <2> QED
    BY <1>0, <1>2, <1>5, <2>10, <2>11 DEF Fresh
<1>10. CASE ~Found(t) /\ rows[t] = Gone /\ cache' = c /\ Answered(t, Gone, FALSE)
  <2>1. AnswerOK'
    BY <1>4, <1>10
  <2> QED
    BY <1>5, <1>8, <1>10, <2>1
<1>11. CASE /\ rows[t] # Gone /\ cache' = Add(c, t, rows[t])
            /\ IF IsFull(c) THEN Answered(t, Gone, TRUE) ELSE Answered(t, rows[t], FALSE)
  <2>1. rows[t] \in Nat
    BY <1>0, <1>11 DEF CacheTypes
  <2>2. CASE IsFull(c)
    <3>1. cache' = Tail(c) /\ Len(c) = MaxSize /\ MaxSize \in Nat \ {0} /\ Answered(t, Gone, TRUE)
      BY <1>11, <2>2 DEF IsFull, Add, RowCacheAssumption
    <3>2. /\ Tail(c) \in Seq(Entry) /\ Len(Tail(c)) = Len(c) - 1
          /\ \A i \in 1..Len(Tail(c)) : i + 1 \in 1..Len(c) /\ Tail(c)[i] = c[i + 1]
      BY <1>8, <3>1
    <3>3. Alone(cache')
      BY <1>8, <3>1, <3>2 DEF Alone
    <3>4. Len(cache') < MaxSize /\ ~answer.last.full
      <4>1. Len(cache) \in Nat
        BY <1>2
      <4>2. None.full = FALSE
        BY DEF None
      <4> QED
        BY <1>0, <1>8, <3>1, <3>2, <4>1, <4>2 DEF AnswerOK
    <3>5. AnswerOK'
      BY <1>4, <3>1, <3>4
    <3>6. \A i \in 1..Len(cache') :
              cache'[i].time <= clock.now /\ Since(cache'[i].token, cache'[i].row, cache'[i].time)
      BY <1>8, <3>1, <3>2
    <3> QED
      BY <1>5, <3>1, <3>2, <3>3, <3>5, <3>6
  <2>3. CASE ~IsFull(c)
    <3>0. PICK e : e = [token |-> t, row |-> rows[t], time |-> clock.now]
      OBVIOUS
    <3>1. cache' = Append(c, e) /\ Answered(t, rows[t], FALSE)
      BY <1>11, <2>3, <3>0 DEF Add
    <3>2. e \in Entry /\ e.token = t /\ e.row = rows[t] /\ e.time = clock.now
      BY <1>1, <2>1, <3>0 DEF Entry
    <3>3. PICK d : d = Append(c, e)
      OBVIOUS
    <3>4. /\ d \in Seq(Entry) /\ Len(d) = Len(c) + 1
          /\ \A i \in 1..Len(d) : (i \in 1..Len(c) /\ d[i] = c[i]) \/ (i = Len(d) /\ d[i] = e)
      BY <1>8, <3>2, <3>3
    <3>5. Alone(d)
      <4> SUFFICES ASSUME NEW i \in 1..Len(d), NEW j \in 1..Len(d), d[i].token = d[j].token PROVE i = j
        BY DEF Alone
      <4> QED
        BY <1>7, <1>8, <3>2, <3>4 DEF Alone
    <3>6. \A i \in 1..Len(d) : d[i].time <= clock.now /\ Since(d[i].token, d[i].row, d[i].time)
      <4> SUFFICES ASSUME NEW i \in 1..Len(d)
                   PROVE  d[i].time <= clock.now /\ Since(d[i].token, d[i].row, d[i].time)
        OBVIOUS
      <4>1. Since(t, rows[t], clock.now)
        BY DEF Since
      <4>2. CASE i \in 1..Len(c) /\ d[i] = c[i]
        BY <1>8, <4>2
      <4>3. CASE d[i] = e
        BY <1>1, <3>2, <4>1, <4>3
      <4> QED
        BY <3>4, <4>2, <4>3
    <3>7. AnswerOK'
      <4>1. Since(t, rows[t], clock.now - Ttl)
        BY DEF Since
      <4> QED
        BY <1>4, <1>11, <2>1, <3>1, <4>1
    <3> QED
      BY <1>5, <3>1, <3>3, <3>4, <3>5, <3>6, <3>7
  <2> QED
    BY <2>2, <2>3
<1> QED
  BY <1>6, <1>9, <1>10, <1>11 DEF GetNode

LEMMA CacheSteps == RowCacheAssumption /\ CacheInv /\ [CacheNext]_store => CacheInv'
<1> SUFFICES ASSUME RowCacheAssumption, CacheInv, [CacheNext]_store PROVE CacheInv'
  OBVIOUS
<1>1. CASE \E t \in Tokens : GetNode(t)
  BY <1>1, Requested
<1>2. CASE \E t \in Tokens : \E row : Change(t, row)
  BY <1>2, Changed
<1>3. CASE Housekeeper
  BY <1>3, Swept
<1>4. CASE Tick
  BY <1>4, Ticked
<1>5. CASE UNCHANGED store
  <2>1. None' = None
    BY DEF None
  <2> QED
    BY <1>5, <2>1 DEF store, CacheInv, CacheTypes, Numbered, Fresh, AnswerOK, Told, Since, Alone
<1> QED
  BY <1>1, <1>2, <1>3, <1>4, <1>5 DEF CacheNext

\* The rows that the server keeps in memory (CacheInventory, cache.py, and get_node): a row
\* that is served is the table's or was during the last Ttl, whatever the table's changes, the
\* rounds of the housekeeper and the requests; a token is refused only when its node is gone or
\* the cache was full, and never twice running for that; a token has one entry at most.
THEOREM RowsAreFresh == ASSUME RowCacheAssumption PROVE CacheSpec => []RowsFresh
<1>1. CacheInit => CacheInv
  BY StartsFresh
<1>2. CacheInv /\ [CacheNext]_store => CacheInv'
  BY CacheSteps
<1>3. CacheInv => RowsFresh
  BY RowsRead
<1> QED
  BY <1>1, <1>2, <1>3, PTL DEF CacheSpec

-----------------------------------------------------------------------------
(* The builds of all nodes (BuildThreads), for any number of nodes and any *)
(* triggers.  A thread knows of its node's directory what it wrote there,  *)
(* since a node has one thread at a time; of what all threads share it     *)
(* knows what it set last, unless another thread has set it since, and     *)
(* then it was misled.                                                     *)

Faults == {"none", "port", "first", "sku", "type", "source", "raise"}
Trigs == [node : Nodes, phases : {{1}, {2}, {1, 2}}, kind : {"json", "yaml"}, fault : Faults]
PlanOK(plan) ==
    /\ plan \in Seq(Trigs)
    /\ \A t \in DOMAIN plan :
          /\ plan[t].fault \in {"port", "first"} => plan[t].kind = "json"
          /\ plan[t].fault = "raise" => plan[t].kind = "yaml"

Asked == DOMAIN asked.plan
Config == Asked \cup {No}
Names == {"error", "dir", "groves", "app"}
Errors == {"", "port", "sku", "type", "source", "no file"}
Later == {"type", "check", "environment", "application", "make"}
Working == {"dir", "wrapper"} \cup Later
Runnings == {"load", "tell"} \cup Working
AppSets == {{1}, {2}, {1, 2}}

Firmware == [reg : Config, groves : Config, name : Nodes \cup {No}, app : {No, 1, 2}, complete : BOOLEAN]
BuildRec ==
    [step : {"to come", "app", "refused", "done", "died"} \cup Runnings,
     apps : AppSets \cup {{}}, config : Config, want : Config, firmware : Seq(Firmware),
     ok : BOOLEAN, told : {"nothing", "ok"} \cup Errors, relies : SUBSET Names,
     excuses : SUBSET (Names \cup {"other trigger", "old json", "old yaml", "partly"})]
DiskRec == [json : Config, yaml : Config, reg : Config, wrappers : SUBSET Asked]
SharedRec == [error : Errors, dir : Nodes \cup {No}, groves : Config \X (Nodes \cup {No}), app : {No, 1, 2}]

ThreadTypes ==
    /\ PlanOK(asked.plan) /\ asked = [plan |-> asked.plan, come |-> asked.come] /\ asked.come \in Nat
    /\ build \in [Asked -> BuildRec] /\ disk \in [Nodes -> DiskRec] /\ shared \in SharedRec
    /\ accepted \in [Nodes -> Config]

Coming == \A t \in Asked : t > asked.come => build[t].step = "to come"

\* The file that t brought has come, and the file of its kind stays.
HasFile(t, d) == (Of(t).kind = "json" => d.json # No) /\ (Of(t).kind = "yaml" => d.yaml # No)
Brought(t) == build[t].step # "to come" /\ 1 \in Of(t).phases
Written == \A t \in Asked : Brought(t) => HasFile(t, disk[Of(t).node])
Yamls == \A n \in Nodes : disk[n].yaml # No => Of(disk[n].yaml).fault \notin {"port", "first"}

\* What is to be built came by a trigger of the same node.
Wants(n, c) == c # No => Of(c).node = n /\ Brought(c)
Wanted ==
    /\ \A n \in Nodes : Wants(n, accepted[n])
    /\ \A t \in Asked : Wants(Of(t).node, build[t].want)

OneThread ==
    \A t, u \in Asked :
        build[t].step \in Runnings /\ build[u].step \in Runnings /\ Of(t).node = Of(u).node => t = u

Nth(apps, n) == CHOOSE a \in apps : Cardinality({b \in apps : b <= a}) = n

\* The first firmware that t made, of what it was asked, and complete.
MadeRight(t, b) ==
    \A i \in 1..Len(b.firmware) :
        LET f == b.firmware[i]
        IN  /\ f.app = Nth(b.apps, i) /\ f.reg = b.want /\ f.groves = b.want
            /\ f.name = Of(t).node /\ f.complete
            /\ b.want # No /\ Of(b.want).fault = "none"

\* What a thread at work knows, b of itself, sh of what is shared and d of its directory.
Knows(t, b, sh, d) ==
    /\ b.step \in Runnings => b.apps \in AppSets
    /\ b.step \notin {"tell", "done", "refused"} => b.ok
    /\ b.step \in Working => b.config # No
    /\ b.step \in Later => Of(b.config).fault \notin {"sku", "raise"}
    /\ b.step = "type" => Of(b.config).fault = "type"
    /\ b.step \in {"environment", "application", "make"} => d.reg = b.config /\ 2 \in Of(t).phases
    /\ b.step \in {"to come", "app", "load", "dir", "wrapper", "type", "check", "environment"} =>
          b.firmware = <<>>
    /\ b.step \in {"application", "make"} => Len(b.firmware) <= Cardinality(b.apps)
    /\ b.step = "make" => Len(b.firmware) < Cardinality(b.apps)
    /\ b.step = "wrapper" => "dir" \in b.relies
    /\ b.step \in {"type", "check"} => "error" \in b.relies
    /\ b.step \in {"application", "make"} => "groves" \in b.relies
    /\ b.step = "make" => "app" \in b.relies
    /\ b.step = "tell" /\ ~b.ok => "error" \in b.relies

\* What a thread knows that was not misled.
Sound(t, b, sh, d) ==
    /\ b.step \in Working => b.config = b.want /\ Of(b.config).fault \notin {"port", "first"}
    /\ b.step = "wrapper" => sh.dir = Of(t).node
    /\ b.step \in Later => b.config \in d.wrappers
    /\ b.step \in {"type", "check"} =>
          sh.error = IF b.step = "check" /\ Of(b.config).fault = "type" THEN "type" ELSE ""
    /\ b.step \in {"environment", "application", "make"} => Of(b.config).fault # "type"
    /\ b.step \in {"application", "make"} => sh.groves = <<b.config, Of(t).node>> /\ MadeRight(t, b)
    /\ b.step = "make" => sh.app = Nth(b.apps, Len(b.firmware) + 1)
    /\ b.step = "tell" /\ ~b.ok => sh.error = Right(t, b.want)
    /\ b.step = "tell" /\ b.ok => Right(t, b.want) = "ok"
    /\ b.step = "done" => b.told = Right(t, b.want) /\ (b.told = "ok" => b.ok)
    /\ b.step \in {"tell", "done"} /\ b.ok /\ 2 \in Of(t).phases =>
          MadeRight(t, b) /\ b.apps \in AppSets /\ Len(b.firmware) = Cardinality(b.apps)

Holds(t, b, sh, d) == Knows(t, b, sh, d) /\ (b.excuses = {} => Sound(t, b, sh, d))

ThreadsInv ==
    /\ ThreadTypes /\ Coming /\ Written /\ Yamls /\ Wanted /\ OneThread
    /\ \A t \in Asked : Holds(t, build[t], shared, disk[Of(t).node])

-----------------------------------------------------------------------------

LEMMA SetError == ASSUME shared \in SharedRec, NEW r, Set([error |-> r]) PROVE shared' = [shared EXCEPT !.error = r]
BY DEF Set, SharedRec
LEMMA SetDir == ASSUME shared \in SharedRec, NEW r, Set([dir |-> r]) PROVE shared' = [shared EXCEPT !.dir = r]
BY DEF Set, SharedRec
LEMMA SetGroves == ASSUME shared \in SharedRec, NEW r, Set([groves |-> r]) PROVE shared' = [shared EXCEPT !.groves = r]
BY DEF Set, SharedRec
LEMMA SetApp == ASSUME shared \in SharedRec, NEW r, Set([app |-> r]) PROVE shared' = [shared EXCEPT !.app = r]
BY DEF Set, SharedRec

\* b, misled about names; and what is shared, changed in names only.
Hurt(b, names) == [b EXCEPT !.excuses = @ \cup (b.relies \cap names)]
OnlyIn(names, sh, sh2) ==
    /\ "error" \notin names => sh2.error = sh.error
    /\ "dir" \notin names => sh2.dir = sh.dir
    /\ "groves" \notin names => sh2.groves = sh.groves
    /\ "app" \notin names => sh2.app = sh.app

LEMMA HurtIs ==
    ASSUME NEW b \in BuildRec, NEW names \in SUBSET Names
    PROVE  LET c == Hurt(b, names)
           IN  /\ c \in BuildRec
               /\ c.step = b.step /\ c.apps = b.apps /\ c.config = b.config /\ c.want = b.want
               /\ c.firmware = b.firmware /\ c.ok = b.ok /\ c.told = b.told /\ c.relies = b.relies
               /\ c.excuses = b.excuses \cup (b.relies \cap names)
               /\ names = {} => c = b
<1>1. b.relies \cap names \in SUBSET Names
  OBVIOUS
<1>2. b.excuses \cup (b.relies \cap names) \in SUBSET (Names \cup {"other trigger", "old json", "old yaml", "partly"})
  BY <1>1 DEF BuildRec
<1>3. names = {} => b.excuses \cup (b.relies \cap names) = b.excuses
  OBVIOUS
<1> QED
  BY <1>2, <1>3 DEF Hurt, BuildRec

\* A thread that is not misled still knows what it knew.
LEMMA StillHolds ==
    ASSUME NEW t, NEW b \in BuildRec, NEW names \in SUBSET Names, NEW sh, NEW sh2, NEW d, NEW d2,
           Holds(t, b, sh, d), OnlyIn(names, sh, sh2), d.wrappers \subseteq d2.wrappers,
           b.step \in Runnings => d2.reg = d.reg
    PROVE  Holds(t, Hurt(b, names), sh2, d2)
<1>1. PICK c : c = Hurt(b, names)
  OBVIOUS
<1>2. /\ c.step = b.step /\ c.apps = b.apps /\ c.config = b.config /\ c.want = b.want
      /\ c.firmware = b.firmware /\ c.ok = b.ok /\ c.told = b.told /\ c.relies = b.relies
      /\ c.excuses = b.excuses \cup (b.relies \cap names)
  BY <1>1, HurtIs
<1>3. Knows(t, b, sh, d) /\ (b.excuses = {} => Sound(t, b, sh, d))
  BY DEF Holds
<1>4. Knows(t, c, sh2, d2)
  BY <1>2, <1>3 DEF Knows, Runnings, Working, Later
<1>5. ASSUME c.excuses = {} PROVE Sound(t, c, sh2, d2)
  <2>1. b.excuses = {} /\ b.relies \cap names = {}
    BY <1>2, <1>5
  <2>2. MadeRight(t, c) <=> MadeRight(t, b)
    BY <1>2 DEF MadeRight
  <2>3. /\ "error" \in b.relies => sh2.error = sh.error
        /\ "dir" \in b.relies => sh2.dir = sh.dir
        /\ "groves" \in b.relies => sh2.groves = sh.groves
        /\ "app" \in b.relies => sh2.app = sh.app
    BY <2>1 DEF OnlyIn
  <2>4. Sound(t, b, sh, d) /\ Knows(t, b, sh, d)
    BY <1>3, <2>1
  <2>5. /\ c.step = "wrapper" => sh2.dir = Of(t).node
        /\ c.step \in {"type", "check"} =>
              sh2.error = IF c.step = "check" /\ Of(c.config).fault = "type" THEN "type" ELSE ""
        /\ c.step \in {"application", "make"} => sh2.groves = <<c.config, Of(t).node>>
        /\ c.step = "make" => sh2.app = Nth(c.apps, Len(c.firmware) + 1)
        /\ c.step = "tell" /\ ~c.ok => sh2.error = Right(t, c.want)
    BY <1>2, <2>3, <2>4 DEF Sound, Knows
  <2> QED
    BY <1>2, <2>2, <2>4, <2>5 DEF Sound
<1> QED
  BY <1>1, <1>4, <1>5 DEF Holds

\* What is said of a plan stays.
LEMMA SamePlan ==
    ASSUME asked'.plan = asked.plan
    PROVE  /\ Asked' = Asked /\ Config' = Config /\ \A t : Of(t)' = Of(t)
           /\ BuildRec' = BuildRec /\ DiskRec' = DiskRec /\ SharedRec' = SharedRec
           /\ \A t, b, sh, d : Holds(t, b, sh, d)' <=> Holds(t, b, sh, d)
<1>1. Asked' = Asked /\ Config' = Config /\ \A t : Of(t)' = Of(t)
  BY DEF Asked, Config, Of, No
<1>2. BuildRec' = BuildRec /\ DiskRec' = DiskRec /\ SharedRec' = SharedRec
  BY <1>1 DEF BuildRec, DiskRec, SharedRec, Firmware, Names, Errors, No, AppSets, Runnings, Working, Later
<1>3. \A t, b, sh, d : Knows(t, b, sh, d)' <=> Knows(t, b, sh, d)
  <2> SUFFICES ASSUME NEW t, NEW b, NEW sh, NEW d PROVE Knows(t, b, sh, d)' <=> Knows(t, b, sh, d)
    OBVIOUS
  <2>1. Of(t)' = Of(t) /\ Of(b.config)' = Of(b.config)
    BY <1>1
  <2> QED
    BY <2>1 DEF Knows, No, AppSets, Runnings, Working, Later
<1>4. \A t, b, sh, d : Sound(t, b, sh, d)' <=> Sound(t, b, sh, d)
  <2> SUFFICES ASSUME NEW t, NEW b, NEW sh, NEW d PROVE Sound(t, b, sh, d)' <=> Sound(t, b, sh, d)
    OBVIOUS
  <2>1. Right(t, b.want)' = Right(t, b.want)
    BY <1>1 DEF Right, No
  <2>2. MadeRight(t, b)' <=> MadeRight(t, b)
    BY <1>1 DEF MadeRight, Nth, No
  <2>3. Of(t)' = Of(t) /\ Of(b.config)' = Of(b.config)
    BY <1>1
  <2> QED
    BY <2>1, <2>2, <2>3 DEF Sound, Nth, AppSets, Working, Later
<1> QED
  BY <1>1, <1>2, <1>3, <1>4 DEF Holds

LEMMA PlanIs ==
    ASSUME ThreadTypes, NEW t \in Asked
    PROVE  /\ t \in Nat \ {0} /\ t # No /\ t \in Config
           /\ Of(t) \in Trigs /\ Of(t).node \in Nodes
           /\ Of(t).fault \in {"port", "first"} => Of(t).kind = "json"
           /\ build[t] \in BuildRec /\ disk[Of(t).node] \in DiskRec
<1>1. asked.plan \in Seq(Trigs) /\ Asked = 1..Len(asked.plan) /\ Len(asked.plan) \in Nat
  BY DEF ThreadTypes, PlanOK, Asked
<1>2. Of(t) \in Trigs
  BY <1>1 DEF Of
<1>3. Of(t).node \in Nodes
  BY <1>2 DEF Trigs
<1> QED
  BY <1>1, <1>2, <1>3 DEF ThreadTypes, PlanOK, Of, Asked, No, Config

\* The directories after a step of the thread of t, which holds node n's.
DisksAfter(t) ==
    /\ disk' \in [Nodes -> DiskRec]
    /\ \A n \in Nodes :
          /\ disk[n].wrappers \subseteq disk'[n].wrappers
          /\ n # Of(t).node => disk'[n].reg = disk[n].reg
          /\ disk[n].json # No => disk'[n].json # No
          /\ disk[n].yaml # No => disk'[n].yaml # No
          /\ disk'[n].yaml # No => Of(disk'[n].yaml).fault \notin {"port", "first"}

\* A step of the thread of t, which sets what is in names.
StepOf(t, names) ==
    /\ asked' = asked /\ accepted' = accepted
    /\ build' \in [Asked -> BuildRec] /\ shared' \in SharedRec
    /\ \A u \in Asked : u # t => build'[u] = Hurt(build[u], names)
    /\ OnlyIn(names, shared, shared')
    /\ build[t].step \in Runnings /\ build'[t].step \in Runnings \cup {"done", "died"}
    /\ build'[t].want = build[t].want
    /\ Holds(t, build'[t], shared', disk'[Of(t).node])

LEMMA Keeps ==
    ASSUME ThreadsInv, NEW t \in Asked, NEW names \in SUBSET Names, DisksAfter(t), StepOf(t, names)
    PROVE  ThreadsInv'
<1> USE DEF ThreadsInv
<1>1. /\ Asked' = Asked /\ Config' = Config /\ \A u : Of(u)' = Of(u)
      /\ BuildRec' = BuildRec /\ DiskRec' = DiskRec /\ SharedRec' = SharedRec
      /\ \A u, b, sh, d : Holds(u, b, sh, d)' <=> Holds(u, b, sh, d)
  BY SamePlan DEF StepOf
<1>2. ThreadTypes'
  BY <1>1 DEF ThreadTypes, StepOf, DisksAfter, PlanOK
<1>3. \A u \in Asked : build[u] \in BuildRec /\ Of(u).node \in Nodes
  BY PlanIs
<1>4. ASSUME NEW u \in Asked, u # t
      PROVE  /\ build'[u].step = build[u].step /\ build'[u].want = build[u].want
  BY <1>3, <1>4, HurtIs DEF StepOf
<1>5. /\ \A u \in Asked : build'[u].want = build[u].want
      /\ \A u \in Asked : build'[u].step \in Runnings => build[u].step \in Runnings
      /\ \A u \in Asked : build[u].step = "to come" <=> build'[u].step = "to come"
  <2>1. "to come" \notin Runnings \cup {"done", "died"} /\ {"done", "died"} \cap Runnings = {}
    BY DEF Runnings, Working, Later
  <2>2. /\ build'[t].want = build[t].want
        /\ build[t].step \in Runnings /\ build[t].step # "to come" /\ build'[t].step # "to come"
    BY <2>1 DEF StepOf
  <2> QED
    BY <1>4, <2>2
<1>6. Coming'
  BY <1>1, <1>5 DEF Coming, StepOf
<1>7. \A u \in Asked : Brought(u)' <=> Brought(u)
  BY <1>1, <1>5 DEF Brought
<1>8. Written'
  BY <1>1, <1>3, <1>7 DEF Written, HasFile, DisksAfter, No
<1>9. Yamls'
  BY <1>1 DEF Yamls, DisksAfter, No
<1>10. Wanted'
  <2>1. ASSUME NEW n, NEW c \in Config, Wants(n, c) PROVE Wants(n, c)'
    BY <1>1, <1>7, <2>1 DEF Wants, Config, No
  <2>2. \A n \in Nodes : accepted[n] \in Config
    BY DEF ThreadTypes
  <2>3. \A u \in Asked : build[u].want \in Config
    BY <1>3 DEF BuildRec
  <2>4. \A n \in Nodes : Wants(n, accepted[n])'
    BY <2>1, <2>2 DEF Wanted, StepOf
  <2>5. ASSUME NEW u \in Asked PROVE Wants(Of(u).node, build[u].want)'
    <3>1. Wants(Of(u).node, build[u].want)
      BY DEF Wanted
    <3>2. Wants(Of(u).node, build[u].want)'
      <4>1. PICK n, c : n = Of(u).node /\ c = build[u].want
        OBVIOUS
      <4>2. c \in Config /\ Wants(n, c)
        BY <2>3, <3>1, <4>1
      <4>3. Wants(n, c)'
        BY <2>1, <4>2
      <4>4. n = Of(u)'.node /\ c = build'[u].want
        BY <1>1, <1>5, <4>1
      <4> QED
        BY <4>3, <4>4
    <3> QED
      BY <3>2
  <2> QED
    BY <1>1, <2>4, <2>5 DEF Wanted
<1>11. OneThread'
  BY <1>1, <1>5 DEF OneThread
<1>12. ASSUME NEW u \in Asked PROVE Holds(u, build'[u], shared', disk'[Of(u).node])
  <2>1. CASE u = t
    BY <2>1 DEF StepOf
  <2>2. CASE u # t
    <3>1. Holds(u, build[u], shared, disk[Of(u).node])
      OBVIOUS
    <3>2. build'[u] = Hurt(build[u], names) /\ OnlyIn(names, shared, shared')
      BY <2>2 DEF StepOf
    <3>3. build[u].step \in Runnings => Of(u).node # Of(t).node
      BY <2>2 DEF OneThread, StepOf
    <3>4. /\ disk[Of(u).node].wrappers \subseteq disk'[Of(u).node].wrappers
          /\ build[u].step \in Runnings => disk'[Of(u).node].reg = disk[Of(u).node].reg
      BY <1>3, <3>3 DEF DisksAfter
    <3> QED
      BY <1>3, <3>1, <3>2, <3>4, StillHolds
  <2> QED
    BY <2>1, <2>2
<1>13. \A u \in Asked' : Holds(u, build[u], shared, disk[Of(u).node])'
  <2> SUFFICES ASSUME NEW u \in Asked PROVE Holds(u, build[u], shared, disk[Of(u).node])'
    BY <1>1
  <2>1. PICK b, sh, d : b = build'[u] /\ sh = shared' /\ d = disk'[Of(u).node]
    OBVIOUS
  <2>2. Holds(u, b, sh, d)'
    BY <1>1, <1>12, <2>1
  <2>3. b = build'[u] /\ sh = shared' /\ d = disk'[Of(u)'.node]
    BY <1>1, <2>1
  <2> QED
    BY <2>2, <2>3
<1> QED
  BY <1>2, <1>6, <1>8, <1>9, <1>10, <1>11, <1>13

LEMMA MisledIs ==
    ASSUME build \in [Asked -> BuildRec], NEW t \in Asked, NEW names \in SUBSET Names
    PROVE  /\ Misled(t, names) \in [Asked -> BuildRec]
           /\ Misled(t, names)[t] = [build[t] EXCEPT !.relies = @ \cup names]
           /\ \A u \in Asked : u # t => Misled(t, names)[u] = Hurt(build[u], names)
<1>1. DOMAIN build = Asked
  OBVIOUS
<1>2. Misled(t, names)[t] = [build[t] EXCEPT !.relies = @ \cup names]
  BY <1>1 DEF Misled
<1>3. \A u \in Asked : u # t => Misled(t, names)[u] = Hurt(build[u], names)
  BY <1>1 DEF Misled, Hurt
<1>4. \A u \in Asked : Misled(t, names)[u] \in BuildRec
  <2>1. build[t] \in BuildRec
    OBVIOUS
  <2>2. [build[t] EXCEPT !.relies = @ \cup names] \in BuildRec
    BY <2>1 DEF BuildRec
  <2>3. \A u \in Asked : Hurt(build[u], names) \in BuildRec
    BY HurtIs
  <2> QED
    BY <1>2, <1>3, <2>2, <2>3
<1>5. Misled(t, names) = [u \in Asked |-> Misled(t, names)[u]]
  BY <1>1 DEF Misled
<1> QED
  BY <1>2, <1>3, <1>4, <1>5

\* t's record becomes c, and the others are misled about names.
Becomes(t, names, c) ==
    /\ c \in BuildRec
    /\ build' = [Misled(t, names) EXCEPT ![t] = c] \/ (names = {} /\ build' = [build EXCEPT ![t] = c])

LEMMA BecomesIs ==
    ASSUME build \in [Asked -> BuildRec], NEW t \in Asked, NEW names \in SUBSET Names, NEW c, Becomes(t, names, c)
    PROVE  /\ build' \in [Asked -> BuildRec] /\ build'[t] = c
           /\ \A u \in Asked : u # t => build'[u] = Hurt(build[u], names)
<1>1. CASE build' = [Misled(t, names) EXCEPT ![t] = c]
  <2>1. PICK m : m = Misled(t, names)
    OBVIOUS
  <2>2. m \in [Asked -> BuildRec] /\ \A u \in Asked : u # t => m[u] = Hurt(build[u], names)
    BY <2>1, MisledIs
  <2>3. c \in BuildRec /\ build' = [m EXCEPT ![t] = c]
    BY <1>1, <2>1 DEF Becomes
  <2> QED
    BY <2>2, <2>3
<1>2. CASE names = {} /\ build' = [build EXCEPT ![t] = c]
  BY <1>2, HurtIs DEF Becomes
<1> QED
  BY <1>1, <1>2 DEF Becomes

LEMMA SameDisks ==
    ASSUME ThreadsInv, NEW t \in Asked, disk' = disk
    PROVE  DisksAfter(t)
BY DEF ThreadsInv, ThreadTypes, DisksAfter, Yamls

\* A step of t that ends as a record c, of which what it knows is shown.
LEMMA Moves ==
    ASSUME ThreadsInv, NEW t \in Asked, NEW names \in SUBSET Names, NEW c, DisksAfter(t),
           Becomes(t, names, c), asked' = asked, accepted' = accepted,
           shared' \in SharedRec, OnlyIn(names, shared, shared'),
           build[t].step \in Runnings, c.step \in Runnings \cup {"done", "died"}, c.want = build[t].want,
           Holds(t, c, shared', disk'[Of(t).node])
    PROVE  ThreadsInv'
<1>1. build \in [Asked -> BuildRec]
  BY DEF ThreadsInv, ThreadTypes
<1>2. /\ build' \in [Asked -> BuildRec] /\ build'[t] = c
      /\ \A u \in Asked : u # t => build'[u] = Hurt(build[u], names)
  BY <1>1, BecomesIs
<1>3. StepOf(t, names)
  BY <1>2 DEF StepOf
<1> QED
  BY <1>3, Keeps

LEMMA ThreadIs ==
    ASSUME ThreadsInv, NEW t \in Asked
    PROVE  /\ ThreadTypes /\ build \in [Asked -> BuildRec] /\ build[t] \in BuildRec
           /\ disk \in [Nodes -> DiskRec] /\ disk[Of(t).node] \in DiskRec /\ shared \in SharedRec
           /\ Of(t) \in Trigs /\ Of(t).node \in Nodes
           /\ Knows(t, build[t], shared, disk[Of(t).node])
           /\ build[t].excuses = {} => Sound(t, build[t], shared, disk[Of(t).node])
BY PlanIs DEF ThreadsInv, ThreadTypes, Holds

LEMMA DirSet == ASSUME ThreadsInv, NEW t \in Asked, SetGenDir(t) PROVE ThreadsInv'
<1>1. PICK b, d, n : b = build[t] /\ n = Of(t).node /\ d = disk[n]
  OBVIOUS
<1>2. /\ b \in BuildRec /\ d \in DiskRec /\ shared \in SharedRec /\ n \in Nodes
      /\ Knows(t, b, shared, d) /\ (b.excuses = {} => Sound(t, b, shared, d))
      /\ build \in [Asked -> BuildRec]
  BY <1>1, ThreadIs
<1>3. PICK c : c = [[b EXCEPT !.relies = @ \cup {"dir"}] EXCEPT !.step = "wrapper"]
  OBVIOUS
<1>4. /\ b.step = "dir" /\ Set([dir |-> n])
      /\ build' = [Misled(t, {"dir"}) EXCEPT ![t].step = "wrapper"]
      /\ asked' = asked /\ disk' = disk /\ accepted' = accepted
  BY <1>1 DEF SetGenDir, At
<1>5. Misled(t, {"dir"})[t] = [b EXCEPT !.relies = @ \cup {"dir"}]
  BY <1>1, <1>2, MisledIs DEF Names
<1>6. /\ c \in BuildRec /\ c.step = "wrapper" /\ c.relies = b.relies \cup {"dir"}
      /\ c.apps = b.apps /\ c.config = b.config /\ c.want = b.want /\ c.firmware = b.firmware
      /\ c.ok = b.ok /\ c.told = b.told /\ c.excuses = b.excuses
  BY <1>2, <1>3 DEF BuildRec, Names, Runnings, Working, Later
<1>7. Becomes(t, {"dir"}, c)
  BY <1>3, <1>4, <1>5, <1>6 DEF Becomes
<1>8. shared' = [shared EXCEPT !.dir = n]
  BY <1>2, <1>4, SetDir
<1>9. shared' \in SharedRec /\ shared'.dir = n /\ OnlyIn({"dir"}, shared, shared')
  BY <1>2, <1>8 DEF SharedRec, OnlyIn
<1>10. Knows(t, c, shared', d)
  BY <1>2, <1>4, <1>6 DEF Knows, Runnings, Working, Later
<1>11. c.excuses = {} => Sound(t, c, shared', d)
  BY <1>1, <1>2, <1>4, <1>6, <1>9 DEF Sound, Working, Later
<1>12. Holds(t, c, shared', disk'[Of(t).node])
  BY <1>1, <1>4, <1>10, <1>11 DEF Holds
<1>13. b.step \in Runnings /\ c.step \in Runnings
  BY <1>4, <1>6 DEF Runnings, Working
<1> QED
  BY <1>1, <1>4, <1>6, <1>7, <1>9, <1>12, <1>13, SameDisks, Moves DEF Names

\* One or both applications, the first one first.
LEMMA CountApps ==
    ASSUME NEW apps \in AppSets
    PROVE  /\ Cardinality(apps) \in 1..2
           /\ \A i \in 1..Cardinality(apps) : Nth(apps, i) \in apps
           /\ {Nth(apps, i) : i \in 1..Cardinality(apps)} = apps
<1>0. \A x : IsFiniteSet({x}) /\ Cardinality({x}) = 1
  BY FS_Singleton
<1>1. IsFiniteSet({1, 2}) /\ Cardinality({1, 2}) = 2
  <2>1. {1} \cup {2} = {1, 2} /\ 2 \notin {1}
    OBVIOUS
  <2>2. IsFiniteSet({1} \cup {2}) /\ Cardinality({1} \cup {2}) = 2
    <3>1. IsFiniteSet({1}) /\ Cardinality({1}) = 1
      BY <1>0
    <3> QED
      BY <2>1, <3>1, FS_AddElement
  <2> QED
    BY <2>1, <2>2
<1>2. CASE \E x \in {1, 2} : apps = {x}
  <2>1. PICK x \in {1, 2} : apps = {x}
    BY <1>2
  <2>2. {b \in apps : b <= x} = {x}
    BY <2>1
  <2>3. Cardinality(apps) = 1 /\ Cardinality({b \in apps : b <= x}) = 1
    BY <1>0, <2>1, <2>2
  <2>4. Nth(apps, 1) = x
    BY <2>1, <2>3 DEF Nth
  <2> QED
    BY <2>1, <2>3, <2>4
<1>3. CASE apps = {1, 2}
  <2>1. {b \in apps : b <= 1} = {1} /\ {b \in apps : b <= 2} = {1, 2}
    BY <1>3
  <2>2. Cardinality({b \in apps : b <= 1}) = 1 /\ Cardinality({b \in apps : b <= 2}) = 2
    BY <1>0, <1>1, <2>1
  <2>3. Nth(apps, 1) = 1
    BY <1>3, <2>2 DEF Nth
  <2>4. Nth(apps, 2) = 2
    BY <1>3, <2>2 DEF Nth
  <2>5. Cardinality(apps) = 2
    BY <1>1, <1>3
  <2>6. 1..2 = {1, 2}
    OBVIOUS
  <2> QED
    BY <1>3, <2>3, <2>4, <2>5, <2>6
<1> QED
  BY <1>2, <1>3 DEF AppSets

\* The thread gives up, with a reason that is right unless it was misled.
LEMMA Failing ==
    ASSUME ThreadsInv, NEW t \in Asked, NEW reason \in Errors,
           NEW ex \in SUBSET {"other trigger", "old json", "old yaml", "partly"},
           FailsFor(t, reason, ex), build[t].step \in Runnings,
           asked' = asked, disk' = disk, accepted' = accepted,
           build[t].excuses = {} /\ ex = {} => reason = Right(t, build[t].want)
    PROVE  ThreadsInv'
<1>1. PICK b, d, n : b = build[t] /\ n = Of(t).node /\ d = disk[n]
  OBVIOUS
<1>2. /\ b \in BuildRec /\ d \in DiskRec /\ shared \in SharedRec /\ n \in Nodes
      /\ Knows(t, b, shared, d) /\ (b.excuses = {} => Sound(t, b, shared, d))
      /\ build \in [Asked -> BuildRec]
  BY <1>1, ThreadIs
<1>3. PICK c : c = [[b EXCEPT !.relies = @ \cup {"error"}] EXCEPT
                      !.step = "tell", !.ok = FALSE, !.excuses = @ \cup ex]
  OBVIOUS
<1>4. /\ Set([error |-> reason])
      /\ build' = [Misled(t, {"error"}) EXCEPT ![t].step = "tell", ![t].ok = FALSE,
                                               ![t].excuses = @ \cup ex]
  BY DEF FailsFor
<1>5. Misled(t, {"error"})[t] = [b EXCEPT !.relies = @ \cup {"error"}] /\ Misled(t, {"error"}) \in [Asked -> BuildRec]
  BY <1>1, <1>2, MisledIs DEF Names
<1>6. /\ c \in BuildRec /\ c.step = "tell" /\ ~c.ok /\ c.relies = b.relies \cup {"error"}
      /\ c.apps = b.apps /\ c.want = b.want /\ c.excuses = b.excuses \cup ex
  BY <1>2, <1>3 DEF BuildRec, Names, Runnings, Working, Later
<1>7. Becomes(t, {"error"}, c)
  BY <1>3, <1>4, <1>5, <1>6 DEF Becomes
<1>8. shared' = [shared EXCEPT !.error = reason]
  BY <1>2, <1>4, SetError
<1>9. shared' \in SharedRec /\ shared'.error = reason /\ OnlyIn({"error"}, shared, shared')
  BY <1>2, <1>8 DEF SharedRec, OnlyIn
<1>10. Knows(t, c, shared', d)
  BY <1>1, <1>2, <1>6 DEF Knows, Runnings, Working, Later
<1>11. c.excuses = {} => Sound(t, c, shared', d)
  BY <1>1, <1>6, <1>9 DEF Sound, Working, Later
<1>12. Holds(t, c, shared', disk'[Of(t).node])
  BY <1>1, <1>10, <1>11 DEF Holds
<1>13. c.step \in Runnings
  BY <1>6 DEF Runnings
<1> QED
  BY <1>1, <1>6, <1>7, <1>9, <1>12, <1>13, SameDisks, Moves DEF Names

LEMMA TypeUnknown == ASSUME ThreadsInv, NEW t \in Asked, UnknownType(t) PROVE ThreadsInv'
<1>1. PICK b, d, n : b = build[t] /\ n = Of(t).node /\ d = disk[n]
  OBVIOUS
<1>2. /\ b \in BuildRec /\ d \in DiskRec /\ shared \in SharedRec /\ n \in Nodes
      /\ Knows(t, b, shared, d) /\ (b.excuses = {} => Sound(t, b, shared, d))
      /\ build \in [Asked -> BuildRec]
  BY <1>1, ThreadIs
<1>3. PICK c : c = [[b EXCEPT !.relies = @ \cup {"error"}] EXCEPT !.step = "check"]
  OBVIOUS
<1>4. /\ b.step = "type" /\ Set([error |-> "type"])
      /\ build' = [Misled(t, {"error"}) EXCEPT ![t].step = "check"]
      /\ asked' = asked /\ disk' = disk /\ accepted' = accepted
  BY <1>1 DEF UnknownType, At
<1>5. Misled(t, {"error"})[t] = [b EXCEPT !.relies = @ \cup {"error"}]
  BY <1>1, <1>2, MisledIs DEF Names
<1>6. /\ c \in BuildRec /\ c.step = "check" /\ c.relies = b.relies \cup {"error"}
      /\ c.apps = b.apps /\ c.config = b.config /\ c.want = b.want /\ c.firmware = b.firmware
      /\ c.ok = b.ok /\ c.told = b.told /\ c.excuses = b.excuses
  BY <1>2, <1>3 DEF BuildRec, Names, Runnings, Working, Later
<1>7. Becomes(t, {"error"}, c)
  BY <1>3, <1>4, <1>5, <1>6 DEF Becomes
<1>8. shared' = [shared EXCEPT !.error = "type"]
  BY <1>2, <1>4, SetError
<1>9. shared' \in SharedRec /\ shared'.error = "type" /\ OnlyIn({"error"}, shared, shared')
  BY <1>2, <1>8 DEF SharedRec, OnlyIn, Errors
<1>10. Knows(t, c, shared', d)
  BY <1>2, <1>4, <1>6 DEF Knows, Runnings, Working, Later
<1>11. c.excuses = {} => Sound(t, c, shared', d)
  BY <1>1, <1>2, <1>4, <1>6, <1>9 DEF Sound, Knows, Working, Later
<1>12. Holds(t, c, shared', disk'[Of(t).node])
  BY <1>1, <1>4, <1>10, <1>11 DEF Holds
<1>13. b.step \in Runnings /\ c.step \in Runnings
  BY <1>4, <1>6 DEF Runnings, Working, Later
<1> QED
  BY <1>1, <1>4, <1>6, <1>7, <1>9, <1>12, <1>13, SameDisks, Moves DEF Names

LEMMA EnvironmentPut == ASSUME ThreadsInv, NEW t \in Asked, PutEnv(t) PROVE ThreadsInv'
<1>1. PICK b, d, n : b = build[t] /\ n = Of(t).node /\ d = disk[n]
  OBVIOUS
<1>2. /\ b \in BuildRec /\ d \in DiskRec /\ shared \in SharedRec /\ n \in Nodes
      /\ Knows(t, b, shared, d) /\ (b.excuses = {} => Sound(t, b, shared, d))
      /\ build \in [Asked -> BuildRec]
  BY <1>1, ThreadIs
<1>3. PICK c : c = [[b EXCEPT !.relies = @ \cup {"groves"}] EXCEPT !.step = "application"]
  OBVIOUS
<1>4. /\ b.step = "environment" /\ Set([groves |-> <<b.config, n>>])
      /\ build' = [Misled(t, {"groves"}) EXCEPT ![t].step = "application"]
      /\ asked' = asked /\ disk' = disk /\ accepted' = accepted
  BY <1>1 DEF PutEnv, At
<1>5. Misled(t, {"groves"})[t] = [b EXCEPT !.relies = @ \cup {"groves"}]
  BY <1>1, <1>2, MisledIs DEF Names
<1>6. /\ c \in BuildRec /\ c.step = "application" /\ c.relies = b.relies \cup {"groves"}
      /\ c.apps = b.apps /\ c.config = b.config /\ c.want = b.want /\ c.firmware = b.firmware
      /\ c.ok = b.ok /\ c.told = b.told /\ c.excuses = b.excuses
  BY <1>2, <1>3 DEF BuildRec, Names, Runnings, Working, Later
<1>7. Becomes(t, {"groves"}, c)
  BY <1>3, <1>4, <1>5, <1>6 DEF Becomes
<1>8. shared' = [shared EXCEPT !.groves = <<b.config, n>>]
  BY <1>2, <1>4, SetGroves
<1>9. shared' \in SharedRec /\ shared'.groves = <<b.config, n>> /\ OnlyIn({"groves"}, shared, shared')
  BY <1>2, <1>8 DEF SharedRec, OnlyIn, BuildRec
<1>a. c.firmware = <<>> /\ Len(c.firmware) = 0 /\ c.apps \in AppSets
  BY <1>2, <1>4, <1>6 DEF Knows, Runnings, Working, Later
<1>b. Cardinality(c.apps) \in 1..2
  BY <1>a, CountApps
<1>10. Knows(t, c, shared', d)
  BY <1>2, <1>4, <1>6, <1>a, <1>b DEF Knows, Runnings, Working, Later
<1>c. MadeRight(t, c)
  BY <1>a DEF MadeRight
<1>11. c.excuses = {} => Sound(t, c, shared', d)
  BY <1>1, <1>2, <1>4, <1>6, <1>9, <1>c DEF Sound, Knows, Working, Later
<1>12. Holds(t, c, shared', disk'[Of(t).node])
  BY <1>1, <1>4, <1>10, <1>11 DEF Holds
<1>13. b.step \in Runnings /\ c.step \in Runnings
  BY <1>4, <1>6 DEF Runnings, Working, Later
<1> QED
  BY <1>1, <1>4, <1>6, <1>7, <1>9, <1>12, <1>13, SameDisks, Moves DEF Names

LEMMA ApplicationPut == ASSUME ThreadsInv, NEW t \in Asked, PutApp(t) PROVE ThreadsInv'
<1>1. PICK b, d, n : b = build[t] /\ n = Of(t).node /\ d = disk[n]
  OBVIOUS
<1>2. /\ b \in BuildRec /\ d \in DiskRec /\ shared \in SharedRec /\ n \in Nodes
      /\ Knows(t, b, shared, d) /\ (b.excuses = {} => Sound(t, b, shared, d))
      /\ build \in [Asked -> BuildRec]
  BY <1>1, ThreadIs
<1>3. PICK c : c = [[b EXCEPT !.relies = @ \cup {"app"}] EXCEPT !.step = "make"]
  OBVIOUS
<1>0. PICK app : app = Nth(b.apps, Len(b.firmware) + 1)
  OBVIOUS
<1>4. /\ b.step = "application" /\ Len(b.firmware) < Cardinality(b.apps) /\ Set([app |-> app])
      /\ build' = [Misled(t, {"app"}) EXCEPT ![t].step = "make"]
      /\ asked' = asked /\ disk' = disk /\ accepted' = accepted
  BY <1>0, <1>1 DEF PutApp, At, Nth
<1>a. app \in {1, 2}
  <2>1. b.apps \in AppSets /\ Len(b.firmware) \in Nat
    <3>1. b.firmware \in Seq(Firmware)
      BY <1>2 DEF BuildRec
    <3>2. b.apps \in AppSets
      BY <1>2, <1>4 DEF Knows, Runnings, Working, Later
    <3> QED
      BY <3>1, <3>2
  <2>2. Cardinality(b.apps) \in 1..2 /\ \A i \in 1..Cardinality(b.apps) : Nth(b.apps, i) \in b.apps
    BY <2>1, CountApps
  <2>3. Len(b.firmware) + 1 \in 1..Cardinality(b.apps)
    BY <1>4, <2>1, <2>2
  <2> QED
    BY <1>0, <2>1, <2>2, <2>3 DEF AppSets
<1>5. Misled(t, {"app"})[t] = [b EXCEPT !.relies = @ \cup {"app"}]
  BY <1>1, <1>2, MisledIs DEF Names
<1>6. /\ c \in BuildRec /\ c.step = "make" /\ c.relies = b.relies \cup {"app"}
      /\ c.apps = b.apps /\ c.config = b.config /\ c.want = b.want /\ c.firmware = b.firmware
      /\ c.ok = b.ok /\ c.told = b.told /\ c.excuses = b.excuses
  BY <1>2, <1>3 DEF BuildRec, Names, Runnings, Working, Later
<1>7. Becomes(t, {"app"}, c)
  BY <1>3, <1>4, <1>5, <1>6 DEF Becomes
<1>8. shared' = [shared EXCEPT !.app = app]
  BY <1>2, <1>4, SetApp
<1>9. /\ shared' \in SharedRec /\ shared'.app = app /\ OnlyIn({"app"}, shared, shared')
      /\ shared'.groves = shared.groves
  BY <1>2, <1>8, <1>a DEF SharedRec, OnlyIn
<1>10. Knows(t, c, shared', d)
  BY <1>2, <1>4, <1>6 DEF Knows, Runnings, Working, Later
<1>c. MadeRight(t, b) => MadeRight(t, c)
  BY <1>6 DEF MadeRight
<1>11. c.excuses = {} => Sound(t, c, shared', d)
  BY <1>0, <1>1, <1>2, <1>4, <1>6, <1>9, <1>c DEF Sound, Knows, Working, Later
<1>12. Holds(t, c, shared', disk'[Of(t).node])
  BY <1>1, <1>4, <1>10, <1>11 DEF Holds
<1>13. b.step \in Runnings /\ c.step \in Runnings
  BY <1>4, <1>6 DEF Runnings, Working, Later
<1> QED
  BY <1>1, <1>4, <1>6, <1>7, <1>9, <1>12, <1>13, SameDisks, Moves DEF Names

LEMMA AllMade == ASSUME ThreadsInv, NEW t \in Asked, Made(t) PROVE ThreadsInv'
<1>1. PICK b, d, n : b = build[t] /\ n = Of(t).node /\ d = disk[n]
  OBVIOUS
<1>2. /\ b \in BuildRec /\ d \in DiskRec /\ shared \in SharedRec /\ n \in Nodes
      /\ Knows(t, b, shared, d) /\ (b.excuses = {} => Sound(t, b, shared, d))
      /\ build \in [Asked -> BuildRec]
  BY <1>1, ThreadIs
<1>3. PICK c : c = [b EXCEPT !.relies = @ \ {"groves", "app"}, !.step = "tell"]
  OBVIOUS
<1>4. /\ b.step = "application" /\ Len(b.firmware) = Cardinality(b.apps)
      /\ build' = [build EXCEPT ![t] = c]
      /\ asked' = asked /\ disk' = disk /\ shared' = shared /\ accepted' = accepted
  BY <1>1, <1>3 DEF Made, At, Done
<1>6. /\ c \in BuildRec /\ c.step = "tell"
      /\ c.apps = b.apps /\ c.config = b.config /\ c.want = b.want /\ c.firmware = b.firmware
      /\ c.ok = b.ok /\ c.told = b.told /\ c.excuses = b.excuses
  BY <1>2, <1>3 DEF BuildRec, Names, Runnings, Working, Later
<1>7. Becomes(t, {}, c) /\ OnlyIn({}, shared, shared')
  BY <1>4, <1>6 DEF Becomes, OnlyIn
<1>a. b.ok /\ b.apps \in AppSets /\ 2 \in Of(t).phases
  BY <1>2, <1>4 DEF Knows, Runnings, Working, Later
<1>10. Knows(t, c, shared', d)
  BY <1>2, <1>4, <1>6, <1>a DEF Knows, Runnings, Working, Later
<1>11. ASSUME c.excuses = {} PROVE Sound(t, c, shared', d)
  <2>1. MadeRight(t, b) /\ b.config = b.want /\ Sound(t, b, shared, d)
    BY <1>2, <1>4, <1>6, <1>11 DEF Sound, Working, Later
  <2>2. MadeRight(t, c)
    BY <1>6, <2>1 DEF MadeRight
  <2>3. Cardinality(b.apps) \in 1..2
    BY <1>a, CountApps
  <2>4. b.want # No /\ Of(b.want).fault = "none"
    <3>1. 1 \in 1..Len(b.firmware)
      BY <1>4, <2>3
    <3> QED
      BY <2>1, <3>1 DEF MadeRight
  <2>5. Right(t, c.want) = "ok"
    BY <1>6, <2>4 DEF Right
  <2> QED
    BY <1>4, <1>6, <1>a, <2>2, <2>5 DEF Sound, Working, Later
<1>12. Holds(t, c, shared', disk'[Of(t).node])
  BY <1>1, <1>4, <1>10, <1>11 DEF Holds
<1>13. b.step \in Runnings /\ c.step \in Runnings
  BY <1>4, <1>6 DEF Runnings, Working, Later
<1> QED
  BY <1>1, <1>2, <1>4, <1>6, <1>7, <1>12, <1>13, SameDisks, Moves

\* A thread dies of an exception, and may have emptied error_msg before.
LEMMA Died == ASSUME ThreadsInv, NEW t \in Asked, ThreadDies(t) PROVE ThreadsInv'
<1>1. PICK b, d, n : b = build[t] /\ n = Of(t).node /\ d = disk[n]
  OBVIOUS
<1>2. /\ b \in BuildRec /\ d \in DiskRec /\ shared \in SharedRec /\ n \in Nodes
      /\ Knows(t, b, shared, d)
      /\ build \in [Asked -> BuildRec]
  BY <1>1, ThreadIs
<1>3. /\ b.step = "wrapper" /\ b.step \in Runnings
      /\ asked' = asked /\ disk' = disk /\ accepted' = accepted
  BY <1>1 DEF ThreadDies, At, Runnings, Working
<1>4. b.ok
  BY <1>2, <1>3 DEF Knows
<1>5. ASSUME NEW c \in BuildRec, c.step = "died", c.want = b.want, c.ok,
             NEW names \in SUBSET Names, Becomes(t, names, c), shared' \in SharedRec,
             OnlyIn(names, shared, shared')
      PROVE  ThreadsInv'
  <2>1. Knows(t, c, shared', d) /\ Sound(t, c, shared', d)
    BY <1>5 DEF Knows, Sound, Runnings, Working, Later
  <2>2. Holds(t, c, shared', disk'[Of(t).node])
    BY <1>1, <1>3, <2>1 DEF Holds
  <2> QED
    BY <1>1, <1>3, <1>5, <2>2, SameDisks, Moves
<1>6. CASE build' = [build EXCEPT ![t].step = "died"] /\ shared' = shared
  <2>1. PICK c : c = [b EXCEPT !.step = "died"]
    OBVIOUS
  <2>2. c \in BuildRec /\ c.step = "died" /\ c.want = b.want /\ c.ok
    BY <1>2, <1>4, <2>1 DEF BuildRec
  <2>3. build' = [build EXCEPT ![t] = c]
    BY <1>1, <1>6, <2>1
  <2>4. Becomes(t, {}, c) /\ OnlyIn({}, shared, shared')
    BY <1>6, <2>2, <2>3 DEF Becomes, OnlyIn
  <2> QED
    BY <1>2, <1>5, <1>6, <2>2, <2>4
<1>7. CASE Set([error |-> ""]) /\ build' = [Misled(t, {"error"}) EXCEPT ![t].step = "died"]
  <2>1. PICK c : c = [[b EXCEPT !.relies = @ \cup {"error"}] EXCEPT !.step = "died"]
    OBVIOUS
  <2>2. c \in BuildRec /\ c.step = "died" /\ c.want = b.want /\ c.ok
    BY <1>2, <1>4, <2>1 DEF BuildRec, Names
  <2>3. Misled(t, {"error"})[t] = [b EXCEPT !.relies = @ \cup {"error"}]
    BY <1>1, <1>2, MisledIs DEF Names
  <2>4. Becomes(t, {"error"}, c)
    BY <1>7, <2>1, <2>2, <2>3 DEF Becomes
  <2>5. shared' = [shared EXCEPT !.error = ""]
    BY <1>2, <1>7, SetError
  <2>6. shared' \in SharedRec /\ OnlyIn({"error"}, shared, shared') /\ {"error"} \in SUBSET Names
    BY <1>2, <2>5 DEF SharedRec, OnlyIn, Errors, Names
  <2> QED
    BY <1>5, <2>2, <2>4, <2>6
<1> QED
  BY <1>6, <1>7 DEF ThreadDies

LEMMA ToldOf == ASSUME ThreadsInv, NEW t \in Asked, Tell(t) PROVE ThreadsInv'
<1>1. PICK b, d, n : b = build[t] /\ n = Of(t).node /\ d = disk[n]
  OBVIOUS
<1>2. /\ b \in BuildRec /\ d \in DiskRec /\ shared \in SharedRec /\ n \in Nodes
      /\ Knows(t, b, shared, d) /\ (b.excuses = {} => Sound(t, b, shared, d))
      /\ build \in [Asked -> BuildRec]
  BY <1>1, ThreadIs
<1>3. PICK c : c = [b EXCEPT !.step = "done", !.relies = {}, !.told = IF b.ok THEN "ok" ELSE shared.error]
  OBVIOUS
<1>4. /\ b.step = "tell" /\ build' = [build EXCEPT ![t] = c]
      /\ asked' = asked /\ disk' = disk /\ shared' = shared /\ accepted' = accepted
  BY <1>1, <1>3 DEF Tell, At
<1>5. shared.error \in Errors /\ "ok" \notin Errors
  BY <1>2 DEF SharedRec, Errors
<1>6. /\ c \in BuildRec /\ c.step = "done" /\ c.told = IF b.ok THEN "ok" ELSE shared.error
      /\ c.apps = b.apps /\ c.config = b.config /\ c.want = b.want /\ c.firmware = b.firmware
      /\ c.ok = b.ok /\ c.excuses = b.excuses
  BY <1>2, <1>3, <1>5 DEF BuildRec, Names
<1>7. Becomes(t, {}, c) /\ OnlyIn({}, shared, shared')
  BY <1>4, <1>6 DEF Becomes, OnlyIn
<1>10. Knows(t, c, shared', d)
  BY <1>6 DEF Knows, Runnings, Working, Later
<1>11. ASSUME c.excuses = {} PROVE Sound(t, c, shared', d)
  <2>1. Sound(t, b, shared, d)
    BY <1>2, <1>6, <1>11
  <2>2. MadeRight(t, b) => MadeRight(t, c)
    BY <1>6 DEF MadeRight
  <2>3. c.told = Right(t, c.want)
    BY <1>4, <1>6, <2>1 DEF Sound
  <2>4. c.told = "ok" => c.ok
    BY <1>5, <1>6
  <2>5. c.ok /\ 2 \in Of(t).phases => MadeRight(t, c) /\ c.apps \in AppSets /\ Len(c.firmware) = Cardinality(c.apps)
    BY <1>4, <1>6, <2>1, <2>2 DEF Sound
  <2> QED
    BY <1>6, <2>3, <2>4, <2>5 DEF Sound, Working, Later
<1>12. Holds(t, c, shared', disk'[Of(t).node])
  BY <1>1, <1>4, <1>10, <1>11 DEF Holds
<1>13. b.step \in Runnings /\ c.step = "done"
  BY <1>4, <1>6 DEF Runnings
<1> QED
  BY <1>1, <1>2, <1>4, <1>6, <1>7, <1>12, <1>13, SameDisks, Moves

\* make, of what is registered: with the node's name and the application, when t was not misled.
LEMMA Compiled == ASSUME ThreadsInv, NEW t \in Asked, Make(t) PROVE ThreadsInv'
<1>1. PICK b, d, n : b = build[t] /\ n = Of(t).node /\ d = disk[n]
  OBVIOUS
<1>2. /\ b \in BuildRec /\ d \in DiskRec /\ shared \in SharedRec /\ n \in Nodes
      /\ Knows(t, b, shared, d) /\ (b.excuses = {} => Sound(t, b, shared, d))
      /\ build \in [Asked -> BuildRec] /\ disk \in [Nodes -> DiskRec]
  BY <1>1, ThreadIs
<1>3. PICK made : made = [reg |-> d.reg, groves |-> shared.groves[1],
                           name |-> shared.groves[2], app |-> shared.app,
                           complete |-> d.reg \in d.wrappers]
  OBVIOUS
<1>4. /\ b.step = "make" /\ asked' = asked /\ disk' = disk /\ accepted' = accepted
      /\ \/ /\ Of(made.reg).fault # "source"
            /\ build' = [build EXCEPT ![t].firmware = Append(@, made), ![t].step = "application"]
            /\ shared' = shared
         \/ /\ Of(made.reg).fault = "source" \/ made.groves # made.reg \/ ~made.complete
            /\ FailsFor(t, "source", {})
  BY <1>1, <1>3 DEF Make, At, Fails
<1>5. /\ d.reg = b.config /\ b.config # No /\ 2 \in Of(t).phases /\ b.apps \in AppSets /\ b.ok
      /\ "groves" \in b.relies /\ "app" \in b.relies /\ Len(b.firmware) < Cardinality(b.apps)
      /\ Of(b.config).fault \notin {"sku", "raise"}
  BY <1>2, <1>4 DEF Knows, Runnings, Working, Later
<1>6. ASSUME b.excuses = {}
      PROVE  /\ b.config = b.want /\ b.want # No /\ Of(b.want).fault \notin {"port", "first", "type", "sku", "raise"}
             /\ made.reg = b.want /\ made.groves = b.want /\ made.name = n /\ made.complete
             /\ made.app = Nth(b.apps, Len(b.firmware) + 1) /\ MadeRight(t, b)
  <2>1. Sound(t, b, shared, d)
    BY <1>2, <1>6
  <2>2. /\ b.config = b.want /\ Of(b.config).fault \notin {"port", "first", "type"} /\ b.config \in d.wrappers
        /\ shared.groves = <<b.config, n>> /\ shared.app = Nth(b.apps, Len(b.firmware) + 1) /\ MadeRight(t, b)
    BY <1>1, <1>4, <2>1 DEF Sound, Working, Later
  <2>3. shared.groves[1] = b.config /\ shared.groves[2] = n
    BY <2>2
  <2> QED
    BY <1>3, <1>5, <2>2, <2>3
<1>7. b.step \in Runnings
  BY <1>4 DEF Runnings, Working, Later
<1>8. CASE FailsFor(t, "source", {}) /\ (Of(made.reg).fault = "source" \/ made.groves # made.reg \/ ~made.complete)
  <2>1. b.excuses = {} => Right(t, b.want) = "source"
    BY <1>5, <1>6, <1>8 DEF Right
  <2> QED
    BY <1>1, <1>4, <1>7, <1>8, <2>1, Failing DEF Errors
<1>9. CASE /\ Of(made.reg).fault # "source" /\ shared' = shared
           /\ build' = [build EXCEPT ![t].firmware = Append(@, made), ![t].step = "application"]
  <2>1. PICK f, l : f = b.firmware /\ l = Append(b.firmware, made)
    OBVIOUS
  <2>2. made \in Firmware
    <3>1. shared.groves[1] \in Config /\ shared.groves[2] \in Nodes \cup {No} /\ shared.app \in {No, 1, 2}
      BY <1>2 DEF SharedRec
    <3>2. d.reg \in Config
      BY <1>2 DEF DiskRec
    <3> QED
      BY <1>3, <3>1, <3>2 DEF Firmware
  <2>3. f \in Seq(Firmware)
    BY <1>2, <2>1 DEF BuildRec
  <2>4. /\ l \in Seq(Firmware) /\ Len(f) \in Nat /\ Len(l) = Len(f) + 1
        /\ \A i \in 1..Len(l) : (i \in 1..Len(f) /\ l[i] = f[i]) \/ (i = Len(f) + 1 /\ l[i] = made)
    BY <2>1, <2>2, <2>3
  <2>5. PICK c : c = [b EXCEPT !.firmware = l, !.step = "application"]
    OBVIOUS
  <2>6. /\ c \in BuildRec /\ c.step = "application" /\ c.firmware = l
        /\ c.apps = b.apps /\ c.config = b.config /\ c.want = b.want
        /\ c.ok = b.ok /\ c.relies = b.relies /\ c.excuses = b.excuses
    BY <1>2, <2>4, <2>5 DEF BuildRec, Runnings, Working, Later
  <2>7. build' = [build EXCEPT ![t] = c]
    BY <1>1, <1>9, <2>1, <2>5
  <2>8. Becomes(t, {}, c) /\ OnlyIn({}, shared, shared')
    BY <1>9, <2>6, <2>7 DEF Becomes, OnlyIn
  <2>9. Cardinality(b.apps) \in 1..2
    BY <1>5, CountApps
  <2>10. Knows(t, c, shared', d)
    <3>1. Len(c.firmware) <= Cardinality(c.apps)
      BY <1>5, <2>1, <2>4, <2>6, <2>9
    <3> QED
      BY <1>5, <2>6, <3>1 DEF Knows, Runnings, Working, Later
  <2>11. ASSUME c.excuses = {} PROVE Sound(t, c, shared', d)
    <3>1. b.excuses = {} /\ Sound(t, b, shared, d)
      BY <1>2, <2>6, <2>11
    <3>2. /\ b.config = b.want /\ b.want # No /\ Of(b.want).fault \notin {"port", "first", "type", "sku", "source", "raise"}
          /\ made.reg = b.want /\ made.groves = b.want /\ made.name = n /\ made.complete
          /\ made.app = Nth(b.apps, Len(b.firmware) + 1) /\ MadeRight(t, b)
      BY <1>6, <1>9, <3>1
    <3>3. Of(b.want).fault = "none"
      <4>1. b.want \in Asked
        BY <1>2, <3>2 DEF BuildRec, Config
      <4>2. Of(b.want) \in Trigs
        BY <4>1, PlanIs DEF ThreadsInv
      <4> QED
        BY <3>2, <4>2 DEF Trigs, Faults
    <3>4. MadeRight(t, c)
      <4> SUFFICES ASSUME NEW i \in 1..Len(l)
                   PROVE  /\ l[i].app = Nth(b.apps, i) /\ l[i].reg = b.want /\ l[i].groves = b.want
                          /\ l[i].name = Of(t).node /\ l[i].complete
        BY <2>6, <3>2, <3>3 DEF MadeRight
      <4>1. CASE i \in 1..Len(f) /\ l[i] = f[i]
        BY <2>1, <3>2, <4>1 DEF MadeRight
      <4>2. CASE i = Len(f) + 1 /\ l[i] = made
        BY <1>1, <2>1, <3>2, <4>2
      <4> QED
        BY <2>4, <4>1, <4>2
    <3> QED
      BY <1>4, <1>9, <2>6, <3>1, <3>4 DEF Sound, Working, Later
  <2>12. Holds(t, c, shared', disk'[Of(t).node])
    BY <1>1, <1>4, <2>10, <2>11 DEF Holds
  <2>13. c.step \in Runnings
    BY <2>6 DEF Runnings, Working, Later
  <2> QED
    BY <1>1, <1>2, <1>4, <1>7, <1>9, <2>6, <2>8, <2>12, <2>13, SameDisks, Moves
<1> QED
  BY <1>4, <1>8, <1>9

\* The wrapper's files go to GEN_DIR, wherever that is.
LEMMA WrapperMade == ASSUME ThreadsInv, NEW t \in Asked, GenWrapper(t) PROVE ThreadsInv'
<1>1. PICK b, d, n : b = build[t] /\ n = Of(t).node /\ d = disk[n]
  OBVIOUS
<1>2. /\ b \in BuildRec /\ d \in DiskRec /\ shared \in SharedRec /\ n \in Nodes
      /\ Knows(t, b, shared, d) /\ (b.excuses = {} => Sound(t, b, shared, d))
      /\ build \in [Asked -> BuildRec] /\ disk \in [Nodes -> DiskRec]
  BY <1>1, ThreadIs
<1>3. b.step = "wrapper" /\ asked' = asked /\ accepted' = accepted /\ b.config # No /\ "dir" \in b.relies
      /\ b.apps \in AppSets /\ b.ok /\ b.firmware = <<>> /\ b.step \in Runnings
  BY <1>1, <1>2 DEF GenWrapper, At, Knows, Runnings, Working, Later
<1>4. b.excuses = {} => b.config = b.want /\ Of(b.config).fault \notin {"port", "first"} /\ shared.dir = n
  BY <1>1, <1>2, <1>3 DEF Sound, Working
<1>5. CASE Of(b.config).fault = "sku" /\ FailsFor(t, "sku", {}) /\ disk' = disk
  <2>1. b.excuses = {} => Right(t, b.want) = "sku"
    BY <1>3, <1>4, <1>5 DEF Right
  <2> QED
    BY <1>1, <1>3, <1>5, <2>1, Failing DEF Errors
<1>6. CASE /\ Of(b.config).fault \notin {"sku", "raise"}
           /\ disk' = [disk EXCEPT ![shared.dir].wrappers = @ \cup {b.config}]
           /\ Set([error |-> ""])
           /\ build' = [Misled(t, {"error"}) EXCEPT
                  ![t] = [Done(@, {"dir"}) EXCEPT
                    !.step = IF Of(b.config).fault = "type" THEN "type" ELSE "check"]]
  <2>0. PICK step : step = IF Of(b.config).fault = "type" THEN "type" ELSE "check"
    OBVIOUS
  <2>1. PICK c : c = [[[b EXCEPT !.relies = @ \cup {"error"}] EXCEPT !.relies = @ \ {"dir"}] EXCEPT !.step = step]
    OBVIOUS
  <2>2. Misled(t, {"error"})[t] = [b EXCEPT !.relies = @ \cup {"error"}] /\ Misled(t, {"error"}) \in [Asked -> BuildRec]
    BY <1>1, <1>2, MisledIs DEF Names
  <2>3. /\ c \in BuildRec /\ c.step = step /\ "error" \in c.relies
        /\ c.apps = b.apps /\ c.config = b.config /\ c.want = b.want /\ c.firmware = b.firmware
        /\ c.ok = b.ok /\ c.told = b.told /\ c.excuses = b.excuses
    BY <1>2, <2>0, <2>1 DEF BuildRec, Names, Runnings, Working, Later
  <2>4. build' = [Misled(t, {"error"}) EXCEPT ![t] = c]
    BY <1>6, <2>0, <2>1, <2>2 DEF Done
  <2>5. Becomes(t, {"error"}, c)
    BY <2>3, <2>4 DEF Becomes
  <2>6. shared' = [shared EXCEPT !.error = ""]
    BY <1>2, <1>6, SetError
  <2>7. shared' \in SharedRec /\ shared'.error = "" /\ OnlyIn({"error"}, shared, shared')
    BY <1>2, <2>6 DEF SharedRec, OnlyIn, Errors
  <2>8. b.config \in Asked
    BY <1>2, <1>3 DEF BuildRec, Config
  <2>9. /\ disk' \in [Nodes -> DiskRec]
        /\ \A m \in Nodes : /\ disk'[m].json = disk[m].json /\ disk'[m].yaml = disk[m].yaml
                             /\ disk'[m].reg = disk[m].reg
                             /\ disk'[m].wrappers = disk[m].wrappers \cup (IF m = shared.dir THEN {b.config} ELSE {})
    <3>1. \A m \in Nodes : disk'[m] = IF m = shared.dir
                                     THEN [disk[m] EXCEPT !.wrappers = @ \cup {b.config}] ELSE disk[m]
      BY <1>2, <1>6
    <3>2. disk' = [m \in Nodes |-> disk'[m]]
      BY <1>2, <1>6
    <3>3. ASSUME NEW m \in Nodes
          PROVE  /\ disk'[m] \in DiskRec
                 /\ disk'[m].json = disk[m].json /\ disk'[m].yaml = disk[m].yaml
                 /\ disk'[m].reg = disk[m].reg
                 /\ disk'[m].wrappers = disk[m].wrappers \cup (IF m = shared.dir THEN {b.config} ELSE {})
      <4>1. disk[m] \in DiskRec
        BY <1>2
      <4>2. [disk[m] EXCEPT !.wrappers = @ \cup {b.config}] \in DiskRec
        BY <2>8, <4>1 DEF DiskRec
      <4> QED
        BY <3>1, <4>1, <4>2 DEF DiskRec
    <3> QED
      BY <3>2, <3>3
  <2>10. DisksAfter(t)
    BY <2>9 DEF DisksAfter, ThreadsInv, Yamls
  <2>11. Knows(t, c, shared', disk'[n])
    BY <1>3, <1>6, <2>0, <2>3 DEF Knows, Runnings, Working, Later
  <2>12. c.excuses = {} => Sound(t, c, shared', disk'[n])
    <3>1. c.excuses = {} => b.config \in disk'[n].wrappers
      BY <1>2, <1>4, <2>3, <2>9
    <3> QED
      BY <1>4, <2>0, <2>3, <2>7, <3>1 DEF Sound, Working, Later
  <2>13. Holds(t, c, shared', disk'[Of(t).node])
    BY <1>1, <2>11, <2>12 DEF Holds
  <2>14. c.step \in Runnings
    BY <2>0, <2>3 DEF Runnings, Working, Later
  <2> QED
    BY <1>1, <1>3, <2>3, <2>5, <2>7, <2>10, <2>13, <2>14, Moves DEF Names
<1> QED
  BY <1>1, <1>5, <1>6 DEF GenWrapper, Fails

\* The wrapper failed, or the registration is written.
LEMMA WrapperChecked == ASSUME ThreadsInv, NEW t \in Asked, CheckWrapper(t) PROVE ThreadsInv'
<1>1. PICK b, d, n : b = build[t] /\ n = Of(t).node /\ d = disk[n]
  OBVIOUS
<1>2. /\ b \in BuildRec /\ d \in DiskRec /\ shared \in SharedRec /\ n \in Nodes
      /\ Knows(t, b, shared, d) /\ (b.excuses = {} => Sound(t, b, shared, d))
      /\ build \in [Asked -> BuildRec] /\ disk \in [Nodes -> DiskRec]
  BY <1>1, ThreadIs
<1>3. /\ b.step = "check" /\ asked' = asked /\ shared' = shared /\ accepted' = accepted
      /\ b.config # No /\ "error" \in b.relies /\ Of(b.config).fault \notin {"sku", "raise"}
      /\ b.apps \in AppSets /\ b.ok /\ b.firmware = <<>> /\ b.step \in Runnings
  BY <1>1, <1>2 DEF CheckWrapper, At, Knows, Runnings, Working, Later
<1>4. b.excuses = {} => /\ b.config = b.want /\ Of(b.config).fault \notin {"port", "first"}
                        /\ b.config \in d.wrappers
                        /\ shared.error = IF Of(b.config).fault = "type" THEN "type" ELSE ""
  BY <1>2, <1>3 DEF Sound, Working, Later
<1>5. CASE shared.error # "" /\ build' = [build EXCEPT ![t].step = "tell", ![t].ok = FALSE] /\ disk' = disk
  <2>1. PICK c : c = [b EXCEPT !.step = "tell", !.ok = FALSE]
    OBVIOUS
  <2>2. /\ c \in BuildRec /\ c.step = "tell" /\ ~c.ok /\ c.want = b.want /\ c.relies = b.relies
        /\ c.excuses = b.excuses /\ c.apps = b.apps
    BY <1>2, <2>1 DEF BuildRec, Runnings, Working, Later
  <2>3. build' = [build EXCEPT ![t] = c]
    BY <1>1, <1>5, <2>1
  <2>4. Becomes(t, {}, c) /\ OnlyIn({}, shared, shared')
    BY <1>3, <2>2, <2>3 DEF Becomes, OnlyIn
  <2>5. Knows(t, c, shared', d)
    BY <1>3, <2>2 DEF Knows, Runnings, Working, Later
  <2>6. c.excuses = {} => Sound(t, c, shared', d)
    <3>1. b.excuses = {} => shared.error = Right(t, b.want)
      BY <1>3, <1>4, <1>5 DEF Right
    <3> QED
      BY <1>3, <2>2, <3>1 DEF Sound, Working, Later
  <2>7. Holds(t, c, shared', disk'[Of(t).node])
    BY <1>1, <1>5, <2>5, <2>6 DEF Holds
  <2>8. c.step \in Runnings
    BY <2>2 DEF Runnings
  <2> QED
    BY <1>1, <1>2, <1>3, <1>5, <2>2, <2>4, <2>7, <2>8, SameDisks, Moves
<1>6. CASE /\ shared.error = ""
           /\ disk' = [disk EXCEPT ![Of(t).node].reg = b.config]
           /\ build' = [build EXCEPT ![t] = [Done(@, {"error"}) EXCEPT
                            !.step = IF 2 \in Of(t).phases THEN "environment" ELSE "tell"]]
  <2>0. PICK step : step = IF 2 \in Of(t).phases THEN "environment" ELSE "tell"
    OBVIOUS
  <2>1. PICK c : c = [[b EXCEPT !.relies = @ \ {"error"}] EXCEPT !.step = step]
    OBVIOUS
  <2>2. /\ c \in BuildRec /\ c.step = step
        /\ c.apps = b.apps /\ c.config = b.config /\ c.want = b.want /\ c.firmware = b.firmware
        /\ c.ok = b.ok /\ c.told = b.told /\ c.excuses = b.excuses
    BY <1>2, <2>0, <2>1 DEF BuildRec, Runnings, Working, Later
  <2>3. build' = [build EXCEPT ![t] = c]
    BY <1>1, <1>6, <2>0, <2>1 DEF Done
  <2>4. Becomes(t, {}, c) /\ OnlyIn({}, shared, shared')
    BY <1>3, <2>2, <2>3 DEF Becomes, OnlyIn
  <2>5. b.config \in Config
    BY <1>2 DEF BuildRec
  <2>6. /\ disk' \in [Nodes -> DiskRec]
        /\ \A m \in Nodes : /\ disk'[m].json = disk[m].json /\ disk'[m].yaml = disk[m].yaml
                             /\ disk'[m].wrappers = disk[m].wrappers
                             /\ disk'[m].reg = IF m = n THEN b.config ELSE disk[m].reg
    <3>1. \A m \in Nodes : disk'[m] = IF m = n THEN [disk[m] EXCEPT !.reg = b.config] ELSE disk[m]
      BY <1>1, <1>2, <1>6
    <3>2. disk' = [m \in Nodes |-> disk'[m]]
      BY <1>2, <1>6
    <3>3. ASSUME NEW m \in Nodes
          PROVE  /\ disk'[m] \in DiskRec
                 /\ disk'[m].json = disk[m].json /\ disk'[m].yaml = disk[m].yaml
                 /\ disk'[m].wrappers = disk[m].wrappers
                 /\ disk'[m].reg = IF m = n THEN b.config ELSE disk[m].reg
      <4>1. disk[m] \in DiskRec
        BY <1>2
      <4> QED
        BY <2>5, <3>1, <4>1 DEF DiskRec
    <3> QED
      BY <3>2, <3>3
  <2>7. DisksAfter(t)
    BY <1>1, <2>6 DEF DisksAfter, ThreadsInv, Yamls
  <2>8. /\ disk'[n].reg = b.config /\ disk'[n].wrappers = d.wrappers
    BY <1>1, <1>2, <2>6
  <2>9. Knows(t, c, shared', disk'[n])
    BY <1>3, <2>0, <2>2, <2>8 DEF Knows, Runnings, Working, Later
  <2>10. ASSUME c.excuses = {} PROVE Sound(t, c, shared', disk'[n])
    <3>1. /\ b.config = b.want /\ Of(b.config).fault \notin {"port", "first", "type", "sku", "raise"}
          /\ b.config \in disk'[n].wrappers
      BY <1>3, <1>4, <1>6, <2>2, <2>8, <2>10
    <3>2. Of(b.want).fault \in {"none", "source"}
      <4>1. b.want \in Asked
        BY <1>3, <2>5, <3>1 DEF Config
      <4>2. Of(b.want) \in Trigs
        BY <4>1, PlanIs DEF ThreadsInv
      <4> QED
        BY <3>1, <4>2 DEF Trigs, Faults
    <3>3. 2 \notin Of(t).phases => Right(t, b.want) = "ok"
      BY <1>3, <3>1, <3>2 DEF Right
    <3> QED
      BY <1>3, <2>0, <2>2, <3>1, <3>3 DEF Sound, Working, Later
  <2>11. Holds(t, c, shared', disk'[Of(t).node])
    BY <1>1, <2>9, <2>10 DEF Holds
  <2>12. c.step \in Runnings
    BY <2>0, <2>2 DEF Runnings, Working, Later
  <2> QED
    BY <1>1, <1>2, <1>3, <2>2, <2>4, <2>7, <2>11, <2>12, Moves
<1> QED
  BY <1>1, <1>5, <1>6 DEF CheckWrapper

LEMMA ErrorOnly ==
    ASSUME NEW names \in SUBSET {"error"}
    PROVE  names \in SUBSET Names /\ (names = {} \/ names = {"error"})
BY DEF Names

\* The configuration is found, and what went wrong with it may be forgotten.
LEMMA Loading ==
    ASSUME ThreadsInv, NEW t \in Asked, build[t].step = "load", NEW c \in Asked,
           NEW ex \in SUBSET {"other trigger", "old json", "old yaml", "partly"},
           NEW names \in SUBSET {"error"}, DisksAfter(t), \A m \in Nodes : disk'[m].reg = disk[m].reg,
           asked' = asked, accepted' = accepted,
           names = {} => shared' = shared,
           names # {} => Set([error |-> "port"]),
           \/ /\ names = {}
              /\ build' = [build EXCEPT ![t].step = "dir", ![t].config = c, ![t].excuses = @ \cup ex]
           \/ build' = [Misled(t, names) EXCEPT ![t].step = "dir", ![t].config = c, ![t].excuses = @ \cup ex],
           ex = {} => c = build[t].want /\ Of(c).fault \notin {"port", "first"}
    PROVE  ThreadsInv'
<1>1. PICK b, d, n : b = build[t] /\ n = Of(t).node /\ d = disk[n]
  OBVIOUS
<1>2. /\ b \in BuildRec /\ d \in DiskRec /\ shared \in SharedRec /\ n \in Nodes
      /\ Knows(t, b, shared, d) /\ (b.excuses = {} => Sound(t, b, shared, d))
      /\ build \in [Asked -> BuildRec] /\ disk \in [Nodes -> DiskRec]
  BY <1>1, ThreadIs
<1>3. names \in SUBSET Names /\ (names = {} \/ names = {"error"})
  BY ErrorOnly
<1>4. /\ b.step = "load" /\ b.step \in Runnings /\ b.apps \in AppSets /\ b.ok /\ b.firmware = <<>>
  <2>1. b.step = "load" /\ b.step \in Runnings
    BY <1>1 DEF Runnings
  <2>2. Knows(t, b, shared, d)
    BY <1>2
  <2>3. b.apps \in AppSets
    BY <2>1, <2>2 DEF Knows
  <2>4. b.ok /\ b.firmware = <<>>
    BY <2>1, <2>2 DEF Knows
  <2> QED
    BY <2>1, <2>3, <2>4
<1>5. PICK e, r : /\ r = IF names = {} /\ build' = [build EXCEPT ![t].step = "dir", ![t].config = c, ![t].excuses = @ \cup ex]
                       THEN b.relies ELSE b.relies \cup names
                 /\ e = [b EXCEPT !.step = "dir", !.config = c, !.excuses = @ \cup ex, !.relies = r]
  OBVIOUS
<1>6. /\ e \in BuildRec /\ e.step = "dir" /\ e.config = c /\ e.excuses = b.excuses \cup ex
      /\ e.apps = b.apps /\ e.want = b.want /\ e.firmware = b.firmware /\ e.ok = b.ok
  <2>1. c \in Config /\ r \in SUBSET Names
    BY <1>2, <1>3, <1>5 DEF Config, BuildRec
  <2> QED
    BY <1>2, <1>5, <2>1 DEF BuildRec, Runnings, Working
<1>7. Becomes(t, names, e)
  <2>1. CASE names = {} /\ build' = [build EXCEPT ![t].step = "dir", ![t].config = c, ![t].excuses = @ \cup ex]
    <3>1. e = [b EXCEPT !.step = "dir", !.config = c, !.excuses = @ \cup ex]
      BY <1>2, <1>5, <2>1 DEF BuildRec
    <3>2. build' = [build EXCEPT ![t] = e]
      BY <1>1, <2>1, <3>1
    <3> QED
      BY <1>6, <2>1, <3>2 DEF Becomes
  <2>2. CASE /\ ~(names = {} /\ build' = [build EXCEPT ![t].step = "dir", ![t].config = c, ![t].excuses = @ \cup ex])
             /\ build' = [Misled(t, names) EXCEPT ![t].step = "dir", ![t].config = c, ![t].excuses = @ \cup ex]
    <3>1. PICK m : m = Misled(t, names)
      OBVIOUS
    <3>2. m \in [Asked -> BuildRec] /\ m[t] = [b EXCEPT !.relies = @ \cup names]
      BY <1>1, <1>2, <1>3, <3>1, MisledIs
    <3>3. e = [m[t] EXCEPT !.step = "dir", !.config = c, !.excuses = @ \cup ex]
      BY <1>2, <1>5, <2>2, <3>2 DEF BuildRec
    <3>4. build' = [m EXCEPT ![t] = e]
      BY <2>2, <3>1, <3>2, <3>3
    <3> QED
      BY <1>6, <3>1, <3>4 DEF Becomes
  <2> QED
    BY <2>1, <2>2
<1>8. shared' \in SharedRec /\ OnlyIn(names, shared, shared')
  <2>1. CASE names = {}
    BY <1>2, <2>1 DEF OnlyIn
  <2>2. CASE names = {"error"}
    <3>1. shared' = [shared EXCEPT !.error = "port"]
      BY <1>2, <2>2, SetError
    <3> QED
      BY <1>2, <2>2, <3>1 DEF SharedRec, OnlyIn, Errors
  <2> QED
    BY <1>3, <2>1, <2>2
<1>9. Knows(t, e, shared', disk'[n])
  <2>1. c # No
    BY PlanIs DEF ThreadsInv
  <2> QED
    BY <1>4, <1>6, <2>1 DEF Knows, Runnings, Working, Later
<1>10. e.excuses = {} => Sound(t, e, shared', disk'[n])
  BY <1>1, <1>6 DEF Sound, Working, Later
<1>11. Holds(t, e, shared', disk'[Of(t).node])
  BY <1>1, <1>9, <1>10 DEF Holds
<1>12. e.step \in Runnings
  BY <1>6 DEF Runnings, Working
<1> QED
  BY <1>1, <1>3, <1>4, <1>6, <1>7, <1>8, <1>11, <1>12, Moves

\* A configuration is found, or not, or part of one.
LEMMA Loaded == ASSUME ThreadsInv, NEW t \in Asked, LoadConfig(t) PROVE ThreadsInv'
<1>1. PICK b, d, n : b = build[t] /\ n = Of(t).node /\ d = disk[n]
  OBVIOUS
<1>2. /\ b \in BuildRec /\ d \in DiskRec /\ shared \in SharedRec /\ n \in Nodes
      /\ Knows(t, b, shared, d) /\ (b.excuses = {} => Sound(t, b, shared, d))
      /\ build \in [Asked -> BuildRec] /\ disk \in [Nodes -> DiskRec]
  BY <1>1, ThreadIs
<1>3. PICK json, fault, y, w : /\ json = JsonOf(t) /\ y = d.yaml /\ w = b.want
                              /\ fault = IF json = No THEN "none" ELSE Of(json).fault
  OBVIOUS
<1>4. b.step = "load" /\ asked' = asked /\ accepted' = accepted /\ b.step \in Runnings
  BY <1>1 DEF LoadConfig, At, Runnings
<1>5. PICK exj, exy : exj = Excuse(t, json) /\ exy = Excuse(t, y)
  OBVIOUS
<1>6. \/ json # No /\ fault = "sku" /\ FailsFor(t, "sku", exj) /\ disk' = disk
      \/ /\ json # No /\ fault \in {"none", "type", "source"} /\ Loads(t, json, exj)
         /\ disk' = [disk EXCEPT ![n].yaml = json] /\ shared' = shared
      \/ /\ json # No /\ fault = "port" /\ Set([error |-> "port"]) /\ disk' = disk
         /\ build' = [Misled(t, {"error"}) EXCEPT
                    ![t].step = "dir", ![t].config = json,
                    ![t].excuses = @ \cup ({"partly"} \cup exj)]
      \/ /\ json = No \/ fault = "first"
         /\ disk' = disk
         /\ \/ y = No /\ FailsFor(t, "no file", IF json = No THEN {} ELSE exj)
            \/ /\ y # No /\ fault = "first" /\ Set([error |-> "port"])
               /\ build' = [Misled(t, {"error"}) EXCEPT
                            ![t].step = "dir", ![t].config = y,
                            ![t].excuses = @ \cup {"old yaml"}]
            \/ y # No /\ fault # "first" /\ Loads(t, y, exy) /\ shared' = shared
  <2>1. \A S, T : (S \cup {"partly"}) \cup T = S \cup ({"partly"} \cup T)
    OBVIOUS
  <2> QED
    BY <1>1, <1>3, <1>5, <2>1 DEF LoadConfig
<1>7. /\ json \in Config /\ y \in Config /\ w \in Config /\ t # No /\ Wants(n, w)
      /\ \A c \in Config : c # No <=> c \in Asked
  <2>1. d.json \in Config /\ d.yaml \in Config /\ b.want \in Config
    BY <1>2 DEF DiskRec, BuildRec
  <2>2. json = t \/ json = d.json
    BY <1>1, <1>3 DEF JsonOf
  <2>3. \A c \in Asked : c # No
    BY PlanIs DEF ThreadsInv
  <2>4. Wants(n, b.want)
    BY <1>1 DEF ThreadsInv, Wanted
  <2> QED
    BY <1>3, <2>1, <2>2, <2>3, <2>4 DEF Config
<1>8. ASSUME NEW c, Excuse(t, c) = {} PROVE c = w
  BY <1>1, <1>3, <1>8 DEF Excuse
<1>9. \A c : Excuse(t, c) \in SUBSET {"other trigger", "old json", "old yaml", "partly"}
  BY DEF Excuse
<1>10. exj \in SUBSET {"other trigger", "old json", "old yaml", "partly"} /\ exy \in SUBSET {"other trigger", "old json", "old yaml", "partly"}
  BY <1>5, <1>9
<1>11. /\ exj = {} => json = w
       /\ exy = {} => y = w
  BY <1>5, <1>8
<1>12. CASE json # No /\ fault = "sku" /\ FailsFor(t, "sku", exj) /\ disk' = disk
  <2>1. exj = {} => "sku" = Right(t, w)
    BY <1>3, <1>11, <1>12 DEF Right
  <2> QED
    BY <1>1, <1>3, <1>4, <1>10, <1>12, <2>1, Failing DEF Errors
<1>13. CASE /\ json # No /\ fault \in {"none", "type", "source"} /\ Loads(t, json, exj)
            /\ disk' = [disk EXCEPT ![n].yaml = json] /\ shared' = shared
  <2>1. \A m \in Nodes : disk'[m] = IF m = n THEN [disk[m] EXCEPT !.yaml = json] ELSE disk[m]
    BY <1>2, <1>13
  <2>2. ASSUME NEW m \in Nodes
        PROVE  /\ disk'[m] \in DiskRec
               /\ disk'[m].json = disk[m].json /\ disk'[m].reg = disk[m].reg
               /\ disk'[m].wrappers = disk[m].wrappers
               /\ disk'[m].yaml = IF m = n THEN json ELSE disk[m].yaml
    <3>1. disk[m] \in DiskRec
      BY <1>2
    <3> QED
      BY <1>7, <2>1, <3>1 DEF DiskRec
  <2>3. disk' \in [Nodes -> DiskRec]
    <3>1. disk' = [m \in Nodes |-> disk'[m]]
      BY <1>2, <1>13
    <3> QED
      BY <2>2, <3>1
  <2>4. Of(json).fault \notin {"port", "first"}
    BY <1>3, <1>13
  <2>5. DisksAfter(t)
    BY <1>13, <2>2, <2>3, <2>4 DEF DisksAfter, ThreadsInv, Yamls
  <2>6. build' = [build EXCEPT ![t].step = "dir", ![t].config = json, ![t].excuses = @ \cup exj]
    BY <1>13 DEF Loads
  <2>7. exj = {} => json = build[t].want /\ Of(json).fault \notin {"port", "first"}
    BY <1>1, <1>3, <1>11, <2>4
  <2>8. json \in Asked /\ build[t].step = "load" /\ {} \in SUBSET {"error"} /\ \A m \in Nodes : disk'[m].reg = disk[m].reg
    BY <1>1, <1>4, <1>7, <1>13, <2>2
  <2> QED
    BY <1>4, <1>10, <1>13, <2>5, <2>6, <2>7, <2>8, Loading
<1>14. CASE /\ json # No /\ fault = "port" /\ Set([error |-> "port"]) /\ disk' = disk
            /\ build' = [Misled(t, {"error"}) EXCEPT
                    ![t].step = "dir", ![t].config = json,
                    ![t].excuses = @ \cup ({"partly"} \cup exj)]
  <2>1. DisksAfter(t)
    BY <1>14, SameDisks
  <2>2. PICK ex : ex = {"partly"} \cup exj
    OBVIOUS
  <2>3. ex \in SUBSET {"other trigger", "old json", "old yaml", "partly"} /\ ex # {}
    BY <1>10, <2>2
  <2>4. build' = [Misled(t, {"error"}) EXCEPT ![t].step = "dir", ![t].config = json, ![t].excuses = @ \cup ex]
    BY <1>14, <2>2
  <2>5. json \in Asked /\ build[t].step = "load" /\ {"error"} \in SUBSET {"error"} /\ {"error"} # {}
        /\ \A m \in Nodes : disk'[m].reg = disk[m].reg
    BY <1>1, <1>4, <1>7, <1>14
  <2> QED
    BY <1>4, <1>14, <2>1, <2>3, <2>4, <2>5, Loading
<1>15. CASE /\ json = No \/ fault = "first"
            /\ disk' = disk
            /\ y = No /\ FailsFor(t, "no file", IF json = No THEN {} ELSE exj)
  <2>1. PICK ex : ex = IF json = No THEN {} ELSE exj
    OBVIOUS
  <2>2. ex \in SUBSET {"other trigger", "old json", "old yaml", "partly"}
    BY <1>10, <2>1
  <2>3. ASSUME ex = {} PROVE Right(t, w) = "no file"
    <3>1. CASE json = No
      <4>1. w = No
        <5> SUFFICES ASSUME w # No PROVE FALSE
          OBVIOUS
        <5>1. w \in Asked /\ Of(w).node = n /\ Brought(w)
          BY <1>7 DEF Wants
        <5>2. HasFile(w, d)
          BY <1>1, <5>1 DEF ThreadsInv, Written
        <5>3. d.json = No
          BY <1>1, <1>3, <1>7, <3>1 DEF JsonOf
        <5>4. Of(w).kind \in {"json", "yaml"}
          BY <5>1, PlanIs DEF ThreadsInv, Trigs
        <5> QED
          BY <1>3, <1>15, <5>2, <5>3, <5>4 DEF HasFile
      <4> QED
        BY <4>1 DEF Right
    <3>2. CASE json # No
      BY <1>3, <1>11, <1>15, <2>1, <2>3, <3>2 DEF Right
    <3> QED
      BY <3>1, <3>2
  <2>4. FailsFor(t, "no file", ex)
    BY <1>15, <2>1
  <2>5. "no file" \in Errors
    BY DEF Errors
  <2> QED
    BY <1>1, <1>3, <1>4, <1>15, <2>2, <2>3, <2>4, <2>5, Failing
<1>16. CASE /\ disk' = disk
            /\ y # No /\ fault = "first" /\ Set([error |-> "port"])
            /\ build' = [Misled(t, {"error"}) EXCEPT
                            ![t].step = "dir", ![t].config = y,
                            ![t].excuses = @ \cup {"old yaml"}]
  <2>1. DisksAfter(t)
    BY <1>16, SameDisks
  <2>2. {"old yaml"} \in SUBSET {"other trigger", "old json", "old yaml", "partly"} /\ {"old yaml"} # {}
    OBVIOUS
  <2>3. y \in Asked /\ build[t].step = "load" /\ {"error"} \in SUBSET {"error"} /\ {"error"} # {}
        /\ \A m \in Nodes : disk'[m].reg = disk[m].reg
    BY <1>1, <1>4, <1>7, <1>16
  <2> QED
    BY <1>4, <1>16, <2>1, <2>2, <2>3, Loading
<1>17. CASE disk' = disk /\ y # No /\ Loads(t, y, exy) /\ shared' = shared
  <2>1. DisksAfter(t)
    BY <1>17, SameDisks
  <2>2. Of(y).fault \notin {"port", "first"}
    BY <1>1, <1>2, <1>3, <1>17 DEF ThreadsInv, Yamls
  <2>3. exy = {} => y = build[t].want /\ Of(y).fault \notin {"port", "first"}
    BY <1>1, <1>3, <1>11, <2>2
  <2>4. build' = [build EXCEPT ![t].step = "dir", ![t].config = y, ![t].excuses = @ \cup exy]
    BY <1>17 DEF Loads
  <2>5. y \in Asked /\ build[t].step = "load" /\ {} \in SUBSET {"error"} /\ \A m \in Nodes : disk'[m].reg = disk[m].reg
    BY <1>1, <1>4, <1>7, <1>17
  <2> QED
    BY <1>4, <1>10, <1>17, <2>1, <2>3, <2>4, <2>5, Loading
<1> QED
  BY <1>6, <1>12, <1>13, <1>14, <1>15, <1>16, <1>17

\* A step of the handler, for t, which is not at work and becomes c.
LEMMA HandlerKeeps ==
    ASSUME ThreadsInv, NEW t \in Asked, NEW c \in BuildRec,
           asked'.plan = asked.plan, shared' = shared, build' = [build EXCEPT ![t] = c],
           disk' \in [Nodes -> DiskRec],
           \A n \in Nodes : disk'[n].wrappers = disk[n].wrappers /\ disk'[n].reg = disk[n].reg,
           Holds(t, c, shared', disk'[Of(t).node])
    PROVE  \A u \in Asked' : Holds(u, build[u], shared, disk[Of(u).node])'
<1>1. Asked' = Asked /\ (\A u : Of(u)' = Of(u)) /\ \A u, b, sh, d : Holds(u, b, sh, d)' <=> Holds(u, b, sh, d)
  BY SamePlan
<1> SUFFICES ASSUME NEW u \in Asked PROVE Holds(u, build[u], shared, disk[Of(u).node])'
  BY <1>1
<1>2. PICK b, sh, d : b = build'[u] /\ sh = shared' /\ d = disk'[Of(u).node]
  OBVIOUS
<1>3. Holds(u, b, sh, d)
  <2>1. CASE u = t
    BY <1>2, <2>1 DEF ThreadsInv, ThreadTypes
  <2>2. CASE u # t
    <3>1. /\ Holds(u, build[u], shared, disk[Of(u).node])
          /\ build[u] \in BuildRec /\ Of(u).node \in Nodes
      BY PlanIs DEF ThreadsInv
    <3>2. Hurt(build[u], {}) = build[u] /\ build'[u] = build[u]
      BY <2>2, <3>1, HurtIs DEF ThreadsInv, ThreadTypes
    <3>3. OnlyIn({}, shared, sh) /\ {} \in SUBSET Names
      BY <1>2 DEF OnlyIn
    <3>4. disk[Of(u).node].wrappers \subseteq d.wrappers /\ d.reg = disk[Of(u).node].reg
      BY <1>2, <3>1
    <3>5. Holds(u, Hurt(build[u], {}), sh, d)
      BY <3>1, <3>3, <3>4, StillHolds
    <3> QED
      BY <1>2, <3>2, <3>5
  <2> QED
    BY <2>1, <2>2
<1>4. Holds(u, b, sh, d)'
  BY <1>1, <1>3
<1>5. b = build'[u] /\ sh = shared' /\ d = disk'[Of(u)'.node]
  BY <1>1, <1>2
<1> QED
  BY <1>4, <1>5

\* The handler refuses, or starts the node's only thread, which wants what was accepted last.
LEMMA Started == ASSUME ThreadsInv, NEW t \in Asked, StartThread(t) PROVE ThreadsInv'
<1>1. PICK b, d, n : b = build[t] /\ n = Of(t).node /\ d = disk[n]
  OBVIOUS
<1>2. /\ b \in BuildRec /\ d \in DiskRec /\ shared \in SharedRec /\ n \in Nodes
      /\ Knows(t, b, shared, d) /\ (b.excuses = {} => Sound(t, b, shared, d))
      /\ build \in [Asked -> BuildRec] /\ disk \in [Nodes -> DiskRec]
  BY <1>1, ThreadIs
<1>3. b.step = "app" /\ asked' = asked /\ disk' = disk /\ shared' = shared
  BY <1>1 DEF StartThread, At
<1>4. b.ok /\ b.firmware = <<>>
  BY <1>2, <1>3 DEF Knows
<1>5. /\ Asked' = Asked /\ Config' = Config /\ \A u : Of(u)' = Of(u)
      /\ BuildRec' = BuildRec /\ DiskRec' = DiskRec /\ SharedRec' = SharedRec
  BY <1>3, SamePlan
<1>6. t \in Config /\ t # No /\ \A u \in Asked : build[u] \in BuildRec
  BY PlanIs DEF ThreadsInv
<1>a. \A x : x \in Runnings => x # "app" /\ x # "to come" /\ x # "refused" /\ x # "done" /\ x # "died"
  BY DEF Runnings, Working, Later
<1>b. Runs(n) <=> \E u \in Asked : Of(u).node = n /\ build[u].step \in Runnings
  <2>1. \A u \in Asked : build[u].step \notin {"to come", "app", "refused", "done", "died"} <=> build[u].step \in Runnings
    BY <1>6, <1>a DEF BuildRec
  <2> QED
    BY <1>2, <2>1 DEF Runs
<1>7. ASSUME NEW c \in BuildRec, build' = [build EXCEPT ![t] = c], c.step \in {"refused", "load"},
             c.excuses = b.excuses, c.relies = b.relies, c.ok = b.ok, c.firmware = b.firmware,
             c.step = "load" => ~Runs(n) /\ c.apps \in AppSets,
             Wants(n, c.want), accepted' \in [Nodes -> Config], \A m \in Nodes : Wants(m, accepted'[m])
      PROVE  ThreadsInv'
  <2>1. ThreadTypes'
    BY <1>2, <1>3, <1>5, <1>7 DEF ThreadsInv, ThreadTypes, PlanOK
  <2>2. build'[t] = c /\ \A u \in Asked : u # t => build'[u] = build[u]
    BY <1>2, <1>7
  <2>3. \A u \in Asked : build'[u].step = "to come" <=> build[u].step = "to come"
    BY <1>1, <1>3, <1>7, <2>2
  <2>4. Coming'
    BY <1>3, <1>5, <2>3 DEF ThreadsInv, Coming
  <2>5. \A u \in Asked : Brought(u)' <=> Brought(u)
    BY <1>5, <2>3 DEF Brought
  <2>6. Written'
    BY <1>3, <1>5, <2>5 DEF ThreadsInv, Written, HasFile, No
  <2>7. Yamls'
    BY <1>3, <1>5 DEF ThreadsInv, Yamls, No
  <2>8. ASSUME NEW m, NEW x \in Config, Wants(m, x) PROVE Wants(m, x)'
    BY <1>5, <2>5, <2>8 DEF Wants, Config, No
  <2>9. Wanted'
    <3>1. \A m \in Nodes : Wants(m, accepted[m])'
      <4> SUFFICES ASSUME NEW m \in Nodes PROVE Wants(m, accepted[m])'
        OBVIOUS
      <4>1. PICK x : x = accepted'[m]
        OBVIOUS
      <4>2. x \in Config /\ Wants(m, x)
        BY <1>7, <4>1
      <4>3. Wants(m, x)'
        BY <2>8, <4>2
      <4> QED
        BY <4>1, <4>3
    <3>2. ASSUME NEW u \in Asked PROVE Wants(Of(u).node, build[u].want)'
      <4>1. PICK m, x : m = Of(u).node /\ x = build'[u].want
        OBVIOUS
      <4>2. x \in Config /\ Wants(m, x)
        <5>1. CASE u = t
          BY <1>1, <1>7, <2>2, <4>1, <5>1 DEF BuildRec
        <5>2. CASE u # t
          BY <1>6, <2>2, <4>1, <5>2 DEF ThreadsInv, Wanted, BuildRec
        <5> QED
          BY <5>1, <5>2
      <4>3. Wants(m, x)'
        BY <2>8, <4>2
      <4>4. m = Of(u)'.node /\ x = build'[u].want
        BY <1>5, <4>1
      <4> QED
        BY <4>3, <4>4
    <3> QED
      BY <1>5, <3>1, <3>2 DEF Wanted
  <2>10. OneThread'
    <3> SUFFICES ASSUME NEW u \in Asked, NEW v \in Asked, build'[u].step \in Runnings, build'[v].step \in Runnings,
                        Of(u).node = Of(v).node
                 PROVE  u = v
      BY <1>5 DEF OneThread
    <3>1. CASE u # t /\ v # t
      BY <2>2, <3>1 DEF ThreadsInv, OneThread
    <3>2. ASSUME NEW x \in Asked, x # t, build'[x].step \in Runnings, Of(x).node = n, c.step \in Runnings
          PROVE  FALSE
      BY <1>7, <1>a, <1>b, <2>2, <3>2
    <3> QED
      BY <1>1, <2>2, <3>1, <3>2
  <2>11. Holds(t, c, shared', disk'[n])
    <3>1. Knows(t, c, shared', disk'[n])
      BY <1>4, <1>7 DEF Knows, Runnings, Working, Later
    <3>2. Sound(t, c, shared', disk'[n])
      BY <1>7 DEF Sound, Working, Later
    <3> QED
      BY <3>1, <3>2 DEF Holds
  <2>12. \A u \in Asked' : Holds(u, build[u], shared, disk[Of(u).node])'
    BY <1>1, <1>2, <1>3, <1>7, <2>11, HandlerKeeps
  <2> QED
    BY <2>1, <2>4, <2>6, <2>7, <2>9, <2>10, <2>12 DEF ThreadsInv
<1>8. Wants(n, b.want) /\ (\A m \in Nodes : Wants(m, accepted[m])) /\ accepted \in [Nodes -> Config]
  BY <1>1 DEF ThreadsInv, Wanted, ThreadTypes
<1>9. CASE Runs(n) /\ build' = [build EXCEPT ![t].step = "refused"] /\ accepted' = accepted
  <2>1. PICK c : c = [b EXCEPT !.step = "refused"]
    OBVIOUS
  <2>2. /\ c \in BuildRec /\ c.step = "refused" /\ c.excuses = b.excuses /\ c.relies = b.relies
        /\ c.ok = b.ok /\ c.firmware = b.firmware /\ c.want = b.want
    BY <1>2, <2>1 DEF BuildRec
  <2>3. build' = [build EXCEPT ![t] = c]
    BY <1>1, <1>9, <2>1
  <2> QED
    BY <1>7, <1>8, <1>9, <2>2, <2>3
<1>10. CASE /\ ~Runs(n)
            /\ \E apps \in AppSets :
                  /\ accepted' = IF 1 \in Of(t).phases THEN [accepted EXCEPT ![n] = t] ELSE accepted
                  /\ build' = [build EXCEPT ![t].step = "load", ![t].apps = apps,
                                            ![t].want = accepted'[n]]
  <2>1. PICK apps \in AppSets : build' = [build EXCEPT ![t].step = "load", ![t].apps = apps,
                                                       ![t].want = accepted'[n]]
    BY <1>10
  <2>2. accepted' = IF 1 \in Of(t).phases THEN [accepted EXCEPT ![n] = t] ELSE accepted
    BY <1>10
  <2>3. accepted' \in [Nodes -> Config]
    BY <1>6, <1>8, <2>2
  <2>4. \A m \in Nodes : Wants(m, accepted'[m])
    <3>1. 1 \in Of(t).phases => Wants(n, t)
      BY <1>1, <1>3 DEF Wants, Brought
    <3> QED
      BY <1>8, <2>2, <3>1
  <2>5. PICK c : c = [b EXCEPT !.step = "load", !.apps = apps, !.want = accepted'[n]]
    OBVIOUS
  <2>6. /\ c \in BuildRec /\ c.step = "load" /\ c.excuses = b.excuses /\ c.relies = b.relies
        /\ c.ok = b.ok /\ c.firmware = b.firmware /\ c.want = accepted'[n] /\ c.apps \in AppSets
    <3>1. accepted'[n] \in Config
      BY <1>2, <2>3
    <3> QED
      BY <1>2, <2>5, <3>1 DEF BuildRec, Runnings
  <2>7. build' = [build EXCEPT ![t] = c]
    BY <1>1, <2>1, <2>5
  <2>8. Wants(n, c.want)
    BY <1>2, <2>4, <2>6
  <2> QED
    BY <1>7, <1>10, <2>3, <2>4, <2>6, <2>7, <2>8
<1>11. \A S : S \in {{1}, {2}, {1, 2}} => S \in AppSets
  BY DEF AppSets
<1>12. {1, 2} \in AppSets
  BY DEF AppSets
<1> QED
  <2>1. CASE Runs(n)
    BY <1>1, <1>9, <2>1 DEF StartThread
  <2>2. CASE ~Runs(n)
    <3>1. \E apps \in IF 2 \in Of(t).phases THEN {{1}, {2}, {1, 2}} ELSE {{1, 2}} :
                  /\ accepted' = IF 1 \in Of(t).phases THEN [accepted EXCEPT ![n] = t] ELSE accepted
                  /\ build' = [build EXCEPT ![t].step = "load", ![t].apps = apps,
                                            ![t].want = accepted'[n]]
      BY <1>1, <2>2 DEF StartThread
    <3>2. PICK apps \in IF 2 \in Of(t).phases THEN {{1}, {2}, {1, 2}} ELSE {{1, 2}} :
                  /\ accepted' = IF 1 \in Of(t).phases THEN [accepted EXCEPT ![n] = t] ELSE accepted
                  /\ build' = [build EXCEPT ![t].step = "load", ![t].apps = apps,
                                            ![t].want = accepted'[n]]
      BY <3>1
    <3>3. apps \in AppSets
      BY <1>11, <1>12
    <3> QED
      BY <1>10, <2>2, <3>2, <3>3
  <2> QED
    BY <2>1, <2>2

\* A trigger comes: its configuration is in the directory, whatever runs there.
LEMMA Triggered == ASSUME ThreadsInv, Trigger PROVE ThreadsInv'
<1>1. PICK t : t = asked.come + 1
  OBVIOUS
<1>2. t \in Asked /\ asked.come \in Nat /\ t > asked.come /\ \A u \in Asked : u \in Nat
  BY <1>1 DEF Trigger, ThreadsInv, ThreadTypes, PlanOK, Asked
<1>3. PICK b, d, n : b = build[t] /\ n = Of(t).node /\ d = disk[n]
  OBVIOUS
<1>4. /\ b \in BuildRec /\ d \in DiskRec /\ n \in Nodes
      /\ Knows(t, b, shared, d)
      /\ build \in [Asked -> BuildRec] /\ disk \in [Nodes -> DiskRec]
  BY <1>2, <1>3, ThreadIs
<1>5. /\ asked' = [asked EXCEPT !.come = @ + 1]
      /\ disk' = IF 1 \in Of(t).phases THEN [disk EXCEPT ![n][Of(t).kind] = t] ELSE disk
      /\ build' = [build EXCEPT ![t].step = "app"] /\ shared' = shared /\ accepted' = accepted
  BY <1>1, <1>3 DEF Trigger
<1>6. b.step = "to come"
  BY <1>2, <1>3 DEF ThreadsInv, Coming
<1>7. asked' = [plan |-> asked'.plan, come |-> asked'.come] /\ asked'.plan = asked.plan /\ asked'.come = asked.come + 1
  BY <1>5 DEF ThreadsInv, ThreadTypes
<1>8. /\ Asked' = Asked /\ Config' = Config /\ \A u : Of(u)' = Of(u)
      /\ BuildRec' = BuildRec /\ DiskRec' = DiskRec /\ SharedRec' = SharedRec
  BY <1>7, SamePlan
<1>9. PICK c : c = [b EXCEPT !.step = "app"]
  OBVIOUS
<1>10. /\ c \in BuildRec /\ c.step = "app" /\ c.want = b.want /\ c.ok = b.ok /\ c.firmware = b.firmware
       /\ build' = [build EXCEPT ![t] = c]
  BY <1>3, <1>4, <1>5, <1>9 DEF BuildRec
<1>11. build'[t] = c /\ \A u \in Asked : u # t => build'[u] = build[u]
  BY <1>2, <1>4, <1>10
<1>12. /\ t \in Config /\ t # No /\ Of(t).kind \in {"json", "yaml"}
       /\ Of(t).fault \in {"port", "first"} => Of(t).kind = "json"
       /\ \A u \in Asked : build[u] \in BuildRec /\ Of(u).node \in Nodes /\ Of(u).kind \in {"json", "yaml"}
  BY <1>2, PlanIs DEF ThreadsInv, Trigs
<1>13. /\ disk' \in [Nodes -> DiskRec]
       /\ \A m \in Nodes :
             /\ disk'[m].wrappers = disk[m].wrappers /\ disk'[m].reg = disk[m].reg
             /\ disk'[m].json = IF m = n /\ 1 \in Of(t).phases /\ Of(t).kind = "json" THEN t ELSE disk[m].json
             /\ disk'[m].yaml = IF m = n /\ 1 \in Of(t).phases /\ Of(t).kind = "yaml" THEN t ELSE disk[m].yaml
  <2>1. CASE 1 \notin Of(t).phases
    BY <1>4, <1>5, <2>1
  <2>2. CASE 1 \in Of(t).phases /\ Of(t).kind = "json"
    <3>1. disk' = [disk EXCEPT ![n] = [d EXCEPT !.json = t]]
      BY <1>3, <1>5, <2>2
    <3>2. [d EXCEPT !.json = t] \in DiskRec
      BY <1>4, <1>12 DEF DiskRec
    <3>3. \A m \in Nodes : disk'[m] = IF m = n THEN [d EXCEPT !.json = t] ELSE disk[m]
      BY <1>4, <3>1
    <3>4. /\ [d EXCEPT !.json = t].json = t /\ [d EXCEPT !.json = t].yaml = d.yaml
          /\ [d EXCEPT !.json = t].reg = d.reg /\ [d EXCEPT !.json = t].wrappers = d.wrappers
      BY <1>4 DEF DiskRec
    <3> QED
      BY <1>3, <1>4, <2>2, <3>1, <3>2, <3>3, <3>4
  <2>3. CASE 1 \in Of(t).phases /\ Of(t).kind = "yaml"
    <3>1. disk' = [disk EXCEPT ![n] = [d EXCEPT !.yaml = t]]
      BY <1>3, <1>5, <2>3
    <3>2. [d EXCEPT !.yaml = t] \in DiskRec
      BY <1>4, <1>12 DEF DiskRec
    <3>3. \A m \in Nodes : disk'[m] = IF m = n THEN [d EXCEPT !.yaml = t] ELSE disk[m]
      BY <1>4, <3>1
    <3>4. /\ [d EXCEPT !.yaml = t].json = d.json /\ [d EXCEPT !.yaml = t].yaml = t
          /\ [d EXCEPT !.yaml = t].reg = d.reg /\ [d EXCEPT !.yaml = t].wrappers = d.wrappers
      BY <1>4 DEF DiskRec
    <3> QED
      BY <1>3, <1>4, <2>3, <3>1, <3>2, <3>3, <3>4
  <2> QED
    BY <1>12, <2>1, <2>2, <2>3
<1>14. ThreadTypes'
  <2>1. build' \in [Asked -> BuildRec]
    BY <1>4, <1>10
  <2>2. PlanOK(asked.plan) /\ shared \in SharedRec /\ accepted \in [Nodes -> Config]
    BY DEF ThreadsInv, ThreadTypes
  <2>3. PlanOK(asked'.plan)
    BY <1>7, <2>2
  <2>4. asked'.come \in Nat
    BY <1>2, <1>7
  <2>5. shared' \in SharedRec /\ accepted' \in [Nodes -> Config]
    BY <1>5, <2>2
  <2> QED
    BY <1>7, <1>8, <1>13, <2>1, <2>3, <2>4, <2>5 DEF ThreadTypes
<1>15. Coming'
  <2> SUFFICES ASSUME NEW u \in Asked, u > asked'.come
               PROVE  build'[u].step = "to come"
    BY <1>8 DEF Coming
  <2>1. u > asked.come /\ u # t
    BY <1>1, <1>2, <1>7
  <2>2. build[u].step = "to come"
    BY <2>1 DEF ThreadsInv, Coming
  <2> QED
    BY <1>11, <2>1, <2>2
<1>16. \A u \in Asked : Brought(u)' <=> (Brought(u) \/ (u = t /\ 1 \in Of(t).phases))
  BY <1>3, <1>6, <1>8, <1>10, <1>11 DEF Brought
<1>17. Written'
  <2> SUFFICES ASSUME NEW u \in Asked, Brought(u)'
               PROVE  /\ Of(u).kind = "json" => disk'[Of(u).node].json # No
                      /\ Of(u).kind = "yaml" => disk'[Of(u).node].yaml # No
    BY <1>8 DEF Written, HasFile, No
  <2>1. CASE Brought(u)
    BY <1>12, <1>13, <2>1 DEF ThreadsInv, Written, HasFile
  <2>2. CASE u = t /\ 1 \in Of(t).phases
    BY <1>3, <1>12, <1>13, <2>2
  <2> QED
    BY <1>16, <2>1, <2>2
<1>18. Yamls'
  BY <1>8, <1>12, <1>13 DEF ThreadsInv, Yamls, No
<1>19. ASSUME NEW m, NEW x \in Config, Wants(m, x) PROVE Wants(m, x)'
  BY <1>8, <1>16, <1>19 DEF Wants, Config, No
<1>20. Wanted'
  <2>1. ASSUME NEW m \in Nodes PROVE Wants(m, accepted[m])'
    <3>1. PICK x : x = accepted'[m]
      OBVIOUS
    <3>2. x \in Config /\ Wants(m, x)
      BY <1>5, <3>1 DEF ThreadsInv, ThreadTypes, Wanted
    <3>3. Wants(m, x)'
      BY <1>19, <3>2
    <3> QED
      BY <3>1, <3>3
  <2>2. ASSUME NEW u \in Asked PROVE Wants(Of(u).node, build[u].want)'
    <3>1. PICK m, x : m = Of(u).node /\ x = build'[u].want
      OBVIOUS
    <3>2. x = build[u].want
      BY <1>3, <1>10, <1>11, <3>1
    <3>3. x \in Config /\ Wants(m, x)
      BY <1>12, <3>1, <3>2 DEF ThreadsInv, Wanted, BuildRec
    <3>4. Wants(m, x)'
      BY <1>19, <3>3
    <3>5. m = Of(u)'.node /\ x = build'[u].want
      BY <1>8, <3>1
    <3> QED
      BY <3>4, <3>5
  <2> QED
    BY <1>8, <2>1, <2>2 DEF Wanted
<1>21. OneThread'
  <2>1. "app" \notin Runnings
    BY DEF Runnings, Working, Later
  <2>2. \A u \in Asked : build'[u].step \in Runnings => build[u].step \in Runnings
    BY <1>10, <1>11, <2>1
  <2> QED
    BY <1>8, <2>2 DEF ThreadsInv, OneThread
<1>22. Holds(t, c, shared', disk'[Of(t).node])
  <2>1. Knows(t, c, shared', disk'[n])
    BY <1>4, <1>6, <1>10 DEF Knows, Runnings, Working, Later
  <2>2. Sound(t, c, shared', disk'[n])
    BY <1>10 DEF Sound, Working, Later
  <2> QED
    BY <1>3, <2>1, <2>2 DEF Holds
<1>23. \A u \in Asked' : Holds(u, build[u], shared, disk[Of(u).node])'
  BY <1>2, <1>5, <1>7, <1>10, <1>13, <1>22, HandlerKeeps
<1> QED
  BY <1>14, <1>15, <1>17, <1>18, <1>20, <1>21, <1>23 DEF ThreadsInv

LEMMA NothingAsked == ASSUME BuildThreadsAssumption, ThreadsInit PROVE ThreadsInv
<1>1. PICK plan \in Plans : asked = [plan |-> plan, come |-> 0]
  BY DEF ThreadsInit
<1>2. PlanOK(asked.plan) /\ asked.plan = plan /\ asked.come = 0
  BY <1>1 DEF BuildThreadsAssumption, PlanOK, Trigs, Faults
<1>3. \A u \in Asked : u \in Nat \ {0} /\ Of(u).node \in Nodes
  <2>1. asked.plan \in Seq(Trigs) /\ Asked = 1..Len(asked.plan) /\ Len(asked.plan) \in Nat
    BY <1>2 DEF PlanOK, Asked
  <2>2. \A u \in Asked : Of(u) \in Trigs
    BY <2>1 DEF Of
  <2> QED
    BY <2>1, <2>2 DEF Trigs
<1>4. No \in Config
  BY DEF Config
<1>5. NoBuild \in BuildRec /\ NoBuild.step = "to come" /\ NoBuild.want = No /\ NoBuild.ok /\ NoBuild.firmware = <<>>
  <2>1. <<>> \in Seq(Firmware)
    OBVIOUS
  <2> QED
    BY <1>4, <2>1 DEF NoBuild, BuildRec
<1>6. build \in [Asked -> BuildRec] /\ \A u \in Asked : build[u] = NoBuild
  BY <1>5 DEF ThreadsInit, Asked
<1>7. /\ disk \in [Nodes -> DiskRec]
      /\ \A n \in Nodes : disk[n].json = No /\ disk[n].yaml = No
  <2>1. [json |-> No, yaml |-> No, reg |-> No, wrappers |-> {}] \in DiskRec
    BY <1>4 DEF DiskRec
  <2> QED
    BY <2>1 DEF ThreadsInit
<1>8. shared \in SharedRec
  BY <1>4 DEF ThreadsInit, SharedRec, Errors
<1>9. accepted \in [Nodes -> Config] /\ \A n \in Nodes : accepted[n] = No
  BY <1>4 DEF ThreadsInit
<1>10. ThreadTypes
  BY <1>1, <1>2, <1>6, <1>7, <1>8, <1>9 DEF ThreadTypes
<1>11. Coming /\ Written /\ Yamls /\ Wanted
  BY <1>5, <1>6, <1>7, <1>9 DEF Coming, Written, Brought, Yamls, Wanted, Wants
<1>12. OneThread
  BY <1>5, <1>6 DEF OneThread, Runnings, Working, Later
<1>13. \A u \in Asked : Holds(u, build[u], shared, disk[Of(u).node])
  <2> SUFFICES ASSUME NEW u \in Asked PROVE Holds(u, build[u], shared, disk[Of(u).node])
    OBVIOUS
  <2>1. PICK b, d : b = build[u] /\ d = disk[Of(u).node]
    OBVIOUS
  <2>2. b.step = "to come" /\ b.ok /\ b.firmware = <<>>
    BY <1>5, <1>6, <2>1
  <2>3. Knows(u, b, shared, d)
    BY <2>2 DEF Knows, Runnings, Working, Later
  <2>4. Sound(u, b, shared, d)
    BY <2>2 DEF Sound, Working, Later
  <2> QED
    BY <2>1, <2>3, <2>4 DEF Holds
<1> QED
  BY <1>10, <1>11, <1>12, <1>13 DEF ThreadsInv

LEMMA ThreadSteps == ASSUME ThreadsInv, [ThreadsNext]_threads PROVE ThreadsInv'
<1>1. CASE Trigger
  BY <1>1, Triggered
<1>2. ASSUME NEW t \in DOMAIN build,
             \/ StartThread(t) \/ LoadConfig(t) \/ SetGenDir(t) \/ GenWrapper(t) \/ ThreadDies(t)
             \/ UnknownType(t) \/ CheckWrapper(t) \/ PutEnv(t) \/ PutApp(t) \/ Make(t) \/ Made(t) \/ Tell(t)
      PROVE  ThreadsInv'
  <2>1. t \in Asked
    BY DEF ThreadsInv, ThreadTypes
  <2> QED
    BY <1>2, <2>1, Started, Loaded, DirSet, WrapperMade, Died, TypeUnknown, WrapperChecked, EnvironmentPut,
       ApplicationPut, Compiled, AllMade, ToldOf
<1>3. CASE UNCHANGED threads
  <2>1. asked' = asked /\ build' = build /\ disk' = disk /\ shared' = shared /\ accepted' = accepted
    BY <1>3 DEF threads
  <2>2. /\ Asked' = Asked /\ Config' = Config /\ \A u : Of(u)' = Of(u)
        /\ BuildRec' = BuildRec /\ DiskRec' = DiskRec /\ SharedRec' = SharedRec
        /\ \A u, b, sh, d : Holds(u, b, sh, d)' <=> Holds(u, b, sh, d)
    BY <2>1, SamePlan
  <2>3. ThreadTypes'
    BY <2>1, <2>2 DEF ThreadsInv, ThreadTypes, PlanOK
  <2>4. \A u : Brought(u)' <=> Brought(u)
    BY <2>1, <2>2 DEF Brought
  <2>5. Coming' /\ OneThread' /\ Yamls'
    BY <2>1, <2>2 DEF ThreadsInv, Coming, OneThread, Yamls, No
  <2>6. Written'
    BY <2>1, <2>2, <2>4 DEF ThreadsInv, Written, HasFile, No
  <2>7. Wanted'
    BY <2>1, <2>2, <2>4 DEF ThreadsInv, Wanted, Wants, No
  <2>8. \A u \in Asked' : Holds(u, build[u], shared, disk[Of(u).node])'
    <3> SUFFICES ASSUME NEW u \in Asked PROVE Holds(u, build[u], shared, disk[Of(u).node])'
      BY <2>2
    <3>1. PICK b, sh, d : b = build'[u] /\ sh = shared' /\ d = disk'[Of(u)'.node]
      OBVIOUS
    <3>2. Holds(u, b, sh, d)
      BY <2>1, <2>2, <3>1 DEF ThreadsInv
    <3>3. Holds(u, b, sh, d)'
      BY <2>2, <3>2
    <3> QED
      BY <3>1, <3>3
  <2> QED
    BY <2>3, <2>5, <2>6, <2>7, <2>8 DEF ThreadsInv
<1> QED
  BY <1>1, <1>2, <1>3 DEF ThreadsNext

LEMMA AskedIsBuilt == ThreadsInv => BuildsWhatWasAsked
<1> SUFFICES ASSUME ThreadsInv, NEW t \in DOMAIN build, build[t].step = "done", build[t].excuses = {}
             PROVE  /\ build[t].told = Right(t, build[t].want)
                    /\ build[t].told = "ok" /\ 2 \in Of(t).phases =>
                        /\ {build[t].firmware[i].app : i \in DOMAIN build[t].firmware} = build[t].apps
                        /\ \A i \in DOMAIN build[t].firmware :
                              LET f == build[t].firmware[i]
                              IN  /\ f.reg = build[t].want /\ f.groves = build[t].want
                                  /\ f.name = Of(t).node /\ f.complete
  BY DEF BuildsWhatWasAsked
<1>1. t \in Asked
  BY DEF ThreadsInv, ThreadTypes
<1>2. PICK b : b = build[t]
  OBVIOUS
<1>3. Sound(t, b, shared, disk[Of(t).node]) /\ b \in BuildRec
  BY <1>1, <1>2, ThreadIs
<1>4. b.told = Right(t, b.want) /\ (b.told = "ok" => b.ok)
  BY <1>2, <1>3 DEF Sound
<1>5. ASSUME b.told = "ok", 2 \in Of(t).phases
      PROVE  /\ {b.firmware[i].app : i \in DOMAIN b.firmware} = b.apps
             /\ \A i \in DOMAIN b.firmware :
                    LET f == b.firmware[i]
                    IN  f.reg = b.want /\ f.groves = b.want /\ f.name = Of(t).node /\ f.complete
  <2>1. MadeRight(t, b) /\ b.apps \in AppSets /\ Len(b.firmware) = Cardinality(b.apps)
    BY <1>2, <1>3, <1>4, <1>5 DEF Sound
  <2>2. DOMAIN b.firmware = 1..Cardinality(b.apps)
    <3>1. b.firmware \in Seq(Firmware)
      BY <1>3 DEF BuildRec
    <3> QED
      BY <2>1, <3>1
  <2>3. {Nth(b.apps, i) : i \in 1..Cardinality(b.apps)} = b.apps
    BY <2>1, CountApps
  <2>4. \A i \in 1..Cardinality(b.apps) : b.firmware[i].app = Nth(b.apps, i)
    BY <2>1 DEF MadeRight
  <2>5. {b.firmware[i].app : i \in 1..Cardinality(b.apps)} = {Nth(b.apps, i) : i \in 1..Cardinality(b.apps)}
    BY <2>4
  <2>6. \A i \in DOMAIN b.firmware :
                    LET f == b.firmware[i]
                    IN  f.reg = b.want /\ f.groves = b.want /\ f.name = Of(t).node /\ f.complete
    BY <2>1, <2>2 DEF MadeRight
  <2> QED
    BY <2>2, <2>3, <2>5, <2>6
<1> QED
  BY <1>2, <1>4, <1>5

\* The builds (FirmwareBuildingHandler.post, build_thread, gen_and_build), of any number of
\* nodes, for any triggers in any order: a build that is done has told its user what is wrong
\* with the configuration it was to build, or has made the firmware of it, whole, for the
\* applications it was to make; unless another thread changed what it relied on of error_msg,
\* GEN_DIR and the environment, or another trigger the file it read, or an error of a port
\* was forgotten.
THEOREM BuildsAreWhatWasAsked == ASSUME BuildThreadsAssumption PROVE ThreadsSpec => []BuildsWhatWasAsked
<1>1. ThreadsInit => ThreadsInv
  BY NothingAsked
<1>2. ThreadsInv /\ [ThreadsNext]_threads => ThreadsInv'
  BY ThreadSteps
<1>3. ThreadsInv => BuildsWhatWasAsked
  BY AskedIsBuilt
<1> QED
  BY <1>1, <1>2, <1>3, PTL DEF ThreadsSpec
=============================================================================
