-------------------------- MODULE NodeEventsProofs --------------------------
(***************************************************************************)
(* Proofs about NodeEvents, for any websockets, connections and blocks.    *)
(* That a websocket which was given an event waits again before the next   *)
(* one is complete rests on the order of the IOLoop's queue: it is woken   *)
(* ahead of the reader, and its gen.moment and the reader's alternate.     *)
(***************************************************************************)
EXTENDS NodeEvents, FiniteSetTheorems, SequenceTheorems, TLAPS

\* x is in the queue q.
Has(q, x) == \E i \in 1..Len(q) : q[i] = x

\* Nothing is in the queue q twice.
Once(q) == \A i, j \in 1..Len(q) : q[i] = q[j] => i = j

\* x is in front of y in the queue q, if it holds both.
Before(q, x, y) == \A i, j \in 1..Len(q) : q[i] = x /\ q[j] = y => i < j

\* Where fetch_event stands when it is in the queue.
Scheduled == {"start", "timedout", "got", "cancelled", "moment", "retry"}

\* The queue holds every reader and fetch_event that can go on, once.
QueueOK ==
    /\ Once(ready)
    /\ \A c \in Conns : Has(ready, c) <=> reader[c] \in {"got", "moment"}
    /\ \A w \in Sockets : Has(ready, w) <=> fetch[w] \in Scheduled

\* A future that is still waited for is on the list of its websocket's connection.
ListOK == \A c \in Conns : \A w \in waiters[c] : fetch[w] = "waiting" => cur[w] = c

\* A read is resolved with a block that is there.
BlockOK == \A c \in Conns : reader[c] = "got" => inbuf[c] > 0

\* Without a connection there is no fetch_event; only on_close cancels one.
FetchOK ==
    \A w \in Sockets :
        /\ cur[w] = NoConn => fetch[w] \in {"none", "ended"}
        /\ fetch[w] = "cancelled" => phase[w] = "closed"

\* A websocket that was given an event is in front of the reader of its
\* connection, until the reader has begun the next event and comes after it.
Ahead(w, c) ==
    /\ fetch[w] = "got" => seen[c] = 0 /\ Before(ready, w, c)
    /\ fetch[w] = "moment" => seen[c] = 0 \/ Before(ready, w, c)

TurnsOK == \A w \in Sockets, c \in Conns : phase[w] = "open" /\ cur[w] = c => Ahead(w, c)

IInv ==
    /\ TypeOK /\ NoneDone
    /\ QueueOK /\ ListOK /\ BlockOK /\ FetchOK /\ TurnsOK


-----------------------------------------------------------------------------
(* The queue of the IOLoop.                                                *)

Entries == Conns \cup Sockets

\* What runs leaves the queue; the others keep their order.
LEMMA TailQueue ==
    ASSUME NEW q \in Seq(Entries), q # <<>>, Once(q)
    PROVE  /\ Tail(q) \in Seq(Entries) /\ Once(Tail(q))
           /\ \A x : Has(Tail(q), x) <=> Has(q, x) /\ x # Head(q)
           /\ \A x, y : Before(q, x, y) => Before(Tail(q), x, y)
           /\ Has(q, Head(q)) /\ \A x : Before(q, x, Head(q)) => ~Has(q, x)
<1>1. /\ Tail(q) \in Seq(Entries) /\ Len(q) \in Nat /\ Len(Tail(q)) = Len(q) - 1
      /\ Head(q) = q[1] /\ \A i \in 1..Len(Tail(q)) : i + 1 \in 1..Len(q) /\ Tail(q)[i] = q[i + 1]
      /\ 1 \in 1..Len(q)
  OBVIOUS
<1>2. Once(Tail(q))
  BY <1>1 DEF Once
<1>3. ASSUME NEW x PROVE Has(Tail(q), x) <=> Has(q, x) /\ x # Head(q)
  <2>1. ASSUME Has(Tail(q), x) PROVE Has(q, x) /\ x # Head(q)
    <3>1. PICK i \in 1..Len(Tail(q)) : Tail(q)[i] = x
      BY <2>1 DEF Has
    <3>2. i + 1 \in 1..Len(q) /\ q[i + 1] = x /\ i + 1 # 1
      BY <1>1, <3>1
    <3> QED
      BY <1>1, <3>2 DEF Has, Once
  <2>2. ASSUME Has(q, x), x # Head(q) PROVE Has(Tail(q), x)
    <3>1. PICK i \in 1..Len(q) : q[i] = x
      BY <2>2 DEF Has
    <3>2. i - 1 \in 1..Len(Tail(q)) /\ (i - 1) + 1 = i
      BY <1>1, <2>2, <3>1
    <3> QED
      BY <1>1, <3>1, <3>2 DEF Has
  <2> QED
    BY <2>1, <2>2
<1>4. ASSUME NEW x, NEW y, Before(q, x, y) PROVE Before(Tail(q), x, y)
  <2> SUFFICES ASSUME NEW i \in 1..Len(Tail(q)), NEW j \in 1..Len(Tail(q)),
                      Tail(q)[i] = x, Tail(q)[j] = y
               PROVE  i < j
    BY DEF Before
  <2>1. q[i + 1] = x /\ q[j + 1] = y /\ i + 1 \in 1..Len(q) /\ j + 1 \in 1..Len(q)
    BY <1>1
  <2> QED
    BY <1>4, <2>1 DEF Before
<1>5. Has(q, Head(q)) /\ \A x : Before(q, x, Head(q)) => ~Has(q, x)
  BY <1>1 DEF Has, Before
<1> QED
  BY <1>1, <1>2, <1>3, <1>4, <1>5

\* What becomes able to run is queued behind the rest.
LEMMA LongerQueue ==
    ASSUME NEW q \in Seq(Entries), Once(q), NEW e \in Entries, ~Has(q, e)
    PROVE  /\ Append(q, e) \in Seq(Entries) /\ Once(Append(q, e))
           /\ \A x : Has(Append(q, e), x) <=> Has(q, x) \/ x = e
           /\ \A x, y : x # e /\ Before(q, x, y) => Before(Append(q, e), x, y)
           /\ \A x : x # e => Before(Append(q, e), x, e)
<1> DEFINE r == Append(q, e)
<1>1. /\ r \in Seq(Entries) /\ Len(q) \in Nat /\ Len(r) = Len(q) + 1 /\ r[Len(r)] = e
      /\ \A i \in 1..Len(q) : i \in 1..Len(r) /\ r[i] = q[i]
      /\ \A i \in 1..Len(r) : i \in 1..Len(q) \/ i = Len(r)
  OBVIOUS
<1> HIDE DEF r
<1>2. ASSUME NEW x PROVE Has(r, x) <=> Has(q, x) \/ x = e
  BY <1>1 DEF Has
<1>3. Once(r)
  BY <1>1 DEF Once, Has
<1>4. ASSUME NEW x, NEW y, x # e, Before(q, x, y) PROVE Before(r, x, y)
  BY <1>1, <1>4 DEF Before
<1>5. ASSUME NEW x, x # e PROVE Before(r, x, e)
  BY <1>1, <1>5 DEF Before, Has
<1> QED
  BY <1>1, <1>2, <1>3, <1>4, <1>5 DEF r

\* The websockets that an event wakes are queued in some order, once each.
LEMMA WokenQueue ==
    ASSUME NEW q \in Seq(Entries), Once(q), NEW S \in SUBSET Sockets, IsFiniteSet(S),
           \A w \in S : ~Has(q, w), NEW order \in Orders(S)
    PROVE  /\ q \o order \in Seq(Entries) /\ Once(q \o order)
           /\ \A x : Has(q \o order, x) <=> Has(q, x) \/ x \in S
           /\ \A x, y : x \notin S /\ Before(q, x, y) => Before(q \o order, x, y)
<1> DEFINE n == Cardinality(S)
           r == q \o order
<1>1. /\ n \in Nat /\ order \in [1..n -> S] /\ order \in Seq(Entries) /\ Len(order) = n
      /\ \A i, j \in 1..n : order[i] = order[j] => i = j
      /\ \A w \in S : \E i \in 1..n : order[i] = w
  <2>1. n \in Nat /\ order \in [1..n -> S]
    BY FS_CardinalityType DEF Orders, Bijection, Injection
  <2>2. order \in Seq(Entries) /\ Len(order) = n
    BY <2>1 DEF Entries
  <2> QED
    BY <2>1, <2>2 DEF Orders, Bijection, Injection, IsInjective, Surjection
<1> HIDE DEF n
<1>2. /\ r \in Seq(Entries) /\ Len(q) \in Nat /\ Len(r) = Len(q) + n
      /\ \A i \in 1..Len(q) : r[i] = q[i]
      /\ \A i \in (Len(q) + 1)..(Len(q) + n) : r[i] = order[i - Len(q)]
  <2>1. order \in Seq(Entries)
    BY <1>1
  <2>2. /\ r \in Seq(Entries) /\ Len(q) \in Nat /\ Len(r) = Len(q) + Len(order)
        /\ \A i \in 1..Len(q) : r[i] = q[i]
        /\ \A i \in (Len(q) + 1)..(Len(q) + Len(order)) : r[i] = order[i - Len(q)]
    BY <2>1, ConcatProperties
  <2> HIDE DEF r
  <2> QED
    BY <1>1, <2>2
<1> HIDE DEF r
<1>3. ASSUME NEW i \in 1..Len(r)
      PROVE  \/ i \in 1..Len(q) /\ r[i] = q[i]
             \/ i - Len(q) \in 1..n /\ r[i] = order[i - Len(q)] /\ r[i] \in S
  <2>1. CASE i \in 1..Len(q)
    BY <1>2, <2>1
  <2>2. CASE i \in (Len(q) + 1)..(Len(q) + n)
    <3>1. i - Len(q) \in 1..n /\ r[i] = order[i - Len(q)]
      BY <1>1, <1>2, <2>2
    <3>2. order[i - Len(q)] \in S
      BY <1>1, <3>1
    <3> QED
      BY <3>1, <3>2
  <2> QED
    BY <1>1, <1>2, <2>1, <2>2
<1>4. ASSUME NEW x PROVE Has(r, x) <=> Has(q, x) \/ x \in S
  <2>1. Has(r, x) => Has(q, x) \/ x \in S
    BY <1>3 DEF Has
  <2>2. Has(q, x) => Has(r, x)
    BY <1>1, <1>2 DEF Has
  <2>3. ASSUME x \in S PROVE Has(r, x)
    <3>1. PICK i \in 1..n : order[i] = x
      BY <1>1, <2>3
    <3> DEFINE k == Len(q) + i
    <3>2. k \in 1..Len(r) /\ k \in (Len(q) + 1)..(Len(q) + n) /\ k - Len(q) = i
      BY <1>1, <1>2
    <3> QED
      BY <1>2, <3>1, <3>2 DEF Has
  <2> QED
    BY <2>1, <2>2, <2>3
<1>5. Once(r)
  <2> SUFFICES ASSUME NEW i \in 1..Len(r), NEW j \in 1..Len(r), r[i] = r[j] PROVE i = j
    BY DEF Once
  <2>1. CASE i \in 1..Len(q) /\ j \in 1..Len(q)
    BY <1>2, <2>1 DEF Once
  <2>2. CASE i - Len(q) \in 1..n /\ j - Len(q) \in 1..n
    <3>1. i \in (Len(q) + 1)..(Len(q) + n) /\ j \in (Len(q) + 1)..(Len(q) + n)
      BY <1>1, <1>2, <2>2
    <3>2. order[i - Len(q)] = order[j - Len(q)]
      BY <1>2, <3>1
    <3>3. i - Len(q) = j - Len(q)
      BY <1>1, <2>2, <3>2
    <3> QED
      BY <1>2, <3>3
  <2> QED
    BY <1>2, <1>3, <2>1, <2>2 DEF Has
<1>6. ASSUME NEW x, NEW y, x \notin S, Before(q, x, y) PROVE Before(r, x, y)
  <2> SUFFICES ASSUME NEW i \in 1..Len(r), NEW j \in 1..Len(r), r[i] = x, r[j] = y
               PROVE  i < j
    BY DEF Before
  <2>1. i \in 1..Len(q) /\ q[i] = x
    BY <1>3, <1>6
  <2>2. CASE j \in 1..Len(q) /\ q[j] = y
    BY <1>6, <2>1, <2>2 DEF Before
  <2>3. CASE j - Len(q) \in 1..n
    BY <1>2, <2>1, <2>3
  <2> QED
    BY <1>3, <2>2, <2>3
<1> QED
  BY <1>2, <1>4, <1>5, <1>6 DEF r


-----------------------------------------------------------------------------
(* The connections and the timers.                                         *)

LEMMA Apart ==
    /\ NoConn \notin Conns /\ NoConn \notin Sockets /\ Conns \cap Sockets = {}
    /\ IsFiniteSet(Sockets)
BY WatchAssumption DEF Conns, NoConn

LEMMA InitOK == Init => IInv
<1> SUFFICES ASSUME Init PROVE IInv
  OBVIOUS
<1>1. TypeOK
  BY WatchAssumption DEF Init, TypeOK, Conns, NoConn, BLOCKS
<1>2. NoneDone /\ ListOK /\ BlockOK /\ FetchOK /\ TurnsOK
  BY Apart DEF Init, NoneDone, ListOK, BlockOK, FetchOK, TurnsOK, NoConn
<1>3. QueueOK
  BY DEF Init, QueueOK, Once, Has, Scheduled
<1> QED
  BY <1>1, <1>2, <1>3 DEF IInv

LEMMA StepConnect ==
    ASSUME IInv, NEW c \in Conns, Connect(c) PROVE IInv'
<1>1. /\ pool' = c /\ UNCHANGED <<ready, waiters, seen, inbuf, sent, sockVars>>
      /\ reader' \in [Conns -> {"new", "reading", "got", "moment", "dead"}]
      /\ \A x \in Conns : reader'[x] \in {"got", "moment"} <=> reader[x] \in {"got", "moment"}
      /\ \A x \in Conns : reader'[x] = "got" => reader[x] = "got"
  BY DEF IInv, TypeOK, Connect
<1>2. TypeOK'
  BY <1>1 DEF IInv, TypeOK, sockVars
<1>3. NoneDone' /\ ListOK' /\ FetchOK' /\ BlockOK'
  BY <1>1 DEF IInv, NoneDone, ListOK, FetchOK, BlockOK, sockVars
<1>4. QueueOK'
  BY <1>1 DEF IInv, QueueOK, sockVars
<1>5. TurnsOK'
  BY <1>1 DEF IInv, TurnsOK, Ahead, sockVars
<1> QED
  BY <1>2, <1>3, <1>4, <1>5 DEF IInv

LEMMA StepConnBreaks ==
    ASSUME IInv, ConnBreaks PROVE IInv'
<1>1. /\ pool' = NoConn /\ UNCHANGED <<ready, waiters, seen, inbuf, sent, sockVars>>
      /\ reader' \in [Conns -> {"new", "reading", "got", "moment", "dead"}]
      /\ \A x \in Conns : reader'[x] \in {"got", "moment"} <=> reader[x] \in {"got", "moment"}
      /\ \A x \in Conns : reader'[x] = "got" => reader[x] = "got"
  BY DEF IInv, TypeOK, ConnBreaks
<1>2. TypeOK'
  BY <1>1 DEF IInv, TypeOK, sockVars
<1>3. NoneDone' /\ ListOK' /\ FetchOK' /\ BlockOK'
  BY <1>1 DEF IInv, NoneDone, ListOK, FetchOK, BlockOK, sockVars
<1>4. QueueOK'
  BY <1>1 DEF IInv, QueueOK, sockVars
<1>5. TurnsOK'
  BY <1>1 DEF IInv, TurnsOK, Ahead, sockVars
<1> QED
  BY <1>2, <1>3, <1>4, <1>5 DEF IInv

\* A reader that a block resolves comes behind the websockets that are queued.
LEMMA StepNodeSends ==
    ASSUME IInv, NodeSends PROVE IInv'
<1>1. /\ pool \in Conns /\ sent[pool] < MaxBlocks
      /\ sent' = [sent EXCEPT ![pool] = @ + 1] /\ inbuf' = [inbuf EXCEPT ![pool] = @ + 1]
      /\ UNCHANGED <<pool, waiters, seen, sockVars>>
      /\ MaxBlocks \in Nat
  BY WatchAssumption DEF IInv, TypeOK, NodeSends, NoConn, Conns
<1>2. /\ sent' \in [Conns -> Nat] /\ inbuf' \in [Conns -> Nat]
      /\ \A c \in Conns : inbuf'[c] <= sent'[c] /\ sent'[c] <= MaxBlocks
      /\ \A c \in Conns : inbuf'[c] >= inbuf[c]
      /\ inbuf'[pool] > 0
  BY <1>1 DEF IInv, TypeOK
<1>3. NoneDone' /\ ListOK' /\ FetchOK'
  BY <1>1 DEF IInv, NoneDone, ListOK, FetchOK, sockVars
<1>4. CASE reader[pool] = "reading" /\ reader' = [reader EXCEPT ![pool] = "got"]
           /\ ready' = Append(ready, pool)
  <2>1. /\ Once(ready) /\ ~Has(ready, pool) /\ ready \in Seq(Entries) /\ pool \in Entries
        /\ \A w \in Sockets : w # pool
    BY <1>1, <1>4, Apart DEF IInv, QueueOK, TypeOK, Entries
  <2>2. /\ ready' \in Seq(Entries) /\ Once(ready')
        /\ \A x : Has(ready', x) <=> Has(ready, x) \/ x = pool
        /\ \A x, y : x # pool /\ Before(ready, x, y) => Before(ready', x, y)
    BY <1>4, <2>1, LongerQueue
  <2>3. /\ reader' \in [Conns -> {"new", "reading", "got", "moment", "dead"}]
        /\ reader'[pool] = "got" /\ \A c \in Conns \ {pool} : reader'[c] = reader[c]
    BY <1>1, <1>4 DEF IInv, TypeOK
  <2>4. TypeOK'
    BY <1>1, <1>2, <2>2, <2>3 DEF IInv, TypeOK, sockVars, Entries
  <2>5. BlockOK'
    <3> SUFFICES ASSUME NEW c \in Conns, reader'[c] = "got" PROVE inbuf'[c] > 0
      BY DEF BlockOK
    <3>1. CASE c = pool
      BY <1>2, <3>1
    <3>2. CASE c # pool
      BY <1>1, <2>3, <3>2 DEF IInv, BlockOK, TypeOK
    <3> QED
      BY <3>1, <3>2
  <2>6. QueueOK'
    <3>1. ASSUME NEW c \in Conns PROVE Has(ready', c) <=> reader'[c] \in {"got", "moment"}
      BY <2>2, <2>3 DEF IInv, QueueOK
    <3>2. ASSUME NEW w \in Sockets PROVE Has(ready', w) <=> fetch'[w] \in Scheduled
      BY <1>1, <2>1, <2>2 DEF IInv, QueueOK, sockVars
    <3> QED
      BY <2>2, <3>1, <3>2 DEF QueueOK
  <2>7. TurnsOK'
    BY <1>1, <2>1, <2>2 DEF IInv, TurnsOK, Ahead, sockVars
  <2> QED
    BY <1>3, <2>4, <2>5, <2>6, <2>7 DEF IInv
<1>5. CASE reader[pool] # "reading" /\ UNCHANGED <<reader, ready>>
  <2>1. TypeOK'
    BY <1>1, <1>2, <1>5 DEF IInv, TypeOK, sockVars
  <2>2. BlockOK'
    BY <1>2, <1>5 DEF IInv, BlockOK, TypeOK
  <2>3. QueueOK' /\ TurnsOK'
    BY <1>1, <1>5 DEF IInv, QueueOK, TurnsOK, Ahead, sockVars
  <2> QED
    BY <1>3, <2>1, <2>2, <2>3 DEF IInv
<1> QED
  BY <1>4, <1>5 DEF NodeSends

LEMMA StepNoKey ==
    ASSUME IInv, NEW w \in Sockets, NoKey(w) PROVE IInv'
<1>1. /\ phase[w] = "open" /\ cur[w] = NoConn /\ phase' = [phase EXCEPT ![w] = "closing"]
      /\ connected' \in [Sockets -> BOOLEAN]
      /\ UNCHANGED <<ready, pool, waiters, readVars, cur, fetch>>
  BY DEF IInv, TypeOK, NoKey
<1>2. TypeOK'
  BY <1>1 DEF IInv, TypeOK, readVars
<1>3. NoneDone' /\ ListOK' /\ BlockOK' /\ QueueOK'
  BY <1>1 DEF IInv, NoneDone, ListOK, BlockOK, QueueOK, readVars
<1>4. FetchOK'
  BY <1>1 DEF IInv, FetchOK, TypeOK
<1>5. TurnsOK'
  BY <1>1 DEF IInv, TurnsOK, Ahead, readVars, TypeOK
<1> QED
  BY <1>2, <1>3, <1>4, <1>5 DEF IInv


\* A fetch_event that becomes able to run is queued once.
LEMMA Wakes ==
    ASSUME IInv, NEW w \in Sockets, fetch[w] \notin Scheduled, NEW s \in Scheduled,
           fetch' = [fetch EXCEPT ![w] = s], ready' = Append(ready, w), UNCHANGED reader
    PROVE  /\ ready' \in Seq(Conns \cup Sockets) /\ QueueOK'
           /\ \A x, y : x # w /\ Before(ready, x, y) => Before(ready', x, y)
<1>1. ready \in Seq(Entries) /\ Once(ready) /\ ~Has(ready, w) /\ w \in Entries
      /\ fetch \in [Sockets -> {"none", "start", "waiting", "timedout", "got",
                              "cancelled", "moment", "retry", "ended"}]
  BY DEF IInv, TypeOK, QueueOK, Entries
<1>2. /\ ready' \in Seq(Entries) /\ Once(ready')
      /\ \A x : Has(ready', x) <=> Has(ready, x) \/ x = w
      /\ \A x, y : x # w /\ Before(ready, x, y) => Before(ready', x, y)
  BY <1>1, LongerQueue
<1>3. ASSUME NEW c \in Conns PROVE Has(ready', c) <=> reader'[c] \in {"got", "moment"}
  BY <1>2, Apart DEF IInv, QueueOK
<1>4. ASSUME NEW v \in Sockets PROVE Has(ready', v) <=> fetch'[v] \in Scheduled
  <2>1. CASE v = w
    BY <1>1, <1>2, <2>1
  <2>2. CASE v # w
    BY <1>1, <1>2, <2>2 DEF IInv, QueueOK
  <2> QED
    BY <2>1, <2>2
<1> QED
  BY <1>2, <1>3, <1>4 DEF QueueOK, Entries

LEMMA StepKey ==
    ASSUME IInv, NEW w \in Sockets, Key(w) PROVE IInv'
<1>1. /\ cur[w] = NoConn /\ pool \in Conns /\ fetch[w] \in {"none", "ended"}
      /\ cur' = [cur EXCEPT ![w] = pool] /\ fetch' = [fetch EXCEPT ![w] = "start"]
      /\ ready' = Append(ready, w)
      /\ UNCHANGED <<pool, waiters, readVars, phase, connected>>
  BY DEF IInv, TypeOK, FetchOK, Key
<1>2. /\ ready' \in Seq(Conns \cup Sockets) /\ QueueOK'
      /\ \A x, y : x # w /\ Before(ready, x, y) => Before(ready', x, y)
  <2>1. fetch[w] \notin Scheduled /\ "start" \in Scheduled /\ UNCHANGED reader
    BY <1>1 DEF Scheduled, readVars
  <2> QED
    BY <1>1, <2>1, Wakes
<1>3. /\ fetch'[w] = "start" /\ cur'[w] = pool
      /\ \A v \in Sockets \ {w} : fetch'[v] = fetch[v] /\ cur'[v] = cur[v]
  BY <1>1 DEF IInv, TypeOK
<1>4. TypeOK'
  BY <1>1, <1>2 DEF IInv, TypeOK, readVars
<1>5. BlockOK'
  BY <1>1 DEF IInv, BlockOK, readVars
<1>6. NoneDone' /\ ListOK'
  <2> SUFFICES ASSUME NEW c \in Conns, NEW v \in waiters'[c]
               PROVE  /\ fetch'[v] \in {"waiting", "timedout", "retry"}
                      /\ fetch'[v] = "waiting" => cur'[v] = c
    BY DEF NoneDone, ListOK
  <2>1. v \in waiters[c] /\ v \in Sockets
    BY <1>1 DEF IInv, TypeOK
  <2>2. v # w
    BY <1>1, <2>1 DEF IInv, NoneDone
  <2> QED
    BY <1>3, <2>1, <2>2 DEF IInv, NoneDone, ListOK
<1>7. FetchOK'
  BY <1>1, <1>3, Apart DEF IInv, FetchOK
<1>8. TurnsOK'
  BY <1>1, <1>2, <1>3 DEF IInv, TurnsOK, Ahead, readVars
<1> QED
  BY <1>2, <1>4, <1>5, <1>6, <1>7, <1>8 DEF IInv

LEMMA StepWaitTimeout ==
    ASSUME IInv, NEW w \in Sockets, WaitTimeout(w) PROVE IInv'
<1>1. /\ fetch[w] = "waiting" /\ fetch' = [fetch EXCEPT ![w] = "timedout"]
      /\ ready' = Append(ready, w)
      /\ UNCHANGED <<pool, waiters, readVars, phase, connected, cur>>
  BY DEF WaitTimeout
<1>2. /\ ready' \in Seq(Conns \cup Sockets) /\ QueueOK'
      /\ \A x, y : x # w /\ Before(ready, x, y) => Before(ready', x, y)
  <2>1. fetch[w] \notin Scheduled /\ "timedout" \in Scheduled /\ UNCHANGED reader
    BY <1>1 DEF Scheduled, readVars
  <2> QED
    BY <1>1, <2>1, Wakes
<1>3. fetch'[w] = "timedout" /\ \A v \in Sockets \ {w} : fetch'[v] = fetch[v]
  BY <1>1 DEF IInv, TypeOK
<1>4. TypeOK'
  BY <1>1, <1>2 DEF IInv, TypeOK, readVars
<1>5. BlockOK'
  BY <1>1 DEF IInv, BlockOK, readVars
<1>6. NoneDone' /\ ListOK'
  <2> SUFFICES ASSUME NEW c \in Conns, NEW v \in waiters'[c]
               PROVE  /\ fetch'[v] \in {"waiting", "timedout", "retry"}
                      /\ fetch'[v] = "waiting" => cur'[v] = c
    BY DEF NoneDone, ListOK
  <2>1. v \in waiters[c] /\ v \in Sockets
    BY <1>1 DEF IInv, TypeOK
  <2> QED
    BY <1>1, <1>3, <2>1 DEF IInv, NoneDone, ListOK
<1>7. FetchOK'
  BY <1>1, <1>3 DEF IInv, FetchOK
<1>8. TurnsOK'
  BY <1>1, <1>2, <1>3 DEF IInv, TurnsOK, Ahead, readVars
<1> QED
  BY <1>2, <1>4, <1>5, <1>6, <1>7, <1>8 DEF IInv

\* on_close takes the future off the list it is on, the only one that counts.
LEMMA StepClose ==
    ASSUME IInv, NEW w \in Sockets, Close(w) PROVE IInv'
<1>1. /\ phase' = [phase EXCEPT ![w] = "closed"] /\ connected' \in [Sockets -> BOOLEAN]
      /\ UNCHANGED <<pool, readVars, cur>>
  BY DEF IInv, TypeOK, Close, Disconnected
<1>2. phase'[w] = "closed" /\ \A v \in Sockets \ {w} : phase'[v] = phase[v]
  BY <1>1 DEF IInv, TypeOK
<1>3. BlockOK'
  BY <1>1 DEF IInv, BlockOK, readVars
<1>4. CASE UNCHANGED <<fetch, ready>> /\ waiters' \in [Conns -> SUBSET Sockets]
           /\ \A c \in Conns : waiters'[c] \subseteq waiters[c]
  <2>1. TypeOK'
    BY <1>1, <1>4 DEF IInv, TypeOK, readVars
  <2>2. NoneDone' /\ ListOK'
    BY <1>1, <1>4 DEF IInv, NoneDone, ListOK
  <2>3. QueueOK'
    BY <1>1, <1>4 DEF IInv, QueueOK, readVars
  <2>4. FetchOK'
    BY <1>1, <1>2, <1>4 DEF IInv, FetchOK
  <2>5. TurnsOK'
    BY <1>1, <1>2, <1>4 DEF IInv, TurnsOK, Ahead, readVars
  <2> QED
    BY <1>3, <2>1, <2>2, <2>3, <2>4, <2>5 DEF IInv
<1>5. CASE /\ OnList(w) /\ waiters' = TakeOff(w)
           /\ fetch[w] = "waiting" /\ fetch' = [fetch EXCEPT ![w] = "cancelled"]
           /\ ready' = Append(ready, w)
  <2>1. /\ ready' \in Seq(Conns \cup Sockets) /\ QueueOK'
        /\ \A x, y : x # w /\ Before(ready, x, y) => Before(ready', x, y)
    <3>1. fetch[w] \notin Scheduled /\ "cancelled" \in Scheduled /\ UNCHANGED reader
      BY <1>1, <1>5 DEF Scheduled, readVars
    <3> QED
      BY <1>5, <3>1, Wakes
  <2>2. fetch'[w] = "cancelled" /\ \A v \in Sockets \ {w} : fetch'[v] = fetch[v]
    BY <1>5 DEF IInv, TypeOK
  <2>3. /\ waiters' \in [Conns -> SUBSET Sockets]
        /\ \A c \in Conns : waiters'[c] \subseteq waiters[c] /\ w \notin waiters'[c]
    BY <1>5 DEF IInv, TypeOK, ListOK, TakeOff, OnList, NoConn
  <2>4. TypeOK'
    BY <1>1, <1>5, <2>1, <2>3 DEF IInv, TypeOK, readVars
  <2>5. NoneDone' /\ ListOK'
    <3> SUFFICES ASSUME NEW c \in Conns, NEW v \in waiters'[c]
                 PROVE  /\ fetch'[v] \in {"waiting", "timedout", "retry"}
                        /\ fetch'[v] = "waiting" => cur'[v] = c
      BY DEF NoneDone, ListOK
    <3>1. v \in waiters[c] /\ v \in Sockets \ {w}
      BY <2>3
    <3> QED
      BY <1>1, <2>2, <3>1 DEF IInv, NoneDone, ListOK
  <2>6. FetchOK'
    <3> SUFFICES ASSUME NEW v \in Sockets
                 PROVE  /\ cur'[v] = NoConn => fetch'[v] \in {"none", "ended"}
                        /\ fetch'[v] = "cancelled" => phase'[v] = "closed"
      BY DEF FetchOK
    <3>1. CASE v = w
      BY <1>1, <1>2, <1>5, <3>1 DEF OnList
    <3>2. CASE v # w
      BY <1>1, <1>2, <2>2, <3>2 DEF IInv, FetchOK
    <3> QED
      BY <3>1, <3>2
  <2>7. TurnsOK'
    BY <1>1, <1>2, <2>1, <2>2 DEF IInv, TurnsOK, Ahead, readVars
  <2> QED
    BY <1>3, <2>1, <2>4, <2>5, <2>6, <2>7 DEF IInv
<1>6. ASSUME waiters' = TakeOff(w), UNCHANGED <<fetch, ready>>
      PROVE  waiters' \in [Conns -> SUBSET Sockets]
             /\ \A c \in Conns : waiters'[c] \subseteq waiters[c]
  BY <1>6 DEF IInv, TypeOK, TakeOff
<1>7. ASSUME UNCHANGED <<waiters, fetch, ready>>
      PROVE  waiters' \in [Conns -> SUBSET Sockets]
             /\ \A c \in Conns : waiters'[c] \subseteq waiters[c]
  BY <1>7 DEF IInv, TypeOK
<1> QED
  BY <1>4, <1>5, <1>6, <1>7 DEF Close


-----------------------------------------------------------------------------
(* fetch_event.                                                            *)

\* A fetch_event that ran leaves the queue, or is queued again behind the rest.
LEMMA Ran ==
    ASSUME IInv, NEW w \in Sockets, Running(w), NEW s,
           fetch' = [fetch EXCEPT ![w] = s], UNCHANGED reader,
           \/ s \notin Scheduled /\ ready' = Tail(ready)
           \/ s \in Scheduled /\ ready' = Append(Tail(ready), w)
    PROVE  /\ ready' \in Seq(Conns \cup Sockets) /\ QueueOK'
           /\ \A x, y : x # w /\ Before(ready, x, y) => Before(ready', x, y)
<1>1. /\ ready \in Seq(Entries) /\ Once(ready) /\ w \in Entries /\ ready # <<>> /\ w = Head(ready)
      /\ fetch \in [Sockets -> {"none", "start", "waiting", "timedout", "got",
                              "cancelled", "moment", "retry", "ended"}]
  BY DEF IInv, TypeOK, QueueOK, Entries, Running
<1> DEFINE t == Tail(ready)
<1>2. /\ t \in Seq(Entries) /\ Once(t) /\ \A x : Has(t, x) <=> Has(ready, x) /\ x # w
      /\ \A x, y : Before(ready, x, y) => Before(t, x, y)
  BY <1>1, TailQueue
<1>3. /\ Append(t, w) \in Seq(Entries) /\ Once(Append(t, w))
      /\ \A x : Has(Append(t, w), x) <=> Has(t, x) \/ x = w
      /\ \A x, y : x # w /\ Before(t, x, y) => Before(Append(t, w), x, y)
  <2>1. ~Has(t, w)
    BY <1>2
  <2> HIDE DEF t
  <2> QED
    BY <1>1, <1>2, <2>1, LongerQueue
<1> HIDE DEF t
<1>4. /\ ready' \in Seq(Entries) /\ Once(ready')
      /\ \A x : Has(ready', x) <=> IF x = w THEN s \in Scheduled ELSE Has(ready, x)
      /\ \A x, y : x # w /\ Before(ready, x, y) => Before(ready', x, y)
  BY <1>2, <1>3 DEF t
<1>5. ASSUME NEW c \in Conns PROVE Has(ready', c) <=> reader'[c] \in {"got", "moment"}
  BY <1>4, Apart DEF IInv, QueueOK
<1>6. ASSUME NEW v \in Sockets PROVE Has(ready', v) <=> fetch'[v] \in Scheduled
  <2>1. CASE v = w
    BY <1>1, <1>4, <2>1
  <2>2. CASE v # w
    BY <1>1, <1>4, <2>2 DEF IInv, QueueOK
  <2> QED
    BY <2>1, <2>2
<1> QED
  BY <1>4, <1>5, <1>6 DEF QueueOK, Entries

\* What the other parts of the invariant need of a step of fetch_event.
LEMMA StepLoop ==
    ASSUME IInv, NEW w \in Sockets, Running(w), fetch[w] \in {"start", "moment", "retry"},
           Loop(w), ready' = Tail(ready),
           UNCHANGED <<phase, connected, cur, pool, readVars>>
    PROVE  IInv'
<1> DEFINE s == IF connected[w] THEN "waiting" ELSE "ended"
<1>1. /\ fetch' = [fetch EXCEPT ![w] = s] /\ s \notin Scheduled /\ s \in {"waiting", "ended"}
      /\ waiters' \in [Conns -> SUBSET Sockets]
      /\ \A c \in Conns : waiters'[c] \subseteq waiters[c] \cup {w}
      /\ \A c \in Conns : w \in waiters'[c] => s = "waiting" /\ cur[w] = c
  <2>1. cur[w] \in Conns
    BY DEF IInv, TypeOK, FetchOK
  <2>2. CASE /\ connected[w] /\ waiters' = [Without(w) EXCEPT ![cur[w]] = @ \cup {w}]
             /\ fetch' = [fetch EXCEPT ![w] = "waiting"]
    BY <2>1, <2>2 DEF IInv, TypeOK, Without, Scheduled
  <2>3. CASE /\ ~connected[w] /\ waiters' = Without(w)
             /\ fetch' = [fetch EXCEPT ![w] = "ended"]
    BY <2>3 DEF IInv, TypeOK, Without, Scheduled
  <2> QED
    BY <2>2, <2>3 DEF Loop
<1> HIDE DEF s
<1>2. ready' \in Seq(Conns \cup Sockets) /\ QueueOK'
      /\ \A x, y : x # w /\ Before(ready, x, y) => Before(ready', x, y)
  BY <1>1, Ran DEF readVars
<1>3. fetch'[w] = s /\ \A v \in Sockets \ {w} : fetch'[v] = fetch[v]
  BY <1>1 DEF IInv, TypeOK
<1>4. TypeOK'
  BY <1>1, <1>2 DEF IInv, TypeOK, readVars
<1>5. BlockOK'
  BY DEF IInv, BlockOK, readVars
<1>6. NoneDone' /\ ListOK'
  <2> SUFFICES ASSUME NEW c \in Conns, NEW v \in waiters'[c]
               PROVE  /\ fetch'[v] \in {"waiting", "timedout", "retry"}
                      /\ fetch'[v] = "waiting" => cur'[v] = c
    BY DEF NoneDone, ListOK
  <2>1. CASE v = w
    BY <1>1, <1>3, <2>1
  <2>2. CASE v # w
    <3>1. v \in waiters[c] /\ v \in Sockets
      BY <1>1, <2>2
    <3> QED
      BY <1>3, <2>2, <3>1 DEF IInv, NoneDone, ListOK
  <2> QED
    BY <2>1, <2>2
<1>7. FetchOK'
  BY <1>1, <1>3 DEF IInv, FetchOK
<1>8. TurnsOK'
  BY <1>1, <1>2, <1>3 DEF IInv, TurnsOK, Ahead, readVars
<1> QED
  BY <1>2, <1>4, <1>5, <1>6, <1>7, <1>8 DEF IInv

\* With an event, or cancelled: fetch_event yields gen.moment, or its message
\* to a closing websocket raises and ends it.
LEMMA StepTold ==
    ASSUME IInv, NEW w \in Sockets, Running(w), NEW s \in {"moment", "ended"},
           fetch[w] \in {"got", "cancelled"}, fetch' = [fetch EXCEPT ![w] = s],
           ready' = IF s = "moment" THEN Append(Tail(ready), w) ELSE Tail(ready),
           UNCHANGED <<waiters, phase, connected, cur, pool, readVars>>
    PROVE  IInv'
<1>1. ready' \in Seq(Conns \cup Sockets) /\ QueueOK'
      /\ \A x, y : x # w /\ Before(ready, x, y) => Before(ready', x, y)
  <2>1. \/ s \notin Scheduled /\ ready' = Tail(ready)
        \/ s \in Scheduled /\ ready' = Append(Tail(ready), w)
    BY DEF Scheduled
  <2> QED
    BY <2>1, Ran DEF readVars
<1>2. fetch'[w] = s /\ \A v \in Sockets \ {w} : fetch'[v] = fetch[v]
  BY DEF IInv, TypeOK
<1>3. TypeOK'
  BY <1>1 DEF IInv, TypeOK, readVars
<1>4. BlockOK'
  BY DEF IInv, BlockOK, readVars
<1>5. NoneDone' /\ ListOK'
  <2> SUFFICES ASSUME NEW c \in Conns, NEW v \in waiters'[c]
               PROVE  /\ fetch'[v] \in {"waiting", "timedout", "retry"}
                      /\ fetch'[v] = "waiting" => cur'[v] = c
    BY DEF NoneDone, ListOK
  <2>1. v \in waiters[c] /\ v \in Sockets
    BY DEF IInv, TypeOK
  <2>2. v # w
    BY <2>1 DEF IInv, NoneDone
  <2> QED
    BY <1>2, <2>1, <2>2 DEF IInv, NoneDone, ListOK
<1>6. FetchOK'
  <2>1. cur[w] # NoConn
    BY DEF IInv, FetchOK
  <2> QED
    BY <1>2, <2>1 DEF IInv, FetchOK
<1>7. TurnsOK'
  <2> SUFFICES ASSUME NEW v \in Sockets, NEW c \in Conns, phase[v] = "open", cur[v] = c
               PROVE  Ahead(v, c)'
    BY DEF TurnsOK
  <2>1. Ahead(v, c)
    BY DEF IInv, TurnsOK
  <2>2. CASE v = w
    <3>1. fetch[w] = "got"
      BY <2>2 DEF IInv, FetchOK
    <3> QED
      BY <1>2, <2>1, <2>2, <3>1 DEF Ahead, readVars
  <2>3. CASE v # w
    BY <1>1, <1>2, <2>1, <2>3 DEF Ahead, readVars
  <2> QED
    BY <2>2, <2>3
<1> QED
  BY <1>1, <1>3, <1>4, <1>5, <1>6, <1>7 DEF IInv

\* The wait timed out.
LEMMA StepTimedOut ==
    ASSUME IInv, NEW w \in Sockets, Running(w), fetch[w] = "timedout", TimedOut(w),
           UNCHANGED <<pool, readVars>>
    PROVE  IInv'
<1>1. /\ cur' = [cur EXCEPT ![w] = pool] /\ pool \in Conns \cup {NoConn}
      /\ \A v \in Sockets \ {w} : cur'[v] = cur[v]
      /\ cur'[w] = pool
  BY DEF IInv, TypeOK, TimedOut, PoolConn
<1>2. BlockOK'
  BY DEF IInv, BlockOK, readVars
<1>3. CASE /\ pool # NoConn /\ fetch' = [fetch EXCEPT ![w] = "retry"]
           /\ ready' = Append(Tail(ready), w) /\ UNCHANGED <<waiters, phase, connected>>
  <2>1. ready' \in Seq(Conns \cup Sockets) /\ QueueOK'
        /\ \A x, y : x # w /\ Before(ready, x, y) => Before(ready', x, y)
    <3>1. "retry" \in Scheduled
      BY DEF Scheduled
    <3> QED
      BY <1>3, <3>1, Ran DEF readVars
  <2>2. fetch'[w] = "retry" /\ \A v \in Sockets \ {w} : fetch'[v] = fetch[v]
    BY <1>3 DEF IInv, TypeOK
  <2>3. TypeOK'
    BY <1>1, <1>3, <2>1 DEF IInv, TypeOK, readVars
  <2>4. NoneDone' /\ ListOK'
    <3> SUFFICES ASSUME NEW c \in Conns, NEW v \in waiters'[c]
                 PROVE  /\ fetch'[v] \in {"waiting", "timedout", "retry"}
                        /\ fetch'[v] = "waiting" => cur'[v] = c
      BY DEF NoneDone, ListOK
    <3>1. v \in waiters[c] /\ v \in Sockets
      BY <1>3 DEF IInv, TypeOK
    <3> QED
      BY <1>1, <2>2, <3>1 DEF IInv, NoneDone, ListOK
  <2>5. FetchOK'
    BY <1>1, <1>3, <2>2 DEF IInv, FetchOK
  <2>6. TurnsOK'
    BY <1>1, <1>3, <2>1, <2>2 DEF IInv, TurnsOK, Ahead, readVars
  <2> QED
    BY <1>2, <2>1, <2>3, <2>4, <2>5, <2>6 DEF IInv
<1>4. CASE /\ pool = NoConn /\ fetch' = [fetch EXCEPT ![w] = "ended"] /\ waiters' = Without(w)
           /\ phase' = [phase EXCEPT ![w] = IF @ = "open" THEN "closing" ELSE @]
           /\ connected' = [connected EXCEPT ![w] = FALSE] /\ ready' = Tail(ready)
  <2>1. ready' \in Seq(Conns \cup Sockets) /\ QueueOK'
        /\ \A x, y : x # w /\ Before(ready, x, y) => Before(ready', x, y)
    <3>1. "ended" \notin Scheduled
      BY DEF Scheduled
    <3> QED
      BY <1>4, <3>1, Ran DEF readVars
  <2>2. /\ fetch'[w] = "ended"
        /\ \A v \in Sockets \ {w} : fetch'[v] = fetch[v] /\ phase'[v] = phase[v]
        /\ waiters' \in [Conns -> SUBSET Sockets]
        /\ \A c \in Conns : waiters'[c] \subseteq waiters[c] \ {w}
    BY <1>4 DEF IInv, TypeOK, Without
  <2>3. TypeOK'
    BY <1>1, <1>4, <2>1, <2>2 DEF IInv, TypeOK, readVars
  <2>4. NoneDone' /\ ListOK'
    <3> SUFFICES ASSUME NEW c \in Conns, NEW v \in waiters'[c]
                 PROVE  /\ fetch'[v] \in {"waiting", "timedout", "retry"}
                        /\ fetch'[v] = "waiting" => cur'[v] = c
      BY DEF NoneDone, ListOK
    <3>1. v \in waiters[c] /\ v \in Sockets \ {w}
      BY <2>2 DEF IInv, TypeOK
    <3> QED
      BY <1>1, <2>2, <3>1 DEF IInv, NoneDone, ListOK
  <2>5. FetchOK'
    BY <1>1, <2>2 DEF IInv, FetchOK
  <2>6. TurnsOK'
    BY <1>1, <2>1, <2>2 DEF IInv, TurnsOK, Ahead, readVars
  <2> QED
    BY <1>2, <2>1, <2>3, <2>4, <2>5, <2>6 DEF IInv
<1> QED
  BY <1>3, <1>4 DEF TimedOut, PoolConn

LEMMA StepFetchEvent ==
    ASSUME IInv, NEW w \in Sockets, FetchEvent(w) PROVE IInv'
<1>1. Running(w) /\ UNCHANGED <<pool, readVars>>
  BY DEF FetchEvent
<1>2. CASE /\ fetch[w] \in {"start", "moment", "retry"} /\ Loop(w) /\ ready' = Tail(ready)
           /\ UNCHANGED <<phase, connected, cur>>
  BY <1>1, <1>2, StepLoop
<1>3. CASE /\ fetch[w] \in {"got", "cancelled"} /\ fetch' = [fetch EXCEPT ![w] = "moment"]
           /\ ready' = Append(Tail(ready), w) /\ UNCHANGED <<waiters, phase, connected, cur>>
  BY <1>1, <1>3, StepTold
<1>4. CASE /\ fetch[w] \in {"got", "cancelled"} /\ fetch' = [fetch EXCEPT ![w] = "ended"]
           /\ ready' = Tail(ready) /\ UNCHANGED <<waiters, phase, connected, cur>>
  BY <1>1, <1>4, StepTold
<1>5. CASE fetch[w] = "timedout" /\ TimedOut(w)
  BY <1>1, <1>5, StepTimedOut
<1> QED
  BY <1>2, <1>3, <1>4, <1>5 DEF FetchEvent


-----------------------------------------------------------------------------
(* The readers.                                                            *)

\* The queue without the reader that runs.
LEMMA ReaderRuns ==
    ASSUME IInv, NEW c \in Conns, Running(c)
    PROVE  /\ Tail(ready) \in Seq(Entries) /\ Once(Tail(ready)) /\ ~Has(Tail(ready), c)
           /\ \A x : x # c => (Has(Tail(ready), x) <=> Has(ready, x))
           /\ \A x, y : Before(ready, x, y) => Before(Tail(ready), x, y)
           /\ \A w \in Sockets : fetch[w] \in Scheduled => ~Before(ready, w, c)
           /\ \A w \in Sockets : w # c
           /\ reader[c] \in {"got", "moment"} /\ c \in Entries
<1>1. ready \in Seq(Entries) /\ Once(ready) /\ ready # <<>> /\ c = Head(ready)
  BY DEF IInv, TypeOK, QueueOK, Entries, Running
<1>2. /\ Tail(ready) \in Seq(Entries) /\ Once(Tail(ready))
      /\ \A x : Has(Tail(ready), x) <=> Has(ready, x) /\ x # c
      /\ \A x, y : Before(ready, x, y) => Before(Tail(ready), x, y)
      /\ Has(ready, c) /\ \A x : Before(ready, x, c) => ~Has(ready, x)
  BY <1>1, TailQueue
<1> QED
  BY <1>2, Apart DEF IInv, QueueOK, Entries

\* Nothing is buffered, or the connection is gone.
LEMMA StepReaderStops ==
    ASSUME IInv, NEW c \in Conns, Running(c), NEW s \in {"reading", "dead"},
           reader' = [reader EXCEPT ![c] = s], ready' = Tail(ready),
           UNCHANGED <<pool, waiters, seen, inbuf, sent, sockVars>>
    PROVE  IInv'
<1>1. reader'[c] = s /\ \A x \in Conns \ {c} : reader'[x] = reader[x]
  BY DEF IInv, TypeOK
<1>2. TypeOK'
  BY ReaderRuns DEF IInv, TypeOK, sockVars, Entries
<1>3. NoneDone' /\ ListOK' /\ FetchOK'
  BY DEF IInv, NoneDone, ListOK, FetchOK, sockVars
<1>4. BlockOK'
  BY <1>1 DEF IInv, BlockOK
<1>5. QueueOK'
  <2>1. ASSUME NEW x \in Conns PROVE Has(ready', x) <=> reader'[x] \in {"got", "moment"}
    BY <1>1, ReaderRuns DEF IInv, QueueOK
  <2>2. ASSUME NEW w \in Sockets PROVE Has(ready', w) <=> fetch'[w] \in Scheduled
    BY ReaderRuns DEF IInv, QueueOK, sockVars
  <2> QED
    BY <2>1, <2>2, ReaderRuns DEF QueueOK
<1>6. TurnsOK'
  BY ReaderRuns DEF IInv, TurnsOK, Ahead, sockVars
<1> QED
  BY <1>2, <1>3, <1>4, <1>5, <1>6 DEF IInv

\* What every block does to the reader that takes it.
LEMMA Takes ==
    ASSUME IInv, NEW c \in Conns, reader[c] = "got" \/ inbuf[c] > 0,
           inbuf' = [inbuf EXCEPT ![c] = @ - 1], reader' = [reader EXCEPT ![c] = "moment"],
           UNCHANGED sent
    PROVE  /\ inbuf' \in [Conns -> Nat] /\ \A x \in Conns : inbuf'[x] <= sent'[x]
           /\ reader' \in [Conns -> {"new", "reading", "got", "moment", "dead"}]
           /\ reader'[c] = "moment" /\ \A x \in Conns \ {c} : reader'[x] = reader[x]
           /\ BlockOK'
<1>1. /\ inbuf[c] > 0 /\ inbuf \in [Conns -> Nat] /\ sent \in [Conns -> Nat]
      /\ \A x \in Conns : inbuf[x] <= sent[x]
      /\ reader \in [Conns -> {"new", "reading", "got", "moment", "dead"}]
  BY DEF IInv, TypeOK, BlockOK
<1>2. /\ inbuf' \in [Conns -> Nat] /\ inbuf'[c] = inbuf[c] - 1
      /\ \A x \in Conns \ {c} : inbuf'[x] = inbuf[x]
  BY <1>1
<1>3. /\ reader' \in [Conns -> {"new", "reading", "got", "moment", "dead"}]
      /\ reader'[c] = "moment" /\ \A x \in Conns \ {c} : reader'[x] = reader[x]
  BY <1>1
<1>4. \A x \in Conns : inbuf'[x] <= sent'[x]
  BY <1>1, <1>2
<1>5. BlockOK'
  BY <1>2, <1>3 DEF IInv, BlockOK
<1> QED
  BY <1>2, <1>3, <1>4, <1>5

\* A block that does not complete the event: the reader is queued behind every
\* websocket that has been given the event before.
LEMMA StepTakesMore ==
    ASSUME IInv, NEW c \in Conns, Running(c), reader[c] = "got" \/ inbuf[c] > 0, ~EventEnds(c),
           inbuf' = [inbuf EXCEPT ![c] = @ - 1], reader' = [reader EXCEPT ![c] = "moment"],
           seen' = [seen EXCEPT ![c] = @ + 1], ready' = Append(Tail(ready), c),
           UNCHANGED <<waiters, fetch, pool, sent, phase, connected, cur>>
    PROVE  IInv'
<1>1. /\ ready' \in Seq(Entries) /\ Once(ready')
      /\ \A x : Has(ready', x) <=> Has(Tail(ready), x) \/ x = c
      /\ \A x, y : x # c /\ Before(Tail(ready), x, y) => Before(ready', x, y)
      /\ \A x : x # c => Before(ready', x, c)
  <2> DEFINE t == Tail(ready)
  <2>1. t \in Seq(Entries) /\ Once(t) /\ ~Has(t, c) /\ c \in Entries
    BY ReaderRuns
  <2> HIDE DEF t
  <2>2. /\ Append(t, c) \in Seq(Entries) /\ Once(Append(t, c))
        /\ \A x : Has(Append(t, c), x) <=> Has(t, x) \/ x = c
        /\ \A x, y : x # c /\ Before(t, x, y) => Before(Append(t, c), x, y)
        /\ \A x : x # c => Before(Append(t, c), x, c)
    BY <2>1, LongerQueue
  <2> QED
    BY <2>2 DEF t
<1>2. /\ seen[c] = 0 /\ seen'[c] = 1 /\ seen' \in [Conns -> 0..(BLOCKS - 1)]
      /\ \A x \in Conns \ {c} : seen'[x] = seen[x]
  <2>1. seen \in [Conns -> 0..1]
    BY DEF IInv, TypeOK, BLOCKS
  <2>2. seen[c] = 0
    BY <2>1 DEF EventEnds, BLOCKS
  <2> QED
    BY <2>1, <2>2 DEF BLOCKS
<1>3. TypeOK'
  BY <1>1, <1>2, Takes DEF IInv, TypeOK, Entries
<1>4. NoneDone' /\ ListOK' /\ FetchOK' /\ BlockOK'
  BY Takes DEF IInv, NoneDone, ListOK, FetchOK
<1>5. QueueOK'
  <2>1. ASSUME NEW x \in Conns PROVE Has(ready', x) <=> reader'[x] \in {"got", "moment"}
    BY <1>1, Takes, ReaderRuns DEF IInv, QueueOK
  <2>2. ASSUME NEW w \in Sockets PROVE Has(ready', w) <=> fetch'[w] \in Scheduled
    BY <1>1, ReaderRuns DEF IInv, QueueOK
  <2> QED
    BY <1>1, <2>1, <2>2 DEF QueueOK
<1>6. TurnsOK'
  <2> SUFFICES ASSUME NEW w \in Sockets, NEW d \in Conns, phase[w] = "open", cur[w] = d
               PROVE  Ahead(w, d)'
    BY DEF TurnsOK
  <2>1. Ahead(w, d) /\ w # c
    BY ReaderRuns DEF IInv, TurnsOK
  <2>2. CASE d = c
    <3>1. fetch[w] # "got"
      BY <2>1, <2>2, ReaderRuns DEF Ahead, Scheduled
    <3> QED
      BY <1>1, <2>1, <2>2, <3>1 DEF Ahead
  <2>3. CASE d # c
    BY <1>1, <1>2, <2>1, <2>3, ReaderRuns DEF Ahead
  <2> QED
    BY <2>2, <2>3
<1> QED
  BY <1>3, <1>4, <1>5, <1>6 DEF IInv

\* A block that completes an event wakes the websockets on the list, ahead of
\* the reader.
LEMMA StepTakesEvent ==
    ASSUME IInv, NEW c \in Conns, Running(c), reader[c] = "got" \/ inbuf[c] > 0, EventEnds(c),
           inbuf' = [inbuf EXCEPT ![c] = @ - 1], reader' = [reader EXCEPT ![c] = "moment"],
           seen' = [seen EXCEPT ![c] = 0], waiters' = [waiters EXCEPT ![c] = {}],
           fetch' = [w \in Sockets |-> IF w \in Woken(c) THEN "got" ELSE fetch[w]],
           NEW order \in Orders(Woken(c)), ready' = Tail(ready) \o order \o <<c>>,
           UNCHANGED <<pool, sent, phase, connected, cur>>
    PROVE  IInv'
<1> DEFINE S == Woken(c)
<1>1. S \in SUBSET Sockets /\ \A w \in S : w \in waiters[c] /\ fetch[w] = "waiting" /\ cur[w] = c
  BY DEF IInv, TypeOK, ListOK, Woken
<1>2. /\ \A w \in Sockets : fetch'[w] = IF w \in S THEN "got" ELSE fetch[w]
      /\ fetch' \in [Sockets -> {"none", "start", "waiting", "timedout", "got",
                              "cancelled", "moment", "retry", "ended"}]
  BY DEF IInv, TypeOK
<1>3. \A w \in S : ~Has(ready, w)
  BY <1>1 DEF IInv, QueueOK, Scheduled
<1>4. /\ ready' \in Seq(Entries) /\ Once(ready')
      /\ \A x : Has(ready', x) <=> Has(Tail(ready), x) \/ x \in S \/ x = c
      /\ \A x, y : x # c /\ x \notin S /\ Before(Tail(ready), x, y) => Before(ready', x, y)
      /\ \A x : x # c => Before(ready', x, c)
  <2> HIDE DEF S
  <2> DEFINE t == Tail(ready)
             r == t \o order
  <2>1. t \in Seq(Entries) /\ Once(t) /\ ~Has(t, c) /\ c \in Entries /\ c \notin S
        /\ \A w \in S : ~Has(t, w)
    BY <1>1, <1>3, ReaderRuns
  <2>2. order \in Orders(S) /\ IsFiniteSet(S)
    BY <1>1, Apart, FS_Subset DEF S
  <2> HIDE DEF t
  <2>3. /\ r \in Seq(Entries) /\ Once(r) /\ \A x : Has(r, x) <=> Has(t, x) \/ x \in S
        /\ \A x, y : x \notin S /\ Before(t, x, y) => Before(r, x, y)
    BY <1>1, <2>1, <2>2, WokenQueue
  <2> HIDE DEF r
  <2>4. ~Has(r, c)
    BY <2>1, <2>3
  <2>5. /\ Append(r, c) \in Seq(Entries) /\ Once(Append(r, c))
        /\ \A x : Has(Append(r, c), x) <=> Has(r, x) \/ x = c
        /\ \A x, y : x # c /\ Before(r, x, y) => Before(Append(r, c), x, y)
        /\ \A x : x # c => Before(Append(r, c), x, c)
    BY <2>1, <2>3, <2>4, LongerQueue
  <2>6. ready' = Append(r, c)
    <3>1. ready' = r \o <<c>>
      BY DEF r, t
    <3>2. r \o <<c>> = Append(r, c)
      BY <2>1, <2>3, AppendIsConcat
    <3> QED
      BY <3>1, <3>2
  <2> QED
    BY <2>3, <2>5, <2>6 DEF t
<1> HIDE DEF S
<1>5. /\ seen[c] = 1 /\ seen'[c] = 0 /\ seen' \in [Conns -> 0..(BLOCKS - 1)]
      /\ \A x \in Conns \ {c} : seen'[x] = seen[x]
  BY DEF IInv, TypeOK, EventEnds, BLOCKS
<1>6. /\ waiters' \in [Conns -> SUBSET Sockets] /\ waiters'[c] = {}
      /\ \A x \in Conns \ {c} : waiters'[x] = waiters[x]
  BY DEF IInv, TypeOK
<1>7. TypeOK'
  BY <1>2, <1>4, <1>5, <1>6, Takes DEF IInv, TypeOK, Entries
<1>8. NoneDone' /\ ListOK'
  <2> SUFFICES ASSUME NEW d \in Conns, NEW v \in waiters'[d]
               PROVE  /\ fetch'[v] \in {"waiting", "timedout", "retry"}
                      /\ fetch'[v] = "waiting" => cur'[v] = d
    BY DEF NoneDone, ListOK
  <2>1. d # c /\ v \in waiters[d] /\ v \in Sockets
    BY <1>6 DEF IInv, TypeOK
  <2>2. v \notin S
    BY <1>1, <2>1 DEF IInv, ListOK
  <2> QED
    BY <1>2, <2>1, <2>2 DEF IInv, NoneDone, ListOK
<1>9. FetchOK' /\ BlockOK'
  <2>1. FetchOK'
    BY <1>1, <1>2, Apart DEF IInv, FetchOK
  <2> QED
    BY <2>1, Takes
<1>10. QueueOK'
  <2>1. ASSUME NEW x \in Conns PROVE Has(ready', x) <=> reader'[x] \in {"got", "moment"}
    <3>1. x \notin S
      BY <1>1, Apart
    <3> QED
      BY <1>4, <3>1, Takes, ReaderRuns DEF IInv, QueueOK
  <2>2. ASSUME NEW w \in Sockets PROVE Has(ready', w) <=> fetch'[w] \in Scheduled
    <3>1. "got" \in Scheduled
      BY DEF Scheduled
    <3> QED
      BY <1>2, <1>4, <3>1, ReaderRuns DEF IInv, QueueOK
  <2> QED
    BY <1>4, <2>1, <2>2 DEF QueueOK
<1>11. TurnsOK'
  <2> SUFFICES ASSUME NEW w \in Sockets, NEW d \in Conns, phase[w] = "open", cur[w] = d
               PROVE  Ahead(w, d)'
    BY DEF TurnsOK
  <2>1. Ahead(w, d) /\ w # c
    BY ReaderRuns DEF IInv, TurnsOK
  <2>2. CASE d = c
    BY <1>4, <1>5, <2>1, <2>2 DEF Ahead
  <2>3. CASE d # c
    <3>1. w \notin S
      BY <1>1, <2>3
    <3> QED
      BY <1>2, <1>4, <1>5, <2>1, <2>3, <3>1, ReaderRuns DEF Ahead
  <2> QED
    BY <2>2, <2>3
<1> QED
  BY <1>7, <1>8, <1>9, <1>10, <1>11 DEF IInv

LEMMA StepRunReader ==
    ASSUME IInv, NEW c \in Conns, RunReader(c) PROVE IInv'
<1>1. CASE /\ reader[c] = "got" \/ inbuf[c] > 0
           /\ TakeBlock(c, Tail(ready))
  <2>1. CASE EventEnds(c)
    <3>1. PICK order \in Orders(Woken(c)) : ready' = Tail(ready) \o order \o <<c>>
      BY <1>1, <2>1 DEF TakeBlock
    <3> QED
      BY <1>1, <2>1, <3>1, StepTakesEvent DEF TakeBlock, RunReader
  <2>2. CASE ~EventEnds(c)
    BY <1>1, <2>2, StepTakesMore DEF TakeBlock, RunReader
  <2> QED
    BY <2>1, <2>2
<1>2. ASSUME NEW s \in {"reading", "dead"}, reader' = [reader EXCEPT ![c] = s],
             ready' = Tail(ready), UNCHANGED <<pool, waiters, seen, inbuf, sent, sockVars>>
      PROVE  IInv'
  BY <1>2, StepReaderStops DEF RunReader
<1> QED
  BY <1>1, <1>2 DEF RunReader

-----------------------------------------------------------------------------
(* The theorems.                                                           *)

LEMMA StepOK == IInv /\ [Next]_vars => IInv'
<1> SUFFICES ASSUME IInv, [Next]_vars PROVE IInv'
  OBVIOUS
<1>1. CASE UNCHANGED vars
  BY <1>1 DEF vars, readVars, sockVars, IInv, TypeOK, NoneDone, QueueOK, ListOK, BlockOK,
         FetchOK, TurnsOK, Ahead
<1>2. CASE RunCallback
  BY <1>2, StepRunReader, StepFetchEvent DEF RunCallback
<1>3. CASE \E c \in Conns : Connect(c)
  BY <1>3, StepConnect
<1>4. CASE ConnBreaks \/ NodeSends
  BY <1>4, StepConnBreaks, StepNodeSends
<1>5. CASE \E w \in Sockets : NoKey(w) \/ Key(w) \/ WaitTimeout(w) \/ Close(w)
  BY <1>5, StepNoKey, StepKey, StepWaitTimeout, StepClose
<1> QED
  BY <1>1, <1>2, <1>3, <1>4, <1>5 DEF Next

\* The inductive invariant.
THEOREM Invariant == Spec => []IInv
BY InitOK, StepOK, PTL DEF Spec

\* The reader never meets a future that is done, which would raise in its loop
\* (server.py:311), however many websockets watch and however they come and go.
THEOREM NoDoneFuture == Spec => []WaitersInv
<1>1. IInv => WaitersInv
  BY DEF IInv, WaitersInv
<1> QED
  BY <1>1, Invariant, PTL

\* A websocket that was given an event waits again when the next one of the
\* same connection is complete (handlers.py:970-991 against server.py:224-332).
THEOREM EventsMeetWaiters == Spec => WaitsAgain
<1> DEFINE P(c, w) == Handles(c) /\ cur[w] = c /\ phase[w] = "open" => fetch[w] \notin {"got", "moment"}
<1>1. ASSUME IInv, [Next]_vars, NEW c \in Conns, NEW w \in Sockets PROVE P(c, w)
  <2> SUFFICES ASSUME Handles(c), cur[w] = c, phase[w] = "open"
               PROVE  fetch[w] \notin {"got", "moment"}
    OBVIOUS
  <2>1. Running(c)
    <3>1. inbuf'[c] < inbuf[c] /\ inbuf \in [Conns -> Nat]
      BY <1>1 DEF IInv, TypeOK, Handles
    <3>2. inbuf' # inbuf
      BY <3>1
    <3>3. CASE NodeSends
      <4>1. inbuf[c] \in Nat /\ inbuf'[c] \in {inbuf[c], inbuf[c] + 1}
        BY <1>1, <3>1, <3>3 DEF NodeSends
      <4> QED
        BY <3>1, <4>1
    <3>4. CASE \E d \in Conns : RunReader(d)
      <4>1. PICK d \in Conns : RunReader(d)
        BY <3>4
      <4>2. d = c
        <5>1. inbuf' = [inbuf EXCEPT ![d] = @ - 1]
          BY <3>2, <4>1 DEF RunReader, TakeBlock
        <5> QED
          BY <3>1, <5>1
      <4> QED
        BY <4>1, <4>2 DEF RunReader
    <3> QED
      BY <1>1, <3>2, <3>3, <3>4 DEF Next, RunCallback, vars, readVars, FetchEvent, Connect, ConnBreaks,
             NoKey, Key, WaitTimeout, Close
  <2>2. Ahead(w, c) /\ seen[c] # 0
    BY <1>1 DEF IInv, TurnsOK, Handles, BLOCKS
  <2> QED
    BY <1>1, <2>1, <2>2, ReaderRuns DEF Ahead, Scheduled
<1>2. IInv /\ [Next]_vars => [\A c \in Conns, w \in Sockets : P(c, w)]_vars
  BY <1>1
<1> QED
  BY <1>2, Invariant, PTL DEF Spec, WaitsAgain
=============================================================================
