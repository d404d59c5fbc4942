----------------------------- MODULE NodeEvents ------------------------------
(***************************************************************************)
(* The events of one node on their way to the websockets that watch it     *)
(* (NodeEventHandler, handlers.py).  A websocket follows the node's        *)
(* connection: its coroutine fetch_event puts a future among the           *)
(* connection's event_waiters and waits for it, for 5 s; the reader        *)
(* coroutine of the connection resolves all of them with the next event    *)
(* (server.py:309-313).  An event nobody waits for is dropped.             *)
(*                                                                         *)
(* `ready' is the callback queue of the IOLoop, as in DeviceConnection.    *)
(* The reader takes one block of 16 bytes in each callback and then yields *)
(* gen.moment; an event, {"msg_type":"event",...} and CR LF, is longer     *)
(* than two blocks.                                                        *)
(*                                                                         *)
(* A future on a list is named by its websocket: it is the one its         *)
(* fetch_event made last.  Those made before, whose waits timed out, stay  *)
(* on the lists until the next event; resolving them has no effect, and    *)
(* they are left out.  The order of a list decides only in which order     *)
(* websockets wake; it is left open.                                       *)
(***************************************************************************)
EXTENDS Integers, Sequences, FiniteSets, Functions

CONSTANTS
    Sockets,   \* the websockets, open from the start
    NConns,    \* bound: connections of the node to the exchange server
    Senders,   \* bound: the connections over which blocks come from the node
    MaxBlocks  \* bound: blocks over each of them

ASSUME WatchAssumption ==
    /\ NConns \in Nat /\ MaxBlocks \in Nat /\ Senders \subseteq 1..NConns
    /\ IsFiniteSet(Sockets) /\ Sockets \cap (0..NConns) = {}

Conns == 1..NConns
NoConn == 0

\* At least so many blocks lie between the ends of two events.
OneBlock == 1
BLOCKS == 2

VARIABLES
    ready,     \* the IOLoop's queue: a connection stands for its reader
    pool,      \* the connection handlers find, not killed; NoConn if there is none
    reader,    \* each reader; "new" before its connection is accepted
    seen,      \* blocks of the next event the reader has taken
    inbuf,     \* blocks received and not taken
    sent,      \* blocks the node has sent
    waiters,   \* event_waiters of each connection, a set
    phase,     \* the websocket itself
    connected, \* self.connected
    cur,       \* self.cur_conn
    fetch      \* where fetch_event stands

sockVars == <<phase, connected, cur, fetch>>
readVars == <<reader, seen, inbuf, sent>>
vars == <<ready, pool, waiters, readVars, sockVars>>

Init ==
    /\ ready = <<>> /\ pool = NoConn
    /\ reader = [c \in Conns |-> "new"]
    /\ seen = [c \in Conns |-> 0]
    /\ inbuf = [c \in Conns |-> 0]
    /\ sent = [c \in Conns |-> 0]
    /\ waiters = [c \in Conns |-> {}]
    /\ phase = [w \in Sockets |-> "open"]
    /\ connected = [w \in Sockets |-> TRUE]
    /\ cur = [w \in Sockets |-> NoConn]
    /\ fetch = [w \in Sockets |-> "none"]

Running(x) == ready # <<>> /\ Head(ready) = x

-----------------------------------------------------------------------------
(* The connections and their readers.                                      *)

\* A connection of the node replaces the one before it, which is killed.
Connect(c) ==
    /\ reader[c] = "new" /\ \A x \in 1..(c - 1) : reader[x] # "new"
    /\ reader' = [x \in Conns |->
            CASE x = c                             -> "reading"
              [] x = pool /\ reader[x] = "reading" -> "dead"
              [] OTHER                             -> reader[x]]
    /\ pool' = c
    /\ UNCHANGED <<ready, waiters, seen, inbuf, sent, sockVars>>

\* The connection is killed or closed.
ConnBreaks ==
    /\ pool # NoConn
    /\ pool' = NoConn
    /\ reader' = [reader EXCEPT ![pool] = IF @ = "reading" THEN "dead" ELSE @]
    /\ UNCHANGED <<ready, waiters, seen, inbuf, sent, sockVars>>

\* A block arrives and resolves a pending read.
NodeSends ==
    /\ pool \in Senders /\ sent[pool] < MaxBlocks
    /\ sent' = [sent EXCEPT ![pool] = @ + 1]
    /\ inbuf' = [inbuf EXCEPT ![pool] = @ + 1]
    /\ \/ /\ reader[pool] = "reading"
          /\ reader' = [reader EXCEPT ![pool] = "got"]
          /\ ready' = Append(ready, pool)
       \/ reader[pool] # "reading" /\ UNCHANGED <<reader, ready>>
    /\ UNCHANGED <<pool, waiters, seen, sockVars>>

\* The websockets on the list of c whose wait has not timed out, and the orders
\* in which they may be woken.
Woken(c) == {w \in waiters[c] : fetch[w] = "waiting"}
Orders(S) == Bijection(1..Cardinality(S), S)

\* The block completes an event.
EventEnds(c) == seen[c] + 1 = BLOCKS

\* One block is taken.  An event resolves every future on the list, none of
\* which is done (NoneDone), and the list is emptied.
TakeBlock(c, rest) ==
    /\ inbuf' = [inbuf EXCEPT ![c] = @ - 1]
    /\ reader' = [reader EXCEPT ![c] = "moment"]
    /\ \/ /\ EventEnds(c)
          /\ seen' = [seen EXCEPT ![c] = 0]
          /\ waiters' = [waiters EXCEPT ![c] = {}]
          /\ fetch' = [w \in Sockets |-> IF w \in Woken(c) THEN "got" ELSE fetch[w]]
          /\ \E order \in Orders(Woken(c)) : ready' = rest \o order \o <<c>>
       \/ /\ ~EventEnds(c)
          /\ seen' = [seen EXCEPT ![c] = @ + 1]
          /\ ready' = Append(rest, c)
          /\ UNCHANGED <<waiters, fetch>>
    /\ UNCHANGED <<pool, sent, phase, connected, cur>>

\* The reader runs: with a block, or after gen.moment, when it takes what is
\* buffered, waits for the socket, or finds its connection killed or closed.
RunReader(c) ==
    /\ Running(c)
    /\ \/ reader[c] = "got" /\ TakeBlock(c, Tail(ready))
       \/ reader[c] = "moment" /\ inbuf[c] > 0 /\ TakeBlock(c, Tail(ready))
       \/ /\ reader[c] = "moment"
          /\ \/ c = pool /\ inbuf[c] = 0 /\ reader' = [reader EXCEPT ![c] = "reading"]
             \/ c # pool /\ reader' = [reader EXCEPT ![c] = "dead"]
          /\ ready' = Tail(ready)
          /\ UNCHANGED <<pool, waiters, seen, inbuf, sent, sockVars>>

-----------------------------------------------------------------------------
(* NodeEventHandler.                                                       *)

\* Nothing for five seconds, a bad key, or the node is offline: the server
\* begins the closing handshake.  The timer alone leaves self.connected set.
NoKey(w) ==
    /\ phase[w] = "open" /\ cur[w] = NoConn
    /\ phase' = [phase EXCEPT ![w] = "closing"]
    /\ \/ connected' = [connected EXCEPT ![w] = FALSE]
       \/ UNCHANGED connected
    /\ UNCHANGED <<ready, pool, waiters, readVars, cur, fetch>>

\* on_message with the key of a node that is online: also while the server is
\* closing.
Key(w) ==
    /\ phase[w] \in {"open", "closing"} /\ cur[w] = NoConn
    /\ pool # NoConn
    /\ cur' = [cur EXCEPT ![w] = pool]
    /\ fetch' = [fetch EXCEPT ![w] = "start"]
    /\ ready' = Append(ready, w)
    /\ UNCHANGED <<pool, waiters, readVars, phase, connected>>

\* The 5 s of with_timeout are over; the future stays on the list.
WaitTimeout(w) ==
    /\ fetch[w] = "waiting"
    /\ fetch' = [fetch EXCEPT ![w] = "timedout"]
    /\ ready' = Append(ready, w)
    /\ UNCHANGED <<pool, waiters, readVars, phase, connected, cur>>

\* fetch_event gives up its last future.
Without(w) == [c \in Conns |-> waiters[c] \ {w}]

\* while self.connected: a new future joins the waiters of the connection.
Loop(w) ==
    \/ /\ connected[w]
       /\ waiters' = [Without(w) EXCEPT ![cur[w]] = @ \cup {w}]
       /\ fetch' = [fetch EXCEPT ![w] = "waiting"]
    \/ /\ ~connected[w]
       /\ waiters' = Without(w)
       /\ fetch' = [fetch EXCEPT ![w] = "ended"]

\* The connection to wait on after a timeout.
SameConn(w) == cur[w]
PoolConn(w) == pool

\* The wait timed out: fetch_event goes on with the connection in the pool, or
\* tells its client that the node is offline, and ends.
TimedOut(w) ==
    /\ cur' = [cur EXCEPT ![w] = PoolConn(w)]
    /\ \/ /\ PoolConn(w) # NoConn
          /\ fetch' = [fetch EXCEPT ![w] = "retry"]
          /\ ready' = Append(Tail(ready), w)
          /\ UNCHANGED <<waiters, phase, connected>>
       \/ /\ PoolConn(w) = NoConn
          /\ fetch' = [fetch EXCEPT ![w] = "ended"]
          /\ waiters' = Without(w)
          /\ phase' = [phase EXCEPT ![w] = IF @ = "open" THEN "closing" ELSE @]
          /\ connected' = [connected EXCEPT ![w] = FALSE]
          /\ ready' = Tail(ready)

\* fetch_event runs.  With an event it calls write_message, which raises if the
\* websocket is closing, and ends the coroutine.
FetchEvent(w) ==
    /\ Running(w)
    /\ \/ /\ fetch[w] \in {"start", "moment", "retry"}
          /\ Loop(w)
          /\ ready' = Tail(ready)
          /\ UNCHANGED <<phase, connected, cur>>
       \/ /\ fetch[w] = "cancelled" \/ (fetch[w] = "got" /\ phase[w] = "open")
          /\ fetch' = [fetch EXCEPT ![w] = "moment"]
          /\ ready' = Append(Tail(ready), w)
          /\ UNCHANGED <<waiters, phase, connected, cur>>
       \/ /\ fetch[w] = "got" /\ phase[w] # "open"
          /\ fetch' = [fetch EXCEPT ![w] = "ended"]
          /\ ready' = Tail(ready)
          /\ UNCHANGED <<waiters, phase, connected, cur>>
       \/ fetch[w] = "timedout" /\ TimedOut(w)
    /\ UNCHANGED <<pool, readVars>>

\* on_close cancels the wait: the future is resolved with None and leaves the
\* list of the websocket's connection, if it is there.
LeaveListed(w) == waiters
TakeOff(w) == [waiters EXCEPT ![cur[w]] = @ \ {w}]
OnList(w) == cur[w] # NoConn /\ w \in waiters[cur[w]]

StaysConnected(w) == connected
Disconnected(w) == [connected EXCEPT ![w] = FALSE]

Close(w) ==
    /\ phase[w] \in {"open", "closing"}
    /\ phase' = [phase EXCEPT ![w] = "closed"]
    /\ connected' = Disconnected(w)
    /\ \/ /\ connected[w] /\ OnList(w)
          /\ waiters' = TakeOff(w)
          /\ \/ /\ fetch[w] = "waiting"
                /\ fetch' = [fetch EXCEPT ![w] = "cancelled"]
                /\ ready' = Append(ready, w)
             \/ fetch[w] # "waiting" /\ UNCHANGED <<fetch, ready>>
       \/ /\ ~(connected[w] /\ OnList(w))
          /\ UNCHANGED <<waiters, fetch, ready>>
    /\ UNCHANGED <<pool, readVars, cur>>

-----------------------------------------------------------------------------
\* One callback of the IOLoop.
RunCallback ==
    \/ \E c \in Conns : RunReader(c)
    \/ \E w \in Sockets : FetchEvent(w)

Next ==
    \/ RunCallback
    \/ \E c \in Conns : Connect(c)
    \/ ConnBreaks \/ NodeSends
    \/ \E w \in Sockets : NoKey(w) \/ Key(w) \/ WaitTimeout(w) \/ Close(w)

Spec == Init /\ [][Next]_vars

\* The IOLoop never stops and its timers fire.
FairSpec ==
    /\ Spec
    /\ WF_vars(RunCallback)
    /\ \A w \in Sockets : WF_vars(WaitTimeout(w))

-----------------------------------------------------------------------------
(* Correctness.                                                            *)

\* Every variable holds a value of its kind.
TypeOK ==
    /\ ready \in Seq(Conns \cup Sockets) /\ pool \in Conns \cup {NoConn}
    /\ reader \in [Conns -> {"new", "reading", "got", "moment", "dead"}]
    /\ seen \in [Conns -> 0..(BLOCKS - 1)]
    /\ sent \in [Conns -> Nat] /\ inbuf \in [Conns -> Nat]
    /\ \A c \in Conns : inbuf[c] <= sent[c] /\ sent[c] <= MaxBlocks
    /\ waiters \in [Conns -> SUBSET Sockets]
    /\ phase \in [Sockets -> {"open", "closing", "closed"}]
    /\ connected \in [Sockets -> BOOLEAN] /\ cur \in [Sockets -> Conns \cup {NoConn}]
    /\ fetch \in [Sockets -> {"none", "start", "waiting", "timedout", "got",
                              "cancelled", "moment", "retry", "ended"}]

\* No future on a list of waiters is done: a second set_result would raise in
\* the reader's loop (server.py:311), before it reaches the other websockets and
\* empties the list, for this event and for every later one.
NoneDone ==
    \A c \in Conns : \A w \in waiters[c] : fetch[w] \in {"waiting", "timedout", "retry"}

\* The lists are of their kind and hold nothing that would make the reader raise.
WaitersInv == TypeOK /\ NoneDone

\* Nothing keeps an event for a websocket that has been given the one before
\* and does not wait yet.  That is why every websocket of the connection has
\* to be waiting again when the next event is complete; it always is, because
\* an event takes the reader two callbacks.  (Events are missed only by one
\* whose wait has just timed out, or which follows a connection that is gone.)
Handles(c) == seen[c] = BLOCKS - 1 /\ inbuf'[c] < inbuf[c]

WaitsAgain ==
    [][\A c \in Conns, w \in Sockets :
         Handles(c) /\ cur[w] = c /\ phase[w] = "open" => fetch[w] \notin {"got", "moment"}]_vars

\* A websocket does not stay with a connection that was replaced or lost: it
\* moves to the node's new connection, or its client is told and it ends.
MovesOn ==
    \A w \in Sockets, c \in Conns :
        (cur[w] = c /\ c # pool /\ fetch[w] # "ended") ~> (cur[w] # c \/ fetch[w] = "ended")

\* No fetch_event outlives its websocket.
WatcherEnds ==
    \A w \in Sockets :
        (phase[w] = "closed" /\ fetch[w] # "none") ~> (fetch[w] = "ended")

\* A websocket follows its node, and its coroutine ends with it.
FollowsOrEnds == MovesOn /\ WatcherEnds
=============================================================================
