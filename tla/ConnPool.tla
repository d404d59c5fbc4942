------------------------------ MODULE ConnPool ------------------------------
(***************************************************************************)
(* The life of the node connections of one DeviceServer (server.py): the   *)
(* hello, the pool of accepted connections by serial number, the takeover  *)
(* of a serial number by a newer connection, the heartbeat timers, and the *)
(* ways a connection ends.  What travels over a served connection is in    *)
(* DeviceConnection; here a line only re-arms the timers.                  *)
(*                                                                         *)
(* `ready' is the callback queue of the IOLoop.  Each connection has one   *)
(* coroutine, start_serving with wait_hello and _loop_reading_input inside *)
(* it (entry "run"), and one close callback, on_close (entry "close").     *)
(* The heartbeat's check is a coroutine too: if its PING has to wait for   *)
(* the socket, the end of the write resumes secure_write (entries          *)
(* "written" and "unwritten") and then _online_check ("pinged" and         *)
(* "unpinged"), one callback each.                                         *)
(***************************************************************************)
EXTENDS Integers, Sequences, FiniteSets

CONSTANTS
    Conns,      \* TCP connections, each accepted once
    Sns,        \* serial numbers in the database
    Sn,         \* Sn[c]: the serial number the node behind c presents
    MaxPieces,  \* bound: pieces that come over the connections together
    MaxLines,   \* bound: lines that one piece completes
    MaxPings,   \* bound: PINGs of a connection that had to wait and are on their way
    NoConn      \* no connection: a serial number not in the pool

ASSUME PoolAssumption ==
    /\ Sn \in [Conns -> Sns]
    /\ NoConn \notin Conns
    /\ MaxPieces \in Nat /\ MaxLines \in Nat /\ MaxPings \in Nat

\* All connections are of one node: the runs' value of Sn.
OneNode == [c \in Conns |-> CHOOSE s \in Sns : TRUE]

VARIABLES
    ready,     \* the IOLoop's queue of callbacks
    stream,    \* "none" before accept, "open", "closed", "dropped" by on_close
    phase,     \* where the coroutine of each connection stands
    ident,     \* the connection has set its sn and user_id
    killed,    \* self.killed
    junk,      \* self.is_junk
    inbuf,     \* pieces received and not read
    lines,     \* complete lines the reader has put together and not handled
    pieces,    \* pieces that have come, over all connections
    unsent,    \* PINGs whose write waits for the socket
    gone,      \* the node vanished: nothing more comes, not even a FIN
    tCheck,    \* timeout_handler_onlinecheck is armed
    tOffline,  \* timeout_handler_offline is armed
    pool,      \* device_server_conn_pool
    lastSeen   \* the last online/offline event broadcast about each node

vars == <<ready, stream, phase, ident, killed, junk, inbuf, lines, pieces,
          unsent, gone, tCheck, tOffline, pool, lastSeen>>

HelloPhases   == {"hello", "hellogot", "hellotimeout", "helloerror",
                  "sorry", "sorrydone"}
ServingPhases == {"accepted", "reading", "got", "readerror", "moment",
                  "replied"}
\* What an entry of the queue runs.
Pings == {"written", "pinged", "unwritten", "unpinged"}
Kinds == {"run", "close"} \cup Pings

Phases == {"new", "ended", "crashed"} \cup HelloPhases \cup ServingPhases

Init ==
    /\ ready = <<>>
    /\ stream = [c \in Conns |-> "none"]
    /\ phase = [c \in Conns |-> "new"]
    /\ ident = [c \in Conns |-> FALSE]
    /\ killed = [c \in Conns |-> FALSE]
    /\ junk = [c \in Conns |-> FALSE]
    /\ inbuf = [c \in Conns |-> 0]
    /\ lines = [c \in Conns |-> 0]
    /\ pieces = 0
    /\ unsent = [c \in Conns |-> 0]
    /\ gone = [c \in Conns |-> FALSE]
    /\ tCheck = [c \in Conns |-> FALSE]
    /\ tOffline = [c \in Conns |-> FALSE]
    /\ pool = [s \in Sns |-> NoConn]
    /\ lastSeen = [s \in Sns |-> "never"]

-----------------------------------------------------------------------------
(* Closing a connection.                                                   *)

Running(c, what) == ready # <<>> /\ Head(ready) = <<c, what>>

\* The callbacks IOStream.close queues on an open stream: the coroutine, whose
\* pending read fails, the pending writes, which fail too, and then on_close.
Wakes(c, ph) ==
    (IF ph[c] \in {"hello", "reading"} THEN <<<<c, "run">>>> ELSE <<>>)
        \o [i \in 1..unsent[c] |-> <<c, "unwritten">>] \o <<<<c, "close">>>>

FailRead(c, ph) ==
    [ph EXCEPT ![c] = CASE @ = "hello"   -> "helloerror"
                        [] @ = "reading" -> "readerror"
                        [] OTHER         -> @]

\* IOStream.close; ph is phase, and rest the callback queue, as the caller
\* leaves them.
CloseStream(c, ph, rest) ==
    IF stream[c] = "open"
    THEN /\ stream' = [stream EXCEPT ![c] = "closed"]
         /\ phase' = FailRead(c, ph)
         /\ ready' = rest \o Wakes(c, ph)
         /\ unsent' = [unsent EXCEPT ![c] = 0]
    ELSE phase' = ph /\ ready' = rest /\ UNCHANGED <<stream, unsent>>

\* The offline event: not for a connection that was replaced, nor for one that
\* never said who it is.
OfflineToAll(c) == [lastSeen EXCEPT ![Sn[c]] = "offline"]
OfflineToJunk(c) ==
    IF ident[c] /\ junk[c] THEN [lastSeen EXCEPT ![Sn[c]] = "offline"] ELSE lastSeen
Offline(c) ==
    IF ident[c] /\ ~junk[c] THEN [lastSeen EXCEPT ![Sn[c]] = "offline"] ELSE lastSeen

\* kill_myself.  After on_close it raises before the flag is set.
KillMyself(c, ph, rest) ==
    IF killed[c] \/ stream[c] = "dropped"
    THEN phase' = ph /\ ready' = rest /\ UNCHANGED <<stream, unsent, killed, lastSeen>>
    ELSE /\ CloseStream(c, ph, rest)
         /\ killed' = [killed EXCEPT ![c] = TRUE]
         /\ lastSeen' = Offline(c)

\* on_close's last test: the pool may hold a newer connection by now.
ForgetAlways(c) == [pool EXCEPT ![Sn[c]] = NoConn]
Forget(c) ==
    IF ident[c] /\ pool[Sn[c]] = c THEN [pool EXCEPT ![Sn[c]] = NoConn] ELSE pool

\* on_close cancels both timers.
CancelCheckOnly(c) ==
    tCheck' = [tCheck EXCEPT ![c] = FALSE] /\ UNCHANGED tOffline
CancelTimers(c) ==
    /\ tCheck' = [tCheck EXCEPT ![c] = FALSE]
    /\ tOffline' = [tOffline EXCEPT ![c] = FALSE]

OnClose(c) ==
    /\ Running(c, "close")
    /\ ready' = Tail(ready)
    /\ CancelTimers(c)
    /\ pool' = Forget(c)
    /\ stream' = [stream EXCEPT ![c] = "dropped"]
    /\ UNCHANGED <<phase, ident, killed, junk, inbuf, lines, pieces, unsent, gone,
                   lastSeen>>

-----------------------------------------------------------------------------
(* The hello.                                                              *)

\* handle_stream: a connection is accepted and waits for its hello.
Accept(c) ==
    /\ phase[c] = "new"
    /\ stream' = [stream EXCEPT ![c] = "open"]
    /\ phase' = [phase EXCEPT ![c] = "hello"]
    /\ UNCHANGED <<ready, ident, killed, junk, inbuf, lines, pieces, unsent, gone,
                   tCheck, tOffline, pool, lastSeen>>

\* What resolves the wait of wait_hello, or its sleep: the hello arrives, ten
\* seconds pass, or the 0.1 s after "sorry" are over.
WaitEnds(c) ==
    /\ \/ /\ phase[c] = "hello" /\ stream[c] = "open" /\ ~gone[c]
          /\ phase' = [phase EXCEPT ![c] = "hellogot"]
       \/ /\ phase[c] = "hello"
          /\ phase' = [phase EXCEPT ![c] = "hellotimeout"]
       \/ /\ phase[c] = "sorry"
          /\ phase' = [phase EXCEPT ![c] = "sorrydone"]
    /\ ready' = Append(ready, <<c, "run">>)
    /\ UNCHANGED <<stream, ident, killed, junk, inbuf, lines, pieces, unsent, gone,
                   tCheck, tOffline, pool, lastSeen>>

\* No hello, or the sleep after a bad one is over: the connection is killed.
HelloFails(c) ==
    /\ Running(c, "run")
    /\ phase[c] \in {"hellotimeout", "helloerror", "sorrydone"}
    /\ KillMyself(c, [phase EXCEPT ![c] = "ended"], Tail(ready))
    /\ UNCHANGED <<ident, junk, inbuf, lines, pieces, gone, tCheck, tOffline, pool>>

\* An unknown serial number or a wrong signature: "sorry" is written, which
\* raises if the stream is closed by now.
BadHello(c) ==
    /\ Running(c, "run") /\ phase[c] = "hellogot"
    /\ \/ /\ stream[c] = "open"
          /\ phase' = [phase EXCEPT ![c] = "sorry"]
          /\ ready' = Tail(ready)
          /\ UNCHANGED <<stream, unsent, killed, lastSeen>>
       \/ /\ stream[c] = "closed"
          /\ KillMyself(c, [phase EXCEPT ![c] = "ended"], Tail(ready))
    /\ UNCHANGED <<ident, junk, inbuf, lines, pieces, gone, tCheck, tOffline, pool>>

\* The connection a good hello of c turns to junk: the one the pool holds.
JunkOf(c) == {pool[Sn[c]]} \ {NoConn}

\* A good hello: the connection kills the one it replaces, without an offline
\* event, takes its place in the pool and answers "hello", which raises if the
\* stream is closed by now.
GoodHello(c) ==
    LET isOpen == stream[c] = "open"
        old    == {x \in JunkOf(c) : stream[x] = "open"}
        ph     == [phase EXCEPT ![c] = IF isOpen THEN "accepted" ELSE "ended"]
        self   == IF isOpen THEN <<<<c, "run">>>> ELSE <<>>
    IN
    /\ Running(c, "run") /\ phase[c] = "hellogot"
    /\ ident' = [ident EXCEPT ![c] = TRUE]
    /\ junk' = [x \in Conns |-> junk[x] \/ x \in JunkOf(c)]
    /\ killed' = [x \in Conns |-> killed[x] \/ x \in JunkOf(c) \/ (x = c /\ ~isOpen)]
    /\ stream' = [x \in Conns |-> IF x \in old THEN "closed" ELSE stream[x]]
    /\ unsent' = [x \in Conns |-> IF x \in old THEN 0 ELSE unsent[x]]
    /\ \/ /\ old = {}
          /\ phase' = ph
          /\ ready' = Tail(ready) \o self
       \/ \E x \in old :
          /\ phase' = FailRead(x, ph)
          /\ ready' = Tail(ready) \o Wakes(x, ph) \o self
    /\ pool' = [pool EXCEPT ![Sn[c]] = c]
    /\ lastSeen' = [lastSeen EXCEPT ![Sn[c]] = IF isOpen THEN "online" ELSE "offline"]
    /\ UNCHANGED <<inbuf, lines, pieces, gone, tCheck, tOffline>>

-----------------------------------------------------------------------------
(* Serving: the reader and the heartbeat.                                  *)

\* call_later for _online_check (60 s) and _callback_when_offline (70 s),
\* cancelling what was armed before.
ArmCheckOnly(c) == tCheck' = [tCheck EXCEPT ![c] = TRUE] /\ UNCHANGED tOffline
ArmTimers(c) ==
    /\ tCheck' = [tCheck EXCEPT ![c] = TRUE]
    /\ tOffline' = [tOffline EXCEPT ![c] = TRUE]

\* One piece is taken out of the stream.
TakePiece(c) == [inbuf EXCEPT ![c] = @ - 1]

\* The reader has n complete lines.  Each re-arms both timers, whatever became
\* of the connection meanwhile.  A reply gives way to its request before the next
\* line; a line that is no JSON leaves those behind it to the next piece; after
\* the last line, or without one, the loop yields.  arm: the timers were armed in
\* this callback already.
HandleLines(c, n, arm) ==
    /\ \/ /\ lines' = [lines EXCEPT ![c] = 0]
          /\ phase' = [phase EXCEPT ![c] = "moment"]
       \/ \E left \in 0..(n - 1), p \in {"replied", "moment"} :
          /\ lines' = [lines EXCEPT ![c] = left]
          /\ phase' = [phase EXCEPT ![c] = p]
    /\ ready' = Append(Tail(ready), <<c, "run">>)
    /\ IF arm \/ n > 0 THEN ArmTimers(c) ELSE UNCHANGED <<tCheck, tOffline>>
    /\ UNCHANGED <<stream, unsent, killed, lastSeen>>

\* A piece is taken and completes some lines.
HandlePiece(c, arm) ==
    /\ inbuf' = TakePiece(c)
    /\ \E n \in 0..MaxLines : HandleLines(c, lines[c] + n, arm)

\* The reader, not killed, asks for the next piece: it is there and is handled
\* at once, or the stream is gone, or the reader waits.
ReadNext(c, arm) ==
    \/ stream[c] # "dropped" /\ inbuf[c] > 0 /\ HandlePiece(c, arm)
    \/ /\ \/ /\ stream[c] = "open" /\ inbuf[c] = 0
             /\ phase' = [phase EXCEPT ![c] = "reading"]
             /\ ready' = Tail(ready)
             /\ UNCHANGED <<stream, unsent, killed, lastSeen>>
          \/ /\ stream[c] = "closed" /\ inbuf[c] = 0
             /\ KillMyself(c, [phase EXCEPT ![c] = "ended"], Tail(ready))
          \/ /\ stream[c] = "dropped"
             /\ phase' = [phase EXCEPT ![c] = "crashed"]
             /\ ready' = Tail(ready)
             /\ UNCHANGED <<stream, unsent, killed, lastSeen>>
       /\ IF arm THEN ArmTimers(c) ELSE UNCHANGED <<tCheck, tOffline>>
       /\ UNCHANGED <<inbuf, lines>>

\* while not self.killed
Loop(c, arm) ==
    \/ ~killed[c] /\ ReadNext(c, arm)
    \/ /\ killed[c]
       /\ phase' = [phase EXCEPT ![c] = "ended"]
       /\ ready' = Tail(ready)
       /\ IF arm THEN ArmTimers(c) ELSE UNCHANGED <<tCheck, tOffline>>
       /\ UNCHANGED <<stream, unsent, killed, lastSeen, inbuf, lines>>

\* start_serving goes on after wait_hello returned 0: it arms the timers and
\* enters the loop, which it leaves at once if a newer connection killed this
\* one meanwhile.
StartServing(c) ==
    /\ Running(c, "run") /\ phase[c] = "accepted"
    /\ Loop(c, TRUE)
    /\ UNCHANGED <<ident, junk, pieces, gone, pool>>

\* The reader goes on: read_bytes gave it a piece, or StreamClosedError; the
\* moment after a reply is over, and the lines behind the reply are handled,
\* though the connection may have been killed and taken apart; or the moment at
\* the end of the loop.
ReaderResumes(c) ==
    /\ Running(c, "run")
    /\ \/ phase[c] = "got" /\ HandlePiece(c, FALSE)
       \/ /\ phase[c] = "readerror"
          /\ KillMyself(c, [phase EXCEPT ![c] = "ended"], Tail(ready))
          /\ UNCHANGED <<inbuf, lines, tCheck, tOffline>>
       \/ phase[c] = "replied" /\ HandleLines(c, lines[c], FALSE) /\ UNCHANGED inbuf
       \/ phase[c] = "moment" /\ Loop(c, FALSE)
    /\ UNCHANGED <<ident, junk, pieces, gone, pool>>

\* Where in the queue the write of a PING is noticed.
PingsOf(c) == {i \in 1..Len(ready) : ready[i][1] = c /\ ready[i][2] \in Pings}

\* The check went off, and its next one is armed behind the write only.
NotRearmed(c) == tCheck' = [tCheck EXCEPT ![c] = FALSE]

\* _online_check begins: the PING is written and the check re-armed at once; or
\* the socket is full and the write waits; or the write fails, because it finds
\* the connection broken or the stream closed; or there is no stream any more,
\* and the check dies of it.
OnlineCheck(c) ==
    /\ tCheck[c]
    /\ \/ stream[c] = "open" /\ unsent[c] = 0 /\ UNCHANGED vars
       \/ /\ stream[c] = "open" /\ unsent[c] + Cardinality(PingsOf(c)) < MaxPings
          /\ NotRearmed(c)
          /\ unsent' = [unsent EXCEPT ![c] = @ + 1]
          /\ UNCHANGED <<ready, stream, phase, killed, tOffline, lastSeen>>
       \/ /\ stream[c] \in {"open", "closed"}
          /\ NotRearmed(c)
          /\ tOffline' = [tOffline EXCEPT ![c] = FALSE]
          /\ KillMyself(c, phase, ready)
       \/ /\ stream[c] = "dropped"
          /\ NotRearmed(c)
          /\ UNCHANGED <<ready, stream, phase, unsent, killed, tOffline, lastSeen>>
    /\ UNCHANGED <<ident, junk, inbuf, lines, pieces, gone, pool>>

\* The socket takes a PING that waited.
PingSent(c) ==
    /\ stream[c] = "open" /\ unsent[c] > 0 /\ ~gone[c]
    /\ unsent' = [unsent EXCEPT ![c] = @ - 1]
    /\ ready' = Append(ready, <<c, "written">>)
    /\ UNCHANGED <<stream, phase, ident, killed, junk, inbuf, lines, pieces, gone,
                   tCheck, tOffline, pool, lastSeen>>

\* secure_write goes on after its write, and resumes who waits for it.
SecureWriteEnds(c) ==
    /\ \/ Running(c, "written") /\ ready' = Append(Tail(ready), <<c, "pinged">>)
       \/ Running(c, "unwritten") /\ ready' = Append(Tail(ready), <<c, "unpinged">>)
    /\ UNCHANGED <<stream, phase, ident, killed, junk, inbuf, lines, pieces, unsent,
                   gone, tCheck, tOffline, pool, lastSeen>>

\* _online_check goes on: it is re-armed, also if on_close came before.
CheckAgain(c) ==
    /\ Running(c, "pinged")
    /\ ready' = Tail(ready)
    /\ tCheck' = [tCheck EXCEPT ![c] = TRUE]
    /\ UNCHANGED <<stream, phase, ident, killed, junk, inbuf, lines, pieces, unsent,
                   gone, tOffline, pool, lastSeen>>

\* _online_check goes on: the stream was closed under its write.
CheckFails(c) ==
    /\ Running(c, "unpinged")
    /\ tOffline' = [tOffline EXCEPT ![c] = FALSE]
    /\ KillMyself(c, phase, Tail(ready))
    /\ UNCHANGED <<ident, junk, inbuf, lines, pieces, gone, tCheck, pool>>

\* _callback_when_offline: nothing was heard for 70 s.
OfflineFires(c) ==
    /\ tOffline[c]
    /\ tOffline' = [tOffline EXCEPT ![c] = FALSE]
    /\ KillMyself(c, phase, ready)
    /\ UNCHANGED <<ident, junk, inbuf, lines, pieces, gone, tCheck, pool>>

\* NodeSettingHandler: POST setting/drop kills the connection in the pool.
SettingDrop(s) ==
    /\ pool[s] # NoConn /\ ~killed[pool[s]]
    /\ KillMyself(pool[s], phase, ready)
    /\ UNCHANGED <<ident, junk, inbuf, lines, pieces, gone, tCheck, tOffline, pool>>

-----------------------------------------------------------------------------
(* The node's end of the connection.                                       *)

\* A piece arrives; it resolves a pending read.
PieceArrives(c) ==
    /\ stream[c] = "open" /\ ~gone[c]
    /\ phase[c] \in ServingPhases /\ pieces < MaxPieces
    /\ pieces' = pieces + 1
    /\ inbuf' = [inbuf EXCEPT ![c] = @ + 1]
    /\ \/ /\ phase[c] = "reading"
          /\ phase' = [phase EXCEPT ![c] = "got"]
          /\ ready' = Append(ready, <<c, "run">>)
       \/ phase[c] # "reading" /\ UNCHANGED <<phase, ready>>
    /\ UNCHANGED <<stream, ident, killed, junk, lines, unsent, gone, tCheck,
                   tOffline, pool, lastSeen>>

\* The server's end of the socket sees a FIN or a reset.
PeerCloses(c) ==
    /\ stream[c] = "open" /\ ~gone[c]
    /\ CloseStream(c, phase, ready)
    /\ UNCHANGED <<ident, killed, junk, inbuf, lines, pieces, gone, tCheck,
                   tOffline, pool, lastSeen>>

\* The node loses power or its network: the connection is half open.
PeerVanishes(c) ==
    /\ stream[c] = "open" /\ ~gone[c]
    /\ gone' = [gone EXCEPT ![c] = TRUE]
    /\ UNCHANGED <<ready, stream, phase, ident, killed, junk, inbuf, lines, pieces,
                   unsent, tCheck, tOffline, pool, lastSeen>>

-----------------------------------------------------------------------------
\* One callback of the IOLoop.
RunCallback ==
    \E c \in Conns :
        \/ HelloFails(c) \/ BadHello(c) \/ GoodHello(c) \/ StartServing(c)
        \/ ReaderResumes(c) \/ OnClose(c)
        \/ SecureWriteEnds(c) \/ CheckAgain(c) \/ CheckFails(c)

Next ==
    \/ RunCallback
    \/ \E c \in Conns :
        \/ Accept(c) \/ WaitEnds(c) \/ OnlineCheck(c) \/ OfflineFires(c) \/ PingSent(c)
        \/ PieceArrives(c) \/ PeerCloses(c) \/ PeerVanishes(c)
    \/ \E s \in Sns : SettingDrop(s)

Spec == Init /\ [][Next]_vars

\* The IOLoop never stops and its timers fire: the hello timeout and the sleep
\* always end; so does the offline timer of a node that vanished, which nothing
\* re-arms for ever, and what is armed on a connection that was taken apart.
FairSpec ==
    /\ Spec
    /\ WF_vars(RunCallback)
    /\ \A c \in Conns :
        /\ WF_vars(WaitEnds(c))
        /\ WF_vars((gone[c] \/ stream[c] = "dropped") /\ OfflineFires(c))
        /\ WF_vars(stream[c] = "dropped" /\ OnlineCheck(c))

-----------------------------------------------------------------------------
(* Correctness.                                                            *)

\* Every variable holds a value of its kind.
TypeOK ==
    /\ ready \in Seq(Conns \X Kinds)
    /\ stream \in [Conns -> {"none", "open", "closed", "dropped"}]
    /\ phase \in [Conns -> Phases]
    /\ ident \in [Conns -> BOOLEAN] /\ killed \in [Conns -> BOOLEAN]
    /\ junk \in [Conns -> BOOLEAN] /\ gone \in [Conns -> BOOLEAN]
    /\ pieces \in Nat /\ pieces <= MaxPieces /\ inbuf \in [Conns -> Nat]
    /\ lines \in [Conns -> Nat] /\ unsent \in [Conns -> Nat]
    /\ \A c \in Conns : inbuf[c] <= pieces
    /\ tCheck \in [Conns -> BOOLEAN] /\ tOffline \in [Conns -> BOOLEAN]
    /\ pool \in [Sns -> Conns \cup {NoConn}]
    /\ lastSeen \in [Sns -> {"never", "online", "offline"}]

\* The pool never names a connection that on_close has taken apart, so a
\* handler that finds one there can still call kill_myself on it.
PoolHoldsWhole ==
    \A s \in Sns : pool[s] # NoConn =>
        /\ Sn[pool[s]] = s /\ ident[pool[s]]
        /\ stream[pool[s]] \in {"open", "closed"}

\* A node is served through one connection: of those that identified
\* themselves, all but the one in the pool are killed or already closed.
OneLivePerNode ==
    \A c \in Conns :
        ident[c] /\ ~killed[c] /\ stream[c] # "dropped" => pool[Sn[c]] = c

\* The user's view: a node last reported online is in the pool and not killed,
\* unless its reader ran into the dropped stream before it could report.
OnlineMeansServed ==
    \A s \in Sns : lastSeen[s] = "online" =>
        \/ pool[s] # NoConn /\ ~killed[pool[s]]
        \/ \E c \in Conns : Sn[c] = s /\ stream[c] = "dropped" /\ ~killed[c]

\* And the other way round: a node that is served was last reported online,
\* however the end of its previous connection and the hello of this one fell.
ServedMeansOnline ==
    \A s \in Sns : pool[s] # NoConn /\ ~killed[pool[s]] => lastSeen[s] = "online"

\* What the user was told last of a node is what is so, both ways.
OnlineExact == OnlineMeansServed /\ ServedMeansOnline

\* The pool and the connections agree: it names whole ones only, and every live
\* one (wait_hello, kill_myself and on_close, whatever order a takeover's steps
\* fall in).
PoolInv == TypeOK /\ PoolHoldsWhole /\ OneLivePerNode

\* The callbacks of a connection taken apart that still arm timers: the reader
\* with lines behind a reply, and the check whose PING was sent in time.
LateLines(c) == Running(c, "run") /\ phase[c] = "replied" /\ lines[c] > 0
LatePing(c)  == Running(c, "pinged")

\* on_close leaves no timer behind, and nothing else than those two callbacks
\* arms one on a connection that on_close has taken apart: whatever else may
\* still be queued for it keeps off the timers, which nobody would cancel.
LateOnly ==
    \A c \in Conns : stream'[c] = "dropped" =>
        /\ tCheck'[c] =>
            stream[c] = "dropped" /\ (tCheck[c] \/ LateLines(c) \/ LatePing(c))
        /\ tOffline'[c] =>
            stream[c] = "dropped" /\ (tOffline[c] \/ LateLines(c))
LateTimers == [][LateOnly]_vars

\* What was armed too late does not last: the timers of a connection that was
\* taken apart go off into nothing, and none of them arms another for ever.
TimersEnd ==
    <>[](\A c \in Conns : stream[c] = "dropped" => ~tCheck[c] /\ ~tOffline[c])

\* A node that vanishes, even before its hello, does not stay in the pool.
VanishedLeavesPool ==
    \A c \in Conns : gone[c] ~> (pool[Sn[c]] # c /\ stream[c] = "dropped")

\* Nothing stays of a connection nobody is behind: not its place in the pool, and
\* not its timers.
NothingLingers == VanishedLeavesPool /\ TimersEnd
=============================================================================
