-------------------------- MODULE DeviceConnection --------------------------
(***************************************************************************)
(* The traffic of one authenticated DeviceConnection of server.py: HTTP    *)
(* handlers call submit_and_wait_resp and submit_cmd, the reader coroutine *)
(* _loop_reading_input hands replies over, the node answers late or never, *)
(* and the stream is closed by the peer or by kill_myself.                 *)
(*                                                                         *)
(* Everything on the server runs on one tornado IOLoop.  `ready' is its    *)
(* queue of callbacks: a coroutine runs from one unresolved yield to the   *)
(* next, in the order its futures were resolved.  A yield of a future that *)
(* is already done does not give up control, so an uncontended acquire and *)
(* a write that fits the socket buffer happen in the step of the caller.   *)
(***************************************************************************)
EXTENDS Integers, Sequences, FiniteSets

CONSTANTS
    Gets, Posts, Apps,  \* the calls of submit_and_wait_resp for a resp_get, resp_post, resp_app
    Commands,         \* the calls of submit_cmd
    PENDING_REQ_CNT,  \* server.py:62
    Reader,           \* the reader coroutine, as an entry of the callback queue
    CloseCallback,    \* on_close, as an entry of the callback queue
    NoReply           \* no reply: the initial recv_msg, the answer of a failed call

Requests == Gets \cup Posts \cup Apps
Callers == Requests \cup Commands

\* target_resp: the msg_type each request waits for.
Target ==
    [r \in Requests |-> CASE r \in Gets -> "resp_get"
                         [] r \in Posts -> "resp_post"
                         [] OTHER -> "resp_app"]

ASSUME ConnectionAssumption ==
    /\ IsFiniteSet(Requests) /\ IsFiniteSet(Commands)
    /\ Requests \cap Commands = {}
    /\ {Reader, CloseCallback, NoReply} \cap Callers = {}
    /\ Reader # CloseCallback
    /\ Gets \cap Posts = {} /\ (Gets \cup Posts) \cap Apps = {}
    /\ PENDING_REQ_CNT \in Nat \ {0}

VARIABLES
    ready,      \* the IOLoop's queue of callbacks
    pc,         \* where each call stands
    sem, semQ,  \* send_msg_sem: its value and its waiters
    condQ,      \* the waiters of recv_msg_cond, those that timed out included
    pending,    \* pending_request_cnt
    recvMsg,    \* recv_msg
    stream,     \* "open", "closed", or "none" once on_close dropped it
    killed,     \* self.killed
    reader,     \* where the reader coroutine stands
    writeQ,     \* the calls whose write has not been flushed
    sent,       \* commands on their way to the node, in order
    inbuf,      \* pieces received and not read yet
    result,     \* what each call returned
    answer      \* the reply a successful call returned

vars == <<ready, pc, sem, semQ, condQ, pending, recvMsg, stream, killed,
          reader, writeQ, sent, inbuf, result, answer>>

\* A call holds the semaphore from the moment it is granted until its release.
HolderPcs == {"granted", "writing", "written", "writefail",
              "waiting", "notified", "timedout"}
Pcs       == {"idle", "queued", "done"} \cup HolderPcs
ReaderPcs == {"reading", "got", "error", "moment", "blockend", "dead"}
Results   == {"none", "ok", "too_fast", "timeout", "error"}

\* A piece of the node's stream is named by the request it replies to;
\* NoReply is one that is not handed to a request: ##ALIVE##, an event, an OTA
\* report, bad JSON.
Pieces == Requests \cup {NoReply}

Holders == {c \in Callers : pc[c] \in HolderPcs}
Active  == {r \in Requests : pc[r] \notin {"idle", "done"}}

\* Semaphore(1).
TwoPermits == 2
InitialPermits == 1

Init ==
    /\ ready = <<>>
    /\ pc = [c \in Callers |-> "idle"]
    /\ sem = InitialPermits /\ semQ = <<>>
    /\ condQ = <<>>
    /\ pending = 0
    /\ recvMsg = NoReply
    /\ stream = "open" /\ killed = FALSE
    /\ reader = "reading"
    /\ writeQ = <<>> /\ sent = <<>> /\ inbuf = <<>>
    /\ result = [c \in Callers |-> "none"]
    /\ answer = [c \in Callers |-> NoReply]

-----------------------------------------------------------------------------
(* The callers.  A running call has these in hand: v, the value of the     *)
(* semaphore, p, the count of pending requests, and rest, the callbacks    *)
(* queued behind it.                                                       *)

\* Semaphore.release: the first waiter, if any, is granted the semaphore and
\* runs after what is already queued.  at is pc as the caller leaves it.
ReleaseWithoutWaking(at, v, rest) ==
    sem' = v + 1 /\ pc' = at /\ ready' = rest /\ UNCHANGED semQ
ReleaseTwice(at, v, rest) ==
    IF semQ = <<>>
    THEN sem' = v + 2 /\ pc' = at /\ ready' = rest /\ UNCHANGED semQ
    ELSE /\ sem' = v + 1 /\ semQ' = Tail(semQ)
         /\ pc' = [at EXCEPT ![Head(semQ)] = "granted"]
         /\ ready' = Append(rest, Head(semQ))
Release(at, v, rest) ==
    \/ /\ semQ = <<>>
       /\ sem' = v + 1 /\ pc' = at /\ ready' = rest
       /\ UNCHANGED semQ
    \/ /\ semQ # <<>>
       /\ sem' = v /\ semQ' = Tail(semQ)
       /\ pc' = [at EXCEPT ![Head(semQ)] = "granted"]
       /\ ready' = Append(rest, Head(semQ))

\* The finally clauses: the call c releases the semaphore and returns; a
\* request also leaves the count.
Uncount(c, p) == IF c \in Requests THEN p - 1 ELSE p

Return(c, res, ans, v, p, rest) ==
    /\ result' = [result EXCEPT ![c] = res]
    /\ answer' = [answer EXCEPT ![c] = ans]
    /\ pending' = Uncount(c, p)
    /\ Release([pc EXCEPT ![c] = "done"], v, rest)

\* The call gives up control in the state `at' and keeps the semaphore.
Suspend(c, at, v, p, rest) ==
    /\ pc' = [pc EXCEPT ![c] = at]
    /\ sem' = v /\ pending' = p /\ ready' = rest
    /\ UNCHANGED <<semQ, result, answer>>

\* Once its write is flushed a request waits on the condition, with a
\* timeout; a command is finished.
AfterWrite(c, v, p, rest) ==
    \/ /\ c \in Requests
       /\ Suspend(c, "waiting", v, p, rest)
       /\ condQ' = Append(condQ, c)
    \/ /\ c \in Commands
       /\ Return(c, "ok", NoReply, v, p, rest)
       /\ UNCHANGED condQ

\* secure_write by a call that holds the semaphore: on an open stream the
\* bytes go out, at once or when the socket takes them; otherwise it raises.
SecureWrite(c, v, p, rest) ==
    \/ /\ stream = "open"
       /\ \/ /\ writeQ = <<>>
             /\ sent' = Append(sent, c)
             /\ AfterWrite(c, v, p, rest)
             /\ UNCHANGED writeQ
          \/ /\ Suspend(c, "writing", v, p, rest)
             /\ writeQ' = Append(writeQ, c)
             /\ UNCHANGED <<condQ, sent>>
    \/ /\ stream # "open"
       /\ Return(c, "error", NoReply, v, p, rest)
       /\ UNCHANGED <<condQ, sent, writeQ>>

\* yield self.send_msg_sem.acquire(), and the write if it is granted at once.
Acquire(c, p) ==
    \/ /\ sem > 0
       /\ SecureWrite(c, sem - 1, p, ready)
    \/ /\ sem = 0
       /\ semQ' = Append(semQ, c)
       /\ pc' = [pc EXCEPT ![c] = "queued"]
       /\ pending' = p
       /\ UNCHANGED <<sem, ready, condQ, sent, writeQ, result, answer>>

\* What no step of a call changes.
connVars == <<recvMsg, stream, killed, reader, inbuf>>

\* A request too many takes itself back out of the count.
CountRejected == pending' = pending + 1
Uncounted == pending' = PENDING_REQ_CNT

\* submit_and_wait_resp, called by a handler that found the connection in the
\* pool and not killed.
SubmitAndWaitResp(r) ==
    /\ pc[r] = "idle" /\ ~killed /\ stream # "none"
    /\ \/ /\ pending + 1 > PENDING_REQ_CNT
          /\ Uncounted
          /\ pc' = [pc EXCEPT ![r] = "done"]
          /\ result' = [result EXCEPT ![r] = "too_fast"]
          /\ UNCHANGED <<ready, sem, semQ, condQ, sent, writeQ, answer>>
       \/ /\ pending + 1 <= PENDING_REQ_CNT
          /\ Acquire(r, pending + 1)
    /\ UNCHANGED connVars

\* submit_cmd, called by post_build on the connection it took from the pool
\* some time ago.
SubmitCmd(c) ==
    /\ pc[c] = "idle" /\ ~killed
    /\ Acquire(c, pending)
    /\ UNCHANGED connVars

Running(c) == ready # <<>> /\ Head(ready) = c

\* A call that queued for the semaphore is resumed with it.
ResumeGranted(c) ==
    /\ Running(c) /\ pc[c] = "granted"
    /\ SecureWrite(c, sem, pending, Tail(ready))
    /\ UNCHANGED connVars

\* The flush of the call's write, or its failure, resumes it.
ResumeWritten(c) ==
    /\ Running(c)
    /\ \/ /\ pc[c] = "written"
          /\ AfterWrite(c, sem, pending, Tail(ready))
       \/ /\ pc[c] = "writefail"
          /\ Return(c, "error", NoReply, sem, pending, Tail(ready))
          /\ UNCHANGED condQ
    /\ UNCHANGED <<sent, writeQ>> /\ UNCHANGED connVars

\* What a request the reader notified makes of self.recv_msg as it is now.
TakeReply(r) ==
    IF recvMsg # NoReply /\ Target[recvMsg] = Target[r]
    THEN Return(r, "ok", recvMsg, sem, pending, Tail(ready))
    ELSE Return(r, "error", NoReply, sem, pending, Tail(ready))

\* A request whose wait returned False.
IgnoreTimeout(r) == TakeReply(r)
TimeOut(r) == Return(r, "timeout", NoReply, sem, pending, Tail(ready))

\* The wait on the condition is over: notified or timed out.
ResumeWaiting(r) ==
    /\ Running(r)
    /\ \/ pc[r] = "notified" /\ TakeReply(r)
       \/ pc[r] = "timedout" /\ TimeOut(r)
    /\ UNCHANGED <<condQ, sent, writeQ>> /\ UNCHANGED connVars

\* timeout_sec ran out before a notification: the waiter is resolved with
\* False and stays in the condition's queue.
CondTimeout(r) ==
    /\ pc[r] = "waiting"
    /\ pc' = [pc EXCEPT ![r] = "timedout"]
    /\ ready' = Append(ready, r)
    /\ UNCHANGED <<sem, semQ, condQ, pending, recvMsg, stream, killed, reader,
                   writeQ, sent, inbuf, result, answer>>

-----------------------------------------------------------------------------
(* The reader coroutine, _loop_reading_input.                              *)

\* kill_myself as it stands after the stream was closed: only the flag is
\* left to set, unless on_close has dropped the stream, where it raises.
KillAfterClose == killed' = (killed \/ stream # "none")

\* Condition.notify drops the waiters that are done and resolves the first
\* that is not, the i-th; the reader then yields gen.moment.
Undone(i) ==
    /\ pc[condQ[i]] = "waiting"
    /\ \A j \in 1..(i - 1) : pc[condQ[j]] # "waiting"

WakeWithoutYield(i, rest) ==
    /\ pc' = [pc EXCEPT ![condQ[i]] = "notified"]
    /\ condQ' = SubSeq(condQ, i + 1, Len(condQ))
    /\ reader' = "blockend"
    /\ ready' = <<Reader>> \o Append(rest, condQ[i])
WakeAndYield(i, rest) ==
    /\ pc' = [pc EXCEPT ![condQ[i]] = "notified"]
    /\ condQ' = SubSeq(condQ, i + 1, Len(condQ))
    /\ reader' = "moment"
    /\ ready' = Append(Append(rest, condQ[i]), Reader)

NotifyNobody(rest) ==
    /\ \A i \in DOMAIN condQ : pc[condQ[i]] # "waiting"
    /\ condQ' = <<>>
    /\ reader' = "moment"
    /\ ready' = Append(rest, Reader)
    /\ UNCHANGED pc

\* One piece is read.  A reply is stored in recv_msg and handed to a waiting
\* request; every other piece leaves the calls alone.
HandlePiece(m, rest) ==
    \/ /\ m \in Requests
       /\ recvMsg' = m
       /\ \/ \E i \in DOMAIN condQ : Undone(i) /\ WakeAndYield(i, rest)
          \/ NotifyNobody(rest)
    \/ /\ m = NoReply
       /\ reader' = "blockend"
       /\ ready' = Append(rest, Reader)
       /\ UNCHANGED <<recvMsg, pc, condQ>>

\* What no step of the reader changes.
callVars == <<sem, semQ, pending, writeQ, sent, result, answer>>

\* read_bytes was resolved with data.
ReaderGotData ==
    /\ Running(Reader) /\ reader = "got"
    /\ HandlePiece(Head(inbuf), Tail(ready))
    /\ inbuf' = Tail(inbuf)
    /\ UNCHANGED <<stream, killed>> /\ UNCHANGED callVars

\* read_bytes was resolved with StreamClosedError.
ReaderGotError ==
    /\ Running(Reader) /\ reader = "error"
    /\ reader' = "dead"
    /\ KillAfterClose
    /\ ready' = Tail(ready)
    /\ UNCHANGED <<pc, condQ, recvMsg, stream, inbuf>> /\ UNCHANGED callVars

\* After the notification the block holds no other complete piece: the reader
\* yields gen.moment again, at the end of the loop's body.
ReaderEndsBlock ==
    /\ Running(Reader) /\ reader = "moment"
    /\ reader' = "blockend"
    /\ ready' = Append(Tail(ready), Reader)
    /\ UNCHANGED <<pc, condQ, recvMsg, stream, killed, inbuf>>
    /\ UNCHANGED callVars

\* while not self.killed: read_bytes(16).  Buffered data is read at once; a
\* closed stream raises StreamClosedError, a dropped one AttributeError.
ReaderLoops ==
    /\ Running(Reader) /\ reader = "blockend"
    /\ \/ /\ killed
          /\ reader' = "dead" /\ ready' = Tail(ready)
          /\ UNCHANGED <<pc, condQ, recvMsg, inbuf, killed>>
       \/ /\ ~killed /\ stream # "none" /\ inbuf # <<>>
          /\ HandlePiece(Head(inbuf), Tail(ready))
          /\ inbuf' = Tail(inbuf)
          /\ UNCHANGED killed
       \/ /\ ~killed /\ stream = "open" /\ inbuf = <<>>
          /\ reader' = "reading" /\ ready' = Tail(ready)
          /\ UNCHANGED <<pc, condQ, recvMsg, inbuf, killed>>
       \/ /\ ~killed
          /\ stream = "none" \/ (stream = "closed" /\ inbuf = <<>>)
          /\ reader' = "dead" /\ ready' = Tail(ready)
          /\ KillAfterClose
          /\ UNCHANGED <<pc, condQ, recvMsg, inbuf>>
    /\ UNCHANGED stream /\ UNCHANGED callVars

-----------------------------------------------------------------------------
(* The stream: the node, the socket, kill_myself and on_close.             *)

\* Bytes reach the server: they resolve a pending read_bytes.
Receive(m) ==
    /\ inbuf' = Append(inbuf, m)
    /\ \/ /\ reader = "reading"
          /\ reader' = "got" /\ ready' = Append(ready, Reader)
       \/ /\ reader # "reading"
          /\ UNCHANGED <<reader, ready>>

\* The node takes the next command: it answers, or its answer is lost in the
\* node.  The answer to a command, an ota_trig_ack, is no reply to a request.
NodeAnswers ==
    /\ stream = "open" /\ sent # <<>>
    /\ sent' = Tail(sent)
    /\ \/ Receive(IF Head(sent) \in Requests THEN Head(sent) ELSE NoReply)
       \/ UNCHANGED <<inbuf, reader, ready>>
    /\ UNCHANGED <<pc, sem, semQ, condQ, pending, recvMsg, stream, killed,
                   writeQ, result, answer>>

\* The socket takes the oldest write that was waiting.
WriteFlushed ==
    /\ stream = "open" /\ writeQ # <<>>
    /\ pc' = [pc EXCEPT ![Head(writeQ)] = "written"]
    /\ ready' = Append(ready, Head(writeQ))
    /\ writeQ' = Tail(writeQ)
    /\ sent' = Append(sent, Head(writeQ))
    /\ UNCHANGED <<sem, semQ, condQ, pending, recvMsg, stream, killed, reader,
                   inbuf, result, answer>>

\* IOStream.close: the pending read and the pending writes fail, in this
\* order, and the close callback is queued behind them.
CloseStream ==
    /\ stream = "open"
    /\ stream' = "closed"
    /\ reader' = IF reader = "reading" THEN "error" ELSE reader
    /\ pc' = [c \in Callers |-> IF pc[c] = "writing" THEN "writefail" ELSE pc[c]]
    /\ ready' = ready \o (IF reader = "reading" THEN <<Reader>> ELSE <<>>)
                      \o writeQ \o <<CloseCallback>>
    /\ writeQ' = <<>>
    /\ UNCHANGED <<sem, semQ, condQ, pending, recvMsg, sent, inbuf,
                   result, answer>>

\* The peer closes the connection, or the socket fails.
PeerCloses == CloseStream /\ UNCHANGED killed

\* kill_myself from outside the reader: the offline timer, a failed PING, a
\* handler's setting/drop, or kill_junk by a newer connection of the node.
KillMyself ==
    /\ ~killed /\ stream # "none"
    /\ killed' = TRUE
    /\ \/ CloseStream
       \/ /\ stream = "closed"
          /\ UNCHANGED <<ready, pc, sem, semQ, condQ, pending, recvMsg, stream,
                         reader, writeQ, sent, inbuf, result, answer>>

\* on_close: the semaphore is released once more, so a queued call wakes up
\* and fails instead of waiting for a holder, and the stream is dropped.
OnClose ==
    /\ Running(CloseCallback) /\ stream = "closed"
    /\ stream' = "none"
    /\ Release(pc, sem, Tail(ready))
    /\ UNCHANGED <<condQ, pending, recvMsg, killed, reader, writeQ, sent,
                   inbuf, result, answer>>

-----------------------------------------------------------------------------
\* One callback of the IOLoop.
RunCallback ==
    \/ \E c \in Callers : ResumeGranted(c) \/ ResumeWritten(c)
    \/ \E r \in Requests : ResumeWaiting(r)
    \/ ReaderGotData \/ ReaderGotError \/ ReaderEndsBlock \/ ReaderLoops
    \/ OnClose

Next ==
    \/ RunCallback
    \/ \E r \in Requests : SubmitAndWaitResp(r) \/ CondTimeout(r)
    \/ \E c \in Commands : SubmitCmd(c)
    \/ NodeAnswers \/ WriteFlushed
    \/ PeerCloses \/ KillMyself

Spec == Init /\ [][Next]_vars

\* The IOLoop never stops, timeouts fire, and a pending write ends: the socket
\* takes it, or the connection is closed (a silent peer is killed after 70 s).
\* Nothing is assumed of the node, which may never answer.
Fairness ==
    /\ WF_vars(RunCallback)
    /\ \A r \in Requests : WF_vars(CondTimeout(r))
    /\ WF_vars(writeQ # <<>> /\ (WriteFlushed \/ PeerCloses \/ KillMyself))

FairSpec == Spec /\ Fairness

-----------------------------------------------------------------------------
(* Correctness.                                                            *)

\* Every variable holds a value of its kind.
TypeOK ==
    /\ ready \in Seq(Callers \cup {Reader, CloseCallback})
    /\ pc \in [Callers -> Pcs]
    /\ sem \in Nat /\ semQ \in Seq(Callers)
    /\ condQ \in Seq(Requests)
    /\ pending \in 0..PENDING_REQ_CNT
    /\ recvMsg \in Requests \cup {NoReply}
    /\ stream \in {"open", "closed", "none"} /\ killed \in BOOLEAN
    /\ reader \in ReaderPcs
    /\ writeQ \in Seq(Callers) /\ sent \in Seq(Callers)
    /\ inbuf \in Seq(Pieces)
    /\ result \in [Callers -> Results]
    /\ answer \in [Callers -> Requests \cup {NoReply}]

\* pending_request_cnt, whose overflow branch resets it instead of counting
\* back, is always the number of requests between their two ends, so the
\* limit of server.py:392 rejects a request only when that many are served.
PendingExact == pending = Cardinality(Active)

\* The types, with the limit as the count's bound, and the count's exactness: no
\* order of rejections, failed writes, timeouts and closes loses or keeps a place.
PendingInv == TypeOK /\ PendingExact

\* send_msg_sem serialises the commands of a connection: until on_close has
\* run its extra release, at most one call is between grant and release.
OneCommandAtATime ==
    stream # "none" => \A c, d \in Holders : c = d

\* A reply is handed to at most one request.
NoReplyTwice ==
    \A q, r \in Requests :
        q # r /\ result[q] = "ok" /\ result[r] = "ok" => answer[q] # answer[r]

\* As long as no request has timed out, a successful request returns the reply
\* to its own command.  (One late reply shifts all that follow: the request
\* that takes it leaves its own reply to the next.)
ForeignReplyOnlyAfterTimeout ==
    (\A q \in Requests : result[q] # "timeout") =>
        \A r \in Requests : result[r] = "ok" => answer[r] = r

\* A reply goes to one request, and to the right one while none timed out.
ReplyBelongs == NoReplyTwice /\ ForeignReplyOnlyAfterTimeout

\* The reader stores no new recv_msg while a request it woke has yet to read
\* the last one (the purpose of the gen.moment of server.py:317).
NoOverwriteBeforeRead ==
    [][recvMsg' # recvMsg => \A r \in Requests : pc[r] # "notified"]_vars

\* Whatever the node does, and whenever the connection closes, every call
\* returns to its handler.
EveryCallReturns ==
    \A c \in Callers : (pc[c] # "idle") ~> (pc[c] = "done")

\* handlers.py:96, "200 OK - API call successfully executed": a successful
\* request returns the node's reply to its own command.
OkMeansExecuted ==
    \A r \in Requests : result[r] = "ok" => answer[r] = r
=============================================================================
