------------------------------- MODULE NodeRpc -------------------------------
(***************************************************************************)
(* The node's side of the requests and events: what network.cpp receives   *)
(* into a channel's ring buffer, the parser that reads it a character at a *)
(* time (rpc_server.cpp), the event queue, the answers written piece by    *)
(* piece (rpc_stream.cpp), and the send buffer with its txing flag.        *)
(*                                                                         *)
(* The node runs one thing at a time.  The main loop gives up control in   *)
(* delay(0) after each round of the parser, in optimistic_yield after each *)
(* event and at the end of wio_loop; the SDK's callbacks (Deliver, Sent,   *)
(* ConnectionLost, ...) run only there.  A step of the main loop is what   *)
(* it does between two of these.                                           *)
(*                                                                         *)
(* The text is cut into tokens, one for a keyword, a name, an argument or  *)
(* a separator, and each carries the number of the request it is from.     *)
(***************************************************************************)
EXTENDS Naturals, FiniteSets, SequencesExt

CONSTANTS
    Plans,      \* what the world may do: see plan
    Resources,  \* p_first_resource: <<verb, grove, method>> to the argument types
    Embedded,   \* token to the keyword that its 2nd to 4th characters spell, or ""
    RxCap,      \* room for received tokens; 512 and 128 characters in the code
    TxCap,      \* room for pieces to send; 1024 and 256 characters
    TxThreshold,\* size beyond which sending starts; 512 and 32
    DrainMax,   \* events sent in one call of drain_event_queue; 5
    EventMax    \* events event_q_external holds; 100

Channels == {"data", "cmd"}
Keywords == {"GET", "POST", "OTA", "APP"}
Separators == {" ", "/", "cr", "lf"}

\* A request as the handlers write it: it begins with its type and ends in CR LF.
Request(toks) ==
    LET len == Len(toks)
    IN  toks \in Seq(STRING) /\ len > 2 /\ toks[1] \in Keywords /\ toks[len - 1] = "cr" /\ toks[len] = "lf"

\* No resource has a grove name that is too long for the parser, or is not one token.
ASSUME RpcAssumption ==
    /\ \A p \in Plans :
        /\ \A c \in Channels : p[c] \in Seq(Seq(STRING)) /\ \A n \in DOMAIN p[c] : Request(p[c][n])
        /\ {p.events, p.pings, p.parts, p.losses} \subseteq Nat
    /\ \A r \in DOMAIN Resources : r[2] \notin {"long", "other"} /\ Resources[r] \in Seq(STRING)
    /\ \A t \in DOMAIN Embedded : Embedded[t] \in Keywords \cup {""}
    /\ {RxCap, TxCap, DrainMax, EventMax} \subseteq Nat \ {0}
    /\ TxThreshold \in Nat

VARIABLES
    pc,       \* where the main loop is
    popped,   \* cnt of drain_event_queue
    parser,   \* RPCStreamProcessor, by channel
    rx,       \* rx_buffer, by channel
    out,      \* tx_buffer, txing and the chunk espconn is sending, by channel
    link,     \* conn_status, the socket, the number of the connection
    queue,    \* event_q_external
    wire,     \* messages of the server under way to the node
    plan,     \* the requests the server sends on each channel, and bounds on events,
              \* pings, messages that arrive in parts and connections lost
    world,    \* how much of that has happened
    heard,    \* what the server has read
    calls,    \* the last call of a resource method
    hist      \* what has gone wrong so far, and why

node == <<pc, popped, parser, rx, out, queue>>
vars == <<node, link, wire, plan, world, heard, calls, hist>>

Nul == [tok |-> "nul", id |-> 0]
NoSegment == [val |-> "", ids |-> {}]
NoMsg == <<"none", 0>>

\* The parser between two requests; what is left of the last one in its other
\* fields is not read again.
NoRequest ==
    [stage |-> "REQ_TYPE", window |-> "", phantom |-> FALSE, verb |-> "",
     grove |-> NoSegment, method |-> NoSegment, seg |-> NoSegment,
     args |-> <<>>, mem |-> "", msg |-> NoMsg]

\* rpc_server_init and the static state before it.
Init ==
    /\ pc = "loop" /\ popped = 0
    /\ parser = [c \in Channels |-> NoRequest]
    /\ rx = [c \in Channels |-> <<>>]
    /\ out = [c \in Channels |-> [tx |-> <<>>, txing |-> FALSE, flight |-> <<>>]]
    /\ link = [c \in Channels |-> [status |-> "alive", up |-> TRUE, no |-> 1]]
    /\ queue = <<>>
    /\ wire = [c \in Channels |-> <<>>]
    /\ plan \in Plans
    /\ world = [sent |-> [c \in Channels |-> 0], events |-> 0, pings |-> 0, parts |-> 0, losses |-> 0]
    /\ heard = [c \in Channels |-> [line |-> <<>>, replies |-> <<>>, events |-> <<>>]]
    /\ calls = [c \in Channels |-> <<>>]
    /\ hist = [cut |-> {}, bad |-> {}, gone |-> {}, split |-> {}, hurt |-> {}, updates |-> <<>>]

-----------------------------------------------------------------------------
(* The send buffer.  An operator on it takes and returns a record of out   *)
(* and the messages that lost a piece.                                     *)

\* Characters of a piece, to the scale of TxCap: the longer ones count two.
Size(p) == IF p.part \in {"open", "status"} THEN 2 ELSE 1
Occupied(s) == FoldLeft(LAMBDA n, p : n + Size(p), 0, s)

\* Mutant: the flag is not cleared when everything is sent.
KeepsTxing(o) ==
    IF o.tx # <<>> THEN [o EXCEPT !.tx = <<>>, !.txing = TRUE, !.flight = o.tx]
                   ELSE [o EXCEPT !.flight = <<>>]

\* Mutant: what is sent stays in the buffer.
SendsAgain(o) ==
    IF o.tx # <<>> THEN [o EXCEPT !.txing = TRUE, !.flight = o.tx]
                   ELSE [o EXCEPT !.flight = <<>>, !.txing = FALSE]

\* connection_tx_write_finish_cb: everything buffered is given to espconn.
TxWriteFinish(o) ==
    IF o.tx # <<>> THEN [o EXCEPT !.tx = <<>>, !.txing = TRUE, !.flight = o.tx]
                   ELSE [o EXCEPT !.flight = <<>>, !.txing = FALSE]

\* Mutant: sends although the previous chunk is still on its way.
PutsOver(c, w, p) ==
    IF link[c].status # "alive" \/ Occupied(w.out.tx) + Size(p) > TxCap
    THEN [w EXCEPT !.cut = @ \cup {p.msg}]
    ELSE LET o == [w.out EXCEPT !.tx = Append(@, p)]
         IN  [w EXCEPT !.out = IF p.part = "close" THEN TxWriteFinish(o) ELSE o]

\* network_puts of one piece: refused unless the channel is alive and there is
\* room; the end of a line, or much to send, starts sending.
NetworkPuts(c, w, p) ==
    IF link[c].status # "alive" \/ Occupied(w.out.tx) + Size(p) > TxCap
    THEN [w EXCEPT !.cut = @ \cup {p.msg}]
    ELSE LET o == [w.out EXCEPT !.tx = Append(@, p)]
         IN  [w EXCEPT !.out =
                IF (p.part = "close" \/ Occupied(o.tx) > TxThreshold) /\ ~o.txing
                THEN TxWriteFinish(o) ELSE o]

\* The pieces of a message put one after the other.  A close names what its
\* message consists of.
PutAll(c, w, msg, parts, whole) ==
    FoldLeft(LAMBDA v, part : NetworkPuts(c, v,
                [msg |-> msg, part |-> part, no |-> link[c].no,
                 whole |-> IF part = "close" THEN whole ELSE <<>>]),
             w, parts)

Unhurt(c) == [out |-> out[c], cut |-> {}]

\* Another message written while an answer is open runs into its line.
Intruded(c) == IF parser[c].msg # NoMsg THEN {parser[c].msg} ELSE {}

Event == <<"open", "body", "close">>

-----------------------------------------------------------------------------
(* The parser.  A round takes tokens from the front of rx[c].               *)

Peek(c, n) == IF Len(rx[c]) >= n THEN rx[c][n] ELSE Nul
Consume(c, n) == rx' = [rx EXCEPT ![c] = SubSeq(@, n + 1, Len(@))]
Multi(t) == t.tok \notin Separators

Collect(s, t) == [val |-> IF s.val = "" THEN t.tok ELSE "other", ids |-> s.ids \cup {t.id}]

\* What buff[1] to buff[3] hold when the parser is back at the request type:
\* the keyword inside the segment that was stored last, if any.
Leftover(p) == IF p.mem \in DOMAIN Embedded THEN Embedded[p.mem] ELSE ""

\* Back at the request type.
BackToReqType(p) ==
    [NoRequest EXCEPT !.window = Leftover(p), !.phantom = Leftover(p) # "",
                      !.mem = p.mem]

\* The parser of channel c becomes p and has put the pieces parts of message
\* msg, which consists of whole.
Reply(c, p, msg, parts, whole) ==
    LET w == PutAll(c, Unhurt(c), msg, parts, whole)
    IN  /\ parser' = [parser EXCEPT ![c] = p]
        /\ out' = [out EXCEPT ![c] = w.out]
        /\ hist' = [hist EXCEPT !.cut = @ \cup w.cut]

Silent(c, p) ==
    /\ parser' = [parser EXCEPT ![c] = p]
    /\ UNCHANGED <<out, hist>>

NotFound(c) ==
    Reply(c, BackToReqType(parser[c]), parser[c].msg, <<"body", "status", "close">>,
          <<"open", "body", "status", "close">>)

\* The keyword the window and the token just read spell, and how many tokens
\* are read by then: GET, OTA and APP are recognised a character late.
Match(p, t) ==
    IF p.window # "" THEN p.window ELSE IF t.tok = "POST" THEN "POST" ELSE ""

\* After a request type the next character has to be the root.
Root(c, verb, n) ==
    LET t == Peek(c, n)
        p == parser[c]
        msg == <<IF p.phantom THEN "phantom" ELSE "reply", Peek(c, 1).id>>
        found == t.tok = "/"
        w == PutAll(c, Unhurt(c), msg,
                    IF found THEN <<"open">> ELSE <<"open", "body", "status", "close">>,
                    <<"open", "body", "status", "close">>)
    IN  /\ Consume(c, n)
        /\ out' = [out EXCEPT ![c] = w.out]
        /\ hist' = [hist EXCEPT !.cut = @ \cup w.cut]
        /\ parser' = [parser EXCEPT ![c] =
                IF found
                THEN [p EXCEPT !.stage = "GROVE_NAME", !.verb = verb, !.window = "",
                               !.seg = NoSegment, !.msg = msg, !.args = <<>>]
                ELSE [p EXCEPT !.window = "", !.phantom = FALSE]]

\* case PARSE_REQ_TYPE
ReqType(c) ==
    LET p == parser[c]
        t == Peek(c, 1)
        hit == Match(p, t)
        next == [p EXCEPT !.window = "", !.phantom = FALSE]
        msg == <<IF p.phantom THEN "phantom" ELSE "reply", t.id>>
    IN  CASE hit = "GET" ->
                Root(c, "GET", IF Multi(t) THEN 1 ELSE 2)
          [] hit = "POST" ->
                Root(c, "POST", IF Multi(Peek(c, 2)) THEN 2 ELSE 3)
          [] hit = "OTA" ->
                /\ Consume(c, 1)
                /\ Reply(c, [next EXCEPT !.stage = "OTA", !.phantom = p.phantom], msg, Event, Event)
          [] hit = "APP" ->
                /\ Consume(c, 1)
                /\ Reply(c, [next EXCEPT !.stage = "APP_NUM", !.msg = msg], msg, <<"open">>, <<>>)
          [] OTHER ->
                /\ Consume(c, 1)
                /\ Silent(c, [next EXCEPT !.window =
                                IF t.tok \in Keywords THEN t.tok ELSE ""])

\* Mutant: the rest of a long method name is skipped up to a "/" only.
StopsAtRoot(c) ==
    IF parser[c].stage \in {"OTA", "APP_NUM"} THEN {"cr", "lf"}
    ELSE IF Peek(c, 1).tok = "long" THEN {"/"} ELSE {}

\* Some rounds read on until one of these: the rest of a name or an argument that
\* is too long, the end of the line after OTA or APP.
Stops(c) ==
    LET long == Peek(c, 1).tok = "long"
    IN  CASE parser[c].stage = "GROVE_NAME" /\ long         -> {"/"}
          [] parser[c].stage \in {"METHOD", "ARGS"} /\ long -> {"/", "cr", "lf"}
          [] parser[c].stage \in {"OTA", "APP_NUM"}         -> {"cr", "lf"}
          [] OTHER                                          -> {}

\* The tokens such a round reads, or 0: then it never ends.
Skip(c) ==
    IF Stops(c) = {} THEN 1
    ELSE LET stops == Stops(c) IN SelectInSeq(rx[c], LAMBDA t : t.tok \in stops)

\* The loop does not yield, so nothing can arrive; the watchdog resets the node.
Hang(c) ==
    /\ pc' = "hung"
    /\ rx' = [rx EXCEPT ![c] = <<>>]
    /\ UNCHANGED <<parser, out, hist, calls>>

\* A character of a name or an argument is stored.
Store(p, t) ==
    [p EXCEPT !.seg = Collect(@, t), !.mem = IF p.seg.val = "" THEN t.tok ELSE @]

\* case PARSE_GROVE_NAME
GroveName(c) ==
    LET p == parser[c]
        t == Peek(c, 1)
        named(q) == [q EXCEPT !.stage = "METHOD", !.grove = q.seg, !.seg = NoSegment]
    IN  /\ Consume(c, Skip(c))
        /\ CASE t.tok \in {"cr", "lf"} /\ p.seg.val = ".well-known" ->
                    Silent(c, [p EXCEPT !.stage = "WELL_KNOWN"])
             [] t.tok \in {"cr", "lf"} /\ p.seg.val # ".well-known" -> NotFound(c)
             [] t.tok = "/"    -> Silent(c, named(p))
             [] t.tok = "long" -> Silent(c, named(Store(p, t)))
             [] OTHER          -> Silent(c, Store(p, t))

\* case PARSE_METHOD
Method(c) ==
    LET p == parser[c]
        t == Peek(c, 1)
        end == Peek(c, Skip(c)).tok
        named(q) == [q EXCEPT !.method = q.seg, !.seg = NoSegment,
                              !.stage = IF end = "/" THEN "PRE_ARGS" ELSE "CHECK_ARGS"]
    IN  /\ Consume(c, Skip(c))
        /\ CASE t.tok \in {"/", "cr", "lf"} -> Silent(c, named(p))
             [] t.tok = "long"              -> Silent(c, named(Store(p, t)))
             [] OTHER                       -> Silent(c, Store(p, t))

\* __find_resource
Target(c) == <<parser[c].verb, parser[c].grove.val, parser[c].method.val>>
Found(c) == Target(c) \in DOMAIN Resources
ArgTypes(c) == Resources[Target(c)]

\* case CHECK_ARGS
CheckArgs(c) ==
    /\ UNCHANGED rx
    /\ IF ~Found(c) \/ ArgTypes(c) # <<>> THEN NotFound(c)
       ELSE Silent(c, [parser[c] EXCEPT !.stage = "CALL"])

\* case PRE_PARSE_ARGS
PreParseArgs(c) ==
    /\ UNCHANGED rx
    /\ IF ~Found(c) THEN NotFound(c)
       ELSE Silent(c, [parser[c] EXCEPT !.stage = "ARGS", !.seg = NoSegment])

\* Mutant: only the last argument is looked at.
MissingLast(c, n, last) == n <= Len(ArgTypes(c)) /\ last.val = ""

\* Whether the line that ends in the n-th argument gives too few.
Missing(c, n, last) ==
    \/ Len(ArgTypes(c)) > n
    \/ Len(ArgTypes(c)) = n /\ last.val = ""

\* case PARSE_ARGS.  An argument that is too long is cut and ends the line, even
\* at a "/": it is then taken for the next argument as well.
ParseArgs(c) ==
    LET t == Peek(c, 1)
        long == t.tok = "long"
        p == IF long THEN Store(parser[c], t) ELSE parser[c]
        given == IF long /\ Peek(c, Skip(c)).tok = "/" THEN p.args \o <<p.seg, p.seg>>
                                                       ELSE Append(p.args, p.seg)
        more == [p EXCEPT !.args = given, !.seg = NoSegment]
        ends == long \/ t.tok \in {"cr", "lf"}
    IN  /\ Consume(c, Skip(c))
        /\ CASE ends /\ Missing(c, Len(given), p.seg)  -> NotFound(c)
             [] ends /\ ~Missing(c, Len(given), p.seg) -> Silent(c, [more EXCEPT !.stage = "CALL"])
             [] t.tok = "/"                            -> Silent(c, more)
             [] OTHER                                  -> Silent(c, Store(p, t))

\* What the method finds: a string argument is a pointer to buff, which holds
\* the last argument by then.
Passed(types, args) ==
    [i \in 1..Len(types) |-> IF types[i] = "str" THEN Last(args).val ELSE args[i].val]

\* case PARSE_CALL: the method prints and returns whether it succeeded.
ParseCall(c) ==
    LET p == parser[c]
        args == SubSeq(p.args, 1, Len(p.args))
    IN  /\ UNCHANGED rx
        /\ calls' = [calls EXCEPT ![c] = <<
                [ids |-> {p.msg[2]} \cup UNION {s.ids : s \in {p.grove, p.method} \cup ToSet(args)},
                 types |-> ArgTypes(c), given |-> [i \in DOMAIN args |-> args[i].val],
                 passed |-> Passed(ArgTypes(c), args)]>>]
        /\ \E ok \in BOOLEAN :
             LET parts == IF ok THEN <<"body", "close">> ELSE <<"body", "status", "close">>
             IN  Reply(c, BackToReqType(p), p.msg, parts, <<"open">> \o parts)

\* writer_block_print in print_well_known: waits, yielding, while there is no
\* room, and gives up when the channel is not alive.
PrintWellKnown(c) ==
    /\ link["data"].status = "alive" => Occupied(out["data"].tx) + 1 <= TxCap
    /\ UNCHANGED rx
    /\ Reply(c, BackToReqType(parser[c]), parser[c].msg, <<"body", "close">>, Event)

\* case GET_APP_NUM
GetAppNum(c) ==
    /\ Consume(c, Skip(c))
    /\ Reply(c, [parser[c] EXCEPT !.stage = "REQ_TYPE", !.msg = NoMsg], parser[c].msg,
             <<"body", "close">>, Event)

\* case DIVE_INTO_OTA and ota_start up to its delay, which yields.
DiveIntoOta(c) ==
    LET p == parser[c]
        w == PutAll("cmd", Unhurt("cmd"), <<"started", Len(hist.updates)>>, Event, Event)
    IN  /\ Consume(c, Skip(c))
        /\ parser' = [parser EXCEPT ![c] = [p EXCEPT !.stage = "REQ_TYPE", !.phantom = FALSE]]
        /\ out' = [out EXCEPT !["cmd"] = w.out]
        /\ hist' = [hist EXCEPT !.cut = @ \cup w.cut \cup Intruded("cmd"),
                                !.updates = Append(@, [asked |-> ~p.phantom, on |-> c])]
        /\ pc' = "starting"

\* A round of process_stream.
Round(c) ==
    LET at == parser[c].stage
        stay == UNCHANGED <<pc, calls>>
    IN  \/ at = "REQ_TYPE"   /\ ReqType(c)        /\ stay
        \/ at = "GROVE_NAME" /\ GroveName(c)      /\ stay
        \/ at = "METHOD"     /\ Method(c)         /\ stay
        \/ at = "CHECK_ARGS" /\ CheckArgs(c)      /\ stay
        \/ at = "PRE_ARGS"   /\ PreParseArgs(c)   /\ stay
        \/ at = "ARGS"       /\ ParseArgs(c)      /\ stay
        \/ at = "CALL"       /\ ParseCall(c)      /\ UNCHANGED pc
        \/ at = "WELL_KNOWN" /\ PrintWellKnown(c) /\ stay
        \/ at = "OTA"        /\ DiveIntoOta(c)    /\ UNCHANGED calls
        \/ at = "APP_NUM"    /\ GetAppNum(c)      /\ stay

-----------------------------------------------------------------------------
(* The main loop.                                                          *)

Alive == {c \in Channels : link[c].status = "alive"}

\* wio_loop calls rpc_server_loop if either channel is alive.
WioLoop ==
    /\ pc = "loop" /\ Alive # {}
    /\ pc' = "drain" /\ popped' = 0
    /\ UNCHANGED <<parser, rx, out, queue, link, wire, plan, world, heard, calls, hist>>

\* Mutant: the event reported last is sent first.
DrainNewest ==
    /\ pc = "drain"
    /\ IF queue = <<>> \/ popped = DrainMax
       THEN pc' = "data" /\ UNCHANGED <<popped, out, queue, hist>>
       ELSE LET w == PutAll("data", Unhurt("data"), <<"event", Last(queue)>>, Event, Event)
            IN  /\ queue' = Front(queue)
                /\ out' = [out EXCEPT !["data"] = w.out]
                /\ hist' = [hist EXCEPT !.cut = @ \cup w.cut \cup Intruded("data")]
                /\ popped' = popped + 1
                /\ UNCHANGED pc
    /\ UNCHANGED <<parser, rx, link, wire, plan, world, heard, calls>>

\* drain_event_queue up to a yield: an event is taken, then counted.
DrainEventQueue ==
    /\ pc = "drain"
    /\ CASE queue = <<>> ->
                pc' = "data" /\ UNCHANGED <<popped, out, queue, hist>>
         [] queue # <<>> /\ popped = DrainMax ->
                /\ pc' = "data"
                /\ queue' = Tail(queue)
                /\ hist' = [hist EXCEPT !.gone = @ \cup {Head(queue)}]
                /\ UNCHANGED <<popped, out>>
         [] OTHER ->
                LET w == PutAll("data", Unhurt("data"), <<"event", Head(queue)>>, Event, Event)
                IN  /\ queue' = Tail(queue)
                    /\ out' = [out EXCEPT !["data"] = w.out]
                    /\ hist' = [hist EXCEPT !.cut = @ \cup w.cut \cup Intruded("data")]
                    /\ popped' = popped + 1
                    /\ UNCHANGED pc
    /\ UNCHANGED <<parser, rx, link, wire, plan, world, heard, calls>>

\* process_stream up to a yield, or to its end.
ProcessStream(c) ==
    /\ pc = c
    /\ IF rx[c] # <<>> \/ parser[c].stage \in {"CALL", "WELL_KNOWN"}
       THEN IF Stops(c) # {} /\ Skip(c) = 0 THEN Hang(c) ELSE Round(c)
       ELSE /\ pc' = (IF c = "data" THEN "cmd" ELSE "loop")
            /\ UNCHANGED <<parser, rx, out, hist, calls>>
    /\ UNCHANGED <<popped, queue, link, wire, plan, world, heard>>

\* ota_start after its delay: both connections are closed.
OtaDisconnects ==
    /\ pc = "starting" /\ pc' = "updating"
    /\ link' = [c \in Channels |-> [link[c] EXCEPT !.up = FALSE]]
    /\ wire' = [c \in Channels |-> <<>>]
    /\ hist' = [hist EXCEPT !.hurt = @ \cup hist.split]
    /\ UNCHANGED <<popped, parser, rx, out, queue, plan, world, heard, calls>>

\* ota_response: the loop that waits for ota_fini ends, the parser goes on, and
\* the node reboots within a second.
OtaResponse ==
    /\ pc = "updating"
    /\ pc' = Last(hist.updates).on
    /\ UNCHANGED <<popped, parser, rx, out, queue, link, wire, plan, world, heard, calls, hist>>

RebootFires ==
    /\ hist.updates # <<>> /\ pc \notin {"hung", "starting", "updating", "reboot"}
    /\ \A c \in Channels : ~link[c].up
    /\ pc' = "reboot"
    /\ UNCHANGED <<popped, parser, rx, out, queue, link, wire, plan, world, heard, calls, hist>>

-----------------------------------------------------------------------------
(* The SDK's callbacks, interrupts and the server.                          *)

\* The node can run a callback.
Yields == pc \notin {"hung", "reboot"}

\* rpc_server_event_report, from an interrupt, a driver or the user's code.
ReportEvent ==
    LET n == world.events + 1
    IN  /\ Yields /\ n <= plan.events
        /\ world' = [world EXCEPT !.events = n]
        /\ IF Len(queue) >= EventMax
           THEN hist' = [hist EXCEPT !.gone = @ \cup {n}] /\ UNCHANGED queue
           ELSE queue' = Append(queue, n) /\ UNCHANGED hist
        /\ UNCHANGED <<pc, popped, parser, rx, out, link, wire, plan, heard, calls>>

\* The server writes a request; ids grow.
SendRequest(c) ==
    /\ link[c].status = "alive" /\ link[c].up /\ world.sent[c] < Len(plan[c])
    /\ LET n == world.sent[c] + 1
           toks == plan[c][n]
       IN  wire' = [wire EXCEPT ![c] = Append(@, [i \in DOMAIN toks |-> [tok |-> toks[i], id |-> n]])]
    /\ world' = [world EXCEPT !.sent[c] = @ + 1]
    /\ UNCHANGED <<node, link, plan, heard, calls, hist>>

Ping == <<[tok |-> "##PING##", id |-> 0]>>

SendPing(c) ==
    /\ link[c].status = "alive" /\ link[c].up /\ world.pings < plan.pings
    /\ wire' = [wire EXCEPT ![c] = Append(@, Ping)]
    /\ world' = [world EXCEPT !.pings = @ + 1]
    /\ UNCHANGED <<node, link, plan, heard, calls, hist>>

\* connection_recv_cb with a segment that holds the next k messages.  A ping at
\* the front hides the rest, and so does the padding of the l-th one; every ping
\* is padded.
Deliver(c) ==
    /\ Yields /\ link[c].status = "alive" /\ link[c].up
    /\ \E k \in 1..Len(wire[c]), l \in 1..Len(wire[c]) :
        /\ l <= k /\ \A i \in 1..l - 1 : wire[c][i] # Ping
        /\ wire' = [wire EXCEPT ![c] = SubSeq(@, k + 1, Len(@))]
        /\ IF wire[c][1] = Ping
           THEN LET alive == PutAll(c, Unhurt(c), <<"alive", world.pings>>,
                                    IF c = "data" THEN <<"close">> ELSE Event,
                                    IF c = "data" THEN <<"close">> ELSE Event)
                IN  /\ out' = [out EXCEPT ![c] = alive.out]
                    /\ hist' = [hist EXCEPT !.cut = @ \cup alive.cut \cup Intruded(c)]
                    /\ UNCHANGED rx
           ELSE LET text == FlattenSeq(SubSeq(wire[c], 1, l))
                    room == RxCap - Len(rx[c])
                IN  /\ rx' = [rx EXCEPT ![c] = @ \o SubSeq(text, 1, IF room < Len(text) THEN room ELSE Len(text))]
                    /\ hist' = IF room < Len(text) THEN [hist EXCEPT !.hurt = @ \cup {c}] ELSE hist
                    /\ UNCHANGED out
    /\ UNCHANGED <<pc, popped, parser, queue, link, plan, world, heard, calls>>

\* The same with the first part of a message.
DeliverPart(c) ==
    /\ Yields /\ link[c].status = "alive" /\ link[c].up /\ wire[c] # <<>>
    /\ world.parts < plan.parts
    /\ world' = [world EXCEPT !.parts = @ + 1]
    /\ \E i \in 1..Len(wire[c][1]) - 1 :
        /\ Len(rx[c]) + i <= RxCap
        /\ rx' = [rx EXCEPT ![c] = @ \o SubSeq(wire[c][1], 1, i)]
        /\ wire' = [wire EXCEPT ![c][1] = SubSeq(@, i + 1, Len(@))]
    /\ hist' = [hist EXCEPT !.split = @ \cup {c}]
    /\ UNCHANGED <<pc, popped, parser, out, queue, link, plan, heard, calls>>

\* What the server makes of a piece: a line that is one message of this connection,
\* whole, is understood.
Hear(c, h, p) ==
    LET line == Append(h.line, p)
        whole == /\ \A q \in ToSet(line) : q.msg = p.msg /\ q.no = link[c].no
                 /\ [i \in DOMAIN line |-> line[i].part] = p.whole
    IN  IF p.part # "close" \/ p.no # link[c].no THEN [h EXCEPT !.line = line]
        ELSE IF ~whole THEN [h EXCEPT !.line = <<>>, !.bad = @ \cup {{q.msg : q \in ToSet(line)}}]
        ELSE CASE p.msg[1] = "event" ->
                    [h EXCEPT !.line = <<>>, !.events = Append(@, p.msg[2])]
               [] p.msg[1] \in {"reply", "phantom"} ->
                    [h EXCEPT !.line = <<>>, !.replies = Append(@, p.msg)]
               [] OTHER -> [h EXCEPT !.line = <<>>]

HearAll(c, h, chunk) == FoldLeft(LAMBDA g, p : Hear(c, g, p), h, chunk)

\* The chunk under way is acknowledged.
Sent(c) ==
    LET h == HearAll(c, [line |-> heard[c].line, replies |-> heard[c].replies,
                         events |-> heard[c].events, bad |-> hist.bad], out[c].flight)
    IN  /\ Yields /\ link[c].up /\ out[c].flight # <<>>
        /\ heard' = [heard EXCEPT ![c] = [line |-> h.line, replies |-> h.replies, events |-> h.events]]
        /\ hist' = [hist EXCEPT !.bad = h.bad]
        /\ out' = [out EXCEPT ![c] = TxWriteFinish(@)]
        /\ UNCHANGED <<pc, popped, parser, rx, queue, link, wire, plan, world, calls>>

\* The socket dies, with an error or in silence.
ConnectionLost(c) ==
    /\ Yields /\ link[c].up /\ world.losses < plan.losses
    /\ world' = [world EXCEPT !.losses = @ + 1]
    /\ \E status \in {"down", link[c].status} :
         link' = [link EXCEPT ![c].up = FALSE, ![c].status = status]
    /\ wire' = [wire EXCEPT ![c] = <<>>]
    /\ hist' = [hist EXCEPT !.hurt = @ \cup (hist.split \cap {c})]
    /\ UNCHANGED <<node, plan, heard, calls>>

\* keepalive_check_timer_fn, of a silent channel; ota_start keeps it from firing.
KeepaliveCheck(c) ==
    /\ Yields /\ pc \notin {"starting", "updating"} /\ hist.updates = <<>>
    /\ link[c].status = "alive" /\ ~link[c].up
    /\ link' = [link EXCEPT ![c].status = "down"]
    /\ UNCHANGED <<node, wire, plan, world, heard, calls, hist>>

\* Messages that will not reach the server whole when channel c gets a new connection.
Pending(c) == {p.msg : p \in ToSet(out[c].tx \o out[c].flight \o heard[c].line)} \cup Intruded(c)

\* connection_connected_callback; the hello is sent, and its acknowledgement
\* sends what the last connection left in the buffer.
Connected(c) ==
    /\ Yields /\ link[c].status = "down"
    /\ link' = [link EXCEPT ![c] = [status |-> "hello", up |-> TRUE, no |-> @.no + 1]]
    /\ heard' = [heard EXCEPT ![c].line = <<>>]
    /\ hist' = [hist EXCEPT !.cut = @ \cup Pending(c)]
    /\ out' = [out EXCEPT ![c] = TxWriteFinish([@ EXCEPT !.flight = <<>>])]
    /\ UNCHANGED <<pc, popped, parser, rx, queue, wire, plan, world, calls>>

\* connection_confirm_hello
ConfirmHello(c) ==
    /\ Yields /\ link[c].status = "hello" /\ link[c].up
    /\ link' = [link EXCEPT ![c].status = "alive"]
    /\ UNCHANGED <<node, wire, plan, world, heard, calls, hist>>

-----------------------------------------------------------------------------
MainLoop ==
    \/ WioLoop \/ DrainEventQueue \/ OtaDisconnects
    \/ \E c \in Channels : ProcessStream(c)

Next ==
    \/ MainLoop \/ OtaResponse \/ RebootFires \/ ReportEvent
    \/ \E c \in Channels :
        \/ SendRequest(c) \/ SendPing(c) \/ Deliver(c) \/ DeliverPart(c)
        \/ Sent(c) \/ ConnectionLost(c) \/ KeepaliveCheck(c)
        \/ Connected(c) \/ ConfirmHello(c)

\* The main loop runs on, the server acknowledges what it reads, and an update
\* ends: the SDK answers within check_times.
Fairness ==
    /\ WF_vars(MainLoop) /\ WF_vars(OtaResponse)
    /\ \A c \in Channels : WF_vars(Sent(c)) /\ WF_vars(KeepaliveCheck(c))

Spec == Init /\ [][Next]_vars
FairSpec == Spec /\ Fairness

-----------------------------------------------------------------------------
(* Properties.                                                             *)

\* Every line the server cannot use has a message in it that lost a piece to a
\* full buffer, that another message ran into, or that a connection's end took
\* apart (network_puts, response_msg_open and response_msg_close).
BrokenLinesExplained == \A b \in hist.bad : b \cap hist.cut # {}

\* A method is called with the names and arguments of one request, all that it
\* declares, unless the stream lost characters or came in parts; a string that is
\* not the last argument is the last argument instead (rpc_server.cpp 208, 391-451).
CallsWhole ==
    \A c \in Channels : calls[c] # <<>> =>
        LET call == calls[c][1]
        IN  /\ Len(call.given) >= Len(call.types)
            /\ c \notin hist.hurt => Cardinality(call.ids) = 1
            /\ \A i \in DOMAIN call.types :
                call.types[i] # "str" \/ i = Len(call.given) => call.passed[i] = call.given[i]

\* The server hears the answers to its requests in their order and each once,
\* although they may come on a later connection than the request did.
AnswersInOrder ==
    \A c \in Channels :
        LET replies == SelectSeq(heard[c].replies, LAMBDA m : m[1] = "reply")
        IN  \A i, j \in DOMAIN replies : i < j => replies[i][2] < replies[j][2]

\* The server hears events in the order they were reported, each once, and misses
\* one only if a full queue, the end of a call of drain_event_queue or a cut line
\* took it.
EventsInOrder ==
    LET heardEv == heard["data"].events
        missed == {n \in 1..(IF heardEv = <<>> THEN 0 ELSE Last(heardEv)) : n \notin ToSet(heardEv)}
    IN  /\ \A i, j \in DOMAIN heardEv : i < j => heardEv[i] < heardEv[j]
        /\ \A n \in missed : n \in hist.gone \/ <<"event", n>> \in hist.cut \cup UNION hist.bad

\* What the server hears is in order, answers and events.
HeardInOrder == AnswersInOrder /\ EventsInOrder

\* A request with a name that is too long and no "/" behind it.
Endless(toks) ==
    \E i \in DOMAIN toks : toks[i] = "long" /\ \A j \in i + 1..Len(toks) : toks[j] # "/"

\* The parser stops dead only when a message came in parts or was cut short, in a grove
\* name that is too long and has no method behind it, or at a ping that came behind a
\* request and was read as the rest of a keyword hidden in that one (rpc_server.cpp
\* 314, 442-478).
HangsOnlyHurt ==
    pc = "hung" =>
        \/ hist.split \cup hist.hurt # {}
        \/ \E c \in Channels :
            \/ parser[c].stage = "GROVE_NAME" /\ \E n \in 1..world.sent[c] : Endless(plan[c][n])
            \/ parser[c].stage = "OTA" /\ parser[c].phantom /\ world.pings > 0
            \/ parser[c].stage = "APP_NUM" /\ parser[c].msg[1] = "phantom" /\ world.pings > 0

\* The comment of drain_event_queue (rpc_server.cpp 523): an event is reported if
\* the queue is not empty; so only a full queue or the channel takes one away.
EventsReported == hist.gone = {}

\* Nothing stays in a buffer: a channel that is up is not for ever waiting to send,
\* and what it has received is read, until the node stops for an update.
Drains ==
    \A c \in Channels :
        /\ []<>(~out[c].txing \/ ~link[c].up \/ ~Yields)
        /\ []<>(rx[c] = <<>> \/ Alive = {} \/ ~Yields)
=============================================================================
