----------------------------- MODULE NodeNetwork -----------------------------
(***************************************************************************)
(* How a node keeps its two connections to the server, the data channel    *)
(* and the OTA channel (node_main/network.cpp): joining the access point,  *)
(* resolving the servers' names, connecting, the hello, the keepalive      *)
(* check, and the way back from every failure.                             *)
(*                                                                         *)
(* The SDK runs one callback at a time; a step is one callback.  A timer   *)
(* is what it is armed with; time is not modelled, so timers fire in any   *)
(* order.  Each channel has its timers, but the data channel's timer_conn  *)
(* also carries the work both depend on.  The SDK's sockets, its resolver, *)
(* the access point and the server are external.                           *)
(***************************************************************************)
EXTENDS Integers, FiniteSets

CONSTANTS
    TRIES,      \* attempts before a stage is given up; 60 in the code
    RESEND,     \* the hello is sent again after so many checks; 10
    Worlds,     \* see env
    MaxFaults   \* bound: failures of the world around the node

ASSUME NetworkAssumption ==
    /\ TRIES \in Nat \ {0, 1} /\ RESEND \in Nat \ {0}
    /\ Worlds \subseteq [up : SUBSET {0, 1}, named : BOOLEAN, failing : SUBSET {0, 1}]
    /\ MaxFaults \in Nat

Channels == {0, 1}
data == 0
ota == 1

VARIABLES
    status,     \* conn_status
    timerConn,  \* timer_conn: the function it is armed with, or "off"
    timerHello, \* timer_confirm_hello: likewise
    timerAlive, \* timer_keepalive_check: armed or not
    retryCnt,   \* conn_retry_cnt of the data channel
    helloCnt,   \* confirm_hello_retry_cnt
    ipCnt,      \* get_ip_retry_cnt
    getHello,   \* get_hello
    fresh,      \* keepalive_last_recv_time is at most 70 s ago
    env,        \* the channels whose server runs, whether the configuration has
                \* the servers' names, and the channels that failures may hit
    wifi,       \* the station has an address
    dns,        \* names asked for, by channel
    link,       \* the socket of each channel
    stale,      \* channels with an abandoned socket that may still fail
    excused,    \* channels left without a timer by one of the causes below
    faults      \* failures so far

timers == <<timerConn, timerHello, timerAlive>>
counts == <<retryCnt, helloCnt, ipCnt>>
net == <<env, wifi>>
world == <<net, dns, link, stale>>
vars == <<status, timers, counts, getHello, fresh, world, excused, faults>>

\* network_setup and network_normal_mode at boot.
Init ==
    /\ status = [i \in Channels |-> "getip"]
    /\ timerConn = [i \in Channels |-> IF i = data THEN "checkip" ELSE "off"]
    /\ timerHello = [i \in Channels |-> "off"]
    /\ timerAlive = [i \in Channels |-> FALSE]
    /\ retryCnt = 0 /\ helloCnt = [i \in Channels |-> 0] /\ ipCnt = 0
    /\ getHello = [i \in Channels |-> 0]
    /\ fresh = [i \in Channels |-> FALSE]
    /\ env \in Worlds
    /\ wifi = FALSE /\ dns = {}
    /\ link = [i \in Channels |-> "none"]
    /\ stale = {} /\ excused = {} /\ faults = 0

\* A failure of the world around channel i; what both channels share counts as
\* the data channel's.
Fault(i) ==
    /\ i \in env.failing /\ faults < MaxFaults
    /\ faults' = faults + 1

\* One if late: a world that runs takes longer than the node waits for it, or
\* two things that each are due at their own time coincide.
FaultIf(i, late) == (late /\ Fault(i)) \/ (~late /\ UNCHANGED faults)

\* Mutant: one attempt more.
GivesUpLate(n) == n > TRIES + 1

\* The n-th attempt is one too many.
GivesUp(n) == n > TRIES

\* The work of the data channel that ends with connection_init of both.
StartingOver == timerConn[data] \in {"checkip", "restart", "resolve"} \/ dns # {}

\* The server will accept; the connection is established and the hello done.
Connecting(i) == link[i] = "syn" /\ wifi /\ i \in env.up
Live(i) == status[i] = "alive" /\ link[i] = "up"

-----------------------------------------------------------------------------
(* Functions several callbacks call.                                       *)

\* connection_init of the channels in S, which have status st and timers tc
\* before.  The data channel gives up after TRIES attempts.
ConnectionInit(S, st, tc) ==
    LET giveUp == data \in S /\ GivesUp(retryCnt + 1)
        opened == IF giveUp THEN S \ {data} ELSE S
    IN  /\ retryCnt' = CASE data \notin S -> retryCnt
                         [] giveUp        -> 1
                         [] OTHER         -> retryCnt + 1
        /\ status' = IF giveUp THEN [st EXCEPT ![data] = "getip"] ELSE st
        /\ timerConn' = [i \in Channels |->
                CASE i \in opened         -> "confirm"
                  [] i = data /\ giveUp   -> "restart"
                  [] OTHER                -> tc[i]]
        /\ link' = [i \in Channels |->
                IF i \in opened THEN (IF wifi THEN "syn" ELSE "none") ELSE link[i]]
        /\ stale' = stale \cup {i \in opened : link[i] # "none"}
        /\ excused' = {i \in excused : i \notin opened \/ st[i] # "conn"}

\* The name of channel i is resolved, or is not and the old address serves.
Resolved(i, tc) ==
    \/ /\ i = data
       /\ timerConn' = [tc EXCEPT ![data] = "resolve"]
       /\ UNCHANGED <<status, retryCnt, link, stale, excused>>
    \/ /\ i = ota
       /\ ConnectionInit(Channels, [j \in Channels |-> "conn"], tc)

\* start_resolving: the address is known, is asked for, or is refused at once
\* (ESPCONN_ARG), which the code does not look at.
StartResolving(i, st, tc) ==
    \/ /\ Resolved(i, tc)
       /\ IF i = data THEN status' = st ELSE TRUE
       /\ UNCHANGED <<dns, faults>>
    \/ /\ dns' = dns \cup {i}
       /\ status' = st /\ timerConn' = tc
       /\ UNCHANGED <<retryCnt, link, stale, excused, faults>>
    \/ /\ Fault(data)
       /\ excused' = Channels
       /\ status' = st /\ timerConn' = tc
       /\ UNCHANGED <<dns, retryCnt, link, stale>>

\* Mutant: it relies on the timer being armed.
ReconnectUnarmed(i) ==
    /\ status' = [status EXCEPT ![i] = "conn"]
    /\ UNCHANGED <<timerConn, excused>>

\* connection_reconnect_callback.  On the data channel it takes the timer from
\* whatever else it was armed with.
Reconnect(i) ==
    /\ timerConn' = [timerConn EXCEPT ![i] = "init"]
    /\ status' = [status EXCEPT ![i] = "conn"]
    /\ excused' = IF i = data /\ timerConn[data] \in {"checkip", "restart", "resolve"}
                  THEN excused \cup {ota} ELSE excused

-----------------------------------------------------------------------------
(* timer_conn.                                                             *)

\* check_getting_ip_address, every second.
CheckGettingIp ==
    /\ timerConn[data] = "checkip"
    /\ \/ /\ ~wifi
          /\ ipCnt' = ipCnt + 1
          /\ FaultIf(data, GivesUp(ipCnt + 1))
          /\ \/ /\ GivesUp(ipCnt + 1)
                /\ status' = [status EXCEPT ![data] = "getip"]
                /\ timerConn' = [timerConn EXCEPT ![data] = "restart"]
             \/ ~GivesUp(ipCnt + 1) /\ UNCHANGED <<status, timerConn>>
          /\ UNCHANGED <<retryCnt, world, excused>>
       \/ /\ wifi /\ UNCHANGED <<ipCnt, net>>
          /\ LET off == [timerConn EXCEPT ![data] = "off"]
             IN  \/ /\ env.named
                    /\ StartResolving(data, [i \in Channels |-> "resolve"], off)
                 \/ /\ ~env.named
                    /\ ConnectionInit(Channels, [i \in Channels |-> "conn"], off)
                    /\ UNCHANGED <<dns, faults>>
    /\ UNCHANGED <<timerHello, timerAlive, helloCnt, getHello, fresh>>

\* start_resolving for the OTA channel, by the data channel's timer.
ResolveOta ==
    /\ timerConn[data] = "resolve"
    /\ StartResolving(ota, status, [timerConn EXCEPT ![data] = "off"])
    /\ UNCHANGED <<timerHello, timerAlive, helloCnt, ipCnt, getHello, fresh, net>>

\* restart_network_initialization: the station leaves the access point.
RestartNetwork ==
    /\ timerConn[data] = "restart"
    /\ timerConn' = [timerConn EXCEPT ![data] = "checkip"]
    /\ ipCnt' = 0
    /\ wifi' = FALSE
    /\ link' = [i \in Channels |-> IF link[i] = "none" THEN "none" ELSE "gone"]
    /\ UNCHANGED <<env, status, timerHello, timerAlive, retryCnt, helloCnt, getHello, fresh,
                   dns, stale, excused, faults>>

\* connection_init.
Connect(i) ==
    /\ timerConn[i] = "init"
    /\ ConnectionInit({i}, status, [timerConn EXCEPT ![i] = "off"])
    /\ UNCHANGED <<timerHello, timerAlive, helloCnt, ipCnt, getHello, fresh, net, dns, faults>>

\* Mutant: it waits on instead of connecting again.
ConfirmConnectionWaits(i) ==
    /\ timerConn[i] = "confirm"
    /\ timerConn' = [timerConn EXCEPT ![i] = IF status[i] = "conn" THEN "confirm" ELSE "off"]
    /\ UNCHANGED <<status, timerHello, timerAlive, counts, getHello, fresh, world,
                   excused, faults>>

\* connection_confirm_timer_fn, 10 s after connection_init.
ConfirmConnection(i) ==
    /\ timerConn[i] = "confirm"
    /\ \/ /\ status[i] = "conn"
          /\ FaultIf(i, Connecting(i))
          /\ timerConn' = [timerConn EXCEPT ![i] = "init"]
          /\ link' = [link EXCEPT ![i] = "none"]
       \/ /\ status[i] # "conn"
          /\ timerConn' = [timerConn EXCEPT ![i] = "off"]
          /\ UNCHANGED <<link, faults>>
    /\ UNCHANGED <<status, timerHello, timerAlive, counts, getHello, fresh, net, dns,
                   stale, excused>>

-----------------------------------------------------------------------------
(* The hello and the keepalive check.                                      *)

\* connection_connected_callback with connection_send_hello, whose malloc may
\* fail: then there is no hello and no timer, and the status is overwritten.
Connected(i) ==
    /\ Connecting(i)
    /\ status' = [status EXCEPT ![i] = "hello"]
    /\ retryCnt' = IF i = data THEN 0 ELSE retryCnt
    /\ helloCnt' = [helloCnt EXCEPT ![i] = 0]
    /\ \/ /\ getHello' = [getHello EXCEPT ![i] = 0]
          /\ timerHello' = [timerHello EXCEPT ![i] = "confirm"]
          /\ link' = [link EXCEPT ![i] = "asked"]
          /\ UNCHANGED <<excused, faults>>
       \/ /\ Fault(i)
          /\ excused' = excused \cup {i}
          /\ link' = [link EXCEPT ![i] = "up"]
          /\ UNCHANGED <<getHello, timerHello>>
    /\ UNCHANGED <<timerConn, timerAlive, ipCnt, fresh, net, dns, stale>>

\* connection_send_hello by the timer: it forgets an answer it has; without
\* memory the channel is given up.
SendHello(i) ==
    /\ timerHello[i] = "send"
    /\ \/ /\ timerHello' = [timerHello EXCEPT ![i] = "confirm"]
          /\ getHello' = [getHello EXCEPT ![i] = 0]
          /\ UNCHANGED <<status, excused, faults>>
       \/ /\ Fault(i)
          /\ timerHello' = [timerHello EXCEPT ![i] = "off"]
          /\ status' = [status EXCEPT ![i] = "died"]
          /\ excused' = excused \cup {i}
          /\ UNCHANGED getHello
    /\ UNCHANGED <<timerConn, timerAlive, counts, fresh, world>>

\* Checked for the n-th time in vain.
NoHello(i, n) ==
    /\ FaultIf(i, \/ link[i] = "asked" /\ (GivesUp(n) \/ n % RESEND = 0)
                  \/ Connecting(i) /\ GivesUp(n))
    /\ \/ /\ GivesUp(n)
          /\ helloCnt' = [helloCnt EXCEPT ![i] = 1]
          /\ timerHello' = [timerHello EXCEPT ![i] = "off"]
          /\ status' = [status EXCEPT ![i] = IF i = data THEN "getip" ELSE "conn"]
          /\ timerConn' = [timerConn EXCEPT ![i] = IF i = data THEN "restart" ELSE "init"]
       \/ /\ ~GivesUp(n)
          /\ helloCnt' = [helloCnt EXCEPT ![i] = n]
          /\ timerHello' = [timerHello EXCEPT ![i] = IF n % RESEND = 0 THEN "send" ELSE "confirm"]
          /\ UNCHANGED <<status, timerConn>>

\* connection_confirm_hello.
ConfirmHello(i) ==
    /\ timerHello[i] = "confirm"
    /\ \/ /\ getHello[i] = 1
          /\ status' = [status EXCEPT ![i] = "alive"]
          /\ fresh' = [fresh EXCEPT ![i] = TRUE]
          /\ timerAlive' = [timerAlive EXCEPT ![i] = TRUE]
          /\ timerHello' = [timerHello EXCEPT ![i] = "off"]
          /\ UNCHANGED <<timerConn, helloCnt, faults>>
       \/ /\ getHello[i] = 2
          /\ status' = [status EXCEPT ![i] = "died"]
          /\ timerHello' = [timerHello EXCEPT ![i] = "off"]
          /\ UNCHANGED <<timerConn, timerAlive, helloCnt, fresh, faults>>
       \/ /\ getHello[i] = 0
          /\ NoHello(i, helloCnt[i] + 1)
          /\ UNCHANGED <<timerAlive, fresh>>
    /\ UNCHANGED <<retryCnt, ipCnt, getHello, world, excused>>

\* keepalive_check_timer_fn.
KeepaliveCheck(i) ==
    /\ timerAlive[i] /\ ~fresh[i]
    /\ timerAlive' = [timerAlive EXCEPT ![i] = FALSE]
    /\ Reconnect(i)
    /\ UNCHANGED <<timerHello, counts, getHello, fresh, world, faults>>

\* connection_recv_cb with the server's answer, "hello" or "sorry": it counts
\* in WAIT_HELLO_DONE only.
RecvAnswer(i) ==
    /\ link[i] = "asked"
    /\ \/ /\ getHello' = IF status[i] = "hello" THEN [getHello EXCEPT ![i] = 1] ELSE getHello
          /\ link' = [link EXCEPT ![i] = "up"]
          /\ UNCHANGED faults
       \/ /\ Fault(i)
          /\ getHello' = IF status[i] = "hello" THEN [getHello EXCEPT ![i] = 2] ELSE getHello
          /\ link' = [link EXCEPT ![i] = "gone"]
    /\ UNCHANGED <<status, timers, counts, fresh, net, dns, stale, excused>>

-----------------------------------------------------------------------------
(* The rest of the world.                                                  *)

DnsAnswers(i) ==
    /\ i \in dns
    /\ dns' = dns \ {i}
    /\ Resolved(i, timerConn)
    /\ UNCHANGED <<timerHello, timerAlive, helloCnt, ipCnt, getHello, fresh, net, faults>>

WifiJoins ==
    /\ ~wifi /\ wifi' = TRUE
    /\ UNCHANGED <<env, status, timers, counts, getHello, fresh, dns, link, stale,
                   excused, faults>>

WifiLost ==
    /\ wifi /\ Fault(data)
    /\ wifi' = FALSE
    /\ link' = [i \in Channels |-> IF link[i] = "none" THEN "none" ELSE "gone"]
    /\ UNCHANGED <<env, status, timers, counts, getHello, fresh, dns, stale, excused>>

\* The server closes, which the node does not look at, or vanishes.
PeerGone(i) ==
    /\ link[i] \in {"asked", "up"} /\ Fault(i)
    /\ link' = [link EXCEPT ![i] = "gone"]
    /\ UNCHANGED <<status, timers, counts, getHello, fresh, net, dns, stale, excused>>

\* The SDK reports an error: a fault of the world, unless the socket is gone.
ConnError(i) ==
    /\ link[i] # "none"
    /\ FaultIf(i, StartingOver \/ (link[i] # "gone" /\ i \in env.up))
    /\ link' = [link EXCEPT ![i] = "none"]
    /\ Reconnect(i)
    /\ UNCHANGED <<timerHello, timerAlive, counts, getHello, fresh, net, dns, stale>>

\* An error of a socket the channel has abandoned: the callback cannot tell.
LateError(i) ==
    /\ i \in stale /\ Fault(i)
    /\ stale' = stale \ {i}
    /\ Reconnect(i)
    /\ UNCHANGED <<timerHello, timerAlive, counts, getHello, fresh, net, dns, link>>

\* 70 s without a word.  A server that is connected sends a ping every 60 s; that
\* the time is up in the moment of connecting is a coincidence, a failure too.
Silence(i) ==
    /\ timerAlive[i] /\ fresh[i] /\ ~Live(i)
    /\ FaultIf(i, Connecting(i) \/ link[i] \in {"asked", "up"})
    /\ fresh' = [fresh EXCEPT ![i] = FALSE]
    /\ UNCHANGED <<status, timers, counts, getHello, world, excused>>

-----------------------------------------------------------------------------
TimerFires(i) ==
    Connect(i) \/ ConfirmConnection(i) \/ SendHello(i) \/ ConfirmHello(i) \/ KeepaliveCheck(i)

Next ==
    \/ CheckGettingIp \/ ResolveOta \/ RestartNetwork
    \/ WifiJoins \/ WifiLost
    \/ \E i \in Channels :
        \/ TimerFires(i)
        \/ Connected(i) \/ RecvAnswer(i) \/ DnsAnswers(i)
        \/ PeerGone(i) \/ ConnError(i) \/ LateError(i) \/ Silence(i)

Spec == Init /\ [][Next]_vars

\* Timers fire and time passes; the access point, the resolver and a server that
\* runs answer.
Fairness ==
    /\ WF_vars(CheckGettingIp) /\ WF_vars(ResolveOta) /\ WF_vars(RestartNetwork)
    /\ WF_vars(WifiJoins)
    /\ \A i \in Channels :
        /\ WF_vars(TimerFires(i)) /\ WF_vars(Silence(i))
        /\ WF_vars(DnsAnswers(i)) /\ WF_vars(Connected(i)) /\ WF_vars(RecvAnswer(i))

FairSpec == Spec /\ Fairness

-----------------------------------------------------------------------------
(* Correctness.                                                            *)

\* Every variable holds a value of its kind; no count exceeds its limit.
TypeOK ==
    /\ status \in [Channels -> {"getip", "resolve", "conn", "hello", "alive", "died"}]
    /\ timerConn \in [Channels -> {"off", "checkip", "restart", "resolve", "init", "confirm"}]
    /\ timerConn[ota] \in {"off", "init", "confirm"}
    /\ timerHello \in [Channels -> {"off", "confirm", "send"}]
    /\ timerAlive \in [Channels -> BOOLEAN]
    /\ retryCnt \in 0..TRIES /\ helloCnt \in [Channels -> 0..TRIES] /\ ipCnt \in 0..(TRIES + 1)
    /\ getHello \in [Channels -> 0..2]
    /\ fresh \in [Channels -> BOOLEAN]
    /\ wifi \in BOOLEAN /\ dns \subseteq Channels
    /\ link \in [Channels -> {"none", "syn", "asked", "up", "gone"}]
    /\ stale \subseteq Channels /\ excused \subseteq Channels
    /\ faults \in 0..MaxFaults

\* What takes a channel out of each status.
Moving(i) ==
    CASE status[i] \in {"getip", "resolve"} -> StartingOver
      [] status[i] = "conn"  -> timerConn[i] \in {"init", "confirm"} \/ StartingOver
      [] status[i] = "hello" -> timerHello[i] # "off"
      [] status[i] = "alive" -> timerAlive[i]
      [] status[i] = "died"  -> TRUE

\* No channel is left in a status nothing will take it out of, whatever timers
\* of an earlier connection fire in whatever status, except after the server's
\* "sorry" and in the excused cases: a name refused by the resolver, no memory
\* for the hello, and an OTA channel whose turn the data channel's timer forgot.
NeverStranded == \A i \in Channels : Moving(i) \/ i \in excused

\* Counts keep to their limits, and every channel has a way on.
TimersInv == TypeOK /\ NeverStranded

\* When the world fails no more and the data channel's server runs, each channel
\* whose server runs comes to a live connection and stays there, with the same
\* exceptions.
Recovers ==
    \A i \in Channels :
        {data, i} \subseteq env.up =>
            <>[](Live(i) \/ status[i] = "died" \/ i \in excused)
=============================================================================
