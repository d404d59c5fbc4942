--------------------------- MODULE NodeNetworkProofs ---------------------------
(***************************************************************************)
(* Proofs about NodeNetwork, for any number of attempts and failures and   *)
(* any worlds: counts keep to their limits and no channel is left in a     *)
(* status that nothing will take it out of.                                *)
(***************************************************************************)
EXTENDS NodeNetwork, TLAPS

\* Addresses are asked for again only with attempts left.
AttemptsLeft == timerConn[data] = "checkip" => ipCnt <= TRIES

IInv == TypeOK /\ NeverStranded /\ AttemptsLeft

Statuses == {"getip", "resolve", "conn", "hello", "alive", "died"}
Functions == {"off", "checkip", "restart", "resolve", "init", "confirm"}
Timers == {tc \in [Channels -> Functions] : tc[ota] \in {"off", "init", "confirm"}}

\* The parts of TypeOK that connection_init and its callers may change.
Kinds(st, tc, lk, sl, ex) ==
    /\ st \in [Channels -> Statuses] /\ tc \in Timers
    /\ lk \in [Channels -> {"none", "syn", "asked", "up", "gone"}]
    /\ sl \subseteq Channels /\ ex \subseteq Channels

-----------------------------------------------------------------------------
(* What the functions several callbacks call do to the channels.           *)

\* Each opened channel is confirmed 10 s later, or the data channel has given up
\* and starts over; the others are left alone, and a channel stops being excused
\* only when it connects again.
LEMMA ConnectionInitDoes ==
    ASSUME TypeOK, NEW S \in SUBSET Channels, NEW st \in [Channels -> Statuses],
           NEW tc \in Timers, ConnectionInit(S, st, tc)
    PROVE  /\ Kinds(status', timerConn', link', stale', excused') /\ retryCnt' \in 0..TRIES
           /\ \A i \in S :
                 \/ status'[i] = st[i] /\ timerConn'[i] = "confirm"
                 \/ i = data /\ status'[i] = "getip" /\ timerConn'[i] = "restart"
           /\ \A i \in Channels \ S : status'[i] = st[i] /\ timerConn'[i] = tc[i]
           /\ excused' \subseteq excused
           /\ \A i \in excused \ excused' : i \in S /\ status'[i] = "conn" /\ timerConn'[i] = "confirm"
<1> DEFINE giveUp == data \in S /\ GivesUp(retryCnt + 1)
           opened == IF giveUp THEN S \ {data} ELSE S
<1>1. /\ retryCnt' = CASE data \notin S -> retryCnt
                       [] giveUp        -> 1
                       [] OTHER         -> retryCnt + 1
      /\ status' = IF giveUp THEN [st EXCEPT ![data] = "getip"] ELSE st
      /\ timerConn' = [i \in Channels |->
              CASE i \in opened         -> "confirm"
                [] i = data /\ giveUp   -> "restart"
                [] OTHER                -> tc[i]]
      /\ link' = [i \in Channels |->
              IF i \in opened THEN (IF wifi THEN "syn" ELSE "none") ELSE link[i]]
      /\ stale' = stale \cup {i \in opened : link[i] # "none"}
      /\ excused' = {i \in excused : i \notin opened \/ st[i] # "conn"}
  BY DEF ConnectionInit
<1>2. /\ giveUp \in BOOLEAN /\ opened \subseteq S /\ S \subseteq Channels
      /\ giveUp => data \in S
      /\ TRIES \in Nat \ {0, 1} /\ retryCnt \in 0..TRIES
      /\ data \in Channels /\ ota \in Channels /\ data # ota
      /\ link \in [Channels -> {"none", "syn", "asked", "up", "gone"}]
      /\ stale \subseteq Channels /\ excused \subseteq Channels
  BY NetworkAssumption DEF TypeOK, Channels, data, ota
<1>3. retryCnt' \in 0..TRIES
  BY <1>1, <1>2 DEF GivesUp
<1>4. \A i \in Channels : i \in S => i \in opened \/ (i = data /\ giveUp)
  OBVIOUS
<1>5. data \in opened => ~giveUp
  OBVIOUS
<1> HIDE DEF giveUp, opened
<1>6. \A i \in S :
         \/ status'[i] = st[i] /\ timerConn'[i] = "confirm"
         \/ i = data /\ status'[i] = "getip" /\ timerConn'[i] = "restart"
  <2> SUFFICES ASSUME NEW i \in S
               PROVE  \/ status'[i] = st[i] /\ timerConn'[i] = "confirm"
                      \/ i = data /\ status'[i] = "getip" /\ timerConn'[i] = "restart"
    OBVIOUS
  <2>1. CASE i \in opened
    BY <1>1, <1>2, <1>5, <2>1
  <2>2. CASE i \notin opened
    BY <1>1, <1>2, <1>4, <2>2
  <2> QED
    BY <2>1, <2>2
<1>7. \A i \in Channels \ S : status'[i] = st[i] /\ timerConn'[i] = tc[i]
  BY <1>1, <1>2
<1>8. status' \in [Channels -> Statuses]
  BY <1>1, <1>2 DEF Statuses
<1>9. timerConn' \in Timers
  <2>1. tc \in [Channels -> Functions] /\ tc[ota] \in {"off", "init", "confirm"}
    BY DEF Timers
  <2>2. timerConn' \in [Channels -> Functions]
    BY <1>1, <2>1 DEF Functions
  <2>3. timerConn'[ota] \in {"off", "init", "confirm"}
    BY <1>1, <1>2, <2>1
  <2> QED
    BY <2>2, <2>3 DEF Timers
<1>10. link' \in [Channels -> {"none", "syn", "asked", "up", "gone"}]
  BY <1>1, <1>2
<1>11. /\ stale' \subseteq Channels /\ excused' \subseteq Channels
       /\ excused' \subseteq excused
  BY <1>1, <1>2
<1>12. \A i \in excused \ excused' : i \in opened /\ st[i] = "conn"
  BY <1>1
<1>13. \A i \in opened : i \in S /\ status'[i] = st[i] /\ timerConn'[i] = "confirm"
  BY <1>1, <1>2, <1>5
<1> QED
  BY <1>3, <1>6, <1>7, <1>8, <1>9, <1>10, <1>11, <1>12, <1>13 DEF Kinds

\* Nobody is stranded once both channels are connecting, or start over.
LEMMA BothOpened ==
    ASSUME TypeOK, NEW tc \in Timers,
           ConnectionInit(Channels, [i \in Channels |-> "conn"], tc)
    PROVE  /\ Kinds(status', timerConn', link', stale', excused') /\ retryCnt' \in 0..TRIES
           /\ timerConn'[data] # "checkip" /\ NeverStranded'
<1>1. [i \in Channels |-> "conn"] \in [Channels -> Statuses]
  BY DEF Statuses
<1>2. /\ Kinds(status', timerConn', link', stale', excused') /\ retryCnt' \in 0..TRIES
      /\ \A i \in Channels :
            \/ status'[i] = [j \in Channels |-> "conn"][i] /\ timerConn'[i] = "confirm"
            \/ i = data /\ status'[i] = "getip" /\ timerConn'[i] = "restart"
  BY <1>1, ConnectionInitDoes
<1>3. \A i \in Channels :
          \/ status'[i] = "conn" /\ timerConn'[i] = "confirm"
          \/ i = data /\ status'[i] = "getip" /\ timerConn'[i] = "restart"
  BY <1>2
<1>4. NeverStranded'
  BY <1>3 DEF NeverStranded, Moving, StartingOver, data
<1>5. timerConn'[data] # "checkip"
  BY <1>3 DEF Channels, data
<1> QED
  BY <1>2, <1>4, <1>5


\* A channel whose status and timers stay as they are, or that connects, still
\* has a way on.
LEMMA StillMoving ==
    ASSUME TypeOK, NEW i \in Channels, status'[i] = status[i],
           timerConn'[i] = timerConn[i] \/ timerConn'[i] \in {"init", "confirm"},
           timerHello'[i] = timerHello[i], timerAlive'[i] = timerAlive[i],
           StartingOver => StartingOver', Moving(i)
    PROVE  Moving(i)'
<1>1. status[i] \in {"getip", "resolve", "conn", "hello", "alive", "died"}
  BY DEF TypeOK
<1> QED
  BY <1>1 DEF Moving

\* When the work that both channels depend on goes on, so does each.
LEMMA AllMoving ==
    ASSUME TypeOK, NeverStranded, StartingOver', excused \subseteq excused',
           \A i \in Channels :
              \/ /\ status'[i] = status[i] /\ timerHello'[i] = timerHello[i]
                 /\ timerAlive'[i] = timerAlive[i]
              \/ status'[i] \in {"getip", "resolve", "conn", "died"}
    PROVE  NeverStranded'
<1> SUFFICES ASSUME NEW i \in Channels, i \notin excused' PROVE Moving(i)'
  BY DEF NeverStranded
<1>1. Moving(i)
  BY DEF NeverStranded
<1>2. CASE status'[i] \in {"getip", "resolve", "conn", "died"}
  BY <1>2 DEF Moving
<1>3. CASE /\ status'[i] = status[i] /\ timerHello'[i] = timerHello[i]
           /\ timerAlive'[i] = timerAlive[i]
  <2>1. status[i] \in {"getip", "resolve", "conn", "hello", "alive", "died"}
    BY DEF TypeOK
  <2> QED
    BY <1>1, <1>3, <2>1 DEF Moving
<1> QED
  BY <1>2, <1>3

\* start_resolving: the data channel goes on with its timer, or with an answer
\* still to come, or both channels connect, or both are excused.
LEMMA StartResolvingDoes ==
    ASSUME TypeOK, NeverStranded, NEW i \in Channels, NEW st \in [Channels -> Statuses],
           NEW tc \in Timers, tc[data] # "checkip", StartResolving(i, st, tc),
           \A j \in Channels : st[j] = status[j] \/ st[j] = "resolve",
           UNCHANGED <<timerHello, timerAlive>>
    PROVE  /\ Kinds(status', timerConn', link', stale', excused') /\ retryCnt' \in 0..TRIES
           /\ dns' \subseteq Channels /\ faults' \in 0..MaxFaults
           /\ timerConn'[data] # "checkip" /\ NeverStranded'
<1>1. /\ Kinds(st, tc, link, stale, excused) /\ retryCnt \in 0..TRIES
      /\ dns \subseteq Channels /\ faults \in 0..MaxFaults
      /\ data \in Channels /\ ota \in Channels /\ data # ota
      /\ MaxFaults \in Nat
  BY NetworkAssumption DEF TypeOK, Kinds, Channels, data, ota
<1>2. CASE Resolved(i, tc) /\ UNCHANGED <<dns, faults>> /\ (IF i = data THEN status' = st ELSE TRUE)
  <2>1. CASE i = data
    <3>1. /\ timerConn' = [tc EXCEPT ![data] = "resolve"] /\ status' = st
          /\ UNCHANGED <<retryCnt, link, stale, excused>>
      BY <1>1, <1>2, <2>1 DEF Resolved
    <3>2. timerConn'[data] = "resolve" /\ timerConn' \in Timers
      BY <1>1, <3>1 DEF Timers, Functions
    <3>3. NeverStranded'
      BY <3>1, <3>2, AllMoving DEF StartingOver
    <3> QED
      BY <1>1, <1>2, <3>1, <3>2, <3>3 DEF Kinds
  <2>2. CASE i = ota
    <3>1. ConnectionInit(Channels, [j \in Channels |-> "conn"], tc)
      BY <1>1, <1>2, <2>2 DEF Resolved
    <3> QED
      BY <1>1, <1>2, <3>1, BothOpened
  <2> QED
    BY <2>1, <2>2 DEF Channels, data, ota
<1>3. CASE /\ dns' = dns \cup {i} /\ status' = st /\ timerConn' = tc
           /\ UNCHANGED <<retryCnt, link, stale, excused, faults>>
  <2>1. NeverStranded'
    BY <1>3, AllMoving DEF StartingOver
  <2> QED
    BY <1>1, <1>3, <2>1 DEF Kinds
<1>4. CASE /\ Fault(data) /\ excused' = Channels /\ status' = st /\ timerConn' = tc
           /\ UNCHANGED <<dns, retryCnt, link, stale>>
  <2>1. NeverStranded'
    BY <1>4 DEF NeverStranded
  <2>2. faults' \in 0..MaxFaults
    BY <1>1, <1>4 DEF Fault
  <2> QED
    BY <1>1, <1>4, <2>1, <2>2 DEF Kinds
<1> QED
  BY <1>2, <1>3, <1>4 DEF StartResolving

\* connection_reconnect_callback: the channel connects again; the other goes on,
\* or is excused because its turn has been forgotten.
LEMMA ReconnectDoes ==
    ASSUME TypeOK, NeverStranded, NEW i \in Channels, Reconnect(i),
           UNCHANGED <<timerHello, dns>>,
           \A j \in Channels \ {i} : timerAlive'[j] = timerAlive[j]
    PROVE  /\ status' \in [Channels -> Statuses] /\ timerConn' \in Timers
           /\ excused' \subseteq Channels /\ NeverStranded'
           /\ timerConn'[data] = "checkip" => timerConn[data] = "checkip"
<1>1. /\ status \in [Channels -> Statuses] /\ timerConn \in Timers /\ excused \subseteq Channels
      /\ data \in Channels /\ ota \in Channels /\ data # ota
  BY DEF TypeOK, Timers, Statuses, Functions, Channels, data, ota
<1>2. /\ timerConn' = [timerConn EXCEPT ![i] = "init"]
      /\ status' = [status EXCEPT ![i] = "conn"]
      /\ excused \subseteq excused' /\ excused' \subseteq excused \cup {ota}
      /\ i = data /\ timerConn[data] \in {"checkip", "restart", "resolve"} => ota \in excused'
  BY DEF Reconnect
<1>3. status' \in [Channels -> Statuses] /\ timerConn' \in Timers /\ excused' \subseteq Channels
  BY <1>1, <1>2 DEF Timers, Statuses, Functions
<1>4. timerConn'[data] = "checkip" => timerConn[data] = "checkip"
  BY <1>1, <1>2 DEF Timers
<1>5. /\ status'[i] = "conn" /\ timerConn'[i] = "init"
      /\ \A j \in Channels \ {i} : status'[j] = status[j] /\ timerConn'[j] = timerConn[j]
  BY <1>1, <1>2 DEF Timers
<1>6. ASSUME NEW j \in Channels, j \notin excused' PROVE Moving(j)'
  <2>1. CASE j = i
    BY <1>5, <2>1 DEF Moving
  <2>2. CASE j # i
    <3>1. Moving(j)
      BY <1>2, <1>6 DEF NeverStranded
    <3>2. StartingOver => StartingOver'
      <4>1. CASE i = data /\ timerConn[data] \notin {"checkip", "restart", "resolve"}
        BY <4>1 DEF StartingOver
      <4>2. CASE i = data /\ timerConn[data] \in {"checkip", "restart", "resolve"}
        BY <1>2, <1>6, <2>2, <4>2 DEF Channels, data, ota
      <4>3. CASE i # data
        BY <1>1, <1>5, <4>3 DEF StartingOver
      <4> QED
        BY <4>1, <4>2, <4>3
    <3> QED
      BY <1>5, <2>2, <3>1, <3>2, StillMoving
  <2> QED
    BY <2>1, <2>2
<1>7. NeverStranded'
  BY <1>6 DEF NeverStranded
<1> QED
  BY <1>3, <1>4, <1>7

-----------------------------------------------------------------------------
(* timer_conn.                                                             *)

\* What TypeOK says apart from Kinds.
Counts ==
    /\ timerHello \in [Channels -> {"off", "confirm", "send"}]
    /\ timerAlive \in [Channels -> BOOLEAN]
    /\ retryCnt \in 0..TRIES /\ helloCnt \in [Channels -> 0..TRIES]
    /\ ipCnt \in 0..(TRIES + 1) /\ getHello \in [Channels -> 0..2]
    /\ fresh \in [Channels -> BOOLEAN]
    /\ wifi \in BOOLEAN /\ dns \subseteq Channels /\ faults \in 0..MaxFaults

LEMMA TypeParts ==
    /\ TypeOK <=> Kinds(status, timerConn, link, stale, excused) /\ Counts
    /\ TypeOK' <=> Kinds(status', timerConn', link', stale', excused') /\ Counts'
BY DEF TypeOK, Kinds, Counts, Timers, Statuses, Functions

\* The channels, and what the constants are.
LEMMA Basics ==
    /\ data \in Channels /\ ota \in Channels /\ data # ota /\ Channels = {data, ota}
    /\ TRIES \in Nat \ {0, 1} /\ RESEND \in Nat \ {0} /\ MaxFaults \in Nat
BY NetworkAssumption DEF Channels, data, ota

\* A timer armed with another function, or switched off.
LEMMA Armed ==
    ASSUME NEW tc \in Timers, NEW i \in Channels, NEW f \in {"off", "init", "confirm"}
    PROVE  /\ [tc EXCEPT ![i] = f] \in Timers /\ [tc EXCEPT ![i] = f][i] = f
           /\ \A j \in Channels \ {i} : [tc EXCEPT ![i] = f][j] = tc[j]
<1>1. tc \in [Channels -> Functions] /\ tc[ota] \in {"off", "init", "confirm"}
  BY DEF Timers
<1>2. f \in Functions
  BY DEF Functions
<1>3. [tc EXCEPT ![i] = f] \in [Channels -> Functions]
  BY <1>1, <1>2
<1>4. [tc EXCEPT ![i] = f][ota] \in {"off", "init", "confirm"}
  BY <1>1, Basics
<1> QED
  BY <1>1, <1>3, <1>4 DEF Timers

\* A fault is counted, up to the bound.
LEMMA FaultCounts ==
    ASSUME faults \in 0..MaxFaults, NEW i, NEW late, Fault(i) \/ FaultIf(i, late)
    PROVE  faults' \in 0..MaxFaults
<1>1. Fault(i) \/ UNCHANGED faults
  BY DEF FaultIf
<1> QED
  BY <1>1, Basics DEF Fault

\* The first step after the address, or the last attempt to get one.
LEMMA CheckGettingIpKeeps ==
    ASSUME IInv, CheckGettingIp PROVE IInv'
<1> USE DEF IInv
<1>1. /\ timerConn[data] = "checkip" /\ ipCnt \in 0..TRIES
      /\ UNCHANGED <<timerHello, timerAlive, helloCnt, getHello, fresh>>
      /\ Kinds(status, timerConn, link, stale, excused) /\ Counts
  BY TypeParts, Basics DEF CheckGettingIp, AttemptsLeft, Counts
<1>2. CASE /\ ~wifi /\ ipCnt' = ipCnt + 1 /\ FaultIf(data, GivesUp(ipCnt + 1))
           /\ \/ /\ GivesUp(ipCnt + 1)
                 /\ status' = [status EXCEPT ![data] = "getip"]
                 /\ timerConn' = [timerConn EXCEPT ![data] = "restart"]
              \/ ~GivesUp(ipCnt + 1) /\ UNCHANGED <<status, timerConn>>
           /\ UNCHANGED <<retryCnt, world, excused>>
  <2>1. /\ ipCnt' \in 0..(TRIES + 1) /\ faults' \in 0..MaxFaults
        /\ ~GivesUp(ipCnt + 1) => ipCnt' <= TRIES
    BY <1>1, <1>2, FaultCounts, Basics DEF GivesUp, Counts
  <2>2. timerConn'[data] \in {"checkip", "restart"}
    BY <1>1, <1>2, Basics DEF Kinds, Timers
  <2>3. Kinds(status', timerConn', link', stale', excused')
    BY <1>1, <1>2, Basics DEF Kinds, Timers, Statuses, Functions, world
  <2>4. Counts'
    BY <1>1, <1>2, <2>1 DEF Counts, world, net
  <2>5. \A i \in Channels : status'[i] = status[i] \/ status'[i] = "getip"
    BY <1>1, <1>2 DEF Kinds
  <2>6. NeverStranded'
    BY <1>1, <1>2, <2>2, <2>5, AllMoving DEF StartingOver
  <2>7. AttemptsLeft'
    <3>1. GivesUp(ipCnt + 1) => timerConn'[data] = "restart"
      BY <1>1, <1>2, Basics DEF Kinds, Timers
    <3> QED
      BY <2>1, <3>1 DEF AttemptsLeft
  <2> QED
    BY <2>3, <2>4, <2>6, <2>7, TypeParts
<1>3. CASE wifi /\ UNCHANGED <<ipCnt, net>>
  <2> DEFINE off == [timerConn EXCEPT ![data] = "off"]
  <2>1. off \in Timers /\ off[data] = "off"
    BY <1>1, Basics DEF Kinds, Timers, Functions
  <2>2. /\ Kinds(status', timerConn', link', stale', excused') /\ retryCnt' \in 0..TRIES
        /\ dns' \subseteq Channels /\ faults' \in 0..MaxFaults
        /\ timerConn'[data] # "checkip" /\ NeverStranded'
    <3>1. CASE StartResolving(data, [i \in Channels |-> "resolve"], off)
      <4>1. /\ [i \in Channels |-> "resolve"] \in [Channels -> Statuses]
            /\ \A i \in Channels : [j \in Channels |-> "resolve"][i] = "resolve"
        BY DEF Statuses
      <4> HIDE DEF off
      <4> QED
        BY <1>1, <2>1, <3>1, <4>1, StartResolvingDoes, Basics
    <3>2. CASE /\ ConnectionInit(Channels, [i \in Channels |-> "conn"], off)
               /\ UNCHANGED <<dns, faults>>
      <4> HIDE DEF off
      <4> QED
        BY <1>1, <2>1, <3>2, BothOpened DEF Counts
    <3> QED
      BY <1>2, <1>3, <3>1, <3>2 DEF CheckGettingIp
  <2>3. Counts'
    BY <1>1, <1>3, <2>2 DEF Counts, net
  <2> QED
    BY <2>2, <2>3, TypeParts DEF AttemptsLeft
<1> QED
  BY <1>2, <1>3 DEF CheckGettingIp

LEMMA ResolveOtaKeeps ==
    ASSUME IInv, ResolveOta PROVE IInv'
<1> USE DEF IInv
<1> DEFINE off == [timerConn EXCEPT ![data] = "off"]
<1>1. /\ StartResolving(ota, status, off)
      /\ UNCHANGED <<timerHello, timerAlive, helloCnt, ipCnt, getHello, fresh, net>>
      /\ Kinds(status, timerConn, link, stale, excused) /\ Counts
  BY TypeParts DEF ResolveOta
<1>2. off \in Timers /\ off[data] = "off" /\ status \in [Channels -> Statuses]
  BY <1>1, Basics DEF Kinds, Timers, Functions
<1>3. /\ Kinds(status', timerConn', link', stale', excused') /\ retryCnt' \in 0..TRIES
      /\ dns' \subseteq Channels /\ faults' \in 0..MaxFaults
      /\ timerConn'[data] # "checkip" /\ NeverStranded'
  <2> HIDE DEF off
  <2> QED
    BY <1>1, <1>2, StartResolvingDoes, Basics
<1>4. Counts'
  BY <1>1, <1>3 DEF Counts, net
<1> QED
  BY <1>3, <1>4, TypeParts DEF AttemptsLeft

LEMMA RestartNetworkKeeps ==
    ASSUME IInv, RestartNetwork PROVE IInv'
<1> USE DEF IInv
<1>1. /\ timerConn' = [timerConn EXCEPT ![data] = "checkip"] /\ ipCnt' = 0 /\ wifi' = FALSE
      /\ link' = [i \in Channels |-> IF link[i] = "none" THEN "none" ELSE "gone"]
      /\ UNCHANGED <<env, status, timerHello, timerAlive, retryCnt, helloCnt, getHello, fresh,
                     dns, stale, excused, faults>>
      /\ Kinds(status, timerConn, link, stale, excused) /\ Counts
  BY TypeParts DEF RestartNetwork
<1>2. timerConn'[data] = "checkip" /\ timerConn' \in Timers
  BY <1>1, Basics DEF Kinds, Timers, Functions
<1>3. link' \in [Channels -> {"none", "syn", "asked", "up", "gone"}]
  BY <1>1
<1>4. NeverStranded'
  BY <1>1, <1>2, AllMoving DEF StartingOver
<1>5. Kinds(status', timerConn', link', stale', excused') /\ Counts' /\ AttemptsLeft'
  <2>1. Kinds(status', timerConn', link', stale', excused')
    BY <1>1, <1>2, <1>3 DEF Kinds
  <2>2. ipCnt' \in 0..(TRIES + 1) /\ ipCnt' <= TRIES
    BY <1>1, Basics
  <2>3. Counts'
    BY <1>1, <2>2 DEF Counts
  <2> QED
    BY <2>1, <2>2, <2>3 DEF AttemptsLeft
<1> QED
  BY <1>4, <1>5, TypeParts

\* connection_init by its own timer: the channel is confirmed later, or starts
\* over, and the other goes on.
LEMMA ConnectKeeps ==
    ASSUME IInv, NEW i \in Channels, Connect(i) PROVE IInv'
<1> USE DEF IInv
<1> DEFINE off == [timerConn EXCEPT ![i] = "off"]
<1>1. /\ timerConn[i] = "init" /\ ConnectionInit({i}, status, off)
      /\ UNCHANGED <<timerHello, timerAlive, helloCnt, ipCnt, getHello, fresh, net, dns, faults>>
      /\ Kinds(status, timerConn, link, stale, excused) /\ Counts
  BY TypeParts DEF Connect
<1>2. /\ off \in Timers /\ \A j \in Channels \ {i} : off[j] = timerConn[j]
      /\ {i} \in SUBSET Channels /\ status \in [Channels -> Statuses]
  BY <1>1, Armed DEF Kinds
<1>3. /\ Kinds(status', timerConn', link', stale', excused') /\ retryCnt' \in 0..TRIES
      /\ \/ status'[i] = status[i] /\ timerConn'[i] = "confirm"
         \/ i = data /\ status'[i] = "getip" /\ timerConn'[i] = "restart"
      /\ \A j \in Channels \ {i} : status'[j] = status[j] /\ timerConn'[j] = timerConn[j]
      /\ excused' \subseteq excused
      /\ \A j \in excused \ excused' :
            j = i /\ status'[j] = "conn" /\ timerConn'[j] = "confirm"
  <2> HIDE DEF off
  <2>1. /\ Kinds(status', timerConn', link', stale', excused') /\ retryCnt' \in 0..TRIES
        /\ \A j \in {i} :
              \/ status'[j] = status[j] /\ timerConn'[j] = "confirm"
              \/ j = data /\ status'[j] = "getip" /\ timerConn'[j] = "restart"
        /\ \A j \in Channels \ {i} : status'[j] = status[j] /\ timerConn'[j] = off[j]
        /\ excused' \subseteq excused
        /\ \A j \in excused \ excused' :
              j \in {i} /\ status'[j] = "conn" /\ timerConn'[j] = "confirm"
    BY <1>1, <1>2, ConnectionInitDoes
  <2> QED
    BY <1>2, <2>1
<1>4. StartingOver => StartingOver'
  <2>1. CASE i = data
    BY <1>1, <2>1 DEF StartingOver
  <2>2. CASE i # data
    BY <1>1, <1>3, <2>2, Basics DEF StartingOver
  <2> QED
    BY <2>1, <2>2
<1>5. ASSUME NEW j \in Channels, j \notin excused' PROVE Moving(j)'
  <2>1. CASE j = data /\ status'[j] = "getip" /\ timerConn'[j] = "restart"
    BY <2>1 DEF Moving, StartingOver
  <2>2. CASE j \in excused \ excused'
    BY <1>3, <2>2 DEF Moving
  <2>3. CASE /\ j \notin excused
             /\ ~(j = data /\ status'[j] = "getip" /\ timerConn'[j] = "restart")
    <3>1. Moving(j)
      BY <2>3 DEF NeverStranded
    <3>2. /\ status'[j] = status[j]
          /\ timerConn'[j] = timerConn[j] \/ timerConn'[j] \in {"init", "confirm"}
      BY <1>3, <2>3
    <3> QED
      BY <1>1, <1>4, <3>1, <3>2, StillMoving
  <2> QED
    BY <1>5, <2>1, <2>2, <2>3
<1>6. NeverStranded'
  BY <1>5 DEF NeverStranded
<1>7. AttemptsLeft'
  <2>1. timerConn'[data] = "checkip" => timerConn[data] = "checkip"
    BY <1>3, Basics
  <2> QED
    BY <1>1, <2>1 DEF AttemptsLeft
<1>8. Counts'
  BY <1>1, <1>3 DEF Counts, net
<1> QED
  BY <1>3, <1>6, <1>7, <1>8, TypeParts

LEMMA ConfirmConnectionKeeps ==
    ASSUME IInv, NEW i \in Channels, ConfirmConnection(i) PROVE IInv'
<1> USE DEF IInv
<1>1. /\ timerConn[i] = "confirm"
      /\ UNCHANGED <<status, timerHello, timerAlive, counts, getHello, fresh, net, dns,
                     stale, excused>>
      /\ Kinds(status, timerConn, link, stale, excused) /\ Counts
  BY TypeParts DEF ConfirmConnection
<1>2. /\ \/ status[i] = "conn" /\ timerConn' = [timerConn EXCEPT ![i] = "init"]
         \/ status[i] # "conn" /\ timerConn' = [timerConn EXCEPT ![i] = "off"]
      /\ link' \in [Channels -> {"none", "syn", "asked", "up", "gone"}]
      /\ faults' \in 0..MaxFaults
  <2>1. CASE /\ status[i] = "conn" /\ FaultIf(i, Connecting(i))
             /\ timerConn' = [timerConn EXCEPT ![i] = "init"]
             /\ link' = [link EXCEPT ![i] = "none"]
    <3>1. faults' \in 0..MaxFaults
      BY <1>1, <2>1, FaultCounts DEF Counts
    <3> QED
      BY <1>1, <2>1, <3>1 DEF Kinds
  <2>2. CASE /\ status[i] # "conn" /\ timerConn' = [timerConn EXCEPT ![i] = "off"]
             /\ UNCHANGED <<link, faults>>
    BY <1>1, <2>2 DEF Kinds, Counts
  <2> QED
    BY <2>1, <2>2 DEF ConfirmConnection
<1>3. /\ timerConn' \in Timers
      /\ \A j \in Channels \ {i} : timerConn'[j] = timerConn[j]
      /\ timerConn'[i] \in {"init", "off"} /\ (status[i] = "conn" => timerConn'[i] = "init")
  <2>1. timerConn \in Timers
    BY <1>1 DEF Kinds
  <2>2. CASE status[i] = "conn" /\ timerConn' = [timerConn EXCEPT ![i] = "init"]
    <3>1. /\ [timerConn EXCEPT ![i] = "init"] \in Timers
          /\ [timerConn EXCEPT ![i] = "init"][i] = "init"
          /\ \A j \in Channels \ {i} : [timerConn EXCEPT ![i] = "init"][j] = timerConn[j]
      BY <2>1, Armed
    <3> QED
      BY <2>2, <3>1
  <2>3. CASE status[i] # "conn" /\ timerConn' = [timerConn EXCEPT ![i] = "off"]
    <3>1. /\ [timerConn EXCEPT ![i] = "off"] \in Timers
          /\ [timerConn EXCEPT ![i] = "off"][i] = "off"
          /\ \A j \in Channels \ {i} : [timerConn EXCEPT ![i] = "off"][j] = timerConn[j]
      BY <2>1, Armed
    <3> QED
      BY <2>3, <3>1
  <2> QED
    BY <1>2, <2>2, <2>3
<1>4. StartingOver => StartingOver'
  BY <1>1, <1>3, Basics DEF StartingOver
<1>5. ASSUME NEW j \in Channels, j \notin excused' PROVE Moving(j)'
  <2>1. Moving(j) /\ status'[j] = status[j] /\ status[j] \in Statuses
    BY <1>1, <1>5 DEF NeverStranded, Kinds
  <2>2. CASE j # i
    BY <1>1, <1>3, <1>4, <2>1, <2>2, StillMoving
  <2>3. CASE j = i
    BY <1>1, <1>3, <1>4, <2>1, <2>3 DEF Moving, Statuses
  <2> QED
    BY <2>2, <2>3
<1>6. NeverStranded'
  BY <1>5 DEF NeverStranded
<1>7. AttemptsLeft'
  BY <1>1, <1>3, Basics DEF AttemptsLeft, counts
<1>8. Kinds(status', timerConn', link', stale', excused') /\ Counts'
  BY <1>1, <1>2, <1>3 DEF Kinds, Counts, counts, net
<1> QED
  BY <1>6, <1>7, <1>8, TypeParts

-----------------------------------------------------------------------------
(* The hello and the keepalive check.                                      *)

\* A channel without a hello of its own is excused.
LEMMA ConnectedKeeps ==
    ASSUME IInv, NEW i \in Channels, Connected(i) PROVE IInv'
<1> USE DEF IInv
<1>1. /\ status' = [status EXCEPT ![i] = "hello"]
      /\ retryCnt' = IF i = data THEN 0 ELSE retryCnt
      /\ helloCnt' = [helloCnt EXCEPT ![i] = 0]
      /\ UNCHANGED <<timerConn, timerAlive, ipCnt, fresh, net, dns, stale>>
      /\ Kinds(status, timerConn, link, stale, excused) /\ Counts
  BY TypeParts DEF Connected
<1>2. /\ \/ timerHello' = [timerHello EXCEPT ![i] = "confirm"] /\ UNCHANGED excused
         \/ excused' = excused \cup {i} /\ UNCHANGED timerHello
      /\ getHello' \in [Channels -> 0..2] /\ faults' \in 0..MaxFaults
      /\ link' \in [Channels -> {"none", "syn", "asked", "up", "gone"}]
  <2>1. CASE /\ getHello' = [getHello EXCEPT ![i] = 0]
             /\ timerHello' = [timerHello EXCEPT ![i] = "confirm"]
             /\ link' = [link EXCEPT ![i] = "asked"]
             /\ UNCHANGED <<excused, faults>>
    BY <1>1, <2>1 DEF Counts, Kinds
  <2>2. CASE /\ Fault(i) /\ excused' = excused \cup {i}
             /\ link' = [link EXCEPT ![i] = "up"]
             /\ UNCHANGED <<getHello, timerHello>>
    <3>1. faults' \in 0..MaxFaults
      BY <1>1, <2>2, FaultCounts DEF Counts
    <3> QED
      BY <1>1, <2>2, <3>1 DEF Counts, Kinds
  <2> QED
    BY <2>1, <2>2 DEF Connected
<1>3. /\ status' \in [Channels -> Statuses] /\ status'[i] = "hello"
      /\ \A j \in Channels \ {i} : status'[j] = status[j] /\ timerHello'[j] = timerHello[j]
      /\ timerHello' \in [Channels -> {"off", "confirm", "send"}]
      /\ excused \subseteq excused' /\ excused' \subseteq Channels
      /\ timerHello'[i] = "confirm" \/ i \in excused'
  BY <1>1, <1>2 DEF Kinds, Counts, Statuses
<1>4. StartingOver => StartingOver'
  BY <1>1 DEF StartingOver
<1>5. ASSUME NEW j \in Channels, j \notin excused' PROVE Moving(j)'
  <2>1. CASE j = i
    BY <1>3, <1>5, <2>1 DEF Moving
  <2>2. CASE j # i
    <3>1. Moving(j)
      BY <1>3, <1>5 DEF NeverStranded
    <3> QED
      BY <1>1, <1>3, <1>4, <2>2, <3>1, StillMoving
  <2> QED
    BY <2>1, <2>2
<1>6. NeverStranded'
  BY <1>5 DEF NeverStranded
<1>7. Counts'
  <2>1. retryCnt' \in 0..TRIES /\ helloCnt' \in [Channels -> 0..TRIES]
    BY <1>1, Basics DEF Counts
  <2> QED
    BY <1>1, <1>2, <1>3, <2>1 DEF Counts, net
<1>8. Kinds(status', timerConn', link', stale', excused') /\ AttemptsLeft'
  BY <1>1, <1>2, <1>3 DEF Kinds, AttemptsLeft
<1> QED
  BY <1>6, <1>7, <1>8, TypeParts

\* A channel changes its hello timer and keepalive timer in one callback, with
\* its status; nothing else it could rely on changes.
LEMMA HelloStep ==
    ASSUME IInv, NEW i \in Channels, excused \subseteq excused', StartingOver => StartingOver',
           \A j \in Channels \ {i} :
              /\ status'[j] = status[j] /\ timerConn'[j] = timerConn[j]
              /\ timerHello'[j] = timerHello[j] /\ timerAlive'[j] = timerAlive[j],
           i \in excused' \/ Moving(i)'
    PROVE  NeverStranded'
<1> USE DEF IInv
<1>1. ASSUME NEW j \in Channels, j \notin excused' PROVE Moving(j)'
  <2>1. CASE j = i
    BY <1>1, <2>1
  <2>2. CASE j # i
    <3>1. Moving(j)
      BY <1>1 DEF NeverStranded
    <3> QED
      BY <2>2, <3>1, StillMoving
  <2> QED
    BY <2>1, <2>2
<1> QED
  BY <1>1 DEF NeverStranded

LEMMA SendHelloKeeps ==
    ASSUME IInv, NEW i \in Channels, SendHello(i) PROVE IInv'
<1> USE DEF IInv
<1>1. /\ timerHello[i] = "send"
      /\ UNCHANGED <<timerConn, timerAlive, counts, fresh, world>>
      /\ Kinds(status, timerConn, link, stale, excused) /\ Counts
  BY TypeParts DEF SendHello
<1>2. CASE /\ timerHello' = [timerHello EXCEPT ![i] = "confirm"]
           /\ getHello' = [getHello EXCEPT ![i] = 0]
           /\ UNCHANGED <<status, excused, faults>>
  <2>1. /\ timerHello' \in [Channels -> {"off", "confirm", "send"}]
        /\ getHello' \in [Channels -> 0..2] /\ timerHello'[i] = "confirm"
        /\ \A j \in Channels \ {i} : timerHello'[j] = timerHello[j]
    BY <1>1, <1>2 DEF Counts
  <2>2. StartingOver => StartingOver'
    BY <1>1 DEF StartingOver, world
  <2>3. i \in excused' \/ Moving(i)'
    <3>1. status[i] \in Statuses /\ (Moving(i) \/ i \in excused)
      BY <1>1 DEF Kinds, NeverStranded
    <3> QED
      BY <1>1, <1>2, <2>1, <2>2, <3>1 DEF Moving, Statuses
  <2>4. NeverStranded'
    BY <1>1, <1>2, <2>1, <2>2, <2>3, HelloStep
  <2> QED
    BY <1>1, <1>2, <2>1, <2>4, TypeParts DEF Kinds, Counts, AttemptsLeft, counts, world, net
<1>3. CASE /\ Fault(i)
           /\ timerHello' = [timerHello EXCEPT ![i] = "off"]
           /\ status' = [status EXCEPT ![i] = "died"]
           /\ excused' = excused \cup {i}
           /\ UNCHANGED getHello
  <2>1. /\ timerHello' \in [Channels -> {"off", "confirm", "send"}]
        /\ \A j \in Channels \ {i} : timerHello'[j] = timerHello[j] /\ status'[j] = status[j]
        /\ status' \in [Channels -> Statuses] /\ excused' \subseteq Channels
        /\ i \in excused' /\ excused \subseteq excused'
    BY <1>1, <1>3 DEF Counts, Kinds, Statuses
  <2>2. StartingOver => StartingOver'
    BY <1>1 DEF StartingOver, world
  <2>3. NeverStranded'
    BY <1>1, <2>1, <2>2, HelloStep
  <2>4. faults' \in 0..MaxFaults
    BY <1>1, <1>3, FaultCounts DEF Counts
  <2> QED
    BY <1>1, <1>3, <2>1, <2>3, <2>4, TypeParts
       DEF Kinds, Counts, AttemptsLeft, counts, world, net
<1> QED
  BY <1>2, <1>3 DEF SendHello

\* A hello that is there ends the waiting; one that is not, waits on or starts
\* the channel over.
LEMMA ConfirmHelloKeeps ==
    ASSUME IInv, NEW i \in Channels, ConfirmHello(i) PROVE IInv'
<1> USE DEF IInv
<1>1. /\ timerHello[i] = "confirm"
      /\ UNCHANGED <<retryCnt, ipCnt, getHello, world, excused>>
      /\ Kinds(status, timerConn, link, stale, excused) /\ Counts
  BY TypeParts DEF ConfirmHello
<1>2. CASE /\ status' = [status EXCEPT ![i] = "alive"]
           /\ fresh' = [fresh EXCEPT ![i] = TRUE]
           /\ timerAlive' = [timerAlive EXCEPT ![i] = TRUE]
           /\ timerHello' = [timerHello EXCEPT ![i] = "off"]
           /\ UNCHANGED <<timerConn, helloCnt, faults>>
  <2>1. /\ status' \in [Channels -> Statuses] /\ fresh' \in [Channels -> BOOLEAN]
        /\ timerAlive' \in [Channels -> BOOLEAN]
        /\ timerHello' \in [Channels -> {"off", "confirm", "send"}]
    BY <1>1, <1>2 DEF Kinds, Counts, Statuses
  <2>2. /\ status'[i] = "alive" /\ timerAlive'[i]
        /\ \A j \in Channels \ {i} :
              /\ status'[j] = status[j] /\ timerHello'[j] = timerHello[j]
              /\ timerAlive'[j] = timerAlive[j]
    BY <1>1, <1>2 DEF Kinds, Counts
  <2>3. (StartingOver => StartingOver') /\ Moving(i)'
    BY <1>1, <1>2, <2>2 DEF StartingOver, Moving, world
  <2>4. NeverStranded'
    BY <1>1, <1>2, <2>2, <2>3, HelloStep
  <2> QED
    BY <1>1, <1>2, <2>1, <2>4, TypeParts DEF Kinds, Counts, AttemptsLeft, world, net
<1>3. CASE /\ status' = [status EXCEPT ![i] = "died"]
           /\ timerHello' = [timerHello EXCEPT ![i] = "off"]
           /\ UNCHANGED <<timerConn, timerAlive, helloCnt, fresh, faults>>
  <2>1. /\ status' \in [Channels -> Statuses]
        /\ timerHello' \in [Channels -> {"off", "confirm", "send"}]
    BY <1>1, <1>3 DEF Kinds, Counts, Statuses
  <2>2. /\ status'[i] = "died"
        /\ \A j \in Channels \ {i} : status'[j] = status[j] /\ timerHello'[j] = timerHello[j]
    BY <1>1, <1>3 DEF Kinds, Counts
  <2>3. (StartingOver => StartingOver') /\ Moving(i)'
    BY <1>1, <1>3, <2>2 DEF StartingOver, Moving, world
  <2>4. NeverStranded'
    BY <1>1, <1>3, <2>2, <2>3, HelloStep
  <2> QED
    BY <1>1, <1>3, <2>1, <2>4, TypeParts DEF Kinds, Counts, AttemptsLeft, world, net
<1>4. CASE NoHello(i, helloCnt[i] + 1) /\ UNCHANGED <<timerAlive, fresh>>
  <2> DEFINE n == helloCnt[i] + 1
  <2>1. faults' \in 0..MaxFaults
    BY <1>1, <1>4, FaultCounts DEF NoHello, Counts
  <2>2. CASE /\ GivesUp(n)
             /\ helloCnt' = [helloCnt EXCEPT ![i] = 1]
             /\ timerHello' = [timerHello EXCEPT ![i] = "off"]
             /\ status' = [status EXCEPT ![i] = IF i = data THEN "getip" ELSE "conn"]
             /\ timerConn' = [timerConn EXCEPT ![i] = IF i = data THEN "restart" ELSE "init"]
    <3>1. /\ status' \in [Channels -> Statuses]
          /\ timerHello' \in [Channels -> {"off", "confirm", "send"}]
          /\ helloCnt' \in [Channels -> 0..TRIES]
      BY <1>1, <2>2, Basics DEF Kinds, Counts, Statuses
    <3>2. timerConn \in [Channels -> Functions] /\ timerConn[ota] \in {"off", "init", "confirm"}
      BY <1>1 DEF Kinds, Timers
    <3>3. /\ timerConn' \in [Channels -> Functions]
          /\ timerConn'[i] = IF i = data THEN "restart" ELSE "init"
          /\ \A j \in Channels \ {i} : timerConn'[j] = timerConn[j]
      BY <2>2, <3>2 DEF Functions
    <3>4. timerConn' \in Timers
      BY <3>2, <3>3, Basics DEF Timers
    <3>5. /\ status'[i] = IF i = data THEN "getip" ELSE "conn"
          /\ \A j \in Channels \ {i} : status'[j] = status[j] /\ timerHello'[j] = timerHello[j]
      BY <1>1, <2>2 DEF Kinds, Counts
    <3>6. StartingOver => StartingOver'
      BY <1>1, <3>3, Basics DEF StartingOver, world
    <3>7. Moving(i)'
      BY <3>3, <3>5 DEF Moving, StartingOver
    <3>8. NeverStranded'
      BY <1>1, <1>4, <3>3, <3>5, <3>6, <3>7, HelloStep
    <3>9. AttemptsLeft'
      BY <1>1, <3>3, Basics DEF AttemptsLeft
    <3>10. Kinds(status', timerConn', link', stale', excused') /\ Counts'
      BY <1>1, <1>4, <2>1, <3>1, <3>4 DEF Kinds, Counts, world, net
    <3> QED
      BY <3>8, <3>9, <3>10, TypeParts
  <2>3. CASE /\ ~GivesUp(n)
             /\ helloCnt' = [helloCnt EXCEPT ![i] = n]
             /\ timerHello' = [timerHello EXCEPT ![i] = IF n % RESEND = 0 THEN "send" ELSE "confirm"]
             /\ UNCHANGED <<status, timerConn>>
    <3>1. /\ timerHello' \in [Channels -> {"off", "confirm", "send"}]
          /\ timerHello'[i] \in {"send", "confirm"}
          /\ \A j \in Channels \ {i} : timerHello'[j] = timerHello[j]
      BY <1>1, <2>3 DEF Counts
    <3>2. n \in 0..TRIES
      BY <1>1, <2>3, Basics DEF Counts, GivesUp
    <3>3. helloCnt' \in [Channels -> 0..TRIES]
      BY <1>1, <2>3, <3>2 DEF Counts
    <3>4. StartingOver => StartingOver'
      BY <1>1, <2>3 DEF StartingOver, world
    <3>5. i \in excused' \/ Moving(i)'
      <4>1. status[i] \in Statuses /\ (Moving(i) \/ i \in excused)
        BY <1>1 DEF Kinds, NeverStranded
      <4> QED
        BY <1>1, <1>4, <2>3, <3>1, <3>4, <4>1 DEF Moving, Statuses
    <3>6. NeverStranded'
      BY <1>1, <1>4, <2>3, <3>1, <3>4, <3>5, HelloStep
    <3>7. Kinds(status', timerConn', link', stale', excused') /\ Counts' /\ AttemptsLeft'
      BY <1>1, <1>4, <2>1, <2>3, <3>1, <3>3 DEF Kinds, Counts, AttemptsLeft, world, net
    <3> QED
      BY <3>6, <3>7, TypeParts
  <2> QED
    BY <1>4, <2>2, <2>3 DEF NoHello
<1> QED
  BY <1>2, <1>3, <1>4 DEF ConfirmHello

\* Callbacks that end in connection_reconnect_callback.
LEMMA ReconnectKeeps ==
    ASSUME IInv, NEW i \in Channels, Reconnect(i),
           UNCHANGED <<timerHello, counts, getHello, fresh, net, dns>>,
           \A j \in Channels \ {i} : timerAlive'[j] = timerAlive[j],
           timerAlive' \in [Channels -> BOOLEAN],
           link' \in [Channels -> {"none", "syn", "asked", "up", "gone"}],
           stale' \subseteq Channels, faults' \in 0..MaxFaults
    PROVE  IInv'
<1> USE DEF IInv
<1>1. Kinds(status, timerConn, link, stale, excused) /\ Counts
  BY TypeParts
<1>2. /\ status' \in [Channels -> Statuses] /\ timerConn' \in Timers
      /\ excused' \subseteq Channels /\ NeverStranded'
      /\ timerConn'[data] = "checkip" => timerConn[data] = "checkip"
  BY ReconnectDoes
<1>3. Kinds(status', timerConn', link', stale', excused') /\ Counts' /\ AttemptsLeft'
  BY <1>1, <1>2 DEF Kinds, Counts, AttemptsLeft, counts, net
<1> QED
  BY <1>2, <1>3, TypeParts

LEMMA FailureKeeps ==
    ASSUME IInv, NEW i \in Channels, KeepaliveCheck(i) \/ ConnError(i) \/ LateError(i)
    PROVE  IInv'
<1>1. Kinds(status, timerConn, link, stale, excused) /\ Counts
  BY TypeParts DEF IInv
<1>2. CASE KeepaliveCheck(i)
  <2>1. /\ timerAlive' \in [Channels -> BOOLEAN]
        /\ \A j \in Channels \ {i} : timerAlive'[j] = timerAlive[j]
    BY <1>1, <1>2 DEF KeepaliveCheck, Counts
  <2> QED
    BY <1>1, <1>2, <2>1, ReconnectKeeps DEF KeepaliveCheck, Kinds, Counts, world, net
<1>3. CASE ConnError(i)
  <2>1. faults' \in 0..MaxFaults
    BY <1>1, <1>3, FaultCounts DEF ConnError, Counts
  <2>2. link' \in [Channels -> {"none", "syn", "asked", "up", "gone"}]
    BY <1>1, <1>3 DEF ConnError, Kinds
  <2> QED
    BY <1>1, <1>3, <2>1, <2>2, ReconnectKeeps DEF ConnError, Kinds, Counts
<1>4. CASE LateError(i)
  <2>1. faults' \in 0..MaxFaults
    BY <1>1, <1>4, FaultCounts DEF LateError, Counts
  <2> QED
    BY <1>1, <1>4, <2>1, ReconnectKeeps DEF LateError, Kinds, Counts
<1> QED
  BY <1>2, <1>3, <1>4

-----------------------------------------------------------------------------
(* The rest of the world.                                                  *)

LEMMA DnsAnswersKeeps ==
    ASSUME IInv, NEW i \in Channels, DnsAnswers(i) PROVE IInv'
<1> USE DEF IInv
<1>1. /\ dns' = dns \ {i} /\ Resolved(i, timerConn)
      /\ UNCHANGED <<timerHello, timerAlive, helloCnt, ipCnt, getHello, fresh, net, faults>>
      /\ Kinds(status, timerConn, link, stale, excused) /\ Counts
  BY TypeParts DEF DnsAnswers
<1>2. /\ Kinds(status', timerConn', link', stale', excused') /\ retryCnt' \in 0..TRIES
      /\ timerConn'[data] # "checkip" /\ NeverStranded'
  <2>1. CASE i = data
    <3>1. /\ timerConn' = [timerConn EXCEPT ![data] = "resolve"]
          /\ UNCHANGED <<status, retryCnt, link, stale, excused>>
      BY <1>1, <2>1, Basics DEF Resolved
    <3>2. timerConn'[data] = "resolve" /\ timerConn' \in Timers
      BY <1>1, <3>1, Basics DEF Kinds, Timers, Functions
    <3>3. NeverStranded'
      BY <1>1, <3>1, <3>2, AllMoving DEF StartingOver
    <3> QED
      BY <1>1, <3>1, <3>2, <3>3 DEF Kinds, Counts
  <2>2. CASE i = ota
    <3>1. ConnectionInit(Channels, [j \in Channels |-> "conn"], timerConn)
      BY <1>1, <2>2, Basics DEF Resolved
    <3> QED
      BY <1>1, <3>1, BothOpened DEF Kinds
  <2> QED
    BY <2>1, <2>2, Basics
<1>3. Counts'
  BY <1>1, <1>2 DEF Counts, net
<1> QED
  BY <1>2, <1>3, TypeParts DEF AttemptsLeft

\* What happens around the node changes none of its statuses and timers.
LEMMA WorldKeeps ==
    ASSUME IInv, UNCHANGED <<status, timers, counts, dns, stale, excused>>,
           link' \in [Channels -> {"none", "syn", "asked", "up", "gone"}],
           getHello' \in [Channels -> 0..2], fresh' \in [Channels -> BOOLEAN],
           wifi' \in BOOLEAN, faults' \in 0..MaxFaults
    PROVE  IInv'
<1>1. Kinds(status, timerConn, link, stale, excused) /\ Counts
  BY TypeParts DEF IInv
<1>2. Kinds(status', timerConn', link', stale', excused') /\ Counts'
  BY <1>1 DEF Kinds, Counts, timers, counts
<1>3. NeverStranded' /\ AttemptsLeft'
  BY DEF IInv, NeverStranded, Moving, StartingOver, AttemptsLeft, timers, counts
<1> QED
  BY <1>2, <1>3, TypeParts DEF IInv

LEMMA AroundKeeps ==
    ASSUME IInv,
           \/ WifiJoins \/ WifiLost
           \/ \E i \in Channels : RecvAnswer(i) \/ PeerGone(i) \/ Silence(i)
    PROVE  IInv'
<1>1. Kinds(status, timerConn, link, stale, excused) /\ Counts
  BY TypeParts DEF IInv
<1>2. CASE WifiJoins
  BY <1>1, <1>2, WorldKeeps DEF WifiJoins, Kinds, Counts
<1>3. CASE WifiLost
  <2>1. faults' \in 0..MaxFaults
    BY <1>1, <1>3, FaultCounts DEF WifiLost, Counts
  <2>2. link' \in [Channels -> {"none", "syn", "asked", "up", "gone"}]
    BY <1>3 DEF WifiLost
  <2> QED
    BY <1>1, <1>3, <2>1, <2>2, WorldKeeps DEF WifiLost, Kinds, Counts
<1>4. ASSUME NEW i \in Channels, RecvAnswer(i) PROVE IInv'
  <2>1. /\ \E v \in {1, 2} : getHello' = IF status[i] = "hello" THEN [getHello EXCEPT ![i] = v]
                             ELSE getHello
        /\ \E v \in {"up", "gone"} : link' = [link EXCEPT ![i] = v]
        /\ Fault(i) \/ UNCHANGED faults
        /\ UNCHANGED <<status, timers, counts, fresh, net, dns, stale, excused>>
    BY <1>4 DEF RecvAnswer
  <2>2. faults' \in 0..MaxFaults
    BY <1>1, <2>1, FaultCounts DEF Counts
  <2>3. getHello' \in [Channels -> 0..2]
    BY <1>1, <2>1 DEF Counts
  <2>4. link' \in [Channels -> {"none", "syn", "asked", "up", "gone"}]
    BY <1>1, <2>1 DEF Kinds
  <2> QED
    BY <1>1, <2>1, <2>2, <2>3, <2>4, WorldKeeps DEF Counts, net
<1>5. ASSUME NEW i \in Channels, PeerGone(i) PROVE IInv'
  <2>1. faults' \in 0..MaxFaults
    BY <1>1, <1>5, FaultCounts DEF PeerGone, Counts
  <2>2. link' \in [Channels -> {"none", "syn", "asked", "up", "gone"}]
    BY <1>1, <1>5 DEF PeerGone, Kinds
  <2> QED
    BY <1>1, <1>5, <2>1, <2>2, WorldKeeps DEF PeerGone, Counts, net
<1>6. ASSUME NEW i \in Channels, Silence(i) PROVE IInv'
  <2>1. faults' \in 0..MaxFaults
    BY <1>1, <1>6, FaultCounts DEF Silence, Counts
  <2>2. fresh' \in [Channels -> BOOLEAN]
    BY <1>1, <1>6 DEF Silence, Counts
  <2> QED
    BY <1>1, <1>6, <2>1, <2>2, WorldKeeps DEF Silence, Counts, Kinds, world, net
<1> QED
  BY <1>2, <1>3, <1>4, <1>5, <1>6

-----------------------------------------------------------------------------
(* The theorems.                                                           *)

LEMMA InitKeeps ==
    ASSUME Init PROVE IInv
<1>1. Kinds(status, timerConn, link, stale, excused)
  BY Basics DEF Init, Kinds, Timers, Functions, Statuses
<1>2. Counts
  <2>1. 0 \in 0..TRIES /\ 0 \in 0..(TRIES + 1) /\ 0 \in 0..MaxFaults /\ 0 \in 0..2
    BY Basics
  <2>2. /\ timerHello \in [Channels -> {"off", "confirm", "send"}]
        /\ timerAlive \in [Channels -> BOOLEAN] /\ fresh \in [Channels -> BOOLEAN]
        /\ getHello \in [Channels -> 0..2] /\ helloCnt \in [Channels -> 0..TRIES]
    BY <2>1 DEF Init
  <2>3. retryCnt = 0 /\ ipCnt = 0 /\ faults = 0 /\ wifi = FALSE /\ dns = {}
    BY DEF Init
  <2> QED
    BY <2>1, <2>2, <2>3 DEF Counts
<1>3. NeverStranded /\ AttemptsLeft
  BY Basics DEF Init, NeverStranded, Moving, StartingOver, AttemptsLeft
<1> QED
  BY <1>1, <1>2, <1>3, TypeParts DEF IInv

\* Every callback keeps the invariant.
THEOREM Inductive ==
    ASSUME IInv, [Next]_vars PROVE IInv'
<1>1. CASE UNCHANGED vars
  BY <1>1 DEF IInv, TypeOK, NeverStranded, Moving, StartingOver, AttemptsLeft,
              vars, timers, counts, world, net
<1>2. CASE CheckGettingIp \/ ResolveOta \/ RestartNetwork
  BY <1>2, CheckGettingIpKeeps, ResolveOtaKeeps, RestartNetworkKeeps
<1>3. ASSUME NEW i \in Channels, TimerFires(i) PROVE IInv'
  BY <1>3, ConnectKeeps, ConfirmConnectionKeeps, SendHelloKeeps, ConfirmHelloKeeps,
     FailureKeeps DEF TimerFires
<1>4. ASSUME NEW i \in Channels, Connected(i) \/ DnsAnswers(i) \/ ConnError(i) \/ LateError(i)
      PROVE  IInv'
  BY <1>4, ConnectedKeeps, DnsAnswersKeeps, FailureKeeps
<1>5. CASE \/ WifiJoins \/ WifiLost
           \/ \E i \in Channels : RecvAnswer(i) \/ PeerGone(i) \/ Silence(i)
  BY <1>5, AroundKeeps
<1> QED
  BY <1>1, <1>2, <1>3, <1>4, <1>5 DEF Next

\* The counts of attempts keep to TRIES, and addresses are asked for only with
\* attempts left.
THEOREM Invariant == Spec => []IInv
<1>1. IInv /\ [Next]_vars => IInv'
  BY Inductive
<1> QED
  BY <1>1, InitKeeps, PTL DEF Spec

\* TimersInv: whatever fails and in whatever order timers and callbacks come,
\* each channel is in a status that something will take it out of, unless the
\* server turned it away or it is excused.
THEOREM NobodyStranded == Spec => []TimersInv
<1>1. IInv => TimersInv
  BY DEF IInv, TimersInv
<1> QED
  BY <1>1, Invariant, PTL
=============================================================================
