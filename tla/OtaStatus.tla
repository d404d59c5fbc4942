----------------------------- MODULE OtaStatus ------------------------------
(***************************************************************************)
(* How the user's app follows the firmware update of one node: the builds  *)
(* of POST /v1/ota/trigger, the states they and the node report, and the   *)
(* long polls of GET /v1/ota/status that fetch them (handlers.py,          *)
(* server.py).  The states of a node meet the polls in two shared lists,   *)
(* state_happened and state_waiters.                                       *)
(*                                                                         *)
(* A state is named by its number: the first one reported is 1, the next 2 *)
(* and so on.                                                              *)
(***************************************************************************)
EXTENDS Integers, Sequences

CONSTANTS
    NBuilds,     \* bound: calls of POST /v1/ota/trigger
    NPolls,      \* bound: calls of GET /v1/ota/status
    NConns,      \* bound: the node's connections to the OTA channel
    RETRIES,     \* OTA commands post_build sends at most (handlers.py:1546)
    MaxReports,  \* bound: states reported besides those of post_build
    Plans        \* how many of each a behaviour has

ASSUME OtaAssumption ==
    /\ NBuilds \in Nat /\ NPolls \in Nat /\ NConns \in Nat
    /\ RETRIES \in Nat \ {0}
    /\ MaxReports \in Nat
    /\ Plans \subseteq [builds : 0..NBuilds, polls : 0..NPolls, conns : 0..NConns,
                        reports : 0..MaxReports]

\* The values the runs give to Plans: two builds that overlap on one connection,
\* or one build and two polls while the node reconnects; and one build alone.
OverlapOrReconnect ==
    {[builds |-> 2, polls |-> 1, conns |-> 1, reports |-> 0],
     [builds |-> 1, polls |-> 2, conns |-> 2, reports |-> 2]}
OneBuild == {[builds |-> 1, polls |-> 1, conns |-> 1, reports |-> 0]}

\* Builds, polls and connections are numbered in the order they come.
Builds == 1..NBuilds
Polls  == 1..NPolls
Conns  == 1..NConns
NoBuild == 0
NoConn  == 0

VARIABLES
    states,    \* how many states have been reported
    happened,  \* state_happened[sn]: states no poll has taken
    waiters,   \* state_waiters[sn]: the polls that wait for a state
    poll,      \* where each poll stands
    got,       \* the state each poll was given, 0 if none
    build,     \* where each build stands
    retries,   \* post_build's loop counter
    cur,       \* post_build's cur_conn
    conn,      \* each connection: "new", "open" or "killed"
    pool,      \* the connection in accepted_ota_conns
    notify,    \* the build that set the connection's ota_notify_done_future
    futSet,    \* that future has its result
    reports    \* states reported besides those of post_build

mailVars == <<states, happened, waiters, poll, got>>
connVars == <<conn, pool>>
futVars  == <<notify, futSet>>
buildVars == <<build, retries, cur>>
vars == <<mailVars, buildVars, connVars, futVars, reports>>

\* What the plan has none of is over from the start.
Init ==
    /\ states = 0 /\ happened = <<>> /\ waiters = <<>>
    /\ \E plan \in Plans :
        /\ poll = [p \in Polls |-> IF p <= plan.polls THEN "idle" ELSE "ended"]
        /\ build = [b \in Builds |-> IF b <= plan.builds THEN "idle" ELSE "refused"]
        /\ conn = [c \in Conns |-> IF c <= plan.conns THEN "new" ELSE "killed"]
        /\ reports = MaxReports - plan.reports
    /\ got = [p \in Polls |-> 0]
    /\ retries = [b \in Builds |-> 0]
    /\ cur = [b \in Builds |-> NoConn]
    /\ pool = NoConn
    /\ notify = [c \in Conns |-> NoBuild]
    /\ futSet = [c \in Conns |-> FALSE]

-----------------------------------------------------------------------------
(* The mailbox.                                                            *)

\* A state that nobody waits for is kept behind those before it.
KeepLast(s) == <<s>>
Keep(s) == Append(happened, s)

\* send_notification, and the same lines in the reader: the first waiter gets
\* the state, whether its poll still waits for it or not; without a waiter the
\* state is kept.
Report ==
    /\ states' = states + 1
    /\ \/ /\ waiters # <<>>
          /\ waiters' = Tail(waiters)
          /\ got' = [got EXCEPT ![Head(waiters)] = states + 1]
          /\ poll' = [poll EXCEPT ![Head(waiters)] =
                          IF @ = "waiting" THEN "woken" ELSE @]
          /\ UNCHANGED happened
       \/ /\ waiters = <<>>
          /\ happened' = Keep(states + 1)
          /\ UNCHANGED <<waiters, poll, got>>

\* pop(0) on state_happened.
NewestOf == [first |-> happened[Len(happened)],
             rest  |-> SubSeq(happened, 1, Len(happened) - 1)]
OldestOf == [first |-> Head(happened), rest |-> Tail(happened)]

\* OTAStatusReportingHandler.get: the oldest state is returned at once, or the
\* poll joins the waiters.
PollStatus(p) ==
    /\ poll[p] = "idle" /\ \A q \in 1..(p - 1) : poll[q] # "idle"
    /\ \/ /\ happened # <<>>
          /\ got' = [got EXCEPT ![p] = OldestOf.first]
          /\ happened' = OldestOf.rest
          /\ poll' = [poll EXCEPT ![p] = "ended"]
          /\ UNCHANGED waiters
       \/ /\ happened = <<>>
          /\ waiters' = Append(waiters, p)
          /\ poll' = [poll EXCEPT ![p] = "waiting"]
          /\ UNCHANGED <<happened, got>>
    /\ UNCHANGED <<states, buildVars, connVars, futVars, reports>>

\* The 180 s of with_timeout are over; the future stays among the waiters.
TimeoutIfListed(p) ==
    /\ poll[p] = "waiting" /\ \E i \in DOMAIN waiters : waiters[i] = p
    /\ poll' = [poll EXCEPT ![p] = "woken"]
TimeoutPoll(p) ==
    /\ poll[p] = "waiting"
    /\ poll' = [poll EXCEPT ![p] = "woken"]

PollTimeout(p) ==
    /\ TimeoutPoll(p)
    /\ UNCHANGED <<states, happened, waiters, got, buildVars, connVars,
                   futVars, reports>>

\* The poll's coroutine is resumed and responds, unless its client is gone by
\* now: then a state it was given is lost.
PollResumes(p) ==
    /\ poll[p] = "woken"
    /\ poll' = [poll EXCEPT ![p] = "ended"]
    /\ UNCHANGED <<states, happened, waiters, got, buildVars, connVars, futVars,
                   reports>>

-----------------------------------------------------------------------------
(* FirmwareBuildingHandler.                                                *)

Building(b) == build[b] = "building"

\* What a build thread leaves to post_build: a firmware, the source files of
\* build_phase 1, or an error.
Results == {"firmware", "sources", "builderror"}

\* post: the node is online; the handler asks it for the running app before
\* it builds a firmware, which may take 5 s.
Trigger(b) ==
    /\ build[b] = "idle" /\ \A a \in 1..(b - 1) : build[a] # "idle"
    /\ pool # NoConn
    /\ build' = [build EXCEPT ![b] = "asking"]
    /\ UNCHANGED <<mailVars, retries, cur, connVars, futVars, reports>>

\* threading.enumerate() after the answer: is there a build thread of this
\* node?  One that has just posted its result may still be listed.
NeverFound == FALSE
ThreadFound == \E b \in Builds : Building(b)
MaybeFound == \E b \in Builds : build[b] \in Results

\* A build is running: its app is told so, as a state of the node.
RefuseBuild(b) ==
    /\ build[b] = "asking" /\ (ThreadFound \/ MaybeFound)
    /\ build' = [build EXCEPT ![b] = "refused"]
    /\ Report
    /\ UNCHANGED <<retries, cur, connVars, futVars, reports>>

\* The thread is started and both lists are cleared.
StartBuild(b) ==
    /\ build[b] = "asking" /\ ~ThreadFound
    /\ build' = [build EXCEPT ![b] = "building"]
    /\ happened' = <<>> /\ waiters' = <<>>
    /\ UNCHANGED <<states, poll, got, retries, cur, connVars, futVars, reports>>

\* gen_and_build returns: build_thread queues post_build, on the IOLoop.
ThreadEnds(b) ==
    /\ Building(b)
    /\ \E result \in Results : build' = [build EXCEPT ![b] = result]
    /\ UNCHANGED <<mailVars, retries, cur, connVars, futVars, reports>>

\* gen_and_build raises (a file that cannot be opened, a configuration without
\* arguments): the coroutine keeps the exception to itself and the thread is
\* gone.  post_build is not queued, so nobody is told.
ThreadDies(b) ==
    /\ Building(b)
    /\ build' = [build EXCEPT ![b] = "died"]
    /\ UNCHANGED <<mailVars, retries, cur, connVars, futVars, reports>>

\* post_build without a node to notify: the build failed, only the sources
\* were asked for, or the node is offline by now.
PostBuildEnds(b) ==
    /\ \/ build[b] \in {"sources", "builderror"}
       \/ build[b] = "firmware" /\ pool = NoConn
    /\ build' = [build EXCEPT ![b] = "reported"]
    /\ Report
    /\ UNCHANGED <<retries, cur, connVars, futVars, reports>>

\* One turn of the loop "go OTA" with n attempts behind it, on connection c:
\* a new future, the command, and the wait of 10 s.
Attempt(b, c, n) ==
    /\ build' = [build EXCEPT ![b] = "waiting"]
    /\ retries' = [retries EXCEPT ![b] = n]
    /\ Report
    /\ notify' = [notify EXCEPT ![c] = b]
    /\ futSet' = [futSet EXCEPT ![c] = FALSE]

\* After the loop, whose counter is not used any more.
OneMoreTry(n) == n > RETRIES
OutOfRetries(n) == n >= RETRIES

LoopEnds(b, n) ==
    /\ retries' = [retries EXCEPT ![b] = 0]
    /\ \/ /\ OutOfRetries(n)
          /\ build' = [build EXCEPT ![b] = "reported"]
          /\ Report
       \/ /\ ~OutOfRetries(n)
          /\ build' = [build EXCEPT ![b] = "succeeded"]
          /\ UNCHANGED mailVars
    /\ UNCHANGED futVars

\* The loop's condition.
TriesOnceMore(c, n) == n <= RETRIES /\ conn[c] # "killed"
MayTry(c, n) == n < RETRIES /\ conn[c] # "killed"

Loop(b, c, n) ==
    \/ MayTry(c, n) /\ Attempt(b, c, n)
    \/ ~MayTry(c, n) /\ LoopEnds(b, n)

\* post_build of a firmware whose node is in the pool.
PostBuildNotifies(b) ==
    /\ build[b] = "firmware" /\ pool # NoConn
    /\ cur' = [cur EXCEPT ![b] = pool]
    /\ Loop(b, pool, 0)
    /\ UNCHANGED <<connVars, reports>>

\* The 10 s are over.
WaitsForAnswer(b) == FALSE
WaitIsOver(b) == build[b] = "waiting"

NotifyTimeout(b) ==
    /\ WaitIsOver(b)
    /\ build' = [build EXCEPT ![b] = "timedout"]
    /\ UNCHANGED <<mailVars, retries, cur, connVars, futVars, reports>>

\* post_build is resumed.
PostBuildResumes(b) ==
    /\ \/ /\ build[b] = "timedout"
          /\ Loop(b, cur[b], retries[b] + 1)
       \/ /\ build[b] = "notified"
          /\ LoopEnds(b, retries[b])
    /\ UNCHANGED <<cur, connVars, reports>>

-----------------------------------------------------------------------------
(* The node.                                                               *)

\* ota_trig_ack: it resolves the future of the last attempt made on this
\* connection, whichever build made it.  A second one raises in set_result and
\* is not reported.  (Each attempt sent one command, so an unresolved future
\* has an acknowledgement to come.)
NodeAcks(c) ==
    /\ pool = c /\ conn[c] = "open" /\ notify[c] # NoBuild
    /\ \/ /\ ~futSet[c]
          /\ futSet' = [futSet EXCEPT ![c] = TRUE]
          /\ \/ /\ build[notify[c]] = "waiting" /\ cur[notify[c]] = c
                /\ build' = [build EXCEPT ![notify[c]] = "notified"]
             \/ /\ ~(build[notify[c]] = "waiting" /\ cur[notify[c]] = c)
                /\ UNCHANGED build
          /\ Report
       \/ /\ futSet[c]
          /\ UNCHANGED <<futSet, build, mailVars>>
    /\ UNCHANGED <<retries, cur, connVars, notify, reports>>

\* Another state of an update: ota_status and ota_result from the reader, and
\* those of the firmware download, OTAFirmwareSendingHandler.
UpdateReports ==
    /\ reports < MaxReports /\ \E c \in Conns : notify[c] # NoBuild
    /\ reports' = reports + 1
    /\ Report
    /\ UNCHANGED <<buildVars, connVars, futVars>>

\* A connection of the node is accepted; the one it replaces is killed.
Connect(c) ==
    /\ conn[c] = "new" /\ \A x \in 1..(c - 1) : conn[x] # "new"
    /\ conn' = [x \in Conns |-> CASE x = c    -> "open"
                                  [] x = pool -> "killed"
                                  [] OTHER    -> conn[x]]
    /\ pool' = c
    /\ UNCHANGED <<mailVars, buildVars, futVars, reports>>

\* A connection is killed, or on_close takes it out of the pool, killed or
\* not.
ConnBreaks(c) ==
    /\ pool = c
    /\ \/ conn' = [conn EXCEPT ![c] = "killed"] /\ UNCHANGED pool
       \/ pool' = NoConn /\ UNCHANGED conn
    /\ UNCHANGED <<mailVars, buildVars, futVars, reports>>

-----------------------------------------------------------------------------
BuildStep(b) ==
    \/ RefuseBuild(b) \/ StartBuild(b) \/ ThreadEnds(b) \/ ThreadDies(b)
    \/ PostBuildEnds(b) \/ PostBuildNotifies(b)
    \/ NotifyTimeout(b) \/ PostBuildResumes(b)

Next ==
    \/ \E p \in Polls :
        PollStatus(p) \/ PollTimeout(p) \/ PollResumes(p)
    \/ \E b \in Builds : Trigger(b) \/ BuildStep(b)
    \/ UpdateReports
    \/ \E c \in Conns : NodeAcks(c) \/ Connect(c) \/ ConnBreaks(c)

Spec == Init /\ [][Next]_vars

\* The IOLoop and its timers go on, the APP query ends within 5 s, and so does
\* a compilation.  Nothing is assumed of the node or of the app.
Fairness ==
    /\ \A p \in Polls : WF_vars(PollTimeout(p)) /\ WF_vars(PollResumes(p))
    /\ \A b \in Builds : WF_vars(BuildStep(b))

FairSpec == Spec /\ Fairness

-----------------------------------------------------------------------------
(* Correctness.                                                            *)

PollPcs  == {"idle", "waiting", "woken", "ended"}
BuildPcs == Results \cup {"idle", "asking", "refused", "building", "died",
                        "waiting", "timedout", "notified", "reported", "succeeded"}

\* Every variable holds a value of its kind.
TypeOK ==
    /\ states \in Nat /\ happened \in Seq(1..states) /\ waiters \in Seq(Polls)
    /\ poll \in [Polls -> PollPcs] /\ got \in [Polls -> 0..states]
    /\ build \in [Builds -> BuildPcs] /\ retries \in [Builds -> 0..(RETRIES - 1)]
    /\ cur \in [Builds -> Conns \cup {NoConn}]
    /\ conn \in [Conns -> {"new", "open", "killed"}]
    /\ pool \in Conns \cup {NoConn}
    /\ notify \in [Conns -> Builds \cup {NoBuild}]
    /\ futSet \in [Conns -> BOOLEAN]
    /\ reports \in 0..MaxReports

\* The app reads the states of its node in the order they happened: a poll is
\* given a newer state than every poll before it.
GivesNewer == \A p, q \in Polls : got'[p] # got[p] => got[q] < got'[p]
HandedInOrder == [][GivesNewer]_vars

\* Nothing is lost in the lists: a state is kept, in its place, until a poll
\* takes it or a build clears the lists (handlers.py:1462).  A poll that timed
\* out is still in the list, and what is handed to it counts as taken.
KeepsOrGives ==
    \A s \in 1..states' :
        (s > states \/ \E i \in DOMAIN happened : happened[i] = s) =>
            \/ \E i \in DOMAIN happened' : happened'[i] = s
            \/ \E p \in Polls : got'[p] = s
            \/ \E b \in Builds : build[b] = "asking" /\ build'[b] = "building"
NothingLost == [][KeepsOrGives]_vars

\* At most one thread compiles for a node, although each trigger waits for the
\* node's answer between the moment it is called and the look at the threads.
OneThreadPerNode ==
    \A a, b \in Builds : Building(a) /\ Building(b) => a = b

\* Counts and lists are in their bounds, and builds of a node do not overlap.
BuildsInv == TypeOK /\ OneThreadPerNode

Succeeds(b) == build[b] # "succeeded" /\ build'[b] = "succeeded"

\* A build that ends with "Succeed in notifying node" without having been
\* acknowledged ends so because its connection was killed under it.
AckedOrKilled ==
    \A b \in Builds :
        Succeeds(b) => build[b] = "notified" \/ conn[cur'[b]] = "killed"
SilentOnlyIfKilled == [][AckedOrKilled]_vars

\* Every long poll ends, those a build swept out of the list included; and every
\* trigger comes to an end, whatever becomes of the node: it is refused, it
\* reports, it leaves the rest to the node, or its thread died of an exception.
\* A build that died reports nothing, so its polls see only their timeout, but
\* it does not keep the next trigger from its end.
Ends == {"refused", "reported", "succeeded", "died"}
EverythingEnds ==
    /\ \A p \in Polls : (poll[p] = "waiting") ~> (poll[p] = "ended")
    /\ \A b \in Builds : (build[b] = "asking") ~> (build[b] \in Ends)

\* handlers.py:1574, "Succeed in notifying node": the node acknowledged a
\* command since the build's last attempt.
SucceedMeansNotified ==
    [][\A b \in Builds : Succeeds(b) => build[b] = "notified"]_vars
=============================================================================
