--------------------------- MODULE OtaStatusProofs --------------------------
(***************************************************************************)
(* Proofs about OtaStatus, for any number of builds, polls, connections    *)
(* and retries.  The order in which states are handed out rests on one     *)
(* fact about the two lists: they are never both in use, so a state goes   *)
(* past the list of kept ones only when that list is empty.                *)
(***************************************************************************)
EXTENDS OtaStatus, SequenceTheorems, TLAPS

\* Kept states are in the order they happened, and newer than every state that
\* was handed out; nobody waits while a state is kept.
MailOrder ==
    /\ waiters = <<>> \/ happened = <<>>
    /\ \A i, j \in 1..Len(happened) : i < j => happened[i] < happened[j]
    /\ \A i \in 1..Len(happened) : \A p \in Polls : got[p] < happened[i]

IInv == TypeOK /\ MailOrder /\ OneThreadPerNode

\* The types of the mailbox, and those of the rest.
MailTypes ==
    /\ states \in Nat /\ happened \in Seq(1..states) /\ waiters \in Seq(Polls)
    /\ poll \in [Polls -> PollPcs] /\ got \in [Polls -> 0..states]

OtherTypes ==
    /\ build \in [Builds -> BuildPcs] /\ retries \in [Builds -> 0..(RETRIES - 1)]
    /\ cur \in [Builds -> Conns \cup {NoConn}]
    /\ conn \in [Conns -> {"new", "open", "killed"}]
    /\ pool \in Conns \cup {NoConn}
    /\ notify \in [Conns -> Builds \cup {NoBuild}]
    /\ futSet \in [Conns -> BOOLEAN]
    /\ reports \in 0..MaxReports

\* TypeOK is the types of the mailbox and of the rest, now and in the next state.
LEMMA TypeParts == /\ TypeOK <=> MailTypes /\ OtherTypes
                   /\ TypeOK' <=> MailTypes' /\ OtherTypes'
BY DEF TypeOK, MailTypes, OtherTypes

-----------------------------------------------------------------------------
(* The mailbox.                                                            *)

\* What a step of the mailbox establishes.
MailStep ==
    /\ MailTypes' /\ MailOrder' /\ GivesNewer
    /\ \A s \in 1..states' :
          (s > states \/ \E i \in DOMAIN happened : happened[i] = s) =>
             \/ \E i \in DOMAIN happened' : happened'[i] = s
             \/ \E p \in Polls : got'[p] = s

\* A queue that is longer by one, element by element.
LEMMA Appended ==
    ASSUME NEW S, NEW q \in Seq(S), NEW e \in S
    PROVE  /\ Append(q, e) \in Seq(S) /\ Len(q) \in Nat
           /\ DOMAIN q = 1..Len(q) /\ DOMAIN Append(q, e) = 1..(Len(q) + 1)
           /\ Len(Append(q, e)) = Len(q) + 1
           /\ \A i \in 1..Len(q) : Append(q, e)[i] = q[i]
           /\ Append(q, e)[Len(q) + 1] = e
OBVIOUS

\* The head and the tail of a queue that is not empty, element by element.
LEMMA HeadTail ==
    ASSUME NEW S, NEW q \in Seq(S), q # <<>>
    PROVE  /\ Head(q) \in S /\ Tail(q) \in Seq(S) /\ Len(q) \in Nat
           /\ 1 \in 1..Len(q) /\ Head(q) = q[1]
           /\ Len(Tail(q)) = Len(q) - 1
           /\ DOMAIN q = 1..Len(q) /\ DOMAIN Tail(q) = 1..(Len(q) - 1)
           /\ \A i \in 1..(Len(q) - 1) : Tail(q)[i] = q[i + 1]
OBVIOUS

\* A state is reported: it goes to the first waiter, or behind the kept ones.
LEMMA ReportKeeps ==
    ASSUME MailTypes, MailOrder, Report
    PROVE  MailStep
<1>1. /\ states \in Nat /\ states' = states + 1 /\ states + 1 \in 1..states'
      /\ 1..states \subseteq 1..states' /\ 0..states \subseteq 0..states'
  BY DEF MailTypes, Report
<1>2. /\ \A p \in Polls : got[p] \in Nat /\ got[p] < states + 1
      /\ \A i \in 1..Len(happened) : happened[i] \in Nat /\ happened[i] < states + 1
  BY <1>1 DEF MailTypes
<1>3. CASE waiters # <<>>
  <2>1. /\ waiters' = Tail(waiters) /\ happened' = happened
        /\ got' = [got EXCEPT ![Head(waiters)] = states + 1]
        /\ poll' = [poll EXCEPT ![Head(waiters)] = IF @ = "waiting" THEN "woken" ELSE @]
    BY <1>3 DEF Report
  <2>2. Head(waiters) \in Polls /\ Tail(waiters) \in Seq(Polls) /\ happened = <<>>
    BY <1>3, HeadTail DEF MailTypes, MailOrder
  <2>3. MailTypes'
    <3>1. happened' \in Seq(1..states')
      BY <2>1, <2>2
    <3>2. got' \in [Polls -> 0..states']
      BY <1>1, <2>1, <2>2 DEF MailTypes
    <3>3. poll' \in [Polls -> PollPcs]
      BY <2>1, <2>2 DEF MailTypes, PollPcs
    <3> QED
      BY <1>1, <2>1, <2>2, <3>1, <3>2, <3>3 DEF MailTypes
  <2>4. MailOrder'
    BY <2>1, <2>2 DEF MailOrder
  <2>5. GivesNewer
    BY <1>2, <2>1, <2>2 DEF GivesNewer, MailTypes
  <2>6. got'[Head(waiters)] = states + 1
    BY <2>1, <2>2 DEF MailTypes
  <2> QED
    BY <1>1, <2>1, <2>2, <2>3, <2>4, <2>5, <2>6 DEF MailStep
<1>4. CASE waiters = <<>>
  <2>1. /\ happened' = Append(happened, states + 1)
        /\ UNCHANGED <<waiters, poll, got>>
    BY <1>4 DEF Report, Keep
  <2>2. happened \in Seq(1..states')
    BY <1>1 DEF MailTypes
  <2>3. /\ happened' \in Seq(1..states') /\ Len(happened) \in Nat
        /\ DOMAIN happened = 1..Len(happened)
        /\ DOMAIN happened' = 1..(Len(happened) + 1)
        /\ Len(happened') = Len(happened) + 1
        /\ \A i \in 1..Len(happened) : happened'[i] = happened[i]
        /\ happened'[Len(happened) + 1] = states + 1
    BY <1>1, <2>1, <2>2, Appended
  <2>4. MailTypes'
    BY <1>1, <2>1, <2>3 DEF MailTypes
  <2>5. MailOrder'
    <3>1. ASSUME NEW i \in 1..Len(happened'), NEW j \in 1..Len(happened'), i < j
          PROVE  happened'[i] < happened'[j]
      <4>1. i \in 1..Len(happened) /\ happened'[i] = happened[i]
        BY <2>3, <3>1
      <4>2. CASE j \in 1..Len(happened)
        BY <2>3, <3>1, <4>1, <4>2 DEF MailOrder
      <4>3. CASE j = Len(happened) + 1
        BY <1>2, <2>3, <4>1, <4>3
      <4> QED
        BY <2>3, <4>2, <4>3
    <3>2. ASSUME NEW i \in 1..Len(happened'), NEW p \in Polls
          PROVE  got'[p] < happened'[i]
      <4>1. CASE i \in 1..Len(happened)
        BY <2>1, <2>3, <4>1 DEF MailOrder
      <4>2. CASE i = Len(happened) + 1
        BY <1>2, <2>1, <2>3, <4>2
      <4> QED
        BY <2>3, <4>1, <4>2
    <3> QED
      BY <1>4, <2>1, <3>1, <3>2 DEF MailOrder
  <2>6. GivesNewer
    BY <2>1 DEF GivesNewer
  <2>7. ASSUME NEW s \in 1..states',
               s > states \/ \E i \in DOMAIN happened : happened[i] = s
        PROVE  \E i \in DOMAIN happened' : happened'[i] = s
    <3>1. CASE s > states
      BY <1>1, <2>3, <3>1
    <3>2. CASE \E i \in DOMAIN happened : happened[i] = s
      BY <2>3, <3>2
    <3> QED
      BY <2>7, <3>1, <3>2
  <2> QED
    BY <2>4, <2>5, <2>6, <2>7 DEF MailStep
<1> QED
  BY <1>3, <1>4

\* A mailbox that a step leaves alone.
LEMMA MailUntouched ==
    ASSUME MailTypes, MailOrder, UNCHANGED <<states, happened, waiters, got>>,
           poll' \in [Polls -> PollPcs]
    PROVE  MailStep
<1>1. MailTypes' /\ MailOrder' /\ GivesNewer
  BY DEF MailTypes, MailOrder, GivesNewer
<1> QED
  BY <1>1 DEF MailStep, MailTypes

\* A poll takes the oldest state, or waits for the next.
LEMMA PollStatusKeeps ==
    ASSUME MailTypes, MailOrder, NEW p \in Polls, PollStatus(p)
    PROVE  MailStep
<1>1. states \in Nat /\ states' = states
  BY DEF MailTypes, PollStatus
<1>2. CASE happened # <<>>
  <2>1. /\ got' = [got EXCEPT ![p] = Head(happened)] /\ happened' = Tail(happened)
        /\ poll' = [poll EXCEPT ![p] = "ended"] /\ waiters' = waiters
    BY <1>2 DEF PollStatus, OldestOf
  <2>2. /\ Head(happened) \in 1..states /\ happened' \in Seq(1..states)
        /\ 1 \in 1..Len(happened) /\ Head(happened) = happened[1]
        /\ Len(happened') = Len(happened) - 1 /\ Len(happened) \in Nat
        /\ DOMAIN happened = 1..Len(happened)
        /\ DOMAIN happened' = 1..(Len(happened) - 1)
        /\ \A i \in 1..(Len(happened) - 1) : happened'[i] = happened[i + 1]
    BY <1>2, <2>1, HeadTail DEF MailTypes
  <2>3. /\ got'[p] = happened[1] /\ \A q \in Polls : q # p => got'[q] = got[q]
        /\ got' \in [Polls -> 0..states]
    BY <1>1, <2>1, <2>2 DEF MailTypes
  <2>4. MailTypes'
    BY <1>1, <2>1, <2>2, <2>3 DEF MailTypes, PollPcs
  <2>5. \A i \in 1..Len(happened') : i + 1 \in 1..Len(happened) /\ 1 < i + 1
    BY <2>2
  <2>6. MailOrder'
    <3>1. ASSUME NEW i \in 1..Len(happened'), NEW j \in 1..Len(happened'), i < j
          PROVE  happened'[i] < happened'[j]
      <4>1. i + 1 < j + 1
        BY <2>2, <3>1
      <4> QED
        BY <2>2, <2>5, <4>1 DEF MailOrder
    <3>2. ASSUME NEW i \in 1..Len(happened'), NEW q \in Polls
          PROVE  got'[q] < happened'[i]
      <4>1. CASE q = p
        BY <2>2, <2>3, <2>5, <4>1 DEF MailOrder
      <4>2. CASE q # p
        BY <2>2, <2>3, <2>5, <4>2 DEF MailOrder
      <4> QED
        BY <4>1, <4>2
    <3>3. waiters' = <<>>
      BY <1>2, <2>1 DEF MailOrder
    <3> QED
      BY <3>1, <3>2, <3>3 DEF MailOrder
  <2>7. GivesNewer
    BY <2>2, <2>3 DEF GivesNewer, MailOrder
  <2>8. ASSUME NEW s \in 1..states', NEW i \in DOMAIN happened, happened[i] = s
        PROVE  (\E j \in DOMAIN happened' : happened'[j] = s) \/ got'[p] = s
    <3>1. CASE i = 1
      BY <2>3, <2>8, <3>1
    <3>2. CASE i # 1
      <4>1. i - 1 \in DOMAIN happened' /\ happened'[i - 1] = happened[i - 1 + 1]
            /\ i - 1 + 1 = i
        BY <2>2, <3>2
      <4> QED
        BY <2>8, <4>1
    <3> QED
      BY <3>1, <3>2
  <2> QED
    BY <1>1, <2>4, <2>6, <2>7, <2>8 DEF MailStep
<1>3. CASE happened = <<>>
  <2>1. /\ waiters' = Append(waiters, p) /\ poll' = [poll EXCEPT ![p] = "waiting"]
        /\ UNCHANGED <<happened, got>>
    BY <1>3 DEF PollStatus
  <2>2. waiters' \in Seq(Polls)
    BY <2>1, Appended DEF MailTypes
  <2>3. MailTypes'
    BY <1>1, <2>1, <2>2 DEF MailTypes, PollPcs
  <2>4. MailOrder' /\ GivesNewer
    BY <1>3, <2>1 DEF MailOrder, GivesNewer
  <2> QED
    BY <1>1, <1>3, <2>1, <2>3, <2>4 DEF MailStep
<1> QED
  BY <1>2, <1>3

-----------------------------------------------------------------------------
(* The builds.                                                             *)

\* What every step establishes.
StepOK == IInv' /\ GivesNewer /\ KeepsOrGives /\ AckedOrKilled

\* A step of the mailbox and of the rest, with a success only as it may be.
LEMMA StepOfMail ==
    ASSUME MailStep, OtherTypes', OneThreadPerNode', AckedOrKilled
    PROVE  StepOK
BY TypeParts DEF StepOK, MailStep, IInv, KeepsOrGives

\* Steps of the polls touch the mailbox only.
LEMMA PollsKeep ==
    ASSUME IInv, NEW p \in Polls, PollStatus(p) \/ PollTimeout(p) \/ PollResumes(p)
    PROVE  StepOK
<1>1. MailTypes /\ OtherTypes /\ MailOrder /\ OneThreadPerNode
  BY TypeParts DEF IInv
<1>2. UNCHANGED <<buildVars, connVars, futVars, reports>>
  BY DEF PollStatus, PollTimeout, TimeoutPoll, PollResumes
<1>3. OtherTypes' /\ OneThreadPerNode' /\ AckedOrKilled
  BY <1>1, <1>2 DEF OtherTypes, OneThreadPerNode, Building, AckedOrKilled, Succeeds,
                    buildVars, connVars, futVars
<1>4. CASE PollStatus(p)
  BY <1>1, <1>3, <1>4, PollStatusKeeps, StepOfMail
<1>5. CASE PollTimeout(p) \/ PollResumes(p)
  <2>1. /\ UNCHANGED <<states, happened, waiters, got>>
        /\ poll' \in [Polls -> PollPcs]
    BY <1>1, <1>5 DEF PollTimeout, TimeoutPoll, PollResumes, MailTypes, PollPcs
  <2> QED
    BY <1>1, <1>3, <2>1, MailUntouched, StepOfMail
<1> QED
  BY <1>4, <1>5

\* The mailbox after a report, and after a step that leaves it alone.
LEMMA MailMoves ==
    ASSUME IInv, Report \/ UNCHANGED mailVars
    PROVE  MailStep
<1>1. MailTypes /\ MailOrder
  BY TypeParts DEF IInv
<1>2. CASE UNCHANGED mailVars
  BY <1>1, <1>2, MailUntouched DEF mailVars, MailTypes
<1> QED
  BY <1>1, <1>2, ReportKeeps

\* A build moves to a place other than the compilation, with a report or none.
LEMMA BuildMoves ==
    ASSUME IInv, NEW b \in Builds, NEW at \in BuildPcs \ {"building"},
           build' = [build EXCEPT ![b] = at],
           Report \/ UNCHANGED mailVars,
           retries' \in [Builds -> 0..(RETRIES - 1)],
           cur' \in [Builds -> Conns \cup {NoConn}],
           notify' \in [Conns -> Builds \cup {NoBuild}],
           futSet' \in [Conns -> BOOLEAN],
           UNCHANGED connVars, UNCHANGED reports,
           at = "succeeded" => build[b] = "notified" \/ conn[cur'[b]] = "killed"
    PROVE  StepOK
<1>1. OtherTypes /\ OneThreadPerNode
  BY TypeParts DEF IInv
<1>2. OtherTypes'
  BY <1>1 DEF OtherTypes, connVars
<1>3. OneThreadPerNode'
  BY <1>1 DEF OneThreadPerNode, Building, OtherTypes
<1>4. AckedOrKilled
  BY <1>1 DEF AckedOrKilled, Succeeds, OtherTypes
<1> QED
  BY <1>2, <1>3, <1>4, MailMoves, StepOfMail

\* The steps that move one build and leave the rest.
LEMMA SimpleStepsKeep ==
    ASSUME IInv, NEW b \in Builds,
           \/ Trigger(b) \/ RefuseBuild(b) \/ ThreadEnds(b) \/ ThreadDies(b)
           \/ PostBuildEnds(b) \/ NotifyTimeout(b)
    PROVE  StepOK
<1>1. OtherTypes
  BY TypeParts DEF IInv
<1>2. /\ UNCHANGED <<retries, cur, notify, futSet, connVars, reports>>
      /\ Report \/ UNCHANGED mailVars
      /\ \E at \in BuildPcs \ {"building", "succeeded"} :
            build' = [build EXCEPT ![b] = at]
  BY DEF Trigger, RefuseBuild, ThreadEnds, ThreadDies, PostBuildEnds, NotifyTimeout,
         futVars, BuildPcs, Results
<1> QED
  BY <1>1, <1>2, BuildMoves DEF OtherTypes

\* The thread is started after a look at the threads, in the same step.
LEMMA StartBuildKeeps ==
    ASSUME IInv, NEW b \in Builds, StartBuild(b)
    PROVE  StepOK
<1>1. MailTypes /\ OtherTypes /\ OneThreadPerNode
  BY TypeParts DEF IInv
<1>2. /\ build[b] = "asking" /\ ~ThreadFound /\ build' = [build EXCEPT ![b] = "building"]
      /\ happened' = <<>> /\ waiters' = <<>>
      /\ UNCHANGED <<states, poll, got, retries, cur, connVars, futVars, reports>>
  BY DEF StartBuild
<1>3. MailTypes' /\ MailOrder' /\ GivesNewer
  BY <1>1, <1>2 DEF MailTypes, MailOrder, GivesNewer
<1>4. OtherTypes'
  BY <1>1, <1>2 DEF OtherTypes, connVars, futVars, BuildPcs
<1>5. OneThreadPerNode'
  BY <1>1, <1>2 DEF OneThreadPerNode, Building, ThreadFound, OtherTypes
<1>6. KeepsOrGives /\ AckedOrKilled
  BY <1>1, <1>2 DEF KeepsOrGives, AckedOrKilled, Succeeds, OtherTypes
<1> QED
  BY <1>3, <1>4, <1>5, <1>6, TypeParts DEF StepOK, IInv

\* A turn of the loop "go OTA": another attempt, or the end, which is silent
\* only when the connection was killed.
LEMMA LoopKeeps ==
    ASSUME IInv, NEW b \in Builds, NEW c \in Conns \cup {NoConn}, NEW n \in Nat,
           Loop(b, c, n), cur' \in [Builds -> Conns \cup {NoConn}], cur'[b] = c,
           UNCHANGED connVars, UNCHANGED reports
    PROVE  StepOK
<1>1. OtherTypes /\ RETRIES \in Nat \ {0}
  BY TypeParts, OtaAssumption DEF IInv
<1>2. CASE MayTry(c, n) /\ Attempt(b, c, n)
  <2>1. /\ build' = [build EXCEPT ![b] = "waiting"] /\ Report
        /\ retries' = [retries EXCEPT ![b] = n] /\ n \in 0..(RETRIES - 1)
        /\ notify' = [notify EXCEPT ![c] = b] /\ futSet' = [futSet EXCEPT ![c] = FALSE]
    BY <1>1, <1>2 DEF MayTry, Attempt
  <2>2. /\ retries' \in [Builds -> 0..(RETRIES - 1)]
        /\ notify' \in [Conns -> Builds \cup {NoBuild}]
        /\ futSet' \in [Conns -> BOOLEAN]
    BY <1>1, <2>1 DEF OtherTypes
  <2> QED
    BY <2>1, <2>2, BuildMoves DEF BuildPcs
<1>3. CASE ~MayTry(c, n) /\ LoopEnds(b, n)
  <2>1. PICK at \in {"reported", "succeeded"} :
            /\ build' = [build EXCEPT ![b] = at]
            /\ at = "succeeded" => ~OutOfRetries(n)
    BY <1>3 DEF LoopEnds
  <2>2. /\ retries' \in [Builds -> 0..(RETRIES - 1)] /\ UNCHANGED <<notify, futSet>>
        /\ Report \/ UNCHANGED mailVars
    BY <1>1, <1>3 DEF LoopEnds, OtherTypes, futVars
  <2>3. at = "succeeded" => conn[cur'[b]] = "killed"
    BY <1>1, <1>3, <2>1 DEF MayTry, OutOfRetries
  <2> QED
    BY <1>1, <2>1, <2>2, <2>3, BuildMoves DEF BuildPcs, OtherTypes
<1> QED
  BY <1>2, <1>3 DEF Loop

\* post_build, when it first notifies the node and when it is resumed.
LEMMA PostBuildKeeps ==
    ASSUME IInv, NEW b \in Builds, PostBuildNotifies(b) \/ PostBuildResumes(b)
    PROVE  StepOK
<1>1. OtherTypes /\ RETRIES \in Nat \ {0}
  BY TypeParts, OtaAssumption DEF IInv
<1>2. CASE PostBuildNotifies(b)
  <2>1. /\ cur' = [cur EXCEPT ![b] = pool] /\ Loop(b, pool, 0)
        /\ UNCHANGED connVars /\ UNCHANGED reports
    BY <1>2 DEF PostBuildNotifies
  <2>2. pool \in Conns \cup {NoConn} /\ cur' \in [Builds -> Conns \cup {NoConn}]
        /\ cur'[b] = pool
    BY <1>1, <2>1 DEF OtherTypes
  <2> QED
    BY <2>1, <2>2, LoopKeeps
<1>3. CASE build[b] = "timedout" /\ PostBuildResumes(b)
  <2>1. /\ Loop(b, cur[b], retries[b] + 1) /\ cur' = cur
        /\ UNCHANGED connVars /\ UNCHANGED reports
    BY <1>3 DEF PostBuildResumes
  <2>2. cur[b] \in Conns \cup {NoConn} /\ retries[b] + 1 \in Nat
    BY <1>1 DEF OtherTypes
  <2> QED
    BY <1>1, <2>1, <2>2, LoopKeeps DEF OtherTypes
<1>4. CASE build[b] = "notified" /\ PostBuildResumes(b)
  <2>1. /\ LoopEnds(b, retries[b]) /\ cur' = cur
        /\ UNCHANGED connVars /\ UNCHANGED reports
    BY <1>4 DEF PostBuildResumes
  <2>2. PICK at \in {"reported", "succeeded"} : build' = [build EXCEPT ![b] = at]
    BY <2>1 DEF LoopEnds
  <2>3. /\ retries' \in [Builds -> 0..(RETRIES - 1)] /\ UNCHANGED <<notify, futSet>>
        /\ Report \/ UNCHANGED mailVars
    BY <1>1, <2>1 DEF LoopEnds, OtherTypes, futVars
  <2> QED
    BY <1>1, <1>4, <2>1, <2>2, <2>3, BuildMoves DEF BuildPcs, OtherTypes
<1> QED
  BY <1>2, <1>3, <1>4 DEF PostBuildResumes

-----------------------------------------------------------------------------
(* The node.                                                               *)

\* An acknowledgement, for the build that made the last attempt.
LEMMA NodeAcksKeeps ==
    ASSUME IInv, NEW c \in Conns, NodeAcks(c)
    PROVE  StepOK
<1>1. OtherTypes /\ OneThreadPerNode
  BY TypeParts DEF IInv
<1>2. /\ notify[c] \in Builds
      /\ futSet' \in [Conns -> BOOLEAN]
      /\ build' = build \/ build' = [build EXCEPT ![notify[c]] = "notified"]
      /\ UNCHANGED <<retries, cur, connVars, notify, reports>>
  BY <1>1 DEF NodeAcks, OtherTypes
<1>3. OtherTypes'
  BY <1>1, <1>2 DEF OtherTypes, connVars, BuildPcs
<1>4. OneThreadPerNode'
  BY <1>1, <1>2 DEF OneThreadPerNode, Building, OtherTypes
<1>5. AckedOrKilled
  BY <1>1, <1>2 DEF AckedOrKilled, Succeeds, OtherTypes
<1>6. Report \/ UNCHANGED mailVars
  BY DEF NodeAcks
<1> QED
  BY <1>3, <1>4, <1>5, <1>6, MailMoves, StepOfMail

\* A state of the update, and what becomes of the connections.
LEMMA NodeKeeps ==
    ASSUME IInv,
           UpdateReports \/ \E c \in Conns : Connect(c) \/ ConnBreaks(c)
    PROVE  StepOK
<1>1. OtherTypes /\ OneThreadPerNode
  BY TypeParts DEF IInv
<1>2. UNCHANGED buildVars /\ (Report \/ UNCHANGED mailVars)
  BY DEF UpdateReports, Connect, ConnBreaks
<1>3. OtherTypes'
  <2>1. CASE UpdateReports
    BY <1>1, <2>1, OtaAssumption DEF UpdateReports, OtherTypes, buildVars, connVars, futVars
  <2>2. ASSUME NEW c \in Conns, Connect(c) PROVE OtherTypes'
    BY <1>1, <2>2 DEF Connect, OtherTypes, buildVars, futVars
  <2>3. ASSUME NEW c \in Conns, ConnBreaks(c) PROVE OtherTypes'
    BY <1>1, <2>3 DEF ConnBreaks, OtherTypes, buildVars, futVars
  <2> QED
    BY <2>1, <2>2, <2>3
<1>4. OneThreadPerNode' /\ AckedOrKilled
  BY <1>1, <1>2 DEF OneThreadPerNode, Building, AckedOrKilled, Succeeds, buildVars
<1> QED
  BY <1>2, <1>3, <1>4, MailMoves, StepOfMail

-----------------------------------------------------------------------------
(* The theorems.                                                           *)

\* At first the lists are empty.
LEMMA InitKeeps == Init => IInv
<1> SUFFICES ASSUME Init PROVE IInv
  OBVIOUS
<1>1. PICK plan \in Plans :
        /\ poll = [p \in Polls |-> IF p <= plan.polls THEN "idle" ELSE "ended"]
        /\ build = [b \in Builds |-> IF b <= plan.builds THEN "idle" ELSE "refused"]
        /\ conn = [c \in Conns |-> IF c <= plan.conns THEN "new" ELSE "killed"]
        /\ reports = MaxReports - plan.reports
  BY DEF Init
<1>2. MailTypes
  BY <1>1 DEF Init, MailTypes, PollPcs
<1>3. OtherTypes
  <2>1. reports \in 0..MaxReports
    BY <1>1, OtaAssumption
  <2> QED
    BY <1>1, <2>1, OtaAssumption DEF Init, OtherTypes, BuildPcs
<1>4. MailOrder
  BY DEF Init, MailOrder
<1>5. OneThreadPerNode
  BY <1>1 DEF OneThreadPerNode, Building
<1> QED
  BY <1>2, <1>3, <1>4, <1>5, TypeParts DEF IInv

\* Every step keeps the invariant and does what the action properties ask.
THEOREM Inductive ==
    IInv /\ [Next]_vars =>
        IInv' /\ [GivesNewer /\ KeepsOrGives /\ AckedOrKilled]_vars
<1> SUFFICES ASSUME IInv, [Next]_vars
             PROVE  IInv' /\ [GivesNewer /\ KeepsOrGives /\ AckedOrKilled]_vars
  OBVIOUS
<1>1. ASSUME NEW p \in Polls, PollStatus(p) \/ PollTimeout(p) \/ PollResumes(p)
      PROVE  StepOK
  BY <1>1, PollsKeep
<1>2. ASSUME NEW b \in Builds, Trigger(b) \/ BuildStep(b)
      PROVE  StepOK
  BY <1>2, SimpleStepsKeep, StartBuildKeeps, PostBuildKeeps DEF BuildStep
<1>3. ASSUME NEW c \in Conns, NodeAcks(c) PROVE StepOK
  BY <1>3, NodeAcksKeeps
<1>4. ASSUME UpdateReports \/ \E c \in Conns : Connect(c) \/ ConnBreaks(c)
      PROVE  StepOK
  BY <1>4, NodeKeeps
<1>5. CASE UNCHANGED vars
  <2>1. IInv'
    BY <1>5 DEF vars, mailVars, buildVars, connVars, futVars, IInv, TypeOK, MailOrder,
                OneThreadPerNode, Building
  <2> QED
    BY <1>5, <2>1
<1> QED
  BY <1>1, <1>2, <1>3, <1>4, <1>5 DEF Next, StepOK

\* The invariant holds in every behaviour.
THEOREM Invariant == Spec => []IInv
<1>1. Init => IInv
  BY InitKeeps
<1>2. IInv /\ [Next]_vars => IInv'
  BY Inductive
<1> QED
  BY <1>1, <1>2, PTL DEF Spec

\* Types are kept, so the retries are bounded, and however triggers overlap in
\* their wait for the node's answer, one thread at most compiles for a node.
THEOREM BuildsCorrect == Spec => []BuildsInv
<1>1. IInv => BuildsInv
  BY DEF IInv, BuildsInv
<1> QED
  BY <1>1, Invariant, PTL

\* A poll is given a newer state than every poll before it.
THEOREM StatesInOrder == Spec => HandedInOrder
<1>1. IInv /\ [Next]_vars => [GivesNewer]_vars
  BY Inductive
<1> QED
  BY <1>1, Invariant, PTL DEF Spec, HandedInOrder

\* A state is kept until a poll takes it or a new build clears the lists.
THEOREM StatesKept == Spec => NothingLost
<1>1. IInv /\ [Next]_vars => [KeepsOrGives]_vars
  BY Inductive
<1> QED
  BY <1>1, Invariant, PTL DEF Spec, NothingLost

\* A build reports a success it has no acknowledgement of only if its
\* connection was killed.
THEOREM SilentSuccess == Spec => SilentOnlyIfKilled
<1>1. IInv /\ [Next]_vars => [AckedOrKilled]_vars
  BY Inductive
<1> QED
  BY <1>1, Invariant, PTL DEF Spec, SilentOnlyIfKilled
=============================================================================
