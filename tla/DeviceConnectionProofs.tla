----------------------- MODULE DeviceConnectionProofs -----------------------
(***************************************************************************)
(* Proofs about DeviceConnection, for any number of calls and any limit    *)
(* PENDING_REQ_CNT.  The invariants are proved together: the count needs   *)
(* to know that a released semaphore wakes a call that is queued, which    *)
(* is counted already, and the type of the count needs that it is exact.   *)
(* The replies come second: a reply is in one place at a time, and the     *)
(* request that was woken for it runs before the reader does.              *)
(***************************************************************************)
EXTENDS DeviceConnection, FiniteSetTheorems, SequenceTheorems, TLAPS

Entries == Callers \cup {Reader, CloseCallback}

\* The waiters of the semaphore are calls that queue for it, each once.
QueuedOK ==
    /\ \A i \in DOMAIN semQ : pc[semQ[i]] = "queued"
    /\ \A i, j \in DOMAIN semQ : semQ[i] = semQ[j] => i = j

\* The writes under way belong to calls that wait for them, one each.
WritesOK ==
    /\ \A i \in DOMAIN writeQ : pc[writeQ[i]] = "writing"
    /\ \A i, j \in DOMAIN writeQ : writeQ[i] = writeQ[j] => i = j

\* Before on_close has run, either the semaphore is free or one call holds it.
Exclusive ==
    stream # "none" =>
        /\ sem \in {0, 1} /\ (sem = 1 => Holders = {})
        /\ \A c, d \in Holders : c = d

\* A read that was resolved with data finds it.
ReadOK == reader = "got" => inbuf # <<>>

IInv == TypeOK /\ PendingExact /\ QueuedOK /\ WritesOK /\ Exclusive /\ ReadOK

\* What a step of a call establishes in any case.
CallTypes ==
    /\ ready \in Seq(Entries)
    /\ pc \in [Callers -> Pcs]
    /\ sem \in Nat /\ semQ \in Seq(Callers)
    /\ pending \in 0..PENDING_REQ_CNT
    /\ result \in [Callers -> Results]
    /\ answer \in [Callers -> Requests \cup {NoReply}]

OtherTypes ==
    /\ condQ \in Seq(Requests)
    /\ recvMsg \in Requests \cup {NoReply}
    /\ stream \in {"open", "closed", "none"} /\ killed \in BOOLEAN
    /\ reader \in ReaderPcs
    /\ writeQ \in Seq(Callers) /\ sent \in Seq(Callers)
    /\ inbuf \in Seq(Pieces)

\* TypeOK is what the steps of a call can disturb and what they cannot.
LEMMA TypeParts == TypeOK <=> CallTypes /\ OtherTypes
BY DEF TypeOK, CallTypes, OtherTypes, Entries

\* The same of the next state.
LEMMA TypePartsPrime == TypeOK' <=> CallTypes' /\ OtherTypes'
BY DEF TypeOK, CallTypes, OtherTypes, Entries

\* The part of IInv that the steps of the calls can disturb.
CallInv ==
    /\ CallTypes /\ PendingExact /\ QueuedOK /\ WritesOK /\ Exclusive
    /\ condQ \in Seq(Requests) /\ sent \in Seq(Callers) /\ writeQ \in Seq(Callers)

\* The running call c has the semaphore's value v and the count p in hand: it
\* is counted in p, and holds the semaphore that v does not show.
Hand(c, v, p) ==
    /\ pc[c] \in {"idle", "granted", "written", "writefail", "notified", "timedout"}
    /\ v \in Nat /\ p \in 0..PENDING_REQ_CNT
    /\ p = Cardinality(Active \cup ({c} \cap Requests))
    /\ stream # "none" => v = 0 /\ Holders \subseteq {c}

-----------------------------------------------------------------------------
(* Sequences and sets.                                                     *)

\* The head and the tail of a queue that is not empty, element by element.
LEMMA HeadTail ==
    ASSUME NEW S, NEW q \in Seq(S), q # <<>>
    PROVE  /\ Head(q) \in S /\ Tail(q) \in Seq(S)
           /\ 1 \in DOMAIN q /\ Head(q) = q[1]
           /\ Len(Tail(q)) = Len(q) - 1 /\ Len(q) \in Nat \ {0}
           /\ DOMAIN q = 1..Len(q) /\ DOMAIN Tail(q) = 1..(Len(q) - 1)
           /\ \A i \in DOMAIN Tail(q) : Tail(q)[i] = q[i + 1] /\ i + 1 \in DOMAIN q
OBVIOUS

\* A queue with one more entry, element by element.
LEMMA Appended ==
    ASSUME NEW S, NEW q \in Seq(S), NEW e \in S
    PROVE  /\ Append(q, e) \in Seq(S)
           /\ DOMAIN q = 1..Len(q) /\ Len(q) \in Nat
           /\ DOMAIN Append(q, e) = 1..(Len(q) + 1)
           /\ \A i \in 1..Len(q) : Append(q, e)[i] = q[i]
           /\ Append(q, e)[Len(q) + 1] = e
OBVIOUS

\* The requests in progress can be counted.
LEMMA ActiveFinite == IsFiniteSet(Active) /\ Cardinality(Active) \in Nat
<1>1. Active \in SUBSET Requests
  BY DEF Active
<1> QED
  BY <1>1, ConnectionAssumption, FS_Subset, FS_CardinalityType

-----------------------------------------------------------------------------
(* The steps of a call.                                                    *)

\* Release of a semaphore of value v by a call that leaves pc as `at', with
\* the same calls in the queue: either the value goes up, or the call h at the
\* head of the queue is granted it.
LEMMA ReleaseKeeps ==
    ASSUME IInv,
           NEW at \in [Callers -> Pcs], NEW v \in Nat, NEW rest \in Seq(Entries),
           \A i \in DOMAIN semQ : at[semQ[i]] = "queued",
           Release(at, v, rest)
    PROVE  /\ ready' \in Seq(Entries) /\ sem' \in Nat /\ semQ' \in Seq(Callers)
           /\ QueuedOK'
           /\ \/ pc' = at /\ sem' = v + 1
              \/ \E h \in Callers : /\ at[h] = "queued"
                                    /\ pc' = [at EXCEPT ![h] = "granted"]
                                    /\ sem' = v
<1>1. semQ \in Seq(Callers) /\ \A i, j \in DOMAIN semQ : semQ[i] = semQ[j] => i = j
  BY DEF IInv, TypeOK, QueuedOK
<1>2. CASE semQ = <<>>
  <2>1. sem' = v + 1 /\ pc' = at /\ ready' = rest /\ semQ' = semQ
    BY <1>2 DEF Release
  <2> QED
    BY <1>1, <1>2, <2>1 DEF QueuedOK
<1>3. CASE semQ # <<>>
  <2> DEFINE h == Head(semQ)
  <2>1. /\ sem' = v /\ semQ' = Tail(semQ)
        /\ pc' = [at EXCEPT ![h] = "granted"] /\ ready' = Append(rest, h)
    BY <1>3 DEF Release
  <2>2. /\ h \in Callers /\ Tail(semQ) \in Seq(Callers)
        /\ 1 \in DOMAIN semQ /\ h = semQ[1]
        /\ DOMAIN Tail(semQ) = 1..(Len(semQ) - 1) /\ Len(semQ) \in Nat
        /\ \A i \in DOMAIN Tail(semQ) : Tail(semQ)[i] = semQ[i + 1] /\ i + 1 \in DOMAIN semQ
    BY <1>1, <1>3, HeadTail
  <2>3. h \in Entries
    BY <2>2 DEF Entries
  <2>4. ready' \in Seq(Entries)
    BY <2>1, <2>3, Appended
  <2>5. ASSUME NEW i \in DOMAIN semQ' PROVE pc'[semQ'[i]] = "queued"
    <3>1. semQ'[i] = semQ[i + 1] /\ i + 1 \in DOMAIN semQ /\ i \in Nat \ {0}
      BY <2>1, <2>2
    <3>2. semQ[i + 1] # h
      BY <1>1, <2>2, <3>1
    <3>3. semQ[i + 1] \in Callers
      BY <1>1, <3>1
    <3> QED
      BY <2>1, <2>2, <3>1, <3>2, <3>3
  <2>6. ASSUME NEW i \in DOMAIN semQ', NEW j \in DOMAIN semQ', semQ'[i] = semQ'[j]
        PROVE  i = j
    <3>1. semQ[i + 1] = semQ[j + 1] /\ i + 1 \in DOMAIN semQ /\ j + 1 \in DOMAIN semQ
      BY <2>1, <2>2, <2>6
    <3>2. i \in Nat /\ j \in Nat
      BY <2>1, <2>2
    <3> QED
      BY <1>1, <3>1, <3>2
  <2>7. at[h] = "queued"
    BY <2>2
  <2> HIDE DEF h
  <2> QED
    BY <2>1, <2>2, <2>4, <2>5, <2>6, <2>7 DEF QueuedOK
<1> QED
  BY <1>2, <1>3

\* Taking a call out of the requests in progress, or putting it in.
LEMMA CountOne ==
    ASSUME NEW c \in Callers, NEW p,
           p = Cardinality(Active \cup ({c} \cap Requests))
    PROVE  /\ p \in Nat
           /\ c \in Requests => p \in Nat \ {0} /\ Cardinality(Active \ {c}) = p - 1
           /\ c \notin Requests => Cardinality(Active) = p
<1>1. IsFiniteSet(Active)
  BY ActiveFinite
<1>2. CASE c \in Requests
  <2> DEFINE A == Active \cup {c}
  <2>1. A = Active \cup ({c} \cap Requests)
    BY <1>2
  <2>2. IsFiniteSet(A)
    BY <1>1, FS_AddElement
  <2>3. Cardinality(A \ {c}) = Cardinality(A) - 1
    BY <2>2, FS_RemoveElement
  <2>4. A \ {c} = Active \ {c}
    OBVIOUS
  <2>5. Cardinality(A) \in Nat /\ Cardinality(A \ {c}) \in Nat
    BY <2>2, FS_CardinalityType, FS_RemoveElement
  <2> HIDE DEF A
  <2> QED
    BY <1>2, <2>1, <2>3, <2>4, <2>5
<1>3. CASE c \notin Requests
  <2>1. Active \cup ({c} \cap Requests) = Active
    BY <1>3
  <2> QED
    BY <1>3, <2>1, ActiveFinite
<1> QED
  BY <1>2, <1>3

\* The call returns: it leaves the count, and the semaphore is free again or
\* has gone to the next call.
LEMMA ReturnKeeps ==
    ASSUME IInv,
           NEW c \in Callers, NEW v, NEW p, Hand(c, v, p),
           NEW res \in Results, NEW ans \in Requests \cup {NoReply},
           NEW rest \in Seq(Entries),
           Return(c, res, ans, v, p, rest), stream' = stream
    PROVE  /\ CallTypes' /\ PendingExact' /\ QueuedOK' /\ Exclusive'
           /\ \A d \in Callers : pc[d] = "writing" => pc'[d] = "writing"
<1> DEFINE at == [pc EXCEPT ![c] = "done"]
<1>1. /\ pc \in [Callers -> Pcs] /\ semQ \in Seq(Callers)
      /\ result \in [Callers -> Results]
      /\ answer \in [Callers -> Requests \cup {NoReply}]
      /\ \A i \in DOMAIN semQ : pc[semQ[i]] = "queued" /\ semQ[i] \in Callers
  BY DEF IInv, TypeOK, QueuedOK
<1>2. /\ result' = [result EXCEPT ![c] = res] /\ answer' = [answer EXCEPT ![c] = ans]
      /\ pending' = Uncount(c, p) /\ Release(at, v, rest)
  BY DEF Return
<1>3. pc[c] \notin {"queued", "writing", "done"} /\ v \in Nat /\ p \in 0..PENDING_REQ_CNT
  BY DEF Hand
<1>4. at \in [Callers -> Pcs] /\ \A i \in DOMAIN semQ : at[semQ[i]] = "queued"
  BY <1>1, <1>3 DEF Pcs
<1>5. /\ ready' \in Seq(Entries) /\ sem' \in Nat /\ semQ' \in Seq(Callers)
      /\ QueuedOK'
      /\ \/ pc' = at /\ sem' = v + 1
         \/ \E h \in Callers : /\ at[h] = "queued"
                               /\ pc' = [at EXCEPT ![h] = "granted"]
                               /\ sem' = v
  <2> HIDE DEF at
  <2> QED
    BY <1>2, <1>3, <1>4, ReleaseKeeps
<1>6. \A d \in Callers : \/ pc'[d] = at[d]
                         \/ at[d] = "queued" /\ pc'[d] = "granted"
  BY <1>4, <1>5
<1>7. pc' \in [Callers -> Pcs] /\ \A d \in Callers : pc[d] = "writing" => pc'[d] = "writing"
  <2>1. \A d \in Callers : pc[d] = "writing" => at[d] = "writing"
    BY <1>1, <1>3
  <2>2. pc' \in [Callers -> Pcs]
    BY <1>4, <1>5 DEF Pcs, HolderPcs
  <2> HIDE DEF at
  <2> QED
    BY <1>6, <2>1, <2>2
<1>8. Active' = Active \ {c}
  <2>1. \A r \in Requests : at[r] \notin {"idle", "done"} <=> r \in Active \ {c}
    BY <1>1 DEF Active, Callers
  <2>2. \A r \in Requests : pc'[r] \notin {"idle", "done"} <=> at[r] \notin {"idle", "done"}
    <3> HIDE DEF at
    <3> QED
      BY <1>6 DEF Callers
  <2> QED
    BY <2>1, <2>2 DEF Active
<1>9. pending' = Cardinality(Active') /\ pending' \in 0..PENDING_REQ_CNT
  <2>1. p = Cardinality(Active \cup ({c} \cap Requests))
    BY DEF Hand
  <2>2. CASE c \in Requests
    <3>1. p \in Nat \ {0} /\ Cardinality(Active \ {c}) = p - 1
      BY <2>1, <2>2, CountOne
    <3> QED
      BY <1>2, <1>3, <1>8, <2>2, <3>1, ConnectionAssumption DEF Uncount
  <2>3. CASE c \notin Requests
    <3>1. Cardinality(Active) = p /\ Active \ {c} = Active
      BY <2>1, <2>3, CountOne DEF Active
    <3> QED
      BY <1>2, <1>3, <1>8, <2>3, <3>1 DEF Uncount
  <2> QED
    BY <2>2, <2>3
<1>10. Exclusive'
  <2> SUFFICES ASSUME stream' # "none"
               PROVE  /\ sem' \in {0, 1} /\ (sem' = 1 => Holders' = {})
                      /\ \A d, e \in Holders' : d = e
    BY DEF Exclusive
  <2>1. v = 0 /\ Holders \subseteq {c}
    BY DEF Hand
  <2>2. \A d \in Callers : at[d] \notin HolderPcs
    BY <1>1, <2>1 DEF Holders, HolderPcs
  <2>3. CASE pc' = at /\ sem' = v + 1
    BY <2>1, <2>2, <2>3 DEF Holders
  <2>4. ASSUME NEW h \in Callers, at[h] = "queued",
               pc' = [at EXCEPT ![h] = "granted"], sem' = v
        PROVE  sem' = 0 /\ Holders' \subseteq {h}
    <3> HIDE DEF at
    <3> QED
      BY <1>4, <2>1, <2>2, <2>4 DEF Holders
  <2> QED
    <3> HIDE DEF at
    <3> QED
      BY <1>5, <2>3, <2>4
<1> QED
  BY <1>1, <1>2, <1>5, <1>7, <1>9, <1>10 DEF CallTypes, PendingExact

\* The call gives up control and keeps the semaphore.
LEMMA SuspendKeeps ==
    ASSUME IInv,
           NEW c \in Callers, NEW v, NEW p, Hand(c, v, p),
           NEW at \in HolderPcs, NEW rest \in Seq(Entries),
           Suspend(c, at, v, p, rest), stream' = stream
    PROVE  /\ CallTypes' /\ PendingExact' /\ QueuedOK' /\ Exclusive'
           /\ pc' = [pc EXCEPT ![c] = at]
           /\ \A d \in Callers : pc[d] = "writing" => pc'[d] = "writing"
<1>1. /\ pc \in [Callers -> Pcs] /\ semQ \in Seq(Callers)
      /\ result \in [Callers -> Results]
      /\ answer \in [Callers -> Requests \cup {NoReply}]
      /\ \A i \in DOMAIN semQ : pc[semQ[i]] = "queued" /\ semQ[i] \in Callers
  BY DEF IInv, TypeOK, QueuedOK
<1>2. /\ pc' = [pc EXCEPT ![c] = at] /\ sem' = v /\ pending' = p /\ ready' = rest
      /\ semQ' = semQ /\ result' = result /\ answer' = answer
  BY DEF Suspend
<1>3. pc[c] \notin {"queued", "writing"} /\ v \in Nat /\ p \in 0..PENDING_REQ_CNT
  BY DEF Hand
<1>4. at \notin {"idle", "done", "queued"} /\ at \in Pcs
  BY DEF HolderPcs, Pcs
<1>5. CallTypes'
  BY <1>1, <1>2, <1>3, <1>4 DEF CallTypes
<1>6. Active' = Active \cup ({c} \cap Requests)
  BY <1>1, <1>2, <1>4 DEF Active, Callers
<1>7. PendingExact'
  BY <1>2, <1>6 DEF PendingExact, Hand
<1>8. QueuedOK'
  BY <1>1, <1>2, <1>3 DEF QueuedOK, IInv
<1>9. Exclusive'
  <2> SUFFICES ASSUME stream' # "none"
               PROVE  sem' = 0 /\ Holders' \subseteq {c}
    BY DEF Exclusive
  <2> QED
    BY <1>1, <1>2 DEF Hand, Holders
<1> QED
  BY <1>1, <1>2, <1>3, <1>5, <1>7, <1>8, <1>9

\* A step that starts no write and ends none but those of calls it resumes.
LEMMA WritesKept ==
    ASSUME IInv, writeQ' = writeQ,
           \A d \in Callers : pc[d] = "writing" => pc'[d] = "writing"
    PROVE  WritesOK' /\ writeQ' \in Seq(Callers)
<1>1. writeQ \in Seq(Callers) /\ WritesOK
  BY DEF IInv, TypeOK
<1>2. \A i \in DOMAIN writeQ : writeQ[i] \in Callers
  BY <1>1
<1> QED
  BY <1>1, <1>2 DEF WritesOK

\* A step of a call leaves what the reader and the stream use alone.
LEMMA CallStep ==
    ASSUME IInv, CallInv', UNCHANGED connVars
    PROVE  IInv'
<1>1. OtherTypes'
  BY DEF IInv, TypeOK, OtherTypes, CallInv, connVars
<1>2. ReadOK'
  BY DEF IInv, ReadOK, connVars
<1> QED
  BY <1>1, <1>2, TypePartsPrime DEF IInv, CallInv

\* A call that waits for its write, waits for a reply or returns.
LEMMA AfterWriteKeeps ==
    ASSUME IInv,
           NEW c \in Callers, NEW v, NEW p, Hand(c, v, p),
           NEW rest \in Seq(Entries),
           AfterWrite(c, v, p, rest), stream' = stream, writeQ' = writeQ,
           sent' \in Seq(Callers)
    PROVE  CallInv'
<1>1. condQ \in Seq(Requests)
  BY DEF IInv, TypeOK
<1>2. CASE c \in Requests /\ Suspend(c, "waiting", v, p, rest) /\ condQ' = Append(condQ, c)
  <2>1. "waiting" \in HolderPcs
    BY DEF HolderPcs
  <2>2. /\ CallTypes' /\ PendingExact' /\ QueuedOK' /\ Exclusive'
        /\ \A d \in Callers : pc[d] = "writing" => pc'[d] = "writing"
    BY <1>2, <2>1, SuspendKeeps
  <2>3. condQ' \in Seq(Requests)
    BY <1>1, <1>2, Appended
  <2> QED
    BY <2>2, <2>3, WritesKept DEF CallInv
<1>3. CASE c \in Commands /\ Return(c, "ok", NoReply, v, p, rest) /\ condQ' = condQ
  <2>1. "ok" \in Results /\ NoReply \in Requests \cup {NoReply}
    BY DEF Results
  <2>2. /\ CallTypes' /\ PendingExact' /\ QueuedOK' /\ Exclusive'
        /\ \A d \in Callers : pc[d] = "writing" => pc'[d] = "writing"
    BY <1>3, <2>1, ReturnKeeps
  <2> QED
    BY <1>1, <1>3, <2>2, WritesKept DEF CallInv
<1> QED
  BY <1>2, <1>3 DEF AfterWrite

\* secure_write keeps the invariant: the bytes go out, wait, or fail.
LEMMA SecureWriteKeeps ==
    ASSUME IInv,
           NEW c \in Callers, NEW v, NEW p, Hand(c, v, p),
           NEW rest \in Seq(Entries),
           SecureWrite(c, v, p, rest), stream' = stream
    PROVE  CallInv'
<1>1. condQ \in Seq(Requests) /\ sent \in Seq(Callers) /\ writeQ \in Seq(Callers)
  BY DEF IInv, TypeOK
<1>2. CASE sent' = Append(sent, c) /\ AfterWrite(c, v, p, rest) /\ writeQ' = writeQ
  BY <1>1, <1>2, Appended, AfterWriteKeeps
<1>3. CASE /\ Suspend(c, "writing", v, p, rest)
           /\ writeQ' = Append(writeQ, c) /\ condQ' = condQ /\ sent' = sent
  <2>1. "writing" \in HolderPcs
    BY DEF HolderPcs
  <2>2. /\ CallTypes' /\ PendingExact' /\ QueuedOK' /\ Exclusive'
        /\ pc' = [pc EXCEPT ![c] = "writing"]
    BY <1>3, <2>1, SuspendKeeps
  <2>3. /\ writeQ' \in Seq(Callers)
        /\ DOMAIN writeQ = 1..Len(writeQ) /\ Len(writeQ) \in Nat
        /\ DOMAIN writeQ' = 1..(Len(writeQ) + 1)
        /\ \A i \in 1..Len(writeQ) : writeQ'[i] = writeQ[i] /\ writeQ[i] \in Callers
        /\ writeQ'[Len(writeQ) + 1] = c
    BY <1>1, <1>3, Appended
  <2>4. pc \in [Callers -> Pcs] /\ pc[c] # "writing" /\ WritesOK
    BY DEF IInv, TypeOK, Hand
  <2>5. \A i \in 1..Len(writeQ) : writeQ[i] # c
    BY <2>3, <2>4 DEF WritesOK
  <2>6. \A i \in DOMAIN writeQ' : pc'[writeQ'[i]] = "writing"
    BY <2>2, <2>3, <2>4, <2>5 DEF WritesOK
  <2>7. \A i, j \in DOMAIN writeQ' : writeQ'[i] = writeQ'[j] => i = j
    BY <2>3, <2>4, <2>5 DEF WritesOK
  <2> QED
    BY <1>1, <1>3, <2>2, <2>3, <2>6, <2>7 DEF CallInv, WritesOK
<1>4. CASE /\ Return(c, "error", NoReply, v, p, rest)
           /\ UNCHANGED <<condQ, sent, writeQ>>
  <2>1. "error" \in Results /\ NoReply \in Requests \cup {NoReply}
    BY DEF Results
  <2>2. /\ CallTypes' /\ PendingExact' /\ QueuedOK' /\ Exclusive'
        /\ \A d \in Callers : pc[d] = "writing" => pc'[d] = "writing"
    BY <1>4, <2>1, ReturnKeeps
  <2> QED
    BY <1>1, <1>4, <2>2, WritesKept DEF CallInv
<1> QED
  BY <1>2, <1>3, <1>4 DEF SecureWrite

\* A call that asks for the semaphore, counted in p.
LEMMA AcquireKeeps ==
    ASSUME IInv,
           NEW c \in Callers, pc[c] = "idle",
           NEW p \in 0..PENDING_REQ_CNT,
           p = Cardinality(Active \cup ({c} \cap Requests)),
           Acquire(c, p), UNCHANGED connVars
    PROVE  CallInv'
<1>1. /\ pc \in [Callers -> Pcs] /\ sem \in Nat /\ semQ \in Seq(Callers)
      /\ ready \in Seq(Entries) /\ condQ \in Seq(Requests)
      /\ sent \in Seq(Callers) /\ writeQ \in Seq(Callers)
      /\ result \in [Callers -> Results]
      /\ answer \in [Callers -> Requests \cup {NoReply}]
      /\ stream' = stream
  BY DEF IInv, TypeOK, connVars, Entries
<1>2. CASE sem > 0 /\ SecureWrite(c, sem - 1, p, ready)
  <2>1. Hand(c, sem - 1, p)
    BY <1>1, <1>2 DEF Hand, IInv, Exclusive
  <2>2. sem - 1 \in Nat
    BY <1>1, <1>2
  <2> QED
    BY <1>1, <1>2, <2>1, SecureWriteKeeps
<1>3. CASE /\ semQ' = Append(semQ, c) /\ pc' = [pc EXCEPT ![c] = "queued"]
           /\ pending' = p
           /\ UNCHANGED <<sem, ready, condQ, sent, writeQ, result, answer>>
  <2>1. CallTypes'
    BY <1>1, <1>3, Appended DEF CallTypes, Pcs
  <2>2. Active' = Active \cup ({c} \cap Requests) /\ PendingExact'
    <3>1. Active' = Active \cup ({c} \cap Requests)
      BY <1>1, <1>3 DEF Active, Callers
    <3> QED
      BY <1>3, <3>1 DEF PendingExact
  <2>3. /\ DOMAIN semQ = 1..Len(semQ) /\ Len(semQ) \in Nat
        /\ DOMAIN semQ' = 1..(Len(semQ) + 1)
        /\ \A i \in 1..Len(semQ) : semQ'[i] = semQ[i] /\ semQ[i] \in Callers
        /\ semQ'[Len(semQ) + 1] = c
    BY <1>1, <1>3, Appended
  <2>4. \A i \in 1..Len(semQ) : semQ[i] # c
    BY <2>3 DEF IInv, QueuedOK
  <2>5. \A i \in DOMAIN semQ' : pc'[semQ'[i]] = "queued"
    BY <1>1, <1>3, <2>3, <2>4 DEF IInv, QueuedOK
  <2>6. \A i, j \in DOMAIN semQ' : semQ'[i] = semQ'[j] => i = j
    BY <2>3, <2>4 DEF IInv, QueuedOK
  <2>7. WritesOK'
    BY <1>1, <1>3, WritesKept
  <2>8. Holders' = Holders
    BY <1>1, <1>3 DEF Holders, HolderPcs
  <2> QED
    BY <1>1, <1>3, <2>1, <2>2, <2>5, <2>6, <2>7, <2>8
       DEF CallInv, QueuedOK, Exclusive, IInv
<1> QED
  BY <1>2, <1>3 DEF Acquire

-----------------------------------------------------------------------------
(* The actions of the calls.                                               *)

\* submit_and_wait_resp, up to its first yield, keeps the invariant: in
\* particular the reset of the count for a rejected request is exact.
LEMMA SubmitAndWaitRespKeeps ==
    ASSUME IInv, NEW r \in Requests, SubmitAndWaitResp(r)
    PROVE  IInv'
<1>1. /\ pc[r] = "idle" /\ r \in Callers /\ r \notin Active
      /\ UNCHANGED connVars /\ stream' = stream
  BY DEF SubmitAndWaitResp, Callers, Active, connVars
<1>2. /\ pc \in [Callers -> Pcs] /\ pending \in 0..PENDING_REQ_CNT
      /\ pending = Cardinality(Active) /\ PENDING_REQ_CNT \in Nat
  BY ConnectionAssumption DEF IInv, TypeOK, PendingExact
<1>3. CASE /\ pending + 1 > PENDING_REQ_CNT /\ Uncounted
           /\ pc' = [pc EXCEPT ![r] = "done"]
           /\ result' = [result EXCEPT ![r] = "too_fast"]
           /\ UNCHANGED <<ready, sem, semQ, condQ, sent, writeQ, answer>>
  <2>1. pending' = pending
    BY <1>2, <1>3 DEF Uncounted
  <2>2. Active' = Active /\ Holders' = Holders
    BY <1>1, <1>2, <1>3 DEF Active, Holders, Callers, HolderPcs
  <2>3. CallTypes'
    BY <1>1, <1>3, <2>1 DEF IInv, TypeOK, CallTypes, Entries, Pcs, Results
  <2>4. \A i \in DOMAIN semQ : semQ[i] \in Callers /\ semQ[i] # r
    BY <1>1 DEF IInv, TypeOK, QueuedOK
  <2>5. QueuedOK'
    BY <1>2, <1>3, <2>4 DEF IInv, QueuedOK
  <2>6. WritesOK' /\ writeQ' \in Seq(Callers)
    BY <1>1, <1>2, <1>3, WritesKept
  <2>7. PendingExact' /\ Exclusive'
    BY <1>1, <1>3, <2>1, <2>2 DEF IInv, PendingExact, Exclusive
  <2>8. condQ' \in Seq(Requests) /\ sent' \in Seq(Callers)
    BY <1>3 DEF IInv, TypeOK
  <2> QED
    BY <1>1, <2>3, <2>5, <2>6, <2>7, <2>8, CallStep DEF CallInv
<1>4. CASE pending + 1 <= PENDING_REQ_CNT /\ Acquire(r, pending + 1)
  <2>1. pending + 1 \in 0..PENDING_REQ_CNT
    BY <1>2, <1>4
  <2>2. pending + 1 = Cardinality(Active \cup ({r} \cap Requests))
    <3>1. Active \cup ({r} \cap Requests) = Active \cup {r}
      OBVIOUS
    <3>2. Cardinality(Active \cup {r}) = Cardinality(Active) + 1
      BY <1>1, ActiveFinite, FS_AddElement
    <3> QED
      BY <1>2, <3>1, <3>2
  <2> QED
    BY <1>1, <1>4, <2>1, <2>2, AcquireKeeps, CallStep
<1> QED
  BY <1>3, <1>4 DEF SubmitAndWaitResp

\* submit_cmd, up to its first yield, keeps the invariant.
LEMMA SubmitCmdKeeps ==
    ASSUME IInv, NEW c \in Commands, SubmitCmd(c)
    PROVE  IInv'
<1>1. c \in Callers /\ pc[c] = "idle" /\ Acquire(c, pending) /\ UNCHANGED connVars
  BY DEF SubmitCmd, Callers
<1>2. pending \in 0..PENDING_REQ_CNT /\ pending = Cardinality(Active)
  BY DEF IInv, TypeOK, PendingExact
<1>3. Active \cup ({c} \cap Requests) = Active
  BY ConnectionAssumption
<1> QED
  BY <1>1, <1>2, <1>3, AcquireKeeps, CallStep

\* A call that is resumed holds the semaphore and is counted.
LEMMA ResumedHand ==
    ASSUME IInv, NEW c \in Callers, Running(c),
           pc[c] \in {"granted", "written", "writefail", "notified", "timedout"}
    PROVE  Hand(c, sem, pending) /\ Tail(ready) \in Seq(Entries)
<1>1. /\ sem \in Nat /\ pending \in 0..PENDING_REQ_CNT
      /\ pending = Cardinality(Active) /\ ready \in Seq(Entries)
  BY DEF IInv, TypeOK, PendingExact, Entries
<1>2. Active \cup ({c} \cap Requests) = Active
  BY DEF Active
<1>3. c \in Holders
  BY DEF Holders, HolderPcs
<1>4. stream # "none" => sem = 0 /\ Holders \subseteq {c}
  BY <1>3 DEF IInv, Exclusive
<1>5. Tail(ready) \in Seq(Entries)
  BY <1>1, HeadTail DEF Running
<1> QED
  BY <1>1, <1>2, <1>4, <1>5 DEF Hand

\* A call granted the semaphore writes its command.
LEMMA ResumeGrantedKeeps ==
    ASSUME IInv, NEW c \in Callers, ResumeGranted(c)
    PROVE  IInv'
<1>1. /\ Running(c) /\ pc[c] = "granted" /\ UNCHANGED connVars /\ stream' = stream
      /\ SecureWrite(c, sem, pending, Tail(ready))
  BY DEF ResumeGranted, connVars
<1>2. Hand(c, sem, pending) /\ Tail(ready) \in Seq(Entries)
  BY <1>1, ResumedHand
<1> QED
  BY <1>1, <1>2, SecureWriteKeeps, CallStep

\* A resumed call that returns without touching the queues.
LEMMA ReturnStep ==
    ASSUME IInv, NEW c \in Callers, Hand(c, sem, pending),
           Tail(ready) \in Seq(Entries),
           NEW res \in Results, NEW ans \in Requests \cup {NoReply},
           Return(c, res, ans, sem, pending, Tail(ready)),
           UNCHANGED <<condQ, sent, writeQ>>, UNCHANGED connVars
    PROVE  IInv'
<1>1. stream' = stream
  BY DEF connVars
<1>2. /\ CallTypes' /\ PendingExact' /\ QueuedOK' /\ Exclusive'
      /\ \A d \in Callers : pc[d] = "writing" => pc'[d] = "writing"
  BY <1>1, ReturnKeeps
<1>3. WritesOK' /\ writeQ' \in Seq(Callers)
  BY <1>2, WritesKept
<1>4. condQ' \in Seq(Requests) /\ sent' \in Seq(Callers)
  BY DEF IInv, TypeOK
<1> QED
  BY <1>2, <1>3, <1>4, CallStep DEF CallInv

\* A call whose write has ended goes on to wait, or returns.
LEMMA ResumeWrittenKeeps ==
    ASSUME IInv, NEW c \in Callers, ResumeWritten(c)
    PROVE  IInv'
<1>1. /\ Running(c) /\ pc[c] \in {"written", "writefail"}
      /\ UNCHANGED connVars /\ stream' = stream /\ UNCHANGED <<sent, writeQ>>
  BY DEF ResumeWritten, connVars
<1>2. Hand(c, sem, pending) /\ Tail(ready) \in Seq(Entries)
  BY <1>1, ResumedHand
<1>3. CASE AfterWrite(c, sem, pending, Tail(ready))
  <2>1. sent' \in Seq(Callers)
    BY <1>1 DEF IInv, TypeOK
  <2> QED
    BY <1>1, <1>2, <1>3, <2>1, AfterWriteKeeps, CallStep
<1>4. CASE Return(c, "error", NoReply, sem, pending, Tail(ready)) /\ UNCHANGED condQ
  <2>1. "error" \in Results /\ NoReply \in Requests \cup {NoReply}
    BY DEF Results
  <2> QED
    BY <1>1, <1>2, <1>4, <2>1, ReturnStep
<1> QED
  BY <1>3, <1>4 DEF ResumeWritten

\* A request whose wait has ended returns.
LEMMA ResumeWaitingKeeps ==
    ASSUME IInv, NEW r \in Requests, ResumeWaiting(r)
    PROVE  IInv'
<1>1. /\ Running(r) /\ r \in Callers /\ pc[r] \in {"notified", "timedout"}
      /\ UNCHANGED connVars /\ UNCHANGED <<condQ, sent, writeQ>>
  BY DEF ResumeWaiting, Callers
<1>2. Hand(r, sem, pending) /\ Tail(ready) \in Seq(Entries)
  BY <1>1, ResumedHand
<1>3. \E res \in Results, ans \in Requests \cup {NoReply} :
          Return(r, res, ans, sem, pending, Tail(ready))
  <2>1. {"ok", "error", "timeout"} \subseteq Results /\ recvMsg \in Requests \cup {NoReply}
    BY DEF Results, IInv, TypeOK
  <2>2. CASE TakeReply(r)
    BY <2>1, <2>2 DEF TakeReply
  <2>3. CASE TimeOut(r)
    BY <2>1, <2>3 DEF TimeOut
  <2> QED
    BY <2>2, <2>3 DEF ResumeWaiting
<1> QED
  BY <1>1, <1>2, <1>3, ReturnStep

-----------------------------------------------------------------------------
(* The other actions: they move calls between the states in which they     *)
(* hold the semaphore, if they touch them at all.                          *)

\* A step that moves no call in or out of the queue or the semaphore.
LEMMA QuietStep ==
    ASSUME IInv,
           pc' \in [Callers -> Pcs],
           \A d \in Callers : \/ pc'[d] = pc[d]
                              \/ pc[d] \in HolderPcs /\ pc'[d] \in HolderPcs,
           UNCHANGED <<sem, semQ, pending, result, answer>>,
           ready' \in Seq(Entries),
           stream' # "none" => stream # "none"
    PROVE  CallTypes' /\ PendingExact' /\ QueuedOK' /\ Exclusive'
<1>1. CallTypes'
  BY DEF IInv, TypeOK, CallTypes
<1>2. Active' = Active
  <2>1. \A d \in Callers : pc'[d] \in {"idle", "done"} <=> pc[d] \in {"idle", "done"}
    BY DEF HolderPcs
  <2> QED
    BY <2>1 DEF Active, Callers
<1>3. Holders' = Holders
  BY DEF Holders
<1>4. PendingExact' /\ Exclusive'
  BY <1>2, <1>3 DEF IInv, PendingExact, Exclusive
<1>5. QueuedOK'
  <2>1. \A i \in DOMAIN semQ : semQ[i] \in Callers /\ pc[semQ[i]] = "queued"
    BY DEF IInv, TypeOK, QueuedOK
  <2>2. "queued" \notin HolderPcs
    BY DEF HolderPcs
  <2> QED
    BY <2>1, <2>2 DEF IInv, QueuedOK
<1> QED
  BY <1>1, <1>4, <1>5

\* A timeout moves one holder of the semaphore on.
LEMMA CondTimeoutKeeps ==
    ASSUME IInv, NEW r \in Requests, CondTimeout(r)
    PROVE  IInv'
<1>1. /\ r \in Callers /\ r \in Entries /\ pc[r] = "waiting"
      /\ pc' = [pc EXCEPT ![r] = "timedout"] /\ ready' = Append(ready, r)
      /\ UNCHANGED <<sem, semQ, condQ, pending, recvMsg, stream, killed, reader,
                     writeQ, sent, inbuf, result, answer>>
  BY DEF CondTimeout, Callers, Entries
<1>2. pc \in [Callers -> Pcs] /\ ready \in Seq(Entries)
  BY DEF IInv, TypeOK, Entries
<1>3. ready' \in Seq(Entries)
  BY <1>1, <1>2, Appended
<1>4. pc' \in [Callers -> Pcs]
  BY <1>1, <1>2 DEF Pcs, HolderPcs
<1>5. CallTypes' /\ PendingExact' /\ QueuedOK' /\ Exclusive'
  BY <1>1, <1>2, <1>3, <1>4, QuietStep DEF HolderPcs
<1>6. WritesOK'
  BY <1>1, <1>2, WritesKept
<1>7. OtherTypes'
  BY <1>1 DEF IInv, TypeOK, OtherTypes
<1>8. ReadOK'
  BY <1>1 DEF IInv, ReadOK
<1> QED
  BY <1>5, <1>6, <1>7, <1>8, TypePartsPrime DEF IInv

\* A piece that is read changes at most the call it wakes.
LEMMA HandlePieceKeeps ==
    ASSUME IInv, NEW m \in Pieces, NEW rest \in Seq(Entries),
           HandlePiece(m, rest), UNCHANGED callVars, stream' = stream,
           inbuf' \in Seq(Pieces), killed' \in BOOLEAN
    PROVE  IInv'
<1>1. /\ pc \in [Callers -> Pcs] /\ condQ \in Seq(Requests)
      /\ recvMsg \in Requests \cup {NoReply}
      /\ Reader \in Entries /\ Requests \subseteq Callers /\ Callers \subseteq Entries
      /\ UNCHANGED <<sem, semQ, pending, writeQ, sent, result, answer>>
  BY DEF IInv, TypeOK, Entries, Callers, callVars
<1> DEFINE Moved ==
        /\ pc' \in [Callers -> Pcs] /\ condQ' \in Seq(Requests)
        /\ ready' \in Seq(Entries) /\ reader' \in {"moment", "blockend"}
        /\ recvMsg' \in Requests \cup {NoReply}
        /\ \A d \in Callers : \/ pc'[d] = pc[d]
                              \/ pc[d] = "waiting" /\ pc'[d] = "notified"
<1>2. Moved
  <2>1. ASSUME m \in Requests, recvMsg' = m,
               NEW i \in DOMAIN condQ, Undone(i), WakeAndYield(i, rest)
        PROVE  Moved
    <3>1. /\ condQ[i] \in Requests /\ Len(condQ) \in Nat /\ i \in 1..Len(condQ)
          /\ pc[condQ[i]] = "waiting"
      BY <1>1, <2>1 DEF Undone
    <3>2. /\ pc' = [pc EXCEPT ![condQ[i]] = "notified"] /\ reader' = "moment"
          /\ condQ' = SubSeq(condQ, i + 1, Len(condQ))
          /\ ready' = Append(Append(rest, condQ[i]), Reader)
      BY <2>1 DEF WakeAndYield
    <3>3. condQ' \in Seq(Requests)
      <4>1. i + 1 \in Int /\ Len(condQ) \in Int
        BY <3>1
      <4>2. \A j \in (i + 1)..Len(condQ) : condQ[j] \in Requests
        BY <1>1, <3>1
      <4> QED
        BY <3>2, <4>1, <4>2, SubSeqProperties
    <3>4. ready' \in Seq(Entries)
      <4>1. Append(rest, condQ[i]) \in Seq(Entries)
        BY <1>1, <3>1, Appended
      <4> QED
        BY <1>1, <3>2, <4>1, Appended
    <3>5. pc' \in [Callers -> Pcs]
      BY <1>1, <3>1, <3>2 DEF Pcs, HolderPcs
    <3> QED
      BY <1>1, <2>1, <3>1, <3>2, <3>3, <3>4, <3>5
  <2>2. CASE m \in Requests /\ recvMsg' = m /\ NotifyNobody(rest)
    <3>1. ready' = Append(rest, Reader) /\ condQ' = <<>> /\ pc' = pc /\ reader' = "moment"
      BY <2>2 DEF NotifyNobody
    <3>2. ready' \in Seq(Entries)
      BY <1>1, <3>1, Appended
    <3> QED
      BY <1>1, <2>2, <3>1, <3>2
  <2>3. CASE /\ m = NoReply /\ reader' = "blockend" /\ ready' = Append(rest, Reader)
             /\ UNCHANGED <<recvMsg, pc, condQ>>
    <3>1. ready' \in Seq(Entries)
      BY <1>1, <2>3, Appended
    <3> QED
      BY <1>1, <2>3, <3>1
  <2> QED
    BY <2>1, <2>2, <2>3 DEF HandlePiece
<1>3. CallTypes' /\ PendingExact' /\ QueuedOK' /\ Exclusive'
  BY <1>1, <1>2, QuietStep DEF HolderPcs
<1>4. WritesOK' /\ writeQ' \in Seq(Callers)
  BY <1>1, <1>2, WritesKept
<1>5. OtherTypes'
  BY <1>1, <1>2, <1>4 DEF IInv, TypeOK, OtherTypes, ReaderPcs
<1>6. ReadOK'
  BY <1>2 DEF ReadOK
<1> QED
  BY <1>3, <1>4, <1>5, <1>6, TypePartsPrime DEF IInv

\* A step that changes nothing the calls look at.
LEMMA IdleStep ==
    ASSUME IInv, UNCHANGED <<pc, sem, semQ, pending, result, answer, stream>>,
           WritesOK', ReadOK', ready' \in Seq(Entries), OtherTypes'
    PROVE  IInv'
<1>1. pc' \in [Callers -> Pcs]
  BY DEF IInv, TypeOK
<1>2. CallTypes' /\ PendingExact' /\ QueuedOK' /\ Exclusive'
  BY <1>1, QuietStep
<1> QED
  BY <1>2, TypePartsPrime DEF IInv

\* No step of the reader coroutine breaks the invariant.
LEMMA ReaderKeeps ==
    ASSUME IInv,
           ReaderGotData \/ ReaderGotError \/ ReaderEndsBlock \/ ReaderLoops
    PROVE  IInv'
<1>1. /\ ready \in Seq(Entries) /\ inbuf \in Seq(Pieces) /\ killed \in BOOLEAN
      /\ Reader \in Entries
  BY DEF IInv, TypeOK, Entries
<1>2. KillAfterClose => killed' \in BOOLEAN
  BY DEF KillAfterClose
<1>3. Running(Reader) => Tail(ready) \in Seq(Entries) /\ Append(Tail(ready), Reader) \in Seq(Entries)
  <2>1. Running(Reader) => Tail(ready) \in Seq(Entries)
    BY <1>1, HeadTail DEF Running
  <2> QED
    BY <1>1, <2>1, Appended
<1>4. writeQ' = writeQ /\ pc' = pc => WritesOK'
  BY WritesKept
<1>5. ASSUME Running(Reader), inbuf # <<>>, inbuf' = Tail(inbuf),
             HandlePiece(Head(inbuf), Tail(ready)), UNCHANGED callVars,
             stream' = stream, killed' = killed
      PROVE  IInv'
  <2>1. Head(inbuf) \in Pieces /\ Tail(inbuf) \in Seq(Pieces)
    BY <1>1, <1>5, HeadTail
  <2>2. inbuf' \in Seq(Pieces) /\ killed' \in BOOLEAN
    BY <1>1, <1>5, <2>1
  <2> QED
    BY <1>3, <1>5, <2>1, <2>2, HandlePieceKeeps
<1>6. ASSUME UNCHANGED <<pc, condQ, recvMsg, stream, inbuf>>, UNCHANGED callVars,
             reader' \in ReaderPcs \ {"got"}, killed' \in BOOLEAN,
             ready' \in Seq(Entries)
      PROVE  IInv'
  <2>1. OtherTypes'
    BY <1>6 DEF IInv, TypeOK, OtherTypes, callVars
  <2>2. /\ UNCHANGED <<pc, sem, semQ, pending, result, answer, stream>>
        /\ writeQ' = writeQ
    BY <1>6 DEF callVars
  <2>3. ReadOK'
    BY <1>6 DEF ReadOK
  <2> QED
    BY <1>4, <1>6, <2>1, <2>2, <2>3, IdleStep
<1>7. CASE ReaderGotData
  BY <1>5, <1>7 DEF ReaderGotData, IInv, ReadOK
<1>8. CASE ReaderGotError
  BY <1>2, <1>3, <1>6, <1>8 DEF ReaderGotError, ReaderPcs
<1>9. CASE ReaderEndsBlock
  BY <1>1, <1>3, <1>6, <1>9 DEF ReaderEndsBlock, ReaderPcs
<1>10. CASE ReaderLoops
  <2>1. /\ Running(Reader) /\ stream' = stream /\ UNCHANGED callVars
    BY <1>10 DEF ReaderLoops
  <2>2. \/ /\ inbuf # <<>> /\ inbuf' = Tail(inbuf) /\ killed' = killed
           /\ HandlePiece(Head(inbuf), Tail(ready))
        \/ /\ reader' \in {"dead", "reading"} /\ ready' = Tail(ready)
           /\ UNCHANGED <<pc, condQ, recvMsg, inbuf>>
           /\ killed' = killed \/ KillAfterClose
    BY <1>10 DEF ReaderLoops
  <2> QED
    BY <1>1, <1>2, <1>3, <1>5, <1>6, <2>1, <2>2 DEF ReaderPcs
<1> QED
  BY <1>7, <1>8, <1>9, <1>10

\* What the node sends is queued for the reader.
LEMMA NodeAnswersKeeps ==
    ASSUME IInv, NodeAnswers
    PROVE  IInv'
<1>1. /\ sent # <<>> /\ sent' = Tail(sent)
      /\ UNCHANGED <<pc, sem, semQ, condQ, pending, recvMsg, stream, killed,
                     writeQ, result, answer>>
  BY DEF NodeAnswers
<1>2. /\ sent \in Seq(Callers) /\ inbuf \in Seq(Pieces) /\ ready \in Seq(Entries)
      /\ reader \in ReaderPcs /\ Reader \in Entries
  BY DEF IInv, TypeOK, Entries
<1>3. sent' \in Seq(Callers)
  BY <1>1, <1>2, HeadTail
<1>4. ASSUME NEW m \in Pieces, Receive(m)
      PROVE  /\ inbuf' \in Seq(Pieces) /\ ready' \in Seq(Entries)
             /\ reader' \in ReaderPcs /\ inbuf' # <<>>
  <2>1. inbuf' \in Seq(Pieces) /\ inbuf' # <<>>
    BY <1>2, <1>4 DEF Receive
  <2>2. Append(ready, Reader) \in Seq(Entries)
    BY <1>2, Appended
  <2>3. "got" \in ReaderPcs
    BY DEF ReaderPcs
  <2> QED
    BY <1>2, <1>4, <2>1, <2>2, <2>3 DEF Receive
<1>5. reader = "got" => inbuf # <<>>
  BY DEF IInv, ReadOK
<1>6. /\ inbuf' \in Seq(Pieces) /\ ready' \in Seq(Entries)
      /\ reader' \in ReaderPcs /\ ReadOK'
  <2>1. \/ Receive(IF Head(sent) \in Requests THEN Head(sent) ELSE NoReply)
        \/ UNCHANGED <<inbuf, reader, ready>>
    BY DEF NodeAnswers
  <2>2. (IF Head(sent) \in Requests THEN Head(sent) ELSE NoReply) \in Pieces
    BY DEF Pieces
  <2>3. CASE Receive(IF Head(sent) \in Requests THEN Head(sent) ELSE NoReply)
    BY <1>4, <2>2, <2>3 DEF ReadOK
  <2>4. CASE UNCHANGED <<inbuf, reader, ready>>
    BY <1>2, <1>5, <2>4 DEF ReadOK
  <2> QED
    BY <2>1, <2>3, <2>4
<1>7. WritesOK'
  BY <1>1, WritesKept
<1>8. OtherTypes'
  BY <1>1, <1>3, <1>6 DEF IInv, TypeOK, OtherTypes
<1> QED
  BY <1>1, <1>6, <1>7, <1>8, IdleStep

\* The flushed write leaves the queue with the call that waited for it.
LEMMA WriteFlushedKeeps ==
    ASSUME IInv, WriteFlushed
    PROVE  IInv'
<1> DEFINE h == Head(writeQ)
<1>1. /\ writeQ # <<>> /\ pc' = [pc EXCEPT ![h] = "written"]
      /\ ready' = Append(ready, h) /\ writeQ' = Tail(writeQ)
      /\ sent' = Append(sent, h)
      /\ UNCHANGED <<sem, semQ, condQ, pending, recvMsg, stream, killed, reader,
                     inbuf, result, answer>>
  BY DEF WriteFlushed
<1>2. /\ pc \in [Callers -> Pcs] /\ writeQ \in Seq(Callers) /\ sent \in Seq(Callers)
      /\ ready \in Seq(Entries) /\ Callers \subseteq Entries /\ WritesOK
  BY DEF IInv, TypeOK, Entries
<1>3. /\ h \in Callers /\ Tail(writeQ) \in Seq(Callers)
      /\ 1 \in DOMAIN writeQ /\ h = writeQ[1]
      /\ DOMAIN Tail(writeQ) = 1..(Len(writeQ) - 1) /\ Len(writeQ) \in Nat
      /\ \A i \in DOMAIN Tail(writeQ) :
            Tail(writeQ)[i] = writeQ[i + 1] /\ i + 1 \in DOMAIN writeQ
  BY <1>1, <1>2, HeadTail
<1>4. pc[h] = "writing"
  BY <1>2, <1>3 DEF WritesOK
<1> HIDE DEF h
<1>5. ready' \in Seq(Entries) /\ sent' \in Seq(Callers)
  BY <1>1, <1>2, <1>3, Appended
<1>6. pc' \in [Callers -> Pcs]
  BY <1>1, <1>2, <1>3 DEF Pcs, HolderPcs
<1>7. CallTypes' /\ PendingExact' /\ QueuedOK' /\ Exclusive'
  BY <1>1, <1>2, <1>3, <1>4, <1>5, <1>6, QuietStep DEF HolderPcs
<1>8. WritesOK'
  <2>1. ASSUME NEW i \in DOMAIN writeQ' PROVE pc'[writeQ'[i]] = "writing"
    <3>1. writeQ'[i] = writeQ[i + 1] /\ i + 1 \in DOMAIN writeQ /\ i \in Nat \ {0}
      BY <1>1, <1>3
    <3>2. writeQ[i + 1] # h /\ writeQ[i + 1] \in Callers /\ pc[writeQ[i + 1]] = "writing"
      BY <1>2, <1>3, <3>1 DEF WritesOK
    <3> QED
      BY <1>1, <1>2, <3>1, <3>2
  <2>2. ASSUME NEW i \in DOMAIN writeQ', NEW j \in DOMAIN writeQ', writeQ'[i] = writeQ'[j]
        PROVE  i = j
    <3>1. /\ writeQ[i + 1] = writeQ[j + 1] /\ i + 1 \in DOMAIN writeQ
          /\ j + 1 \in DOMAIN writeQ /\ i \in Nat /\ j \in Nat
      BY <1>1, <1>3, <2>2
    <3> QED
      BY <1>2, <3>1 DEF WritesOK
  <2> QED
    BY <2>1, <2>2 DEF WritesOK
<1>9. OtherTypes'
  BY <1>1, <1>3, <1>5 DEF IInv, TypeOK, OtherTypes
<1>10. ReadOK'
  BY <1>1 DEF IInv, ReadOK
<1> QED
  BY <1>7, <1>8, <1>9, <1>10, TypePartsPrime DEF IInv

\* Closing the stream wakes the reader and the calls whose writes it fails.
LEMMA CloseStreamKeeps ==
    ASSUME IInv, CloseStream, killed' \in BOOLEAN
    PROVE  IInv'
<1>1. /\ stream = "open" /\ stream' = "closed" /\ writeQ' = <<>>
      /\ reader' = IF reader = "reading" THEN "error" ELSE reader
      /\ pc' = [c \in Callers |-> IF pc[c] = "writing" THEN "writefail" ELSE pc[c]]
      /\ ready' = ready \o (IF reader = "reading" THEN <<Reader>> ELSE <<>>)
                        \o writeQ \o <<CloseCallback>>
      /\ UNCHANGED <<sem, semQ, condQ, pending, recvMsg, sent, inbuf, result, answer>>
  BY DEF CloseStream
<1>2. /\ pc \in [Callers -> Pcs] /\ ready \in Seq(Entries) /\ writeQ \in Seq(Callers)
      /\ reader \in ReaderPcs
      /\ Callers \subseteq Entries /\ Reader \in Entries /\ CloseCallback \in Entries
  BY DEF IInv, TypeOK, Entries
<1>3. ready' \in Seq(Entries)
  <2>1. writeQ \in Seq(Entries)
    BY <1>2
  <2>2. <<Reader>> \in Seq(Entries) /\ <<CloseCallback>> \in Seq(Entries) /\ <<>> \in Seq(Entries)
    BY <1>2
  <2>3. (IF reader = "reading" THEN <<Reader>> ELSE <<>>) \in Seq(Entries)
    BY <2>2
  <2> QED
    BY <1>1, <1>2, <2>1, <2>2, <2>3, ConcatProperties
<1>4. pc' \in [Callers -> Pcs]
  BY <1>1, <1>2 DEF Pcs, HolderPcs
<1>5. \A d \in Callers : \/ pc'[d] = pc[d]
                         \/ pc[d] \in HolderPcs /\ pc'[d] \in HolderPcs
  BY <1>1 DEF HolderPcs
<1>6. CallTypes' /\ PendingExact' /\ QueuedOK' /\ Exclusive'
  BY <1>1, <1>3, <1>4, <1>5, QuietStep
<1>7. WritesOK'
  BY <1>1 DEF WritesOK
<1>8. OtherTypes'
  BY <1>1, <1>2 DEF IInv, TypeOK, OtherTypes, ReaderPcs
<1>9. ReadOK'
  BY <1>1 DEF IInv, ReadOK
<1> QED
  BY <1>6, <1>7, <1>8, <1>9, TypePartsPrime DEF IInv

\* kill_myself closes an open stream; on a closed one it sets its flag.
LEMMA KillMyselfKeeps ==
    ASSUME IInv, KillMyself
    PROVE  IInv'
<1>1. killed' = TRUE
  BY DEF KillMyself
<1>2. CASE CloseStream
  BY <1>1, <1>2, CloseStreamKeeps
<1>3. CASE UNCHANGED <<ready, pc, sem, semQ, condQ, pending, recvMsg, stream,
                       reader, writeQ, sent, inbuf, result, answer>>
  <2>1. ready' \in Seq(Entries) /\ OtherTypes'
    BY <1>1, <1>3 DEF IInv, TypeOK, Entries, OtherTypes
  <2>2. WritesOK'
    BY <1>3, WritesKept
  <2>3. ReadOK'
    BY <1>3 DEF IInv, ReadOK
  <2> QED
    BY <1>3, <2>1, <2>2, <2>3, IdleStep
<1> QED
  BY <1>2, <1>3 DEF KillMyself

\* The extra release of on_close may let a second call in, but it counts
\* nobody out: the call it wakes was queued.
LEMMA OnCloseKeeps ==
    ASSUME IInv, OnClose
    PROVE  IInv'
<1>1. /\ Running(CloseCallback) /\ stream' = "none" /\ Release(pc, sem, Tail(ready))
      /\ UNCHANGED <<condQ, pending, recvMsg, killed, reader, writeQ, sent,
                     inbuf, result, answer>>
  BY DEF OnClose
<1>2. /\ pc \in [Callers -> Pcs] /\ sem \in Nat
      /\ \A i \in DOMAIN semQ : pc[semQ[i]] = "queued"
  BY DEF IInv, TypeOK, QueuedOK
<1>3. Tail(ready) \in Seq(Entries)
  <2>1. ready \in Seq(Entries)
    BY DEF IInv, TypeOK, Entries
  <2> QED
    BY <1>1, <2>1, HeadTail DEF Running
<1>4. /\ ready' \in Seq(Entries) /\ sem' \in Nat /\ semQ' \in Seq(Callers)
      /\ QueuedOK'
      /\ \/ pc' = pc /\ sem' = sem + 1
         \/ \E h \in Callers : /\ pc[h] = "queued"
                               /\ pc' = [pc EXCEPT ![h] = "granted"]
                               /\ sem' = sem
  BY <1>1, <1>2, <1>3, ReleaseKeeps
<1>5. /\ pc' \in [Callers -> Pcs]
      /\ \A d \in Callers : \/ pc'[d] = pc[d]
                            \/ pc[d] = "queued" /\ pc'[d] = "granted"
  <2>1. "granted" \in Pcs
    BY DEF Pcs, HolderPcs
  <2>2. CASE pc' = pc
    BY <1>2, <2>2
  <2>3. ASSUME NEW h \in Callers, pc[h] = "queued",
               pc' = [pc EXCEPT ![h] = "granted"]
        PROVE  /\ pc' \in [Callers -> Pcs]
               /\ \A d \in Callers : \/ pc'[d] = pc[d]
                                     \/ pc[d] = "queued" /\ pc'[d] = "granted"
    BY <1>2, <2>1, <2>3
  <2> QED
    BY <1>4, <2>2, <2>3
<1>6. Active' = Active
  BY <1>5 DEF Active, Callers
<1>7. CallTypes' /\ PendingExact' /\ Exclusive'
  BY <1>1, <1>4, <1>5, <1>6 DEF IInv, TypeOK, CallTypes, PendingExact, Exclusive
<1>8. WritesOK'
  BY <1>1, <1>5, WritesKept
<1>9. OtherTypes'
  BY <1>1 DEF IInv, TypeOK, OtherTypes
<1>10. ReadOK'
  BY <1>1 DEF IInv, ReadOK
<1> QED
  BY <1>4, <1>7, <1>8, <1>9, <1>10, TypePartsPrime DEF IInv

-----------------------------------------------------------------------------
(* The theorems.                                                           *)

\* A connection that has just been authenticated has no call in progress.
LEMMA InitKeeps ==
    ASSUME Init
    PROVE  IInv
<1>1. /\ ready = <<>> /\ pc = [c \in Callers |-> "idle"] /\ sem = 1 /\ semQ = <<>>
      /\ condQ = <<>> /\ pending = 0 /\ recvMsg = NoReply /\ stream = "open"
      /\ killed = FALSE /\ reader = "reading" /\ writeQ = <<>> /\ sent = <<>>
      /\ inbuf = <<>> /\ result = [c \in Callers |-> "none"]
      /\ answer = [c \in Callers |-> NoReply]
  BY DEF Init, InitialPermits
<1>2. TypeOK
  <2>1. pending \in 0..PENDING_REQ_CNT
    BY <1>1, ConnectionAssumption
  <2>2. pc \in [Callers -> Pcs] /\ result \in [Callers -> Results]
    BY <1>1 DEF Pcs, Results
  <2>3. answer \in [Callers -> Requests \cup {NoReply}]
    BY <1>1
  <2>4. CallTypes
    BY <1>1, <2>1, <2>2, <2>3 DEF CallTypes
  <2>5. OtherTypes
    <3>1. condQ \in Seq(Requests) /\ writeQ \in Seq(Callers) /\ sent \in Seq(Callers)
      BY <1>1
    <3>2. inbuf \in Seq(Pieces) /\ recvMsg \in Requests \cup {NoReply}
      BY <1>1
    <3>3. killed \in BOOLEAN
      BY <1>1, Zenon
    <3>4. stream \in {"open", "closed", "none"} /\ reader \in ReaderPcs
      BY <1>1, Zenon DEF ReaderPcs
    <3> QED
      BY <3>1, <3>2, <3>3, <3>4 DEF OtherTypes
  <2> QED
    BY <2>4, <2>5, TypeParts
<1>3. Active = {} /\ Holders = {}
  BY <1>1 DEF Active, Holders, HolderPcs, Callers
<1>4. PendingExact
  BY <1>1, <1>3, FS_EmptySet DEF PendingExact
<1> QED
  BY <1>1, <1>2, <1>3, <1>4 DEF IInv, QueuedOK, WritesOK, Exclusive, ReadOK

\* Every step of the connection keeps the strengthened invariant: one case per
\* action of Next.
THEOREM Inductive == IInv /\ [Next]_vars => IInv'
<1> SUFFICES ASSUME IInv, [Next]_vars PROVE IInv'
  OBVIOUS
<1>1. CASE RunCallback
  <2>1. ASSUME NEW c \in Callers, ResumeGranted(c) \/ ResumeWritten(c)
        PROVE  IInv'
    BY <2>1, ResumeGrantedKeeps, ResumeWrittenKeeps
  <2>2. ASSUME NEW r \in Requests, ResumeWaiting(r)
        PROVE  IInv'
    BY <2>2, ResumeWaitingKeeps
  <2>3. CASE ReaderGotData \/ ReaderGotError \/ ReaderEndsBlock \/ ReaderLoops
    BY <2>3, ReaderKeeps
  <2>4. CASE OnClose
    BY <2>4, OnCloseKeeps
  <2> QED
    BY <1>1, <2>1, <2>2, <2>3, <2>4 DEF RunCallback
<1>2. ASSUME NEW r \in Requests, SubmitAndWaitResp(r) \/ CondTimeout(r)
      PROVE  IInv'
  BY <1>2, SubmitAndWaitRespKeeps, CondTimeoutKeeps
<1>3. ASSUME NEW c \in Commands, SubmitCmd(c)
      PROVE  IInv'
  BY <1>3, SubmitCmdKeeps
<1>4. CASE NodeAnswers
  BY <1>4, NodeAnswersKeeps
<1>5. CASE WriteFlushed
  BY <1>5, WriteFlushedKeeps
<1>6. CASE PeerCloses
  <2>1. CloseStream /\ killed' \in BOOLEAN
    BY <1>6 DEF PeerCloses, IInv, TypeOK
  <2> QED
    BY <2>1, CloseStreamKeeps
<1>7. CASE KillMyself
  BY <1>7, KillMyselfKeeps
<1>8. CASE UNCHANGED vars
  <2>1. UNCHANGED <<ready, pc, sem, semQ, condQ, pending, recvMsg, stream, killed,
                    reader, writeQ, sent, inbuf, result, answer>>
    BY <1>8 DEF vars
  <2>2. ready' \in Seq(Entries) /\ OtherTypes'
    BY <2>1 DEF IInv, TypeOK, Entries, OtherTypes
  <2>3. WritesOK'
    BY <2>1, WritesKept
  <2>4. ReadOK'
    BY <2>1 DEF IInv, ReadOK
  <2> QED
    BY <2>1, <2>2, <2>3, <2>4, IdleStep
<1> QED
  BY <1>1, <1>2, <1>3, <1>4, <1>5, <1>6, <1>7, <1>8 DEF Next

\* The strengthened invariant holds in every state of every connection.
THEOREM Invariant == Spec => []IInv
<1>1. Init => IInv
  BY InitKeeps
<1>2. IInv /\ [Next]_vars => IInv'
  BY Inductive
<1> QED
  BY <1>1, <1>2, PTL DEF Spec

\* The variables of a connection keep their types; in particular the count of
\* pending requests never leaves 0..PENDING_REQ_CNT.
THEOREM TypeCorrect == Spec => []TypeOK
<1>1. IInv => TypeOK
  BY DEF IInv
<1> QED
  BY <1>1, Invariant, PTL

\* pending_request_cnt is the number of requests in progress and within its limit, at
\* any time and for any number of requests and any limit: no error path counts twice.
THEOREM CountIsExact == Spec => []PendingInv
<1>1. IInv => PendingInv
  BY DEF IInv, PendingInv
<1> QED
  BY <1>1, Invariant, PTL

\* Until on_close has run, the semaphore lets one command at a time on the
\* wire, for any number of requests and commands.
THEOREM Serialised == Spec => []OneCommandAtATime
<1>1. IInv => OneCommandAtATime
  BY DEF IInv, Exclusive, OneCommandAtATime
<1> QED
  BY <1>1, Invariant, PTL

-----------------------------------------------------------------------------
(* The replies.  A reply is in one place at a time: on its way in sent, in *)
(* inbuf, in recv_msg for the one request that was woken to read it, or    *)
(* with the request that returned it.                                      *)

In(e, q) == \E i \in DOMAIN q : q[i] = e
Once(q) == \A i, j \in DOMAIN q : q[i] = q[j] /\ q[i] \in Requests => i = j

\* The reply m was handed to a request.
Given(m) == \E q \in Requests : result[q] = "ok" /\ answer[q] = m

\* The command of r has not left the server, or never will.
Unsent(r) == pc[r] \in {"idle", "queued", "granted", "writing", "writefail"}

\* The call whose command is under way.  After on_close a second call may
\* hold the semaphore, but it fails at once and writes nothing.
FlyingPcs == HolderPcs \ {"granted"}
Flying == {c \in Callers : pc[c] \in FlyingPcs}
OneFlying == \A c, d \in Flying : c = d

\* A request that was woken runs before the reader does.
ReaderOnce(q) == \A i, j \in DOMAIN q : q[i] = Reader /\ q[j] = Reader => i = j
Ahead(r, q) == \E i, j \in DOMAIN q : i < j /\ q[i] = r /\ q[j] = Reader

ReadyOK ==
    /\ ReaderOnce(ready)
    /\ reader \in {"reading", "dead"} => ~In(Reader, ready)
    /\ \A r \in Requests : pc[r] = "notified" => Ahead(r, ready)

ResultsOK == \A r \in Requests : result[r] # "none" => pc[r] = "done"

OnlyOnce ==
    /\ Once(sent) /\ Once(inbuf)
    /\ \A r \in Requests : In(r, sent) => ~In(r, inbuf)
    /\ \A r \in Requests :
          In(r, sent) \/ In(r, inbuf) => recvMsg # r /\ ~Given(r) /\ ~Unsent(r)
    /\ \A r \in Requests : Unsent(r) => recvMsg # r /\ ~Given(r)
    /\ \A r \in Requests :
          pc[r] = "notified" => recvMsg \in Requests /\ ~Given(recvMsg)
    /\ NoReplyTwice

\* While nobody has timed out, the reply under way is that of the call that
\* waits for it.
Faithful ==
    (\A q \in Requests : result[q] # "timeout") =>
        /\ \A r \in Requests : result[r] = "ok" => answer[r] = r
        /\ \A r \in Requests : pc[r] = "notified" => recvMsg = r
        /\ (\A q \in Requests : pc[q] # "timedout") =>
              \A r \in Requests :
                  In(r, sent) \/ In(r, inbuf) => pc[r] \in {"written", "waiting"}

RInv == OneFlying /\ ReadyOK /\ ResultsOK /\ OnlyOnce /\ Faithful

\* What is in a queue with one more entry.
LEMMA InAppend ==
    ASSUME NEW S, NEW q \in Seq(S), NEW e \in S
    PROVE  /\ \A x : In(x, Append(q, e)) <=> In(x, q) \/ x = e
           /\ Once(q) /\ (e \in Requests => ~In(e, q)) => Once(Append(q, e))
<1>1. /\ DOMAIN q = 1..Len(q) /\ Len(q) \in Nat
      /\ DOMAIN Append(q, e) = 1..(Len(q) + 1)
      /\ \A i \in 1..Len(q) : Append(q, e)[i] = q[i]
      /\ Append(q, e)[Len(q) + 1] = e
  BY Appended
<1>2. \A i \in DOMAIN Append(q, e) : i = Len(q) + 1 \/ i \in DOMAIN q
  BY <1>1
<1>3. ASSUME NEW x PROVE In(x, Append(q, e)) <=> In(x, q) \/ x = e
  BY <1>1, <1>2 DEF In
<1>4. ASSUME Once(q), e \in Requests => ~In(e, q) PROVE Once(Append(q, e))
  <2> SUFFICES ASSUME NEW i \in DOMAIN Append(q, e), NEW j \in DOMAIN Append(q, e),
                      Append(q, e)[i] = Append(q, e)[j], Append(q, e)[i] \in Requests
               PROVE  i = j
    BY DEF Once
  <2> QED
    BY <1>1, <1>2, <1>4 DEF Once, In
<1> QED
  BY <1>3, <1>4

\* What is left of a queue without its head.
LEMMA InTail ==
    ASSUME NEW S, NEW q \in Seq(S), q # <<>>
    PROVE  /\ \A x : In(x, Tail(q)) => In(x, q)
           /\ In(Head(q), q)
           /\ Once(q) => Once(Tail(q)) /\ (Head(q) \in Requests => ~In(Head(q), Tail(q)))
<1>1. /\ 1 \in DOMAIN q /\ Head(q) = q[1]
      /\ DOMAIN q = 1..Len(q) /\ DOMAIN Tail(q) = 1..(Len(q) - 1)
      /\ Len(q) \in Nat
      /\ \A i \in DOMAIN Tail(q) : Tail(q)[i] = q[i + 1] /\ i + 1 \in DOMAIN q
  BY HeadTail
<1>2. (\A x : In(x, Tail(q)) => In(x, q)) /\ In(Head(q), q)
  BY <1>1 DEF In
<1>3. ASSUME Once(q) PROVE Once(Tail(q))
  <2> SUFFICES ASSUME NEW i \in DOMAIN Tail(q), NEW j \in DOMAIN Tail(q),
                      Tail(q)[i] = Tail(q)[j], Tail(q)[i] \in Requests
               PROVE  i = j
    BY DEF Once
  <2>1. i + 1 = j + 1
    BY <1>1, <1>3 DEF Once
  <2> QED
    BY <1>1, <2>1
<1>4. ASSUME Once(q), Head(q) \in Requests PROVE ~In(Head(q), Tail(q))
  <2> SUFFICES ASSUME NEW i \in DOMAIN Tail(q), Tail(q)[i] = Head(q)
               PROVE  FALSE
    BY DEF In
  <2>1. i + 1 = 1
    BY <1>1, <1>4 DEF Once
  <2> QED
    BY <1>1, <2>1
<1> QED
  BY <1>2, <1>3, <1>4

\* The order of the callbacks when one is added.
LEMMA OrderAppend ==
    ASSUME NEW q \in Seq(Entries), NEW e \in Entries
    PROVE  /\ \A r : Ahead(r, q) => Ahead(r, Append(q, e))
           /\ e # Reader /\ ReaderOnce(q) => ReaderOnce(Append(q, e))
           /\ e # Reader /\ ~In(Reader, q) => ~In(Reader, Append(q, e))
           /\ e = Reader /\ ~In(Reader, q) => ReaderOnce(Append(q, e))
           /\ e = Reader => \A r : In(r, q) => Ahead(r, Append(q, e))
<1>1. /\ DOMAIN q = 1..Len(q) /\ Len(q) \in Nat
      /\ DOMAIN Append(q, e) = 1..(Len(q) + 1)
      /\ \A i \in 1..Len(q) : Append(q, e)[i] = q[i]
      /\ Append(q, e)[Len(q) + 1] = e
  BY Appended
<1>2. /\ \A i \in DOMAIN Append(q, e) : i = Len(q) + 1 \/ i \in DOMAIN q
      /\ \A i \in DOMAIN q : i \in DOMAIN Append(q, e) /\ i < Len(q) + 1 /\ Append(q, e)[i] = q[i]
  BY <1>1
<1>3. \A r : Ahead(r, q) => Ahead(r, Append(q, e))
  BY <1>2 DEF Ahead
<1>4. ASSUME e # Reader, ReaderOnce(q) PROVE ReaderOnce(Append(q, e))
  BY <1>1, <1>2, <1>4 DEF ReaderOnce
<1>5. ASSUME e = Reader, ~In(Reader, q) PROVE ReaderOnce(Append(q, e))
  BY <1>1, <1>2, <1>5 DEF ReaderOnce, In
<1>6. ASSUME e = Reader, NEW r, In(r, q) PROVE Ahead(r, Append(q, e))
  BY <1>1, <1>2, <1>6 DEF Ahead, In
<1>7. e # Reader /\ ~In(Reader, q) => ~In(Reader, Append(q, e))
  BY InAppend
<1> QED
  BY <1>3, <1>4, <1>5, <1>6, <1>7

\* The order of the callbacks when the first one runs.
LEMMA OrderTail ==
    ASSUME NEW q \in Seq(Entries), q # <<>>
    PROVE  /\ \A r : Ahead(r, q) /\ r # Head(q) => Ahead(r, Tail(q))
           /\ ReaderOnce(q) => ReaderOnce(Tail(q))
           /\ ReaderOnce(q) /\ Head(q) = Reader =>
                 ~In(Reader, Tail(q)) /\ \A r : ~Ahead(r, q)
<1>1. /\ 1 \in DOMAIN q /\ Head(q) = q[1]
      /\ DOMAIN q = 1..Len(q) /\ DOMAIN Tail(q) = 1..(Len(q) - 1)
      /\ Len(q) \in Nat
      /\ \A i \in DOMAIN Tail(q) : Tail(q)[i] = q[i + 1] /\ i + 1 \in DOMAIN q
  BY HeadTail
<1>2. ASSUME NEW r, Ahead(r, q), r # Head(q) PROVE Ahead(r, Tail(q))
  <2>1. PICK i \in DOMAIN q, j \in DOMAIN q : i < j /\ q[i] = r /\ q[j] = Reader
    BY <1>2 DEF Ahead
  <2>2. i # 1 /\ i \in 1..Len(q) /\ j \in 1..Len(q)
    BY <1>1, <1>2, <2>1
  <2>3. i - 1 \in DOMAIN Tail(q) /\ j - 1 \in DOMAIN Tail(q) /\ i - 1 < j - 1
    BY <1>1, <2>1, <2>2
  <2>4. Tail(q)[i - 1] = q[i] /\ Tail(q)[j - 1] = q[j]
    BY <1>1, <2>2, <2>3
  <2> QED
    BY <2>1, <2>3, <2>4 DEF Ahead
<1>3. ASSUME ReaderOnce(q) PROVE ReaderOnce(Tail(q))
  <2> SUFFICES ASSUME NEW i \in DOMAIN Tail(q), NEW j \in DOMAIN Tail(q),
                      Tail(q)[i] = Reader, Tail(q)[j] = Reader
               PROVE  i = j
    BY DEF ReaderOnce
  <2>1. i + 1 = j + 1
    BY <1>1, <1>3 DEF ReaderOnce
  <2> QED
    BY <1>1, <2>1
<1>4. ASSUME ReaderOnce(q), Head(q) = Reader
      PROVE  ~In(Reader, Tail(q)) /\ \A r : ~Ahead(r, q)
  <2>1. \A j \in DOMAIN q : q[j] = Reader => j = 1
    BY <1>1, <1>4 DEF ReaderOnce
  <2>2. ~In(Reader, Tail(q))
    BY <1>1, <2>1 DEF In
  <2>3. \A r : ~Ahead(r, q)
    BY <1>1, <2>1 DEF Ahead
  <2> QED
    BY <2>2, <2>3
<1> QED
  BY <1>2, <1>3, <1>4

-----------------------------------------------------------------------------
(* What a step of the call c does to the others, and what becomes of c.    *)

Others(c, rest) ==
    /\ \A d \in Callers \ {c} :
          /\ pc'[d] = pc[d] \/ (pc[d] = "queued" /\ pc'[d] = "granted")
          /\ result'[d] = result[d] /\ answer'[d] = answer[d]
    /\ ready' = rest \/ \E h \in Callers : ready' = Append(rest, h)

Asks(c) ==
    pc[c] = "idle" /\ pc'[c] = "queued" /\ UNCHANGED <<result, answer, sent>>
Fails(c) ==
    /\ pc[c] \in {"idle", "granted", "writefail", "notified"} /\ pc'[c] = "done"
    /\ result'[c] \in {"error", "too_fast"} /\ sent' = sent
Writes(c) ==
    /\ pc[c] \in {"idle", "granted"} /\ Holders \subseteq {c}
    /\ pc'[c] = "writing" /\ UNCHANGED <<result, answer, sent>>
Sends(c) ==
    /\ pc[c] \in {"idle", "granted"} /\ Holders \subseteq {c}
    /\ sent' = Append(sent, c)
    /\ \/ pc'[c] = "waiting" /\ UNCHANGED <<result, answer>>
       \/ pc'[c] = "done" /\ c \notin Requests
Waits(c) ==
    /\ pc[c] = "written" /\ sent' = sent
    /\ \/ pc'[c] = "waiting" /\ UNCHANGED <<result, answer>>
       \/ pc'[c] = "done" /\ c \notin Requests
Takes(c) ==
    /\ pc[c] = "notified" /\ pc'[c] = "done" /\ recvMsg # NoReply
    /\ result'[c] = "ok" /\ answer'[c] = recvMsg /\ sent' = sent
GivesUp(c) ==
    /\ pc[c] = "timedout" /\ pc'[c] = "done"
    /\ result'[c] = "timeout" /\ sent' = sent

\* A step of c: it runs from the queue of callbacks or is called by its handler.
Moves(c) ==
    /\ UNCHANGED <<recvMsg, reader, inbuf>>
    /\ \E rest \in {ready, Tail(ready)} :
          Others(c, rest) /\ (rest = ready \/ Running(c))
    /\ \/ Asks(c) \/ Fails(c) \/ Writes(c) \/ Sends(c) \/ Waits(c)
       \/ Takes(c) \/ GivesUp(c)

\* A call that returns grants the semaphore to at most one other.
LEMMA ReturnMoves ==
    ASSUME IInv, NEW c \in Callers, pc[c] # "queued",
           NEW res, NEW ans, NEW v, NEW p, NEW rest,
           Return(c, res, ans, v, p, rest)
    PROVE  /\ Others(c, rest) /\ pc'[c] = "done"
           /\ result'[c] = res /\ answer'[c] = ans
<1> DEFINE at == [pc EXCEPT ![c] = "done"]
<1>1. /\ pc \in [Callers -> Pcs] /\ semQ \in Seq(Callers)
      /\ result \in [Callers -> Results]
      /\ answer \in [Callers -> Requests \cup {NoReply}]
      /\ \A i \in DOMAIN semQ : pc[semQ[i]] = "queued"
  BY DEF IInv, TypeOK, QueuedOK
<1>2. /\ result' = [result EXCEPT ![c] = res] /\ answer' = [answer EXCEPT ![c] = ans]
      /\ Release(at, v, rest)
  BY DEF Return
<1>3. CASE semQ = <<>>
  <2>1. pc' = at /\ ready' = rest
    BY <1>2, <1>3 DEF Release
  <2> QED
    BY <1>1, <1>2, <2>1 DEF Others
<1>4. CASE semQ # <<>>
  <2> DEFINE h == Head(semQ)
  <2>1. pc' = [at EXCEPT ![h] = "granted"] /\ ready' = Append(rest, h)
    BY <1>2, <1>4 DEF Release
  <2>2. h \in Callers /\ pc[h] = "queued"
    BY <1>1, <1>4, HeadTail
  <2> HIDE DEF h
  <2>3. pc'[c] = "done"
    BY <1>1, <2>1, <2>2
  <2>4. \A d \in Callers \ {c} : pc'[d] = pc[d] \/ (pc[d] = "queued" /\ pc'[d] = "granted")
    BY <1>1, <2>1, <2>2
  <2> QED
    BY <1>1, <1>2, <2>1, <2>2, <2>3, <2>4 DEF Others
<1> QED
  BY <1>3, <1>4

\* A call that keeps the semaphore changes nothing for the others.
LEMMA SuspendMoves ==
    ASSUME IInv, NEW c \in Callers, NEW at, NEW v, NEW p, NEW rest,
           Suspend(c, at, v, p, rest)
    PROVE  Others(c, rest) /\ pc'[c] = at /\ UNCHANGED <<result, answer>>
BY DEF IInv, TypeOK, Suspend, Others

\* Once its write is flushed a request waits, and a command is finished.
LEMMA AfterWriteMoves ==
    ASSUME IInv, NEW c \in Callers, pc[c] # "queued",
           NEW v, NEW p, NEW rest, AfterWrite(c, v, p, rest)
    PROVE  /\ Others(c, rest)
           /\ \/ pc'[c] = "waiting" /\ UNCHANGED <<result, answer>>
              \/ pc'[c] = "done" /\ c \notin Requests
<1>1. CASE Suspend(c, "waiting", v, p, rest)
  BY <1>1, SuspendMoves
<1>2. CASE c \in Commands /\ Return(c, "ok", NoReply, v, p, rest)
  BY <1>2, ReturnMoves, ConnectionAssumption
<1> QED
  BY <1>1, <1>2 DEF AfterWrite

\* A call with the semaphore sends, waits for the socket or fails.
LEMMA SecureWriteMoves ==
    ASSUME IInv, NEW c \in Callers, pc[c] \in {"idle", "granted"},
           NEW v, NEW p, Hand(c, v, p), NEW rest, SecureWrite(c, v, p, rest)
    PROVE  Others(c, rest) /\ (Fails(c) \/ Writes(c) \/ Sends(c))
<1>1. stream = "open" => Holders \subseteq {c}
  BY DEF Hand
<1>2. CASE stream = "open" /\ sent' = Append(sent, c) /\ AfterWrite(c, v, p, rest)
  BY <1>1, <1>2, AfterWriteMoves DEF Sends
<1>3. CASE stream = "open" /\ Suspend(c, "writing", v, p, rest) /\ sent' = sent
  BY <1>1, <1>3, SuspendMoves DEF Writes
<1>4. CASE Return(c, "error", NoReply, v, p, rest) /\ sent' = sent
  BY <1>4, ReturnMoves DEF Fails
<1> QED
  BY <1>2, <1>3, <1>4 DEF SecureWrite

\* A call that asks for the semaphore queues, or goes on at once.
LEMMA AcquireMoves ==
    ASSUME IInv, NEW c \in Callers, pc[c] = "idle",
           NEW p \in 0..PENDING_REQ_CNT,
           p = Cardinality(Active \cup ({c} \cap Requests)),
           Acquire(c, p)
    PROVE  Others(c, ready) /\ (Asks(c) \/ Fails(c) \/ Writes(c) \/ Sends(c))
<1>1. pc \in [Callers -> Pcs] /\ sem \in Nat
  BY DEF IInv, TypeOK
<1>2. CASE sem > 0 /\ SecureWrite(c, sem - 1, p, ready)
  <2>1. Hand(c, sem - 1, p)
    BY <1>1, <1>2 DEF Hand, IInv, Exclusive
  <2> QED
    BY <1>2, <2>1, SecureWriteMoves
<1>3. CASE /\ pc' = [pc EXCEPT ![c] = "queued"]
           /\ UNCHANGED <<ready, sent, result, answer>>
  BY <1>1, <1>3 DEF Others, Asks
<1> QED
  BY <1>2, <1>3 DEF Acquire

\* Every action of a call is such a step.
LEMMA CallMoves ==
    ASSUME IInv, NEW c \in Callers,
           \/ c \in Requests /\ (SubmitAndWaitResp(c) \/ ResumeWaiting(c))
           \/ c \in Commands /\ SubmitCmd(c)
           \/ ResumeGranted(c) \/ ResumeWritten(c)
    PROVE  Moves(c)
<1>1. /\ pc \in [Callers -> Pcs] /\ pending \in 0..PENDING_REQ_CNT
      /\ pending = Cardinality(Active) /\ PENDING_REQ_CNT \in Nat
      /\ result \in [Callers -> Results]
  BY ConnectionAssumption DEF IInv, TypeOK, PendingExact
<1>2. CASE c \in Requests /\ SubmitAndWaitResp(c)
  <2>1. pc[c] = "idle" /\ UNCHANGED <<recvMsg, reader, inbuf>>
    BY <1>2 DEF SubmitAndWaitResp, connVars
  <2>2. CASE /\ pc' = [pc EXCEPT ![c] = "done"]
             /\ result' = [result EXCEPT ![c] = "too_fast"]
             /\ UNCHANGED <<ready, sent, answer>>
    <3>1. Others(c, ready) /\ Fails(c)
      BY <1>1, <2>1, <2>2 DEF Others, Fails
    <3> QED
      BY <2>1, <3>1 DEF Moves
  <2>3. CASE pending + 1 <= PENDING_REQ_CNT /\ Acquire(c, pending + 1)
    <3>1. pending + 1 = Cardinality(Active \cup ({c} \cap Requests))
      <4>1. c \notin Active /\ Active \cup ({c} \cap Requests) = Active \cup {c}
        BY <1>2, <2>1 DEF Active
      <4>2. Cardinality(Active \cup {c}) = Cardinality(Active) + 1
        BY <4>1, ActiveFinite, FS_AddElement
      <4> QED
        BY <1>1, <4>1, <4>2
    <3>2. pending + 1 \in 0..PENDING_REQ_CNT
      BY <1>1, <2>3
    <3>3. Others(c, ready) /\ (Asks(c) \/ Fails(c) \/ Writes(c) \/ Sends(c))
      BY <2>1, <2>3, <3>1, <3>2, AcquireMoves
    <3> QED
      BY <2>1, <3>3 DEF Moves
  <2> QED
    BY <1>2, <2>2, <2>3 DEF SubmitAndWaitResp
<1>3. CASE c \in Commands /\ SubmitCmd(c)
  <2>1. pc[c] = "idle" /\ Acquire(c, pending) /\ UNCHANGED <<recvMsg, reader, inbuf>>
    BY <1>3 DEF SubmitCmd, connVars
  <2>2. Active \cup ({c} \cap Requests) = Active
    BY <1>3, ConnectionAssumption
  <2>3. Others(c, ready) /\ (Asks(c) \/ Fails(c) \/ Writes(c) \/ Sends(c))
    BY <1>1, <2>1, <2>2, AcquireMoves
  <2> QED
    BY <2>1, <2>3 DEF Moves
<1>4. CASE ResumeGranted(c)
  <2>1. /\ Running(c) /\ pc[c] = "granted" /\ UNCHANGED <<recvMsg, reader, inbuf>>
        /\ SecureWrite(c, sem, pending, Tail(ready))
    BY <1>4 DEF ResumeGranted, connVars
  <2>2. Hand(c, sem, pending)
    BY <2>1, ResumedHand
  <2>3. Others(c, Tail(ready)) /\ (Fails(c) \/ Writes(c) \/ Sends(c))
    BY <2>1, <2>2, SecureWriteMoves
  <2> QED
    BY <2>1, <2>3 DEF Moves
<1>5. CASE ResumeWritten(c)
  <2>1. /\ Running(c) /\ UNCHANGED <<recvMsg, reader, inbuf>> /\ sent' = sent
        /\ \/ pc[c] = "written" /\ AfterWrite(c, sem, pending, Tail(ready))
           \/ pc[c] = "writefail" /\ Return(c, "error", NoReply, sem, pending, Tail(ready))
    BY <1>5 DEF ResumeWritten, connVars
  <2>2. Others(c, Tail(ready)) /\ (Fails(c) \/ Waits(c))
    BY <2>1, AfterWriteMoves, ReturnMoves DEF Fails, Waits
  <2> QED
    BY <2>1, <2>2 DEF Moves
<1>6. CASE c \in Requests /\ ResumeWaiting(c)
  <2>1. /\ Running(c) /\ UNCHANGED <<recvMsg, reader, inbuf>> /\ sent' = sent
        /\ \/ pc[c] = "notified" /\ TakeReply(c)
           \/ pc[c] = "timedout" /\ TimeOut(c)
    BY <1>6 DEF ResumeWaiting, connVars
  <2>2. Others(c, Tail(ready)) /\ (Fails(c) \/ Takes(c) \/ GivesUp(c))
    BY <2>1, ReturnMoves DEF TakeReply, TimeOut, Fails, Takes, GivesUp
  <2> QED
    BY <2>1, <2>2 DEF Moves
<1> QED
  BY <1>2, <1>3, <1>4, <1>5, <1>6

-----------------------------------------------------------------------------
(* A step of a call keeps each part.                                       *)

\* Only the call that runs can take off, and then no other is under way.
LEMMA MovesFlying ==
    ASSUME IInv, RInv, NEW c \in Callers, Moves(c)
    PROVE  OneFlying'
<1>1. \A d \in Callers \ {c} : pc'[d] = pc[d] \/ (pc[d] = "queued" /\ pc'[d] = "granted")
  BY DEF Moves, Others
<1>2. \A d \in Callers \ {c} : d \in Flying' => d \in Flying
  BY <1>1 DEF Flying, FlyingPcs
<1>3. \A d, e \in Flying : d = e
  BY DEF RInv, OneFlying
<1>4. c \in Flying' => c \in Flying \/ Holders \subseteq {c}
  BY DEF Moves, Asks, Fails, Writes, Sends, Waits, Takes, GivesUp,
         Flying, FlyingPcs, HolderPcs
<1>5. Flying \subseteq Holders /\ Flying' \subseteq Callers
  BY DEF Flying, FlyingPcs, Holders
<1> QED
  BY <1>2, <1>3, <1>4, <1>5 DEF OneFlying

\* The reader stays behind the request that was woken, and only the call that
\* ran is gone from the queue.
LEMMA MovesReady ==
    ASSUME IInv, RInv, NEW c \in Callers, Moves(c)
    PROVE  ReadyOK'
<1>1. /\ ready \in Seq(Entries) /\ reader' = reader /\ ReadyOK
      /\ Callers \subseteq Entries /\ Requests \subseteq Callers
      /\ Reader \notin Callers /\ Reader \in Entries
  BY ConnectionAssumption DEF IInv, TypeOK, Entries, Moves, RInv, Callers
<1>2. PICK rest \in {ready, Tail(ready)} : Others(c, rest) /\ (rest = ready \/ Running(c))
  BY DEF Moves
<1>3. \A r \in Requests : pc'[r] = "notified" => r # c /\ pc[r] = "notified"
  <2>1. pc'[c] # "notified"
    BY DEF Moves, Asks, Fails, Writes, Sends, Waits, Takes, GivesUp
  <2> QED
    BY <1>1, <1>2, <2>1 DEF Others
<1>4. /\ rest \in Seq(Entries) /\ ReaderOnce(rest)
      /\ reader \in {"reading", "dead"} => ~In(Reader, rest)
      /\ \A r \in Requests : pc[r] = "notified" /\ r # c => Ahead(r, rest)
  <2>1. CASE rest = ready
    BY <1>1, <2>1 DEF ReadyOK
  <2>2. CASE rest = Tail(ready) /\ Running(c)
    <3>1. ready # <<>> /\ Head(ready) = c
      BY <2>2 DEF Running
    <3> QED
      BY <1>1, <2>2, <3>1, OrderTail, InTail, HeadTail DEF ReadyOK
  <2> QED
    BY <1>2, <2>1, <2>2
<1>5. CASE ready' = rest
  BY <1>1, <1>3, <1>4, <1>5 DEF ReadyOK
<1>6. ASSUME NEW h \in Callers, ready' = Append(rest, h)
      PROVE  ReadyOK'
  <2>1. h \in Entries /\ h # Reader
    BY <1>1
  <2> QED
    BY <1>1, <1>3, <1>4, <1>6, <2>1, OrderAppend DEF ReadyOK
<1> QED
  BY <1>2, <1>5, <1>6 DEF Others

\* A call has a result when it is done, and not before.
LEMMA MovesResults ==
    ASSUME IInv, RInv, NEW c \in Callers, Moves(c)
    PROVE  /\ ResultsOK'
           /\ \A q \in Requests : result[q] = "timeout" => result'[q] = "timeout"
<1>1. /\ \A r \in Requests : result[r] # "none" => pc[r] = "done"
      /\ Requests \subseteq Callers
  BY DEF RInv, ResultsOK, Callers
<1>2. \A d \in Callers \ {c} :
          /\ pc'[d] = pc[d] \/ (pc[d] = "queued" /\ pc'[d] = "granted")
          /\ result'[d] = result[d]
  BY DEF Moves, Others
<1>3. c \in Requests => pc[c] # "done" /\ (pc'[c] = "done" \/ result'[c] = result[c])
  BY DEF Moves, Asks, Fails, Writes, Sends, Waits, Takes, GivesUp
<1> QED
  BY <1>1, <1>2, <1>3 DEF ResultsOK

\* A reply is given once: to the request that was woken for it.
LEMMA MovesGiven ==
    ASSUME IInv, RInv, NEW c \in Callers, Moves(c)
    PROVE  \A m \in Requests : Given(m)' => Given(m) \/ (Takes(c) /\ m = recvMsg)
<1> SUFFICES ASSUME NEW m \in Requests, NEW q \in Requests,
                    result'[q] = "ok", answer'[q] = m
             PROVE  Given(m) \/ (Takes(c) /\ m = recvMsg)
  BY DEF Given
<1>1. q \in Callers
  BY DEF Callers
<1>2. CASE q # c
  BY <1>1, <1>2 DEF Moves, Others, Given
<1>3. CASE q = c
  BY <1>3 DEF Moves, Given, Asks, Fails, Writes, Sends, Waits, Takes, GivesUp
<1> QED
  BY <1>2, <1>3

\* A step of a call keeps every reply in one place.
LEMMA MovesOnce ==
    ASSUME IInv, RInv, NEW c \in Callers, Moves(c)
    PROVE  OnlyOnce'
<1>1. /\ sent \in Seq(Callers) /\ OnlyOnce /\ Requests \subseteq Callers
      /\ UNCHANGED <<recvMsg, inbuf>> /\ NoReply \notin Requests
  BY ConnectionAssumption DEF IInv, TypeOK, RInv, Callers, Moves
<1>2. \A d \in Callers \ {c} :
          /\ pc'[d] = pc[d] \/ (pc[d] = "queued" /\ pc'[d] = "granted")
          /\ result'[d] = result[d] /\ answer'[d] = answer[d]
  BY DEF Moves, Others
<1>3. /\ sent' = sent \/ (sent' = Append(sent, c) /\ pc[c] \in {"idle", "granted"})
      /\ sent' # sent /\ c \in Requests => pc'[c] = "waiting"
  BY DEF Moves, Asks, Fails, Writes, Sends, Waits, Takes, GivesUp
<1>4. c \in Requests => (Unsent(c)' => Unsent(c)) /\ pc'[c] # "notified"
  BY DEF Moves, Asks, Fails, Writes, Sends, Waits, Takes, GivesUp, Unsent
<1>5. \A r \in Requests : /\ Unsent(r)' => Unsent(r)
                          /\ pc'[r] = "notified" => pc[r] = "notified" /\ r # c
  BY <1>1, <1>2, <1>4 DEF Unsent
<1>6. \A r \in Requests : In(r, sent') => In(r, sent) \/ (r = c /\ sent' # sent)
  <2>1. sent' = Append(sent, c) => \A r : In(r, sent') <=> In(r, sent) \/ r = c
    <3>1. \A x : In(x, Append(sent, c)) <=> In(x, sent) \/ x = c
      BY <1>1, InAppend
    <3> QED
      BY <3>1
  <2> QED
    BY <1>3, <2>1
<1>7. /\ \A m \in Requests : Given(m)' => Given(m) \/ (Takes(c) /\ m = recvMsg)
      /\ Takes(c) => pc[c] = "notified"
  BY MovesGiven DEF Takes
<1>8. sent' # sent /\ c \in Requests =>
          Unsent(c) /\ ~In(c, sent) /\ ~In(c, inbuf) /\ recvMsg # c /\ ~Given(c)
  BY <1>1, <1>3 DEF Unsent, OnlyOnce
<1>9. Once(sent') /\ Once(inbuf')
  <2>1. CASE sent' = Append(sent, c) /\ pc[c] \in {"idle", "granted"}
    <3>1. c \in Requests => ~In(c, sent)
      BY <1>1, <2>1 DEF Unsent, OnlyOnce
    <3>2. Once(Append(sent, c))
      BY <1>1, <3>1, InAppend DEF OnlyOnce
    <3> QED
      BY <1>1, <2>1, <3>2 DEF OnlyOnce
  <2> QED
    BY <1>1, <1>3, <2>1 DEF OnlyOnce
<1>10. \A r \in Requests : In(r, sent') => ~In(r, inbuf')
  BY <1>1, <1>6, <1>8 DEF OnlyOnce
<1>11. ASSUME NEW r \in Requests, In(r, sent') \/ In(r, inbuf')
       PROVE  recvMsg' # r /\ ~Given(r)' /\ ~Unsent(r)'
  <2>1. CASE In(r, sent) \/ In(r, inbuf)
    BY <1>1, <1>5, <1>7, <2>1 DEF OnlyOnce
  <2>2. CASE r = c /\ sent' # sent
    <3>1. ~Unsent(r)'
      BY <1>3, <2>2 DEF Unsent
    <3> QED
      BY <1>1, <1>7, <1>8, <2>2, <3>1
  <2> QED
    BY <1>1, <1>6, <1>11, <2>1, <2>2
<1>12. \A r \in Requests : Unsent(r)' => recvMsg' # r /\ ~Given(r)'
  BY <1>1, <1>5, <1>7 DEF OnlyOnce
<1>13. ASSUME NEW r \in Requests, pc'[r] = "notified"
       PROVE  recvMsg' \in Requests /\ ~Given(recvMsg)'
  <2>1. pc[r] = "notified" /\ r # c /\ recvMsg \in Requests /\ ~Given(recvMsg)
    BY <1>1, <1>5, <1>13 DEF OnlyOnce
  <2>2. pc[c] # "notified"
    BY <1>1, <2>1 DEF RInv, OneFlying, Flying, FlyingPcs, HolderPcs
  <2>3. ~\E q \in Requests : result'[q] = "ok" /\ answer'[q] = recvMsg
    BY <1>7, <2>1, <2>2 DEF Given
  <2> QED
    BY <1>1, <2>1, <2>3 DEF Given
<1>14. NoReplyTwice'
  <2> SUFFICES ASSUME NEW q \in Requests, NEW r \in Requests, q # r,
                      result'[q] = "ok", result'[r] = "ok", answer'[q] = answer'[r]
               PROVE  FALSE
    BY DEF NoReplyTwice
  <2>1. \A s \in Requests : \/ result'[s] = result[s] /\ answer'[s] = answer[s]
                            \/ s = c
    BY <1>1, <1>2
  <2>2. c \in Requests => \/ result'[c] # "ok"
                          \/ UNCHANGED <<result, answer>>
                          \/ Takes(c)
    BY DEF Moves, Asks, Fails, Writes, Sends, Waits, GivesUp
  <2>3. UNCHANGED <<result, answer>> => FALSE
    BY <1>1 DEF OnlyOnce, NoReplyTwice
  <2>4. Takes(c) /\ c \in Requests =>
            /\ answer'[c] = recvMsg
            /\ \A s \in Requests : result[s] = "ok" => answer[s] # recvMsg
    BY <1>1 DEF OnlyOnce, Takes, Given
  <2> QED
    BY <1>1, <2>1, <2>2, <2>3, <2>4 DEF OnlyOnce, NoReplyTwice
<1> QED
  BY <1>9, <1>10, <1>11, <1>12, <1>13, <1>14 DEF OnlyOnce

\* As long as nobody timed out, the request that is woken takes its own reply.
LEMMA MovesFaithful ==
    ASSUME IInv, RInv, NEW c \in Callers, Moves(c)
    PROVE  Faithful'
<1> SUFFICES ASSUME \A q \in Requests : result'[q] # "timeout"
             PROVE  /\ \A r \in Requests : result'[r] = "ok" => answer'[r] = r
                    /\ \A r \in Requests : pc'[r] = "notified" => recvMsg' = r
                    /\ (\A q \in Requests : pc'[q] # "timedout") =>
                          \A r \in Requests :
                              In(r, sent') \/ In(r, inbuf') => pc'[r] \in {"written", "waiting"}
  BY DEF Faithful
<1>1. /\ sent \in Seq(Callers) /\ OnlyOnce /\ Requests \subseteq Callers
      /\ UNCHANGED <<recvMsg, inbuf>> /\ NoReply \notin Requests
  BY ConnectionAssumption DEF IInv, TypeOK, RInv, Callers, Moves
<1>2. \A d \in Callers \ {c} :
          /\ pc'[d] = pc[d] \/ (pc[d] = "queued" /\ pc'[d] = "granted")
          /\ result'[d] = result[d] /\ answer'[d] = answer[d]
  BY DEF Moves, Others
<1>3. \A q \in Requests : result[q] # "timeout"
  BY MovesResults
<1>4. /\ \A r \in Requests : result[r] = "ok" => answer[r] = r
      /\ \A r \in Requests : pc[r] = "notified" => recvMsg = r
      /\ (\A q \in Requests : pc[q] # "timedout") =>
            \A r \in Requests :
                In(r, sent) \/ In(r, inbuf) => pc[r] \in {"written", "waiting"}
  BY <1>3 DEF RInv, Faithful
<1>5. \A r \in Requests : result'[r] = "ok" => answer'[r] = r
  <2>1. c \in Requests => \/ result'[c] # "ok"
                          \/ UNCHANGED <<result, answer>>
                          \/ Takes(c)
    BY DEF Moves, Asks, Fails, Writes, Sends, Waits, GivesUp
  <2>2. Takes(c) /\ c \in Requests => answer'[c] = c
    BY <1>4 DEF Takes
  <2> QED
    BY <1>1, <1>2, <1>4, <2>1, <2>2
<1>6. /\ pc'[c] \notin {"notified", "timedout"}
      /\ c \in Requests /\ pc[c] = "timedout" => result'[c] = "timeout"
  BY DEF Moves, Asks, Fails, Writes, Sends, Waits, Takes, GivesUp
<1>7. \A r \in Requests : pc'[r] = "notified" => recvMsg' = r
  BY <1>1, <1>2, <1>4, <1>6
<1>8. ASSUME \A q \in Requests : pc'[q] # "timedout",
             NEW r \in Requests, In(r, sent') \/ In(r, inbuf')
      PROVE  pc'[r] \in {"written", "waiting"}
  <2>1. \A q \in Requests : pc[q] # "timedout"
    BY <1>1, <1>2, <1>6, <1>8
  <2>2. CASE In(r, sent) \/ In(r, inbuf)
    <3>1. pc[r] \in {"written", "waiting"}
      BY <1>4, <2>1, <2>2
    <3>2. c = r => pc'[r] \in {"written", "waiting"}
      BY <3>1 DEF Moves, Asks, Fails, Writes, Sends, Waits, Takes, GivesUp
    <3> QED
      BY <1>1, <1>2, <3>1, <3>2
  <2>3. CASE ~In(r, sent) /\ ~In(r, inbuf)
    <3>1. r = c /\ sent' = Append(sent, c)
      BY <1>1, <1>8, <2>3, InAppend
         DEF Moves, Asks, Fails, Writes, Sends, Waits, Takes, GivesUp
    <3>2. sent' # sent
      BY <1>1, <2>3, <3>1, InAppend
    <3> QED
      BY <3>1, <3>2 DEF Moves, Asks, Fails, Writes, Sends, Waits, Takes, GivesUp
  <2> QED
    BY <2>2, <2>3
<1> QED
  BY <1>5, <1>7, <1>8

\* A step of a call keeps the invariant of the replies.
LEMMA MovesKeep ==
    ASSUME IInv, RInv, NEW c \in Callers, Moves(c)
    PROVE  RInv'
BY MovesFlying, MovesReady, MovesResults, MovesOnce, MovesFaithful DEF RInv

-----------------------------------------------------------------------------
(* The steps of the reader, the node and the socket.                       *)

\* A step that moves no reply and takes no call out of its stage.
LEMMA QuietReplies ==
    ASSUME RInv, UNCHANGED <<recvMsg, sent, inbuf, result, answer>>,
           \A d \in Callers : \/ pc'[d] = pc[d]
                              \/ pc[d] = "queued" /\ pc'[d] = "granted"
                              \/ pc[d] = "writing" /\ pc'[d] = "writefail"
                              \/ pc[d] = "waiting" /\ pc'[d] = "timedout",
           ReadyOK'
    PROVE  RInv'
<1>1. Requests \subseteq Callers
  BY DEF Callers
<1>2. \A r \in Requests :
          /\ Unsent(r)' => Unsent(r)
          /\ pc'[r] = "notified" => pc[r] = "notified"
          /\ pc[r] = "done" => pc'[r] = "done"
          /\ pc[r] = "timedout" => pc'[r] = "timedout"
          /\ pc[r] \in {"written", "waiting"} =>
                pc'[r] \in {"written", "waiting", "timedout"}
  BY <1>1 DEF Unsent
<1>3. OneFlying'
  <2>1. Flying' \subseteq Flying
    BY DEF Flying, FlyingPcs, HolderPcs
  <2> QED
    BY <2>1 DEF RInv, OneFlying
<1>4. ResultsOK'
  BY <1>2 DEF RInv, ResultsOK
<1>5. OnlyOnce'
  <2>1. \A m : Given(m)' <=> Given(m)
    BY DEF Given
  <2>2. NoReplyTwice'
    BY DEF RInv, OnlyOnce, NoReplyTwice
  <2>3. ASSUME NEW r \in Requests, pc'[r] = "notified"
        PROVE  recvMsg' \in Requests /\ ~Given(recvMsg)'
    BY <1>2, <2>3 DEF RInv, OnlyOnce, Given
  <2> QED
    BY <1>2, <2>1, <2>2, <2>3 DEF RInv, OnlyOnce
<1>6. Faithful'
  BY <1>2 DEF RInv, Faithful
<1> QED
  BY <1>3, <1>4, <1>5, <1>6 DEF RInv

\* When the reader runs, the request it woke before has read its reply.
LEMMA ReaderRuns ==
    ASSUME IInv, RInv, Running(Reader)
    PROVE  /\ Tail(ready) \in Seq(Entries) /\ ~In(Reader, Tail(ready))
           /\ \A r \in Requests : pc[r] # "notified"
<1>1. ready \in Seq(Entries) /\ ready # <<>> /\ Head(ready) = Reader /\ ReadyOK
  BY DEF IInv, TypeOK, Entries, Running, RInv
<1>2. /\ ~In(Reader, Tail(ready)) /\ \A r : ~Ahead(r, ready)
      /\ Tail(ready) \in Seq(Entries)
  BY <1>1, OrderTail, HeadTail DEF ReadyOK
<1> QED
  BY <1>1, <1>2 DEF ReadyOK

\* The reader reads a piece: a reply moves from inbuf to recv_msg, and the
\* request that is woken, if any, is the only one to read it.
LEMMA ReaderReads ==
    ASSUME IInv, RInv, Running(Reader), inbuf # <<>>, inbuf' = Tail(inbuf),
           HandlePiece(Head(inbuf), Tail(ready)), UNCHANGED callVars
    PROVE  RInv'
<1> DEFINE m == Head(inbuf)
           rest == Tail(ready)
<1>1. /\ rest \in Seq(Entries) /\ ~In(Reader, rest)
      /\ \A r \in Requests : pc[r] # "notified"
  BY ReaderRuns
<1>2. /\ inbuf \in Seq(Pieces) /\ condQ \in Seq(Requests) /\ pc \in [Callers -> Pcs]
      /\ Requests \subseteq Callers /\ Callers \subseteq Entries /\ Reader \in Entries
      /\ Reader \notin Callers /\ NoReply \notin Requests
      /\ UNCHANGED <<sent, result, answer>>
  BY ConnectionAssumption DEF IInv, TypeOK, Entries, Callers, callVars
<1>3. /\ OneFlying /\ ResultsOK /\ OnlyOnce /\ Faithful
      /\ \A x : Given(x)' <=> Given(x)
  BY <1>2 DEF RInv, Given
<1>4. /\ \A x : In(x, inbuf') => In(x, inbuf)
      /\ In(m, inbuf) /\ Once(inbuf')
      /\ m \in Requests => ~In(m, inbuf')
  <2>1. Once(inbuf)
    BY <1>3 DEF OnlyOnce
  <2> QED
    BY <1>2, <2>1, InTail
<1> HIDE DEF m, rest
<1>5. HandlePiece(m, rest)
  BY DEF m, rest
<1>6. /\ m \in Requests => /\ ~Given(m) /\ ~Unsent(m) /\ ~In(m, sent)
      /\ NoReplyTwice'
  BY <1>2, <1>3, <1>4 DEF OnlyOnce, NoReplyTwice
<1>7. ASSUME m \in Requests, recvMsg' = m, NEW i \in DOMAIN condQ,
             Undone(i), WakeAndYield(i, rest)
      PROVE  RInv'
  <2> DEFINE w == condQ[i]
  <2>1. /\ w \in Requests /\ pc[w] = "waiting" /\ pc' = [pc EXCEPT ![w] = "notified"]
        /\ reader' = "moment" /\ ready' = Append(Append(rest, w), Reader)
    BY <1>2, <1>7 DEF Undone, WakeAndYield
  <2> HIDE DEF w
  <2>2. /\ pc'[w] = "notified" /\ \A d \in Callers \ {w} : pc'[d] = pc[d]
        /\ w \in Flying
    BY <1>2, <2>1 DEF Flying, FlyingPcs, HolderPcs
  <2>3. OneFlying'
    <3>1. Flying' \subseteq Flying
      BY <2>2 DEF Flying
    <3> QED
      BY <1>3, <3>1 DEF OneFlying
  <2>4. ReadyOK'
    <3>1. w \in Entries /\ w # Reader
      BY <1>2, <2>1
    <3>2. /\ Append(rest, w) \in Seq(Entries) /\ In(w, Append(rest, w))
          /\ ~In(Reader, Append(rest, w))
      BY <1>1, <3>1, Appended, InAppend
    <3>3. ReaderOnce(ready') /\ Ahead(w, ready')
      BY <1>2, <2>1, <3>2, OrderAppend
    <3>4. \A r \in Requests : pc'[r] = "notified" => r = w
      BY <1>1, <1>2, <2>2
    <3> QED
      BY <2>1, <3>3, <3>4 DEF ReadyOK
  <2>5. ResultsOK'
    BY <1>2, <1>3, <2>1, <2>2 DEF ResultsOK
  <2>6. OnlyOnce'
    <3>1. \A r \in Requests : Unsent(r)' => Unsent(r)
      BY <1>2, <2>2 DEF Unsent
    <3>2. ~Given(recvMsg)'
      BY <1>2, <1>6, <1>7 DEF Given
    <3>3. \A r \in Requests : In(r, sent') => ~In(r, inbuf')
      BY <1>2, <1>3, <1>4 DEF OnlyOnce
    <3>4. ASSUME NEW r \in Requests, In(r, sent') \/ In(r, inbuf')
          PROVE  recvMsg' # r /\ ~Given(r)' /\ ~Unsent(r)'
      BY <1>2, <1>3, <1>4, <1>6, <1>7, <3>1, <3>4 DEF OnlyOnce
    <3>5. \A r \in Requests : Unsent(r)' => recvMsg' # r /\ ~Given(r)'
      BY <1>3, <1>6, <1>7, <3>1 DEF OnlyOnce
    <3> QED
      BY <1>2, <1>3, <1>4, <1>6, <1>7, <3>2, <3>3, <3>4, <3>5 DEF OnlyOnce
  <2>7. Faithful'
    <3> SUFFICES ASSUME \A q \in Requests : result'[q] # "timeout"
                 PROVE  /\ \A r \in Requests : result'[r] = "ok" => answer'[r] = r
                        /\ \A r \in Requests : pc'[r] = "notified" => recvMsg' = r
                        /\ \A r \in Requests :
                              In(r, sent') \/ In(r, inbuf') => pc'[r] \in {"written", "waiting"}
      BY DEF Faithful
    <3>1. \A q \in Requests : result[q] # "timeout" /\ pc[q] # "timedout"
      BY <1>2, <1>3, <2>1, <2>2 DEF OneFlying, Flying, FlyingPcs, HolderPcs
    <3>2. /\ \A r \in Requests : In(r, sent) \/ In(r, inbuf) => pc[r] \in {"written", "waiting"}
          /\ \A r \in Requests : result[r] = "ok" => answer[r] = r
      BY <1>3, <3>1 DEF Faithful
    <3>3. \A r \in Requests : In(r, sent) \/ In(r, inbuf) => r = w
      BY <1>2, <1>3, <2>2, <3>2 DEF OneFlying, Flying, FlyingPcs, HolderPcs
    <3>4. m = w
      BY <1>4, <1>7, <3>3
    <3>5. \A r \in Requests : pc'[r] = "notified" => r = w
      BY <1>1, <1>2, <2>2
    <3>6. \A r \in Requests : ~In(r, sent') /\ ~In(r, inbuf')
      BY <1>2, <1>4, <1>6, <1>7, <3>3, <3>4
    <3> QED
      BY <1>2, <1>7, <3>2, <3>4, <3>5, <3>6
  <2> QED
    BY <2>3, <2>4, <2>5, <2>6, <2>7 DEF RInv
<1>8. ASSUME pc' = pc, ready' = Append(rest, Reader),
             reader' \in {"moment", "blockend"},
             (m \in Requests /\ recvMsg' = m) \/ recvMsg' = recvMsg
      PROVE  RInv'
  <2>1. ReadyOK'
    <3>1. ReaderOnce(ready')
      BY <1>1, <1>2, <1>8, OrderAppend
    <3> QED
      BY <1>1, <1>8, <3>1 DEF ReadyOK
  <2>2. OneFlying' /\ ResultsOK'
    BY <1>2, <1>3, <1>8 DEF OneFlying, Flying, ResultsOK
  <2>3. OnlyOnce'
    <3>1. \A r \in Requests : Unsent(r)' <=> Unsent(r)
      BY <1>8 DEF Unsent
    <3>2. \A r \in Requests : In(r, sent') => ~In(r, inbuf')
      BY <1>2, <1>3, <1>4 DEF OnlyOnce
    <3>3. ASSUME NEW r \in Requests, In(r, sent') \/ In(r, inbuf')
          PROVE  recvMsg' # r /\ ~Given(r)' /\ ~Unsent(r)'
      BY <1>2, <1>3, <1>4, <1>6, <1>8, <3>1, <3>3 DEF OnlyOnce
    <3>4. \A r \in Requests : Unsent(r)' => recvMsg' # r /\ ~Given(r)'
      BY <1>3, <1>6, <1>8, <3>1 DEF OnlyOnce
    <3>5. \A r \in Requests : pc'[r] # "notified"
      BY <1>1, <1>8
    <3> QED
      BY <1>2, <1>3, <1>4, <1>6, <3>2, <3>3, <3>4, <3>5 DEF OnlyOnce
  <2>4. Faithful'
    BY <1>1, <1>2, <1>3, <1>4, <1>8 DEF Faithful
  <2> QED
    BY <2>1, <2>2, <2>3, <2>4 DEF RInv
<1>9. CASE m \in Requests /\ recvMsg' = m /\ NotifyNobody(rest)
  BY <1>8, <1>9 DEF NotifyNobody
<1>10. CASE /\ reader' = "blockend" /\ ready' = Append(rest, Reader)
            /\ UNCHANGED <<recvMsg, pc, condQ>>
  BY <1>8, <1>10
<1> QED
  BY <1>5, <1>7, <1>9, <1>10 DEF HandlePiece

\* No step of the reader coroutine breaks the invariant of the replies.
LEMMA ReaderReplies ==
    ASSUME IInv, RInv,
           ReaderGotData \/ ReaderGotError \/ ReaderEndsBlock \/ ReaderLoops
    PROVE  RInv'
<1>1. Running(Reader) /\ UNCHANGED callVars
  BY DEF ReaderGotData, ReaderGotError, ReaderEndsBlock, ReaderLoops
<1>2. /\ Tail(ready) \in Seq(Entries) /\ ~In(Reader, Tail(ready))
      /\ \A r \in Requests : pc[r] # "notified"
  BY <1>1, ReaderRuns
<1>3. ASSUME UNCHANGED <<pc, recvMsg, inbuf>>,
             \/ ready' = Tail(ready)
             \/ ready' = Append(Tail(ready), Reader) /\ reader' = "blockend"
      PROVE  RInv'
  <2>1. Reader \in Entries
    BY DEF Entries
  <2>2. ASSUME ready' = Tail(ready) PROVE ReadyOK'
    <3>1. ReaderOnce(ready') /\ ~In(Reader, ready')
      BY <1>2, <2>2 DEF ReaderOnce, In
    <3> QED
      BY <1>2, <1>3, <3>1 DEF ReadyOK
  <2>3. ASSUME ready' = Append(Tail(ready), Reader), reader' = "blockend"
        PROVE  ReadyOK'
    <3>1. ReaderOnce(ready')
      BY <1>2, <2>1, <2>3, OrderAppend
    <3> QED
      BY <1>2, <1>3, <2>3, <3>1 DEF ReadyOK
  <2>4. ReadyOK'
    BY <1>3, <2>2, <2>3
  <2> QED
    BY <1>1, <1>3, <2>4, QuietReplies DEF callVars
<1>4. CASE ReaderGotData
  <2>1. inbuf # <<>>
    BY <1>4 DEF ReaderGotData, IInv, ReadOK
  <2> QED
    BY <1>1, <1>4, <2>1, ReaderReads DEF ReaderGotData
<1>5. CASE ReaderGotError \/ ReaderEndsBlock
  BY <1>3, <1>5 DEF ReaderGotError, ReaderEndsBlock
<1>6. CASE ReaderLoops
  <2>1. \/ /\ inbuf # <<>> /\ inbuf' = Tail(inbuf)
           /\ HandlePiece(Head(inbuf), Tail(ready))
        \/ ready' = Tail(ready) /\ UNCHANGED <<pc, recvMsg, inbuf>>
    BY <1>6 DEF ReaderLoops
  <2> QED
    BY <1>1, <1>3, <2>1, ReaderReads
<1> QED
  BY <1>4, <1>5, <1>6

\* What the node sends moves from sent to inbuf, or is lost.
LEMMA NodeReplies ==
    ASSUME IInv, RInv, NodeAnswers
    PROVE  RInv'
<1>1. /\ sent # <<>> /\ sent' = Tail(sent)
      /\ UNCHANGED <<pc, recvMsg, result, answer>>
  BY DEF NodeAnswers
<1>2. /\ sent \in Seq(Callers) /\ inbuf \in Seq(Pieces) /\ ready \in Seq(Entries)
      /\ Reader \in Entries /\ Requests \subseteq Callers /\ NoReply \notin Requests
  BY ConnectionAssumption DEF IInv, TypeOK, Entries, Callers
<1>3. /\ OneFlying /\ ReadyOK /\ ResultsOK /\ OnlyOnce /\ Faithful
      /\ \A x : Given(x)' <=> Given(x)
      /\ \A r \in Requests : Unsent(r)' <=> Unsent(r)
  BY <1>1 DEF RInv, Given, Unsent
<1> DEFINE h == Head(sent)
           m == IF h \in Requests THEN h ELSE NoReply
<1>4. /\ \A x : In(x, sent') => In(x, sent)
      /\ In(h, sent) /\ Once(sent')
      /\ h \in Requests => ~In(h, sent')
  <2>1. Once(sent)
    BY <1>3 DEF OnlyOnce
  <2> QED
    BY <1>1, <1>2, <2>1, InTail
<1>5. m \in Pieces /\ (m \in Requests => m = h)
  BY <1>2 DEF Pieces
<1>6. Receive(m) \/ UNCHANGED <<inbuf, reader, ready>>
  BY DEF NodeAnswers
<1> HIDE DEF h, m
<1>7. /\ \A r \in Requests : In(r, inbuf') => In(r, inbuf) \/ (r = h /\ r = m)
      /\ Once(inbuf') /\ ReadyOK'
  <2>1. CASE Receive(m)
    <3>1. inbuf' = Append(inbuf, m)
      BY <2>1 DEF Receive
    <3>2. m \in Requests => ~In(m, inbuf)
      BY <1>3, <1>4, <1>5 DEF OnlyOnce
    <3>3. Once(inbuf')
      BY <1>2, <1>3, <1>5, <3>1, <3>2, InAppend DEF OnlyOnce
    <3>4. \A r \in Requests : In(r, inbuf') => In(r, inbuf) \/ r = m
      BY <1>2, <1>5, <3>1, InAppend
    <3>5. CASE reader = "reading" /\ reader' = "got" /\ ready' = Append(ready, Reader)
      <4>1. ReaderOnce(ready')
        BY <1>2, <1>3, <3>5, OrderAppend DEF ReadyOK
      <4>2. \A r : Ahead(r, ready) => Ahead(r, ready')
        BY <1>2, <3>5, OrderAppend
      <4> QED
        BY <1>1, <1>3, <1>5, <3>3, <3>4, <3>5, <4>1, <4>2 DEF ReadyOK
    <3>6. CASE UNCHANGED <<reader, ready>>
      BY <1>1, <1>3, <1>5, <3>3, <3>4, <3>6 DEF ReadyOK
    <3> QED
      BY <2>1, <3>5, <3>6 DEF Receive
  <2>2. CASE UNCHANGED <<inbuf, reader, ready>>
    BY <1>1, <1>3, <2>2 DEF ReadyOK, OnlyOnce
  <2> QED
    BY <1>6, <2>1, <2>2
<1>8. \A r \in Requests : In(r, sent') \/ In(r, inbuf') => In(r, sent) \/ In(r, inbuf)
  BY <1>4, <1>7
<1>9. OnlyOnce'
  <2>1. ASSUME NEW r \in Requests, In(r, sent') PROVE ~In(r, inbuf')
    BY <1>3, <1>4, <1>7, <2>1 DEF OnlyOnce
  <2>2. ASSUME NEW r \in Requests, In(r, sent') \/ In(r, inbuf')
        PROVE  recvMsg' # r /\ ~Given(r)' /\ ~Unsent(r)'
    BY <1>1, <1>3, <1>8, <2>2 DEF OnlyOnce
  <2>3. \A r \in Requests : Unsent(r)' => recvMsg' # r /\ ~Given(r)'
    BY <1>1, <1>3 DEF OnlyOnce
  <2>4. ASSUME NEW r \in Requests, pc'[r] = "notified"
        PROVE  recvMsg' \in Requests /\ ~Given(recvMsg)'
    BY <1>1, <1>3, <2>4 DEF OnlyOnce, Given
  <2>5. NoReplyTwice'
    BY <1>1, <1>3 DEF OnlyOnce, NoReplyTwice
  <2> QED
    BY <1>4, <1>7, <2>1, <2>2, <2>3, <2>4, <2>5 DEF OnlyOnce
<1>10. OneFlying' /\ ResultsOK'
  BY <1>1, <1>3 DEF OneFlying, Flying, ResultsOK
<1>11. Faithful'
  BY <1>1, <1>3, <1>8 DEF Faithful
<1> QED
  BY <1>7, <1>9, <1>10, <1>11 DEF RInv

\* A flushed write puts a command under way that never was before.
LEMMA FlushReplies ==
    ASSUME IInv, RInv, WriteFlushed
    PROVE  RInv'
<1> DEFINE h == Head(writeQ)
<1>1. /\ writeQ # <<>> /\ pc' = [pc EXCEPT ![h] = "written"]
      /\ ready' = Append(ready, h) /\ sent' = Append(sent, h)
      /\ UNCHANGED <<recvMsg, reader, inbuf, result, answer>>
  BY DEF WriteFlushed
<1>2. /\ pc \in [Callers -> Pcs] /\ sent \in Seq(Callers) /\ ready \in Seq(Entries)
      /\ Callers \subseteq Entries /\ Reader \notin Callers /\ Requests \subseteq Callers
  BY ConnectionAssumption DEF IInv, TypeOK, Entries, Callers
<1>3. h \in Callers /\ pc[h] = "writing"
  <2>1. writeQ \in Seq(Callers) /\ \A i \in DOMAIN writeQ : pc[writeQ[i]] = "writing"
    BY DEF IInv, TypeOK, WritesOK
  <2> QED
    BY <1>1, <2>1, HeadTail
<1> HIDE DEF h
<1>4. /\ OneFlying /\ ReadyOK /\ ResultsOK /\ OnlyOnce /\ Faithful
      /\ \A x : Given(x)' <=> Given(x)
  BY <1>1 DEF RInv, Given
<1>5. pc'[h] = "written" /\ \A d \in Callers \ {h} : pc'[d] = pc[d]
  BY <1>1, <1>2, <1>3
<1>6. h \in Requests => ~In(h, sent) /\ ~In(h, inbuf) /\ recvMsg # h /\ ~Given(h)
  BY <1>3, <1>4 DEF OnlyOnce, Unsent
<1>7. /\ \A r \in Requests : In(r, sent') <=> In(r, sent) \/ r = h
      /\ Once(sent')
  <2>1. Once(sent)
    BY <1>4 DEF OnlyOnce
  <2> QED
    BY <1>1, <1>2, <1>3, <1>6, <2>1, InAppend
<1>8. \A r \in Requests : /\ Unsent(r)' => Unsent(r) /\ r # h
                          /\ pc'[r] = "notified" => pc[r] = "notified"
  BY <1>2, <1>5 DEF Unsent
<1>9. ReadyOK'
  <2>1. h \in Entries /\ h # Reader
    BY <1>2, <1>3
  <2> QED
    BY <1>1, <1>2, <1>4, <1>8, <2>1, OrderAppend DEF ReadyOK
<1>10. OneFlying' /\ ResultsOK'
  <2>1. Flying' \subseteq Flying
    BY <1>3, <1>5 DEF Flying, FlyingPcs, HolderPcs
  <2>2. OneFlying'
    BY <1>4, <2>1 DEF OneFlying
  <2>3. ResultsOK'
    BY <1>1, <1>2, <1>3, <1>4, <1>5 DEF ResultsOK
  <2> QED
    BY <2>2, <2>3
<1>11. OnlyOnce'
  <2>1. ASSUME NEW r \in Requests, In(r, sent') PROVE ~In(r, inbuf')
    BY <1>1, <1>4, <1>6, <1>7, <2>1 DEF OnlyOnce
  <2>2. ASSUME NEW r \in Requests, In(r, sent') \/ In(r, inbuf')
        PROVE  recvMsg' # r /\ ~Given(r)' /\ ~Unsent(r)'
    BY <1>1, <1>4, <1>6, <1>7, <1>8, <2>2 DEF OnlyOnce
  <2>3. \A r \in Requests : Unsent(r)' => recvMsg' # r /\ ~Given(r)'
    BY <1>1, <1>4, <1>8 DEF OnlyOnce
  <2>4. ASSUME NEW r \in Requests, pc'[r] = "notified"
        PROVE  recvMsg' \in Requests /\ ~Given(recvMsg)'
    BY <1>1, <1>4, <1>8, <2>4 DEF OnlyOnce, Given
  <2>5. NoReplyTwice'
    BY <1>1, <1>4 DEF OnlyOnce, NoReplyTwice
  <2>6. Once(inbuf')
    BY <1>1, <1>4 DEF OnlyOnce
  <2> QED
    BY <1>7, <2>1, <2>2, <2>3, <2>4, <2>5, <2>6 DEF OnlyOnce
<1>12. Faithful'
  BY <1>1, <1>2, <1>3, <1>4, <1>5, <1>7, <1>8 DEF Faithful
<1> QED
  BY <1>9, <1>10, <1>11, <1>12 DEF RInv

\* Entries that are not the reader, behind a queue, leave its order alone.
LEMMA OrderConcat ==
    ASSUME NEW q \in Seq(Entries), NEW w \in Seq(Entries), ~In(Reader, w)
    PROVE  /\ q \o w \in Seq(Entries)
           /\ \A r : Ahead(r, q) => Ahead(r, q \o w)
           /\ ReaderOnce(q) => ReaderOnce(q \o w)
           /\ ~In(Reader, q) => ~In(Reader, q \o w)
<1> DEFINE s == q \o w
<1>1. /\ s \in Seq(Entries) /\ Len(q) \in Nat
      /\ DOMAIN q = 1..Len(q) /\ DOMAIN w = 1..Len(w) /\ Len(w) \in Nat
      /\ DOMAIN s = 1..(Len(q) + Len(w))
      /\ \A i \in 1..(Len(q) + Len(w)) :
            s[i] = IF i <= Len(q) THEN q[i] ELSE w[i - Len(q)]
  OBVIOUS
<1>2. /\ \A i \in DOMAIN q : i \in DOMAIN s /\ s[i] = q[i]
      /\ \A i \in DOMAIN s : s[i] = Reader => i \in DOMAIN q
  <2>1. \A i \in DOMAIN w : w[i] # Reader
    BY DEF In
  <2>2. ASSUME NEW i \in DOMAIN s, s[i] = Reader PROVE i \in DOMAIN q
    <3>1. CASE i <= Len(q)
      BY <1>1, <3>1
    <3>2. CASE ~(i <= Len(q))
      <4>1. i - Len(q) \in DOMAIN w /\ s[i] = w[i - Len(q)]
        BY <1>1, <3>2
      <4> QED
        BY <2>1, <2>2, <4>1
    <3> QED
      BY <3>1, <3>2
  <2>3. \A i \in DOMAIN q : i \in DOMAIN s /\ s[i] = q[i]
    BY <1>1
  <2> QED
    BY <2>2, <2>3
<1> HIDE DEF s
<1>3. \A r : Ahead(r, q) => Ahead(r, s)
  BY <1>2 DEF Ahead
<1>4. ReaderOnce(q) => ReaderOnce(s)
  BY <1>2 DEF ReaderOnce
<1>5. ~In(Reader, q) => ~In(Reader, s)
  BY <1>2 DEF In
<1> QED
  BY <1>1, <1>3, <1>4, <1>5 DEF s

\* Closing the stream fails the reads and writes and moves no reply.
LEMMA CloseReplies ==
    ASSUME IInv, RInv, CloseStream
    PROVE  RInv'
<1> DEFINE q == IF reader = "reading" THEN Append(ready, Reader) ELSE ready
           w == writeQ \o <<CloseCallback>>
<1>1. /\ reader' = IF reader = "reading" THEN "error" ELSE reader
      /\ pc' = [c \in Callers |-> IF pc[c] = "writing" THEN "writefail" ELSE pc[c]]
      /\ ready' = ready \o (IF reader = "reading" THEN <<Reader>> ELSE <<>>)
                        \o writeQ \o <<CloseCallback>>
      /\ UNCHANGED <<recvMsg, sent, inbuf, result, answer>>
  BY DEF CloseStream
<1>2. /\ ready \in Seq(Entries) /\ writeQ \in Seq(Callers) /\ ReadyOK
      /\ Reader \in Entries /\ CloseCallback \in Entries /\ Callers \subseteq Entries
      /\ Requests \subseteq Callers /\ Reader \notin Callers /\ Reader # CloseCallback
  BY ConnectionAssumption DEF IInv, TypeOK, Entries, RInv, Callers
<1>3. q \in Seq(Entries) /\ w \in Seq(Entries)
  <2>1. Append(ready, Reader) \in Seq(Entries)
    BY <1>2, Appended
  <2>2. writeQ \in Seq(Entries) /\ <<CloseCallback>> \in Seq(Entries)
    BY <1>2
  <2> QED
    BY <1>2, <2>1, <2>2, ConcatProperties
<1>4. ready' = q \o w
  <2>1. CASE reader = "reading"
    <3>1. ready \o <<Reader>> = Append(ready, Reader)
      BY <1>2
    <3>2. ready' = (Append(ready, Reader) \o writeQ) \o <<CloseCallback>>
      BY <1>1, <2>1, <3>1
    <3>3. Append(ready, Reader) \in Seq(Entries) /\ writeQ \in Seq(Entries)
          /\ <<CloseCallback>> \in Seq(Entries)
      BY <1>2, Appended
    <3> QED
      BY <2>1, <3>2, <3>3, ConcatAssociative
  <2>2. CASE reader # "reading"
    <3>1. ready \o <<>> = ready
      BY <1>2, ConcatEmptySeq
    <3>2. ready' = (ready \o writeQ) \o <<CloseCallback>>
      BY <1>1, <2>2, <3>1
    <3>3. writeQ \in Seq(Entries) /\ <<CloseCallback>> \in Seq(Entries)
      BY <1>2
    <3> QED
      BY <1>2, <2>2, <3>2, <3>3, ConcatAssociative
  <2> QED
    BY <2>1, <2>2
<1>5. ~In(Reader, w)
  <2>1. \A i \in DOMAIN writeQ : writeQ[i] # Reader
    BY <1>2
  <2>2. w = Append(writeQ, CloseCallback) /\ writeQ \in Seq(Entries)
    BY <1>2
  <2>3. ~In(Reader, writeQ)
    BY <2>1 DEF In
  <2>4. CloseCallback \in Entries /\ CloseCallback # Reader
    BY <1>2
  <2>5. \A x : In(x, Append(writeQ, CloseCallback)) <=> In(x, writeQ) \/ x = CloseCallback
    BY <2>2, <2>4, InAppend
  <2> QED
    BY <2>2, <2>3, <2>4, <2>5
<1>6. /\ ReaderOnce(q) /\ (\A r : Ahead(r, ready) => Ahead(r, q))
      /\ reader' \in {"reading", "dead"} => ~In(Reader, q)
  <2>1. CASE reader = "reading"
    BY <1>1, <1>2, <2>1, OrderAppend DEF ReadyOK
  <2>2. CASE reader # "reading"
    BY <1>1, <1>2, <2>2 DEF ReadyOK
  <2> QED
    BY <2>1, <2>2
<1> HIDE DEF q, w
<1>7. \A d \in Callers : \/ pc'[d] = pc[d]
                         \/ pc[d] = "writing" /\ pc'[d] = "writefail"
  BY <1>1
<1>8. ReadyOK'
  BY <1>2, <1>3, <1>4, <1>5, <1>6, <1>7, OrderConcat DEF ReadyOK
<1> QED
  BY <1>1, <1>7, <1>8, QuietReplies

\* The remaining steps leave the order of the callbacks alone.
LEMMA OtherReplies ==
    ASSUME IInv, RInv,
           \/ \E r \in Requests : CondTimeout(r)
           \/ KillMyself \/ OnClose \/ UNCHANGED vars
    PROVE  RInv'
<1>1. /\ pc \in [Callers -> Pcs] /\ ready \in Seq(Entries) /\ semQ \in Seq(Callers)
      /\ Requests \subseteq Callers /\ Callers \subseteq Entries
      /\ Reader \notin Callers /\ Reader # CloseCallback /\ CloseCallback \notin Callers
      /\ ReadyOK /\ \A i \in DOMAIN semQ : pc[semQ[i]] = "queued"
  BY ConnectionAssumption DEF IInv, TypeOK, Entries, Callers, RInv, QueuedOK
<1>2. ASSUME NEW r \in Requests, CondTimeout(r) PROVE RInv'
  <2>1. /\ pc[r] = "waiting" /\ pc' = [pc EXCEPT ![r] = "timedout"]
        /\ ready' = Append(ready, r)
        /\ UNCHANGED <<reader, recvMsg, sent, inbuf, result, answer>>
    BY <1>2 DEF CondTimeout
  <2>2. \A d \in Callers : \/ pc'[d] = pc[d]
                           \/ pc[d] = "waiting" /\ pc'[d] = "timedout"
    BY <1>1, <2>1
  <2>3. r \in Entries /\ r # Reader
    BY <1>1
  <2>4. ReadyOK'
    BY <1>1, <2>1, <2>2, <2>3, OrderAppend DEF ReadyOK
  <2> QED
    BY <2>1, <2>2, <2>4, QuietReplies
<1>3. ASSUME UNCHANGED <<pc, ready, reader, recvMsg, sent, inbuf, result, answer>>
      PROVE  RInv'
  <2>1. ReadyOK'
    BY <1>1, <1>3 DEF ReadyOK
  <2> QED
    BY <1>3, <2>1, QuietReplies
<1>4. CASE KillMyself
  BY <1>3, <1>4, CloseReplies DEF KillMyself
<1>5. CASE OnClose
  <2> DEFINE rest == Tail(ready)
  <2>1. /\ ready # <<>> /\ Head(ready) = CloseCallback
        /\ Release(pc, sem, rest)
        /\ UNCHANGED <<reader, recvMsg, sent, inbuf, result, answer>>
    BY <1>5 DEF OnClose, Running
  <2>2. /\ rest \in Seq(Entries) /\ ReaderOnce(rest)
        /\ reader \in {"reading", "dead"} => ~In(Reader, rest)
        /\ \A r \in Requests : pc[r] = "notified" => Ahead(r, rest)
    BY <1>1, <2>1, HeadTail, InTail, OrderTail DEF ReadyOK
  <2> HIDE DEF rest
  <2>3. CASE pc' = pc /\ ready' = rest
    <3>1. ReadyOK'
      BY <2>1, <2>2, <2>3 DEF ReadyOK
    <3> QED
      BY <2>1, <2>3, <3>1, QuietReplies
  <2>4. CASE /\ semQ # <<>> /\ pc' = [pc EXCEPT ![Head(semQ)] = "granted"]
             /\ ready' = Append(rest, Head(semQ))
    <3>1. Head(semQ) \in Callers /\ pc[Head(semQ)] = "queued"
      BY <1>1, <2>4, HeadTail
    <3>2. \A d \in Callers : \/ pc'[d] = pc[d]
                             \/ pc[d] = "queued" /\ pc'[d] = "granted"
      BY <1>1, <2>4, <3>1
    <3>3. Head(semQ) \in Entries /\ Head(semQ) # Reader
      BY <1>1, <3>1
    <3>4. ReadyOK'
      BY <1>1, <2>1, <2>2, <2>4, <3>2, <3>3, OrderAppend DEF ReadyOK
    <3> QED
      BY <2>1, <3>2, <3>4, QuietReplies
  <2> QED
    BY <2>1, <2>3, <2>4 DEF Release
<1>6. CASE UNCHANGED vars
  BY <1>3, <1>6 DEF vars
<1> QED
  BY <1>2, <1>4, <1>5, <1>6

\* A connection that has just been authenticated has no reply anywhere.
LEMMA InitReplies ==
    ASSUME Init
    PROVE  RInv
<1>1. /\ ready = <<>> /\ pc = [c \in Callers |-> "idle"] /\ recvMsg = NoReply
      /\ reader = "reading" /\ sent = <<>> /\ inbuf = <<>>
      /\ result = [c \in Callers |-> "none"]
  BY DEF Init
<1>2. Requests \subseteq Callers /\ NoReply \notin Requests
  BY ConnectionAssumption DEF Callers
<1>3. DOMAIN ready = {} /\ DOMAIN sent = {} /\ DOMAIN inbuf = {}
  BY <1>1
<1>4. /\ \A r \in Requests : pc[r] = "idle" /\ result[r] = "none"
      /\ Flying = {} /\ \A m : ~Given(m)
  BY <1>1, <1>2 DEF Flying, FlyingPcs, HolderPcs, Given
<1>5. OneFlying /\ ResultsOK
  BY <1>4 DEF OneFlying, ResultsOK
<1>6. ReadyOK
  BY <1>3, <1>4 DEF ReadyOK, ReaderOnce, In
<1>7. OnlyOnce
  BY <1>1, <1>2, <1>3, <1>4 DEF OnlyOnce, Once, In, NoReplyTwice
<1>8. Faithful
  BY <1>3, <1>4 DEF Faithful, In
<1> QED
  BY <1>5, <1>6, <1>7, <1>8 DEF RInv

\* Every step keeps every reply in its one place.
LEMMA RepliesKept ==
    ASSUME IInv, RInv, [Next]_vars
    PROVE  RInv'
<1>1. ASSUME NEW c \in Callers,
             \/ c \in Requests /\ (SubmitAndWaitResp(c) \/ ResumeWaiting(c))
             \/ c \in Commands /\ SubmitCmd(c)
             \/ ResumeGranted(c) \/ ResumeWritten(c)
      PROVE  RInv'
  BY <1>1, CallMoves, MovesKeep
<1>2. Requests \subseteq Callers /\ Commands \subseteq Callers
  BY DEF Callers
<1>3. CASE ReaderGotData \/ ReaderGotError \/ ReaderEndsBlock \/ ReaderLoops
  BY <1>3, ReaderReplies
<1>4. CASE (\E r \in Requests : CondTimeout(r)) \/ KillMyself \/ OnClose \/ UNCHANGED vars
  BY <1>4, OtherReplies
<1>5. CASE NodeAnswers \/ WriteFlushed \/ PeerCloses
  BY <1>5, NodeReplies, FlushReplies, CloseReplies DEF PeerCloses
<1> QED
  BY <1>1, <1>2, <1>3, <1>4, <1>5 DEF Next, RunCallback

\* For any number of requests and commands, and whatever the node does, the
\* replies are never in two places, nor read by two requests.
THEOREM RepliesInPlace == Spec => []RInv
<1>1. Init => RInv
  BY InitReplies
<1>2. IInv /\ RInv /\ [Next]_vars => RInv'
  BY RepliesKept
<1> QED
  BY <1>1, <1>2, Invariant, PTL DEF Spec

\* A reply goes to at most one request and, while no request has timed out, to
\* the one whose command it answers.
THEOREM RightReply == Spec => []ReplyBelongs
<1>1. RInv => ReplyBelongs
  BY DEF RInv, OnlyOnce, Faithful, ReplyBelongs, ForeignReplyOnlyAfterTimeout
<1> QED
  BY <1>1, RepliesInPlace, PTL

\* The reader overwrites recv_msg only when the request it woke has read it.
THEOREM ReadBeforeOverwritten == Spec => NoOverwriteBeforeRead
<1>1. ASSUME IInv, RInv, [Next]_vars
      PROVE  [recvMsg' # recvMsg => \A r \in Requests : pc[r] # "notified"]_vars
  <2> SUFFICES ASSUME Next, recvMsg' # recvMsg
               PROVE  \A r \in Requests : pc[r] # "notified"
    BY <1>1 DEF vars
  <2>1. ASSUME NEW c \in Callers,
               \/ c \in Requests /\ (SubmitAndWaitResp(c) \/ ResumeWaiting(c))
               \/ c \in Commands /\ SubmitCmd(c)
               \/ ResumeGranted(c) \/ ResumeWritten(c)
        PROVE  FALSE
    BY <1>1, <2>1, CallMoves DEF Moves
  <2>2. Requests \subseteq Callers /\ Commands \subseteq Callers
    BY DEF Callers
  <2>3. ReaderGotData \/ ReaderGotError \/ ReaderEndsBlock \/ ReaderLoops
    BY <2>1, <2>2 DEF Next, RunCallback, OnClose, CondTimeout, NodeAnswers,
       WriteFlushed, PeerCloses, CloseStream, KillMyself
  <2>4. Running(Reader)
    BY <2>3 DEF ReaderGotData, ReaderGotError, ReaderEndsBlock, ReaderLoops
  <2> QED
    BY <1>1, <2>4, ReaderRuns
<1> QED
  BY <1>1, Invariant, RepliesInPlace, PTL DEF Spec, NoOverwriteBeforeRead
=============================================================================
