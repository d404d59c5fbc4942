------------------------------ MODULE StreamText ------------------------------
(***************************************************************************)
(* Numbers and texts through a stream (Print.cpp, Stream.cpp): one side    *)
(* prints; the other one searches, parses and reads, and waits for each    *)
(* byte for a while.  Bytes arrive one by one and time passes at any       *)
(* moment.  Characters are their codes; a float is an integer of Units     *)
(* when it is printed, and its digits and decimals when it is parsed.      *)
(***************************************************************************)
EXTENDS Integers, SequencesExt

CONSTANTS
    Word,       \* 2^32, for a long
    Round,      \* millis() counts to this
    Timeout,    \* _timeout
    Unit,       \* of a float that is printed; a power of ten
    Ovf,        \* the whole part from which on a float is not printed, 4294967040
    Plans       \* what is printed, the calls of the reader, and how much time passes

StreamTextAssumption ==
    /\ {Word, Round, Timeout, Unit, Ovf} \subseteq Nat /\ Timeout < Round
    /\ \A p \in Plans : DOMAIN p = {"prints", "calls", "ticks"}

VARIABLES
    wire,       \* bytes that are on their way
    rx,         \* bytes that have arrived
    clock,      \* millis()
    call,       \* the call of the reader
    plan,
    seen        \* what was printed, and parsed; the last call; whether one has timed out

vars == <<wire, rx, clock, call, plan, seen>>

Minus == 45
Point == 46
IsDigit(c) == c \in 48..57
NoCall == [kind |-> "none"]

Init ==
    /\ wire = <<>> /\ rx = <<>> /\ clock = 0
    /\ call = NoCall
    /\ plan \in Plans
    /\ seen = [printed |-> <<>>, parsed |-> <<>>, last |-> <<>>, late |-> FALSE, early |-> FALSE]

-----------------------------------------------------------------------------
(* Print.                                                                   *)

Unsigned(n) == n % Word
Signed(n) == IF n % Word >= Word \div 2 THEN (n % Word) - Word ELSE n % Word

\* printNumber; a base that is none is 10, digits above Z are what comes there.
RECURSIVE Digits(_, _)
Digits(n, base) ==
    (IF n < base THEN <<>> ELSE Digits(n \div base, base)) \o
    <<(n % base) + (IF n % base < 10 THEN 48 ELSE 55)>>
PrintNumber(n, base) == Digits(Unsigned(n), IF base < 2 THEN 10 ELSE base)

\* print of a long: only to the base 10 it has a sign.
PrintLong(n, base) ==
    CASE base = 0             -> <<n % 256>>
      [] base = 10 /\ n < 0   -> <<Minus>> \o PrintNumber(-n, 10)
      [] OTHER                -> PrintNumber(n, base % 256)

\* printFloat: half a unit of the last digit is added and the rest is cut off.
PrintFloat(n, digits) ==
    LET size == IF n < 0 THEN -n ELSE n
        whole == 2 * Unit * 10^digits
        parts == size * 2 * 10^digits + Unit
        Decimal(i) == 48 + (((parts * 10^i) \div whole) % 10)
    IN  IF size > Ovf * Unit THEN <<111, 118, 102>>
        ELSE (IF n < 0 THEN <<Minus>> ELSE <<>>) \o PrintNumber(parts \div whole, 10) \o
             (IF digits > 0 THEN <<Point>> ELSE <<>>) \o [i \in 1..digits |-> Decimal(i)]

Text(p) ==
    CASE p.kind = "long"  -> PrintLong(p.n, p.base)
      [] p.kind = "float" -> PrintFloat(p.n, p.digits)
      [] p.kind = "text"  -> p.text

\* print of a text, println of a number.
PrintNext ==
    /\ plan.prints # <<>>
    /\ LET p == Head(plan.prints)
       IN  /\ wire' = wire \o Text(p) \o (IF p.kind = "text" THEN <<>> ELSE <<13, 10>>)
           /\ seen' = [seen EXCEPT !.printed = Append(@, p)]
    /\ plan' = [plan EXCEPT !.prints = Tail(@)]
    /\ UNCHANGED <<rx, clock, call>>

Arrive ==
    /\ wire # <<>>
    /\ wire' = Tail(wire) /\ rx' = Append(rx, Head(wire))
    /\ UNCHANGED <<clock, call, plan, seen>>

Tick ==
    /\ plan.ticks > 0
    /\ clock' = (clock + 1) % Round
    /\ plan' = [plan EXCEPT !.ticks = @ - 1]
    /\ call' = IF call = NoCall THEN call ELSE [call EXCEPT !.age = @ + 1]
    /\ UNCHANGED <<wire, rx, seen>>

-----------------------------------------------------------------------------
(* Stream: timedRead and timedPeek, and what each call makes of a byte.     *)

\* The call with its own variables: the text or number so far, the places in the target and
\* the terminator, the start of the wait, whether a read found nothing.
Begin ==
    /\ call = NoCall /\ plan.calls # <<>>
    /\ call' = [do |-> Head(plan.calls), kind |-> Head(plan.calls).kind, out |-> <<>>, value |-> 0,
                neg |-> FALSE, skips |-> TRUE, point |-> FALSE, decimals |-> 0, index |-> 0,
                term |-> 0, taken |-> <<>>, start |-> clock, missed |-> FALSE, age |-> 0]
    /\ plan' = [plan EXCEPT !.calls = Tail(@)]
    /\ UNCHANGED <<wire, rx, clock, seen>>

\* findUntil; the end of a text cannot be searched for, a zero ends the search.
Matched(c, text, i) == IF c = text[i + 1] THEN i + 1 ELSE 0
FindByte(k, c) ==
    LET index == IF Matched(c, k.do.target, k.index) > 0 THEN k.index + 1
                 ELSE Matched(c, k.do.target, 0)
        term == IF k.do.term = <<>> THEN 0 ELSE Matched(c, k.do.term, k.term)
    IN  [k EXCEPT !.index = index, !.term = term]
FindOver(k, c) ==
    c = 0 \/ k.index = Len(k.do.target) \/ (k.do.term # <<>> /\ k.term = Len(k.do.term))

\* parseInt and parseFloat.
StartsNumber(c) == c = Minus \/ IsDigit(c)
InNumber(k, c) == IsDigit(c) \/ c = k.do.skip \/ (k.kind = "float" /\ c = Point)
NumberByte(k, c) ==
    IF c = k.do.skip THEN [k EXCEPT !.skips = FALSE]
    ELSE CASE c = Minus  -> [k EXCEPT !.skips = FALSE, !.neg = TRUE]
           [] c = Point  -> [k EXCEPT !.skips = FALSE, !.point = TRUE]
           [] IsDigit(c) -> [k EXCEPT !.skips = FALSE, !.value = Signed(@ * 10 + c - 48),
                                      !.decimals = @ + (IF k.point THEN 1 ELSE 0)]
Number(k) ==
    <<Signed(IF k.neg THEN -k.value ELSE k.value), k.decimals>>

Answer(k) ==
    CASE k.kind = "find"            -> k.index = Len(k.do.target)
      [] k.kind \in {"int", "float"} -> Number(k)
      [] OTHER                      -> k.out

\* What a byte does to the call: the call after it, whether the byte is consumed, and
\* whether the call is over.
After(k, c) ==
    CASE k.kind = "find" ->
            LET n == IF c = 0 THEN k ELSE FindByte(k, c) IN <<n, TRUE, FindOver(n, c)>>
      [] k.kind \in {"int", "float"} ->
            IF k.skips THEN IF StartsNumber(c) THEN <<NumberByte(k, c), TRUE, FALSE>>
                            ELSE <<k, TRUE, FALSE>>
            ELSE IF InNumber(k, c) THEN <<NumberByte(k, c), TRUE, FALSE>>
            ELSE <<k, FALSE, TRUE>>
      [] k.kind = "bytes" ->
            <<[k EXCEPT !.out = Append(@, c)], TRUE, Len(k.out) + 1 = k.do.n>>
      [] k.kind \in {"until", "string until"} ->
            IF c = k.do.skip THEN <<k, TRUE, TRUE>>
            ELSE <<[k EXCEPT !.out = Append(@, c)], TRUE,
                   k.kind = "until" /\ Len(k.out) + 1 = k.do.n>>
      [] k.kind = "string" -> <<[k EXCEPT !.out = Append(@, c)], TRUE, FALSE>>

\* A call that has nothing to read: an empty target, no room.
AtOnce(k) ==
    \/ k.kind = "find" /\ k.do.target = <<>>
    \/ k.kind \in {"bytes", "until"} /\ k.do.n = 0

Over(k, late) ==
    /\ call' = NoCall
    /\ seen' = [seen EXCEPT
          !.last = [do |-> k.do, taken |-> k.taken, next |-> rx', answer |-> Answer(k),
                    late |-> late],
          !.parsed = IF k.kind \in {"int", "float"} THEN Append(@, Number(k)) ELSE @,
          !.late = @ \/ late, !.early = @ \/ (late /\ k.age < Timeout)]

Ends ==
    /\ call # NoCall /\ AtOnce(call)
    /\ UNCHANGED <<wire, rx, clock, plan>>
    /\ Over(call, FALSE)

\* read() or peek() has found a byte.
Take ==
    /\ call # NoCall /\ ~AtOnce(call) /\ ~call.missed /\ rx # <<>>
    /\ \E a \in {After(call, Head(rx))} :
        LET k == [a[1] EXCEPT !.taken = IF a[2] THEN Append(@, Head(rx)) ELSE @,
                              !.start = clock, !.age = 0]
        IN  /\ rx' = IF a[2] THEN Tail(rx) ELSE rx
            /\ IF a[3] THEN Over(k, FALSE) ELSE call' = k /\ UNCHANGED seen
    /\ UNCHANGED <<wire, clock, plan>>

\* It has found none, and yields; the clock is looked at afterwards.
Miss ==
    /\ call # NoCall /\ ~AtOnce(call) /\ ~call.missed /\ rx = <<>>
    /\ call' = [call EXCEPT !.missed = TRUE]
    /\ UNCHANGED <<wire, rx, clock, plan, seen>>

Look ==
    /\ call # NoCall /\ call.missed
    /\ UNCHANGED <<wire, rx, clock, plan>>
    /\ IF (clock + Round - call.start) % Round < Timeout
       THEN call' = [call EXCEPT !.missed = FALSE] /\ UNCHANGED seen
       ELSE Over(call, TRUE)

Next == PrintNext \/ Arrive \/ Tick \/ Begin \/ Ends \/ Take \/ Miss \/ Look

Spec == Init /\ [][Next]_vars

-----------------------------------------------------------------------------
(* Properties.                                                             *)

\* The places at which a text begins in another one.
PlacesOf(t, text) == {i \in 1..(Len(text) + 1 - Len(t)) : SubSeq(text, i, i + Len(t) - 1) = t}

\* find() ends with the target, or with the terminator, a zero or a timeout; it has run
\* past a target only if the target's first character comes again in it, and past a
\* terminator only behind a character that could have been its first.
FindRight(r) ==
    LET t == r.do.target
        e == r.do.term
    IN  /\ r.answer => IsSuffix(t, r.taken)
        /\ ~r.answer => r.late \/ Last(r.taken) = 0 \/ (e # <<>> /\ IsSuffix(e, r.taken))
        /\ \A i \in PlacesOf(t, r.taken) :
            i + Len(t) - 1 < Len(r.taken) => t[1] \in ToSet(Tail(t))
        /\ e # <<>> => \A i \in PlacesOf(e, r.taken) :
            i + Len(e) - 1 < Len(r.taken) => i > 1 /\ r.taken[i - 1] \in ToSet(Front(e))

\* parseInt() and parseFloat() give the number that is written from the first digit or minus
\* sign on, modulo the word; a point before it does not count, nor does a second one.
ValueOf(digits) == FoldLeft(LAMBDA v, c : v * 10 + c - 48, 0, digits)
NumberRight(r) ==
    LET first == SelectInSeq(r.taken, StartsNumber)
        body == IF first = 0 THEN <<>> ELSE SubSeq(r.taken, first, Len(r.taken))
        digits == SelectSeq(body, IsDigit)
        point == SelectInSeq(body, LAMBDA c : c = Point)
        decimals == IF point = 0 THEN 0
                    ELSE Len(SelectSeq(SubSeq(body, point, Len(body)), IsDigit))
        size == ValueOf(digits)
    IN  /\ r.answer = <<Signed(IF body # <<>> /\ body[1] = Minus THEN -size ELSE size), decimals>>
        /\ ~r.late => r.next # <<>> /\ ~IsDigit(r.next[1])

\* readBytes() and its relatives give what they take, but for the terminator.
BytesRight(r) ==
    /\ r.taken \in {r.answer, Append(r.answer, r.do.skip)}
    /\ r.do.kind \in {"until", "string until"} => r.do.skip \notin ToSet(r.answer)
    /\ r.late \/ r.taken # r.answer \/ Len(r.answer) = r.do.n

\* What println() sends of a long to the base 10 or of a float is what parseInt() and
\* parseFloat() make of it on the other side, one after the other and rounded to the digits
\* that were asked for, if no call has timed out and the digits fit in a long.
Rounded(p) ==
    LET size == IF p.n < 0 THEN -p.n ELSE p.n
        q == (2 * size * 10^p.digits + Unit) \div (2 * Unit)
    IN  IF p.n < 0 THEN -q ELSE q
Sent(p, got) ==
    CASE p.kind = "long"  -> p.base = 10 => got = <<p.n, 0>>
      [] p.kind = "float" -> \/ Signed(Rounded(p)) # Rounded(p)
                             \/ p.n > Ovf * Unit \/ p.n < -Ovf * Unit
                             \/ got = <<Rounded(p), p.digits>>
      [] p.kind = "text"  -> TRUE

\* A call gives up only when it has waited long enough for a byte.
StreamsRight ==
    /\ ~seen.early
    /\ seen.last # <<>> =>
        LET r == seen.last
        IN  CASE r.do.kind = "find"            -> r.do.target = <<>> \/ FindRight(r)
              [] r.do.kind \in {"int", "float"} -> NumberRight(r)
              [] OTHER                         -> BytesRight(r)
    /\ ~seen.late /\ (\A p \in ToSet(seen.printed) : p.kind # "text") =>
        \A i \in 1..Len(seen.parsed) : Sent(seen.printed[i], seen.parsed[i])
=============================================================================
