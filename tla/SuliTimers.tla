------------------------------ MODULE SuliTimers ------------------------------
(***************************************************************************)
(* The hardware timers of Suli (suli2.cpp): timers in one list, the ticks  *)
(* of each counted from the firing of the one before it, and timer 0 of    *)
(* the chip set for the head.  Timers are installed and removed by the     *)
(* main program, fired by the interrupt, and a callback may do either.     *)
(*                                                                         *)
(* The unit of time is the 80 ticks that a second timer of the same moment *)
(* is delayed; the chip's counter comes round after Round of them.         *)
(***************************************************************************)
EXTENDS Naturals, SequencesExt, FiniteSetsExt

CONSTANTS
    Timers,     \* TIMER_T entries, 1..n
    Intervals,
    Round,      \* the period of the counter of timer 0
    Idle,       \* the timeout of an empty list
    Plans       \* bounds on what the program and the callbacks do

Null == 0

TimersAssumption ==
    /\ Timers \subseteq Nat \ {Null} /\ Intervals \subseteq 1..(Idle - 1)
    /\ Idle < Round /\ Round \in Nat
    /\ Plans \subseteq [installs : Nat, removes : Nat, changes : Nat,
                        callbacks : SUBSET {"none", "again", "remove self", "remove other"}]

VARIABLES
    head,     \* __timer_list_head
    entry,    \* the entries' fields
    timer0,   \* compare register, whether its interrupt is enabled and pending
    main,     \* what the main program is doing with the list
    plan,     \* what is left of the plan
    seen      \* each timer's time since it was installed or fired; what went wrong

vars == <<head, entry, timer0, main, plan, seen>>

Idling == [step |-> "idle", timer |-> Null, newHead |-> FALSE]

Init ==
    /\ head = Null
    /\ entry = [t \in Timers |-> [interval |-> 0, fire |-> 0, prev |-> Null, next |-> Null, repeat |-> FALSE]]
    /\ timer0 = [left |-> Round, on |-> FALSE, pending |-> FALSE]
    /\ main = Idling
    /\ plan \in Plans
    /\ seen = [age |-> [t \in Timers |-> 0], want |-> [t \in Timers |-> 0],
               installed |-> {}, first |-> TRUE, crashed |-> FALSE,
               early |-> FALSE, excuses |-> {}]

-----------------------------------------------------------------------------
(* The list.                                                                *)

\* The entries from the head on.
Chain(h, e) ==
    LET c[k \in 0..Cardinality(Timers)] ==
            IF k = 0 THEN h ELSE IF c[k - 1] = Null THEN Null ELSE e[c[k - 1]].next
    IN  SelectSeq([k \in 1..Cardinality(Timers) |-> c[k - 1]], LAMBDA t : t # Null)

\* The time at which the first k of a chain have fired.
Due(e, c, k) == FoldLeft(LAMBDA sum, t : (sum + e[t].fire) % Round, 0, SubSeq(c, 1, k))

\* 80 ticks if the moment is taken.
Apart(dt) == IF dt = 0 THEN 1 ELSE dt

\* Mutant: the time of the next entry stays as it was.
NotShortened(fire, by) == fire

\* What is left of an entry's time behind an inserted one, a 32 bit difference.
Shortened(fire, by) == (fire + Round - by) % Round

\* __suli_timer_insert_entry
InsertEntry(h, e, s) ==
    LET c == Chain(h, e)
        d == e[s].interval
        stops == {k \in DOMAIN c : c[k] = s \/ d < Due(e, c, k)}
        result(nh, ne, new) == [head |-> nh, entry |-> ne, newHead |-> new]
    IN  IF h = Null
        THEN result(s, [e EXCEPT ![s].prev = Null, ![s].next = Null, ![s].fire = d], TRUE)
        ELSE IF stops = {}
        THEN LET last == c[Len(c)]
             IN  result(h, [e EXCEPT ![s].fire = Apart(d - Due(e, c, Len(c))), ![s].next = Null,
                                     ![s].prev = last, ![last].next = s], FALSE)
        ELSE LET k == Min(stops)
                 pt == c[k]
                 p == e[pt].prev
                 fire == IF p = Null THEN d ELSE Apart(e[pt].fire + d - Due(e, c, k))
                 linked == [e EXCEPT ![s].fire = fire, ![s].prev = p, ![s].next = pt,
                                     ![pt].fire = Shortened(@, fire), ![pt].prev = s]
             IN  CASE pt = s -> result(h, e, FALSE)
                   [] pt # s /\ p = Null -> result(s, linked, TRUE)
                   [] OTHER -> result(h, [linked EXCEPT ![p].next = s], FALSE)

\* suli_timer_remove, uninterrupted.
Unlink(h, e, t) ==
    LET p == e[t].prev
        n == e[t].next
        f == [x \in Timers |->
                [e[x] EXCEPT !.next = IF x = p THEN n ELSE @,
                             !.prev = IF x = n THEN p ELSE @,
                             !.fire = IF x = n THEN (@ + e[t].fire) % Round ELSE @]]
    IN  IF t \in ToSet(Chain(h, e)) THEN [head |-> IF p = Null THEN n ELSE h, entry |-> f]
        ELSE [head |-> h, entry |-> e]

\* __suli_timer_set_timeout_ticks: a compare value that is already past is met when
\* the counter comes round.
Timeout(ticks) == [timer0 EXCEPT !.left = IF ticks = 0 THEN Round ELSE ticks, !.pending = FALSE]

Listed == ToSet(Chain(head, entry))

-----------------------------------------------------------------------------
(* The main program.                                                        *)

Running == ~seen.crashed

\* suli_timer_install up to the insertion; the first one starts timer 0.  It does not
\* matter which of the entries that are not installed it is.
Install ==
    /\ Running /\ main = Idling /\ plan.installs > 0 /\ seen.installed # Timers
    /\ \E t \in {Min(Timers \ seen.installed)}, d \in Intervals, repeat \in BOOLEAN :
        /\ entry' = [entry EXCEPT ![t].interval = d, ![t].repeat = repeat]
        /\ main' = [step |-> "insert", timer |-> t, newHead |-> FALSE]
        /\ timer0' = IF seen.first THEN [Timeout(Idle) EXCEPT !.on = FALSE]
                     ELSE [timer0 EXCEPT !.on = FALSE]
        /\ seen' = [seen EXCEPT !.installed = @ \cup {t}, !.first = FALSE]
    /\ plan' = [plan EXCEPT !.installs = @ - 1]
    /\ UNCHANGED head

\* A third timer of one moment, from which on times in the list are 0 or come round.
Third(h, e) == IF \E t \in ToSet(Chain(h, e)) \ {h} : e[t].fire = 0 \/ e[t].fire > Idle
               THEN {"third"} ELSE {}

\* Time that has passed for the head is not seen by an insertion.
Eaten == IF Listed # {} /\ timer0.left # entry[head].fire THEN {"eaten"} ELSE {}

Insert ==
    /\ main.step = "insert"
    /\ LET r == InsertEntry(head, entry, main.timer)
       IN  /\ head' = r.head /\ entry' = r.entry
           /\ main' = [main EXCEPT !.step = "start", !.newHead = r.newHead]
           /\ seen' = [seen EXCEPT !.age[main.timer] = 0, !.want[main.timer] = entry[main.timer].interval,
                                   !.excuses = @ \cup Eaten \cup Third(r.head, r.entry)]
    /\ timer0' = [timer0 EXCEPT !.on = TRUE]
    /\ UNCHANGED plan

\* The end of suli_timer_install.
StartHead ==
    /\ Running /\ main.step = "start"
    /\ main' = Idling
    /\ IF main.newHead
       THEN IF head = Null THEN seen' = [seen EXCEPT !.crashed = TRUE] /\ UNCHANGED timer0
            ELSE timer0' = Timeout(entry[head].fire) /\ UNCHANGED seen
       ELSE UNCHANGED <<timer0, seen>>
    /\ UNCHANGED <<head, entry, plan>>

\* suli_timer_remove: the interrupt may come after the entry has been found and
\* between its unlinking on either side.
StartRemove ==
    /\ Running /\ main = Idling /\ plan.removes > 0
    /\ \E t \in Listed : main' = [step |-> "unlink", timer |-> t, newHead |-> FALSE]
    /\ plan' = [plan EXCEPT !.removes = @ - 1]
    /\ UNCHANGED <<head, entry, timer0, seen>>

UnlinkBefore ==
    /\ Running /\ main.step = "unlink"
    /\ LET t == main.timer
           p == entry[t].prev
       IN  IF p # Null
           THEN entry' = [entry EXCEPT ![p].next = entry[t].next] /\ UNCHANGED head
           ELSE head' = entry[t].next /\ UNCHANGED entry
    /\ seen' = [seen EXCEPT !.excuses = @ \cup (IF entry[main.timer].prev = Null THEN {"head"} ELSE {})]
    /\ main' = [main EXCEPT !.step = "unlink next"]
    /\ UNCHANGED <<timer0, plan>>

UnlinkAfter ==
    /\ Running /\ main.step = "unlink next"
    /\ LET t == main.timer
           n == entry[t].next
       IN  entry' = IF n = Null THEN entry
                    ELSE [entry EXCEPT ![n].prev = entry[t].prev,
                                       ![n].fire = (@ + entry[t].fire) % Round]
    /\ main' = Idling
    /\ seen' = [seen EXCEPT !.installed = @ \ {main.timer}]
    /\ UNCHANGED <<head, timer0, plan>>

\* suli_timer_control_interval: from the next firing on.
ControlInterval ==
    /\ Running /\ main = Idling /\ plan.changes > 0
    /\ \E t \in Listed, d \in Intervals :
        entry[t].interval # d /\ entry' = [entry EXCEPT ![t].interval = d]
    /\ plan' = [plan EXCEPT !.changes = @ - 1]
    /\ UNCHANGED <<head, timer0, main, seen>>

-----------------------------------------------------------------------------
(* The interrupt.                                                           *)

\* What a callback of t does: installs its own timer again, removes it, removes another.
AfterCallback(t, what) ==
    CASE what = "again" ->
            {InsertEntry(head, [entry EXCEPT ![t].interval = d], t) : d \in Intervals}
      [] what = "remove self" -> {Unlink(head, entry, t)}
      [] what = "remove other" -> {Unlink(head, entry, o) : o \in Listed \ {t}}
      [] OTHER -> {[head |-> head, entry |-> entry]}

\* Mutant: the new head keeps its link to the old one.
PopKeepsLink(h, e) ==
    LET n == e[h].next
    IN  IF e[h].repeat THEN InsertEntry(n, e, h) ELSE [head |-> n, entry |-> e]

\* The head leaves the list, and returns to it if it repeats.
Pop(h, e) ==
    LET n == e[h].next
        popped == IF n = Null THEN e ELSE [e EXCEPT ![n].prev = Null]
    IN  IF e[h].repeat THEN InsertEntry(n, popped, h) ELSE [head |-> n, entry |-> popped]

\* What is seen of the firing of t, when its callback has left the list as r.
Fired(t, what, r) ==
    [seen EXCEPT
        !.age = [x \in Timers |-> IF x \in {t, r.head} THEN 0 ELSE @[x]],
        !.want = [x \in Timers |-> IF x \in {t, r.head} THEN r.entry[x].interval ELSE @[x]],
        !.early = @ \/ seen.age[t] < seen.want[t],
        !.installed = (@ \ (Listed \ ToSet(Chain(r.head, r.entry)))) \
                       (IF entry[t].repeat \/ what = "again" THEN {} ELSE {t}),
        !.excuses = @ \cup (IF what = "none" THEN {} ELSE {what})
                      \cup (IF main = Idling THEN {} ELSE {"between"})]

\* __suli_timer_isr
Isr ==
    /\ Running /\ timer0.on /\ timer0.pending
    /\ IF head = Null
       THEN timer0' = Timeout(Idle) /\ UNCHANGED <<head, entry, plan, seen>>
       ELSE \E what \in plan.callbacks : \E r \in AfterCallback(head, what) :
                /\ plan' = IF what = "none" THEN plan ELSE [plan EXCEPT !.callbacks = {"none"}]
                /\ IF r.head = Null
                   THEN seen' = [seen EXCEPT !.crashed = TRUE, !.excuses = @ \cup {what}]
                        /\ UNCHANGED <<head, entry, timer0>>
                   ELSE LET p == Pop(r.head, r.entry)
                        IN  /\ head' = p.head /\ entry' = p.entry
                            /\ timer0' = Timeout(IF p.head = Null THEN Idle ELSE p.entry[p.head].fire)
                            /\ seen' = [Fired(head, what, r) EXCEPT !.excuses = @ \cup Third(p.head, p.entry)]
    /\ UNCHANGED main

\* Too late for any timer.
Long == Max(Intervals) + Cardinality(Timers) + 1

\* The counter goes on; the compare value may be met while the main program is busy
\* with the list.
Tick ==
    /\ Running /\ ~(timer0.on /\ timer0.pending) /\ ~seen.first
    /\ main = Idling \/ timer0.left = 1
    /\ timer0' = [timer0 EXCEPT !.left = IF @ = 1 THEN Round ELSE @ - 1, !.pending = @ \/ timer0.left = 1]
    /\ seen' = [seen EXCEPT !.age = [t \in Timers |-> IF t \in seen.installed THEN Min({@[t] + 1, Long}) ELSE 0]]
    /\ UNCHANGED <<head, entry, main, plan>>

Next ==
    \/ Install \/ Insert \/ StartHead
    \/ StartRemove \/ UnlinkBefore \/ UnlinkAfter \/ ControlInterval
    \/ Isr \/ Tick

Spec == Init /\ [][Next]_vars

-----------------------------------------------------------------------------
(* Properties.                                                             *)

Excused(by) == seen.excuses \cap by # {}

\* An installed timer stays in the list until it has fired for the last time or is
\* removed, and the links of the list agree, whatever the interrupt comes between,
\* unless a callback re-installs or removes its own timer, or the interrupt comes in
\* the middle of a removal (__suli_timer_isr reads the head again after the callback;
\* suli_timer_remove leaves the interrupt enabled).
TimersKept ==
    LET busy == IF main.step = "idle" THEN {} ELSE {main.timer}
        c == Chain(head, entry)
    IN  ~Excused({"again", "remove self", "between"}) =>
            /\ ~seen.crashed
            /\ seen.installed \ busy \subseteq Listed
            /\ main.step # "unlink next" =>
                \A k \in DOMAIN c : entry[c[k]].prev = IF k = 1 THEN Null ELSE c[k - 1]

\* A timer fires when its interval is over, at most a tick for each other timer late,
\* unless time was eaten by an insertion, the head was removed (timer 0 still fires
\* then, for the next one), or a third timer took one moment (its predecessor's time
\* becomes 0, and the counter has to come round).
TimersOnTime ==
    /\ seen.early => Excused({"eaten", "head", "between"})
    /\ (\E t \in seen.installed \ {main.timer} : seen.age[t] > seen.want[t] + Cardinality(Timers)) =>
        Excused({"eaten", "third", "again", "remove self"})
=============================================================================
