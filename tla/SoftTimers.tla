------------------------------ MODULE SoftTimers ------------------------------
(***************************************************************************)
(* The software timers of Suli (suli2.cpp): a doubly linked list which the *)
(* main loop walks through, comparing every entry's time with a reading of *)
(* the clock taken before the walk.  The program installs, removes and     *)
(* changes timers between two walks, and so may the callbacks within one.  *)
(***************************************************************************)
EXTENDS Naturals, SequencesExt, FiniteSetsExt

CONSTANTS
    Timers,     \* TIMER_T entries
    Intervals,
    Round,      \* the period of the clock, 2^32 ms in the code
    Plans       \* bounds on what the program and the callbacks do

Null == 0

SoftTimersAssumption ==
    /\ Timers \subseteq Nat \ {Null} /\ Round \in Nat /\ Intervals \subseteq 1..(Round - 1)
    /\ Plans \subseteq [installs : Nat, removes : Nat, changes : Nat, ticks : Nat,
                        callbacks : SUBSET {"none", "install", "remove self", "replace", "remove other"}]

VARIABLES
    ends,     \* __soft_timer_list_head and __soft_timer_list_tail
    entry,    \* the entries' fields
    clock,    \* suli_millis()
    walk,     \* suli_soft_timer_loop: pt and now; pt = "out" between two walks
    plan,     \* what is left of the plan
    seen      \* what the program expects of its timers; what went wrong and may have

vars == <<ends, entry, clock, walk, plan, seen>>

Out == -1

Init ==
    /\ ends = [head |-> Null, tail |-> Null]
    /\ entry = [t \in Timers |-> [interval |-> 0, fire |-> 0, prev |-> Null, next |-> Null, repeat |-> FALSE]]
    /\ clock = 0
    /\ walk = [pt |-> Out, now |-> 0]
    /\ plan \in Plans
    /\ seen = [installed |-> {}, age |-> [t \in Timers |-> 0], want |-> [t \in Timers |-> 0],
               due |-> {}, wrong |-> FALSE, excuses |-> {}]

-----------------------------------------------------------------------------
(* The list.                                                                *)

\* The entries that a walk over `list` meets.
Reached(list) ==
    LET c[k \in 0..Cardinality(Timers)] ==
            IF k = 0 THEN list.ends.head
            ELSE IF c[k - 1] = Null THEN Null ELSE list.entry[c[k - 1]].next
    IN  {c[k] : k \in 0..Cardinality(Timers)} \ {Null}

List == [ends |-> ends, entry |-> entry]

\* __suli_soft_timer_insert_entry
InsertEntry(list, s) ==
    LET loaded == [list.entry EXCEPT ![s].fire = (clock + list.entry[s].interval) % Round]
        last == list.ends.tail
    IN  CASE s \in Reached(list) -> [list EXCEPT !.entry = loaded]
          [] s \notin Reached(list) /\ last # Null ->
                [ends |-> [list.ends EXCEPT !.tail = s],
                 entry |-> [[loaded EXCEPT ![s].prev = last, ![s].next = Null] EXCEPT ![last].next = s]]
          [] OTHER -> [ends |-> [head |-> s, tail |-> s],
                       entry |-> [loaded EXCEPT ![s].prev = Null, ![s].next = Null]]

\* Mutant: the tail stays when the last entry leaves.
UnlinkKeepsTail(list, t) ==
    LET p == list.entry[t].prev
        n == list.entry[t].next
    IN  [ends |-> [list.ends EXCEPT !.head = IF p = Null THEN n ELSE @],
         entry |-> [x \in Timers |-> [list.entry[x] EXCEPT !.next = IF x = p THEN n ELSE @,
                                                          !.prev = IF x = n THEN p ELSE @]]]

\* The removal of suli_soft_timer_remove and of the walk: by the entry's own links,
\* whether or not it is in the list.
Unlink(list, t) ==
    LET p == list.entry[t].prev
        n == list.entry[t].next
    IN  [ends |-> [head |-> IF p = Null THEN n ELSE list.ends.head,
                   tail |-> IF n = Null THEN p ELSE list.ends.tail],
         entry |-> [x \in Timers |-> [list.entry[x] EXCEPT !.next = IF x = p THEN n ELSE @,
                                                          !.prev = IF x = n THEN p ELSE @]]]

\* suli_soft_timer_install
InstallIn(list, t, d, repeat) ==
    InsertEntry([list EXCEPT !.entry = [@ EXCEPT ![t].interval = d, ![t].repeat = repeat]], t)

Becomes(list) == ends' = list.ends /\ entry' = list.entry

\* The reading of the clock or the time to fire comes round, and >= is taken of it.
Round0(d) == IF clock + d >= Round THEN {"round"} ELSE {}

Expecting(s, t, d) ==
    [s EXCEPT !.installed = @ \cup {t}, !.age[t] = 0, !.want[t] = d, !.due = @ \ {t}, !.excuses = @ \cup Round0(d)]

NotExpecting(s, t) == [s EXCEPT !.installed = @ \ {t}, !.due = @ \ {t}]

\* The removal of an entry that is not in the list.
Stale(t) == IF t \in Reached(List) THEN {} ELSE {"stale"}

FirstUnused == IF seen.installed = Timers THEN {} ELSE {Min(Timers \ seen.installed)}

-----------------------------------------------------------------------------
(* The program, between two walks.                                          *)

\* It does not matter which of the entries that are not in use it is.
Install ==
    /\ walk.pt = Out /\ plan.installs > 0
    /\ \E t \in seen.installed \cup FirstUnused, d \in Intervals, repeat \in BOOLEAN :
        /\ Becomes(InstallIn(List, t, d, repeat))
        /\ seen' = Expecting(seen, t, d)
    /\ plan' = [plan EXCEPT !.installs = @ - 1]
    /\ UNCHANGED <<clock, walk>>

\* suli_soft_timer_remove, also of a timer that has fired for the last time or was
\* never installed.
RemoveTimer ==
    /\ walk.pt = Out /\ plan.removes > 0
    /\ \E t \in Timers :
        /\ Becomes(Unlink(List, t))
        /\ seen' = [NotExpecting(seen, t) EXCEPT !.excuses = @ \cup Stale(t)]
    /\ plan' = [plan EXCEPT !.removes = @ - 1]
    /\ UNCHANGED <<clock, walk>>

\* suli_soft_timer_control_interval: from the next firing on.
ControlInterval ==
    /\ walk.pt = Out /\ plan.changes > 0
    /\ \E t \in seen.installed, d \in Intervals :
        entry[t].interval # d /\ entry' = [entry EXCEPT ![t].interval = d]
    /\ plan' = [plan EXCEPT !.changes = @ - 1]
    /\ UNCHANGED <<ends, clock, walk, seen>>

-----------------------------------------------------------------------------
(* suli_soft_timer_loop.                                                    *)

StartWalk ==
    /\ walk.pt = Out /\ ends.head # Null
    /\ walk' = [pt |-> ends.head, now |-> clock]
    /\ seen' = [seen EXCEPT !.due = {t \in seen.installed : seen.age[t] >= seen.want[t]}]
    /\ UNCHANGED <<ends, entry, clock, plan>>

\* What the callback of t does: the list it leaves and what the program expects then.
Callbacks(t, what) ==
    CASE what = "install" ->
            {[list |-> InstallIn(List, o, d, FALSE),
              seen |-> [Expecting(seen, o, d) EXCEPT !.excuses = @ \cup (IF o = t THEN {"again"} ELSE {})]] :
                o \in Timers, d \in Intervals}
      [] what = "remove self" -> {[list |-> Unlink(List, t), seen |-> NotExpecting(seen, t)]}
      [] what = "replace" ->
            {[list |-> InstallIn(Unlink(List, t), o, d, FALSE),
              seen |-> [Expecting(NotExpecting(seen, t), o, d) EXCEPT !.excuses = @ \cup {"replace"}]] :
                o \in Timers \ {t}, d \in Intervals}
      [] what = "remove other" ->
            {[list |-> Unlink(List, o),
              seen |-> [NotExpecting(seen, o) EXCEPT !.excuses = @ \cup Stale(o)]] : o \in Timers \ {t}}
      [] OTHER -> {[list |-> List, seen |-> seen]}

\* The walk after an entry; what was due at its start has fired when it ends.
Step(list, s, t) ==
    LET n == list.entry[t].next
    IN  /\ walk' = [walk EXCEPT !.pt = IF n = Null THEN Out ELSE n]
        /\ seen' = [s EXCEPT !.wrong = @ \/ (n = Null /\ s.due # {}), !.due = IF n = Null THEN {} ELSE @]

\* After the callback a one-shot timer is unlinked, a repeated one loaded from the
\* reading of the clock that the walk began with.
Fire ==
    /\ walk.pt # Out
    /\ LET t == walk.pt
           early == seen.age[t] < seen.want[t] /\ t \in seen.installed
       IN  /\ walk.now >= entry[t].fire
           /\ \E what \in plan.callbacks : \E r \in Callbacks(t, what) :
                LET again == r.list.entry[t].repeat
                    d == r.list.entry[t].interval
                    list == IF again
                            THEN [r.list EXCEPT !.entry = [@ EXCEPT ![t].fire = (walk.now + d) % Round]]
                            ELSE Unlink(r.list, t)
                    kept == CASE what \in {"remove self", "replace"} -> r.seen
                              [] what \notin {"remove self", "replace"} /\ again ->
                                      [Expecting(r.seen, t, d) EXCEPT
                                          !.age[t] = (clock + Round - walk.now) % Round]
                              [] OTHER -> IF "again" \in r.seen.excuses THEN r.seen
                                           ELSE NotExpecting(r.seen, t)
                IN  /\ Becomes(list)
                    /\ Step(list, [kept EXCEPT !.wrong = @ \/ early], t)
                    /\ plan' = IF what = "none" THEN plan ELSE [plan EXCEPT !.callbacks = {"none"}]
    /\ UNCHANGED clock

Pass ==
    /\ walk.pt # Out /\ walk.now < entry[walk.pt].fire
    /\ Step(List, seen, walk.pt)
    /\ UNCHANGED <<ends, entry, clock, plan>>

\* Time passes anywhere: a callback may take long, and suli_delay_ms(0) yields.
Tick ==
    /\ plan.ticks > 0 /\ plan' = [plan EXCEPT !.ticks = @ - 1]
    /\ clock' = (clock + 1) % Round
    /\ seen' = [seen EXCEPT !.age = [t \in Timers |-> IF t \in seen.installed THEN @[t] + 1 ELSE 0],
                            !.excuses = IF clock' = 0 /\ seen.installed # {} THEN @ \cup {"round"} ELSE @]
    /\ UNCHANGED <<ends, entry, walk>>

Next == Install \/ RemoveTimer \/ ControlInterval \/ StartWalk \/ Fire \/ Pass \/ Tick

Spec == Init /\ [][Next]_vars

-----------------------------------------------------------------------------
(* Properties.                                                             *)

Excused(by) == seen.excuses \cap by # {}

\* A walk meets every timer the program has installed, and no other; the tail is where
\* the next one is linked to; and a timer fires in the first walk after its time and
\* never before, unless a timer was removed that is not in the list (a one-shot one that
\* has fired keeps its links: they cut off what was installed since), a callback
\* installed its own timer again or replaced it by another, or the clock came round.
SoftTimersServed ==
    ~Excused({"stale", "again", "replace"}) =>
        /\ seen.installed = Reached(List)
        /\ ends.tail # Null => entry[ends.tail].next = Null /\ ends.tail \in seen.installed
        /\ seen.wrong => Excused({"round"})
=============================================================================
