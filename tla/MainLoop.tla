------------------------------- MODULE MainLoop -------------------------------
(***************************************************************************)
(* The program of the node as a task of the SDK (core_esp8266_main.cpp,    *)
(* cont.s, cont_util.c, core_esp8266_wiring.c): a stack of its own that is *)
(* left by a yield and entered again by the next event of a queue of one,  *)
(* which delay() has its only timer post.  delay() and yield() are also    *)
(* called in SDK callbacks, restart_network_initialization and fire_reboot *)
(* for two, where there is no stack to leave.  And the clock of millis():  *)
(* a counter that comes round, and a timer that counts its rounds.         *)
(***************************************************************************)
EXTENDS Naturals

CONSTANTS
    Delays,     \* arguments of delay()
    Round,      \* the period of system_get_time()
    Period,     \* of micros_overflow_timer
    Rounds,     \* bound
    Callbacks   \* bound: calls in SDK callbacks

MainLoopAssumption ==
    /\ Delays \subseteq Nat /\ {Round, Period, Rounds, Callbacks} \subseteq Nat
    /\ 0 < Period /\ Period < Round

VARIABLES
    cont,      \* whether pc_ret and pc_yield of g_cont are set
    queue,     \* events in g_loop_queue
    timer,     \* time left on delay_timer, 0 when it is disarmed
    running,   \* loop_task runs
    wait,      \* the delay() the loop is in and how long it has been
    clock,     \* system_get_time() in all, what micros_overflow_tick keeps, its next time and its step
    seen

vars == <<cont, queue, timer, running, wait, clock, seen>>

Init ==
    /\ cont = [ret |-> FALSE, yield |-> FALSE]
    /\ queue = 1 /\ timer = 0 /\ running = FALSE
    /\ wait = [ms |-> 0, age |-> 0]
    /\ clock = [time |-> 0, last |-> 0, count |-> 0, left |-> Period, counted |-> FALSE]
    /\ seen = [callbacks |-> 0, short |-> FALSE, crashed |-> FALSE, excuses |-> {}]

CanYield == cont.ret /\ ~cont.yield

\* esp_schedule: a full queue takes nothing.
Schedule == queue' = 1

-----------------------------------------------------------------------------
(* The task.                                                                *)

\* loop_task and cont_run: the loop starts, or goes on behind its yield; a delay()
\* disarms the timer there.
LoopTask ==
    /\ ~running /\ queue = 1 /\ ~seen.crashed
    /\ queue' = 0 /\ running' = TRUE
    /\ cont' = [ret |-> TRUE, yield |-> FALSE]
    /\ timer' = IF cont.yield /\ wait.ms > 0 THEN 0 ELSE timer
    /\ seen' = [seen EXCEPT !.short = @ \/ (cont.yield /\ wait.age < wait.ms)]
    /\ wait' = [ms |-> 0, age |-> 0]
    /\ UNCHANGED clock

\* Mutant: the loop counts on an event being queued.
ReturnsSilently ==
    /\ running
    /\ running' = FALSE /\ cont' = [cont EXCEPT !.ret = FALSE]
    /\ UNCHANGED <<queue, timer, wait, clock, seen>>

\* loop_wrapper's end and cont_norm.
LoopReturns ==
    /\ running
    /\ Schedule
    /\ running' = FALSE /\ cont' = [cont EXCEPT !.ret = FALSE]
    /\ UNCHANGED <<timer, wait, clock, seen>>

\* delay() in the loop; delay(0) is yield().
DelayInLoop ==
    /\ running /\ CanYield
    /\ \E ms \in Delays :
        /\ IF ms > 0 THEN timer' = ms /\ UNCHANGED queue ELSE Schedule /\ UNCHANGED timer
        /\ wait' = [ms |-> ms, age |-> 0]
    /\ cont' = [cont EXCEPT !.yield = TRUE] /\ running' = FALSE
    /\ UNCHANGED <<clock, seen>>

-----------------------------------------------------------------------------
(* The SDK's callbacks.                                                     *)

Callback == ~running /\ ~seen.crashed /\ seen.callbacks < Callbacks

\* delay() in a callback does not wait: it arms the timer and disarms it, whoever
\* had armed it.
DelayInCallback ==
    /\ Callback /\ ~CanYield
    /\ \E ms \in Delays :
        /\ IF ms > 0 THEN timer' = 0 /\ UNCHANGED queue ELSE Schedule /\ UNCHANGED timer
        /\ seen' = [seen EXCEPT !.callbacks = @ + 1,
                                !.excuses = @ \cup (IF cont.yield /\ wait.ms > 0
                                                    THEN {IF ms > 0 THEN "inside" ELSE "posted"} ELSE {})]
    /\ UNCHANGED <<cont, running, wait, clock>>

\* yield() in a callback (HardwareSerial::flush, a write() that waits): abort().
YieldInCallback ==
    /\ Callback /\ ~CanYield
    /\ seen' = [seen EXCEPT !.callbacks = @ + 1, !.crashed = TRUE]
    /\ UNCHANGED <<cont, queue, timer, running, wait, clock>>

-----------------------------------------------------------------------------
(* Time.                                                                    *)

Now == clock.time % Round

\* micros_overflow_tick counts a round and only then keeps its reading.
Counted(m) == IF m < clock.last THEN clock.count + 1 ELSE clock.count

OverflowTick ==
    /\ clock.left = 0 /\ ~clock.counted
    /\ clock' = [clock EXCEPT !.count = Counted(Now), !.counted = TRUE]
    /\ UNCHANGED <<cont, queue, timer, running, wait, seen>>

OverflowTickEnds ==
    /\ clock.counted
    /\ clock' = [clock EXCEPT !.last = Now, !.counted = FALSE, !.left = Period]
    /\ UNCHANGED <<cont, queue, timer, running, wait, seen>>

\* delay_end posts an event.
Tick ==
    /\ clock.left > 0 /\ clock.time < Round * Rounds
    /\ clock' = [clock EXCEPT !.time = @ + 1, !.left = @ - 1]
    /\ timer' = IF timer = 0 THEN 0 ELSE timer - 1
    /\ IF timer = 1 THEN Schedule ELSE UNCHANGED queue
    /\ wait' = IF cont.yield /\ wait.age < wait.ms THEN [wait EXCEPT !.age = @ + 1] ELSE wait
    /\ UNCHANGED <<cont, running, seen>>

Next ==
    \/ LoopTask \/ LoopReturns \/ DelayInLoop
    \/ DelayInCallback \/ YieldInCallback
    \/ OverflowTick \/ OverflowTickEnds \/ Tick

Spec == Init /\ [][Next]_vars

-----------------------------------------------------------------------------
(* Properties.                                                             *)

Excused(by) == seen.excuses \cap by # {}

\* millis(), in units of system_get_time(), as read now.
Millis == (clock.count + (IF Now < clock.last THEN 1 ELSE 0)) * Round + Now

\* The loop that has yielded or returned is on its way back, unless a callback called
\* delay() while it was in one (it stops the only timer, and the loop never runs again
\* on a node that still answers); a delay() lasts its time, unless a callback posted an
\* event by delay(0); and millis() counts every round once, except for an interrupt
\* between the two assignments of micros_overflow_tick.
LoopGoesOn ==
    /\ ~running /\ queue = 0 /\ timer = 0 => Excused({"inside"})
    /\ seen.short => Excused({"posted"})
    /\ Millis # clock.time => clock.counted
=============================================================================
