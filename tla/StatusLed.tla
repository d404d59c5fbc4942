------------------------------ MODULE StatusLed ------------------------------
(***************************************************************************)
(* The light that shows how far the node's connection is                   *)
(* (network_status_indicate_timer_fn in network.cpp): a timer that arms    *)
(* itself again, with a pattern for each status.  The network code changes *)
(* the status between two calls of the timer.  The light is on at level 0. *)
(***************************************************************************)
EXTENDS Naturals

CONSTANTS
    Changes      \* a bound on the changes of the status

VARIABLES
    status,      \* conn_status[0]
    shown,       \* last_main_status
    pattern,     \* blink_pattern_cnt and brightness_dir
    timer,       \* timer_network_status_indicate: when it fires, 0 when it is not armed
    lamp,        \* the pin: its level, or the brightness it is modulated with
    left,        \* changes that are left
    seen         \* levels shown since the last pause

vars == <<status, shown, pattern, timer, lamp, left, seen>>

Waiting == {"WAIT_GET_IP", "WAIT_RESOLVE"}
Connecting == {"WAIT_CONN_DONE", "WAIT_HELLO_DONE"}

\* What the status may be after a status; the code sets no other ones.
Then(s) ==
    CASE s = "WAIT_CONFIG"     -> {}
      [] s = "WAIT_GET_IP"     -> {"WAIT_RESOLVE", "WAIT_CONN_DONE"}
      [] s = "WAIT_RESOLVE"    -> {"WAIT_CONN_DONE"}
      [] s = "WAIT_CONN_DONE"  -> {"WAIT_HELLO_DONE", "WAIT_GET_IP"}
      [] s = "WAIT_HELLO_DONE" -> {"KEEP_ALIVE", "DIED_IN_HELLO", "WAIT_CONN_DONE", "WAIT_GET_IP"}
      [] OTHER                 -> {"WAIT_CONN_DONE"}

Level(v) == [level |-> v, pwm |-> FALSE]
Bright(v) == [level |-> v, pwm |-> TRUE]
Toggled == Level(IF lamp.level = 0 THEN 1 ELSE 0)

\* network_setup
Init ==
    /\ status \in {"WAIT_CONFIG", "WAIT_GET_IP"}
    /\ shown = "none"
    /\ pattern = [count |-> 0, dir |-> 0]
    /\ timer = 1
    /\ lamp = Level(1)
    /\ left = Changes
    /\ seen = [count |-> 0, died |-> FALSE]

Change ==
    /\ left > 0
    /\ left' = left - 1
    /\ status' \in Then(status)
    /\ UNCHANGED <<shown, pattern, timer, lamp, seen>>

Fires ==
    /\ timer # 0
    /\ shown' = status
    /\ UNCHANGED <<status, left>>

New == status # shown

\* How often the light has been lit since the last pause.
Lit == [seen EXCEPT !.count = (IF timer = 1000 THEN 0 ELSE @) + (1 - lamp'.level)]

\* Brighter in steps of 50, darker in steps of 40.
Breathe(p) ==
    IF p.dir = 0
    THEN IF p.count + 50 > 800 THEN [count |-> 800, dir |-> 1] ELSE [p EXCEPT !.count = @ + 50]
    ELSE IF p.count - 40 < 40 THEN [count |-> 0, dir |-> 0] ELSE [p EXCEPT !.count = @ - 40]

ShowConfig ==
    /\ Fires /\ status = "WAIT_CONFIG"
    /\ timer' = 60
    /\ pattern' = IF New THEN [count |-> 0, dir |-> 0] ELSE Breathe(pattern)
    /\ lamp' = Bright(1023 - pattern'.count)
    /\ UNCHANGED seen

\* Two blinks and a pause.
ShowWaiting ==
    /\ Fires /\ status \in Waiting
    /\ LET last == ~New /\ pattern.count + 1 >= 4
       IN  /\ timer' = IF last THEN 1000 ELSE 50
           /\ pattern' = [pattern EXCEPT !.count = IF New THEN 1 ELSE IF last THEN 0 ELSE @ + 1]
           /\ lamp' = IF New THEN Level(0) ELSE Toggled
           /\ seen' = IF New THEN [seen EXCEPT !.count = 1] ELSE Lit

\* One blink and a pause.
ShowConnecting ==
    /\ Fires /\ status \in Connecting
    /\ timer' = IF New \/ lamp.level > 0 THEN 50 ELSE 1000
    /\ lamp' = IF New THEN Level(0) ELSE Toggled
    /\ UNCHANGED <<pattern, seen>>

ShowUp ==
    /\ Fires /\ status = "KEEP_ALIVE"
    /\ timer' = 1000
    /\ lamp' = Toggled
    /\ UNCHANGED <<pattern, seen>>

\* The timer is not armed again.
ShowDied ==
    /\ Fires /\ status = "DIED_IN_HELLO"
    /\ timer' = 0
    /\ lamp' = Level(0)
    /\ seen' = [seen EXCEPT !.died = TRUE]
    /\ UNCHANGED pattern

Next == Change \/ ShowConfig \/ ShowWaiting \/ ShowConnecting \/ ShowUp \/ ShowDied

Spec == Init /\ [][Next]_vars

-----------------------------------------------------------------------------
(* Properties.                                                             *)

\* The light goes on showing the status for ever, unless it has once shown that the server
\* refused the node: nobody arms the timer then, also when a later connection succeeds.  It
\* is dark in every pause, has blinked twice before it while the node waits for an address,
\* and the brightness stays in its range.
LedTells ==
    /\ timer = 0 => seen.died
    /\ timer = 1000 /\ shown \in Waiting \cup Connecting => lamp.level = 1
    /\ timer = 1000 /\ shown \in Waiting => seen.count = 2
    /\ lamp.pwm => status = "WAIT_CONFIG" /\ lamp.level \in 223..1023
    /\ pattern.count \in 0..800
=============================================================================
