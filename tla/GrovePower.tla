------------------------------ MODULE GrovePower ------------------------------
(***************************************************************************)
(* The groves' power (plugins.cpp): the server's commands that take it     *)
(* away and give it back, which ask every grove's driver that knows of     *)
(* that, one after the other, and the deep sleep.  The node can be reset   *)
(* between any two drivers.                                                *)
(***************************************************************************)
EXTENDS Integers, Sequences

CONSTANTS
    Groves,      \* the lists of drivers in the order of p_first_resource: what each knows
                 \* of the power, and whether it refuses to lose it
    Requests,    \* a bound on the requests, and on the resets
    Word,        \* 2^32
    Million,     \* the microseconds of a second
    Seconds      \* what pm/sleep is asked for

GrovePowerAssumption ==
    /\ \A list \in Groves : list \in Seq([on : BOOLEAN, off : BOOLEAN, refuses : BOOLEAN])
    /\ Requests \in Nat /\ Word \in Nat /\ Million \in Nat /\ Seconds \subseteq Nat

VARIABLES
    groves,      \* the drivers of this node
    power,       \* the pin SWITCH_GROVE_POWER, and _grove_system_power_on
    state,       \* each driver: ready, or told to go down
    walk,        \* the command under way and the driver it is at
    left,
    seen         \* what was answered last; whether a driver has refused; the sleep asked for

vars == <<groves, power, state, walk, left, seen>>

Off == [for |-> "none", at |-> 0]
Ready == [i \in 1..Len(groves) |-> "ready"]

\* wio_setup, and the drivers' constructors.
Init ==
    /\ groves \in Groves
    /\ power = [pin |-> 1, on |-> TRUE]
    /\ state = Ready
    /\ walk = Off
    /\ left = [requests |-> Requests, resets |-> 1]
    /\ seen = [answer |-> "none", refused |-> FALSE, sleep |-> <<>>]

Request == walk = Off /\ left.requests > 0 /\ left' = [left EXCEPT !.requests = @ - 1]

\* __plugin_pm_power_the_groves: nothing to do, or the walk begins; power comes before the
\* drivers are told, and goes after.
PowerTheGroves(on) ==
    /\ Request
    /\ seen' = [seen EXCEPT !.answer = IF power.on = on THEN "ok" ELSE @]
    /\ walk' = IF power.on = on THEN Off ELSE [for |-> IF on THEN "on" ELSE "off", at |-> 1]
    /\ power' = IF on /\ ~power.on THEN [power EXCEPT !.pin = 1] ELSE power
    /\ UNCHANGED <<groves, state>>

\* ?poweron
TellOn ==
    /\ walk.for = "on" /\ walk.at <= Len(groves)
    /\ state' = IF groves[walk.at].on THEN [state EXCEPT ![walk.at] = "ready"] ELSE state
    /\ walk' = [walk EXCEPT !.at = @ + 1]
    /\ UNCHANGED <<groves, power, left, seen>>

\* ?poweroff; one that refuses ends the walk, and those before it stay as they are.
TellOff ==
    /\ walk.for = "off" /\ walk.at <= Len(groves)
    /\ LET g == groves[walk.at]
       IN  IF g.off /\ g.refuses
           THEN /\ walk' = Off
                /\ seen' = [seen EXCEPT !.answer = "refused",
                                        !.refused = @ \/ \E i \in 1..Len(groves) : state[i] = "down"]
                /\ UNCHANGED state
           ELSE /\ state' = IF g.off THEN [state EXCEPT ![walk.at] = "down"] ELSE state
                /\ walk' = [walk EXCEPT !.at = @ + 1]
                /\ UNCHANGED seen
    /\ UNCHANGED <<groves, power, left>>

\* The end of the list.
Told ==
    /\ walk.for # "none" /\ walk.at > Len(groves)
    /\ power' = IF walk.for = "on" THEN [power EXCEPT !.on = TRUE] ELSE [pin |-> 0, on |-> FALSE]
    /\ walk' = Off
    /\ seen' = [seen EXCEPT !.answer = "ok"]
    /\ UNCHANGED <<groves, state, left>>

\* __plugin_pm_sleep: a 32-bit number of microseconds; the drivers are not told.
Sleep(sec) ==
    /\ Request /\ seen.sleep = <<>>
    /\ power' = [power EXCEPT !.pin = 0]
    /\ seen' = [seen EXCEPT !.answer = "sleeps", !.sleep = <<sec, (sec * Million) % Word>>]
    /\ UNCHANGED <<groves, state, walk>>

\* A reset at any time, and the end of the sleep.  A sleep of nothing has no end.
Reset ==
    /\ IF seen.sleep # <<>> THEN seen.sleep[2] # 0 /\ UNCHANGED left
       ELSE left.resets > 0 /\ left' = [left EXCEPT !.resets = @ - 1]
    /\ power' = [pin |-> 1, on |-> TRUE]
    /\ state' = Ready
    /\ walk' = Off
    /\ seen' = [answer |-> "none", refused |-> FALSE, sleep |-> <<>>]
    /\ UNCHANGED groves

Awake == seen.sleep = <<>>
Next ==
    \/ \E on \in BOOLEAN : Awake /\ PowerTheGroves(on)
    \/ TellOn \/ TellOff \/ Told \/ Reset
    \/ \E sec \in Seconds : Sleep(sec)

Spec == Init /\ [][Next]_vars

-----------------------------------------------------------------------------
(* Properties.                                                             *)

\* Between two commands the drivers that know how to go down are down when the power is off
\* and ready when it is on, so long as a driver that goes down also knows how to come back,
\* and none has refused after others went down: those stay down with the power on, and
\* the command to power up finds nothing to do.  A node sleeps for as long as it was told,
\* if that many microseconds fit in a word.
GrovesPowered ==
    /\ walk = Off /\ Awake =>
        /\ power.on = (power.pin = 1)
        /\ \A i \in 1..Len(groves) :
            /\ groves[i].off /\ ~power.on => state[i] = "down"
            /\ groves[i].on /\ power.on => state[i] = "ready" \/ seen.refused
    /\ ~Awake => seen.sleep[2] = seen.sleep[1] * Million \/ seen.sleep[1] * Million >= Word
=============================================================================
