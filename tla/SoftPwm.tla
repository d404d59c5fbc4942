------------------------------- MODULE SoftPwm -------------------------------
(***************************************************************************)
(* Pulse width modulation by timer 1 (core_esp8266_wiring_pwm.c,           *)
(* core_esp8266_timer.c): analogWrite keeps a mask of pins and a value for *)
(* each, and prepares the steps of a cycle from them; the interrupt raises *)
(* all pins of the mask at the start of a cycle, and lowers them step by   *)
(* step.  It keeps the masks of the cycle it is in but takes its times     *)
(* from the steps prepared last.                                           *)
(***************************************************************************)
EXTENDS Naturals, SequencesExt, FiniteSetsExt

CONSTANTS
    Pins,
    Full,         \* PWMRANGE, 1023
    Multipliers,  \* F_CPU / (PWMRANGE * pwm_freq)
    Calls         \* bound: calls of analogWrite and analogWriteFreq

SoftPwmAssumption ==
    /\ Full \in Nat \ {0, 1} /\ Multipliers \subseteq Nat \ {0} /\ Calls \in Nat

VARIABLES
    mask, values,   \* pwm_mask and pwm_values
    steps,          \* pwm_steps with pwm_steps_len, pwm_steps_mask and pwm_multiplier
    isr,            \* current_step, stepcount and masks of pwm_timer_isr
    timer,          \* timer 1: ticks left, 0 when it does not run
    call,           \* the call of analogWrite that is going on
    seen            \* levels of the pins, their time high in this cycle, and how well it went

vars == <<mask, values, steps, isr, timer, call, seen>>

Idle == [step |-> "idle"]

Init ==
    /\ mask = {} /\ values = [p \in Pins |-> 0]
    /\ steps = [len |-> 0, times |-> [k \in 1..(Cardinality(Pins) + 1) |-> 0],
                masks |-> [k \in 1..Cardinality(Pins) |-> {}], by |-> 0]
    /\ isr = [at |-> 0, count |-> 0, masks |-> <<>>]
    /\ timer = 0
    /\ call = Idle
    /\ seen = [level |-> [p \in Pins |-> 0], high |-> [p \in Pins |-> 0], len |-> 0, calm |-> 0,
               calls |-> 0, by |-> Min(Multipliers), wrong |-> FALSE, over |-> {}]

-----------------------------------------------------------------------------
(* The steps of a cycle.                                                    *)

\* Mutant: a pin that is always on is lowered like the others, at the end of a cycle.
TimesWithRange == SetToSortSeq({values[p] : p \in mask} \ {0}, <)

\* pwm_sort_array without the last element: the times at which pins are lowered.
Times == SetToSortSeq({values[p] : p \in mask} \ {0, Full}, <)

\* pwm_get_mask
GetMask(value) == {p \in mask : values[p] = value}

\* prep_pwm_steps: what is in the arrays behind the new steps stays.
Prepared(by) ==
    LET t == Append(Times, Full)
        n == Len(Times)
    IN  IF mask = {} THEN [steps EXCEPT !.len = 0]
        ELSE [len |-> n,
              times |-> [k \in DOMAIN steps.times |->
                            CASE k = 1 -> t[1] [] k \in 2..(n + 1) -> t[k] - t[k - 1]
                               [] OTHER -> steps.times[k]],
              masks |-> [k \in DOMAIN steps.masks |-> IF k <= n THEN GetMask(t[k]) ELSE steps.masks[k]],
              by |-> by]

Prepare(by) == steps' = Prepared(by)

Level(pins, v) == [p \in Pins |-> IF p \in pins THEN v ELSE seen.level[p]]

-----------------------------------------------------------------------------
(* __analogWrite; timer 1 may interrupt it anywhere.                        *)

\* A value is taken % (PWMRANGE + 1).
AnalogWrite(p, value) ==
    /\ call = Idle /\ seen.calls < Calls
    /\ IF value = 0
       THEN /\ mask' = mask \ {p}
            /\ call' = [step |-> "off", pin |-> p]
       ELSE /\ mask' = mask \cup {p}
            /\ call' = [step |-> IF p \in mask THEN "value" ELSE "low", pin |-> p,
                        value |-> value % (Full + 1), start |-> mask = {}]
    /\ seen' = [seen EXCEPT !.calls = @ + 1, !.calm = 0,
                            !.over = IF value > Full THEN @ \cup {p} ELSE @ \ {p}]
    /\ UNCHANGED <<values, steps, isr, timer>>

\* prep_pwm_steps of a pin that leaves.
PrepareOff ==
    /\ call.step = "off"
    /\ Prepare(seen.by)
    /\ call' = [call EXCEPT !.step = "off low"]
    /\ UNCHANGED <<mask, values, isr, timer, seen>>

\* digitalWrite(pin, LOW), and timer1_disable behind the last pin.
LowOff ==
    /\ call.step = "off low"
    /\ seen' = [seen EXCEPT !.level = Level({call.pin}, 0)]
    /\ timer' = IF mask = {} THEN 0 ELSE timer
    /\ call' = Idle
    /\ UNCHANGED <<mask, values, steps, isr>>

\* pinMode and digitalWrite(pin, LOW) of a pin that is new.
LowFirst ==
    /\ call.step = "low"
    /\ seen' = [seen EXCEPT !.level = Level({call.pin}, 0)]
    /\ call' = [call EXCEPT !.step = "value"]
    /\ UNCHANGED <<mask, values, steps, isr, timer>>

SetValue ==
    /\ call.step = "value"
    /\ values' = [values EXCEPT ![call.pin] = call.value]
    /\ call' = [call EXCEPT !.step = "prepare"]
    /\ UNCHANGED <<mask, steps, isr, timer, seen>>

\* prep_pwm_steps, and pwm_start_timer for the first pin.
PrepareOn ==
    /\ call.step = "prepare"
    /\ Prepare(seen.by)
    /\ timer' = IF call.start THEN 1 ELSE timer
    /\ call' = Idle
    /\ UNCHANGED <<mask, values, isr, seen>>

\* __analogWriteFreq
AnalogWriteFreq(by) ==
    /\ call = Idle /\ seen.calls < Calls /\ by # seen.by
    /\ Prepare(by)
    /\ seen' = [seen EXCEPT !.calls = @ + 1, !.calm = 0, !.by = by]
    /\ UNCHANGED <<mask, values, isr, timer, call>>

-----------------------------------------------------------------------------
(* Timer 1.                                                                 *)

\* pwm_timer_isr within a cycle.
LowerPins ==
    /\ timer = 1 /\ isr.at < isr.count
    /\ isr' = [isr EXCEPT !.at = @ + 1]
    /\ timer' = steps.times[isr.at + 2] * steps.by
    /\ seen' = [seen EXCEPT !.level = Level(isr.masks[isr.at + 1], 0), !.len = @ + 1,
                            !.high = [p \in Pins |-> @[p] + seen.level[p]]]
    /\ UNCHANGED <<mask, values, steps, call>>

\* The end of a cycle and the start of the next, unless all pins have left.
NewCycle ==
    /\ timer = 1 /\ isr.at >= isr.count
    /\ IF mask = {}
       THEN /\ isr' = [isr EXCEPT !.at = 0, !.count = 0]
            /\ timer' = 0 /\ seen' = [seen EXCEPT !.calm = 0, !.len = 0]
       ELSE /\ isr' = [at |-> 0, count |-> steps.len, masks |-> SubSeq(steps.masks, 1, steps.len)]
            /\ timer' = steps.times[1] * steps.by
            /\ LET s == [seen EXCEPT !.len = @ + 1, !.high = [p \in Pins |-> @[p] + seen.level[p]]]
               IN  seen' = [s EXCEPT !.level = Level(mask, 1), !.len = 0, !.high = [p \in Pins |-> 0],
                                     !.calm = IF call = Idle THEN Min({@ + 1, 2}) ELSE 0,
                                     !.wrong = @ \/ /\ seen.calm > 0 /\ call = Idle
                                                    /\ ~(/\ s.len = Full * seen.by
                                                         /\ \A p \in mask \ seen.over : s.high[p] = values[p] * seen.by)]
    /\ UNCHANGED <<mask, values, steps, call>>

\* A tick in which timer 1 does not run out.
Tick ==
    /\ timer > 1
    /\ timer' = timer - 1
    /\ seen' = [seen EXCEPT !.len = @ + 1, !.high = [p \in Pins |-> @[p] + seen.level[p]]]
    /\ UNCHANGED <<mask, values, steps, isr, call>>

Next ==
    \/ \E p \in Pins, v \in 0..(Full + 1) : AnalogWrite(p, v)
    \/ PrepareOff \/ LowOff \/ LowFirst \/ SetValue \/ PrepareOn
    \/ \E by \in Multipliers : AnalogWriteFreq(by)
    \/ LowerPins \/ NewCycle \/ Tick

Spec == Init /\ [][Next]_vars

-----------------------------------------------------------------------------
(* Properties.                                                             *)

\* Whatever the interrupt came between and wherever in a cycle the pins changed, from
\* the first whole cycle after a call on every pin is high for its value and the cycle
\* as long as it should be, except for a pin that was given PWMRANGE + 1 (its value
\* becomes 0 with the pin in the mask: it is always on); the timer runs while there are
\* pins; and a pin that is off is low.
PwmDuty ==
    call = Idle =>
        /\ ~seen.wrong
        /\ mask # {} => timer > 0
        /\ \A p \in Pins \ mask : seen.level[p] = 0
=============================================================================
