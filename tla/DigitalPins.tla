----------------------------- MODULE DigitalPins -----------------------------
(***************************************************************************)
(* The node's pins as inputs (core_esp8266_wiring_digital.c, suli2.cpp;    *)
(* pulse.c, shift.c): their modes, the interrupts a program attaches to    *)
(* their edges, the measuring of a pulse and the shifting of a number over *)
(* two pins.  The interrupt handler comes between any two writes of the    *)
(* program, edges come at any time, also while the handler runs.           *)
(***************************************************************************)
EXTENDS Integers, Sequences, FiniteSetsExt

CONSTANTS
    Pins,        \* pins with edges
    Round,       \* micros() counts to this, 2^32
    Width,       \* the bits of a number that is shifted, 8
    Plans        \* bounds: edges, what is attached and how, detached and by whom; modes that
                 \* are set; a wave and a timeout; a number

DigitalPinsAssumption ==
    /\ Pins \subseteq 0..15 /\ Round \in Nat /\ Width \in Nat

VARIABLES
    level,       \* what the pins' lines are at
    chip,        \* the interrupts' types and statuses, and the pads of the pins
    handlers,    \* interrupt_handlers and interrupt_reg
    isr,         \* what interrupt_handler has before it
    attach,      \* the program's place in attachInterrupt or attachInterruptEx
    plan,
    seen         \* what is attached, calls owed for edges, what was called and why not

vars == <<level, chip, handlers, isr, attach, plan, seen>>

Slots == {"fn", "fn_ex"}
Out == [step |-> "out"]
AllPins == Pins \cup {16}

\* initPins: every pin an input; no handler.
Init ==
    /\ level = [p \in Pins |-> 0]
    /\ chip = [type |-> [p \in Pins |-> "none"], status |-> {},
               pad |-> [p \in AllPins |-> [out |-> FALSE, drain |-> p # 16, pull |-> "none"]]]
    /\ handlers = [mode |-> [p \in Pins |-> "none"], fn |-> [p \in Pins |-> 0],
                   fn_ex |-> [p \in Pins |-> 0], para |-> [p \in Pins |-> 0], reg |-> {}]
    /\ isr = [at |-> "out", todo |-> {}]
    /\ attach = Out
    /\ plan \in Plans
    /\ seen = [attached |-> [p \in Pins |-> {}], owed |-> [p \in Pins |-> [s \in Slots |-> 0]],
               mode |-> [p \in Pins |-> "none"], stale |-> FALSE, spurious |-> FALSE,
               mixed |-> FALSE, excuses |-> {}, answer |-> <<>>]

Program == isr.at = "out" /\ attach = Out

Spend(what) == plan[what] > 0 /\ plan' = [plan EXCEPT ![what] = @ - 1]

-----------------------------------------------------------------------------
(* Edges, and what is attached to them.                                     *)

Matches(mode, l) == mode = "CHANGE" \/ (mode = "RISING" /\ l = 1) \/ (mode = "FALLING" /\ l = 0)

\* What keeps an edge from being told: another before it is looked at, a handler half made.
Half(p) == IF attach # Out /\ attach.p = p THEN {"attaching"} ELSE {}
Hindered(p) == (IF p \in chip.status \cup isr.todo THEN {"bounced"} ELSE {}) \cup Half(p)

Edge(p) ==
    /\ Spend("edges")
    /\ LET l == 1 - level[p]
       IN  /\ level' = [level EXCEPT ![p] = l]
           /\ chip' = [chip EXCEPT !.status = IF Matches(chip.type[p], l) THEN @ \cup {p} ELSE @]
           /\ seen' = [seen EXCEPT
                !.owed[p] = [s \in Slots |->
                    IF s \in seen.attached[p] /\ Matches(seen.mode[p], l) THEN @[s] + 1 ELSE @[s]],
                !.excuses = @ \cup Hindered(p)]
    /\ UNCHANGED <<handlers, isr, attach>>

\* __attachInterrupt and attachInterruptEx: the handler first, the interrupt's type last.
Attach(p, mode, slot) ==
    /\ Program /\ Spend("attaches")
    /\ handlers' = [handlers EXCEPT !.mode[p] = mode, ![slot][p] = plan.attaches]
    /\ attach' = [step |-> "para", p |-> p, mode |-> mode, slot |-> slot, n |-> plan.attaches]
    /\ UNCHANGED <<level, chip, isr, seen>>

AttachPara ==
    /\ isr.at = "out" /\ attach.step = "para"
    /\ handlers' = [handlers EXCEPT
                      !.para[attach.p] = IF attach.slot = "fn_ex" THEN attach.n ELSE @,
                      !.reg = @ \cup {attach.p}]
    /\ attach' = [attach EXCEPT !.step = "type"]
    /\ UNCHANGED <<level, chip, isr, plan, seen>>

AttachType ==
    /\ isr.at = "out" /\ attach.step = "type"
    /\ LET p == attach.p
       IN  /\ chip' = [chip EXCEPT !.status = @ \ {p}, !.type[p] = attach.mode]
           /\ seen' = [seen EXCEPT
                         !.attached[p] = @ \cup {attach.slot}, !.mode[p] = attach.mode,
                         !.excuses = @ \cup (IF p \in chip.status THEN {"attaching"} ELSE {})]
    /\ attach' = Out
    /\ UNCHANGED <<level, handlers, isr, plan>>

\* __detachInterrupt leaves fn_ex and its parameter where they are.
Detached(p) ==
    /\ chip' = [chip EXCEPT !.type[p] = "none", !.status = @ \ {p}]
    /\ handlers' = [handlers EXCEPT !.reg = @ \ {p}, !.mode[p] = "none", !.fn[p] = 0]

Forgotten(s, p) ==
    [s EXCEPT !.attached[p] = {}, !.owed[p] = [x \in Slots |-> 0], !.mode[p] = "none",
              !.excuses = @ \cup (IF handlers.fn_ex[p] # 0 THEN {"fn_ex stays"} ELSE {})]

Detach(p) ==
    /\ Program /\ Spend("detaches")
    /\ Detached(p)
    /\ seen' = Forgotten(seen, p)
    /\ UNCHANGED <<level, isr, attach>>

-----------------------------------------------------------------------------
(* interrupt_handler.                                                       *)

\* The statuses are cleared before anything is looked at.
Enter ==
    /\ isr.at = "out" /\ chip.status # {}
    /\ chip' = [chip EXCEPT !.status = {}]
    /\ isr' = [at |-> IF chip.status \cap handlers.reg = {} THEN "out" ELSE "fn",
               todo |-> chip.status \cap handlers.reg]
    /\ UNCHANGED <<level, handlers, attach, plan, seen>>

\* mode & 1 against the level of now; a mode that was reset asks for low.
Asks(p) ==
    \/ handlers.mode[p] = "CHANGE"
    \/ level[p] = (IF handlers.mode[p] = "RISING" THEN 1 ELSE 0)

Called(s, p, slot) ==
    [s EXCEPT !.stale = @ \/ slot \notin s.attached[p],
              !.spurious = @ \/ s.owed[p][slot] = 0,
              !.mixed = @ \/ (slot = "fn_ex" /\ handlers.fn_ex[p] # handlers.para[p]),
              !.owed[p][slot] = IF @ = 0 THEN 0 ELSE @ - 1]

\* One function of the lowest pin is called, or not; the function may detach a pin.
Serve(slot) ==
    /\ isr.at = slot
    /\ LET p == Min(isr.todo)
           todo == IF slot = "fn" THEN isr.todo ELSE isr.todo \ {p}
           runs == handlers[slot][p] # 0 /\ Asks(p)
           told == IF runs THEN Called(seen, p, slot) ELSE seen
           after == [told EXCEPT !.excuses = @ \cup Half(p)]
       IN  /\ isr' = [at |-> IF slot = "fn" THEN "fn_ex" ELSE IF todo = {} THEN "out" ELSE "fn",
                      todo |-> todo]
           /\ \/ seen' = after /\ UNCHANGED <<chip, handlers, plan>>
              \/ \E q \in Pins :
                    /\ runs /\ attach = Out /\ Spend("inside")
                    /\ Detached(q)
                    /\ seen' = Forgotten(after, q)
    /\ UNCHANGED <<level, attach>>

-----------------------------------------------------------------------------
(* The pads: __pinMode, which leaves the interrupt's type alone.            *)

Inputs == {"INPUT", "INPUT_PULLUP", "INPUT_PULLDOWN"}
Outputs == {"OUTPUT", "OUTPUT_OPEN_DRAIN"}
Pull(mode) ==
    CASE mode = "INPUT_PULLUP" -> "up" [] mode = "INPUT_PULLDOWN" -> "down" [] OTHER -> "none"

\* Pin 16 knows neither a pullup nor an open drain, and keeps its direction when asked.
PadOf(p, mode, pad) ==
    IF p < 16
    THEN [out |-> mode \in Outputs, drain |-> mode # "OUTPUT", pull |-> Pull(mode)]
    ELSE [pad EXCEPT !.out = CASE mode \in {"INPUT", "INPUT_PULLDOWN"} -> FALSE
                               [] mode = "OUTPUT" -> TRUE
                               [] OTHER -> @,
                     !.pull = IF mode = "INPUT_PULLDOWN" THEN "down" ELSE "none"]

PinMode(p, mode) ==
    /\ Program /\ Spend("modes")
    /\ chip' = [chip EXCEPT !.pad[p] = PadOf(p, mode, @)]
    /\ seen' = [seen EXCEPT !.answer = <<"mode", p, mode>>]
    /\ UNCHANGED <<level, handlers, isr, attach>>

-----------------------------------------------------------------------------
(* pulseIn, on a wave of one level for each microsecond.                    *)

Elapsed(now, start) == ((now % Round) + Round - (start % Round)) % Round

\* The end of a loop that waits while the level is, or is not, the state's.
Waited(w, from, start, ends, timeout) ==
    Min({t \in from..Len(w) : w[t] \in ends \/ Elapsed(t, start) >= timeout} \cup {Len(w)})

PulseIn(w, state, timeout) ==
    LET first == Waited(w, 1, 1, {1 - state}, timeout)
        began == Waited(w, first, 1, {state}, timeout)
    IN  Elapsed(Waited(w, began, began, {1 - state}, timeout), began)

Pulse(state) ==
    /\ Program /\ plan.wave # <<>>
    /\ plan' = [plan EXCEPT !.wave = <<>>]
    /\ seen' = [seen EXCEPT !.answer = <<"pulse", plan.wave, state, plan.timeout,
                                         PulseIn(plan.wave, state, plan.timeout)>>]
    /\ UNCHANGED <<level, chip, handlers, isr, attach>>

-----------------------------------------------------------------------------
(* shiftOut and shiftIn.                                                    *)

Place(order, i) == IF order = "LSBFIRST" THEN i - 1 ELSE Width - i

\* The data line at the clock's rising edges.
ShiftOut(order, v) == [i \in 1..Width |-> (v \div 2^Place(order, i)) % 2]

ShiftIn(order, line) ==
    LET Value[i \in 0..Width] ==
            IF i = 0 THEN 0 ELSE Value[i - 1] + line[i] * 2^Place(order, i)
    IN  Value[Width]

Shift(order, back) ==
    /\ Program /\ Spend("number")
    /\ LET line == ShiftOut(order, plan.number)
       IN  seen' = [seen EXCEPT !.answer =
                      <<"shift", order, back, plan.number, line, ShiftIn(back, line)>>]
    /\ UNCHANGED <<level, chip, handlers, isr, attach>>

Next ==
    \/ \E p \in Pins : Edge(p) \/ Detach(p)
    \/ \E p \in Pins, mode \in {"RISING", "FALLING", "CHANGE"}, slot \in plan.slots :
        Attach(p, mode, slot)
    \/ AttachPara \/ AttachType \/ Enter
    \/ \E slot \in Slots : Serve(slot)
    \/ \E p \in AllPins, mode \in Inputs \cup Outputs : PinMode(p, mode)
    \/ \E state \in {0, 1} : Pulse(state)
    \/ \E order, back \in {"LSBFIRST", "MSBFIRST"} : Shift(order, back)

Spec == Init /\ [][Next]_vars

-----------------------------------------------------------------------------
(* Properties.                                                             *)

Excused(by) == seen.excuses \cap by # {}

\* An edge that a pin is attached for brings one call of each function attached to it, with
\* its own parameter, and nothing else does: unless another edge came before the handler
\* looked, or an attach was half done, or the pin was detached before, which leaves the
\* function with a parameter in its place, for the next attach of any function to call.
EdgesTold ==
    /\ seen.stale => Excused({"fn_ex stays", "attaching"})
    /\ seen.spurious => Excused({"fn_ex stays", "attaching"})
    /\ seen.mixed => Excused({"attaching"})
    /\ Program /\ chip.status = {} =>
        \A p \in Pins, s \in Slots :
            s \in seen.attached[p] /\ seen.owed[p][s] > 0 => Excused({"bounced", "attaching"})

\* A pin is what pinMode was told last, except pin 16, that stays an output when it is told
\* to be an input with a pullup.
PinsAsTold(p, mode) ==
    LET pad == chip.pad[p]
    IN  \/ p = 16 /\ mode \in {"INPUT_PULLUP", "OUTPUT_OPEN_DRAIN"}
        \/ (pad.out <=> mode \in Outputs) /\ pad.pull = Pull(mode)

\* The first whole pulse, if it begins and ends in time; 0 if none begins; unless the pin
\* was at the pulse's level all the time, when what is left of it is measured.
FirstOf(w, from, l) == Min({t \in from..Len(w) : w[t] = l} \cup {Len(w)})
PulseRight(w, state, timeout, r) ==
    LET free == FirstOf(w, 1, 1 - state)
        began == FirstOf(w, free, state)
        ended == FirstOf(w, began, 1 - state)
    IN  \/ free - 1 >= timeout
        \/ r = IF began - 1 > timeout THEN 0
               ELSE IF ended - began >= timeout THEN timeout ELSE ended - began

\* What is shifted out is shifted in, in the same order; in the other one it is reversed.
ShiftRight(order, back, v, line, r) ==
    r = IF order = back THEN v ELSE ShiftIn(order, [i \in 1..Width |-> line[Width + 1 - i]])

Answered(a) ==
    CASE a[1] = "mode"  -> PinsAsTold(a[2], a[3])
      [] a[1] = "pulse" -> PulseRight(a[2], a[3], a[4], a[5])
      [] a[1] = "shift" -> ShiftRight(a[2], a[3], a[4], a[5], a[6])

PinsRight == EdgesTold /\ (seen.answer # <<>> => Answered(seen.answer))
=============================================================================
