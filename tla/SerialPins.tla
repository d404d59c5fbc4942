------------------------------ MODULE SerialPins ------------------------------
(***************************************************************************)
(* The two serial ports of the node as owners of pins and interrupts       *)
(* (HardwareSerial.cpp): ports are begun, for both directions or one,      *)
(* moved to other pins and ended; one interrupt handler serves both; the   *)
(* SDK's debug text goes to one of them, through its buffer or past it.    *)
(* Bytes are numbered in the order in which they are given to a port.      *)
(***************************************************************************)
EXTENDS Integers, Sequences

CONSTANTS
    FifoSize,      \* UART_TX_FIFO_SIZE, 128
    Low,           \* the room under which a write arms the interrupt, 10
    Left,          \* bytes in the FIFO at which the interrupt comes, 0x20
    Buffer,        \* what the cbuf of a transmitter holds, 255
    Plans          \* bounds on the calls, the bytes and the failures of malloc

SerialPinsAssumption ==
    /\ {FifoSize, Low, Left, Buffer} \subseteq Nat /\ Left < FifoSize /\ FifoSize > 1
    /\ Plans \subseteq [calls : Nat, kinds : SUBSET STRING, bytes : Nat, received : Nat,
                        failures : Nat]

Uarts == {0, 1}
Pins == {1, 2, 3, 13, 15}

VARIABLES
    uart,      \* _uart of Serial and of Serial1; one that is not live is a null pointer
    regs,      \* the pins' functions, IOSWAP, and of each port the interrupt enable bits
               \* and whether it has received
    line,      \* each port's FIFO and _tx_buffer
    debug,     \* s_uart_debug_nr, and what the SDK's print calls
    call,      \* a call that is not over
    plan,
    seen       \* bytes given and sent, the port debug output was asked for; what went wrong

vars == <<uart, regs, line, debug, call, plan, seen>>

NoUart == [live |-> FALSE, rx |-> FALSE, tx |-> FALSE, rxPin |-> 255, txPin |-> 255]
NoOne == -1
Rom == 2
Idle == [kind |-> "idle"]

\* The boot ROM has left its own port on pins 1 and 3, and its own print.
Init ==
    /\ uart = [u \in Uarts |-> NoUart]
    /\ regs = [pin |-> [p \in Pins |-> IF p \in {1, 3} THEN "boot" ELSE "gpio"],
               swapped |-> FALSE, enabled |-> [u \in Uarts |-> {}],
               received |-> [u \in Uarts |-> FALSE]]
    /\ line = [u \in Uarts |-> [fifo |-> <<>>, tx |-> <<>>]]
    /\ debug = [nr |-> 0, print |-> Rom]
    /\ call = Idle
    /\ plan \in Plans
    /\ seen = [given |-> 0, sent |-> [u \in Uarts |-> 0], wanted |-> NoOne,
               wrong |-> FALSE, hung |-> FALSE, crashed |-> FALSE, excuses |-> {}]

Running == ~seen.hung /\ ~seen.crashed

Calls(kind) ==
    /\ Running /\ call = Idle /\ kind \in plan.kinds /\ plan.calls > 0
    /\ plan' = [plan EXCEPT !.calls = @ - 1]

Directions(r) == {d \in {"rx", "tx"} : r[d]}
Owned(r) == {r.rxPin, r.txPin} \ {255}

\* uart_set_debug.
SetDebug(nr) == debug' = [nr |-> nr, print |-> nr]
DebugOff(u) == IF debug.nr = u THEN SetDebug(NoOne) ELSE UNCHANGED debug
NotWanted(u) == IF seen.wanted = u THEN NoOne ELSE seen.wanted

-----------------------------------------------------------------------------
(* begin, end, swap and setDebugOutput.                                     *)

\* What uart_init makes of a port and a mode.
Made(u, mode) ==
    LET r == u = 0 /\ mode # "tx only"
        t == mode # "rx only"
    IN  [live |-> TRUE, rx |-> r, tx |-> t, rxPin |-> IF r THEN 3 ELSE 255,
         txPin |-> IF t THEN (IF u = 0 THEN 1 ELSE 2) ELSE 255]

\* A port that is begun again without end() leaves pins or interrupts behind.
LeavesBehind(u, new) ==
    IF ~Owned(uart[u]) \subseteq Owned(new) \/ ~Directions(uart[u]) \subseteq Directions(new)
    THEN {"again"} ELSE {}

\* uart_init, to its end: the interrupt is on before _uart is set.
Begin(u, mode) ==
    /\ Calls("begin")
    /\ DebugOff(u)
    /\ LET new == Made(u, mode)
       IN  /\ regs' = [regs EXCEPT
                         !.pin = [p \in Pins |-> IF p \in Owned(new) THEN "special" ELSE @[p]],
                         !.swapped = @ /\ u # 0,
                         !.enabled[u] = @ \cup (Directions(new) \ {"tx"}),
                         !.received[u] = FALSE]
           /\ line' = [line EXCEPT ![u].fifo = IF new.tx THEN <<>> ELSE @]
           /\ call' = [kind |-> "begin", u |-> u, new |-> new]
           /\ seen' = [seen EXCEPT !.wanted = NotWanted(u),
                                   !.excuses = @ \cup LeavesBehind(u, new)]
    /\ UNCHANGED uart

Begun ==
    /\ Running /\ call.kind = "begin"
    /\ uart' = [uart EXCEPT ![call.u] = call.new]
    /\ call' = Idle
    /\ UNCHANGED <<regs, line, debug, plan, seen>>

\* Without memory a port that was begun is lost.
BeginFails(u) ==
    /\ Running /\ call = Idle /\ plan.failures > 0
    /\ plan' = [plan EXCEPT !.failures = @ - 1]
    /\ DebugOff(u)
    /\ uart' = [uart EXCEPT ![u] = NoUart]
    /\ seen' = [seen EXCEPT !.wanted = NotWanted(u),
                            !.excuses = @ \cup (IF uart[u].live THEN {"no memory"} ELSE {})]
    /\ UNCHANGED <<regs, line, call>>

\* uart_uninit: the port's pins are inputs again.
End(u) ==
    /\ Calls("end")
    /\ DebugOff(u)
    /\ regs' = [regs EXCEPT
                  !.pin = [p \in Pins |-> IF p \in Owned(uart[u]) THEN "gpio" ELSE @[p]],
                  !.enabled[u] = @ \ Directions(uart[u])]
    /\ line' = [line EXCEPT ![u].tx = <<>>]
    /\ uart' = [uart EXCEPT ![u] = NoUart]
    /\ seen' = [seen EXCEPT !.wanted = NotWanted(u)]
    /\ UNCHANGED call

\* Serial.swap(): to pins 15 and 13, or back.
Swap ==
    /\ Calls("swap") /\ uart[0].live
    /\ LET old == uart[0]
           out == Owned(old) \cap {1, 3} # {}
           to == IF out THEN [tx |-> 15, rx |-> 13] ELSE [tx |-> 1, rx |-> 3]
           new == [old EXCEPT !.txPin = IF old.tx THEN to.tx ELSE @,
                              !.rxPin = IF old.rx THEN to.rx ELSE @]
       IN  /\ uart' = [uart EXCEPT ![0] = new]
           /\ regs' = [regs EXCEPT
                         !.swapped = out,
                         !.pin = [p \in Pins |->
                                    IF p \in Owned(new)
                                    THEN (IF out THEN "function 4" ELSE "special")
                                    ELSE IF p \in Owned(old) THEN "gpio" ELSE @[p]]]
    /\ UNCHANGED <<line, debug, call, seen>>

\* Asked of a port that only receives, it takes the output away from the other one.
SetDebugOutput(u, on) ==
    /\ Calls("debug") /\ uart[u].live
    /\ IF ~on THEN DebugOff(u)
       ELSE SetDebug(IF uart[u].tx THEN u ELSE NoOne)
    /\ seen' = [seen EXCEPT
                  !.wanted = IF on /\ uart[u].tx THEN u ELSE NotWanted(u),
                  !.excuses = @ \cup (IF on /\ ~uart[u].tx THEN {"taken"} ELSE {})]
    /\ UNCHANGED <<uart, regs, line, call>>

\* available() looks into a port that was never begun.
Available(u) ==
    /\ Calls("available") /\ ~uart[u].live
    /\ seen' = [seen EXCEPT !.crashed = TRUE, !.excuses = @ \cup {"not begun"}]
    /\ UNCHANGED <<uart, regs, line, debug, call>>

-----------------------------------------------------------------------------
(* Bytes.                                                                   *)

\* HardwareSerial::write of a byte for which there is room.
Fits(l) == Len(l.tx) < Buffer \/ (l.tx = <<>> /\ Len(l.fifo) < FifoSize)
Direct(l) == l.tx = <<>> /\ Len(l.fifo) < FifoSize
Put(l, n) == IF Direct(l) THEN [l EXCEPT !.fifo = Append(@, n)] ELSE [l EXCEPT !.tx = Append(@, n)]
Armed(l) == IF Direct(l) /\ FifoSize - Len(l.fifo) < Low THEN {"tx"} ELSE {}

Gives(u) ==
    /\ Running /\ call = Idle /\ plan.bytes > 0
    /\ plan' = [plan EXCEPT !.bytes = @ - 1]

\* The program's bytes; a port that does not transmit takes none.
Write(u) ==
    /\ Gives(u) /\ uart[u].tx /\ Fits(line[u])
    /\ line' = [line EXCEPT ![u] = Put(@, seen.given + 1)]
    /\ regs' = [regs EXCEPT !.enabled[u] = @ \cup Armed(line[u])]
    /\ seen' = [seen EXCEPT !.given = @ + 1]
    /\ UNCHANGED <<uart, debug, call>>

\* uart0_write_char and uart1_write_char, of a character or of an end of line, which is two.
DebugChar(u, many) ==
    /\ Gives(u) /\ debug.print = u
    /\ IF uart[u].tx /\ Len(line[u].tx) < Buffer
       THEN LET one == Put(line[u], seen.given + 1)
            IN  /\ line' = [line EXCEPT ![u] = IF many = 1 THEN one
                                               ELSE IF Fits(one) THEN Put(one, seen.given + 2)
                                               ELSE one]
                /\ regs' = [regs EXCEPT !.enabled[u] = @ \cup Armed(line[u]) \cup
                                            (IF many = 2 THEN Armed(one) ELSE {})]
                /\ call' = IF many = 2 /\ ~Fits(one) THEN [kind |-> "wait", u |-> u] ELSE Idle
                /\ seen' = [seen EXCEPT !.given = @ + (IF many = 2 /\ Fits(one) THEN 2 ELSE 1)]
       ELSE /\ call' = [kind |-> "spin", u |-> u, many |-> many]
            /\ UNCHANGED <<line, regs, seen>>
    /\ UNCHANGED <<uart, debug>>

\* The second half of an end of line finds the buffer full: the main loop yields and arms
\* the interrupt, a callback that yields is the end of the program.
WaitForRoom ==
    /\ Running /\ call.kind = "wait"
    /\ \/ /\ Fits(line[call.u])
          /\ line' = [line EXCEPT ![call.u].tx = Append(@, seen.given + 1)]
          /\ call' = Idle
          /\ seen' = [seen EXCEPT !.given = @ + 1]
          /\ UNCHANGED regs
       \/ /\ ~Fits(line[call.u])
          /\ "tx" \notin regs.enabled[call.u]
          /\ regs' = [regs EXCEPT !.enabled[call.u] = @ \cup {"tx"}]
          /\ UNCHANGED <<line, call, seen>>
       \/ /\ ~Fits(line[call.u])
          /\ seen' = [seen EXCEPT !.crashed = TRUE, !.excuses = @ \cup {"end of line"}]
          /\ UNCHANGED <<line, call, regs>>
    /\ UNCHANGED <<uart, debug, plan>>

\* The buffer was full: the character goes past it, when the FIFO has room for two.
SpinEnds ==
    /\ Running /\ call.kind = "spin" /\ Len(line[call.u].fifo) <= FifoSize - 2
    /\ line' = [line EXCEPT ![call.u].fifo =
                  @ \o [i \in 1..call.many |-> seen.given + i]]
    /\ seen' = [seen EXCEPT
                  !.given = @ + call.many,
                  !.excuses = @ \cup (IF line[call.u].tx # <<>> THEN {"overtaken"} ELSE {})]
    /\ call' = Idle
    /\ UNCHANGED <<uart, regs, debug, plan>>

-----------------------------------------------------------------------------
(* The hardware and the interrupt handler.                                  *)

Shift(u) ==
    /\ line[u].fifo # <<>>
    /\ line' = [line EXCEPT ![u].fifo = Tail(@)]
    /\ seen' = [seen EXCEPT !.sent[u] = Head(line[u].fifo),
                            !.wrong = @ \/ Head(line[u].fifo) < seen.sent[u]]
    /\ UNCHANGED <<uart, regs, debug, call, plan>>

Receive ==
    /\ plan.received > 0 /\ Running
    /\ plan' = [plan EXCEPT !.received = @ - 1]
    /\ regs' = [regs EXCEPT !.received[0] = TRUE]
    /\ UNCHANGED <<uart, line, debug, call, seen>>

Raised(u) ==
    {d \in regs.enabled[u] : IF d = "rx" THEN regs.received[u] ELSE Len(line[u].fifo) <= Left}

\* As much of the buffer as the FIFO has room for.
Moved(l) ==
    LET room == FifoSize - Len(l.fifo)
        n == IF Len(l.tx) < room THEN Len(l.tx) ELSE room
    IN  [fifo |-> l.fifo \o SubSeq(l.tx, 1, n), tx |-> SubSeq(l.tx, n + 1, Len(l.tx))]

\* uart_interrupt_handler: it serves the directions of the ports it knows; an interrupt that
\* it does not serve comes again at once, for ever.
Interrupt ==
    /\ Running /\ \E u \in Uarts : Raised(u) # {}
    /\ LET serves(u, d) == uart[u][d] /\ d \in Raised(u)
       IN  /\ regs' = [regs EXCEPT
                !.received = [u \in Uarts |-> @[u] /\ ~serves(u, "rx")],
                !.enabled = [u \in Uarts |->
                               IF serves(u, "tx") /\ line[u].tx = <<>> THEN @[u] \ {"tx"} ELSE @[u]]]
           /\ line' = [u \in Uarts |-> IF serves(u, "tx") THEN Moved(line[u]) ELSE line[u]]
    /\ seen' = [seen EXCEPT
                  !.hung = \E u \in Uarts : ~Raised(u) \subseteq Directions(uart[u]),
                  !.excuses = @ \cup (IF call.kind = "begin" THEN {"early"} ELSE {})]
    /\ UNCHANGED <<uart, debug, call, plan>>

Next ==
    \/ \E u \in Uarts, mode \in {"full", "rx only", "tx only"} : Begin(u, mode)
    \/ Begun \/ Swap \/ WaitForRoom \/ SpinEnds \/ Receive \/ Interrupt
    \/ \E u \in Uarts : BeginFails(u) \/ End(u) \/ Available(u) \/ Write(u) \/ Shift(u)
    \/ \E u \in Uarts, on \in BOOLEAN : SetDebugOutput(u, on)
    \/ \E u \in Uarts, many \in {1, 2} : DebugChar(u, many)

Spec == Init /\ [][Next]_vars

-----------------------------------------------------------------------------
(* Properties.                                                             *)

Excused(by) == seen.excuses \cap by # {}

\* Between two calls a pin has a serial port's function when it is a pin of a port that is
\* begun, and pins 13 and 15 carry the port that IOSWAP puts there; unless a port was begun
\* again, for less or after swap(), without end(), or lost its memory.  The handler serves
\* every interrupt that is on, except in those two cases and when a byte arrives before
\* begin() has set _uart.  Bytes leave a port in order, unless debug text found its buffer
\* full and went past it; debug text goes where it was last asked to, unless a port that only
\* receives was asked for it.  A callback's end of line that half fits, and available() of a
\* port that was not begun, are the only crashes.
PinsOwned ==
    /\ call = Idle =>
        \/ Excused({"again", "no memory"})
        \/ /\ \A p \in Pins : regs.pin[p] \in {"special", "function 4"} <=>
                                \E u \in Uarts : p \in Owned(uart[u])
           /\ uart[0].live => (regs.swapped <=> Owned(uart[0]) \subseteq {13, 15})
    /\ seen.hung => Excused({"again", "no memory", "early"})
    /\ seen.wrong => Excused({"overtaken"})
    /\ debug.print \in Uarts => uart[debug.print].tx
    /\ seen.wanted # NoOne => debug.print = seen.wanted \/ Excused({"taken"})
    /\ seen.crashed => Excused({"end of line", "not begun"})
=============================================================================
