------------------------------ MODULE SerialPort ------------------------------
(***************************************************************************)
(* A serial port of the node (HardwareSerial.cpp, cbuf.h): bytes go to the *)
(* transmitter's FIFO while there is room and nothing waits before them,   *)
(* and to a buffer otherwise, which the interrupt of the almost empty FIFO *)
(* moves on.  Bytes are written by the main loop, which may wait for room, *)
(* and by SDK callbacks, which run while the main loop waits.  Bytes are   *)
(* numbered in the order in which they are accepted.                       *)
(***************************************************************************)
EXTENDS Naturals, SequencesExt, FiniteSetsExt

CONSTANTS
    FifoSize,      \* UART_TX_FIFO_SIZE, 128
    Low,       \* the room under which a write arms the interrupt, 10
    Left,      \* bytes in the FIFO at which the interrupt comes, 0x20
    Buffer,    \* what a cbuf of SERIAL_TX_BUFFER_SIZE or SERIAL_RX_BUFFER_SIZE holds, 255
    Plans      \* bounds on what is written, received, flushed and begun again

SerialPortAssumption ==
    /\ {FifoSize, Low, Left, Buffer} \subseteq Nat /\ Left < FifoSize /\ Low < FifoSize
    /\ Plans \subseteq [writes : Nat, callbacks : Nat, flushes : Nat, begins : Nat, received : Nat]

Writers == {"loop", "callback"}

VARIABLES
    fifo,      \* the transmitter's FIFO
    tx,        \* _tx_buffer
    rx,        \* _rx_buffer
    armed,     \* the FIFO-empty interrupt is enabled
    pc,        \* each writer's place in write() or flush(), and the room it has read
    plan,
    seen       \* numbers of the bytes accepted, sent and received; what was lost and why

vars == <<fifo, tx, rx, armed, pc, plan, seen>>

Idle == [step |-> "idle", room |-> 0]

Init ==
    /\ fifo = <<>> /\ tx = <<>> /\ rx = <<>> /\ armed = FALSE
    /\ pc = [w \in Writers |-> Idle]
    /\ plan \in Plans
    /\ seen = [accepted |-> 0, sent |-> 0, written |-> FALSE, came |-> 0, got |-> 0,
               lost |-> {}, dropped |-> {}, wrong |-> FALSE, crashed |-> FALSE, excuses |-> {}]

Room == FifoSize - Len(fifo)

\* The SDK's callbacks come when the main loop has returned or waits.
MayRun(w) ==
    /\ ~seen.crashed
    /\ IF w = "loop" THEN pc["callback"] = Idle ELSE pc["loop"].step \in {"idle", "yield", "flush"}

At(w, step) == MayRun(w) /\ pc[w].step = step

-----------------------------------------------------------------------------
(* HardwareSerial::write.                                                   *)

Budget(w) == IF w = "loop" THEN "writes" ELSE "callbacks"

Write(w) ==
    /\ At(w, "idle") /\ plan[Budget(w)] > 0
    /\ plan' = [plan EXCEPT ![Budget(w)] = @ - 1]
    /\ pc' = [pc EXCEPT ![w] = [step |-> "empty", room |-> Room]]
    /\ seen' = [seen EXCEPT !.written = TRUE]
    /\ UNCHANGED <<fifo, tx, rx, armed>>

\* uart_transmit_char: the room was read before, and a full FIFO takes nothing.
TransmitChar(w) ==
    /\ At(w, "empty") /\ pc[w].room > 0 /\ tx = <<>>
    /\ LET n == seen.accepted + 1
       IN  IF Room > 0 THEN /\ fifo' = Append(fifo, n)
                            /\ seen' = [seen EXCEPT !.accepted = n]
           ELSE /\ seen' = [seen EXCEPT !.accepted = n, !.lost = @ \cup {n}]
                /\ UNCHANGED fifo
    /\ pc' = [pc EXCEPT ![w] = IF @.room < Low THEN [@ EXCEPT !.step = "arm"] ELSE Idle]
    /\ UNCHANGED <<tx, rx, armed, plan>>

\* uart_arm_tx_interrupt after a byte that went to the FIFO.
Arm(w) ==
    /\ At(w, "arm")
    /\ armed' = TRUE
    /\ pc' = [pc EXCEPT ![w] = Idle]
    /\ UNCHANGED <<fifo, tx, rx, plan, seen>>

Wait(w) ==
    /\ At(w, "empty") /\ (pc[w].room = 0 \/ tx # <<>>)
    /\ pc' = [pc EXCEPT ![w].step = "push"]
    /\ UNCHANGED <<fifo, tx, rx, armed, plan, seen>>

\* A byte goes into the buffer, and nobody arms the interrupt for it.
Push(w) ==
    /\ At(w, "push") /\ Len(tx) < Buffer
    /\ tx' = Append(tx, seen.accepted + 1)
    /\ seen' = [seen EXCEPT !.accepted = @ + 1]
    /\ pc' = [pc EXCEPT ![w] = Idle]
    /\ UNCHANGED <<fifo, rx, armed, plan>>

\* yield() with a full buffer; in a callback it is abort().
Yield(w) ==
    /\ At(w, "push") /\ Len(tx) = Buffer
    /\ IF w = "loop" THEN pc' = [pc EXCEPT ![w].step = "yield"] /\ UNCHANGED seen
       ELSE seen' = [seen EXCEPT !.crashed = TRUE] /\ UNCHANGED pc
    /\ UNCHANGED <<fifo, tx, rx, armed, plan>>

Resume ==
    /\ At("loop", "yield")
    /\ armed' = TRUE
    /\ pc' = [pc EXCEPT !["loop"].step = "push"]
    /\ UNCHANGED <<fifo, tx, rx, plan, seen>>

-----------------------------------------------------------------------------
(* The rest of the main loop's calls.                                       *)

\* flush() of a port that was written to.
Flush ==
    /\ At("loop", "idle") /\ plan.flushes > 0 /\ seen.written
    /\ plan' = [plan EXCEPT !.flushes = @ - 1]
    /\ pc' = [pc EXCEPT !["loop"].step = "flush"]
    /\ UNCHANGED <<fifo, tx, rx, armed, seen>>

Flushed ==
    /\ At("loop", "flush") /\ tx = <<>> /\ fifo = <<>>
    /\ pc' = [pc EXCEPT !["loop"] = Idle]
    /\ seen' = [seen EXCEPT !.written = FALSE]
    /\ UNCHANGED <<fifo, tx, rx, armed, plan>>

\* begin() of a port in use, as suli_uart_init does it: the FIFOs are reset, the
\* buffers and the interrupts stay.
BeginAgain ==
    /\ At("loop", "idle") /\ plan.begins > 0
    /\ plan' = [plan EXCEPT !.begins = @ - 1]
    /\ fifo' = <<>>
    /\ seen' = [seen EXCEPT !.written = FALSE, !.lost = @ \cup ToSet(fifo),
                            !.excuses = @ \cup {"begin"}]
    /\ UNCHANGED <<tx, rx, armed, pc>>

\* read() of what available() has found.
Read ==
    /\ At("loop", "idle") /\ rx # <<>>
    /\ rx' = Tail(rx)
    /\ seen' = [seen EXCEPT !.got = Head(rx),
                            !.wrong = @ \/ (seen.got + 1)..(Head(rx) - 1) #
                                           {n \in seen.dropped : n > seen.got /\ n < Head(rx)}]
    /\ UNCHANGED <<fifo, tx, armed, pc, plan>>

-----------------------------------------------------------------------------
(* The hardware and its interrupt.                                          *)

\* What the interrupt came between.
Between(name) ==
    IF \E w \in Writers : pc[w].step \in {"empty", "push"} THEN {name} ELSE {}

\* _tx_empty_irq with nothing in the buffer: uart_disarm_tx_interrupt.
Disarm ==
    /\ armed /\ Len(fifo) <= Left /\ tx = <<>>
    /\ armed' = FALSE
    /\ seen' = [seen EXCEPT !.excuses = @ \cup Between("disarmed")]
    /\ UNCHANGED <<fifo, tx, rx, pc, plan>>

\* Mutant: one byte less goes to the FIFO than leaves the buffer.
MoveOneShort(n) == SubSeq(tx, 2, n)

Moved(n) == SubSeq(tx, 1, n)

\* _tx_empty_irq: as much as there is room for.
TxEmptyIrq ==
    /\ armed /\ Len(fifo) <= Left /\ tx # <<>>
    /\ LET n == Min({Len(tx), Room})
       IN  fifo' = fifo \o Moved(n) /\ tx' = SubSeq(tx, n + 1, Len(tx))
    /\ seen' = [seen EXCEPT !.excuses = @ \cup Between("moved")]
    /\ UNCHANGED <<rx, armed, pc, plan>>

\* The line takes a byte from the FIFO.
Shift ==
    /\ fifo # <<>>
    /\ fifo' = Tail(fifo)
    /\ seen' = [seen EXCEPT !.sent = Head(fifo),
                            !.wrong = @ \/ ~({n \in (seen.sent + 1)..seen.accepted : n < Head(fifo)}
                                             \subseteq seen.lost)
                                        \/ Head(fifo) <= seen.sent]
    /\ UNCHANGED <<tx, rx, armed, pc, plan>>

\* _rx_complete_irq: a full buffer takes nothing.
RxCompleteIrq ==
    /\ plan.received > 0
    /\ plan' = [plan EXCEPT !.received = @ - 1]
    /\ LET n == seen.came + 1
       IN  IF Len(rx) < Buffer THEN rx' = Append(rx, n) /\ seen' = [seen EXCEPT !.came = n]
           ELSE seen' = [seen EXCEPT !.came = n, !.dropped = @ \cup {n}] /\ UNCHANGED rx
    /\ UNCHANGED <<fifo, tx, armed, pc>>

Next ==
    \/ \E w \in Writers : Write(w) \/ TransmitChar(w) \/ Arm(w) \/ Wait(w) \/ Push(w) \/ Yield(w)
    \/ Resume \/ Flush \/ Flushed \/ BeginAgain \/ Read
    \/ Disarm \/ TxEmptyIrq \/ Shift \/ RxCompleteIrq

Spec == Init /\ [][Next]_vars

-----------------------------------------------------------------------------
(* Properties.                                                             *)

Excused(by) == seen.excuses \cap by # {}

\* Every byte that write() has accepted goes out, once and in order, and what waits in
\* the buffer between two calls waits for an interrupt that will come; unless the port
\* was begun again, or the interrupt came between a writer's look at the FIFO and at the
\* buffer (it filled the FIFO, and the byte is lost) or between that and the byte's
\* going into the buffer (it found nothing and disarmed itself: the byte waits for
\* others to fill the buffer, and flush() for ever).
SerialServed ==
    /\ ~seen.wrong
    /\ seen.lost # {} => Excused({"moved", "begin"})
    /\ (tx # <<>> /\ \A w \in Writers : pc[w].step \in {"idle", "flush"}) => armed \/ Excused({"disarmed"})
=============================================================================
