------------------------------- MODULE TwoWire -------------------------------
(***************************************************************************)
(* The I2C bus as the drivers of the node use it: suli_i2c_* (suli2.cpp)   *)
(* over TwoWire (Wire.cpp) over the lines SDA and SCL (core_esp8266_si2c.c)*)
(* clock by clock, with a device on the other end of each bus.  The lines  *)
(* are those of the pins begun last, for every TwoWire.                    *)
(*                                                                         *)
(* A byte is a sequence of Bits bits; the last one of an address byte asks *)
(* for reading.                                                            *)
(***************************************************************************)
EXTENDS Naturals, SequencesExt, FiniteSetsExt

CONSTANTS
    Buses,       \* pairs of pins, each with the I2C_T of a driver and one device
    Bits,        \* 8
    Addresses,   \* address bytes without the last bit
    Address,     \* the address of every device
    Told,        \* bytes a device may send
    Buffer,      \* BUFFER_LENGTH
    Plans        \* bounds: calls of some kinds, resets of the node, clocks stretched too long

Kinds == {"write", "read", "read_reg"}

TwoWireAssumption ==
    /\ Bits \in Nat \ {0, 1} /\ Buffer \in Nat
    /\ Addresses \subseteq [1..(Bits - 1) -> {0, 1}] /\ Address \in Addresses
    /\ Told \subseteq [1..Bits -> {0, 1}]
    /\ Plans \subseteq [buses : SUBSET Buses, calls : Nat, kinds : SUBSET Kinds, resets : Nat, stretches : Nat]

Octets == [1..Bits -> {0, 1}]

VARIABLES
    pins,    \* twi_sda and twi_scl
    begun,   \* drivers whose suli_i2c_init has been called
    dev,     \* the devices
    call,    \* the call of suli_i2c_* that is going on
    plan,
    seen

vars == <<pins, begun, dev, call, plan, seen>>

NoCall == [step |-> "none"]
Released == [phase |-> "idle", bits |-> <<>>, out |-> 1, next |-> "idle"]

Init ==
    /\ pins = 0 /\ begun = {}
    /\ dev = [b \in Buses |-> [bus |-> Released, heard |-> <<>>, told |-> <<>>, reg |-> <<>>]]
    /\ call = NoCall
    /\ plan \in Plans
    /\ seen = [wrong |-> FALSE, busy |-> FALSE, excuses |-> {}]

-----------------------------------------------------------------------------
(* A device.                                                                *)

\* What a device does with its line when the clock falls.
Falling(d) ==
    [d EXCEPT !.bus.out = CASE d.bus.phase = "ack" -> 0
                            [] d.bus.phase = "send" -> Last(d.told)[Len(d.bus.bits) + 1]
                            [] OTHER -> 1]

To(d, phase, next) == [d EXCEPT !.bus.phase = phase, !.bus.bits = <<>>, !.bus.next = next]

Sending(d) == {[To(d, "send", "idle") EXCEPT !.told = Append(@, byte)] : byte \in Told}

\* What it makes of the bit on the line when the clock rises; it may not acknowledge a
\* byte of data.
Sampled(d, bit) ==
    LET bits == Append(d.bus.bits, bit)
        more == {[d EXCEPT !.bus.bits = bits]}
        heard == [d EXCEPT !.heard = Append(@, bits), !.reg = IF d.heard = <<>> THEN bits ELSE @]
    IN  CASE d.bus.phase \in {"address", "receive", "send"} /\ Len(bits) < Bits -> more
          [] d.bus.phase = "address" /\ Len(bits) = Bits ->
                {IF Front(bits) = Address THEN To(d, "ack", IF Last(bits) = 1 THEN "send" ELSE "receive")
                 ELSE To(d, "idle", "idle")}
          [] d.bus.phase = "receive" /\ Len(bits) = Bits -> {To(heard, "ack", "receive"), To(d, "idle", "idle")}
          [] d.bus.phase = "send" /\ Len(bits) = Bits -> {To(d, "asked", "idle")}
          [] d.bus.phase = "ack" -> IF d.bus.next = "send" THEN Sending(d) ELSE {To(d, "receive", "idle")}
          [] d.bus.phase = "asked" -> IF bit = 0 THEN Sending(d) ELSE {To(d, "idle", "idle")}
          [] OTHER -> {d}

Started(d) == [To(d, "address", "idle") EXCEPT !.heard = <<>>, !.told = <<>>, !.bus.out = 1]
Stopped(d) == [To(d, "idle", "idle") EXCEPT !.bus.out = 1]

And(a, b) == IF a = 1 /\ b = 1 THEN 1 ELSE 0

\* A clock with the master's line at `bit`: the device after it and the level read.
\* A device that keeps the clock low for more than TWI_CLOCK_STRETCH misses it.
Clock(bit) ==
    LET d == Falling(dev[pins])
        level == And(bit, d.bus.out)
    IN  {[dev |-> n, level |-> level, stretched |-> FALSE] : n \in Sampled(d, level)}
        \cup (IF plan.stretches > 0 THEN
                    {[dev |-> dev[pins], level |-> And(bit, dev[pins].bus.out), stretched |-> TRUE]}
                ELSE {})

Clocked(r) ==
    /\ dev' = [dev EXCEPT ![pins] = r.dev]
    /\ plan' = IF r.stretched THEN [plan EXCEPT !.stretches = @ - 1] ELSE plan

Stretch(s, r) == IF r.stretched THEN [s EXCEPT !.excuses = @ \cup {"stretched"}] ELSE s

-----------------------------------------------------------------------------
(* The calls.                                                               *)

\* suli_i2c_init: the lines of all TwoWires are these pins from here on.
Begin(b) ==
    /\ call = NoCall /\ b \in plan.buses \ begun
    /\ begun' = begun \cup {b} /\ pins' = b
    /\ UNCHANGED <<dev, call, plan, seen>>

\* The part of a transfer that is about to start.
Part(kind, b, a, bytes, len, stop) ==
    [step |-> "start", kind |-> kind, bus |-> b, address |-> a, tx |-> bytes, len |-> len,
     stop |-> stop, bits |-> <<>>, at |-> 0, got |-> <<>>, clocks |-> 0]

\* suli_i2c_write(_reg), suli_i2c_read and suli_i2c_read_reg up to the start; bytes
\* beyond the buffer are not sent.
Call(b) ==
    /\ call = NoCall /\ b \in begun /\ plan.calls > 0
    /\ plan' = [plan EXCEPT !.calls = @ - 1]
    /\ \E kind \in plan.kinds, a \in Addresses, len \in {1, Buffer + 1} :
        \E byte \in Octets :
            call' = LET n == Min({len, Buffer})
                    IN  CASE kind = "write" -> Part(kind, b, a, [k \in 1..n |-> byte], len, TRUE)
                          [] kind = "read" -> Part(kind, b, a, <<>>, n, TRUE)
                          [] OTHER -> Part(kind, b, a, <<byte>>, n, FALSE)
    /\ seen' = [seen EXCEPT !.excuses = IF pins # b THEN @ \cup {"pins"} ELSE @]
    /\ dev' = [d \in Buses |-> [dev[d] EXCEPT !.heard = <<>>, !.told = IF @ = <<>> THEN @ ELSE <<Last(@)>>]]
    /\ UNCHANGED <<pins, begun>>

Writing == call.kind = "write" \/ ~call.stop

\* endTransmission and requestFrom hand on what twi_writeTo and twi_readFrom return;
\* suli_i2c_read_reg reads whatever became of its write.
Return(result, s) ==
    LET d == dev'[call.bus]
        right == IF call.kind = "write" THEN d.heard = call.tx
                 ELSE /\ IsPrefix(call.got, d.told) /\ Len(call.got) = call.len
                      /\ call.kind = "read_reg" => d.reg = Head(call.tx)
    IN  IF call.kind = "read_reg" /\ ~call.stop
        THEN /\ call' = Part("read_reg", call.bus, call.address, call.tx, call.len, TRUE)
             /\ seen' = [s EXCEPT !.excuses = IF result # 0 THEN @ \cup {"register"} ELSE @]
        ELSE /\ call' = NoCall
             /\ seen' = [s EXCEPT !.wrong = @ \/ (result = 0 /\ ~right), !.busy = @ \/ result = 4]

\* twi_write_start
WriteStart ==
    /\ call.step = "start"
    /\ IF dev[pins].bus.out = 0
       THEN UNCHANGED dev /\ Return(4, seen)
       ELSE /\ dev' = [dev EXCEPT ![pins] = Started(@)]
            /\ call' = [call EXCEPT !.step = "out", !.bits = Append(call.address, IF Writing THEN 0 ELSE 1)]
            /\ UNCHANGED seen
    /\ UNCHANGED <<pins, begun, plan>>

\* A bit of twi_write_byte.
WriteBit ==
    /\ call.step = "out" /\ call.bits # <<>>
    /\ \E r \in Clock(Head(call.bits)) :
        /\ Clocked(r)
        /\ call' = [call EXCEPT !.bits = Tail(@)]
        /\ seen' = Stretch(seen, r)
    /\ UNCHANGED <<pins, begun>>

\* Mutant: the acknowledgement of data is not looked at.
AckedAddress(level) == level = 0 \/ call.at > 0

Acked(level) == level = 0

\* The acknowledgement, and the byte or the transfer behind it; what is not
\* acknowledged ends the transfer without a stop.
ReadAck ==
    /\ call.step = "out" /\ call.bits = <<>>
    /\ \E r \in Clock(1) :
        /\ Clocked(r)
        /\ LET s == Stretch(seen, r)
           IN  CASE ~Acked(r.level) -> Return(IF call.at = 0 THEN 2 ELSE 3, s)
                 [] Acked(r.level) /\ Writing /\ call.at < Len(call.tx) ->
                        call' = [call EXCEPT !.at = @ + 1, !.bits = call.tx[call.at + 1]] /\ seen' = s
                 [] Acked(r.level) /\ ~Writing ->
                        call' = [call EXCEPT !.step = "in"] /\ seen' = s
                 [] OTHER -> call' = [call EXCEPT !.step = IF call.stop THEN "stop" ELSE "free"] /\ seen' = s
    /\ UNCHANGED <<pins, begun>>

\* A bit of twi_read_byte.
ReadBit ==
    /\ call.step = "in" /\ Len(call.bits) < Bits
    /\ \E r \in Clock(1) :
        /\ Clocked(r)
        /\ call' = [call EXCEPT !.bits = Append(@, r.level)]
        /\ seen' = Stretch(seen, r)
    /\ UNCHANGED <<pins, begun>>

\* Every byte is acknowledged, the last one too.
WriteAck ==
    /\ call.step = "in" /\ Len(call.bits) = Bits
    /\ \E r \in Clock(0) :
        /\ Clocked(r)
        /\ call' = [call EXCEPT !.got = Append(@, call.bits), !.bits = <<>>,
                                !.step = IF Len(call.got) + 1 = call.len THEN "stop" ELSE "in"]
        /\ seen' = Stretch(seen, r)
    /\ UNCHANGED <<pins, begun>>

\* twi_write_stop: no stop for a device that keeps its line low.
WriteStop ==
    /\ call.step = "stop"
    /\ \E r \in Clock(0) :
        /\ Clocked([r EXCEPT !.dev = IF @.bus.out = 1 /\ ~r.stretched THEN Stopped(@) ELSE @])
        /\ seen' = Stretch(seen, r)
    /\ call' = [call EXCEPT !.step = "free"]
    /\ UNCHANGED <<pins, begun>>

\* At most 10 clocks for a device that still keeps its line low.
Free ==
    /\ call.step = "free"
    /\ IF dev[pins].bus.out = 0 /\ call.clocks < Bits + 2
       THEN /\ \E r \in Clock(1) : Clocked(r) /\ seen' = Stretch(seen, r)
            /\ call' = [call EXCEPT !.clocks = @ + 1]
       ELSE UNCHANGED <<dev, plan>> /\ Return(0, seen)
    /\ UNCHANGED <<pins, begun>>

\* The node restarts in the middle of a call; the devices do not.
Reset ==
    /\ call # NoCall /\ plan.resets > 0
    /\ plan' = [plan EXCEPT !.resets = @ - 1]
    /\ pins' = 0 /\ begun' = {} /\ call' = NoCall
    /\ seen' = [seen EXCEPT !.excuses = @ \cup {"reset"}]
    /\ UNCHANGED dev

Next ==
    \/ \E b \in Buses : Begin(b) \/ Call(b)
    \/ WriteStart \/ WriteBit \/ ReadAck \/ ReadBit \/ WriteAck \/ WriteStop \/ Free \/ Reset

Spec == Init /\ [][Next]_vars

-----------------------------------------------------------------------------
(* Properties.                                                             *)

Excused(by) == seen.excuses \cap by # {}

\* A transfer that reports success has given the driver's own device all the bytes
\* that fit into the buffer, or has read what the device sent, from the register that
\* was named; and no sequence of transfers, answered or not, leaves the bus busy (the
\* last byte of a read is acknowledged, so the device goes on sending, and only the
\* clocks behind a stop get the line back).  Unless another driver was begun since
\* (the pins are global), the register was not acknowledged (suli_i2c_read_reg reads all
\* the same), the clock was stretched too long, or the node restarted in a transfer
\* (nothing clocks a device that keeps the line low when the next one starts).
BusRight ==
    /\ seen.wrong => Excused({"pins", "register", "stretched"})
    /\ seen.busy => Excused({"reset", "stretched"})
=============================================================================
