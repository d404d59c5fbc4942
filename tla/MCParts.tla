------------------------------- MODULE MCParts -------------------------------
(***************************************************************************)
(* The parts of the node's firmware below its network code, and two of the *)
(* server's, each by itself on a small instance: a behaviour picks one     *)
(* part and is a behaviour of it.  The parts take turns with the variables *)
(* m1..m5, plan and seen; those that are proved about, the ring buffer,    *)
(* the row cache and the builds, have their own.                           *)
(***************************************************************************)
EXTENDS CircularBuffer, RowCache, BuildThreads, Integers, SequencesExt

VARIABLES
    part,                     \* which part this behaviour is of
    m1, m2, m3, m4, m5,       \* its state
    plan, seen

slots == <<m1, m2, m3, m4, m5, plan, seen>>

-----------------------------------------------------------------------------
(* The hardware timers.  Plans: the list grows; an entry is removed; an     *)
(* interval changes; a callback does something.                             *)

Hard == INSTANCE SuliTimers WITH
    head <- m1, entry <- m2, timer0 <- m3, main <- m4,
    Timers <- 1..3, Intervals <- {2, 3}, Round <- 9, Idle <- 5,
    Plans <- {[installs |-> 3, removes |-> 0, changes |-> 0, callbacks |-> {"none"}],
              [installs |-> 2, removes |-> 1, changes |-> 0, callbacks |-> {"none"}],
              [installs |-> 2, removes |-> 0, changes |-> 1, callbacks |-> {"none"}],
              [installs |-> 2, removes |-> 0, changes |-> 0,
               callbacks |-> {"none", "again", "remove self", "remove other"}]}

Soft == INSTANCE SoftTimers WITH
    ends <- m1, entry <- m2, clock <- m3, walk <- m4,
    Timers <- 1..3, Intervals <- {1, 2}, Round <- 4,
    Plans <- {[installs |-> 3, removes |-> 0, changes |-> 0, ticks |-> 3, callbacks |-> {"none"}],
              [installs |-> 3, removes |-> 1, changes |-> 0, ticks |-> 2, callbacks |-> {"none"}],
              [installs |-> 2, removes |-> 0, changes |-> 1, ticks |-> 4, callbacks |-> {"none"}],
              [installs |-> 2, removes |-> 0, changes |-> 0, ticks |-> 3,
               callbacks |-> {"none", "install", "remove self", "replace", "remove other"}]}

\* More is written than the FIFO and the buffer hold; a callback writes too; more is
\* received than the buffer holds.
Serial == INSTANCE SerialPort WITH
    fifo <- m1, tx <- m2, rx <- m3, armed <- m4, pc <- m5,
    FifoSize <- 3, Low <- 2, Left <- 1, Buffer <- 2,
    Plans <- {[writes |-> 7, callbacks |-> 0, flushes |-> 1, begins |-> 1, received |-> 0],
              [writes |-> 4, callbacks |-> 3, flushes |-> 0, begins |-> 0, received |-> 0],
              [writes |-> 1, callbacks |-> 0, flushes |-> 0, begins |-> 0, received |-> 5]}

\* The loop's clock goes round three times.
Loop == INSTANCE MainLoop WITH
    cont <- m1, queue <- m2, timer <- m3, running <- m4, wait <- m5, clock <- plan,
    Delays <- {0, 1, 3}, Round <- 3, Period <- 2, Rounds <- 3, Callbacks <- 2

Pwm == INSTANCE SoftPwm WITH
    mask <- m1, values <- m2, steps <- m3, isr <- m4, timer <- m5, call <- plan,
    Pins <- {1, 2}, Full <- 3, Multipliers <- {1, 2}, Calls <- 3

\* One bus and two; a register; a node that restarts; a clock held too long.
Bus == INSTANCE TwoWire WITH
    pins <- m1, begun <- m2, dev <- m3, call <- m4,
    Buses <- {1, 2}, Bits <- 2, Buffer <- 2,
    Addresses <- {<<0>>, <<1>>}, Address <- <<1>>, Told <- {<<0, 0>>, <<1, 0>>},
    Plans <- {[buses |-> {1}, calls |-> 3, kinds |-> {"write", "read"},
               resets |-> 0, stretches |-> 0],
              [buses |-> {1, 2}, calls |-> 2, kinds |-> {"read", "write"},
               resets |-> 0, stretches |-> 0],
              [buses |-> {1}, calls |-> 2, kinds |-> {"read_reg"},
               resets |-> 0, stretches |-> 0],
              [buses |-> {1}, calls |-> 3, kinds |-> {"read"},
               resets |-> 1, stretches |-> 0],
              [buses |-> {1}, calls |-> 2, kinds |-> {"read", "write"},
               resets |-> 0, stretches |-> 3]}

\* A second connection; a hello sent again.
Stream == INSTANCE SecureStream WITH
    node <- m1, server <- m2, down <- m3, up <- m4,
    Block <- 2, Hello <- 3, Word <- 1,
    Plans <- {[connects |-> 2, hellos |-> 0, down |-> 3, up |-> 1],
              [connects |-> 1, hellos |-> 1, down |-> 1, up |-> 3],
              [connects |-> 2, hellos |-> 0, down |-> 0, up |-> 4]}

Real == INSTANCE CryptoBlocks

\* A cipher of three digits to the base 4: in all modes, in pieces; counters that carry.
NumberOf(b) == (b[1] * 4 + b[2]) * 4 + b[3]
BlockOf(n) == <<n \div 16, (n \div 4) % 4, n % 4>>
DigitsKey(T, d, key) == key
DigitsEcb(T, key, d, b) ==
    IF d = "encrypt" THEN BlockOf((NumberOf(b) * 13 + key) % 64)
    ELSE BlockOf(((NumberOf(b) + 64 - key) * 5) % 64)
Modes == INSTANCE AesModes WITH
    end <- m1, wire <- m2, plain <- m3, tables <- m4, plan <- plan,
    Block <- 3, Byte <- 4, Xor <- Real!ByteXor, GenTables <- <<1>>, SetKey <- DigitsKey,
    Ecb <- DigitsEcb, NoSchedule <- 0,
    Plans <- {[mode |-> m, key |-> 7, iv |-> iv,
               message |-> <<3, 1, 2, 0, 2, 1, 1, 3, 0, 2, 2, 0>>,
               expect |-> <<>>,
               pieces |-> IF m \in {"ctr", "cfb128"} THEN {1, 2, 3, 4}
                          ELSE IF m = "cbc" THEN {0, 2, 3, 6} ELSE {1, 3}] :
                m \in {"ecb", "cbc", "cfb128", "cfb8", "ctr"},
                iv \in {<<0, 3, 2>>, <<3, 3, 2>>, <<2, 1, 2>>}}

\* AES itself, with its own test vectors.
AesSetKey(T, d, key) ==
    IF d = "encrypt" THEN Real!SetKeyEnc(T, key) ELSE Real!SetKeyDec(T, key)
Aes == INSTANCE AesModes WITH
    end <- m1, wire <- m2, plain <- m3, tables <- m4, plan <- plan,
    Block <- 16, Byte <- 256, Xor <- Real!ByteXor, GenTables <- Real!GenTables,
    SetKey <- AesSetKey, Ecb <- Real!CryptEcb, NoSchedule <- Real!Refused,
    Plans <- Real!AesUses

\* A hash of blocks of four numbers: every length of a message, in pieces; keys of every
\* length; a length that does not fit its low word; a context used again.
Mix(a, b) == (a * 97 + b + 1) % 9973
MixAll(b) == FoldLeft(Mix, 0, b)
MixBlock(state, b) == Mix(MixAll(b), state)
MixStart(variant) == variant + 5
MixLength(variant, high, low) == <<high, low>>
MixOutput(state, variant) == IF variant = 0 THEN <<state, state * 3>> ELSE <<state>>
MixPad(pad, k) == pad + k * 1000
Digests == INSTANCE Digest WITH
    ctx <- m1, call <- m2, out <- m3, plan <- plan,
    Block <- 4, Room <- 2, Word <- 32, Padding <- 128, Ipad <- 54, Opad <- 92,
    Xor <- MixPad, Start <- MixStart, Compress <- MixBlock, LengthBytes <- MixLength,
    Output <- MixOutput,
    Plans <- {[variant |-> v, keys |-> {<<-1>>, <<1>>, <<1, 2, 3, 4>>, <<1, 2, 3, 4, 5>>},
               message |-> [i \in 1..c.longest |-> i], pieces |-> c.pieces,
               calls |-> c.calls, expect |-> <<>>] :
                v \in {0, 1},
                c \in {[longest |-> 37, pieces |-> {0, 1, 3, 6}, calls |-> 1],
                      [longest |-> 9, pieces |-> {1, 3, 6}, calls |-> 3]}}

\* SHA-256, SHA-224 and MD5, with their own test vectors.
Hashes == INSTANCE Digest WITH
    ctx <- m1, call <- m2, out <- m3, plan <- plan,
    Block <- 64, Room <- 56, Word <- 2^24, Padding <- 128, Ipad <- 54, Opad <- 92,
    Xor <- Real!ByteXor, Start <- Real!HashStart, Compress <- Real!HashCompress,
    LengthBytes <- Real!HashLength, Output <- Real!HashOutput,
    Plans <- Real!ShaVectors \cup Real!Md5Vectors

\* Sums, quotients with guesses too large, powers with windows, primes: a case of each kind.
Big(s, p) == [s |-> s, p |-> p]
Both(P) == {Big(s, p) : s \in {1, -1}, p \in P}
Nothing == {Big(1, <<>>)}
Draws == {{<<2, 3>>, <<77, 0>>}, {<<0, 200>>, <<0, 248>>}}
Use(kinds, calls, X, A, B) ==
    {[num |-> [n \in {"x", "a", "b"} |-> CASE n = "x" -> x [] n = "a" -> a [] n = "b" -> b],
      kinds |-> kinds, calls |-> calls, draws |-> Draws] : x \in X, a \in A, b \in B}
Mpis == INSTANCE Bignum WITH
    num <- m1, want <- m2, answer <- m3, plan <- plan,
    Bits <- 8, SmallPrimes <- <<3, 5, 7, 11, 13>>,
    Plans <-
        Use({"sum", "move"}, 1, {Big(1, <<7, 7, 7>>)},
            Both({<<255, 255>>, <<0, 1>>, <<128>>}), Both({<<255>>, <<1, 1>>})) \cup
        Use({"product", "compare", "shift"}, 1, Nothing,
            Both({<<255, 63>>, <<0, 1>>}), Both({<<255>>, <<1, 0>>})) \cup
        Use({"sum", "shift"}, 2, Nothing, Both({<<255>>}), Both({<<1>>})) \cup
        Use({"quotient"}, 1, Nothing,
            Both({<<255, 255, 127>>, <<0, 0, 64>>, <<0, 128>>, <<0>>, <<0, 255, 255, 64>>}),
            Both({<<255>>, <<255, 127>>, <<1, 64>>, <<128, 128>>, <<2, 0>>,
                  <<255, 255, 127>>})) \cup
        Use({"remainder", "divisor", "text"}, 1, Nothing,
            Both({<<4, 255>>, <<0>>, <<9>>}), Both({<<2>>, <<9>>, <<255>>, <<1, 1>>})) \cup
        Use({"power"}, 1, {Big(1, p) : p \in {<<0>>, <<5>>, <<3, 0, 0, 1>>, <<85, 85, 85, 85>>}},
            Both({<<200, 1>>, <<2>>, <<0>>}),
            Both({<<1>>, <<255>>, <<1, 1>>, <<255, 127>>, <<7, 0>>})) \cup
        Use({"prime"}, 1, Nothing,
            Both({<<l, h>> : l \in {0, 1, 2, 3, 9, 33, 121, 223, 225, 251}, h \in {0, 1}}),
            {Big(1, <<1>>)}) \cup
        Use({"generate"}, 1, Nothing, {Big(1, <<1>>)}, {Big(1, <<1>>)})

\* Texts replaced; two Strings made of each other; one String changed; questions.
LowerOf(c) == IF c = "A" THEN "a" ELSE c
Strings == INSTANCE WString WITH
    str <- m1, text <- m2, calls <- m3, answer <- m4, fault <- m5,
    Chars <- {"a", "A", " "}, Lower <- LowerOf, Names <- {1, 2}, Longest <- 4,
    Plans <- {[calls |-> 1, kinds |-> {"replace"}, names |-> {1}, chars |-> {"a", "A"},
               longest |-> 4, room |-> 1, literal |-> 3],
              [calls |-> 3, kinds |-> {"assign", "append", "reserve", "sum"}, names |-> {1, 2},
               chars |-> {"a"}, longest |-> 2, room |-> 1, literal |-> 1],
              [calls |-> 2, kinds |-> {"change", "append"}, names |-> {1},
               chars |-> {"a", "A", " "}, longest |-> 3, room |-> 1, literal |-> 1],
              [calls |-> 1, kinds |-> {"ask"}, names |-> {1, 2}, chars |-> {"a", "A"},
               longest |-> 3, room |-> 0, literal |-> 2]}

\* Registrations without memory; a String that moves; more events than a queue takes.
Program == INSTANCE UserProgram WITH
    value <- m1, string <- m2, methods <- m3, queue <- m4, told <- m5, left <- plan,
    Numbers <- {"u", "i"}, TypeOf <- [v \in {"u", "i"} |-> [signed |-> v = "i", bits |-> 2]],
    Functions <- {"f", "g"}, Arguments <- {-1, 1, 2, 3}, Texts <- {1, 2},
    NameSet <- {"x", "y"}, MaxSize <- 2,
    Plans <- {[registrations |-> 2, requests |-> 1, changes |-> 0, moves |-> 0,
               events |-> 0, posts |-> {}, failures |-> 1],
              [registrations |-> 2, requests |-> 1, changes |-> 2, moves |-> 1,
               events |-> 0, posts |-> {}, failures |-> 0],
              [registrations |-> 0, requests |-> 0, changes |-> 1, moves |-> 1,
               events |-> 3, posts |-> {"u", "the String"}, failures |-> 0]}

\* Ports begun, moved, ended; debug text behind a full buffer; a port begun for less.
Ports == INSTANCE SerialPins WITH
    uart <- m1, regs <- m2, line <- m3, debug <- m4, call <- m5,
    FifoSize <- 3, Low <- 2, Left <- 1, Buffer <- 2,
    Plans <- {[calls |-> 3, kinds |-> {"begin", "end", "swap", "debug", "available"},
               bytes |-> 0, received |-> 1, failures |-> 1],
              [calls |-> 4, kinds |-> {"begin", "debug"}, bytes |-> 0, received |-> 0,
               failures |-> 0],
              [calls |-> 2, kinds |-> {"begin", "debug"}, bytes |-> 6, received |-> 0,
               failures |-> 0],
              [calls |-> 2, kinds |-> {"begin", "end"}, bytes |-> 4, received |-> 0,
               failures |-> 0]}

\* Edges and what is attached to them; modes; pulses in every wave; every number.
PinsUse(edges, attaches, what, detaches, inside) ==
    [edges |-> edges, attaches |-> attaches, slots |-> what, detaches |-> detaches,
     inside |-> inside, modes |-> 0, wave |-> <<>>, timeout |-> 0, number |-> 0]
Inputs == INSTANCE DigitalPins WITH
    level <- m1, chip <- m2, handlers <- m3, isr <- m4, attach <- m5,
    Pins <- {2, 3}, Round <- 5, Width <- 3,
    Plans <- {PinsUse(3, 2, {"fn", "fn_ex"}, 1, 0), PinsUse(2, 2, {"fn_ex"}, 0, 1),
              [PinsUse(0, 0, {}, 0, 0) EXCEPT !.modes = 2],
              [PinsUse(0, 0, {}, 0, 0) EXCEPT !.number = 7]} \cup
             {[PinsUse(0, 0, {}, 0, 0) EXCEPT !.wave = w \o <<0, 1, 0, 1>>, !.timeout = 3] :
                w \in [1..6 -> {0, 1}]}

Lamp == INSTANCE StatusLed WITH
    status <- m1, shown <- m2, pattern <- m3, timer <- m4, lamp <- m5, left <- plan,
    Changes <- 6

\* A driver that knows both commands, none, both but refuses, only how to go down.
Knows(on, off, refuses) == [on |-> on, off |-> off, refuses |-> refuses]
Drivers == {Knows(TRUE, TRUE, FALSE), Knows(FALSE, FALSE, FALSE), Knows(TRUE, TRUE, TRUE),
            Knows(FALSE, TRUE, FALSE)}
Power == INSTANCE GrovePower WITH
    groves <- m1, power <- m2, state <- m3, walk <- m4, left <- m5,
    Groves <- UNION {[1..n -> Drivers] : n \in 1..3},
    Requests <- 3, Word <- 16, Million <- 3, Seconds <- {0, 5, 6}

\* Messages with tabs and returns anywhere, and fields too long; dotted texts; URLs.
OfLength(n, chars) == UNION {[1..i -> chars] : i \in 0..n}
Asked(kind, texts) == {[kind |-> kind, text |-> t] : t \in texts}
Config == INSTANCE NodeTexts WITH
    bytes <- m1, ask <- m2, done <- m3, Area <- 3, Flash <- {255, 13},
    Texts <- Asked("fields", {Append(t, 9) : t \in OfLength(6, {9, 13, 97})}) \cup
             Asked("ip", OfLength(4, {46, 49}) \cup {<<49, 46, 50, 46, 51, 46, 52>>,
                                                    <<50, 53, 54, 46, 50, 46, 97, 46, 52>>}) \cup
             Asked("address", OfLength(6, {58, 47, 97})) \cup
             Asked("flash", OfLength(3, {0, 33, 255}))

\* C strings and numbers as texts; base64; two users of strtok.
Ctext == INSTANCE CText WITH
    memory <- m1, last <- m2, ask <- plan, answer <- m3, Word <- 256, Unit <- 100,
    Asks <-
        {[kind |-> "class", c |-> c] : c \in 0..255} \cup
        {[kind |-> "search", s |-> s, c |-> c, n |-> n] :
            s \in OfLength(3, {97, 98}), c \in {0, 97}, n \in 0..4} \cup
        {[kind |-> "copy", area |-> a, s |-> s, n |-> n] :
            a \in {<<97, 0, 99, 99, 99>>, <<0, 99>>}, s \in OfLength(4, {98}), n \in 0..5} \cup
        {[kind |-> "compare", s |-> s, t |-> t, n |-> n] :
            s \in OfLength(2, {65, 97, 98}), t \in OfLength(3, {65, 97, 98}), n \in {0, 2}} \cup
        {[kind |-> "number", s |-> s, base |-> b] : b \in {0, 8, 10, 16},
            s \in OfLength(3, {32, 45, 48, 50, 55, 120, 46}) \cup
                 {<<45, 49, 50, 56>>, <<45, 49, 50, 57>>, <<50, 53, 53>>, <<50, 53, 54>>,
                  <<43, 48, 88, 70, 102>>, <<45, 49, 46, 53, 46, 50>>}} \cup
        {[kind |-> "digits", n |-> n, base |-> b] :
            n \in {-128, -127, -1, 0, 1, 127, 100}, b \in {1, 2, 10, 16, 17}} \cup
        {[kind |-> "double", n |-> n, width |-> w, prec |-> p] :
            n \in {-1250, -5, -4, 0, 4, 5, 995, 999, 1249}, w \in {0, 5}, p \in 0..2} \cup
        {[kind |-> "pass", s |-> s] : s \in OfLength(4, {0, 255, 90})} \cup
        {[kind |-> "pass any", s |-> s] :
            s \in OfLength(4, {81, 47, 61, 32, 10, 13, 42}) \cup
                 {<<81, 81, 61, 61, 32>>, <<81, 61, 61, 61>>, <<81, 81, 81, 61, 81>>, <<200>>}} \cup
        {[kind |-> "upgrade", s |-> [i \in 1..n |-> (i * 37) % 256]] : n \in 1..32} \cup
        {[kind |-> "tokens", texts |-> <<a, b>>, delimiters |-> d] :
            a \in {<<>>, <<44, 97, 44, 44, 98>>, <<97>>, <<44>>, <<97, 98, 59>>},
            b \in {<<>>, <<44, 97, 44, 44, 98>>, <<97>>}, d \in {{44}, {44, 59}}}

\* Numbers printed on one side and parsed on the other one; texts that are searched and read.
Reads(kind, target, term, skip, n) ==
    [kind |-> kind, target |-> target, term |-> term, skip |-> skip, n |-> n]
Parses(kind) == Reads(kind, <<>>, <<>>, 1, 0)
Long(n, base) == [kind |-> "long", n |-> n, base |-> base]
Float(n, digits) == [kind |-> "float", n |-> n, digits |-> digits]
Raw(t) == [kind |-> "text", text |-> t]
Talks(prints, calls, ticks) == [prints |-> prints, calls |-> calls, ticks |-> ticks]
Searches(t, ticks) ==
    {Talks(<<Raw(t)>>, <<Reads("find", target, term, 0, 0)>>, ticks) :
        target \in {<<97, 98>>, <<97, 97, 98>>, <<>>}, term \in {<<>>, <<98>>, <<98, 99>>}}
Streams == INSTANCE StreamText WITH
    wire <- m1, rx <- m2, clock <- m3, call <- m4,
    Word <- 256, Round <- 4, Timeout <- 2, Unit <- 100, Ovf <- 100,
    Plans <-
        {Talks(<<Long(n, 10), Long(12, 10)>>, <<Parses("int"), Parses("int")>>, t) :
            n \in {-128, 127, -1}, t \in {0, 3}} \cup
        {Talks(<<Long(n, b)>>, <<Parses("int")>>, 0) : n \in {-128, 5}, b \in {0, 1, 2, 16, 258}} \cup
        {Talks(<<Float(n, d), Long(7, 10)>>, <<Parses("float"), Parses("int")>>, 0) :
            n \in {-15, 0, 999, 1249, -996, 12500, -4}, d \in 0..2} \cup
        {Talks(<<Raw(Append(t, 13))>>, <<Reads("float", <<>>, <<>>, 44, 0)>>, 0) :
            t \in OfLength(3, {45, 46, 49, 44})} \cup
        UNION {Searches(Append(t, 0), 0) : t \in OfLength(4, {97, 98})} \cup
        UNION {Searches(t, 3) : t \in {<<97, 97>>, <<98, 98, 99>>}} \cup
        {Talks(<<Raw(<<97, 98, 97>>)>>, [i \in 1..2 |-> Reads(k, <<>>, <<>>, 98, n)], 3) :
            k \in {"bytes", "until", "string", "string until"}, n \in {0, 2}}

\* The cache: one entry more than it holds; housekeeping; rows that change, go and come.
\* The builds: two nodes at once, every fault; one node's configurations, one after the
\* other, or in each other's place before they are read.
Ask(n, p, k, f) == [node |-> n, phases |-> p, kind |-> k, fault |-> f]
BuildPlans ==
    {<<Ask(1, {1, 2}, "json", "none"), Ask(2, {1, 2}, "json", f)>> :
        f \in {"none", "port", "first", "sku", "type", "source"}} \cup
    {<<Ask(1, {1, 2}, "json", "none"), Ask(2, {1, 2}, "yaml", "raise")>>} \cup
    {<<Ask(1, {1, 2}, k, "none"), Ask(1, {1}, "json", f), Ask(1, {2}, "json", "none")>> :
        k \in {"json", "yaml"}, f \in {"none", "first"}} \cup
    {<<Ask(1, {1, 2}, k, "none"), Ask(1, {1, 2}, "yaml", f)>> :
        k \in {"json", "yaml"}, f \in {"none", "sku", "type", "source", "raise"}} \cup
    {<<Ask(1, {1, 2}, "yaml", "raise"), Ask(1, {1, 2}, k, "none")>> : k \in {"json", "yaml"}} \cup
    {<<Ask(1, {1}, "json", "none"), Ask(1, {2}, "json", "none"), Ask(1, {1}, "json", f)>> :
        f \in {"sku", "first", "source"}}

ASSUME PartsAssumption ==
    /\ Hard!TimersAssumption /\ Soft!SoftTimersAssumption /\ Serial!SerialPortAssumption
    /\ Loop!MainLoopAssumption /\ Pwm!SoftPwmAssumption /\ Bus!TwoWireAssumption
    /\ Stream!SecureStreamAssumption /\ Strings!WStringAssumption /\ Program!UserProgramAssumption
    /\ Modes!AesModesAssumption /\ Aes!AesModesAssumption
    /\ Digests!DigestAssumption /\ Hashes!DigestAssumption /\ Mpis!BignumAssumption
    /\ Ctext!CTextAssumption /\ Streams!StreamTextAssumption
    /\ Ports!SerialPinsAssumption /\ Inputs!DigitalPinsAssumption /\ Power!GrovePowerAssumption
    /\ RowCacheAssumption /\ BuildThreadsAssumption

-----------------------------------------------------------------------------

\* The parts with variables of their own at rest, while another runs.
NoRing ==
    /\ data = [i \in Indices |-> CHOOSE b \in Bytes : TRUE] /\ beg = 0 /\ end = 0 /\ size = 0
    /\ result = [given |-> <<>>, read |-> <<>>, count |-> 0]

NoRequests ==
    /\ cache = <<>> /\ rows = [t \in Tokens |-> 0] /\ was = [t \in Tokens |-> <<>>]
    /\ clock = [now |-> 0, keep |-> Period, changes |-> 0]
    /\ answer = [last |-> None, before |-> FALSE]
NoBuilds ==
    /\ asked = [plan |-> <<>>, come |-> 0] /\ build = <<>> /\ disk = <<>> /\ accepted = <<>>
    /\ shared = [error |-> "", dir |-> No, groves |-> <<No, No>>, app |-> No]
rest == <<ring, store, threads>>

PartsInit ==
    \/ /\ m1 = 0 /\ m2 = 0 /\ m3 = 0 /\ m4 = 0 /\ m5 = 0 /\ plan = 0 /\ seen = 0
       /\ \/ part = "ring" /\ BufferInit /\ NoRequests /\ NoBuilds
          \/ part = "cache" /\ CacheInit /\ NoRing /\ NoBuilds
          \/ part = "builds" /\ ThreadsInit /\ NoRing /\ NoRequests
    \/ /\ NoRing /\ NoRequests /\ NoBuilds
       /\ \/ part = "hard timers" /\ Hard!Init /\ m5 = 0
          \/ part = "soft timers" /\ Soft!Init /\ m5 = 0
          \/ part = "serial" /\ Serial!Init
          \/ part = "loop" /\ Loop!Init
          \/ part = "pwm" /\ Pwm!Init
          \/ part = "bus" /\ Bus!Init /\ m5 = 0
          \/ part = "stream" /\ Stream!Init /\ m5 = 0
          \/ part = "modes" /\ Modes!Init /\ m5 = 0 /\ seen = 0
          \/ part = "aes" /\ Aes!Init /\ m5 = 0 /\ seen = 0
          \/ part = "digests" /\ Digests!Init /\ m4 = 0 /\ m5 = 0 /\ seen = 0
          \/ part = "hashes" /\ Hashes!Init /\ m4 = 0 /\ m5 = 0 /\ seen = 0
          \/ part = "numbers" /\ Mpis!Init /\ m4 = 0 /\ m5 = 0 /\ seen = 0
          \/ part = "ports" /\ Ports!Init
          \/ part = "inputs" /\ Inputs!Init
          \/ part = "lamp" /\ Lamp!Init
          \/ part = "power" /\ Power!Init /\ plan = 0
          \/ part = "config" /\ Config!Init /\ m4 = 0 /\ m5 = 0 /\ plan = 0 /\ seen = 0
          \/ part = "c text" /\ Ctext!Init /\ m4 = 0 /\ m5 = 0 /\ seen = 0
          \/ part = "streams" /\ Streams!Init /\ m5 = 0
          \/ part = "strings" /\ Strings!Init /\ plan = 0 /\ seen = 0
          \/ part = "program" /\ Program!Init /\ seen = 0

PartsNext ==
    \/ part = "ring" /\ BufferNext /\ UNCHANGED <<part, store, threads, slots>>
    \/ part = "cache" /\ CacheNext /\ UNCHANGED <<part, ring, threads, slots>>
    \/ part = "builds" /\ ThreadsNext /\ UNCHANGED <<part, ring, store, slots>>
    \/ part = "hard timers" /\ Hard!Next /\ UNCHANGED <<part, rest, m5>>
    \/ part = "soft timers" /\ Soft!Next /\ UNCHANGED <<part, rest, m5>>
    \/ part = "serial" /\ Serial!Next /\ UNCHANGED <<part, rest>>
    \/ part = "loop" /\ Loop!Next /\ UNCHANGED <<part, rest>>
    \/ part = "pwm" /\ Pwm!Next /\ UNCHANGED <<part, rest>>
    \/ part = "bus" /\ Bus!Next /\ UNCHANGED <<part, rest, m5>>
    \/ part = "stream" /\ Stream!Next /\ UNCHANGED <<part, rest, m5>>
    \/ part = "modes" /\ Modes!Next /\ UNCHANGED <<part, rest, m5, seen>>
    \/ part = "aes" /\ Aes!Next /\ UNCHANGED <<part, rest, m5, seen>>
    \/ part = "digests" /\ Digests!Next /\ UNCHANGED <<part, rest, m4, m5, seen>>
    \/ part = "hashes" /\ Hashes!Next /\ UNCHANGED <<part, rest, m4, m5, seen>>
    \/ part = "numbers" /\ Mpis!Next /\ UNCHANGED <<part, rest, m4, m5, seen>>
    \/ part = "ports" /\ Ports!Next /\ UNCHANGED <<part, rest>>
    \/ part = "inputs" /\ Inputs!Next /\ UNCHANGED <<part, rest>>
    \/ part = "lamp" /\ Lamp!Next /\ UNCHANGED <<part, rest>>
    \/ part = "power" /\ Power!Next /\ UNCHANGED <<part, rest, plan>>
    \/ part = "config" /\ Config!Next /\ UNCHANGED <<part, rest, m4, m5, plan, seen>>
    \/ part = "c text" /\ Ctext!Next /\ UNCHANGED <<part, rest, m4, m5, seen>>
    \/ part = "streams" /\ Streams!Next /\ UNCHANGED <<part, rest, m5>>
    \/ part = "strings" /\ Strings!Next /\ UNCHANGED <<part, rest, plan, seen>>
    \/ part = "program" /\ Program!Next /\ UNCHANGED <<part, rest, seen>>

PartsSpec == PartsInit /\ [][PartsNext]_<<part, rest, slots>>

-----------------------------------------------------------------------------
(* The parts' properties; those of the ring buffer, the row cache and the   *)
(* builds are IsFifo, RowsFresh and BuildsWhatWasAsked.                     *)

\* suli2.cpp, core_esp8266_main.cpp: whatever the interrupt of timer 0 comes between, and
\* whatever the callbacks do to the lists, a timer that was installed stays in its list until
\* it has fired for the last time or is removed, and fires when its interval is over; the
\* main loop that has yielded comes back, and millis() counts every round of the clock;
\* except in the cases that TimersKept, TimersOnTime, SoftTimersServed and LoopGoesOn name.
TimersServed ==
    /\ part = "hard timers" => Hard!TimersKept /\ Hard!TimersOnTime
    /\ part = "soft timers" => Soft!SoftTimersServed
    /\ part = "loop" => Loop!LoopGoesOn

\* HardwareSerial.cpp: the bytes that write() accepts are sent, once and in order, and none
\* waits for an interrupt that is off; core_esp8266_si2c.c, Wire.cpp: a transfer that reports
\* success has moved its bytes to or from the right device, and leaves the bus free; except
\* in the cases that SerialServed and BusRight name.
BytesMoved ==
    /\ part = "serial" => Serial!SerialServed
    /\ part = "bus" => Bus!BusRight

\* core_esp8266_wiring_pwm.c: from the first whole cycle after a call on, every pin is
\* high for its value, wherever the interrupt met the call; HardwareSerial.cpp,
\* core_esp8266_wiring_digital.c: a pin is what the serial ports or pinMode made of it last,
\* every edge is told to what is attached to it, every interrupt that is on is served;
\* network.cpp, plugins.cpp: the light shows the status, and the groves' power is what was
\* last asked for; except in the cases that PinsOwned, PinsRight, LedTells and GrovesPowered
\* name.
PinsDriven ==
    /\ part = "pwm" => Pwm!PwmDuty
    /\ part = "ports" => Ports!PinsOwned
    /\ part = "inputs" => Inputs!PinsRight
    /\ part = "lamp" => Lamp!LedTells
    /\ part = "power" => Power!GrovesPowered

\* network.cpp, aes.c, sha256.c, md5.c, bignum.c, server.py: both ends of a connection agree on
\* the key stream, through all connections; what one end enciphers, in whatever pieces, the
\* other deciphers, in all modes; a digest or a signature is that of the bytes it was made of,
\* whatever pieces they came in; and the large numbers are the integers they stand for; except
\* in the cases that StreamsDecrypt and NumbersRight name.
CryptoRight ==
    /\ part = "stream" => Stream!StreamsDecrypt
    /\ part = "modes" => Modes!CipherRight
    /\ part = "aes" => Aes!CipherRight /\ (m4 # <<>> => Real!AsInRom(m4))
    /\ part = "digests" => Digests!DigestRight
    /\ part = "hashes" => Hashes!DigestRight
    /\ part = "numbers" => Mpis!NumbersRight

\* WString.cpp: a String says what the same calls on plain texts give, and its buffer,
\* capacity and length fit each other; network.cpp: a configuration's fields are stored as
\* they were sent, and addresses are read from them; libc_replacements.c,
\* core_esp8266_noniso.c, base64.c, Print.cpp, Stream.cpp: a number that is printed is read as
\* that number, a text that is passed to a function arrives, a search finds what is there;
\* except in the cases that the TextsRight of WString, ConfigTexts, CTextsRight and
\* StreamsRight name.
TextsRight ==
    /\ part = "strings" => Strings!TextsRight
    /\ part = "config" => Config!ConfigTexts
    /\ part = "c text" => Ctext!CTextsRight
    /\ part = "streams" => Streams!StreamsRight

\* wio.cpp, rpc_server.cpp, rpc_queue.h: the server reads, writes and hears of a user's
\* program what it has and said, except in the cases that ProgramSeen names.
ProgramSeen == part = "program" => Program!ProgramSeen
=============================================================================
