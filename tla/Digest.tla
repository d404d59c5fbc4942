------------------------------- MODULE Digest --------------------------------
(***************************************************************************)
(* The hash functions over a message that comes in pieces, and HMAC over   *)
(* them (sha256.c, md5.c: the two differ in the compression function, in   *)
(* the order of bytes and in the variants, which are parameters here).     *)
(* The node signs its hello with sha256_hmac (network.cpp).                *)
(***************************************************************************)
EXTENDS Integers, SequencesExt

CONSTANTS
    Block,              \* bytes of a block, 64
    Room,               \* bytes of a block before the length, 56
    Word,               \* total[0] wraps here, 2^32
    Padding, Ipad, Opad,      \* the bytes 0x80, 0x36 and 0x5C
    Xor(_, _),                \* of two bytes
    Start(_),                 \* the first state of a variant
    Compress(_, _),           \* sha256_process, md5_process
    LengthBytes(_, _, _),     \* the Block - Room bytes of a length's two words, in a variant
    Output(_, _),             \* the bytes of a state, in a variant
    Plans      \* the calls: [variant, keys, message, pieces, calls, expect]

DigestAssumption ==
    /\ {Block, Room, Word \div Block, Word \div 8} \subseteq Nat \ {0}
    /\ Room < Block /\ Word % Block = 0 /\ Word % 8 = 0
    /\ \A plan \in Plans : plan.pieces \subseteq Nat /\ plan.calls \in Nat

VARIABLES
    ctx,       \* the context
    call,      \* what the context is used for, and how far
    out,       \* the digest that was written, and of what
    plan

vars == <<ctx, call, out, plan>>

NoKey == <<-1>>
Zeros(n) == [i \in 1..n |-> 0]

Init ==
    /\ plan \in Plans
    /\ ctx = [low |-> 0, high |-> 0, state |-> 0, buffer |-> Zeros(Block),
              ipad |-> Zeros(Block), opad |-> Zeros(Block), variant |-> 0]
    /\ call = [phase |-> "new", key |-> NoKey, fed |-> 0]
    /\ out = [digest |-> <<>>, key |-> NoKey, fed |-> 0]

-----------------------------------------------------------------------------

Starts(c, variant) ==
    [c EXCEPT !.low = 0, !.high = 0, !.state = Start(variant), !.variant = variant]

\* memcpy
Put(buffer, at, bytes) ==
    [i \in 1..Block |-> IF at < i /\ i <= at + Len(bytes) THEN bytes[i - at] ELSE buffer[i]]

\* The buffer is filled up and processed, then whole blocks are; the rest is kept.
Update(c, input) ==
    IF input = <<>> THEN c
    ELSE LET left == c.low % Block
             fill == Block - left
             low == (c.low + Len(input)) % Word
             first == left > 0 /\ Len(input) >= fill
             buffer == IF first THEN Put(c.buffer, left, SubSeq(input, 1, fill)) ELSE c.buffer
             rest == IF first THEN SubSeq(input, fill + 1, Len(input)) ELSE input
             whole == Len(rest) \div Block
             blocks == (IF first THEN <<buffer>> ELSE <<>>) \o
                       [i \in 1..whole |-> SubSeq(rest, (i - 1) * Block + 1, i * Block)]
         IN  [c EXCEPT
                !.low = low, !.high = IF low < Len(input) THEN (@ + 1) % Word ELSE @,
                !.state = FoldLeft(Compress, @, blocks),
                !.buffer = Put(buffer, IF first THEN 0 ELSE left,
                               SubSeq(rest, whole * Block + 1, Len(rest)))]

\* Mutant: a message that just fills the block up to the length gets no block of its own.
PadsLate(last) == IF last <= Room THEN Room - last ELSE Block + Room - last

\* How many bytes pad a message that ends here in its block.
Pads(last) == IF last < Room THEN Room - last ELSE Block + Room - last

\* The padding and the length in bits go through update; so does the count of them.
Finish(c) ==
    LET bits == LengthBytes(c.variant, (c.low \div (Word \div 8) + c.high * 8) % Word,
                            (c.low * 8) % Word)
        pads == Pads(c.low % Block)
    IN  Update(Update(c, <<Padding>> \o Zeros(pads - 1)), bits)

\* sha256, md5
Hash(c, variant, message) == Output(Finish(Update(Starts(c, variant), message)).state, variant)

HmacReset(c) == Update(Starts(c, c.variant), c.ipad)

\* A key longer than a block is hashed first.
HmacStarts(c, variant, key) ==
    LET k == IF Len(key) > Block THEN Hash(c, variant, key) ELSE key
        With(pad) == [i \in 1..Block |-> IF i <= Len(k) THEN Xor(pad, k[i]) ELSE pad]
    IN  HmacReset([c EXCEPT !.ipad = With(Ipad), !.opad = With(Opad), !.variant = variant])

\* The outer hash runs in the same context.
HmacFinish(c) ==
    LET inner == Finish(c)
        outer == Update(Starts(inner, c.variant), c.opad)
    IN  Finish(Update(outer, Output(inner.state, c.variant)))

-----------------------------------------------------------------------------
(* A caller uses a context for one digest after the other.                 *)

More == plan.calls > 0 /\ plan' = [plan EXCEPT !.calls = @ - 1]

CallStarts ==
    /\ NoKey \in plan.keys /\ More /\ call.phase # "hashing"
    /\ ctx' = Starts(ctx, plan.variant)
    /\ call' = [phase |-> "hashing", key |-> NoKey, fed |-> 0]
    /\ UNCHANGED out

CallHmacStarts(key) ==
    /\ key \in plan.keys \ {NoKey} /\ More /\ call.phase # "hashing"
    /\ ctx' = HmacStarts(ctx, plan.variant, key)
    /\ call' = [phase |-> "hashing", key |-> key, fed |-> 0]
    /\ UNCHANGED out

\* The key of the digest before is still in the pads.
CallHmacReset ==
    /\ More /\ call.phase = "done" /\ call.key # NoKey
    /\ ctx' = HmacReset(ctx)
    /\ call' = [call EXCEPT !.phase = "hashing", !.fed = 0]
    /\ UNCHANGED out

CallUpdate(n) ==
    /\ call.phase = "hashing" /\ n \in plan.pieces /\ call.fed + n <= Len(plan.message)
    /\ ctx' = Update(ctx, SubSeq(plan.message, call.fed + 1, call.fed + n))
    /\ call' = [call EXCEPT !.fed = @ + n]
    /\ UNCHANGED <<out, plan>>

CallFinish ==
    /\ call.phase = "hashing"
    /\ ctx' = IF call.key = NoKey THEN Finish(ctx) ELSE HmacFinish(ctx)
    /\ out' = [digest |-> Output(ctx'.state, ctx.variant), key |-> call.key, fed |-> call.fed]
    /\ call' = [call EXCEPT !.phase = "done"]
    /\ UNCHANGED plan

Next ==
    \/ CallStarts \/ CallHmacReset \/ CallFinish
    \/ \E key \in plan.keys : CallHmacStarts(key)
    \/ \E n \in plan.pieces : CallUpdate(n)

Spec == Init /\ [][Next]_vars

-----------------------------------------------------------------------------
(* The standards' definitions, of a message as a whole.                    *)

\* FIPS 180, RFC 1321: a one, zeros up to the length, and the length in bits.
Padded(variant, m) ==
    LET zeros == CHOOSE z \in 0..(Block - 1) : (Len(m) + 1 + z) % Block = Room % Block
    IN  m \o <<Padding>> \o Zeros(zeros) \o
        LengthBytes(variant, (Len(m) * 8) \div Word, (Len(m) * 8) % Word)

HashOf(variant, m) ==
    LET p == Padded(variant, m)
        blocks == [i \in 1..(Len(p) \div Block) |-> SubSeq(p, (i - 1) * Block + 1, i * Block)]
    IN  Output(FoldLeft(Compress, Start(variant), blocks), variant)

\* RFC 2104.
HmacOf(variant, key, m) ==
    LET k == IF Len(key) > Block THEN HashOf(variant, key) ELSE key
        With(pad) == [i \in 1..Block |-> Xor(pad, IF i <= Len(k) THEN k[i] ELSE 0)]
    IN  HashOf(variant, With(Opad) \o HashOf(variant, With(Ipad) \o m))

\* A digest that is written is that of the bytes fed since the context was started, whatever
\* pieces they came in, whatever the context was used for before, and wherever the message
\* ends in its block; and that of a test vector is the vector's.
DigestRight ==
    LET m == SubSeq(plan.message, 1, out.fed)
    IN  /\ out.digest # <<>> /\ plan.expect = <<>> =>
              out.digest = IF out.key = NoKey THEN HashOf(plan.variant, m)
                           ELSE HmacOf(plan.variant, out.key, m)
        /\ out.digest # <<>> /\ plan.expect # <<>> /\ m = plan.message =>
              SubSeq(out.digest, 1, Len(plan.expect)) = plan.expect
=============================================================================
