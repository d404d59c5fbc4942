------------------------------- MODULE AesModes ------------------------------
(***************************************************************************)
(* The modes of the block cipher in aes.c: two ends with the same key and  *)
(* initial vector, one enciphers a message piece by piece, the other       *)
(* deciphers what came over, in other pieces.  The block cipher and the    *)
(* exclusive or are parameters.                                            *)
(***************************************************************************)
EXTENDS Integers, SequencesExt, Steps

CONSTANTS
    Block,              \* bytes of a block, 16
    Byte,               \* the values of a byte, 256
    Xor(_, _),          \* of two bytes
    GenTables,          \* aes_gen_tables
    SetKey(_, _, _),    \* aes_setkey_enc, aes_setkey_dec, with the tables
    Ecb(_, _, _, _),    \* aes_crypt_ecb, with the tables and a schedule
    NoSchedule,         \* what an end has before its key is set, or when it is refused
    Plans               \* the uses: [mode, key, iv, message, pieces, expect]

Modes == {"ecb", "cbc", "cfb128", "cfb8", "ctr"}

AesModesAssumption ==
    /\ {Block, Byte} \subseteq Nat \ {0}
    /\ \A p \in Plans :
        /\ p.mode \in Modes /\ Len(p.iv) = Block /\ p.pieces \subseteq Nat
        /\ p.message \in Seq(0..(Byte - 1))

VARIABLES
    end,        \* of each direction: the schedule, the vector or counter, the offset, the stream
    wire,       \* what was enciphered
    plain,      \* what was deciphered
    tables,     \* the cipher's tables, static in aes.c
    plan

vars == <<end, wire, plain, tables, plan>>

NotMade == <<>>      \* ~aes_init_done

Directions == {"encrypt", "decrypt"}
XorBlocks(x, y) == <<>> \o [i \in 1..Block |-> Xor(x[i], y[i])]

Init ==
    /\ plan \in Plans
    /\ end = [d \in Directions |->
            [key |-> NoSchedule, iv |-> plan.iv, off |-> 0, stream |-> [i \in 1..Block |-> 0]]]
    /\ wire = <<>> /\ plain = <<>> /\ tables = NotMade

-----------------------------------------------------------------------------
(* One turn of each mode's loop: an end, what it wrote so far, and a block  *)
(* or a byte.                                                               *)

\* aes_crypt_cbc
CbcBlock(d, s, block) ==
    LET out == IF d = "decrypt" THEN XorBlocks(Ecb(tables, s.end.key, d, block), s.end.iv)
               ELSE Ecb(tables, s.end.key, d, XorBlocks(block, s.end.iv))
    IN  [end |-> [s.end EXCEPT !.iv = IF d = "decrypt" THEN block ELSE out],
         out |-> s.out \o out]

\* aes_crypt_cfb128: the vector is made anew where it is used up, and takes the cipher text.
Cfb128Byte(d, s, c) ==
    LET n == s.end.off
        iv == IF n = 0 THEN Ecb(tables, s.end.key, "encrypt", s.end.iv) ELSE s.end.iv
        out == Xor(c, iv[n + 1])
    IN  [end |-> [s.end EXCEPT !.off = (n + 1) % Block,
                               !.iv = [iv EXCEPT ![n + 1] = IF d = "decrypt" THEN c ELSE out]],
         out |-> Append(s.out, out)]

\* aes_crypt_cfb8: the vector moves on by the byte of cipher text.
Cfb8Byte(d, s, c) ==
    LET out == Xor(Ecb(tables, s.end.key, "encrypt", s.end.iv)[1], c)
    IN  [end |-> [s.end EXCEPT !.iv = Append(Tail(@), IF d = "decrypt" THEN c ELSE out)],
         out |-> Append(s.out, out)]

\* Mutant: the carry stops after one byte.
BumpedOnce(counter) ==
    <<>> \o [i \in 1..Block |->
        IF i = Block \/ (i = Block - 1 /\ counter[Block] = Byte - 1)
          THEN (counter[i] + 1) % Byte ELSE counter[i]]

\* The counter, the last byte lowest: a byte that becomes 0 carries.
Bumped(counter) ==
    <<>> \o [i \in 1..Block |->
        IF \A k \in (i + 1)..Block : counter[k] = Byte - 1
          THEN (counter[i] + 1) % Byte ELSE counter[i]]

\* aes_crypt_ctr
CtrByte(s, c) ==
    LET n == s.end.off
        stream == IF n = 0 THEN Ecb(tables, s.end.key, "encrypt", s.end.iv) ELSE s.end.stream
    IN  [end |-> [s.end EXCEPT !.off = (n + 1) % Block, !.stream = stream,
                               !.iv = IF n = 0 THEN Bumped(@) ELSE @],
         out |-> Append(s.out, Xor(c, stream[n + 1]))]

-----------------------------------------------------------------------------

\* The first one makes the tables.  The stream modes encipher the vector at both ends; the
\* block modes need the schedule of the direction.
SetsKey(d) ==
    /\ end[d].key = NoSchedule
    /\ tables' = IF tables = NotMade THEN GenTables ELSE tables
    /\ end' = [end EXCEPT ![d].key =
            SetKey(tables', IF plan.mode \in {"ecb", "cbc"} THEN d ELSE "encrypt", plan.key)]
    /\ UNCHANGED <<wire, plain, plan>>

\* What an end has still to do.
Left(d) ==
    IF d = "encrypt" THEN SubSeq(plan.message, Len(wire) + 1, Len(plan.message))
    ELSE SubSeq(wire, Len(plain) + 1, Len(wire))

\* A call of n bytes, in turns of a block or of a byte.
Call(d, n, size, Turn(_, _)) ==
    LET Step(s, t) == Turn(s, IF size = 1 THEN Left(d)[t]
                              ELSE SubSeq(Left(d), (t - 1) * size + 1, t * size))
        done == Repeat(n \div size, Step, [end |-> end[d], out |-> <<>>])
    IN  /\ end[d].key # NoSchedule /\ n <= Len(Left(d))
        /\ end' = [end EXCEPT ![d] = done.end]
        /\ wire' = IF d = "encrypt" THEN wire \o done.out ELSE wire
        /\ plain' = IF d = "decrypt" THEN plain \o done.out ELSE plain
        /\ UNCHANGED <<tables, plan>>

CryptEcb_(d) ==
    LET Turn(s, block) == [s EXCEPT !.out = @ \o Ecb(tables, s.end.key, d, block)]
    IN  plan.mode = "ecb" /\ Call(d, Block, Block, Turn)

\* A length that is not one of whole blocks is refused, and nothing happens.
CryptCbc(d, n) ==
    LET Turn(s, block) == CbcBlock(d, s, block)
    IN  plan.mode = "cbc" /\ n % Block = 0 /\ Call(d, n, Block, Turn)

CryptCfb128(d, n) ==
    LET Turn(s, c) == Cfb128Byte(d, s, c)
    IN  plan.mode = "cfb128" /\ Call(d, n, 1, Turn)

CryptCfb8(d, n) ==
    LET Turn(s, c) == Cfb8Byte(d, s, c)
    IN  plan.mode = "cfb8" /\ Call(d, n, 1, Turn)

CryptCtr(d, n) == plan.mode = "ctr" /\ Call(d, n, 1, CtrByte)

Next ==
    \E d \in Directions :
        \/ SetsKey(d) \/ CryptEcb_(d)
        \/ \E n \in plan.pieces :
            CryptCbc(d, n) \/ CryptCfb128(d, n) \/ CryptCfb8(d, n) \/ CryptCtr(d, n)

Spec == Init /\ [][Next]_vars

-----------------------------------------------------------------------------
(* The modes as NIST SP 800-38A defines them, of the message as a whole.    *)

E(block) == Ecb(tables, end.encrypt.key, "encrypt", block)
WireBlock(j) == IF j = 0 THEN plan.iv ELSE SubSeq(wire, (j - 1) * Block + 1, j * Block)
TextBlock(j) == SubSeq(plan.message, (j - 1) * Block + 1, j * Block)

\* The last Block bytes of the vector and the cipher text before byte i.
Register(i) == SubSeq(plan.iv \o wire, i, i + Block - 1)

\* The counter of block j: the initial one and j, without what does not fit.
CounterOf(j) ==
    [i \in 1..Block |->
        LET low == FoldLeft(LAMBDA x, b : x * Byte + b, 0, SubSeq(plan.iv, i, Block))
        IN  ((low + j) \div Byte^(Block - i)) % Byte]

ByMode ==
    LET blocks == 1..(Len(wire) \div Block)
        Stream(i) ==
            LET j == (i - 1) \div Block
            IN  CASE plan.mode = "cfb128" -> E(WireBlock(j))[((i - 1) % Block) + 1]
                  [] plan.mode = "cfb8" -> E(Register(i))[1]
                  [] plan.mode = "ctr" -> E(CounterOf(j))[((i - 1) % Block) + 1]
    IN  CASE plan.mode = "ecb" -> \A j \in blocks : WireBlock(j) = E(TextBlock(j))
          [] plan.mode = "cbc" -> \A j \in blocks :
                WireBlock(j) = E(XorBlocks(TextBlock(j), WireBlock(j - 1)))
          [] OTHER -> \A i \in 1..Len(wire) : wire[i] = Xor(plan.message[i], Stream(i))

\* Whatever pieces the calls are made in, and wherever in a block they end, what is enciphered
\* is what the mode's definition (of a test vector: the vector) makes of the message, and what
\* is deciphered, in other pieces, is the message.
CipherRight ==
    /\ IF plan.expect = <<>> THEN ByMode ELSE IsPrefix(wire, plan.expect)
    /\ IsPrefix(plain, plan.message)
=============================================================================
