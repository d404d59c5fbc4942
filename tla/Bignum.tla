-------------------------------- MODULE Bignum --------------------------------
(***************************************************************************)
(* The large numbers that the firmware carries (polarssl/bignum.c,         *)
(* bn_mul.h): a sign and limbs, the lowest first, with zeros above the top *)
(* limb where the memory was larger.  The functions are called with the    *)
(* numbers' own memory as their result, which is where their order of      *)
(* reads and writes shows.  Memory is enough, and every number that is     *)
(* read has a limb; a result may have none yet.                            *)
(***************************************************************************)
EXTENDS Integers, SequencesExt, FiniteSetsExt, Steps

CONSTANTS
    Bits,         \* biL, 32 in the firmware; a multiple of 8
    SmallPrimes,  \* small_prime, all below 2^(Bits / 2), in their order
    Plans         \* the numbers to start with, the functions to call and how many calls

Base == 2^Bits
LimbBytes == Bits \div 8             \* ciL
HalfBits == Bits \div 2          \* biH
Names == {"x", "a", "b"}

VARIABLES
    num,      \* the numbers
    want,     \* the integers they should be
    answer,   \* what the last call returned and what it should have
    plan

vars == <<num, want, answer, plan>>

BignumAssumption ==
    /\ Bits \in {8, 16} /\ \A i \in DOMAIN SmallPrimes : SmallPrimes[i] < 2^HalfBits

-----------------------------------------------------------------------------
(* Numbers and their limbs.                                                *)

Fresh == [s |-> 1, p |-> <<>>]
Limb(p, i) == IF i \in DOMAIN p THEN p[i] ELSE 0
Padded(p, n) == p \o [i \in 1..Max({0, n - Len(p)}) |-> 0]
Top(p) == Max({0} \cup {i \in DOMAIN p : p[i] # 0})
AbsOf(z) == IF z < 0 THEN -z ELSE z
\* What digits come to, the highest first.
Number(digits, base) ==
    LET value[i \in 0..Len(digits)] ==
            IF i = 0 THEN 0 ELSE value[i - 1] * base + digits[i]
    IN  value[Len(digits)]
Value(X) == X.s * Number(Reverse(X.p), Base)

Grow(X, n) == [X EXCEPT !.p = Padded(@, n)]
Shrink(X, n) == [X EXCEPT !.p = SubSeq(Padded(@, n), 1, Max({1, n, Top(@)}))]

\* The limbs of X once Y is copied to it.
Room(X, Y) == Max({1, Top(Y.p), Len(X.p)})
Copy(X, Y) ==
    IF Y.p = <<>> THEN Fresh
    ELSE [s |-> Y.s, p |-> <<>> \o [i \in 1..Room(X, Y) |-> Limb(Y.p, i)]]

LSet(X, z) == [s |-> IF z < 0 THEN -1 ELSE 1, p |-> Padded(<<AbsOf(z)>>, Len(X.p))]
Small(z) == LSet(Fresh, z)

CondAssign(X, Y, yes) ==
    LET G == Grow(X, Len(Y.p)) IN IF yes THEN [s |-> Y.s, p |-> Padded(Y.p, Len(G.p))] ELSE G

\* The limbs of both, and the numbers they come to.
CondSwap(X, Y, yes) ==
    LET n == Max({Len(X.p), Len(Y.p)})
    IN  IF yes THEN <<Grow(Y, n), Grow(X, n)>> ELSE <<Grow(X, n), Grow(Y, n)>>

GetBit(X, pos) == (Limb(X.p, pos \div Bits + 1) \div 2^(pos % Bits)) % 2

SetBit(X, pos, bit) ==
    LET off == pos \div Bits + 1
    IN  IF Len(X.p) < off /\ bit = 0 THEN X
        ELSE [Grow(X, off) EXCEPT !.p[off] = @ + (bit - GetBit(X, pos)) * 2^(pos % Bits)]

OneBits(X) == {pos \in 0..(Len(X.p) * Bits - 1) : GetBit(X, pos) = 1}
Least(S) == IF S = {} THEN 0 ELSE Min(S)
Lsb(X) == Least(OneBits(X))
Msb(X) == Max({0} \cup {pos + 1 : pos \in OneBits(X)})

ShiftL(X, count) ==
    LET v == count \div Bits
        t == count % Bits
        n == Max({Len(X.p), (Msb(X) + count + Bits - 1) \div Bits})
    IN  [X EXCEPT !.p = <<>> \o [i \in 1..n |->
            (Limb(@, i - v) * 2^t + Limb(@, i - v - 1) \div 2^(Bits - t)) % Base]]

\* Nothing but zeros left: the number is set to 0, unless whole limbs are shifted out.
ShiftR(X, count) ==
    LET v == count \div Bits
        t == count % Bits
    IN  IF v > Len(X.p) \/ (v = Len(X.p) /\ t > 0) THEN LSet(X, 0)
        ELSE [X EXCEPT !.p = <<>> \o [i \in DOMAIN @ |->
                Limb(@, i + v) \div 2^t + ((Limb(@, i + v + 1) * 2^(Bits - t)) % Base)]]

Higher(X, Y, at) == IF at = 0 THEN 0 ELSE IF Limb(X.p, at) > Limb(Y.p, at) THEN 1 ELSE -1
CmpAbs(X, Y) ==
    Higher(X, Y, Max({0} \cup {i \in DOMAIN X.p \cup DOMAIN Y.p : Limb(X.p, i) # Limb(Y.p, i)}))

CmpMpi(X, Y) ==
    IF Top(X.p) = 0 /\ Top(Y.p) = 0 THEN 0
    ELSE IF X.s # Y.s THEN X.s ELSE X.s * CmpAbs(X, Y)

CmpInt(X, z) == CmpMpi(X, Small(z))

-----------------------------------------------------------------------------
(* Sums, differences, products.                                            *)

\* The limbs of what stands at each place, and the carry out of the last one.
Carried(places) ==
    LET carry[i \in 0..Len(places)] ==
            IF i = 0 THEN 0 ELSE (places[i] + carry[i - 1]) \div Base
    IN  [p |-> <<>> \o [i \in 1..Len(places) |-> (places[i] + carry[i - 1]) % Base],
         c |-> carry[Len(places)]]

WithCarry(sum) == [s |-> 1, p |-> IF sum.c = 0 THEN sum.p ELSE Append(sum.p, sum.c)]

\* Where the result is both operands, the sum is compared with itself for the carry.
AddAbs(X, A, B, both) ==
    IF both THEN [s |-> 1, p |-> <<>> \o [i \in DOMAIN A.p |-> (2 * A.p[i]) % Base]]
    ELSE WithCarry(Carried([i \in 1..Max({Room(X, A), Top(B.p)}) |->
                                Limb(A.p, i) + Limb(B.p, i)]))

SubAbs(X, A, B) ==
    [s |-> 1, p |-> Carried([i \in 1..Room(X, A) |-> Limb(A.p, i) - Limb(B.p, i)]).p]

Less(X, A, B, less) ==
    [SubAbs(X, IF less THEN B ELSE A, IF less THEN A ELSE B) EXCEPT
        !.s = IF less THEN -A.s ELSE A.s]
Signed(X, A, B, differ, both) ==
    IF differ THEN Less(X, A, B, CmpAbs(A, B) < 0)
    ELSE [AddAbs(X, A, B, both) EXCEPT !.s = A.s]

AddMpi(X, A, B, both) == Signed(X, A, B, A.s * B.s < 0, both)
SubMpi(X, A, B) == Signed(X, A, B, A.s * B.s > 0, FALSE)
AddInt(X, A, z) == AddMpi(X, A, Small(z), FALSE)
SubInt(X, A, z) == SubMpi(X, A, Small(z))

MulHlp(d, s, b, at) == Carried([i \in DOMAIN d |-> d[i] + Limb(s, i - at) * b]).p

MulMpi(X, A, B) ==
    LET i == Top(A.p)
        j == Top(B.p)
        sum[k \in 0..j] ==
            IF k = 0 THEN LSet(Grow(X, i + j), 0).p
            ELSE MulHlp(sum[k - 1], SubSeq(A.p, 1, i), B.p[j + 1 - k], j - k)
    IN  [s |-> A.s * B.s, p |-> sum[j]]

\* Negative or not, b is read as a limb.
MulInt(X, A, b) == MulMpi(X, A, [s |-> 1, p |-> <<b % Base>>])

-----------------------------------------------------------------------------
(* Quotients and remainders.                                               *)

RECURSIVE SubtractWhile(_, _, _)
SubtractWhile(X, Y, times) ==
    IF CmpMpi(X, Y) < 0 THEN [x |-> X, times |-> times]
    ELSE SubtractWhile(SubMpi(X, X, Y), Y, times + 1)

\* A limb of the quotient of X by the limbs up to t of Y, guessed from the top limbs.
GuessedLimb(X, Y, i, t) ==
    LET x(k) == Limb(X.p, k + 1)
        y(k) == Limb(Y.p, k + 1)
        guess == IF x(i) >= y(t) THEN Base - 1
                 ELSE Min({Base - 1, (x(i) * Base + x(i - 1)) \div y(t)})
    IN  Min({guess, ((x(i) * Base + x(i - 1)) * Base + x(i - 2)) \div (y(t) * Base + y(t - 1))})

\* A limb of the quotient, from the limb i of X down: a guess too large by 1 is taken back.
TakenBack(now, less, q, Y, i, t) ==
    IF CmpInt(less, 0) >= 0 THEN [x |-> less, z |-> [now.z EXCEPT ![i - t] = q]]
    ELSE [x |-> AddMpi(less, less, ShiftL(Y, Bits * (i - t - 1)), FALSE),
          z |-> [now.z EXCEPT ![i - t] = q - 1]]
GuessTaken(now, q, Y, i, t) ==
    TakenBack(now, SubMpi(now.x, now.x, ShiftL(MulInt(Fresh, Y, q), Bits * (i - t - 1))),
              q, Y, i, t)
RECURSIVE DivSteps(_, _, _, _)
DivSteps(now, Y, i, t) ==
    IF i <= t THEN now
    ELSE DivSteps(GuessTaken(now, GuessedLimb(now.x, Y, i, t), Y, i, t), Y, i - 1, t)

\* X by Y, whose top bit is that of its limb: the quotient's limbs and what is left of X.
FirstLimb(first, zeros, at) == [x |-> first.x, z |-> [zeros EXCEPT ![at] = first.times]]
DividedLimbs(X, Y, zeros) ==
    DivSteps(FirstLimb(SubtractWhile(X, ShiftL(Y, Bits * (Len(X.p) - Len(Y.p))), 0),
                       zeros, Len(X.p) - Len(Y.p) + 1),
             Y, Len(X.p) - 1, Len(Y.p) - 1)

\* |A| by |B|, both shifted by k bits.
Widened(X, k) == ShiftL([Copy(Fresh, X) EXCEPT !.s = 1], k)
Narrowed(end, k) == [quotient |-> [s |-> 1, p |-> end.z], rest |-> ShiftR(end.x, k)]
DividedBy(A, B, k) ==
    Narrowed(DividedLimbs(Widened(A, k), Widened(B, k), Padded(<<>>, Len(A.p) + 2)), k)
Divided(A, B) == DividedBy(A, B, (Bits - 1 - (Msb(B) % Bits)) % Bits)

\* m: the numbers by name; q or r may be "none".  d: what the division gives, if |A| >= |B|;
\* otherwise the quotient is set to 0 before A is copied.  The signs are read after the
\* quotient is written.
PutQuotient(m, q, a, b, d) ==
    LET Sign(w) == [w EXCEPT ![q].s = w[a].s * w[b].s]
    IN  IF q = "none" THEN m
        ELSE IF DOMAIN d = {} THEN [m EXCEPT ![q] = LSet(@, 0)]
        ELSE Sign([m EXCEPT ![q] = Copy(@, d.quotient)])

PutRest(m, r, a, d) ==
    IF r = "none" THEN m
    ELSE IF DOMAIN d = {} THEN [m EXCEPT ![r] = Copy(@, m[a])]
    ELSE [m EXCEPT ![r] =
            [Copy(@, d.rest) EXCEPT !.s = IF CmpInt(d.rest, 0) # 0 THEN m[a].s ELSE 1]]

PutBoth(m, q, r, a, b, d) == PutRest(PutQuotient(m, q, a, b, d), r, a, d)
DivMpi(m, q, r, a, b) ==
    PutBoth(m, q, r, a, b, IF CmpAbs(m[a], m[b]) < 0 THEN <<>> ELSE Divided(m[a], m[b]))

RECURSIVE AddWhileNegative(_, _)
AddWhileNegative(R, B) ==
    IF CmpInt(R, 0) >= 0 THEN R ELSE AddWhileNegative(AddMpi(R, R, B, FALSE), B)

\* A modulo B, where R is not B.
ModMpi(R, A, B) ==
    SubtractWhile(AddWhileNegative(
        DivMpi([r |-> R, a |-> A, b |-> B], "none", "r", "a", "b").r, B), B, 0).x

\* Half a limb after the other; the rest of the division is shifted by half a limb.
ModInt(A, b) ==
    LET Half(k) ==
            LET limb == A.p[Len(A.p) - (k - 1) \div 2]
            IN  IF k % 2 = 1 THEN limb \div 2^HalfBits ELSE limb % 2^HalfBits
        rest[k \in 0..(2 * Len(A.p))] ==
            IF k = 0 THEN 0 ELSE (((rest[k - 1] * 2^HalfBits) % Base) + Half(k)) % b
        y == rest[2 * Len(A.p)]
    IN  IF b = 1 THEN 0 ELSE IF b = 2 THEN A.p[1] % 2
        ELSE IF A.s < 0 /\ y # 0 THEN b - y ELSE y

-----------------------------------------------------------------------------
(* Powers, common divisors and inverses.                                   *)

\* mpi_montg_init: the negative inverse of the lowest limb, twice as many bits a turn.
MontgInit(N) ==
    LET m0 == N.p[1]
        x[k \in 0..(Bits \div 8)] ==
            IF k = 0 THEN (m0 + 8 * (((m0 + 2) \div 4) % 2)) % Base
            ELSE (x[k - 1] * ((2 - m0 * x[k - 1]) % Base)) % Base
    IN  (Base - x[Bits \div 8]) % Base

\* A * B / Base^n modulo N, of the n limbs of N: a limb of A after the other.
MontStep(d, u0, B, N, mm) ==
    LET b == SubSeq(B.p, 1, Min({Len(B.p), Len(N.p)}))
        u1 == ((d[1] + u0 * b[1]) * mm) % Base
    IN  Append(Tail(MulHlp(MulHlp(d, b, u0, 0), N.p, u1, 0)), 0)
RECURSIVE MontSteps(_, _, _, _, _, _)
MontSteps(d, i, A, B, N, mm) ==
    IF i > Len(N.p) THEN d ELSE MontSteps(MontStep(d, A.p[i], B, N, mm), i + 1, A, B, N, mm)
Reduced(R, N, s) == IF CmpAbs(R, N) < 0 THEN R ELSE [SubAbs(R, R, N) EXCEPT !.s = s]
MontPut(A, d, n) == [A EXCEPT !.p = SubSeq(d, 1, n + 1) \o SubSeq(@, n + 2, Len(@))]
MontMul(A, B, N, mm) ==
    Reduced(MontPut(A, MontSteps(Padded(<<>>, Len(N.p) + 2), 1, A, B, N, mm), Len(N.p)), N, A.s)

MontRed(A, N, mm) == MontMul(A, Small(1), N, mm)

WindowSize(bits) ==
    CASE bits > 671 -> 6 [] bits \in 240..671 -> 5 [] bits \in 80..239 -> 4
      [] bits \in 24..79 -> 3 [] OTHER -> 1

RECURSIVE SquaredTimes(_, _, _, _)
SquaredTimes(x, n, N, mm) ==
    IF n = 0 THEN x ELSE SquaredTimes(MontMul(x, x, N, mm), n - 1, N, mm)

\* The powers of W[1] that a window of the exponent may begin with.
RECURSIVE MorePowers(_, _, _, _, _)
MorePowers(W, first, upto, N, mm) ==
    IF Len(W) = upto THEN W
    ELSE MorePowers(Append(W, MontMul(Last(W), first, N, mm)), first, upto, N, mm)
Windows(first, wsize, N, mm) ==
    MorePowers([i \in 1..2^(wsize - 1) |->
                    IF i = 1 THEN first ELSE SquaredTimes(first, wsize - 1, N, mm)],
               first, 2^wsize - 1, N, mm)

\* A bit of the exponent: zeros before the first one are skipped, the zeros between windows
\* square, and a window that is full squares and multiplies.
SquaredBit(now, x, skip, wbits, W, N, mm) ==
    IF skip THEN [now EXCEPT !.x = x]
    ELSE [x |-> MontMul(x, W[wbits], N, mm), state |-> 1, nbits |-> 0, wbits |-> 0]
ExpBit(now, bit, wsize, W, N, mm) ==
    LET wbits == now.wbits + bit * 2^(wsize - now.nbits - 1)
        between == bit = 0 /\ now.state = 1
    IN  IF bit = 0 /\ now.state = 0 THEN now
        ELSE IF ~between /\ now.nbits + 1 < wsize
             THEN [now EXCEPT !.state = 2, !.nbits = @ + 1, !.wbits = wbits]
        ELSE SquaredBit(now, SquaredTimes(now.x, IF between THEN 1 ELSE wsize, N, mm),
                        between, wbits, W, N, mm)

\* A window that the exponent's end has cut short.
TimesFirst(x, wbits, wsize, W, N, mm) ==
    IF (wbits \div 2^wsize) % 2 = 1 THEN MontMul(x, W[1], N, mm) ELSE x
RECURSIVE LastBits(_, _, _, _, _, _, _)
LastBits(x, nbits, wbits, wsize, W, N, mm) ==
    IF nbits = 0 THEN x
    ELSE LastBits(TimesFirst(MontMul(x, x, N, mm), wbits * 2, wsize, W, N, mm),
                  nbits - 1, wbits * 2, wsize, W, N, mm)

\* The bits of the exponent, from the highest, on the number 1 and the powers W.
Ended(now, wsize, W, N, mm) == LastBits(now.x, now.nbits, now.wbits, wsize, W, N, mm)
AllBits(one, E, wsize, W, N, mm) ==
    Ended(Repeat(Len(E.p) * Bits,
                 LAMBDA now, i :
                    ExpBit(now, GetBit(E, Len(E.p) * Bits - i), wsize, W, N, mm),
                 [x |-> one, state |-> 0, nbits |-> 0, wbits |-> 0]), wsize, W, N, mm)

\* A^E modulo the odd N, where X is not E or N; what a negative A leaves out is made up for
\* at the end, whatever E is.
Squared(r, N) == ModMpi(r, r, N)
PowerOf(X, base, RR, E, wsize, N, mm) ==
    MontRed(AllBits(MontRed(Copy(Grow(X, Len(N.p) + 1), RR), N, mm), E, wsize,
                    Windows(MontMul(base, RR, N, mm), wsize, N, mm), N, mm), N, mm)
SignedPower(power, s, N) ==
    IF s = 1 THEN power ELSE AddMpi(power, N, [power EXCEPT !.s = -1], FALSE)
ReducedBase(Apos, N) ==
    IF CmpMpi(Apos, N) >= 0 THEN ModMpi(Grow(Fresh, Len(N.p) + 1), Apos, N)
    ELSE Copy(Grow(Fresh, Len(N.p) + 1), Apos)
ExpMod(X, A, E, N) ==
    SignedPower(PowerOf(X, ReducedBase([A EXCEPT !.s = 1], N),
                        Squared(ShiftL(Small(1), Len(N.p) * 2 * Bits), N),
                        E, WindowSize(Msb(E)), N, MontgInit(N)), A.s, N)

RECURSIVE GcdLoop(_, _), GcdOdd(_, _)
GcdOdd(TA, TB) ==
    IF CmpMpi(TA, TB) >= 0 THEN GcdLoop(ShiftR(SubAbs(TA, TA, TB), 1), TB)
    ELSE GcdLoop(TA, ShiftR(SubAbs(TB, TB, TA), 1))
GcdLoop(A, B) ==
    IF CmpInt(A, 0) = 0 THEN B ELSE GcdOdd(ShiftR(A, Lsb(A)), ShiftR(B, Lsb(B)))

Gcd(G, A, B) ==
    LET lz == Min({Lsb(A), Lsb(B)})
        Odd(X) == [ShiftR(Copy(Fresh, X), lz) EXCEPT !.s = 1]
    IN  Copy(G, ShiftL(GcdLoop(Odd(A), Odd(B)), lz))

\* t: a number and how it is made of A and N; it is halved while it is even.
RECURSIVE Halved(_, _, _)
Halved(t, TA, TB) ==
    IF t.t.p[1] % 2 = 1 THEN t
    ELSE LET odd == t.one.p[1] % 2 = 1 \/ t.two.p[1] % 2 = 1
         IN  Halved([t |-> ShiftR(t.t, 1),
                     one |-> ShiftR(IF odd THEN AddMpi(t.one, t.one, TB, FALSE) ELSE t.one, 1),
                     two |-> ShiftR(IF odd THEN SubMpi(t.two, t.two, TA) ELSE t.two, 1)], TA, TB)

Minus(t, u) ==
    [field \in {"t", "one", "two"} |-> SubMpi(t[field], t[field], u[field])]

RECURSIVE InverseLoop(_, _, _, _)
InverseLoop(u, v, TA, TB) ==
    IF u.t.p[1] % 2 = 0 \/ v.t.p[1] % 2 = 0
    THEN InverseLoop(Halved(u, TA, TB), Halved(v, TA, TB), TA, TB)
    ELSE IF CmpMpi(u.t, v.t) < 0 THEN InverseLoop(u, Minus(v, u), TA, TB)
    ELSE IF CmpMpi(u.t, v.t) = 0 THEN v.one
    ELSE InverseLoop(Minus(u, v), v, TA, TB)

\* The inverse of A modulo N, where there is one; modulo 1 a zero is halved for ever.
Inverted(TA, TB) ==
    InverseLoop([t |-> TA, one |-> Small(1), two |-> Small(0)],
                [t |-> TB, one |-> Small(0), two |-> Small(1)], TA, TB)
InvMod(X, A, N) ==
    Copy(X, SubtractWhile(AddWhileNegative(Inverted(ModMpi(Fresh, A, N), Copy(Fresh, N)), N),
                          N, 0).x)

-----------------------------------------------------------------------------
(* Bytes and digits, the highest first.                                    *)

ReadBinary(X, buf) ==
    LET used == SelectSeq([i \in DOMAIN buf |-> i], LAMBDA i : \E k \in 1..i : buf[k] # 0)
        limbs == (Len(used) + LimbBytes - 1) \div LimbBytes
        Byte(k) == IF k <= Len(used) THEN buf[Len(buf) + 1 - k] ELSE 0
        Zero == LSet(Grow(X, limbs), 0)
    IN  [Zero EXCEPT !.p = <<>> \o [i \in DOMAIN @ |->
            Number([k \in 1..LimbBytes |-> Byte(i * LimbBytes + 1 - k)], 256)]]

WriteBinary(X, buflen) ==
    [i \in 1..buflen |->
        (Limb(X.p, (buflen - i) \div LimbBytes + 1) \div 256^((buflen - i) % LimbBytes)) % 256]

\* A digit is its value; a sign is -1 and any other character 99.
ReadDigit(X, radix, d) ==
    LET T == MulInt(Fresh, X, radix) IN IF X.s = 1 THEN AddInt(X, T, d) ELSE SubInt(X, T, d)

\* Decimal digits are read from the first, hexadecimal ones from the last, up to a character
\* that is none.
ReadString(X, radix, text) ==
    LET minus == text # <<>> /\ Head(text) = -1
        digits == IF minus THEN Tail(text) ELSE text
        bad == {i \in DOMAIN digits : digits[i] \notin 0..(radix - 1)}
        hex == SubSeq(digits, Max({0} \cup bad) + 1, Len(digits))
        Hex == LSet(Grow(X, (4 * Len(text) + Bits - 1) \div Bits), 0)
        Digit(k) == IF k < Len(hex) THEN hex[Len(hex) - k] ELSE 0
        read[i \in 0..Len(digits)] ==
            IF i = 0 THEN [LSet(X, 0) EXCEPT !.s = IF minus THEN -1 ELSE 1]
            ELSE ReadDigit(read[i - 1], radix, digits[i])
    IN  IF radix # 16
        THEN read[Min({Len(digits) + 1} \cup bad) - 1]
        ELSE [s |-> IF minus /\ bad = {} THEN -1 ELSE 1,
              p |-> <<>> \o [i \in DOMAIN Hex.p |->
                    Number([k \in 1..(2 * LimbBytes) |-> Digit(i * 2 * LimbBytes - k)], 16)]]

RECURSIVE WriteHlp(_, _), WriteBefore(_, _)
WriteBefore(rest, radix) == IF CmpInt(rest, 0) = 0 THEN <<>> ELSE WriteHlp(rest, radix)
WriteHlp(X, radix) ==
    WriteBefore(DivMpi([x |-> X, b |-> Small(radix)], "x", "none", "x", "b").x, radix)
        \o <<ModInt(X, radix)>>

\* Hexadecimal digits come in pairs, without the zero bytes before the first other one.
WriteString(X, radix) ==
    LET bytes == WriteBinary(X, Max({1, (Msb(X) + 7) \div 8}))
    IN  (IF X.s = -1 THEN <<-1>> ELSE <<>>) \o
        (IF radix # 16 THEN WriteHlp([X EXCEPT !.s = 1], radix)
         ELSE FlattenSeq([i \in DOMAIN bytes |-> <<bytes[i] \div 16, bytes[i] % 16>>]))

-----------------------------------------------------------------------------
(* Primes.                                                                 *)

\* mpi_check_small_factors: whether a prime or a factor comes first.
SmallFactors(X) ==
    LET hits == {i \in DOMAIN SmallPrimes :
                    CmpInt(X, SmallPrimes[i]) <= 0 \/ ModInt(X, SmallPrimes[i]) = 0}
    IN  IF X.p[1] % 2 = 0 THEN "composite"
        ELSE IF hits = {} THEN "unknown"
        ELSE IF CmpInt(X, SmallPrimes[Min(hits)]) <= 0 THEN "prime" ELSE "composite"

\* The number that a round takes: what was drawn, made smaller and odd.
LowOnes(R) == [R EXCEPT !.p[1] = (@ - (@ % 4)) + 3]
LessThan(W, A) == IF CmpMpi(A, W) >= 0 THEN ShiftR(A, Msb(A) - Msb(W) + 1) ELSE A
Drawn(X, W, draw) == LowOnes(LessThan(W, ReadBinary(Fresh, draw)))

RECURSIVE SquaresTo(_, _, _, _)
SquaresTo(A, W, X, squares) ==
    IF squares = 0 \/ CmpMpi(A, W) = 0 \/ CmpInt(A, 1) = 0 THEN A
    ELSE SquaresTo(ModMpi(A, MulMpi(Fresh, A, A), X), W, X, squares - 1)

\* A round of mpi_miller_rabin; draws are what f_rng gives the rounds.
AtEnd(power, W, X) ==
    \/ CmpInt(power, 1) = 0
    \/ CmpMpi(SquaresTo(power, W, X, Lsb(W) - 1), W) = 0
Test(X, W, A) == AtEnd(ExpMod(A, A, ShiftR(W, Lsb(W)), X), W, X)
Passes(X, draw) ==
    Test(X, SubInt(Fresh, X, 1), Drawn(X, SubInt(Fresh, X, 1), draw))

IsPrime(X, draws) ==
    LET XX == [X EXCEPT !.s = 1]
    IN  IF CmpInt(XX, 0) = 0 \/ CmpInt(XX, 1) = 0 THEN FALSE
        ELSE IF CmpInt(XX, 2) = 0 \/ SmallFactors(XX) = "prime" THEN TRUE
        ELSE SmallFactors(XX) = "unknown" /\ \A draw \in draws : Passes(XX, draw)

\* The first prime from X on, in steps of 2; or the first in steps of 12 that is prime together
\* with its half Y.  A small prime among the two is an error, which ends the search as well.
RECURSIVE NextPrime(_, _)
NextPrime(XY, draws) ==
    LET known == [i \in DOMAIN XY |-> SmallFactors(XY[i])]
    IN  IF \/ known[1] = "prime" \/ known = <<"unknown", "prime">>
           \/ /\ \A i \in DOMAIN known : known[i] = "unknown"
              /\ \A i \in DOMAIN XY, draw \in draws : Passes(XY[i], draw)
        THEN XY[1]
        ELSE NextPrime(<<>> \o [i \in DOMAIN XY |->
                AddInt(XY[i], XY[i], IF Len(XY) = 1 THEN 2 ELSE 12 \div i)], draws)

\* A drawn number of nbits bits, made odd, and the first prime from it on.
Sized(R, nbits) ==
    IF Msb(R) < nbits THEN ShiftL(R, nbits - Msb(R)) ELSE ShiftR(R, Msb(R) - nbits)
TwoModThree(R, r) == IF r = 2 THEN R ELSE AddInt(R, R, IF r = 0 THEN 8 ELSE 4)
WithHalf(R) == <<R, ShiftR(Copy(Fresh, R), 1)>>
Candidates(R, safe) == IF safe THEN WithHalf(TwoModThree(R, ModInt(R, 3))) ELSE <<R>>
GenPrime(X, nbits, safe, first, draws) ==
    NextPrime(Candidates(LowOnes(Sized(ReadBinary(X, first), nbits)), safe), draws)

-----------------------------------------------------------------------------
(* The calls, and what integers make of them.                              *)

SignOf(z) == IF z < 0 THEN -1 ELSE 1
Quotient(v, w) == SignOf(v) * SignOf(w) * (AbsOf(v) \div AbsOf(w))
PowerMod(v, e, n) ==
    LET power[k \in 0..e] ==
            IF k = 0 THEN 1 % n
            ELSE LET half == power[k \div 2]
                     square == (half * half) % n
                 IN  IF k % 2 = 0 THEN square ELSE (square * (v % n)) % n
    IN  power[e]
RECURSIVE GcdOf(_, _)
GcdOf(v, w) == IF w = 0 THEN AbsOf(v) ELSE GcdOf(w, v % AbsOf(w))
Prime(v) == v > 1 /\ \A d \in 2..v : d * d > v \/ v % d # 0
\* A strong liar of v, whether v is prime or not.
Liar(v, base) ==
    LET s == Max({k \in 0..20 : (v - 1) % 2^k = 0})
        Power(k) == PowerMod(base, (v - 1) \div 2^(s - k), v)
    IN  Power(0) = 1 \/ \E k \in 0..(s - 1) : Power(k) = v - 1
RECURSIVE DigitsOf(_, _)
DigitsOf(v, radix) == (IF v < radix THEN <<>> ELSE DigitsOf(v \div radix, radix)) \o <<v % radix>>

Init ==
    /\ plan \in Plans
    /\ num = [n \in Names |-> plan.num[n]]
    /\ want = [n \in Names |-> Value(num[n])]
    /\ answer = [is |-> 0, want |-> 0, excuse |-> ""]

\* A call that makes numbers of the numbers and says something.
Calls(numbers, integers, is, should, excuse) ==
    /\ num' = numbers
    /\ want' = integers
    /\ answer' = [is |-> is, want |-> should, excuse |-> excuse]
    /\ plan' = [plan EXCEPT !.calls = @ - 1]

Makes(x, X, v) == Calls([num EXCEPT ![x] = X], [want EXCEPT ![x] = v], 0, 0, "")
Says(is, should) == Calls(num, want, is, should, "")

Moves(x, y) ==
    \/ Makes(x, Copy(num[x], num[y]), want[y])
    \/ \E n \in {1, 3} : Makes(x, Shrink(num[x], n), want[x])
    \/ \E z \in {-1, 0, 200} : Makes(x, LSet(num[x], z), z)
    \/ \E yes \in BOOLEAN :
        \/ Makes(x, CondAssign(num[x], num[y], yes), IF yes THEN want[y] ELSE want[x])
        \/ LET two == CondSwap(num[x], num[y], yes)
           IN  /\ x # y
               /\ Calls([num EXCEPT ![x] = two[1], ![y] = two[2]],
                        IF yes THEN [want EXCEPT ![x] = want[y], ![y] = want[x]] ELSE want,
                        0, 0, "")

Carries(X) == \E i \in DOMAIN X.p : 2 * X.p[i] >= Base

Sums(x, a, b) ==
    \/ Calls([num EXCEPT ![x] = AddMpi(@, num[a], num[b], x = a /\ x = b)],
             [want EXCEPT ![x] = want[a] + want[b]], 0, 0,
             IF x = a /\ x = b /\ Carries(num[x]) THEN "doubled in place" ELSE "")
    \/ Makes(x, SubMpi(num[x], num[a], num[b]), want[a] - want[b])

Product(x, a, b) == Makes(x, MulMpi(num[x], num[a], num[b]), want[a] * want[b])

Quotients(q, r, a, b) ==
    LET v == Quotient(want[a], want[b])
        rest == want[a] - v * want[b]
        Set(w, n, z) == IF n = "none" THEN w ELSE [w EXCEPT ![n] = z]
    IN  /\ want[b] # 0 /\ q # r
        /\ Calls(DivMpi(num, q, r, a, b), Set(Set(want, q, v), r, rest), 0, 0,
                 IF q \in {a, b} THEN "quotient in place" ELSE "")

Remainders(x, a, b) ==
    \/ /\ want[b] > 0 /\ x # b
       /\ Makes(x, ModMpi(num[x], num[a], num[b]), want[a] % want[b])
    \/ \E z \in {1, 2, 3, 10, 15, 16} : Says(ModInt(num[a], z), want[a] % z)

\* The power replaces its base; x is the exponent.
Powers(a, b) ==
    LET v == PowerMod(want[a], want["x"], want[b])
    IN  /\ want[b] > 0 /\ want[b] % 2 = 1 /\ want["x"] >= 0
        /\ a # b /\ a # "x" /\ b # "x"
        /\ Calls([num EXCEPT ![a] = ExpMod(@, num[a], num["x"], num[b])],
                 [want EXCEPT ![a] = v], 0, 0,
                 IF num[a].s < 0 /\ (want["x"] % 2 = 0 \/ v = 0) THEN "negative base" ELSE "")

Divides(x, a, b) ==
    \/ /\ ~(want[a] = 0 /\ want[b] = 0)
       /\ Calls([num EXCEPT ![x] = Gcd(@, num[a], num[b])],
                [want EXCEPT ![x] = GcdOf(want[a], want[b])], 0, 0,
                IF want[b] = 0 THEN "divisor of a number and 0" ELSE "")
    \/ /\ want[b] > 1 /\ GcdOf(want[a], want[b]) = 1
       /\ Makes(x, InvMod(num[x], num[a], num[b]),
                CHOOSE v \in 0..(want[b] - 1) : (v * (want[a] % want[b])) % want[b] = 1)

ShiftsBits(x) ==
    \E n \in {0, 1, 7, 8, 9, 16, 17} :
        \/ /\ AbsOf(want[x]) < 2^(30 - n)      \* TLC's integers
           /\ Makes(x, ShiftL(num[x], n), want[x] * 2^n)
        \/ Makes(x, ShiftR(num[x], n), SignOf(want[x]) * (AbsOf(want[x]) \div 2^n))
        \/ Says(GetBit(num[x], n), (AbsOf(want[x]) \div 2^n) % 2)
        \/ \E bit \in {0, 1} :
            Makes(x, SetBit(num[x], n, bit),
                  num[x].s * (AbsOf(want[x]) + (bit - ((AbsOf(want[x]) \div 2^n) % 2)) * 2^n))

Compares(a, b) ==
    \/ Says(CmpMpi(num[a], num[b]),
            IF want[a] = want[b] THEN 0 ELSE SignOf(want[a] - want[b]))
    \/ Says(CmpAbs(num[a], num[b]),
            IF AbsOf(want[a]) = AbsOf(want[b]) THEN 0
            ELSE SignOf(AbsOf(want[a]) - AbsOf(want[b])))

Texts(x, a) ==
    \/ Makes(x, ReadBinary(num[x], WriteBinary(num[a], 3)), AbsOf(want[a]))
    \/ \E radix \in {2, 3, 10, 16} :
        \/ Makes(x, ReadString(num[x], radix, WriteString(num[a], radix)), want[a])
        \/ /\ radix # 16
           /\ Says(WriteString(num[a], radix),
                   (IF num[a].s < 0 THEN <<-1>> ELSE <<>>) \o DigitsOf(AbsOf(want[a]), radix))

Primes(a) ==
    \E draws \in plan.draws :
        LET A == [num[a] EXCEPT !.s = 1]
            bases == {Value(Drawn(A, SubInt(Fresh, A, 1), draw)) : draw \in draws}
            v == AbsOf(want[a])
        IN  Calls(num, want, IsPrime(num[a], draws),
                  \/ Prime(v)
                  \/ v > 1 /\ SmallFactors(A) = "unknown" /\ \A base \in bases : Liar(v, base),
                  IF v \in bases THEN "the number itself is drawn" ELSE "")

Generates(x) ==
    \E draws \in plan.draws, nbits \in {7, 10}, safe \in BOOLEAN : \E first \in draws :
        /\ \E i \in DOMAIN first : first[i] # 0
        /\ \E X \in {GenPrime(num[x], nbits, safe, first, draws)} :
            LET v == Value(X)
            IN  Calls([num EXCEPT ![x] = X], [want EXCEPT ![x] = v],
                      v >= 2^(nbits - 1) /\ Prime(v) /\ (safe => Prime(v \div 2)), TRUE, "")

On(kind) == kind \in plan.kinds /\ plan.calls > 0 /\ answer.excuse = ""

\* What is read has a limb.
Next ==
    LET Set == {n \in Names : num[n].p # <<>>}
    IN  \E x \in Names, a \in Set :
            \/ On("move") /\ Moves(x, a)
            \/ On("compare") /\ Compares(x, a)
            \/ On("shift") /\ x \in Set /\ ShiftsBits(x)
            \/ On("text") /\ Texts(x, a)
            \/ On("prime") /\ x = a /\ Primes(a)
            \/ On("generate") /\ x = a /\ Generates(x)
            \/ \E b \in Set :
                \/ On("sum") /\ Sums(x, a, b)
                \/ On("product") /\ Product(x, a, b)
                \/ On("remainder") /\ Remainders(x, a, b)
                \/ On("divisor") /\ Divides(x, a, b)
                \/ On("power") /\ x = a /\ "x" \in Set /\ Powers(a, b)
                \/ On("quotient") /\ \E q \in Names \cup {"none"} : Quotients(q, x, a, b)

Spec == Init /\ [][Next]_vars

-----------------------------------------------------------------------------

\* Every call leaves the numbers, and says, what the same call on integers does, whichever of
\* its operands the result is; except where a number with a limb of half its range or more is
\* added to itself in place (its carries are lost), where the quotient is written over an
\* operand (whose sign is read afterwards), for even powers of negative numbers (the sign is
\* made up for all the same), for the divisor of a number and 0 (it is 0), and where the test
\* of a prime draws the prime itself (which fails it).
NumbersRight ==
    answer.excuse = "" =>
        /\ answer.is = answer.want
        /\ \A n \in Names :
            /\ Value(num[n]) = want[n]
            /\ \A i \in DOMAIN num[n].p : num[n].p[i] \in 0..(Base - 1)
=============================================================================
