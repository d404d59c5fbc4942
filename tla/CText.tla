-------------------------------- MODULE CText --------------------------------
(***************************************************************************)
(* The texts of the node's C code: strings, characters and numbers        *)
(* (libc_replacements.c, core_esp8266_noniso.c, pgmspace.cpp) and the      *)
(* base64 that texts and the SN travel in between node and server          *)
(* (base64.c, wio.cpp, ota.cpp, handlers.py).  Characters are their codes; *)
(* a text has no zero in it; an area of memory has; a double is digits     *)
(* with a number of decimals.                                              *)
(***************************************************************************)
EXTENDS Integers, SequencesExt

CONSTANTS
    Word,        \* 2^32
    Unit,        \* of a double that is printed; a power of ten
    Asks         \* what is asked: [kind, ...]

CTextAssumption == Word \in Nat /\ Unit \in Nat /\ \A a \in Asks : a.kind \in STRING

VARIABLES
    memory,      \* the texts that are cut into tokens, each a user's
    last,        \* strtok's place in one of them
    ask,
    answer       \* what was answered; of strtok, each user's tokens

vars == <<memory, last, ask, answer>>

Nul == 0
Minus == 45
Plus == 43
Point == 46
Equal == 61
Smaller(a, b) == IF a < b THEN a ELSE b
Upto(s, n) == SubSeq(s, 1, Smaller(n, Len(s)))
TextOf(area) == Upto(area, SelectInSeq(Append(area, Nul), LAMBDA c : c = Nul) - 1)
Put(area, at, t) ==
    [i \in DOMAIN area |-> IF i - at \in 0..(Len(t) - 1) THEN t[i - at + 1] ELSE area[i]]

Nowhere == <<>>
Users == {1, 2}

Init ==
    /\ ask \in Asks
    /\ memory = IF ask.kind = "tokens" THEN [u \in Users |-> Append(ask.texts[u], Nul)] ELSE <<>>
    /\ last = Nowhere
    /\ answer = IF ask.kind = "tokens"
                THEN [got |-> [u \in Users |-> <<>>], at |-> [u \in Users |-> "first"],
                      by |-> 0, mixed |-> FALSE]
                ELSE <<>>

-----------------------------------------------------------------------------
(* Characters and strings.                                                  *)

IsCntrl(c) == c <= 31 \/ c = 127
IsDigit(c) == c \in 48..57
IsUpper(c) == c \in 65..90
IsLower(c) == c \in 97..122
IsAlpha(c) == IsUpper(c) \/ IsLower(c)
IsSpace(c) == c \in 9..13 \cup {32}
IsGraph(c) == ~IsCntrl(c) /\ c # 32
Classes(c) ==
    {k \in {"cntrl", "digit", "upper", "lower", "alpha", "alnum", "print", "graph", "punct",
            "space", "blank", "xdigit"} :
        CASE k = "cntrl"  -> IsCntrl(c)
          [] k = "digit"  -> IsDigit(c)
          [] k = "upper"  -> IsUpper(c)
          [] k = "lower"  -> IsLower(c)
          [] k = "alpha"  -> IsAlpha(c)
          [] k = "alnum"  -> IsAlpha(c) \/ IsDigit(c)
          [] k = "print"  -> ~IsCntrl(c)
          [] k = "graph"  -> IsGraph(c)
          [] k = "punct"  -> IsGraph(c) /\ ~IsAlpha(c) /\ ~IsDigit(c)
          [] k = "space"  -> IsSpace(c)
          [] k = "blank"  -> c \in {9, 32}
          [] k = "xdigit" -> c \in 65..70 \cup 97..102 \/ IsDigit(c)}
ToLower(c) == IF IsUpper(c) THEN c + 32 ELSE c
ToUpper(c) == IF IsLower(c) THEN c - 32 ELSE c

\* Places in a text, 0 for a null pointer: the zero at its end is never found.
StrChr(s, c) == SelectInSeq(s, LAMBDA x : x = c)
StrRChr(s, c) == SelectLastInSeq(s, LAMBDA x : x = c)
StrNLen(s, n) == Smaller(Len(s), n)

\* What is left in an area: strcat, strncat and strncat_P, strlcpy, strncpy_P.
StrNCat(area, s, n) == Put(area, Len(TextOf(area)) + 1, Append(Upto(s, n), Nul))
StrLCpy(area, s, n) == IF n = 0 THEN area ELSE Put(area, 1, Append(Upto(s, n - 1), Nul))
StrNCpyP(area, s, n) == Put(area, 1, Upto(Append(s, Nul), n))

\* The difference of the first two characters that differ, or end a text.
Difference(s, t) ==
    LET a == Append(s, Nul)
        b == Append(t, Nul)
        stops(i) == a[i] # b[i] \/ b[i] = Nul
        at == CHOOSE i \in 1..Smaller(Len(a), Len(b)) : stops(i) /\ \A j \in 1..(i - 1) : ~stops(j)
    IN  a[at] - b[at]
StrNCmpP(s, t, n) == Difference(Upto(s, n), Upto(t, n))
Lowered(s) == [i \in DOMAIN s |-> ToLower(s[i])]
StrCaseCmp(s, t) == Difference(Lowered(s), Lowered(t))

Answers(kind, given) ==
    /\ ask.kind = kind /\ answer = <<>>
    /\ answer' = given
    /\ UNCHANGED <<memory, last, ask>>

Class == Answers("class", <<Classes(ask.c), ToLower(ask.c), ToUpper(ask.c)>>)
Search == Answers("search",
    <<StrChr(ask.s, ask.c), StrRChr(ask.s, ask.c), StrNLen(ask.s, ask.n)>>)
Copy == Answers("copy",
    <<StrNCat(ask.area, ask.s, ask.n), StrLCpy(ask.area, ask.s, ask.n),
      StrNCpyP(ask.area, ask.s, ask.n)>>)
Compare == Answers("compare",
    <<StrNCmpP(ask.s, ask.t, ask.n), StrNCmpP(Lowered(ask.s), Lowered(ask.t), ask.n),
      StrCaseCmp(ask.s, ask.t)>>)

\* strtok: the first call of a user with its text, then with null, from where the last call
\* of anybody stopped.
First(area, from, chars) == SelectInSubSeq(area, from, Len(area), LAMBDA c : c \in chars)
NotIn(area, from, chars) == SelectInSubSeq(area, from, Len(area), LAMBDA c : c \notin chars)

StrTok(u) ==
    /\ ask.kind = "tokens" /\ answer.at[u] # "over"
    /\ LET start == IF answer.at[u] = "first" THEN <<u, 1>> ELSE last
           by == [answer EXCEPT !.by = u,
                    !.mixed = @ \/ (answer.at[u] = "on" /\ answer.by # u)]
       IN  IF start = Nowhere
           THEN answer' = [by EXCEPT !.at[u] = "over"] /\ UNCHANGED <<memory, last>>
           ELSE LET area == memory[start[1]]
                    from == NotIn(area, start[2], ask.delimiters)
                    to == First(area, from, ask.delimiters \cup {Nul})
                IN  IF area[from] = Nul
                    THEN /\ answer' = [by EXCEPT !.at[u] = "over"]
                         /\ last' = Nowhere
                         /\ UNCHANGED memory
                    ELSE /\ answer' = [by EXCEPT !.at[u] = "on",
                                          !.got[u] = Append(@, SubSeq(area, from, to - 1))]
                         /\ last' = IF area[to] = Nul THEN Nowhere ELSE <<start[1], to + 1>>
                         /\ memory' = [memory EXCEPT ![start[1]][to] = Nul]
    /\ UNCHANGED ask

-----------------------------------------------------------------------------
(* Numbers.                                                                 *)

Signed(n) == IF n % Word >= Word \div 2 THEN (n % Word) - Word ELSE n % Word
Greatest == (Word \div 2) - 1
DigitOf(c) ==
    CASE IsDigit(c) -> c - 48 [] IsUpper(c) -> c - 55 [] IsLower(c) -> c - 87 [] OTHER -> 99

\* The loop of strtol and strtoul, from a place on: the number, 1 or -1 if there was a digit,
\* and the place at which it stops.
RECURSIVE Accumulate(_, _, _, _, _, _)
Accumulate(t, i, base, limit, acc, any) ==
    LET d == DigitOf(t[i])
    IN  IF d >= base THEN <<acc, any, i>>
        ELSE IF any < 0 \/ acc > limit \div base \/ (acc = limit \div base /\ d > limit % base)
        THEN Accumulate(t, i + 1, base, limit, acc, -1)
        ELSE Accumulate(t, i + 1, base, limit, acc * base + d, 1)

\* The number, and how much of the text it takes.
StrTo(s, asked, signed) ==
    LET t == s \o <<Nul, Nul, Nul>>
        space == NotIn(t, 1, {9, 10, 11, 12, 13, 32})
        neg == t[space] = Minus
        sign == IF t[space] \in {Minus, Plus} THEN space + 1 ELSE space
        hex == asked \in {0, 16} /\ t[sign] = 48 /\ t[sign + 1] \in {88, 120}
        base == IF hex THEN 16 ELSE IF asked # 0 THEN asked ELSE IF t[sign] = 48 THEN 8 ELSE 10
        limit == IF ~signed THEN Word - 1 ELSE IF neg THEN Greatest + 1 ELSE Greatest
        r == Accumulate(t, IF hex THEN sign + 2 ELSE sign, base, limit, 0, 0)
        value == IF r[2] < 0 THEN IF signed /\ neg THEN -(Greatest + 1) ELSE limit
                 ELSE IF neg THEN -r[1] ELSE r[1]
    IN  <<IF signed THEN Signed(value) ELSE value % Word, IF r[2] = 0 THEN 0 ELSE r[3] - 1>>

\* strtod takes every point for the first one; the value is digits and decimals.
RECURSIVE Decimals(_, _, _, _, _)
Decimals(t, i, value, point, decimals) ==
    IF t[i] = Point THEN Decimals(t, i + 1, value, TRUE, decimals)
    ELSE IF ~IsDigit(t[i]) THEN <<value, decimals, i - 1>>
    ELSE Decimals(t, i + 1, value * 10 + t[i] - 48, point, decimals + (IF point THEN 1 ELSE 0))

StrToD(s) ==
    LET t == Append(s, Nul)
        space == NotIn(t, 1, {9, 10, 11, 12, 13, 32})
        sign == IF t[space] \in {Minus, Plus} THEN space + 1 ELSE space
        r == Decimals(t, sign, 0, FALSE, 0)
    IN  IF t[space] = Minus THEN [r EXCEPT ![1] = -@] ELSE r

ParseNumber == Answers("number",
    <<StrTo(ask.s, ask.base, TRUE), StrTo(ask.s, ask.base, FALSE), StrToD(ask.s)>>)

\* itoa and ltoa, utoa and ultoa: digits from the last one on.  abs of the least integer is
\* itself, and what is before the table of the digits is printed.
Unknown == -1
DigitCode(d) == IF d < 0 THEN Unknown ELSE IF d < 10 THEN 48 + d ELSE 87 + d
Truncated(a, b) == IF a < 0 THEN -((-a) \div b) ELSE a \div b
RECURSIVE Backwards(_, _)
Backwards(quotient, base) ==
    LET tmp == Truncated(quotient, base)
    IN  <<DigitCode(quotient - tmp * base)>> \o (IF tmp = 0 THEN <<>> ELSE Backwards(tmp, base))

Itoa(n, base) ==
    IF base \notin 2..16 THEN <<>>
    ELSE (IF n < 0 THEN <<Minus>> ELSE <<>>) \o
         Reverse(Backwards(Signed(IF n < 0 THEN -n ELSE n), base))
Utoa(n, base) == IF base \notin 2..16 THEN <<>> ELSE Reverse(Backwards(n % Word, base))

PrintNumber == Answers("digits", <<Itoa(ask.n, ask.base), Utoa(ask.n, ask.base)>>)

\* dtostrf
DToStrF(n, width, prec) ==
    LET size == IF n < 0 THEN -n ELSE n
        scaled == (2 * size * 10^prec + Unit) \div (2 * Unit)
        digits == Reverse(Backwards(scaled, 10))
        padded == [i \in 1..(prec + 1 - Len(digits)) |-> 48] \o digits
        whole == SubSeq(padded, 1, Len(padded) - prec)
        text == (IF n < 0 THEN <<Minus>> ELSE <<>>) \o whole \o
                (IF prec > 0 THEN <<Point>> \o SubSeq(padded, Len(whole) + 1, Len(padded))
                 ELSE <<>>)
    IN  [i \in 1..(width - Len(text)) |-> 32] \o text

PrintDouble == Answers("double", <<DToStrF(ask.n, ask.width, ask.prec)>>)

-----------------------------------------------------------------------------
(* base64.                                                                  *)

EncMap == [i \in 0..63 |-> CASE i < 26 -> 65 + i [] i \in 26..51 -> 71 + i
                             [] i \in 52..61 -> i - 4 [] i = 62 -> 43 [] i = 63 -> 47]
DecMap == [c \in 0..127 |->
    IF c = Equal THEN 64
    ELSE IF \E i \in 0..63 : EncMap[i] = c THEN CHOOSE i \in 0..63 : EncMap[i] = c ELSE 127]

Group(b) ==
    LET C(i) == IF i <= Len(b) THEN b[i] ELSE 0
        code == <<EncMap[C(1) \div 4], EncMap[(C(1) % 4) * 16 + C(2) \div 16],
                  EncMap[(C(2) % 16) * 4 + C(3) \div 64], EncMap[C(3) % 64]>>
    IN  [i \in 1..4 |-> IF i <= Len(b) + 1 THEN code[i] ELSE Equal]
RECURSIVE Encode(_)
Encode(b) == IF b = <<>> THEN <<>> ELSE Group(Upto(b, 3)) \o Encode(SubSeq(b, 4, Len(b)))

\* The first pass: the characters that count, FALSE for one that is wrong.
Newline(t, i) == t[i] = 10 \/ (t[i] = 13 /\ i < Len(t) /\ t[i + 1] = 10)
RECURSIVE Valid(_, _, _, _)
Valid(t, i, n, pads) ==
    IF i > Len(t) THEN <<TRUE, n>>
    ELSE LET next == NotIn(Append(t, Nul), i, {32})
         IN  IF next > Len(t) THEN <<TRUE, n>>
             ELSE IF Newline(t, next)
             THEN Valid(t, next + (IF t[next] = 10 THEN 1 ELSE 2), n, pads)
             ELSE LET c == t[next]
                      p == pads + (IF c = Equal THEN 1 ELSE 0)
                  IN  IF next # i \/ p > 2 \/ c > 127 THEN <<FALSE, 0>>
                      ELSE IF DecMap[c] = 127 \/ (DecMap[c] < 64 /\ p # 0) THEN <<FALSE, 0>>
                      ELSE Valid(t, next + 1, n + 1, p)

\* The second pass, in place: a write is never ahead of what is read.
RECURSIVE Decoded(_, _, _, _, _, _)
Decoded(area, from, to, n, bits, left) ==
    IF from > Len(area) THEN <<area, to - 1>>
    ELSE LET c == area[from]
             v == (bits * 64 + (DecMap[c] % 64)) % 2^24
             j == left - (IF DecMap[c] = 64 THEN 1 ELSE 0)
         IN  IF c \in {10, 13, 32} THEN Decoded(area, from + 1, to, n, bits, left)
             ELSE IF n < 3 THEN Decoded(area, from + 1, to, n + 1, v, j)
             ELSE Decoded(Put(area, to, Upto(<<v \div 2^16, (v \div 2^8) % 256, v % 256>>, j)),
                          from + 1, to + j, 0, v, j)

\* __plugin_function_write: what the user's function gets, or an error.  Where there is
\* nothing to decode the length stays that of the text.
Passed(t) ==
    LET first == Valid(t, 1, 0, 0)
        r == IF first[2] = 0 THEN <<t, Len(t)>> ELSE Decoded(t, 1, 1, 0, 0, 3)
    IN  IF ~first[1] THEN <<"base64_decode error">> ELSE <<"OK", TextOf(Upto(r[1], r[2]))>>

\* A text that the server passes to a function, encoded; and any text.
PassEncoded == Answers("pass", <<Encode(ask.s), Passed(Encode(ask.s))>>)
PassText == Answers("pass any", Passed(ask.s))

\* The node's SN in the URL of an upgrade, and what the server makes of it.
NiNz == <<78, 105, 78, 122>>
UpgradeSn(s) == Encode(s) \o NiNz
SnOf(t) ==
    LET code == SubSeq(t, 1, Len(t) - 4)
        r == Decoded(code, 1, 1, 0, 0, 3)
    IN  Upto(r[1], r[2])
Upgrade == Answers("upgrade", SnOf(UpgradeSn(ask.s)))

Next ==
    \/ Class \/ Search \/ Copy \/ Compare \/ ParseNumber \/ PrintNumber \/ PrintDouble
    \/ PassEncoded \/ PassText \/ Upgrade
    \/ \E u \in Users : StrTok(u)

Spec == Init /\ [][Next]_vars

-----------------------------------------------------------------------------
(* Properties.                                                             *)

\* The classes of ASCII; above it every character is punctuation.
Ascii(c) ==
    {k \in {"cntrl", "digit", "upper", "lower", "alpha", "alnum", "print", "graph", "punct",
            "space", "blank", "xdigit"} :
        c \in CASE k = "cntrl"  -> 0..31 \cup {127}
               [] k = "digit"  -> 48..57
               [] k = "upper"  -> 65..90
               [] k = "lower"  -> 97..122
               [] k = "alpha"  -> 65..90 \cup 97..122
               [] k = "alnum"  -> 48..57 \cup 65..90 \cup 97..122
               [] k = "print"  -> 32..126
               [] k = "graph"  -> 33..126
               [] k = "punct"  -> 33..47 \cup 58..64 \cup 91..96 \cup 123..126
               [] k = "space"  -> 9..13 \cup {32}
               [] k = "blank"  -> {9, 32}
               [] k = "xdigit" -> 48..57 \cup 65..70 \cup 97..102}
ClassRight(c, a) ==
    /\ a[1] = IF c < 128 THEN Ascii(c) ELSE {"print", "graph", "punct"}
    /\ a[2] # c \/ a[3] # c <=> "alpha" \in a[1]

\* A character is found where it is first and last; the zero that ends a text is not.
SearchRight(s, c, n, a) ==
    /\ IF c \in ToSet(s)
       THEN /\ s[a[1]] = c /\ c \notin ToSet(Upto(s, a[1] - 1))
            /\ s[a[2]] = c /\ c \notin ToSet(SubSeq(s, a[2] + 1, Len(s)))
       ELSE a[1] = 0 /\ a[2] = 0
    /\ a[3] = Len(Upto(s, n))

\* What ends up in an area that is large enough; strncpy_P leaves a text that is as long as
\* it may be without its end.
CopyRight(area, s, n, a) ==
    /\ Len(TextOf(area)) + StrNLen(s, n) < Len(area) => TextOf(a[1]) = TextOf(area) \o Upto(s, n)
    /\ n \in 1..Len(area) => TextOf(a[2]) = Upto(s, n - 1)
    /\ n <= Len(area) =>
        /\ Len(s) < n => TextOf(a[3]) = s
        /\ Len(s) >= n => \A i \in DOMAIN area : a[3][i] = IF i <= n THEN s[i] ELSE area[i]

\* The order of texts.
Before(s, t) ==
    \/ IsStrictPrefix(s, t)
    \/ \E i \in 1..Smaller(Len(s), Len(t)) :
        s[i] < t[i] /\ \A j \in 1..(i - 1) : s[j] = t[j]
OrderRight(s, t, d) == (d < 0 <=> Before(s, t)) /\ (d = 0 <=> s = t)
CompareRight(s, t, n, a) ==
    /\ OrderRight(Upto(s, n), Upto(t, n), a[1])
    /\ OrderRight(Upto(Lowered(s), n), Upto(Lowered(t), n), a[2])
    /\ OrderRight(Lowered(s), Lowered(t), a[3])

\* A text that is a number to a base: spaces, a sign, a prefix, digits.
DigitsTo(t, b) == t # <<>> /\ \A i \in DOMAIN t : DigitOf(t[i]) < b
SizeOf(t, b) == FoldLeft(LAMBDA v, c : v * b + DigitOf(c), 0, t)
BaseOf(body, asked) ==
    IF asked # 0 THEN asked
    ELSE IF Len(body) > 2 /\ body[1] = 48 /\ body[2] \in {88, 120} THEN 16
    ELSE IF body[1] = 48 THEN 8 ELSE 10
Readings(s, asked) ==
    {<<i, j, neg>> \in (0..Len(s)) \X (0..Len(s)) \X BOOLEAN :
        /\ \A k \in 1..i : IsSpace(s[k])
        /\ LET sign == i < Len(s) /\ s[i + 1] \in {Minus, Plus}
               body == SubSeq(s, IF sign THEN i + 2 ELSE i + 1, j)
               b == BaseOf(body, asked)
           IN  /\ body # <<>> /\ neg = (sign /\ s[i + 1] = Minus)
               /\ \/ DigitsTo(body, b)
                  \/ /\ b = 16 /\ Len(body) > 2 /\ body[1] = 48 /\ body[2] \in {88, 120}
                     /\ DigitsTo(SubSeq(body, 3, Len(body)), 16)}
HexAlone(s) == \E i \in 1..(Len(s) - 1) :
    /\ s[i] = 48 /\ s[i + 1] \in {88, 120}
    /\ i + 1 = Len(s) \/ DigitOf(s[i + 2]) >= 16

\* strtol and strtoul take the longest text that is a number, and give that number or, if it
\* is too large, the largest one; but "0x" without a digit behind it is none, not a zero.
NumberRight(s, asked, a) ==
    LET all == Readings(s, asked)
        longest == CHOOSE r \in all : \A q \in all : q[2] <= r[2]
        body == SelectSeq(SubSeq(s, longest[1] + 1, longest[2]), LAMBDA c : c \notin {Minus, Plus})
        hex == Len(body) > 2 /\ body[2] \in {88, 120} /\ asked \in {0, 16}
        base == BaseOf(body, asked)
        size == SizeOf(IF hex THEN SubSeq(body, 3, Len(body)) ELSE body, base)
        value == IF longest[3] THEN -size ELSE size
    IN  \/ asked \in {0, 16} /\ HexAlone(s)
        \/ all = {} /\ a[1] = <<0, 0>> /\ a[2] = <<0, 0>>
        \/ /\ all # {}
           /\ a[1] = <<IF value > Greatest THEN Greatest
                       ELSE IF value < -(Greatest + 1) THEN -(Greatest + 1) ELSE value, longest[2]>>
           /\ a[2] = <<IF size >= Word THEN Word - 1 ELSE value % Word, longest[2]>>

\* strtod takes all digits behind spaces and a sign, and a second point does not end them.
DoubleRead(s, r) ==
    LET read == Upto(s, r[3])
        first == SelectInSeq(read, LAMBDA c : ~IsSpace(c))
        point == SelectInSeq(read, LAMBDA c : c = Point)
        size == SizeOf(SelectSeq(read, IsDigit), 10)
    IN  /\ r[1] = IF first > 0 /\ read[first] = Minus THEN -size ELSE size
        /\ r[2] = IF point = 0 THEN 0 ELSE Len(SelectSeq(SubSeq(read, point, r[3]), IsDigit))
        /\ r[3] = Len(s) \/ ~(IsDigit(s[r[3] + 1]) \/ s[r[3] + 1] = Point)

\* What itoa prints of a number is what strtol reads, to every base; but for the least
\* number, of which no digit is right.
DigitsRight(n, base, a) ==
    base \in 2..16 =>
        /\ \/ n = -(Greatest + 1)
           \/ StrTo(a[1], base, TRUE) = <<n, Len(a[1])>>
        /\ StrTo(a[2], base, FALSE) = <<n % Word, Len(a[2])>>

\* What dtostrf prints is as wide as was asked for, and strtod reads it as the number,
\* rounded.
DoubleRight(n, width, prec, t) ==
    LET size == IF n < 0 THEN -n ELSE n
        r == StrToD(t)
        off == 10^prec * size - Unit * (IF r[1] < 0 THEN -r[1] ELSE r[1])
    IN  /\ r[2] = prec /\ r[3] = Len(t)
        /\ (n < 0 => r[1] <= 0) /\ (n > 0 => r[1] >= 0)
        /\ 2 * off < Unit /\ 2 * off >= -Unit
        /\ Len(t) >= width /\ (Len(t) > width => t[1] # 32)

\* A function gets the text that was passed to it, up to its first zero; and of any other
\* text what the whole groups of four stand for: characters behind them are dropped without
\* an error, and a text of nothing but spaces and line ends is passed as it is.  An error is
\* a character that is none of base64's, a space inside a line, or a pad that is not among
\* the last two.
Counted(t) == SelectSeq(t, LAMBDA c : c \notin {10, 13, 32})
Wrong(t) ==
    \E i \in DOMAIN t :
        LET rest == SubSeq(t, i + 1, Len(t))
        IN  \/ t[i] \notin Range(EncMap) \cup {10, 13, 32, Equal}
            \/ t[i] = 13 /\ (rest = <<>> \/ rest[1] # 10)
            \/ t[i] = 32 /\ rest # <<>> /\ rest[1] \in Range(EncMap) \cup {Equal}
            \/ t[i] = Equal /\ (ToSet(rest) \cap Range(EncMap) # {} \/
                                Len(SelectSeq(rest, LAMBDA c : c = Equal)) > 1)
AnyRight(t, a) ==
    LET code == Counted(t)
        whole == SubSeq(code, 1, Len(code) - (Len(code) % 4))
        size == (Len(whole) \div 4) * 3 - Len(SelectSeq(whole, LAMBDA c : c = Equal))
    IN  IF Wrong(t) THEN a[1] # "OK"
        ELSE /\ a[1] = "OK"
             /\ IF code = <<>> THEN a[2] = t
                ELSE /\ Len(a[2]) <= size
                     /\ Len(a[2]) = size =>
                            IsPrefix(Upto(Encode(a[2]), (8 * size) \div 6), whole)

\* strtok gives each user the tokens of its text, unless another user came between.
Runs(s, delimiters) ==
    LET starts == {i \in 1..Len(s) : s[i] \notin delimiters /\ (i = 1 \/ s[i - 1] \in delimiters)}
        stop(i) == CHOOSE j \in i..Len(s) :
                     /\ \A k \in i..j : s[k] \notin delimiters
                     /\ j = Len(s) \/ s[j + 1] \in delimiters
    IN  {<<i, SubSeq(s, i, stop(i))>> : i \in starts}
TokensRight ==
    answer.mixed \/ \A u \in Users :
        LET runs == SetToSortSeq(Runs(ask.texts[u], ask.delimiters), LAMBDA a, b : a[1] < b[1])
            texts == [i \in DOMAIN runs |-> runs[i][2]]
        IN  IsPrefix(answer.got[u], texts) /\ (answer.at[u] = "over" => answer.got[u] = texts)

CTextsRight ==
    IF ask.kind = "tokens" THEN TokensRight
    ELSE answer # <<>> =>
        CASE ask.kind = "class"    -> ClassRight(ask.c, answer)
          [] ask.kind = "search"   -> SearchRight(ask.s, ask.c, ask.n, answer)
          [] ask.kind = "copy"     -> CopyRight(ask.area, ask.s, ask.n, answer)
          [] ask.kind = "compare"  -> CompareRight(ask.s, ask.t, ask.n, answer)
          [] ask.kind = "number"   -> /\ NumberRight(ask.s, ask.base, answer)
                                      /\ DoubleRead(ask.s, answer[3])
          [] ask.kind = "digits"   -> DigitsRight(ask.n, ask.base, answer)
          [] ask.kind = "double"   -> DoubleRight(ask.n, ask.width, ask.prec, answer[1])
          [] ask.kind = "pass"     -> answer[2] = <<"OK", TextOf(ask.s)>>
          [] ask.kind = "pass any" -> AnyRight(ask.s, answer)
          [] ask.kind = "upgrade"  -> answer = ask.s
=============================================================================
