------------------------------ MODULE WString -------------------------------
(***************************************************************************)
(* Arduino's String (WString.cpp), of which user programs and the firmware *)
(* make their texts: a buffer from the heap with room for capacity         *)
(* characters and their terminator, and the length of the text in it.      *)
(*                                                                         *)
(* text holds what each String should say: the result of the same calls on *)
(* plain sequences.  A String in the model is changed by C's own string    *)
(* functions, which know of terminators only.                              *)
(***************************************************************************)
EXTENDS Integers, Sequences, FiniteSets

CONSTANTS
    Chars,     \* the characters of texts
    Lower(_),  \* tolower; " " is what isspace knows
    Names,     \* the program's Strings
    Longest,   \* bound: characters of a literal, and of a text that may grow
    Plans      \* how many calls a behaviour makes, of which kinds, with which texts

WStringAssumption == {" "} \cup {Lower(c) : c \in Chars} \subseteq Chars

VARIABLES
    str,     \* each String's buffer, capacity and length
    text,    \* what it should say
    calls,   \* calls made so far, and the plan
    answer,  \* what the last call returned, and what it should have
    fault    \* what the last call did to memory that is not its own

vars == <<str, text, calls, answer, fault>>

Nul == "nul"
Any == "any"      \* a cell nobody has written
Texts(chars, n) == UNION {[1..k -> chars] : k \in 0..n}

\* A String without a buffer.
Null == [buf |-> <<>>, cap |-> 0, len |-> 0]

\* The C string that begins at cell i; Put is strcpy to cell i.
CStr(cells, i) ==
    SubSeq(cells, i, (CHOOSE k \in i..Len(cells) :
                        cells[k] = Nul /\ \A j \in i..(k - 1) : cells[j] # Nul) - 1)
Write(cells, i, t) == SubSeq(cells, 1, i - 1) \o t \o SubSeq(cells, i + Len(t), Len(cells))
Put(cells, i, t) == Write(cells, i, Append(t, Nul))

-----------------------------------------------------------------------------
(* Memory.  fails: the heap has nothing left.                              *)

ChangeBuffer(s, n) ==
    [s EXCEPT !.cap = n,
              !.buf = [k \in 1..(n + 1) |-> IF k <= Len(s.buf) THEN s.buf[k] ELSE Any]]

\* Mutant: the terminator is forgotten.
ReservedForgetting(s, size) == s.buf # <<>> /\ s.cap + 1 >= size

Reserved(s, size) == s.buf # <<>> /\ s.cap >= size

Reserve(s, size) ==
    IF Reserved(s, size) THEN s
    ELSE LET r == ChangeBuffer(s, size)
         IN  IF s.len = 0 THEN [r EXCEPT !.buf[1] = Nul] ELSE r

\* copy(cstr, length).
Copy(s, t, fails) ==
    IF fails /\ ~Reserved(s, Len(t)) THEN Null
    ELSE LET r == Reserve(s, Len(t)) IN [r EXCEPT !.len = Len(t), !.buf = Put(@, 1, t)]

\* A String constructed from a text.
New(t, fails) == Copy(Null, t, fails)

CopyString(s, rhs, fails) ==
    IF rhs.buf = <<>> THEN Null ELSE Copy(s, CStr(rhs.buf, 1), fails)

\* concat(cstr, length): FALSE is returned when there is no room.
Refused(s, t, fails) == fails /\ Len(t) > 0 /\ ~Reserved(s, s.len + Len(t))
Concat(s, t, fails) ==
    IF Len(t) = 0 \/ Refused(s, t, fails) THEN s
    ELSE LET r == Reserve(s, s.len + Len(t))
         IN  [r EXCEPT !.len = s.len + Len(t), !.buf = Put(@, s.len + 1, t)]

\* operator +: the sum is given up when a part of it does not fit.
Plus(s, t, fails) == IF Refused(s, t, fails) THEN Null ELSE Concat(s, t, fails)

\* operator = with a temporary on the right: its text is copied when it fits, else its
\* buffer is taken.
Move(s, rhs) ==
    IF s.buf # <<>> /\ s.cap >= rhs.len
    THEN [s EXCEPT !.len = rhs.len, !.buf = Put(@, 1, CStr(rhs.buf, 1))]
    ELSE rhs

-----------------------------------------------------------------------------
(* Searching.  Positions count from 0, as in the code; -1 is none.         *)

At(t, i, find) == i + Len(find) <= Len(t) /\ SubSeq(t, i + 1, i + Len(find)) = find

\* strstr from position p on.
Strstr(t, p, find) ==
    IF \E i \in p..Len(t) : At(t, i, find)
    THEN CHOOSE i \in p..Len(t) : At(t, i, find) /\ \A j \in p..(i - 1) : ~At(t, j, find)
    ELSE -1

IndexOf(s, find, from) == IF from >= s.len THEN -1 ELSE Strstr(CStr(s.buf, 1), from, find)

\* lastIndexOf: every occurrence is looked at, from the first on, until one is beyond.
LastIndexOf(s, find, from) ==
    LET t == CStr(s.buf, 1)
        end == IF from >= s.len THEN s.len - 1 ELSE from
        Scan[p \in 0..(s.len + 1), found \in -1..s.len] ==
            LET i == Strstr(t, p, find)
            IN  IF p > end \/ i = -1 THEN found
                ELSE Scan[i + 1, IF i <= end THEN i ELSE found]
    IN  IF find = <<>> \/ s.len = 0 \/ Len(find) > s.len THEN -1 ELSE Scan[0, -1]

\* lastIndexOf of a character cuts the text behind fromIndex for a while.
LastIndexOfChar(s, c, from) ==
    LET t == SubSeq(CStr(s.buf, 1), 1, from + 1)
    IN  IF from >= s.len \/ ~\E i \in DOMAIN t : t[i] = c THEN -1
        ELSE (CHOOSE i \in DOMAIN t : t[i] = c /\ \A j \in (i + 1)..Len(t) : t[j] # c) - 1

Substring(s, left, right) ==
    LET l == IF left > right THEN right ELSE left
        r == IF left > right THEN left ELSE right
    IN  IF l >= s.len THEN <<>>
        ELSE SubSeq(CStr(s.buf, 1), l + 1, IF r > s.len THEN s.len ELSE r)

\* getBytes(buf, bufsize, index): the text that is in buf then.
GetBytes(s, size, index) ==
    LET n == IF size - 1 > s.len - index THEN s.len - index ELSE size - 1
    IN  IF index >= s.len THEN <<>> ELSE SubSeq(CStr(s.buf, 1), index + 1, index + n)

StartsWith(s, find, offset) ==
    /\ s.buf # <<>> /\ (s.len < Len(find) \/ offset <= s.len - Len(find))
    /\ At(CStr(s.buf, 1), offset, find)
EndsWith(s, find) ==
    /\ s.len >= Len(find) /\ s.buf # <<>>
    /\ CStr(s.buf, s.len - Len(find) + 1) = find

\* equals, with compareTo where one has no buffer.
Equals(s, r) ==
    /\ s.len = r.len
    /\ IF s.buf = <<>> \/ r.buf = <<>> THEN s.len = 0 /\ r.len = 0
       ELSE CStr(s.buf, 1) = CStr(r.buf, 1)
EqualsIgnoreCase(s, r) ==
    /\ s.len = r.len
    /\ s.len = 0 \/ LET t == CStr(s.buf, 1) u == CStr(r.buf, 1)
                    IN  \A i \in DOMAIN t : Lower(t[i]) = Lower(u[i])

-----------------------------------------------------------------------------
(* Changing a text.                                                        *)

Upper(c) == CHOOSE d \in Chars : Lower(d) = Lower(c) /\
                                (d # Lower(c) \/ \A e \in Chars : Lower(e) = Lower(c) => e = d)

\* replace(find, replace) of texts, as long as nothing becomes longer: in place, from the left.
RECURSIVE InPlace(_, _, _, _)
InPlace(t, from, find, by) ==
    LET i == Strstr(t, from, find)
    IN  IF find = <<>> \/ i = -1 THEN t
        ELSE InPlace(SubSeq(t, 1, i) \o by \o SubSeq(t, i + Len(find) + 1, Len(t)),
                     i + Len(by), find, by)

\* Otherwise: the room is counted from the left, then the occurrences are replaced from the
\* right.
RECURSIVE Occurrences(_, _, _)
Occurrences(t, from, find) ==
    LET i == Strstr(t, from, find)
    IN  IF i = -1 THEN 0 ELSE 1 + Occurrences(t, i + Len(find), find)

RECURSIVE FromTheRight(_, _, _, _)
FromTheRight(t, index, find, by) ==
    LET i == LastIndexOf([buf |-> Append(t, Nul), len |-> Len(t)], find, index)
    IN  IF index < 0 \/ i < 0 THEN t
        ELSE FromTheRight(SubSeq(t, 1, i) \o by \o SubSeq(t, i + Len(find) + 1, Len(t)),
                          i - 1, find, by)

Replace(s, find, by, fails) ==
    LET t == CStr(s.buf, 1)
        grow == Len(by) - Len(find)
        size == s.len + grow * Occurrences(t, 0, find)
        r == IF size > s.cap THEN ChangeBuffer(s, size) ELSE s
        new == IF grow > 0 THEN FromTheRight(t, s.len - 1, find, by) ELSE InPlace(t, 0, find, by)
    IN  IF s.len = 0 \/ find = <<>> \/ (grow > 0 /\ (size = s.len \/ (fails /\ size > s.cap))) THEN s
        ELSE [r EXCEPT !.len = Len(new), !.buf = Put(@, 1, new)]

\* remove(index, count)
RemoveCount(s, index, count) == IF count > s.len - index THEN s.len - index ELSE count
Cut(s, index, count) ==
    LET n == RemoveCount(s, index, count)
        t == CStr(s.buf, 1)
    IN  IF index >= s.len \/ count = 0 THEN s
        ELSE [s EXCEPT !.len = @ - n,
                       !.buf = Put(@, index + 1, SubSeq(t, index + n + 1, s.len))]

\* toLowerCase, toUpperCase and replace of characters work on the characters up to the
\* terminator.
Mapped(s, F(_)) ==
    IF s.buf = <<>> THEN s
    ELSE LET t == CStr(s.buf, 1) IN [s EXCEPT !.buf = Write(@, 1, [i \in DOMAIN t |-> F(t[i])])]

SetCharAt(s, i, c) == IF i < s.len THEN [s EXCEPT !.buf[i + 1] = c] ELSE s

Trim(s) ==
    LET t == CStr(s.buf, 1)
        solid == {i \in DOMAIN t : t[i] # " "}
        first == CHOOSE i \in solid : \A j \in solid : i <= j
        last == CHOOSE i \in solid : \A j \in solid : i >= j
        new == IF solid = {} THEN <<>> ELSE SubSeq(t, first, last)
    IN  IF s.buf = <<>> \/ s.len = 0 THEN s
        ELSE [s EXCEPT !.len = Len(new), !.buf = Put(@, 1, new)]

-----------------------------------------------------------------------------
(* The calls of a program.  What a call returns that did not get its       *)
(* memory is not told to be right; that the String is sound is.            *)

Init ==
    /\ \E plan \in Plans :
        /\ calls = [n |-> 0, plan |-> plan]
        /\ text \in {t \in [Names -> Texts(plan.chars, plan.longest)] :
                        \A x \in Names \ plan.names : t[x] = <<>>}
        /\ \E room \in 0..plan.room :
            str = [x \in Names |-> [New(text[x], FALSE) EXCEPT
                                      !.cap = @ + room, !.buf = @ \o [k \in 1..room |-> Any]]]
    /\ answer = [got |-> 0, want |-> 0]
    /\ fault = "none"

May(x, kind) ==
    /\ fault = "none" /\ x \in calls.plan.names /\ calls.n < calls.plan.calls /\ kind \in calls.plan.kinds
    /\ calls' = [calls EXCEPT !.n = @ + 1]

Says(s) == IF s.buf = <<>> THEN <<>> ELSE CStr(s.buf, 1)

\* x becomes s; it should say want, unless memory was missing.
Becomes(x, s, want, failed) ==
    /\ str' = [str EXCEPT ![x] = s]
    /\ text' = [text EXCEPT ![x] = IF failed THEN Says(s) ELSE want]
    /\ UNCHANGED <<answer, fault>>

Literals == Texts(calls.plan.chars, calls.plan.literal)

\* x = "..."
Assign(x) ==
    /\ May(x, "assign")
    /\ \E t \in Literals, fails \in BOOLEAN :
        Becomes(x, Copy(str[x], t, fails), t, fails /\ ~Reserved(str[x], Len(t)))

\* x = y
AssignString(x, y) ==
    /\ May(x, "assign") /\ x # y
    /\ \E fails \in BOOLEAN :
        Becomes(x, CopyString(str[x], str[y], fails), text[y], fails /\ ~Reserved(str[x], Len(text[y])))

\* x = temporary: a temporary that has lost its buffer makes strcpy read at NULL.
AssignTemporary(x, temp, want, failed) ==
    \/ /\ temp.buf = <<>> /\ str[x].buf # <<>>
       /\ fault' = "null"
       /\ UNCHANGED <<str, text, answer>>
    \/ /\ ~(temp.buf = <<>> /\ str[x].buf # <<>>)
       /\ Becomes(x, Move(str[x], temp), want, failed)

\* x = y + "..."
AssignSum(x, y) ==
    /\ May(x, "sum")
    /\ \E t \in Literals, fails, fails2 \in BOOLEAN :
        LET temp == CopyString(Null, str[y], fails)
        IN  /\ Len(text[y]) + Len(t) <= Longest
            /\ AssignTemporary(x, Plus(temp, t, fails2), text[y] \o t,
                               fails \/ Refused(temp, t, fails2))

\* x = y.substring(left, right)
AssignPart(x, y) ==
    /\ May(x, "sum")
    /\ \E left, right \in 0..(str[y].len + 1), fails \in BOOLEAN :
        AssignTemporary(x, Copy(New(<<>>, FALSE), Substring(str[y], left, right), fails),
                        [i \in 1..Cardinality({j \in DOMAIN text[y] :
                                                 \/ left < j /\ j <= right
                                                 \/ right < j /\ j <= left}) |->
                            text[y][i + (IF left < right THEN left ELSE right)]],
                        fails)

\* x += "..."
Append_(x) ==
    /\ May(x, "append")
    /\ \E t \in Literals, fails \in BOOLEAN :
        /\ Len(text[x]) + Len(t) <= Longest
        /\ Becomes(x, Concat(str[x], t, fails), text[x] \o t, Refused(str[x], t, fails))

\* x += y: a text appended to itself meets its own terminator no more.
AppendString(x, y) ==
    /\ May(x, "append") /\ Len(text[x]) + Len(text[y]) <= Longest
    /\ \E fails \in BOOLEAN :
        LET t == Says(str[y])
        IN  \/ /\ x = y /\ Len(t) > 0 /\ ~Refused(str[x], t, fails)
               /\ fault' = "self"
               /\ UNCHANGED <<str, text, answer>>
            \/ /\ ~(x = y /\ Len(t) > 0 /\ ~Refused(str[x], t, fails))
               /\ Becomes(x, Concat(str[x], t, fails), text[x] \o text[y], Refused(str[x], t, fails))

\* x.reserve(n)
ReserveCall(x) ==
    /\ May(x, "reserve")
    /\ \E n \in 0..Longest : Becomes(x, Reserve(str[x], n), text[x], FALSE)

\* What replace should give: every occurrence replaced, met from the left.
Replaced(t, find, by) == InPlace(t, 0, find, by)

\* An occurrence can overlap another, or be completed by what replaces its neighbour: from
\* the right, other occurrences are found than were counted, and the buffer may be left.
Meets(find, by) ==
    \E k \in 1..(Len(find) - 1) :
        LET end == SubSeq(find, Len(find) - k + 1, Len(find))
        IN  end = SubSeq(find, 1, k) \/ end = SubSeq(by, 1, k)

\* x.replace("...", "...")
ReplaceText(x) ==
    /\ May(x, "replace")
    /\ \E find, by \in Literals, fails \in BOOLEAN :
        IF find # <<>> /\ Len(by) > Len(find) /\ Meets(find, by)
        THEN fault' = "meets" /\ UNCHANGED <<str, text, answer>>
        ELSE Becomes(x, Replace(str[x], find, by, fails), Replaced(text[x], find, by),
                     fails /\ Len(by) > Len(find))

ReplaceChar(x) ==
    /\ May(x, "change")
    /\ \E find, by \in Chars :
        LET F(c) == IF c = find THEN by ELSE c
        IN  Becomes(x, Mapped(str[x], F), [i \in DOMAIN text[x] |-> F(text[x][i])], FALSE)

ChangeCase(x) ==
    /\ May(x, "change")
    /\ \/ Becomes(x, Mapped(str[x], Lower), [i \in DOMAIN text[x] |-> Lower(text[x][i])], FALSE)
       \/ Becomes(x, Mapped(str[x], Upper), [i \in DOMAIN text[x] |-> Upper(text[x][i])], FALSE)

RemovePart(x) ==
    /\ May(x, "change")
    /\ \E index, count \in 0..(Longest + 1) :
        Becomes(x, Cut(str[x], index, count),
                LET kept == {i \in DOMAIN text[x] : i <= index \/ i > index + count}
                    Nth[n \in 1..Cardinality(kept)] ==
                        CHOOSE i \in kept : Cardinality({j \in kept : j <= i}) = n
                IN  [n \in 1..Cardinality(kept) |-> text[x][Nth[n]]], FALSE)

TrimCall(x) ==
    /\ May(x, "change")
    /\ \E want \in Texts(Chars, Len(text[x])) :
        /\ \E before, after \in [1..Len(text[x]) -> {" "}] : \E i, j \in 0..Len(text[x]) :
            text[x] = SubSeq(before, 1, i) \o want \o SubSeq(after, 1, j)
        /\ want # <<>> => want[1] # " " /\ want[Len(want)] # " "
        /\ Becomes(x, Trim(str[x]), want, FALSE)

SetChar(x) ==
    /\ May(x, "change")
    /\ \E i \in 0..Longest, c \in Chars :
        Becomes(x, SetCharAt(str[x], i, c),
                [k \in DOMAIN text[x] |-> IF k = i + 1 THEN c ELSE text[x][k]], FALSE)

\* Questions to a String, with their answers from its text.
Ask(got, want) == answer' = [got |-> got, want |-> want] /\ UNCHANGED <<str, text, fault>>

Last(S) == IF S = {} THEN -1 ELSE CHOOSE i \in S : \A j \in S : i >= j
First(S) == IF S = {} THEN -1 ELSE CHOOSE i \in S : \A j \in S : i <= j

Search(x) ==
    /\ May(x, "ask")
    /\ LET t == text[x]
           Where(find) == {i \in 0..(Len(t) - Len(find)) : At(t, i, find)}
       IN  \E find \in Literals, from \in 0..(Longest + 1) :
            \/ Ask(IndexOf(str[x], find, from),
                   IF from >= Len(t) THEN -1 ELSE First(Where(find) \cap from..Longest))
            \/ Ask(LastIndexOf(str[x], find, from),
                   IF find = <<>> \/ Len(t) = 0 THEN -1 ELSE Last(Where(find) \cap 0..from))
            \/ Len(find) = 1 /\ Ask(LastIndexOfChar(str[x], find[1], from),
                                    IF from >= Len(t) THEN -1 ELSE Last(Where(find) \cap 0..from))
            \/ (from <= Len(t) \/ Len(find) <= Len(t)) /\ Ask(StartsWith(str[x], find, from),
                                                                       from \in Where(find))
            \/ Ask(EndsWith(str[x], find), (Len(t) - Len(find)) \in Where(find))

TextPart(x) ==
    /\ May(x, "ask")
    /\ \E size \in 1..(Longest + 1), index \in 0..Longest :
        Ask(GetBytes(str[x], size, index),
            [k \in 1..Cardinality({i \in DOMAIN text[x] : index < i /\ i < index + size}) |->
                text[x][index + k]])

Compare(x, y) ==
    /\ May(x, "ask")
    /\ \/ Ask(Equals(str[x], str[y]), text[x] = text[y])
       \/ Ask(EqualsIgnoreCase(str[x], str[y]),
              [i \in DOMAIN text[x] |-> Lower(text[x][i])] = [i \in DOMAIN text[y] |-> Lower(text[y][i])])

Next ==
    \E x \in Names :
        \/ Assign(x) \/ Append_(x) \/ ReserveCall(x) \/ ReplaceText(x) \/ ReplaceChar(x)
        \/ ChangeCase(x) \/ RemovePart(x) \/ TrimCall(x) \/ SetChar(x) \/ Search(x) \/ TextPart(x)
        \/ \E y \in Names :
            AssignString(x, y) \/ AssignSum(x, y) \/ AssignPart(x, y) \/ AppendString(x, y) \/ Compare(x, y)

Spec == Init /\ [][Next]_vars

-----------------------------------------------------------------------------

\* A String is a text: its buffer has the room its capacity tells of, its length is that
\* of the C string in it, nothing is written behind it, and it says what the same calls
\* on plain texts give, and answers so.  (What a call leaves that found no memory is sound;
\* where fault is set the code has left its memory: "null", a sum without memory is
\* assigned; "self", a String is appended to itself; "meets", see Meets.)
TextsRight ==
    /\ \A x \in Names :
        LET s == str[x]
        IN  IF s.buf = <<>> THEN s.cap = 0 /\ s.len = 0 /\ text[x] = <<>>
            ELSE /\ Len(s.buf) = s.cap + 1 /\ s.len <= s.cap /\ s.buf[s.len + 1] = Nul
                 /\ SubSeq(s.buf, 1, s.len) = text[x]
    /\ answer.got = answer.want
=============================================================================
