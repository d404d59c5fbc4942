------------------------------ MODULE NodeTexts ------------------------------
(***************************************************************************)
(* The texts of a configuration (network.cpp): the fields of a message are *)
(* copied into areas of the EEPROM that follow each other, a server's      *)
(* address is cut out of a URL, an IP is read from its digits, and what    *)
(* flash holds is made printable.  Characters are their codes.             *)
(***************************************************************************)
EXTENDS Integers, SequencesExt

CONSTANTS
    Area,      \* the bytes from one field to the next
    Texts,     \* what a message may hold: [kind, text]
    Flash      \* what a byte of a sector may be before

VARIABLES
    bytes,     \* the sector, from the byte before the first field on
    ask,       \* what is asked of which text
    done       \* the fields that are extracted, and what was answered

vars == <<bytes, ask, done>>

Nul == 0
Tab == 9
Cr == 13
Dot == 46
Slash == 47
Colon == 58
Fields == 3

\* os_strchr and os_strstr: the place of the first one, 0 if there is none.
Find(t, part) ==
    SelectInSeq([i \in 1..Len(t) |-> IsPrefix(part, SubSeq(t, i, Len(t)))], LAMBDA b : b)
Base(f) == 2 + (f - 1) * Area
Printable(c) == c \in 33..126

Init ==
    /\ \E b \in Flash : bytes = [i \in 1..(Fields * Area + 1) |-> b]
    /\ ask \in Texts
    /\ done = [field |-> 0, rest |-> ask.text, answer |-> <<>>]

\* extract_substr: the byte before the end is looked at, whose ever it is.
ExtractSubstr(f, n) ==
    LET end == Base(f) + n
        copied == [i \in DOMAIN bytes |->
                     IF i \in Base(f)..(end - 1) THEN done.rest[i - Base(f) + 1] ELSE bytes[i]]
        zero == IF copied[end - 1] = Cr THEN end - 1 ELSE end
    IN  [copied EXCEPT ![zero] = Nul]

\* The next field of parse_config_message, for which there is room in the sector.
Extract ==
    /\ ask.kind = "fields" /\ done.field < Fields /\ done.answer = <<>>
    /\ LET n == Find(done.rest, <<Tab>>) - 1
       IN  IF n = -1 THEN done' = [done EXCEPT !.answer = <<"bad format">>] /\ UNCHANGED bytes
           ELSE /\ Base(done.field + 1) + n <= Len(bytes)
                /\ bytes' = ExtractSubstr(done.field + 1, n)
                /\ done' = [done EXCEPT !.field = @ + 1, !.rest = SubSeq(@, n + 2, Len(@))]
    /\ UNCHANGED ask

Digits(t) == LET Stop == SelectInSeq(t, LAMBDA c : c \notin 48..57)
             IN  IF Stop = 0 THEN t ELSE SubSeq(t, 1, Stop - 1)
\* atoi, and what an octet takes of it
Atoi(t) == FoldSeq(LAMBDA c, v : (v * 10 + c - 48) % 256, 0, Reverse(Digits(t)))

\* extract_ip: an octet for each dot, and the last one if there were three.
ExtractIp(t) ==
    LET Parts[r \in {SubSeq(t, i, Len(t)) : i \in 1..(Len(t) + 1)}] ==
            LET d == Find(r, <<Dot>>)
            IN  IF d = 0 THEN <<r>> ELSE <<SubSeq(r, 1, d - 1)>> \o Parts[SubSeq(r, d + 1, Len(r))]
        octets == [i \in DOMAIN Parts[t] |-> Atoi(Parts[t][i])]
    IN  IF Len(octets) > 3 THEN <<TRUE, octets>> ELSE <<FALSE, Front(octets)>>

\* format_server_address
FormatServerAddress(t) ==
    LET scheme == Find(t, <<Colon, Slash, Slash>>)
        host == IF scheme = 0 THEN t ELSE SubSeq(t, scheme + 3, Len(t))
        slash == Find(host, <<Slash>>)
    IN  IF slash = 0 THEN host ELSE SubSeq(host, 1, slash - 1)

\* format_sn, and validate_server_address up to the end of the text
FormatSn(t) == [i \in DOMAIN t |-> IF Printable(t[i]) THEN t[i] ELSE 35]
ValidateServerAddress(t) ==
    LET bad == SelectInSeq(t, LAMBDA c : ~Printable(c)) IN bad = 0 \/ t[bad] = Nul

Answer ==
    /\ ask.kind # "fields" /\ done.answer = <<>>
    /\ done' = [done EXCEPT !.answer =
          CASE ask.kind = "ip"      -> ExtractIp(ask.text)
            [] ask.kind = "address" -> <<FormatServerAddress(ask.text)>>
            [] ask.kind = "flash"   -> <<FormatSn(ask.text), ValidateServerAddress(ask.text)>>]
    /\ UNCHANGED <<bytes, ask>>

Next == Extract \/ Answer

Spec == Init /\ [][Next]_vars

-----------------------------------------------------------------------------
(* Properties.                                                             *)

\* A text in memory ends before its first zero.
TextAt(b) ==
    LET rest == SubSeq(bytes, b, Len(bytes))
        z == Find(rest, <<Nul>>)
    IN  IF z = 0 THEN rest ELSE SubSeq(rest, 1, z - 1)

\* The n-th field of a message, without the return at its end.
TabsBefore(i) == Len(SelectSeq(SubSeq(ask.text, 1, i - 1), LAMBDA c : c = Tab))
FieldOf(n) ==
    LET places == SelectSeq([i \in DOMAIN ask.text |-> i],
                            LAMBDA i : ask.text[i] # Tab /\ TabsBefore(i) = n - 1)
        raw == [i \in DOMAIN places |-> ask.text[places[i]]]
    IN  IF raw # <<>> /\ Last(raw) = Cr THEN Front(raw) ELSE raw

AfterScheme(t, at) == IF at = 0 THEN t ELSE SubSeq(t, at + 3, Len(t))
UpToSlash(host, t) == host = t \/ IsPrefix(Append(host, Slash), t)

\* Each field of a message is what the area for it holds, when all fields are shorter than
\* an area; but an empty field behind a byte of flash that happens to be a return is not
\* ended.  A dotted quad is its octets, and a text without three dots is none, of which
\* octets have been written all the same; what has more dots writes more than four.  The
\* host of a URL is what follows its scheme up to a slash, unless "://" comes behind a path.
\* What is printed from flash is printable, and the same where it was.
ConfigTexts ==
    LET answered == done.answer # <<>>
        t == ask.text
    IN  /\ ask.kind = "fields" =>
            \A f \in 1..done.field :
                \/ TextAt(Base(f)) = FieldOf(f)
                \/ \E g \in 1..Fields : Len(FieldOf(g)) >= Area
                \/ FieldOf(f) = <<>> /\ Cr \in Flash
        /\ (ask.kind = "ip" /\ answered) =>
            LET dots == Len(SelectSeq(t, LAMBDA c : c = Dot))
                value(d) == d[1] - 48
            IN  /\ done.answer[1] <=> dots >= 3
                /\ Len(done.answer[2]) = IF dots = 3 THEN 4 ELSE IF dots > 3 THEN dots + 1 ELSE dots
                /\ \A a, b, c, d \in 48..57 : t = <<a, Dot, b, Dot, c, Dot, d>> =>
                        done.answer[2] = <<a - 48, b - 48, c - 48, d - 48>>
        /\ (ask.kind = "address" /\ answered) =>
            LET host == done.answer[1]
                at == Find(t, <<Colon, Slash, Slash>>)
                slash == Find(t, <<Slash>>)
            IN  /\ Slash \notin ToSet(host)
                /\ \/ UpToSlash(host, IF slash \in 1..at THEN t ELSE AfterScheme(t, at))
                   \/ slash \in 1..at
        /\ (ask.kind = "flash" /\ answered) =>
            /\ \A i \in DOMAIN t : Printable(done.answer[1][i])
            /\ done.answer[2] <=> (Find(t \o <<Nul>>, <<Nul>>) > 0 /\
                    \A i \in 1..(Find(t \o <<Nul>>, <<Nul>>) - 1) : Printable(t[i]))
=============================================================================
