---------------------------- MODULE NodeRpcProofs -----------------------------
(***************************************************************************)
(* Proofs about NodeRpc, for any plan of requests, any resources and       *)
(* buffers of any size.  What the parser does next depends on the text     *)
(* behind the token it reads, so the invariant is about the whole stream:  *)
(* what is in rx_buffer, with what is left of a message that came in       *)
(* parts.  What the server hears is in a second one: what it has of a line,*)
(* what is under way and what is in tx_buffer, as one sequence of pieces.  *)
(* The ring buffers themselves are at the end.                             *)
(***************************************************************************)
EXTENDS NodeRpc, CircularBuffer, FiniteSetTheorems, SequenceTheorems, WellFoundedInduction,
        NaturalsInduction, TLAPS

-----------------------------------------------------------------------------
(* Sequences.  Induction is by the least number for which a claim fails.   *)

LEMMA LeastNumber ==
    ASSUME NEW T, T \subseteq Nat, T # {}
    PROVE  \E x \in T : \A y \in T : x <= y
<1>1. PICK x \in T : \A y \in T : ~ (<<y, x>> \in OpToRel(<, Nat))
  <2>1. IsWellFoundedOn(OpToRel(<, Nat), Nat)
    BY NatLessThanWellFounded
  <2> QED
    BY <2>1, WFMin
<1>2. \A y \in T : ~(y < x)
  BY <1>1 DEF OpToRel
<1> QED
  BY <1>2

\* The first of the numbers that a search has found, or 0.
LEMMA FirstOf ==
    ASSUME NEW I, I \subseteq Nat \ {0}, NEW k, k = IF I # {} THEN Min(I) ELSE 0
    PROVE  /\ k = 0 => I = {}
           /\ k # 0 => k \in I /\ \A j \in I : k <= j
<1>1. CASE I # {}
  <2>1. I \subseteq Nat /\ k = Min(I)
    BY <1>1
  <2>2. \E x \in I : \A y \in I : x <= y
    BY <1>1, <2>1, LeastNumber
  <2>3. Min(I) \in I /\ \A y \in I : Min(I) <= y
    BY <2>2 DEF Min
  <2> QED
    BY <2>1, <2>3
<1> QED
  BY <1>1

\* g holds the first pieces of w together, up to the n-th (FlattenSeq).
Made(w, n, g) == g = [i \in 1..n |-> IF i = 1 THEN w[i] ELSE g[i - 1] \o w[i]]

\* A text of which every prefix is made, piece by piece.
LEMMA PiecesMade ==
    ASSUME NEW S, NEW w \in Seq(Seq(S)), w # <<>>,
           NEW Good, Good \subseteq Seq(S), NEW front \in Seq(S), front \o w[1] \in Good,
           \A i \in 2..Len(w), p \in Seq(S) : front \o p \in Good => front \o (p \o w[i]) \in Good
    PROVE  front \o FlattenSeq(w) \in Good /\ FlattenSeq(w) \in Seq(S)
<1> DEFINE f == CHOOSE f : f = [i \in 1..Len(w) |-> IF i = 1 THEN w[i] ELSE f[i - 1] \o w[i]]
<1>1. Len(w) \in Nat \ {0} /\ \A i \in 1..Len(w) : w[i] \in Seq(S)
  OBVIOUS
<1>2. FlattenSeq(w) = f[Len(w)]
  BY <1>1 DEF FlattenSeq
<1>3. \A n \in 1..Len(w) : \E g : Made(w, n, g)
  <2> DEFINE Bad == {n \in 1..Len(w) : ~\E g : Made(w, n, g)}
  <2> SUFFICES ASSUME Bad # {} PROVE FALSE
    OBVIOUS
  <2>1. PICK n \in Bad : \A y \in Bad : n <= y
    <3>1. Bad \subseteq Nat
      OBVIOUS
    <3> HIDE DEF Bad
    <3> QED
      BY <3>1, LeastNumber
  <2>2. n # 1
    <3>1. Made(w, 1, [i \in 1..1 |-> w[1]])
      BY DEF Made
    <3> QED
      BY <3>1
  <2>3. n - 1 \in 1..Len(w) /\ n - 1 \notin Bad
    <3>1. n \in 1..Len(w)
      OBVIOUS
    <3>2. n - 1 \in 1..Len(w) /\ ~(n <= n - 1)
      BY <1>1, <2>2, <3>1
    <3> HIDE DEF Bad
    <3> QED
      BY <2>1, <3>2
  <2>4. PICK g : Made(w, n - 1, g)
    BY <2>3
  <2> DEFINE h == [i \in 1..n |-> IF i = n THEN g[n - 1] \o w[n] ELSE g[i]]
  <2>5. Made(w, n, h)
    <3>1. ASSUME NEW i \in 1..n PROVE h[i] = IF i = 1 THEN w[i] ELSE h[i - 1] \o w[i]
      <4>1. CASE i = n
        <5>1. i - 1 \in 1..n /\ i - 1 # n
          BY <4>1, <2>2
        <5> QED
          BY <4>1, <5>1, <2>2
      <4>2. CASE i # n
        <5>1. i \in 1..(n - 1) /\ (i # 1 => i - 1 \in 1..n /\ i - 1 # n)
          BY <4>2
        <5>2. g[i] = IF i = 1 THEN w[i] ELSE g[i - 1] \o w[i]
          BY <2>4, <5>1 DEF Made
        <5> QED
          BY <4>2, <5>1, <5>2
      <4> QED
        BY <4>1, <4>2
    <3> QED
      BY <3>1 DEF Made
  <2> QED
    BY <2>1, <2>5
<1>4. Made(w, Len(w), f)
  <2>1. \E g : Made(w, Len(w), g)
    BY <1>1, <1>3
  <2> QED
    BY <2>1 DEF Made
<1> HIDE DEF f
<1>5. \A i \in 1..Len(w) : f[i] = IF i = 1 THEN w[i] ELSE f[i - 1] \o w[i]
  BY <1>4 DEF Made
<1>6. \A n \in 1..Len(w) : f[n] \in Seq(S) /\ front \o f[n] \in Good
  <2> DEFINE Bad == {n \in 1..Len(w) : ~(f[n] \in Seq(S) /\ front \o f[n] \in Good)}
  <2> SUFFICES ASSUME Bad # {} PROVE FALSE
    OBVIOUS
  <2>1. PICK n \in Bad : \A y \in Bad : n <= y
    <3>1. Bad \subseteq Nat
      OBVIOUS
    <3> HIDE DEF Bad
    <3> QED
      BY <3>1, LeastNumber
  <2>2. n # 1
    BY <1>1, <1>5
  <2>3. n - 1 \in 1..Len(w) /\ n - 1 \notin Bad /\ n \in 2..Len(w)
    BY <2>1, <2>2, <1>1
  <2>4. f[n] = f[n - 1] \o w[n] /\ f[n - 1] \in Seq(S) /\ front \o f[n - 1] \in Good
    BY <1>5, <2>2, <2>3
  <2>5. f[n] \in Seq(S) /\ front \o f[n] \in Good
    BY <1>1, <2>3, <2>4
  <2> QED
    BY <2>1, <2>5
<1> QED
  BY <1>1, <1>2, <1>6

-----------------------------------------------------------------------------
(* The text on a channel.                                                  *)

\* The provers do not know that a literal is a STRING: the ones met are named.
Names == STRING \cup {"", "nul", "other", "##PING##"}
Token == [tok : Names, id : Nat]

\* Every request begins with its type; a ping is one token.
Begins(t) == t.tok \in Keywords \cup {"##PING##"}
LineEnd == {"cr", "lf"}

\* A message of the server: a ping, or a request that ends in CR LF.
GoodText(t) ==
    /\ t \in Seq(Token) /\ Len(t) > 0 /\ Begins(t[1])
    /\ \/ Len(t) = 1 /\ t[1] = [tok |-> "##PING##", id |-> 0]
       \/ /\ Len(t) > 2 /\ t[Len(t) - 1].tok = "cr" /\ t[Len(t)].tok = "lf"
          /\ t[1].id # 0 /\ \A i \in 1..Len(t) : t[i].id = t[1].id

\* What follows position i of text t in s at position k is the rest of t, and
\* then another text begins, if s goes on.
Follows(t, i, s, k) ==
    /\ k + (Len(t) - i) <= Len(s)
    /\ \A j \in 0..(Len(t) - i) : s[k + j] = t[i + j]
    /\ k + (Len(t) - i) + 1 <= Len(s) => Begins(s[k + (Len(t) - i) + 1])

\* Every token of s has the rest of its message behind it.
Whole(T, s) == \A k \in 1..Len(s) : \E t \in T : \E i \in 1..Len(t) : Follows(t, i, s, k)

LEMMA Border ==
    ASSUME NEW a \in Nat, NEW b \in Nat, NEW x \in Nat, x <= a, x + 1 <= a + b, ~(x + 1 <= a)
    PROVE  x + 1 = a + 1 /\ 1 \in 1..b
OBVIOUS

\* The same of what is left when tokens have been read.
LEMMA WholeSuffix ==
    ASSUME NEW T, \A t \in T : GoodText(t), NEW s \in Seq(Token), Whole(T, s), NEW n \in 0..Len(s)
    PROVE  /\ SubSeq(s, n + 1, Len(s)) \in Seq(Token)
           /\ Len(SubSeq(s, n + 1, Len(s))) = Len(s) - n
           /\ \A k \in 1..(Len(s) - n) : SubSeq(s, n + 1, Len(s))[k] = s[n + k]
           /\ Whole(T, SubSeq(s, n + 1, Len(s)))
<1> DEFINE r == SubSeq(s, n + 1, Len(s))
<1>1. /\ r \in Seq(Token) /\ Len(r) = Len(s) - n /\ Len(s) \in Nat
      /\ \A k \in 1..(Len(s) - n) : r[k] = s[n + k]
  OBVIOUS
<1> HIDE DEF r
<1>2. ASSUME NEW k \in 1..Len(r) PROVE \E t \in T : \E i \in 1..Len(t) : Follows(t, i, r, k)
  <2>1. n + k \in 1..Len(s)
    BY <1>1
  <2>2. PICK t \in T : \E i \in 1..Len(t) : Follows(t, i, s, n + k)
    BY <2>1 DEF Whole
  <2>3. PICK i \in 1..Len(t) : Follows(t, i, s, n + k)
    BY <2>2
  <2> DEFINE d == Len(t) - i
  <2>4. d \in Nat
    BY <2>2 DEF GoodText
  <2>5. /\ (n + k) + d <= Len(s)
        /\ \A j \in 0..d : s[(n + k) + j] = t[i + j]
        /\ (n + k) + d + 1 <= Len(s) => Begins(s[(n + k) + d + 1])
    BY <2>3 DEF Follows
  <2> HIDE DEF d
  <2>6. k + d <= Len(r)
    BY <1>1, <2>4, <2>5
  <2>7. ASSUME NEW j \in 0..d PROVE r[k + j] = t[i + j]
    <3>1. k + j \in 1..(Len(s) - n) /\ n + (k + j) = (n + k) + j
      BY <1>1, <2>4, <2>5
    <3> QED
      BY <1>1, <2>5, <3>1
  <2>8. ASSUME k + d + 1 <= Len(r) PROVE Begins(r[k + d + 1])
    <3>1. /\ k + d + 1 \in 1..(Len(s) - n) /\ n + (k + d + 1) = (n + k) + d + 1
          /\ (n + k) + d + 1 <= Len(s)
      BY <1>1, <2>4, <2>8
    <3>2. r[k + d + 1] = s[(n + k) + d + 1]
      BY <1>1, <3>1
    <3> QED
      BY <2>5, <3>1, <3>2
  <2>9. Follows(t, i, r, k)
    BY <2>6, <2>7, <2>8 DEF Follows, d
  <2> QED
    BY <2>9
<1> QED
  BY <1>1, <1>2 DEF Whole, r

\* And when texts come behind it.
LEMMA WholeJoined ==
    ASSUME NEW T, \A t \in T : GoodText(t), NEW p \in Seq(Token), NEW q \in Seq(Token),
           Whole(T, p), Whole(T, q), q # <<>> => Begins(q[1])
    PROVE  p \o q \in Seq(Token) /\ Whole(T, p \o q)
<1> DEFINE s == p \o q
<1>1. /\ s \in Seq(Token) /\ Len(s) = Len(p) + Len(q) /\ Len(p) \in Nat /\ Len(q) \in Nat
      /\ \A k \in 1..Len(p) : s[k] = p[k]
      /\ \A k \in 1..Len(q) : s[Len(p) + k] = q[k]
  OBVIOUS
<1> HIDE DEF s
<1>2. ASSUME NEW k \in 1..Len(s) PROVE \E t \in T : \E i \in 1..Len(t) : Follows(t, i, s, k)
  <2>1. CASE k <= Len(p)
    <3>1. PICK t \in T : \E i \in 1..Len(t) : Follows(t, i, p, k)
      BY <2>1, <1>1 DEF Whole
    <3>2. PICK i \in 1..Len(t) : Follows(t, i, p, k)
      BY <3>1
    <3> DEFINE d == Len(t) - i
    <3>3. d \in Nat
      BY <3>1 DEF GoodText
    <3>4. /\ k + d <= Len(p)
          /\ \A j \in 0..d : p[k + j] = t[i + j]
          /\ k + d + 1 <= Len(p) => Begins(p[k + d + 1])
      BY <3>2 DEF Follows
    <3> HIDE DEF d
    <3>5. k + d <= Len(s)
      BY <1>1, <3>3, <3>4
    <3>6. ASSUME NEW j \in 0..d PROVE s[k + j] = t[i + j]
      <4>1. k + j \in 1..Len(p)
        BY <1>1, <3>3, <3>4
      <4> QED
        BY <1>1, <3>4, <4>1
    <3>7. ASSUME k + d + 1 <= Len(s) PROVE Begins(s[k + d + 1])
      <4>1. CASE k + d + 1 <= Len(p)
        <5>1. k + d + 1 \in 1..Len(p)
          BY <1>1, <3>3, <4>1
        <5> QED
          BY <1>1, <3>4, <4>1, <5>1
      <4>2. CASE ~(k + d + 1 <= Len(p))
        <5>1. k + d + 1 = Len(p) + 1 /\ 1 \in 1..Len(q)
          <6>1. k + d \in Nat /\ k + d <= Len(p)
            BY <1>1, <3>3, <3>4
          <6>2. (k + d) + 1 <= Len(p) + Len(q)
            BY <1>1, <3>7
          <6>3. ~((k + d) + 1 <= Len(p))
            BY <4>2
          <6>4. (k + d) + 1 = Len(p) + 1 /\ 1 \in 1..Len(q)
            BY <1>1, <6>1, <6>2, <6>3, Border
          <6> QED
            BY <6>4
        <5>2. s[Len(p) + 1] = q[1] /\ q # <<>>
          BY <1>1, <5>1
        <5> QED
          BY <5>1, <5>2
      <4> QED
        BY <4>1, <4>2
    <3>8. Follows(t, i, s, k)
      BY <3>5, <3>6, <3>7 DEF Follows, d
    <3> QED
      BY <3>8
  <2>2. CASE ~(k <= Len(p))
    <3> DEFINE m == k - Len(p)
    <3>1. m \in 1..Len(q) /\ k = Len(p) + m
      BY <1>1, <2>2
    <3>2. PICK t \in T : \E i \in 1..Len(t) : Follows(t, i, q, m)
      BY <3>1 DEF Whole
    <3>3. PICK i \in 1..Len(t) : Follows(t, i, q, m)
      BY <3>2
    <3> DEFINE d == Len(t) - i
    <3>4. d \in Nat
      BY <3>2 DEF GoodText
    <3>5. /\ m + d <= Len(q)
          /\ \A j \in 0..d : q[m + j] = t[i + j]
          /\ m + d + 1 <= Len(q) => Begins(q[m + d + 1])
      BY <3>3 DEF Follows
    <3> HIDE DEF d, m
    <3>6. k + d <= Len(s)
      BY <1>1, <3>1, <3>4, <3>5
    <3>7. ASSUME NEW j \in 0..d PROVE s[k + j] = t[i + j]
      <4>1. m + j \in 1..Len(q) /\ k + j = Len(p) + (m + j)
        BY <1>1, <3>1, <3>4, <3>5
      <4> QED
        BY <1>1, <3>5, <4>1
    <3>8. ASSUME k + d + 1 <= Len(s) PROVE Begins(s[k + d + 1])
      <4>1. m + d + 1 \in 1..Len(q) /\ k + d + 1 = Len(p) + (m + d + 1)
        BY <1>1, <3>1, <3>4, <3>8
      <4>2. s[k + d + 1] = q[m + d + 1] /\ m + d + 1 <= Len(q)
        BY <1>1, <4>1
      <4> QED
        BY <3>5, <4>2
    <3>9. Follows(t, i, s, k)
      BY <3>6, <3>7, <3>8 DEF Follows, d
    <3> QED
      BY <3>9
  <2> QED
    BY <2>1, <2>2
<1> QED
  BY <1>1, <1>2 DEF Whole, s

\* A message has its rest behind each of its tokens.
LEMMA WholeText ==
    ASSUME NEW T, \A t \in T : GoodText(t), NEW m \in T
    PROVE  m \in Seq(Token) /\ m # <<>> /\ Begins(m[1]) /\ Whole(T, m)
<1>1. m \in Seq(Token) /\ Len(m) \in Nat /\ Len(m) > 0 /\ Begins(m[1])
  BY DEF GoodText
<1>2. ASSUME NEW k \in 1..Len(m) PROVE Follows(m, k, m, k)
  <2>1. k + (Len(m) - k) = Len(m)
    BY <1>1
  <2> QED
    BY <1>1, <2>1 DEF Follows
<1> QED
  BY <1>1, <1>2 DEF Whole

LEMMA Here ==
    ASSUME NEW t, GoodText(t), NEW i \in 1..Len(t), NEW s, NEW k \in Nat, Follows(t, i, s, k)
    PROVE  s[k] = t[i] /\ i \in Nat /\ Len(t) \in Nat
<1>1. Len(t) \in Nat /\ i \in Nat
  BY DEF GoodText
<1>2. 0 \in 0..(Len(t) - i)
  BY <1>1
<1>3. s[k + 0] = t[i + 0]
  BY <1>2 DEF Follows
<1>4. k + 0 = k /\ i + 0 = i
  BY <1>1
<1> QED
  BY <1>1, <1>3, <1>4

\* The token behind one that does not end its message is of the same message.
LEMMA Onward ==
    ASSUME NEW T, \A t \in T : GoodText(t), NEW s \in Seq(Token), Whole(T, s),
           NEW k \in 1..Len(s), s[k].id # 0, s[k].tok # "lf"
    PROVE  k + 1 \in 1..Len(s) /\ s[k + 1].id = s[k].id
<1>1. PICK t \in T : \E i \in 1..Len(t) : Follows(t, i, s, k)
  BY DEF Whole
<1>2. PICK i \in 1..Len(t) : Follows(t, i, s, k)
  BY <1>1
<1>3. GoodText(t) /\ Len(t) \in Nat
  BY <1>1 DEF GoodText
<1>4. s[k] = t[i] /\ i \in Nat
  BY <1>2, <1>3, Here
<1>5. t[Len(t)].tok = "lf" /\ \A j \in 1..Len(t) : t[j].id = t[1].id
  <2>1. Len(t) = 1 => i = 1
    BY <1>3
  <2> QED
    BY <1>3, <1>4, <2>1 DEF GoodText
<1>6. i # Len(t)
  BY <1>4, <1>5
<1>7. 1 \in 0..(Len(t) - i) /\ i + 1 \in 1..Len(t) /\ k + 1 \in 1..Len(s)
  BY <1>2, <1>3, <1>6 DEF Follows
<1>8. s[k + 1] = t[i + 1]
  BY <1>2, <1>7 DEF Follows
<1> QED
  BY <1>4, <1>5, <1>7, <1>8

\* What does not begin a message is of the same one as the token before it.
LEMMA Inside ==
    ASSUME NEW T, \A t \in T : GoodText(t), NEW s \in Seq(Token), Whole(T, s),
           NEW k \in 1..Len(s), k + 1 \in 1..Len(s), ~Begins(s[k + 1])
    PROVE  s[k].id # 0 /\ s[k + 1].id = s[k].id
<1>1. PICK t \in T : \E i \in 1..Len(t) : Follows(t, i, s, k)
  BY DEF Whole
<1>2. PICK i \in 1..Len(t) : Follows(t, i, s, k)
  BY <1>1
<1>3. GoodText(t) /\ Len(t) \in Nat
  BY <1>1 DEF GoodText
<1>4. s[k] = t[i] /\ i \in Nat
  BY <1>2, <1>3, Here
<1>5. i # Len(t)
  <2> SUFFICES ASSUME i = Len(t) PROVE FALSE
    OBVIOUS
  <2>1. k + (Len(t) - i) + 1 = k + 1 /\ k + 1 <= Len(s)
    BY <1>3, <1>4
  <2>2. Begins(s[k + (Len(t) - i) + 1])
    BY <1>2, <2>1 DEF Follows
  <2> QED
    BY <2>1, <2>2
<1>6. 1 \in 0..(Len(t) - i) /\ i + 1 \in 1..Len(t) /\ Len(t) # 1
  <2>1. PICK l \in Nat : l = Len(t)
    BY <1>3
  <2>2. i \in 1..l /\ i # l
    BY <1>5, <2>1
  <2>3. 1 \in 0..(l - i) /\ i + 1 \in 1..l /\ l # 1
    BY <2>2
  <2> QED
    BY <2>1, <2>3
<1>7. s[k + 1] = t[i + 1]
  BY <1>2, <1>6 DEF Follows
<1>8. t[1].id # 0 /\ \A j \in 1..Len(t) : t[j].id = t[1].id
  BY <1>3, <1>6 DEF GoodText
<1> QED
  BY <1>4, <1>6, <1>7, <1>8

\* A message without the number of its request.
Toks(m) == [i \in 1..Len(m) |-> m[i].tok]

\* A token of a request has the end of its line behind it, and as far as that all is
\* of the request; a request that has too long a token and no "/" from there on is
\* Endless.
LEMMA EndAhead ==
    ASSUME NEW T, \A t \in T : GoodText(t), NEW s \in Seq(Token), Whole(T, s),
           s # <<>>, s[1].id # 0
    PROVE  /\ \E m \in 1..Len(s) : s[m].tok \in LineEnd /\ \A j \in 1..m : s[j].id = s[1].id
           /\ (s[1].tok = "long" /\ \A k \in 1..Len(s) : s[k].tok # "/") =>
                 \E t \in T : Len(t) > 1 /\ Endless(Toks(t))
<1>1. Len(s) \in Nat /\ 1 \in 1..Len(s)
  OBVIOUS
<1>2. PICK t \in T : \E i \in 1..Len(t) : Follows(t, i, s, 1)
  BY <1>1 DEF Whole
<1>3. PICK i \in 1..Len(t) : Follows(t, i, s, 1)
  BY <1>2
<1>4. GoodText(t) /\ Len(t) \in Nat
  BY <1>2 DEF GoodText
<1> DEFINE d == Len(t) - i
<1>5. d \in Nat /\ 1 + d <= Len(s) /\ i + d = Len(t) /\ \A j \in 0..d : s[1 + j] = t[i + j]
  BY <1>3, <1>4 DEF Follows
<1> HIDE DEF d
<1>6. s[1] = t[i]
  <2>1. 0 \in 0..d /\ 1 + 0 = 1 /\ i + 0 = i
    BY <1>5
  <2> QED
    BY <1>5, <2>1
<1>7. Len(t) > 1 /\ t[Len(t)].tok = "lf" /\ \A j \in 1..Len(t) : t[j].id = t[1].id
  <2>1. Len(t) = 1 => i = 1
    BY <1>4
  <2> QED
    BY <1>4, <1>6, <2>1 DEF GoodText
<1>8. \A j \in 1..(1 + d) : j - 1 \in 0..d /\ 1 + (j - 1) = j /\ i + (j - 1) \in 1..Len(t)
  BY <1>3, <1>4, <1>5
<1>9. \A j \in 1..(1 + d) : s[j] = t[i + (j - 1)] /\ s[j].id = s[1].id
  BY <1>5, <1>6, <1>7, <1>8
<1>10. 1 + d \in 1..Len(s) /\ s[1 + d].tok \in LineEnd
  <2>1. 1 + d \in 1..(1 + d) /\ 1 + d \in 1..Len(s) /\ d \in 0..d
    BY <1>5
  <2>2. s[1 + d] = t[Len(t)]
    BY <1>5, <2>1
  <2> QED
    BY <1>7, <2>1, <2>2 DEF LineEnd
<1>11. ASSUME s[1].tok = "long", \A k \in 1..Len(s) : s[k].tok # "/"
       PROVE  Endless(Toks(t))
  <2> DEFINE toks == Toks(t)
  <2>1. Len(toks) = Len(t) /\ DOMAIN toks = 1..Len(t) /\ \A j \in 1..Len(t) : toks[j] = t[j].tok
    BY <1>4 DEF Toks
  <2> HIDE DEF toks
  <2>2. toks[i] = "long"
    BY <1>6, <1>11, <2>1
  <2>3. ASSUME NEW j \in i + 1..Len(toks) PROVE toks[j] # "/"
    <3>1. /\ j \in 1..Len(t) /\ (j - i) \in 0..d /\ i + (j - i) = j
          /\ 1 + (j - i) \in 1..Len(s)
      BY <1>3, <1>4, <1>5, <2>1
    <3>2. s[1 + (j - i)] = t[j]
      BY <1>5, <3>1
    <3> QED
      BY <1>11, <2>1, <3>1, <3>2
  <2>4. Endless(toks)
    BY <2>1, <2>2, <2>3 DEF Endless
  <2> QED
    BY <2>4 DEF toks
<1> QED
  BY <1>2, <1>7, <1>9, <1>10, <1>11

\* Behind a request type there are two more tokens of the request at least.
LEMMA KeywordAhead ==
    ASSUME NEW T, \A t \in T : GoodText(t), NEW s \in Seq(Token), Whole(T, s),
           s # <<>>, s[1].tok \in Keywords
    PROVE  3 <= Len(s) /\ s[2].id # 0 /\ s[3].id # 0
<1>1. Len(s) \in Nat /\ 1 \in 1..Len(s)
  OBVIOUS
<1>2. PICK t \in T : \E i \in 1..Len(t) : Follows(t, i, s, 1)
  BY <1>1 DEF Whole
<1>3. PICK i \in 1..Len(t) : Follows(t, i, s, 1)
  BY <1>2
<1>4. GoodText(t) /\ Len(t) \in Nat
  BY <1>2 DEF GoodText
<1>5. /\ 1 + (Len(t) - i) <= Len(s) /\ \A j \in 0..(Len(t) - i) : s[1 + j] = t[i + j]
  BY <1>3 DEF Follows
<1>6. s[1] = t[i]
  <2>1. 0 \in 0..(Len(t) - i) /\ 1 + 0 = 1 /\ i + 0 = i
    BY <1>4
  <2> QED
    BY <1>5, <2>1
<1>7. /\ Len(t) > 2 /\ t[Len(t) - 1].tok = "cr" /\ t[Len(t)].tok = "lf"
      /\ t[1].id # 0 /\ \A j \in 1..Len(t) : t[j].id = t[1].id
  <2>1. Len(t) = 1 => i = 1
    BY <1>4
  <2> QED
    BY <1>4, <1>6, <2>1 DEF GoodText, Keywords
<1>8. i # Len(t) /\ i # Len(t) - 1
  BY <1>6, <1>7 DEF Keywords
<1>9. /\ 1 \in 0..(Len(t) - i) /\ 2 \in 0..(Len(t) - i)
      /\ i + 1 \in 1..Len(t) /\ i + 2 \in 1..Len(t) /\ 3 <= Len(s)
  BY <1>4, <1>5, <1>8
<1>10. s[1 + 1] = t[i + 1] /\ s[1 + 2] = t[i + 2]
  BY <1>5, <1>9
<1> QED
  BY <1>7, <1>9, <1>10

-----------------------------------------------------------------------------
(* Types.                                                                  *)

Stages == {"REQ_TYPE", "GROVE_NAME", "METHOD", "CHECK_ARGS", "PRE_ARGS", "ARGS", "CALL",
           "WELL_KNOWN", "OTA", "APP_NUM"}
Segments == [val : Names, ids : SUBSET Nat]
Parsers == [stage : Stages, window : Keywords \cup {""}, phantom : BOOLEAN, verb : {"", "GET", "POST"},
            grove : Segments, method : Segments, seg : Segments, args : Seq(Segments),
            mem : Names, msg : {"none", "reply", "phantom"} \X Nat]

HistOK ==
    /\ hist = [x \in DOMAIN hist |-> hist[x]]
    /\ {"split", "hurt", "updates"} \subseteq DOMAIN hist
    /\ hist.updates \in Seq([asked : BOOLEAN, on : Channels])

TypeInv ==
    /\ plan \in Plans
    /\ parser \in [Channels -> Parsers]
    /\ rx \in [Channels -> Seq(Token)]
    /\ wire \in [Channels -> Seq(Seq(Token))]
    /\ world \in [sent : [Channels -> Nat], events : Nat, pings : Nat, parts : Nat, losses : Nat]
    /\ \A c \in Channels : world.sent[c] <= Len(plan[c])
    /\ calls = [c \in Channels |-> calls[c]]
    /\ HistOK

\* What a stage says of the arguments, the resource and the window.
StageOK(p) ==
    LET target == <<p.verb, p.grove.val, p.method.val>>
    IN  /\ p.stage # "REQ_TYPE" => p.window = ""
        /\ p.stage \in {"GROVE_NAME", "METHOD", "CHECK_ARGS", "PRE_ARGS"} => p.args = <<>>
        /\ p.stage \in {"ARGS", "CALL"} => target \in DOMAIN Resources
        /\ p.stage = "CALL" => Len(Resources[target]) <= Len(p.args)

StageInv == \A c \in Channels : StageOK(parser[c])

\* What the invariants see of the histories.
SameHist == hist'.split = hist.split /\ hist'.hurt = hist.hurt

LEMMA HistKept ==
    ASSUME TypeInv
    PROVE  /\ \A f \in {"cut", "bad", "gone"} : \A v :
                hist' = [hist EXCEPT ![f] = v] => HistOK' /\ SameHist
           /\ hist' = hist => HistOK' /\ SameHist
<1>1. HistOK
  BY DEF TypeInv
<1>2. ASSUME NEW f \in {"cut", "bad", "gone"}, NEW v, hist' = [hist EXCEPT ![f] = v]
      PROVE  HistOK' /\ SameHist
  BY <1>1, <1>2 DEF HistOK, SameHist
<1> QED
  BY <1>1, <1>2 DEF HistOK, SameHist

LEMMA PeekIs ==
    ASSUME TypeInv, NEW c \in Channels, NEW n \in Nat \ {0}
    PROVE  /\ Peek(c, n) \in Token
           /\ n <= Len(rx[c]) => n \in 1..Len(rx[c]) /\ Peek(c, n) = rx[c][n]
           /\ ~(n <= Len(rx[c])) => Peek(c, n) = Nul
<1>1. rx[c] \in Seq(Token) /\ Len(rx[c]) \in Nat
  BY DEF TypeInv
<1>2. n <= Len(rx[c]) => n \in 1..Len(rx[c]) /\ rx[c][n] \in Token
  BY <1>1
<1>3. Nul \in Token
  BY DEF Nul, Token, Names
<1>4. Peek(c, n) = IF n <= Len(rx[c]) THEN rx[c][n] ELSE Nul
  BY <1>1 DEF Peek
<1> QED
  BY <1>2, <1>3, <1>4

\* A round that skips reads up to the first stop.
LEMMA SkipIs ==
    ASSUME TypeInv, NEW c \in Channels
    PROVE  /\ Skip(c) \in Nat
           /\ Stops(c) = {} => Skip(c) = 1
           /\ Stops(c) # {} /\ Skip(c) # 0 =>
                 /\ Skip(c) \in 1..Len(rx[c]) /\ rx[c][Skip(c)].tok \in Stops(c)
                 /\ \A j \in 1..(Skip(c) - 1) : rx[c][j].tok \notin Stops(c)
           /\ Stops(c) # {} /\ Skip(c) = 0 => \A j \in 1..Len(rx[c]) : rx[c][j].tok \notin Stops(c)
<1>1. rx[c] \in Seq(Token) /\ Len(rx[c]) \in Nat
  BY DEF TypeInv
<1>2. CASE Stops(c) # {}
  <2> DEFINE I == {i \in 1..Len(rx[c]) : rx[c][i].tok \in Stops(c)}
  <2>1. Skip(c) = IF I # {} THEN Min(I) ELSE 0
    BY <1>2 DEF Skip, SelectInSeq
  <2>2. I \subseteq Nat \ {0}
    BY <1>1
  <2> HIDE DEF I
  <2>3. /\ Skip(c) = 0 => I = {}
        /\ Skip(c) # 0 => Skip(c) \in I /\ \A j \in I : Skip(c) <= j
    BY <2>1, <2>2, FirstOf
  <2>4. Skip(c) # 0 => Skip(c) \in 1..Len(rx[c]) /\ rx[c][Skip(c)].tok \in Stops(c)
    BY <2>3 DEF I
  <2>5. ASSUME Skip(c) # 0, NEW j \in 1..(Skip(c) - 1) PROVE rx[c][j].tok \notin Stops(c)
    <3>1. j \in 1..Len(rx[c]) /\ ~(Skip(c) <= j)
      BY <1>1, <2>4, <2>5
    <3> QED
      BY <2>3, <2>5, <3>1 DEF I
  <2>6. ASSUME Skip(c) = 0 PROVE \A j \in 1..Len(rx[c]) : rx[c][j].tok \notin Stops(c)
    BY <2>3, <2>6 DEF I
  <2> QED
    BY <1>1, <1>2, <2>4, <2>5, <2>6
<1>3. CASE Stops(c) = {}
  BY <1>3 DEF Skip
<1> QED
  BY <1>2, <1>3

LEMMA Joined ==
    ASSUME NEW S, NEW a \in Seq(S), NEW b \in Seq(S)
    PROVE  /\ a \o b \in Seq(S) /\ Len(a \o b) = Len(a) + Len(b)
           /\ \A k \in 1..Len(a) : (a \o b)[k] = a[k]
           /\ \A k \in 1..Len(b) : (a \o b)[Len(a) + k] = b[k]
OBVIOUS

\* Tokens taken from the front are taken from the front of the whole stream.
LEMMA FrontOff ==
    ASSUME NEW S, NEW x \in Seq(S), NEW more \in Seq(S), NEW m \in 0..Len(x)
    PROVE  SubSeq(x, m + 1, Len(x)) \o more = SubSeq(x \o more, m + 1, Len(x \o more))
<1> DEFINE s == x \o more
           a == SubSeq(x, m + 1, Len(x))
           b == SubSeq(s, m + 1, Len(s))
<1>1. PICK lx \in Nat : lx = Len(x)
  OBVIOUS
<1>2. PICK lm \in Nat : lm = Len(more)
  OBVIOUS
<1>3. m \in Nat /\ m <= lx
  BY <1>1
<1>4. /\ s \in Seq(S) /\ Len(s) = lx + lm
      /\ \A k \in 1..lx : s[k] = x[k]
      /\ \A k \in 1..lm : s[lx + k] = more[k]
  BY <1>1, <1>2
<1>5. a \in Seq(S) /\ Len(a) = lx - m /\ \A k \in 1..(lx - m) : a[k] = x[m + k]
  BY <1>1, <1>3
<1> HIDE DEF s
<1>6. b \in Seq(S) /\ Len(b) = lx + lm - m /\ \A k \in 1..(lx + lm - m) : b[k] = s[m + k]
  <2>1. m + 1 \in 1..(Len(s) + 1)
    BY <1>3, <1>4
  <2> QED
    BY <1>3, <1>4, <2>1
<1> HIDE DEF a
<1>7. /\ a \o more \in Seq(S) /\ Len(a \o more) = lx - m + lm
      /\ \A k \in 1..(lx - m) : (a \o more)[k] = a[k]
      /\ \A k \in 1..lm : (a \o more)[lx - m + k] = more[k]
  <2>1. Len(a) \in Nat /\ Len(a) = lx - m
    BY <1>3, <1>5
  <2>2. /\ a \o more \in Seq(S) /\ Len(a \o more) = Len(a) + Len(more)
        /\ \A k \in 1..Len(a) : (a \o more)[k] = a[k]
        /\ \A k \in 1..Len(more) : (a \o more)[Len(a) + k] = more[k]
    <3>1. a \in Seq(S)
      BY <1>5
    <3> QED
      BY <3>1, Joined
  <2> QED
    BY <1>2, <2>1, <2>2
<1> HIDE DEF b
<1>8. ASSUME NEW k \in 1..Len(b) PROVE (a \o more)[k] = b[k]
  <2>1. k \in 1..(lx + lm - m) /\ b[k] = s[m + k]
    BY <1>6
  <2>2. CASE k <= lx - m
    <3>1. k \in 1..(lx - m) /\ m + k \in 1..lx
      BY <1>3, <2>1, <2>2
    <3> QED
      BY <1>4, <1>5, <1>7, <2>1, <3>1
  <2>3. CASE ~(k <= lx - m)
    <3>1. /\ k - (lx - m) \in 1..lm /\ lx + (k - (lx - m)) = m + k
          /\ lx - m + (k - (lx - m)) = k
      BY <1>3, <2>1, <2>3
    <3>2. s[m + k] = more[k - (lx - m)] /\ (a \o more)[k] = more[k - (lx - m)]
      BY <1>4, <1>7, <3>1
    <3> QED
      BY <2>1, <3>2
  <2> QED
    BY <2>2, <2>3
<1>9. Len(a \o more) = Len(b)
  BY <1>3, <1>6, <1>7
<1>10. a \o more = b
  BY <1>6, <1>7, <1>8, <1>9, SeqEqual
<1> QED
  BY <1>10 DEF a, b, s

\* s is what channel c has received of the messages T, with more to come.
Stream(c, T, more, s) ==
    /\ \A t \in T : GoodText(t)
    /\ more \in Seq(Token) /\ s = rx[c] \o more /\ Whole(T, s)

\* What is left of it after a step.
Left(c, more) == rx'[c] \o more

\* A round that reads n tokens reads them off the stream.
LEMMA Reading ==
    ASSUME TypeInv, NEW c \in Channels, NEW n \in Nat, Consume(c, n),
           NEW T, NEW more, NEW s, Stream(c, T, more, s)
    PROVE  /\ s \in Seq(Token) /\ Len(rx[c]) \in Nat /\ Len(rx[c]) <= Len(s)
           /\ \A k \in 1..Len(rx[c]) : k \in 1..Len(s) /\ s[k] = rx[c][k]
           /\ Left(c, more) \in Seq(Token) /\ Whole(T, Left(c, more))
           /\ n <= Len(rx[c]) => /\ Len(Left(c, more)) = Len(s) - n
                                 /\ \A k \in 1..(Len(s) - n) : Left(c, more)[k] = s[n + k]
<1> USE DEF Stream
<1> DEFINE r == Left(c, more)
<1>1. rx[c] \in Seq(Token) /\ rx'[c] = SubSeq(rx[c], n + 1, Len(rx[c]))
  BY DEF Consume, TypeInv
<1> DEFINE x == rx[c]
           m == IF n <= Len(x) THEN n ELSE Len(x)
<1>2. x \in Seq(Token) /\ Len(x) \in Nat /\ m \in 0..Len(x)
  BY <1>1
<1>3. rx'[c] = SubSeq(x, m + 1, Len(x))
  <2>1. CASE n <= Len(x)
    BY <1>1, <2>1
  <2>2. CASE ~(n <= Len(x))
    BY <1>1, <1>2, <2>2
  <2> QED
    BY <2>1, <2>2
<1> HIDE DEF x
<1>4. /\ s = x \o more /\ s \in Seq(Token) /\ Len(s) = Len(x) + Len(more) /\ Len(more) \in Nat
      /\ \A k \in 1..Len(x) : k \in 1..Len(s) /\ s[k] = x[k]
  BY <1>2 DEF x
<1>5. m \in 0..Len(s)
  BY <1>2, <1>4
<1>6. r = SubSeq(s, m + 1, Len(s))
  <2> HIDE DEF m
  <2>1. SubSeq(x, m + 1, Len(x)) \o more = SubSeq(x \o more, m + 1, Len(x \o more))
    BY <1>2, FrontOff
  <2> QED
    BY <1>3, <1>4, <2>1 DEF Left
<1> HIDE DEF m, r
<1>7. /\ r \in Seq(Token) /\ Len(r) = Len(s) - m /\ Whole(T, r)
      /\ \A k \in 1..(Len(s) - m) : r[k] = s[m + k]
  BY <1>4, <1>5, <1>6, WholeSuffix
<1>8. n <= Len(x) => m = n
  BY DEF m
<1>9. Len(x) <= Len(s)
  BY <1>2, <1>4
<1>10. n <= Len(x) => Len(r) = Len(s) - n /\ \A k \in 1..(Len(s) - n) : r[k] = s[n + k]
  BY <1>7, <1>8
<1> QED
  BY <1>2, <1>4, <1>7, <1>9, <1>10 DEF x, r


\* What follows the token a round ended with is of the same request.
LEMMA After ==
    ASSUME TypeInv, NEW c \in Channels, NEW n \in 1..Len(rx[c]), Consume(c, n),
           NEW T, NEW more, NEW s, Stream(c, T, more, s), s[n].id # 0, s[n].tok # "lf"
    PROVE  Left(c, more) # <<>> /\ Left(c, more)[1].id = s[n].id
<1> DEFINE r == Left(c, more)
<1>1. n \in Nat /\ n <= Len(rx[c]) /\ n \in 1..Len(rx[c]) /\ Len(rx[c]) \in Nat
  BY DEF TypeInv
<1>2. /\ s \in Seq(Token) /\ n \in 1..Len(s) /\ r \in Seq(Token)
      /\ Len(r) = Len(s) - n /\ \A k \in 1..(Len(s) - n) : r[k] = s[n + k]
  <2>1. n \in Nat
    BY <1>1
  <2>2. /\ s \in Seq(Token) /\ r \in Seq(Token)
        /\ \A k \in 1..Len(rx[c]) : k \in 1..Len(s) /\ s[k] = rx[c][k]
        /\ n <= Len(rx[c]) => /\ Len(r) = Len(s) - n
                              /\ \A k \in 1..(Len(s) - n) : r[k] = s[n + k]
    BY <2>1, Reading
  <2> QED
    BY <1>1, <2>2
<1> HIDE DEF r
<1>3. n + 1 \in 1..Len(s) /\ s[n + 1].id = s[n].id
  BY <1>2, Onward DEF Stream
<1>4. 1 \in 1..(Len(s) - n) /\ Len(s) - n # 0
  <2>1. PICK l \in Nat : l = Len(s)
    BY <1>2
  <2>2. 1 \in 1..(l - n) /\ l - n # 0
    BY <1>1, <1>3, <2>1
  <2> QED
    BY <2>1, <2>2
<1>5. r[1] = s[n + 1] /\ r # <<>>
  BY <1>2, <1>4
<1> QED
  BY <1>3, <1>5 DEF r

\* The tokens a round reads are those at the front of the stream.
LEMMA PeekAhead ==
    ASSUME TypeInv, NEW c \in Channels, NEW n \in Nat \ {0}, NEW T, NEW more, NEW s,
           Stream(c, T, more, s), Peek(c, n) # Nul
    PROVE  /\ n \in 1..Len(rx[c]) /\ n \in 1..Len(s) /\ Peek(c, n) = s[n]
           /\ \A j \in 1..n : j \in 1..Len(rx[c]) /\ j \in 1..Len(s) /\ Peek(c, j) = s[j]
<1>1. rx[c] \in Seq(Token) /\ Len(rx[c]) \in Nat
  BY DEF TypeInv
<1>2. n \in 1..Len(rx[c])
  BY <1>1, PeekIs
<1>3. Len(s) \in Nat /\ Len(rx[c]) <= Len(s) /\ \A k \in 1..Len(rx[c]) : s[k] = rx[c][k]
  BY <1>1 DEF Stream
<1>4. ASSUME NEW j \in 1..n PROVE j \in 1..Len(rx[c]) /\ j \in 1..Len(s) /\ Peek(c, j) = s[j]
  <2>1. j \in Nat \ {0} /\ j <= Len(rx[c]) /\ j \in 1..Len(rx[c]) /\ j \in 1..Len(s)
    BY <1>1, <1>2, <1>3
  <2>2. Peek(c, j) = rx[c][j]
    BY <2>1, PeekIs
  <2> QED
    BY <1>3, <2>1, <2>2
<1>5. n \in 1..n
  BY <1>2
<1> QED
  BY <1>2, <1>4, <1>5

-----------------------------------------------------------------------------
(* Where the parser is in the stream.                                      *)

\* What follows is of the request that is being answered.
Continued(p, s) == s # <<>> /\ s[1].id = p.msg[2] /\ p.msg[2] # 0

\* These segments consist of characters of the request that is being answered.
Mine(p, gs) == \A g \in gs : g.ids \subseteq {p.msg[2]}

\* After a grove name that is too long the parser goes on at the next "/", which
\* may be another request's; but such a name is no resource's.
Lost(p) == p.grove.val \in {"long", "other"}

At(p, s) ==
    /\ p.stage = "REQ_TYPE" /\ p.window # "" /\ ~p.phantom =>
            2 <= Len(s) /\ s[1].id # 0 /\ s[2].id # 0
    /\ p.stage = "OTA" /\ ~p.phantom => s # <<>> /\ s[1].id # 0
    /\ p.stage = "APP_NUM" /\ p.msg[1] # "phantom" => s # <<>> /\ s[1].id # 0
    /\ p.stage = "GROVE_NAME" => Continued(p, s) /\ Mine(p, {p.seg})
    /\ p.stage = "METHOD" => Lost(p) \/ (Continued(p, s) /\ Mine(p, {p.grove, p.seg}))
    /\ p.stage = "PRE_ARGS" => Lost(p) \/ (Continued(p, s) /\ Mine(p, {p.grove, p.method}))
    /\ p.stage = "CHECK_ARGS" => Lost(p) \/ Mine(p, {p.grove, p.method})
    /\ p.stage = "ARGS" => /\ Continued(p, s) /\ Mine(p, {p.grove, p.method, p.seg})
                           /\ \A i \in 1..Len(p.args) : Mine(p, {p.args[i]})
    /\ p.stage = "CALL" => /\ Mine(p, {p.grove, p.method})
                           /\ \A i \in 1..Len(p.args) : Mine(p, {p.args[i]})

\* More of the stream changes nothing of it, and neither does a ping less.
LEMMA AtJoined ==
    ASSUME NEW p, NEW s \in Seq(Token), NEW q \in Seq(Token), At(p, s)
    PROVE  At(p, s \o q)
<1>1. /\ s # <<>> => s \o q # <<>> /\ (s \o q)[1] = s[1]
      /\ 2 <= Len(s) => 2 <= Len(s \o q) /\ (s \o q)[1] = s[1] /\ (s \o q)[2] = s[2]
  OBVIOUS
<1>2. Continued(p, s) => Continued(p, s \o q)
  BY <1>1 DEF Continued
<1> QED
  BY <1>1, <1>2 DEF At

LEMMA PingIs == Ping \in Seq(Token) /\ Len(Ping) = 1 /\ Ping[1] = [tok |-> "##PING##", id |-> 0]
<1> DEFINE e == [tok |-> "##PING##", id |-> 0]
<1>1. e \in Token
  BY DEF Token, Names
<1>2. Ping = <<e>>
  BY DEF Ping
<1> HIDE DEF e
<1>3. <<e>> \in Seq(Token) /\ Len(<<e>>) = 1 /\ <<e>>[1] = e
  BY <1>1
<1> QED
  BY <1>2, <1>3 DEF e

LEMMA AtBeforePing ==
    ASSUME NEW p, NEW s \in Seq(Token), At(p, s \o Ping)
    PROVE  At(p, s)
<1>1. Ping \in Seq(Token) /\ Ping[1].id = 0
  BY PingIs
<1>2. ASSUME NEW q \in Seq(Token), q[1].id = 0
      PROVE  /\ (s \o q)[1].id # 0 => s # <<>> /\ (s \o q)[1] = s[1]
             /\ ((s \o q)[1].id # 0 /\ (s \o q)[2].id # 0 /\ 2 <= Len(s \o q)) =>
                    2 <= Len(s) /\ (s \o q)[1] = s[1] /\ (s \o q)[2] = s[2]
  <2>1. PICK l \in Nat : l = Len(s)
    OBVIOUS
  <2>2. \A k \in 1..l : (s \o q)[k] = s[k]
    BY <2>1
  <2>3. l + 1 <= Len(s \o q) => (s \o q)[l + 1] = q[1]
    BY <2>1
  <2>4. 1 <= l => s # <<>> /\ 1 \in 1..l
    BY <2>1
  <2>5. CASE l = 0
    <3>1. s = <<>>
      BY <2>1, <2>5, EmptySeq
    <3>2. s \o q = q
      BY <3>1, ConcatEmptySeq
    <3> QED
      BY <1>2, <3>2
  <2>6. CASE l = 1
    BY <1>2, <2>1, <2>2, <2>3, <2>4, <2>6
  <2>7. CASE 2 <= l
    <3>1. 1 \in 1..l /\ 2 \in 1..l /\ 1 <= l
      BY <2>7
    <3> QED
      BY <2>1, <2>2, <2>4, <2>7, <3>1
  <2>8. l = 0 \/ l = 1 \/ 2 <= l
    BY <2>1
  <2> QED
    BY <2>5, <2>6, <2>7, <2>8
<1> DEFINE t == s \o Ping
<1>3. /\ t[1].id # 0 => s # <<>> /\ t[1] = s[1]
      /\ (t[1].id # 0 /\ t[2].id # 0 /\ 2 <= Len(t)) =>
            2 <= Len(s) /\ t[1] = s[1] /\ t[2] = s[2]
  BY <1>1, <1>2
<1>4. At(p, t)
  OBVIOUS
<1> HIDE DEF t
<1>5. Continued(p, t) => Continued(p, s)
  BY <1>3 DEF Continued
<1> QED
  BY <1>3, <1>4, <1>5 DEF At

\* What the parser does with a token and the stream behind it.
LEMMA BackAt ==
    ASSUME NEW p \in Parsers, NEW s
    PROVE  /\ BackToReqType(p) \in Parsers /\ StageOK(BackToReqType(p))
           /\ At(BackToReqType(p), s)
<1>1. Leftover(p) \in Keywords \cup {""}
  BY RpcAssumption DEF Leftover
<1>2. p.mem \in Names
  BY DEF Parsers
<1>3. NoRequest \in Parsers
  <2>1. NoSegment \in Segments
    BY DEF NoSegment, Segments, Names
  <2>2. NoMsg \in {"none", "reply", "phantom"} \X Nat
    BY DEF NoMsg
  <2>3. <<>> \in Seq(Segments) /\ "" \in Names /\ "REQ_TYPE" \in Stages
    BY DEF Names, Stages
  <2> QED
    BY <2>1, <2>2, <2>3 DEF NoRequest, Parsers
<1> DEFINE q == BackToReqType(p)
<1>4. /\ q \in Parsers /\ q.stage = "REQ_TYPE" /\ q.window = Leftover(p)
      /\ q.phantom = (Leftover(p) # "")
  BY <1>1, <1>2, <1>3 DEF BackToReqType, Parsers, NoRequest
<1> HIDE DEF q
<1>5. StageOK(q) /\ At(q, s)
  BY <1>4 DEF StageOK, At
<1> QED
  BY <1>4, <1>5 DEF q

LEMMA StoreIs ==
    ASSUME NEW p \in Parsers, NEW t \in Token
    PROVE  LET q == Store(p, t)
           IN  /\ q \in Parsers /\ q = [p EXCEPT !.seg = q.seg, !.mem = q.mem]
               /\ q.seg.ids = p.seg.ids \cup {t.id}
               /\ q.seg.val = IF p.seg.val = "" THEN t.tok ELSE "other"
<1>1. t.tok \in Names /\ t.id \in Nat
  BY DEF Token
<1>2. p.seg \in Segments /\ p.mem \in Names /\ p.seg.val \in Names /\ p.seg.ids \in SUBSET Nat
  BY DEF Parsers, Segments
<1>3. Collect(p.seg, t) \in Segments /\ (IF p.seg.val = "" THEN t.tok ELSE p.mem) \in Names
  BY <1>1, <1>2 DEF Collect, Segments, Names
<1>4. Store(p, t) = [p EXCEPT !.seg = Collect(p.seg, t),
                             !.mem = IF p.seg.val = "" THEN t.tok ELSE p.mem]
  BY DEF Store
<1>5. Store(p, t) \in Parsers /\ Store(p, t).seg = Collect(p.seg, t)
  BY <1>3, <1>4 DEF Parsers
<1>6. Store(p, t) = [p EXCEPT !.seg = Store(p, t).seg, !.mem = Store(p, t).mem]
  BY <1>4 DEF Parsers
<1>7. /\ Collect(p.seg, t).ids = p.seg.ids \cup {t.id}
      /\ Collect(p.seg, t).val = IF p.seg.val = "" THEN t.tok ELSE "other"
  BY DEF Collect
<1> QED
  BY <1>5, <1>6, <1>7


-----------------------------------------------------------------------------
(* A round of the parser.                                                  *)

\* What a round of channel c does to the parser: it keeps its types and its place.
Goes(c) ==
    /\ parser' = [parser EXCEPT ![c] = parser'[c]]
    /\ parser'[c] \in Parsers /\ StageOK(parser'[c])
    /\ HistOK' /\ SameHist
    /\ \A T, more, s : Stream(c, T, more, s) /\ At(parser[c], s) => At(parser'[c], Left(c, more))

LEMMA PutIs ==
    ASSUME TypeInv, NEW c \in Channels, NEW p
    PROVE  /\ Silent(c, p) => /\ parser' = [parser EXCEPT ![c] = parser'[c]] /\ parser'[c] = p
                              /\ HistOK' /\ SameHist
           /\ \A msg, parts, whole : Reply(c, p, msg, parts, whole) =>
                              /\ parser' = [parser EXCEPT ![c] = parser'[c]] /\ parser'[c] = p
                              /\ HistOK' /\ SameHist
<1>1. parser \in [Channels -> Parsers]
  BY DEF TypeInv
<1>2. parser' = [parser EXCEPT ![c] = p] =>
        parser' = [parser EXCEPT ![c] = parser'[c]] /\ parser'[c] = p
  BY <1>1
<1>3. Silent(c, p) => HistOK' /\ SameHist
  BY HistKept DEF Silent
<1>4. ASSUME NEW msg, NEW parts, NEW whole, Reply(c, p, msg, parts, whole)
      PROVE  parser' = [parser EXCEPT ![c] = p] /\ HistOK' /\ SameHist
  <2>1. \E v : hist' = [hist EXCEPT !.cut = v]
    BY <1>4 DEF Reply
  <2> QED
    BY <1>4, <2>1, HistKept DEF Reply
<1> QED
  BY <1>2, <1>3, <1>4 DEF Silent

LEMMA NotFoundGoes ==
    ASSUME TypeInv, NEW c \in Channels, NotFound(c)
    PROVE  Goes(c)
<1>1. parser[c] \in Parsers
  BY DEF TypeInv
<1>2. /\ parser' = [parser EXCEPT ![c] = parser'[c]] /\ parser'[c] = BackToReqType(parser[c])
      /\ HistOK' /\ SameHist
  BY PutIs DEF NotFound
<1> QED
  BY <1>1, <1>2, BackAt DEF Goes

\* A round that does not hang reads up to a token that is there.
LEMMA SkipWithin ==
    ASSUME TypeInv, NEW c \in Channels, rx[c] # <<>>, ~(Stops(c) # {} /\ Skip(c) = 0)
    PROVE  /\ Skip(c) \in Nat \ {0} /\ 1 \in 1..Len(rx[c]) /\ Skip(c) \in 1..Len(rx[c])
           /\ Peek(c, 1) = rx[c][1] /\ Peek(c, Skip(c)) = rx[c][Skip(c)]
           /\ Peek(c, 1) \in Token /\ Peek(c, Skip(c)) \in Token
           /\ Stops(c) = {} => Skip(c) = 1
           /\ Stops(c) # {} => Peek(c, Skip(c)).tok \in Stops(c)
<1>1. rx[c] \in Seq(Token) /\ Len(rx[c]) \in Nat /\ 1 \in 1..Len(rx[c])
  BY DEF TypeInv
<1>2. /\ Skip(c) \in 1..Len(rx[c])
      /\ Stops(c) = {} => Skip(c) = 1
      /\ Stops(c) # {} => rx[c][Skip(c)].tok \in Stops(c)
  BY <1>1, SkipIs
<1>3. ASSUME NEW n \in 1..Len(rx[c])
      PROVE  n \in Nat \ {0} /\ Peek(c, n) \in Token /\ Peek(c, n) = rx[c][n]
  <2>1. n \in Nat \ {0} /\ n <= Len(rx[c])
    BY <1>1
  <2> QED
    BY <2>1, PeekIs
<1> QED
  BY <1>1, <1>2, <1>3

\* The token read is of the request, and what is behind it too.
LEMMA OneOn ==
    ASSUME TypeInv, NEW c \in Channels, rx[c] # <<>>, Consume(c, 1),
           NEW T, NEW more, NEW s, Stream(c, T, more, s), NEW p, Continued(p, s)
    PROVE  /\ Peek(c, 1).id = p.msg[2]
           /\ Peek(c, 1).tok # "lf" => Continued(p, Left(c, more))
<1>1. rx[c] \in Seq(Token) /\ Len(rx[c]) \in Nat /\ 1 \in 1..Len(rx[c]) /\ more \in Seq(Token)
      /\ s = rx[c] \o more
  BY DEF TypeInv, Stream
<1>2. Peek(c, 1) = rx[c][1] /\ s[1] = rx[c][1]
  BY <1>1 DEF Peek
<1>3. s[1].id = p.msg[2] /\ p.msg[2] # 0
  BY DEF Continued
<1>4. ASSUME s[1].tok # "lf" PROVE Left(c, more) # <<>> /\ Left(c, more)[1].id = s[1].id
  <2>1. 1 \in 1..Len(rx[c]) /\ s[1].id # 0
    BY <1>1, <1>3
  <2> QED
    BY <1>4, <2>1, After
<1> QED
  BY <1>2, <1>3, <1>4 DEF Continued

\* The same of all the tokens up to the first stop, if a line's end is one.
LEMMA SomeOn ==
    ASSUME TypeInv, NEW c \in Channels, rx[c] # <<>>, Consume(c, Skip(c)),
           LineEnd \subseteq Stops(c), Skip(c) # 0,
           NEW T, NEW more, NEW s, Stream(c, T, more, s), NEW p, Continued(p, s)
    PROVE  /\ Peek(c, 1).id = p.msg[2]
           /\ Peek(c, Skip(c)).tok # "lf" => Continued(p, Left(c, more))
<1>1. rx[c] \in Seq(Token) /\ Len(rx[c]) \in Nat /\ more \in Seq(Token)
      /\ s = rx[c] \o more /\ Whole(T, s) /\ \A t \in T : GoodText(t)
  BY DEF TypeInv, Stream
<1>2. Stops(c) # {}
  BY DEF LineEnd
<1>3. /\ 1 \in 1..Len(rx[c]) /\ Skip(c) \in 1..Len(rx[c])
      /\ Peek(c, 1) = rx[c][1] /\ Peek(c, Skip(c)) = rx[c][Skip(c)]
      /\ \A j \in 1..(Skip(c) - 1) : rx[c][j].tok \notin Stops(c)
  BY <1>2, SkipWithin, SkipIs
<1>4. s \in Seq(Token) /\ \A k \in 1..Len(rx[c]) : s[k] = rx[c][k]
  BY <1>1
<1>5. s[1].id = p.msg[2] /\ p.msg[2] # 0 /\ s # <<>>
  BY DEF Continued
<1>6. PICK m \in 1..Len(s) : s[m].tok \in LineEnd /\ \A j \in 1..m : s[j].id = s[1].id
  BY <1>1, <1>4, <1>5, EndAhead
<1>7. Skip(c) <= m
  <2> SUFFICES ASSUME ~(Skip(c) <= m) PROVE FALSE
    OBVIOUS
  <2>1. PICK n \in Nat : n = Skip(c)
    BY <1>3
  <2>2. PICK l \in Nat : l = Len(rx[c])
    BY <1>1
  <2>3. m \in Nat /\ m >= 1
    BY <1>4, <1>6
  <2>4. m \in 1..(Skip(c) - 1) /\ m \in 1..Len(rx[c])
    BY <1>3, <2>1, <2>2, <2>3
  <2> QED
    BY <1>3, <1>4, <1>6, <2>4
<1>8. s[Skip(c)].id = s[1].id
  <2>1. Skip(c) \in 1..m
    BY <1>3, <1>4, <1>6, <1>7
  <2> QED
    BY <1>6, <2>1
<1>9. ASSUME s[Skip(c)].tok # "lf"
      PROVE  Left(c, more) # <<>> /\ Left(c, more)[1].id = s[Skip(c)].id
  BY <1>3, <1>5, <1>8, <1>9, After
<1> QED
  BY <1>3, <1>4, <1>5, <1>8, <1>9 DEF Continued


LEMMA GroveNameGoes ==
    ASSUME TypeInv, StageInv, NEW c \in Channels, parser[c].stage = "GROVE_NAME",
           rx[c] # <<>>, ~(Stops(c) # {} /\ Skip(c) = 0), GroveName(c)
    PROVE  Goes(c)
<1> DEFINE p == parser[c]
           t == Peek(c, 1)
           named(q) == [q EXCEPT !.stage = "METHOD", !.grove = q.seg, !.seg = NoSegment]
<1>1. p \in Parsers /\ p.stage = "GROVE_NAME" /\ p.window = "" /\ p.args = <<>>
  BY DEF TypeInv, StageInv, StageOK
<1>2. t \in Token /\ Skip(c) # 0 /\ (t.tok # "long" => Skip(c) = 1)
  BY SkipWithin DEF Stops
<1>3. Consume(c, Skip(c))
  BY DEF GroveName
<1>4. /\ t.tok \in {"cr", "lf"} => NotFound(c) \/ Silent(c, [p EXCEPT !.stage = "WELL_KNOWN"])
      /\ t.tok = "/" => Silent(c, named(p))
      /\ t.tok = "long" => Silent(c, named(Store(p, t)))
      /\ t.tok \notin {"cr", "lf", "/", "long"} => Silent(c, Store(p, t))
  BY DEF GroveName
<1> DEFINE Kept(q) == \A T, more, s : Stream(c, T, more, s) /\ At(p, s) => At(q, Left(c, more))
<1>5. \A T, more, s : Stream(c, T, more, s) /\ At(p, s) => Continued(p, s) /\ Mine(p, {p.seg})
  BY <1>1 DEF At
<1>6. ASSUME t.tok # "long"
      PROVE  \A T, more, s : Stream(c, T, more, s) /\ At(p, s) =>
                /\ t.id = p.msg[2]
                /\ t.tok # "lf" => Continued(p, Left(c, more))
  <2>1. Consume(c, 1)
    BY <1>2, <1>3, <1>6
  <2> QED
    BY <2>1, <1>5, OneOn
<1>7. NoSegment \in Segments /\ NoSegment.ids = {} /\ "METHOD" \in Stages /\ "WELL_KNOWN" \in Stages
  BY DEF NoSegment, Segments, Names, Stages
<1>8. ASSUME NEW q \in Parsers, Silent(c, q), StageOK(q), Kept(q) PROVE Goes(c)
  <2>1. /\ parser' = [parser EXCEPT ![c] = parser'[c]] /\ parser'[c] = q
        /\ HistOK' /\ SameHist
    BY <1>8, PutIs
  <2> QED
    BY <1>8, <2>1 DEF Goes
<1>9. CASE t.tok \in {"cr", "lf"}
  <2>1. CASE NotFound(c)
    BY <2>1, NotFoundGoes
  <2>2. CASE Silent(c, [p EXCEPT !.stage = "WELL_KNOWN"])
    <3> DEFINE q == [p EXCEPT !.stage = "WELL_KNOWN"]
    <3>1. q \in Parsers /\ q.stage = "WELL_KNOWN" /\ q.window = ""
      BY <1>1, <1>7 DEF Parsers
    <3> HIDE DEF q
    <3>2. StageOK(q) /\ Kept(q)
      BY <3>1 DEF StageOK, At
    <3>3. Silent(c, q)
      BY <2>2 DEF q
    <3> QED
      BY <1>8, <3>1, <3>2, <3>3
  <2> QED
    BY <1>4, <1>9, <2>1, <2>2
<1>10. CASE t.tok = "/"
  <2> DEFINE q == named(p)
  <2>1. /\ q \in Parsers /\ q.stage = "METHOD" /\ q.window = "" /\ q.args = <<>>
        /\ q.msg = p.msg /\ q.grove = p.seg /\ q.seg.ids = {}
    BY <1>1, <1>7 DEF Parsers
  <2> HIDE DEF q
  <2>2. StageOK(q)
    BY <2>1 DEF StageOK
  <2>3. ASSUME NEW T, NEW more, NEW s, Stream(c, T, more, s), At(p, s)
        PROVE  At(q, Left(c, more))
    <3>1. Continued(p, Left(c, more)) /\ Mine(p, {p.seg})
      BY <1>5, <1>6, <1>10, <2>3
    <3>2. Continued(q, Left(c, more)) /\ Mine(q, {q.grove, q.seg})
      BY <2>1, <3>1 DEF Continued, Mine
    <3> QED
      BY <2>1, <3>2 DEF At
  <2>4. Silent(c, q)
    BY <1>4, <1>10 DEF q
  <2> QED
    BY <1>8, <2>1, <2>2, <2>3, <2>4
<1>11. CASE t.tok = "long"
  <2> DEFINE u == Store(p, t)
             q == named(u)
  <2>1. /\ u \in Parsers /\ u = [p EXCEPT !.seg = u.seg, !.mem = u.mem]
        /\ u.seg.val \in {"long", "other"}
    BY <1>1, <1>2, <1>11, StoreIs
  <2> HIDE DEF u
  <2>2. u.window = "" /\ u.args = <<>>
    BY <1>1, <2>1 DEF Parsers
  <2>3. /\ q \in Parsers /\ q.stage = "METHOD" /\ q.window = "" /\ q.args = <<>>
        /\ q.grove = u.seg
    BY <1>7, <2>1, <2>2 DEF Parsers
  <2> HIDE DEF q
  <2>4. StageOK(q) /\ Lost(q)
    BY <2>1, <2>3 DEF StageOK, Lost
  <2>5. Kept(q)
    BY <2>3, <2>4 DEF At
  <2>6. Silent(c, q)
    BY <1>4, <1>11 DEF q, u
  <2> QED
    BY <1>8, <2>3, <2>4, <2>5, <2>6
<1>12. CASE t.tok \notin {"cr", "lf", "/", "long"}
  <2> DEFINE q == Store(p, t)
  <2>1. /\ q \in Parsers /\ q = [p EXCEPT !.seg = q.seg, !.mem = q.mem]
        /\ q.seg.ids = p.seg.ids \cup {t.id}
    BY <1>1, <1>2, StoreIs
  <2> HIDE DEF q
  <2>2. q.stage = "GROVE_NAME" /\ q.window = "" /\ q.args = <<>> /\ q.msg = p.msg
    BY <1>1, <2>1 DEF Parsers
  <2>3. StageOK(q)
    BY <2>2 DEF StageOK
  <2>4. ASSUME NEW T, NEW more, NEW s, Stream(c, T, more, s), At(p, s)
        PROVE  At(q, Left(c, more))
    <3>1. Continued(p, Left(c, more)) /\ Mine(p, {p.seg}) /\ t.id = p.msg[2]
      BY <1>5, <1>6, <1>12, <2>4
    <3>2. Continued(q, Left(c, more)) /\ Mine(q, {q.seg})
      BY <2>1, <2>2, <3>1 DEF Continued, Mine
    <3> QED
      BY <2>2, <3>2 DEF At
  <2>5. Silent(c, q)
    BY <1>4, <1>12 DEF q
  <2> QED
    BY <1>8, <2>1, <2>3, <2>4, <2>5
<1> QED
  BY <1>9, <1>10, <1>11, <1>12


LEMMA MethodGoes ==
    ASSUME TypeInv, StageInv, NEW c \in Channels, parser[c].stage = "METHOD",
           rx[c] # <<>>, ~(Stops(c) # {} /\ Skip(c) = 0), Method(c)
    PROVE  Goes(c)
<1> DEFINE p == parser[c]
           t == Peek(c, 1)
           stop == Peek(c, Skip(c)).tok
           named(q) == [q EXCEPT !.method = q.seg, !.seg = NoSegment,
                                 !.stage = IF stop = "/" THEN "PRE_ARGS" ELSE "CHECK_ARGS"]
<1>1. p \in Parsers /\ p.stage = "METHOD" /\ p.window = "" /\ p.args = <<>>
  BY DEF TypeInv, StageInv, StageOK
<1>2. /\ t \in Token /\ Skip(c) # 0
      /\ t.tok # "long" => Skip(c) = 1 /\ stop = t.tok
      /\ t.tok = "long" => LineEnd \subseteq Stops(c)
  BY SkipWithin DEF Stops, LineEnd
<1>3. Consume(c, Skip(c))
  BY DEF Method
<1>4. /\ t.tok \in {"/", "cr", "lf"} => Silent(c, named(p))
      /\ t.tok = "long" => Silent(c, named(Store(p, t)))
      /\ t.tok \notin {"/", "cr", "lf", "long"} => Silent(c, Store(p, t))
  BY DEF Method
<1>5. \A T, more, s : Stream(c, T, more, s) /\ At(p, s) =>
            Lost(p) \/ (Continued(p, s) /\ Mine(p, {p.grove, p.seg}))
  BY <1>1 DEF At
<1>6. \A T, more, s : Stream(c, T, more, s) /\ Continued(p, s) =>
            /\ t.id = p.msg[2]
            /\ stop # "lf" => Continued(p, Left(c, more))
  <2>1. CASE t.tok # "long"
    <3>1. Consume(c, 1)
      BY <1>2, <1>3, <2>1
    <3> QED
      BY <1>2, <2>1, <3>1, OneOn
  <2>2. CASE t.tok = "long"
    BY <1>2, <1>3, <2>2, SomeOn
  <2> QED
    BY <2>1, <2>2
<1> HIDE DEF stop
<1>7. NoSegment \in Segments /\ NoSegment.ids = {} /\ {"PRE_ARGS", "CHECK_ARGS"} \subseteq Stages
  BY DEF NoSegment, Segments, Names, Stages
<1>8. ASSUME NEW q \in Parsers, Silent(c, q), StageOK(q),
             \A T, more, s : Stream(c, T, more, s) /\ At(p, s) => At(q, Left(c, more))
      PROVE  Goes(c)
  <2>1. /\ parser' = [parser EXCEPT ![c] = parser'[c]] /\ parser'[c] = q
        /\ HistOK' /\ SameHist
    BY <1>8, PutIs
  <2> QED
    BY <1>8, <2>1 DEF Goes
\* The name is complete: u is the parser with its last token stored.
<1>9. ASSUME NEW u \in Parsers, u = [p EXCEPT !.seg = u.seg, !.mem = u.mem], Silent(c, named(u)),
             u.seg.ids \subseteq p.seg.ids \cup {t.id}
      PROVE  Goes(c)
  <2> DEFINE q == named(u)
  <2>1. u.window = "" /\ u.args = <<>> /\ u.msg = p.msg /\ u.grove = p.grove
    BY <1>1, <1>9 DEF Parsers
  <2>2. /\ q \in Parsers /\ q.stage = IF stop = "/" THEN "PRE_ARGS" ELSE "CHECK_ARGS"
        /\ q.window = "" /\ q.args = <<>> /\ q.msg = p.msg /\ q.grove = p.grove /\ q.method = u.seg
    BY <1>7, <1>9, <2>1 DEF Parsers
  <2>3. Silent(c, q)
    BY <1>9
  <2> HIDE DEF q
  <2>4. StageOK(q)
    BY <2>2 DEF StageOK
  <2>5. ASSUME NEW T, NEW more, NEW s, Stream(c, T, more, s), At(p, s)
        PROVE  At(q, Left(c, more))
    <3>1. CASE Lost(p)
      <4>1. Lost(q)
        BY <2>2, <3>1 DEF Lost
      <4> QED
        BY <2>2, <4>1 DEF At
    <3>2. CASE Continued(p, s) /\ Mine(p, {p.grove, p.seg})
      <4>1. t.id = p.msg[2] /\ (stop # "lf" => Continued(p, Left(c, more)))
        BY <1>6, <2>5, <3>2
      <4>2. Mine(q, {q.grove, q.method})
        BY <1>9, <2>2, <3>2, <4>1 DEF Mine
      <4>3. stop = "/" => Continued(q, Left(c, more))
        BY <2>2, <4>1 DEF Continued
      <4> QED
        BY <2>2, <4>2, <4>3 DEF At
    <3> QED
      BY <1>5, <2>5, <3>1, <3>2
  <2> QED
    BY <1>8, <2>2, <2>3, <2>4, <2>5
<1>10. CASE t.tok \in {"/", "cr", "lf"}
  <2>1. p = [p EXCEPT !.seg = p.seg, !.mem = p.mem]
    BY <1>1 DEF Parsers
  <2> QED
    BY <1>1, <1>4, <1>9, <1>10, <2>1
<1>11. /\ Store(p, t) \in Parsers
       /\ Store(p, t) = [p EXCEPT !.seg = Store(p, t).seg, !.mem = Store(p, t).mem]
       /\ Store(p, t).seg.ids = p.seg.ids \cup {t.id}
  BY <1>1, <1>2, StoreIs
<1>12. CASE t.tok = "long"
  BY <1>4, <1>9, <1>11, <1>12
<1>13. CASE t.tok \notin {"/", "cr", "lf", "long"}
  <2> DEFINE q == Store(p, t)
  <2>1. Silent(c, q)
    BY <1>4, <1>13
  <2>2. /\ q \in Parsers /\ q = [p EXCEPT !.seg = q.seg, !.mem = q.mem]
        /\ q.seg.ids = p.seg.ids \cup {t.id}
    BY <1>11
  <2> HIDE DEF q
  <2>3. /\ q.stage = "METHOD" /\ q.window = "" /\ q.args = <<>> /\ q.msg = p.msg
        /\ q.grove = p.grove
    BY <1>1, <2>2 DEF Parsers
  <2>4. StageOK(q)
    BY <2>3 DEF StageOK
  <2>5. ASSUME NEW T, NEW more, NEW s, Stream(c, T, more, s), At(p, s)
        PROVE  At(q, Left(c, more))
    <3>1. CASE Lost(p)
      <4>1. Lost(q)
        BY <2>3, <3>1 DEF Lost
      <4> QED
        BY <2>3, <4>1 DEF At
    <3>2. CASE Continued(p, s) /\ Mine(p, {p.grove, p.seg})
      <4>1. t.id = p.msg[2] /\ Continued(p, Left(c, more))
        BY <1>2, <1>6, <1>13, <2>5, <3>2
      <4>2. Mine(q, {q.grove, q.seg})
        BY <2>2, <2>3, <3>2, <4>1 DEF Mine
      <4>3. Continued(q, Left(c, more))
        BY <2>3, <4>1 DEF Continued
      <4> QED
        BY <2>3, <4>2, <4>3 DEF At
    <3> QED
      BY <1>5, <2>5, <3>1, <3>2
  <2> QED
    BY <1>8, <2>1, <2>2, <2>4, <2>5
<1> QED
  BY <1>10, <1>12, <1>13

\* What is left when a round reads nothing.
LEMMA Unread ==
    ASSUME NEW c, UNCHANGED rx, NEW T, NEW more, NEW s, Stream(c, T, more, s)
    PROVE  Left(c, more) = s
BY DEF Stream, Left

\* A resource's grove name is none that was too long.
LEMMA FoundIs ==
    ASSUME NEW c, Found(c)
    PROVE  ~Lost(parser[c]) /\ ArgTypes(c) \in Seq(STRING)
<1>1. Target(c) \in DOMAIN Resources /\ Target(c)[2] = parser[c].grove.val
  BY DEF Found, Target
<1> QED
  BY <1>1, RpcAssumption DEF Lost, ArgTypes

LEMMA CheckArgsGoes ==
    ASSUME TypeInv, StageInv, NEW c \in Channels, parser[c].stage = "CHECK_ARGS", CheckArgs(c)
    PROVE  Goes(c)
<1> DEFINE p == parser[c]
           q == [p EXCEPT !.stage = "CALL"]
<1>1. p \in Parsers /\ p.stage = "CHECK_ARGS" /\ p.window = "" /\ p.args = <<>>
  BY DEF TypeInv, StageInv, StageOK
<1>2. NotFound(c) \/ (Found(c) /\ ArgTypes(c) = <<>> /\ Silent(c, q))
  BY DEF CheckArgs
<1>3. CASE Found(c) /\ ArgTypes(c) = <<>> /\ Silent(c, q)
  <2>1. /\ parser' = [parser EXCEPT ![c] = parser'[c]] /\ parser'[c] = q
        /\ HistOK' /\ SameHist
    BY <1>3, PutIs
  <2>2. /\ q \in Parsers /\ q.stage = "CALL" /\ q.window = "" /\ q.args = <<>> /\ q.msg = p.msg
        /\ q.grove = p.grove /\ q.method = p.method /\ q.verb = p.verb
    BY <1>1 DEF Parsers, Stages
  <2> HIDE DEF q
  <2>3. StageOK(q)
    <3>1. /\ Target(c) = <<q.verb, q.grove.val, q.method.val>> /\ Target(c) \in DOMAIN Resources
          /\ Resources[Target(c)] = q.args
      BY <1>3, <2>2 DEF Found, Target, ArgTypes
    <3>2. Len(q.args) = 0
      BY <2>2, EmptySeq
    <3>3. Len(Resources[Target(c)]) <= Len(q.args)
      BY <3>1, <3>2
    <3> QED
      BY <2>2, <3>1, <3>3 DEF StageOK
  <2>4. ASSUME NEW T, NEW more, NEW s, Stream(c, T, more, s), At(p, s)
        PROVE  At(q, Left(c, more))
    <3>1. Mine(p, {p.grove, p.method})
      BY <1>1, <1>3, <2>4, FoundIs DEF At
    <3>2. Mine(q, {q.grove, q.method})
      BY <2>2, <3>1 DEF Mine
    <3>3. \A i \in 1..Len(q.args) : Mine(q, {q.args[i]})
      <4>1. Len(q.args) = 0
        BY <2>2, EmptySeq
      <4> QED
        BY <4>1
    <3> QED
      BY <2>2, <3>2, <3>3 DEF At
  <2> QED
    BY <2>1, <2>2, <2>3, <2>4 DEF Goes
<1> QED
  BY <1>2, <1>3, NotFoundGoes

LEMMA PreParseArgsGoes ==
    ASSUME TypeInv, StageInv, NEW c \in Channels, parser[c].stage = "PRE_ARGS", PreParseArgs(c)
    PROVE  Goes(c)
<1> DEFINE p == parser[c]
           q == [p EXCEPT !.stage = "ARGS", !.seg = NoSegment]
<1>1. p \in Parsers /\ p.stage = "PRE_ARGS" /\ p.window = "" /\ p.args = <<>>
  BY DEF TypeInv, StageInv, StageOK
<1>2. (NotFound(c) \/ (Found(c) /\ Silent(c, q))) /\ UNCHANGED rx
  BY DEF PreParseArgs
<1>3. CASE Found(c) /\ Silent(c, q)
  <2>1. /\ parser' = [parser EXCEPT ![c] = parser'[c]] /\ parser'[c] = q
        /\ HistOK' /\ SameHist
    BY <1>3, PutIs
  <2>2. NoSegment \in Segments /\ NoSegment.ids = {}
    BY DEF NoSegment, Segments, Names
  <2>3. /\ q \in Parsers /\ q.stage = "ARGS" /\ q.window = "" /\ q.args = <<>> /\ q.msg = p.msg
        /\ q.grove = p.grove /\ q.method = p.method /\ q.verb = p.verb /\ q.seg = NoSegment
    BY <1>1, <2>2 DEF Parsers, Stages
  <2> HIDE DEF q
  <2>4. StageOK(q)
    BY <1>3, <2>3 DEF StageOK, Found, Target, ArgTypes
  <2>5. ASSUME NEW T, NEW more, NEW s, Stream(c, T, more, s), At(p, s)
        PROVE  At(q, Left(c, more))
    <3>1. Continued(p, s) /\ Mine(p, {p.grove, p.method}) /\ Left(c, more) = s
      BY <1>1, <1>2, <1>3, <2>5, FoundIs, Unread DEF At
    <3>2. Continued(q, s) /\ Mine(q, {q.grove, q.method, q.seg})
      BY <2>2, <2>3, <3>1 DEF Continued, Mine
    <3>3. \A i \in 1..Len(q.args) : Mine(q, {q.args[i]})
      <4>1. Len(q.args) = 0
        BY <2>3, EmptySeq
      <4> QED
        BY <4>1
    <3> QED
      BY <2>3, <3>1, <3>2, <3>3 DEF At
  <2> QED
    BY <2>1, <2>3, <2>4, <2>5 DEF Goes
<1> QED
  BY <1>2, <1>3, NotFoundGoes


\* One more argument, or two, of the request that is being answered.
LEMMA GivenMine ==
    ASSUME NEW p \in Parsers, NEW g \in Segments, NEW x \in Seq(Segments),
           x = Append(p.args, g) \/ x = p.args \o <<g, g>>
    PROVE  (Mine(p, {g}) /\ \A i \in 1..Len(p.args) : Mine(p, {p.args[i]})) =>
               \A i \in 1..Len(x) : Mine(p, {x[i]})
<1>1. PICK l \in Nat : l = Len(p.args)
  <2>1. p.args \in Seq(Segments)
    BY DEF Parsers
  <2> QED
    BY <2>1, LenProperties
<1>2. p.args \in Seq(Segments) /\ <<g, g>> \in Seq(Segments) /\ Len(<<g, g>>) = 2
      /\ <<g, g>>[1] = g /\ <<g, g>>[2] = g
  <2>1. p.args \in Seq(Segments)
    BY DEF Parsers
  <2>2. <<g, g>> \in Seq(Segments) /\ Len(<<g, g>>) = 2 /\ <<g, g>>[1] = g /\ <<g, g>>[2] = g
    OBVIOUS
  <2> QED
    BY <2>1, <2>2
<1>3. ASSUME NEW i \in 1..Len(x) PROVE i \in 1..l \/ i \in l + 1..Len(x)
  BY <1>1
<1>4. ASSUME NEW i \in 1..l PROVE x[i] = p.args[i]
  BY <1>1, <1>2, <1>4
<1>5. ASSUME NEW i \in l + 1..Len(x) PROVE x[i] = g
  <2>1. CASE x = Append(p.args, g)
    <3>1. Len(x) = l + 1 /\ x[l + 1] = g
      BY <1>1, <1>2, <2>1
    <3>2. i = l + 1
      BY <1>1, <3>1
    <3> QED
      BY <3>1, <3>2
  <2>2. CASE x = p.args \o <<g, g>>
    <3>1. Len(x) = l + 2
      BY <1>1, <1>2, <2>2
    <3>2. i - l \in 1..2 /\ l + (i - l) = i /\ (i - l = 1 \/ i - l = 2)
      BY <1>1, <3>1
    <3>3. \A k \in 1..2 : x[l + k] = <<g, g>>[k]
      BY <1>1, <1>2, <2>2, Joined
    <3> QED
      BY <1>2, <3>2, <3>3
  <2> QED
    BY <2>1, <2>2
<1>6. ASSUME Mine(p, {g}), \A i \in 1..Len(p.args) : Mine(p, {p.args[i]}), NEW i \in 1..Len(x)
      PROVE  Mine(p, {x[i]})
  BY <1>1, <1>3, <1>4, <1>5, <1>6
<1> QED
  BY <1>6

LEMMA ParseArgsGoes ==
    ASSUME TypeInv, StageInv, NEW c \in Channels, parser[c].stage = "ARGS",
           rx[c] # <<>>, ~(Stops(c) # {} /\ Skip(c) = 0), ParseArgs(c)
    PROVE  Goes(c)
<1> DEFINE o == parser[c]
           t == Peek(c, 1)
           stop == Peek(c, Skip(c)).tok
           p == IF t.tok = "long" THEN Store(o, t) ELSE o
           given == IF t.tok = "long" /\ stop = "/" THEN p.args \o <<p.seg, p.seg>>
                                                   ELSE Append(p.args, p.seg)
           more_ == [p EXCEPT !.args = given, !.seg = NoSegment]
           ends == t.tok = "long" \/ t.tok \in {"cr", "lf"}
<1>1. o \in Parsers /\ o.stage = "ARGS" /\ o.window = "" /\ Target(c) \in DOMAIN Resources
  BY DEF TypeInv, StageInv, StageOK, Target
<1>2. /\ t \in Token /\ Skip(c) # 0
      /\ t.tok # "long" => Skip(c) = 1 /\ stop = t.tok
      /\ t.tok = "long" => LineEnd \subseteq Stops(c)
  BY SkipWithin DEF Stops, LineEnd
<1>3. Consume(c, Skip(c))
  BY DEF ParseArgs
<1>4. \/ NotFound(c)
      \/ ends /\ ~Missing(c, Len(given), p.seg) /\ Silent(c, [more_ EXCEPT !.stage = "CALL"])
      \/ ~ends /\ t.tok = "/" /\ Silent(c, more_)
      \/ ~ends /\ t.tok # "/" /\ Silent(c, Store(p, t))
  BY DEF ParseArgs
<1>5. \A T, more, s : Stream(c, T, more, s) /\ At(o, s) =>
            /\ Continued(o, s) /\ Mine(o, {o.grove, o.method, o.seg})
            /\ \A i \in 1..Len(o.args) : Mine(o, {o.args[i]})
            /\ t.id = o.msg[2]
            /\ stop # "lf" => Continued(o, Left(c, more))
  <2>1. ASSUME NEW T, NEW more, NEW s, Stream(c, T, more, s), Continued(o, s)
        PROVE  t.id = o.msg[2] /\ (stop # "lf" => Continued(o, Left(c, more)))
    <3>1. CASE t.tok # "long"
      <4>1. Consume(c, 1)
        BY <1>2, <1>3, <3>1
      <4> QED
        BY <1>2, <2>1, <3>1, <4>1, OneOn
    <3>2. CASE t.tok = "long"
      BY <1>2, <1>3, <2>1, <3>2, SomeOn
    <3> QED
      BY <3>1, <3>2
  <2> QED
    BY <1>1, <2>1 DEF At
<1> HIDE DEF stop
<1>6. NoSegment \in Segments /\ NoSegment.ids = {} /\ "CALL" \in Stages
  BY DEF NoSegment, Segments, Names, Stages
<1>7. /\ Store(o, t) \in Parsers
      /\ Store(o, t) = [o EXCEPT !.seg = Store(o, t).seg, !.mem = Store(o, t).mem]
      /\ Store(o, t).seg.ids = o.seg.ids \cup {t.id}
  BY <1>1, <1>2, StoreIs
<1>8. /\ p \in Parsers /\ p = [o EXCEPT !.seg = p.seg, !.mem = p.mem]
      /\ p.seg.ids \subseteq o.seg.ids \cup {t.id}
  <2>1. o = [o EXCEPT !.seg = o.seg, !.mem = o.mem]
    BY <1>1 DEF Parsers
  <2> QED
    BY <1>1, <1>7, <2>1
<1>9. ~ends => p = o
  OBVIOUS
<1> HIDE DEF p
<1>10. /\ p.stage = "ARGS" /\ p.window = "" /\ p.msg = o.msg /\ p.args = o.args
       /\ p.verb = o.verb /\ p.grove = o.grove /\ p.method = o.method /\ p.seg \in Segments
       /\ p.args \in Seq(Segments)
  BY <1>1, <1>8 DEF Parsers
<1>11. /\ given \in Seq(Segments)
       /\ (Mine(p, {p.seg}) /\ \A i \in 1..Len(p.args) : Mine(p, {p.args[i]})) =>
            \A i \in 1..Len(given) : Mine(p, {given[i]})
  <2>1. given = Append(p.args, p.seg) \/ given = p.args \o <<p.seg, p.seg>>
    OBVIOUS
  <2>2. given \in Seq(Segments)
    <3> DEFINE g == p.seg
               a == p.args
    <3>1. g \in Segments /\ a \in Seq(Segments) /\ (given = Append(a, g) \/ given = a \o <<g, g>>)
      BY <1>10, <2>1
    <3> HIDE DEF g, a, given
    <3>2. Append(a, g) \in Seq(Segments) /\ <<g, g>> \in Seq(Segments)
      BY <3>1
    <3>3. a \o <<g, g>> \in Seq(Segments)
      BY <3>1, <3>2
    <3> QED
      BY <3>1, <3>2, <3>3
  <2> HIDE DEF given
  <2> QED
    BY <1>8, <1>10, <2>1, <2>2, GivenMine
<1> HIDE DEF given
<1>12. ASSUME NEW q \in Parsers, Silent(c, q), StageOK(q),
              \A T, more, s : Stream(c, T, more, s) /\ At(o, s) => At(q, Left(c, more))
       PROVE  Goes(c)
  <2>1. /\ parser' = [parser EXCEPT ![c] = parser'[c]] /\ parser'[c] = q
        /\ HistOK' /\ SameHist
    BY <1>12, PutIs
  <2>2. \A T, more, s : Stream(c, T, more, s) /\ At(parser[c], s) => At(q, Left(c, more))
    BY <1>12
  <2>3. parser'[c] \in Parsers /\ StageOK(parser'[c])
    BY <1>12, <2>1
  <2> QED
    BY <2>1, <2>2, <2>3 DEF Goes
\* The argument is complete: its segment joins those before it.
<1>13. ASSUME NEW T, NEW more, NEW s, Stream(c, T, more, s), At(o, s), NEW q,
              q.msg = o.msg, q.args = given
       PROVE  \A i \in 1..Len(q.args) : Mine(q, {q.args[i]})
  <2>1. Mine(o, {o.seg}) /\ t.id = o.msg[2] /\ \A i \in 1..Len(o.args) : Mine(o, {o.args[i]})
    BY <1>5, <1>13 DEF Mine
  <2>2. Mine(p, {p.seg}) /\ \A i \in 1..Len(p.args) : Mine(p, {p.args[i]})
    <3>1. p.msg = o.msg /\ p.args = o.args /\ p.seg.ids \subseteq o.seg.ids \cup {t.id}
      BY <1>8, <1>10
    <3> QED
      BY <2>1, <3>1 DEF Mine
  <2>3. \A i \in 1..Len(given) : Mine(p, {given[i]})
    BY <1>11, <2>2
  <2> QED
    BY <1>10, <1>13, <2>3 DEF Mine
<1>14. CASE ends /\ ~Missing(c, Len(given), p.seg) /\ Silent(c, [more_ EXCEPT !.stage = "CALL"])
  <2> DEFINE q == [more_ EXCEPT !.stage = "CALL"]
  <2>1. /\ q \in Parsers /\ q.stage = "CALL" /\ q.window = "" /\ q.msg = o.msg /\ q.args = given
        /\ q.grove = o.grove /\ q.method = o.method /\ q.verb = o.verb
    BY <1>6, <1>8, <1>10, <1>11 DEF Parsers
  <2>2. Silent(c, q)
    BY <1>14
  <2> HIDE DEF q
  <2>3. StageOK(q)
    <3>1. ~(Len(ArgTypes(c)) > Len(given))
      BY <1>14 DEF Missing
    <3>2. ArgTypes(c) = Resources[Target(c)] /\ Target(c) = <<q.verb, q.grove.val, q.method.val>>
      BY <2>1 DEF ArgTypes, Target
    <3>3. ArgTypes(c) \in Seq(STRING)
      BY <1>1, RpcAssumption DEF ArgTypes
    <3>4. Len(ArgTypes(c)) <= Len(given)
      BY <1>11, <3>1, <3>3
    <3> QED
      BY <1>1, <2>1, <3>2, <3>4 DEF StageOK
  <2>4. ASSUME NEW T, NEW more, NEW s, Stream(c, T, more, s), At(o, s)
        PROVE  At(q, Left(c, more))
    <3>1. \A i \in 1..Len(q.args) : Mine(q, {q.args[i]})
      BY <1>13, <2>1, <2>4
    <3>2. Mine(o, {o.grove, o.method, o.seg})
      BY <1>5, <2>4
    <3>3. Mine(q, {q.grove, q.method})
      BY <2>1, <3>2 DEF Mine
    <3> QED
      BY <2>1, <3>1, <3>3 DEF At
  <2> QED
    BY <1>12, <2>1, <2>2, <2>3, <2>4
<1>15. CASE ~ends /\ t.tok = "/" /\ Silent(c, more_)
  <2> DEFINE q == more_
  <2>1. /\ q \in Parsers /\ q.stage = "ARGS" /\ q.window = "" /\ q.msg = o.msg /\ q.args = given
        /\ q.grove = o.grove /\ q.method = o.method /\ q.verb = o.verb /\ q.seg = NoSegment
    BY <1>6, <1>8, <1>10, <1>11 DEF Parsers
  <2>2. Silent(c, q)
    BY <1>15
  <2> HIDE DEF q
  <2>3. StageOK(q)
    BY <1>1, <2>1 DEF StageOK, Target
  <2>4. ASSUME NEW T, NEW more, NEW s, Stream(c, T, more, s), At(o, s)
        PROVE  At(q, Left(c, more))
    <3>1. \A i \in 1..Len(q.args) : Mine(q, {q.args[i]})
      BY <1>13, <2>1, <2>4
    <3>2. Mine(o, {o.grove, o.method, o.seg}) /\ Continued(o, Left(c, more))
      BY <1>2, <1>5, <1>15, <2>4
    <3>3. Mine(q, {q.grove, q.method, q.seg}) /\ Continued(q, Left(c, more))
      BY <1>6, <2>1, <3>2 DEF Mine, Continued
    <3> QED
      BY <2>1, <3>1, <3>3 DEF At
  <2> QED
    BY <1>12, <2>1, <2>2, <2>3, <2>4
<1>16. CASE ~ends /\ t.tok # "/" /\ Silent(c, Store(p, t))
  <2> DEFINE q == Store(o, t)
  <2>1. Silent(c, q)
    BY <1>9, <1>16
  <2>2. /\ q \in Parsers /\ q = [o EXCEPT !.seg = q.seg, !.mem = q.mem]
        /\ q.seg.ids = o.seg.ids \cup {t.id}
    BY <1>7
  <2> HIDE DEF q
  <2>3. /\ q.stage = "ARGS" /\ q.window = "" /\ q.msg = o.msg /\ q.args = o.args
        /\ q.grove = o.grove /\ q.method = o.method /\ q.verb = o.verb
    BY <1>1, <2>2 DEF Parsers
  <2>4. StageOK(q)
    BY <1>1, <2>3 DEF StageOK, Target
  <2>5. ASSUME NEW T, NEW more, NEW s, Stream(c, T, more, s), At(o, s)
        PROVE  At(q, Left(c, more))
    <3>1. /\ Mine(o, {o.grove, o.method, o.seg}) /\ Continued(o, Left(c, more)) /\ t.id = o.msg[2]
          /\ \A i \in 1..Len(o.args) : Mine(o, {o.args[i]})
      BY <1>2, <1>5, <1>16, <2>5
    <3>2. Mine(q, {q.grove, q.method, q.seg}) /\ Continued(q, Left(c, more))
      BY <2>2, <2>3, <3>1 DEF Mine, Continued
    <3>3. \A i \in 1..Len(q.args) : Mine(q, {q.args[i]})
      BY <2>3, <3>1 DEF Mine
    <3> QED
      BY <2>3, <3>2, <3>3 DEF At
  <2> QED
    BY <1>12, <2>1, <2>2, <2>4, <2>5
<1> QED
  BY <1>4, <1>14, <1>15, <1>16, NotFoundGoes


LEMMA OpenedIs ==
    ASSUME NEW p \in Parsers, NEW verb \in {"GET", "POST"},
           NEW msg \in {"none", "reply", "phantom"} \X Nat
    PROVE  [p EXCEPT !.stage = "GROVE_NAME", !.verb = verb, !.window = "",
                     !.seg = NoSegment, !.msg = msg, !.args = <<>>] \in Parsers
<1>1. NoSegment \in Segments /\ "GROVE_NAME" \in Stages /\ <<>> \in Seq(Segments)
  BY DEF NoSegment, Segments, Names, Stages
<1> QED
  BY <1>1 DEF Parsers

\* The request type is read and the root after it, or not (Root reads n tokens, of
\* which the last but one is the request type's, or the separator behind it).
LEMMA RootGoes ==
    ASSUME TypeInv, NEW c \in Channels, rx[c] # <<>>, parser[c].stage = "REQ_TYPE",
           NEW verb \in {"GET", "POST"}, NEW n \in {1, 2, 3}, Root(c, verb, n),
           n = 1 => Multi(Peek(c, 1)), n = 2 => ~Multi(Peek(c, 1)) \/ Multi(Peek(c, 2)),
           n = 3 => ~Multi(Peek(c, 2))
    PROVE  Goes(c)
<1> DEFINE p == parser[c]
           found == Peek(c, n).tok = "/"
           msg == <<IF p.phantom THEN "phantom" ELSE "reply", Peek(c, 1).id>>
           q == parser'[c]
           hit == [p EXCEPT !.stage = "GROVE_NAME", !.verb = verb, !.window = "",
                            !.seg = NoSegment, !.msg = msg, !.args = <<>>]
           none == [p EXCEPT !.window = "", !.phantom = FALSE]
<1>1. p \in Parsers /\ p.stage = "REQ_TYPE" /\ parser \in [Channels -> Parsers]
  BY DEF TypeInv
<1>2. /\ Consume(c, n)
      /\ parser' = [parser EXCEPT ![c] = IF found THEN hit ELSE none]
      /\ \E v : hist' = [hist EXCEPT !.cut = v]
  BY DEF Root
<1>3. q = (IF found THEN hit ELSE none) /\ parser' = [parser EXCEPT ![c] = q]
  BY <1>1, <1>2
<1>4. HistOK' /\ SameHist
  BY <1>2, HistKept
<1>5. n \in Nat \ {0}
  OBVIOUS
<1>6. CASE ~found
  <2>1. /\ none \in Parsers /\ none.stage = "REQ_TYPE" /\ none.window = "" /\ none = q
    BY <1>1, <1>3, <1>6 DEF Parsers
  <2>2. StageOK(q) /\ \A s : At(q, s)
    BY <2>1 DEF StageOK, At
  <2> QED
    BY <1>3, <1>4, <2>1, <2>2 DEF Goes
<1>7. CASE found
  <2>1. NoSegment \in Segments /\ NoSegment.ids = {} /\ "GROVE_NAME" \in Stages /\ <<>> \in Seq(Segments)
    BY DEF NoSegment, Segments, Names, Stages
  <2>2. msg \in {"none", "reply", "phantom"} \X Nat /\ msg[2] = Peek(c, 1).id
    <3>1. Peek(c, 1) \in Token
      BY PeekIs
    <3> QED
      BY <3>1 DEF Token
  <2> HIDE DEF msg
  <2>3. q = hit
    BY <1>3, <1>7
  <2>4. /\ q \in Parsers /\ q.stage = "GROVE_NAME" /\ q.window = "" /\ q.args = <<>>
        /\ q.msg = msg /\ q.seg = NoSegment
    <3>1. q \in Parsers
      <4>1. hit \in Parsers
        BY <1>1, <2>2, OpenedIs
      <4> HIDE DEF hit, q
      <4> QED
        BY <2>3, <4>1
    <3>2. q.stage = "GROVE_NAME" /\ q.window = "" /\ q.args = <<>> /\ q.msg = msg /\ q.seg = NoSegment
      BY <1>1, <2>3 DEF Parsers
    <3> QED
      BY <3>1, <3>2
  <2> HIDE DEF q
  <2>5. StageOK(q)
    BY <2>4 DEF StageOK
  <2>6. ASSUME NEW T, NEW more, NEW s, Stream(c, T, more, s)
        PROVE  At(q, Left(c, more))
    <3>1. Peek(c, n) # Nul
      BY <1>7 DEF Nul
    <3>2. /\ n \in 1..Len(rx[c]) /\ Peek(c, n) = s[n]
          /\ \A j \in 1..n : j \in 1..Len(rx[c]) /\ j \in 1..Len(s) /\ Peek(c, j) = s[j]
      BY <1>5, <2>6, <3>1, PeekAhead
    <3>3. s \in Seq(Token) /\ Whole(T, s) /\ \A t \in T : GoodText(t)
      BY <2>6 DEF Stream, TypeInv
    \* A token that begins no message is of the same one as the token before it.
    <3>4. ASSUME NEW k \in 1..Len(s), k + 1 \in 1..Len(s), s[k + 1].tok \in Separators
          PROVE  s[k].id # 0 /\ s[k + 1].id = s[k].id
      <4>1. ~Begins(s[k + 1])
        BY <3>4 DEF Begins, Separators, Keywords
      <4> QED
        BY <3>3, <3>4, <4>1, Inside
    <3>5. s[n].tok = "/" /\ s[n].tok \in Separators
      BY <1>7, <3>2 DEF Separators
    <3>6. s[n].id # 0 /\ s[n].id = s[1].id /\ s[1] = Peek(c, 1)
      <4>1. CASE n = 1
        BY <3>2, <3>5, <4>1 DEF Multi
      <4>2. CASE n = 2
        <5>1. 1 \in 1..Len(s) /\ 1 + 1 \in 1..Len(s) /\ 1 + 1 = 2 /\ s[1] = Peek(c, 1)
          BY <3>2, <4>2
        <5> QED
          BY <3>4, <3>5, <4>2, <5>1
      <4>3. CASE n = 3
        <5>1. /\ 1 \in 1..Len(s) /\ 2 \in 1..Len(s) /\ 3 \in 1..Len(s) /\ 1 + 1 = 2 /\ 2 + 1 = 3
              /\ s[1] = Peek(c, 1) /\ s[2] = Peek(c, 2)
          BY <3>2, <4>3
        <5>2. s[2].tok \in Separators
          BY <4>3, <5>1 DEF Multi
        <5>3. s[2].id # 0 /\ s[3].id = s[2].id
          BY <3>4, <3>5, <4>3, <5>1
        <5>4. s[1].id # 0 /\ s[2].id = s[1].id
          BY <3>4, <5>1, <5>2
        <5> QED
          BY <4>3, <5>1, <5>3, <5>4
      <4> QED
        BY <4>1, <4>2, <4>3
    <3>7. Left(c, more) # <<>> /\ Left(c, more)[1].id = s[n].id
      BY <1>2, <2>6, <3>2, <3>5, <3>6, After
    <3>8. Continued(q, Left(c, more)) /\ Mine(q, {q.seg})
      BY <2>1, <2>2, <2>4, <3>6, <3>7 DEF Continued, Mine
    <3> QED
      BY <2>4, <3>8 DEF At
  <2> QED
    BY <1>3, <1>4, <2>4, <2>5, <2>6 DEF Goes, q
<1> QED
  BY <1>6, <1>7


\* The token a round reads is the first of the stream; the others follow.
LEMMA FirstRead ==
    ASSUME TypeInv, NEW c \in Channels, rx[c] # <<>>, Consume(c, 1),
           NEW T, NEW more, NEW s, Stream(c, T, more, s)
    PROVE  /\ s \in Seq(Token) /\ s # <<>> /\ s[1] = Peek(c, 1)
           /\ 2 <= Len(s) => Left(c, more) # <<>> /\ Left(c, more)[1] = s[2]
           /\ 3 <= Len(s) => /\ 2 <= Len(Left(c, more))
                             /\ Left(c, more)[1] = s[2] /\ Left(c, more)[2] = s[3]
<1> DEFINE r == Left(c, more)
<1>1. rx[c] \in Seq(Token) /\ 1 \in 1..Len(rx[c]) /\ 1 <= Len(rx[c]) /\ 1 \in Nat \ {0} /\ 1 \in Nat
  BY DEF TypeInv
<1>2. /\ s \in Seq(Token) /\ r \in Seq(Token)
      /\ \A k \in 1..Len(rx[c]) : k \in 1..Len(s) /\ s[k] = rx[c][k]
      /\ 1 <= Len(rx[c]) => Len(r) = Len(s) - 1 /\ \A k \in 1..(Len(s) - 1) : r[k] = s[1 + k]
  BY <1>1, Reading
<1> HIDE DEF r
<1>3. Peek(c, 1) = rx[c][1]
  BY <1>1, PeekIs
<1>4. PICK l \in Nat : l = Len(s)
  BY <1>2, LenProperties
<1>5. s # <<>> /\ s[1] = Peek(c, 1)
  BY <1>1, <1>2, <1>3
<1>6. ASSUME 2 <= l PROVE r # <<>> /\ r[1] = s[2]
  <2>1. 1 \in 1..(l - 1) /\ 1 + 1 = 2 /\ l - 1 # 0
    BY <1>6
  <2>2. r[1] = s[2] /\ Len(r) # 0
    BY <1>1, <1>2, <1>4, <2>1
  <2> QED
    BY <2>2, EmptySeq
<1>7. ASSUME 3 <= l PROVE 2 <= Len(r) /\ r[1] = s[2] /\ r[2] = s[3]
  <2>1. 1 \in 1..(l - 1) /\ 2 \in 1..(l - 1) /\ 1 + 1 = 2 /\ 1 + 2 = 3 /\ 2 <= l - 1
    BY <1>7
  <2> QED
    BY <1>1, <1>2, <1>4, <2>1
<1> QED
  BY <1>2, <1>4, <1>5, <1>6, <1>7 DEF r

LEMMA ReqTypeGoes ==
    ASSUME TypeInv, StageInv, NEW c \in Channels, parser[c].stage = "REQ_TYPE",
           rx[c] # <<>>, ReqType(c)
    PROVE  Goes(c)
<1> DEFINE p == parser[c]
           t == Peek(c, 1)
           hit == Match(p, t)
           next == [p EXCEPT !.window = "", !.phantom = FALSE]
           msg == <<IF p.phantom THEN "phantom" ELSE "reply", t.id>>
           ota == [next EXCEPT !.stage = "OTA", !.phantom = p.phantom]
           app == [next EXCEPT !.stage = "APP_NUM", !.msg = msg]
           other == [next EXCEPT !.window = IF t.tok \in Keywords THEN t.tok ELSE ""]
<1>1. /\ p \in Parsers /\ p.stage = "REQ_TYPE" /\ p.window \in Keywords \cup {""}
      /\ p.phantom \in BOOLEAN
  BY DEF TypeInv, Parsers
<1>2. t \in Token /\ 1 \in 1..Len(rx[c]) /\ t = rx[c][1]
  <2>1. rx[c] \in Seq(Token) /\ 1 \in 1..Len(rx[c]) /\ 1 <= Len(rx[c])
    BY DEF TypeInv
  <2> QED
    BY <2>1, PeekIs
<1>3. /\ next \in Parsers /\ next.stage = "REQ_TYPE" /\ next.window = "" /\ next.phantom = FALSE
      /\ next.msg = p.msg
  BY <1>1 DEF Parsers
<1>4. msg \in {"none", "reply", "phantom"} \X Nat /\ (~p.phantom => msg[1] # "phantom")
      /\ (msg[1] # "phantom" => ~p.phantom)
  BY <1>1, <1>2 DEF Token
<1> HIDE DEF msg, next
<1>5. ASSUME NEW T, NEW more, NEW s, Stream(c, T, more, s), Consume(c, 1)
      PROVE  /\ s \in Seq(Token) /\ s # <<>> /\ s[1] = t
             /\ 2 <= Len(s) => Left(c, more) # <<>> /\ Left(c, more)[1] = s[2]
             /\ 3 <= Len(s) => /\ 2 <= Len(Left(c, more))
                               /\ Left(c, more)[1] = s[2] /\ Left(c, more)[2] = s[3]
  BY <1>5, FirstRead
\* A request type that is no phantom has its line's end behind it.
<1>6. ASSUME NEW T, NEW more, NEW s, Stream(c, T, more, s), At(p, s), Consume(c, 1),
             p.window # "", ~p.phantom
      PROVE  Left(c, more) # <<>> /\ Left(c, more)[1].id # 0
  <2>1. 2 <= Len(s) /\ s[2].id # 0
    BY <1>1, <1>6 DEF At
  <2> QED
    BY <1>5, <1>6, <2>1
<1>7. CASE hit = "GET"
  <2>1. Root(c, "GET", IF Multi(t) THEN 1 ELSE 2)
    BY <1>7 DEF ReqType
  <2>2. CASE Multi(t)
    BY <2>1, <2>2, RootGoes
  <2>3. CASE ~Multi(t)
    BY <2>1, <2>3, RootGoes
  <2> QED
    BY <2>2, <2>3
<1>8. CASE hit = "POST"
  <2>1. Root(c, "POST", IF Multi(Peek(c, 2)) THEN 2 ELSE 3)
    BY <1>8 DEF ReqType
  <2>2. CASE Multi(Peek(c, 2))
    BY <2>1, <2>2, RootGoes
  <2>3. CASE ~Multi(Peek(c, 2))
    BY <2>1, <2>3, RootGoes
  <2> QED
    BY <2>2, <2>3
<1>9. hit \in {"OTA", "APP"} => p.window # ""
  BY DEF Match
<1>10. CASE hit = "OTA"
  <2>1. Consume(c, 1) /\ \E m, a, w : Reply(c, ota, m, a, w)
    BY <1>10 DEF ReqType, next
  <2>2. /\ parser' = [parser EXCEPT ![c] = parser'[c]] /\ parser'[c] = ota
        /\ HistOK' /\ SameHist
    BY <2>1, PutIs
  <2>3. /\ ota \in Parsers /\ ota.stage = "OTA" /\ ota.window = "" /\ ota.phantom = p.phantom
    BY <1>1, <1>3 DEF Parsers, Stages
  <2> HIDE DEF ota
  <2>4. StageOK(ota)
    BY <2>3 DEF StageOK
  <2>5. ASSUME NEW T, NEW more, NEW s, Stream(c, T, more, s), At(p, s)
        PROVE  At(ota, Left(c, more))
    BY <1>6, <1>9, <1>10, <2>1, <2>3, <2>5 DEF At
  <2> QED
    BY <2>2, <2>3, <2>4, <2>5 DEF Goes
<1>11. CASE hit = "APP"
  <2>1. Consume(c, 1) /\ \E m, a, w : Reply(c, app, m, a, w)
    BY <1>11 DEF ReqType, next, msg
  <2>2. /\ parser' = [parser EXCEPT ![c] = parser'[c]] /\ parser'[c] = app
        /\ HistOK' /\ SameHist
    BY <2>1, PutIs
  <2>3. /\ app \in Parsers /\ app.stage = "APP_NUM" /\ app.window = "" /\ app.msg = msg
    BY <1>1, <1>3, <1>4 DEF Parsers, Stages
  <2> HIDE DEF app
  <2>4. StageOK(app)
    BY <2>3 DEF StageOK
  <2>5. ASSUME NEW T, NEW more, NEW s, Stream(c, T, more, s), At(p, s)
        PROVE  At(app, Left(c, more))
    BY <1>4, <1>6, <1>9, <1>11, <2>1, <2>3, <2>5 DEF At
  <2> QED
    BY <2>2, <2>3, <2>4, <2>5 DEF Goes
<1>12. CASE hit \notin {"GET", "POST", "OTA", "APP"}
  <2>1. Consume(c, 1) /\ Silent(c, other)
    BY <1>12 DEF ReqType, next
  <2>2. /\ parser' = [parser EXCEPT ![c] = parser'[c]] /\ parser'[c] = other
        /\ HistOK' /\ SameHist
    BY <2>1, PutIs
  <2>3. /\ other \in Parsers /\ other.stage = "REQ_TYPE" /\ other.phantom = FALSE
        /\ other.window = IF t.tok \in Keywords THEN t.tok ELSE ""
    BY <1>1, <1>3 DEF Parsers
  <2> HIDE DEF other
  <2>4. StageOK(other)
    BY <2>3 DEF StageOK
  <2>5. ASSUME NEW T, NEW more, NEW s, Stream(c, T, more, s), At(p, s), t.tok \in Keywords
        PROVE  LET r == Left(c, more) IN 2 <= Len(r) /\ r[1].id # 0 /\ r[2].id # 0
    <3>1. Whole(T, s) /\ \A x \in T : GoodText(x)
      BY <2>5 DEF Stream
    <3>2. s \in Seq(Token) /\ s # <<>> /\ s[1].tok \in Keywords
      BY <1>5, <2>1, <2>5
    <3>3. 3 <= Len(s) /\ s[2].id # 0 /\ s[3].id # 0
      BY <3>1, <3>2, KeywordAhead
    <3> QED
      BY <1>5, <2>1, <2>5, <3>3
  <2>6. ASSUME NEW T, NEW more, NEW s, Stream(c, T, more, s), At(p, s)
        PROVE  At(other, Left(c, more))
    BY <2>3, <2>5, <2>6 DEF At
  <2> QED
    BY <2>2, <2>3, <2>4, <2>6 DEF Goes
<1> QED
  BY <1>7, <1>8, <1>10, <1>11, <1>12

LEMMA PrintWellKnownGoes ==
    ASSUME TypeInv, NEW c \in Channels, PrintWellKnown(c)
    PROVE  Goes(c)
<1>1. parser[c] \in Parsers
  BY DEF TypeInv
<1>2. /\ parser' = [parser EXCEPT ![c] = parser'[c]] /\ parser'[c] = BackToReqType(parser[c])
      /\ HistOK' /\ SameHist
  BY PutIs DEF PrintWellKnown
<1> QED
  BY <1>1, <1>2, BackAt DEF Goes

LEMMA GetAppNumGoes ==
    ASSUME TypeInv, StageInv, NEW c \in Channels, parser[c].stage = "APP_NUM", GetAppNum(c)
    PROVE  Goes(c)
<1> DEFINE p == parser[c]
           q == [p EXCEPT !.stage = "REQ_TYPE", !.msg = NoMsg]
<1>1. p \in Parsers /\ p.window = ""
  BY DEF TypeInv, StageInv, StageOK
<1>2. /\ parser' = [parser EXCEPT ![c] = parser'[c]] /\ parser'[c] = q
      /\ HistOK' /\ SameHist
  BY PutIs DEF GetAppNum
<1>3. q \in Parsers /\ q.stage = "REQ_TYPE" /\ q.window = ""
  <2>1. NoMsg \in {"none", "reply", "phantom"} \X Nat /\ "REQ_TYPE" \in Stages
    BY DEF NoMsg, Stages
  <2> QED
    BY <1>1, <2>1 DEF Parsers
<1> HIDE DEF q
<1>4. StageOK(q) /\ \A s : At(q, s)
  BY <1>3 DEF StageOK, At
<1> QED
  BY <1>2, <1>3, <1>4 DEF Goes

LEMMA DiveIntoOtaGoes ==
    ASSUME TypeInv, StageInv, NEW c \in Channels, parser[c].stage = "OTA", DiveIntoOta(c)
    PROVE  Goes(c) /\ hist'.updates # <<>>
<1> DEFINE p == parser[c]
           q == [p EXCEPT !.stage = "REQ_TYPE", !.phantom = FALSE]
           u == [asked |-> ~p.phantom, on |-> c]
<1>1. p \in Parsers /\ p.window = "" /\ p.phantom \in BOOLEAN /\ parser \in [Channels -> Parsers]
  BY DEF TypeInv, StageInv, StageOK, Parsers
<1>2. parser' = [parser EXCEPT ![c] = q] /\ parser'[c] = q
  BY <1>1 DEF DiveIntoOta
<1>3. PICK v : hist' = [hist EXCEPT !.cut = v, !.updates = Append(hist.updates, u)]
  BY DEF DiveIntoOta
<1>4. HistOK
  BY DEF TypeInv
<1>5. u \in [asked : BOOLEAN, on : Channels]
  BY <1>1
<1> HIDE DEF u
<1>6. /\ Append(hist.updates, u) \in Seq([asked : BOOLEAN, on : Channels])
      /\ Append(hist.updates, u) # <<>>
  BY <1>4, <1>5, AppendProperties DEF HistOK
<1>7. hist'.updates = Append(hist.updates, u)
  BY <1>3, <1>4 DEF HistOK
<1>8. HistOK' /\ SameHist
  BY <1>3, <1>4, <1>6, <1>7 DEF HistOK, SameHist
<1>9. q \in Parsers /\ q.stage = "REQ_TYPE" /\ q.window = ""
  BY <1>1 DEF Parsers, Stages
<1> HIDE DEF q
<1>10. StageOK(q) /\ \A s : At(q, s)
  BY <1>9 DEF StageOK, At
<1> QED
  BY <1>2, <1>6, <1>7, <1>8, <1>9, <1>10 DEF Goes


\* What is true of a call whatever was received.
Given(call) ==
    /\ Len(call.given) >= Len(call.types)
    /\ \A i \in DOMAIN call.types :
        call.types[i] # "str" \/ i = Len(call.given) => call.passed[i] = call.given[i]

Called(c) ==
    /\ calls' = [calls EXCEPT ![c] = calls'[c]] /\ Given(calls'[c][1])
    /\ \A s : At(parser[c], s) => Cardinality(calls'[c][1].ids) = 1

LEMMA ParseCallGoes ==
    ASSUME TypeInv, StageInv, NEW c \in Channels, parser[c].stage = "CALL", ParseCall(c)
    PROVE  Goes(c) /\ Called(c)
<1> DEFINE p == parser[c]
           types == ArgTypes(c)
           given == [i \in DOMAIN p.args |-> p.args[i].val]
           passed == Passed(types, p.args)
           ids == {p.msg[2]} \cup UNION {s.ids : s \in {p.grove, p.method} \cup ToSet(p.args)}
           call == [ids |-> ids, types |-> types, given |-> given, passed |-> passed]
<1>1. /\ p \in Parsers /\ p.stage = "CALL" /\ p.args \in Seq(Segments)
      /\ Target(c) \in DOMAIN Resources /\ Len(Resources[Target(c)]) <= Len(p.args)
  BY DEF TypeInv, StageInv, StageOK, Target, Parsers
<1>2. SubSeq(p.args, 1, Len(p.args)) = p.args
  BY <1>1, SubSeqFull
<1>3. calls' = [calls EXCEPT ![c] = <<call>>]
  BY <1>2 DEF ParseCall
<1>4. \E ok \in BOOLEAN : \E a, w : Reply(c, BackToReqType(p), p.msg, a, w)
  BY DEF ParseCall
<1>5. Goes(c)
  <2>1. /\ parser' = [parser EXCEPT ![c] = parser'[c]] /\ parser'[c] = BackToReqType(p)
        /\ HistOK' /\ SameHist
    BY <1>4, PutIs
  <2> QED
    BY <1>1, <2>1, BackAt DEF Goes
<1>6. calls' = [calls EXCEPT ![c] = calls'[c]] /\ calls'[c] = <<call>>
  <2>1. calls = [d \in Channels |-> calls[d]]
    BY DEF TypeInv
  <2> QED
    BY <1>3, <2>1
<1>7. /\ call.ids = ids /\ call.types = types /\ call.given = given /\ call.passed = passed
      /\ calls'[c][1] = call
  BY <1>6
<1> HIDE DEF call
<1>8. Given(call)
  <2>1. PICK l \in Nat : l = Len(p.args) /\ DOMAIN p.args = 1..l
    BY <1>1, LenProperties
  <2>2. types \in Seq(STRING) /\ Len(types) <= l
    BY <1>1, <2>1, RpcAssumption DEF ArgTypes
  <2>3. PICK m \in Nat : m = Len(types) /\ DOMAIN types = 1..m
    BY <2>2, LenProperties
  <2> HIDE DEF types
  <2>4. given = [i \in 1..l |-> p.args[i].val]
    BY <2>1
  <2>5. Len(given) = l
    BY <2>4
  <2>6. ASSUME NEW i \in 1..m, types[i] # "str" \/ i = l PROVE passed[i] = given[i]
    <3>1. i \in 1..l
      BY <2>2, <2>3
    <3>2. passed[i] = IF types[i] = "str" THEN Last(p.args).val ELSE p.args[i].val
      BY <2>3 DEF Passed
    <3>3. Last(p.args) = p.args[l]
      BY <2>1 DEF Last
    <3> QED
      BY <2>4, <2>6, <3>1, <3>2, <3>3
  <2>7. Len(given) >= Len(types)
    BY <2>2, <2>3, <2>5
  <2> QED
    BY <1>7, <2>3, <2>5, <2>6, <2>7 DEF Given
<1>9. ASSUME NEW s, At(p, s) PROVE Cardinality(ids) = 1
  <2>1. p.grove.ids \subseteq {p.msg[2]} /\ p.method.ids \subseteq {p.msg[2]}
    BY <1>1, <1>9 DEF At, Mine
  <2>2. \A i \in 1..Len(p.args) : p.args[i].ids \subseteq {p.msg[2]}
    BY <1>1, <1>9 DEF At, Mine
  <2>3. DOMAIN p.args = 1..Len(p.args)
    BY <1>1, LenProperties
  <2>4. \A x \in ToSet(p.args) : x.ids \subseteq {p.msg[2]}
    BY <2>2, <2>3 DEF ToSet
  <2>5. ids = {p.msg[2]}
    BY <2>1, <2>4
  <2> QED
    BY <2>5, FS_Singleton
<1> QED
  BY <1>5, <1>6, <1>7, <1>8, <1>9 DEF Called


\* A round of the parser, whatever its stage.
LEMMA RoundGoes ==
    ASSUME TypeInv, StageInv, NEW c \in Channels,
           rx[c] # <<>> \/ parser[c].stage \in {"CALL", "WELL_KNOWN"},
           ~(Stops(c) # {} /\ Skip(c) = 0), Round(c)
    PROVE  /\ Goes(c)
           /\ rx' = rx \/ \E n \in Nat : Consume(c, n)
           /\ calls' = calls \/ Called(c)
           /\ pc' = pc \/ (pc' = "starting" /\ hist'.updates # <<>>)
<1>1. Skip(c) \in Nat
  BY SkipIs
<1>2. CASE parser[c].stage = "REQ_TYPE" /\ ReqType(c) /\ UNCHANGED <<pc, calls>>
  <2>1. \E n \in Nat : Consume(c, n)
    <3>1. CASE \E n \in {1, 2, 3} : \E verb : Root(c, verb, n)
      BY <3>1 DEF Root
    <3>2. CASE Consume(c, 1)
      BY <3>2
    <3> QED
      BY <1>2, <3>1, <3>2 DEF ReqType
  <2>2. Goes(c)
    BY <1>2, ReqTypeGoes
  <2> QED
    BY <1>2, <2>1, <2>2
<1>3. CASE parser[c].stage = "GROVE_NAME" /\ GroveName(c) /\ UNCHANGED <<pc, calls>>
  <2>1. Consume(c, Skip(c))
    BY <1>3 DEF GroveName
  <2>2. Goes(c)
    BY <1>3, GroveNameGoes
  <2> QED
    BY <1>1, <1>3, <2>1, <2>2
<1>4. CASE parser[c].stage = "METHOD" /\ Method(c) /\ UNCHANGED <<pc, calls>>
  <2>1. Consume(c, Skip(c))
    BY <1>4 DEF Method
  <2>2. Goes(c)
    BY <1>4, MethodGoes
  <2> QED
    BY <1>1, <1>4, <2>1, <2>2
<1>5. CASE parser[c].stage = "CHECK_ARGS" /\ CheckArgs(c) /\ UNCHANGED <<pc, calls>>
  <2>1. rx' = rx
    BY <1>5 DEF CheckArgs
  <2>2. Goes(c)
    BY <1>5, CheckArgsGoes
  <2> QED
    BY <1>5, <2>1, <2>2
<1>6. CASE parser[c].stage = "PRE_ARGS" /\ PreParseArgs(c) /\ UNCHANGED <<pc, calls>>
  <2>1. rx' = rx
    BY <1>6 DEF PreParseArgs
  <2>2. Goes(c)
    BY <1>6, PreParseArgsGoes
  <2> QED
    BY <1>6, <2>1, <2>2
<1>7. CASE parser[c].stage = "ARGS" /\ ParseArgs(c) /\ UNCHANGED <<pc, calls>>
  <2>1. Consume(c, Skip(c))
    BY <1>7 DEF ParseArgs
  <2>2. Goes(c)
    BY <1>7, ParseArgsGoes
  <2> QED
    BY <1>1, <1>7, <2>1, <2>2
<1>8. CASE parser[c].stage = "CALL" /\ ParseCall(c) /\ UNCHANGED pc
  <2>1. rx' = rx
    BY <1>8 DEF ParseCall
  <2>2. Goes(c) /\ Called(c)
    BY <1>8, ParseCallGoes
  <2> QED
    BY <1>8, <2>1, <2>2
<1>9. CASE parser[c].stage = "WELL_KNOWN" /\ PrintWellKnown(c) /\ UNCHANGED <<pc, calls>>
  <2>1. rx' = rx
    BY <1>9 DEF PrintWellKnown
  <2>2. Goes(c)
    BY <1>9, PrintWellKnownGoes
  <2> QED
    BY <1>9, <2>1, <2>2
<1>10. CASE parser[c].stage = "OTA" /\ DiveIntoOta(c) /\ UNCHANGED calls
  <2>1. Consume(c, Skip(c)) /\ pc' = "starting"
    BY <1>10 DEF DiveIntoOta
  <2>2. Goes(c) /\ hist'.updates # <<>>
    BY <1>10, DiveIntoOtaGoes
  <2> QED
    BY <1>1, <1>10, <2>1, <2>2
<1>11. CASE parser[c].stage = "APP_NUM" /\ GetAppNum(c) /\ UNCHANGED <<pc, calls>>
  <2>1. Consume(c, Skip(c))
    BY <1>11 DEF GetAppNum
  <2>2. Goes(c)
    BY <1>11, GetAppNumGoes
  <2> QED
    BY <1>1, <1>11, <2>1, <2>2
<1> QED
  BY <1>2, <1>3, <1>4, <1>5, <1>6, <1>7, <1>8, <1>9, <1>10, <1>11 DEF Round


-----------------------------------------------------------------------------
(* The inductive invariant.                                                *)

\* The n-th request of channel c, and what the server has written on it so far.
Msg(c, n) == [i \in DOMAIN plan[c][n] |-> [tok |-> plan[c][n][i], id |-> n]]
Texts(c) == {Msg(c, n) : n \in 1..world.sent[c]} \cup {m \in {Ping} : world.pings > 0}

\* Channel c has received messages whole, but for the rest more of the last one, and
\* its parser is where it should be in them.
InPlace(c, more) == Stream(c, Texts(c), more, rx[c] \o more) /\ At(parser[c], rx[c] \o more)

First(w) == IF w = <<>> THEN <<>> ELSE w[1]

Reads(c) ==
    /\ \A j \in 2..Len(wire[c]) : wire[c][j] \in Texts(c)
    /\ InPlace(c, First(wire[c]))
    /\ c \notin hist.split => InPlace(c, <<>>) /\ (wire[c] # <<>> => wire[c][1] \in Texts(c))

\* A channel that lost nothing reads whole messages.
StreamInv == pc # "hung" => \A c \in Channels : c \notin hist.hurt => Reads(c)

UpdateInv == pc \in {"starting", "updating"} => hist.updates # <<>>

CallsInv ==
    \A c \in Channels : calls[c] # <<>> =>
        Given(calls[c][1]) /\ (c \notin hist.hurt => Cardinality(calls[c][1].ids) = 1)

IInv == TypeInv /\ StageInv /\ UpdateInv /\ CallsInv /\ HangsOnlyHurt /\ StreamInv

\* A request of the plan, as it is sent.
LEMMA RequestSent ==
    ASSUME TypeInv, NEW c \in Channels, NEW n \in Nat \ {0}, n <= Len(plan[c])
    PROVE  /\ GoodText(Msg(c, n)) /\ Len(Msg(c, n)) > 1
           /\ Toks(Msg(c, n)) = plan[c][n] /\ Msg(c, n) # Ping
<1>1. plan[c] \in Seq(Seq(STRING)) /\ \A k \in DOMAIN plan[c] : Request(plan[c][k])
  BY RpcAssumption DEF TypeInv
<1>2. n \in DOMAIN plan[c] /\ n \in 1..Len(plan[c])
  BY <1>1
<1> DEFINE toks == plan[c][n]
<1>3. /\ toks \in Seq(STRING) /\ Len(toks) > 2 /\ toks[1] \in Keywords
      /\ toks[Len(toks) - 1] = "cr" /\ toks[Len(toks)] = "lf"
  BY <1>1, <1>2 DEF Request
<1>4. Msg(c, n) = [i \in DOMAIN toks |-> [tok |-> toks[i], id |-> n]]
  BY DEF Msg
<1> HIDE DEF toks
<1>5. PICK l \in Nat : l = Len(toks) /\ DOMAIN toks = 1..l /\ l > 2
  BY <1>3, LenProperties
<1> DEFINE m == [i \in 1..l |-> [tok |-> toks[i], id |-> n]]
<1>6. \A i \in 1..l : toks[i] \in STRING /\ m[i] = [tok |-> toks[i], id |-> n]
  BY <1>3, <1>5
<1>7. \A i \in 1..l : m[i] \in Token /\ m[i].id = n /\ m[i].tok = toks[i]
  BY <1>6 DEF Token, Names
<1>8. m \in Seq(Token) /\ Len(m) = l
  <2>1. m \in [1..l -> Token]
    BY <1>7
  <2> HIDE DEF m
  <2> QED
    BY <1>5, <2>1
<1>9. m = Msg(c, n)
  BY <1>4, <1>5
<1> HIDE DEF m
<1>10. 1 \in 1..l /\ l - 1 \in 1..l /\ l \in 1..l /\ l > 0
  BY <1>5
<1>11. m[1].tok \in Keywords /\ m[l - 1].tok = "cr" /\ m[l].tok = "lf" /\ m[1].id # 0
  BY <1>3, <1>5, <1>7, <1>10
<1>12. GoodText(m)
  <2>1. \A i \in 1..Len(m) : m[i].id = m[1].id
    BY <1>7, <1>8, <1>10
  <2> QED
    BY <1>5, <1>8, <1>10, <1>11, <2>1 DEF GoodText, Begins
<1>13. Toks(m) = toks
  <2>1. toks = [i \in 1..l |-> toks[i]]
    BY <1>3, <1>5
  <2> QED
    BY <1>7, <1>8, <2>1 DEF Toks
<1>14. Len(m) > 1 /\ m # Ping
  BY <1>5, <1>8, <1>11, PingIs
<1> HIDE DEF toks
<1> QED
  BY <1>9, <1>12, <1>13, <1>14 DEF toks

LEMMA TextsGood ==
    ASSUME TypeInv, NEW c \in Channels
    PROVE  \A t \in Texts(c) : GoodText(t)
<1>1. world.sent[c] \in Nat /\ world.sent[c] <= Len(plan[c])
  BY DEF TypeInv
<1>2. plan[c] \in Seq(Seq(STRING)) /\ Len(plan[c]) \in Nat
  <2>1. plan[c] \in Seq(Seq(STRING))
    BY RpcAssumption DEF TypeInv
  <2> QED
    BY <2>1, LenProperties
<1>3. GoodText(Ping)
  BY PingIs DEF GoodText, Begins
<1>4. ASSUME NEW n \in 1..world.sent[c] PROVE GoodText(Msg(c, n))
  <2>1. n \in Nat \ {0} /\ n <= Len(plan[c])
    BY <1>1, <1>2
  <2> QED
    BY <2>1, RequestSent
<1> QED
  BY <1>3, <1>4 DEF Texts

\* What no request is part of is a ping.
LEMMA PingAhead ==
    ASSUME NEW T, \A t \in T : GoodText(t), NEW s \in Seq(Token), Whole(T, s),
           s # <<>>, s[1].id = 0
    PROVE  Ping \in T /\ s[1].tok = "##PING##"
<1>1. 1 \in 1..Len(s) /\ 1 \in Nat
  OBVIOUS
<1>2. PICK t \in T : \E i \in 1..Len(t) : Follows(t, i, s, 1)
  BY <1>1 DEF Whole
<1>3. PICK i \in 1..Len(t) : Follows(t, i, s, 1)
  BY <1>2
<1>4. GoodText(t) /\ Len(t) \in Nat
  BY <1>2 DEF GoodText
<1>5. s[1] = t[i]
  BY <1>1, <1>3, <1>4, Here
<1>6. t \in Seq(Token) /\ Len(t) = 1 /\ t[1] = [tok |-> "##PING##", id |-> 0]
  BY <1>4, <1>5 DEF GoodText
<1>7. t = Ping
  BY <1>6, PingIs, SeqEqual
<1>8. i = 1
  BY <1>6
<1> QED
  BY <1>2, <1>5, <1>6, <1>7, <1>8

\* The parser stops dead only as HangsOnlyHurt says.
LEMMA HangIs ==
    ASSUME IInv, NEW c \in Channels, pc = c, rx[c] # <<>>, Stops(c) # {}, Skip(c) = 0, Hang(c),
           UNCHANGED <<plan, world>>
    PROVE  HangsOnlyHurt'
<1> SUFFICES ASSUME hist.split \cup hist.hurt = {} PROVE HangsOnlyHurt'
  BY DEF Hang, HangsOnlyHurt
<1> DEFINE s == rx[c]
           T == Texts(c)
<1> DEFINE p == parser[c]
<1>1. TypeInv /\ pc # "hung" /\ c \notin hist.hurt /\ c \notin hist.split
  BY DEF IInv, Channels
<1>2. InPlace(c, <<>>)
  BY <1>1 DEF IInv, StreamInv, Reads
<1>3. s \in Seq(Token) /\ s \o <<>> = s /\ Len(s) \in Nat
  BY <1>1, ConcatEmptySeq DEF TypeInv
<1>4. Whole(T, s) /\ At(p, s) /\ \A t \in T : GoodText(t)
  BY <1>2, <1>3 DEF InPlace, Stream
<1>5. \A j \in 1..Len(s) : s[j].tok \notin Stops(c)
  BY <1>1, SkipIs
<1>6. s[1] = Peek(c, 1) /\ 1 \in 1..Len(s)
  BY <1>3 DEF Peek
<1>7. s[1].tok = "##PING##" \/ s[1].id # 0
  BY <1>3, <1>4, PingAhead
<1>8. ASSUME s[1].id # 0
      PROVE  /\ \E m \in 1..Len(s) : s[m].tok \in LineEnd
             /\ (s[1].tok = "long" /\ \A k \in 1..Len(s) : s[k].tok # "/") =>
                   \E t \in T : Len(t) > 1 /\ Endless(Toks(t))
  <2>1. s # <<>>
    OBVIOUS
  <2> HIDE DEF s, T
  <2> QED
    BY <1>3, <1>4, <1>8, <2>1, EndAhead
<1>9. parser' = parser /\ plan' = plan /\ world' = world
  BY DEF Hang
<1>10. CASE p.stage = "GROVE_NAME" /\ Peek(c, 1).tok = "long"
  <2>1. \A k \in 1..Len(s) : s[k].tok # "/"
    BY <1>5, <1>10 DEF Stops
  <2>2. PICK t \in T : Len(t) > 1 /\ Endless(Toks(t))
    BY <1>6, <1>7, <1>8, <1>10, <2>1
  <2>3. t # Ping
    <3>1. Len(Ping) = 1
      BY PingIs
    <3>2. ~(Len(Ping) > 1)
      BY <3>1
    <3> QED
      BY <2>2, <3>2, Zenon
  <2>4. PICK n \in 1..world.sent[c] : t = Msg(c, n)
    BY <2>3 DEF Texts
  <2>5. world.sent[c] \in Nat /\ world.sent[c] <= Len(plan[c]) /\ plan[c] \in Seq(Seq(STRING))
    BY <1>1, RpcAssumption DEF TypeInv
  <2>6. n \in Nat \ {0} /\ n <= Len(plan[c])
    BY <2>5
  <2>7. Endless(plan[c][n])
    BY <1>1, <2>2, <2>4, <2>6, RequestSent
  <2>8. parser'[c].stage = "GROVE_NAME" /\ \E k \in 1..world'.sent[c] : Endless(plan'[c][k])
    BY <1>9, <1>10, <2>4, <2>7
  <2> QED
    BY <2>8 DEF HangsOnlyHurt
<1>11. CASE p.stage \in {"METHOD", "ARGS"} /\ Peek(c, 1).tok = "long"
  <2>1. \A k \in 1..Len(s) : s[k].tok \notin LineEnd
    BY <1>5, <1>11 DEF Stops, LineEnd
  <2> QED
    BY <1>6, <1>7, <1>8, <1>11, <2>1
<1>12. CASE p.stage \in {"OTA", "APP_NUM"}
  <2>1. \A k \in 1..Len(s) : s[k].tok \notin LineEnd
    BY <1>5, <1>12 DEF Stops, LineEnd
  <2>2. s[1].id = 0
    <3> HIDE DEF s
    <3> QED
      BY <1>8, <2>1
  <2>3. Ping \in T
    BY <1>3, <1>4, <2>2, PingAhead
  <2>4. world.pings > 0
    <3>1. ASSUME NEW n \in 1..world.sent[c] PROVE Msg(c, n) # Ping
      <4>1. world.sent[c] \in Nat /\ world.sent[c] <= Len(plan[c]) /\ plan[c] \in Seq(Seq(STRING))
        BY <1>1, RpcAssumption DEF TypeInv
      <4>2. n \in Nat \ {0} /\ n <= Len(plan[c])
        BY <4>1
      <4> QED
        BY <1>1, <4>2, RequestSent
    <3> QED
      BY <2>3, <3>1 DEF Texts
  <2>5. (p.stage = "OTA" /\ p.phantom) \/ (p.stage = "APP_NUM" /\ p.msg[1] = "phantom")
    BY <1>4, <1>12, <2>2 DEF At
  <2> QED
    BY <1>9, <2>4, <2>5 DEF HangsOnlyHurt
<1> QED
  BY <1>10, <1>11, <1>12 DEF Stops


-----------------------------------------------------------------------------
(* Steps that leave the parser alone.                                      *)

Worlds == [sent : [Channels -> Nat], events : Nat, pings : Nat, parts : Nat, losses : Nat]

\* What is sent is sent, and what went wrong stays.
Grows ==
    /\ plan' = plan
    /\ \A c \in Channels : world.sent[c] <= world'.sent[c]
    /\ world.pings <= world'.pings
    /\ hist.split \subseteq hist'.split /\ hist.hurt \subseteq hist'.hurt

LEMMA TextsGrow ==
    ASSUME TypeInv, TypeInv', Grows, NEW c \in Channels
    PROVE  Texts(c) \subseteq Texts(c)'
<1>1. /\ world.sent[c] \in Nat /\ world'.sent[c] \in Nat /\ world.sent[c] <= world'.sent[c]
      /\ world.pings \in Nat /\ world'.pings \in Nat /\ world.pings <= world'.pings
  BY DEF TypeInv, Grows
<1>2. \A n : Msg(c, n)' = Msg(c, n)
  BY DEF Msg, Grows
<1>3. 1..world.sent[c] \subseteq 1..world'.sent[c] /\ (world.pings > 0 => world'.pings > 0)
  BY <1>1
<1> QED
  BY <1>2, <1>3 DEF Texts

LEMMA AllGood == TypeInv => \A c \in Channels : \A t \in Texts(c) : GoodText(t)
BY TextsGood

LEMMA TextsGoodNext == TypeInv' => (\A c \in Channels : \A t \in Texts(c) : GoodText(t))'
BY AllGood, PTL

LEMMA InPlaceKept ==
    ASSUME TypeInv', NEW c \in Channels, NEW CONSTANT more, InPlace(c, more),
           parser'[c] = parser[c], rx'[c] = rx[c], Texts(c) \subseteq Texts(c)'
    PROVE  InPlace(c, more)'
<1>1. \A t \in Texts(c)' : GoodText(t)
  BY TextsGoodNext
<1>2. Whole(Texts(c), rx[c] \o more) => Whole(Texts(c)', rx[c] \o more)
  BY DEF Whole
<1> QED
  BY <1>1, <1>2 DEF InPlace, Stream

LEMMA ReadsKept ==
    ASSUME TypeInv, TypeInv', Grows, NEW c \in Channels, Reads(c),
           parser'[c] = parser[c], rx'[c] = rx[c], wire'[c] = wire[c]
    PROVE  Reads(c)'
<1>1. Texts(c) \subseteq Texts(c)'
  BY TextsGrow
<1>2. PICK more : more = First(wire[c])
  OBVIOUS
<1>3. InPlace(c, more)' /\ First(wire[c])' = more
  BY <1>1, <1>2, InPlaceKept DEF Reads, First
<1>4. c \notin hist'.split => InPlace(c, <<>>)'
  BY <1>1, InPlaceKept DEF Reads, Grows
<1>5. InPlace(c, First(wire[c]))'
  BY <1>3
<1> QED
  BY <1>1, <1>4, <1>5 DEF Reads, Grows

\* The invariant, of a step that leaves the parser alone.
LEMMA Kept ==
    ASSUME IInv, TypeInv', Grows, parser' = parser, calls' = calls,
           pc' = "hung" => pc = "hung", pc = "hung" => pc' = "hung", UpdateInv',
           \A c \in Channels : (pc # "hung" /\ c \notin hist.hurt /\ c \notin hist'.hurt /\ Reads(c))
                                  => Reads(c)'
    PROVE  IInv'
<1>1. TypeInv /\ StageInv /\ CallsInv /\ HangsOnlyHurt /\ StreamInv
  BY DEF IInv
<1>2. StageInv'
  BY <1>1 DEF StageInv
<1>3. CallsInv'
  BY <1>1 DEF CallsInv, Grows
<1>4. HangsOnlyHurt'
  <2> SUFFICES ASSUME pc' = "hung" PROVE HangsOnlyHurt'
    BY DEF HangsOnlyHurt
  <2>1. \A c \in Channels : 1..world.sent[c] \subseteq 1..world'.sent[c]
    <3>1. ASSUME NEW c \in Channels
          PROVE  world.sent[c] \in Nat /\ world'.sent[c] \in Nat /\ world.sent[c] <= world'.sent[c]
      BY <1>1 DEF TypeInv, Grows
    <3> QED
      BY <3>1
  <2>2. world.pings > 0 => world'.pings > 0
    <3>1. world.pings \in Nat /\ world'.pings \in Nat /\ world.pings <= world'.pings
      BY <1>1 DEF TypeInv, Grows
    <3> QED
      BY <3>1
  <2>3. CASE hist.split \cup hist.hurt # {}
    BY <2>3 DEF HangsOnlyHurt, Grows
  <2>4. CASE \E c \in Channels :
                \/ parser[c].stage = "GROVE_NAME" /\ \E n \in 1..world.sent[c] : Endless(plan[c][n])
                \/ parser[c].stage = "OTA" /\ parser[c].phantom /\ world.pings > 0
                \/ parser[c].stage = "APP_NUM" /\ parser[c].msg[1] = "phantom" /\ world.pings > 0
    BY <2>1, <2>2, <2>4 DEF HangsOnlyHurt, Grows
  <2> QED
    BY <1>1, <2>3, <2>4 DEF HangsOnlyHurt
<1>5. StreamInv'
  BY <1>1 DEF StreamInv, Grows
<1> QED
  BY <1>2, <1>3, <1>4, <1>5 DEF IInv

\* A step that touches neither what is received nor what is sent.
LEMMA QuietKept ==
    ASSUME IInv, UNCHANGED <<parser, rx, wire, plan, calls>>, world' \in Worlds,
           world'.sent = world.sent, world'.pings = world.pings, HistOK', SameHist,
           pc' = "hung" => pc = "hung", pc = "hung" => pc' = "hung", UpdateInv'
    PROVE  IInv'
<1>1. TypeInv
  BY DEF IInv
<1>2. TypeInv'
  BY <1>1 DEF TypeInv, Worlds
<1>3. Grows
  BY <1>1 DEF TypeInv, SameHist, Grows
<1>4. \A c \in Channels : Reads(c) => Reads(c)'
  BY <1>1, <1>2, <1>3, ReadsKept
<1> QED
  BY <1>2, <1>3, <1>4, Kept

LEMMA WioLoopKeeps == IInv /\ WioLoop => IInv'
<1> SUFFICES ASSUME IInv, WioLoop PROVE IInv'
  OBVIOUS
<1>1. TypeInv /\ world \in Worlds
  BY DEF IInv, TypeInv, Worlds
<1>2. HistOK' /\ SameHist
  BY <1>1, HistKept DEF WioLoop
<1>3. UpdateInv'
  BY DEF WioLoop, UpdateInv
<1> QED
  BY <1>1, <1>2, <1>3, QuietKept DEF WioLoop

LEMMA DrainKeeps == IInv /\ DrainEventQueue => IInv'
<1> SUFFICES ASSUME IInv, DrainEventQueue PROVE IInv'
  OBVIOUS
<1>1. TypeInv /\ world \in Worlds
  BY DEF IInv, TypeInv, Worlds
<1>2. hist' = hist \/ (\E v : hist' = [hist EXCEPT !.gone = v]) \/ \E v : hist' = [hist EXCEPT !.cut = v]
  BY DEF DrainEventQueue
<1>3. HistOK' /\ SameHist
  BY <1>1, <1>2, HistKept
<1>4. pc = "drain" /\ pc' \in {"data", "drain"} /\ UNCHANGED <<parser, rx, wire, plan, world, calls>>
  BY DEF DrainEventQueue
<1>5. UpdateInv'
  BY <1>4 DEF UpdateInv
<1> QED
  BY <1>1, <1>3, <1>4, <1>5, QuietKept

LEMMA OtaResponseKeeps == IInv /\ OtaResponse => IInv'
<1> SUFFICES ASSUME IInv, OtaResponse PROVE IInv'
  OBVIOUS
<1>1. TypeInv /\ UpdateInv /\ world \in Worlds /\ HistOK
  BY DEF IInv, TypeInv, Worlds
<1>2. HistOK' /\ SameHist
  BY <1>1, HistKept DEF OtaResponse
<1>3. pc' \in Channels
  <2>1. hist.updates # <<>> /\ hist.updates \in Seq([asked : BOOLEAN, on : Channels])
    BY <1>1 DEF OtaResponse, UpdateInv, HistOK
  <2>2. Last(hist.updates) \in [asked : BOOLEAN, on : Channels]
    <3>1. Len(hist.updates) \in 1..Len(hist.updates)
      BY <2>1
    <3> QED
      BY <2>1, <3>1, ElementOfSeq DEF Last
  <2> QED
    BY <2>2 DEF OtaResponse
<1>4. UpdateInv' /\ pc' # "hung" /\ pc # "hung"
  BY <1>3 DEF UpdateInv, Channels, OtaResponse
<1> QED
  BY <1>1, <1>2, <1>4, QuietKept DEF OtaResponse

LEMMA RebootKeeps == IInv /\ RebootFires => IInv'
<1> SUFFICES ASSUME IInv, RebootFires PROVE IInv'
  OBVIOUS
<1>1. TypeInv /\ world \in Worlds
  BY DEF IInv, TypeInv, Worlds
<1>2. HistOK' /\ SameHist
  BY <1>1, HistKept DEF RebootFires
<1>3. UpdateInv' /\ pc' # "hung" /\ pc # "hung"
  BY DEF RebootFires, UpdateInv
<1> QED
  BY <1>1, <1>2, <1>3, QuietKept DEF RebootFires

LEMMA ReportKeeps == IInv /\ ReportEvent => IInv'
<1> SUFFICES ASSUME IInv, ReportEvent PROVE IInv'
  OBVIOUS
<1>1. TypeInv /\ UpdateInv /\ world \in Worlds
  BY DEF IInv, TypeInv, Worlds
<1>2. hist' = hist \/ \E v : hist' = [hist EXCEPT !.gone = v]
  BY DEF ReportEvent
<1>3. HistOK' /\ SameHist
  BY <1>1, <1>2, HistKept
<1>4. /\ UNCHANGED <<pc, parser, rx, wire, plan, calls>>
      /\ world' = [world EXCEPT !.events = world.events + 1]
  BY DEF ReportEvent
<1>5. world' \in Worlds /\ world'.sent = world.sent /\ world'.pings = world.pings
  BY <1>1, <1>4 DEF Worlds
<1>6. hist'.updates = hist.updates
  BY <1>1, <1>2 DEF TypeInv, HistOK
<1>7. UpdateInv'
  BY <1>1, <1>4, <1>6 DEF UpdateInv
<1> QED
  BY <1>3, <1>4, <1>5, <1>7, QuietKept

\* A callback that changes at most what is buffered, the link and what is heard.
LEMMA CallbackKeeps ==
    ASSUME IInv, UNCHANGED <<pc, parser, rx, wire, plan, world, calls>>,
           hist' = hist \/ (\E v : hist' = [hist EXCEPT !.cut = v])
                        \/ \E v : hist' = [hist EXCEPT !.bad = v]
    PROVE  IInv'
<1>1. TypeInv /\ UpdateInv /\ world \in Worlds
  BY DEF IInv, TypeInv, Worlds
<1>2. HistOK' /\ SameHist
  BY <1>1, HistKept
<1>3. hist'.updates = hist.updates
  BY <1>1 DEF TypeInv, HistOK
<1>4. UpdateInv'
  BY <1>1, <1>3 DEF UpdateInv
<1> QED
  BY <1>1, <1>2, <1>4, QuietKept

LEMMA SentKeeps == \A c \in Channels : IInv /\ Sent(c) => IInv'
BY CallbackKeeps DEF Sent

LEMMA KeepaliveKeeps == \A c \in Channels : IInv /\ KeepaliveCheck(c) => IInv'
BY CallbackKeeps DEF KeepaliveCheck, node

LEMMA ConnectedKeeps == \A c \in Channels : IInv /\ Connected(c) => IInv'
BY CallbackKeeps DEF Connected

LEMMA ConfirmKeeps == \A c \in Channels : IInv /\ ConfirmHello(c) => IInv'
BY CallbackKeeps DEF ConfirmHello, node


-----------------------------------------------------------------------------
(* A round of the parser, and the server's messages.                       *)

LEMMA RoundInPlace ==
    ASSUME TypeInv, NEW c \in Channels, Goes(c), rx' = rx \/ \E n \in Nat : Consume(c, n),
           Texts(c)' = Texts(c), NEW CONSTANT more, InPlace(c, more)
    PROVE  InPlace(c, more)'
<1> DEFINE T == Texts(c)
           s == rx[c] \o more
<1>1. Stream(c, T, more, s) /\ At(parser[c], s)
  BY DEF InPlace
<1> HIDE DEF T, s
<1>2. At(parser'[c], Left(c, more))
  BY <1>1 DEF Goes
<1>3. Whole(T, Left(c, more))
  <2>1. CASE rx' = rx
    BY <1>1, <2>1 DEF Stream, Left
  <2>2. CASE \E n \in Nat : Consume(c, n)
    <3>1. PICK n \in Nat : Consume(c, n)
      BY <2>2
    <3> QED
      BY <1>1, <3>1, Reading
  <2> QED
    BY <2>1, <2>2
<1>4. more \in Seq(Token) /\ \A t \in T : GoodText(t)
  BY <1>1 DEF Stream
<1>5. Texts(c)' = T
  BY DEF T
<1> QED
  BY <1>2, <1>3, <1>4, <1>5 DEF InPlace, Stream, Left

LEMMA ProcessStreamKeeps ==
    ASSUME IInv, NEW c \in Channels, ProcessStream(c)
    PROVE  IInv'
<1>1. TypeInv /\ StageInv /\ UpdateInv /\ CallsInv /\ StreamInv /\ world \in Worlds
  BY DEF IInv, TypeInv, Worlds
<1>2. pc = c /\ pc # "hung" /\ UNCHANGED <<queue, link, wire, plan, world>>
  BY DEF ProcessStream, Channels
<1> DEFINE busy == rx[c] # <<>> \/ parser[c].stage \in {"CALL", "WELL_KNOWN"}
           hangs == Stops(c) # {} /\ Skip(c) = 0
<1>3. CASE ~busy
  <2>1. UNCHANGED <<parser, rx, hist, calls>> /\ pc' \in {"cmd", "loop"}
    BY <1>3 DEF ProcessStream
  <2>2. HistOK' /\ SameHist
    BY <1>1, <2>1, HistKept
  <2>3. UpdateInv'
    BY <2>1 DEF UpdateInv
  <2> QED
    BY <1>1, <1>2, <2>1, <2>2, <2>3, QuietKept
<1>4. CASE busy /\ hangs
  <2>1. Hang(c) /\ rx[c] # <<>>
    BY <1>4 DEF ProcessStream, Stops
  <2>2. HangsOnlyHurt'
    BY <1>2, <1>4, <2>1, HangIs
  <2>3. TypeInv'
    <3>1. rx' \in [Channels -> Seq(Token)]
      BY <1>1, <2>1 DEF Hang, TypeInv
    <3>2. HistOK'
      BY <1>1, <2>1, HistKept DEF Hang
    <3> QED
      BY <1>1, <1>2, <2>1, <3>1, <3>2 DEF Hang, TypeInv
  <2>4. StageInv' /\ CallsInv'
    BY <1>1, <2>1 DEF Hang, StageInv, CallsInv
  <2>5. UpdateInv' /\ StreamInv'
    BY <2>1 DEF Hang, UpdateInv, StreamInv
  <2> QED
    BY <2>2, <2>3, <2>4, <2>5 DEF IInv
<1>5. CASE busy /\ ~hangs
  <2>1. Round(c)
    BY <1>5 DEF ProcessStream
  <2>2. /\ Goes(c)
        /\ rx' = rx \/ \E n \in Nat : Consume(c, n)
        /\ calls' = calls \/ Called(c)
        /\ pc' = pc \/ (pc' = "starting" /\ hist'.updates # <<>>)
    BY <1>1, <1>5, <2>1, RoundGoes
  <2>3. parser' \in [Channels -> Parsers] /\ \A d \in Channels : d # c => parser'[d] = parser[d]
    BY <1>1, <2>2 DEF Goes, TypeInv
  <2>4. rx' \in [Channels -> Seq(Token)] /\ \A d \in Channels : d # c => rx'[d] = rx[d]
    <3>1. CASE rx' = rx
      BY <1>1, <3>1 DEF TypeInv
    <3>2. CASE \E n \in Nat : Consume(c, n)
      <4>1. PICK n \in Nat : rx' = [rx EXCEPT ![c] = SubSeq(rx[c], n + 1, Len(rx[c]))]
        BY <3>2 DEF Consume
      <4>2. SubSeq(rx[c], n + 1, Len(rx[c])) \in Seq(Token)
        BY <1>1 DEF TypeInv
      <4> QED
        BY <1>1, <4>1, <4>2 DEF TypeInv
    <3> QED
      BY <2>2, <3>1, <3>2
  <2>5. calls' = [d \in Channels |-> calls'[d]] /\ \A d \in Channels : d # c => calls'[d] = calls[d]
    BY <1>1, <2>2 DEF TypeInv, Called
  <2>6. TypeInv'
    BY <1>1, <1>2, <2>2, <2>3, <2>4, <2>5 DEF TypeInv, Goes
  <2>7. StageInv'
    BY <1>1, <2>2, <2>3 DEF StageInv, Goes
  <2>8. UpdateInv' /\ pc' # "hung"
    BY <1>2, <2>2 DEF UpdateInv, Channels
  <2>9. Grows /\ SameHist
    BY <1>1, <1>2, <2>2 DEF Grows, Goes, SameHist, TypeInv
  <2>10. Texts(c)' = Texts(c)
    BY <1>2 DEF Texts, Msg
  <2>11. ASSUME NEW d \in Channels, d \notin hist'.hurt PROVE Reads(d)'
    <3>1. Reads(d)
      BY <1>1, <1>2, <2>9, <2>11 DEF StreamInv, SameHist
    <3>2. CASE d # c
      BY <1>1, <1>2, <2>3, <2>4, <2>6, <2>9, <3>1, <3>2, ReadsKept
    <3>3. CASE d = c
      <4>1. PICK more : more = First(wire[c])
        OBVIOUS
      <4>2. InPlace(c, more)' /\ First(wire[c])' = more
        BY <1>1, <1>2, <2>2, <2>10, <3>1, <3>3, <4>1, RoundInPlace DEF Reads, First
      <4>3. c \notin hist'.split => InPlace(c, <<>>)'
        BY <1>1, <2>2, <2>9, <2>10, <3>1, <3>3, RoundInPlace DEF Reads, SameHist
      <4>4. InPlace(c, First(wire[c]))'
        BY <4>2
      <4> QED
        BY <1>2, <2>9, <2>10, <3>1, <3>3, <4>3, <4>4 DEF Reads, SameHist
    <3> QED
      BY <3>2, <3>3
  <2>12. StreamInv'
    BY <2>11 DEF StreamInv
  <2>13. CallsInv'
    <3>1. CASE calls' = calls
      BY <1>1, <2>9, <3>1 DEF CallsInv, SameHist
    <3>2. CASE Called(c)
      <4>1. ASSUME c \notin hist'.hurt PROVE Cardinality(calls'[c][1].ids) = 1
        <5>1. Reads(c)
          BY <1>1, <1>2, <2>9, <4>1 DEF StreamInv, SameHist
        <5>2. \E s : At(parser[c], s)
          BY <5>1 DEF Reads, InPlace
        <5> QED
          BY <3>2, <5>2 DEF Called
      <4>2. Given(calls'[c][1])
        BY <3>2 DEF Called
      <4> QED
        BY <1>1, <2>5, <2>9, <4>1, <4>2 DEF CallsInv, SameHist
    <3> QED
      BY <2>2, <3>1, <3>2
  <2>14. HangsOnlyHurt'
    BY <2>8 DEF HangsOnlyHurt
  <2> QED
    BY <2>6, <2>7, <2>8, <2>12, <2>13, <2>14 DEF IInv
<1> QED
  BY <1>3, <1>4, <1>5


\* A message that comes behind whole ones.
LEMMA MoreWhole ==
    ASSUME NEW T, \A t \in T : GoodText(t), NEW p, NEW x \in Seq(Token), NEW m \in T,
           Whole(T, x), At(p, x)
    PROVE  /\ m \in Seq(Token) /\ x \o m \in Seq(Token)
           /\ Whole(T, x \o m) /\ At(p, x \o m)
<1>1. m \in Seq(Token) /\ m # <<>> /\ Begins(m[1]) /\ Whole(T, m)
  BY WholeText
<1>2. x \o m \in Seq(Token) /\ Whole(T, x \o m)
  BY <1>1, WholeJoined
<1>3. At(p, x \o m)
  BY <1>1, AtJoined
<1> QED
  BY <1>1, <1>2, <1>3

LEMMA InPlaceMore ==
    ASSUME TypeInv', NEW c \in Channels, NEW CONSTANT m, m \in Texts(c)', InPlace(c, <<>>)'
    PROVE  InPlace(c, m)'
<1>1. PICK T : T = Texts(c)'
  OBVIOUS
<1>2. PICK x : x = rx'[c]
  OBVIOUS
<1>3. PICK p : p = parser'[c]
  OBVIOUS
<1>4. x \in Seq(Token) /\ x \o <<>> = x
  BY <1>2, ConcatEmptySeq DEF TypeInv
<1>5. (\A t \in T : GoodText(t)) /\ Whole(T, x) /\ At(p, x)
  BY <1>1, <1>2, <1>3, <1>4 DEF InPlace, Stream
<1>6. m \in Seq(Token) /\ Whole(T, x \o m) /\ At(p, x \o m)
  BY <1>1, <1>4, <1>5, MoreWhole
<1> QED
  BY <1>1, <1>2, <1>3, <1>5, <1>6 DEF InPlace, Stream

\* A message that the server writes on channel c.
LEMMA WrittenKept ==
    ASSUME IInv, TypeInv', Grows, UNCHANGED <<pc, parser, rx, calls, hist>>,
           NEW c \in Channels, NEW CONSTANT m, m \in Texts(c)',
           wire' = [wire EXCEPT ![c] = Append(@, m)]
    PROVE  IInv'
<1>1. TypeInv /\ UpdateInv
  BY DEF IInv
<1>2. UpdateInv'
  BY <1>1 DEF UpdateInv
<1>3. ASSUME Reads(c) PROVE Reads(c)'
  <2>1. Texts(c) \subseteq Texts(c)'
    BY <1>1, TextsGrow
  <2>2. wire[c] \in Seq(Seq(Token)) /\ wire'[c] = Append(wire[c], m)
    BY <1>1 DEF TypeInv
  <2>3. m \in Seq(Token)
    <3>1. GoodText(m)
      BY TextsGoodNext
    <3> QED
      BY <3>1 DEF GoodText
  <2>4. PICK w : w = wire[c]
    OBVIOUS
  <2>5. PICK l \in Nat : l = Len(w)
    BY <2>2, <2>4, LenProperties
  <2>6. /\ Len(wire'[c]) = l + 1 /\ wire'[c][l + 1] = m
        /\ \A j \in 1..l : wire'[c][j] = w[j]
    BY <2>2, <2>3, <2>4, <2>5, AppendProperties
  <2>7. \A j \in 2..Len(wire'[c]) : wire'[c][j] \in Texts(c)'
    <3>1. \A j \in 2..l : w[j] \in Texts(c)'
      BY <1>3, <2>1, <2>4, <2>5 DEF Reads
    <3>2. ASSUME NEW j \in 2..(l + 1) PROVE j = l + 1 \/ (j \in 2..l /\ j \in 1..l)
      OBVIOUS
    <3> QED
      BY <2>6, <3>1, <3>2
  <2>8. c \notin hist.split => InPlace(c, <<>>)'
    BY <1>3, <2>1, InPlaceKept DEF Reads
  <2>9. CASE w = <<>>
    <3>1. l = 0 /\ First(wire[c]) = <<>>
      BY <2>4, <2>5, <2>9 DEF First
    <3>2. InPlace(c, <<>>)'
      BY <1>3, <2>1, <3>1, InPlaceKept DEF Reads
    <3>3. wire'[c] # <<>> /\ wire'[c][1] = m
      <4>1. wire'[c] # <<>>
        BY <2>2, <2>3, AppendProperties
      <4>2. l + 1 = 1
        BY <3>1
      <4> QED
        BY <2>6, <4>1, <4>2
    <3>4. InPlace(c, m)' /\ First(wire[c])' = m
      BY <3>2, <3>3, InPlaceMore DEF First
    <3>5. InPlace(c, First(wire[c]))'
      BY <3>4
    <3> QED
      BY <2>7, <3>2, <3>3, <3>5 DEF Reads
  <2>10. CASE w # <<>>
    <3>1. 1 \in 1..l
      BY <2>2, <2>4, <2>5, <2>10, EmptySeq
    <3>2. wire'[c] # <<>> /\ wire'[c][1] = w[1]
      BY <2>6, <3>1, EmptySeq
    <3>3. PICK more : more = w[1]
      OBVIOUS
    <3>4. First(wire[c]) = more /\ First(wire[c])' = more
      BY <2>4, <2>10, <3>2, <3>3 DEF First
    <3>5. InPlace(c, more)'
      BY <1>3, <2>1, <3>4, InPlaceKept DEF Reads
    <3>6. InPlace(c, First(wire[c]))'
      BY <3>4, <3>5
    <3>7. c \notin hist.split => wire'[c][1] \in Texts(c)'
      BY <1>3, <2>1, <2>4, <2>10, <3>2 DEF Reads
    <3> QED
      BY <2>7, <2>8, <3>6, <3>7 DEF Reads
  <2> QED
    BY <2>9, <2>10
<1>4. ASSUME NEW d \in Channels, d # c, Reads(d) PROVE Reads(d)'
  <2>1. wire'[d] = wire[d]
    BY <1>1, <1>4 DEF TypeInv
  <2> QED
    BY <1>1, <1>4, <2>1, ReadsKept
<1>5. \A d \in Channels : Reads(d) => Reads(d)'
  BY <1>3, <1>4
<1> QED
  BY <1>2, <1>5, Kept

\* Types, when a message is appended to what is under way.
LEMMA WrittenTypes ==
    ASSUME TypeInv, UNCHANGED <<parser, rx, calls, hist, plan>>, NEW c \in Channels,
           NEW m \in Seq(Token), wire' = [wire EXCEPT ![c] = Append(@, m)], world' \in Worlds,
           \A d \in Channels : world'.sent[d] <= Len(plan[d])
    PROVE  TypeInv'
<1>1. wire' \in [Channels -> Seq(Seq(Token))]
  <2>1. wire \in [Channels -> Seq(Seq(Token))]
    BY DEF TypeInv
  <2>2. Append(wire[c], m) \in Seq(Seq(Token))
    BY <2>1, AppendProperties
  <2> QED
    BY <2>1, <2>2
<1>2. HistOK'
  BY HistKept
<1> QED
  BY <1>1, <1>2 DEF TypeInv, Worlds

LEMMA SendRequestKeeps == \A c \in Channels : IInv /\ SendRequest(c) => IInv'
<1> SUFFICES ASSUME NEW c \in Channels, IInv, SendRequest(c) PROVE IInv'
  OBVIOUS
<1>1. TypeInv /\ world \in Worlds
  BY DEF IInv, TypeInv, Worlds
<1>2. PICK n : n = world.sent[c] + 1
  OBVIOUS
<1>3. PICK m : m = Msg(c, n)
  OBVIOUS
<1>4. /\ UNCHANGED <<pc, parser, rx, plan, calls, hist>>
      /\ wire' = [wire EXCEPT ![c] = Append(@, m)]
      /\ world' = [world EXCEPT !.sent[c] = @ + 1]
      /\ world.sent[c] < Len(plan[c])
  BY <1>2, <1>3 DEF SendRequest, Msg, node
<1>5. /\ world.sent \in [Channels -> Nat] /\ \A d \in Channels : world.sent[d] <= Len(plan[d])
      /\ Len(plan[c]) \in Nat
  <2>1. plan[c] \in Seq(Seq(STRING))
    BY <1>1, RpcAssumption DEF TypeInv
  <2>2. Len(plan[c]) \in Nat
    BY <2>1, LenProperties
  <2> QED
    BY <1>1, <2>2 DEF TypeInv
<1>6. world'.sent = [world.sent EXCEPT ![c] = n] /\ world'.pings = world.pings
  BY <1>1, <1>2, <1>4 DEF Worlds
<1>7. n \in Nat \ {0} /\ n <= Len(plan[c])
  <2>1. PICK a \in Nat : a = world.sent[c]
    BY <1>5
  <2>2. PICK b \in Nat : b = Len(plan[c])
    BY <1>5
  <2> QED
    BY <1>2, <1>4, <2>1, <2>2
<1>8. m \in Seq(Token)
  <2>1. GoodText(m)
    BY <1>1, <1>3, <1>7, RequestSent
  <2> QED
    BY <2>1 DEF GoodText
<1>9. \A d \in Channels : /\ world'.sent[d] \in Nat /\ world.sent[d] <= world'.sent[d]
                          /\ world'.sent[d] <= Len(plan[d])
  <2>1. ASSUME NEW d \in Channels, d # c PROVE world'.sent[d] = world.sent[d] /\ world.sent[d] \in Nat
    BY <1>5, <1>6, <2>1
  <2>2. world'.sent[c] = n /\ world.sent[c] \in Nat
    BY <1>5, <1>6
  <2>3. world.sent[c] <= n
    <3>1. PICK a \in Nat : a = world.sent[c]
      BY <2>2
    <3> QED
      BY <1>2, <3>1
  <2>4. \A a \in Nat : a <= a
    OBVIOUS
  <2> QED
    BY <1>5, <1>7, <2>1, <2>2, <2>3, <2>4
<1>10. world' \in Worlds
  <2>1. world'.sent \in [Channels -> Nat]
    BY <1>5, <1>6, <1>7
  <2> QED
    BY <1>1, <1>4, <2>1 DEF Worlds
<1>11. TypeInv'
  BY <1>1, <1>4, <1>8, <1>9, <1>10, WrittenTypes
<1>12. Grows
  <2>1. world.pings \in Nat
    BY <1>1 DEF Worlds
  <2> QED
    BY <1>4, <1>6, <1>9, <2>1 DEF Grows
<1>13. m \in Texts(c)'
  <2>1. m = Msg(c, n)'
    BY <1>3, <1>4 DEF Msg
  <2>2. n \in 1..world'.sent[c]
    BY <1>5, <1>6, <1>7
  <2> QED
    BY <2>1, <2>2 DEF Texts
<1> QED
  BY <1>4, <1>11, <1>12, <1>13, WrittenKept

LEMMA SendPingKeeps == \A c \in Channels : IInv /\ SendPing(c) => IInv'
<1> SUFFICES ASSUME NEW c \in Channels, IInv, SendPing(c) PROVE IInv'
  OBVIOUS
<1>1. TypeInv /\ world \in Worlds
  BY DEF IInv, TypeInv, Worlds
<1>2. /\ UNCHANGED <<pc, parser, rx, plan, calls, hist>>
      /\ wire' = [wire EXCEPT ![c] = Append(@, Ping)]
      /\ world' = [world EXCEPT !.pings = @ + 1]
  BY DEF SendPing, node
<1>3. world.pings \in Nat /\ world'.pings = world.pings + 1 /\ world'.sent = world.sent
  BY <1>1, <1>2 DEF Worlds
<1>4. world' \in Worlds
  BY <1>1, <1>2, <1>3 DEF Worlds
<1>5. world'.pings \in Nat /\ world'.pings > 0 /\ world.pings <= world'.pings
  BY <1>3
<1>6. TypeInv'
  <2>1. \A d \in Channels : world'.sent[d] <= Len(plan[d])
    BY <1>1, <1>3 DEF TypeInv
  <2> QED
    BY <1>1, <1>2, <1>4, <2>1, PingIs, WrittenTypes
<1>7. Grows
  <2>1. \A d \in Channels : world.sent[d] \in Nat
    BY <1>1 DEF Worlds
  <2>2. \A d \in Channels : world.sent[d] <= world'.sent[d]
    BY <1>3, <2>1
  <2> QED
    BY <1>2, <1>5, <2>2 DEF Grows
<1>8. Ping \in Texts(c)'
  BY <1>5 DEF Texts
<1> QED
  BY <1>2, <1>6, <1>7, <1>8, WrittenKept


\* Messages under way that are lost: a channel of which a part had come is hurt.
LEMMA LossKept ==
    ASSUME IInv, TypeInv', Grows, UNCHANGED <<parser, rx, calls>>, hist'.split = hist.split,
           pc' = "hung" => pc = "hung", pc = "hung" => pc' = "hung", UpdateInv',
           \A d \in Channels : \/ wire'[d] = wire[d]
                               \/ wire'[d] = <<>> /\ (d \in hist.split => d \in hist'.hurt)
    PROVE  IInv'
<1>1. TypeInv
  BY DEF IInv
<1>2. ASSUME NEW d \in Channels, d \notin hist'.hurt, Reads(d) PROVE Reads(d)'
  <2>1. CASE wire'[d] = wire[d]
    BY <1>1, <1>2, <2>1, ReadsKept
  <2>2. CASE wire'[d] = <<>> /\ d \notin hist.split
    <3>1. InPlace(d, <<>>)'
      <4>1. Texts(d) \subseteq Texts(d)'
        BY <1>1, TextsGrow
      <4> QED
        BY <1>2, <2>2, <4>1, InPlaceKept DEF Reads
    <3>2. First(wire[d])' = <<>>
      BY <2>2 DEF First
    <3>3. InPlace(d, First(wire[d]))'
      BY <3>1, <3>2
    <3>4. Len(wire'[d]) = 0
      BY <2>2, EmptySeq
    <3>5. \A j \in 2..Len(wire'[d]) : wire'[d][j] \in Texts(d)'
      BY <3>4
    <3> QED
      BY <2>2, <3>1, <3>3, <3>5 DEF Reads
  <2> QED
    BY <1>2, <2>1, <2>2
<1> QED
  BY <1>2, Kept

\* More channels are hurt.
LEMMA HurtMore ==
    ASSUME TypeInv, NEW D, hist' = [hist EXCEPT !.hurt = @ \cup D]
    PROVE  /\ HistOK' /\ hist'.split = hist.split /\ hist'.hurt = hist.hurt \cup D
           /\ hist'.updates = hist.updates
<1>1. HistOK
  BY DEF TypeInv
<1> QED
  BY <1>1 DEF HistOK

LEMMA ConnectionLostKeeps == \A c \in Channels : IInv /\ ConnectionLost(c) => IInv'
<1> SUFFICES ASSUME NEW c \in Channels, IInv, ConnectionLost(c) PROVE IInv'
  OBVIOUS
<1>1. TypeInv /\ UpdateInv /\ world \in Worlds /\ wire \in [Channels -> Seq(Seq(Token))]
  BY DEF IInv, TypeInv, Worlds
<1>2. /\ UNCHANGED <<pc, parser, rx, plan, calls>>
      /\ wire' = [wire EXCEPT ![c] = <<>>]
      /\ world' = [world EXCEPT !.losses = world.losses + 1]
      /\ hist' = [hist EXCEPT !.hurt = @ \cup (hist.split \cap {c})]
  BY DEF ConnectionLost, node
<1>3. world' \in Worlds /\ world'.sent = world.sent /\ world'.pings = world.pings
  <2>1. world \in Worlds /\ world' = [world EXCEPT !.losses = world.losses + 1]
    BY <1>1, <1>2
  <2> QED
    BY <2>1 DEF Worlds
<1>4. /\ HistOK' /\ hist'.split = hist.split /\ hist'.updates = hist.updates
      /\ hist'.hurt = hist.hurt \cup (hist.split \cap {c})
  BY <1>1, <1>2, HurtMore
<1>5. wire' \in [Channels -> Seq(Seq(Token))]
  <2>1. <<>> \in Seq(Seq(Token))
    BY EmptySeq
  <2> QED
    BY <1>1, <1>2, <2>1
<1>6. TypeInv'
  BY <1>1, <1>2, <1>3, <1>4, <1>5 DEF TypeInv, Worlds
<1>7. Grows
  BY <1>1, <1>2, <1>3, <1>4 DEF Grows, Worlds
<1>8. UpdateInv'
  BY <1>1, <1>2, <1>4 DEF UpdateInv
<1>9. ASSUME NEW d \in Channels
      PROVE  \/ wire'[d] = wire[d]
             \/ wire'[d] = <<>> /\ (d \in hist.split => d \in hist'.hurt)
  BY <1>1, <1>2, <1>4
<1> QED
  BY <1>2, <1>4, <1>6, <1>7, <1>8, <1>9, LossKept

LEMMA OtaDisconnectsKeeps == IInv /\ OtaDisconnects => IInv'
<1> SUFFICES ASSUME IInv, OtaDisconnects PROVE IInv'
  OBVIOUS
<1>1. TypeInv /\ UpdateInv /\ world \in Worlds
  BY DEF IInv, TypeInv, Worlds
<1>2. /\ UNCHANGED <<parser, rx, plan, calls, world>> /\ pc = "starting" /\ pc' = "updating"
      /\ wire' = [d \in Channels |-> <<>>]
      /\ hist' = [hist EXCEPT !.hurt = @ \cup hist.split]
  BY DEF OtaDisconnects
<1>3. /\ HistOK' /\ hist'.split = hist.split /\ hist'.updates = hist.updates
      /\ hist'.hurt = hist.hurt \cup hist.split
  BY <1>1, <1>2, HurtMore
<1>4. wire' \in [Channels -> Seq(Seq(Token))]
  <2>1. <<>> \in Seq(Seq(Token))
    BY EmptySeq
  <2> QED
    BY <1>2, <2>1
<1>5. TypeInv'
  BY <1>1, <1>2, <1>3, <1>4 DEF TypeInv
<1>6. Grows
  BY <1>1, <1>2, <1>3 DEF Grows, Worlds
<1>7. UpdateInv'
  BY <1>1, <1>2, <1>3 DEF UpdateInv
<1>8. \A d \in Channels : wire'[d] = <<>> /\ (d \in hist.split => d \in hist'.hurt)
  BY <1>2, <1>3
<1> QED
  BY <1>2, <1>3, <1>5, <1>6, <1>7, <1>8, LossKept

\* A message that came in parts.
LEMMA DeliverPartKeeps == \A c \in Channels : IInv /\ DeliverPart(c) => IInv'
<1> SUFFICES ASSUME NEW c \in Channels, IInv, DeliverPart(c) PROVE IInv'
  OBVIOUS
<1>1. TypeInv /\ UpdateInv /\ world \in Worlds /\ wire \in [Channels -> Seq(Seq(Token))]
      /\ rx \in [Channels -> Seq(Token)]
  BY DEF IInv, TypeInv, Worlds
<1>2. /\ UNCHANGED <<pc, parser, plan, calls>> /\ wire[c] # <<>>
      /\ world' = [world EXCEPT !.parts = world.parts + 1]
      /\ hist' = [hist EXCEPT !.split = @ \cup {c}]
  BY DEF DeliverPart
<1>3. PICK w : w = wire[c]
  OBVIOUS
<1>4. w \in Seq(Seq(Token)) /\ Len(w) \in Nat /\ 1 \in 1..Len(w) /\ w[1] \in Seq(Token)
  <2>1. w \in Seq(Seq(Token)) /\ w # <<>>
    BY <1>1, <1>2, <1>3
  <2>2. Len(w) \in Nat \ {0}
    BY <2>1, EmptySeq
  <2>3. 1 \in 1..Len(w)
    BY <2>2
  <2> QED
    BY <2>1, <2>2, <2>3, ElementOfSeq
<1>5. PICK t : t = w[1]
  OBVIOUS
<1>6. PICK i \in 1..Len(t) - 1 :
        /\ rx' = [rx EXCEPT ![c] = @ \o SubSeq(t, 1, i)]
        /\ wire' = [wire EXCEPT ![c][1] = SubSeq(t, i + 1, Len(t))]
  BY <1>3, <1>5 DEF DeliverPart
<1>7. PICK a : a = SubSeq(t, 1, i)
  OBVIOUS
<1>8. PICK b : b = SubSeq(t, i + 1, Len(t))
  OBVIOUS
<1>9. a \in Seq(Token) /\ b \in Seq(Token) /\ a \o b = t
  <2>1. t \in Seq(Token) /\ Len(t) \in Nat
    BY <1>4, <1>5, LenProperties
  <2>2. PICK l \in Nat : l = Len(t)
    BY <2>1
  <2>3. i \in 1..l - 1 /\ i \in Nat /\ 1 \in 1..(l + 1) /\ i \in 0..l /\ l \in i..l
    BY <1>6, <2>2
  <2>4. a \in Seq(Token) /\ b \in Seq(Token)
    BY <1>7, <1>8, <2>1, <2>2, <2>3
  <2>5. SubSeq(t, 1, i) \o SubSeq(t, i + 1, Len(t)) = SubSeq(t, 1, Len(t))
    <3>1. 1 - 1 = 0
      OBVIOUS
    <3> QED
      BY <2>1, <2>2, <2>3, <3>1, ConcatAdjacentSubSeq
  <2> QED
    BY <1>7, <1>8, <2>1, <2>4, <2>5, SubSeqFull
<1>10. /\ rx' = [rx EXCEPT ![c] = rx[c] \o a]
       /\ wire' = [wire EXCEPT ![c] = [w EXCEPT ![1] = b]]
  BY <1>1, <1>3, <1>6, <1>7, <1>8
<1>11. /\ [w EXCEPT ![1] = b] \in Seq(Seq(Token)) /\ Len([w EXCEPT ![1] = b]) = Len(w)
       /\ \A j \in 1..Len(w) : [w EXCEPT ![1] = b][j] = IF j = 1 THEN b ELSE w[j]
  BY <1>4, <1>9, ExceptSeq
<1>12. rx' \in [Channels -> Seq(Token)] /\ rx'[c] = rx[c] \o a
  <2>1. rx[c] \in Seq(Token)
    BY <1>1
  <2>2. rx[c] \o a \in Seq(Token)
    BY <1>9, <2>1, ConcatProperties
  <2> QED
    BY <1>1, <1>10, <2>2
<1>13. PICK v : v = wire'[c]
  OBVIOUS
<1>14. /\ wire' \in [Channels -> Seq(Seq(Token))] /\ v = [w EXCEPT ![1] = b]
       /\ v \in Seq(Seq(Token)) /\ Len(v) = Len(w) /\ v[1] = b /\ v # <<>>
       /\ \A j \in 1..Len(w) : j # 1 => v[j] = w[j]
  <2>1. v = [w EXCEPT ![1] = b]
    BY <1>1, <1>10, <1>13
  <2>2. wire' \in [Channels -> Seq(Seq(Token))]
    BY <1>1, <1>10, <1>11
  <2>3. Len(v) # 0
    BY <1>4, <1>11, <2>1
  <2>4. v # <<>>
    BY <2>3, EmptySeq
  <2> QED
    BY <1>4, <1>11, <2>1, <2>2, <2>4
<1>15. world' \in Worlds /\ world'.sent = world.sent /\ world'.pings = world.pings
  <2>1. world \in Worlds /\ world' = [world EXCEPT !.parts = world.parts + 1]
    BY <1>1, <1>2
  <2> QED
    BY <2>1 DEF Worlds
<1>16. /\ HistOK' /\ hist'.split = hist.split \cup {c} /\ hist'.hurt = hist.hurt
       /\ hist'.updates = hist.updates
  BY <1>1, <1>2 DEF TypeInv, HistOK
<1>17. TypeInv'
  BY <1>1, <1>2, <1>12, <1>14, <1>15, <1>16 DEF TypeInv, Worlds
<1>18. Grows
  BY <1>1, <1>2, <1>15, <1>16 DEF Grows, Worlds
<1>19. UpdateInv'
  BY <1>1, <1>2, <1>16 DEF UpdateInv
<1>20. ASSUME NEW d \in Channels, Reads(d) PROVE Reads(d)'
  <2>1. Texts(d) \subseteq Texts(d)'
    BY <1>1, <1>17, <1>18, TextsGrow
  <2>2. CASE d # c
    <3>1. rx'[d] = rx[d] /\ wire'[d] = wire[d] /\ parser'[d] = parser[d]
      BY <1>1, <1>2, <1>10, <2>2
    <3> QED
      BY <1>1, <1>17, <1>18, <1>20, <3>1, ReadsKept
  <2>3. CASE d = c
    <3>1. \A j \in 2..Len(wire'[c]) : wire'[c][j] \in Texts(c)'
      <4>1. \A j \in 2..Len(w) : w[j] \in Texts(c)'
        BY <1>3, <1>20, <2>1, <2>3 DEF Reads
      <4>2. \A j \in 2..Len(w) : j \in 1..Len(w) /\ j # 1
        BY <1>4
      <4> QED
        BY <1>13, <1>14, <4>1, <4>2
    <3>2. First(wire[c]) = t /\ First(wire[c])' = b
      BY <1>2, <1>3, <1>5, <1>13, <1>14 DEF First
    <3>3. rx'[c] \o b = rx[c] \o t
      <4>1. PICK r \in Seq(Token) : r = rx[c]
        BY <1>1
      <4>2. a \in Seq(Token) /\ b \in Seq(Token)
        BY <1>9
      <4>3. (r \o a) \o b = r \o (a \o b)
        BY <4>2, ConcatAssociative
      <4> QED
        BY <1>9, <1>12, <4>1, <4>3
    <3>4. InPlace(c, t)
      BY <1>20, <2>3, <3>2 DEF Reads
    <3>5. InPlace(c, b)'
      <4>1. \A x \in Texts(c)' : GoodText(x)
        BY <1>17, TextsGoodNext
      <4>2. Whole(Texts(c), rx[c] \o t) /\ At(parser[c], rx[c] \o t)
        BY <3>4 DEF InPlace, Stream
      <4>3. Whole(Texts(c)', rx[c] \o t)
        BY <2>1, <2>3, <4>2 DEF Whole
      <4>4. parser'[c] = parser[c]
        BY <1>2
      <4> QED
        BY <1>9, <3>3, <4>1, <4>2, <4>3, <4>4 DEF InPlace, Stream
    <3>6. InPlace(c, First(wire[c]))'
      BY <3>2, <3>5
    <3>7. c \in hist'.split
      BY <1>16
    <3> QED
      BY <2>3, <3>1, <3>6, <3>7 DEF Reads
  <2> QED
    BY <2>2, <2>3
<1> QED
  BY <1>2, <1>17, <1>18, <1>19, <1>20, Kept


\* A ping that is taken from behind whole messages leaves them whole.
LEMMA WholeBeforePing ==
    ASSUME NEW T, \A t \in T : GoodText(t), NEW x \in Seq(Token), Whole(T, x \o Ping)
    PROVE  Whole(T, x)
<1> DEFINE s == x \o Ping
<1>1. PICK l \in Nat : l = Len(x)
  OBVIOUS
<1>2. /\ s \in Seq(Token) /\ Len(s) = l + 1 /\ s[l + 1] = Ping[1]
      /\ \A k \in 1..l : s[k] = x[k]
  <2>1. Ping \in Seq(Token) /\ Len(Ping) = 1
    BY PingIs
  <2>2. /\ s \in Seq(Token) /\ Len(s) = Len(x) + Len(Ping)
        /\ \A k \in 1..Len(x) : s[k] = x[k]
        /\ \A k \in 1..Len(Ping) : s[Len(x) + k] = Ping[k]
    <3>1. Ping \in Seq(Token)
      BY <2>1
    <3> QED
      BY <3>1, Joined
  <2>3. 1 \in 1..Len(Ping)
    BY <2>1
  <2> QED
    BY <1>1, <2>1, <2>2, <2>3
<1>3. Whole(T, s)
  OBVIOUS
<1> HIDE DEF s
<1>4. ASSUME NEW k \in 1..l PROVE \E t \in T : \E i \in 1..Len(t) : Follows(t, i, x, k)
  <2>1. k \in 1..Len(s)
    BY <1>2
  <2>2. PICK t \in T : \E i \in 1..Len(t) : Follows(t, i, s, k)
    BY <1>3, <2>1 DEF Whole
  <2>3. PICK i \in 1..Len(t) : Follows(t, i, s, k)
    BY <2>2
  <2>4. PICK n \in Nat : n = Len(t)
    BY <2>2 DEF GoodText
  <2>5. i \in 1..n /\ n - i \in Nat
    BY <2>4
  <2>6. PICK d \in Nat : d = n - i
    BY <2>5
  <2>7. /\ k + d <= l + 1
        /\ \A j \in 0..d : s[k + j] = t[i + j]
        /\ k + d + 1 <= l + 1 => Begins(s[k + d + 1])
    BY <1>2, <2>3, <2>4, <2>6 DEF Follows
  <2>8. k + d # l + 1
    <3> SUFFICES ASSUME k + d = l + 1 PROVE FALSE
      OBVIOUS
    <3>1. d \in 0..d /\ i + d = n /\ d # 0
      BY <2>5, <2>6
    <3>2. t[n] = Ping[1]
      BY <1>2, <2>7, <3>1
    <3>3. n # 1 \/ i # n
      BY <2>5, <2>6, <3>1
    <3>4. n # 1
      BY <2>5, <3>3
    <3>5. t[n].tok = "lf"
      BY <2>2, <2>4, <3>4 DEF GoodText
    <3> QED
      BY <3>2, <3>5, PingIs
  <2>9. k + d <= l
    BY <2>7, <2>8
  <2>10. ASSUME NEW j \in 0..d PROVE x[k + j] = t[i + j]
    <3>1. k + j \in 1..l
      BY <2>9
    <3> QED
      BY <1>2, <2>7, <3>1
  <2>11. ASSUME k + d + 1 <= l PROVE Begins(x[k + d + 1])
    <3>1. k + d + 1 \in 1..l /\ k + d + 1 <= l + 1
      BY <2>11
    <3> QED
      BY <1>2, <2>7, <3>1
  <2>12. Follows(t, i, x, k)
    BY <1>1, <2>4, <2>6, <2>9, <2>10, <2>11 DEF Follows
  <2> QED
    BY <2>12
<1> QED
  BY <1>1, <1>4 DEF Whole

LEMMA Regroup == \A a, b, d \in Seq(Token) : (a \o b) \o d = a \o (b \o d)
BY ConcatAssociative

\* Messages that come behind one another.
LEMMA MessagesWhole ==
    ASSUME NEW T, \A t \in T : GoodText(t), NEW p, NEW x \in Seq(Token),
           NEW w \in Seq(Seq(Token)), w # <<>>, \A i \in 2..Len(w) : w[i] \in T,
           Whole(T, x \o w[1]), At(p, x \o w[1])
    PROVE  Whole(T, x \o FlattenSeq(w)) /\ At(p, x \o FlattenSeq(w))
<1> DEFINE Good == {y \in Seq(Token) : Whole(T, y) /\ At(p, y)}
<1>1. x \o w[1] \in Good
  <2>1. Len(w) \in Nat \ {0}
    BY EmptySeq
  <2>2. 1 \in 1..Len(w)
    BY <2>1
  <2>3. w[1] \in Seq(Token)
    BY <2>2, ElementOfSeq
  <2>4. x \o w[1] \in Seq(Token)
    BY <2>3, ConcatProperties
  <2> QED
    BY <2>4
<1>2. ASSUME NEW i \in 2..Len(w), NEW y \in Seq(Token), x \o y \in Good
      PROVE  x \o (y \o w[i]) \in Good
  <2>1. PICK m \in T : m = w[i]
    OBVIOUS
  <2>2. PICK z \in Seq(Token) : z = x \o y /\ Whole(T, z) /\ At(p, z)
    BY <1>2
  <2>3. m \in Seq(Token) /\ z \o m \in Seq(Token) /\ Whole(T, z \o m) /\ At(p, z \o m)
    BY <2>2, MoreWhole
  <2>4. (x \o y) \o m = x \o (y \o m)
    <3>1. m \in Seq(Token)
      BY <2>3
    <3> HIDE DEF Good
    <3> QED
      BY <3>1, Regroup, Zenon
  <2> QED
    BY <2>1, <2>2, <2>3, <2>4
<1>3. Good \subseteq Seq(Token)
  OBVIOUS
<1> HIDE DEF Good
<1>4. x \o FlattenSeq(w) \in Good
  BY <1>1, <1>2, <1>3, PiecesMade
<1> QED
  BY <1>4 DEF Good

LEMMA FlatIs ==
    ASSUME NEW S, NEW w \in Seq(Seq(S)), w # <<>>
    PROVE  FlattenSeq(w) \in Seq(S)
<1>1. <<>> \in Seq(S)
  BY EmptySeq
<1>2. \A a, b \in Seq(S) : a \o b \in Seq(S)
  BY ConcatProperties
<1>3. ASSUME NEW i \in 1..Len(w) PROVE w[i] \in Seq(S)
  BY ElementOfSeq
<1>4. 1 \in 1..Len(w) /\ \A i \in 2..Len(w) : i \in 1..Len(w)
  <2>1. Len(w) \in Nat \ {0}
    BY EmptySeq
  <2> QED
    BY <2>1
<1>5. <<>> \o w[1] \in Seq(S)
  BY <1>1, <1>2, <1>3, <1>4
<1>6. ASSUME NEW i \in 2..Len(w), NEW p \in Seq(S), <<>> \o p \in Seq(S)
      PROVE  <<>> \o (p \o w[i]) \in Seq(S)
  BY <1>1, <1>2, <1>3, <1>4
<1>7. Seq(S) \subseteq Seq(S)
  OBVIOUS
<1> QED
  BY <1>1, <1>5, <1>6, <1>7, PiecesMade


\* What is left of the messages under way when the first k are delivered.
LEMMA WireRest ==
    ASSUME NEW w \in Seq(Seq(Token)), NEW k \in 1..Len(w), NEW v, v = SubSeq(w, k + 1, Len(w))
    PROVE  /\ v \in Seq(Seq(Token)) /\ Len(v) \in Nat
           /\ \A j \in 1..Len(v) : v[j] = w[k + j] /\ k + j \in 2..Len(w)
           /\ v # <<>> => 1 \in 1..Len(v)
<1>1. PICK l \in Nat : l = Len(w)
  BY LenProperties
<1>2. k + 1 \in Int /\ k \in 1..l /\ \A i \in k + 1..l : i \in 1..l
  BY <1>1
<1>3. \A i \in k + 1..l : w[i] \in Seq(Token)
  BY <1>1, <1>2, ElementOfSeq
<1>4. /\ v \in Seq(Seq(Token)) /\ Len(v) = IF k + 1 <= l THEN l - (k + 1) + 1 ELSE 0
      /\ \A i \in 1..l - (k + 1) + 1 : v[i] = w[(k + 1) + i - 1]
  <2>1. l \in Int
    BY <1>1
  <2>2. v = SubSeq(w, k + 1, l)
    BY <1>1
  <2> HIDE DEF Token
  <2> QED
    BY <1>2, <1>3, <2>1, <2>2, SubSeqProperties
<1>5. PICK n \in Nat : n = l - k
  BY <1>2
<1>6. Len(v) = n /\ \A i \in 1..n : v[i] = w[k + i] /\ k + i \in 2..l
  <2>1. l - (k + 1) + 1 = n /\ (~(k + 1 <= l) => n = 0)
    BY <1>2, <1>5
  <2>2. \A i \in 1..n : (k + 1) + i - 1 = k + i /\ k + i \in 2..l
    BY <1>2, <1>5
  <2>3. Len(v) = n
    BY <1>4, <2>1
  <2> QED
    BY <1>4, <2>1, <2>2, <2>3
<1>7. v # <<>> => 1 \in 1..n
  <2>1. v # <<>> => n \in Nat \ {0}
    BY <1>4, <1>6, EmptySeq
  <2> QED
    BY <2>1
<1> QED
  BY <1>1, <1>4, <1>6, <1>7

\* The first l of the messages under way.
Fronts(w, l, u) ==
    /\ u \in Seq(Seq(Token)) /\ Len(u) = l /\ u # <<>> /\ u[1] = w[1]
    /\ \A i \in 2..Len(u) : u[i] = w[i] /\ i \in 2..Len(w)

LEMMA WireFront ==
    ASSUME NEW w \in Seq(Seq(Token)), NEW l \in 1..Len(w), NEW u, u = SubSeq(w, 1, l)
    PROVE  Fronts(w, l, u)
<1>1. PICK n \in Nat : n = Len(w)
  BY LenProperties
<1>2. l \in Nat /\ l \in 1..n /\ 1 \in 1..l /\ \A i \in 1..l : i \in 1..n
  BY <1>1
<1>3. \A i \in 1..l : w[i] \in Seq(Token)
  BY <1>1, <1>2, ElementOfSeq
<1>4. /\ u \in Seq(Seq(Token)) /\ Len(u) = IF 1 <= l THEN l - 1 + 1 ELSE 0
      /\ \A i \in 1..l - 1 + 1 : u[i] = w[1 + i - 1]
  <2>1. l \in Int /\ 1 \in Int
    BY <1>2
  <2> HIDE DEF Token
  <2> QED
    BY <1>3, <2>1, SubSeqProperties
<1>5. l - 1 + 1 = l /\ 1 <= l /\ l # 0 /\ \A i \in 1..l : 1 + i - 1 = i
  BY <1>2
<1>6. Len(u) = l /\ \A i \in 1..l : u[i] = w[i]
  BY <1>4, <1>5
<1>7. u # <<>>
  BY <1>5, <1>6, EmptySeq
<1>8. \A i \in 2..l : i \in 1..l /\ i \in 2..n
  BY <1>2
<1> QED
  BY <1>1, <1>2, <1>4, <1>6, <1>7, <1>8 DEF Fronts

LEMMA DeliverKeeps == \A c \in Channels : IInv /\ Deliver(c) => IInv'
<1> SUFFICES ASSUME NEW c \in Channels, IInv, Deliver(c) PROVE IInv'
  OBVIOUS
<1>1. TypeInv /\ UpdateInv /\ wire \in [Channels -> Seq(Seq(Token))] /\ rx \in [Channels -> Seq(Token)]
  BY DEF IInv, TypeInv
<1>2. UNCHANGED <<pc, parser, plan, world, calls>>
  BY DEF Deliver
<1>3. PICK w \in Seq(Seq(Token)) : w = wire[c]
  BY <1>1
<1>4. PICK x \in Seq(Token) : x = rx[c]
  BY <1>1
<1>5. PICK k \in 1..Len(w), l \in 1..Len(w) :
        /\ wire' = [wire EXCEPT ![c] = SubSeq(w, k + 1, Len(w))]
        /\ IF w[1] = Ping
           THEN (\E e : hist' = [hist EXCEPT !.cut = e]) /\ UNCHANGED rx
           ELSE LET text == FlattenSeq(SubSeq(w, 1, l))
                    room == RxCap - Len(x)
                IN  /\ rx' = [rx EXCEPT ![c] = x \o SubSeq(text, 1, IF room < Len(text) THEN room ELSE Len(text))]
                    /\ hist' = IF room < Len(text) THEN [hist EXCEPT !.hurt = @ \cup {c}] ELSE hist
  BY <1>1, <1>3, <1>4 DEF Deliver
<1>6. PICK v : v = SubSeq(w, k + 1, Len(w))
  OBVIOUS
<1>7. /\ v \in Seq(Seq(Token)) /\ Len(v) \in Nat
      /\ \A j \in 1..Len(v) : v[j] = w[k + j] /\ k + j \in 2..Len(w)
      /\ v # <<>> => 1 \in 1..Len(v)
  BY <1>6, WireRest
<1>8. wire' \in [Channels -> Seq(Seq(Token))] /\ wire'[c] = v
  BY <1>1, <1>5, <1>6, <1>7
<1>9. PICK u : u = SubSeq(w, 1, l)
  OBVIOUS
<1>10. /\ u \in Seq(Seq(Token)) /\ Len(u) = l /\ u # <<>> /\ u[1] = w[1]
       /\ \A i \in 2..Len(u) : u[i] = w[i] /\ i \in 2..Len(w)
  <2>1. \A a \in Seq(Seq(Token)) : \A i \in 1..Len(a) : \A b : b = SubSeq(a, 1, i) => Fronts(a, i, b)
    BY WireFront
  <2>2. Fronts(w, l, u)
    BY <1>9, <2>1, Zenon
  <2> QED
    BY <2>2 DEF Fronts
<1>11. PICK text \in Seq(Token) : text = FlattenSeq(u)
  BY <1>10, FlatIs
<1>12. PICK m : m = IF RxCap - Len(x) < Len(text) THEN RxCap - Len(x) ELSE Len(text)
  OBVIOUS
<1>13. PICK y : y = SubSeq(text, 1, m)
  OBVIOUS
<1>14. w[1] # Ping => /\ rx' = [rx EXCEPT ![c] = x \o y]
                      /\ hist' = IF RxCap - Len(x) < Len(text) THEN [hist EXCEPT !.hurt = @ \cup {c}] ELSE hist
  BY <1>5, <1>9, <1>11, <1>12, <1>13
<1>15. y \in Seq(Token)
  <2>1. PICK n \in Nat : n = Len(text)
    BY LenProperties
  <2>2. PICK a \in Nat : a = Len(x)
    BY LenProperties
  <2>3. RxCap \in Nat
    BY RpcAssumption
  <2>4. m = IF RxCap - a < n THEN RxCap - a ELSE n
    BY <1>12, <2>1, <2>2
  <2>5. m \in Int /\ 1 \in Int /\ \A i \in 1..m : i \in 1..n
    BY <2>3, <2>4
  <2>6. \A i \in 1..m : text[i] \in Token
    BY <2>1, <2>5, ElementOfSeq
  <2> QED
    BY <1>13, <2>5, <2>6, SubSeqProperties
<1>16. /\ HistOK' /\ hist'.split = hist.split /\ hist'.updates = hist.updates
       /\ hist.hurt \subseteq hist'.hurt
       /\ w[1] # Ping /\ RxCap - Len(x) < Len(text) => c \in hist'.hurt
  <2>1. CASE w[1] = Ping
    <3>1. \E e : hist' = [hist EXCEPT !.cut = e]
      BY <1>5, <2>1
    <3>2. HistOK' /\ SameHist
      BY <1>1, <3>1, HistKept
    <3>3. hist'.updates = hist.updates
      BY <1>1, <3>1 DEF TypeInv, HistOK
    <3> QED
      BY <2>1, <3>2, <3>3 DEF SameHist
  <2>2. CASE w[1] # Ping /\ RxCap - Len(x) < Len(text)
    <3>1. hist' = [hist EXCEPT !.hurt = @ \cup {c}]
      BY <1>14, <2>2
    <3>2. /\ HistOK' /\ hist'.split = hist.split /\ hist'.hurt = hist.hurt \cup {c}
          /\ hist'.updates = hist.updates
      BY <1>1, <3>1, HurtMore
    <3> QED
      BY <3>2
  <2>3. CASE w[1] # Ping /\ ~(RxCap - Len(x) < Len(text))
    <3>1. hist' = hist
      BY <1>14, <2>3
    <3>2. HistOK'
      BY <1>1, <3>1, HistKept
    <3> QED
      BY <2>3, <3>1, <3>2
  <2> QED
    BY <2>1, <2>2, <2>3
<1>17. rx' \in [Channels -> Seq(Token)] /\ \A d \in Channels : d # c => rx'[d] = rx[d]
  <2>1. x \o y \in Seq(Token)
    BY <1>15, ConcatProperties
  <2>2. UNCHANGED rx \/ rx' = [rx EXCEPT ![c] = x \o y]
    BY <1>5, <1>14
  <2> QED
    BY <1>1, <2>1, <2>2
<1>18. TypeInv'
  BY <1>1, <1>2, <1>8, <1>16, <1>17 DEF TypeInv
<1>19. Grows
  <2>1. world \in Worlds
    BY <1>1 DEF TypeInv, Worlds
  <2>2. world.pings <= world.pings /\ \A d \in Channels : world.sent[d] <= world.sent[d]
    BY <2>1 DEF Worlds
  <2> QED
    BY <1>2, <1>16, <2>2 DEF Grows
<1>20. UpdateInv'
  BY <1>1, <1>2, <1>16 DEF UpdateInv
<1>21. ASSUME Reads(c), c \notin hist'.hurt PROVE Reads(c)'
  <2>1. PICK T : T = Texts(c)'
    OBVIOUS
  <2>2. PICK p : p = parser[c]
    OBVIOUS
  <2>3. Texts(c) \subseteq T /\ \A t \in T : GoodText(t)
    <3>1. \A t \in Texts(c)' : GoodText(t)
      BY <1>18, TextsGoodNext
    <3> QED
      BY <1>1, <1>18, <1>19, <2>1, <3>1, TextsGrow
  <2>4. w # <<>> /\ First(wire[c]) = w[1]
    <3>1. Len(w) # 0
      BY <1>5
    <3>2. w # <<>>
      BY <3>1, EmptySeq
    <3> QED
      BY <1>3, <3>2 DEF First
  <2>5. Whole(T, x \o w[1]) /\ At(p, x \o w[1])
    <3>1. Whole(Texts(c), x \o w[1]) /\ At(p, x \o w[1])
      BY <1>4, <1>21, <2>2, <2>4 DEF Reads, InPlace, Stream
    <3> QED
      BY <2>3, <3>1 DEF Whole
  <2>6. \A j \in 2..Len(w) : w[j] \in T
    BY <1>3, <1>21, <2>3 DEF Reads
  <2>7. PICK z : z = rx'[c]
    OBVIOUS
  <2>8. Whole(T, z) /\ At(p, z)
    <3>1. CASE w[1] = Ping
      <4>1. z = x
        BY <1>4, <1>5, <2>7, <3>1
      <4> QED
        BY <2>3, <2>5, <3>1, <4>1, WholeBeforePing, AtBeforePing
    <3>2. CASE w[1] # Ping
      <4>1. m = Len(text)
        BY <1>12, <1>16, <1>21, <3>2
      <4>2. y = text
        BY <1>13, <4>1, SubSeqFull
      <4>3. z = x \o FlattenSeq(u)
        BY <1>1, <1>11, <1>14, <2>7, <3>2, <4>2
      <4>4. \A i \in 2..Len(u) : u[i] \in T
        BY <1>10, <2>6
      <4>5. Whole(T, x \o u[1]) /\ At(p, x \o u[1])
        BY <1>10, <2>5
      <4>6. Whole(T, x \o FlattenSeq(u)) /\ At(p, x \o FlattenSeq(u))
        BY <1>10, <2>3, <4>4, <4>5, MessagesWhole
      <4> QED
        BY <4>3, <4>6
    <3> QED
      BY <3>1, <3>2
  <2>9. InPlace(c, <<>>)'
    <3>1. z \in Seq(Token)
      BY <1>17, <2>7
    <3>2. z \o <<>> = z /\ <<>> \in Seq(Token)
      BY <3>1, ConcatEmptySeq, EmptySeq
    <3>3. parser'[c] = p
      BY <1>2, <2>2
    <3> QED
      BY <2>1, <2>3, <2>7, <2>8, <3>2, <3>3 DEF InPlace, Stream
  <2>10. \A j \in 1..Len(v) : v[j] \in T
    BY <1>7, <2>6
  <2>11. InPlace(c, First(wire[c]))'
    <3>1. CASE v = <<>>
      <4>1. First(wire[c])' = <<>>
        BY <1>8, <3>1 DEF First
      <4> QED
        BY <2>9, <4>1
    <3>2. CASE v # <<>>
      <4>1. PICK e : e = v[1]
        OBVIOUS
      <4>2. First(wire[c])' = e
        BY <1>8, <3>2, <4>1 DEF First
      <4>3. e \in Texts(c)'
        BY <1>7, <2>1, <2>10, <3>2, <4>1
      <4>4. InPlace(c, e)'
        BY <1>18, <2>9, <4>3, InPlaceMore
      <4> QED
        BY <4>2, <4>4
    <3> QED
      BY <3>1, <3>2
  <2>12. /\ \A j \in 2..Len(wire'[c]) : wire'[c][j] \in Texts(c)'
         /\ wire'[c] # <<>> => wire'[c][1] \in Texts(c)'
    <3>1. \A j \in 2..Len(v) : j \in 1..Len(v)
      BY <1>7
    <3> QED
      BY <1>7, <1>8, <2>1, <2>10, <3>1
  <2> QED
    BY <2>9, <2>11, <2>12 DEF Reads
<1>22. ASSUME NEW d \in Channels, d # c, Reads(d) PROVE Reads(d)'
  <2>1. rx'[d] = rx[d] /\ wire'[d] = wire[d] /\ parser'[d] = parser[d]
    BY <1>1, <1>2, <1>5, <1>17, <1>22
  <2> QED
    BY <1>1, <1>18, <1>19, <1>22, <2>1, ReadsKept
<1> QED
  BY <1>2, <1>18, <1>19, <1>20, <1>21, <1>22, Kept


-----------------------------------------------------------------------------
(* The invariant holds.                                                    *)

LEMMA NoRequestIs ==
    /\ NoRequest \in Parsers /\ StageOK(NoRequest)
    /\ \A s : At(NoRequest, s)
<1>1. NoSegment \in Segments
  BY DEF NoSegment, Segments, Names
<1>2. NoMsg \in {"none", "reply", "phantom"} \X Nat
  BY DEF NoMsg
<1>3. <<>> \in Seq(Segments) /\ "" \in Names /\ "REQ_TYPE" \in Stages
  BY DEF Names, Stages
<1>4. NoRequest \in Parsers
  BY <1>1, <1>2, <1>3 DEF NoRequest, Parsers
<1>5. NoRequest.stage = "REQ_TYPE" /\ NoRequest.window = ""
  BY DEF NoRequest
<1> QED
  BY <1>4, <1>5 DEF StageOK, At

LEMMA InitKeeps == Init => IInv
<1> SUFFICES ASSUME Init PROVE IInv
  OBVIOUS
<1>1. /\ pc = "loop" /\ plan \in Plans
      /\ parser = [c \in Channels |-> NoRequest]
      /\ rx = [c \in Channels |-> <<>>] /\ wire = [c \in Channels |-> <<>>]
      /\ world = [sent |-> [c \in Channels |-> 0], events |-> 0, pings |-> 0, parts |-> 0, losses |-> 0]
      /\ calls = [c \in Channels |-> <<>>]
      /\ hist = [cut |-> {}, bad |-> {}, gone |-> {}, split |-> {}, hurt |-> {}, updates |-> <<>>]
  BY DEF Init
<1>2. <<>> \in Seq(Token) /\ <<>> \in Seq(Seq(Token)) /\ <<>> \in Seq([asked : BOOLEAN, on : Channels])
  BY EmptySeq
<1>3. TypeInv
  <2>1. HistOK
    BY <1>1, <1>2 DEF HistOK
  <2>2. \A c \in Channels : 0 <= Len(plan[c])
    <3>1. ASSUME NEW c \in Channels PROVE Len(plan[c]) \in Nat
      <4>1. plan[c] \in Seq(Seq(STRING))
        BY <1>1, RpcAssumption
      <4> QED
        BY <4>1, LenProperties
    <3>2. \A n \in Nat : 0 <= n
      OBVIOUS
    <3> QED
      BY <3>1, <3>2
  <2>3. world \in Worlds /\ \A c \in Channels : world.sent[c] = 0
    BY <1>1 DEF Worlds
  <2>4. /\ parser \in [Channels -> Parsers]
        /\ rx \in [Channels -> Seq(Token)]
        /\ wire \in [Channels -> Seq(Seq(Token))]
        /\ calls = [c \in Channels |-> calls[c]]
    BY <1>1, <1>2, NoRequestIs
  <2> QED
    BY <1>1, <2>1, <2>2, <2>3, <2>4 DEF TypeInv, Worlds
<1>4. StageInv /\ UpdateInv /\ CallsInv /\ HangsOnlyHurt
  <2>1. StageInv
    BY <1>1, NoRequestIs DEF StageInv
  <2>2. \A c \in Channels : calls[c] = <<>>
    BY <1>1
  <2> QED
    BY <1>1, <2>1, <2>2 DEF UpdateInv, CallsInv, HangsOnlyHurt
<1>5. ASSUME NEW c \in Channels PROVE Reads(c)
  <2>1. wire[c] = <<>> /\ rx[c] = <<>> /\ parser[c] = NoRequest
    BY <1>1
  <2>2. <<>> \o <<>> = <<>> /\ Len(<<>>) = 0
    BY <1>2, ConcatEmptySeq, EmptySeq
  <2>3. \A t \in Texts(c) : GoodText(t)
    BY <1>3, TextsGood
  <2>4. Whole(Texts(c), <<>>)
    BY <2>2 DEF Whole
  <2>5. InPlace(c, <<>>)
    BY <1>2, <2>1, <2>2, <2>3, <2>4, NoRequestIs DEF InPlace, Stream
  <2>6. First(wire[c]) = <<>>
    BY <2>1 DEF First
  <2>7. \A j \in 2..Len(wire[c]) : wire[c][j] \in Texts(c)
    BY <2>1, <2>2
  <2> QED
    BY <2>1, <2>5, <2>6, <2>7 DEF Reads
<1> QED
  BY <1>3, <1>4, <1>5 DEF IInv, StreamInv

LEMMA StutterKeeps == IInv /\ UNCHANGED vars => IInv'
<1> SUFFICES ASSUME IInv, UNCHANGED vars PROVE IInv'
  OBVIOUS
<1>1. UNCHANGED <<pc, parser, rx, wire, plan, world, calls, hist>>
  BY DEF vars, node
<1>2. TypeInv /\ world \in Worlds /\ UpdateInv
  BY DEF IInv, TypeInv, Worlds
<1>3. HistOK' /\ SameHist
  BY <1>1, <1>2, HistKept
<1>4. UpdateInv'
  BY <1>1, <1>2 DEF UpdateInv
<1> QED
  BY <1>1, <1>2, <1>3, <1>4, QuietKept

\* A step of the main loop.
LEMMA MainLoopKeeps == IInv /\ MainLoop => IInv'
<1> SUFFICES ASSUME IInv, MainLoop PROVE IInv'
  OBVIOUS
<1>1. CASE WioLoop
  BY <1>1, WioLoopKeeps
<1>2. CASE DrainEventQueue
  BY <1>2, DrainKeeps
<1>3. CASE OtaDisconnects
  BY <1>3, OtaDisconnectsKeeps
<1>4. CASE \E c \in Channels : ProcessStream(c)
  BY <1>4, ProcessStreamKeeps
<1> QED
  BY <1>1, <1>2, <1>3, <1>4 DEF MainLoop

LEMMA NextKeeps == IInv /\ [Next]_vars => IInv'
<1> SUFFICES ASSUME IInv, [Next]_vars PROVE IInv'
  OBVIOUS
<1>1. CASE MainLoop
  BY <1>1, MainLoopKeeps
<1>2. CASE OtaResponse
  BY <1>2, OtaResponseKeeps
<1>3. CASE RebootFires
  BY <1>3, RebootKeeps
<1>4. CASE ReportEvent
  BY <1>4, ReportKeeps
<1>5. ASSUME NEW c \in Channels,
             \/ SendRequest(c) \/ SendPing(c) \/ Deliver(c) \/ DeliverPart(c)
             \/ Sent(c) \/ ConnectionLost(c) \/ KeepaliveCheck(c)
             \/ Connected(c) \/ ConfirmHello(c)
      PROVE  IInv'
  <2>1. CASE SendRequest(c)
    BY <2>1, SendRequestKeeps
  <2>2. CASE SendPing(c)
    BY <2>2, SendPingKeeps
  <2>3. CASE Deliver(c)
    BY <2>3, DeliverKeeps
  <2>4. CASE DeliverPart(c)
    BY <2>4, DeliverPartKeeps
  <2>5. CASE Sent(c)
    BY <2>5, SentKeeps
  <2>6. CASE ConnectionLost(c)
    BY <2>6, ConnectionLostKeeps
  <2>7. CASE KeepaliveCheck(c)
    BY <2>7, KeepaliveKeeps
  <2>8. CASE Connected(c)
    BY <2>8, ConnectedKeeps
  <2>9. CASE ConfirmHello(c)
    BY <2>9, ConfirmKeeps
  <2> QED
    BY <1>5, <2>1, <2>2, <2>3, <2>4, <2>5, <2>6, <2>7, <2>8, <2>9
<1>6. CASE UNCHANGED vars
  BY <1>6, StutterKeeps
<1> QED
  BY <1>1, <1>2, <1>3, <1>4, <1>5, <1>6 DEF Next

\* The inductive invariant: every channel that lost nothing has its parser at a place
\* of the text where what the stage expects is there to be read.
THEOREM NodeInv == Spec => []IInv
<1> QED
  BY InitKeeps, NextKeeps, PTL DEF Spec

\* The parsers, the received text and the messages under way keep their types
\* (rpc_server.cpp 96-142).
THEOREM NodeTypes == Spec => []TypeInv
<1>1. IInv => TypeInv
  BY DEF IInv
<1> QED
  BY <1>1, NodeInv, PTL

\* For any plan of requests, with buffers of any size and connections that are lost at
\* any time: a method is called with the names and arguments of one request, as many
\* as it declares, unless the channel lost text or came in parts (rpc_server.cpp 391-451).
THEOREM CallsAreWhole == Spec => []CallsWhole
<1>1. IInv => CallsWhole
  BY DEF IInv, CallsInv, CallsWhole, Given
<1> QED
  BY <1>1, NodeInv, PTL

\* The same of the parser that stops dead: only where a message came in parts or was cut
\* short, in a grove name that is too long with no "/" behind it, or at a ping behind a
\* hidden keyword (rpc_server.cpp 314, 442-478).
THEOREM HangsAreExplained == Spec => []HangsOnlyHurt
<1>1. IInv => HangsOnlyHurt
  BY DEF IInv
<1> QED
  BY <1>1, NodeInv, PTL

-----------------------------------------------------------------------------
(* What the server reads of what the node writes.                          *)

PartNames == {"open", "body", "status", "close"}

-----------------------------------------------------------------------------
(* Folds.  A fold is a function on sets of positions; only the first ones  *)
(* matter, of which the last is taken off.                                 *)

LEMMA LastTaken ==
    ASSUME NEW m \in Nat \ {0}, NEW s \in SUBSET (1..m)
    PROVE  /\ m \in s => Max(s) = m /\ s \ {m} \in SUBSET (1..(m - 1))
           /\ m \notin s => \A x : s \ {x} \in SUBSET (1..(m - 1))
<1>1. \A x \in s : m >= x /\ x \in 1..m
  OBVIOUS
<1>2. ASSUME m \in s PROVE Max(s) = m
  <2>1. \A x \in s : (\A y \in s : x >= y) => x = m
    BY <1>1, <1>2
  <2> QED
    BY <1>1, <1>2, <2>1 DEF Max
<1>3. \A x \in 1..m : x # m => x \in 1..(m - 1)
  OBVIOUS
<1> QED
  BY <1>1, <1>2, <1>3

LEMMA FirstOnes ==
    ASSUME NEW k \in Nat \ {0}
    PROVE  1..k # {} /\ Max(1..k) = k /\ (1..k) \ {k} = 1..(k - 1)
<1>1. k \in 1..k
  OBVIOUS
<1> QED
  BY <1>1, LastTaken

\* A piece of a message on connection no, as PutAll makes it.
ThePiece(no, msg, part, whole) ==
    [msg |-> msg, part |-> part, no |-> no, whole |-> IF part = "close" THEN whole ELSE <<>>]

\* g puts the pieces of a message, up to the n-th (PutAll).
Putting(c, w, msg, parts, whole, n, g) ==
    g = [s \in SUBSET (1..n) |->
            IF s = {} THEN w
            ELSE NetworkPuts(c, g[s \ {Max(s)}], ThePiece(link[c].no, msg, parts[Max(s)], whole))]

\* PutAll, one piece after the other.
PutInTurn(c, w, msg, parts, whole) ==
    \E f : /\ f[0] = w
           /\ \A k \in 1..Len(parts) :
                 f[k] = NetworkPuts(c, f[k - 1], ThePiece(link[c].no, msg, parts[k], whole))
           /\ PutAll(c, w, msg, parts, whole) = f[Len(parts)]

LEMMA PutAllMade ==
    ASSUME NEW c, NEW w, NEW msg, NEW parts \in Seq(PartNames), NEW whole
    PROVE  PutInTurn(c, w, msg, parts, whole)
<1> DEFINE P(n, g) == Putting(c, w, msg, parts, whole, n, g)
           Put(k, v) == NetworkPuts(c, v, ThePiece(link[c].no, msg, parts[k], whole))
           fold == CHOOSE g : P(Len(parts), g)
<1>1. Len(parts) \in Nat /\ DOMAIN parts = 1..Len(parts)
  OBVIOUS
<1>2. PutAll(c, w, msg, parts, whole) = fold[1..Len(parts)]
  BY <1>1 DEF PutAll, FoldLeft, MapThenFoldSet, Putting, ThePiece
<1>3. \A n, g : P(n, g) <=> g = [s \in SUBSET (1..n) |-> IF s = {} THEN w ELSE Put(Max(s), g[s \ {Max(s)}])]
  BY DEF Putting
<1> HIDE DEF P, Put
<1>4. \A n \in 0..Len(parts) : \E g : P(n, g)
  <2> DEFINE Bad == {n \in 0..Len(parts) : ~\E g : P(n, g)}
  <2> SUFFICES ASSUME Bad # {} PROVE FALSE
    OBVIOUS
  <2>1. PICK n \in Bad : \A y \in Bad : n <= y
    <3>1. Bad \subseteq Nat
      OBVIOUS
    <3> HIDE DEF Bad
    <3> QED
      BY <3>1, LeastNumber
  <2>2. n # 0
    <3>1. SUBSET (1..0) = {{}}
      OBVIOUS
    <3>2. P(0, [s \in SUBSET (1..0) |-> w])
      BY <1>3, <3>1
    <3> QED
      BY <3>2
  <2>3. n \in Nat \ {0} /\ n - 1 \in 0..Len(parts) /\ n - 1 \notin Bad
    <3>1. n \in 0..Len(parts)
      OBVIOUS
    <3>2. n \in Nat \ {0} /\ n - 1 \in 0..Len(parts) /\ ~(n <= n - 1)
      BY <1>1, <2>2, <3>1
    <3> HIDE DEF Bad
    <3> QED
      BY <2>1, <3>2
  <2>4. PICK g : P(n - 1, g)
    BY <2>3
  <2> DEFINE h == [s \in SUBSET (1..n) |-> IF n \in s THEN Put(n, g[s \ {n}]) ELSE g[s]]
  <2>5. ASSUME NEW s \in SUBSET (1..n)
        PROVE  h[s] = IF s = {} THEN w ELSE Put(Max(s), h[s \ {Max(s)}])
    <3>1. CASE n \in s
      <4>1. Max(s) = n /\ s \ {n} \in SUBSET (1..n) /\ n \notin s \ {n}
        BY <2>3, <3>1, LastTaken
      <4>2. h[s \ {n}] = g[s \ {n}]
        BY <4>1
      <4> QED
        BY <3>1, <4>1, <4>2
    <3>2. CASE n \notin s
      <4> DEFINE r == s \ {Max(s)}
      <4>1. s \in SUBSET (1..(n - 1)) /\ r \in SUBSET (1..(n - 1))
        <5>1. s = s \ {n}
          BY <3>2
        <5> QED
          BY <2>3, <3>2, <5>1, LastTaken
      <4>2. r \in SUBSET (1..n) /\ n \notin r
        BY <3>2
      <4>3. h[r] = g[r] /\ h[s] = g[s]
        BY <3>2, <4>2
      <4>4. g[s] = IF s = {} THEN w ELSE Put(Max(s), g[r])
        BY <1>3, <2>4, <4>1
      <4> QED
        BY <4>3, <4>4
    <3> QED
      BY <3>1, <3>2
  <2>6. P(n, h)
    <3> HIDE DEF h
    <3>1. h = [s \in SUBSET (1..n) |-> h[s]]
      BY DEF h
    <3>2. h = [s \in SUBSET (1..n) |-> IF s = {} THEN w ELSE Put(Max(s), h[s \ {Max(s)}])]
      BY <2>5, <3>1
    <3> QED
      BY <1>3, <3>2
  <2> QED
    BY <2>1, <2>6
<1>5. P(Len(parts), fold)
  BY <1>1, <1>4
<1> HIDE DEF fold
<1> DEFINE f == [k \in 0..Len(parts) |-> fold[1..k]]
<1>6. ASSUME NEW s \in SUBSET (1..Len(parts))
      PROVE  fold[s] = IF s = {} THEN w ELSE Put(Max(s), fold[s \ {Max(s)}])
  BY <1>3, <1>5
<1>7. f[0] = w
  <2>1. 1..0 = {} /\ 0 \in 0..Len(parts)
    BY <1>1
  <2> QED
    BY <1>6, <2>1
<1>8. ASSUME NEW k \in 1..Len(parts) PROVE f[k] = Put(k, f[k - 1])
  <2>1. k \in 0..Len(parts) /\ k - 1 \in 0..Len(parts) /\ k \in Nat \ {0} /\ 1..k \in SUBSET (1..Len(parts))
    BY <1>1
  <2>2. 1..k # {} /\ Max(1..k) = k /\ (1..k) \ {k} = 1..(k - 1)
    BY ONLY <2>1, FirstOnes
  <2>3. fold[1..k] = Put(k, fold[1..(k - 1)])
    BY <1>6, <2>1, <2>2
  <2> QED
    BY <2>1, <2>3
<1>9. PutAll(c, w, msg, parts, whole) = f[Len(parts)]
  BY <1>1, <1>2
<1> QED
  BY <1>7, <1>8, <1>9 DEF Put, PutInTurn

\* g reads the pieces of a chunk, up to the n-th (Sent).
Hearing(c, w, chunk, n, g) ==
    g = [s \in SUBSET (1..n) |->
            IF s = {} THEN w
            ELSE Hear(c, g[s \ {Max(s)}], chunk[Max(s)])]

\* The server reads a chunk one piece after the other.
LEMMA ChunkMade ==
    ASSUME NEW c, NEW w, NEW S, NEW chunk \in Seq(S)
    PROVE  \E f : /\ f[0] = w
                  /\ \A k \in 1..Len(chunk) :
                        f[k] = Hear(c, f[k - 1], chunk[k])
                  /\ HearAll(c, w, chunk) = f[Len(chunk)]
<1> DEFINE P(n, g) == Hearing(c, w, chunk, n, g)
           Put(k, v) == Hear(c, v, chunk[k])
           fold == CHOOSE g : P(Len(chunk), g)
<1>1. Len(chunk) \in Nat /\ DOMAIN chunk = 1..Len(chunk)
  OBVIOUS
<1>2. HearAll(c, w, chunk) = fold[1..Len(chunk)]
  BY <1>1 DEF HearAll, FoldLeft, MapThenFoldSet, Hearing
<1>3. \A n, g : P(n, g) <=> g = [s \in SUBSET (1..n) |-> IF s = {} THEN w ELSE Put(Max(s), g[s \ {Max(s)}])]
  BY DEF Hearing
<1> HIDE DEF P, Put
<1>4. \A n \in 0..Len(chunk) : \E g : P(n, g)
  <2> DEFINE Bad == {n \in 0..Len(chunk) : ~\E g : P(n, g)}
  <2> SUFFICES ASSUME Bad # {} PROVE FALSE
    OBVIOUS
  <2>1. PICK n \in Bad : \A y \in Bad : n <= y
    <3>1. Bad \subseteq Nat
      OBVIOUS
    <3> HIDE DEF Bad
    <3> QED
      BY <3>1, LeastNumber
  <2>2. n # 0
    <3>1. SUBSET (1..0) = {{}}
      OBVIOUS
    <3>2. P(0, [s \in SUBSET (1..0) |-> w])
      BY <1>3, <3>1
    <3> QED
      BY <3>2
  <2>3. n \in Nat \ {0} /\ n - 1 \in 0..Len(chunk) /\ n - 1 \notin Bad
    <3>1. n \in 0..Len(chunk)
      OBVIOUS
    <3>2. n \in Nat \ {0} /\ n - 1 \in 0..Len(chunk) /\ ~(n <= n - 1)
      BY <1>1, <2>2, <3>1
    <3> HIDE DEF Bad
    <3> QED
      BY <2>1, <3>2
  <2>4. PICK g : P(n - 1, g)
    BY <2>3
  <2> DEFINE h == [s \in SUBSET (1..n) |-> IF n \in s THEN Put(n, g[s \ {n}]) ELSE g[s]]
  <2>5. ASSUME NEW s \in SUBSET (1..n)
        PROVE  h[s] = IF s = {} THEN w ELSE Put(Max(s), h[s \ {Max(s)}])
    <3>1. CASE n \in s
      <4>1. Max(s) = n /\ s \ {n} \in SUBSET (1..n) /\ n \notin s \ {n}
        BY <2>3, <3>1, LastTaken
      <4>2. h[s \ {n}] = g[s \ {n}]
        BY <4>1
      <4> QED
        BY <3>1, <4>1, <4>2
    <3>2. CASE n \notin s
      <4> DEFINE r == s \ {Max(s)}
      <4>1. s \in SUBSET (1..(n - 1)) /\ r \in SUBSET (1..(n - 1))
        <5>1. s = s \ {n}
          BY <3>2
        <5> QED
          BY <2>3, <3>2, <5>1, LastTaken
      <4>2. r \in SUBSET (1..n) /\ n \notin r
        BY <3>2
      <4>3. h[r] = g[r] /\ h[s] = g[s]
        BY <3>2, <4>2
      <4>4. g[s] = IF s = {} THEN w ELSE Put(Max(s), g[r])
        BY <1>3, <2>4, <4>1
      <4> QED
        BY <4>3, <4>4
    <3> QED
      BY <3>1, <3>2
  <2>6. P(n, h)
    <3> HIDE DEF h
    <3>1. h = [s \in SUBSET (1..n) |-> h[s]]
      BY DEF h
    <3>2. h = [s \in SUBSET (1..n) |-> IF s = {} THEN w ELSE Put(Max(s), h[s \ {Max(s)}])]
      BY <2>5, <3>1
    <3> QED
      BY <1>3, <3>2
  <2> QED
    BY <2>1, <2>6
<1>5. P(Len(chunk), fold)
  BY <1>1, <1>4
<1> HIDE DEF fold
<1> DEFINE f == [k \in 0..Len(chunk) |-> fold[1..k]]
<1>6. ASSUME NEW s \in SUBSET (1..Len(chunk))
      PROVE  fold[s] = IF s = {} THEN w ELSE Put(Max(s), fold[s \ {Max(s)}])
  BY <1>3, <1>5
<1>7. f[0] = w
  <2>1. 1..0 = {} /\ 0 \in 0..Len(chunk)
    BY <1>1
  <2> QED
    BY <1>6, <2>1
<1>8. ASSUME NEW k \in 1..Len(chunk) PROVE f[k] = Put(k, f[k - 1])
  <2>1. k \in 0..Len(chunk) /\ k - 1 \in 0..Len(chunk) /\ k \in Nat \ {0} /\ 1..k \in SUBSET (1..Len(chunk))
    BY <1>1
  <2>2. 1..k # {} /\ Max(1..k) = k /\ (1..k) \ {k} = 1..(k - 1)
    BY ONLY <2>1, FirstOnes
  <2>3. fold[1..k] = Put(k, fold[1..(k - 1)])
    BY <1>6, <2>1, <2>2
  <2> QED
    BY <2>1, <2>3
<1>9. HearAll(c, w, chunk) = f[Len(chunk)]
  BY <1>1, <1>2
<1> QED
  BY <1>7, <1>8, <1>9 DEF Put

-----------------------------------------------------------------------------
(* Lines.  What the server has of an unfinished line, what espconn is      *)
(* sending and what the buffer holds are one sequence of pieces.           *)

Messages == {"none", "reply", "phantom", "event", "alive", "started"} \X Nat
Piece == [msg : Messages, part : PartNames, no : Nat, whole : Seq(PartNames)]

\* The k-th piece ends a line, on connection no.
Ends(s, k, no) == s[k].part = "close" /\ s[k].no = no

\* A line starts at the j-th piece, and has no end up to the k-th.
Open(s, j, k, no) == (j = 1 \/ Ends(s, j - 1, no)) /\ \A i \in j..k : ~Ends(s, i, no)

\* A message that was cut has a piece there.
Hit(s, j, k, cut) == \E i \in j..k : s[i].msg \in cut

\* These pieces are one message, whole.
Entire(s, j, k, no) ==
    /\ \A i \in j..k : s[i].msg = s[k].msg /\ s[i].no = no
    /\ s[k].whole = [i \in 1..k - j + 1 |-> s[i + j - 1].part]

LinesOK(s, no, cut) ==
    \A k \in 1..Len(s), j \in 1..Len(s) :
        j <= k /\ Open(s, j, k - 1, no) /\ Ends(s, k, no) => Hit(s, j, k, cut) \/ Entire(s, j, k, no)

\* Behind the last line there is a message that was cut, or nothing, or the start of the
\* parser's answer.
Unfinished(s, j, no, cut, msg) ==
    \/ Hit(s, j, Len(s), cut)
    \/ j = Len(s) + 1 /\ msg \in cut \cup {NoMsg}
    \/ j = Len(s) /\ msg # NoMsg /\ s[j].msg = msg /\ s[j].no = no /\ s[j].part = "open"

RestOK(s, no, cut, msg) ==
    \A j \in 1..Len(s) + 1 : Open(s, j, Len(s), no) => Unfinished(s, j, no, cut, msg)

\* What is left of earlier connections is of messages that were cut.
OldCut(s, no, cut) == \A k \in 1..Len(s) : s[k].no # no => s[k].msg \in cut

WayOK(s, no, cut, msg) == LinesOK(s, no, cut) /\ RestOK(s, no, cut, msg) /\ OldCut(s, no, cut)

LEMMA CutMore ==
    ASSUME NEW s, NEW no, NEW cut, NEW cut2, cut \subseteq cut2, NEW msg, WayOK(s, no, cut, msg)
    PROVE  WayOK(s, no, cut2, msg)
BY DEF WayOK, LinesOK, RestOK, OldCut, Hit, Unfinished

\* Pieces that add a line at most, at their end.
OneLine(add, no) ==
    \A i \in 1..Len(add) : add[i].no = no /\ (i < Len(add) => add[i].part # "close")

Closed(add) == add # <<>> /\ add[Len(add)].part = "close"

LEMMA Extended ==
    ASSUME NEW s \in Seq(Piece), NEW add \in Seq(Piece), NEW t, t = s \o add,
           NEW no, NEW cut, NEW cut2, cut \subseteq cut2, NEW msg, NEW msg2,
           WayOK(s, no, cut, msg), OneLine(add, no),
           Closed(add) => msg2 \in cut2 \cup {NoMsg},
           \A j \in 1..Len(s) + 1 : Open(s, j, Len(s), no) =>
                IF Closed(add) THEN Hit(t, j, Len(t), cut2) \/ Entire(t, j, Len(t), no)
                               ELSE Unfinished(t, j, no, cut2, msg2)
    PROVE  WayOK(t, no, cut2, msg2)
<1>0. PICK n \in Nat, a \in Nat, l \in Nat : n = Len(s) /\ a = Len(add) /\ l = Len(t)
  OBVIOUS
<1>1. /\ l = n + a /\ n = Len(s) /\ a = Len(add) /\ l = Len(t)
      /\ \A i \in 1..n : t[i] = s[i]
      /\ \A i \in 1..a : t[n + i] = add[i]
      /\ add # <<>> <=> a # 0
  <2>1. /\ Len(t) = Len(s) + Len(add)
        /\ \A i \in 1..Len(s) : t[i] = s[i]
        /\ \A i \in 1..Len(add) : t[Len(s) + i] = add[i]
    BY Joined
  <2>2. add # <<>> <=> Len(add) # 0
    OBVIOUS
  <2> QED
    BY ONLY <1>0, <2>1, <2>2
<1>2. \A i \in 1..n : Ends(t, i, no) <=> Ends(s, i, no)
  BY <1>1 DEF Ends
<1>3. ASSUME NEW i \in n + 1..l, Ends(t, i, no) PROVE i = l /\ Closed(add)
  <2>1. l = n + a
    BY <1>1
  <2>2. i - n \in 1..a /\ t[i] = add[i - n]
    BY <1>1
  <2>3. ~(i - n < a)
    BY <1>1, <1>3, <2>2 DEF Ends, OneLine
  <2>4. i - n = a
    BY ONLY <2>2, <2>3
  <2>5. i = l /\ l = n + a /\ a = Len(add)
    BY ONLY <1>0, <2>4, <2>1
  <2> QED
    BY <1>3, <2>2, <2>4, <2>5 DEF Ends, Closed
<1>4. Closed(add) => l \in n + 1..l /\ Ends(t, l, no)
  <2> SUFFICES ASSUME Closed(add) PROVE l \in n + 1..l /\ Ends(t, l, no)
    OBVIOUS
  <2>1. a \in 1..a /\ l \in n + 1..l /\ t[l] = add[a]
    BY <1>1 DEF Closed
  <2> QED
    BY <1>1, <2>1 DEF Closed, OneLine, Ends
<1>5. ASSUME NEW j \in 1..l + 1, NEW k \in Nat, Open(t, j, k, no), j <= n + 1
      PROVE  \A i \in Nat : i <= n /\ i <= k => Open(s, j, i, no)
  <2>1. j \in 1..n + 1 /\ (j # 1 => j - 1 \in 1..n)
    BY <1>1, <1>5
  <2>2. j = 1 \/ Ends(s, j - 1, no)
    BY <1>2, <1>5, <2>1 DEF Open
  <2>3. \A i \in Nat : i <= n /\ i <= k => \A m \in j..i : m \in 1..n /\ m \in j..k
    BY <1>1, <2>1
  <2> QED
    BY <1>2, <1>5, <2>2, <2>3 DEF Open
<1>6. ASSUME NEW j \in 1..l + 1, n + 1 < j, NEW k, Open(t, j, k, no)
      PROVE  j = l + 1 /\ Closed(add)
  <2>1. j - 1 \in n + 1..l /\ j # 1
    BY <1>1, <1>6
  <2>2. j - 1 = l /\ Closed(add)
    BY <1>3, <1>6, <2>1 DEF Open
  <2> QED
    BY <2>1, <2>2
<1>7. ASSUME NEW k \in 1..l, NEW j \in 1..l, j <= k, Open(t, j, k - 1, no), Ends(t, k, no)
      PROVE  Hit(t, j, k, cut2) \/ Entire(t, j, k, no)
  <2>1. j \in 1..l + 1 /\ j # l + 1 /\ k - 1 \in Nat
    BY <1>1
  <2>2. j <= n + 1
    BY <1>6, <1>7, <2>1
  <2>3. CASE k <= n
    <3>1. k \in 1..n /\ j \in 1..n /\ k - 1 <= n /\ k - 1 <= k - 1
      BY <1>1, <1>7, <2>3
    <3>2. Open(s, j, k - 1, no) /\ Ends(s, k, no)
      BY <1>2, <1>5, <1>7, <2>1, <2>2, <3>1
    <3>3. Hit(s, j, k, cut) \/ Entire(s, j, k, no)
      BY <1>1, <1>7, <3>1, <3>2 DEF WayOK, LinesOK
    <3>4. \A i \in j..k : t[i] = s[i]
      BY <1>1, <3>1
    <3>5. \A i \in 1..k - j + 1 : i + j - 1 \in j..k
      BY <3>1
    <3>6. t[k] = s[k]
      BY <1>1, <3>1
    <3>7. CASE Hit(s, j, k, cut)
      BY <3>4, <3>7 DEF Hit
    <3>8. CASE Entire(s, j, k, no)
      <4>1. [i \in 1..k - j + 1 |-> s[i + j - 1].part] = [i \in 1..k - j + 1 |-> t[i + j - 1].part]
        BY <3>4, <3>5
      <4> QED
        BY <3>4, <3>6, <3>8, <4>1 DEF Entire
    <3> QED
      BY <3>3, <3>7, <3>8
  <2>4. CASE ~(k <= n)
    <3>1. k \in n + 1..l /\ n <= k - 1
      BY <1>1, <2>4
    <3>2. k = l /\ Closed(add)
      BY <1>3, <1>7, <3>1
    <3>3. Open(s, j, n, no) /\ j \in 1..n + 1
      BY <1>1, <1>5, <1>7, <2>1, <2>2, <3>1
    <3> QED
      BY <1>1, <3>2, <3>3
  <2> QED
    BY <2>3, <2>4
<1>8. ASSUME NEW j \in 1..l + 1, Open(t, j, l, no)
      PROVE  Unfinished(t, j, no, cut2, msg2)
  <2>1. CASE Closed(add)
    <3>1. j = l + 1
      <4>1. ~(j <= l) /\ j \in Nat
        <5>1. j <= l => l \in j..l
          BY <1>1
        <5> QED
          BY <1>4, <1>8, <2>1, <5>1 DEF Open
      <4> HIDE DEF Open
      <4> QED
        BY <4>1
    <3> QED
      BY <1>1, <2>1, <3>1 DEF Unfinished
  <2>2. CASE ~Closed(add)
    <3>1. j <= n + 1 /\ l \in Nat /\ n <= l
      BY <1>1, <1>6, <1>8, <2>2
    <3>2. Open(s, j, n, no) /\ j \in 1..n + 1
      BY <1>1, <1>5, <1>8, <3>1
    <3> QED
      BY <1>1, <2>2, <3>2
  <2> QED
    BY <2>1, <2>2
<1>9. OldCut(t, no, cut2)
  <2> SUFFICES ASSUME NEW k \in 1..l, t[k].no # no PROVE t[k].msg \in cut2
    BY <1>1 DEF OldCut
  <2>1. CASE k <= n
    <3>1. k \in 1..n
      BY <1>1, <2>1
    <3> QED
      BY <1>1, <3>1 DEF WayOK, OldCut
  <2>2. CASE ~(k <= n)
    <3>1. k - n \in 1..a /\ t[k] = add[k - n]
      BY <1>1, <2>2
    <3> QED
      BY <1>1, <3>1 DEF OneLine
  <2> QED
    BY <2>1, <2>2
<1> QED
  BY <1>1, <1>7, <1>8, <1>9 DEF WayOK, LinesOK, RestOK

LEMMA PieceIs ==
    ASSUME NEW no, NEW msg, NEW part, NEW whole, NEW p, p = ThePiece(no, msg, part, whole)
    PROVE  /\ p.msg = msg /\ p.part = part /\ p.no = no
           /\ part = "close" => p.whole = whole
BY DEF ThePiece

\* What a message adds: all its pieces, unless one was refused.
Adds(add, msg, no, parts, whole, cut) ==
    /\ add \in Seq(Piece) /\ OneLine(add, no)
    /\ \A i \in 1..Len(add) : add[i].msg = msg
    /\ \/ msg \in cut
       \/ Len(add) = Len(parts) /\ \A i \in 1..Len(parts) : add[i] = ThePiece(no, msg, parts[i], whole)

\* t is s with add behind it; these are their lengths.
Extends(t, s, add, n, a, l) ==
    /\ l = n + a /\ n = Len(s) /\ a = Len(add) /\ l = Len(t)
    /\ \A i \in 1..n : t[i] = s[i]
    /\ \A i \in 1..a : t[n + i] = add[i]
    /\ \A i \in (n + 1)..l : i - n \in 1..a /\ t[i] = add[i - n]
    /\ add # <<>> <=> a # 0
    /\ a = 0 => t = s

LEMMA Behind ==
    ASSUME NEW s \in Seq(Piece), NEW add \in Seq(Piece), NEW t, t = s \o add
    PROVE  \E n, a, l \in Nat : Extends(t, s, add, n, a, l)
<1>0. PICK n \in Nat, a \in Nat, l \in Nat : n = Len(s) /\ a = Len(add) /\ l = Len(t)
  OBVIOUS
<1>1. /\ l = n + a
      /\ \A i \in 1..n : t[i] = s[i]
      /\ \A i \in 1..a : t[n + i] = add[i]
      /\ add # <<>> <=> a # 0
  BY <1>0
<1>2. \A i \in (n + 1)..l : i - n \in 1..a /\ t[i] = add[i - n]
  <2> SUFFICES ASSUME NEW i \in (n + 1)..l PROVE i - n \in 1..a /\ t[i] = add[i - n]
    OBVIOUS
  <2>1. i - n \in 1..a /\ n + (i - n) = i
    BY <1>1
  <2> QED
    BY <1>1, <2>1
<1>3. a = 0 => t = s
  BY <1>1
<1> QED
  BY <1>0, <1>1, <1>2, <1>3 DEF Extends

\* A message that is put whole, or runs into the parser's answer.
LEMMA WholePut ==
    ASSUME NEW s \in Seq(Piece), NEW add, NEW msg, NEW no, NEW cut, NEW cut2, cut \subseteq cut2,
           NEW parts \in Seq(PartNames), parts # <<>>, parts[Len(parts)] = "close",
           NEW at, at \in cut2 \cup {NoMsg}, WayOK(s, no, cut, at),
           Adds(add, msg, no, parts, parts, cut2)
    PROVE  WayOK(s \o add, no, cut2, at)
<1>0. PICK t : t = s \o add
  OBVIOUS
<1>1. add \in Seq(Piece) /\ OneLine(add, no)
  BY DEF Adds
<1>b. PICK n, a, l \in Nat : Extends(t, s, add, n, a, l)
  BY <1>0, <1>1, Behind
<1>2. /\ l = n + a /\ n = Len(s) /\ a = Len(add) /\ l = Len(t)
      /\ \A i \in 1..n : t[i] = s[i]
      /\ \A i \in 1..a : t[n + i] = add[i]
      /\ \A i \in (n + 1)..l : i - n \in 1..a /\ t[i] = add[i - n]
      /\ add # <<>> <=> a # 0
      /\ a = 0 => t = s
  BY <1>b DEF Extends
<1>3. msg \notin cut2 =>
        /\ a = Len(parts) /\ a # 0
        /\ \A i \in 1..a : add[i] = ThePiece(no, msg, parts[i], parts)
        /\ Closed(add)
  <2> SUFFICES ASSUME msg \notin cut2
               PROVE  /\ a = Len(parts) /\ a # 0
                      /\ \A i \in 1..a : add[i] = ThePiece(no, msg, parts[i], parts)
                      /\ Closed(add)
    OBVIOUS
  <2>1. /\ a = Len(parts)
        /\ \A i \in 1..a : add[i] = ThePiece(no, msg, parts[i], parts)
    BY <1>2 DEF Adds
  <2>2. a # 0 /\ a \in 1..a
    BY <2>1
  <2>3. add[a].part = "close"
    BY <2>1, <2>2, PieceIs
  <2> QED
    BY <1>2, <2>1, <2>2, <2>3 DEF Closed
<1>4. ASSUME NEW j \in 1..Len(s) + 1, Open(s, j, Len(s), no)
      PROVE  IF Closed(add) THEN Hit(t, j, Len(t), cut2) \/ Entire(t, j, Len(t), no)
                            ELSE Unfinished(t, j, no, cut2, at)
  <2>1. j \in 1..n + 1
    BY <1>2
  <2>2. Unfinished(s, j, no, cut, at)
    BY <1>4 DEF WayOK, RestOK
  <2>3. Hit(s, j, n, cut2) => Hit(t, j, l, cut2)
    <3>1. \A i \in j..n : i \in j..l /\ t[i] = s[i]
      BY <1>2, <2>1
    <3> QED
      BY <3>1 DEF Hit
  <2>4. Hit(s, j, n, cut2) \/ j = n + 1
    <3>1. Hit(s, j, n, cut) => Hit(s, j, n, cut2)
      BY DEF Hit
    <3>2. CASE j = n /\ at # NoMsg /\ s[j].msg = at
      <4>1. j \in j..n
        BY <2>1, <3>2
      <4> QED
        BY <3>2, <4>1 DEF Hit
    <3> QED
      BY <1>2, <2>2, <3>1, <3>2 DEF Unfinished
  <2>5. a # 0 /\ msg \in cut2 => Hit(t, j, l, cut2)
    <3> SUFFICES ASSUME a # 0, msg \in cut2 PROVE Hit(t, j, l, cut2)
      OBVIOUS
    <3>1. l \in j..l /\ l \in (n + 1)..l
      BY <1>2, <2>1
    <3>2. t[l].msg = msg
      BY <1>2, <3>1 DEF Adds
    <3> QED
      BY <3>1, <3>2 DEF Hit
  <2>6. CASE msg \in cut2
    <3>1. a = 0 => ~Closed(add) /\ l = n
      BY <1>2 DEF Closed
    <3>2. CASE a = 0
      <4>1. Hit(t, j, l, cut2) \/ j = l + 1
        BY <2>3, <2>4, <3>1, <3>2
      <4> QED
        BY <1>2, <3>1, <3>2, <4>1 DEF Unfinished
    <3>3. CASE a # 0
      BY <1>2, <2>5, <2>6, <3>3 DEF Unfinished
    <3> QED
      BY <3>2, <3>3
  <2>7. CASE msg \notin cut2 /\ j = n + 1
    <3>1. \A i \in j..l : t[i] = ThePiece(no, msg, parts[i - n], parts)
      BY <1>2, <1>3, <2>7
    <3>2. l \in j..l /\ l - n = a /\ l - j + 1 = a
      BY <1>2, <1>3, <2>7
    <3>3. \A i \in j..l : t[i].msg = t[l].msg /\ t[i].no = no
      BY <3>1, <3>2, PieceIs
    <3>4. t[l].whole = parts
      BY <1>3, <2>7, <3>1, <3>2, PieceIs
    <3>5. \A i \in 1..a : i + j - 1 \in j..l /\ (i + j - 1) - n = i
      BY <1>2, <2>7
    <3>6. ASSUME NEW i \in 1..a PROVE t[i + j - 1].part = parts[i]
      <4>1. t[i + j - 1] = ThePiece(no, msg, parts[i], parts)
        BY <3>1, <3>5
      <4> QED
        BY <4>1, PieceIs
    <3>7. parts = [i \in 1..a |-> parts[i]]
      BY <1>3, <2>7
    <3>8. [i \in 1..l - j + 1 |-> t[i + j - 1].part] = parts
      BY <3>2, <3>6, <3>7
    <3>9. Entire(t, j, l, no)
      BY <3>3, <3>4, <3>8 DEF Entire
    <3> QED
      BY <1>2, <1>3, <2>7, <3>9
  <2> QED
    BY <1>2, <1>3, <2>3, <2>4, <2>6, <2>7
<1> QED
  BY <1>0, <1>1, <1>4, Extended

\* The start of the parser's answer.
LEMMA OpenPut ==
    ASSUME NEW s \in Seq(Piece), NEW add, NEW msg, msg # NoMsg, NEW no, NEW cut, NEW cut2, cut \subseteq cut2,
           NEW whole, WayOK(s, no, cut, NoMsg), Adds(add, msg, no, <<"open">>, whole, cut2)
    PROVE  WayOK(s \o add, no, cut2, msg)
<1>0. PICK t : t = s \o add
  OBVIOUS
<1>1. add \in Seq(Piece) /\ OneLine(add, no)
  BY DEF Adds
<1>b. PICK n, a, l \in Nat : Extends(t, s, add, n, a, l)
  BY <1>0, <1>1, Behind
<1>2. /\ l = n + a /\ n = Len(s) /\ a = Len(add) /\ l = Len(t)
      /\ \A i \in 1..n : t[i] = s[i]
      /\ \A i \in 1..a : t[n + i] = add[i]
      /\ \A i \in (n + 1)..l : i - n \in 1..a /\ t[i] = add[i - n]
      /\ add # <<>> <=> a # 0
      /\ a = 0 => t = s
  BY <1>b DEF Extends
<1>3. msg \notin cut2 => a = 1 /\ add[1] = ThePiece(no, msg, "open", whole)
  <2> SUFFICES ASSUME msg \notin cut2 PROVE a = 1 /\ add[1] = ThePiece(no, msg, "open", whole)
    OBVIOUS
  <2>1. PICK parts : parts = <<"open">>
    OBVIOUS
  <2>2. Len(parts) = 1 /\ parts[1] = "open" /\ 1 \in 1..1
    BY <2>1
  <2>3. Len(add) = Len(parts) /\ \A i \in 1..Len(parts) : add[i] = ThePiece(no, msg, parts[i], whole)
    BY <2>1 DEF Adds
  <2> QED
    BY <1>2, <2>2, <2>3
<1>4. ASSUME NEW j \in 1..Len(s) + 1, Open(s, j, Len(s), no)
      PROVE  Hit(t, j, l, cut2) \/ (j = n + 1 /\ l = n + a)
  <2>1. j \in 1..n + 1
    BY <1>2
  <2>2. Unfinished(s, j, no, cut, NoMsg)
    BY <1>4 DEF WayOK, RestOK
  <2>3. Hit(s, j, n, cut) => Hit(t, j, l, cut2)
    <3>1. \A i \in j..n : i \in j..l /\ t[i] = s[i]
      BY <1>2, <2>1
    <3> QED
      BY <3>1 DEF Hit
  <2> QED
    BY <1>2, <2>2, <2>3 DEF Unfinished
<1>5. ASSUME NEW j \in 1..Len(s) + 1, Open(s, j, Len(s), no)
      PROVE  Unfinished(t, j, no, cut2, msg)
  <2>1. j \in 1..n + 1
    BY <1>2
  <2>2. CASE Hit(t, j, l, cut2)
    BY <1>2, <2>2 DEF Unfinished
  <2>3. CASE j = n + 1 /\ a = 0 /\ msg \in cut2
    BY <1>2, <2>3 DEF Unfinished
  <2>4. CASE j = n + 1 /\ a # 0 /\ msg \in cut2
    <3>1. l \in j..l /\ l \in (n + 1)..l
      BY <1>2, <2>4
    <3>2. t[l].msg = msg
      BY <1>2, <3>1 DEF Adds
    <3> QED
      BY <1>2, <2>4, <3>1, <3>2 DEF Hit, Unfinished
  <2>5. CASE j = n + 1 /\ msg \notin cut2
    <3>0. a = 1 /\ l = n + a
      BY <1>2, <1>3, <2>5
    <3>1. j = l /\ j \in (n + 1)..l /\ j - n = 1
      BY <2>5, <3>0
    <3>2. t[j] = ThePiece(no, msg, "open", whole)
      BY <1>2, <1>3, <2>5, <3>1
    <3>3. t[j].msg = msg /\ t[j].no = no /\ t[j].part = "open"
      BY <3>2, PieceIs
    <3> QED
      BY <1>2, <3>1, <3>3 DEF Unfinished
  <2> QED
    BY <1>4, <1>5, <2>2, <2>3, <2>4, <2>5
<1>6. ~Closed(add) \/ msg \in cut2
  <2> SUFFICES ASSUME msg \notin cut2 PROVE ~Closed(add)
    OBVIOUS
  <2>1. a = 1 /\ add[1].part = "open"
    BY <1>3, PieceIs
  <2> QED
    BY <1>2, <2>1 DEF Closed
<1>7. ASSUME NEW j \in 1..Len(s) + 1, Open(s, j, Len(s), no), Closed(add)
      PROVE  Hit(t, j, Len(t), cut2)
  <2>1. j \in 1..n + 1 /\ a # 0
    BY <1>2, <1>7 DEF Closed
  <2>2. l \in j..l /\ l \in (n + 1)..l
    BY <1>2, <2>1
  <2>3. t[l].msg = msg
    BY <1>2, <2>2 DEF Adds
  <2> QED
    BY <1>2, <1>6, <1>7, <2>2, <2>3 DEF Hit
<1> QED
  BY <1>0, <1>1, <1>5, <1>6, <1>7, Extended

\* The rest of the parser's answer.
LEMMA RestPut ==
    ASSUME NEW s \in Seq(Piece), NEW add, NEW msg, msg # NoMsg, NEW no, NEW cut, NEW cut2, cut \subseteq cut2,
           NEW parts \in Seq(PartNames), parts # <<>>, parts[Len(parts)] = "close",
           WayOK(s, no, cut, msg), Adds(add, msg, no, parts, <<"open">> \o parts, cut2)
    PROVE  WayOK(s \o add, no, cut2, NoMsg)
<1>0. PICK t : t = s \o add
  OBVIOUS
<1>1. add \in Seq(Piece) /\ OneLine(add, no)
  BY DEF Adds
<1>b. PICK n, a, l \in Nat : Extends(t, s, add, n, a, l)
  BY <1>0, <1>1, Behind
<1>2. /\ l = n + a /\ n = Len(s) /\ a = Len(add) /\ l = Len(t)
      /\ \A i \in 1..n : t[i] = s[i]
      /\ \A i \in 1..a : t[n + i] = add[i]
      /\ \A i \in (n + 1)..l : i - n \in 1..a /\ t[i] = add[i - n]
      /\ add # <<>> <=> a # 0
      /\ a = 0 => t = s
  BY <1>b DEF Extends
<1> DEFINE whole == <<"open">> \o parts
<1>3. msg \notin cut2 =>
        /\ a = Len(parts) /\ a # 0
        /\ \A i \in 1..a : add[i] = ThePiece(no, msg, parts[i], whole)
        /\ Closed(add)
  <2> SUFFICES ASSUME msg \notin cut2
               PROVE  /\ a = Len(parts) /\ a # 0
                      /\ \A i \in 1..a : add[i] = ThePiece(no, msg, parts[i], whole)
                      /\ Closed(add)
    OBVIOUS
  <2>1. /\ a = Len(parts)
        /\ \A i \in 1..a : add[i] = ThePiece(no, msg, parts[i], whole)
    BY <1>2 DEF Adds
  <2>2. a # 0 /\ a \in 1..a
    BY <2>1
  <2>3. add[a].part = "close"
    BY <2>1, <2>2, PieceIs
  <2> QED
    BY <1>2, <2>1, <2>2, <2>3 DEF Closed
<1>w. /\ whole = [i \in 1..Len(parts) + 1 |-> whole[i]]
      /\ whole[1] = "open" /\ \A i \in 2..Len(parts) + 1 : whole[i] = parts[i - 1]
  OBVIOUS
<1> HIDE DEF whole
<1>4. ASSUME NEW j \in 1..Len(s) + 1, Open(s, j, Len(s), no)
      PROVE  IF Closed(add) THEN Hit(t, j, Len(t), cut2) \/ Entire(t, j, Len(t), no)
                            ELSE Unfinished(t, j, no, cut2, NoMsg)
  <2>1. j \in 1..n + 1
    BY <1>2
  <2>2. Unfinished(s, j, no, cut, msg)
    BY <1>4 DEF WayOK, RestOK
  <2>3. Hit(s, j, n, cut2) => Hit(t, j, l, cut2)
    <3>1. \A i \in j..n : i \in j..l /\ t[i] = s[i]
      BY <1>2, <2>1
    <3> QED
      BY <3>1 DEF Hit
  <2>4. Hit(s, j, n, cut) => Hit(s, j, n, cut2)
    BY DEF Hit
  <2>5. a # 0 /\ msg \in cut2 => Hit(t, j, l, cut2)
    <3> SUFFICES ASSUME a # 0, msg \in cut2 PROVE Hit(t, j, l, cut2)
      OBVIOUS
    <3>1. l \in j..l /\ l \in (n + 1)..l
      BY <1>2, <2>1
    <3>2. t[l].msg = msg
      BY <1>2, <3>1 DEF Adds
    <3> QED
      BY <3>1, <3>2 DEF Hit
  <2>6. CASE msg \in cut2 /\ a # 0
    BY <1>2, <2>5, <2>6 DEF Unfinished
  <2>7. CASE msg \in cut2 /\ a = 0
    <3>1. ~Closed(add) /\ l = n
      BY <1>2, <2>7 DEF Closed
    <3>2. j = n /\ s[j].msg = msg => Hit(s, j, n, cut2)
      <4>1. j = n => j \in j..n
        BY <2>1
      <4> QED
        BY <2>7, <4>1 DEF Hit
    <3>3. Hit(s, j, n, cut2) \/ j = n + 1
      BY <1>2, <2>2, <2>4, <3>2 DEF Unfinished
    <3> QED
      BY <1>2, <2>3, <3>1, <3>3 DEF Unfinished
  <2>8. CASE msg \notin cut2
    <3>1. Hit(s, j, n, cut2) \/ (j = n /\ s[j].msg = msg /\ s[j].no = no /\ s[j].part = "open")
      BY <1>2, <2>2, <2>4, <2>8 DEF Unfinished
    <3>2. ASSUME j = n, s[j].msg = msg, s[j].no = no, s[j].part = "open"
          PROVE  Entire(t, j, l, no)
      <4>1. \A i \in (n + 1)..l : t[i] = ThePiece(no, msg, parts[i - n], whole)
        BY <1>2, <1>3, <2>8
      <4>2. l \in (n + 1)..l /\ l - n = a /\ l - j + 1 = a + 1 /\ j \in 1..n
        BY <1>2, <1>3, <2>1, <2>8, <3>2
      <4>3. \A i \in (n + 1)..l : t[i].msg = msg /\ t[i].no = no
        BY <4>1, PieceIs
      <4>4. t[j] = s[j]
        BY <1>2, <4>2
      <4>5. \A i \in j..l : t[i].msg = t[l].msg /\ t[i].no = no
        <5>1. \A i \in j..l : i = j \/ i \in (n + 1)..l
          BY <3>2
        <5> QED
          BY <3>2, <4>2, <4>3, <4>4, <5>1
      <4>6. t[l].whole = whole
        <5>1. t[l] = ThePiece(no, msg, parts[a], whole) /\ parts[a] = "close"
          BY <1>3, <2>8, <4>1, <4>2
        <5> QED
          BY <5>1, PieceIs
      <4>7. ASSUME NEW i \in 1..a + 1 PROVE t[i + j - 1].part = whole[i]
        <5>1. CASE i = 1
          BY <1>w, <3>2, <4>2, <4>4, <5>1
        <5>2. CASE i # 1
          <6>1. i + j - 1 \in (n + 1)..l /\ (i + j - 1) - n = i - 1 /\ i \in 2..a + 1
            BY <1>2, <3>2, <5>2
          <6>2. t[i + j - 1] = ThePiece(no, msg, parts[i - 1], whole)
            BY <4>1, <6>1
          <6>3. t[i + j - 1].part = parts[i - 1]
            BY <6>2, PieceIs
          <6> QED
            BY <1>3, <1>w, <2>8, <6>1, <6>3
        <5> QED
          BY <5>1, <5>2
      <4>8. [i \in 1..l - j + 1 |-> t[i + j - 1].part] = whole
        BY <1>3, <1>w, <2>8, <4>2, <4>7
      <4> QED
        BY <4>5, <4>6, <4>8 DEF Entire
    <3> QED
      BY <1>2, <1>3, <2>3, <2>8, <3>1, <3>2
  <2> QED
    BY <2>6, <2>7, <2>8
<1>5. Closed(add) => NoMsg \in cut2 \cup {NoMsg}
  OBVIOUS
<1> QED
  BY <1>0, <1>1, <1>4, Extended

-----------------------------------------------------------------------------
(* What is put on a channel.                                               *)

Outs == [tx : Seq(Piece), txing : BOOLEAN, flight : Seq(Piece)]
Puts == [out : Outs, cut : SUBSET Messages]

\* txing is set exactly while espconn is sending.
OutOK(o) == o \in Outs /\ (o.txing <=> o.flight # <<>>)
Sending(o) == o.flight \o o.tx

LEMMA FinishIs ==
    ASSUME NEW o \in Outs, o.flight = <<>>
    PROVE  OutOK(TxWriteFinish(o)) /\ Sending(TxWriteFinish(o)) = Sending(o)
<1> DEFINE t == TxWriteFinish(o)
<1>1. CASE o.tx # <<>>
  <2>1. t = [o EXCEPT !.tx = <<>>, !.txing = TRUE, !.flight = o.tx]
    BY <1>1 DEF TxWriteFinish
  <2>2. t \in Outs /\ t.tx = <<>> /\ t.txing /\ t.flight = o.tx
    BY <2>1 DEF Outs
  <2>3. o.tx \in Seq(Piece) /\ <<>> \o o.tx = o.tx /\ o.tx \o <<>> = o.tx
    BY DEF Outs
  <2> QED
    BY <1>1, <2>2, <2>3 DEF OutOK, Sending
<1>2. CASE o.tx = <<>>
  <2>1. t = [o EXCEPT !.flight = <<>>, !.txing = FALSE]
    BY <1>2 DEF TxWriteFinish
  <2>2. t \in Outs /\ t.tx = <<>> /\ ~t.txing /\ t.flight = <<>>
    BY <1>2, <2>1 DEF Outs
  <2> QED
    BY <1>2, <2>2 DEF OutOK, Sending
<1> QED
  BY <1>1, <1>2

LEMMA AppendJoined == \A a, b \in Seq(Piece), p \in Piece : Append(a \o b, p) = a \o Append(b, p)
OBVIOUS

LEMMA PutOne ==
    ASSUME NEW c \in Channels, NEW w \in Puts, OutOK(w.out), NEW p \in Piece, NEW v, v = NetworkPuts(c, w, p)
    PROVE  /\ v \in Puts /\ OutOK(v.out)
           /\ \/ v.out = w.out /\ v.cut = w.cut \cup {p.msg}
              \/ v.cut = w.cut /\ Sending(v.out) = Append(Sending(w.out), p)
<1> DEFINE o == [w.out EXCEPT !.tx = Append(@, p)]
<1>1. \/ v = [w EXCEPT !.cut = @ \cup {p.msg}]
      \/ v = [w EXCEPT !.out = o]
      \/ v = [w EXCEPT !.out = TxWriteFinish(o)] /\ ~o.txing
  BY DEF NetworkPuts
<1>2. /\ w.out \in Outs /\ w.cut \in SUBSET Messages /\ p.msg \in Messages
      /\ w.out.flight \in Seq(Piece) /\ w.out.tx \in Seq(Piece)
  BY DEF Puts, Outs, Piece
<1>3. /\ o \in Outs /\ o.flight = w.out.flight /\ o.txing = w.out.txing
      /\ o.tx = Append(w.out.tx, p)
  <2>1. PICK x : x = Append(w.out.tx, p)
    OBVIOUS
  <2>2. x \in Seq(Piece)
    BY <1>2, <2>1
  <2>3. o = [w.out EXCEPT !.tx = x]
    BY <2>1
  <2>4. o \in Outs /\ o.flight = w.out.flight /\ o.txing = w.out.txing /\ o.tx = x
    BY <1>2, <2>2, <2>3 DEF Outs
  <2> QED
    BY <2>1, <2>4
<1> HIDE DEF o
<1>4. OutOK(o) /\ Sending(o) = Append(Sending(w.out), p)
  <2>1. \A a, b \in Seq(Piece) : a \o Append(b, p) = Append(a \o b, p)
    OBVIOUS
  <2> QED
    BY <1>2, <1>3, <2>1 DEF OutOK, Sending
<1>5. CASE v = [w EXCEPT !.cut = @ \cup {p.msg}]
  BY <1>2, <1>5 DEF Puts
<1>6. CASE v = [w EXCEPT !.out = o]
  <2>1. v \in Puts /\ v.out = o /\ v.cut = w.cut
    BY <1>3, <1>6 DEF Puts
  <2> QED
    BY <1>4, <2>1
<1>7. CASE v = [w EXCEPT !.out = TxWriteFinish(o)] /\ ~o.txing
  <2>1. o.flight = <<>>
    BY <1>4, <1>7 DEF OutOK
  <2>2. OutOK(TxWriteFinish(o)) /\ Sending(TxWriteFinish(o)) = Sending(o)
    BY <1>3, <2>1, FinishIs
  <2>3. v \in Puts /\ v.out = TxWriteFinish(o) /\ v.cut = w.cut
    BY <1>7, <2>2 DEF Puts, OutOK
  <2> QED
    BY <1>4, <2>2, <2>3
<1> QED
  BY <1>1, <1>5, <1>6, <1>7

\* The pieces of parts that add has when k were put, and cut was cut.
Gathered(add, k, msg, no, parts, whole, cut) ==
    /\ add \in Seq(Piece)
    /\ \A i \in 1..Len(add) :
        /\ add[i].msg = msg /\ add[i].no = no
        /\ i < Len(add) \/ k < Len(parts) => add[i].part # "close"
    /\ \/ msg \in cut
       \/ Len(add) = k /\ \A i \in 1..k : add[i] = ThePiece(no, msg, parts[i], whole)

LEMMA OneMore ==
    ASSUME NEW msg \in Messages, NEW no \in Nat, NEW parts \in Seq(PartNames), NEW whole \in Seq(PartNames),
           \A i \in 1..Len(parts) : i < Len(parts) => parts[i] # "close",
           NEW k \in 1..Len(parts), NEW add, NEW cut, NEW cut2, cut \subseteq cut2,
           Gathered(add, k - 1, msg, no, parts, whole, cut)
    PROVE  /\ msg \in cut2 => Gathered(add, k, msg, no, parts, whole, cut2)
           /\ Gathered(Append(add, ThePiece(no, msg, parts[k], whole)), k, msg, no, parts, whole, cut2)
<1> DEFINE p == ThePiece(no, msg, parts[k], whole)
           more == Append(add, p)
<1>1. k \in Nat /\ k - 1 < Len(parts) /\ Len(parts) \in Nat /\ parts[k] \in PartNames
  OBVIOUS
<1>2. add \in Seq(Piece) /\ Len(add) \in Nat
  BY DEF Gathered
<1>3. \A i \in 1..Len(add) : add[i].msg = msg /\ add[i].no = no /\ add[i].part # "close"
  BY <1>1 DEF Gathered
<1>4. p \in Piece /\ p.msg = msg /\ p.no = no /\ (k < Len(parts) => p.part # "close")
  <2>1. p.msg = msg /\ p.no = no /\ p.part = parts[k]
    BY PieceIs
  <2>2. p \in Piece
    <3>1. (IF parts[k] = "close" THEN whole ELSE <<>>) \in Seq(PartNames)
      BY EmptySeq
    <3> QED
      BY <1>1, <3>1 DEF ThePiece, Piece
  <2> QED
    BY <2>1, <2>2
<1> HIDE DEF p
<1>5. /\ more \in Seq(Piece) /\ Len(more) = Len(add) + 1
      /\ \A i \in 1..Len(add) : more[i] = add[i]
      /\ more[Len(add) + 1] = p
      /\ \A i \in 1..Len(more) : i \in 1..Len(add) \/ i = Len(more)
  BY <1>2, <1>4
<1>6. msg \in cut2 => Gathered(add, k, msg, no, parts, whole, cut2)
  BY <1>2, <1>3 DEF Gathered
<1> HIDE DEF more
<1>7. ASSUME NEW i \in 1..Len(more)
      PROVE  /\ more[i].msg = msg /\ more[i].no = no
             /\ i < Len(more) \/ k < Len(parts) => more[i].part # "close"
  <2>1. CASE i \in 1..Len(add)
    BY <1>3, <1>5, <2>1
  <2>2. CASE i = Len(more)
    <3>1. ~(i < Len(more)) /\ more[i] = p
      BY <1>2, <1>5, <2>2
    <3> QED
      BY <1>4, <3>1
  <2> QED
    BY <1>5, <2>1, <2>2
<1>8. msg \in cut2 \/ (Len(more) = k /\ \A i \in 1..k : more[i] = ThePiece(no, msg, parts[i], whole))
  <2> SUFFICES ASSUME msg \notin cut2
               PROVE  Len(more) = k /\ \A i \in 1..k : more[i] = ThePiece(no, msg, parts[i], whole)
    OBVIOUS
  <2>1. Len(add) = k - 1 /\ \A i \in 1..k - 1 : add[i] = ThePiece(no, msg, parts[i], whole)
    BY DEF Gathered
  <2>2. Len(more) = k
    BY <1>1, <1>5, <2>1
  <2>3. \A i \in 1..k : i \in 1..k - 1 \/ i = k
    BY <1>1
  <2> QED
    BY <1>1, <1>5, <2>1, <2>2, <2>3 DEF p
<1>9. Gathered(more, k, msg, no, parts, whole, cut2)
  BY <1>5, <1>7, <1>8 DEF Gathered
<1> QED
  BY <1>6, <1>9 DEF more, p

\* The pieces of a message: only the last one may end the line.
Parts(parts) ==
    /\ parts \in Seq(PartNames) /\ parts # <<>>
    /\ \A i \in 1..Len(parts) : i < Len(parts) => parts[i] # "close"

Puttable(c, w, msg, parts, whole, v) ==
    /\ v = PutAll(c, w, msg, parts, whole)
    /\ c \in Channels /\ w \in Puts /\ OutOK(w.out) /\ w.cut = {} /\ link[c].no \in Nat
    /\ msg \in Messages /\ Parts(parts) /\ whole \in Seq(PartNames)

LEMMA PutAllAdds ==
    ASSUME NEW c, NEW w, NEW msg, NEW parts, NEW whole, NEW v, Puttable(c, w, msg, parts, whole, v)
    PROVE  /\ v \in Puts /\ OutOK(v.out)
           /\ \E add : /\ Adds(add, msg, link[c].no, parts, whole, v.cut)
                       /\ Sending(v.out) = Sending(w.out) \o add
<1>0. parts \in Seq(PartNames) /\ v = PutAll(c, w, msg, parts, whole)
  BY DEF Puttable, Parts
<1>a. PutInTurn(c, w, msg, parts, whole)
  BY ONLY <1>0, PutAllMade
<1> USE DEF Puttable
<1> DEFINE no == link[c].no
           n == Len(parts)
<1>1. PICK f : /\ f[0] = w
               /\ \A k \in 1..n : f[k] = NetworkPuts(c, f[k - 1], ThePiece(no, msg, parts[k], whole))
               /\ v = f[n]
  BY <1>0, <1>a, Zenon DEF PutInTurn
<1> DEFINE Did(k, add) == /\ Gathered(add, k, msg, no, parts, whole, f[k].cut)
                          /\ Sending(f[k].out) = Sending(w.out) \o add
           Good(k) == f[k] \in Puts /\ OutOK(f[k].out) /\ \E add : Did(k, add)
<1>2. Good(0)
  <2>1. <<>> \in Seq(Piece) /\ Len(<<>>) = 0
    BY EmptySeq
  <2>2. Gathered(<<>>, 0, msg, no, parts, whole, f[0].cut)
    BY <2>1 DEF Gathered
  <2>3. Sending(w.out) \o <<>> = Sending(w.out)
    <3>1. w.out.flight \in Seq(Piece) /\ w.out.tx \in Seq(Piece)
      BY DEF Puts, Outs
    <3>2. \A a, b \in Seq(Piece) : (a \o b) \o <<>> = a \o b
      OBVIOUS
    <3> QED
      BY <3>1, <3>2 DEF Sending
  <2> QED
    BY <1>1, <2>2, <2>3
<1>3. ASSUME NEW k \in 1..n, Good(k - 1) PROVE Good(k)
  <2>1. PICK add : Did(k - 1, add)
    BY <1>3
  <2>0. PICK p : p = ThePiece(no, msg, parts[k], whole)
    OBVIOUS
  <2>2. p \in Piece /\ p.msg = msg
    <3>1. parts[k] \in PartNames
      BY DEF Parts
    <3>2. (IF parts[k] = "close" THEN whole ELSE <<>>) \in Seq(PartNames)
      BY EmptySeq
    <3> QED
      BY <2>0, <3>1, <3>2, PieceIs DEF ThePiece, Piece
  <2>3. f[k] = NetworkPuts(c, f[k - 1], p)
    BY <1>1, <2>0
  <2>4. add \in Seq(Piece)
    BY <2>1 DEF Gathered
  <2>5. /\ f[k] \in Puts /\ OutOK(f[k].out)
        /\ \/ f[k].out = f[k - 1].out /\ f[k].cut = f[k - 1].cut \cup {msg}
           \/ f[k].cut = f[k - 1].cut /\ Sending(f[k].out) = Append(Sending(f[k - 1].out), p)
    <3>1. f[k - 1] \in Puts /\ OutOK(f[k - 1].out)
      BY <1>3
    <3>2. /\ f[k] \in Puts /\ OutOK(f[k].out)
          /\ \/ f[k].out = f[k - 1].out /\ f[k].cut = f[k - 1].cut \cup {p.msg}
             \/ f[k].cut = f[k - 1].cut /\ Sending(f[k].out) = Append(Sending(f[k - 1].out), p)
      BY <2>2, <2>3, <3>1, PutOne, SMTT(30)
    <3> QED
      BY <2>2, <3>2
  <2>6. /\ msg \in f[k].cut => Gathered(add, k, msg, no, parts, whole, f[k].cut)
        /\ Gathered(Append(add, p), k, msg, no, parts, whole, f[k].cut)
    <3>1. f[k - 1].cut \subseteq f[k].cut
      BY <2>5
    <3> QED
      BY <2>0, <2>1, <3>1, OneMore DEF Parts
  <2>7. CASE f[k].out = f[k - 1].out /\ f[k].cut = f[k - 1].cut \cup {msg}
    <3>1. Did(k, add)
      BY <2>1, <2>6, <2>7
    <3> QED
      BY <2>5, <3>1
  <2>8. CASE f[k].cut = f[k - 1].cut /\ Sending(f[k].out) = Append(Sending(f[k - 1].out), p)
    <3>1. Sending(w.out) \in Seq(Piece)
      <4>1. w.out.flight \in Seq(Piece) /\ w.out.tx \in Seq(Piece)
        BY DEF Puts, Outs
      <4> QED
        BY <4>1 DEF Sending
    <3>3. Sending(f[k].out) = Sending(w.out) \o Append(add, p)
      <4>1. Sending(f[k].out) = Append(Sending(w.out) \o add, p)
        BY <2>1, <2>8
      <4>2. PICK a \in Seq(Piece) : a = Sending(w.out)
        BY <3>1
      <4>3. p \in Piece
        BY <2>2
      <4>4. Append(a \o add, p) = a \o Append(add, p)
        BY <2>4, <4>3, AppendJoined
      <4> QED
        BY <4>1, <4>2, <4>4
    <3>4. Did(k, Append(add, p))
      BY <2>6, <3>3
    <3> QED
      BY <2>5, <3>4
  <2> QED
    BY <2>5, <2>7, <2>8
<1> HIDE DEF Did
<1>4. Good(n)
  <2> HIDE DEF Good
  <2> DEFINE Bad == {k \in 0..n : ~Good(k)}
  <2>1. n \in Nat
    BY DEF Parts
  <2> HIDE DEF n
  <2> SUFFICES ASSUME Bad # {} PROVE FALSE
    BY <2>1
  <2>2. PICK k \in Bad : \A y \in Bad : k <= y
    <3>1. Bad \subseteq Nat
      OBVIOUS
    <3> HIDE DEF Bad
    <3> QED
      BY <3>1, LeastNumber
  <2>3. k \in 0..n /\ ~Good(k)
    OBVIOUS
  <2>4. k # 0
    BY <1>2, <2>3
  <2>5. k \in 1..n /\ k - 1 \in 0..n /\ ~(k <= k - 1)
    BY <2>1, <2>3, <2>4
  <2>6. k - 1 \notin Bad
    <3> HIDE DEF Bad
    <3> QED
      BY <2>2, <2>5
  <2> QED
    BY <1>3, <2>3, <2>5, <2>6
<1>5. PICK add : Gathered(add, n, msg, no, parts, whole, v.cut) /\ Sending(v.out) = Sending(w.out) \o add
  BY <1>1, <1>4 DEF Did
<1>6. Adds(add, msg, no, parts, whole, v.cut)
  BY <1>5 DEF Adds, Gathered, OneLine
<1> QED
  BY <1>1, <1>4, <1>5, <1>6

-----------------------------------------------------------------------------
(* What the server reads.                                                  *)

Hears == [line : Seq(Piece), replies : Seq(Messages), events : Seq(Nat), bad : SUBSET (SUBSET Messages)]

\* The server has read no end of this line.
Fresh(line, no) == \A i \in 1..Len(line) : ~Ends(line, i, no)

LEMMA LineRead ==
    ASSUME NEW s \in Seq(Piece), NEW no, NEW cut, NEW msg, WayOK(s, no, cut, msg),
           NEW k \in 1..Len(s), Ends(s, k, no), NEW t \in Seq(Piece),
           Len(t) = Len(s) - k, \A i \in 1..Len(t) : t[i] = s[k + i]
    PROVE  WayOK(t, no, cut, msg)
<1>1. PICK n \in Nat, l \in Nat : n = Len(s) /\ l = Len(t)
  OBVIOUS
<1>2. l = n - k /\ k \in 1..n /\ \A i \in 1..l : t[i] = s[k + i]
  BY <1>1
<1>3. ASSUME NEW i \in 1..l PROVE k + i \in 1..n /\ (Ends(t, i, no) <=> Ends(s, k + i, no))
  <2>1. k + i \in 1..n
    <3>1. i \in Nat /\ k \in Nat
      BY <1>2
    <3> QED
      BY <1>2, <3>1
  <2>2. t[i] = s[k + i]
    BY <1>2
  <2> QED
    BY <2>1, <2>2 DEF Ends
<1>4. ASSUME NEW j \in 1..l + 1, NEW m \in Nat, m <= l, Open(t, j, m, no)
      PROVE  Open(s, k + j, k + m, no)
  <2>1. CASE j = 1
    <3>1. k + j = k + 1 /\ (k + j) - 1 = k
      BY <2>1
    <3>2. Ends(s, (k + j) - 1, no)
      BY <3>1
    <3> QED
      <4>1. \A i \in (k + j)..(k + m) : i - k \in j..m /\ i - k \in 1..l /\ k + (i - k) = i
        BY <1>2, <1>4
      <4>2. \A i \in (k + j)..(k + m) : ~Ends(s, i, no)
        BY <1>3, <1>4, <4>1 DEF Open
      <4> QED
        BY <3>2, <4>2 DEF Open
  <2>2. CASE j # 1
    <3>1. j - 1 \in 1..l /\ k + (j - 1) = (k + j) - 1
      BY <1>2, <2>2
    <3>2. Ends(s, (k + j) - 1, no)
      BY <1>3, <1>4, <2>2, <3>1 DEF Open
    <3> QED
      <4>1. \A i \in (k + j)..(k + m) : i - k \in j..m /\ i - k \in 1..l /\ k + (i - k) = i
        BY <1>2, <1>4
      <4>2. \A i \in (k + j)..(k + m) : ~Ends(s, i, no)
        BY <1>3, <1>4, <4>1 DEF Open
      <4> QED
        BY <3>2, <4>2 DEF Open
  <2> QED
    BY <2>1, <2>2
<1>5. ASSUME NEW j \in 1..l + 1, NEW m \in 1..l, Hit(s, k + j, k + m, cut)
      PROVE  Hit(t, j, m, cut)
  <2>1. PICK i \in (k + j)..(k + m) : s[i].msg \in cut
    BY <1>5 DEF Hit
  <2>2. i - k \in j..m /\ i - k \in 1..l /\ k + (i - k) = i
    BY <1>2
  <2>3. t[i - k] = s[i]
    BY <1>2, <2>2
  <2> QED
    BY <2>1, <2>2, <2>3 DEF Hit
<1>6. ASSUME NEW m \in 1..l, NEW j \in 1..l, j <= m, Open(t, j, m - 1, no), Ends(t, m, no)
      PROVE  Hit(t, j, m, cut) \/ Entire(t, j, m, no)
  <2>1. /\ k + m \in 1..n /\ k + j \in 1..n /\ k + j <= k + m /\ k + (m - 1) = (k + m) - 1
        /\ m - 1 \in Nat /\ m - 1 <= l /\ j \in 1..l + 1
    BY <1>2, <1>6
  <2>2. Open(s, k + j, (k + m) - 1, no) /\ Ends(s, k + m, no)
    BY <1>3, <1>4, <1>6, <2>1
  <2>3. Hit(s, k + j, k + m, cut) \/ Entire(s, k + j, k + m, no)
    BY <1>1, <2>1, <2>2 DEF WayOK, LinesOK
  <2>4. CASE Entire(s, k + j, k + m, no)
    <3>1. \A i \in j..m : k + i \in (k + j)..(k + m) /\ i \in 1..l /\ t[i] = s[k + i]
      BY <1>2, <2>1
    <3>2. m \in j..m
      BY <1>6
    <3>3. ASSUME NEW i \in j..m PROVE t[i].msg = t[m].msg /\ t[i].no = no
      <4>1. k + i \in (k + j)..(k + m) /\ t[i] = s[k + i] /\ t[m] = s[k + m]
        BY <3>1, <3>2
      <4>2. s[k + i].msg = s[k + m].msg /\ s[k + i].no = no
        BY <2>4, <4>1 DEF Entire
      <4> QED
        BY <4>1, <4>2
    <3>4. (k + m) - (k + j) + 1 = m - j + 1
      BY <2>1
    <3>5. ASSUME NEW i \in 1..m - j + 1 PROVE t[i + j - 1] = s[i + (k + j) - 1]
      <4>1. i + j - 1 \in 1..l /\ k + (i + j - 1) = i + (k + j) - 1
        BY <1>6, <2>1
      <4> QED
        BY <1>2, <4>1
    <3>6. t[m].whole = [i \in 1..m - j + 1 |-> s[i + (k + j) - 1].part]
      BY <2>4, <3>1, <3>2, <3>4 DEF Entire
    <3>7. t[m].whole = [i \in 1..m - j + 1 |-> t[i + j - 1].part]
      BY <3>5, <3>6
    <3> QED
      BY <3>3, <3>7 DEF Entire
  <2> QED
    BY <1>5, <2>1, <2>3, <2>4
<1>7. ASSUME NEW j \in 1..l + 1, Open(t, j, l, no)
      PROVE  Unfinished(t, j, no, cut, msg)
  <2>1. k + j \in 1..n + 1 /\ k + l = n /\ l <= l
    BY <1>2
  <2>2. Open(s, k + j, n, no)
    BY <1>4, <1>7, <2>1
  <2>3. Unfinished(s, k + j, no, cut, msg)
    BY <1>1, <2>1, <2>2 DEF WayOK, RestOK
  <2>4. CASE Hit(s, k + j, n, cut)
    <3>1. l \in 1..l
      <4>1. PICK i \in (k + j)..n : TRUE
        BY <2>4 DEF Hit
      <4> QED
        BY <1>2, <4>1
    <3> QED
      BY <1>1, <1>5, <2>1, <2>4, <3>1 DEF Unfinished
  <2>5. CASE k + j = n + 1 /\ msg \in cut \cup {NoMsg}
    <3>1. j = l + 1
      BY <1>2, <2>5
    <3> QED
      BY <1>1, <2>5, <3>1 DEF Unfinished
  <2>6. CASE k + j = n /\ msg # NoMsg /\ s[k + j].msg = msg /\ s[k + j].no = no /\ s[k + j].part = "open"
    <3>1. j = l /\ j \in 1..l
      BY <1>2, <2>6
    <3>2. t[j] = s[k + j]
      BY <1>2, <3>1
    <3> QED
      BY <1>1, <2>6, <3>1, <3>2 DEF Unfinished
  <2> QED
    BY <1>1, <2>3, <2>4, <2>5, <2>6 DEF Unfinished
<1>8. OldCut(t, no, cut)
  BY <1>1, <1>2, <1>3 DEF WayOK, OldCut
<1> QED
  BY <1>1, <1>6, <1>7, <1>8 DEF WayOK, LinesOK, RestOK

\* s is an unfinished line, its next piece p, which makes it l, and what is behind it.
Ahead(s, line, p, l, rest, k) ==
    /\ s \in Seq(Piece) /\ k \in 1..Len(s) /\ k = Len(line) + 1
    /\ l \in Seq(Piece) /\ Len(l) = k
    /\ \A i \in 1..k : l[i] = s[i]
    /\ \A i \in 1..k - 1 : i \in 1..Len(line) /\ line[i] = s[i]
    /\ s[k] = p
    /\ Len(rest) = Len(s) - k
    /\ \A i \in 1..Len(rest) : rest[i] = s[k + i]

LEMMA LineAhead ==
    ASSUME NEW line \in Seq(Piece), NEW p \in Piece, NEW rest \in Seq(Piece),
           NEW l, l = Append(line, p), NEW s, s = l \o rest
    PROVE  \E k \in Nat \ {0} : Ahead(s, line, p, l, rest, k)
<1>1. l \in Seq(Piece)
  OBVIOUS
<1>2. /\ Len(l) = Len(line) + 1 /\ l[Len(line) + 1] = p
      /\ \A i \in 1..Len(line) : l[i] = line[i]
  BY <1>1
<1>3. s = l \o rest
  OBVIOUS
<1>4. PICK n \in Nat, r \in Nat : n = Len(line) /\ r = Len(rest)
  OBVIOUS
<1>5. /\ s \in Seq(Piece) /\ Len(s) = n + 1 + r
      /\ \A i \in 1..n + 1 : s[i] = l[i]
      /\ \A i \in 1..r : s[n + 1 + i] = rest[i]
  <2>1. /\ l \o rest \in Seq(Piece) /\ Len(l \o rest) = Len(l) + Len(rest)
        /\ \A i \in 1..Len(l) : (l \o rest)[i] = l[i]
        /\ \A i \in 1..Len(rest) : (l \o rest)[Len(l) + i] = rest[i]
    BY <1>1, Joined
  <2>2. Len(l) = n + 1 /\ Len(rest) = r
    BY <1>2, <1>4
  <2> QED
    BY ONLY <1>3, <2>1, <2>2
<1>6. n + 1 \in Nat \ {0} /\ n + 1 \in 1..Len(s) /\ n + 1 \in 1..n + 1 /\ r = Len(s) - (n + 1)
  BY <1>5
<1>7. \A i \in 1..(n + 1) - 1 : i \in 1..n /\ i \in 1..n + 1
  OBVIOUS
<1> QED
  BY <1>1, <1>2, <1>4, <1>5, <1>6, <1>7 DEF Ahead

\* What the server makes of p: no end of a line yet, a message, or a line it cannot use.
ReadsAs(h, p, g, no, cut, names) ==
    \/ ~(p.part = "close" /\ p.no = no) /\ g = [h EXCEPT !.line = Append(h.line, p)]
    \/ /\ p.part = "close" /\ p.no = no /\ g.line = <<>>
       /\ \/ g.bad = h.bad /\ p.msg[1] = "event" /\ g.events = Append(h.events, p.msg[2])
          \/ g.bad = h.bad /\ p.msg[1] # "event" /\ g.events = h.events
          \/ /\ g.bad = h.bad \cup {names} /\ g.events = h.events
             /\ p.msg \in names /\ names \cap cut # {}

Hearable(c, h, p, rest, cut, at, no, g, all) ==
    /\ no = link[c].no /\ WayOK(Append(h.line, p) \o rest, no, cut, at) /\ Fresh(h.line, no)
    /\ g = Hear(c, h, p) /\ all = ToSet(Append(h.line, p))

LEMMA HearIs ==
    ASSUME NEW c \in Channels, NEW h \in Hears, NEW p \in Piece, NEW rest \in Seq(Piece), NEW cut, NEW at,
           NEW no, NEW g, NEW all, Hearable(c, h, p, rest, cut, at, no, g, all)
    PROVE  /\ g \in Hears /\ Fresh(g.line, no)
           /\ WayOK(g.line \o rest, no, cut, at)
           /\ ReadsAs(h, p, g, no, cut, {q.msg : q \in all})
<1>a. /\ no = link[c].no /\ WayOK(Append(h.line, p) \o rest, no, cut, at) /\ Fresh(h.line, no)
      /\ g = Hear(c, h, p) /\ all = ToSet(Append(h.line, p))
  BY DEF Hearable
<1> USE <1>a
<1>1. PICK line \in Seq(Piece) : line = h.line
  BY DEF Hears
<1>3. PICK l : l = Append(line, p)
  OBVIOUS
<1>2. PICK s : s = l \o rest
  OBVIOUS
<1>k. PICK k \in Nat \ {0} : Ahead(s, line, p, l, rest, k)
  BY <1>2, <1>3, LineAhead
<1>4. /\ s \in Seq(Piece) /\ k \in 1..Len(s) /\ k = Len(line) + 1
      /\ l \in Seq(Piece) /\ Len(l) = k
      /\ \A i \in 1..k : l[i] = s[i]
      /\ \A i \in 1..k - 1 : i \in 1..Len(line) /\ line[i] = s[i]
      /\ s[k] = p
      /\ Len(rest) = Len(s) - k
      /\ \A i \in 1..Len(rest) : rest[i] = s[k + i]
  BY <1>k DEF Ahead
<1>5. WayOK(s, no, cut, at) /\ Fresh(line, no)
  BY <1>1, <1>2, <1>3
<1>6. p.msg \in Messages /\ p.msg[2] \in Nat
  BY DEF Piece, Messages
<1>7. all = {l[i] : i \in 1..k} /\ p \in all /\ DOMAIN l = 1..k
  <2>1. DOMAIN l = 1..k /\ k \in 1..k /\ l[k] = p
    BY <1>4
  <2>2. all = {l[i] : i \in 1..k}
    BY <1>1, <1>3, <2>1 DEF ToSet
  <2> QED
    BY <2>1, <2>2
<1> DEFINE whole == /\ \A q \in all : q.msg = p.msg /\ q.no = no
                    /\ [i \in DOMAIN l |-> l[i].part] = p.whole
           names == {q.msg : q \in all}
           g1 == [h EXCEPT !.line = l]
           g2 == [h EXCEPT !.line = <<>>, !.events = Append(@, p.msg[2])]
           g3 == [h EXCEPT !.line = <<>>, !.replies = Append(@, p.msg)]
           g4 == [h EXCEPT !.line = <<>>]
           g5 == [h EXCEPT !.line = <<>>, !.bad = @ \cup {names}]
           goes == p.part # "close" \/ p.no # no
<1>8. g = IF goes THEN g1 ELSE IF ~whole THEN g5
          ELSE CASE p.msg[1] = "event" -> g2 [] p.msg[1] \in {"reply", "phantom"} -> g3 [] OTHER -> g4
  BY <1>1, <1>3 DEF Hear
<1> HIDE DEF whole, names, g1, g2, g3, g4, g5, goes
<1>c. /\ goes => g = g1
      /\ ~goes /\ ~whole => g = g5
      /\ ~goes /\ whole /\ p.msg[1] = "event" => g = g2
      /\ ~goes /\ whole /\ p.msg[1] \in {"reply", "phantom"} => g = g3
      /\ ~goes /\ whole /\ p.msg[1] \notin {"event", "reply", "phantom"} => g = g4
  BY <1>8
<1>9. CASE ~(p.part = "close" /\ p.no = no)
  <2>1. g = [h EXCEPT !.line = l]
    BY <1>c, <1>9 DEF goes, g1
  <2>2. g \in Hears /\ g.line = l
    BY <1>4, <2>1 DEF Hears
  <2>3. Fresh(l, no)
    <3> SUFFICES ASSUME NEW i \in 1..Len(l) PROVE ~Ends(l, i, no)
      BY DEF Fresh
    <3>1. CASE i = k
      BY <1>4, <1>9, <3>1 DEF Ends
    <3>2. CASE i # k
      <4>1. i \in 1..k - 1 /\ i \in 1..k
        BY <1>4, <3>2
      <4>2. i \in 1..Len(line) /\ l[i] = line[i]
        BY <1>4, <4>1
      <4> QED
        BY <1>5, <4>2 DEF Fresh, Ends
    <3> QED
      BY <3>1, <3>2
  <2> QED
    BY <1>1, <1>2, <1>3, <1>5, <1>9, <2>1, <2>2, <2>3 DEF ReadsAs
<1>10. CASE p.part = "close" /\ p.no = no
  <2>1. Ends(s, k, no)
    BY <1>4, <1>10 DEF Ends
  <2>2. WayOK(rest, no, cut, at)
    BY <1>4, <1>5, <2>1, LineRead
  <2>3. Fresh(<<>>, no) /\ <<>> \o rest = rest /\ <<>> \in Seq(Piece)
    <3>1. Len(<<>>) = 0
      OBVIOUS
    <3>2. Fresh(<<>>, no)
      BY <3>1 DEF Fresh
    <3> QED
      BY <3>2, EmptySeq
  <2>4. CASE whole /\ p.msg[1] = "event"
    <3>1. g = [h EXCEPT !.line = <<>>, !.events = Append(@, p.msg[2])]
      BY <1>c, <1>10, <2>4 DEF goes, g2
    <3>2. Append(h.events, p.msg[2]) \in Seq(Nat)
      BY <1>6 DEF Hears
    <3>3. g \in Hears /\ g.line = <<>> /\ g.bad = h.bad /\ g.events = Append(h.events, p.msg[2])
      BY <2>3, <3>1, <3>2 DEF Hears
    <3> QED
      BY <1>10, <2>2, <2>3, <2>4, <3>3 DEF ReadsAs
  <2>5. CASE whole /\ p.msg[1] \in {"reply", "phantom"}
    <3>1. g = [h EXCEPT !.line = <<>>, !.replies = Append(@, p.msg)] /\ p.msg[1] # "event"
      BY <1>c, <1>10, <2>5 DEF goes, g3
    <3>2. Append(h.replies, p.msg) \in Seq(Messages)
      BY <1>6 DEF Hears
    <3>3. g \in Hears /\ g.line = <<>> /\ g.bad = h.bad /\ g.events = h.events
      BY <2>3, <3>1, <3>2 DEF Hears
    <3> QED
      BY <1>10, <2>2, <2>3, <3>1, <3>3 DEF ReadsAs
  <2>6. CASE whole /\ p.msg[1] \notin {"event", "reply", "phantom"}
    <3>1. g = [h EXCEPT !.line = <<>>] /\ p.msg[1] # "event"
      BY <1>c, <1>10, <2>6 DEF goes, g4
    <3>2. g \in Hears /\ g.line = <<>> /\ g.bad = h.bad /\ g.events = h.events
      BY <2>3, <3>1 DEF Hears
    <3> QED
      BY <1>10, <2>2, <2>3, <3>1, <3>2 DEF ReadsAs
  <2>7. CASE ~whole
    <3>1. g = [h EXCEPT !.line = <<>>, !.bad = @ \cup {names}]
      BY <1>c, <1>10, <2>7 DEF goes, g5
    <3>2. names \in SUBSET Messages
      <4>1. all \subseteq Piece
        BY <1>4, <1>7
      <4> QED
        BY <4>1 DEF Piece, names
    <3>b. h.bad \cup {names} \in SUBSET (SUBSET Messages)
      BY <3>2 DEF Hears
    <3>3. g \in Hears /\ g.line = <<>> /\ g.bad = h.bad \cup {names} /\ g.events = h.events
      BY <2>3, <3>1, <3>b DEF Hears
    <3>4. Open(s, 1, k - 1, no)
      <4>1. \A i \in 1..k - 1 : ~Ends(s, i, no)
        BY <1>4, <1>5 DEF Fresh, Ends
      <4> QED
        BY <4>1 DEF Open
    <3>5. 1 \in 1..Len(s) /\ 1 <= k
      BY <1>4
    <3>6. Hit(s, 1, k, cut) \/ Entire(s, 1, k, no)
      BY <1>4, <1>5, <2>1, <3>4, <3>5 DEF WayOK, LinesOK
    <3>7. ~Entire(s, 1, k, no)
      <4> SUFFICES ASSUME Entire(s, 1, k, no) PROVE FALSE
        OBVIOUS
      <4>1. \A q \in all : q.msg = p.msg /\ q.no = no
        BY <1>4, <1>7 DEF Entire
      <4>2. p.whole = [i \in 1..k - 1 + 1 |-> s[i + 1 - 1].part]
        BY <1>4 DEF Entire
      <4>3. k - 1 + 1 = k /\ \A i \in 1..k : i + 1 - 1 = i
        OBVIOUS
      <4>4. p.whole = [i \in 1..k |-> l[i].part]
        BY <1>4, <4>2, <4>3
      <4> QED
        BY <1>7, <2>7, <4>1, <4>4 DEF whole
    <3>8. PICK i \in 1..k : s[i].msg \in cut
      BY <3>6, <3>7 DEF Hit
    <3>9. s[i] \in all
      BY <1>4, <1>7
    <3>10. p.msg \in names /\ names \cap cut # {}
      BY <1>7, <3>8, <3>9 DEF names
    <3> QED
      BY <1>10, <2>2, <2>3, <3>3, <3>10 DEF names, ReadsAs
  <2> QED
    BY <2>4, <2>5, <2>6, <2>7
<1> QED
  BY <1>9, <1>10

-----------------------------------------------------------------------------
(* Events in order.                                                         *)

\* The k-th piece ends an event.
Tells(s, k) == s[k].part = "close" /\ s[k].msg[1] = "event"

\* Events are heard in the order of their numbers, then come those on their way to the
\* server, then those in the queue; none is newer than the last one reported.
OrderOK(told, s, q, top) ==
    /\ \A i, j \in 1..Len(told) : i < j => told[i] < told[j]
    /\ \A k, l \in 1..Len(s) : k < l /\ Tells(s, k) /\ Tells(s, l) => s[k].msg[2] < s[l].msg[2]
    /\ \A i, j \in 1..Len(q) : i < j => q[i] < q[j]
    /\ \A i \in 1..Len(told), k \in 1..Len(s) : Tells(s, k) => told[i] < s[k].msg[2]
    /\ \A i \in 1..Len(told), j \in 1..Len(q) : told[i] < q[j]
    /\ \A k \in 1..Len(s), j \in 1..Len(q) : Tells(s, k) => s[k].msg[2] < q[j]
    /\ \A i \in 1..Len(told) : told[i] <= top
    /\ \A k \in 1..Len(s) : Tells(s, k) => s[k].msg[2] <= top
    /\ \A j \in 1..Len(q) : q[j] <= top

\* Where an event is.
Somewhere(n, told, s, no, q, gone, lost) ==
    \/ \E i \in 1..Len(told) : told[i] = n
    \/ \E k \in 1..Len(s) : Tells(s, k) /\ s[k].no = no /\ s[k].msg[2] = n
    \/ \E j \in 1..Len(q) : q[j] = n
    \/ n \in gone \/ <<"event", n>> \in lost

KeptOK(told, s, no, q, top, gone, lost) ==
    \A n \in 1..top : Somewhere(n, told, s, no, q, gone, lost)

LEMMA OtherAdded ==
    ASSUME NEW s \in Seq(Piece), NEW add \in Seq(Piece), NEW t, t = s \o add,
           NEW msg, msg[1] # "event", \A i \in 1..Len(add) : add[i].msg = msg,
           NEW told, NEW q, NEW top, NEW no, NEW gone, NEW lost, NEW lost2, lost \subseteq lost2
    PROVE  /\ OrderOK(told, s, q, top) => OrderOK(told, t, q, top)
           /\ KeptOK(told, s, no, q, top, gone, lost) => KeptOK(told, t, no, q, top, gone, lost2)
<1>1. PICK n, a, l \in Nat : Extends(t, s, add, n, a, l)
  BY Behind
<1>2. \A k \in 1..Len(t) : Tells(t, k) => k \in 1..Len(s) /\ t[k] = s[k] /\ Tells(s, k)
  <2> SUFFICES ASSUME NEW k \in 1..l, Tells(t, k) PROVE k \in 1..n /\ t[k] = s[k] /\ Tells(s, k)
    BY <1>1 DEF Extends
  <2>1. k \in 1..n
    <3> SUFFICES ASSUME k \notin 1..n PROVE FALSE
      OBVIOUS
    <3>1. k \in (n + 1)..l
      OBVIOUS
    <3>2. k - n \in 1..Len(add) /\ t[k] = add[k - n]
      BY <1>1, <3>1 DEF Extends
    <3>3. t[k].msg = msg
      BY <3>2
    <3> QED
      BY <3>3 DEF Tells
  <2> QED
    BY <1>1, <2>1 DEF Extends, Tells
<1>3. \A k \in 1..Len(s) : k \in 1..Len(t) /\ t[k] = s[k] /\ (Tells(s, k) => Tells(t, k))
  <2>1. \A k \in 1..n : k \in 1..l /\ t[k] = s[k]
    BY <1>1 DEF Extends
  <2> QED
    BY <1>1, <2>1 DEF Extends, Tells
<1>4. ASSUME OrderOK(told, s, q, top) PROVE OrderOK(told, t, q, top)
  BY <1>2, <1>4 DEF OrderOK
<1>5. ASSUME KeptOK(told, s, no, q, top, gone, lost) PROVE KeptOK(told, t, no, q, top, gone, lost2)
  BY <1>3, <1>5 DEF KeptOK, Somewhere
<1> QED
  BY <1>4, <1>5

LEMMA QueueTail ==
    ASSUME NEW q \in Seq(Nat), q # <<>>
    PROVE  /\ Head(q) = q[1] /\ Tail(q) \in Seq(Nat) /\ 1 \in 1..Len(q)
           /\ \A j \in 1..Len(Tail(q)) : j + 1 \in 2..Len(q) /\ Tail(q)[j] = q[j + 1]
           /\ \A j \in 1..Len(q) : j # 1 => j - 1 \in 1..Len(Tail(q)) /\ Tail(q)[j - 1] = q[j]
<1>1. Len(q) \in Nat \ {0} /\ Head(q) = q[1] /\ Tail(q) \in Seq(Nat) /\ Len(Tail(q)) = Len(q) - 1
  OBVIOUS
<1>2. \A j \in 1..Len(Tail(q)) : Tail(q)[j] = q[j + 1]
  OBVIOUS
<1>3. \A j \in 1..Len(q) : j # 1 => j - 1 \in 1..Len(q) - 1 /\ (j - 1) + 1 = j
  OBVIOUS
<1>4. \A j \in 1..Len(q) - 1 : j + 1 \in 2..Len(q)
  BY <1>1
<1>5. 1 \in 1..Len(q)
  BY <1>1
<1> QED
  BY <1>1, <1>2, <1>3, <1>4, <1>5

\* The queue's first event is dropped.
LEMMA EventDropped ==
    ASSUME NEW q \in Seq(Nat), q # <<>>, NEW told, NEW s, NEW top, NEW no, NEW gone, NEW lost,
           OrderOK(told, s, q, top), KeptOK(told, s, no, q, top, gone, lost)
    PROVE  /\ OrderOK(told, s, Tail(q), top)
           /\ KeptOK(told, s, no, Tail(q), top, gone \cup {Head(q)}, lost)
<1> DEFINE r == Tail(q)
<1>1. \A j \in 1..Len(r) : j + 1 \in 1..Len(q) /\ r[j] = q[j + 1] /\ j \in Nat
  BY QueueTail
<1>2. \A j \in 1..Len(q) : j # 1 => j - 1 \in 1..Len(r) /\ r[j - 1] = q[j]
  BY QueueTail
<1>3. Head(q) = q[1]
  BY QueueTail
<1> HIDE DEF r
<1>4. \A i, j \in 1..Len(r) : i < j => i + 1 < j + 1
  BY <1>1
<1>5. OrderOK(told, s, r, top)
  BY <1>1, <1>4 DEF OrderOK
<1>6. KeptOK(told, s, no, r, top, gone \cup {Head(q)}, lost)
  BY <1>2, <1>3 DEF KeptOK, Somewhere
<1> QED
  BY <1>5, <1>6 DEF r

\* The queue's first event is written.
LEMMA EventWritten ==
    ASSUME NEW q \in Seq(Nat), q # <<>>, NEW s \in Seq(Piece), NEW add, NEW t, t = s \o add,
           NEW n, n = Head(q), NEW told, NEW top, NEW no, NEW gone, NEW cut, NEW lost, NEW lost2,
           lost \subseteq lost2, cut \subseteq lost2, Adds(add, <<"event", n>>, no, Event, Event, cut),
           OrderOK(told, s, q, top), KeptOK(told, s, no, q, top, gone, lost)
    PROVE  /\ OrderOK(told, t, Tail(q), top)
           /\ KeptOK(told, t, no, Tail(q), top, gone, lost2)
<1> DEFINE r == Tail(q)
<1>1. \A j \in 1..Len(r) : j + 1 \in 2..Len(q) /\ r[j] = q[j + 1] /\ j \in Nat
  BY QueueTail
<1>2. \A j \in 1..Len(q) : j # 1 => j - 1 \in 1..Len(r) /\ r[j - 1] = q[j]
  BY QueueTail
<1>3. n = q[1] /\ 1 \in 1..Len(q) /\ n \in Nat
  BY QueueTail
<1> HIDE DEF r
<1>4. add \in Seq(Piece) /\ OneLine(add, no) /\ \A i \in 1..Len(add) : add[i].msg = <<"event", n>>
  BY DEF Adds
<1>5. PICK m, a, l \in Nat : Extends(t, s, add, m, a, l)
  BY <1>4, Behind
<1>6. /\ m = Len(s) /\ a = Len(add) /\ l = Len(t) /\ l = m + a
      /\ \A i \in 1..m : t[i] = s[i]
      /\ \A i \in 1..a : t[m + i] = add[i]
      /\ \A i \in (m + 1)..l : i - m \in 1..a /\ t[i] = add[i - m]
  BY <1>5 DEF Extends
<1>7. ASSUME NEW k \in 1..l, Tells(t, k)
      PROVE  \/ k \in 1..m /\ t[k] = s[k] /\ Tells(s, k)
             \/ k = l /\ k > m /\ t[k].msg[2] = n
  <2>1. CASE k \in 1..m
    BY <1>6, <1>7, <2>1 DEF Tells
  <2>2. CASE k \notin 1..m
    <3>1. k \in (m + 1)..l
      BY <2>2
    <3>2. k - m \in 1..a /\ t[k] = add[k - m]
      BY <1>6, <3>1
    <3>3. add[k - m].msg = <<"event", n>> /\ add[k - m].part = "close"
      BY <1>4, <1>6, <1>7, <3>2 DEF Tells
    <3>4. ~(k - m < a)
      BY <1>4, <1>6, <3>2, <3>3 DEF OneLine
    <3>5. k = l /\ k > m
      BY <1>6, <3>1, <3>2, <3>4
    <3> QED
      BY <3>2, <3>3, <3>5
  <2> QED
    BY <2>1, <2>2
<1>8. \A k \in 1..m : Tells(s, k) => s[k].msg[2] < n
  BY <1>3, <1>6 DEF OrderOK
<1>9. \A i \in 1..Len(told) : told[i] < n
  BY <1>3 DEF OrderOK
<1>10. \A j \in 1..Len(r) : n < r[j] /\ r[j] <= top
  BY <1>1, <1>3 DEF OrderOK
<1>11. n <= top
  BY <1>3 DEF OrderOK
<1>12. \A i, j \in 1..Len(r) : i < j => r[i] < r[j]
  <2>1. \A i, j \in 1..Len(r) : i < j => i + 1 < j + 1
    BY <1>1
  <2>2. \A i \in 1..Len(r) : i + 1 \in 1..Len(q)
    BY <1>1
  <2> QED
    BY <1>1, <2>1, <2>2 DEF OrderOK
<1>13. OrderOK(told, t, r, top)
  <2>1. \A k, j \in 1..Len(t) : k < j /\ Tells(t, k) /\ Tells(t, j) => t[k].msg[2] < t[j].msg[2]
    <3> SUFFICES ASSUME NEW k \in 1..l, NEW j \in 1..l, k < j, Tells(t, k), Tells(t, j)
                 PROVE  t[k].msg[2] < t[j].msg[2]
      BY <1>6
    <3>1. k # l
      OBVIOUS
    <3>2. k \in 1..m /\ t[k] = s[k] /\ Tells(s, k)
      BY <1>7, <3>1
    <3>3. CASE j \in 1..m /\ t[j] = s[j] /\ Tells(s, j)
      BY <1>6, <3>2, <3>3 DEF OrderOK
    <3>4. CASE t[j].msg[2] = n
      BY <1>8, <3>2, <3>4
    <3> QED
      BY <1>7, <3>3, <3>4
  <2>2. \A i \in 1..Len(told), k \in 1..Len(t) : Tells(t, k) => told[i] < t[k].msg[2]
    <3> SUFFICES ASSUME NEW i \in 1..Len(told), NEW k \in 1..l, Tells(t, k) PROVE told[i] < t[k].msg[2]
      BY <1>6
    <3>1. CASE k \in 1..m /\ t[k] = s[k] /\ Tells(s, k)
      BY <1>6, <3>1 DEF OrderOK
    <3>2. CASE t[k].msg[2] = n
      BY <1>9, <3>2
    <3> QED
      BY <1>7, <3>1, <3>2
  <2>3. \A k \in 1..Len(t), j \in 1..Len(r) : Tells(t, k) => t[k].msg[2] < r[j]
    <3> SUFFICES ASSUME NEW k \in 1..l, NEW j \in 1..Len(r), Tells(t, k) PROVE t[k].msg[2] < r[j]
      BY <1>6
    <3>1. CASE k \in 1..m /\ t[k] = s[k] /\ Tells(s, k)
      <4>1. j + 1 \in 1..Len(q) /\ r[j] = q[j + 1]
        BY <1>1
      <4> QED
        BY <1>6, <3>1, <4>1 DEF OrderOK
    <3>2. CASE t[k].msg[2] = n
      BY <1>10, <3>2
    <3> QED
      BY <1>7, <3>1, <3>2
  <2>4. \A i \in 1..Len(told), j \in 1..Len(r) : told[i] < r[j]
    <3>1. \A j \in 1..Len(r) : j + 1 \in 1..Len(q) /\ r[j] = q[j + 1]
      BY <1>1
    <3> QED
      BY <3>1 DEF OrderOK
  <2>5. \A k \in 1..Len(t) : Tells(t, k) => t[k].msg[2] <= top
    <3> SUFFICES ASSUME NEW k \in 1..l, Tells(t, k) PROVE t[k].msg[2] <= top
      BY <1>6
    <3>1. CASE k \in 1..m /\ t[k] = s[k] /\ Tells(s, k)
      BY <1>6, <3>1 DEF OrderOK
    <3>2. CASE t[k].msg[2] = n
      BY <1>11, <3>2
    <3> QED
      BY <1>7, <3>1, <3>2
  <2>6. /\ \A i, j \in 1..Len(told) : i < j => told[i] < told[j]
        /\ \A i \in 1..Len(told) : told[i] <= top
    BY DEF OrderOK
  <2> QED
    BY <1>10, <1>12, <2>1, <2>2, <2>3, <2>4, <2>5, <2>6 DEF OrderOK
<1>14. <<"event", n>> \in lost2 \/ \E k \in 1..l : Tells(t, k) /\ t[k].no = no /\ t[k].msg[2] = n
  <2>1. Len(Event) = 3 /\ Event[3] = "close"
    BY DEF Event
  <2> SUFFICES ASSUME <<"event", n>> \notin cut
               PROVE  \E k \in 1..l : Tells(t, k) /\ t[k].no = no /\ t[k].msg[2] = n
    OBVIOUS
  <2>2. a = 3 /\ add[3] = ThePiece(no, <<"event", n>>, "close", Event)
    <3>1. Len(add) = Len(Event) /\ \A i \in 1..Len(Event) :
              add[i] = ThePiece(no, <<"event", n>>, Event[i], Event)
      BY DEF Adds
    <3>2. 3 \in 1..Len(Event)
      BY <2>1
    <3>3. add[3] = ThePiece(no, <<"event", n>>, Event[3], Event)
      BY <3>1, <3>2
    <3> QED
      BY <1>6, <2>1, <3>1, <3>3
  <2>3. add[3].msg = <<"event", n>> /\ add[3].part = "close" /\ add[3].no = no
    BY <2>2, PieceIs
  <2>4. m + 3 \in 1..l /\ t[m + 3] = add[3]
    <3>1. a = 3
      BY <2>2
    <3>2. 3 \in 1..a /\ m + 3 \in 1..l
      BY <1>6, <3>1
    <3>3. \A i \in 1..a : t[m + i] = add[i]
      BY <1>6
    <3> QED
      BY <3>2, <3>3
  <2>5. t[m + 3].msg[1] = "event" /\ t[m + 3].msg[2] = n
    BY <2>3, <2>4
  <2> QED
    BY <2>3, <2>4, <2>5 DEF Tells
<1>15. KeptOK(told, t, no, r, top, gone, lost2)
  <2> SUFFICES ASSUME NEW e \in 1..top PROVE Somewhere(e, told, t, no, r, gone, lost2)
    BY DEF KeptOK
  <2>1. Somewhere(e, told, s, no, q, gone, lost)
    BY DEF KeptOK
  <2>2. CASE \E k \in 1..Len(s) : Tells(s, k) /\ s[k].no = no /\ s[k].msg[2] = e
    <3>1. PICK k \in 1..m : Tells(s, k) /\ s[k].no = no /\ s[k].msg[2] = e
      BY <1>6, <2>2
    <3>2. k \in 1..l /\ t[k] = s[k]
      BY <1>6
    <3>3. Tells(t, k)
      BY <3>1, <3>2 DEF Tells
    <3> QED
      BY <1>6, <3>1, <3>2, <3>3 DEF Somewhere
  <2>3. CASE \E j \in 1..Len(q) : q[j] = e
    <3>1. PICK j \in 1..Len(q) : q[j] = e
      BY <2>3
    <3>2. CASE j = 1
      BY <1>3, <1>6, <1>14, <3>1, <3>2 DEF Somewhere
    <3>3. CASE j # 1
      BY <1>2, <3>1, <3>3 DEF Somewhere
    <3> QED
      BY <3>2, <3>3
  <2>4. CASE (\E i \in 1..Len(told) : told[i] = e) \/ e \in gone \/ <<"event", e>> \in lost
    BY <2>4 DEF Somewhere
  <2> QED
    BY <2>1, <2>2, <2>3, <2>4 DEF Somewhere
<1> QED
  BY <1>13, <1>15 DEF r

LEMMA PieceNumber ==
    ASSUME NEW p \in Piece
    PROVE  /\ p.msg \in Messages
           /\ p.msg[2] \in Nat
           /\ p.msg[1] = "event" => p.msg = <<"event", p.msg[2]>>
<1>1. PICK m \in Messages : m = p.msg
  BY DEF Piece
<1>2. m[2] \in Nat /\ (m[1] = "event" => m = <<"event", m[2]>>)
  BY DEF Messages
<1> QED
  BY <1>1, <1>2

\* An event is reported, and the queue takes it or is full.
LEMMA EventReported ==
    ASSUME NEW q \in Seq(Nat), NEW told \in Seq(Nat), NEW s \in Seq(Piece), NEW top \in Nat,
           NEW no, NEW gone, NEW lost,
           OrderOK(told, s, q, top), KeptOK(told, s, no, q, top, gone, lost)
    PROVE  /\ OrderOK(told, s, Append(q, top + 1), top + 1)
           /\ KeptOK(told, s, no, Append(q, top + 1), top + 1, gone, lost)
           /\ OrderOK(told, s, q, top + 1)
           /\ KeptOK(told, s, no, q, top + 1, gone \cup {top + 1}, lost)
<1>1. PICK n \in Nat : n = Len(q)
  OBVIOUS
<1>2. PICK r : r = Append(q, top + 1)
  OBVIOUS
<1>3. Len(r) = n + 1 /\ r[n + 1] = top + 1 /\ \A j \in 1..n : r[j] = q[j]
  BY <1>1, <1>2
<1>4. \A i \in 1..Len(told) : told[i] \in Nat
  OBVIOUS
<1>5. \A k \in 1..Len(s) : s[k].msg[2] \in Nat
  <2> SUFFICES ASSUME NEW k \in 1..Len(s) PROVE s[k].msg[2] \in Nat
    OBVIOUS
  <2>1. PICK p \in Piece : p = s[k]
    OBVIOUS
  <2>2. p.msg[2] \in Nat
    BY PieceNumber
  <2> QED
    BY <2>1, <2>2
<1>6. \A j \in 1..n : q[j] \in Nat
  BY <1>1
<1>7. \A x \in Nat : x <= top => x < top + 1 /\ x <= top + 1
  OBVIOUS
<1>8. /\ \A i \in 1..Len(told) : told[i] < top + 1 /\ told[i] <= top + 1
      /\ \A k \in 1..Len(s) : Tells(s, k) => s[k].msg[2] < top + 1 /\ s[k].msg[2] <= top + 1
      /\ \A j \in 1..n : q[j] < top + 1 /\ q[j] <= top + 1
  BY <1>1, <1>4, <1>5, <1>6, <1>7 DEF OrderOK
<1>9. OrderOK(told, s, q, top + 1)
  BY <1>1, <1>8 DEF OrderOK
<1>10. \A j \in 1..n + 1 : (j \in 1..n /\ r[j] = q[j]) \/ (j = n + 1 /\ r[j] = top + 1)
  <2>1. \A j \in 1..n + 1 : j \in 1..n \/ j = n + 1
    OBVIOUS
  <2> QED
    BY <1>3, <2>1
<1>11. OrderOK(told, s, r, top + 1)
  <2>1. \A i, j \in 1..n + 1 : i < j => r[i] < r[j]
    <3> SUFFICES ASSUME NEW i \in 1..n + 1, NEW j \in 1..n + 1, i < j PROVE r[i] < r[j]
      OBVIOUS
    <3>1. i \in 1..n /\ r[i] = q[i]
      <4>1. i # n + 1
        OBVIOUS
      <4> QED
        BY <1>10, <4>1
    <3>2. CASE j \in 1..n /\ r[j] = q[j]
      <4>1. q[i] < q[j]
        BY <1>1, <3>1, <3>2 DEF OrderOK
      <4> QED
        BY <3>1, <3>2, <4>1
    <3>3. CASE r[j] = top + 1
      <4>1. q[i] < top + 1
        BY <1>8, <3>1
      <4> QED
        BY <3>1, <3>3, <4>1
    <3> QED
      BY <1>10, <3>2, <3>3
  <2>2. \A i \in 1..Len(told), j \in 1..n + 1 : told[i] < r[j]
    BY <1>1, <1>8, <1>10 DEF OrderOK
  <2>3. \A k \in 1..Len(s), j \in 1..n + 1 : Tells(s, k) => s[k].msg[2] < r[j]
    BY <1>1, <1>8, <1>10 DEF OrderOK
  <2>4. \A j \in 1..n + 1 : r[j] <= top + 1
    <3>1. top + 1 <= top + 1
      OBVIOUS
    <3> QED
      BY <1>8, <1>10, <3>1
  <2>5. /\ \A i, j \in 1..Len(told) : i < j => told[i] < told[j]
        /\ \A k, l \in 1..Len(s) : k < l /\ Tells(s, k) /\ Tells(s, l) => s[k].msg[2] < s[l].msg[2]
    BY DEF OrderOK
  <2> QED
    BY <1>3, <1>8, <2>1, <2>2, <2>3, <2>4, <2>5 DEF OrderOK
<1>12. \A e \in 1..top + 1 : e \in 1..top \/ e = top + 1
  OBVIOUS
<1>13. KeptOK(told, s, no, q, top + 1, gone \cup {top + 1}, lost)
  BY <1>12 DEF KeptOK, Somewhere
<1>14. KeptOK(told, s, no, r, top + 1, gone, lost)
  <2> SUFFICES ASSUME NEW e \in 1..top + 1 PROVE Somewhere(e, told, s, no, r, gone, lost)
    BY DEF KeptOK
  <2>1. CASE e = top + 1
    <3>1. n + 1 \in 1..Len(r) /\ r[n + 1] = e
      BY <1>3, <2>1
    <3> QED
      BY <3>1 DEF Somewhere
  <2>2. CASE e \in 1..top
    <3>1. Somewhere(e, told, s, no, q, gone, lost)
      BY <2>2 DEF KeptOK
    <3>2. \A j \in 1..Len(q) : j \in 1..Len(r) /\ r[j] = q[j]
      BY <1>1, <1>3
    <3> QED
      BY <3>1, <3>2 DEF Somewhere
  <2> QED
    BY <1>12, <2>1, <2>2
<1> QED
  BY <1>2, <1>9, <1>11, <1>13, <1>14

\* Part of what was on its way is no more.
LEMMA RestInOrder ==
    ASSUME NEW s, NEW t, NEW k \in Nat, NEW n \in Nat, Len(t) = n, Len(s) = k + n,
           \A i \in 1..n : t[i] = s[k + i], NEW told, NEW q, NEW top, OrderOK(told, s, q, top)
    PROVE  OrderOK(told, t, q, top)
<1>1. \A i \in 1..Len(t) : k + i \in 1..Len(s) /\ t[i] = s[k + i] /\ (Tells(t, i) => Tells(s, k + i))
  BY DEF Tells
<1>2. \A i, j \in 1..Len(t) : i < j => k + i < k + j
  OBVIOUS
<1>3. \A i, j \in 1..Len(t) : i < j /\ Tells(t, i) /\ Tells(t, j) => t[i].msg[2] < t[j].msg[2]
  BY <1>1, <1>2 DEF OrderOK
<1>4. \A i \in 1..Len(told), j \in 1..Len(t) : Tells(t, j) => told[i] < t[j].msg[2]
  BY <1>1 DEF OrderOK
<1>5. \A i \in 1..Len(t), j \in 1..Len(q) : Tells(t, i) => t[i].msg[2] < q[j]
  BY <1>1 DEF OrderOK
<1>6. \A i \in 1..Len(t) : Tells(t, i) => t[i].msg[2] <= top
  BY <1>1 DEF OrderOK
<1> QED
  BY <1>3, <1>4, <1>5, <1>6 DEF OrderOK

\* Everything on its way is lost.
AllGone(told, s, no, q, top, gone, lost, lost2) ==
    /\ s \in Seq(Piece) /\ lost \subseteq lost2 /\ \A k \in 1..Len(s) : s[k].msg \in lost2
    /\ KeptOK(told, s, no, q, top, gone, lost)

LEMMA AllLost ==
    ASSUME NEW s, NEW lost, NEW lost2, NEW told, NEW t, NEW q, NEW top, NEW no, NEW no2, NEW gone,
           AllGone(told, s, no, q, top, gone, lost, lost2)
    PROVE  KeptOK(told, t, no2, q, top, gone, lost2)
<1> USE DEF AllGone
<1>1. ASSUME NEW k \in 1..Len(s), Tells(s, k) PROVE <<"event", s[k].msg[2]>> \in lost2
  <2>1. PICK p \in Piece : p = s[k]
    OBVIOUS
  <2>2. p.msg[1] = "event"
    BY <1>1, <2>1 DEF Tells
  <2>3. p.msg = <<"event", p.msg[2]>>
    BY <2>2, PieceNumber
  <2> QED
    BY <2>1, <2>3
<1> QED
  BY <1>1 DEF KeptOK, Somewhere

\* The end of a line is read, of an event or not.
Tellable(p, told, told2, lost) ==
    \/ told2 = told /\ (p.msg[1] # "event" \/ p.msg \in lost)
    \/ p.msg[1] = "event" /\ told2 = Append(told, p.msg[2])

EndRead(line, p, rest, no, s, told, told2, q, top, gone, lost, lost2) ==
    /\ line \in Seq(Piece) /\ p \in Piece /\ rest \in Seq(Piece) /\ s = Append(line, p) \o rest
    /\ Fresh(line, no) /\ p.part = "close" /\ p.no = no
    /\ told \in Seq(Nat) /\ lost \subseteq lost2 /\ Tellable(p, told, told2, lost2)
    /\ OrderOK(told, s, q, top) /\ KeptOK(told, s, no, q, top, gone, lost)

LEMMA EventHeard ==
    ASSUME NEW line \in Seq(Piece), NEW p \in Piece, NEW rest \in Seq(Piece), NEW no,
           NEW s, NEW told \in Seq(Nat), NEW told2, NEW q, NEW top, NEW gone, NEW lost, NEW lost2,
           EndRead(line, p, rest, no, s, told, told2, q, top, gone, lost, lost2)
    PROVE  OrderOK(told2, rest, q, top) /\ KeptOK(told2, rest, no, q, top, gone, lost2)
<1>a. /\ s = Append(line, p) \o rest /\ Fresh(line, no) /\ p.part = "close" /\ p.no = no
      /\ lost \subseteq lost2 /\ Tellable(p, told, told2, lost2)
      /\ OrderOK(told, s, q, top) /\ KeptOK(told, s, no, q, top, gone, lost)
  BY DEF EndRead
<1> USE <1>a
<1>0. PICK l : l = Append(line, p)
  OBVIOUS
<1>1. PICK k \in Nat \ {0} : Ahead(s, line, p, l, rest, k)
  BY <1>0, LineAhead
<1>2. PICK n \in Nat : n = Len(rest)
  OBVIOUS
<1>3. /\ Len(s) = k + n /\ k \in 1..Len(s) /\ s[k] = p
      /\ \A i \in 1..n : rest[i] = s[k + i] /\ k + i \in 1..Len(s)
      /\ \A i \in 1..k - 1 : i \in 1..Len(line) /\ line[i] = s[i]
  BY <1>1, <1>2 DEF Ahead
<1>4. OrderOK(told, rest, q, top)
  <2>1. Len(rest) = n /\ Len(s) = k + n /\ k \in Nat /\ \A i \in 1..n : rest[i] = s[k + i]
    BY <1>2, <1>3
  <2>2. OrderOK(told, s, q, top) /\ n \in Nat
    OBVIOUS
  <2> QED
    BY ONLY <2>1, <2>2, RestInOrder
<1>5. Tells(s, k) <=> p.msg[1] = "event"
  BY <1>3 DEF Tells
<1>6. p.msg[1] = "event" => p.msg = <<"event", p.msg[2]>> /\ p.msg[2] \in Nat
  BY PieceNumber
<1>7. CASE told2 = told /\ (p.msg[1] # "event" \/ p.msg \in lost2)
  <2> SUFFICES ASSUME NEW e \in 1..top PROVE Somewhere(e, told, rest, no, q, gone, lost2)
    BY <1>4, <1>7 DEF KeptOK
  <2>1. Somewhere(e, told, s, no, q, gone, lost)
    BY DEF KeptOK
  <2>2. CASE \E i \in 1..Len(s) : Tells(s, i) /\ s[i].no = no /\ s[i].msg[2] = e
    <3>1. PICK i \in 1..Len(s) : Tells(s, i) /\ s[i].no = no /\ s[i].msg[2] = e
      BY <2>2
    <3>2. CASE i < k
      <4>1. i \in 1..k - 1
        BY <3>2
      <4>2. i \in 1..Len(line) /\ line[i] = s[i]
        BY <1>3, <4>1
      <4>3. Ends(line, i, no)
        BY <3>1, <4>2 DEF Ends, Tells
      <4> QED
        BY <4>2, <4>3 DEF Fresh
    <3>3. CASE i = k
      <4>1. p.msg[1] = "event" /\ p.msg[2] = e
        BY <1>3, <1>5, <3>1, <3>3
      <4>2. p.msg = <<"event", e>>
        BY ONLY <1>6, <4>1
      <4> QED
        BY <1>7, <4>1, <4>2 DEF Somewhere
    <3>4. CASE i > k
      <4>1. i - k \in 1..n /\ k + (i - k) = i
        BY <1>3, <3>4
      <4>2. rest[i - k] = s[i]
        BY <1>3, <4>1
      <4>3. Tells(rest, i - k)
        BY <3>1, <4>2 DEF Tells
      <4> QED
        BY <1>2, <3>1, <4>1, <4>2, <4>3 DEF Somewhere
    <3> QED
      BY <3>2, <3>3, <3>4
  <2>3. CASE ~\E i \in 1..Len(s) : Tells(s, i) /\ s[i].no = no /\ s[i].msg[2] = e
    BY <2>1, <2>3 DEF Somewhere
  <2> QED
    BY <2>2, <2>3
<1>8. CASE p.msg[1] = "event" /\ told2 = Append(told, p.msg[2])
  <2>1. PICK h \in Nat, x \in Nat : h = Len(told) /\ x = p.msg[2]
    BY <1>6, <1>8
  <2>2. /\ Len(told2) = h + 1 /\ told2[h + 1] = x
        /\ \A i \in 1..h : told2[i] = told[i] /\ i \in 1..h + 1
        /\ \A i \in 1..h + 1 : i \in 1..h \/ i = h + 1
    BY <1>8, <2>1
  <2>3. \A i \in 1..h : told[i] < x
    BY <1>3, <1>5, <1>8, <2>1 DEF OrderOK
  <2>4. \A i \in 1..n : Tells(rest, i) => x < rest[i].msg[2]
    <3> SUFFICES ASSUME NEW i \in 1..n, Tells(rest, i) PROVE x < rest[i].msg[2]
      OBVIOUS
    <3>1. k + i \in 1..Len(s) /\ k < k + i /\ rest[i] = s[k + i]
      <4>1. k < k + i
        OBVIOUS
      <4> QED
        BY <1>3, <4>1
    <3>2. Tells(s, k + i)
      BY <3>1 DEF Tells
    <3>3. s[k].msg[2] < s[k + i].msg[2]
      BY <1>3, <1>5, <1>8, <3>1, <3>2 DEF OrderOK
    <3> QED
      BY <1>3, <2>1, <3>1, <3>3
  <2>5. \A j \in 1..Len(q) : x < q[j]
    BY <1>3, <1>5, <1>8, <2>1 DEF OrderOK
  <2>6. x <= top
    BY <1>3, <1>5, <1>8, <2>1 DEF OrderOK
  <2>7. OrderOK(told2, rest, q, top)
    <3>1. \A i, j \in 1..h + 1 : i < j => told2[i] < told2[j]
      <4> SUFFICES ASSUME NEW i \in 1..h + 1, NEW j \in 1..h + 1, i < j PROVE told2[i] < told2[j]
        OBVIOUS
      <4>1. i \in 1..h
        OBVIOUS
      <4>2. CASE j \in 1..h
        <5>1. told[i] < told[j]
          BY <1>4, <2>1, <4>1, <4>2 DEF OrderOK
        <5> QED
          BY <2>2, <4>1, <4>2, <5>1
      <4>3. CASE j = h + 1
        BY <2>2, <2>3, <4>1, <4>3
      <4> QED
        BY <2>2, <4>2, <4>3
    <3>2. \A i \in 1..h + 1, j \in 1..Len(rest) : Tells(rest, j) => told2[i] < rest[j].msg[2]
      <4> SUFFICES ASSUME NEW i \in 1..h + 1, NEW j \in 1..Len(rest), Tells(rest, j)
                   PROVE  told2[i] < rest[j].msg[2]
        OBVIOUS
      <4>1. CASE i \in 1..h
        <5>1. told[i] < rest[j].msg[2]
          BY <1>4, <2>1, <4>1 DEF OrderOK
        <5> QED
          BY <2>2, <4>1, <5>1
      <4>2. CASE i = h + 1
        BY <1>2, <2>2, <2>4, <4>2
      <4> QED
        BY <2>2, <4>1, <4>2
    <3>3. \A i \in 1..h + 1, j \in 1..Len(q) : told2[i] < q[j]
      BY <1>4, <2>1, <2>2, <2>5 DEF OrderOK
    <3>4. \A i \in 1..h + 1 : told2[i] <= top
      BY <1>4, <2>1, <2>2, <2>6 DEF OrderOK
    <3> QED
      BY <1>4, <2>2, <3>1, <3>2, <3>3, <3>4 DEF OrderOK
  <2>8. KeptOK(told2, rest, no, q, top, gone, lost2)
    <3> SUFFICES ASSUME NEW e \in 1..top PROVE Somewhere(e, told2, rest, no, q, gone, lost2)
      BY DEF KeptOK
    <3>1. Somewhere(e, told, s, no, q, gone, lost)
      BY DEF KeptOK
    <3>2. CASE \E i \in 1..Len(s) : Tells(s, i) /\ s[i].no = no /\ s[i].msg[2] = e
      <4>1. PICK i \in 1..Len(s) : Tells(s, i) /\ s[i].no = no /\ s[i].msg[2] = e
        BY <3>2
      <4>2. CASE i < k
        <5>1. i \in 1..k - 1
          BY <4>2
        <5>2. i \in 1..Len(line) /\ line[i] = s[i]
          BY <1>3, <5>1
        <5>3. Ends(line, i, no)
          BY <4>1, <5>2 DEF Ends, Tells
        <5> QED
          BY <5>2, <5>3 DEF Fresh
      <4>3. CASE i = k
        <5>1. x = e
          <6>1. s[i] = p
            BY <1>3, <4>3
          <6> QED
            BY <2>1, <4>1, <6>1
        <5>2. told2[h + 1] = x /\ h + 1 \in 1..Len(told2)
          BY <2>1, <2>2
        <5> QED
          BY <5>1, <5>2 DEF Somewhere
      <4>4. CASE i > k
        <5>1. i - k \in 1..n /\ k + (i - k) = i
          BY <1>3, <4>4
        <5>2. rest[i - k] = s[i]
          BY <1>3, <5>1
        <5>3. Tells(rest, i - k)
          BY <4>1, <5>2 DEF Tells
        <5> QED
          BY <1>2, <4>1, <5>1, <5>2, <5>3 DEF Somewhere
      <4> QED
        BY <4>2, <4>3, <4>4
    <3>3. CASE \E i \in 1..Len(told) : told[i] = e
      BY <2>1, <2>2, <3>3 DEF Somewhere
    <3>4. CASE (\E j \in 1..Len(q) : q[j] = e) \/ e \in gone \/ <<"event", e>> \in lost
      BY <3>4 DEF Somewhere
    <3> QED
      BY <3>1, <3>2, <3>3, <3>4 DEF Somewhere
  <2> QED
    BY <2>7, <2>8
<1> QED
  BY <1>7, <1>8 DEF Tellable

-----------------------------------------------------------------------------
(* The lines of a channel.                                                  *)

\* The server has read h, and rest is on its way; at is what the parser is answering.
HeardIs(c, h, rest, no, cut, at, q, top, gone) ==
    /\ h \in Hears /\ Fresh(h.line, no)
    /\ WayOK(h.line \o rest, no, cut, at)
    /\ \A b \in h.bad : b \cap cut # {}
    /\ c = "data" =>
        /\ OrderOK(h.events, h.line \o rest, q, top)
        /\ KeptOK(h.events, h.line \o rest, no, q, top, gone, cut \cup UNION h.bad)

HeardOK(c, h, rest) ==
    HeardIs(c, h, rest, link[c].no, hist.cut, parser[c].msg, queue, world.events, hist.gone)

LEMMA PieceJoined == \A a, b \in Seq(Piece), p \in Piece : a \o (<<p>> \o b) = Append(a, p) \o b
OBVIOUS

LEMMA HearKeeps ==
    ASSUME NEW c \in Channels, NEW h, NEW p \in Piece, NEW rest \in Seq(Piece),
           HeardOK(c, h, <<p>> \o rest)
    PROVE  HeardOK(c, Hear(c, h, p), rest) /\ h.bad \subseteq Hear(c, h, p).bad
<1>1. h \in Hears /\ Fresh(h.line, link[c].no)
  BY DEF HeardOK, HeardIs
<1>2. PICK line \in Seq(Piece) : line = h.line
  BY <1>1 DEF Hears
<1>3. PICK s : s = Append(line, p) \o rest
  OBVIOUS
<1>4. h.line \o (<<p>> \o rest) = s
  BY <1>2, <1>3, PieceJoined
<1>5. PICK no : no = link[c].no
  OBVIOUS
<1>6. PICK g : g = Hear(c, h, p)
  OBVIOUS
<1>7. PICK all : all = ToSet(Append(h.line, p))
  OBVIOUS
<1>8. /\ WayOK(s, no, hist.cut, parser[c].msg)
      /\ \A b \in h.bad : b \cap hist.cut # {}
      /\ c = "data" => /\ OrderOK(h.events, s, queue, world.events)
                       /\ KeptOK(h.events, s, no, queue, world.events, hist.gone,
                                 hist.cut \cup UNION h.bad)
  BY <1>4, <1>5 DEF HeardOK, HeardIs
<1>9. WayOK(Append(h.line, p) \o rest, no, hist.cut, parser[c].msg) /\ Fresh(h.line, no)
  BY <1>1, <1>2, <1>3, <1>5, <1>8
<1> DEFINE names == {q.msg : q \in all}
           goes == /\ ~(p.part = "close" /\ p.no = no)
                   /\ g = [h EXCEPT !.line = Append(h.line, p)]
           tells == g.bad = h.bad /\ p.msg[1] = "event" /\ g.events = Append(h.events, p.msg[2])
           other == g.bad = h.bad /\ p.msg[1] # "event" /\ g.events = h.events
           breaks == /\ g.bad = h.bad \cup {names} /\ g.events = h.events
                     /\ p.msg \in names /\ names \cap hist.cut # {}
<1>10. /\ g \in Hears /\ Fresh(g.line, no)
       /\ WayOK(g.line \o rest, no, hist.cut, parser[c].msg)
       /\ ReadsAs(h, p, g, no, hist.cut, names)
  <2>1. c \in Channels /\ p \in Piece /\ rest \in Seq(Piece)
    OBVIOUS
  <2>2. Hearable(c, h, p, rest, hist.cut, parser[c].msg, no, g, all)
    BY <1>1, <1>5, <1>6, <1>7, <1>9 DEF Hearable
  <2> QED
    BY <1>1, <2>1, <2>2, HearIs, Zenon
<1> HIDE DEF names
<1>a. goes \/ (p.part = "close" /\ p.no = no /\ g.line = <<>> /\ (tells \/ other \/ breaks))
  BY <1>10 DEF ReadsAs
<1>11. \A b \in g.bad : b \cap hist.cut # {}
  BY <1>1, <1>8, <1>a DEF Hears
<1>12. ASSUME c = "data"
       PROVE  /\ OrderOK(g.events, g.line \o rest, queue, world.events)
              /\ KeptOK(g.events, g.line \o rest, no, queue, world.events, hist.gone,
                        hist.cut \cup UNION g.bad)
  <2>1. /\ OrderOK(h.events, s, queue, world.events)
        /\ KeptOK(h.events, s, no, queue, world.events, hist.gone, hist.cut \cup UNION h.bad)
    BY <1>8, <1>12
  <2>2. CASE goes
    <3>1. g.line \o rest = s /\ g.events = h.events /\ g.bad = h.bad
      BY <1>1, <1>2, <1>3, <2>2 DEF Hears
    <3> QED
      BY <2>1, <3>1
  <2>3. CASE p.part = "close" /\ p.no = no /\ g.line = <<>> /\ (tells \/ other \/ breaks)
    <3>1. PICK told \in Seq(Nat) : told = h.events
      BY <1>1 DEF Hears
    <3>2. PICK lost : lost = hist.cut \cup UNION h.bad
      OBVIOUS
    <3>3. PICK lost2 : lost2 = hist.cut \cup UNION g.bad
      OBVIOUS
    <3>4. h.bad \subseteq g.bad
      BY <2>3
    <3>5. lost \subseteq lost2
      BY <3>2, <3>3, <3>4
    <3>6. PICK told2 : told2 = g.events
      OBVIOUS
    <3>7. Tellable(p, told, told2, lost2)
      <4>1. breaks => p.msg \in lost2
        BY <3>3
      <4> QED
        BY <2>3, <3>1, <3>6, <4>1 DEF Tellable
    <3>8. /\ Fresh(line, no) /\ p.part = "close" /\ p.no = no
          /\ OrderOK(told, s, queue, world.events)
          /\ KeptOK(told, s, no, queue, world.events, hist.gone, lost)
      BY <1>2, <1>9, <2>1, <2>3, <3>1, <3>2
    <3>9. /\ OrderOK(told2, rest, queue, world.events)
          /\ KeptOK(told2, rest, no, queue, world.events, hist.gone, lost2)
      <4>1. p \in Piece /\ rest \in Seq(Piece) /\ line \in Seq(Piece) /\ told \in Seq(Nat)
        OBVIOUS
      <4>2. EndRead(line, p, rest, no, s, told, told2, queue, world.events, hist.gone, lost, lost2)
        BY <1>3, <3>5, <3>7, <3>8, <4>1 DEF EndRead
      <4> QED
        BY <4>1, <4>2, EventHeard, Zenon
    <3>10. g.line \o rest = rest
      <4>1. \A a \in Seq(Piece) : <<>> \o a = a
        OBVIOUS
      <4> QED
        BY <2>3, <4>1
    <3> QED
      BY <3>3, <3>6, <3>9, <3>10
  <2> QED
    BY <1>a, <2>2, <2>3
<1>13. HeardOK(c, g, rest)
  BY <1>5, <1>10, <1>11, <1>12 DEF HeardOK, HeardIs
<1>14. h.bad \subseteq g.bad
  BY <1>1, <1>a DEF Hears
<1> QED
  BY <1>6, <1>13, <1>14

LEMMA PieceTaken ==
    ASSUME NEW all \in Seq(Piece), NEW k \in 1..Len(all)
    PROVE  /\ all[k] \in Piece /\ SubSeq(all, k + 1, Len(all)) \in Seq(Piece)
           /\ SubSeq(all, k, Len(all)) = <<all[k]>> \o SubSeq(all, k + 1, Len(all))
OBVIOUS

LEMMA ChunkFirst ==
    ASSUME NEW a \in Seq(Piece), NEW b \in Seq(Piece), NEW all, all = a \o b
    PROVE  /\ all \in Seq(Piece) /\ Len(all) = Len(a) + Len(b)
           /\ SubSeq(all, 1, Len(all)) = all
           /\ SubSeq(all, Len(a) + 1, Len(all)) = b
           /\ \A k \in 1..Len(a) : k \in 1..Len(all) /\ all[k] = a[k]
OBVIOUS

LEMMA ChunkHeard ==
    ASSUME NEW c \in Channels, NEW w, NEW chunk \in Seq(Piece), NEW rest \in Seq(Piece),
           HeardOK(c, w, chunk \o rest), NEW h, h = HearAll(c, w, chunk)
    PROVE  HeardOK(c, h, rest) /\ w.bad \subseteq h.bad
<1>1. PICK f : /\ f[0] = w
               /\ \A k \in 1..Len(chunk) : f[k] = Hear(c, f[k - 1], chunk[k])
               /\ h = f[Len(chunk)]
  BY ChunkMade
<1>2. PICK n \in Nat : n = Len(chunk)
  OBVIOUS
<1>3. PICK all : all = chunk \o rest
  OBVIOUS
<1>4. /\ all \in Seq(Piece)
      /\ SubSeq(all, 1, Len(all)) = all
      /\ SubSeq(all, n + 1, Len(all)) = rest
      /\ \A k \in 1..n : k \in 1..Len(all) /\ all[k] = chunk[k]
  BY <1>2, <1>3, ChunkFirst
<1> DEFINE After1(k) == SubSeq(all, k + 1, Len(all))
           Good(k) == HeardOK(c, f[k], After1(k)) /\ w.bad \subseteq f[k].bad
<1>5. Good(0)
  <2>1. After1(0) = all
    BY <1>4
  <2> QED
    BY <1>1, <1>3, <2>1
<1>6. ASSUME NEW k \in 1..n, Good(k - 1) PROVE Good(k)
  <2>1. k \in 1..Len(all) /\ all[k] = chunk[k]
    BY <1>4
  <2>2. PICK p \in Piece, r \in Seq(Piece) :
            p = all[k] /\ r = After1(k) /\ SubSeq(all, k, Len(all)) = <<p>> \o r
    BY <1>4, <2>1, PieceTaken
  <2>3. k - 1 + 1 = k
    OBVIOUS
  <2>4. HeardOK(c, f[k - 1], <<p>> \o r)
    BY <1>6, <2>2, <2>3
  <2>5. HeardOK(c, Hear(c, f[k - 1], p), r) /\ f[k - 1].bad \subseteq Hear(c, f[k - 1], p).bad
    BY <2>4, HearKeeps
  <2> QED
    BY <1>1, <1>2, <1>6, <2>1, <2>2, <2>5
<1> HIDE DEF Good, After1
<1>7. Good(n)
  <2> DEFINE Bad == {k \in 0..n : ~Good(k)}
  <2> SUFFICES ASSUME Bad # {} PROVE FALSE
    OBVIOUS
  <2>1. PICK k \in Bad : \A y \in Bad : k <= y
    <3>1. Bad \subseteq Nat
      OBVIOUS
    <3> HIDE DEF Bad
    <3> QED
      BY <3>1, LeastNumber
  <2>2. k \in 0..n /\ ~Good(k)
    OBVIOUS
  <2>3. k # 0
    BY <1>5, <2>2
  <2>4. k \in 1..n /\ k - 1 \in 0..n /\ ~(k <= k - 1)
    BY <2>2, <2>3
  <2>5. k - 1 \notin Bad
    <3> HIDE DEF Bad
    <3> QED
      BY <2>1, <2>4
  <2> QED
    BY <1>6, <2>2, <2>4, <2>5
<1> QED
  BY <1>1, <1>2, <1>4, <1>7 DEF Good, After1

-----------------------------------------------------------------------------
(* The invariant of the lines and its types.                                *)

Links == [status : {"alive", "hello", "down"}, up : BOOLEAN, no : Nat]

LineTypes ==
    /\ out \in [Channels -> Outs] /\ \A c \in Channels : OutOK(out[c])
    /\ link \in [Channels -> Links]
    /\ heard \in [Channels -> [line : Seq(Piece), replies : Seq(Messages), events : Seq(Nat)]]
    /\ queue \in Seq(Nat)
    /\ {"cut", "bad", "gone"} \subseteq DOMAIN hist
    /\ hist.bad \subseteq SUBSET Messages

\* The parser has begun an answer.
Answering == \A c \in Channels : parser[c].msg = NoMsg <=> parser[c].stage \in {"REQ_TYPE", "OTA"}

\* What the server has read, with what it found wrong on any channel.
Ear(c) == [line |-> heard[c].line, replies |-> heard[c].replies, events |-> heard[c].events, bad |-> hist.bad]

LineInv == LineTypes /\ Answering /\ \A c \in Channels : HeardOK(c, Ear(c), Sending(out[c]))

\* What the lines of a channel depend on but for its buffer and the server's reading.
Else(c) ==
    /\ link'[c].no = link[c].no /\ parser'[c].msg = parser[c].msg
    /\ queue' = queue /\ world'.events = world.events
    /\ hist'.cut = hist.cut /\ hist'.gone = hist.gone

LEMMA EarIs ==
    ASSUME LineTypes, NEW c \in Channels
    PROVE  /\ Ear(c) \in Hears /\ Ear(c).line = heard[c].line /\ Ear(c).events = heard[c].events
           /\ Ear(c).bad = hist.bad /\ Sending(out[c]) \in Seq(Piece)
           /\ out[c] \in Outs /\ link[c].no \in Nat
<1>1. PICK r \in [line : Seq(Piece), replies : Seq(Messages), events : Seq(Nat)] : r = heard[c]
  BY DEF LineTypes
<1>2. hist.bad \in SUBSET (SUBSET Messages)
  BY DEF LineTypes
<1>3. Ear(c) \in Hears
  BY <1>1, <1>2 DEF Ear, Hears
<1>4. out[c] \in Outs /\ link[c].no \in Nat
  BY DEF LineTypes, Links
<1>5. Sending(out[c]) \in Seq(Piece)
  <2>1. out[c].flight \in Seq(Piece) /\ out[c].tx \in Seq(Piece)
    BY <1>4 DEF Outs
  <2> QED
    BY <2>1 DEF Sending
<1> QED
  BY <1>3, <1>4, <1>5 DEF Ear

LEMMA LinesExplained == LineInv => BrokenLinesExplained
<1> SUFFICES ASSUME LineInv PROVE \A b \in hist.bad : b \cap hist.cut # {}
  BY DEF BrokenLinesExplained
<1>1. "cmd" \in Channels
  BY DEF Channels
<1>2. HeardOK("cmd", Ear("cmd"), Sending(out["cmd"])) /\ Ear("cmd").bad = hist.bad
  BY <1>1, EarIs DEF LineInv
<1> QED
  BY <1>2 DEF HeardOK, HeardIs

\* What is found wrong on another channel is more to blame.
LEMMA HeardMore ==
    ASSUME NEW c, NEW h, NEW rest, NEW no, NEW cut, NEW at, NEW q, NEW top, NEW gone,
           HeardIs(c, h, rest, no, cut, at, q, top, gone),
           NEW g, g \in Hears, g.line = h.line, g.events = h.events, h.bad \subseteq g.bad,
           \A b \in g.bad : b \cap cut # {}
    PROVE  HeardIs(c, g, rest, no, cut, at, q, top, gone)
<1>1. UNION h.bad \subseteq UNION g.bad
  OBVIOUS
<1>2. c = "data" => KeptOK(g.events, g.line \o rest, no, q, top, gone, cut \cup UNION g.bad)
  BY <1>1 DEF HeardIs, KeptOK, Somewhere
<1> QED
  BY <1>2 DEF HeardIs

LEMMA FinishSends ==
    ASSUME NEW o \in Outs
    PROVE  OutOK(TxWriteFinish(o)) /\ TxWriteFinish(o) \in Outs /\ Sending(TxWriteFinish(o)) = o.tx
<1>1. o.tx \in Seq(Piece) /\ o.flight \in Seq(Piece)
  BY DEF Outs
<1>2. PICK t \in Seq(Piece) : t = o.tx
  BY <1>1
<1>3. <<>> \in Seq(Piece) /\ t \o <<>> = t /\ (t = <<>> => <<>> \o t = t)
  BY EmptySeq
<1>4. CASE o.tx # <<>>
  <2>1. TxWriteFinish(o) = [o EXCEPT !.tx = <<>>, !.txing = TRUE, !.flight = o.tx]
    BY <1>4 DEF TxWriteFinish
  <2> QED
    BY <1>2, <1>3, <1>4, <2>1 DEF Outs, OutOK, Sending
<1>5. CASE o.tx = <<>>
  <2>1. TxWriteFinish(o) = [o EXCEPT !.flight = <<>>, !.txing = FALSE]
    BY <1>5 DEF TxWriteFinish
  <2> QED
    BY <1>2, <1>3, <1>5, <2>1 DEF Outs, OutOK, Sending
<1> QED
  BY <1>4, <1>5

LEMMA SentLines == \A c \in Channels : LineInv /\ Sent(c) => LineInv'
<1> SUFFICES ASSUME NEW c \in Channels, LineInv, Sent(c) PROVE LineInv'
  OBVIOUS
<1>1. PICK h : h = HearAll(c, Ear(c), out[c].flight)
  OBVIOUS
<1>2. /\ heard' = [heard EXCEPT ![c] = [line |-> h.line, replies |-> h.replies, events |-> h.events]]
      /\ hist' = [hist EXCEPT !.bad = h.bad]
      /\ out' = [out EXCEPT ![c] = TxWriteFinish(@)]
      /\ UNCHANGED <<parser, queue, link, world>>
  BY <1>1 DEF Sent, Ear
<1>3. LineTypes /\ Answering /\ \A d \in Channels : HeardOK(d, Ear(d), Sending(out[d]))
  BY DEF LineInv
<1>4. out[c] \in Outs /\ out[c].flight \in Seq(Piece) /\ out[c].tx \in Seq(Piece)
  BY <1>3, EarIs DEF Outs
<1>5. HeardOK(c, h, out[c].tx) /\ hist.bad \subseteq h.bad
  <2>1. HeardOK(c, Ear(c), out[c].flight \o out[c].tx)
    BY <1>3 DEF Sending
  <2>2. Ear(c).bad = hist.bad
    BY <1>3, EarIs
  <2> QED
    BY <1>1, <1>4, <2>1, <2>2, ChunkHeard
<1>6. h \in Hears /\ (\A b \in h.bad : b \cap hist.cut # {})
  BY <1>5 DEF HeardOK, HeardIs
<1>7. /\ hist'.bad = h.bad /\ hist'.cut = hist.cut /\ hist'.gone = hist.gone
      /\ {"cut", "bad", "gone"} \subseteq DOMAIN hist'
  BY <1>2, <1>3 DEF LineTypes
<1>8. OutOK(TxWriteFinish(out[c])) /\ TxWriteFinish(out[c]) \in Outs /\ Sending(TxWriteFinish(out[c])) = out[c].tx
  BY <1>4, FinishSends
<1>9. /\ out'[c] = TxWriteFinish(out[c])
      /\ \A d \in Channels : d # c => out'[d] = out[d]
      /\ out' \in [Channels -> Outs]
  BY <1>2, <1>3, <1>8 DEF LineTypes
<1>10. PICK ear \in [line : Seq(Piece), replies : Seq(Messages), events : Seq(Nat)] :
            ear = [line |-> h.line, replies |-> h.replies, events |-> h.events]
  BY <1>6 DEF Hears
<1>11. /\ heard' \in [Channels -> [line : Seq(Piece), replies : Seq(Messages), events : Seq(Nat)]]
       /\ heard'[c] = ear /\ \A d \in Channels : d # c => heard'[d] = heard[d]
  BY <1>2, <1>3, <1>10 DEF LineTypes
<1>12. LineTypes'
  <2>1. \A d \in Channels : OutOK(out'[d])
    BY <1>3, <1>8, <1>9 DEF LineTypes
  <2>2. OutOK(out[c])' = OutOK(out'[c]) /\ hist'.bad \subseteq SUBSET Messages
    BY <1>6, <1>7 DEF OutOK, Hears
  <2>3. (\A d \in Channels : OutOK(out[d]))'
    BY <2>1 DEF OutOK
  <2> QED
    BY <1>2, <1>3, <1>7, <1>9, <1>11, <2>2, <2>3 DEF LineTypes
<1>13. \A d \in Channels : Else(d)
  BY <1>2, <1>7 DEF Else
<1>14. ASSUME NEW d \in Channels PROVE HeardOK(d, Ear(d), Sending(out[d]))'
  <2>1. PICK g : g = Ear(d)'
    OBVIOUS
  <2>2. g = [line |-> heard'[d].line, replies |-> heard'[d].replies, events |-> heard'[d].events, bad |-> h.bad]
    BY <1>7, <2>1 DEF Ear
  <2>3. g \in Hears
    <3>1. PICK r \in [line : Seq(Piece), replies : Seq(Messages), events : Seq(Nat)] : r = heard'[d]
      BY <1>11
    <3>2. h.bad \in SUBSET (SUBSET Messages)
      BY <1>6 DEF Hears
    <3> QED
      BY <2>2, <3>1, <3>2 DEF Hears
  <2>4. ASSUME NEW rest, HeardOK(d, g, rest), rest = Sending(out'[d]) PROVE HeardOK(d, Ear(d), Sending(out[d]))'
    <3>1. Else(d) /\ Sending(out[d])' = rest
      BY <1>13, <2>4 DEF Sending
    <3> QED
      BY <2>1, <2>4, <3>1 DEF HeardOK, Else
  <2>5. CASE d = c
    <3>1. g.line = h.line /\ g.events = h.events /\ g.bad = h.bad
      BY <1>10, <1>11, <2>2, <2>5
    <3>2. HeardOK(c, g, out[c].tx)
      BY <1>5, <1>6, <2>3, <3>1 DEF HeardOK, HeardIs
    <3> QED
      BY <1>8, <1>9, <2>4, <2>5, <3>2
  <2>6. CASE d # c
    <3>1. HeardOK(d, Ear(d), Sending(out[d]))
      BY <1>3
    <3>2. g.line = Ear(d).line /\ g.events = Ear(d).events /\ Ear(d).bad \subseteq g.bad
      BY <1>5, <1>11, <2>2, <2>6 DEF Ear
    <3>3. HeardOK(d, g, Sending(out[d]))
      BY <1>6, <2>2, <2>3, <3>1, <3>2, HeardMore DEF HeardOK
    <3> QED
      BY <1>9, <2>4, <2>6, <3>3
  <2> QED
    BY <2>5, <2>6
<1> QED
  BY <1>2, <1>3, <1>12, <1>14 DEF LineInv, Answering

-----------------------------------------------------------------------------
(* Steps that leave the lines alone.                                        *)

LEMMA LinesNext ==
    ASSUME LineTypes', Answering',
           \A d \in Channels : HeardIs(d, Ear(d)', Sending(out'[d]), link'[d].no, hist'.cut,
                                       parser'[d].msg, queue', world'.events, hist'.gone)
    PROVE  LineInv'
<1>1. ASSUME NEW d \in Channels PROVE HeardOK(d, Ear(d), Sending(out[d]))'
  <2>1. Sending(out[d])' = Sending(out'[d])
    BY DEF Sending
  <2> QED
    BY <2>1 DEF HeardOK
<1> QED
  BY <1>1 DEF LineInv

HistSame ==
    /\ {"cut", "bad", "gone"} \subseteq DOMAIN hist'
    /\ hist'.cut = hist.cut /\ hist'.bad = hist.bad /\ hist'.gone = hist.gone

NosSame == link' \in [Channels -> Links] /\ \A c \in Channels : link'[c].no = link[c].no

MsgsSame == Answering' /\ \A c \in Channels : parser'[c].msg = parser[c].msg

LEMMA QuietLines ==
    ASSUME LineInv, out' = out, heard' = heard, queue' = queue, world'.events = world.events,
           HistSame, NosSame, MsgsSame
    PROVE  LineInv'
<1>1. LineTypes'
  <2>1. (\A c \in Channels : OutOK(out[c]))'
    BY DEF LineInv, LineTypes, OutOK
  <2> QED
    BY <2>1 DEF LineInv, LineTypes, HistSame, NosSame
<1>2. ASSUME NEW d \in Channels
      PROVE  HeardIs(d, Ear(d)', Sending(out'[d]), link'[d].no, hist'.cut,
                     parser'[d].msg, queue', world'.events, hist'.gone)
  <2>1. Ear(d)' = Ear(d)
    BY DEF Ear, HistSame
  <2>2. HeardOK(d, Ear(d), Sending(out[d]))
    BY DEF LineInv
  <2> QED
    BY <2>1, <2>2 DEF HeardOK, HistSame, NosSame, MsgsSame
<1> QED
  BY <1>1, <1>2, LinesNext DEF MsgsSame

LEMMA AllSame ==
    ASSUME LineInv
    PROVE  /\ hist' = hist => HistSame
           /\ \A f \in {"split", "hurt", "updates"} : \A v : hist' = [hist EXCEPT ![f] = v] => HistSame
           /\ link' = link => NosSame
           /\ parser' = parser => MsgsSame
<1>1. {"cut", "bad", "gone"} \subseteq DOMAIN hist /\ link \in [Channels -> Links] /\ Answering
  BY DEF LineInv, LineTypes
<1>2. ASSUME NEW f \in {"split", "hurt", "updates"}, NEW v, hist' = [hist EXCEPT ![f] = v] PROVE HistSame
  BY <1>1, <1>2 DEF HistSame
<1> QED
  BY <1>1, <1>2 DEF HistSame, NosSame, MsgsSame, Answering

LEMMA EventsSame ==
    ASSUME TypeInv
    PROVE  /\ world' = world => world'.events = world.events
           /\ \A f \in {"sent", "pings", "parts", "losses"} : \A v :
                 world' = [world EXCEPT ![f] = v] => world'.events = world.events
BY DEF TypeInv

LEMMA WioLoopLines == LineInv /\ WioLoop => LineInv'
<1> SUFFICES ASSUME LineInv, WioLoop PROVE LineInv'
  OBVIOUS
<1> QED
  BY AllSame, QuietLines DEF WioLoop

LEMMA OtaResponseLines == LineInv /\ OtaResponse => LineInv'
<1> SUFFICES ASSUME LineInv, OtaResponse PROVE LineInv'
  OBVIOUS
<1> QED
  BY AllSame, QuietLines DEF OtaResponse

LEMMA RebootLines == LineInv /\ RebootFires => LineInv'
<1> SUFFICES ASSUME LineInv, RebootFires PROVE LineInv'
  OBVIOUS
<1> QED
  BY AllSame, QuietLines DEF RebootFires

LEMMA StutterLines == LineInv /\ UNCHANGED vars => LineInv'
<1> SUFFICES ASSUME LineInv, UNCHANGED vars PROVE LineInv'
  OBVIOUS
<1> QED
  BY AllSame, QuietLines DEF vars, node

LEMMA StatusIs == LineInv => \A c \in Channels : link[c].status \in {"alive", "hello", "down"} /\ link[c].up \in BOOLEAN
BY DEF LineInv, LineTypes, Links

LEMMA OtaDisconnectsLines == LineInv /\ OtaDisconnects => LineInv'
<1> SUFFICES ASSUME LineInv, OtaDisconnects PROVE LineInv'
  OBVIOUS
<1>1. NosSame
  <2>1. link \in [Channels -> Links]
    BY DEF LineInv, LineTypes
  <2> QED
    BY <2>1 DEF NosSame, Links, OtaDisconnects
<1>2. HistSame
  BY AllSame DEF OtaDisconnects
<1> QED
  BY <1>1, <1>2, AllSame, QuietLines DEF OtaDisconnects

LEMMA KeepaliveLines == \A c \in Channels : LineInv /\ KeepaliveCheck(c) => LineInv'
<1> SUFFICES ASSUME NEW c \in Channels, LineInv, KeepaliveCheck(c) PROVE LineInv'
  OBVIOUS
<1>1. NosSame
  <2>1. link' = [link EXCEPT ![c].status = "down"]
    BY DEF KeepaliveCheck
  <2>2. link \in [Channels -> Links]
    BY DEF LineInv, LineTypes
  <2>3. "down" \in {"alive", "hello", "down"}
    OBVIOUS
  <2> QED
    BY <2>1, <2>2, <2>3 DEF NosSame, Links
<1> QED
  BY <1>1, AllSame, QuietLines DEF KeepaliveCheck, node

LEMMA ConfirmLines == \A c \in Channels : LineInv /\ ConfirmHello(c) => LineInv'
<1> SUFFICES ASSUME NEW c \in Channels, LineInv, ConfirmHello(c) PROVE LineInv'
  OBVIOUS
<1>1. NosSame
  <2>1. link' = [link EXCEPT ![c].status = "alive"]
    BY DEF ConfirmHello
  <2>2. link \in [Channels -> Links]
    BY DEF LineInv, LineTypes
  <2>3. "alive" \in {"alive", "hello", "down"}
    OBVIOUS
  <2> QED
    BY <2>1, <2>2, <2>3 DEF NosSame, Links
<1> QED
  BY <1>1, AllSame, QuietLines DEF ConfirmHello, node

LEMMA ConnectionLostLines == \A c \in Channels : TypeInv /\ LineInv /\ ConnectionLost(c) => LineInv'
<1> SUFFICES ASSUME NEW c \in Channels, TypeInv, LineInv, ConnectionLost(c) PROVE LineInv'
  OBVIOUS
<1>1. NosSame
  <2>1. PICK s \in {"down", link[c].status} : link' = [link EXCEPT ![c].up = FALSE, ![c].status = s]
    BY DEF ConnectionLost
  <2>2. s \in {"alive", "hello", "down"}
    <3>1. link[c].status \in {"alive", "hello", "down"}
      BY StatusIs
    <3>2. "down" \in {"alive", "hello", "down"}
      OBVIOUS
    <3> QED
      BY <3>1, <3>2
  <2>3. link \in [Channels -> Links]
    BY DEF LineInv, LineTypes
  <2> QED
    BY <2>1, <2>2, <2>3 DEF NosSame, Links
<1>2. HistSame
  BY AllSame DEF ConnectionLost
<1>3. world'.events = world.events
  BY EventsSame DEF ConnectionLost
<1> QED
  BY <1>1, <1>2, <1>3, AllSame, QuietLines DEF ConnectionLost, node

LEMMA SendRequestLines == \A c \in Channels : TypeInv /\ LineInv /\ SendRequest(c) => LineInv'
<1> SUFFICES ASSUME NEW c \in Channels, TypeInv, LineInv, SendRequest(c) PROVE LineInv'
  OBVIOUS
<1>1. world'.events = world.events
  BY DEF SendRequest, TypeInv
<1> QED
  BY <1>1, AllSame, QuietLines DEF SendRequest, node

LEMMA SendPingLines == \A c \in Channels : TypeInv /\ LineInv /\ SendPing(c) => LineInv'
<1> SUFFICES ASSUME NEW c \in Channels, TypeInv, LineInv, SendPing(c) PROVE LineInv'
  OBVIOUS
<1>1. world'.events = world.events
  BY EventsSame DEF SendPing
<1> QED
  BY <1>1, AllSame, QuietLines DEF SendPing, node

LEMMA DeliverPartLines == \A c \in Channels : TypeInv /\ LineInv /\ DeliverPart(c) => LineInv'
<1> SUFFICES ASSUME NEW c \in Channels, TypeInv, LineInv, DeliverPart(c) PROVE LineInv'
  OBVIOUS
<1>1. world'.events = world.events
  BY EventsSame DEF DeliverPart
<1>2. HistSame
  BY AllSame DEF DeliverPart
<1> QED
  BY <1>1, <1>2, AllSame, QuietLines DEF DeliverPart

LEMMA Joins == \A a, b \in Seq(Piece) : a \o b \in Seq(Piece)
OBVIOUS

LEMMA JoinsGroup == \A a, b, d \in Seq(Piece) : a \o (b \o d) = (a \o b) \o d
OBVIOUS

\* Three sequences joined, and their lengths.
Triple(s, a, b, d, i, j, l) ==
    /\ i = Len(a) /\ j = Len(b) /\ l = Len(d) /\ Len(s) = i + j + l
    /\ \A k \in 1..i : s[k] = a[k] /\ k \in 1..i + j + l
    /\ \A k \in 1..j : s[i + k] = b[k] /\ i + k \in 1..i + j + l
    /\ \A k \in 1..l : s[i + j + k] = d[k] /\ i + j + k \in 1..i + j + l

LEMMA TripleIs ==
    ASSUME NEW a \in Seq(Piece), NEW b \in Seq(Piece), NEW d \in Seq(Piece), NEW s, s = a \o (b \o d)
    PROVE  s \in Seq(Piece) /\ \E i, j, l \in Nat : Triple(s, a, b, d, i, j, l)
<1>1. PICK i \in Nat, j \in Nat, l \in Nat : i = Len(a) /\ j = Len(b) /\ l = Len(d)
  OBVIOUS
<1>2. PICK r \in Seq(Piece) : r = b \o d
  BY Joins
<1>3. /\ Len(r) = j + l /\ \A k \in 1..j : r[k] = b[k]
      /\ \A k \in 1..l : r[j + k] = d[k]
  BY <1>1, <1>2
<1>4. s \in Seq(Piece) /\ s = a \o r
  BY <1>2, Joins
<1>5. /\ Len(s) = i + (j + l) /\ \A k \in 1..i : s[k] = a[k]
      /\ \A k \in 1..j + l : s[i + k] = r[k]
  <2>1. PICK x, y, z \in Nat : Extends(s, a, r, x, y, z)
    BY <1>2, <1>4, Behind
  <2> QED
    BY <1>1, <1>3, <2>1 DEF Extends
<1>6. \A k \in 1..j : s[i + k] = b[k] /\ i + k \in 1..i + j + l
  <2>1. \A k \in 1..j : k \in 1..j + l /\ i + k \in 1..i + j + l
    OBVIOUS
  <2> QED
    BY <1>3, <1>5, <2>1
<1>7. \A k \in 1..l : s[i + j + k] = d[k] /\ i + j + k \in 1..i + j + l
  <2>1. \A k \in 1..l : j + k \in 1..j + l /\ i + j + k \in 1..i + j + l /\ i + (j + k) = i + j + k
    OBVIOUS
  <2> QED
    BY <1>3, <1>5, <2>1
<1>8. \A k \in 1..i : s[k] = a[k] /\ k \in 1..i + j + l
  <2>1. \A k \in 1..i : k \in 1..i + j + l
    OBVIOUS
  <2> QED
    BY <1>5, <2>1
<1>9. Len(s) = i + j + l
  BY <1>5
<1> QED
  BY <1>1, <1>4, <1>6, <1>7, <1>8, <1>9 DEF Triple

\* Only messages that were cut.
LEMMA AllCut ==
    ASSUME NEW s \in Seq(Piece), NEW cut, NEW no, NEW msg, msg \in cut \cup {NoMsg},
           \A k \in 1..Len(s) : s[k].msg \in cut
    PROVE  WayOK(s, no, cut, msg)
<1>1. PICK n \in Nat : n = Len(s)
  OBVIOUS
<1>2. \A k, j \in 1..n : j <= k => Hit(s, j, k, cut)
  BY <1>1 DEF Hit
<1>3. \A j \in 1..n + 1 : (j \in 1..n /\ n \in 1..n /\ j <= n) \/ j = n + 1
  OBVIOUS
<1>4. LinesOK(s, no, cut)
  BY <1>1, <1>2 DEF LinesOK
<1>5. RestOK(s, no, cut, msg)
  BY <1>1, <1>2, <1>3 DEF RestOK, Unfinished
<1>6. OldCut(s, no, cut)
  BY DEF OldCut
<1> QED
  BY <1>4, <1>5, <1>6 DEF WayOK

\* More messages are cut.
LEMMA HeardCutMore ==
    ASSUME NEW c, NEW h, NEW rest, NEW no, NEW cut, NEW at, NEW q, NEW top, NEW gone,
           HeardIs(c, h, rest, no, cut, at, q, top, gone), NEW cut2, cut \subseteq cut2
    PROVE  HeardIs(c, h, rest, no, cut2, at, q, top, gone)
<1>1. WayOK(h.line \o rest, no, cut2, at)
  <2>1. WayOK(h.line \o rest, no, cut, at)
    BY DEF HeardIs
  <2> QED
    BY <2>1, CutMore
<1>2. \A b \in h.bad : b \cap cut2 # {}
  BY DEF HeardIs
<1>3. c = "data" => KeptOK(h.events, h.line \o rest, no, q, top, gone, cut2 \cup UNION h.bad)
  BY DEF HeardIs, KeptOK, Somewhere
<1> QED
  BY <1>1, <1>2, <1>3 DEF HeardIs

-----------------------------------------------------------------------------
(* Steps of the queue, and a new connection.                                *)

\* Events stay where they can be heard in order.
KeptBy(q, top, gone, q2, top2, gone2) ==
    \A no, lost : \A told \in Seq(Nat), s \in Seq(Piece) :
        OrderOK(told, s, q, top) /\ KeptOK(told, s, no, q, top, gone, lost)
        => OrderOK(told, s, q2, top2) /\ KeptOK(told, s, no, q2, top2, gone2, lost)

EventsKept == KeptBy(queue, world.events, hist.gone, queue', world'.events, hist'.gone)

LEMMA QueueLines ==
    ASSUME LineInv, out' = out, heard' = heard, parser' = parser, link' = link, queue' \in Seq(Nat),
           {"cut", "bad", "gone"} \subseteq DOMAIN hist', hist'.cut = hist.cut, hist'.bad = hist.bad,
           EventsKept
    PROVE  LineInv'
<1>0. LineTypes /\ Answering /\ \A d \in Channels : HeardOK(d, Ear(d), Sending(out[d]))
  BY DEF LineInv
<1>1. LineTypes' /\ Answering'
  <2>1. (\A c \in Channels : OutOK(out[c]))'
    BY <1>0 DEF LineTypes, OutOK
  <2> QED
    BY <1>0, <2>1 DEF LineTypes, Answering
<1>2. ASSUME NEW d \in Channels
      PROVE  HeardIs(d, Ear(d)', Sending(out'[d]), link'[d].no, hist'.cut,
                     parser'[d].msg, queue', world'.events, hist'.gone)
  <2>1. PICK h : h = Ear(d)
    OBVIOUS
  <2>2. Ear(d)' = h
    BY <2>1 DEF Ear
  <2>3. HeardOK(d, h, Sending(out[d]))
    BY <1>0, <2>1
  <2>4. PICK way \in Seq(Piece), told \in Seq(Nat) : way = h.line \o Sending(out[d]) /\ told = h.events
    <3>1. h \in Hears /\ Sending(out[d]) \in Seq(Piece)
      BY <1>0, <2>1, EarIs
    <3>2. h.line \in Seq(Piece) /\ h.events \in Seq(Nat)
      BY <3>1 DEF Hears
    <3>3. h.line \o Sending(out[d]) \in Seq(Piece)
      BY <3>1, <3>2, Joins
    <3> QED
      BY <3>2, <3>3
  <2>5. PICK lost : lost = hist.cut \cup UNION h.bad
    OBVIOUS
  <2>6. d = "data" => /\ OrderOK(told, way, queue, world.events)
                      /\ KeptOK(told, way, link[d].no, queue, world.events, hist.gone, lost)
    BY <2>3, <2>4, <2>5 DEF HeardOK, HeardIs
  <2>7. d = "data" => /\ OrderOK(told, way, queue', world'.events)
                      /\ KeptOK(told, way, link[d].no, queue', world'.events, hist'.gone, lost)
    BY <2>6 DEF EventsKept, KeptBy
  <2> QED
    BY <2>2, <2>3, <2>4, <2>5, <2>7 DEF HeardOK, HeardIs
<1> QED
  BY <1>1, <1>2, LinesNext

LEMMA ReportLines == TypeInv /\ LineInv /\ ReportEvent => LineInv'
<1> SUFFICES ASSUME TypeInv, LineInv, ReportEvent PROVE LineInv'
  OBVIOUS
<1>1. PICK n \in Nat : n = world.events
  BY DEF TypeInv
<1>2. world'.events = n + 1
  BY <1>1 DEF ReportEvent, TypeInv
<1>3. PICK q \in Seq(Nat) : q = queue
  BY DEF LineInv, LineTypes
<1>4. {"cut", "bad", "gone"} \subseteq DOMAIN hist
  BY DEF LineInv, LineTypes
<1>5. ASSUME NEW told \in Seq(Nat), NEW s \in Seq(Piece), NEW no, NEW lost,
             OrderOK(told, s, q, n), KeptOK(told, s, no, q, n, hist.gone, lost)
      PROVE  /\ OrderOK(told, s, Append(q, n + 1), n + 1)
             /\ KeptOK(told, s, no, Append(q, n + 1), n + 1, hist.gone, lost)
             /\ OrderOK(told, s, q, n + 1)
             /\ KeptOK(told, s, no, q, n + 1, hist.gone \cup {n + 1}, lost)
  BY <1>5, EventReported, Zenon
<1>6. CASE hist' = [hist EXCEPT !.gone = @ \cup {n + 1}] /\ queue' = queue
  <2>1. /\ hist'.cut = hist.cut /\ hist'.bad = hist.bad /\ hist'.gone = hist.gone \cup {n + 1}
        /\ {"cut", "bad", "gone"} \subseteq DOMAIN hist'
    BY <1>4, <1>6
  <2>2. EventsKept
    <3>1. queue = q /\ queue' = q /\ world.events = n /\ hist'.gone = hist.gone \cup {n + 1}
      BY <1>1, <1>3, <1>6, <2>1
    <3>2. PICK gone : gone = hist.gone
      OBVIOUS
    <3>3. hist'.gone = gone \cup {n + 1}
      BY <3>1, <3>2
    <3>4. ASSUME NEW told \in Seq(Nat), NEW s \in Seq(Piece), NEW no, NEW lost,
                 OrderOK(told, s, q, n), KeptOK(told, s, no, q, n, gone, lost)
          PROVE  /\ OrderOK(told, s, q, n + 1)
                 /\ KeptOK(told, s, no, q, n + 1, gone \cup {n + 1}, lost)
      BY <1>5, <3>2, <3>4
    <3>5. KeptBy(q, n, gone, q, n + 1, gone \cup {n + 1})
      BY <3>4 DEF KeptBy
    <3> QED
      BY <1>2, <3>1, <3>2, <3>3, <3>5 DEF EventsKept
  <2> QED
    BY <1>3, <1>6, <2>1, <2>2, QueueLines DEF ReportEvent
<1>7. CASE hist' = hist /\ queue' = Append(queue, n + 1)
  <2>1. Append(q, n + 1) \in Seq(Nat) /\ queue' = Append(q, n + 1)
    BY <1>3, <1>7
  <2>2. EventsKept
    <3>1. PICK gone : gone = hist.gone
      OBVIOUS
    <3>2. KeptBy(q, n, gone, Append(q, n + 1), n + 1, gone)
      BY <1>5, <3>1 DEF KeptBy
    <3> QED
      BY <1>1, <1>2, <1>3, <1>7, <2>1, <3>1, <3>2 DEF EventsKept
  <2> QED
    BY <1>4, <1>7, <2>1, <2>2, QueueLines DEF ReportEvent
<1> QED
  BY <1>1, <1>6, <1>7 DEF ReportEvent

LEMMA ConnectedLines == \A c \in Channels : LineInv /\ Connected(c) => LineInv'
<1> SUFFICES ASSUME NEW c \in Channels, LineInv, Connected(c) PROVE LineInv'
  OBVIOUS
<1>0. LineTypes /\ Answering /\ \A d \in Channels : HeardOK(d, Ear(d), Sending(out[d]))
  BY DEF LineInv
<1>1. /\ link' = [link EXCEPT ![c] = [status |-> "hello", up |-> TRUE, no |-> @.no + 1]]
      /\ heard' = [heard EXCEPT ![c].line = <<>>]
      /\ hist' = [hist EXCEPT !.cut = @ \cup Pending(c)]
      /\ out' = [out EXCEPT ![c] = TxWriteFinish([@ EXCEPT !.flight = <<>>])]
      /\ UNCHANGED <<parser, queue, world>>
  BY DEF Connected
<1>2. PICK ear \in [line : Seq(Piece), replies : Seq(Messages), events : Seq(Nat)] : ear = heard[c]
  BY <1>0 DEF LineTypes
<1>3. PICK line \in Seq(Piece), tx \in Seq(Piece), flight \in Seq(Piece), told \in Seq(Nat) :
        line = heard[c].line /\ tx = out[c].tx /\ flight = out[c].flight /\ told = heard[c].events
  BY <1>0, <1>2, EarIs DEF Outs
<1>4. PICK o \in Outs : o = TxWriteFinish([out[c] EXCEPT !.flight = <<>>])
  <2>1. out[c] \in Outs /\ <<>> \in Seq(Piece)
    BY <1>0, EarIs, EmptySeq
  <2>2. [out[c] EXCEPT !.flight = <<>>] \in Outs
    BY <2>1 DEF Outs
  <2> QED
    BY <2>2, FinishSends
<1>5. OutOK(o) /\ Sending(o) = tx
  <2>1. out[c] \in Outs /\ <<>> \in Seq(Piece)
    BY <1>0, EarIs, EmptySeq
  <2>2. PICK p \in Outs : p = [out[c] EXCEPT !.flight = <<>>]
    BY <2>1 DEF Outs
  <2>3. p.tx = tx
    BY <1>3, <2>1, <2>2 DEF Outs
  <2> QED
    BY <1>4, <2>2, <2>3, FinishSends
<1>6. /\ out' \in [Channels -> Outs] /\ out'[c] = o
      /\ \A d \in Channels : d # c => out'[d] = out[d]
  BY <1>0, <1>1, <1>4 DEF LineTypes
<1>7. /\ heard' \in [Channels -> [line : Seq(Piece), replies : Seq(Messages), events : Seq(Nat)]]
      /\ heard'[c].line = <<>> /\ heard'[c].events = told
      /\ \A d \in Channels : d # c => heard'[d] = heard[d]
  <2>1. <<>> \in Seq(Piece)
    BY EmptySeq
  <2>2. [ear EXCEPT !.line = <<>>] \in [line : Seq(Piece), replies : Seq(Messages), events : Seq(Nat)]
    BY <2>1
  <2>3. heard' = [heard EXCEPT ![c] = [ear EXCEPT !.line = <<>>]]
    BY <1>0, <1>1, <1>2 DEF LineTypes
  <2> QED
    BY <1>0, <1>2, <1>3, <2>2, <2>3 DEF LineTypes
<1>8. /\ hist'.cut = hist.cut \cup Pending(c) /\ hist'.bad = hist.bad /\ hist'.gone = hist.gone
      /\ {"cut", "bad", "gone"} \subseteq DOMAIN hist'
  BY <1>0, <1>1 DEF LineTypes
<1>9. link' \in [Channels -> Links] /\ \A d \in Channels : d # c => link'[d] = link[d]
  <2>1. link \in [Channels -> Links] /\ link[c].no + 1 \in Nat
    BY <1>0 DEF LineTypes, Links
  <2> QED
    BY <1>1, <2>1 DEF Links
<1>10. LineTypes' /\ Answering'
  <2>1. \A d \in Channels : OutOK(out'[d])
    BY <1>0, <1>5, <1>6 DEF LineTypes
  <2>2. (\A d \in Channels : OutOK(out[d]))'
    BY <2>1 DEF OutOK
  <2> QED
    BY <1>0, <1>1, <1>6, <1>7, <1>8, <1>9, <2>2 DEF LineTypes, Answering
<1>11. PICK cut2 : cut2 = hist'.cut
  OBVIOUS
<1>12. /\ hist.cut \subseteq cut2 /\ parser[c].msg \in cut2 \cup {NoMsg}
       /\ \A k \in 1..Len(tx) : tx[k].msg \in cut2
       /\ \A k \in 1..Len(flight) : flight[k].msg \in cut2
       /\ \A k \in 1..Len(line) : line[k].msg \in cut2
  <2>1. PICK s : s = tx \o (flight \o line)
    OBVIOUS
  <2>5. s \in Seq(Piece)
    BY <2>1, TripleIs
  <2>6. PICK i \in Nat, j \in Nat, l \in Nat : Triple(s, tx, flight, line, i, j, l)
    BY <2>1, TripleIs
  <2>2. ToSet(s) = {s[k] : k \in 1..Len(s)}
    <3>1. DOMAIN s = 1..Len(s)
      BY <2>5
    <3> QED
      BY <3>1 DEF ToSet
  <2>3. Pending(c) = {p.msg : p \in ToSet(s)} \cup Intruded(c)
    <3>1. s = (tx \o flight) \o line
      BY <2>1, JoinsGroup
    <3> QED
      BY <1>3, <3>1 DEF Pending
  <2>4. \A k \in 1..Len(s) : s[k].msg \in cut2
    BY <1>8, <1>11, <2>2, <2>3
  <2>8. parser[c].msg \in cut2 \cup {NoMsg}
    BY <1>8, <1>11, <2>3 DEF Intruded
  <2> QED
    BY <1>8, <1>11, <2>4, <2>6, <2>8 DEF Triple
<1>13. ASSUME NEW d \in Channels
       PROVE  HeardIs(d, Ear(d)', Sending(out'[d]), link'[d].no, hist'.cut,
                      parser'[d].msg, queue', world'.events, hist'.gone)
  <2>1. PICK g : g = Ear(d)'
    OBVIOUS
  <2>2. /\ g.line = heard'[d].line /\ g.events = heard'[d].events /\ g.bad = hist.bad
        /\ g \in Hears
    <3>1. g = [line |-> heard'[d].line, replies |-> heard'[d].replies, events |-> heard'[d].events, bad |-> hist.bad]
      BY <1>8, <2>1 DEF Ear
    <3>2. PICK r \in [line : Seq(Piece), replies : Seq(Messages), events : Seq(Nat)] : r = heard'[d]
      BY <1>7
    <3>3. hist.bad \in SUBSET (SUBSET Messages)
      BY <1>0 DEF LineTypes
    <3> QED
      BY <3>1, <3>2, <3>3 DEF Hears
  <2>3. CASE d # c
    <3>1. HeardOK(d, Ear(d), Sending(out[d]))
      BY <1>0
    <3>2. g = Ear(d)
      BY <1>7, <1>8, <2>1, <2>3 DEF Ear
    <3> QED
      BY <1>1, <1>6, <1>8, <1>9, <1>11, <1>12, <2>1, <2>3, <3>1, <3>2, HeardCutMore DEF HeardOK
  <2>4. CASE d = c
    <3>1. PICK no : no = link'[d].no
      OBVIOUS
    <3>2. g.line = <<>> /\ g.events = told
      BY <1>7, <2>2, <2>4
    <3>3. Fresh(<<>>, no) /\ <<>> \o tx = tx
      <4>1. Len(<<>>) = 0 /\ \A s \in Seq(Piece) : <<>> \o s = s
        OBVIOUS
      <4> QED
        BY <4>1 DEF Fresh
    <3>4. WayOK(tx, no, cut2, parser[c].msg)
      BY <1>12, AllCut
    <3>5. \A b \in g.bad : b \cap cut2 # {}
      <4>1. \A b \in hist.bad : b \cap hist.cut # {}
        BY LinesExplained DEF BrokenLinesExplained
      <4> QED
        BY <1>12, <2>2, <4>1
    <3>6. ASSUME c = "data"
          PROVE  /\ OrderOK(told, tx, queue, world.events)
                 /\ KeptOK(told, tx, no, queue, world.events, hist.gone, cut2 \cup UNION g.bad)
      <4>1. PICK s : s = line \o (flight \o tx)
        OBVIOUS
      <4>0. s \in Seq(Piece)
        BY <4>1, TripleIs
      <4>2. /\ OrderOK(told, s, queue, world.events)
            /\ KeptOK(told, s, link[c].no, queue, world.events, hist.gone, hist.cut \cup UNION hist.bad)
        <5>1. HeardOK(c, Ear(c), flight \o tx) /\ Ear(c).line = line /\ Ear(c).events = told /\ Ear(c).bad = hist.bad
          BY <1>0, <1>3, EarIs DEF Sending
        <5> QED
          BY <3>6, <4>1, <5>1 DEF HeardOK, HeardIs
      <4>3. PICK a \in Nat, b \in Nat, n \in Nat : Triple(s, line, flight, tx, a, b, n)
        BY <4>1, TripleIs
      <4>4. /\ a = Len(line) /\ b = Len(flight) /\ n = Len(tx) /\ Len(s) = a + b + n
            /\ \A k \in 1..a : s[k] = line[k]
            /\ \A k \in 1..b : s[a + k] = flight[k]
            /\ \A k \in 1..n : s[a + b + k] = tx[k]
        BY <4>3 DEF Triple
      <4>5. OrderOK(told, tx, queue, world.events)
        <5>1. PICK m \in Nat : m = a + b
          OBVIOUS
        <5>2. n \in Nat /\ Len(tx) = n /\ Len(s) = m + n
          BY <4>4, <5>1
        <5>3. \A i \in 1..n : tx[i] = s[m + i]
          BY <4>4, <5>1
        <5>4. PICK q, top : q = queue /\ top = world.events
          OBVIOUS
        <5>5. OrderOK(told, s, q, top)
          BY <4>2, <5>4
        <5>6. OrderOK(told, tx, q, top)
          BY ONLY <5>1, <5>2, <5>3, <5>5, n \in Nat, RestInOrder
        <5> QED
          BY <5>4, <5>6
      <4>6. \A k \in 1..Len(s) : s[k].msg \in cut2
        <5> SUFFICES ASSUME NEW k \in 1..a + b + n PROVE s[k].msg \in cut2
          BY <4>4
        <5>1. CASE k \in 1..a
          BY <1>12, <4>4, <5>1
        <5>2. CASE k \in (a + 1)..(a + b)
          <6>1. PICK i \in 1..b : i = k - a
            BY <5>2
          <6>2. a + i = k
            BY <6>1
          <6>3. s[k] = flight[i]
            BY <4>4, <6>2
          <6> QED
            BY <1>12, <4>4, <6>3
        <5>3. CASE k \in (a + b + 1)..(a + b + n)
          <6>1. PICK i \in 1..n : i = k - (a + b)
            BY <5>3
          <6>2. a + b + i = k
            BY <6>1
          <6>3. s[k] = tx[i]
            BY <4>4, <6>2
          <6> QED
            BY <1>12, <4>4, <6>3
        <5> QED
          BY <5>1, <5>2, <5>3
      <4>7. PICK lost, lost2 : lost = hist.cut \cup UNION hist.bad /\ lost2 = cut2 \cup UNION g.bad
        OBVIOUS
      <4>8. lost \subseteq lost2 /\ \A k \in 1..Len(s) : s[k].msg \in lost2
        BY <1>12, <2>2, <4>6, <4>7
      <4>9. KeptOK(told, tx, no, queue, world.events, hist.gone, lost2)
        <5>1. AllGone(told, s, link[c].no, queue, world.events, hist.gone, lost, lost2)
          BY <4>0, <4>2, <4>7, <4>8 DEF AllGone
        <5> QED
          BY <5>1, AllLost, Zenon
      <4> QED
        BY <4>5, <4>7, <4>9
    <3>7. /\ Sending(out'[d]) = tx /\ hist'.cut = cut2 /\ hist'.gone = hist.gone
          /\ parser'[d].msg = parser[c].msg /\ queue' = queue /\ world'.events = world.events
      BY <1>1, <1>5, <1>6, <1>8, <1>11, <2>4
    <3>8. HeardIs(d, g, tx, no, cut2, parser[c].msg, queue, world.events, hist.gone)
      BY <2>2, <2>4, <3>2, <3>3, <3>4, <3>5, <3>6 DEF HeardIs
    <3> QED
      BY <2>1, <3>1, <3>7, <3>8
  <2> QED
    BY <2>3, <2>4
<1> QED
  BY <1>10, <1>13, LinesNext

-----------------------------------------------------------------------------
(* Steps that put a message on a channel.                                   *)

\* More messages may be cut.
CutGrows ==
    /\ {"cut", "bad", "gone"} \subseteq DOMAIN hist'
    /\ hist.cut \subseteq hist'.cut /\ hist'.bad = hist.bad

\* The pieces that add holds are put on channel d.
PutOn(d, add) ==
    /\ add \in Seq(Piece) /\ out' \in [Channels -> Outs] /\ OutOK(out'[d])
    /\ Sending(out'[d]) = Sending(out[d]) \o add
    /\ \A e \in Channels \ {d} : out'[e] = out[e]

WayKept(add, no, cut, at, cut2, at2) ==
    \A s \in Seq(Piece) : WayOK(s, no, cut, at) => WayOK(s \o add, no, cut2, at2)

EventsPut(add, no, cut, q, top, gone, q2, top2, gone2) ==
    \A lost, lost2 : \A told \in Seq(Nat), s \in Seq(Piece) :
        /\ lost \subseteq lost2 /\ cut \subseteq lost2
        /\ OrderOK(told, s, q, top) /\ KeptOK(told, s, no, q, top, gone, lost)
        => OrderOK(told, s \o add, q2, top2) /\ KeptOK(told, s \o add, no, q2, top2, gone2, lost2)

\* What the lines of channel d and the events have to bear.
Bears(d, add) ==
    /\ WayKept(add, link[d].no, hist.cut, parser[d].msg, hist'.cut, parser'[d].msg)
    /\ IF d = "data" THEN EventsPut(add, link[d].no, hist'.cut, queue, world.events, hist.gone,
                                    queue', world'.events, hist'.gone)
       ELSE queue' = queue /\ world'.events = world.events /\ hist'.gone = hist.gone

LEMMA BearsPut ==
    ASSUME NEW d, NEW h \in Hears, NEW rest \in Seq(Piece), NEW add \in Seq(Piece), NEW no,
           NEW cut, NEW cut2, cut \subseteq cut2, NEW at, NEW at2, NEW q, NEW q2, NEW top, NEW top2, NEW gone, NEW gone2,
           HeardIs(d, h, rest, no, cut, at, q, top, gone),
           WayKept(add, no, cut, at, cut2, at2),
           d = "data" => EventsPut(add, no, cut2, q, top, gone, q2, top2, gone2)
    PROVE  HeardIs(d, h, rest \o add, no, cut2, at2, q2, top2, gone2)
<1>1. PICK line \in Seq(Piece), told \in Seq(Nat) : line = h.line /\ told = h.events
  BY DEF Hears
<1>2. PICK s \in Seq(Piece) : s = line \o rest
  BY Joins
<1>3. line \o (rest \o add) = s \o add
  BY <1>2, JoinsGroup
<1>4. WayOK(s, no, cut, at) /\ Fresh(line, no) /\ \A b \in h.bad : b \cap cut # {}
  BY <1>1, <1>2 DEF HeardIs
<1>5. WayOK(s \o add, no, cut2, at2)
  BY <1>4 DEF WayKept
<1>6. \A b \in h.bad : b \cap cut2 # {}
  BY <1>4
<1>7. ASSUME d = "data"
      PROVE  OrderOK(told, s \o add, q2, top2) /\ KeptOK(told, s \o add, no, q2, top2, gone2, cut2 \cup UNION h.bad)
  <2>1. PICK lost, lost2 : lost = cut \cup UNION h.bad /\ lost2 = cut2 \cup UNION h.bad
    OBVIOUS
  <2>2. lost \subseteq lost2 /\ cut2 \subseteq lost2
    BY <2>1
  <2>3. OrderOK(told, s, q, top) /\ KeptOK(told, s, no, q, top, gone, lost)
    BY <1>1, <1>2, <1>7, <2>1 DEF HeardIs
  <2>4. EventsPut(add, no, cut2, q, top, gone, q2, top2, gone2)
    BY <1>7
  <2> QED
    BY <2>1, <2>2, <2>3, <2>4 DEF EventsPut
<1> QED
  BY <1>1, <1>3, <1>4, <1>5, <1>6, <1>7 DEF HeardIs

LEMMA WriteLines ==
    ASSUME LineInv, NEW d \in Channels, NEW add, PutOn(d, add), CutGrows, Bears(d, add),
           heard' = heard, link' = link, queue' \in Seq(Nat), Answering',
           \A e \in Channels \ {d} : parser'[e].msg = parser[e].msg
    PROVE  LineInv'
<1>0. LineTypes /\ Answering /\ \A e \in Channels : HeardOK(e, Ear(e), Sending(out[e]))
  BY DEF LineInv
<1>1. LineTypes'
  <2>1. \A e \in Channels : OutOK(out'[e])
    BY <1>0 DEF PutOn, LineTypes
  <2>2. (\A e \in Channels : OutOK(out[e]))'
    BY <2>1 DEF OutOK
  <2> QED
    BY <1>0, <2>2 DEF LineTypes, PutOn, CutGrows
<1>2. ASSUME NEW e \in Channels
      PROVE  HeardIs(e, Ear(e)', Sending(out'[e]), link'[e].no, hist'.cut,
                     parser'[e].msg, queue', world'.events, hist'.gone)
  <2>1. PICK h : h = Ear(e)
    OBVIOUS
  <2>2. Ear(e)' = h /\ h \in Hears
    <3>1. Ear(e)' = h
      BY <2>1 DEF Ear, CutGrows
    <3> QED
      BY <1>0, <2>1, <3>1, EarIs
  <2>3. PICK rest \in Seq(Piece) : rest = Sending(out[e])
    BY <1>0, EarIs
  <2>4. HeardIs(e, h, rest, link[e].no, hist.cut, parser[e].msg, queue, world.events, hist.gone)
    BY <1>0, <2>1, <2>3 DEF HeardOK
  <2>5. PICK cut, cut2 : cut = hist.cut /\ cut2 = hist'.cut
    OBVIOUS
  <2>6. cut \subseteq cut2
    BY <2>5 DEF CutGrows
  <2>7. CASE e = d
    <3>1. PICK at, at2, no : at = parser[e].msg /\ at2 = parser'[e].msg /\ no = link[e].no
      OBVIOUS
    <3>2. PICK top, top2, gone, gone2 : /\ top = world.events /\ top2 = world'.events
                                        /\ gone = hist.gone /\ gone2 = hist'.gone
      OBVIOUS
    <3>3. PICK q, q2 : q = queue /\ q2 = queue'
      OBVIOUS
    <3>4. /\ HeardIs(e, h, rest, no, cut, at, q, top, gone)
          /\ WayKept(add, no, cut, at, cut2, at2)
          /\ e = "data" => EventsPut(add, no, cut2, q, top, gone, q2, top2, gone2)
      BY <2>4, <2>5, <2>7, <3>1, <3>2, <3>3 DEF Bears
    <3>5. add \in Seq(Piece)
      BY DEF PutOn
    <3>6. HeardIs(e, h, rest \o add, no, cut2, at2, q2, top2, gone2)
      BY <2>2, <2>6, <3>4, <3>5, BearsPut
    <3> QED
      BY <2>2, <2>3, <2>5, <2>7, <3>1, <3>2, <3>3, <3>6 DEF PutOn
  <2>8. CASE e # d
    <3>1. HeardIs(e, h, rest, link[e].no, cut2, parser[e].msg, queue, world.events, hist.gone)
      BY <2>4, <2>5, <2>6, HeardCutMore
    <3>2. parser'[e].msg = parser[e].msg /\ out'[e] = out[e]
      BY <2>8 DEF PutOn
    <3>3. CASE d # "data"
      BY <2>2, <2>3, <2>5, <3>1, <3>2, <3>3 DEF Bears
    <3>4. CASE d = "data"
      <4>1. e # "data"
        BY <2>8, <3>4
      <4>2. HeardIs(e, h, rest, link[e].no, cut2, parser[e].msg, queue', world'.events, hist'.gone)
        BY <3>1, <4>1 DEF HeardIs
      <4> QED
        BY <2>2, <2>3, <2>5, <3>2, <4>2
    <3> QED
      BY <3>3, <3>4
  <2> QED
    BY <2>7, <2>8
<1> QED
  BY <1>1, <1>2, LinesNext

LEMMA PutDone ==
    ASSUME LineInv, NEW d \in Channels, NEW msg \in Messages, NEW parts, Parts(parts),
           NEW whole \in Seq(PartNames), NEW w, w = PutAll(d, Unhurt(d), msg, parts, whole),
           out' = [out EXCEPT ![d] = w.out], w.cut \subseteq hist'.cut
    PROVE  \E add : PutOn(d, add) /\ Adds(add, msg, link[d].no, parts, whole, hist'.cut)
<1>1. LineTypes
  BY DEF LineInv
<1>2. out[d] \in Outs /\ OutOK(out[d]) /\ link[d].no \in Nat
  BY <1>1, EarIs DEF LineTypes
<1>3. PICK u : u = Unhurt(d)
  OBVIOUS
<1>4. u \in Puts /\ u.out = out[d] /\ u.cut = {} /\ OutOK(u.out)
  BY <1>2, <1>3 DEF Unhurt, Puts
<1>5. /\ w \in Puts /\ OutOK(w.out)
      /\ \E add : /\ Adds(add, msg, link[d].no, parts, whole, w.cut)
                  /\ Sending(w.out) = Sending(u.out) \o add
  <2>1. w = PutAll(d, u, msg, parts, whole)
    BY <1>3
  <2>2. u \in Puts /\ OutOK(u.out) /\ u.cut = {} /\ link[d].no \in Nat
    BY <1>2, <1>4
  <2>3. d \in Channels /\ msg \in Messages /\ Parts(parts) /\ whole \in Seq(PartNames)
    OBVIOUS
  <2>4. Puttable(d, u, msg, parts, whole, w)
    BY <2>1, <2>2, <2>3 DEF Puttable
  <2> QED
    BY ONLY <2>4, PutAllAdds
<1>6. PICK add : Adds(add, msg, link[d].no, parts, whole, w.cut) /\ Sending(w.out) = Sending(out[d]) \o add
  BY <1>4, <1>5
<1>7. Adds(add, msg, link[d].no, parts, whole, hist'.cut)
  BY <1>6 DEF Adds
<1>8. PICK o \in Outs : o = w.out
  BY <1>5 DEF Puts
<1>9. out' \in [Channels -> Outs] /\ out'[d] = o /\ \A e \in Channels \ {d} : out'[e] = out[e]
  BY <1>1, <1>8 DEF LineTypes
<1>10. PutOn(d, add)
  BY <1>5, <1>6, <1>8, <1>9 DEF PutOn, Adds
<1> QED
  BY <1>7, <1>10

\* What is put: a message that is whole, the start of the parser's answer, or its rest.
Says(msg, parts, whole, at, at2, cut) ==
    /\ Parts(parts) /\ whole \in Seq(PartNames)
    /\ \/ whole = parts /\ parts[Len(parts)] = "close" /\ at2 = at /\ at \in cut \cup {NoMsg}
       \/ at = NoMsg /\ at2 = msg /\ msg # NoMsg /\ parts = <<"open">>
       \/ /\ at = msg /\ msg # NoMsg /\ at2 = NoMsg
          /\ whole = <<"open">> \o parts /\ parts[Len(parts)] = "close"

LEMMA SaidKept ==
    ASSUME NEW msg, NEW parts, NEW whole, NEW at, NEW at2, NEW cut, NEW cut2, cut \subseteq cut2,
           Says(msg, parts, whole, at, at2, cut2), NEW no, NEW add, Adds(add, msg, no, parts, whole, cut2)
    PROVE  WayKept(add, no, cut, at, cut2, at2)
<1> SUFFICES ASSUME NEW s \in Seq(Piece), WayOK(s, no, cut, at) PROVE WayOK(s \o add, no, cut2, at2)
  BY DEF WayKept
<1>1. parts \in Seq(PartNames) /\ parts # <<>>
  BY DEF Says, Parts
<1>2. CASE whole = parts /\ parts[Len(parts)] = "close" /\ at2 = at /\ at \in cut2 \cup {NoMsg}
  BY <1>1, <1>2, WholePut
<1>3. CASE at = NoMsg /\ at2 = msg /\ msg # NoMsg /\ parts = <<"open">>
  BY <1>3, OpenPut
<1>4. CASE /\ at = msg /\ msg # NoMsg /\ at2 = NoMsg
           /\ whole = <<"open">> \o parts /\ parts[Len(parts)] = "close"
  BY <1>1, <1>4, RestPut
<1> QED
  BY <1>2, <1>3, <1>4 DEF Says

LEMMA OtherPut ==
    ASSUME NEW msg, msg[1] # "event", NEW parts, NEW whole, NEW no, NEW cut, NEW add,
           Adds(add, msg, no, parts, whole, cut), NEW q, NEW top, NEW gone
    PROVE  EventsPut(add, no, cut, q, top, gone, q, top, gone)
<1>1. add \in Seq(Piece) /\ \A i \in 1..Len(add) : add[i].msg = msg
  BY DEF Adds
<1> SUFFICES ASSUME NEW told \in Seq(Nat), NEW s \in Seq(Piece), NEW lost, NEW lost2, lost \subseteq lost2,
                    OrderOK(told, s, q, top), KeptOK(told, s, no, q, top, gone, lost)
             PROVE  OrderOK(told, s \o add, q, top) /\ KeptOK(told, s \o add, no, q, top, gone, lost2)
  BY DEF EventsPut
<1>2. PICK t : t = s \o add
  OBVIOUS
<1>3. /\ OrderOK(told, s, q, top) => OrderOK(told, t, q, top)
      /\ KeptOK(told, s, no, q, top, gone, lost) => KeptOK(told, t, no, q, top, gone, lost2)
  BY <1>1, <1>2, OtherAdded
<1> QED
  BY <1>2, <1>3

LEMMA EventPut ==
    ASSUME NEW q \in Seq(Nat), q # <<>>, NEW no, NEW cut, NEW add,
           Adds(add, <<"event", Head(q)>>, no, Event, Event, cut), NEW top, NEW gone
    PROVE  EventsPut(add, no, cut, q, top, gone, Tail(q), top, gone)
<1> SUFFICES ASSUME NEW told \in Seq(Nat), NEW s \in Seq(Piece), NEW lost, NEW lost2, lost \subseteq lost2,
                    cut \subseteq lost2, OrderOK(told, s, q, top), KeptOK(told, s, no, q, top, gone, lost)
             PROVE  /\ OrderOK(told, s \o add, Tail(q), top)
                    /\ KeptOK(told, s \o add, no, Tail(q), top, gone, lost2)
  BY DEF EventsPut
<1>1. PICK t, n : t = s \o add /\ n = Head(q)
  OBVIOUS
<1>2. Adds(add, <<"event", n>>, no, Event, Event, cut)
  BY <1>1
<1>3. OrderOK(told, t, Tail(q), top) /\ KeptOK(told, t, no, Tail(q), top, gone, lost2)
  BY <1>1, <1>2, EventWritten
<1> QED
  BY <1>1, <1>3

Short == <<"body", "close">>
Answer == <<"body", "status", "close">>
WholeAnswer == <<"open", "body", "status", "close">>

LEMMA PartsAre ==
    /\ Parts(Event) /\ Event[Len(Event)] = "close" /\ Event = <<"open">> \o Short
    /\ Parts(Short) /\ Short[Len(Short)] = "close"
    /\ Parts(Answer) /\ Answer[Len(Answer)] = "close" /\ WholeAnswer = <<"open">> \o Answer
    /\ Parts(WholeAnswer) /\ WholeAnswer[Len(WholeAnswer)] = "close"
    /\ Parts(<<"open">>) /\ Parts(<<"close">>) /\ <<"close">>[Len(<<"close">>)] = "close"
<1>1. \A a \in PartNames : <<a>> \in Seq(PartNames) /\ <<a>> # <<>> /\ Len(<<a>>) = 1 /\ <<a>>[1] = a
  OBVIOUS
<1>2. \A a, b \in PartNames : /\ <<a, b>> \in Seq(PartNames) /\ <<a, b>> # <<>> /\ Len(<<a, b>>) = 2
                              /\ <<a, b>>[1] = a /\ <<a, b>>[2] = b
  OBVIOUS
<1>3. \A a, b, d \in PartNames :
        /\ <<a, b, d>> \in Seq(PartNames) /\ <<a, b, d>> # <<>> /\ Len(<<a, b, d>>) = 3
        /\ <<a, b, d>>[1] = a /\ <<a, b, d>>[2] = b /\ <<a, b, d>>[3] = d
        /\ <<a, b, d>> = <<a>> \o <<b, d>>
  OBVIOUS
<1>4. \A a, b, d, e \in PartNames :
        /\ <<a, b, d, e>> \in Seq(PartNames) /\ <<a, b, d, e>> # <<>> /\ Len(<<a, b, d, e>>) = 4
        /\ <<a, b, d, e>>[1] = a /\ <<a, b, d, e>>[2] = b /\ <<a, b, d, e>>[3] = d /\ <<a, b, d, e>>[4] = e
        /\ <<a, b, d, e>> = <<a>> \o <<b, d, e>>
  OBVIOUS
<1>5. {"open", "body", "status", "close"} = PartNames
  BY DEF PartNames
<1>6. /\ \A i \in 1..1 : i = 1
      /\ \A i \in 1..2 : i = 1 \/ i = 2
      /\ \A i \in 1..3 : i = 1 \/ i = 2 \/ i = 3
      /\ \A i \in 1..4 : i = 1 \/ i = 2 \/ i = 3 \/ i = 4
  OBVIOUS
<1>7. Parts(Event) /\ Event[Len(Event)] = "close" /\ Event = <<"open">> \o Short
  BY <1>3, <1>5, <1>6 DEF Parts, Event, Short
<1>8. Parts(Short) /\ Short[Len(Short)] = "close"
  BY <1>2, <1>5, <1>6 DEF Parts, Short
<1>9. Parts(Answer) /\ Answer[Len(Answer)] = "close"
  BY <1>3, <1>5, <1>6 DEF Parts, Answer
<1>10. Parts(WholeAnswer) /\ WholeAnswer[Len(WholeAnswer)] = "close" /\ WholeAnswer = <<"open">> \o Answer
  BY <1>4, <1>5, <1>6 DEF Parts, WholeAnswer, Answer
<1>11. Parts(<<"open">>) /\ Parts(<<"close">>) /\ <<"close">>[Len(<<"close">>)] = "close"
  BY <1>1, <1>5, <1>6 DEF Parts
<1> QED
  BY <1>7, <1>8, <1>9, <1>10, <1>11

\* A message other than an event is put on channel d, and what its lines bear.
LEMMA MessageLines ==
    ASSUME LineInv, NEW d \in Channels, NEW msg \in Messages, msg[1] # "event", NEW parts, NEW whole,
           Says(msg, parts, whole, parser[d].msg, parser'[d].msg, hist'.cut),
           NEW w, w = PutAll(d, Unhurt(d), msg, parts, whole),
           out' = [out EXCEPT ![d] = w.out], w.cut \subseteq hist'.cut,
           CutGrows, hist'.gone = hist.gone,
           heard' = heard, link' = link, queue' = queue, world'.events = world.events, Answering',
           \A e \in Channels \ {d} : parser'[e].msg = parser[e].msg
    PROVE  LineInv'
<1>1. Parts(parts) /\ whole \in Seq(PartNames)
  BY DEF Says
<1>2. PICK add : PutOn(d, add) /\ Adds(add, msg, link[d].no, parts, whole, hist'.cut)
  BY <1>1, PutDone
<1>3. hist.cut \subseteq hist'.cut
  BY DEF CutGrows
<1>4. PICK at, at2, cut, cut2, no : /\ at = parser[d].msg /\ at2 = parser'[d].msg
                                    /\ cut = hist.cut /\ cut2 = hist'.cut /\ no = link[d].no
  OBVIOUS
<1>5. cut \subseteq cut2 /\ Says(msg, parts, whole, at, at2, cut2) /\ Adds(add, msg, no, parts, whole, cut2)
  BY <1>2, <1>3, <1>4
<1>6. WayKept(add, no, cut, at, cut2, at2)
  BY <1>5, SaidKept
<1>7. PICK q, top, gone : q = queue /\ top = world.events /\ gone = hist.gone
  OBVIOUS
<1>8. EventsPut(add, no, cut2, q, top, gone, q, top, gone)
  BY <1>5, OtherPut
<1>9. Bears(d, add)
  BY <1>4, <1>6, <1>7, <1>8 DEF Bears
<1>10. queue' \in Seq(Nat)
  BY DEF LineInv, LineTypes
<1> QED
  BY <1>2, <1>9, <1>10, WriteLines

LEMMA DrainLines == LineInv /\ DrainEventQueue => LineInv'
<1> SUFFICES ASSUME LineInv, DrainEventQueue PROVE LineInv'
  OBVIOUS
<1>0. LineTypes /\ Answering
  BY DEF LineInv
<1>1. UNCHANGED <<parser, link, world, heard>>
  BY DEF DrainEventQueue
<1>2. CASE queue = <<>>
  <2>1. UNCHANGED <<out, queue, hist>>
    BY <1>2 DEF DrainEventQueue
  <2> QED
    BY <1>1, <2>1, AllSame, QuietLines
<1>3. PICK q \in Seq(Nat) : q = queue
  BY <1>0 DEF LineTypes
<1>4. CASE queue # <<>> /\ popped = DrainMax
  <2>1. /\ queue' = Tail(q) /\ out' = out
        /\ hist' = [hist EXCEPT !.gone = @ \cup {Head(q)}]
    BY <1>3, <1>4 DEF DrainEventQueue
  <2>2. /\ hist'.cut = hist.cut /\ hist'.bad = hist.bad /\ hist'.gone = hist.gone \cup {Head(q)}
        /\ {"cut", "bad", "gone"} \subseteq DOMAIN hist'
    BY <1>0, <2>1 DEF LineTypes
  <2>3. EventsKept
    <3>1. PICK gone, top : gone = hist.gone /\ top = world.events
      OBVIOUS
    <3>2. KeptBy(q, top, gone, Tail(q), top, gone \cup {Head(q)})
      <4> SUFFICES ASSUME NEW told \in Seq(Nat), NEW s \in Seq(Piece), NEW no, NEW lost,
                          OrderOK(told, s, q, top), KeptOK(told, s, no, q, top, gone, lost)
                   PROVE  /\ OrderOK(told, s, Tail(q), top)
                          /\ KeptOK(told, s, no, Tail(q), top, gone \cup {Head(q)}, lost)
        BY DEF KeptBy
      <4> QED
        BY <1>3, <1>4, EventDropped
    <3> QED
      BY <1>1, <1>3, <2>1, <2>2, <3>1, <3>2 DEF EventsKept
  <2>4. queue' \in Seq(Nat)
    BY <1>3, <1>4, <2>1, QueueTail
  <2> QED
    BY <1>1, <2>1, <2>2, <2>3, <2>4, QueueLines
<1>5. CASE queue # <<>> /\ popped # DrainMax
  <2>1. PICK n \in Nat : n = Head(q)
    BY <1>3, <1>5, QueueTail
  <2>2. PICK msg : msg = <<"event", n>>
    OBVIOUS
  <2>3. PICK w : w = PutAll("data", Unhurt("data"), msg, Event, Event)
    OBVIOUS
  <2>4. /\ queue' = Tail(q) /\ out' = [out EXCEPT !["data"] = w.out]
        /\ hist' = [hist EXCEPT !.cut = @ \cup w.cut \cup Intruded("data")]
    BY <1>3, <1>5, <2>1, <2>2, <2>3 DEF DrainEventQueue
  <2>5. /\ hist'.cut = hist.cut \cup w.cut \cup Intruded("data") /\ hist'.bad = hist.bad
        /\ hist'.gone = hist.gone /\ {"cut", "bad", "gone"} \subseteq DOMAIN hist'
    BY <1>0, <2>4 DEF LineTypes
  <2>6. CutGrows
    BY <2>5 DEF CutGrows
  <2>7. msg \in Messages /\ Parts(Event) /\ Event \in Seq(PartNames) /\ "data" \in Channels
    <3>1. "event" \in {"none", "reply", "phantom", "event", "alive", "started"}
      OBVIOUS
    <3>2. msg \in Messages
      BY <2>2, <3>1 DEF Messages
    <3> QED
      BY <3>2, PartsAre DEF Parts, Channels
  <2>8. w.cut \subseteq hist'.cut
    BY <2>5
  <2>9. PICK add : PutOn("data", add) /\ Adds(add, msg, link["data"].no, Event, Event, hist'.cut)
    BY <2>3, <2>4, <2>7, <2>8, PutDone
  <2>10. PICK at, cut, cut2, no : at = parser["data"].msg /\ cut = hist.cut /\ cut2 = hist'.cut /\ no = link["data"].no
    OBVIOUS
  <2>11. cut \subseteq cut2 /\ at \in cut2 \cup {NoMsg} /\ Adds(add, msg, no, Event, Event, cut2)
    BY <2>5, <2>9, <2>10 DEF Intruded
  <2>12. Says(msg, Event, Event, at, at, cut2)
    BY <2>7, <2>11, PartsAre DEF Says
  <2>13. WayKept(add, no, cut, at, cut2, at)
    BY <2>11, <2>12, SaidKept
  <2>14. PICK top, gone : top = world.events /\ gone = hist.gone
    OBVIOUS
  <2>15. q # <<>> /\ Adds(add, <<"event", Head(q)>>, no, Event, Event, cut2)
    BY <1>3, <1>5, <2>1, <2>2, <2>11
  <2>16. EventsPut(add, no, cut2, q, top, gone, Tail(q), top, gone)
    BY <2>15, EventPut
  <2>17. Bears("data", add)
    BY <1>1, <1>3, <2>4, <2>5, <2>10, <2>13, <2>14, <2>16 DEF Bears
  <2>18. queue' \in Seq(Nat) /\ Answering'
    BY <1>0, <1>1, <2>4, <2>15, QueueTail DEF Answering
  <2> QED
    BY <1>1, <2>6, <2>7, <2>9, <2>17, <2>18, WriteLines
<1> QED
  BY <1>2, <1>4, <1>5

-----------------------------------------------------------------------------
(* Rounds of the parser.                                                    *)

Answers(p) == p.msg = NoMsg <=> p.stage \in {"REQ_TYPE", "OTA"}

\* What a round of the parser leaves alone.
Rounds == UNCHANGED <<link, queue, world, heard>>

LEMMA ParserNext ==
    ASSUME TypeInv, LineInv, NEW c \in Channels, NEW p, parser' = [parser EXCEPT ![c] = p], Answers(p)
    PROVE  Answering' /\ parser'[c] = p /\ \A e \in Channels \ {c} : parser'[e].msg = parser[e].msg
<1>1. parser \in [Channels -> Parsers] /\ Answering
  BY DEF TypeInv, LineInv
<1>2. parser'[c] = p /\ \A e \in Channels \ {c} : parser'[e] = parser[e]
  BY <1>1
<1>3. Answering'
  BY <1>1, <1>2 DEF Answering, Answers
<1> QED
  BY <1>2, <1>3

LEMMA SilentLines ==
    ASSUME TypeInv, LineInv, Rounds, NEW c \in Channels, NEW p, Silent(c, p),
           p.msg = parser[c].msg, Answers(p)
    PROVE  LineInv'
<1>1. parser' = [parser EXCEPT ![c] = p] /\ out' = out /\ hist' = hist
  BY DEF Silent
<1>2. MsgsSame
  BY <1>1, ParserNext DEF MsgsSame
<1> QED
  BY <1>1, <1>2, AllSame, QuietLines DEF Rounds

LEMMA ReplyLines ==
    ASSUME TypeInv, LineInv, Rounds, NEW c \in Channels, NEW p, NEW msg \in Messages, msg[1] # "event",
           NEW parts, NEW whole, Reply(c, p, msg, parts, whole),
           Says(msg, parts, whole, parser[c].msg, p.msg, {}), Answers(p)
    PROVE  LineInv'
<1>1. PICK w : w = PutAll(c, Unhurt(c), msg, parts, whole)
  OBVIOUS
<1>2. /\ parser' = [parser EXCEPT ![c] = p] /\ out' = [out EXCEPT ![c] = w.out]
      /\ hist' = [hist EXCEPT !.cut = @ \cup w.cut]
  BY <1>1 DEF Reply
<1>3. {"cut", "bad", "gone"} \subseteq DOMAIN hist
  BY DEF LineInv, LineTypes
<1>4. /\ hist'.cut = hist.cut \cup w.cut /\ hist'.bad = hist.bad /\ hist'.gone = hist.gone
      /\ {"cut", "bad", "gone"} \subseteq DOMAIN hist'
  BY <1>2, <1>3
<1>5. CutGrows /\ w.cut \subseteq hist'.cut
  BY <1>4 DEF CutGrows
<1>6. Answering' /\ parser'[c] = p /\ \A e \in Channels \ {c} : parser'[e].msg = parser[e].msg
  BY <1>2, ParserNext
<1>7. Says(msg, parts, whole, parser[c].msg, parser'[c].msg, hist'.cut)
  BY <1>6 DEF Says
<1> QED
  BY <1>1, <1>2, <1>4, <1>5, <1>6, <1>7, MessageLines DEF Rounds

LEMMA MsgIs ==
    ASSUME TypeInv, LineInv, NEW c \in Channels
    PROVE  /\ parser[c] \in Parsers /\ Answers(parser[c])
           /\ parser[c].msg \in Messages /\ parser[c].msg[1] # "event"
<1>1. parser[c] \in Parsers /\ Answering
  BY DEF TypeInv, LineInv
<1>2. PICK m \in {"none", "reply", "phantom"} \X Nat : m = parser[c].msg
  BY <1>1 DEF Parsers
<1>3. m \in Messages /\ m[1] # "event"
  BY DEF Messages
<1> QED
  BY <1>1, <1>2, <1>3 DEF Answering, Answers

LEMMA BackAnswers == \A p : BackToReqType(p).msg = NoMsg /\ Answers(BackToReqType(p))
BY DEF BackToReqType, NoRequest, Answers

LEMMA NotFoundLines ==
    ASSUME TypeInv, LineInv, Rounds, NEW c \in Channels,
           parser[c].stage \notin {"REQ_TYPE", "OTA"}, NotFound(c)
    PROVE  LineInv'
<1>1. PICK p, msg : p = BackToReqType(parser[c]) /\ msg = parser[c].msg
  OBVIOUS
<1>2. msg \in Messages /\ msg[1] # "event" /\ msg # NoMsg
  BY <1>1, MsgIs DEF Answers
<1>3. p.msg = NoMsg /\ Answers(p)
  BY <1>1, BackAnswers
<1>4. Reply(c, p, msg, Answer, WholeAnswer)
  BY <1>1 DEF NotFound, Answer, WholeAnswer
<1>5. Says(msg, Answer, WholeAnswer, parser[c].msg, p.msg, {})
  BY <1>1, <1>2, <1>3, PartsAre DEF Says, Parts
<1> QED
  BY <1>2, <1>3, <1>4, <1>5, ReplyLines

LEMMA RootLines ==
    ASSUME TypeInv, LineInv, Rounds, NEW c \in Channels, parser[c].stage = "REQ_TYPE",
           NEW verb, NEW n, Root(c, verb, n)
    PROVE  LineInv'
<1>1. PICK p, found, msg : /\ p = parser[c] /\ found = (Peek(c, n).tok = "/")
                           /\ msg = <<IF p.phantom THEN "phantom" ELSE "reply", Peek(c, 1).id>>
  OBVIOUS
<1>2. p \in Parsers /\ p.stage = "REQ_TYPE" /\ p.msg = NoMsg
  BY <1>1, MsgIs DEF Answers
<1>3. msg \in Messages /\ msg[1] # "event" /\ msg # NoMsg
  <2>1. Peek(c, 1).id \in Nat
    BY PeekIs DEF Token
  <2>2. PICK kind \in {"reply", "phantom"}, i \in Nat : msg = <<kind, i>>
    BY <1>1, <2>1
  <2>3. kind \in {"none", "reply", "phantom", "event", "alive", "started"} /\ kind # "event" /\ kind # "none"
    BY <2>2
  <2>4. msg \in Messages
    BY <2>2, <2>3 DEF Messages
  <2> QED
    BY <2>2, <2>3, <2>4 DEF NoMsg
<1> DEFINE q1 == [p EXCEPT !.stage = "GROVE_NAME", !.verb = verb, !.window = "",
                           !.seg = NoSegment, !.msg = msg, !.args = <<>>]
           q2 == [p EXCEPT !.window = "", !.phantom = FALSE]
<1>4. q1.msg = msg /\ q1.stage = "GROVE_NAME" /\ q2.msg = NoMsg /\ q2.stage = "REQ_TYPE"
  BY <1>2 DEF Parsers
<1>5. Answers(q1) /\ Answers(q2)
  BY <1>3, <1>4 DEF Answers
<1>6. PICK w : w = PutAll(c, Unhurt(c), msg, IF found THEN <<"open">> ELSE WholeAnswer, WholeAnswer)
  OBVIOUS
<1>7. /\ out' = [out EXCEPT ![c] = w.out] /\ hist' = [hist EXCEPT !.cut = @ \cup w.cut]
      /\ parser' = [parser EXCEPT ![c] = IF found THEN q1 ELSE q2]
  BY <1>1, <1>6 DEF Root, WholeAnswer
<1> HIDE DEF q1, q2
<1>8. CASE found
  <2>1. Reply(c, q1, msg, <<"open">>, WholeAnswer)
    BY <1>6, <1>7, <1>8 DEF Reply
  <2>2. Says(msg, <<"open">>, WholeAnswer, parser[c].msg, q1.msg, {})
    BY <1>1, <1>2, <1>3, <1>4, PartsAre DEF Says, Parts
  <2> QED
    BY <1>3, <1>5, <2>1, <2>2, ReplyLines
<1>9. CASE ~found
  <2>1. Reply(c, q2, msg, WholeAnswer, WholeAnswer)
    BY <1>6, <1>7, <1>9 DEF Reply
  <2>2. Says(msg, WholeAnswer, WholeAnswer, parser[c].msg, q2.msg, {})
    BY <1>1, <1>2, <1>4, PartsAre DEF Says, Parts
  <2> QED
    BY <1>3, <1>5, <2>1, <2>2, ReplyLines
<1> QED
  BY <1>8, <1>9

LEMMA HeadMsg ==
    ASSUME TypeInv, NEW c \in Channels, NEW phantom
    PROVE  LET msg == <<IF phantom THEN "phantom" ELSE "reply", Peek(c, 1).id>>
           IN  msg \in Messages /\ msg[1] # "event" /\ msg # NoMsg
<1>1. Peek(c, 1).id \in Nat
  BY PeekIs DEF Token
<1>2. PICK msg : msg = <<IF phantom THEN "phantom" ELSE "reply", Peek(c, 1).id>>
  OBVIOUS
<1>3. PICK kind \in {"reply", "phantom"}, i \in Nat : msg = <<kind, i>>
  BY <1>1, <1>2
<1>4. kind \in {"none", "reply", "phantom", "event", "alive", "started"} /\ kind # "event" /\ kind # "none"
  BY <1>3
<1>5. msg \in Messages
  BY <1>3, <1>4 DEF Messages
<1> QED
  BY <1>2, <1>3, <1>4, <1>5 DEF NoMsg

LEMMA ReqTypeLines ==
    ASSUME TypeInv, LineInv, Rounds, NEW c \in Channels, parser[c].stage = "REQ_TYPE", ReqType(c)
    PROVE  LineInv'
<1>1. PICK p, t, hit : p = parser[c] /\ t = Peek(c, 1) /\ hit = Match(p, t)
  OBVIOUS
<1>2. p \in Parsers /\ p.stage = "REQ_TYPE" /\ p.msg = NoMsg
  BY <1>1, MsgIs DEF Answers
<1>3. PICK next : next = [p EXCEPT !.window = "", !.phantom = FALSE]
  OBVIOUS
<1>4. PICK msg : msg = <<IF p.phantom THEN "phantom" ELSE "reply", t.id>>
  OBVIOUS
<1>5. msg \in Messages /\ msg[1] # "event" /\ msg # NoMsg
  BY <1>1, <1>4, HeadMsg
<1>6. next \in Parsers /\ next.stage = "REQ_TYPE" /\ next.msg = NoMsg
  BY <1>2, <1>3 DEF Parsers
<1> DEFINE ota == [next EXCEPT !.stage = "OTA", !.phantom = p.phantom]
           app == [next EXCEPT !.stage = "APP_NUM", !.msg = msg]
           other == [next EXCEPT !.window = IF t.tok \in Keywords THEN t.tok ELSE ""]
<1>7. /\ hit = "GET" => \E n : Root(c, "GET", n)
      /\ hit = "POST" => \E n : Root(c, "POST", n)
      /\ hit = "OTA" => Reply(c, ota, msg, Event, Event)
      /\ hit = "APP" => Reply(c, app, msg, <<"open">>, <<>>)
      /\ hit \notin {"GET", "POST", "OTA", "APP"} => Silent(c, other)
  BY <1>1, <1>3, <1>4 DEF ReqType
<1>8. /\ ota.msg = NoMsg /\ Answers(ota)
      /\ app.msg = msg /\ Answers(app)
      /\ other.msg = NoMsg /\ Answers(other)
  BY <1>5, <1>6 DEF Answers, Parsers
<1> HIDE DEF ota, app, other
<1>9. CASE hit \in {"GET", "POST"}
  BY <1>7, <1>9, RootLines
<1>10. CASE hit = "OTA"
  <2>1. Says(msg, Event, Event, parser[c].msg, ota.msg, {})
    BY <1>1, <1>2, <1>8, PartsAre DEF Says, Parts
  <2> QED
    BY <1>5, <1>7, <1>8, <1>10, <2>1, ReplyLines
<1>11. CASE hit = "APP"
  <2>1. Says(msg, <<"open">>, <<>>, parser[c].msg, app.msg, {})
    BY <1>1, <1>2, <1>5, <1>8, PartsAre, EmptySeq DEF Says
  <2> QED
    BY <1>5, <1>7, <1>8, <1>11, <2>1, ReplyLines
<1>12. CASE hit \notin {"GET", "POST", "OTA", "APP"}
  BY <1>1, <1>2, <1>7, <1>8, <1>12, SilentLines
<1> QED
  BY <1>9, <1>10, <1>11, <1>12

\* A stage in which the parser has begun an answer.
Begun(p) == p.stage \notin {"REQ_TYPE", "OTA"}

LEMMA StepLines ==
    ASSUME TypeInv, LineInv, Rounds, NEW c \in Channels, Begun(parser[c]), NEW p, Silent(c, p),
           p.msg = parser[c].msg, Begun(p)
    PROVE  LineInv'
<1>1. Answers(p)
  BY MsgIs DEF Answers, Begun
<1> QED
  BY <1>1, SilentLines

\* A character that is stored leaves the answer alone.
LEMMA StoredMsg ==
    ASSUME TypeInv, NEW c \in Channels
    PROVE  LET q == Store(parser[c], Peek(c, 1))
           IN  q \in Parsers /\ q.msg = parser[c].msg /\ q.stage = parser[c].stage
<1>1. parser[c] \in Parsers /\ Peek(c, 1) \in Token
  <2>1. parser[c] \in Parsers
    BY DEF TypeInv
  <2> QED
    BY <2>1, PeekIs
<1>2. PICK q : q = Store(parser[c], Peek(c, 1))
  OBVIOUS
<1>3. q \in Parsers /\ q = [parser[c] EXCEPT !.seg = q.seg, !.mem = q.mem]
  BY <1>1, <1>2, StoreIs
<1>4. q.msg = parser[c].msg /\ q.stage = parser[c].stage
  BY <1>1, <1>3 DEF Parsers
<1> QED
  BY <1>2, <1>3, <1>4

LEMMA GroveNameLines ==
    ASSUME TypeInv, LineInv, Rounds, NEW c \in Channels, parser[c].stage = "GROVE_NAME", GroveName(c)
    PROVE  LineInv'
<1>1. PICK p, t : p = parser[c] /\ t = Peek(c, 1)
  OBVIOUS
<1>2. p \in Parsers
  BY <1>1, MsgIs
<1>3. PICK s \in Parsers : s = Store(p, t) /\ s.msg = p.msg /\ s.stage = p.stage
  BY <1>1, StoredMsg
<1> DEFINE known == [p EXCEPT !.stage = "WELL_KNOWN"]
           named(q) == [q EXCEPT !.stage = "METHOD", !.grove = q.seg, !.seg = NoSegment]
<1>4. known.msg = p.msg /\ Begun(known)
  BY <1>2 DEF Parsers, Begun
<1>5. \A q \in Parsers : named(q).msg = q.msg /\ Begun(named(q))
  BY DEF Parsers, Begun
<1>6. Begun(p) /\ Begun(s)
  BY <1>1, <1>3 DEF Begun
<1>7. NotFound(c) \/ Silent(c, known) \/ Silent(c, named(p)) \/ Silent(c, named(s)) \/ Silent(c, s)
  BY <1>1, <1>3 DEF GroveName
<1> HIDE DEF known, named
<1>8. CASE NotFound(c)
  BY <1>8, NotFoundLines
<1>9. CASE Silent(c, known)
  BY <1>1, <1>4, <1>6, <1>9, StepLines
<1>10. CASE Silent(c, named(p))
  BY <1>1, <1>2, <1>5, <1>6, <1>10, StepLines
<1>11. CASE Silent(c, named(s))
  BY <1>1, <1>3, <1>5, <1>6, <1>11, StepLines
<1>12. CASE Silent(c, s)
  BY <1>1, <1>3, <1>6, <1>12, StepLines
<1> QED
  BY <1>7, <1>8, <1>9, <1>10, <1>11, <1>12

LEMMA MethodLines ==
    ASSUME TypeInv, LineInv, Rounds, NEW c \in Channels, parser[c].stage = "METHOD", Method(c)
    PROVE  LineInv'
<1>1. PICK p, t, stop : p = parser[c] /\ t = Peek(c, 1) /\ stop = Peek(c, Skip(c)).tok
  OBVIOUS
<1>2. p \in Parsers
  BY <1>1, MsgIs
<1>3. PICK s \in Parsers : s = Store(p, t) /\ s.msg = p.msg /\ s.stage = p.stage
  BY <1>1, StoredMsg
<1> DEFINE named(q) == [q EXCEPT !.method = q.seg, !.seg = NoSegment,
                                 !.stage = IF stop = "/" THEN "PRE_ARGS" ELSE "CHECK_ARGS"]
<1>4. \A q \in Parsers : named(q).msg = q.msg /\ Begun(named(q))
  BY DEF Parsers, Begun
<1>5. Begun(p) /\ Begun(s)
  BY <1>1, <1>3 DEF Begun
<1>6. Silent(c, named(p)) \/ Silent(c, named(s)) \/ Silent(c, s)
  BY <1>1, <1>3 DEF Method
<1> HIDE DEF named
<1>7. CASE Silent(c, named(p))
  BY <1>1, <1>2, <1>4, <1>5, <1>7, StepLines
<1>8. CASE Silent(c, named(s))
  BY <1>1, <1>3, <1>4, <1>5, <1>8, StepLines
<1>9. CASE Silent(c, s)
  BY <1>1, <1>3, <1>5, <1>9, StepLines
<1> QED
  BY <1>6, <1>7, <1>8, <1>9

LEMMA CheckArgsLines ==
    ASSUME TypeInv, LineInv, Rounds, NEW c \in Channels, parser[c].stage \in {"CHECK_ARGS", "PRE_ARGS"},
           CheckArgs(c) \/ PreParseArgs(c)
    PROVE  LineInv'
<1>1. parser[c] \in Parsers /\ Begun(parser[c])
  BY MsgIs DEF Begun
<1> DEFINE q1 == [parser[c] EXCEPT !.stage = "CALL"]
           q2 == [parser[c] EXCEPT !.stage = "ARGS", !.seg = NoSegment]
<1>2. q1.msg = parser[c].msg /\ Begun(q1) /\ q2.msg = parser[c].msg /\ Begun(q2)
  BY <1>1 DEF Parsers, Begun
<1>3. NotFound(c) \/ Silent(c, q1) \/ Silent(c, q2)
  BY DEF CheckArgs, PreParseArgs
<1> HIDE DEF q1, q2
<1>4. CASE NotFound(c)
  BY <1>4, NotFoundLines
<1>5. CASE Silent(c, q1)
  BY <1>1, <1>2, <1>5, StepLines
<1>6. CASE Silent(c, q2)
  BY <1>1, <1>2, <1>6, StepLines
<1> QED
  BY <1>3, <1>4, <1>5, <1>6

LEMMA ParseArgsLines ==
    ASSUME TypeInv, LineInv, Rounds, NEW c \in Channels, parser[c].stage = "ARGS", ParseArgs(c)
    PROVE  LineInv'
<1>1. PICK t, s, long : t = Peek(c, 1) /\ s = Store(parser[c], t) /\ long = (t.tok = "long")
  OBVIOUS
<1>2. parser[c] \in Parsers /\ Begun(parser[c])
  BY MsgIs DEF Begun
<1>3. s \in Parsers /\ s.msg = parser[c].msg /\ s.stage = parser[c].stage
  BY <1>1, StoredMsg
<1>4. PICK p : p = IF long THEN s ELSE parser[c]
  OBVIOUS
<1>5. p \in Parsers /\ p.msg = parser[c].msg /\ p.stage = "ARGS"
  BY <1>2, <1>3, <1>4
<1>6. PICK given : given = IF long /\ Peek(c, Skip(c)).tok = "/" THEN p.args \o <<p.seg, p.seg>>
                                                             ELSE Append(p.args, p.seg)
  OBVIOUS
<1> DEFINE more == [p EXCEPT !.args = given, !.seg = NoSegment]
           call == [more EXCEPT !.stage = "CALL"]
           kept == Store(p, t)
<1>7. more.msg = parser[c].msg /\ Begun(more) /\ call.msg = parser[c].msg /\ Begun(call)
  BY <1>5 DEF Parsers, Begun
<1>8. ~long => kept.msg = parser[c].msg /\ Begun(kept)
  BY <1>1, <1>2, <1>3, <1>4 DEF Begun
<1>9. NotFound(c) \/ Silent(c, call) \/ Silent(c, more) \/ (~long /\ Silent(c, kept))
  BY <1>1, <1>4, <1>6 DEF ParseArgs
<1> HIDE DEF more, call, kept
<1>10. CASE NotFound(c)
  BY <1>10, NotFoundLines
<1>11. CASE Silent(c, call)
  BY <1>2, <1>7, <1>11, StepLines
<1>12. CASE Silent(c, more)
  BY <1>2, <1>7, <1>12, StepLines
<1>13. CASE ~long /\ Silent(c, kept)
  BY <1>2, <1>8, <1>13, StepLines
<1> QED
  BY <1>9, <1>10, <1>11, <1>12, <1>13

\* The rest of an answer is put, and the parser is back.
LEMMA AnswerLines ==
    ASSUME TypeInv, LineInv, Rounds, NEW c \in Channels, Begun(parser[c]),
           NEW p, p.msg = NoMsg, Answers(p),
           NEW parts, Parts(parts), parts[Len(parts)] = "close",
           NEW whole \in Seq(PartNames), whole = <<"open">> \o parts,
           NEW msg, msg = parser[c].msg, Reply(c, p, msg, parts, whole)
    PROVE  LineInv'
<1>1. msg \in Messages /\ msg[1] # "event" /\ msg # NoMsg
  BY MsgIs DEF Answers, Begun
<1>2. Says(msg, parts, whole, parser[c].msg, p.msg, {})
  BY <1>1 DEF Says
<1> QED
  BY <1>1, <1>2, ReplyLines

LEMMA ParseCallLines ==
    ASSUME TypeInv, LineInv, Rounds, NEW c \in Channels, parser[c].stage = "CALL", ParseCall(c)
    PROVE  LineInv'
<1>1. PICK p, msg : p = BackToReqType(parser[c]) /\ msg = parser[c].msg
  OBVIOUS
<1>2. p.msg = NoMsg /\ Answers(p) /\ Begun(parser[c])
  BY <1>1, BackAnswers DEF Begun
<1>3. PICK ok \in BOOLEAN :
        LET parts == IF ok THEN <<"body", "close">> ELSE <<"body", "status", "close">>
        IN  Reply(c, p, msg, parts, <<"open">> \o parts)
  BY <1>1 DEF ParseCall
<1>4. Event \in Seq(PartNames) /\ WholeAnswer \in Seq(PartNames)
  BY PartsAre DEF Parts
<1>5. CASE ok
  <2>1. Reply(c, p, msg, Short, Event)
    BY <1>3, <1>5, PartsAre DEF Short
  <2> QED
    BY <1>1, <1>2, <1>4, <2>1, PartsAre, AnswerLines
<1>6. CASE ~ok
  <2>1. Reply(c, p, msg, Answer, WholeAnswer)
    BY <1>3, <1>6, PartsAre DEF Answer
  <2> QED
    BY <1>1, <1>2, <1>4, <2>1, PartsAre, AnswerLines
<1> QED
  BY <1>5, <1>6

LEMMA PrintWellKnownLines ==
    ASSUME TypeInv, LineInv, Rounds, NEW c \in Channels, parser[c].stage = "WELL_KNOWN", PrintWellKnown(c)
    PROVE  LineInv'
<1>1. PICK p, msg : p = BackToReqType(parser[c]) /\ msg = parser[c].msg
  OBVIOUS
<1>2. p.msg = NoMsg /\ Answers(p) /\ Begun(parser[c])
  BY <1>1, BackAnswers DEF Begun
<1>3. Reply(c, p, msg, Short, Event)
  BY <1>1 DEF PrintWellKnown, Short
<1>4. Event \in Seq(PartNames)
  BY PartsAre DEF Parts
<1> QED
  BY <1>1, <1>2, <1>3, <1>4, PartsAre, AnswerLines

LEMMA GetAppNumLines ==
    ASSUME TypeInv, LineInv, Rounds, NEW c \in Channels, parser[c].stage = "APP_NUM", GetAppNum(c)
    PROVE  LineInv'
<1>1. PICK p, msg : p = [parser[c] EXCEPT !.stage = "REQ_TYPE", !.msg = NoMsg] /\ msg = parser[c].msg
  OBVIOUS
<1>2. p.msg = NoMsg /\ Answers(p) /\ Begun(parser[c])
  <2>1. parser[c] \in Parsers
    BY MsgIs
  <2> QED
    BY <1>1, <2>1 DEF Parsers, Answers, Begun
<1>3. Reply(c, p, msg, Short, Event)
  BY <1>1 DEF GetAppNum, Short
<1>4. Event \in Seq(PartNames)
  BY PartsAre DEF Parts
<1> QED
  BY <1>1, <1>2, <1>3, <1>4, PartsAre, AnswerLines

LEMMA DiveIntoOtaLines ==
    ASSUME TypeInv, LineInv, Rounds, NEW c \in Channels, parser[c].stage = "OTA", DiveIntoOta(c)
    PROVE  LineInv'
<1>1. PICK n : n = Len(hist.updates)
  OBVIOUS
<1>2. n \in Nat
  <2>1. hist.updates \in Seq([asked : BOOLEAN, on : Channels])
    BY DEF TypeInv, HistOK
  <2> QED
    BY <1>1, <2>1
<1>3. PICK msg : msg = <<"started", n>>
  OBVIOUS
<1>4. msg \in Messages /\ msg[1] # "event"
  <2>1. "started" \in {"none", "reply", "phantom", "event", "alive", "started"}
    OBVIOUS
  <2> QED
    BY <1>2, <1>3, <2>1 DEF Messages
<1>5. PICK w : w = PutAll("cmd", Unhurt("cmd"), msg, Event, Event)
  OBVIOUS
<1>6. PICK p, asked : /\ p = [parser[c] EXCEPT !.stage = "REQ_TYPE", !.phantom = FALSE]
                      /\ asked = [asked |-> ~parser[c].phantom, on |-> c]
  OBVIOUS
<1>7. /\ parser' = [parser EXCEPT ![c] = p] /\ out' = [out EXCEPT !["cmd"] = w.out]
      /\ hist' = [hist EXCEPT !.cut = @ \cup w.cut \cup Intruded("cmd"), !.updates = Append(@, asked)]
  BY <1>1, <1>3, <1>5, <1>6 DEF DiveIntoOta
<1>8. {"cut", "bad", "gone"} \subseteq DOMAIN hist
  BY DEF LineInv, LineTypes
<1>9. /\ hist'.cut = hist.cut \cup w.cut \cup Intruded("cmd") /\ hist'.bad = hist.bad
      /\ hist'.gone = hist.gone /\ {"cut", "bad", "gone"} \subseteq DOMAIN hist'
  BY <1>7, <1>8
<1>10. CutGrows /\ w.cut \subseteq hist'.cut
  BY <1>9 DEF CutGrows
<1>11. parser[c] \in Parsers /\ parser[c].msg = NoMsg
  BY MsgIs DEF Answers
<1>12. p.msg = parser[c].msg /\ Answers(p)
  BY <1>6, <1>11 DEF Parsers, Answers
<1>13. Answering' /\ parser'[c] = p /\ \A e \in Channels \ {c} : parser'[e].msg = parser[e].msg
  BY <1>7, <1>12, ParserNext
<1>14. "cmd" \in Channels /\ \A e \in Channels : parser'[e].msg = parser[e].msg
  BY <1>12, <1>13 DEF Channels
<1>15. parser["cmd"].msg \in hist'.cut \cup {NoMsg}
  BY <1>9 DEF Intruded
<1>16. Says(msg, Event, Event, parser["cmd"].msg, parser'["cmd"].msg, hist'.cut)
  BY <1>14, <1>15, PartsAre DEF Says, Parts
<1> QED
  BY <1>4, <1>5, <1>7, <1>9, <1>10, <1>13, <1>14, <1>16, MessageLines DEF Rounds

LEMMA RoundLines ==
    ASSUME TypeInv, LineInv, Rounds, NEW c \in Channels, Round(c)
    PROVE  LineInv'
<1>1. PICK at : at = parser[c].stage
  OBVIOUS
<1>2. \/ at = "REQ_TYPE" /\ ReqType(c)
      \/ at = "GROVE_NAME" /\ GroveName(c)
      \/ at = "METHOD" /\ Method(c)
      \/ at = "CHECK_ARGS" /\ CheckArgs(c)
      \/ at = "PRE_ARGS" /\ PreParseArgs(c)
      \/ at = "ARGS" /\ ParseArgs(c)
      \/ at = "CALL" /\ ParseCall(c)
      \/ at = "WELL_KNOWN" /\ PrintWellKnown(c)
      \/ at = "OTA" /\ DiveIntoOta(c)
      \/ at = "APP_NUM" /\ GetAppNum(c)
  BY <1>1 DEF Round
<1>3. CASE at = "REQ_TYPE" /\ ReqType(c)
  BY <1>1, <1>3, ReqTypeLines
<1>4. CASE at = "GROVE_NAME" /\ GroveName(c)
  BY <1>1, <1>4, GroveNameLines
<1>5. CASE at = "METHOD" /\ Method(c)
  BY <1>1, <1>5, MethodLines
<1>6. CASE (at = "CHECK_ARGS" /\ CheckArgs(c)) \/ (at = "PRE_ARGS" /\ PreParseArgs(c))
  BY <1>1, <1>6, CheckArgsLines
<1>7. CASE at = "ARGS" /\ ParseArgs(c)
  BY <1>1, <1>7, ParseArgsLines
<1>8. CASE at = "CALL" /\ ParseCall(c)
  BY <1>1, <1>8, ParseCallLines
<1>9. CASE at = "WELL_KNOWN" /\ PrintWellKnown(c)
  BY <1>1, <1>9, PrintWellKnownLines
<1>10. CASE at = "OTA" /\ DiveIntoOta(c)
  BY <1>1, <1>10, DiveIntoOtaLines
<1>11. CASE at = "APP_NUM" /\ GetAppNum(c)
  BY <1>1, <1>11, GetAppNumLines
<1> QED
  BY <1>2, <1>3, <1>4, <1>5, <1>6, <1>7, <1>8, <1>9, <1>10, <1>11

LEMMA ProcessStreamLines == \A c \in Channels : TypeInv /\ LineInv /\ ProcessStream(c) => LineInv'
<1> SUFFICES ASSUME NEW c \in Channels, TypeInv, LineInv, ProcessStream(c) PROVE LineInv'
  OBVIOUS
<1>1. Rounds
  BY DEF ProcessStream, Rounds
<1>2. Round(c) \/ UNCHANGED <<parser, out, hist>>
  BY DEF ProcessStream, Hang
<1>3. CASE UNCHANGED <<parser, out, hist>>
  BY <1>1, <1>3, AllSame, QuietLines DEF Rounds
<1> QED
  BY <1>1, <1>2, <1>3, RoundLines

LEMMA DeliverLines == \A c \in Channels : TypeInv /\ LineInv /\ Deliver(c) => LineInv'
<1> SUFFICES ASSUME NEW c \in Channels, TypeInv, LineInv, Deliver(c) PROVE LineInv'
  OBVIOUS
<1>1. UNCHANGED <<parser, queue, link, world, heard>>
  BY DEF Deliver
<1>2. CASE wire[c][1] = Ping
  <2>1. PICK n, parts : n = world.pings /\ parts = IF c = "data" THEN <<"close">> ELSE Event
    OBVIOUS
  <2>2. n \in Nat
    BY <2>1 DEF TypeInv
  <2>3. PICK msg : msg = <<"alive", n>>
    OBVIOUS
  <2>4. msg \in Messages /\ msg[1] # "event"
    <3>1. "alive" \in {"none", "reply", "phantom", "event", "alive", "started"}
      OBVIOUS
    <3> QED
      BY <2>2, <2>3, <3>1 DEF Messages
  <2>5. PICK w : w = PutAll(c, Unhurt(c), msg, parts, parts)
    OBVIOUS
  <2>6. /\ out' = [out EXCEPT ![c] = w.out]
        /\ hist' = [hist EXCEPT !.cut = @ \cup w.cut \cup Intruded(c)]
    BY <1>2, <2>1, <2>3, <2>5 DEF Deliver
  <2>7. {"cut", "bad", "gone"} \subseteq DOMAIN hist
    BY DEF LineInv, LineTypes
  <2>8. /\ hist'.cut = hist.cut \cup w.cut \cup Intruded(c) /\ hist'.bad = hist.bad
        /\ hist'.gone = hist.gone /\ {"cut", "bad", "gone"} \subseteq DOMAIN hist'
    BY <2>6, <2>7
  <2>9. CutGrows /\ w.cut \subseteq hist'.cut
    BY <2>8 DEF CutGrows
  <2>10. Answering'
    BY <1>1, AllSame DEF MsgsSame
  <2>11. parser[c].msg \in hist'.cut \cup {NoMsg}
    BY <2>8 DEF Intruded
  <2>12. Parts(parts) /\ parts[Len(parts)] = "close"
    BY <2>1, PartsAre
  <2>13. Says(msg, parts, parts, parser[c].msg, parser'[c].msg, hist'.cut)
    BY <1>1, <2>11, <2>12 DEF Says, Parts
  <2> QED
    BY <1>1, <2>4, <2>5, <2>6, <2>8, <2>9, <2>10, <2>13, MessageLines
<1>3. CASE wire[c][1] # Ping
  <2>1. out' = out /\ (hist' = hist \/ hist' = [hist EXCEPT !.hurt = hist.hurt \cup {c}])
    BY <1>3 DEF Deliver
  <2>2. HistSame
    BY <2>1, AllSame
  <2> QED
    BY <1>1, <2>1, <2>2, AllSame, QuietLines
<1> QED
  BY <1>2, <1>3

LEMMA InitLines == Init => LineInv
<1> SUFFICES ASSUME Init PROVE LineInv
  OBVIOUS
<1>1. PICK o, l, h : /\ o = [tx |-> <<>>, txing |-> FALSE, flight |-> <<>>]
                     /\ l = [status |-> "alive", up |-> TRUE, no |-> 1]
                     /\ h = [line |-> <<>>, replies |-> <<>>, events |-> <<>>]
  OBVIOUS
<1>2. /\ out = [c \in Channels |-> o] /\ link = [c \in Channels |-> l] /\ heard = [c \in Channels |-> h]
      /\ queue = <<>> /\ parser = [c \in Channels |-> NoRequest] /\ world.events = 0
      /\ hist.cut = {} /\ hist.bad = {} /\ hist.gone = {} /\ {"cut", "bad", "gone"} \subseteq DOMAIN hist
  BY <1>1 DEF Init
<1>3. \A S : <<>> \in Seq(S)
  OBVIOUS
<1>4. /\ o \in Outs /\ OutOK(o) /\ l \in Links
      /\ h \in [line : Seq(Piece), replies : Seq(Messages), events : Seq(Nat)]
  BY <1>1, <1>3 DEF Outs, OutOK, Links
<1>5. LineTypes
  BY <1>2, <1>3, <1>4 DEF LineTypes
<1>6. Answering
  BY <1>2 DEF Answering, NoRequest
<1>7. ASSUME NEW c \in Channels PROVE HeardOK(c, Ear(c), Sending(out[c]))
  <2>1. PICK e, s : e = Ear(c) /\ s = Sending(out[c])
    OBVIOUS
  <2>2. s = <<>> /\ e.line = <<>> /\ e.events = <<>> /\ e.bad = {} /\ e.line \o s = <<>> /\ e \in Hears
    <3>1. e.line = <<>> /\ e.events = <<>> /\ e.bad = {}
      BY <1>1, <1>2, <2>1 DEF Ear
    <3>2. s = <<>>
      BY <1>1, <1>2, <2>1 DEF Sending
    <3>3. e \in Hears
      BY <1>5, <2>1, EarIs
    <3> QED
      BY <3>1, <3>2, <3>3
  <2>3. Fresh(<<>>, 1) /\ LinesOK(<<>>, 1, {}) /\ OldCut(<<>>, 1, {})
    <3>1. Len(<<>>) = 0 /\ 1..0 = {}
      OBVIOUS
    <3> QED
      BY <3>1 DEF Fresh, LinesOK, OldCut
  <2>4. RestOK(<<>>, 1, {}, NoMsg)
    <3>1. \A j \in 1..Len(<<>>) + 1 : j = Len(<<>>) + 1
      OBVIOUS
    <3> QED
      BY <3>1 DEF RestOK, Unfinished
  <2>5. OrderOK(<<>>, <<>>, <<>>, 0) /\ \A no, gone, lost : KeptOK(<<>>, <<>>, no, <<>>, 0, gone, lost)
    <3>1. Len(<<>>) = 0 /\ 1..0 = {}
      OBVIOUS
    <3> QED
      BY <3>1 DEF OrderOK, KeptOK
  <2>6. link[c].no = 1 /\ parser[c].msg = NoMsg
    BY <1>1, <1>2 DEF NoRequest
  <2>7. WayOK(<<>>, 1, {}, NoMsg)
    BY <2>3, <2>4 DEF WayOK
  <2>8. HeardIs(c, e, s, 1, {}, NoMsg, <<>>, 0, {})
    BY <2>2, <2>3, <2>5, <2>7 DEF HeardIs
  <2> QED
    BY <1>2, <2>1, <2>6, <2>8 DEF HeardOK
<1> QED
  BY <1>5, <1>6, <1>7 DEF LineInv

LEMMA NextLines == TypeInv /\ LineInv /\ [Next]_vars => LineInv'
<1> SUFFICES ASSUME TypeInv, LineInv, [Next]_vars PROVE LineInv'
  OBVIOUS
<1>1. CASE UNCHANGED vars
  BY <1>1, StutterLines
<1>2. CASE MainLoop
  <2>1. \/ WioLoop \/ DrainEventQueue \/ OtaDisconnects
        \/ \E c \in Channels : ProcessStream(c)
    BY <1>2 DEF MainLoop
  <2> QED
    BY <2>1, WioLoopLines, DrainLines, OtaDisconnectsLines, ProcessStreamLines
<1>3. CASE OtaResponse \/ RebootFires \/ ReportEvent
  BY <1>3, OtaResponseLines, RebootLines, ReportLines
<1>4. ASSUME NEW c \in Channels, SendRequest(c) \/ SendPing(c) \/ Deliver(c) \/ DeliverPart(c)
      PROVE  LineInv'
  BY <1>4, SendRequestLines, SendPingLines, DeliverLines, DeliverPartLines
<1>5. ASSUME NEW c \in Channels,
             Sent(c) \/ ConnectionLost(c) \/ KeepaliveCheck(c) \/ Connected(c) \/ ConfirmHello(c)
      PROVE  LineInv'
  BY <1>5, SentLines, ConnectionLostLines, KeepaliveLines, ConnectedLines, ConfirmLines
<1> QED
  BY <1>1, <1>2, <1>3, <1>4, <1>5 DEF Next

\* What the server has of a line, what is on its way and what is buffered stay whole
\* messages but for those that were cut, and events stay in order.
THEOREM LinesInvariant == Spec => []LineInv
BY InitLines, NextLines, NodeTypes, PTL DEF Spec

\* Every line the server cannot use has a message in it that lost a piece to a full
\* buffer, that another message ran into, or that a connection's end took apart: for any
\* requests, any size of the buffers and any number of events, pings and losses
\* (network_puts, response_msg_open and response_msg_close).
THEOREM BrokenLines == Spec => []BrokenLinesExplained
BY LinesInvariant, LinesExplained, PTL

\* The events among them: none before one that was reported earlier.
LEMMA LinesOrdered == TypeInv /\ LineInv => EventsInOrder
<1> SUFFICES ASSUME TypeInv, LineInv PROVE EventsInOrder
  OBVIOUS
<1>1. PICK e, s, told, no, q, top, gone, lost :
        /\ e = Ear("data") /\ told = e.events /\ s = e.line \o Sending(out["data"]) /\ no = link["data"].no
        /\ q = queue /\ top = world.events /\ gone = hist.gone /\ lost = hist.cut \cup UNION e.bad
  OBVIOUS
<1>2. "data" \in Channels
  BY DEF Channels
<1>3. HeardOK("data", e, Sending(out["data"])) /\ told = heard["data"].events /\ e.bad = hist.bad
  BY <1>1, <1>2, EarIs DEF LineInv
<1>4. OrderOK(told, s, q, top) /\ KeptOK(told, s, no, q, top, gone, lost)
  BY <1>1, <1>3 DEF HeardOK, HeardIs
<1>5. told \in Seq(Nat) /\ s \in Seq(Piece) /\ q \in Seq(Nat) /\ top \in Nat
  <2>1. LineTypes
    BY DEF LineInv
  <2>2. e.line \in Seq(Piece) /\ Sending(out["data"]) \in Seq(Piece)
    BY <1>1, <1>2, <2>1, EarIs DEF Hears
  <2>3. told \in Seq(Nat)
    BY <1>1, <1>2, <2>1, EarIs DEF Hears
  <2>4. top \in Nat
    BY <1>1 DEF TypeInv
  <2> QED
    BY <1>1, <2>1, <2>2, <2>3, <2>4, Joins DEF LineTypes
<1>6. \A i, j \in DOMAIN told : i < j => told[i] < told[j]
  <2>1. DOMAIN told = 1..Len(told)
    BY <1>5
  <2> QED
    BY <1>4, <2>1 DEF OrderOK
<1>7. ASSUME told # <<>>, NEW n \in 1..told[Len(told)], \A i \in 1..Len(told) : told[i] # n
      PROVE  n \in gone \/ <<"event", n>> \in lost
  <2>1. Len(told) \in 1..Len(told) /\ told[Len(told)] \in Nat /\ n \in Nat /\ n < told[Len(told)]
    BY <1>5, <1>7
  <2>2. told[Len(told)] <= top
    BY <1>4, <2>1 DEF OrderOK
  <2>3. Somewhere(n, told, s, no, q, gone, lost)
    BY <1>4, <1>5, <2>1, <2>2 DEF KeptOK
  <2>4. ASSUME NEW k \in 1..Len(s), Tells(s, k), s[k].msg[2] = n PROVE FALSE
    BY <1>4, <2>1, <2>4 DEF OrderOK
  <2>5. ASSUME NEW j \in 1..Len(q), q[j] = n PROVE FALSE
    BY <1>4, <2>1, <2>5 DEF OrderOK
  <2> QED
    BY <1>7, <2>3, <2>4, <2>5 DEF Somewhere
<1>8. DOMAIN told = 1..Len(told) /\ Len(told) \in Nat
  BY <1>5
<1>9. \A n : n \in ToSet(told) <=> \E i \in 1..Len(told) : told[i] = n
  BY <1>8 DEF ToSet
<1>10. 1..0 = {}
  OBVIOUS
<1>11. \A n \in 1..(IF told = <<>> THEN 0 ELSE Last(told)) :
            n \notin ToSet(told) => n \in gone \/ <<"event", n>> \in lost
  BY <1>7, <1>9, <1>10 DEF Last
<1> QED
  BY <1>1, <1>3, <1>6, <1>11 DEF EventsInOrder

\* The server hears events in the order they were reported, each once, and misses one
\* only if a full queue, the end of a call of drain_event_queue or a cut line took it
\* (rpc_server_event_report, drain_event_queue).
THEOREM EventsHeard == Spec => []EventsInOrder
BY NodeTypes, LinesInvariant, LinesOrdered, PTL

-----------------------------------------------------------------------------
(* The ring buffers under rx and tx.  They are FIFOs, as NodeRpc takes     *)
(* them to be: for any capacity, any bytes and calls of any length,        *)
(* CircularBuffer implements ByteFifo.                                     *)

RingInv == TypeOK /\ Apart

\* An index and a length, taken around the end of the array once at most.
LEMMA Wrapped ==
    ASSUME NEW c \in Nat \ {0}, NEW a \in 0..(2 * c - 1)
    PROVE  a % c = IF a < c THEN a ELSE a - c
<1>1. CASE a < c
  BY <1>1
<1>2. CASE a >= c
  BY <1>2
<1> QED
  BY <1>1, <1>2

\* The k-th index from b on.
Place(b, k) == IF b + k < Capacity THEN b + k ELSE b + k - Capacity

Laid(d, b, s) == [k \in 1..s |-> d[(b + k - 1) % Capacity]]

\* With array d, first index b and size s the content is s bytes long, and its
\* byte k lies k places behind the first; the index s places behind is the end.
LEMMA Layout ==
    ASSUME NEW d \in [Indices -> Bytes], NEW b \in Indices, NEW s \in 0..Capacity
    PROVE  /\ Laid(d, b, s) \in Seq(Bytes) /\ Len(Laid(d, b, s)) = s
           /\ \A k \in 1..s : Laid(d, b, s)[k] = d[Place(b, k - 1)]
           /\ (b + s) % Capacity = Place(b, s)
<1>1. Capacity \in Nat \ {0} /\ b \in 0..(Capacity - 1) /\ d \in [0..(Capacity - 1) -> Bytes]
  BY CircularBufferAssumption DEF Indices
<1>2. ASSUME NEW k \in 0..s PROVE (b + k) % Capacity = Place(b, k)
  <2>1. b + k \in 0..(2 * Capacity - 1)
    BY <1>1
  <2>2. (b + k) % Capacity = IF b + k < Capacity THEN b + k ELSE b + k - Capacity
    <3>1. PICK a \in 0..(2 * Capacity - 1) : a = b + k
      BY <2>1
    <3>2. a % Capacity = IF a < Capacity THEN a ELSE a - Capacity
      BY <1>1, Wrapped
    <3> QED
      BY <1>1, <3>1, <3>2
  <2> QED
    BY <2>2 DEF Place
<1>3. ASSUME NEW k \in 1..s 
      PROVE  Laid(d, b, s)[k] = d[Place(b, k - 1)] /\ Laid(d, b, s)[k] \in Bytes
  <2>1. k - 1 \in 0..s /\ b + k - 1 = b + (k - 1)
    BY <1>1
  <2>2. Laid(d, b, s)[k] = d[(b + (k - 1)) % Capacity]
    BY <2>1 DEF Laid
  <2>3. Laid(d, b, s)[k] = d[Place(b, k - 1)]
    BY <1>2, <2>1, <2>2
  <2>4. Place(b, k - 1) \in 0..(Capacity - 1)
    BY <1>1, <2>1 DEF Place
  <2> QED
    BY <1>1, <2>3, <2>4
<1>4. Laid(d, b, s) \in [1..s -> Bytes]
  BY <1>3 DEF Laid
<1>5. Laid(d, b, s) \in Seq(Bytes) /\ Len(Laid(d, b, s)) = s
  BY <1>1, <1>4
<1>6. s \in 0..s
  BY <1>1
<1> QED
  BY <1>2, <1>3, <1>5, <1>6

\* The first n entries of a sequence, and those after them.
LEMMA Pieces ==
    ASSUME NEW S, NEW q \in Seq(S), NEW n \in 0..Len(q)
    PROVE  /\ SubSeq(q, 1, n) \in Seq(S) /\ Len(SubSeq(q, 1, n)) = n
           /\ \A k \in 1..n : SubSeq(q, 1, n)[k] = q[k]
           /\ SubSeq(q, n + 1, Len(q)) \in Seq(S)
           /\ Len(SubSeq(q, n + 1, Len(q))) = Len(q) - n
           /\ \A k \in 1..(Len(q) - n) : SubSeq(q, n + 1, Len(q))[k] = q[n + k]
OBVIOUS

\* Two sequences of one length and with the same entries are the same.
LEMMA SameEntries ==
    ASSUME NEW S, NEW p \in Seq(S), NEW q \in Seq(S), Len(p) = Len(q),
           \A k \in 1..Len(p) : p[k] = q[k]
    PROVE  p = q
OBVIOUS

\* The entries of two sequences one after the other.
LEMMA BytesJoined ==
    ASSUME NEW S, NEW p \in Seq(S), NEW q \in Seq(S)
    PROVE  /\ p \o q \in Seq(S) /\ Len(p \o q) = Len(p) + Len(q)
           /\ \A k \in 1..(Len(p) + Len(q)) :
                 (p \o q)[k] = IF k <= Len(p) THEN p[k] ELSE q[k - Len(p)]
OBVIOUS

\* What Write does to the array: the places behind the content take the bytes,
\* and the content stays as it is, though the bytes may go around the end.
LEMMA WriteDoes ==
    ASSUME RingInv, NEW bytes \in Seq(Bytes), Write(bytes),
           NEW n, n = Least(Len(bytes), Capacity - size)
    PROVE  /\ n \in 0..(Capacity - size) /\ n <= Len(bytes)
           /\ data' \in [Indices -> Bytes]
           /\ \A k \in 0..(size - 1) : data'[Place(beg, k)] = data[Place(beg, k)]
           /\ \A k \in 0..(n - 1) : data'[Place(beg, size + k)] = bytes[k + 1]
           /\ end' = Place(beg, size + n) /\ end' \in Indices
<1>1. /\ Capacity \in Nat \ {0} /\ beg \in 0..(Capacity - 1) /\ size \in 0..Capacity
      /\ end \in 0..(Capacity - 1) /\ data \in [0..(Capacity - 1) -> Bytes]
      /\ end = Place(beg, size)
  <2>1. end = (beg + size) % Capacity /\ TypeOK
    BY DEF RingInv, Apart
  <2>2. (beg + size) % Capacity = Place(beg, size)
    BY <2>1, Layout DEF TypeOK
  <2> QED
    BY <2>1, <2>2, CircularBufferAssumption DEF TypeOK, Indices
<1>2. n \in 0..(Capacity - size) /\ n <= Len(bytes) /\ Len(bytes) \in Nat
  BY <1>1 DEF Least
<1>3. CASE n <= Capacity - end
  <2>1. data' = Copied(data, end, bytes, n) /\ end' = Around(end + n)
    BY <1>3 DEF Write
  <2>2. ASSUME NEW i \in 0..(Capacity - 1)
        PROVE  /\ data'[i] = IF end <= i /\ i < end + n THEN bytes[i - end + 1] ELSE data[i]
               /\ data'[i] \in Bytes
    BY <1>1, <1>2, <2>1 DEF Copied, Indices
  <2>3. data' \in [Indices -> Bytes]
    BY <2>1, <2>2 DEF Copied, Indices
  <2>4. ASSUME NEW k \in 0..(size - 1) PROVE data'[Place(beg, k)] = data[Place(beg, k)]
    <3>1. /\ Place(beg, k) \in 0..(Capacity - 1)
          /\ ~(end <= Place(beg, k) /\ Place(beg, k) < end + n)
      BY <1>1, <1>2, <1>3 DEF Place
    <3> QED
      BY <2>2, <3>1
  <2>5. ASSUME NEW k \in 0..(n - 1) PROVE data'[Place(beg, size + k)] = bytes[k + 1]
    <3>1. Place(beg, size + k) = end + k /\ end + k \in 0..(Capacity - 1)
      <4>1. k \in Nat /\ k < n /\ end + k < Capacity
        BY <1>1, <1>2, <1>3
      <4> QED
        BY <1>1, <4>1 DEF Place
    <3>2. end <= end + k /\ end + k < end + n /\ (end + k) - end + 1 = k + 1
      BY <1>1, <1>2
    <3> QED
      BY <2>2, <3>1, <3>2
  <2>6. end' = Place(beg, size + n) /\ end' \in Indices
    <3>1. /\ end + n \in 0..Capacity /\ end' = IF end + n = Capacity THEN 0 ELSE end + n
          /\ beg + (size + n) = (beg + size) + n
      BY <1>1, <1>2, <1>3, <2>1 DEF Around
    <3>2. CASE beg + size < Capacity
      BY <1>1, <1>2, <3>1, <3>2 DEF Place, Indices
    <3>3. CASE ~(beg + size < Capacity)
      BY <1>1, <1>2, <3>1, <3>3 DEF Place, Indices
    <3> QED
      BY <3>2, <3>3
  <2> QED
    BY <1>2, <2>3, <2>4, <2>5, <2>6
<1>4. CASE ~(n <= Capacity - end)
  <2> DEFINE first == Capacity - end
  <2>1. /\ data' = Copied(Copied(data, end, bytes, first), 0, Rest(bytes, first, n), n - first)
        /\ end' = n - first
    BY <1>4 DEF Write
  <2>2. first \in 1..(n - 1) /\ first \in Nat
    BY <1>1, <1>2, <1>4
  <2>3. ASSUME NEW k \in 1..(n - first)
        PROVE  Rest(bytes, first, n)[k] = bytes[first + k] /\ first + k \in 1..Len(bytes)
    BY <1>2, <2>2 DEF Rest
  <2>4. ASSUME NEW i \in 0..(Capacity - 1)
        PROVE  /\ data'[i] = IF i < n - first THEN bytes[first + i + 1]
                             ELSE IF end <= i THEN bytes[i - end + 1] ELSE data[i]
               /\ data'[i] \in Bytes
    <3> DEFINE one == Copied(data, end, bytes, first)
               two == Copied(one, 0, Rest(bytes, first, n), n - first)
    <3>1. one[i] = IF end <= i /\ i < end + first THEN bytes[i - end + 1] ELSE data[i]
      BY DEF Copied, Indices
    <3>2. two[i] = IF 0 <= i /\ i < 0 + (n - first) THEN Rest(bytes, first, n)[i - 0 + 1] ELSE one[i]
      BY DEF Copied, Indices
    <3>3. end + first = Capacity /\ i < Capacity /\ 0 <= i /\ i - 0 + 1 = i + 1
          /\ 0 + (n - first) = n - first
      BY <1>1, <1>2, <2>2
    <3>4. data' = two
      BY <2>1
    <3>5. /\ i < n - first => two[i] = Rest(bytes, first, n)[i + 1]
          /\ ~(i < n - first) => two[i] = one[i]
      BY <3>2, <3>3
    <3>6. one[i] = IF end <= i THEN bytes[i - end + 1] ELSE data[i]
      BY <3>1, <3>3
    <3> HIDE DEF one, two
    <3>7. data'[i] = IF i < n - first THEN Rest(bytes, first, n)[i + 1]
                     ELSE IF end <= i THEN bytes[i - end + 1] ELSE data[i]
      BY <3>4, <3>5, <3>6
    <3>8. CASE i < n - first
      <4>1. i + 1 \in 1..(n - first)
        <5>1. i \in Nat /\ n \in Nat /\ first \in Nat
          BY <1>2, <2>2
        <5> QED
          BY <3>8, <5>1
      <4>2. Rest(bytes, first, n)[i + 1] = bytes[first + (i + 1)]
            /\ bytes[first + (i + 1)] \in Bytes
        BY <2>3, <4>1
      <4>3. first + (i + 1) = first + i + 1
        BY <1>1
      <4> QED
        BY <3>7, <3>8, <4>2, <4>3
    <3>9. CASE ~(i < n - first)
      <4>1. end <= i => i - end + 1 \in 1..Len(bytes)
        <5>1. Capacity - end < n /\ n <= Len(bytes) /\ Len(bytes) \in Nat /\ n \in Nat
          BY <1>1, <1>2, <1>4
        <5> QED
          BY <1>1, <5>1
      <4> QED
        BY <1>1, <3>7, <3>9, <4>1
    <3> QED
      BY <3>8, <3>9
  <2>5. data' \in [Indices -> Bytes]
    BY <2>1, <2>4 DEF Copied, Indices
  <2>6. ASSUME NEW k \in 0..(size - 1) PROVE data'[Place(beg, k)] = data[Place(beg, k)]
    <3>1. /\ Place(beg, k) \in 0..(Capacity - 1)
          /\ ~(Place(beg, k) < n - first) /\ ~(end <= Place(beg, k))
      BY <1>1, <1>2, <1>4 DEF Place
    <3> QED
      BY <2>4, <3>1
  <2>7. ASSUME NEW k \in 0..(n - 1) PROVE data'[Place(beg, size + k)] = bytes[k + 1]
    <3>1. CASE k < first
      <4>1. Place(beg, size + k) = end + k /\ end + k \in 0..(Capacity - 1)
        BY <1>1, <1>2, <3>1 DEF Place
      <4>2. ~(end + k < n - first) /\ end <= end + k /\ (end + k) - end + 1 = k + 1
        BY <1>1, <1>2, <1>4
      <4> QED
        BY <2>4, <4>1, <4>2
    <3>2. CASE ~(k < first)
      <4>1. Place(beg, size + k) = k - first /\ k - first \in 0..(Capacity - 1)
        BY <1>1, <1>2, <1>4, <3>2 DEF Place
      <4>2. k - first < n - first /\ first + (k - first) + 1 = k + 1
        BY <1>1, <1>2, <3>2
      <4> QED
        BY <2>4, <4>1, <4>2
    <3> QED
      BY <3>1, <3>2
  <2>8. end' = Place(beg, size + n) /\ end' \in Indices
    BY <1>1, <1>2, <1>4, <2>1 DEF Place, Indices
  <2> QED
    BY <1>2, <2>5, <2>6, <2>7, <2>8
<1> QED
  BY <1>3, <1>4

\* A write is the FIFO's.
LEMMA WriteKeeps ==
    ASSUME RingInv, NEW bytes \in Seq(Bytes), Write(bytes)
    PROVE  RingInv' /\ Fifo!Write(bytes)
<1> DEFINE n == Least(Len(bytes), Capacity - size)
<1>1. /\ beg' = beg /\ size' = size + n
      /\ result' = [given |-> bytes, read |-> <<>>, count |-> n]
  BY DEF Write
<1> HIDE DEF n
<1>2. /\ n \in 0..(Capacity - size) /\ n <= Len(bytes)
      /\ data' \in [Indices -> Bytes]
      /\ \A k \in 0..(size - 1) : data'[Place(beg, k)] = data[Place(beg, k)]
      /\ \A k \in 0..(n - 1) : data'[Place(beg, size + k)] = bytes[k + 1]
      /\ end' = Place(beg, size + n) /\ end' \in Indices
  BY WriteDoes DEF n
<1>3. /\ Capacity \in Nat \ {0} /\ beg \in Indices /\ size \in 0..Capacity
      /\ data \in [Indices -> Bytes]
  BY CircularBufferAssumption DEF RingInv, TypeOK
<1>4. n \in Nat /\ size + n \in 0..Capacity /\ Len(bytes) \in Nat
  BY <1>2, <1>3
<1>5. /\ Content \in Seq(Bytes) /\ Len(Content) = size
      /\ \A k \in 1..size : Content[k] = data[Place(beg, k - 1)]
  <2>1. Content = Laid(data, beg, size)
    BY DEF Content, Laid
  <2> QED
    BY <1>3, <2>1, Layout
<1>6. /\ Content' \in Seq(Bytes) /\ Len(Content') = size + n
      /\ \A k \in 1..(size + n) : Content'[k] = data'[Place(beg, k - 1)]
      /\ (beg + (size + n)) % Capacity = Place(beg, size + n)
  <2>1. Content' = Laid(data', beg, size + n)
    BY <1>1 DEF Content, Laid
  <2>2. data' \in [Indices -> Bytes] /\ beg \in Indices /\ size + n \in 0..Capacity
    BY <1>2, <1>3, <1>4
  <2>3. /\ Laid(data', beg, size + n) \in Seq(Bytes) /\ Len(Laid(data', beg, size + n)) = size + n
        /\ \A k \in 1..(size + n) : Laid(data', beg, size + n)[k] = data'[Place(beg, k - 1)]
        /\ (beg + (size + n)) % Capacity = Place(beg, size + n)
    BY <2>2, Layout
  <2> QED
    BY <2>1, <2>3
<1>7. RingInv'
  <2>1. result'.given \in Seq(Bytes) /\ result'.read \in Seq(Bytes) /\ result'.count \in 0..Capacity
    BY <1>1, <1>2, <1>3
  <2>2. TypeOK'
    BY <1>1, <1>2, <1>3, <1>4, <2>1 DEF TypeOK
  <2>3. Apart'
    BY <1>1, <1>2, <1>6 DEF Apart
  <2> QED
    BY <2>2, <2>3 DEF RingInv
<1>8. Content' = Content \o SubSeq(bytes, 1, n)
  <2> DEFINE added == SubSeq(bytes, 1, n)
  <2>1. /\ added \in Seq(Bytes) /\ Len(added) = n
        /\ \A k \in 1..n : added[k] = bytes[k]
    <3>1. n \in 0..Len(bytes)
      BY <1>2, <1>4
    <3> QED
      BY <3>1, Pieces
  <2> HIDE DEF added
  <2>2. /\ Content \o added \in Seq(Bytes) /\ Len(Content \o added) = size + n
        /\ \A k \in 1..(size + n) :
              (Content \o added)[k] = IF k <= size THEN Content[k] ELSE added[k - size]
    BY <1>5, <2>1, BytesJoined
  <2>3. ASSUME NEW k \in 1..(size + n) PROVE Content'[k] = (Content \o added)[k]
    <3>1. CASE k <= size
      <4>1. k \in 1..size /\ k - 1 \in 0..(size - 1)
        BY <1>3, <1>4, <3>1
      <4> QED
        BY <1>2, <1>5, <1>6, <2>2, <3>1, <4>1
    <3>2. CASE ~(k <= size)
      <4> DEFINE j == k - size
      <4>1. j \in 1..n /\ j - 1 \in 0..(n - 1) /\ k - 1 = size + (j - 1) /\ (j - 1) + 1 = j
        BY <1>3, <1>4, <3>2
      <4>2. Content'[k] = data'[Place(beg, size + (j - 1))]
        BY <1>6, <4>1
      <4>3. data'[Place(beg, size + (j - 1))] = bytes[j]
        BY <1>2, <4>1
      <4>4. (Content \o added)[k] = added[j]
        BY <2>2, <3>2
      <4> QED
        BY <2>1, <4>1, <4>2, <4>3, <4>4
    <3> QED
      BY <3>1, <3>2
  <2>4. Content' = Content \o added
    BY <1>6, <2>2, <2>3, SameEntries
  <2> QED
    BY <2>4 DEF added
<1>9. n = Fifo!Least(Len(bytes), Capacity - Len(Content))
  BY <1>5 DEF n, Least, Fifo!Least
<1> QED
  BY <1>1, <1>7, <1>8, <1>9 DEF Fifo!Write

\* What Read hands out: the first bytes of the content, though they may go
\* around the end of the array.
LEMMA ReadDoes ==
    ASSUME RingInv, NEW bytes \in Nat, Read(bytes), NEW n, n = Least(bytes, size)
    PROVE  /\ n \in 0..size /\ beg' = Place(beg, n) /\ beg' \in Indices
           /\ result'.read \in Seq(Bytes) /\ Len(result'.read) = n
           /\ \A k \in 1..n : result'.read[k] = data[Place(beg, k - 1)]
<1>1. /\ Capacity \in Nat \ {0} /\ beg \in 0..(Capacity - 1) /\ size \in 0..Capacity
      /\ data \in [0..(Capacity - 1) -> Bytes]
  BY CircularBufferAssumption DEF RingInv, TypeOK, Indices
<1>2. n \in 0..size /\ n \in Nat
  BY <1>1 DEF Least
<1>3. ASSUME NEW at \in 0..(Capacity - 1), NEW m \in 0..(Capacity - at)
      PROVE  /\ Taken(at, m) \in Seq(Bytes) /\ Len(Taken(at, m)) = m
             /\ \A k \in 1..m : Taken(at, m)[k] = data[at + k - 1]
  <2>1. \A k \in 1..m : at + k - 1 \in 0..(Capacity - 1)
    BY <1>1
  <2>2. Taken(at, m) \in [1..m -> Bytes] /\ m \in Nat
    BY <1>1, <2>1 DEF Taken
  <2> QED
    BY <2>2 DEF Taken
<1>4. CASE n <= Capacity - beg
  <2>1. result'.read = Taken(beg, n) /\ beg' = Around(beg + n)
    BY <1>4 DEF Read
  <2>2. n \in 0..(Capacity - beg)
    BY <1>1, <1>2, <1>4
  <2>3. /\ Taken(beg, n) \in Seq(Bytes) /\ Len(Taken(beg, n)) = n
        /\ \A k \in 1..n : Taken(beg, n)[k] = data[beg + k - 1]
    BY <1>1, <1>3, <2>2
  <2>4. \A k \in 1..n : Place(beg, k - 1) = beg + k - 1
    BY <1>1, <1>2, <1>4 DEF Place
  <2>5. beg' = Place(beg, n) /\ beg' \in Indices
    BY <1>1, <1>2, <1>4, <2>1 DEF Place, Around, Indices
  <2> QED
    BY <1>2, <2>1, <2>3, <2>4, <2>5
<1>5. CASE ~(n <= Capacity - beg)
  <2> DEFINE first == Capacity - beg
             second == n - first
  <2>1. result'.read = Taken(beg, first) \o Taken(0, second) /\ beg' = second
    BY <1>5 DEF Read
  <2>2. first \in 0..(Capacity - beg) /\ second \in 0..(Capacity - 0) /\ 0 \in 0..(Capacity - 1)
    BY <1>1, <1>2, <1>5
  <2>3. /\ Taken(beg, first) \in Seq(Bytes) /\ Len(Taken(beg, first)) = first
        /\ \A k \in 1..first : Taken(beg, first)[k] = data[beg + k - 1]
    BY <1>1, <1>3, <2>2
  <2>4. /\ Taken(0, second) \in Seq(Bytes) /\ Len(Taken(0, second)) = second
        /\ \A k \in 1..second : Taken(0, second)[k] = data[0 + k - 1]
    BY <1>3, <2>2
  <2>5. /\ result'.read \in Seq(Bytes) /\ Len(result'.read) = first + second
        /\ \A k \in 1..(first + second) :
              result'.read[k] = IF k <= first THEN Taken(beg, first)[k]
                                ELSE Taken(0, second)[k - first]
    BY <2>1, <2>3, <2>4, BytesJoined
  <2>6. ASSUME NEW k \in 1..n PROVE result'.read[k] = data[Place(beg, k - 1)]
    <3>1. CASE k <= first
      <4>1. k \in 1..first /\ k \in 1..(first + second) /\ Place(beg, k - 1) = beg + k - 1
        BY <1>1, <1>2, <3>1 DEF Place
      <4> QED
        BY <2>3, <2>5, <3>1, <4>1
    <3>2. CASE ~(k <= first)
      <4>1. /\ k - first \in 1..second /\ k \in 1..(first + second)
            /\ Place(beg, k - 1) = 0 + (k - first) - 1
        BY <1>1, <1>2, <1>5, <3>2 DEF Place
      <4>2. result'.read[k] = Taken(0, second)[k - first]
        BY <2>5, <3>2, <4>1
      <4>3. Taken(0, second)[k - first] = data[0 + (k - first) - 1]
        BY <2>4, <4>1
      <4> QED
        BY <4>1, <4>2, <4>3
    <3> QED
      BY <3>1, <3>2
  <2>7. first + second = n
    BY <1>1, <1>2
  <2>8. beg' = Place(beg, n) /\ beg' \in Indices
    BY <1>1, <1>2, <1>5, <2>1 DEF Place, Indices
  <2> QED
    BY <1>2, <2>5, <2>6, <2>7, <2>8
<1> QED
  BY <1>4, <1>5

\* A read is the FIFO's.
LEMMA ReadKeeps ==
    ASSUME RingInv, NEW bytes \in Nat, Read(bytes)
    PROVE  RingInv' /\ Fifo!Read(bytes)
<1> DEFINE n == Least(bytes, size)
<1>1. /\ UNCHANGED <<data, end>> /\ size' = size - n
      /\ result' = [given |-> <<>>, read |-> result'.read, count |-> n]
  BY DEF Read
<1> HIDE DEF n
<1>2. /\ n \in 0..size /\ beg' = Place(beg, n) /\ beg' \in Indices
      /\ result'.read \in Seq(Bytes) /\ Len(result'.read) = n
      /\ \A k \in 1..n : result'.read[k] = data[Place(beg, k - 1)]
  BY ReadDoes DEF n
<1>3. /\ Capacity \in Nat \ {0} /\ beg \in Indices /\ size \in 0..Capacity
      /\ data \in [Indices -> Bytes] /\ end \in Indices /\ beg \in Nat
      /\ end = (beg + size) % Capacity
  BY CircularBufferAssumption DEF RingInv, TypeOK, Apart, Indices
<1>4. n \in Nat /\ size - n \in 0..Capacity
  BY <1>2, <1>3
<1>5. /\ Content \in Seq(Bytes) /\ Len(Content) = size
      /\ \A k \in 1..size : Content[k] = data[Place(beg, k - 1)]
      /\ end = Place(beg, size)
  <2>1. Content = Laid(data, beg, size)
    BY DEF Content, Laid
  <2>2. data \in [Indices -> Bytes] /\ beg \in Indices /\ size \in 0..Capacity
    BY <1>3
  <2>3. /\ Laid(data, beg, size) \in Seq(Bytes) /\ Len(Laid(data, beg, size)) = size
        /\ \A k \in 1..size : Laid(data, beg, size)[k] = data[Place(beg, k - 1)]
        /\ (beg + size) % Capacity = Place(beg, size)
    BY <2>2, Layout
  <2> QED
    BY <1>3, <2>1, <2>3
<1>6. /\ Content' \in Seq(Bytes) /\ Len(Content') = size - n
      /\ \A k \in 1..(size - n) : Content'[k] = data[Place(beg', k - 1)]
      /\ (beg' + (size - n)) % Capacity = Place(beg', size - n)
  <2>1. Content' = Laid(data, beg', size - n)
    BY <1>1 DEF Content, Laid
  <2>2. data \in [Indices -> Bytes] /\ beg' \in Indices /\ size - n \in 0..Capacity
    BY <1>2, <1>3, <1>4
  <2>3. /\ Laid(data, beg', size - n) \in Seq(Bytes) /\ Len(Laid(data, beg', size - n)) = size - n
        /\ \A k \in 1..(size - n) : Laid(data, beg', size - n)[k] = data[Place(beg', k - 1)]
        /\ (beg' + (size - n)) % Capacity = Place(beg', size - n)
    BY <2>2, Layout
  <2> QED
    BY <2>1, <2>3
<1>7. \A k \in 0..(size - n) : Place(beg', k) = Place(beg, n + k)
  BY <1>2, <1>3, <1>4 DEF Place, Indices
<1>8. RingInv'
  <2>1. result'.given \in Seq(Bytes) /\ result'.read \in Seq(Bytes) /\ result'.count \in 0..Capacity
    <3>1. result'.given = <<>> /\ result'.count = n
      BY <1>1
    <3> QED
      BY <1>2, <1>3, <3>1
  <2>2. TypeOK'
    BY <1>1, <1>2, <1>3, <1>4, <2>1 DEF TypeOK
  <2>3. Place(beg', size - n) = Place(beg, size)
    <3>1. size - n \in 0..(size - n) /\ n + (size - n) = size
      BY <1>2, <1>3
    <3> QED
      BY <1>7, <3>1
  <2>4. Apart'
    BY <1>1, <1>5, <1>6, <2>3 DEF Apart
  <2> QED
    BY <2>2, <2>4 DEF RingInv
<1>9. /\ SubSeq(Content, 1, n) \in Seq(Bytes) /\ Len(SubSeq(Content, 1, n)) = n
      /\ \A k \in 1..n : SubSeq(Content, 1, n)[k] = Content[k]
      /\ SubSeq(Content, n + 1, size) \in Seq(Bytes)
      /\ Len(SubSeq(Content, n + 1, size)) = size - n
      /\ \A k \in 1..(size - n) : SubSeq(Content, n + 1, size)[k] = Content[n + k]
  BY <1>2, <1>5, Pieces
<1>10. result'.read = SubSeq(Content, 1, n)
  <2>1. \A k \in 1..n : result'.read[k] = SubSeq(Content, 1, n)[k]
    <3>1. \A k \in 1..n : k \in 1..size
      BY <1>2, <1>3, <1>4
    <3> QED
      BY <1>2, <1>5, <1>9, <3>1
  <2> QED
    BY <1>2, <1>9, <2>1, SameEntries
<1>11. Content' = SubSeq(Content, n + 1, size)
  <2>1. ASSUME NEW k \in 1..(size - n)
        PROVE  Content'[k] = SubSeq(Content, n + 1, size)[k]
    <3>1. /\ k - 1 \in 0..(size - n) /\ n + k \in 1..size /\ n + (k - 1) = (n + k) - 1
      BY <1>2, <1>3, <1>4
    <3>2. Place(beg', k - 1) = Place(beg, (n + k) - 1)
      BY <1>7, <3>1
    <3>3. Content[n + k] = data[Place(beg, (n + k) - 1)]
      BY <1>5, <3>1
    <3> QED
      BY <1>6, <1>9, <3>2, <3>3
  <2> QED
    BY <1>6, <1>9, <2>1, SameEntries
<1>12. n = Fifo!Least(bytes, Len(Content))
  BY <1>5 DEF n, Least, Fifo!Least
<1> QED
  BY <1>1, <1>5, <1>8, <1>10, <1>11, <1>12 DEF Fifo!Read

\* A call keeps the indices the size apart, and is the FIFO's call.
THEOREM RingKeeps ==
    ASSUME RingInv, [BufferNext]_ring PROVE RingInv' /\ [Fifo!Next]_<<Content, result>>
<1>1. CASE UNCHANGED ring
  BY <1>1 DEF RingInv, TypeOK, Apart, Content, ring
<1>2. ASSUME NEW n \in 0..Longest, NEW bytes \in [1..n -> Bytes], Write(bytes)
      PROVE  RingInv' /\ [Fifo!Next]_<<Content, result>>
  <2>1. bytes \in Seq(Bytes)
    BY CircularBufferAssumption
  <2> QED
    BY <1>2, <2>1, WriteKeeps DEF Fifo!Next
<1>3. ASSUME NEW n \in 0..Longest, Read(n)
      PROVE  RingInv' /\ [Fifo!Next]_<<Content, result>>
  <2>1. n \in Nat
    BY CircularBufferAssumption
  <2> QED
    BY <1>3, <2>1, ReadKeeps DEF Fifo!Next
<1> QED
  BY <1>1, <1>2, <1>3 DEF BufferNext

\* An empty buffer is the empty FIFO, whatever its array holds.
LEMMA RingInitKeeps ==
    ASSUME BufferInit PROVE RingInv /\ Fifo!Init
<1>1. Capacity \in Nat \ {0} /\ 0 \in 0..(Capacity - 1) /\ 0 % Capacity = 0
  BY CircularBufferAssumption
<1>2. RingInv
  BY <1>1 DEF BufferInit, RingInv, TypeOK, Apart, Indices
<1>3. Content = <<>>
  BY DEF BufferInit, Content
<1> QED
  BY <1>2, <1>3 DEF BufferInit, Fifo!Init

\* The indices stay inside the array and the size apart.
THEOREM RingInvariant == BufferSpec => []RingInv
<1>1. RingInv /\ [BufferNext]_ring => RingInv'
  BY RingKeeps
<1> QED
  BY <1>1, RingInitKeeps, PTL DEF BufferSpec

\* CircularBuffer::write and read are those of a FIFO: every call takes or hands
\* out the bytes the FIFO would, in their order, wherever in the array they lie.
THEOREM BufferIsFifo == BufferSpec => IsFifo
<1>1. BufferInit => Fifo!Init
  BY RingInitKeeps
<1>2. RingInv /\ [BufferNext]_ring => [Fifo!Next]_<<Content, result>>
  BY RingKeeps
<1> QED
  BY <1>1, <1>2, RingInvariant, PTL DEF BufferSpec, IsFifo, Fifo!Spec
=============================================================================
