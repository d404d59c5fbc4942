-------------------------------- MODULE Steps --------------------------------
(* A loop: the state after n turns.                                        *)
EXTENDS Naturals

\* Step(s, t) for t = 1..n.  (A set of one element has TLC evaluate each turn before the next.)
Repeat(n, Step(_, _), start) ==
    LET after[t \in 0..n] ==
            IF t = 0 THEN start
            ELSE CHOOSE next \in {Step(now, t) : now \in {after[t - 1]}} : TRUE
    IN  after[n]
=============================================================================
