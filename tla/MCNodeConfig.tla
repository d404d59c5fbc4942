----------------------------- MODULE MCNodeConfig -----------------------------
\* Plans that bring the disturbances together two or three at a time.
EXTENDS NodeConfig

Plan(resets, failures, messages, updates, servers, presses, user) ==
    [resets |-> resets, failures |-> failures, messages |-> messages, updates |-> updates,
     servers |-> servers, presses |-> presses, user |-> user]

APlans == {Plan(1, 1, 1, 0, 0, 1, TRUE), Plan(0, 0, 3, 0, 0, 1, FALSE), Plan(2, 1, 0, 2, 1, 1, FALSE),
           Plan(1, 0, 0, 1, 1, 0, TRUE)}

Msg(words, good) == [words |-> words, good |-> good]
AMessages == {Msg({w}, 0) : w \in {"Node?", "Blank?", "REBOOT", "VERSION", "SCAN", "DEBUG"}}
    \cup {Msg({"APCFG"}, n) : n \in {0, 1, 3, 6}} \cup {Msg({"AP"}, n) : n \in {1, 2}}
    \cup {Msg({"ENDEBUG", "DEBUG"}, n) : n \in {0, 1}} \cup {Msg({"APCFG", "SCAN"}, 6)}
=============================================================================
