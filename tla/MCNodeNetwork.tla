---------------------------- MODULE MCNodeNetwork ----------------------------
(* One server runs and either channel may fail; or both run and one fails.  *)
(* The servers' names are left out where a failure of the data channel      *)
(* meets an OTA channel that runs: one of the two largest state spaces.     *)
EXTENDS NodeNetwork

MCWorlds ==
    [up : {{data}, {ota}}, named : BOOLEAN, failing : {Channels}]
        \cup [up : {Channels}, named : BOOLEAN, failing : {{ota}}]
        \cup [up : {Channels}, named : {FALSE}, failing : {{data}}]
=============================================================================
