------------------------------ MODULE NodeConfig ------------------------------
(***************************************************************************)
(* What a node keeps over a reset: the sector of flash with its            *)
(* configuration and the copy of it in RAM (eeprom.cpp), the station       *)
(* configuration the SDK keeps, and the firmware; and who writes them: the *)
(* boot (user_main.cpp, network_setup), configuration messages over UDP or *)
(* serial (parse_config_message), the button, updates (ota.cpp), the       *)
(* report of their result, and the server's dataxserver command.           *)
(*                                                                         *)
(* A commit erases the sector and writes it again; it is cut in steps, and *)
(* between any two of them, as anywhere else, the node can be reset.       *)
(*                                                                         *)
(* The value of a field is the number of the message it came from.         *)
(***************************************************************************)
EXTENDS Naturals, SequencesExt

CONSTANTS
    Plans,     \* bounds on what the world does: see world
    Messages,  \* configuration messages: the requests their text holds, well formed
               \* or not, and how many of the fields can be extracted
    Lists      \* sizes of the lists of access points a scan can find

Requests == <<"Node?", "Blank?", "REBOOT", "VERSION", "SCAN", "APCFG", "AP", "ENDEBUG", "DEBUG">>

ASSUME ConfigAssumption ==
    /\ Plans \subseteq [resets : Nat, failures : Nat, messages : Nat, updates : Nat,
                        servers : Nat, presses : Nat, user : BOOLEAN]
    /\ Messages \subseteq [words : SUBSET ToSet(Requests), good : 0..6]
    /\ Lists \subseteq Nat

VARIABLES
    flash,    \* the sector of EEPROM
    ram,      \* EEPROM._data
    station,  \* the SDK's station configuration
    mode,     \* what the main loop is doing
    saving,   \* EEPROM.commit under way, and what its caller does next
    reboot,   \* restarts that a timer or a delay is about to make
    fw,       \* the firmware that runs and the one in the other bank
    scan,     \* the scan for access points and the list of them being sent
    world,    \* what is left of the plan
    hist      \* what the server and the users were told, and what went wrong

config == <<flash, ram, station>>
vars == <<config, mode, saving, reboot, fw, scan, world, hist>>

\* The fields in the order of their addresses.
Sector == <<"key", "sn", "flag", "ssid", "password", "result", "data", "ota", "debug">>
Names == ToSet(Sector)
Erased == 255
Blank == [f \in Names |-> Erased]

\* The fields of APCFG in their order in the message; AP has the first two.
Fields == <<"ssid", "password", "key", "sn", "data", "ota">>
Wanted == 9

Put(r, names, v) == [f \in Names |-> IF f \in names THEN v ELSE r[f]]
NotSaving == [step |-> "no", then |-> "none", no |-> 0]
SaveFor(then, n) == saving' = [step |-> "erase", then |-> then, no |-> n]
Save(then) == SaveFor(then, 0)

Off == 2
NoScan == [want |-> FALSE, source |-> 0, can |-> TRUE, busy |-> FALSE, found |-> 0,
           list |-> <<>>, timer |-> Off, sent |-> 0, told |-> <<<<>>, <<>>>>]

\* A node that has been configured before, or is new.
Init ==
    /\ \E v \in {0, Erased} :
        /\ flash = [Put(Blank, Names, v) EXCEPT !.flag = v, !.result = v]
        /\ ram = flash
        /\ station = [ssid |-> v, password |-> v]
    /\ mode = "off" /\ saving = NotSaving /\ reboot = {}
    /\ fw = [run |-> 0, other |-> 0]
    /\ scan = NoScan
    /\ world \in Plans
    /\ hist = [sent |-> 0, updates |-> 0, good |-> {}, told |-> <<>>, short |-> FALSE,
               partial |-> FALSE, mixed |-> FALSE, torn |-> FALSE, failed |-> FALSE,
               preempted |-> {}, early |-> FALSE, stuck |-> FALSE]

-----------------------------------------------------------------------------
(* EEPROM.commit.  getDataPtr marks the copy dirty, so it always writes.    *)

Saving(step) == saving.step = step

Erase ==
    /\ Saving("erase")
    /\ \/ flash' = Blank /\ saving' = [saving EXCEPT !.step = "write"] /\ UNCHANGED <<world, hist>>
       \/ /\ world.failures > 0
          /\ world' = [world EXCEPT !.failures = @ - 1]
          /\ hist' = [hist EXCEPT !.failed = TRUE]
          /\ saving' = [saving EXCEPT !.step = "done"]
          /\ UNCHANGED flash
    /\ UNCHANGED <<ram, station, mode, reboot, fw, scan>>

Write ==
    /\ Saving("write")
    /\ \/ flash' = ram /\ UNCHANGED <<world, hist>>
       \/ /\ world.failures > 0
          /\ world' = [world EXCEPT !.failures = @ - 1]
          /\ hist' = [hist EXCEPT !.failed = TRUE]
          /\ UNCHANGED flash
    /\ saving' = [saving EXCEPT !.step = "done"]
    /\ UNCHANGED <<ram, station, mode, reboot, fw, scan>>

\* No caller looks at what commit returns.
Committed(then) == Saving("done") /\ saving.then = then /\ saving' = NotSaving

\* A commit whose caller goes on to do nothing else the model sees.
CommitDone ==
    /\ \/ Committed("listen") /\ mode' = "config"
       \/ Committed("cleared") /\ mode' = "normal"
    /\ UNCHANGED <<config, reboot, fw, scan, world, hist>>

-----------------------------------------------------------------------------
(* Boot.                                                                    *)

\* Mutant: the flag that leads to configuration mode stays.
FlagStays(f) == IF f = 1 THEN 1 ELSE 0

\* The configuration flag after a boot that found f.
FlagAfter(f) == IF f = 1 THEN 2 ELSE 0

\* network_setup, with network_config_mode or network_normal_mode up to the commit.
NetworkSetup ==
    /\ mode \in {"off", "crashed"}
    /\ CASE flash.flag = 1 ->
                /\ ram' = [flash EXCEPT !.flag = FlagAfter(@)] /\ Save("listen")
                /\ mode' = "boot" /\ UNCHANGED station
         [] flash.flag >= 2 ->
                /\ ram' = [flash EXCEPT !.flag = FlagAfter(@)] /\ Save("cleared")
                /\ station' = (IF flash.flag = 3 THEN [ssid |-> flash.ssid, password |-> flash.password]
                                                 ELSE station)
                /\ mode' = "boot"
         [] OTHER ->
                ram' = flash /\ mode' = "normal" /\ UNCHANGED <<station, saving>>
    /\ UNCHANGED <<flash, reboot, fw, scan, world, hist>>

\* wio_setup after a crash, with the button held.
Failsafe ==
    /\ mode = "crashed"
    /\ mode' = "off"
    /\ fw' = [run |-> fw.other, other |-> fw.run]
    /\ hist' = [hist EXCEPT !.preempted = @ \cup {fw.run}]
    /\ UNCHANGED <<config, saving, reboot, scan, world>>

\* A success whose restart into the new firmware has not come yet.
Unstarted == IF "upgrade" \in reboot \/ saving.then = "upgrade" THEN {hist.updates} ELSE {}

\* Everything in RAM is gone.
Down(how, run) ==
    /\ mode' = how /\ saving' = NotSaving /\ reboot' = {} /\ scan' = NoScan
    /\ hist' = [hist EXCEPT !.partial = FALSE,
                            !.preempted = @ \cup (Unstarted \ {run}),
                            !.torn = @ \/ Saving("write")]

\* Mutant: the restart after a download is a plain one.
PlainRestart ==
    /\ Saving("no") /\ reboot # {}
    /\ Down("off", hist.updates)
    /\ UNCHANGED <<config, fw, world>>

\* fire_reboot and timer_reboot_proc.
Restart ==
    /\ Saving("no")
    /\ \/ /\ "restart" \in reboot
          /\ Down("off", Erased) /\ UNCHANGED fw
       \/ /\ "upgrade" \in reboot
          /\ fw' = [run |-> fw.other, other |-> fw.run]
          /\ Down("off", hist.updates)
    /\ UNCHANGED <<config, world>>

\* The power fails or the node crashes; what was being written is in flash up to
\* some address.
Reset ==
    /\ mode \notin {"off", "crashed"} /\ world.resets > 0
    /\ world' = [world EXCEPT !.resets = @ - 1]
    /\ \E how \in {"off", "crashed"} : Down(how, Erased)
    /\ IF Saving("write")
       THEN \E k \in {0, 1, 3, 6, Len(Sector)} :
                flash' = Put(ram, ToSet(SubSeq(Sector, k + 1, Len(Sector))), Erased)
       ELSE UNCHANGED flash
    /\ UNCHANGED <<ram, station, fw>>

-----------------------------------------------------------------------------
(* Configuration mode.                                                      *)

Listening == mode = "config" /\ Saving("no")

\* The request a message is taken for: the first one, in this order, whose word is
\* anywhere in its text.
Allowed(w) ==
    \/ w \in {"Node?", "DEBUG"}
    \/ ram.flag = 2 /\ (w = "SCAN" => scan.can)

TakenFor(words) ==
    LET i == SelectInSeq(Requests, LAMBDA w : w \in words /\ Allowed(w))
    IN  IF i = 0 THEN "none" ELSE Requests[i]

\* An answer: by UDP each piece of it is followed by udp_sent_cb.
Answer(source, n) == scan' = [scan EXCEPT !.sent = @ + (IF source = 0 THEN n ELSE 0)]

\* Mutant: a message in bad format is saved as far as it could be extracted.
StoreBadFormat(source, v, fields, good) ==
    /\ ram' = [Put(ram, ToSet(SubSeq(fields, 1, good)), v) EXCEPT !.flag = 3]
    /\ Save(IF source = 0 THEN "accepted" ELSE "accepted_serial")
    /\ hist' = [hist EXCEPT !.mixed = @ \/ hist.partial]
    /\ UNCHANGED scan

\* A message with fields: those that can be extracted are stored one by one, and
\* only if all could, the flag is set and the sector saved.
Store(source, v, fields, good) ==
    LET stored == Put(ram, ToSet(SubSeq(fields, 1, good)), v)
    IN  IF good < Len(fields)
        THEN /\ ram' = stored
             /\ hist' = [hist EXCEPT !.partial = @ \/ good > 0]
             /\ UNCHANGED <<saving, scan>>
        ELSE /\ ram' = [stored EXCEPT !.flag = 3]
             /\ Save(IF source = 0 THEN "accepted" ELSE "accepted_serial")
             /\ hist' = [hist EXCEPT !.mixed = @ \/ hist.partial]
             /\ UNCHANGED scan

\* parse_config_message of a message whose fields have the value v.
Parse(source, msg, v) ==
    LET is == TakenFor(msg.words)
        quiet == UNCHANGED <<ram, saving, hist>>
        least(n) == IF msg.good < n THEN msg.good ELSE n
    IN  /\ CASE is \in {"Node?", "Blank?"} -> Answer(source, 1) /\ quiet
             [] is \in {"VERSION", "DEBUG"} -> Answer(source, 2) /\ quiet
             [] is = "SCAN"    -> scan' = [scan EXCEPT !.want = TRUE, !.source = source] /\ quiet
             [] is = "APCFG"   -> Store(source, v, Fields, msg.good)
             [] is = "AP"      -> Store(source, v, SubSeq(Fields, 1, 2), least(2))
             [] is = "ENDEBUG" -> Store(source, v, <<"debug">>, least(1))
             [] OTHER          -> UNCHANGED scan /\ quiet
        /\ reboot' = (IF is = "REBOOT" THEN reboot \cup {"restart"} ELSE reboot)

\* A message by UDP, udp_recv_cb, or on the serial line, network_config_mode.
Message ==
    /\ Listening /\ world.messages > 0
    /\ world' = [world EXCEPT !.messages = @ - 1]
    /\ \E source \in {0, 1}, msg \in Messages : Parse(source, msg, world.messages)
    /\ UNCHANGED <<flash, station, mode, fw>>

Configured == ToSet(Fields) \ {"data"}

\* The node runs with what the user sent it.
Served ==
    /\ mode = "normal" /\ Saving("no") /\ reboot = {} /\ ram.flag = 0
    /\ station = [ssid |-> Wanted, password |-> Wanted]
    /\ \A f \in Configured : ram[f] = Wanted

\* The user sends the configuration until the node is served.
UserConfigures ==
    /\ Listening /\ world.user /\ ram.flag = 2
    /\ \E source \in {0, 1} : Parse(source, [words |-> {"APCFG"}, good |-> 6], Wanted)
    /\ UNCHANGED <<flash, station, mode, fw, world>>

\* The answer to an accepted message, and its timer.
Accepted ==
    /\ \/ Committed("accepted") /\ Answer(0, 3)
       \/ Committed("accepted_serial") /\ Answer(1, 3)
    /\ reboot' = reboot \cup {"restart"}
    /\ UNCHANGED <<config, mode, fw, world, hist>>

\* Mutant: another scan may be asked for while one is under way.
StartScanAgain ==
    /\ Listening /\ scan.want
    /\ scan' = [scan EXCEPT !.want = FALSE, !.busy = TRUE]
    /\ UNCHANGED <<config, mode, saving, reboot, fw, world, hist>>

\* network_config_mode starts the scan that is wanted.
StartScan ==
    /\ Listening /\ scan.want
    /\ scan' = [scan EXCEPT !.want = FALSE, !.can = FALSE, !.busy = TRUE]
    /\ UNCHANGED <<config, mode, saving, reboot, fw, world, hist>>

\* ap_scan_done: the list replaces one that is still being sent.
ApScanDone ==
    /\ Listening /\ scan.busy
    /\ \/ /\ \E n \in Lists :
             scan' = IF n = 0 THEN [scan EXCEPT !.busy = FALSE, !.can = TRUE]
                     ELSE [scan EXCEPT !.busy = FALSE, !.found = @ + 1, !.timer = scan.source,
                                       !.list = [i \in 1..n |-> <<scan.found + 1, i, n>>]]
          /\ UNCHANGED hist
       \/ scan' = [scan EXCEPT !.busy = FALSE] /\ hist' = [hist EXCEPT !.stuck = TRUE]
    /\ UNCHANGED <<config, mode, saving, reboot, fw, world>>

\* What a requester is sent up to an empty line is a list as it was found.
Whole(t) ==
    /\ t # <<>> /\ Len(t) = t[1][3]
    /\ \A i \in DOMAIN t : t[i] = <<t[1][1], i, t[1][3]>>

\* send_ap_item
SendApItem ==
    LET s == scan.timer
    IN  /\ Listening /\ s # Off
        /\ scan' = [scan EXCEPT
                !.sent = @ + (IF s = 0 THEN 1 ELSE 0),
                !.told[s + 1] = IF scan.list = <<>> THEN <<>> ELSE Append(@, Head(scan.list)),
                !.list = IF scan.list = <<>> THEN <<>> ELSE Tail(@),
                !.timer = IF scan.list = <<>> THEN Off ELSE @,
                !.can = @ \/ scan.list = <<>>]
        /\ hist' = [hist EXCEPT !.short = @ \/ (scan.list = <<>> /\ ~Whole(scan.told[s + 1]))]
        /\ UNCHANGED <<config, mode, saving, reboot, fw, world>>

\* udp_sent_cb: during a scan it takes any answer for an item of the list.
UdpSent ==
    /\ Listening /\ scan.sent > 0
    /\ scan' = [scan EXCEPT !.sent = @ - 1, !.timer = IF scan.can THEN @ ELSE 0]
    /\ hist' = [hist EXCEPT !.early = @ \/ (~scan.can /\ scan.timer # 0)]
    /\ UNCHANGED <<config, mode, saving, reboot, fw, world>>

-----------------------------------------------------------------------------
(* Normal mode.                                                             *)

Running == mode = "normal" /\ Saving("no")

\* The node has the key that goes with its serial number.
Known == ram.key = ram.sn /\ ram.key # Erased

\* wio_loop with the button held for 2.5 s.
ButtonHeld ==
    /\ Running
    /\ ram' = [ram EXCEPT !.flag = 1]
    /\ Save("button")
    /\ UNCHANGED <<flash, station, mode, reboot, fw, scan, hist>>

UserPresses == world.user /\ ~Served /\ ButtonHeld /\ UNCHANGED world

SomebodyPresses ==
    /\ world.presses > 0 /\ ButtonHeld
    /\ world' = [world EXCEPT !.presses = @ - 1]

\* __plugin_setting_dataxserver, the server's command to move the node.
MoveServer ==
    /\ Running /\ Known /\ world.servers > 0
    /\ world' = [world EXCEPT !.servers = @ - 1]
    /\ ram' = [ram EXCEPT !.data = Wanted + 1]
    /\ Save("server")
    /\ UNCHANGED <<flash, station, mode, reboot, fw, scan, hist>>

\* After either, the main loop stays in the delays of the restart.
RestartsSoon ==
    /\ Committed("button") \/ Committed("server")
    /\ mode' = "stalled" /\ reboot' = reboot \cup {"restart"}
    /\ UNCHANGED <<config, fw, scan, world, hist>>

\* ota_start; the SDK refuses while a downloaded firmware waits for its restart.
OtaStart ==
    /\ Running /\ Known /\ world.updates > 0
    /\ world' = [world EXCEPT !.updates = @ - 1]
    /\ IF "upgrade" \in reboot THEN mode' = "stalled" /\ UNCHANGED hist
       ELSE mode' = "updating" /\ hist' = [hist EXCEPT !.updates = @ + 1]
    /\ UNCHANGED <<config, saving, reboot, fw, scan>>

\* ota_response
OtaResponse ==
    /\ mode = "updating" /\ Saving("no")
    /\ \E ok \in BOOLEAN :
        /\ Save(IF ok THEN "upgrade" ELSE "failed")
        /\ fw' = (IF ok THEN [fw EXCEPT !.other = hist.updates] ELSE fw)
        /\ hist' = (IF ok THEN [hist EXCEPT !.good = @ \cup {hist.updates}] ELSE hist)
    /\ ram' = [ram EXCEPT !.result = hist.updates]
    /\ UNCHANGED <<flash, station, mode, reboot, scan, world>>

OtaFinishes ==
    /\ \/ Committed("upgrade") /\ reboot' = reboot \cup {"upgrade"}
       \/ Committed("failed") /\ reboot' = reboot \cup {"restart"}
    /\ mode' = "normal"
    /\ UNCHANGED <<config, fw, scan, world, hist>>

\* connection_confirm_hello of the OTA channel: the result is cleared, then sent.
ConfirmHello ==
    /\ mode \in {"normal", "stalled"} /\ Saving("no") /\ Known
    /\ ram.result \notin {0, Erased}
    /\ ram' = [ram EXCEPT !.result = 0]
    /\ SaveFor("report", ram.result)
    /\ UNCHANGED <<flash, station, mode, reboot, fw, scan, world, hist>>

Told(n) == [no |-> n, ok |-> n \in hist.good, runs |-> fw.run = n \/ "upgrade" \in reboot]

ResultSent ==
    /\ Committed("report")
    /\ hist' = [hist EXCEPT !.told = Append(@, Told(saving.no))]
    /\ UNCHANGED <<config, mode, reboot, fw, scan, world>>

-----------------------------------------------------------------------------
NodeSteps ==
    \/ Erase \/ Write \/ CommitDone \/ NetworkSetup \/ Accepted \/ StartScan
    \/ RestartsSoon \/ OtaFinishes \/ ResultSent

Next ==
    \/ NodeSteps \/ Failsafe \/ Restart \/ Reset
    \/ Message \/ UserConfigures \/ ApScanDone \/ SendApItem \/ UdpSent
    \/ UserPresses \/ SomebodyPresses \/ MoveServer \/ OtaStart \/ OtaResponse \/ ConfirmHello

Spec == Init /\ [][Next]_vars

\* The node's own steps, timers and callbacks come, the SDK ends a download and a
\* scan, and the user does not give up.
Fairness ==
    /\ WF_vars(NodeSteps) /\ WF_vars(Restart)
    /\ WF_vars(ApScanDone) /\ WF_vars(SendApItem) /\ WF_vars(UdpSent)
    /\ WF_vars(OtaResponse) /\ WF_vars(UserPresses) /\ WF_vars(UserConfigures)

FairSpec == Spec /\ Fairness

-----------------------------------------------------------------------------
(* Properties.                                                             *)

\* What belongs together in flash came together: an access point's name and
\* password, a key and its serial number, the serial number and its server, unless a
\* message in bad format left a part of itself in RAM for a later one to save, or a
\* reset cut the write of the sector short (parse_config_message, EEPROM.commit).
StoredTogether ==
    \A pair \in {<<"ssid", "password">>, <<"key", "sn">>, <<"sn", "ota">>} :
        flash[pair[1]] # flash[pair[2]] => hist.mixed \/ hist.torn

\* The result of an update is told once, unless a sector could not be erased; and
\* when a success is told, the new firmware runs or is about to, unless a reset came
\* before its restart, or the failsafe went back (ota.cpp 60-85, network.cpp 839-854).
ResultsTold ==
    /\ \A i, j \in DOMAIN hist.told :
        i # j /\ hist.told[i].no = hist.told[j].no => hist.failed
    /\ \A t \in ToSet(hist.told) :
        t.ok /\ ~t.runs => t.no \in hist.preempted \/ hist.failed

\* A list of access points that is sent to its end is one that was found, unless the
\* answer to another request was taken for an item of it (udp_sent_cb).
ListsWhole == hist.short => hist.early

\* A user who holds the button and sends the configuration again until it works comes
\* to a node that runs with it, whatever resets and failures came before; and a scan
\* ends, unless the SDK reports that it failed (ap_scan_done then leaves can_scan).
UserServed ==
    /\ world.user ~> [](Served)
    /\ ~scan.can ~> (scan.can \/ mode # "config" \/ hist.stuck)
=============================================================================
