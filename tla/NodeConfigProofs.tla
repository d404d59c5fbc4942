--------------------------- MODULE NodeConfigProofs ---------------------------
(***************************************************************************)
(* Proofs about NodeConfig, for any plan of the world, any messages and    *)
(* any lists of access points.  Each property has an inductive invariant   *)
(* of its own beside the shared one of the commit under way: what is in    *)
(* RAM and will be saved, where the result of an update still is, and how  *)
(* far a list of access points has been sent.                              *)
(***************************************************************************)
EXTENDS NodeConfig, SequenceTheorems, TLAPS

Modes == {"off", "crashed", "boot", "config", "normal", "stalled", "updating"}
Down2 == {"off", "crashed"}
Steps == {"no", "erase", "write", "done"}
Nexts == {"none", "listen", "cleared", "accepted", "accepted_serial", "button",
          "server", "upgrade", "failed", "report"}

Saves == [step : Steps, then : Nexts, no : Nat]
Worlds == [resets : Nat, failures : Nat, messages : Nat, updates : Nat, servers : Nat,
           presses : Nat, user : BOOLEAN]
Hists == [sent : Nat, updates : Nat, good : SUBSET Nat,
          told : Seq([no : Nat, ok : BOOLEAN, runs : BOOLEAN]), short : BOOLEAN,
          partial : BOOLEAN, mixed : BOOLEAN, torn : BOOLEAN, failed : BOOLEAN,
          preempted : SUBSET Nat, early : BOOLEAN, stuck : BOOLEAN]

\* The types of what the commit, its callers and the firmware are about.
TypeOK ==
    /\ flash \in [Names -> Nat] /\ ram \in [Names -> Nat]
    /\ station \in [ssid : Nat, password : Nat]
    /\ mode \in Modes /\ saving \in Saves
    /\ reboot \subseteq {"restart", "upgrade"}
    /\ fw \in [run : Nat, other : Nat]
    /\ world \in Worlds /\ hist \in Hists

\* The commit under way: whose it is, and what is in flash at each of its steps.
CommitOK ==
    /\ saving.step = "no" <=> saving.then = "none"
    /\ mode \in Down2 => saving.step = "no" /\ reboot = {} /\ ~hist.partial
    /\ hist.partial => mode = "config" /\ (saving.step = "no" \/ hist.mixed)
    /\ saving.then \in {"listen", "cleared"} => mode = "boot"
    /\ saving.then \in {"accepted", "accepted_serial"} => mode = "config"
    /\ saving.then \in {"button", "server"} => mode = "normal"
    /\ saving.then \in {"upgrade", "failed"} => mode = "updating"
    /\ saving.then = "report" => mode \in {"normal", "stalled"}
    /\ saving.step = "write" => flash = Blank
    /\ saving.step = "done" => hist.failed \/ flash = ram

Fits(r) == r["ssid"] = r["password"] /\ r["key"] = r["sn"] /\ r["sn"] = r["ota"]

\* What is stored together came together, in flash and in what will be saved.
FitsInv ==
    \/ hist.mixed \/ hist.torn
    \/ /\ Fits(flash)
       /\ mode \notin Down2 /\ ~hist.partial => Fits(ram)

-----------------------------------------------------------------------------
(* The fields.                                                             *)

LEMMA NamesAre ==
    Names = {"key", "sn", "flag", "ssid", "password", "result", "data", "ota", "debug"}
BY DEF Names, Sector, ToSet

LEMMA FieldsAre ==
    /\ Len(Fields) = 6 /\ Fields \in Seq(Names)
    /\ ToSet(Fields) = {"ssid", "password", "key", "sn", "data", "ota"}
    /\ Len(SubSeq(Fields, 1, 2)) = 2 /\ SubSeq(Fields, 1, 2) \in Seq(Names)
    /\ ToSet(SubSeq(Fields, 1, 2)) = {"ssid", "password"}
<1>1. Len(Fields) = 6 /\ Fields \in Seq(Names)
  <2>1. Len(Fields) = 6 /\ DOMAIN Fields = 1..6
    BY DEF Fields
  <2>2. \A i \in 1..6 : Fields[i] \in Names
    BY NamesAre DEF Fields
  <2>3. Fields = [i \in 1..6 |-> Fields[i]]
    BY <2>1 DEF Fields
  <2> QED
    BY <2>1, <2>2, <2>3
<1>2. ToSet(Fields) = {"ssid", "password", "key", "sn", "data", "ota"}
  BY DEF Fields, ToSet
<1>3. SubSeq(Fields, 1, 2) \in Seq(Names) /\ Len(SubSeq(Fields, 1, 2)) = 2
  BY <1>1
<1>4. SubSeq(Fields, 1, 2)[1] = "ssid" /\ SubSeq(Fields, 1, 2)[2] = "password"
  BY <1>1 DEF Fields
<1>5. ToSet(SubSeq(Fields, 1, 2)) = {"ssid", "password"}
  <2>1. DOMAIN SubSeq(Fields, 1, 2) = {1, 2}
    BY <1>3
  <2> QED
    BY <1>4, <2>1 DEF ToSet
<1> QED
  BY <1>1, <1>2, <1>3, <1>5

\* The first n fields of a message are some of its fields, none of them if n is 0.
LEMMA FirstFields ==
    ASSUME NEW s \in Seq(Names), NEW n \in 0..Len(s)
    PROVE  /\ ToSet(SubSeq(s, 1, n)) \subseteq ToSet(s)
           /\ n = 0 => ToSet(SubSeq(s, 1, n)) = {}
           /\ n = Len(s) => ToSet(SubSeq(s, 1, n)) = ToSet(s)
<1>1. DOMAIN SubSeq(s, 1, n) = 1..n /\ \A i \in 1..n : SubSeq(s, 1, n)[i] = s[i]
  OBVIOUS
<1>2. DOMAIN s = 1..Len(s)
  OBVIOUS
<1>3. ToSet(SubSeq(s, 1, n)) = {s[i] : i \in 1..n}
  BY <1>1 DEF ToSet
<1>4. ToSet(s) = {s[i] : i \in 1..Len(s)}
  BY <1>2 DEF ToSet
<1>5. 1..n \subseteq 1..Len(s) /\ (n = 0 => 1..n = {})
  OBVIOUS
<1> QED
  BY <1>3, <1>4, <1>5

LEMMA PutFields ==
    ASSUME NEW r \in [Names -> Nat], NEW names, NEW v \in Nat
    PROVE  /\ Put(r, names, v) \in [Names -> Nat]
           /\ \A f \in Names : Put(r, names, v)[f] = IF f \in names THEN v ELSE r[f]
           /\ names = {} => Put(r, names, v) = r
BY DEF Put


\* The fields that go in whole when a message is accepted.
Sets == {ToSet(Fields), {"ssid", "password"}, {"debug"}}

\* Some of the fields of a message are in RAM, or all are and the commit is asked for.
StoredPart(v) == \E names \in SUBSET (Names \ {"result", "flag"}), more \in BOOLEAN :
    /\ more \/ names = {}
    /\ ram' = Put(ram, names, v)
    /\ hist' = [hist EXCEPT !.partial = @ \/ more]
    /\ UNCHANGED saving

StoredAll(v) == \E names \in Sets, then \in {"accepted", "accepted_serial"} :
    /\ ram' = [Put(ram, names, v) EXCEPT !.flag = 3]
    /\ saving' = [step |-> "erase", then |-> then, no |-> 0]
    /\ hist' = [hist EXCEPT !.mixed = @ \/ hist.partial]

\* What Store does with a message of these fields, of which good can be extracted.
LEMMA StoreStores ==
    ASSUME NEW source, NEW v \in Nat, NEW s \in Seq(Names), NEW good \in 0..Len(s),
           ToSet(s) \in Sets, Store(source, v, s, good)
    PROVE  UNCHANGED scan /\ (StoredPart(v) \/ StoredAll(v))
<1> DEFINE names == ToSet(SubSeq(s, 1, good))
<1>1. ToSet(s) \subseteq Names \ {"result", "flag"}
  BY NamesAre, FieldsAre DEF Sets
<1>2. names \subseteq ToSet(s) /\ (good = 0 => names = {}) /\ (good = Len(s) => names = ToSet(s))
  BY FirstFields
<1>3. CASE good < Len(s)
  <2>1. /\ ram' = Put(ram, names, v) /\ hist' = [hist EXCEPT !.partial = @ \/ good > 0]
        /\ UNCHANGED <<saving, scan>>
    BY <1>3 DEF Store
  <2>2. (good > 0) \in BOOLEAN /\ (good > 0 \/ names = {})
    BY <1>2
  <2>3. names \in SUBSET (Names \ {"result", "flag"})
    BY <1>1, <1>2
  <2> HIDE DEF names
  <2>4. StoredPart(v)
    BY <2>1, <2>2, <2>3 DEF StoredPart
  <2> QED
    BY <2>1, <2>4
<1>4. CASE good = Len(s)
  <2>1. PICK then \in {"accepted", "accepted_serial"} :
            /\ ram' = [Put(ram, names, v) EXCEPT !.flag = 3]
            /\ saving' = [step |-> "erase", then |-> then, no |-> 0]
            /\ hist' = [hist EXCEPT !.mixed = @ \/ hist.partial]
            /\ UNCHANGED scan
    <3>1. /\ ram' = [Put(ram, names, v) EXCEPT !.flag = 3]
          /\ Save(IF source = 0 THEN "accepted" ELSE "accepted_serial")
          /\ hist' = [hist EXCEPT !.mixed = @ \/ hist.partial]
          /\ UNCHANGED scan
      <4>1. ~(good < Len(s))
        BY <1>4
      <4> HIDE DEF Save
      <4> QED
        BY <4>1 DEF Store
    <3> QED
      BY <3>1 DEF Save, SaveFor
  <2>2. names \in Sets
    BY <1>2, <1>4
  <2> HIDE DEF names
  <2>3. StoredAll(v)
    BY <2>1, <2>2 DEF StoredAll
  <2> QED
    BY <2>1, <2>3
<1> QED
  BY <1>3, <1>4

\* The messages there can be.
Texts == [words : SUBSET ToSet(Requests), good : 0..6]

\* What a message does: nothing to the configuration, or what Store does.
LEMMA ParseStores ==
    ASSUME NEW source, NEW v \in Nat, NEW msg \in Texts, Parse(source, msg, v)
    PROVE  /\ \/ UNCHANGED <<ram, saving, hist>>
              \/ UNCHANGED scan /\ (StoredPart(v) \/ StoredAll(v))
           /\ reboot' \in {reboot, reboot \cup {"restart"}}
<1> DEFINE is == TakenFor(msg.words)
           two == SubSeq(Fields, 1, 2)
           Least(n) == IF msg.good < n THEN msg.good ELSE n
<1> msg.good \in 0..6
  BY DEF Texts
<1>1. reboot' \in {reboot, reboot \cup {"restart"}}
  BY DEF Parse
<1>2. CASE is = "APCFG"
  <2>1. Store(source, v, Fields, msg.good)
    BY <1>2 DEF Parse
  <2>2. ToSet(Fields) \in Sets
    BY DEF Sets
  <2> QED
    BY <1>1, <2>1, <2>2, FieldsAre, StoreStores
<1>3. CASE is = "AP"
  <2>1. Store(source, v, two, Least(2))
    BY <1>3 DEF Parse
  <2>2. ToSet(two) \in Sets /\ Least(2) \in 0..Len(two) /\ two \in Seq(Names)
    BY FieldsAre DEF Sets
  <2> HIDE DEF two, Least
  <2> QED
    BY <1>1, <2>1, <2>2, StoreStores
<1>4. CASE is = "ENDEBUG"
  <2> DEFINE one == <<"debug">>
  <2>1. Store(source, v, one, Least(1))
    BY <1>4 DEF Parse
  <2>2. one \in Seq(Names) /\ Len(one) = 1 /\ ToSet(one) = {"debug"}
    BY NamesAre DEF ToSet
  <2>3. ToSet(one) \in Sets /\ Least(1) \in 0..Len(one)
    BY <2>2 DEF Sets
  <2> HIDE DEF one, Least
  <2> QED
    BY <1>1, <2>1, <2>2, <2>3, StoreStores
<1>5. CASE is \notin {"APCFG", "AP", "ENDEBUG"}
  <2>1. UNCHANGED <<ram, saving, hist>>
    BY <1>5 DEF Parse
  <2> QED
    BY <1>1, <2>1
<1> QED
  BY <1>2, <1>3, <1>4, <1>5


-----------------------------------------------------------------------------
(* Types, and the commit under way.                                        *)

LEMMA TypesAtFirst == Init => TypeOK /\ CommitOK
<1> SUFFICES ASSUME Init PROVE TypeOK /\ CommitOK
  OBVIOUS
<1>1. TypeOK
  <2> USE DEF Init, Erased
  <2>1. flash \in [Names -> Nat] /\ ram \in [Names -> Nat]
    <3>1. PICK v \in {0, Erased} :
            /\ flash = [Put(Blank, Names, v) EXCEPT !.flag = v, !.result = v]
            /\ ram = flash
      OBVIOUS
    <3>2. Put(Blank, Names, v) \in [Names -> Nat]
      BY DEF Put
    <3>3. v \in Nat
      BY <3>1
    <3> QED
      BY <3>1, <3>2, <3>3
  <2>2. station \in [ssid : Nat, password : Nat] /\ mode \in Modes
        /\ reboot \subseteq {"restart", "upgrade"} /\ fw \in [run : Nat, other : Nat]
    BY DEF Modes
  <2>3. saving \in Saves
    BY DEF Saves, NotSaving, Steps, Nexts
  <2>4. world \in Worlds
    BY ConfigAssumption DEF Worlds
  <2>5. hist \in Hists
    BY DEF Hists
  <2> QED
    BY <2>1, <2>2, <2>3, <2>4, <2>5 DEF TypeOK
<1>2. CommitOK
  BY DEF Init, CommitOK, NotSaving, Down2
<1> QED
  BY <1>1, <1>2

LEMMA HistTypes ==
    ASSUME TypeOK
    PROVE  /\ hist.updates \in Nat /\ hist.good \in SUBSET Nat /\ hist.preempted \in SUBSET Nat
           /\ hist.told \in Seq([no : Nat, ok : BOOLEAN, runs : BOOLEAN])
           /\ hist.torn \in BOOLEAN /\ hist.partial \in BOOLEAN /\ hist.mixed \in BOOLEAN
BY DEF TypeOK, Hists

\* A failed erasure or write is the one thing Erase and Write tell the histories.
LEMMA FailedTypes ==
    ASSUME TypeOK, hist' = hist \/ hist' = [hist EXCEPT !.failed = TRUE]
    PROVE  /\ hist' \in Hists
           /\ hist'.mixed = hist.mixed /\ hist'.torn = hist.torn /\ hist'.partial = hist.partial
           /\ hist'.failed = hist.failed \/ hist'.failed
<1>1. hist \in Hists
  BY DEF TypeOK
<1>2. [hist EXCEPT !.failed = TRUE] \in Hists
  BY <1>1 DEF Hists
<1> QED
  BY <1>1, <1>2 DEF Hists

\* What is left after a reset or a restart.
LEMMA DownTypes ==
    ASSUME TypeOK, NEW how \in Down2, NEW run, Down(how, run)
    PROVE  /\ hist' \in Hists /\ ~hist'.partial /\ hist'.mixed = hist.mixed
           /\ mode' = how /\ mode' \in Modes /\ reboot' = {}
           /\ saving' \in Saves /\ saving'.step = "no" /\ saving'.then = "none"
<1> DEFINE over == hist.preempted \cup (Unstarted \ {run})
           cut == hist.torn \/ Saving("write")
<1>1. over \in SUBSET Nat /\ cut \in BOOLEAN
  BY HistTypes DEF Unstarted
<1>2. hist' = [hist EXCEPT !.partial = FALSE, !.preempted = over, !.torn = cut]
  BY DEF Down
<1>3. hist' \in Hists /\ ~hist'.partial /\ hist'.mixed = hist.mixed
  <2> HIDE DEF over, cut
  <2> QED
    BY <1>1, <1>2 DEF TypeOK, Hists
<1> QED
  BY <1>3 DEF Down, NotSaving, Saves, Steps, Nexts, Modes, Down2

\* A message comes from the serial line, the network or the user.
LEMMA MessageParses ==
    ASSUME TypeOK, Message \/ UserConfigures
    PROVE  /\ \E source \in {0, 1}, msg \in Texts, v \in Nat : Parse(source, msg, v)
           /\ mode = "config" /\ saving.step = "no"
           /\ UNCHANGED <<flash, station, mode, fw>>
<1>1. \E source \in {0, 1}, msg \in Texts, v \in Nat : Parse(source, msg, v)
  <2>1. CASE Message
    <3>1. PICK source \in {0, 1}, msg \in Messages : Parse(source, msg, world.messages)
      BY <2>1 DEF Message
    <3>2. msg \in Texts
      BY ConfigAssumption DEF Texts
    <3> QED
      BY <3>1, <3>2 DEF TypeOK, Worlds
  <2>2. CASE UserConfigures
    <3> DEFINE msg == [words |-> {"APCFG"}, good |-> 6]
    <3>1. PICK source \in {0, 1} : Parse(source, msg, Wanted)
      BY <2>2 DEF UserConfigures
    <3>2. msg \in Texts /\ Wanted \in Nat
      BY DEF Wanted, Texts, Requests, ToSet
    <3> HIDE DEF msg
    <3> QED
      BY <3>1, <3>2
  <2> QED
    BY <2>1, <2>2
<1>2. /\ mode = "config" /\ saving.step = "no"
      /\ UNCHANGED <<flash, station, mode, fw>>
  BY DEF Message, UserConfigures, Listening, Saving
<1> QED
  BY <1>1, <1>2

\* Every step keeps the types, and what the steps of a commit say.
LEMMA TypesKept == TypeOK /\ CommitOK /\ [Next]_vars => TypeOK' /\ CommitOK'
<1> SUFFICES ASSUME TypeOK, CommitOK, [Next]_vars PROVE TypeOK' /\ CommitOK'
  OBVIOUS
<1> USE DEF config
<1>1. CASE Erase
  <2>1. TypeOK'
    <3>1. flash' \in [Names -> Nat]
      BY <1>1 DEF Erase, Saving, TypeOK, Put, Blank, Erased
    <3>2. world' \in Worlds
      BY <1>1 DEF Erase, Saving, TypeOK, Worlds
    <3>3. hist' \in Hists
      BY <1>1, FailedTypes DEF Erase
    <3>4. saving' \in Saves
      BY <1>1 DEF Erase, Saving, TypeOK, Steps, Nexts, NotSaving, Saves
    <3> QED
      BY <1>1, <3>1, <3>2, <3>3, <3>4 DEF Erase, Saving, TypeOK
  <2>2. CommitOK'
    <3>1. saving \in Saves /\ saving.step = "erase" /\ UNCHANGED <<mode, reboot, ram>>
      BY <1>1 DEF Erase, Saving, TypeOK
    <3>2. saving'.then = saving.then /\ hist'.partial = hist.partial /\ hist'.mixed = hist.mixed
      BY <1>1, <3>1, FailedTypes DEF Erase, Saves
    <3>3. \/ saving'.step = "write" /\ flash' = Blank
          \/ saving'.step = "done" /\ hist'.failed
      <4>1. hist \in Hists
        BY DEF TypeOK
      <4> QED
        BY <1>1, <3>1, <4>1 DEF Erase, Saves, Hists
    <3> QED
      BY <3>1, <3>2, <3>3 DEF CommitOK, Down2
  <2> QED
    BY <2>1, <2>2
<1>2. CASE Write
  <2>1. TypeOK'
    <3>1. flash' \in [Names -> Nat]
      BY <1>2 DEF Write, Saving, TypeOK, Put, Blank, Erased
    <3>2. world' \in Worlds
      BY <1>2 DEF Write, Saving, TypeOK, Worlds
    <3>3. hist' \in Hists
      BY <1>2, FailedTypes DEF Write
    <3>4. saving' \in Saves
      BY <1>2 DEF Write, Saving, TypeOK, Steps, Nexts, NotSaving, Saves
    <3> QED
      BY <1>2, <3>1, <3>2, <3>3, <3>4 DEF Write, Saving, TypeOK
  <2>2. CommitOK'
    BY <1>2 DEF Write, Saving, TypeOK, Saves, Hists, Modes, Steps, Nexts, NotSaving,
       CommitOK, Down2
  <2> QED
    BY <2>1, <2>2
<1>3. CASE CommitDone
  <2>1. TypeOK'
    <3>1. saving' \in Saves
      BY <1>3 DEF CommitDone, Committed, Saving, TypeOK, Steps, Nexts, NotSaving, Saves
    <3>2. mode' \in Modes
      BY <1>3 DEF CommitDone, Committed, Saving, TypeOK, Modes
    <3> QED
      BY <1>3, <3>1, <3>2 DEF CommitDone, Committed, Saving, TypeOK
  <2>2. CommitOK'
    BY <1>3 DEF CommitDone, Committed, Saving, TypeOK, Saves, Hists, Modes, Steps,
       Nexts, NotSaving, CommitOK, Down2
  <2> QED
    BY <2>1, <2>2
<1>4. CASE NetworkSetup
  <2>1. TypeOK'
    <3>1. ram' \in [Names -> Nat]
      BY <1>4, NamesAre DEF NetworkSetup, FlagAfter, Save, SaveFor, TypeOK, Wanted
    <3>2. saving' \in Saves
      BY <1>4 DEF NetworkSetup, FlagAfter, Save, SaveFor, TypeOK, Steps, Nexts,
         NotSaving, Saves
    <3>3. station' \in [ssid : Nat, password : Nat]
      BY <1>4, NamesAre DEF NetworkSetup, FlagAfter, Save, SaveFor, TypeOK
    <3>4. mode' \in Modes
      BY <1>4 DEF NetworkSetup, FlagAfter, Save, SaveFor, TypeOK, Modes
    <3> QED
      BY <1>4, <3>1, <3>2, <3>3, <3>4 DEF NetworkSetup, FlagAfter, Save, SaveFor, TypeOK
  <2>2. CommitOK'
    BY <1>4 DEF NetworkSetup, FlagAfter, Save, SaveFor, TypeOK, Saves, Hists, Modes,
       Steps, Nexts, NotSaving, CommitOK, Down2
  <2> QED
    BY <2>1, <2>2
<1>5. CASE Accepted
  <2>1. TypeOK'
    <3>1. saving' \in Saves
      BY <1>5 DEF Accepted, Committed, Saving, Answer, TypeOK, Steps, Nexts,
         NotSaving, Saves
    <3>2. reboot' \subseteq {"restart", "upgrade"}
      BY <1>5 DEF Accepted, Committed, Saving, Answer, TypeOK
    <3> QED
      BY <1>5, <3>1, <3>2 DEF Accepted, Committed, Saving, Answer, TypeOK
  <2>2. CommitOK'
    BY <1>5 DEF Accepted, Committed, Saving, Answer, TypeOK, Saves, Hists, Modes,
       Steps, Nexts, NotSaving, CommitOK, Down2
  <2> QED
    BY <2>1, <2>2
<1>6. CASE StartScan
  <2>1. TypeOK'
    <3> QED
      BY <1>6 DEF StartScan, TypeOK
  <2>2. CommitOK'
    BY <1>6 DEF StartScan, TypeOK, Saves, Hists, Modes, Steps, Nexts, NotSaving,
       CommitOK, Down2
  <2> QED
    BY <2>1, <2>2
<1>7. CASE RestartsSoon
  <2>1. TypeOK'
    <3>1. saving' \in Saves
      BY <1>7 DEF RestartsSoon, Committed, Saving, TypeOK, Steps, Nexts, NotSaving, Saves
    <3>2. mode' \in Modes
      BY <1>7 DEF RestartsSoon, Committed, Saving, TypeOK, Modes
    <3>3. reboot' \subseteq {"restart", "upgrade"}
      BY <1>7 DEF RestartsSoon, Committed, Saving, TypeOK
    <3> QED
      BY <1>7, <3>1, <3>2, <3>3 DEF RestartsSoon, Committed, Saving, TypeOK
  <2>2. CommitOK'
    BY <1>7 DEF RestartsSoon, Committed, Saving, TypeOK, Saves, Hists, Modes, Steps,
       Nexts, NotSaving, CommitOK, Down2
  <2> QED
    BY <2>1, <2>2
<1>8. CASE OtaFinishes
  <2>1. TypeOK'
    <3>1. saving' \in Saves
      BY <1>8 DEF OtaFinishes, Committed, Saving, TypeOK, Steps, Nexts, NotSaving, Saves
    <3>2. mode' \in Modes
      BY <1>8 DEF OtaFinishes, Committed, Saving, TypeOK, Modes
    <3>3. reboot' \subseteq {"restart", "upgrade"}
      BY <1>8 DEF OtaFinishes, Committed, Saving, TypeOK
    <3> QED
      BY <1>8, <3>1, <3>2, <3>3 DEF OtaFinishes, Committed, Saving, TypeOK
  <2>2. CommitOK'
    BY <1>8 DEF OtaFinishes, Committed, Saving, TypeOK, Saves, Hists, Modes, Steps,
       Nexts, NotSaving, CommitOK, Down2
  <2> QED
    BY <2>1, <2>2
<1>9. CASE ResultSent
  <2>1. TypeOK'
    <3>1. saving' \in Saves
      BY <1>9 DEF ResultSent, Committed, Saving, Told, TypeOK, Steps, Nexts,
         NotSaving, Saves
    <3>2. hist' \in Hists
      <4>1. Told(saving.no) \in [no : Nat, ok : BOOLEAN, runs : BOOLEAN]
        BY DEF Told, TypeOK, Saves
      <4>2. Append(hist.told, Told(saving.no)) \in Seq([no : Nat, ok : BOOLEAN, runs : BOOLEAN])
        BY <4>1, HistTypes
      <4> QED
        BY <1>9, <4>2 DEF ResultSent, TypeOK, Hists
    <3> QED
      BY <1>9, <3>1, <3>2 DEF ResultSent, Committed, Saving, Told, TypeOK
  <2>2. CommitOK'
    BY <1>9 DEF ResultSent, Committed, Saving, Told, TypeOK, Saves, Hists, Modes,
       Steps, Nexts, NotSaving, CommitOK, Down2
  <2> QED
    BY <2>1, <2>2
<1>10. CASE Failsafe
  <2>1. TypeOK'
    <3>1. mode' \in Modes
      BY <1>10 DEF Failsafe, TypeOK, Modes
    <3>2. fw' \in [run : Nat, other : Nat]
      BY <1>10 DEF Failsafe, TypeOK
    <3>3. hist' \in Hists
      BY <1>10 DEF Failsafe, TypeOK, Hists
    <3> QED
      BY <1>10, <3>1, <3>2, <3>3 DEF Failsafe, TypeOK
  <2>2. CommitOK'
    BY <1>10 DEF Failsafe, TypeOK, Saves, Hists, Modes, Steps, Nexts, NotSaving,
       CommitOK, Down2
  <2> QED
    BY <2>1, <2>2
<1>11. CASE Restart
  <2>1. PICK run : Down("off", run)
    BY <1>11 DEF Restart
  <2>2. fw' \in [run : Nat, other : Nat] /\ UNCHANGED <<flash, ram, station, world>>
    BY <1>11 DEF Restart, TypeOK
  <2> QED
    BY <2>1, <2>2, DownTypes DEF TypeOK, CommitOK, Down2
<1>12. CASE Reset
  <2>1. PICK how \in Down2 : Down(how, Erased)
    BY <1>12 DEF Reset, Down2
  <2>2. flash' \in [Names -> Nat]
    <3>1. \A names : Put(ram, names, Erased) \in [Names -> Nat]
      BY PutFields DEF TypeOK, Erased
    <3>2. flash' = flash \/ \E names : flash' = Put(ram, names, Erased)
      BY <1>12 DEF Reset
    <3>3. flash \in [Names -> Nat]
      BY DEF TypeOK
    <3> QED
      BY <3>1, <3>2, <3>3
  <2>3. world' \in Worlds
    <3>1. world.resets \in Nat /\ world.resets > 0
      BY <1>12 DEF Reset, TypeOK, Worlds
    <3>2. world.resets - 1 \in Nat
      BY <3>1
    <3>3. world' = [world EXCEPT !.resets = world.resets - 1]
      BY <1>12 DEF Reset
    <3> QED
      BY <3>2, <3>3 DEF TypeOK, Worlds
  <2>4. UNCHANGED <<ram, station, fw>>
    BY <1>12 DEF Reset
  <2> QED
    BY <2>1, <2>2, <2>3, <2>4, DownTypes DEF TypeOK, CommitOK, Down2
<1>13. CASE ApScanDone
  <2>1. TypeOK'
    <3>1. hist' \in Hists
      BY <1>13 DEF ApScanDone, TypeOK, Hists
    <3> QED
      BY <1>13, <3>1 DEF ApScanDone, TypeOK
  <2>2. CommitOK'
    BY <1>13 DEF ApScanDone, TypeOK, Saves, Hists, Modes, Steps, Nexts, NotSaving,
       CommitOK, Down2
  <2> QED
    BY <2>1, <2>2
<1>14. CASE SendApItem
  <2>1. TypeOK'
    <3>1. hist' \in Hists
      BY <1>14 DEF SendApItem, TypeOK, Hists
    <3> QED
      BY <1>14, <3>1 DEF SendApItem, TypeOK
  <2>2. CommitOK'
    BY <1>14 DEF SendApItem, TypeOK, Saves, Hists, Modes, Steps, Nexts, NotSaving,
       CommitOK, Down2
  <2> QED
    BY <2>1, <2>2
<1>15. CASE UdpSent
  <2>1. TypeOK'
    <3>1. hist' \in Hists
      BY <1>15 DEF UdpSent, TypeOK, Hists
    <3> QED
      BY <1>15, <3>1 DEF UdpSent, TypeOK
  <2>2. CommitOK'
    BY <1>15 DEF UdpSent, TypeOK, Saves, Hists, Modes, Steps, Nexts, NotSaving,
       CommitOK, Down2
  <2> QED
    BY <2>1, <2>2
<1>16. CASE UserPresses
  <2>1. TypeOK'
    <3>1. ram' \in [Names -> Nat]
      BY <1>16 DEF UserPresses, ButtonHeld, Running, Saving, Save, SaveFor, TypeOK, Wanted
    <3>2. saving' \in Saves
      BY <1>16 DEF UserPresses, ButtonHeld, Running, Saving, Save, SaveFor,
         TypeOK, Steps, Nexts, NotSaving, Saves
    <3> QED
      BY <1>16, <3>1, <3>2 DEF UserPresses, ButtonHeld, Running, Saving, Save,
         SaveFor, TypeOK
  <2>2. CommitOK'
    BY <1>16 DEF UserPresses, ButtonHeld, Running, Saving, Save, SaveFor, TypeOK,
       Saves, Hists, Modes, Steps, Nexts, NotSaving, CommitOK, Down2
  <2> QED
    BY <2>1, <2>2
<1>17. CASE SomebodyPresses
  <2>1. TypeOK'
    <3>1. ram' \in [Names -> Nat]
      BY <1>17 DEF SomebodyPresses, ButtonHeld, Running, Saving, Save, SaveFor,
         TypeOK, Wanted
    <3>2. saving' \in Saves
      BY <1>17 DEF SomebodyPresses, ButtonHeld, Running, Saving, Save, SaveFor,
         TypeOK, Steps, Nexts, NotSaving, Saves
    <3>3. world' \in Worlds
      BY <1>17 DEF SomebodyPresses, ButtonHeld, Running, Saving, Save, SaveFor,
         TypeOK, Worlds
    <3> QED
      BY <1>17, <3>1, <3>2, <3>3 DEF SomebodyPresses, ButtonHeld, Running, Saving,
         Save, SaveFor, TypeOK
  <2>2. CommitOK'
    BY <1>17 DEF SomebodyPresses, ButtonHeld, Running, Saving, Save, SaveFor,
       TypeOK, Saves, Hists, Modes, Steps, Nexts, NotSaving, CommitOK, Down2
  <2> QED
    BY <2>1, <2>2
<1>18. CASE MoveServer
  <2>1. TypeOK'
    <3>1. world' \in Worlds
      BY <1>18 DEF MoveServer, Running, Saving, Save, SaveFor, TypeOK, Worlds
    <3>2. ram' \in [Names -> Nat]
      BY <1>18 DEF MoveServer, Running, Saving, Save, SaveFor, TypeOK, Wanted
    <3>3. saving' \in Saves
      BY <1>18 DEF MoveServer, Running, Saving, Save, SaveFor, TypeOK, Steps,
         Nexts, NotSaving, Saves
    <3> QED
      BY <1>18, <3>1, <3>2, <3>3 DEF MoveServer, Running, Saving, Save, SaveFor, TypeOK
  <2>2. CommitOK'
    BY <1>18 DEF MoveServer, Running, Saving, Save, SaveFor, TypeOK, Saves, Hists,
       Modes, Steps, Nexts, NotSaving, CommitOK, Down2
  <2> QED
    BY <2>1, <2>2
<1>19. CASE OtaStart
  <2>1. TypeOK'
    <3>1. world' \in Worlds
      BY <1>19 DEF OtaStart, Running, Saving, TypeOK, Worlds
    <3>2. mode' \in Modes
      BY <1>19 DEF OtaStart, Running, Saving, TypeOK, Modes
    <3>3. hist' \in Hists
      <4>1. hist' \in {hist, [hist EXCEPT !.updates = hist.updates + 1]}
        BY <1>19 DEF OtaStart
      <4>2. hist.updates + 1 \in Nat
        BY HistTypes
      <4> QED
        BY <4>1, <4>2 DEF TypeOK, Hists
    <3> QED
      BY <1>19, <3>1, <3>2, <3>3 DEF OtaStart, Running, Saving, TypeOK
  <2>2. CommitOK'
    BY <1>19 DEF OtaStart, Running, Saving, TypeOK, Saves, Hists, Modes, Steps,
       Nexts, NotSaving, CommitOK, Down2
  <2> QED
    BY <2>1, <2>2
<1>20. CASE OtaResponse
  <2>1. TypeOK'
    <3>1. saving' \in Saves
      BY <1>20 DEF OtaResponse, Saving, Save, SaveFor, TypeOK, Steps, Nexts,
         NotSaving, Saves
    <3>2. fw' \in [run : Nat, other : Nat]
      <4>1. fw' \in {fw, [fw EXCEPT !.other = hist.updates]}
        BY <1>20 DEF OtaResponse
      <4> QED
        BY <4>1, HistTypes DEF TypeOK
    <3>3. hist' \in Hists
      <4>1. hist' \in {hist, [hist EXCEPT !.good = hist.good \cup {hist.updates}]}
        BY <1>20 DEF OtaResponse
      <4>2. hist.good \cup {hist.updates} \in SUBSET Nat
        BY HistTypes
      <4> QED
        BY <4>1, <4>2 DEF TypeOK, Hists
    <3>4. ram' \in [Names -> Nat]
      <4>1. ram' = [ram EXCEPT !["result"] = hist.updates]
        BY <1>20 DEF OtaResponse
      <4> QED
        BY <4>1, HistTypes DEF TypeOK
    <3> QED
      BY <1>20, <3>1, <3>2, <3>3, <3>4 DEF OtaResponse, Saving, Save, SaveFor, TypeOK
  <2>2. CommitOK'
    BY <1>20 DEF OtaResponse, Saving, Save, SaveFor, TypeOK, Saves, Hists, Modes,
       Steps, Nexts, NotSaving, CommitOK, Down2
  <2> QED
    BY <2>1, <2>2
<1>21. CASE ConfirmHello
  <2>1. TypeOK'
    <3>1. ram' \in [Names -> Nat]
      BY <1>21 DEF ConfirmHello, Saving, SaveFor, TypeOK, Wanted
    <3>2. saving' \in Saves
      BY <1>21, NamesAre DEF ConfirmHello, Saving, SaveFor, TypeOK, Steps, Nexts,
         NotSaving, Saves
    <3> QED
      BY <1>21, <3>1, <3>2 DEF ConfirmHello, Saving, SaveFor, TypeOK
  <2>2. CommitOK'
    BY <1>21 DEF ConfirmHello, Saving, SaveFor, TypeOK, Saves, Hists, Modes, Steps,
       Nexts, NotSaving, CommitOK, Down2
  <2> QED
    BY <2>1, <2>2
<1>22. CASE Message \/ UserConfigures
  <2>1. PICK source \in {0, 1}, msg \in Texts, v \in Nat : Parse(source, msg, v)
    BY <1>22, MessageParses
  <2>2. /\ mode = "config" /\ saving.step = "no"
        /\ UNCHANGED <<flash, station, mode, fw>>
    BY <1>22, MessageParses
  <2>3. reboot' \subseteq {"restart", "upgrade"}
    BY <2>1, ParseStores DEF TypeOK
  <2>4. world' \in Worlds
    <3>1. CASE Message
      <4>1. world.messages - 1 \in Nat /\ world' = [world EXCEPT !.messages = world.messages - 1]
        BY <3>1 DEF Message, TypeOK, Worlds
      <4> QED
        BY <4>1 DEF TypeOK, Worlds
    <3>2. CASE UserConfigures
      BY <3>2 DEF UserConfigures, TypeOK
    <3> QED
      BY <1>22, <3>1, <3>2
  <2>5. CASE UNCHANGED <<ram, saving, hist>>
    BY <2>2, <2>3, <2>4, <2>5 DEF TypeOK, CommitOK, Down2
  <2>6. CASE StoredPart(v)
    <3>1. PICK names \in SUBSET (Names \ {"result", "flag"}), more \in BOOLEAN :
            /\ ram' = Put(ram, names, v)
            /\ hist' = [hist EXCEPT !.partial = @ \/ more]
            /\ UNCHANGED saving
      BY <2>6 DEF StoredPart
    <3>2. ram' \in [Names -> Nat]
      BY <3>1, PutFields DEF TypeOK
    <3>3. hist' \in Hists
      BY <3>1 DEF TypeOK, Hists
    <3>4. TypeOK'
      BY <2>2, <2>3, <2>4, <3>1, <3>2, <3>3 DEF TypeOK
    <3>5. CommitOK'
      BY <2>2, <3>1 DEF TypeOK, CommitOK, Down2, Hists, Saves, Steps, Nexts
    <3> QED
      BY <3>4, <3>5
  <2>7. CASE StoredAll(v)
    <3>1. PICK names \in Sets, then \in {"accepted", "accepted_serial"} :
            /\ ram' = [Put(ram, names, v) EXCEPT !.flag = 3]
            /\ saving' = [step |-> "erase", then |-> then, no |-> 0]
            /\ hist' = [hist EXCEPT !.mixed = @ \/ hist.partial]
      BY <2>7 DEF StoredAll
    <3>2. ram' \in [Names -> Nat]
      BY <2>1, <3>1, PutFields DEF TypeOK
    <3>3. hist' \in Hists
      BY <3>1 DEF TypeOK, Hists
    <3>4. saving' \in Saves
      BY <3>1 DEF Saves, Steps, Nexts
    <3>5. TypeOK'
      BY <2>2, <2>3, <2>4, <3>2, <3>3, <3>4 DEF TypeOK
    <3>6. CommitOK'
      BY <2>2, <3>1 DEF TypeOK, CommitOK, Down2, Hists, Saves, Steps, Nexts
    <3> QED
      BY <3>5, <3>6
  <2> QED
    BY <2>1, <2>5, <2>6, <2>7, ParseStores
<1>23. CASE UNCHANGED vars
  BY <1>23 DEF vars, TypeOK, CommitOK
<1> QED
  BY <1>1, <1>2, <1>3, <1>4, <1>5, <1>6, <1>7, <1>8, <1>9, <1>10, <1>11, <1>12, <1>13,
     <1>14, <1>15, <1>16, <1>17, <1>18, <1>19, <1>20, <1>21, <1>22, <1>23
  DEF Next, NodeSteps


-----------------------------------------------------------------------------
(* What is stored together.                                                *)

\* Every value has its type, and a commit that is under way has the caller and the flash
\* that its step says (EEPROM.commit and its callers).
THEOREM TypesHold == Spec => [](TypeOK /\ CommitOK)
BY TypesAtFirst, TypesKept, PTL DEF Spec

\* What does not read a field from RAM leaves together what was together there.
LEMMA FitsKept == TypeOK /\ CommitOK /\ FitsInv /\ [Next]_vars => FitsInv'
<1> SUFFICES ASSUME TypeOK, CommitOK, FitsInv, [Next]_vars PROVE FitsInv'
  OBVIOUS
<1> USE NamesAre DEF config
<1>1. CASE Erase
  <2>1. /\ hist'.mixed = hist.mixed /\ hist'.torn = hist.torn
        /\ hist'.partial = hist.partial /\ UNCHANGED <<mode, ram>>
    BY <1>1 DEF Erase, TypeOK, Hists
  <2>2. flash' \in {flash, Blank} /\ Fits(Blank)
    BY <1>1 DEF Erase, Blank, Fits
  <2> QED
    BY <2>1, <2>2 DEF FitsInv, Fits
<1>2. CASE Write
  <2>1. /\ hist'.mixed = hist.mixed /\ hist'.torn = hist.torn
        /\ hist'.partial = hist.partial /\ UNCHANGED <<mode, ram>>
    BY <1>2 DEF Write, TypeOK, Hists
  <2>2. mode \notin Down2 /\ (hist.partial => hist.mixed)
    BY <1>2 DEF Write, Saving, CommitOK
  <2>3. flash' \in {flash, ram}
    BY <1>2 DEF Write
  <2> QED
    BY <2>1, <2>2, <2>3 DEF FitsInv, Fits
<1>3. CASE CommitDone
  BY <1>3 DEF CommitDone, Committed, Saving, TypeOK, Hists, CommitOK, FitsInv, Fits, Down2
<1>4. CASE NetworkSetup
  <2>1. UNCHANGED <<flash, hist>> /\ mode \in Down2
    BY <1>4 DEF NetworkSetup, Down2
  <2>2. flash \in [Names -> Nat]
    BY DEF TypeOK
  <2>3. ram' = flash \/ \E v : ram' = [flash EXCEPT !.flag = v]
    BY <1>4 DEF NetworkSetup
  <2>4. Fits(flash) => Fits(ram')
    BY <2>2, <2>3 DEF Fits
  <2> QED
    BY <2>1, <2>4 DEF FitsInv
<1>5. CASE Accepted
  BY <1>5 DEF Accepted, TypeOK, Hists, CommitOK, FitsInv, Fits, Down2
<1>6. CASE StartScan
  BY <1>6 DEF StartScan, TypeOK, Hists, CommitOK, FitsInv, Fits, Down2
<1>7. CASE RestartsSoon
  BY <1>7 DEF RestartsSoon, Committed, Saving, TypeOK, Hists, CommitOK, FitsInv, Fits,
     Down2
<1>8. CASE OtaFinishes
  BY <1>8 DEF OtaFinishes, Committed, Saving, TypeOK, Hists, CommitOK, FitsInv, Fits,
     Down2
<1>9. CASE ResultSent
  BY <1>9 DEF ResultSent, TypeOK, Hists, CommitOK, FitsInv, Fits, Down2
<1>10. CASE Failsafe
  BY <1>10 DEF Failsafe, TypeOK, Hists, CommitOK, FitsInv, Fits, Down2
<1>11. CASE Restart
  BY <1>11 DEF Restart, Down, Saving, TypeOK, Hists, CommitOK, FitsInv, Fits, Down2
<1>12. CASE Reset
  BY <1>12 DEF Reset, Down, Saving, TypeOK, Hists, CommitOK, FitsInv, Fits, Down2
<1>13. CASE ApScanDone
  BY <1>13 DEF ApScanDone, TypeOK, Hists, CommitOK, FitsInv, Fits, Down2
<1>14. CASE SendApItem
  BY <1>14 DEF SendApItem, TypeOK, Hists, CommitOK, FitsInv, Fits, Down2
<1>15. CASE UdpSent
  BY <1>15 DEF UdpSent, TypeOK, Hists, CommitOK, FitsInv, Fits, Down2
<1>16. CASE UserPresses
  BY <1>16 DEF UserPresses, ButtonHeld, Running, TypeOK, Hists, CommitOK, FitsInv,
     Fits, Down2
<1>17. CASE SomebodyPresses
  BY <1>17 DEF SomebodyPresses, ButtonHeld, Running, TypeOK, Hists, CommitOK, FitsInv,
     Fits, Down2
<1>18. CASE MoveServer
  BY <1>18 DEF MoveServer, Running, TypeOK, Hists, CommitOK, FitsInv, Fits, Down2
<1>19. CASE OtaStart
  BY <1>19 DEF OtaStart, Running, TypeOK, Hists, CommitOK, FitsInv, Fits, Down2
<1>20. CASE OtaResponse
  BY <1>20 DEF OtaResponse, TypeOK, Hists, CommitOK, FitsInv, Fits, Down2
<1>21. CASE ConfirmHello
  BY <1>21 DEF ConfirmHello, TypeOK, Hists, CommitOK, FitsInv, Fits, Down2
<1>22. CASE Message \/ UserConfigures
  <2>1. PICK source \in {0, 1}, msg \in Texts, v \in Nat : Parse(source, msg, v)
    BY <1>22, MessageParses
  <2>2. mode = "config" /\ UNCHANGED <<flash, mode>>
    BY <1>22, MessageParses
  <2>3. CASE UNCHANGED <<ram, saving, hist>>
    BY <2>2, <2>3 DEF FitsInv
  <2>4. CASE StoredPart(v)
    <3>1. PICK names \in SUBSET (Names \ {"result", "flag"}), more \in BOOLEAN :
            /\ more \/ names = {}
            /\ ram' = Put(ram, names, v)
            /\ hist' = [hist EXCEPT !.partial = @ \/ more]
      BY <2>4 DEF StoredPart
    <3>2. /\ hist'.mixed = hist.mixed /\ hist'.torn = hist.torn
          /\ hist'.partial = (hist.partial \/ more)
      BY <3>1 DEF TypeOK, Hists
    <3>3. ~more => ram' = ram
      BY <3>1, PutFields DEF TypeOK
    <3> QED
      BY <2>2, <3>2, <3>3 DEF FitsInv
  <2>5. CASE StoredAll(v)
    <3>1. PICK names \in Sets :
            /\ ram' = [Put(ram, names, v) EXCEPT !.flag = 3]
            /\ hist' = [hist EXCEPT !.mixed = @ \/ hist.partial]
      BY <2>5 DEF StoredAll
    <3>2. Fits(ram) => Fits(ram')
      <4> DEFINE r == Put(ram, names, v)
      <4>1. r \in [Names -> Nat] /\ \A f \in Names : r[f] = IF f \in names THEN v ELSE ram[f]
        BY <2>1, PutFields DEF TypeOK
      <4>2. \A f \in Names \ {"flag"} : ram'[f] = IF f \in names THEN v ELSE ram[f]
        BY <3>1, <4>1
      <4> HIDE DEF r
      <4>3. /\ "ssid" \in names <=> "password" \in names
            /\ "key" \in names <=> "sn" \in names
            /\ "sn" \in names <=> "ota" \in names
        BY <3>1, FieldsAre DEF Sets
      <4> QED
        BY <4>2, <4>3 DEF Fits
    <3> QED
      BY <2>2, <3>1, <3>2 DEF FitsInv, TypeOK, Hists, Down2
  <2> QED
    BY <2>1, <2>3, <2>4, <2>5, ParseStores
<1>23. CASE UNCHANGED vars
  BY <1>23 DEF vars, FitsInv
<1> QED
  BY <1>1, <1>2, <1>3, <1>4, <1>5, <1>6, <1>7, <1>8, <1>9, <1>10, <1>11, <1>12, <1>13,
     <1>14, <1>15, <1>16, <1>17, <1>18, <1>19, <1>20, <1>21, <1>22, <1>23
  DEF Next, NodeSteps

\* What is in flash together came together, whatever the messages, resets and failures
\* are (StoredTogether; parse_config_message, EEPROM.commit).
THEOREM StoredWhole == Spec => []StoredTogether
<1>1. Init => FitsInv
  <2> SUFFICES ASSUME Init PROVE FitsInv
    OBVIOUS
  <2> QED
    BY TypesAtFirst, NamesAre DEF Init, FitsInv, Fits, Put, Blank, Down2
<1>2. FitsInv => StoredTogether
  BY DEF FitsInv, Fits, StoredTogether
<1> QED
  BY <1>1, <1>2, FitsKept, TypesHold, PTL DEF Spec


-----------------------------------------------------------------------------
(* The list of access points.                                              *)

Items == Nat \X Nat \X Nat

ScanOK == scan \in [want : BOOLEAN, source : {0, 1}, can : BOOLEAN, busy : BOOLEAN, found : Nat,
                    list : Seq(Items), timer : {0, 1, Off}, sent : Nat,
                    told : [1..2 -> Seq(Items)]]

\* The first k items of the list of n that the f-th scan found, and the others.
First(f, n, k) == [i \in 1..k |-> <<f, i, n>>]
Others(f, n, k) == [i \in 1..(n - k) |-> <<f, i + k, n>>]

Sending(f, n, k) ==
    /\ n # 0 /\ k <= n
    /\ scan.told[scan.timer + 1] = First(f, n, k)
    /\ scan.list = Others(f, n, k)

\* Unless an answer was taken for an item: a scan is asked for only when none is
\* under way and no list is being sent, and what was sent is the start of the list.
ListsInv ==
    \/ hist.early
    \/ /\ ~hist.short
       /\ scan.want => scan.can
       /\ scan.can \/ scan.busy => scan.timer = Off
       /\ scan.busy => ~scan.can
       /\ scan.timer = Off => scan.list = <<>> /\ scan.told[1] = <<>> /\ scan.told[2] = <<>>
       /\ scan.timer # Off =>
             /\ scan.told[2 - scan.timer] = <<>>
             /\ \E n, k \in Nat : Sending(scan.found, n, k)

\* The request a message is taken for is one that it may be taken for.
LEMMA TakenIsAllowed ==
    ASSUME NEW words, TakenFor(words) = "SCAN"
    PROVE  ram.flag = 2 /\ scan.can
<1> DEFINE I == {i \in 1..Len(Requests) : Requests[i] \in words /\ Allowed(Requests[i])}
           i == SelectInSeq(Requests, LAMBDA w : w \in words /\ Allowed(w))
<1>1. Len(Requests) = 9 /\ \A j \in 1..9 : Requests[j] # "none"
  BY DEF Requests
<1>2. i # 0
  BY DEF TakenFor
<1>3. i = IF I # {} THEN Min(I) ELSE 0
  BY DEF SelectInSeq
<1>4. I # {} /\ i = Min(I)
  BY <1>2, <1>3
<1>5. \E x \in I : \A y \in I : x <= y
  <2> I \subseteq 1..9
    BY <1>1
  <2> HIDE DEF I
  <2> QED
    BY <1>4
<1>6. i \in I
  <2> HIDE DEF I, i
  <2> QED
    BY <1>4, <1>5 DEF Min
<1>7. Requests[i] = "SCAN" /\ Allowed("SCAN")
  BY <1>2, <1>6 DEF TakenFor
<1> QED
  BY <1>7 DEF Allowed

LEMMA ListMoves ==
    ASSUME NEW f \in Nat, NEW n \in Nat, NEW k \in Nat, k < n
    PROVE  /\ Others(f, n, k) # <<>>
           /\ Tail(Others(f, n, k)) = Others(f, n, k + 1)
           /\ Append(First(f, n, k), Head(Others(f, n, k))) = First(f, n, k + 1)
<1>1. Others(f, n, k) \in Seq(Items) /\ Len(Others(f, n, k)) = n - k
  BY DEF Others, Items
<1>2. Others(f, n, k)[1] = <<f, k + 1, n>>
  BY DEF Others
<1>3. First(f, n, k) \in Seq(Items) /\ Len(First(f, n, k)) = k
  BY DEF First, Items
<1>4. Tail(Others(f, n, k)) = Others(f, n, k + 1)
  <2> DEFINE o == Others(f, n, k)
  <2>1. \A i \in 1..(n - k) : o[i] = <<f, i + k, n>>
    BY DEF Others
  <2>2. o \in Seq(Items) /\ Len(o) = n - k /\ n - k \in Nat \ {0}
    BY <1>1
  <2> HIDE DEF o
  <2>3. DOMAIN Tail(o) = 1..(n - k - 1) /\ \A i \in 1..(n - k - 1) : Tail(o)[i] = o[i + 1]
    BY <2>2
  <2>4. \A i \in 1..(n - k - 1) : Tail(o)[i] = <<f, i + (k + 1), n>>
    <3> TAKE i \in 1..(n - k - 1)
    <3>1. i + 1 \in 1..(n - k) /\ (i + 1) + k = i + (k + 1)
      OBVIOUS
    <3> QED
      BY <2>1, <2>3, <3>1
  <2>5. /\ Others(f, n, k + 1) \in Seq(Items) /\ Len(Others(f, n, k + 1)) = n - k - 1
        /\ \A i \in 1..(n - k - 1) : Others(f, n, k + 1)[i] = <<f, i + (k + 1), n>>
    <3>1. n - (k + 1) = n - k - 1 /\ n - k - 1 \in Nat
      OBVIOUS
    <3> QED
      BY <3>1 DEF Others, Items
  <2>6. Tail(o) \in Seq(Items) /\ Len(Tail(o)) = n - k - 1
    BY <2>2
  <2> QED
    BY <2>4, <2>5, <2>6, SeqEqual DEF o
<1>5. Append(First(f, n, k), <<f, k + 1, n>>) = First(f, n, k + 1)
  BY <1>3 DEF First
<1>6. Head(Others(f, n, k)) = <<f, k + 1, n>> /\ Others(f, n, k) # <<>>
  <2> HIDE DEF Others
  <2> QED
    BY <1>1, <1>2
<1> QED
  BY <1>4, <1>5, <1>6

LEMMA ListEnds ==
    ASSUME NEW f \in Nat, NEW n \in Nat
    PROVE  /\ Others(f, n, n) = <<>> /\ First(f, n, 0) = <<>>
           /\ n # 0 => Whole(First(f, n, n))
<1>1. Others(f, n, n) = <<>> /\ First(f, n, 0) = <<>>
  BY DEF Others, First
<1>2. ASSUME n # 0 PROVE Whole(First(f, n, n))
  <2>1. First(f, n, n) \in Seq(Items) /\ Len(First(f, n, n)) = n
    BY DEF First, Items
  <2>2. \A i \in 1..n : First(f, n, n)[i] = <<f, i, n>>
    BY DEF First
  <2>3. 1 \in 1..n
    BY <1>2
  <2>4. <<f, 1, n>>[1] = f /\ <<f, 1, n>>[3] = n
    OBVIOUS
  <2> DEFINE t == First(f, n, n)
  <2>5. DOMAIN t = 1..n /\ t # <<>>
    BY <1>2, <2>1
  <2>6. t[1] = <<f, 1, n>>
    BY <2>2, <2>3
  <2> HIDE DEF t
  <2>7. t[1][1] = f /\ t[1][3] = n
    BY <2>4, <2>6
  <2> QED
    BY <2>1, <2>2, <2>5, <2>7 DEF Whole, t
<1> QED
  BY <1>1, <1>2


\* Nothing but the number of answers on their way changes.
LEMMA ListsStay ==
    ASSUME ScanOK, ListsInv, hist'.early = hist.early, hist'.short = hist.short,
           scan' = scan \/ \E m \in Nat : scan' = [scan EXCEPT !.sent = m]
    PROVE  ScanOK' /\ ListsInv'
<1>1. ScanOK'
  BY DEF ScanOK
<1>2. /\ scan'.want = scan.want /\ scan'.can = scan.can /\ scan'.busy = scan.busy
      /\ scan'.timer = scan.timer /\ scan'.list = scan.list /\ scan'.told = scan.told
      /\ scan'.found = scan.found
  BY DEF ScanOK
<1>3. ListsInv'
  BY <1>2 DEF ListsInv, Sending
<1> QED
  BY <1>1, <1>3

LEMMA NoScanOK == NoScan.told \in [1..2 -> Seq(Items)] /\ NoScan.list \in Seq(Items)
<1> DEFINE t == <<<<>>, <<>>>>
<1>1. <<>> \in Seq(Items)
  OBVIOUS
<1>2. DOMAIN t = 1..2 /\ t[1] = <<>> /\ t[2] = <<>>
  OBVIOUS
<1>3. t = [i \in 1..2 |-> t[i]]
  OBVIOUS
<1>4. NoScan.told = t /\ NoScan.list = <<>>
  BY DEF NoScan
<1> HIDE DEF t
<1>5. \A i \in 1..2 : t[i] \in Seq(Items)
  <2>1. \A i \in 1..2 : i = 1 \/ i = 2
    OBVIOUS
  <2> QED
    BY <1>1, <1>2, <2>1
<1> QED
  BY <1>1, <1>3, <1>4, <1>5

LEMMA ListsGone ==
    ASSUME ListsInv, hist'.early = hist.early, hist'.short = hist.short, scan' = NoScan
    PROVE  ScanOK' /\ ListsInv'
<1>1. ScanOK'
  BY NoScanOK DEF ScanOK, NoScan, Off
<1>2. ListsInv'
  BY DEF ListsInv, NoScan, Off
<1> QED
  BY <1>1, <1>2

\* What a message does to the scan.
LEMMA ParseScans ==
    ASSUME ScanOK, NEW source \in {0, 1}, NEW v \in Nat, NEW msg \in Texts,
           Parse(source, msg, v)
    PROVE  \/ scan' = scan
           \/ \E m \in Nat : scan' = [scan EXCEPT !.sent = m]
           \/ scan.can /\ scan' = [scan EXCEPT !.want = TRUE, !.source = source]
<1> DEFINE is == TakenFor(msg.words)
<1>1. CASE is \in {"Node?", "Blank?", "VERSION", "DEBUG"}
  <2>1. Answer(source, 1) \/ Answer(source, 2)
    BY <1>1 DEF Parse
  <2>2. scan.sent \in Nat
    BY DEF ScanOK
  <2> QED
    BY <2>1, <2>2 DEF Answer
<1>2. CASE is = "SCAN"
  <2>1. scan' = [scan EXCEPT !.want = TRUE, !.source = source]
    BY <1>2 DEF Parse
  <2> QED
    BY <1>2, <2>1, TakenIsAllowed
<1>3. CASE is \in {"APCFG", "AP", "ENDEBUG"}
  BY <1>3 DEF Parse, Store
<1>4. CASE is \notin {"Node?", "Blank?", "VERSION", "DEBUG", "SCAN", "APCFG", "AP", "ENDEBUG"}
  BY <1>4 DEF Parse
<1> QED
  BY <1>1, <1>2, <1>3, <1>4

LEMMA ListsKept ==
    TypeOK /\ ScanOK /\ ListsInv /\ [Next]_vars => ScanOK' /\ ListsInv'
<1> SUFFICES ASSUME TypeOK, ScanOK, ListsInv, [Next]_vars PROVE ScanOK' /\ ListsInv'
  OBVIOUS
<1> USE DEF config
<1>1. CASE Erase \/ Write \/ CommitDone \/ NetworkSetup \/ RestartsSoon \/ OtaFinishes
  <2>1. scan' = scan /\ hist'.early = hist.early /\ hist'.short = hist.short
    BY <1>1 DEF Erase, Write, CommitDone, NetworkSetup, RestartsSoon, OtaFinishes,
       TypeOK, Hists
  <2> QED
    BY <2>1, ListsStay
<1>2. CASE ResultSent \/ Failsafe \/ UserPresses \/ SomebodyPresses \/ MoveServer
  <2>1. scan' = scan /\ hist'.early = hist.early /\ hist'.short = hist.short
    BY <1>2 DEF ResultSent, Failsafe, UserPresses, SomebodyPresses, ButtonHeld,
       MoveServer,
                TypeOK, Hists
  <2> QED
    BY <2>1, ListsStay
<1>3. CASE OtaStart \/ OtaResponse \/ ConfirmHello \/ UNCHANGED vars
  <2>1. scan' = scan /\ hist'.early = hist.early /\ hist'.short = hist.short
    BY <1>3 DEF OtaStart, OtaResponse, ConfirmHello, vars, TypeOK, Hists
  <2> QED
    BY <2>1, ListsStay
<1>4. CASE Restart \/ Reset
  <2>1. PICK how, run : Down(how, run)
    BY <1>4 DEF Restart, Reset
  <2>2. scan' = NoScan /\ hist'.early = hist.early /\ hist'.short = hist.short
    BY <2>1 DEF Down, TypeOK, Hists
  <2> QED
    BY <2>2, ListsGone
<1>5. CASE Accepted
  <2>1. UNCHANGED hist /\ \E m \in Nat : scan' = [scan EXCEPT !.sent = m]
    BY <1>5 DEF Accepted, Answer, ScanOK
  <2> QED
    BY <2>1, ListsStay
<1>6. CASE Message \/ UserConfigures
  <2>1. PICK source \in {0, 1}, msg \in Texts, v \in Nat : Parse(source, msg, v)
    BY <1>6, MessageParses
  <2>2. hist'.early = hist.early /\ hist'.short = hist.short
    <3>1. \/ hist' = hist
          \/ \E b : hist' = [hist EXCEPT !.partial = b] \/ hist' = [hist EXCEPT !.mixed = b]
      <4>1. UNCHANGED hist \/ StoredPart(v) \/ StoredAll(v)
        BY <2>1, ParseStores
      <4>2. ASSUME StoredPart(v) PROVE \E b : hist' = [hist EXCEPT !.partial = b]
        BY <4>2 DEF StoredPart
      <4>3. ASSUME StoredAll(v) PROVE \E b : hist' = [hist EXCEPT !.mixed = b]
        BY <4>3 DEF StoredAll
      <4> QED
        BY <4>1, <4>2, <4>3
    <3>2. hist \in Hists
      BY DEF TypeOK
    <3> QED
      BY <3>1, <3>2 DEF Hists
  <2>3. CASE scan.can /\ scan' = [scan EXCEPT !.want = TRUE, !.source = source]
    <3>1. ScanOK'
      BY <2>3 DEF ScanOK
    <3>2. ListsInv'
      BY <2>2, <2>3 DEF ScanOK, ListsInv, Off
    <3> QED
      BY <3>1, <3>2
  <2> QED
    BY <2>1, <2>2, <2>3, ParseScans, ListsStay
<1>7. CASE StartScan
  <2>1. ScanOK'
    BY <1>7 DEF StartScan, ScanOK
  <2>2. ListsInv'
    BY <1>7 DEF StartScan, ScanOK, ListsInv, Off
  <2> QED
    BY <2>1, <2>2
<1>8. CASE ApScanDone
  <2>1. CASE \/ scan' = [scan EXCEPT !.busy = FALSE, !.can = TRUE]
             \/ scan' = [scan EXCEPT !.busy = FALSE]
    <3>1. hist'.early = hist.early /\ hist'.short = hist.short /\ scan.busy
      BY <1>8 DEF ApScanDone, TypeOK, Hists
    <3>2. ScanOK'
      BY <2>1 DEF ScanOK
    <3>3. ListsInv'
      BY <2>1, <3>1 DEF ScanOK, ListsInv, Off
    <3> QED
      BY <3>2, <3>3
  <2>2. CASE \E n \in Lists \ {0} :
                scan' = [scan EXCEPT !.busy = FALSE, !.found = @ + 1, !.timer = scan.source,
                                     !.list = [i \in 1..n |-> <<scan.found + 1, i, n>>]]
             /\ UNCHANGED hist
    <3>1. PICK n \in Nat \ {0} :
            scan' = [scan EXCEPT !.busy = FALSE, !.found = @ + 1, !.timer = scan.source,
                                 !.list = [i \in 1..n |-> <<scan.found + 1, i, n>>]]
      BY <2>2, ConfigAssumption
    <3>0. PICK f \in Nat : f = scan.found + 1
      BY DEF ScanOK
    <3> DEFINE list == [i \in 1..n |-> <<f, i, n>>]
    <3>2. list \in Seq(Items)
      BY DEF Items
    <3>3. list = Others(f, n, 0) /\ First(f, n, 0) = <<>>
      BY <3>2 DEF Others, First
    <3>4. scan' = [scan EXCEPT !.busy = FALSE, !.found = f, !.timer = scan.source,
                               !.list = list]
      BY <3>0, <3>1
    <3> HIDE DEF list
    <3>5. ScanOK'
      BY <3>2, <3>4 DEF ScanOK, Off
    <3>6. scan.busy /\ UNCHANGED hist
      BY <1>8, <2>2 DEF ApScanDone
    <3>7. ASSUME ~hist.early PROVE ListsInv'
      <4>1. /\ scan'.timer \in {0, 1} /\ scan'.told = scan.told /\ scan'.list = list
            /\ scan'.found = f /\ scan'.can = scan.can /\ ~scan'.busy
            /\ scan'.want = scan.want
        BY <3>4 DEF ScanOK
      <4>2. ~scan.can /\ ~scan.want /\ ~hist.short
            /\ scan.told[1] = <<>> /\ scan.told[2] = <<>>
        BY <3>6, <3>7 DEF ListsInv
      <4>3. Sending(scan.found, n, 0)'
        <5>1. scan'.told[scan'.timer + 1] = <<>>
          BY <4>1, <4>2
        <5>2. n # 0 /\ 0 <= n
          OBVIOUS
        <5>3. scan'.told[scan'.timer + 1] = First(scan'.found, n, 0)
          BY <3>3, <4>1, <5>1
        <5>4. scan'.list = Others(scan'.found, n, 0)
          BY <3>3, <4>1
        <5> QED
          BY <5>2, <5>3, <5>4 DEF Sending
      <4> QED
        BY <3>1, <3>6, <4>1, <4>2, <4>3 DEF ListsInv, Off
    <3>8. ASSUME hist.early PROVE ListsInv'
      BY <3>6, <3>8 DEF ListsInv
    <3> QED
      BY <3>5, <3>7, <3>8
  <2> QED
    BY <1>8, <2>1, <2>2 DEF ApScanDone
<1>9. CASE SendApItem
  <2> DEFINE s == scan.timer
             left == scan.list = <<>>
             now == scan.told[s + 1]
             sent == scan.sent + (IF s = 0 THEN 1 ELSE 0)
             then == IF left THEN <<>> ELSE Append(now, Head(scan.list))
             list == IF left THEN <<>> ELSE Tail(scan.list)
  <2>1. s \in {0, 1} /\ s + 1 \in 1..2
    BY <1>9 DEF SendApItem, ScanOK, Off
  <2>2. now \in Seq(Items) /\ scan.list \in Seq(Items) /\ sent \in Nat
    BY <2>1 DEF ScanOK
  <2>3. then \in Seq(Items) /\ list \in Seq(Items)
    BY <2>2
  <2>4. scan' = [scan EXCEPT !.sent = sent, !.told[s + 1] = then, !.list = list,
                             !.timer = IF left THEN Off ELSE @, !.can = @ \/ left]
    BY <1>9 DEF SendApItem
  <2>5. /\ hist'.early = hist.early
        /\ hist'.short = (hist.short \/ (left /\ ~Whole(now)))
    BY <1>9 DEF SendApItem, TypeOK, Hists
  <2> HIDE DEF now, sent, then, list, left
  <2>6. /\ scan'.told = [scan.told EXCEPT ![s + 1] = then]
        /\ scan'.list = list /\ (left => scan'.timer = Off)
        /\ ~left => scan'.timer = s /\ (~scan.can => ~scan'.can)
        /\ scan'.want = scan.want
        /\ scan'.busy = scan.busy /\ scan'.found = scan.found /\ scan'.source = scan.source
        /\ scan'.sent = sent
    BY <2>4 DEF ScanOK
  <2>7. ScanOK'
    <3>1. [scan.told EXCEPT ![s + 1] = then] \in [1..2 -> Seq(Items)]
      BY <2>3 DEF ScanOK
    <3>2. (IF left THEN Off ELSE s) \in {0, 1, Off} /\ (scan.can \/ left) \in BOOLEAN
      BY <2>1 DEF ScanOK
    <3> QED
      BY <2>2, <2>3, <2>4, <3>1, <3>2 DEF ScanOK
  <2>8. ASSUME ~hist.early PROVE ListsInv'
    <3>1. /\ ~hist.short /\ ~scan.can /\ ~scan.want /\ ~scan.busy /\ scan.told[2 - s] = <<>>
          /\ \E n, k \in Nat : Sending(scan.found, n, k)
      BY <2>1, <2>8 DEF ListsInv, Off
    <3>2. PICK n \in Nat, k \in Nat : Sending(scan.found, n, k)
      BY <3>1
    <3>3. scan.found \in Nat
      BY DEF ScanOK
    <3>4. /\ scan'.told[s + 1] = then
          /\ scan'.told[2 - s] = <<>>
      BY <2>1, <2>6, <3>1 DEF ScanOK
    <3>5. CASE left
      <4>1. k = n
        <5>1. ASSUME k # n PROVE FALSE
          <6>1. k < n /\ scan.list = Others(scan.found, n, k)
            BY <3>2, <5>1 DEF Sending
          <6>2. Others(scan.found, n, k) # <<>>
            BY <3>3, <6>1, ListMoves
          <6> QED
            BY <3>5, <6>1, <6>2 DEF left
        <5> QED
          BY <5>1
      <4>2. Whole(now)
        BY <3>2, <3>3, <4>1, ListEnds DEF Sending, now
      <4>3. then = <<>> /\ list = <<>>
        BY <3>5 DEF then, list
      <4>4. scan'.told[1] = <<>> /\ scan'.told[2] = <<>>
        BY <2>1, <3>4, <4>3
      <4> QED
        BY <2>5, <2>6, <3>1, <3>5, <4>2, <4>3, <4>4 DEF ListsInv, Off
    <3>6. CASE ~left
      <4>1. k < n
        <5>1. k <= n
          BY <3>2 DEF Sending
        <5>2. k # n
          BY <3>2, <3>3, <3>6, ListEnds DEF Sending, left
        <5> QED
          BY <5>1, <5>2
      <4>2. then = First(scan.found, n, k + 1) /\ list = Others(scan.found, n, k + 1)
        <5>1. now = First(scan.found, n, k) /\ scan.list = Others(scan.found, n, k)
          BY <3>2 DEF Sending, now
        <5>2. /\ Tail(scan.list) = Others(scan.found, n, k + 1)
              /\ Append(now, Head(scan.list)) = First(scan.found, n, k + 1)
          <6>1. n \in Nat /\ k \in Nat
            OBVIOUS
          <6>2. /\ Tail(Others(scan.found, n, k)) = Others(scan.found, n, k + 1)
                /\ Append(First(scan.found, n, k), Head(Others(scan.found, n, k)))
                     = First(scan.found, n, k + 1)
            BY <3>3, <4>1, <6>1, ListMoves
          <6> QED
            BY <5>1, <6>2
        <5> QED
          BY <3>6, <5>2 DEF then, list
      <4>3. n # 0 /\ k + 1 <= n /\ k + 1 \in Nat
        BY <4>1
      <4>4. Sending(scan.found, n, k + 1)'
        BY <2>6, <3>4, <3>6, <4>2, <4>3 DEF Sending
      <4>5. scan'.timer = s /\ s # Off /\ ~scan'.can /\ scan'.found = scan.found
        BY <2>1, <2>6, <3>1, <3>6 DEF Off
      <4>6. \E m, j \in Nat : Sending(scan.found, m, j)'
        BY <4>3, <4>4
      <4> QED
        BY <2>5, <2>6, <3>1, <3>4, <3>6, <4>5, <4>6 DEF ListsInv
    <3> QED
      BY <3>5, <3>6
  <2>9. ASSUME hist.early PROVE ListsInv'
    BY <2>5, <2>9 DEF ListsInv
  <2> QED
    BY <2>7, <2>8, <2>9
<1>10. CASE UdpSent
  <2>1. ScanOK'
    <3>1. scan.sent - 1 \in Nat
      BY <1>10 DEF UdpSent, ScanOK
    <3>2. scan' = [scan EXCEPT !.sent = scan.sent - 1, !.timer = IF scan.can THEN @ ELSE 0]
      BY <1>10 DEF UdpSent
    <3> QED
      BY <3>1, <3>2 DEF ScanOK
  <2>2. /\ hist'.early = (hist.early \/ (~scan.can /\ scan.timer # 0))
        /\ hist'.short = hist.short
    BY <1>10 DEF UdpSent, TypeOK, Hists
  <2>3. /\ scan'.want = scan.want /\ scan'.can = scan.can /\ scan'.busy = scan.busy
        /\ scan'.timer = (IF scan.can THEN scan.timer ELSE 0) /\ scan'.list = scan.list
        /\ scan'.told = scan.told /\ scan'.found = scan.found
    BY <1>10 DEF UdpSent, ScanOK
  <2>4. ListsInv'
    BY <2>2, <2>3 DEF ListsInv, Sending
  <2> QED
    BY <2>1, <2>4
<1> QED
  BY <1>1, <1>2, <1>3, <1>4, <1>5, <1>6, <1>7, <1>8, <1>9, <1>10 DEF Next, NodeSteps

\* A list that is sent to its end is one that was found, for lists of any length, unless
\* another answer was taken for one of its items (ListsWhole; send_ap_item, udp_sent_cb).
THEOREM ListsSent == Spec => []ListsWhole
<1>1. Init => ScanOK /\ ListsInv
  <2> SUFFICES ASSUME Init PROVE ScanOK /\ ListsInv
    OBVIOUS
  <2>1. scan = NoScan /\ ~hist.short
    BY DEF Init
  <2>2. ScanOK
    BY <2>1, NoScanOK DEF ScanOK, NoScan, Off
  <2> QED
    BY <2>1, <2>2 DEF ListsInv, NoScan, Off
<1>2. ListsInv => ListsWhole
  BY DEF ListsInv, ListsWhole
<1> QED
  BY <1>1, <1>2, ListsKept, TypesHold, PTL DEF Spec


-----------------------------------------------------------------------------
(* The results of updates.                                                 *)

\* A firmware that was downloaded waits for its restart.
Waiting == "upgrade" \in reboot \/ saving.then = "upgrade"

\* Updates are numbered, one at a time is under way, and one that waits is the last.
UpdatesOK ==
    /\ hist.good \subseteq 1..hist.updates
    /\ mode = "updating" => "upgrade" \notin reboot /\ hist.updates # 0
    /\ mode = "updating" /\ saving.then # "upgrade" => hist.updates \notin hist.good
    /\ saving.then \in {"upgrade", "failed"} => ram["result"] = hist.updates
    /\ Waiting => fw.other = hist.updates

\* A number in the sector that a report can be about.
Result(n) == n \notin {0, Erased}
Fresh(n) == \A t \in ToSet(hist.told) : t.no # n

\* A result that is kept was not told; if it is a success, the update runs, or is about
\* to, or was overtaken; and while a firmware waits, the result is its own.
Kept(n) ==
    Result(n) =>
        /\ n <= hist.updates /\ Fresh(n)
        /\ "upgrade" \in reboot => n = hist.updates
        /\ n \in hist.good => fw.run = n \/ n \in hist.preempted \/ (n = hist.updates /\ Waiting)

ToldOK ==
    /\ \A i, j \in DOMAIN hist.told : i # j => hist.told[i].no # hist.told[j].no
    /\ \A t \in ToSet(hist.told) :
          t.no <= hist.updates /\ (t.ok /\ ~t.runs => t.no \in hist.preempted)

\* Where results are: in flash, in RAM, in the report that clears them, or still to come.
KeptOK ==
    /\ Kept(flash["result"]) /\ Kept(ram["result"])
    /\ saving.then = "report" => ram["result"] = 0 /\ Result(saving.no) /\ Kept(saving.no)
    /\ mode = "updating" /\ saving.step = "no" =>
          /\ Fresh(hist.updates)
          /\ Result(hist.updates) => hist.updates \notin {flash["result"], ram["result"]}

ResultsInv == UpdatesOK /\ (hist.failed \/ (ToldOK /\ KeptOK))

\* What is written about updates and results does not change.
SameResults ==
    /\ hist'.updates = hist.updates /\ hist'.good = hist.good /\ hist'.told = hist.told
    /\ hist'.preempted = hist.preempted

\* Steps that are not about updates: a result may be copied or erased, never written.
Apart ==
    /\ hist.failed => hist'.failed
    /\ SameResults /\ fw' = fw
    /\ flash'["result"] \in {flash["result"], ram["result"], Erased}
    /\ ram'["result"] \in {flash["result"], ram["result"]}
    /\ "upgrade" \in reboot' <=> "upgrade" \in reboot
    /\ saving.then \notin {"upgrade", "failed", "report"}
    /\ saving'.then \notin {"upgrade", "failed", "report"}
    /\ mode' # "updating"

LEMMA ApartKeeps ==
    ASSUME TypeOK, CommitOK, ResultsInv, Apart
    PROVE  ResultsInv'
<1> USE DEF Apart, SameResults
<1>1. UpdatesOK'
  BY DEF ResultsInv, UpdatesOK, Waiting
<1>2. ASSUME ~hist'.failed PROVE ToldOK' /\ KeptOK'
  <2>1. ToldOK'
    BY <1>2 DEF ResultsInv, ToldOK
  <2>2. KeptOK'
    BY <1>2 DEF ResultsInv, KeptOK, Kept, Fresh, Result, Waiting
  <2> QED
    BY <2>1, <2>2
<1> QED
  BY <1>1, <1>2 DEF ResultsInv

\* A step of a commit, whoever waits for it.
Committing ==
    /\ hist.failed => hist'.failed
    /\ SameResults /\ UNCHANGED <<ram, mode, reboot, fw>>
    /\ flash'["result"] \in {flash["result"], ram["result"], Erased}
    /\ saving'.then = saving.then /\ saving'.no = saving.no
    /\ saving.step # "no" /\ saving'.step # "no"

LEMMA CommittingKeeps ==
    ASSUME TypeOK, CommitOK, ResultsInv, Committing
    PROVE  ResultsInv'
<1> USE DEF Committing, SameResults
<1>1. UpdatesOK'
  BY DEF ResultsInv, UpdatesOK, Waiting
<1>2. ASSUME ~hist'.failed PROVE ToldOK' /\ KeptOK'
  <2>1. ToldOK'
    BY <1>2 DEF ResultsInv, ToldOK
  <2>2. KeptOK'
    BY <1>2 DEF ResultsInv, KeptOK, Kept, Fresh, Result, Waiting
  <2> QED
    BY <2>1, <2>2
<1> QED
  BY <1>1, <1>2 DEF ResultsInv

\* A restart or a reset: a firmware that waits runs, or counts as overtaken.
LEMMA DownKeeps ==
    ASSUME TypeOK, CommitOK, ResultsInv, NEW how \in Down2, NEW run \in Nat, Down(how, run),
           ram' = ram, flash'["result"] \in {flash["result"], ram["result"], Erased},
           \/ run = Erased /\ fw' = fw
           \/ Waiting /\ "upgrade" \in reboot /\ saving.step = "no"
              /\ run = hist.updates /\ fw'.run = fw.other
    PROVE  ResultsInv'
<1>1. /\ hist'.updates = hist.updates /\ hist'.good = hist.good /\ hist'.told = hist.told
      /\ hist'.failed = hist.failed
      /\ hist'.preempted = hist.preempted \cup (Unstarted \ {run})
  BY DEF Down, TypeOK, Hists
<1>2. reboot' = {} /\ saving'.then = "none" /\ mode' # "updating"
  BY DEF Down, NotSaving, Down2
<1>3. UpdatesOK'
  BY <1>1, <1>2 DEF ResultsInv, UpdatesOK, Waiting
<1>4. ASSUME ~hist.failed PROVE ToldOK' /\ KeptOK'
  <2>1. ToldOK'
    BY <1>1, <1>4 DEF ResultsInv, ToldOK
  <2>2. KeptOK'
    BY <1>1, <1>2, <1>4
    DEF ResultsInv, UpdatesOK, KeptOK, Kept, Fresh, Result, Waiting, Unstarted
  <2> QED
    BY <2>1, <2>2
<1> QED
  BY <1>1, <1>3, <1>4 DEF ResultsInv

LEMMA ResultsKept ==
    TypeOK /\ CommitOK /\ ResultsInv /\ [Next]_vars => ResultsInv'
<1> SUFFICES ASSUME TypeOK, CommitOK, ResultsInv, [Next]_vars PROVE ResultsInv'
  OBVIOUS
<1> USE DEF config
<1>1. CASE Erase \/ Write
  <2>1. SameResults /\ (hist.failed => hist'.failed)
    BY <1>1 DEF Erase, Write, SameResults, TypeOK, Hists
  <2>2. flash'["result"] \in {flash["result"], ram["result"], Erased}
    BY <1>1, NamesAre DEF Erase, Write, Blank
  <2>3. /\ saving'.then = saving.then /\ saving'.no = saving.no
        /\ saving.step # "no" /\ saving'.step # "no"
    BY <1>1 DEF Erase, Write, Saving, TypeOK, Saves
  <2>4. Committing
    BY <1>1, <2>1, <2>2, <2>3 DEF Erase, Write, Committing
  <2> QED
    BY <2>4, CommittingKeeps
<1>2. CASE CommitDone \/ RestartsSoon \/ Accepted
  <2>1. Apart
    BY <1>2 DEF CommitDone, RestartsSoon, Accepted, Committed, Saving, NotSaving,
       CommitOK,
                Apart, SameResults
  <2> QED
    BY <2>1, ApartKeeps
<1>3. CASE NetworkSetup
  <2>1. Apart
    BY <1>3, NamesAre
    DEF NetworkSetup, Save, SaveFor, TypeOK, CommitOK, Down2, Apart, SameResults
  <2> QED
    BY <2>1, ApartKeeps
<1>4. CASE UserPresses \/ SomebodyPresses \/ MoveServer
  <2>1. Apart
    BY <1>4, NamesAre
    DEF UserPresses, SomebodyPresses, MoveServer, ButtonHeld, Running, Saving, Save, SaveFor,
        TypeOK, CommitOK, Apart, SameResults
  <2> QED
    BY <2>1, ApartKeeps
<1>5. CASE StartScan \/ ApScanDone \/ SendApItem \/ UdpSent
  <2>1. SameResults /\ hist'.failed = hist.failed
    BY <1>5 DEF StartScan, ApScanDone, SendApItem, UdpSent, SameResults, TypeOK, Hists
  <2>2. mode = "config" /\ saving.then = "none"
    BY <1>5 DEF StartScan, ApScanDone, SendApItem, UdpSent, Listening, Saving, CommitOK
  <2>3. Apart
    BY <1>5, <2>1, <2>2 DEF StartScan, ApScanDone, SendApItem, UdpSent, Apart
  <2> QED
    BY <2>3, ApartKeeps
<1>6. CASE Message \/ UserConfigures
  <2>1. PICK source \in {0, 1}, msg \in Texts, v \in Nat : Parse(source, msg, v)
    BY <1>6, MessageParses
  <2>2. /\ mode = "config" /\ saving.step = "no" /\ saving.then = "none"
        /\ UNCHANGED <<flash, mode, fw>>
    BY <1>6, MessageParses DEF CommitOK
  <2>3. "upgrade" \in reboot' <=> "upgrade" \in reboot
    BY <2>1, ParseStores
  <2>4. CASE UNCHANGED <<ram, saving, hist>>
    <3>1. Apart
      BY <2>2, <2>3, <2>4 DEF Apart, SameResults
    <3> QED
      BY <3>1, ApartKeeps
  <2>5. CASE StoredPart(v)
    <3>1. PICK names \in SUBSET (Names \ {"result", "flag"}), more \in BOOLEAN :
            /\ ram' = Put(ram, names, v)
            /\ hist' = [hist EXCEPT !.partial = @ \/ more]
            /\ UNCHANGED saving
      BY <2>5 DEF StoredPart
    <3>2. ram'["result"] = ram["result"]
      BY <3>1, NamesAre, PutFields DEF TypeOK
    <3>3. SameResults /\ hist'.failed = hist.failed
      BY <3>1 DEF SameResults, TypeOK, Hists
    <3>4. Apart
      BY <2>2, <2>3, <3>1, <3>2, <3>3 DEF Apart
    <3> QED
      BY <3>4, ApartKeeps
  <2>6. CASE StoredAll(v)
    <3>1. PICK names \in Sets, then \in {"accepted", "accepted_serial"} :
            /\ ram' = [Put(ram, names, v) EXCEPT !.flag = 3]
            /\ saving' = [step |-> "erase", then |-> then, no |-> 0]
            /\ hist' = [hist EXCEPT !.mixed = @ \/ hist.partial]
      BY <2>6 DEF StoredAll
    <3>2. "result" \notin names
      BY <3>1, FieldsAre DEF Sets
    <3>3. ram'["result"] = ram["result"]
      <4>1. Put(ram, names, v)["result"] = ram["result"] /\ Put(ram, names, v) \in [Names -> Nat]
        BY <2>1, <3>2, NamesAre, PutFields DEF TypeOK
      <4> QED
        BY <3>1, <4>1, NamesAre
    <3>4. SameResults /\ hist'.failed = hist.failed
      BY <3>1 DEF SameResults, TypeOK, Hists
    <3>5. Apart
      BY <2>2, <2>3, <3>1, <3>3, <3>4 DEF Apart
    <3> QED
      BY <3>5, ApartKeeps
  <2> QED
    BY <2>1, <2>4, <2>5, <2>6, ParseStores
<1>7. CASE Restart
  <2>1. ram' = ram /\ flash' = flash /\ saving.step = "no"
    BY <1>7 DEF Restart, Saving
  <2>2. CASE Down("off", Erased) /\ fw' = fw
    BY <2>1, <2>2, DownKeeps DEF Down2, Erased
  <2>3. CASE "upgrade" \in reboot /\ fw' = [run |-> fw.other, other |-> fw.run]
             /\ Down("off", hist.updates)
    BY <2>1, <2>3, DownKeeps, HistTypes DEF Down2, Waiting
  <2> QED
    BY <1>7, <2>2, <2>3 DEF Restart
<1>8. CASE Reset
  <2>1. PICK how \in Down2 : Down(how, Erased)
    BY <1>8 DEF Reset, Down2
  <2>2. ram' = ram /\ fw' = fw
    BY <1>8 DEF Reset
  <2>3. flash'["result"] \in {flash["result"], ram["result"], Erased}
    BY <1>8, NamesAre DEF Reset, Put
  <2> QED
    BY <2>1, <2>2, <2>3, DownKeeps DEF Erased
<1>9. CASE Failsafe
  <2>1. /\ hist'.updates = hist.updates /\ hist'.good = hist.good /\ hist'.told = hist.told
        /\ hist'.failed = hist.failed /\ hist'.preempted = hist.preempted \cup {fw.run}
    BY <1>9 DEF Failsafe, TypeOK, Hists
  <2>2. reboot = {} /\ saving.then = "none" /\ mode' # "updating"
        /\ UNCHANGED <<flash, ram, saving, reboot>>
    BY <1>9 DEF Failsafe, CommitOK, Down2
  <2>3. UpdatesOK'
    BY <2>1, <2>2 DEF ResultsInv, UpdatesOK, Waiting
  <2>4. ASSUME ~hist.failed PROVE ToldOK' /\ KeptOK'
    <3>1. ToldOK'
      BY <2>1, <2>4 DEF ResultsInv, ToldOK
    <3>2. KeptOK'
      BY <2>1, <2>2, <2>4 DEF ResultsInv, KeptOK, Kept, Fresh, Result, Waiting
    <3> QED
      BY <3>1, <3>2
  <2> QED
    BY <2>1, <2>3, <2>4 DEF ResultsInv
<1>10. CASE OtaStart
  <2>1. saving.step = "no" /\ saving.then = "none" /\ mode = "normal"
        /\ UNCHANGED <<flash, ram, saving, reboot, fw>>
    BY <1>10 DEF OtaStart, Running, Saving, CommitOK
  <2>2. CASE "upgrade" \in reboot
    <3>1. Apart
      BY <1>10, <2>1, <2>2 DEF OtaStart, Apart, SameResults
    <3> QED
      BY <3>1, ApartKeeps
  <2>3. CASE "upgrade" \notin reboot
    <3>1. /\ hist'.updates = hist.updates + 1 /\ hist'.good = hist.good
          /\ hist'.told = hist.told /\ hist'.preempted = hist.preempted
          /\ hist'.failed = hist.failed
      BY <1>10, <2>3 DEF OtaStart, TypeOK, Hists
    <3>2. hist.updates \in Nat /\ flash["result"] \in Nat /\ ram["result"] \in Nat
      BY HistTypes, NamesAre DEF TypeOK
    <3>3. \A t \in ToSet(hist.told) : t.no \in Nat
      <4>1. DOMAIN hist.told = 1..Len(hist.told)
        BY HistTypes
      <4>2. \A i \in DOMAIN hist.told : hist.told[i] \in [no : Nat, ok : BOOLEAN, runs : BOOLEAN]
        BY <4>1, HistTypes, ElementOfSeq
      <4>3. \A i \in DOMAIN hist.told : hist.told[i].no \in Nat
        BY <4>2
      <4> QED
        BY <4>3 DEF ToSet
    <3>4. UpdatesOK'
      BY <2>1, <2>3, <3>1, <3>2 DEF ResultsInv, UpdatesOK, Waiting
    <3>5. ASSUME ~hist.failed PROVE ToldOK' /\ KeptOK'
      <4>1. ToldOK'
        BY <3>1, <3>2, <3>3, <3>5 DEF ResultsInv, ToldOK
      <4>2. Fresh(hist.updates)'
        BY <3>1, <3>2, <3>3, <3>5 DEF ResultsInv, ToldOK, Fresh
      <4>3. KeptOK'
        BY <2>1, <2>3, <3>1, <3>2, <3>5, <4>2
        DEF ResultsInv, KeptOK, Kept, Fresh, Result, Waiting
      <4> QED
        BY <4>1, <4>3
    <3> QED
      BY <3>1, <3>4, <3>5 DEF ResultsInv
  <2> QED
    BY <2>2, <2>3
<1>11. CASE OtaResponse
  <2>1. mode = "updating" /\ saving.step = "no" /\ saving.then = "none"
        /\ UNCHANGED <<flash, mode, reboot>>
    BY <1>11 DEF OtaResponse, Saving, CommitOK
  <2>2. PICK ok \in BOOLEAN :
            /\ saving' = [step |-> "erase", then |-> IF ok THEN "upgrade" ELSE "failed", no |-> 0]
            /\ fw' = (IF ok THEN [fw EXCEPT !.other = hist.updates] ELSE fw)
            /\ hist' = (IF ok THEN [hist EXCEPT !.good = @ \cup {hist.updates}] ELSE hist)
    BY <1>11 DEF OtaResponse, Save, SaveFor
  <2>3. /\ hist'.updates = hist.updates /\ hist'.told = hist.told
        /\ hist'.preempted = hist.preempted /\ hist'.failed = hist.failed
        /\ hist'.good = hist.good \cup (IF ok THEN {hist.updates} ELSE {})
    BY <2>2 DEF TypeOK, Hists
  <2>4. /\ fw'.run = fw.run /\ (ok => fw'.other = hist.updates)
        /\ saving'.step # "no" /\ (ok <=> saving'.then = "upgrade") /\ saving'.then # "report"
    BY <2>2 DEF TypeOK
  <2>5. ram'["result"] = hist.updates
    BY <1>11, NamesAre DEF OtaResponse, TypeOK
  <2>6. hist.updates \in Nat \ {0} /\ hist.updates \in 1..hist.updates
    BY <2>1, HistTypes DEF ResultsInv, UpdatesOK
  <2>7. UpdatesOK'
    BY <2>1, <2>3, <2>4, <2>5, <2>6 DEF ResultsInv, UpdatesOK, Waiting
  <2>8. ASSUME ~hist.failed PROVE ToldOK' /\ KeptOK'
    <3>1. ToldOK'
      BY <2>3, <2>8 DEF ResultsInv, ToldOK
    <3>2. KeptOK'
      BY <2>1, <2>3, <2>4, <2>5, <2>6, <2>8
      DEF ResultsInv, UpdatesOK, KeptOK, Kept, Fresh, Result, Waiting
    <3> QED
      BY <3>1, <3>2
  <2> QED
    BY <2>3, <2>7, <2>8 DEF ResultsInv
<1>12. CASE OtaFinishes
  <2>1. /\ saving.step = "done" /\ saving'.step = "no" /\ saving'.then = "none"
        /\ mode = "updating" /\ mode' = "normal" /\ UNCHANGED <<flash, ram, fw, hist>>
    BY <1>12 DEF OtaFinishes, Committed, Saving, NotSaving, CommitOK
  <2>2. /\ saving.then \in {"upgrade", "failed"}
        /\ "upgrade" \in reboot' <=> saving.then = "upgrade"
    BY <1>12, <2>1 DEF OtaFinishes, Committed, ResultsInv, UpdatesOK
  <2>3. UpdatesOK'
    BY <2>1, <2>2 DEF ResultsInv, UpdatesOK, Waiting
  <2>4. ASSUME ~hist.failed PROVE ToldOK' /\ KeptOK'
    <3>1. ToldOK'
      BY <2>1, <2>4 DEF ResultsInv, ToldOK
    <3>2. flash = ram /\ ram["result"] = hist.updates
      BY <2>1, <2>2, <2>4 DEF CommitOK, ResultsInv, UpdatesOK
    <3>3. KeptOK'
      BY <2>1, <2>2, <2>4, <3>2 DEF ResultsInv, UpdatesOK, KeptOK, Kept, Fresh,
         Result, Waiting
    <3> QED
      BY <3>1, <3>3
  <2> QED
    BY <2>1, <2>3, <2>4 DEF ResultsInv
<1>13. CASE ConfirmHello
  <2>1. /\ mode \in {"normal", "stalled"} /\ saving.step = "no" /\ saving.then = "none"
        /\ UNCHANGED <<flash, mode, reboot, fw, hist>>
    BY <1>13 DEF ConfirmHello, Saving, CommitOK
  <2>2. /\ Result(ram["result"]) /\ ram'["result"] = 0
        /\ saving'.then = "report" /\ saving'.no = ram["result"]
    BY <1>13, NamesAre DEF ConfirmHello, SaveFor, Result, TypeOK
  <2>3. UpdatesOK'
    BY <2>1, <2>2 DEF ResultsInv, UpdatesOK, Waiting
  <2>4. ASSUME ~hist.failed PROVE ToldOK' /\ KeptOK'
    <3>1. ToldOK'
      BY <2>1, <2>4 DEF ResultsInv, ToldOK
    <3>2. KeptOK'
      BY <2>1, <2>2, <2>4 DEF ResultsInv, KeptOK, Kept, Fresh, Result, Waiting
    <3> QED
      BY <3>1, <3>2
  <2> QED
    BY <2>1, <2>3, <2>4 DEF ResultsInv
<1>14. CASE ResultSent
  <2>1. /\ saving.step = "done" /\ saving.then = "report" /\ saving'.step = "no"
        /\ saving'.then = "none" /\ UNCHANGED <<flash, ram, mode, reboot, fw>>
    BY <1>14 DEF ResultSent, Committed, Saving, NotSaving
  <2> DEFINE n == saving.no
             told == hist.told
  <2>2. /\ hist'.updates = hist.updates /\ hist'.good = hist.good
        /\ hist'.preempted = hist.preempted /\ hist'.failed = hist.failed
        /\ hist'.told = Append(told, Told(n))
    BY <1>14 DEF ResultSent, TypeOK, Hists
  <2>3. UpdatesOK'
    BY <2>1, <2>2 DEF ResultsInv, UpdatesOK, Waiting
  <2>4. mode # "updating"
    BY <2>1 DEF CommitOK
  <2>5. ASSUME ~hist.failed PROVE ToldOK' /\ KeptOK'
    <3>1. flash["result"] = 0 /\ ram["result"] = 0 /\ Result(n) /\ Kept(n)
      BY <2>1, <2>5 DEF CommitOK, ResultsInv, KeptOK
    <3>2. KeptOK'
      BY <2>1, <2>4, <3>1 DEF KeptOK, Kept, Result
    <3>3. Told(n) \in [no : Nat, ok : BOOLEAN, runs : BOOLEAN]
      BY DEF Told, TypeOK, Saves
    <3>4. told \in Seq([no : Nat, ok : BOOLEAN, runs : BOOLEAN])
      BY HistTypes
    <3>5. /\ DOMAIN Append(told, Told(n)) = 1..(Len(told) + 1) /\ DOMAIN told = 1..Len(told)
          /\ Len(told) \in Nat
          /\ \A i \in 1..Len(told) : Append(told, Told(n))[i] = told[i]
          /\ Append(told, Told(n))[Len(told) + 1] = Told(n)
      BY <3>3, <3>4
    <3>6. Told(n).no = n
      BY DEF Told
    <3>7. Told(n).ok /\ ~Told(n).runs => n \in hist.preempted
      BY <2>1, <3>1 DEF Told, Kept, Waiting
    <3>8. \A i \in 1..Len(told) : told[i].no # n
      BY <3>1, <3>5 DEF Kept, Fresh, ToSet
    <3>9. ToSet(hist'.told) = ToSet(told) \cup {Told(n)}
      BY <2>2, <3>5 DEF ToSet
    <3>10. \A i, j \in DOMAIN hist'.told : i # j => hist'.told[i].no # hist'.told[j].no
      <4> DEFINE now == Append(told, Told(n))
      <4>1. \A i, j \in 1..Len(told) : i # j => told[i].no # told[j].no
        BY <2>5, <3>5 DEF ResultsInv, ToldOK
      <4>2. \A i \in 1..(Len(told) + 1) : i \in 1..Len(told) \/ i = Len(told) + 1
        BY <3>5
      <4> HIDE DEF now, told, n
      <4>3. \A i, j \in 1..(Len(told) + 1) : i # j => now[i].no # now[j].no
        BY <3>5, <3>6, <3>8, <4>1, <4>2 DEF now
      <4> QED
        BY <2>2, <3>5, <4>3 DEF now
    <3>11. n <= hist.updates
      BY <3>1 DEF Kept
    <3>12. ToldOK'
      BY <2>2, <2>5, <3>6, <3>7, <3>9, <3>10, <3>11 DEF ResultsInv, ToldOK
    <3> QED
      BY <3>2, <3>12
  <2> QED
    BY <2>2, <2>3, <2>5 DEF ResultsInv
<1>15. CASE UNCHANGED vars
  BY <1>15 DEF vars, ResultsInv, UpdatesOK, ToldOK, KeptOK, Kept, Fresh, Result, Waiting
<1> QED
  BY <1>1, <1>2, <1>3, <1>4, <1>5, <1>6, <1>7, <1>8, <1>9, <1>10, <1>11, <1>12, <1>13,
     <1>14, <1>15
  DEF Next, NodeSteps

\* The result of an update is told once, and a success only when the new firmware runs or
\* is about to, but for a reset, the failsafe or a sector that could not be written
\* (ResultsTold; ota_response, connection_confirm_hello).
THEOREM ResultsOnce == Spec => []ResultsTold
<1>1. Init => ResultsInv
  <2> SUFFICES ASSUME Init PROVE ResultsInv
    OBVIOUS
  <2>1. /\ flash["result"] \in {0, Erased} /\ ram["result"] \in {0, Erased}
        /\ saving.then = "none" /\ reboot = {} /\ mode = "off"
        /\ hist.updates = 0 /\ hist.good = {} /\ hist.told = <<>>
    BY TypesAtFirst, NamesAre DEF Init, TypeOK, NotSaving, Put
  <2>2. DOMAIN hist.told = {} /\ ToSet(hist.told) = {}
    BY <2>1 DEF ToSet
  <2> QED
    BY <2>1, <2>2 DEF ResultsInv, UpdatesOK, ToldOK, KeptOK, Kept, Fresh, Result, Waiting
<1>2. TypeOK /\ ResultsInv => ResultsTold
  BY DEF ResultsInv, ToldOK, ResultsTold
<1> QED
  BY <1>1, <1>2, ResultsKept, TypesHold, PTL DEF Spec
=============================================================================
