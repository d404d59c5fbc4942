---------------------------- MODULE BuildThreads -----------------------------
(***************************************************************************)
(* How the firmware a user asks for is built (FirmwareBuildingHandler of   *)
(* handlers.py, build_firmware.py): the handler keeps the configuration in *)
(* the node's build directory, and a thread per build generates and        *)
(* compiles the sources there.  The threads of all nodes share the         *)
(* module's error_msg and GEN_DIR and the environment of the process.      *)
(*                                                                         *)
(* A configuration is named by the trigger that brought it; the plan says  *)
(* what is wrong with it:                                                  *)
(*   "port"   a later grove is at a port the board does not have           *)
(*   "first"  so is the first one                                          *)
(*   "sku"    a grove is not known                                         *)
(*   "type"   an argument of a grove has a type that is not supported      *)
(*   "source" the sources do not compile                                   *)
(*   "raise"  a grove of a yaml has no arguments: gen_and_build raises     *)
(***************************************************************************)
EXTENDS Integers, Sequences, FiniteSets

CONSTANTS
    Nodes,
    Plans      \* the triggers of a behaviour: [node, phases, kind, fault]

BuildThreadsAssumption ==
    \A plan \in Plans :
        /\ plan \in Seq([node : Nodes, phases : {{1}, {2}, {1, 2}}, kind : {"json", "yaml"},
                         fault : {"none", "port", "first", "sku", "type", "source", "raise"}])
        /\ \A t \in DOMAIN plan :
              /\ plan[t].fault \in {"port", "first"} => plan[t].kind = "json"
              /\ plan[t].fault = "raise" => plan[t].kind = "yaml"

VARIABLES
    asked,     \* the triggers, and how many have come
    build,     \* each trigger's place and what its thread knows
    disk,      \* each node's build directory
    shared,    \* error_msg, GEN_DIR and the environment
    accepted   \* the configuration each node's last accepted trigger of phase 1 brought

threads == <<asked, build, disk, shared, accepted>>

No == 0
NoBuild == [step |-> "to come", apps |-> {}, config |-> No, want |-> No, firmware |-> <<>>,
            ok |-> TRUE, told |-> "nothing", relies |-> {}, excuses |-> {}]

ThreadsInit ==
    /\ \E plan \in Plans : asked = [plan |-> plan, come |-> 0]
    /\ build = [t \in DOMAIN asked.plan |-> NoBuild]
    /\ disk = [n \in Nodes |-> [json |-> No, yaml |-> No, reg |-> No, wrappers |-> {}]]
    /\ shared = [error |-> "", dir |-> No, groves |-> <<No, No>>, app |-> No]
    /\ accepted = [n \in Nodes |-> No]

Of(t) == asked.plan[t]
At(t, step) == t \in DOMAIN build /\ build[t].step = step

\* A thread that changes some of what is shared relies on its own values from then on, and
\* those that relied on theirs are misled.
Set(values) ==
    shared' = [x \in DOMAIN shared |-> IF x \in DOMAIN values THEN values[x] ELSE shared[x]]

Misled(t, names) ==
    [u \in DOMAIN build |->
        IF u = t THEN [build[u] EXCEPT !.relies = @ \cup names]
        ELSE [build[u] EXCEPT !.excuses = @ \cup (build[u].relies \cap names)]]

\* What t relies on no more.
Done(b, names) == [b EXCEPT !.relies = @ \ names]

-----------------------------------------------------------------------------
(* The handler.                                                            *)

\* Without a second phase the handler does not wait for an answer.
MayHandle(t) == \A u \in DOMAIN build : At(u, "app") /\ 2 \notin Of(u).phases => u = t

\* post: the configuration is written before anything is checked.
Trigger ==
    /\ asked.come < Len(asked.plan) /\ MayHandle(asked.come + 1)
    /\ asked' = [asked EXCEPT !.come = @ + 1]
    /\ LET t == asked.come + 1
           file == Of(t).kind
       IN  /\ disk' = IF 1 \in Of(t).phases THEN [disk EXCEPT ![Of(t).node][file] = t] ELSE disk
           /\ build' = [build EXCEPT ![t].step = "app"]
    /\ UNCHANGED <<shared, accepted>>

\* Mutant: a thread that runs is not looked for.
NoneRuns(n) == FALSE

Runs(n) ==
    \E t \in DOMAIN build :
        Of(t).node = n /\ build[t].step \notin {"to come", "app", "refused", "done", "died"}

\* The node has told which application it runs, or not; then the thread is started.
StartThread(t) ==
    /\ At(t, "app") /\ MayHandle(t)
    /\ LET n == Of(t).node
       IN  IF Runs(n)
           THEN build' = [build EXCEPT ![t].step = "refused"] /\ UNCHANGED accepted
           ELSE \E apps \in IF 2 \in Of(t).phases THEN {{1}, {2}, {1, 2}} ELSE {{1, 2}} :
                  /\ accepted' = IF 1 \in Of(t).phases THEN [accepted EXCEPT ![n] = t]
                                 ELSE accepted
                  /\ build' = [build EXCEPT ![t].step = "load", ![t].apps = apps,
                                            ![t].want = accepted'[n]]
    /\ UNCHANGED <<asked, disk, shared>>

-----------------------------------------------------------------------------
(* gen_and_build, in the thread.                                           *)

\* The thread returns False, with its reason in error_msg.
FailsFor(t, reason, excuses) ==
    /\ Set([error |-> reason])
    /\ build' = [Misled(t, {"error"}) EXCEPT ![t].step = "tell", ![t].ok = FALSE,
                                             ![t].excuses = @ \cup excuses]

Fails(t, reason) == FailsFor(t, reason, {})

\* The configuration that was sent, else connection_config.json, else
\* connection_config.yaml.
JsonOf(t) == IF Of(t).kind = "json" /\ 1 \in Of(t).phases THEN t ELSE disk[Of(t).node].json
Excuse(t, c) ==
    IF c = build[t].want THEN {}
    ELSE IF build[t].want = No THEN {"other trigger"}
    ELSE IF Of(c).kind = "json" /\ Of(build[t].want).kind = "yaml" THEN {"old json"}
    ELSE {"other trigger"}

Loads(t, c, excuses) ==
    build' = [build EXCEPT ![t].step = "dir", ![t].config = c,
                           ![t].excuses = @ \cup excuses]

LoadConfig(t) ==
    /\ At(t, "load")
    /\ LET n == Of(t).node
           json == JsonOf(t)
           fault == IF json = No THEN "none" ELSE Of(json).fault
       IN  \/ json # No /\ fault = "sku" /\ FailsFor(t, "sku", Excuse(t, json))
              /\ UNCHANGED disk
           \/ /\ json # No /\ fault \in {"none", "type", "source"}
              /\ Loads(t, json, Excuse(t, json))
              /\ disk' = [disk EXCEPT ![n].yaml = json]
              /\ UNCHANGED shared
           \/ /\ json # No /\ fault = "port"         \* what was raised is forgotten
              /\ Set([error |-> "port"])
              /\ build' = [Misled(t, {"error"}) EXCEPT
                    ![t].step = "dir", ![t].config = json,
                    ![t].excuses = @ \cup {"partly"} \cup Excuse(t, json)]
              /\ UNCHANGED disk
           \/ /\ json = No \/ fault = "first"
              /\ IF disk[n].yaml = No
                 THEN FailsFor(t, "no file", IF json = No THEN {} ELSE Excuse(t, json))
                 ELSE IF fault = "first"
                 THEN /\ Set([error |-> "port"])
                      /\ build' = [Misled(t, {"error"}) EXCEPT
                            ![t].step = "dir", ![t].config = disk[n].yaml,
                            ![t].excuses = @ \cup {"old yaml"}]
                 ELSE Loads(t, disk[n].yaml, Excuse(t, disk[n].yaml)) /\ UNCHANGED shared
              /\ UNCHANGED disk
    /\ UNCHANGED <<asked, accepted>>

\* GEN_DIR
SetGenDir(t) ==
    /\ At(t, "dir")
    /\ Set([dir |-> Of(t).node])
    /\ build' = [Misled(t, {"dir"}) EXCEPT ![t].step = "wrapper"]
    /\ UNCHANGED <<asked, disk, accepted>>

\* gen_wrapper_registration: its files are opened in GEN_DIR, and error_msg is emptied.
GenWrapper(t) ==
    /\ At(t, "wrapper") /\ Of(build[t].config).fault # "raise"
    /\ IF Of(build[t].config).fault = "sku"                  \* a yaml's grove
       THEN Fails(t, "sku") /\ UNCHANGED disk
       ELSE /\ disk' = [disk EXCEPT ![shared.dir].wrappers = @ \cup {build[t].config}]
            /\ Set([error |-> ""])
            /\ build' = [Misled(t, {"error"}) EXCEPT
                  ![t] = [Done(@, {"dir"}) EXCEPT
                    !.step = IF Of(build[t].config).fault = "type" THEN "type" ELSE "check"]]
    /\ UNCHANGED <<asked, accepted>>

\* An exception outside any try, perhaps after the wrapper of another grove: the thread is
\* gone, and nobody is told.
ThreadDies(t) ==
    /\ At(t, "wrapper") /\ Of(build[t].config).fault = "raise"
    /\ \/ /\ build' = [build EXCEPT ![t].step = "died"]
          /\ UNCHANGED shared
       \/ /\ Set([error |-> ""])
          /\ build' = [Misled(t, {"error"}) EXCEPT ![t].step = "died"]
    /\ UNCHANGED <<asked, disk, accepted>>

UnknownType(t) ==
    /\ At(t, "type")
    /\ Set([error |-> "type"])
    /\ build' = [Misled(t, {"error"}) EXCEPT ![t].step = "check"]
    /\ UNCHANGED <<asked, disk, accepted>>

\* The wrapper failed if error_msg is not empty; then the registration is written.
CheckWrapper(t) ==
    /\ At(t, "check")
    /\ IF shared.error # ""
       THEN /\ build' = [build EXCEPT ![t].step = "tell", ![t].ok = FALSE]
            /\ UNCHANGED disk
       ELSE /\ disk' = [disk EXCEPT ![Of(t).node].reg = build[t].config]
            /\ build' = [build EXCEPT ![t] = [Done(@, {"error"}) EXCEPT
                            !.step = IF 2 \in Of(t).phases THEN "environment" ELSE "tell"]]
    /\ UNCHANGED <<asked, shared, accepted>>

\* os.putenv of what the Makefile takes from the environment, and of the application.
PutEnv(t) ==
    /\ At(t, "environment")
    /\ Set([groves |-> <<build[t].config, Of(t).node>>])
    /\ build' = [Misled(t, {"groves"}) EXCEPT ![t].step = "application"]
    /\ UNCHANGED <<asked, disk, accepted>>

PutApp(t) ==
    /\ At(t, "application") /\ Len(build[t].firmware) < Cardinality(build[t].apps)
    /\ LET n == Len(build[t].firmware) + 1
           app == CHOOSE a \in build[t].apps : Cardinality({b \in build[t].apps : b <= a}) = n
       IN  Set([app |-> app])
    /\ build' = [Misled(t, {"app"}) EXCEPT ![t].step = "make"]
    /\ UNCHANGED <<asked, disk, accepted>>

\* make: with the files of its directory and the environment as it is.
Make(t) ==
    /\ At(t, "make")
    /\ LET n == Of(t).node
           made == [reg |-> disk[n].reg, groves |-> shared.groves[1],
                    name |-> shared.groves[2], app |-> shared.app,
                    complete |-> disk[n].reg \in disk[n].wrappers]
       IN  \/ /\ Of(made.reg).fault # "source"
              /\ build' = [build EXCEPT ![t].firmware = Append(@, made),
                                        ![t].step = "application"]
              /\ UNCHANGED shared
           \/ /\ Of(made.reg).fault = "source" \/ made.groves # made.reg \/ ~made.complete
              /\ Fails(t, "source")
    /\ UNCHANGED <<asked, disk, accepted>>

Made(t) ==
    /\ At(t, "application") /\ Len(build[t].firmware) = Cardinality(build[t].apps)
    /\ build' = [build EXCEPT ![t] = [Done(@, {"groves", "app"}) EXCEPT !.step = "tell"]]
    /\ UNCHANGED <<asked, disk, shared, accepted>>

\* build_thread, get_error_msg
Tell(t) ==
    /\ At(t, "tell")
    /\ build' = [build EXCEPT ![t].step = "done", ![t].relies = {},
                   ![t].told = IF build[t].ok THEN "ok" ELSE shared.error]
    /\ UNCHANGED <<asked, disk, shared, accepted>>

ThreadsNext ==
    \/ Trigger
    \/ \E t \in DOMAIN build :
        \/ StartThread(t) \/ LoadConfig(t) \/ SetGenDir(t) \/ GenWrapper(t) \/ ThreadDies(t)
        \/ UnknownType(t) \/ CheckWrapper(t) \/ PutEnv(t) \/ PutApp(t) \/ Make(t) \/ Made(t) \/ Tell(t)

ThreadsSpec == ThreadsInit /\ [][ThreadsNext]_threads

-----------------------------------------------------------------------------

\* What the user should be told of a configuration; nothing is compiled without a second phase.
Right(t, c) ==
    IF c = No \/ Of(c).fault = "first" THEN "no file"
    ELSE IF Of(c).fault = "none" \/ (Of(c).fault = "source" /\ 2 \notin Of(t).phases) THEN "ok"
    ELSE Of(c).fault

\* A build that is done has told its user what is wrong with the configuration, or has made
\* the firmware of it, whole, with the node's own name, for the applications it was to make;
\* whatever other nodes build meanwhile, and whatever triggers are refused.  A build that
\* died has told nothing.  (Excuses: what the thread relied on, "error", "dir", "groves" (with the node's name) or "app", was
\* changed by another thread; an error of a port is forgotten and what came before it is
\* built "partly", or the "old yaml" is; a yaml is not looked at beside an "old json"; the
\* file was replaced by an "other trigger", which may have been refused.)
BuildsWhatWasAsked ==
    \A t \in DOMAIN build :
        LET b == build[t]
        IN  b.step = "done" /\ b.excuses = {} =>
              /\ b.told = Right(t, b.want)
              /\ b.told = "ok" /\ 2 \in Of(t).phases =>
                    /\ {b.firmware[i].app : i \in DOMAIN b.firmware} = b.apps
                    /\ \A i \in DOMAIN b.firmware :
                        LET f == b.firmware[i]
                        IN  /\ f.reg = b.want /\ f.groves = b.want
                            /\ f.name = Of(t).node /\ f.complete
=============================================================================
