---------------------------- MODULE UserProgram ----------------------------
(***************************************************************************)
(* What a user's program on the node shows of itself (wio.cpp, and the     *)
(* events of rpc_server.cpp and rpc_queue.h): variables that can be read   *)
(* and written, functions that can be called, and events it posts.  The    *)
(* program is its calls of the Wio object, at any time, and its changes of *)
(* its own variables.                                                      *)
(***************************************************************************)
EXTENDS Integers, Sequences, FiniteSets

CONSTANTS
    Numbers,    \* the program's variables of a number type
    TypeOf,     \* their types: [signed, bits]
    Functions,  \* its functions that take a text
    Arguments,  \* the numbers a request may carry
    Texts,      \* the texts its String may have, by their lengths
    NameSet,    \* the names it registers variables by
    MaxSize,    \* _max_size of a queue, 100
    Plans       \* bounds: registrations, requests, changes of variables, events and what
                \* they carry, moves of the String, whether there may be no memory

UserProgramAssumption ==
    /\ TypeOf \in [Numbers -> [signed : BOOLEAN, bits : Nat \ {0}]]
    /\ Arguments \subseteq Int /\ MaxSize \in Nat \ {0}

VARIABLES
    value,    \* the number variables
    string,   \* the String: the address, capacity and length of its buffer
    methods,  \* the resources registered, and Wio's list of variables
    queue,    \* event_q_external and event_q_internal
    told,     \* what the last request or event said, and what the program has or had
    left      \* what is left of the plan

vars == <<value, string, methods, queue, told, left>>

\* What a request may be answered besides a value; a buffer that is freed holds anything.
NotRegistered == -100
Garbage == -101

\* Where a value is: in a variable, in a buffer, in the event itself.
Text == "the String"
Var(v) == <<"variable", v>>
Buffer(addr) == <<"buffer", addr>>
Copy == <<"copy", 0>>
Nothing == <<"nothing", 0>>
Range_(type) ==
    IF type.signed THEN (-2^(type.bits - 1))..(2^(type.bits - 1) - 1) ELSE 0..(2^type.bits - 1)

Empty == [front |-> 0, back |-> 0, size |-> 0, next |-> <<>>, events |-> <<>>]

Init ==
    /\ \E plan \in Plans : left = plan
    /\ value = [v \in Numbers |-> 0]
    /\ string = [addr |-> 1, cap |-> 0, text |-> 0, freed |-> {}]
    /\ methods = [reads |-> <<>>, writes |-> <<>>, variables |-> <<>>, calls |-> <<>>, functions |-> <<>>]
    /\ queue = [q \in {"external", "internal"} |-> Empty]
    /\ told = [got |-> 0, want |-> 0, excuse |-> "none"]

Spend(what) == left[what] > 0 /\ left' = [left EXCEPT ![what] = @ - 1]

-----------------------------------------------------------------------------
(* Variables.                                                              *)

\* The list is searched from its head.
Find(list, name) ==
    IF \E i \in DOMAIN list : list[i].name = name
    THEN list[CHOOSE i \in DOMAIN list : list[i].name = name /\ \A j \in 1..(i - 1) : list[j].name # name]
    ELSE [name |-> name, at |-> Nothing]

\* What a variable is kept as: a String is its buffer's address of today.
Pointer(v) == IF v = Text THEN Buffer(string.addr) ELSE Var(v)

\* The methods and the entry of Wio's list are made each by itself, if there is memory.
Register(lists, entry) ==
    /\ Spend("registrations")
    /\ \E memory \in SUBSET lists :
        /\ memory # lists => left.failures > 0
        /\ methods' = [list \in DOMAIN methods |->
             IF list \in memory THEN Append(methods[list], entry) ELSE methods[list]]
    /\ UNCHANGED <<value, string, queue, told>>

\* _registerVar
RegisterVar(name, v) ==
    Register({"reads", "writes", "variables"}, [name |-> name, at |-> Pointer(v), is |-> v])

\* registerFunc
RegisterFunc(name, f) ==
    Register({"calls", "functions"}, [name |-> name, at |-> <<"function", f>>, is |-> f])

\* The program's String gets another text: copy() keeps the buffer if the text fits, else
\* os_realloc extends it or moves it.
AssignString(t) ==
    /\ Spend("changes")
    /\ \/ /\ t <= string.cap
          /\ string' = [string EXCEPT !.text = t]
       \/ /\ t > string.cap
          /\ string' = [string EXCEPT !.text = t, !.cap = t]
       \/ /\ t > string.cap /\ left.moves > 0
          /\ string' = [addr |-> string.addr + 1, cap |-> t, text |-> t,
                        freed |-> string.freed \cup {string.addr}]
    /\ UNCHANGED <<value, methods, queue, told>>

AssignNumber(v, n) ==
    /\ Spend("changes") /\ value[v] # n
    /\ value' = [value EXCEPT ![v] = n]
    /\ UNCHANGED <<string, methods, queue, told>>

\* writer_print of what a pointer leads to.
Shown(at) ==
    CASE at[1] = "variable" -> value[at[2]]
      [] at[1] = "buffer"   -> IF at[2] = string.addr THEN string.text ELSE Garbage
      [] OTHER              -> NotRegistered

\* What the program means by a name: what it registered by it, last of all.
All(list, name) == {i \in DOMAIN list : list[i].name = name}
Meant(list, name) ==
    IF All(list, name) = {} THEN Nothing
    ELSE Var(list[CHOOSE i \in All(list, name) : \A j \in All(list, name) : i >= j].is)
Present(v) == IF v = Nothing THEN NotRegistered ELSE IF v[2] = Text THEN string.text ELSE value[v[2]]

Twice(list, name) == Cardinality(All(list, name)) > 1
Moved(at) == at[1] = "buffer" /\ at[2] \in string.freed
Why(name) ==
    LET found == Find(methods.variables, name)
    IN  IF Twice(methods.variables, name) THEN "twice" ELSE IF Moved(found.at) THEN "moved" ELSE "none"

\* __plugin_variable_read
ReadVariable(name) ==
    /\ Spend("requests")
    /\ LET found == Find(methods.variables, name)
       IN  /\ Find(methods.reads, name).at # Nothing
           /\ told' = [got |-> Shown(found.at), want |-> Present(Meant(methods.variables, name)),
                         excuse |-> Why(name)]
    /\ UNCHANGED <<value, string, methods, queue>>

\* __convert_arg takes a number for an unsigned type as its absolute value; what the
\* type has no room for is cut off.
Abs(n) == IF n < 0 THEN -n ELSE n
Wrapped(type, n) ==
    LET size == 2^type.bits
        low == n % size
    IN  IF type.signed /\ low >= size \div 2 THEN low - size ELSE low
ConvertUnsigned(type, n) == Wrapped([type EXCEPT !.signed = FALSE], Abs(n))
ConvertArg(type, n) == Wrapped(type, IF type.signed THEN n ELSE Abs(n))

\* __plugin_variable_write; the method converts by the type it was registered with, the
\* variable is written by its own.
WriteVariable(name, n) ==
    /\ Spend("requests")
    /\ LET method == Find(methods.writes, name)
           found == Find(methods.variables, name)
           type == TypeOf[found.at[2]]
       IN  /\ method.at # Nothing
           /\ \/ /\ found.at[1] = "variable" /\ method.at[1] = "variable"
                 /\ value' = [value EXCEPT ![found.at[2]] =
                        Wrapped(type, ConvertArg(TypeOf[method.at[2]], n))]
                 /\ told' = [got |-> value'[found.at[2]],
                             want |-> IF n \in Range_(type) THEN n ELSE value'[found.at[2]],
                             excuse |-> IF method.at # found.at THEN "types" ELSE "none"]
              \/ /\ found.at[1] = "variable" /\ method.at[1] = "buffer"   \* the argument's address
                 /\ \E n2 \in Range_(type) : value' = [value EXCEPT ![found.at[2]] = n2]
                 /\ told' = [got |-> 0, want |-> 0, excuse |-> "types"]
              \/ /\ found.at[1] # "variable"     \* a string cannot be written, or not registered
                 /\ UNCHANGED <<value, told>>
    /\ UNCHANGED <<string, methods, queue>>

FindFunction(name) == Find(methods.functions, name)

\* __plugin_function_write: the function is called with the text that the argument, which
\* may be no base64, stands for; it is decoded in its own place.
CallFunction(name, arg, legal) ==
    /\ Spend("requests")
    /\ Find(methods.calls, name).at # Nothing
    /\ LET found == FindFunction(name)
       IN  told' = [got |-> IF found.at = Nothing \/ ~legal THEN <<>> ELSE <<found.is, arg>>,
                    want |-> IF All(methods.functions, name) = {} \/ ~legal THEN <<>>
                             ELSE <<Meant(methods.functions, name)[2], arg>>,
                    excuse |-> IF Twice(methods.functions, name) THEN "twice" ELSE "none"]
    /\ UNCHANGED <<value, string, methods, queue>>

-----------------------------------------------------------------------------
(* Events.  A queue is a list of the events' numbers.                      *)

\* Queue::push; back is looked at only when there is a front.
PushBehindBack(q, e) ==
    IF q.back = 0 THEN [q EXCEPT !.front = e, !.back = e] ELSE [q EXCEPT !.next[q.back] = e, !.back = e]
PushBehind(q, e) ==
    IF q.front = 0 THEN [q EXCEPT !.front = e, !.back = e] ELSE [q EXCEPT !.next[q.back] = e, !.back = e]

Push(q, ev) ==
    LET e == Len(q.events) + 1
        grown == [q EXCEPT !.events = Append(@, ev), !.next = Append(@, 0), !.size = @ + 1]
    IN  IF q.size >= MaxSize THEN q ELSE PushBehind(grown, e)

\* Queue::pop
Pop(q) == [q EXCEPT !.front = q.next[@], !.size = @ - 1]

\* rpc_server_event_put_data copies a number; of a text it keeps the address.
PutData(v) == [at |-> IF v = Text THEN Buffer(string.addr) ELSE Copy, is |-> Present(Var(v))]

\* An event is for the server; an event of a driver is kept for the program too.
PostEvent(v, driver) ==
    /\ Spend("events")
    /\ \E memory \in SUBSET {"external", "internal"} :
        /\ memory # {"external", "internal"} => left.failures > 0
        /\ queue' = [q \in DOMAIN queue |->
             IF q \in memory /\ (q = "external" \/ driver) THEN Push(queue[q], PutData(v)) ELSE queue[q]]
    /\ UNCHANGED <<value, string, methods, told>>

\* Wio::postEvent; rpc_server_event_report.
UserPosts(v) == PostEvent(v, FALSE)
DriverPosts(v) == PostEvent(v, TRUE)

\* The next event is taken from a queue and told.
TakeEvent(q) ==
    /\ queue[q].size > 0 /\ queue[q].front # 0
    /\ queue' = [queue EXCEPT ![q] = Pop(@)]
    /\ LET ev == queue[q].events[queue[q].front]
       IN  told' = [got |-> IF ev.at = Copy THEN ev.is ELSE Shown(ev.at), want |-> ev.is,
                    excuse |-> IF ev.at = Copy THEN "none" ELSE "reference"]
    /\ UNCHANGED <<value, string, methods, left>>

\* drain_event_queue; Wio::getEvent.
DrainEvent == TakeEvent("external")
GetEvent == TakeEvent("internal")

-----------------------------------------------------------------------------
Next ==
    \/ \E name \in NameSet :
        \/ \E v \in Numbers \cup {Text} : RegisterVar(name, v)
        \/ \E f \in Functions : RegisterFunc(name, f)
        \/ ReadVariable(name)
        \/ \E arg \in Texts, legal \in BOOLEAN : CallFunction(name, arg, legal)
        \/ \E n \in Arguments : WriteVariable(name, n)
    \/ \E t \in Texts : AssignString(t)
    \/ \E v \in Numbers : \E n \in {0, 1} : AssignNumber(v, n)
    \/ \E v \in left.posts : UserPosts(v) \/ DriverPosts(v)
    \/ DrainEvent \/ GetEvent

Spec == Init /\ [][Next]_vars

-----------------------------------------------------------------------------

\* The events of a queue that are still to be told, from its front on.
Waiting(q) ==
    LET From[e \in 0..Len(q.events)] == IF e = 0 THEN <<>> ELSE <<e>> \o From[q.next[e]]
    IN  From[q.front]

\* The server and the program are told the truth: a read gives the variable's present value,
\* a number in the range of its type is written as it is, a call reaches the function of its
\* name with the text sent, and an event says what it was posted with, in the order of the
\* posts, and none in the queue is lost.  (Excuses: a name registered "twice" serves the
\* first variable or function; a String whose buffer has "moved" is read where it was; a
\* write is converted by the "types" of the first method of the name; an event with a text
\* is a "reference" to the String's buffer.)
ProgramSeen ==
    /\ told.got = told.want \/ told.excuse \in {"twice", "moved", "types", "reference"}
    /\ \A q \in DOMAIN queue :
        LET w == Waiting(queue[q])
            n == Len(queue[q].events)
        IN  /\ Len(w) = queue[q].size
            /\ \A i \in 1..Len(w) : w[i] = n - Len(w) + i
=============================================================================
