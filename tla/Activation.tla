------------------------------ MODULE Activation ------------------------------
(***************************************************************************)
(* Writing and activating a list of objects: sap/cli/object.py (commands   *)
(* write and activate), sap/cli/wb.py (ObjectActivationWorker, the mass    *)
(* activation of checkin) and sap/adt/wb.py (the two requests of an        *)
(* activation).  "define" stands for the commands that write one object    *)
(* and activate it without looking at the outcome (dataelement define,     *)
(* badi set-active).                                                       *)
(*                                                                         *)
(* The server decides what gets activated and what it has to say about it; *)
(* sapcli only learns the messages and, after fetching it, whether the     *)
(* object is active.                                                       *)
(***************************************************************************)
EXTENDS Integers, Sequences, FiniteSets, Functions

CONSTANTS Objects,        \* repository objects
          MaxNames,       \* bound: names given to one command
          MaxMessages     \* bound: messages in one activation result

VARIABLES command,        \* which command runs
          activateToo,    \* the option -a of write and define
          continueOnErrors, warningsAsErrors,    \* options of the worker
          names,          \* the names or files given on the command line
          phase,          \* what the command does next
          pos,            \* position in names (writing) or todo (activating)
          todo,           \* the objects to activate, in order
          ioc,            \* inactive objects the server listed
          messages,       \* messages of the activation result at hand
          seen,           \* adt_object.active after fetch()
          stats,          \* ObjectActivationStats
          rc,             \* how the command ended
          inactive,       \* server: objects with an inactive version
          deleted,        \* server: inactive objects that are deletions
          written,        \* history: names whose write was accepted
          requested,      \* history: objects any final request has named
          bad             \* history: pos of objects with an error message

options == <<command, activateToo, continueOnErrors, warningsAsErrors, names>>
vars == <<options, phase, pos, todo, ioc, messages, seen, stats, rc, inactive,
          deleted, written, requested, bad>>

Commands == {"write", "activate", "define", "mass"}
MessageTypes == {"E", "W", "I"}

\* Sequences of at most n elements.
Lists(S, n) == UNION {[1 .. m -> S] : m \in 0 .. n}

MessageLists == Lists(MessageTypes, MaxMessages)

Init ==
    /\ command \in Commands
    /\ activateToo \in IF command \in {"write", "define"} THEN BOOLEAN ELSE {TRUE}
    /\ continueOnErrors \in BOOLEAN /\ warningsAsErrors \in BOOLEAN
    /\ names \in Lists(Objects, MaxNames) \ {<<>>}
    /\ command = "define" =>
          Len(names) = 1 /\ ~continueOnErrors /\ ~warningsAsErrors
    /\ command = "mass" => IsInjective(names) /\ ~continueOnErrors /\ ~warningsAsErrors
    /\ phase = IF command \in {"write", "define"} THEN "write" ELSE "activate"
    /\ pos = 1
    /\ todo = IF command \in {"write", "define"} THEN <<>> ELSE names
    /\ ioc = {}
    /\ messages = <<>>
    /\ seen = TRUE
    /\ stats = [errors |-> 0, warnings |-> 0, active |-> <<>>, inactive |-> <<>>]
    /\ rc = "none"
    /\ deleted \in SUBSET Objects
    /\ inactive \in SUBSET Objects /\ deleted \subseteq inactive
    /\ written = {}
    /\ requested = {}
    /\ bad = {}

-----------------------------------------------------------------------------
Exit(code) == rc' = code /\ phase' = "done"

\* An exception of any request ends the command with an error.
Raise ==
    /\ Exit("error")
    /\ UNCHANGED <<options, pos, todo, ioc, messages, seen, stats, deleted,
                   requested, bad>>

\* toactivate[obj.name] = obj: a name written twice is activated once.
Remember(o) == IF o \in Range(todo) THEN todo ELSE Append(todo, o)

\* One turn of the loop of write_object_text(); a deletion of a concurrent
\* change is undone by writing the object again.
Write ==
    /\ phase = "write" /\ pos <= Len(names)
    /\ \/ /\ inactive' = inactive \cup {names[pos]}
          /\ deleted' = deleted \ {names[pos]}
          /\ written' = written \cup {pos}
          /\ todo' = Remember(names[pos])
          /\ pos' = pos + 1
          /\ UNCHANGED <<options, phase, ioc, messages, seen, stats, rc, requested, bad>>
       \/ Raise /\ UNCHANGED <<inactive, written>>

\* The end of the loop: without -a the command is done.
Written ==
    /\ phase = "write" /\ pos > Len(names)
    /\ pos' = 1
    /\ IF activateToo THEN phase' = "activate" /\ UNCHANGED rc ELSE Exit("0")
    /\ UNCHANGED <<options, todo, ioc, messages, seen, stats, inactive, deleted,
                   written, requested, bad>>

\* The objects named by one activation request: all of them, or one.
Target == IF command = "mass" THEN Range(todo) ELSE {todo[pos]}

\* The server (external) activates some of the objects asked for; objects it
\* leaves inactive without a word are possible too.
ServerActivates(asked) ==
    /\ \E done \in SUBSET asked : /\ inactive' = inactive \ done
                                  /\ deleted' = deleted \ done
    /\ messages' \in MessageLists
    /\ requested' = requested \cup asked

NextPhase == IF command = "mass" THEN "verdict" ELSE "fetch"

\* mass_activate(), first request with preauditRequested=true: the server
\* activates, or lists inactive objects it wants to be activated together.
Preaudit ==
    /\ phase = "activate" /\ pos <= Len(todo)
    /\ \/ /\ ServerActivates(Target)
          /\ phase' = NextPhase
          /\ UNCHANGED <<options, pos, todo, ioc, seen, stats, rc, written, bad>>
       \/ /\ ioc' \in SUBSET inactive
          /\ phase' = "confirm"
          /\ UNCHANGED <<options, pos, todo, messages, seen, stats, rc, inactive,
                         deleted, written, requested, bad>>
       \/ Raise /\ UNCHANGED <<inactive, written>>

\* The second request names the listed objects that are not deletions.
Confirm ==
    /\ phase = "confirm"
    /\ \/ /\ ServerActivates(ioc \ deleted)
          /\ phase' = NextPhase
          /\ UNCHANGED <<options, pos, todo, ioc, seen, stats, rc, written, bad>>
       \/ Raise /\ UNCHANGED <<inactive, written>>

\* try_activate(): the object is fetched to refresh its activation status.
Fetch ==
    /\ phase = "fetch"
    /\ \/ /\ seen' = (todo[pos] \notin inactive)
          /\ phase' = "results"
          /\ UNCHANGED <<options, pos, todo, ioc, messages, stats, rc, inactive,
                         deleted, written, requested, bad>>
       \/ Raise /\ UNCHANGED <<inactive, written>>

-----------------------------------------------------------------------------
\* Broken form of Tally: a later message overwrites the verdict of an earlier.
TallyLast(acc, m) ==
    LET error == m = "E" \/ (m = "W" /\ warningsAsErrors)
    IN  [error |-> error, errors |-> IF error THEN 1 ELSE 0,
         warnings |-> acc.warnings + (IF m = "W" THEN 1 ELSE 0)]

\* The loop body of handle_results(): a warning sets the flag anew.
Tally(acc, m) ==
    LET error == IF m = "W" THEN warningsAsErrors ELSE acc.error \/ m = "E"
    IN  [error |-> error,
         errors |-> acc.errors + (IF error THEN 1 ELSE 0),
         warnings |-> acc.warnings + (IF m = "W" THEN 1 ELSE 0)]

\* The message that the loop comes to last.
Latest(positions) == CHOOSE n \in positions : \A k \in positions : n >= k

Verdict == MapThenFoldSet(LAMBDA m, acc : Tally(acc, m),
                          [error |-> FALSE, errors |-> stats.errors, warnings |-> stats.warnings],
                          LAMBDA n : messages[n], Latest, DOMAIN messages)

\* ObjectActivationWorker.handle_results(): the object is booked, the messages
\* are counted, and the worker stops unless it is to continue on errors.
\* activate_object_list() turns the end of the list, or the stop, into the exit
\* code; "define" ignores it.
HandleResults ==
    /\ phase = "results"
    /\ LET booked == IF seen THEN [stats EXCEPT !.active = Append(@, todo[pos])]
                             ELSE [stats EXCEPT !.inactive = Append(@, todo[pos])]
           final == [booked EXCEPT !.errors = Verdict.errors,
                                   !.warnings = Verdict.warnings]
           stop == Verdict.error /\ ~continueOnErrors
       IN  /\ stats' = final
           /\ bad' = IF "E" \in Range(messages) THEN bad \cup {pos} ELSE bad
           /\ IF ~stop /\ pos < Len(todo)
              THEN phase' = "activate" /\ pos' = pos + 1 /\ UNCHANGED rc
              ELSE /\ UNCHANGED pos
                   /\ Exit(IF /\ command # "define"
                              /\ stop \/ final.inactive # <<>> \/ final.errors > 0
                           THEN "1" ELSE "0")
    /\ UNCHANGED <<options, todo, ioc, messages, seen, inactive, deleted, written, requested>>

\* sap.cli.wb.activate(): the messages alone decide, no object is fetched.
MassVerdict ==
    /\ phase = "verdict"
    /\ bad' = IF "E" \in Range(messages) THEN bad \cup {pos} ELSE bad
    /\ Exit(IF "E" \in Range(messages) THEN "error" ELSE "0")
    /\ UNCHANGED <<options, pos, todo, ioc, messages, seen, stats, inactive,
                   deleted, written, requested>>

Next == \/ Write \/ Written \/ Preaudit \/ Confirm \/ Fetch
        \/ HandleResults \/ MassVerdict

Spec == Init /\ [][Next]_vars

-----------------------------------------------------------------------------
TypeOK ==
    /\ command \in Commands /\ activateToo \in BOOLEAN
    /\ continueOnErrors \in BOOLEAN /\ warningsAsErrors \in BOOLEAN
    /\ Range(names) \subseteq Objects
    /\ phase \in {"write", "activate", "confirm", "fetch", "results", "verdict", "done"}
    /\ pos \in 1 .. (Len(names) + 1)
    /\ Range(todo) \subseteq Range(names)
    /\ ioc \subseteq Objects
    /\ messages \in MessageLists
    /\ seen \in BOOLEAN
    /\ stats.errors \in Nat /\ stats.warnings \in Nat
    /\ rc \in {"none", "0", "1", "error"}
    /\ deleted \subseteq inactive /\ inactive \subseteq Objects
    /\ written \subseteq DOMAIN names
    /\ requested \subseteq Objects
    /\ bad \subseteq DOMAIN todo

Activating == todo # <<>> /\ (command \in {"activate", "mass"} \/ activateToo)

\* The exit code of write -a and of activate tells the truth (object.py:91-115):
\* 0 only if every object of the list has no inactive version left on the
\* server, each was booked once, and no error message was ever received.
ZeroMeansActive ==
    rc = "0" /\ command \in {"write", "activate"} /\ Activating =>
        /\ Range(todo) \cap inactive = {}
        /\ stats.active = todo /\ stats.inactive = <<>>
        /\ bad = {}

\* No error message goes unnoticed: whatever comes after it, it is counted, and
\* the command fails, except the ones that ignore the outcome.
ErrorsFailTheCommand ==
    bad # {} =>
        /\ rc = "0" => command = "define"
        /\ command # "mass" => stats.errors >= Cardinality(bad)

\* write_object_text() activates nothing before all the sources are written.
ActivatesOnlyWhenAllWritten ==
    requested # {} /\ command \in {"write", "define"} => written = DOMAIN names

\* The class comment of ObjectActivationWorker (wb.py:34-35): "By default it
\* stops on errors and continues on warnings."
StopsOnErrors ==
    command \in {"write", "activate"} /\ ~continueOnErrors /\ phase \in {"activate", "confirm"} => bad = {}
=============================================================================
