--------------------------------- MODULE AtcReport --------------------------------
(***************************************************************************)
(* sapcli atc run: the checks of the objects, one worklist after the       *)
(* other, and the exit code that the findings give (cli/atc.py,            *)
(* adt/atc.py). The three formats count alike. A finding is its priority   *)
(* in SAP GUI, 1 (highest) to 3; the ADT protocol sends one less.          *)
(***************************************************************************)
EXTENDS Naturals, FiniteSets

CONSTANT Names         \* objects to be checked

VARIABLES client,      \* the command
          server,      \* what the checks really find, the worklists
          seen         \* history: findings that the answers left out

vars == <<client, server, seen>>

Priorities == 1..3
Findings == SUBSET (Names \X Priorities)

Args == [variant: BOOLEAN, errorLevel: 1..2, filter: {1, 5}, maxVerdicts: 1..2]

TypeOK ==
    /\ client \in [args: Args, pc: {"variant", "worklist", "run", "fetch", "report", "done"},
                   left: SUBSET Names, name: Names, runner: SUBSET Names,
                   results: Findings, exit: {"none", "0", "1"}, failed: BOOLEAN]
    /\ server \in [findings: Findings, checked: SUBSET Names]
    /\ seen \in [cut: Findings]

\* left: names that are not checked yet, runner: what was checked with the
\* worklist of this ChecksRunner, results: the findings so far.
Init ==
    /\ \E args \in Args :
          client = [args |-> args, pc |-> IF args.variant THEN "worklist" ELSE "variant",
                    left |-> Names, name |-> CHOOSE n \in Names : TRUE, runner |-> {}, results |-> {},
                    exit |-> "none", failed |-> FALSE]
    /\ \E findings \in Findings : server = [findings |-> findings, checked |-> {}]
    /\ seen = [cut |-> {}]

Goto(pc) == client' = [client EXCEPT !.pc = pc]
Abort == client' = [client EXCEPT !.pc = "done", !.exit = "1", !.failed = TRUE]

\* fetch_customizing(), when no variant is given.
Customizing ==
    /\ client.pc = "variant"
    /\ Goto("worklist") \/ Abort
    /\ UNCHANGED <<server, seen>>

\* A new ChecksRunner for the next name, with a worklist of its own.
Worklist ==
    /\ client.pc = "worklist"
    /\ \/ \E name \in client.left :
             client' = [client EXCEPT !.name = name, !.left = @ \ {name}, !.runner = {},
                                      !.pc = "run"]
       \/ Abort
    /\ UNCHANGED <<server, seen>>

\* The checks of the name, added to the worklist.
Run ==
    /\ client.pc = "run"
    /\ \/ client' = [client EXCEPT !.runner = @ \cup {client.name}, !.pc = "fetch"]
       \/ Abort
    /\ server' = [server EXCEPT !.checked = @ \cup {client.name}]
    /\ UNCHANGED seen

\* A priority of the answer, and what run_for() makes of it.
Sent(priority) == priority - 1
Increased(sent) == sent + 1

\* The worklist is read once. It has at most maxVerdicts findings, and fewer if the
\* checks go on: whether the set of objects is complete is not looked at.
Fetch ==
    /\ client.pc = "fetch"
    /\ LET found == {f \in server.findings : f[1] \in client.runner}
       IN  \/ \E shown \in SUBSET found :
                 /\ Cardinality(shown) <= client.args.maxVerdicts
                 /\ client' = [client EXCEPT
                       !.results = @ \cup {<<f[1], Increased(Sent(f[2]))>> : f \in shown},
                       !.pc = IF client.left = {} THEN "report" ELSE "worklist"]
                 /\ seen' = [cut |-> seen.cut \cup (found \ shown)]
           \/ Abort /\ UNCHANGED seen
    /\ UNCHANGED server

\* A finding is printed if its priority passes the filter, and one that is printed
\* fails the command if it has at least the level of an error.
Reported(priority) == priority <= client.args.filter
Fails(priority) == Reported(priority) /\ priority <= client.args.errorLevel

Report ==
    /\ client.pc = "report"
    /\ client' = [client EXCEPT !.pc = "done",
                  !.exit = IF \E f \in client.results : Fails(f[2]) THEN "1" ELSE "0"]
    /\ UNCHANGED <<server, seen>>

Next == Customizing \/ Worklist \/ Run \/ Fetch \/ Report

(***************************************************************************)
(* Properties                                                              *)
(***************************************************************************)

\* Exit code 0 means that every object was checked and has no finding of the level
\* of an error, but those that are filtered out and those that the worklist left
\* out; exit code 1 that there is one, or that a request failed.
ExitTellsTheFindings ==
    client.pc = "done" /\ ~client.failed =>
        LET errors == {f \in server.findings : Fails(f[2])}
        IN  /\ client.exit = "0" => server.checked = Names /\ errors \subseteq seen.cut
            /\ client.exit = "1" => errors # {}
===================================================================================
