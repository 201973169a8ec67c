-------------------------------- MODULE AunitReport -------------------------------
(***************************************************************************)
(* sapcli aunit run: objects are tested, the answer of the server is       *)
(* parsed element by element (AUnitResponseHandler of adt/aunit.py) and    *)
(* printed in one of four formats, each of which counts the failures that  *)
(* become the exit code (cli/aunit.py). Texts and stacks are left out: an  *)
(* alert is its severity.                                                  *)
(***************************************************************************)
EXTENDS Integers, Sequences, Folds

CONSTANT MaxElements   \* bound: elements of one answer

VARIABLES client,      \* the command, and the parser of the answer
          server,      \* the answer: what really happened
          seen         \* history: names that were tested

vars == <<client, server, seen>>

Alerts == {<<>>, <<"error">>, <<"warning">>, <<"error", "warning">>}
AnyError(alerts) == \E i \in DOMAIN alerts : alerts[i] = "error"

\* The elements of an answer, in the order of the document. A method stands for
\* "count" methods with the same result; one class is enough for each program.
Places == {"run", "program", "class", "method"}
Elements == [place: Places, alerts: Alerts, count: {1}]
            \cup [place: {"method"}, alerts: {<<"error">>}, count: {256}]
Follows(element, doc) ==
    LET last == IF doc = <<>> THEN "none" ELSE doc[Len(doc)].place
    IN  CASE element.place = "run" -> doc = <<>>
          [] element.place = "program" -> TRUE
          [] element.place = "class" -> last = "program"
          [] OTHER -> last \in {"class", "method"}

Args == [type: {"class", "package", "transport"}, names: 1..2, compat: BOOLEAN,
         output: {"human", "raw", "junit4", "sonar"}, result: {"unit", "coverage", "all"}]

TypeOK ==
    /\ client.args \in Args
    /\ client.pc \in {"resolve", "run", "parse", "print", "coverage", "done"}
    /\ \A k \in DOMAIN client.results : client.results[k].place \in Places
    /\ client.class \in 0..Len(client.results)
    /\ client.exit \in -1..255
    /\ Len(server.doc) <= MaxElements
    /\ seen.tested \in 0..2

Node(place, alerts, count) == [place |-> place, alerts |-> alerts, count |-> count]

\* results: RunResults, a node for the run and one for each program, class and
\* method; class: the node of _test_class.
Init ==
    /\ \E args \in Args :
          client = [args |-> args, pc |-> "resolve", results |-> <<Node("run", <<>>, 1)>>,
                    class |-> 0, exit |-> -1, failed |-> FALSE]
    /\ server = [doc |-> <<>>]
    /\ seen = [tested |-> 0]

\* JUnit comes ready from the server, unless the old protocol or the identifier
\* of the coverage is needed; it is printed and never looked into.
WithCoverage == client.args.result \in {"coverage", "all"}
FromServer == client.args.output = "junit4" /\ ~client.args.compat /\ ~WithCoverage

Goto(pc) == client' = [client EXCEPT !.pc = pc]

\* An exception, or an error that is printed and returned as 1.
Abort == client' = [client EXCEPT !.pc = "done", !.exit = 1, !.failed = TRUE]

\* Broken form of Resolve: only the first name is tested.
ResolveFirst ==
    /\ client.pc = "resolve"
    /\ \/ Goto("run") /\ seen' = [tested |-> 1]
       \/ Abort /\ UNCHANGED seen
    /\ UNCHANGED server

\* _build_adt_object_sets(), _build_objects_info(): of several transports the API
\* gets the first one.
Resolve ==
    /\ client.pc = "resolve"
    /\ \/ /\ Goto("run")
          /\ seen' = [tested |-> IF client.args.type = "transport" /\ ~client.args.compat
                                 THEN 1 ELSE client.args.names]
       \/ Abort /\ UNCHANGED seen
    /\ UNCHANGED server

\* AUnit.execute() of the old protocol or of the API (Pollers has the steps).
Execute ==
    /\ client.pc = "run"
    /\ Goto("parse") \/ Abort
    /\ UNCHANGED <<server, seen>>

\* Where an alert goes. The end of a class is not noticed (the name of the
\* element has a typing error), so that _test_class stays set.
Target(element, results, class) ==
    IF element.place = "method" THEN Len(results)
    ELSE IF class # 0 THEN class ELSE Len(results)

\* The next element with its alerts. A node is added at its start.
Element ==
    /\ client.pc = "parse" /\ Len(server.doc) < MaxElements
    /\ \E element \in Elements :
          /\ Follows(element, server.doc)
          /\ server' = [doc |-> Append(server.doc, element)]
          /\ IF FromServer THEN UNCHANGED client
             ELSE LET results == IF element.place = "run" THEN client.results
                          ELSE Append(client.results, Node(element.place, <<>>, element.count))
                      class == IF element.place = "class" THEN Len(results) ELSE client.class
                      at == Target(element, results, class)
                  IN  client' = [client EXCEPT
                        !.results = [results EXCEPT ![at].alerts = @ \o element.alerts],
                        !.class = class]
    /\ UNCHANGED seen

EndParse ==
    /\ client.pc = "parse"
    /\ Goto("print")
    /\ UNCHANGED <<server, seen>>

\* The position that a loop over a sequence adds last.
Latest(positions) == CHOOSE i \in positions : \A j \in positions : i >= j

\* print_aunit_human_alerts(): an alert that is no error sets the number to zero.
HumanAlerts(alerts) ==
    MapThenFoldSet(LAMBDA a, n : IF a = "error" THEN n + 1 ELSE 0, 0,
                   LAMBDA i : alerts[i], Latest, DOMAIN alerts)

\* sum().
Total(counts) ==
    MapThenFoldSet(LAMBDA count, n : n + count, 0, LAMBDA i : counts[i], Latest, DOMAIN counts)
ErrorAlerts(alerts) == Total([i \in DOMAIN alerts |-> IF alerts[i] = "error" THEN 1 ELSE 0])

\* One for a testcase with an error: print_junit4_testcase(), and methods.
Testcase(node) == IF AnyError(node.alerts) THEN node.count ELSE 0

\* What each of the printers counts of a node.
Count(node, output) ==
    CASE node.place = "method" -> Testcase(node)
      [] node.place = "run" -> IF output = "raw" THEN ErrorAlerts(node.alerts) ELSE HumanAlerts(node.alerts)
      [] OTHER -> CASE output = "human" -> HumanAlerts(node.alerts)
                    [] output = "junit4" -> Testcase(node)
                    [] output = "sonar" /\ node.place = "program" -> ErrorAlerts(node.alerts)
                    [] OTHER -> 0

Failures(output) ==
    Total([k \in DOMAIN client.results |-> Count(client.results[k], output)])

\* The exit code of a process has eight bits; None is zero.
ExitCode(number) == number % 256

Report ==
    /\ client.pc = "print"
    /\ client' = [client EXCEPT
          !.exit = IF FromServer \/ client.args.result = "coverage" THEN 0
                   ELSE ExitCode(Failures(client.args.output)),
          !.pc = IF WithCoverage THEN "coverage" ELSE "done"]
    /\ UNCHANGED <<server, seen>>

\* Objects once more, measurements, statements, the file: each may fail.
Coverage ==
    /\ client.pc = "coverage"
    /\ Goto("done") \/ Abort
    /\ UNCHANGED <<server, seen>>

Next == Resolve \/ Execute \/ Element \/ EndParse \/ Report \/ Coverage

(***************************************************************************)
(* Properties                                                              *)
(***************************************************************************)
Done == client.pc = "done" /\ ~client.failed
FailedTests == {k \in DOMAIN server.doc :
                   server.doc[k].place = "method" /\ AnyError(server.doc[k].alerts)}

\* The errors of the answer, a failed test once for each method it stands for.
ErrorCount(element) == IF AnyError(element.alerts) THEN element.count ELSE 0
Errors == Total([k \in DOMAIN server.doc |-> ErrorCount(server.doc[k])])

\* Documented: the exit code is the number of failed tests if unit is included in
\* the result. Already that it is not zero then, for fewer failures than the 256
\* that an exit code can tell apart, is refuted: by the report that comes ready
\* from the server, which run() prints and does not look into.
FailedTestsFailTheRun ==
    Done /\ client.args.result \in {"unit", "all"} /\ FailedTests # {} /\ Errors < 256 =>
        client.exit # 0

\* Exit code 0 hides a failed test only if the server wrote the JUnit report, if
\* only coverage was asked for, or if there are 256 errors or more; an exit code
\* other than 0 is due to an alert that is an error; and only of transports the
\* names after the first one are not tested at all.
ExitTellsTheTests ==
    Done => /\ client.exit = 0 /\ FailedTests # {} =>
                  \/ FromServer
                  \/ client.args.result = "coverage"
                  \/ Errors >= 256
            /\ client.exit # 0 => \E k \in DOMAIN server.doc : AnyError(server.doc[k].alerts)
            /\ seen.tested = client.args.names \/ client.args.type = "transport"
===================================================================================
