---------------------------------- MODULE Pollers ---------------------------------
(***************************************************************************)
(* Commands that wait for a job of the server: abapgit pull, with a thread *)
(* that prints dots meanwhile (ConsoleHeartBeat of cli/helpers.py), and    *)
(* the runs of ABAP Unit over the API (adt/api/aunit.py). The waiting has  *)
(* no time limit. Jobs have numbers; the job that the server shows may be  *)
(* one that somebody else started.                                         *)
(***************************************************************************)
EXTENDS Naturals

CONSTANT MaxJobs       \* bound: jobs started by anybody

VARIABLES client,      \* the process: main thread and heart beat thread
          server,      \* the last job
          seen         \* history: see Init

vars == <<client, server, seen>>

Commands == {"pull", "aunit"}
TaskStates == {"STOPPED", "RUNNING", "TERMINATING"}

\* The answers about the last job. "other" is neither running nor known: for
\* abapGit it counts as success, ABAP Unit goes on asking.
Statuses == {"running", "success", "error", "other"}
Shown == [job: 0..MaxJobs, status: Statuses]
Nothing == [job |-> 0, status |-> "success"]

TypeOK ==
    /\ client \in [cmd: Commands,
                   pc: {"fetch", "start", "refetch", "enter", "look", "leave", "join",
                        "report", "done"},
                   repo: Shown, beat: TaskStates, raised: BOOLEAN,
                   thread: {"none", "new", "loop", "dot", "last", "dead"},
                   exit: {"none", "0", "1"}]
    /\ server \in Shown
    /\ seen \in [mine: 0..MaxJobs, stray: BOOLEAN, cut: BOOLEAN]

(***************************************************************************)
(* mine: the job that this command started; stray: a dot was printed with  *)
(* the report or after it; cut: interrupted in __enter__() or __exit__(),  *)
(* so that nothing stops the thread.                                       *)
(***************************************************************************)
Init ==
    /\ \E cmd \in Commands :
          client = [cmd |-> cmd, pc |-> IF cmd = "pull" THEN "fetch" ELSE "start",
                    repo |-> Nothing, beat |-> "STOPPED", raised |-> FALSE,
                    thread |-> "none", exit |-> "none"]
    /\ server \in {Nothing} \cup [job: {1}, status: Statuses]
    /\ seen = [mine |-> 0, stray |-> FALSE, cut |-> FALSE]

Goto(pc) == client' = [client EXCEPT !.pc = pc]
\* An exception leaves the with block, if there is one, and ends the command.
Raise ==
    client' = IF client.pc = "look" /\ client.cmd = "pull"
              THEN [client EXCEPT !.pc = "leave", !.raised = TRUE]
              ELSE [client EXCEPT !.pc = "done", !.exit = "1"]

\* Repository.fetch(), and get_status() of what it returned. A failed request
\* and a repository that is not in the list are exceptions.
Read(from, to) ==
    /\ client.pc = from
    /\ \/ client' = [client EXCEPT !.repo = server, !.pc = to]
       \/ Raise
    /\ UNCHANGED <<server, seen>>

Fetch == Read("fetch", "start")
\* Broken form of Refetch: the status of before the pull is kept.
RefetchNothing == client.pc = "refetch" /\ Goto("enter") /\ UNCHANGED <<server, seen>>

Refetch == Read("refetch", "enter")

\* Repository.pull(), AUnit.start_run(). The job runs when the answer comes;
\* without an answer, or without the Location of the run, it may run as well.
Start ==
    /\ client.pc = "start"
    /\ LET job == [job |-> server.job + 1, status |-> "running"]
       IN  \/ /\ server.job < MaxJobs
              /\ server' = job /\ seen' = [seen EXCEPT !.mine = job.job]
              /\ IF client.cmd = "pull" THEN Goto("refetch")
                 ELSE client' = [client EXCEPT !.repo = job, !.pc = "look"]
           \/ Raise /\ UNCHANGED seen
              /\ server' \in {server} \cup (IF server.job < MaxJobs THEN {job} ELSE {})

\* ConsoleHeartBeat.__enter__()
Enter ==
    /\ client.pc = "enter"
    /\ client' = [client EXCEPT !.thread = "new", !.pc = "look"]
    /\ UNCHANGED <<server, seen>>

\* Polling: the status is looked at, and read again while it says so.
Look ==
    /\ client.pc = "look"
    /\ IF client.cmd = "pull" /\ client.repo.status # "running"
       THEN Goto("leave") /\ UNCHANGED <<server, seen>>
       ELSE \/ client.cmd = "pull" /\ Read("look", "look")
            \/ client.cmd = "aunit" /\ Read("look", IF server.status \in {"success", "error"}
                                                    THEN "report" ELSE "look")

\* ConsoleHeartBeat.__exit__()
Leave ==
    /\ client.pc = "leave"
    /\ client' = [client EXCEPT !.beat = "TERMINATING", !.pc = "join"]
    /\ UNCHANGED <<server, seen>>
AfterWith == [client EXCEPT !.pc = IF client.raised THEN "done" ELSE "report",
                            !.exit = IF client.raised THEN "1" ELSE "none"]
\* Broken form of Join: the thread is not waited for.
JoinNothing ==
    client.pc = "join" /\ client' = AfterWith /\ UNCHANGED <<server, seen>>

Join ==
    /\ client.pc = "join" /\ client.thread = "dead"
    /\ client' = AfterWith
    /\ UNCHANGED <<server, seen>>

\* Printing the status, or the log of a failed pull; fetch_results(). A pull
\* that failed ends with 0 as well.
Report ==
    /\ client.pc = "report"
    /\ \/ client' = [client EXCEPT !.pc = "done", !.exit = "0"]
       \/ (client.cmd = "aunit" \/ client.repo.status = "error") /\ Raise
    /\ UNCHANGED <<server, seen>>

\* Ctrl-C. Inside the with block it is an exception like others, and while
\* __exit__() waits the thread is ending anyway. But Thread.start() waits for the
\* thread inside __enter__(), and the state is set inside __exit__().
Interrupt ==
    /\ \/ client.pc \in {"enter", "look"} /\ Raise /\ UNCHANGED seen
       \/ /\ client.pc = "join"
          /\ client' = [client EXCEPT !.pc = "done", !.exit = "1"] /\ UNCHANGED seen
       \/ /\ client.pc \in {"enter", "leave"}
          /\ client' = [client EXCEPT !.thread = IF @ = "none" THEN "new" ELSE @,
                                      !.pc = "done", !.exit = "1"]
          /\ seen' = [seen EXCEPT !.cut = TRUE]
    /\ UNCHANGED server

\* Broken form of Begin: the thread does not look at the old state.
BeginAnyway ==
    /\ client.thread = "new"
    /\ client' = [client EXCEPT !.beat = "RUNNING", !.thread = "loop"]
    /\ UNCHANGED <<server, seen>>

\* The thread: _run() sets the state and looks at the old one.
Begin ==
    /\ client.thread = "new"
    /\ client' = [client EXCEPT !.beat = "RUNNING",
                  !.thread = IF client.beat = "STOPPED" THEN "loop" ELSE "dead"]
    /\ UNCHANGED <<server, seen>>
Loop ==
    /\ client.thread = "loop"
    /\ client' = [client EXCEPT !.thread = IF client.beat = "RUNNING" THEN "dot" ELSE "last"]
    /\ UNCHANGED <<server, seen>>
Dot ==
    /\ client.thread = "dot"
    /\ client' = [client EXCEPT !.thread = "loop"]
    /\ seen' = [seen EXCEPT !.stray = @ \/ client.pc = "report" \/ client.exit = "0"]
    /\ UNCHANGED server
Last ==
    /\ client.thread = "last"
    /\ client' = [client EXCEPT !.beat = "STOPPED", !.thread = "dead"]
    /\ UNCHANGED <<server, seen>>

\* The server ends the job; somebody else starts one in the same repository.
Finish ==
    /\ server.status = "running"
    /\ \E status \in Statuses \ {"running"} : server' = [server EXCEPT !.status = status]
    /\ UNCHANGED <<client, seen>>
Others ==
    /\ client.cmd = "pull" /\ server.job < MaxJobs
    /\ server' = [job |-> server.job + 1, status |-> "running"]
    /\ UNCHANGED <<client, seen>>

MainStep == Fetch \/ Start \/ Refetch \/ Enter \/ Look \/ Leave \/ Join \/ Report
ThreadStep == Begin \/ Loop \/ Dot \/ Last
Next == MainStep \/ ThreadStep \/ Interrupt \/ Finish \/ Others

(***************************************************************************)
(* Properties                                                              *)
(***************************************************************************)

\* What is reported is the result of the job of this command, or of one that
\* was started after it, and never that of an unfinished or an earlier job.
ReportIsCurrent ==
    client.pc = "report" => client.repo.status # "running" /\ client.repo.job >= seen.mine

\* The thread prints nothing between or after the messages of the command.
NoStrayDots == ~seen.stray

\* The process ends, that is the main thread and the other one, unless the job
\* never does, or ABAP Unit gives a status that is not known, or Ctrl-C hit the
\* start of the thread.
Ended == client.pc = "done" /\ client.thread \in {"none", "dead"}
EveryWaitEnds ==
    \/ <>Ended
    \/ <>[](server.status \in {"running"} \cup (IF client.cmd = "aunit" THEN {"other"} ELSE {}))
    \/ <>seen.cut
===================================================================================
