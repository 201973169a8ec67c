-------------------------------- MODULE GctsClone -----------------------------
(***************************************************************************)
(* sapcli gcts clone (sap/cli/gcts.py, sap/rest/gcts/simple.py): a user    *)
(* runs the command several times on one repository, with any options.     *)
(* The repository is created, the option --no-import is set for the time   *)
(* of the clone (TemporaryConfig has the details), and the clone is either *)
(* one long request or a background task of the server that is polled.     *)
(* Both outlive the command that asked for them: a request whose answer    *)
(* is lost or is an HTTP error, and a task that is not finished in time.   *)
(***************************************************************************)
EXTENDS Naturals, Sequences

CONSTANT MaxRuns     \* bound: how often the user runs the command

ASSUME RunsAssumption == MaxRuns \in Nat

Runs == 1 .. MaxRuns

\* --sync-clone, --no-import, --wait-for-ready > 0, not --no-fail-exists.
Options == [sync: BOOLEAN, noImport: BOOLEAN, wait: BOOLEAN, failExists: BOOLEAN]

VARIABLES opts,        \* opts[r]: the options of run r
          status,      \* server: Repository.status
          keepOut,     \* server: VCS_NO_IMPORT is set
          activities,  \* server: the results of the CLONE activities
          late,        \* server: the runs whose clone request is still worked on
          task,        \* server: task[r], the status of the task of run r
          imported,    \* server: the runs whose clone imported objects
          run,         \* the number of the run, of all that were begun
          pc,          \* where it is
          known,       \* Repository.is_cloned, from the cached data
          old,         \* VCS_NO_IMPORT before temporary_config()
          exc,         \* the exception on its way
          delayed,     \* delayed_exc is set
          abandoned,   \* the runs that asked for a clone and do not know its end
          result       \* how the run ended

server == <<status, keepOut, activities, late, task, imported>>
memory == <<known, old, exc, delayed>>
vars == <<opts, server, run, pc, memory, abandoned, result>>

Init ==
    /\ opts \in [Runs -> Options]
    /\ status = "none"
    /\ keepOut \in BOOLEAN
    /\ activities = <<>>
    /\ late = {}
    /\ task = [r \in Runs |-> "none"]
    /\ imported = {}
    /\ run = 0
    /\ pc = "done"
    /\ known = FALSE /\ old = FALSE /\ exc = "none" /\ delayed = FALSE
    /\ abandoned = {}
    /\ result = "none"

-----------------------------------------------------------------------------
\* The server (external) clones a repository that is only created, keeps a
\* record of the attempt, which may be without a return code, and imports the
\* objects unless it is told not to.
Record(rc) == \E a \in {rc, "norc"} : activities' = Append(activities, a)

CloneFails ==
    /\ IF status = "CREATED" THEN Record("failed") ELSE UNCHANGED activities
    /\ UNCHANGED <<status, imported>>

CloneSucceeds(r) ==
    /\ status = "CREATED"
    /\ status' = "READY"
    /\ Record("ok")
    /\ imported' = IF keepOut THEN imported ELSE imported \cup {r}

FinishLate(r) ==
    /\ r \in late
    /\ late' = late \ {r}
    /\ CloneSucceeds(r) \/ CloneFails
    /\ UNCHANGED <<opts, keepOut, task, run, pc, memory, abandoned, result>>

\* The job of a task.  A task that is FINISHED may have failed to clone.
RunTask(r) ==
    /\ task[r] = "SCHEDULED"
    /\ \/ CloneSucceeds(r) /\ task' = [task EXCEPT ![r] = "FINISHED"]
       \/ CloneFails /\ \E s \in {"FINISHED", "ABORTED"} : task' = [task EXCEPT ![r] = s]
    /\ UNCHANGED <<opts, keepOut, late, run, pc, memory, abandoned, result>>

-----------------------------------------------------------------------------
Goto(l) == pc' = l /\ UNCHANGED result

\* The process ends, and what it had in memory is gone.
Exit(o) ==
    /\ pc' = "done" /\ result' = o
    /\ known' = FALSE /\ old' = FALSE /\ exc' = "none" /\ delayed' = FALSE

\* An HTTPRequestError, a GCTSRequestError or another SAPCliError; inside of
\* the context, leaving it comes first.
Errors == {"http", "gcts", "other"}
InContext == {"request", "task", "schedule", "poll"}
Raise(e) ==
    /\ exc' = e
    /\ Goto(IF pc \in InContext /\ opts[run].noImport THEN "leave" ELSE "caught")
    /\ UNCHANGED <<known, old, delayed>>
RaiseAny == \E e \in Errors : Raise(e)

Start ==
    /\ pc = "done" /\ run < MaxRuns
    /\ run' = run + 1
    /\ Goto("create")
    /\ UNCHANGED <<opts, server, memory, abandoned>>

\* simple.create(): an existing repository is an error or good enough.
Create ==
    /\ pc = "create"
    /\ \/ /\ status = "none" /\ status' = "CREATED"
          /\ \/ known' = FALSE /\ Goto("enter") /\ UNCHANGED <<old, exc, delayed>>
             \/ RaiseAny
       \/ /\ status # "none" /\ ~opts[run].failExists
          /\ Goto("look") /\ UNCHANGED <<status, memory>>
       \/ RaiseAny /\ UNCHANGED status
    /\ UNCHANGED <<opts, keepOut, activities, late, task, imported, run, abandoned>>

\* repo.is_cloned of a wiped repository: a GET.
Look ==
    /\ pc = "look"
    /\ \/ /\ known' = (status # "CREATED")
          /\ Goto(IF known' THEN "activities" ELSE "enter")
          /\ UNCHANGED <<old, exc, delayed>>
       \/ RaiseAny
    /\ UNCHANGED <<opts, server, run, abandoned>>

FirstRequest == IF opts[run].sync THEN "request" ELSE "task"

\* Broken form of Enter: an option that could not be set is only logged.
EnterRegardless ==
    /\ pc = "enter"
    /\ \/ ~opts[run].noImport /\ UNCHANGED <<keepOut, memory>>
       \/ /\ opts[run].noImport
          /\ old' = keepOut /\ keepOut' \in {keepOut, TRUE}
          /\ UNCHANGED <<known, exc, delayed>>
    /\ Goto(FirstRequest)
    /\ UNCHANGED <<opts, status, activities, late, task, imported, run, abandoned>>

\* abap_modifications_disabled(): the option is read and set.
Enter ==
    /\ pc = "enter"
    /\ \/ ~opts[run].noImport /\ Goto(FirstRequest) /\ UNCHANGED <<keepOut, memory>>
       \/ /\ opts[run].noImport
          /\ old' = keepOut /\ keepOut' = TRUE
          /\ Goto(FirstRequest) /\ UNCHANGED <<known, exc, delayed>>
       \/ opts[run].noImport /\ keepOut' \in {keepOut, TRUE} /\ RaiseAny
    /\ UNCHANGED <<opts, status, activities, late, task, imported, run, abandoned>>

\* Repository.clone(), one request for the whole clone.  An error or a timeout
\* does not tell whether the server goes on.
Request ==
    /\ pc = "request"
    /\ \/ /\ CloneSucceeds(run)
          /\ Goto(IF opts[run].noImport THEN "leave" ELSE "activities")
          /\ known' = TRUE
          /\ UNCHANGED <<late, old, exc, delayed, abandoned>>
       \/ /\ RaiseAny
          /\ CloneFails \/ CloneSucceeds(run)
          /\ UNCHANGED <<late, abandoned>>
       \/ /\ RaiseAny
          /\ late' = late \cup {run} /\ abandoned' = abandoned \cup {run}
          /\ UNCHANGED <<status, activities, imported>>
    /\ UNCHANGED <<opts, keepOut, task, run>>

\* schedule_clone(): the task is created, and then scheduled.
CreateTask ==
    /\ pc = "task"
    /\ \/ /\ task' = [task EXCEPT ![run] = "PRELIMINARY"]
          /\ Goto("schedule") /\ UNCHANGED memory
       \/ RaiseAny /\ \E s \in {"none", "PRELIMINARY"} : task' = [task EXCEPT ![run] = s]
    /\ UNCHANGED <<opts, status, keepOut, activities, late, imported, run, abandoned>>

\* Without --wait-for-ready the command ends with OperationTimeoutError here.
ScheduleTask ==
    /\ pc = "schedule"
    /\ \/ /\ status = "CREATED"
          /\ task' = [task EXCEPT ![run] = "SCHEDULED"]
          /\ \/ opts[run].wait /\ Goto("poll") /\ UNCHANGED <<memory, abandoned>>
             \/ ~opts[run].wait /\ Raise("timeout") /\ abandoned' = abandoned \cup {run}
             \/ RaiseAny /\ abandoned' = abandoned \cup {run}
       \/ RaiseAny /\ UNCHANGED <<task, abandoned>>
    /\ UNCHANGED <<opts, status, keepOut, activities, late, imported, run>>

\* Broken form of Poll: every answer is waited out.
PollForever ==
    /\ pc = "poll"
    /\ task[run] = "FINISHED"
    /\ Goto(IF opts[run].noImport THEN "leave" ELSE "refresh")
    /\ UNCHANGED <<opts, server, run, memory, abandoned>>

\* wait_for_task_execution(): an HTTPRequestError is not an answer, another
\* error ends the waiting, and so does the time that was allowed.
Poll ==
    /\ pc = "poll"
    /\ \/ /\ task[run] = "FINISHED"
          /\ Goto(IF opts[run].noImport THEN "leave" ELSE "refresh")
          /\ UNCHANGED <<memory, abandoned>>
       \/ task[run] = "ABORTED" /\ Raise("other") /\ UNCHANGED abandoned
       \/ \E e \in {"gcts", "timeout", "other"} : Raise(e) /\ abandoned' = abandoned \cup {run}
    /\ UNCHANGED <<opts, server, run>>

\* Leaving the context: the option is reset, or it stays because it was set.
Leave ==
    /\ pc = "leave"
    /\ \/ /\ keepOut' = (keepOut /\ old)
          /\ Goto(IF exc # "none" THEN "caught"
                  ELSE IF opts[run].sync THEN "activities" ELSE "refresh")
          /\ UNCHANGED memory
       \/ ~old /\ keepOut' \in {keepOut, old} /\ RaiseAny
    /\ UNCHANGED <<opts, status, activities, late, task, imported, run, abandoned>>

\* clone_with_task() ends with repo.refresh().
Refresh ==
    /\ pc = "refresh"
    /\ \/ known' = (status # "CREATED") /\ Goto("activities") /\ UNCHANGED <<old, exc, delayed>>
       \/ RaiseAny
    /\ UNCHANGED <<opts, server, run, abandoned>>

\* The except clauses of clone(): an HTTPRequestError of a synchronous clone is
\* put off, everything else ends the command.
Caught ==
    /\ pc = "caught"
    /\ IF exc = "http" /\ opts[run].sync /\ opts[run].wait
       THEN /\ delayed' = TRUE /\ exc' = "none"
            /\ Goto("activities") /\ UNCHANGED <<known, old>>
       ELSE Exit("failed")
    /\ UNCHANGED <<opts, server, run, abandoned>>

\* Broken form of CheckActivities: the return code is printed, not looked at.
CheckActivityExists ==
    /\ pc = "activities"
    /\ \/ /\ opts[run].noImport \/ Len(activities) = 1
          /\ Goto(IF delayed THEN "wait" ELSE "print") /\ UNCHANGED memory
       \/ Exit("failed")
    /\ UNCHANGED <<opts, server, run, abandoned>>

\* is_clone_activity_success(), left out with --no-import: there must be one
\* CLONE activity and it must have succeeded; one without a return code counts
\* as 0.  A task has to have cloned.
CheckActivities ==
    /\ pc = "activities"
    /\ \/ /\ IF opts[run].noImport THEN opts[run].sync \/ known
             ELSE activities \in {<<"ok">>, <<"norc">>}
          /\ Goto(IF delayed THEN "wait" ELSE "print") /\ UNCHANGED memory
       \/ /\ opts[run].noImport => ~opts[run].sync /\ ~known
          /\ Exit("failed")
    /\ UNCHANGED <<opts, server, run, abandoned>>

\* wait_for_operation() with is_clone_done(): a GET until the time is up.
WaitReady ==
    /\ pc = "wait"
    /\ \/ status \notin {"CREATED", "none"} /\ Goto("print") /\ UNCHANGED memory
       \/ Exit("failed")
    /\ UNCHANGED <<opts, server, run, abandoned>>

\* Printing the repository may have to read it.
PrintRepo ==
    /\ pc = "print"
    /\ Exit("ok") \/ Exit("failed")
    /\ UNCHANGED <<opts, server, run, abandoned>>

\* The process is killed: the option stays as it is, and the server finishes
\* what it has begun.
Kill ==
    /\ pc # "done"
    /\ Exit("killed")
    /\ \/ UNCHANGED late
       \/ pc = "request" /\ late' = late \cup {run}
    /\ abandoned' = IF task[run] = "SCHEDULED" \/ late' # late
                    THEN abandoned \cup {run} ELSE abandoned
    /\ UNCHANGED <<opts, status, keepOut, activities, task, imported, run>>

Step ==
    \/ Create \/ Look \/ Enter \/ Request \/ CreateTask \/ ScheduleTask \/ Poll \/ Leave
    \/ Refresh \/ Caught \/ CheckActivities \/ WaitReady \/ PrintRepo

Next ==
    \/ Start \/ Step \/ Kill
    \/ \E r \in Runs : FinishLate(r) \/ RunTask(r)

\* Requests are answered or time out, and so does the waiting; the server may
\* take as long as it likes.
Fairness == WF_vars(Step)

Spec == Init /\ [][Next]_vars /\ Fairness
-----------------------------------------------------------------------------
TypeOK ==
    /\ opts \in [Runs -> Options]
    /\ status \in {"none", "CREATED", "READY"}
    /\ keepOut \in BOOLEAN
    /\ \A i \in 1 .. Len(activities) : activities[i] \in {"ok", "failed", "norc"}
    /\ late \subseteq Runs
    /\ task \in [Runs -> {"none", "PRELIMINARY", "SCHEDULED", "FINISHED", "ABORTED"}]
    /\ imported \subseteq Runs
    /\ run \in 0 .. MaxRuns
    /\ pc \in InContext \cup {"create", "look", "enter", "leave", "refresh", "caught",
                              "activities", "wait", "print", "done"}
    /\ known \in BOOLEAN /\ old \in BOOLEAN /\ delayed \in BOOLEAN
    /\ exc \in Errors \cup {"none", "timeout"}
    /\ abandoned \subseteq Runs
    /\ result \in {"none", "ok", "failed", "killed"}

\* The first CLONE activity says nothing about its end.
Unrated == activities # <<>> /\ Head(activities) = "norc"

\* clone ends with success only when the repository is cloned: by this run, by
\* an earlier one, or by a request of this run that had answered with an error -
\* if the server gives its record of the clone a return code.
ZeroMeansCloned == result = "ok" /\ pc = "done" => status = "READY" \/ Unrated

\* For a command with --no-import the server imports nothing, unless it went on
\* with a clone that the command had given up.
ImportsOnlyIfAbandoned ==
    \A r \in imported : opts[r].noImport => r \in abandoned

\* "--no-import: Skip importing objects after clone" (doc/commands/gcts.md): for
\* a task, which by default is all that a clone is.
TaskSkipsImport ==
    \A r \in imported : opts[r].noImport => opts[r].sync

\* Every run of the command ends, whatever becomes of the clone.
EveryRunEnds == pc # "done" ~> pc = "done"
=============================================================================
