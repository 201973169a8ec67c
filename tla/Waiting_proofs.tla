------------------------------ MODULE Waiting_proofs ----------------------------
(***************************************************************************)
(* Proofs about the commands that wait. Of GctsClone, for every number of  *)
(* runs: success means a cloned repository, and objects are imported       *)
(* against the option only by work that a run gave up. Of Pollers, for     *)
(* every number of jobs: a report is that of a job that has ended and is   *)
(* no older than the command's own, and no dot is printed into it.         *)
(***************************************************************************)
EXTENDS MCWaiting, TLAPS

Pcs == InContext \cup {"create", "look", "enter", "leave", "refresh", "caught", "activities",
                       "wait", "print", "done"}
Results == {"none", "ok", "failed", "killed"}
TaskStatuses == {"none", "PRELIMINARY", "SCHEDULED", "FINISHED", "ABORTED"}

\* The type invariant, with the list of activities as the sequence it is.
Types ==
    /\ opts \in [Runs -> Options]
    /\ status \in {"none", "CREATED", "READY"}
    /\ keepOut \in BOOLEAN
    /\ activities \in Seq({"ok", "failed", "norc"})
    /\ late \subseteq Runs
    /\ task \in [Runs -> TaskStatuses]
    /\ imported \subseteq Runs
    /\ run \in 0 .. MaxRuns
    /\ pc \in Pcs
    /\ known \in BOOLEAN /\ old \in BOOLEAN /\ delayed \in BOOLEAN
    /\ exc \in Errors \cup {"none", "timeout"}
    /\ abandoned \subseteq Runs
    /\ result \in Results
    /\ pc # "done" => run \in Runs

\* What the server has recorded agrees with the status of the repository.
ServerInv ==
    /\ \A i \in 1 .. Len(activities) : activities[i] = "ok" => status = "READY"
    /\ \A r \in Runs : task[r] \in {"SCHEDULED", "FINISHED", "ABORTED"} => status # "none"

\* What a run knows of the repository, from the place it has reached.
PlaceInv ==
    /\ pc = "request" => opts[run].sync
    /\ pc \in {"task", "schedule", "poll", "refresh"} => ~opts[run].sync
    /\ pc \in {"look", "refresh"} => status # "none"
    /\ pc = "leave" /\ exc = "none" =>
          status # "none" /\ (opts[run].sync => status = "READY")
    /\ pc = "activities" /\ ~delayed /\ opts[run].noImport /\ opts[run].sync => status = "READY"
    /\ known => status = "READY"
    /\ pc = "print" => status = "READY" \/ Unrated
    /\ ZeroMeansCloned

\* The option is set wherever a clone of the run can take effect, and everything
\* that can go on without it was given up.
ImportInv ==
    /\ pc \in InContext /\ opts[run].noImport => keepOut
    /\ \A r \in Runs : task[r] = "SCHEDULED" /\ opts[r].noImport =>
          r \in abandoned \/ (r = run /\ pc = "poll")
    /\ late \subseteq abandoned
    /\ ImportsOnlyIfAbandoned

IInv == Types /\ ServerInv /\ PlaceInv /\ ImportInv

-----------------------------------------------------------------------------
USE RunsAssumption
USE DEF Runs, Options, InContext, Errors, Unrated

LEMMA InitInv == Init => IInv
<1> SUFFICES ASSUME Init PROVE IInv
  OBVIOUS
<1>1. Types
  <2>1. <<>> \in Seq({"ok", "failed", "norc"}) /\ 0 \in 0 .. MaxRuns
    OBVIOUS
  <2> QED
    BY <2>1 DEF Init, Types, Pcs, Results, TaskStatuses
<1>2. ServerInv
  BY DEF Init, ServerInv
<1>3. PlaceInv /\ ImportInv
  BY DEF Init, PlaceInv, ZeroMeansCloned, ImportInv, ImportsOnlyIfAbandoned
<1> QED
  BY <1>1, <1>2, <1>3 DEF IInv

\* An attempt to clone, whatever becomes of it, changes the records of the server in
\* the same direction as the status.
LEMMA CloneEffect ==
    ASSUME Types, ServerInv, NEW r \in Runs, CloneSucceeds(r) \/ CloneFails
    PROVE  /\ status' \in {status, "READY"}
           /\ status # "none" => status' # "none"
           /\ status = "READY" => status' = "READY"
           /\ activities' \in Seq({"ok", "failed", "norc"})
           /\ \A i \in 1 .. Len(activities') : activities'[i] = "ok" => status' = "READY"
           /\ Unrated => Unrated'
           /\ imported' \in {imported, imported \cup {r}}
           /\ keepOut => imported' = imported
<1>1. ASSUME NEW a \in {"ok", "failed", "norc"}, activities' = Append(activities, a)
      PROVE  /\ activities' \in Seq({"ok", "failed", "norc"})
             /\ Len(activities') = Len(activities) + 1 /\ activities'[Len(activities) + 1] = a
             /\ \A i \in 1 .. Len(activities) : activities'[i] = activities[i]
             /\ Unrated => Unrated'
  <2>1. activities \in Seq({"ok", "failed", "norc"}) /\ Len(activities) \in Nat
    BY DEF Types
  <2> QED
    BY <1>1, <2>1
<1>2. CASE CloneSucceeds(r)
  <2>1. PICK a \in {"ok", "norc"} : activities' = Append(activities, a)
    BY <1>2 DEF CloneSucceeds, Record
  <2>2. status' = "READY" /\ imported' = IF keepOut THEN imported ELSE imported \cup {r}
    BY <1>2 DEF CloneSucceeds
  <2> QED
    BY <1>1, <2>1, <2>2
<1>3. CASE CloneFails
  <2>1. UNCHANGED <<status, imported>>
    BY <1>3 DEF CloneFails
  <2>2. CASE status = "CREATED"
    <3>1. PICK a \in {"failed", "norc"} : activities' = Append(activities, a)
      BY <1>3, <2>2 DEF CloneFails, Record
    <3>2. Len(activities) \in Nat
      BY DEF Types
    <3>3. \A i \in 1 .. Len(activities') : activities'[i] = "ok" => status' = "READY"
      BY <1>1, <2>1, <3>1, <3>2 DEF ServerInv
    <3> QED
      BY <1>1, <2>1, <3>1, <3>3
  <2>3. CASE status # "CREATED"
    BY <1>3, <2>1, <2>3 DEF CloneFails, Types, ServerInv
  <2> QED
    BY <2>2, <2>3
<1> QED
  BY <1>2, <1>3

LEMMA RaiseEffect ==
    ASSUME Types, pc # "done", NEW e \in Errors \cup {"timeout"}, Raise(e)
    PROVE  /\ exc' = e /\ exc' # "none" /\ exc' \in Errors \cup {"none", "timeout"}
           /\ pc' \in {"leave", "caught"} /\ pc' \in Pcs
           /\ UNCHANGED <<result, known, old, delayed>>
BY DEF Raise, Goto, Pcs

LEMMA RaiseAnyEffect ==
    ASSUME Types, pc # "done", RaiseAny
    PROVE  /\ exc' # "none" /\ exc' \in Errors \cup {"none", "timeout"}
           /\ pc' \in {"leave", "caught"} /\ pc' \in Pcs
           /\ UNCHANGED <<result, known, old, delayed>>
BY RaiseEffect DEF RaiseAny

\* An exception, with anything that the server made of the request meanwhile.
LEMMA RaisedInv ==
    ASSUME IInv, pc # "done", UNCHANGED <<opts, run, result, known, old, delayed>>,
           exc' # "none", exc' \in Errors \cup {"none", "timeout"}, pc' \in {"leave", "caught"},
           Types', ServerInv', ImportInv', status = "READY" => status' = "READY"
    PROVE  IInv'
BY DEF IInv, PlaceInv, ZeroMeansCloned

LEMMA StartInv ==
    ASSUME IInv, Start
    PROVE  IInv'
<1>1. Types'
  BY DEF Start, Goto, server, memory, IInv, Types, Pcs, Results
<1>2. ServerInv'
  BY DEF Start, Goto, server, memory, IInv, Types, ServerInv
<1>3. PlaceInv'
  BY DEF Start, Goto, server, memory, IInv, Types, PlaceInv, ZeroMeansCloned
<1>4. ImportInv'
  BY DEF Start, Goto, server, memory, IInv, Types, ImportInv, ImportsOnlyIfAbandoned
<1> QED
  BY <1>1, <1>2, <1>3, <1>4 DEF IInv

LEMMA LookInv ==
    ASSUME IInv, Look
    PROVE  IInv'
<1>1. CASE RaiseAny /\ UNCHANGED <<opts, server, run, abandoned>>
  <2>1. Types' /\ ServerInv' /\ ImportInv'
    BY <1>1, RaiseAnyEffect
    DEF Look, IInv, Types, ServerInv, ImportInv, ImportsOnlyIfAbandoned, server
  <2> QED
    BY <1>1, <2>1, RaiseAnyEffect, RaisedInv DEF Look, IInv, server
<1>2. CASE /\ known' = (status # "CREATED")
           /\ Goto(IF known' THEN "activities" ELSE "enter")
           /\ UNCHANGED <<old, exc, delayed>> /\ UNCHANGED <<opts, server, run, abandoned>>
  BY <1>2 DEF Look, Goto, server, IInv, Types, Pcs, Results, ServerInv, PlaceInv, ZeroMeansCloned,
              ImportInv, ImportsOnlyIfAbandoned
<1> QED
  BY <1>1, <1>2 DEF Look

LEMMA CreateInv ==
    ASSUME IInv, Create
    PROVE  IInv'
<1>1. CASE RaiseAny /\ status' \in {status, "CREATED"} /\ (status' # status => status = "none")
  <2>1. Types' /\ ServerInv' /\ ImportInv'
    BY <1>1, RaiseAnyEffect
    DEF Create, IInv, Types, ServerInv, ImportInv, ImportsOnlyIfAbandoned
  <2> QED
    BY <1>1, <2>1, RaiseAnyEffect, RaisedInv DEF Create, IInv
<1>2. CASE /\ status = "none" /\ status' = "CREATED" /\ known' = FALSE
           /\ Goto("enter") /\ UNCHANGED <<old, exc, delayed>>
  BY <1>2 DEF Create, Goto, IInv, Types, Pcs, Results, ServerInv, PlaceInv, ZeroMeansCloned,
              ImportInv, ImportsOnlyIfAbandoned
<1>3. CASE status # "none" /\ Goto("look") /\ UNCHANGED <<status, memory>>
  BY <1>3 DEF Create, Goto, memory, IInv, Types, Pcs, Results, ServerInv, PlaceInv, ZeroMeansCloned,
              ImportInv, ImportsOnlyIfAbandoned
<1> QED
  BY <1>1, <1>2, <1>3 DEF Create

LEMMA EnterInv ==
    ASSUME IInv, Enter
    PROVE  IInv'
<1> DEFINE first == IF opts[run].sync THEN "request" ELSE "task"
<1>1. CASE RaiseAny /\ keepOut' \in {keepOut, TRUE}
  <2>1. Types' /\ ServerInv' /\ ImportInv'
    BY <1>1, RaiseAnyEffect
    DEF Enter, IInv, Types, ServerInv, ImportInv, ImportsOnlyIfAbandoned
  <2> QED
    BY <1>1, <2>1, RaiseAnyEffect, RaisedInv DEF Enter, IInv
<1>2. CASE /\ Goto(first) /\ UNCHANGED <<known, exc, delayed>> /\ old' \in BOOLEAN
           /\ keepOut' \in BOOLEAN /\ (opts[run].noImport => keepOut')
  BY <1>2 DEF Enter, Goto, IInv, Types, Pcs, Results, ServerInv, PlaceInv, ZeroMeansCloned,
              ImportInv, ImportsOnlyIfAbandoned
<1>3. CASE ~opts[run].noImport /\ Goto(first) /\ UNCHANGED <<keepOut, memory>>
  BY <1>2, <1>3 DEF IInv, Types, memory
<1>4. CASE /\ opts[run].noImport /\ old' = keepOut /\ keepOut' = TRUE
           /\ Goto(first) /\ UNCHANGED <<known, exc, delayed>>
  BY <1>2, <1>4 DEF IInv, Types
<1> QED
  BY <1>1, <1>3, <1>4 DEF Enter, FirstRequest

LEMMA RequestInv ==
    ASSUME IInv, Request
    PROVE  IInv'
<1>0. run \in Runs /\ pc = "request" /\ opts[run].sync /\ (opts[run].noImport => keepOut)
  BY DEF Request, IInv, Types, PlaceInv, ImportInv
<1>1. CASE /\ CloneSucceeds(run)
           /\ Goto(IF opts[run].noImport THEN "leave" ELSE "activities")
           /\ known' = TRUE
           /\ UNCHANGED <<late, old, exc, delayed, abandoned>>
  <2>1. status' = "READY"
    BY <1>1 DEF CloneSucceeds
  <2>2. Types' /\ ServerInv'
    BY <1>0, <1>1, <2>1, CloneEffect DEF Request, Goto, IInv, Types, ServerInv, Pcs, Results
  <2>3. PlaceInv'
    BY <1>0, <1>1, <2>1 DEF Request, Goto, IInv, PlaceInv, ZeroMeansCloned
  <2>4. ImportInv'
    BY <1>0, <1>1, CloneEffect DEF Request, Goto, IInv, Types, ImportInv, ImportsOnlyIfAbandoned
  <2> QED
    BY <2>2, <2>3, <2>4 DEF IInv
<1>2. CASE RaiseAny /\ (CloneFails \/ CloneSucceeds(run)) /\ UNCHANGED <<late, abandoned>>
  <2>a. Types'
    BY <1>0, <1>2, CloneEffect, RaiseAnyEffect DEF Request, IInv, Types
  <2>b. ServerInv'
    BY <1>0, <1>2, CloneEffect DEF Request, IInv, Types, ServerInv
  <2>1. Types' /\ ServerInv'
    BY <2>a, <2>b
  <2>2. ImportInv'
    BY <1>0, <1>2, CloneEffect, RaiseAnyEffect
    DEF Request, IInv, Types, ImportInv, ImportsOnlyIfAbandoned
  <2>3. status = "READY" => status' = "READY"
    BY <1>0, <1>2, CloneEffect DEF IInv
  <2> QED
    BY <1>0, <1>2, <2>1, <2>2, <2>3, RaiseAnyEffect, RaisedInv DEF Request, IInv
<1>3. CASE /\ RaiseAny
           /\ late' = late \cup {run} /\ abandoned' = abandoned \cup {run}
           /\ UNCHANGED <<status, activities, imported>>
  <2>1. Types' /\ ServerInv' /\ ImportInv'
    BY <1>0, <1>3, RaiseAnyEffect
    DEF Request, IInv, Types, ServerInv, ImportInv, ImportsOnlyIfAbandoned
  <2> QED
    BY <1>0, <1>3, <2>1, RaiseAnyEffect, RaisedInv DEF Request, IInv
<1> QED
  BY <1>1, <1>2, <1>3 DEF Request

LEMMA CreateTaskInv ==
    ASSUME IInv, CreateTask
    PROVE  IInv'
<1>0. run \in Runs /\ pc = "task" /\ ~opts[run].sync /\ (opts[run].noImport => keepOut)
  BY DEF CreateTask, IInv, Types, PlaceInv, ImportInv
<1>1. PICK s \in {"none", "PRELIMINARY"} :
        /\ task' = [task EXCEPT ![run] = s]
        /\ RaiseAny \/ (Goto("schedule") /\ UNCHANGED memory)
        /\ UNCHANGED <<opts, status, keepOut, activities, late, imported, run, abandoned>>
  BY DEF CreateTask
<1>2. task' \in [Runs -> TaskStatuses] /\ \A r \in Runs : task'[r] \in {task[r], "none", "PRELIMINARY"}
  BY <1>0, <1>1 DEF IInv, Types, TaskStatuses
<1>3. CASE RaiseAny
  <2>1. Types' /\ ServerInv' /\ ImportInv'
    BY <1>0, <1>1, <1>2, <1>3, RaiseAnyEffect
    DEF IInv, Types, ServerInv, ImportInv, ImportsOnlyIfAbandoned
  <2> QED
    BY <1>0, <1>1, <1>3, <2>1, RaiseAnyEffect, RaisedInv DEF IInv
<1>4. CASE Goto("schedule") /\ UNCHANGED memory
  BY <1>0, <1>1, <1>2, <1>4
  DEF Goto, memory, IInv, Types, Pcs, Results, ServerInv, PlaceInv, ZeroMeansCloned, ImportInv,
      ImportsOnlyIfAbandoned
<1> QED
  BY <1>1, <1>3, <1>4

LEMMA ScheduleTaskInv ==
    ASSUME IInv, ScheduleTask
    PROVE  IInv'
<1>0. run \in Runs /\ pc = "schedule" /\ ~opts[run].sync /\ (opts[run].noImport => keepOut)
  BY DEF ScheduleTask, IInv, Types, PlaceInv, ImportInv
<1>1. UNCHANGED <<opts, status, keepOut, activities, late, imported, run>>
  BY DEF ScheduleTask
<1>2. CASE /\ status = "CREATED" /\ task' = [task EXCEPT ![run] = "SCHEDULED"]
           /\ \/ Goto("poll") /\ UNCHANGED <<memory, abandoned>>
              \/ (Raise("timeout") \/ RaiseAny) /\ abandoned' = abandoned \cup {run}
  <2>1. /\ task' \in [Runs -> TaskStatuses]
        /\ \A r \in Runs \ {run} : task'[r] = task[r]
    BY <1>0, <1>2 DEF IInv, Types, TaskStatuses
  <2>2. CASE Goto("poll") /\ UNCHANGED <<memory, abandoned>>
    BY <1>0, <1>1, <1>2, <2>1, <2>2
    DEF Goto, memory, IInv, Types, Pcs, Results, ServerInv, PlaceInv, ZeroMeansCloned, ImportInv,
        ImportsOnlyIfAbandoned
  <2>3. CASE (Raise("timeout") \/ RaiseAny) /\ abandoned' = abandoned \cup {run}
    <3>1. /\ exc' # "none" /\ exc' \in Errors \cup {"none", "timeout"}
          /\ pc' \in {"leave", "caught"} /\ pc' \in Pcs
          /\ UNCHANGED <<result, known, old, delayed>>
      BY <1>0, <2>3, RaiseAnyEffect, RaiseEffect DEF IInv
    <3>2. Types' /\ ServerInv' /\ ImportInv'
      BY <1>0, <1>1, <1>2, <2>1, <2>3, <3>1
      DEF IInv, Types, ServerInv, ImportInv, ImportsOnlyIfAbandoned
    <3> QED
      BY <1>0, <1>1, <3>1, <3>2, RaisedInv DEF IInv
  <2> QED
    BY <1>2, <2>2, <2>3
<1>3. CASE RaiseAny /\ UNCHANGED <<task, abandoned>>
  <2>1. Types' /\ ServerInv' /\ ImportInv'
    BY <1>0, <1>1, <1>3, RaiseAnyEffect
    DEF IInv, Types, ServerInv, ImportInv, ImportsOnlyIfAbandoned
  <2> QED
    BY <1>0, <1>1, <1>3, <2>1, RaiseAnyEffect, RaisedInv DEF IInv
<1> QED
  BY <1>2, <1>3 DEF ScheduleTask

LEMMA PollInv ==
    ASSUME IInv, Poll
    PROVE  IInv'
<1>0. run \in Runs /\ pc = "poll" /\ ~opts[run].sync /\ (opts[run].noImport => keepOut)
      /\ UNCHANGED <<opts, server, run>>
  BY DEF Poll, IInv, Types, PlaceInv, ImportInv
<1>1. CASE /\ task[run] = "FINISHED"
           /\ Goto(IF opts[run].noImport THEN "leave" ELSE "refresh")
           /\ UNCHANGED <<memory, abandoned>>
  BY <1>0, <1>1
  DEF Goto, memory, server, IInv, Types, Pcs, Results, ServerInv, PlaceInv, ZeroMeansCloned,
      ImportInv, ImportsOnlyIfAbandoned
<1>2. ASSUME NEW e \in {"gcts", "timeout", "other"}, Raise(e),
             \/ task[run] = "ABORTED" /\ UNCHANGED abandoned
             \/ abandoned' = abandoned \cup {run}
      PROVE  IInv'
  <2>1. /\ exc' # "none" /\ exc' \in Errors \cup {"none", "timeout"}
        /\ pc' \in {"leave", "caught"} /\ pc' \in Pcs
        /\ UNCHANGED <<result, known, old, delayed>>
    BY <1>0, <1>2, RaiseEffect DEF IInv
  <2>2. Types' /\ ServerInv' /\ ImportInv'
    BY <1>0, <1>2, <2>1 DEF server, IInv, Types, ServerInv, ImportInv, ImportsOnlyIfAbandoned
  <2> QED
    BY <1>0, <2>1, <2>2, RaisedInv DEF IInv, server
<1> QED
  BY <1>1, <1>2 DEF Poll

LEMMA LeaveInv ==
    ASSUME IInv, Leave
    PROVE  IInv'
<1>0. run \in Runs /\ pc = "leave"
      /\ UNCHANGED <<opts, status, activities, late, task, imported, run, abandoned>>
  BY DEF Leave, IInv, Types
<1>1. CASE /\ keepOut' = (keepOut /\ old)
           /\ Goto(IF exc # "none" THEN "caught"
                   ELSE IF opts[run].sync THEN "activities" ELSE "refresh")
           /\ UNCHANGED memory
  BY <1>0, <1>1
  DEF Goto, memory, IInv, Types, Pcs, Results, ServerInv, PlaceInv, ZeroMeansCloned, ImportInv,
      ImportsOnlyIfAbandoned
<1>2. CASE keepOut' \in {keepOut, old} /\ RaiseAny
  <2>1. Types' /\ ServerInv' /\ ImportInv'
    BY <1>0, <1>2, RaiseAnyEffect DEF IInv, Types, ServerInv, ImportInv, ImportsOnlyIfAbandoned
  <2> QED
    BY <1>0, <1>2, <2>1, RaiseAnyEffect, RaisedInv DEF IInv
<1> QED
  BY <1>1, <1>2 DEF Leave

LEMMA RefreshInv ==
    ASSUME IInv, Refresh
    PROVE  IInv'
<1>1. CASE RaiseAny
  <2>1. Types' /\ ServerInv' /\ ImportInv'
    BY <1>1, RaiseAnyEffect
    DEF Refresh, IInv, Types, ServerInv, ImportInv, ImportsOnlyIfAbandoned, server
  <2> QED
    BY <1>1, <2>1, RaiseAnyEffect, RaisedInv DEF Refresh, IInv, server
<1>2. CASE known' = (status # "CREATED") /\ Goto("activities") /\ UNCHANGED <<old, exc, delayed>>
  BY <1>2 DEF Refresh, Goto, server, IInv, Types, Pcs, Results, ServerInv, PlaceInv,
              ZeroMeansCloned, ImportInv, ImportsOnlyIfAbandoned
<1> QED
  BY <1>1, <1>2 DEF Refresh

\* The end of the process, with a result that is true.
LEMMA ExitInv ==
    ASSUME IInv, NEW o \in Results, Exit(o), pc # "done", pc # "poll",
           UNCHANGED <<opts, server, run, abandoned>>,
           o = "ok" => status = "READY" \/ Unrated
    PROVE  IInv'
BY DEF Exit, server, memory, IInv, Types, Pcs, Results, ServerInv, PlaceInv, ZeroMeansCloned, ImportInv,
      ImportsOnlyIfAbandoned

LEMMA CaughtInv ==
    ASSUME IInv, Caught
    PROVE  IInv'
<1>1. CASE delayed' = TRUE /\ exc' = "none" /\ Goto("activities") /\ UNCHANGED <<known, old>>
  BY <1>1
  DEF Caught, Goto, server, memory, IInv, Types, Pcs, Results, ServerInv, PlaceInv, ZeroMeansCloned, ImportInv,
      ImportsOnlyIfAbandoned
<1>2. CASE Exit("failed")
  BY <1>2, ExitInv DEF Caught, Results
<1> QED
  BY <1>1, <1>2 DEF Caught

LEMMA CheckActivitiesInv ==
    ASSUME IInv, CheckActivities
    PROVE  IInv'
<1>1. CASE /\ IF opts[run].noImport THEN opts[run].sync \/ known
              ELSE activities \in {<<"ok">>, <<"norc">>}
           /\ Goto(IF delayed THEN "wait" ELSE "print") /\ UNCHANGED memory
  <2>1. ~delayed => status = "READY" \/ Unrated
    <3>1. CASE ~opts[run].noImport
      <4>1. CASE activities = <<"ok">>
        <5>1. Len(activities) = 1 /\ activities[1] = "ok"
          BY <4>1
        <5> QED
          BY <5>1 DEF IInv, ServerInv
      <4>2. CASE activities = <<"norc">>
        BY <4>2
      <4> QED
        BY <1>1, <3>1, <4>1, <4>2
    <3>2. CASE opts[run].noImport
      BY <1>1, <3>2 DEF CheckActivities, IInv, PlaceInv
    <3> QED
      BY <3>1, <3>2
  <2> QED
    BY <1>1, <2>1
    DEF CheckActivities, Goto, server, memory, IInv, Types, Pcs, Results, ServerInv, PlaceInv, ZeroMeansCloned, ImportInv,
      ImportsOnlyIfAbandoned
<1>2. CASE Exit("failed")
  BY <1>2, ExitInv DEF CheckActivities, Results
<1> QED
  BY <1>1, <1>2 DEF CheckActivities

LEMMA WaitReadyInv ==
    ASSUME IInv, WaitReady
    PROVE  IInv'
<1>1. CASE status \notin {"CREATED", "none"} /\ Goto("print") /\ UNCHANGED memory
  BY <1>1
  DEF WaitReady, Goto, server, memory, IInv, Types, Pcs, Results, ServerInv, PlaceInv, ZeroMeansCloned, ImportInv,
      ImportsOnlyIfAbandoned
<1>2. CASE Exit("failed")
  BY <1>2, ExitInv DEF WaitReady, Results
<1> QED
  BY <1>1, <1>2 DEF WaitReady

LEMMA PrintRepoInv ==
    ASSUME IInv, PrintRepo
    PROVE  IInv'
BY ExitInv DEF PrintRepo, Results, IInv, PlaceInv

LEMMA KillInv ==
    ASSUME IInv, Kill
    PROVE  IInv'
<1>1. /\ pc # "done" /\ pc' = "done" /\ result' = "killed" /\ run \in Runs
      /\ known' = FALSE /\ old' = FALSE /\ exc' = "none" /\ delayed' = FALSE
      /\ late' \in {late, late \cup {run}}
      /\ abandoned' = IF task[run] = "SCHEDULED" \/ late' # late
                      THEN abandoned \cup {run} ELSE abandoned
      /\ UNCHANGED <<opts, status, keepOut, activities, task, imported, run>>
  BY DEF Kill, Exit, IInv, Types
<1>2. Types'
  BY <1>1 DEF IInv, Types, Pcs, Results
<1>3. ServerInv' /\ PlaceInv'
  BY <1>1 DEF IInv, ServerInv, PlaceInv, ZeroMeansCloned
<1>4. ImportInv'
  BY <1>1 DEF IInv, ImportInv, ImportsOnlyIfAbandoned
<1> QED
  BY <1>2, <1>3, <1>4 DEF IInv

LEMMA FinishLateInv ==
    ASSUME NEW r \in Runs, IInv, FinishLate(r)
    PROVE  IInv'
<1>1. /\ r \in late /\ r \in abandoned /\ late' = late \ {r}
      /\ UNCHANGED <<opts, keepOut, task, run, pc, memory, abandoned, result>>
  BY DEF FinishLate, IInv, ImportInv
<1>2. /\ status' \in {status, "READY"}
      /\ status # "none" => status' # "none"
      /\ status = "READY" => status' = "READY"
      /\ activities' \in Seq({"ok", "failed", "norc"})
      /\ \A i \in 1 .. Len(activities') : activities'[i] = "ok" => status' = "READY"
      /\ Unrated => Unrated'
      /\ imported' \in {imported, imported \cup {r}}
  BY CloneEffect DEF FinishLate, IInv
<1>3. Types'
  BY <1>1, <1>2 DEF IInv, Types, memory
<1>4. ServerInv' /\ PlaceInv'
  BY <1>1, <1>2 DEF IInv, ServerInv, PlaceInv, ZeroMeansCloned, memory
<1>5. ImportInv'
  BY <1>1, <1>2 DEF IInv, ImportInv, ImportsOnlyIfAbandoned
<1> QED
  BY <1>3, <1>4, <1>5 DEF IInv

LEMMA RunTaskInv ==
    ASSUME NEW r \in Runs, IInv, RunTask(r)
    PROVE  IInv'
<1>1. /\ task[r] = "SCHEDULED"
      /\ UNCHANGED <<opts, keepOut, late, run, pc, memory, abandoned, result>>
  BY DEF RunTask
<1>2. /\ status' \in {status, "READY"}
      /\ status # "none" => status' # "none"
      /\ status = "READY" => status' = "READY"
      /\ activities' \in Seq({"ok", "failed", "norc"})
      /\ \A i \in 1 .. Len(activities') : activities'[i] = "ok" => status' = "READY"
      /\ Unrated => Unrated'
      /\ imported' \in {imported, imported \cup {r}}
      /\ keepOut => imported' = imported
  BY CloneEffect DEF RunTask, IInv
<1>3. PICK s \in {"FINISHED", "ABORTED"} : task' = [task EXCEPT ![r] = s]
  BY DEF RunTask
<1>4. task' \in [Runs -> TaskStatuses] /\ \A q \in Runs : task'[q] = task[q] \/ (q = r /\ task'[q] = s)
  BY <1>3 DEF IInv, Types, TaskStatuses
<1>5. Types'
  BY <1>1, <1>2, <1>4 DEF IInv, Types, memory
<1>6. ServerInv' /\ PlaceInv'
  BY <1>1, <1>2, <1>4 DEF IInv, ServerInv, PlaceInv, ZeroMeansCloned, memory
<1>7. opts[r].noImport => r \in abandoned \/ keepOut
  BY <1>1 DEF IInv, ImportInv
<1>8. ImportInv'
  BY <1>1, <1>2, <1>4, <1>7 DEF IInv, ImportInv, ImportsOnlyIfAbandoned
<1> QED
  BY <1>5, <1>6, <1>8 DEF IInv

LEMMA StepInv == IInv /\ [Next]_vars => IInv'
<1> SUFFICES ASSUME IInv, [Next]_vars
             PROVE  IInv'
  OBVIOUS
<1>1. CASE UNCHANGED vars
  BY <1>1 DEF vars, server, memory, IInv, Types, ServerInv, PlaceInv, ZeroMeansCloned, ImportInv,
              ImportsOnlyIfAbandoned
<1>2. CASE Step
  BY <1>2, CreateInv, LookInv, EnterInv, RequestInv, CreateTaskInv, ScheduleTaskInv, PollInv,
     LeaveInv, RefreshInv, CaughtInv, CheckActivitiesInv, WaitReadyInv, PrintRepoInv DEF Step
<1> QED
  BY <1>1, <1>2, StartInv, KillInv, FinishLateInv, RunTaskInv DEF Next

LEMMA Invariance == Spec => []IInv
BY InitInv, StepInv, PTL DEF Spec

(***************************************************************************)
(* The variables keep their types, for every number of runs.               *)
(***************************************************************************)
THEOREM TypeCorrect == Spec => []TypeOK
<1>1. IInv => TypeOK
  BY DEF IInv, Types, Pcs, Results, TaskStatuses, TypeOK
<1> QED
  BY <1>1, Invariance, PTL

(***************************************************************************)
(* A run of the command that succeeds leaves a cloned repository, however  *)
(* many runs came before and whatever they left on the server, unless the  *)
(* server recorded the clone without a return code.                        *)
(***************************************************************************)
THEOREM SuccessIsCloned == Spec => []ZeroMeansCloned
<1>1. IInv => ZeroMeansCloned
  BY DEF IInv, PlaceInv
<1> QED
  BY <1>1, Invariance, PTL

(***************************************************************************)
(* The objects of a run with --no-import are imported only by a request or *)
(* a task that the run had given up.                                       *)
(***************************************************************************)
THEOREM ImportsExplained == Spec => []ImportsOnlyIfAbandoned
<1>1. IInv => ImportsOnlyIfAbandoned
  BY DEF IInv, ImportInv
<1> QED
  BY <1>1, Invariance, PTL
-----------------------------------------------------------------------------
(***************************************************************************)
(* The loops of Pollers.                                                   *)
(***************************************************************************)
Main == {"fetch", "start", "refetch", "enter", "look", "leave", "join", "report", "done"}
Thread == {"none", "new", "loop", "dot", "last", "dead"}

PollTypes ==
    /\ client \in [cmd: Poller!Commands, pc: Main, repo: Poller!Shown, beat: Poller!TaskStates,
                   raised: BOOLEAN, thread: Thread, exit: {"none", "0", "1"}]
    /\ job \in Poller!Shown
    /\ history \in [mine: 0 .. MaxJobs, stray: BOOLEAN, cut: BOOLEAN]

\* From the request that started the job on, what is read is as new as that job; and
\* what the loop ends with is the status of a job that has ended.
ReadInv ==
    /\ history.mine <= job.job
    /\ client.pc \in {"fetch", "start"} => history.mine = 0
    /\ client.pc \in {"enter", "look", "leave", "join", "report"} => history.mine <= client.repo.job
    /\ client.pc \in {"leave", "join"} /\ ~client.raised => client.repo.status # "running"
    /\ client.pc = "report" => client.repo.status # "running"

\* Only the with block has a thread, and nothing is reported before it is dead.
ThreadInv ==
    /\ client.cmd = "aunit" =>
          client.thread = "none" /\ client.pc \in {"start", "look", "report", "done"}
    /\ client.pc = "report" \/ client.exit = "0" => client.thread \in {"none", "dead"}
    /\ client.exit = "0" => client.pc = "done"
    /\ NoStrayDots

WatchInv == PollTypes /\ ReadInv /\ ThreadInv

LEMMA PollInitInv == WaitingInit => WatchInv
<1> SUFFICES ASSUME WaitingInit PROVE WatchInv
  OBVIOUS
<1> USE JobsAssumption
<1>0. Poller!Nothing \in Poller!Shown /\ 0 \in 0 .. MaxJobs /\ [job: {1}, status: Poller!Statuses] \subseteq Poller!Shown
  BY DEF Poller!Nothing, Poller!Shown, Poller!Statuses
<1>1. PollTypes
  <2>1. CASE NoPolling
    BY <1>0, <2>1 DEF NoPolling, PollTypes, Main, Thread, Poller!Commands, Poller!TaskStates
  <2>2. CASE Poller!Init
    <3>1. job \in Poller!Shown
      BY <1>0, <2>2 DEF Poller!Init
    <3> QED
      BY <1>0, <2>2, <3>1 DEF PollTypes, Poller!Init, Main, Thread, Poller!Commands, Poller!TaskStates
  <2> QED
    BY <2>1, <2>2 DEF WaitingInit
<1>2. ReadInv
  BY DEF WaitingInit, NoPolling, ReadInv, Poller!Init, Poller!Nothing
<1>3. ThreadInv
  BY DEF WaitingInit, NoPolling, ThreadInv, NoStrayDots, Poller!Init, Poller!NoStrayDots, Poller!Commands
<1> QED
  BY <1>1, <1>2, <1>3 DEF WatchInv

\* An exception on the way, with whatever became of the server and of the history.
LEMMA PollRaise ==
    ASSUME WatchInv, Poller!Raise, client.pc \in {"fetch", "start", "refetch", "enter", "look", "report"},
           job' \in Poller!Shown, UNCHANGED history, job.job <= job'.job
    PROVE  WatchInv'
<1>1. PollTypes'
  BY DEF WatchInv, PollTypes, Poller!Raise, Main
<1>2. ReadInv'
  BY JobsAssumption DEF WatchInv, PollTypes, ReadInv, Poller!Raise, Poller!Shown
<1>3. ThreadInv'
  BY DEF WatchInv, PollTypes, ThreadInv, NoStrayDots, Poller!Raise, Poller!NoStrayDots, Poller!Commands
<1> QED
  BY <1>1, <1>2, <1>3 DEF WatchInv

LEMMA PollRead ==
    ASSUME WatchInv, NEW from \in {"fetch", "refetch", "look"}, NEW to \in {"start", "enter", "look", "report"},
           Poller!Read(from, to),
           from = "fetch" <=> to = "start", from = "refetch" <=> to = "enter",
           to = "report" => client.cmd = "aunit" /\ job.status # "running"
    PROVE  WatchInv'
<1>1. CASE Poller!Raise
  BY <1>1, PollRaise, JobsAssumption DEF Poller!Read, WatchInv, PollTypes, Poller!Shown
<1>2. CASE client' = [client EXCEPT !.repo = job, !.pc = to]
  <2>1. PollTypes'
    BY <1>2 DEF Poller!Read, WatchInv, PollTypes, Main
  <2>2. ReadInv'
    BY <1>2, JobsAssumption DEF Poller!Read, WatchInv, PollTypes, ReadInv, Poller!Shown
  <2>3. ThreadInv'
    BY <1>2 DEF Poller!Read, WatchInv, PollTypes, ThreadInv, NoStrayDots, Poller!NoStrayDots,
                Poller!Commands
  <2> QED
    BY <2>1, <2>2, <2>3 DEF WatchInv
<1> QED
  BY <1>1, <1>2 DEF Poller!Read

LEMMA PollStart ==
    ASSUME WatchInv, Poller!Start
    PROVE  WatchInv'
<1> DEFINE new == [job |-> job.job + 1, status |-> "running"]
<1>0. job.job \in 0 .. MaxJobs /\ job.job + 1 \in Nat /\ new.job = job.job + 1 /\ new.status = "running"
  BY JobsAssumption DEF WatchInv, PollTypes, Poller!Shown
<1>1. CASE /\ Poller!Raise /\ UNCHANGED history
           /\ job' \in {job} \cup (IF job.job < MaxJobs THEN {new} ELSE {})
  <2>1. job' \in Poller!Shown /\ job.job <= job'.job
    <3>1. CASE job' = job
      BY <1>0, <3>1 DEF WatchInv, PollTypes
    <3>2. CASE job' = new /\ job.job < MaxJobs
      BY <1>0, <3>2, JobsAssumption DEF Poller!Shown, Poller!Statuses
    <3> QED
      BY <1>1, <3>1, <3>2
  <2> QED
    BY <1>1, <2>1, PollRaise DEF Poller!Start
<1>2. CASE /\ job.job < MaxJobs
           /\ job' = new /\ history' = [history EXCEPT !.mine = new.job]
           /\ IF client.cmd = "pull" THEN Poller!Goto("refetch")
              ELSE client' = [client EXCEPT !.repo = new, !.pc = "look"]
  <2>0. job' \in Poller!Shown /\ job'.job \in 1 .. MaxJobs /\ new \in Poller!Shown
    BY <1>0, <1>2, JobsAssumption DEF Poller!Shown, Poller!Statuses
  <2>a. history' \in [mine: 0 .. MaxJobs, stray: BOOLEAN, cut: BOOLEAN] /\ history'.mine = new.job
    BY <1>0, <1>2, <2>0 DEF WatchInv, PollTypes
  <2>b. client.pc = "start" /\ job' = new
    BY <1>2 DEF Poller!Start
  <2> HIDE DEF new
  <2>1. PollTypes'
    <3>1. CASE client.cmd = "pull"
      BY <1>2, <2>0, <2>a, <3>1 DEF Poller!Goto, WatchInv, PollTypes, Main
    <3>2. CASE client.cmd # "pull"
      BY <1>2, <2>0, <2>a, <3>2 DEF WatchInv, PollTypes, Main
    <3> QED
      BY <3>1, <3>2
  <2>2. ReadInv'
    <3>1. CASE client.cmd = "pull"
      BY <1>0, <1>2, <2>0, <2>a, <2>b, <3>1 DEF Poller!Goto, WatchInv, PollTypes, ReadInv
    <3>2. CASE client.cmd # "pull"
      <4>1. client'.repo = new /\ client'.pc = "look"
        BY <1>2, <3>2 DEF WatchInv, PollTypes
      <4> QED
        BY <1>0, <2>0, <2>a, <2>b, <4>1 DEF ReadInv
    <3> QED
      BY <3>1, <3>2
  <2>3. ThreadInv'
    BY <1>2 DEF Poller!Start, Poller!Goto, WatchInv, PollTypes, ThreadInv, NoStrayDots,
                Poller!NoStrayDots, Poller!Commands
  <2> QED
    BY <2>1, <2>2, <2>3 DEF WatchInv
<1> QED
  BY <1>1, <1>2 DEF Poller!Start

LEMMA PollMain ==
    ASSUME WatchInv, Poller!Enter \/ Poller!Leave \/ Poller!Join \/ Poller!Report \/ Poller!Interrupt
    PROVE  WatchInv'
<1> DEFINE raised == /\ Poller!Raise /\ UNCHANGED <<job, history>>
                     /\ client.pc \in {"enter", "look", "report"}
<1>1. CASE raised
  BY <1>1, PollRaise, JobsAssumption DEF WatchInv, PollTypes, Poller!Shown
<1>2. CASE Poller!Enter
  <2>1. PollTypes'
    BY <1>2, JobsAssumption DEF Poller!Enter, WatchInv, PollTypes, Main, Thread, Poller!TaskStates
  <2>2. ReadInv'
    BY <1>2, JobsAssumption DEF Poller!Enter, WatchInv, PollTypes, ReadInv, Poller!Shown
  <2>3. ThreadInv'
    BY <1>2, JobsAssumption DEF Poller!Enter, WatchInv, PollTypes, ReadInv, ThreadInv, NoStrayDots, Poller!NoStrayDots, Poller!Commands
  <2> QED
    BY <2>1, <2>2, <2>3 DEF WatchInv
<1>3. CASE Poller!Leave
  <2>1. PollTypes'
    BY <1>3, JobsAssumption DEF Poller!Leave, WatchInv, PollTypes, Main, Thread, Poller!TaskStates
  <2>2. ReadInv'
    BY <1>3, JobsAssumption DEF Poller!Leave, WatchInv, PollTypes, ReadInv, Poller!Shown
  <2>3. ThreadInv'
    BY <1>3, JobsAssumption DEF Poller!Leave, WatchInv, PollTypes, ReadInv, ThreadInv, NoStrayDots, Poller!NoStrayDots, Poller!Commands
  <2> QED
    BY <2>1, <2>2, <2>3 DEF WatchInv
<1>4. CASE Poller!Join
  <2>1. PollTypes'
    BY <1>4, JobsAssumption DEF Poller!Join, Poller!AfterWith, WatchInv, PollTypes, Main, Thread, Poller!TaskStates
  <2>2. ReadInv'
    BY <1>4, JobsAssumption DEF Poller!Join, Poller!AfterWith, WatchInv, PollTypes, ReadInv, Poller!Shown
  <2>3. ThreadInv'
    BY <1>4, JobsAssumption DEF Poller!Join, Poller!AfterWith, WatchInv, PollTypes, ReadInv, ThreadInv, NoStrayDots, Poller!NoStrayDots, Poller!Commands
  <2> QED
    BY <2>1, <2>2, <2>3 DEF WatchInv
<1>5. CASE /\ client.pc = "report" /\ client' = [client EXCEPT !.pc = "done", !.exit = "0"]
           /\ UNCHANGED <<job, history>>
  <2>1. PollTypes'
    BY <1>5, JobsAssumption DEF WatchInv, PollTypes, Main, Thread, Poller!TaskStates
  <2>2. ReadInv'
    BY <1>5, JobsAssumption DEF WatchInv, PollTypes, ReadInv, Poller!Shown
  <2>3. ThreadInv'
    BY <1>5, JobsAssumption DEF WatchInv, PollTypes, ReadInv, ThreadInv, NoStrayDots, Poller!NoStrayDots, Poller!Commands
  <2> QED
    BY <2>1, <2>2, <2>3 DEF WatchInv
<1>6. CASE /\ client.pc = "join" /\ client' = [client EXCEPT !.pc = "done", !.exit = "1"]
           /\ UNCHANGED <<job, history>>
  <2>1. PollTypes'
    BY <1>6, JobsAssumption DEF WatchInv, PollTypes, Main, Thread, Poller!TaskStates
  <2>2. ReadInv'
    BY <1>6, JobsAssumption DEF WatchInv, PollTypes, ReadInv, Poller!Shown
  <2>3. ThreadInv'
    BY <1>6, JobsAssumption DEF WatchInv, PollTypes, ReadInv, ThreadInv, NoStrayDots, Poller!NoStrayDots, Poller!Commands
  <2> QED
    BY <2>1, <2>2, <2>3 DEF WatchInv
<1>7. CASE /\ client.pc \in {"enter", "leave"}
           /\ client' = [client EXCEPT !.thread = IF @ = "none" THEN "new" ELSE @,
                                       !.pc = "done", !.exit = "1"]
           /\ history' = [history EXCEPT !.cut = TRUE] /\ UNCHANGED job
  <2>1. PollTypes'
    BY <1>7, JobsAssumption DEF WatchInv, PollTypes, Main, Thread, Poller!TaskStates
  <2>2. ReadInv'
    BY <1>7, JobsAssumption DEF WatchInv, PollTypes, ReadInv, Poller!Shown
  <2>3. ThreadInv'
    BY <1>7, JobsAssumption DEF WatchInv, PollTypes, ReadInv, ThreadInv, NoStrayDots, Poller!NoStrayDots, Poller!Commands
  <2> QED
    BY <2>1, <2>2, <2>3 DEF WatchInv
<1> QED
  BY <1>1, <1>2, <1>3, <1>4, <1>5, <1>6, <1>7 DEF Poller!Report, Poller!Interrupt

LEMMA PollLook ==
    ASSUME WatchInv, Poller!Look
    PROVE  WatchInv'
<1>1. CASE client.cmd = "pull" /\ client.repo.status # "running"
  <2>1. PollTypes'
    BY <1>1 DEF Poller!Look, Poller!Goto, WatchInv, PollTypes, Main
  <2>2. ReadInv'
    BY <1>1, JobsAssumption DEF Poller!Look, Poller!Goto, WatchInv, PollTypes, ReadInv, Poller!Shown
  <2>3. ThreadInv'
    BY <1>1 DEF Poller!Look, Poller!Goto, WatchInv, PollTypes, ThreadInv, NoStrayDots,
                Poller!NoStrayDots, Poller!Commands
  <2> QED
    BY <2>1, <2>2, <2>3 DEF WatchInv
<1>2. CASE Poller!Read("look", "look")
  BY <1>2, PollRead
<1>3. CASE client.cmd = "aunit" /\ job.status \in {"success", "error"} /\ Poller!Read("look", "report")
  BY <1>3, PollRead
<1> QED
  BY <1>1, <1>2, <1>3 DEF Poller!Look

LEMMA PollThread ==
    ASSUME WatchInv, Poller!ThreadStep
    PROVE  WatchInv'
<1>1. CASE Poller!Begin
  <2>1. PollTypes'
    BY <1>1 DEF Poller!Begin, WatchInv, PollTypes, Main, Thread, Poller!TaskStates
  <2>2. ReadInv'
    BY <1>1 DEF Poller!Begin, WatchInv, PollTypes, ReadInv, Poller!Shown
  <2>3. ThreadInv'
    BY <1>1 DEF Poller!Begin, WatchInv, PollTypes, ThreadInv, NoStrayDots, Poller!NoStrayDots
  <2> QED
    BY <2>1, <2>2, <2>3 DEF WatchInv
<1>2. CASE Poller!Loop
  <2>1. PollTypes'
    BY <1>2 DEF Poller!Loop, WatchInv, PollTypes, Main, Thread, Poller!TaskStates
  <2>2. ReadInv'
    BY <1>2 DEF Poller!Loop, WatchInv, PollTypes, ReadInv, Poller!Shown
  <2>3. ThreadInv'
    BY <1>2 DEF Poller!Loop, WatchInv, PollTypes, ThreadInv, NoStrayDots, Poller!NoStrayDots
  <2> QED
    BY <2>1, <2>2, <2>3 DEF WatchInv
<1>3. CASE Poller!Dot
  <2>1. PollTypes'
    BY <1>3 DEF Poller!Dot, WatchInv, PollTypes, Main, Thread, Poller!TaskStates
  <2>2. ReadInv'
    BY <1>3 DEF Poller!Dot, WatchInv, PollTypes, ReadInv, Poller!Shown
  <2>3. ThreadInv'
    BY <1>3 DEF Poller!Dot, WatchInv, PollTypes, ThreadInv, NoStrayDots, Poller!NoStrayDots
  <2> QED
    BY <2>1, <2>2, <2>3 DEF WatchInv
<1>4. CASE Poller!Last
  <2>1. PollTypes'
    BY <1>4 DEF Poller!Last, WatchInv, PollTypes, Main, Thread, Poller!TaskStates
  <2>2. ReadInv'
    BY <1>4 DEF Poller!Last, WatchInv, PollTypes, ReadInv, Poller!Shown
  <2>3. ThreadInv'
    BY <1>4 DEF Poller!Last, WatchInv, PollTypes, ThreadInv, NoStrayDots, Poller!NoStrayDots
  <2> QED
    BY <2>1, <2>2, <2>3 DEF WatchInv
<1> QED
  BY <1>1, <1>2, <1>3, <1>4 DEF Poller!ThreadStep

LEMMA PollServer ==
    ASSUME WatchInv, Poller!Finish \/ Poller!Others
    PROVE  WatchInv'
<1>1. job' \in Poller!Shown /\ job.job <= job'.job /\ UNCHANGED <<client, history>>
  BY JobsAssumption DEF Poller!Finish, Poller!Others, WatchInv, PollTypes, Poller!Shown, Poller!Statuses
<1> QED
  BY <1>1, JobsAssumption
  DEF WatchInv, PollTypes, ReadInv, ThreadInv, NoStrayDots, Poller!NoStrayDots, Poller!Shown

LEMMA PollNext == WatchInv /\ [WaitingNext]_all => WatchInv'
<1> SUFFICES ASSUME WatchInv, [WaitingNext]_all PROVE WatchInv'
  OBVIOUS
<1>1. CASE UNCHANGED polling
  BY <1>1 DEF polling, WatchInv, PollTypes, ReadInv, ThreadInv, NoStrayDots, Poller!NoStrayDots
<1>2. CASE Poller!Next
  <2>1. CASE Poller!Fetch \/ Poller!Refetch
    BY <2>1, PollRead DEF Poller!Fetch, Poller!Refetch
  <2> QED
    BY <1>2, <2>1, PollStart, PollLook, PollMain, PollThread, PollServer
    DEF Poller!Next, Poller!MainStep
<1> QED
  BY <1>1, <1>2 DEF WaitingNext, Cloning, Polling, all, polling

LEMMA PollAlways == WaitingSpec => []WatchInv
BY PollInitInv, PollNext, PTL DEF WaitingSpec

\* abapgit pull and the runs of ABAP Unit report how a job has ended that is not older
\* than the one they started, whatever other users do to the repository meanwhile.
THEOREM CurrentReports == WaitingSpec => []ReportIsCurrent
<1>1. WatchInv => ReportIsCurrent
  BY DEF WatchInv, ReadInv, ReportIsCurrent, Poller!ReportIsCurrent, PollTypes, Poller!Shown
<1> QED
  BY <1>1, PollAlways, PTL

\* ConsoleHeartBeat prints no dot into or after the report of its command, in any
\* interleaving of the two threads.
THEOREM DotsBeforeTheReport == WaitingSpec => []NoStrayDots
<1>1. WatchInv => NoStrayDots
  BY DEF WatchInv, ThreadInv
<1> QED
  BY <1>1, PollAlways, PTL
=============================================================================
