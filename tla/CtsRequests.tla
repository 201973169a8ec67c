------------------------------ MODULE CtsRequests -----------------------------
(***************************************************************************)
(* sapcli cts release, delete and reassign (sap/cli/cts.py, sap/adt/       *)
(* cts.py) of a transport or of a task, with or without --recursive, while *)
(* others work on the same transport.  A recursive command reads the       *)
(* request once, and walks what it has read: one request after the other,  *)
(* the first refusal or lost answer ends it, and nothing is taken back.    *)
(***************************************************************************)
EXTENDS Naturals, Sequences, Functions

CONSTANTS Clients,      \* the users of sapcli, who run one command each
          Transport,    \* a transport,
          TaskOrder,    \* its tasks, each once, as the server lists them,
          ObjectOrder   \* and the objects that a task may have, each once

Tasks == Range(TaskOrder)
Objects == Range(ObjectOrder)
Requests == Tasks \cup {Transport}

Commands == [op: {"release", "delete", "reassign"}, number: Requests, recursive: BOOLEAN]

VARIABLES status,    \* server: the status, "D" modifiable or "R" released
          owner,     \* server: "colleague" or the client it was reassigned to
          objects,   \* server: the objects of the tasks
          cmd,       \* cmd[c]: the command of client c
          pc,        \* pc[c]: "start", "calls" or "done"
          seen,      \* seen[c]: the unreleased tasks that were fetched
          plan,      \* plan[c]: the calls that are still to be made
          calm,      \* calm[c]: the command met no fault and nobody else's change
          result     \* result[c]: "none", "ok" or "failed"

requests == <<status, owner, objects>>
vars == <<requests, cmd, pc, seen, plan, calm, result>>

Init ==
    /\ status \in [Requests -> {"none", "D", "R"}]
    /\ status[Transport] = "D"
    /\ owner = [r \in Requests |-> "colleague"]
    /\ objects \in [Tasks -> SUBSET Objects]
    /\ \A t \in Tasks : status[t] = "none" => objects[t] = {}
    /\ cmd \in [Clients -> Commands]
    /\ pc = [c \in Clients |-> "start"]
    /\ seen = [c \in Clients |-> {}]
    /\ plan = [c \in Clients |-> <<>>]
    /\ calm = [c \in Clients |-> TRUE]
    /\ result = [c \in Clients |-> "none"]

-----------------------------------------------------------------------------
(* The calls of a command. *)
\* What a loop over a list comes to last.
Latest(positions) == CHOOSE n \in positions : \A k \in positions : n >= k

OwnCall(op, r) == [op |-> op, on |-> r, object |-> "none"]

\* _delete_children() of a task: its objects are removed one by one.
RemoveCall(t, o) == [op |-> "remove", on |-> t, object |-> o]
ObjectCalls(t, has) ==
    MapThenFoldSet(LAMBDA o, calls : IF o \in has THEN Append(calls, RemoveCall(t, o)) ELSE calls,
                   <<>>, LAMBDA n : ObjectOrder[n], Latest, DOMAIN ObjectOrder)

\* release() of a child is not recursive, delete() and reassign() are.
TaskCalls(op, t, has) ==
    (IF op = "delete" THEN ObjectCalls(t, has) ELSE <<>>) \o <<OwnCall(op, t)>>

ChildCalls(op, open, has) ==
    MapThenFoldSet(LAMBDA t, calls : IF t \in open THEN calls \o TaskCalls(op, t, has[t]) ELSE calls,
                   <<>>, LAMBDA n : TaskOrder[n], Latest, DOMAIN TaskOrder)

\* Broken form of Plan: the request itself comes before what it contains.
PlanOwnFirst(k, open, has) == <<OwnCall(k.op, k.number)>> \o ChildCalls(k.op, open, has)

\* _release_children(), _delete_children(), _reassign_children(), and then the
\* request itself.
Plan(k, open, has) ==
    IF ~k.recursive THEN <<OwnCall(k.op, k.number)>>
    ELSE IF k.number # Transport THEN TaskCalls(k.op, k.number, has[k.number])
    ELSE ChildCalls(k.op, open, has) \o <<OwnCall(k.op, Transport)>>

-----------------------------------------------------------------------------
(* The server: released requests stay as they are, and a request has to be  *)
(* empty to be deleted and complete to be released.                         *)
Complete(r, done) == r = Transport => \A t \in Tasks : status[t] \in done

Accepts(k) ==
    /\ status[k.on] = "D"
    /\ k.op = "remove" => k.object \in objects[k.on]
    /\ k.op = "release" => Complete(k.on, {"none", "R", "gone"})
    /\ k.op = "delete" => Complete(k.on, {"none", "gone"})
                          /\ (k.on \in Tasks => objects[k.on] = {})

Perform(c, k) ==
    /\ status' = CASE k.op = "release" -> [status EXCEPT ![k.on] = "R"]
                   [] k.op = "delete"  -> [status EXCEPT ![k.on] = "gone"]
                   [] OTHER            -> status
    /\ owner' = IF k.op = "reassign" THEN [owner EXCEPT ![k.on] = c] ELSE owner
    /\ objects' = IF k.op = "remove" THEN [objects EXCEPT ![k.on] = @ \ {k.object}]
                                     ELSE objects

\* What c did disturbs the others, and a fault disturbs c itself.
Disturb(c, fault) ==
    calm' = [d \in Clients |-> calm[d] /\ IF d = c THEN ~fault ELSE pc[d] # "calls"]

\* Colleagues work on the transport with other tools.
Colleague ==
    /\ \/ /\ status[Transport] = "D"
          /\ \E t \in Tasks : status[t] = "none" /\ status' = [status EXCEPT ![t] = "D"]
          /\ UNCHANGED objects
       \/ \E r \in Requests : Accepts(OwnCall("release", r))
                              /\ status' = [status EXCEPT ![r] = "R"] /\ UNCHANGED objects
       \/ \E t \in Tasks, o \in Objects :
             /\ status[t] = "D" /\ \A u \in Tasks : o \notin objects[u]
             /\ objects' = [objects EXCEPT ![t] = @ \cup {o}]
             /\ UNCHANGED status
    /\ calm' = [d \in Clients |-> calm[d] /\ pc[d] # "calls"]
    /\ UNCHANGED <<owner, cmd, pc, seen, plan, result>>

-----------------------------------------------------------------------------
Exit(c, r) ==
    /\ pc' = [pc EXCEPT ![c] = "done"]
    /\ result' = [result EXCEPT ![c] = r]

\* Broken form of Begin: the tasks of a transport that was not fetched are None,
\* and None is iterated.
BeginNone(c) ==
    /\ pc[c] = "start"
    /\ Exit(c, "traceback")
    /\ UNCHANGED <<requests, cmd, seen, plan, calm>>

\* fetch(), only for --recursive: a missing request and a fault end the command.
Begin(c) ==
    /\ pc[c] = "start"
    /\ LET k == cmd[c]
           open == IF k.recursive /\ k.number = Transport
                   THEN {t \in Tasks : status[t] = "D"} ELSE {}
       IN  \/ /\ k.recursive => status[k.number] \in {"D", "R"}
              /\ pc' = [pc EXCEPT ![c] = "calls"]
              /\ seen' = [seen EXCEPT ![c] = open]
              /\ plan' = [plan EXCEPT ![c] = Plan(k, open, objects)]
              /\ UNCHANGED <<calm, result>>
           \/ /\ k.recursive
              /\ Exit(c, "failed")
              /\ calm' = [calm EXCEPT ![c] = @ /\ status[k.number] \notin {"D", "R"}]
              /\ UNCHANGED <<seen, plan>>
    /\ UNCHANGED <<requests, cmd>>

\* Broken form of Call: the report of a release is not looked at.
CallUnchecked(c) ==
    /\ pc[c] = "calls"
    /\ LET k == Head(plan[c])
           rest == Tail(plan[c])
       IN  /\ plan' = [plan EXCEPT ![c] = rest]
           /\ IF Accepts(k) THEN Perform(c, k) ELSE UNCHANGED requests
           /\ IF rest = <<>> THEN Exit(c, "ok") ELSE UNCHANGED <<pc, result>>
           /\ Disturb(c, FALSE)
    /\ UNCHANGED <<cmd, seen>>

\* One HTTP call.  A refusal (an HTTP error, or a report that does not say
\* "released": CTSReleaseError) ends the command, and so does a fault, be it
\* before or after the server did what it was asked for.
Call(c) ==
    /\ pc[c] = "calls"
    /\ LET k == Head(plan[c])
           rest == Tail(plan[c])
       IN  \/ /\ Accepts(k) /\ Perform(c, k)
              /\ plan' = [plan EXCEPT ![c] = rest]
              /\ IF rest = <<>> THEN Exit(c, "ok") ELSE UNCHANGED <<pc, result>>
              /\ Disturb(c, FALSE)
           \/ /\ Accepts(k) /\ Perform(c, k)
              /\ Exit(c, "failed") /\ Disturb(c, TRUE)
              /\ UNCHANGED plan
           \/ /\ Exit(c, "failed")
              /\ calm' = [calm EXCEPT ![c] = @ /\ ~Accepts(k)]
              /\ UNCHANGED <<requests, plan>>
    /\ UNCHANGED <<cmd, seen>>

Next == Colleague \/ \E c \in Clients : Begin(c) \/ Call(c)

Spec == Init /\ [][Next]_vars
-----------------------------------------------------------------------------
TypeOK ==
    /\ status \in [Requests -> {"none", "D", "R", "gone"}]
    /\ owner \in [Requests -> Clients \cup {"colleague"}]
    /\ objects \in [Tasks -> SUBSET Objects]
    /\ cmd \in [Clients -> Commands]
    /\ pc \in [Clients -> {"start", "calls", "done"}]
    /\ seen \in [Clients -> SUBSET Tasks]
    /\ \A c \in Clients : \A i \in DOMAIN plan[c] : plan[c][i].on \in Requests
    /\ calm \in [Clients -> BOOLEAN]
    /\ result \in [Clients -> {"none", "ok", "failed"}]

\* What the command of c wanted is done with request r.
Handled(c, r) ==
    CASE cmd[c].op = "release"  -> status[r] \in {"R", "gone"}
      [] cmd[c].op = "delete"   -> status[r] = "gone"
      [] cmd[c].op = "reassign" -> owner[r] = c

Reassigned(r) == owner[r] # "colleague"

\* A transport is the last: while a task that the command has seen is not
\* handled (or reassigned by another client), the transport is not handled,
\* however the command ended.
ParentLast ==
    \A c \in Clients : Handled(c, cmd[c].number) =>
        \A t \in seen[c] : Handled(c, t) \/ (cmd[c].op = "reassign" /\ Reassigned(t))

\* A success is true: the request is released or deleted, and stays it, or has
\* the owner it was given.
OkMeansDone ==
    \A c \in Clients : result[c] = "ok" =>
        Handled(c, cmd[c].number) \/ (cmd[c].op = "reassign" /\ Reassigned(cmd[c].number))

\* Running a recursive command (again) on a transport, whatever earlier commands
\* left of it, succeeds if there is no fault and nobody else interferes; only a
\* transport that has a released task cannot be deleted.
RetryCompletes ==
    [][\A c \in Clients :
          result'[c] # result[c] /\ result'[c] = "failed" /\ calm'[c] /\ cmd[c].recursive =>
             \/ status[cmd[c].number] # "D"
             \/ cmd[c].op = "delete" /\ \E t \in Tasks : status[t] = "R"]_vars
=============================================================================
