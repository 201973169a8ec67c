---------------------------------- MODULE AdhocRun ----------------------------------
(***************************************************************************)
(* sapcli abap run: execute_abap() of platform/abap/run.py creates a class *)
(* with a random name, writes and activates it, executes it, and deletes   *)
(* it whatever happened. Several processes run it; when the prefix and the *)
(* name of the user leave few characters for the random part, they may     *)
(* draw the same name.                                                     *)
(***************************************************************************)
EXTENDS Naturals

CONSTANTS Clients,   \* processes
          Names,     \* class names that can be drawn
          MaxRuns    \* bound: runs of each process

VARIABLES client,    \* client[c]: the run of process c
          server,    \* class: the classes, late: requests still to be handled
          seen       \* history: see Init

vars == <<client, server, seen>>

\* code is what the class contains, active is what it executes.
NoClass == [by |-> "none", code |-> "none", active |-> "none"]
New(c) == [by |-> c, code |-> "none", active |-> "none"]
Programs == Clients \cup {"none"}
Late == [do: {"create", "delete"}, by: Clients, name: Names]

TypeOK ==
    /\ client \in [Clients -> [pc: {"idle", "create", "edit", "activate", "execute", "delete"},
                               name: Names, result: {"none", "ok", "error"}, output: Programs,
                               runs: 0..MaxRuns]]
    /\ server.class \in [Names -> [by: Programs, code: Programs, active: Programs]]
    /\ server.late \subseteq Late
    /\ seen \in [faulty: SUBSET Clients, robbed: SUBSET Clients]

(***************************************************************************)
(* faulty: processes one of whose requests to create or delete failed,     *)
(* robbed: processes whose class was deleted by another run or by a        *)
(* delayed request of their own earlier run.                               *)
(***************************************************************************)
Init ==
    /\ \E n \in Names :
          client = [c \in Clients |-> [pc |-> "idle", name |-> n, result |-> "none",
                                       output |-> "none", runs |-> 0]]
    /\ server = [class |-> [n \in Names |-> NoClass], late |-> {}]
    /\ seen = [faulty |-> {}, robbed |-> {}]

Class(c) == server.class[client[c].name]
Exists(c) == Class(c) # NoClass

\* generate_class_name()
Start(c) ==
    /\ client[c].pc = "idle" /\ client[c].runs < MaxRuns
    /\ \E n \in Names : client' = [client EXCEPT ![c] =
          [pc |-> "create", name |-> n, result |-> "none", output |-> "none", runs |-> @.runs + 1]]
    /\ UNCHANGED <<server, seen>>

Goto(c, pc) == client' = [client EXCEPT ![c].pc = pc]

\* An exception: the clean-up runs, and nothing is returned.
Raise(c) == client' = [client EXCEPT ![c].pc = "delete", ![c].result = "error"]

Put(c, class) == server' = [server EXCEPT !.class[client[c].name] = class]
Delay(c, do) == server' = [server EXCEPT !.late = @ \cup {[do |-> do, by |-> c, name |-> client[c].name]}]
Fault(c) == seen' = [seen EXCEPT !.faulty = @ \cup {c}]

\* A request to create or delete that got no answer: done, later, or never.
Create(c) ==
    /\ client[c].pc = "create"
    /\ \/ ~Exists(c) /\ Put(c, New(c)) /\ Goto(c, "edit") /\ UNCHANGED seen
       \/ Raise(c) /\ UNCHANGED <<server, seen>>
       \/ Raise(c) /\ Fault(c) /\ (Delay(c, "create") \/ (~Exists(c) /\ Put(c, New(c))))

\* A request that changes the class; it can fail with or without its effect.
Change(c, from, to, class) ==
    /\ client[c].pc = from
    /\ \/ Exists(c) /\ Put(c, class) /\ Goto(c, to)
       \/ Exists(c) /\ Put(c, class) /\ Raise(c)
       \/ Raise(c) /\ UNCHANGED server
    /\ UNCHANGED seen

\* The whole with block of the editor (ObjectEditor has the details).
Edit(c) == Change(c, "edit", "activate", [Class(c) EXCEPT !.code = c])

\* Errors of the activation are not looked at: the class stays inactive.
Activate(c) ==
    \/ Change(c, "activate", "execute", [Class(c) EXCEPT !.active = Class(c).code])
    \/ /\ client[c].pc = "activate" /\ Exists(c)
       /\ Goto(c, "execute") /\ UNCHANGED <<server, seen>>

\* Broken form of Execute: a failed execution is not cleaned up.
ExecuteAndLeave(c) ==
    /\ client[c].pc = "execute"
    /\ \/ /\ Class(c).active # "none"
          /\ client' = [client EXCEPT ![c].pc = "delete", ![c].output = Class(c).active]
       \/ client' = [client EXCEPT ![c].pc = "idle", ![c].result = "error"]
    /\ UNCHANGED <<server, seen>>

Execute(c) ==
    /\ client[c].pc = "execute"
    /\ \/ /\ Class(c).active # "none"
          /\ client' = [client EXCEPT ![c].pc = "delete", ![c].output = Class(c).active]
       \/ Raise(c)
    /\ UNCHANGED <<server, seen>>

End(c, result) == client' = [client EXCEPT ![c].pc = "idle", ![c].result = result]

\* Deleting a class robs the processes of "of" that created it.
ServeDelete(of, n) ==
    /\ server.class[n] # NoClass
    /\ seen' = [seen EXCEPT !.robbed = @ \cup ({server.class[n].by} \cap of)]

\* finally: the class of that name is deleted, whoever created it; a failure
\* replaces the result.
Delete(c) ==
    /\ client[c].pc = "delete"
    /\ \/ /\ ServeDelete(Clients \ {c}, client[c].name) /\ Put(c, NoClass)
          /\ End(c, IF client[c].result = "error" THEN "error" ELSE "ok")
       \/ /\ ServeDelete(Clients \ {c}, client[c].name) /\ Put(c, NoClass) /\ End(c, "error")
       \/ /\ ~Exists(c) /\ End(c, "error") /\ UNCHANGED <<server, seen>>
       \/ /\ Delay(c, "delete") \/ UNCHANGED server
          /\ End(c, "error") /\ Fault(c)

\* The server handles a request that the client gave up.
ServeLate(r) ==
    /\ r \in server.late
    /\ LET class == server.class[r.name]
           Done(to) == server' = [class |-> [server.class EXCEPT ![r.name] = to],
                                  late |-> server.late \ {r}]
       IN  \/ r.do = "create" /\ class = NoClass /\ Done(New(r.by)) /\ UNCHANGED seen
           \/ r.do = "delete" /\ ServeDelete(Clients, r.name) /\ Done(NoClass)
           \/ (class = NoClass <=> r.do = "delete") /\ Done(class) /\ UNCHANGED seen
    /\ UNCHANGED client

Step(c) == Create(c) \/ Edit(c) \/ Activate(c) \/ Execute(c) \/ Delete(c)

Next == \/ \E c \in Clients : Start(c) \/ Step(c)
        \/ \E r \in Late : ServeLate(r)

(***************************************************************************)
(* Properties                                                              *)
(***************************************************************************)

\* A class is left behind only by a process one of whose requests to create
\* or delete got no usable answer; "unconditionally deleting" holds otherwise,
\* also when two runs share a name.
NothingLeftBehind ==
    \A n \in Names : LET by == server.class[n].by
        IN by # "none" /\ client[by].pc = "idle" => by \in seen.faulty

\* A run that succeeds prints the output of its own program, unless a class was
\* deleted under the run that created it: until then names that are drawn twice
\* do no harm, because the second creation fails.
OutputIsOwn ==
    \A c \in Clients : client[c].result = "ok" /\ client[c].pc = "idle" =>
        client[c].output = c \/ seen.robbed # {}
===================================================================================
