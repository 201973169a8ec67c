--------------------------------- MODULE GctsRepo --------------------------------
(***************************************************************************)
(* The gcts commands that TemporaryConfig and GctsClone leave out. They    *)
(* look for a repository by its name or its URL, fetch its data when they  *)
(* need them, and send one request that changes it (cli/gcts.py,           *)
(* rest/gcts/remote_repo.py), while somebody else changes repositories.    *)
(* The configuration of the system and the credentials of the user are     *)
(* changed without looking at them: System stands for both.                *)
(* Commands that only show something are one action, Show.                 *)
(***************************************************************************)
EXTENDS Naturals, FiniteSets

CONSTANTS Rids,        \* names of repositories
          System       \* where the configuration of the system is

VARIABLES client,      \* the command and what it knows
          server,      \* the repositories
          seen         \* history: see Init

vars == <<client, server, seen>>

\* Of each property there are two values; an option that is not set is "none".
Values == {"a", "b"}
None == "none"
Places == Rids \cup {System}
Repository == [exists: BOOLEAN, url: Values, role: Values, config: Values \cup {None},
               branches: SUBSET Values, active: Values, commit: {"old", "new"}]

\* The commands that change something, and the property they are about.
Changing ==
    [do: {"set"}, on: {"role", "url"}, value: {"a"}, format: {"HUMAN"}]
    \cup [do: {"config", "unset"}, on: {"config"}, value: {"a"}, format: {"HUMAN"}]
    \cup [do: {"create branch", "delete branch"}, on: {"branches"}, value: Values, format: {"HUMAN"}]
    \cup [do: {"pull", "commit", "delete"}, on: {"commit"}, value: {"a"}, format: {"HUMAN"}]

\* What can be shown; "process" is the messages of one process, "list" that of gcts task.
Shown == {"activities", "messages", "process", "objects", "log", "tasks", "task", "list",
          "branches", "credentials", "options"}
Showing == [do: {"show"}, on: Shown, value: {"a"}, format: {"HUMAN", "JSON"}]

Names == [rid: Places] \cup [url: Values]

\* Which properties the user wants to change.
Asked(cmd) ==
    CASE cmd.do = "create branch" -> {"branches", "active"}
      [] cmd.do = "delete" -> {"exists"}
      [] cmd.do = "show" -> {}
      [] OTHER -> {cmd.on}

TypeOK ==
    /\ client.cmd \in Changing \cup Showing /\ client.name \in Names
    /\ client.pc \in {"resolve", "fetch", "option", "request", "show", "done"}
    /\ client.rid \in Places /\ client.old \in Values \cup {None}
    /\ client.exit \in {"none", "ok", "error", "traceback"}
    /\ server \in [Places -> Repository]
    /\ seen.before \in [Places -> Repository]
    /\ seen.others \subseteq Places \X DOMAIN seen.before[System]
    /\ seen.answer \in {"none", "data", "odd", "empty", "nothing", "bare"}
    /\ seen.wrapped \in BOOLEAN

(***************************************************************************)
(* before: the repositories when the command began, others: what somebody  *)
(* else has changed since, answer: what the server sent to be shown,       *)
(* wrapped: an error of the server with a result was taken for an answer.  *)
(***************************************************************************)
Init ==
    /\ \E url \in [Rids -> Values], role \in Values, config \in Values \cup {None} :
          server = [r \in Places |-> [exists |-> TRUE, url |-> IF r \in Rids THEN url[r] ELSE "a",
                                      role |-> role, config |-> config, branches |-> {"a"},
                                      active |-> "a", commit |-> "old"]]
    /\ \E cmd \in Changing \cup Showing, name \in Names :
          /\ name = [rid |-> System] => cmd.do \in {"config", "unset"} \/ cmd.on \in {"credentials", "options"}
          /\ cmd.on \in {"credentials", "options"} => name = [rid |-> System]
          /\ client = [cmd |-> cmd, name |-> name, pc |-> "resolve", rid |-> System,
                       old |-> None, exit |-> "none"]
    /\ seen = [before |-> server, others |-> {}, answer |-> "none", wrapped |-> FALSE]

Exit(how) == client' = [client EXCEPT !.pc = "done", !.exit = how]

ByUrl == "url" \in DOMAIN client.name

\* fetch_repos(), of which those with the URL are taken.
Found == {r \in Rids : server[r].exists /\ server[r].url = client.name.url}

\* The first request after the repository is known: only a property is looked
\* at before it is set, and an option before it is set or deleted.
After ==
    CASE client.cmd.do = "show" -> "show"
      [] client.cmd.do \in {"set", "config", "unset"} /\ client.name # [rid |-> System] -> "fetch"
      [] OTHER -> "request"

\* get_json() of repositories and tasks takes an error whose body has a result for
\* an answer. Where the result has what was asked for, it is an answer like any
\* other; this is for one that has not.
TakeError == seen' = [seen EXCEPT !.wrapped = TRUE]

\* Broken form of Resolve: the first repository with the URL is taken.
ResolveFirst ==
    /\ client.pc = "resolve"
    /\ \/ /\ ByUrl
          /\ \E r \in Rids : /\ server[r].exists /\ server[r].url = client.name.url
                             /\ client' = [client EXCEPT !.rid = r, !.pc = After]
       \/ ~ByUrl /\ client' = [client EXCEPT !.rid = client.name.rid, !.pc = After]
    /\ UNCHANGED <<server, seen>>

\* get_repository(): a URL must be that of exactly one repository; the data in
\* the list of repositories are not kept. Of a name nothing is asked.
Resolve ==
    /\ client.pc = "resolve"
    /\ \/ ~ByUrl /\ client' = [client EXCEPT !.rid = client.name.rid, !.pc = After]
       \/ /\ ByUrl /\ Cardinality(Found) = 1
          /\ \E r \in Found : client' = [client EXCEPT !.rid = r, !.pc = After]
       \/ ByUrl /\ Exit("error")
    /\ UNCHANGED <<server, seen>>

There == server[client.rid]

\* _fetch_data() for _set_item(), which sends nothing if the property has the
\* value already, and for get_config(), which asks for options it did not get.
\* What is not in the data is not the value.
Fetch ==
    /\ client.pc = "fetch"
    /\ \/ /\ There.exists
          /\ CASE client.cmd.do = "set" /\ There[client.cmd.on] = client.cmd.value -> Exit("ok")
               [] client.cmd.do = "set" /\ There[client.cmd.on] # client.cmd.value ->
                    client' = [client EXCEPT !.pc = "request"]
               [] client.cmd.do # "set" /\ There.config = None -> client' = [client EXCEPT !.pc = "option"]
               [] OTHER -> client' = [client EXCEPT !.pc = "request", !.old = There.config]
          /\ UNCHANGED seen
       \/ Exit("error") /\ UNCHANGED seen
       \/ /\ TakeError
          /\ \/ client' = [client EXCEPT !.pc = IF client.cmd.do = "set" THEN "request" ELSE "option"]
             \/ Exit("traceback")
    /\ UNCHANGED server

\* get_config() of one option.
Option ==
    /\ client.pc = "option"
    /\ \/ client' = [client EXCEPT !.pc = "request", !.old = There.config] /\ UNCHANGED seen
       \/ Exit("error") /\ UNCHANGED seen
       \/ /\ TakeError
          /\ client' = [client EXCEPT !.pc = "request", !.old = None] \/ Exit("traceback")
    /\ UNCHANGED server

\* The server (external) refuses what cannot be done.
Possible ==
    /\ There.exists
    /\ client.cmd.do = "delete branch" => client.cmd.value \in There.branches \ {There.active}

Changed ==
    LET value == client.cmd.value
    IN  CASE client.cmd.do \in {"set", "config"} -> [There EXCEPT ![client.cmd.on] = value]
          [] client.cmd.do = "unset" -> [There EXCEPT !.config = None]
          [] client.cmd.do = "create branch" -> [There EXCEPT !.branches = @ \cup {value}, !.active = value]
          [] client.cmd.do = "delete branch" -> [There EXCEPT !.branches = @ \ {value}]
          [] client.cmd.do = "delete" -> [There EXCEPT !.exists = FALSE]
          [] OTHER -> [There EXCEPT !.commit = "new"]

\* The one request that changes something: done; done, but without an answer
\* that can be used; or refused, which of a pull (a GET) can be taken for done.
Request ==
    /\ client.pc = "request"
    /\ \/ /\ Possible /\ server' = [server EXCEPT ![client.rid] = Changed]
          /\ \E how \in {"ok", "error", "traceback"} :
                (how = "traceback" => client.cmd.on = "branches" \/ client.cmd.do = "pull") /\ Exit(how)
          /\ UNCHANGED seen
       \/ Exit("error") /\ UNCHANGED <<server, seen>>
       \/ /\ client.cmd.do = "pull" /\ TakeError /\ UNCHANGED server
          /\ \E how \in {"ok", "traceback"} : Exit(how)

(***************************************************************************)
(* What becomes of an answer. "odd" lacks something in an entry: a column  *)
(* of the table, the response in the log of a program, the active branch;  *)
(* "empty" has an empty list, "nothing" is empty JSON, and "bare" has no   *)
(* list at all. JSON output does not look into the entries.                *)
(***************************************************************************)

\* What ends in a traceback instead of a message.
Breaks(of, answer, format) ==
    \/ answer = "odd" /\ of \in {"log", "credentials", "process"}
    \/ answer \in {"odd", "empty"} /\ of = "branches" /\ format = "HUMAN"
    \/ answer \in {"nothing", "bare"} /\ of \in {"log", "task"}
    \/ answer \in {"nothing", "bare"} /\ of = "tasks" /\ format = "HUMAN"
    \/ answer = "nothing" /\ of = "process"

\* What is shown, be it as nothing.
Shows(of, answer, format) ==
    \/ answer = "data"
    \/ answer = "odd" /\ format = "JSON"
    \/ answer = "empty" /\ of # "activities" /\ (of = "task" => format = "JSON")
    \/ answer \in {"nothing", "bare"} /\ of \in {"tasks", "list"}
    \/ answer = "nothing" /\ of \in {"activities", "messages", "objects"}

Outcome(of, answer, format) ==
    CASE Breaks(of, answer, format) -> "traceback"
      [] ~Breaks(of, answer, format) /\ Shows(of, answer, format) -> "ok"
      [] OTHER -> "error"

\* The configuration of the system and the user are read by other functions.
Show ==
    /\ client.pc = "show"
    /\ \/ Exit("error") /\ UNCHANGED seen
       \/ \E answer \in {"data", "odd", "empty", "nothing", "bare"}, wrapped \in BOOLEAN :
             /\ IF wrapped THEN answer # "nothing" /\ client.cmd.on \notin {"credentials", "options"}
                ELSE There.exists
             /\ Exit(Outcome(client.cmd.on, answer, client.cmd.format))
             /\ seen' = [seen EXCEPT !.answer = answer, !.wrapped = wrapped]
    /\ UNCHANGED server

\* Somebody else deletes a repository, or changes one property.
Others ==
    /\ client.pc \notin {"show", "done"} /\ seen.others = {}
    /\ \E r \in Rids, field \in {"exists", "url", "role", "config"} :
          /\ server[r].exists
          /\ \/ field = "exists" /\ server' = [server EXCEPT ![r].exists = FALSE]
             \/ /\ field # "exists"
                /\ \E v \in Values \ {server[r][field]} : server' = [server EXCEPT ![r][field] = v]
          /\ seen' = [seen EXCEPT !.others = {<<r, field>>}]
    /\ UNCHANGED client

Next == Resolve \/ Fetch \/ Option \/ Request \/ Show \/ Others

-----------------------------------------------------------------------------
Ok == client.exit = "ok"
OthersDid(r, field) == {<<r, field>>, <<r, "exists">>} \cap seen.others # {}

\* The repository is the one that was named: no other had the URL.
TheOneNamed ==
    Ok /\ ByUrl =>
        \A r \in Rids : (seen.before[r].url = client.name.url) # (r = client.rid)
                            => \E q \in Rids : OthersDid(q, "url")

\* What was asked for is there, and a bare answer is no empty list except for tasks.
SuccessIsTrue ==
    Ok => LET there == seen.before[client.rid] IN
          /\ client.cmd.do = "show" /\ seen.answer = "bare" => client.cmd.on \in {"tasks", "list"}
          /\ client.cmd.do # "show" => \/ server[client.rid] = Changed
                                       \/ client.cmd.do = "pull" /\ seen.wrapped
                                       \/ \E f \in DOMAIN there : OthersDid(client.rid, f)
          /\ client.cmd.do \in {"config", "unset"} /\ client.rid # System =>
                client.old = there.config \/ seen.wrapped \/ OthersDid(client.rid, "config")

\* Nothing else was changed, whatever the exit code.
ChangesOnlyAsked ==
    \A r \in Places : \A f \in DOMAIN server[r] :
        server[r][f] # seen.before[r][f] =>
            <<r, f>> \in seen.others \/ (r = client.rid /\ f \in Asked(client.cmd))

(***************************************************************************)
(* A gcts command tells the truth: it works on the one repository that the *)
(* user named, what it reports as done is done (unless somebody else, or   *)
(* an error that came with a result, interfered), an old value it prints   *)
(* was the value, and it changes nothing that it was not asked to change.  *)
(* Such an error excuses a pull, and an old value, and nothing else.       *)
(***************************************************************************)
RepositoryAsReported == TheOneNamed /\ SuccessIsTrue /\ ChangesOnlyAsked
=============================================================================
