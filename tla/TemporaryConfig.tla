----------------------------- MODULE TemporaryConfig --------------------------
(***************************************************************************)
(* Changing a gCTS repository temporarily: sapcli gcts repo branch         *)
(* update_filesystem and sapcli gcts checkout (sap/cli/gcts.py) set        *)
(* configuration options and the active branch, do their work, and put     *)
(* back what they found (temporary_config and temporary_switched_branch of *)
(* sap/rest/gcts/sugar.py) through a proxy that caches what it has read    *)
(* (Repository of sap/rest/gcts/remote_repo.py).                           *)
(*                                                                         *)
(* Several processes may do so at once on the same repository, requests    *)
(* are refused or lose their answer - and are carried out later -, and     *)
(* processes are killed.  The point of the two options is that the server  *)
(* does not import the objects of the branch it checks out.                *)
(***************************************************************************)
EXTENDS Naturals, Sequences, FiniteSets

CONSTANTS Clients,          \* sapcli processes
          Null,             \* nothing cached, nothing seen
          Commands,         \* Commands[c]: what process c may be asked to do
          InitialSettings   \* the settings the repository may start from

Keys == {"VCS_NO_IMPORT", "VCS_BUFFER_ONLY"}
Branches == {"main", "dev"}
Things == Keys \cup {"branch"}

\* Values of an option: not set, the temporary one, anything else.
Values == {"absent", "X", "other"}
Settings == {s \in [Things -> Values \cup Branches] :
               s["branch"] \in Branches /\ \A k \in Keys : s[k] \in Values}

AllCommands ==
    [name: {"update_filesystem"}, contexts: {<<"VCS_NO_IMPORT", "branch">>},
     branch: Branches, wait: {FALSE}]
    \cup
    [name: {"checkout"},
     contexts: {<<>>, <<"VCS_NO_IMPORT">>, <<"VCS_BUFFER_ONLY">>,
                <<"VCS_NO_IMPORT", "VCS_BUFFER_ONLY">>},
     branch: Branches, wait: BOOLEAN]

ASSUME NullAssumption == Null \notin [Things -> Values \cup Branches]
ASSUME CommandsAssumption == Commands \in [Clients -> SUBSET AllCommands]
ASSUME SettingsAssumption == InitialSettings \subseteq Settings

VARIABLES settings,   \* server: the configuration and the active branch
          original,   \* the settings before the first command
          pending,    \* requests given up by their client, not yet handled
          cmd,        \* cmd[c]: the command line of c
          pc,         \* pc[c]: where c is
          data,       \* data[c]: Repository._data
          config,     \* config[c]: Repository._config
          old,        \* old[c]: the value read by the context being entered
          open,       \* open[c]: the contexts c has entered, with their old values
          note,       \* note[c][t]: the value the recover message for t tells to restore
          failed,     \* failed[c]: the exception leaving the contexts
          shown,      \* shown[c]: the recover messages printed
          result,     \* result[c]: how the command ended
          start,      \* start[c]: the settings when c first looked
          disturbed,  \* disturbed[c]: somebody else changed them since
          imported,   \* the processes whose request made the server import
          unanswered  \* unanswered[c]: what requests of c for an effect got no answer

serverVars == <<settings, pending, disturbed, imported>>
clientVars == <<pc, data, config, old, open, note, failed, shown, result, start,
                unanswered>>
vars == <<settings, original, pending, cmd, pc, data, config, old, open, note,
          failed, shown, result, start, disturbed, imported, unanswered>>

NoNotes == [t \in Things |-> "none"]

Init ==
    /\ settings \in InitialSettings
    /\ original = settings
    /\ pending = {}
    /\ cmd \in {f \in [Clients -> AllCommands] : \A c \in Clients : f[c] \in Commands[c]}
    /\ pc = [c \in Clients |-> IF cmd[c].name = "checkout" THEN "repo" ELSE "enter"]
    /\ data = [c \in Clients |-> Null]
    /\ config = [c \in Clients |-> Null]
    /\ old = [c \in Clients |-> "none"]
    /\ open = [c \in Clients |-> <<>>]
    /\ note = [c \in Clients |-> NoNotes]
    /\ failed = [c \in Clients |-> "no"]
    /\ shown = [c \in Clients |-> NoNotes]
    /\ result = [c \in Clients |-> "none"]
    /\ start = [c \in Clients |-> Null]
    /\ disturbed = [c \in Clients |-> FALSE]
    /\ imported = {}
    /\ unanswered = [c \in Clients |-> {}]

-----------------------------------------------------------------------------
\* The server (external): POST and DELETE of an option, a branch switch and a
\* pull.  The last two import the objects unless an option keeps them out.
Imports == \A k \in Keys : settings[k] # "X"

Serve(c, t, v) ==
    /\ settings' = IF t = "pull" THEN settings ELSE [settings EXCEPT ![t] = v]
    /\ imported' = IF t \in {"branch", "pull"} /\ Imports THEN imported \cup {c} ELSE imported
    /\ disturbed' = [d \in Clients |-> disturbed[d] \/
                       (d # c /\ start[d] # Null /\ settings' # settings)]

\* A request the client has given up is carried out after all.
ServeLate(r) ==
    /\ Serve(r[1], r[2], r[3])
    /\ pending' = pending \ {r}
    /\ UNCHANGED <<original, cmd, clientVars>>

\* The outcomes of one request for an effect: "http" is an HTTPRequestError
\* that is not translated into a gCTS error, which a proxy also answers when
\* the server takes too long; "other" is every other SAPCliError; "crash" is any
\* other exception: Ctrl-C, a missing token, an answer that cannot be read.
Answered(c, t, v) == Serve(c, t, v) /\ UNCHANGED <<pending, unanswered>>
Unanswered(c, t, v) ==
    /\ unanswered' = [unanswered EXCEPT ![c] = @ \cup {t}]
    /\ \/ Serve(c, t, v) /\ UNCHANGED pending
       \/ UNCHANGED serverVars
       \/ pending' = pending \cup {<<c, t, v>>} /\ UNCHANGED <<settings, disturbed, imported>>
Refused == UNCHANGED <<serverVars, unanswered>>

Goto(c, p) == pc' = [pc EXCEPT ![c] = p]
Raise(c) == \E e \in {"http", "other", "crash"} : failed' = [failed EXCEPT ![c] = e]
\* The process exits: what it had in memory is gone.
End(c, r) ==
    /\ Goto(c, "done")
    /\ result' = [result EXCEPT ![c] = r]
    /\ data' = [data EXCEPT ![c] = Null]
    /\ config' = [config EXCEPT ![c] = Null]
    /\ old' = [old EXCEPT ![c] = "none"]
    /\ open' = [open EXCEPT ![c] = <<>>]
    /\ failed' = [failed EXCEPT ![c] = "no"]
Fails(c) == \E r \in {"error", "traceback"} : End(c, r)

-----------------------------------------------------------------------------
\* The context being entered, and the innermost one that is open.
Entering(c) == cmd[c].contexts[Len(open[c]) + 1]
Top(c) == open[c][Len(open[c])]

Outer(s) == SubSeq(s, 1, Len(s) - 1)
Temporary(c, t) == IF t = "branch" THEN cmd[c].branch ELSE "X"
Entered(c, v) == open' = [open EXCEPT ![c] = Append(@, [thing |-> Entering(c), old |-> v])]
ForgetsOld(c) == old' = [old EXCEPT ![c] = "none"]
NextContext(c, n) == IF n = Len(cmd[c].contexts) THEN "body" ELSE "enter"

\* Repository.configuration and Repository.branch read what is cached.
Configuration(c) == IF config[c] # Null THEN config[c] ELSE data[c]
Cached(c, t) == IF t = "branch" THEN data[c] # Null ELSE config[c] # Null \/ data[c] # Null

\* What the next step of c has to know about the repository.
Needs(c, t) ==
    \/ pc[c] \in {"repo", "head"} /\ t = "branch"
    \/ pc[c] = "enter" /\ t = Entering(c)
    \/ pc[c] = "set" /\ t = "branch" /\ Entering(c) = "branch"
    \/ pc[c] = "body" /\ t = "branch" /\ cmd[c].name = "checkout"
    \/ /\ pc[c] = "leave" /\ open[c] # <<>> /\ t = Top(c).thing
       /\ t = "branch" => Top(c).old # cmd[c].branch
       /\ t # "branch" => Top(c).old = "absent"
Missing(c) == \E t \in Things : Needs(c, t) /\ ~Cached(c, t)

\* Repository._fetch_data(): one GET of the whole repository, at the place
\* that needs it; there an exception is one of the surrounding step.
Fetch(c) ==
    /\ Missing(c)
    /\ \/ /\ data' = [data EXCEPT ![c] = settings]
          /\ start' = [start EXCEPT ![c] = IF @ = Null THEN settings ELSE @]
          /\ UNCHANGED <<pc, config, old, open, failed, result>>
       \/ /\ pc[c] \in {"repo", "head"}
          /\ Fails(c)
          /\ UNCHANGED start
       \/ /\ pc[c] \notin {"repo", "head"}
          /\ Raise(c)
          /\ Goto(c, "leave")
          /\ open' = [open EXCEPT ![c] = IF pc[c] = "leave" THEN Outer(@) ELSE @]
          /\ UNCHANGED <<data, config, old, start, result>>
    /\ UNCHANGED <<original, cmd, note, shown, unanswered, serverVars>>

\* checkout(): old_branch = repo.branch, before anything else.
ReadRepo(c) ==
    /\ pc[c] = "repo"
    /\ ~Missing(c)
    /\ Goto(c, NextContext(c, 0))
    /\ UNCHANGED <<original, cmd, data, config, old, open, note, failed, shown,
                   result, start, unanswered, serverVars>>

\* Entering temporary_config(): Repository.get_config() takes the value from
\* the cached configuration, and asks for the key when that has none.
ReadConfig(c) ==
    /\ pc[c] = "enter" /\ Entering(c) # "branch"
    /\ ~Missing(c)
    /\ LET known == Configuration(c)[Entering(c)]
       IN  /\ Goto(c, IF known = "absent" THEN "key" ELSE "set")
           /\ old' = [old EXCEPT ![c] = known]
    /\ config' = [config EXCEPT ![c] = Configuration(c)]
    /\ UNCHANGED <<original, cmd, data, open, note, failed, shown, result, start,
                   unanswered, serverVars>>

\* Broken form of ReadKey: a key that is not set is taken for an empty value.
ReadKeyAsEmpty(c) ==
    /\ pc[c] = "key"
    /\ Goto(c, "set")
    /\ old' = [old EXCEPT ![c] = IF settings[Entering(c)] = "absent"
                                THEN "other" ELSE settings[Entering(c)]]
    /\ UNCHANGED <<original, cmd, data, config, open, note, failed, shown, result,
                   start, unanswered, serverVars>>

\* GET config/<key>: an answer without a value means that the key is not set.
ReadKey(c) ==
    /\ pc[c] = "key"
    /\ \/ /\ Goto(c, "set")
          /\ old' = [old EXCEPT ![c] = settings[Entering(c)]]
          /\ config' = [config EXCEPT ![c][Entering(c)] = settings[Entering(c)]]
          /\ UNCHANGED failed
       \/ Raise(c) /\ Goto(c, "leave") /\ UNCHANGED <<old, config>>
    /\ UNCHANGED <<original, cmd, data, open, note, shown, result, start, unanswered,
                   serverVars>>

\* Entering temporary_switched_branch(): the branch comes from the cache; the
\* recover message is there before the switch is asked for.
ReadBranch(c) ==
    /\ pc[c] = "enter" /\ Entering(c) = "branch"
    /\ ~Missing(c)
    /\ LET active == data[c]["branch"]
       IN  IF active = cmd[c].branch
           THEN /\ Entered(c, active)
                /\ Goto(c, NextContext(c, Len(open'[c])))
                /\ UNCHANGED <<old, note>>
           ELSE /\ old' = [old EXCEPT ![c] = active]
                /\ note' = [note EXCEPT ![c]["branch"] = active]
                /\ Goto(c, "set")
                /\ UNCHANGED open
    /\ UNCHANGED <<original, cmd, data, config, failed, shown, result, start,
                   unanswered, serverVars>>

Wiped(c) == data' = [data EXCEPT ![c] = Null] /\ config' = [config EXCEPT ![c] = Null]
NothingKnown == [t \in Things |-> "absent"]

\* Repository.set_config(): the cache follows a request that succeeded.
Known(c, k, v) ==
    config' = [config EXCEPT ![c] =
                  [(IF config[c] = Null THEN NothingKnown ELSE config[c]) EXCEPT ![k] = v]]

\* Repository.checkout() and pull(): the request was carried out, but its answer
\* has no result, or is not JSON.
Unreadable(c, t, v) ==
    /\ Answered(c, t, v)
    /\ failed' = [failed EXCEPT ![c] = "crash"]
    /\ Wiped(c) \/ (t = "pull" /\ UNCHANGED <<data, config>>)

\* Broken form of SetTemporary: a failure to set the value is only logged.
SetTemporaryAnyway(c) ==
    /\ pc[c] = "set"
    /\ LET t == Entering(c)
           v == Temporary(c, t)
       IN  Answered(c, t, v) \/ Refused \/ Unanswered(c, t, v)
    /\ Entered(c, old[c])
    /\ Goto(c, NextContext(c, Len(open'[c])))
    /\ ForgetsOld(c)
    /\ UNCHANGED <<original, cmd, data, config, note, failed, shown, result, start>>

\* repo.set_config(tmp) or repo.checkout(branch).  Only after set_config() has
\* returned is there a recover message, and a value worth one.
SetTemporary(c) ==
    /\ pc[c] = "set"
    /\ ~Missing(c)
    /\ LET t == Entering(c)
           v == Temporary(c, t)
       IN  \/ /\ Answered(c, t, v)
              /\ IF t = "branch" THEN Wiped(c) ELSE Known(c, t, v) /\ UNCHANGED data
              /\ note' = [note EXCEPT ![c][t] = IF old[c] = v THEN "none" ELSE old[c]]
              /\ Entered(c, old[c])
              /\ Goto(c, NextContext(c, Len(open'[c])))
              /\ UNCHANGED failed
           \/ /\ Refused \/ Unanswered(c, t, v)
              /\ Raise(c) /\ Goto(c, "leave")
              /\ UNCHANGED <<data, config, note, open>>
           \/ /\ t = "branch" /\ Unreadable(c, t, v)
              /\ Goto(c, "leave")
              /\ UNCHANGED <<note, open>>
    /\ ForgetsOld(c)
    /\ UNCHANGED <<original, cmd, shown, result, start>>

\* The body of the contexts: repo.pull(), which also takes an HTTP 500 that
\* carries a result for an answer, or repo.checkout(branch).
Body(c) ==
    /\ pc[c] = "body"
    /\ ~Missing(c)
    /\ LET t == IF cmd[c].name = "checkout" THEN "branch" ELSE "pull"
           v == cmd[c].branch
       IN  \/ /\ Answered(c, t, v) \/ (t = "pull" /\ Refused)
              /\ Wiped(c) /\ UNCHANGED failed
           \/ /\ Refused \/ Unanswered(c, t, v)
              /\ Raise(c) /\ UNCHANGED <<data, config>>
           \/ Unreadable(c, t, v)
    /\ Goto(c, "leave")
    /\ UNCHANGED <<original, cmd, old, open, note, shown, result, start>>

\* delete_config(), set_config() or checkout() of the old value has returned.
Reverted(c, t, v) ==
    /\ Answered(c, t, v)
    /\ note' = [note EXCEPT ![c][t] = "none"]
    /\ IF t = "branch" THEN Wiped(c)
       ELSE IF v = "absent"
       THEN config' = [config EXCEPT ![c] = Configuration(c)] /\ UNCHANGED data
       ELSE Known(c, t, v) /\ UNCHANGED data
    /\ UNCHANGED failed

\* Broken form of RevertFailed: the failure to put a value back is only logged.
RevertFailureLogged(c, t, v) ==
    /\ Refused \/ Unanswered(c, t, v)
    /\ UNCHANGED <<data, config, note, failed>>

\* Broken form of RevertFailed: the recover message is withdrawn too early.
RevertFailureForgotten(c, t, v) ==
    /\ Refused \/ Unanswered(c, t, v)
    /\ Raise(c)
    /\ note' = [note EXCEPT ![c][t] = "none"]
    /\ UNCHANGED <<data, config>>

\* It has raised instead, which replaces the exception on its way.
RevertFailed(c, t, v) ==
    /\ \/ /\ Refused \/ Unanswered(c, t, v)
          /\ Raise(c)
          /\ UNCHANGED <<data, config>>
       \/ t = "branch" /\ Unreadable(c, t, v)
    /\ UNCHANGED note

\* Leaving a context, the innermost first, whatever happened: the old value is
\* put back, unless the context found its value already set.
Revert(c) ==
    /\ pc[c] = "leave" /\ open[c] # <<>>
    /\ ~Missing(c)
    /\ LET t == Top(c).thing
           v == Top(c).old
       IN  IF v = Temporary(c, t)
           THEN Refused /\ UNCHANGED <<data, config, note, failed>>
           ELSE Reverted(c, t, v) \/ RevertFailed(c, t, v)
    /\ open' = [open EXCEPT ![c] = Outer(@)]
    /\ UNCHANGED <<original, cmd, pc, old, shown, result, start>>

\* The rest of update_filesystem(): process_recover_notification().  It is not
\* reached by an exception that is no SAPCliError, nor when the messages of an
\* error cannot be printed or the answer cannot be written to the output file.
EndUpdate(c) ==
    /\ pc[c] = "leave" /\ open[c] = <<>> /\ cmd[c].name = "update_filesystem"
    /\ \/ /\ failed[c] # "crash"
          /\ shown' = [shown EXCEPT ![c] = note[c]]
          /\ End(c, IF failed[c] = "no" THEN "ok" ELSE "error")
       \/ End(c, "traceback") /\ UNCHANGED shown
    /\ UNCHANGED <<original, cmd, note, start, unanswered, serverVars>>

\* The rest of checkout(): without an exception the new head is read; with an
\* HTTPRequestError and --wait-for-ready the repository is watched, after a
\* look at the activities when objects were to be imported.
EndCheckout(c) ==
    /\ pc[c] = "leave" /\ open[c] = <<>> /\ cmd[c].name = "checkout"
    /\ \/ failed[c] = "no" /\ Goto(c, "head") /\ Wiped(c)
          /\ UNCHANGED <<old, open, failed, result>>
       \/ /\ failed[c] = "http" /\ cmd[c].wait
          /\ Goto(c, IF \E i \in 1 .. Len(cmd[c].contexts) :
                          cmd[c].contexts[i] = "VCS_NO_IMPORT" THEN "poll" ELSE "activities")
          /\ Wiped(c) /\ UNCHANGED <<old, open, failed, result>>
       \/ failed[c] = "http" /\ ~cmd[c].wait /\ End(c, "error")
       \/ failed[c] = "other" /\ End(c, "error")
       \/ failed[c] = "crash" /\ End(c, "traceback")
    /\ UNCHANGED <<original, cmd, note, shown, start, unanswered, serverVars>>

ReadHead(c) ==
    /\ pc[c] = "head"
    /\ ~Missing(c)
    /\ End(c, "ok")
    /\ UNCHANGED <<original, cmd, note, shown, start, unanswered, serverVars>>

\* get_activity_rc(): the branch switch activities of the server say anything.
Activities(c) ==
    /\ pc[c] = "activities"
    /\ \/ Goto(c, "poll") /\ UNCHANGED <<result, data, config, old, open, failed>>
       \/ Fails(c)
    /\ UNCHANGED <<original, cmd, note, shown, start, unanswered, serverVars>>

\* Broken form of Poll: there is no end to the waiting.
PollForever(c) ==
    /\ pc[c] = "poll"
    /\ settings["branch"] = cmd[c].branch
    /\ End(c, "recovered")
    /\ UNCHANGED <<original, cmd, note, shown, start, unanswered, serverVars>>

\* wait_for_operation(): asks for the branch until it is the wanted one or the
\* time is up; an HTTPRequestError is not an answer, any other one ends it.
Poll(c) ==
    /\ pc[c] = "poll"
    /\ \/ settings["branch"] = cmd[c].branch /\ End(c, "recovered")
       \/ Fails(c)
    /\ UNCHANGED <<original, cmd, note, shown, start, unanswered, serverVars>>

\* The process is killed between two requests: no context is left.
Kill(c) ==
    /\ pc[c] # "done"
    /\ End(c, "killed")
    /\ UNCHANGED <<original, cmd, note, shown, start, unanswered, serverVars>>

Step(c) ==
    \/ Fetch(c) \/ ReadRepo(c) \/ ReadConfig(c) \/ ReadKey(c) \/ ReadBranch(c)
    \/ SetTemporary(c) \/ Body(c) \/ Revert(c)
    \/ EndUpdate(c) \/ EndCheckout(c) \/ ReadHead(c) \/ Activities(c) \/ Poll(c)

Next ==
    \/ \E c \in Clients : Step(c) \/ Kill(c)
    \/ \E r \in pending : ServeLate(r)

\* Every request of a process is answered or times out.
Fairness == \A c \in Clients : WF_vars(Step(c))

Spec == Init /\ [][Next]_vars /\ Fairness

-----------------------------------------------------------------------------
TypeOK ==
    /\ settings \in Settings
    /\ original \in Settings
    /\ pending \subseteq Clients \X (Things \cup {"pull"}) \X (Values \cup Branches)
    /\ cmd \in [Clients -> AllCommands]
    /\ pc \in [Clients -> {"repo", "enter", "key", "set", "body", "leave", "head",
                           "activities", "poll", "done"}]
    /\ data \in [Clients -> Settings \cup {Null}]
    /\ \A c \in Clients : config[c] # Null =>
           config[c] \in [Things -> Values \cup Branches]
    /\ old \in [Clients -> Values \cup Branches \cup {"none"}]
    /\ \A c \in Clients : \A i \in 1 .. Len(open[c]) :
           /\ open[c][i].thing = cmd[c].contexts[i]
           /\ open[c][i].old \in Values \cup Branches
    /\ note \in [Clients -> [Things -> Values \cup Branches \cup {"none"}]]
    /\ failed \in [Clients -> {"no", "http", "other", "crash"}]
    /\ shown \in [Clients -> [Things -> Values \cup Branches \cup {"none"}]]
    /\ result \in [Clients -> {"none", "ok", "recovered", "error", "traceback", "killed"}]
    /\ start \in [Clients -> Settings \cup {Null}]
    /\ disturbed \in [Clients -> BOOLEAN]
    /\ imported \subseteq Clients
    /\ unanswered \in [Clients -> SUBSET (Things \cup {"pull"})]

Contexts(c) == {cmd[c].contexts[i] : i \in 1 .. Len(cmd[c].contexts)}
Undisturbed(c) == start[c] # Null /\ ~disturbed[c]

\* A command that succeeds without an exception has put back everything it
\* changed for the time being, as long as nobody else changed the repository.
OkMeansRestored ==
    \A c \in Clients : result[c] = "ok" /\ Undisturbed(c) =>
        \A t \in Contexts(c) : settings[t] = start[c][t]

\* What the options are for: the server imports nothing for a command that asked
\* it not to, unless another process changed the options meanwhile or a branch
\* switch or pull of the command lost its answer and came after the options
\* had been put back.
NoUnwantedImport ==
    \A c \in Clients : c \in imported /\ Contexts(c) \cap Keys # {} =>
        disturbed[c] \/ unanswered[c] \cap {"branch", "pull"} # {}

\* Whatever update_filesystem does not put back, it has a recover message for with
\* the value to restore, and prints it, unless it ends with a traceback.  The
\* exception is an option whose first change lost its answer.
UpdateTellsWhatToRestore ==
    \A c \in Clients :
        /\ cmd[c].name = "update_filesystem"
        /\ result[c] \in {"ok", "error", "traceback"} /\ Undisturbed(c)
        => \A t \in Contexts(c) : settings[t] # start[c][t] =>
               \/ /\ note[c][t] = start[c][t]
                  /\ result[c] # "traceback" => shown[c][t] = note[c][t]
               \/ t \in Keys \cap unanswered[c] /\ note[c][t] = "none"

\* "recover_message (str): Recover message to be printed in the case the
\* temporary configuration change could not be reverted." (sugar.py): the same
\* of every command, for the changes that are known to have been made.
RecoverMessagePrinted ==
    \A c \in Clients :
        result[c] \in {"ok", "recovered", "error"} /\ Undisturbed(c) =>
            \A t \in Keys : note[c][t] # "none" /\ settings[t] # start[c][t] =>
                shown[c][t] = start[c][t]

\* However many commands run at once and fail, an option never gets a value
\* other than the original and the temporary one.
OnlyFlagOrOriginal == \A k \in Keys : settings[k] \in {original[k], "X"}

\* A command that has entered a context leaves it and ends, whether or not the
\* repository ever becomes what it waits for.
EveryCommandEnds == \A c \in Clients : open[c] # <<>> ~> pc[c] = "done"
=============================================================================
