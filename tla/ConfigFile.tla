------------------------------- MODULE ConfigFile -----------------------------
(***************************************************************************)
(* The configuration file of sapcli (sap/config.py) and the commands of    *)
(* "sapcli config" that change it (sap/cli/config.py).  A command loads    *)
(* the whole file, changes it in memory and writes the whole file again:   *)
(* the file is truncated when it is opened and filled when it is closed,   *)
(* and nothing keeps a second process from doing the same meanwhile.       *)
(***************************************************************************)
EXTENDS Naturals, FiniteSets

CONSTANTS Processes,     \* sapcli processes that may run at the same time
          Connections, Users, Contexts,    \* names of entries
          None,          \* an entry or a reference that is not there
          Sources,       \* the configurations "config merge" may read
          InitialFiles,  \* what the file may contain at first
          MaxCommands    \* bound: commands started

\* What an entry says: written by set-connection and set-user, or by others.
Values == {"set", "given"}

Entry == [connection: Connections \cup {None}, user: Users \cup {None}]
Data == [connections: [Connections -> Values \cup {None}],
         users: [Users -> Values \cup {None}],
         contexts: [Contexts -> Entry \cup {None}],
         current: Contexts \cup {None}]

Nothing == [connections |-> [n \in Connections |-> None],
            users |-> [n \in Users |-> None],
            contexts |-> [n \in Contexts |-> None],
            current |-> None]

Commands ==
    [op: {"set-connection"}, name: Connections]
    \cup [op: {"set-user"}, name: Users]
    \cup [op: {"set-context"}, name: Contexts, ref: Entry]
    \cup [op: {"delete-connection"}, name: Connections, force: BOOLEAN]
    \cup [op: {"delete-user"}, name: Users, force: BOOLEAN]
    \cup [op: {"delete-context", "use-context"}, name: Contexts]
    \cup [op: {"merge"}, source: Sources, overwrite: BOOLEAN]

ASSUME DataAssumption == Sources \subseteq Data /\ InitialFiles \subseteq Data
ASSUME NoneAssumption ==
    /\ None \notin Connections \cup Users \cup Contexts \cup Values
    /\ None \notin Entry /\ None \notin Commands
ASSUME FiniteAssumption ==
    IsFiniteSet(Connections) /\ IsFiniteSet(Users) /\ IsFiniteSet(Contexts)
ASSUME BoundAssumption == MaxCommands \in Nat

\* find_referencing_contexts(), for both sections, and what is left dangling.
Refers(d, x, section, n) == d.contexts[x] # None /\ d.contexts[x][section] = n
Dangling(d) ==
    {x \in Contexts : d.contexts[x] # None /\
        \/ \E n \in Connections : Refers(d, x, "connection", n) /\ d.connections[n] = None
        \/ \E n \in Users : Refers(d, x, "user", n) /\ d.users[n] = None}

CurrentExists(d) == d.current = None \/ d.contexts[d.current] # None

\* The current context exists at first.
ASSUME CurrentAssumption == \A d \in InitialFiles : CurrentExists(d)

VARIABLES file,       \* what the file on disk contains
          damaged,    \* the file is not YAML: the remains of two writers
          pc,         \* pc[p]: where the command of p is
          cmd,        \* cmd[p]: the command p runs
          memory,     \* memory[p]: ConfigFile._data
          started,    \* the number of commands started
          serial,     \* the file if the commands that succeeded had run alone
          raced,      \* a command read the file while another was about to write
                      \* it, or the file was left truncated
          careless    \* contexts given a missing reference, orphaned by --force, or
                      \* taken from a source that has not what they refer to

vars == <<file, damaged, pc, cmd, memory, started, serial, raced, careless>>

Init ==
    /\ file \in InitialFiles
    /\ damaged = FALSE
    /\ pc = [p \in Processes |-> "idle"]
    /\ cmd = [p \in Processes |-> None]
    /\ memory = [p \in Processes |-> Nothing]
    /\ started = 0
    /\ serial = file
    /\ raced = FALSE
    /\ careless = Dangling(file)

-----------------------------------------------------------------------------
\* merge_into(): entries are added; existing ones are kept or overwritten.
Added(new, existing, overwrite) ==
    [n \in DOMAIN new |->
        IF new[n] = None \/ (existing[n] # None /\ ~overwrite) THEN existing[n] ELSE new[n]]

Merged(d, source, overwrite) ==
    [connections |-> Added(source.connections, d.connections, overwrite),
     users |-> Added(source.users, d.users, overwrite),
     contexts |-> Added(source.contexts, d.contexts, overwrite),
     current |-> d.current]

\* set_context(): only the references that are given are updated.
Patched(entry, ref) ==
    IF entry = None THEN ref
    ELSE [s \in {"connection", "user"} |-> IF ref[s] = None THEN entry[s] ELSE ref[s]]

\* Broken form of Refuses: --force is taken for granted.
RefusesUnknownOnly(k, d) ==
    \/ k.op = "delete-connection" /\ d.connections[k.name] = None
    \/ k.op = "delete-user" /\ d.users[k.name] = None
    \/ k.op \in {"delete-context", "use-context"} /\ d.contexts[k.name] = None

\* The errors of the commands: an unknown name, or an entry that contexts refer
\* to and that is not deleted by force.  set_context() checks nothing.
Refuses(k, d) ==
    \/ /\ k.op = "delete-connection"
       /\ \/ d.connections[k.name] = None
          \/ ~k.force /\ \E x \in Contexts : Refers(d, x, "connection", k.name)
    \/ /\ k.op = "delete-user"
       /\ \/ d.users[k.name] = None
          \/ ~k.force /\ \E x \in Contexts : Refers(d, x, "user", k.name)
    \/ k.op \in {"delete-context", "use-context"} /\ d.contexts[k.name] = None

\* Broken form of Changed: deleting a context leaves it the current one.
ChangedKeepingCurrent(k, d) ==
    CASE k.op = "set-connection" -> [d EXCEPT !.connections[k.name] = "set"]
      [] k.op = "set-user" -> [d EXCEPT !.users[k.name] = "set"]
      [] k.op = "set-context" -> [d EXCEPT !.contexts[k.name] = Patched(@, k.ref)]
      [] k.op = "delete-connection" -> [d EXCEPT !.connections[k.name] = None]
      [] k.op = "delete-user" -> [d EXCEPT !.users[k.name] = None]
      [] k.op = "delete-context" -> [d EXCEPT !.contexts[k.name] = None]
      [] k.op = "use-context" -> [d EXCEPT !.current = k.name]
      [] k.op = "merge" -> Merged(d, k.source, k.overwrite)

Changed(k, d) ==
    CASE k.op = "set-connection" -> [d EXCEPT !.connections[k.name] = "set"]
      [] k.op = "set-user" -> [d EXCEPT !.users[k.name] = "set"]
      [] k.op = "set-context" -> [d EXCEPT !.contexts[k.name] = Patched(@, k.ref)]
      [] k.op = "delete-connection" -> [d EXCEPT !.connections[k.name] = None]
      [] k.op = "delete-user" -> [d EXCEPT !.users[k.name] = None]
      [] k.op = "delete-context" ->
            [d EXCEPT !.contexts[k.name] = None,
                      !.current = IF @ = k.name THEN None ELSE @]
      [] k.op = "use-context" -> [d EXCEPT !.current = k.name]
      [] k.op = "merge" -> Merged(d, k.source, k.overwrite)

-----------------------------------------------------------------------------
Goto(p, l) == pc' = [pc EXCEPT ![p] = l]
Stop(p) ==
    /\ Goto(p, "idle")
    /\ cmd' = [cmd EXCEPT ![p] = None]
    /\ memory' = [memory EXCEPT ![p] = Nothing]

Start(p) ==
    /\ pc[p] = "idle" /\ started < MaxCommands
    /\ \E k \in Commands : cmd' = [cmd EXCEPT ![p] = k]
    /\ Goto(p, "load")
    /\ started' = started + 1
    /\ UNCHANGED <<file, damaged, memory, serial, raced, careless>>

\* The contexts a command may leave without what they refer to: set-context and a
\* forced deletion any, a merge those that its source has without it.
Endangered(k) ==
    IF k.op = "set-context" \/ (k.op \in {"delete-connection", "delete-user"} /\ k.force)
    THEN Contexts
    ELSE IF k.op = "merge" THEN Dangling(k.source) ELSE {}

\* ConfigFile.load() and the change in memory; a damaged file, a source that
\* cannot be read and a refusal end the command before anything is written.
Load(p) ==
    /\ pc[p] = "load"
    /\ \/ /\ ~damaged /\ ~Refuses(cmd[p], file)
          /\ memory' = [memory EXCEPT ![p] = Changed(cmd[p], file)]
          /\ Goto(p, "open")
          /\ careless' = careless \cup (Endangered(cmd[p]) \cap Dangling(memory'[p]))
          /\ raced' = (raced \/ \E q \in Processes : pc[q] \in {"open", "write"})
          /\ UNCHANGED cmd
       \/ /\ damaged \/ Refuses(cmd[p], file) \/ cmd[p].op = "merge"
          /\ Stop(p)
          /\ UNCHANGED <<raced, careless>>
    /\ UNCHANGED <<file, damaged, started, serial>>

\* Broken form of Open: what was in the file stays there.
OpenWithoutTruncating(p) ==
    /\ pc[p] = "open"
    /\ Goto(p, "write")
    /\ UNCHANGED <<file, damaged, cmd, memory, started, serial, raced, careless>>

\* ConfigFile.save(): os.open() with O_TRUNC, unless the directory or the file
\* cannot be opened for writing.
Open(p) ==
    /\ pc[p] = "open"
    /\ \/ file' = Nothing /\ damaged' = FALSE /\ Goto(p, "write") /\ UNCHANGED <<cmd, memory>>
       \/ Stop(p) /\ UNCHANGED <<file, damaged>>
    /\ UNCHANGED <<started, serial, raced, careless>>

Size(d) ==
    Cardinality({n \in Connections : d.connections[n] # None})
    + Cardinality({n \in Users : d.users[n] # None})
    + Cardinality({n \in Contexts : d.contexts[n] # None})

\* ConfigFile.save(): the buffer is written at the start of the file.  What
\* another process has written there meanwhile is covered, or sticks out.  A
\* write may fail as well.
Write(p) ==
    /\ pc[p] = "write"
    /\ \/ /\ \/ /\ damaged \/ Size(memory[p]) >= Size(file)
                /\ file' = memory[p] /\ damaged' = FALSE
             \/ /\ damaged \/ Size(memory[p]) < Size(file)
                /\ file' = Nothing /\ damaged' = TRUE
          /\ serial' = IF raced THEN serial ELSE Changed(cmd[p], serial)
          /\ UNCHANGED raced
       \/ raced' = TRUE /\ UNCHANGED <<file, damaged, serial>>
    /\ Stop(p)
    /\ UNCHANGED <<started, careless>>

\* The process dies; between opening and closing the file leaves it empty.
Kill(p) ==
    /\ pc[p] # "idle"
    /\ Stop(p)
    /\ raced' = (raced \/ pc[p] = "write")
    /\ UNCHANGED <<file, damaged, started, serial, careless>>

Next == \E p \in Processes : Start(p) \/ Load(p) \/ Open(p) \/ Write(p) \/ Kill(p)

Spec == Init /\ [][Next]_vars

-----------------------------------------------------------------------------
TypeOK ==
    /\ file \in Data
    /\ damaged \in BOOLEAN
    /\ pc \in [Processes -> {"idle", "load", "open", "write"}]
    /\ cmd \in [Processes -> Commands \cup {None}]
    /\ \A p \in Processes : pc[p] # "idle" => cmd[p] # None
    /\ memory \in [Processes -> Data]
    /\ started \in 0 .. MaxCommands
    /\ serial \in Data
    /\ raced \in BOOLEAN
    /\ careless \subseteq Contexts

\* A context refers to a connection and a user that exist, even with several
\* processes writing the file, unless set-context was given an unknown name,
\* --force deleted an entry it refers to, or merge read it from a source that lacks
\* the entry as well.  merge breaks no reference that holds in the file or the source.
ReferencesHold == Dangling(file) \subseteq careless

\* The current context is one of the contexts.
CurrentContextExists == CurrentExists(file)

\* A change that was reported as done is in the file, and the file is readable,
\* unless a process read the file while another one was about to write it, or
\* was stopped while the file was truncated.
NoLostUpdate ==
    ~raced /\ (\A p \in Processes : pc[p] # "write") => ~damaged /\ file = serial

=============================================================================
