-------------------------- MODULE ConfigFile_proofs ---------------------------
(***************************************************************************)
(* Whatever commands any number of processes run on the configuration file *)
(* at the same time, and wherever they are killed or fail: the current     *)
(* context exists, and a context refers to what exists unless the user was *)
(* careless, or merged a file without it. The reason is that both hold of  *)
(* everything a process may still write, and a file is only ever replaced  *)
(* as a whole.                                                             *)
(***************************************************************************)
EXTENDS ConfigFile, FiniteSetTheorems, TLAPS

\* The file and what the processes have in memory.
Sound(d, except) == CurrentExists(d) /\ Dangling(d) \subseteq except

IInv ==
    /\ TypeOK
    /\ Sound(file, careless)
    /\ \A p \in Processes : Sound(memory[p], careless)

\* Without a race there is one process between loading and the end of writing,
\* and it will write what its command makes of all the commands before.
Between(p) == pc[p] \in {"open", "write"}
AloneInv ==
    ~raced =>
        /\ ~damaged
        /\ \A p, q \in Processes : Between(p) /\ Between(q) => p = q
        /\ \A p \in Processes : Between(p) => memory[p] = Changed(cmd[p], serial)
        /\ IF \E p \in Processes : pc[p] = "write" THEN file = Nothing ELSE file = serial

-----------------------------------------------------------------------------
\* An empty configuration: what load() makes of a file that does not exist.
LEMMA NothingIsSound ==
    Nothing \in Data /\ CurrentExists(Nothing) /\ Dangling(Nothing) = {}
<1>1. Nothing \in Data
  BY DEF Nothing, Data
<1>2. CurrentExists(Nothing)
  BY DEF Nothing, CurrentExists
<1>3. Dangling(Nothing) = {}
  BY DEF Nothing, Dangling
<1> QED
  BY <1>1, <1>2, <1>3

\* merge_into() returns a section with the same names.
LEMMA AddedType ==
    ASSUME NEW S, NEW T, NEW new \in [S -> T], NEW old \in [S -> T], NEW o
    PROVE  Added(new, old, o) \in [S -> T]
BY DEF Added

\* A reference update returns an entry.
LEMMA PatchedType ==
    ASSUME NEW e \in Entry \cup {None}, NEW r \in Entry
    PROVE  Patched(e, r) \in Entry
<1>1. CASE e = None
  BY <1>1 DEF Patched
<1>2. CASE e # None
  <2>1. e \in Entry
    BY <1>2
  <2> DEFINE f == [s \in {"connection", "user"} |-> IF r[s] = None THEN e[s] ELSE r[s]]
  <2>2. f = [connection |-> f["connection"], user |-> f["user"]]
    OBVIOUS
  <2>3. f["connection"] \in Connections \cup {None} /\ f["user"] \in Users \cup {None}
    BY <2>1 DEF Entry
  <2>4. f \in Entry
    BY <2>2, <2>3 DEF Entry
  <2> QED
    BY <1>2, <2>4 DEF Patched
<1> QED
  BY <1>1, <1>2

\* Every command returns a configuration, whatever it is given.
LEMMA ChangedType ==
    ASSUME NEW k \in Commands, NEW d \in Data
    PROVE  Changed(k, d) \in Data
<1>1. CASE k.op = "set-connection"
  BY <1>1 DEF Changed, Commands, Data, Values
<1>2. CASE k.op = "set-user"
  BY <1>2 DEF Changed, Commands, Data, Values
<1>3. CASE k.op = "set-context"
  <2>1. k.name \in Contexts /\ k.ref \in Entry
    BY <1>3 DEF Commands
  <2>2. Patched(d.contexts[k.name], k.ref) \in Entry
    BY <2>1, PatchedType DEF Data
  <2> QED
    BY <1>3, <2>1, <2>2 DEF Changed, Data
<1>4. CASE k.op = "delete-connection"
  BY <1>4 DEF Changed, Commands, Data
<1>5. CASE k.op = "delete-user"
  BY <1>5 DEF Changed, Commands, Data
<1>6. CASE k.op = "delete-context"
  BY <1>6 DEF Changed, Commands, Data
<1>7. CASE k.op = "use-context"
  BY <1>7 DEF Changed, Commands, Data
<1>8. CASE k.op = "merge"
  <2>1. k.source \in Data
    BY <1>8, DataAssumption DEF Commands
  <2>2. Merged(d, k.source, k.overwrite) \in Data
    BY <2>1, AddedType DEF Merged, Data
  <2> QED
    BY <1>8, <2>2 DEF Changed
<1> QED
  BY <1>1, <1>2, <1>3, <1>4, <1>5, <1>6, <1>7, <1>8 DEF Commands

\* The current context exists after a command that was not refused.
LEMMA ChangedCurrent ==
    ASSUME NEW k \in Commands, NEW d \in Data, CurrentExists(d), ~Refuses(k, d)
    PROVE  CurrentExists(Changed(k, d))
<1>1. CASE k.op \in {"set-connection", "set-user", "delete-connection", "delete-user"}
  <2>1. Changed(k, d).current = d.current /\ Changed(k, d).contexts = d.contexts
    <3>1. CASE k.op = "set-connection"
      BY <3>1 DEF Changed, Data
    <3>2. CASE k.op = "set-user"
      BY <3>2 DEF Changed, Data
    <3>3. CASE k.op = "delete-connection"
      BY <3>3 DEF Changed, Data
    <3>4. CASE k.op = "delete-user"
      BY <3>4 DEF Changed, Data
    <3> QED
      BY <1>1, <3>1, <3>2, <3>3, <3>4
  <2> QED
    BY <2>1 DEF CurrentExists
<1>2. CASE k.op = "set-context"
  <2>1. k.name \in Contexts /\ k.ref \in Entry
    BY <1>2 DEF Commands
  <2>2. Patched(d.contexts[k.name], k.ref) # None
    BY <2>1, PatchedType, NoneAssumption DEF Data
  <2>3. /\ Changed(k, d).current = d.current
        /\ Changed(k, d).contexts = [d.contexts EXCEPT ![k.name] = Patched(@, k.ref)]
    BY <1>2 DEF Changed, Data
  <2> QED
    BY <2>1, <2>2, <2>3 DEF CurrentExists, Data
<1>3. CASE k.op = "delete-context"
  <2>1. /\ Changed(k, d).current = IF d.current = k.name THEN None ELSE d.current
        /\ Changed(k, d).contexts = [d.contexts EXCEPT ![k.name] = None]
    BY <1>3 DEF Changed, Data
  <2> QED
    BY <2>1 DEF CurrentExists, Data
<1>4. CASE k.op = "use-context"
  <2>1. Changed(k, d).current = k.name /\ Changed(k, d).contexts = d.contexts
    BY <1>4 DEF Changed, Data
  <2>2. d.contexts[k.name] # None
    BY <1>4 DEF Refuses
  <2> QED
    BY <2>1, <2>2 DEF CurrentExists
<1>5. CASE k.op = "merge"
  <2>1. Changed(k, d).current = d.current
    BY <1>5 DEF Changed, Merged
  <2>2. Changed(k, d).contexts = Added(k.source.contexts, d.contexts, k.overwrite)
    BY <1>5 DEF Changed, Merged
  <2>3. k.source \in Data
    BY <1>5, DataAssumption DEF Commands
  <2>4. \A x \in Contexts : d.contexts[x] # None => Changed(k, d).contexts[x] # None
    BY <2>2, <2>3 DEF Added, Data
  <2> QED
    BY <2>1, <2>4 DEF CurrentExists, Data
<1> QED
  BY <1>1, <1>2, <1>3, <1>4, <1>5 DEF Commands

\* The contexts with a missing reference after a command that was not refused
\* had it before, unless they are those that the command may leave so.
LEMMA ChangedReferences ==
    ASSUME NEW k \in Commands, NEW d \in Data, ~Refuses(k, d)
    PROVE  Dangling(Changed(k, d)) \subseteq Dangling(d) \cup Endangered(k)
<1> DEFINE e == Changed(k, d)
<1>0. CASE k.op = "set-context" \/ (k.op \in {"delete-connection", "delete-user"} /\ k.force)
  BY <1>0 DEF Endangered, Dangling
<1>1. CASE k.op = "set-connection"
  <2>1. k.name \in Connections
    BY <1>1 DEF Commands
  <2>2. /\ e.connections = [d.connections EXCEPT ![k.name] = "set"]
        /\ e.users = d.users /\ e.contexts = d.contexts
    BY <1>1 DEF Changed, Data
  <2>3. \A n \in Connections : e.connections[n] = None => d.connections[n] = None
    BY <2>1, <2>2, NoneAssumption DEF Data, Values
  <2> QED
    BY <2>2, <2>3 DEF Dangling, Refers
<1>2. CASE k.op = "set-user"
  <2>1. k.name \in Users
    BY <1>2 DEF Commands
  <2>2. /\ e.users = [d.users EXCEPT ![k.name] = "set"]
        /\ e.connections = d.connections /\ e.contexts = d.contexts
    BY <1>2 DEF Changed, Data
  <2>3. \A n \in Users : e.users[n] = None => d.users[n] = None
    BY <2>1, <2>2, NoneAssumption DEF Data, Values
  <2> QED
    BY <2>2, <2>3 DEF Dangling, Refers
<1>3. CASE k.op = "delete-connection" /\ ~k.force
  <2>1. k.name \in Connections /\ k.force \in BOOLEAN
    BY <1>3 DEF Commands
  <2>2. \A x \in Contexts : ~Refers(d, x, "connection", k.name)
    BY <1>3, <2>1 DEF Refuses
  <2>3. /\ e.connections = [d.connections EXCEPT ![k.name] = None]
        /\ e.users = d.users /\ e.contexts = d.contexts
    BY <1>3 DEF Changed, Data
  <2>4. \A n \in Connections : n # k.name => e.connections[n] = d.connections[n]
    BY <2>1, <2>3 DEF Data
  <2> QED
    BY <2>2, <2>3, <2>4 DEF Dangling, Refers
<1>4. CASE k.op = "delete-user" /\ ~k.force
  <2>1. k.name \in Users /\ k.force \in BOOLEAN
    BY <1>4 DEF Commands
  <2>2. \A x \in Contexts : ~Refers(d, x, "user", k.name)
    BY <1>4, <2>1 DEF Refuses
  <2>3. /\ e.users = [d.users EXCEPT ![k.name] = None]
        /\ e.connections = d.connections /\ e.contexts = d.contexts
    BY <1>4 DEF Changed, Data
  <2>4. \A n \in Users : n # k.name => e.users[n] = d.users[n]
    BY <2>1, <2>3 DEF Data
  <2> QED
    BY <2>2, <2>3, <2>4 DEF Dangling, Refers
<1>5. CASE k.op = "delete-context"
  <2>1. k.name \in Contexts
    BY <1>5 DEF Commands
  <2>2. /\ e.contexts = [d.contexts EXCEPT ![k.name] = None]
        /\ e.connections = d.connections /\ e.users = d.users
    BY <1>5 DEF Changed, Data
  <2>3. \A x \in Contexts : e.contexts[x] # None => e.contexts[x] = d.contexts[x]
    BY <2>1, <2>2 DEF Data
  <2> QED
    BY <2>2, <2>3 DEF Dangling, Refers
<1>6. CASE k.op = "use-context"
  <2>1. e.contexts = d.contexts /\ e.connections = d.connections /\ e.users = d.users
    BY <1>6 DEF Changed, Data
  <2> QED
    BY <2>1 DEF Dangling, Refers
<1>7. CASE k.op = "merge"
  <2>1. /\ e.contexts = Added(k.source.contexts, d.contexts, k.overwrite)
        /\ e.connections = Added(k.source.connections, d.connections, k.overwrite)
        /\ e.users = Added(k.source.users, d.users, k.overwrite)
    BY <1>7 DEF Changed, Merged
  <2>0. k.source \in Data
    BY <1>7, DataAssumption DEF Commands
  <2>2. \A x \in Contexts : e.contexts[x] = d.contexts[x] \/ e.contexts[x] = k.source.contexts[x]
    BY <2>0, <2>1 DEF Added, Data
  <2>3. \A n \in Connections : e.connections[n] = None =>
             d.connections[n] = None /\ k.source.connections[n] = None
    BY <2>0, <2>1 DEF Added, Data
  <2>4. \A n \in Users : e.users[n] = None => d.users[n] = None /\ k.source.users[n] = None
    BY <2>0, <2>1 DEF Added, Data
  <2>5. ASSUME NEW x \in Dangling(e)
        PROVE  x \in Dangling(d) \/ x \in Dangling(k.source)
    <3>1. x \in Contexts /\ e.contexts[x] # None
      BY <2>5 DEF Dangling
    <3>2. CASE e.contexts[x] = d.contexts[x]
      BY <2>3, <2>4, <2>5, <3>1, <3>2 DEF Dangling, Refers
    <3>3. CASE e.contexts[x] = k.source.contexts[x]
      BY <2>3, <2>4, <2>5, <3>1, <3>3 DEF Dangling, Refers
    <3> QED
      BY <2>2, <3>1, <3>2, <3>3
  <2> QED
    BY <1>7, <2>5 DEF Endangered
<1> QED
  BY <1>0, <1>1, <1>2, <1>3, <1>4, <1>5, <1>6, <1>7 DEF Commands

-----------------------------------------------------------------------------
\* The invariant holds of every file that the assumptions allow.
LEMMA InitIInv == Init => IInv
<1> SUFFICES ASSUME Init PROVE IInv
  OBVIOUS
<1>1. file \in Data /\ CurrentExists(file)
  BY DataAssumption, CurrentAssumption DEF Init
<1>2. Sound(file, careless)
  BY <1>1 DEF Init, Sound
<1>3. \A p \in Processes : Sound(memory[p], careless)
  BY NothingIsSound DEF Init, Sound
<1>4. TypeOK
  <2>1. careless \subseteq Contexts
    BY DEF Init, Dangling
  <2>2. started \in 0 .. MaxCommands
    BY BoundAssumption DEF Init
  <2>3. \A p \in Processes : pc[p] = "idle"
    BY DEF Init
  <2> QED
    BY <1>1, <2>1, <2>2, <2>3, NothingIsSound DEF Init, TypeOK
<1> QED
  BY <1>2, <1>3, <1>4 DEF IInv

\* A process that stops leaves nothing in its memory.
LEMMA StopIInv ==
    ASSUME IInv, NEW p \in Processes, Stop(p), careless \subseteq careless'
    PROVE  /\ pc' \in [Processes -> {"idle", "load", "open", "write"}]
           /\ cmd' \in [Processes -> Commands \cup {None}]
           /\ \A q \in Processes : pc'[q] # "idle" => cmd'[q] # None
           /\ memory' \in [Processes -> Data]
           /\ \A q \in Processes : Sound(memory'[q], careless')
<1>1. /\ pc \in [Processes -> {"idle", "load", "open", "write"}]
      /\ cmd \in [Processes -> Commands \cup {None}]
      /\ \A q \in Processes : pc[q] # "idle" => cmd[q] # None
      /\ memory \in [Processes -> Data]
      /\ \A q \in Processes : Sound(memory[q], careless)
  BY DEF IInv, TypeOK
<1>2. /\ pc' = [pc EXCEPT ![p] = "idle"]
      /\ cmd' = [cmd EXCEPT ![p] = None]
      /\ memory' = [memory EXCEPT ![p] = Nothing]
  BY DEF Stop, Goto
<1>3. Sound(Nothing, careless')
  BY NothingIsSound DEF Sound
<1>4. \A q \in Processes : Sound(memory[q], careless')
  BY <1>1 DEF Sound
<1> QED
  BY <1>1, <1>2, <1>3, <1>4, NothingIsSound

\* Every step of every process keeps the invariant.
LEMMA NextIInv == IInv /\ [Next]_vars => IInv'
<1> SUFFICES ASSUME IInv, [Next]_vars PROVE IInv'
  OBVIOUS
<1> USE DEF IInv
<1>0. /\ file \in Data /\ damaged \in BOOLEAN /\ serial \in Data /\ raced \in BOOLEAN
      /\ pc \in [Processes -> {"idle", "load", "open", "write"}]
      /\ cmd \in [Processes -> Commands \cup {None}]
      /\ \A p \in Processes : pc[p] # "idle" => cmd[p] # None
      /\ memory \in [Processes -> Data]
      /\ started \in 0 .. MaxCommands
      /\ careless \subseteq Contexts
  BY DEF TypeOK
<1>1. ASSUME NEW p \in Processes, Start(p) PROVE IInv'
  <2>1. PICK k \in Commands : cmd' = [cmd EXCEPT ![p] = k]
    BY <1>1 DEF Start
  <2>2. /\ pc' = [pc EXCEPT ![p] = "load"] /\ started' = started + 1 /\ started < MaxCommands
        /\ UNCHANGED <<file, damaged, memory, serial, raced, careless>>
    BY <1>1 DEF Start, Goto
  <2>3. started' \in 0 .. MaxCommands
    BY <1>0, <2>2, BoundAssumption
  <2>4. /\ cmd' \in [Processes -> Commands \cup {None}]
        /\ \A q \in Processes : pc'[q] # "idle" => cmd'[q] # None
    BY <1>0, <2>1, <2>2, NoneAssumption
  <2>5. TypeOK'
    BY <1>0, <2>2, <2>3, <2>4 DEF TypeOK
  <2> QED
    BY <2>2, <2>5
<1>2. ASSUME NEW p \in Processes, Load(p) PROVE IInv'
  <2>0. UNCHANGED <<file, damaged, started, serial>>
    BY <1>2 DEF Load
  <2>1. CASE Stop(p) /\ UNCHANGED <<raced, careless>>
    <3>1. TypeOK' /\ \A q \in Processes : Sound(memory'[q], careless')
      BY <1>0, <2>0, <2>1, StopIInv DEF TypeOK
    <3> QED
      BY <2>0, <2>1, <3>1
  <2>2. CASE /\ ~Refuses(cmd[p], file)
             /\ memory' = [memory EXCEPT ![p] = Changed(cmd[p], file)]
             /\ Goto(p, "open")
             /\ careless' = careless \cup (Endangered(cmd[p]) \cap Dangling(memory'[p]))
             /\ raced' = (raced \/ \E q \in Processes : pc[q] \in {"open", "write"})
             /\ UNCHANGED cmd
    <3>1. cmd[p] \in Commands
      BY <1>0, <1>2 DEF Load
    <3>2. memory'[p] = Changed(cmd[p], file) /\ memory'[p] \in Data
      BY <1>0, <2>2, <3>1, ChangedType
    <3>3. careless \subseteq careless' /\ careless' \subseteq Contexts
      BY <1>0, <2>2 DEF Dangling
    <3>4. CurrentExists(memory'[p])
      BY <1>0, <2>2, <3>1, <3>2, ChangedCurrent DEF Sound
    <3>5. Dangling(memory'[p]) \subseteq careless'
      <4>1. Dangling(memory'[p]) \subseteq Dangling(file) \cup Endangered(cmd[p])
        BY <1>0, <2>2, <3>1, <3>2, ChangedReferences
      <4> QED
        BY <2>2, <4>1 DEF Sound
    <3>6. \A q \in Processes : Sound(memory'[q], careless')
      <4>1. ASSUME NEW q \in Processes, q # p PROVE Sound(memory'[q], careless')
        <5>1. memory'[q] = memory[q]
          BY <1>0, <2>2, <4>1
        <5> QED
          BY <3>3, <5>1 DEF Sound
      <4> QED
        BY <3>4, <3>5, <4>1 DEF Sound
    <3>7. Sound(file', careless')
      BY <2>0, <3>3 DEF Sound
    <3>8. memory' \in [Processes -> Data]
      BY <1>0, <2>2, <3>2
    <3>9. /\ pc' \in [Processes -> {"idle", "load", "open", "write"}]
          /\ cmd' \in [Processes -> Commands \cup {None}]
          /\ \A q \in Processes : pc'[q] # "idle" => cmd'[q] # None
      BY <1>0, <2>2, <3>1, NoneAssumption DEF Goto
    <3>10. raced' \in BOOLEAN
      BY <2>2
    <3>11. TypeOK'
      BY <1>0, <2>0, <3>3, <3>8, <3>9, <3>10 DEF TypeOK
    <3> QED
      BY <3>6, <3>7, <3>11
  <2> QED
    BY <1>2, <2>1, <2>2 DEF Load
<1>3. ASSUME NEW p \in Processes, Open(p) PROVE IInv'
  <2>0. UNCHANGED <<started, serial, raced, careless>>
    BY <1>3 DEF Open
  <2>1. CASE file' = Nothing /\ damaged' = FALSE /\ Goto(p, "write") /\ UNCHANGED <<cmd, memory>>
    <3>1. /\ pc' \in [Processes -> {"idle", "load", "open", "write"}]
          /\ \A q \in Processes : pc'[q] # "idle" => cmd'[q] # None
      BY <1>0, <1>3, <2>1 DEF Goto, Open
    <3>2. TypeOK'
      BY <1>0, <2>0, <2>1, <3>1, NothingIsSound DEF TypeOK
    <3> QED
      BY <2>0, <2>1, <3>2, NothingIsSound DEF Sound
  <2>2. CASE Stop(p) /\ UNCHANGED <<file, damaged>>
    <3>1. TypeOK' /\ \A q \in Processes : Sound(memory'[q], careless')
      BY <1>0, <2>0, <2>2, StopIInv DEF TypeOK
    <3> QED
      BY <2>0, <2>2, <3>1
  <2> QED
    BY <1>3, <2>1, <2>2 DEF Open
<1>4. ASSUME NEW p \in Processes, Write(p) PROVE IInv'
  <2>1. Stop(p) /\ UNCHANGED <<started, careless>>
    BY <1>4 DEF Write
  <2>2. file' \in {memory[p], Nothing, file} /\ damaged' \in {TRUE, FALSE, damaged}
    BY <1>4 DEF Write
  <2>3. raced' \in BOOLEAN
    BY <1>0, <1>4 DEF Write
  <2>4. serial' \in Data
    <3>1. cmd[p] \in Commands
      BY <1>0, <1>4 DEF Write
    <3>2. serial' \in {serial, Changed(cmd[p], serial)}
      BY <1>4 DEF Write
    <3> QED
      BY <1>0, <3>1, <3>2, ChangedType
  <2>5. file' \in Data /\ Sound(file', careless')
    BY <1>0, <2>1, <2>2, NothingIsSound DEF Sound
  <2>6. damaged' \in BOOLEAN
    BY <1>0, <2>2
  <2>7. TypeOK' /\ \A q \in Processes : Sound(memory'[q], careless')
    BY <1>0, <2>1, <2>3, <2>4, <2>5, <2>6, StopIInv DEF TypeOK
  <2> QED
    BY <2>5, <2>7
<1>5. ASSUME NEW p \in Processes, Kill(p) PROVE IInv'
  <2>1. Stop(p) /\ UNCHANGED <<file, damaged, started, serial, careless>>
    BY <1>5 DEF Kill
  <2>2. raced' \in BOOLEAN
    BY <1>0, <1>5 DEF Kill
  <2>3. TypeOK' /\ \A q \in Processes : Sound(memory'[q], careless')
    BY <1>0, <2>1, <2>2, StopIInv DEF TypeOK
  <2> QED
    BY <2>1, <2>3
<1>6. CASE UNCHANGED vars
  BY <1>6 DEF vars, TypeOK
<1> QED
  BY <1>1, <1>2, <1>3, <1>4, <1>5, <1>6 DEF Next

LEMMA Invariance == Spec => []IInv
BY InitIInv, NextIInv, PTL DEF Spec

-----------------------------------------------------------------------------
\* An empty file is covered by whatever is written into it.
LEMMA NothingIsCovered ==
    ASSUME NEW d \in Data
    PROVE  ~(Size(d) < Size(Nothing))
<1>1. /\ {n \in Connections : Nothing.connections[n] # None} = {}
      /\ {n \in Users : Nothing.users[n] # None} = {}
      /\ {n \in Contexts : Nothing.contexts[n] # None} = {}
  BY DEF Nothing
<1>2. Size(Nothing) = 0
  BY <1>1, FS_EmptySet DEF Size
<1>3. /\ IsFiniteSet({n \in Connections : d.connections[n] # None})
      /\ IsFiniteSet({n \in Users : d.users[n] # None})
      /\ IsFiniteSet({n \in Contexts : d.contexts[n] # None})
  BY FiniteAssumption, FS_Subset
<1>4. Size(d) \in Nat
  BY <1>3, FS_CardinalityType DEF Size
<1> QED
  BY <1>2, <1>4

\* A process that stops before it has opened the file changes nothing for others.
LEMMA StopAlone ==
    ASSUME IInv, AloneInv, NEW p \in Processes, Stop(p), pc[p] # "write",
           UNCHANGED <<file, damaged, serial, raced>>
    PROVE  AloneInv'
<1>1. /\ pc'[p] = "idle"
      /\ \A q \in Processes : q # p =>
            pc'[q] = pc[q] /\ cmd'[q] = cmd[q] /\ memory'[q] = memory[q]
  BY DEF Stop, Goto, IInv, TypeOK
<1>2. \A q \in Processes : Between(q)' =>
         q # p /\ Between(q) /\ cmd'[q] = cmd[q] /\ memory'[q] = memory[q]
  BY <1>1 DEF Between
<1>3. (\E q \in Processes : pc'[q] = "write") <=> (\E q \in Processes : pc[q] = "write")
  BY <1>1
<1> QED
  BY <1>2, <1>3 DEF AloneInv

LEMMA NextAlone == IInv /\ AloneInv /\ [Next]_vars => AloneInv'
<1> SUFFICES ASSUME IInv, AloneInv, [Next]_vars, ~raced' PROVE AloneInv'
  BY DEF AloneInv
<1>1. /\ pc \in [Processes -> {"idle", "load", "open", "write"}]
      /\ cmd \in [Processes -> Commands \cup {None}]
      /\ memory \in [Processes -> Data]
      /\ serial \in Data
  BY DEF IInv, TypeOK
<1>2. ASSUME NEW p \in Processes, Start(p) PROVE AloneInv'
  <2>1. /\ UNCHANGED <<file, damaged, memory, serial, raced>> /\ pc[p] = "idle" /\ pc'[p] = "load"
        /\ \A q \in Processes : q # p => pc'[q] = pc[q] /\ cmd'[q] = cmd[q]
    BY <1>1, <1>2 DEF Start, Goto
  <2>2. \A q \in Processes : Between(q)' => q # p /\ Between(q) /\ cmd'[q] = cmd[q]
    BY <2>1 DEF Between
  <2>3. (\E q \in Processes : pc'[q] = "write") <=> (\E q \in Processes : pc[q] = "write")
    BY <2>1
  <2> QED
    BY <2>1, <2>2, <2>3 DEF AloneInv
<1>3. ASSUME NEW p \in Processes, Load(p) PROVE AloneInv'
  <2>1. UNCHANGED <<file, damaged, serial>> /\ pc[p] = "load"
    BY <1>3 DEF Load
  <2>2. CASE Stop(p) /\ UNCHANGED raced
    BY <2>1, <2>2, StopAlone
  <2>3. CASE /\ memory' = [memory EXCEPT ![p] = Changed(cmd[p], file)]
             /\ Goto(p, "open")
             /\ raced' = (raced \/ \E q \in Processes : pc[q] \in {"open", "write"})
             /\ UNCHANGED cmd
    <3>1. ~raced /\ \A q \in Processes : pc[q] \notin {"open", "write"}
      BY <2>3
    <3>2. ~damaged /\ file = serial
      BY <3>1 DEF AloneInv
    <3>3. memory'[p] = Changed(cmd[p], file) /\ pc'[p] = "open"
          /\ \A q \in Processes : q # p => pc'[q] = pc[q]
      BY <1>1, <2>3 DEF Goto
    <3>4. \A q \in Processes : (Between(q)' => q = p) /\ pc'[q] # "write"
      BY <3>1, <3>3 DEF Between
    <3> QED
      BY <2>1, <2>3, <3>2, <3>3, <3>4 DEF AloneInv
  <2> QED
    BY <1>3, <2>2, <2>3 DEF Load
<1>4. ASSUME NEW p \in Processes, Open(p) PROVE AloneInv'
  <2>1. UNCHANGED <<serial, raced>> /\ pc[p] = "open" /\ Between(p)
    BY <1>4 DEF Open, Between
  <2>2. CASE file' = Nothing /\ damaged' = FALSE /\ Goto(p, "write") /\ UNCHANGED <<cmd, memory>>
    <3>1. pc'[p] = "write" /\ \A q \in Processes : q # p => pc'[q] = pc[q]
      BY <1>1, <2>2 DEF Goto
    <3>2. \A q \in Processes : Between(q)' => Between(q)
      BY <2>1, <3>1 DEF Between
    <3> QED
      BY <2>1, <2>2, <3>1, <3>2 DEF AloneInv
  <2>3. CASE Stop(p) /\ UNCHANGED <<file, damaged>>
    BY <2>1, <2>3, StopAlone
  <2> QED
    BY <1>4, <2>2, <2>3 DEF Open
<1>5. ASSUME NEW p \in Processes, Write(p) PROVE AloneInv'
  <2>1. pc[p] = "write" /\ Between(p) /\ Stop(p)
    BY <1>5 DEF Write, Between
  <2>2. /\ \/ /\ damaged \/ Size(memory[p]) >= Size(file)
              /\ file' = memory[p] /\ damaged' = FALSE
           \/ /\ damaged \/ Size(memory[p]) < Size(file)
              /\ file' = Nothing /\ damaged' = TRUE
        /\ serial' = IF raced THEN serial ELSE Changed(cmd[p], serial)
        /\ UNCHANGED raced
    BY <1>5 DEF Write
  <2>3. ~raced /\ ~damaged /\ file = Nothing /\ memory[p] = Changed(cmd[p], serial)
    BY <2>1, <2>2 DEF AloneInv
  <2>4. ~(Size(memory[p]) < Size(file))
    BY <1>1, <2>3, NothingIsCovered
  <2>5. file' = serial' /\ damaged' = FALSE
    BY <2>2, <2>3, <2>4
  <2>6. \A q \in Processes : ~Between(q)' /\ pc'[q] # "write"
    <3>1. pc'[p] = "idle" /\ \A q \in Processes : q # p => pc'[q] = pc[q]
      BY <1>1, <2>1 DEF Stop, Goto
    <3>2. \A q \in Processes : q # p => ~Between(q)
      BY <2>1, <2>3 DEF AloneInv
    <3> QED
      BY <3>1, <3>2 DEF Between
  <2> QED
    BY <2>5, <2>6 DEF AloneInv
<1>6. ASSUME NEW p \in Processes, Kill(p) PROVE AloneInv'
  <2>1. Stop(p) /\ UNCHANGED <<file, damaged, serial>> /\ pc[p] # "write" /\ ~raced
    BY <1>6 DEF Kill
  <2>2. UNCHANGED raced
    BY <1>6, <2>1 DEF Kill, IInv, TypeOK
  <2> QED
    BY <2>1, <2>2, StopAlone
<1>7. CASE UNCHANGED vars
  BY <1>7 DEF vars, AloneInv, Between
<1> QED
  BY <1>2, <1>3, <1>4, <1>5, <1>6, <1>7 DEF Next

-----------------------------------------------------------------------------
\* The file always has the shape of a configuration, and so has what a process
\* is about to write into it.
THEOREM TypeCorrect == Spec => []TypeOK
<1>1. IInv => TypeOK
  BY DEF IInv
<1> QED
  BY <1>1, Invariance, PTL

\* No interleaving, kill or failed write leaves a context with a reference to
\* nothing, but for the contexts the user was careless with, those that a merge
\* took from a file without the definition among them.
THEOREM ReferencesAlwaysHold == Spec => []ReferencesHold
<1>1. IInv => ReferencesHold
  BY DEF IInv, Sound, ReferencesHold
<1> QED
  BY <1>1, Invariance, PTL

\* No interleaving, kill or failed write leaves a current context that is not
\* one of the contexts.
THEOREM CurrentContextAlwaysExists == Spec => []CurrentContextExists
<1>1. IInv => CurrentContextExists
  BY DEF IInv, Sound, CurrentContextExists
<1> QED
  BY <1>1, Invariance, PTL

\* ConfigFile.load() and save() of sap/config.py lose no change that was reported
\* as done, and leave a file that can be read, unless a command reads the file
\* while another one is about to write it, or stops while the file is truncated.
THEOREM ChangesAreKept == Spec => []NoLostUpdate
<1>1. Init => AloneInv
  BY DEF Init, AloneInv, Between
<1>2. AloneInv => NoLostUpdate
  BY DEF AloneInv, NoLostUpdate
<1> QED
  BY <1>1, <1>2, InitIInv, NextIInv, NextAlone, PTL DEF Spec
=============================================================================
