-------------------------- MODULE TemporaryConfig_proofs ------------------------
(***************************************************************************)
(* Proofs about TemporaryConfig, for every set of processes, of commands   *)
(* and of initial settings, in three parts that build on each other: an    *)
(* option never gets a value other than the original and the temporary     *)
(* one; the server imports nothing that a command did not want; a command  *)
(* that ends well has restored what it changed.                            *)
(***************************************************************************)
EXTENDS TemporaryConfig, SequenceTheorems, TLAPS

V == Values \cup Branches
Places == {"repo", "enter", "key", "set", "body", "leave", "head", "activities", "poll", "done"}
Maps == [Things -> V]
Opens == Seq([thing: Things, old: V])

ServerTypes ==
    /\ settings \in Settings
    /\ pending \subseteq Clients \X (Things \cup {"pull"}) \X V
    /\ disturbed \in [Clients -> BOOLEAN]
    /\ imported \subseteq Clients
    /\ unanswered \in [Clients -> SUBSET (Things \cup {"pull"})]

ClientTypes ==
    /\ pc \in [Clients -> Places]
    /\ data \in [Clients -> Maps \cup {Null}]
    /\ config \in [Clients -> Maps \cup {Null}]
    /\ old \in [Clients -> V \cup {"none"}]
    /\ open \in [Clients -> Opens]
    /\ note \in [Clients -> [Things -> V \cup {"none"}]]
    /\ failed \in [Clients -> {"no", "http", "other", "crash"}]
    /\ shown \in [Clients -> [Things -> V \cup {"none"}]]
    /\ result \in [Clients -> {"none", "ok", "recovered", "error", "traceback", "killed"}]
    /\ start \in [Clients -> Settings \cup {Null}]

Constant == original \in Settings /\ cmd \in [Clients -> AllCommands]

\* The values that something may have, or be given, in the long run.
Sound(t, v) == IF t = "branch" THEN v \in Branches ELSE v \in {original[t], "X"}

\* The server has sound values, and keeps them when a delayed request arrives.
ServerInv ==
    /\ \A t \in Things : Sound(t, settings[t])
    /\ \A r \in pending : r[2] \in Things => Sound(r[2], r[3])

\* What process c has read is sound; a cached option may also be taken for absent,
\* and is then asked for. So is everything that it will put back.
CInv(c) ==
    /\ data[c] # Null => \A t \in Things : Sound(t, data[c][t])
    /\ config[c] # Null => \A k \in Keys : config[c][k] = "absent" \/ Sound(k, config[c][k])
    /\ pc[c] = "repo" => open[c] = <<>>
    /\ pc[c] \in {"enter", "key", "set"} => Len(open[c]) < Len(cmd[c].contexts)
    /\ pc[c] = "key" => Entering(c) \in Keys /\ config[c] # Null
    /\ pc[c] = "set" => Sound(Entering(c), old[c])
    /\ \A i \in 1 .. Len(open[c]) :
          open[c][i].thing = cmd[c].contexts[i] /\ Sound(open[c][i].thing, open[c][i].old)

IInv ==
    /\ ServerTypes /\ ClientTypes /\ Constant /\ ServerInv
    /\ \A c \in Clients : CInv(c)

-----------------------------------------------------------------------------
USE CommandsAssumption, SettingsAssumption
USE DEF Keys, Branches, Things, Values, V

LEMMA SettingsAreMaps == \A s \in Settings : s \in Maps /\ s["branch"] \in Branches
BY DEF Settings, Maps

\* The contexts of a command are things.
LEMMA ContextTypes ==
    ASSUME NEW k \in AllCommands
    PROVE  /\ Len(k.contexts) \in Nat
           /\ \A i \in 1 .. Len(k.contexts) : k.contexts[i] \in Things
<1>1. k.contexts \in {<<"VCS_NO_IMPORT", "branch">>, <<>>, <<"VCS_NO_IMPORT">>, <<"VCS_BUFFER_ONLY">>,
                      <<"VCS_NO_IMPORT", "VCS_BUFFER_ONLY">>}
  BY DEF AllCommands
<1>2. CASE k.contexts = <<"VCS_NO_IMPORT", "branch">>
  BY <1>2
<1>3. CASE k.contexts = <<>>
  BY <1>3
<1>4. CASE k.contexts = <<"VCS_NO_IMPORT">>
  BY <1>4
<1>5. CASE k.contexts = <<"VCS_BUFFER_ONLY">>
  BY <1>5
<1>6. CASE k.contexts = <<"VCS_NO_IMPORT", "VCS_BUFFER_ONLY">>
  BY <1>6
<1> QED
  BY <1>1, <1>2, <1>3, <1>4, <1>5, <1>6

LEMMA EnteringTypes ==
    ASSUME NEW c \in Clients, ClientTypes, Constant, CInv(c), pc[c] \in {"enter", "key", "set"}
    PROVE  Entering(c) \in Things /\ Len(open[c]) + 1 \in 1 .. Len(cmd[c].contexts)
<1>1. cmd[c] \in AllCommands /\ Len(open[c]) \in Nat
  BY DEF Constant, ClientTypes, Opens
<1> QED
  BY <1>1, ContextTypes DEF CInv, Entering

LEMMA InitInv == Init => IInv
<1> SUFFICES ASSUME Init PROVE IInv
  OBVIOUS
<1>1. ServerTypes
  BY DEF Init, ServerTypes
<1>2. Constant
  BY DEF Init, Constant
<1>3. ClientTypes
  <2>1. <<>> \in Opens
    BY DEF Opens
  <2> QED
    BY <2>1 DEF Init, ClientTypes, Places, NoNotes
<1>4. ServerInv
  BY DEF Init, ServerInv, Sound, Settings
<1>5. ASSUME NEW c \in Clients PROVE CInv(c)
  <2>1. cmd[c] \in AllCommands /\ open[c] = <<>> /\ data[c] = Null /\ config[c] = Null
        /\ pc[c] = IF cmd[c].name = "checkout" THEN "repo" ELSE "enter"
    BY <1>2, <1>5 DEF Init, Constant
  <2>2. pc[c] \in {"repo", "enter"} /\ (pc[c] = "enter" => cmd[c].name # "checkout")
    BY <2>1
  <2>3. cmd[c].name # "checkout" => cmd[c].contexts = <<"VCS_NO_IMPORT", "branch">>
    BY <2>1 DEF AllCommands
  <2>4. Len(open[c]) = 0 /\ (cmd[c].name # "checkout" => Len(cmd[c].contexts) = 2)
    BY <2>1, <2>3
  <2>5. pc[c] # "key" /\ pc[c] # "set"
    BY <2>2
  <2>6. 1 .. Len(open[c]) = {}
    BY <2>4
  <2>7. pc[c] \in {"enter", "key", "set"} => Len(open[c]) < Len(cmd[c].contexts)
    <3>1. CASE cmd[c].name = "checkout"
      BY <2>1, <3>1
    <3>2. CASE cmd[c].name # "checkout"
      <4>1. Len(open[c]) = 0 /\ Len(cmd[c].contexts) = 2
        BY <2>4, <3>2
      <4> QED
        BY <4>1
    <3> QED
      BY <3>1, <3>2
  <2>8. data[c] = Null /\ config[c] = Null /\ open[c] = <<>>
    BY <2>1
  <2> QED
    BY <2>5, <2>6, <2>7, <2>8, Zenon DEF CInv
<1> QED
  BY <1>1, <1>2, <1>3, <1>4, <1>5 DEF IInv

-----------------------------------------------------------------------------
\* What carrying out a request does to the server.
LEMMA ServeEffect ==
    ASSUME IInv, NEW c \in Clients, NEW t \in Things \cup {"pull"}, NEW v \in V,
           t \in Things => Sound(t, v), Serve(c, t, v)
    PROVE  /\ settings' \in Settings /\ \A u \in Things : Sound(u, settings'[u])
           /\ disturbed' \in [Clients -> BOOLEAN]
           /\ imported' \subseteq Clients
<1>1. settings \in Settings /\ original \in Settings
  BY DEF IInv, ServerTypes, Constant
<1>2. \A u \in Things : Sound(u, settings'[u])
  BY <1>1 DEF Serve, IInv, ServerInv, Sound, Settings
<1>3. settings' \in Settings
  BY <1>1, <1>2 DEF Serve, Sound, Settings
<1>4. disturbed' \in [Clients -> BOOLEAN] /\ imported' \subseteq Clients
  BY DEF Serve, IInv, ServerTypes
<1> QED
  BY <1>2, <1>3, <1>4

\* One request, whatever becomes of it.
LEMMA RequestEffect ==
    ASSUME IInv, NEW c \in Clients, NEW t \in Things \cup {"pull"}, NEW v \in V,
           t \in Things => Sound(t, v), UNCHANGED original,
           Answered(c, t, v) \/ Refused \/ Unanswered(c, t, v)
    PROVE  ServerTypes' /\ ServerInv'
<1>1. CASE Answered(c, t, v)
  BY <1>1, ServeEffect DEF Answered, IInv, ServerTypes, ServerInv, Sound
<1>2. CASE Refused
  BY <1>2 DEF Refused, serverVars, IInv, ServerTypes, ServerInv, Sound
<1>3. CASE Unanswered(c, t, v)
  <2>1. unanswered' \in [Clients -> SUBSET (Things \cup {"pull"})]
    BY <1>3 DEF Unanswered, IInv, ServerTypes
  <2>2. CASE Serve(c, t, v) /\ UNCHANGED pending
    BY <2>1, <2>2, ServeEffect DEF IInv, ServerTypes, ServerInv, Sound
  <2>3. CASE UNCHANGED serverVars
    BY <2>1, <2>3 DEF serverVars, IInv, ServerTypes, ServerInv, Sound
  <2>4. CASE pending' = pending \cup {<<c, t, v>>} /\ UNCHANGED <<settings, disturbed, imported>>
    BY <2>1, <2>4 DEF IInv, ServerTypes, ServerInv, Sound
  <2> QED
    BY <1>3, <2>2, <2>3, <2>4 DEF Unanswered
<1> QED
  BY <1>1, <1>2, <1>3

\* A step of c touches nothing that another process knows.
Foreign(c) ==
    /\ UNCHANGED <<original, cmd>>
    /\ \A d \in Clients \ {c} :
          /\ pc'[d] = pc[d] /\ data'[d] = data[d] /\ config'[d] = config[d]
          /\ old'[d] = old[d] /\ open'[d] = open[d]

LEMMA StepOf ==
    ASSUME IInv, NEW c \in Clients, Foreign(c), ServerTypes', ServerInv', ClientTypes', CInv(c)'
    PROVE  IInv'
<1>1. Constant'
  BY DEF IInv, Foreign, Constant
<1>2. ASSUME NEW d \in Clients \ {c} PROVE CInv(d)'
  <2>1. CInv(d) /\ UNCHANGED <<original, cmd>>
    BY DEF IInv, Foreign
  <2>2. /\ pc'[d] = pc[d] /\ data'[d] = data[d] /\ config'[d] = config[d]
        /\ old'[d] = old[d] /\ open'[d] = open[d]
    BY DEF Foreign
  <2>3. Entering(d)' = Entering(d)
    BY <2>1, <2>2 DEF Entering
  <2> QED
    BY <2>1, <2>2, <2>3 DEF CInv, Sound
<1> QED
  BY <1>1, <1>2 DEF IInv

\* The end of a process, and the exception of a step that needs the repository.
LEMMA EndEffect ==
    ASSUME IInv, NEW c \in Clients, NEW r \in {"ok", "recovered", "error", "traceback", "killed"}, End(c, r),
           UNCHANGED <<original, cmd, note, start>>,
           shown' \in [Clients -> [Things -> V \cup {"none"}]]
    PROVE  Foreign(c) /\ ClientTypes' /\ CInv(c)'
<1>1. <<>> \in Opens
  BY DEF Opens
<1>2. ClientTypes'
  <2>1. /\ pc' \in [Clients -> Places]
        /\ result' \in [Clients -> {"none", "ok", "recovered", "error", "traceback", "killed"}]
    BY DEF End, Goto, IInv, ClientTypes, Places
  <2>2. data' \in [Clients -> Maps \cup {Null}] /\ config' \in [Clients -> Maps \cup {Null}]
    BY DEF End, IInv, ClientTypes
  <2>3. /\ old' \in [Clients -> V \cup {"none"}] /\ failed' \in [Clients -> {"no", "http", "other", "crash"}]
    BY DEF End, IInv, ClientTypes
  <2>4. open' \in [Clients -> Opens]
    BY <1>1 DEF End, IInv, ClientTypes
  <2> QED
    BY <2>1, <2>2, <2>3, <2>4 DEF IInv, ClientTypes
<1>3. Foreign(c)
  BY DEF End, Goto, Foreign, IInv, ClientTypes
<1>4. pc'[c] = "done" /\ data'[c] = Null /\ config'[c] = Null /\ open'[c] = <<>>
  BY DEF End, Goto, IInv, ClientTypes
<1> QED
  BY <1>2, <1>3, <1>4 DEF CInv

LEMMA SameServer ==
    ASSUME IInv, UNCHANGED <<original, unanswered, serverVars>>
    PROVE  ServerTypes' /\ ServerInv'
BY DEF IInv, ServerTypes, ServerInv, serverVars, Sound

-----------------------------------------------------------------------------
\* The stack of contexts grows by what is entered, and shrinks by what is left.
LEMMA EnteredEffect ==
    ASSUME IInv, NEW c \in Clients, pc[c] \in {"enter", "set"}, NEW v \in V, Sound(Entering(c), v),
           Entered(c, v), Goto(c, NextContext(c, Len(open'[c])))
    PROVE  /\ open' \in [Clients -> Opens] /\ pc' \in [Clients -> Places]
           /\ pc'[c] \in {"body", "enter"}
           /\ pc'[c] = "enter" => Len(open'[c]) < Len(cmd[c].contexts)
           /\ \A i \in 1 .. Len(open'[c]) :
                 open'[c][i].thing = cmd[c].contexts[i] /\ Sound(open'[c][i].thing, open'[c][i].old)
           /\ \A d \in Clients \ {c} : open'[d] = open[d] /\ pc'[d] = pc[d]
<1> DEFINE item == [thing |-> Entering(c), old |-> v]
<1>1. Entering(c) \in Things /\ Len(open[c]) + 1 \in 1 .. Len(cmd[c].contexts)
  BY EnteringTypes DEF IInv
<1>2. open[c] \in Opens /\ Append(open[c], item) \in Opens
  <2>1. item \in [thing: Things, old: V]
    BY <1>1
  <2>2. open[c] \in Opens
    BY DEF IInv, ClientTypes
  <2> HIDE DEF item
  <2> QED
    BY <2>1, <2>2 DEF Opens
<1>3. /\ open' = [open EXCEPT ![c] = Append(open[c], item)]
      /\ open'[c] = Append(open[c], item) /\ \A d \in Clients \ {c} : open'[d] = open[d]
  BY DEF Entered, IInv, ClientTypes
<1>4. open' \in [Clients -> Opens]
  BY <1>2, <1>3 DEF IInv, ClientTypes
<1>5. /\ Len(open'[c]) = Len(open[c]) + 1
      /\ open'[c][Len(open[c]) + 1] = item
      /\ \A i \in 1 .. Len(open[c]) : open'[c][i] = open[c][i]
  <2> HIDE DEF item
  <2> QED
    BY <1>2, <1>3 DEF Opens
<1>6. \A i \in 1 .. Len(open'[c]) :
         open'[c][i].thing = cmd[c].contexts[i] /\ Sound(open'[c][i].thing, open'[c][i].old)
  <2>1. item.thing = cmd[c].contexts[Len(open[c]) + 1] /\ Sound(item.thing, item.old)
    BY DEF Entering
  <2>2. Len(open[c]) \in Nat
    BY <1>2 DEF Opens
  <2> HIDE DEF item
  <2>3. ASSUME NEW i \in 1 .. Len(open'[c])
        PROVE  open'[c][i].thing = cmd[c].contexts[i] /\ Sound(open'[c][i].thing, open'[c][i].old)
    <3>1. CASE i = Len(open[c]) + 1
      BY <1>5, <2>1, <3>1
    <3>2. CASE i \in 1 .. Len(open[c])
      BY <1>5, <3>2 DEF IInv, CInv
    <3> QED
      BY <1>5, <2>2, <2>3, <3>1, <3>2
  <2> QED
    BY <2>3
<1>7. /\ pc' \in [Clients -> Places] /\ pc'[c] \in {"body", "enter"}
      /\ pc'[c] = "enter" => Len(open'[c]) # Len(cmd[c].contexts)
      /\ \A d \in Clients \ {c} : pc'[d] = pc[d]
  BY DEF Goto, NextContext, IInv, ClientTypes, Places
<1>8. cmd[c] \in AllCommands /\ Len(cmd[c].contexts) \in Nat
  BY ContextTypes DEF IInv, Constant
<1>9. Len(open[c]) \in Nat
  BY <1>2 DEF Opens
<1>10. pc'[c] = "enter" => Len(open'[c]) < Len(cmd[c].contexts)
  <2> HIDE DEF item
  <2> QED
    BY <1>1, <1>5, <1>7, <1>8, <1>9
<1> QED
  BY <1>3, <1>4, <1>6, <1>7, <1>10

LEMMA OuterOf ==
    ASSUME NEW S, NEW s \in Seq(S), s # <<>>
    PROVE  /\ Outer(s) \in Seq(S) /\ Len(Outer(s)) = Len(s) - 1
           /\ \A i \in 1 .. Len(s) - 1 : Outer(s)[i] = s[i]
           /\ s[Len(s)] \in S
<1>1. Len(s) \in Nat /\ Len(s) > 0 /\ \A i \in 1 .. Len(s) : s[i] \in S
  OBVIOUS
<1>2. \A i \in 1 .. Len(s) - 1 : s[i] \in S
  BY <1>1
<1>3. /\ Outer(s) \in Seq(S) /\ Len(Outer(s)) = Len(s) - 1
      /\ \A i \in 1 .. Len(s) - 1 : Outer(s)[i] = s[i]
  <2> DEFINE n == Len(s) - 1
  <2>1. n \in Nat /\ n - 1 + 1 = n
    BY <1>1
  <2>2. \A i \in 1 .. n : s[i] \in S
    BY <1>2
  <2> HIDE DEF n
  <2>3. /\ SubSeq(s, 1, n) \in Seq(S)
        /\ Len(SubSeq(s, 1, n)) = IF 1 <= n THEN n - 1 + 1 ELSE 0
        /\ \A i \in 1 .. n - 1 + 1 : SubSeq(s, 1, n)[i] = s[1 + i - 1]
    BY <2>1, <2>2, SubSeqProperties
  <2>4. Len(SubSeq(s, 1, n)) = n
    BY <2>1, <2>3
  <2>5. \A i \in 1 .. n : SubSeq(s, 1, n)[i] = s[i]
    BY <2>1, <2>3
  <2> QED
    BY <2>3, <2>4, <2>5 DEF Outer, n
<1> QED
  BY <1>1, <1>3

LEMMA OuterEffect ==
    ASSUME IInv, NEW c \in Clients, open[c] # <<>>, open' = [open EXCEPT ![c] = Outer(@)]
    PROVE  /\ open' \in [Clients -> Opens]
           /\ \A i \in 1 .. Len(open'[c]) : i \in 1 .. Len(open[c]) /\ open'[c][i] = open[c][i]
           /\ \A d \in Clients \ {c} : open'[d] = open[d]
<1>1. open[c] \in Opens /\ Len(open[c]) \in Nat /\ Len(open[c]) > 0
  BY DEF IInv, ClientTypes, Opens
<1>2. Outer(open[c]) \in Opens /\ Len(Outer(open[c])) = Len(open[c]) - 1
      /\ \A i \in 1 .. Len(open[c]) - 1 : Outer(open[c])[i] = open[c][i]
  BY <1>1, OuterOf DEF Opens
<1>3. open'[c] = Outer(open[c]) /\ \A d \in Clients \ {c} : open'[d] = open[d]
  BY DEF IInv, ClientTypes
<1>4. open' \in [Clients -> Opens]
  BY <1>2 DEF IInv, ClientTypes
<1> QED
  BY <1>1, <1>2, <1>3, <1>4

LEMMA TopTypes ==
    ASSUME IInv, NEW c \in Clients, open[c] # <<>>
    PROVE  Top(c).thing \in Things /\ Top(c).old \in V /\ Sound(Top(c).thing, Top(c).old)
<1>1. open[c] \in Opens /\ Len(open[c]) \in 1 .. Len(open[c])
  BY DEF IInv, ClientTypes, Opens
<1>2. Top(c) \in [thing: Things, old: V]
  <2> DEFINE S == [thing: Things, old: V]
  <2>1. open[c] \in Seq(S)
    BY <1>1 DEF Opens
  <2> HIDE DEF S
  <2>2. Top(c) \in S
    BY <2>1, OuterOf DEF Top
  <2> QED
    BY <2>2 DEF S
<1> QED
  BY <1>1, <1>2 DEF Top, IInv, CInv

LEMMA TemporaryTypes ==
    ASSUME IInv, NEW c \in Clients, NEW t \in Things
    PROVE  Temporary(c, t) \in V /\ Sound(t, Temporary(c, t)) /\ cmd[c].branch \in Branches
<1>1. cmd[c].branch \in Branches
  BY DEF IInv, Constant, AllCommands
<1> QED
  BY <1>1 DEF Temporary, Sound

\* What is cached has values that are sound or, of an option, absent.
LEMMA ConfigurationTypes ==
    ASSUME IInv, NEW c \in Clients
    PROVE  /\ Configuration(c) \in Maps \cup {Null}
           /\ Configuration(c) # Null =>
                 \A k \in Keys : Configuration(c)[k] = "absent" \/ Sound(k, Configuration(c)[k])
BY DEF Configuration, IInv, ClientTypes, CInv

LEMMA KnownEffect ==
    ASSUME IInv, NEW c \in Clients, NEW k \in Keys, NEW v \in V, Sound(k, v), Known(c, k, v)
    PROVE  /\ config' \in [Clients -> Maps \cup {Null}]
           /\ \A j \in Keys : config'[c][j] = "absent" \/ Sound(j, config'[c][j])
           /\ \A d \in Clients \ {c} : config'[d] = config[d]
<1> DEFINE cached == IF config[c] = Null THEN NothingKnown ELSE config[c]
<1>1. cached \in Maps /\ \A j \in Keys : cached[j] = "absent" \/ Sound(j, cached[j])
  BY DEF IInv, ClientTypes, CInv, Maps, NothingKnown
<1> HIDE DEF cached
<1>2. [cached EXCEPT ![k] = v] \in Maps
      /\ \A j \in Keys : [cached EXCEPT ![k] = v][j] = IF j = k THEN v ELSE cached[j]
  BY <1>1 DEF Maps
<1>3. config' = [config EXCEPT ![c] = [cached EXCEPT ![k] = v]]
  BY DEF Known, cached
<1> QED
  BY <1>1, <1>2, <1>3 DEF IInv, ClientTypes

-----------------------------------------------------------------------------
\* An exception of a step inside the contexts: the next thing is to leave them.
LEMMA RaisedInv ==
    ASSUME IInv, NEW c \in Clients, Raise(c), Goto(c, "leave"), UNCHANGED <<original, cmd>>,
           UNCHANGED <<data, config, note, shown, result, start, open>>,
           old' \in [Clients -> V \cup {"none"}], \A d \in Clients \ {c} : old'[d] = old[d],
           ServerTypes', ServerInv'
    PROVE  IInv'
<1>1. /\ pc'[c] = "leave" /\ pc' \in [Clients -> Places]
      /\ \A d \in Clients \ {c} : pc'[d] = pc[d]
      /\ failed' \in [Clients -> {"no", "http", "other", "crash"}]
  BY DEF Raise, Goto, IInv, ClientTypes, Places
<1>2. ClientTypes'
  BY <1>1 DEF IInv, ClientTypes
<1>3. Foreign(c)
  BY <1>1 DEF Foreign
<1>4. CInv(c)'
  BY <1>1 DEF IInv, CInv, Sound
<1> QED
  BY <1>2, <1>3, <1>4, StepOf

LEMMA FetchInv ==
    ASSUME IInv, NEW c \in Clients, Fetch(c)
    PROVE  IInv'
<1>1. ServerTypes' /\ ServerInv'
  BY SameServer DEF Fetch
<1>2. CASE /\ data' = [data EXCEPT ![c] = settings]
           /\ start' = [start EXCEPT ![c] = IF @ = Null THEN settings ELSE @]
           /\ UNCHANGED <<pc, config, old, open, failed, result>>
  <2>1. settings \in Settings /\ settings \in Maps
    BY SettingsAreMaps DEF IInv, ServerTypes
  <2>2. ClientTypes'
    BY <1>2, <2>1 DEF Fetch, IInv, ClientTypes
  <2>3. data'[c] = settings /\ \A d \in Clients \ {c} : data'[d] = data[d]
    BY <1>2 DEF IInv, ClientTypes
  <2>4. Foreign(c)
    BY <1>2, <2>3 DEF Fetch, Foreign
  <2>5. CInv(c)'
    BY <1>2, <2>3 DEF Fetch, IInv, ServerInv, CInv, Sound, Entering
  <2> QED
    BY <1>1, <2>2, <2>4, <2>5, StepOf
<1>3. CASE Fails(c) /\ UNCHANGED start
  <2>1. PICK r \in {"error", "traceback"} : End(c, r)
    BY <1>3 DEF Fails
  <2>2. /\ UNCHANGED <<original, cmd, note, start>>
        /\ shown' \in [Clients -> [Things -> V \cup {"none"}]]
    BY <1>3 DEF Fetch, IInv, ClientTypes
  <2> QED
    BY <1>1, <2>1, <2>2, EndEffect, StepOf
<1>4. CASE /\ Raise(c) /\ Goto(c, "leave")
           /\ open' = [open EXCEPT ![c] = IF pc[c] = "leave" THEN Outer(@) ELSE @]
           /\ UNCHANGED <<data, config, old, start, result>>
  <2>1. CASE pc[c] # "leave"
    <3>1. open' = open
      BY <1>4, <2>1 DEF IInv, ClientTypes
    <3> QED
      BY <1>1, <1>4, <3>1, RaisedInv DEF Fetch, IInv, ClientTypes
  <2>2. CASE pc[c] = "leave"
    <3>1. open[c] # <<>> /\ open' = [open EXCEPT ![c] = Outer(@)]
      BY <1>4, <2>2 DEF Fetch, Missing, Needs
    <3>2. /\ open' \in [Clients -> Opens]
          /\ \A i \in 1 .. Len(open'[c]) : i \in 1 .. Len(open[c]) /\ open'[c][i] = open[c][i]
          /\ \A d \in Clients \ {c} : open'[d] = open[d]
      BY <3>1, OuterEffect
    <3>3. /\ pc' = pc /\ failed' \in [Clients -> {"no", "http", "other", "crash"}]
      BY <1>4, <2>2 DEF Raise, Goto, IInv, ClientTypes
    <3>4. ClientTypes'
      BY <1>4, <3>2, <3>3 DEF Fetch, IInv, ClientTypes
    <3>5. Foreign(c)
      BY <1>4, <3>2, <3>3 DEF Fetch, Foreign
    <3>6. CInv(c)'
      BY <1>4, <2>2, <3>2, <3>3 DEF Fetch, IInv, CInv, Sound
    <3> QED
      BY <1>1, <3>4, <3>5, <3>6, StepOf
  <2> QED
    BY <2>1, <2>2
<1> QED
  BY <1>2, <1>3, <1>4 DEF Fetch

LEMMA ReadRepoInv ==
    ASSUME IInv, NEW c \in Clients, ReadRepo(c)
    PROVE  IInv'
<1>1. ServerTypes' /\ ServerInv'
  BY SameServer DEF ReadRepo
<1>2. Len(cmd[c].contexts) \in Nat /\ Len(open[c]) = 0
  BY ContextTypes DEF ReadRepo, IInv, CInv, Constant
<1>3. /\ pc' \in [Clients -> Places] /\ pc'[c] \in {"body", "enter"}
      /\ pc'[c] = "enter" => Len(cmd[c].contexts) # 0
      /\ \A d \in Clients \ {c} : pc'[d] = pc[d]
  BY DEF ReadRepo, Goto, NextContext, IInv, ClientTypes, Places
<1>4. pc'[c] = "enter" => Len(open[c]) < Len(cmd[c].contexts)
  BY <1>2, <1>3
<1>5. ClientTypes'
  BY <1>3 DEF ReadRepo, IInv, ClientTypes
<1>6. Foreign(c)
  BY <1>3 DEF ReadRepo, Foreign
<1>7. CInv(c)'
  BY <1>3, <1>4 DEF ReadRepo, IInv, CInv, Sound
<1> QED
  BY <1>1, <1>5, <1>6, <1>7, StepOf

LEMMA ReadConfigInv ==
    ASSUME IInv, NEW c \in Clients, ReadConfig(c)
    PROVE  IInv'
<1> DEFINE known == Configuration(c)[Entering(c)]
<1>1. ServerTypes' /\ ServerInv'
  BY SameServer DEF ReadConfig
<1>2. Entering(c) \in Keys /\ Cached(c, Entering(c))
  BY EnteringTypes DEF ReadConfig, Missing, Needs, IInv
<1>3. /\ Configuration(c) \in Maps
      /\ \A k \in Keys : Configuration(c)[k] = "absent" \/ Sound(k, Configuration(c)[k])
  BY <1>2, ConfigurationTypes DEF Cached, Configuration
<1>4. known \in V /\ (known = "absent" \/ Sound(Entering(c), known))
  BY <1>2, <1>3 DEF Maps
<1> HIDE DEF known
<1>5. /\ pc' = [pc EXCEPT ![c] = IF known = "absent" THEN "key" ELSE "set"]
      /\ old' = [old EXCEPT ![c] = known]
      /\ config' = [config EXCEPT ![c] = Configuration(c)]
  BY DEF ReadConfig, Goto, known
<1>6. ClientTypes'
  BY <1>3, <1>4, <1>5 DEF ReadConfig, IInv, ClientTypes, Places
<1>7. Foreign(c)
  BY <1>5 DEF ReadConfig, Foreign, IInv, ClientTypes
<1>8. /\ pc'[c] = IF known = "absent" THEN "key" ELSE "set"
      /\ old'[c] = known /\ config'[c] = Configuration(c)
  BY <1>5 DEF IInv, ClientTypes
<1>9. CInv(c)'
  <2>1. UNCHANGED <<original, cmd, data, open>> /\ pc[c] = "enter" /\ Configuration(c) # Null
    BY <1>2 DEF ReadConfig, Cached, Configuration
  <2>2. Entering(c)' = Entering(c)
    BY <2>1 DEF Entering
  <2>3. pc'[c] = "set" => Sound(Entering(c), old[c])'
    BY <1>4, <1>8, <2>1, <2>2 DEF Sound
  <2>4. \A k \in Keys : (config[c][k] = "absent" \/ Sound(k, config[c][k]))'
    BY <1>3, <1>8, <2>1 DEF Sound
  <2> QED
    BY <1>2, <1>8, <2>1, <2>2, <2>3, <2>4 DEF IInv, CInv, Sound
<1> QED
  BY <1>1, <1>6, <1>7, <1>9, StepOf

LEMMA ReadKeyInv ==
    ASSUME IInv, NEW c \in Clients, ReadKey(c)
    PROVE  IInv'
<1>1. ServerTypes' /\ ServerInv'
  BY SameServer DEF ReadKey
<1>2. CASE Raise(c) /\ Goto(c, "leave") /\ UNCHANGED <<old, config>>
  BY <1>1, <1>2, RaisedInv DEF ReadKey, IInv, ClientTypes
<1>3. CASE /\ Goto(c, "set") /\ UNCHANGED failed
           /\ old' = [old EXCEPT ![c] = settings[Entering(c)]]
           /\ config' = [config EXCEPT ![c][Entering(c)] = settings[Entering(c)]]
  <2>1. Entering(c) \in Keys /\ Entering(c) \in Things
    BY DEF ReadKey, IInv, CInv
  <2>2. settings[Entering(c)] \in V /\ Sound(Entering(c), settings[Entering(c)])
    BY <2>1, SettingsAreMaps DEF IInv, ServerTypes, ServerInv, Maps
  <2>3. /\ pc' \in [Clients -> Places] /\ pc'[c] = "set"
        /\ old' \in [Clients -> V \cup {"none"}] /\ old'[c] = settings[Entering(c)]
        /\ \A d \in Clients \ {c} : pc'[d] = pc[d] /\ old'[d] = old[d] /\ config'[d] = config[d]
    BY <1>3, <2>2 DEF Goto, IInv, ClientTypes, Places
  <2>4. config'[c] = [config[c] EXCEPT ![Entering(c)] = settings[Entering(c)]]
    BY <1>3 DEF IInv, ClientTypes
  <2>5. /\ config[c] \in Maps
        /\ \A k \in Keys : config[c][k] = "absent" \/ Sound(k, config[c][k])
    BY DEF ReadKey, IInv, CInv, ClientTypes
  <2>a. /\ config'[c] \in Maps
        /\ \A k \in Keys : config'[c][k] = "absent" \/ Sound(k, config'[c][k])
    BY <2>1, <2>2, <2>4, <2>5 DEF Maps
  <2>b. config' \in [Clients -> Maps \cup {Null}]
    BY <1>3, <2>4, <2>a DEF IInv, ClientTypes
  <2>6. ClientTypes'
    BY <1>3, <2>3, <2>b DEF ReadKey, IInv, ClientTypes
  <2>7. Foreign(c)
    BY <2>3 DEF ReadKey, Foreign
  <2>8. CInv(c)'
    <3>1. UNCHANGED <<original, cmd, data, open>> /\ pc[c] = "key"
      BY DEF ReadKey
    <3>2. Entering(c)' = Entering(c)
      BY <3>1 DEF Entering
    <3>3. Sound(Entering(c), old[c])'
      BY <2>2, <2>3, <3>1, <3>2 DEF Sound
    <3>4. \A k \in Keys : (config[c][k] = "absent" \/ Sound(k, config[c][k]))'
      BY <2>a, <3>1 DEF Sound
    <3> QED
      BY <2>1, <2>3, <3>1, <3>2, <3>3, <3>4 DEF IInv, CInv, Sound
  <2> QED
    BY <1>1, <2>6, <2>7, <2>8, StepOf
<1> QED
  BY <1>2, <1>3 DEF ReadKey

\* What is left of the cache when a request has changed the repository.
CacheInv(c) ==
    /\ data' \in [Clients -> Maps \cup {Null}] /\ config' \in [Clients -> Maps \cup {Null}]
    /\ \A d \in Clients \ {c} : data'[d] = data[d] /\ config'[d] = config[d]
    /\ data'[c] # Null => \A t \in Things : Sound(t, data'[c][t])
    /\ config'[c] # Null => \A k \in Keys : config'[c][k] = "absent" \/ Sound(k, config'[c][k])

LEMMA CacheEffect ==
    ASSUME IInv, NEW c \in Clients, NEW t \in Things, NEW v \in V, Sound(t, v),
           \/ Wiped(c)
           \/ t # "branch" /\ Known(c, t, v) /\ UNCHANGED data
           \/ config' = [config EXCEPT ![c] = Configuration(c)] /\ UNCHANGED data
           \/ UNCHANGED <<data, config>>
    PROVE  CacheInv(c)
<1>1. CASE Wiped(c)
  BY <1>1 DEF Wiped, CacheInv, IInv, ClientTypes
<1>2. CASE t # "branch" /\ Known(c, t, v) /\ UNCHANGED data
  BY <1>2, KnownEffect DEF CacheInv, IInv, ClientTypes, CInv
<1>3. CASE config' = [config EXCEPT ![c] = Configuration(c)] /\ UNCHANGED data
  BY <1>3, ConfigurationTypes DEF CacheInv, IInv, ClientTypes, CInv
<1>4. CASE UNCHANGED <<data, config>>
  BY <1>4 DEF CacheInv, IInv, ClientTypes, CInv
<1> QED
  BY <1>1, <1>2, <1>3, <1>4

LEMMA ReadBranchInv ==
    ASSUME IInv, NEW c \in Clients, ReadBranch(c)
    PROVE  IInv'
<1> DEFINE active == data[c]["branch"]
<1>1. ServerTypes' /\ ServerInv'
  BY SameServer DEF ReadBranch
<1>2. data[c] # Null
  BY DEF ReadBranch, Missing, Needs, Cached
<1>3. active \in V /\ active \in Branches /\ Sound(Entering(c), active)
  BY <1>2 DEF ReadBranch, IInv, CInv, Sound
<1> HIDE DEF active
<1>4. CASE /\ Entered(c, active) /\ Goto(c, NextContext(c, Len(open'[c])))
           /\ UNCHANGED <<old, note>>
  <2>1. /\ open' \in [Clients -> Opens] /\ pc' \in [Clients -> Places]
        /\ pc'[c] \in {"body", "enter"}
        /\ pc'[c] = "enter" => Len(open'[c]) < Len(cmd[c].contexts)
        /\ \A i \in 1 .. Len(open'[c]) :
              open'[c][i].thing = cmd[c].contexts[i] /\ Sound(open'[c][i].thing, open'[c][i].old)
        /\ \A d \in Clients \ {c} : open'[d] = open[d] /\ pc'[d] = pc[d]
    BY <1>3, <1>4, EnteredEffect DEF ReadBranch
  <2>2. ClientTypes'
    BY <1>4, <2>1 DEF ReadBranch, IInv, ClientTypes
  <2>3. Foreign(c)
    BY <1>4, <2>1 DEF ReadBranch, Foreign
  <2>4. CInv(c)'
    BY <1>4, <2>1 DEF ReadBranch, IInv, CInv, Sound
  <2> QED
    BY <1>1, <2>2, <2>3, <2>4, StepOf
<1>5. CASE /\ old' = [old EXCEPT ![c] = active]
           /\ note' = [note EXCEPT ![c]["branch"] = active]
           /\ Goto(c, "set") /\ UNCHANGED open
  <2>1. /\ pc' \in [Clients -> Places] /\ pc'[c] = "set"
        /\ old' \in [Clients -> V \cup {"none"}] /\ old'[c] = active
        /\ \A d \in Clients \ {c} : pc'[d] = pc[d] /\ old'[d] = old[d]
    BY <1>3, <1>5 DEF Goto, IInv, ClientTypes, Places
  <2>2. note' \in [Clients -> [Things -> V \cup {"none"}]]
    BY <1>3, <1>5 DEF IInv, ClientTypes
  <2>3. ClientTypes'
    BY <1>5, <2>1, <2>2 DEF ReadBranch, IInv, ClientTypes
  <2>4. Foreign(c)
    BY <1>5, <2>1 DEF ReadBranch, Foreign
  <2>5. UNCHANGED <<original, cmd, data, config, open>> /\ pc[c] = "enter"
    BY <1>5 DEF ReadBranch
  <2>6. Entering(c)' = Entering(c)
    BY <2>5 DEF Entering
  <2>7. Sound(Entering(c), old[c])'
    BY <1>3, <2>1, <2>5, <2>6 DEF Sound
  <2>8. CInv(c)'
    BY <2>1, <2>5, <2>6, <2>7 DEF IInv, CInv, Sound
  <2> QED
    BY <1>1, <2>3, <2>4, <2>8, StepOf
<1> QED
  BY <1>4, <1>5 DEF ReadBranch, active

LEMMA SetTemporaryInv ==
    ASSUME IInv, NEW c \in Clients, SetTemporary(c)
    PROVE  IInv'
<1> DEFINE t == Entering(c)
           v == Temporary(c, t)
<1>1. t \in Things /\ v \in V /\ Sound(t, v) /\ Sound(t, old[c]) /\ pc[c] = "set"
  BY EnteringTypes, TemporaryTypes DEF SetTemporary, IInv, CInv
<1>2. old[c] \in V
  BY <1>1 DEF Sound, IInv, Constant, Settings
<1>3. /\ old' \in [Clients -> V \cup {"none"}] /\ \A d \in Clients \ {c} : old'[d] = old[d]
      /\ UNCHANGED <<original, cmd, shown, result, start>>
  BY DEF SetTemporary, ForgetsOld, IInv, ClientTypes
<1>4. CASE /\ Answered(c, t, v)
           /\ IF t = "branch" THEN Wiped(c) ELSE Known(c, t, v) /\ UNCHANGED data
           /\ note' = [note EXCEPT ![c][t] = IF old[c] = v THEN "none" ELSE old[c]]
           /\ Entered(c, old[c])
           /\ Goto(c, NextContext(c, Len(open'[c])))
           /\ UNCHANGED failed
  <2>1. ServerTypes' /\ ServerInv'
    BY <1>1, <1>3, <1>4, RequestEffect
  <2>2. CacheInv(c)
    BY <1>1, <1>4, CacheEffect
  <2>3. /\ open' \in [Clients -> Opens] /\ pc' \in [Clients -> Places]
        /\ pc'[c] \in {"body", "enter"}
        /\ pc'[c] = "enter" => Len(open'[c]) < Len(cmd[c].contexts)
        /\ \A i \in 1 .. Len(open'[c]) :
              open'[c][i].thing = cmd[c].contexts[i] /\ Sound(open'[c][i].thing, open'[c][i].old)
        /\ \A d \in Clients \ {c} : open'[d] = open[d] /\ pc'[d] = pc[d]
    BY <1>1, <1>2, <1>4, EnteredEffect
  <2>4. note' \in [Clients -> [Things -> V \cup {"none"}]]
    BY <1>1, <1>2, <1>4 DEF IInv, ClientTypes
  <2>5. ClientTypes'
    BY <1>3, <1>4, <2>2, <2>3, <2>4 DEF IInv, ClientTypes, CacheInv
  <2>6. Foreign(c)
    BY <1>3, <2>2, <2>3 DEF Foreign, CacheInv
  <2>7. CInv(c)'
    BY <1>3, <2>2, <2>3 DEF CInv, CacheInv, Sound
  <2> QED
    BY <2>1, <2>5, <2>6, <2>7, StepOf
<1>5. CASE /\ Refused \/ Unanswered(c, t, v)
           /\ Raise(c) /\ Goto(c, "leave")
           /\ UNCHANGED <<data, config, note, open>>
  BY <1>1, <1>3, <1>5, RequestEffect, RaisedInv
<1>6. CASE Unreadable(c, t, v) /\ Goto(c, "leave") /\ t = "branch" /\ UNCHANGED <<note, open>>
  <2>1. ServerTypes' /\ ServerInv'
    BY <1>1, <1>3, <1>6, RequestEffect DEF Unreadable
  <2>2. CacheInv(c)
    BY <1>1, <1>6, CacheEffect DEF Unreadable
  <2>3. /\ pc' \in [Clients -> Places] /\ pc'[c] = "leave" /\ \A d \in Clients \ {c} : pc'[d] = pc[d]
        /\ failed' \in [Clients -> {"no", "http", "other", "crash"}]
    BY <1>6 DEF Goto, Unreadable, IInv, ClientTypes, Places
  <2>4. ClientTypes'
    BY <1>3, <1>6, <2>2, <2>3 DEF IInv, ClientTypes, CacheInv
  <2>5. Foreign(c)
    BY <1>3, <1>6, <2>2, <2>3 DEF Foreign, CacheInv
  <2>6. CInv(c)'
    BY <1>3, <1>6, <2>2, <2>3 DEF IInv, CInv, CacheInv, Sound
  <2> QED
    BY <2>1, <2>4, <2>5, <2>6, StepOf
<1> QED
  BY <1>4, <1>5, <1>6 DEF SetTemporary

LEMMA BodyInv ==
    ASSUME IInv, NEW c \in Clients, Body(c)
    PROVE  IInv'
<1> DEFINE t == IF cmd[c].name = "checkout" THEN "branch" ELSE "pull"
           v == cmd[c].branch
<1>1. t \in Things \cup {"pull"} /\ v \in V /\ v \in Branches /\ (t \in Things => Sound(t, v))
  BY TemporaryTypes DEF Sound
<1>2. /\ \/ Wiped(c) /\ UNCHANGED failed
         \/ Raise(c) /\ UNCHANGED <<data, config>>
         \/ /\ failed' = [failed EXCEPT ![c] = "crash"]
            /\ Wiped(c) \/ UNCHANGED <<data, config>>
      /\ Answered(c, t, v) \/ Refused \/ Unanswered(c, t, v)
      /\ Goto(c, "leave") /\ UNCHANGED <<original, cmd, old, open, note, shown, result, start>>
  BY DEF Body, Unreadable
<1> HIDE DEF t, v
<1>3. ServerTypes' /\ ServerInv'
  BY <1>1, <1>2, RequestEffect
<1>4. CacheInv(c)
  BY <1>2, CacheEffect DEF Sound
<1>5. /\ pc' \in [Clients -> Places] /\ pc'[c] = "leave" /\ \A d \in Clients \ {c} : pc'[d] = pc[d]
      /\ failed' \in [Clients -> {"no", "http", "other", "crash"}]
  <2>1. /\ pc' \in [Clients -> Places] /\ pc'[c] = "leave"
        /\ \A d \in Clients \ {c} : pc'[d] = pc[d]
    BY <1>2 DEF Goto, IInv, ClientTypes, Places
  <2>2. \/ UNCHANGED failed
        \/ \E e \in {"http", "other", "crash"} : failed' = [failed EXCEPT ![c] = e]
    BY <1>2 DEF Raise
  <2>3. failed' \in [Clients -> {"no", "http", "other", "crash"}]
    BY <2>2 DEF IInv, ClientTypes
  <2> QED
    BY <2>1, <2>3
<1>6. ClientTypes'
  BY <1>2, <1>4, <1>5 DEF IInv, ClientTypes, CacheInv
<1>7. Foreign(c)
  BY <1>2, <1>4, <1>5 DEF Foreign, CacheInv
<1>8. CInv(c)'
  BY <1>2, <1>4, <1>5 DEF IInv, CInv, CacheInv, Sound
<1> QED
  BY <1>3, <1>6, <1>7, <1>8, StepOf

LEMMA RevertInv ==
    ASSUME IInv, NEW c \in Clients, Revert(c)
    PROVE  IInv'
<1> DEFINE t == Top(c).thing
           v == Top(c).old
<1>1. t \in Things /\ v \in V /\ Sound(t, v)
  BY TopTypes DEF Revert
<1>2. /\ pc[c] = "leave" /\ open[c] # <<>> /\ open' = [open EXCEPT ![c] = Outer(@)]
      /\ UNCHANGED <<original, cmd, pc, old, shown, result, start>>
      /\ \/ Refused /\ UNCHANGED <<data, config, note, failed>>
         \/ Reverted(c, t, v)
         \/ RevertFailed(c, t, v)
  BY DEF Revert
<1> HIDE DEF t, v
<1>3. ServerTypes' /\ ServerInv'
  BY <1>1, <1>2, RequestEffect DEF Reverted, RevertFailed, Unreadable
<1>4. CacheInv(c)
  BY <1>1, <1>2, CacheEffect DEF Reverted, RevertFailed, Unreadable
<1>5. /\ open' \in [Clients -> Opens]
      /\ \A i \in 1 .. Len(open'[c]) : i \in 1 .. Len(open[c]) /\ open'[c][i] = open[c][i]
      /\ \A d \in Clients \ {c} : open'[d] = open[d]
  BY <1>2, OuterEffect
<1>6. /\ note' \in [Clients -> [Things -> V \cup {"none"}]]
      /\ failed' \in [Clients -> {"no", "http", "other", "crash"}]
  <2>1. CASE UNCHANGED <<note, failed>>
    BY <2>1 DEF IInv, ClientTypes
  <2>2. CASE note' = [note EXCEPT ![c][t] = "none"] /\ UNCHANGED failed
    <3>1. note' \in [Clients -> [Things -> V \cup {"none"}]]
      BY <1>1, <2>2 DEF IInv, ClientTypes
    <3> QED
      BY <2>2, <3>1 DEF IInv, ClientTypes
  <2>3. CASE (Raise(c) \/ failed' = [failed EXCEPT ![c] = "crash"]) /\ UNCHANGED note
    <3>1. \E e \in {"http", "other", "crash"} : failed' = [failed EXCEPT ![c] = e]
      BY <2>3 DEF Raise
    <3>2. failed' \in [Clients -> {"no", "http", "other", "crash"}]
      BY <3>1 DEF IInv, ClientTypes
    <3> QED
      BY <2>3, <3>2 DEF IInv, ClientTypes
  <2> QED
    BY <1>2, <2>1, <2>2, <2>3 DEF Reverted, RevertFailed, Unreadable
<1>7. ClientTypes'
  BY <1>2, <1>4, <1>5, <1>6 DEF IInv, ClientTypes, CacheInv
<1>8. Foreign(c)
  BY <1>2, <1>4, <1>5 DEF Foreign, CacheInv
<1>9. CInv(c)'
  BY <1>2, <1>4, <1>5 DEF IInv, CInv, CacheInv, Sound
<1> QED
  BY <1>3, <1>7, <1>8, <1>9, StepOf

LEMMA EndUpdateInv ==
    ASSUME IInv, NEW c \in Clients, EndUpdate(c)
    PROVE  IInv'
<1>1. ServerTypes' /\ ServerInv'
  BY SameServer DEF EndUpdate
<1>2. shown' \in [Clients -> [Things -> V \cup {"none"}]]
  BY DEF EndUpdate, IInv, ClientTypes
<1>3. PICK r \in {"ok", "error", "traceback"} : End(c, r)
  BY DEF EndUpdate
<1> QED
  BY <1>1, <1>2, <1>3, EndEffect, StepOf DEF EndUpdate

\* A process that ends without a message.
LEMMA EndsInv ==
    ASSUME IInv, NEW c \in Clients, NEW r \in {"ok", "recovered", "error", "traceback", "killed"}, End(c, r),
           UNCHANGED <<original, cmd, note, shown, start, unanswered, serverVars>>
    PROVE  IInv'
<1>1. ServerTypes' /\ ServerInv'
  BY SameServer
<1>2. shown' \in [Clients -> [Things -> V \cup {"none"}]]
  BY DEF IInv, ClientTypes
<1> QED
  BY <1>1, <1>2, EndEffect, StepOf

\* A process that goes on after its contexts.
LEMMA GoesOnInv ==
    ASSUME IInv, NEW c \in Clients, NEW p \in {"head", "poll", "activities"}, Goto(c, p),
           Wiped(c) \/ UNCHANGED <<data, config>>,
           UNCHANGED <<original, cmd, old, open, note, failed, shown, result, start,
                       unanswered, serverVars>>
    PROVE  IInv'
<1>1. ServerTypes' /\ ServerInv'
  BY SameServer
<1>2. CacheInv(c)
  <2>1. CASE Wiped(c)
    BY <2>1 DEF Wiped, CacheInv, IInv, ClientTypes
  <2>2. CASE UNCHANGED <<data, config>>
    BY <2>2 DEF CacheInv, IInv, ClientTypes, CInv
  <2> QED
    BY <2>1, <2>2
<1>3. pc' \in [Clients -> Places] /\ pc'[c] = p /\ \A d \in Clients \ {c} : pc'[d] = pc[d]
  BY DEF Goto, IInv, ClientTypes, Places
<1>4. ClientTypes'
  BY <1>2, <1>3 DEF IInv, ClientTypes, CacheInv
<1>5. Foreign(c)
  BY <1>2, <1>3 DEF Foreign, CacheInv
<1>6. CInv(c)'
  BY <1>2, <1>3 DEF IInv, CInv, CacheInv, Sound
<1> QED
  BY <1>1, <1>4, <1>5, <1>6, StepOf

LEMMA EndCheckoutInv ==
    ASSUME IInv, NEW c \in Clients, EndCheckout(c)
    PROVE  IInv'
<1>1. CASE Goto(c, "head") /\ Wiped(c) /\ UNCHANGED <<old, open, failed, result>>
  BY <1>1, GoesOnInv DEF EndCheckout
<1>2. CASE /\ Goto(c, "poll") \/ Goto(c, "activities")
           /\ Wiped(c) /\ UNCHANGED <<old, open, failed, result>>
  BY <1>2, GoesOnInv DEF EndCheckout
<1>3. CASE Fails(c)
  BY <1>3, EndsInv DEF EndCheckout, Fails
<1> QED
  BY <1>1, <1>2, <1>3 DEF EndCheckout, Fails

LEMMA RestInv ==
    ASSUME IInv, NEW c \in Clients, ReadHead(c) \/ Activities(c) \/ Poll(c) \/ Kill(c)
    PROVE  IInv'
<1>1. CASE ReadHead(c)
  BY <1>1, EndsInv DEF ReadHead
<1>2. CASE Activities(c)
  BY <1>2, EndsInv, GoesOnInv DEF Activities, Fails
<1>3. CASE Poll(c)
  BY <1>3, EndsInv DEF Poll, Fails
<1>4. CASE Kill(c)
  BY <1>4, EndsInv DEF Kill
<1> QED
  BY <1>1, <1>2, <1>3, <1>4

\* A delayed request carries a sound value.
LEMMA ServeLateInv ==
    ASSUME IInv, NEW r \in pending, ServeLate(r)
    PROVE  IInv'
<1>1. r[1] \in Clients /\ r[2] \in Things \cup {"pull"} /\ r[3] \in V
  BY DEF IInv, ServerTypes
<1>2. r[2] \in Things => Sound(r[2], r[3])
  BY DEF IInv, ServerInv
<1>3. /\ settings' \in Settings /\ \A u \in Things : Sound(u, settings'[u])
      /\ disturbed' \in [Clients -> BOOLEAN] /\ imported' \subseteq Clients
  BY <1>1, <1>2, ServeEffect DEF ServeLate
<1>4. pending' \subseteq pending /\ UNCHANGED <<original, cmd, clientVars>>
  BY DEF ServeLate
<1>5. ServerTypes'
  BY <1>3, <1>4 DEF IInv, ServerTypes, clientVars
<1>6. ServerInv'
  BY <1>3, <1>4 DEF IInv, ServerInv, Sound
<1>7. ClientTypes' /\ Constant'
  BY <1>4 DEF IInv, ClientTypes, Constant, clientVars
<1>8. \A c \in Clients : CInv(c)'
  BY <1>4 DEF IInv, CInv, Sound, Entering, clientVars
<1> QED
  BY <1>5, <1>6, <1>7, <1>8 DEF IInv

-----------------------------------------------------------------------------
LEMMA StepInv == IInv /\ [Next]_vars => IInv'
<1> SUFFICES ASSUME IInv, [Next]_vars PROVE IInv'
  OBVIOUS
<1>1. ASSUME NEW c \in Clients, Step(c) PROVE IInv'
  BY <1>1, FetchInv, ReadRepoInv, ReadConfigInv, ReadKeyInv, ReadBranchInv, SetTemporaryInv,
     BodyInv, RevertInv, EndUpdateInv, EndCheckoutInv, RestInv DEF Step
<1>2. ASSUME NEW c \in Clients, Kill(c) PROVE IInv'
  BY <1>2, RestInv
<1>3. ASSUME NEW r \in pending, ServeLate(r) PROVE IInv'
  BY <1>3, ServeLateInv
<1>4. CASE UNCHANGED vars
  <2>1. ServerTypes' /\ ClientTypes' /\ Constant'
    BY <1>4 DEF vars, IInv, ServerTypes, ClientTypes, Constant
  <2>2. ServerInv'
    BY <1>4 DEF vars, IInv, ServerInv, Sound
  <2>3. \A c \in Clients : CInv(c)'
    BY <1>4 DEF vars, IInv, CInv, Sound, Entering
  <2> QED
    BY <2>1, <2>2, <2>3 DEF IInv
<1> QED
  BY <1>1, <1>2, <1>3, <1>4 DEF Next

LEMMA Invariance == Spec => []IInv
BY InitInv, StepInv, PTL DEF Spec

LEMMA InvTypes == IInv => TypeOK
<1> SUFFICES ASSUME IInv PROVE TypeOK
  OBVIOUS
<1>1. data \in [Clients -> Settings \cup {Null}]
  <2>1. ASSUME NEW c \in Clients, data[c] # Null PROVE data[c] \in Settings
    <3>1. data[c] \in Maps /\ original \in Settings /\ \A t \in Things : Sound(t, data[c][t])
      BY <2>1 DEF IInv, ClientTypes, Constant, CInv
    <3> QED
      BY <3>1 DEF Sound, Settings, Maps
  <2> QED
    BY <2>1 DEF IInv, ClientTypes
<1>2. \A c \in Clients : config[c] # Null => config[c] \in [Things -> Values \cup Branches]
  BY DEF IInv, ClientTypes, Maps
<1>3. ASSUME NEW c \in Clients, NEW i \in 1 .. Len(open[c])
      PROVE  open[c][i].thing = cmd[c].contexts[i] /\ open[c][i].old \in Values \cup Branches
  <2> DEFINE S == [thing: Things, old: V]
  <2>1. open[c] \in Seq(S)
    BY DEF IInv, ClientTypes, Opens
  <2> HIDE DEF S
  <2>2. open[c][i] \in S
    BY <2>1
  <2> QED
    BY <2>2 DEF S, IInv, CInv
<1> QED
  BY <1>1, <1>2, <1>3 DEF TypeOK, IInv, ServerTypes, ClientTypes, Constant, Places

-----------------------------------------------------------------------------
\* The state of the server and of every process always has its type: whatever
\* is cached, put back or still on its way is a setting of the repository.
THEOREM TypeCorrect == Spec => []TypeOK
BY Invariance, InvTypes, PTL

\* However many commands run at once, fail or are killed (set_config and
\* delete_config of sap/rest/gcts/remote_repo.py, called by the contexts of
\* sugar.py), an option has its original value or the temporary one.
THEOREM NoStrangeValue == Spec => []OnlyFlagOrOriginal
<1>1. IInv => OnlyFlagOrOriginal
  BY DEF IInv, ServerInv, Sound, OnlyFlagOrOriginal
<1> QED
  BY <1>1, Invariance, PTL

-----------------------------------------------------------------------------
(***************************************************************************)
(* NoUnwantedImport: where a delayed request of a process may come from.   *)
(***************************************************************************)
\* The places where a process has not been refused anything yet.
Ahead == {"repo", "enter", "key", "set", "body"}

\* A process has looked at the repository before it changes it, and works with
\* all of its contexts open.
LookedInv(c) ==
    /\ data[c] # Null \/ config[c] # Null \/ open[c] # <<>> \/ pc[c] \in {"key", "set"} =>
          start[c] # Null
    /\ pc[c] = "body" => Len(open[c]) = Len(cmd[c].contexts)
    /\ Len(open[c]) <= Len(cmd[c].contexts)

\* A delayed request of c was given up, is about no option of an open context,
\* and c does not start anything new.
DelayedInv(c) ==
    \A r \in pending : r[1] = c =>
        /\ pc[c] \notin Ahead
        /\ r[2] \in unanswered[c]
        /\ \A i \in 1 .. Len(open[c]) : open[c][i].thing \in Keys => open[c][i].thing # r[2]

\* As long as nobody else changes the repository, the options of the open
\* contexts are set.
ShieldInv(c) ==
    start[c] # Null /\ ~disturbed[c] =>
        \A i \in 1 .. Len(open[c]) : open[c][i].thing \in Keys => settings[open[c][i].thing] = "X"

\* NoUnwantedImport, of one process.
ImportInv(c) ==
    c \in imported /\ Contexts(c) \cap Keys # {} =>
        disturbed[c] \/ unanswered[c] \cap {"branch", "pull"} # {}

OInv(c) == LookedInv(c) /\ DelayedInv(c) /\ ShieldInv(c) /\ ImportInv(c)
Inv == IInv /\ \A c \in Clients : OInv(c)

-----------------------------------------------------------------------------

\* The contexts of a command are different, and the branch is never the first.
ContextLists == {<<"VCS_NO_IMPORT", "branch">>, <<>>, <<"VCS_NO_IMPORT">>, <<"VCS_BUFFER_ONLY">>,
                 <<"VCS_NO_IMPORT", "VCS_BUFFER_ONLY">>}

LEMMA ListsDiffer ==
    ASSUME NEW K \in ContextLists
    PROVE  /\ \A i, j \in 1 .. Len(K) : K[i] = K[j] => i = j
           /\ \A i \in 1 .. Len(K) : K[i] = "branch" => i = 2 /\ K[1] \in Keys
<1>1. CASE K = <<>>
  BY <1>1
<1>2. CASE K \in {<<"VCS_NO_IMPORT">>, <<"VCS_BUFFER_ONLY">>}
  <2>1. Len(K) = 1 /\ K[1] # "branch"
    BY <1>2
  <2>2. \A i \in 1 .. Len(K) : i = 1
    BY <2>1
  <2>3. \A i \in 1 .. Len(K) : K[i] # "branch"
    BY <2>1, <2>2
  <2>4. \A i, j \in 1 .. Len(K) : i = j
    BY <2>2
  <2> QED
    BY <2>3, <2>4
<1>3. CASE K \in {<<"VCS_NO_IMPORT", "branch">>, <<"VCS_NO_IMPORT", "VCS_BUFFER_ONLY">>}
  <2>1. Len(K) = 2 /\ K[1] = "VCS_NO_IMPORT" /\ K[2] # "VCS_NO_IMPORT"
    BY <1>3
  <2>2. \A i \in 1 .. Len(K) : i = 1 \/ i = 2
    BY <2>1
  <2>3. K[1] # K[2]
    BY <2>1
  <2>5. \A i, j \in 1 .. Len(K) : K[i] = K[j] => i = j
    BY <2>2, <2>3
  <2>6. K[1] \in Keys /\ K[1] # "branch"
    BY <2>1
  <2>4. \A i \in 1 .. Len(K) : K[i] = "branch" => i = 2 /\ K[1] \in Keys
    BY <2>2, <2>6, Zenon
  <2> QED
    BY <2>4, <2>5
<1> QED
  BY <1>1, <1>2, <1>3 DEF ContextLists

LEMMA ContextsDiffer ==
    ASSUME NEW k \in AllCommands
    PROVE  /\ \A i, j \in 1 .. Len(k.contexts) : k.contexts[i] = k.contexts[j] => i = j
           /\ \A i \in 1 .. Len(k.contexts) :
                 k.contexts[i] = "branch" => i = 2 /\ k.contexts[1] \in Keys
<1>1. k.contexts \in ContextLists
  BY DEF AllCommands, ContextLists
<1> QED
  BY <1>1, ListsDiffer

LEMMA OpenLength ==
    ASSUME IInv, NEW c \in Clients
    PROVE  /\ open[c] \in Opens /\ Len(open[c]) \in Nat
           /\ open[c] # <<>> => Len(open[c]) > 0
<1>1. open[c] \in Opens
  BY DEF IInv, ClientTypes
<1> QED
  BY <1>1 DEF Opens

\* The things of the open contexts are those of the command, in their order.
LEMMA OpenThings ==
    ASSUME IInv, NEW c \in Clients, LookedInv(c)
    PROVE  /\ Len(open[c]) \in Nat /\ Len(cmd[c].contexts) \in Nat
           /\ \A i \in 1 .. Len(open[c]) :
                 i \in 1 .. Len(cmd[c].contexts) /\ open[c][i].thing = cmd[c].contexts[i]
           /\ \A i, j \in 1 .. Len(open[c]) : open[c][i].thing = open[c][j].thing => i = j
<1>1. cmd[c] \in AllCommands /\ Len(open[c]) \in Nat
  BY DEF IInv, Constant, ClientTypes, Opens
<1>2. Len(cmd[c].contexts) \in Nat
  BY <1>1, ContextTypes
<1>3. \A i \in 1 .. Len(open[c]) :
         i \in 1 .. Len(cmd[c].contexts) /\ open[c][i].thing = cmd[c].contexts[i]
  BY <1>1, <1>2 DEF IInv, CInv, LookedInv
<1> QED
  BY <1>1, <1>2, <1>3, ContextsDiffer

LEMMA InitOInv == Init => \A c \in Clients : OInv(c)
<1> SUFFICES ASSUME Init, NEW c \in Clients PROVE OInv(c)
  OBVIOUS
<1>1. cmd[c] \in AllCommands /\ pending = {} /\ imported = {} /\ open[c] = <<>>
      /\ data[c] = Null /\ config[c] = Null /\ pc[c] \in {"repo", "enter"}
  BY DEF Init
<1>2. Len(open[c]) = 0 /\ Len(cmd[c].contexts) \in Nat /\ 1 .. Len(open[c]) = {}
  BY <1>1, ContextTypes
<1>3. LookedInv(c)
  BY <1>1, <1>2 DEF LookedInv
<1>4. DelayedInv(c) /\ ImportInv(c)
  BY <1>1 DEF DelayedInv, ImportInv
<1>5. ShieldInv(c)
  BY <1>2, Zenon DEF ShieldInv
<1> QED
  BY <1>3, <1>4, <1>5 DEF OInv

-----------------------------------------------------------------------------
\* A step of another process, as c sees it.
ServerAsSeen(c) ==
    /\ \A r \in pending' : r[1] = c => r \in pending
    /\ c \in imported' => c \in imported
    /\ disturbed[c] => disturbed'[c]
    /\ start[c] # Null /\ settings' # settings => disturbed'[c]
    /\ unanswered'[c] = unanswered[c]

MemoryAsSeen(c) ==
    /\ UNCHANGED cmd
    /\ pc'[c] = pc[c] /\ data'[c] = data[c] /\ config'[c] = config[c]
    /\ open'[c] = open[c] /\ start'[c] = start[c]

LEMMA SeenInv ==
    ASSUME IInv, NEW c \in Clients, OInv(c), ServerAsSeen(c), MemoryAsSeen(c)
    PROVE  OInv(c)'
<1>1. LookedInv(c)'
  BY DEF OInv, LookedInv, MemoryAsSeen
<1>2. DelayedInv(c)'
  BY DEF OInv, DelayedInv, MemoryAsSeen, ServerAsSeen
<1>3. ShieldInv(c)'
  BY DEF OInv, ShieldInv, MemoryAsSeen, ServerAsSeen
<1>4. ImportInv(c)'
  BY DEF OInv, ImportInv, Contexts, MemoryAsSeen, ServerAsSeen
<1> QED
  BY <1>1, <1>2, <1>3, <1>4 DEF OInv

LEMMA ServedAsSeen ==
    ASSUME IInv, NEW c \in Clients, NEW d \in Clients, c # d, NEW t, NEW v, Serve(d, t, v)
    PROVE  /\ c \in imported' => c \in imported
           /\ disturbed[c] => disturbed'[c]
           /\ start[c] # Null /\ settings' # settings => disturbed'[c]
BY DEF Serve

LEMMA RequestAsSeen ==
    ASSUME IInv, NEW c \in Clients, NEW d \in Clients, c # d, NEW t, NEW v,
           Answered(d, t, v) \/ Refused \/ Unanswered(d, t, v)
    PROVE  ServerAsSeen(c)
<1>1. CASE Answered(d, t, v)
  BY <1>1, ServedAsSeen DEF Answered, ServerAsSeen
<1>2. CASE Refused
  BY <1>2 DEF Refused, serverVars, ServerAsSeen
<1>3. CASE Unanswered(d, t, v)
  <2>1. unanswered'[c] = unanswered[c]
    BY <1>3 DEF Unanswered, IInv, ServerTypes
  <2>2. CASE Serve(d, t, v) /\ UNCHANGED pending
    BY <2>1, <2>2, ServedAsSeen DEF ServerAsSeen
  <2>3. CASE UNCHANGED serverVars
    BY <2>1, <2>3 DEF serverVars, ServerAsSeen
  <2>4. CASE pending' = pending \cup {<<d, t, v>>} /\ UNCHANGED <<settings, disturbed, imported>>
    BY <2>1, <2>4 DEF ServerAsSeen
  <2> QED
    BY <1>3, <2>2, <2>3, <2>4 DEF Unanswered
<1> QED
  BY <1>1, <1>2, <1>3

\* The steps of another process that make no request for an effect.
Silent(d) ==
    \/ Fetch(d) \/ ReadRepo(d) \/ ReadConfig(d) \/ ReadKey(d) \/ ReadBranch(d)
    \/ EndUpdate(d) \/ EndCheckout(d) \/ ReadHead(d) \/ Activities(d) \/ Poll(d) \/ Kill(d)

LEMMA SilentServer ==
    ASSUME NEW d \in Clients, Silent(d)
    PROVE  UNCHANGED <<original, cmd, unanswered, serverVars>>
<1>1. CASE Fetch(d) \/ ReadRepo(d) \/ ReadConfig(d) \/ ReadKey(d) \/ ReadBranch(d)
  BY <1>1 DEF Fetch, ReadRepo, ReadConfig, ReadKey, ReadBranch
<1>2. CASE EndUpdate(d) \/ EndCheckout(d) \/ ReadHead(d) \/ Activities(d) \/ Poll(d) \/ Kill(d)
  BY <1>2 DEF EndUpdate, EndCheckout, ReadHead, Activities, Poll, Kill
<1> QED
  BY <1>1, <1>2 DEF Silent

LEMMA MemoryOfOthers ==
    ASSUME IInv, NEW c \in Clients, NEW d \in Clients, c # d, Step(d) \/ Kill(d)
    PROVE  MemoryAsSeen(c)
<1> USE DEF MemoryAsSeen, IInv, ClientTypes, Goto
<1>1. CASE Fetch(d)
  <2>1. CASE data' = [data EXCEPT ![d] = settings]
    BY <1>1, <2>1 DEF Fetch, Fails, End, Raise
  <2> QED
    BY <1>1 DEF Fetch, Fails, End, Raise
<1>2. CASE ReadRepo(d)
  BY <1>2 DEF ReadRepo
<1>3. CASE ReadConfig(d)
  BY <1>3 DEF ReadConfig
<1>4. CASE ReadKey(d)
  <2>1. config'[c] = config[c]
    BY <1>4 DEF ReadKey
  <2> QED
    BY <1>4, <2>1 DEF ReadKey
<1>5. CASE ReadBranch(d)
  BY <1>5 DEF ReadBranch, Entered
<1>6. CASE SetTemporary(d)
  BY <1>6 DEF SetTemporary, Unreadable, Wiped, Known, Entered
<1>7. CASE Body(d)
  BY <1>7 DEF Body, Unreadable, Wiped
<1>8. CASE Revert(d)
  BY <1>8 DEF Revert, Reverted, RevertFailed, Unreadable, Wiped, Known
<1>9. CASE EndUpdate(d)
  BY <1>9 DEF EndUpdate, End
<1>10. CASE EndCheckout(d)
  BY <1>10 DEF EndCheckout, End, Wiped
<1>11. CASE ReadHead(d)
  BY <1>11 DEF ReadHead, End
<1>12. CASE Activities(d)
  BY <1>12 DEF Activities, Fails, End
<1>13. CASE Poll(d)
  BY <1>13 DEF Poll, Fails, End
<1>14. CASE Kill(d)
  BY <1>14 DEF Kill, End
<1> QED
  BY <1>1, <1>2, <1>3, <1>4, <1>5, <1>6, <1>7, <1>8, <1>9, <1>10, <1>11, <1>12, <1>13, <1>14 DEF Step

LEMMA OthersInv ==
    ASSUME IInv, NEW c \in Clients, OInv(c), NEW d \in Clients, c # d, Step(d) \/ Kill(d)
    PROVE  OInv(c)'
<1>1. MemoryAsSeen(c)
  BY MemoryOfOthers
<1>2. ServerAsSeen(c)
  <2>1. CASE Silent(d)
    BY <2>1, SilentServer DEF ServerAsSeen, serverVars
  <2>2. CASE SetTemporary(d)
    <3>1. \E t, v : Answered(d, t, v) \/ Refused \/ Unanswered(d, t, v)
      BY <2>2 DEF SetTemporary, Unreadable
    <3> QED
      BY <3>1, RequestAsSeen
  <2>3. CASE Body(d)
    <3>1. \E t, v : Answered(d, t, v) \/ Refused \/ Unanswered(d, t, v)
      BY <2>3 DEF Body, Unreadable
    <3> QED
      BY <3>1, RequestAsSeen
  <2>4. CASE Revert(d)
    <3>1. \E t, v : Answered(d, t, v) \/ Refused \/ Unanswered(d, t, v)
      BY <2>4 DEF Revert, Reverted, RevertFailed, Unreadable
    <3> QED
      BY <3>1, RequestAsSeen
  <2> QED
    BY <2>1, <2>2, <2>3, <2>4 DEF Step, Silent
<1> QED
  BY <1>1, <1>2, SeenInv

-----------------------------------------------------------------------------
\* A step of c without a request for an effect: what matters is that contexts
\* are only left, that c does not come back, and that it has looked.
LEMMA QuietInv ==
    ASSUME IInv, NEW c \in Clients, OInv(c), UNCHANGED <<cmd, unanswered, serverVars>>,
           LookedInv(c)', pc'[c] \in Ahead => pc[c] \in Ahead,
           start'[c] # start[c] => open'[c] = <<>>,
           \A i \in 1 .. Len(open'[c]) : open'[c][i].thing \in Keys =>
              \E j \in 1 .. Len(open[c]) : open[c][j].thing = open'[c][i].thing
    PROVE  OInv(c)'
<1>1. DelayedInv(c)'
  BY DEF OInv, DelayedInv, serverVars
<1>2. ShieldInv(c)'
  <2>1. CASE open'[c] = <<>>
    <3>1. Len(open'[c]) = 0
      BY <2>1
    <3>2. \A i \in 1 .. Len(open'[c]) : FALSE
      BY <3>1
    <3> QED
      BY <3>2, Zenon DEF ShieldInv
  <2>2. CASE start'[c] = start[c]
    BY <2>2 DEF OInv, ShieldInv, serverVars
  <2> QED
    BY <2>1, <2>2
<1>3. ImportInv(c)'
  BY DEF OInv, ImportInv, Contexts, serverVars
<1> QED
  BY <1>1, <1>2, <1>3 DEF OInv

\* The same, for a step that changes no context.
LEMMA StillInv ==
    ASSUME IInv, NEW c \in Clients, OInv(c), UNCHANGED <<cmd, unanswered, serverVars, open>>,
           LookedInv(c)', pc'[c] \in Ahead => pc[c] \in Ahead, UNCHANGED start
    PROVE  OInv(c)'
BY QuietInv

LEMMA EndedInv ==
    ASSUME IInv, NEW c \in Clients, OInv(c), NEW r, End(c, r),
           UNCHANGED <<cmd, unanswered, serverVars, start>>
    PROVE  OInv(c)'
<1>1. pc'[c] = "done" /\ data'[c] = Null /\ config'[c] = Null /\ open'[c] = <<>>
  BY DEF End, Goto, IInv, ClientTypes
<1>2. Len(open'[c]) = 0 /\ Len(cmd[c].contexts) \in Nat
  BY <1>1, OpenThings DEF OInv
<1>3. LookedInv(c)'
  BY <1>1, <1>2 DEF LookedInv
<1>4. \A i \in 1 .. Len(open'[c]) : FALSE
  BY <1>2
<1> QED
  BY <1>1, <1>3, <1>4, QuietInv DEF Ahead

\* Leaving the innermost context without a request.
LEMMA LeftLooked ==
    ASSUME IInv, NEW c \in Clients, OInv(c), open[c] # <<>>,
           open' = [open EXCEPT ![c] = Outer(@)], UNCHANGED <<cmd, start>>, pc'[c] = "leave"
    PROVE  /\ LookedInv(c)'
           /\ \A i \in 1 .. Len(open'[c]) : i \in 1 .. Len(open[c]) - 1 /\ open'[c][i] = open[c][i]
<1>1. open[c] \in Opens /\ Len(open[c]) \in Nat /\ Len(open[c]) > 0
  BY OpenLength
<1>2. open'[c] = Outer(open[c])
  BY DEF IInv, ClientTypes
<1>3. /\ Len(open'[c]) = Len(open[c]) - 1
      /\ \A i \in 1 .. Len(open[c]) - 1 : open'[c][i] = open[c][i]
  BY <1>1, <1>2, OuterOf DEF Opens
<1>4. start[c] # Null /\ Len(open[c]) <= Len(cmd[c].contexts)
  BY DEF OInv, LookedInv
<1>5. Len(cmd[c].contexts) \in Nat
  BY OpenThings DEF OInv
<1>6. LookedInv(c)'
  BY <1>1, <1>3, <1>4, <1>5 DEF LookedInv
<1> QED
  BY <1>1, <1>3, <1>6

LEMMA LeftInv ==
    ASSUME IInv, NEW c \in Clients, OInv(c), open[c] # <<>>,
           open' = [open EXCEPT ![c] = Outer(@)], pc'[c] = "leave",
           UNCHANGED <<cmd, start, unanswered, serverVars>>
    PROVE  OInv(c)'
<1>1. Len(open[c]) \in Nat
  BY OpenLength
<1>2. /\ LookedInv(c)'
      /\ \A i \in 1 .. Len(open'[c]) : i \in 1 .. Len(open[c]) - 1 /\ open'[c][i] = open[c][i]
  BY LeftLooked
<1>3. \A i \in 1 .. Len(open'[c]) : i \in 1 .. Len(open[c]) /\ open'[c][i] = open[c][i]
  BY <1>1, <1>2
<1>4. pc'[c] \notin Ahead
  BY DEF Ahead
<1> QED
  BY <1>2, <1>3, <1>4, QuietInv

LEMMA FetchOInv ==
    ASSUME IInv, NEW c \in Clients, OInv(c), Fetch(c)
    PROVE  OInv(c)'
<1>1. UNCHANGED <<cmd, unanswered, serverVars>>
  BY DEF Fetch
<1>2. CASE /\ data' = [data EXCEPT ![c] = settings]
           /\ start' = [start EXCEPT ![c] = IF @ = Null THEN settings ELSE @]
           /\ UNCHANGED <<pc, config, old, open, failed, result>>
  <2>1. /\ start'[c] = IF start[c] = Null THEN settings ELSE start[c]
        /\ data'[c] = settings
    BY <1>2 DEF IInv, ClientTypes
  <2>2. LookedInv(c)'
    BY <1>1, <1>2, <2>1 DEF OInv, LookedInv
  <2>3. start'[c] # start[c] => open'[c] = <<>>
    BY <1>2, <2>1 DEF OInv, LookedInv
  <2> QED
    BY <1>1, <1>2, <2>2, <2>3, QuietInv
<1>3. CASE Fails(c) /\ UNCHANGED start
  BY <1>1, <1>3, EndedInv DEF Fails
<1>4. CASE /\ Goto(c, "leave")
           /\ open' = [open EXCEPT ![c] = IF pc[c] = "leave" THEN Outer(@) ELSE @]
           /\ UNCHANGED <<data, config, start>>
  <2>1. pc'[c] = "leave"
    BY <1>4 DEF Goto, IInv, ClientTypes
  <2>2. CASE open' = open
    BY <1>1, <1>4, <2>1, <2>2, StillInv DEF OInv, LookedInv, Ahead
  <2>3. CASE open[c] # <<>> /\ open' = [open EXCEPT ![c] = Outer(@)]
    BY <1>1, <1>4, <2>1, <2>3, LeftInv
  <2>4. pc[c] = "leave" => open[c] # <<>>
    BY DEF Fetch, Missing, Needs
  <2>5. pc[c] # "leave" => open' = open
    BY <1>4 DEF IInv, ClientTypes
  <2> QED
    BY <1>4, <2>2, <2>3, <2>4, <2>5
<1> QED
  BY <1>2, <1>3, <1>4 DEF Fetch

\* Entering one more context: the option of it is set, as are those before.
LEMMA EnteredOInv ==
    ASSUME IInv, NEW c \in Clients, OInv(c), pc[c] \in {"enter", "set"}, start[c] # Null,
           UNCHANGED <<cmd, start>>, NEW v \in V, Sound(Entering(c), v),
           Entered(c, v), Goto(c, NextContext(c, Len(open'[c])))
    PROVE  /\ LookedInv(c)'
           /\ pc'[c] \in Ahead
           /\ \A i \in 1 .. Len(open'[c]) :
                 \/ open'[c][i].thing = Entering(c)
                 \/ i \in 1 .. Len(open[c]) /\ open'[c][i] = open[c][i]
<1> DEFINE item == [thing |-> Entering(c), old |-> v]
<1>1. Entering(c) \in Things /\ Len(open[c]) + 1 \in 1 .. Len(cmd[c].contexts)
  BY EnteringTypes DEF IInv
<1>2. open[c] \in Opens /\ Len(open[c]) \in Nat /\ item \in [thing: Things, old: V]
  BY <1>1, OpenLength
<1>3. open'[c] = Append(open[c], item) /\ item.thing = Entering(c)
  BY DEF Entered, IInv, ClientTypes
<1> HIDE DEF item
<1>4. /\ Len(open'[c]) = Len(open[c]) + 1
      /\ open'[c][Len(open[c]) + 1] = item
      /\ \A i \in 1 .. Len(open[c]) : open'[c][i] = open[c][i]
  BY <1>2, <1>3 DEF Opens
<1>5. \A i \in 1 .. Len(open'[c]) :
         \/ open'[c][i].thing = Entering(c)
         \/ i \in 1 .. Len(open[c]) /\ open'[c][i] = open[c][i]
  BY <1>2, <1>3, <1>4
<1>6. pc'[c] = NextContext(c, Len(open'[c]))
  BY DEF Goto, IInv, ClientTypes
<1>7. LookedInv(c)'
  BY <1>1, <1>2, <1>4, <1>6 DEF NextContext, LookedInv
<1> QED
  BY <1>5, <1>6, <1>7 DEF NextContext, Ahead

LEMMA ReadBranchOInv ==
    ASSUME IInv, NEW c \in Clients, OInv(c), ReadBranch(c)
    PROVE  OInv(c)'
<1> DEFINE active == data[c]["branch"]
<1>1. UNCHANGED <<cmd, unanswered, serverVars, start>> /\ pc[c] = "enter"
      /\ Entering(c) = "branch"
  BY DEF ReadBranch
<1>2. data[c] # Null
  <2>1. ~Missing(c) /\ Needs(c, "branch")
    BY <1>1 DEF ReadBranch, Needs
  <2> QED
    BY <2>1 DEF Missing, Cached
<1>3. start[c] # Null
  BY <1>2 DEF OInv, LookedInv
<1>4. active \in V /\ Sound(Entering(c), active)
  <2>1. CInv(c)
    BY DEF IInv
  <2>2. Sound("branch", active)
    BY <1>2, <2>1 DEF CInv
  <2> QED
    BY <1>1, <2>2 DEF Sound
<1> HIDE DEF active
<1>5. CASE Entered(c, active) /\ Goto(c, NextContext(c, Len(open'[c])))
  <2>1. /\ LookedInv(c)'
        /\ \A i \in 1 .. Len(open'[c]) :
              \/ open'[c][i].thing = "branch"
              \/ i \in 1 .. Len(open[c]) /\ open'[c][i] = open[c][i]
    BY <1>1, <1>3, <1>4, <1>5, EnteredOInv
  <2>2. pc[c] \in Ahead
    BY <1>1 DEF Ahead
  <2>3. "branch" \notin Keys
    OBVIOUS
  <2>4. \A i \in 1 .. Len(open'[c]) : open'[c][i].thing \in Keys =>
           \E j \in 1 .. Len(open[c]) : open[c][j].thing = open'[c][i].thing
    BY <2>1, <2>3, Zenon
  <2> QED
    BY <1>1, <2>1, <2>2, <2>4, QuietInv
<1>6. CASE Goto(c, "set") /\ UNCHANGED open
  <2>1. pc'[c] = "set"
    BY <1>6 DEF Goto, IInv, ClientTypes
  <2>2. LookedInv(c)'
    BY <1>1, <1>3, <1>6, <2>1 DEF ReadBranch, OInv, LookedInv
  <2> QED
    BY <1>1, <1>6, <2>2, StillInv DEF Ahead
<1> QED
  BY <1>5, <1>6 DEF ReadBranch, active

\* The other steps without a request for an effect.
LEMMA SilentOInv ==
    ASSUME IInv, NEW c \in Clients, OInv(c), Silent(c)
    PROVE  OInv(c)'
<1>1. UNCHANGED <<cmd, unanswered, serverVars>>
  BY SilentServer
<1>2. CASE Fetch(c)
  BY <1>2, FetchOInv
<1>3. CASE ReadRepo(c)
  <2>1. CASE pc'[c] = "body"
    <3>1. Len(cmd[c].contexts) = 0
      BY <1>3, <2>1 DEF ReadRepo, Goto, NextContext, IInv, ClientTypes
    <3>2. LookedInv(c)'
      BY <1>3, <2>1, <3>1 DEF ReadRepo, OInv, LookedInv, IInv, CInv
    <3> QED
      BY <1>1, <1>3, <3>2, StillInv DEF ReadRepo, Ahead
  <2>2. CASE pc'[c] = "enter"
    <3>1. LookedInv(c)'
      BY <1>3, <2>2 DEF ReadRepo, OInv, LookedInv
    <3> QED
      BY <1>1, <1>3, <3>1, StillInv DEF ReadRepo, Ahead
  <2> QED
    BY <1>3, <2>1, <2>2 DEF ReadRepo, Goto, NextContext, IInv, ClientTypes
<1>4. CASE ReadConfig(c)
  <2>1. Entering(c) \in Things /\ Cached(c, Entering(c))
    BY <1>4, EnteringTypes DEF ReadConfig, Missing, Needs, IInv
  <2>2. start[c] # Null
    BY <1>4, <2>1 DEF ReadConfig, Cached, OInv, LookedInv
  <2>3. pc'[c] \in {"key", "set"}
    BY <1>4 DEF ReadConfig, Goto, IInv, ClientTypes
  <2>4. LookedInv(c)'
    BY <1>4, <2>2, <2>3 DEF ReadConfig, OInv, LookedInv
  <2> QED
    BY <1>1, <1>4, <2>4, StillInv DEF ReadConfig, Ahead
<1>5. CASE ReadKey(c)
  <2>1. pc'[c] \in {"set", "leave"} /\ start[c] # Null
    BY <1>5 DEF ReadKey, Goto, IInv, ClientTypes, OInv, LookedInv
  <2>2. LookedInv(c)'
    BY <1>5, <2>1 DEF ReadKey, OInv, LookedInv
  <2> QED
    BY <1>1, <1>5, <2>2, StillInv DEF ReadKey, Ahead
<1>6. CASE ReadBranch(c)
  BY <1>6, ReadBranchOInv
<1>7. CASE EndUpdate(c) \/ ReadHead(c) \/ Poll(c) \/ Kill(c)
  BY <1>1, <1>7, EndedInv DEF EndUpdate, ReadHead, Poll, Kill, Fails
<1>8. CASE EndCheckout(c)
  <2>1. CASE Fails(c)
    BY <1>1, <1>8, <2>1, EndedInv DEF EndCheckout, Fails
  <2>2. CASE Wiped(c) /\ pc'[c] \notin Ahead /\ UNCHANGED open
    <3>1. data'[c] = Null /\ config'[c] = Null
      BY <2>2 DEF Wiped, IInv, ClientTypes
    <3>2. LookedInv(c)'
      BY <1>1, <1>8, <2>2, <3>1 DEF EndCheckout, OInv, LookedInv, Ahead
    <3> QED
      BY <1>1, <1>8, <2>2, <3>2, StillInv DEF EndCheckout
  <2> QED
    BY <1>8, <2>1, <2>2 DEF EndCheckout, Fails, Goto, IInv, ClientTypes, Ahead
<1>9. CASE Activities(c)
  <2>1. CASE Fails(c)
    BY <1>1, <1>9, <2>1, EndedInv DEF Activities, Fails
  <2>2. CASE Goto(c, "poll") /\ UNCHANGED <<data, config, open>>
    <3>1. pc'[c] = "poll"
      BY <2>2 DEF Goto, IInv, ClientTypes
    <3>2. LookedInv(c)'
      BY <1>1, <1>9, <2>2, <3>1 DEF Activities, OInv, LookedInv
    <3> QED
      BY <1>1, <1>9, <2>2, <3>1, <3>2, StillInv DEF Activities, Ahead
  <2> QED
    BY <1>9, <2>1, <2>2 DEF Activities
<1> QED
  BY <1>2, <1>3, <1>4, <1>5, <1>6, <1>7, <1>8, <1>9 DEF Silent

-----------------------------------------------------------------------------
\* A request for an effect, by c itself.  The branch and a pull import nothing
\* when an option of c is set; delayed, they are among the unanswered.
LEMMA OwnImport ==
    ASSUME IInv, NEW c \in Clients, OInv(c), UNCHANGED cmd, start[c] # Null,
           NEW t, NEW v, Answered(c, t, v) \/ Refused \/ Unanswered(c, t, v),
           t \in {"branch", "pull"} /\ Contexts(c) \cap Keys # {} =>
              \/ disturbed[c]
              \/ \E k \in Keys : settings[k] = "X"
              \/ unanswered[c] \cap {"branch", "pull"} # {}
    PROVE  /\ ImportInv(c)'
           /\ disturbed'[c] = disturbed[c] /\ unanswered[c] \subseteq unanswered'[c]
<1>1. Contexts(c)' = Contexts(c)
  BY DEF Contexts
<1>2. ASSUME Serve(c, t, v) \/ UNCHANGED <<settings, disturbed, imported>>
      PROVE  disturbed'[c] = disturbed[c]
  BY <1>2 DEF Serve, IInv, ServerTypes
<1>3. disturbed'[c] = disturbed[c]
  BY <1>2 DEF Answered, Refused, Unanswered, serverVars
<1>4. unanswered[c] \subseteq unanswered'[c]
  BY DEF Answered, Refused, Unanswered, IInv, ServerTypes
<1>5. c \in imported' /\ c \notin imported => t \in {"branch", "pull"} /\ \A k \in Keys : settings[k] # "X"
  BY DEF Answered, Refused, Unanswered, serverVars, Serve, Imports
<1>6. ImportInv(c)'
  <2> SUFFICES ASSUME c \in imported', Contexts(c) \cap Keys # {}
               PROVE  disturbed'[c] \/ unanswered'[c] \cap {"branch", "pull"} # {}
    BY <1>1, Zenon DEF ImportInv
  <2>1. disturbed[c] \/ unanswered[c] \cap {"branch", "pull"} # {}
    BY <1>5, Zenon DEF OInv, ImportInv
  <2> QED
    BY <1>3, <1>4, <2>1
<1> QED
  BY <1>3, <1>4, <1>6

\* What a request of c leaves of the delayed ones, and of the options.
LEMMA OwnPending ==
    ASSUME IInv, NEW c \in Clients, NEW t, NEW v,
           Answered(c, t, v) \/ Refused \/ Unanswered(c, t, v)
    PROVE  /\ \A r \in pending' : r \in pending \/ (r = <<c, t, v>> /\ t \in unanswered'[c])
           /\ \A k \in Keys : settings'[k] = settings[k] \/ (k = t /\ settings'[k] = v)
           /\ Answered(c, t, v) => UNCHANGED pending
           /\ Answered(c, t, v) /\ t \in Keys => settings'[t] = v
<1>1. settings \in Maps
  BY SettingsAreMaps DEF IInv, ServerTypes
<1>2. \A r \in pending' : r \in pending \/ (r = <<c, t, v>> /\ t \in unanswered'[c])
  BY DEF Answered, Refused, Unanswered, serverVars, IInv, ServerTypes
<1>3. \A k \in Keys : settings'[k] = settings[k] \/ (k = t /\ settings'[k] = v)
  BY <1>1 DEF Answered, Refused, Unanswered, serverVars, Serve, Maps
<1>4. Answered(c, t, v) => UNCHANGED pending
  BY DEF Answered
<1>5. Answered(c, t, v) /\ t \in Keys => settings'[t] = v
  BY <1>1 DEF Answered, Serve, Maps
<1> QED
  BY <1>2, <1>3, <1>4, <1>5

LEMMA SetTemporaryOInv ==
    ASSUME IInv, NEW c \in Clients, OInv(c), SetTemporary(c)
    PROVE  OInv(c)'
<1> DEFINE t == Entering(c)
           v == Temporary(c, t)
<1>1. /\ pc[c] = "set" /\ start[c] # Null /\ pc[c] \in Ahead
      /\ UNCHANGED <<cmd, start>> /\ CInv(c) /\ Sound(t, old[c])
  BY DEF SetTemporary, OInv, LookedInv, Ahead, IInv, CInv
<1>2. t \in Things /\ Len(open[c]) + 1 \in 1 .. Len(cmd[c].contexts)
  BY <1>1, EnteringTypes DEF IInv
<1>3. t \in Keys => v = "X"
  BY DEF Temporary
<1>4. old[c] \in V
  BY <1>1, <1>2 DEF Sound, IInv, Constant, Settings
<1>5. cmd[c] \in AllCommands /\ t = cmd[c].contexts[Len(open[c]) + 1]
  BY DEF IInv, Constant, Entering
<1>6. \A i \in 1 .. Len(open[c]) : open[c][i].thing # t
  BY <1>2, <1>5, OpenThings, ContextsDiffer DEF OInv
<1>7. t = "branch" => disturbed[c] \/ \E k \in Keys : settings[k] = "X"
  <2> SUFFICES ASSUME t = "branch", ~disturbed[c] PROVE \E k \in Keys : settings[k] = "X"
    OBVIOUS
  <2>1. Len(open[c]) + 1 = 2 /\ cmd[c].contexts[1] \in Keys
    BY <1>2, <1>5, ContextsDiffer
  <2>2. 1 \in 1 .. Len(open[c])
    BY <2>1, OpenLength
  <2>3. open[c][1].thing \in Keys
    BY <2>1, <2>2, OpenThings DEF OInv
  <2> QED
    BY <1>1, <2>2, <2>3 DEF OInv, ShieldInv
<1>8. Answered(c, t, v) \/ Refused \/ Unanswered(c, t, v)
  BY DEF SetTemporary, Unreadable
<1>9. t # "pull"
  BY <1>2
<1> HIDE DEF t, v
<1>10. /\ ImportInv(c)'
       /\ disturbed'[c] = disturbed[c] /\ unanswered[c] \subseteq unanswered'[c]
  BY <1>1, <1>7, <1>8, <1>9, OwnImport
<1>11. /\ \A r \in pending' : r \in pending \/ (r = <<c, t, v>> /\ t \in unanswered'[c])
       /\ \A k \in Keys : settings'[k] = settings[k] \/ (k = t /\ settings'[k] = v)
       /\ Answered(c, t, v) => UNCHANGED pending
       /\ Answered(c, t, v) /\ t \in Keys => settings'[t] = v
  BY <1>8, OwnPending
<1>12. \A r \in pending : r[1] # c
  BY <1>1 DEF OInv, DelayedInv
<1>13. CASE /\ Answered(c, t, v) /\ Entered(c, old[c])
            /\ Goto(c, NextContext(c, Len(open'[c])))
  <2>1. /\ LookedInv(c)'
        /\ \A i \in 1 .. Len(open'[c]) :
              \/ open'[c][i].thing = t
              \/ i \in 1 .. Len(open[c]) /\ open'[c][i] = open[c][i]
    BY <1>1, <1>4, <1>13, EnteredOInv DEF t
  <2>2. DelayedInv(c)'
    BY <1>11, <1>12, <1>13 DEF DelayedInv
  <2>3. ShieldInv(c)'
    <3> SUFFICES ASSUME ~disturbed[c], NEW i \in 1 .. Len(open'[c]), open'[c][i].thing \in Keys
                 PROVE  settings'[open'[c][i].thing] = "X"
      BY <1>10 DEF ShieldInv
    <3>1. CASE open'[c][i].thing = t
      BY <1>3, <1>11, <1>13, <3>1
    <3>2. CASE i \in 1 .. Len(open[c]) /\ open'[c][i] = open[c][i]
      <4>1. settings[open[c][i].thing] = "X"
        BY <1>1, <3>2 DEF OInv, ShieldInv
      <4> QED
        BY <1>6, <1>11, <3>2, <4>1
    <3> QED
      BY <2>1, <3>1, <3>2
  <2> QED
    BY <1>10, <2>1, <2>2, <2>3 DEF OInv
<1>14. CASE Goto(c, "leave") /\ (Wiped(c) \/ UNCHANGED <<data, config>>) /\ UNCHANGED open
  <2>1. pc'[c] = "leave"
    BY <1>14 DEF Goto, IInv, ClientTypes
  <2>2. LookedInv(c)'
    BY <1>1, <1>14, <2>1 DEF OInv, LookedInv
  <2>3. DelayedInv(c)'
    BY <1>6, <1>11, <1>12, <1>14, <2>1 DEF DelayedInv, Ahead
  <2>4. ShieldInv(c)'
    BY <1>1, <1>6, <1>10, <1>11, <1>14 DEF OInv, ShieldInv
  <2> QED
    BY <1>10, <2>2, <2>3, <2>4 DEF OInv
<1> QED
  BY <1>13, <1>14 DEF SetTemporary, Unreadable, t, v

LEMMA BodyOInv ==
    ASSUME IInv, NEW c \in Clients, OInv(c), Body(c)
    PROVE  OInv(c)'
<1> DEFINE t == IF cmd[c].name = "checkout" THEN "branch" ELSE "pull"
           v == cmd[c].branch
<1>1. /\ pc[c] = "body" /\ pc[c] \in Ahead /\ Len(open[c]) = Len(cmd[c].contexts)
      /\ UNCHANGED <<cmd, open, start>> /\ cmd[c] \in AllCommands
  BY DEF Body, OInv, LookedInv, Ahead, IInv, Constant
<1>2. t \notin Keys
  OBVIOUS
<1>3. Answered(c, t, v) \/ Refused \/ Unanswered(c, t, v)
  BY DEF Body, Unreadable
<1>4. start[c] # Null
  <2>1. CASE cmd[c].name = "checkout"
    <3>1. Needs(c, "branch") /\ ~Missing(c)
      BY <1>1, <2>1 DEF Body, Needs
    <3>2. data[c] # Null
      BY <3>1 DEF Missing, Cached
    <3> QED
      BY <3>2 DEF OInv, LookedInv
  <2>2. CASE cmd[c].name # "checkout"
    <3>1. cmd[c].contexts = <<"VCS_NO_IMPORT", "branch">>
      BY <1>1, <2>2 DEF AllCommands
    <3>2. Len(open[c]) = 2
      BY <1>1, <3>1
    <3>3. open[c] # <<>>
      BY <3>2
    <3> QED
      BY <3>3 DEF OInv, LookedInv
  <2> QED
    BY <2>1, <2>2
<1>5. Contexts(c) \cap Keys # {} => disturbed[c] \/ \E k \in Keys : settings[k] = "X"
  <2> SUFFICES ASSUME NEW i \in 1 .. Len(cmd[c].contexts), cmd[c].contexts[i] \in Keys,
                      ~disturbed[c]
               PROVE  \E k \in Keys : settings[k] = "X"
    BY DEF Contexts
  <2>1. i \in 1 .. Len(open[c]) /\ open[c][i].thing \in Keys
    BY <1>1, OpenThings DEF OInv
  <2> QED
    BY <1>4, <2>1 DEF OInv, ShieldInv
<1>6. pc'[c] = "leave"
  BY DEF Body, Goto, IInv, ClientTypes
<1>7. LookedInv(c)'
  BY <1>1, <1>4, <1>6 DEF OInv, LookedInv
<1> HIDE DEF t, v
<1>8. /\ ImportInv(c)'
      /\ disturbed'[c] = disturbed[c] /\ unanswered[c] \subseteq unanswered'[c]
  BY <1>1, <1>3, <1>4, <1>5, OwnImport
<1>9. /\ \A r \in pending' : r \in pending \/ (r = <<c, t, v>> /\ t \in unanswered'[c])
      /\ \A k \in Keys : settings'[k] = settings[k] \/ (k = t /\ settings'[k] = v)
  BY <1>3, OwnPending
<1>10. DelayedInv(c)'
  <2>1. \A r \in pending : r[1] # c
    BY <1>1 DEF OInv, DelayedInv
  <2> QED
    BY <1>1, <1>2, <1>6, <1>9, <2>1 DEF DelayedInv, Ahead
<1>11. ShieldInv(c)'
  BY <1>1, <1>2, <1>8, <1>9 DEF OInv, ShieldInv
<1> QED
  BY <1>7, <1>8, <1>10, <1>11 DEF OInv

LEMMA RevertOInv ==
    ASSUME IInv, NEW c \in Clients, OInv(c), Revert(c)
    PROVE  OInv(c)'
<1> DEFINE t == Top(c).thing
           v == Top(c).old
           n == Len(open[c])
<1>1. /\ pc[c] = "leave" /\ pc'[c] = "leave" /\ open[c] # <<>>
      /\ open' = [open EXCEPT ![c] = Outer(@)] /\ UNCHANGED <<cmd, start>>
  BY DEF Revert
<1>2. n \in Nat /\ n > 0 /\ n \in 1 .. n /\ t = open[c][n].thing
  BY <1>1, OpenLength DEF Top
<1>3. t \in Things /\ start[c] # Null
  BY <1>1, TopTypes DEF OInv, LookedInv
<1>4. /\ LookedInv(c)'
      /\ \A i \in 1 .. Len(open'[c]) : i \in 1 .. n - 1 /\ open'[c][i] = open[c][i]
  BY <1>1, LeftLooked
<1>5. \A i \in 1 .. n - 1 : i \in 1 .. n /\ open[c][i].thing # t
  <2>1. \A i, j \in 1 .. n : open[c][i].thing = open[c][j].thing => i = j
    BY OpenThings DEF OInv
  <2>2. \A i \in 1 .. n - 1 : i \in 1 .. n /\ i # n
    BY <1>2
  <2> HIDE DEF n
  <2> QED
    BY <1>2, <2>1, <2>2
<1>6. t = "branch" => disturbed[c] \/ \E k \in Keys : settings[k] = "X"
  <2> SUFFICES ASSUME t = "branch", ~disturbed[c] PROVE \E k \in Keys : settings[k] = "X"
    OBVIOUS
  <2>1. cmd[c] \in AllCommands /\ n \in 1 .. Len(cmd[c].contexts) /\ cmd[c].contexts[n] = "branch"
    BY <1>2, OpenThings DEF OInv, IInv, Constant
  <2>2. n = 2 /\ cmd[c].contexts[1] \in Keys
    BY <2>1, ContextsDiffer
  <2>3. 1 \in 1 .. n
    BY <2>2
  <2>4. open[c][1].thing \in Keys
    BY <2>2, <2>3, OpenThings DEF OInv
  <2> QED
    BY <1>3, <2>3, <2>4 DEF OInv, ShieldInv
<1>7. Answered(c, t, v) \/ Refused \/ Unanswered(c, t, v)
  BY DEF Revert, Reverted, RevertFailed, Unreadable
<1>8. t # "pull"
  BY <1>3
<1> HIDE DEF t, v, n
<1>9. /\ ImportInv(c)'
      /\ disturbed'[c] = disturbed[c] /\ unanswered[c] \subseteq unanswered'[c]
  BY <1>1, <1>3, <1>6, <1>7, <1>8, OwnImport
<1>10. /\ \A r \in pending' : r \in pending \/ (r = <<c, t, v>> /\ t \in unanswered'[c])
       /\ \A k \in Keys : settings'[k] = settings[k] \/ (k = t /\ settings'[k] = v)
  BY <1>7, OwnPending
<1>11. \A i \in 1 .. Len(open'[c]) :
          i \in 1 .. Len(open[c]) /\ open'[c][i] = open[c][i] /\ open'[c][i].thing # t
  BY <1>4, <1>5 DEF n
<1>12. DelayedInv(c)'
  <2> SUFFICES ASSUME NEW r \in pending', r[1] = c
               PROVE  /\ r[2] \in unanswered'[c]
                      /\ \A i \in 1 .. Len(open'[c]) : open'[c][i].thing \in Keys =>
                            open'[c][i].thing # r[2]
    BY <1>1 DEF DelayedInv, Ahead
  <2>1. CASE r \in pending
    BY <1>9, <1>11, <2>1 DEF OInv, DelayedInv
  <2>2. CASE r = <<c, t, v>> /\ t \in unanswered'[c]
    BY <1>11, <2>2
  <2> QED
    BY <1>10, <2>1, <2>2
<1>13. ShieldInv(c)'
  BY <1>1, <1>9, <1>10, <1>11 DEF OInv, ShieldInv
<1> QED
  BY <1>4, <1>9, <1>12, <1>13 DEF OInv

LEMMA ServeLateOInv ==
    ASSUME IInv, NEW c \in Clients, OInv(c), NEW r \in pending, ServeLate(r)
    PROVE  OInv(c)'
<1>1. r[1] \in Clients /\ r[2] \in Things \cup {"pull"} /\ r[3] \in V
  BY DEF IInv, ServerTypes
<1>2. Serve(r[1], r[2], r[3]) /\ pending' \subseteq pending /\ UNCHANGED <<cmd, clientVars>>
  BY DEF ServeLate
<1>3. MemoryAsSeen(c) /\ unanswered' = unanswered
  BY <1>2 DEF MemoryAsSeen, clientVars
<1>4. CASE r[1] # c
  <2>1. ServerAsSeen(c)
    BY <1>1, <1>2, <1>3, <1>4, ServedAsSeen DEF ServerAsSeen
  <2> QED
    BY <1>3, <2>1, SeenInv
<1>5. CASE r[1] = c
  <2>1. /\ r[2] \in unanswered[c]
        /\ \A i \in 1 .. Len(open[c]) : open[c][i].thing \in Keys => open[c][i].thing # r[2]
    BY <1>5 DEF OInv, DelayedInv
  <2>2. disturbed'[c] = disturbed[c]
    BY <1>2, <1>5 DEF Serve, IInv, ServerTypes
  <2>3. \A k \in Keys : k # r[2] => settings'[k] = settings[k]
    <3>1. settings \in Maps
      BY SettingsAreMaps DEF IInv, ServerTypes
    <3> QED
      BY <1>2, <3>1 DEF Serve, Maps
  <2>4. c \in imported' => c \in imported \/ r[2] \in {"branch", "pull"}
    BY <1>2, <1>5 DEF Serve
  <2>5. LookedInv(c)'
    BY <1>3 DEF OInv, LookedInv, MemoryAsSeen
  <2>6. DelayedInv(c)'
    BY <1>2, <1>3 DEF OInv, DelayedInv, MemoryAsSeen
  <2>7. ShieldInv(c)'
    BY <1>3, <2>1, <2>2, <2>3 DEF OInv, ShieldInv, MemoryAsSeen
  <2>8. ImportInv(c)'
    BY <1>3, <2>1, <2>2, <2>4 DEF OInv, ImportInv, Contexts, MemoryAsSeen
  <2> QED
    BY <2>5, <2>6, <2>7, <2>8 DEF OInv
<1> QED
  BY <1>4, <1>5

-----------------------------------------------------------------------------
LEMMA NextInv == Inv /\ [Next]_vars => Inv'
<1> SUFFICES ASSUME Inv, [Next]_vars, NEW c \in Clients PROVE OInv(c)'
  BY StepInv DEF Inv
<1>1. IInv /\ OInv(c)
  BY DEF Inv
<1>2. ASSUME NEW d \in Clients, Step(d) \/ Kill(d), d # c PROVE OInv(c)'
  BY <1>1, <1>2, OthersInv
<1>3. ASSUME Step(c) \/ Kill(c) PROVE OInv(c)'
  <2>1. Silent(c) \/ SetTemporary(c) \/ Body(c) \/ Revert(c)
    BY <1>3 DEF Step, Silent
  <2> QED
    BY <1>1, <2>1, SilentOInv, SetTemporaryOInv, BodyOInv, RevertOInv
<1>4. ASSUME NEW r \in pending, ServeLate(r) PROVE OInv(c)'
  BY <1>1, <1>4, ServeLateOInv
<1>5. CASE UNCHANGED vars
  BY <1>1, <1>5, SeenInv DEF vars, ServerAsSeen, MemoryAsSeen
<1> QED
  BY <1>2, <1>3, <1>4, <1>5 DEF Next

\* What the options are for (temporary_config and temporary_switched_branch of
\* sap/rest/gcts/sugar.py): however many commands run, fail or are killed, and
\* whenever their requests arrive, the server imports objects for a command that
\* asked it not to only if another process has changed the repository in the
\* meantime, or a branch switch or a pull of the command lost its answer.
THEOREM ImportsExplained == Spec => []NoUnwantedImport
<1>1. Init => Inv
  BY InitInv, InitOInv DEF Inv
<1>2. Inv => NoUnwantedImport
  BY DEF Inv, OInv, ImportInv, NoUnwantedImport
<1> QED
  BY <1>1, <1>2, NextInv, PTL DEF Spec

-----------------------------------------------------------------------------
(***************************************************************************)
(* OkMeansRestored and UpdateTellsWhatToRestore.                           *)
(***************************************************************************)
\* The command still ends with "ok" if nothing else goes wrong.
Clean(c) ==
    \/ pc[c] \in Ahead \cup {"head"}
    \/ pc[c] = "leave" /\ failed[c] = "no"
    \/ pc[c] = "done" /\ result[c] = "ok"

Updates(c) == cmd[c].name = "update_filesystem"
IsOpen(c, t) == \E i \in 1 .. Len(open[c]) : open[c][i].thing = t

\* What has been read is what was there when c first looked.
ReadInv(c) ==
    /\ \A i \in 1 .. Len(open[c]) : open[c][i].old = start[c][open[c][i].thing]
    /\ pc[c] = "set" => old[c] = start[c][Entering(c)]

\* Until the first context is left, the cache is what the repository has; an
\* option that is "absent" in it is asked for.
FreshInv(c) ==
    pc[c] \in Ahead =>
        /\ data[c] # Null => data[c]["branch"] = settings["branch"]
        /\ config[c] # Null => \A k \in Keys : config[c][k] \in {"absent", settings[k]}
        /\ config[c] = Null /\ data[c] # Null => \A k \in Keys : data[c][k] = settings[k]

\* The open contexts have their temporary values, all other things the old ones.
PlainInv(c) ==
    Clean(c) => \A t \in Contexts(c) :
        settings[t] = IF IsOpen(c, t) THEN Temporary(c, t) ELSE start[c][t]

\* What was changed and is not known to be put back can be told.
Told(c, t) ==
    \/ note[c][t] = start[c][t]
    \/ t \in Keys \cap unanswered[c] /\ note[c][t] = "none"
TellInv(c) ==
    Updates(c) =>
        /\ \A t \in Contexts(c) : settings[t] # start[c][t] => Told(c, t)
        /\ \A r \in pending : r[1] = c /\ r[2] \in Contexts(c) =>
              r[3] = start[c][r[2]] \/ Told(c, r[2])

\* What holds whatever others do.
AloneInv(c) ==
    /\ Clean(c) => \A r \in pending : r[1] # c
    /\ Updates(c) => \A r \in pending : r[1] = c => ~IsOpen(c, r[2])
    /\ pc[c] = "set" /\ Entering(c) = "branch" => note[c]["branch"] = old[c]
    /\ pc[c] \in Ahead => \A k \in Keys : IsOpen(c, k) \/ note[c][k] = "none"
    /\ Updates(c) => pc[c] \notin {"repo", "head", "activities", "poll"}
    /\ pc[c] \in {"head", "done"} => open[c] = <<>>
    /\ result[c] # "none" => pc[c] = "done"
    /\ Updates(c) /\ result[c] \in {"ok", "error"} => shown[c] = note[c]

RInv(c) ==
    /\ AloneInv(c)
    /\ Undisturbed(c) =>
          ReadInv(c) /\ FreshInv(c) /\ PlainInv(c) /\ TellInv(c)

RestoreInv == Inv /\ \A c \in Clients : RInv(c)

-----------------------------------------------------------------------------
USE NullAssumption

LEMMA ContextThings ==
    ASSUME IInv, NEW c \in Clients
    PROVE  /\ Contexts(c) \subseteq Things
           /\ ~Updates(c) => "branch" \notin Contexts(c)
           /\ cmd[c].name = "checkout" <=> ~Updates(c)
<1>1. cmd[c] \in AllCommands
  BY DEF IInv, Constant
<1>2. Contexts(c) \subseteq Things
  BY <1>1, ContextTypes DEF Contexts
<1>3. cmd[c].name = "checkout" <=> ~Updates(c)
  BY <1>1 DEF AllCommands, Updates
<1>4. ASSUME ~Updates(c) PROVE "branch" \notin Contexts(c)
  <2>1. cmd[c].contexts # <<"VCS_NO_IMPORT", "branch">>
        \/ cmd[c].contexts \in {<<>>, <<"VCS_NO_IMPORT">>, <<"VCS_BUFFER_ONLY">>,
                                <<"VCS_NO_IMPORT", "VCS_BUFFER_ONLY">>}
    BY <1>1, <1>4 DEF AllCommands, Updates
  <2>2. cmd[c].contexts \in {<<>>, <<"VCS_NO_IMPORT">>, <<"VCS_BUFFER_ONLY">>,
                             <<"VCS_NO_IMPORT", "VCS_BUFFER_ONLY">>}
    BY <1>1, <1>4 DEF AllCommands, Updates
  <2> DEFINE K == cmd[c].contexts
  <2>3. \A i \in 1 .. Len(K) : K[i] # "branch"
    <3>1. CASE K = <<>>
      BY <3>1
    <3>2. CASE K = <<"VCS_NO_IMPORT">>
      BY <3>2
    <3>3. CASE K = <<"VCS_BUFFER_ONLY">>
      BY <3>3
    <3>4. CASE K = <<"VCS_NO_IMPORT", "VCS_BUFFER_ONLY">>
      BY <3>4
    <3> QED
      BY <2>2, <3>1, <3>2, <3>3, <3>4
  <2> QED
    BY <2>3 DEF Contexts
<1> QED
  BY <1>2, <1>3, <1>4

\* The context being entered is one of the command that is not open.
LEMMA EnteringFacts ==
    ASSUME IInv, NEW c \in Clients, OInv(c), pc[c] \in {"enter", "key", "set"}
    PROVE  Entering(c) \in Contexts(c) /\ Entering(c) \in Things /\ ~IsOpen(c, Entering(c))
<1>1. Entering(c) \in Things /\ Len(open[c]) + 1 \in 1 .. Len(cmd[c].contexts)
  BY EnteringTypes DEF IInv
<1>2. cmd[c] \in AllCommands /\ Entering(c) = cmd[c].contexts[Len(open[c]) + 1]
  BY DEF IInv, Constant, Entering
<1>3. \A i \in 1 .. Len(open[c]) :
         i \in 1 .. Len(cmd[c].contexts) /\ open[c][i].thing = cmd[c].contexts[i]
         /\ i # Len(open[c]) + 1
  BY OpenThings DEF OInv
<1>4. ~IsOpen(c, Entering(c))
  BY <1>1, <1>2, <1>3, ContextsDiffer DEF IsOpen
<1> QED
  BY <1>1, <1>2, <1>4 DEF Contexts

LEMMA InitRInv == Init => \A c \in Clients : RInv(c)
<1> SUFFICES ASSUME Init, NEW c \in Clients PROVE RInv(c)
  OBVIOUS
<1>1. /\ cmd[c] \in AllCommands /\ pending = {} /\ start[c] = Null /\ open[c] = <<>>
      /\ pc[c] = (IF cmd[c].name = "checkout" THEN "repo" ELSE "enter")
      /\ note[c] = NoNotes /\ result[c] = "none"
  BY DEF Init
<1>2. \A k \in Keys : note[c][k] = "none"
  BY <1>1 DEF NoNotes
<1>3. AloneInv(c)
  BY <1>1, <1>2 DEF AloneInv, Updates, AllCommands
<1> QED
  BY <1>1, <1>3 DEF RInv, Undisturbed

-----------------------------------------------------------------------------
\* A step of another process.
RestAsSeen(c) ==
    /\ old'[c] = old[c] /\ note'[c] = note[c] /\ failed'[c] = failed[c]
    /\ shown'[c] = shown[c] /\ result'[c] = result[c]

LEMMA SeenRInv ==
    ASSUME NEW c \in Clients, RInv(c), ServerAsSeen(c), MemoryAsSeen(c), RestAsSeen(c)
    PROVE  RInv(c)'
<1> USE DEF MemoryAsSeen, RestAsSeen
<1>1. Entering(c)' = Entering(c) /\ Contexts(c)' = Contexts(c) /\ Updates(c)' = Updates(c)
      /\ Clean(c)' = Clean(c)
  BY DEF Entering, Contexts, Updates, Clean
<1>2. \A t : IsOpen(c, t)' = IsOpen(c, t)
  BY DEF IsOpen
<1>3. AloneInv(c)'
  BY <1>1, <1>2 DEF RInv, AloneInv, ServerAsSeen
<1>4. ASSUME Undisturbed(c)' PROVE Undisturbed(c) /\ settings' = settings
  BY <1>4 DEF Undisturbed, ServerAsSeen
<1>5. ASSUME Undisturbed(c)' PROVE ReadInv(c)' /\ FreshInv(c)'
  BY <1>1, <1>4, <1>5 DEF RInv, ReadInv, FreshInv
<1>6. ASSUME Undisturbed(c)' PROVE PlainInv(c)'
  BY <1>1, <1>2, <1>4, <1>6 DEF RInv, PlainInv, Temporary
<1>7. ASSUME Undisturbed(c)' PROVE TellInv(c)'
  BY <1>1, <1>4, <1>7 DEF RInv, TellInv, Told, ServerAsSeen
<1> QED
  BY <1>3, <1>5, <1>6, <1>7 DEF RInv

LEMMA RestOfOthers ==
    ASSUME IInv, NEW c \in Clients, NEW d \in Clients, c # d, Step(d) \/ Kill(d)
    PROVE  RestAsSeen(c)
<1> USE DEF RestAsSeen, IInv, ClientTypes
<1>1. CASE Fetch(d)
  BY <1>1 DEF Fetch, Fails, End, Raise
<1>2. CASE ReadRepo(d)
  BY <1>2 DEF ReadRepo
<1>3. CASE ReadConfig(d)
  BY <1>3 DEF ReadConfig
<1>4. CASE ReadKey(d)
  BY <1>4 DEF ReadKey, Raise
<1>5. CASE ReadBranch(d)
  <2>1. note'[c] = note[c]
    BY <1>5 DEF ReadBranch
  <2> QED
    BY <1>5, <2>1 DEF ReadBranch
<1>6. CASE SetTemporary(d)
  <2>1. note'[c] = note[c]
    BY <1>6 DEF SetTemporary
  <2> QED
    BY <1>6, <2>1 DEF SetTemporary, Unreadable, ForgetsOld, Raise
<1>7. CASE Body(d)
  BY <1>7 DEF Body, Unreadable, Raise
<1>8. CASE Revert(d)
  <2>1. note'[c] = note[c]
    BY <1>8 DEF Revert, Reverted, RevertFailed
  <2> QED
    BY <1>8, <2>1 DEF Revert, Reverted, RevertFailed, Unreadable, Raise
<1>9. CASE EndUpdate(d)
  BY <1>9 DEF EndUpdate, End
<1>10. CASE EndCheckout(d)
  BY <1>10 DEF EndCheckout, End
<1>11. CASE ReadHead(d) \/ Activities(d) \/ Poll(d) \/ Kill(d)
  BY <1>11 DEF ReadHead, Activities, Poll, Kill, Fails, End
<1> QED
  BY <1>1, <1>2, <1>3, <1>4, <1>5, <1>6, <1>7, <1>8, <1>9, <1>10, <1>11 DEF Step

\* What others can do to c, whoever they are.
LEMMA ServerOfOthers ==
    ASSUME IInv, NEW c \in Clients, NEW d \in Clients, c # d, Step(d) \/ Kill(d)
    PROVE  ServerAsSeen(c)
<1>1. CASE Silent(d)
  BY <1>1, SilentServer DEF ServerAsSeen, serverVars
<1>2. CASE SetTemporary(d) \/ Body(d) \/ Revert(d)
  <2>1. \E t, v : Answered(d, t, v) \/ Refused \/ Unanswered(d, t, v)
    BY <1>2 DEF SetTemporary, Body, Revert, Reverted, RevertFailed, Unreadable
  <2> QED
    BY <2>1, RequestAsSeen
<1> QED
  BY <1>1, <1>2 DEF Step, Silent

LEMMA OthersRInv ==
    ASSUME IInv, NEW c \in Clients, RInv(c), NEW d \in Clients, c # d, Step(d) \/ Kill(d)
    PROVE  RInv(c)'
BY MemoryOfOthers, RestOfOthers, ServerOfOthers, SeenRInv

-----------------------------------------------------------------------------
\* The end of c: with "ok" only where everything has been put back.
LEMMA EndedRInv ==
    ASSUME IInv, NEW c \in Clients, OInv(c), RInv(c), NEW r, End(c, r),
           UNCHANGED <<cmd, note, start, unanswered, serverVars>>,
           r = "ok" => Clean(c) /\ open[c] = <<>>,
           Updates(c) /\ r \in {"ok", "error"} => shown'[c] = note[c]
    PROVE  RInv(c)'
<1>1. pc'[c] = "done" /\ result'[c] = r /\ open'[c] = <<>>
  BY DEF End, Goto, IInv, ClientTypes
<1>2. Len(open'[c]) = 0
  BY <1>1
<1>3. \A t : ~IsOpen(c, t)'
  BY <1>2 DEF IsOpen
<1>4. Contexts(c)' = Contexts(c) /\ Updates(c)' = Updates(c) /\ (Clean(c)' => Clean(c) /\ open[c] = <<>>)
  BY <1>1 DEF Contexts, Updates, Clean, Ahead
<1>5. AloneInv(c)'
  BY <1>1, <1>3, <1>4 DEF RInv, AloneInv, serverVars, Ahead
<1>6. ASSUME Undisturbed(c)' PROVE Undisturbed(c) /\ UNCHANGED <<settings, pending>>
  BY <1>6 DEF Undisturbed, serverVars
<1>7. ASSUME Undisturbed(c)' PROVE ReadInv(c)' /\ FreshInv(c)'
  BY <1>1, <1>2 DEF ReadInv, FreshInv, Ahead
<1>8. ASSUME Undisturbed(c)' PROVE PlainInv(c)'
  <2> SUFFICES ASSUME Clean(c)', NEW t \in Contexts(c) PROVE settings'[t] = start'[c][t]
    BY <1>3, <1>4 DEF PlainInv
  <2>1. Clean(c) /\ open[c] = <<>>
    BY <1>4
  <2>2. Len(open[c]) = 0
    BY <2>1
  <2>3. ~IsOpen(c, t)
    BY <2>2 DEF IsOpen
  <2> QED
    BY <1>6, <1>8, <2>1, <2>3 DEF RInv, PlainInv
<1>9. ASSUME Undisturbed(c)' PROVE TellInv(c)'
  BY <1>4, <1>6, <1>9 DEF RInv, TellInv, Told
<1> QED
  BY <1>5, <1>7, <1>8, <1>9 DEF RInv

\* An exception without a request: c is on its way out.
LEMMA RaisedRInv ==
    ASSUME IInv, NEW c \in Clients, RInv(c), pc[c] # "done", pc'[c] = "leave", failed'[c] # "no",
           UNCHANGED <<cmd, note, shown, result, start, unanswered, serverVars>>,
           \A i \in 1 .. Len(open'[c]) : i \in 1 .. Len(open[c]) /\ open'[c][i] = open[c][i]
    PROVE  RInv(c)'
<1>1. Contexts(c)' = Contexts(c) /\ Updates(c)' = Updates(c) /\ ~Clean(c)'
  BY DEF Contexts, Updates, Clean, Ahead
<1>2. \A t : IsOpen(c, t)' => IsOpen(c, t)
  BY DEF IsOpen
<1>3. AloneInv(c)'
  BY <1>1, <1>2 DEF RInv, AloneInv, serverVars, Ahead
<1>4. ASSUME Undisturbed(c)' PROVE Undisturbed(c) /\ UNCHANGED <<settings, pending>>
  BY <1>4 DEF Undisturbed, serverVars
<1>5. ASSUME Undisturbed(c)' PROVE ReadInv(c)' /\ FreshInv(c)' /\ PlainInv(c)'
  BY <1>1, <1>4, <1>5 DEF RInv, ReadInv, FreshInv, PlainInv, Ahead
<1>6. ASSUME Undisturbed(c)' PROVE TellInv(c)'
  BY <1>1, <1>4, <1>6 DEF RInv, TellInv, Told
<1> QED
  BY <1>3, <1>5, <1>6 DEF RInv

\* A step on the way to the body that opens no context and changes nothing.
LEMMA AheadRInv ==
    ASSUME IInv, NEW c \in Clients, RInv(c), pc[c] \in Ahead, pc'[c] \in Ahead \ {"repo"},
           UNCHANGED <<cmd, open, shown, result, start, unanswered, serverVars>>,
           \A k \in Keys : note'[c][k] = note[c][k],
           pc'[c] = "set" /\ Entering(c) = "branch" => note'[c]["branch"] = old'[c],
           Undisturbed(c) => /\ FreshInv(c)' /\ TellInv(c)'
                             /\ pc'[c] = "set" => old'[c] = start[c][Entering(c)]
    PROVE  RInv(c)'
<1>1. /\ Contexts(c)' = Contexts(c) /\ Updates(c)' = Updates(c) /\ Clean(c)
      /\ Entering(c)' = Entering(c) /\ \A t : IsOpen(c, t)' = IsOpen(c, t)
  BY DEF Contexts, Updates, Clean, Entering, IsOpen
<1>2. pc[c] # "done" /\ pc'[c] # "done" /\ pc'[c] \notin {"repo", "head", "activities", "poll"}
  BY DEF Ahead
<1>3. AloneInv(c)'
  BY <1>1, <1>2 DEF RInv, AloneInv, serverVars
<1>4. ASSUME Undisturbed(c)' PROVE Undisturbed(c) /\ UNCHANGED <<settings, pending>>
  BY <1>4 DEF Undisturbed, serverVars
<1>5. ASSUME Undisturbed(c)' PROVE ReadInv(c)'
  BY <1>1, <1>4, <1>5 DEF RInv, ReadInv
<1>6. ASSUME Undisturbed(c)' PROVE PlainInv(c)'
  BY <1>1, <1>4, <1>6 DEF RInv, PlainInv, Temporary
<1> QED
  BY <1>3, <1>4, <1>5, <1>6 DEF RInv

-----------------------------------------------------------------------------
\* Reading the repository: for the first time, or again.
LEMMA FetchRInv ==
    ASSUME IInv, NEW c \in Clients, OInv(c), RInv(c), Fetch(c)
    PROVE  RInv(c)'
<1>1. UNCHANGED <<original, cmd, note, shown, unanswered, serverVars>>
  BY DEF Fetch
<1>2. CASE /\ data' = [data EXCEPT ![c] = settings]
           /\ start' = [start EXCEPT ![c] = IF @ = Null THEN settings ELSE @]
           /\ UNCHANGED <<pc, config, old, open, failed, result>>
  <2>1. data'[c] = settings /\ start'[c] = IF start[c] = Null THEN settings ELSE start[c]
    BY <1>2 DEF IInv, ClientTypes
  <2>2. /\ Contexts(c)' = Contexts(c) /\ Updates(c)' = Updates(c) /\ Clean(c)' = Clean(c)
        /\ Entering(c)' = Entering(c) /\ \A t : IsOpen(c, t)' = IsOpen(c, t)
    BY <1>1, <1>2 DEF Contexts, Updates, Clean, Entering, IsOpen
  <2>3. AloneInv(c)'
    BY <1>1, <1>2, <2>2 DEF RInv, AloneInv, serverVars
  <2>4. CASE start[c] = Null
    <3>1. open[c] = <<>> /\ config[c] = Null /\ pc[c] # "set" /\ start'[c] = settings
      BY <2>1, <2>4 DEF OInv, LookedInv
    <3>2. pc[c] \in Ahead \cup {"head"}
      BY <2>4, <3>1 DEF Fetch, Missing, Needs, Ahead
    <3>3. Len(open[c]) = 0
      BY <3>1
    <3>4. \A t : ~IsOpen(c, t)
      BY <3>3 DEF IsOpen
    <3>5. ReadInv(c)'
      BY <1>2, <3>1, <3>3 DEF ReadInv
    <3>6. FreshInv(c)'
      BY <1>1, <1>2, <2>1, <3>1 DEF FreshInv, serverVars
    <3>7. PlainInv(c)'
      BY <1>1, <2>2, <3>1, <3>4 DEF PlainInv, serverVars
    <3>8. \A r \in pending' : r[1] # c
      BY <1>1, <3>2 DEF RInv, AloneInv, Clean, serverVars
    <3>9. TellInv(c)'
      BY <1>1, <3>1, <3>8 DEF TellInv, serverVars
    <3> QED
      BY <2>3, <3>5, <3>6, <3>7, <3>9 DEF RInv
  <2>5. CASE start[c] # Null
    <3>1. start'[c] = start[c] /\ UNCHANGED <<settings, pending, disturbed>>
      BY <1>1, <2>1, <2>5 DEF serverVars
    <3>2. ASSUME Undisturbed(c)' PROVE Undisturbed(c)
      BY <2>5, <3>1, <3>2 DEF Undisturbed
    <3>3. ASSUME Undisturbed(c)' PROVE ReadInv(c)' /\ FreshInv(c)'
      BY <1>2, <2>1, <2>2, <3>1, <3>2, <3>3 DEF RInv, ReadInv, FreshInv
    <3>4. ASSUME Undisturbed(c)' PROVE PlainInv(c)'
      BY <1>1, <2>2, <3>1, <3>2, <3>4 DEF RInv, PlainInv, Temporary
    <3>5. ASSUME Undisturbed(c)' PROVE TellInv(c)'
      BY <1>1, <2>2, <3>1, <3>2, <3>5 DEF RInv, TellInv, Told
    <3> QED
      BY <2>3, <3>3, <3>4, <3>5 DEF RInv
  <2> QED
    BY <2>4, <2>5
<1>3. CASE pc[c] \in {"repo", "head"} /\ Fails(c) /\ UNCHANGED start
  <2>1. ~Updates(c)
    BY <1>3 DEF RInv, AloneInv
  <2> QED
    BY <1>1, <1>3, <2>1, EndedRInv DEF Fails
<1>4. CASE /\ Raise(c) /\ Goto(c, "leave")
           /\ open' = [open EXCEPT ![c] = IF pc[c] = "leave" THEN Outer(@) ELSE @]
           /\ UNCHANGED <<data, config, old, start, result>>
  <2>1. pc'[c] = "leave" /\ failed'[c] # "no"
    BY <1>4 DEF Goto, Raise, IInv, ClientTypes
  <2>2. pc[c] # "done" /\ (pc[c] = "leave" => open[c] # <<>>)
    BY DEF Fetch, Missing, Needs
  <2>3. \A i \in 1 .. Len(open'[c]) : i \in 1 .. Len(open[c]) /\ open'[c][i] = open[c][i]
    <3>1. CASE pc[c] = "leave"
      BY <1>4, <2>2, <3>1, OuterEffect
    <3>2. CASE pc[c] # "leave"
      BY <1>4, <3>2 DEF IInv, ClientTypes
    <3> QED
      BY <3>1, <3>2
  <2> QED
    BY <1>1, <1>4, <2>1, <2>2, <2>3, RaisedRInv
<1> QED
  BY <1>2, <1>3, <1>4 DEF Fetch

\* An option that is read has the value that c first saw: what is cached is
\* what the repository has, and the option is not in an open context.
LEMMA ReadConfigRInv ==
    ASSUME IInv, NEW c \in Clients, OInv(c), RInv(c), ReadConfig(c)
    PROVE  RInv(c)'
<1> DEFINE t == Entering(c)
           known == Configuration(c)[t]
<1>1. /\ UNCHANGED <<original, cmd, data, open, note, failed, shown, result, start,
                     unanswered, serverVars>>
      /\ pc[c] = "enter" /\ pc[c] \in Ahead /\ t \in Keys /\ t \in Contexts(c) /\ ~IsOpen(c, t)
  BY EnteringFacts DEF ReadConfig, Ahead
<1>2. config[c] # Null \/ data[c] # Null
  <2>1. Cached(c, t)
    BY <1>1 DEF ReadConfig, Missing, Needs
  <2> QED
    BY <1>1, <2>1 DEF Cached
<1>3. config'[c] = (IF config[c] # Null THEN config[c] ELSE data[c]) /\ config'[c] # Null
  BY <1>2 DEF ReadConfig, Configuration, IInv, ClientTypes
<1>4. old'[c] = known /\ pc'[c] = IF known = "absent" THEN "key" ELSE "set"
  BY DEF ReadConfig, Goto, IInv, ClientTypes
<1>5. known = config'[c][t]
  BY <1>3 DEF Configuration
<1> HIDE DEF known
<1>6. ASSUME Undisturbed(c) PROVE FreshInv(c)'
  BY <1>1, <1>3, <1>6 DEF RInv, FreshInv, serverVars
<1>7. ASSUME Undisturbed(c), pc'[c] = "set" PROVE old'[c] = start[c][t]
  <2>1. known \in {"absent", settings[t]}
    BY <1>1, <1>2, <1>3, <1>5, <1>7 DEF RInv, FreshInv
  <2>2. settings[t] = start[c][t]
    BY <1>1, <1>7 DEF RInv, PlainInv, Clean
  <2> QED
    BY <1>4, <1>7, <2>1, <2>2
<1>8. ASSUME Undisturbed(c) PROVE TellInv(c)'
  BY <1>1, <1>8 DEF RInv, TellInv, Told, Updates, Contexts, serverVars
<1>9. pc'[c] \in Ahead \ {"repo"}
  BY <1>4 DEF Ahead
<1>10. Entering(c) # "branch"
  BY <1>1
<1> QED
  BY <1>1, <1>6, <1>7, <1>8, <1>9, <1>10, AheadRInv

LEMMA ReadKeyRInv ==
    ASSUME IInv, NEW c \in Clients, OInv(c), RInv(c), ReadKey(c)
    PROVE  RInv(c)'
<1> DEFINE t == Entering(c)
<1>1. /\ UNCHANGED <<original, cmd, data, open, note, shown, result, start, unanswered, serverVars>>
      /\ pc[c] = "key" /\ pc[c] \in Ahead /\ pc[c] # "done" /\ t \in Keys /\ config[c] # Null
      /\ t \in Contexts(c) /\ ~IsOpen(c, t)
  BY EnteringFacts DEF ReadKey, Ahead, IInv, CInv
<1>2. CASE /\ Goto(c, "set")
           /\ old' = [old EXCEPT ![c] = settings[t]]
           /\ config' = [config EXCEPT ![c][t] = settings[t]]
  <2>1. pc'[c] = "set" /\ old'[c] = settings[t]
    BY <1>2 DEF Goto, IInv, ClientTypes
  <2>2. config[c] \in Maps /\ settings[t] \in V
    BY <1>1, SettingsAreMaps DEF IInv, ClientTypes, ServerTypes, Maps
  <2>3. config'[c] = [config[c] EXCEPT ![t] = settings[t]]
    BY <1>2 DEF IInv, ClientTypes
  <2>4. config'[c] # Null /\ \A k \in Keys : config'[c][k] = IF k = t THEN settings[t] ELSE config[c][k]
    <3>1. config'[c] \in Maps
      BY <2>2, <2>3 DEF Maps
    <3>2. config'[c] # Null
      BY <3>1 DEF Maps
    <3> QED
      BY <2>2, <2>3, <3>2 DEF Maps
  <2>5. ASSUME Undisturbed(c) PROVE FreshInv(c)'
    BY <1>1, <2>4, <2>5 DEF RInv, FreshInv, serverVars
  <2>6. ASSUME Undisturbed(c) PROVE old'[c] = start[c][t]
    BY <1>1, <2>1, <2>6 DEF RInv, PlainInv, Clean
  <2>7. ASSUME Undisturbed(c) PROVE TellInv(c)'
    BY <1>1, <2>7 DEF RInv, TellInv, Told, Updates, Contexts, serverVars
  <2>8. pc'[c] \in Ahead \ {"repo"} /\ Entering(c) # "branch"
    BY <1>1, <2>1 DEF Ahead
  <2> QED
    BY <1>1, <2>5, <2>6, <2>7, <2>8, AheadRInv
<1>3. CASE Raise(c) /\ Goto(c, "leave")
  <2>1. pc'[c] = "leave" /\ failed'[c] # "no"
    BY <1>3 DEF Raise, Goto, IInv, ClientTypes
  <2> QED
    BY <1>1, <2>1, RaisedRInv
<1> QED
  BY <1>2, <1>3 DEF ReadKey

-----------------------------------------------------------------------------
\* Entering a context.
LEMMA EnteredItems ==
    ASSUME IInv, NEW c \in Clients, NEW v \in V, pc[c] \in {"enter", "set"}, Entered(c, v)
    PROVE  /\ \A i \in 1 .. Len(open'[c]) :
                 \/ open'[c][i].thing = Entering(c) /\ open'[c][i].old = v
                 \/ i \in 1 .. Len(open[c]) /\ open'[c][i] = open[c][i]
           /\ \A t : IsOpen(c, t)' <=> IsOpen(c, t) \/ t = Entering(c)
<1> DEFINE item == [thing |-> Entering(c), old |-> v]
<1>1. Entering(c) \in Things
  BY EnteringTypes DEF IInv
<1>2. open[c] \in Opens /\ Len(open[c]) \in Nat /\ item \in [thing: Things, old: V]
  BY <1>1, OpenLength
<1>3. open'[c] = Append(open[c], item) /\ item.thing = Entering(c) /\ item.old = v
  BY DEF Entered, IInv, ClientTypes
<1> HIDE DEF item
<1>4. /\ Len(open'[c]) = Len(open[c]) + 1
      /\ open'[c][Len(open[c]) + 1] = item
      /\ \A i \in 1 .. Len(open[c]) : open'[c][i] = open[c][i]
  BY <1>2, <1>3 DEF Opens
<1>5. \A i \in 1 .. Len(open'[c]) :
         \/ open'[c][i] = item
         \/ i \in 1 .. Len(open[c]) /\ open'[c][i] = open[c][i]
  BY <1>2, <1>4
<1>6. ASSUME NEW t PROVE IsOpen(c, t)' <=> IsOpen(c, t) \/ t = Entering(c)
  <2>1. IsOpen(c, t)' => IsOpen(c, t) \/ t = Entering(c)
    BY <1>3, <1>5 DEF IsOpen
  <2>2. IsOpen(c, t) => IsOpen(c, t)'
    <3> SUFFICES ASSUME NEW i \in 1 .. Len(open[c]), open[c][i].thing = t
                 PROVE  i \in 1 .. Len(open'[c]) /\ open'[c][i].thing = t
      BY DEF IsOpen
    <3> QED
      BY <1>2, <1>4
  <2>3. t = Entering(c) => IsOpen(c, t)'
    <3>1. Len(open[c]) + 1 \in 1 .. Len(open'[c])
      BY <1>2, <1>4
    <3> QED
      BY <1>3, <1>4, <3>1 DEF IsOpen
  <2> QED
    BY <2>1, <2>2, <2>3
<1> QED
  BY <1>3, <1>5, <1>6

LEMMA EnteredRInv ==
    ASSUME IInv, NEW c \in Clients, OInv(c), RInv(c), pc[c] \in {"enter", "set"},
           pc'[c] \in {"enter", "body"}, NEW v \in V, Entered(c, v),
           UNCHANGED <<cmd, shown, result, start, pending, unanswered>>,
           disturbed'[c] = disturbed[c],
           \A u \in Things : u # Entering(c) =>
              note'[c][u] = note[c][u] /\ settings'[u] = settings[u],
           Undisturbed(c) =>
              /\ v = start[c][Entering(c)]
              /\ settings'[Entering(c)] = Temporary(c, Entering(c))
              /\ settings'[Entering(c)] # v => note'[c][Entering(c)] = v
              /\ FreshInv(c)'
    PROVE  RInv(c)'
<1> DEFINE t == Entering(c)
<1>1. t \in Contexts(c) /\ t \in Things /\ ~IsOpen(c, t) /\ Contexts(c) \subseteq Things
  BY EnteringFacts, ContextThings
<1>2. /\ \A i \in 1 .. Len(open'[c]) :
            \/ open'[c][i].thing = t /\ open'[c][i].old = v
            \/ i \in 1 .. Len(open[c]) /\ open'[c][i] = open[c][i]
      /\ \A u : IsOpen(c, u)' <=> IsOpen(c, u) \/ u = t
  BY EnteredItems
<1>3. Contexts(c)' = Contexts(c) /\ Updates(c)' = Updates(c) /\ Clean(c) /\ pc[c] \in Ahead
  BY DEF Contexts, Updates, Clean, Ahead
<1> HIDE DEF t
<1>4. \A r \in pending' : r[1] # c
  BY <1>3 DEF RInv, AloneInv
<1>5. AloneInv(c)'
  <2>1. \A k \in Keys : IsOpen(c, k)' \/ note'[c][k] = "none"
    BY <1>2, <1>3 DEF RInv, AloneInv, t
  <2>2. pc'[c] \notin {"set", "repo", "head", "activities", "poll", "done"} /\ pc[c] # "done"
    OBVIOUS
  <2> QED
    BY <1>4, <2>1, <2>2 DEF RInv, AloneInv
<1>6. ASSUME Undisturbed(c)' PROVE Undisturbed(c)
  BY <1>6 DEF Undisturbed
<1>7. ASSUME Undisturbed(c)' PROVE ReadInv(c)'
  BY <1>2, <1>6, <1>7 DEF RInv, ReadInv, t
<1>8. ASSUME Undisturbed(c)' PROVE PlainInv(c)'
  <2> SUFFICES ASSUME NEW u \in Contexts(c)
               PROVE  settings'[u] = IF IsOpen(c, u)' THEN Temporary(c, u)' ELSE start'[c][u]
    BY <1>3 DEF PlainInv
  <2>1. Temporary(c, u)' = Temporary(c, u)
    BY DEF Temporary
  <2>2. CASE u = t
    BY <1>2, <1>6, <1>8, <2>1, <2>2 DEF t
  <2>3. CASE u # t
    <3>1. settings'[u] = settings[u]
      BY <1>1, <2>3 DEF t
    <3>2. IsOpen(c, u)' <=> IsOpen(c, u)
      BY <1>2, <2>3, Zenon
    <3> QED
      BY <1>3, <1>6, <1>8, <2>1, <3>1, <3>2 DEF RInv, PlainInv
  <2> QED
    BY <2>2, <2>3
<1>9. ASSUME Undisturbed(c)' PROVE TellInv(c)'
  <2> SUFFICES ASSUME Updates(c), NEW u \in Contexts(c), settings'[u] # start[c][u]
               PROVE  Told(c, u)'
    BY <1>3, <1>4 DEF TellInv
  <2>1. CASE u = t
    BY <1>6, <1>9, <2>1 DEF Told, t
  <2>2. CASE u # t
    <3>1. settings'[u] = settings[u] /\ note'[c][u] = note[c][u]
      BY <1>1, <2>2 DEF t
    <3> QED
      BY <1>6, <1>9, <3>1 DEF RInv, TellInv, Told
  <2> QED
    BY <2>1, <2>2
<1> QED
  BY <1>5, <1>6, <1>7, <1>8, <1>9 DEF RInv

LEMMA ReadBranchRInv ==
    ASSUME IInv, NEW c \in Clients, OInv(c), RInv(c), ReadBranch(c)
    PROVE  RInv(c)'
<1> DEFINE active == data[c]["branch"]
<1>1. /\ UNCHANGED <<original, cmd, data, config, failed, shown, result, start, unanswered, serverVars>>
      /\ pc[c] = "enter" /\ pc[c] \in Ahead /\ Entering(c) = "branch"
      /\ "branch" \in Contexts(c) /\ ~IsOpen(c, "branch")
  BY EnteringFacts DEF ReadBranch, Ahead
<1>2. data[c] # Null
  BY <1>1 DEF ReadBranch, Missing, Needs, Cached
<1>3. active \in V
  BY <1>2 DEF IInv, CInv, Sound
<1>4. ASSUME Undisturbed(c) PROVE active = settings["branch"] /\ active = start[c]["branch"]
  <2>1. active = settings["branch"]
    BY <1>1, <1>2, <1>4 DEF RInv, FreshInv
  <2>2. settings["branch"] = start[c]["branch"]
    BY <1>1, <1>4 DEF RInv, PlainInv, Clean
  <2> QED
    BY <2>1, <2>2
<1> HIDE DEF active
<1>5. CASE /\ active = cmd[c].branch /\ Entered(c, active)
           /\ Goto(c, NextContext(c, Len(open'[c]))) /\ UNCHANGED <<old, note>>
  <2>1. pc'[c] \in {"enter", "body"}
    BY <1>5 DEF Goto, NextContext, IInv, ClientTypes
  <2>2. Temporary(c, "branch") = active
    BY <1>5 DEF Temporary
  <2>3. ASSUME Undisturbed(c) PROVE FreshInv(c)'
    BY <1>1, <2>3 DEF RInv, FreshInv, serverVars
  <2> QED
    BY <1>1, <1>3, <1>4, <1>5, <2>1, <2>2, <2>3, EnteredRInv DEF serverVars
<1>6. CASE /\ old' = [old EXCEPT ![c] = active]
           /\ note' = [note EXCEPT ![c]["branch"] = active]
           /\ Goto(c, "set") /\ UNCHANGED open
  <2>1. pc'[c] = "set" /\ old'[c] = active
    BY <1>6 DEF Goto, IInv, ClientTypes
  <2>2. note'[c]["branch"] = active /\ \A k \in Keys : note'[c][k] = note[c][k]
    BY <1>6 DEF IInv, ClientTypes
  <2>3. ASSUME Undisturbed(c) PROVE FreshInv(c)'
    BY <1>1, <2>3 DEF RInv, FreshInv, serverVars
  <2>4. ASSUME Undisturbed(c) PROVE TellInv(c)'
    <3>1. \A t \in Things : Told(c, t) => Told(c, t)'
      BY <1>1, <1>4, <2>2, <2>4 DEF Told
    <3>2. Contexts(c)' = Contexts(c) /\ Updates(c)' = Updates(c) /\ Contexts(c) \subseteq Things
      BY <1>1, ContextThings DEF Contexts, Updates
    <3> QED
      BY <1>1, <2>4, <3>1, <3>2 DEF RInv, TellInv, serverVars
  <2>5. pc'[c] \in Ahead \ {"repo"}
    BY <2>1 DEF Ahead
  <2> QED
    BY <1>1, <1>4, <1>6, <2>1, <2>2, <2>3, <2>4, <2>5, AheadRInv
<1> QED
  BY <1>5, <1>6 DEF ReadBranch, active

LEMMA ReadRepoRInv ==
    ASSUME IInv, NEW c \in Clients, RInv(c), ReadRepo(c)
    PROVE  RInv(c)'
<1>1. /\ UNCHANGED <<original, cmd, data, config, old, open, note, failed, shown,
                     result, start, unanswered, serverVars>>
      /\ pc[c] = "repo" /\ pc[c] \in Ahead
  BY DEF ReadRepo, Ahead
<1>2. pc'[c] \in {"enter", "body"} /\ pc'[c] \in Ahead \ {"repo"} /\ pc'[c] # "set"
  BY DEF ReadRepo, Goto, NextContext, IInv, ClientTypes, Ahead
<1>3. ASSUME Undisturbed(c) PROVE FreshInv(c)'
  BY <1>1, <1>3 DEF RInv, FreshInv, serverVars
<1>4. ASSUME Undisturbed(c) PROVE TellInv(c)'
  BY <1>1, <1>4 DEF RInv, TellInv, Told, Updates, Contexts, serverVars
<1> QED
  BY <1>1, <1>2, <1>3, <1>4, AheadRInv

-----------------------------------------------------------------------------
\* What a request of c leaves on the server and on its way.
LEMMA OwnRequest ==
    ASSUME IInv, NEW c \in Clients, NEW t, NEW v,
           Answered(c, t, v) \/ Refused \/ Unanswered(c, t, v)
    PROVE  /\ disturbed'[c] = disturbed[c] /\ unanswered[c] \subseteq unanswered'[c]
           /\ \A r \in pending' : r \in pending \/ (r = <<c, t, v>> /\ t \in unanswered'[c])
           /\ \A u \in Things : \/ settings'[u] = settings[u]
                                \/ /\ u = t /\ settings'[u] = v
                                   /\ Answered(c, t, v) \/ t \in unanswered'[c]
           /\ Answered(c, t, v) => /\ UNCHANGED <<pending, unanswered>>
                                   /\ t \in Things => settings'[t] = v
           /\ t = "pull" => UNCHANGED settings
<1>1. settings \in Maps
  BY SettingsAreMaps DEF IInv, ServerTypes
<1>2. ASSUME Serve(c, t, v)
      PROVE  /\ disturbed'[c] = disturbed[c]
             /\ \A u \in Things : settings'[u] = settings[u] \/ (u = t /\ settings'[u] = v)
             /\ t \in Things => settings'[t] = v
             /\ t = "pull" => UNCHANGED settings
  BY <1>1, <1>2 DEF Serve, Maps, IInv, ServerTypes
<1>3. CASE Answered(c, t, v)
  BY <1>2, <1>3 DEF Answered
<1>4. CASE Refused
  <2>1. Answered(c, t, v) => (t \in Things => settings'[t] = v)
    BY <1>2 DEF Answered
  <2> QED
    BY <1>4, <2>1 DEF Refused, serverVars
<1>5. CASE Unanswered(c, t, v)
  <2>1. unanswered[c] \subseteq unanswered'[c] /\ t \in unanswered'[c]
    BY <1>5 DEF Unanswered, IInv, ServerTypes
  <2>2. ~Answered(c, t, v) \/ UNCHANGED <<pending, unanswered>>
    BY DEF Answered
  <2>3. Answered(c, t, v) => (t \in Things => settings'[t] = v)
    BY <1>2 DEF Answered
  <2>4. CASE Serve(c, t, v) /\ UNCHANGED pending
    BY <1>2, <2>1, <2>2, <2>3, <2>4
  <2>5. CASE UNCHANGED serverVars
    BY <2>1, <2>2, <2>3, <2>5 DEF serverVars
  <2>6. CASE pending' = pending \cup {<<c, t, v>>} /\ UNCHANGED <<settings, disturbed, imported>>
    BY <2>1, <2>2, <2>3, <2>6
  <2> QED
    BY <1>5, <2>4, <2>5, <2>6 DEF Unanswered
<1> QED
  BY <1>3, <1>4, <1>5

\* A request that was refused, got no answer, or got one that cannot be read.
LEMMA FailedRInv ==
    ASSUME IInv, NEW c \in Clients, RInv(c), pc[c] # "done", pc'[c] = "leave", failed'[c] # "no",
           NEW t, NEW v,
           Refused \/ Unanswered(c, t, v) \/ (Answered(c, t, v) /\ t \notin Keys),
           UNCHANGED <<cmd, note, shown, result, start>>,
           \A i \in 1 .. Len(open'[c]) :
              /\ i \in 1 .. Len(open[c]) /\ open'[c][i] = open[c][i]
              /\ Updates(c) => open'[c][i].thing # t,
           Undisturbed(c) /\ Updates(c) /\ t \in Contexts(c) =>
              \/ v = start[c][t] \/ note[c][t] = start[c][t]
              \/ t \in Keys /\ note[c][t] = "none"
    PROVE  RInv(c)'
<1>1. /\ Contexts(c)' = Contexts(c) /\ Updates(c)' = Updates(c) /\ ~Clean(c)'
      /\ Contexts(c) \subseteq Things
  <2>1. Contexts(c) \subseteq Things
    BY ContextThings
  <2>2. Contexts(c)' = Contexts(c) /\ Updates(c)' = Updates(c)
    BY DEF Contexts, Updates
  <2>3. ~Clean(c)'
    BY DEF Clean, Ahead
  <2> QED
    BY <2>1, <2>2, <2>3
<1>2. /\ disturbed'[c] = disturbed[c] /\ unanswered[c] \subseteq unanswered'[c]
      /\ \A r \in pending' : r \in pending \/ (r = <<c, t, v>> /\ t \in unanswered'[c])
      /\ \A u \in Things : \/ settings'[u] = settings[u]
                           \/ /\ u = t /\ settings'[u] = v
                              /\ Answered(c, t, v) \/ t \in unanswered'[c]
      /\ Answered(c, t, v) => UNCHANGED <<pending, unanswered>>
  <2>1. Answered(c, t, v) \/ Refused \/ Unanswered(c, t, v)
    OBVIOUS
  <2>2. /\ disturbed'[c] = disturbed[c] /\ unanswered[c] \subseteq unanswered'[c]
        /\ \A r \in pending' : r \in pending \/ (r = <<c, t, v>> /\ t \in unanswered'[c])
        /\ \A u \in Things : \/ settings'[u] = settings[u]
                             \/ /\ u = t /\ settings'[u] = v
                                /\ Answered(c, t, v) \/ t \in unanswered'[c]
        /\ Answered(c, t, v) => /\ UNCHANGED <<pending, unanswered>>
                                /\ t \in Things => settings'[t] = v
        /\ t = "pull" => UNCHANGED settings
    BY <2>1, OwnRequest, Zenon
  <2> QED
    BY <2>2
<1>3. \A u : IsOpen(c, u)' => IsOpen(c, u) /\ (Updates(c) => u # t)
  BY DEF IsOpen
<1>4. \A r \in pending' : r[1] = c => r \in pending \/ r[2] = t
  BY <1>2
<1>5. AloneInv(c)'
  BY <1>1, <1>3, <1>4 DEF RInv, AloneInv, Ahead
<1>6. ASSUME Undisturbed(c)' PROVE Undisturbed(c)
  BY <1>2, <1>6 DEF Undisturbed
<1>7. ASSUME Undisturbed(c)' PROVE ReadInv(c)' /\ FreshInv(c)' /\ PlainInv(c)'
  BY <1>1, <1>6, <1>7 DEF RInv, ReadInv, FreshInv, PlainInv, Ahead
<1>8. ASSUME Undisturbed(c)', Updates(c) PROVE TellInv(c)'
  <2>1. \A u : Told(c, u) => Told(c, u)'
    BY <1>2 DEF Told
  <2>2. t \in Contexts(c) /\ (t \in unanswered'[c] \/ t \notin Keys)
           => v = start[c][t] \/ Told(c, t)'
    BY <1>6, <1>8 DEF Told
  <2>3. ASSUME NEW u \in Contexts(c), settings'[u] # start[c][u] PROVE Told(c, u)'
    <3>1. CASE settings'[u] = settings[u]
      BY <1>6, <1>8, <2>1, <2>3, <3>1 DEF RInv, TellInv
    <3>2. CASE settings'[u] # settings[u]
      <4>1. u = t /\ settings'[u] = v /\ (t \in unanswered'[c] \/ t \notin Keys)
        <5>1. Answered(c, t, v) => t \in unanswered'[c] \/ Refused \/ t \notin Keys
          BY DEF Unanswered, IInv, ServerTypes
        <5>2. ~Refused
          BY <1>1, <2>3, <3>2 DEF Refused, serverVars
        <5> QED
          BY <1>1, <1>2, <2>3, <3>2, <5>1, <5>2
      <4> QED
        BY <2>2, <2>3, <4>1
    <3> QED
      BY <3>1, <3>2
  <2>4. ASSUME NEW r \in pending', r[1] = c, r[2] \in Contexts(c)
        PROVE  r[3] = start[c][r[2]] \/ Told(c, r[2])'
    <3>1. CASE r \in pending
      BY <1>6, <1>8, <2>1, <2>4, <3>1 DEF RInv, TellInv
    <3>2. CASE r = <<c, t, v>> /\ t \in unanswered'[c]
      BY <2>2, <2>4, <3>2
    <3> QED
      BY <1>2, <3>1, <3>2
  <2> QED
    BY <1>1, <2>3, <2>4 DEF TellInv
<1>9. ASSUME Undisturbed(c)' PROVE TellInv(c)'
  <2>1. CASE Updates(c)
    BY <1>8, <1>9, <2>1
  <2>2. CASE ~Updates(c)
    BY <1>1, <2>2 DEF TellInv
  <2> QED
    BY <2>1, <2>2
<1> QED
  BY <1>5, <1>7, <1>9 DEF RInv

LEMMA SetTemporaryRInv ==
    ASSUME IInv, NEW c \in Clients, OInv(c), RInv(c), SetTemporary(c)
    PROVE  RInv(c)'
<1> DEFINE t == Entering(c)
           v == Temporary(c, t)
<1>1. /\ pc[c] = "set" /\ pc[c] \in Ahead /\ pc[c] # "done" /\ UNCHANGED <<original, cmd, shown, result, start>>
      /\ t \in Things /\ t \in Contexts(c) /\ ~IsOpen(c, t)
  BY EnteringFacts DEF SetTemporary, Ahead
<1>2. Sound(t, old[c]) /\ old[c] \in V
  BY <1>1 DEF IInv, CInv, Sound, Constant, Settings
<1>3. Answered(c, t, v) \/ Refused \/ Unanswered(c, t, v)
  BY DEF SetTemporary, Unreadable
<1> HIDE DEF t, v
<1>4. /\ disturbed'[c] = disturbed[c]
      /\ Answered(c, t, v) => UNCHANGED <<pending, unanswered>> /\ settings'[t] = v
      /\ \A u \in Things : u # t => settings'[u] = settings[u]
  BY <1>1, <1>3, OwnRequest
<1>5. ASSUME Undisturbed(c) PROVE old[c] = start[c][t]
  BY <1>1, <1>5 DEF RInv, ReadInv, t
<1>6. CASE /\ Answered(c, t, v)
           /\ IF t = "branch" THEN Wiped(c) ELSE Known(c, t, v) /\ UNCHANGED data
           /\ note' = [note EXCEPT ![c][t] = IF old[c] = v THEN "none" ELSE old[c]]
           /\ Entered(c, old[c])
           /\ Goto(c, NextContext(c, Len(open'[c])))
  <2>1. pc'[c] \in {"enter", "body"}
    BY <1>6 DEF Goto, NextContext, IInv, ClientTypes
  <2>2. /\ \A u \in Things : u # t => note'[c][u] = note[c][u]
        /\ note'[c][t] = IF old[c] = v THEN "none" ELSE old[c]
    BY <1>1, <1>6 DEF IInv, ClientTypes
  <2>3. ASSUME Undisturbed(c) PROVE FreshInv(c)'
    <3>1. CASE t = "branch"
      BY <1>6, <3>1 DEF Wiped, FreshInv, IInv, ClientTypes
    <3>2. CASE t \in Keys
      <4> DEFINE cached == IF config[c] = Null THEN NothingKnown ELSE config[c]
      <4>1. cached \in Maps /\ v \in V
        BY <1>1, TemporaryTypes DEF IInv, ClientTypes, Maps, NothingKnown, v
      <4>2. \A k \in Keys : cached[k] \in {"absent", settings[k]}
        BY <1>1, <2>3 DEF RInv, FreshInv, NothingKnown
      <4>3. config' = [config EXCEPT ![c] = [cached EXCEPT ![t] = v]] /\ UNCHANGED data
        BY <1>6, <3>2 DEF Known
      <4> HIDE DEF cached
      <4>4. /\ [cached EXCEPT ![t] = v] \in Maps
            /\ \A k \in Keys : [cached EXCEPT ![t] = v][k] = IF k = t THEN v ELSE cached[k]
        BY <3>2, <4>1 DEF Maps
      <4>5. config'[c] = [cached EXCEPT ![t] = v] /\ config'[c] # Null
        <5>1. config'[c] = [cached EXCEPT ![t] = v]
          BY <4>3 DEF IInv, ClientTypes
        <5>2. Null \notin Maps
          BY NullAssumption DEF Maps
        <5> QED
          BY <4>4, <5>1, <5>2
      <4>6. \A k \in Keys : config'[c][k] \in {"absent", settings'[k]}
        BY <1>4, <1>6, <4>2, <4>4, <4>5
      <4>7. settings'["branch"] = settings["branch"]
        BY <1>4, <3>2
      <4>8. data[c] # Null => data[c]["branch"] = settings["branch"]
        BY <1>1, <2>3 DEF RInv, FreshInv
      <4> QED
        BY <4>3, <4>5, <4>6, <4>7, <4>8 DEF FreshInv
    <3> QED
      BY <1>1, <3>1, <3>2
  <2> QED
    BY <1>1, <1>2, <1>4, <1>5, <1>6, <2>1, <2>2, <2>3, EnteredRInv DEF t, v
<1>7. CASE /\ \/ (Refused \/ Unanswered(c, t, v)) /\ Raise(c)
              \/ t = "branch" /\ Unreadable(c, t, v)
           /\ Goto(c, "leave") /\ UNCHANGED <<note, open>>
  <2>1. pc'[c] = "leave" /\ failed'[c] # "no"
    BY <1>7 DEF Raise, Unreadable, Goto, IInv, ClientTypes
  <2>2. \A i \in 1 .. Len(open'[c]) :
           i \in 1 .. Len(open[c]) /\ open'[c][i] = open[c][i] /\ open'[c][i].thing # t
    BY <1>1, <1>7 DEF IsOpen
  <2>3. t \in Keys => note[c][t] = "none"
    BY <1>1 DEF RInv, AloneInv
  <2>4. t = "branch" => note[c][t] = old[c]
    BY <1>1 DEF RInv, AloneInv, t
  <2>5. Refused \/ Unanswered(c, t, v) \/ (Answered(c, t, v) /\ t \notin Keys)
    BY <1>7 DEF Unreadable
  <2> QED
    BY <1>1, <1>5, <1>7, <2>1, <2>2, <2>3, <2>4, <2>5, FailedRInv
<1> QED
  BY <1>6, <1>7 DEF SetTemporary, t, v

\* The pull changes no setting; a checkout has no context for the branch.
LEMMA BodyRInv ==
    ASSUME IInv, NEW c \in Clients, OInv(c), RInv(c), Body(c)
    PROVE  RInv(c)'
<1> DEFINE t == IF cmd[c].name = "checkout" THEN "branch" ELSE "pull"
           v == cmd[c].branch
<1>1. /\ pc[c] = "body" /\ pc[c] \in Ahead /\ pc[c] # "done" /\ Clean(c)
      /\ UNCHANGED <<original, cmd, old, open, note, shown, result, start>>
  BY DEF Body, Ahead, Clean
<1>2. pc'[c] = "leave"
  BY DEF Body, Goto, IInv, ClientTypes
<1>3. t \notin Contexts(c) /\ t \notin Keys /\ (Updates(c) => t = "pull") /\ Contexts(c) \subseteq Things
  BY ContextThings
<1>4. Answered(c, t, v) \/ Refused \/ Unanswered(c, t, v)
  BY DEF Body, Unreadable
<1> HIDE DEF t, v
<1>5. /\ disturbed'[c] = disturbed[c]
      /\ Answered(c, t, v) => UNCHANGED <<pending, unanswered>>
      /\ \A u \in Things : u # t => settings'[u] = settings[u]
  BY <1>4, OwnRequest
<1>6. CASE (Answered(c, t, v) \/ Refused) /\ UNCHANGED failed
  <2>1. UNCHANGED <<pending, unanswered>>
    BY <1>5, <1>6 DEF Refused, serverVars
  <2>2. /\ Contexts(c)' = Contexts(c) /\ Updates(c)' = Updates(c)
        /\ \A u : IsOpen(c, u)' = IsOpen(c, u)
    BY <1>1 DEF Contexts, Updates, IsOpen
  <2>3. AloneInv(c)'
    BY <1>1, <1>2, <2>1, <2>2 DEF RInv, AloneInv, Ahead
  <2>4. ASSUME Undisturbed(c)' PROVE Undisturbed(c)
    BY <1>1, <1>5, <2>4 DEF Undisturbed
  <2>5. ASSUME Undisturbed(c)' PROVE ReadInv(c)' /\ FreshInv(c)'
    BY <1>1, <1>2, <2>4, <2>5 DEF RInv, ReadInv, FreshInv, Ahead
  <2>6. \A u \in Contexts(c) : settings'[u] = settings[u]
    BY <1>3, <1>5
  <2>7. ASSUME Undisturbed(c)' PROVE PlainInv(c)'
    BY <1>1, <2>2, <2>4, <2>6, <2>7 DEF RInv, PlainInv, Temporary
  <2>8. ASSUME Undisturbed(c)' PROVE TellInv(c)'
    BY <1>1, <2>1, <2>2, <2>4, <2>6, <2>8 DEF RInv, TellInv, Told
  <2> QED
    BY <2>3, <2>5, <2>7, <2>8 DEF RInv
<1>7. CASE ((Refused \/ Unanswered(c, t, v)) /\ Raise(c)) \/ Unreadable(c, t, v)
  <2>1. failed'[c] # "no"
    BY <1>7 DEF Raise, Unreadable, IInv, ClientTypes
  <2>2. \A i \in 1 .. Len(open'[c]) :
           /\ i \in 1 .. Len(open[c]) /\ open'[c][i] = open[c][i]
           /\ Updates(c) => open'[c][i].thing # t
    <3>1. \A i \in 1 .. Len(open[c]) : open[c][i].thing \in Things
      <4>1. cmd[c] \in AllCommands
        BY DEF IInv, Constant
      <4> QED
        BY <4>1, OpenThings, ContextTypes DEF OInv
    <3>2. "pull" \notin Things
      OBVIOUS
    <3> QED
      BY <1>1, <1>3, <3>1, <3>2
  <2>3. Refused \/ Unanswered(c, t, v) \/ (Answered(c, t, v) /\ t \notin Keys)
    BY <1>3, <1>7 DEF Unreadable
  <2> QED
    BY <1>1, <1>2, <1>3, <2>1, <2>2, <2>3, FailedRInv
<1> QED
  BY <1>6, <1>7 DEF Body, t, v

-----------------------------------------------------------------------------
\* Leaving the innermost context.
LEMMA LeftItems ==
    ASSUME IInv, NEW c \in Clients, OInv(c), open[c] # <<>>,
           open' = [open EXCEPT ![c] = Outer(@)], UNCHANGED <<cmd, start>>, pc'[c] = "leave"
    PROVE  /\ \A i \in 1 .. Len(open'[c]) :
                 /\ i \in 1 .. Len(open[c]) /\ open'[c][i] = open[c][i]
                 /\ open'[c][i].thing # Top(c).thing
           /\ \A u : IsOpen(c, u)' <=> IsOpen(c, u) /\ u # Top(c).thing
           /\ IsOpen(c, Top(c).thing)
<1> DEFINE n == Len(open[c])
<1>1. open[c] \in Opens /\ n \in Nat /\ n > 0 /\ n \in 1 .. n /\ Top(c) = open[c][n]
  BY OpenLength DEF Top
<1>2. open'[c] = Outer(open[c]) /\ Len(open'[c]) = n - 1
  BY <1>1, OuterOf DEF IInv, ClientTypes, Opens
<1>3. \A i \in 1 .. n - 1 : open'[c][i] = open[c][i]
  BY <1>1, <1>2, OuterOf DEF Opens
<1>4. \A i, j \in 1 .. n : open[c][i].thing = open[c][j].thing => i = j
  BY OpenThings DEF OInv
<1>5. IsOpen(c, Top(c).thing)
  BY <1>1 DEF IsOpen
<1> HIDE DEF n
<1>6. \A i \in 1 .. n - 1 : i \in 1 .. n /\ open[c][i].thing # Top(c).thing
  <2>1. \A i \in 1 .. n - 1 : i \in 1 .. n /\ i # n
    BY <1>1
  <2> QED
    BY <1>1, <1>4, <2>1
<1>7. \A i \in 1 .. Len(open'[c]) :
         /\ i \in 1 .. Len(open[c]) /\ open'[c][i] = open[c][i]
         /\ open'[c][i].thing # Top(c).thing
  BY <1>2, <1>3, <1>6 DEF n
<1>8. ASSUME NEW u PROVE IsOpen(c, u)' <=> IsOpen(c, u) /\ u # Top(c).thing
  <2>1. IsOpen(c, u)' => IsOpen(c, u) /\ u # Top(c).thing
    BY <1>7 DEF IsOpen
  <2>2. ASSUME NEW i \in 1 .. n, open[c][i].thing = u, u # Top(c).thing PROVE IsOpen(c, u)'
    <3>1. i # n
      BY <1>1, <2>2
    <3>2. i \in 1 .. n - 1
      BY <1>1, <3>1
    <3> QED
      BY <1>2, <1>3, <2>2, <3>2 DEF IsOpen
  <2> QED
    BY <2>1, <2>2 DEF IsOpen, n
<1> QED
  BY <1>5, <1>7, <1>8

LEMMA RevertRInv ==
    ASSUME IInv, NEW c \in Clients, OInv(c), RInv(c), Revert(c)
    PROVE  RInv(c)'
<1> DEFINE t == Top(c).thing
           v == Top(c).old
<1>1. /\ pc[c] = "leave" /\ pc'[c] = "leave" /\ pc[c] # "done" /\ open[c] # <<>>
      /\ open' = [open EXCEPT ![c] = Outer(@)]
      /\ UNCHANGED <<original, cmd, pc, old, shown, result, start>>
  BY DEF Revert
<1>2. t \in Things
  BY <1>1, TopTypes
<1>3. /\ \A i \in 1 .. Len(open'[c]) :
            /\ i \in 1 .. Len(open[c]) /\ open'[c][i] = open[c][i] /\ open'[c][i].thing # t
      /\ \A u : IsOpen(c, u)' <=> IsOpen(c, u) /\ u # t
      /\ IsOpen(c, t)
  BY <1>1, LeftItems
<1>4. ASSUME Undisturbed(c) PROVE v = start[c][t]
  <2>1. Len(open[c]) \in 1 .. Len(open[c])
    BY <1>1, OpenLength
  <2> QED
    BY <1>4, <2>1 DEF RInv, ReadInv, Top
<1>5. \/ v = Temporary(c, t) /\ Refused /\ UNCHANGED <<data, config, note, failed>>
      \/ Reverted(c, t, v)
      \/ RevertFailed(c, t, v)
  BY DEF Revert
<1> HIDE DEF t, v
<1>6. CASE \/ v = Temporary(c, t) /\ Refused /\ UNCHANGED <<data, config, note, failed>>
           \/ Reverted(c, t, v)
  <2>1. /\ disturbed'[c] = disturbed[c] /\ UNCHANGED <<failed, pending, unanswered>>
        /\ \A u \in Things : u # t => settings'[u] = settings[u] /\ note'[c][u] = note[c][u]
        /\ \/ Refused /\ UNCHANGED <<settings, note>> /\ v = Temporary(c, t)
           \/ settings'[t] = v
    <3>1. CASE v = Temporary(c, t) /\ Refused /\ UNCHANGED <<data, config, note, failed>>
      BY <3>1 DEF Refused, serverVars
    <3>2. CASE Reverted(c, t, v)
      <4>1. Answered(c, t, v) /\ UNCHANGED failed /\ note' = [note EXCEPT ![c][t] = "none"]
        BY <3>2 DEF Reverted
      <4>2. \A u \in Things : u # t => note'[c][u] = note[c][u]
        BY <1>2, <4>1 DEF IInv, ClientTypes
      <4> QED
        BY <1>2, <4>1, <4>2, OwnRequest
    <3> QED
      BY <1>6, <3>1, <3>2
  <2>2. Contexts(c)' = Contexts(c) /\ Updates(c)' = Updates(c) /\ Contexts(c) \subseteq Things
    BY <1>1, ContextThings DEF Contexts, Updates
  <2>3. Clean(c)' = Clean(c)
    BY <1>1, <2>1 DEF Clean
  <2>4. AloneInv(c)'
    BY <1>1, <1>3, <2>1, <2>2, <2>3 DEF RInv, AloneInv, Ahead
  <2>5. ASSUME Undisturbed(c)' PROVE Undisturbed(c)
    BY <1>1, <2>1, <2>5 DEF Undisturbed
  <2>6. ASSUME Undisturbed(c)' PROVE ReadInv(c)' /\ FreshInv(c)'
    BY <1>1, <1>3, <2>5, <2>6 DEF RInv, ReadInv, FreshInv, Ahead
  <2>7. ASSUME Undisturbed(c)' PROVE PlainInv(c)'
    <3> SUFFICES ASSUME Clean(c), NEW u \in Contexts(c)
                 PROVE  settings'[u] = IF IsOpen(c, u)' THEN Temporary(c, u)' ELSE start'[c][u]
      BY <2>2, <2>3 DEF PlainInv
    <3>1. Temporary(c, u)' = Temporary(c, u)
      BY <1>1 DEF Temporary
    <3>2. settings[u] = IF IsOpen(c, u) THEN Temporary(c, u) ELSE start[c][u]
      BY <2>5, <2>7 DEF RInv, PlainInv
    <3>3. CASE u = t
      BY <1>1, <1>3, <1>4, <2>1, <2>5, <2>7, <3>2, <3>3
    <3>4. CASE u # t
      <4>1. settings'[u] = settings[u]
        BY <2>1, <2>2, <3>4
      <4>2. IsOpen(c, u)' <=> IsOpen(c, u)
        BY <1>3, <3>4
      <4> QED
        BY <1>1, <3>1, <3>2, <4>1, <4>2
    <3> QED
      BY <3>3, <3>4
  <2>8. ASSUME Undisturbed(c)', Updates(c) PROVE TellInv(c)'
    <3>1. \A u \in Things : u # t => (Told(c, u) => Told(c, u)')
      BY <1>1, <2>1 DEF Told
    <3>2. ASSUME NEW u \in Contexts(c), settings'[u] # start[c][u] PROVE Told(c, u)'
      <4>1. CASE u # t
        <5>1. settings'[u] = settings[u]
          BY <2>1, <2>2, <4>1
        <5>2. Told(c, u)
          BY <2>5, <2>8, <3>2, <5>1 DEF RInv, TellInv
        <5> QED
          BY <2>2, <3>1, <4>1, <5>2
      <4>2. CASE u = t
        <5>1. Refused /\ UNCHANGED <<settings, note>>
          BY <1>4, <2>1, <2>5, <2>8, <3>2, <4>2
        <5>2. Told(c, u)
          BY <2>5, <2>8, <3>2, <5>1 DEF RInv, TellInv
        <5> QED
          BY <1>1, <2>1, <5>1, <5>2 DEF Told
      <4> QED
        BY <4>1, <4>2
    <3>3. ASSUME NEW r \in pending, r[1] = c, r[2] \in Contexts(c)
          PROVE  r[3] = start[c][r[2]] \/ Told(c, r[2])'
      <4>1. r[2] # t
        BY <1>3, <2>8, <3>3 DEF RInv, AloneInv
      <4>2. r[3] = start[c][r[2]] \/ Told(c, r[2])
        BY <2>5, <2>8, <3>3 DEF RInv, TellInv
      <4> QED
        BY <2>2, <3>1, <3>3, <4>1, <4>2
    <3> QED
      BY <1>1, <2>1, <2>2, <3>2, <3>3 DEF TellInv
  <2>9. ~Updates(c) => TellInv(c)'
    BY <2>2 DEF TellInv
  <2> QED
    BY <2>4, <2>6, <2>7, <2>8, <2>9 DEF RInv
<1>7. CASE RevertFailed(c, t, v)
  <2>1. /\ Refused \/ Unanswered(c, t, v) \/ (Answered(c, t, v) /\ t \notin Keys)
        /\ failed'[c] # "no" /\ UNCHANGED note
    BY <1>7 DEF RevertFailed, Unreadable, Raise, IInv, ClientTypes
  <2> QED
    BY <1>1, <1>3, <1>4, <2>1, FailedRInv
<1> QED
  BY <1>5, <1>6, <1>7

-----------------------------------------------------------------------------
\* After the contexts: a checkout reads the new head, or watches the repository.
LEMMA GoesOnRInv ==
    ASSUME IInv, NEW c \in Clients, RInv(c), ~Updates(c), open[c] = <<>>, pc[c] # "done",
           NEW p \in {"head", "poll", "activities"}, Goto(c, p), p = "head" => Clean(c),
           UNCHANGED <<cmd, old, open, note, failed, shown, result, start, unanswered, serverVars>>
    PROVE  RInv(c)'
<1>1. pc'[c] = p /\ p # "leave" /\ p # "done" /\ p \notin Ahead
  BY DEF Goto, IInv, ClientTypes, Ahead
<1>2. /\ Contexts(c)' = Contexts(c) /\ Updates(c)' = Updates(c) /\ (Clean(c)' => Clean(c))
      /\ \A u : IsOpen(c, u)' = IsOpen(c, u)
  BY <1>1 DEF Contexts, Updates, Clean, IsOpen
<1>3. AloneInv(c)'
  BY <1>1, <1>2 DEF RInv, AloneInv, serverVars, Ahead
<1>4. ASSUME Undisturbed(c)' PROVE Undisturbed(c) /\ UNCHANGED <<settings, pending>>
  BY <1>4 DEF Undisturbed, serverVars
<1>5. ASSUME Undisturbed(c)' PROVE ReadInv(c)' /\ FreshInv(c)'
  BY <1>1, <1>4, <1>5 DEF RInv, ReadInv, FreshInv, Ahead
<1>6. ASSUME Undisturbed(c)' PROVE PlainInv(c)'
  BY <1>2, <1>4, <1>6 DEF RInv, PlainInv, Temporary
<1>7. TellInv(c)'
  BY <1>2 DEF TellInv
<1> QED
  BY <1>3, <1>5, <1>6, <1>7 DEF RInv

LEMMA EndsRInv ==
    ASSUME IInv, NEW c \in Clients, OInv(c), RInv(c),
           EndUpdate(c) \/ EndCheckout(c) \/ ReadHead(c) \/ Activities(c) \/ Poll(c) \/ Kill(c)
    PROVE  RInv(c)'
<1>1. UNCHANGED <<cmd, unanswered, serverVars>> /\ UNCHANGED <<note, start>>
  <2>1. UNCHANGED <<cmd, unanswered, serverVars>>
    BY SilentServer DEF Silent
  <2> QED
    BY <2>1 DEF EndUpdate, EndCheckout, ReadHead, Activities, Poll, Kill
<1>2. CASE EndUpdate(c)
  <2>1. pc[c] = "leave" /\ open[c] = <<>>
    BY <1>2 DEF EndUpdate
  <2>2. CASE /\ shown' = [shown EXCEPT ![c] = note[c]]
             /\ End(c, IF failed[c] = "no" THEN "ok" ELSE "error")
    <3>1. shown'[c] = note[c]
      BY <2>2 DEF IInv, ClientTypes
    <3>2. (IF failed[c] = "no" THEN "ok" ELSE "error") = "ok" => Clean(c)
      BY <2>1 DEF Clean
    <3> QED
      BY <1>1, <2>1, <2>2, <3>1, <3>2, EndedRInv
  <2>3. CASE End(c, "traceback")
    BY <1>1, <2>3, EndedRInv
  <2> QED
    BY <1>2, <2>2, <2>3 DEF EndUpdate
<1>3. CASE EndCheckout(c)
  <2>1. ~Updates(c) /\ open[c] = <<>> /\ pc[c] = "leave" /\ UNCHANGED <<note, shown, start>>
    BY <1>3, ContextThings DEF EndCheckout
  <2>2. CASE Fails(c)
    BY <1>1, <2>1, <2>2, EndedRInv DEF Fails
  <2>3. CASE failed[c] = "no" /\ Goto(c, "head") /\ UNCHANGED <<old, open, failed, result>>
    <3>1. Clean(c)
      BY <2>1, <2>3 DEF Clean
    <3> QED
      BY <1>1, <2>1, <2>3, <3>1, GoesOnRInv
  <2>4. CASE (Goto(c, "poll") \/ Goto(c, "activities")) /\ UNCHANGED <<old, open, failed, result>>
    BY <1>1, <2>1, <2>4, GoesOnRInv
  <2> QED
    BY <1>3, <2>2, <2>3, <2>4 DEF EndCheckout, Fails
<1>4. CASE ReadHead(c)
  <2>1. pc[c] = "head" /\ End(c, "ok")
    BY <1>4 DEF ReadHead
  <2>2. ~Updates(c) /\ open[c] = <<>> /\ Clean(c)
    BY <2>1 DEF RInv, AloneInv, Clean
  <2> QED
    BY <1>1, <2>1, <2>2, EndedRInv
<1>5. CASE Activities(c)
  <2>1. pc[c] = "activities" /\ ~Updates(c) /\ UNCHANGED shown
    BY <1>5 DEF Activities, RInv, AloneInv
  <2>2. CASE Fails(c)
    BY <1>1, <2>1, <2>2, EndedRInv DEF Fails
  <2>3. CASE Goto(c, "poll") /\ UNCHANGED <<result, data, config, old, open, failed>>
    <3>1. pc'[c] = "poll"
      BY <2>3 DEF Goto, IInv, ClientTypes
    <3>2. /\ Contexts(c)' = Contexts(c) /\ Updates(c)' = Updates(c) /\ ~Clean(c)'
      BY <1>1, <3>1 DEF Contexts, Updates, Clean, Ahead
    <3>3. AloneInv(c)'
      BY <1>1, <2>1, <2>3, <3>1, <3>2 DEF RInv, AloneInv, Ahead, IsOpen
    <3>4. ASSUME Undisturbed(c)' PROVE Undisturbed(c)
      BY <1>1, <3>4 DEF Undisturbed, serverVars
    <3>5. ASSUME Undisturbed(c)' PROVE ReadInv(c)' /\ FreshInv(c)' /\ PlainInv(c)' /\ TellInv(c)'
      BY <1>1, <2>1, <2>3, <3>1, <3>2, <3>4, <3>5
      DEF RInv, ReadInv, FreshInv, PlainInv, TellInv, Ahead
    <3> QED
      BY <3>3, <3>5 DEF RInv
  <2> QED
    BY <1>5, <2>2, <2>3 DEF Activities
<1>6. CASE Poll(c)
  <2>1. ~Updates(c) /\ (End(c, "recovered") \/ Fails(c))
    BY <1>6 DEF Poll, RInv, AloneInv
  <2> QED
    BY <1>1, <2>1, EndedRInv DEF Fails
<1>7. CASE Kill(c)
  <2>1. End(c, "killed")
    BY <1>7 DEF Kill
  <2> QED
    BY <1>1, <2>1, EndedRInv
<1> QED
  BY <1>2, <1>3, <1>4, <1>5, <1>6, <1>7

-----------------------------------------------------------------------------
\* A delayed request is carried out.  One of c itself finds no clean end, and
\* can be told or puts back what c first saw.
LEMMA ServeLateRInv ==
    ASSUME IInv, NEW c \in Clients, RInv(c), NEW r \in pending, ServeLate(r)
    PROVE  RInv(c)'
<1>1. r[1] \in Clients /\ r[2] \in Things \cup {"pull"} /\ r[3] \in V
  BY DEF IInv, ServerTypes
<1>2. /\ Serve(r[1], r[2], r[3]) /\ pending' \subseteq pending
      /\ UNCHANGED <<cmd, pc, data, config, old, open, note, failed, shown, result, start, unanswered>>
  BY DEF ServeLate, clientVars
<1>3. MemoryAsSeen(c) /\ RestAsSeen(c)
  BY <1>2 DEF MemoryAsSeen, RestAsSeen
<1>4. CASE r[1] # c
  <2>1. ServerAsSeen(c)
    BY <1>1, <1>2, <1>4, ServedAsSeen DEF ServerAsSeen
  <2> QED
    BY <1>3, <2>1, SeenRInv
<1>5. CASE r[1] = c
  <2>1. /\ Contexts(c)' = Contexts(c) /\ Updates(c)' = Updates(c) /\ Contexts(c) \subseteq Things
        /\ \A u : IsOpen(c, u)' = IsOpen(c, u)
    BY <1>2, ContextThings DEF Contexts, Updates, IsOpen
  <2>2. ~Clean(c) /\ (Clean(c)' = Clean(c))
    BY <1>2, <1>5 DEF RInv, AloneInv, Clean
  <2>3. AloneInv(c)'
    <3>1. Entering(c)' = Entering(c)
      BY <1>2 DEF Entering
    <3> QED
      BY <1>2, <2>1, <2>2, <3>1 DEF RInv, AloneInv
  <2>4. ASSUME Undisturbed(c)' PROVE Undisturbed(c)
    BY <1>1, <1>2, <2>4 DEF Undisturbed, Serve, IInv, ServerTypes
  <2>5. pc[c] \notin Ahead
    BY <2>2 DEF Clean
  <2>6. ASSUME Undisturbed(c)' PROVE ReadInv(c)' /\ FreshInv(c)' /\ PlainInv(c)'
    <3>1. ReadInv(c)'
      BY <1>2, <2>4, <2>5, <2>6 DEF RInv, ReadInv, Ahead
    <3>2. FreshInv(c)'
      BY <1>2, <2>5 DEF FreshInv
    <3>3. PlainInv(c)'
      BY <2>2 DEF PlainInv
    <3> QED
      BY <3>1, <3>2, <3>3
  <2>7. \A u \in Things : settings'[u] = settings[u] \/ (u = r[2] /\ settings'[u] = r[3])
    <3>1. settings \in Maps
      BY SettingsAreMaps DEF IInv, ServerTypes
    <3> QED
      BY <1>2, <3>1 DEF Serve, Maps
  <2>8. ASSUME Undisturbed(c)', Updates(c) PROVE TellInv(c)'
    <3>1. \A u : Told(c, u)' = Told(c, u)
      BY <1>2 DEF Told
    <3>2. ASSUME NEW u \in Contexts(c), settings'[u] # start[c][u] PROVE Told(c, u)
      <4>1. CASE settings'[u] = settings[u]
        BY <2>4, <2>8, <3>2, <4>1 DEF RInv, TellInv
      <4>2. CASE u = r[2] /\ settings'[u] = r[3]
        BY <1>5, <2>4, <2>8, <3>2, <4>2 DEF RInv, TellInv
      <4> QED
        BY <2>1, <2>7, <4>1, <4>2
    <3>3. ASSUME NEW q \in pending', q[1] = c, q[2] \in Contexts(c)
          PROVE  q[3] = start[c][q[2]] \/ Told(c, q[2])
      BY <1>2, <2>4, <2>8, <3>3 DEF RInv, TellInv
    <3> QED
      BY <1>2, <2>1, <3>1, <3>2, <3>3 DEF TellInv
  <2>9. ~Updates(c) => TellInv(c)'
    BY <2>1 DEF TellInv
  <2> QED
    BY <2>3, <2>6, <2>8, <2>9 DEF RInv
<1> QED
  BY <1>4, <1>5

LEMMA NextRInv == RestoreInv /\ [Next]_vars => RestoreInv'
<1> SUFFICES ASSUME RestoreInv, [Next]_vars, NEW c \in Clients PROVE RInv(c)'
  BY NextInv DEF RestoreInv
<1>1. IInv /\ OInv(c) /\ RInv(c)
  BY DEF RestoreInv, Inv
<1>2. ASSUME NEW d \in Clients, Step(d) \/ Kill(d), d # c PROVE RInv(c)'
  BY <1>1, <1>2, OthersRInv
<1>3. ASSUME Step(c) \/ Kill(c) PROVE RInv(c)'
  BY <1>1, <1>3, FetchRInv, ReadRepoRInv, ReadConfigRInv, ReadKeyRInv, ReadBranchRInv,
     SetTemporaryRInv, BodyRInv, RevertRInv, EndsRInv DEF Step
<1>4. ASSUME NEW r \in pending, ServeLate(r) PROVE RInv(c)'
  BY <1>1, <1>4, ServeLateRInv
<1>5. CASE UNCHANGED vars
  <2>1. ServerAsSeen(c) /\ MemoryAsSeen(c) /\ RestAsSeen(c)
    BY <1>5 DEF vars, ServerAsSeen, MemoryAsSeen, RestAsSeen
  <2> QED
    BY <1>1, <2>1, SeenRInv
<1> QED
  BY <1>2, <1>3, <1>4, <1>5 DEF Next

LEMMA RestoreInvariance == Spec => []RestoreInv
<1>1. Init => RestoreInv
  BY InitInv, InitOInv, InitRInv DEF RestoreInv, Inv
<1> QED
  BY <1>1, NextRInv, PTL DEF Spec

-----------------------------------------------------------------------------
\* A command that ends well (temporary_config and temporary_switched_branch of
\* sap/rest/gcts/sugar.py) has put back every option and the branch, whatever
\* else runs, as long as nobody else changed the repository: none of its own
\* requests is still on its way, and what its cache told was the truth.
THEOREM CommandsRestore == Spec => []OkMeansRestored
<1>1. RestoreInv => OkMeansRestored
  <2> SUFFICES ASSUME RestoreInv, NEW c \in Clients, result[c] = "ok", Undisturbed(c),
                      NEW t \in Contexts(c)
               PROVE  settings[t] = start[c][t]
    BY DEF OkMeansRestored
  <2>1. AloneInv(c) /\ PlainInv(c)
    BY DEF RestoreInv, RInv
  <2>2. pc[c] = "done" /\ open[c] = <<>> /\ Clean(c)
    BY <2>1 DEF AloneInv, Clean
  <2>3. ~IsOpen(c, t)
    <3>1. Len(open[c]) = 0
      BY <2>2
    <3> QED
      BY <3>1 DEF IsOpen
  <2> QED
    BY <2>1, <2>2, <2>3 DEF PlainInv
<1> QED
  BY <1>1, RestoreInvariance, PTL

\* Whatever sapcli gcts repo branch update_filesystem (sap/cli/gcts.py) could not
\* put back, it has a recover message for, with the value to restore, also when a
\* request that it has given up arrives after its end; and it prints the message
\* unless it ends with a traceback.  The exception is an option whose first change
\* lost its answer, for which there never is a recover message.
THEOREM UpdateTells == Spec => []UpdateTellsWhatToRestore
<1>1. RestoreInv => UpdateTellsWhatToRestore
  <2> SUFFICES ASSUME RestoreInv, NEW c \in Clients, Updates(c), Undisturbed(c),
                      result[c] \in {"ok", "error", "traceback"},
                      NEW t \in Contexts(c), settings[t] # start[c][t]
               PROVE  \/ /\ note[c][t] = start[c][t]
                         /\ result[c] # "traceback" => shown[c][t] = note[c][t]
                      \/ t \in Keys \cap unanswered[c] /\ note[c][t] = "none"
    BY DEF UpdateTellsWhatToRestore, Updates
  <2>1. AloneInv(c) /\ TellInv(c)
    BY DEF RestoreInv, RInv
  <2>2. (result[c] # "traceback" => shown[c] = note[c]) /\ Told(c, t)
    BY <2>1 DEF AloneInv, TellInv
  <2> QED
    BY <2>2 DEF Told
<1> QED
  BY <1>1, RestoreInvariance, PTL
=============================================================================
