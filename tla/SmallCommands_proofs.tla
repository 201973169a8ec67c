-------------------------- MODULE SmallCommands_proofs -------------------------
(***************************************************************************)
(* Proofs about five parts of Commands: Attributes, Users, AdhocRun,       *)
(* Strust and Marshalling. A section gives the types of its part and the   *)
(* invariant that makes its properties inductive, shows that every action  *)
(* keeps them, and ends with the theorems of CommandsSpec (of Spec, for    *)
(* Attributes). The last theorem is about the types of all parts, those of *)
(* Commands_proofs included.                                               *)
(***************************************************************************)
EXTENDS Commands_proofs

-----------------------------------------------------------------------------
(***************************************************************************)
(* Attributes, for every set of fields besides the one the user asks for:  *)
(* changing it loses no other change that was made before the object was   *)
(* read or after it was locked.                                            *)
(***************************************************************************)
AttributePlaces == {"create", "fetch", "validate", "lock", "push", "unlock", "activate", "send", "done"}
AttributeAges == {"no", "early", "between", "late"}

AttributeTypes ==
    /\ client \in [cmd: Commands, have: [Fields -> Values], pc: AttributePlaces, failed: BOOLEAN,
                   exit: {"none", "ok", "error"}]
    /\ server \in [exists: BOOLEAN, locked: BOOLEAN, fields: [Fields -> Values]]
    /\ seen \in [before: [Fields -> Values], others: [Fields -> AttributeAges], refused: BOOLEAN]

\* The value that field f had when the object was read.
WasRead(f) == IF seen.others[f] = "early" THEN "theirs" ELSE seen.before[f]

\* How old a change of somebody else is, from where the command is.
AgeInv ==
    \A f \in Fields :
        /\ Reading => seen.others[f] \in {"no", "early"}
        /\ client.pc \in {"validate", "lock", "send", "push"} => seen.others[f] # "late"

\* What was read is what is sent back.
ReadInv ==
    client.pc \in {"validate", "lock", "push", "send"} /\ ~Reading =>
        \A f \in Fields \ Sets : client.have[f] = WasRead(f)

\* The lock is held exactly where the code is between lock and unlock, and
\* featuretoggle takes none.
LockInv ==
    /\ server.locked <=> client.pc \in {"push", "unlock"}
    /\ client.cmd.do = "toggle" => client.pc \in {"send", "done"}

\* Before the request that changes the object, its fields have their old values.
Untouched == \A f \in Fields : server.fields[f] \in {seen.before[f], "theirs"}
UntouchedInv ==
    /\ client.pc \in {"create", "fetch", "validate"} => Untouched
    /\ seen.refused => client.pc = "done" /\ Untouched

\* After it, the field that was asked for has its value.
IsSet == server.fields["asked"] = "asked" \/ seen.others["asked"] \in {"between", "late"}
SetInv ==
    /\ client.exit = "ok" => client.pc = "done"
    /\ /\ client.exit = "ok" \/ client.pc = "activate" \/ (client.pc = "unlock" /\ ~client.failed)
       /\ client.cmd.given
       => IsSet

AttributeInv ==
    /\ AttributeTypes /\ AgeInv /\ ReadInv /\ LockInv /\ UntouchedInv /\ SetInv
    /\ NothingLost

-----------------------------------------------------------------------------
LEMMA AskedIsField == "asked" \in Fields
BY DEF Fields

USE AskedIsField

\* The fields of a new object, and those at the beginning, are values.
LEMMA AttributeInit == Init => AttributeInv
<1> SUFFICES ASSUME Init
             PROVE  AttributeInv
  OBVIOUS
<1>1. PICK wanted \in Commands, exists \in BOOLEAN, asked \in {"old", "asked"} :
        /\ LET fields == IF exists THEN [f \in Fields |-> IF f = "asked" THEN asked ELSE "old"] ELSE New
           IN  /\ server = [exists |-> exists, locked |-> FALSE, fields |-> fields]
               /\ seen = [before |-> fields, others |-> [f \in Fields |-> "no"], refused |-> FALSE]
        /\ client = [cmd |-> wanted, have |-> New, failed |-> FALSE, exit |-> "none",
                     pc |-> CASE wanted.do = "define" -> "create"
                              [] wanted.do = "toggle" -> "send"
                              [] OTHER -> "fetch"]
  BY DEF Init
<1> DEFINE fields == IF exists THEN [f \in Fields |-> IF f = "asked" THEN asked ELSE "old"] ELSE New
<1>2. fields \in [Fields -> Values]
  BY DEF New, Values
<1>3. client.pc \in {"create", "send", "fetch"} /\ client.cmd = wanted /\ client.exit = "none"
      /\ (client.pc = "send" => wanted.do = "toggle") /\ client.have = New /\ client.failed = FALSE
  BY <1>1
<1>4. /\ server.fields = fields /\ seen.before = fields /\ ~server.locked
      /\ seen.others = [f \in Fields |-> "no"] /\ ~seen.refused
  BY <1>1
<1> HIDE DEF fields
<1>5. AttributeTypes
  <2>1. New \in [Fields -> Values]
    BY DEF New, Values
  <2>2. client \in [cmd: Commands, have: [Fields -> Values], pc: AttributePlaces, failed: BOOLEAN,
                    exit: {"none", "ok", "error"}]
    BY <1>1, <2>1 DEF AttributePlaces
  <2>3. server \in [exists: BOOLEAN, locked: BOOLEAN, fields: [Fields -> Values]]
    BY <1>1, <1>2 DEF fields
  <2>4. seen \in [before: [Fields -> Values], others: [Fields -> AttributeAges], refused: BOOLEAN]
    BY <1>1, <1>2 DEF fields, AttributeAges
  <2> QED
    BY <2>2, <2>3, <2>4 DEF AttributeTypes
<1>6. AgeInv /\ ReadInv /\ LockInv /\ SetInv
  BY <1>1, <1>3, <1>4 DEF AgeInv, ReadInv, Reading, LockInv, SetInv
<1>7. UntouchedInv /\ NothingLost
  BY <1>4 DEF UntouchedInv, Untouched, NothingLost
<1> QED
  BY <1>5, <1>6, <1>7 DEF AttributeInv

\* A step of the command that leaves the object and the history alone.
LEMMA AttributeError ==
    ASSUME AttributeInv, Exit("error"), UNCHANGED <<server, seen>>, ~server.locked
    PROVE  AttributeInv'
<1>1. /\ client'.pc = "done" /\ client'.exit = "error" /\ client'.cmd = client.cmd
      /\ client' \in [cmd: Commands, have: [Fields -> Values], pc: AttributePlaces, failed: BOOLEAN,
                      exit: {"none", "ok", "error"}]
  BY DEF AttributeInv, AttributeTypes, Exit, AttributePlaces
<1>2. Sets' = Sets
  BY <1>1 DEF Sets
<1> QED
  BY <1>1, <1>2 DEF AttributeInv, AttributeTypes, AgeInv, ReadInv, Reading, LockInv, UntouchedInv, Untouched,
                    SetInv, NothingLost

LEMMA AttributeExits ==
    ASSUME AttributeTypes, NEW how \in {"ok", "error"}, Exit(how)
    PROVE  /\ client'.cmd = client.cmd /\ client'.pc = "done" /\ client'.exit = how
           /\ client' \in [cmd: Commands, have: [Fields -> Values], pc: AttributePlaces, failed: BOOLEAN,
                           exit: {"none", "ok", "error"}]
BY DEF AttributeTypes, Exit, AttributePlaces

LEMMA AttributeCreate ==
    ASSUME AttributeInv, Create
    PROVE  AttributeInv'
<1>1. CASE /\ server' = [server EXCEPT !.exists = TRUE]
           /\ client' = [client EXCEPT !.pc = "fetch"] \/ Exit("error")
           /\ UNCHANGED seen
  <2>1. /\ server'.fields = server.fields /\ server'.locked = server.locked
        /\ server' \in [exists: BOOLEAN, locked: BOOLEAN, fields: [Fields -> Values]]
    BY <1>1 DEF AttributeInv, AttributeTypes
  <2>2. /\ client'.cmd = client.cmd
        /\ \/ client'.pc = "fetch" /\ client'.exit = client.exit
           \/ client'.pc = "done" /\ client'.exit = "error"
        /\ client' \in [cmd: Commands, have: [Fields -> Values], pc: AttributePlaces, failed: BOOLEAN,
                        exit: {"none", "ok", "error"}]
    BY <1>1, AttributeExits DEF AttributeInv, AttributeTypes, AttributePlaces
  <2>3. Sets' = Sets
    BY <2>2 DEF Sets
  <2> QED
    BY <1>1, <2>1, <2>2, <2>3
    DEF Create, AttributeInv, AttributeTypes, AgeInv, ReadInv, Reading, LockInv, UntouchedInv, Untouched, SetInv,
        NothingLost
<1>2. CASE client' = [client EXCEPT !.pc = "fetch"] /\ UNCHANGED <<server, seen>>
  <2>1. /\ client'.cmd = client.cmd /\ client'.pc = "fetch" /\ client'.exit = client.exit
        /\ client' \in [cmd: Commands, have: [Fields -> Values], pc: AttributePlaces, failed: BOOLEAN,
                        exit: {"none", "ok", "error"}]
    BY <1>2 DEF AttributeInv, AttributeTypes, AttributePlaces
  <2>2. Sets' = Sets
    BY <2>1 DEF Sets
  <2> QED
    BY <1>2, <2>1, <2>2
    DEF Create, AttributeInv, AttributeTypes, AgeInv, ReadInv, Reading, LockInv, UntouchedInv, Untouched, SetInv,
        NothingLost
<1>3. CASE Fail
  BY <1>3, AttributeError DEF Fail, Create, AttributeInv, LockInv
<1> QED
  BY <1>1, <1>2, <1>3 DEF Create

LEMMA AttributeFetch ==
    ASSUME AttributeInv, Fetch
    PROVE  AttributeInv'
<1> DEFINE goal == CASE client.cmd.do = "apistate" -> "validate"
                     [] client.cmd.do = "publish" -> "send"
                     [] NothingToDo -> "done"
                     [] OTHER -> "lock"
           exit == IF NothingToDo THEN "ok" ELSE client.exit
<1>1. CASE /\ client' = [client EXCEPT !.have = server.fields, !.pc = goal, !.exit = exit]
           /\ UNCHANGED <<server, seen>>
  <2>1. /\ client'.cmd = client.cmd /\ client'.have = server.fields
        /\ client'.pc = goal /\ client'.exit = exit
    BY <1>1 DEF AttributeInv, AttributeTypes
  <2>2. /\ goal \in {"validate", "send", "done", "lock"}
        /\ goal = "send" => client.cmd.do = "publish"
        /\ NothingToDo => goal = "done" /\ server.fields["asked"] = "asked"
        /\ exit = "ok" => NothingToDo \/ client.exit = "ok"
        /\ exit \in {client.exit, "ok"}
    BY DEF NothingToDo
  <2> HIDE DEF goal, exit
  <2>3. client' \in [cmd: Commands, have: [Fields -> Values], pc: AttributePlaces, failed: BOOLEAN,
                     exit: {"none", "ok", "error"}]
    BY <1>1, <2>2 DEF AttributeInv, AttributeTypes, AttributePlaces
  <2>4. Sets' = Sets
    BY <2>1 DEF Sets
  <2>5. client.pc = "fetch" /\ client.exit # "ok"
    BY DEF Fetch, AttributeInv, SetInv
  <2>6. AttributeTypes'
    BY <1>1, <2>3 DEF AttributeInv, AttributeTypes
  <2>7. AgeInv' /\ LockInv' /\ UntouchedInv' /\ SetInv' /\ NothingLost'
    BY <1>1, <2>1, <2>2, <2>4, <2>5
    DEF AttributeInv, AgeInv, Reading, LockInv, UntouchedInv, Untouched, SetInv, IsSet, NothingLost
  <2>8. ReadInv'
    BY <1>1, <2>1, <2>2, <2>4, <2>5
    DEF AttributeInv, AgeInv, ReadInv, Reading, WasRead, NothingLost
  <2> QED
    BY <2>6, <2>7, <2>8 DEF AttributeInv
<1>2. CASE Fail
  BY <1>2, AttributeError DEF Fail, Fetch, AttributeInv, LockInv
<1> QED
  BY <1>1, <1>2 DEF Fetch

LEMMA AttributeValidate ==
    ASSUME AttributeInv, Validate
    PROVE  AttributeInv'
<1>1. CASE client' = [client EXCEPT !.pc = "send"] /\ UNCHANGED <<server, seen>>
  <2>1. /\ client'.cmd = client.cmd /\ client'.have = client.have
        /\ client'.pc = "send" /\ client'.exit = client.exit
        /\ client' \in [cmd: Commands, have: [Fields -> Values], pc: AttributePlaces, failed: BOOLEAN,
                        exit: {"none", "ok", "error"}]
    BY <1>1 DEF AttributeInv, AttributeTypes, AttributePlaces
  <2>2. Sets' = Sets
    BY <2>1 DEF Sets
  <2>3. client.cmd.do # "toggle"
    BY DEF Validate, AttributeInv, LockInv
  <2> QED
    BY <1>1, <2>1, <2>2, <2>3
    DEF Validate, AttributeInv, AttributeTypes, AgeInv, ReadInv, Reading, WasRead, LockInv, UntouchedInv,
        Untouched, SetInv, NothingLost
<1>2. CASE Exit("error") /\ seen' = [seen EXCEPT !.refused = TRUE] /\ UNCHANGED server
  <2>1. /\ client'.pc = "done" /\ client'.exit = "error" /\ client'.cmd = client.cmd
        /\ client' \in [cmd: Commands, have: [Fields -> Values], pc: AttributePlaces, failed: BOOLEAN,
                        exit: {"none", "ok", "error"}]
    BY <1>2 DEF AttributeInv, AttributeTypes, Exit, AttributePlaces
  <2>2. /\ seen'.others = seen.others /\ seen'.before = seen.before
        /\ seen' \in [before: [Fields -> Values], others: [Fields -> AttributeAges], refused: BOOLEAN]
    BY <1>2 DEF AttributeInv, AttributeTypes
  <2>3. Sets' = Sets
    BY <2>1 DEF Sets
  <2> QED
    BY <1>2, <2>1, <2>2, <2>3
    DEF Validate, AttributeInv, AttributeTypes, AgeInv, ReadInv, Reading, LockInv, UntouchedInv, Untouched, SetInv,
        NothingLost
<1>3. CASE Fail
  BY <1>3, AttributeError DEF Fail, Validate, AttributeInv, LockInv
<1> QED
  BY <1>1, <1>2, <1>3 DEF Validate

LEMMA AttributeLock ==
    ASSUME AttributeInv, Lock
    PROVE  AttributeInv'
<1>1. CASE /\ client' = [client EXCEPT !.pc = "push"]
           /\ server' = [server EXCEPT !.locked = TRUE] /\ UNCHANGED seen
  <2>1. /\ client'.cmd = client.cmd /\ client'.have = client.have
        /\ client'.pc = "push" /\ client'.exit = client.exit
        /\ client' \in [cmd: Commands, have: [Fields -> Values], pc: AttributePlaces, failed: BOOLEAN,
                        exit: {"none", "ok", "error"}]
    BY <1>1 DEF AttributeInv, AttributeTypes, AttributePlaces
  <2>2. /\ server'.fields = server.fields /\ server'.locked
        /\ server' \in [exists: BOOLEAN, locked: BOOLEAN, fields: [Fields -> Values]]
    BY <1>1 DEF AttributeInv, AttributeTypes
  <2>3. Sets' = Sets
    BY <2>1 DEF Sets
  <2> QED
    BY <1>1, <2>1, <2>2, <2>3
    DEF Lock, AttributeInv, AttributeTypes, AgeInv, ReadInv, Reading, WasRead, LockInv, UntouchedInv,
        Untouched, SetInv, NothingLost
<1>2. CASE Fail
  BY <1>2, AttributeError DEF Fail, Lock, AttributeInv, LockInv
<1> QED
  BY <1>1, <1>2 DEF Lock

\* What a request changes: the field that was asked for gets its value, and the
\* fields that the command does not set are sent as they were read, or not at all.
LEMMA AttributePut ==
    ASSUME AttributeTypes, NEW fields \in [Fields -> Values], Put(fields)
    PROVE  /\ server' = [server EXCEPT !.fields = fields]
           /\ client.cmd.given => fields["asked"] = "asked"
           /\ \A f \in Fields \ Sets : fields[f] \in {client.have[f], server.fields[f]}
           /\ client.cmd.do = "toggle" => \A f \in Fields \ Sets : fields[f] = server.fields[f]
<1>1. server' = [server EXCEPT !.fields = fields] /\ \A f \in Fields : fields[f] \in Payload(f)
  BY DEF Put
<1>2. client.cmd.given => Payload("asked") = {"asked"}
  BY DEF Payload, Copied
<1>3. ASSUME NEW f \in Fields \ Sets
      PROVE  IF client.cmd.do \in {"publish", "toggle"} THEN Payload(f) = {server.fields[f]}
                                                      ELSE Payload(f) = {client.have[f]}
  BY <1>3 DEF Payload, Sets, Copied
<1> QED
  BY <1>1, <1>2, <1>3

LEMMA AttributePush ==
    ASSUME AttributeInv, Push
    PROVE  AttributeInv'
<1>1. PICK failed \in BOOLEAN :
        /\ client' = [client EXCEPT !.pc = "unlock", !.failed = failed]
        /\ \/ \E fields \in [Fields -> Values] : Put(fields)
           \/ failed /\ UNCHANGED server
  BY DEF Push
<1>2. /\ client'.cmd = client.cmd /\ client'.pc = "unlock" /\ client'.exit = client.exit
      /\ client'.failed = failed
      /\ client' \in [cmd: Commands, have: [Fields -> Values], pc: AttributePlaces, failed: BOOLEAN,
                      exit: {"none", "ok", "error"}]
  BY <1>1 DEF AttributeInv, AttributeTypes, AttributePlaces
<1>3. /\ client.pc = "push" /\ ~Reading /\ client.exit # "ok" /\ seen' = seen /\ ~seen.refused
  BY DEF Push, Reading, AttributeInv, SetInv, UntouchedInv
<1>4. Sets' = Sets
  BY <1>2 DEF Sets
<1>5. CASE \E fields \in [Fields -> Values] : Put(fields)
  <2>1. PICK fields \in [Fields -> Values] : Put(fields)
    BY <1>5
  <2>2. /\ server' = [server EXCEPT !.fields = fields]
        /\ client.cmd.given => fields["asked"] = "asked"
        /\ \A f \in Fields \ Sets : fields[f] \in {client.have[f], server.fields[f]}
    BY <2>1, AttributePut DEF AttributeInv
  <2>3. /\ server'.fields = fields /\ server'.locked = server.locked
        /\ server' \in [exists: BOOLEAN, locked: BOOLEAN, fields: [Fields -> Values]]
    BY <2>2 DEF AttributeInv, AttributeTypes
  <2>4. NothingLost'
    BY <1>2, <1>3, <1>4, <2>2, <2>3 DEF AttributeInv, AttributeTypes, AgeInv, ReadInv, WasRead, NothingLost, AttributeAges
  <2> QED
    BY <1>2, <1>3, <1>4, <2>2, <2>3, <2>4
    DEF AttributeInv, AttributeTypes, AgeInv, ReadInv, Reading, LockInv, UntouchedInv, SetInv, IsSet
<1>6. CASE failed /\ UNCHANGED server
  BY <1>2, <1>3, <1>4, <1>6
  DEF AttributeInv, AttributeTypes, AgeInv, ReadInv, Reading, LockInv, UntouchedInv, SetInv, NothingLost
<1> QED
  BY <1>1, <1>5, <1>6

LEMMA AttributeUnlock ==
    ASSUME AttributeInv, Unlock
    PROVE  AttributeInv'
<1>1. /\ client'.cmd = client.cmd
      /\ client' \in [cmd: Commands, have: [Fields -> Values], pc: AttributePlaces, failed: BOOLEAN,
                      exit: {"none", "ok", "error"}]
      /\ \/ client'.pc = "activate" /\ client'.exit = client.exit /\ ~client.failed
         \/ client'.pc = "done" /\ client'.exit = "ok" /\ ~client.failed
         \/ client'.pc = "done" /\ client'.exit = "error"
  <2>1. CASE client' = [client EXCEPT !.pc = "activate"] /\ ~client.failed
    BY <2>1 DEF AttributeInv, AttributeTypes, AttributePlaces
  <2>2. CASE Exit("ok") /\ ~client.failed
    BY <2>2 DEF Exit, AttributeInv, AttributeTypes, AttributePlaces
  <2>3. CASE Exit("error")
    BY <2>3 DEF Exit, AttributeInv, AttributeTypes, AttributePlaces
  <2> QED
    BY <2>1, <2>2, <2>3 DEF Unlock
<1>2. /\ server'.fields = server.fields /\ ~server'.locked
      /\ server' \in [exists: BOOLEAN, locked: BOOLEAN, fields: [Fields -> Values]]
  BY DEF Unlock, AttributeInv, AttributeTypes
<1>3. client.pc = "unlock" /\ client.exit # "ok" /\ seen' = seen
  BY DEF Unlock, AttributeInv, SetInv
<1>4. Sets' = Sets
  BY <1>1 DEF Sets
<1> QED
  BY <1>1, <1>2, <1>3, <1>4
  DEF AttributeInv, AttributeTypes, AgeInv, ReadInv, Reading, LockInv, UntouchedInv, Untouched, SetInv, IsSet,
      NothingLost

LEMMA AttributeActivate ==
    ASSUME AttributeInv, Activate
    PROVE  AttributeInv'
<1>1. /\ client'.cmd = client.cmd /\ client'.pc = "done" /\ client'.exit \in {"ok", "error"}
      /\ client' \in [cmd: Commands, have: [Fields -> Values], pc: AttributePlaces, failed: BOOLEAN,
                      exit: {"none", "ok", "error"}]
  BY AttributeExits DEF Activate, AttributeInv, AttributeTypes
<1>2. client.pc = "activate" /\ seen' = seen /\ server' = server
  BY DEF Activate
<1>3. Sets' = Sets
  BY <1>1 DEF Sets
<1> QED
  BY <1>1, <1>2, <1>3
  DEF AttributeInv, AttributeTypes, AgeInv, ReadInv, Reading, LockInv, UntouchedInv, Untouched, SetInv, IsSet,
      NothingLost

LEMMA AttributeSend ==
    ASSUME AttributeInv, Send
    PROVE  AttributeInv'
<1>1. CASE /\ \E fields \in [Fields -> Values] : Put(fields)
           /\ \E how \in {"ok", "error"} : Exit(how)
           /\ UNCHANGED seen
  <2>1. PICK fields \in [Fields -> Values] : Put(fields)
    BY <1>1
  <2>2. /\ server' = [server EXCEPT !.fields = fields]
        /\ client.cmd.given => fields["asked"] = "asked"
        /\ \A f \in Fields \ Sets : fields[f] \in {client.have[f], server.fields[f]}
        /\ client.cmd.do = "toggle" => \A f \in Fields \ Sets : fields[f] = server.fields[f]
    BY <2>1, AttributePut DEF AttributeInv
  <2>3. /\ server'.fields = fields /\ server'.locked = server.locked
        /\ server' \in [exists: BOOLEAN, locked: BOOLEAN, fields: [Fields -> Values]]
    BY <2>2 DEF AttributeInv, AttributeTypes
  <2>4. /\ client'.cmd = client.cmd /\ client'.pc = "done" /\ client'.exit \in {"ok", "error"}
        /\ client' \in [cmd: Commands, have: [Fields -> Values], pc: AttributePlaces, failed: BOOLEAN,
                        exit: {"none", "ok", "error"}]
    BY <1>1, AttributeExits DEF AttributeInv, AttributeTypes
  <2>5. client.pc = "send" /\ seen' = seen /\ ~seen.refused
    BY <1>1 DEF Send, AttributeInv, UntouchedInv
  <2>6. Sets' = Sets
    BY <2>4 DEF Sets
  <2>7. CASE client.cmd.do = "toggle"
    BY <2>2, <2>3, <2>4, <2>5, <2>6, <2>7
    DEF AttributeInv, AttributeTypes, AgeInv, ReadInv, Reading, LockInv, UntouchedInv, SetInv, IsSet, NothingLost
  <2>8. CASE client.cmd.do # "toggle"
    <3>1. ~Reading
      BY <2>5, <2>8 DEF Reading
    <3>2. NothingLost'
      BY <2>2, <2>3, <2>5, <2>6, <3>1 DEF AttributeInv, AttributeTypes, AgeInv, ReadInv, WasRead, NothingLost, AttributeAges
    <3> QED
      BY <2>2, <2>3, <2>4, <2>5, <2>6, <3>2
      DEF AttributeInv, AttributeTypes, AgeInv, ReadInv, Reading, LockInv, UntouchedInv, SetInv, IsSet
  <2> QED
    BY <2>7, <2>8
<1>2. CASE Fail
  BY <1>2, AttributeError DEF Fail, Send, AttributeInv, LockInv
<1> QED
  BY <1>1, <1>2 DEF Send

LEMMA AttributeOthers ==
    ASSUME AttributeInv, Others
    PROVE  AttributeInv'
<1>1. PICK f \in Fields :
        /\ seen.others = [g \in Fields |-> "no"]
        /\ server' = [server EXCEPT !.fields[f] = "theirs"]
        /\ seen' = [seen EXCEPT !.others[f] = Now]
  BY DEF Others
<1>2. /\ Now \in {"early", "between", "late"} /\ client' = client /\ ~server.locked
      /\ Reading => Now = "early"
      /\ client.pc \in {"validate", "lock", "send"} /\ ~Reading => Now = "between"
      /\ client.pc \in {"activate", "done"} => Now = "late"
  BY DEF Others, Now, Reading
<1>3. /\ server'.fields = [server.fields EXCEPT ![f] = "theirs"] /\ ~server'.locked
      /\ server' \in [exists: BOOLEAN, locked: BOOLEAN, fields: [Fields -> Values]]
  BY <1>1, <1>2 DEF AttributeInv, AttributeTypes, Values
<1>4. /\ seen'.others = [seen.others EXCEPT ![f] = Now]
      /\ seen'.before = seen.before /\ seen'.refused = seen.refused
      /\ seen' \in [before: [Fields -> Values], others: [Fields -> AttributeAges], refused: BOOLEAN]
  BY <1>1, <1>2 DEF AttributeInv, AttributeTypes, AttributeAges
<1>5. client.pc \notin {"push", "unlock"}
  BY <1>2 DEF AttributeInv, LockInv
<1>6. AttributeTypes'
  BY <1>2, <1>3, <1>4 DEF AttributeInv, AttributeTypes
<1>7. Sets' = Sets /\ Reading' = Reading
  BY <1>2 DEF Sets, Reading
<1>8. AgeInv' /\ LockInv'
  BY <1>2, <1>3, <1>4, <1>5, <1>7 DEF AttributeInv, AttributeTypes, AgeInv, LockInv, AttributeAges
<1>9. ReadInv'
  BY <1>1, <1>2, <1>4, <1>5, <1>7 DEF AttributeInv, AttributeTypes, ReadInv, WasRead, AttributeAges
<1>10. UntouchedInv' /\ SetInv' /\ NothingLost'
  BY <1>1, <1>2, <1>3, <1>4, <1>5, <1>7
  DEF AttributeInv, AttributeTypes, UntouchedInv, Untouched, SetInv, IsSet, NothingLost, AttributeAges, Values
<1> QED
  BY <1>6, <1>8, <1>9, <1>10 DEF AttributeInv

LEMMA AttributeStep == AttributeInv /\ [Next]_vars => AttributeInv'
<1> SUFFICES ASSUME AttributeInv, [Next]_vars
             PROVE  AttributeInv'
  OBVIOUS
<1>1. CASE UNCHANGED vars
  BY <1>1 DEF vars, AttributeInv, AttributeTypes, AgeInv, ReadInv, Reading, WasRead, LockInv, UntouchedInv, Untouched,
              SetInv, IsSet, NothingLost, Sets
<1> QED
  BY <1>1, AttributeCreate, AttributeFetch, AttributeValidate, AttributeLock, AttributePush, AttributeUnlock, AttributeActivate, AttributeSend,
     AttributeOthers DEF Next

(***************************************************************************)
(* The variables keep their types, for every set of fields that has the    *)
(* one the user asks for.                                                  *)
(***************************************************************************)
THEOREM AttributeTypesKept == Spec => []TypeOK
<1>1. AttributeInv => TypeOK
  BY DEF AttributeInv, AttributeTypes, TypeOK, AttributePlaces, AttributeAges
<1> QED
  BY <1>1, AttributeInit, AttributeStep, PTL DEF Spec

(***************************************************************************)
(* Changing one attribute of an object loses no other one, except while it *)
(* is not locked between the reading and the change; a success is true; a  *)
(* refused validation changes nothing, and no lock stays behind.           *)
(***************************************************************************)
THEOREM AttributesChangeAlone == Spec => []AttributesAsAsked
<1>1. AttributeInv => AttributesAsAsked
  BY DEF AttributeInv, AttributesAsAsked, OkMeansSet, SetInv, IsSet, NothingUnwanted, UntouchedInv,
         Untouched, LockInv
<1> QED
  BY <1>1, AttributeInit, AttributeStep, PTL DEF Spec

-----------------------------------------------------------------------------
\* A step of the whole is a step of the part that was chosen.
LEMMA SmallStep ==
    ASSUME [CommandsNext]_all
    PROVE  /\ part' = part
           /\ part = "strust" => Trust!Next \/ UNCHANGED small
           /\ part = "adhoc" => Adhoc!Next \/ UNCHANGED small
           /\ part = "user" => User!Next \/ UNCHANGED small
           /\ part = "xml" => Xml!Next \/ UNCHANGED small
BY DEF CommandsNext, all

LEMMA SmallInit ==
    ASSUME CommandsInit
    PROVE  /\ part = "strust" => Trust!Init
           /\ part = "adhoc" => Adhoc!Init
           /\ part = "user" => User!Init
           /\ part = "xml" => Xml!Init
BY DEF CommandsInit

-----------------------------------------------------------------------------
(***************************************************************************)
(* Users.                                                                  *)
(***************************************************************************)
UserActors == [cmd: User!Commands, pc: {"idle", "details", "first", "second"},
               type: User!Types \cup {"unknown"}, result: {"none", "ok", "error"}]
UserPlaces == [exists: BOOLEAN, type: User!Types, password: User!Passwords,
               productive: BOOLEAN]
UserHistories == [commands: 0 .. MaxCommands, others: BOOLEAN, aborted: BOOLEAN,
                  halfway: BOOLEAN]

UserTypes == actor \in UserActors /\ place \in UserPlaces /\ history \in UserHistories

\* A new user has the type that is asked for, an existing one the type that was read,
\* if there was one in the answer.
UserKnows ==
    /\ actor.cmd.do = "create" => actor.type \in User!Types /\ actor.pc # "details"
    /\ ~history.others /\ actor.pc = "first" /\ actor.cmd.do = "change" =>
          actor.type \in {place.type, "unknown"}

\* The second call is on its way only for a dialog user that waits with the dummy
\* password for a productive one, unless the first call was aborted.
UserWaits ==
    ~history.others /\ actor.pc = "second" =>
        /\ actor.cmd.productive /\ actor.cmd.password = "new" /\ actor.type = "dialog"
        /\ (place.exists /\ place.password = "dummy") \/ history.aborted

UserDone ==
    ~history.others /\ actor.pc = "idle" /\ actor.result = "ok" /\ ~history.aborted
    /\ actor.cmd.password # "none" =>
        /\ place.exists
        /\ place.password = "new"
        /\ actor.cmd.productive /\ actor.type # "unknown" => place.productive

UserDummy ==
    ~history.others /\ place.password = "dummy" =>
        history.halfway \/ history.aborted \/ actor.pc = "second"

UserInv == UserTypes /\ UserKnows /\ UserWaits /\ UserDone /\ UserDummy

LEMMA UserInit == User!Init => UserInv
<1> SUFFICES ASSUME User!Init PROVE UserInv
  OBVIOUS
<1>1. /\ actor \in UserActors /\ actor.pc = "idle" /\ actor.result = "none"
      /\ actor.type \in User!Types
  BY DEF User!Init, UserActors, User!Commands, User!Types
<1>2. place \in UserPlaces /\ place.password = "old"
  BY DEF User!Init, UserPlaces, User!Passwords, User!Types
<1>3. history \in UserHistories
  BY BoundsAssumption DEF User!Init, UserHistories
<1> QED
  BY <1>1, <1>2, <1>3 DEF UserInv, UserTypes, UserKnows, UserWaits, UserDone, UserDummy

\* What the pieces of a step leave alone.
LEMMA UserEnds ==
    ASSUME actor \in UserActors, NEW r \in {"none", "ok", "error"}, User!End(r)
    PROVE  /\ actor' \in UserActors /\ actor'.cmd = actor.cmd /\ actor'.type = actor.type
           /\ actor'.pc = "idle" /\ actor'.result = r
BY DEF UserActors, User!End

LEMMA UserGoes ==
    ASSUME actor \in UserActors, User!Goto("second")
    PROVE  /\ actor' \in UserActors /\ actor'.cmd = actor.cmd /\ actor'.type = actor.type
           /\ actor'.pc = "second" /\ actor'.result = actor.result
BY DEF UserActors, User!Goto

LEMMA UserAborts ==
    ASSUME history \in UserHistories, history' = [history EXCEPT !.aborted = TRUE]
    PROVE  /\ history' \in UserHistories /\ history'.others = history.others
           /\ history'.aborted /\ history'.halfway = history.halfway
BY DEF UserHistories

LEMMA UserHalfway ==
    ASSUME history \in UserHistories, NEW b \in BOOLEAN,
           history' = [history EXCEPT !.halfway = @ \/ b]
    PROVE  /\ history' \in UserHistories /\ history'.others = history.others
           /\ history'.aborted = history.aborted
           /\ history'.halfway <=> history.halfway \/ b
BY DEF UserHistories

LEMMA UserNeeded ==
    ASSUME actor \in UserActors
    PROVE  User!Needed \in BOOLEAN
BY DEF UserActors, User!Needed, User!Commands

LEMMA UserStart ==
    ASSUME UserInv, User!Start
    PROVE  UserInv'
<1>1. /\ actor' \in UserActors /\ actor'.pc # "second" /\ actor'.result = "none"
      /\ actor.pc = "idle" /\ actor'.type \in User!Types
      /\ actor'.cmd.do = "create" => actor'.pc = "first"
      /\ actor'.cmd.do = "change" => actor'.pc = "details"
  BY DEF User!Start, UserActors, User!Commands
<1>2. /\ history' \in UserHistories /\ history'.others = history.others
      /\ history'.aborted = history.aborted /\ history'.halfway = history.halfway
  BY BoundsAssumption DEF UserInv, UserTypes, User!Start, UserHistories
<1> QED
  BY <1>1, <1>2 DEF UserInv, UserTypes, UserKnows, UserWaits, UserDone, UserDummy, User!Start

LEMMA UserDetails ==
    ASSUME UserInv, User!Details
    PROVE  UserInv'
<1>a. actor.pc = "details" /\ UNCHANGED place
  BY DEF User!Details
<1>1. CASE /\ \/ actor' = [actor EXCEPT !.type = place.type, !.pc = "first"]
              \/ actor' = [actor EXCEPT !.type = "unknown", !.pc = "first"]
           /\ UNCHANGED history
  <2>1. /\ actor' \in UserActors /\ actor'.pc = "first" /\ actor'.cmd = actor.cmd
        /\ actor'.type \in {place.type, "unknown"}
    BY <1>1 DEF UserInv, UserTypes, UserActors, UserPlaces
  <2> QED
    BY <1>a, <1>1, <2>1 DEF UserInv, UserTypes, UserKnows, UserWaits, UserDone, UserDummy
<1>2. CASE User!Raise
  <2>1. /\ actor' \in UserActors /\ actor'.pc = "idle" /\ actor'.result = "error"
        /\ actor'.cmd = actor.cmd /\ actor'.type = actor.type
    BY <1>2, UserEnds DEF User!Raise, UserInv, UserTypes
  <2>2. /\ history' \in UserHistories /\ history'.others = history.others
        /\ history'.aborted = history.aborted /\ (history.halfway => history'.halfway)
    BY <1>2, UserHalfway DEF User!Raise, UserInv, UserTypes
  <2> QED
    BY <1>a, <2>1, <2>2 DEF UserInv, UserTypes, UserKnows, UserWaits, UserDone, UserDummy
<1> QED
  BY <1>1, <1>2 DEF User!Details

LEMMA UserFirst ==
    ASSUME UserInv, User!First
    PROVE  UserInv'
<1> DEFINE type == IF actor.cmd.do = "create" THEN actor.type ELSE place.type
           password == IF User!Needed THEN "dummy"
                       ELSE IF actor.cmd.password = "none" THEN "initial" ELSE "new"
           user == [exists |-> TRUE, password |-> password,
                    type |-> type, productive |-> type = "service"]
           next == IF User!Needed THEN User!Goto("second") ELSE User!End("ok")
<1>a. actor.pc = "first"
  BY DEF User!First
<1>b. /\ user \in UserPlaces /\ user.exists /\ (user.productive <=> type = "service")
      /\ user.password = password
  BY DEF UserInv, UserTypes, UserKnows, UserActors, UserPlaces, User!Passwords
<1>k. ~history.others /\ actor.type # "unknown" => type = actor.type
  BY <1>a DEF UserInv, UserKnows, UserTypes, UserActors, User!Commands
<1>t. /\ actor.type \in {"dialog", "service", "unknown"}
      /\ actor.cmd.password \in {"none", "new", "dummy"}
  BY DEF UserInv, UserTypes, UserActors, User!Types, User!Commands
<1>c. CASE /\ User!Needed /\ actor.cmd.password = "dummy"
           /\ User!End("error") /\ UNCHANGED <<place, history>>
  <2>1. /\ actor' \in UserActors /\ actor'.pc = "idle" /\ actor'.result = "error"
        /\ actor'.cmd = actor.cmd /\ actor'.type = actor.type
    BY <1>c, UserEnds DEF UserInv, UserTypes
  <2> QED
    BY <1>a, <1>c, <2>1 DEF UserInv, UserTypes, UserKnows, UserWaits, UserDone, UserDummy
<1>d. CASE /\ ~(User!Needed /\ actor.cmd.password = "dummy")
           /\ User!Call(place.exists = (actor.cmd.do = "change"), user, next)
  <2> HIDE DEF user
  <2>d. ~(User!Needed /\ actor.cmd.password = "dummy")
    BY <1>d
  <2>n. next => /\ actor' \in UserActors /\ actor'.cmd = actor.cmd /\ actor'.type = actor.type
                /\ User!Needed => actor'.pc = "second"
                /\ ~User!Needed => actor'.pc = "idle" /\ actor'.result = "ok"
    <3>1. CASE User!Needed
      BY <3>1, UserGoes DEF UserInv, UserTypes
    <3>2. CASE ~User!Needed
      BY <3>2, UserEnds DEF UserInv, UserTypes
    <3> QED
      BY <3>1, <3>2
  <2> HIDE DEF next
  <2>1. CASE place' = user /\ next /\ UNCHANGED history
    <3>1. UserTypes'
      BY <1>b, <2>1, <2>n DEF UserInv, UserTypes
    <3> QED
      BY <1>a, <1>b, <1>d, <1>k, <1>t, <2>1, <2>n, <3>1
      DEF UserInv, UserKnows, UserWaits, UserDone, UserDummy, User!Needed
  <2>2. CASE UNCHANGED place /\ next /\ history' = [history EXCEPT !.aborted = TRUE]
    <3>1. /\ history' \in UserHistories /\ history'.others = history.others
          /\ history'.aborted /\ history'.halfway = history.halfway
      BY <2>2, UserAborts DEF UserInv, UserTypes
    <3>2. UserTypes' /\ UserKnows' /\ UserWaits'
      BY <1>a, <1>t, <2>d, <2>2, <2>n, <3>1
      DEF UserInv, UserTypes, UserKnows, UserWaits, User!Needed
    <3>3. UserDone' /\ UserDummy'
      BY <1>a, <2>2, <2>n, <3>1 DEF UserInv, UserDone, UserDummy
    <3> QED
      BY <3>2, <3>3 DEF UserInv
  <2>3. CASE UNCHANGED place /\ User!Raise
    <3>1. /\ actor' \in UserActors /\ actor'.pc = "idle" /\ actor'.result = "error"
          /\ actor'.cmd = actor.cmd /\ actor'.type = actor.type
      BY <2>3, UserEnds DEF User!Raise, UserInv, UserTypes
    <3>2. /\ history' \in UserHistories /\ history'.others = history.others
          /\ history'.aborted = history.aborted /\ (history.halfway => history'.halfway)
      BY <2>3, UserHalfway DEF User!Raise, UserInv, UserTypes
    <3> QED
      BY <1>a, <2>3, <3>1, <3>2 DEF UserInv, UserTypes, UserKnows, UserWaits, UserDone, UserDummy
  <2>4. CASE /\ place' = user /\ User!End("error")
             /\ history' = [history EXCEPT !.halfway = @ \/ User!Needed]
    <3>1. /\ actor' \in UserActors /\ actor'.pc = "idle" /\ actor'.result = "error"
          /\ actor'.cmd = actor.cmd /\ actor'.type = actor.type
      BY <2>4, UserEnds DEF UserInv, UserTypes
    <3>2. /\ history' \in UserHistories /\ history'.others = history.others
          /\ history'.halfway <=> history.halfway \/ User!Needed
      BY <2>4, UserHalfway, UserNeeded DEF UserInv, UserTypes
    <3> QED
      BY <1>a, <1>b, <2>4, <3>1, <3>2
      DEF UserInv, UserTypes, UserKnows, UserWaits, UserDone, UserDummy
  <2> QED
    BY <1>d, <2>1, <2>2, <2>3, <2>4 DEF User!Call
<1> QED
  BY <1>c, <1>d DEF User!First

LEMMA UserSecond ==
    ASSUME UserInv, User!Second
    PROVE  UserInv'
<1> DEFINE user == [place EXCEPT !.password = "new", !.productive = TRUE]
<1>a. actor.pc = "second"
  BY DEF User!Second
<1>b. /\ user \in UserPlaces
      /\ user.exists = place.exists /\ user.productive /\ user.password = "new"
  BY DEF UserInv, UserTypes, UserPlaces, User!Passwords
<1>c. User!Call(place.exists /\ place.password = "dummy", user, User!End("ok"))
  BY DEF User!Second
<1> HIDE DEF user
<1>1. CASE /\ place.exists /\ place.password = "dummy"
           /\ place' = user /\ User!End("ok") /\ UNCHANGED history
  <2>1. /\ actor' \in UserActors /\ actor'.cmd = actor.cmd /\ actor'.type = actor.type
        /\ actor'.pc = "idle" /\ actor'.result = "ok"
    BY <1>1, UserEnds DEF UserInv, UserTypes
  <2> QED
    BY <1>a, <1>b, <1>1, <2>1 DEF UserInv, UserTypes, UserKnows, UserWaits, UserDone, UserDummy
<1>2. CASE UNCHANGED place /\ User!End("ok") /\ history' = [history EXCEPT !.aborted = TRUE]
  <2>1. /\ actor' \in UserActors /\ actor'.pc = "idle"
        /\ actor'.cmd = actor.cmd /\ actor'.type = actor.type
    BY <1>2, UserEnds DEF UserInv, UserTypes
  <2>2. history' \in UserHistories /\ history'.aborted
    BY <1>2, UserAborts DEF UserInv, UserTypes
  <2> QED
    BY <1>a, <1>2, <2>1, <2>2 DEF UserInv, UserTypes, UserKnows, UserWaits, UserDone, UserDummy
<1>3. CASE UNCHANGED place /\ User!Raise
  <2>1. /\ actor' \in UserActors /\ actor'.pc = "idle" /\ actor'.result = "error"
        /\ actor'.cmd = actor.cmd /\ actor'.type = actor.type
    BY <1>3, UserEnds DEF User!Raise, UserInv, UserTypes
  <2>2. history' \in UserHistories /\ history'.halfway
    BY <1>a, <1>3, UserHalfway DEF User!Raise, UserInv, UserTypes
  <2> QED
    BY <1>a, <1>3, <2>1, <2>2 DEF UserInv, UserTypes, UserKnows, UserWaits, UserDone, UserDummy
<1>4. CASE /\ place' = user /\ User!End("error")
           /\ history' = [history EXCEPT !.halfway = @ \/ User!Needed]
  <2>1. /\ actor' \in UserActors /\ actor'.pc = "idle" /\ actor'.result = "error"
        /\ actor'.cmd = actor.cmd /\ actor'.type = actor.type
    BY <1>4, UserEnds DEF UserInv, UserTypes
  <2>2. history' \in UserHistories
    BY <1>4, UserHalfway, UserNeeded DEF UserInv, UserTypes
  <2> QED
    BY <1>a, <1>b, <1>4, <2>1, <2>2
    DEF UserInv, UserTypes, UserKnows, UserWaits, UserDone, UserDummy
<1> QED
  BY <1>c, <1>1, <1>2, <1>3, <1>4 DEF User!Call

LEMMA UserOthers ==
    ASSUME UserInv, User!Others
    PROVE  UserInv'
<1>1. place' \in UserPlaces
  BY DEF UserInv, UserTypes, UserPlaces, User!Others, User!Types, User!Passwords
<1>2. history' \in UserHistories /\ history'.others
  BY DEF UserInv, UserTypes, UserHistories, User!Others
<1> QED
  BY <1>1, <1>2 DEF UserInv, UserTypes, UserKnows, UserWaits, UserDone, UserDummy, User!Others

UserPart == part = "user" => UserInv

LEMMA UserAlways == CommandsSpec => []UserPart
<1> USE DEF UserPart
<1>1. CommandsInit => UserPart
  BY SmallInit, UserInit
<1>2. ASSUME UserPart, [CommandsNext]_all
      PROVE  UserPart'
  <2>1. CASE UNCHANGED small
    BY <1>2, <2>1, SmallStep
    DEF small, UserInv, UserTypes, UserKnows, UserWaits, UserDone, UserDummy
  <2>2. CASE User!Next
    <3>1. UserInv => UserInv'
      BY <2>2, UserStart, UserDetails, UserFirst, UserSecond, UserOthers
      DEF User!Next, User!Step
    <3> QED
      BY <1>2, <3>1, SmallStep
  <2> QED
    BY <1>2, <2>1, <2>2, SmallStep
<1> QED
  BY <1>1, <1>2, PTL DEF CommandsSpec

\* A user command that reports success has set the password that it was told to, and
\* made it productive if it was asked to and the answer had the type of the user; the
\* dummy password stays behind only after a command that failed half way or was
\* aborted; unless another administrator interfered.
THEOREM Passwords == CommandsSpec => []PasswordIsKnown
<1>1. UserPart => PasswordIsKnown
  BY DEF UserPart, UserInv, UserTypes, UserKnows, UserWaits, UserDone, UserDummy, PasswordIsKnown,
         User!PasswordIsKnown
<1> QED
  BY <1>1, UserAlways, PTL

-----------------------------------------------------------------------------
(***************************************************************************)
(* AdhocRun.                                                               *)
(***************************************************************************)
AdhocRuns == [pc: {"idle", "create", "edit", "activate", "execute", "delete"},
              name: ClassNames, result: {"none", "ok", "error"},
              output: Adhoc!Programs, runs: 0 .. MaxRuns]
AdhocServers == [class: [ClassNames -> [by: Adhoc!Programs, code: Adhoc!Programs, active: Adhoc!Programs]],
                 late: SUBSET Adhoc!Late]
AdhocHistories == [faulty: SUBSET Clients, robbed: SUBSET Clients]

AdhocTypes ==
    /\ actor \in [Clients -> AdhocRuns]
    /\ place \in AdhocServers
    /\ history \in AdhocHistories

\* A class is one of its creator's run, or the creator had a request without an answer.
AdhocOwnedAt(n) ==
    LET class == place.class[n]
    IN  /\ class.by = "none" => class = Adhoc!NoClass
        /\ class.by \in Clients =>
              \/ class.by \in history.faulty
              \/ actor[class.by].name = n /\ actor[class.by].pc # "idle"
AdhocLateFaulty == \A r \in place.late : r.by \in history.faulty
AdhocOwner == (\A n \in ClassNames : AdhocOwnedAt(n)) /\ AdhocLateFaulty

\* As long as no class was taken away from its creator, a run works on its own
\* class, and what is in it is its own program.
AdhocRunOwn(c) ==
    /\ actor[c].pc \in {"edit", "activate", "execute"} => place.class[actor[c].name].by = c
    /\ actor[c].pc \in {"activate", "execute"} => place.class[actor[c].name].code = c
    /\ actor[c].pc \in {"idle", "delete"} /\ actor[c].result = "ok" => actor[c].output = c
    /\ actor[c].pc = "delete" /\ actor[c].result # "error" => actor[c].output = c
AdhocClassOwn(n) ==
    LET class == place.class[n]
    IN  class.code \in {"none", class.by} /\ class.active \in {"none", class.by}
AdhocOwn ==
    history.robbed = {} =>
        (\A c \in Clients : AdhocRunOwn(c)) /\ (\A n \in ClassNames : AdhocClassOwn(n))

AdhocInv == AdhocTypes /\ AdhocOwner /\ AdhocOwn

LEMMA AdhocInit == Adhoc!Init => AdhocInv
BY ClientsAssumption, BoundsAssumption
DEF AdhocInv, AdhocTypes, AdhocRuns, AdhocServers, AdhocHistories, AdhocOwner, AdhocOwnedAt, AdhocLateFaulty,
    AdhocOwn, AdhocRunOwn, AdhocClassOwn, Adhoc!Init, Adhoc!NoClass, Adhoc!Programs

\* What a step of a run makes of it.
AdhocOthersWait(c) == \A d \in Clients \ {c} : actor'[d] = actor[d]
AdhocOtherClasses(n) == \A m \in ClassNames \ {n} : place'.class[m] = place.class[m]
AdhocClasses == [by: Adhoc!Programs, code: Adhoc!Programs, active: Adhoc!Programs]

LEMMA AdhocBecomes ==
    ASSUME actor \in [Clients -> AdhocRuns], NEW c \in Clients, NEW run \in AdhocRuns,
           actor' = [actor EXCEPT ![c] = run]
    PROVE  actor' \in [Clients -> AdhocRuns] /\ actor'[c] = run /\ AdhocOthersWait(c)
BY DEF AdhocOthersWait

LEMMA AdhocRecordGoes ==
    ASSUME NEW run \in AdhocRuns, NEW p \in {"idle", "create", "edit", "activate", "execute", "delete"}
    PROVE  LET new == [run EXCEPT !.pc = p]
           IN  /\ new \in AdhocRuns /\ new.pc = p /\ new.name = run.name
               /\ new.result = run.result /\ new.output = run.output
BY DEF AdhocRuns

LEMMA AdhocRecordEnds ==
    ASSUME NEW run \in AdhocRuns, NEW p \in {"idle", "delete"}, NEW r \in {"ok", "error"}
    PROVE  LET new == [run EXCEPT !.pc = p, !.result = r]
           IN  /\ new \in AdhocRuns /\ new.pc = p /\ new.name = run.name
               /\ new.result = r /\ new.output = run.output
BY DEF AdhocRuns

LEMMA AdhocRecordPrints ==
    ASSUME NEW run \in AdhocRuns, NEW o \in Adhoc!Programs
    PROVE  LET new == [run EXCEPT !.pc = "delete", !.output = o]
           IN  /\ new \in AdhocRuns /\ new.pc = "delete" /\ new.name = run.name
               /\ new.result = run.result /\ new.output = o
BY DEF AdhocRuns

LEMMA AdhocGoes ==
    ASSUME actor \in [Clients -> AdhocRuns], NEW c \in Clients,
           NEW p \in {"idle", "create", "edit", "activate", "execute", "delete"},
           actor' = [actor EXCEPT ![c].pc = p]
    PROVE  /\ actor' \in [Clients -> AdhocRuns] /\ AdhocOthersWait(c)
           /\ actor'[c].pc = p /\ actor'[c].name = actor[c].name
           /\ actor'[c].result = actor[c].result /\ actor'[c].output = actor[c].output
<1> DEFINE new == [actor[c] EXCEPT !.pc = p]
<1>1. actor' = [actor EXCEPT ![c] = new] /\ actor[c] \in AdhocRuns
  OBVIOUS
<1>2. /\ new \in AdhocRuns /\ new.pc = p /\ new.name = actor[c].name
      /\ new.result = actor[c].result /\ new.output = actor[c].output
  BY <1>1, AdhocRecordGoes
<1> HIDE DEF new
<1> QED
  BY <1>1, <1>2, AdhocBecomes

LEMMA AdhocEnds ==
    ASSUME actor \in [Clients -> AdhocRuns], NEW c \in Clients, NEW p \in {"idle", "delete"},
           NEW r \in {"ok", "error"},
           actor' = [actor EXCEPT ![c].pc = p, ![c].result = r]
    PROVE  /\ actor' \in [Clients -> AdhocRuns] /\ AdhocOthersWait(c)
           /\ actor'[c].pc = p /\ actor'[c].name = actor[c].name
           /\ actor'[c].result = r /\ actor'[c].output = actor[c].output
<1> DEFINE new == [actor[c] EXCEPT !.pc = p, !.result = r]
<1>1. actor' = [actor EXCEPT ![c] = new] /\ actor[c] \in AdhocRuns
  OBVIOUS
<1>2. /\ new \in AdhocRuns /\ new.pc = p /\ new.name = actor[c].name
      /\ new.result = r /\ new.output = actor[c].output
  BY <1>1 DEF AdhocRuns
<1> HIDE DEF new
<1> QED
  BY <1>1, <1>2, AdhocBecomes

LEMMA AdhocPrints ==
    ASSUME actor \in [Clients -> AdhocRuns], NEW c \in Clients, NEW o \in Adhoc!Programs,
           actor' = [actor EXCEPT ![c].pc = "delete", ![c].output = o]
    PROVE  /\ actor' \in [Clients -> AdhocRuns] /\ AdhocOthersWait(c)
           /\ actor'[c].pc = "delete" /\ actor'[c].name = actor[c].name
           /\ actor'[c].result = actor[c].result /\ actor'[c].output = o
<1> DEFINE new == [actor[c] EXCEPT !.pc = "delete", !.output = o]
<1>1. actor' = [actor EXCEPT ![c] = new] /\ actor[c] \in AdhocRuns
  OBVIOUS
<1>2. /\ new \in AdhocRuns /\ new.pc = "delete" /\ new.name = actor[c].name
      /\ new.result = actor[c].result /\ new.output = o
  BY <1>1, AdhocRecordPrints
<1> HIDE DEF new
<1> QED
  BY <1>1, <1>2, AdhocBecomes

\* What a request makes of the classes.
LEMMA AdhocPuts ==
    ASSUME place \in AdhocServers, NEW n \in ClassNames, NEW class \in AdhocClasses,
           place' = [place EXCEPT !.class[n] = class]
    PROVE  /\ place' \in AdhocServers /\ place'.class[n] = class
           /\ AdhocOtherClasses(n) /\ place'.late = place.late
BY DEF AdhocServers, AdhocClasses, AdhocOtherClasses

LEMMA AdhocDelays ==
    ASSUME place \in AdhocServers, NEW r \in Adhoc!Late,
           place' = [place EXCEPT !.late = @ \cup {r}]
    PROVE  /\ place' \in AdhocServers /\ place'.class = place.class
           /\ place'.late = place.late \cup {r}
BY DEF AdhocServers

LEMMA AdhocFaulty ==
    ASSUME history \in AdhocHistories, NEW c \in Clients, Adhoc!Fault(c)
    PROVE  /\ history' \in AdhocHistories /\ history'.robbed = history.robbed
           /\ history'.faulty = history.faulty \cup {c}
BY DEF AdhocHistories, Adhoc!Fault

LEMMA AdhocRobs ==
    ASSUME history \in AdhocHistories, NEW S \in SUBSET Clients, NEW b,
           history' = [history EXCEPT !.robbed = @ \cup ({b} \cap S)]
    PROVE  /\ history' \in AdhocHistories /\ history'.faulty = history.faulty
           /\ history'.robbed = history.robbed \cup ({b} \cap S)
BY DEF AdhocHistories

\* A step of process c that leaves the other processes and all classes but n alone:
\* what is to be shown of c and n.
LEMMA AdhocOwnerKept ==
    ASSUME AdhocOwner, NEW c \in Clients, NEW n \in ClassNames,
           actor[c].pc = "idle" \/ actor[c].name = n,
           AdhocOthersWait(c), AdhocOtherClasses(n), history.faulty \subseteq history'.faulty,
           AdhocOwnedAt(n)', AdhocLateFaulty'
    PROVE  AdhocOwner'
<1>1. ASSUME NEW m \in ClassNames, m # n
      PROVE  AdhocOwnedAt(m)'
  <2>1. place'.class[m] = place.class[m] /\ AdhocOwnedAt(m)
    BY <1>1 DEF AdhocOwner, AdhocOtherClasses
  <2>2. CASE place.class[m].by \in Clients \ {c}
    <3>1. actor'[place.class[m].by] = actor[place.class[m].by]
      BY <2>2 DEF AdhocOthersWait
    <3> QED
      BY <2>1, <2>2, <3>1 DEF AdhocOwnedAt
  <2>3. CASE place.class[m].by \notin Clients \ {c}
    BY <1>1, <2>1, <2>3 DEF AdhocOwnedAt
  <2> QED
    BY <2>2, <2>3
<1> QED
  BY <1>1 DEF AdhocOwner

AdhocFree(c, n) ==
    \A d \in Clients \ {c} :
        actor[d].pc \in {"edit", "activate", "execute"} => actor[d].name # n

LEMMA AdhocAlone ==
    ASSUME AdhocOwn, history.robbed = {}, NEW c \in Clients, NEW n \in ClassNames,
           place.class[n].by \notin Clients \ {c}
    PROVE  AdhocFree(c, n)
BY DEF AdhocOwn, AdhocRunOwn, AdhocFree

LEMMA AdhocOwnKept ==
    ASSUME AdhocTypes, AdhocOwn, NEW c \in Clients, NEW n \in ClassNames,
           AdhocOthersWait(c), AdhocOtherClasses(n), history.robbed \subseteq history'.robbed,
           history'.robbed = {} =>
              /\ AdhocRunOwn(c)' /\ AdhocClassOwn(n)'
              /\ AdhocFree(c, n) \/ place'.class[n] = place.class[n]
    PROVE  AdhocOwn'
<1> SUFFICES ASSUME history'.robbed = {}
             PROVE  /\ \A d \in Clients : AdhocRunOwn(d)'
                    /\ \A m \in ClassNames : AdhocClassOwn(m)'
  BY DEF AdhocOwn
<1>1. ASSUME NEW d \in Clients, d # c
      PROVE  AdhocRunOwn(d)'
  <2>1. actor'[d] = actor[d] /\ AdhocRunOwn(d) /\ actor[d].name \in ClassNames
    BY <1>1 DEF AdhocOwn, AdhocOthersWait, AdhocTypes, AdhocRuns
  <2>2. CASE actor[d].pc \in {"edit", "activate", "execute"}
    <3>1. place'.class[actor[d].name] = place.class[actor[d].name]
      BY <1>1, <2>1, <2>2 DEF AdhocFree, AdhocOtherClasses
    <3> QED
      BY <2>1, <3>1 DEF AdhocRunOwn
  <2>3. CASE actor[d].pc \notin {"edit", "activate", "execute"}
    BY <2>1, <2>3 DEF AdhocRunOwn
  <2> QED
    BY <2>2, <2>3
<1>2. ASSUME NEW m \in ClassNames, m # n
      PROVE  AdhocClassOwn(m)'
  BY <1>2 DEF AdhocOwn, AdhocClassOwn, AdhocOtherClasses
<1> QED
  BY <1>1, <1>2

LEMMA AdhocStart ==
    ASSUME AdhocInv, NEW c \in Clients, Adhoc!Start(c)
    PROVE  AdhocInv'
<1>1. PICK n \in ClassNames : actor' = [actor EXCEPT ![c] = [pc |-> "create", name |-> n,
            result |-> "none", output |-> "none", runs |-> actor[c].runs + 1]]
  BY DEF Adhoc!Start
<1> DEFINE run == [pc |-> "create", name |-> n, result |-> "none", output |-> "none",
                   runs |-> actor[c].runs + 1]
<1>2. /\ actor \in [Clients -> AdhocRuns] /\ actor[c].pc = "idle" /\ UNCHANGED <<place, history>>
      /\ run \in AdhocRuns /\ run.pc = "create" /\ run.result = "none"
  BY BoundsAssumption DEF Adhoc!Start, AdhocInv, AdhocTypes, AdhocRuns, Adhoc!Programs
<1> HIDE DEF run
<1>3. actor' \in [Clients -> AdhocRuns] /\ actor'[c] = run /\ AdhocOthersWait(c)
  BY <1>1, <1>2, AdhocBecomes DEF run
<1>4. AdhocTypes' /\ AdhocOtherClasses(n)
  BY <1>2, <1>3 DEF AdhocInv, AdhocTypes, AdhocOtherClasses
<1>5. AdhocOwnedAt(n)'
  <2>1. AdhocOwnedAt(n)
    BY DEF AdhocInv, AdhocOwner
  <2>2. place.class[n].by \in Clients \ {c} => actor'[place.class[n].by] = actor[place.class[n].by]
    BY <1>3 DEF AdhocOthersWait
  <2> QED
    BY <1>2, <2>1, <2>2 DEF AdhocOwnedAt
<1>6. AdhocOwner'
  <2>1. AdhocLateFaulty'
    BY <1>2 DEF AdhocInv, AdhocOwner, AdhocLateFaulty
  <2> QED
    BY <1>2, <1>3, <1>4, <1>5, <2>1, AdhocOwnerKept DEF AdhocInv
<1>7. AdhocOwn'
  <2>1. AdhocRunOwn(c)'
    BY <1>2, <1>3 DEF AdhocRunOwn
  <2>2. history'.robbed = {} => AdhocClassOwn(n)'
    BY <1>2 DEF AdhocInv, AdhocOwn, AdhocClassOwn
  <2> QED
    BY <1>2, <1>3, <1>4, <2>1, <2>2, AdhocOwnKept DEF AdhocInv
<1> QED
  BY <1>4, <1>6, <1>7 DEF AdhocInv

\* What is to be shown of a step of a request on the class of the run.
LEMMA AdhocRequest ==
    ASSUME AdhocInv, AdhocTypes', NEW c \in Clients, actor[c].pc # "idle",
           actor'[c].name = actor[c].name,
           AdhocOthersWait(c), AdhocOtherClasses(actor[c].name),
           history.faulty \subseteq history'.faulty, history.robbed \subseteq history'.robbed,
           AdhocOwnedAt(actor[c].name)', AdhocLateFaulty',
           history.robbed = {} /\ history'.robbed = {} =>
              /\ AdhocRunOwn(c)' /\ AdhocClassOwn(actor[c].name)'
              /\ \/ place.class[actor[c].name].by \notin Clients \ {c}
                 \/ place'.class[actor[c].name] = place.class[actor[c].name]
    PROVE  AdhocInv'
<1>1. actor[c].name \in ClassNames /\ AdhocTypes /\ AdhocOwner /\ AdhocOwn
  BY DEF AdhocInv, AdhocTypes, AdhocRuns
<1> PICK n \in ClassNames : n = actor[c].name
  BY <1>1
<1>p. AdhocOwnedAt(n)' /\ (AdhocClassOwn(actor[c].name)' => AdhocClassOwn(n)')
  BY DEF AdhocOwnedAt, AdhocClassOwn
<1>2. history'.robbed = {} =>
          /\ AdhocRunOwn(c)' /\ AdhocClassOwn(n)'
          /\ AdhocFree(c, n) \/ place'.class[n] = place.class[n]
  BY <1>1, <1>p, AdhocAlone
<1>3. AdhocOwner'
  BY <1>1, <1>p, AdhocOwnerKept
<1>4. AdhocOwn'
  BY <1>1, <1>2, AdhocOwnKept
<1> QED
  BY <1>3, <1>4 DEF AdhocInv

\* What is known of a run and its class before.
AdhocKnown(c) ==
    /\ AdhocOwnedAt(actor[c].name) /\ AdhocLateFaulty /\ actor[c].name \in ClassNames
    /\ history.robbed = {} => AdhocRunOwn(c) /\ AdhocClassOwn(actor[c].name)
    /\ actor \in [Clients -> AdhocRuns] /\ place \in AdhocServers /\ history \in AdhocHistories
    /\ place.class[actor[c].name] \in AdhocClasses
    /\ place.class[actor[c].name] = Adhoc!NoClass <=> place.class[actor[c].name].by = "none"
    /\ place.class[actor[c].name] # Adhoc!NoClass => place.class[actor[c].name].by \in Clients

LEMMA AdhocKnows ==
    ASSUME AdhocInv, NEW c \in Clients
    PROVE  AdhocKnown(c)
<1>1. /\ actor \in [Clients -> AdhocRuns] /\ place \in AdhocServers /\ history \in AdhocHistories
      /\ actor[c].name \in ClassNames /\ place.class[actor[c].name] \in AdhocClasses
  BY DEF AdhocInv, AdhocTypes, AdhocRuns, AdhocServers, AdhocClasses
<1>2. /\ AdhocOwnedAt(actor[c].name) /\ AdhocLateFaulty
      /\ history.robbed = {} => AdhocRunOwn(c) /\ AdhocClassOwn(actor[c].name)
  BY <1>1 DEF AdhocInv, AdhocOwner, AdhocOwn
<1>3. place.class[actor[c].name].by \in Clients \cup {"none"} /\ Adhoc!NoClass.by = "none"
  BY <1>1 DEF AdhocClasses, Adhoc!Programs, Adhoc!NoClass
<1> QED
  BY <1>1, <1>2, <1>3 DEF AdhocKnown, AdhocOwnedAt

\* The class stays as it is, and the run does not end.
LEMMA AdhocStays ==
    ASSUME AdhocInv, NEW c \in Clients, actor[c].pc # "idle", UNCHANGED <<place, history>>,
           actor' \in [Clients -> AdhocRuns], AdhocOthersWait(c), actor'[c].pc # "idle",
           actor'[c].name = actor[c].name, history.robbed = {} => AdhocRunOwn(c)'
    PROVE  AdhocInv'
<1> DEFINE n == actor[c].name
<1>1. AdhocKnown(c)
  BY AdhocKnows
<1>2. AdhocTypes' /\ AdhocOtherClasses(n) /\ AdhocLateFaulty'
  BY <1>1 DEF AdhocKnown, AdhocTypes, AdhocOtherClasses, AdhocLateFaulty
<1>3. AdhocOwnedAt(n)'
  <2>1. place.class[n].by \in Clients \ {c} => actor'[place.class[n].by] = actor[place.class[n].by]
    BY DEF AdhocOthersWait
  <2> QED
    BY <1>1, <2>1 DEF AdhocKnown, AdhocOwnedAt
<1>4. history.robbed = {} => AdhocClassOwn(n)'
  BY <1>1 DEF AdhocKnown, AdhocClassOwn
<1> QED
  BY <1>2, <1>3, <1>4, AdhocRequest

\* The class stays as it is, and the run has a request without an answer.
LEMMA AdhocWaits ==
    ASSUME AdhocInv, NEW c \in Clients, actor[c].pc # "idle",
           actor' \in [Clients -> AdhocRuns], AdhocOthersWait(c), actor'[c].name = actor[c].name,
           place' \in AdhocServers, place'.class = place.class,
           \A r \in place'.late : r \in place.late \/ r.by = c,
           history' \in AdhocHistories, history'.robbed = history.robbed,
           history'.faulty = history.faulty \cup {c},
           history.robbed = {} => AdhocRunOwn(c)'
    PROVE  AdhocInv'
<1> DEFINE n == actor[c].name
<1>1. AdhocKnown(c)
  BY AdhocKnows
<1>2. AdhocTypes' /\ AdhocOtherClasses(n) /\ AdhocLateFaulty'
  BY <1>1 DEF AdhocKnown, AdhocTypes, AdhocOtherClasses, AdhocLateFaulty
<1>3. AdhocOwnedAt(n)'
  <2>1. place.class[n].by \in Clients \ {c} => actor'[place.class[n].by] = actor[place.class[n].by]
    BY DEF AdhocOthersWait
  <2> QED
    BY <1>1, <2>1 DEF AdhocKnown, AdhocOwnedAt
<1>4. history.robbed = {} => AdhocClassOwn(n)'
  BY <1>1 DEF AdhocKnown, AdhocClassOwn
<1> QED
  BY <1>2, <1>3, <1>4, AdhocRequest

LEMMA AdhocCreate ==
    ASSUME AdhocInv, NEW c \in Clients, Adhoc!Create(c)
    PROVE  AdhocInv'
<1> DEFINE name == actor[c].name
           new == Adhoc!New(c)
           created == place.class[name] = Adhoc!NoClass /\ place' = [place EXCEPT !.class[name] = new]
           late == [do |-> "create", by |-> c, name |-> name]
<1>a. AdhocKnown(c) /\ actor[c].pc = "create"
  BY AdhocKnows DEF Adhoc!Create
<1>b. /\ late \in Adhoc!Late /\ new \in AdhocClasses /\ new.by = c /\ new.code = "none"
      /\ new.active = "none" /\ late.by = c /\ c # "none"
  BY <1>a, ClientsAssumption DEF AdhocKnown, Adhoc!Late, AdhocClasses, Adhoc!New, Adhoc!Programs
<1>c. created => /\ place' \in AdhocServers /\ place'.class[name] = new
                 /\ AdhocOtherClasses(name) /\ place'.late = place.late
                 /\ place.class[name].by = "none"
  BY <1>a, <1>b, AdhocPuts DEF AdhocKnown
<1>d. Adhoc!Fault(c) => /\ history' \in AdhocHistories /\ history'.robbed = history.robbed
                        /\ history'.faulty = history.faulty \cup {c}
  BY <1>a, AdhocFaulty DEF AdhocKnown
<1>e. "none" \notin Clients
  BY ClientsAssumption
<1> HIDE DEF new, late
<1>1. CASE created /\ Adhoc!Goto(c, "edit") /\ UNCHANGED history
  <2>1. /\ actor' \in [Clients -> AdhocRuns] /\ AdhocOthersWait(c)
        /\ actor'[c].pc = "edit" /\ actor'[c].name = name
        /\ actor'[c].result = actor[c].result /\ actor'[c].output = actor[c].output
    BY <1>a, <1>1, AdhocGoes DEF Adhoc!Goto, AdhocKnown
  <2>2. AdhocTypes' /\ AdhocOwnedAt(name)' /\ AdhocLateFaulty'
    BY <1>a, <1>b, <1>c, <1>1, <2>1 DEF AdhocKnown, AdhocTypes, AdhocOwnedAt, AdhocLateFaulty
  <2>3. AdhocRunOwn(c)' /\ AdhocClassOwn(name)'
    BY <1>a, <1>b, <1>c, <1>1, <2>1 DEF AdhocRunOwn, AdhocClassOwn
  <2> QED
    BY <1>a, <1>c, <1>e, <1>1, <2>1, <2>2, <2>3, AdhocRequest
<1>2. CASE /\ Adhoc!Raise(c)
           /\ \/ UNCHANGED <<place, history>>
              \/ Adhoc!Fault(c) /\ (Adhoc!Delay(c, "create") \/ created)
  <2>1. /\ actor' \in [Clients -> AdhocRuns] /\ AdhocOthersWait(c)
        /\ actor'[c].pc = "delete" /\ actor'[c].name = name
        /\ actor'[c].result = "error" /\ actor'[c].output = actor[c].output
    BY <1>a, <1>2, AdhocEnds DEF Adhoc!Raise, AdhocKnown
  <2>2. AdhocRunOwn(c)'
    BY <2>1 DEF AdhocRunOwn
  <2>3. CASE UNCHANGED <<place, history>>
    BY <1>a, <2>1, <2>2, <2>3, AdhocStays
  <2>4. CASE Adhoc!Fault(c) /\ Adhoc!Delay(c, "create")
    <3>1. /\ place' \in AdhocServers /\ place'.class = place.class
          /\ place'.late = place.late \cup {late}
      BY <1>a, <1>b, <2>4, AdhocDelays DEF AdhocKnown, Adhoc!Delay, late
    <3> QED
      BY <1>a, <1>b, <1>d, <2>1, <2>2, <2>4, <3>1, AdhocWaits
  <2>5. CASE Adhoc!Fault(c) /\ created
    <3>1. AdhocTypes' /\ AdhocOwnedAt(name)' /\ AdhocLateFaulty'
      BY <1>a, <1>b, <1>c, <1>d, <2>1, <2>5 DEF AdhocKnown, AdhocTypes, AdhocOwnedAt, AdhocLateFaulty
    <3>2. AdhocClassOwn(name)'
      BY <1>b, <1>c, <2>1, <2>5 DEF AdhocClassOwn
    <3> QED
      BY <1>a, <1>c, <1>d, <1>e, <2>1, <2>2, <2>5, <3>1, <3>2, AdhocRequest
  <2> QED
    BY <1>2, <2>3, <2>4, <2>5
<1> QED
  BY <1>1, <1>2 DEF Adhoc!Create, Adhoc!Put, new, Adhoc!Exists, Adhoc!Class

LEMMA AdhocEdit ==
    ASSUME AdhocInv, NEW c \in Clients, Adhoc!Edit(c)
    PROVE  AdhocInv'
<1> DEFINE name == actor[c].name
           class == [place.class[name] EXCEPT !.code = c]
           put == place' = [place EXCEPT !.class[name] = class]
<1>a. AdhocKnown(c) /\ actor[c].pc = "edit" /\ UNCHANGED history
  BY AdhocKnows DEF Adhoc!Edit, Adhoc!Change
<1>b. /\ class \in AdhocClasses /\ class.by = place.class[name].by
      /\ class.code = c /\ class.active = place.class[name].active
  BY <1>a DEF AdhocKnown, AdhocClasses, Adhoc!Programs
<1> HIDE DEF class
<1>1. /\ place.class[name] # Adhoc!NoClass /\ put
      => /\ place' \in AdhocServers /\ place'.class[name] = class
         /\ AdhocOtherClasses(name) /\ place'.late = place.late
         /\ class.by \in Clients /\ class.by # "none"
  BY <1>a, <1>b, AdhocPuts, ClientsAssumption DEF AdhocKnown
<1>2. history.robbed = {} => place.class[name].by = c
  BY <1>a DEF AdhocKnown, AdhocRunOwn
<1>3. ASSUME place.class[name] # Adhoc!NoClass, put, actor' \in [Clients -> AdhocRuns],
             AdhocOthersWait(c), actor'[c].pc # "idle", actor'[c].name = name,
             history.robbed = {} => AdhocRunOwn(c)'
      PROVE  AdhocInv'
  <2>1. AdhocTypes' /\ AdhocLateFaulty'
    BY <1>a, <1>1, <1>3 DEF AdhocKnown, AdhocTypes, AdhocLateFaulty
  <2>2. AdhocOwnedAt(name)'
    <3>1. place.class[name].by \in Clients \ {c} =>
              actor'[place.class[name].by] = actor[place.class[name].by]
      BY <1>3 DEF AdhocOthersWait
    <3>2. /\ place'.class[actor'[c].name].by = place.class[name].by /\ AdhocOwnedAt(name)
          /\ place.class[name].by \in Clients /\ place.class[name].by # "none"
          /\ UNCHANGED history /\ actor'[c].name = name /\ actor'[c].pc # "idle"
      BY <1>a, <1>b, <1>1, <1>3 DEF AdhocKnown
    <3> QED
      BY <3>1, <3>2 DEF AdhocOwnedAt
  <2>3. history.robbed = {} => AdhocClassOwn(name)'
    BY <1>a, <1>b, <1>1, <1>2, <1>3 DEF AdhocKnown, AdhocRunOwn, AdhocClassOwn
  <2> QED
    BY <1>a, <1>1, <1>2, <1>3, <2>1, <2>2, <2>3, AdhocRequest
<1>4. CASE /\ actor' = [actor EXCEPT ![c].pc = "activate"]
           /\ place.class[name] # Adhoc!NoClass /\ put
  <2>1. /\ actor' \in [Clients -> AdhocRuns] /\ AdhocOthersWait(c)
        /\ actor'[c].pc = "activate" /\ actor'[c].name = name
        /\ actor'[c].result = actor[c].result /\ actor'[c].output = actor[c].output
    BY <1>a, <1>4, AdhocGoes DEF AdhocKnown
  <2>2. CASE place.class[name] # Adhoc!NoClass /\ put
    <3>1. history.robbed = {} => AdhocRunOwn(c)'
      BY <1>a, <1>b, <1>1, <1>2, <2>1, <2>2 DEF AdhocKnown, AdhocRunOwn
    <3> QED
      BY <1>3, <2>1, <2>2, <3>1
  <2> QED
    BY <1>4, <2>2
<1>5. CASE /\ actor' = [actor EXCEPT ![c].pc = "delete", ![c].result = "error"]
           /\ (place.class[name] # Adhoc!NoClass /\ put) \/ UNCHANGED place
  <2>1. /\ actor' \in [Clients -> AdhocRuns] /\ AdhocOthersWait(c)
        /\ actor'[c].pc = "delete" /\ actor'[c].name = name
        /\ actor'[c].result = "error" /\ actor'[c].output = actor[c].output
    BY <1>a, <1>5, AdhocEnds DEF AdhocKnown
  <2>2. AdhocRunOwn(c)'
    BY <2>1 DEF AdhocRunOwn
  <2>3. CASE place.class[name] # Adhoc!NoClass /\ put
    BY <1>3, <2>1, <2>2, <2>3
  <2>4. CASE UNCHANGED place
    BY <1>a, <2>1, <2>2, <2>4, AdhocStays
  <2> QED
    BY <1>5, <2>3, <2>4
<1> QED
  BY <1>4, <1>5 DEF Adhoc!Edit, Adhoc!Change, Adhoc!Put, Adhoc!Goto, Adhoc!Raise, class,
     Adhoc!Exists, Adhoc!Class

LEMMA AdhocActivate ==
    ASSUME AdhocInv, NEW c \in Clients, Adhoc!Activate(c)
    PROVE  AdhocInv'
<1> DEFINE name == actor[c].name
           class == [place.class[name] EXCEPT !.active = place.class[name].code]
           put == place' = [place EXCEPT !.class[name] = class]
<1>a. AdhocKnown(c) /\ actor[c].pc = "activate" /\ UNCHANGED history
  BY AdhocKnows DEF Adhoc!Activate, Adhoc!Change
<1>b. /\ class \in AdhocClasses /\ class.by = place.class[name].by
      /\ class.code = place.class[name].code /\ class.active = place.class[name].code
  BY <1>a DEF AdhocKnown, AdhocClasses, Adhoc!Programs
<1> HIDE DEF class
<1>1. /\ place.class[name] # Adhoc!NoClass /\ put
      => /\ place' \in AdhocServers /\ place'.class[name] = class
         /\ AdhocOtherClasses(name) /\ place'.late = place.late
         /\ class.by \in Clients /\ class.by # "none"
  BY <1>a, <1>b, AdhocPuts, ClientsAssumption DEF AdhocKnown
<1>2. history.robbed = {} => place.class[name].by = c
  BY <1>a DEF AdhocKnown, AdhocRunOwn
<1>3. ASSUME place.class[name] # Adhoc!NoClass, put, actor' \in [Clients -> AdhocRuns],
             AdhocOthersWait(c), actor'[c].pc # "idle", actor'[c].name = name,
             history.robbed = {} => AdhocRunOwn(c)'
      PROVE  AdhocInv'
  <2>1. AdhocTypes' /\ AdhocLateFaulty'
    BY <1>a, <1>1, <1>3 DEF AdhocKnown, AdhocTypes, AdhocLateFaulty
  <2>2. AdhocOwnedAt(name)'
    <3>1. place.class[name].by \in Clients \ {c} =>
              actor'[place.class[name].by] = actor[place.class[name].by]
      BY <1>3 DEF AdhocOthersWait
    <3>2. /\ place'.class[actor'[c].name].by = place.class[name].by /\ AdhocOwnedAt(name)
          /\ place.class[name].by \in Clients /\ place.class[name].by # "none"
          /\ UNCHANGED history /\ actor'[c].name = name /\ actor'[c].pc # "idle"
      BY <1>a, <1>b, <1>1, <1>3 DEF AdhocKnown
    <3> QED
      BY <3>1, <3>2 DEF AdhocOwnedAt
  <2>3. history.robbed = {} => AdhocClassOwn(name)'
    BY <1>a, <1>b, <1>1, <1>2, <1>3 DEF AdhocKnown, AdhocRunOwn, AdhocClassOwn
  <2> QED
    BY <1>a, <1>1, <1>2, <1>3, <2>1, <2>2, <2>3, AdhocRequest
<1>4. CASE /\ actor' = [actor EXCEPT ![c].pc = "execute"]
           /\ (place.class[name] # Adhoc!NoClass /\ put) \/ UNCHANGED place
  <2>1. /\ actor' \in [Clients -> AdhocRuns] /\ AdhocOthersWait(c)
        /\ actor'[c].pc = "execute" /\ actor'[c].name = name
        /\ actor'[c].result = actor[c].result /\ actor'[c].output = actor[c].output
    BY <1>a, <1>4, AdhocGoes DEF AdhocKnown
  <2>2. CASE place.class[name] # Adhoc!NoClass /\ put
    <3>1. history.robbed = {} => AdhocRunOwn(c)'
      BY <1>a, <1>b, <1>1, <1>2, <2>1, <2>2 DEF AdhocKnown, AdhocRunOwn
    <3> QED
      BY <1>3, <2>1, <2>2, <3>1
  <2>3. CASE UNCHANGED place
    <3>1. history.robbed = {} => AdhocRunOwn(c)'
      BY <1>a, <2>1, <2>3 DEF AdhocKnown, AdhocRunOwn
    <3> QED
      BY <1>a, <2>1, <2>3, <3>1, AdhocStays
  <2> QED
    BY <1>4, <2>2, <2>3
<1>5. CASE /\ actor' = [actor EXCEPT ![c].pc = "delete", ![c].result = "error"]
           /\ (place.class[name] # Adhoc!NoClass /\ put) \/ UNCHANGED place
  <2>1. /\ actor' \in [Clients -> AdhocRuns] /\ AdhocOthersWait(c)
        /\ actor'[c].pc = "delete" /\ actor'[c].name = name
        /\ actor'[c].result = "error" /\ actor'[c].output = actor[c].output
    BY <1>a, <1>5, AdhocEnds DEF AdhocKnown
  <2>2. AdhocRunOwn(c)'
    BY <2>1 DEF AdhocRunOwn
  <2>3. CASE place.class[name] # Adhoc!NoClass /\ put
    BY <1>3, <2>1, <2>2, <2>3
  <2>4. CASE UNCHANGED place
    BY <1>a, <2>1, <2>2, <2>4, AdhocStays
  <2> QED
    BY <1>5, <2>3, <2>4
<1> QED
  BY <1>4, <1>5 DEF Adhoc!Activate, Adhoc!Change, Adhoc!Put, Adhoc!Goto, Adhoc!Raise, class,
     Adhoc!Exists, Adhoc!Class

LEMMA AdhocExecute ==
    ASSUME AdhocInv, NEW c \in Clients, Adhoc!Execute(c)
    PROVE  AdhocInv'
<1> DEFINE output == place.class[actor[c].name].active
<1>a. AdhocKnown(c) /\ actor[c].pc = "execute" /\ UNCHANGED <<place, history>>
  BY AdhocKnows DEF Adhoc!Execute
<1>b. /\ output \in Adhoc!Programs
      /\ history.robbed = {} => output \in {"none", c}
  BY <1>a DEF AdhocKnown, AdhocClasses, AdhocRunOwn, AdhocClassOwn
<1> HIDE DEF output
<1>1. CASE /\ output # "none"
           /\ actor' = [actor EXCEPT ![c].pc = "delete", ![c].output = output]
  <2>1. /\ actor' \in [Clients -> AdhocRuns] /\ AdhocOthersWait(c)
        /\ actor'[c].pc = "delete" /\ actor'[c].name = actor[c].name
        /\ actor'[c].result = actor[c].result /\ actor'[c].output = output
    BY <1>a, <1>b, <1>1, AdhocPrints DEF AdhocKnown
  <2>2. history.robbed = {} => AdhocRunOwn(c)'
    BY <1>b, <1>1, <2>1 DEF AdhocRunOwn
  <2> QED
    BY <1>a, <2>1, <2>2, AdhocStays
<1>2. CASE Adhoc!Raise(c)
  <2>1. /\ actor' \in [Clients -> AdhocRuns] /\ AdhocOthersWait(c)
        /\ actor'[c].pc = "delete" /\ actor'[c].name = actor[c].name
        /\ actor'[c].result = "error" /\ actor'[c].output = actor[c].output
    BY <1>a, <1>2, AdhocEnds DEF Adhoc!Raise, AdhocKnown
  <2>2. AdhocRunOwn(c)'
    BY <2>1 DEF AdhocRunOwn
  <2> QED
    BY <1>a, <2>1, <2>2, AdhocStays
<1> QED
  BY <1>1, <1>2 DEF output, Adhoc!Execute, Adhoc!Class

LEMMA AdhocDelete ==
    ASSUME AdhocInv, NEW c \in Clients, Adhoc!Delete(c)
    PROVE  AdhocInv'
<1> DEFINE name == actor[c].name
           by == place.class[name].by
           late == [do |-> "delete", by |-> c, name |-> name]
           end(r) == actor' = [actor EXCEPT ![c].pc = "idle", ![c].result = r]
<1>a. AdhocKnown(c) /\ actor[c].pc = "delete" /\ actor[c].result \in {"none", "ok", "error"}
  BY AdhocKnows DEF Adhoc!Delete, AdhocKnown, AdhocRuns
<1>b. /\ Adhoc!NoClass \in AdhocClasses /\ Adhoc!NoClass.by = "none"
      /\ Adhoc!NoClass.code = "none" /\ Adhoc!NoClass.active = "none"
      /\ late \in Adhoc!Late /\ late.by = c /\ "none" \notin Clients
  BY <1>a, ClientsAssumption DEF AdhocKnown, Adhoc!NoClass, AdhocClasses, Adhoc!Programs, Adhoc!Late
<1>c. history.robbed = {} /\ actor[c].result # "error" => actor[c].output = c
  BY <1>a DEF AdhocKnown, AdhocRunOwn
<1> HIDE DEF late
<1>1. ASSUME NEW r \in {"ok", "error"}, end(r)
      PROVE  /\ actor' \in [Clients -> AdhocRuns] /\ AdhocOthersWait(c)
             /\ actor'[c].pc = "idle" /\ actor'[c].name = name
             /\ actor'[c].result = r /\ actor'[c].output = actor[c].output
  BY <1>a, <1>1, AdhocEnds DEF AdhocKnown
<1>2. ASSUME NEW r \in {"ok", "error"}, end(r), r = "ok" => actor[c].result # "error",
             Adhoc!ServeDelete(Clients \ {c}, name),
             place' = [place EXCEPT !.class[name] = Adhoc!NoClass]
      PROVE  AdhocInv'
  <2>1. /\ place' \in AdhocServers /\ place'.class[name] = Adhoc!NoClass
        /\ AdhocOtherClasses(name) /\ place'.late = place.late
    BY <1>a, <1>b, <1>2, AdhocPuts DEF AdhocKnown
  <2>2. /\ history' \in AdhocHistories /\ history'.faulty = history.faulty
        /\ history'.robbed = history.robbed \cup ({by} \cap (Clients \ {c}))
    BY <1>a, <1>2, AdhocRobs DEF Adhoc!ServeDelete, AdhocKnown
  <2>3. AdhocTypes' /\ AdhocLateFaulty'
    BY <1>a, <1>1, <1>2, <2>1, <2>2 DEF AdhocKnown, AdhocTypes, AdhocLateFaulty
  <2>4. AdhocOwnedAt(name)' /\ AdhocClassOwn(name)'
    BY <1>b, <1>1, <1>2, <2>1 DEF AdhocOwnedAt, AdhocClassOwn
  <2>5. history.robbed = {} => AdhocRunOwn(c)'
    BY <1>c, <1>1, <1>2 DEF AdhocRunOwn
  <2>6. history'.robbed = {} => by \notin Clients \ {c}
    BY <2>2
  <2> QED
    BY <1>a, <1>1, <1>2, <2>1, <2>2, <2>3, <2>4, <2>5, <2>6, AdhocRequest
<1>3. CASE place.class[name] = Adhoc!NoClass /\ end("error") /\ UNCHANGED <<place, history>>
  <2>1. /\ AdhocTypes' /\ AdhocLateFaulty' /\ AdhocOtherClasses(name)
    BY <1>a, <1>1, <1>3 DEF AdhocKnown, AdhocTypes, AdhocLateFaulty, AdhocOtherClasses
  <2>2. AdhocOwnedAt(name)' /\ AdhocClassOwn(name)'
    BY <1>b, <1>1, <1>3 DEF AdhocOwnedAt, AdhocClassOwn
  <2>3. AdhocRunOwn(c)'
    BY <1>1, <1>3 DEF AdhocRunOwn
  <2> QED
    BY <1>a, <1>1, <1>3, <2>1, <2>2, <2>3, AdhocRequest
<1>4. CASE end("error") /\ Adhoc!Fault(c) /\ (Adhoc!Delay(c, "delete") \/ UNCHANGED place)
  <2>1. /\ history' \in AdhocHistories /\ history'.robbed = history.robbed
        /\ history'.faulty = history.faulty \cup {c}
    BY <1>a, <1>4, AdhocFaulty DEF AdhocKnown
  <2>2. /\ place' \in AdhocServers /\ place'.class = place.class
        /\ place'.late = place.late \cup {late} \/ place'.late = place.late
    BY <1>a, <1>b, <1>4, AdhocDelays DEF AdhocKnown, Adhoc!Delay, late
  <2>3. \A r \in place'.late : r \in place.late \/ r.by = c
    BY <1>b, <2>2
  <2>4. AdhocRunOwn(c)'
    BY <1>1, <1>4 DEF AdhocRunOwn
  <2> QED
    BY <1>a, <1>1, <1>4, <2>1, <2>2, <2>3, <2>4, AdhocWaits
<1> QED
  BY <1>2, <1>3, <1>4 DEF Adhoc!Delete, Adhoc!Put, Adhoc!End, Adhoc!Exists, Adhoc!Class

LEMMA AdhocLate ==
    ASSUME AdhocInv, NEW r \in Adhoc!Late, Adhoc!ServeLate(r)
    PROVE  AdhocInv'
<1> DEFINE name == r.name
           by == place.class[name].by
           new == Adhoc!New(r.by)
           becomes(to) == place' = [class |-> [place.class EXCEPT ![name] = to],
                                    late |-> place.late \ {r}]
<1>a. /\ r \in place.late /\ name \in ClassNames /\ r.by \in Clients /\ by \in Adhoc!Programs
      /\ place \in AdhocServers /\ history \in AdhocHistories /\ UNCHANGED actor
      /\ place.class[name] \in AdhocClasses
  BY DEF Adhoc!ServeLate, AdhocInv, AdhocTypes, AdhocServers, Adhoc!Late, AdhocClasses
<1>b. /\ Adhoc!NoClass \in AdhocClasses /\ Adhoc!NoClass.by = "none"
      /\ Adhoc!NoClass.code = "none" /\ Adhoc!NoClass.active = "none"
      /\ new \in AdhocClasses /\ new.by = r.by /\ new.code = "none" /\ new.active = "none"
  BY <1>a DEF Adhoc!NoClass, AdhocClasses, Adhoc!Programs, Adhoc!New
<1>c. r.by \in history.faulty
  BY <1>a DEF AdhocInv, AdhocOwner, AdhocOwnedAt, AdhocLateFaulty
<1>d. place.class[name] # Adhoc!NoClass => by \in Clients
  BY <1>a DEF AdhocInv, AdhocOwner, AdhocOwnedAt, AdhocLateFaulty, Adhoc!Programs
<1>e. place.class[name] = Adhoc!NoClass => by = "none"
  BY <1>b
<1>1. ASSUME NEW to \in AdhocClasses, becomes(to)
      PROVE  /\ place' \in AdhocServers /\ place'.class[name] = to
             /\ AdhocOtherClasses(name) /\ place'.late = place.late \ {r}
  BY <1>a, <1>1 DEF AdhocServers, AdhocClasses, AdhocOtherClasses
<1> HIDE DEF name, by, new
<1>2. CASE place.class[name] = Adhoc!NoClass /\ becomes(new) /\ UNCHANGED history
  <2>1. AdhocTypes'
    BY <1>a, <1>b, <1>1, <1>2 DEF AdhocInv, AdhocTypes
  <2>2. AdhocOwner'
    BY <1>a, <1>b, <1>c, <1>1, <1>2, ClientsAssumption DEF AdhocInv, AdhocOwner, AdhocOwnedAt, AdhocLateFaulty, AdhocOtherClasses
  <2>3. AdhocOwn'
    BY <1>a, <1>b, <1>e, <1>1, <1>2, ClientsAssumption DEF AdhocInv, AdhocOwn, AdhocRunOwn, AdhocClassOwn, AdhocOtherClasses, by
  <2> QED
    BY <2>1, <2>2, <2>3 DEF AdhocInv
<1>3. CASE Adhoc!ServeDelete(Clients, name) /\ becomes(Adhoc!NoClass)
  <2>1. /\ history' \in AdhocHistories /\ history'.faulty = history.faulty
        /\ history'.robbed = history.robbed \cup ({by} \cap Clients)
    BY <1>a, <1>3, AdhocRobs DEF Adhoc!ServeDelete, by
  <2>2. history'.robbed # {}
    BY <1>d, <1>3, <2>1 DEF Adhoc!ServeDelete
  <2>3. AdhocTypes'
    BY <1>a, <1>b, <1>1, <1>3, <2>1 DEF AdhocInv, AdhocTypes
  <2>4. AdhocOwner'
    BY <1>a, <1>b, <1>1, <1>3, <2>1, ClientsAssumption DEF AdhocInv, AdhocOwner, AdhocOwnedAt, AdhocLateFaulty, AdhocOtherClasses
  <2>5. AdhocOwn'
    BY <2>2 DEF AdhocOwn
  <2> QED
    BY <2>3, <2>4, <2>5 DEF AdhocInv
<1>4. CASE becomes(place.class[name]) /\ UNCHANGED history
  <2>1. AdhocTypes'
    BY <1>a, <1>1, <1>4 DEF AdhocInv, AdhocTypes
  <2>2. AdhocOwner'
    BY <1>a, <1>1, <1>4 DEF AdhocInv, AdhocOwner, AdhocOwnedAt, AdhocLateFaulty, AdhocOtherClasses
  <2>3. AdhocOwn'
    BY <1>a, <1>1, <1>4 DEF AdhocInv, AdhocOwn, AdhocRunOwn, AdhocClassOwn, AdhocOtherClasses
  <2> QED
    BY <2>1, <2>2, <2>3 DEF AdhocInv
<1> QED
  BY <1>2, <1>3, <1>4 DEF Adhoc!ServeLate, new, name, Adhoc!Exists, Adhoc!Class

LEMMA AdhocNext ==
    ASSUME AdhocInv, Adhoc!Next
    PROVE  AdhocInv'
BY AdhocStart, AdhocCreate, AdhocEdit, AdhocActivate, AdhocExecute, AdhocDelete, AdhocLate
DEF Adhoc!Next, Adhoc!Step

AdhocPart == part = "adhoc" => AdhocInv

LEMMA AdhocAlways == CommandsSpec => []AdhocPart
<1> USE DEF AdhocPart
<1>1. CommandsInit => AdhocPart
  BY SmallInit, AdhocInit
<1>2. ASSUME AdhocPart, [CommandsNext]_all
      PROVE  AdhocPart'
  <2>1. CASE UNCHANGED small
    BY <1>2, <2>1, SmallStep 
    DEF small, AdhocInv, AdhocTypes, AdhocOwner, AdhocOwnedAt, AdhocLateFaulty, AdhocOwn, AdhocRunOwn,
        AdhocClassOwn
  <2> QED
    BY <1>2, <2>1, SmallStep, AdhocNext
<1> QED
  BY <1>1, <1>2, PTL DEF CommandsSpec

\* A temporary class outlives its run only if a request to create or delete it got no
\* usable answer; and as long as nobody's class was deleted under him, every run that
\* succeeds printed the output of its own program, also when names are drawn twice.
THEOREM TemporaryClasses == CommandsSpec => []RunsAlone
<1>1. AdhocPart => RunsAlone
  <2> SUFFICES ASSUME part = "adhoc", AdhocTypes, AdhocOwner, AdhocOwn
               PROVE  Adhoc!NothingLeftBehind /\ Adhoc!OutputIsOwn
    BY DEF AdhocPart, AdhocInv, RunsAlone
  <2>1. ASSUME NEW n \in ClassNames, place.class[n].by # "none",
               actor[place.class[n].by].pc = "idle"
        PROVE  place.class[n].by \in history.faulty
    <3>1. AdhocOwnedAt(n) /\ place.class[n].by \in Clients
      BY <2>1 DEF AdhocOwner, AdhocTypes, AdhocServers, Adhoc!Programs
    <3> QED
      BY <2>1, <3>1 DEF AdhocOwnedAt
  <2>2. ASSUME NEW c \in Clients, actor[c].result = "ok", actor[c].pc = "idle"
        PROVE  actor[c].output = c \/ history.robbed # {}
    BY <2>2 DEF AdhocOwn, AdhocRunOwn
  <2> QED
    BY <2>1, <2>2 DEF Adhoc!NothingLeftBehind, Adhoc!OutputIsOwn
<1> QED
  BY <1>1, AdhocAlways, PTL

-----------------------------------------------------------------------------
(***************************************************************************)
(* Strust. What is true of the calls that are still to be made: each one   *)
(* is about a file of the command, and does what the command may do; a     *)
(* command that stores something first checks and creates its files, then  *)
(* puts certificates into them, then tells the ICM.                        *)
(***************************************************************************)
TrustCalls == [call: {"check", "create", "upload", "remove", "sign", "put", "notify", "list"},
               id: Identities, cert: Certs \cup {Trust!NoCert}, replace: BOOLEAN]

Storing == {"createpse", "upload", "putcertificate"}

Stage(call) ==
    IF call \in {"check", "create", "upload"} THEN 1
    ELSE IF call = "put" THEN 2 ELSE IF call = "notify" THEN 3 ELSE 4

\* A call by itself; of those of createpse, only the first one checks.
Fits(c, s, k) ==
    /\ \E j \in DOMAIN c.ids : s[k].id = c.ids[j]
    /\ s[k].replace => c.overwrite
    /\ s[k].call = "remove" => c.name = "removepse"
    /\ s[k].call \in {"create", "upload", "put", "notify"} => c.name \in Storing
    /\ s[k].call = "put" => s[k].cert \in Certs
    /\ s[k].call = "check" /\ c.name = "createpse" => k = 1

Told(s) == \E k \in DOMAIN s : s[k].call = "notify"
Later(s, i, x) == \E k \in DOMAIN s : s[k].call = "put" /\ s[k].id = i /\ s[k].cert = x
AllLater(c, s) == \A i \in DOMAIN c.ids, x \in DOMAIN c.certs : Later(s, c.ids[i], c.certs[x])

InOrder(s) == \A j, k \in DOMAIN s : j < k => Stage(s[j].call) <= Stage(s[k].call)

TrustTodo(c, s) ==
    /\ s \in Seq(TrustCalls)
    /\ \A k \in DOMAIN s : Fits(c, s, k)
    /\ c.name \in Storing =>
        /\ InOrder(s)
        /\ (\E k \in DOMAIN s : Stage(s[k].call) < 3) => Told(s)
        /\ (\E k \in DOMAIN s : Stage(s[k].call) = 1) => AllLater(c, s)

\* The next call is made.
LEMMA TodoTail ==
    ASSUME NEW c, NEW s, TrustTodo(c, s), s # <<>>
    PROVE  TrustTodo(c, Tail(s))
<1>1. /\ s \in Seq(TrustCalls) /\ Tail(s) \in Seq(TrustCalls)
      /\ \A k \in DOMAIN Tail(s) : k + 1 \in DOMAIN s /\ Tail(s)[k] = s[k + 1] /\ k \in Nat \ {0}
      /\ 1 \in DOMAIN s
      /\ \A k \in DOMAIN s : k # 1 => k - 1 \in DOMAIN Tail(s) /\ Tail(s)[k - 1] = s[k]
  BY DEF TrustTodo
<1> DEFINE u == Tail(s)
<1> HIDE DEF u
<1>2. ASSUME NEW k \in DOMAIN u PROVE Fits(c, u, k)
  <2>1. Fits(c, s, k + 1) /\ k + 1 # 1
    BY <1>1, <1>2 DEF TrustTodo, u
  <2> QED
    BY <1>1, <2>1 DEF Fits, u
<1>3. ASSUME c.name \in Storing
      PROVE  InOrder(u)
  <2> SUFFICES ASSUME NEW j \in DOMAIN u, NEW k \in DOMAIN u, j < k
               PROVE  Stage(u[j].call) <= Stage(u[k].call)
    BY DEF InOrder
  <2>1. j + 1 \in DOMAIN s /\ k + 1 \in DOMAIN s /\ j + 1 < k + 1
    BY <1>1 DEF u
  <2>2. Stage(s[j + 1].call) <= Stage(s[k + 1].call)
    BY <1>3, <2>1, Zenon DEF TrustTodo, InOrder
  <2> QED
    BY <1>1, <2>2 DEF u
<1>4. ASSUME c.name \in Storing, NEW k \in DOMAIN u, Stage(u[k].call) < 3
      PROVE  Told(u)
  <2>1. k + 1 \in DOMAIN s /\ u[k] = s[k + 1] /\ 1 < k + 1
    BY <1>1 DEF u
  <2>2. PICK j \in DOMAIN s : s[j].call = "notify"
    BY <1>4, <2>1 DEF TrustTodo, Told
  <2>3. j # 1
    BY <1>1, <1>4, <2>1, <2>2 DEF TrustTodo, InOrder, Stage
  <2> QED
    BY <1>1, <2>2, <2>3 DEF u, Told
<1>5. ASSUME c.name \in Storing, NEW k \in DOMAIN u, Stage(u[k].call) = 1
      PROVE  AllLater(c, u)
  <2> SUFFICES ASSUME NEW i \in DOMAIN c.ids, NEW x \in DOMAIN c.certs
               PROVE  Later(u, c.ids[i], c.certs[x])
    BY DEF AllLater
  <2>1. k + 1 \in DOMAIN s /\ u[k] = s[k + 1] /\ 1 < k + 1
    BY <1>1 DEF u
  <2>2. PICK j \in DOMAIN s : s[j].call = "put" /\ s[j].id = c.ids[i] /\ s[j].cert = c.certs[x]
    BY <1>5, <2>1 DEF TrustTodo, AllLater, Later
  <2>3. j # 1
    BY <1>1, <1>5, <2>1, <2>2 DEF TrustTodo, InOrder, Stage
  <2> QED
    BY <1>1, <2>2, <2>3 DEF u, Later
<1> QED
  BY <1>1, <1>2, <1>3, <1>4, <1>5 DEF TrustTodo, u

\* putcertificate adds the creation of a file it has not found.
LEMMA TodoCreates ==
    ASSUME NEW c, NEW s, TrustTodo(c, s), s # <<>>, Head(s).call = "check",
           c.name = "putcertificate"
    PROVE  TrustTodo(c, <<Trust!Call("create", Head(s).id, Trust!NoCert, FALSE)>> \o Tail(s))
<1> DEFINE d == Trust!Call("create", Head(s).id, Trust!NoCert, FALSE)
           u == <<d>> \o Tail(s)
<1>1. Head(s) = s[1] /\ 1 \in DOMAIN s /\ s[1] \in TrustCalls /\ s \in Seq(TrustCalls)
  BY DEF TrustTodo
<1>2. d \in TrustCalls /\ d.call = "create" /\ d.id = s[1].id /\ ~d.replace
  BY <1>1 DEF Trust!Call, TrustCalls
<1> HIDE DEF d
<1>3. /\ u \in Seq(TrustCalls) /\ DOMAIN u = DOMAIN s /\ u[1] = d
      /\ \A k \in DOMAIN s : k # 1 => u[k] = s[k]
  BY <1>1, <1>2
<1> HIDE DEF u
<1>4. ASSUME NEW k \in DOMAIN u PROVE Fits(c, u, k) /\ Stage(u[k].call) = Stage(s[k].call)
  <2>1. Fits(c, s, k)
    BY <1>3, <1>4 DEF TrustTodo
  <2> QED
    BY <1>1, <1>2, <1>3, <1>4, <2>1 DEF Fits, Stage, Storing
<1>5. InOrder(u)
  BY <1>3, <1>4 DEF TrustTodo, InOrder, Storing
<1>6. Told(u) /\ AllLater(c, u)
  <2>1. Stage(s[1].call) = 1
    BY <1>1 DEF Stage
  <2>2. Told(s) /\ AllLater(c, s)
    BY <1>1, <2>1 DEF TrustTodo, Storing
  <2>3. Told(u)
    <3>1. PICK k \in DOMAIN s : s[k].call = "notify"
      BY <2>2 DEF Told
    <3>2. k # 1
      BY <1>1, <3>1
    <3> QED
      BY <1>3, <3>1, <3>2 DEF Told
  <2>4. ASSUME NEW i \in DOMAIN c.ids, NEW x \in DOMAIN c.certs
        PROVE  Later(u, c.ids[i], c.certs[x])
    <3>1. PICK j \in DOMAIN s : s[j].call = "put" /\ s[j].id = c.ids[i] /\ s[j].cert = c.certs[x]
      BY <2>2 DEF AllLater, Later
    <3>2. j # 1
      BY <1>1, <3>1
    <3> QED
      BY <1>3, <3>1, <3>2 DEF Later
  <2> QED
    BY <2>3, <2>4 DEF AllLater
<1>7. \A k \in DOMAIN u : Fits(c, u, k)
  BY <1>4
<1> QED
  BY <1>3, <1>5, <1>6, <1>7 DEF TrustTodo, u, d

-----------------------------------------------------------------------------
\* What a command is given: every file and every certificate, in some order.
LEMMA TrustListed ==
    ASSUME NEW S, IsFiniteSet(S), NEW s \in Trust!Orders(S)
    PROVE  s \in Seq(S) /\ (S # {} => s # <<>>)
<1> DEFINE n == Cardinality(S)
<1>1. n \in Nat /\ (S # {} => n # 0)
  BY FS_CardinalityType, FS_EmptySet
<1>2. Trust!Cardinality(S) = n
  BY DEF Trust!Cardinality, Cardinality
<1> HIDE DEF n
<1>3. s \in [1 .. n -> S]
  BY <1>2 DEF Trust!Orders, Trust!Bijection, Trust!Injection
<1> QED
  BY <1>1, <1>3

LEMMA TrustGiven ==
    ASSUME NEW c \in Trust!Commands
    PROVE  /\ c.ids \in Seq(Identities) /\ c.ids # <<>> /\ c.certs \in Seq(Certs)
           /\ c.overwrite \in BOOLEAN /\ c.stdin \in BOOLEAN
           /\ c.name \in {"createpse", "upload", "removepse", "putpkc", "putcertificate",
                          "listcertificates"}
           /\ c.name \in {"createpse", "upload"} => c.certs = <<>> /\ DOMAIN c.ids = {1}
<1>1. CASE c.name \in {"putcertificate", "listcertificates"}
  <2>1. c.ids \in Trust!Orders(Identities) /\ c.certs \in Trust!Orders(Certs)
        /\ c.overwrite = FALSE /\ c.stdin \in BOOLEAN
    BY <1>1 DEF Trust!Commands
  <2>2. c.ids \in Seq(Identities) /\ c.ids # <<>> /\ c.certs \in Seq(Certs)
    BY <2>1, TrustListed, StrustAssumption
  <2> QED
    BY <1>1, <2>1, <2>2
<1>2. CASE c.name \notin {"putcertificate", "listcertificates"}
  <2>1. /\ c.ids \in {<<i>> : i \in Identities} /\ c.certs = <<>> /\ c.overwrite \in BOOLEAN
        /\ c.stdin = FALSE /\ c.name \in {"createpse", "upload", "removepse", "putpkc"}
    BY <1>2 DEF Trust!Commands
  <2>2. PICK i \in Identities : c.ids = <<i>>
    BY <2>1
  <2>3. c.ids \in Seq(Identities) /\ c.ids # <<>> /\ c.certs \in Seq(Certs) /\ DOMAIN c.ids = {1}
    BY <2>1, <2>2
  <2> QED
    BY <2>1, <2>3
<1> QED
  BY <1>1, <1>2

\* Division, as far as the order of the certificates needs it.
LEMMA Multiples ==
    ASSUME NEW n \in Nat, NEW a \in Int, NEW b \in Int, a <= b
    PROVE  n * a <= n * b /\ n * a \in Int /\ n * b \in Int
OBVIOUS

LEMMA Quotient ==
    ASSUME NEW n \in Nat \ {0}, NEW m \in Nat, NEW k \in Nat, k < n * m
    PROVE  k \div n \in 0 .. m - 1 /\ k % n \in 0 .. n - 1
<1>1. k \div n \in Int /\ k % n \in 0 .. n - 1 /\ k = n * (k \div n) + (k % n)
  OBVIOUS
<1> DEFINE q == k \div n
           r == k % n
<1>2. q \in Int /\ r \in 0 .. n - 1 /\ k = n * q + r
  BY <1>1
<1> HIDE DEF q, r
<1>3. q >= 0
  <2> SUFFICES ASSUME q <= -1 PROVE FALSE
    BY <1>2
  <2>1. n * q <= n * (-1)
    BY <1>2, Multiples
  <2> QED
    BY <1>2, <2>1
<1>4. q < m
  <2> SUFFICES ASSUME m <= q PROVE FALSE
    BY <1>2
  <2>1. n * m <= n * q /\ n * m \in Int /\ n * q \in Int
    BY <1>2, Multiples
  <2> QED
    BY <1>2, <2>1
<1> QED
  BY <1>2, <1>3, <1>4 DEF q, r

LEMMA Divided ==
    ASSUME NEW n \in Nat \ {0}, NEW q \in Nat, NEW r \in 0 .. n - 1
    PROVE  (n * q + r) \div n = q /\ (n * q + r) % n = r /\ n * q + r \in Nat
<1> DEFINE k == n * q + r
           d == k \div n
           e == k % n
<1>1. k \in Nat /\ n * q \in Nat
  OBVIOUS
<1>2. k = n * q + r
  OBVIOUS
<1> HIDE DEF k
<1>3. d \in Int /\ e \in 0 .. n - 1 /\ k = n * d + e
  BY <1>1
<1> HIDE DEF d, e
<1>4. d = q
  <2>1. CASE d <= q - 1
    <3>1. n * d <= n * (q - 1) /\ n * d \in Int /\ n * (q - 1) = n * q - n
      BY <1>3, <2>1, Multiples
    <3> QED
      BY <1>1, <1>2, <1>3, <3>1
  <2>2. CASE q + 1 <= d
    <3>1. n * (q + 1) <= n * d /\ n * d \in Int /\ n * (q + 1) = n * q + n
      BY <1>3, <2>2, Multiples
    <3> QED
      BY <1>1, <1>2, <1>3, <3>1
  <2> QED
    BY <1>3, <2>1, <2>2
<1>5. e = r
  BY <1>1, <1>2, <1>3, <1>4
<1> QED
  BY <1>1, <1>4, <1>5 DEF k, d, e

\* Every certificate is put into every file, once per position.
LEMMA PutsAll ==
    ASSUME NEW c \in Trust!Commands
    PROVE  /\ Trust!Puts(c) \in Seq(TrustCalls)
           /\ \A k \in DOMAIN Trust!Puts(c) :
                /\ Trust!Puts(c)[k].call = "put" /\ ~Trust!Puts(c)[k].replace
                /\ Trust!Puts(c)[k].cert \in Certs
                /\ \E j \in DOMAIN c.ids : Trust!Puts(c)[k].id = c.ids[j]
           /\ AllLater(c, Trust!Puts(c))
<1> DEFINE n == Len(c.certs)
           m == Len(c.ids)
           Pair(k) == IF c.stdin THEN <<((k - 1) \div n) + 1, ((k - 1) % n) + 1>>
                                 ELSE <<((k - 1) % m) + 1, ((k - 1) \div m) + 1>>
           put(k) == Trust!Call("put", c.ids[Pair(k)[1]], c.certs[Pair(k)[2]], FALSE)
           u == Trust!Puts(c)
<1>1. /\ n \in Nat /\ m \in Nat \ {0} /\ DOMAIN c.ids = 1 .. m /\ DOMAIN c.certs = 1 .. n
      /\ \A j \in 1 .. m : c.ids[j] \in Identities
      /\ \A j \in 1 .. n : c.certs[j] \in Certs
      /\ c.stdin \in BOOLEAN
  BY TrustGiven
<1>2. u = [k \in 1 .. (n * m) |-> put(k)]
  BY DEF Trust!Puts
<1> HIDE DEF n, m, u
<1>3. n * m \in Nat /\ n * m = m * n
  <2>1. \A x, y \in Nat : x * y \in Nat /\ x * y = y * x
    OBVIOUS
  <2> QED
    BY <1>1, <2>1
<1>4. ASSUME NEW k \in 1 .. n * m
      PROVE  Pair(k)[1] \in 1 .. m /\ Pair(k)[2] \in 1 .. n
  <2>1. k - 1 \in Nat /\ k - 1 < n * m /\ k - 1 < m * n /\ n # 0
    BY <1>1, <1>3
  <2>2. (k - 1) \div n \in 0 .. m - 1 /\ (k - 1) % n \in 0 .. n - 1
    BY <1>1, <2>1, Quotient
  <2>3. (k - 1) \div m \in 0 .. n - 1 /\ (k - 1) % m \in 0 .. m - 1
    BY <1>1, <2>1, Quotient
  <2> QED
    BY <1>1, <2>2, <2>3
<1> HIDE DEF Pair
<1>5. ASSUME NEW k \in 1 .. n * m
      PROVE  /\ u[k] \in TrustCalls /\ u[k].call = "put" /\ ~u[k].replace
             /\ u[k].id = c.ids[Pair(k)[1]] /\ u[k].cert = c.certs[Pair(k)[2]]
  BY <1>1, <1>2, <1>4 DEF TrustCalls, Trust!Call
<1>6. ASSUME NEW i \in 1 .. m, NEW x \in 1 .. n
      PROVE  \E k \in 1 .. n * m : Pair(k) = <<i, x>>
  <2>1. CASE c.stdin
    <3> DEFINE l == n * (i - 1) + (x - 1)
    <3>1. n \in Nat \ {0} /\ i - 1 \in Nat /\ x - 1 \in 0 .. n - 1
      BY <1>1
    <3>2. l \div n = i - 1 /\ l % n = x - 1 /\ l \in Nat
      BY <3>1, Divided
    <3>3. n * (i - 1) <= n * (m - 1) /\ n * (m - 1) = n * m - n /\ n * (i - 1) \in Int
      BY <1>1, <3>1, Multiples
    <3>4. l + 1 \in 1 .. n * m /\ (l + 1) - 1 = l
      BY <1>1, <1>3, <3>1, <3>2, <3>3
    <3> HIDE DEF l
    <3>5. Pair(l + 1) = <<i, x>>
      BY <1>1, <2>1, <3>2, <3>4 DEF Pair
    <3> QED
      BY <3>4, <3>5
  <2>2. CASE ~c.stdin
    <3> DEFINE l == m * (x - 1) + (i - 1)
    <3>1. n \in Nat \ {0} /\ x - 1 \in Nat /\ i - 1 \in 0 .. m - 1
      BY <1>1
    <3>2. l \div m = x - 1 /\ l % m = i - 1 /\ l \in Nat
      BY <1>1, <3>1, Divided
    <3>3. m * (x - 1) <= m * (n - 1) /\ m * (n - 1) = m * n - m /\ m * (x - 1) \in Int
      BY <1>1, <3>1, Multiples
    <3>4. l + 1 \in 1 .. n * m /\ (l + 1) - 1 = l
      BY <1>1, <1>3, <3>1, <3>2, <3>3
    <3> HIDE DEF l
    <3>5. Pair(l + 1) = <<i, x>>
      BY <1>1, <2>2, <3>2, <3>4 DEF Pair
    <3> QED
      BY <3>4, <3>5
  <2> QED
    BY <2>1, <2>2
<1>7. u \in Seq(TrustCalls) /\ DOMAIN u = 1 .. n * m
  <2>1. u = [k \in 1 .. n * m |-> u[k]]
    BY <1>2
  <2> QED
    BY <1>3, <1>5, <2>1
<1>8. AllLater(c, u)
  <2> SUFFICES ASSUME NEW i \in 1 .. m, NEW x \in 1 .. n
               PROVE  Later(u, c.ids[i], c.certs[x])
    BY <1>1 DEF AllLater
  <2>1. PICK k \in 1 .. n * m : Pair(k) = <<i, x>>
    BY <1>6
  <2> QED
    BY <1>5, <1>7, <2>1 DEF Later
<1>9. ASSUME NEW k \in 1 .. n * m
      PROVE  /\ u[k].call = "put" /\ ~u[k].replace /\ u[k].cert \in Certs
             /\ \E j \in DOMAIN c.ids : u[k].id = c.ids[j]
  BY <1>1, <1>4, <1>5
<1> QED
  BY <1>7, <1>8, <1>9 DEF u

-----------------------------------------------------------------------------
(* The list of calls of a command, when it begins. *)
Checking(c) == {r \in TrustCalls : /\ r.call \in {"check", "list"} /\ ~r.replace
                                   /\ \E j \in DOMAIN c.ids : r.id = c.ids[j]}

LEMMA ChecksPlanned ==
    ASSUME NEW c \in Trust!Commands, c.name = "listcertificates"
    PROVE  TrustTodo(c, Trust!Plan(c))
<1> DEFINE m == Len(c.ids)
           call(k) == IF k % 2 = 1 THEN "check" ELSE "list"
<1>1. m \in Nat \ {0} /\ DOMAIN c.ids = 1 .. m /\ \A k \in 1 .. m : c.ids[k] \in Identities
  BY TrustGiven
<1> HIDE DEF m
<1>2. ASSUME NEW k \in 1 .. m, NEW x \in {"check", "list"}
      PROVE  Trust!Each(x, c)[k] \in Checking(c)
  BY <1>1 DEF Trust!Each, Trust!Call, TrustCalls, Checking
<1>3. ASSUME NEW k \in 1 .. 2 * m
      PROVE  Trust!Each(call(k), c)[(k + 1) \div 2] \in Checking(c)
  <2>1. (k + 1) \div 2 \in 1 .. m
    BY <1>1
  <2>2. call(k) \in {"check", "list"}
    OBVIOUS
  <2> QED
    BY <1>2, <2>1, <2>2
<1>4. Trust!Plan(c) = [k \in 1 .. 2 * m |-> Trust!Each(call(k), c)[(k + 1) \div 2]]
  BY DEF Trust!Plan, m
<1> HIDE DEF call
<1>5. Trust!Plan(c) \in Seq(Checking(c))
  <2>1. 2 * m \in Nat
    BY <1>1
  <2> QED
    BY <1>3, <1>4, <2>1
<1>6. \A k \in DOMAIN Trust!Plan(c) : Trust!Plan(c)[k] \in Checking(c)
  BY <1>5
<1>7. Trust!Plan(c) \in Seq(TrustCalls)
  BY <1>5 DEF Checking
<1> QED
  BY <1>6, <1>7 DEF TrustTodo, Fits, Checking, Storing

\* The calls that need no certificates: one file, one to three calls.
LEMMA OnePlanned ==
    ASSUME NEW c \in Trust!Commands, c.name \in {"createpse", "upload", "removepse", "putpkc"}
    PROVE  TrustTodo(c, Trust!Plan(c)) /\ (c.name \in Storing => Told(Trust!Plan(c)))
<1> DEFINE One(call) == Trust!Call(call, c.ids[1], Trust!NoCert, c.overwrite)
           u == Trust!Plan(c)
<1>1. c.ids[1] \in Identities /\ 1 \in DOMAIN c.ids /\ c.overwrite \in BOOLEAN
  BY TrustGiven
<1>2. ASSUME NEW call \in {"check", "create", "upload", "remove", "sign", "notify"}
      PROVE  /\ One(call) \in TrustCalls /\ One(call).call = call /\ One(call).replace = c.overwrite
             /\ One(call).id = c.ids[1]
  BY <1>1 DEF Trust!Call, TrustCalls
<1>3. c.name \in {"createpse", "upload"} => c.certs = <<>>
  BY TrustGiven
<1>4. CASE c.name = "createpse"
  <2>1. u = <<One("check"), One("create")>> \o <<One("notify")>>
    BY <1>4 DEF Trust!Plan
  <2> HIDE DEF One, u
  <2>2. One("check") \in TrustCalls /\ One("create") \in TrustCalls /\ One("notify") \in TrustCalls
    BY <1>2
  <2>3. /\ u \in Seq(TrustCalls) /\ DOMAIN u = 1 .. 3
        /\ u[1] = One("check") /\ u[2] = One("create") /\ u[3] = One("notify")
    BY <2>1, <2>2
  <2>4. u[1].call = "check" /\ u[2].call = "create" /\ u[3].call = "notify"
    BY <1>2, <2>3
  <2>5. \A k \in DOMAIN u : Fits(c, u, k)
    BY <1>1, <1>2, <1>4, <2>3, <2>4 DEF Fits, Storing
  <2>6. InOrder(u) /\ Told(u) /\ AllLater(c, u)
    BY <1>3, <1>4, <2>3, <2>4 DEF InOrder, Told, AllLater, Stage
  <2> QED
    BY <2>3, <2>5, <2>6 DEF TrustTodo, u
<1>5. CASE c.name = "upload"
  <2>1. u = <<One("upload")>> \o <<One("notify")>>
    BY <1>5 DEF Trust!Plan
  <2> HIDE DEF One, u
  <2>2. One("upload") \in TrustCalls /\ One("notify") \in TrustCalls
    BY <1>2
  <2>3. /\ u \in Seq(TrustCalls) /\ DOMAIN u = 1 .. 2
        /\ u[1] = One("upload") /\ u[2] = One("notify")
    BY <2>1, <2>2
  <2>4. u[1].call = "upload" /\ u[2].call = "notify"
    BY <1>2, <2>3
  <2>5. \A k \in DOMAIN u : Fits(c, u, k)
    BY <1>1, <1>2, <1>5, <2>3, <2>4 DEF Fits, Storing
  <2>6. InOrder(u) /\ Told(u) /\ AllLater(c, u)
    BY <1>3, <1>5, <2>3, <2>4 DEF InOrder, Told, AllLater, Stage
  <2> QED
    BY <2>3, <2>5, <2>6 DEF TrustTodo, u
<1>6. CASE c.name \in {"removepse", "putpkc"}
  <2>1. PICK call \in {"remove", "sign"} : u = <<One(call)>> /\ (call = "remove" => c.name = "removepse")
    BY <1>6 DEF Trust!Plan
  <2> HIDE DEF One, u
  <2>2. One(call) \in TrustCalls /\ One(call).call = call
    BY <1>2
  <2>3. u \in Seq(TrustCalls) /\ DOMAIN u = 1 .. 1 /\ u[1] = One(call)
    BY <2>1, <2>2
  <2>4. \A k \in DOMAIN u : Fits(c, u, k)
    BY <1>1, <1>2, <1>6, <2>1, <2>2, <2>3 DEF Fits, Storing
  <2> QED
    BY <1>6, <2>3, <2>4 DEF TrustTodo, Storing, u
<1> QED
  BY <1>4, <1>5, <1>6

\* Sequences, one after the other.
LEMMA TwoJoined ==
    ASSUME NEW S, NEW a \in Seq(S), NEW b \in Seq(S)
    PROVE  /\ a \o b \in Seq(S) /\ DOMAIN (a \o b) = 1 .. Len(a) + Len(b)
           /\ Len(a \o b) = Len(a) + Len(b) /\ Len(a) \in Nat /\ Len(b) \in Nat
           /\ \A k \in 1 .. Len(a) : (a \o b)[k] = a[k]
           /\ \A k \in 1 .. Len(b) : (a \o b)[k + Len(a)] = b[k]
OBVIOUS

InTurn(u, a, b, d, e) ==
    /\ DOMAIN u = 1 .. Len(a) + Len(b) + Len(d) + Len(e)
    /\ \A k \in 1 .. Len(a) : u[k] = a[k]
    /\ \A k \in 1 .. Len(b) : u[k + Len(a)] = b[k]
    /\ \A k \in 1 .. Len(d) : u[k + Len(a) + Len(b)] = d[k]
    /\ \A k \in 1 .. Len(e) : u[k + Len(a) + Len(b) + Len(d)] = e[k]

LEMMA FourJoined ==
    ASSUME NEW S, NEW a \in Seq(S), NEW b \in Seq(S), NEW d \in Seq(S), NEW e \in Seq(S),
           NEW u, u = ((a \o b) \o d) \o e
    PROVE  u \in Seq(S) /\ InTurn(u, a, b, d, e)
<1> DEFINE v == a \o b
           w == v \o d
<1>1. /\ v \in Seq(S) /\ Len(v) = Len(a) + Len(b) /\ Len(a) \in Nat /\ Len(b) \in Nat
      /\ \A k \in 1 .. Len(a) : v[k] = a[k]
      /\ \A k \in 1 .. Len(b) : v[k + Len(a)] = b[k]
  BY TwoJoined
<1>2. u = w \o e
  OBVIOUS
<1>a. v \in Seq(S) /\ d \in Seq(S)
  BY <1>1
<1> HIDE DEF v
<1>3. /\ w \in Seq(S) /\ Len(w) = Len(v) + Len(d) /\ Len(d) \in Nat
      /\ \A k \in 1 .. Len(v) : w[k] = v[k]
      /\ \A k \in 1 .. Len(d) : w[k + Len(v)] = d[k]
  BY <1>a, TwoJoined
<1>b. w \in Seq(S) /\ e \in Seq(S)
  BY <1>3
<1> HIDE DEF w
<1>4. /\ u \in Seq(S) /\ DOMAIN u = 1 .. Len(w) + Len(e) /\ Len(e) \in Nat
      /\ \A k \in 1 .. Len(w) : u[k] = w[k]
      /\ \A k \in 1 .. Len(e) : u[k + Len(w)] = e[k]
  BY <1>2, <1>b, TwoJoined
<1>5. Len(w) = Len(a) + Len(b) + Len(d) /\ Len(w) \in Nat
  BY <1>1, <1>3
<1>6. \A k \in 1 .. Len(a) : u[k] = a[k]
  BY <1>1, <1>3, <1>4, <1>5
<1>7. ASSUME NEW k \in 1 .. Len(b) PROVE u[k + Len(a)] = b[k]
  <2>1. k + Len(a) \in 1 .. Len(v) /\ k + Len(a) \in 1 .. Len(w)
    BY <1>1, <1>3, <1>5
  <2> QED
    BY <1>1, <1>3, <1>4, <2>1
<1>8. ASSUME NEW k \in 1 .. Len(d) PROVE u[k + Len(a) + Len(b)] = d[k]
  <2>1. k + Len(v) \in 1 .. Len(w) /\ k + Len(v) = k + Len(a) + Len(b)
    BY <1>1, <1>3, <1>5
  <2> QED
    BY <1>3, <1>4, <2>1
<1>9. ASSUME NEW k \in 1 .. Len(e) PROVE u[k + Len(a) + Len(b) + Len(d)] = e[k]
  <2>1. k + Len(w) = k + Len(a) + Len(b) + Len(d)
    BY <1>1, <1>3, <1>5
  <2> QED
    BY <1>4, <2>1
<1> QED
  BY <1>4, <1>5, <1>6, <1>7, <1>8, <1>9 DEF InTurn

LEMMA PutsPlanned ==
    ASSUME NEW c \in Trust!Commands, c.name = "putcertificate"
    PROVE  TrustTodo(c, Trust!Plan(c)) /\ Told(Trust!Plan(c)) /\ AllLater(c, Trust!Plan(c))
<1> DEFINE a == Trust!Each("check", c)
           b == Trust!Puts(c)
           one == Trust!Call("notify", c.ids[1], Trust!NoCert, c.overwrite)
           d == <<one>>
           e == Trust!Each("list", c)
           u == Trust!Plan(c)
           m == Len(c.ids)
           q == Len(b)
<1>1. /\ m \in Nat \ {0} /\ DOMAIN c.ids = 1 .. m /\ \A k \in 1 .. m : c.ids[k] \in Identities
      /\ c.overwrite \in BOOLEAN
  BY TrustGiven
<1>2. u = a \o b \o d \o e
  BY DEF Trust!Plan
<1>3. one \in TrustCalls /\ one.call = "notify" /\ one.replace = c.overwrite /\ one.id = c.ids[1]
  BY <1>1 DEF Trust!Call, TrustCalls
<1> HIDE DEF one, m
<1>4. ASSUME NEW call \in {"check", "list"}, NEW k \in 1 .. m
      PROVE  /\ Trust!Each(call, c)[k] \in TrustCalls /\ Trust!Each(call, c)[k].call = call
             /\ Trust!Each(call, c)[k].id = c.ids[k] /\ ~Trust!Each(call, c)[k].replace
  BY <1>1 DEF Trust!Call, TrustCalls, Trust!Each
<1>5. ASSUME NEW call \in {"check", "list"}
      PROVE  Trust!Each(call, c) \in Seq(TrustCalls) /\ Len(Trust!Each(call, c)) = m
  <2>1. Trust!Each(call, c) = [k \in 1 .. m |-> Trust!Each(call, c)[k]]
    BY <1>1 DEF Trust!Each
  <2> QED
    BY <1>1, <1>4, <2>1
<1>6. /\ b \in Seq(TrustCalls) /\ AllLater(c, b) /\ DOMAIN b = 1 .. q
      /\ \A k \in 1 .. q : /\ b[k].call = "put" /\ ~b[k].replace /\ b[k].cert \in Certs
                          /\ \E j \in DOMAIN c.ids : b[k].id = c.ids[j]
  BY PutsAll
<1>7. /\ a \in Seq(TrustCalls) /\ Len(a) = m /\ d \in Seq(TrustCalls) /\ Len(d) = 1 /\ d[1] = one
      /\ e \in Seq(TrustCalls) /\ Len(e) = m
  BY <1>3, <1>5
<1>8. ASSUME NEW k \in 1 .. m
      PROVE  /\ a[k].call = "check" /\ a[k].id = c.ids[k] /\ ~a[k].replace
             /\ e[k].call = "list" /\ e[k].id = c.ids[k] /\ ~e[k].replace
  BY <1>4
<1> HIDE DEF a, b, d, e, u, q
<1>9. q = Len(b) /\ q \in Nat
  BY <1>6 DEF q
<1>10. /\ u \in Seq(TrustCalls) /\ DOMAIN u = 1 .. m + q + 1 + m
       /\ \A k \in 1 .. m : u[k] = a[k]
       /\ \A k \in 1 .. q : u[k + m] = b[k]
       /\ \A k \in 1 .. 1 : u[k + m + q] = d[k]
       /\ \A k \in 1 .. m : u[k + m + q + 1] = e[k]
  <2>1. u = ((a \o b) \o d) \o e
    BY <1>2
  <2>2. /\ b \in Seq(TrustCalls) /\ a \in Seq(TrustCalls)
        /\ d \in Seq(TrustCalls) /\ e \in Seq(TrustCalls)
    BY <1>6, <1>7
  <2>3. u \in Seq(TrustCalls) /\ InTurn(u, a, b, d, e)
    BY <2>1, <2>2, FourJoined
  <2> QED
    BY <1>7, <1>9, <2>3, Zenon DEF InTurn
<1>11. \A k \in 1 .. m + q + 1 + m :
         \/ k \in 1 .. m
         \/ \E l \in 1 .. q : k = l + m
         \/ k = 1 + m + q
         \/ \E l \in 1 .. m : k = l + m + q + 1
  <2> SUFFICES ASSUME NEW k \in 1 .. m + q + 1 + m
               PROVE  \/ k \in 1 .. m
                      \/ \E l \in 1 .. q : k = l + m
                      \/ k = 1 + m + q
                      \/ \E l \in 1 .. m : k = l + m + q + 1
    OBVIOUS
  <2>1. CASE k > m /\ k <= m + q
    <3>1. k - m \in 1 .. q /\ k = (k - m) + m
      BY <1>1, <1>9, <2>1
    <3> QED
      BY <3>1
  <2>2. CASE k > m + q + 1
    <3>1. k - m - q - 1 \in 1 .. m /\ k = (k - m - q - 1) + m + q + 1
      BY <1>1, <1>9, <2>2
    <3> QED
      BY <3>1
  <2> QED
    BY <1>1, <1>9, <2>1, <2>2
<1>12. ASSUME NEW k \in 1 .. m + q + 1 + m
       PROVE  /\ Fits(c, u, k)
              /\ k <= m => Stage(u[k].call) = 1
              /\ k > m /\ k <= m + q => Stage(u[k].call) = 2
              /\ k = m + q + 1 => Stage(u[k].call) = 3 /\ u[k].call = "notify"
              /\ k > m + q + 1 => Stage(u[k].call) = 4
  <2>1. CASE k \in 1 .. m
    <3>1. u[k].call = "check" /\ u[k].id = c.ids[k] /\ ~u[k].replace
      BY <1>8, <1>10, <2>1
    <3>2. Fits(c, u, k)
      BY <1>1, <2>1, <3>1 DEF Fits
    <3>3. Stage(u[k].call) = 1
      BY <3>1 DEF Stage
    <3> QED
      BY <1>1, <1>9, <2>1, <3>2, <3>3
  <2>2. CASE \E l \in 1 .. q : k = l + m
    <3>1. PICK l \in 1 .. q : k = l + m
      BY <2>2
    <3>2. u[k] = b[l]
      BY <1>10, <3>1
    <3>3. Fits(c, u, k)
      BY <1>6, <3>1, <3>2 DEF Fits, Storing
    <3>4. Stage(u[k].call) = 2
      BY <1>6, <3>1, <3>2 DEF Stage
    <3>5. k > m /\ k <= m + q
      BY <1>1, <1>9, <3>1
    <3> QED
      BY <1>1, <1>9, <3>3, <3>4, <3>5
  <2>3. CASE k = 1 + m + q
    <3>1. u[k] = one
      BY <1>7, <1>10, <2>3
    <3>2. Fits(c, u, k)
      BY <1>1, <1>3, <3>1 DEF Fits, Storing
    <3>3. Stage(u[k].call) = 3 /\ u[k].call = "notify"
      BY <1>3, <3>1 DEF Stage
    <3> QED
      BY <1>1, <1>9, <2>3, <3>2, <3>3
  <2>4. CASE \E l \in 1 .. m : k = l + m + q + 1
    <3>1. PICK l \in 1 .. m : k = l + m + q + 1
      BY <2>4
    <3>2. u[k] = e[l]
      BY <1>10, <3>1
    <3>3. Fits(c, u, k)
      BY <1>1, <1>8, <3>1, <3>2 DEF Fits
    <3>4. Stage(u[k].call) = 4
      BY <1>8, <3>1, <3>2 DEF Stage
    <3>5. k > m + q + 1
      BY <1>1, <1>9, <3>1
    <3> QED
      BY <1>1, <1>9, <3>3, <3>4, <3>5
  <2> QED
    BY <1>11, <2>1, <2>2, <2>3, <2>4
<1>13. InOrder(u)
  <2> SUFFICES ASSUME NEW j \in 1 .. m + q + 1 + m, NEW k \in 1 .. m + q + 1 + m, j < k
               PROVE  Stage(u[j].call) <= Stage(u[k].call)
    BY <1>10 DEF InOrder
  <2> DEFINE x == Stage(u[j].call)
             y == Stage(u[k].call)
  <2>1. /\ j <= m => x = 1
        /\ j > m /\ j <= m + q => x = 2
        /\ j = m + q + 1 => x = 3
        /\ j > m + q + 1 => x = 4
    BY <1>12
  <2>2. /\ k <= m => y = 1
        /\ k > m /\ k <= m + q => y = 2
        /\ k = m + q + 1 => y = 3
        /\ k > m + q + 1 => y = 4
    BY <1>12
  <2> HIDE DEF x, y
  <2>3. x <= y
    BY <1>1, <1>9, <2>1, <2>2
  <2> QED
    BY <2>3 DEF x, y
<1>14. Told(u)
  <2>1. m + q + 1 \in 1 .. m + q + 1 + m
    BY <1>1, <1>9
  <2> QED
    BY <1>10, <1>12, <2>1 DEF Told
<1>15. ASSUME NEW i \in DOMAIN c.ids, NEW x \in DOMAIN c.certs
       PROVE  Later(u, c.ids[i], c.certs[x])
  <2>1. PICK k \in DOMAIN b : b[k].call = "put" /\ b[k].id = c.ids[i] /\ b[k].cert = c.certs[x]
    BY <1>6 DEF AllLater, Later
  <2>2. k \in 1 .. q /\ k + m \in 1 .. m + q + 1 + m
    BY <1>1, <1>6, <1>9
  <2>3. u[k + m] = b[k]
    BY <1>10, <2>2
  <2> QED
    BY <1>10, <2>1, <2>2, <2>3 DEF Later
<1>16. AllLater(c, u)
  BY <1>15 DEF AllLater
<1>17. \A k \in DOMAIN u : Fits(c, u, k)
  BY <1>10, <1>12
<1> QED
  BY <1>10, <1>13, <1>14, <1>16, <1>17 DEF TrustTodo, u

LEMMA TrustPlanned ==
    ASSUME NEW c \in Trust!Commands
    PROVE  /\ TrustTodo(c, Trust!Plan(c))
           /\ c.name \in Storing => Told(Trust!Plan(c)) /\ AllLater(c, Trust!Plan(c))
<1>1. c.name \in {"createpse", "upload", "removepse", "putpkc", "putcertificate", "listcertificates"}
      /\ (c.name \in {"createpse", "upload"} => c.certs = <<>>)
  BY TrustGiven
<1>2. c.name \in {"createpse", "upload"} => AllLater(c, Trust!Plan(c))
  BY <1>1 DEF AllLater
<1> QED
  BY <1>1, <1>2, OnePlanned, PutsPlanned, ChecksPlanned DEF Storing

-----------------------------------------------------------------------------
(* The invariant. *)
TrustActors == [cmd: Trust!Commands \cup {Trust!Idle}, todo: Seq(TrustCalls),
                exit: {"none", "ok", "nothing", "error"}]
TrustServers == [pse: [Identities -> Trust!Files], icm: [Identities -> Trust!Files]]
TrustHistories == [commands: 0 .. MaxCommands, others: SUBSET Identities,
                   theirs: SUBSET Identities, failed: SUBSET Identities]

TrustTypes == actor \in TrustActors /\ place \in TrustServers /\ history \in TrustHistories

TrustPlan ==
    /\ TrustTodo(actor.cmd, actor.todo)
    /\ actor.todo # <<>> => actor.cmd \in Trust!Commands /\ actor.exit = "none"
    /\ actor.exit = "nothing" => actor.cmd.name = "createpse"

Stores == actor.cmd.name \in Storing /\ (actor.todo # <<>> \/ actor.exit = "ok")

\* A certificate of the command is in its file, or will be put there.
TrustPut(i, x) ==
    \/ actor.cmd.ids[i] \in history.others
    \/ actor.cmd.certs[x] \in place.pse[actor.cmd.ids[i]].certs
    \/ Later(actor.todo, actor.cmd.ids[i], actor.cmd.certs[x])
TrustPuts == Stores => \A i \in DOMAIN actor.cmd.ids, x \in DOMAIN actor.cmd.certs : TrustPut(i, x)

InUse(i) == i \in history.others \/ place.icm[i] = place.pse[i]

\* After the ICM was told, it has what the server has.
TrustUses == Stores /\ ~Told(actor.todo) => \A i \in Identities : InUse(i)

\* The ICM will be told, and no check comes before that.
WillTell == Told(actor.todo) /\ ~(actor.cmd.name = "createpse" /\ Head(actor.todo).call = "check")

\* As long as no command has failed, a file that is there is in use, or soon will be.
TrustCalm ==
    history.failed = {} =>
        \A i \in Identities : place.pse[i] = Trust!Absent \/ InUse(i) \/ WillTell

TrustNothing ==
    actor.exit = "nothing" /\ history.failed = {} =>
        \A i \in DOMAIN actor.cmd.ids : InUse(actor.cmd.ids[i])

TrustInv == TrustTypes /\ TrustPlan /\ TrustPuts /\ TrustUses /\ TrustCalm /\ TrustNothing

LEMMA NothingTodo == \A c : TrustTodo(c, <<>>) /\ ~Told(<<>>)
BY DEF TrustTodo, InOrder, Told

LEMMA TrustInit == Trust!Init => TrustInv
<1> SUFFICES ASSUME Trust!Init PROVE TrustInv
  OBVIOUS
<1>1. PICK pse \in [Identities -> {Trust!Absent, Trust!Broken} \cup [key: {"theirs"}, certs: {{}, Certs}]] :
        /\ actor = [cmd |-> Trust!Idle, todo |-> <<>>, exit |-> "none"]
        /\ place = [pse |-> pse, icm |-> pse]
        /\ history = [commands |-> 0, others |-> {}, failed |-> {},
                      theirs |-> {i \in Identities : Trust!Exists(pse[i])}]
  BY DEF Trust!Init
<1>2. pse \in [Identities -> Trust!Files]
  <2>1. {Trust!Absent, Trust!Broken} \cup [key: {"theirs"}, certs: {{}, Certs}] \subseteq Trust!Files
    BY DEF Trust!Files, Trust!Keys
  <2> QED
    BY <2>1
<1>3. actor \in TrustActors /\ place \in TrustServers /\ history \in TrustHistories
  <2>1. <<>> \in Seq(TrustCalls) /\ 0 \in 0 .. MaxCommands
    BY BoundsAssumption
  <2> QED
    BY <1>1, <1>2, <2>1 DEF TrustActors, TrustServers, TrustHistories
<1>4. TrustPlan
  BY <1>1, NothingTodo DEF TrustPlan
<1>5. ~Stores
  BY <1>1 DEF Stores, Storing, Trust!Idle
<1>6. \A i \in Identities : InUse(i)
  BY <1>1 DEF InUse
<1>7. TrustNothing
  BY <1>1 DEF TrustNothing
<1> QED
  BY <1>3, <1>4, <1>5, <1>6, <1>7 DEF TrustInv, TrustTypes, TrustPuts, TrustUses, TrustCalm

\* The call that is made.
LEMMA TrustHere ==
    ASSUME TrustInv, actor.todo # <<>>
    PROVE  /\ Trust!Here = actor.todo[1] /\ Trust!Here \in TrustCalls /\ Trust!Here.id \in Identities
           /\ Fits(actor.cmd, actor.todo, 1) /\ 1 \in DOMAIN actor.todo
           /\ actor.cmd \in Trust!Commands /\ actor.todo \in Seq(TrustCalls)
           /\ TrustTodo(actor.cmd, actor.todo) /\ TrustTodo(actor.cmd, Tail(actor.todo))
           /\ actor.exit = "none"
<1>1. /\ TrustTodo(actor.cmd, actor.todo) /\ actor.cmd \in Trust!Commands /\ actor.exit = "none"
      /\ actor.todo \in Seq(TrustCalls)
  BY DEF TrustInv, TrustPlan, TrustTodo
<1>2. 1 \in DOMAIN actor.todo /\ actor.todo[1] \in TrustCalls /\ Head(actor.todo) = actor.todo[1]
  BY <1>1
<1>3. actor.todo[1].id \in Identities
  BY <1>2 DEF TrustCalls
<1>4. TrustTodo(actor.cmd, Tail(actor.todo))
  BY <1>1, TodoTail
<1> QED
  BY <1>1, <1>2, <1>3, <1>4 DEF Trust!Here, TrustTodo

\* What is still to be done after a call.
LEMMA TrustRest ==
    ASSUME NEW c, NEW s, TrustTodo(c, s), s # <<>>
    PROVE  /\ Told(Tail(s)) => Told(s)
           /\ Told(s) => Told(Tail(s)) \/ s[1].call = "notify"
           /\ Told(s) => c.name \in Storing
           /\ \A i, x : Later(s, i, x) =>
                 Later(Tail(s), i, x) \/ (s[1].call = "put" /\ s[1].id = i /\ s[1].cert = x)
           /\ c.name = "createpse" /\ Told(Tail(s)) => Head(Tail(s)).call # "check"
<1>1. /\ s \in Seq(TrustCalls) /\ Tail(s) \in Seq(TrustCalls) /\ 1 \in DOMAIN s
      /\ \A k \in DOMAIN Tail(s) : k + 1 \in DOMAIN s /\ Tail(s)[k] = s[k + 1] /\ k + 1 # 1
      /\ \A k \in DOMAIN s : k # 1 => k - 1 \in DOMAIN Tail(s) /\ Tail(s)[k - 1] = s[k]
      /\ \A k \in DOMAIN Tail(s) : 1 \in DOMAIN Tail(s)
      /\ 1 \in DOMAIN Tail(s) => Head(Tail(s)) = Tail(s)[1]
  BY DEF TrustTodo
<1> DEFINE u == Tail(s)
<1> HIDE DEF u
<1>2. Told(u) => Told(s)
  BY <1>1 DEF Told, u
<1>3. Told(s) => Told(u) \/ s[1].call = "notify"
  BY <1>1 DEF Told, u
<1>4. Told(s) => c.name \in Storing
  BY DEF Told, TrustTodo, Fits
<1>5. ASSUME NEW i, NEW x, Later(s, i, x)
      PROVE  Later(u, i, x) \/ (s[1].call = "put" /\ s[1].id = i /\ s[1].cert = x)
  <2>1. PICK k \in DOMAIN s : s[k].call = "put" /\ s[k].id = i /\ s[k].cert = x
    BY <1>5 DEF Later
  <2>2. k # 1 => k - 1 \in DOMAIN u /\ u[k - 1] = s[k]
    BY <1>1 DEF u
  <2> QED
    BY <2>1, <2>2 DEF Later
<1>6. ASSUME c.name = "createpse", Told(u) PROVE Head(u).call # "check"
  <2>1. 1 \in DOMAIN u /\ Head(u) = s[1 + 1] /\ 1 + 1 \in DOMAIN s /\ 1 + 1 # 1
    BY <1>1, <1>6 DEF Told, u
  <2>2. Fits(c, s, 1 + 1)
    BY <2>1 DEF TrustTodo
  <2> QED
    BY <1>6, <2>1, <2>2 DEF Fits
<1> QED
  BY <1>2, <1>3, <1>4, <1>5, <1>6 DEF u

\* A command that ends with an error, whatever it has changed.
LEMMA TrustFails ==
    ASSUME TrustInv, actor.todo # <<>>, Trust!Fail, place' \in TrustServers
    PROVE  TrustInv'
<1>1. /\ actor' = [actor EXCEPT !.todo = <<>>, !.exit = "error"]
      /\ history' = [history EXCEPT !.failed = @ \cup Trust!Ids]
  BY DEF Trust!Fail, Trust!Exit
<1>2. actor \in TrustActors /\ history \in TrustHistories
  BY DEF TrustInv, TrustTypes
<1>3. <<>> \in Seq(TrustCalls)
  OBVIOUS
<1>4. /\ actor' \in TrustActors /\ actor'.cmd = actor.cmd /\ actor'.todo = <<>>
      /\ actor'.exit = "error"
  BY <1>1, <1>2, <1>3 DEF TrustActors
<1>5. Trust!Ids \in SUBSET Identities /\ Trust!Ids # {}
  <2>1. actor.cmd.ids \in Seq(Identities) /\ actor.cmd.ids # <<>>
    BY TrustHere, TrustGiven
  <2>2. /\ 1 \in DOMAIN actor.cmd.ids
        /\ \A i \in DOMAIN actor.cmd.ids : actor.cmd.ids[i] \in Identities
    BY <2>1
  <2> QED
    BY <2>2 DEF Trust!Ids, Trust!Range
<1>6. history' \in TrustHistories /\ history'.failed # {}
  BY <1>1, <1>2, <1>5 DEF TrustHistories
<1>7. TrustPlan' /\ ~Stores'
  BY <1>4, NothingTodo DEF TrustPlan, Stores
<1> QED
  BY <1>4, <1>6, <1>7 DEF TrustInv, TrustTypes, TrustPuts, TrustUses, TrustCalm, TrustNothing

\* A command that goes on with rest, or ends well if there is none.
LEMMA TrustGoes ==
    ASSUME TrustInv, actor.todo # <<>>, NEW rest, TrustTodo(actor.cmd, rest), Trust!Continue(rest),
           place' \in TrustServers, UNCHANGED history,
           actor.cmd.name \in Storing =>
             \A i \in DOMAIN actor.cmd.ids, x \in DOMAIN actor.cmd.certs :
               \/ actor.cmd.ids[i] \in history.others
               \/ actor.cmd.certs[x] \in place'.pse[actor.cmd.ids[i]].certs
               \/ Later(rest, actor.cmd.ids[i], actor.cmd.certs[x]),
           actor.cmd.name \in Storing /\ ~Told(rest) =>
             \A i \in Identities : i \in history.others \/ place'.icm[i] = place'.pse[i],
           history.failed = {} =>
             \A i \in Identities :
               \/ place'.pse[i] = Trust!Absent
               \/ i \in history.others \/ place'.icm[i] = place'.pse[i]
               \/ Told(rest) /\ ~(actor.cmd.name = "createpse" /\ Head(rest).call = "check")
    PROVE  TrustInv'
<1>1. actor \in TrustActors /\ history \in TrustHistories
  BY DEF TrustInv, TrustTypes
<1>2. /\ actor' \in TrustActors /\ actor'.cmd = actor.cmd /\ actor'.todo = rest
      /\ actor'.exit \in {"none", "ok"}
  <2>1. rest \in Seq(TrustCalls) /\ actor.exit = "none"
    BY TrustHere DEF TrustTodo
  <2> QED
    BY <1>1, <2>1 DEF Trust!Continue, Trust!Exit, TrustActors
<1>3. TrustPlan'
  <2>1. actor.cmd \in Trust!Commands
    BY TrustHere
  <2>2. rest # <<>> => actor'.exit = "none"
    BY <1>1, TrustHere DEF Trust!Continue, TrustActors
  <2> QED
    BY <1>2, <2>1, <2>2 DEF TrustPlan
<1>4. TrustPuts'
  BY <1>2 DEF TrustPuts, TrustPut, Stores
<1>5. TrustUses' /\ TrustCalm'
  BY <1>2 DEF TrustUses, TrustCalm, InUse, WillTell, Stores
<1>6. TrustNothing'
  BY <1>2 DEF TrustNothing
<1> QED
  BY <1>1, <1>2, <1>3, <1>4, <1>5, <1>6 DEF TrustInv, TrustTypes

\* A request either fails or is carried out.
LEMMA TrustAsked ==
    ASSUME TrustInv, actor.todo # <<>>, NEW possible \in BOOLEAN, NEW effect \in TrustServers,
           Trust!Ask(possible, effect)
    PROVE  \/ TrustInv'
           \/ possible /\ place' = effect /\ Trust!Continue(Tail(actor.todo)) /\ UNCHANGED history
<1>1. CASE place' \in {place} \cup (IF possible THEN {effect} ELSE {}) /\ Trust!Fail
  <2>1. place' \in TrustServers
    BY <1>1 DEF TrustInv, TrustTypes
  <2> QED
    BY <1>1, <2>1, TrustFails
<1> QED
  BY <1>1 DEF Trust!Ask

\* A step that changes nothing on the server and puts no certificate.
LEMMA TrustKeeps ==
    ASSUME TrustInv, actor.todo # <<>>, NEW rest, TrustTodo(actor.cmd, rest), Trust!Continue(rest),
           UNCHANGED <<place, history>>,
           Told(actor.todo) => Told(rest),
           \A i, x : Later(actor.todo, i, x) => Later(rest, i, x),
           actor.cmd.name = "createpse" /\ Told(rest) => Head(rest).call # "check"
    PROVE  TrustInv'
<1>1. Stores <=> actor.cmd.name \in Storing
  BY DEF Stores
<1>2. place' \in TrustServers /\ place' = place /\ UNCHANGED history
  BY DEF TrustInv, TrustTypes
<1>3. ASSUME actor.cmd.name \in Storing, NEW i \in DOMAIN actor.cmd.ids, NEW x \in DOMAIN actor.cmd.certs
      PROVE  \/ actor.cmd.ids[i] \in history.others
             \/ actor.cmd.certs[x] \in place'.pse[actor.cmd.ids[i]].certs
             \/ Later(rest, actor.cmd.ids[i], actor.cmd.certs[x])
  <2>1. TrustPut(i, x)
    BY <1>1, <1>3 DEF TrustInv, TrustPuts
  <2> QED
    BY <1>2, <2>1 DEF TrustPut
<1>4. ASSUME actor.cmd.name \in Storing, ~Told(rest), NEW i \in Identities
      PROVE  i \in history.others \/ place'.icm[i] = place'.pse[i]
  BY <1>1, <1>2, <1>4 DEF TrustInv, TrustUses, InUse
<1>5. ASSUME history.failed = {}, NEW i \in Identities
      PROVE  \/ place'.pse[i] = Trust!Absent
             \/ i \in history.others \/ place'.icm[i] = place'.pse[i]
             \/ Told(rest) /\ ~(actor.cmd.name = "createpse" /\ Head(rest).call = "check")
  BY <1>2, <1>5 DEF TrustInv, TrustCalm, InUse, WillTell
<1> QED
  BY <1>2, <1>3, <1>4, <1>5, TrustGoes

LEMMA TrustStart ==
    ASSUME TrustInv, Trust!Start
    PROVE  TrustInv'
<1>1. PICK c \in Trust!Commands : actor' = [cmd |-> c, todo |-> Trust!Plan(c), exit |-> "none"]
  BY DEF Trust!Start
<1>2. /\ actor.todo = <<>> /\ place' = place /\ history.commands < MaxCommands
      /\ history' = [history EXCEPT !.commands = @ + 1]
  BY DEF Trust!Start, Trust!Running
<1>3. /\ TrustTodo(c, Trust!Plan(c))
      /\ c.name \in Storing => Told(Trust!Plan(c)) /\ AllLater(c, Trust!Plan(c))
  BY TrustPlanned
<1> DEFINE s == Trust!Plan(c)
<1> HIDE DEF s
<1>4. /\ actor' \in TrustActors /\ actor'.cmd = c /\ actor'.todo = s /\ actor'.exit = "none"
  BY <1>1, <1>3 DEF TrustActors, TrustTodo, s
<1>5. /\ history' \in TrustHistories /\ history'.others = history.others
      /\ history'.failed = history.failed
  <2>1. history \in TrustHistories
    BY DEF TrustInv, TrustTypes
  <2>2. history.commands \in 0 .. MaxCommands
    BY <2>1 DEF TrustHistories
  <2>3. history.commands + 1 \in 0 .. MaxCommands
    BY <1>2, <2>2, BoundsAssumption
  <2> QED
    BY <1>2, <2>1, <2>3 DEF TrustHistories
<1>6. TrustPlan'
  BY <1>3, <1>4 DEF TrustPlan, s
<1>7. TrustPuts'
  <2> SUFFICES ASSUME c.name \in Storing, NEW i \in DOMAIN c.ids, NEW x \in DOMAIN c.certs
               PROVE  Later(s, c.ids[i], c.certs[x])
    BY <1>4 DEF TrustPuts, TrustPut, Stores
  <2> QED
    BY <1>3 DEF AllLater, s
<1>8. TrustUses'
  BY <1>3, <1>4 DEF TrustUses, Stores, s
<1>9. TrustCalm' /\ TrustNothing'
  <2>1. ~WillTell
    BY <1>2, NothingTodo DEF WillTell
  <2> QED
    BY <1>2, <1>4, <1>5, <2>1 DEF TrustInv, TrustCalm, TrustNothing, InUse
<1> QED
  BY <1>2, <1>4, <1>5, <1>6, <1>7, <1>8, <1>9 DEF TrustInv, TrustTypes

LEMMA TrustCheck ==
    ASSUME TrustInv, Trust!Check
    PROVE  TrustInv'
<1> DEFINE s == actor.todo
<1>1. /\ s # <<>> /\ Trust!Here.call = "check" /\ place' = place
      /\ Head(s) = s[1]
  BY DEF Trust!Check, Trust!Now, Trust!Running, Trust!Here
<1>2. /\ Trust!Here = s[1] /\ TrustTodo(actor.cmd, s) /\ TrustTodo(actor.cmd, Tail(s))
      /\ s \in Seq(TrustCalls) /\ 1 \in DOMAIN s /\ place' \in TrustServers
  BY <1>1, TrustHere DEF TrustInv, TrustTypes
<1> HIDE DEF s
<1>3. /\ Told(s) => Told(Tail(s))
      /\ \A i, x : Later(s, i, x) => Later(Tail(s), i, x)
      /\ actor.cmd.name = "createpse" /\ Told(Tail(s)) => Head(Tail(s)).call # "check"
  BY <1>1, <1>2, TrustRest
<1>4. CASE Trust!Continue(Tail(s)) /\ UNCHANGED history
  BY <1>1, <1>2, <1>3, <1>4, TrustKeeps DEF s
<1>5. CASE Trust!Fail
  BY <1>1, <1>2, <1>5, TrustFails DEF s
<1>6. CASE /\ actor.cmd.name = "putcertificate" /\ UNCHANGED history
           /\ Trust!Continue(<<Trust!Call("create", Trust!Here.id, Trust!NoCert, FALSE)>> \o Tail(s))
  <2> DEFINE d == Trust!Call("create", Trust!Here.id, Trust!NoCert, FALSE)
             rest == <<d>> \o Tail(s)
  <2>1. TrustTodo(actor.cmd, rest)
    BY <1>1, <1>2, <1>6, TodoCreates
  <2>2. d \in TrustCalls
    BY <1>1, TrustHere DEF TrustCalls, Trust!Call, s
  <2> HIDE DEF d
  <2>3. Tail(s) \in Seq(TrustCalls)
    BY <1>2 DEF TrustTodo
  <2>4. \A k \in DOMAIN Tail(s) : k + 1 \in DOMAIN rest /\ rest[k + 1] = Tail(s)[k]
    BY <2>2, <2>3
  <2> HIDE DEF rest
  <2>5. Told(s) => Told(rest)
    BY <1>3, <2>4 DEF Told
  <2>6. ASSUME NEW i, NEW x, Later(s, i, x)
        PROVE  Later(rest, i, x)
    <3>1. Later(Tail(s), i, x)
      BY <1>3, <2>6
    <3> QED
      BY <2>4, <3>1 DEF Later
  <2>7. Trust!Continue(rest)
    BY <1>6 DEF rest, d
  <2> QED
    BY <1>1, <1>6, <2>1, <2>5, <2>6, <2>7, TrustKeeps DEF s
<1>7. CASE /\ Trust!Exit("nothing") /\ UNCHANGED history /\ actor.cmd.name = "createpse"
           /\ Trust!Exists(Trust!There)
  <2>1. /\ actor' \in TrustActors /\ actor'.cmd = actor.cmd /\ actor'.todo = <<>>
        /\ actor'.exit = "nothing"
    <3>1. <<>> \in Seq(TrustCalls) /\ actor \in TrustActors
      BY DEF TrustInv, TrustTypes
    <3> QED
      BY <1>7, <3>1 DEF Trust!Exit, TrustActors
  <2>2. TrustPlan' /\ ~Stores'
    BY <1>7, <2>1, NothingTodo DEF TrustPlan, Stores
  <2>3. ~WillTell
    BY <1>1, <1>7 DEF WillTell, s, Trust!Here
  <2>4. TrustCalm'
    BY <1>1, <1>7, <2>3 DEF TrustInv, TrustCalm, InUse
  <2>5. TrustNothing'
    <3>1. DOMAIN actor.cmd.ids = {1} /\ Trust!Here.id \in Identities
          /\ \E j \in DOMAIN actor.cmd.ids : Trust!Here.id = actor.cmd.ids[j]
      BY <1>1, <1>2, <1>7, TrustHere, TrustGiven DEF Fits, s
    <3>2. place.pse[Trust!Here.id] # Trust!Absent
      BY <1>7 DEF Trust!Exists, Trust!There, Trust!Absent, Trust!Keys
    <3>3. ASSUME history.failed = {} PROVE InUse(Trust!Here.id)
      BY <2>3, <3>1, <3>2, <3>3 DEF TrustInv, TrustCalm
    <3> QED
      BY <1>1, <1>7, <2>1, <3>1, <3>3 DEF TrustNothing, InUse
  <2> QED
    BY <1>1, <1>2, <1>7, <2>1, <2>2, <2>4, <2>5 DEF TrustInv, TrustTypes, TrustPuts, TrustUses
<1> QED
  BY <1>1, <1>4, <1>5, <1>6, <1>7 DEF Trust!Check, s

\* Another file, stored by a call.
TrustStores(file) == [place EXCEPT !.pse[Trust!Here.id] = file]

LEMMA TrustStored ==
    ASSUME TrustInv, actor.todo # <<>>, NEW file \in Trust!Files
    PROVE  /\ Trust!Store(file) = TrustStores(file) /\ TrustStores(file) \in TrustServers
           /\ TrustStores(file).icm = place.icm
           /\ \A i \in Identities :
                TrustStores(file).pse[i] = IF i = Trust!Here.id THEN file ELSE place.pse[i]
<1>1. place \in TrustServers /\ Trust!Here.id \in Identities
  BY TrustHere DEF TrustInv, TrustTypes
<1> QED
  BY <1>1 DEF TrustStores, Trust!Store, TrustServers

LEMMA TrustThere ==
    ASSUME TrustInv, actor.todo # <<>>
    PROVE  /\ Trust!There \in Trust!Files /\ Trust!There = place.pse[Trust!Here.id]
           /\ [key |-> "mine", certs |-> {}] \in Trust!Files /\ Trust!Absent \in Trust!Files
           /\ Trust!Exists(Trust!There) =>
                /\ Trust!There \in [key: Trust!Keys, certs: SUBSET Certs]
                /\ \A x \in Certs : [Trust!There EXCEPT !.certs = @ \cup {x}] \in Trust!Files
<1>1. place \in TrustServers /\ Trust!Here.id \in Identities
  BY TrustHere DEF TrustInv, TrustTypes
<1>2. Trust!There \in Trust!Files /\ Trust!There = place.pse[Trust!Here.id]
  BY <1>1 DEF TrustServers, Trust!There
<1>3. Trust!Exists(Trust!There) => Trust!There \in [key: Trust!Keys, certs: SUBSET Certs]
  BY <1>2 DEF Trust!Files, Trust!Exists, Trust!Absent, Trust!Broken, Trust!Keys
<1>4. ASSUME NEW file \in [key: Trust!Keys, certs: SUBSET Certs], NEW x \in Certs
      PROVE  [file EXCEPT !.certs = @ \cup {x}] \in Trust!Files
  BY DEF Trust!Files
<1> QED
  BY <1>2, <1>3, <1>4 DEF Trust!Files, Trust!Keys

LEMMA TrustCreate ==
    ASSUME TrustInv, Trust!Create
    PROVE  TrustInv'
<1> DEFINE s == actor.todo
           file == [key |-> "mine", certs |-> {}]
<1>1. s # <<>> /\ Trust!Here.call \in {"create", "upload"}
  BY DEF Trust!Create, Trust!Now, Trust!Running, Trust!Here
<1>2. /\ Trust!Here = s[1] /\ TrustTodo(actor.cmd, s) /\ TrustTodo(actor.cmd, Tail(s))
      /\ 1 \in DOMAIN s /\ actor.cmd.name \in Storing
  BY <1>1, TrustHere DEF Fits
<1>3. Told(s) /\ AllLater(actor.cmd, s)
  BY <1>1, <1>2 DEF TrustTodo, Stage
<1>4. /\ Told(Tail(s))
      /\ \A i, x : Later(s, i, x) => Later(Tail(s), i, x)
      /\ actor.cmd.name = "createpse" => Head(Tail(s)).call # "check"
  BY <1>1, <1>2, <1>3, TrustRest
<1>5. file \in Trust!Files
  BY <1>1, TrustThere
<1>6. /\ Trust!Store(file) = TrustStores(file) /\ TrustStores(file) \in TrustServers
  BY <1>1, <1>5, TrustStored
<1>7. \/ TrustInv'
      \/ place' \in TrustServers /\ Trust!Continue(Tail(s)) /\ UNCHANGED history
  <2>1. (Trust!There = Trust!Absent \/ Trust!Here.replace) \in BOOLEAN
    OBVIOUS
  <2>2. Trust!Ask(Trust!There = Trust!Absent \/ Trust!Here.replace, TrustStores(file))
    BY <1>6 DEF Trust!Create
  <2> QED
    BY <1>1, <1>6, <2>1, <2>2, TrustAsked
<1>8. CASE place' \in TrustServers /\ Trust!Continue(Tail(s)) /\ UNCHANGED history
  BY <1>1, <1>2, <1>3, <1>4, <1>8, TrustGoes DEF AllLater
<1> QED
  BY <1>7, <1>8

LEMMA TrustRemove ==
    ASSUME TrustInv, Trust!RemovePse
    PROVE  TrustInv'
<1> DEFINE s == actor.todo
<1>1. s # <<>> /\ Trust!Here.call = "remove"
  BY DEF Trust!RemovePse, Trust!Now, Trust!Running, Trust!Here
<1>2. /\ Trust!Here = s[1] /\ TrustTodo(actor.cmd, s) /\ TrustTodo(actor.cmd, Tail(s))
      /\ actor.cmd.name \notin Storing /\ Trust!Here.id \in Identities
  BY <1>1, TrustHere DEF Fits, Storing
<1>3. ~Told(s)
  BY <1>1, <1>2, TrustRest
<1>4. /\ Trust!Store(Trust!Absent) = TrustStores(Trust!Absent)
      /\ TrustStores(Trust!Absent) \in TrustServers
      /\ TrustStores(Trust!Absent).icm = place.icm
      /\ \A i \in Identities :
           TrustStores(Trust!Absent).pse[i] = IF i = Trust!Here.id THEN Trust!Absent ELSE place.pse[i]
  BY <1>1, TrustThere, TrustStored
<1>5. \/ TrustInv'
      \/ /\ place' = TrustStores(Trust!Absent) /\ Trust!Continue(Tail(s)) /\ UNCHANGED history
  <2>1. (Trust!There # Trust!Absent) \in BOOLEAN
    OBVIOUS
  <2>2. Trust!Ask(Trust!There # Trust!Absent, TrustStores(Trust!Absent))
    BY <1>4 DEF Trust!RemovePse
  <2> QED
    BY <1>1, <1>4, <2>1, <2>2, TrustAsked
<1>6. CASE place' = TrustStores(Trust!Absent) /\ Trust!Continue(Tail(s)) /\ UNCHANGED history
  <2>1. ASSUME history.failed = {}, NEW i \in Identities
        PROVE  \/ place'.pse[i] = Trust!Absent
               \/ i \in history.others \/ place'.icm[i] = place'.pse[i]
    BY <1>3, <1>4, <1>6, <2>1 DEF TrustInv, TrustCalm, InUse, WillTell
  <2>2. place' \in TrustServers
    BY <1>4, <1>6
  <2> QED
    BY <1>1, <1>2, <1>6, <2>1, <2>2, TrustGoes
<1> QED
  BY <1>5, <1>6

\* Signing the key and listing certificates.
LEMMA TrustReads ==
    ASSUME TrustInv, Trust!Sign \/ Trust!List
    PROVE  TrustInv'
<1> DEFINE s == actor.todo
<1>1. s # <<>> /\ Trust!Here.call \in {"sign", "list"}
  BY DEF Trust!Sign, Trust!List, Trust!Now, Trust!Running, Trust!Here
<1>2. /\ Trust!Here = s[1] /\ TrustTodo(actor.cmd, s) /\ TrustTodo(actor.cmd, Tail(s))
  BY <1>1, TrustHere
<1>3. /\ Told(s) => Told(Tail(s))
      /\ \A i, x : Later(s, i, x) => Later(Tail(s), i, x)
      /\ actor.cmd.name = "createpse" /\ Told(Tail(s)) => Head(Tail(s)).call # "check"
  BY <1>1, <1>2, TrustRest
<1>4. PICK possible \in BOOLEAN : Trust!Ask(possible, place)
  <2>1. Trust!Exists(Trust!There) \in BOOLEAN
    BY DEF Trust!Exists
  <2> QED
    BY <2>1 DEF Trust!Sign, Trust!List
<1>5. \/ TrustInv'
      \/ place' = place /\ Trust!Continue(Tail(s)) /\ UNCHANGED history
  <2>1. place \in TrustServers
    BY DEF TrustInv, TrustTypes
  <2> QED
    BY <1>1, <1>4, <2>1, TrustAsked
<1>6. CASE place' = place /\ Trust!Continue(Tail(s)) /\ UNCHANGED history
  BY <1>1, <1>2, <1>3, <1>6, TrustKeeps
<1> QED
  BY <1>5, <1>6

LEMMA TrustNotify ==
    ASSUME TrustInv, Trust!Notify
    PROVE  TrustInv'
<1> DEFINE s == actor.todo
           effect == [place EXCEPT !.icm = place.pse]
<1>1. s # <<>> /\ Trust!Here.call = "notify"
  BY DEF Trust!Notify, Trust!Now, Trust!Running, Trust!Here
<1>2. /\ Trust!Here = s[1] /\ TrustTodo(actor.cmd, s) /\ TrustTodo(actor.cmd, Tail(s))
      /\ actor.cmd.name \in Storing
  BY <1>1, TrustHere DEF Fits
<1>3. \A i, x : Later(s, i, x) => Later(Tail(s), i, x)
  BY <1>1, <1>2, TrustRest
<1>4. effect \in TrustServers /\ effect.pse = place.pse /\ effect.icm = place.pse
  BY DEF TrustInv, TrustTypes, TrustServers
<1>5. \/ TrustInv'
      \/ place' = effect /\ Trust!Continue(Tail(s)) /\ UNCHANGED history
  <2>1. Trust!Ask(TRUE, effect)
    BY DEF Trust!Notify
  <2> HIDE DEF effect
  <2> QED
    BY <1>1, <1>4, <2>1, TrustAsked
<1> HIDE DEF effect
<1>6. CASE place' = effect /\ Trust!Continue(Tail(s)) /\ UNCHANGED history
  <2>1. Stores
    BY <1>1, <1>2 DEF Stores
  <2>2. ASSUME NEW i \in DOMAIN actor.cmd.ids, NEW x \in DOMAIN actor.cmd.certs
        PROVE  \/ actor.cmd.ids[i] \in history.others
               \/ actor.cmd.certs[x] \in place'.pse[actor.cmd.ids[i]].certs
               \/ Later(Tail(s), actor.cmd.ids[i], actor.cmd.certs[x])
    <3>1. TrustPut(i, x)
      BY <2>1 DEF TrustInv, TrustPuts
    <3> QED
      BY <1>3, <1>4, <1>6, <3>1 DEF TrustPut
  <2>3. place' \in TrustServers /\ \A i \in Identities : place'.icm[i] = place'.pse[i]
    BY <1>4, <1>6
  <2> QED
    BY <1>1, <1>2, <1>6, <2>2, <2>3, TrustGoes
<1> QED
  BY <1>5, <1>6

LEMMA TrustPutStep ==
    ASSUME TrustInv, Trust!Put
    PROVE  TrustInv'
<1> DEFINE s == actor.todo
           file == [Trust!There EXCEPT !.certs = @ \cup {Trust!Here.cert}]
<1>1. s # <<>> /\ Trust!Here.call = "put"
  BY DEF Trust!Put, Trust!Now, Trust!Running, Trust!Here
<1>2. /\ Trust!Here = s[1] /\ TrustTodo(actor.cmd, s) /\ TrustTodo(actor.cmd, Tail(s))
      /\ actor.cmd.name \in Storing /\ Trust!Here.id \in Identities /\ 1 \in DOMAIN s
  BY <1>1, TrustHere DEF Fits
<1>3. Told(s)
  BY <1>1, <1>2 DEF TrustTodo, Stage
<1>4. /\ Told(Tail(s))
      /\ \A i, x : Later(s, i, x) =>
            Later(Tail(s), i, x) \/ (Trust!Here.id = i /\ Trust!Here.cert = x)
      /\ actor.cmd.name = "createpse" => Head(Tail(s)).call # "check"
  BY <1>1, <1>2, <1>3, TrustRest
<1>a. Trust!Here.cert \in Certs
  BY <1>1, <1>2, TrustHere DEF Fits
<1>5. CASE Trust!Exists(Trust!There)
  <2>1. file \in Trust!Files /\ Trust!There = place.pse[Trust!Here.id]
        /\ Trust!There \in [key: Trust!Keys, certs: SUBSET Certs]
    BY <1>1, <1>5, <1>a, TrustThere
  <2>2. file.certs = place.pse[Trust!Here.id].certs \cup {Trust!Here.cert}
    BY <2>1
  <2>3. Trust!Put => Trust!Ask(Trust!Exists(Trust!There), Trust!Store(file))
    BY DEF Trust!Put
  <2> HIDE DEF file
  <2>4. /\ Trust!Store(file) = TrustStores(file) /\ TrustStores(file) \in TrustServers
        /\ \A i \in Identities :
             TrustStores(file).pse[i] = IF i = Trust!Here.id THEN file ELSE place.pse[i]
    BY <1>1, <2>1, TrustStored
  <2>5. \/ TrustInv'
        \/ place' = TrustStores(file) /\ Trust!Continue(Tail(s)) /\ UNCHANGED history
    <3>1. Trust!Exists(Trust!There) \in BOOLEAN /\ Trust!Ask(Trust!Exists(Trust!There), TrustStores(file))
      BY <2>3, <2>4 DEF Trust!Exists
    <3> QED
      BY <1>1, <2>4, <3>1, TrustAsked
  <2>6. CASE place' = TrustStores(file) /\ Trust!Continue(Tail(s)) /\ UNCHANGED history
    <3>1. Stores
      BY <1>1, <1>2 DEF Stores
    <3>2. ASSUME NEW i \in DOMAIN actor.cmd.ids, NEW x \in DOMAIN actor.cmd.certs
          PROVE  \/ actor.cmd.ids[i] \in history.others
                 \/ actor.cmd.certs[x] \in place'.pse[actor.cmd.ids[i]].certs
                 \/ Later(Tail(s), actor.cmd.ids[i], actor.cmd.certs[x])
      <4>1. TrustPut(i, x)
        BY <3>1 DEF TrustInv, TrustPuts
      <4>2. actor.cmd.ids[i] \in Identities
        BY <1>1, TrustHere, TrustGiven
      <4> QED
        BY <1>4, <2>2, <2>4, <2>6, <4>1, <4>2 DEF TrustPut
    <3>3. place' \in TrustServers
      BY <2>4, <2>6
    <3> QED
      BY <1>1, <1>2, <1>4, <2>6, <3>2, <3>3, TrustGoes
  <2> QED
    BY <2>5, <2>6
<1>6. CASE ~Trust!Exists(Trust!There)
  <2>1. place' = place /\ Trust!Fail
    BY <1>6 DEF Trust!Put, Trust!Ask
  <2>2. place' \in TrustServers
    BY <2>1 DEF TrustInv, TrustTypes
  <2> QED
    BY <1>1, <2>1, <2>2, TrustFails
<1> QED
  BY <1>5, <1>6

LEMMA TrustOthers ==
    ASSUME TrustInv, Trust!Others
    PROVE  TrustInv'
<1>1. PICK i \in Identities, file \in {Trust!Absent, [key |-> "theirs", certs |-> {}]} :
          /\ place' = [place EXCEPT !.pse[i] = file]
          /\ history' = [history EXCEPT !.others = {i},
                      !.theirs = IF Trust!Exists(file) THEN @ \cup {i} ELSE @ \ {i}]
  BY DEF Trust!Others
<1>2. history.others = {} /\ actor' = actor
  BY DEF Trust!Others
<1>3. file \in Trust!Files
  BY DEF Trust!Files, Trust!Keys
<1>4. /\ place' \in TrustServers /\ place'.icm = place.icm
      /\ \A j \in Identities \ {i} : place'.pse[j] = place.pse[j]
  BY <1>1, <1>3 DEF TrustInv, TrustTypes, TrustServers
<1>5. /\ history' \in TrustHistories /\ history'.others = {i} /\ history'.failed = history.failed
  <2>1. /\ history \in TrustHistories
    BY DEF TrustInv, TrustTypes
  <2>2. {i} \in SUBSET Identities /\ history.theirs \cup {i} \in SUBSET Identities
        /\ history.theirs \ {i} \in SUBSET Identities
    BY <2>1 DEF TrustHistories
  <2> QED
    BY <1>1, <2>1, <2>2 DEF TrustHistories
<1>6. TrustPlan' /\ (Stores' <=> Stores)
  BY <1>2 DEF TrustInv, TrustPlan, Stores
<1>7. \A j \in Identities : InUse(j) => InUse(j)'
  BY <1>2, <1>4, <1>5 DEF InUse
<1>8. TrustPuts'
  <2> SUFFICES ASSUME Stores, NEW j \in DOMAIN actor.cmd.ids, NEW x \in DOMAIN actor.cmd.certs
               PROVE  TrustPut(j, x)'
    BY <1>2, <1>6 DEF TrustPuts
  <2>1. TrustPut(j, x)
    BY DEF TrustInv, TrustPuts
  <2>2. actor.cmd.ids[j] \in Identities
    <3>1. actor.cmd \in Trust!Commands
      BY DEF TrustInv, TrustTypes, TrustActors, Stores, Storing, Trust!Idle
    <3> QED
      BY <3>1, TrustGiven
  <2> QED
    BY <1>2, <1>4, <1>5, <2>1, <2>2 DEF TrustPut
<1>9. TrustUses'
  BY <1>2, <1>6, <1>7 DEF TrustInv, TrustUses
<1>10. TrustCalm'
  BY <1>2, <1>4, <1>5, <1>7 DEF TrustInv, TrustCalm, WillTell, InUse
<1>11. TrustNothing'
  BY <1>2 DEF TrustInv, TrustPlan, TrustNothing, Trust!Others, Trust!Running
<1> QED
  BY <1>2, <1>4, <1>5, <1>6, <1>8, <1>9, <1>10, <1>11 DEF TrustInv, TrustTypes

LEMMA TrustNext ==
    ASSUME TrustInv, Trust!Next
    PROVE  TrustInv'
BY TrustStart, TrustCheck, TrustCreate, TrustRemove, TrustReads, TrustNotify, TrustPutStep, TrustOthers
DEF Trust!Next, Trust!Step

TrustPart == part = "strust" => TrustInv

LEMMA TrustAlways == CommandsSpec => []TrustPart
<1> USE DEF TrustPart
<1>1. CommandsInit => TrustPart
  BY SmallInit, TrustInit
<1>2. ASSUME TrustPart, [CommandsNext]_all
      PROVE  TrustPart'
  <2>1. CASE UNCHANGED small
    BY <1>2, <2>1, SmallStep
    DEF small, TrustInv, TrustTypes, TrustPlan, TrustPuts, TrustPut, TrustUses, TrustCalm, TrustNothing,
        Stores, InUse, WillTell
  <2> QED
    BY <1>2, <2>1, SmallStep, TrustNext
<1> QED
  BY <1>1, <1>2, PTL DEF CommandsSpec

(***************************************************************************)
(* A command that reports success has its PSE files in use by the ICM,     *)
(* with its certificates in all of them, for any number of files and       *)
(* certificates; except for files another administrator has changed, and   *)
(* for a createpse that finds what a failed command has left.              *)
(***************************************************************************)
THEOREM FilesAreInUse == CommandsSpec => []DoneIsInUse
<1>1. ASSUME TrustInv, actor.exit \in {"ok", "nothing"}, actor.cmd.name \in Storing,
             NEW i \in Trust!Ids \ history.others
      PROVE  \/ /\ place.icm[i] = place.pse[i]
                /\ Trust!Range(actor.cmd.certs) \subseteq place.pse[i].certs
             \/ actor.exit = "nothing" /\ history.failed # {}
  <2>1. actor.cmd \in Trust!Commands /\ actor.todo = <<>>
    BY <1>1 DEF TrustInv, TrustTypes, TrustPlan, TrustActors, Storing, Trust!Idle
  <2>2. PICK j \in DOMAIN actor.cmd.ids : i = actor.cmd.ids[j]
    BY <1>1 DEF Trust!Ids, Trust!Range
  <2>3. i \in Identities
    BY <2>1, <2>2, TrustGiven
  <2>4. CASE actor.exit = "nothing"
    <3>1. actor.cmd.name = "createpse" /\ actor.cmd.certs = <<>>
      BY <1>1, <2>1, <2>4, TrustGiven DEF TrustInv, TrustPlan
    <3>2. Trust!Range(actor.cmd.certs) = {}
      BY <3>1 DEF Trust!Range
    <3>3. history.failed = {} => InUse(i)
      BY <1>1, <2>2, <2>4 DEF TrustInv, TrustNothing
    <3> QED
      BY <1>1, <2>4, <3>2, <3>3 DEF InUse
  <2>5. CASE actor.exit = "ok"
    <3>1. Stores /\ ~Told(actor.todo) /\ \A x, y : ~Later(actor.todo, x, y)
      BY <1>1, <2>1, <2>5, NothingTodo DEF Stores, Later
    <3>2. place.icm[i] = place.pse[i]
      BY <1>1, <2>3, <3>1 DEF TrustInv, TrustUses, InUse
    <3>3. ASSUME NEW x \in DOMAIN actor.cmd.certs PROVE actor.cmd.certs[x] \in place.pse[i].certs
      <4>1. TrustPut(j, x)
        BY <1>1, <2>2, <3>1 DEF TrustInv, TrustPuts
      <4> QED
        BY <1>1, <2>2, <3>1, <4>1 DEF TrustPut
    <3> QED
      BY <3>2, <3>3 DEF Trust!Range
  <2> QED
    BY <1>1, <2>4, <2>5
<1>2. TrustPart => DoneIsInUse
  BY <1>1 DEF TrustPart, DoneIsInUse, Trust!DoneIsInUse, Storing
<1> QED
  BY <1>2, TrustAlways, PTL

\* A call that changes a key is an allowed one.
LEMMA TrustKeys ==
    ASSUME TrustInv, Trust!Next
    PROVE  Trust!KeySurvives
<1> SUFFICES ASSUME NEW i \in Identities, i \in history.theirs, place.pse[i].key = "theirs",
                    place'.pse[i].key # "theirs", UNCHANGED history.theirs
             PROVE  Trust!Overwrites(i)
  BY DEF Trust!KeySurvives
<1>1. place \in TrustServers
  BY DEF TrustInv, TrustTypes
<1>2. place' # place
  OBVIOUS
<1>3. CASE Trust!Create \/ Trust!RemovePse \/ Trust!Put
  <2>1. actor.todo # <<>> /\ Trust!Here.call \in {"create", "upload", "remove", "put"}
    BY <1>3 DEF Trust!Create, Trust!RemovePse, Trust!Put, Trust!Now, Trust!Running, Trust!Here
  <2>2. /\ Fits(actor.cmd, actor.todo, 1) /\ Trust!Here = actor.todo[1] /\ Trust!Here.id \in Identities
        /\ Trust!There = place.pse[Trust!Here.id]
    BY <2>1, TrustHere, TrustThere
  <2>3. Trust!Here.id \in Trust!Ids
    BY <2>2 DEF Fits, Trust!Ids, Trust!Range
  <2>4. CASE Trust!Create
    <3>1. /\ place' = [place EXCEPT !.pse[Trust!Here.id] = [key |-> "mine", certs |-> {}]]
          /\ Trust!There = Trust!Absent \/ Trust!Here.replace
      BY <1>2, <2>4 DEF Trust!Create, Trust!Ask, Trust!Store
    <3>2. i = Trust!Here.id
      BY <1>1, <3>1 DEF TrustServers
    <3>3. actor.cmd.overwrite
      BY <2>2, <3>1, <3>2 DEF Trust!Absent, Fits
    <3> QED
      BY <2>3, <3>2, <3>3 DEF Trust!Overwrites
  <2>5. CASE Trust!RemovePse
    <3>1. place' = [place EXCEPT !.pse[Trust!Here.id] = Trust!Absent]
      BY <1>2, <2>5 DEF Trust!RemovePse, Trust!Ask, Trust!Store
    <3>2. i = Trust!Here.id
      BY <1>1, <3>1 DEF TrustServers
    <3>3. Trust!Here.call = "remove"
      BY <2>5 DEF Trust!RemovePse, Trust!Now, Trust!Here
    <3> QED
      BY <2>2, <2>3, <3>2, <3>3 DEF Trust!Overwrites, Fits
  <2>6. CASE Trust!Put
    <3>1. /\ place' = [place EXCEPT !.pse[Trust!Here.id] =
                         [Trust!There EXCEPT !.certs = @ \cup {Trust!Here.cert}]]
          /\ Trust!Exists(Trust!There)
      BY <1>2, <2>6 DEF Trust!Put, Trust!Ask, Trust!Store
    <3>2. Trust!There \in [key: Trust!Keys, certs: SUBSET Certs]
      BY <2>1, <3>1, TrustThere
    <3>3. [Trust!There EXCEPT !.certs = @ \cup {Trust!Here.cert}].key = Trust!There.key
      BY <3>2
    <3>4. place'.pse[i].key = place.pse[i].key
      <4> DEFINE file == [Trust!There EXCEPT !.certs = @ \cup {Trust!Here.cert}]
      <4>1. file.key = Trust!There.key /\ place' = [place EXCEPT !.pse[Trust!Here.id] = file]
        BY <3>1, <3>3
      <4> HIDE DEF file
      <4> QED
        BY <1>1, <2>2, <4>1 DEF TrustServers
    <3> QED
      BY <3>4
  <2> QED
    BY <1>3, <2>4, <2>5, <2>6
<1>4. CASE Trust!Others
  <2>1. PICK j \in Identities, file \in {Trust!Absent, [key |-> "theirs", certs |-> {}]} :
            /\ place' = [place EXCEPT !.pse[j] = file]
            /\ history' = [history EXCEPT !.others = {j},
                        !.theirs = IF Trust!Exists(file) THEN @ \cup {j} ELSE @ \ {j}]
    BY <1>4 DEF Trust!Others
  <2>2. j = i /\ file = Trust!Absent
    BY <1>1, <2>1 DEF TrustServers
  <2>3. ~Trust!Exists(file)
    BY <2>2 DEF Trust!Exists, Trust!Absent, Trust!Keys
  <2>4. history'.theirs = history.theirs \ {i}
    BY <2>1, <2>2, <2>3 DEF TrustInv, TrustTypes, TrustHistories
  <2> QED
    BY <2>4
<1>5. CASE Trust!Start \/ Trust!Check
  BY <1>2, <1>5 DEF Trust!Start, Trust!Check
<1>6. CASE Trust!Sign \/ Trust!List
  BY <1>2, <1>6 DEF Trust!Sign, Trust!List, Trust!Ask
<1>7. CASE Trust!Notify
  <2>1. place' = [place EXCEPT !.icm = place.pse]
    BY <1>2, <1>7 DEF Trust!Notify, Trust!Ask
  <2>2. place'.pse = place.pse
    BY <1>1, <2>1 DEF TrustServers
  <2> QED
    BY <2>2
<1> QED
  BY <1>3, <1>4, <1>5, <1>6, <1>7 DEF Trust!Next, Trust!Step

\* A key that somebody else stored is destroyed only by a command that was told to,
\* also when he stored it between the check and the creation.
THEOREM ForeignKeysSurvive == CommandsSpec => KeysSurvive
<1>1. ASSUME TrustPart, [CommandsNext]_all
      PROVE  [part = "strust" => Trust!KeySurvives]_all
  <2>1. CASE UNCHANGED small
    BY <2>1 DEF small, Trust!KeySurvives
  <2> QED
    BY <1>1, <2>1, SmallStep, TrustKeys DEF TrustPart
<1> QED
  BY <1>1, TrustAlways, PTL DEF CommandsSpec, KeysSurvive

-----------------------------------------------------------------------------
(***************************************************************************)
(* Marshalling, for documents of every length. The parser's state says     *)
(* what the document has said so far, but for the text that is still in    *)
(* its buffer (XmlSame); a document of our own stands at one of the phases *)
(* of Document(given), each of which fixes what is still to come and what  *)
(* has been read (XmlPhase).                                               *)
(***************************************************************************)

LEMMA AppendIs ==
    ASSUME NEW S, NEW s \in Seq(S), NEW x \in S
    PROVE  /\ Append(s, x) \in Seq(S) /\ Len(Append(s, x)) = Len(s) + 1
           /\ Append(s, x)[Len(s) + 1] = x
           /\ \A i \in 1 .. Len(s) : Append(s, x)[i] = s[i]
OBVIOUS

LEMMA ShortSeqs ==
    ASSUME NEW S, NEW x \in S, NEW y \in S, NEW z \in S
    PROVE  /\ Append(<<>>, x) = <<x>> /\ Append(<<x>>, y) = <<x, y>> /\ Append(<<x, y>>, z) = <<x, y, z>>
           /\ SubSeq(<<x, y, z>>, 1, 2) = <<x, y>> /\ SubSeq(<<x, y>>, 1, 1) = <<x>>
           /\ SubSeq(<<x>>, 1, 0) = <<>>
<1> DEFINE one == <<x>>
           two == <<x, y>>
           three == <<x, y, z>>
<1>1. /\ one \in Seq(S) /\ Len(one) = 1 /\ one[1] = x
      /\ two \in Seq(S) /\ Len(two) = 2 /\ two[1] = x /\ two[2] = y
      /\ three \in Seq(S) /\ Len(three) = 3 /\ three[1] = x /\ three[2] = y /\ three[3] = z
  OBVIOUS
<1>0. one \in Seq(S) /\ two \in Seq(S) /\ three \in Seq(S)
  OBVIOUS
<1>2. Append(<<>>, x) = one /\ SubSeq(<<x>>, 1, 0) = <<>>
  OBVIOUS
<1> HIDE DEF one, two, three
<1> DEFINE a2 == Append(one, y)
           a3 == Append(two, z)
           b2 == SubSeq(three, 1, 2)
           b1 == SubSeq(two, 1, 1)
<1>3. /\ a2 \in Seq(S) /\ Len(a2) = Len(one) + 1 /\ a2[Len(one) + 1] = y
      /\ \A i \in 1 .. Len(one) : a2[i] = one[i]
  BY <1>0, AppendIs
<1>4. /\ a3 \in Seq(S) /\ Len(a3) = Len(two) + 1 /\ a3[Len(two) + 1] = z
      /\ \A i \in 1 .. Len(two) : a3[i] = two[i]
  BY <1>0, AppendIs
<1>5. b2 \in Seq(S) /\ Len(b2) = 2 /\ \A i \in 1 .. 2 : b2[i] = three[i]
  BY <1>1
<1>6. b1 \in Seq(S) /\ Len(b1) = 1 /\ \A i \in 1 .. 1 : b1[i] = two[i]
  BY <1>1
<1> HIDE DEF a2, a3, b2, b1
<1>7. a2 = two
  BY <1>1, <1>3, SameSeq
<1>8. a3 = three
  BY <1>1, <1>4, SameSeq
<1>9. b2 = two
  BY <1>1, <1>5, SameSeq
<1>10. b1 = one
  BY <1>1, <1>6, SameSeq
<1> QED
  BY <1>2, <1>7, <1>8, <1>9, <1>10 DEF one, two, three, a2, a3, b2, b1

XmlNames == {"r", "t", "o", "l", "u", "x", " ", "", "unset"}
Texted == Seq(XmlNames)
XmlInner == [a: {"unset", "v"}, u: Texted]
XmlObject == [a: {"unset", "v"}, t: Texted, there: BOOLEAN, o: XmlInner, l: Seq(XmlInner)]
XmlEvents == [what: {"start", "text", "end"}, name: XmlNames, a: {"unset", "v"}]

PathT == <<"r", "t">>
PathO == <<"r", "o">>
PathL == <<"r", "l">>
PathOU == <<"r", "o", "u">>
PathLU == <<"r", "l", "u">>

\* The paths of the table, and what is around them.
LEMMA Paths ==
    /\ Xml!Texts = {PathT, PathOU, PathLU} /\ Xml!Objects = {Xml!Root, PathO, PathL}
    /\ PathT # PathOU /\ PathT # PathLU /\ PathOU # PathLU /\ Xml!Root # PathO /\ Xml!Root # PathL /\ PathO # PathL
    /\ Xml!Root \notin Xml!Texts /\ PathO \notin Xml!Texts /\ PathL \notin Xml!Texts /\ Xml!NoPath \notin Xml!Texts /\ Xml!NoPath \notin Xml!Objects
    /\ PathT \notin Xml!Objects /\ PathOU \notin Xml!Objects /\ PathLU \notin Xml!Objects
    /\ Append(Xml!NoPath, "r") = Xml!Root /\ Append(Xml!Root, "t") = PathT /\ Append(Xml!Root, "o") = PathO /\ Append(Xml!Root, "l") = PathL
    /\ Append(PathO, "u") = PathOU /\ Append(PathL, "u") = PathLU
    /\ SubSeq(PathOU, 1, Len(PathOU) - 1) = PathO /\ SubSeq(PathLU, 1, Len(PathLU) - 1) = PathL
    /\ SubSeq(PathT, 1, Len(PathT) - 1) = Xml!Root /\ SubSeq(PathO, 1, Len(PathO) - 1) = Xml!Root /\ SubSeq(PathL, 1, Len(PathL) - 1) = Xml!Root
    /\ SubSeq(Xml!Root, 1, Len(Xml!Root) - 1) = Xml!NoPath
    /\ {PathT, PathOU, PathLU, Xml!Root, PathO, PathL, Xml!NoPath} \subseteq Seq(XmlNames)
<1>1. Xml!Texts = {PathT, PathOU, PathLU} /\ Xml!Objects = {Xml!Root, PathO, PathL}
  BY DEF Xml!Texts, Xml!Objects, PathT, PathOU, PathLU, Xml!Root, PathO, PathL
<1>2. PathT # PathOU /\ PathT # PathLU /\ PathOU # PathLU /\ Xml!Root # PathO /\ Xml!Root # PathL /\ PathO # PathL
  BY DEF PathT, PathOU, PathLU, Xml!Root, PathO, PathL
<1>3. Xml!Root \notin {PathT, PathOU, PathLU} /\ PathO \notin {PathT, PathOU, PathLU} /\ PathL \notin {PathT, PathOU, PathLU}
      /\ Xml!NoPath \notin {PathT, PathOU, PathLU} /\ Xml!NoPath \notin {Xml!Root, PathO, PathL}
  BY DEF PathT, PathOU, PathLU, Xml!Root, PathO, PathL, Xml!NoPath
<1>4. PathT \notin {Xml!Root, PathO, PathL} /\ PathOU \notin {Xml!Root, PathO, PathL} /\ PathLU \notin {Xml!Root, PathO, PathL}
  BY DEF PathT, PathOU, PathLU, Xml!Root, PathO, PathL
<1>4a. {"r", "t", "o", "l", "u"} \subseteq XmlNames
  BY DEF XmlNames
<1>5. Append(Xml!NoPath, "r") = Xml!Root /\ Append(Xml!Root, "t") = PathT /\ Append(Xml!Root, "o") = PathO /\ Append(Xml!Root, "l") = PathL
  BY <1>4a, ShortSeqs DEF PathT, Xml!Root, PathO, PathL, Xml!NoPath
<1>6. Append(PathO, "u") = PathOU /\ Append(PathL, "u") = PathLU
  BY <1>4a, ShortSeqs DEF PathOU, PathLU, PathO, PathL
<1>7. SubSeq(PathOU, 1, Len(PathOU) - 1) = PathO /\ SubSeq(PathLU, 1, Len(PathLU) - 1) = PathL
  <2>1. Len(PathOU) - 1 = 2 /\ Len(PathLU) - 1 = 2
    BY DEF PathOU, PathLU
  <2>2. SubSeq(<<"r", "o", "u">>, 1, 2) = <<"r", "o">> /\ SubSeq(<<"r", "l", "u">>, 1, 2) = <<"r", "l">>
    BY <1>4a, ShortSeqs
  <2> QED
    BY <2>1, <2>2 DEF PathOU, PathLU, PathO, PathL
<1>8. SubSeq(PathT, 1, Len(PathT) - 1) = Xml!Root /\ SubSeq(PathO, 1, Len(PathO) - 1) = Xml!Root /\ SubSeq(PathL, 1, Len(PathL) - 1) = Xml!Root
      /\ SubSeq(Xml!Root, 1, Len(Xml!Root) - 1) = Xml!NoPath
  <2>1. Len(PathT) - 1 = 1 /\ Len(PathO) - 1 = 1 /\ Len(PathL) - 1 = 1 /\ Len(Xml!Root) - 1 = 0
    BY DEF PathT, PathO, PathL, Xml!Root
  <2>2. /\ SubSeq(<<"r", "t">>, 1, 1) = <<"r">> /\ SubSeq(<<"r", "o">>, 1, 1) = <<"r">>
        /\ SubSeq(<<"r", "l">>, 1, 1) = <<"r">> /\ SubSeq(<<"r">>, 1, 0) = <<>>
    BY <1>4a, ShortSeqs
  <2> QED
    BY <2>1, <2>2 DEF PathT, PathO, PathL, Xml!Root, Xml!NoPath
<1>9. {PathT, PathOU, PathLU, Xml!Root, PathO, PathL, Xml!NoPath} \subseteq Seq(XmlNames)
  BY <1>4a DEF PathT, PathOU, PathLU, Xml!Root, PathO, PathL, Xml!NoPath
<1> QED
  BY <1>1, <1>2, <1>3, <1>4, <1>5, <1>6, <1>7, <1>8, <1>9

\* Objects with a text, or with an element.
WithT(obj, text) == [obj EXCEPT !.t = text]
WithOU(obj, text) == [obj EXCEPT !.o.u = text]
WithLU(obj, text) == [obj EXCEPT !.l[Len(obj.l)].u = text]
WithA(obj, a) == [obj EXCEPT !.a = a]
WithO(obj, a) == [obj EXCEPT !.there = TRUE, !.o = [Xml!NewInner EXCEPT !.a = a]]
WithL(obj, a) == [obj EXCEPT !.l = Append(@, [Xml!NewInner EXCEPT !.a = a])]

\* The text of an element, and a new element, of any object.
LEMMA TextIs ==
    ASSUME NEW obj, NEW text
    PROVE  /\ Xml!SetText(obj, PathT, text) = WithT(obj, text)
           /\ Xml!SetText(obj, PathOU, text) = WithOU(obj, text)
           /\ Xml!SetText(obj, PathLU, text) = WithLU(obj, text)
           /\ \A path : path \notin Xml!Texts => Xml!SetText(obj, path, text) = obj
           /\ Xml!TextAt(obj, PathT) = obj.t /\ Xml!TextAt(obj, PathOU) = obj.o.u /\ Xml!TextAt(obj, PathLU) = obj.l[Len(obj.l)].u
BY Paths DEF Xml!SetText, Xml!TextAt, Xml!Last, PathT, PathOU, PathLU, WithT, WithOU, WithLU

LEMMA ElementIs ==
    ASSUME NEW obj, NEW a
    PROVE  /\ Xml!WithElement(obj, Xml!Root, a) = WithA(obj, a)
           /\ Xml!WithElement(obj, PathO, a) = WithO(obj, a)
           /\ Xml!WithElement(obj, PathL, a) = WithL(obj, a)
           /\ \A path : path \notin Xml!Objects => Xml!WithElement(obj, path, a) = Xml!SetText(obj, path, <<>>)
BY Paths DEF Xml!WithElement, PathO, PathL, WithA, WithO, WithL

LEMMA InnerIs ==
    ASSUME NEW a \in {"unset", "v"}
    PROVE  [Xml!NewInner EXCEPT !.a = a] = [a |-> a, u |-> Xml!Unset] /\ [a |-> a, u |-> Xml!Unset] \in XmlInner
<1>1. Xml!Unset \in Texted
  BY DEF Xml!Unset, Texted, XmlNames
<1> QED
  BY <1>1 DEF Xml!NewInner, XmlInner

\* Both keep the type of an object, and the text that is set last is the one it has.
LEMMA TextTyped ==
    ASSUME NEW obj \in XmlObject, NEW path \in Seq(XmlNames), NEW text \in Texted, path = PathLU => Len(obj.l) > 0
    PROVE  /\ Xml!SetText(obj, path, text) \in XmlObject
           /\ Len(Xml!SetText(obj, path, text).l) = Len(obj.l)
           /\ path \in Xml!Texts => /\ Xml!TextAt(Xml!SetText(obj, path, text), path) = text
                                /\ Xml!TextAt(obj, path) \in Texted
                                /\ \A more : Xml!SetText(Xml!SetText(obj, path, text), path, more) = Xml!SetText(obj, path, more)
<1>0. obj.t \in Texted /\ obj.o \in XmlInner /\ obj.l \in Seq(XmlInner) /\ obj.o.u \in Texted
  BY DEF XmlObject, XmlInner
<1>1. CASE path \notin Xml!Texts
  BY <1>1, TextIs
<1>2. CASE path = PathT
  <2>1. /\ WithT(obj, text) \in XmlObject /\ WithT(obj, text).t = text /\ WithT(obj, text).l = obj.l
        /\ \A more : WithT(WithT(obj, text), more) = WithT(obj, more)
    BY DEF XmlObject, WithT
  <2> QED
    BY <1>0, <1>2, <2>1, TextIs
<1>3. CASE path = PathOU
  <2>1. /\ WithOU(obj, text) \in XmlObject /\ WithOU(obj, text).o.u = text /\ WithOU(obj, text).l = obj.l
        /\ \A more : WithOU(WithOU(obj, text), more) = WithOU(obj, more)
    BY DEF XmlObject, XmlInner, WithOU
  <2> QED
    BY <1>0, <1>3, <2>1, TextIs
<1>4. CASE path = PathLU
  <2> DEFINE n == Len(obj.l)
             new == WithLU(obj, text)
             item == [obj.l[n] EXCEPT !.u = text]
  <2>1. n \in 1 .. n /\ n \in Nat /\ obj.l[n] \in XmlInner /\ DOMAIN obj.l = 1 .. n
    BY <1>0, <1>4
  <2>2. item \in XmlInner /\ item.u = text
    BY <2>1 DEF XmlInner
  <2>3. [obj.l EXCEPT ![n] = item] \in Seq(XmlInner) /\ Len([obj.l EXCEPT ![n] = item]) = n
        /\ [obj.l EXCEPT ![n] = item][n] = item
    BY <1>0, <2>1, <2>2
  <2>4. new = [obj EXCEPT !.l = [obj.l EXCEPT ![n] = item]]
    BY DEF WithLU
  <2>5. new.l = [obj.l EXCEPT ![n] = item] /\ new \in XmlObject
    BY <2>3, <2>4 DEF XmlObject
  <2> HIDE DEF new
  <2>6. ASSUME NEW more PROVE WithLU(new, more) = WithLU(obj, more)
    <3>1. WithLU(new, more) = [new EXCEPT !.l = [new.l EXCEPT ![n] = [new.l[n] EXCEPT !.u = more]]]
      BY <2>3, <2>5 DEF WithLU
    <3>2. [new.l[n] EXCEPT !.u = more] = [obj.l[n] EXCEPT !.u = more]
      BY <2>1, <2>3, <2>5 DEF XmlInner
    <3>3. [new.l EXCEPT ![n] = [new.l[n] EXCEPT !.u = more]] = [obj.l EXCEPT ![n] = [obj.l[n] EXCEPT !.u = more]]
      BY <2>1, <2>5, <3>2
    <3>4. [new EXCEPT !.l = [obj.l EXCEPT ![n] = [obj.l[n] EXCEPT !.u = more]]]
             = [obj EXCEPT !.l = [obj.l EXCEPT ![n] = [obj.l[n] EXCEPT !.u = more]]]
      BY <2>4 DEF XmlObject
    <3>5. WithLU(obj, more) = [obj EXCEPT !.l = [obj.l EXCEPT ![n] = [obj.l[n] EXCEPT !.u = more]]]
      BY DEF WithLU
    <3> QED
      BY <3>1, <3>3, <3>4, <3>5
  <2>7. Xml!SetText(obj, path, text) = new /\ Xml!TextAt(obj, path) = obj.l[n].u /\ Len(new.l) = n
    BY <1>4, <2>3, <2>5, TextIs DEF new
  <2>8. Xml!TextAt(new, path) = text
    <3>1. new.l[n] = item /\ Len(new.l) = n
      BY <2>3, <2>5
    <3>2. Xml!TextAt(new, path) = new.l[Len(new.l)].u
      BY <1>4, TextIs
    <3> HIDE DEF n, item
    <3> QED
      BY <2>2, <3>1, <3>2
  <2>9. \A more : Xml!SetText(new, path, more) = Xml!SetText(obj, path, more)
    BY <1>4, <2>6, <2>7, TextIs
  <2>10. obj.l[n].u \in Texted
    BY <2>1 DEF XmlInner
  <2> QED
    BY <2>5, <2>7, <2>8, <2>9, <2>10
<1> QED
  BY <1>1, <1>2, <1>3, <1>4, Paths

LEMMA ElementTyped ==
    ASSUME NEW obj \in XmlObject, NEW path \in Seq(XmlNames), NEW a \in {"unset", "v"}, path = PathLU => Len(obj.l) > 0
    PROVE  /\ Xml!WithElement(obj, path, a) \in XmlObject
           /\ Len(Xml!WithElement(obj, path, a).l) = IF path = PathL THEN Len(obj.l) + 1 ELSE Len(obj.l)
<1>1. CASE path \notin Xml!Objects
  <2>1. <<>> \in Texted /\ path # PathL
    BY <1>1, Paths DEF Texted
  <2>2. Xml!WithElement(obj, path, a) = Xml!SetText(obj, path, <<>>)
    BY <1>1, ElementIs
  <2>3. Xml!SetText(obj, path, <<>>) \in XmlObject /\ Len(Xml!SetText(obj, path, <<>>).l) = Len(obj.l)
    BY <2>1, TextTyped
  <2> QED
    BY <2>1, <2>2, <2>3
<1>2. CASE path = Xml!Root
  <2>1. WithA(obj, a) \in XmlObject /\ WithA(obj, a).l = obj.l
    BY DEF XmlObject, WithA
  <2> QED
    BY <1>2, <2>1, ElementIs, Paths
<1> DEFINE inner == [Xml!NewInner EXCEPT !.a = a]
<1>3. inner \in XmlInner
  BY InnerIs
<1> HIDE DEF inner
<1>4. CASE path = PathO
  <2>1. WithO(obj, a) = [obj EXCEPT !.there = TRUE, !.o = inner]
    BY DEF WithO, inner
  <2>2. WithO(obj, a) \in XmlObject /\ WithO(obj, a).l = obj.l
    BY <1>3, <2>1 DEF XmlObject
  <2> QED
    BY <1>4, <2>2, ElementIs, Paths
<1>5. CASE path = PathL
  <2>1. obj.l \in Seq(XmlInner)
    BY DEF XmlObject
  <2>2. Append(obj.l, inner) \in Seq(XmlInner) /\ Len(Append(obj.l, inner)) = Len(obj.l) + 1
    BY <1>3, <2>1
  <2>3. WithL(obj, a) = [obj EXCEPT !.l = Append(obj.l, inner)]
    BY DEF WithL, inner
  <2>4. WithL(obj, a) \in XmlObject /\ WithL(obj, a).l = Append(obj.l, inner)
    BY <2>2, <2>3 DEF XmlObject
  <2> QED
    BY <1>5, <2>2, <2>4, ElementIs, Paths
<1> QED
  BY <1>1, <1>2, <1>4, <1>5, Paths


XmlActors == [path: Seq(XmlNames), handler: {Xml!NoPath} \cup Xml!Objects \cup Xml!Texts, buffer: Texted,
              bound: Nat, obj: XmlObject, raised: BOOLEAN]
XmlServers == [open: Seq(XmlNames), todo: Seq(XmlEvents), left: 0 .. MaxEvents]
XmlTypes ==
    /\ actor \in XmlActors /\ place \in XmlServers
    /\ history \in [own: BOOLEAN, given: XmlObject, written: {history.written}, odd: BOOLEAN, stray: BOOLEAN]
    /\ ~history.odd => history.written \in XmlObject

\* The handler belongs to the element that is open, or to none; the text of an item
\* goes to the last one.
InList(path) == Len(path) >= 2 /\ path[1] = "r" /\ path[2] = "l"
XmlPlace ==
    /\ actor.path = place.open
    /\ actor.bound = Len(actor.obj.l)
    /\ actor.handler = PathLU \/ InList(actor.path) => Len(actor.obj.l) > 0
    /\ actor.handler \in Xml!Objects => actor.path \notin Xml!Texts
    /\ actor.raised => history.stray

\* As long as no text has an element in it, the handler of a text is that of the
\* element that is open, and with its buffer the object is what the document says.
XmlSame ==
    ~history.odd =>
        /\ \A j \in 0 .. Len(actor.path) - 1 : SubSeq(actor.path, 1, j) \notin Xml!Texts
        /\ actor.path \in Xml!Texts => actor.handler = actor.path
        /\ actor.handler \in Xml!Texts => actor.handler = actor.path
        /\ history.written = Xml!Stored

\* What set_text() of a handler makes of the object.
Saved(at) ==
    CASE at.handler = PathLU -> [at.obj EXCEPT !.l[at.bound].u = at.buffer]
      [] at.handler \in Xml!Texts \ {PathLU} -> Xml!SetText(at.obj, at.handler, at.buffer)
      [] OTHER -> at.obj

LEMMA NoText ==
    ASSUME NEW obj, NEW path, path \notin Xml!Texts, NEW text
    PROVE  Xml!SetText(obj, path, text) = obj
BY TextIs

LEMMA NoElement ==
    ASSUME NEW obj, NEW path, path \notin Xml!Objects, NEW a
    PROVE  Xml!WithElement(obj, path, a) = Xml!SetText(obj, path, <<>>)
BY ElementIs

LEMMA SavedIs ==
    ASSUME NEW at \in XmlActors, at.bound = Len(at.obj.l), at.handler = PathLU => Len(at.obj.l) > 0
    PROVE  /\ Saved(at) = Xml!SetText(at.obj, at.handler, at.buffer)
           /\ Saved(at) \in XmlObject /\ Len(Saved(at).l) = Len(at.obj.l)
<1>1. at.handler \in Seq(XmlNames) /\ at.buffer \in Texted /\ at.obj \in XmlObject
  BY Paths DEF XmlActors
<1>2. CASE at.handler = PathLU
  <2>1. Saved(at) = [at.obj EXCEPT !.l[at.bound].u = at.buffer]
    BY <1>2 DEF Saved
  <2>2. Saved(at) = WithLU(at.obj, at.buffer)
    BY <2>1 DEF WithLU
  <2> QED
    BY <1>1, <1>2, <2>2, TextIs, TextTyped
<1>3. CASE at.handler # PathLU
  <2>1. Saved(at) = IF at.handler \in Xml!Texts THEN Xml!SetText(at.obj, at.handler, at.buffer) ELSE at.obj
    BY <1>3 DEF Saved
  <2>2. at.handler \notin Xml!Texts => Xml!SetText(at.obj, at.handler, at.buffer) = at.obj
    BY NoText
  <2> QED
    BY <1>1, <1>3, <2>1, <2>2, TextTyped
<1> QED
  BY <1>2, <1>3

LEMMA StoredIs ==
    /\ Xml!Stored = Saved(actor)
    /\ XmlTypes /\ XmlPlace => /\ Xml!Stored = Xml!SetText(actor.obj, actor.handler, actor.buffer)
                               /\ Xml!Stored \in XmlObject /\ Len(Xml!Stored.l) = Len(actor.obj.l)
<1>1. Xml!Stored = Saved(actor)
  BY DEF Xml!Stored, Saved, PathLU
<1>2. ASSUME XmlTypes, XmlPlace
      PROVE  /\ Xml!Stored = Xml!SetText(actor.obj, actor.handler, actor.buffer)
             /\ Xml!Stored \in XmlObject /\ Len(Xml!Stored.l) = Len(actor.obj.l)
  BY <1>1, <1>2, SavedIs DEF XmlTypes, XmlPlace
<1> QED
  BY <1>1, <1>2

LEMMA StoredNext ==
    ASSUME XmlTypes', XmlPlace'
    PROVE  /\ Xml!Stored' = Xml!SetText(actor'.obj, actor'.handler, actor'.buffer)
           /\ Xml!Stored' \in XmlObject /\ Len(Xml!Stored'.l) = Len(actor'.obj.l)
<1>1. Xml!Stored' = Saved(actor')
  BY DEF Xml!Stored, Saved, PathLU
<1> QED
  BY <1>1, SavedIs DEF XmlTypes, XmlPlace

\* A path with one more element.
LEMMA Longer ==
    ASSUME NEW path \in Seq(XmlNames), NEW name \in XmlNames
    PROVE  /\ Append(path, name) \in Seq(XmlNames)
           /\ \A j \in 0 .. Len(path) : SubSeq(Append(path, name), 1, j) = SubSeq(path, 1, j)
           /\ SubSeq(path, 1, Len(path)) = path
           /\ Len(Append(path, name)) = Len(path) + 1
           /\ InList(path) => InList(Append(path, name))
           /\ InList(Append(path, name)) => InList(path) \/ Append(path, name) = PathL
           /\ Append(path, name) = PathLU => path = PathL
           /\ Append(path, name) \in Xml!Objects \cup Xml!Texts => (InList(Append(path, name)) <=> Append(path, name) \in {PathL, PathLU})
<1> DEFINE new == Append(path, name)
<1>1. /\ new \in Seq(XmlNames) /\ Len(new) = Len(path) + 1 /\ new[Len(path) + 1] = name
      /\ \A i \in 1 .. Len(path) : new[i] = path[i]
  BY AppendIs
<1> HIDE DEF new
<1>2. ASSUME NEW j \in 0 .. Len(path) PROVE SubSeq(new, 1, j) = SubSeq(path, 1, j)
  <2>1. /\ SubSeq(new, 1, j) \in Seq(XmlNames) /\ Len(SubSeq(new, 1, j)) = j
        /\ \A i \in 1 .. j : SubSeq(new, 1, j)[i] = new[i]
    BY <1>1
  <2>2. /\ SubSeq(path, 1, j) \in Seq(XmlNames) /\ Len(SubSeq(path, 1, j)) = j
        /\ \A i \in 1 .. j : SubSeq(path, 1, j)[i] = path[i]
    OBVIOUS
  <2>3. \A i \in 1 .. j : path[i] = new[i]
    BY <1>1
  <2> HIDE DEF new
  <2> QED
    BY <2>1, <2>2, <2>3, SameSeq
<1>3. SubSeq(path, 1, Len(path)) = path
  OBVIOUS
<1>4. InList(path) => InList(new)
  BY <1>1 DEF InList
<1>5. ASSUME InList(new), ~InList(path) PROVE new = PathL
  <2>1. Len(new) = 2 /\ new[1] = "r" /\ new[2] = "l"
    BY <1>1, <1>5 DEF InList
  <2>2. PathL \in Seq(XmlNames) /\ Len(PathL) = 2 /\ PathL[1] = "r" /\ PathL[2] = "l"
    BY Paths DEF PathL
  <2>3. new[1] = PathL[1] /\ new[2] = PathL[2] /\ Len(new) = Len(PathL)
    BY <2>1, <2>2
  <2>4. \A i \in 1 .. Len(new) : i = 1 \/ i = 2
    BY <2>1
  <2>5. \A i \in 1 .. Len(new) : new[i] = PathL[i]
    BY <2>3, <2>4
  <2> QED
    BY <1>1, <2>2, <2>3, <2>5, SameSeq
<1>6. ASSUME new = PathLU PROVE path = PathL
  <2>1. new[1] = "r" /\ new[2] = "l" /\ Len(new) = 3
    BY <1>6 DEF PathLU
  <2>a. Len(path) = 2
    <3> DEFINE n == Len(path)
               m == Len(new)
    <3>1. n \in Nat /\ m = n + 1
      BY <1>1
    <3>2. m = 3
      BY <2>1
    <3> HIDE DEF n, m
    <3>3. n = 2
      BY <3>1, <3>2
    <3> QED
      BY <3>3 DEF n
  <2>b. 1 \in 1 .. Len(path) /\ 2 \in 1 .. Len(path)
    BY <2>a
  <2>2. Len(path) = 2 /\ path[1] = "r" /\ path[2] = "l"
    BY <1>1, <2>1, <2>a, <2>b
  <2>3. PathL \in Seq(XmlNames) /\ Len(PathL) = 2 /\ PathL[1] = "r" /\ PathL[2] = "l"
    BY Paths DEF PathL
  <2> QED
    BY <2>2, <2>3, SameSeq
<1>7. ASSUME new \in Xml!Objects \cup Xml!Texts PROVE InList(new) <=> new \in {PathL, PathLU}
  <2>1. new \in {PathT, PathOU, PathLU, Xml!Root, PathO, PathL}
    BY <1>7, Paths
  <2>2. InList(PathL) /\ InList(PathLU) /\ ~InList(PathT) /\ ~InList(PathOU) /\ ~InList(Xml!Root) /\ ~InList(PathO)
    BY DEF InList, PathT, PathOU, PathLU, Xml!Root, PathO, PathL
  <2> QED
    BY <2>1, <2>2
<1> QED
  BY <1>1, <1>2, <1>3, <1>4, <1>5, <1>6, <1>7 DEF new


XmlSafe == XmlTypes /\ XmlPlace /\ XmlSame

LEMMA XmlStart ==
    ASSUME XmlSafe, NEW e \in XmlEvents, Xml!StartElement(e), IF history.own THEN place.todo # <<>> ELSE TRUE
    PROVE  XmlSafe'
<1> DEFINE path == Append(actor.path, e.name)
           old == actor.path
           text == Xml!WithElement(history.written, path, e.a)
           oddly == history.odd \/ actor.path \in Xml!Texts
           strayed == history.stray \/ (path \in Xml!Texts /\ e.a # "unset")
           element == Xml!WithElement(actor.obj, path, e.a)
<1>1. /\ old \in Seq(XmlNames) /\ e.name \in XmlNames /\ e.a \in {"unset", "v"}
      /\ actor.handler \in {Xml!NoPath} \cup Xml!Objects \cup Xml!Texts /\ actor.buffer \in Texted
      /\ actor.bound \in Nat /\ actor.obj \in XmlObject /\ actor.raised \in BOOLEAN
      /\ place.open = old /\ place.todo \in Seq(XmlEvents) /\ place.left \in 0 .. MaxEvents
      /\ actor.bound = Len(actor.obj.l) /\ actor.bound \in Nat
  BY DEF XmlSafe, XmlTypes, XmlPlace, XmlActors, XmlServers, XmlEvents
<1>2. /\ actor' = IF path \notin Xml!Objects \cup Xml!Texts THEN [actor EXCEPT !.path = path]
                   ELSE [actor EXCEPT !.path = path, !.handler = path, !.buffer = <<>>,
                             !.raised = path \in Xml!Texts /\ e.a # "unset",
                             !.obj = IF path \in Xml!Objects THEN element ELSE @,
                             !.bound = IF path = PathL THEN Len(actor.obj.l) + 1 ELSE @]
      /\ ~actor.raised
      /\ Xml!Read(e, path, text, oddly, strayed)
  BY <1>1 DEF Xml!StartElement, PathL
<1>3. /\ path \in Seq(XmlNames) /\ Len(path) = Len(old) + 1
      /\ \A j \in 0 .. Len(old) : SubSeq(path, 1, j) = SubSeq(old, 1, j)
      /\ SubSeq(old, 1, Len(old)) = old
      /\ InList(path) => InList(old) \/ path = PathL
      /\ path = PathLU => InList(old)
      /\ path \in Xml!Objects \cup Xml!Texts => (InList(path) <=> path \in {PathL, PathLU})
  <2>1. path = PathLU => old = PathL
    BY <1>1, Longer
  <2>2. InList(PathL)
    BY DEF InList, PathL
  <2> QED
    BY <1>1, <2>1, <2>2, Longer
<1> HIDE DEF path, text, oddly, strayed, element
<1>4. /\ place' = [open |-> path, todo |-> IF history.own THEN Tail(place.todo) ELSE <<>>,
                    left |-> IF place.left > 0 /\ e # Xml!End THEN place.left - 1 ELSE place.left]
      /\ history' = [history EXCEPT !.written = text, !.odd = oddly, !.stray = strayed]
  BY <1>2 DEF Xml!Read
<1>5. place' \in XmlServers
  <2>1. history.own => Tail(place.todo) \in Seq(XmlEvents)
    BY <1>1
  <2>2. (IF place.left > 0 /\ e # Xml!End THEN place.left - 1 ELSE place.left) \in 0 .. MaxEvents
    BY <1>1, BoundsAssumption
  <2>3. (IF history.own THEN Tail(place.todo) ELSE <<>>) \in Seq(XmlEvents)
    BY <2>1
  <2> QED
    BY <1>1, <1>3, <1>4, <2>1, <2>2, <2>3 DEF XmlServers
<1>6. path = PathLU => Len(actor.obj.l) > 0
  BY <1>3 DEF XmlSafe, XmlPlace
<1>7. /\ element \in XmlObject
      /\ Len(element.l) = IF path = PathL THEN Len(actor.obj.l) + 1 ELSE Len(actor.obj.l)
  BY <1>1, <1>3, <1>6, ElementTyped DEF element
<1>8. /\ history'.written = text /\ history'.odd = oddly /\ history'.stray = strayed /\ history'.own = history.own /\ history'.given = history.given
      /\ oddly \in BOOLEAN /\ strayed \in BOOLEAN
      /\ history' \in [own: BOOLEAN, given: XmlObject, written: {history'.written}, odd: BOOLEAN, stray: BOOLEAN]
  BY <1>4 DEF XmlSafe, XmlTypes, oddly, strayed
<1>9. /\ ~oddly => /\ ~history.odd /\ old \notin Xml!Texts /\ actor.handler \notin Xml!Texts
                   /\ history.written = actor.obj /\ text = element
  <2>1. ASSUME ~oddly PROVE ~history.odd /\ old \notin Xml!Texts /\ actor.handler \notin Xml!Texts /\ history.written = Xml!Stored
    BY <2>1 DEF XmlSafe, XmlSame, oddly
  <2>2. actor.handler \notin Xml!Texts => Xml!Stored = actor.obj
    <3>1. Xml!Stored = Xml!SetText(actor.obj, actor.handler, actor.buffer)
      BY StoredIs DEF XmlSafe
    <3> QED
      BY <3>1, TextIs
  <2> QED
    BY <2>1, <2>2 DEF text, element
<1>10. CASE path \notin Xml!Objects \cup Xml!Texts
  <2>1. /\ actor' \in XmlActors /\ actor'.path = path /\ actor'.obj = actor.obj /\ actor'.handler = actor.handler
        /\ actor'.bound = actor.bound /\ actor'.raised = actor.raised /\ actor'.buffer = actor.buffer
    BY <1>1, <1>2, <1>3, <1>10 DEF XmlSafe, XmlTypes, XmlActors
  <2>2. element = actor.obj
    <3>1. element = Xml!SetText(actor.obj, path, <<>>)
      BY <1>10, NoElement DEF element
    <3> QED
      BY <1>10, <3>1, NoText
  <2>3. XmlTypes'
    BY <1>1, <1>5, <1>8, <1>9, <2>1, <2>2 DEF XmlTypes
  <2>4. XmlPlace'
    <3>1. actor'.path = place'.open /\ actor'.bound = Len(actor'.obj.l)
      BY <1>1, <1>4, <2>1
    <3>2. actor'.handler = PathLU \/ InList(actor'.path) => Len(actor'.obj.l) > 0
      BY <1>3, <1>10, <2>1, Paths DEF XmlSafe, XmlPlace
    <3>3. actor'.handler \in Xml!Objects => actor'.path \notin Xml!Texts
      BY <1>10, <2>1
    <3>4. actor'.raised => history'.stray
      BY <1>2, <2>1
    <3> QED
      BY <3>1, <3>2, <3>3, <3>4 DEF XmlPlace, InList, PathLU
  <2>5. XmlSame'
    <3> SUFFICES ASSUME ~oddly
                 PROVE  /\ \A j \in 0 .. Len(path) - 1 : SubSeq(path, 1, j) \notin Xml!Texts
                        /\ path \in Xml!Texts => actor'.handler = path
                        /\ actor'.handler \in Xml!Texts => actor'.handler = path
                        /\ text = Xml!Stored'
      BY <1>8, <2>1 DEF XmlSame
    <3>1. \A j \in 0 .. Len(path) - 1 : SubSeq(path, 1, j) \notin Xml!Texts
      <4>1. \A j \in 0 .. Len(old) - 1 : SubSeq(old, 1, j) \notin Xml!Texts
        BY <1>9 DEF XmlSafe, XmlSame
      <4>2. \A j \in 0 .. Len(old) : j = Len(old) \/ j \in 0 .. Len(old) - 1
        BY <1>1
      <4>3. Len(path) - 1 = Len(old)
        BY <1>1, <1>3
      <4> QED
        BY <1>3, <1>9, <4>1, <4>2, <4>3
    <3>2. Xml!Stored' = actor'.obj
      <4>1. Xml!Stored' = Xml!SetText(actor'.obj, actor'.handler, actor'.buffer)
        BY <2>3, <2>4, StoredNext
      <4> QED
        BY <1>9, <2>1, <4>1, TextIs
    <3> QED
      BY <1>9, <1>10, <2>1, <2>2, <3>1, <3>2
  <2> QED
    BY <2>3, <2>4, <2>5 DEF XmlSafe
<1>11. CASE path \in Xml!Objects \cup Xml!Texts
  <2>0. <<>> \in Texted
    BY DEF Texted
  <2>1. /\ actor'.path = path /\ actor'.handler = path /\ actor'.buffer = <<>>
        /\ actor'.raised = (path \in Xml!Texts /\ e.a # "unset")
        /\ actor'.obj = IF path \in Xml!Objects THEN element ELSE actor.obj
        /\ actor'.bound = IF path = PathL THEN Len(actor.obj.l) + 1 ELSE actor.bound
    BY <1>2, <1>11 DEF XmlSafe, XmlTypes, XmlActors
  <2>2. actor' \in XmlActors
    <3>1. /\ DOMAIN actor' = {"path", "handler", "buffer", "bound", "obj", "raised"}
          /\ actor' = [path |-> actor'.path, handler |-> actor'.handler, buffer |-> actor'.buffer,
                        bound |-> actor'.bound, obj |-> actor'.obj, raised |-> actor'.raised]
      BY <1>2, <1>11 DEF XmlSafe, XmlTypes, XmlActors
    <3>2. actor'.obj \in XmlObject /\ actor'.bound \in Nat /\ actor'.raised \in BOOLEAN
      BY <1>1, <1>7, <2>1
    <3> QED
      BY <1>3, <1>11, <2>0, <2>1, <3>1, <3>2 DEF XmlActors
  <2>3. Len(actor'.obj.l) = actor'.bound
    BY <1>1, <1>7, <1>11, <2>1, Paths
  <2>4. XmlTypes'
    BY <1>1, <1>5, <1>7, <1>8, <1>9, <2>2 DEF XmlTypes
  <2>5. XmlPlace'
    <3>1. actor'.handler = PathLU \/ InList(actor'.path) => Len(actor'.obj.l) > 0
      <4> SUFFICES ASSUME path = PathLU \/ path = PathL PROVE Len(actor'.obj.l) > 0
        BY <1>3, <1>11, <2>1
      <4>1. path = PathLU => path \notin Xml!Objects /\ path # PathL
        BY Paths
      <4>2. path = PathL => path \in Xml!Objects
        BY Paths
      <4> QED
        BY <1>1, <1>6, <2>1, <2>3, <4>1, <4>2
    <3>2. actor'.handler \in Xml!Objects => actor'.path \notin Xml!Texts
      BY <2>1, Paths
    <3>3. actor'.raised => history'.stray
      BY <1>8, <2>1 DEF strayed
    <3> QED
      BY <1>4, <2>1, <2>3, <3>1, <3>2, <3>3 DEF XmlPlace, InList, PathLU
  <2>6. XmlSame'
    <3> SUFFICES ASSUME ~oddly
                 PROVE  /\ \A j \in 0 .. Len(path) - 1 : SubSeq(path, 1, j) \notin Xml!Texts
                        /\ text = Xml!Stored'
      BY <1>8, <2>1 DEF XmlSame
    <3>1. \A j \in 0 .. Len(path) - 1 : SubSeq(path, 1, j) \notin Xml!Texts
      <4>1. \A j \in 0 .. Len(old) - 1 : SubSeq(old, 1, j) \notin Xml!Texts
        BY <1>9 DEF XmlSafe, XmlSame
      <4>2. \A j \in 0 .. Len(old) : j = Len(old) \/ j \in 0 .. Len(old) - 1
        BY <1>1
      <4>3. Len(path) - 1 = Len(old)
        BY <1>1, <1>3
      <4> QED
        BY <1>3, <1>9, <4>1, <4>2, <4>3
    <3>2. Xml!Stored' = Xml!SetText(actor'.obj, path, <<>>)
      <4>1. Xml!Stored' = Xml!SetText(actor'.obj, actor'.handler, actor'.buffer)
        BY <2>4, <2>5, StoredNext
      <4> QED
        BY <2>1, <4>1
    <3>3. path \in Xml!Objects => Xml!Stored' = element
      <4> SUFFICES ASSUME path \in Xml!Objects PROVE Xml!Stored' = element
        OBVIOUS
      <4>1. path \notin Xml!Texts
        BY Paths
      <4>2. Xml!SetText(actor'.obj, path, <<>>) = actor'.obj
        BY <4>1, NoText
      <4> QED
        BY <2>1, <3>2, <4>2
    <3>4. path \notin Xml!Objects => Xml!Stored' = element
      <4> SUFFICES ASSUME path \notin Xml!Objects PROVE Xml!Stored' = element
        OBVIOUS
      <4>1. element = Xml!SetText(actor.obj, path, <<>>)
        BY NoElement DEF element
      <4> QED
        BY <2>1, <3>2, <4>1
    <3> QED
      BY <1>9, <3>1, <3>3, <3>4
  <2> QED
    BY <2>4, <2>5, <2>6 DEF XmlSafe
<1> QED
  BY <1>10, <1>11


LEMMA XmlText ==
    ASSUME XmlSafe, NEW e \in XmlEvents, Xml!Characters(e), IF history.own THEN place.todo # <<>> ELSE TRUE
    PROVE  XmlSafe'
<1> DEFINE path == actor.path
           more == IF path \in Xml!Texts THEN Xml!SetText(history.written, path, Append(Xml!TextAt(history.written, path), e.name))
                   ELSE history.written
           strayed == IF path \in Xml!Texts THEN history.stray ELSE history.stray \/ e.name # " "
           longer == Append(actor.buffer, e.name)
<1>1. /\ path \in Seq(XmlNames) /\ e.name \in XmlNames
      /\ actor.handler \in {Xml!NoPath} \cup Xml!Objects \cup Xml!Texts /\ actor.buffer \in Texted
      /\ actor.bound \in Nat /\ actor.obj \in XmlObject /\ actor.raised \in BOOLEAN
      /\ place.open = path /\ place.todo \in Seq(XmlEvents) /\ place.left \in 0 .. MaxEvents
      /\ actor.bound = Len(actor.obj.l)
  BY DEF XmlSafe, XmlTypes, XmlPlace, XmlActors, XmlServers, XmlEvents
<1>2. /\ ~actor.raised
      /\ actor' = CASE actor.handler \in Xml!Texts -> [actor EXCEPT !.buffer = longer]
                     [] actor.handler \in Xml!Objects /\ e.name # " " -> [actor EXCEPT !.raised = TRUE]
                     [] OTHER -> actor
      /\ Xml!Read(e, path, more, history.odd, strayed)
  BY <1>1 DEF Xml!Characters
<1>3. longer \in Texted
  BY <1>1 DEF Texted
<1> HIDE DEF path, more, strayed, longer
<1>4. /\ place' = [open |-> path, todo |-> IF history.own THEN Tail(place.todo) ELSE <<>>,
                    left |-> IF place.left > 0 /\ e # Xml!End THEN place.left - 1 ELSE place.left]
      /\ history' = [history EXCEPT !.written = more, !.odd = history.odd, !.stray = strayed]
  BY <1>2 DEF Xml!Read
<1>5. place' \in XmlServers
  <2>1. history.own => Tail(place.todo) \in Seq(XmlEvents)
    BY <1>1
  <2> QED
    BY <1>1, <1>4, <2>1, BoundsAssumption DEF XmlServers
<1>6. /\ history'.written = more /\ history'.odd = history.odd /\ history'.stray = strayed /\ history'.own = history.own /\ history'.given = history.given
      /\ strayed \in BOOLEAN
      /\ history' \in [own: BOOLEAN, given: XmlObject, written: {history'.written}, odd: BOOLEAN, stray: BOOLEAN]
  BY <1>4 DEF XmlSafe, XmlTypes, strayed
<1>7. /\ actor' \in XmlActors /\ actor'.path = path /\ actor'.obj = actor.obj /\ actor'.handler = actor.handler
      /\ actor'.bound = actor.bound
      /\ actor.handler \in Xml!Texts => actor'.buffer = longer /\ ~actor'.raised
      /\ actor'.raised => actor.handler \in Xml!Objects /\ e.name # " "
  <2>1. CASE actor.handler \in Xml!Texts
    <3>1. actor' = [actor EXCEPT !.buffer = longer]
      <4>1. actor.handler \notin Xml!Objects
        BY <2>1, Paths
      <4> QED
        BY <1>2, <2>1, <4>1
    <3> QED
      BY <1>2, <1>3, <2>1, <3>1 DEF XmlSafe, XmlTypes, XmlActors, path
  <2>2. CASE actor.handler \in Xml!Objects /\ actor.handler \notin Xml!Texts /\ e.name # " "
    <3>1. actor' = [actor EXCEPT !.raised = TRUE]
      BY <1>2, <2>2
    <3> QED
      BY <2>2, <3>1 DEF XmlSafe, XmlTypes, XmlActors, path
  <2>3. CASE actor.handler \notin Xml!Texts /\ ~(actor.handler \in Xml!Objects /\ e.name # " ")
    <3>1. actor' = actor
      BY <1>2, <2>3
    <3> QED
      BY <1>2, <2>3, <3>1 DEF XmlSafe, XmlTypes, path
  <2> QED
    BY <2>1, <2>2, <2>3
<1>8. actor.handler = PathLU => Len(actor.obj.l) > 0
  BY DEF XmlSafe, XmlPlace
<1>9. XmlPlace'
  <2>1. actor'.handler = PathLU \/ InList(actor'.path) => Len(actor'.obj.l) > 0
    BY <1>7 DEF XmlSafe, XmlPlace, path
  <2>2. actor'.handler \in Xml!Objects => actor'.path \notin Xml!Texts
    BY <1>7 DEF XmlSafe, XmlPlace, path
  <2>3. actor'.raised => history'.stray
    BY <1>6, <1>7 DEF XmlSafe, XmlPlace, path, strayed
  <2> QED
    BY <1>1, <1>4, <1>7, <2>1, <2>2, <2>3 DEF XmlPlace, InList, PathLU
<1>10. ~history.odd => more = Xml!SetText(actor.obj, actor.handler, actor'.buffer) /\ more \in XmlObject
  <2> SUFFICES ASSUME ~history.odd PROVE more = Xml!SetText(actor.obj, actor.handler, actor'.buffer) /\ more \in XmlObject
    OBVIOUS
  <2>1. /\ history.written = Xml!SetText(actor.obj, actor.handler, actor.buffer)
        /\ path \in Xml!Texts => actor.handler = path
        /\ actor.handler \in Xml!Texts => actor.handler = path
        /\ history.written \in XmlObject
    BY StoredIs DEF XmlSafe, XmlSame, XmlTypes, path
  <2>2. CASE path \in Xml!Texts
    <3> DEFINE kept == Xml!SetText(actor.obj, path, actor.buffer)
    <3>1. Xml!TextAt(kept, path) = actor.buffer /\ \A m : Xml!SetText(kept, path, m) = Xml!SetText(actor.obj, path, m)
      BY <1>1, <1>8, <2>1, <2>2, TextTyped
    <3>2. more = Xml!SetText(kept, path, longer)
      BY <2>1, <2>2, <3>1 DEF more, longer
    <3>3. actor'.buffer = longer
      BY <1>7, <2>1, <2>2
    <3>4. Xml!SetText(actor.obj, path, longer) \in XmlObject
      BY <1>1, <1>3, <1>8, <2>1, <2>2, TextTyped
    <3> HIDE DEF kept
    <3> QED
      BY <2>1, <2>2, <3>1, <3>2, <3>3, <3>4
  <2>3. CASE path \notin Xml!Texts
    <3>1. actor.handler \notin Xml!Texts
      BY <2>1, <2>3
    <3> QED
      BY <2>1, <2>3, <3>1, NoText DEF more
  <2> QED
    BY <2>2, <2>3
<1>11. XmlTypes'
  BY <1>5, <1>6, <1>7, <1>10 DEF XmlTypes
<1>12. XmlSame'
  <2>1. Xml!Stored' = Xml!SetText(actor'.obj, actor'.handler, actor'.buffer)
    BY <1>9, <1>11, StoredNext
  <2> QED
    BY <1>6, <1>7, <1>10, <2>1 DEF XmlSafe, XmlSame, path
<1> QED
  BY <1>9, <1>11, <1>12 DEF XmlSafe

LEMMA XmlEnd ==
    ASSUME XmlSafe, NEW e \in XmlEvents, Xml!EndElement(e), IF history.own THEN place.todo # <<>> ELSE TRUE
    PROVE  XmlSafe'
<1> DEFINE old == actor.path
           path == SubSeq(old, 1, Len(old) - 1)
<1>1. /\ old \in Seq(XmlNames)
      /\ actor.handler \in {Xml!NoPath} \cup Xml!Objects \cup Xml!Texts /\ actor.buffer \in Texted
      /\ actor.bound \in Nat /\ actor.obj \in XmlObject /\ actor.raised \in BOOLEAN
      /\ place.open = old /\ place.todo \in Seq(XmlEvents) /\ place.left \in 0 .. MaxEvents
      /\ actor.bound = Len(actor.obj.l)
      /\ history \in [own: BOOLEAN, given: XmlObject, written: {history.written}, odd: BOOLEAN, stray: BOOLEAN]
  BY DEF XmlSafe, XmlTypes, XmlPlace, XmlActors, XmlServers, XmlEvents
<1>2. /\ ~actor.raised
      /\ actor' = [actor EXCEPT !.path = path, !.obj = Xml!Stored, !.handler = Xml!NoPath]
      /\ Xml!Read(e, path, history.written, history.odd, history.stray)
  BY <1>1 DEF Xml!EndElement
<1>3. /\ path \in Seq(XmlNames)
      /\ Len(old) = 0 => path = <<>>
      /\ Len(old) > 0 => /\ Len(path) = Len(old) - 1
                         /\ \A i \in 1 .. Len(path) : path[i] = old[i]
                         /\ \A j \in 0 .. Len(path) : SubSeq(path, 1, j) = SubSeq(old, 1, j)
  <2>1. path \in Seq(XmlNames) /\ (Len(old) = 0 => path = <<>>)
    BY <1>1
  <2> SUFFICES ASSUME Len(old) > 0
               PROVE  /\ Len(path) = Len(old) - 1
                      /\ \A i \in 1 .. Len(path) : path[i] = old[i]
                      /\ \A j \in 0 .. Len(path) : SubSeq(path, 1, j) = SubSeq(old, 1, j)
    BY <2>1
  <2>2. Len(path) = Len(old) - 1 /\ \A i \in 1 .. Len(path) : path[i] = old[i]
    BY <1>1
  <2> HIDE DEF path
  <2>3. ASSUME NEW j \in 0 .. Len(path) PROVE SubSeq(path, 1, j) = SubSeq(old, 1, j)
    <3>1. /\ SubSeq(path, 1, j) \in Seq(XmlNames) /\ Len(SubSeq(path, 1, j)) = j
          /\ \A i \in 1 .. j : SubSeq(path, 1, j)[i] = path[i]
      BY <2>1
    <3>2. /\ SubSeq(old, 1, j) \in Seq(XmlNames) /\ Len(SubSeq(old, 1, j)) = j
          /\ \A i \in 1 .. j : SubSeq(old, 1, j)[i] = old[i]
      BY <1>1, <2>2
    <3>3. \A i \in 1 .. j : path[i] = old[i]
      BY <1>1, <2>2
    <3> QED
      BY <3>1, <3>2, <3>3, SameSeq
  <2> QED
    BY <2>2, <2>3
<1>4. Xml!Stored \in XmlObject /\ Len(Xml!Stored.l) = Len(actor.obj.l)
  BY StoredIs DEF XmlSafe
<1>5. Xml!NoPath \notin Xml!Texts /\ Xml!NoPath \notin Xml!Objects /\ Xml!NoPath # PathLU
  BY Paths
<1> HIDE DEF path, old
<1>6. /\ place' = [open |-> path, todo |-> IF history.own THEN Tail(place.todo) ELSE <<>>,
                    left |-> IF place.left > 0 /\ e # Xml!End THEN place.left - 1 ELSE place.left]
      /\ history' = [history EXCEPT !.written = history.written, !.odd = history.odd, !.stray = history.stray]
  BY <1>2 DEF Xml!Read
<1>7. history' = history
  BY <1>1, <1>6
<1>8. place' \in XmlServers
  <2>1. history.own => Tail(place.todo) \in Seq(XmlEvents)
    BY <1>1
  <2> QED
    BY <1>1, <1>3, <1>6, <2>1, BoundsAssumption DEF XmlServers
<1>9. /\ actor' \in XmlActors /\ actor'.path = path /\ actor'.obj = Xml!Stored /\ actor'.handler = Xml!NoPath
      /\ actor'.bound = actor.bound /\ ~actor'.raised
  BY <1>2, <1>3, <1>4 DEF XmlSafe, XmlTypes, XmlActors
<1>10. XmlTypes'
  BY <1>7, <1>8, <1>9 DEF XmlSafe, XmlTypes
<1>11. InList(path) => InList(old)
  <2> SUFFICES ASSUME InList(path) PROVE InList(old)
    OBVIOUS
  <2>1. Len(path) >= 2 /\ path[1] = "r" /\ path[2] = "l"
    BY DEF InList
  <2>2. Len(old) > 0
    BY <1>1, <1>3, <2>1
  <2>3. Len(old) >= 2 /\ 1 \in 1 .. Len(path) /\ 2 \in 1 .. Len(path)
    BY <1>1, <1>3, <2>1, <2>2
  <2>4. old[1] = "r" /\ old[2] = "l"
    BY <1>3, <2>1, <2>2, <2>3
  <2> QED
    BY <2>3, <2>4 DEF InList
<1>12. XmlPlace'
  <2>1. InList(actor'.path) => Len(actor'.obj.l) > 0
    BY <1>4, <1>9, <1>11 DEF XmlSafe, XmlPlace, old
  <2> QED
    BY <1>1, <1>4, <1>5, <1>6, <1>9, <2>1 DEF XmlPlace, InList, PathLU
<1>13. XmlSame'
  <2> SUFFICES ASSUME ~history.odd
               PROVE  /\ \A j \in 0 .. Len(path) - 1 : SubSeq(path, 1, j) \notin Xml!Texts
                      /\ path \notin Xml!Texts
                      /\ history.written = Xml!Stored'
    BY <1>5, <1>7, <1>9 DEF XmlSame
  <2>1. history.written = Xml!Stored /\ \A j \in 0 .. Len(old) - 1 : SubSeq(old, 1, j) \notin Xml!Texts
    BY DEF XmlSafe, XmlSame, old
  <2>2. Xml!Stored' = actor'.obj
    <3>1. Xml!Stored' = Xml!SetText(actor'.obj, actor'.handler, actor'.buffer)
      BY <1>10, <1>12, StoredNext
    <3> QED
      BY <1>5, <1>9, <3>1, NoText
  <2>3. CASE Len(old) = 0
    <3>1. path = Xml!NoPath /\ Len(path) = 0
      BY <1>3, <2>3 DEF Xml!NoPath
    <3> QED
      BY <1>5, <1>9, <2>1, <2>2, <3>1
  <2>4. CASE Len(old) > 0
    <3>1. /\ Len(path) = Len(old) - 1 /\ Len(path) \in Nat
          /\ \A j \in 0 .. Len(path) : SubSeq(path, 1, j) = SubSeq(old, 1, j)
      BY <1>3, <2>4
    <3>2. \A j \in 0 .. Len(path) : SubSeq(path, 1, j) \notin Xml!Texts
      BY <2>1, <3>1
    <3>3. path \notin Xml!Texts
      <4>1. SubSeq(path, 1, Len(path)) = path /\ Len(path) \in 0 .. Len(path)
        BY <1>3
      <4> QED
        BY <3>2, <4>1
    <3> QED
      BY <1>9, <2>1, <2>2, <3>1, <3>2, <3>3
  <2> QED
    BY <1>1, <2>3, <2>4
<1> QED
  BY <1>10, <1>12, <1>13 DEF XmlSafe


\* What is read of our own document: the elements that are open, its events still
\* to come and what the events before them say.
Cons(e, rest) == <<e>> \o rest
Stands(at, open, rest, says) == at.open = open /\ at.todo = rest /\ at.says = says
Says(e, open, says) ==
    CASE e.what = "start" -> Xml!WithElement(says, Append(open, e.name), e.a)
      [] e.what = "text" -> Xml!SetText(says, open, Append(Xml!TextAt(says, open), e.name))
      [] OTHER -> says
Opens(e, open) ==
    CASE e.what = "start" -> Append(open, e.name)
      [] e.what = "end" -> SubSeq(open, 1, Len(open) - 1)
      [] OTHER -> open
Expected(e, open) ==
    /\ e.what = "start" => open \notin Xml!Texts /\ (Append(open, e.name) \in Xml!Texts => e.a = "unset")
    /\ e.what = "text" => open \in Xml!Texts

\* One event is read: of a text only where a text is expected.
XmlReads(at, to) ==
    /\ at.todo # <<>>
    /\ to.todo = Tail(at.todo)
    /\ to.open = Opens(Head(at.todo), at.open)
    /\ Expected(Head(at.todo), at.open) => to.says = Says(Head(at.todo), at.open, at.says)
XmlClean(at) == Expected(Head(at.todo), at.open)

LEMMA ConsIs ==
    ASSUME NEW S, NEW e \in S, NEW rest \in Seq(S)
    PROVE  /\ Cons(e, rest) \in Seq(S) /\ Cons(e, rest) # <<>>
           /\ Head(Cons(e, rest)) = e /\ Tail(Cons(e, rest)) = rest
           /\ Len(Cons(e, rest)) = Len(rest) + 1 /\ Cons(e, rest)[1] = e
           /\ \A i \in 1 .. Len(rest) : Cons(e, rest)[i + 1] = rest[i]
<1> DEFINE one == <<e>>
           whole == one \o rest
<1>0. one \in Seq(S)
  OBVIOUS
<1>1. Len(one) = 1 /\ one[1] = e
  OBVIOUS
<1> HIDE DEF one
<1>2. /\ whole \in Seq(S) /\ Len(whole) = Len(one) + Len(rest)
      /\ \A i \in 1 .. Len(whole) : whole[i] = IF i <= Len(one) THEN one[i] ELSE rest[i - Len(one)]
  BY <1>0
<1> HIDE DEF whole
<1>3. Len(whole) = Len(rest) + 1 /\ whole[1] = e /\ Len(rest) \in Nat
  BY <1>1, <1>2
<1>4. ASSUME NEW i \in 1 .. Len(rest) PROVE whole[i + 1] = rest[i]
  <2>1. i + 1 \in 1 .. Len(whole) /\ ~(i + 1 <= 1) /\ (i + 1) - 1 = i
    BY <1>3
  <2> QED
    BY <1>1, <1>2, <2>1
<1>5. whole # <<>> /\ Head(whole) = e
  BY <1>2, <1>3
<1>6. Tail(whole) = rest
  <2> DEFINE tail == Tail(whole)
  <2>1. tail \in Seq(S) /\ Len(tail) = Len(whole) - 1 /\ \A i \in 1 .. Len(tail) : tail[i] = whole[i + 1]
    BY <1>2, <1>3
  <2> HIDE DEF tail
  <2>2. Len(tail) = Len(rest)
    BY <1>3, <2>1
  <2>3. \A i \in 1 .. Len(tail) : tail[i] = rest[i]
    BY <1>4, <2>1, <2>2
  <2>4. tail = rest
    BY <2>1, <2>2, <2>3, SameSeq
  <2> QED
    BY <2>4 DEF tail
<1> QED
  BY <1>2, <1>3, <1>4, <1>5, <1>6 DEF whole, one, Cons

\* Each kind of event, at the head of what is to come.
LEMMA StartReads ==
    ASSUME NEW at, NEW to, NEW open, NEW name \in XmlNames, NEW a \in {"unset", "v"}, NEW rest \in Seq(XmlEvents),
           NEW says, Stands(at, open, Cons(Xml!Start(name, a), rest), says), XmlReads(at, to),
           open \notin Xml!Texts, Append(open, name) \in Xml!Texts => a = "unset"
    PROVE  XmlClean(at) /\ Stands(to, Append(open, name), rest, Xml!WithElement(says, Append(open, name), a))
<1> DEFINE e == Xml!Start(name, a)
<1>1. e \in XmlEvents /\ e.what = "start" /\ e.name = name /\ e.a = a
  BY DEF Xml!Start, XmlEvents
<1> HIDE DEF e
<1>2. Head(at.todo) = e /\ Tail(at.todo) = rest /\ at.open = open /\ at.says = says
  BY <1>1, ConsIs DEF Stands, e
<1>3. Expected(e, open) /\ Opens(e, open) = Append(open, name) /\ Says(e, open, says) = Xml!WithElement(says, Append(open, name), a)
  BY <1>1 DEF Expected, Opens, Says
<1> QED
  BY <1>2, <1>3 DEF XmlReads, XmlClean, Stands

LEMMA TextReads ==
    ASSUME NEW at, NEW to, NEW open, NEW name \in XmlNames, NEW rest \in Seq(XmlEvents),
           NEW says, Stands(at, open, Cons(Xml!Text(name), rest), says), XmlReads(at, to), open \in Xml!Texts
    PROVE  XmlClean(at) /\ Stands(to, open, rest, Xml!SetText(says, open, Append(Xml!TextAt(says, open), name)))
<1> DEFINE e == Xml!Text(name)
<1>1. e \in XmlEvents /\ e.what = "text" /\ e.name = name
  BY DEF Xml!Text, XmlEvents
<1> HIDE DEF e
<1>2. Head(at.todo) = e /\ Tail(at.todo) = rest /\ at.open = open /\ at.says = says
  BY <1>1, ConsIs DEF Stands, e
<1>3. Expected(e, open) /\ Opens(e, open) = open /\ Says(e, open, says) = Xml!SetText(says, open, Append(Xml!TextAt(says, open), name))
  BY <1>1 DEF Expected, Opens, Says
<1> QED
  BY <1>2, <1>3 DEF XmlReads, XmlClean, Stands

LEMMA EndReads ==
    ASSUME NEW at, NEW to, NEW open, NEW rest \in Seq(XmlEvents),
           NEW says, Stands(at, open, Cons(Xml!End, rest), says), XmlReads(at, to)
    PROVE  XmlClean(at) /\ Stands(to, SubSeq(open, 1, Len(open) - 1), rest, says)
<1> DEFINE e == Xml!End
<1>1. e \in XmlEvents /\ e.what = "end"
  BY DEF Xml!End, XmlEvents, XmlNames
<1> HIDE DEF e
<1>2. Head(at.todo) = e /\ Tail(at.todo) = rest /\ at.open = open /\ at.says = says
  BY <1>1, ConsIs DEF Stands, e
<1>3. Expected(e, open) /\ Opens(e, open) = SubSeq(open, 1, Len(open) - 1) /\ Says(e, open, says) = says
  BY <1>1 DEF Expected, Opens, Says
<1> QED
  BY <1>2, <1>3 DEF XmlReads, XmlClean, Stands


\* What comes of a text, or of an object, and then the rest.
Filled(text) == text \notin {Xml!Unset, <<>>}
TextTail(name, text, rest) ==
    Cons(Xml!Start(name, "unset"), IF Filled(text) THEN Cons(Xml!Text(text[1]), Cons(Xml!End, rest)) ELSE Cons(Xml!End, rest))
InnerRest(inner, rest) == IF Filled(inner.u) THEN TextTail("u", inner.u, Cons(Xml!End, rest)) ELSE Cons(Xml!End, rest)
InnerTail(name, inner, rest) == Cons(Xml!Start(name, inner.a), InnerRest(inner, rest))

LEMMA InnersAre ==
    ASSUME NEW inner \in Xml!Inners
    PROVE  /\ inner \in XmlInner /\ inner.a \in {"unset", "v"}
           /\ Filled(inner.u) => inner.u[1] \in XmlNames /\ inner.u = <<inner.u[1]>> /\ <<inner.u[1]>> \in Texted
           /\ ~Filled(inner.u) => inner.u \in {Xml!Unset, <<>>}
<1>1. inner.u \in {Xml!Unset, <<>>, <<"x">>, <<" ">>} /\ inner.a \in {"unset", "v"} /\ inner = [a |-> inner.a, u |-> inner.u]
  BY DEF Xml!Inners
<1>2. /\ <<"x">>[1] = "x" /\ <<" ">>[1] = " " /\ <<"x">> \in Texted /\ <<" ">> \in Texted /\ Xml!Unset \in Texted /\ <<>> \in Texted
      /\ "x" \in XmlNames /\ " " \in XmlNames
  BY DEF Texted, XmlNames, Xml!Unset
<1>3. inner.u \in Texted
  BY <1>1, <1>2
<1>4. CASE inner.u = <<"x">>
  BY <1>1, <1>2, <1>3, <1>4 DEF XmlInner, Filled
<1>5. CASE inner.u = <<" ">>
  BY <1>1, <1>2, <1>3, <1>5 DEF XmlInner, Filled
<1>6. CASE inner.u \in {Xml!Unset, <<>>}
  BY <1>1, <1>2, <1>3, <1>6 DEF XmlInner, Filled
<1> QED
  BY <1>1, <1>4, <1>5, <1>6

LEMMA InnerTailIs ==
    ASSUME NEW inner \in Xml!Inners, NEW rest \in Seq(XmlEvents), NEW name \in XmlNames
    PROVE  InnerRest(inner, rest) \in Seq(XmlEvents) /\ InnerTail(name, inner, rest) \in Seq(XmlEvents)
<1>1. "u" \in XmlNames
  BY DEF XmlNames
<1>2. /\ Xml!End \in XmlEvents /\ Xml!Start("u", "unset") \in XmlEvents /\ Xml!Start(name, inner.a) \in XmlEvents
      /\ Filled(inner.u) => Xml!Text(inner.u[1]) \in XmlEvents
  BY <1>1, InnersAre DEF XmlEvents, Xml!End, Xml!Start, Xml!Text, XmlNames
<1>3. Cons(Xml!End, rest) \in Seq(XmlEvents)
  BY <1>2, ConsIs
<1>4. Cons(Xml!End, Cons(Xml!End, rest)) \in Seq(XmlEvents)
  BY <1>2, <1>3, ConsIs
<1>5. Filled(inner.u) => Cons(Xml!Text(inner.u[1]), Cons(Xml!End, Cons(Xml!End, rest))) \in Seq(XmlEvents)
  BY <1>2, <1>4, ConsIs
<1>6. Filled(inner.u) => TextTail("u", inner.u, Cons(Xml!End, rest)) \in Seq(XmlEvents)
  BY <1>2, <1>5, ConsIs DEF TextTail
<1>7. InnerRest(inner, rest) \in Seq(XmlEvents)
  BY <1>3, <1>6 DEF InnerRest
<1> QED
  BY <1>2, <1>7, ConsIs DEF InnerTail

\* An object inside the document: its path, that of its text, and what it adds.
Within(name) == IF name = "o" THEN PathO ELSE PathL
Wherein(name) == IF name = "o" THEN PathOU ELSE PathLU
Entered(before, name, inner) == Xml!WithElement(before, Within(name), inner.a)
Emptied(before, name, inner) == Xml!SetText(Entered(before, name, inner), Wherein(name), <<>>)
PutIn(before, name, inner) ==
    IF Filled(inner.u) THEN Xml!SetText(Entered(before, name, inner), Wherein(name), <<inner.u[1]>>)
    ELSE Entered(before, name, inner)

InnerPhase(at, name, inner, before, rest) ==
    \/ Stands(at, Within(name), InnerRest(inner, rest), Entered(before, name, inner))
    \/ /\ Filled(inner.u)
       /\ \/ Stands(at, Wherein(name), Cons(Xml!Text(inner.u[1]), Cons(Xml!End, Cons(Xml!End, rest))), Emptied(before, name, inner))
          \/ Stands(at, Wherein(name), Cons(Xml!End, Cons(Xml!End, rest)), PutIn(before, name, inner))
          \/ Stands(at, Within(name), Cons(Xml!End, rest), PutIn(before, name, inner))

LEMMA EnteredIs ==
    ASSUME NEW name \in {"o", "l"}, NEW inner \in Xml!Inners, NEW before \in XmlObject
    PROVE  /\ Entered(before, name, inner) \in XmlObject /\ PutIn(before, name, inner) \in XmlObject
           /\ Wherein(name) = PathLU => Len(Entered(before, name, inner).l) > 0
           /\ Wherein(name) \in Xml!Texts /\ Within(name) \notin Xml!Texts /\ Within(name) \in Xml!Objects
           /\ Append(Within(name), "u") = Wherein(name) /\ Append(Xml!Root, name) = Within(name)
           /\ SubSeq(Wherein(name), 1, Len(Wherein(name)) - 1) = Within(name)
           /\ SubSeq(Within(name), 1, Len(Within(name)) - 1) = Xml!Root
           /\ Wherein(name) \in Seq(XmlNames) /\ Wherein(name) \notin Xml!Objects
<1> DEFINE whole == Entered(before, name, inner)
<1>1. inner.a \in {"unset", "v"} /\ before.l \in Seq(XmlInner)
  BY InnersAre DEF XmlObject
<1>2. Within(name) \in Seq(XmlNames) /\ Within(name) # PathLU /\ (Wherein(name) = PathLU => Within(name) = PathL)
  BY Paths DEF Within, Wherein
<1>3. whole \in XmlObject /\ Len(whole.l) = IF Within(name) = PathL THEN Len(before.l) + 1 ELSE Len(before.l)
  BY <1>1, <1>2, ElementTyped DEF Entered
<1>4. Wherein(name) = PathLU => Len(whole.l) > 0
  BY <1>1, <1>2, <1>3
<1> HIDE DEF whole
<1>5. Filled(inner.u) => Xml!SetText(whole, Wherein(name), <<inner.u[1]>>) \in XmlObject
  <2>1. Wherein(name) \in Seq(XmlNames)
    BY Paths DEF Wherein
  <2>2. Filled(inner.u) => <<inner.u[1]>> \in Texted
    BY InnersAre
  <2> QED
    BY <1>3, <1>4, <2>1, <2>2, TextTyped
<1>6. PutIn(before, name, inner) \in XmlObject
  BY <1>3, <1>5 DEF PutIn, whole
<1>7. CASE name = "o"
  BY <1>3, <1>4, <1>6, <1>7, Paths DEF Within, Wherein, whole
<1>8. CASE name = "l"
  BY <1>3, <1>4, <1>6, <1>8, Paths DEF Within, Wherein, whole
<1> QED
  BY <1>7, <1>8

\* Each step of the object is as expected, and after the last one it is there.
LEMMA InnerSteps ==
    ASSUME NEW at, NEW to, NEW name \in {"o", "l"}, NEW inner \in Xml!Inners, NEW before \in XmlObject,
           NEW rest \in Seq(XmlEvents), InnerPhase(at, name, inner, before, rest), XmlReads(at, to)
    PROVE  /\ XmlClean(at)
           /\ InnerPhase(to, name, inner, before, rest) \/ Stands(to, Xml!Root, rest, PutIn(before, name, inner))
<1> DEFINE whole == Entered(before, name, inner)
           way == Within(name)
           deep == Wherein(name)
           one == inner.u[1]
<1>1. /\ whole \in XmlObject /\ deep \in Xml!Texts /\ way \notin Xml!Texts /\ (deep = PathLU => Len(whole.l) > 0)
      /\ Append(way, "u") = deep /\ SubSeq(deep, 1, Len(deep) - 1) = way /\ SubSeq(way, 1, Len(way) - 1) = Xml!Root
      /\ deep \in Seq(XmlNames) /\ deep \notin Xml!Objects
  BY EnteredIs
<1>2. "u" \in XmlNames /\ Xml!End \in XmlEvents /\ Cons(Xml!End, rest) \in Seq(XmlEvents)
  <2>1. "u" \in XmlNames /\ Xml!End \in XmlEvents
    BY DEF XmlNames, XmlEvents, Xml!End
  <2> QED
    BY <2>1, ConsIs
<1>3. Cons(Xml!End, Cons(Xml!End, rest)) \in Seq(XmlEvents)
  BY <1>2, ConsIs
<1>4. ASSUME Filled(inner.u)
      PROVE  /\ one \in XmlNames /\ <<one>> \in Texted
             /\ Cons(Xml!Text(one), Cons(Xml!End, Cons(Xml!End, rest))) \in Seq(XmlEvents)
  <2>1. one \in XmlNames /\ <<one>> \in Texted
    BY <1>4, InnersAre
  <2>2. Xml!Text(one) \in XmlEvents
    BY <2>1 DEF Xml!Text, XmlEvents
  <2> QED
    BY <1>3, <2>1, <2>2, ConsIs
<1> HIDE DEF whole, way, deep, one
<1>5. CASE Stands(at, way, InnerRest(inner, rest), whole)
  <2>1. CASE Filled(inner.u)
    <3>1. Stands(at, way, Cons(Xml!Start("u", "unset"), Cons(Xml!Text(one), Cons(Xml!End, Cons(Xml!End, rest)))), whole)
      BY <1>5, <2>1 DEF InnerRest, TextTail, one
    <3>2. XmlClean(at) /\ Stands(to, deep, Cons(Xml!Text(one), Cons(Xml!End, Cons(Xml!End, rest))), Xml!WithElement(whole, deep, "unset"))
      BY <1>1, <1>2, <1>4, <2>1, <3>1, StartReads
    <3>3. Xml!WithElement(whole, deep, "unset") = Xml!SetText(whole, deep, <<>>)
      BY <1>1, NoElement
    <3> QED
      BY <2>1, <3>2, <3>3 DEF InnerPhase, Emptied, whole, deep, one
  <2>2. CASE ~Filled(inner.u)
    <3>1. Stands(at, way, Cons(Xml!End, rest), whole)
      BY <1>5, <2>2 DEF InnerRest
    <3>2. XmlClean(at) /\ Stands(to, SubSeq(way, 1, Len(way) - 1), rest, whole)
      BY <3>1, EndReads
    <3> QED
      BY <1>1, <2>2, <3>2 DEF PutIn, whole
  <2> QED
    BY <2>1, <2>2
<1>6. CASE Filled(inner.u) /\ Stands(at, deep, Cons(Xml!Text(one), Cons(Xml!End, Cons(Xml!End, rest))), Emptied(before, name, inner))
  <2>1. Stands(at, deep, Cons(Xml!Text(one), Cons(Xml!End, Cons(Xml!End, rest))), Xml!SetText(whole, deep, <<>>))
    BY <1>6 DEF Emptied, whole, deep
  <2> DEFINE empty == Xml!SetText(whole, deep, <<>>)
  <2>2. <<>> \in Texted
    BY DEF Texted
  <2>3. Xml!TextAt(empty, deep) = <<>> /\ \A more : Xml!SetText(empty, deep, more) = Xml!SetText(whole, deep, more)
    BY <1>1, <2>2, TextTyped
  <2> HIDE DEF empty
  <2>4. XmlClean(at) /\ Stands(to, deep, Cons(Xml!End, Cons(Xml!End, rest)), Xml!SetText(empty, deep, Append(Xml!TextAt(empty, deep), one)))
    BY <1>1, <1>3, <1>4, <1>6, <2>1, TextReads DEF empty
  <2>5. Append(<<>>, one) = <<one>>
    BY <1>4, <1>6, ShortSeqs
  <2>6. Xml!SetText(empty, deep, Append(Xml!TextAt(empty, deep), one)) = Xml!SetText(whole, deep, <<one>>)
    BY <2>3, <2>5
  <2>7. Xml!SetText(whole, deep, <<one>>) = PutIn(before, name, inner)
    BY <1>6 DEF PutIn, whole, deep, one
  <2> QED
    BY <1>6, <2>4, <2>6, <2>7 DEF InnerPhase, deep
<1>7. CASE Filled(inner.u) /\ Stands(at, deep, Cons(Xml!End, Cons(Xml!End, rest)), PutIn(before, name, inner))
  <2>1. XmlClean(at) /\ Stands(to, SubSeq(deep, 1, Len(deep) - 1), Cons(Xml!End, rest), PutIn(before, name, inner))
    BY <1>2, <1>7, EndReads
  <2> QED
    BY <1>1, <1>7, <2>1 DEF InnerPhase, way
<1>8. CASE Filled(inner.u) /\ Stands(at, way, Cons(Xml!End, rest), PutIn(before, name, inner))
  <2>1. XmlClean(at) /\ Stands(to, SubSeq(way, 1, Len(way) - 1), rest, PutIn(before, name, inner))
    BY <1>8, EndReads
  <2> QED
    BY <1>1, <2>1
<1> QED
  BY <1>5, <1>6, <1>7, <1>8 DEF InnerPhase, whole, way, deep, one

LEMMA InnerEnters ==
    ASSUME NEW at, NEW to, NEW name \in {"o", "l"}, NEW inner \in Xml!Inners, NEW before \in XmlObject,
           NEW rest \in Seq(XmlEvents), Stands(at, Xml!Root, InnerTail(name, inner, rest), before), XmlReads(at, to)
    PROVE  XmlClean(at) /\ InnerPhase(to, name, inner, before, rest)
<1>1. name \in XmlNames /\ Xml!Root \notin Xml!Texts /\ Append(Xml!Root, name) = Within(name) /\ Within(name) \notin Xml!Texts
  BY EnteredIs, Paths DEF XmlNames
<1>2. InnerRest(inner, rest) \in Seq(XmlEvents) /\ inner.a \in {"unset", "v"}
  BY <1>1, InnerTailIs, InnersAre
<1>3. Stands(at, Xml!Root, Cons(Xml!Start(name, inner.a), InnerRest(inner, rest)), before)
  BY DEF InnerTail
<1>4. XmlClean(at) /\ Stands(to, Append(Xml!Root, name), InnerRest(inner, rest), Xml!WithElement(before, Append(Xml!Root, name), inner.a))
  BY <1>1, <1>2, <1>3, StartReads
<1> QED
  BY <1>1, <1>4 DEF InnerPhase, Entered


\* Our own document, and what it says after each of its elements.
RestL == Cons(Xml!End, <<>>)
RestK(g) == IF Len(g.l) > 1 THEN InnerTail("l", g.l[2], RestL) ELSE RestL
RestO(g) == IF Len(g.l) > 0 THEN InnerTail("l", g.l[1], RestK(g)) ELSE RestK(g)
RestT(g) == InnerTail("o", g.o, RestO(g))
RestR(g) == TextTail("t", g.t, RestT(g))
Document(g) == Cons(Xml!Start("r", g.a), RestR(g))
AddR(g) == Xml!WithElement(Xml!NewObject, Xml!Root, g.a)
EmptyT(g) == Xml!SetText(AddR(g), PathT, <<>>)
AddT(g) == IF Filled(g.t) THEN Xml!SetText(AddR(g), PathT, <<g.t[1]>>) ELSE EmptyT(g)
AddO(g) == PutIn(AddT(g), "o", g.o)
AddK(g) == IF Len(g.l) > 0 THEN PutIn(AddO(g), "l", g.l[1]) ELSE AddO(g)
AddL(g) == IF Len(g.l) > 1 THEN PutIn(AddK(g), "l", g.l[2]) ELSE AddK(g)

TextPhase(at, g) ==
    \/ Filled(g.t) /\ Stands(at, PathT, Cons(Xml!Text(g.t[1]), Cons(Xml!End, RestT(g))), EmptyT(g))
    \/ Stands(at, PathT, Cons(Xml!End, RestT(g)), AddT(g))
XmlPhase(at, g) ==
    \/ Stands(at, Xml!NoPath, Document(g), Xml!NewObject)
    \/ Stands(at, Xml!Root, RestR(g), AddR(g))
    \/ TextPhase(at, g)
    \/ Stands(at, Xml!Root, RestT(g), AddT(g))
    \/ InnerPhase(at, "o", g.o, AddT(g), RestO(g))
    \/ Stands(at, Xml!Root, RestO(g), AddO(g))
    \/ Len(g.l) > 0 /\ InnerPhase(at, "l", g.l[1], AddO(g), RestK(g))
    \/ Stands(at, Xml!Root, RestK(g), AddK(g))
    \/ Len(g.l) > 1 /\ InnerPhase(at, "l", g.l[2], AddK(g), RestL)
    \/ Stands(at, Xml!Root, RestL, AddL(g))
    \/ Stands(at, Xml!NoPath, <<>>, AddL(g))

LEMMA ProgramsAre ==
    ASSUME NEW g \in Xml!Programs
    PROVE  /\ g \in XmlObject /\ g.a \in {"unset", "v"} /\ g.o \in Xml!Inners /\ g.there \in BOOLEAN
           /\ ~g.there => g.o = Xml!NewInner
           /\ Filled(g.t) => g.t = <<"x">> /\ g.t[1] \in XmlNames /\ <<g.t[1]>> \in Texted
           /\ ~Filled(g.t) => g.t \in {Xml!Unset, <<>>}
           /\ g.l \in Seq(Xml!Inners) /\ Len(g.l) \in 0 .. 2
           /\ Len(g.l) > 0 => g.l[1] \in Xml!Inners
           /\ Len(g.l) > 1 => g.l[2] \in Xml!Inners
<1>1. /\ g.a \in {"unset", "v"} /\ g.t \in {Xml!Unset, <<>>, <<"x">>} /\ g.there \in BOOLEAN /\ g.o \in Xml!Inners
      /\ g.l \in {<<>>} \cup {<<i>> : i \in Xml!Inners} \cup {<<i, Xml!NewInner>> : i \in Xml!Inners}
      /\ g = [a |-> g.a, t |-> g.t, there |-> g.there, o |-> g.o, l |-> g.l]
      /\ ~g.there => g.o = Xml!NewInner
  BY DEF Xml!Programs
<1>2. /\ <<"x">>[1] = "x" /\ "x" \in XmlNames /\ <<"x">> \in Texted /\ Xml!Unset \in Texted /\ <<>> \in Texted
  BY DEF Texted, XmlNames, Xml!Unset
<1>3. Xml!NewInner \in Xml!Inners
  BY DEF Xml!NewInner, Xml!Inners
<1>4. g.l \in Seq(Xml!Inners) /\ Len(g.l) \in 0 .. 2
  <2>1. CASE g.l = <<>>
    BY <2>1
  <2>2. CASE g.l \in {<<i>> : i \in Xml!Inners}
    <3>1. PICK i \in Xml!Inners : g.l = <<i>>
      BY <2>2
    <3> QED
      BY <3>1
  <2>3. CASE g.l \in {<<i, Xml!NewInner>> : i \in Xml!Inners}
    <3>1. PICK i \in Xml!Inners : g.l = <<i, Xml!NewInner>>
      BY <2>3
    <3> QED
      BY <1>3, <3>1
  <2> QED
    BY <1>1, <2>1, <2>2, <2>3
<1>5. (Len(g.l) > 0 => g.l[1] \in Xml!Inners) /\ (Len(g.l) > 1 => g.l[2] \in Xml!Inners)
  BY <1>4
<1>6. Xml!Inners \subseteq XmlInner
  BY InnersAre
<1>7. g.l \in Seq(XmlInner) /\ g.o \in XmlInner /\ g.t \in Texted
  BY <1>1, <1>2, <1>4, <1>6
<1>8. Filled(g.t) => g.t = <<"x">> /\ g.t[1] \in XmlNames /\ <<g.t[1]>> \in Texted
  BY <1>1, <1>2 DEF Filled
<1>9. ~Filled(g.t) => g.t \in {Xml!Unset, <<>>}
  BY DEF Filled
<1>10. g \in XmlObject
  BY <1>1, <1>7 DEF XmlObject
<1> QED
  BY <1>1, <1>4, <1>5, <1>8, <1>9, <1>10

LEMMA RestsAre ==
    ASSUME NEW g \in Xml!Programs
    PROVE  /\ RestL \in Seq(XmlEvents) /\ RestK(g) \in Seq(XmlEvents) /\ RestO(g) \in Seq(XmlEvents)
           /\ RestT(g) \in Seq(XmlEvents) /\ RestR(g) \in Seq(XmlEvents) /\ Document(g) \in Seq(XmlEvents)
           /\ Cons(Xml!End, RestT(g)) \in Seq(XmlEvents)
           /\ Filled(g.t) => Cons(Xml!Text(g.t[1]), Cons(Xml!End, RestT(g))) \in Seq(XmlEvents)
<1>1. /\ Xml!End \in XmlEvents /\ Xml!Start("r", g.a) \in XmlEvents /\ Xml!Start("t", "unset") \in XmlEvents
      /\ {"o", "l"} \subseteq XmlNames
      /\ Filled(g.t) => Xml!Text(g.t[1]) \in XmlEvents
  BY ProgramsAre DEF XmlEvents, Xml!End, Xml!Start, Xml!Text, XmlNames
<1>a. Xml!End \in XmlEvents
  BY <1>1
<1>b. "o" \in XmlNames /\ "l" \in XmlNames
  BY <1>1
<1>c. g.o \in Xml!Inners /\ (Len(g.l) > 0 => g.l[1] \in Xml!Inners) /\ (Len(g.l) > 1 => g.l[2] \in Xml!Inners)
  BY ProgramsAre
<1>2. RestL \in Seq(XmlEvents)
  <2>1. <<>> \in Seq(XmlEvents)
    OBVIOUS
  <2> QED
    BY <1>a, <2>1, ConsIs DEF RestL
<1>3. RestK(g) \in Seq(XmlEvents)
  <2>1. CASE Len(g.l) > 1
    BY <1>b, <1>c, <1>2, <2>1, InnerTailIs DEF RestK
  <2> QED
    BY <1>2, <2>1 DEF RestK
<1>4. RestO(g) \in Seq(XmlEvents)
  <2>1. CASE Len(g.l) > 0
    BY <1>b, <1>c, <1>3, <2>1, InnerTailIs DEF RestO
  <2> QED
    BY <1>3, <2>1 DEF RestO
<1>5. RestT(g) \in Seq(XmlEvents)
  BY <1>b, <1>c, <1>4, InnerTailIs DEF RestT
<1>6. Cons(Xml!End, RestT(g)) \in Seq(XmlEvents)
  BY <1>a, <1>5, ConsIs
<1>7. ASSUME Filled(g.t) PROVE Cons(Xml!Text(g.t[1]), Cons(Xml!End, RestT(g))) \in Seq(XmlEvents)
  <2>1. Xml!Text(g.t[1]) \in XmlEvents
    BY <1>1, <1>7
  <2> QED
    BY <1>6, <2>1, ConsIs
<1>8. RestR(g) \in Seq(XmlEvents)
  <2> DEFINE more == IF Filled(g.t) THEN Cons(Xml!Text(g.t[1]), Cons(Xml!End, RestT(g))) ELSE Cons(Xml!End, RestT(g))
  <2>1. more \in Seq(XmlEvents)
    BY <1>6, <1>7
  <2>2. Xml!Start("t", "unset") \in XmlEvents
    BY <1>1
  <2>3. RestR(g) = Cons(Xml!Start("t", "unset"), more)
    BY DEF RestR, TextTail
  <2> HIDE DEF more
  <2> QED
    BY <2>1, <2>2, <2>3, ConsIs
<1>9. Document(g) \in Seq(XmlEvents)
  <2>1. Xml!Start("r", g.a) \in XmlEvents
    BY <1>1
  <2> QED
    BY <1>8, <2>1, ConsIs DEF Document
<1> QED
  BY <1>2, <1>3, <1>4, <1>5, <1>6, <1>7, <1>8, <1>9

LEMMA AddsAre ==
    ASSUME NEW g \in Xml!Programs
    PROVE  /\ AddR(g) \in XmlObject /\ EmptyT(g) \in XmlObject /\ AddT(g) \in XmlObject /\ AddO(g) \in XmlObject
           /\ AddK(g) \in XmlObject /\ AddL(g) \in XmlObject
<1>1. Xml!NewObject \in XmlObject
  BY DEF Xml!NewObject, XmlObject, Xml!NewInner, XmlInner, Xml!Unset, Texted, XmlNames
<1>2. AddR(g) \in XmlObject
  <2>1. Xml!Root \in Seq(XmlNames) /\ Xml!Root # PathLU
    BY Paths
  <2> QED
    BY <1>1, <2>1, ProgramsAre, ElementTyped DEF AddR
<1>3. PathT \in Seq(XmlNames) /\ PathT # PathLU /\ <<>> \in Texted
  BY Paths DEF Texted
<1>4. EmptyT(g) \in XmlObject
  BY <1>2, <1>3, TextTyped DEF EmptyT
<1>5. AddT(g) \in XmlObject
  BY <1>2, <1>3, <1>4, ProgramsAre, TextTyped DEF AddT
<1>6. AddO(g) \in XmlObject
  BY <1>5, ProgramsAre, EnteredIs DEF AddO
<1>7. AddK(g) \in XmlObject
  BY <1>6, ProgramsAre, EnteredIs DEF AddK
<1> QED
  BY <1>2, <1>4, <1>5, <1>6, <1>7, ProgramsAre, EnteredIs DEF AddL

LEMMA XmlSteps ==
    ASSUME NEW g \in Xml!Programs, NEW at, NEW to, XmlPhase(at, g), XmlReads(at, to)
    PROVE  XmlClean(at) /\ XmlPhase(to, g)
<1>1. /\ RestL \in Seq(XmlEvents) /\ RestK(g) \in Seq(XmlEvents) /\ RestO(g) \in Seq(XmlEvents)
      /\ RestT(g) \in Seq(XmlEvents) /\ RestR(g) \in Seq(XmlEvents) /\ Cons(Xml!End, RestT(g)) \in Seq(XmlEvents)
      /\ Filled(g.t) => Cons(Xml!Text(g.t[1]), Cons(Xml!End, RestT(g))) \in Seq(XmlEvents)
  BY RestsAre
<1>2. AddR(g) \in XmlObject /\ AddT(g) \in XmlObject /\ AddO(g) \in XmlObject /\ AddK(g) \in XmlObject
  BY AddsAre
<1>3. /\ g.a \in {"unset", "v"} /\ g.o \in Xml!Inners
      /\ Filled(g.t) => g.t[1] \in XmlNames
      /\ Len(g.l) \in 0 .. 2
      /\ Len(g.l) > 0 => g.l[1] \in Xml!Inners
      /\ Len(g.l) > 1 => g.l[2] \in Xml!Inners
  BY ProgramsAre
<1>4. /\ {"r", "t"} \subseteq XmlNames /\ Xml!NoPath \notin Xml!Texts /\ Xml!Root \notin Xml!Texts /\ PathT \in Xml!Texts
      /\ Append(Xml!NoPath, "r") = Xml!Root /\ Append(Xml!Root, "t") = PathT
      /\ SubSeq(PathT, 1, Len(PathT) - 1) = Xml!Root /\ SubSeq(Xml!Root, 1, Len(Xml!Root) - 1) = Xml!NoPath /\ PathT \notin Xml!Objects
      /\ PathT \in Seq(XmlNames) /\ PathT # PathLU
  BY Paths DEF XmlNames
<1>5. CASE Stands(at, Xml!NoPath, Document(g), Xml!NewObject)
  <2>1. XmlClean(at) /\ Stands(to, Append(Xml!NoPath, "r"), RestR(g), Xml!WithElement(Xml!NewObject, Append(Xml!NoPath, "r"), g.a))
    BY <1>1, <1>3, <1>4, <1>5, StartReads DEF Document
  <2> QED
    BY <1>4, <2>1 DEF XmlPhase, AddR
<1>6. CASE Stands(at, Xml!Root, RestR(g), AddR(g))
  <2> DEFINE more == IF Filled(g.t) THEN Cons(Xml!Text(g.t[1]), Cons(Xml!End, RestT(g))) ELSE Cons(Xml!End, RestT(g))
  <2>1. more \in Seq(XmlEvents) /\ Stands(at, Xml!Root, Cons(Xml!Start("t", "unset"), more), AddR(g))
    BY <1>1, <1>6 DEF RestR, TextTail
  <2> HIDE DEF more
  <2>2. XmlClean(at) /\ Stands(to, Append(Xml!Root, "t"), more, Xml!WithElement(AddR(g), Append(Xml!Root, "t"), "unset"))
    BY <1>4, <2>1, StartReads
  <2>3. Xml!WithElement(AddR(g), PathT, "unset") = EmptyT(g)
    BY <1>4, NoElement DEF EmptyT
  <2>4. Stands(to, PathT, more, EmptyT(g))
    BY <1>4, <2>2, <2>3
  <2>5. TextPhase(to, g)
    BY <2>4 DEF TextPhase, AddT, more
  <2> QED
    BY <2>2, <2>5 DEF XmlPhase
<1>7. CASE TextPhase(at, g)
  <2>1. CASE Filled(g.t) /\ Stands(at, PathT, Cons(Xml!Text(g.t[1]), Cons(Xml!End, RestT(g))), EmptyT(g))
    <3>1. XmlClean(at) /\ Stands(to, PathT, Cons(Xml!End, RestT(g)), Xml!SetText(EmptyT(g), PathT, Append(Xml!TextAt(EmptyT(g), PathT), g.t[1])))
      BY <1>1, <1>3, <1>4, <2>1, TextReads
    <3>2. <<>> \in Texted
      BY DEF Texted
    <3>3. /\ Xml!TextAt(EmptyT(g), PathT) = <<>>
          /\ \A more : Xml!SetText(EmptyT(g), PathT, more) = Xml!SetText(AddR(g), PathT, more)
      BY <1>2, <1>4, <3>2, TextTyped DEF EmptyT
    <3>4. Append(<<>>, g.t[1]) = <<g.t[1]>>
      BY <1>3, <2>1, ShortSeqs
    <3>5. Xml!SetText(EmptyT(g), PathT, Append(Xml!TextAt(EmptyT(g), PathT), g.t[1])) = AddT(g)
      BY <2>1, <3>3, <3>4 DEF AddT
    <3>6. TextPhase(to, g)
      BY <3>1, <3>5 DEF TextPhase
    <3> QED
      BY <3>1, <3>6 DEF XmlPhase
  <2>2. CASE Stands(at, PathT, Cons(Xml!End, RestT(g)), AddT(g))
    <3>1. XmlClean(at) /\ Stands(to, SubSeq(PathT, 1, Len(PathT) - 1), RestT(g), AddT(g))
      BY <1>1, <2>2, EndReads
    <3> QED
      BY <1>4, <3>1 DEF XmlPhase
  <2> QED
    BY <1>7, <2>1, <2>2 DEF TextPhase
<1>8. CASE Stands(at, Xml!Root, RestT(g), AddT(g))
  <2>1. XmlClean(at) /\ InnerPhase(to, "o", g.o, AddT(g), RestO(g))
    BY <1>1, <1>2, <1>3, <1>8, InnerEnters DEF RestT
  <2> QED
    BY <2>1 DEF XmlPhase
<1>9. CASE InnerPhase(at, "o", g.o, AddT(g), RestO(g))
  <2>1. XmlClean(at) /\ (InnerPhase(to, "o", g.o, AddT(g), RestO(g)) \/ Stands(to, Xml!Root, RestO(g), AddO(g)))
    BY <1>1, <1>2, <1>3, <1>9, InnerSteps DEF AddO
  <2> QED
    BY <2>1 DEF XmlPhase
<1>10. CASE Len(g.l) > 0 /\ Stands(at, Xml!Root, RestO(g), AddO(g))
  <2>1. XmlClean(at) /\ InnerPhase(to, "l", g.l[1], AddO(g), RestK(g))
    BY <1>1, <1>2, <1>3, <1>10, InnerEnters DEF RestO
  <2> QED
    BY <1>10, <2>1 DEF XmlPhase
<1>11. CASE Len(g.l) > 0 /\ InnerPhase(at, "l", g.l[1], AddO(g), RestK(g))
  <2>1. XmlClean(at) /\ (InnerPhase(to, "l", g.l[1], AddO(g), RestK(g)) \/ Stands(to, Xml!Root, RestK(g), AddK(g)))
    BY <1>1, <1>2, <1>3, <1>11, InnerSteps DEF AddK
  <2> QED
    BY <1>11, <2>1 DEF XmlPhase
<1>12. CASE Len(g.l) > 1 /\ Stands(at, Xml!Root, RestK(g), AddK(g))
  <2>1. XmlClean(at) /\ InnerPhase(to, "l", g.l[2], AddK(g), RestL)
    BY <1>1, <1>2, <1>3, <1>12, InnerEnters DEF RestK
  <2> QED
    BY <1>12, <2>1 DEF XmlPhase
<1>13. CASE Len(g.l) > 1 /\ InnerPhase(at, "l", g.l[2], AddK(g), RestL)
  <2>1. XmlClean(at) /\ (InnerPhase(to, "l", g.l[2], AddK(g), RestL) \/ Stands(to, Xml!Root, RestL, AddL(g)))
    BY <1>1, <1>2, <1>3, <1>13, InnerSteps DEF AddL
  <2> QED
    BY <1>13, <2>1 DEF XmlPhase
<1>14. CASE Stands(at, Xml!Root, RestL, AddL(g))
  <2>1. <<>> \in Seq(XmlEvents)
    OBVIOUS
  <2>2. XmlClean(at) /\ Stands(to, SubSeq(Xml!Root, 1, Len(Xml!Root) - 1), <<>>, AddL(g))
    BY <1>14, <2>1, EndReads DEF RestL
  <2> QED
    BY <1>4, <2>2 DEF XmlPhase
<1>15. CASE Stands(at, Xml!NoPath, <<>>, AddL(g))
  BY <1>15 DEF Stands, XmlReads
<1>16. ASSUME ~(Len(g.l) > 0) PROVE RestO(g) = RestK(g) /\ AddO(g) = AddK(g) /\ ~(Len(g.l) > 1)
  BY <1>3, <1>16 DEF RestO, AddK
<1>17. ASSUME ~(Len(g.l) > 1) PROVE RestK(g) = RestL /\ AddK(g) = AddL(g)
  BY <1>17 DEF RestK, AddL
<1>18. CASE Stands(at, Xml!Root, RestK(g), AddK(g))
  BY <1>12, <1>14, <1>17, <1>18
<1>19. CASE Stands(at, Xml!Root, RestO(g), AddO(g))
  BY <1>10, <1>16, <1>18, <1>19
<1> QED
  BY <1>5, <1>6, <1>7, <1>8, <1>9, <1>11, <1>13, <1>14, <1>15, <1>18, <1>19 DEF XmlPhase


LEMMA Joined ==
    ASSUME NEW S, NEW r \in Seq(S), NEW s \in Seq(S), NEW t \in Seq(S)
    PROVE  (r \o s) \o t = r \o (s \o t) /\ r \o s \in Seq(S)
<1> DEFINE rs == r \o s
           st == s \o t
           left == rs \o t
           right == r \o st
           m == Len(r)
           n == Len(s)
           k == Len(t)
<1>1. /\ rs \in Seq(S) /\ Len(rs) = Len(r) + Len(s)
      /\ \A i \in 1 .. Len(rs) : rs[i] = IF i <= Len(r) THEN r[i] ELSE s[i - Len(r)]
  OBVIOUS
<1>2. /\ st \in Seq(S) /\ Len(st) = Len(s) + Len(t)
      /\ \A i \in 1 .. Len(st) : st[i] = IF i <= Len(s) THEN s[i] ELSE t[i - Len(s)]
  OBVIOUS
<1>3. m \in Nat /\ n \in Nat /\ k \in Nat
  OBVIOUS
<1>a. rs \in Seq(S) /\ st \in Seq(S)
  BY <1>1, <1>2
<1> HIDE DEF rs, st
<1>4. /\ left \in Seq(S) /\ Len(left) = Len(rs) + Len(t)
      /\ \A i \in 1 .. Len(left) : left[i] = IF i <= Len(rs) THEN rs[i] ELSE t[i - Len(rs)]
  BY <1>a
<1>5. /\ right \in Seq(S) /\ Len(right) = Len(r) + Len(st)
      /\ \A i \in 1 .. Len(right) : right[i] = IF i <= Len(r) THEN r[i] ELSE st[i - Len(r)]
  BY <1>a
<1>6. Len(left) = m + n + k /\ Len(right) = m + n + k /\ Len(rs) = m + n /\ Len(st) = n + k
  BY <1>1, <1>2, <1>3, <1>4, <1>5
<1> HIDE DEF left, right
<1>7. ASSUME NEW i \in 1 .. Len(left) PROVE left[i] = right[i]
  <2>1. i \in 1 .. Len(right) /\ i \in Nat /\ i >= 1 /\ i <= m + n + k
    BY <1>3, <1>6
  <2>2. CASE i <= m
    <3>1. i <= Len(rs) /\ i \in 1 .. Len(rs)
      BY <1>3, <1>6, <2>1, <2>2
    <3>2. left[i] = rs[i] /\ rs[i] = r[i]
      BY <1>1, <1>4, <2>2, <3>1
    <3>3. right[i] = r[i]
      BY <1>5, <2>1, <2>2
    <3> QED
      BY <3>2, <3>3
  <2>3. CASE i > m /\ i <= m + n
    <3>1. i <= Len(rs) /\ i \in 1 .. Len(rs) /\ ~(i <= m) /\ i - m \in 1 .. Len(st) /\ i - m <= n
      BY <1>3, <1>6, <2>1, <2>3
    <3>2. left[i] = rs[i] /\ rs[i] = s[i - m]
      BY <1>1, <1>4, <3>1
    <3>3. right[i] = st[i - m] /\ st[i - m] = s[i - m]
      BY <1>2, <1>5, <2>1, <3>1
    <3> QED
      BY <3>2, <3>3
  <2>4. CASE i > m + n
    <3>1. /\ ~(i <= Len(rs)) /\ ~(i <= m) /\ i - m \in 1 .. Len(st) /\ ~(i - m <= n)
          /\ i - Len(rs) = i - m - n
      BY <1>3, <1>6, <2>1, <2>4
    <3>2. left[i] = t[i - m - n]
      BY <1>4, <3>1
    <3>3. right[i] = st[i - m]
      BY <1>5, <2>1, <3>1
    <3>4. st[i - m] = t[i - m - n]
      BY <1>2, <3>1
    <3> QED
      BY <3>2, <3>3, <3>4
  <2> QED
    BY <1>3, <2>1, <2>2, <2>3, <2>4
<1>8. left = right
  BY <1>4, <1>5, <1>6, <1>7, SameSeq
<1> QED
  BY <1>1, <1>8 DEF left, right, rs, st

LEMMA TextEventsAre ==
    ASSUME NEW name \in XmlNames, NEW text, Filled(text) => text[1] \in XmlNames, NEW rest \in Seq(XmlEvents)
    PROVE  Xml!TextEvents(name, text) \in Seq(XmlEvents) /\ Xml!TextEvents(name, text) \o rest = TextTail(name, text, rest)
<1> DEFINE first == <<Xml!Start(name, "unset")>>
           middle == IF text \in {Xml!Unset, <<>>} THEN <<>> ELSE <<Xml!Text(text[1])>>
           last == <<Xml!End>>
<1>1. first \in Seq(XmlEvents) /\ last \in Seq(XmlEvents)
  <2>1. Xml!Start(name, "unset") \in XmlEvents /\ Xml!End \in XmlEvents
    BY DEF XmlEvents, Xml!Start, Xml!End, XmlNames
  <2> QED
    BY <2>1
<1>2. middle \in Seq(XmlEvents)
  <2>1. CASE ~Filled(text)
    BY <2>1 DEF Filled
  <2>2. CASE Filled(text)
    <3>1. Xml!Text(text[1]) \in XmlEvents
      BY <2>2 DEF Xml!Text, XmlEvents
    <3> QED
      BY <2>2, <3>1 DEF Filled
  <2> QED
    BY <2>1, <2>2
<1>3. Xml!TextEvents(name, text) = (first \o middle) \o last
  BY DEF Xml!TextEvents
<1>4. ~Filled(text) => middle = <<>>
  BY DEF Filled
<1>5. Filled(text) => middle = <<Xml!Text(text[1])>>
  BY DEF Filled
<1> DEFINE end == Cons(Xml!End, rest)
<1>6. end = last \o rest
  BY DEF Cons
<1> HIDE DEF first, middle, last
<1>7. first \o middle \in Seq(XmlEvents) /\ (first \o middle) \o last \in Seq(XmlEvents)
  BY <1>1, <1>2, Joined
<1>8. ((first \o middle) \o last) \o rest = (first \o middle) \o end
  <2> DEFINE both == first \o middle
  <2>1. both \in Seq(XmlEvents)
    BY <1>7
  <2> HIDE DEF both
  <2>2. \A s, t, u \in Seq(XmlEvents) : (s \o t) \o u = s \o (t \o u)
    BY Joined
  <2>3. (both \o last) \o rest = both \o (last \o rest)
    BY <1>1, <2>1, <2>2, Zenon
  <2> QED
    BY <1>6, <2>3 DEF both
<1>9. end \in Seq(XmlEvents)
  BY <1>1, <1>6, Joined
<1> HIDE DEF end
<1>10. (first \o middle) \o end = first \o (middle \o end)
  <2>1. first \in Seq(XmlEvents) /\ middle \in Seq(XmlEvents)
    BY <1>1, <1>2
  <2>2. \A s, t, u \in Seq(XmlEvents) : (s \o t) \o u = s \o (t \o u)
    BY Joined
  <2> QED
    BY <1>9, <2>1, <2>2, Zenon
<1>11. CASE ~Filled(text)
  <2>1. middle \o end = end
    BY <1>4, <1>9, <1>11
  <2> QED
    BY <1>3, <1>7, <1>8, <1>10, <1>11, <2>1 DEF TextTail, Cons, first, end
<1>12. CASE Filled(text)
  <2>1. middle \o end = Cons(Xml!Text(text[1]), end)
    BY <1>5, <1>12 DEF Cons
  <2> QED
    BY <1>3, <1>7, <1>8, <1>10, <1>12, <2>1 DEF TextTail, Cons, first, end
<1> QED
  BY <1>11, <1>12

LEMMA InnerEventsAre ==
    ASSUME NEW name \in XmlNames, NEW inner \in Xml!Inners, NEW rest \in Seq(XmlEvents)
    PROVE  Xml!InnerEvents(name, inner) \in Seq(XmlEvents) /\ Xml!InnerEvents(name, inner) \o rest = InnerTail(name, inner, rest)
<1> DEFINE first == <<Xml!Start(name, inner.a)>>
           middle == IF inner.u \in {Xml!Unset, <<>>} THEN <<>> ELSE Xml!TextEvents("u", inner.u)
           last == <<Xml!End>>
           end == Cons(Xml!End, rest)
<1>u. "u" \in XmlNames
  BY DEF XmlNames
<1>1. first \in Seq(XmlEvents) /\ last \in Seq(XmlEvents) /\ "u" \in XmlNames
  <2>1. Xml!Start(name, inner.a) \in XmlEvents /\ Xml!End \in XmlEvents
    BY InnersAre DEF XmlEvents, Xml!Start, Xml!End, XmlNames
  <2> QED
    BY <2>1, <1>u
<1>2. Filled(inner.u) => inner.u[1] \in XmlNames
  BY InnersAre
<1>3. Xml!InnerEvents(name, inner) = (first \o middle) \o last /\ end = last \o rest
  BY DEF Xml!InnerEvents, Cons
<1>4. ~Filled(inner.u) => middle = <<>>
  BY DEF Filled
<1>5. Filled(inner.u) => middle = Xml!TextEvents("u", inner.u)
  BY DEF Filled
<1>6. middle \in Seq(XmlEvents)
  <2>1. CASE ~Filled(inner.u)
    <3>1. <<>> \in Seq(XmlEvents)
      OBVIOUS
    <3> HIDE DEF middle
    <3> QED
      BY <1>4, <2>1, <3>1
  <2>2. CASE Filled(inner.u)
    <3>1. <<>> \in Seq(XmlEvents)
      OBVIOUS
    <3> QED
      BY <1>1, <1>2, <1>5, <2>2, <3>1, TextEventsAre
  <2> QED
    BY <2>1, <2>2
<1> HIDE DEF first, middle, last
<1>7. first \o middle \in Seq(XmlEvents) /\ (first \o middle) \o last \in Seq(XmlEvents)
  BY <1>1, <1>6, Joined
<1>8. ((first \o middle) \o last) \o rest = (first \o middle) \o end
  <2> DEFINE both == first \o middle
  <2>1. both \in Seq(XmlEvents)
    BY <1>7
  <2> HIDE DEF both
  <2>2. \A s, t, u \in Seq(XmlEvents) : (s \o t) \o u = s \o (t \o u)
    BY Joined
  <2>3. (both \o last) \o rest = both \o (last \o rest)
    BY <1>1, <2>1, <2>2, Zenon
  <2> QED
    BY <1>3, <2>3 DEF both
<1>9. end \in Seq(XmlEvents)
  BY <1>1, <1>3, Joined
<1> HIDE DEF end
<1>10. (first \o middle) \o end = first \o (middle \o end)
  <2>1. first \in Seq(XmlEvents) /\ middle \in Seq(XmlEvents)
    BY <1>1, <1>6
  <2>2. \A s, t, u \in Seq(XmlEvents) : (s \o t) \o u = s \o (t \o u)
    BY Joined
  <2> QED
    BY <1>9, <2>1, <2>2, Zenon
<1>11. middle \o end = InnerRest(inner, rest)
  <2>1. CASE ~Filled(inner.u)
    BY <1>4, <1>9, <2>1 DEF InnerRest, end
  <2>2. CASE Filled(inner.u)
    <3>1. Xml!TextEvents("u", inner.u) \o end = TextTail("u", inner.u, end)
      BY <1>1, <1>2, <1>9, <2>2, TextEventsAre
    <3> QED
      BY <1>5, <2>2, <3>1 DEF InnerRest, end
  <2> QED
    BY <2>1, <2>2
<1> QED
  BY <1>3, <1>7, <1>8, <1>10, <1>11 DEF InnerTail, Cons, first

LEMMA SerializeIs ==
    ASSUME NEW g \in Xml!Programs
    PROVE  Xml!Serialize(g) = Document(g)
<1> DEFINE r == <<Xml!Start("r", g.a)>>
           t == Xml!TextEvents("t", g.t)
           o == Xml!InnerEvents("o", g.o)
           k == IF Len(g.l) > 0 THEN Xml!InnerEvents("l", g.l[1]) ELSE <<>>
           l == IF Len(g.l) > 1 THEN Xml!InnerEvents("l", g.l[2]) ELSE <<>>
           last == <<Xml!End>>
<1>1. /\ "t" \in XmlNames /\ "o" \in XmlNames /\ "l" \in XmlNames /\ "r" \in XmlNames
  BY DEF XmlNames
<1>2. /\ g.o \in Xml!Inners /\ (Len(g.l) > 0 => g.l[1] \in Xml!Inners) /\ (Len(g.l) > 1 => g.l[2] \in Xml!Inners)
      /\ (Filled(g.t) => g.t[1] \in XmlNames) /\ (~g.there => g.o = Xml!NewInner) /\ g.a \in {"unset", "v"}
  BY ProgramsAre
<1>3. r \in Seq(XmlEvents) /\ last \in Seq(XmlEvents) /\ <<>> \in Seq(XmlEvents)
  <2>1. Xml!Start("r", g.a) \in XmlEvents /\ Xml!End \in XmlEvents
    BY <1>2 DEF XmlEvents, Xml!Start, Xml!End, XmlNames
  <2> QED
    BY <2>1
<1>4. t \in Seq(XmlEvents) /\ \A rest \in Seq(XmlEvents) : t \o rest = TextTail("t", g.t, rest)
  BY <1>1, <1>2, <1>3, TextEventsAre
<1>5. o \in Seq(XmlEvents) /\ \A rest \in Seq(XmlEvents) : o \o rest = InnerTail("o", g.o, rest)
  BY <1>1, <1>2, <1>3, InnerEventsAre
<1>6. k \in Seq(XmlEvents) /\ \A rest \in Seq(XmlEvents) : k \o rest = IF Len(g.l) > 0 THEN InnerTail("l", g.l[1], rest) ELSE rest
  <2>1. CASE Len(g.l) > 0
    BY <1>1, <1>2, <1>3, <2>1, InnerEventsAre
  <2>2. CASE ~(Len(g.l) > 0)
    BY <1>3, <2>2
  <2> QED
    BY <2>1, <2>2
<1>7. l \in Seq(XmlEvents) /\ \A rest \in Seq(XmlEvents) : l \o rest = IF Len(g.l) > 1 THEN InnerTail("l", g.l[2], rest) ELSE rest
  <2>1. CASE Len(g.l) > 1
    BY <1>1, <1>2, <1>3, <2>1, InnerEventsAre
  <2>2. CASE ~(Len(g.l) > 1)
    BY <1>3, <2>2
  <2> QED
    BY <2>1, <2>2
<1>8. (IF g.there THEN Xml!InnerEvents("o", g.o) ELSE <<Xml!Start("o", "unset"), Xml!End>>) = o
  <2>1. CASE ~g.there
    <3>1. Xml!InnerEvents("o", Xml!NewInner) = (<<Xml!Start("o", "unset")>> \o <<>>) \o <<Xml!End>>
      BY DEF Xml!InnerEvents, Xml!NewInner
    <3>2. Xml!Start("o", "unset") \in XmlEvents /\ Xml!End \in XmlEvents
      BY DEF Xml!Start, Xml!End, XmlEvents, XmlNames
    <3>3. (<<Xml!Start("o", "unset")>> \o <<>>) \o <<Xml!End>> = <<Xml!Start("o", "unset"), Xml!End>>
      <4> DEFINE e == Xml!Start("o", "unset")
                 f == Xml!End
      <4> HIDE DEF e, f
      <4>1. (<<e>> \o <<>>) \o <<f>> = <<e, f>>
        <5> DEFINE one == <<e>>
                   two == <<e, f>>
                   rest == <<f>>
        <5>1. one \o <<>> = one /\ rest \in Seq({e, f}) /\ Len(rest) = 1 /\ rest[1] = f
          OBVIOUS
        <5>2. two \in Seq({e, f}) /\ Len(two) = 2 /\ two[1] = e /\ two[2] = f
          OBVIOUS
        <5> HIDE DEF two, rest
        <5> DEFINE whole == Cons(e, rest)
        <5>3. /\ whole \in Seq({e, f}) /\ Len(whole) = Len(rest) + 1 /\ whole[1] = e
              /\ \A i \in 1 .. Len(rest) : whole[i + 1] = rest[i]
          <6>1. e \in {e, f} /\ rest \in Seq({e, f})
            BY <5>1
          <6> DEFINE pair == {e, f}
          <6> HIDE DEF pair
          <6>2. e \in pair /\ rest \in Seq(pair)
            BY <6>1 DEF pair
          <6>3. /\ whole \in Seq(pair) /\ Len(whole) = Len(rest) + 1 /\ whole[1] = e
                /\ \A i \in 1 .. Len(rest) : whole[i + 1] = rest[i]
            BY <6>2, ConsIs
          <6> QED
            BY <6>3 DEF pair
        <5> HIDE DEF whole
        <5>4. Len(whole) = Len(two) /\ \A i \in 1 .. Len(whole) : whole[i] = two[i]
          BY <5>1, <5>2, <5>3
        <5>5. whole = two
          BY <5>2, <5>3, <5>4, SameSeq
        <5> QED
          BY <5>1, <5>5 DEF whole, Cons, two, rest
      <4> QED
        BY <4>1 DEF e, f
    <3> QED
      BY <1>2, <2>1, <3>1, <3>3
  <2> QED
    BY <2>1
<1>9. Xml!Serialize(g) = ((((r \o t) \o o) \o k) \o l) \o last
  BY <1>8 DEF Xml!Serialize
<1>10. last = RestL
  BY <1>3 DEF RestL, Cons
<1> HIDE DEF r, t, o, k, l, last
<1>11. l \o last = RestK(g) /\ l \o last \in Seq(XmlEvents)
  BY <1>3, <1>7, <1>10, Joined DEF RestK
<1>12. k \o (l \o last) = RestO(g) /\ k \o (l \o last) \in Seq(XmlEvents)
  BY <1>6, <1>11, Joined DEF RestO
<1>13. o \o (k \o (l \o last)) = RestT(g) /\ o \o (k \o (l \o last)) \in Seq(XmlEvents)
  BY <1>5, <1>12, Joined DEF RestT
<1>14. t \o (o \o (k \o (l \o last))) = RestR(g) /\ t \o (o \o (k \o (l \o last))) \in Seq(XmlEvents)
  BY <1>4, <1>13, Joined DEF RestR
<1>15. r \o RestR(g) = Document(g)
  BY DEF Document, Cons, r
<1> DEFINE rt == r \o t
           rto == rt \o o
           rtok == rto \o k
           ll == l \o last
           kl == k \o ll
           ol == o \o kl
           tl == t \o ol
<1>r. r \in Seq(XmlEvents)
  BY <1>3
<1>t. t \in Seq(XmlEvents)
  BY <1>4
<1>o. o \in Seq(XmlEvents)
  BY <1>5
<1>k. k \in Seq(XmlEvents)
  BY <1>6
<1>l. l \in Seq(XmlEvents) /\ last \in Seq(XmlEvents)
  BY <1>3, <1>7
<1>16. rt \in Seq(XmlEvents)
  BY <1>r, <1>t, Joined
<1>ll. ll \in Seq(XmlEvents)
  BY <1>11
<1>kl. kl \in Seq(XmlEvents)
  BY <1>12
<1>ol. ol \in Seq(XmlEvents)
  BY <1>13
<1>a. tl = RestR(g)
  BY <1>14
<1>b. rt \o ol = r \o tl
  <2> HIDE DEF ol
  <2> QED
    BY <1>r, <1>t, <1>ol, Joined
<1> HIDE DEF rt
<1>17. rto \in Seq(XmlEvents)
  BY <1>o, <1>16, Joined
<1>c. rto \o kl = rt \o ol
  <2> HIDE DEF kl
  <2> QED
    BY <1>o, <1>16, <1>kl, Joined
<1> HIDE DEF rto
<1>18. rtok \in Seq(XmlEvents)
  BY <1>k, <1>17, Joined
<1>d. rtok \o ll = rto \o kl
  <2> HIDE DEF ll
  <2> QED
    BY <1>k, <1>17, <1>ll, Joined
<1> HIDE DEF rtok
<1>e. (rtok \o l) \o last = rtok \o ll
  BY <1>l, <1>18, Joined
<1>f. Xml!Serialize(g) = (rtok \o l) \o last
  BY <1>9 DEF rtok, rto, rt
<1> HIDE DEF ll, kl, ol, tl
<1> QED
  BY <1>15, <1>a, <1>b, <1>c, <1>d, <1>e, <1>f


\* An object as it comes back: an empty text that was not written is none.
Dropped(inner) == [a |-> inner.a, u |-> IF inner.u = <<>> THEN Xml!Unset ELSE inner.u]

LEMMA DroppedIs ==
    ASSUME NEW inner
    PROVE  /\ inner.u # <<>> => Dropped(inner) = [[a |-> inner.a, u |-> Xml!Unset] EXCEPT !.u = inner.u]
           /\ inner \in Xml!Inners => Dropped(inner) \in XmlInner
<1>1. ASSUME inner.u # <<>> PROVE Dropped(inner) = [[a |-> inner.a, u |-> Xml!Unset] EXCEPT !.u = inner.u]
  <2> DEFINE text == inner.u
             a == inner.a
             none == Xml!Unset
  <2>1. Dropped(inner) = [a |-> a, u |-> text]
    BY <1>1 DEF Dropped
  <2> HIDE DEF text, a, none
  <2>2. [a |-> a, u |-> text] = [[a |-> a, u |-> none] EXCEPT !.u = text]
    OBVIOUS
  <2> QED
    BY <2>1, <2>2 DEF text, a, none
<1>2. ASSUME inner \in Xml!Inners PROVE Dropped(inner) \in XmlInner
  <2>1. inner.a \in {"unset", "v"} /\ inner.u \in Texted
    BY <1>2, InnersAre DEF XmlInner
  <2>2. Xml!Unset \in Texted
    BY DEF Xml!Unset, Texted, XmlNames
  <2>3. (IF inner.u = <<>> THEN Xml!Unset ELSE inner.u) \in Texted
    BY <2>1, <2>2
  <2> QED
    BY <2>1, <2>3 DEF Dropped, XmlInner
<1> QED
  BY <1>1, <1>2

Filling(a, t, b, o, l) == [a |-> a, t |-> t, there |-> b, o |-> o, l |-> l]

FillO(old, there, o) == [old EXCEPT !.there = there, !.o = o]
FillL(old, l) == [old EXCEPT !.l = l]

LEMMA FieldT ==
    ASSUME NEW a, NEW t, NEW b, NEW o, NEW l, NEW x
    PROVE  WithT(Filling(a, t, b, o, l), x) = Filling(a, x, b, o, l)
BY DEF Filling, WithT

LEMMA FieldO ==
    ASSUME NEW a, NEW t, NEW b, NEW o, NEW l, NEW x, NEW y
    PROVE  FillO(Filling(a, t, b, o, l), x, y) = Filling(a, t, x, y, l)
<1> DEFINE old == Filling(a, t, b, o, l)
           new == [old EXCEPT !.there = x, !.o = y]
<1>1. old = [a |-> a, t |-> t, there |-> b, o |-> o, l |-> l]
  BY DEF Filling
<1> HIDE DEF old
<1>2. /\ DOMAIN new = {"a", "t", "there", "o", "l"} /\ new.a = a /\ new.t = t /\ new.there = x /\ new.o = y /\ new.l = l
      /\ new = [f \in DOMAIN new |-> new[f]]
  BY <1>1
<1> HIDE DEF new
<1>3. new = [a |-> a, t |-> t, there |-> x, o |-> y, l |-> l]
  BY <1>2
<1> QED
  BY <1>3 DEF new, old, Filling, FillO

LEMMA FieldL ==
    ASSUME NEW a, NEW t, NEW b, NEW o, NEW l, NEW x
    PROVE  FillL(Filling(a, t, b, o, l), x) = Filling(a, t, b, o, x) /\ Filling(a, t, b, o, l).l = l
BY DEF Filling, FillL

LEMMA PutO ==
    ASSUME NEW before \in XmlObject, NEW inner \in Xml!Inners
    PROVE  PutIn(before, "o", inner) = [before EXCEPT !.there = TRUE, !.o = Dropped(inner)]
<1> DEFINE fresh == [Xml!NewInner EXCEPT !.a = inner.a]
<1>1. fresh = [a |-> inner.a, u |-> Xml!Unset]
  BY DEF Xml!NewInner
<1>2. Within("o") = PathO /\ Wherein("o") = PathOU
  BY DEF Within, Wherein
<1>3. Entered(before, "o", inner) = [before EXCEPT !.there = TRUE, !.o = fresh]
  BY <1>2, ElementIs DEF Entered, WithO
<1>4. CASE ~Filled(inner.u)
  <2>1. Dropped(inner) = fresh
    BY <1>1, <1>4 DEF Dropped, Filled
  <2> QED
    BY <1>3, <1>4, <2>1 DEF PutIn
<1>5. CASE Filled(inner.u)
  <2>1. <<inner.u[1]>> = inner.u /\ inner.u # <<>>
    BY <1>5, InnersAre DEF Filled
  <2>2. PutIn(before, "o", inner) = WithOU([before EXCEPT !.there = TRUE, !.o = fresh], inner.u)
    BY <1>2, <1>3, <1>5, <2>1, TextIs DEF PutIn
  <2>3. Dropped(inner) = [fresh EXCEPT !.u = inner.u]
    BY <1>1, <2>1, DroppedIs
  <2> HIDE DEF fresh
  <2>4. WithOU([before EXCEPT !.there = TRUE, !.o = fresh], inner.u) = [before EXCEPT !.there = TRUE, !.o = [fresh EXCEPT !.u = inner.u]]
    BY DEF WithOU, XmlObject
  <2> QED
    BY <2>2, <2>3, <2>4
<1> QED
  BY <1>4, <1>5

LEMMA PutL ==
    ASSUME NEW before \in XmlObject, NEW inner \in Xml!Inners
    PROVE  PutIn(before, "l", inner) = [before EXCEPT !.l = Append(@, Dropped(inner))]
<1> DEFINE fresh == [Xml!NewInner EXCEPT !.a = inner.a]
           item == Dropped(inner)
           list == before.l
           long == Append(list, fresh)
           new == Append(list, item)
           n == Len(list)
<1>1. fresh = [a |-> inner.a, u |-> Xml!Unset] /\ fresh \in XmlInner
  BY InnerIs, InnersAre
<1>2. Within("l") = PathL /\ Wherein("l") = PathLU
  BY DEF Within, Wherein
<1>3. item \in XmlInner
  BY <1>1, InnersAre DEF Dropped, XmlInner
<1>4. list \in Seq(XmlInner) /\ n \in Nat
  BY DEF XmlObject
<1>5. Entered(before, "l", inner) = [before EXCEPT !.l = long]
  BY <1>2, ElementIs DEF Entered, WithL
<1>6. [before EXCEPT !.l = Append(@, item)] = [before EXCEPT !.l = new]
  OBVIOUS
<1>7. CASE ~Filled(inner.u)
  <2>1. item = fresh
    BY <1>1, <1>7 DEF Dropped, Filled
  <2>2. long = new
    BY <2>1
  <2> HIDE DEF long, new, item
  <2> QED
    BY <1>5, <1>6, <1>7, <2>2 DEF PutIn, item
<1>8. CASE Filled(inner.u)
  <2>1. <<inner.u[1]>> = inner.u /\ inner.u # <<>>
    BY <1>8, InnersAre DEF Filled
  <2>2. item = [fresh EXCEPT !.u = inner.u]
    BY <1>1, <2>1, DroppedIs
  <2> HIDE DEF fresh, item, list
  <2>3. /\ long \in Seq(XmlInner) /\ Len(long) = n + 1 /\ long[n + 1] = fresh
        /\ \A i \in 1 .. n : long[i] = list[i]
    BY <1>1, <1>4, AppendIs
  <2>4. /\ new \in Seq(XmlInner) /\ Len(new) = n + 1 /\ new[n + 1] = item
        /\ \A i \in 1 .. n : new[i] = list[i]
    BY <1>3, <1>4, AppendIs
  <2> HIDE DEF long, new
  <2>5. PutIn(before, "l", inner) = WithLU([before EXCEPT !.l = long], inner.u)
    BY <1>2, <1>5, <1>8, <2>1, TextIs DEF PutIn
  <2> DEFINE last == Len(long)
             changed == [long EXCEPT ![last] = [long[last] EXCEPT !.u = inner.u]]
  <2>6. WithLU([before EXCEPT !.l = long], inner.u) = [before EXCEPT !.l = changed]
    BY DEF WithLU, XmlObject
  <2>7. last = n + 1 /\ n \in Nat
    BY <1>4, <2>3
  <2>8. [long[last] EXCEPT !.u = inner.u] = item
    BY <2>2, <2>3, <2>7
  <2>9. changed = [long EXCEPT ![last] = item]
    BY <2>8
  <2> HIDE DEF last, changed
  <2>10. /\ changed \in Seq(XmlInner) /\ Len(changed) = last
         /\ \A i \in 1 .. last : changed[i] = IF i = last THEN item ELSE long[i]
    BY <1>3, <2>3, <2>7, <2>9
  <2>11. \A i \in 1 .. last : changed[i] = new[i]
    BY <2>3, <2>4, <2>7, <2>10
  <2>12. changed = new
    BY <2>4, <2>7, <2>10, <2>11, SameSeq
  <2> QED
    BY <1>6, <2>5, <2>6, <2>12 DEF item
<1> QED
  BY <1>7, <1>8

\* What our own document says in the end.
Returned(g) == [a |-> g.a, t |-> IF g.t = Xml!Unset THEN <<>> ELSE g.t, there |-> TRUE,
                o |-> Dropped(g.o), l |-> [n \in DOMAIN g.l |-> Dropped(g.l[n])]]

LEMMA AllReturned ==
    ASSUME NEW g \in Xml!Programs
    PROVE  AddL(g) = Returned(g)
<1> DEFINE text == IF g.t = Xml!Unset THEN <<>> ELSE g.t
           list == [n \in DOMAIN g.l |-> Dropped(g.l[n])]
           first == Dropped(g.l[1])
           second == Dropped(g.l[2])
           o == Dropped(g.o)
           yes == TRUE
           no == FALSE
<1>1. /\ g.o \in Xml!Inners /\ (Len(g.l) > 0 => g.l[1] \in Xml!Inners) /\ (Len(g.l) > 1 => g.l[2] \in Xml!Inners)
      /\ g.l \in Seq(Xml!Inners) /\ Len(g.l) \in 0 .. 2
      /\ (Filled(g.t) => g.t = <<"x">>) /\ (~Filled(g.t) => g.t \in {Xml!Unset, <<>>})
  BY ProgramsAre
<1>2. AddR(g) \in XmlObject /\ AddT(g) \in XmlObject /\ AddO(g) \in XmlObject /\ AddK(g) \in XmlObject
  BY AddsAre
<1>3. AddR(g) = Filling(g.a, Xml!Unset, no, Xml!NewInner, <<>>)
  <2>1. AddR(g) = WithA(Xml!NewObject, g.a)
    BY ElementIs DEF AddR
  <2> QED
    BY <2>1 DEF WithA, Xml!NewObject, Filling, no
<1>4. AddT(g) = WithT(AddR(g), text)
  <2>1. CASE Filled(g.t)
    <3>1. <<g.t[1]>> = g.t /\ g.t # Xml!Unset
      BY <1>1, <2>1 DEF Xml!Unset
    <3> QED
      BY <2>1, <3>1, TextIs DEF AddT
  <2>2. CASE ~Filled(g.t)
    <3>1. text = <<>>
      BY <1>1, <2>2
    <3> QED
      BY <2>2, <3>1, TextIs DEF AddT, EmptyT
  <2> QED
    BY <2>1, <2>2
<1> HIDE DEF text, yes, no
<1>5. AddT(g) = Filling(g.a, text, no, Xml!NewInner, <<>>)
  BY <1>3, <1>4, FieldT
<1>6. AddO(g) = Filling(g.a, text, yes, o, <<>>)
  <2>1. AddO(g) = FillO(AddT(g), yes, o)
    BY <1>1, <1>2, PutO DEF AddO, FillO, yes
  <2> HIDE DEF o
  <2> QED
    BY <1>5, <2>1, FieldO
<1>f. /\ AddO(g).l = <<>>
      /\ \A l : FillL(AddO(g), l) = Filling(g.a, text, yes, o, l)
  <2> DEFINE none == <<>>
  <2>1. AddO(g) = Filling(g.a, text, yes, o, none)
    BY <1>6
  <2> HIDE DEF none, o
  <2>2. AddO(g).l = none /\ \A l : FillL(AddO(g), l) = Filling(g.a, text, yes, o, l)
    BY <2>1, FieldL
  <2> QED
    BY <2>2 DEF none
<1>7. Len(g.l) > 0 => AddK(g) = FillL(AddO(g), Append(AddO(g).l, first))
  BY <1>1, <1>2, PutL DEF AddK, FillL
<1>8. Len(g.l) > 1 => AddL(g) = FillL(AddK(g), Append(AddK(g).l, second))
  BY <1>1, <1>2, PutL DEF AddL, FillL
<1>9. /\ Len(g.l) > 0 => first \in XmlInner
      /\ Len(g.l) > 1 => second \in XmlInner
  BY <1>1, DroppedIs
<1>10. /\ list \in Seq(XmlInner) /\ Len(list) = Len(g.l)
       /\ Len(g.l) > 0 => list[1] = first
       /\ Len(g.l) > 1 => list[2] = second
  <2>1. DOMAIN g.l = 1 .. Len(g.l) /\ Len(g.l) \in Nat /\ \A i \in 1 .. Len(g.l) : g.l[i] \in Xml!Inners
    BY <1>1
  <2>2. \A i \in 1 .. Len(g.l) : Dropped(g.l[i]) \in XmlInner
    BY <2>1, DroppedIs
  <2>3. list = [i \in 1 .. Len(g.l) |-> Dropped(g.l[i])]
    BY <2>1
  <2> DEFINE n == Len(g.l)
  <2> HIDE DEF list, n
  <2>4. list \in Seq(XmlInner) /\ Len(list) = n
    BY <2>1, <2>2, <2>3 DEF n
  <2>5. /\ Len(g.l) > 0 => list[1] = first
        /\ Len(g.l) > 1 => list[2] = second
    BY <2>1, <2>3
  <2> QED
    BY <2>4, <2>5 DEF n
<1> HIDE DEF first, second, list, o
<1>11. AddL(g) = Filling(g.a, text, yes, o, list)
  <2>1. CASE Len(g.l) = 0
    <3>1. AddL(g) = AddO(g)
      BY <2>1 DEF AddL, AddK
    <3>2. list = <<>>
      BY <1>10, <2>1
    <3> QED
      BY <1>6, <3>1, <3>2
  <2>2. CASE Len(g.l) = 1
    <3>1. AddL(g) = Filling(g.a, text, yes, o, Append(<<>>, first))
      <4>1. AddL(g) = AddK(g) /\ AddK(g) = FillL(AddO(g), Append(AddO(g).l, first))
        BY <1>7, <2>2 DEF AddL
      <4> QED
        BY <1>f, <4>1
    <3>2. Append(<<>>, first) = <<first>>
      BY <1>9, <2>2, ShortSeqs
    <3> DEFINE one == <<first>>
    <3>3. one \in Seq(XmlInner) /\ Len(one) = 1 /\ one[1] = first
      BY <1>9, <2>2
    <3> HIDE DEF one
    <3>4. Len(list) = Len(one) /\ \A i \in 1 .. Len(list) : list[i] = one[i]
      BY <1>10, <2>2, <3>3
    <3>5. list = one
      BY <1>10, <3>3, <3>4, SameSeq
    <3> QED
      BY <3>1, <3>2, <3>5 DEF one
  <2>3. CASE Len(g.l) = 2
    <3>0. first \in XmlInner /\ second \in XmlInner /\ Len(g.l) > 0 /\ Len(g.l) > 1
      BY <1>9, <2>3
    <3>2. Append(<<>>, first) = <<first>> /\ Append(<<first>>, second) = <<first, second>>
      BY <3>0, ShortSeqs
    <3>a. AddK(g) = FillL(AddO(g), Append(AddO(g).l, first))
      BY <1>7, <3>0
    <3>b. AddL(g) = FillL(AddK(g), Append(AddK(g).l, second))
      BY <1>8, <3>0
    <3>c. AddK(g) = Filling(g.a, text, yes, o, Append(<<>>, first))
      BY <1>f, <3>a
    <3>1. AddL(g) = Filling(g.a, text, yes, o, Append(Append(<<>>, first), second))
      BY <3>b, <3>c, FieldL
    <3> DEFINE two == <<first, second>>
    <3>3. two \in Seq(XmlInner) /\ Len(two) = 2 /\ two[1] = first /\ two[2] = second
      BY <1>9, <2>3
    <3> HIDE DEF two
    <3>4. Len(list) = Len(two) /\ \A i \in 1 .. Len(list) : list[i] = two[i]
      BY <1>10, <2>3, <3>3
    <3>5. list = two
      BY <1>10, <3>3, <3>4, SameSeq
    <3> QED
      BY <3>1, <3>2, <3>5 DEF two
  <2>4. Len(g.l) \in 0 .. 2
    BY <1>1
  <2> QED
    BY <2>1, <2>2, <2>3, <2>4
<1> QED
  BY <1>11 DEF Returned, Filling, text, o, list, yes

\* Our own document is read as it was written.
XmlNow == [open |-> place.open, todo |-> place.todo, says |-> history.written]
XmlOwn == history.own => ~history.odd /\ ~history.stray /\ history.given \in Xml!Programs /\ XmlPhase(XmlNow, history.given)
XmlInv == XmlSafe /\ XmlOwn

LEMMA ComingIs ==
    ASSUME XmlSafe, NEW e \in Xml!Coming
    PROVE  e \in XmlEvents /\ (history.own => place.todo # <<>> /\ e = Head(place.todo))
<1>1. place.todo \in Seq(XmlEvents) /\ history.own \in BOOLEAN
  BY DEF XmlSafe, XmlTypes, XmlServers
<1>2. CASE history.own
  <2>1. place.todo # <<>> /\ e = Head(place.todo)
    BY <1>2 DEF Xml!Coming
  <2> QED
    BY <1>1, <2>1
<1>3. CASE ~history.own
  <2>1. \/ e \in {Xml!Start("r", "unset"), Xml!Start("r", "v")} \cup {Xml!Start(n, "unset") : n \in {"t", "o", "l", "u", "x"}}
        \/ e \in {Xml!Start(n, "v") : n \in {"t", "l"}}
        \/ e \in {Xml!Text(c) : c \in Xml!Chunks} \cup {Xml!End}
    BY <1>3 DEF Xml!Coming
  <2>2. \A n \in {"r", "t", "o", "l", "u", "x"} : Xml!Start(n, "unset") \in XmlEvents /\ Xml!Start(n, "v") \in XmlEvents
    BY DEF Xml!Start, XmlEvents, XmlNames
  <2>3. Xml!End \in XmlEvents /\ \A c \in Xml!Chunks : Xml!Text(c) \in XmlEvents
    BY DEF Xml!Text, Xml!End, Xml!Chunks, XmlEvents, XmlNames
  <2>4. e \in {Xml!Start("r", "unset"), Xml!Start("r", "v")} \cup {Xml!Start(n, "unset") : n \in {"t", "o", "l", "u", "x"}} => e \in XmlEvents
    BY <2>2
  <2>5. e \in {Xml!Start(n, "v") : n \in {"t", "l"}} => e \in XmlEvents
    BY <2>2
  <2>6. e \in {Xml!Text(c) : c \in Xml!Chunks} \cup {Xml!End} => e \in XmlEvents
    BY <2>3
  <2> QED
    BY <1>3, <2>1, <2>4, <2>5, <2>6
<1> QED
  BY <1>1, <1>2, <1>3

LEMMA XmlStep ==
    ASSUME XmlInv, Xml!Next
    PROVE  XmlInv'
<1>1. PICK e \in Xml!Coming : Xml!StartElement(e) \/ Xml!Characters(e) \/ Xml!EndElement(e)
  BY DEF Xml!Next
<1>2. e \in XmlEvents /\ (history.own => place.todo # <<>> /\ e = Head(place.todo))
  BY ComingIs DEF XmlInv
<1>3. XmlSafe'
  BY <1>1, <1>2, XmlStart, XmlText, XmlEnd DEF XmlInv
<1>4. actor.path = place.open /\ history = [own |-> history.own, given |-> history.given, written |-> history.written, odd |-> history.odd, stray |-> history.stray]
  BY DEF XmlInv, XmlSafe, XmlPlace, XmlTypes
<1>5. XmlOwn'
  <2>1. history'.own = history.own /\ history'.given = history.given
    BY <1>1, <1>4 DEF Xml!StartElement, Xml!Characters, Xml!EndElement, Xml!Read
  <2> SUFFICES ASSUME history.own
               PROVE  ~history'.odd /\ ~history'.stray /\ XmlPhase(XmlNow', history.given)
    BY <2>1 DEF XmlInv, XmlOwn
  <2>2. ~history.odd /\ ~history.stray /\ history.given \in Xml!Programs /\ XmlPhase(XmlNow, history.given)
    BY DEF XmlInv, XmlOwn
  <2>3. /\ XmlNow.open = place.open /\ XmlNow.todo = place.todo /\ XmlNow.says = history.written
        /\ XmlNow'.open = place'.open /\ XmlNow'.todo = place'.todo /\ XmlNow'.says = history'.written
        /\ place.todo # <<>> /\ Head(place.todo) = e
    BY <1>2 DEF XmlNow
  <2>4. /\ place'.todo = Tail(place.todo) /\ place'.open = Opens(e, place.open)
        /\ Expected(e, place.open) => /\ history'.written = Says(e, place.open, history.written)
                                       /\ history'.odd = history.odd /\ history'.stray = history.stray
    <3>1. CASE Xml!StartElement(e)
      <4>1. /\ e.what = "start"
            /\ Xml!Read(e, Append(place.open, e.name), Xml!WithElement(history.written, Append(place.open, e.name), e.a),
                    history.odd \/ place.open \in Xml!Texts, history.stray \/ (Append(place.open, e.name) \in Xml!Texts /\ e.a # "unset"))
        BY <1>4, <3>1 DEF Xml!StartElement
      <4>2. history.odd \in BOOLEAN /\ history.stray \in BOOLEAN
        BY <2>2 DEF XmlInv, XmlSafe, XmlTypes
      <4> QED
        BY <1>4, <2>2, <4>1, <4>2 DEF Xml!Read, Opens, Expected, Says
    <3>2. CASE Xml!Characters(e)
      <4>1. e.what = "text"
        BY <3>2 DEF Xml!Characters
      <4>2. CASE place.open \in Xml!Texts
        <5>1. Xml!Read(e, place.open, Xml!SetText(history.written, place.open, Append(Xml!TextAt(history.written, place.open), e.name)),
                   history.odd, history.stray)
          BY <3>2, <4>2 DEF Xml!Characters
        <5> QED
          BY <1>4, <4>1, <4>2, <5>1 DEF Xml!Read, Opens, Says
      <4>3. CASE place.open \notin Xml!Texts
        <5>1. Xml!Read(e, place.open, history.written, history.odd, history.stray \/ e.name # " ")
          BY <3>2, <4>3 DEF Xml!Characters
        <5> QED
          BY <4>1, <4>3, <5>1 DEF Xml!Read, Opens, Expected
      <4> QED
        BY <4>2, <4>3
    <3>3. CASE Xml!EndElement(e)
      <4>1. e.what = "end" /\ Xml!Read(e, SubSeq(place.open, 1, Len(place.open) - 1), history.written, history.odd, history.stray)
        BY <3>3 DEF Xml!EndElement
      <4> QED
        BY <1>4, <4>1 DEF Xml!Read, Opens, Says
    <3> QED
      BY <1>1, <3>1, <3>2, <3>3
  <2>5. XmlReads(XmlNow, XmlNow')
    BY <2>3, <2>4 DEF XmlReads
  <2>6. XmlClean(XmlNow) /\ XmlPhase(XmlNow', history.given)
    BY <2>2, <2>5, XmlSteps
  <2>7. Expected(e, place.open)
    BY <2>3, <2>6 DEF XmlClean
  <2> QED
    BY <2>2, <2>4, <2>6, <2>7
<1> QED
  BY <1>3, <1>5 DEF XmlInv

LEMMA XmlFresh ==
    ASSUME XmlTypes, actor = [path |-> <<>>, handler |-> Xml!NoPath, buffer |-> <<>>, bound |-> 0, obj |-> Xml!NewObject, raised |-> FALSE],
           place.open = <<>>, history.written = Xml!NewObject, Xml!NewObject.l = <<>>
    PROVE  XmlSafe
<1>1. XmlPlace
  BY Paths DEF XmlPlace, InList, Xml!NoPath, PathLU
<1>2. Xml!Stored = Xml!NewObject
  <2>1. Xml!Stored = Xml!SetText(actor.obj, actor.handler, actor.buffer)
    BY <1>1, StoredIs
  <2> QED
    BY <2>1, NoText, Paths
<1>3. XmlSame
  BY <1>2, Paths DEF XmlSame, Xml!NoPath
<1> QED
  BY <1>1, <1>3 DEF XmlSafe

\* Only the last phase has nothing to come.
LEMMA XmlEnds ==
    ASSUME NEW g \in Xml!Programs, NEW at, XmlPhase(at, g), at.todo = <<>>
    PROVE  at.says = AddL(g)
<1>1. \A e \in XmlEvents : \A rest \in Seq(XmlEvents) : Cons(e, rest) # <<>>
  BY ConsIs
<1>2. /\ RestL \in Seq(XmlEvents) /\ RestK(g) \in Seq(XmlEvents) /\ RestO(g) \in Seq(XmlEvents)
      /\ RestT(g) \in Seq(XmlEvents) /\ RestR(g) \in Seq(XmlEvents) /\ Cons(Xml!End, RestT(g)) \in Seq(XmlEvents)
  BY RestsAre
<1>3. g.o \in Xml!Inners /\ (Len(g.l) > 0 => g.l[1] \in Xml!Inners) /\ (Len(g.l) > 1 => g.l[2] \in Xml!Inners)
      /\ g.a \in {"unset", "v"} /\ (Filled(g.t) => g.t[1] \in XmlNames)
  BY ProgramsAre
<1>4. Xml!End \in XmlEvents /\ \A n \in XmlNames : \A a \in {"unset", "v"} : Xml!Start(n, a) \in XmlEvents /\ Xml!Text(n) \in XmlEvents
  BY DEF XmlEvents, Xml!End, Xml!Start, Xml!Text, XmlNames
<1>5. "t" \in XmlNames /\ "o" \in XmlNames /\ "l" \in XmlNames /\ "r" \in XmlNames /\ "u" \in XmlNames
  BY DEF XmlNames
<1>6. ASSUME NEW inner \in Xml!Inners, NEW rest \in Seq(XmlEvents), NEW name \in XmlNames
      PROVE  InnerTail(name, inner, rest) # <<>> /\ InnerRest(inner, rest) # <<>>
  <2>1. InnerRest(inner, rest) \in Seq(XmlEvents) /\ Xml!Start(name, inner.a) \in XmlEvents
    BY <1>4, InnerTailIs, InnersAre
  <2>2. InnerTail(name, inner, rest) # <<>>
    BY <1>1, <2>1 DEF InnerTail
  <2>3. Cons(Xml!End, rest) # <<>> /\ Cons(Xml!End, rest) \in Seq(XmlEvents)
    BY <1>1, <1>4, ConsIs
  <2>4. CASE Filled(inner.u)
    <3>1. Xml!Text(inner.u[1]) \in XmlEvents /\ Xml!Start("u", "unset") \in XmlEvents
      BY <1>4, <1>5, <2>4, InnersAre
    <3>2. Cons(Xml!End, Cons(Xml!End, rest)) \in Seq(XmlEvents)
      BY <1>4, <2>3, ConsIs
    <3>3. Cons(Xml!Text(inner.u[1]), Cons(Xml!End, Cons(Xml!End, rest))) \in Seq(XmlEvents)
      BY <3>1, <3>2, ConsIs
    <3>4. Cons(Xml!Start("u", "unset"), Cons(Xml!Text(inner.u[1]), Cons(Xml!End, Cons(Xml!End, rest)))) # <<>>
      BY <1>1, <3>1, <3>3
    <3> QED
      BY <2>2, <2>4, <3>4 DEF InnerRest, TextTail
  <2> QED
    BY <2>2, <2>3, <2>4 DEF InnerRest
<1>7. ASSUME NEW inner \in Xml!Inners, NEW rest \in Seq(XmlEvents), NEW name, NEW before, InnerPhase(at, name, inner, before, rest)
      PROVE  FALSE
  <2>1. Cons(Xml!End, rest) # <<>> /\ Cons(Xml!End, rest) \in Seq(XmlEvents)
    BY <1>1, <1>4, ConsIs
  <2>2. Cons(Xml!End, Cons(Xml!End, rest)) # <<>> /\ Cons(Xml!End, Cons(Xml!End, rest)) \in Seq(XmlEvents)
    BY <1>1, <1>4, <2>1, ConsIs
  <2>3. Filled(inner.u) => Cons(Xml!Text(inner.u[1]), Cons(Xml!End, Cons(Xml!End, rest))) # <<>>
    BY <1>1, <1>4, <2>2, InnersAre
  <2>4. InnerRest(inner, rest) # <<>>
    BY <1>5, <1>6
  <2> QED
    BY <1>7, <2>1, <2>2, <2>3, <2>4 DEF InnerPhase, Stands
<1>8. RestL # <<>>
  <2>1. <<>> \in Seq(XmlEvents)
    OBVIOUS
  <2> QED
    BY <1>1, <1>4, <2>1 DEF RestL
<1>9. RestK(g) # <<>>
  BY <1>2, <1>3, <1>5, <1>6, <1>8 DEF RestK
<1>10. RestO(g) # <<>>
  BY <1>2, <1>3, <1>5, <1>6, <1>9 DEF RestO
<1>11. RestT(g) # <<>>
  BY <1>2, <1>3, <1>5, <1>6 DEF RestT
<1>12. ~TextPhase(at, g)
  BY <1>1, <1>2, <1>3, <1>4 DEF TextPhase, Stands
<1>13. RestR(g) # <<>>
  <2> DEFINE more == IF Filled(g.t) THEN Cons(Xml!Text(g.t[1]), Cons(Xml!End, RestT(g))) ELSE Cons(Xml!End, RestT(g))
  <2>1. more \in Seq(XmlEvents) /\ RestR(g) = Cons(Xml!Start("t", "unset"), more)
    BY RestsAre DEF RestR, TextTail
  <2> HIDE DEF more
  <2> QED
    BY <1>1, <1>4, <1>5, <2>1
<1>14. Document(g) # <<>>
  BY <1>1, <1>2, <1>3, <1>4, <1>5 DEF Document
<1> QED
  BY <1>2, <1>3, <1>7, <1>8, <1>9, <1>10, <1>11, <1>12, <1>13, <1>14 DEF XmlPhase, Stands

Fallen(inner) == [inner EXCEPT !.u = IF @ = <<>> THEN Xml!Unset ELSE @]
Back(g) == [g EXCEPT !.t = IF @ = Xml!Unset THEN <<>> ELSE @, !.there = TRUE,
                     !.o = Fallen(@), !.l = [n \in DOMAIN @ |-> Fallen(@[n])]]

LEMMA ReturnedIs ==
    ASSUME NEW g \in Xml!Programs
    PROVE  Returned(g) = Back(g)
<1>1. ASSUME NEW inner \in Xml!Inners PROVE Fallen(inner) = Dropped(inner)
  <2>1. inner = [a |-> inner.a, u |-> inner.u]
    BY DEF Xml!Inners
  <2> DEFINE x == IF inner.u = <<>> THEN Xml!Unset ELSE inner.u
             a == inner.a
             u == inner.u
  <2>2. Fallen(inner) = [[a |-> a, u |-> u] EXCEPT !.u = x] /\ Dropped(inner) = [a |-> a, u |-> x]
    BY <2>1 DEF Fallen, Dropped
  <2> HIDE DEF x, a, u
  <2>3. [[a |-> a, u |-> u] EXCEPT !.u = x] = [a |-> a, u |-> x]
    OBVIOUS
  <2> QED
    BY <2>2, <2>3
<1>2. g.l \in Seq(Xml!Inners) /\ g.o \in Xml!Inners /\ g = [a |-> g.a, t |-> g.t, there |-> g.there, o |-> g.o, l |-> g.l]
  BY ProgramsAre DEF Xml!Programs
<1>3. \A n \in DOMAIN g.l : g.l[n] \in Xml!Inners
  BY <1>2
<1> DEFINE list == [n \in DOMAIN g.l |-> Dropped(g.l[n])]
           other == [n \in DOMAIN g.l |-> Fallen(g.l[n])]
           text == IF g.t = Xml!Unset THEN <<>> ELSE g.t
           o == Dropped(g.o)
           p == Fallen(g.o)
<1>4. list = other /\ o = p
  BY <1>1, <1>2, <1>3
<1>5. /\ Returned(g) = [a |-> g.a, t |-> text, there |-> TRUE, o |-> o, l |-> list]
      /\ Back(g) = [g EXCEPT !.t = text, !.there = TRUE, !.o = p, !.l = other]
  BY DEF Returned, Back
<1> HIDE DEF list, other, text, o, p
<1>6. [g EXCEPT !.t = text, !.there = TRUE, !.o = p, !.l = other] = [a |-> g.a, t |-> text, there |-> TRUE, o |-> p, l |-> other]
  <2> DEFINE new == [g EXCEPT !.t = text, !.there = TRUE, !.o = p, !.l = other]
  <2>1. DOMAIN g = {"a", "t", "there", "o", "l"}
    BY <1>2
  <2>2. /\ DOMAIN new = {"a", "t", "there", "o", "l"} /\ new = [f \in DOMAIN new |-> new[f]]
        /\ new.a = g.a /\ new.t = text /\ new.there = TRUE /\ new.o = p /\ new.l = other
    BY <2>1
  <2> HIDE DEF new
  <2>3. new = [a |-> g.a, t |-> text, there |-> TRUE, o |-> p, l |-> other]
    BY <2>2
  <2> QED
    BY <2>3 DEF new
<1> QED
  BY <1>4, <1>5, <1>6

LEMMA XmlFirst ==
    ASSUME Xml!Init
    PROVE  XmlInv
<1>1. actor = [path |-> <<>>, handler |-> Xml!NoPath, buffer |-> <<>>, bound |-> 0, obj |-> Xml!NewObject, raised |-> FALSE]
  BY DEF Xml!Init
<1>2. Xml!NewObject \in XmlObject /\ Xml!NewObject.l = <<>>
  BY DEF Xml!NewObject, XmlObject, Xml!NewInner, XmlInner, Xml!Unset, Texted, XmlNames
<1>3. actor \in XmlActors
  BY <1>1, <1>2 DEF XmlActors, Texted
<1>4. CASE /\ place = [open |-> <<>>, todo |-> <<>>, left |-> MaxEvents]
           /\ history = [own |-> FALSE, given |-> Xml!NewObject, written |-> Xml!NewObject, odd |-> FALSE, stray |-> FALSE]
  <2>1. XmlTypes
    BY <1>2, <1>3, <1>4, BoundsAssumption DEF XmlTypes, XmlServers
  <2> QED
    BY <1>1, <1>2, <1>4, <2>1, XmlFresh DEF XmlInv, XmlOwn
<1>5. CASE \E obj \in Xml!Programs :
             /\ place = [open |-> <<>>, todo |-> Xml!Serialize(obj), left |-> 0]
             /\ history = [own |-> TRUE, given |-> obj, written |-> Xml!NewObject, odd |-> FALSE, stray |-> FALSE]
  <2>1. PICK g \in Xml!Programs :
             /\ place = [open |-> <<>>, todo |-> Xml!Serialize(g), left |-> 0]
             /\ history = [own |-> TRUE, given |-> g, written |-> Xml!NewObject, odd |-> FALSE, stray |-> FALSE]
    BY <1>5
  <2>2. Xml!Serialize(g) = Document(g) /\ Document(g) \in Seq(XmlEvents) /\ g \in XmlObject
    BY SerializeIs, RestsAre, ProgramsAre
  <2>3. XmlTypes
    BY <1>2, <1>3, <2>1, <2>2, BoundsAssumption DEF XmlTypes, XmlServers
  <2>4. XmlPhase(XmlNow, g)
    BY <2>1, <2>2 DEF XmlPhase, XmlNow, Stands, Xml!NoPath
  <2> QED
    BY <1>1, <1>2, <2>1, <2>3, <2>4, XmlFresh DEF XmlInv, XmlOwn
<1> QED
  BY <1>4, <1>5 DEF Xml!Init

LEMMA XmlGood ==
    ASSUME XmlInv
    PROVE  Xml!MappingIsFaithful
<1>1. Xml!RejectedOnlyIfStray
  BY DEF Xml!RejectedOnlyIfStray, XmlInv, XmlSafe, XmlPlace
<1>2. ASSUME actor.path = <<>>, ~history.odd PROVE actor.obj = history.written
  <2>1. actor.handler \notin Xml!Texts
    BY <1>2, Paths DEF XmlInv, XmlSafe, XmlSame, Xml!NoPath
  <2>2. Xml!Stored = Xml!SetText(actor.obj, actor.handler, actor.buffer)
    BY StoredIs DEF XmlInv, XmlSafe
  <2> QED
    BY <1>2, <2>1, <2>2, NoText DEF XmlInv, XmlSafe, XmlSame
<1>3. Xml!ParsedAsWritten
  BY <1>2 DEF Xml!ParsedAsWritten, Xml!AtEnd
<1>4. Xml!RoundTrip
  <2> SUFFICES ASSUME history.own
               PROVE  /\ ~actor.raised
                      /\ Xml!AtEnd => actor.obj = Returned(history.given)
    <3>1. history.own => history.given \in Xml!Programs
      BY DEF XmlInv, XmlOwn
    <3>2. history.own => Returned(history.given) = Back(history.given)
      BY <3>1, ReturnedIs
    <3> QED
      BY <3>2 DEF Xml!RoundTrip, Back, Fallen
  <2>1. ~history.odd /\ ~history.stray /\ history.given \in Xml!Programs /\ XmlPhase(XmlNow, history.given)
    BY DEF XmlInv, XmlOwn
  <2>2. Xml!AtEnd => history.written = AddL(history.given)
    BY <2>1, XmlEnds DEF Xml!AtEnd, XmlNow
  <2> QED
    BY <1>2, <2>1, <2>2, AllReturned DEF Xml!AtEnd, XmlInv, XmlSafe, XmlPlace
<1> QED
  BY <1>1, <1>3, <1>4 DEF Xml!MappingIsFaithful

XmlPart == part = "xml" => XmlInv

LEMMA XmlStutters ==
    ASSUME XmlInv, UNCHANGED small
    PROVE  XmlInv'
<1>1. actor' = actor /\ place' = place /\ history' = history
  BY DEF small
<1>2. XmlNow' = XmlNow
  BY <1>1 DEF XmlNow
<1>3. XmlTypes'
  BY <1>1 DEF XmlInv, XmlSafe, XmlTypes
<1>4. XmlSafe'
  BY <1>1, <1>3 DEF XmlInv, XmlSafe, XmlPlace, XmlSame, Xml!Stored
<1>5. XmlOwn'
  BY <1>1, <1>2 DEF XmlInv, XmlOwn
<1> QED
  BY <1>1, <1>3, <1>4, <1>5 DEF XmlInv

LEMMA XmlAlways == CommandsSpec => []XmlPart
<1> USE DEF XmlPart
<1>1. CommandsInit => XmlPart
  BY SmallInit, XmlFirst
<1>2. ASSUME XmlPart, [CommandsNext]_all
      PROVE  XmlPart'
  <2>1. CASE UNCHANGED small
    <3>1. XmlInv => XmlInv'
      BY <2>1, XmlStutters
    <3> QED
      BY <1>2, <3>1, SmallStep
  <2>2. CASE Xml!Next
    <3>1. XmlInv => XmlInv'
      BY <2>2, XmlStep
    <3> QED
      BY <1>2, <3>1, SmallStep
  <2> QED
    BY <1>2, <2>1, <2>2, SmallStep
<1> QED
  BY <1>1, <1>2, PTL DEF CommandsSpec

\* What the parser makes of a document is what the document says, however its
\* elements repeat, nest and mix with unknown ones; only text or attributes out of
\* place make it give up; and what serialize() wrote comes back.
THEOREM XmlSaysTheSame == CommandsSpec => []MappingIsFaithful
<1>1. XmlPart => MappingIsFaithful
  BY XmlGood DEF XmlPart, MappingIsFaithful
<1> QED
  BY <1>1, XmlAlways, PTL
-----------------------------------------------------------------------------
(***************************************************************************)
(* The types of the parts. Of what the document says only the fields are   *)
(* known when a text has an element in it.                                 *)
(***************************************************************************)
XmlFields == DOMAIN history.written = DOMAIN Xml!NewObject
XmlNamed == {e \in XmlEvents : e.what = "start" => e.name \in Xml!Names}
XmlKnown ==
    /\ XmlFields
    /\ actor.path \in Seq(Xml!Names)
    /\ place.todo \in Seq(XmlNamed)

LEMMA NamedAre ==
    /\ Xml!End \in XmlNamed
    /\ \A name \in Xml!Names, a \in {"unset", "v"} : Xml!Start(name, a) \in XmlNamed
    /\ \A chunk \in XmlNames : Xml!Text(chunk) \in XmlNamed
<1>1. Xml!Names \subseteq XmlNames
  BY DEF Xml!Names, XmlNames
<1>2. Xml!End \in XmlNamed
  BY DEF XmlNamed, Xml!End, XmlEvents, XmlNames
<1>3. ASSUME NEW name \in Xml!Names, NEW a \in {"unset", "v"} PROVE Xml!Start(name, a) \in XmlNamed
  BY <1>1 DEF XmlNamed, Xml!Start, XmlEvents
<1>4. ASSUME NEW chunk \in XmlNames PROVE Xml!Text(chunk) \in XmlNamed
  BY DEF XmlNamed, Xml!Text, XmlEvents
<1> QED
  BY <1>2, <1>3, <1>4

LEMMA NamedCons ==
    ASSUME NEW e \in XmlNamed, NEW rest \in Seq(XmlNamed)
    PROVE  Cons(e, rest) \in Seq(XmlNamed)
BY DEF Cons

LEMMA NamedInner ==
    ASSUME NEW inner \in Xml!Inners, NEW rest \in Seq(XmlNamed), NEW name \in Xml!Names
    PROVE  InnerTail(name, inner, rest) \in Seq(XmlNamed)
<1> DEFINE one == Cons(Xml!End, rest)
           two == Cons(Xml!End, one)
           three == Cons(Xml!Text(inner.u[1]), two)
<1>1. Xml!End \in XmlNamed /\ Xml!Start(name, inner.a) \in XmlNamed /\ Xml!Start("u", "unset") \in XmlNamed
  BY InnersAre, NamedAre DEF Xml!Names
<1>2. Filled(inner.u) => Xml!Text(inner.u[1]) \in XmlNamed
  BY InnersAre, NamedAre
<1>3. one \in Seq(XmlNamed)
  BY <1>1, NamedCons
<1>4. two \in Seq(XmlNamed)
  BY <1>1, <1>3, NamedCons
<1>5. Filled(inner.u) => three \in Seq(XmlNamed)
  BY <1>2, <1>4, NamedCons
<1>6. InnerRest(inner, rest) = IF Filled(inner.u) THEN Cons(Xml!Start("u", "unset"), three) ELSE one
  BY DEF InnerRest, TextTail
<1> HIDE DEF one, two, three
<1>7. Filled(inner.u) => Cons(Xml!Start("u", "unset"), three) \in Seq(XmlNamed)
  BY <1>1, <1>5, NamedCons
<1>8. InnerRest(inner, rest) \in Seq(XmlNamed)
  BY <1>3, <1>6, <1>7
<1> QED
  BY <1>1, <1>8, NamedCons DEF InnerTail

LEMMA NamedDocument ==
    ASSUME NEW g \in Xml!Programs
    PROVE  Document(g) \in Seq(XmlNamed)
<1>1. /\ g.o \in Xml!Inners /\ (Len(g.l) > 0 => g.l[1] \in Xml!Inners) /\ (Len(g.l) > 1 => g.l[2] \in Xml!Inners)
      /\ g.a \in {"unset", "v"} /\ (Filled(g.t) => g.t[1] \in XmlNames)
  BY ProgramsAre
<1>2. {"r", "t", "o", "l"} \subseteq Xml!Names
  BY DEF Xml!Names
<1>3. Xml!End \in XmlNamed /\ Xml!Start("r", g.a) \in XmlNamed /\ Xml!Start("t", "unset") \in XmlNamed
  BY <1>1, <1>2, NamedAre
<1>4. Filled(g.t) => Xml!Text(g.t[1]) \in XmlNamed
  BY <1>1, NamedAre
<1>5. RestL \in Seq(XmlNamed)
  <2>1. <<>> \in Seq(XmlNamed)
    OBVIOUS
  <2> QED
    BY <1>3, <2>1, NamedCons DEF RestL
<1>6. RestK(g) \in Seq(XmlNamed)
  BY <1>1, <1>2, <1>5, NamedInner DEF RestK
<1>7. RestO(g) \in Seq(XmlNamed)
  BY <1>1, <1>2, <1>6, NamedInner DEF RestO
<1>8. RestT(g) \in Seq(XmlNamed)
  BY <1>1, <1>2, <1>7, NamedInner DEF RestT
<1> DEFINE last == Cons(Xml!End, RestT(g))
           text == Cons(Xml!Text(g.t[1]), last)
           more == IF Filled(g.t) THEN text ELSE last
<1>9. RestR(g) = Cons(Xml!Start("t", "unset"), more)
  BY DEF RestR, TextTail
<1>10. last \in Seq(XmlNamed)
  BY <1>3, <1>8, NamedCons
<1>11. Filled(g.t) => text \in Seq(XmlNamed)
  BY <1>4, <1>10, NamedCons
<1>12. more \in Seq(XmlNamed)
  BY <1>10, <1>11
<1> HIDE DEF more
<1>13. RestR(g) \in Seq(XmlNamed)
  BY <1>3, <1>9, <1>12, NamedCons
<1> QED
  BY <1>3, <1>13, NamedCons DEF Document

LEMMA KnownFirst == ASSUME Xml!Init PROVE XmlKnown
<1>1. actor.path = <<>> /\ history.written = Xml!NewObject
  BY DEF Xml!Init
<1>2. place.todo = <<>> \/ \E g \in Xml!Programs : place.todo = Xml!Serialize(g)
  BY DEF Xml!Init
<1>3. place.todo \in Seq(XmlNamed)
  <2>1. <<>> \in Seq(XmlNamed)
    OBVIOUS
  <2>2. ASSUME NEW g \in Xml!Programs PROVE Xml!Serialize(g) \in Seq(XmlNamed)
    <3>1. Xml!Serialize(g) = Document(g)
      BY SerializeIs
    <3> QED
      BY <3>1, NamedDocument
  <2> QED
    BY <1>2, <2>1, <2>2
<1> QED
  BY <1>1, <1>3 DEF XmlKnown, XmlFields

LEMMA FieldsStay ==
    ASSUME NEW obj, NEW path, NEW text, NEW a
    PROVE  /\ DOMAIN Xml!SetText(obj, path, text) = DOMAIN obj
           /\ DOMAIN Xml!WithElement(obj, path, a) = DOMAIN obj
<1>1. ASSUME NEW txt PROVE DOMAIN Xml!SetText(obj, path, txt) = DOMAIN obj
  <2>1. DOMAIN WithT(obj, txt) = DOMAIN obj /\ DOMAIN WithOU(obj, txt) = DOMAIN obj /\ DOMAIN WithLU(obj, txt) = DOMAIN obj
    BY DEF WithT, WithOU, WithLU
  <2>2. CASE path \in {PathT, PathOU, PathLU}
    BY <2>1, <2>2, TextIs
  <2>3. CASE path \notin Xml!Texts
    BY <2>3, TextIs
  <2> QED
    BY <2>2, <2>3, Paths
<1>2. DOMAIN WithA(obj, a) = DOMAIN obj /\ DOMAIN WithO(obj, a) = DOMAIN obj /\ DOMAIN WithL(obj, a) = DOMAIN obj
  BY DEF WithA, WithO, WithL
<1> QED
  BY <1>1, <1>2, ElementIs, Paths

LEMMA ComingNamed ==
    ASSUME XmlInv, XmlKnown, NEW e \in Xml!Coming
    PROVE  e \in XmlNamed
<1>1. CASE history.own
  <2>1. place.todo # <<>> /\ e = Head(place.todo)
    BY <1>1 DEF Xml!Coming
  <2> QED
    BY <2>1 DEF XmlKnown
<1>2. CASE ~history.own
  <2>1. {"r", "t", "o", "l", "u", "x"} = Xml!Names /\ Xml!Chunks \subseteq XmlNames
    BY DEF Xml!Names, Xml!Chunks, XmlNames
  <2>2. \/ \E n \in Xml!Names, a \in {"unset", "v"} : e = Xml!Start(n, a)
        \/ \E c \in Xml!Chunks : e = Xml!Text(c)
        \/ e = Xml!End
    BY <1>2, <2>1 DEF Xml!Coming
  <2> QED
    BY <2>1, <2>2, NamedAre
<1> QED
  BY <1>1, <1>2

LEMMA KnownKept ==
    ASSUME XmlInv, XmlKnown, Xml!Next
    PROVE  XmlKnown'
<1>1. PICK e \in Xml!Coming : Xml!StartElement(e) \/ Xml!Characters(e) \/ Xml!EndElement(e)
  BY DEF Xml!Next
<1>2. /\ actor \in XmlActors /\ actor.path \in Seq(Xml!Names)
      /\ history \in [own: BOOLEAN, given: XmlObject, written: {history.written}, odd: BOOLEAN, stray: BOOLEAN]
      /\ history.own => place.todo # <<>>
  BY <1>1, ComingIs DEF XmlInv, XmlSafe, XmlTypes, XmlKnown
<1>3. ASSUME NEW open, NEW says, NEW odd, NEW stray, Xml!Read(e, open, says, odd, stray)
      PROVE  history'.written = says /\ place'.todo = IF history.own THEN Tail(place.todo) ELSE <<>>
  BY <1>2, <1>3 DEF Xml!Read
<1>4. e \in XmlNamed
  BY ComingNamed
<1>5. place'.todo \in Seq(XmlNamed)
  <2>1. place'.todo = IF history.own THEN Tail(place.todo) ELSE <<>>
    BY <1>1, <1>3 DEF Xml!StartElement, Xml!Characters, Xml!EndElement
  <2> QED
    BY <1>2, <2>1 DEF XmlKnown
<1>6. CASE Xml!StartElement(e)
  <2>1. history'.written = Xml!WithElement(history.written, Append(actor.path, e.name), e.a)
    BY <1>3, <1>6 DEF Xml!StartElement
  <2>2. XmlFields'
    <3>1. DOMAIN history'.written = DOMAIN history.written
      BY <2>1, FieldsStay
    <3> QED
      BY <3>1 DEF XmlKnown, XmlFields, Xml!NewObject
  <2>3. e.name \in Xml!Names
    BY <1>4, <1>6 DEF Xml!StartElement, XmlNamed
  <2>4. actor'.path = Append(actor.path, e.name)
    BY <1>2, <1>6 DEF Xml!StartElement, XmlActors
  <2> QED
    BY <1>2, <1>5, <2>2, <2>3, <2>4 DEF XmlKnown
<1>7. CASE Xml!Characters(e)
  <2> DEFINE more == Append(Xml!TextAt(history.written, place.open), e.name)
  <2>1. \/ history'.written = Xml!SetText(history.written, place.open, more)
        \/ history'.written = history.written
    BY <1>3, <1>7 DEF Xml!Characters
  <2> HIDE DEF more
  <2>2. XmlFields'
    <3>1. DOMAIN history'.written = DOMAIN history.written
      BY <2>1, FieldsStay
    <3> QED
      BY <3>1 DEF XmlKnown, XmlFields, Xml!NewObject
  <2>3. actor'.path = actor.path
    BY <1>2, <1>7 DEF Xml!Characters, XmlActors
  <2> QED
    BY <1>2, <1>5, <2>2, <2>3 DEF XmlKnown
<1>8. CASE Xml!EndElement(e)
  <2>1. history'.written = history.written
    BY <1>3, <1>8 DEF Xml!EndElement
  <2>2. XmlFields'
    BY <2>1 DEF XmlKnown, XmlFields, Xml!NewObject
  <2>3. actor'.path = SubSeq(actor.path, 1, Len(actor.path) - 1)
    BY <1>2, <1>8 DEF Xml!EndElement, XmlActors
  <2>4. actor'.path \in Seq(Xml!Names)
    BY <1>2, <2>3
  <2> QED
    BY <1>5, <2>2, <2>4 DEF XmlKnown
<1> QED
  BY <1>1, <1>6, <1>7, <1>8

LEMMA KnownAlways == CommandsSpec => [](part = "xml" => XmlKnown)
<1>1. CommandsInit => (part = "xml" => XmlKnown)
  BY SmallInit, KnownFirst
<1>2. ASSUME XmlPart, part = "xml" => XmlKnown, [CommandsNext]_all
      PROVE  (part = "xml" => XmlKnown)'
  <2>1. CASE UNCHANGED small
    BY <1>2, <2>1, SmallStep DEF small, XmlKnown, XmlFields, Xml!NewObject
  <2>2. CASE part = "xml" /\ Xml!Next
    BY <1>2, <2>2, SmallStep, KnownKept DEF XmlPart
  <2> QED
    BY <1>2, <2>1, <2>2, SmallStep
<1> QED
  BY <1>1, <1>2, XmlAlways, PTL DEF CommandsSpec

LEMMA XmlTyped == ASSUME XmlInv, XmlKnown PROVE Xml!TypeOK
<1>1. /\ actor.handler \in {Xml!NoPath} \cup Xml!Objects \cup Xml!Texts
      /\ actor.obj \in XmlObject /\ actor.raised \in BOOLEAN /\ place.left \in 0 .. MaxEvents
  BY DEF XmlInv, XmlSafe, XmlTypes, XmlActors, XmlServers
<1>2. actor.bound \in 0 .. Len(actor.obj.l)
  <2>1. actor.obj.l \in Seq(XmlInner)
    BY <1>1 DEF XmlObject
  <2> QED
    BY <2>1 DEF XmlInv, XmlSafe, XmlPlace
<1>3. DOMAIN actor.obj = DOMAIN Xml!NewObject
  BY <1>1 DEF XmlObject, Xml!NewObject
<1> QED
  BY <1>1, <1>2, <1>3 DEF XmlKnown, XmlFields, Xml!TypeOK

LEMMA UserTyped == ASSUME UserInv PROVE User!TypeOK
BY DEF UserInv, UserTypes, UserActors, UserPlaces, UserHistories, User!TypeOK

LEMMA AdhocTyped == ASSUME AdhocInv PROVE Adhoc!TypeOK
BY DEF AdhocInv, AdhocTypes, AdhocRuns, AdhocServers, AdhocHistories, Adhoc!TypeOK

LEMMA TrustTyped == ASSUME TrustInv PROVE Trust!TypeOK
<1>1. actor \in TrustActors /\ place \in TrustServers /\ history \in TrustHistories
  BY DEF TrustInv, TrustTypes
<1>2. ASSUME NEW k \in DOMAIN actor.todo PROVE actor.todo[k].id \in Identities
  <2>1. actor.todo \in Seq(TrustCalls)
    BY <1>1 DEF TrustActors
  <2>2. actor.todo[k] \in TrustCalls
    BY <2>1
  <2> QED
    BY <2>2 DEF TrustCalls
<1> QED
  BY <1>1, <1>2 DEF TrustActors, TrustServers, TrustHistories, Trust!TypeOK

AttributePart == part = "attributes" => AttributeInv
LEMMA AttributeAlways == CommandsSpec => []AttributePart
<1>1. CommandsInit => AttributePart
  BY AttributeInit DEF CommandsInit, AttributePart
<1>2. AttributePart /\ [CommandsNext]_all => AttributePart'
  <2> SUFFICES ASSUME AttributePart, [CommandsNext]_all
               PROVE  AttributePart'
    OBVIOUS
  <2>1. part' = part /\ (part = "attributes" => [Next]_vars)
    BY DEF CommandsNext, all
  <2> QED
    BY <2>1, AttributeStep DEF AttributePart
<1> QED
  BY <1>1, <1>2, PTL DEF CommandsSpec

\* The parts of this module keep their types.
SmallParts == {"attributes", "user", "adhoc", "strust", "xml"}
LEMMA SmallPartsAreTyped == CommandsSpec => [](part \in SmallParts => TypesOK)
<1>1. AttributeInv => TypeOK
  BY DEF AttributeInv, AttributeTypes, TypeOK, AttributePlaces, AttributeAges
<1>2. /\ part = "attributes" /\ AttributePart => TypeOK
      /\ part = "user" /\ UserPart => User!TypeOK
      /\ part = "adhoc" /\ AdhocPart => Adhoc!TypeOK
      /\ part = "strust" /\ TrustPart => Trust!TypeOK
      /\ part = "xml" /\ XmlPart /\ (part = "xml" => XmlKnown) => Xml!TypeOK
  BY <1>1, UserTyped, AdhocTyped, TrustTyped, XmlTyped
  DEF AttributePart, UserPart, AdhocPart, TrustPart, XmlPart
<1>3. AttributePart /\ UserPart /\ AdhocPart /\ TrustPart /\ XmlPart /\ (part = "xml" => XmlKnown)
         => (part \in SmallParts => TypesOK)
  BY <1>2 DEF SmallParts, TypesOK
<1> QED
  BY <1>3, AttributeAlways, UserAlways, AdhocAlways, TrustAlways, XmlAlways, KnownAlways, PTL

\* No variable of any part ever leaves its type, for any values of the constants.
THEOREM TypesKept == CommandsSpec => []TypesOK
<1> DEFINE Chosen == part \in LargeParts \cup SmallParts
<1>1. CommandsInit => Chosen
  BY DEF CommandsInit, LargeParts, SmallParts
<1>2. Chosen /\ [CommandsNext]_all => Chosen'
  BY SmallStep
<1>3. CommandsSpec => []Chosen
  BY <1>1, <1>2, PTL DEF CommandsSpec
<1>4. Chosen /\ (part \in LargeParts => TypesOK) /\ (part \in SmallParts => TypesOK) => TypesOK
  OBVIOUS
<1> QED
  BY <1>3, <1>4, LargePartsAreTyped, SmallPartsAreTyped, PTL
===============================================================================
