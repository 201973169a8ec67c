-------------------------------- MODULE Attributes -------------------------------
(***************************************************************************)
(* The commands that change attributes of an object: dataelement define,   *)
(* functionmodule chattr, badi set-active, apistate set, rap binding       *)
(* publish and featuretoggle on and off. They read the object, change what *)
(* was read and send it back whole, under a lock that is taken after the   *)
(* reading, or under none; somebody else changes the object meanwhile.     *)
(* What can become of the lock itself is the subject of ObjectEditor.      *)
(***************************************************************************)
EXTENDS Naturals

CONSTANTS OtherFields  \* what else the object has; only "option" can be given as well, and
                       \* "normal" stands for the fields that normalize() changes

Fields == {"asked"} \cup OtherFields

VARIABLES client,      \* the command and what it read
          server,      \* the object
          seen         \* history: see Init

vars == <<client, server, seen>>

\* The value at the beginning, the one the user asks for, that of somebody else,
\* and the one of a new object.
Values == {"old", "asked", "theirs", "default"}

(***************************************************************************)
(* given: an optional argument was given (of chattr the only one); valid:  *)
(* so were those that the type needs; force: --no-error-existing or        *)
(* --force; activate: -a.                                                  *)
(***************************************************************************)
Commands ==
    [do: {"define"}, given: BOOLEAN, valid: BOOLEAN, force: BOOLEAN, activate: BOOLEAN]
    \cup [do: {"chattr"}, given: BOOLEAN, valid: {TRUE}, force: {TRUE}, activate: {FALSE}]
    \cup [do: {"badi"}, given: {TRUE}, valid: {TRUE}, force: {TRUE}, activate: BOOLEAN]
    \cup [do: {"apistate"}, given: {TRUE}, valid: BOOLEAN, force: BOOLEAN, activate: {FALSE}]
    \cup [do: {"publish", "toggle"}, given: {TRUE}, valid: {TRUE}, force: {TRUE}, activate: {FALSE}]

TypeOK ==
    /\ client.cmd \in Commands /\ client.have \in [Fields -> Values]
    /\ client.pc \in {"create", "fetch", "validate", "lock", "push", "unlock", "activate", "send", "done"}
    /\ client.failed \in BOOLEAN /\ client.exit \in {"none", "ok", "error"}
    /\ server.exists \in BOOLEAN /\ server.locked \in BOOLEAN /\ server.fields \in [Fields -> Values]
    /\ seen.before \in [Fields -> Values]
    /\ seen.others \in [Fields -> {"no", "early", "between", "late"}]
    /\ seen.refused \in BOOLEAN

New == [f \in Fields |-> "default"]

(***************************************************************************)
(* before: the object at the beginning; others: whether somebody else      *)
(* changed a field, and if so before it was read by the command, between   *)
(* that and the lock or, without a lock, the change, or late; refused: the *)
(* validation had errors, or warnings that the user did not accept.        *)
(***************************************************************************)
Init ==
    \E cmd \in Commands, exists \in BOOLEAN, asked \in {"old", "asked"} :
        /\ ~exists => cmd.do = "define" /\ asked = "old"
        /\ LET fields == IF exists THEN [f \in Fields |-> IF f = "asked" THEN asked ELSE "old"] ELSE New
           IN  /\ server = [exists |-> exists, locked |-> FALSE, fields |-> fields]
               /\ seen = [before |-> fields, others |-> [f \in Fields |-> "no"], refused |-> FALSE]
        /\ client = [cmd |-> cmd, have |-> New, failed |-> FALSE, exit |-> "none",
                     pc |-> CASE cmd.do = "define" -> "create"
                              [] cmd.do = "toggle" -> "send"
                              [] OTHER -> "fetch"]

Exit(how) == client' = [client EXCEPT !.pc = "done", !.exit = how]
Fail == Exit("error") /\ UNCHANGED <<server, seen>>

\* define creates the element; one that exists is an error without --no-error-existing.
Create ==
    /\ client.pc = "create"
    /\ \/ /\ ~server.exists
          /\ server' = [server EXCEPT !.exists = TRUE]
          /\ \/ client' = [client EXCEPT !.pc = "fetch"]
             \/ Exit("error")
          /\ UNCHANGED seen
       \/ /\ server.exists /\ client.cmd.force
          /\ client' = [client EXCEPT !.pc = "fetch"] /\ UNCHANGED <<server, seen>>
       \/ Fail

\* A BAdI that has the value already is not changed.
NothingToDo == client.cmd.do = "badi" /\ server.fields["asked"] = "asked"

\* fetch(), and what is decided with what was read: missing arguments, BAdIs and
\* services, and attributes that may not be set, are errors.
Fetch ==
    /\ client.pc = "fetch"
    /\ \/ /\ client.cmd.valid
          /\ client' = [client EXCEPT !.have = server.fields,
                          !.pc = CASE client.cmd.do = "apistate" -> "validate"
                                   [] client.cmd.do = "publish" -> "send"
                                   [] NothingToDo -> "done"
                                   [] OTHER -> "lock",
                          !.exit = IF NothingToDo THEN "ok" ELSE @]
          /\ UNCHANGED <<server, seen>>
       \/ Fail

\* apistate set lets the server validate first: errors end the command, and so
\* do warnings without --force and without a yes.
Validate ==
    /\ client.pc = "validate"
    /\ \/ client' = [client EXCEPT !.pc = "send"] /\ UNCHANGED <<server, seen>>
       \/ /\ Exit("error") /\ seen' = [seen EXCEPT !.refused = TRUE] /\ UNCHANGED server
       \/ Fail

\* open_editor(); the object was read before.
Lock ==
    /\ client.pc = "lock"
    /\ \/ /\ client' = [client EXCEPT !.pc = "push"]
          /\ server' = [server EXCEPT !.locked = TRUE] /\ UNCHANGED seen
       \/ Fail

\* Broken form of Payload: built from a new object instead of the one that was read.
PayloadOfNew(f) ==
    CASE f = "asked" /\ client.cmd.given -> {"asked"}
      [] f # "asked" /\ client.cmd.do \in {"publish", "toggle"} -> {server.fields[f]}
      [] OTHER -> {"default"}

\* apistate copies the comment and the uses of a contract, and neither its feature
\* toggle nor its successors.
Copied(f) == client.cmd.do = "apistate" => f # "rest"

(***************************************************************************)
(* What becomes of a field. define sets every option, those not given and  *)
(* those of the other type to their defaults, and normalize() makes every  *)
(* length of a label that is not empty the longest one and turns off the   *)
(* switches that the element lacks; chattr without a type leaves the       *)
(* attribute out, and the server decides; publish and featuretoggle send   *)
(* only what is asked for.                                                 *)
(***************************************************************************)
Payload(f) ==
    CASE f = "asked" /\ client.cmd.do = "chattr" /\ ~client.cmd.given -> {server.fields[f], "default"}
      [] f = "asked" /\ (client.cmd.do # "chattr" \/ client.cmd.given) -> {"asked"}
      [] f = "option" /\ client.cmd.do = "define" ->
             {"default"} \cup (IF client.cmd.given THEN {"asked"} ELSE {})
      [] f = "normal" /\ client.cmd.do = "define" -> {"default", client.have[f]}
      [] ~Copied(f) -> {"default"}
      [] f # "asked" /\ client.cmd.do \in {"publish", "toggle"} -> {server.fields[f]}
      [] OTHER -> {client.have[f]}

Put(fields) ==
    /\ \A f \in Fields : fields[f] \in Payload(f)
    /\ server' = [server EXCEPT !.fields = fields]

\* editor.push(): an error, even of a lost answer, leaves the with statement.
Push ==
    /\ client.pc = "push"
    /\ \E failed \in BOOLEAN :
          /\ client' = [client EXCEPT !.pc = "unlock", !.failed = failed]
          /\ \/ \E fields \in [Fields -> Values] : Put(fields)
             \/ failed /\ UNCHANGED server
    /\ UNCHANGED seen

\* Its end unlocks whatever happened.
Unlock ==
    /\ client.pc = "unlock"
    /\ \/ IF ~client.failed /\ client.cmd.activate
          THEN client' = [client EXCEPT !.pc = "activate"]
          ELSE Exit(IF client.failed THEN "error" ELSE "ok")
       \/ Exit("error")
    /\ server' = [server EXCEPT !.locked = FALSE] /\ UNCHANGED seen

\* What the activation found is printed, but makes no difference.
Activate ==
    /\ client.pc = "activate"
    /\ \E how \in {"ok", "error"} : Exit(how)
    /\ UNCHANGED <<server, seen>>

\* The one request of the commands without a lock; an answer can be lost, or say
\* that nothing was done.
Send ==
    /\ client.pc = "send"
    /\ \/ /\ \E fields \in [Fields -> Values] : Put(fields)
          /\ \E how \in {"ok", "error"} : Exit(how)
          /\ UNCHANGED seen
       \/ Fail

\* Nothing was read yet, or nothing is read before it is sent.
Reading == client.pc \in {"create", "fetch"} \/ (client.pc = "send" /\ client.cmd.do = "toggle")

Now == CASE Reading -> "early"
         [] ~Reading /\ client.pc \in {"validate", "lock", "send"} -> "between"
         [] OTHER -> "late"

\* Somebody else changes one field, as long as the command does not lock the object.
Others ==
    /\ server.exists /\ ~server.locked
    /\ \E f \in Fields :
          /\ seen.others = [g \in Fields |-> "no"]
          /\ server' = [server EXCEPT !.fields[f] = "theirs"]
          /\ seen' = [seen EXCEPT !.others[f] = Now]
    /\ UNCHANGED client

Next == Create \/ Fetch \/ Validate \/ Lock \/ Push \/ Unlock \/ Activate \/ Send \/ Others

Spec == Init /\ [][Next]_vars

-----------------------------------------------------------------------------
\* The fields that a command sets, those it resets or normalizes among them.
Sets ==
    {"asked"} \cup (IF client.cmd.do = "define" THEN {"option", "normal"} ELSE {})
              \cup (IF client.cmd.do = "apistate" THEN {"rest"} ELSE {})

\* What the command does not set stays, and so does what somebody else made of
\* it, unless that was done after the reading and before the lock.
NothingLost ==
    \A f \in Fields \ Sets :
        \/ server.fields[f] = IF seen.others[f] = "no" THEN seen.before[f] ELSE "theirs"
        \/ seen.others[f] = "between" /\ server.fields[f] = seen.before[f]

\* A success means that the field has the value that was asked for, unless
\* somebody else changed it after it was read.
OkMeansSet ==
    client.exit = "ok" /\ client.cmd.given =>
        server.fields["asked"] = "asked" \/ seen.others["asked"] \in {"between", "late"}

\* What the validation did not accept is not changed, and the lock is given back.
NothingUnwanted ==
    /\ seen.refused => \A f \in Fields : server.fields[f] \in {seen.before[f], "theirs"}
    /\ client.pc = "done" => ~server.locked

(***************************************************************************)
(* Changing one attribute of an object does not change the others (but     *)
(* define resets the options that are not given, and replaces the lengths  *)
(* of the labels; apistate set leaves out what it cannot copy), and does   *)
(* not undo what somebody else did, except in the time between the reading *)
(* and the lock, in which every such change is lost; a success means that  *)
(* the attribute was set.                                                  *)
(***************************************************************************)
AttributesAsAsked == NothingLost /\ OkMeansSet /\ NothingUnwanted
=============================================================================
