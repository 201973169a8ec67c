----------------------------------- MODULE Users ----------------------------------
(***************************************************************************)
(* Creating and changing users over RFC (rfc/user.py, rfc/bapi.py). The    *)
(* password of a dialog user can be made productive only by the user, so   *)
(* the command first gives it a dummy password and then changes that one   *)
(* in the name of the user. Roles, profiles, address and alias go with the *)
(* first call or are single calls like it, and are left out.               *)
(***************************************************************************)
EXTENDS Naturals

CONSTANT MaxCommands   \* bound: commands, one after the other

VARIABLES client,      \* the running command
          server,      \* the user
          seen         \* history: see Init

vars == <<client, server, seen>>

\* "dialog" stands for the types A and C, "service" for the others. An absent
\* password, and a new one that equals the dummy, are special.
Types == {"dialog", "service"}
Passwords == {"old", "dummy", "new", "initial"}
Commands == [do: {"create", "change"}, type: Types, password: {"none", "new", "dummy"},
             productive: BOOLEAN]

TypeOK ==
    /\ client \in [cmd: Commands, pc: {"idle", "details", "first", "second"},
                   type: Types \cup {"unknown"}, result: {"none", "ok", "error"}]
    /\ server \in [exists: BOOLEAN, type: Types, password: Passwords, productive: BOOLEAN]
    /\ seen \in [commands: 0..MaxCommands, others: BOOLEAN, aborted: BOOLEAN,
                 halfway: BOOLEAN]

(***************************************************************************)
(* others: another administrator changed the user, aborted: a call was     *)
(* answered with a message of the type A (abort), halfway: a command       *)
(* raised an error after it had asked for the dummy password.              *)
(***************************************************************************)
Init ==
    /\ \E cmd \in Commands :
          client = [cmd |-> cmd, pc |-> "idle", type |-> cmd.type, result |-> "none"]
    /\ server \in [exists: BOOLEAN, type: Types, password: {"old"}, productive: {TRUE}]
    /\ seen = [commands |-> 0, others |-> FALSE, aborted |-> FALSE, halfway |-> FALSE]

Start ==
    /\ client.pc = "idle" /\ seen.commands < MaxCommands
    /\ \E cmd \in Commands :
          client' = [cmd |-> cmd, pc |-> IF cmd.do = "change" THEN "details" ELSE "first",
                     type |-> cmd.type, result |-> "none"]
    /\ seen' = [seen EXCEPT !.commands = @ + 1]
    /\ UNCHANGED server

End(result) == client' = [client EXCEPT !.pc = "idle", !.result = result]
Goto(pc) == client' = [client EXCEPT !.pc = pc]
Raise == End("error") /\ seen' = [seen EXCEPT !.halfway = @ \/ client.pc = "second"]

\* is_productive_password_needed()
Needed == client.cmd.productive /\ client.cmd.password # "none" /\ client.type = "dialog"

\* A call: done, refused with an error, interrupted before or after its effect, or
\* aborted, which raise_for_error() does not take for an error.
Call(possible, effect, next) ==
    \/ possible /\ server' = effect /\ next /\ UNCHANGED seen
    \/ UNCHANGED server /\ next /\ seen' = [seen EXCEPT !.aborted = TRUE]
    \/ UNCHANGED server /\ Raise
    \/ possible /\ server' = effect /\ End("error")
       /\ seen' = [seen EXCEPT !.halfway = @ \/ Needed]

\* _fetch_user_type(): the type decides how the password is set. An answer that has
\* none is taken for a type that needs no productive password.
Details ==
    /\ client.pc = "details"
    /\ \/ server.exists /\ client' = [client EXCEPT !.type = server.type, !.pc = "first"]
          /\ UNCHANGED seen
       \/ client' = [client EXCEPT !.type = "unknown", !.pc = "first"]
          /\ UNCHANGED seen
       \/ Raise
    /\ UNCHANGED server

\* Broken form of First: the dummy password is not refused as the new one.
FirstUnchecked ==
    /\ client.pc = "first"
    /\ LET type == IF client.cmd.do = "create" THEN client.type ELSE server.type
           password == IF Needed \/ client.cmd.password = "dummy" THEN "dummy"
                       ELSE IF client.cmd.password = "none" THEN "initial" ELSE "new"
           user == [exists |-> TRUE, password |-> password, type |-> type,
                    productive |-> type = "service"]
       IN  Call(server.exists = (client.cmd.do = "change"), user,
                IF Needed /\ client.cmd.password # "dummy" THEN Goto("second") ELSE End("ok"))

\* build_rfc_params(), build_change_rfc_params(), and the first call. The server
\* knows the type of the user, and so whether the password is productive.
First ==
    /\ client.pc = "first"
    /\ IF Needed /\ client.cmd.password = "dummy" THEN End("error") /\ UNCHANGED <<server, seen>>
       ELSE LET type == IF client.cmd.do = "create" THEN client.type ELSE server.type
                password == IF Needed THEN "dummy"
                            ELSE IF client.cmd.password = "none" THEN "initial" ELSE "new"
                user == [exists |-> TRUE, password |-> password, type |-> type,
                         productive |-> type = "service"]
            IN  Call(server.exists = (client.cmd.do = "change"), user,
                     IF Needed THEN Goto("second") ELSE End("ok"))

\* _change_user_password(): needs the dummy password, and makes the new one
\* productive.
Second ==
    /\ client.pc = "second"
    /\ Call(server.exists /\ server.password = "dummy",
            [server EXCEPT !.password = "new", !.productive = TRUE], End("ok"))

\* Another administrator deletes the user, or changes its type or password.
Others ==
    /\ client.pc # "idle" /\ ~seen.others
    /\ \/ server' = [server EXCEPT !.exists = FALSE]
       \/ \E type \in Types : server' = [server EXCEPT !.type = type]
       \/ server' = [server EXCEPT !.password = "old"]
    /\ seen' = [seen EXCEPT !.others = TRUE]
    /\ UNCHANGED client

Step == Details \/ First \/ Second
Next == Start \/ Step \/ Others

(***************************************************************************)
(* Properties                                                              *)
(***************************************************************************)

\* A command that succeeded has set the password that it was told to, unless a call
\* was aborted or another administrator interfered; the password is productive when
\* it was asked to be, but for a user whose type was missing in the answer, which is
\* not looked at again; and the dummy password stays
\* behind only after a command that failed half way, and was reported as failed,
\* or was aborted there.
PasswordIsKnown ==
    client.pc = "idle" /\ ~seen.others =>
        /\ client.result = "ok" /\ ~seen.aborted /\ client.cmd.password # "none" =>
              /\ server.exists
              /\ server.password = "new"
              /\ client.cmd.productive /\ client.type # "unknown" => server.productive
        /\ server.password = "dummy" => seen.halfway \/ seen.aborted
===================================================================================
