---------------------------------- MODULE Strust ----------------------------------
(***************************************************************************)
(* The strust commands: PSE files and their certificates (rfc/strust.py,   *)
(* cli/strust.py). A command is a list of RFC calls; a check may add a     *)
(* call or end the command. The ICM, which does the SSL, goes on with what *)
(* it loaded last until it is told to load the PSE files again. Another    *)
(* administrator may change the files at any time. Commands that only read *)
(* (getcsr, getowncert, list, dumpcertificates) are like listcertificates. *)
(***************************************************************************)
EXTENDS Naturals, Sequences, FiniteSets, Functions

CONSTANTS Identities,    \* PSE files, each <PSE_CONTEXT>/<PSE_APPLIC>
          Certs,         \* certificates of peers
          MaxCommands    \* bound: commands, one after the other

VARIABLES client,        \* the running command
          server,        \* pse: the files, icm: what the ICM loaded
          seen           \* history: see Init

vars == <<client, server, seen>>

\* A file has a key of somebody ("theirs") or of these commands ("mine").
Absent == [key |-> "none", certs |-> {}]
Broken == [key |-> "broken", certs |-> {}]
Keys == {"theirs", "mine"}
Files == {Absent, Broken} \cup [key: Keys, certs: SUBSET Certs]
Exists(file) == file.key \in Keys

Call(call, id, cert, replace) ==
    [call |-> call, id |-> id, cert |-> cert, replace |-> replace]
NoCert == "no certificate"

\* Every element of a set, in any order.
Orders(S) == Bijection(1 .. Cardinality(S), S)

Commands ==
    [name: {"createpse", "upload"}, ids: {<<i>> : i \in Identities}, overwrite: BOOLEAN,
     certs: {<<>>}, stdin: {FALSE}]
    \cup
    [name: {"removepse", "putpkc"}, ids: {<<i>> : i \in Identities}, overwrite: {FALSE},
     certs: {<<>>}, stdin: {FALSE}]
    \cup
    [name: {"putcertificate", "listcertificates"}, ids: Orders(Identities),
     overwrite: {FALSE}, certs: Orders(Certs), stdin: BOOLEAN]

\* Certificates from standard input are put storage by storage, those from
\* files file by file.
Puts(cmd) ==
    LET n == Len(cmd.certs)  m == Len(cmd.ids)
        Pair(k) == IF cmd.stdin THEN <<((k - 1) \div n) + 1, ((k - 1) % n) + 1>>
                                ELSE <<((k - 1) % m) + 1, ((k - 1) \div m) + 1>>
    IN  [k \in 1..(n * m) |-> Call("put", cmd.ids[Pair(k)[1]], cmd.certs[Pair(k)[2]], FALSE)]

Each(call, cmd) == [k \in DOMAIN cmd.ids |-> Call(call, cmd.ids[k], NoCert, FALSE)]

\* The RFC calls of a command, in order.
Plan(cmd) ==
    LET One(call) == Call(call, cmd.ids[1], NoCert, cmd.overwrite)
        Notify == <<One("notify")>>
    IN  CASE cmd.name = "createpse" -> <<One("check"), One("create")>> \o Notify
          [] cmd.name = "upload" -> <<One("upload")>> \o Notify
          [] cmd.name = "removepse" -> <<One("remove")>>
          [] cmd.name = "putpkc" -> <<One("sign")>>
          [] cmd.name = "putcertificate" ->
                Each("check", cmd) \o Puts(cmd) \o Notify \o Each("list", cmd)
          [] OTHER -> [k \in 1 .. 2 * Len(cmd.ids) |->
                Each(IF k % 2 = 1 THEN "check" ELSE "list", cmd)[(k + 1) \div 2]]

Idle == [name |-> "none", ids |-> <<>>, overwrite |-> FALSE, certs |-> <<>>, stdin |-> FALSE]

TypeOK ==
    /\ client.cmd \in Commands \cup {Idle}
    /\ client.exit \in {"none", "ok", "nothing", "error"}
    /\ \A k \in DOMAIN client.todo : client.todo[k].id \in Identities
    /\ server \in [pse: [Identities -> Files], icm: [Identities -> Files]]
    /\ seen \in [commands: 0..MaxCommands, others: SUBSET Identities,
                 theirs: SUBSET Identities, failed: SUBSET Identities]

(***************************************************************************)
(* others: files that another administrator changed, theirs: files that he *)
(* stored a key in, failed: files of commands that failed.                 *)
(***************************************************************************)
Init ==
    \E pse \in [Identities -> {Absent, Broken} \cup [key: {"theirs"}, certs: {{}, Certs}]] :
        /\ client = [cmd |-> Idle, todo |-> <<>>, exit |-> "none"]
        /\ server = [pse |-> pse, icm |-> pse]
        /\ seen = [commands |-> 0, others |-> {}, failed |-> {},
                   theirs |-> {i \in Identities : Exists(pse[i])}]

Ids == Range(client.cmd.ids)
Running == client.todo # <<>>

Start ==
    /\ ~Running
    /\ seen.commands < MaxCommands
    /\ \E cmd \in Commands : client' = [cmd |-> cmd, todo |-> Plan(cmd), exit |-> "none"]
    /\ seen' = [seen EXCEPT !.commands = @ + 1]
    /\ UNCHANGED server

Exit(code) == client' = [client EXCEPT !.todo = <<>>, !.exit = code]
Continue(todo) ==
    IF todo = <<>> THEN Exit("ok") ELSE client' = [client EXCEPT !.todo = todo]

\* An error message of the server, or an exception of the RFC library.
Fail ==
    /\ Exit("error")
    /\ seen' = [seen EXCEPT !.failed = @ \cup Ids]

Now(call) == Running /\ Head(client.todo).call = call
Here == Head(client.todo)
There == server.pse[Here.id]

\* The call is answered, refused, or interrupted before or after its effect.
Ask(possible, effect) ==
    \/ possible /\ server' = effect /\ Continue(Tail(client.todo)) /\ UNCHANGED seen
    \/ server' \in {server} \cup (IF possible THEN {effect} ELSE {}) /\ Fail

Store(file) == [server EXCEPT !.pse[Here.id] = file]

\* SSFR_PSE_CHECK. A PSE that is neither fine nor missing is an error.
Check ==
    /\ Now("check")
    /\ UNCHANGED server
    /\ \/ /\ There = Absent
          /\ \/ /\ client.cmd.name = "putcertificate"
                /\ Continue(<<Call("create", Here.id, NoCert, FALSE)>> \o Tail(client.todo))
                /\ UNCHANGED seen
             \/ client.cmd.name = "createpse" /\ Continue(Tail(client.todo)) /\ UNCHANGED seen
             \/ client.cmd.name = "listcertificates" /\ Fail
       \/ /\ Exists(There)
          /\ IF client.cmd.name = "createpse" /\ ~client.cmd.overwrite
             THEN Exit("nothing")
             ELSE Continue(Tail(client.todo))
          /\ UNCHANGED seen
       \/ Fail

\* Broken form of Create: a file is always replaced.
CreateReplacing ==
    /\ Now("create") \/ Now("upload")
    /\ Ask(TRUE, Store([key |-> "mine", certs |-> {}]))

\* SSFR_PSE_CREATE and SSFR_PSE_UPLOAD_XSTRING replace a file only if asked to.
Create ==
    /\ Now("create") \/ Now("upload")
    /\ Ask(There = Absent \/ Here.replace, Store([key |-> "mine", certs |-> {}]))

RemovePse == Now("remove") /\ Ask(There # Absent, Store(Absent))

\* SSFR_PUT_CERTRESPONSE signs the key that is there; the key stays the same.
Sign == Now("sign") /\ Ask(Exists(There), server)

\* SSFR_PUT_CERTIFICATE. Error 522, it is there already, counts as done.
Put == Now("put") /\ Ask(Exists(There), Store([There EXCEPT !.certs = @ \cup {Here.cert}]))

\* Broken form of Notify: the ICM is told of one file only.
NotifyFirstOnly ==
    Now("notify") /\ Ask(TRUE, [server EXCEPT !.icm[Here.id] = server.pse[Here.id]])

Notify == Now("notify") /\ Ask(TRUE, [server EXCEPT !.icm = server.pse])

List == Now("list") /\ Ask(TRUE, server)

\* Another administrator removes a file or creates one of his own.
Others ==
    /\ Running /\ seen.others = {}
    /\ \E i \in Identities, file \in {Absent, [key |-> "theirs", certs |-> {}]} :
          /\ file # server.pse[i]
          /\ server' = [server EXCEPT !.pse[i] = file]
          /\ seen' = [seen EXCEPT !.others = {i},
                      !.theirs = IF Exists(file) THEN @ \cup {i} ELSE @ \ {i}]
    /\ UNCHANGED client

Step == Check \/ Create \/ RemovePse \/ Sign \/ Put \/ Notify \/ List
Next == Start \/ Step \/ Others

(***************************************************************************)
(* Properties                                                              *)
(***************************************************************************)
Overwrites(i) ==
    /\ i \in Ids
    /\ client.cmd.name = "removepse" \/ client.cmd.overwrite

\* A key that somebody else stored is destroyed only by a command that was
\* told to, also if he stored it between the check and the creation.
KeySurvives ==
    \A i \in Identities :
       /\ i \in seen.theirs /\ server.pse[i].key = "theirs"
       /\ server'.pse[i].key # "theirs" /\ UNCHANGED seen.theirs
       => Overwrites(i)
KeysSurvive == [][KeySurvives]_vars

\* A command that reported success has its files in use by the ICM and its
\* certificates in all of its files, unless another administrator changed
\* them, or an earlier command failed before the ICM was told and createpse,
\* run again, finds nothing to do.
DoneIsInUse ==
    client.exit \in {"ok", "nothing"} /\ client.cmd.name \in {"createpse", "upload", "putcertificate"}
    => \A i \in Ids \ seen.others :
         \/ /\ server.icm[i] = server.pse[i]
            /\ Range(client.cmd.certs) \subseteq server.pse[i].certs
         \/ client.exit = "nothing" /\ seen.failed # {}
===================================================================================
