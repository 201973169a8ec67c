------------------------------- MODULE PackageTree ------------------------------
(***************************************************************************)
(* The commands that walk through a package and its sub packages           *)
(* (adt/package.py, adt/repository.py): package list, delete, activate and *)
(* check, and checkout package (cli/package.py, cli/checkout.py), while    *)
(* somebody else moves things in the tree.                                 *)
(***************************************************************************)
EXTENDS Naturals, Sequences, FiniteSets

CONSTANTS Subs         \* packages that may be below the one that is named

VARIABLES client,      \* the command
          server,      \* where packages and objects are
          seen         \* history: see Init

vars == <<client, server, seen>>

\* A program, an interface of the same name, and an object of a type that is
\* not supported by checkout.
Objects == {"prog", "intf", "other"}
Packages == {"top"} \cup Subs
Gone == "gone"
Elsewhere == "elsewhere"
Homes == Packages \cup {Elsewhere, Gone}

Commands == [do: {"list", "delete", "checkout"}, recursive: BOOLEAN]
            \cup [do: {"check", "activate"}, recursive: {TRUE}]

Parts == {"source", "attributes"}
Sources(o) == <<"abap", o>>
\* checkout_interface() writes the attributes of an interface to NAME.prog.xml.
Attributes(o) == <<"xml", IF o = "other" THEN o ELSE "prog">>

TypeOK ==
    /\ client.cmd \in Commands
    /\ client.pc \in {"packages", "objects", "visit", "deleteObject", "deletePackage",
                      "deleteTop", "request", "done"}
    /\ client.found \in Seq(Nat \X Subs) /\ client.here \in Seq(Objects)
    /\ client.exit \in {"none", "ok", "error"}
    /\ server \in [Subs \cup Objects \cup {"top"} -> Homes]
    /\ seen.calm \in BOOLEAN /\ seen.errors \in BOOLEAN
    /\ seen.undone \subseteq (Parts \X Objects)

(***************************************************************************)
(* queue: packages to visit, each with its path; path: of the package that *)
(* is visited; here: its objects that are left; listed: all objects with   *)
(* their paths; found: the sub packages with their depths; files: which    *)
(* object each file in the directory of a path is of. began: the tree at   *)
(* the beginning, calm: nobody moved anything and no request failed,       *)
(* errors: a check found errors, undone: the parts of objects that a       *)
(* checkout has left out, with a message.                                  *)
(***************************************************************************)
Init ==
    /\ server \in {s \in [Subs \cup Objects \cup {"top"} -> Homes \ {Gone}] :
                      /\ s["top"] = Elsewhere
                      /\ \A p \in Subs : s[p] # p /\ (s[p] \in Subs => s[s[p]] # p)
                      /\ s["other"] \in {"top", Elsewhere}}
    /\ \E cmd \in Commands :
          client = [cmd |-> cmd, pc |-> IF cmd = [do |-> "delete", recursive |-> FALSE]
                                        THEN "deleteTop" ELSE "packages",
                    queue |-> << <<>> >>, path |-> <<>>, here |-> <<>>, listed |-> {},
                    found |-> <<>>, files |-> {}, exit |-> "none"]
    /\ seen = [began |-> server, calm |-> TRUE, errors |-> FALSE, undone |-> {}]

Named(path) == IF path = <<>> THEN "top" ELSE path[Len(path)]
Exit(how) == client' = [client EXCEPT !.pc = "done", !.exit = how]
Fail == /\ Exit("error") /\ UNCHANGED server /\ seen' = [seen EXCEPT !.calm = FALSE]

\* The server (external) lists what is in a package in any order.
Orders(S) == {s \in [1..Cardinality(S) -> S] : \A i, j \in DOMAIN s : i # j => s[i] # s[j]}

\* walk_step() asks for the sub packages first; the oldest package in the queue
\* is the next one.
WalkPackages ==
    /\ client.pc = "packages"
    /\ \/ \E subs \in Orders({p \in Subs : server[p] = Named(client.queue[1])}) :
             LET path == client.queue[1]
             IN  client' = [client EXCEPT !.pc = "objects", !.path = path,
                              !.queue = Tail(@) \o [i \in DOMAIN subs |-> Append(path, subs[i])],
                              !.found = @ \o [i \in DOMAIN subs |-> <<Len(path) + 1, subs[i]>>]]
          /\ UNCHANGED <<server, seen>>
       \/ Fail

\* sort(reverse=True): the deepest first, others in the order they were found.
Before(found, i) == {j \in DOMAIN found : \/ found[j][1] > found[i][1]
                                          \/ found[j][1] = found[i][1] /\ j <= i}
Deepest(found) ==
    [k \in DOMAIN found |-> found[CHOOSE i \in DOMAIN found : Cardinality(Before(found, i)) = k]]

\* Broken form of Walked: the sub packages are deleted in the order of the walk.
WalkedUnsorted(c) ==
    IF c.queue # <<>> /\ c.cmd.recursive THEN [c EXCEPT !.pc = "packages"]
    ELSE CASE c.cmd.do = "delete" -> [c EXCEPT !.pc = "deleteObject"]
           [] c.cmd.do \in {"activate", "check"} -> [c EXCEPT !.pc = "request"]
           [] OTHER -> [c EXCEPT !.pc = "done", !.exit = "ok"]

\* After a package: the next one, or what is done with all that was found.
Walked(c) ==
    IF c.queue # <<>> /\ c.cmd.recursive THEN [c EXCEPT !.pc = "packages"]
    ELSE CASE c.cmd.do = "delete" -> [c EXCEPT !.pc = "deleteObject", !.found = Deepest(@)]
           [] c.cmd.do \in {"activate", "check"} -> [c EXCEPT !.pc = "request"]
           [] OTHER -> [c EXCEPT !.pc = "done", !.exit = "ok"]

\* The objects of the package, in a second request if it has any.
WalkObjects ==
    /\ client.pc = "objects"
    /\ \/ /\ \E here \in Orders({o \in Objects : server[o] = Named(client.path)}) :
                LET c == [client EXCEPT !.listed = @ \cup {<<here[i], client.path>> : i \in DOMAIN here}]
                IN  client' = IF client.cmd.do = "checkout" THEN [c EXCEPT !.pc = "visit", !.here = here]
                              ELSE Walked(c)
          /\ UNCHANGED <<server, seen>>
       \/ Fail

\* checkout_objects(), one object: its attributes are fetched, its source is
\* downloaded (an error is only printed), and both are written; objects of
\* other types are skipped. A KeyError of one of its requests (the server gave
\* no token) is taken for such a type, and nothing is written. The package
\* comes last.
Visit ==
    /\ client.pc = "visit"
    /\ \/ /\ client.here = <<>>
          /\ client' = Walked([client EXCEPT !.files = @ \cup {<<client.path, <<"xml", "package">>, Named(client.path)>>}])
          /\ UNCHANGED <<server, seen>>
       \/ /\ client.here # <<>> /\ Head(client.here) = "other"
          /\ client' = [client EXCEPT !.here = Tail(@)] /\ UNCHANGED <<server, seen>>
       \/ /\ client.here # <<>> /\ Head(client.here) # "other"
          /\ \E done \in {Parts, {"attributes"}, {}} :
                LET o == Head(client.here)
                    written == {<<client.path, IF p = "source" THEN Sources(o) ELSE Attributes(o), o>> :
                                    p \in done}
                    kept == {f \in client.files :
                                "attributes" \in done => f[1] # client.path \/ f[2] # Attributes(o)}
                IN  /\ client' = [client EXCEPT !.here = Tail(@), !.files = kept \cup written]
                    /\ seen' = [seen EXCEPT !.undone = @ \cup ((Parts \ done) \X {o}),
                                            !.calm = @ /\ done = Parts]
          /\ UNCHANGED server
       \/ Fail

\* The server refuses to delete a package that is not empty, and what is gone.
Delete(x, next) ==
    IF server[x] # Gone /\ \A y \in DOMAIN server : server[y] # x
    THEN server' = [server EXCEPT ![x] = Gone] /\ client' = next /\ UNCHANGED seen
    ELSE Exit("error") /\ UNCHANGED <<server, seen>>

\* The objects by their URIs, wherever they are now (all in any order).
DeleteObject ==
    /\ client.pc = "deleteObject"
    /\ \/ /\ client.listed = {} /\ client' = [client EXCEPT !.pc = "deletePackage"]
          /\ UNCHANGED <<server, seen>>
       \/ \E o \in client.listed : Delete(o[1], [client EXCEPT !.listed = @ \ {o}])
       \/ client.listed # {} /\ Fail

DeletePackage ==
    /\ client.pc = "deletePackage"
    /\ \/ /\ client.found = <<>> /\ client' = [client EXCEPT !.pc = "deleteTop"]
          /\ UNCHANGED <<server, seen>>
       \/ /\ client.found # <<>>
          /\ Delete(Head(client.found)[2], [client EXCEPT !.found = Tail(@)])
       \/ client.found # <<>> /\ Fail

DeleteTop ==
    /\ client.pc = "deleteTop"
    /\ Delete("top", [client EXCEPT !.pc = "done", !.exit = "ok"]) \/ Fail

\* check: nothing to check is an error, a check that fails is left out, and any
\* error that is reported makes 1; activate: one request, if there is anything.
Request ==
    /\ client.pc = "request"
    /\ \/ client.listed = {} /\ Exit(IF client.cmd.do = "check" THEN "error" ELSE "ok") /\ UNCHANGED seen
       \/ /\ client.listed # {}
          /\ \E errors, failed \in BOOLEAN :
                /\ Exit(IF errors \/ (failed /\ client.cmd.do = "activate") THEN "error" ELSE "ok")
                /\ seen' = [seen EXCEPT !.errors = errors, !.calm = @ /\ ~failed]
       \/ Exit("error") /\ seen' = [seen EXCEPT !.calm = FALSE]
    /\ UNCHANGED server

\* Somebody else moves one object or package into the tree or out of it.
Others ==
    /\ client.pc # "done" /\ seen.calm /\ client.cmd.do \in {"delete", "checkout"}
    /\ \E x \in (Subs \cup {"prog"}) \cap {y \in DOMAIN server : server[y] # Gone}, to \in {"top", Elsewhere} :
          /\ server["top"] # Gone /\ server[x] # to
          /\ server' = [server EXCEPT ![x] = to]
    /\ seen' = [seen EXCEPT !.calm = FALSE] /\ UNCHANGED client

Next == WalkPackages \/ WalkObjects \/ Visit \/ DeleteObject \/ DeletePackage \/ DeleteTop
        \/ Request \/ Others

-----------------------------------------------------------------------------
Done == client.pc = "done"

\* A path from the package that was named to a sub package.
Leads(tree, path) ==
    \A i \in DOMAIN path : tree[path[i]] = IF i = 1 THEN "top" ELSE path[i - 1]
Paths == {<<>>} \cup UNION {[1..n -> Subs] : n \in 1..Cardinality(Subs)}
Inside == {l \in Objects \X Paths : Leads(seen.began, l[2]) /\ seen.began[l[1]] = Named(l[2])}

\* Left alone, the walk finds every object once with its path, and deletes all.
CompleteIfCalm ==
    Done /\ seen.calm =>
        /\ client.cmd.recursive /\ client.cmd.do # "delete" => client.listed = Inside
        /\ client.cmd = [do |-> "delete", recursive |-> TRUE] => client.exit = "ok"

\* A package that is reported as deleted is gone, with all that was in it except
\* for what others moved out or in.
DeletedMeansGone ==
    client.cmd.do = "delete" /\ client.exit = "ok" =>
        /\ server["top"] = Gone
        /\ seen.calm => \A o \in Inside : server[o[1]] = Gone
        /\ \A x \in DOMAIN server : server[x] # "top"

\* A checkout that ends well has written every object it listed that it
\* supports, but an interface overwrites the attributes of a program, a source
\* whose download failed is left out with a message, and an object on which a
\* KeyError was raised is called unsupported.
CheckedOut ==
    client.cmd.do = "checkout" /\ client.exit = "ok" =>
        \A l \in client.listed : l[1] # "other" =>
            /\ <<l[2], Sources(l[1]), l[1]>> \in client.files \/ <<"source", l[1]>> \in seen.undone
            /\ \/ <<"attributes", l[1]>> \in seen.undone
               \/ \E q \in Objects : /\ Attributes(q) = Attributes(l[1])
                                     /\ <<l[2], Attributes(q), q>> \in client.files

\* A check ends with 0 only if no check that was run reported an error.
CheckedMeansNoError == client.cmd.do = "check" /\ client.exit = "ok" => ~seen.errors

(***************************************************************************)
(* A walk through a package misses nothing, deletes from the inside out,   *)
(* and its command does not report as done what was not done; what it      *)
(* leaves out it has named, though not always for the right reason.        *)
(***************************************************************************)
TreeAsReported == CompleteIfCalm /\ DeletedMeansGone /\ CheckedOut /\ CheckedMeansNoError
=============================================================================
