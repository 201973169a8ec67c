--------------------------------- MODULE Checkin ------------------------------
(***************************************************************************)
(* sapcli checkin (sap/cli/checkin.py): a directory of abapGit files is    *)
(* brought to the server.  The packages are created first; the objects     *)
(* follow in three groups - interfaces and classes, programs, function     *)
(* groups -, and each group is created, written and activated before the   *)
(* next.  A class that exists is deleted and created again.                *)
(*                                                                         *)
(* Several processes may check in the same directory, at the same time or  *)
(* one after another, and any of them may be killed or meet a fault.       *)
(***************************************************************************)
EXTENDS Naturals, SequencesExt

CONSTANTS Clients,        \* sapcli processes, which run one check-in each
          PackageOrder,   \* the packages, in the order os.walk() finds them
          Parent,         \* Parent[p]: the super package, or None
          Objects,        \* the objects of the directory
          Kind,           \* Kind[o]: "intf", "clas", "prog" or "fugr"
          Home,           \* Home[o]: the package of an object
          Sources,        \* Sources[o]: its source files, in their order; of a
                          \* function group those that its XML file lists
          Remote,         \* the sources that are remote function modules
          Unknown,        \* the sources of classes that are of no known part
          Capitals,       \* the packages whose names are spelled in capitals
          None            \* no object, no package

Packages == ToSet(PackageOrder)
Parts(o) == ToSet(Sources[o])

\* The sources that are written: class_parts does not know every part of a class.
Known(o) == {p \in Parts(o) : Kind[o] = "clas" => p \notin Unknown}

ASSUME DirectoryAssumption ==
    /\ None \notin Objects \cup Packages
    /\ Kind \in [Objects -> {"intf", "clas", "prog", "fugr"}]
    /\ Home \in [Objects -> Packages]
    /\ PackageOrder \in Seq(Packages)
    /\ \A i \in DOMAIN PackageOrder :
          Parent[PackageOrder[i]] \in {PackageOrder[j] : j \in 1 .. (i - 1)} \cup {None}
    /\ \A o \in Objects : Sources[o] \in Seq(Parts(o)) /\ Sources[o] # <<>>
    /\ Capitals \subseteq Packages

VARIABLES disk,       \* disk[o]: "good", "bad" before or "badpart" while it is written
          packages,   \* server: the packages that exist
          where,      \* server: where[o], "none", "here" or "elsewhere"
          content,    \* server: content[o][p], "none", "other" or the "file"
          inactive,   \* server: the objects with an inactive version
          late,       \* deletions given up by their client, not yet handled
          pc,         \* pc[c]: where c is
          left,       \* left[c]: the packages that c has not created yet
          group,      \* group[c]: the dependency group c works on
          todo,       \* todo[c]: its objects that are still to be handled
          cur,        \* cur[c]: the object being handled
          plan,       \* plan[c]: what is left of its handler
          refs,       \* refs[c]: the references to activate
          ioc,        \* ioc[c]: the inactive objects the server listed
          skipped,    \* skipped[c]: objects "handled without activation"
          removing,   \* history: classes c asked to delete and has not recreated
          faulty,     \* history: a request of c failed for a reason of its own
          disturbed,  \* history: another client changed the server after c began
          result,     \* result[c]: how the check-in ended
          original    \* history: where the objects were at first

server == <<packages, where, content, inactive>>
working == <<left, group, todo, cur, plan, refs, ioc>>
vars == <<disk, server, late, pc, working, skipped, removing, faulty, disturbed,
          result, original>>

\* OBJECT_CHECKIN_HANDLERS and _resolve_dependencies().
Rank(o) == CASE Kind[o] \in {"intf", "clas"} -> 1 [] Kind[o] = "prog" -> 2 [] OTHER -> 3
Group(n) == {o \in Objects : Rank(o) = n}

\* What a server may have before: an object is complete and active, and some
\* includes and functions of a function group may be new.
Contents(o, place) ==
    {f \in [Parts(o) -> {"none", "other"}] :
        IF place = "none" THEN \A p \in Parts(o) : f[p] = "none"
        ELSE Kind[o] # "fugr" => \A p \in Parts(o) : f[p] = "other"}

Init ==
    /\ disk \in [Objects -> {"good", "bad", "badpart"}]
    /\ \A o \in Objects : disk[o] = "badpart" => Kind[o] = "clas"
    /\ packages \in {{}, Packages}
    /\ where \in [Objects -> {"none", "here", "elsewhere"}]
    /\ \A o \in Objects : where[o] = "here" => Home[o] \in packages
    /\ content \in {f \in [Objects -> UNION {Contents(o, where[o]) : o \in Objects}] :
                       \A o \in Objects : f[o] \in Contents(o, where[o])}
    /\ inactive = {}
    /\ late = {}
    /\ pc = [c \in Clients |-> "start"]
    /\ left = [c \in Clients |-> <<>>]
    /\ group = [c \in Clients |-> 1]
    /\ todo = [c \in Clients |-> {}]
    /\ cur = [c \in Clients |-> None]
    /\ plan = [c \in Clients |-> <<>>]
    /\ refs = [c \in Clients |-> {}]
    /\ ioc = [c \in Clients |-> {}]
    /\ skipped = [c \in Clients |-> {}]
    /\ removing = [c \in Clients |-> {}]
    /\ faulty = [c \in Clients |-> FALSE]
    /\ disturbed = [c \in Clients |-> FALSE]
    /\ result = [c \in Clients |-> "none"]
    /\ original = where

-----------------------------------------------------------------------------
(* The server (external). *)
Disturb(c) ==
    disturbed' = [d \in Clients |-> disturbed[d] \/ (d # c /\ pc[d] # "start" /\ server' # server)]
Idle == UNCHANGED <<server, disturbed>>

\* A new class or program has its parts, a function group is without any.
ServeCreate(c, o) ==
    /\ where[o] = "none" /\ Home[o] \in packages
    /\ where' = [where EXCEPT ![o] = "here"]
    /\ content' = [content EXCEPT ![o] =
                      [p \in Parts(o) |-> IF Kind[o] = "fugr" THEN "none" ELSE "other"]]
    /\ inactive' = inactive \cup {o}
    /\ UNCHANGED packages
    /\ Disturb(c)

ServeDelete(c, o) ==
    /\ where[o] # "none"
    /\ where' = [where EXCEPT ![o] = "none"]
    /\ content' = [content EXCEPT ![o] = [p \in Parts(o) |-> "none"]]
    /\ inactive' = inactive \ {o}
    /\ UNCHANGED packages
    /\ Disturb(c)

ServePart(c, o, p, text) ==
    /\ where[o] # "none" /\ (text = "file" => content[o][p] # "none")
    /\ content' = [content EXCEPT ![o][p] = text]
    /\ inactive' = inactive \cup {o}
    /\ UNCHANGED <<packages, where>>
    /\ Disturb(c)

\* A deletion whose answer the client did not wait for.
LateDelete(l) ==
    /\ ServeDelete(l[1], l[2])
    /\ late' = late \ {l}
    /\ UNCHANGED <<disk, pc, working, skipped, removing, faulty, result, original>>

-----------------------------------------------------------------------------
Goto(c, p) == pc' = [pc EXCEPT ![c] = p]

\* The process ends, and what it had in memory is gone.
Exit(c, r) ==
    /\ Goto(c, "done")
    /\ result' = [result EXCEPT ![c] = r]
    /\ left' = [left EXCEPT ![c] = <<>>] /\ todo' = [todo EXCEPT ![c] = {}]
    /\ cur' = [cur EXCEPT ![c] = None] /\ plan' = [plan EXCEPT ![c] = <<>>]
    /\ refs' = [refs EXCEPT ![c] = {}] /\ ioc' = [ioc EXCEPT ![c] = {}]

\* A SAPCliError ends the check-in: the server had a reason in what it is, or
\* it is a fault.
Fail(c, fault) ==
    /\ Exit(c, "failed")
    /\ faulty' = [faulty EXCEPT ![c] = @ \/ fault]
    /\ UNCHANGED <<group, skipped>>

\* _load_objects(): an error in the directory comes before any request.
Start(c) ==
    /\ pc[c] = "start"
    /\ \/ /\ Goto(c, "packages")
          /\ left' = [left EXCEPT ![c] = PackageOrder]
          /\ UNCHANGED <<group, todo, cur, plan, refs, ioc, skipped, faulty, result>>
       \/ Fail(c, TRUE)
    /\ Idle
    /\ UNCHANGED <<disk, late, removing, original>>

\* Broken form of CreatePackage: a package that exists is an error.
CreateNewPackage(c) ==
    /\ pc[c] = "packages" /\ left[c] # <<>>
    /\ LET p == Head(left[c])
       IN  \/ /\ p \notin packages
              /\ packages' = packages \cup {p} /\ UNCHANGED <<where, content, inactive>>
              /\ Disturb(c)
              /\ left' = [left EXCEPT ![c] = Tail(@)]
              /\ UNCHANGED <<pc, group, todo, cur, plan, refs, ioc, skipped, faulty, result>>
           \/ Idle /\ Fail(c, p \notin packages)
    /\ UNCHANGED <<disk, late, removing, original>>

\* checkin_package(): a package that exists already is good enough.
CreatePackage(c) ==
    /\ pc[c] = "packages" /\ left[c] # <<>>
    /\ LET p == Head(left[c])
           accepted == Parent[p] \in packages \cup {None}
           created == /\ accepted /\ packages' = packages \cup {p}
                      /\ UNCHANGED <<where, content, inactive>>
                      /\ Disturb(c)
       IN  \/ /\ created
              /\ left' = [left EXCEPT ![c] = Tail(@)]
              /\ UNCHANGED <<pc, group, todo, cur, plan, refs, ioc, skipped, faulty, result>>
           \/ (created \/ Idle) /\ Fail(c, accepted)
    /\ UNCHANGED <<disk, late, removing, original>>

\* The first group begins when the last package is there.
BeginObjects(c) ==
    /\ pc[c] = "packages" /\ left[c] = <<>>
    /\ Goto(c, "objects")
    /\ todo' = [todo EXCEPT ![c] = Group(1)]
    /\ Idle
    /\ UNCHANGED <<disk, late, left, group, cur, plan, refs, ioc, skipped, removing,
                   faulty, result, original>>

-----------------------------------------------------------------------------
\* The handlers: an object is created and its files are written.  A function
\* group has includes and functions to create, and of a remote function the
\* processing type is set before it is written.  A file of an unknown part of a
\* class is named in a message, and nothing else comes of it.
PartSteps(o, p) ==
    IF p \notin Known(o) THEN <<>>
    ELSE IF Kind[o] # "fugr" THEN <<[do |-> "write", part |-> p]>>
    ELSE <<[do |-> "part", part |-> p]>>
         \o (IF p \in Remote THEN <<[do |-> "push", part |-> p]>> ELSE <<>>)
         \o <<[do |-> "write", part |-> p]>>

FileSteps(o) ==
    FlattenSeq([i \in DOMAIN Sources[o] |->
        IF i = Len(Sources[o]) /\ disk[o] = "badpart" THEN <<[do |-> "raise", part |-> None]>>
        ELSE PartSteps(o, Sources[o][i])])

Handler(o) == <<[do |-> "create", part |-> None]>> \o FileSteps(o)

\* ExceptionCheckinFailure: the object is left as it is, the next one follows.
Skip(c, o) ==
    /\ skipped' = [skipped EXCEPT ![c] = @ \cup {o}]
    /\ todo' = [todo EXCEPT ![c] = @ \ {o}]
    /\ cur' = [cur EXCEPT ![c] = None]
    /\ plan' = [plan EXCEPT ![c] = <<>>]
    /\ Goto(c, "objects")
    /\ UNCHANGED <<left, group, refs, ioc, faulty, result>>

\* _checkin_dependency_group() takes the next object; a missing file, one too
\* many, a wrong suffix or an unknown type of a program is found at once.
Pick(c) ==
    /\ pc[c] = "objects"
    /\ \E o \in todo[c] :
          \/ disk[o] = "bad" /\ Skip(c, o)
          \/ /\ disk[o] # "bad"
             /\ cur' = [cur EXCEPT ![c] = o]
             /\ plan' = [plan EXCEPT ![c] = Handler(o)]
             /\ Goto(c, "steps")
             /\ UNCHANGED <<left, group, todo, refs, ioc, skipped, faulty, result>>
    /\ Idle
    /\ UNCHANGED <<disk, late, removing, original>>

Doing(c) == Head(plan[c]).do
Part(c) == Head(plan[c]).part

\* The next step of the handler; after the last one the object is referenced.
Advance(c) ==
    /\ plan' = [plan EXCEPT ![c] = Tail(@)]
    /\ IF Len(plan[c]) > 1
       THEN Goto(c, "steps") /\ UNCHANGED <<todo, cur, refs>>
       ELSE /\ refs' = [refs EXCEPT ![c] = @ \cup {cur[c]}]
            /\ todo' = [todo EXCEPT ![c] = @ \ {cur[c]}]
            /\ cur' = [cur EXCEPT ![c] = None]
            /\ Goto(c, "objects")
    /\ UNCHANGED <<left, group, ioc, skipped, faulty, result>>

\* create(): an object that exists is kept, but a class is looked at.
Create(c) ==
    /\ pc[c] = "steps" /\ Doing(c) = "create"
    /\ LET o == cur[c]
       IN  \/ ServeCreate(c, o) /\ Advance(c)
           \/ where[o] # "none" /\ Kind[o] # "clas" /\ Idle /\ Advance(c)
           \/ /\ where[o] # "none" /\ Kind[o] = "clas" /\ Idle
              /\ Goto(c, "fetch")
              /\ UNCHANGED <<working, skipped, faulty, result>>
           \/ (ServeCreate(c, o) \/ Idle) /\ Fail(c, TRUE)
    /\ UNCHANGED <<disk, late, removing, original>>

\* Broken form of FetchClass: the package of the class is not compared.
FetchClassAnywhere(c) ==
    /\ pc[c] = "fetch"
    /\ \/ /\ where[cur[c]] # "none"
          /\ Goto(c, "delete") /\ UNCHANGED <<working, skipped, faulty, result>>
       \/ Fail(c, where[cur[c]] # "none")
    /\ Idle
    /\ UNCHANGED <<disk, late, removing, original>>

\* checkin_clas() reads the class that exists: one of another package is not
\* for this check-in.  The name that it reads is in capitals, the one that it
\* compares is spelled as in the directory or in the command.
FetchClass(c) ==
    /\ pc[c] = "fetch"
    /\ LET o == cur[c]
       IN  \/ where[o] = "here" /\ Home[o] \in Capitals /\ Goto(c, "delete")
              /\ UNCHANGED <<working, skipped, faulty, result>>
           \/ where[o] # "none" /\ ~(where[o] = "here" /\ Home[o] \in Capitals) /\ Skip(c, o)
           \/ Fail(c, where[o] # "none")
    /\ Idle
    /\ UNCHANGED <<disk, late, removing, original>>

DeleteClass(c) ==
    /\ pc[c] = "delete"
    /\ LET o == cur[c]
       IN  \/ /\ ServeDelete(c, o) /\ Goto(c, "recreate")
              /\ UNCHANGED <<late, working, skipped, faulty, result>>
           \/ /\ ServeDelete(c, o) /\ UNCHANGED late
              /\ Fail(c, TRUE)
           \/ /\ Idle /\ late' \in {late, late \cup {<<c, o>>}}
              /\ Fail(c, where[o] # "none" \/ late' # late)
    /\ removing' = [removing EXCEPT ![c] = @ \cup {cur[c]}]
    /\ UNCHANGED <<disk, original>>

\* The second create(): here a class that exists - somebody else was faster -
\* ends the check-in.
Recreate(c) ==
    /\ pc[c] = "recreate"
    /\ LET o == cur[c]
       IN  \/ /\ ServeCreate(c, o) /\ Advance(c)
              /\ removing' = [removing EXCEPT ![c] = @ \ {o}]
           \/ /\ ServeCreate(c, o) /\ Fail(c, TRUE)
              /\ UNCHANGED removing
           \/ /\ Idle /\ Fail(c, where[o] = "none")
              /\ UNCHANGED removing
    /\ UNCHANGED <<disk, late, original>>

\* create() of an include or a function, of which there may be one already.
CreatePart(c) ==
    /\ pc[c] = "steps" /\ Doing(c) = "part"
    /\ LET o == cur[c]
           new == content[o][Part(c)] = "none"
           created == new /\ ServePart(c, o, Part(c), "other")
       IN  \/ created /\ Advance(c)
           \/ ~new /\ Idle /\ Advance(c)
           \/ (created \/ Idle) /\ Fail(c, where[o] # "none")
    /\ UNCHANGED <<disk, late, removing, original>>

\* An edit of a part, with its lock (ObjectEditor has the details): a file is
\* written, or the processing type of a function is pushed.
Edit(c) ==
    /\ pc[c] = "steps" /\ Doing(c) \in {"write", "push"}
    /\ LET o == cur[c]
           p == Part(c)
           edited == ServePart(c, o, p, IF Doing(c) = "write" THEN "file" ELSE content[o][p])
       IN  \/ edited /\ Advance(c)
           \/ (edited \/ Idle) /\ Fail(c, where[o] # "none" /\ content[o][p] # "none")
    /\ UNCHANGED <<disk, late, removing, original>>

\* A file of a class without the suffix .abap, after others were written.
BadPart(c) ==
    /\ pc[c] = "steps" /\ Doing(c) = "raise"
    /\ Skip(c, cur[c])
    /\ Idle
    /\ UNCHANGED <<disk, late, removing, original>>

-----------------------------------------------------------------------------
\* The loop of do_checkin_directory() over the three groups.
NextGroup(c) ==
    /\ group' = [group EXCEPT ![c] = @ + 1]
    /\ IF group[c] = 3 THEN Exit(c, "ok")
       ELSE /\ Goto(c, "objects")
            /\ todo' = [todo EXCEPT ![c] = Group(group'[c])]
            /\ refs' = [refs EXCEPT ![c] = {}] /\ ioc' = [ioc EXCEPT ![c] = {}]
            /\ UNCHANGED <<left, cur, plan, result>>
    /\ UNCHANGED <<skipped, faulty>>

\* A group of which nothing was checked in is not activated.
EndGroup(c) ==
    /\ pc[c] = "objects" /\ todo[c] = {}
    /\ \/ refs[c] = {} /\ NextGroup(c)
       \/ refs[c] # {} /\ Goto(c, "activate") /\ UNCHANGED <<working, skipped, faulty, result>>
    /\ Idle
    /\ UNCHANGED <<disk, late, removing, original>>

Exist(asked) == \A o \in asked : where[o] # "none"
Activated(c, done) ==
    inactive' = inactive \ done /\ UNCHANGED <<packages, where, content>> /\ Disturb(c)

\* Broken form of Outcome: the messages are printed and not looked at.
OutcomePrinted(c, asked) ==
    \E done \in SUBSET asked : Activated(c, done) /\ NextGroup(c)

\* sap.cli.wb.activate(): without an error message everything that was asked for
\* is active; an error message or a fault ends the check-in.
Outcome(c, asked) ==
    \/ Exist(asked) /\ Activated(c, asked) /\ NextGroup(c)
    \/ \E done \in SUBSET asked : Activated(c, done) /\ Fail(c, Exist(asked))

\* mass_activate(): the server activates, or lists what it wants to be activated
\* together, which is confirmed.
Activate(c) ==
    /\ pc[c] = "activate"
    /\ \/ Outcome(c, refs[c])
       \/ /\ \E more \in SUBSET inactive : ioc' = [ioc EXCEPT ![c] = refs[c] \cup more]
          /\ Goto(c, "confirm") /\ Idle
          /\ UNCHANGED <<left, group, todo, cur, plan, refs, skipped, faulty, result>>
    /\ UNCHANGED <<disk, late, removing, original>>

Confirm(c) ==
    /\ pc[c] = "confirm"
    /\ Outcome(c, ioc[c])
    /\ UNCHANGED <<disk, late, removing, original>>

Kill(c) ==
    /\ pc[c] \notin {"start", "done"}
    /\ Exit(c, "killed")
    /\ Idle
    /\ UNCHANGED <<disk, late, group, skipped, removing, faulty, original>>

Step(c) ==
    \/ Start(c) \/ CreatePackage(c) \/ BeginObjects(c) \/ Pick(c) \/ Create(c)
    \/ FetchClass(c) \/ DeleteClass(c) \/ Recreate(c) \/ CreatePart(c) \/ Edit(c)
    \/ BadPart(c) \/ EndGroup(c) \/ Activate(c) \/ Confirm(c) \/ Kill(c)

Next == (\E c \in Clients : Step(c)) \/ \E l \in late : LateDelete(l)

Spec == Init /\ [][Next]_vars
-----------------------------------------------------------------------------
TypeOK ==
    /\ disk \in [Objects -> {"good", "bad", "badpart"}]
    /\ packages \subseteq Packages
    /\ where \in [Objects -> {"none", "here", "elsewhere"}]
    /\ \A o \in Objects : content[o] \in [Parts(o) -> {"none", "other", "file"}]
    /\ inactive \subseteq Objects
    /\ late \subseteq Clients \X Objects
    /\ pc \in [Clients -> {"start", "packages", "objects", "steps", "fetch", "delete",
                           "recreate", "activate", "confirm", "done"}]
    /\ group \in [Clients -> 1 .. 4]
    /\ todo \in [Clients -> SUBSET Objects]
    /\ cur \in [Clients -> Objects \cup {None}]
    /\ refs \in [Clients -> SUBSET Objects] /\ ioc \in [Clients -> SUBSET Objects]
    /\ skipped \in [Clients -> SUBSET Objects]
    /\ removing \in [Clients -> SUBSET Objects]
    /\ faulty \in [Clients -> BOOLEAN] /\ disturbed \in [Clients -> BOOLEAN]
    /\ result \in [Clients -> {"none", "ok", "failed", "killed"}]

CheckedIn(o) ==
    where[o] # "none" /\ o \notin inactive /\ \A p \in Known(o) : content[o][p] = "file"

\* A group is done before the next one begins, and exit code 0 comes after the
\* last: its objects are on the server, active, with the files of the directory,
\* less the files of unknown parts of classes.  Only a bad file excuses an object,
\* and a class also that it is of another package, or its package in no capitals.
GroupsComplete ==
    \A c \in Clients :
        /\ ~disturbed[c] => \A o \in Objects :
              Rank(o) < group[c] /\ o \notin skipped[c] => CheckedIn(o)
        /\ result[c] = "ok" => group[c] = 4
        /\ \A o \in skipped[c] :
              \/ disk[o] # "good"
              \/ Kind[o] = "clas" /\ (original[o] = "elsewhere" \/ Home[o] \notin Capitals)

\* A class of another package stays as it is; one of this package is missing
\* only while a check-in recreates it, or because one was stopped there.
ClassesSurvive ==
    \A o \in Objects :
        /\ Kind[o] = "clas" /\ original[o] = "elsewhere" =>
              where[o] = "elsewhere" /\ \A p \in Parts(o) : content[o][p] = "other"
        /\ original[o] # "none" /\ where[o] = "none" =>
              \E c \in Clients : o \in removing[c] /\ result[c] # "ok"

\* Whatever earlier check-ins left on the server, one that meets no fault and
\* nobody else's changes does not fail.
RerunSucceeds ==
    \A c \in Clients : result[c] = "failed" => faulty[c] \/ disturbed[c]
=============================================================================
