------------------------------- MODULE Commands -------------------------------
(***************************************************************************)
(* The commands that share no state with each other, side by side: every   *)
(* behaviour chooses a part, and only the variables of that part move. The *)
(* small modules share the variables actor, place and history; the module  *)
(* Attributes has its own, and its theorems are about its own Spec.        *)
(***************************************************************************)
EXTENDS Attributes, Naturals, Sequences, FiniteSets

CONSTANTS Clients,                  \* users of sapcli, and processes
          Transport, TaskOrder, ObjectOrder,   \* of CtsRequests: the transport, its tasks
                                               \* and the objects in them
          Reports,                  \* of Activation: the objects
          Identities, Certs,        \* of Strust: PSE files and certificates
          ClassNames,               \* of AdhocRun: names that can be drawn
          CheckedNames,             \* of AtcReport: objects to be checked
          Rids, System,             \* of GctsRepo: repositories, and the system
          Subs,                     \* of PackageTree: packages below the named one
          MaxNames, MaxMessages, MaxCommands, MaxRuns, MaxElements, MaxEvents   \* bounds

ASSUME ClientsAssumption == "none" \notin Clients /\ "colleague" \notin Clients
ASSUME BoundsAssumption ==
    /\ MaxNames \in Nat /\ MaxMessages \in Nat /\ MaxCommands \in Nat
    /\ MaxRuns \in Nat /\ MaxElements \in Nat /\ MaxEvents \in Nat

\* The tasks of a transport and the objects are listed once each.
Listed(order) == {order[i] : i \in DOMAIN order}
EachOnce(order) ==
    /\ order \in Seq(Listed(order))
    /\ \A i, j \in DOMAIN order : order[i] = order[j] => i = j
ASSUME OrdersAssumption ==
    EachOnce(TaskOrder) /\ EachOnce(ObjectOrder) /\ Transport \notin Listed(TaskOrder)

\* A system has finitely many repositories, and PSE files and certificates.
ASSUME RidsAssumption == IsFiniteSet(Rids)
ASSUME StrustAssumption == IsFiniteSet(Identities) /\ Identities # {} /\ IsFiniteSet(Certs)

\* Objects to be checked: the command line asks for one at least.
ASSUME ChecksAssumption == CheckedNames # {}

\* There are finitely many packages, and their names are none of those that PackageTree
\* gives to the named package, to the places outside of it and to the objects.
ASSUME SubsAssumption ==
    IsFiniteSet(Subs) /\ Subs \cap {"top", "elsewhere", "gone", "prog", "intf", "other"} = {}

VARIABLES part,                      \* which of the parts it is
          actor, place, history,     \* of the small modules
          status, owner, objects, cmd, pc, fetched, plan, calm, result,   \* of CtsRequests
          command, activateToo, continueOnErrors, warningsAsErrors, names, phase, pos,
          todo, ioc, messages, looked, stats, rc, inactive, deleted, written,
          requested, bad             \* of Activation

small == <<actor, place, history>>
cts == <<status, owner, objects, cmd, pc, fetched, plan, calm, result>>
activation == <<command, activateToo, continueOnErrors, warningsAsErrors, names, phase,
                pos, todo, ioc, messages, looked, stats, rc, inactive, deleted, written,
                requested, bad>>
all == <<part, vars, small, cts, activation>>

Cts == INSTANCE CtsRequests WITH seen <- fetched
Act == INSTANCE Activation WITH Objects <- Reports, seen <- looked
Trust == INSTANCE Strust WITH client <- actor, server <- place, seen <- history
Adhoc == INSTANCE AdhocRun WITH Names <- ClassNames, client <- actor, server <- place, seen <- history
Aunit == INSTANCE AunitReport WITH client <- actor, server <- place, seen <- history
Atc == INSTANCE AtcReport WITH Names <- CheckedNames, client <- actor, server <- place, seen <- history
User == INSTANCE Users WITH client <- actor, server <- place, seen <- history
Repo == INSTANCE GctsRepo WITH client <- actor, server <- place, seen <- history
Xml == INSTANCE Marshalling WITH client <- actor, server <- place, seen <- history
Tree == INSTANCE PackageTree WITH client <- actor, server <- place, seen <- history

-----------------------------------------------------------------------------
NoCts ==
    /\ status = [r \in Cts!Requests |-> "D"] /\ owner = [r \in Cts!Requests |-> "colleague"]
    /\ objects = [t \in Cts!Tasks |-> {}]
    /\ cmd = [c \in Clients |-> [op |-> "release", number |-> Transport, recursive |-> TRUE]]
    /\ pc = [c \in Clients |-> "done"] /\ fetched = [c \in Clients |-> {}]
    /\ plan = [c \in Clients |-> <<>>] /\ calm = [c \in Clients |-> FALSE]
    /\ result = [c \in Clients |-> "none"]

NoActivation ==
    /\ command = "define" /\ activateToo = FALSE /\ continueOnErrors = FALSE
    /\ warningsAsErrors = FALSE /\ names = <<>> /\ phase = "done" /\ pos = 1 /\ todo = <<>>
    /\ ioc = {} /\ messages = <<>> /\ looked = TRUE /\ stats = [errors |-> 0, warnings |-> 0]
    /\ rc = "none" /\ inactive = {} /\ deleted = {} /\ written = {} /\ requested = {}
    /\ bad = {}

NoSmall == actor = <<>> /\ place = <<>> /\ history = <<>>

NoAttributes ==
    /\ client = [cmd |-> [do |-> "toggle", given |-> TRUE, valid |-> TRUE, force |-> TRUE,
                          activate |-> FALSE],
                 have |-> New, failed |-> FALSE, exit |-> "error", pc |-> "done"]
    /\ server = [exists |-> TRUE, locked |-> FALSE, fields |-> New]
    /\ seen = [before |-> New, others |-> [f \in Fields |-> "no"], refused |-> FALSE]

CommandsInit ==
    \/ part = "attributes" /\ Init /\ NoSmall /\ NoCts /\ NoActivation
    \/ part = "cts" /\ Cts!Init /\ NoSmall /\ NoAttributes /\ NoActivation
    \/ part = "activation" /\ Act!Init /\ NoSmall /\ NoAttributes /\ NoCts
    \/ /\ NoAttributes /\ NoCts /\ NoActivation
       /\ \/ part = "strust" /\ Trust!Init
          \/ part = "adhoc" /\ Adhoc!Init
          \/ part = "aunit" /\ Aunit!Init
          \/ part = "atc" /\ Atc!Init
          \/ part = "user" /\ User!Init
          \/ part = "repo" /\ Repo!Init
          \/ part = "xml" /\ Xml!Init
          \/ part = "tree" /\ Tree!Init

CommandsNext ==
    /\ \/ part = "attributes" /\ Next /\ UNCHANGED <<small, cts, activation>>
       \/ part = "cts" /\ Cts!Next /\ UNCHANGED <<vars, small, activation>>
       \/ part = "activation" /\ Act!Next /\ UNCHANGED <<vars, small, cts>>
       \/ part = "strust" /\ Trust!Next /\ UNCHANGED <<vars, cts, activation>>
       \/ part = "adhoc" /\ Adhoc!Next /\ UNCHANGED <<vars, cts, activation>>
       \/ part = "aunit" /\ Aunit!Next /\ UNCHANGED <<vars, cts, activation>>
       \/ part = "atc" /\ Atc!Next /\ UNCHANGED <<vars, cts, activation>>
       \/ part = "user" /\ User!Next /\ UNCHANGED <<vars, cts, activation>>
       \/ part = "repo" /\ Repo!Next /\ UNCHANGED <<vars, cts, activation>>
       \/ part = "xml" /\ Xml!Next /\ UNCHANGED <<vars, cts, activation>>
       \/ part = "tree" /\ Tree!Next /\ UNCHANGED <<vars, cts, activation>>
    /\ UNCHANGED part

CommandsSpec == CommandsInit /\ [][CommandsNext]_all

-----------------------------------------------------------------------------
(* Each variable of each part keeps its type. *)
TypesOK ==
    CASE part = "attributes" -> TypeOK
      [] part = "cts" -> Cts!TypeOK
      [] part = "activation" -> Act!TypeOK
      [] part = "strust" -> Trust!TypeOK
      [] part = "adhoc" -> Adhoc!TypeOK
      [] part = "aunit" -> Aunit!TypeOK
      [] part = "atc" -> Atc!TypeOK
      [] part = "user" -> User!TypeOK
      [] part = "repo" -> Repo!TypeOK
      [] part = "xml" -> Xml!TypeOK
      [] part = "tree" -> Tree!TypeOK

\* A recursive cts command handles a transport after all of its tasks.
ParentLast == Cts!ParentLast

\* A cts command that reports success has released, deleted or reassigned.
OkMeansDone == Cts!OkMeansDone

\* A cts command that is run again after a failure gets through.
RetryCompletes == Cts!RetryCompletes

\* Exit code 0 of write -a and of activate means that what they name is active, and
\* no error message of an activation goes unnoticed; and nothing is activated
\* before all sources are written.
ActivationAsReported ==
    Act!ZeroMeansActive /\ Act!ErrorsFailTheCommand /\ Act!ActivatesOnlyWhenAllWritten

\* A command that reports success has its PSE files in use by the ICM, with its
\* certificates in all of them.
DoneIsInUse == part = "strust" => Trust!DoneIsInUse

\* A key that somebody else stored is destroyed only by a command that was told to.
KeysSurvive == [][part = "strust" => Trust!KeySurvives]_all

\* A temporary class is gone after its run, unless a request was not answered, and
\* a run that succeeds prints the output of its own program.
RunsAlone == part = "adhoc" => Adhoc!NothingLeftBehind /\ Adhoc!OutputIsOwn

\* The exit code of ABAP Unit and ATC tells whether tests failed and whether
\* findings were severe, in every format that looks into the result.
ExitTellsTheResult ==
    /\ part = "aunit" => Aunit!ExitTellsTheTests
    /\ part = "atc" => Atc!ExitTellsTheFindings

\* What doc/commands/aunit.md says of the exit code.
FailedTestsFailTheRun == part = "aunit" => Aunit!FailedTestsFailTheRun

\* A command that reports success has set the password as it was told to, and the
\* dummy password stays only after one that failed half way.
PasswordIsKnown == part = "user" => User!PasswordIsKnown

\* A gcts command changes the named repository, as asked, and nothing else.
RepositoryAsReported == part = "repo" => Repo!RepositoryAsReported

\* Objects and XML documents say the same.
MappingIsFaithful == part = "xml" => Xml!MappingIsFaithful

\* Walks through packages are complete, and their commands report what happened.
TreeAsReported == part = "tree" => Tree!TreeAsReported
=============================================================================
