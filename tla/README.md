# sapcli in TLA+

sapcli (`src/sap`, started by `src/bin/sapcli`) is a command line client of
SAP ABAP systems. A process runs one command and exits; it talks to the server
over HTTP (ADT, gCTS, OData) or RFC. It keeps nothing between two commands but
its configuration file. So nearly every hard question about it has the same
form: the server has state, several people and processes change it, a command
changes it in several requests, and any of the requests may be refused, may lose
its answer, or may be carried out after the client has given up. What can the
user trust after the command said that it succeeded, or failed? What is left
behind? Does the command end?

The modules here translate the code that decides those questions. TLC checks
them on small instances, TLAPS proves the most important results for every value
of the constants.

Running:

    tlc -workers 2 -config HttpSession.cfg HttpSession
    tlapm HttpSession_proofs.tla

`PROJECT.json` lists the runs, the broken variants ("mutants") that every property
is tried on, the source lines of every definition, the hazards and the theorems.

## Inventory

| Component | Source (`src/sap/`) | State | Operations | What is hard | Module |
| --- | --- | --- | --- | --- | --- |
| HTTP session | `http/client.py`, `http/errors.py` | session, CSRF token, login path | `retrieve`, `build_session`, `execute_with_session` | repeated requests after a 403, timeouts, lost sessions | `HttpSession`, `RemoteCall` |
| ADT connection | `adt/core.py` | cached session, collection types | `_get_session`, `execute`, `collection_types` | discovery with two addresses, partly built session | `HttpSession` |
| REST connection | `rest/connection.py` | cached session | the same, without discovery | the same | `HttpSession` |
| ADT objects | `adt/objects.py` | lock handle, content | `lock`, `open_editor`, `push`, `write`, `unlock` | locks left behind, two editors, class includes | `ObjectEditor` |
| Attributes of single objects | `adt/dataelement.py`, `adt/apirelease.py`, `adt/businessservice.py`, `adt/featuretoggle.py`, `adt/enhancement_implementation.py` and their commands | what was read of the object | `define`, `chattr`, `set-active`, `apistate set`, `publish`, toggles | read before the lock, sent back whole | `Attributes` |
| Activation | `adt/wb.py`, `cli/wb.py`, `cli/object.py` | inactive objects, statistics | `write`, `activate`, mass activation with preaudit | the list of the server, error and warning flags, exit code | `Activation` |
| gCTS contexts | `rest/gcts/sugar.py`, `rest/gcts/remote_repo.py`, `cli/gcts.py` | options and branch of the repository, client cache | `temporary_config`, `temporary_switched_branch`, `checkout`, `pull` | putting back what was found, two processes, recover messages | `TemporaryConfig` |
| gCTS clone | `rest/gcts/simple.py`, `rest/gcts/repo_task.py`, `rest/gcts/activities.py`, `cli/gcts.py` | repository status, tasks, activities | `clone`, `schedule_clone`, `wait_for_*` | work on the server outlives the command | `GctsClone` |
| Other gCTS commands | `rest/gcts/remote_repo.py`, `rest/gcts/log_messages.py`, `cli/gcts.py`, `cli/gcts_task.py` | data of a repository, options of the system | set, unset, branches, pull, commit, delete, everything that is shown | names and URLs, stale properties, odd answers | `GctsRepo` |
| Configuration file | `config.py`, `cli/config.py` | the file, its copy in memory | `set-*`, `delete-*`, `use-context`, `merge` | no lock, truncated file, references between entries | `ConfigFile` |
| CTS requests | `adt/cts.py`, `cli/cts.py` | transports, tasks, objects | `release`, `delete`, `reassign`, recursive | list read once, failure in the middle, run again | `CtsRequests` |
| Check-in | `cli/checkin.py` | objects on disk and on the server | create, recreate, write, activate in groups | partial failure, run again, two at once | `Checkin` |
| Walks and check-out | `adt/package.py`, `adt/repository.py`, `adt/checks.py`, `cli/package.py`, `cli/checkout.py` | queue of packages, files on disk | list, delete, activate, check, checkout | the tree changes during the walk, files of the same name | `PackageTree` |
| ABAP runner | `platform/abap/run.py`, `cli/abap.py` | one temporary class | create, write, activate, run, delete | two users, clean-up after failure | `AdhocRun` |
| Pollers, heart beat | `adt/api/aunit.py`, `adt/abapgit.py`, `cli/abapgit.py`, `cli/helpers.py` | status of a job, a thread with three states | start, poll, report; start, stop | loops without an end of their own, two threads | `Pollers` |
| STRUST | `rfc/strust.py`, `cli/strust.py` | PSE files, certificates, what the ICM loaded | create, put, sign, remove, notify | the order over several storages, another administrator | `Strust` |
| Users, RFC | `rfc/*.py`, `cli/user.py`, `cli/startrfc.py` | user record | BAPI calls | two calls for one password, return tables | `Users` |
| Reports | `adt/aunit.py`, `adt/atc.py`, `adt/acoverage*.py`, `cli/aunit.py`, `cli/atc.py` | results of the tests, findings | parse, count, print | which failures reach the exit code | `AunitReport`, `AtcReport` |
| XML mapping | `adt/annotations.py`, `adt/marshalling.py` | the handler of the parser | serialise, parse | nested, repeated, unknown elements | `Marshalling` |
| Object kinds | `adt/programs.py`, `adt/function.py`, ... | one document | accessors | data only | - |
| OData, FLP, BSP | `odata/`, `flp/`, `cli/bsp.py` | - | single calls | little | - |
| Searches, previews, console | `adt/search.py`, `adt/datapreview.py`, `cli/core.py` | - | read, print | little | - |
| ABAP data types | `platform/abap/` | - | XML of structures and tables | data only | - |

Interactions: every command calls `Connection.execute()`; what it may rely on is
the module `RemoteCall`, and `HttpSession` implements it. All other modules use a
request the way `RemoteCall` describes it: answered and carried out, refused and
not carried out, or lost, in which case it was, will be, or never will be carried
out. The commands of `Activation` write through the editors of `ObjectEditor`,
`Checkin` and `AdhocRun` use both, `Attributes` uses a lock of `ObjectEditor`,
`GctsClone` enters one context of `TemporaryConfig`, and `AunitReport` begins where
`Pollers` ends. Processes share only the server and the configuration file.

What makes each component correct is stated as the properties below.

## The modules

In the small modules there are three variables: `client` is the command and what
it knows, `server` what it works on, `seen` is history that only properties
read. Commands, arguments and what others do are chosen freely from small sets.

### RemoteCall and HttpSession

`RemoteCall` is the abstract specification: calls one after the other, the server
executes a call at most once, and the outcome tells the truth. `HttpSession` is
`HTTPClient` with the session building of the two connection classes. One call of
`execute()` is `StartCall`, then a step for each answer (`LoginReply`,
`FirstReply`, `FetchReply`, `SecondReply`: the first attempt, the token, the second
attempt) or `GiveUp` for a timeout or a broken connection. Requests are on the
`wire` until the server handles them; they stay there when the client gives up.
`Handle` and `Expire` are the server. Header names, SSL and the texts of errors
are left out; an ADT error document is one error.

The run `http_session` (three calls, the session is forgotten twice, so that a
token can be renewed in two different calls and once more in the repetition)
shows:

* `AtMostOnce`: no call is carried out twice, although it is sent twice after a 403.
* `OutcomeIsTruthful`: a call that raised an HTTP error was not carried out and
  no copy is under way; one that returned, or failed on the content type, was.
* `EveryCallEnds`: under weak fairness of the client's own steps. The code
  justifies it: `session.send()` always has a timeout. The timeout is one of each
  request and not of the call, so it is fair only while an answer is missing; a
  client that repeated requests for ever would not be saved by it. Nothing is
  assumed of the server.
* `ImplementsRemoteCall`: the refinement. What is abstract of the session keeps its
  names (`call`, `outcome`, `executed`); its wire, token and place are hidden.

### ObjectEditor

Processes that edit one object at the same time. `Lock` is `open_editor()`, which
locks before it knows whether the type has an editor; `Write`, `Generate`,
`Unlock` are the with block and its end; `Fetch` is the read of the commands that
change attributes. The server keeps one lock with the session that asked for it;
`Expire` drops the session with its lock; `Kill` ends a process anywhere.

The run `object_editor` has two processes of every kind of editor. Two are enough:
a lock has one holder, and the properties relate two processes at most. It shows
that editors exclude each other unless the server dropped a session
(`EditorsExcludeEachOther`), that success means an accepted change and no lock now
or later (`OkMeansDone`), and exactly when a lock stays behind (`LeakOnlyIf`): the
editor was never created, UNLOCK failed, or the process was killed.
`EveryEditEnds` needs weak fairness of the steps of each process (each request is
answered or times out) and none of the server.

### TemporaryConfig

`gcts repo branch update_filesystem` and `gcts checkout`: contexts that set the
options `VCS_NO_IMPORT` and `VCS_BUFFER_ONLY` and the branch, and put back the old
values. Each context goes through `ReadConfig`/`ReadKey` or `ReadBranch`, then
`SetTemporary`, and, at the end, `Revert`; `Body` is the checkout or pull. `data`
and `config` are the caches of the `Repository` proxy with its wiping rules,
`Fetch` the request that fills them wherever the code needs them. `note` is the
recover message. `disturbed` and `unanswered` are history: somebody else changed
the repository, a request of the process got no answer.

* `temporary_config`: one process, every command line, every initial setting.
  `OkMeansRestored`, `UpdateTellsWhatToRestore` (for what is not put back there is
  a recover message with the right value, unless the very first change lost its
  answer; it is printed unless the command ends with a traceback, as it does when
  the output file cannot be written, or after an exception that is no
  `SAPCliError`, such as the `KeyError` of an answer without a token or a result),
  `EveryCommandEnds` (weak fairness of the process' steps: requests time out, and
  `wait_for_operation` counts the time).
* `temporary_race`: two processes on one repository, one with two contexts that
  switches the branch, the other updating the file system. Nothing is imported
  against the options unless the other process, or a lost answer, explains it
  (`NoUnwantedImport`); an option never gets a value that nobody set
  (`OnlyFlagOrOriginal`). The choice of commands and settings is smaller than in
  the first run, which has covered the single commands: one option has a value to
  put back, the other has none. States are compared without the recover messages
  and the results (`VIEW MCRacingView`): no step reads them, and neither do these
  two properties.
* `temporary_recover`: finding.

One assumption about the server: an error for one option that carries a result, which
`get_json()` takes for an answer, says what the server has.

### ConfigFile

All commands that change the configuration file, run by several processes. A
command loads the file (`Load`, with its checks and the change in memory),
truncates it (`Open`) and writes it (`Write`); it can be killed anywhere. A write
goes to the start of the file, so a shorter content over a longer one leaves a
remainder. Two simplifications: a configuration fits the write buffer, so that it
is written at once; and what two writers mixed is never valid YAML.

The run `config_file`: two processes, three commands, one connection, one user,
two contexts, and two sources to merge, a complete one and one that is shared
without its users. Three commands let one process read, another one write in
between, and the first one save; two contexts are needed for a current one and
another one.

* `ReferencesHold`: a context refers to nothing missing, except where
  `set-context` was given an unknown name, `--force` was used, or `merge` read the
  context from a source that lacks the entry as well. `merge` looks at no
  reference, but breaks none that holds in the file or in the source.
* `CurrentContextExists`.
* `NoLostUpdate`: the file is what the successful commands, one after the other,
  make of it, unless two of them overlapped or one was stopped inside of the save.
  The condition is the hazard: nothing in the code prevents the overlap.

### Checkin

The pipeline of `checkin`: packages (`CreatePackage`), then the three groups of
`_resolve_dependencies()`. `Handler` is what is done for one object, as a list of
steps; `Create`, `CreatePart`, `Edit` are its requests (an edit is a whole with
block of `ObjectEditor`), `FetchClass`, `DeleteClass` and `Recreate` the way of a
class that exists, `Skip` the exception that leaves one object and goes on with
the next, `Activate`, `Confirm` and `Outcome` the activation of a group. The order
of the objects of a group is that of `os.walk()` and `glob`, and left open. A
deletion the client gave up may still happen (`LateDelete`). Of the server it is
assumed that an activation without an error message activates what it was asked
for, and that a preaudit lists at least that. Contents are reduced to "none",
"other" and "the file". `Known` leaves out the files of class parts that
`checkin_clas()` does not know: it names them in a message and goes on. `Capitals`
are the packages that are spelled in capitals: the package that the server names for
a class is put in capitals, the one it is compared with is not, so that a class that
exists in a package with another spelling is taken for a foreign one and left out.

The run `checkin` has two processes, which covers a check-in that is run again
after another one has failed as well as two at once; a group of two classes, an
empty group, and one with a function group that has a remote function; a class with
two files and one of an unknown part, and one whose package is not spelled in
capitals; all kinds of bad files; objects that are missing, present, or in another
package. A program would be handled like the class with one file, except that
nothing looks at its package. The processes do not differ, so that symmetry is sound
for these invariants.

* `GroupsComplete`: a group is on the server, active and with the files of the
  directory that are of a known part, before the next one begins; exit code 0 comes
  after the last one; only a bad file excuses an object, and a class also that it is
  of another package, or its package not spelled in capitals. It holds as long as
  nobody else changes the server.
* `ClassesSurvive`: a class of another package is never touched; one of this
  package is missing only while it is recreated, or because a check-in was stopped
  there.
* `RerunSucceeds`: whatever earlier check-ins have left, one without a fault and
  without interference succeeds. A lock that a killed process left counts as a
  fault.

### The commands side by side: MCCommands

The modules that follow share no state with each other: a command of one of
them works on PSE files, another on transports, and no line of the code relates
the two. `Commands` puts them side by side. Every behaviour chooses a part in
its first state, and only the variables of that part move, so that the run
`commands` checks each part exactly as a run of its own would, and a theorem about
`CommandsSpec` says of each part what a theorem of its own would. `Commands`
EXTENDS `Attributes`, whose variables keep their names, and takes the others as
instances; the small ones share the three variables `actor`, `place`, `history`.
Its assumptions are those of the parts: "none" and "colleague" are no clients
(`ClientsAssumption`), the bounds are natural numbers (`BoundsAssumption`), tasks
and objects of a transport are listed once each (`OrdersAssumption`),
repositories, PSE files and certificates are finitely many (`RidsAssumption`,
`StrustAssumption`), a check names one object at least (`ChecksAssumption`), and
sub packages are finitely many, with names apart from those the model gives to
the named package, its surroundings and the objects (`SubsAssumption`).

`MCCommands` is the instance for TLC. Symmetry is that of the clients of
`CtsRequests` and the objects of `Activation`, which are never compared with
anything named; there is no liveness property in this run. `TypesOK` is the type
invariant of whichever part it is.

**Activation**: `write -a`, `activate`, the mass activation of the check-in, and
the commands that write and activate one object (`define`). `Preaudit` and
`Confirm` are the two requests of an activation: the server may answer with a list
of inactive objects, which the client confirms without those that are deleted.
`Fetch` reads whether the object is active, `HandleResults` is the worker with its
statistics and its decision to stop, `MassVerdict` the simpler rule of the
check-in. Two objects, lists of two names (the same name twice included) and two
messages are enough for a warning after an error, an error in the first or the
last object, an inactive object that is not in the list. `ActivationAsReported`
has three parts: exit code 0 means that every object is active
(`ZeroMeansActive`), no error message is lost (`ErrorsFailTheCommand`), nothing is
activated before everything is written (`ActivatesOnlyWhenAllWritten`).
`activation_stop` is a finding.

**CtsRequests**: `cts release`, `delete` and `reassign` with and without
`--recursive`. A recursive command reads the request once (`Begin`), walks what it
has read (`Plan`) and stops at the first refusal or lost answer (`Call`).
`Colleague` adds tasks and objects and releases requests at any time. Of the
server it is assumed that released requests stay as they are, that a transport is
released only after its tasks, and that only an empty request can be deleted. Two
clients, one transport with two tasks and one object. `ParentLast`: the transport
is never handled before the tasks that were seen. `OkMeansDone`: a reported
success is true. `RetryCompletes`: a recursive command that meets no fault and no
interference succeeds from everything an earlier one may have left; the exception
is the deletion of a transport with a released task.

**Strust**: the commands that change PSE files. A command is a list of RFC calls
that `Plan` gives; `Check` may add a call or end the command. The ICM uses what
it loaded last; `Notify` makes it load again. `Others` is another administrator.
`KeysSurvive`: a key that somebody else stored is destroyed only by a command
that was told to, also when he stored it between the check and the creation.
`DoneIsInUse`: after a success the ICM uses the files, with the certificates in
all of them; the exception is a `createpse` that finds the PSE an earlier, failed
command has created, and does not notify the ICM.

**AdhocRun**: the temporary class of `abap run`, for two processes that draw the
same name, and two runs of each. Requests to create and delete can arrive late
(`ServeLate`). `RunsAlone`: a class is left behind only by a process with a
request that was not answered (`NothingLeftBehind`), and a run that succeeds
prints the output of its own program unless a class was deleted under it
(`OutputIsOwn`).

**AunitReport** and **AtcReport**: from the answer to the exit code. `Element`
is the SAX handler with its forgotten class, `Report` the counting of each
format, `Coverage` what follows; `Run` and `Fetch` are a worklist of ATC. The
answer is any document of three elements, one of which may stand for 256 methods.
`ExitTellsTheResult`: exit code 0 hides a failed test only if the server made the
report, only coverage was asked for, or there are 256 errors or more; another exit
code has a reason; every name is tested except for transports after the first one; and ATC
ends with 0 only if no finding that it was shown has the level of an error.
`aunit_exit` is a finding.

**Users**: the two calls that set a productive password. `PasswordIsKnown`: a
command that succeeded has set the password as it was told to, and the dummy
password stays only after one that failed half way. There are two exceptions: a call
that ends with a message of the type A (abort), which `raise_for_error` does not
take for an error; and an answer without LOGONDATA or USTYP (`Details`), after which
the password is set, but not as a productive one, whatever the type of the user is.

**GctsRepo**: the gCTS commands that look for one repository, fetch what they
need of it and send one request. `Resolve` is the search by name or URL, `Fetch` the
property before it is set, `Request` the change, `Show` what becomes of an answer
that may lack its key, its body or its type. `TakeError` is the rule of
`get_json()`, which every GET goes through: an error whose body has a result is an
answer. Two repositories and the system. `RepositoryAsReported`: the repository is
the one that was named (`TheOneNamed`), what is reported as done is done
(`SuccessIsTrue`), nothing else is changed (`ChangesOnlyAsked`). An error with a
result excuses that a pull was not carried out, and that the old value of an option
that is shown is not the one the repository had; nothing else.

**Marshalling**: the SAX parser and the writer of ADT documents, for a class with
an attribute, a text, an object and a list of objects. Documents are any
well-formed series of six events, with unknown elements, or what `Serialize`
writes of an object. `MappingIsFaithful`: documents are rejected only for text or
attributes out of place (`RejectedOnlyIfStray`), the object says what the
document says (`ParsedAsWritten`), and what was written is read back
(`RoundTrip`). Unknown elements inside of a text are excluded: the text is
cut there. Six events reach a second item of a list with a text, and a text after
an unknown element.

**PackageTree**: `package list`, `delete`, `activate`, `check` and `checkout
package`. `WalkPackages` and `WalkObjects` are the queue of the walk with its
paths, `Visit` the check-out of one object or package, `DeletePackage` the deletion
from the inside out. `Others` moves a package or a program once. Two sub packages
are the least for two below the top and for one below the other.
`TreeAsReported`: nothing is missed or visited twice (`CompleteIfCalm`), a package
that is reported as deleted is gone with its contents (`DeletedMeansGone`),
a checkout that ends well wrote every object that it supports or has named it
(`CheckedOut`), and no error of a check is lost (`CheckedMeansNoError`). What a
checkout names it may name for the wrong reason: a `KeyError` of any of its requests
is printed as an unsupported object.

**Attributes**: the commands that change one attribute of an object, read it
before they lock it (or do not lock it), and send it back whole. `Others` changes
a field at any time that no lock forbids. Three fields stand for the rest of the
object: an option, which `define` sets to its default when it is not given; what
`normalize()` changes (the lengths of the labels, and the switches the element
lacks); and everything else. `AttributesAsAsked`: the other fields but these two of
`define` keep their values, and what somebody else made of them is lost only if it was
done between the reading and the lock (`NothingLost`); a success means that the
attribute is set (`OkMeansSet`); what the validation refused is not changed, and
the lock is given back (`NothingUnwanted`).

### Commands that wait: MCWaiting

`MCWaiting` is `GctsClone` next to `Pollers`, for the same reason and in the same
way. It is a run of its own because its properties are about progress.

**GctsClone**: the command `gcts clone`, run several times by one user. The
synchronous form is one long request (`Request`), whose error does not tell
whether the server goes on (`late`); the other form creates and schedules a task
and polls it (`CreateTask`, `ScheduleTask`, `Poll`). `Leave` puts the option back,
`Caught` is the list of except clauses with the exception that is put off,
`CheckActivities` and `WaitReady` decide what it meant. `--buffer-only` is left out:
it sets another option in the same way as `--no-import`.

**Pollers**: `abapgit pull` with its second thread, and the runs of ABAP Unit over
the API. `Look` is one question of the loop. The main thread (`Enter`, `Leave`,
`Join`) and the heart beat (`Begin`, `Loop`, `Dot`, `Last`) are cut where they read
or write the shared state; `Interrupt` is Ctrl-C inside of `__enter__()` or
`__exit__()`. Jobs are numbered, so that the job that is shown may be that of
somebody else (`Others`).

The run `waiting` has two runs of clone, the least for a repository, a task or an
activity that an earlier run left behind, and up to four jobs: one before the
command, its own, one of another user and one more after that.

* `ZeroMeansCloned`: success means a cloned repository, unless the server has
  recorded the clone without a return code, which `get_activity_rc()` takes for 0.
* `ImportsOnlyIfAbandoned`: objects are imported against the option only by work
  the command gave up.
* `ReportIsCurrent`: what is reported is the result of the command's own job or of
  a later one, never of an earlier or an unfinished one.
* `NoStrayDots`: the thread prints nothing into or after the report.
* `EveryRunEnds`: a clone ends whatever the server does. Tasks may stay scheduled
  for ever: the waiting counts its time.
* `EveryWaitEnds`: a pull, and a run of ABAP Unit, end with both of their threads
  unless the job never ends, ABAP Unit sends a status that is not known, or Ctrl-C
  hit the start of the thread. There is no time limit here.

Fairness: weak fairness of the command's own steps, one condition for each of the
two threads, as the operating system schedules them independently of each
other. None of the server's steps is fair.

`clone_import` is a finding.

## Bounds

| Run | Bounds |
| --- | --- |
| `http_session` | `MaxCalls` 3, `MaxExpiries` 2 |
| `object_editor` | 2 processes |
| `temporary_config`, `temporary_recover` | 1 process, all commands, all settings |
| `temporary_race` | 2 processes with the commands of `MCRacingCommands`, 1 initial setting |
| `config_file` | 2 processes, `MaxCommands` 3, 2 sources to merge |
| `checkin` | 2 processes, 2 packages, 3 objects with 5 sources |
| `waiting` | `MaxRuns` 2, `MaxJobs` 4 |
| `clone_import` | `MaxRuns` 1 |
| `commands`, `activation_stop` | `Activation`: 2 objects, `MaxNames` 2, `MaxMessages` 2 |
| `commands`, `aunit_exit` | `AunitReport`: `MaxElements` 3 |
| `commands` | `CtsRequests`: 2 clients with one command each, 2 tasks, 1 object; `Strust`: 2 identities, 2 certificates, `MaxCommands` 2; `AdhocRun`: 2 clients, 1 name, `MaxRuns` 2; `AtcReport`: 2 names; `Users`: `MaxCommands` 2; `GctsRepo`: 2 repositories and the system; `Marshalling`: `MaxEvents` 6; `PackageTree`: 2 sub packages; `Attributes`: 3 fields |

Why they are enough is said with each module. In general: two commands are one
that fails and the one that finds what it left; two actors are the one that
interferes and the one that is interfered with; and no property relates more than
two of either.

Every configuration switches deadlock checking off: processes end, and the
bounded counters run out.

## Proofs

TLAPS proves the following for every number of processes, calls, runs, names,
files, tasks, repositories and losses of a session, from the named assumptions of
the modules. Every proof has the same outline: an invariant that is inductive, one
lemma per action that keeps it, and the theorem at the end of the section. Where
the invariant is larger than the property, the paragraph says by what and why.

**HttpSession_proofs** (assumes `MaxCalls` and `MaxExpiries` natural numbers).
`TypeCorrect`, `NeverTwice`, `Truthful` and the refinement
`SessionImplementsCall`. `AtMostOnce` is not inductive: that a second request is
harmless depends on where the first one is. The invariant adds

* `WireInv`: what is on the wire belongs to a call that was begun, and a request of
  the user is there in one copy at most, only while it is not carried out;
* `CallInv`: calls that were not begun have no outcome and no effect, and only the
  last one can be open;
* `BusyInv`: an open call has either one request under way, the one its place in the
  code stands for, or an answer, and the server has carried it out exactly if that
  answer says so.

Each action has its own step; the refinement step maps the handling of a request
of the user to `Execute`, the last answer to `Return`, the first step to `Begin`,
and all others to a stutter. The fairness of `HttpSession` is not needed, as
`RemoteCall` promises safety.

**ObjectEditor_proofs** (assumes that `None` is no process). `TypeCorrect`,
`Exclusion`, `OkIsDone`, `LeaksExplained`. The invariant is `TypeOK` and, for each
process by itself, `CInv(c)`: what the place of the process says about its lock,
its delayed requests and what it asked for. A process that has an editor holds the
lock or was expired; from this for two processes follows exclusion.

**ConfigFile_proofs** (assumes `NoneAssumption`, `DataAssumption`,
`CurrentAssumption`, `FiniteAssumption`: the file begins with a current context that
exists, and there are finitely many names; of the sources to merge only that they
are configurations). `TypeCorrect`, `ReferencesAlwaysHold`,
`CurrentContextAlwaysExists`, `ChangesAreKept`. The invariant says of the file what
it says of the copy of every process (`Sound`): a change may be based on a file that
is long overwritten, but what is written was sound when it was read. It shows that
races may lose changes and never consistency: a dangling reference comes from one of
three commands (`Endangered`), never from their interleaving. For `NoLostUpdate` a
second invariant (`AloneInv`) says that without a race one process at most is
between its loading and the end of its writing, and will write what its command
makes of all the commands before; as the file is empty then, nothing can stick out
behind what it writes (`NothingIsCovered`).

**TemporaryConfig_proofs** (assumes that commands and initial settings are some of
those that are possible). `TypeCorrect` and `NoStrangeValue`, for any number of
processes. An option gets its value from a context that puts back what it has
read, from a cache, from a request that arrives late. So the invariant follows the
values around the whole circle: what the server has, what is in a cache, what a
process has just read, what its open contexts will put back, and what is pending
are all `Sound`. The one value that is not is "absent" in a cache that was filled
by `set_config` alone; `ReadKey` asks before it is used.

Its second section proves `ImportsExplained` (`NoUnwantedImport`). Four facts of
each process carry it: it has looked at the repository before it changes anything
(`LookedInv`); as long as nobody else interferes, the options of its open contexts
are set (`ShieldInv`); a delayed request of its own is about no option of an open
context, as the context of an option is open only after the answer has come and is
popped before the option is put back (`DelayedInv`); and the property itself
(`ImportInv`). The step that needs most is the lost revert of an inner context: it
may still change an option while the outer one relies on its own, and the two are
different because the lists of contexts have no repetition (`ContextsDiffer`). The
steps of other processes are one lemma (`SeenInv`), those without a request another
(`QuietInv`).

Its third section proves `CommandsRestore` (`OkMeansRestored`) and `UpdateTells`
(`UpdateTellsWhatToRestore`), and assumes that `Null` is no configuration. The
argument compares everything with `start`, what
a process saw first. While nobody else interferes, what it has read is what it
saw first (`ReadInv`): its cache is what the repository has until the first
context is left, except an option that is absent in it and is asked for
(`FreshInv`); and as long as the command may still end well, the things of open
contexts have their temporary values and all others the first ones (`PlainInv`).
For a failing update, every thing that differs, and every request of its own that
may still arrive, either has or carries the first value or can be told (`TellInv`);
whether it is told is decided by the last step alone (`EndUpdate`).
What holds whoever interferes is that a command that may still end well has no
request on its way, and that no request on its way is about an open context
(`AloneInv`): without it a late request could undo a revert after its success.

**Waiting_proofs** (assumes `MaxRuns` and `MaxJobs` natural numbers). Of
`GctsClone`: `TypeCorrect`, `SuccessIsCloned`, `ImportsExplained`. The invariant
relates the status of the repository to the records that can lead to it
(activities, tasks, requests that go on), and says that the option is set wherever
a clone of the current run can take effect; everything else that can take effect
is `abandoned`. Of `Pollers`: `CurrentReports` (`ReportIsCurrent`) and
`DotsBeforeTheReport` (`NoStrayDots`). A status that was read is never older than
the job of the command (`ReadInv`), and where the command reports or ends with 0
the heart beat thread is dead or was never started (`ThreadInv`).

**Commands_proofs** (the assumptions of `Commands`).

* `Activation`: `ActivationIsReported` (`ActivationAsReported`). The statistics are
  folds over lists of any length; what they count is found by an induction on the
  position (`Least`, `Induction`, `FoldPositions`). The invariant ties the books of
  the worker to the messages it has read so far (`ActBooks`, `ActCounts`), so that
  at the end a list without an error is one in which every object was seen active.
* `CtsRequests`: `ParentsAreLast` (`ParentLast`), `SuccessesAreTrue` (`OkMeansDone`),
  `RetriesComplete` (`RetryCompletes`). First what a plan is, for tasks in any
  number: the flattened sequence names every request of the kind that was seen
  (`Covers`), the objects of a task before the task and the transport last
  (`CtsOrdered`); again by induction on positions. The invariant says that the rest
  of a plan ends with the call for the named request (`CtsCommand`), that a transport
  is given away only after every task that was seen, each of which is given or still
  in the rest (`CtsGiven`), and, of a command nobody disturbed, that the server has
  still what the rest of its plan was made from, and that nothing it must handle is
  missing there (`CtsCalm`), so that no call can be refused.
* `GctsRepo`: `RepositoriesAreReported` (`RepositoryAsReported`). Until
  its one request a command has changed nothing, so that every difference is another
  user's (`RepoUntouched`), and a name or URL was that of one repository when it was
  looked up (`RepoNamed`).
* `AtcReport` and `AunitReport`: `ExitsTellTheResult` (`ExitTellsTheResult`). For
  ATC the invariant says that every finding on a worklist that was read is
  among the results or was cut off (`AtcFound`). For ABAP Unit, whose answer may
  have any length, every element of the answer has a weight, the errors it stands
  for, and so has every node the SAX handler has built; the two sums are the
  same after each element (`AunitRead`), although a method may be filed under a
  class that was forgotten in between (`AunitNodesAre`). What the formats count are
  folds over the same nodes, and a fold over numbers that are not negative is 0 only
  if all of them are, which is proved by an induction on the position. The
  exit code is the sum modulo 256; so 256 errors are the exception.
* `PackageTree`: `WalksAreComplete` (`TreeAsReported`), for any finite set of sub
  packages in any depth. A way is a path from the named package down (`Ways`); it
  is told by its end and passes no package twice, whatever else the tree is: a
  ring of packages is not reached from above. The walk keeps the packages of its
  queue apart, none below another (`QueueInv`), and each package that is not
  below one of them was found once (`FoundInv`) and its objects were listed with
  their path (`ListedInv`). That the deletion is never refused follows from its
  order: the stable sort by depth (`Deepest`) puts every package after those in
  it (`Falling`), and what is left was not moved (`PlacesInv`, `ObjectsInv`,
  `PackagesInv`).
* The types of these parts (`LargePartsAreTyped`), which `TypesKept` below needs:
  conjuncts of the invariants above, and for `Activation` also that what is to be
  activated was named and is no more than that (`ActScope`), which bounds the position.

**SmallCommands_proofs** (the assumptions of `Commands`; the section on
`Attributes` needs none). It EXTENDS `Commands_proofs` for the sake of its last
theorem.

* `Attributes`: `AttributeTypesKept`, `AttributesChangeAlone` (`AttributesAsAsked`).
  For each field the invariant says which value was read, which one will be sent
  back, and how that depends on whether somebody else's change came before the
  reading, between, or after the lock.
* `Users`: `Passwords` (`PasswordIsKnown`). Between the two calls the user has the
  dummy password, and at no other time without a command that failed half way or
  was aborted (`UserWaits`, `UserDummy`), unless somebody else changed the user.
* `AdhocRun`: `TemporaryClasses` (`RunsAlone`). The class of a name belongs to the
  process that created it and has not deleted it yet, or to one with a fault
  (`AdhocOwnedAt`); as long as no process was robbed of its class, every class holds
  and runs the program of its creator (`AdhocRunOwn`, `AdhocClassOwn`).
* `Strust`: `FilesAreInUse` (`DoneIsInUse`), `ForeignKeysSurvive` (`KeysSurvive`).
  The invariant is about the calls that are still to be made (`TrustTodo`): each is
  about a file of the command (`Fits`), they come in the order check and create, put,
  notify (`InOrder`), and a certificate that is not in a file yet has its put among
  them (`TrustPuts`). After the notification the ICM uses what is stored, and
  nothing is stored later (`TrustUses`). That the list of calls of each command has
  these properties for any number of files and certificates is proved from the
  arithmetic of its indices.
* `Marshalling`: `XmlSaysTheSame` (`MappingIsFaithful`), for documents and lists of
  any length. The object alone is not what the document says: the text of an element
  stays in a buffer until the element ends. So the invariant is about the object
  with the buffer put where its handler will put it (`XmlSame`), and about whose
  handler it is (`XmlPlace`): an unknown element leaves the handler to the element
  around it, and after the end of any element there is none. Of a document that was
  written by `Serialize` it says which of eleven phases the parser is in; each fixes
  what is still to come and what was read (`XmlPhase`).
* `TypesKept` (`TypesOK`): the types of every part of `Commands`. Most are conjuncts
  of the invariants above; of the XML documents it also needs that the names in
  what is still to come are known (`XmlKnown`).

**Checkin_proofs** (assumes `DirectoryAssumption`: every object is of one of the four
kinds, lies in a package of the directory and has a source file, and a package
comes after its parent). `TypeCorrect`, `GroupsAreComplete` (`GroupsComplete`),
`ClassesAreKept` (`ClassesSurvive`), `RerunsSucceed` (`RerunSucceeds`). First what the
handler of an object is, for any number of files: it creates before it writes,
whatever is missing is created, and every file of a known part is written
(`GoodFiles`, `HandlerIs`). The invariant has a
part for each process and one for each object. Of a process it says what its
place means (`PlaceInv`), what remains of its packages and objects (`PlanInv`,
`PackInv`), that the objects it has passed are complete and active as long as
nobody disturbed it (`CalmInv`), that a check-in without fault or interference can
have failed only at an object it had to refuse (`PastInv`), and that it
never holds a class of another package (`GuestInv`); of an object, that a class is
missing only if somebody is about to recreate it or was stopped there
(`ObjectInv`). A step changes one process. All others see another server at most,
and are disturbed from then on unless what they have passed is still complete; a
deletion that arrives late belongs to a check-in that has failed in the group of
the class, before it looked at anything after it.

Every invariant and every action property of the runs that pass is proved, and so
is the refinement. Checked by TLC only are the five properties of progress:
`EveryCallEnds`, `EveryEditEnds`, `EveryCommandEnds`, `EveryRunEnds` and
`EveryWaitEnds`. They rest on fairness, and fairness on ENABLED, which is beyond the
prover. What the proofs do not give either are the findings: that a state is
reached is shown by a run.

## Findings

* `StopsOnErrors` (`src/sap/cli/wb.py:111`): a warning after an error in the same
  result sets the error flag anew, and the worker goes on with the next object,
  against "By default it stops on errors and continues on warnings." The exit code
  is still right (`ErrorsFailTheCommand`, part of `ActivationAsReported`).
* `RecoverMessagePrinted` (`src/sap/cli/gcts.py:883`): checkout records the
  recover messages of its contexts and never prints them.
* `TaskSkipsImport` (`src/sap/rest/gcts/simple.py:156`): with `--no-import` and a
  clone task that is not waited for, the option is put back before the task runs,
  and the objects are imported.
* `FailedTestsFailTheRun` (`src/sap/cli/aunit.py:882`): with the JUnit report of
  the server the exit code is 0 whatever the tests did, be it a single failure
  (the 256 that an exit code cannot tell from none are left out of the property), against
  `src/doc/commands/aunit.md`, which promises the number of failed tests.

Known limits that the properties state as their exceptions, or that were met
while the code was translated:

* Locks and contexts: a lock stays behind when the answer to LOCK is lost; an
  option stays set when the answer to the first change is lost.
  `update_filesystem` that ends with a traceback prints no recover message.
* Commands that overlap: config commands lose updates; a change of an attribute is
  lost when it comes between the reading and the lock; a check-in takes over an
  interface, a program or a function group of another package without a word (only
  classes are checked).
* Configuration file: `merge` takes contexts from a source that has not what they
  refer to.
* Check-in, with exit code 0: the file of an unknown class part is left out; so is a
  class that exists in a package which the directory or the command does not spell
  in capitals.
* Activation: `dataelement define -a` and `badi set-active -a` do not look at the
  messages of the activation and end with 0.
* Attributes: `dataelement define` resets the options that are not given or are of
  the other type, replaces every length of a label that the element has by the
  longest one (the condition in `normalize()`, `adt/dataelement.py:144-147`, is the
  wrong way round), and does not apply the description to an element that exists;
  the copy of a contract in
  `apistate` drops what it does not know.
* gCTS: the only CLONE activity that is found may be that of an earlier run, and one
  without a return code counts as a success; an HTTP error whose JSON has a result is
  taken for an answer by every GET, a pull among them; several
  answers that lack a key end in a traceback (log, process, branches, tasks,
  credentials); `checkout` with JSON output after an HTTP error with
  `--wait-for-ready` uses a variable that was never set.
* Polling: `abapgit pull` ends with 0 when the repository has the status E or A;
  Ctrl-C in the start of the heart beat leaves its thread behind.
* ABAP Unit: of several transports only the first one is tested over the API; 256
  failed tests are exit code 0.
* STRUST: `removepse` and `putpkc` never notify the ICM; `createpse` that is run
  again after a failure before the notification finds nothing to do; `putpkc` opens
  its files in binary mode and strips a str from their bytes, which raises, so that
  only standard input works (`cli/strust.py:217`, `rfc/strust.py:106`).
* Users: an answer without the type of the user makes the password one that is not
  productive, also when a productive one was asked for.
* Walks: checkout writes the attributes of an interface to `NAME.prog.xml`, over
  those of a program of that name; what cannot be downloaded is only printed, and
  after a `KeyError` (no token) called unsupported, with exit code 0; a
  request of `package check` that failed is not counted, and a message for an
  object that was not asked for raises.
* XML: an unknown first child with a text, or an attribute on a text element,
  makes the parser give up; a text with an unknown child is cut.

## Not modelled

* OData, FLP, BSP: single calls of a generated client, after one request for a
  token.
* Searches, data preview, system information: requests that only read.
* Kinds of objects, ABAP data types: accessors and conversions without a protocol.
  What objects share (locks, editors, attributes, the XML mapping) is modelled.
* Coverage: the parsers of its data. That coverage fails, and the exit code with
  it, is in `AunitReport`.
* Parts of modelled components: how arguments, environment and context are combined
  to one configuration value; the creation of a transport and the listings of
  transports and inactive objects (one request each); roles and profiles of users;
  check-out of function groups; `gcts task delete`; texts of all reports.
* SSL, authentication and header texts: below `HttpSession`.
* Console and command dispatch: argument parsing and printing.

## Plan

Done, in the order of importance: the session and what it promises, editing and
locking, activation, the gCTS contexts and the clone, the configuration file, CTS,
check-in; then the commands that wait, STRUST, the ABAP runner, attributes,
reports, users, the other gCTS commands, the XML mapping and the walks.

Next to model: configuration values from arguments, environment and context, as
operators that are compared with a reference definition; the check-out of function
groups; roles and profiles; the OData session.

Next to prove: nothing is left of the properties that are stated. A part that
comes next is proved with its model; a new part of `Commands` needs its types in
`LargePartsAreTyped` or `SmallPartsAreTyped`.
