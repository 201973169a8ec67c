------------------------------- MODULE MCWaiting ------------------------------
(***************************************************************************)
(* The commands that wait for a job of the server: every behaviour chooses *)
(* between gcts clone and the loops of Pollers.                            *)
(***************************************************************************)
EXTENDS GctsClone

CONSTANT MaxJobs                  \* bound: jobs that anybody starts

ASSUME JobsAssumption == MaxJobs \in Nat \ {0}

VARIABLES part,                   \* "clone" or "poll"
          client, job, history    \* of Pollers

polling == <<client, job, history>>
all == <<part, vars, polling>>

Poller == INSTANCE Pollers WITH server <- job, seen <- history

NoClone ==
    /\ opts = [r \in Runs |-> [sync |-> TRUE, noImport |-> FALSE, wait |-> FALSE,
                               failExists |-> FALSE]]
    /\ status = "none" /\ keepOut = FALSE /\ activities = <<>> /\ late = {}
    /\ task = [r \in Runs |-> "none"] /\ imported = {} /\ run = 0 /\ pc = "done"
    /\ known = FALSE /\ old = FALSE /\ exc = "none" /\ delayed = FALSE
    /\ abandoned = {} /\ result = "none"

NoPolling ==
    /\ client = [cmd |-> "pull", pc |-> "done", repo |-> Poller!Nothing, beat |-> "STOPPED",
                 raised |-> FALSE, thread |-> "none", exit |-> "none"]
    /\ job = Poller!Nothing
    /\ history = [mine |-> 0, stray |-> FALSE, cut |-> FALSE]

WaitingInit ==
    \/ part = "clone" /\ Init /\ NoPolling
    \/ part = "poll" /\ Poller!Init /\ NoClone

Cloning(step) == part = "clone" /\ step /\ UNCHANGED <<part, polling>>
Polling(step) == part = "poll" /\ step /\ UNCHANGED <<part, vars>>

WaitingNext == Cloning(Next) \/ Polling(Poller!Next)

(* Requests are answered or fail; the two threads of a process both run; the  *)
(* server takes as long as it likes.                                          *)
WaitingSpec ==
    /\ WaitingInit /\ [][WaitingNext]_all
    /\ WF_all(Cloning(Step))
    /\ WF_all(Polling(Poller!MainStep)) /\ WF_all(Polling(Poller!ThreadStep))

(* The properties of the parts, which their modules explain. *)
ReportIsCurrent == Poller!ReportIsCurrent
NoStrayDots == Poller!NoStrayDots
EveryWaitEnds == Poller!EveryWaitEnds
=============================================================================
