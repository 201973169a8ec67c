------------------------------ MODULE RemoteCall ------------------------------
(***************************************************************************)
(* What one HTTP round trip of sapcli promises to the code above it, as    *)
(* that code uses Connection.execute(): calls are made one at a time, the  *)
(* server executes a call at most once, and what the call returned or      *)
(* raised tells truthfully whether the server did.  Only a call that lost  *)
(* its answer ("lost": TimedOutRequestError or a connection error) leaves  *)
(* the question open, and its request may still arrive late.               *)
(***************************************************************************)
EXTENDS Naturals

CONSTANT MaxCalls       \* bound: calls made by one sapcli process

VARIABLES call,         \* number of calls begun so far
          outcome,      \* outcome[c]: what call c gave to its caller
          executed      \* executed[c]: how often the server executed call c

vars == <<call, outcome, executed>>

Calls == 1 .. MaxCalls

Executed == {"ok", "content"}
Refused  == {"httperror", "unauthorized", "keyerror"}
Outcomes == {"none"} \cup Executed \cup Refused \cup {"lost"}

Init ==
    /\ call = 0
    /\ outcome = [c \in Calls |-> "none"]
    /\ executed = [c \in Calls |-> 0]

\* A call may begin only when the previous one has returned or raised.
Begin ==
    /\ call < MaxCalls
    /\ call > 0 => outcome[call] # "none"
    /\ call' = call + 1
    /\ UNCHANGED <<outcome, executed>>

Execute(c) ==
    /\ c <= call
    /\ outcome[c] \in {"none", "lost"}
    /\ executed[c] = 0
    /\ executed' = [executed EXCEPT ![c] = 1]
    /\ UNCHANGED <<call, outcome>>

Return(o) ==
    /\ call \in Calls
    /\ outcome[call] = "none"
    /\ o \in Executed => executed[call] = 1
    /\ o \in Refused => executed[call] = 0
    /\ outcome' = [outcome EXCEPT ![call] = o]
    /\ UNCHANGED <<call, executed>>

Next ==
    \/ Begin
    \/ \E c \in Calls : Execute(c)
    \/ \E o \in Outcomes \ {"none"} : Return(o)

Spec == Init /\ [][Next]_vars
=============================================================================
