-------------------------- MODULE HttpSession_proofs --------------------------
(***************************************************************************)
(* Proofs about HttpSession, for every number of calls and of session      *)
(* losses: the session never repeats what the server has already done, and *)
(* it implements the abstract at-most-once call of RemoteCall.             *)
(***************************************************************************)
EXTENDS HttpSession, TLAPS

\* What is on the wire belongs to a begun call, a request of the user is there
\* in one copy, and only while the server has not carried it out.
WireInv ==
    /\ \A m \in wire : m.call <= call
    /\ \A m \in wire : m.req \in Goals => executed[m.call] = 0
    /\ \A m, n \in wire :
          m.req \in Goals /\ n.req \in Goals /\ m.call = n.call => m = n

\* Calls are numbered in the order they are made; only the last one can be open.
CallInv ==
    /\ \A c \in Calls : executed[c] \in {0, 1}
    /\ \A c \in Calls : c > call => outcome[c] = "none" /\ executed[c] = 0
    /\ \A c \in Calls : c < call => outcome[c] # "none"
    /\ pc = "idle" => reply = NoReply /\ (call > 0 => outcome[call] # "none")
    /\ pc # "idle" => call \in Calls /\ outcome[call] = "none"

\* The open call has either one request under way, the one its program counter
\* stands for, or an answer; it is carried out just when that answer says so.
BusyInv ==
    pc # "idle" =>
        /\ reply # NoReply => \A m \in wire : m.call # call
        /\ \A m, n \in wire : m.call = call /\ n.call = call => m = n
        /\ \A m \in wire : m.call = call =>
              m.req = (IF pc \in {"first", "second"} THEN cur ELSE "login")
        /\ executed[call] = 1 <=>
              /\ pc \in {"first", "second"}
              /\ cur \in Goals
              /\ reply.status = "200"

IInv == TypeOK /\ WireInv /\ CallInv /\ BusyInv /\ OutcomeIsTruthful

-----------------------------------------------------------------------------
USE MaxCallsAssumption, MaxExpiriesAssumption
USE DEF Calls, Tokens, NoToken, Goals, Executed, Refused, Outcomes, Status

LEMMA InitInv == Init => IInv
<1> SUFFICES ASSUME Init PROVE IInv
  OBVIOUS
<1>1. TypeOK
  <2>1. outcome \in [Calls -> Outcomes] /\ executed \in [Calls -> Nat]
    BY DEF Init
  <2>2. serverToken \in Tokens /\ call \in 0 .. MaxCalls
    BY DEF Init
  <2>3. wire \subseteq Request /\ reply \in Reply
    BY DEF Init, Reply
  <2> QED
    BY <2>1, <2>2, <2>3 DEF Init, TypeOK, LoginPaths
<1>2. WireInv /\ BusyInv
  BY DEF Init, WireInv, BusyInv
<1>3. CallInv /\ OutcomeIsTruthful
  BY DEF Init, CallInv, OutcomeIsTruthful
<1> QED
  BY <1>1, <1>2, <1>3 DEF IInv

\* A reply is either absent or has a status.
LEMMA ReplyType ==
    ASSUME TypeOK, reply # NoReply
    PROVE  /\ reply.status \in Status
           /\ reply.token \in Tokens \cup {NoToken}
           /\ reply.accepted \in BOOLEAN
BY DEF TypeOK, Reply, NoReply

LEMMA SendType ==
    ASSUME TypeOK, NEW c \in Calls, NEW r \in {"login", "discovery"} \cup Goals,
           NEW t \in Tokens \cup {NoToken}, Send(c, r, t)
    PROVE  wire' \subseteq Request
BY DEF TypeOK, Send, Request

\* retrieve(), execute_with_session() and execute() keep every variable typed.
LEMMA TypeStep == IInv /\ [Next]_vars => TypeOK'
<1> SUFFICES ASSUME IInv, [Next]_vars PROVE TypeOK'
  OBVIOUS
<1> USE DEF LoginPaths, HasDiscovery
<1>0. TypeOK /\ CallInv
  BY DEF IInv
<1>1. ASSUME NEW g \in Goals, StartCall(g) PROVE TypeOK'
  <2>1. call + 1 \in Calls
    BY <1>0, <1>1 DEF StartCall, TypeOK
  <2>2. wire' \subseteq Request
    BY <1>0, <1>1, <2>1, SendType DEF StartCall, TypeOK
  <2> QED
    BY <1>0, <1>1, <2>1, <2>2 DEF StartCall, TypeOK, serverVars, Reply
<1>2. ASSUME NEW o \in Outcomes, pc # "idle", Finish(o),
             UNCHANGED <<connection, call, goal, serverVars>>,
             cur' = cur, session' = session, token' = token,
             loginPath' = loginPath, types' \in BOOLEAN
      PROVE  TypeOK'
  BY <1>0, <1>2 DEF Finish, TypeOK, CallInv, serverVars, Reply
<1>3. ASSUME NEW o \in Outcomes, pc # "idle", Fail(o) PROVE TypeOK'
  BY <1>0, <1>2, <1>3 DEF Fail, clientVars, TypeOK
<1>4. ASSUME reply # NoReply, pc # "idle", Returned PROVE TypeOK'
  <2>1. CASE cur = "discovery"
    <3>1. wire' \subseteq Request
      BY <1>0, <1>4, <2>1, SendType DEF Returned, TypeOK, CallInv
    <3> QED
      BY <1>0, <1>4, <2>1, <3>1 DEF Returned, TypeOK, serverVars, Reply
  <2>2. CASE cur # "discovery"
    <3> DEFINE o == IF reply.accepted THEN "ok" ELSE "content"
    <3>1. o \in Outcomes /\ Finish(o) /\ types' \in BOOLEAN
      BY <1>0, <1>4, <2>2, ReplyType DEF Returned, TypeOK
    <3> HIDE DEF o
    <3> QED
      BY <1>2, <1>4, <2>2, <3>1 DEF Returned
  <2> QED
    BY <2>1, <2>2
<1>5. ASSUME LoginReply PROVE TypeOK'
  <2>1. CASE reply.status = "200" /\ BuildSession
    <3>0. call \in Calls /\ pc # "idle" /\ reply.token \in Tokens \cup {NoToken}
      BY <1>0, <1>5, ReplyType DEF LoginReply, CallInv
    <3>1. wire' \subseteq Request
      BY <1>0, <2>1, <3>0, SendType DEF BuildSession, TypeOK
    <3> QED
      BY <1>0, <2>1, <3>0, <3>1 DEF BuildSession, TypeOK, serverVars, Reply
  <2>2. CASE RetryLogin
    <3>1. wire' \subseteq Request
      BY <1>0, <1>5, <2>2, SendType DEF RetryLogin, LoginReply, CallInv
    <3> QED
      BY <1>0, <2>2, <3>1 DEF RetryLogin, TypeOK, serverVars, Reply
  <2>3. CASE Fail("httperror")
    BY <1>3, <1>5, <2>3 DEF LoginReply
  <2>4. CASE Fail(ErrorOf(reply.status))
    BY <1>3, <1>5, <2>4 DEF LoginReply, ErrorOf
  <2> QED
    BY <1>5, <2>1, <2>2, <2>3, <2>4 DEF LoginReply
<1>6. ASSUME FirstReply PROVE TypeOK'
  <2>1. CASE Returned
    BY <1>4, <1>6, <2>1 DEF FirstReply
  <2>2. CASE token' = NoToken /\ Send(call, "login", NoToken) /\ pc' = "fetch"
             /\ reply' = NoReply
             /\ UNCHANGED <<connection, cur, session, loginPath, types, call,
                            goal, outcome, serverVars>>
    <3>1. wire' \subseteq Request
      BY <1>0, <1>6, <2>2, SendType DEF FirstReply, CallInv
    <3> QED
      BY <1>0, <2>2, <3>1 DEF TypeOK, serverVars, Reply
  <2>3. CASE Fail(ErrorOf(reply.status))
    BY <1>3, <1>6, <2>3 DEF FirstReply, ErrorOf
  <2> QED
    BY <1>6, <2>1, <2>2, <2>3 DEF FirstReply
<1>7. ASSUME FetchReply PROVE TypeOK'
  <2>1. CASE reply.token # NoToken /\ token' = reply.token /\ pc' = "second"
             /\ reply' = NoReply /\ Send(call, cur, token')
             /\ UNCHANGED <<connection, cur, session, loginPath, types, call,
                            goal, outcome, serverVars>>
    <3>0. call \in Calls /\ token' \in Tokens
      BY <1>0, <1>7, <2>1, ReplyType DEF FetchReply, CallInv
    <3>1. wire' \subseteq Request
      BY <1>0, <2>1, <3>0, SendType DEF TypeOK
    <3> QED
      BY <1>0, <2>1, <3>0, <3>1 DEF TypeOK, serverVars, Reply
  <2>2. CASE Fail("keyerror")
    BY <1>3, <1>7, <2>2 DEF FetchReply
  <2>3. CASE Fail(ErrorOf(reply.status))
    BY <1>3, <1>7, <2>3 DEF FetchReply, ErrorOf
  <2> QED
    BY <1>7, <2>1, <2>2, <2>3 DEF FetchReply
<1>8. ASSUME SecondReply PROVE TypeOK'
  <2>1. CASE Returned
    BY <1>4, <1>8, <2>1 DEF SecondReply
  <2>2. CASE Fail(ErrorOf(reply.status))
    BY <1>3, <1>8, <2>2 DEF SecondReply, ErrorOf
  <2> QED
    BY <1>8, <2>1, <2>2 DEF SecondReply
<1>9. ASSUME GiveUp PROVE TypeOK'
  <2>1. CASE Finish("lost")
    BY <1>0, <1>2, <1>9, <2>1 DEF GiveUp, clientVars, TypeOK
  <2>2. CASE ~Finish("lost")
    BY <1>0, <1>9, <2>2 DEF GiveUp, clientVars, serverVars, TypeOK, CallInv, Reply
  <2> QED
    BY <2>1, <2>2
<1>10. ASSUME NEW m \in wire, Handle(m) PROVE TypeOK'
  BY <1>0, <1>10 DEF Handle, TypeOK, Request, Reply, Answers, clientVars
<1>11. ASSUME Expire PROVE TypeOK'
  BY <1>0, <1>11 DEF Expire, TypeOK, clientVars, Reply
<1>12. ASSUME UNCHANGED vars PROVE TypeOK'
  BY <1>0, <1>12 DEF vars, TypeOK, Reply
<1> QED
  BY <1>1, <1>5, <1>6, <1>7, <1>8, <1>9, <1>10, <1>11, <1>12 DEF Next, Receive

-----------------------------------------------------------------------------
\* The parts of the invariant that a step can disturb besides the types.
Rest == WireInv /\ CallInv /\ BusyInv /\ OutcomeIsTruthful

\* A step of an open call that has read its answer and sends the next request.
LEMMA SendStep ==
    ASSUME IInv, TypeOK', pc # "idle", pc' # "idle", reply # NoReply,
           reply' = NoReply, executed[call] = 0,
           UNCHANGED <<call, outcome, executed>>,
           NEW r, NEW t, Send(call, r, t),
           r = (IF pc' \in {"first", "second"} THEN cur' ELSE "login")
    PROVE  Rest'
<1> USE DEF Rest
<1>0. call \in Calls /\ outcome[call] = "none" /\ \A m \in wire : m.call # call
  BY DEF IInv, CallInv, BusyInv
<1> DEFINE n == [call |-> call, req |-> r, token |-> t]
<1>1. wire' = wire \cup {n} /\ n.call = call /\ n.req = r
  BY DEF Send
<1> HIDE DEF n
<1>2. WireInv'
  BY <1>0, <1>1 DEF IInv, WireInv, TypeOK
<1>3. CallInv'
  BY <1>0 DEF IInv, CallInv, TypeOK
<1>4. BusyInv'
  BY <1>0, <1>1 DEF BusyInv, NoReply
<1>5. OutcomeIsTruthful'
  BY <1>0, <1>1 DEF IInv, OutcomeIsTruthful
<1> QED
  BY <1>2, <1>3, <1>4, <1>5

\* A step that closes the open call, where what it reports is the truth.
LEMMA FinishStep ==
    ASSUME IInv, TypeOK', pc # "idle", NEW o \in Outcomes \ {"none"},
           pc' = "idle", reply' = NoReply, wire' \subseteq wire,
           outcome' = [outcome EXCEPT ![call] = o],
           UNCHANGED <<call, executed>>,
           o \in Executed => executed[call] = 1,
           o \in Refused => executed[call] = 0 /\ \A m \in wire : m.call # call
    PROVE  Rest'
<1> USE DEF Rest
<1>0. call \in Calls /\ TypeOK
  BY DEF IInv, CallInv
<1>1. WireInv'
  BY <1>0 DEF IInv, WireInv
<1>2. CallInv'
  BY <1>0 DEF IInv, CallInv, TypeOK
<1>3. BusyInv'
  BY DEF BusyInv
<1>4. OutcomeIsTruthful'
  BY <1>0 DEF IInv, OutcomeIsTruthful, TypeOK
<1> QED
  BY <1>1, <1>2, <1>3, <1>4

\* An answer has been read: nothing of the call is under way any more, and the
\* answer tells whether the server has carried the call out.
LEMMA AnswerRead ==
    ASSUME IInv, pc # "idle", reply # NoReply
    PROVE  /\ \A m \in wire : m.call # call
           /\ executed[call] \in {0, 1}
           /\ executed[call] = 1 <=>
                pc \in {"first", "second"} /\ cur \in Goals /\ reply.status = "200"
BY DEF IInv, BusyInv, CallInv

LEMMA FailStep ==
    ASSUME IInv, TypeOK', pc # "idle", reply # NoReply,
           NEW o \in Refused, Fail(o), executed[call] = 0
    PROVE  Rest'
BY AnswerRead, FinishStep DEF Fail, Finish, serverVars

LEMMA ReturnedStep ==
    ASSUME IInv, TypeOK', pc \in {"first", "second"}, reply # NoReply,
           reply.status = "200", Returned
    PROVE  Rest'
<1>1. CASE cur = "discovery"
  <2>1. executed[call] = 0
    BY <1>1, AnswerRead
  <2> QED
    BY <1>1, <2>1, SendStep DEF Returned, serverVars
<1>2. CASE cur # "discovery"
  <2>1. executed[call] = 1
    BY <1>2, AnswerRead DEF IInv, TypeOK
  <2>2. PICK o \in Executed : Finish(o)
    BY <1>2 DEF Returned
  <2> QED
    BY <1>2, <2>1, <2>2, FinishStep DEF Returned, Finish, serverVars
<1> QED
  BY <1>1, <1>2

\* The inductive invariant is preserved by every step.
LEMMA InvStep == IInv /\ [Next]_vars => IInv'
<1> SUFFICES ASSUME IInv, [Next]_vars PROVE IInv'
  OBVIOUS
<1>0. TypeOK /\ TypeOK'
  BY TypeStep DEF IInv
<1> SUFFICES Rest'
  BY <1>0 DEF IInv, Rest
<1>1. ASSUME NEW g \in Goals, StartCall(g) PROVE Rest'
  <2> DEFINE n == [call |-> call + 1, token |-> IF session THEN token ELSE NoToken,
                   req |-> IF session THEN g ELSE "login"]
  <2>1. /\ wire' = wire \cup {n}
        /\ n.call = call + 1
        /\ n.req = (IF pc' \in {"first", "second"} THEN cur' ELSE "login")
        /\ n.req # "discovery"
    BY <1>1 DEF StartCall, Send
  <2> HIDE DEF n
  <2>2. call + 1 \in Calls /\ call \in Nat /\ pc = "idle" /\ pc' # "idle"
    BY <1>0, <1>1 DEF StartCall, TypeOK
  <2>3. /\ call' = call + 1
        /\ UNCHANGED <<reply, outcome, executed>>
        /\ reply = NoReply
        /\ outcome[call + 1] = "none" /\ executed[call + 1] = 0
        /\ \A m \in wire : m.call < call + 1
    BY <1>1, <2>2 DEF StartCall, serverVars, IInv, CallInv, WireInv, TypeOK, Request
  <2>4. WireInv'
    BY <2>1, <2>2, <2>3 DEF IInv, WireInv, TypeOK, Request
  <2>5. CallInv'
    BY <1>0, <2>2, <2>3 DEF IInv, CallInv
  <2>6. BusyInv'
    BY <2>1, <2>2, <2>3 DEF IInv, WireInv, BusyInv, NoReply
  <2>7. OutcomeIsTruthful'
    BY <2>1, <2>3 DEF IInv, OutcomeIsTruthful
  <2> QED
    BY <2>4, <2>5, <2>6, <2>7 DEF Rest
<1>2. ASSUME LoginReply PROVE Rest'
  <2>0. /\ pc \in {"login", "login2"} /\ reply # NoReply /\ executed[call] = 0
        /\ reply.status \in Status
    BY <1>0, <1>2, AnswerRead, ReplyType DEF LoginReply
  <2>1. CASE reply.status = "200" /\ BuildSession
    BY <1>0, <2>0, <2>1, SendStep DEF BuildSession, serverVars
  <2>2. CASE RetryLogin
    BY <1>0, <2>0, <2>2, SendStep DEF RetryLogin, serverVars
  <2>3. CASE Fail("httperror") \/ Fail(ErrorOf(reply.status))
    BY <1>0, <2>0, <2>3, FailStep DEF ErrorOf
  <2> QED
    BY <1>2, <2>1, <2>2, <2>3 DEF LoginReply
<1>3. ASSUME FirstReply PROVE Rest'
  <2>0. pc = "first" /\ reply # NoReply /\ reply.status \in Status
    BY <1>0, <1>3, ReplyType DEF FirstReply
  <2>1. CASE reply.status = "200" /\ Returned
    BY <1>0, <2>0, <2>1, ReturnedStep
  <2>2. CASE reply.status = "403"
    <3>1. executed[call] = 0
      BY <2>0, <2>2, AnswerRead
    <3> QED
      BY <1>0, <1>3, <2>0, <2>2, <3>1, SendStep DEF FirstReply, serverVars
  <2>3. CASE reply.status \notin {"200", "403"} /\ Fail(ErrorOf(reply.status))
    <3>1. executed[call] = 0
      BY <2>0, <2>3, AnswerRead
    <3> QED
      BY <1>0, <2>0, <2>3, <3>1, FailStep DEF ErrorOf
  <2> QED
    BY <1>3, <2>1, <2>2, <2>3 DEF FirstReply
<1>4. ASSUME FetchReply PROVE Rest'
  <2>0. /\ pc = "fetch" /\ reply # NoReply /\ executed[call] = 0
        /\ reply.status \in Status
    BY <1>0, <1>4, AnswerRead, ReplyType DEF FetchReply
  <2>1. CASE Send(call, cur, token') /\ pc' = "second" /\ reply' = NoReply
             /\ UNCHANGED <<cur, call, outcome, serverVars>>
    BY <1>0, <2>0, <2>1, SendStep DEF serverVars
  <2>2. CASE Fail("keyerror") \/ Fail(ErrorOf(reply.status))
    BY <1>0, <2>0, <2>2, FailStep DEF ErrorOf
  <2> QED
    BY <1>4, <2>1, <2>2 DEF FetchReply
<1>5. ASSUME SecondReply PROVE Rest'
  <2>0. pc = "second" /\ reply # NoReply
    BY <1>5 DEF SecondReply
  <2>1. CASE reply.status = "200" /\ Returned
    BY <1>0, <2>0, <2>1, ReturnedStep
  <2>2. CASE reply.status # "200" /\ Fail(ErrorOf(reply.status))
    <3>1. executed[call] = 0
      BY <2>0, <2>2, AnswerRead
    <3> QED
      BY <1>0, <2>0, <2>2, <3>1, FailStep DEF ErrorOf
  <2> QED
    BY <1>5, <2>1, <2>2 DEF SecondReply
<1>6. ASSUME GiveUp PROVE Rest'
  <2>1. /\ pc # "idle" /\ pc' = "idle" /\ reply' = NoReply
        /\ wire' \subseteq wire
        /\ outcome' = [outcome EXCEPT ![call] = "lost"]
        /\ UNCHANGED <<call, executed>>
    BY <1>6 DEF GiveUp, Finish, serverVars
  <2> QED
    BY <1>0, <2>1, FinishStep
<1>7. ASSUME NEW m \in wire, Handle(m) PROVE Rest'
  <2>0. m \in Request /\ m.call \in Calls /\ m.req \in {"login", "discovery"} \cup Goals
    BY <1>0 DEF TypeOK, Request
  <2>1. PICK status \in Status, t \in Tokens \cup {NoToken}, accepted \in BOOLEAN :
          /\ executed' = IF m.req \in Goals /\ status = "200"
                         THEN [executed EXCEPT ![m.call] = @ + 1]
                         ELSE executed
          /\ reply' = IF pc # "idle" /\ m.call = call
                      THEN [status |-> status, token |-> t, accepted |-> accepted]
                      ELSE reply
    BY <1>0, <1>7 DEF Handle, Answers, TypeOK
  <2>2. /\ wire' = wire \ {m}
        /\ UNCHANGED <<pc, cur, call, outcome>>
    BY <1>7 DEF Handle, clientVars
  <2>3. \A n \in wire' : /\ n \in wire /\ n # m
                         /\ m.req \in Goals /\ n.req \in Goals => n.call # m.call
    BY <2>2 DEF IInv, WireInv
  <2>4. m.req \in Goals => executed[m.call] = 0
    BY DEF IInv, WireInv
  <2>5. \A c \in Calls : executed'[c] = IF c = m.call /\ m.req \in Goals /\ status = "200"
                                        THEN 1 ELSE executed[c]
    BY <1>0, <2>0, <2>1, <2>4 DEF TypeOK
  <2>6. WireInv'
    BY <1>0, <2>2, <2>3, <2>5 DEF IInv, WireInv, TypeOK, Request
  <2>7. CallInv'
    <3>1. m.call <= call
      BY DEF IInv, WireInv
    <3>2. pc = "idle" => reply' = reply
      BY <2>1
    <3>3. \A c \in Calls : c > call => c # m.call
      BY <1>0, <2>0, <3>1 DEF TypeOK
    <3> QED
      BY <2>0, <2>2, <2>5, <3>2, <3>3 DEF IInv, CallInv
  <2>8. BusyInv'
    <3> SUFFICES ASSUME pc # "idle" PROVE BusyInv'
      BY <2>2 DEF BusyInv
    <3>1. call \in Calls
      BY DEF IInv, CallInv
    <3>2. CASE m.call = call
      <4>1. \A n \in wire' : n.call # call
        BY <2>2, <2>3, <3>2 DEF IInv, BusyInv
      <4>2. reply' = [status |-> status, token |-> t, accepted |-> accepted]
        BY <2>1, <3>2
      <4>3. reply'.status = status
        BY <4>2
      <4>4. m.req = (IF pc \in {"first", "second"} THEN cur ELSE "login")
        BY <3>2 DEF IInv, BusyInv
      <4>5. executed'[call] = IF m.req \in Goals /\ status = "200" THEN 1 ELSE executed[call]
        BY <2>5, <3>1, <3>2
      <4>6. reply = NoReply
        BY <3>2 DEF IInv, BusyInv
      <4>7. executed[call] # 1
        BY <4>6 DEF IInv, BusyInv, NoReply
      <4> QED
        BY <2>2, <4>1, <4>3, <4>4, <4>5, <4>7 DEF BusyInv
    <3>3. CASE m.call # call
      <4>1. reply' = reply /\ executed'[call] = executed[call]
        BY <2>1, <2>5, <3>1, <3>3
      <4> QED
        BY <2>2, <2>3, <4>1 DEF IInv, BusyInv
    <3> QED
      BY <3>2, <3>3
  <2>9. OutcomeIsTruthful'
    BY <2>2, <2>3, <2>5 DEF IInv, OutcomeIsTruthful
  <2> QED
    BY <2>6, <2>7, <2>8, <2>9 DEF Rest
<1>8. ASSUME Expire PROVE Rest'
  BY <1>8 DEF Expire, clientVars, IInv, Rest, WireInv, CallInv, BusyInv, OutcomeIsTruthful
<1>9. ASSUME UNCHANGED vars PROVE Rest'
  BY <1>9 DEF vars, IInv, Rest, WireInv, CallInv, BusyInv, OutcomeIsTruthful
<1> QED
  BY <1>1, <1>2, <1>3, <1>4, <1>5, <1>6, <1>7, <1>8, <1>9 DEF Next, Receive

LEMMA Invariant == Spec => []IInv
BY InitInv, InvStep, PTL DEF Spec

-----------------------------------------------------------------------------
\* Every variable of the session keeps its type (client.py, core.py).
THEOREM TypeCorrect == Spec => []TypeOK
BY Invariant, PTL DEF IInv

\* However often execute_with_session() repeats a request (client.py:174-188),
\* the server never carries out one call twice.
THEOREM NeverTwice == Spec => []AtMostOnce
<1>1. IInv => AtMostOnce
  BY DEF IInv, CallInv, AtMostOnce
<1> QED
  BY <1>1, Invariant, PTL

\* What execute() returned or raised tells whether the server did the work.
THEOREM Truthful == Spec => []OutcomeIsTruthful
BY Invariant, PTL DEF IInv

\* Every step of the session is a step of the abstract call, or invisible to it.
LEMMA RefinementStep == IInv /\ IInv' /\ [Next]_vars => [RC!Next]_(RC!vars)
<1> SUFFICES ASSUME IInv, IInv', [Next]_vars PROVE RC!Next \/ UNCHANGED RC!vars
  BY DEF RC!vars
<1> USE DEF RC!vars, RC!Calls, RC!Executed, RC!Refused, RC!Outcomes
<1>0. TypeOK /\ TypeOK' /\ CallInv
  BY DEF IInv
<1>1. ASSUME NEW g \in Goals, StartCall(g) PROVE RC!Begin
  BY <1>0, <1>1 DEF StartCall, CallInv, RC!Begin, serverVars
<1>2. ASSUME NEW o \in Outcomes \ {"none"}, pc # "idle", call' = call, executed' = executed,
             outcome' = [outcome EXCEPT ![call] = o]
      PROVE  RC!Return(o)
  <2>1. call \in Calls /\ outcome[call] = "none" /\ outcome'[call] = o
    BY <1>0, <1>2 DEF CallInv, TypeOK
  <2>2. (o \in Executed => executed[call] = 1) /\ (o \in Refused => executed[call] = 0)
    BY <1>2, <2>1 DEF IInv, OutcomeIsTruthful
  <2> QED
    BY <1>2, <2>1, <2>2 DEF RC!Return
<1>3. ASSUME pc # "idle",
             \/ Receive
             \/ GiveUp
      PROVE  \/ UNCHANGED <<call, outcome, executed>>
             \/ \E o \in Outcomes \ {"none"} : /\ call' = call /\ executed' = executed
                                               /\ outcome' = [outcome EXCEPT ![call] = o]
  <2>1. ASSUME NEW o \in Outcomes \ {"none"}, Fail(o)
        PROVE  call' = call /\ executed' = executed /\ outcome' = [outcome EXCEPT ![call] = o]
    BY <2>1 DEF Fail, Finish, serverVars
  <2>2. CASE Returned
    BY <2>2 DEF Returned, Finish, serverVars
  <2>3. CASE BuildSession \/ RetryLogin
    BY <2>3 DEF BuildSession, RetryLogin, serverVars
  <2>4. CASE GiveUp
    BY <2>4 DEF GiveUp, Finish, serverVars
  <2>5. ErrorOf(reply.status) \in Outcomes \ {"none"}
    BY DEF ErrorOf
  <2>6. CASE LoginReply
    BY <2>1, <2>3, <2>5, <2>6 DEF LoginReply
  <2>7. CASE FirstReply
    BY <2>1, <2>2, <2>5, <2>7 DEF FirstReply, serverVars
  <2>8. CASE FetchReply
    BY <2>1, <2>5, <2>8 DEF FetchReply, serverVars
  <2>9. CASE SecondReply
    BY <2>1, <2>2, <2>5, <2>9 DEF SecondReply
  <2> QED
    BY <1>3, <2>4, <2>6, <2>7, <2>8, <2>9 DEF Receive
<1>4. ASSUME Receive \/ GiveUp PROVE RC!Next \/ UNCHANGED RC!vars
  <2>1. pc # "idle"
    BY <1>4 DEF Receive, LoginReply, FirstReply, FetchReply, SecondReply, GiveUp
  <2> QED
    BY <1>2, <1>3, <1>4, <2>1 DEF RC!Next
<1>5. ASSUME NEW m \in wire, Handle(m) PROVE RC!Next \/ UNCHANGED RC!vars
  <2>1. call' = call /\ outcome' = outcome
    BY <1>5 DEF Handle, clientVars
  <2>2. CASE executed' = executed
    BY <2>1, <2>2
  <2>3. CASE executed' # executed
    <3>1. m.req \in Goals /\ executed' = [executed EXCEPT ![m.call] = @ + 1]
      BY <1>5, <2>3 DEF Handle
    <3>2. m.call \in Calls /\ m.call <= call /\ executed[m.call] = 0
      BY <1>0, <3>1 DEF IInv, WireInv, TypeOK, Request
    <3>3. outcome[m.call] \notin Executed /\ outcome[m.call] \notin Refused
      BY <3>1, <3>2 DEF IInv, OutcomeIsTruthful
    <3>4. outcome[m.call] \in Outcomes
      BY <1>0, <3>2 DEF TypeOK
    <3>5. executed' = [executed EXCEPT ![m.call] = 1]
      BY <3>1, <3>2
    <3>6. RC!Execute(m.call)
      BY <2>1, <3>2, <3>3, <3>4, <3>5 DEF RC!Execute
    <3> QED
      BY <3>2, <3>6 DEF RC!Next
  <2> QED
    BY <2>2, <2>3
<1>6. ASSUME Expire PROVE UNCHANGED RC!vars
  BY <1>6 DEF Expire
<1>7. ASSUME UNCHANGED vars PROVE UNCHANGED RC!vars
  BY <1>7 DEF vars
<1> QED
  BY <1>1, <1>4, <1>5, <1>6, <1>7 DEF Next, RC!Next

\* The session implements the at-most-once call of RemoteCall.
THEOREM SessionImplementsCall == Spec => ImplementsRemoteCall
<1>1. Init => RC!Init
  BY DEF Init, RC!Init, RC!Calls
<1> QED
  BY <1>1, Invariant, RefinementStep, PTL DEF Spec, ImplementsRemoteCall, RC!Spec
=============================================================================
