------------------------------ MODULE HttpSession -----------------------------
(***************************************************************************)
(* The HTTP session every remote command of sapcli works through:          *)
(* sap/http/client.py (HTTPClient), the lazily built session of the ADT    *)
(* connection (sap/adt/core.py, connection = "adt") and of the gCTS        *)
(* connection (sap/rest/connection.py, connection = "rest").               *)
(*                                                                         *)
(* The server checks the CSRF token of modifying requests, may forget the  *)
(* session at any time and may answer anything; requests are on the wire   *)
(* until the server handles them, and the client can give up waiting in    *)
(* the meantime, so that a request may be handled after its call failed.   *)
(***************************************************************************)
EXTENDS Integers, FiniteSets

CONSTANTS MaxCalls,      \* bound: calls of Connection.execute() in a process
          MaxExpiries    \* bound: how often the server forgets the session

ASSUME MaxCallsAssumption == MaxCalls \in Nat
ASSUME MaxExpiriesAssumption == MaxExpiries \in Nat

VARIABLES connection,   \* the class of the connection, "adt" or "rest"
          pc,           \* where the client is in execute()
          cur,          \* the request execute_with_session() is carrying out
          session,      \* TRUE once Connection._session is not None
          token,        \* session.headers['x-csrf-token']
          loginPath,    \* HTTPClient.login_path
          types,        \* TRUE once Connection._collection_types is not None
          call,         \* number of the current (or last) call
          goal,         \* what the call asks for: a modification or the types
          wire,         \* requests sent and not yet handled by the server
          reply,        \* the answer waiting to be read by the client
          outcome,      \* outcome[c]: what call c returned or raised
          serverToken,  \* the token the server accepts
          executed      \* executed[c]: how often the server did what c asks

clientVars == <<connection, cur, session, token, loginPath, types>>
serverVars == <<serverToken, executed>>
vars == <<connection, pc, cur, session, token, loginPath, types, call, goal, wire, reply,
          outcome, serverToken, executed>>

Calls == 1 .. MaxCalls
NoToken == 0
Tokens == 1 .. (MaxExpiries + 1)

Executed == {"ok", "content"}
Refused  == {"httperror", "unauthorized", "keyerror"}
Outcomes == {"none"} \cup Executed \cup Refused \cup {"lost"}

Status == {"200", "401", "403", "404", "error"}

Goals == {"modify", "types"}

Request == [call : Calls, req : {"login", "discovery"} \cup Goals,
            token : Tokens \cup {NoToken}]

NoReply == [status |-> "none", token |-> NoToken, accepted |-> FALSE]
Reply == [status : Status, token : Tokens \cup {NoToken}, accepted : BOOLEAN]
         \cup {NoReply}

LoginPaths == {"core", "discovery"}
HasDiscovery == connection = "adt"

Init ==
    /\ connection \in {"adt", "rest"}
    /\ pc = "idle"
    /\ cur = "modify"
    /\ session = FALSE
    /\ token = NoToken
    /\ loginPath = "core"
    /\ types = FALSE
    /\ call = 0
    /\ goal = "modify"
    /\ wire = {}
    /\ reply = NoReply
    /\ outcome = [c \in Calls |-> "none"]
    /\ serverToken = 1
    /\ executed = [c \in Calls |-> 0]

-----------------------------------------------------------------------------
\* HTTPClient.retrieve(): the request leaves with the headers the session has.
Send(c, r, t) == wire' = wire \cup {[call |-> c, req |-> r, token |-> t]}

\* retrieve() raised, or handle_http_error() did, or execute() returned.
Finish(o) ==
    /\ outcome' = [outcome EXCEPT ![call] = o]
    /\ pc' = "idle"
    /\ reply' = NoReply
    /\ UNCHANGED wire

\* HTTPClient.handle_http_error(): 401 has an exception of its own.
ErrorOf(status) == IF status = "401" THEN "unauthorized" ELSE "httperror"

\* Connection.execute() enters; collection_types executes only when not cached.
StartCall(g) ==
    /\ pc = "idle"
    /\ call < MaxCalls
    /\ g = "types" => HasDiscovery /\ ~types
    /\ call' = call + 1
    /\ goal' = g
    /\ cur' = g
    /\ IF session
       THEN pc' = "first" /\ Send(call + 1, g, token)
       ELSE pc' = "login" /\ Send(call + 1, "login", NoToken)
    /\ UNCHANGED <<connection, session, token, loginPath, types, reply, outcome, serverVars>>

\* HTTPClient.build_session() succeeded: a new session object is kept, with
\* the token if the answer carries one.  The ADT connection then resets the
\* login path and reads the collection types, either from the answer itself
\* (it already was the discovery document) or by one more request.
BuildSession ==
    /\ session' = TRUE
    /\ token' = reply.token
    /\ reply' = NoReply
    /\ pc' = "first"
    /\ loginPath' = IF HasDiscovery THEN "discovery" ELSE loginPath
    /\ types' = (types \/ pc = "login2")
    /\ cur' = IF HasDiscovery /\ pc = "login" THEN "discovery" ELSE goal
    /\ Send(call, cur', token')
    /\ UNCHANGED <<connection, call, goal, outcome, serverVars>>

\* _get_session(): a plain 404 of core/discovery makes it try discovery.
RetryLogin ==
    /\ loginPath' = "discovery"
    /\ pc' = "login2"
    /\ reply' = NoReply
    /\ Send(call, "login", NoToken)
    /\ UNCHANGED <<connection, cur, session, token, types, call, goal, outcome, serverVars>>

Fail(o) ==
    /\ Finish(o)
    /\ UNCHANGED <<clientVars, call, goal, serverVars>>

LoginReply ==
    /\ pc \in {"login", "login2"}
    /\ reply # NoReply
    /\ \/ reply.status = "200" /\ BuildSession
       \/ reply.status = "404" /\ HasDiscovery /\ pc = "login" /\ RetryLogin
       \/ reply.status = "404" /\ ~(HasDiscovery /\ pc = "login") /\ Fail("httperror")
       \/ reply.status \notin {"200", "404"} /\ Fail(ErrorOf(reply.status))

\* execute_with_session() returned: the discovery document is parsed and the
\* call goes on with the request of the user; the answer of that request is
\* checked by execute() against the accepted content types.
Returned ==
    IF cur = "discovery"
    THEN /\ types' = TRUE
         /\ cur' = goal
         /\ pc' = "first"
         /\ reply' = NoReply
         /\ Send(call, goal, token)
         /\ UNCHANGED <<connection, session, token, loginPath, call, goal, outcome, serverVars>>
    ELSE /\ types' = (types \/ (goal = "types" /\ reply.accepted))
         /\ Finish(IF reply.accepted THEN "ok" ELSE "content")
         /\ UNCHANGED <<connection, cur, session, token, loginPath, call, goal, serverVars>>

\* A first 403 drops the token and fetches a new one at the login path.
FirstReply ==
    /\ pc = "first"
    /\ reply # NoReply
    /\ \/ reply.status = "200" /\ Returned
       \/ /\ reply.status = "403"
          /\ token' = NoToken
          /\ pc' = "fetch"
          /\ reply' = NoReply
          /\ Send(call, "login", NoToken)
          /\ UNCHANGED <<connection, cur, session, loginPath, types, call, goal, outcome, serverVars>>
       \/ reply.status \notin {"200", "403"} /\ Fail(ErrorOf(reply.status))

\* Broken form of FetchReply: the nested call does not look at its header and
\* answers a 403 with fetching the token again.
FetchReplyRecursive ==
    /\ pc = "fetch"
    /\ reply # NoReply
    /\ \/ /\ reply.status = "200" /\ reply.token # NoToken
          /\ token' = reply.token
          /\ pc' = "second"
          /\ reply' = NoReply
          /\ Send(call, cur, token')
          /\ UNCHANGED <<connection, cur, session, loginPath, types, call, goal, outcome, serverVars>>
       \/ /\ reply.status = "403"
          /\ reply' = NoReply
          /\ Send(call, "login", NoToken)
          /\ UNCHANGED <<pc, clientVars, call, goal, outcome, serverVars>>
       \/ reply.status = "200" /\ reply.token = NoToken /\ Fail("keyerror")
       \/ reply.status \notin {"200", "403"} /\ Fail(ErrorOf(reply.status))

\* The nested call carries the header Fetch, so a 403 here is an error; an
\* answer without the token is a KeyError, and the session has no token then.
FetchReply ==
    /\ pc = "fetch"
    /\ reply # NoReply
    /\ \/ /\ reply.status = "200" /\ reply.token # NoToken
          /\ token' = reply.token
          /\ pc' = "second"
          /\ reply' = NoReply
          /\ Send(call, cur, token')
          /\ UNCHANGED <<connection, cur, session, loginPath, types, call, goal, outcome, serverVars>>
       \/ reply.status = "200" /\ reply.token = NoToken /\ Fail("keyerror")
       \/ reply.status # "200" /\ Fail(ErrorOf(reply.status))

\* Broken form of SecondReply: the answer to the repeated request is not
\* checked for an error.
SecondReplyUnchecked ==
    /\ pc = "second"
    /\ reply # NoReply
    /\ Returned

\* The request is repeated once; whatever the answer is, it is final.
SecondReply ==
    /\ pc = "second"
    /\ reply # NoReply
    /\ \/ reply.status = "200" /\ Returned
       \/ reply.status # "200" /\ Fail(ErrorOf(reply.status))

\* Broken form of GiveUp: a request without an answer is sent once more.
GiveUpRepeats ==
    /\ pc # "idle"
    /\ IF pc = "first"
       THEN /\ pc' = "second"
            /\ reply' = NoReply
            /\ Send(call, cur, token)
            /\ UNCHANGED outcome
       ELSE Finish("lost")
    /\ UNCHANGED <<clientVars, call, goal, serverVars>>

\* Broken form of GiveUp: a request without an answer is taken for refused.
GiveUpAsError ==
    /\ pc # "idle"
    /\ Finish("httperror")
    /\ UNCHANGED <<clientVars, call, goal, serverVars>>

\* retrieve(): ConnectTimeout, ReadTimeout or ConnectionError.  The request may
\* never have left, or is still to be handled, or its answer is lost.
GiveUp ==
    /\ pc # "idle"
    /\ \/ Finish("lost")
       \/ /\ outcome' = [outcome EXCEPT ![call] = "lost"]
          /\ pc' = "idle"
          /\ reply' = NoReply
          /\ wire' = {m \in wire : m.call # call}
    /\ UNCHANGED <<clientVars, call, goal, serverVars>>

Receive == LoginReply \/ FirstReply \/ FetchReply \/ SecondReply

-----------------------------------------------------------------------------
\* The server (external), as sapcli uses it.  It executes a modifying request
\* only with the valid token, and only a request it answers with success.
Answers(m) ==
    IF m.req = "modify" /\ m.token # serverToken
    THEN {"403"}
    ELSE Status

Handle(m) ==
    /\ wire' = wire \ {m}
    /\ \E status \in Answers(m), t \in {NoToken, serverToken}, accepted \in BOOLEAN :
          /\ t # NoToken => m.req = "login" /\ status = "200"
          /\ accepted => m.req \in Goals /\ status = "200"
          /\ executed' = IF m.req \in Goals /\ status = "200"
                         THEN [executed EXCEPT ![m.call] = @ + 1]
                         ELSE executed
          /\ reply' = IF pc # "idle" /\ m.call = call
                      THEN [status |-> status, token |-> t, accepted |-> accepted]
                      ELSE reply
    /\ UNCHANGED <<pc, clientVars, call, goal, outcome, serverToken>>

\* The server forgets the session and with it the token.
Expire ==
    /\ serverToken <= MaxExpiries
    /\ serverToken' = serverToken + 1
    /\ UNCHANGED <<pc, clientVars, call, goal, wire, reply, outcome, executed>>

Next ==
    \/ \E g \in Goals : StartCall(g)
    \/ Receive
    \/ GiveUp
    \/ \E m \in wire : Handle(m)
    \/ Expire

\* session.send() has a timeout: an answer is read, and a wait without an answer
\* ends.  The time runs anew for each request, not for the whole call.
TimeOut == reply = NoReply /\ GiveUp
Fairness == WF_vars(Receive) /\ WF_vars(TimeOut)

Spec == Init /\ [][Next]_vars /\ Fairness

-----------------------------------------------------------------------------
TypeOK ==
    /\ connection \in {"adt", "rest"}
    /\ pc \in {"idle", "login", "login2", "first", "fetch", "second"}
    /\ cur \in {"discovery"} \cup Goals
    /\ session \in BOOLEAN
    /\ token \in Tokens \cup {NoToken}
    /\ loginPath \in LoginPaths
    /\ types \in BOOLEAN
    /\ call \in 0 .. MaxCalls
    /\ goal \in Goals
    /\ wire \subseteq Request
    /\ reply \in Reply
    /\ outcome \in [Calls -> Outcomes]
    /\ serverToken \in Tokens
    /\ executed \in [Calls -> Nat]

\* However often execute_with_session() repeats a request (client.py:174-188),
\* the server never carries out one call twice.
AtMostOnce == \A c \in Calls : executed[c] <= 1

\* The exception tells the truth: a call that returned, or whose answer had an
\* unexpected content type (core.py:228), was carried out; one that raised an
\* HTTP error, an authorization error or the KeyError of the missing token
\* (client.py:186) was not, and never will be: no copy of it is under way.
OutcomeIsTruthful ==
    \A c \in Calls :
        /\ outcome[c] \in Executed => executed[c] = 1
        /\ outcome[c] \in Refused =>
              executed[c] = 0 /\ \A m \in wire : m.call = c => m.req \notin Goals

\* No call hangs in login, token renewal and repetition: it ends, although the
\* server may refuse every single request.
EveryCallEnds == pc # "idle" ~> pc = "idle"

RC == INSTANCE RemoteCall WITH call <- call, outcome <- outcome, executed <- executed

\* The session implements the at-most-once calls other commands build on.
ImplementsRemoteCall == RC!Spec
=============================================================================
