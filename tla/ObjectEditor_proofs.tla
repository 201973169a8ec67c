-------------------------- MODULE ObjectEditor_proofs -------------------------
(***************************************************************************)
(* Proofs about ObjectEditor, for every set of processes: what a finished  *)
(* command leaves behind on the server, and that editors exclude each      *)
(* other.                                                                  *)
(***************************************************************************)
EXTENDS ObjectEditor, TLAPS

EarlyRequests == {"fetch", "lock"}

\* Who can hold the lock, and who can still get it by a late request.
LockInv(c) ==
    /\ Editing(c) /\ ~expired[c] => lock = c
    /\ pc[c] \in {"fetch", "lock"} => lock # c
    /\ <<c, "lock">> \in pending =>
          /\ pc[c] = "done" /\ result[c] = "error"
          /\ asked[c] \subseteq EarlyRequests
    /\ <<c, "unlock">> \in pending => pc[c] = "done"

\* What the result of a command says about the requests it has made.
ResultInv(c) ==
    /\ pc[c] \in {"fetch", "lock"} => asked[c] \subseteq EarlyRequests
    /\ result[c] = "none" <=> pc[c] # "done"
    /\ pc[c] = "unlock" => failed[c] \/ wrote[c]
    /\ result[c] = "ok" => wrote[c] /\ lock # c
    /\ result[c] = "error" => asked[c] \subseteq EarlyRequests \/ lock # c

CInv(c) == LockInv(c) /\ ResultInv(c)
IInv == TypeOK /\ \A c \in Clients : CInv(c)

-----------------------------------------------------------------------------
USE NoneAssumption
USE DEF Kinds, Requests

LEMMA InitInv == Init => IInv
BY DEF Init, IInv, TypeOK, CInv, LockInv, ResultInv, Editing

\* What the server does for a request of c.
LEMMA ServeEffect ==
    ASSUME TypeOK, NEW c \in Clients, NEW r \in Requests, Serve(c, r)
    PROVE  /\ lock' \in Clients \cup {None}
           /\ content' \subseteq Clients
           /\ includeExists' \in BOOLEAN
           /\ wrote' \in [Clients -> BOOLEAN]
           /\ expired' = expired
           /\ wrote[c] => wrote'[c]
           /\ r = "write" => wrote'[c]
           /\ r = "unlock" => lock' # c
           /\ r = "lock" => lock' = c
           /\ r \in {"write", "generate"} => lock' = lock
           /\ \A d \in Clients \ {c} :
                wrote'[d] = wrote[d] /\ (lock' = d <=> lock = d)
<1>1. CASE r = "lock" /\ ServeLock(c)
  BY <1>1 DEF ServeLock, TypeOK
<1>2. CASE r = "write" /\ ServeWrite(c)
  BY <1>2 DEF ServeWrite, TypeOK
<1>3. CASE r = "generate" /\ ServeGenerate(c)
  BY <1>3 DEF ServeGenerate, TypeOK
<1>4. CASE r = "unlock" /\ ServeUnlock(c)
  BY <1>4 DEF ServeUnlock, TypeOK
<1> QED
  BY <1>1, <1>2, <1>3, <1>4 DEF Serve

\* What a lost request of c may do: at most what serving it does.
LEMMA LostEffect ==
    ASSUME TypeOK, NEW c \in Clients, NEW r \in Requests, Lost(c, r)
    PROVE  /\ lock' \in Clients \cup {None}
           /\ content' \subseteq Clients
           /\ includeExists' \in BOOLEAN
           /\ wrote' \in [Clients -> BOOLEAN]
           /\ expired' = expired
           /\ pending' \in {pending, pending \cup {<<c, r>>}}
           /\ wrote[c] => wrote'[c]
           /\ lock = c /\ r # "unlock" => lock' = c
           /\ \A d \in Clients \ {c} :
                wrote'[d] = wrote[d] /\ (lock' = d <=> lock = d)
<1>1. CASE Serve(c, r) /\ UNCHANGED pending
  <2>1. lock = c /\ r # "unlock" => lock' = c
    BY <1>1, ServeEffect DEF Requests, Serve, ServeLock
  <2> QED
    BY <1>1, <2>1, ServeEffect
<1>2. CASE UNCHANGED serverVars
  BY <1>2 DEF Lost, Answered, Refused, serverVars, TypeOK
<1> QED
  BY <1>1, <1>2 DEF Lost, Answered, Refused

\* A step of c touches nothing that belongs to another process.
Foreign(c) ==
    /\ expired' = expired
    /\ \A d \in Clients \ {c} :
          /\ pc'[d] = pc[d] /\ result'[d] = result[d] /\ failed'[d] = failed[d]
          /\ asked'[d] = asked[d] /\ wrote'[d] = wrote[d]
          /\ lock' = d <=> lock = d
          /\ \A r \in Requests : <<d, r>> \in pending' => <<d, r>> \in pending

LEMMA ForeignInv ==
    ASSUME TypeOK, NEW c \in Clients, Foreign(c), NEW d \in Clients \ {c}, CInv(d)
    PROVE  CInv(d)'
BY DEF Foreign, CInv, LockInv, ResultInv, Editing, TypeOK

\* The bookkeeping of the client.
LEMMA Bookkeeping ==
    ASSUME TypeOK, NEW c \in Clients, NEW r \in Requests, Ask(c, r)
    PROVE  /\ asked' \in [Clients -> SUBSET Requests]
           /\ asked'[c] = asked[c] \cup {r}
           /\ \A d \in Clients \ {c} : asked'[d] = asked[d]
BY DEF Ask, TypeOK

LEMMA Going ==
    ASSUME TypeOK, NEW c \in Clients,
           NEW p \in {"lock", "write", "generate", "rewrite", "unlock"}, Goto(c, p)
    PROVE  /\ pc' \in [Clients -> {"fetch", "lock", "write", "generate", "rewrite",
                                   "unlock", "done"}]
           /\ result' = result
           /\ pc'[c] = p
           /\ \A d \in Clients \ {c} : pc'[d] = pc[d]
BY DEF Goto, TypeOK

LEMMA Ending ==
    ASSUME TypeOK, NEW c \in Clients,
           NEW o \in {"ok", "error", "unlock_error", "killed"}, End(c, o)
    PROVE  /\ pc' \in [Clients -> {"fetch", "lock", "write", "generate", "rewrite",
                                   "unlock", "done"}]
           /\ result' \in [Clients -> {"none", "ok", "error", "unlock_error", "killed"}]
           /\ pc'[c] = "done" /\ result'[c] = o
           /\ \A d \in Clients \ {c} : pc'[d] = pc[d] /\ result'[d] = result[d]
BY DEF End, TypeOK

-----------------------------------------------------------------------------
\* A step of c that keeps the types, what is foreign to it and its own part of
\* the invariant keeps the whole of it.
LEMMA Local ==
    ASSUME IInv, NEW c \in Clients, TypeOK', Foreign(c), CInv(c)'
    PROVE  IInv'
BY ForeignInv DEF IInv

LEMMA FetchStep == ASSUME IInv, NEW c \in Clients, Fetch(c) PROVE IInv'
<1>0. TypeOK /\ CInv(c)
  BY DEF IInv
<1> USE DEF Fetch, serverVars
<1>1. asked' \in [Clients -> SUBSET Requests] /\ asked'[c] = asked[c] \cup {"fetch"}
      /\ \A d \in Clients \ {c} : asked'[d] = asked[d]
  BY <1>0, Bookkeeping
<1>2. CASE Goto(c, "lock")
  <2>1. TypeOK'
    BY <1>0, <1>1, <1>2, Going DEF TypeOK
  <2>2. Foreign(c)
    BY <1>0, <1>1, <1>2, Going DEF Foreign
  <2>3. CInv(c)'
    BY <1>0, <1>1, <1>2, Going DEF CInv, LockInv, ResultInv, Editing, EarlyRequests
  <2> QED
    BY <2>1, <2>2, <2>3, Local
<1>3. CASE End(c, "error") /\ UNCHANGED base
  <2>1. TypeOK'
    BY <1>0, <1>1, <1>3, Ending DEF TypeOK
  <2>2. Foreign(c)
    BY <1>0, <1>1, <1>3, Ending DEF Foreign
  <2>3. CInv(c)'
    BY <1>0, <1>1, <1>3, Ending DEF CInv, LockInv, ResultInv, Editing, EarlyRequests
  <2> QED
    BY <2>1, <2>2, <2>3, Local
<1> QED
  BY <1>2, <1>3

LEMMA LockStep == ASSUME IInv, NEW c \in Clients, Lock(c) PROVE IInv'
<1>0. TypeOK /\ CInv(c)
  BY DEF IInv
<1>1. asked' \in [Clients -> SUBSET Requests] /\ asked'[c] = asked[c] \cup {"lock"}
      /\ \A d \in Clients \ {c} : asked'[d] = asked[d]
  BY <1>0, Bookkeeping DEF Lock
<1>2. pc[c] = "lock" /\ UNCHANGED <<modifiable, kind, base, failed>>
  BY DEF Lock
<1>3. CASE Answered(c, "lock") /\ Goto(c, "write")
  <2>1. TypeOK'
    BY <1>0, <1>1, <1>2, <1>3, Going, ServeEffect DEF TypeOK, Answered
  <2>2. Foreign(c)
    BY <1>0, <1>1, <1>2, <1>3, Going, ServeEffect DEF Foreign, Answered
  <2>3. lock' = c
    BY <1>0, <1>3, ServeEffect DEF Answered
  <2>4. CInv(c)'
    BY <1>0, <1>1, <1>2, <1>3, <2>3, Going DEF Answered, CInv, LockInv, ResultInv, Editing
  <2> QED
    BY <2>1, <2>2, <2>4, Local
<1>4. CASE Lost(c, "lock") /\ End(c, "error")
  <2>1. TypeOK'
    BY <1>0, <1>1, <1>2, <1>4, Ending, LostEffect DEF TypeOK
  <2>2. Foreign(c)
    BY <1>0, <1>1, <1>2, <1>4, Ending, LostEffect DEF Foreign
  <2>3. CInv(c)'
    BY <1>0, <1>1, <1>2, <1>4, Ending, LostEffect
    DEF CInv, LockInv, ResultInv, Editing, EarlyRequests
  <2> QED
    BY <2>1, <2>2, <2>3, Local
<1>5. Answered(c, "lock") => Lost(c, "lock")
  BY DEF Lost
<1> QED
  BY <1>3, <1>4, <1>5 DEF Lock

LEMMA WriteStep ==
    ASSUME IInv, NEW c \in Clients, Write(c) \/ Generate(c)
    PROVE  IInv'
<1>0. TypeOK /\ CInv(c)
  BY DEF IInv
<1> DEFINE r == IF pc[c] = "generate" THEN "generate" ELSE "write"
<1>1. /\ pc[c] \in {"write", "generate", "rewrite"}
      /\ Ask(c, r)
      /\ UNCHANGED <<modifiable, kind, base>>
  BY DEF Write, Generate
<1>2. r \in {"write", "generate"}
  OBVIOUS
<1>3. \/ /\ Answered(c, r) /\ UNCHANGED failed
         /\ Goto(c, IF r = "write" THEN "unlock" ELSE "rewrite")
      \/ Refused /\ Goto(c, "generate") /\ UNCHANGED failed
      \/ Lost(c, r) /\ Goto(c, "unlock") /\ failed' = [failed EXCEPT ![c] = TRUE]
  BY DEF Write, Generate
<1> HIDE DEF r
<1>4. asked' \in [Clients -> SUBSET Requests]
      /\ \A d \in Clients \ {c} : asked'[d] = asked[d]
  BY <1>0, <1>1, <1>2, Bookkeeping
<1>5. result[c] = "none"
  BY <1>0, <1>1 DEF CInv, ResultInv
<1>6. CASE /\ Answered(c, r) /\ UNCHANGED failed
           /\ Goto(c, IF r = "write" THEN "unlock" ELSE "rewrite")
  <2>1. PICK p \in {"unlock", "rewrite"} : Goto(c, p) /\ (p = "unlock" <=> r = "write")
    BY <1>2, <1>6
  <2>2. /\ pc' \in [Clients -> {"fetch", "lock", "write", "generate", "rewrite",
                                "unlock", "done"}]
        /\ result' = result /\ pc'[c] = p
        /\ \A d \in Clients \ {c} : pc'[d] = pc[d]
    BY <1>0, <2>1, Going
  <2>3. Serve(c, r) /\ pending' = pending
    BY <1>6 DEF Answered
  <2>4. TypeOK'
    BY <1>0, <1>1, <1>2, <1>4, <1>6, <2>2, <2>3, ServeEffect DEF TypeOK
  <2>5. Foreign(c)
    BY <1>0, <1>2, <1>4, <1>6, <2>2, <2>3, ServeEffect DEF Foreign
  <2>6. lock' = lock /\ (p = "unlock" => wrote'[c]) /\ expired' = expired
    BY <1>0, <1>2, <2>1, <2>3, ServeEffect
  <2>7. CInv(c)'
    BY <1>0, <1>1, <1>5, <1>6, <2>2, <2>3, <2>6 DEF CInv, LockInv, ResultInv, Editing
  <2> QED
    BY <2>4, <2>5, <2>7, Local
<1>7. CASE Refused /\ Goto(c, "generate") /\ UNCHANGED failed
  <2>1. TypeOK'
    BY <1>0, <1>1, <1>4, <1>7, Going DEF TypeOK, Refused, serverVars
  <2>2. Foreign(c)
    BY <1>0, <1>4, <1>7, Going DEF Foreign, Refused, serverVars
  <2>3. CInv(c)'
    BY <1>0, <1>1, <1>5, <1>7, Going DEF CInv, LockInv, ResultInv, Editing, Refused, serverVars
  <2> QED
    BY <2>1, <2>2, <2>3, Local
<1>8. CASE Lost(c, r) /\ Goto(c, "unlock") /\ failed' = [failed EXCEPT ![c] = TRUE]
  <2>1. failed' \in [Clients -> BOOLEAN] /\ failed'[c]
        /\ \A d \in Clients \ {c} : failed'[d] = failed[d]
    BY <1>0, <1>8 DEF TypeOK
  <2>0. r \in Requests /\ pending' \in {pending, pending \cup {<<c, r>>}}
    BY <1>0, <1>2, <1>8, LostEffect
  <2>2. /\ pending' \subseteq Clients \X Requests
        /\ <<c, "lock">> \in pending' => <<c, "lock">> \in pending
        /\ <<c, "unlock">> \in pending' => <<c, "unlock">> \in pending
        /\ \A d \in Clients \ {c}, q \in Requests :
              <<d, q>> \in pending' => <<d, q>> \in pending
    BY <1>0, <1>2, <2>0 DEF TypeOK
  <2>3. /\ lock' \in Clients \cup {None} /\ content' \subseteq Clients
        /\ includeExists' \in BOOLEAN /\ wrote' \in [Clients -> BOOLEAN]
        /\ expired' = expired
        /\ lock = c => lock' = c
        /\ \A d \in Clients \ {c} :
              wrote'[d] = wrote[d] /\ (lock' = d <=> lock = d)
    BY <1>0, <1>2, <1>8, <2>0, LostEffect
  <2>4. /\ pc' \in [Clients -> {"fetch", "lock", "write", "generate", "rewrite",
                                "unlock", "done"}]
        /\ result' = result /\ pc'[c] = "unlock"
        /\ \A d \in Clients \ {c} : pc'[d] = pc[d]
    BY <1>0, <1>8, Going
  <2>5. TypeOK'
    BY <1>0, <1>1, <1>4, <2>1, <2>2, <2>3, <2>4 DEF TypeOK
  <2>6. Foreign(c)
    BY <1>4, <2>1, <2>2, <2>3, <2>4 DEF Foreign
  <2>7. CInv(c)'
    BY <1>0, <1>1, <1>5, <2>1, <2>2, <2>3, <2>4
    DEF CInv, LockInv, ResultInv, Editing
  <2> QED
    BY <2>5, <2>6, <2>7, Local
<1> QED
  BY <1>3, <1>6, <1>7, <1>8

LEMMA UnlockStep == ASSUME IInv, NEW c \in Clients, Unlock(c) PROVE IInv'
<1>0. TypeOK /\ CInv(c)
  BY DEF IInv
<1>1. asked' \in [Clients -> SUBSET Requests]
      /\ \A d \in Clients \ {c} : asked'[d] = asked[d]
  BY <1>0, Bookkeeping DEF Unlock
<1>2. pc[c] = "unlock" /\ UNCHANGED <<modifiable, kind, base, failed>>
  BY DEF Unlock
<1>3. CASE Answered(c, "unlock") /\ End(c, IF failed[c] THEN "error" ELSE "ok")
  <2>1. PICK o \in {"ok", "error"} : End(c, o) /\ (o = "ok" => ~failed[c])
    BY <1>3
  <2>2. /\ pc' \in [Clients -> {"fetch", "lock", "write", "generate", "rewrite",
                                "unlock", "done"}]
        /\ result' \in [Clients -> {"none", "ok", "error", "unlock_error", "killed"}]
        /\ pc'[c] = "done" /\ result'[c] = o
        /\ \A d \in Clients \ {c} : pc'[d] = pc[d] /\ result'[d] = result[d]
    BY <1>0, <2>1, Ending
  <2>3. /\ lock' \in Clients \cup {None} /\ content' \subseteq Clients
        /\ includeExists' \in BOOLEAN /\ wrote' \in [Clients -> BOOLEAN]
        /\ expired' = expired
        /\ lock' # c /\ (wrote[c] => wrote'[c])
        /\ \A d \in Clients \ {c} :
              wrote'[d] = wrote[d] /\ (lock' = d <=> lock = d)
    BY <1>0, <1>3, ServeEffect DEF Answered
  <2>4. pending' = pending
    BY <1>3 DEF Answered
  <2>5. TypeOK'
    BY <1>0, <1>1, <1>2, <2>2, <2>3, <2>4 DEF TypeOK
  <2>6. Foreign(c)
    BY <1>1, <1>2, <2>2, <2>3, <2>4 DEF Foreign
  <2>7. CInv(c)'
    BY <1>0, <1>2, <2>1, <2>2, <2>3, <2>4 DEF CInv, LockInv, ResultInv, Editing
  <2> QED
    BY <2>5, <2>6, <2>7, Local
<1>4. CASE Lost(c, "unlock") /\ End(c, "unlock_error")
  <2>1. /\ pc' \in [Clients -> {"fetch", "lock", "write", "generate", "rewrite",
                                "unlock", "done"}]
        /\ result' \in [Clients -> {"none", "ok", "error", "unlock_error", "killed"}]
        /\ pc'[c] = "done" /\ result'[c] = "unlock_error"
        /\ \A d \in Clients \ {c} : pc'[d] = pc[d] /\ result'[d] = result[d]
    BY <1>0, <1>4, Ending
  <2>2. /\ lock' \in Clients \cup {None} /\ content' \subseteq Clients
        /\ includeExists' \in BOOLEAN /\ wrote' \in [Clients -> BOOLEAN]
        /\ expired' = expired
        /\ pending' \in {pending, pending \cup {<<c, "unlock">>}}
        /\ \A d \in Clients \ {c} :
              wrote'[d] = wrote[d] /\ (lock' = d <=> lock = d)
    BY <1>0, <1>4, LostEffect
  <2>3. /\ pending' \subseteq Clients \X Requests
        /\ <<c, "lock">> \in pending' => <<c, "lock">> \in pending
        /\ \A d \in Clients \ {c}, q \in Requests :
              <<d, q>> \in pending' => <<d, q>> \in pending
    BY <1>0, <2>2 DEF TypeOK
  <2>4. TypeOK'
    BY <1>0, <1>1, <1>2, <2>1, <2>2, <2>3 DEF TypeOK
  <2>5. Foreign(c)
    BY <1>1, <1>2, <2>1, <2>2, <2>3 DEF Foreign
  <2>6. CInv(c)'
    BY <1>0, <1>2, <2>1, <2>2, <2>3 DEF CInv, LockInv, ResultInv, Editing
  <2> QED
    BY <2>4, <2>5, <2>6, Local
<1> QED
  BY <1>3, <1>4 DEF Unlock

LEMMA KillStep == ASSUME IInv, NEW c \in Clients, Kill(c) PROVE IInv'
<1>0. TypeOK /\ CInv(c) /\ pc[c] # "done"
  BY DEF IInv, Kill
<1>1. End(c, "killed") /\ UNCHANGED <<modifiable, kind, base, failed, asked, serverVars, pending>>
  BY DEF Kill
<1>2. TypeOK'
  BY <1>0, <1>1, Ending DEF TypeOK, serverVars
<1>3. Foreign(c)
  BY <1>0, <1>1, Ending DEF Foreign, serverVars
<1>4. CInv(c)'
  BY <1>0, <1>1, Ending DEF CInv, LockInv, ResultInv, Editing, serverVars
<1> QED
  BY <1>2, <1>3, <1>4, Local

LEMMA ExpireStep == ASSUME IInv, NEW c \in Clients, Expire(c) PROVE IInv'
<1>0. TypeOK
  BY DEF IInv
<1>1. TypeOK'
  BY <1>0 DEF Expire, clientVars, TypeOK
<1>2. ASSUME NEW d \in Clients PROVE CInv(d)'
  <2>1. CInv(d)
    BY DEF IInv
  <2>2. expired'[d] = (d = c \/ expired[d]) /\ lock' # d /\ (d # c => lock # d)
    BY <1>0 DEF Expire, TypeOK
  <2> QED
    BY <1>0, <2>1, <2>2 DEF Expire, clientVars, CInv, LockInv, ResultInv, Editing
<1> QED
  BY <1>1, <1>2 DEF IInv

\* A late request of c is served when c has ended, or is one that neither takes
\* nor frees the lock.
LEMMA LateStep == ASSUME IInv, NEW p \in pending, ServeLate(p) PROVE IInv'
<1>0. TypeOK
  BY DEF IInv
<1>1. PICK c \in Clients, r \in Requests : p = <<c, r>>
  BY <1>0 DEF TypeOK
<1>2. Serve(c, r) /\ pending' = pending \ {p} /\ UNCHANGED <<modifiable, clientVars>>
  BY <1>1 DEF ServeLate
<1>3. /\ lock' \in Clients \cup {None} /\ content' \subseteq Clients
      /\ includeExists' \in BOOLEAN /\ wrote' \in [Clients -> BOOLEAN]
      /\ expired' = expired
      /\ wrote[c] => wrote'[c]
      /\ r = "lock" => lock' = c
      /\ r = "unlock" => lock' # c
      /\ r \in {"write", "generate"} => lock' = lock
      /\ \A d \in Clients \ {c} :
            wrote'[d] = wrote[d] /\ (lock' = d <=> lock = d)
  BY <1>0, <1>2, ServeEffect
<1>4. r # "fetch"
  BY <1>2 DEF Serve
<1>5. TypeOK'
  BY <1>0, <1>2, <1>3 DEF TypeOK, clientVars
<1>6. Foreign(c)
  BY <1>2, <1>3 DEF Foreign, clientVars
<1>7. CInv(c)'
  BY <1>0, <1>1, <1>2, <1>3, <1>4
  DEF IInv, CInv, LockInv, ResultInv, Editing, clientVars, TypeOK, EarlyRequests
<1> QED
  BY <1>5, <1>6, <1>7, Local

LEMMA InvStep == IInv /\ [Next]_vars => IInv'
<1> SUFFICES ASSUME IInv, [Next]_vars PROVE IInv'
  OBVIOUS
<1>1. ASSUME UNCHANGED vars PROVE IInv'
  BY <1>1 DEF vars, IInv, TypeOK, CInv, LockInv, ResultInv, Editing
<1> QED
  BY <1>1, FetchStep, LockStep, WriteStep, UnlockStep, KillStep, ExpireStep, LateStep
  DEF Next, Step

LEMMA Invariant == Spec => []IInv
BY InitInv, InvStep, PTL DEF Spec

-----------------------------------------------------------------------------
\* Every variable of the editing processes and of the server keeps its type.
THEOREM TypeCorrect == Spec => []TypeOK
BY Invariant, PTL DEF IInv

\* Two processes never have an editor of the object open at the same time
\* (objects.py:716-785), unless a session was dropped.
THEOREM Exclusion == Spec => []EditorsExcludeEachOther
<1>1. IInv => EditorsExcludeEachOther
  BY DEF IInv, CInv, LockInv, EditorsExcludeEachOther
<1> QED
  BY <1>1, Invariant, PTL

\* A command that ended without an exception has its change in and no lock left.
THEOREM OkIsDone == Spec => []OkMeansDone
<1>1. IInv => OkMeansDone
  BY DEF IInv, CInv, LockInv, ResultInv, OkMeansDone
<1> QED
  BY <1>1, Invariant, PTL

\* The only ways in which a finished command leaves the object locked.
THEOREM LeaksExplained == Spec => []LeakOnlyIf
<1>1. IInv => LeakOnlyIf
  BY DEF IInv, TypeOK, CInv, ResultInv, LeakOnlyIf, EarlyRequests
<1> QED
  BY <1>1, Invariant, PTL
=============================================================================
