------------------------------ MODULE ObjectEditor -----------------------------
(***************************************************************************)
(* Editing a repository object over ADT (sap/adt/objects.py): sapcli       *)
(* processes, each running one command, lock the same object, write it and *)
(* unlock it.  "source" replaces the text (sapcli ... write), "include" is *)
(* a class include with its two attempts, "attributes" reads the object,   *)
(* changes it and pushes it back (data element, BAdI, function module).    *)
(*                                                                         *)
(* Every request is a call of HttpSession, with the outcomes RemoteCall    *)
(* promises: answered and executed, refused and not executed, or lost, in  *)
(* which case the server has executed it, will do so later, or never will. *)
(***************************************************************************)
EXTENDS FiniteSets

CONSTANTS Clients,       \* sapcli processes
          None           \* the lock of an unlocked object

ASSUME NoneAssumption == None \notin Clients

VARIABLES modifiable,    \* ADTObjectType._editor_factory is not None
          kind,          \* kind[c]: how process c edits the object
          pc,            \* pc[c]: where process c is
          base,          \* base[c]: the changes c read before editing
          failed,        \* failed[c]: an exception is leaving the with block
          asked,         \* asked[c]: the requests c has made
          result,        \* result[c]: how the command ended
          lock,          \* server: the process whose session holds the lock
          content,       \* server: whose changes the object consists of
          includeExists, \* server: the class include has been generated
          wrote,         \* server: wrote[c], a write of c was accepted
          expired,       \* server: expired[c], a session of c was dropped with its lock
          pending        \* requests given up by the client, not yet handled

clientVars == <<kind, pc, base, failed, asked, result>>
serverVars == <<lock, content, includeExists, wrote, expired>>
vars == <<modifiable, kind, pc, base, failed, asked, result, lock, content,
          includeExists, wrote, expired, pending>>

Kinds == {"source", "include", "attributes"}
Requests == {"fetch", "lock", "write", "generate", "unlock"}

Init ==
    /\ modifiable \in BOOLEAN
    /\ kind \in [Clients -> Kinds]
    /\ pc = [c \in Clients |-> IF kind[c] = "attributes" THEN "fetch" ELSE "lock"]
    /\ base = [c \in Clients |-> {}]
    /\ failed = [c \in Clients |-> FALSE]
    /\ asked = [c \in Clients |-> {}]
    /\ result = [c \in Clients |-> "none"]
    /\ lock = None
    /\ content = {}
    /\ includeExists \in BOOLEAN
    /\ wrote = [c \in Clients |-> FALSE]
    /\ expired = [c \in Clients |-> FALSE]
    /\ pending = {}

-----------------------------------------------------------------------------
\* The server (external): one lock per object, bound to the stateful session of
\* the request, and no modification without the handle of that lock.
ServeLock(c) ==
    /\ lock = None
    /\ lock' = c
    /\ UNCHANGED <<content, includeExists, wrote, expired>>

ServeWrite(c) ==
    /\ lock = c
    /\ kind[c] = "include" => includeExists
    /\ content' = base[c] \cup {c}
    /\ wrote' = [wrote EXCEPT ![c] = TRUE]
    /\ UNCHANGED <<lock, includeExists, expired>>

ServeGenerate(c) ==
    /\ lock = c
    /\ includeExists' = TRUE
    /\ UNCHANGED <<lock, content, wrote, expired>>

ServeUnlock(c) ==
    /\ lock' = IF lock = c THEN None ELSE lock
    /\ UNCHANGED <<content, includeExists, wrote, expired>>

Serve(c, r) ==
    \/ r = "lock" /\ ServeLock(c)
    \/ r = "write" /\ ServeWrite(c)
    \/ r = "generate" /\ ServeGenerate(c)
    \/ r = "unlock" /\ ServeUnlock(c)

\* A request the client has given up arrives after all.
ServeLate(p) ==
    /\ Serve(p[1], p[2])
    /\ pending' = pending \ {p}
    /\ UNCHANGED <<modifiable, clientVars>>

\* The session of c times out and takes its lock with it.
Expire(c) ==
    /\ lock = c
    /\ lock' = None
    /\ expired' = [expired EXCEPT ![c] = TRUE]
    /\ UNCHANGED <<modifiable, clientVars, content, includeExists, wrote, pending>>

-----------------------------------------------------------------------------
\* The outcomes of one call.
Answered(c, r) == Serve(c, r) /\ UNCHANGED pending
Refused == UNCHANGED <<serverVars, pending>>
Lost(c, r) ==
    \/ Answered(c, r)
    \/ Refused
    \/ pending' = pending \cup {<<c, r>>} /\ UNCHANGED serverVars

Ask(c, r) == asked' = [asked EXCEPT ![c] = @ \cup {r}]
Goto(c, p) == pc' = [pc EXCEPT ![c] = p] /\ UNCHANGED result
End(c, o) == pc' = [pc EXCEPT ![c] = "done"] /\ result' = [result EXCEPT ![c] = o]

\* ADTObject.fetch(): reading needs no lock.
Fetch(c) ==
    /\ pc[c] = "fetch"
    /\ Ask(c, "fetch")
    /\ \/ Goto(c, "lock") /\ base' = [base EXCEPT ![c] = content]
       \/ End(c, "error") /\ UNCHANGED base
    /\ UNCHANGED <<modifiable, kind, failed, serverVars, pending>>

\* Broken form of Lock: any answer to LOCK is taken for a lock result.
LockUnchecked(c) ==
    /\ pc[c] = "lock"
    /\ Ask(c, "lock")
    /\ Answered(c, "lock") \/ Refused
    /\ Goto(c, "write")
    /\ UNCHANGED <<modifiable, kind, base, failed>>

\* ADTObject.open_editor(): the object is locked first, and the type is asked
\* for its editor afterwards; an answer that is not a lock result is an error.
Lock(c) ==
    /\ pc[c] = "lock"
    /\ Ask(c, "lock")
    /\ \/ Answered(c, "lock") /\ modifiable /\ Goto(c, "write")
       \/ Answered(c, "lock") /\ ~modifiable /\ End(c, "error")
       \/ Lost(c, "lock") /\ End(c, "error")
    /\ UNCHANGED <<modifiable, kind, base, failed>>

\* Broken form of Write: a failed write leaves without unlocking.
WriteLeaving(c) ==
    /\ pc[c] \in {"write", "rewrite"}
    /\ Ask(c, "write")
    /\ \/ Answered(c, "write") /\ Goto(c, "unlock")
       \/ Refused /\ kind[c] = "include" /\ pc[c] = "write" /\ Goto(c, "generate")
       \/ Lost(c, "write") /\ End(c, "error")
    /\ UNCHANGED <<modifiable, kind, base, failed>>

\* Broken form of Write: a failed save is repeated until it succeeds.
WriteForever(c) ==
    /\ pc[c] \in {"write", "rewrite"}
    /\ Ask(c, "write")
    /\ \/ Answered(c, "write") /\ Goto(c, "unlock")
       \/ Refused /\ kind[c] = "include" /\ pc' = [pc EXCEPT ![c] = "rewrite"] /\ UNCHANGED result
    /\ UNCHANGED <<modifiable, kind, base, failed>>

\* ADTObjectSourceEditor.write(), ADTObjectEditor.push() and the two attempts
\* of ClassIncludeEditor.write(): a save failure of the first one is expected.
Write(c) ==
    /\ pc[c] \in {"write", "rewrite"}
    /\ Ask(c, "write")
    /\ \/ Answered(c, "write") /\ Goto(c, "unlock") /\ UNCHANGED failed
       \/ /\ kind[c] = "include" /\ pc[c] = "write"
          /\ Refused /\ Goto(c, "generate") /\ UNCHANGED failed
       \/ /\ Lost(c, "write") /\ Goto(c, "unlock")
          /\ failed' = [failed EXCEPT ![c] = TRUE]
    /\ UNCHANGED <<modifiable, kind, base>>

\* ClassIncludeEditor.generate_includes(), outside of the try block.
Generate(c) ==
    /\ pc[c] = "generate"
    /\ Ask(c, "generate")
    /\ \/ Answered(c, "generate") /\ Goto(c, "rewrite") /\ UNCHANGED failed
       \/ /\ Lost(c, "generate") /\ Goto(c, "unlock")
          /\ failed' = [failed EXCEPT ![c] = TRUE]
    /\ UNCHANGED <<modifiable, kind, base>>

\* Broken form of Unlock: leaving the with block swallows the exception.
UnlockSwallowing(c) ==
    /\ pc[c] = "unlock"
    /\ Ask(c, "unlock")
    /\ \/ Answered(c, "unlock") /\ End(c, "ok")
       \/ Lost(c, "unlock") /\ End(c, "unlock_error")
    /\ UNCHANGED <<modifiable, kind, base, failed>>

\* ADTObjectEditor.__exit__(): unlocks whatever happened; its own exception
\* replaces the one of the with block.
Unlock(c) ==
    /\ pc[c] = "unlock"
    /\ Ask(c, "unlock")
    /\ \/ Answered(c, "unlock") /\ End(c, IF failed[c] THEN "error" ELSE "ok")
       \/ Lost(c, "unlock") /\ End(c, "unlock_error")
    /\ UNCHANGED <<modifiable, kind, base, failed>>

\* The process is killed between two requests.
Kill(c) ==
    /\ pc[c] # "done"
    /\ End(c, "killed")
    /\ UNCHANGED <<modifiable, kind, base, failed, asked, serverVars, pending>>

Step(c) == Fetch(c) \/ Lock(c) \/ Write(c) \/ Generate(c) \/ Unlock(c)

Next ==
    \/ \E c \in Clients : Step(c) \/ Kill(c) \/ Expire(c)
    \/ \E p \in pending : ServeLate(p)

\* Every request of a process is answered or times out.
Fairness == \A c \in Clients : WF_vars(Step(c))

Spec == Init /\ [][Next]_vars /\ Fairness

-----------------------------------------------------------------------------
TypeOK ==
    /\ modifiable \in BOOLEAN
    /\ kind \in [Clients -> Kinds]
    /\ pc \in [Clients -> {"fetch", "lock", "write", "generate", "rewrite",
                           "unlock", "done"}]
    /\ base \in [Clients -> SUBSET Clients]
    /\ failed \in [Clients -> BOOLEAN]
    /\ asked \in [Clients -> SUBSET Requests]
    /\ result \in [Clients -> {"none", "ok", "error", "unlock_error", "killed"}]
    /\ lock \in Clients \cup {None}
    /\ content \subseteq Clients
    /\ includeExists \in BOOLEAN
    /\ wrote \in [Clients -> BOOLEAN]
    /\ expired \in [Clients -> BOOLEAN]
    /\ pending \subseteq Clients \X Requests

\* A command that ends without an exception has had its change accepted, has
\* released its lock and can never get it again by a late request.
OkMeansDone ==
    \A c \in Clients : result[c] = "ok" =>
        wrote[c] /\ lock # c /\ <<c, "lock">> \notin pending

\* A finished command leaves the object locked only if it never got an editor
\* (the answer to LOCK was lost or unusable, or the type has no editor), if
\* UNLOCK itself failed, or if the process was killed.
LeakOnlyIf ==
    \A c \in Clients : pc[c] = "done" /\ lock = c =>
        \/ result[c] = "error" /\ asked[c] \subseteq {"fetch", "lock"}
        \/ result[c] \in {"unlock_error", "killed"}

Editing(c) == pc[c] \in {"write", "generate", "rewrite", "unlock"}

\* Two processes never have an editor of the object open at the same time,
\* unless the server has dropped the session of one of them meanwhile.
EditorsExcludeEachOther ==
    \A c, d \in Clients :
        Editing(c) /\ Editing(d) /\ ~expired[c] /\ ~expired[d] => c = d

\* Every command ends: with an editor open, that takes an attempt to unlock.
EveryEditEnds ==
    \A c \in Clients : pc[c] = "write" ~>
        pc[c] = "done" /\ ("unlock" \in asked[c] \/ result[c] = "killed")
=============================================================================
