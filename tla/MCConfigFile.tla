----------------------------- MODULE MCConfigFile -----------------------------
(***************************************************************************)
(* An instance of ConfigFile for TLC: one connection, one user and two     *)
(* contexts, a file that is empty or has one context, and two sources: one *)
(* has everything, the other is shared without the user.                   *)
(***************************************************************************)
EXTENDS ConfigFile

CONSTANTS k, u, x, y

MCConnections == {k}
MCUsers == {u}
MCContexts == {x, y}

Full == [connection |-> k, user |-> u]

Complete ==
    [connections |-> [n \in {k} |-> "given"],
     users |-> [n \in {u} |-> "given"],
     contexts |-> [n \in {x, y} |-> Full],
     current |-> y]

MCSources == {Complete, [Complete EXCEPT !.users[u] = None]}

OneContext ==
    [connections |-> [n \in {k} |-> "set"],
     users |-> [n \in {u} |-> "set"],
     contexts |-> [n \in {x, y} |-> IF n = x THEN Full ELSE None],
     current |-> x]

MCInitialFiles == {OneContext, [OneContext EXCEPT !.contexts[x] = None, !.current = None]}
=============================================================================
