------------------------------ MODULE MCCheckin -------------------------------
(***************************************************************************)
(* An instance of Checkin for TLC: a package, a sub-package that is not    *)
(* spelled in capitals, a class in each, one of them with two files and    *)
(* one of an unknown part, and a function group with a remote function.    *)
(* There is no program: the second group is empty.                         *)
(***************************************************************************)
EXTENDS Checkin, TLC

CONSTANTS root, sub, cl, lc, fg, main, test, macros, func

MCPackageOrder == <<root, sub>>
MCParent == [p \in {root, sub} |-> IF p = sub THEN root ELSE None]
MCObjects == {cl, lc, fg}
MCKind == [o \in MCObjects |-> IF o = fg THEN "fugr" ELSE "clas"]
MCHome == [o \in MCObjects |-> IF o = lc THEN sub ELSE root]
MCSources ==
    [o \in MCObjects |->
        IF o = cl THEN <<main, macros, test>> ELSE IF o = lc THEN <<main>> ELSE <<func>>]

\* The processes do not differ, and only invariants are checked.
MCSymmetry == Permutations(Clients)
=============================================================================
