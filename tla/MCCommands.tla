------------------------------ MODULE MCCommands ------------------------------
(***************************************************************************)
(* An instance of Commands for TLC: a transport with two tasks and one     *)
(* object, two users, two reports.                                         *)
(***************************************************************************)
EXTENDS Commands, TLC

CONSTANTS t1, t2, o1

MCTaskOrder == <<t1, t2>>
MCObjectOrder == <<o1>>

MCSymmetry == Permutations(Clients) \cup Permutations(Reports)
=============================================================================
