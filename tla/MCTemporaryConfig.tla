--------------------------- MODULE MCTemporaryConfig --------------------------
(***************************************************************************)
(* Instances of TemporaryConfig for TLC: one process with every command    *)
(* and every initial setting, and two processes on a smaller choice.       *)
(***************************************************************************)
EXTENDS TemporaryConfig

CONSTANTS c1, c2

MCOne == {c1}
MCTwo == {c1, c2}

MCEveryCommand == [c \in Clients |-> AllCommands]
MCEverySetting == Settings

\* The first process switches to the other branch, the second one stays; one option
\* has a value to put back, the other has none.
MCRacingCommands ==
    [c \in Clients |->
        {k \in AllCommands :
            IF c = c1
            THEN k.branch = "dev" /\ ~k.wait /\ Len(k.contexts) = 2
            ELSE k.branch = "main" /\ k.name = "update_filesystem"}]

MCRacingSettings ==
    {[branch |-> "main", VCS_NO_IMPORT |-> "absent", VCS_BUFFER_ONLY |-> "other"]}

\* What is printed and reported decides nothing that happens, and the properties of
\* the race do not mention it.
MCRacingView ==
    <<settings, original, pending, cmd, pc, data, config, old, open, failed, start,
      disturbed, imported, unanswered>>
=============================================================================
