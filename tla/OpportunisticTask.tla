------------------------- MODULE OpportunisticTask -------------------------
(***************************************************************************)
(* What internal/pregen promises of the Chunky task, with no controller,   *)
(* no RCON and no sensors: the task runs or is paused as the latest        *)
(* verdict on the node says, no new verdict is given before the task       *)
(* follows the one before it, and after the final verdict (shutdown) the   *)
(* task stays paused.                                                      *)
(***************************************************************************)
VARIABLES
    task,       \* "run" or "pause": what Chunky really does
    verdict     \* the latest verdict: see Verdicts

vars == <<task, verdict>>

Verdicts == {"none", "run", "pause", "final"}

\* What the task has to do under a verdict.
Due(v) == IF v = "run" THEN "run" ELSE "pause"

Followed == verdict = "none" \/ task = Due(verdict)

Init ==
    /\ task \in {"run", "pause"}
    /\ verdict = "none"

Judge ==
    /\ Followed
    /\ verdict # "final"
    /\ verdict' \in Verdicts \ {"none"}
    /\ UNCHANGED task

Obey ==
    /\ ~Followed
    /\ task' = Due(verdict)
    /\ UNCHANGED verdict

Next == Judge \/ Obey

Spec == Init /\ [][Next]_vars

FairSpec == Spec /\ WF_vars(Obey)
=============================================================================
