----------------------------- MODULE RunContract -----------------------------
(***************************************************************************)
(* What a pipeline run promises whoever holds its handle, whatever its     *)
(* stages are: a single status that moves once; every authored stage       *)
(* recorded by the time the run is over, unless its own code threw; and    *)
(* nothing set to work after the run was stopped.                          *)
(***************************************************************************)
EXTENDS Naturals

VARIABLES
    total,     \* authored stages
    status,    \* running, then completed, failed or cancelled
    recorded,  \* stages with a result
    busy,      \* a stage is at work
    over       \* nothing will happen any more

vars == <<total, status, recorded, busy, over>>

Stopped == {"failed", "cancelled"}

Init ==
    /\ total \in Nat
    /\ status \in {"running"} \union Stopped
    /\ recorded = 0 /\ ~busy /\ ~over

\* A stage is set to work, which only a run nobody stopped may do.
Begin ==
    /\ ~over /\ ~busy /\ status = "running" /\ recorded < total
    /\ busy' = TRUE
    /\ UNCHANGED <<total, status, recorded, over>>

\* A stage is recorded: one that was skipped, or the one at work.
Record ==
    /\ ~over /\ status = "running" /\ recorded < total
    /\ recorded' = recorded + 1 /\ busy' = FALSE
    /\ UNCHANGED <<total, status, over>>

\* The run is stopped; a stage at work is left to unwind.
Stop ==
    /\ ~over /\ status = "running"
    /\ status' \in Stopped
    /\ UNCHANGED <<total, recorded, busy, over>>

\* The run is over with every stage recorded.
Leave ==
    /\ ~over
    /\ over' = TRUE /\ busy' = FALSE /\ recorded' = total
    /\ status' = IF status = "running" THEN "completed" ELSE status
    /\ UNCHANGED total

\* The run's own code threw.
Fail ==
    /\ ~over
    /\ over' = TRUE /\ busy' = FALSE
    /\ status' = IF status = "running" THEN "failed" ELSE status
    /\ UNCHANGED <<total, recorded>>

Progress == Begin \/ Record \/ Leave \/ Fail
Next == Progress \/ Stop

SafeSpec == Init /\ [][Next]_vars
Spec == SafeSpec /\ WF_vars(Progress)

=============================================================================
