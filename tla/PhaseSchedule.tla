---------------------------- MODULE PhaseSchedule ----------------------------
(***************************************************************************)
(* What a workflow promises about the order of its phases, whatever they   *)
(* run and however it ends: a phase is set to work at most once, only when *)
(* every phase it depends on is settled, and never once the schedule is    *)
(* barred (by a run stop or by a failed phase); every phase settles, at    *)
(* work or dismissed, unless the workflow itself fails.                    *)
(***************************************************************************)

VARIABLES
    deps,     \* the phases each phase depends on
    active,   \* phases at work
    settled,  \* phases with a result
    barred,   \* nothing more may be set to work
    over      \* nothing will happen any more

vars == <<deps, active, settled, barred, over>>

Phases  == DOMAIN deps
Waiting == Phases \ (active \union settled)

Init == active = {} /\ settled = {} /\ barred \in BOOLEAN /\ over = FALSE

\* Some phases end, some are dismissed without having worked, some start.
Move(ended, dismissed, started) ==
    /\ ~over
    /\ \A p \in dismissed \union started : deps[p] \subseteq settled
    /\ started # {} => ~barred
    /\ active'  = (active \ ended) \union started
    /\ settled' = settled \union ended \union dismissed
    /\ barred => barred'
    /\ UNCHANGED <<deps, over>>

Leave ==
    /\ ~over /\ active = {} /\ settled = Phases
    /\ over' = TRUE
    /\ UNCHANGED <<deps, active, settled, barred>>

\* The workflow fails: what is at work is lost.
Fail ==
    /\ ~over
    /\ over' = TRUE /\ active' = {}
    /\ UNCHANGED <<deps, settled, barred>>

Next ==
    \/ \E ended \in SUBSET active : \E dismissed \in SUBSET Waiting :
         \E started \in SUBSET (Waiting \ dismissed) : Move(ended, dismissed, started)
    \/ Leave
    \/ Fail

SafeSpec == Init /\ [][Next]_vars

=============================================================================
