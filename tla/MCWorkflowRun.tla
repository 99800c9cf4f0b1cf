---------------------------- MODULE MCWorkflowRun ----------------------------
(***************************************************************************)
(* Small workflows for TLC: chains, forks and joins of phases under every  *)
(* posture, behind a usable, an unusable and no max_parallel.              *)
(***************************************************************************)
EXTENDS WorkflowRun

NoGateHere == [gated |-> FALSE, threshold |-> 0, aggregate |-> "average", warn |-> FALSE]
gate70(aggregate, warn) ==
    [gated |-> TRUE, threshold |-> 70, aggregate |-> aggregate, warn |-> warn]
unusable == [gated |-> TRUE, threshold |-> -1, aggregate |-> "min", warn |-> FALSE]

ph(steps, deps, gate) ==
    [steps |-> steps, deps |-> deps, gate |-> gate, parallel |-> FALSE, skip |-> FALSE]

parallel(p) == [p EXCEPT !.parallel = TRUE]
skip(p)     == [p EXCEPT !.skip = TRUE]

wf(phases, onFailure, capped, max) ==
    [phases |-> phases, onFailure |-> onFailure, capped |-> capped, maxParallel |-> max]

Postures == {"stop", "abort", "warn", "continue"}

\* Three phases behind one worker, two of them gated, and a dependent.
Queue == {wf(<<ph(1, {}, gate70("average", FALSE)), ph(1, {}, gate70("min", TRUE)),
               ph(1, {1}, NoGateHere)>>, posture, TRUE, 1) : posture \in Postures}

\* Two workers for three phases, one of them skipped by its condition, which
\* satisfies the phase that depends on it.
Wide == {wf(<<ph(1, {}, gate70("max", FALSE)), ph(0, {}, NoGateHere), ph(1, {}, NoGateHere),
              skip(ph(1, {}, NoGateHere)), ph(0, {3, 4}, gate70("average", TRUE))>>,
            posture, TRUE, 2) : posture \in {"warn", "continue"}}

\* A phase of parallel steps and one of steps in order, then a phase of one step.
Steps == {wf(<<parallel(ph(2, {}, gate70("average", FALSE))), ph(1, {1}, unusable)>>,
             "warn", FALSE, 0),
          wf(<<ph(2, {}, gate70("min", TRUE)), ph(1, {1}, NoGateHere)>>, "stop", TRUE, 0),
          wf(<<ph(2, {}, NoGateHere), parallel(ph(2, {}, NoGateHere))>>, "continue", TRUE, 0)}

\* A diamond, behind more workers than a level has phases.
Diamond == {wf(<<ph(1, {}, gate70("average", TRUE)), ph(1, {1}, NoGateHere),
                 ph(1, {1}, gate70("min", FALSE)), ph(1, {2, 3}, NoGateHere)>>,
               posture, TRUE, 3) : posture \in {"stop", "warn"}}

\* A cycle, and a dependency nobody declares.
Unordered == {wf(<<ph(1, {2}, NoGateHere), ph(1, {1}, NoGateHere), ph(1, {}, NoGateHere)>>,
                 "stop", FALSE, 0),
              wf(<<ph(1, {}, NoGateHere), ph(1, {3}, NoGateHere)>>, "stop", FALSE, 0)}

MCWorkflows == Queue \union Wide \union Steps \union Unordered
AllWorkflows == MCWorkflows \union Diamond

answer(class, score) == [class |-> class, score |-> score]

MCAnswers == {answer("positive", 80), answer("positive", 60),
              answer("negative", 80), answer("negative", NoScore)}
FewAnswers == {answer("positive", 80), answer("negative", 60)}

=============================================================================
