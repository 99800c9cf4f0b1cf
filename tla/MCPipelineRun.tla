---------------------------- MODULE MCPipelineRun ----------------------------
(***************************************************************************)
(* Small pipelines for TLC.  Each is shaped after a documented use: a      *)
(* panel of lenses with its dependents, a preflight, an early exit,        *)
(* conditions, and references; gates cover every mode and decision key.    *)
(***************************************************************************)
EXTENDS PipelineRun

CONSTANTS a, b

MCAgents == {a, b}

ungated(kind, agents, deps) ==
    [kind |-> kind, agents |-> agents, threshold |-> [x \in {a, b} |-> Absent],
     conditional |-> {}, cond |-> FALSE, deps |-> deps, gate |-> NoGate]

gated(s, g) == [s EXCEPT !.gate = [g EXCEPT !.gated = TRUE]]

Abort70   == [NoGate EXCEPT !.threshold = 70]
AbortOnly == [NoGate EXCEPT !.on_failure = "abort"]
FailOnly  == [NoGate EXCEPT !.on_failure = "fail", !.decision = "positive"]
WarnOnly  == [NoGate EXCEPT !.on_failure = "warn"]

\* A panel behind abort, and two stages downstream of it.
Panel == <<gated(ungated("agents", {a, b}, {}), Abort70),
           ungated("agents", {a}, {1}),
           ungated("agents", {b}, {2})>>

\* A preflight of steps, then a referenced workflow, gated.
Preflight == <<gated(ungated("steps", {}, {}), AbortOnly),
               gated(ungated("ref", {}, {1}), FailOnly)>>

\* A gate that ends the run when it passes, beside per-agent thresholds; the
\* last stage names a dependency nobody declares.
Early == <<gated([ungated("agents", {a, b}, {}) EXCEPT !.threshold[a] = 70],
                 [Abort70 EXCEPT !.on_success = "skip_remaining"]),
           gated(ungated("ref", {}, {}), WarnOnly),
           ungated("steps", {}, {1, Unknown})>>

\* Conditions on stages and on agents, and a gate over nothing.
Conditions == <<gated([ungated("agents", {a}, {}) EXCEPT !.cond = TRUE], AbortOnly),
                gated([ungated("agents", {a, b}, {1}) EXCEPT !.conditional = {a, b}], FailOnly),
                gated(ungated("agents", {}, {}), WarnOnly)>>

\* The other aggregates, and a gate that accepts what is not negative.
Aggregates == <<gated(ungated("agents", {a, b}, {}),
                      [Abort70 EXCEPT !.on_failure = "skip", !.aggregate = "max"]),
                gated(ungated("agents", {a, b}, {1}),
                      [Abort70 EXCEPT !.on_failure = "warn", !.aggregate = "average"])>>

MCPipelines == {Panel, Preflight, Early, Conditions, Aggregates}

\* An unknown dependency between a failed gate and a dependent.
Ghost == {<<gated(ungated("agents", {a}, {}), AbortOnly),
            ungated("agents", {a}, {1, Unknown}),
            ungated("agents", {b}, {2})>>}

\* One agent behind a gate, then a stage of steps.
Short == {<<gated(ungated("agents", {a}, {}), Abort70), ungated("steps", {}, {1})>>}

answer(class, score) == [class |-> class, score |-> score]

MCAnswers == {answer("positive", 80), answer("positive", 60), answer("negative", 80),
              answer("conditional", 80), answer("absent", NoScore)}
FewAnswers == {answer("positive", 80), answer("negative", 60)}

=============================================================================
