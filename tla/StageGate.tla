------------------------------ MODULE StageGate ------------------------------
(***************************************************************************)
(* Stage gates: the failure mode, the decision key, the judgement of a     *)
(* stage's members, and the rule that makes an agent unjudgeable           *)
(* (executor/stageGate.ts, executor/agentVerdict.ts).  The run verdict     *)
(* derived from the judged stages is here too (executor/runVerdict.ts).    *)
(*                                                                         *)
(* A gate is a record; gated says whether the stage declares one.  An      *)
(* authored number is Absent, or any integer: a negative one stands for    *)
(* every value that is not a usable number.                                *)
(***************************************************************************)
EXTENDS StopVerdict, FiniteSets, FiniteSetsExt

Absent == -1

Gate == [gated : BOOLEAN,
         on_failure : {"absent", "abort", "fail", "skip", "warn", "other"},
         on_success : {"continue", "skip_remaining"},
         decision : {"absent", "not_negative", "positive", "ignore"},
         threshold : Int,
         aggregate : {"min", "max", "average"}]

NoGate == [gated |-> FALSE, on_failure |-> "absent", on_success |-> "continue",
           decision |-> "absent", threshold |-> Absent, aggregate |-> "min"]

Modes == {"abort", "fail", "warn"}

gateMode(gate) ==
    CASE ~gate.gated                        -> "warn"
      [] gate.gated /\ gate.on_failure = "warn" -> "warn"
      [] gate.gated /\ gate.on_failure \in {"fail", "skip"} -> "fail"
      [] OTHER                              -> "abort"

isBlocking(mode) == mode # "warn"

decisionKey(gate) ==
    CASE ~gate.gated                             -> "not_negative"
      [] gate.gated /\ gate.decision # "absent"  -> gate.decision
      [] OTHER -> IF isBlocking(gateMode(gate)) THEN "not_negative" ELSE "ignore"

\* finiteNonNegative: an authored number that can be compared with a score.
usable(authored) == authored >= 0

-----------------------------------------------------------------------------
(***************************************************************************)
(* members is a set of [name, class, score, threshold], threshold being    *)
(* the member's own one in per-agent mode.                                 *)
(***************************************************************************)
failsOnDecision(gate, m) ==
    \/ m.class = "negative"    /\ decisionKey(gate) # "ignore"
    \/ m.class = "conditional" /\ decisionKey(gate) = "positive"

memberThreshold(gate, m) ==
    IF m.threshold # Absent THEN m.threshold ELSE gate.threshold

failsOnOwnScore(gate, m) ==
    \/ ~usable(memberThreshold(gate, m))
    \/ m.score # NoScore /\ m.score < memberThreshold(gate, m)

\* The aggregate of the scores of a non-empty set of scored members is below the
\* threshold; an average is compared without division.
scoresBelow(how, threshold, scored) ==
    CASE how = "max" -> \A m \in scored : m.score < threshold
      [] how = "min" -> \E m \in scored : m.score < threshold
      [] how = "average" ->
           MapThenSumSet(LAMBDA m : m.score, scored) < threshold * Cardinality(scored)

\* The members that have a score fall below the gate's threshold together.
failsOnAggregate(gate, members) ==
    LET scored == {m \in members : m.score # NoScore}
    IN  /\ gate.threshold # Absent
        /\ \/ ~usable(gate.threshold)
           \/ scored # {} /\ scoresBelow(gate.aggregate, gate.threshold, scored)

gateFails(gate, members, perAgent) ==
    \/ \E m \in members : failsOnDecision(gate, m)
    \/ perAgent  /\ \E m \in members : failsOnOwnScore(gate, m)
    \/ ~perAgent /\ failsOnAggregate(gate, members)

\* The members a passing blocking gate accepted although they are conditional.
conditionalAccepted(gate, members, perAgent) ==
    IF gateFails(gate, members, perAgent) \/ ~isBlocking(gateMode(gate)) THEN {}
    ELSE {m \in members : m.class = "conditional" /\ decisionKey(gate) = "not_negative"}

judgedOutcome(failed, mode) ==
    IF ~failed THEN "PASSED" ELSE IF mode = "warn" THEN "WARNED" ELSE "FAILED"

-----------------------------------------------------------------------------
(* An agent with nothing a gate could judge (D24, D12). *)
isUnjudgeable(class, score, hasThreshold, blocking) ==
    \/ class = "absent" /\ blocking
    \/ score = NoScore /\ (hasThreshold \/ class \in {"neutral", "absent"})

-----------------------------------------------------------------------------
(***************************************************************************)
(* The run verdict over a set of judged stages, each with outcome and      *)
(* mode ("none" where the stage was given no mode).                        *)
(***************************************************************************)
computeAllGatesPassed(stages, anyConditionalAccepted, reached, executionFailed) ==
    /\ ~reached /\ ~executionFailed
    /\ ~anyConditionalAccepted
    /\ \A s \in stages :
         /\ s.outcome # "FAILED"
         /\ s.outcome = "ERRORED" => s.mode = "warn"

runDecision(allGatesPassed, stages) ==
    IF ~allGatesPassed THEN "FAIL"
    ELSE IF \E s \in stages : \/ s.outcome = "WARNED"
                              \/ s.outcome = "ERRORED" /\ s.mode = "warn"
         THEN "WARN"
         ELSE "PASS"

=============================================================================
