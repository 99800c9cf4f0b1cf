----------------------------- MODULE PipelineRun -----------------------------
(***************************************************************************)
(* One run of a pipeline: the stage loop of PipelineExecutor.executeAsync, *)
(* the work a stage has in flight, the four ways a run is stopped from     *)
(* outside the loop (handle.cancel(), a provider 402, the caller's abort   *)
(* and the caller's deadline), and the handle that reports the result.     *)
(*                                                                         *)
(* The executor is JavaScript: between two awaits the loop runs alone.  So *)
(* the actions of the loop are atomic pieces of that code, pc = "loop"     *)
(* while it is running, and every other actor's action requires that it    *)
(* has yielded (pc # "loop").                                              *)
(*                                                                         *)
(* Abstracted: what a condition says (its value is any of true, false and  *)
(* E), what agents answer (any answer in Answers), upstream forwarding,    *)
(* scores above the stage, metrics, texts and logging.                     *)
(***************************************************************************)
EXTENDS StageGate, Sequences

CONSTANTS
    Pipelines,        \* the authored pipelines a run may be started with
    Agents,           \* names of inline agents
    Answers,          \* the [class, score] pairs an answer may carry
    CallerSignals,    \* the caller's signal at start(): none, live, aborted, deadline
    AllowStageSteps,  \* the opt-in that lets steps stages run
    LoggerThrows      \* whether the consumer's logger may throw inside the loop

\* An unknown stage id in a depends_on.
Unknown == 0

Stage == [kind : {"agents", "steps", "ref"}, agents : SUBSET Agents,
          threshold : [Agents -> Int], conditional : SUBSET Agents,
          cond : BOOLEAN, deps : SUBSET Nat, gate : Gate]

\* start() refuses a pipeline with a forward reference (pipelineLoad) and, with
\* steps off, a blocking gate over a steps stage.
Launchable(p) ==
    \A i \in DOMAIN p :
        /\ \A d \in p[i].deps : d < i
        /\ p[i].kind = "steps" /\ p[i].gate.gated /\ isBlocking(gateMode(p[i].gate))
             => AllowStageSteps

ASSUME PipelinesAssumption ==
    /\ Pipelines \subseteq Seq(Stage)
    /\ \A p \in Pipelines : Launchable(p)
ASSUME UnitsAssumption == "steps" \notin Agents /\ "ref" \notin Agents
ASSUME AnswersAssumption == Answers \subseteq [class : Classes, score : Nat \union {NoScore}]
ASSUME CallerAssumption ==
    /\ CallerSignals \subseteq {"none", "live", "aborted", "deadline"}
    /\ AllowStageSteps \in BOOLEAN /\ LoggerThrows \in BOOLEAN

VARIABLES
    def,       \* the pipeline being run
    status,    \* PipelineState.status
    label,     \* the stop label of a failed stop (stopLabels), or "none"
    error,     \* who wrote PipelineState.error
    caller,    \* the caller's own abort signal
    signal,    \* the run's signal: AbortSignal.any([controller, caller])
    pc,        \* "loop" while executeAsync runs, "await" in a stage, "ended"
    stage,     \* index of the current stage
    running,   \* the units of the current stage that have not settled
    records,   \* the record each settled unit of the current stage left
    condErrs,  \* its inline agents whose condition was E
    results,   \* PipelineState.stageResults
    aborted,   \* stages whose dependents are skipped
    accepted,  \* stages a CONDITIONAL_ACCEPTED warning was raised for
    threw,     \* the loop threw (and its catch ran)
    settled,   \* the execution promise's callbacks have run
    reply      \* how the last handle.cancel() answered

stopVars  == <<status, label, error, signal>>
workVars  == <<running, records, condErrs>>
loopVars  == <<pc, stage, results, aborted, accepted, threw>>
vars == <<def, status, label, error, caller, signal, pc, stage, running, records,
          condErrs, results, aborted, accepted, threw, settled, reply>>

Units == Agents \union {"steps", "ref"}

\* What a unit that has settled left.
Settled == [unit : Units, record : Record]
N == Len(def)
current == def[stage]

\* (mistake: a run stopped for credit or by a deadline is taken to be running)
stoppedNowCancelOnly == status = "cancelled"

stoppedNow == status \in {"cancelled", "failed"}

\* Anyone but the loop runs only while the loop is suspended in an await.
Yielded == pc # "loop"

stopLabel ==
    IF status = "cancelled" THEN "cancelled"
    ELSE IF label # "none" THEN label ELSE "run stopped"


-----------------------------------------------------------------------------
(* stopRun: the one sequence every stop shares. A later stop that finds the *)
(* run no longer running never gets here.                                   *)
stopRun(newStatus, who, newLabel) ==
    /\ status' = newStatus
    /\ error'  = who
    /\ label'  = newLabel
    /\ signal' = IF signal = "live" THEN "aborted" ELSE signal

\* The start of the run. A caller's signal that has already fired stops it
\* before the loop begins, by the same rule as one that fires later.
Init ==
    /\ def \in Pipelines
    /\ caller \in CallerSignals
    /\ signal = IF caller \in {"aborted", "deadline"} THEN caller ELSE "live"
    /\ status = CASE caller = "aborted"  -> "cancelled"
                  [] caller = "deadline" -> "failed"
                  [] OTHER               -> "running"
    /\ error  = CASE caller = "aborted"  -> "caller"
                  [] caller = "deadline" -> "deadline"
                  [] OTHER               -> "none"
    /\ label  = IF caller = "deadline" THEN "deadline" ELSE "none"
    /\ pc = "loop" /\ stage = 1
    /\ running = {} /\ records = {} /\ condErrs = {}
    /\ results = <<>> /\ aborted = {} /\ accepted = {}
    /\ threw = FALSE /\ settled = FALSE /\ reply = "none"

-----------------------------------------------------------------------------
(* Stage results. *)

skippedStage(id, reason) ==
    [id |-> id, outcome |-> "SKIPPED", mode |-> "none", reasons |-> {},
     skipReason |-> reason, records |-> {}]

conditionErrorStage(id, gate) ==
    [id |-> id, outcome |-> "ERRORED", mode |-> gateMode(gate),
     reasons |-> {"condition_error"}, skipReason |-> "none", records |-> {}]

\* end(): push the result and remember a failure behind abort.
failedBehindAbort(r) == r.mode = "abort" /\ r.outcome \in {"FAILED", "ERRORED"}

abortedAfter(r) == IF failedBehindAbort(r) THEN aborted \union {r.id} ELSE aborted

\* skipRemaining(from): one skipped result for every stage from there on.
skipped(from, reason) ==
    [k \in 1..(N - from + 1) |-> skippedStage(from + k - 1, reason)]

-----------------------------------------------------------------------------
(***************************************************************************)
(* The stage loop, one iteration per action while nothing is in flight.    *)
(***************************************************************************)
AtStage == pc = "loop" /\ stage <= N

dependenciesMet ==
    \A d \in current.deps : \E k \in DOMAIN results : results[k].id = d

downstreamOfAbort == current.deps \intersect aborted # {}

\* The run was stopped before this stage: record every stage left, and leave.
LoopStopped ==
    /\ AtStage /\ stoppedNow
    /\ results' = results \o skipped(stage, stopLabel)
    /\ pc' = "ended"
    /\ UNCHANGED <<def, stopVars, caller, stage, workVars, aborted, accepted,
                   threw, settled, reply>>

\* One stage is over without having launched; the loop goes to the next.
EndWithoutLaunch(r, newAborted) ==
    /\ results' = Append(results, r)
    /\ aborted' = newAborted
    /\ stage' = stage + 1
    /\ UNCHANGED <<def, stopVars, caller, pc, workVars, accepted, threw, settled, reply>>

SkipUnmet ==
    /\ AtStage /\ ~stoppedNow
    /\ ~dependenciesMet
    /\ EndWithoutLaunch(skippedStage(stage, "dependencies_not_met"), aborted)

\* (mistake: a stage skipped downstream of an abort does not pass it on)
SkipDownstreamOnce ==
    /\ AtStage /\ ~stoppedNow
    /\ dependenciesMet /\ downstreamOfAbort
    /\ EndWithoutLaunch(skippedStage(stage, "gate_abort"), aborted)

SkipDownstream ==
    /\ AtStage /\ ~stoppedNow
    /\ dependenciesMet /\ downstreamOfAbort
    /\ EndWithoutLaunch(skippedStage(stage, "gate_abort"), aborted \union {stage})

Reached == AtStage /\ ~stoppedNow /\ dependenciesMet /\ ~downstreamOfAbort

\* The stage's condition is false, or read a step that did not pass (E).
ConditionFalse ==
    /\ Reached /\ current.cond
    /\ EndWithoutLaunch(skippedStage(stage, "condition_not_met"), aborted)

ConditionError ==
    /\ Reached /\ current.cond
    /\ LET r == conditionErrorStage(stage, current.gate)
       IN  EndWithoutLaunch(r, abortedAfter(r))

\* What a stage puts in flight. Inline agents whose condition is E (errs) or
\* false (off) are not dispatched; a referenced command or workflow is one unit.
\* With steps off, the steps of a stage do not run: it passes through.
dispatched(errs, off) ==
    CASE current.kind = "agents" -> current.agents \ (errs \union off)
      [] current.kind = "steps"  -> IF AllowStageSteps THEN {"steps"} ELSE {}
      [] current.kind = "ref"    -> {"ref"}

passedThrough ==
    IF current.kind = "steps" /\ ~AllowStageSteps
    THEN {[unit |-> "steps", record |-> answered("positive", NoScore)]}
    ELSE {}

Launch ==
    /\ Reached
    /\ \E errs \in SUBSET current.conditional :
         \E off \in SUBSET (current.conditional \ errs) :
           /\ condErrs' = errs
           /\ running' = dispatched(errs, off)
    /\ records' = passedThrough
    /\ pc' = "await"
    /\ UNCHANGED <<def, stopVars, caller, stage, results, aborted, accepted,
                   threw, settled, reply>>

\* Past the last stage: the run is completed unless something stopped it.
\* (mistake: the status of the result in place of the status of the state)
FinishComplete ==
    /\ pc = "loop" /\ stage > N
    /\ status' = IF status = "running" THEN "complete" ELSE status
    /\ pc' = "ended"
    /\ UNCHANGED <<def, label, error, signal, caller, stage, workVars, results,
                   aborted, accepted, threw, settled, reply>>

Finish ==
    /\ pc = "loop" /\ stage > N
    /\ status' = IF status = "running" THEN "completed" ELSE status
    /\ pc' = "ended"
    /\ UNCHANGED <<def, label, error, signal, caller, stage, workVars, results,
                   aborted, accepted, threw, settled, reply>>

-----------------------------------------------------------------------------
(***************************************************************************)
(* The units in flight.  Each settles once, in any order, and is           *)
(* classified by the run's signal as it is at that moment.                 *)
(***************************************************************************)
settles(u, r) ==
    /\ pc = "await" /\ u \in running
    /\ running' = running \ {u}
    /\ records' = records \union {[unit |-> u, record |-> r]}
    /\ UNCHANGED <<def, caller, condErrs, loopVars, settled, reply>>

\* An agent or a referenced definition comes back with an answer, which it may
\* do after a stop: the answer was already on its way.
Answer(u) ==
    /\ u # "steps"
    /\ \E a \in Answers : settles(u, answered(a.class, a.score))
    /\ UNCHANGED stopVars

\* A referenced workflow none of whose phases executed.
AnswerEmpty ==
    /\ \E class \in {"positive", "neutral"} :
         settles("ref", executedNothing(answered(class, NoScore)))
    /\ UNCHANGED stopVars

\* A referenced command or workflow that a stop reached comes back as a container
\* with the marks of it, as both promise (CommandRun, WorkflowRun).
AnswerStopped ==
    /\ \E class \in Classes, marks \in SUBSET Marks :
         LET r == marked(answered(class, NoScore), marks)
         IN  mayAnswer(r, signal) /\ stopReached(r) /\ settles("ref", r)
    /\ UNCHANGED stopVars

\* A unit throws.  CANCELLED is what an aborted provider call throws; one that
\* throws it while the run's signal is live threw it for reasons of its own.
Reject(u, code) ==
    /\ u # "steps"
    /\ settles(u, placeholderFor(rejectionKind(code, signal)))
    /\ UNCHANGED stopVars

\* The steps of a steps stage are over.  They do not see the run's signal.
StepsOver ==
    /\ \E class \in {"positive", "negative"} : settles("steps", answered(class, NoScore))
    /\ UNCHANGED stopVars

UnitSettles ==
    \/ \E u \in running : Answer(u) \/ Reject(u, "CANCELLED") \/ Reject(u, "other")
    \/ AnswerEmpty
    \/ AnswerStopped
    \/ StepsOver

-----------------------------------------------------------------------------
(***************************************************************************)
(* judgeStage, once every unit of the stage has settled.                   *)
(***************************************************************************)
\* (mistake: a stage that dispatched nothing waits for a first answer)
allSettledSome == pc = "await" /\ running = {} /\ records # {}

allSettled == pc = "await" /\ running = {}

reachedByStop == \E s \in records : stopReached(s.record)

hasThreshold ==
    \/ current.gate.gated /\ current.gate.threshold # Absent
    \/ \E a \in current.agents : current.threshold[a] # Absent

blocking == current.gate.gated /\ isBlocking(gateMode(current.gate))

\* An inline agent that crashed, or answered nothing the gate can judge.
unjudgeable ==
    /\ current.kind = "agents"
    /\ \E s \in records :
         /\ ~stopReached(s.record)
         /\ \/ s.record.synthesized
            \/ isUnjudgeable(s.record.class, s.record.score, hasThreshold, blocking)

erroredReasons ==
    (IF condErrs # {}  THEN {"condition_error"} ELSE {}) \union
    (IF reachedByStop  THEN {"stopped"}
     ELSE IF unjudgeable THEN {"agent_unjudgeable"} ELSE {})

\* Every inline agent was skipped by its own condition.
allAgentsSkipped ==
    /\ current.kind = "agents" /\ current.agents # {}
    /\ records = {} /\ condErrs = {}

\* A gated stage that demonstrably executed nothing.
\* (mistake: a workflow that executed no phase counts as work)
verifiedNothingInline == current.kind = "agents" /\ records = {}

verifiedNothing ==
    \/ current.kind = "agents" /\ records = {}
    \/ \E s \in records : s.record.empty

members ==
    {[name |-> s.unit, class |-> s.record.class, score |-> s.record.score,
      threshold |-> IF s.unit \in current.agents THEN current.threshold[s.unit] ELSE Absent]
        : s \in records}

perAgentMode == \E a \in current.agents : current.threshold[a] # Absent

\* A ref stage that threw, a steps stage with a failed step, a gated stage that
\* executed nothing, or the gate's own judgement.
gateFailed ==
    \/ current.kind = "ref" /\ \E s \in records : isCrashRecord(s.record)
    \/ current.kind = "steps" /\ \E s \in records : s.record.class = "negative"
    \/ current.gate.gated /\ verifiedNothing
    \/ gateFails(current.gate, members, perAgentMode)

judgedStage ==
    IF allAgentsSkipped THEN skippedStage(stage, "condition_not_met")
    ELSE [id |-> stage, mode |-> gateMode(current.gate), reasons |-> erroredReasons,
          outcome |-> IF erroredReasons # {} THEN "ERRORED"
                      ELSE judgedOutcome(gateFailed, gateMode(current.gate)),
          skipReason |-> "none", records |-> records]

acceptedConditional ==
    /\ judgedStage.outcome = "PASSED"
    /\ conditionalAccepted(current.gate, members, perAgentMode) # {}

\* on_success: skip_remaining, the early-exit pattern: a passing gate ends the run.
earlyExit(r) == r.outcome = "PASSED" /\ current.gate.on_success = "skip_remaining"

\* What the loop records for the stages after a judged one when it leaves there:
\* because the run was stopped meanwhile, or else because the gate ends it early.
\* (mistakes: leave without recording the rest; look at the gate before the stop)
restAfterBareBreak(r) ==
    IF ~stoppedNow /\ earlyExit(r) THEN skipped(stage + 1, "gate_early_exit") ELSE <<>>

restAfterEarlyFirst(r) ==
    IF earlyExit(r)    THEN skipped(stage + 1, "gate_early_exit")
    ELSE IF stoppedNow THEN skipped(stage + 1, stopLabel)
    ELSE <<>>

restAfter(r) ==
    IF stoppedNow        THEN skipped(stage + 1, stopLabel)
    ELSE IF earlyExit(r) THEN skipped(stage + 1, "gate_early_exit")
    ELSE <<>>

Judge ==
    /\ allSettled
    /\ LET r == judgedStage
       IN  /\ results' = Append(results, r) \o restAfter(r)
           /\ aborted' = abortedAfter(r)
           /\ IF stoppedNow \/ earlyExit(r)
              THEN /\ pc' = "ended" /\ stage' = stage
                   /\ status' = IF status = "running" THEN "completed" ELSE status
              ELSE pc' = "loop" /\ stage' = stage + 1 /\ UNCHANGED status
    /\ accepted' = IF acceptedConditional THEN accepted \union {stage} ELSE accepted
    /\ running' = {} /\ records' = {} /\ condErrs' = {}
    /\ UNCHANGED <<def, label, error, signal, caller, threw, settled, reply>>

\* The loop's own code throws (a consumer's logger, between or after stages):
\* the catch fails a running run and keeps the status of a stopped one.
LoopThrows ==
    /\ LoggerThrows
    /\ (AtStage /\ ~stoppedNow) \/ allSettled
    /\ threw' = TRUE
    /\ pc' = "ended"
    /\ status' = IF status = "running" THEN "failed" ELSE status
    /\ error'  = IF status = "running" THEN "threw" ELSE error
    /\ running' = {} /\ records' = {} /\ condErrs' = {}
    /\ UNCHANGED <<def, label, signal, caller, stage, results, aborted, accepted,
                   settled, reply>>

-----------------------------------------------------------------------------
(***************************************************************************)
(* The stops.  Each reads the status first: the first one wins.            *)
(***************************************************************************)

\* A provider 402 (AIProvider trips the run registered under its signal). The
\* agent that met it has crashed, whatever becomes of the run.
\* (mistake: a second stop replaces the first)
CreditTripAgain(u) ==
    /\ u \in Agents
    /\ stopRun("failed", "credit", "credit")
    /\ settles(u, crashPlaceholder)

CreditTrip(u) ==
    /\ u \in Agents /\ status = "running"
    /\ stopRun("failed", "credit", "credit")
    /\ settles(u, crashPlaceholder)

\* The same inside a referenced command or workflow, which is left to unwind.
CreditTripInside ==
    /\ "ref" \in running /\ status = "running"
    /\ stopRun("failed", "credit", "credit")
    /\ UNCHANGED <<def, caller, loopVars, workVars, settled, reply>>

\* handle.cancel(), which may come at any time: nothing to do for a run already
\* stopped, refused for one that is complete.
CancelIsNoop == status = "cancelled" \/ (stoppedNow /\ ~settled)

Cancel ==
    /\ Yielded
    /\ IF ~CancelIsNoop /\ status = "running"
       THEN stopRun("cancelled", "user", label)
       ELSE UNCHANGED stopVars
    /\ reply' = IF CancelIsNoop THEN "noop"
                ELSE IF status = "running" THEN "stopped" ELSE "rejected"
    /\ UNCHANGED <<def, caller, loopVars, workVars, settled>>

\* The caller's own signal fires: by a decision, or by AbortSignal.timeout. The
\* merged run signal takes its reason if it was still live. A run that has
\* settled no longer listens.
CallerAborts(kind) ==
    /\ Yielded /\ caller = "live"
    /\ caller' = kind
    /\ signal' = IF signal = "live" THEN kind ELSE signal
    /\ IF status # "running" \/ settled
       THEN UNCHANGED <<status, error, label>>
       ELSE IF isDeadlineSignal(kind)
       THEN status' = "failed"    /\ error' = "deadline" /\ label' = "deadline"
       ELSE status' = "cancelled" /\ error' = "caller"   /\ label' = label
    /\ UNCHANGED <<def, loopVars, workVars, settled, reply>>

\* The execution promise's callbacks run.
Settle ==
    /\ pc = "ended" /\ ~settled
    /\ settled' = TRUE
    /\ UNCHANGED <<def, stopVars, caller, loopVars, workVars, reply>>

-----------------------------------------------------------------------------
LoopStep ==
    \/ LoopStopped
    \/ SkipUnmet
    \/ SkipDownstream
    \/ ConditionFalse
    \/ ConditionError
    \/ Launch
    \/ Judge
    \/ Finish

Next ==
    \/ LoopStep
    \/ LoopThrows
    \/ UnitSettles
    \/ \E u \in running : CreditTrip(u)
    \/ CreditTripInside
    \/ Cancel
    \/ CallerAborts("aborted")
    \/ CallerAborts("deadline")
    \/ Settle

(***************************************************************************)
(* Fairness: the loop and the promise callbacks run to completion, and     *)
(* every unit in flight settles, each being bounded by a request or step   *)
(* timeout.  Nothing obliges anyone to stop the run or a logger to throw.  *)
(***************************************************************************)
Fairness == WF_vars(LoopStep) /\ WF_vars(UnitSettles) /\ WF_vars(Settle)

SafeSpec == Init /\ [][Next]_vars
Spec == SafeSpec /\ Fairness

-----------------------------------------------------------------------------
(***************************************************************************)
(* What the handle reports (buildResult).                                  *)
(***************************************************************************)
\* (mistake: only a user's cancel is looked for among the skipped stages)
stopReachedCancelled ==
    \E k \in DOMAIN results :
        \/ results[k].outcome = "SKIPPED" /\ results[k].skipReason = "cancelled"
        \/ "stopped" \in results[k].reasons

stopReachedAnyStage ==
    \E k \in DOMAIN results :
        \/ results[k].outcome = "SKIPPED" /\ results[k].skipReason = stopLabel
        \/ "stopped" \in results[k].reasons
        \/ \E s \in results[k].records : stopReached(s.record)

executionFailed == status = "failed" /\ label = "none"

judgedStages ==
    {[outcome |-> results[k].outcome, mode |-> results[k].mode] : k \in DOMAIN results}

allGatesPassed ==
    computeAllGatesPassed(judgedStages, accepted # {}, stopReachedAnyStage, executionFailed)

Decision == runDecision(allGatesPassed, judgedStages)

-----------------------------------------------------------------------------
(* Properties. *)

Outcomes == {"PASSED", "WARNED", "FAILED", "ERRORED", "SKIPPED"}
ErroredReasons == {"condition_error", "stopped", "agent_unjudgeable"}
BenignSkips == {"condition_not_met", "dependencies_not_met", "gate_early_exit"}
SkipReasons == BenignSkips \union
    {"none", "gate_abort", "cancelled", "credit", "deadline", "run stopped"}

StageResult == [id : Nat, outcome : Outcomes, mode : Modes \union {"none"},
                reasons : SUBSET ErroredReasons, skipReason : SkipReasons,
                records : SUBSET Settled]

TypeOK ==
    /\ def \in Pipelines
    /\ status \in {"running", "completed", "failed", "cancelled"}
    /\ label \in {"none", "credit", "deadline"}
    /\ error \in {"none", "user", "caller", "credit", "deadline", "threw"}
    /\ caller \in {"none", "live", "aborted", "deadline"}
    /\ signal \in Signals
    /\ pc \in {"loop", "await", "ended"}
    /\ stage \in 1..(N + 1)
    /\ running \subseteq Units
    /\ records \subseteq Settled
    /\ condErrs \subseteq Agents
    /\ results \in Seq(StageResult)
    /\ aborted \subseteq 1..N
    /\ accepted \subseteq 1..N
    /\ threw \in BOOLEAN /\ settled \in BOOLEAN
    /\ reply \in {"none", "noop", "stopped", "rejected"}

\* Every authored stage is accounted for, in order: the loop has recorded each
\* stage it has left behind, whichever way it left it, and a run that ended
\* without throwing has recorded them all (skipRemaining: "nothing silently
\* vanishes").
EveryStageAccounted ==
    /\ \A k \in DOMAIN results : results[k].id = k
    /\ pc # "ended" => Len(results) = stage - 1
    /\ pc = "ended" /\ ~threw => Len(results) = N

\* Whatever stops a run first decides how it ends: neither a later stop, nor
\* the fallout of the first, nor the end of the loop rewrites the status, its
\* reason or the label the skipped stages carry.
FirstStopWins == [][status # "running" => UNCHANGED <<status, error, label>>]_vars

\* Nothing is put in flight once the run was stopped or its signal has fired,
\* in whatever order stops and settling units interleave.
NothingLaunchesAfterStop ==
    [][~(running' \subseteq running) => status = "running" /\ signal = "live"]_vars

\* Stage k depends on stage j, directly or through others: j is in every set that
\* holds the dependencies of k and those of its own members.
declaredDeps(k) == def[k].deps \intersect 1..N
downstream(k, j) ==
    \A S \in SUBSET (1..N) :
        declaredDeps(k) \subseteq S /\ (\A d \in S : declaredDeps(d) \subseteq S) => j \in S

\* A stage downstream, directly or transitively, of one that ended FAILED or
\* ERRORED behind abort never launches: it has no records and no judgement.
AbortCascade ==
    \A j, k \in DOMAIN results :
        failedBehindAbort(results[j]) /\ downstream(k, j) =>
            results[k].outcome = "SKIPPED" /\ results[k].records = {}

\* The records of the stage at work and of every stage that has ended.
allRecords == records \union UNION {results[k].records : k \in DOMAIN results}

\* Records never tell of a stop that did not happen: an ABORTED agent or a
\* stopped container implies a cancelled run or one out of credit, a deadline
\* mark a run whose deadline passed. A crash before the stop stays a crash.
StopStory ==
    \A s \in allRecords :
        /\ isAbortedRecord(s.record) => status = "cancelled" \/ label = "credit"
        /\ "deadline" \in s.record.marks => status = "failed" /\ label = "deadline"
        /\ stopReached(s.record) => stoppedNow /\ error # "threw"

\* An early exit is only reported by a run that was not stopped: the stop check
\* after a stage comes first.
EarlyExitNeverMasksStop ==
    (\E k \in DOMAIN results : results[k].skipReason = "gate_early_exit")
        => status = "completed"

\* A PASSED stage rests on work that ran and passed: nothing in it crashed or
\* was stopped, no negative record unless its gate ignores decisions, no score
\* under a threshold it must meet, and, behind a gate, some work was done.
passedOnWork(k) ==
    LET r == results[k].records
        g == def[k].gate
        own(u) == IF u \in def[k].agents THEN def[k].threshold[u] ELSE Absent
        perAgent == \E a \in def[k].agents : def[k].threshold[a] # Absent
    IN  /\ g.gated => r # {} /\ \A s \in r : ~s.record.empty
        /\ \A s \in r :
              /\ ~stopReached(s.record) /\ ~isCrashRecord(s.record)
              /\ s.record.class = "negative" => decisionKey(g) = "ignore"
              /\ s.record.score # NoScore =>
                    /\ own(s.unit) # Absent => s.record.score >= own(s.unit)
                    /\ g.aggregate = "min" /\ ~perAgent => s.record.score >= g.threshold
PassedStageIsSound ==
    \A k \in DOMAIN results : results[k].outcome = "PASSED" => passedOnWork(k)

\* A run that ended by itself and reports PASS accepted nothing with
\* reservations: each stage passed, or was skipped for a reason its author
\* wrote; none was cut off by a stop or lost behind a failed gate.
PassMeansVerified ==
    pc = "ended" /\ ~threw /\ Decision = "PASS" =>
        \A k \in DOMAIN results :
            \/ results[k].outcome = "SKIPPED" /\ results[k].skipReason \in BenignSkips
            \/ /\ results[k].outcome = "PASSED"
               /\ isBlocking(results[k].mode) =>
                    \A s \in results[k].records :
                        s.record.class = "conditional" => decisionKey(def[k].gate) = "ignore"

\* What the results say of the stages: each is there once and in order, a failure
\* behind abort stops everything downstream of it, and a stage that reads PASSED
\* rests on work that passed.
StageRecords == EveryStageAccounted /\ AbortCascade /\ PassedStageIsSound

\* What a run says of how it ended: records, skips and the decision tell of a stop
\* exactly where there was one, and a PASS hides none.
StopIsTold == StopStory /\ EarlyExitNeverMasksStop /\ PassMeansVerified

\* A stop holds: the first one decides for good, and nothing launches after it.
StopsHold == FirstStopWins /\ NothingLaunchesAfterStop

\* The run keeps the contract of its handle.
Contract == INSTANCE RunContract WITH
    total <- N, recorded <- Len(results), busy <- pc = "await", over <- pc = "ended"
KeepsContract == Contract!SafeSpec

\* The run is what its handle promises: it keeps the contract, the first stop
\* decides for good, and nothing launches after it.
RunKeepsItsWord == KeepsContract /\ StopsHold

\* Every run settles, however it is stopped and whatever its stages do.
Termination == <>settled

-----------------------------------------------------------------------------
(* What the source says of the run and the code does not do. *)

\* runVerdict.ts: allGatesPassed is false when "the run was stopped (cancel,
\* deadline, credit limit) before every stage reached a terminal status". A
\* stop while the last stage is in flight, which ends as if nothing happened,
\* leaves it true: stopReached only says whether the stop left a trace.
StoppedRunFails == pc = "ended" /\ stoppedNow => ~allGatesPassed

\* runVerdict.ts: a run whose own execution threw "did not reach the end of its
\* stages, so nothing it reports can pass".
ThrownRunFails == pc = "ended" /\ threw => ~allGatesPassed

\* PipelineHandle.cancel: "A run that has SETTLED still rejects, as before."
SettledRunRejectsCancel == [][Cancel /\ settled => reply' = "rejected"]_vars

=============================================================================
