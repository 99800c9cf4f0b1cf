----------------------------- MODULE WorkflowRun -----------------------------
(***************************************************************************)
(* One run of a workflow (executor/WorkflowExecutor.ts): phases grouped in *)
(* levels by their dependencies, the workers that take the phases of a     *)
(* level behind max_parallel, the steps each phase has in flight, gates,   *)
(* the on_failure posture applied to a finished level, and the caller's    *)
(* signal, which may fire whenever the executor awaits.                    *)
(*                                                                         *)
(* pc = "loop" while execute() runs between two levels, without yielding;  *)
(* "await" while a level is at work.                                       *)
(*                                                                         *)
(* Abstracted: skip_if is a constant of the run (its input is), a step is  *)
(* one call that answers or rejects, and the texts, metrics and the score  *)
(* of the workflow are left out.                                           *)
(***************************************************************************)
EXTENDS StageGate, Sequences

CONSTANTS
    Workflows,      \* the authored workflows a run may be started with
    Answers,        \* the [class, score] pairs an answer may carry
    CallerSignals   \* the caller's signal when execute() is called

\* A phase's gate: warn is its on_fail. Its steps are numbered from 1.
PhaseGate == [gated : BOOLEAN, threshold : Int,
              aggregate : {"min", "max", "average"}, warn : BOOLEAN]

Phase == [deps : SUBSET Nat, steps : Nat, parallel : BOOLEAN, skip : BOOLEAN,
          gate : PhaseGate]

\* capped says whether max_parallel is authored; a value that is not a positive
\* integer is unusable, whichever it is.
Workflow == [phases : Seq(Phase), onFailure : {"stop", "abort", "warn", "continue"},
             capped : BOOLEAN, maxParallel : Int]

ASSUME WorkflowsAssumption == Workflows \subseteq Workflow
ASSUME StepAnswersAssumption == Answers \subseteq [class : Classes, score : Int]
ASSUME SignalsAssumption == CallerSignals \subseteq Signals

VARIABLES
    def,          \* the workflow being run
    signal,       \* the caller's abort signal
    pc,           \* "loop" between levels, "await" in one, "ended"
    halted,       \* an on_failure of stop or abort has ended the walk
    queue,        \* phases of the level no worker has taken yet
    flight,       \* the phases at work: their pending steps and the records left
    levelResults, \* the results of the level so far
    results,      \* phaseResults, by phase
    threw         \* execute() rejected

levelVars == <<queue, flight, levelResults>>
vars == <<def, signal, pc, halted, levelVars, results, threw>>

phase  == def.phases
Phases == DOMAIN phase

-----------------------------------------------------------------------------
(* Phase results. *)

\* Results joined by others, of other phases.
joined(f, g) == [p \in DOMAIN f \union DOMAIN g |-> IF p \in DOMAIN f THEN f[p] ELSE g[p]]

skippedPhase ==
    [decision |-> "skipped", stoppedBeforeStart |-> FALSE, error |-> FALSE, commands |-> {}]

\* A phase the signal kept from starting: a deadline is a failure.
\* (mistakes: a word phases do not use; a deadline is no different)
stoppedPhaseWord  == [skippedPhase EXCEPT !.decision = "stopped", !.stoppedBeforeStart = TRUE]
stoppedPhaseAlike == [skippedPhase EXCEPT !.decision = "aborted", !.stoppedBeforeStart = TRUE]

stoppedPhase ==
    [skippedPhase EXCEPT !.decision = IF isDeadlineSignal(signal) THEN "blocked" ELSE "aborted",
                         !.stoppedBeforeStart = TRUE]

\* A phase that threw, with the records the error carries.
blockedPhase(commands) ==
    [skippedPhase EXCEPT !.decision = "blocked", !.error = TRUE, !.commands = commands]

\* (mistake: only what a stop kept from starting counts as reached by it)
phaseStopReachedUnstarted(r) == r.stoppedBeforeStart

phaseStopReached(r) ==
    \/ r.stoppedBeforeStart
    \/ r.decision = "aborted"
    \/ \E s \in r.commands : stopReached(s.record)

phaseCrashInside(r) ==
    \/ \E s \in r.commands : crashInside(s.record)
    \/ /\ r.decision = "blocked" /\ r.commands = {}
       /\ r.error \/ r.stoppedBeforeStart

-----------------------------------------------------------------------------
(***************************************************************************)
(* Levels.  A phase belongs to the level at hand when the levels behind it *)
(* hold all it depends on.                                                 *)
(***************************************************************************)

\* topoGroupLevels places every phase: whatever is left to place has a phase
\* that depends on nothing left. An unknown dependency is never placed.
orderable ==
    /\ \A p \in Phases : phase[p].deps \subseteq Phases
    /\ \A left \in (SUBSET Phases) \ {{}} :
         {p \in left : phase[p].deps \intersect left = {}} # {}

\* (mistake: one level for all)
levelOfAll == Phases \ DOMAIN results

level == {p \in Phases \ DOMAIN results : phase[p].deps \subseteq DOMAIN results}

\* A dependency that was skipped satisfies its dependents.
\* (mistake: a phase kept from starting by a stop satisfies them as well)
checkDependenciesBlockedOnly(p) ==
    \A d \in phase[p].deps : d \in DOMAIN results /\ results[d].decision # "blocked"

checkDependencies(p) ==
    \A d \in phase[p].deps :
        d \in DOMAIN results /\ results[d].decision \notin {"blocked", "aborted"}

eligible == {p \in level : ~phase[p].skip /\ checkDependencies(p)}

AtLevel == pc = "loop" /\ orderable /\ level # {}

\* (mistakes: an unusable cap is none at all; it leaves no worker)
concurrencyRaw(size) == IF def.capped /\ def.maxParallel > 0 THEN def.maxParallel ELSE size
concurrencyZero(size) == IF def.capped THEN def.maxParallel ELSE size

concurrency(size) ==
    IF ~def.capped THEN size
    ELSE IF def.maxParallel < 1 THEN 1
    ELSE IF def.maxParallel > size THEN size ELSE def.maxParallel

\* The first n phases of a set, as authored.
firstPhases(n, S) == {p \in S : Cardinality({q \in S : q < p}) < n}

\* A phase that starts: all its steps at once, or the first of them.
started(p) ==
    [pending |-> IF phase[p].parallel THEN 1..phase[p].steps
                 ELSE {s \in 1..phase[p].steps : s = 1},
     records |-> {}]

-----------------------------------------------------------------------------
Init ==
    /\ def \in Workflows
    /\ signal \in CallerSignals
    /\ pc = "loop" /\ halted = FALSE
    /\ queue = {} /\ flight = <<>> /\ levelResults = <<>> /\ results = <<>>
    /\ threw = FALSE

\* A cycle or an unknown dependency: nothing runs.
Refuse ==
    /\ pc = "loop" /\ ~orderable
    /\ pc' = "ended" /\ threw' = TRUE
    /\ UNCHANGED <<def, signal, halted, levelVars, results>>

\* After a halt the level is skipped, whatever the signal says.
SkipLevel ==
    /\ AtLevel /\ halted
    /\ results' = joined(results, [p \in level |-> skippedPhase])
    /\ UNCHANGED <<def, signal, pc, halted, levelVars, threw>>

\* The signal fired: the phases that would have run are recorded stopped.
\* (mistake: they are skipped like the others)
StopLevelSkips ==
    /\ AtLevel /\ ~halted /\ signal # "live"
    /\ results' = joined(results, [p \in level |-> skippedPhase])
    /\ UNCHANGED <<def, signal, pc, halted, levelVars, threw>>

StopLevel ==
    /\ AtLevel /\ ~halted /\ signal # "live"
    /\ results' = joined(results, [p \in level |-> IF p \in eligible THEN stoppedPhase ELSE skippedPhase])
    /\ UNCHANGED <<def, signal, pc, halted, levelVars, threw>>

\* The others are skipped at once; the workers take the first of the eligible.
StartLevel ==
    /\ AtLevel /\ ~halted /\ signal = "live"
    /\ results' = joined(results, [p \in level \ eligible |-> skippedPhase])
    /\ LET first == firstPhases(concurrency(Cardinality(eligible)), eligible)
       IN  /\ flight' = [p \in first |-> started(p)]
           /\ queue' = eligible \ first
    /\ pc' = IF eligible = {} THEN "loop" ELSE "await"
    /\ UNCHANGED <<def, signal, halted, levelResults, threw>>

\* No level is left.
\* (mistake: a halt breaks out of the walk)
FinishOnHalt ==
    /\ pc = "loop" /\ orderable /\ (level = {} \/ halted)
    /\ pc' = "ended"
    /\ UNCHANGED <<def, signal, halted, levelVars, results, threw>>

Finish ==
    /\ pc = "loop" /\ orderable /\ level = {}
    /\ pc' = "ended"
    /\ UNCHANGED <<def, signal, halted, levelVars, results, threw>>

-----------------------------------------------------------------------------
(***************************************************************************)
(* Steps.  The steps of a sequential phase follow each other as long as    *)
(* none rejects; a stop does not keep the next one from being called.      *)
(***************************************************************************)
settles(p, s, r, rejected) ==
    /\ pc = "await" /\ p \in DOMAIN flight /\ s \in flight[p].pending
    /\ flight' = [flight EXCEPT ![p] =
         [pending |-> IF phase[p].parallel THEN @.pending \ {s}
                      ELSE {t \in 1..phase[p].steps : t = s + 1 /\ ~rejected},
          records |-> @.records \union {[step |-> s, record |-> r]}]]
    /\ UNCHANGED <<def, signal, pc, halted, queue, levelResults, results, threw>>

Answer(p, s) == \E a \in Answers : settles(p, s, answered(a.class, a.score), FALSE)

\* A command some of whose agents crashed or were stopped comes back with the
\* marks of it, as it promises (CommandRun).
AnswerMarked(p, s) ==
    \E a \in Answers, class \in Classes, marks \in SUBSET Marks :
        LET r == marked(answered(class, a.score), marks)
        IN  marks # {} /\ commandMayAnswer(r, signal) /\ settles(p, s, r, FALSE)

Reject(p, s, code) == settles(p, s, placeholderFor(rejectionKind(code, signal)), TRUE)

StepSettles ==
    \E p \in DOMAIN flight : \E s \in flight[p].pending :
        \/ Answer(p, s) \/ AnswerMarked(p, s)
        \/ Reject(p, s, "CANCELLED") \/ Reject(p, s, "other")

-----------------------------------------------------------------------------
(***************************************************************************)
(* The end of a phase, judged on the records of its steps.                 *)
(***************************************************************************)

\* Every step crashed and no stop reached any: executePhase throws.
\* (mistake: also when the crashes are a deadline's)
allCrashedAny(commands) == commands # {} /\ \A s \in commands : isCrashRecord(s.record)

allCrashed(commands) ==
    /\ commands # {}
    /\ \A s \in commands : isCrashRecord(s.record) /\ ~stopReached(s.record)

\* A phase authored without steps scores 0; one without scores has none.
belowGate(gate, commands) ==
    LET scored == {[step |-> s.step, score |-> s.record.score] :
                      s \in {c \in commands : c.record.score # NoScore}}
    IN  /\ gate.gated
        /\ commands = {} \/ scored # {}
        /\ \/ ~usable(gate.threshold)
           \/ commands = {} /\ 0 < gate.threshold
           \/ scored # {} /\ scoresBelow(gate.aggregate, gate.threshold, scored)

negatives(commands) == {s \in commands : s.record.class = "negative"}

\* The gate, the guard for negative steps without a score, and the cap for those
\* with one; a stop overrides them.
\* (mistake: the gate alone judges, and a step without a score has no say in it)
phaseDecisionScored(gate, commands) ==
    LET verdict == stopVerdict({s.record : s \in commands})
    IN  CASE verdict = "aborted"  -> "aborted"
          [] verdict = "negative" -> "blocked"
          [] OTHER -> IF ~belowGate(gate, commands) THEN "passed"
                      ELSE IF gate.warn THEN "warned" ELSE "blocked"

phaseDecision(gate, commands) ==
    LET verdict == stopVerdict({s.record : s \in commands})
    IN  CASE verdict = "aborted"  -> "aborted"
          [] verdict = "negative" -> "blocked"
          [] OTHER ->
               IF \/ belowGate(gate, commands)
                  \/ \E s \in negatives(commands) : s.record.score = NoScore
               THEN IF gate.gated /\ gate.warn THEN "warned" ELSE "blocked"
               ELSE IF negatives(commands) # {} THEN "warned"
               ELSE "passed"

phaseResult(p, commands) ==
    IF allCrashed(commands) THEN blockedPhase(commands)
    ELSE [skippedPhase EXCEPT !.decision = phaseDecision(phase[p].gate, commands),
                              !.commands = commands]

\* A level of one phase does not contain what its phase throws.
levelSize == Cardinality(queue \union DOMAIN flight \union DOMAIN levelResults)

PhaseThrows(p) ==
    /\ pc = "await" /\ p \in DOMAIN flight /\ flight[p].pending = {}
    /\ allCrashed(flight[p].records) /\ levelSize = 1
    /\ pc' = "ended" /\ threw' = TRUE
    /\ queue' = {} /\ flight' = <<>> /\ levelResults' = <<>>
    /\ UNCHANGED <<def, signal, halted, results>>

\* The worker's next turns: once the signal has fired, every phase left is
\* recorded stopped; before, it takes the first of them.
\* (mistake: the worker does not look at the signal)
stoppedHereBlind == {}

stoppedHere == IF signal = "live" THEN {} ELSE queue
takenHere   == firstPhases(1, queue \ stoppedHere)

PhaseEnds(p) ==
    /\ pc = "await" /\ p \in DOMAIN flight /\ flight[p].pending = {}
    /\ ~(allCrashed(flight[p].records) /\ levelSize = 1)
    /\ levelResults' = joined(levelResults,
         [q \in {p} \union stoppedHere |->
             IF q = p THEN phaseResult(p, flight[p].records) ELSE stoppedPhase])
    /\ flight' = [q \in (DOMAIN flight \ {p}) \union takenHere |->
                     IF q \in takenHere THEN started(q) ELSE flight[q]]
    /\ queue' = queue \ (stoppedHere \union takenHere)
    /\ UNCHANGED <<def, signal, pc, halted, results, threw>>

\* A phase that failed by itself: on_failure is for those.
failedItself(r) == r.decision = "blocked" /\ ~phaseStopReached(r)

\* (mistake: a phase that threw is softened with the others)
posturedAll(r) ==
    IF def.onFailure = "warn" /\ failedItself(r) THEN [r EXCEPT !.decision = "warned"] ELSE r

postured(r) ==
    IF def.onFailure = "warn" /\ failedItself(r) /\ ~r.error
    THEN [r EXCEPT !.decision = "warned"] ELSE r

LevelOver ==
    /\ pc = "await" /\ queue = {} /\ DOMAIN flight = {}
    /\ results' = joined(results, [p \in DOMAIN levelResults |-> postured(levelResults[p])])
    /\ halted' = \/ halted
                 \/ /\ def.onFailure \in {"stop", "abort"}
                    /\ \E p \in DOMAIN levelResults : failedItself(levelResults[p])
    /\ pc' = "loop" /\ levelResults' = <<>>
    /\ UNCHANGED <<def, signal, queue, flight, threw>>

-----------------------------------------------------------------------------
\* The caller's signal fires: a decision to stop, or a deadline.
SignalFires(kind) ==
    /\ pc = "await" /\ signal = "live"
    /\ signal' = kind
    /\ UNCHANGED <<def, pc, halted, levelVars, results, threw>>

LoopStep == Refuse \/ SkipLevel \/ StopLevel \/ StartLevel \/ Finish \/ LevelOver

PhaseStep == \E p \in DOMAIN flight : PhaseThrows(p) \/ PhaseEnds(p)

Next == LoopStep \/ PhaseStep \/ StepSettles \/ SignalFires("aborted") \/ SignalFires("deadline")

\* What the executor does by itself is done, and every step in flight settles,
\* being bounded by its own timeout. No signal has to fire.
Fairness == WF_vars(LoopStep) /\ WF_vars(PhaseStep) /\ WF_vars(StepSettles)

SafeSpec == Init /\ [][Next]_vars
Spec == SafeSpec /\ Fairness

-----------------------------------------------------------------------------
(* The verdict of the workflow (aggregate). *)

anyStop == \E p \in DOMAIN results : phaseStopReached(results[p])

\* Crash decides in the phases a stop reached; the others keep their verdict.
failedWithStop ==
    \E p \in DOMAIN results :
        IF phaseStopReached(results[p]) THEN phaseCrashInside(results[p])
        ELSE results[p].decision = "blocked"

some(decision) == \E p \in DOMAIN results : results[p].decision = decision

Decision ==
    CASE anyStop /\ failedWithStop  -> "BLOCK"
      [] anyStop /\ ~failedWithStop -> "ABORTED"
      [] ~anyStop /\ some("blocked") -> "BLOCK"
      [] ~anyStop /\ ~some("blocked") /\ some("warned") -> "HOLD"
      [] OTHER -> "SHIP"

Returned == pc = "ended" /\ ~threw

-----------------------------------------------------------------------------
(* Properties. *)

StepRecord == [step : Nat, record : Record]
PhaseResult == [decision : {"passed", "warned", "blocked", "aborted", "skipped"},
                stoppedBeforeStart : BOOLEAN, error : BOOLEAN, commands : SUBSET StepRecord]
Flight == [pending : SUBSET Nat, records : SUBSET StepRecord]

TypeOK ==
    /\ def \in Workflows
    /\ signal \in Signals
    /\ pc \in {"loop", "await", "ended"}
    /\ halted \in BOOLEAN /\ threw \in BOOLEAN
    /\ queue \subseteq Phases
    /\ DOMAIN flight \subseteq Phases /\ flight \in [DOMAIN flight -> Flight]
    /\ DOMAIN levelResults \subseteq Phases /\ levelResults \in [DOMAIN levelResults -> PhaseResult]
    /\ DOMAIN results \subseteq Phases /\ results \in [DOMAIN results -> PhaseResult]

\* No phase is lost or run twice between the queue, the workers and the results,
\* whatever stops, halts and throws happen around it, and a workflow that
\* returns has recorded every phase, the ones it never started included.
EveryPhaseAccounted ==
    /\ DOMAIN results \intersect (queue \union DOMAIN flight \union DOMAIN levelResults) = {}
    /\ queue \intersect (DOMAIN flight \union DOMAIN levelResults) = {}
    /\ DOMAIN flight \intersect DOMAIN levelResults = {}
    /\ pc # "await" => queue = {} /\ DOMAIN flight = {} /\ DOMAIN levelResults = {}
    /\ Returned => DOMAIN results = Phases

\* No phase is set to work once the signal has fired or a posture has halted the
\* walk, wherever the phase was waiting: in a later level or behind max_parallel.
NothingStartsAfterStop ==
    [][~(DOMAIN flight' \subseteq DOMAIN flight) => signal = "live" /\ ~halted]_vars

\* A phase one of whose dependencies failed or was stopped never works: it has
\* no records, and only a posture of warn can have made the failure pass.
FailureStopsDependents ==
    \A p \in DOMAIN results : \A d \in phase[p].deps :
        results[d].decision \in {"blocked", "aborted"} =>
            results[p].decision = "skipped" /\ results[p].commands = {}

\* The workers: never more than max_parallel allows (an unusable one allows one),
\* and none idle while a phase waits.
limit == IF def.maxParallel < 1 THEN 1 ELSE def.maxParallel

WorkersWithinLimit ==
    /\ def.capped => Cardinality(DOMAIN flight) <= limit
    /\ queue # {} => def.capped /\ Cardinality(DOMAIN flight) = limit

\* Once a stop kept a phase from starting or cut into one, the workflow gives no
\* quality verdict, whatever its gates, caps and postures say.
StopIsNoVerdict ==
    Returned /\ (\E p \in DOMAIN results :
                    \/ results[p].stoppedBeforeStart
                    \/ \E s \in results[p].commands : stopReached(s.record))
        => Decision \in {"ABORTED", "BLOCK"}

\* A workflow reads ABORTED only after a decision to stop, and when nothing in it
\* failed: a deadline never does, nor does a stop beside a blocked phase or a
\* crash in the phase it reached.
AbortedMeansNothingFailed ==
    Returned /\ Decision = "ABORTED" =>
        /\ signal = "aborted"
        /\ \A p \in DOMAIN results :
              /\ results[p].decision # "blocked"
              /\ phaseStopReached(results[p]) =>
                    \A s \in results[p].commands : ~crashInside(s.record)

\* A workflow that reads SHIP left nothing out but what its author's own
\* conditions did, and none of its steps crashed, was stopped or came out
\* negative.
ShipMeansVerified ==
    Returned /\ Decision = "SHIP" =>
        \A p \in DOMAIN results :
            \/ results[p].decision = "skipped" /\ phase[p].skip
            \/ /\ results[p].decision = "passed"
               /\ Cardinality(results[p].commands) = phase[p].steps
               /\ \A s \in results[p].commands :
                     /\ s.record.class # "negative"
                     /\ ~stopReached(s.record) /\ ~crashInside(s.record)

\* A phase all of whose steps crashed is never softened into a warning, so that
\* none of its dependents runs on it.
WarnNeverSoftensCrash ==
    \A p \in DOMAIN results :
        results[p].commands # {} /\ (\A s \in results[p].commands : isCrashRecord(s.record))
            => results[p].decision = "blocked"

\* execute() does not throw on a stop: a level that throws lost nothing a stop
\* reached, so that the stop stays visible above.
StopNeverThrows ==
    [][~threw /\ threw' => \A p \in DOMAIN flight : \A s \in flight[p].records :
                               ~stopReached(s.record)]_vars

\* What becomes of the phases: none is lost, none works on a dependency that
\* failed, and the workers keep to max_parallel without idling.
PhaseRecords == EveryPhaseAccounted /\ FailureStopsDependents /\ WorkersWithinLimit

\* What the verdict tells: a stop is no verdict on quality, ABORTED hides no
\* failure, SHIP no gap, and no posture softens a crash.
VerdictTells ==
    StopIsNoVerdict /\ AbortedMeansNothingFailed /\ ShipMeansVerified /\ WarnNeverSoftensCrash

\* A stop holds: nothing starts after it, and no throw hides it.
StopsHold == NothingStartsAfterStop /\ StopNeverThrows

\* The phases keep the promised schedule.
Schedule == INSTANCE PhaseSchedule WITH
    deps <- [p \in Phases |-> phase[p].deps],
    active <- DOMAIN flight,
    settled <- DOMAIN results \union DOMAIN levelResults,
    barred <- halted \/ signal # "live",
    over <- pc = "ended"
KeepsSchedule == Schedule!SafeSpec

\* The workflow keeps the promise a pipeline that calls it is modelled on. The
\* WorkflowError it throws is no cancellation.
Category == CASE Decision = "SHIP" -> "positive" [] Decision = "HOLD" -> "conditional"
              [] Decision = "BLOCK" -> "negative" [] Decision = "ABORTED" -> "neutral"

Answered == marked(answered(Category, NoScore),
                   containerMarkers(IF ~anyStop THEN "none"
                                    ELSE IF Category = "negative" THEN "negative" ELSE "aborted",
                                    \E p \in DOMAIN results : phaseCrashInside(results[p])))

Unit == INSTANCE UnitContract WITH
    allowed <- mayAnswer,
    reply   <- IF pc # "ended" THEN {}
               ELSE IF threw THEN {placeholderFor(rejectionKind("other", signal))} ELSE {Answered}
KeepsUnitContract == Unit!SafeSpec

\* Every workflow returns or throws.
Termination == <>(pc = "ended")

-----------------------------------------------------------------------------
(* What the documents say of a workflow and the code does not do. *)

\* WorkflowExecutor.ts: "abort: cancel running phases immediately; skip all
\* remaining".  The phases of the level behind max_parallel are still started.
AbortSkipsRemaining ==
    [][def.onFailure = "abort" /\ (\E p \in DOMAIN levelResults' : failedItself(levelResults'[p]))
        => DOMAIN flight' \subseteq DOMAIN flight]_vars

\* ARCHITECTURE.md: "all deps must be passed/warned, not blocked/aborted".  A
\* skipped dependency satisfies its dependents as well.
DependenciesPassed ==
    \A p \in DOMAIN flight : \A d \in phase[p].deps : results[d].decision \in {"passed", "warned"}

=============================================================================
