---------------------------- MODULE PipelineLoad ----------------------------
(***************************************************************************)
(* Loading a pipeline and reading its conditions: an author writes a       *)
(* condition, the load checks accept or refuse the pipeline that holds it  *)
(* (executor/pipelineLoad.ts, refuseBeforeLaunch of PipelineExecutor.ts),  *)
(* and the stages of an accepted one launch in the order of the array,     *)
(* each by the value its condition then has.                               *)
(*                                                                         *)
(* One text is under test: it is the condition of every stage and agent of *)
(* the pipeline that has one.  How a stage that launches ends, and with    *)
(* what results of its steps, is open here; PipelineRun and StepsRun say   *)
(* it.                                                                     *)
(***************************************************************************)
EXTENDS Conditions, SequencesExt

CONSTANTS
    Fragments,     \* the pieces of text the author has, sequences of tokens
    MaxFragments,  \* how many of them a condition has at most
    Pipelines,     \* the pipelines that may hold the condition
    Inputs,        \* what callers pass: parameters, from names to values, and a target
    Words          \* what a step may print

\* A trigger declares parameters, each with a default or NoDefault.
NoDefault == "#none"
NoPipeline == [stages |-> <<>>, defaults |-> <<>>, collides |-> FALSE,
               allowStageSteps |-> TRUE]
NoInput == [params |-> <<>>, target |-> "."]

\* A value that holds NUL, which no environment variable can.
Nul == "#nul"

\* gate.declared is FALSE for a stage without one, misplaced is TRUE for one with
\* a step whose template is no word of its own; collides is TRUE for a pipeline
\* with two parameters that go by one environment variable.
AgentRef == [condition : BOOLEAN, threshold : BOOLEAN, stray : BOOLEAN, vocabulary : BOOLEAN]
GateRef == [declared : BOOLEAN, blocking : BOOLEAN, threshold : BOOLEAN,
            aggregate : BOOLEAN, stray : BOOLEAN]
StageFields == {"id", "depends_on", "steps", "misplaced", "condition", "agents", "gate", "stray"}

ASSUME LoadedAssumption ==
    /\ \A f \in Fragments : f \in Seq(Range(f))
    /\ Pipelines # {}
    /\ \A p \in Pipelines :
         /\ DOMAIN p = {"stages", "defaults", "collides", "allowStageSteps"}
         /\ p.stages \in Seq(Range(p.stages))
         /\ p.allowStageSteps \in BOOLEAN /\ p.collides \in BOOLEAN
         /\ \A s \in Range(p.stages) : /\ DOMAIN s = StageFields
                                       /\ Range(s.agents) \subseteq AgentRef
                                       /\ s.gate \in GateRef /\ s.condition \in BOOLEAN
                                       /\ s.misplaced \in BOOLEAN
    /\ \A i \in Inputs : DOMAIN i = {"params", "target"}

\* No parameter has the value E, which is not a text.
ASSUME ParametersAssumption ==
    /\ \A p \in Pipelines : E \notin Range(p.defaults)
    /\ \A i \in Inputs : E \notin Range(i.params) /\ E # i.target

VARIABLES
    text,       \* the fragments written so far
    pipeline,   \* the pipeline: stages, defaults of its parameters, allowStageSteps
    input,      \* the parameters of the caller, and the target
    phase,      \* "writing", "loading", "running", "refused" or "over"
    refusal,    \* why it was refused
    ended,      \* the stages that have ended, in their order
    passed,     \* which of them passed
    stepResults,\* what the steps of those that launched came to
    values      \* the value the condition of each ended stage had

loadVars == <<text, pipeline, input, phase, refusal, ended, passed, stepResults, values>>

\* The condition: the tokens of its fragments.
condition == FlattenSeq(text)
stages == pipeline.stages
stage == stages[Len(ended) + 1]
ids == {stages[i].id : i \in DOMAIN stages}

-----------------------------------------------------------------------------
(***************************************************************************)
(* The load checks.                                                        *)
(***************************************************************************)
declaredParameters == DOMAIN pipeline.defaults

dependsOn(S) ==
    UNION {stages[i].depends_on : i \in {n \in DOMAIN stages : stages[n].id \in S}}

\* The stages reachable along depends_on, whatever order they are declared in.
withDependencies(S) == S \union dependsOn(S)
ancestorsOf(i) ==
    LET reached[n \in 0 .. Len(stages)] ==
          IF n = 0 THEN stages[i].depends_on ELSE withDependencies(reached[n - 1])
    IN reached[Len(stages)] \ {stages[i].id}

\* The checks of one reference, in their order.
referenceFault(ref, i) ==
    CASE ref.kind = "fault" -> ref.code
      [] ref.kind = "param" ->
           IF ref.name \in declaredParameters THEN "none" ELSE "undeclared_parameter"
      [] ref.kind \in {"passed", "step"} ->
           CASE ref.stage \notin ids -> "unknown_stage"
             [] ref.stage \in ids \ ancestorsOf(i) -> "non_ancestor_reference"
             [] /\ ref.stage \in ids \intersect ancestorsOf(i) /\ ref.kind = "step"
                /\ \A n \in DOMAIN stages :
                     stages[n].id = ref.stage => ref.step \notin stages[n].steps
                -> "undeclared_step"
             [] OTHER -> "none"

\* The first fault of the condition where stage i reads it.
conditionFault(i) ==
    LET p == parseCondition(condition)
        faulty == {n \in DOMAIN p.refs : referenceFault(p.refs[n], i) # "none"}
    IN CASE ~p.ok -> p.code
         [] p.ok /\ faulty # {} -> referenceFault(p.refs[Min(faulty)], i)
         [] OTHER -> "none"

conditioned(i) ==
    stages[i].condition \/ \E a \in Range(stages[i].agents) : a.condition

\* (mistake: a stage may depend on one declared behind it)
forwardReferenceSelf(i) == stages[i].id \in stages[i].depends_on
forwardReference(i) ==
    \E n \in DOMAIN stages : n >= i /\ stages[n].id \in stages[i].depends_on

strayKeys(i) ==
    \/ stages[i].stray
    \/ stages[i].gate.stray
    \/ \E a \in Range(stages[i].agents) : a.stray

thresholdFaults(i) ==
    LET gate == stages[i].gate
        perAgent == \E a \in Range(stages[i].agents) : a.threshold
    IN (IF perAgent /\ gate.aggregate THEN {"aggregate_with_per_agent"} ELSE {})
       \union (IF /\ perAgent /\ ~gate.threshold
                  /\ \E a \in Range(stages[i].agents) : ~a.threshold
               THEN {"missing_threshold"} ELSE {})

stageErrors(i) ==
    UNION {IF strayKeys(i) THEN {"unknown_key"} ELSE {},
           IF forwardReference(i) THEN {"forward_reference"} ELSE {},
           IF conditioned(i) THEN {conditionFault(i)} \ {"none"} ELSE {},
           thresholdFaults(i),
           IF stages[i].misplaced THEN {"template_placement"} ELSE {}}

duplicateIds == \E i, n \in DOMAIN stages : i # n /\ stages[i].id = stages[n].id

\* No stage is checked of a pipeline whose ids are not unique.
loadErrors ==
    (IF pipeline.collides THEN {"parameter_env_collision"} ELSE {})
    \union (IF duplicateIds THEN {"duplicate_stage_id"}
            ELSE UNION {stageErrors(i) : i \in DOMAIN stages})

stepsStage(i) == stages[i].steps # {}

readsStepOutput ==
    /\ \E i \in DOMAIN stages : conditioned(i)
    /\ \E r \in Range(parseCondition(condition).refs) : r.kind = "step"

hardGatedSteps ==
    \E i \in DOMAIN stages :
        stepsStage(i) /\ stages[i].gate.declared /\ stages[i].gate.blocking

missingVocabulary ==
    \E i \in DOMAIN stages :
        /\ stages[i].gate.declared /\ stages[i].gate.blocking
        /\ \E a \in Range(stages[i].agents) : ~a.vocabulary

\* A declared default stands in where the caller gave no value, and the target of
\* the run where there is neither for that name.
boundParams ==
    LET defaulted == {d \in declaredParameters : pipeline.defaults[d] # NoDefault}
    IN [p \in DOMAIN input.params \union defaulted \union {"target"} |->
          CASE p \in DOMAIN input.params -> input.params[p]
            [] p \in defaulted \ DOMAIN input.params -> pipeline.defaults[p]
            [] OTHER -> input.target]

nulParameter == \E p \in DOMAIN boundParams : boundParams[p] = Nul

\* Why the pipeline is refused before anything launches: the first check that
\* refuses it throws.
refusalReasons ==
    IF loadErrors # {} THEN loadErrors
    ELSE IF ~pipeline.allowStageSteps /\ readsStepOutput THEN {"STEP_OUTPUT_STEPS_DISABLED"}
    ELSE IF ~pipeline.allowStageSteps /\ hardGatedSteps THEN {"steps_disabled"}
    ELSE IF nulParameter THEN {"PARAM_NUL"}
    ELSE IF missingVocabulary THEN {"VOCABULARY_MISSING"}
    ELSE {}

-----------------------------------------------------------------------------
(***************************************************************************)
(* The context of a condition.                                             *)
(***************************************************************************)
context == [params |-> boundParams, passed |-> passed, steps |-> stepResults]

Ran == [status : {"passed"}, output : Words] \union [status : {"failed"}, output : Words]
NotRan == [status : {"skipped"}, output : {""}]

LoadInit ==
    /\ text = <<>>
    /\ pipeline = NoPipeline
    /\ input = NoInput /\ phase = "writing" /\ refusal = {}
    /\ ended = <<>> /\ passed = <<>> /\ stepResults = <<>> /\ values = <<>>

Write ==
    /\ phase = "writing" /\ Len(text) < MaxFragments
    /\ \E f \in Fragments : text' = Append(text, f)
    /\ UNCHANGED <<pipeline, input, phase, refusal, ended, passed, stepResults, values>>

\* The text goes into a pipeline, which is started with some input.
Submit ==
    /\ phase = "writing"
    /\ phase' = "loading"
    /\ IF parseCondition(condition).ok
       THEN pipeline' \in Pipelines /\ input' \in Inputs
       ELSE pipeline' = (CHOOSE p \in Pipelines : TRUE) /\ input' = NoInput
    /\ UNCHANGED <<text, refusal, ended, passed, stepResults, values>>

CheckLoad ==
    /\ phase = "loading"
    /\ refusal' = refusalReasons
    /\ phase' = IF refusal' # {} THEN "refused" ELSE IF stages = <<>> THEN "over" ELSE "running"
    /\ UNCHANGED <<text, pipeline, input, ended, passed, stepResults, values>>

\* (mistake: of a stage that did not launch it is not recorded that it did not pass)
endsUnjudged(value, outcome) ==
    /\ ended' = Append(ended, stage.id)
    /\ passed' = IF value # T THEN passed
                 ELSE [s \in Range(ended') |-> IF s = stage.id THEN outcome ELSE
                         IF s \in DOMAIN passed THEN passed[s] ELSE FALSE]
    /\ values' = Append(values, value)
    /\ phase' = IF Len(ended) + 1 = Len(stages) THEN "over" ELSE "running"
\* The stage at hand ends; a stage that launched leaves results of its steps.
ends(value, outcome) ==
    /\ ended' = Append(ended, stage.id)
    /\ passed' = [s \in Range(ended') |-> IF s = stage.id THEN outcome ELSE passed[s]]
    /\ values' = Append(values, value)
    /\ phase' = IF Len(ended) + 1 = Len(stages) THEN "over" ELSE "running"

valueHere == IF stage.condition THEN evaluateCondition(condition, context) ELSE T

LaunchStage ==
    /\ phase = "running" /\ valueHere = T
    /\ \E outcome \in BOOLEAN : ends(T, outcome)
    /\ \E results \in [stage.steps ->
                         IF pipeline.allowStageSteps THEN Ran \union NotRan ELSE NotRan] :
         stepResults' = [s \in DOMAIN stepResults \union {stage.id} |->
                           IF s = stage.id THEN results ELSE stepResults[s]]
    /\ UNCHANGED <<text, pipeline, input, refusal>>

\* A condition that is false skips the stage, one without a value errors it.
Withhold ==
    /\ phase = "running" /\ valueHere # T
    /\ ends(valueHere, FALSE)
    /\ UNCHANGED <<text, pipeline, input, refusal, stepResults>>

\* A dependency that failed behind abort skips the stage before its condition.
SkipDependent ==
    /\ phase = "running"
    /\ \E d \in stage.depends_on \intersect Range(ended) : ~passed[d]
    /\ ends("unread", FALSE)
    /\ UNCHANGED <<text, pipeline, input, refusal, stepResults>>

LoadNext == Write \/ Submit \/ CheckLoad \/ LaunchStage \/ Withhold \/ SkipDependent

LoadSpec == LoadInit /\ [][LoadNext]_loadVars

-----------------------------------------------------------------------------
(***************************************************************************)
(* What is recorded of the stages that ended is about the same stages, in  *)
(* the order in which the pipeline declares them.                          *)
(***************************************************************************)
LoadTypeOK ==
    /\ text \in Seq(Fragments)
    /\ phase \in {"writing", "loading", "running", "refused", "over"}
    /\ Len(values) = Len(ended)
    /\ \A i \in DOMAIN ended : ended[i] = stages[i].id
    /\ DOMAIN passed = Range(ended)
    /\ DOMAIN stepResults \subseteq Range(ended)
    /\ phase = "refused" <=> refusal # {}

(***************************************************************************)
(* The parser reads exactly the language of its grammar, and reads it one  *)
(* way: a text that the grammar derives has one tree, which is the one the *)
(* descent builds, and every other text is a fault (Parser).               *)
(***************************************************************************)
ParserReadsTheGrammar ==
    phase = "writing" =>
        LET p == parseTokens(condition)
        IN GrammarTrees(condition) = IF p.ok THEN {p.node} ELSE {}

\* The results the steps that did not pass might have had.
passing(run, results) ==
    {f \in [DOMAIN results -> [status : {"passed"}, output : Words] \union Range(results)] :
       \A s \in DOMAIN results :
         IF results[s].status = "passed" THEN f[s] = results[s]
         ELSE f[s].status = "passed"}

completions ==
    LET stagesOf == DOMAIN stepResults
        all == UNION {passing(s, stepResults[s]) : s \in stagesOf}
    IN {f \in [stagesOf -> all] : \A s \in stagesOf : f[s] \in passing(s, stepResults[s])}

(***************************************************************************)
(* What a condition makes of steps that did not pass is never their        *)
(* output: where it has the value true or false, it would have had it      *)
(* whatever those steps had printed (read, evaluate).                      *)
(***************************************************************************)
UnpassedOutputNeverDecides ==
    phase = "running" /\ stage.condition =>
        LET p == parseCondition(condition)
            value == valueOf(p, context)
        IN value # E =>
             \A c \in completions : valueOf(p, [context EXCEPT !.steps = c]) = value

(***************************************************************************)
(* A condition of an accepted pipeline only reads what is there to read:   *)
(* every stage that it names has ended when it is evaluated, every         *)
(* parameter it names is declared, and it has no value only where it reads *)
(* a step that did not pass, of a run that had steps on                    *)
(* (checkPipelineLoadRules, conditionFault, refuseBeforeLaunch).           *)
(***************************************************************************)
AcceptedConditionsAreReadable ==
    phase = "running" /\ stage.condition =>
        LET p == parseCondition(condition)
            refs == Range(p.refs)
        IN
        /\ \A r \in refs :
             /\ r.kind \in {"passed", "step"} => r.stage \in Range(ended)
             /\ r.kind = "param" => r.name \in declaredParameters
             /\ r.kind = "step" => pipeline.allowStageSteps
        /\ valueOf(p, context) = E => \E r \in refs : r.kind = "step" /\ read(r, context) = E

=============================================================================
