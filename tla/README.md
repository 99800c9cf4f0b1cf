# Uluops core in TLA+

`@uluops/core` runs language-model agents, alone or composed: a **command** runs
agents, a **workflow** runs phases of commands, a **pipeline** runs stages of
agents, shell steps, commands and workflows. Running one takes minutes and costs
money, so most of the core's rules are about what happens when something is
stopped, crashes or says nothing while other things are still in flight, and
what verdict may then be reported. Those rules are what this directory models.

Everything is translated from `src/src/**`; paths below are relative to it.

## 1. The system

| Component | State it keeps | Operations | Talks to |
|---|---|---|---|
| Pipeline run (`executor/PipelineExecutor.ts`, `pipelineLoad.ts`, `utils/runTrip.ts`) | `PipelineState` (status, error, stage results, warnings), the set of stages whose dependents are skipped, the run's `AbortController`, the stop label, the handle's `settled` | `start`, the stage loop, `cancel`, `wait`, `getStatus` | every executor below, through calls; the provider, through the run's signal and the 402 trip |
| Stage gate and run verdict (`stageGate.ts`, `agentVerdict.ts`, `runVerdict.ts`, `utils/executionEvidence.ts`) | none | judge a stage, derive the run's decision | the pipeline run |
| Crash decides (`utils/runStop.ts`, `crashPlaceholder.ts`, `stopVerdict.ts`) | none (marks on records) | classify a rejection, make placeholder records, impose a verdict on a container | pipeline, workflow and command runs |
| Workflow run (`WorkflowExecutor.ts`, `utils/topoSort.ts`) | phase results, completed phases, the halt of `on_failure`, a shared next index | levels, workers behind `max_parallel`, gates, aggregation | command runs, agents |
| Command run (`CommandExecutor.ts`) | agent results | sequential or parallel agents, aggregation | agents |
| Steps (`StepsExecutor.ts`, `stepTemplates.ts`) | step results, `hardFailed` | steps in order, retries, `always_run`, parameters as environment variables | the host shell |
| Conditions (`conditions.ts`) | none | parse, evaluate to true, false or E | pipeline run |
| Concurrency limiter (`ai/Semaphore.ts`) | permits, a FIFO queue | acquire, release, run | AI provider |
| AI provider (`ai/AIProvider.ts`, `TokenBudgetTracker.ts`, `contextBudget.ts`, `thinking.ts`) | loaded providers, the wrap-up latch, step totals | `generate`, one repair turn, error mapping | the limiter, the catalog, the run trip |
| Model catalog (`ai/ModelCatalog.ts`) | alias and model caches | resolve | the registry service |
| Agent executor (`AgentExecutor.ts`, `upstreamContext.ts`, `preflight.ts`, `vocabularyPrecheck.ts`) | once-only notices | one agent run | AI provider, tools |
| Tools (`ToolHandler.ts`, `ai/shellExecutor.ts`, `symbols.ts`) | a resolved base path | file and shell tools | the file system |
| Client and tracking (`client/UluOpsClient.ts`) | none between calls | run and start entry points, track a result, record executions | executors, submission, registry |
| Submission (`submission/*`) | a truncation tally, reset by each call | repair, bound and save a payload | the tracker service |
| Registry (`registry/*`) | a content cache, the reasons it has warned of | resolve, verify pins, list, clear | the registry service, local files |
| Output parsing (`parser/*`) | none | extract the JSON of an answer, read decision and score | agent executor |
| Analysis summaries, errors, value guards, rollups | none | pure functions | |

### What is hard in it

* **One loop, many hands.** The stage loop is suspended in an `await` for most of
  its life. While it is, `handle.cancel()`, a provider's 402, the caller's abort
  and the caller's deadline can each stop the run, in any order, and the units in
  flight settle in any order around them. Every place where the loop resumes has to
  look again.
* **A stop is not a crash, and a crash is not a stop.** A rejection is classified
  at the moment it happens, from the error and the signal. Done late, or from the
  signal only, it turns failures into neutral records or the other way round.
* **Verdicts inferred from traces.** Whether a stop reached a run is read off the
  results it left. A trace that is missed makes a stopped run report PASS.
* **Nothing may vanish.** Early exits, stops and aborts leave the loop or a level
  before its end; every stage or phase still has to be recorded.
* **Silence.** No score, no decision, no agents dispatched, no phases executed: each
  must not read as a pass.
* **Numbers from outside.** Authored bounds, token counts and prices may be absent,
  fractions, NaN or negative, and each is read by code that brakes, retries or bills by it.
* **What is kept is less than what happened.** An answer is cut, a prompt is re-rendered,
  a payload is bounded. Whoever reads the result later only knows if it says so.
* **Calls that overlap.** Resolutions share a cache that is cleared under them; submissions
  share one client's tally; calls share one provider's permits.

What should hold of each component is listed, hazard by hazard and at its line, under
`hazards` in `PROJECT.json`, with the properties that watch it.


## 2. Modules

| Module | Models |
|---|---|
| `StopVerdict` | Crash decides: rejections, placeholder records, the verdict and marks of a container. Operators only. |
| `StageGate` | Gate modes and keys, a gate's judgement, the rule for unjudgeable agents, the run's decision. Operators only; extends `StopVerdict`. |
| `PipelineRun` | One pipeline run: loop, units in flight, stops, judging, handle. |
| `RunContract` | The abstract run: what the handle promises whatever the stages are. |
| `WorkflowRun` | One run of a workflow: levels, workers, steps in flight, gates, postures, stops. Extends `StageGate`. |
| `PhaseSchedule` | The abstract workflow: in which order phases may work and settle. |
| `CommandRun` | One run of a command: preflight, agents in order or at once, aggregation, the throw. Extends `StageGate`. |
| `UnitContract` | What a command or a workflow promises the run that called it. |
| `StepsRun` | One steps stage: refusals, attempts, retries, bounds, the environment of a command. |
| `Conditions` | The condition language: parser, references, evaluation to true, false or E, and its grammar as a reference definition. Operators only. |
| `PipelineLoad` | Writing, loading and running a pipeline with a condition. Extends `Conditions`. |
| `ProviderCalls` | The calls of one AI provider: its limiter, `generate()`, the repair turn, error mapping, the stop of a run refused credit. |
| `CallLimiter` | The abstract limiter: bounded, first come first served. |
| `GenerationSteps` | One tool loop: the brakes, the window tracker, usage, prices, markers. |
| `AgentOutput`, `ThinkingGate` | What is read out of an answer; who asks for thinking and what is sent. Operators only. |
| `AgentRun` | The runs of one agent executor, one after the other. Extends both. |
| `RegistryCache` | The calls of one registry client: cache, local files, registry, pins. |
| `Submission` | What becomes of a result before it is saved. Operators only. |
| `TrackingRun` | The entry points that run and then save, concurrently. Extends `Submission`. |
| `MC...` | The instance of each for TLC. |
| `...Proofs` | The theorems about each state machine. `StageProofs` has those of `StepsRun` and `PipelineLoad`, `ClientProofs` those of `RegistryCache` and `TrackingRun`; those of `StopVerdict` are at the head of `WorkflowRunProofs`. |

A command and a workflow are units of the runs above them: `UnitContract` joins their models.
A steps stage is a unit of `PipelineRun` and its inside is `StepsRun`; the value of a condition is an
input of `PipelineRun` and `PipelineLoad` says how it comes about; a generation is a request of
`ProviderCalls`, its turns are `GenerationSteps`, and what the agent makes of its answer is
`AgentRun`; an answer of an agent is an input of the command and pipeline models; the result of
any of them is what `TrackingRun` saves.

### `PipelineRun`

One run, from `start()` to the settling of the execution promise.

| Variable | Code |
|---|---|
| `def` | the pipeline definition, as authored |
| `status`, `error` | `PipelineState.status`, and who wrote `PipelineState.error` |
| `label` | the entry of `stopLabels` for this run |
| `caller`, `signal` | the caller's `abortSignal`; the run's merged signal with the reason it took |
| `pc`, `stage` | where `executeAsync` is: running (`loop`), in a stage (`await`), left (`ended`) |
| `running`, `records`, `condErrs` | the promises under `Promise.allSettled` still pending, what the settled ones left, the agents whose condition was E |
| `results`, `aborted`, `accepted` | `stageResults`, the loop's `aborted` set, the CONDITIONAL_ACCEPTED warnings |
| `threw`, `settled`, `reply` | the loop's catch ran; `PipelineHandle.settled`; how the last `cancel()` answered |

Actions: `LoopStopped`, `SkipUnmet`, `SkipDownstream`, `ConditionFalse`,
`ConditionError`, `Launch`, `Finish` are the ways one iteration of the loop can go
until it awaits or leaves. `Judge` is everything that runs, without yielding, once
the last unit has settled: `judgeStage`, `end`, the second stop check, the early
exit and what `skipRemaining` records. `Answer`, `AnswerEmpty`, `AnswerStopped`,
`Reject` and `StepsOver` are the ways a unit settles. `CreditTrip`,
`CreditTripInside`, `Cancel` and `CallerAborts` are the four stops. `LoopThrows` is
the catch, reached because the consumer's logger is called in the loop and may throw.
`Settle` is the callback that sets `settled`.

JavaScript runs one task at a time, so the code between two awaits is atomic: while
`pc = "loop"` only the loop moves. That is a fact about the language and not a
simplification; where the code awaits, `pc` is `"await"` and everything may happen.

Abstracted: the value of a condition is any value it may have (`PipelineLoad` says which); an
answer is any pair in `Answers`; a steps stage passes or fails as one unit (`StepsRun`; its steps
do not see the run's signal); a referenced command or workflow is one unit that may come back with an
answer, with no executed phase, with the marks a stop leaves, or throw. Upstream
context, metrics, roll-up scores, log texts are left out. A score is a natural number or none,
and a negative authored threshold stands for every unusable one (NaN, infinite, negative).

### `WorkflowRun`

One `execute()`, from the sorted levels to the return or the throw.

| Variable | Code |
|---|---|
| `def` | `def.workflow.orchestration`, as authored |
| `signal` | `control.abortSignal`: live, aborted, or fired by a deadline |
| `pc` | between two levels (`loop`), inside `executePhasesParallel` (`await`), returned or thrown (`ended`) |
| `halted` | `stopped \|\| aborted` of the level loop, set by `on_failure` |
| `queue` | the phases from `nextIndex` on, not yet taken by a worker |
| `flight` | the phases inside `executePhase`: the steps that have not settled, the records of those that have |
| `levelResults` | `results` of the level at work |
| `results` | `completedPhases` |
| `threw` | the catch ran, and the `WorkflowError` left |

The level loop is `Refuse`, `SkipLevel`, `StopLevel`, `StartLevel`, `LevelOver` (all of
`processLevelResults`, in the iteration it belongs to) and `Finish`. `PhaseEnds` is the end of
`executePhase` together with what its worker does without yielding: it records the phases a stop
keeps from starting, or takes the next one and starts its steps. `PhaseThrows` is the level of
one phase, whose error nobody contains. `Answer`, `AnswerMarked` and `Reject` are the ways a step
settles, `SignalFires` the caller's signal. The verdict is the operator
`Decision`, over the results.

A level is not stored: `level` is the set of unrecorded phases whose dependencies are all
recorded, which between two levels is the next of `topoGroupLevels`, and `orderable` says that
the sort places them all.

Abstracted: `skip_if` reads the run's input only, so it is a constant of the run; a step is one
call that answers or rejects, a command with crashed or stopped agents included; names, metrics,
recommendations, the score of the workflow, remapped decision words, and what the error of a
failed workflow carries are left out. So is a logger that throws.

### `CommandRun` and `UnitContract`

One `execute()`, from the preflight checks to the return or the throw.

| Variable | Code |
|---|---|
| `def` | `def.command`: agents, weights, dispatch mode, thresholds, method |
| `signal` | `overrides.abortSignal` |
| `pc` | in the checks (`preflight`), awaiting agents (`await`), `returned` or `threw` |
| `running` | the agents called and not settled |
| `outcomes` | `results`: what each settled agent left, its rejection classified when it settled |
| `thrown` | the code of the error that left |

`Dispatch` calls the first agent of a panel that runs in order or all of a parallel one,
`DispatchNext` is the next turn of the `for` of `executeSequentially`, `Answer` and `Reject` are
the ways an agent settles, and `Return` and `AllCrashed` are the two ends of a panel. The
aggregation (`aggregateScores`, `panelClass`, `commandClass`) is computed with the authored
weights and rounding of the code. An empty panel comes out positive, as in the code.

A command is a unit of the runs above it, and so is a workflow. What those runs assume of a unit
is in `StopVerdict`: `mayAnswer(r, sig)` for any unit, `commandMayAnswer` for a command. A step of
`WorkflowRun` may come back with any marked record that `commandMayAnswer` allows
(`AnswerMarked`), a referenced unit of `PipelineRun` with any that `mayAnswer` allows
(`AnswerStopped`). `UnitContract` says it as a specification: one reply, allowed under the signal
of that moment, or a rejection. `CommandRun` and `WorkflowRun` each implement it
(`KeepsUnitContract`), so that what is assumed above is established below, checked by TLC and
proved.

Abstracted: a preflight check passes or fails; resolving an agent's reference is part of the
agent's call; a weight that is not positive stands for every unusable one.

### `ProviderCalls` and `CallLimiter`

All calls of one `AIProvider`, from `generate()` to what its caller gets.

| Variable | Code |
|---|---|
| `limit`, `available`, `queue` | what `Semaphore`'s constructor made of `maxConcurrency`; `available`; `queue` |
| `pc` | where each `generate()` is suspended: not called (`idle`), `queued`, `resolving` the model, `generating`, `handling` an error that recovery declined, `repairing`, `settled` with the permit still held, `done` |
| `error`, `outcome` | the error its last request met; the result or the error's class it settled with |
| `signal` | each caller's signal: live, stopped by its owner, stopped by a credit trip |
| `ended` | the runs whose status is no longer running because they are over |
| `stoppers` | the calls for which `tripRunFor` returned true |

`Generate` acquires or queues. `Resolve` and `ResolveFails` are the two ends of model resolution,
which is outside the mapping of errors. `Answer`, `AssemblyFails` and `RequestFails` are the ends
of the first request, and `RequestFails` is followed, in the same task, by what
`recoverStructuredOutput` does until it awaits. When that declines, its `undefined` reaches
`generateInner` a task later: `Handle`, before which a stop may land. `RepairAnswers` and
`RepairFails` are the ends of the repair turn. `Release` is the `finally` of `Semaphore.run`,
which hands the permit on. `Stop` and `RunEnds` are the callers'. `inside`, the calls that hold a
permit, is what `PermitsConserved` counts and what `CallLimiter` has as a variable.

Abstracted: whether an answer that misses the schema can be salvaged, and whether its steps
reported the conversation, are the answer's choice; SDK retries belong to the request, and a
`RetryError` is mapped as the error it wraps; usage, prices and the brakes are `GenerationSteps`'. A
call that left keeps no record here: its caller has the outcome.

### `StepsRun`

One stage of shell steps, from the load checks to its last step.

| Variable | Code |
|---|---|
| `steps` | the stage's `steps`, as authored |
| `declared`, `given` | the parameters the pipeline's triggers declare; those the caller gave a value |
| `pc` | not yet checked (`load`), between two steps (`next`), in an attempt (`running`), before the next one (`retrying`), `over`, `refused` by the load checks |
| `results`, `hardFailed` | the results so far; that a step failed whose `continue_on_error` is not set |
| `attempt`, `environment` | the loop's `attempt`; where each variable of the last command launched comes from |
| `launched`, `succeeded`, `elapsed` | kept for the properties: launches and successes of each step, the time the stage has taken |

`Load` is `checkStepTemplateRules`, `Skip` a step after a hard failure that is not `always_run`,
`Refuse` every way a step fails before anything is launched, `Launch` the first attempt, `End` the
end of its process together with the step's expectations of its output, `Retry` the delay and the
next attempt. Authored numbers are any integer or `Unusable`, which
stands for an absent value, a fraction, NaN and an infinity; time is counted in whole units.

At its limit a command is only sent a SIGTERM, and its end is awaited. A `stubborn` one ignores the
signal and runs on for up to `LINGER` units, in the code for as long as it likes; the bound on time is claimed
for stages whose commands are `heedful`. `target` is a parameter whose value is the path of the run's
target, whatever the caller gave for it (`boundValue`).

Abstracted: texts. Of a command it matters which parameters it names and how, of an output whether
it is empty and whether it matches; of a variable of the environment, who gave it its value.

### `Conditions` and `PipelineLoad`

`Conditions` has the parser by recursive descent, the classification of references and the
evaluator over {T, F, E}. A text is a sequence of tokens, a token knows whether a blank precedes it, and
characters are left out. `GrammarTrees` is the grammar read as a definition: all trees that derive a
text. `PipelineLoad` is what the language is used for.

The recursion of the code is recursion over numbers here, so that proofs can reach it. `descent` goes by
how deep groups nest, `joinAll` by the rounds of the loops of `andExpr` and `orExpr`, `ancestorsOf`
by the edges along `depends_on`, each with as many steps as the text or the pipeline can need. A
parse carries the set of the trees in its tree, and `evaluate` is the function that gives each its value.

| Variable | Code |
|---|---|
| `text`, `pipeline`, `input` | the condition, as fragments of tokens; the pipeline that holds it; the caller's parameters |
| `phase`, `refusal` | the author writes (`writing`), the checks run (`loading`), the stages run (`running`), `over`, or `refused` and why |
| `ended`, `passed`, `stepResults`, `values` | the stages that have ended, in order; which of them passed; the results of those that launched; the value of each condition, as `E`, `T`, `F` or not read |

`Write` and `Submit` are the author's and the caller's. `CheckLoad` is `checkPipelineLoadRules`,
`refuseBeforeLaunch` and `refuseMissingVocabulary`: the first reason in the order of the code refuses the run (load errors, step
output or hard gates without steps, a NUL in a parameter, a vocabulary that is missing). Two parameters in one
variable and a misplaced template are properties of the pipeline as written (`collides`, `misplaced`);
`StepsRun` says what the first of them would do. `LaunchStage`, `Withhold` and `SkipDependent` are what the stage loop does with a
stage whose condition is true, is not, or is not read. How a stage ends is open here.

### `GenerationSteps`

One `executeGeneration`, turn by turn.

| Variable | Code |
|---|---|
| `options` | the context budget as derived, the authored step limit, whether an object is asked for, the shape in which the provider reports |
| `pc` | the loop runs, has `finished`, its answer is `repairing`, the call has `returned` |
| `turns` | the turns so far: whether they were offered tools, and what was reported of them |
| `latched`, `tracker` | the wrap-up latch of `prepareStep`; the agent's `TokenBudgetTracker` |
| `totals`, `result` | `StepTotals`; what the call returns |

`Turn` is `prepareStep`, the model's turn and `onStepFinish`. `Answers` is the path of a whole
answer, priced from the SDK's own sum; `FallsBack` and `Repairs` with `RepairReturns` the paths of a
failed structured answer, priced from `StepTotals`. A count that is not reported is `Absent`; one
that is not finite or is negative is `Garbled`, and so is what JavaScript's addition makes of it.

A sum is `total`, a recursive function over the positions of a list, so that it can be proved about.

Abstracted: messages, tools and their results. A turn calls tools or does not, and a model without
tools may still call one. Whether a failed answer is repaired is open; `ProviderCalls` says it.

### `AgentOutput`, `ThinkingGate` and `AgentRun`

`AgentOutput` has the ladder of extractions (fenced blocks, the whole answer, objects in prose,
labelled lines) with the confidence of each, the rule that finds a decision word, and where a verdict is
read from. `ThinkingGate` has the layers that ask for thinking, the plan of what is sent, and the
record and notice of it. `AgentRun` is one `AgentExecutor` and its runs, one after the other.

| Variable | Code |
|---|---|
| `client` | the client's configuration: model override, tools allowed, thinking |
| `noticed` | `warnedStickyLevers` and the shell notice: the only memory from run to run |
| `pc` | `idle`, `resolved`, tools set up (`ready`), request `sent`, `ended` |
| `run` | the definition and the options of this run |
| `asked` | the models that the budget, the shell and the generation asked the catalog for |
| `gate`, `outcome` | the request as the gate meets it; what the builder did |
| `end`, `told` | the result or the error; for the properties, the notices given and what gave rise to them |

`Resolve`, `SetupTools`, `Gate` and `AnswerArrives` are the way of a run; `FailsBefore` and
`FailsAfter` the one catch, before and after the builder ran, and an answer that is empty although
its loop still called tools goes there too. `FailsOnAnswer` is an answer that came and could not be
read, or a logger that threw over it: its error carries nothing of the request, and is recorded as one
from before the request was built. `ThinkingIsTold` leaves out what such a record says was applied, and
keeps that its levers warn. `NextRun` drops everything but `noticed`.

A sticky lever warns at most once: the notice of native thinking, which is no warning, sets the same
memory. `EvidenceLossIsMarked` takes the outcome of a repair as the provider reports it: a field that got
lost within a repair turn that is reported as repaired is not told from one that was never there.

The rung of labelled lines needs a word, or for a score a digit, right after the colon, or a quote
before it (`leads`): a line whose value stands in emphasis, `**Decision:** PASS`, yields nothing there, and the
extraction has failed, although the verdict's own reader finds the line. Decisions in a section header or
behind an emoji are left out of that rung.

Abstracted: spelling and prompts. A decision as written is a sequence of words and marks, an object
a function from the containers it has; a score of 100 is whole. The catalog, what the provider's loop
met and how its answer was repaired are inputs. One catalog answers the three resolutions of a run: that
its answer changes between them is not modelled. An answer has its fences in order and finitely many
objects of some length in its prose (`TextShape`); authored thresholds are numbers
(`ThresholdsAssumption`).

### `RegistryCache`

The calls of one `RegistryClient`. The keys of two names never meet in its cache, but their files do in
a directory.

| Variable | Code |
|---|---|
| `cache` | the content cache, by type and version |
| `directory`, `published` | the local definitions; the rows of the registry |
| `call` | each call: where it waits, what it asked for, what it holds, its outcome |
| `warned`, `warnings` | the reasons warned of; how often, for the properties, like `met`, the reasons renders failed for |
| `edits`, `clears`, `straddlers` | bounds of the environment; the calls that the last clear found in flight |

`Resolve` answers from the cache or starts with the first local place. `Read` tries one place and goes
on to the next; `Preview` is the render of a local agent or command with its fallback to the raw
text; `Search` finds the type of an untyped call; `Fetch` and `Rerender` are the registry's. A resolution is
stored before its pins are checked and whoever comes last overwrites, as in the code. A file of the right name
for a workflow or pipeline without its section goes to the raw text for a prompt, and is refused by normalization all the same
unless the section of another type is there (`foreign`). `List` and
`Listed` are `list()`, whose files are read at one moment here. `clearCache`, `Edit` and `Publish`
happen at any moment.

A place holds its files as a sequence, in the order of `readdir`. `listLocal` scans the base directory and
then the directory of the type; one `catch` is around each scan, so the first file that cannot be read or is
no mapping, of whatever name, ends it (`reached`). Files after it vanish from the list although
`resolve()` finds them, or the copy in the second directory is listed in their place. A summary has the title that the file gives itself
(`interface.name`) and not the file's name. `ListShowsWhatResolves` therefore speaks of definitions that are
`inTheOpen`, with no broken file before them in their directory, of types whose files are all `titled` as they are named.

The machine is `RegistrySpec`, with a name of its own because a client also saves runs.

Abstracted: contents are told apart by their hash, and what normalisation makes of a file is one of
its states. `list()` is called with or without a type and never with a domain. `TextsAssumption` says that no file and no row already holds the text that a render would
make; without it a fallback could not be told from a render by its content.

### `Submission` and `TrackingRun`

`Submission` is `transformToOpsInput`: the rows of an agent, a command, a workflow or a pipeline, the
repair of recommendations, the bounds of summaries and records, unique record ids, the ceilings, the
byte budget, the marker and the tally. `TrackingRun` are the entry points around it.

| Variable | Code |
|---|---|
| `config`, `job` | the client's configuration; what each caller runs and with what options |
| `pc` | of each caller: `idle`, `running`, `saving`, `recording`, `returned`, `threw` |
| `inflight`, `fields` | what was submitted; what tracking wrote on the caller's result |
| `pending` | the executions still to be recorded |
| `tally` | the submission client's `truncationTally`, which all callers share |
| `tracker`, `registry` | the runs saved; the executions recorded |

`Call` and `EndUntracked` are runs nothing is saved of. `Submit` runs from the end of the
execution to the request, without yielding. `Saved` and `SaveFailed` are the two answers; in
the second the tracker may have kept the run, since its answer may have been lost. `Record` is one
execution recorded, or not, which is only logged.

Each `wait()` of one handle builds its own result and submits it again, with no key by
which the tracker could tell, so each is a call of its own here. `run()` records no run that
was billed and then threw; only `runAgent` does. A composite of which everything was skipped is
recorded as an execution of an agent, through its fallback row. All this is in the models
because it is in the code.

`JobsAssumption` gives a result the arrays that `AgentResult`, `CommandResult`, `WorkflowResult` and
`PipelineResult` declare, of any length. Of what is in them it says which fields a recommendation, a summary
and a record always have, and that a record's id is cut to its length where the record is made
(`AnalysisSummaryExtractor.safeRecordId`); the values of the fields are any, within bounds or not. `RunsAssumption`
says that the value standing for no run is no run. `SuffixAssumption` says that the suffix of a renamed id
(`~2`, `~3`, ... in decimals) leaves room in an id, for as many suffixes as a save may need: in the code
an id has 100 characters and a save 100 records, so no suffix has more than four.

The score of a row is sent as it is, beside a `maxScore` that is clamped: `PayloadFitsTheWire` claims
nothing of it.

Abstracted: a text is absent, empty, fits or is long; a value of a vocabulary is a member or not; the
weight of a body is counted in units. The projection of an agent's analysis is an input.

### Runs

| Run | Question | Result |
|---|---|---|
| `pipeline` | All interleavings on five pipelines: are stages accounted for, does abort cascade, do records and verdict tell the truth about a stop, does a PASS rest on work, does the first stop decide and nothing launch after it, does every run settle, is `RunContract` kept? | holds, 221 356 states |
| `workflow` | All interleavings on fifteen workflows: is every phase accounted for, do failures stop dependents, is `max_parallel` kept, does nothing start after a stop or halt, does the verdict tell what happened, does the answer keep `UnitContract`, does every workflow return or throw, is `PhaseSchedule` kept? | holds, 261 468 states |
| `command` | All interleavings on twenty-three commands: is every agent accounted for, does a positive rest on the whole panel, are stops and crashes told apart, does a throw hide no stop, do better scores never read worse, is `UnitContract` kept, does every command end, and does a crash before the stop decide? | holds, 24 233 states |
| `calls` | All interleavings of three calls: are permits conserved and handed on in order, does a refusal of credit reach its caller and stop its run once, does a missed schema leave a trace, does every call settle? | holds, 94 007 states |
| `steps` | Every stage of three steps out of six definitions, whose commands end in every way: is its time bounded however it is authored if they heed their signal, does each result tell what its command did, do declared parameters arrive unshadowed? | holds, 318 462 states |
| `load` | Every text of up to five fragments in every pipeline: does the parser read the grammar, can an accepted condition read what it names, does the output of a step that did not pass decide nothing? | holds, 1 162 856 states |
| `registry` | Two calls while files, rows and cache change: does each get what it pinned, does `list()` show what `resolve()` finds wherever no broken file ends its scan, are fallbacks marked and told once, does a clear forget? | holds, 3 168 683 states |
| `generation` | Every loop of up to six turns and a repair: do the brakes follow the measured window and leave a turn to answer in, do the markers tell what happened, is every token priced once on either path? | holds, 1 517 478 states |
| `agent` | Two agents on five models, run after run: is a verdict one the agent gave, is what was lost marked, does the generation run on what was prepared for it, is thinking told and bounded? | holds, 1 539 280 states |
| `tracking` | Two callers on one client: does every save fit its limits, is what was cut marked and counted, does each result name its own run, does a saved verdict rest on evidence? | holds, 98 849 states |
| `garbled_count` | `TokenBudgetTracker.ts:160`: a count that is no number is dropped and overwrites no measurement | violated: it is made a zero at `AIProvider.ts:1096`, before the tracker sees it |
| `dropped_count` | `types/submission.ts:98`: what `truncated` counts is measured | violated: the recommendation displaced by the marker is not counted |

Eight further configurations check one statement of the documentation each that the code does not
keep. They are not runs of `PROJECT.json`; run with TLC, each ends in a counterexample.

| Configuration | Statement | Counterexample |
|---|---|---|
| `PipelineRunStopped.cfg` | `runVerdict.ts:24`: all gates passed is false when the run was stopped before every stage was terminal | a stop while the last stage is in flight leaves no trace if its work answers (`PipelineExecutor.ts:1279`) |
| `PipelineRunThrown.cfg` | `runVerdict.ts:26`: nothing that a run whose execution threw reports can pass | a run that is cancelled and then throws keeps its status (`PipelineExecutor.ts:1198`) |
| `PipelineRunGhost.cfg` | `PipelineExecutor.ts:225`: abort skips everything downstream, transitively | a stage in between names an unknown dependency and is skipped first (`:219`) |
| `PipelineRunCancel.cfg` | `PipelineExecutor.ts:1163`: a settled run rejects `cancel()` | it settled as cancelled (`:1164`) |
| `WorkflowRunAbort.cfg` | `WorkflowExecutor.ts:50`, `README.md:336`: posture abort skips every remaining phase | the phases queued behind `max_parallel` still start (`:436`) |
| `WorkflowRunDeps.cfg` | `ARCHITECTURE.md:147`: all dependencies must be passed or warned | skipped ones satisfy as well (`WorkflowExecutor.ts:950`) |
| `CommandRunThrow.cfg` | `README.md:871`: a multi-agent command throws only if every agent failed | a panel run in order whose first agent crashes tries no other (`CommandExecutor.ts:279`) |
| `ProviderCallsStop.cfg` | `AIProvider.ts:1379`: a stop met by the recovery is mapped and thrown | the call answers with unmarked text (`:1380`) |

*Bounds of the runs of pipelines, workflows, commands and calls.* The five pipelines have up to
three stages and two agents: two agents are what it takes for one to settle before a stop and one
after, three stages for an abort to cascade through a skipped stage and for a stop to cut off more
than one. Between them they use every stage kind, gate mode, decision key and aggregate, per-agent
thresholds, conditions at both levels, an early exit and an unknown dependency. The
answers are one of each class a gate tells apart, above and below the threshold.
Nothing else needs a bound: a run is finite, and each stop happens at most once
because each reads the status first. `cancel()` may be called any number of times.

The workflows have three to five phases of one or two steps (the steps of a phase need two for
one to reject before a stop and one after; none is what an author may write too), queued behind
one, two or three workers, an unusable limit and none: three phases behind one or two workers
are what it takes for one to wait while another fails or is stopped, and five to join a skipped
phase with one that worked. A chain, a queue and a diamond go under every posture their shape
makes interesting; a cycle and an unknown dependency are refused.

The commands have one agent, none, or panels of two and three (two for one agent to crash before
a stop and another after it, three for a sequential panel to leave one out), under both dispatch
modes and each method, with unit, uneven, zero and negative weights; the answers straddle both
thresholds, two of them rounding to the threshold together.

The provider's calls are three: behind a limit of one, two of them queue, which is what it takes
to tell the order of a queue, and two calls of one run are what it takes for both to be refused credit.
The third has a signal of its own, no run behind it, and asks for an object as one of the others
does. `maxConcurrency` is zero, NaN, a fraction or two, so the limit is eight, one or two. A call
sends at most two requests, as in the code.

*Bounds of the other runs.*

* `steps`: three steps, so that one may come after a hard failure and one after that; six
  definitions with authored numbers below, within and above their ranges and unusable ones, one of which
  ignores its signal (for `LINGER`, one unit more, as only that it is late matters); a limit of two
  units, one retry, a delay of one; two parameters that share one variable, one of them `target`.
* `load`: twelve fragments, among them a good and a faulty reference and every operator, in
  texts of up to five (`MaxFragments`), which is what `(a && b)` needs, within `MAX_CONDITION_LENGTH` of 24
  tokens, which is reached; pipelines of three stages with `depends_on` in every order, and one for
  each check of the load.
* `registry`: two calls, symmetric, since a race takes two; six wants with and without pins; two names, of which
  one is asked for and the other is its neighbour: broken before it, broken after it, broken in the other
  directory, or titled as it; four
  directories, one of them empty, and four rows with a file and a row of every shape that is treated in a way of its own; one
  edit (`MaxEdits`) and one clear (`MaxClears`), each between any two steps of the calls.
* `generation`: a budget of 100 tokens and windows on both sides of 70 and of 80 percent, at which
  the latch lets go and takes hold, with drops on both sides of a twentieth; limits of one, two and four
  steps, with the two more an object takes; three shapes of reports, one of which is garbled only in
  `garbled_count`.
* `agent`: two agents, five models, answers of every rung of the ladder with and without conflicts,
  all sets of facts of the loop, all outcomes of a repair; a thinking budget starts at four tokens.
  `told.count` stops at two, one more than a sticky notice may reach. Runs follow one another without end.
* `tracking`: two callers, since the tally is shared; ceilings of three (summaries: two) with results
  below, at and above each; record ids of up to four characters that collide by case, by suffix and by cut; a body
  of eleven units with blobs of three. A tracker keeps at most one run of each caller.

Deadlock is checked in `pipeline`, where a settled handle still answers `cancel()`, and in
`agent`, where runs go on. Elsewhere what has returned does nothing more; in the workflow, command and calls
runs `Termination`, or `EveryCallSettles`, says that it stops nowhere else.

*Fairness.* In `PipelineRun`, `WorkflowRun`, `CommandRun` and `ProviderCalls`, `Spec` adds weak
fairness to the loop's own steps and to the promise
callback (tasks that are ready run), and to the units in flight as a whole: every
provider call carries a request timeout (`AIProvider.mergeAbortSignals` installs one on
every request) and every step a step timeout, so a unit in flight settles. No fairness
on stops or on a logger's throw: nobody has to stop a run. `ProviderCalls` makes the first of these
assumptions good: only the abort of a request by its timeout is fair there, never an answer, and
every call that was made settles. What it assumes instead is that model resolution ends, one way or
the other: a permit is held through it, and the call's timeout does not cover it. `StepsRun` makes the
second good in another way: its time is bounded (`StageTimeIsBounded`, proved).
`GenerationSteps` and `RegistryCache` say that a turn and an awaited answer come, for
the same reason; their properties are safety properties and do not use it.

*Mutants.* Each property has a plausible mistake beside the definition it would change,
in an operator whose comment starts with "(mistake". They are not part of the model. A property that
joins several (`StopIsTold`, `VerdictTells`, ...) is listed with one of them, and the other mistakes
break its other parts; `CallersGetWhatTheyAskFor` is listed with one for each half, what is pinned and what is listed.

## 3. What is proved

Each theorem holds for every value of the constants (any definitions, agents or phases,
answers, callers, reports), from the assumptions named in the module it is about; the five that
need one more name it. A proof about a run rests on an inductive invariant: it holds initially, one
lemma per action shows that the action keeps it, and each theorem follows from it in one state
or about one step. What is interesting is why the properties are not inductive by themselves.

Where a result is a sum, a list made of lists, or a list that is cut, the model computes it by a recursive
function over positions, and the proof unfolds that function: the positions at which it does not
satisfy its equation would have a least one (`LeastNat`, from the well-foundedness of the numbers), and
there is none. `Induction` in each of these modules is that argument for a set of numbers. No theorem of the
libraries that takes an operator is used, and nothing is proved through an operator declared RECURSIVE.

### `PipelineRunProofs`

| Theorem | Statement |
|---|---|
| `TypeCorrect` | every reachable state satisfies `TypeOK` |
| `Accounting` | `EveryStageAccounted`: stages are recorded once, in order, and all of them by a run that ended without throwing |
| `FirstStopDecides` | `FirstStopWins`: status, reason and label never change after a stop |
| `NoLaunchAfterStop` | `NothingLaunchesAfterStop` |
| `Refinement` | `KeepsContract`: the run implements `RunContract`, safety part |
| `KeepsWord` | `RunKeepsItsWord`, the three above together |
| `StopTold` | `StopIsTold`: records, skips and the decision tell of a stop exactly where there was one |
| `StagesRecorded` | `StageRecords`, provided `DependenciesDeclared` |

*Argument.* `IInv == TypeOK /\ EveryStageAccounted /\ LoopInv`. `TypeOK` is not inductive by itself:
that `aborted` holds indices of stages and that a skipped tail is well typed needs the loop's
position. `EveryStageAccounted` is not either: that the loop leaves exactly the stages from `stage` on
unrecorded needs to know where the loop stands (`LoopInv`: what is empty outside an await, that an
await has a stage, that a live signal goes with a running status).

What records tell needs a second invariant over it, `TellInv`: while the loop is at work its signal,
status and label agree (`SignalTells`), a stage that is awaited has its unit in flight or a record of it
(`FlightInv`), records and skips tell of a stop only where there was one (`StopStory`), a skip and an abort have their reasons (`SkipsTell`, `AbortedTell`), a conditional pass its
warning (`AcceptedTell`), and a stage that passed was judged on records that support it
(`PassedStageIsSound`). `AbortCascade` needs `CascadeInv`: a stage cut off, or behind one that was, is cut
off and counted among the aborted as long as the loop runs. That is only so when the graph has no
gap: `DependenciesDeclared` says that no stage names an unknown dependency, and
`PipelineRunGhost.cfg` shows a run of a pipeline that does.

### `WorkflowRunProofs`

| Theorem | Statement |
|---|---|
| `TypeCorrect` | every reachable state satisfies `TypeOK` |
| `Accounting` | `EveryPhaseAccounted`: each phase is in one place at a time, and a workflow that returns has recorded all of them |
| `FailureIsolation` | `FailureStopsDependents` |
| `PhasesRecorded` | `PhaseRecords`: the two above, and no more phases at work than `max_parallel` allows, with no worker idle while one waits |
| `NoStartAfterStop` | `NothingStartsAfterStop` |
| `StopIsNotThrown` | `StopNeverThrows`: the throw comes from a phase alone in its level that no stop reached |
| `StopIsKept` | `StopsHold`, the two above together |
| `CrashesStayBlocked` | `WarnNeverSoftensCrash` |
| `AbortedIsNoFailure` | `AbortedMeansNothingFailed` |
| `StoppedIsNoVerdict` | `StopIsNoVerdict` |
| `ShipIsVerified` | `ShipMeansVerified`: SHIP has one good record for every step of every phase the author did not skip |
| `VerdictIsTold` | `VerdictTells`, the four above together |
| `KeepsPromise` | `KeepsUnitContract`: what a pipeline assumes of a workflow it calls |
| `Refinement` | `KeepsSchedule`: the run implements `PhaseSchedule`, safety part |
| `PlaceholderTells` | what a rejection leaves behind tells of a stop only if the signal had fired, and is a crash when a deadline fired it |
| `ContainerTells` | a container tells of a stop, and of a crash, exactly if one of its children does |
| `VerdictIgnoresNesting` | crash decides: the verdict over records is the same whether they sit in one container or are spread over nested ones |

The last three are about the operators of `StopVerdict`, on which every run above the agent rests.

*Argument.* `IInv == TypeOK /\ EveryPhaseAccounted /\ WalkInv /\ FailureStopsDependents`,
where `WalkInv` says where the walk stands: what is empty between two levels, that the
phases of the level at work have all their dependencies recorded, that a workflow at work
passed the sort. That a returned workflow has recorded everything (`FinishRecorded`) is
where acyclicity is used: the unrecorded phases would all depend on an unrecorded one,
which the sort refuses. `StopIsNotThrown` needs that the level that throws has one phase,
and so that nothing else is in flight (`AloneInLevel`, from the cardinality of a finite
level). The bound on the workers is about a count: the first workers take the first phases of a level, as
many as there are workers, and that these are that many is shown by an injective rank of the phases
(`FirstPhasesSize`); after that a worker only replaces the phase it leaves.

The verdict theorems rest on two more invariants. `TellInv`: each recorded result tells of the stops
and crashes that its steps left, of a stop only when the signal has fired, and does not pass with a
crash inside. `ShipInv`: a phase without a result for each of its steps is excused, by its author's
`skip_if`, by a failed dependency or by a halt, and in the last two cases something is blocked or
aborted, so that the verdict is not SHIP.

### `CommandRunProofs`

| Theorem | Statement |
|---|---|
| `TypeCorrect` | every reachable state satisfies `TypeOK` |
| `Accounting` | `PanelAccounted`: who was dispatched has a record, and only a rejection shortens a panel |
| `WholePanel` | `PositiveMeansWholePanel` |
| `AbortedIsNoCrash` | `AbortedMeansNothingCrashed` |
| `ThrowIsNoStop` | `ThrowLosesNoStop` |
| `PanelIsTold` | `PanelTells`, the four above together |
| `EarlierCrashDecides` | `CrashBeforeStopDecides`, a property of two moments of a run |
| `Refinement` | `KeepsUnitContract`: the command implements `UnitContract`, safety part |
| `KeepsWord` | `CommandKeepsItsWord`, the two above together |
| `BetterIsNotWorse` | `BetterScoresNeverReadWorse`: raising agents' scores, their verdicts unchanged, never lowers the score or the verdict of the command, by any method, with any weights, for any number of agents |

*Argument.* `IInv == TypeOK /\ RecordsTell /\ PanelInv`. `RecordsTell` says what each record can
be: an unmarked answer, or the placeholder that its rejection and the signal of that moment call
for. `PanelInv` says which agents have been dispatched: all of them at once, or an initial
segment whose records all answered but perhaps the last. `EarlierCrashDecides` adds that a crash
record, once there, is never overwritten and decides whatever verdict is formed later.

`BetterIsNotWorse` needs no more of the run than `TypeOK`; its argument is about arithmetic. A weighted
sum over a set of agents grows with each of its terms (`SumMonotone`), because the weights that count are
positive (`SumIsPositive`: the code drops the others); a quotient by the same
positive weight, rounded, keeps the order (`RoundedMonotone`), and so do the smallest and the largest of
the scores (`ExtremesMonotone`); the band a score falls in rises with it. What is
left is the cap: a negative verdict holds the score under the warning threshold, and the agents that are
negative are the same on both sides.

### `ProviderCallsProofs`

| Theorem | Statement |
|---|---|
| `TypeCorrect` | every reachable state satisfies `TypeOK`; whatever `maxConcurrency` is, the limit is at least one |
| `Conservation` | `PermitsConserved` |
| `Refinement` | `KeepsLimiter`: the calls implement `CallLimiter` |
| `LimiterKept` | `LimiterIsKept`, the two above together |
| `RefusalStops` | `CreditRefusalStopsRun` |
| `OneStopper` | `OneStopperPerRun` |
| `Recorded` | `RecoveryRecorded` |
| `FailuresTold` | `FailuresAreTold`, the three above together |

*Argument.* `IInv` is the conjunction of `TypeOK`, the four state properties, `QueueInv` and `ErrorInv`.
`QueueInv` says that whoever is in the queue is `queued` and is there once, without which
handing over a permit could not be shown to let in a call from outside. `ErrorInv` says which
errors a call can be handling, and that a stop was seen by one whose answer missed its schema.
Steps are of three shapes: those that touch the limiter (`AcquireKeeps`, `ReleaseKeeps`), those of a
call that stays inside (`InnerKeeps`), for which counting is trivial, and those of the callers. The
calls are a finite set and their number is any.

### `StageProofs`

| Theorem | Statement |
|---|---|
| `TypeCorrect` | every reachable state of `StepsRun` satisfies `TypeOK` |
| `TimeBounded` | `StageTimeIsBounded`, for stages of any number of steps and any authored numbers |
| `ResultsTell` | `ResultsTellEffects` |
| `ValuesArrive` | `DeclaredValuesArrive` |
| `LoadTypeCorrect` | every reachable state of `PipelineLoad` satisfies `LoadTypeOK` |
| `ParserIsExact` | `ParserReadsTheGrammar`, for every text |
| `UnpassedNeverDecides` | `UnpassedOutputNeverDecides`, for every text and all results of steps |
| `AcceptedAreReadable` | `AcceptedConditionsAreReadable`, for every text, graph of stages and parameters |

*The steps.* `IInv == TypeOK /\ Shape /\ StageTimeIsBounded /\ TimeLeft /\ ResultsTellEffects /\
DeclaredValuesArrive`. The bound on time is not inductive where an attempt runs: `TimeLeft` says that
the attempt's own limit is still unspent. `Shape` says that the attempt is one the step has, which
is what the clamps of the authored numbers (`Clamped`) give, and that `hardFailed` remembers the failures
so far.

*The condition.* What makes these theorems hold is in three lemmas about operators. `ParserIsWell`: a
parse returns a tree whose references are exactly among those it met, in the order of the text, with all trees
in it, and these have ranks (`Ranked`): a subtree has a lower one. It follows the descent, one lemma for each
function of the parser, and by induction on the depth of groups and the rounds of a loop. Along the
ranks `evaluate` has one value for each tree (`ValuesExist`, `EvaluateUnfolds`). `ValuesPersist`: the three-valued
connectives are monotone, so a condition that has a value keeps it when a reference that had none gets
one; this is where a connective that took E for false would fail. `NoValueNoRead`: it has none only
if something it reads has none. `AncestorsAreBefore`: where no stage depends on itself or on a
later one, all that `ancestorsOf` reaches has been declared before.

*The parser.* `ParserIsExact` compares a descent that moves a cursor with a grammar that derives segments of a text.
The recursive functions of both unfold at every position (`FurtherUnfolds`, `ListsUnfold`,
`DerivationsUnfold`). A reference is read from left to right and derived as a list built from its end
(`ReferenceIsSound`, `ReferenceIsComplete`). For the rest, `ReadsAs` says of a function of the parser, a
nonterminal and a depth that what is read is derived, with the same tree (`OnlyDerived`), and that what is
derived is read (`AllDerived`). The second is true only of a derivation that nothing continues (`EndsThere`: the
parser takes the longest), with fewer "(" than the depth that is left. It is proved for chains of operators by their number
(`JoinedIsDerived`, `DerivedIsJoined`; `RoundsSettle`: enough rounds of the loop read them all) and for groups
by depth (`GroupReads`, `OrExprReads`, `DescentReads`). `ParserIsTheGrammar` puts them together for the whole text.

`LoadIInv == LoadTypeOK /\ Sound /\ Accepted` with two types carries them to the run. `Accepted` says that
stages end only behind a load that refused nothing, and that what the load refuses does not depend on what
has ended (`ReasonsAreStatic`): the checks were made once, before the first stage, and the conditions are read
one by one, long after. Assumed are the shape of definitions (`LoadedAssumption`) and that no parameter has the
value E, which is no string (`ParametersAssumption`).

### `GenerationStepsProofs`

| Theorem | Statement |
|---|---|
| `TypeCorrect` | every reachable state satisfies `TypeOK`, whatever counts are reported |
| `BrakesHold` | `BrakesAreSound`, provided `CountsAreNumbers` |
| `MarkersTold` | `MarkersTellTheRun`, provided `CountsAreNumbers` |
| `PricedOnce` | `TokensArePricedOnce`, provided `CountsAreWhole`: every input token reported is priced in one pool, and a bill that is passed on is the whole bill, for any number of turns on either path |

*Argument.* `Shape` and `Types` say which turns belong to the loop and that the totals count them.
`Measured` relates what the code keeps to the turns there were: the latch is the one that the counts so
far engage, although a turn without a count leaves it alone (`BrakesStand`); the tracker's window is the last
count (`WindowIsLast`); an eviction is remembered exactly when two counts in a row shrank
(`EvictionIsSeen`). The properties quantify over all turns, so an action that appends one must also
be shown to leave what was said of the others. `CountsAreNumbers` says that a provider reports a count as a
number or not at all. Without it `WindowIsLast` fails: that is the run `garbled_count`.

`PricedOnce` adds two invariants. `Summed` is about what was reported: no turn's count exceeds
the sum, and what is split is split in sum as well. `Totalled` says that `StepTotals` follows
the reports turn by turn: each of its fields is the sum of that field, and a pool is absent exactly
when no turn reported it. From them the two paths, the SDK's sum and the totals, hand `mapUsage` the same
numbers (`UsageIsPriced`, `ReturnIsPriced`), and since the metadata that the code falls back on are those of one
turn, they never exceed the input they are taken from. `CountsAreWhole` says what the
providers promise: the counts of one response are natural numbers or absent, and a provider either splits its input
into the three pools or reports what its cache did within it, one way in all of its responses. It
is what the code relies on when it subtracts (`AIProvider.mapUsage`) and does not check.

### `AgentRunProofs`

| Theorem | Statement |
|---|---|
| `TypeCorrect` | every reachable state satisfies `TypeOK` |
| `Prepared` | `RunsOnWhatItPrepared` |
| `ThinkingTold` | `ThinkingIsSound` |
| `LossIsTold` | `EvidenceLossIsMarked` |
| `VerdictGiven` | `VerdictIsTheAgents`: a positive verdict, and the score it comes with, is one the agent wrote, whatever the answer |

*Argument.* `IInv == Shape /\ AsksForOne /\ TellsOnce /\ EndTells /\ AnswerKeepsItsHalf /\
EvidenceLossIsMarked`. `AsksForOne` says that all that is asked for is asked of one model, before the
generation asks for it. `TellsOnce` ties how often a notice was given to what the executor
remembers, over any number of runs: that is where the memory that outlives a run matters. `EndTells` says
that the record kept of a run is that of its request. `VerdictGiven` goes through the ladder of
extractions rung by rung: a rung hands on an object of the text or its labelled lines or none, and the
last fence or the longest object that is picked is one there is, from `TextShape`.

### `ClientProofs`

| Theorem | Statement |
|---|---|
| `RegistryTypeCorrect` | every reachable state of `RegistrySpec` satisfies `RegistryTypeOK` |
| `AskedForIsGot` | `CallersGetWhatTheyAskFor`: a pinned caller gets what it pinned or an error; and the local file that an unpinned one gets, while nothing was edited, `list()` shows once and in its version, if it is in the open and its type is titled |
| `FallbackIsTold` | `FallbacksAreTold`: what falls short is marked, and each reason is warned of once |
| `ClearedIsForgotten` | `ClearForgets`: who resolves after a clear gets nothing that was cached before it, but for the calls it found in flight |
| `TrackingTypeCorrect` | every reachable state of `TrackingRun` satisfies `TypeOK` |
| `NamedRunIsItsOwn` | `ResultNamesItsRun`: the run a result names is the one its own caller saved, under the project it names |
| `LossIsTold` | `LossIsMarked`: what a save dropped is counted in its marker and in its tally |
| `SavedClaimsAreMeasured` | `SavedVerdictHasEvidence` |
| `PayloadFits` | `PayloadFitsTheWire`, for results and ceilings of any size, provided `PanelsFit` |

*The registry.* `RegistryIInv == WorldInv /\ CacheInv /\ CallsInv /\ WarnedInv /\ ClearForgets`.
A resolution is passed from a render to the cache, and from the cache to other calls, so what is said of an
answer has to hold of everything cached (`CacheInv`): it is marked where it falls short
(`SoundResolution`), and it answers its key (`Fits`). What makes it the file that `list()` would show is that
it is the first of its type and name, and a call that looks at a place must therefore
remember that it found nothing before it (`SearchesLocally`, `HoldsFile`). The scan reaches that file, since nothing
broken is before it and its name was not seen in the directory scanned first, and no other file is shown under
its name, since those of its type are titled as they are named; this is where a broken neighbour would make the theorem
false. It holds only until the first edit, which is all that the code promises. `ClearForgets` is inductive only with the set of calls
that were in flight when the cache was cleared: `CallOK` lets a call that is none of them date from the last clear.

*Saving.* `TrackingIInv == VarsInv /\ TallyInv /\ TrackerInv /\ RecordsInv`, and for each caller `CallInv
/\ ResultInv /\ PendingInv`. They say that what is in flight, in the tracker and on a caller's result is made
from that caller's own result (`made`), with a tally that began empty: that is where the tally
all callers share is shown not to mix them up, although its value is anyone's. `LossIsTold` and
`SavedClaimsAreMeasured` then are statements about one
submission (`LossInOne`), for a result of any size: rows are lists (`RowsAreCounted`), making record ids unique
keeps their number (`GuardKeepsAll`), the byte budget keeps no more than there is
(`BudgetKeepsSome`), and what the body lacks of the result is what the marker and the tally count.
`ceiling - 1` items and a marker fit only below a ceiling of at least two: `CeilingsAssumption`.

*What a save accepts.* `PayloadFits` is `OneIsAccepted` for every run in the tracker. Rows, recommendations and
summaries are repaired one by one, and each repair is shown to end within the bounds
(`RowsAreAccepted`, `RecommendationsAreAccepted`, `SummariesAreAccepted`); the marker takes the
place of a recommendation or adds one (`MarkedAreAccepted`). Record ids take an induction over the records
(`GuardedSoFar`): the keys given so far differ, none that was given to a renamed record is one of the first
occurrences, which are reserved, and no more keys are in use than there are records, twice. Two numbers have two
numerals (`DecimalsDiffer`), so two suffixes make two keys (`SuffixesDiffer`), whatever is cut off
before them; and of more suffixes than there are keys in use, one is free (`SuffixIsFree`, by the pigeonhole
principle). The body is under its limit unless nothing is left to drop (`BudgetFits`), and the marker that
is added after it was weighed weighs one (`MarkerIsLight`).

`PanelsFit` says that a command that is run and saved by itself has no more agents than a run may have. The code does not see
to it: `extractAgents` caps the rows of a workflow and of a pipeline, not those of a command, and a
panel of more than `MAX_RUN_AGENTS` agents would be sent whole. The definitions decide that, not the run.

### Only model-checked

Each `Termination`, and `EveryCallSettles`: liveness under fairness, which this prover has no rules for.
That the models reach what the theorems speak of (a panel that is stopped, a race for the cache, a
body that has to shed its records) is also TLC's to show: every action and every disjunct is taken in some run.

All safety properties of the runs are proved. So is `TypeOK` of `PipelineRun`, `WorkflowRun`,
`CommandRun`, `ProviderCalls`, `StepsRun`, `GenerationSteps` and `AgentRun`, which is why their runs do not
check it again.

## 4. Plan

Done: the runs of pipelines, workflows, commands and steps, the calls of a provider, the tool loop, the
agent's run, the registry's cache, what is saved of a run, and conditions, each checked and with its
proofs. What is worth doing next, in order of importance:

1. The model catalog: its caches, whose fetches overlap as the registry's do.
2. The composition of `StepsRun` and `PipelineLoad` with `PipelineRun`, which now takes their ends as
   choices: a contract of a stage between them, as `UnitContract` is one of a command.
3. Upstream context: which results a later stage is told of, and how a large one is cut.

## 5. Not modelled

* **Model catalog.** Its answers are inputs of `AgentRun` and `GenerationSteps`; its caches are in the
  plan.
* **Tools.** File and shell tools are I/O with local caps and share no state between calls; that a command
  overflows, is killed or cannot be spawned is an end of an attempt in `StepsRun`.
* **Analysis summaries.** A projection without state or control. Its output is an input of `Submission`.
* **Text.** Prompts, upstream context, wording, the formats of messages and tools on the wire, and
  spelling: conditions, decisions and ids are modelled as sequences of tokens, words and characters
  where a rule is about them.
* **Sums.** Roll-ups of metrics and scores above the agent; tokens and prices of one generation are
  modelled.
* **The SDK.** Its retries and its loop are external; `ProviderCalls` and `GenerationSteps` model
  them from how the code uses them.
* **Read-only calls** of the client and its services: `describe`, `getHistory`, `getRun`,
  `previewSubmission`.
* Scripts, starter definitions, examples, tests and docs.

What each component that is only partly modelled leaves out is said in its note in `PROJECT.json`.
