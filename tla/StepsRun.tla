------------------------------ MODULE StepsRun ------------------------------
(***************************************************************************)
(* A steps stage: shell steps run one after another, each with a time      *)
(* limit and retries (executor/StepsExecutor.ts), with the run's           *)
(* parameters handed to the shell as environment variables                 *)
(* (executor/stepTemplates.ts).                                            *)
(*                                                                         *)
(* Authored numbers are whatever YAML can say: an integer, or Unusable for *)
(* an absent value, a fraction, NaN and an infinity.  Time is counted in   *)
(* whole units.  Abstracted: the text of commands and outputs, of which    *)
(* only what the expectations of a step tell apart is kept.                *)
(***************************************************************************)
EXTENDS Integers, Sequences, FiniteSets

CONSTANTS
    Count,          \* how many steps the stage has
    Definitions,    \* the definitions a step may have
    Params,         \* the names of the parameters
    Target,         \* the parameter that names the run's target
    Variables,      \* the names of environment variables
    EnvName,        \* the variable each parameter is passed in
    Unusable,       \* an authored number that is no integer
    DEFAULT_STEP_TIMEOUT, MAX_STEP_RETRIES, MAX_RETRY_DELAY,
    LINGER          \* how long a command that ignores its signal is followed

ASSUME CountAssumption == Count \in Nat
ASSUME NamesAssumption ==
    /\ EnvName \in [Params -> Variables]
    /\ Params \intersect {"target", "fallback", "own", "unset"} = {}
ASSUME BoundsAssumption ==
    /\ DEFAULT_STEP_TIMEOUT \in Nat \ {0}
    /\ MAX_STEP_RETRIES \in Nat
    /\ MAX_RETRY_DELAY \in Nat
    /\ LINGER \in Nat
    /\ Unusable \notin Int

Authored == Int \union {Unusable}

\* What refuses a step before anything is launched.
Flaws == {"misplaced", "unresolved", "nul", "blockedEnv", "escapes", "missingDir"}

\* uses says how the command names each parameter, env which variables the
\* step's own environment sets; stubborn is a command that a SIGTERM does not end.
StepDefinition ==
    [flaw : Flaws \union {"none"},
     uses : [Params -> {"no", "plain", "fallback"}],
     env : SUBSET Variables,
     timeout : Authored, retries : Authored, retry_delay : Authored,
     continue_on_error : BOOLEAN, always_run : BOOLEAN, stubborn : BOOLEAN,
     expect_empty : BOOLEAN,
     expect_match : {"absent", "pattern", "unsafe", "invalid"}]

ASSUME DefinitionsAssumption == Definitions \subseteq StepDefinition

\* Where the value of a variable is from: a parameter of the caller, the path of the
\* run's target, the author's fallback for one, the step's own environment, or
\* nowhere in the stage.
Origins == Params \union {"target", "fallback", "own", "unset"}

\* How the process of an attempt ends.  Killed is signalled by its time limit.
Ends == {"exit0", "exitN", "killed", "signalled", "overflowed", "unspawned"}
Outputs == {"empty", "matching", "other"}

Statuses == {"passed", "failed", "skipped"}

VARIABLES
    steps,        \* the stage's steps
    declared,     \* the parameters that the pipeline's triggers declare
    given,        \* the parameters the caller gave a value
    pc,           \* "load", "next", "running", "retrying", "over" or "refused"
    results,      \* the results so far, in the order of the steps
    hardFailed,   \* a step failed and may not be passed over
    attempt,      \* the attempt of the current step
    environment,  \* where the variables of the last command launched are from
    launched,     \* how often the command of each step was launched
    succeeded,    \* how often it came to what the step asks of it
    elapsed       \* the time the steps took

vars == <<steps, declared, given, pc, results, hardFailed, attempt, environment, launched, succeeded,
          elapsed>>

-----------------------------------------------------------------------------
(***************************************************************************)
(* Authored bounds: an unusable one falls back, a usable one is clamped on *)
(* both sides, and the floor wins over a ceiling below it.                 *)
(***************************************************************************)
clampToRange(n, min, max) ==
    IF max < min THEN min
    ELSE IF n < min THEN min ELSE IF n > max THEN max ELSE n

\* (mistake: an integer is only held under its ceiling)
externalIntCeiling(value, min, max, fallback) ==
    IF value \in Int THEN IF value > max THEN max ELSE value
    ELSE clampToRange(fallback, min, max)
externalInt(value, min, max, fallback) ==
    clampToRange(IF value \in Int THEN value ELSE fallback, min, max)

\* The limit of an attempt: an authored one can only lower the default.
clampModelBound(supplied) ==
    externalInt(supplied, 1, DEFAULT_STEP_TIMEOUT, DEFAULT_STEP_TIMEOUT)

\* (mistake: the ceiling counts the first attempt too)
maxAttemptsCapped(d) == externalInt(d.retries, 0, MAX_STEP_RETRIES, 0)
maxAttempts(d) == 1 + externalInt(d.retries, 0, MAX_STEP_RETRIES, 0)
\* (mistake: a delay is taken as authored)
retryDelayAuthored(d) == IF d.retry_delay \in Int THEN d.retry_delay ELSE 0
retryDelay(d) == externalInt(d.retry_delay, 0, MAX_RETRY_DELAY, 0)

-----------------------------------------------------------------------------
(***************************************************************************)
(* Templates: each parameter that a command names travels in a variable of *)
(* its own, a missing one by its fallback or not at all.                   *)
(***************************************************************************)
\* Whatever the caller gave for it, target is the path of the run's target.
boundValue(p) ==
    IF p = Target THEN "target" ELSE IF p \in given THEN p ELSE "fallback"

resolves(d) ==
    /\ d.flaw # "unresolved"
    /\ \A p \in Params : d.uses[p] = "plain" => p \in given \union {Target}

\* Two declared parameters in one variable are refused when the pipeline loads.
collides == \E p, q \in declared : p # q /\ EnvName[p] = EnvName[q]

\* The variables of a command that resolves.  Where parameters share one, the
\* last of them in the command wins.
paramEnvs(d) ==
    {f \in [Variables -> Origins \ {"own"}] :
       \A v \in Variables :
         LET here == {p \in Params : d.uses[p] # "no" /\ EnvName[p] = v} IN
         IF here = {} THEN f[v] = "unset"
         ELSE \E p \in here : f[v] = boundValue(p)}

\* (mistake: the step's own variables are laid over the parameters')
overlayOwnLast(d, f) ==
    [v \in Variables |-> IF v \in d.env THEN "own" ELSE f[v]]
\* The parameters' variables are laid over the step's own.
overlay(d, f) ==
    [v \in Variables |-> IF f[v] = "unset" /\ v \in d.env THEN "own" ELSE f[v]]

\* A step is refused for its template, its environment or its directory; nothing
\* is launched then.
refused(d) == d.flaw # "none" \/ ~resolves(d)

-----------------------------------------------------------------------------
(***************************************************************************)
(* One attempt: the end of the process, and then the step's expectations   *)
(* of its output.  A pattern that may not run, or that does not compile,   *)
(* fails the attempt like one that does not match.                         *)
(***************************************************************************)
passes(d, end, output) ==
    /\ end = "exit0"
    /\ d.expect_empty => output = "empty"
    /\ \/ d.expect_match = "absent"
       \/ d.expect_match = "pattern" /\ output = "matching"

\* At its limit the command is sent a SIGTERM, and is waited for: one that ignores
\* the signal takes longer, and may still exit with 0.
takes(d, end, time) ==
    LET limit == clampModelBound(d.timeout)
    IN /\ time \in 0 .. limit + (IF d.stubborn THEN LINGER ELSE 0)
       /\ end = "killed" => time >= limit

current == Len(results) + 1
step == steps[current]

\* (mistake: a step that may fail sets it too)
hardFailAlways(d, status) == hardFailed \/ status = "failed"
hardFail(d, status) == hardFailed \/ (status = "failed" /\ ~d.continue_on_error)

record(status) ==
    /\ results' = Append(results, status)
    /\ hardFailed' = hardFail(step, status)
    /\ attempt' = 0
    /\ pc' = IF Len(results) + 1 = Count THEN "over" ELSE "next"

launch ==
    /\ \E f \in paramEnvs(step) : environment' = overlay(step, f)
    /\ launched' = [launched EXCEPT ![current] = @ + 1]
    /\ pc' = "running"

-----------------------------------------------------------------------------
Init ==
    /\ steps \in [1 .. Count -> Definitions]
    /\ declared \in SUBSET Params /\ given \in SUBSET Params
    /\ pc = "load" /\ results = <<>> /\ hardFailed = FALSE /\ attempt = 0
    /\ environment = [v \in Variables |-> "unset"]
    /\ launched = [s \in 1 .. Count |-> 0] /\ succeeded = launched
    /\ elapsed = 0

\* (mistake: a pipeline whose parameters share a variable is loaded)
checkedNever == TRUE
checked == ~collides

\* The load checks, before anything of the pipeline runs.
Load ==
    /\ pc = "load"
    /\ pc' = IF ~checked THEN "refused" ELSE IF Count = 0 THEN "over" ELSE "next"
    /\ UNCHANGED <<steps, declared, given, results, hardFailed, attempt, environment, launched,
                   succeeded, elapsed>>

\* After a hard failure only the steps that always run are left.
\* (mistake: cleanup steps are passed over as well)
skipsAll(d) == hardFailed
skips(d) == hardFailed /\ ~d.always_run

Skip ==
    /\ pc = "next" /\ skips(step)
    /\ record("skipped")
    /\ UNCHANGED <<steps, declared, given, environment, launched, succeeded, elapsed>>

Refuse ==
    /\ pc = "next" /\ ~skips(step) /\ refused(step)
    /\ record("failed")
    /\ UNCHANGED <<steps, declared, given, environment, launched, succeeded, elapsed>>

Launch ==
    /\ pc = "next" /\ ~skips(step) /\ ~refused(step)
    /\ launch
    /\ attempt' = 1
    /\ UNCHANGED <<steps, declared, given, results, hardFailed, succeeded, elapsed>>

\* (mistake: an attempt that passed is tried again while attempts are left)
settlesLate(d, status) == attempt = maxAttempts(d)
\* The step is over when an attempt passed, or when none is left.
settles(d, status) == status = "passed" \/ attempt >= maxAttempts(d)

\* The process of an attempt ends, by its limit if it heeds the signal.
End ==
    /\ pc = "running"
    /\ \E end \in Ends, output \in Outputs, time \in 0 .. DEFAULT_STEP_TIMEOUT + LINGER :
         LET status == IF passes(step, end, output) THEN "passed" ELSE "failed" IN
         /\ takes(step, end, time)
         /\ elapsed' = elapsed + time
         /\ succeeded' = [succeeded EXCEPT ![current] = IF status = "passed" THEN @ + 1 ELSE @]
         /\ \/ settles(step, status) /\ record(status)
            \/ ~settles(step, status) /\ pc' = "retrying"
               /\ UNCHANGED <<results, hardFailed, attempt>>
    /\ UNCHANGED <<steps, declared, given, environment, launched>>

Retry ==
    /\ pc = "retrying"
    /\ launch
    /\ attempt' = attempt + 1
    /\ elapsed' = elapsed + retryDelay(step)
    /\ UNCHANGED <<steps, declared, given, results, hardFailed, succeeded>>

Next == Load \/ Skip \/ Refuse \/ Launch \/ End \/ Retry

Spec == Init /\ [][Next]_vars

-----------------------------------------------------------------------------
(***************************************************************************)
(* Every variable has its type, and what is under way is a step that may   *)
(* run, in an attempt that it has left (runStep).                          *)
(***************************************************************************)
TypeOK ==
    /\ steps \in [1 .. Count -> Definitions]
    /\ declared \in SUBSET Params /\ given \in SUBSET Params
    /\ pc \in {"load", "next", "running", "retrying", "over", "refused"}
    /\ results \in Seq(Statuses) /\ Len(results) <= Count
    /\ pc \in {"next", "running", "retrying"} => Len(results) < Count
    /\ hardFailed \in BOOLEAN
    /\ attempt \in Nat
    /\ environment \in [Variables -> Origins]
    /\ launched \in [1 .. Count -> Nat] /\ succeeded \in [1 .. Count -> Nat]
    /\ elapsed \in Nat

StepBound == (1 + MAX_STEP_RETRIES) * DEFAULT_STEP_TIMEOUT
               + MAX_STEP_RETRIES * MAX_RETRY_DELAY

\* The time of the attempts a step may have had up to now.
spent(n) == IF n = 0 THEN 0 ELSE n * DEFAULT_STEP_TIMEOUT + (n - 1) * MAX_RETRY_DELAY

(***************************************************************************)
(* However its definitions are written, a stage whose commands end when    *)
(* they are signalled takes no longer than the limits of the executor      *)
(* allow its steps together: a retry, a delay or a limit that is authored  *)
(* as no number, as zero, as a negative or as a huge one lifts none of     *)
(* them (StepsExecutor.ts, clampModelBound, externalInt).  Nothing bounds  *)
(* a stage with a command that ignores the signal.                         *)
(***************************************************************************)
heedful == \A s \in 1 .. Count : ~steps[s].stubborn

StageTimeIsBounded ==
    heedful => elapsed <= Len(results) * StepBound + spent(attempt)

(***************************************************************************)
(* What a result says is what happened to the command: a passed step was   *)
(* launched and not again after it passed; a failed one was never launched *)
(* or had all of its attempts; a step was skipped only behind a failure    *)
(* that may not be passed over, never if it always runs, and was not       *)
(* launched (execute, runStep).                                            *)
(***************************************************************************)
hardFailedBefore(s) ==
    \E r \in 1 .. s - 1 : results[r] = "failed" /\ ~steps[r].continue_on_error

ResultsTellEffects ==
    \A s \in 1 .. Count :
        /\ s > current => launched[s] = 0
        /\ s = current => launched[s] = attempt /\ succeeded[s] = 0
        /\ s < current =>
             /\ results[s] = "passed" =>
                  launched[s] \in 1 .. maxAttempts(steps[s]) /\ succeeded[s] = 1
             /\ results[s] = "failed" =>
                  launched[s] \in {0, maxAttempts(steps[s])} /\ succeeded[s] = 0
             /\ results[s] = "skipped" => launched[s] = 0
             /\ results[s] = "skipped" <=> hardFailedBefore(s) /\ ~steps[s].always_run

(***************************************************************************)
(* A parameter that the pipeline declares reaches the command with the     *)
(* value the caller gave, and target with the path of the run's target     *)
(* whatever the caller gave: neither the step's own environment nor        *)
(* another declared parameter takes its variable (execute,                 *)
(* substituteStepTemplates, checkStepTemplateRules, attempt).              *)
(***************************************************************************)
DeclaredValuesArrive ==
    pc = "running" =>
        \A p \in declared \intersect (given \union {Target}) :
            /\ step.uses[p] # "no"
            /\ \A q \in Params \ declared : step.uses[q] = "no"
            => environment[EnvName[p]] = IF p = Target THEN "target" ELSE p

=============================================================================
