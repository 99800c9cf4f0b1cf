--------------------------- MODULE GenerationSteps ---------------------------
(***************************************************************************)
(* The tool loop of one generation (AIProvider.executeGeneration): before  *)
(* each turn the two brakes decide whether the model keeps its tools,      *)
(* after it the counts the provider reported reach the budget tracker and  *)
(* the totals, and at the end they are priced, on the path of an answer    *)
(* and on the path of a failed structured answer.                          *)
(*                                                                         *)
(* A provider reports what it likes: every count may be missing (Absent)   *)
(* or unusable (Garbled).  Whether a failed answer is repaired is open     *)
(* here; ProviderCalls says it.                                            *)
(***************************************************************************)
EXTENDS Integers, Sequences, FiniteSetsExt, SequencesExt

CONSTANTS
    Absent,         \* no number was given
    Garbled,        \* a number was, and it is not finite or is negative
    Reports,        \* what a provider may report of a turn, by the shape it uses
    Windows,        \* the context windows of models
    Operators,      \* the budgets an operator or a library caller gives
    StepLimits,     \* the step limits they give
    Rates,          \* the price of a token of each pool
    DEFAULT_CONTEXT_BUDGET,
    DEFAULT_MAX_STEPS,
    MAX_STEPS_CEILING

ASSUME BoundsAssumption ==
    /\ DEFAULT_CONTEXT_BUDGET \in Nat \ {0}
    /\ DEFAULT_MAX_STEPS \in Nat \ {0} /\ MAX_STEPS_CEILING \in Nat \ {0}
    /\ \A shape \in DOMAIN Reports : \A r \in Reports[shape] :
         DOMAIN r = {"input", "output", "noCache", "read", "write", "meta", "billed"}
    /\ Absent \notin Int /\ Garbled \notin Int

VARIABLES
    options,    \* the budget and the limit of this call, and the provider's shape
    pc,         \* "running", "finished", "repairing" or "returned"
    turns,      \* the turns so far: the tools offered, calls made, counts reported
    latched,    \* the budget brake is engaged
    tracker,    \* the TokenBudgetTracker of the agent
    totals,     \* StepTotals
    result      \* what the call returns

vars == <<options, pc, turns, latched, tracker, totals, result>>

-----------------------------------------------------------------------------
(***************************************************************************)
(* Numbers from outside.                                                   *)
(***************************************************************************)
isCount(n) == n \in Nat
orElse(n, default) == IF n = Absent THEN default ELSE n
safeTokenCount(n) == IF isCount(n) THEN n ELSE 0
optionalTokenCount(n) == IF n = Absent THEN Absent ELSE safeTokenCount(n)
usableBudget(n) == IF n \in Nat \ {0} THEN n ELSE Absent

\* JavaScript addition: what is not a number makes the sum none.
plus(a, b) == IF isCount(a) /\ isCount(b) THEN a + b ELSE Garbled

deriveContextBudget(window, operator) ==
    CASE usableBudget(operator) # Absent /\ usableBudget(window) # Absent ->
           Min({operator, window})
      [] usableBudget(operator) # Absent /\ usableBudget(window) = Absent -> operator
      [] usableBudget(operator) = Absent /\ usableBudget(window) # Absent -> window
      [] OTHER -> DEFAULT_CONTEXT_BUDGET

maxSteps ==
    LET asked == orElse(options.limit, DEFAULT_MAX_STEPS)
        whole == IF asked \in Int THEN asked ELSE DEFAULT_MAX_STEPS
    IN Max({1, Min({whole, MAX_STEPS_CEILING})})

-----------------------------------------------------------------------------
(***************************************************************************)
(* The brakes.                                                             *)
(***************************************************************************)
\* (mistake: the fraction is rounded up)
wrapUpAtRoundedUp == Max({1, (maxSteps * 8 + 9) \div 10})
\* Tools go at four fifths of the limit; one step keeps them.
wrapUpAt == Max({1, (maxSteps * 8) \div 10})

\* (mistake: a turn that reported nothing is an empty window)
latchedNextZero(last) ==
    LET size == safeTokenCount(last.report.input)  budget == options.budget
    IN IF latched THEN size * 10 >= budget * 7 ELSE size * 10 >= budget * 8
\* The latch before a turn: on at 80 percent, off below 70, and held where the
\* last turn reported no count.
latchedNext(last) ==
    LET size == safeTokenCount(last.report.input)  budget == options.budget
    IN IF last.report.input = Absent THEN latched
       ELSE IF latched THEN size * 10 >= budget * 7
       ELSE size * 10 >= budget * 8

braked == usableBudget(options.budget) # Absent
brake == IF braked /\ turns # <<>> THEN latchedNext(Last(turns)) ELSE latched

\* The step limit outlasts the budget: once reached, no turn has tools.
offersTools == ~brake /\ Len(turns) < wrapUpAt

-----------------------------------------------------------------------------
(***************************************************************************)
(* The tracker and the totals.                                             *)
(***************************************************************************)
noTracker == [window |-> 0, output |-> 0, evicted |-> FALSE, evictedTokens |-> 0,
              forcedWrapUp |-> FALSE, brakeInert |-> FALSE]

evicts(was, input) == was > 0 /\ input > 0 /\ (was - input) * 20 > was

update(t, input, output) ==
    IF ~isCount(input) THEN t
    ELSE [t EXCEPT !.window = input,
                   !.output = @ + safeTokenCount(output),
                   !.evicted = @ \/ evicts(t.window, input),
                   !.evictedTokens = IF evicts(t.window, input) THEN @ + t.window - input ELSE @]

\* A turn without a count leaves the tracker as it was.
tracked(t, report) ==
    IF report.input = Absent THEN t
    ELSE update(t, safeTokenCount(report.input), safeTokenCount(report.output))

noTotals == [steps |-> 0, calls |-> 0, input |-> 0, output |-> 0, sawUsage |-> FALSE,
             noCache |-> Absent, read |-> Absent, write |-> Absent,
             meta |-> Absent, billed |-> 0, billedSteps |-> 0, stepWrapUp |-> Absent]

\* Each pool is present once a step reported it.
pool(sum, n) == IF n = Absent THEN sum ELSE orElse(sum, 0) + safeTokenCount(n)

\* (mistake: a turn that measured nothing is not counted)
addedMeasured(t, report, calls) ==
    IF report.input = Absent THEN t ELSE [t EXCEPT !.steps = @ + 1, !.calls = @ + calls]
added(t, report, calls) ==
    [t EXCEPT !.steps = @ + 1, !.calls = @ + calls,
              !.input = plus(@, orElse(report.input, 0)),
              !.output = plus(@, orElse(report.output, 0)),
              !.sawUsage = @ \/ report.input # Absent \/ report.output # Absent,
              !.noCache = pool(@, report.noCache),
              !.read = pool(@, report.read), !.write = pool(@, report.write),
              !.meta = IF report.meta # Absent THEN report.meta ELSE @,
              !.billed = IF report.billed # Absent THEN @ + report.billed ELSE @,
              !.billedSteps = IF report.billed # Absent THEN @ + 1 ELSE @]

-----------------------------------------------------------------------------
(***************************************************************************)
(* Pricing.                                                                *)
(***************************************************************************)
\* The provider tiers fill only what the standard fields leave open; a cached
\* input is the cache-served pool under its other name.
cacheServed(u, meta) ==
    CASE u.read # Absent -> safeTokenCount(u.read)
      [] u.read = Absent /\ meta # Absent -> orElse(optionalTokenCount(meta.cached), 0)
      [] OTHER -> 0
cacheCreated(u, meta) ==
    CASE u.write # Absent -> safeTokenCount(u.write)
      [] u.write = Absent /\ meta # Absent -> orElse(optionalTokenCount(meta.created), 0)
      [] OTHER -> 0

\* Input without what the cache served or took.
\* (mistake: only the served part is taken off)
uncachedServed(u, meta) ==
    IF u.noCache # Absent THEN safeTokenCount(u.noCache)
    ELSE Max({0, safeTokenCount(u.input) - cacheServed(u, meta)})
uncached(u, meta) ==
    IF u.noCache # Absent THEN safeTokenCount(u.noCache)
    ELSE Max({0, safeTokenCount(u.input) - cacheServed(u, meta) - cacheCreated(u, meta)})

mapUsage(u, meta) ==
    [input |-> uncached(u, meta), output |-> safeTokenCount(u.output),
     served |-> cacheServed(u, meta), created |-> cacheCreated(u, meta)]

\* A pool without a rate of its own costs what input costs.
computeCostUsd(usage) ==
    usage.input * Rates.input + usage.output * Rates.output
    + usage.served * orElse(Rates.read, Rates.input)
    + usage.created * orElse(Rates.write, Rates.input)

\* Whole or nothing.
billedUsdOf(steps, billedSteps, billed) ==
    IF steps > 0 /\ billedSteps = steps THEN billed ELSE Absent

\* The totals as a usage: a total nothing was reported of is none.
stepTotalsToUsage(t) ==
    [input |-> IF t.sawUsage THEN t.input ELSE Absent,
     output |-> IF t.sawUsage THEN t.output ELSE Absent,
     noCache |-> t.noCache, read |-> t.read, write |-> t.write]

\* The SDK's sum over the steps, and the metadata of the last of them.
total(numbers) ==
    LET sum[n \in 0..Len(numbers)] == IF n = 0 THEN 0 ELSE plus(sum[n - 1], numbers[n])
    IN sum[Len(numbers)]
sumOf(values) ==
    IF \A i \in DOMAIN values : values[i] = Absent THEN Absent
    ELSE total([i \in DOMAIN values |-> orElse(values[i], 0)])
reported(field) == [i \in DOMAIN turns |-> turns[i].report[field]]
totalUsage ==
    [input |-> sumOf(reported("input")), output |-> sumOf(reported("output")),
     noCache |-> sumOf(reported("noCache")), read |-> sumOf(reported("read")),
     write |-> sumOf(reported("write"))]

priced(usage, cost, billed, finishReason, path) ==
    [usage |-> usage, cost |-> cost, billed |-> billed, steps |-> totals.steps,
     calls |-> totals.calls, stepWrapUp |-> totals.stepWrapUp,
     finishReason |-> finishReason, path |-> path]

billedTurns == {i \in DOMAIN turns : turns[i].report.billed # Absent}
buildGenerateResult ==
    LET usage == mapUsage(totalUsage, Last(turns).report.meta)
    IN priced(usage, computeCostUsd(usage),
              billedUsdOf(Len(turns), Cardinality(billedTurns),
                          total([i \in DOMAIN turns |-> orElse(turns[i].report.billed, 0)])),
              Last(turns).finish, "answer")

buildFallbackResult(finishReason) ==
    LET usage == mapUsage(stepTotalsToUsage(totals), totals.meta)
    IN priced(usage, IF totals.sawUsage THEN computeCostUsd(usage) ELSE Absent,
              billedUsdOf(totals.steps, totals.billedSteps, totals.billed),
              finishReason, "fallback")

-----------------------------------------------------------------------------
(***************************************************************************)
(* The loop.                                                               *)
(***************************************************************************)
stepLimit == maxSteps + IF options.structured THEN 2 ELSE 0

\* A model without tools may still call one it remembers.
Turn ==
    /\ pc = "running"
    /\ \E report \in Reports[options.shape], calls \in 0..1 :
         LET again == calls > 0 /\ Len(turns) + 1 < stepLimit
             wrapsUp == Len(turns) >= wrapUpAt /\ totals.stepWrapUp = Absent
             grown == added(totals, report, calls)
         IN /\ turns' = Append(turns, [part |-> "loop", report |-> report, tools |-> offersTools,
                                       finish |-> IF calls > 0 THEN "tool-calls" ELSE "stop"])
            /\ latched' = brake
            /\ tracker' = tracked([tracker EXCEPT !.forcedWrapUp =
                                     IF braked THEN brake ELSE @], report)
            /\ totals' = IF wrapsUp THEN [grown EXCEPT !.stepWrapUp = Len(turns)] ELSE grown
            /\ pc' = IF again THEN "running" ELSE "finished"
    /\ UNCHANGED <<options, result>>

\* The answer is whole, or was not asked to have a structure.
Answers ==
    /\ pc = "finished"
    /\ result' = buildGenerateResult
    /\ pc' = "returned"
    /\ UNCHANGED <<options, turns, latched, tracker, totals>>

\* The structured answer failed, and there is no repair.
FallsBack ==
    /\ pc = "finished" /\ options.structured
    /\ result' = buildFallbackResult(Last(turns).finish)
    /\ pc' = "returned"
    /\ UNCHANGED <<options, turns, latched, tracker, totals>>

\* One repair turn, without tools and without the tracker: its window is not
\* the next of this one.
\* (mistake: the tracker takes the repair's window for the run's)
repairTracked(report) == tracked(tracker, report)
repairTracker(report) == tracker
Repairs ==
    /\ pc = "finished" /\ options.structured
    /\ \E report \in Reports[options.shape] :
         /\ totals' = added(totals, report, 0)
         /\ turns' = Append(turns, [part |-> "repair", report |-> report,
                                  tools |-> FALSE, finish |-> "stop"])
         /\ tracker' = repairTracker(report)
    /\ pc' = "repairing"
    /\ UNCHANGED <<options, latched, result>>
RepairReturns ==
    /\ pc = "repairing"
    /\ result' = buildFallbackResult("stop")
    /\ pc' = "returned"
    /\ UNCHANGED <<options, turns, latched, tracker, totals>>

\* An agent derives its budget; a library caller passes one as it is, or none.
Init ==
    /\ \E window \in Windows, operator \in Operators, limit \in StepLimits,
          structured \in BOOLEAN, shape \in DOMAIN Reports :
         \E budget \in {operator, deriveContextBudget(window, operator)} :
           /\ options = [budget |-> budget, limit |-> limit,
                         structured |-> structured, shape |-> shape]
           /\ tracker = [noTracker EXCEPT !.brakeInert =
                           budget # Absent /\ usableBudget(budget) = Absent]
    /\ pc = "running" /\ turns = <<>> /\ latched = FALSE
    /\ totals = noTotals /\ result = Absent

Next == Turn \/ Answers \/ FallsBack \/ Repairs \/ RepairReturns

\* A provider answers or times out, so a turn ends.
Spec == Init /\ [][Next]_vars /\ WF_vars(Next)

-----------------------------------------------------------------------------
(***************************************************************************)
(* Properties.                                                             *)
(***************************************************************************)
\* Types: the latch needs a budget, the totals count every turn, and only a call
\* that returned has a result.
TypeOK ==
    /\ pc \in {"running", "finished", "repairing", "returned"}
    /\ latched \in BOOLEAN /\ (latched => braked)
    /\ tracker.window \in Nat /\ tracker.output \in Nat /\ tracker.evictedTokens \in Nat
    /\ totals.steps = Len(turns) /\ totals.billedSteps \in 0..Len(turns)
    /\ pc # "returned" => result = Absent

loop == {i \in DOMAIN turns : turns[i].part = "loop"}
counted(n) == {i \in 1..n : turns[i].report.input # Absent}
count(i) == turns[i].report.input
\* Engaged after turn n: some count was 80 percent, and none since under 70.
engaged(n) ==
    /\ braked
    /\ \E i \in counted(n) :
         /\ count(i) * 10 >= options.budget * 8
         /\ \A j \in counted(n) : j > i => count(j) * 10 >= options.budget * 7

\* A turn has tools unless the window the provider last measured, and those
\* before it, hold the budget brake, or the step limit is near; a turn that
\* measured nothing changes neither (buildBudgetPrepareStep, prepareStep).
BrakesFollowTheWindow ==
    \A i \in loop : turns[i].tools <=> ~engaged(i - 1) /\ i <= wrapUpAt

\* What the run reports of itself is what its turns show: a forced wrap-up when
\* the brake held the last turn, an eviction when two measurements in a row
\* shrank by more than a twentieth, a step wrap-up when a turn came that late,
\* and never because of the repair turn (TokenBudgetTracker, StepTotals).
MarkersTellTheRun ==
    turns # <<>> =>
        LET last == Max(loop)
            shrank(i, j) ==
                /\ i < j /\ \A k \in counted(last) : ~(i < k /\ k < j)
                /\ count(j) > 0 /\ (count(i) - count(j)) * 20 > count(i)
        IN /\ tracker.forcedWrapUp <=> engaged(last - 1)
           /\ tracker.evicted <=> \E i, j \in counted(last) : shrank(i, j)
           /\ totals.stepWrapUp # Absent <=> last > wrapUpAt

\* The step limit never cuts off a run that was not asked for its answer: one that
\* ends in a tool call had a turn without tools, unless its limit is a single
\* step (STEP_WRAP_UP_FRACTION, stopWhen).
AnswerTurnIsLeft ==
    pc = "finished" /\ Last(turns).finish = "tool-calls" /\ maxSteps > 1
        => \E i \in loop : ~turns[i].tools

\* The brakes follow the window and the step limit, and leave a turn to answer in.
BrakesAreSound == BrakesFollowTheWindow /\ AnswerTurnIsLeft

reportedSum(field) == total([i \in DOMAIN turns |-> safeTokenCount(turns[i].report[field])])
\* On either path, with a repair or without, every input token the provider
\* reported is priced in exactly one pool, and a billed amount is the whole bill
\* (mapUsage, stepTotalsToUsage, billedUsdOf).
TokensArePricedOnce ==
    result # Absent =>
        /\ result.usage.input + result.usage.served + result.usage.created
             = reportedSum("input")
        /\ result.usage.output = reportedSum("output")
        /\ result.billed # Absent => /\ billedTurns = DOMAIN turns
                                     /\ result.billed = reportedSum("billed")

\* A count that is no number is dropped, and the window stays what was last
\* measured (TokenBudgetTracker.update).
UnusableCountsAreDropped ==
    LET usable == {i \in loop : isCount(count(i))}
    IN tracker.window = IF usable = {} THEN 0 ELSE count(Max(usable))

=============================================================================
