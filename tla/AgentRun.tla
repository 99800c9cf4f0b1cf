------------------------------ MODULE AgentRun ------------------------------
(***************************************************************************)
(* The runs of one AgentExecutor, one after the other: the context and its *)
(* budget, the tools, the generation, and the result built from its answer *)
(* with the markers of what it lost.  What the executor remembers from run *)
(* to run is which notices it has given.                                   *)
(*                                                                         *)
(* The provider's loop is GenerationSteps; here it answers or throws.      *)
(***************************************************************************)
EXTENDS AgentOutput, ThinkingGate

CONSTANTS
    Models,         \* what the catalog says of each model
    Clients,        \* the configurations of a client
    Definitions,    \* the agents it may run
    Options,        \* the options of a run
    Gates,          \* budgets and allowances a run may meet at the thinking gate
    Answers,        \* what a provider may return
    DEFAULT_MODEL,
    EXTRACTION_CONFIDENCE_THRESHOLD

\* What the builder of a request reports of its thinking.
Outcomes ==
    [applied : BOOLEAN, native : BOOLEAN, budget : {Absent}, wire : {Absent},
     reason : {Absent, "caller-native", "not-requested", "not-capable", "no-mapping",
               "invalid-budget"}]

ASSUME CatalogAssumption ==
    /\ DEFAULT_MODEL \in DOMAIN Models /\ None \notin DOMAIN Models
    /\ \A m \in DOMAIN Models : /\ Models[m].capable \in BOOLEAN
                               /\ Models[m].anthropic \in BOOLEAN
                               /\ Models[m].limit \in Int \cup {Absent}
    /\ \A c \in Clients : c.modelOverride \in DOMAIN Models \cup {None}
    /\ \A d \in Definitions : d.model \in DOMAIN Models \cup {None}
    /\ \A o \in Options : o.model \in DOMAIN Models \cup {None}
    /\ \A g \in Gates : {g.budget, g.maxTokens, g.callerMax} \subseteq Int \cup {Absent, Unusable}

\* A text as its parsers find it: the fences in order, and objects of some length.
TextShape(text) ==
    /\ text.fences \in Seq(Range(text.fences))
    /\ text.whole \notin {Broken, NoObject}
    /\ IsFiniteSet(text.inline)
    /\ \A c \in text.inline : c.length \in Nat /\ c.json \notin {None, Broken, NoObject}

ASSUME AnswersAssumption ==
    /\ EXTRACTION_CONFIDENCE_THRESHOLD \in Nat \ {0}
    /\ \A a \in Answers : /\ TextShape(a.text)
                          /\ a.repair # None /\ a.repair.dropped # {} => a.repair.outcome = "salvaged"

ASSUME ThresholdsAssumption ==
    \A o \in Options : o.thresholds # None => {o.thresholds.pass, o.thresholds.warn} \subseteq Int

ASSUME NothingAssumption ==
    /\ None \notin Outcomes /\ Absent \notin Outcomes
    /\ Absent \notin {"warn", "info", "env", "native"}

VARIABLES
    client,     \* the configuration
    noticed,    \* the executor's memory: the sticky levers, and "shell"
    pc,         \* "idle", "resolved", "ready", "sent" or "ended"
    run,        \* the definition and the options of this run
    asked,      \* the models asked for: "budget", "shell" and "generate"
    gate,       \* the request at the thinking gate, as it is built
    outcome,    \* what the builder did
    end,        \* a result, or an error
    told        \* how often each notice was a warning, and what became true

vars == <<client, noticed, pc, run, asked, gate, outcome, end, told>>

-----------------------------------------------------------------------------
(***************************************************************************)
(* The context.                                                            *)
(***************************************************************************)
orElse(n, default) == IF n = None THEN default ELSE n

contextModel ==
    orElse(run.options.model, orElse(run.definition.model,
        orElse(client.modelOverride, DEFAULT_MODEL)))
\* The client's override wins over the run's model: for the budget and the shell,
\* and in the generation.
\* (mistake: the context's model is taken as it is)
budgetModelInputOfContext == contextModel
budgetModelInput == orElse(client.modelOverride, contextModel)
modelInput == orElse(client.modelOverride, contextModel)

clientThinking == resolveThinkingMode(client.thinking, client.thinkingEnv)
decision == perRunThinking(run.options.thinking, clientThinking)

\* A list allows what it names, in any spelling; anything else but no list allows
\* nothing.
\* (mistake: no list allows every tool)
isToolAllowedByDefault(tool) == client.allowedTools = None \/ tool \in client.allowedTools
isToolAllowed(tool) ==
    IF client.allowedTools = None THEN tool # "bash" ELSE tool \in client.allowedTools

shellProviders == {"anthropic", "openai", "openrouter"}
offersShell ==
    /\ run.definition.declaresBash /\ isToolAllowed("bash")
    /\ Models[budgetModelInput].provider \in shellProviders
shellSchemaFallback == offersShell /\ Models[budgetModelInput].provider = "openrouter"

-----------------------------------------------------------------------------
(***************************************************************************)
(* The markers.                                                            *)
(***************************************************************************)
marker(code, severity) == [code |-> code, severity |-> severity]

lostFields(repair) == repair.dropped \ repair.carriedOver
\* (mistake: a field carried over is lost, and a field dropped is not)
repairMarkersSwapped(answer) ==
    IF answer.repair = None THEN {}
    ELSE {marker(answer.repair.outcome,
                 IF answer.repair.carriedOver # {} THEN "degraded" ELSE "info")}
repairMarkers(answer) ==
    IF answer.repair = None THEN {}
    ELSE {marker(answer.repair.outcome,
                 IF answer.repair.outcome = "salvaged" /\ lostFields(answer.repair) # {}
                 THEN "degraded" ELSE "info")}

degradedFacts == {"budget.forced-wrap-up", "steps.forced-wrap-up", "context.evicted"}
factMarkers(answer) ==
    {marker(f, IF f \in degradedFacts THEN "degraded" ELSE "info") : f \in answer.facts}

extractionMarkers(confidence) ==
    CASE confidence = 0 -> {marker("extraction.failed", "critical")}
      [] confidence > 0 /\ confidence < EXTRACTION_CONFIDENCE_THRESHOLD ->
           {marker("extraction.low-confidence", "degraded")}
      [] OTHER -> {}

collectExecutionMarkers(answer, confidence) ==
    factMarkers(answer) \cup repairMarkers(answer) \cup extractionMarkers(confidence)
    \cup (IF shellSchemaFallback THEN {marker("tools.shell-schema-fallback", "info")} ELSE {})
    \cup (IF answer.finish = "tool-calls" /\ ~answer.empty
          THEN {marker("steps.near-exhaustion", "degraded")} ELSE {})

deriveCompleteness(markers) ==
    CASE \E m \in markers : m.severity = "critical" -> "failed"
      [] (\E m \in markers : m.severity = "degraded")
           /\ ~\E m \in markers : m.severity = "critical" -> "partial"
      [] OTHER -> "complete"

\* The strings a resolution left behind, as markers; one nobody knows is degraded.
resolutionSeverity(degradation) ==
    CASE degradation = "empty-definition" -> "critical"
      [] degradation \in {"normalization-fallback", "runtime:live-rerender-fallback"} -> "info"
      [] OTHER -> "degraded"
resolutionMarkersFromLegacy(degradations) ==
    {marker(d, resolutionSeverity(d)) : d \in degradations}

-----------------------------------------------------------------------------
(***************************************************************************)
(* The result.                                                             *)
(***************************************************************************)
parseOutput(answer) ==
    IF answer.structured # None THEN extraction(answer.structured, 100)
    ELSE extractWithMetadata(answer.text)

readVerdict(answer) ==
    readAgentVerdict(parseOutput(answer).json, answer.structured # None, answer.text,
                     run.definition.vocabulary)

\* A threshold lowers the category of a verdict, and raises none.
\* (mistake: the thresholds decide)
capByThresholdsOnly(category, score, thresholds) ==
    CASE thresholds = None \/ score = None -> category
      [] thresholds # None /\ score # None ->
           IF score >= thresholds.pass THEN "positive"
           ELSE IF score >= thresholds.warn THEN "conditional" ELSE "negative"
capByThresholds(category, score, thresholds) ==
    IF thresholds = None \/ score = None \/ category \notin {"positive", "conditional"}
    THEN category
    ELSE CASE score < thresholds.warn -> "negative"
           [] score >= thresholds.warn /\ score < thresholds.pass -> "conditional"
           [] OTHER -> category

conditions(o) == buildRunConditions(decision, o, Models[budgetModelInput].byDefault)

buildResult(answer) ==
    LET verdict == readVerdict(answer)
        class == IF verdict.class = "absent" THEN "neutral" ELSE verdict.class
    IN [kind |-> "result", answer |-> answer, verdict |-> verdict,
        category |-> capByThresholds(class, verdict.score, run.options.thresholds),
        completeness |->
          deriveCompleteness(resolutionMarkersFromLegacy(run.definition.degradations)
              \cup collectExecutionMarkers(answer, parseOutput(answer).confidence)),
        conditions |-> conditions(outcome)]

\* The loop was cut while the model still called tools, and it said nothing.
\* (mistake: it is a result like any other)
exhaustsNever(answer) == FALSE
exhausts(answer) == answer.empty /\ answer.finish = "tool-calls"

-----------------------------------------------------------------------------
(***************************************************************************)
(* The run.                                                                *)
(***************************************************************************)
bump(n) == IF n < 2 THEN n + 1 ELSE n

\* The sticky lever that alone made the request carry thinking.
pulled(o) ==
    CASE o = Absent \/ ~o.applied -> {}
      [] o # Absent /\ o.applied /\ o.native -> IF decision.on THEN {} ELSE {"native"}
      [] OTHER -> {decision.source} \cap {"env"}

\* The line about thinking, once per run; a sticky lever is a warning once.
\* (mistake: a lever already told is told again)
warnsAgain(rc) == thinkingNotice(rc) = "warn"
warns(rc) ==
    thinkingNotice(rc) = "warn" /\ (stickyLever(rc) = Absent \/ stickyLever(rc) \notin noticed)
emitThinkingNotice(rc, o) ==
    LET lever == stickyLever(rc)
    IN /\ noticed' = IF thinkingNotice(rc) # Absent /\ lever # Absent
                     THEN noticed \cup {lever} ELSE noticed
       /\ told' = [told EXCEPT
            !.now = IF warns(rc) THEN "warn" ELSE "none",
            !.count = IF lever # Absent /\ warns(rc)
                      THEN [told.count EXCEPT ![lever] = bump(@)] ELSE @,
            !.happened = @ \cup pulled(o)]

\* The one catch: the record is complete, the error stays the one it was, and one
\* that takes no property carries none.
Throw(error, o, takesCarrier) ==
    LET rc == conditions(o)
    IN /\ end' = [kind |-> error, billed |-> error = "exhausted",
                  conditions |-> IF takesCarrier THEN rc ELSE None, told |-> rc]
       /\ emitThinkingNotice(rc, o)
       /\ pc' = "ended"
       /\ UNCHANGED <<client, run, asked, gate, outcome>>

Resolve ==
    /\ pc = "idle"
    /\ UNCHANGED <<client, noticed, gate, outcome, end, told>>
    /\ \E d \in Definitions, o \in Options : run' = [definition |-> d, options |-> o]
    /\ asked' = [budget |-> budgetModelInput', shell |-> None, generate |-> None]
    /\ pc' = "resolved"

\* The first shell this executor offers is a warning.
SetupTools ==
    /\ pc = "resolved"
    /\ asked' = [asked EXCEPT !.shell = IF offersShell THEN budgetModelInput ELSE None]
    /\ noticed' = IF offersShell THEN noticed \cup {"shell"} ELSE noticed
    /\ told' = IF ~offersShell THEN told
               ELSE [told EXCEPT
                 !.count = IF "shell" \notin noticed
                           THEN [told.count EXCEPT !["shell"] = bump(@)] ELSE @,
                 !.happened = @ \cup {"shell"}]
    /\ pc' = "ready"
    /\ UNCHANGED <<client, run, gate, outcome, end>>

\* Before the builder ran: the model, the provider or the message failed, perhaps
\* with an error nothing can be attached to.
FailsBefore ==
    /\ pc \in {"resolved", "ready"}
    /\ \E takesCarrier \in BOOLEAN : Throw("failed", Absent, takesCarrier)

\* The generation resolves its model, and the gate decides what the request carries.
Gate ==
    /\ pc = "ready"
    /\ asked' = [asked EXCEPT !.generate = modelInput]
    /\ \E numbers \in Gates :
         gate' = [requested |-> decision.on, model |-> Models[modelInput],
                  native |-> run.options.native, budget |-> numbers.budget,
                  maxTokens |-> numbers.maxTokens,
                  callerMax |-> IF Models[modelInput].provider = "openrouter"
                                THEN numbers.callerMax ELSE Absent]
    /\ LET plan == planThinking(gate')
       IN outcome' = [applied |-> plan.applied, reason |-> plan.reason,
                      native |-> plan.native, budget |-> Absent, wire |-> Absent]
    /\ pc' = "sent"
    /\ UNCHANGED <<client, noticed, run, end, told>>

FailsAfter ==
    /\ pc = "sent"
    /\ Throw("failed", outcome, TRUE)

\* The answer came, and what is done with it throws: the parser, or the caller's
\* logger.  The error carries nothing of the request.
FailsOnAnswer ==
    /\ pc = "sent"
    /\ \E takesCarrier \in BOOLEAN : Throw("unread", Absent, takesCarrier)

AnswerArrives ==
    /\ pc = "sent"
    /\ \E answer \in Answers :
         IF exhausts(answer) THEN Throw("exhausted", outcome, TRUE)
         ELSE /\ end' = buildResult(answer)
              /\ emitThinkingNotice(conditions(outcome), outcome)
              /\ pc' = "ended"
              /\ UNCHANGED <<client, run, asked, gate, outcome>>

\* Nothing of a run but its notices reaches the next.
\* (mistake: its outcome does)
resetSome ==
    /\ run' = None /\ asked' = None /\ gate' = None /\ outcome' = outcome /\ end' = end
reset == /\ run' = None /\ asked' = None /\ gate' = None /\ outcome' = None /\ end' = None
NextRun ==
    /\ pc = "ended"
    /\ pc' = "idle" /\ reset
    /\ told' = [told EXCEPT !.now = "none"]
    /\ UNCHANGED <<client, noticed>>

Init ==
    /\ client \in Clients
    /\ noticed = {} /\ pc = "idle" /\ run = None /\ asked = None /\ gate = None
    /\ outcome = None /\ end = None
    /\ told = [count |-> [l \in {"env", "native", "shell"} |-> 0],
               happened |-> {}, now |-> "none"]

Next ==
    \/ Resolve \/ SetupTools \/ FailsBefore \/ Gate
    \/ FailsAfter \/ FailsOnAnswer \/ AnswerArrives \/ NextRun

Spec == Init /\ [][Next]_vars

-----------------------------------------------------------------------------
(***************************************************************************)
(* Properties.                                                             *)
(***************************************************************************)
\* Types: a run that began has a definition and options, a request that was sent
\* has an outcome, and what was told is counted for each lever.
TypeOK ==
    /\ pc \in {"idle", "resolved", "ready", "sent", "ended"}
    /\ client \in Clients /\ noticed \subseteq {"env", "native", "shell"}
    /\ pc # "idle" => run \in [definition : Definitions, options : Options]
    /\ pc = "sent" => outcome \in Outcomes
    /\ told.count \in [{"env", "native", "shell"} -> 0..2]
    /\ told.happened \subseteq {"env", "native", "shell"}

saysOf(value) == IF value = None THEN "absent" ELSE classify(value, run.definition.vocabulary)
objectsOf(text) ==
    ({text.fences[i].body : i \in DOMAIN text.fences} \cup {text.whole}
     \cup {c.json : c \in text.inline}) \ {None, Broken, NoObject}
\* What the answer holds that carries a result, and its labelled lines.
envelopesOf(answer) ==
    IF answer.structured # None THEN {answer.structured}
    ELSE {j \in objectsOf(answer.text) : "result" \in DOMAIN j}
writtenAt(answer, field) ==
    UNION {{j[c][field] : c \in {"top", "result"} \cap DOMAIN j} : j \in envelopesOf(answer)}

\* A verdict and a score are ones the agent gave where the contract reads them:
\* in an envelope or on a line.  A line that judges is followed, or the conflict
\* is told; and under a threshold positive means the score reaches it
\* (agentVerdict.ts, capByThresholds).
VerdictIsTheAgents ==
    end # None /\ end.kind = "result" =>
        LET answer == end.answer  verdict == end.verdict
            line == saysOf(firstLine(answer.text.decisions))
            thresholds == run.options.thresholds
        IN /\ verdict.class \in verdicts =>
                verdict.class \in {saysOf(d) : d \in writtenAt(answer, "decision")} \cup {line}
           /\ line \in verdicts => /\ verdict.class \in verdicts
                                  /\ \/ verdict.class = line
                                     \/ "DECISION_CONFLICT" \in verdict.warnings
           /\ verdict.score # None =>
                verdict.score \in writtenAt(answer, "score") \cup {scoreLine(answer.text.scores)}
           /\ end.category = "positive" =>
                /\ verdict.class = "positive"
                /\ thresholds # None /\ verdict.score # None => verdict.score >= thresholds.pass

\* A result reads complete exactly when nothing of this was lost: no brake, eviction
\* or cut loop, no field that salvage dropped and nothing carried over, an extraction
\* that is trusted, and a definition that resolved whole; an answer that was never
\* given is no result (collectExecutionMarkers, MaxStepsExhaustedError).  A field that
\* the first answer had, and a repaired one has not, is no loss here: the code takes
\* an answer that passed the schema for the model's own.
EvidenceLossIsMarked ==
    end # None /\ end.kind = "result" =>
        LET answer == end.answer
            confidence == parseOutput(answer).confidence
            braked == answer.facts \cap {"budget.forced-wrap-up", "steps.forced-wrap-up",
                                        "context.evicted"} # {}
            dropped == answer.repair # None /\ ~(answer.repair.dropped \subseteq answer.repair.carriedOver)
            unresolved == ~(run.definition.degradations
                              \subseteq {"normalization-fallback", "runtime:live-rerender-fallback"})
        IN /\ ~(answer.empty /\ answer.finish = "tool-calls")
           /\ end.completeness = "complete" <=>
                ~braked /\ ~dropped /\ ~unresolved /\ answer.finish # "tool-calls"
                /\ confidence >= EXTRACTION_CONFIDENCE_THRESHOLD
           /\ end.completeness = "failed" <=>
                confidence = 0 \/ "empty-definition" \in run.definition.degradations

\* The generation runs on the model whose window bounds its budget and whose
\* provider its shell belongs to; and a shell needs the definition to declare it
\* and the operator to name it (executeInner, setupTools, isToolAllowed).
RunsOnWhatItPrepared ==
    asked # None =>
        /\ asked.generate # None => asked.generate = asked.budget
        /\ asked.shell # None =>
             /\ asked.shell = asked.budget
             /\ run.definition.declaresBash
             /\ client.allowedTools # None /\ "bash" \in client.allowedTools

\* The record of a run says whether its request carried thinking, however the run
\* ends but for an answer that could not be read: that record says nothing was
\* carried.  What a record says was asked for and not sent is a warning every time.
\* What the records say the environment turned on, and the shell, are one exactly
\* once per client; the caller's block at most once, since a run that asked for
\* thinking as well tells it without a warning, and it counts as told (execute,
\* emitThinkingNotice, setupTools).
ThinkingIsTold ==
    /\ end # None =>
         LET rc == IF end.kind = "result" THEN end.conditions ELSE end.told
             carried == outcome # None /\ outcome.applied
         IN /\ rc.applied <=> (carried /\ end.kind # "unread")
            /\ decision.on /\ ~rc.applied => told.now = "warn"
    /\ \A l \in {"env", "shell"} : told.count[l] = IF l \in told.happened THEN 1 ELSE 0
    /\ told.count["native"] <= 1

\* The answer keeps half of the allowance its caller gave (planThinking).
AnswerKeepsItsHalf == gate # None => KeepsItsHalf(gate)

\* Thinking is told where it happens, and leaves room for the answer.
ThinkingIsSound == ThinkingIsTold /\ AnswerKeepsItsHalf

=============================================================================
