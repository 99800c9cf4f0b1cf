--------------------------- MODULE AgentRunProofs ---------------------------
(***************************************************************************)
(* Proofs about AgentRun: for every catalog, client, agent, run and answer *)
(* a generation runs on what was prepared for it, what is said of its      *)
(* thinking is what was sent, and its verdict is the one its answer gives. *)
(***************************************************************************)
EXTENDS AgentRun, SequenceTheorems, FiniteSetTheorems, WellFoundedInduction, TLAPS

Levers == {"env", "native", "shell"}
begun == {"resolved", "ready", "sent", "ended"}
sendsOwn(plan) == plan.applied /\ ~plan.native

\* Where a run stands.  A request carries thinking of its own only when somebody
\* asked for it.
Shape ==
    /\ pc \in {"idle"} \cup begun
    /\ client \in Clients
    /\ pc \in begun => run \in [definition : Definitions, options : Options]
    /\ pc \in {"idle", "resolved", "ready"} => outcome = None
    /\ pc # "ended" => end = None
    /\ pc = "sent" => outcome \in Outcomes /\ (sendsOwn(outcome) => decision.on)

\* A run asks for its tools where it asks for its budget.
AsksForOne ==
    /\ pc = "idle" => asked = None
    /\ pc \in begun =>
         /\ asked = [budget |-> budgetModelInput, shell |-> asked.shell,
                     generate |-> asked.generate]
         /\ asked.generate \in {None, budgetModelInput}
         /\ asked.shell # None =>
              /\ asked.shell = budgetModelInput
              /\ run.definition.declaresBash
              /\ client.allowedTools # None /\ "bash" \in client.allowedTools

\* What was told is what the executor remembers of it.
TellsOnce ==
    /\ noticed \in SUBSET Levers
    /\ told \in [count : [Levers -> Nat], happened : SUBSET Levers, now : {"none", "warn"}]
    /\ \A l \in {"env", "shell"} : l \in noticed <=> l \in told.happened
    /\ \A l \in {"env", "shell"} : told.count[l] = IF l \in told.happened THEN 1 ELSE 0
    /\ told.count["native"] = 0 \/ (told.count["native"] = 1 /\ "native" \in noticed)

\* The record of a run that ended says what was sent, unless its answer could not be
\* read.
EndTells ==
    end # None =>
        LET rc == IF end.kind = "result" THEN end.conditions ELSE end.told
            carried == outcome # None /\ outcome.applied
        IN /\ rc.applied <=> (carried /\ end.kind # "unread")
           /\ decision.on /\ ~rc.applied => told.now = "warn"

\* A result says what its answer says, and what was lost.
ResultTells == EvidenceLossIsMarked /\ VerdictIsTheAgents

IInv ==
    Shape /\ AsksForOne /\ TellsOnce /\ EndTells /\ AnswerKeepsItsHalf /\ ResultTells

-----------------------------------------------------------------------------
(* The gate. *)

\* A request as the gate meets it: only OpenRouter's callers give a limit of their own.
Numbered(req) ==
    /\ req.requested \in BOOLEAN
    /\ req.model.capable \in BOOLEAN /\ req.model.anthropic \in BOOLEAN
    /\ req.model.limit \in Int \cup {Absent}
    /\ req.budget \in Int \cup {Absent, Unusable}
    /\ req.maxTokens \in Int \cup {Absent, Unusable}
    /\ req.callerMax \in Int \cup {Absent, Unusable}
    /\ req.callerMax # Absent => req.model.provider = "openrouter"

Reported(plan) ==
    /\ plan.applied \in BOOLEAN /\ plan.native \in BOOLEAN
    /\ plan.reason \in {Absent, "caller-native", "not-requested", "not-capable", "no-mapping",
                        "invalid-budget"}

\* What the gate decides is an outcome, and thinking that the caller did not
\* write is only sent when asked for.
LEMMA PlanIsAnOutcome ==
  ASSUME NEW req, req.requested \in BOOLEAN, req.model.capable \in BOOLEAN
  PROVE  Reported(planThinking(req)) /\ (sendsOwn(planThinking(req)) => req.requested)
  <1>1. ASSUME NEW whole, NEW room, NEW wire
        PROVE  Reported(byBudget(whole, room, wire))
    BY DEF byBudget, refuse, Reported
  <1>2. Reported(refuse("invalid-budget")) /\ Reported(refuse("no-mapping")) /\ Reported(byEffort)
    BY DEF refuse, byEffort, Reported
  <1>3. CASE req.native # "none"
    BY <1>3 DEF planThinking, asNative, Reported, sendsOwn
  <1>4. CASE req.native = "none" /\ ~req.requested
    BY <1>4 DEF planThinking, refuse, Reported, sendsOwn
  <1>5. CASE req.native = "none" /\ req.requested /\ ~req.model.capable
    BY <1>5 DEF planThinking, refuse, Reported, sendsOwn
  <1>6. CASE req.native = "none" /\ req.requested /\ req.model.capable
    <2>1. \/ planThinking(req) = refuse("no-mapping") \/ planThinking(req) = byEffort
          \/ planThinking(req) = planBudget(req)
      BY <1>6 DEF planThinking
    <2>2. \/ planBudget(req) = refuse("invalid-budget") \/ planBudget(req) = planGoogle(req)
          \/ planBudget(req) = planCapped(req) \/ planBudget(req) = planRaised(req)
      BY DEF planBudget
    <2>3. Reported(planGoogle(req)) /\ Reported(planRaised(req))
      BY <1>1 DEF planGoogle, planRaised
    <2>4. Reported(planCapped(req))
      BY <1>1, <1>2 DEF planCapped
    <2> QED
      BY <1>2, <1>6, <2>1, <2>2, <2>3, <2>4
  <1> QED
    BY <1>3, <1>4, <1>5, <1>6

\* A budget of at most room, when there is one.
LEMMA BudgetWithinRoom ==
  ASSUME NEW whole \in Int, NEW room \in Int, NEW wire
  PROVE  LET plan == byBudget(whole, room, wire)
         IN plan.budget # Absent =>
              /\ plan.budget \in Int /\ plan.applied /\ plan.wire = wire
              /\ plan.budget >= MIN_THINKING_BUDGET
              /\ plan.budget <= whole /\ plan.budget <= room
  BY TokensAssumption DEF byBudget, refuse, least

\* What the plan of a request with its own budget sends.
LEMMA HalfIsKept ==
  ASSUME NEW req, Numbered(req)
  PROVE  KeepsItsHalf(req)
  <1> DEFINE plan == planThinking(req)
  <1> SUFFICES ASSUME plan.budget # Absent
               PROVE  /\ plan.applied /\ plan.budget >= MIN_THINKING_BUDGET
                      /\ plan.budget <= req.budget
                      /\ req.maxTokens # Unusable =>
                           /\ usable(wireMax(req, plan))
                           /\ 2 * (wireMax(req, plan) - plan.budget) >= callersAllowance(req)
                           /\ req.model.limit # Absent
                                /\ wireMax(req, plan) > callersAllowance(req)
                                => wireMax(req, plan) <= req.model.limit
    BY DEF KeepsItsHalf
  <1>1. maxTokens(req) \in Nat \ {0}
    BY TokensAssumption DEF maxTokens, usable, Numbered
  <1>2. plan = planBudget(req)
    BY DEF planThinking, asNative, refuse, byEffort, Numbered
  <1>3. usable(req.budget) /\ req.budget \in Int
    BY <1>2 DEF planBudget, refuse, usable
  <1>4. CASE req.model.provider = "google"
    <2>1. plan = byBudget(req.budget, maxTokens(req) \div 2, Absent)
      BY <1>2, <1>3, <1>4 DEF planBudget, planGoogle
    <2>2. /\ plan.budget \in Int /\ plan.applied /\ plan.wire = Absent
          /\ plan.budget >= MIN_THINKING_BUDGET /\ plan.budget <= req.budget
          /\ plan.budget <= maxTokens(req) \div 2
      BY <2>1, <1>1, <1>3, BudgetWithinRoom
    <2>3. callersAllowance(req) = maxTokens(req)
      BY <1>4 DEF callersAllowance
    <2>4. req.maxTokens # Unusable => wireMax(req, plan) = maxTokens(req)
      BY <1>4, <2>2 DEF wireMax
    <2> QED
      BY <1>1, <2>2, <2>3, <2>4 DEF usable
  <1>5. CASE req.model.provider # "google" /\ req.callerMax # Absent
    <2>1. req.model.provider = "openrouter" /\ plan = planCapped(req)
      BY <1>2, <1>3, <1>5 DEF planBudget, Numbered
    <2>2. usable(req.callerMax)
      BY <2>1 DEF planCapped, refuse
    <2>3. plan = byBudget(req.budget, req.callerMax - halfUp(req.callerMax), Absent)
      BY <2>1, <2>2 DEF planCapped
    <2>4. /\ plan.budget \in Int /\ plan.applied
          /\ plan.budget >= MIN_THINKING_BUDGET /\ plan.budget <= req.budget
          /\ plan.budget <= req.callerMax - halfUp(req.callerMax)
      BY <2>2, <2>3, <1>3, BudgetWithinRoom DEF usable, halfUp
    <2>5. callersAllowance(req) = req.callerMax /\ wireMax(req, plan) = req.callerMax
      BY <1>5, <2>1 DEF callersAllowance, wireMax
    <2> QED
      BY <2>2, <2>4, <2>5 DEF usable, halfUp
  <1>6. CASE req.model.provider # "google" /\ req.callerMax = Absent
    <2>1. plan = byBudget(req.budget, raisedWire(req) - halfUp(maxTokens(req)), raisedWire(req))
      BY <1>2, <1>3, <1>6 DEF planBudget, planRaised
    <2>2. /\ raisedWire(req) \in Int
          /\ req.model.limit # Absent /\ raisedWire(req) > maxTokens(req)
               => raisedWire(req) <= req.model.limit
      BY <1>1, <1>3 DEF raisedWire, least, Numbered
    <2>3. /\ plan.budget \in Int /\ plan.applied /\ plan.wire = raisedWire(req)
          /\ plan.budget >= MIN_THINKING_BUDGET /\ plan.budget <= req.budget
          /\ plan.budget <= raisedWire(req) - halfUp(maxTokens(req))
      BY <1>1, <1>3, <2>1, <2>2, BudgetWithinRoom DEF halfUp
    <2>4. callersAllowance(req) = maxTokens(req)
      BY <1>6 DEF callersAllowance
    <2>5. req.maxTokens # Unusable => wireMax(req, plan) = raisedWire(req)
      BY <1>6, <2>2, <2>3, TokensAssumption DEF wireMax
    <2> QED
      BY <1>1, <2>2, <2>3, <2>4, <2>5, TokensAssumption DEF usable, halfUp
  <1> QED
    BY <1>4, <1>5, <1>6

-----------------------------------------------------------------------------
(* The context. *)

\* Whatever the layers hold, a run asks for thinking or it does not.
LEMMA DecisionIsBoolean == decision.on \in BOOLEAN
  BY DEF decision, clientThinking, perRunThinking, resolveThinkingMode

\* A generation asks for a model of the catalog, the one its budget was taken from.
LEMMA ModelIsKnown ==
  ASSUME Shape, pc \in begun
  PROVE  modelInput \in DOMAIN Models /\ modelInput = budgetModelInput
  <1>1. run.definition \in Definitions /\ run.options \in Options /\ client \in Clients
    BY DEF Shape
  <1>2. contextModel \in DOMAIN Models
    BY <1>1, CatalogAssumption DEF contextModel, orElse
  <1> QED
    BY <1>1, <1>2, CatalogAssumption DEF modelInput, budgetModelInput, orElse

\* Who asks, and where, reads the client and the run and nothing else.
LEMMA ContextIsKept ==
  ASSUME client' = client, run' = run
  PROVE  /\ decision' = decision /\ budgetModelInput' = budgetModelInput
         /\ modelInput' = modelInput /\ offersShell' = offersShell
  BY DEF decision, clientThinking, budgetModelInput, modelInput, contextModel, offersShell,
         isToolAllowed, orElse

-----------------------------------------------------------------------------
(* The notice. *)

\* What the record of a run says, and the line it is told by.
LEMMA NoticeTells ==
  ASSUME NEW o, o = Absent \/ (o \in Outcomes /\ (sendsOwn(o) => decision.on)),
         NEW rc, rc = conditions(o)
  PROVE  /\ rc.requested = decision.on
         /\ rc.applied <=> o # Absent /\ o.applied
         /\ decision.on /\ ~rc.applied => thinkingNotice(rc) = "warn" /\ stickyLever(rc) = Absent
         /\ stickyLever(rc) \in {Absent, "env", "native"}
         /\ thinkingNotice(rc) \in {Absent, "warn", "info"}
         /\ "env" \in pulled(o) <=> stickyLever(rc) = "env"
         /\ stickyLever(rc) = "env" => thinkingNotice(rc) = "warn"
         /\ pulled(o) \subseteq {"env", "native"}
  <1>1. decision.on \in BOOLEAN
    BY DecisionIsBoolean
  <1>2. /\ rc.requested = decision.on
        /\ rc.source = IF outcomeOf(decision, o).native /\ outcomeOf(decision, o).applied
                       THEN "native" ELSE decision.source
        /\ rc.applied = outcomeOf(decision, o).applied
    BY DEF conditions, buildRunConditions
  <1>3. CASE o = Absent
    <2>1. rc.applied = FALSE /\ rc.source = decision.source
      BY <1>2, <1>3 DEF outcomeOf, refuse
    <2>2. stickyLever(rc) = Absent /\ pulled(o) = {}
      BY <1>3, <2>1 DEF stickyLever, pulled
    <2>3. thinkingNotice(rc) \in {Absent, "warn"} /\ (decision.on => thinkingNotice(rc) = "warn")
      BY <1>1, <1>2, <2>1 DEF thinkingNotice
    <2> QED
      BY <1>2, <1>3, <2>1, <2>2, <2>3, NothingAssumption
  <1>4. CASE o # Absent /\ o \in Outcomes /\ (sendsOwn(o) => decision.on)
    <2>1. o.applied \in BOOLEAN /\ o.native \in BOOLEAN
      BY <1>4 DEF Outcomes
    <2>2. /\ rc.applied = o.applied
          /\ rc.source = IF o.native /\ o.applied THEN "native" ELSE decision.source
      BY <1>2, <1>4 DEF outcomeOf
    <2>3. stickyLever(rc) \in {Absent, "env", "native"} /\ pulled(o) \subseteq {"env", "native"}
      BY <1>4, <2>1 DEF stickyLever, pulled
    <2>4. thinkingNotice(rc) \in {Absent, "warn", "info"}
      BY <1>1, <1>2, <2>1, <2>2 DEF thinkingNotice
    <2>5. decision.on /\ ~rc.applied => thinkingNotice(rc) = "warn" /\ stickyLever(rc) = Absent
      BY <1>1, <1>2, <2>1, <2>2 DEF thinkingNotice, stickyLever
    <2>6. "env" \in pulled(o) <=> stickyLever(rc) = "env"
      <3>1. CASE ~o.applied
        BY <1>4, <2>2, <3>1, NothingAssumption DEF pulled, stickyLever
      <3>2. CASE o.applied /\ o.native
        BY <1>4, <2>2, <3>2, NothingAssumption DEF pulled, stickyLever
      <3>3. CASE o.applied /\ ~o.native
        BY <1>4, <2>2, <3>3, NothingAssumption DEF pulled, stickyLever
      <3> QED
        BY <2>1, <3>1, <3>2, <3>3
    <2>7. ASSUME stickyLever(rc) = "env"  PROVE thinkingNotice(rc) = "warn"
      <3>1. o.applied /\ rc.source = "env"
        BY <2>1, <2>2, <2>7, NothingAssumption DEF stickyLever
      <3>2. ~o.native
        BY <3>1, <2>1, <2>2
      <3>3. rc.requested = TRUE
        BY <1>1, <1>2, <1>4, <3>1, <3>2 DEF sendsOwn
      <3> QED
        BY <2>1, <2>2, <3>1, <3>3 DEF thinkingNotice
    <2> QED
      BY <1>2, <1>4, <2>1, <2>2, <2>3, <2>4, <2>5, <2>6, <2>7
  <1> QED
    BY <1>3, <1>4

\* The notice of a run is one the executor remembers, and it says what was asked
\* for and not sent.
LEMMA NoticeIsKept ==
  ASSUME IInv, NEW o, o = Absent \/ (o \in Outcomes /\ (sendsOwn(o) => decision.on)),
         emitThinkingNotice(conditions(o), o)
  PROVE  TellsOnce' /\ (decision.on /\ ~conditions(o).applied => told'.now = "warn")
  <1> DEFINE rc == conditions(o)
  <1> DEFINE lever == stickyLever(rc)
  <1>1. /\ decision.on /\ ~rc.applied => thinkingNotice(rc) = "warn" /\ lever = Absent
        /\ lever \in {Absent, "env", "native"}
        /\ thinkingNotice(rc) \in {Absent, "warn", "info"}
        /\ "env" \in pulled(o) <=> lever = "env"
        /\ lever = "env" => thinkingNotice(rc) = "warn"
        /\ pulled(o) \subseteq {"env", "native"}
    BY NoticeTells
  <1>2. TellsOnce /\ told.count \in [Levers -> Nat] /\ told.happened \in SUBSET Levers
    BY DEF IInv, TellsOnce
  <1>3. /\ noticed' = IF thinkingNotice(rc) # Absent /\ lever # Absent
                      THEN noticed \cup {lever} ELSE noticed
        /\ told' = [told EXCEPT
             !.now = IF warns(rc) THEN "warn" ELSE "none",
             !.count = IF lever # Absent /\ warns(rc) THEN [told.count EXCEPT ![lever] = bump(@)] ELSE @,
             !.happened = @ \cup pulled(o)]
    BY Zenon DEF emitThinkingNotice
  <1>4. warns(rc) <=> thinkingNotice(rc) = "warn" /\ (lever = Absent \/ lever \notin noticed)
    BY DEF warns
  <1>5. /\ told'.now = IF warns(rc) THEN "warn" ELSE "none"
        /\ told'.happened = told.happened \cup pulled(o)
        /\ told'.count = IF lever # Absent /\ warns(rc)
                         THEN [told.count EXCEPT ![lever] = bump(@)] ELSE told.count
        /\ told' \in [count : [Levers -> Nat], happened : SUBSET Levers, now : {"none", "warn"}]
    <2> HIDE DEF rc, lever
    <2> DEFINE counts == IF lever # Absent /\ warns(rc)
                         THEN [told.count EXCEPT ![lever] = bump(@)] ELSE told.count
    <2> DEFINE now == IF warns(rc) THEN "warn" ELSE "none"
    <2>1. told \in [count : [Levers -> Nat], happened : SUBSET Levers, now : {"none", "warn"}]
      BY <1>2 DEF TellsOnce
    <2>2. \A n \in Nat : bump(n) \in Nat
      BY DEF bump
    <2>3. counts \in [Levers -> Nat]
      BY <1>1, <1>2, <2>2 DEF Levers
    <2>4. now \in {"none", "warn"} /\ told.happened \cup pulled(o) \in SUBSET Levers
      BY <1>1, <1>2 DEF Levers
    <2>5. told' = [told EXCEPT !.now = now, !.count = counts, !.happened = @ \cup pulled(o)]
      BY <1>3, Zenon
    <2> HIDE DEF counts, now
    <2>6. /\ told'.now = now /\ told'.happened = told.happened \cup pulled(o)
          /\ told'.count = counts
          /\ told' \in [count : [Levers -> Nat], happened : SUBSET Levers, now : {"none", "warn"}]
      BY <2>1, <2>3, <2>4, <2>5
    <2> QED
      BY <2>6 DEF counts, now
  <1> HIDE DEF rc, lever
  <1>6. decision.on /\ ~rc.applied => told'.now = "warn"
    BY <1>1, <1>4, <1>5
  <1>7. noticed' \in SUBSET Levers
    BY <1>1, <1>2, <1>3 DEF TellsOnce, Levers
  <1>8. \A l \in {"env", "shell"} : l \in noticed' <=> l \in told'.happened
    BY <1>1, <1>2, <1>3, <1>5, NothingAssumption DEF TellsOnce
  <1>9. \A l \in {"env", "shell"} : told'.count[l] = IF l \in told'.happened THEN 1 ELSE 0
    <2>1. CASE lever = "env"
      BY <1>1, <1>2, <1>4, <1>5, <2>1, NothingAssumption DEF TellsOnce, Levers, bump
    <2>2. CASE lever # "env"
      BY <1>1, <1>2, <1>4, <1>5, <2>2 DEF TellsOnce, Levers
    <2> QED
      BY <2>1, <2>2
  <1>10. told'.count["native"] = 0 \/ (told'.count["native"] = 1 /\ "native" \in noticed')
    <2>1. CASE lever = "native"
      BY <1>1, <1>2, <1>3, <1>4, <1>5, <2>1, NothingAssumption DEF TellsOnce, Levers, bump
    <2>2. CASE lever # "native"
      BY <1>1, <1>2, <1>3, <1>4, <1>5, <2>2 DEF TellsOnce, Levers
    <2> QED
      BY <2>1, <2>2
  <1> QED
    BY <1>5, <1>6, <1>7, <1>8, <1>9, <1>10 DEF TellsOnce, rc

-----------------------------------------------------------------------------
(* The markers. *)

has(markers, severity) == \E m \in markers : m.severity = severity
known == {"normalization-fallback", "runtime:live-rerender-fallback"}

\* A text or a structured answer is trusted in one of six degrees.
LEMMA ConfidenceIsANumber ==
  ASSUME NEW answer
  PROVE  parseOutput(answer).confidence \in {0, 50, 75, 90, 95, 100}
  <1>1. CASE answer.structured # None
    BY <1>1 DEF parseOutput, extraction
  <1>2. CASE answer.structured = None
    <2>1. parseOutput(answer) = extractWithMetadata(answer.text)
      BY <1>2 DEF parseOutput
    <2>2. extractWithMetadata(answer.text).confidence \in {0, 50, 75, 90, 95, 100}
      BY DEF extractWithMetadata, extraction
    <2> QED
      BY <2>1, <2>2
  <1> QED
    BY <1>1, <1>2

LEMMA SeverityOfMarker == \A code, severity : marker(code, severity).severity = severity
  BY DEF marker

\* What each part of a run adds to its markers.
LEMMA MarkersOfAResult ==
  ASSUME NEW answer \in Answers, NEW confidence \in Nat, NEW degradations, NEW markers,
         markers = resolutionMarkersFromLegacy(degradations)
                     \cup collectExecutionMarkers(answer, confidence)
  PROVE  /\ has(markers, "critical") <=> confidence = 0 \/ "empty-definition" \in degradations
         /\ has(markers, "degraded") <=>
              \/ answer.facts \cap degradedFacts # {}
              \/ answer.repair # None /\ ~(answer.repair.dropped \subseteq answer.repair.carriedOver)
              \/ confidence > 0 /\ confidence < EXTRACTION_CONFIDENCE_THRESHOLD
              \/ answer.finish = "tool-calls" /\ ~answer.empty
              \/ ~(degradations \subseteq known \cup {"empty-definition"})
  <1> DEFINE resolved == resolutionMarkersFromLegacy(degradations)
  <1> DEFINE shell == IF shellSchemaFallback
                      THEN {marker("tools.shell-schema-fallback", "info")} ELSE {}
  <1> DEFINE cut == IF answer.finish = "tool-calls" /\ ~answer.empty
                    THEN {marker("steps.near-exhaustion", "degraded")} ELSE {}
  <1>1. markers = resolved \cup (factMarkers(answer) \cup repairMarkers(answer)
                                  \cup extractionMarkers(confidence) \cup shell \cup cut)
    BY DEF collectExecutionMarkers
  <1>2. \A d : resolutionSeverity(d) = "critical" <=> d = "empty-definition"
    BY DEF resolutionSeverity
  <1>3. \A d : resolutionSeverity(d) = "degraded" <=> d \notin known \cup {"empty-definition"}
    BY DEF resolutionSeverity, known
  <1>4. /\ has(resolved, "critical") <=> "empty-definition" \in degradations
        /\ has(resolved, "degraded") <=> ~(degradations \subseteq known \cup {"empty-definition"})
    <2>1. \A s : has(resolved, s) <=> \E d \in degradations : resolutionSeverity(d) = s
      BY SeverityOfMarker DEF has, resolutionMarkersFromLegacy
    <2> QED
      BY <1>2, <1>3, <2>1
  <1>5. /\ ~has(factMarkers(answer), "critical")
        /\ has(factMarkers(answer), "degraded") <=> answer.facts \cap degradedFacts # {}
    <2>1. \A s : has(factMarkers(answer), s) <=>
                 \E f \in answer.facts : (IF f \in degradedFacts THEN "degraded" ELSE "info") = s
      BY SeverityOfMarker DEF has, factMarkers
    <2> QED
      BY <2>1
  <1>6. /\ ~has(repairMarkers(answer), "critical")
        /\ has(repairMarkers(answer), "degraded") <=>
             answer.repair # None /\ ~(answer.repair.dropped \subseteq answer.repair.carriedOver)
    <2>1. answer.repair # None /\ lostFields(answer.repair) # {} => answer.repair.outcome = "salvaged"
      BY AnswersAssumption DEF lostFields
    <2>2. CASE answer.repair = None
      BY <2>2 DEF has, repairMarkers
    <2>3. CASE answer.repair # None
      <3>1. \A s : has(repairMarkers(answer), s) <=>
                   (IF answer.repair.outcome = "salvaged" /\ lostFields(answer.repair) # {}
                    THEN "degraded" ELSE "info") = s
        BY <2>3, SeverityOfMarker DEF has, repairMarkers
      <3> QED
        BY <2>1, <2>3, <3>1 DEF lostFields
    <2> QED
      BY <2>2, <2>3
  <1>7. /\ has(extractionMarkers(confidence), "critical") <=> confidence = 0
        /\ has(extractionMarkers(confidence), "degraded") <=>
             confidence > 0 /\ confidence < EXTRACTION_CONFIDENCE_THRESHOLD
    <2>1. CASE confidence = 0
      BY <2>1, SeverityOfMarker DEF has, extractionMarkers
    <2>2. CASE confidence > 0 /\ confidence < EXTRACTION_CONFIDENCE_THRESHOLD
      <3>1. extractionMarkers(confidence) = {marker("extraction.low-confidence", "degraded")}
        BY <2>2 DEF extractionMarkers
      <3> QED
        BY <2>2, <3>1, SeverityOfMarker DEF has
    <2>3. CASE confidence >= EXTRACTION_CONFIDENCE_THRESHOLD
      <3>1. extractionMarkers(confidence) = {}
        BY <2>3, AnswersAssumption DEF extractionMarkers
      <3> QED
        BY <2>3, <3>1, AnswersAssumption DEF has
    <2> QED
      BY <2>1, <2>2, <2>3, AnswersAssumption
  <1>8. /\ ~has(shell, "critical") /\ ~has(shell, "degraded")
        /\ ~has(cut, "critical")
        /\ has(cut, "degraded") <=> answer.finish = "tool-calls" /\ ~answer.empty
    BY SeverityOfMarker DEF has
  <1> HIDE DEF resolved, shell, cut
  <1>9. \A s : has(markers, s) <=>
              \/ has(resolved, s) \/ has(factMarkers(answer), s) \/ has(repairMarkers(answer), s)
              \/ has(extractionMarkers(confidence), s) \/ has(shell, s) \/ has(cut, s)
    BY <1>1 DEF has
  <1> QED
    BY <1>4, <1>5, <1>6, <1>7, <1>8, <1>9

\* A result that was not exhausted is marked with what it lost.
LEMMA ResultIsMarked ==
  ASSUME NEW answer \in Answers, ~exhausts(answer), run' = run, end' = buildResult(answer)
  PROVE  EvidenceLossIsMarked'
  <1> DEFINE confidence == parseOutput(answer).confidence
  <1> DEFINE degradations == run.definition.degradations
  <1> DEFINE markers == resolutionMarkersFromLegacy(degradations)
                          \cup collectExecutionMarkers(answer, confidence)
  <1> DEFINE braked == answer.facts \cap degradedFacts # {}
  <1> DEFINE dropped ==
        answer.repair # None /\ ~(answer.repair.dropped \subseteq answer.repair.carriedOver)
  <1>1. end'.answer = answer /\ end'.completeness = deriveCompleteness(markers)
    BY DEF buildResult
  <1>2. confidence \in {0, 50, 75, 90, 95, 100}
    BY ConfidenceIsANumber
  <1>2a. /\ confidence \in Nat
         /\ markers = resolutionMarkersFromLegacy(degradations)
                        \cup collectExecutionMarkers(answer, confidence)
    BY <1>2
  <1> HIDE DEF confidence, degradations, markers
  <1>3. /\ has(markers, "critical") <=> confidence = 0 \/ "empty-definition" \in degradations
        /\ has(markers, "degraded") <=>
             \/ braked \/ dropped
             \/ confidence > 0 /\ confidence < EXTRACTION_CONFIDENCE_THRESHOLD
             \/ answer.finish = "tool-calls" /\ ~answer.empty
             \/ ~(degradations \subseteq known \cup {"empty-definition"})
    BY <1>2a, MarkersOfAResult
  <1>4. ~(degradations \subseteq known) <=>
          \/ "empty-definition" \in degradations
          \/ ~(degradations \subseteq known \cup {"empty-definition"})
    BY DEF known
  <1>5. /\ deriveCompleteness(markers) = "failed" <=> has(markers, "critical")
        /\ deriveCompleteness(markers) = "complete" <=>
             ~has(markers, "critical") /\ ~has(markers, "degraded")
    BY DEF deriveCompleteness, has
  <1>6. ~(answer.empty /\ answer.finish = "tool-calls")
    BY DEF exhausts
  <1> HIDE DEF braked, dropped
  <1>7. /\ deriveCompleteness(markers) = "failed" <=>
             confidence = 0 \/ "empty-definition" \in degradations
        /\ deriveCompleteness(markers) = "complete" <=>
             ~braked /\ ~dropped /\ degradations \subseteq known /\ answer.finish # "tool-calls"
             /\ confidence >= EXTRACTION_CONFIDENCE_THRESHOLD
    BY <1>2, <1>3, <1>4, <1>5, <1>6, AnswersAssumption
  <1> QED
    BY <1>1, <1>6, <1>7
       DEF EvidenceLossIsMarked, confidence, braked, dropped, degradations, degradedFacts, known

-----------------------------------------------------------------------------
(* The verdict. *)

\* Of the objects found in a prose one is the longest.
LEMMA LongestIsFound ==
  ASSUME NEW S, S # {}, IsFiniteSet(S), \A c \in S : c.length \in Nat
  PROVE  \E c \in S : \A d \in S : d.length <= c.length
  <1> DEFINE atLeast(c) == {d \in S : d.length >= c.length}
             reaches == {atLeast(c) : c \in S}
             R == StrictSubsetOrdering(S)
  <1>1. IsWellFoundedOn(R, SUBSET S)
    BY FS_StrictSubsetOrderingWellFounded, FS_FiniteSubsetsOfFinite
  <1>2. \A T, U \in SUBSET S : <<T, U>> \in R <=> T # U /\ T \subseteq U
    BY DEF StrictSubsetOrdering
  <1> HIDE DEF R
  <1>3. reaches \in SUBSET (SUBSET S) /\ reaches # {}
    OBVIOUS
  <1>4. PICK T \in reaches : \A U \in reaches : ~(<<U, T>> \in R)
    BY <1>1, <1>3, WFMin
  <1>5. PICK c \in S : T = atLeast(c)
    BY <1>4
  <1>6. ASSUME NEW d \in S, d.length > c.length PROVE FALSE
    <2>1. atLeast(d) \subseteq atLeast(c) /\ c \in atLeast(c) /\ c \notin atLeast(d)
      BY <1>6
    <2>2. atLeast(d) \in reaches /\ atLeast(c) \in reaches
      OBVIOUS
    <2>3. <<atLeast(d), atLeast(c)>> \in R
      BY <1>2, <1>3, <2>1, <2>2
    <2> QED
      BY <1>4, <1>5, <2>2, <2>3
  <1>7. \A d \in S : d.length <= c.length
    BY <1>6
  <1> QED
    BY <1>7

\* The last of some places in a sequence is one of them.
LEMMA LastIsOne ==
  ASSUME NEW n \in Nat, NEW S \in SUBSET (1..n), S # {}
  PROVE  Max(S) \in S
  <1> DEFINE fromEnd == {n - i : i \in S}
             R == OpToRel(<, Nat)
  <1>1. fromEnd \in SUBSET Nat /\ fromEnd # {}
    <2>1. \A i \in S : n - i \in Nat
      OBVIOUS
    <2> QED
      BY <2>1
  <1>2. IsWellFoundedOn(R, Nat)
    BY NatLessThanWellFounded
  <1>3. \A x, y \in Nat : <<y, x>> \in R <=> y < x
    BY DEF OpToRel
  <1> HIDE DEF R
  <1>4. PICK x \in fromEnd : \A y \in fromEnd : ~(<<y, x>> \in R)
    BY <1>1, <1>2, WFMin
  <1>5. PICK i \in S : x = n - i
    BY <1>4
  <1>6. \A k \in S : i >= k
    <2> TAKE k \in S
    <2>1. ~(n - k < n - i)
      BY <1>1, <1>3, <1>4, <1>5
    <2> QED
      BY <2>1
  <1> QED
    BY <1>6 DEF Max

\* JSON that carries a result is an object the answer holds.
LEMMA EnvelopeIsWritten ==
  ASSUME NEW answer \in Answers, NEW obj,
         obj = envelope(parseOutput(answer).json, answer.structured # None), obj # None
  PROVE  obj \in envelopesOf(answer)
  <1> DEFINE text == answer.text  json == parseOutput(answer).json
  <1>1. CASE answer.structured # None
    BY <1>1 DEF parseOutput, extraction, envelope, envelopesOf
  <1>2. CASE answer.structured = None
    <2>1. obj = json /\ "result" \in DOMAIN json /\ json = extractWithMetadata(text).json
      BY <1>2 DEF parseOutput, envelope
    <2>2. TextShape(text)
      BY AnswersAssumption
    <2> DEFINE fenced == extractFromCodeFence(text)  inline == extractInlineJson(text)
    <2>3. fenced # Broken => fenced \in {text.fences[i].body : i \in DOMAIN text.fences}
      <3> DEFINE marks == {i \in DOMAIN text.fences : text.fences[i].marked}
                 matches == IF marks # {} THEN marks ELSE DOMAIN text.fences
      <3>1. DOMAIN text.fences = 1..Len(text.fences) /\ Len(text.fences) \in Nat
        BY <2>2, LenProperties DEF TextShape
      <3>2. matches # {} => Max(matches) \in matches
        BY <3>1, LastIsOne
      <3>3. fenced = IF matches = {} THEN Broken ELSE text.fences[Max(matches)].body
        BY DEF extractFromCodeFence
      <3> QED
        BY <3>2, <3>3
    <2>4. inline # Broken => inline \in {c.json : c \in text.inline}
      <3>1. text.inline # {} => \E c \in text.inline : \A d \in text.inline : d.length <= c.length
        BY <2>2, LongestIsFound DEF TextShape
      <3> QED
        BY <3>1 DEF extractInlineJson
    <2> HIDE DEF fenced, inline
    <2>5. \/ fenced # Broken /\ fenced # NoObject /\ json = fenced
          \/ text.whole # None /\ json = text.whole
          \/ inline # Broken /\ json = inline
          \/ json = None
      BY <2>1 DEF extractWithMetadata, extraction, fenced, inline
    <2>6. json \in objectsOf(text)
      BY <2>1, <2>2, <2>3, <2>4, <2>5 DEF objectsOf, TextShape
    <2> QED
      BY <1>2, <2>1, <2>6 DEF envelopesOf
  <1> QED
    BY <1>1, <1>2

\* What the contract reads of an answer is written in it.
LEMMA FieldIsWritten ==
  ASSUME NEW answer \in Answers, NEW obj, NEW field,
         obj = envelope(parseOutput(answer).json, answer.structured # None)
  PROVE  contractField(obj, field) = None \/ contractField(obj, field) \in writtenAt(answer, field)
  <1> DEFINE nested == "result" \in DOMAIN obj /\ obj["result"][field] # None
  <1>1. CASE obj = None
    BY <1>1 DEF contractField
  <1>2. CASE obj # None /\ nested
    <2>1. contractField(obj, field) = obj["result"][field]
      BY <1>2 DEF contractField
    <2> QED
      BY <1>2, <2>1, EnvelopeIsWritten DEF writtenAt
  <1>3. CASE obj # None /\ ~nested /\ "top" \in DOMAIN obj
    <2>1. contractField(obj, field) = obj["top"][field]
      BY <1>3 DEF contractField
    <2> QED
      BY <1>3, <2>1, EnvelopeIsWritten DEF writtenAt
  <1>4. CASE obj # None /\ ~nested /\ "top" \notin DOMAIN obj
    BY <1>4 DEF contractField
  <1> QED
    BY <1>1, <1>2, <1>3, <1>4

\* A threshold leaves positive only what reaches it.
LEMMA PositiveReachesThreshold ==
  ASSUME NEW class, NEW score, score = None \/ score \in Int, NEW options \in Options,
         capByThresholds(class, score, options.thresholds) = "positive"
  PROVE  /\ class = "positive"
         /\ options.thresholds # None /\ score # None => score >= options.thresholds.pass
  BY ThresholdsAssumption DEF capByThresholds

\* A result gives the verdict its answer gives.
LEMMA VerdictIsGiven ==
  ASSUME NEW answer \in Answers, run' = run, run.options \in Options, end' = buildResult(answer)
  PROVE  VerdictIsTheAgents'
  <1> DEFINE vocabulary == run.definition.vocabulary
             obj == envelope(parseOutput(answer).json, answer.structured # None)
             fromJson == readValue(contractField(obj, "decision"), vocabulary)
             fromLine == readValue(firstLine(answer.text.decisions), vocabulary)
             named == contractField(obj, "score")
             scored == scoreLine(answer.text.scores)
             verdict == readVerdict(answer)
             class == IF verdict.class = "absent" THEN "neutral" ELSE verdict.class
  <1>1. /\ end'.kind = "result" /\ end'.answer = answer /\ end'.verdict = verdict
        /\ end'.category = capByThresholds(class, verdict.score, run.options.thresholds)
    BY DEF buildResult
  <1>2. /\ verdict.class = chosen(fromJson, fromLine).class
        /\ verdict.score = contractScoreOf(named, scored)
        /\ decisionWarnings(fromJson, fromLine, resolveDecisionField(parseOutput(answer).json))
             \subseteq verdict.warnings
    BY DEF readVerdict, readAgentVerdict
  <1>3. \A value : saysOf(value)' = readValue(value, vocabulary).class
    BY DEF saysOf, readValue, read
  <1>4. fromLine.class = saysOf(firstLine(answer.text.decisions))'
    BY <1>3
  <1>5. fromJson.class # "absent" =>
          fromJson.class \in {saysOf(d)' : d \in writtenAt(answer, "decision")}
    <2>1. fromJson.class = saysOf(contractField(obj, "decision"))'
      BY <1>3
    <2>2. contractField(obj, "decision") = None => fromJson.class = "absent"
      BY DEF readValue, read
    <2> QED
      BY <2>1, <2>2, FieldIsWritten
  <1>6. verdict.score # None =>
          /\ verdict.score \in 0..100
          /\ verdict.score \in writtenAt(answer, "score") \cup {scored}
    <2>1. verdict.score # None => /\ verdict.score \in 0..100
                                  /\ verdict.score = IF named # None THEN named ELSE scored
      BY <1>2 DEF contractScoreOf, contractScore
    <2> QED
      BY <2>1, FieldIsWritten
  <1> HIDE DEF fromJson, fromLine, named, scored, verdict, obj
  <1>7. verdict.class \in verdicts =>
          verdict.class \in {saysOf(d)' : d \in writtenAt(answer, "decision")} \cup {fromLine.class}
    BY <1>2, <1>5 DEF chosen, verdicts
  <1>8. fromLine.class \in verdicts =>
          /\ verdict.class \in verdicts
          /\ verdict.class = fromLine.class \/ "DECISION_CONFLICT" \in verdict.warnings
    <2>1. ASSUME fromLine.class \in verdicts, fromJson.class \in verdicts,
                 fromJson.class # fromLine.class
          PROVE  "DECISION_CONFLICT" \in verdict.warnings
      BY <1>2, <2>1 DEF decisionWarnings
    <2> QED
      BY <1>2, <2>1 DEF chosen, verdicts
  <1>9. end'.category = "positive" =>
          /\ verdict.class = "positive"
          /\ run.options.thresholds # None /\ verdict.score # None =>
               verdict.score >= run.options.thresholds.pass
    <2>1. verdict.score = None \/ verdict.score \in Int
      BY <1>6
    <2>2. class = "positive" => verdict.class = "positive"
      OBVIOUS
    <2> HIDE DEF class
    <2> QED
      BY <1>1, <2>1, <2>2, PositiveReachesThreshold
  <1>10. writtenAt(answer, "decision")' = writtenAt(answer, "decision")
         /\ writtenAt(answer, "score")' = writtenAt(answer, "score")
    OBVIOUS
  <1> QED
    BY <1>1, <1>4, <1>6, <1>7, <1>8, <1>9 DEF VerdictIsTheAgents, scored

\* Before its answer a run says nothing of it, and one that failed never does.
LEMMA NoResultTells ==
  ASSUME end' = None \/ end'.kind # "result"
  PROVE  ResultTells'
  BY DEF ResultTells, EvidenceLossIsMarked, VerdictIsTheAgents

-----------------------------------------------------------------------------
(* The steps. *)

\* A run that fails tells what it was asked for, and what was sent if its error
\* carries that.
LEMMA ThrowTells ==
  ASSUME IInv, pc \in {"resolved", "ready", "sent"},
         NEW error \in {"failed", "exhausted", "unread"}, NEW o, NEW takesCarrier,
         \/ o = Absent /\ (outcome = None \/ error = "unread")
         \/ o = outcome /\ o \in Outcomes /\ (sendsOwn(o) => decision.on) /\ error # "unread",
         Throw(error, o, takesCarrier)
  PROVE  IInv'
  <1> DEFINE rc == conditions(o)
  <1>1. /\ rc.applied <=> o # Absent /\ o.applied
        /\ rc.requested = decision.on
    BY NoticeTells
  <1>2. rc.applied <=> outcome # None /\ outcome.applied /\ error # "unread"
    BY <1>1, NothingAssumption
  <1>3. /\ end' = [kind |-> error, billed |-> error = "exhausted",
                   conditions |-> IF takesCarrier THEN rc ELSE None, told |-> rc]
        /\ emitThinkingNotice(rc, o) /\ pc' = "ended"
        /\ client' = client /\ run' = run /\ asked' = asked /\ gate' = gate
        /\ outcome' = outcome
    BY DEF Throw
  <1>4. TellsOnce' /\ (decision.on /\ ~rc.applied => told'.now = "warn")
    BY <1>3, NoticeIsKept
  <1>5. decision' = decision /\ budgetModelInput' = budgetModelInput
    BY <1>3, ContextIsKept
  <1> HIDE DEF rc
  <1>6. Shape' /\ AsksForOne'
    BY <1>3, <1>5 DEF IInv, Shape, AsksForOne, begun
  <1>7. EndTells'
    <2>1. end'.kind = error /\ error # "result" /\ end'.told = rc
      BY <1>3
    <2> QED
      BY <1>2, <1>3, <1>4, <1>5, <2>1 DEF EndTells
  <1>8. AnswerKeepsItsHalf' /\ ResultTells'
    BY <1>3, NoResultTells DEF IInv, AnswerKeepsItsHalf, KeepsItsHalf
  <1> QED
    BY <1>4, <1>6, <1>7, <1>8 DEF IInv

\* A run that begins has asked for nothing but its budget.
LEMMA ResolveStep ==
  ASSUME IInv, Resolve
  PROVE  IInv'
  <1>1. /\ pc = "idle" /\ pc' = "resolved" /\ client' = client /\ noticed' = noticed
        /\ gate' = gate /\ outcome' = outcome /\ end' = end /\ told' = told
        /\ asked' = [budget |-> budgetModelInput', shell |-> None, generate |-> None]
    BY DEF Resolve
  <1>2. run' \in [definition : Definitions, options : Options]
    <2>1. PICK d \in Definitions, o \in Options : run' = [definition |-> d, options |-> o]
      BY DEF Resolve
    <2> QED
      BY <2>1
  <1>3. outcome = None /\ end = None
    BY <1>1 DEF IInv, Shape
  <1>4. Shape' /\ AsksForOne' /\ EndTells'
    BY <1>1, <1>2, <1>3 DEF IInv, Shape, AsksForOne, EndTells, begun
  <1>5. TellsOnce' /\ AnswerKeepsItsHalf' /\ ResultTells'
    BY <1>1, <1>3, NoResultTells DEF IInv, TellsOnce, AnswerKeepsItsHalf, KeepsItsHalf
  <1> QED
    BY <1>4, <1>5 DEF IInv

\* A shell that is offered was declared and named, and is told the first time.
LEMMA SetupToolsStep ==
  ASSUME IInv, SetupTools
  PROVE  IInv'
  <1>1. /\ pc = "resolved" /\ pc' = "ready" /\ client' = client /\ run' = run /\ gate' = gate
        /\ outcome' = outcome /\ end' = end
        /\ asked' = [asked EXCEPT !.shell = IF offersShell THEN budgetModelInput ELSE None]
    BY DEF SetupTools
  <1>2. budgetModelInput' = budgetModelInput /\ decision' = decision
    BY <1>1, ContextIsKept
  <1>3. asked = [budget |-> budgetModelInput, shell |-> asked.shell, generate |-> asked.generate]
    BY <1>1 DEF IInv, AsksForOne, begun
  <1>4. asked' = [budget |-> budgetModelInput, generate |-> asked.generate,
                  shell |-> IF offersShell THEN budgetModelInput ELSE None]
    BY <1>1, <1>3
  <1>5. offersShell => /\ run.definition.declaresBash
                       /\ client.allowedTools # None /\ "bash" \in client.allowedTools
    BY DEF offersShell, isToolAllowed
  <1>6. Shape' /\ AsksForOne' /\ EndTells'
    BY <1>1, <1>2, <1>4, <1>5 DEF IInv, Shape, AsksForOne, EndTells, begun
  <1>7. TellsOnce'
    <2>1. TellsOnce /\ told.count \in [Levers -> Nat] /\ told.happened \in SUBSET Levers
      BY DEF IInv, TellsOnce
    <2>2. CASE ~offersShell
      BY <2>1, <2>2 DEF SetupTools, TellsOnce
    <2>3. CASE offersShell
      <3> DEFINE counts == IF "shell" \notin noticed
                           THEN [told.count EXCEPT !["shell"] = bump(@)] ELSE told.count
      <3>1. /\ noticed' = noticed \cup {"shell"}
            /\ told' = [told EXCEPT !.count = counts, !.happened = @ \cup {"shell"}]
        BY <2>3 DEF SetupTools
      <3>2. counts \in [Levers -> Nat]
        BY <2>1 DEF bump, Levers
      <3>3. /\ "shell" \notin noticed => counts["shell"] = 1
            /\ "shell" \in noticed => counts["shell"] = told.count["shell"]
            /\ \A l \in {"env", "native"} : counts[l] = told.count[l]
        BY <2>1 DEF TellsOnce, bump, Levers
      <3> HIDE DEF counts
      <3>4. /\ told'.count = counts /\ told'.happened = told.happened \cup {"shell"}
            /\ told' \in [count : [Levers -> Nat], happened : SUBSET Levers, now : {"none", "warn"}]
        BY <2>1, <3>1, <3>2 DEF TellsOnce, Levers
      <3>5. told'.count["shell"] = 1
        BY <2>1, <3>3, <3>4 DEF TellsOnce
      <3> QED
        BY <2>1, <3>1, <3>3, <3>4, <3>5 DEF TellsOnce, Levers
    <2> QED
      BY <2>2, <2>3
  <1>8. AnswerKeepsItsHalf' /\ ResultTells'
    BY <1>1, NoResultTells DEF IInv, Shape, AnswerKeepsItsHalf, KeepsItsHalf
  <1> QED
    BY <1>6, <1>7, <1>8 DEF IInv

\* The generation asks for the model the budget was taken from, and what its
\* request carries is what the gate decided.
LEMMA GateStep ==
  ASSUME IInv, Gate
  PROVE  IInv'
  <1>1. /\ pc = "ready" /\ pc' = "sent" /\ client' = client /\ run' = run /\ noticed' = noticed
        /\ end' = end /\ told' = told /\ asked' = [asked EXCEPT !.generate = modelInput]
    BY DEF Gate
  <1>2. budgetModelInput' = budgetModelInput /\ decision' = decision
    BY <1>1, ContextIsKept
  <1>3. modelInput \in DOMAIN Models /\ modelInput = budgetModelInput
    BY <1>1, ModelIsKnown DEF IInv, begun
  <1>4. asked = [budget |-> budgetModelInput, shell |-> asked.shell, generate |-> asked.generate]
    BY <1>1 DEF IInv, AsksForOne, begun
  <1>5. asked' = [budget |-> budgetModelInput, shell |-> asked.shell, generate |-> budgetModelInput]
    BY <1>1, <1>3, <1>4
  <1>6. PICK numbers \in Gates :
          gate' = [requested |-> decision.on, model |-> Models[modelInput],
                   native |-> run.options.native, budget |-> numbers.budget,
                   maxTokens |-> numbers.maxTokens,
                   callerMax |-> IF Models[modelInput].provider = "openrouter"
                                 THEN numbers.callerMax ELSE Absent]
    BY DEF Gate
  <1> DEFINE plan == planThinking(gate')
  <1>7. outcome' = [applied |-> plan.applied, reason |-> plan.reason, native |-> plan.native,
                    budget |-> Absent, wire |-> Absent]
    BY DEF Gate
  <1>8. /\ numbers.budget \in Int \cup {Absent, Unusable}
        /\ numbers.maxTokens \in Int \cup {Absent, Unusable}
        /\ numbers.callerMax \in Int \cup {Absent, Unusable}
        /\ Models[modelInput].capable \in BOOLEAN /\ Models[modelInput].anthropic \in BOOLEAN
        /\ Models[modelInput].limit \in Int \cup {Absent}
    BY <1>3, CatalogAssumption
  <1>9. Numbered(gate') /\ gate'.requested = decision.on
    BY <1>6, <1>8, DecisionIsBoolean DEF Numbered
  <1>10. Reported(plan) /\ (sendsOwn(plan) => decision.on)
    BY <1>9, PlanIsAnOutcome DEF Numbered
  <1>11. AnswerKeepsItsHalf'
    BY <1>9, HalfIsKept DEF AnswerKeepsItsHalf
  <1> HIDE DEF plan
  <1>12. outcome' \in Outcomes /\ (sendsOwn(outcome') => decision.on)
    BY <1>7, <1>10 DEF Outcomes, Reported, sendsOwn
  <1>13. Shape' /\ AsksForOne' /\ EndTells'
    BY <1>1, <1>2, <1>5, <1>12 DEF IInv, Shape, AsksForOne, EndTells, begun, sendsOwn
  <1>14. TellsOnce' /\ ResultTells'
    BY <1>1, NoResultTells DEF IInv, Shape, TellsOnce
  <1> QED
    BY <1>11, <1>13, <1>14 DEF IInv

\* An answer is a result that says what was sent, or the loop is exhausted.
LEMMA AnswerStep ==
  ASSUME IInv, AnswerArrives
  PROVE  IInv'
  <1>1. pc = "sent" /\ outcome \in Outcomes /\ (sendsOwn(outcome) => decision.on)
    BY DEF AnswerArrives, IInv, Shape
  <1>2. PICK answer \in Answers :
          IF exhausts(answer) THEN Throw("exhausted", outcome, TRUE)
          ELSE /\ end' = buildResult(answer)
               /\ emitThinkingNotice(conditions(outcome), outcome)
               /\ pc' = "ended"
               /\ UNCHANGED <<client, run, asked, gate, outcome>>
    BY DEF AnswerArrives
  <1>3. CASE exhausts(answer)
    BY <1>1, <1>2, <1>3, ThrowTells
  <1>4. CASE ~exhausts(answer)
    <2> DEFINE rc == conditions(outcome)
    <2>1. rc.applied <=> outcome # None /\ outcome.applied
      BY <1>1, NoticeTells, NothingAssumption
    <2>2. /\ emitThinkingNotice(rc, outcome) /\ pc' = "ended" /\ client' = client /\ run' = run
          /\ asked' = asked /\ gate' = gate /\ outcome' = outcome
      BY <1>2, <1>4
    <2>3. end'.kind = "result" /\ end'.conditions = rc
      BY <1>2, <1>4 DEF buildResult
    <2>4. TellsOnce' /\ (decision.on /\ ~rc.applied => told'.now = "warn")
      BY <1>1, <2>2, NoticeIsKept
    <2>5. decision' = decision /\ budgetModelInput' = budgetModelInput
      BY <2>2, ContextIsKept
    <2> HIDE DEF rc
    <2>6. Shape' /\ AsksForOne'
      BY <1>1, <2>2, <2>5 DEF IInv, Shape, AsksForOne, begun
    <2>7. EndTells'
      BY <2>1, <2>2, <2>3, <2>4, <2>5 DEF EndTells
    <2>8. AnswerKeepsItsHalf'
      BY <2>2 DEF IInv, AnswerKeepsItsHalf, KeepsItsHalf
    <2>9. ResultTells'
      <3>1. run.options \in Options
        BY <1>1 DEF IInv, Shape, begun
      <3> QED
        BY <1>2, <1>4, <2>2, <3>1, ResultIsMarked, VerdictIsGiven DEF ResultTells
    <2> QED
      BY <2>4, <2>6, <2>7, <2>8, <2>9 DEF IInv
  <1> QED
    BY <1>3, <1>4

\* The next run starts with what the executor remembers, and nothing else.
LEMMA NextRunStep ==
  ASSUME IInv, NextRun
  PROVE  IInv'
  <1>1. /\ pc' = "idle" /\ run' = None /\ asked' = None /\ gate' = None /\ outcome' = None
        /\ end' = None /\ client' = client /\ noticed' = noticed
        /\ told' = [told EXCEPT !.now = "none"]
    BY DEF NextRun, reset
  <1>2. Shape' /\ AsksForOne' /\ EndTells' /\ AnswerKeepsItsHalf' /\ ResultTells'
    BY <1>1, NoResultTells DEF IInv, Shape, AsksForOne, EndTells, AnswerKeepsItsHalf, begun
  <1>3. TellsOnce'
    BY <1>1 DEF IInv, TellsOnce
  <1> QED
    BY <1>2, <1>3 DEF IInv

\* The invariant holds from the first run on.
LEMMA Invariance == Spec => []IInv
  <1>1. Init => IInv
    <2> SUFFICES ASSUME Init PROVE IInv
      OBVIOUS
    <2>1. Shape /\ AsksForOne /\ EndTells /\ AnswerKeepsItsHalf /\ ResultTells
      BY DEF Init, Shape, AsksForOne, EndTells, AnswerKeepsItsHalf, ResultTells,
             EvidenceLossIsMarked, VerdictIsTheAgents, begun
    <2>2. told = [count |-> [l \in Levers |-> 0], happened |-> {}, now |-> "none"]
      BY DEF Init, Levers
    <2>3. TellsOnce
      BY <2>2 DEF Init, TellsOnce, Levers
    <2> QED
      BY <2>1, <2>3 DEF IInv
  <1>2. IInv /\ [Next]_vars => IInv'
    <2> SUFFICES ASSUME IInv, [Next]_vars PROVE IInv'
      OBVIOUS
    <2>1. CASE Resolve
      BY <2>1, ResolveStep
    <2>2. CASE SetupTools
      BY <2>2, SetupToolsStep
    <2>3. CASE FailsBefore
      <3>1. PICK takesCarrier \in BOOLEAN : Throw("failed", Absent, takesCarrier)
        BY <2>3 DEF FailsBefore
      <3>2. pc \in {"resolved", "ready"} /\ outcome = None
        BY <2>3 DEF FailsBefore, IInv, Shape
      <3> QED
        BY <3>1, <3>2, ThrowTells
    <2>4. CASE Gate
      BY <2>4, GateStep
    <2>5. CASE FailsAfter
      <3>1. pc = "sent" /\ outcome \in Outcomes /\ (sendsOwn(outcome) => decision.on)
        BY <2>5 DEF FailsAfter, IInv, Shape
      <3> QED
        BY <2>5, <3>1, ThrowTells DEF FailsAfter
    <2>6. CASE FailsOnAnswer
      <3>1. PICK takesCarrier \in BOOLEAN : Throw("unread", Absent, takesCarrier)
        BY <2>6 DEF FailsOnAnswer
      <3>2. pc = "sent"
        BY <2>6 DEF FailsOnAnswer
      <3> QED
        BY <3>1, <3>2, ThrowTells
    <2>7. CASE AnswerArrives
      BY <2>7, AnswerStep
    <2>8. CASE NextRun
      BY <2>8, NextRunStep
    <2>9. CASE UNCHANGED vars
      <3>1. /\ client' = client /\ noticed' = noticed /\ pc' = pc /\ run' = run /\ asked' = asked
            /\ gate' = gate /\ outcome' = outcome /\ end' = end /\ told' = told
        BY <2>9 DEF vars
      <3>2. decision' = decision /\ budgetModelInput' = budgetModelInput
        BY <3>1, ContextIsKept
      <3>3. Shape' /\ AsksForOne' /\ TellsOnce' /\ EndTells'
        BY <3>1, <3>2 DEF IInv, Shape, AsksForOne, TellsOnce, EndTells
      <3>4. AnswerKeepsItsHalf' /\ EvidenceLossIsMarked'
        BY <3>1 DEF IInv, ResultTells, AnswerKeepsItsHalf, KeepsItsHalf, EvidenceLossIsMarked
      <3>5. VerdictIsTheAgents'
        <4>1. \A value : saysOf(value)' = saysOf(value)
          BY <3>1 DEF saysOf
        <4> QED
          BY <3>1, <4>1 DEF IInv, ResultTells, VerdictIsTheAgents
      <3> QED
        BY <3>3, <3>4, <3>5 DEF IInv, ResultTells
    <2> QED
      BY <2>1, <2>2, <2>3, <2>4, <2>5, <2>6, <2>7, <2>8, <2>9 DEF Next
  <1> QED
    BY <1>1, <1>2, PTL DEF Spec

-----------------------------------------------------------------------------
(* The results. *)

\* Types hold for every catalog, client, definition, option and answer.
THEOREM TypeCorrect == Spec => []TypeOK
  <1>1. ASSUME IInv PROVE TypeOK
    <2>1. told.count \in [Levers -> Nat] /\ told.happened \in SUBSET Levers
      BY <1>1 DEF IInv, TellsOnce
    <2>2. \A l \in Levers : told.count[l] \in 0..2
      BY <1>1 DEF IInv, TellsOnce, Levers
    <2>3. told.count \in [Levers -> 0..2]
      BY <2>1, <2>2
    <2> QED
      BY <1>1, <2>1, <2>3 DEF IInv, Shape, TellsOnce, TypeOK, Levers, begun
  <1> QED
    BY <1>1, Invariance, PTL

\* For every catalog and client: a generation runs on the model its budget and its
\* shell were prepared for, and a shell was declared and named (executeInner,
\* setupTools, isToolAllowed).
THEOREM Prepared == Spec => []RunsOnWhatItPrepared
  <1>1. IInv => RunsOnWhatItPrepared
    BY DEF IInv, Shape, AsksForOne, RunsOnWhatItPrepared
  <1> QED
    BY <1>1, Invariance, PTL

\* For every request and every way a run may end: its record says whether thinking
\* was sent, or nothing was when its answer could not be read; a lever that stays is
\* told once, and the answer keeps half of its allowance (planThinking, buildRunConditions, emitThinkingNotice).
THEOREM ThinkingTold == Spec => []ThinkingIsSound
  <1>1. IInv => ThinkingIsSound
    BY DEF IInv, TellsOnce, EndTells, ThinkingIsSound, ThinkingIsTold
  <1> QED
    BY <1>1, Invariance, PTL

\* For every answer and every definition: a result reads complete exactly when
\* nothing its verdict rests on was lost (collectExecutionMarkers,
\* deriveCompleteness, MaxStepsExhaustedError).
THEOREM LossIsTold == Spec => []EvidenceLossIsMarked
  <1>1. IInv => EvidenceLossIsMarked
    BY DEF IInv, ResultTells
  <1> QED
    BY <1>1, Invariance, PTL

\* For every answer, vocabulary and threshold: a verdict and a score are ones the
\* agent gave where the contract reads them, a line that judges is followed or the
\* conflict is told, and positive reaches its threshold (readAgentVerdict,
\* OutputExtractor, capByThresholds).
THEOREM VerdictGiven == Spec => []VerdictIsTheAgents
  <1>1. IInv => VerdictIsTheAgents
    BY DEF IInv, ResultTells
  <1> QED
    BY <1>1, Invariance, PTL

=============================================================================
