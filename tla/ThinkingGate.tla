---------------------------- MODULE ThinkingGate ----------------------------
(***************************************************************************)
(* Extended thinking: which layer asks for it (resolveThinkingMode,        *)
(* perRunThinking), what the gate sends (planThinking), and the record and *)
(* the notice of a run (buildRunConditions, thinkingNotice).               *)
(*                                                                         *)
(* A request carries a model, the caller's own thinking block ("none",     *)
(* "on" or "off"), a budget and output allowances in tokens.  Absent is no *)
(* value, Unusable one that is not a positive whole number.                *)
(***************************************************************************)
EXTENDS Integers

CONSTANTS
    Absent,
    Unusable,
    MIN_THINKING_BUDGET,
    DEFAULT_MAX_TOKENS,
    MAPPED_THINKING_PROVIDERS

ASSUME TokensAssumption ==
    /\ MIN_THINKING_BUDGET \in Nat \ {0} /\ DEFAULT_MAX_TOKENS \in Nat \ {0}
    /\ Absent \notin Int /\ Unusable \notin Int /\ Absent # Unusable

-----------------------------------------------------------------------------
(***************************************************************************)
(* Who asks.                                                               *)
(***************************************************************************)
\* The first layer that set a value decides; a malformed one is off.
resolveThinkingMode(config, env) ==
    LET asOf(value, layer) == [on |-> value = "on", source |-> layer]
    IN CASE config # Absent -> asOf(config, "config")
         [] config = Absent /\ env # Absent -> asOf(env, "env")
         [] OTHER -> [on |-> FALSE, source |-> "default"]

\* A run's own value, before the client's; what is no boolean is off.
perRunThinking(value, client) ==
    IF value = Absent THEN client
    ELSE [on |-> value = "true", source |-> "request"]

-----------------------------------------------------------------------------
(***************************************************************************)
(* What is sent.                                                           *)
(***************************************************************************)
least(a, b) == IF a <= b THEN a ELSE b
halfUp(n) == (n + 1) \div 2
usable(n) == n \in Int /\ n > 0

refuse(reason) == [applied |-> FALSE, reason |-> reason, native |-> FALSE,
                   budget |-> Absent, wire |-> Absent]
asNative(on) == [applied |-> on, reason |-> IF on THEN Absent ELSE "caller-native",
                 native |-> TRUE, budget |-> Absent, wire |-> Absent]
byEffort == [applied |-> TRUE, reason |-> Absent, native |-> FALSE,
             budget |-> Absent, wire |-> Absent]
\* A budget of at most room of the allowance, or none.
byBudget(whole, room, wire) ==
    LET sent == least(whole, room)
    IN IF sent < MIN_THINKING_BUDGET THEN refuse("invalid-budget")
       ELSE [applied |-> TRUE, reason |-> Absent, native |-> FALSE,
             budget |-> sent, wire |-> wire]

maxTokens(req) == IF usable(req.maxTokens) THEN req.maxTokens ELSE DEFAULT_MAX_TOKENS

\* Google counts the budget inside the allowance.
planGoogle(req) == byBudget(req.budget, maxTokens(req) \div 2, Absent)

\* The caller's own max_tokens is what OpenRouter receives.
planCapped(req) ==
    IF ~usable(req.callerMax) THEN refuse("invalid-budget")
    ELSE byBudget(req.budget, req.callerMax - halfUp(req.callerMax), Absent)

\* On an anthropic/ upstream the allowance grows by the budget, to the model's
\* limit.
raisedWire(req) ==
    LET raised == maxTokens(req) + req.budget
    IN CASE ~req.model.anthropic -> maxTokens(req)
         [] req.model.anthropic /\ req.model.limit = Absent -> raised
         [] OTHER -> least(raised, req.model.limit)
\* (mistake: where the limit stops the raise, the answer pays)
planRaisedToLimit(req) == byBudget(req.budget, raisedWire(req) - 1, raisedWire(req))
planRaised(req) ==
    byBudget(req.budget, raisedWire(req) - halfUp(maxTokens(req)), raisedWire(req))

planBudget(req) ==
    CASE ~usable(req.budget) -> refuse("invalid-budget")
      [] usable(req.budget) /\ req.model.provider = "google" -> planGoogle(req)
      [] usable(req.budget) /\ req.model.provider # "google" /\ req.callerMax # Absent ->
           planCapped(req)
      [] OTHER -> planRaised(req)

\* The caller's block decides first; then the first reason that applies.
planThinking(req) ==
    CASE req.native # "none" -> asNative(req.native = "on")
      [] req.native = "none" /\ ~req.requested -> refuse("not-requested")
      [] req.native = "none" /\ req.requested /\ ~req.model.capable -> refuse("not-capable")
      [] req.native = "none" /\ req.requested /\ req.model.capable ->
           CASE req.model.provider \notin MAPPED_THINKING_PROVIDERS -> refuse("no-mapping")
             [] req.model.provider \in MAPPED_THINKING_PROVIDERS /\ req.model.provider = "openai" ->
                  byEffort
             [] OTHER -> planBudget(req)

\* The allowance OpenRouter or Google receives.  An unusable one goes out raw, and
\* is not replaced.
wireMax(req, plan) ==
    IF req.model.provider = "openrouter" /\ req.callerMax # Absent THEN req.callerMax
    ELSE CASE req.maxTokens = Unusable -> Unusable
           [] req.maxTokens # Unusable /\ plan.wire # Absent -> plan.wire
           [] OTHER -> maxTokens(req)

-----------------------------------------------------------------------------
(***************************************************************************)
(* What is told.                                                           *)
(***************************************************************************)
\* The outcome a builder reports; no builder ran when it is Absent.
outcomeOf(decision, outcome) ==
    IF outcome # Absent THEN outcome
    ELSE refuse(IF decision.on THEN "pre-build-failure" ELSE "not-requested")

buildRunConditions(decision, outcome, byDefault) ==
    LET o == outcomeOf(decision, outcome)
    IN [requested |-> decision.on,
        source |-> IF o.native /\ o.applied THEN "native" ELSE decision.source,
        applied |-> o.applied, reason |-> o.reason, budget |-> o.budget,
        offMeansDefault |-> ~o.applied /\ byDefault]

\* The level of the one line of a run, or none.
thinkingNotice(rc) ==
    CASE ~rc.requested /\ rc.source = "native" /\ rc.applied -> "warn"
      [] ~rc.requested /\ ~(rc.source = "native" /\ rc.applied) -> Absent
      [] rc.requested /\ (~rc.applied \/ rc.source = "env") -> "warn"
      [] OTHER -> "info"

\* The environment and the caller's block say the same on every run.
stickyLever(rc) ==
    IF rc.applied /\ rc.source \in {"env", "native"} THEN rc.source ELSE Absent

-----------------------------------------------------------------------------
(***************************************************************************)
(* The answer keeps at least half of the allowance its caller gave, a      *)
(* budget is one the providers take, and the raised allowance stays within *)
(* the model's limit (planThinking).                                       *)
(***************************************************************************)
callersAllowance(req) ==
    IF req.model.provider = "openrouter" /\ req.callerMax # Absent
    THEN req.callerMax ELSE maxTokens(req)
KeepsItsHalf(req) ==
    LET plan == planThinking(req)
    IN plan.budget # Absent =>
         /\ plan.applied /\ plan.budget >= MIN_THINKING_BUDGET /\ plan.budget <= req.budget
         /\ req.maxTokens # Unusable =>
              /\ usable(wireMax(req, plan))
              /\ 2 * (wireMax(req, plan) - plan.budget) >= callersAllowance(req)
              /\ req.model.limit # Absent /\ wireMax(req, plan) > callersAllowance(req)
                   => wireMax(req, plan) <= req.model.limit

=============================================================================
