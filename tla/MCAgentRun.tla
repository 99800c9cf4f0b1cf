----------------------------- MODULE MCAgentRun -----------------------------
(***************************************************************************)
(* Two agents, five models and answers of every rung of the ladder for     *)
(* TLC; a score of 100 is a whole one, a thinking budget starts at 4.      *)
(***************************************************************************)
EXTENDS AgentRun

MCWords == {"pass", "fail", "hold", "not", "secure", "explored"}
MCTokenOf == [w \in MCWords |->
    CASE w = "pass" -> "PASS" [] w = "fail" -> "FAIL" [] w = "hold" -> "HOLD"
      [] w = "not" -> "NOT" [] w = "secure" -> "SECURE" [] OTHER -> "EXPLORED"]
MCRegister == [t \in {"PASS", "SECURE", "FAIL"} |-> IF t = "FAIL" THEN "negative" ELSE "positive"]

Pass == <<"pass", " ", "-", " ", "secure">>
Fail == <<"*", "fail", "*">>
NotSecure == <<"not", " ", "secure">>
PassOrFail == <<"pass", "/", "fail">>
Hold == <<"hold", ")">>
Emphasised == <<"*", " ", "pass">>
Quoted == <<"'", "pass", "'">>

at(dec, score) == [decision |-> dec, status |-> None, score |-> score]
Envelope(dec, score) == [c \in {"top", "result"} |->
                            IF c = "result" THEN at(dec, score) ELSE at(None, None)]
Flat(dec, score) == [c \in {"top"} |-> at(dec, score)]
Elsewhere(dec, score) == [c \in {"top", "result", "summary"} |->
                             IF c = "summary" THEN at(dec, score) ELSE at(None, None)]

Silent == [fences |-> <<>>, whole |-> None, inline |-> {}, keyed |-> FALSE,
           decisions |-> <<>>, scores |-> <<>>, worded |-> FALSE]
bare(number) == [bare |-> TRUE, number |-> number]
marked(number) == [bare |-> FALSE, number |-> number]
fence(marks, body) == [marked |-> marks, body |-> body]
Texts == {
    Silent,
    [Silent EXCEPT !.worded = TRUE],
    [Silent EXCEPT !.fences = <<fence(TRUE, Envelope(Pass, 90)), fence(FALSE, Flat(Fail, 20))>>],
    [Silent EXCEPT !.fences = <<fence(FALSE, Flat(Pass, 95)), fence(FALSE, Flat(Fail, 20))>>,
                   !.decisions = <<Fail>>],
    [Silent EXCEPT !.fences = <<fence(FALSE, Broken)>>, !.keyed = TRUE,
                   !.inline = {[json |-> Flat(Fail, 17), length |-> 2],
                               [json |-> Flat(None, 70), length |-> 1]},
                   !.decisions = <<Pass>>, !.scores = <<bare(87)>>],
    [Silent EXCEPT !.fences = <<fence(FALSE, Broken)>>, !.keyed = TRUE,
                   !.inline = {[json |-> Flat(Pass, 99), length |-> 2]}],
    [Silent EXCEPT !.fences = <<fence(FALSE, NoObject)>>, !.decisions = <<Hold, Pass>>,
                   !.scores = <<bare(60)>>],
    [Silent EXCEPT !.whole = Envelope(NotSecure, 80), !.decisions = <<Fail>>],
    [Silent EXCEPT !.whole = Envelope(Pass, 140), !.decisions = <<Fail>>, !.scores = <<bare(30)>>],
    [Silent EXCEPT !.whole = Envelope(PassOrFail, 55)],
    [Silent EXCEPT !.whole = Elsewhere(Pass, 88)],
    [Silent EXCEPT !.decisions = <<Pass, Fail>>, !.scores = <<bare(60), bare(90)>>],
    [Silent EXCEPT !.decisions = <<Emphasised>>, !.scores = <<marked(90)>>],
    [Silent EXCEPT !.decisions = <<Quoted>>]}

answer(text) == [text |-> text, empty |-> FALSE, finish |-> "stop", structured |-> None,
                 repair |-> None, facts |-> {}]
Whole == answer([Silent EXCEPT !.whole = Envelope(Pass, 60)])
Structured == [answer([Silent EXCEPT !.whole = Flat(Pass, 80)]) EXCEPT !.structured = Flat(Pass, 80)]
repaired(kind, dropped, carried) ==
    [outcome |-> kind, dropped |-> dropped, carriedOver |-> carried]
MCAnswers ==
    {answer(t) : t \in Texts}
    \cup {[Whole EXCEPT !.facts = F] :
            F \in SUBSET {"budget.forced-wrap-up", "steps.forced-wrap-up", "context.evicted",
                           "budget.brake-inert"}}
    \cup {[answer(Silent) EXCEPT !.empty = TRUE, !.finish = f] : f \in {"tool-calls", "error"}}
    \cup {[Whole EXCEPT !.finish = "tool-calls"]}
    \cup {[Structured EXCEPT !.repair = r] :
            r \in {None, repaired("repaired", {}, {"records"}), repaired("salvaged", {}, {}),
                   repaired("salvaged", {"records"}, {"records"}),
                   repaired("salvaged", {"records", "summary"}, {"records"})}}
    \cup {[Whole EXCEPT !.repair = repaired("repair-failed", {}, {})]}

model(provider, anthropic, capable, byDefault, limit) ==
    [provider |-> provider, anthropic |-> anthropic, capable |-> capable,
     byDefault |-> byDefault, limit |-> limit]
MCModels == [m \in {"claude", "gpt", "gemini", "routed", "upstream"} |->
    CASE m = "claude" -> model("anthropic", FALSE, TRUE, FALSE, Absent)
      [] m = "gpt" -> model("openai", FALSE, TRUE, TRUE, Absent)
      [] m = "gemini" -> model("google", FALSE, TRUE, TRUE, Absent)
      [] m = "routed" -> model("openrouter", FALSE, TRUE, FALSE, 20)
      [] OTHER -> model("openrouter", TRUE, TRUE, FALSE, 15)]

MCClients ==
    {[modelOverride |-> o, thinking |-> t[1], thinkingEnv |-> t[2], allowedTools |-> a] :
        o \in {Absent, "upstream"},
        t \in {<<Absent, Absent>>, <<Absent, "on">>, <<"on", Absent>>, <<"maybe", "on">>},
        a \in {Absent, {}, {"bash"}}}
MCDefinitions ==
    {[model |-> "claude", declaresBash |-> TRUE, degradations |-> {},
      vocabulary |-> [t \in {"HOLD", "PASS"} |-> "negative"]],
     [model |-> Absent, declaresBash |-> FALSE,
      degradations |-> {"normalization-fallback", "render:api-unavailable"},
      vocabulary |-> <<>>]}
MCOptions ==
    {[model |-> m, thinking |-> Absent, native |-> "none", thresholds |-> None] : m \in {"gpt", "routed"}}
    \cup {[model |-> Absent, thinking |-> t, native |-> n, thresholds |-> [pass |-> 75, warn |-> 50]] :
            t \in {Absent, "true", "yes"}, n \in {"none", "on", "off"}}
MCGates ==
    {[budget |-> b, maxTokens |-> m[1], callerMax |-> m[2]] :
        b \in {Unusable, 5, 12},
        m \in {<<9, Absent>>, <<9, 7>>, <<9, 11>>, <<Unusable, Absent>>, <<Absent, Unusable>>}}

=============================================================================
