----------------------------- MODULE AgentOutput -----------------------------
(***************************************************************************)
(* What core reads out of an agent's answer: the JSON and how far it is    *)
(* trusted (OutputExtractor), where a wide search would find a verdict     *)
(* (OutputNormalizer), and the verdict and score a gate reads              *)
(* (agentVerdict.ts).                                                      *)
(*                                                                         *)
(* A decision as written is a sequence of words and marks.  A JSON object  *)
(* is a function from the containers it has to what they hold; "top" is    *)
(* the object itself.  A text is a record of its fenced blocks, of the     *)
(* object it is as a whole, of the objects inside its prose, and of its    *)
(* labelled lines: what a Decision: says, and the number of a Score:,      *)
(* which is bare when nothing stands between the colon and its digits.     *)
(***************************************************************************)
EXTENDS Integers, Sequences, FiniteSets, SequencesExt, FiniteSetsExt

CONSTANTS
    None,           \* nothing there
    Broken,         \* a fenced block that does not parse
    NoObject,       \* a fenced block that parses, and is no object
    Words,          \* the words of decisions
    Space, Closing, \* a blank, and the marks that may close a word
    Quotes,         \* the marks that may open a quotation
    TokenOf,        \* a word, in upper case
    Register        \* the classes of the core register's tokens

ASSUME MarksAssumption == Space \notin Words /\ Closing \cap Words = {}

-----------------------------------------------------------------------------
(***************************************************************************)
(* The token rule: the first word, when nothing, a closing mark, or a      *)
(* blank before something other than a word follows it.                    *)
(***************************************************************************)
places(value, S) == {i \in DOMAIN value : value[i] \in S}
endsAt(value, i) ==
    LET rest == {k \in DOMAIN value : k > i /\ value[k] # Space}
    IN \/ i = Len(value)
       \/ value[i + 1] \in Closing
       \/ value[i + 1] = Space /\ (rest = {} \/ value[Min(rest)] \notin Words)
decisionToken(value) ==
    LET words == places(value, Words)
    IN IF words = {} \/ ~endsAt(value, Min(words)) THEN None
       ELSE TokenOf[value[Min(words)]]

\* The agent's vocabulary classes its own words, never those of the register.
classifyDecision(token, vocabulary) ==
    CASE token \in DOMAIN Register -> Register[token]
      [] token \notin DOMAIN Register /\ token \in DOMAIN vocabulary -> vocabulary[token]
      [] OTHER -> "neutral"
classify(value, vocabulary) ==
    IF decisionToken(value) = None THEN "neutral"
    ELSE classifyDecision(decisionToken(value), vocabulary)

-----------------------------------------------------------------------------
(***************************************************************************)
(* The ladder of extractions.                                              *)
(***************************************************************************)
extraction(json, confidence) == [json |-> json, confidence |-> confidence]

\* The last of the marked fences, or of all when none is marked.
extractFromCodeFence(text) ==
    LET marked == {i \in DOMAIN text.fences : text.fences[i].marked}
        matches == IF marked # {} THEN marked ELSE DOMAIN text.fences
    IN IF matches = {} THEN Broken ELSE text.fences[Max(matches)].body

\* The longest of the objects in prose that names a verdict somewhere.
extractInlineJson(text) ==
    IF text.keyed /\ text.inline # {}
    THEN (CHOOSE c \in text.inline : \A d \in text.inline : d.length <= c.length).json
    ELSE Broken

\* The patterns want a word, or one in quotes, right behind the label; the contract
\* reads past any marks there.
leads(value) ==
    \E i \in {1, 2} \cap DOMAIN value : value[i] \in Words /\ (i = 2 => value[1] \in Quotes)
extractFromStructuredText(text) ==
    \/ text.worded
    \/ \E i \in DOMAIN text.decisions : leads(text.decisions[i])
    \/ \E i \in DOMAIN text.scores : text.scores[i].bare

extractWithMetadata(text) ==
    LET fenced == extractFromCodeFence(text)  inline == extractInlineJson(text)
    IN CASE fenced # Broken -> extraction(IF fenced = NoObject THEN None ELSE fenced, 95)
         [] fenced = Broken /\ text.whole # None -> extraction(text.whole, 90)
         [] fenced = Broken /\ text.whole = None /\ inline # Broken -> extraction(inline, 75)
         [] fenced = Broken /\ text.whole = None /\ inline = Broken
              /\ extractFromStructuredText(text) ->
              extraction(None, 50)
         [] OTHER -> extraction(None, 0)

-----------------------------------------------------------------------------
(***************************************************************************)
(* The wide search, for display.                                           *)
(***************************************************************************)
Containers == <<"top", "summary", "result", "report", "results", "reportSummary", "wrapper">>
holding(json, field) ==
    IF json = None THEN <<>>
    ELSE SelectSeq(Containers, LAMBDA c : c \in DOMAIN json /\ json[c][field] # None)
\* Any decision before any status.
resolveDecisionField(json) ==
    CASE holding(json, "decision") # <<>> -> Head(holding(json, "decision"))
      [] holding(json, "decision") = <<>> /\ holding(json, "status") # <<>> ->
           Head(holding(json, "status"))
      [] OTHER -> None
resolveScoreField(json) ==
    IF holding(json, "score") # <<>> THEN Head(holding(json, "score")) ELSE None

-----------------------------------------------------------------------------
(***************************************************************************)
(* The contract.                                                           *)
(***************************************************************************)
\* Structured output is the envelope; JSON lifted out of a text is one only when it
\* carries a result.
\* (mistake: any object counts)
envelopeAny(json, structured) == json
envelope(json, structured) ==
    IF json # None /\ (structured \/ "result" \in DOMAIN json) THEN json ELSE None

\* The value under result, else at the top.
contractField(obj, field) ==
    CASE obj # None /\ "result" \in DOMAIN obj /\ obj["result"][field] # None ->
           obj["result"][field]
      [] obj # None /\ ~("result" \in DOMAIN obj /\ obj["result"][field] # None)
           /\ "top" \in DOMAIN obj -> obj["top"][field]
      [] OTHER -> None

firstLine(lines) == IF lines = <<>> THEN None ELSE Head(lines)
scoreLine(lines) == IF lines = <<>> THEN None ELSE Head(lines).number
contractScore(score) == IF score \in 0..100 THEN score ELSE None

verdicts == {"positive", "conditional", "negative"}
read(value, class) == [value |-> value, class |-> class]
readValue(value, vocabulary) ==
    IF value = None THEN read(None, "absent") ELSE read(value, classify(value, vocabulary))

\* A JSON value that says nothing never overrides a line that does.
chosen(json, line) ==
    CASE json.class \notin verdicts /\ json.class # "absent" /\ line.class \in verdicts -> line
      [] json.class = "absent" -> line
      [] OTHER -> json

decisionWarnings(json, line, displayed) ==
    LET class == chosen(json, line).class
    IN {w \in {"DECISION_CONFLICT", "ABSENT_DECISION", "NEUTRAL_DECISION",
               "FALLBACK_DECISION_SOURCE"} :
          CASE w = "DECISION_CONFLICT" ->
                 json.class \in verdicts /\ line.class \in verdicts /\ json.class # line.class
            [] w = "ABSENT_DECISION" -> class = "absent"
            [] w = "NEUTRAL_DECISION" -> class = "neutral"
            [] w = "FALLBACK_DECISION_SOURCE" -> class = "absent" /\ displayed # None}

\* A score that is named and unusable is none: no line replaces it.
contractScoreOf(named, line) ==
    IF named # None THEN contractScore(named) ELSE contractScore(line)
scoreWarnings(named, line, displayed) ==
    LET told == IF named # None THEN named ELSE line
    IN {w \in {"SCORE_INVALID", "FALLBACK_SCORE_SOURCE"} :
          IF w = "SCORE_INVALID" THEN told # None /\ contractScore(told) = None
          ELSE told = None /\ displayed # None}

readAgentVerdict(json, structured, text, vocabulary) ==
    LET obj == envelope(json, structured)
        fromJson == readValue(contractField(obj, "decision"), vocabulary)
        fromLine == readValue(firstLine(text.decisions), vocabulary)
        named == contractField(obj, "score")
        line == scoreLine(text.scores)
    IN [class |-> chosen(fromJson, fromLine).class,
        saved |-> chosen(fromJson, fromLine).value,
        score |-> contractScoreOf(named, line),
        warnings |-> decisionWarnings(fromJson, fromLine, resolveDecisionField(json))
                     \cup scoreWarnings(named, line, resolveScoreField(json))]

=============================================================================
