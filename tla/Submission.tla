----------------------------- MODULE Submission -----------------------------
(***************************************************************************)
(* What the submission client makes of one result before it is saved       *)
(* (SubmissionClient.transformToOpsInput and its guards): the agents' rows *)
(* of a command, a workflow or a pipeline, the repaired recommendations,   *)
(* the analysis summaries and records, all within the bounds the tracker   *)
(* and its client enforce, since one value past a bound costs the whole    *)
(* save; and the account of what had to be left out.                       *)
(*                                                                         *)
(* Numbers that may be fractions are counted in halves.  A text is         *)
(* "absent", "empty", "fits" or "long"; a value of a closed vocabulary is  *)
(* "absent", "member" or "other".  A record id is a sequence of            *)
(* characters, since its case and its length matter.                       *)
(***************************************************************************)
EXTENDS Integers, SequencesExt, FiniteSetsExt

CONSTANTS MAX_RUN_AGENTS, MAX_RECOMMENDATIONS, MAX_ANALYSIS_RECORDS,
          MAX_ANALYSIS_SUMMARIES,   \* the ceilings of one save
          RECORD_ID_MAX_LENGTH,
          MAX_PAYLOAD,              \* the body limit, in units of weight
          BlobWeight,               \* weight of a large blob within its bound
          MaxMaps, MaxSections,     \* bounds of an exploration map
          Unusable,                 \* NaN or an infinity
          Absent                    \* undefined, or a score that is null

ASSUME CeilingsAssumption ==
    /\ {MAX_RUN_AGENTS, MAX_RECOMMENDATIONS, MAX_ANALYSIS_RECORDS,
        MAX_ANALYSIS_SUMMARIES, RECORD_ID_MAX_LENGTH} \subseteq Nat \ {0, 1}
    /\ {MAX_PAYLOAD, BlobWeight, MaxMaps, MaxSections} \subseteq Nat \ {0}

\* Math.round of a number of halves, in halves.
roundHalves(h) == 2 * ((h + 1) \div 2)

least(a, b) == IF a < b THEN a ELSE b
greatest(a, b) == IF a < b THEN b ELSE a
Mapped(s, Op(_)) == [i \in DOMAIN s |-> Op(s[i])]

\* The elements that pass, in their order; and a sum, from the left.
chosen(s, Test(_)) ==
    FlattenSeq(Mapped(s, LAMBDA e : IF Test(e) THEN <<e>> ELSE <<>>))

sumOf(numbers) ==
    LET sum[n \in 0..Len(numbers)] ==
            IF n = 0 THEN 0 ELSE sum[n - 1] + numbers[n]
    IN  sum[Len(numbers)]

-----------------------------------------------------------------------------
(* One recommendation.                                                     *)

Texts == {"agent", "title", "category", "filePath", "description",
          "taxonomyVersion"}
Vocabularies == {"severity", "failureCode", "failureDomain", "failureMode",
                 "classificationConfidence", "classifiedBy"}

clamp(text) == IF text = "long" THEN "fits" ELSE text
keepIfValid(value) == IF value = "other" THEN "absent" ELSE value

repairLineNumber(n) ==
    IF n \notin Int THEN Absent ELSE greatest(0, roundHalves(n))

\* The secondary codes: not an array, entries that are no strings or too
\* long, more than twenty of them.
keepSecondaryFailureCodes(codes) ==
    CASE codes = "notArray" -> "absent"
      [] codes = "long" -> "fits"
      [] OTHER -> codes

sanitized(r) ==
    [f \in DOMAIN r |->
        CASE f = "priority" -> "member"
          [] f = "agent" -> IF r.agent = "absent" THEN "fits" ELSE clamp(r.agent)
          [] f = "title" -> "fits"
          [] f \in Texts \ {"agent", "title"} -> clamp(r[f])
          [] f \in Vocabularies -> keepIfValid(r[f])
          [] f = "lineNumber" -> repairLineNumber(r.lineNumber)
          [] f = "secondaryFailureCodes" -> keepSecondaryFailureCodes(r[f])]

\* The fields a repair is noted for.  A mode outside the taxonomy is noted and
\* sent as it is; an empty title, an absent agent and an unusable line number
\* are replaced without a note.
repairs(r) ==
    {f \in DOMAIN r :
        \/ f \in Texts /\ r[f] = "long"
        \/ f \in Vocabularies /\ r[f] \in {"other", "offTaxonomy"}
        \/ f = "priority" /\ r.priority # "member"
        \/ f = "lineNumber" /\ r.lineNumber \in Int
                            /\ repairLineNumber(r.lineNumber) # r.lineNumber
        \/ f = "secondaryFailureCodes" /\ r[f] \in {"long", "notArray"}}

-----------------------------------------------------------------------------
(* The agents' rows.                                                       *)

realVersion(v) == IF v \in {"unknown", "placeholder"} THEN Absent ELSE v

\* Scores and scales, in halves.
clampMaxScore(n) ==
    IF n \notin Int THEN 200 ELSE greatest(0, least(200, n))

repairTokenCount(n) ==
    IF n \notin Int \/ (n \in Int /\ n < 0) THEN Absent ELSE roundHalves(n)

wireSummary(text) == clamp(text)

resultToAgent(result) ==
    [name |-> result.name,
     definitionVersion |-> realVersion(result.version),
     score |-> result.score,
     maxScore |-> IF result.score = Absent THEN Absent
                  ELSE clampMaxScore(IF result.maxScore = Absent THEN 200
                                     ELSE result.maxScore),
     summary |-> IF result.type = "agent" THEN wireSummary(result.summary)
                 ELSE "absent",
     inputTokens |-> LET n == repairTokenCount(result.tokens)
                     IN  IF n = Absent THEN 0 ELSE n,
     cachedInputTokens |-> repairTokenCount(result.tokens)]

commandRows(cmd) ==
    IF cmd.agentResults # <<>> THEN Mapped(cmd.agentResults, resultToAgent)
    ELSE <<resultToAgent(cmd)>>

orItself(rows, result) ==
    IF rows = <<>> THEN <<resultToAgent(result)>> ELSE rows

\* Every row of a result, before any ceiling.
phaseRows(phase) ==
    IF phase.decision = "skipped" THEN <<>>
    ELSE FlattenSeq(Mapped(phase.commands, commandRows))

workflowRows(wf) == orItself(FlattenSeq(Mapped(wf.phases, phaseRows)), wf)

capped(items, max) == SubSeq(items, 1, least(Len(items), max))

\* (mistake) An array with room to spare counts as a negative loss.
overflowSigned(items, max) == Len(items) - max

overflow(items, max) == greatest(0, Len(items) - max)

extractWorkflowAgents(wf) == capped(workflowRows(wf), MAX_RUN_AGENTS)

stageRows(stage) ==
    IF stage.status = "skipped" \/ stage.result = Absent THEN <<>>
    ELSE IF stage.agentResults # <<>>
         THEN Mapped(stage.agentResults, resultToAgent)
    ELSE IF stage.result.type = "workflow"
         THEN extractWorkflowAgents(stage.result)
    ELSE commandRows(stage.result)

pipelineRows(pl) == orItself(FlattenSeq(Mapped(pl.stages, stageRows)), pl)

uncappedRows(result) ==
    CASE result.type = "workflow" -> workflowRows(result)
      [] result.type = "pipeline" -> pipelineRows(result)
      [] result.type = "command" -> commandRows(result)
      [] result.type = "agent" -> <<resultToAgent(result)>>

\* A command's own rows are not capped.
extractAgents(result) ==
    IF result.type \in {"workflow", "pipeline"}
    THEN capped(uncappedRows(result), MAX_RUN_AGENTS)
    ELSE uncappedRows(result)

\* What the ceilings dropped: a workflow inside a stage has met its own first.
stageDrops(stage) ==
    IF stage.status # "skipped" /\ stage.result # Absent
       /\ stage.agentResults = <<>>
    THEN IF stage.result.type = "workflow"
         THEN overflow(workflowRows(stage.result), MAX_RUN_AGENTS) ELSE 0
    ELSE 0

droppedAgents(result) ==
    CASE result.type = "workflow" ->
            overflow(workflowRows(result), MAX_RUN_AGENTS)
      [] result.type = "pipeline" ->
            overflow(pipelineRows(result), MAX_RUN_AGENTS)
            + sumOf(Mapped(result.stages, stageDrops))
      [] OTHER -> 0

-----------------------------------------------------------------------------
(* The analysis: one summary and some records of each agent that ran.      *)

\* A composite's agents in walk order (a stage's own list first), without the
\* placeholders of crashed and aborted runs.
childrenOf(result) ==
    CASE result.type = "command" -> result.agentResults
      [] result.type = "workflow" ->
            FlattenSeq(Mapped(FlattenSeq(
                [i \in DOMAIN result.phases |-> result.phases[i].commands]),
                LAMBDA cmd : cmd.agentResults))
      [] OTHER -> <<>>

stageChildren(stage) ==
    IF stage.agentResults # <<>> THEN stage.agentResults
    ELSE IF stage.result = Absent THEN <<>> ELSE childrenOf(stage.result)

analysisChildren(result) ==
    chosen(CASE result.type = "agent" -> <<result>>
             [] result.type = "pipeline" ->
                   FlattenSeq(Mapped(result.stages, stageChildren))
             [] OTHER -> childrenOf(result),
           LAMBDA agent : agent.version # "placeholder"
                          \/ result.type = "agent")

\* A summary repaired to the bounds only the tracker enforces: a category
\* without a finite score is dropped and the others are rounded, maps and
\* their sections are cut, an item that is no object goes, and a blob over its
\* bound is sent as null.
repairCategory(cat, share) ==
    [score |-> greatest(0, roundHalves(cat.score)),
     weight |-> IF cat.weight \notin Int THEN 2 * share
                ELSE least(200, greatest(2, roundHalves(cat.weight)))]

repairCategories(cats) ==
    LET share == IF cats = <<>> THEN 1
                 ELSE greatest(1, roundHalves(200 \div Len(cats)) \div 2)
    IN  Mapped(chosen(cats, LAMBDA cat : cat.score \in Int),
               LAMBDA cat : repairCategory(cat, share))

blobExceedsBound(blob) == blob = "over"

repairSummary(summary) ==
    [summary EXCEPT
        !.categoryScores = repairCategories(@),
        !.maps = least(@, MaxMaps),
        !.sections = least(@, MaxSections),
        !.oddItems = FALSE,
        !.auditImplications = clamp(@),
        !.metrics = IF blobExceedsBound(@) THEN "absent" ELSE @]

\* Over the bound, a record's data becomes a stub.
repairRecord(record) ==
    [record EXCEPT !.data = IF blobExceedsBound(@) THEN "small" ELSE @]

-----------------------------------------------------------------------------
(* Record ids, made unique for each agent under the tracker's fold.        *)

Digits == <<"0", "1", "2", "3", "4", "5", "6", "7", "8", "9">>

\* A number in decimals, digit by digit.
decimal(n) ==
    LET numeral[k \in 0..n] ==
            IF k < 10 THEN <<Digits[k + 1]>>
            ELSE Append(numeral[k \div 10], Digits[(k % 10) + 1])
    IN  numeral[n]

suffix(n) == <<"~">> \o decimal(n)

\* The fold forgets case (and accents, and outer blanks).
fold(id) == Mapped(id, LAMBDA c : IF c = "X" THEN "x" ELSE c)
key(agentName, id) == <<agentName, fold(id)>>
keyOf(record) == key(record.agentName, record.recordId)

suffixed(id, n) ==
    SubSeq(id, 1, least(Len(id), RECORD_ID_MAX_LENGTH - Len(suffix(n)))) \o suffix(n)

isFirst(records, i) ==
    \A j \in 1..(i - 1) : keyOf(records[j]) # keyOf(records[i])

\* (mistake) Only the keys already given are taken.
reservedKeysNone(records) == {}

\* The keys of all first occurrences are reserved before any suffix is given.
reservedKeys(records) == {keyOf(records[i]) : i \in DOMAIN records}

\* One of these is free: they are more than there are keys in use.
freeSuffix(record, used) ==
    Min({n \in 2 .. Cardinality(used) + 2 :
            key(record.agentName, suffixed(record.recordId, n)) \notin used})

\* Every suffix that a save may need leaves room in an id.
ASSUME SuffixAssumption ==
    \A n \in 2 .. 2 * MAX_ANALYSIS_RECORDS + 2 : Len(suffix(n)) <= RECORD_ID_MAX_LENGTH

renamed(record, used) ==
    [record EXCEPT !.recordId = suffixed(@, freeSuffix(record, used))]

guardRecord(records, i, used) ==
    IF isFirst(records, i) THEN records[i] ELSE renamed(records[i], used)

guardRecordKeys(records) ==
    LET next(done, i) ==
            LET record == guardRecord(records, i, done.used)
            IN  [used |-> done.used \union {keyOf(record)},
                 out |-> Append(done.out, record)]
        guarded[n \in 0..Len(records)] ==
            IF n = 0 THEN [used |-> reservedKeys(records), out |-> <<>>]
            ELSE next(guarded[n - 1], n)
    IN  guarded[Len(records)].out

-----------------------------------------------------------------------------
(* The body's weight.                                                      *)

weightOf(blob) == IF blob = "big" THEN BlobWeight ELSE 1

payloadWeight(rows, recs, summaries, records) ==
    Len(rows) + Len(recs)
    + sumOf(Mapped(summaries, LAMBDA s : weightOf(s.metrics)))
    + sumOf(Mapped(records, LAMBDA r : weightOf(r.data)))

\* How many summaries and records stay: summaries go first, from the end,
\* then records, until the body fits or there is nothing left to drop.
enforcePayloadBudget(rows, recs, summaries, records) ==
    LET fits(s, r) == payloadWeight(rows, recs, SubSeq(summaries, 1, s),
                                    SubSeq(records, 1, r)) <= MAX_PAYLOAD
        some == {s \in 0..Len(summaries) : fits(s, Len(records))}
        none == {r \in 0..Len(records) : fits(0, r)}
    IN  IF some # {} THEN [summaries |-> Max(some), records |-> Len(records)]
        ELSE [summaries |-> 0,
              records |-> IF none = {} THEN 0 ELSE Max(none)]

-----------------------------------------------------------------------------
(* The verdict and the whole transformation.                               *)

\* (mistake) The confidence floor is forgotten.
isPositiveWord(result) ==
    IF result.decisionCategory # "absent"
    THEN result.decisionCategory = "positive"
    ELSE result.decision \in {"PASS", "SHIP"}

isPositiveDecision(result) ==
    /\ ~(result.extractionConfidence = "low")
    /\ IF result.decisionCategory # "absent"
       THEN result.decisionCategory = "positive"
       ELSE result.decision \in {"PASS", "SHIP"}

\* A pipeline saves what its executor computed; without it, FALSE.
savedVerdict(result) ==
    IF result.type # "pipeline" THEN isPositiveDecision(result)
    ELSE result.allGatesPassed = TRUE

verifiedNothingExecuted(result) ==
    result.type \in {"workflow", "pipeline"} /\ result.executed = 0

clampAverageScore(n) == clampMaxScore(n)

averageScore(result) ==
    IF result.score = Absent \/ verifiedNothingExecuted(result) THEN Absent
    ELSE clampAverageScore(result.score)

emptyTally == [agents |-> 0, recommendations |-> 0, analysisRecords |-> 0,
               analysisSummaries |-> 0]

buildTruncationMarker(tally, droppedRecommendations) ==
    [title |-> "truncated", agents |-> tally.agents,
     recommendations |-> droppedRecommendations,
     analysisRecords |-> tally.analysisRecords]

\* The marker takes the place of the last recommendation when there is no room.
marked(recs, tally, produced) ==
    LET kept == capped(recs, MAX_RECOMMENDATIONS - 1)
        marker == buildTruncationMarker(tally, produced - Len(kept))
    IN  IF /\ produced = Len(recs)
           /\ tally.agents = 0
           /\ tally.analysisRecords = 0
        THEN recs
        ELSE Append(kept, marker)

\* (mistake) The count goes on from the submission before.
freshTallyNever(tally) == tally

\* tally is the client's count of dropped entries when the work begins: it is
\* reset first.
freshTally(tally) == emptyTally

transformToOpsInput(result, tally) ==
    LET fresh == freshTally(tally)
        rows == extractAgents(result)
        children == analysisChildren(result)
        summaries == Mapped(children, LAMBDA a : repairSummary(a.analysis.summary))
        records == FlattenSeq(Mapped(children,
                     LAMBDA a : Mapped(a.analysis.records, repairRecord)))
        allRecs == Mapped(result.recommendations, sanitized)
        recs == capped(allRecs, MAX_RECOMMENDATIONS)
        someSummaries == capped(summaries, MAX_ANALYSIS_SUMMARIES)
        someRecords == guardRecordKeys(capped(records, MAX_ANALYSIS_RECORDS))
        kept == enforcePayloadBudget(rows, recs, someSummaries, someRecords)
        total ==
            [agents |-> fresh.agents + droppedAgents(result),
             recommendations |-> fresh.recommendations
                + overflow(allRecs, MAX_RECOMMENDATIONS),
             analysisRecords |-> fresh.analysisRecords
                + Len(records) - kept.records,
             analysisSummaries |-> fresh.analysisSummaries
                + Len(summaries) - kept.summaries]
    IN  [input |->
            [agents |-> rows,
             recommendations |-> marked(recs, total, Len(allRecs)),
             analysisSummary |-> SubSeq(someSummaries, 1, kept.summaries),
             analysisRecords |-> SubSeq(someRecords, 1, kept.records),
             allGatesPassed |-> savedVerdict(result),
             averageScore |-> averageScore(result),
             definitionVersion |-> IF result.version = "unknown" THEN Absent
                                   ELSE result.version],
         repairedRecommendations |->
            Len(chosen(result.recommendations, LAMBDA r : repairs(r) # {})),
         truncated |-> total]

=============================================================================
