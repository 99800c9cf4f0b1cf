---------------------------- MODULE TrackingRun ----------------------------
(***************************************************************************)
(* Entry points of the client that run something and then save it          *)
(* (UluOpsClient): runAgent, runCommand, runWorkflow, runPipeline, run and *)
(* the wait() of a started pipeline, called concurrently on one client.    *)
(* Once the execution ends, the result is submitted to the tracker and the *)
(* definitions that ran are recorded in the registry; neither may change   *)
(* what the caller is told of its run.  An answer of the tracker may be    *)
(* lost after the run was saved.                                           *)
(*                                                                         *)
(* Every wait() of one handle builds its own result, so each is a call of  *)
(* its own here.  What a result holds once it is built is Submission's.    *)
(***************************************************************************)
EXTENDS Submission

CONSTANTS Callers,
          Jobs,        \* the jobs a caller may have: a function on Callers
          Configs      \* of the client: [trackingEnabled, apiKey,
                       \*                 defaultProject]

\* A job: [entry, throws, resolved, result, trackResults, project, target],
\* with resolved = [type, name, version] and throws one of "no", "billed" (the
\* step budget ran out and the error carries the metrics) and "unbilled".
EntryTypes == [runAgent |-> {"agent"}, runCommand |-> {"command"},
               runWorkflow |-> {"workflow"}, runPipeline |-> {"pipeline"},
               wait |-> {"pipeline"},
               run |-> {"agent", "command", "workflow", "pipeline"}]

\* The arrays a result of each type holds (AgentResult, CommandResult,
\* WorkflowResult, PipelineResult), and what is in them.
isList(s) == s \in Seq(Range(s))

\* An id is cut to its length where the record is made (safeRecordId).
RecordShape(record) ==
    /\ {"agentName", "recordId", "data"} \subseteq DOMAIN record
    /\ isList(record.recordId) /\ Len(record.recordId) <= RECORD_ID_MAX_LENGTH
SummaryShape(summary) ==
    /\ {"categoryScores", "maps", "sections", "oddItems", "auditImplications", "metrics"}
          \subseteq DOMAIN summary
    /\ isList(summary.categoryScores)
    /\ summary.maps \in Nat /\ summary.sections \in Nat
RecommendationShape(rec) ==
    /\ {"title", "agent", "priority"} \subseteq DOMAIN rec
    /\ rec.agent \in {"absent", "empty", "fits", "long"}
    /\ "secondaryFailureCodes" \in DOMAIN rec =>
          rec.secondaryFailureCodes \in {"absent", "fits", "long", "notArray"}

AgentShape(a) ==
    /\ SummaryShape(a.analysis.summary)
    /\ isList(a.analysis.records)
    /\ \A record \in Range(a.analysis.records) : RecordShape(record)
AgentsShape(l) == isList(l) /\ \A a \in Range(l) : AgentShape(a)
PhaseShape(phase) ==
    isList(phase.commands) /\ \A cmd \in Range(phase.commands) : AgentsShape(cmd.agentResults)
CompositeShape(r) ==
    IF r.type = "workflow"
    THEN isList(r.phases) /\ \A phase \in Range(r.phases) : PhaseShape(phase)
    ELSE AgentsShape(r.agentResults)
StageShape(stage) ==
    /\ AgentsShape(stage.agentResults)
    /\ stage.result # Absent => stage.result.type \in {"command", "workflow"}
                                /\ CompositeShape(stage.result)
ResultShape(r) ==
    /\ isList(r.recommendations)
    /\ \A rec \in Range(r.recommendations) : RecommendationShape(rec)
    /\ CASE r.type = "agent" -> AgentShape(r)
         [] r.type \in {"command", "workflow"} -> CompositeShape(r)
         [] r.type = "pipeline" ->
               isList(r.stages) /\ \A stage \in Range(r.stages) : StageShape(stage)
         [] OTHER -> FALSE

ASSUME JobsAssumption ==
    \A c \in Callers : \A j \in Jobs[c] :
        /\ j.throws \in {"no", "billed", "unbilled"} /\ ResultShape(j.result)
        /\ j.throws = "billed" => AgentShape(j.result)

\* Every project a run may be saved under; no run is taken for no run.
Projects == {cfg.defaultProject : cfg \in Configs}
            \union UNION {{j.project, j.target, j.resolved.name} :
                             j \in UNION {Jobs[c] : c \in Callers}}
ASSUME RunsAssumption == Absent \notin [runId : Nat, project : Projects]

VARIABLES
    config,
    job,        \* of each caller
    pc,         \* "idle", "running", "saving", "recording", "returned" or "threw"
    inflight,   \* what a caller has submitted, with its project
    fields,     \* what tracking wrote on the caller's result
    pending,    \* the executions still to be recorded
    tally,      \* the submission client's count of dropped entries
    tracker,    \* the runs saved, in order
    registry    \* the executions recorded

vars == <<config, job, pc, inflight, fields, pending, tally, tracker, registry>>
outside == <<tally, tracker, registry>>

\* The run id 'local' of a client that tracks nothing.
Local == 0

NoFields == [dashboardUrl |-> FALSE, repairedRecommendations |-> Absent,
             submissionTruncated |-> Absent, analysisRejected |-> Absent,
             trackedRun |-> Absent, trackingFailed |-> FALSE]

Init ==
    /\ config \in Configs
    /\ job = [c \in Callers |-> Absent]
    /\ pc = [c \in Callers |-> "idle"]
    /\ inflight = [c \in Callers |-> Absent]
    /\ fields = [c \in Callers |-> NoFields]
    /\ pending = [c \in Callers |-> <<>>]
    /\ tally = emptyTally
    /\ tracker = <<>>
    /\ registry = {}

-----------------------------------------------------------------------------

shouldTrack(j) ==
    /\ IF j.trackResults = Absent THEN config.trackingEnabled
       ELSE j.trackResults
    /\ config.apiKey

\* An explicit project, then the client's default, then the target directory.
projectOf(j) ==
    CASE j.project # Absent -> j.project
      [] j.project = Absent /\ config.defaultProject # Absent ->
            config.defaultProject
      [] j.project = Absent /\ config.defaultProject = Absent ->
            IF j.target # Absent THEN j.target ELSE j.resolved.name

\* The record of a run that ended in a throw after it was billed.
crashResult(j) ==
    [type |-> "agent", name |-> j.resolved.name, version |-> j.resolved.version,
     decision |-> "FAIL", decisionCategory |-> "negative",
     extractionConfidence |-> "absent", score |-> Absent, maxScore |-> Absent,
     summary |-> "absent", tokens |-> j.result.tokens,
     recommendations |->
        <<[title |-> "long", agent |-> "absent", priority |-> "member",
           severity |-> "member", failureCode |-> "member"]>>,
     analysis |-> [summary |-> j.result.analysis.summary, records |-> <<>>]]

hasBilledMetrics(j) == j.throws = "billed"

\* Only runAgent records a run that ended in a throw.
trackThrownRun(j) == j.entry = "runAgent" /\ hasBilledMetrics(j)

outcome(c) == IF job[c].throws = "no" THEN "returned" ELSE "threw"
trackedResult(j) == IF j.throws = "no" THEN j.result ELSE crashResult(j)

\* recordExecutions: the definition that ran, and for a composite each of the
\* agents its rows name, as far as they have a version.
executionsOf(j) ==
    LET rows == extractAgents(trackedResult(j))
        agents == chosen(rows, LAMBDA row : row.definitionVersion # Absent)
    IN  IF j.resolved.version = "unknown" THEN <<>>
        ELSE <<[kind |-> j.resolved.type, name |-> j.resolved.name]>>
             \o IF j.resolved.type = "agent" THEN <<>>
                ELSE Mapped(agents,
                            LAMBDA row : [kind |-> "agent", name |-> row.name])

-----------------------------------------------------------------------------

\* A caller calls an entry point; the execution it asks for begins.
Call(c) ==
    /\ pc[c] = "idle"
    /\ \E j \in Jobs[c] : job' = [job EXCEPT ![c] = j]
    /\ pc' = [pc EXCEPT ![c] = "running"]
    /\ UNCHANGED <<config, inflight, fields, pending, outside>>

\* The entry point finds another type than it is for, or its execution ends
\* and nothing is to be tracked.
EndUntracked(c) ==
    /\ pc[c] = "running"
    /\ \/ job[c].resolved.type \notin EntryTypes[job[c].entry]
          /\ pc' = [pc EXCEPT ![c] = "threw"]
       \/ job[c].resolved.type \in EntryTypes[job[c].entry]
          /\ \/ job[c].throws # "no" /\ ~trackThrownRun(job[c])
             \/ ~shouldTrack(job[c])
          /\ pc' = [pc EXCEPT ![c] = outcome(c)]
    /\ UNCHANGED <<config, job, inflight, fields, pending, outside>>

\* (mistake) A local client's answer is taken for a run.
trackedRunAlways(runId, project) == [runId |-> runId, project |-> project]

\* The run a response names, if it is one.
trackedRun(runId, project) ==
    IF runId = Local THEN Absent ELSE [runId |-> runId, project |-> project]

\* What a response writes on the result, and the recording that follows it.
\* Listing the agents again runs over the ceilings again, and counts again.
Mirror(c, response, counted) ==
    LET executions == executionsOf(job[c])
        drops == IF executions # <<>> /\ job[c].resolved.type # "agent"
                 THEN droppedAgents(trackedResult(job[c])) ELSE 0
    IN  /\ fields' = [fields EXCEPT
              ![c] = [@ EXCEPT
                  !.dashboardUrl = response.runId # Local,
                  !.repairedRecommendations = response.repairedRecommendations,
                  !.submissionTruncated = response.truncated,
                  !.analysisRejected = response.analysisRejected,
                  !.trackedRun =
                      trackedRun(response.runId, inflight'[c].project)]]
        /\ pending' = [pending EXCEPT
              ![c] = Mapped(executions, LAMBDA e :
                        [kind |-> e.kind, name |-> e.name,
                         runId |-> response.runId, by |-> c])]
        /\ pc' = [pc EXCEPT
              ![c] = IF executions = <<>> THEN outcome(c) ELSE "recording"]
        /\ tally' = [counted EXCEPT !.agents = @ + drops]

\* The execution ends and its result is made into a submission.  A client with
\* tracking off answers itself; otherwise the request leaves.
Submit(c) ==
    LET j == job[c]
        made == transformToOpsInput(trackedResult(j), tally)
        sent == [project |-> projectOf(j), input |-> made.input,
                 repairedRecommendations |-> made.repairedRecommendations,
                 truncated |-> made.truncated]
    IN  /\ pc[c] = "running"
        /\ j.resolved.type \in EntryTypes[j.entry]
        /\ j.throws = "no" \/ trackThrownRun(j)
        /\ shouldTrack(j)
        /\ inflight' = [inflight EXCEPT ![c] = sent]
        /\ IF config.trackingEnabled
           THEN /\ pc' = [pc EXCEPT ![c] = "saving"]
                /\ tally' = made.truncated
                /\ UNCHANGED <<fields, pending>>
           ELSE Mirror(c, [runId |-> Local,
                           repairedRecommendations |-> made.repairedRecommendations,
                           truncated |-> made.truncated,
                           analysisRejected |-> Absent], made.truncated)
        /\ UNCHANGED <<config, job, tracker, registry>>

\* The tracker saves the run and its answer arrives; it may have kept the run
\* and rejected the analysis of some agents, or be too old to say.
Saved(c) ==
    /\ pc[c] = "saving"
    /\ UNCHANGED <<config, job, inflight, registry>>
    /\ tracker' = Append(tracker, [by |-> c, project |-> inflight[c].project,
                                   input |-> inflight[c].input])
    /\ \E rejected \in {Absent, "some"} :
          Mirror(c, [runId |-> Len(tracker'),
                     repairedRecommendations |-> inflight[c].repairedRecommendations,
                     truncated |-> inflight[c].truncated,
                     analysisRejected |-> rejected], tally)

\* The save fails for the client: it was refused, or its answer was lost.
SaveFailed(c) ==
    /\ pc[c] = "saving"
    /\ \E kept \in BOOLEAN :
          tracker' = IF kept
                     THEN Append(tracker, [by |-> c, project |-> inflight[c].project,
                                           input |-> inflight[c].input])
                     ELSE tracker
    /\ fields' = [fields EXCEPT ![c] = [@ EXCEPT !.trackingFailed = TRUE,
                                                 !.trackedRun = Absent]]
    /\ pc' = [pc EXCEPT ![c] = outcome(c)]
    /\ UNCHANGED <<config, job, inflight, pending, tally, registry>>

\* One execution is recorded in the registry; a failure is only logged.
Record(c) ==
    /\ pc[c] = "recording"
    /\ \E done \in BOOLEAN :
          registry' = registry \union (IF done THEN {Head(pending[c])} ELSE {})
    /\ pending' = [pending EXCEPT ![c] = Tail(@)]
    /\ pc' = [pc EXCEPT ![c] = IF Len(pending[c]) = 1 THEN outcome(c) ELSE @]
    /\ UNCHANGED <<config, job, inflight, fields, tally, tracker>>

Next == \E c \in Callers : \/ Call(c)
                           \/ EndUntracked(c)
                           \/ Submit(c)
                           \/ Saved(c)
                           \/ SaveFailed(c)
                           \/ Record(c)

Spec == Init /\ [][Next]_vars

-----------------------------------------------------------------------------

(***************************************************************************)
(* Types: what is saved and recorded, and where every caller is.           *)
(***************************************************************************)
TypeOK ==
    /\ config \in Configs
    /\ \A c \in Callers : IF pc[c] = "idle" THEN job[c] = Absent ELSE job[c] \in Jobs[c]
    /\ pc \in [Callers -> {"idle", "running", "saving", "recording", "returned",
                        "threw"}]
    /\ \A c \in Callers :
          /\ DOMAIN fields[c] = DOMAIN NoFields
          /\ fields[c].trackingFailed \in BOOLEAN
          /\ pc[c] = "recording" <=> pending[c] # <<>>
          /\ pc[c] = "saving" =>
                DOMAIN inflight[c] = {"project", "input", "truncated",
                                      "repairedRecommendations"}
    /\ \A f \in DOMAIN tally : tally[f] \in Nat
    /\ \A i \in DOMAIN tracker : tracker[i].by \in Callers
    /\ \A e \in registry : e.by \in Callers /\ e.runId \in Nat

(***************************************************************************)
(* What the tracker, or its client, accepts of one save.                   *)
(***************************************************************************)
isMarker(rec) == rec.title = "truncated"

AcceptedRecommendation(r) ==
    /\ r.title = "fits" /\ r.agent \in {"empty", "fits"} /\ r.priority = "member"
    /\ \A f \in DOMAIN r \intersect Texts : r[f] # "long"
    /\ \A f \in DOMAIN r \intersect Vocabularies : r[f] # "other"
    /\ "lineNumber" \in DOMAIN r =>
          r.lineNumber = Absent \/ (r.lineNumber \in Nat /\ r.lineNumber % 2 = 0)
    /\ "secondaryFailureCodes" \in DOMAIN r =>
          r.secondaryFailureCodes \in {"absent", "fits"}

AcceptedSummary(s) ==
    /\ \A i \in DOMAIN s.categoryScores :
          LET cat == s.categoryScores[i]
          IN  /\ cat.score \in Nat /\ cat.score % 2 = 0
              /\ cat.weight \in 2..200 /\ cat.weight % 2 = 0
    /\ s.maps <= MaxMaps /\ s.sections <= MaxSections /\ ~s.oddItems
    /\ s.auditImplications # "long" /\ s.metrics # "over"

\* Of a row's score only the scale is held in bounds: the score goes out as it is.
AcceptedRow(row) ==
    /\ row.maxScore = Absent \/ row.maxScore \in 0..200
    /\ row.summary # "long"
    /\ \A n \in {row.inputTokens, row.cachedInputTokens} :
          n = Absent \/ (n \in Nat /\ n % 2 = 0)

(***************************************************************************)
(* No save is lost to one value of it (the ceilings of SubmissionClient,   *)
(* apiOnlyBounds and payloadGuards together): every submission has as many *)
(* rows, recommendations, summaries and records as a save may have, each   *)
(* within its own bounds; no agent has two records under one key, a        *)
(* renamed record is never one another record already is, and every id     *)
(* still fits; and the body stays under its limit as long as there is      *)
(* analysis left to drop, but for the marker, which the margin of the      *)
(* limit holds.  The score of a row is sent as the agent gave it, beside a *)
(* bounded scale, and no bound of it is claimed here.                      *)
(***************************************************************************)
PayloadFitsTheWire ==
    \A i \in DOMAIN tracker :
       LET p == tracker[i].input
           records == p.analysisRecords
       IN  /\ Len(p.agents) \in 1..MAX_RUN_AGENTS
           /\ Len(p.recommendations) <= MAX_RECOMMENDATIONS
           /\ Len(p.analysisSummary) <= MAX_ANALYSIS_SUMMARIES
           /\ Len(records) <= MAX_ANALYSIS_RECORDS
           /\ \A j \in DOMAIN p.agents : AcceptedRow(p.agents[j])
           /\ \A j \in DOMAIN p.recommendations :
                 \/ isMarker(p.recommendations[j])
                 \/ AcceptedRecommendation(p.recommendations[j])
           /\ \A j \in DOMAIN p.analysisSummary :
                 AcceptedSummary(p.analysisSummary[j])
           /\ \A j, k \in DOMAIN records :
                 /\ Len(records[j].recordId) <= RECORD_ID_MAX_LENGTH
                 /\ records[j].data # "over"
                 /\ keyOf(records[j]) = keyOf(records[k]) => j = k
           /\ \/ (p.analysisSummary = <<>> /\ records = <<>>)
              \/ payloadWeight(p.agents, p.recommendations, p.analysisSummary,
                               records) <= MAX_PAYLOAD + 1
           /\ p.averageScore = Absent \/ p.averageScore \in 0..200

\* How many rows and records a result has, whatever the ceilings.
stageRowCount(stage) ==
    IF stage.agentResults = <<>> /\ stage.result # Absent
       /\ stage.status # "skipped" /\ stage.result.type = "workflow"
    THEN Len(workflowRows(stage.result)) ELSE Len(stageRows(stage))

rowCount(result) ==
    CASE result.type = "pipeline" ->
            greatest(1, sumOf(Mapped(result.stages, stageRowCount)))
      [] OTHER -> Len(uncappedRows(result))

recordCount(result) ==
    sumOf(Mapped(analysisChildren(result), LAMBDA a : Len(a.analysis.records)))

markersOf(recs) == {j \in DOMAIN recs : isMarker(recs[j])}

\* What a save lacks of its result.
lostOf(result, p) ==
    [agents |-> rowCount(result) - Len(p.agents),
     recommendations |-> Len(result.recommendations)
        - Len(p.recommendations) + Cardinality(markersOf(p.recommendations)),
     analysisRecords |-> recordCount(result) - Len(p.analysisRecords)]

MarkedLoss(result, p) ==
    LET lost == lostOf(result, p)
    IN  IF \A kind \in DOMAIN lost : lost[kind] = 0 THEN markersOf(p.recommendations) = {}
        ELSE /\ markersOf(p.recommendations) = {Len(p.recommendations)}
             /\ \A kind \in DOMAIN lost :
                   Last(p.recommendations)[kind] = lost[kind]

ToldLoss(result, p, told) ==
    LET lost == lostOf(result, p)
    IN  /\ told.agents = lost.agents
        /\ told.analysisRecords = lost.analysisRecords
        /\ told.analysisSummaries =
              Len(analysisChildren(result)) - Len(p.analysisSummary)

(***************************************************************************)
(* What a submission leaves out is said (buildTruncationMarker, the tally  *)
(* of capWithWarning): a saved run lacks rows, recommendations or analysis *)
(* records of its result exactly when its last recommendation is the       *)
(* marker, which counts what is missing of each; and the caller's result   *)
(* counts the missing agents, records and summaries, whatever other        *)
(* submission the client made meanwhile.                                   *)
(***************************************************************************)
LossIsMarked ==
    \A i \in DOMAIN tracker :
       LET c == tracker[i].by
           told == fields[c].submissionTruncated
       IN  /\ MarkedLoss(trackedResult(job[c]), tracker[i].input)
           /\ told # Absent =>
                 ToldLoss(trackedResult(job[c]), tracker[i].input, told)

(***************************************************************************)
(* What the result says of its tracking is true (trackIfEnabled,           *)
(* recordExecutions): the run it names is one the tracker saved for this   *)
(* call, once, under the project it names; a result that says tracking     *)
(* failed names no run and links none; and an execution is recorded only   *)
(* for a call whose own run is saved, under that run's id.                 *)
(***************************************************************************)
ResultNamesItsRun ==
    /\ \A i, j \in DOMAIN tracker : tracker[i].by = tracker[j].by => i = j
    /\ \A c \in Callers :
          LET run == fields[c].trackedRun
          IN  /\ run # Absent =>
                    /\ run.runId \in DOMAIN tracker
                    /\ tracker[run.runId].by = c
                    /\ tracker[run.runId].project = run.project
                    /\ fields[c].dashboardUrl
              /\ fields[c].trackingFailed =>
                    run = Absent /\ ~fields[c].dashboardUrl
                    /\ fields[c].submissionTruncated = Absent
    /\ \A e \in registry :
          IF config.trackingEnabled
          THEN fields[e.by].trackedRun # Absent
               /\ fields[e.by].trackedRun.runId = e.runId
          ELSE e.runId = Local

(***************************************************************************)
(* A saved run claims no more than was measured (savedVerdict,             *)
(* averageScore, the crash record): a run that ended in a throw is saved   *)
(* as failed and without a score, one in which nothing executed has no     *)
(* score, a decision only guessed from prose passes no gate, and a         *)
(* pipeline passes exactly when its executor says so.                      *)
(***************************************************************************)
SavedVerdictHasEvidence ==
    \A i \in DOMAIN tracker :
       LET j == job[tracker[i].by]
           p == tracker[i].input
       IN  /\ j.throws = "billed" => ~p.allGatesPassed /\ p.averageScore = Absent
           /\ (j.throws = "no" /\ j.result.type \in {"workflow", "pipeline"}
               /\ j.result.executed = 0) => p.averageScore = Absent
           /\ (j.throws = "no" /\ j.result.type = "pipeline") =>
                 p.allGatesPassed = (j.result.allGatesPassed = TRUE)
           /\ (p.allGatesPassed /\ j.result.type # "pipeline") =>
                 j.result.extractionConfidence # "low"

(***************************************************************************)
(* "Zeros are measured" (RunSubmissionResponse.truncated): what a caller   *)
(* is told of dropped recommendations is how many of its own are missing   *)
(* from the run that was saved.                                            *)
(***************************************************************************)
DroppedAreCounted ==
    \A i \in DOMAIN tracker :
       LET c == tracker[i].by
           recs == tracker[i].input.recommendations
           told == fields[c].submissionTruncated
       IN  told # Absent =>
              told.recommendations =
                 Len(trackedResult(job[c]).recommendations)
                 - Cardinality({k \in DOMAIN recs : ~isMarker(recs[k])})

=============================================================================
