--------------------------- MODULE MCTrackingRun ---------------------------
(***************************************************************************)
(* Two callers for TLC.  The first has every result that matters to a      *)
(* ceiling: an agent with up to three records under colliding ids, with    *)
(* blobs, and with recommendations up to and past the ceiling; a command;  *)
(* workflows and pipelines with more agents than a save may have, nested,  *)
(* skipped and crashed.  The second is one of a few runs that interleave.  *)
(***************************************************************************)
EXTENDS TrackingRun

CONSTANTS c1, c2

Plain == [title |-> "fits", agent |-> "fits", priority |-> "member",
          lineNumber |-> 4]
Wrong == [f \in Texts \union Vocabularies
                \union {"priority", "lineNumber", "secondaryFailureCodes"} |->
            CASE f = "lineNumber" -> -3
              [] f = "secondaryFailureCodes" -> "notArray"
              [] f = "failureMode" -> "offTaxonomy"
              [] f \in Texts -> "long"
              [] OTHER -> "other"]
Odd == [title |-> "empty", agent |-> "absent", priority |-> "other",
        lineNumber |-> Unusable, description |-> "long",
        secondaryFailureCodes |-> "long"]

Short == {<<"x">>, <<"X">>, <<"x", "~", "2">>}
Long == <<"x", "x", "x", "x">>
Cut == <<"x", "x", "~", "2">>
IdLists == [1..3 -> Short]
           \union {<<Long, Long>>, <<Long, Cut, Long>>, <<Long, Long, Cut>>,
                   <<Long, Cut, Long, Long>>}

Summary(blob) ==
    [categoryScores |-> <<[score |-> 7, weight |-> Unusable],
                          [score |-> Unusable, weight |-> 9],
                          [score |-> -2, weight |-> 999]>>,
     maps |-> 3, sections |-> 1, oddItems |-> TRUE,
     auditImplications |-> "long", metrics |-> blob]

Records(name, ids, data) ==
    [i \in DOMAIN ids |->
        [agentName |-> name, recordId |-> ids[i], data |-> data]]

Agent(name, version, ids, blob, recs) ==
    [type |-> "agent", name |-> name, version |-> version,
     decision |-> "PASS", decisionCategory |-> "absent",
     extractionConfidence |-> "absent", score |-> 181, maxScore |-> 400,
     summary |-> "long", tokens |-> 5, recommendations |-> recs,
     analysis |-> [summary |-> Summary(blob),
                   records |-> Records(name, ids, blob)]]

A == Agent("a", "1", <<<<"x">>>>, "big", <<Plain>>)
B == Agent("b", "2", <<<<"x">>, <<"x">>>>, "over", <<Wrong, Odd>>)
C == [Agent("c", "unknown", <<>>, "small", <<>>) EXCEPT
        !.tokens = -1, !.maxScore = Unusable, !.extractionConfidence = "low"]
Crashed == [Agent("d", "placeholder", <<>>, "small", <<Plain>>) EXCEPT
              !.score = Absent, !.maxScore = Absent, !.tokens = Unusable,
              !.decisionCategory = "negative"]

Composite(type, agents, recs) ==
    [A EXCEPT !.type = type, !.name = type, !.maxScore = Absent,
              !.recommendations = recs] @@
    [agentResults |-> agents, phases |-> <<>>, stages |-> <<>>,
     executed |-> 1, allGatesPassed |-> Absent]

Command(agents, recs) == Composite("command", agents, recs)
Phase(decision, commands) == [decision |-> decision, commands |-> commands]
Workflow(phases, recs) ==
    [Composite("workflow", <<>>, recs) EXCEPT
        !.phases = phases, !.decision = "SHIP"]
Stage(status, agents, result) ==
    [status |-> status, agentResults |-> agents, result |-> result]
Pipeline(stages, recs) ==
    [Composite("pipeline", <<>>, recs) EXCEPT !.stages = stages]

Recs(n) == [i \in 1..n |-> Plain]

Agents ==
    {Agent("a", "1", ids, "big", Recs(1)) : ids \in IdLists}
    \union {Agent("a", "1", <<>>, "small", Recs(n)) : n \in {3, 4}}
    \union {B, C}

CrashedCommand == [Command(<<>>, <<Plain>>) EXCEPT
                     !.version = "placeholder", !.score = Absent]

Composites ==
    {Command(<<A, B>>, Recs(2)), CrashedCommand,
     [Command(<<C>>, Recs(3)) EXCEPT !.extractionConfidence = "low"],
     Workflow(<<Phase("PASS", <<Command(<<A, B>>, <<>>)>>),
                Phase("aborted", <<Command(<<C, A>>, <<>>), CrashedCommand>>)>>,
              Recs(3)),
     [Workflow(<<Phase("skipped", <<>>)>>, <<>>) EXCEPT
        !.executed = 0, !.score = 0],
     Pipeline(<<Stage("complete", <<A, B, Crashed>>, Command(<<>>, <<>>)),
                Stage("complete", <<>>,
                      Workflow(<<Phase("PASS", <<Command(<<A, B, C, A, B>>, <<>>)>>)>>,
                               <<>>)),
                Stage("skipped", <<>>, Absent)>>, Recs(4)),
     [Pipeline(<<Stage("complete", <<>>, Command(<<A, B, C>>, <<>>)),
                 Stage("failed", <<>>, CrashedCommand)>>, Recs(3)) EXCEPT
        !.allGatesPassed = TRUE, !.extractionConfidence = "low"],
     [Pipeline(<<>>, <<>>) EXCEPT !.executed = 0, !.score = 0,
                                  !.allGatesPassed = FALSE]}

Job(entry, result) ==
    [entry |-> entry, throws |-> "no",
     resolved |-> [type |-> result.type, name |-> result.name,
                   version |-> result.version],
     result |-> result, trackResults |-> Absent, project |-> Absent,
     target |-> "target"]

EntryOf == [agent |-> "runAgent", command |-> "runCommand",
            workflow |-> "runWorkflow", pipeline |-> "wait"]

MCJobs ==
    c1 :> {Job(EntryOf[r.type], r) : r \in Agents \union Composites}
    @@ c2 :>
    {[Job("runAgent", B) EXCEPT !.throws = "billed", !.trackResults = TRUE],
     [Job("runAgent", B) EXCEPT !.throws = "unbilled"],
     [Job("runAgent", B) EXCEPT !.trackResults = FALSE],
[Job("run", Workflow(<<Phase("PASS", <<Command(<<A, B, C, A>>, <<>>)>>)>>,
                                 Recs(4))) EXCEPT !.project = "project"],
     Job("runCommand", A)}

MCConfigs ==
    {[trackingEnabled |-> TRUE, apiKey |-> TRUE, defaultProject |-> Absent],
     [trackingEnabled |-> FALSE, apiKey |-> TRUE, defaultProject |-> "default"],
     [trackingEnabled |-> FALSE, apiKey |-> FALSE, defaultProject |-> Absent]}

=============================================================================
