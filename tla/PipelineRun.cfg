CONSTANTS
    a = a
    b = b
    Agents <- MCAgents
    Pipelines <- MCPipelines
    Answers <- MCAnswers
    CallerSignals = {"none", "live", "aborted", "deadline"}
    AllowStageSteps = TRUE
    LoggerThrows = TRUE
SPECIFICATION Spec
INVARIANTS
    StageRecords
    StopIsTold
PROPERTIES
    RunKeepsItsWord
    Termination
