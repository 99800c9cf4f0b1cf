CONSTANTS
    a = a
    b = b
    Agents <- MCAgents
    Pipelines <- Short
    Answers <- FewAnswers
    CallerSignals = {"none"}
    AllowStageSteps = TRUE
    LoggerThrows = TRUE
SPECIFICATION SafeSpec
INVARIANT ThrownRunFails
