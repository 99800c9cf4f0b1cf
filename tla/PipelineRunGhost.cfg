CONSTANTS
    a = a
    b = b
    Agents <- MCAgents
    Pipelines <- Ghost
    Answers <- FewAnswers
    CallerSignals = {"none"}
    AllowStageSteps = TRUE
    LoggerThrows = FALSE
SPECIFICATION SafeSpec
INVARIANT AbortCascade
