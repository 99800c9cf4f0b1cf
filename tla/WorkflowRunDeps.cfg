CONSTANTS
    Workflows <- Wide
    Answers <- FewAnswers
    CallerSignals = {"live"}
SPECIFICATION SafeSpec
CHECK_DEADLOCK FALSE
INVARIANT
    DependenciesPassed
