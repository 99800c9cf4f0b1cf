CONSTANTS
    Workflows <- Queue
    Answers <- FewAnswers
    CallerSignals = {"live"}
SPECIFICATION SafeSpec
CHECK_DEADLOCK FALSE
PROPERTY
    AbortSkipsRemaining
