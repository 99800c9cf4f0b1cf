CONSTANTS
    Commands <- FewCommands
    Answers <- FewAnswers
    CallerSignals = {"live"}
SPECIFICATION SafeSpec
CHECK_DEADLOCK FALSE
INVARIANTS
    ThrowsOnlyIfEveryAgentFailed
