CONSTANTS
    Workflows <- AllWorkflows
    Answers <- MCAnswers
    CallerSignals = {"live", "aborted", "deadline"}
SPECIFICATION Spec
CHECK_DEADLOCK FALSE
INVARIANTS
    PhaseRecords
    VerdictTells
PROPERTIES
    StopsHold
    KeepsUnitContract
    KeepsSchedule
    Termination
