CONSTANTS
    Absent = Absent
    Garbled = Garbled
    Reports <- MCReports
    Windows = {100}
    Operators = {Absent, Garbled, 100}
    StepLimits = {Garbled, 0, 9}
    Rates <- MCRates
    DEFAULT_CONTEXT_BUDGET = 200
    DEFAULT_MAX_STEPS = 2
    MAX_STEPS_CEILING = 4
SPECIFICATION Spec
CHECK_DEADLOCK FALSE
INVARIANTS
    BrakesAreSound
    MarkersTellTheRun
    TokensArePricedOnce
