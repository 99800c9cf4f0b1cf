CONSTANTS
    Absent = Absent
    Garbled = Garbled
    Reports <- MCGarbled
    Windows = {100}
    Operators = {Absent, Garbled, 100}
    StepLimits = {2, 4}
    Rates <- MCRates
    DEFAULT_CONTEXT_BUDGET = 200
    DEFAULT_MAX_STEPS = 2
    MAX_STEPS_CEILING = 4
SPECIFICATION Spec
CHECK_DEADLOCK FALSE
INVARIANT UnusableCountsAreDropped
