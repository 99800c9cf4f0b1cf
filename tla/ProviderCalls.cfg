CONSTANTS
    a = a  b = b  c = c  run = run  own = own
    NaN = NaN  Fraction = Fraction  NoSignal = NoSignal
    Calls = {a, b, c}
    CallerSignals = {run, own}
    Runs = {run}
    SignalOf <- MCSignalOf
    Structured = {a, c}
    Settings = {0, NaN, Fraction, 2}
SPECIFICATION Spec
CHECK_DEADLOCK FALSE
INVARIANTS
    FailuresAreTold
PROPERTIES
    LimiterIsKept
    EveryCallSettles
