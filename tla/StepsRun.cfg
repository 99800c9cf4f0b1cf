CONSTANTS
    p = p  q = q  v = v
    Count = 3
    Definitions <- MCDefinitions
    Params = {p, q}
    Target = q
    Variables = {v}
    EnvName <- MCEnvName
    Unusable = Unusable
    DEFAULT_STEP_TIMEOUT = 2
    MAX_STEP_RETRIES = 1
    MAX_RETRY_DELAY = 1
    LINGER = 1
SPECIFICATION Spec
CHECK_DEADLOCK FALSE
INVARIANTS
    StageTimeIsBounded
    ResultsTellEffects
    DeclaredValuesArrive
