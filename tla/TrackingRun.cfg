CONSTANTS
    c1 = c1  c2 = c2
    Callers = {c1, c2}
    Jobs <- MCJobs
    Configs <- MCConfigs
    MAX_RUN_AGENTS = 3
    MAX_RECOMMENDATIONS = 3
    MAX_ANALYSIS_RECORDS = 3
    MAX_ANALYSIS_SUMMARIES = 2
    RECORD_ID_MAX_LENGTH = 4
    MAX_PAYLOAD = 11
    BlobWeight = 3
    MaxMaps = 2
    MaxSections = 2
    Unusable = Unusable
    Absent = Absent
SPECIFICATION Spec
CHECK_DEADLOCK FALSE
INVARIANTS
    TypeOK
    PayloadFitsTheWire
    LossIsMarked
    ResultNamesItsRun
    SavedVerdictHasEvidence
