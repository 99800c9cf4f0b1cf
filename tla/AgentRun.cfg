CONSTANTS
    None = Absent
    Absent = Absent
    Broken = Broken
    NoObject = NoObject
    Unusable = Unusable
    Words <- MCWords
    Space = " "
    Closing = {")", "*"}
    Quotes = {"'"}
    TokenOf <- MCTokenOf
    Register <- MCRegister
    MIN_THINKING_BUDGET = 4
    DEFAULT_MAX_TOKENS = 16
    MAPPED_THINKING_PROVIDERS = {"openai", "google", "openrouter"}
    Models <- MCModels
    Clients <- MCClients
    Definitions <- MCDefinitions
    Options <- MCOptions
    Gates <- MCGates
    Answers <- MCAnswers
    DEFAULT_MODEL = "gemini"
    EXTRACTION_CONFIDENCE_THRESHOLD = 70
SPECIFICATION Spec
INVARIANTS
    VerdictIsTheAgents
    EvidenceLossIsMarked
    RunsOnWhatItPrepared
    ThinkingIsSound
