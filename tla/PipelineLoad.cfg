CONSTANTS
    MAX_CONDITION_LENGTH = 24
    Fragments <- MCFragments
    MaxFragments = 5
    Pipelines <- MCPipelines
    Inputs <- MCInputs
    Words = {"", "0", "yes"}
SPECIFICATION LoadSpec
CHECK_DEADLOCK FALSE
INVARIANTS
    LoadTypeOK
    ParserReadsTheGrammar
    UnpassedOutputNeverDecides
    AcceptedConditionsAreReadable
