CONSTANTS
    Commands <- MCCommands
    Answers <- MCAnswers
    CallerSignals = {"live", "aborted", "deadline"}
SPECIFICATION Spec
CHECK_DEADLOCK FALSE
INVARIANTS
    PanelTells
    BetterScoresNeverReadWorse
PROPERTIES
    CommandKeepsItsWord
    Termination
