SPECIFICATION Spec
CONSTANTS
    Unknown = Unknown
    Gone = Gone
INVARIANTS MatchingSound  HistorySound BorderSound PromptSound
CHECK_DEADLOCK FALSE
