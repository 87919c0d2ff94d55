SPECIFICATION Spec
CONSTANTS
    MaxCalls = 3
    TimeoutStages = {"posted", "running"}
INVARIANTS
    AnswerMatchesCall
CHECK_DEADLOCK FALSE
