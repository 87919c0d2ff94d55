SPECIFICATION Spec
CONSTANTS
    MaxCalls = 3
    MaxFailures = 0
INVARIANTS
    AnswerMatchesCall
CHECK_DEADLOCK FALSE
