\* Every model under llms/, one candidate with at most one tool call.
SPECIFICATION Spec
CONSTANTS
    MaxChoices = 1
    MaxCalls = 1
INVARIANT StreamedCallsAnswered
CHECK_DEADLOCK FALSE
