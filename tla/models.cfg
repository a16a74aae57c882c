\* Streams of up to four lines, conversations of up to three messages, answers of
\* up to three candidates, at every model of llms; three requests of a cache; chains
\* over three documents, two principles and four lines; three plans of an agent;
\* three chunks of its final answer; five visits of a site.
CONSTANTS
    MaxLines = 4
    MaxChoices = 3
    MaxCalls = 2
    MaxDocs = 3
    MaxPrinciples = 2
    MaxPlans = 3
    MaxRequests = 3
    MaxChunks = 3
    MaxVisits = 5
SPECIFICATION Spec
INVARIANTS TypeOK RequestTellsConversation AnswerIsWhatWasSaid FailuresSurface NothingLeftBehind
PROPERTIES StreamsEnd
CHECK_DEADLOCK FALSE
