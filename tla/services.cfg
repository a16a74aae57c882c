\* Two documents, two calls of a caller that tries again, similarities 0 to 2;
\* two options more than the usual ones; three calls of two callers of a history;
\* texts of five characters or tokens, documents of two blocks under titles;
\* three texts to embed, in batches of up to two.
CONSTANTS MaxDocs = 2  MaxTries = 2
          MaxScore = 2  DefaultK = 1
          MaxOptions = 2
          Callers = {"a", "b"}  MaxCalls = 3  Limit = 2
          MaxTexts = 3  MaxSize = 2
          MaxCharacters = 5  MaxTokens = 5  MaxChunk = 4
SPECIFICATION SpecAll
INVARIANTS TypeOK AddedIsTold KeptIsGiven FoundIsAskedFor SettingsAreTold MarkdownIsKept
CHECK_DEADLOCK FALSE
