------------------------------ MODULE Services ------------------------------
(* What the models of the services around the chains are put together from, in *)
(* one state space: `part` says whether a behaviour chooses settings           *)
(* (Configuration), splits a text (TextSplit), embeds texts (Embeddings), adds *)
(* documents (VectorStoreAdd), searches them (VectorStoreSearch) or keeps the  *)
(* messages of a conversation (ChatHistory).                                   *)
(* The modules share the names of variables that mean the same; a variable     *)
(* that is not of the part stays None.                                         *)
EXTENDS Naturals, FiniteSets, Sequences

CONSTANTS MaxDocs, MaxTries,      \* of VectorStoreAdd, its MaxCalls
          MaxScore, DefaultK,     \* of VectorStoreSearch
          MaxOptions,             \* of Configuration
          Callers, MaxCalls, Limit,   \* of ChatHistory
          MaxTexts, MaxSize,      \* of Embeddings
          MaxCharacters, MaxTokens, MaxChunk   \* of TextSplit

ASSUME BoundsAssumption ==
    /\ {MaxDocs, MaxScore, DefaultK, MaxOptions, MaxCalls, Limit, MaxTexts, MaxSize,
        MaxCharacters, MaxTokens, MaxChunk} \subseteq Nat
    /\ MaxTries \in Nat \ {0}
    /\ IsFiniteSet(Callers) /\ Callers # {}

VARIABLES part, store, docs, pc, outcome,
          given, call, rows, dedup, limited, todo, ids,
          radius, wanted, threshold, filter, service, found,
          pkg, environment, remembered, opts, settings,
          overwrite, session, saved, open, held, said, unsure,
          embedder, batches, sent, answers, vectors,
          splitter, options, chunks

ofRows == <<call, rows>>
ofAdd == <<dedup, limited, todo, ids>>
ofSearch == <<radius, wanted, threshold, filter, service, found>>
ofSettings == <<pkg, environment, remembered, opts, settings>>
ofHistory == <<overwrite, session, saved, open, held, said, unsure>>
ofVectors == <<embedder, batches, sent, answers, vectors>>
ofTexts == <<splitter, options, chunks>>
vars == <<part, pc, outcome, store, docs, given, ofRows, ofAdd, ofSearch, ofSettings,
          ofHistory, ofVectors, ofTexts>>

Adding == INSTANCE VectorStoreAdd WITH MaxCalls <- MaxTries
Searching == INSTANCE VectorStoreSearch WITH k <- wanted, t <- threshold
Configuring == INSTANCE Configuration
Remembering == INSTANCE ChatHistory
Embedding == INSTANCE Embeddings
Splitting == INSTANCE TextSplit_proofs

\* What the records of the packages have in common.
ASSUME PackagesAssumption ==
    \A p \in Configuring!PackageNames :
        LET it == Configuring!PackageOf(p)
        IN /\ IsFiniteSet(it.option) /\ it.lateEnv \cap it.default = {}
           /\ it.fails \in {"refused", "panics"}

----------------------------------------------------------------------------
None == "none"

NoRows == call = None /\ rows = None
NoAdd == dedup = None /\ limited = None /\ todo = None /\ ids = None
NoSearch == /\ radius = None /\ wanted = None /\ threshold = None /\ filter = None
            /\ service = None /\ found = None
NoSettings == /\ pkg = None /\ environment = None /\ remembered = None
              /\ opts = None /\ settings = None
NoHistory == /\ overwrite = None /\ session = None /\ saved = None /\ open = None
             /\ held = None /\ said = None /\ unsure = None
NoVectors == /\ embedder = None /\ batches = None /\ sent = None /\ answers = None
             /\ vectors = None
NoTexts == splitter = None /\ options = None /\ chunks = None

Init ==
    \/ /\ part = "add" /\ Adding!Init
       /\ NoSearch /\ NoSettings /\ NoHistory /\ NoVectors /\ NoTexts
    \/ /\ part = "search" /\ Searching!Init /\ given = None
       /\ NoRows /\ NoAdd /\ NoSettings /\ NoHistory /\ NoVectors /\ NoTexts
    \/ /\ part = "settings" /\ Configuring!Init /\ given = None /\ store = None /\ docs = None
       /\ NoRows /\ NoAdd /\ NoSearch /\ NoHistory /\ NoVectors /\ NoTexts
    \/ /\ part = "history" /\ Remembering!Init /\ given = None /\ docs = None
       /\ NoAdd /\ NoSearch /\ NoSettings /\ NoVectors /\ NoTexts
    \/ /\ part = "vectors" /\ Embedding!Init /\ store = None /\ docs = None
       /\ NoRows /\ NoAdd /\ NoSearch /\ NoSettings /\ NoHistory /\ NoTexts
    \/ /\ part = "text" /\ Splitting!Init /\ store = None /\ docs = None
       /\ NoRows /\ NoAdd /\ NoSearch /\ NoSettings /\ NoHistory /\ NoVectors

Add == /\ part = "add" /\ Adding!Next
       /\ UNCHANGED <<part, ofSearch, ofSettings, ofHistory, ofVectors, ofTexts>>
Search == /\ part = "search" /\ Searching!Next
          /\ UNCHANGED <<part, given, ofRows, ofAdd, ofSettings, ofHistory, ofVectors,
                         ofTexts>>
Configure == /\ part = "settings" /\ Configuring!Next
             /\ UNCHANGED <<part, given, store, docs, ofRows, ofAdd, ofSearch, ofHistory,
                            ofVectors, ofTexts>>
Remember == /\ part = "history" /\ Remembering!Next
            /\ UNCHANGED <<part, given, docs, ofAdd, ofSearch, ofSettings, ofVectors,
                           ofTexts>>
Embed == /\ part = "vectors" /\ Embedding!Next
         /\ UNCHANGED <<part, store, docs, ofRows, ofAdd, ofSearch, ofSettings, ofHistory,
                        ofTexts>>
Split == /\ part = "text" /\ Splitting!Next
         /\ UNCHANGED <<part, store, docs, ofRows, ofAdd, ofSearch, ofSettings, ofHistory,
                        ofVectors>>

Next == Add \/ Search \/ Configure \/ Remember \/ Embed \/ Split

Spec == Init /\ [][Next]_vars

----------------------------------------------------------------------------
(* The state of each part keeps its types. *)
TypeOK == /\ part = "add" => Adding!TypeOK
          /\ part = "search" => Searching!TypeOK
          /\ part = "settings" => Configuring!TypeOK
          /\ part = "history" => Remembering!TypeOK
          /\ part = "vectors" => Embedding!TypeOK
          /\ part = "text" => Splitting!TypeOK

(* What AddDocuments returns tells what was kept: after a success every document
   and its id, after an error only ids of documents that are there, and of one
   request all documents or none. *)
AddedIsTold ==
    part = "add" =>
        /\ Adding!IdsNameAdded /\ Adding!SuccessIsComplete
        /\ Adding!IdsOfErrorAreAdded /\ Adding!AllOrNothing

(* The store holds what the caller gave, each document of a known id once, none
   the deduplicater knows; and it panics on no call but those named. Of a text that
   is split the chunks have all and nothing else, in its order, and are no longer and
   share no more than they may. *)
KeptIsGiven ==
    /\ part = "text" =>
        /\ Splitting!WordsKept /\ Splitting!ChunksFit
        /\ Splitting!OverlapKept /\ Splitting!TokensKept
    /\ part = "add" =>
        /\ Adding!OwnIdsOnce /\ Adding!RowsAreGiven
        /\ Adding!KnownKeptOut /\ Adding!PanicsKnown

(* What is found is what was asked for: of this filter, namespace and threshold,
   at most that many, the most similar of them; and a failure is not an answer. Of
   a conversation it is all that was said in the session, in order. Each text is
   sent to be embedded once, and its vector comes back at its place. *)
FoundIsAskedFor ==
    /\ part = "vectors" =>
        /\ Embedding!TextsAreSent /\ Embedding!VectorsOfTexts
        /\ Embedding!CountedOrOneByOne /\ Embedding!EmbedderPanicsKnown
    /\ part = "history" =>
        /\ Remembering!TalkIsRead /\ Remembering!OwnAreRead /\ Remembering!ReadsAreAnswered
    /\ part = "search" =>
        /\ Searching!NoneTooLow /\ Searching!FilterKept /\ Searching!OthersKeptOut
        /\ Searching!AtMostAsked /\ Searching!BestAreFound /\ Searching!FilteredBeforeCut
        /\ Searching!FilteredExactly /\ Searching!RadiusStays
        /\ Searching!FailureIsError /\ Searching!ScoreIsSimilarity

(* The settings of a constructor are those the caller gave, the environment as it
   is, and all that is needed. *)
SettingsAreTold ==
    part = "settings" =>
        /\ Configuring!GivenIsUsed /\ Configuring!EnvironmentIsCurrent
        /\ Configuring!CreatedIsComplete

=============================================================================
