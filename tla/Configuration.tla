---------------------------- MODULE Configuration ----------------------------
(***************************************************************************)
(* How the constructors of the packages choose their settings: the         *)
(* environment and the defaults at the start, the options in the order     *)
(* they are given, the environment and the defaults for what is still      *)
(* blank, and what is refused. A constructor is called twice with the same *)
(* options, and the environment changes in between.                        *)
(*                                                                         *)
(* A setting is told by where its value is from; a zero value or a nil     *)
(* pointer is blank. Options that append to a list are left out.           *)
(***************************************************************************)
EXTENDS Naturals, FiniteSets, SequencesExt

CONSTANTS MaxOptions   \* options the caller adds to the usual ones

(* What a constructor does with the fields of its package.                 *)
Package == [env |-> {},          \* read from the environment before the options
            default |-> {},      \* have a default before the options
            option |-> {},       \* set by an option, or given as an argument
            flag |-> {},         \* set by an option that has no value
            joint |-> <<>>,      \* the fields of an option that sets several
            lateEnv |-> {},      \* if blank, read from the environment
            lateDefault |-> {},  \* if still blank, given a default
            needed |-> {},       \* of each set one must not be blank
            unsure |-> {},       \* whose default may not be had
            fails |-> "refused"] \* what comes of that

----------------------------------------------------------------------------
(* Models.                                                                 *)

OpenAIOptions == {"token", "model", "embeddingModel", "baseURL", "organization", "apiType",
                  "apiVersion", "httpClient", "callbackHandler", "responseFormat"}
OpenAI == [Package EXCEPT !.env = {"token", "model", "baseURL", "organization"},
                          !.default = {"apiType", "httpClient"}, !.option = OpenAIOptions,
                          !.lateDefault = {"baseURL"}, !.needed = {{"token"}}]

AnthropicOptions == {"token", "model", "baseURL", "httpClient", "anthropicBetaHeader"}
Anthropic == [Package EXCEPT !.env = {"token"}, !.default = {"baseURL", "httpClient"},
                             !.option = AnthropicOptions,
                             !.flag = {"useLegacyTextCompletionsAPI"},
                             !.needed = {{"token"}}]

BedrockOptions == {"modelID", "client", "callbackHandler"}
Bedrock == [Package EXCEPT !.default = {"modelID"}, !.option = BedrockOptions,
                           !.lateDefault = {"client"}, !.unsure = {"client"}]

\* The String method of a missing URL panics.
CloudflareOptions == {"model", "system", "accountID", "serverURL", "token",
                      "embeddingModel", "httpClient"}
Cloudflare == [Package EXCEPT !.default = {"httpClient"}, !.option = CloudflareOptions,
                              !.needed = {{"serverURL"}}, !.fails = "panics"]

CohereOptions == {"token", "model", "baseURL"}
Cohere == [Package EXCEPT !.env = CohereOptions, !.option = CohereOptions,
                          !.needed = {{"token"}}, !.default = {"tokenizer"},
                          !.unsure = {"tokenizer"}]

ErnieOptions == {"AKSK", "accessToken", "modelName", "callbacksHandler"}
Ernie == [Package EXCEPT !.env = {"apiKey", "secretKey"}, !.option = ErnieOptions,
                         !.joint = [AKSK |-> {"apiKey", "secretKey"}],
                         !.lateDefault = {"accessToken"}, !.unsure = {"accessToken"}]

GoogleAIOptions == {"apiKey", "credentialsJSON", "credentialsFile", "httpClient",
                    "CloudProject", "CloudLocation", "DefaultModel",
                    "DefaultEmbeddingModel", "DefaultCandidateCount", "DefaultMaxTokens",
                    "DefaultTemperature", "DefaultTopK", "DefaultTopP", "HarmThreshold"}
GoogleAIDefaults == {"DefaultModel", "DefaultEmbeddingModel", "DefaultCandidateCount",
                     "DefaultMaxTokens", "DefaultTemperature", "DefaultTopK",
                     "DefaultTopP", "HarmThreshold"}
GoogleAI == [Package EXCEPT !.default = GoogleAIDefaults \cup {"client"},
                            !.option = GoogleAIOptions, !.flag = {"rest"},
                            !.unsure = {"client"}]
Vertex == [Package EXCEPT !.default = GoogleAIDefaults \cup {"client"},
                          !.option = GoogleAIOptions, !.flag = {"rest"},
                          !.unsure = {"client"}]

PalmOptions == {"projectID", "location", "apiKey", "credentialsFile", "credentialsJSON",
                "grpcDialOption", "httpClient"}
Palm == [Package EXCEPT !.env = {"projectID"}, !.option = PalmOptions,
                        !.default = {"client"}, !.needed = {{"projectID"}, {"location"}},
                        !.unsure = {"client"}]

HuggingFaceOptions == {"token", "model", "url"}
HuggingFace == [Package EXCEPT !.env = {"token"}, !.default = {"model", "url"},
                               !.option = HuggingFaceOptions, !.needed = {{"token"}}]

LlamafileOptions == {"FrequencyPenalty", "Grammar", "IgnoreEOS", "MinP", "Mirostat",
    "MirostatEta", "MirostatTau", "Model", "LogitBias", "PenaltyPromptTokens",
    "PresencePenalty", "RepeatLastN", "RepeatPenalty", "Seed", "Stop", "Stream"}
LlamafileMore == {"Temperature", "TfsZ", "TopK", "TopP", "TypicalP",
    "UsePenaltyPromptTokens", "NPredict", "NProbs", "PenalizeNL", "NKeep", "NCtx",
    "EmbeddingSize"}
Llamafile == [Package EXCEPT !.option = LlamafileOptions \cup LlamafileMore,
                             !.lateEnv = {"serverURL"},
                             !.lateDefault = {"serverURL", "httpClient"}]

LocalOptions == {"bin", "args"}
Local == [Package EXCEPT !.env = LocalOptions, !.option = LocalOptions,
                         !.flag = {"globalAsArgs"}, !.default = {"executable"},
                         !.needed = {{"bin"}}, !.unsure = {"executable"}]

MaritacaOptions == {"model", "format", "system", "customModelTemplate", "serverURL",
    "httpClient", "ChatMode", "MaxTokens", "DoSample", "Temperature", "TopP",
    "RepetitionPenalty", "StoppingTokens", "Stream", "NumTokensPerMessage", "Token"}
Maritaca == [Package EXCEPT !.option = MaritacaOptions, !.lateDefault = {"httpClient"}]

MistralOptions == {"apiKey", "endpoint", "maxRetries", "timeout", "model",
                   "callbacksHandler"}
Mistral == [Package EXCEPT !.env = {"apiKey"},
                           !.default = {"endpoint", "maxRetries", "timeout", "model"},
                           !.option = MistralOptions]

OllamaOptions == {"model", "format", "keepAlive", "system", "customModelTemplate",
    "serverURL", "httpClient", "UseNUMA", "NumCtx", "NumKeep", "NumBatch", "NumThread"}
OllamaRunner == {"NumGQA", "NumGPU", "MainGPU", "LowVRAM", "F16KV", "LogitsAll",
    "VocabOnly", "UseMMap", "UseMLock", "EmbeddingOnly", "RopeFrequencyBase",
    "RopeFrequencyScale", "TFSZ", "TypicalP", "RepeatLastN", "Mirostat", "MirostatTau",
    "MirostatEta", "PenalizeNewline"}
Ollama == [Package EXCEPT !.option = OllamaOptions \cup OllamaRunner,
                          !.lateEnv = {"serverURL"},
                          !.lateDefault = {"serverURL", "httpClient"}]

\* The options of one call: WithOptions replaces all of them.
CallOptions == {"Model", "MaxTokens", "CandidateCount", "Temperature", "StopWords",
    "StreamingFunc", "StreamingReasoningFunc", "TopK", "TopP", "Seed", "MinLength",
    "MaxLength"}
CallMore == {"N", "RepetitionPenalty", "FrequencyPenalty", "PresencePenalty",
    "FunctionCallBehavior", "Functions", "ToolChoice", "Tools", "Metadata",
    "ResponseMIMEType"}
Call == LET all == CallOptions \cup CallMore
        IN [Package EXCEPT !.option = all \cup {"options"}, !.flag = {"JSONMode"},
                           !.joint = [options |-> all \cup {"JSONMode"}]]

\* Those of a chain, which become options of its calls.
ChainOptions == {"Model", "MaxTokens", "Temperature", "StreamingFunc", "TopK", "TopP",
    "Seed", "MinLength", "MaxLength", "RepetitionPenalty", "StopWords", "CallbackHandler"}
Chain == [Package EXCEPT !.option = ChainOptions]

----------------------------------------------------------------------------
(* Vector stores.                                                          *)

PgvectorOptions == {"embedder", "preDeleteCollection", "collectionName",
    "embeddingTableName", "collectionTableName", "connURL", "conn",
    "collectionMetadata", "vectorDimensions", "hnswIndex"}
Pgvector == [Package EXCEPT !.default = {"collectionName", "embeddingTableName",
                                         "collectionTableName", "service"},
                            !.option = PgvectorOptions, !.unsure = {"service"},
                            !.needed = {{"conn", "connURL"}, {"embedder"}}]

MilvusOptions == {"partitionName", "collectionName", "embedder", "textField", "metaField",
    "maxTextLength", "primaryField", "vectorField", "consistencyLevel", "index",
    "shardNum", "ef", "searchParameters", "metricType"}
Milvus == [Package EXCEPT !.default = {"metricType", "primaryField", "vectorField",
                                       "maxTextLength", "textField", "metaField",
                                       "consistencyLevel", "collectionName", "ef",
                                       "shardNum", "service"}, !.option = MilvusOptions,
                          !.flag = {"dropOld", "skipFlushOnWrite"},
                          !.needed = {{"embedder"}, {"index"}},
                          !.lateDefault = {"searchParameters"},
                          !.unsure = {"searchParameters", "service"}]

ChromaOptions == {"nameSpace", "chromaURL", "embedder", "distanceFunction", "includes",
                  "openaiAPIKey", "openaiOrganization"}
Chroma == [Package EXCEPT !.env = {"openaiAPIKey", "openaiOrganization"},
                          !.default = {"nameSpace", "nameSpaceKey", "distanceFunction",
                                       "service"}, !.option = ChromaOptions,
                          !.lateEnv = {"chromaURL"}, !.unsure = {"service"},
                          !.needed = {{"chromaURL"}, {"embedder", "openaiAPIKey"}}]

RedisOptions == {"embedder", "redisURL", "index", "schemaGenerator"}
Redis == [Package EXCEPT !.option = RedisOptions,
                         !.joint = [index |-> {"indexName", "createIndexIfNotExists"}],
                         !.needed = {{"embedder"}, {"indexName"}},
                         !.default = {"service"}, !.unsure = {"service"}]

PineconeOptions == {"host", "embedder", "apiKey", "textKey", "nameSpace"}
Pinecone == [Package EXCEPT !.default = {"textKey"}, !.option = PineconeOptions,
                            !.lateEnv = {"apiKey"},
                            !.needed = {{"host"}, {"embedder"}, {"apiKey"}}]

QdrantOptions == {"collectionName", "qdrantURL", "embedder", "apiKey", "contentKey"}
Qdrant == [Package EXCEPT !.default = {"contentKey"}, !.option = QdrantOptions,
                          !.needed = {{"collectionName"}, {"qdrantURL"}, {"embedder"}}]

WeaviateOptions == {"embedder", "textKey", "nameSpaceKey", "indexName", "nameSpace",
    "host", "scheme", "apiKey", "authConfig", "connectionClient", "queryAttrs",
    "additionalFields"}
Weaviate == [Package EXCEPT !.default = {"textKey", "nameSpaceKey", "nameSpace"},
                            !.option = WeaviateOptions,
                            !.lateDefault = {"queryAttrs", "additionalFields"},
                            !.needed = {{"indexName"}, {"scheme"}, {"host"},
                                        {"embedder"}}]

AzureAISearchOptions == {"embedder", "client", "apiKey"}
AzureAISearch == [Package EXCEPT !.default = {"client"}, !.option = AzureAISearchOptions,
                                 !.lateEnv = {"endpoint", "apiKey"},
                                 !.needed = {{"endpoint"}, {"embedder"}}]

OpenSearch == [Package EXCEPT !.option = {"client", "embedder"},
                              !.needed = {{"embedder"}, {"client"}}]

SQLOptions == {"schemaName", "idColumn", "metadataJSONColumn", "contentColumn",
               "embeddingColumn", "metadataColumns", "k", "distanceStrategy"}
AlloyDB == [Package EXCEPT !.default = SQLOptions \ {"metadataColumns"},
                           !.option = SQLOptions \cup {"engine", "embedder", "tableName"},
                           !.needed = {{"engine"}, {"embedder"}, {"tableName"}}]
CloudSQL == [Package EXCEPT !.default = SQLOptions \ {"metadataColumns"},
                            !.option = SQLOptions \cup {"engine", "embedder",
                                                        "tableName"},
                            !.needed = {{"engine"}, {"embedder"}, {"tableName"}}]

MongovectorOptions == {"index", "path", "numCandidates"}
Mongovector == [Package EXCEPT !.default = {"index", "path"},
                               !.option = MongovectorOptions \cup {"coll", "embedder"}]

\* The options of one search or addition.
StoreCall == [Package EXCEPT !.option = {"NameSpace", "ScoreThreshold", "Filters",
                                         "Embedder", "Deduplicater"}]

----------------------------------------------------------------------------
(* Embedders, memories and histories.                                      *)

EmbedderOptions == {"StripNewLines", "BatchSize"}
Embedder == [Package EXCEPT !.default = EmbedderOptions,
                            !.option = EmbedderOptions \cup {"client"}]

BedrockEmbedder == [Package EXCEPT !.default = EmbedderOptions,
        !.option = EmbedderOptions \cup {"ModelID", "client"}, !.lateDefault = {"client"},
        !.unsure = {"client"}]

Cybertron == [Package EXCEPT !.default = {"Model", "ModelsDir", "PoolingStrategy"},
                             !.option = {"Model", "ModelsDir", "PoolingStrategy",
                                         "encoder"}, !.lateDefault = {"encoder"},
                             !.unsure = {"encoder"}]

HuggingFaceEmbedder == [Package EXCEPT !.default = EmbedderOptions \cup {"Model", "Task"},
        !.option = EmbedderOptions \cup {"Model", "Task", "client"},
        !.lateDefault = {"client"}, !.unsure = {"client"}]

Jina == [Package EXCEPT !.env = {"APIKey"},
                        !.default = {"Model", "APIBaseURL"} \cup EmbedderOptions,
                        !.option = {"Model", "APIBaseURL", "APIKey"} \cup EmbedderOptions]

VoyageAI == [Package EXCEPT !.default = {"baseURL", "Model"} \cup EmbedderOptions,
                            !.option = {"Model", "client", "token"} \cup EmbedderOptions,
                            !.lateDefault = {"client"}, !.lateEnv = {"token"},
                            !.needed = {{"token"}}]

MongoHistory == [Package EXCEPT !.default = {"databaseName", "collectionName", "service"},
                                !.option = {"url", "sessionID", "collectionName",
                                            "databaseName"},
                                !.needed = {{"url"}, {"sessionID"}},
                                !.unsure = {"service"}]

\* Limit is blank below 1.
SqliteOptions == {"DB", "Ctx", "Limit", "Schema", "DBAddress", "TableName", "Session"}
SqliteHistory == [Package EXCEPT !.option = SqliteOptions, !.flag = {"Overwrite"},
                                 !.default = {"service"}, !.lateDefault = SqliteOptions,
                                 !.unsure = {"service"}, !.fails = "panics"]

AlloyDBHistory == [Package EXCEPT !.default = {"schemaName", "service"},
                                  !.option = {"engine", "tableName", "sessionID",
                                              "schemaName"},
                                  !.needed = {{"engine"}, {"tableName"}, {"sessionID"}},
                                  !.unsure = {"service"}]
CloudSQLHistory == [Package EXCEPT !.default = {"schemaName", "service"},
        !.option = {"engine", "tableName", "sessionID", "schemaName"},
        !.needed = {{"engine"}, {"tableName"}, {"sessionID"}}, !.unsure = {"service"}]

ZepHistory == [Package EXCEPT !.default = {"MemoryType"},
                              !.option = {"MemoryType", "HumanPrefix", "AIPrefix"}]

BufferOptions == {"ReturnMessages", "InputKey", "OutputKey", "HumanPrefix", "AIPrefix",
                  "MemoryKey"}
Buffer == [Package EXCEPT !.default = {"HumanPrefix", "AIPrefix", "MemoryKey"},
                          !.option = BufferOptions \cup {"ChatHistory"},
                          !.lateDefault = {"ChatHistory"}]
ZepMemory == [Package EXCEPT !.default = {"ReturnMessages", "HumanPrefix", "AIPrefix",
                                          "MemoryKey", "MemoryType"},
                             !.option = BufferOptions \cup {"MemoryType"}]

\* The engines of the SQL packages; without a pool they need a user.
EngineOptions == {"connPool", "instanceURI", "database", "user", "password", "ipType",
                  "iamAccountEmail"}
AlloyDBEngine == [Package EXCEPT !.default = {"ipType", "userAgents", "service"},
                                 !.option = EngineOptions,
                                 !.joint = [instanceURI |-> {"projectID", "region",
                                                             "cluster", "instance"}],
                                 !.needed = {{"connPool", "projectID", "region",
                                             "cluster", "instance"}},
                                 !.unsure = {"service"}]
CloudSQLEngine == [Package EXCEPT !.default = {"ipType", "userAgents", "service"},
                                  !.option = EngineOptions,
                                  !.joint = [instanceURI |-> {"projectID", "region",
                                                              "instance"}],
                                  !.needed = {{"connPool", "projectID", "region",
                                              "instance"}}, !.unsure = {"service"}]

----------------------------------------------------------------------------
(* Agents, text splitters and tools.                                       *)

AgentOptions == {"maxIterations", "outputKey", "promptPrefix", "formatInstructions",
    "promptSuffix", "prompt", "memory", "callbacksHandler", "errorHandler",
    "systemMessage", "extraMessages"}
Executor == [Package EXCEPT !.default = {"maxIterations", "outputKey", "memory"},
                            !.option = AgentOptions, !.flag = {"returnIntermediateSteps"}]
Mrkl == [Package EXCEPT !.default = {"promptPrefix", "formatInstructions", "promptSuffix",
                                     "outputKey"}, !.option = AgentOptions]
Conversational == [Package EXCEPT !.default = {"promptPrefix", "formatInstructions",
                                               "promptSuffix", "outputKey"},
                                  !.option = AgentOptions]
FunctionsAgent == [Package EXCEPT !.default = {"systemMessage", "outputKey"},
                                  !.option = AgentOptions]

SplitterOptions == {"ChunkSize", "ChunkOverlap", "Separators", "LenFunc", "ModelName",
    "EncodingName", "AllowedSpecial", "DisallowedSpecial", "SecondSplitter", "CodeBlocks",
    "ReferenceLinks", "KeepSeparator", "KeepHeadingHierarchy", "JoinTableRows"}
SplitterDefaults == {"ChunkSize", "ChunkOverlap", "Separators", "LenFunc", "ModelName",
                     "EncodingName", "DisallowedSpecial"}
RecursiveCharacter == [Package EXCEPT !.default = SplitterDefaults,
        !.option = SplitterOptions]
MarkdownSplitter == [Package EXCEPT !.default = SplitterDefaults,
        !.option = SplitterOptions, !.lateDefault = {"SecondSplitter"}]

SerpAPI == [Package EXCEPT !.env = {"apiKey"}, !.option = {"apiKey"},
                           !.needed = {{"apiKey"}}]

Perplexity == [Package EXCEPT !.env = {"apiKey"}, !.default = {"model"},
                              !.option = {"apiKey", "model"}, !.needed = {{"apiKey"}}]

\* A client that is given is replaced by one with the key or the token.
Zapier == [Package EXCEPT !.option = {"client", "apiKey", "accessToken"},
                          !.lateEnv = {"apiKey"}]
ZapierToolkit == [Package EXCEPT !.option = {"apiKey", "accessToken", "userAgent",
                                             "baseURL"}, !.lateEnv = {"apiKey"},
                                 !.lateDefault = {"userAgent", "baseURL"},
                                 !.default = {"service"}, !.unsure = {"service"},
                                 !.needed = {{"apiKey", "accessToken"}}]

ScraperOptions == {"MaxDepth", "Parallels", "Delay", "Async", "Blacklist"}
Scraper == [Package EXCEPT !.default = ScraperOptions, !.option = ScraperOptions]

AssemblyAI == [Package EXCEPT !.default = {"format"},
                              !.option = {"apiKey", "audioURL", "audioReader", "format",
                                          "params"}]

----------------------------------------------------------------------------
PackageNames ==
    {"alloydb", "alloydbEngine", "alloydbHistory", "anthropic", "assemblyai",
     "azureaisearch", "bedrock", "bedrockEmbedder", "buffer", "call", "chain",
     "chroma", "cloudflare", "cloudsql", "cloudsqlEngine", "cloudsqlHistory",
     "cohere", "conversational", "cybertron", "embedder", "ernie", "executor",
     "functionsAgent", "googleai", "huggingface", "huggingfaceEmbedder", "jina",
     "llamafile", "local", "maritaca", "markdownSplitter", "milvus", "mistral",
     "mongoHistory", "mongovector", "mrkl", "ollama", "openai", "opensearch",
     "palm", "perplexity", "pgvector", "pinecone", "qdrant", "recursiveCharacter",
     "redis", "scraper", "serpapi", "sqliteHistory", "storeCall", "vertex",
     "voyageai", "weaviate", "zapier", "zapierToolkit", "zepHistory", "zepMemory"}

PackageOf(p) ==
    CASE p = "alloydb" -> AlloyDB
      [] p = "alloydbEngine" -> AlloyDBEngine
      [] p = "alloydbHistory" -> AlloyDBHistory
      [] p = "anthropic" -> Anthropic
      [] p = "assemblyai" -> AssemblyAI
      [] p = "azureaisearch" -> AzureAISearch
      [] p = "bedrock" -> Bedrock
      [] p = "bedrockEmbedder" -> BedrockEmbedder
      [] p = "buffer" -> Buffer
      [] p = "call" -> Call
      [] p = "chain" -> Chain
      [] p = "chroma" -> Chroma
      [] p = "cloudflare" -> Cloudflare
      [] p = "cloudsql" -> CloudSQL
      [] p = "cloudsqlEngine" -> CloudSQLEngine
      [] p = "cloudsqlHistory" -> CloudSQLHistory
      [] p = "cohere" -> Cohere
      [] p = "conversational" -> Conversational
      [] p = "cybertron" -> Cybertron
      [] p = "embedder" -> Embedder
      [] p = "ernie" -> Ernie
      [] p = "executor" -> Executor
      [] p = "functionsAgent" -> FunctionsAgent
      [] p = "googleai" -> GoogleAI
      [] p = "huggingface" -> HuggingFace
      [] p = "huggingfaceEmbedder" -> HuggingFaceEmbedder
      [] p = "jina" -> Jina
      [] p = "llamafile" -> Llamafile
      [] p = "local" -> Local
      [] p = "maritaca" -> Maritaca
      [] p = "markdownSplitter" -> MarkdownSplitter
      [] p = "milvus" -> Milvus
      [] p = "mistral" -> Mistral
      [] p = "mongoHistory" -> MongoHistory
      [] p = "mongovector" -> Mongovector
      [] p = "mrkl" -> Mrkl
      [] p = "ollama" -> Ollama
      [] p = "openai" -> OpenAI
      [] p = "opensearch" -> OpenSearch
      [] p = "palm" -> Palm
      [] p = "perplexity" -> Perplexity
      [] p = "pgvector" -> Pgvector
      [] p = "pinecone" -> Pinecone
      [] p = "qdrant" -> Qdrant
      [] p = "recursiveCharacter" -> RecursiveCharacter
      [] p = "redis" -> Redis
      [] p = "scraper" -> Scraper
      [] p = "serpapi" -> SerpAPI
      [] p = "sqliteHistory" -> SqliteHistory
      [] p = "storeCall" -> StoreCall
      [] p = "vertex" -> Vertex
      [] p = "voyageai" -> VoyageAI
      [] p = "weaviate" -> Weaviate
      [] p = "zapier" -> Zapier
      [] p = "zapierToolkit" -> ZapierToolkit
      [] p = "zepHistory" -> ZepHistory
      [] p = "zepMemory" -> ZepMemory

OptionsOf(p) == PackageOf(p).option \cup PackageOf(p).flag
Sets(p, option) == IF option \in DOMAIN PackageOf(p).joint
                   THEN PackageOf(p).joint[option] ELSE {option}
EnvOf(p) == PackageOf(p).env \cup PackageOf(p).lateEnv
            \cup (IF p = "googleai" THEN {"apiKey"} ELSE {})
Fields(p) == LET it == PackageOf(p)
             IN EnvOf(p) \cup it.flag \cup (it.option \ DOMAIN it.joint) \cup it.default
                \cup it.lateDefault \cup UNION {Sets(p, o) : o \in DOMAIN it.joint}

VARIABLES pkg,         \* the package whose constructor is called
          environment, \* the value of each variable: "blank", "before" or "after"
          remembered,  \* the environment palm has read, once for all its models
          opts,        \* the options, each with its value
          pc,          \* "open", "made", "changed", "again"
          settings,    \* what the last constructor has chosen
          outcome      \* and how it has ended: "none", "created", "refused", "panics"

vars == <<pkg, environment, remembered, opts, pc, settings, outcome>>

None == "none"

\* What a caller cannot do without: one of each set of alternatives.
Usual(p) ==
    LET chosen == IF "instanceURI" \in PackageOf(p).option THEN {"instance"}
                  ELSE {CHOOSE f \in alternatives : TRUE : alternatives \in PackageOf(p).needed}
    IN SetToSeq({<<o, "first">> : o \in
           {o \in PackageOf(p).option : Sets(p, o) \cap chosen # {}}})

Init == /\ pkg \in PackageNames
        /\ environment \in [EnvOf(pkg) -> {"blank", "before"}]
        /\ opts \in {<<>>, Usual(pkg)}
        /\ remembered = <<>> /\ pc = "open" /\ outcome = None
        /\ settings = [f \in Fields(pkg) |-> "blank"]

----------------------------------------------------------------------------
(* What a constructor does.                                                *)

Me == PackageOf(pkg)

Environment == IF pkg = "palm" /\ remembered # <<>> THEN remembered ELSE environment

\* An empty variable is no better than none.
Started == LET me == Me
           IN [f \in Fields(pkg) |->
                  IF f \in me.env /\ Environment[f] # "blank" THEN Environment[f]
                  ELSE IF f \in me.default THEN "default" ELSE "blank"]

\* No credentials are not kept as credentials.
Skipped(option, value) ==
    pkg \in {"googleai", "vertex"} /\ value = "blank"
    /\ option \in {"credentialsJSON", "credentialsFile"}

\* Deviation: an option that sets several fields is kept under its own name.
ApplyByName(s, given) == (given[1] :> given[2]) @@ s
Apply(s, given) ==
    IF Skipped(given[1], given[2]) THEN s
    ELSE LET those == Sets(pkg, given[1])
         IN [f \in DOMAIN s |-> IF f \in those THEN given[2] ELSE s[f]]

\* Deviation: of two options the first one counts.
AppliedFromLast(s) == FoldRight(LAMBDA given, r : Apply(r, given), opts, s)
Applied(s) ==
    LET after[n \in 0..Len(opts)] == IF n = 0 THEN s ELSE Apply(after[n - 1], opts[n])
    IN after[Len(opts)]

\* zapier asks for a key where it makes a client.
Unread(s) == pkg = "zapier" /\ s.client = "blank"
WithEnvironment(s) ==
    LET late == Me.lateEnv
    IN [f \in DOMAIN s |-> IF f \in late /\ s[f] = "blank" /\ ~Unread(s)
                           THEN environment[f] ELSE s[f]]
WithDefaults(s) ==
    LET late == Me.lateDefault
    IN [f \in DOMAIN s |-> IF f \in late /\ s[f] = "blank" THEN "default" ELSE s[f]]
Late(s) == WithDefaults(WithEnvironment(s))

\* For Azure the version has a default, too.
IsAzure(s) == s.apiType \notin {"default", "blank"}
AzureVersion(s) == IF IsAzure(s) /\ s.apiVersion = "blank"
                   THEN [s EXCEPT !.apiVersion = "default"] ELSE s

\* The first of the options that authenticate tells whether there are any.
Credentials == {"apiKey", "httpClient", "credentialsJSON", "credentialsFile"}
HasAuth == LET auth == {n \in DOMAIN opts : /\ opts[n][1] \in Credentials
                                            /\ ~Skipped(opts[n][1], opts[n][2])}
           IN /\ auth # {}
              /\ opts[Min(auth)][1] = "apiKey" => opts[Min(auth)][2] # "blank"
WithKey(s) == [s EXCEPT !.apiKey = IF ~HasAuth /\ environment["apiKey"] # "blank"
                                   THEN environment["apiKey"] ELSE @]

\* An access token is asked for with the keys; without them it stays blank.
ErnieToken(s) == IF s.accessToken = "default" /\ "blank" \in {s.apiKey, s.secretKey}
                 THEN [s EXCEPT !.accessToken = "blank"] ELSE s

\* A pool is used as it is; else user and password are, or an account that is
\* asked for when none is given.
HasUser(s) == s.user # "blank" /\ s.password # "blank"
Account(s) == IF s.connPool # "blank" \/ HasUser(s) THEN s
              ELSE IF s.iamAccountEmail # "blank" THEN [s EXCEPT !.user = s.iamAccountEmail]
              ELSE IF s.user = "blank" /\ s.password = "blank"
              THEN [s EXCEPT !.user = "default"] ELSE s

\* The models it knows have a batch size of their own.
KnownModels == {"default", "second"}

\* A chain streams to its handler.
ToHandler(s) == IF s.StreamingFunc = "blank" /\ s.CallbackHandler # "blank"
                THEN [s EXCEPT !.StreamingFunc = "default"] ELSE s

Overruled(s) ==
    CASE pkg = "openai"        -> AzureVersion(s)
      [] pkg = "googleai"      -> WithKey(s)
      [] pkg = "ernie"         -> ErnieToken(s)
      [] pkg = "palm"          -> [s EXCEPT !.httpClient = "blank"]
      [] pkg = "maritaca"      -> [s EXCEPT !.serverURL = "default"]
      [] pkg = "mistral"       -> [s EXCEPT !.callbacksHandler = "default"]
      [] pkg = "jina"          -> IF s.Model \in KnownModels
                                  THEN [s EXCEPT !.BatchSize = "default"] ELSE s
      [] pkg = "azureaisearch" -> IF environment["apiKey"] # "blank"
                                  THEN [s EXCEPT !.apiKey = environment["apiKey"]] ELSE s
      [] pkg = "zapier"        -> IF s.client # "blank" THEN [s EXCEPT !.client = "default"]
                                  ELSE s
      [] pkg \in {"alloydbEngine", "cloudsqlEngine"} -> Account(s)
      [] pkg = "chain"         -> ToHandler(s)
      [] OTHER                 -> s

Settings == Overruled(Late(Applied(Started)))

Blank(s, alternatives) == \A f \in alternatives : s[f] = "blank"

\* A version that is given is all that Azure needs; a client of zapier needs a key.
Missing(s) ==
    \/ \E alternatives \in Me.needed : Blank(s, alternatives)
    \/ pkg = "openai" /\ IsAzure(s) /\ s.apiVersion = "default"
       /\ "blank" \in {s.model, s.embeddingModel}
    \/ pkg = "ernie" /\ s.accessToken = "blank"
    \/ pkg = "zapier" /\ s.client # "blank" /\ Blank(s, {"apiKey", "accessToken"})
    \/ pkg \in {"alloydbEngine", "cloudsqlEngine"} /\ s.connPool = "blank"
       /\ ~HasUser(s) /\ Blank(s, {"iamAccountEmail"}) /\ s.user # "default"

\* Nothing is asked for where there is a pool.
MayFail(s) == /\ \E f \in Me.unsure : s[f] = "default"
              /\ pkg \in {"alloydbEngine", "cloudsqlEngine"} => s.connPool = "blank"

----------------------------------------------------------------------------
\* The caller makes a list of options.
Give ==
    /\ pc = "open"
    /\ LET added == SelectSeq(opts, LAMBDA o : o[2] # "first")
           value == IF added = <<>> THEN "second" ELSE "third"
       IN /\ Len(added) < MaxOptions
          /\ \E o \in OptionsOf(pkg) :
                \E v \in {value} \cup (IF o \in Me.flag THEN {} ELSE {"blank"}) :
                   opts' = Append(opts, <<o, v>>)
    /\ UNCHANGED <<pkg, environment, remembered, pc, settings, outcome>>

New ==
    /\ pc' = CASE pc = "open" -> "made" [] pc = "changed" -> "again"
    /\ settings' = Settings
    /\ remembered' = IF pkg = "palm" THEN Environment ELSE remembered
    /\ \/ Missing(settings') /\ outcome' = Me.fails
       \/ ~Missing(settings') /\ outcome' = "created"
       \/ ~Missing(settings') /\ MayFail(settings') /\ outcome' = Me.fails
    /\ UNCHANGED <<pkg, environment, opts>>

\* The environment changes before the constructor is called again.
SetEnv ==
    /\ pc = "made" /\ pc' = "changed"
    /\ environment' = [f \in EnvOf(pkg) |-> "after"]
    /\ outcome' = None
    /\ UNCHANGED <<pkg, remembered, opts, settings>>

Next == Give \/ (pc \in {"open", "changed"} /\ New) \/ SetEnv

Spec == Init /\ [][Next]_vars

----------------------------------------------------------------------------
Sources == {"blank", "default", "before", "after", "first", "second", "third"}

TypeOK ==
    /\ pkg \in PackageNames /\ environment \in [EnvOf(pkg) -> {"blank", "before", "after"}]
    /\ remembered # <<>> => pkg = "palm" /\ remembered \in [EnvOf(pkg) -> {"blank", "before"}]
    /\ opts \in Seq(OptionsOf(pkg) \X Sources)
    /\ pc \in {"open", "made", "changed", "again"}
    /\ DOMAIN settings = Fields(pkg) /\ Range(settings) \subseteq Sources
    /\ outcome \in {None, "created", "refused", "panics"}

\* What a caller gives is a value of its own; what palm remembers was read before
\* the environment changed, when the first of its models was made.
IInv ==
    /\ TypeOK
    /\ \A n \in DOMAIN opts : opts[n][2] \in {"blank", "first", "second", "third"}
    /\ pc = "open" => /\ environment \in [EnvOf(pkg) -> {"blank", "before"}]
                      /\ remembered = <<>> /\ outcome = None
    /\ pkg = "palm" /\ pc # "open" => remembered # <<>>

\* What the caller has last asked of a field.
AskedAt(f) == {n \in DOMAIN opts : f \in Sets(pkg, opts[n][1])
                                   /\ ~Skipped(opts[n][1], opts[n][2])}
Asked(f) == IF AskedAt(f) = {} THEN None ELSE opts[Max(AskedAt(f))][2]

(* A value the caller gives, and gives last, is the one that is used, with these
   exceptions: the key in the environment wins over the option of azureaisearch and
   over options of googleai behind a blank one, a known model of jina has its own
   batch size, an account is the user of an engine, zapier replaces the client, and
   the handler of mistral, the client of palm and the URL of maritaca are dropped.
   Where the comment of the option says otherwise, see DocumentedIsUsed. *)
GivenIsUsed ==
    outcome = "created" =>
        \A f \in Fields(pkg) :
            \/ Asked(f) \in {None, "blank", settings[f]}
            \/ <<pkg, f>> \in {<<"mistral", "callbacksHandler">>, <<"palm", "httpClient">>,
                               <<"maritaca", "serverURL">>, <<"zapier", "client">>}
            \/ <<pkg, f>> \in {<<"azureaisearch", "apiKey">>, <<"googleai", "apiKey">>}
               /\ settings[f] = environment[f]
            \/ <<pkg, f>> = <<"jina", "BatchSize">> /\ settings.Model \in KnownModels
            \/ pkg \in {"alloydbEngine", "cloudsqlEngine"} /\ f = "user"
               /\ settings.password = "blank"

\* Options whose comment says what they set.
Documented == {<<"mistral", "callbacksHandler">>, <<"maritaca", "serverURL">>,
               <<"azureaisearch", "apiKey">>, <<"jina", "BatchSize">>}

(* An option does what its comment says: "Sets the Langchain callbacks handler to
   use for the Model being instantiated" (llms/mistral/client_options.go:55), "Set
   the URL of the maritaca instance to use" (llms/maritaca/options.go:54), "setting
   the azure AI search API Key" (vectorstores/azureaisearch/options.go:64),
   "specifying the batch size" (embeddings/jina/options.go:34). The constructors do
   not use the first two, overwrite the third with the environment and the last
   with a size of their own. *)
DocumentedIsUsed ==
    outcome = "created" =>
        \A f \in Fields(pkg) : <<pkg, f>> \in Documented =>
            Asked(f) \in {None, "blank", settings[f]}

(* A field the caller leaves alone is what the environment says when the
   constructor is called, but for the project of palm, which is what it said when
   the first model of the process was made, and no later value. googleai asks it for
   a key where there are no other credentials, zapier where there is a client. *)
EnvironmentIsCurrent ==
    outcome = "created" =>
        \A f \in EnvOf(pkg) :
            Asked(f) = None /\ environment[f] # "blank" =>
                \/ settings[f] = environment[f]
                \/ pkg = "palm" /\ pc = "again" /\ settings[f] = remembered[f]
                \/ pkg = "googleai" /\ HasAuth
                \/ Unread(settings)

(* A constructor that succeeds has all it needs: what its documentation requires is
   not blank, and for Azure so are the models unless a version is given. *)
CreatedIsComplete ==
    outcome = "created" =>
        /\ \A alternatives \in Me.needed : ~Blank(settings, alternatives)
        /\ pkg = "ernie" => settings.accessToken # "blank"
        /\ pkg = "openai" /\ IsAzure(settings) /\ Asked("apiVersion") \in {None, "blank"} =>
              settings.model # "blank" /\ settings.embeddingModel # "blank"
        /\ pkg \in {"alloydbEngine", "cloudsqlEngine"} /\ settings.connPool = "blank" =>
              settings.user # "blank"

=============================================================================
