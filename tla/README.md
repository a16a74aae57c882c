# A verification project for instructured-llm

This directory holds TLA+ models of the Go library in `src/` (a fork of
langchaingo), the configurations that model-check them with TLC, and theorems
about them whose proofs TLAPS checks. Paths below are relative to `src/`.

The library is a tool box: a program composes *chains*, *agents*, *memories*,
*models*, *tools* and *stores*. What can go wrong in ways a unit test hardly
reaches sits in two places: in the code that holds these parts together (the
goroutines of an agent's tools and of `chains.Apply`, the memory that several
calls share, the values handed along a sequence of chains), and in the many
clients that each translate the same conversation, stream, document or setting
in their own way, where what holds of one does not hold of the next.

## The parts of the system

| part | state it keeps | operations | interacts with | what is hard | what makes it correct |
|---|---|---|---|---|---|
| Agent executor `agents/executor.go` | steps, messages and the tool goroutines of one run | `Call`, `doIteration`, `doAction` | agent (`Plan`), tools, callbacks; one unbuffered channel per tool goroutine | tools run concurrently, fail, outlive the call | steps are those of a sequential loop; the call ends; one report of the finish |
| Agents `agents/openai_functions_agent.go`, `mrkl.go`, `conversational.go` | none between plans | `Plan`, `ParseOutput`, scratch pad | executor, model, prompt | a transcript built from steps and messages, read back from free text | every step is told, after the call it answers; what is run is what was written |
| Chain calls `chains/chains.go` | a job and an answer channel, a worker pool (`Apply`) | `Call`, `Run`, `Predict`, `Apply` | every chain, memory, callbacks, `context` | workers answer in any order; errors and cancellation race answers | each answer at the index of its input, nothing lost, nobody blocked |
| Sequences `chains/sequential.go` | the key sets seen by the check | `NewSequentialChain`, `NewSimpleSequentialChain`, `Call` | the chains of the sequence | the check and the call use different rules | no key has two sources; a pipeline runs |
| Document chains `chains/stuff_documents.go`, `refine_documents.go`, `map_reduce.go`, `map_rerank_documents.go`, `retrieval_qa.go`, `conversational_retrieval_qa.go` | none; the memory of a conversation | `Call` | `Apply`, a retriever, a model | answers in any order, options that change the outputs, a failed reduce | every document told once and in order; the best answer is returned |
| Other chains `chains/constitutional.go`, `api.go`, `sql_database.go`, `llm_math.go` | none | `Call` | a model, an API, a database, an interpreter | one answer decides what is done next | what the model wrote is run, once; the last answer is returned |
| Conversation memory `memory/buffer.go`, `window_buffer.go`, `token_buffer.go`, `simple.go` | none of their own | `LoadMemoryVariables`, `SaveContext`, `Clear` | `chains.Call`, a chat history | an exchange is several statements; sharing; pruning loops | what is remembered is recent, in order and within its bound |
| Chat histories `memory/chat.go`, `memory/sqlite3`, `mongo`, `alloydb`, `cloudsql`, `zep` | the messages of a session | add, read, clear, replace | databases | replacement in two steps, an open transaction, a restart | a read gives all that was said, in order |
| Model clients and streaming `llms/...` | none between calls | `GenerateContent`, stream readers, conversions | HTTP services, a streaming function | reader goroutine, early return, truncated streams, tool calls | the request tells the conversation; the answer is what was said; a failure is an error |
| Response cache `llms/cache` | cached answers | `GenerateContent` | a model, a backend | concurrent misses, expiration, the hash of a request | a hit is an answer to the same request |
| Callbacks `callbacks` | the window and egress of `AgentFinalStreamHandler` | handler methods | executor, chains, models | a keyword in pieces; an unbuffered channel | the final answer and nothing else is passed on |
| Tools `tools` | the text and the page map of the scraper | `Call` | executor, web | concurrent page callbacks | each page once |
| Text splitting `textsplitter` | none | `SplitText`, `mergeSplits` | document loaders | arithmetic on chunk lengths, nested blocks | chunks within bounds, nothing lost, each under its titles |
| Vector stores `vectorstores` | collections of documents | `AddDocuments`, `SimilaritySearch` | embedders, services | batches that fail in the middle, retries, filters | ids name what was added; what is found is what was asked for |
| Embeddings `embeddings` | none | `EmbedDocuments`, `EmbedQuery` | clients of models | batches, answers with too few vectors | each vector at the place of its text |
| Options and constructors (every package) | the environment | `New`, options | the environment | several sources for one setting, defaults applied late | what was given is used |
| Prompts, output parsers, loaders, HTTP utilities | none | conversions, files | files | nothing stateful | formats |

`PROJECT.json` lists every part with its status and, under `hazards`, each
place where this code is hard to test, with the properties that cover it.

## The modules

    AgentLoop            what an executor promises: a sequential loop
      ^ implemented by
    AgentExecutor        agents/executor.go            AgentExecutor_proofs

    Chains               how chains are called         Chains_proofs
      |- ChainApply          chains/chains.go, Apply
      |- SequentialChain     chains/sequential.go
      `- ConversationMemory  chains/chains.go, Call,
                             over memory/*             ConversationMemory_proofs

    MCModels             the models of llms, and what
      |                  chains and agents make of
      |                  their answers                 MCModels_proofs
      |- ModelStream         reading a streamed answer Streaming_proofs
      |- MessageConversion   a conversation becomes a request
      |                                                Streaming_proofs
      |- ModelCall           one call of GenerateContent
      |- ResponseCache       llms/cache
      |- DocumentChains      chains that answer from
      |                      documents                 AnswerChains_proofs
      |- AnswerChains        chains that act on an answer
      |                                                AnswerChains_proofs
      |- AgentPlans          what agents tell their model and read from it
      |                                                AnswerChains_proofs
      |- Scraper             tools/scraper
      `- FinalStream         callbacks/agent_final_stream.go
                                                       Streaming_proofs

    MCServices           what these are put together from
      |- Services                                      Services_proofs
      |    |- VectorStoreAdd      AddDocuments
      |    |- VectorStoreSearch   SimilaritySearch
      |    |- Configuration       constructors and options
      |    |- ChatHistory         memory/chat.go, sqlite3, mongo, alloydb, cloudsql, zep
      |    |- Embeddings          embeddings
      |    `- TextSplit           textsplitter, but for markdown
      |                                                TextSplit_proofs
      `- MarkdownText        textsplitter/markdown_splitter.go
           ^ MarkdownSplit (extended by it)

    TextMerge            splitting at separators and merging pieces to chunks;
                         extended by TextSplit and MarkdownSplit

    Places               lists told by their positions; extended by VectorStoreAdd,
                         VectorStoreSearch and ChatHistory

`MCAgentExecutor`, `MCConversationMemory` and `MCChains` give the constants that a
`.cfg` cannot write. `Chains`, `MCModels` and `MCServices` each hold several modules
side by side: the variable `part` says which of them a behaviour is of, the variables of
the others stay `None`, and variables that mean the same (`client`, `outcome`, `docs`,
`asked`) are shared. The modules of a suite do not interact, so its state space is the
union of theirs; the invariants of `Chains` are theirs, each under its part, those of
the other two gather theirs under the question they answer (*does the request tell the
conversation*), and each of the named conjuncts is stated and explained in its own
module. Where one module relies on another, its header says what it takes from it:
`ModelCall` from `MessageConversion` and `ModelStream`, `DocumentChains` from
`ChainApply`, `AgentPlans` from `AgentExecutor`. `MCModels` takes the bounds of its
modules as constants, which `models.cfg` gives values; it instantiates a component by
its proof module where that has one, so that `MCModels_proofs` can put the proofs of the
parts together. `Streaming_proofs` extends `ModelStream` and has `FinalStream` as its
instance `Passing` and `MessageConversion` as its instance `Asking`, since their proofs
are about lists that are put together from pieces; `AnswerChains_proofs` has
`AgentPlans` as its instance `Planning` and `DocumentChains` as its instance `Docs`. So
the name of `AgentPlans` in `MCModels` is `Acting!Planning`. `MCServices` is in two:
`Services` holds the modules that `Services_proofs` is about, `TextSplit` by its proof
module `TextSplit_proofs`, and `MCServices` adds `MarkdownText`, whose recursive
operators no module with a theorem may use; what is proved of `Services` is of every
behaviour of `MCServices` that is not about markdown.

Every module with a state of its own has one type invariant, `TypeOK`, and
parameters are constants, with named assumptions where a proof uses them. Some
operators are marked *Deviation*: each is a plausible mistake in the operator
below it, used to show that a property would notice. They are not part of any
specification.

A module that covers many clients says what each does as data: a record or a
set per client, read off its code, and the actions apply it. Where a promise
does not hold of a client, the property names the client and what it does
instead, so that the exceptions can be read off the properties.

### AgentExecutor and AgentLoop

One run of `Executor.Call`. `pc` is the place of the main goroutine, `doing`
the `doAction` goroutines of the latest plan with their state, their action and
what they are about to send, `next` the stream that is read, `steps` and
`messages` the transcript, `result` what is returned.

| code | model |
|---|---|
| the loop over `MaxIterations`, the return after it | `CallPlan`'s bound, `GiveUp` |
| `doIteration` up to the plan's outcome | `PlanUnparsable`, `PlanFails`, `PlanEmpty`, `PlanFinishes` |
| starting all goroutines, then reading stream after stream | `PlanActs`, `ReceiveStep`, `ReceiveError` |
| `doAction`: trim and callback; lookup and call; send | `Notify`, `Invoke`, `ToolReturns`, and `Delivered` for the rendezvous of send and receive |
| `getReturn`, `getNameToTool`, `trimHallucinatedObservation` | the same names |

Agent and tools are the environment: a plan is any list of up to `MaxActions`
actions or any other outcome, a tool answers or fails whenever it likes. An
input is the number of `Observation:` lines at its end, so that the trimming of
one of them is visible; an observation is where it comes from. An action
carries its place in the plans so that equal actions can be told apart.
`notified`, `invoked` and `finishes` record the calls made to callbacks and
tools.

`AgentLoop` is the promise: one action after the other, each recorded with an
answer of a tool its name stands for, in the order of the plans, ending at the
first failure, at a finish or when the budget is used up. `ImplementsLoop` maps
the unread goroutines to the actions still to do, with their trimmed inputs; a
received answer is the step `Perform`, everything a goroutine does before that
is a stutter.

An agent that finishes with nil `ReturnValues` makes `Call` go on after
`HandleAgentFinish`; no agent in the repository does that and the model's agent
does not either.

### ChainApply

One run of `Apply`: the caller (`pc`), the workers (`worker`), the closer
(`closed`). The job channel holds consecutive indices, so `sent` and `taken`
stand for it; `resultsChan` is a sequence with the capacity of the code. A
`select` picks any ready case, so cancellation, jobs, answers and the closed
channel are separate actions: `Leave`, `TakeJob` for a worker; `SeeCancel`,
`Receive`, `ReceiveZero` for the caller. `Cancel` is the environment. Answers
are tagged with their index as in the code; `Nil` is the nil map of a failure
and of the zero value a receive from a closed channel yields.

### ConversationMemory

`chains.Call` around a chain with a memory, for one or more callers that share
it: `Begin`, `LoadMemoryVariables`/`LoadFails`, `ChainFails`/`ChainSucceeds`
(with the callbacks in `events`), then `SaveContext` as one action per
statement on the history: `AddUserMessage`, `AddAIMessage`, `SaveFails`, and
for the window and token buffers `Check`, `Prune`, and the replacement;
`Clear` is `Memory.Clear` between calls. `kind` chooses the memory and `store` what
its history is kept in:

* `"memory"`: a list, replaced in one step, that never fails (`memory/chat.go`);
* `"script"`: one text of `BEGIN`, `DELETE`, `INSERT` and `COMMIT` (`memory/sqlite3`),
  given to the database only if `Overwrite` is set. An error in it, also that of an
  `INSERT` without rows, leaves the deletion in a transaction that nobody ends (`open`,
  `SetMessagesFails`), in which every later text fails at its `BEGIN`;
* `"batch"`: `ClearMessages`, then `InsertMessages`, which fails as a whole
  (`memory/alloydb`, `memory/cloudsql`);
* `"stepwise"`: the same, but a failure keeps the messages already inserted,
  and an empty list is refused (`memory/mongo`).

A message is its role and the number of its call; `written` (every message ever
added) and `cleared` are history variables of the model. Tokens are a number
per role. Failures of the store (`FaultyStore`) and inputs or outputs without
the key to save (`BadValues`) may happen at any statement.

One caller has all four stores. Of two callers `HistoryInOrder` is about the stores
that replace in one step; two callers of a history that is cleared and filled again may
each insert their own list, which no property speaks of. The in-memory history has no
lock; what two callers make of that is in `ChatHistory`.

### SequentialChain

A sequence is checked chain by chain (`CheckChain`, `CheckOutputKeys`) with the
keys known so far, then called: `Call`, and for each chain `MissingInput`,
`WrongInputs`, `ChainFails` or `ChainReturns`, then `Finish`. A map of values is
its set of keys; a chain is its declared inputs and outputs and the keys its
own memory supplies, which for the chains of the library are among its inputs.
`kind` chooses `SequentialChain` or `SimpleSequentialChain`. The chains of a
sequence are chosen while they are checked, which is the same as checking any
list of chains. A chain may return more keys than it declares.

### ModelStream

One streamed answer, from the open response to the return of the call, in
thirteen clients. In five of them (`openai`, both of `anthropic`, both of
`ernie`) a goroutine, the *reader*, scans the body and offers payloads over an
unbuffered channel (`Read`, `Receive`, `ChannelClosed`); the others read in the
call (`Take`). A table per client gives what it does with a line of each kind,
with the end of the body, and with a connection that breaks. A text is its place
in the body, so `text` (what is returned) and `passed` (what the streaming
function got) can be compared. The streaming function may fail at any call. An
abandoned reader blocks for ever in its send; `offer` shows it.

### MessageConversion and ModelCall

`MessageConversion` translates a conversation, message by message, into the
request of eighteen models: system messages set apart, roles renamed, parts
grouped by role (bedrock), dropped or refused, or the first part alone taken. A
part in the request is known by its place in the conversation; formats are left
out. `ModelCall` is one call from the caller's side: `Start` and the reports to
the callbacks handler, `Convert`/`Refuse`/`Panic` for the translation and the
tools, and `Serve` for what an answer, a failure in one of six ways or an empty
answer becomes, with the choices and the tool calls in them. `openai` hands out the
calls of a candidate only if they are the reason it gives for its end (`OwnCalls`), so
that `CallsOnce` is not about the calls of its answers that were cut off.

### ResponseCache

Calls of `Cacher.GenerateContent` in any interleaving: the key (`Begin`), the
backend (`Get`), the replay of a hit to the streaming function (`Stream`), the
model (`Ask`), the new entry (`Put`), and expiration (`Expire`). The key is a
hash of the JSON of messages and options, so `MarshalJSON` and `UnmarshalJSON`
of messages and parts are modelled both ways; a hash is taken to have no
collisions.

### DocumentChains and AnswerChains

`DocumentChains` is the four chains that combine documents, called with
documents, over a retriever, or in a conversation with its memory. `asked` and
`answers` are the requests to the model and their answers; a text is known by
the document, the request or the caller it comes from. The requests of the map
chains are answered in any order, as `ChainApply` lets them. `AnswerChains` has
the chains that read an answer to decide what comes next: critique and revision
by principles, a call of an API, a query of a database, a sum. What the model
writes is the lines and marks the code looks for.

### AgentPlans

The three agents over the loop of the executor: what each request tells of the
steps so far (the scratch pad, or messages), and which actions or final answer
are read from the model's text or tool calls (`Plan`), which are then run
(`Act`). Texts are sequences of the lines the regular expressions find.

### Scraper and FinalStream

`Scraper.Call` over three small sites: every visit of a page is a goroutine by
default, or one inside the other; its callbacks note the page under the lock and
write to the shared text without one. The collector is external.
`FinalStream` is `AgentFinalStreamHandler`: the keywords, the window, the send on
the egress channel and the reader, which may never have been asked for.

### VectorStoreAdd and VectorStoreSearch

`AddDocuments` of twelve stores: which documents are embedded (the deduplicater),
embedders that fail or give too few vectors, writes that are kept, refused, or
kept with their reply lost, ids chosen by the store or by the caller, and a
caller that calls again with the same documents. `SimilaritySearch` of thirteen
stores: what of number, threshold, namespace and filter is given to the service
or applied to its answer; similarities are whole numbers. A milvus store keeps
what a search put into its shared search parameters (`radius`).

### Configuration

Fifty-eight constructors as records of sets of fields: read from the
environment, given a default, set by options, read late, needed. A caller gives
the usual options and up to two more, calls `New`, the environment changes, and
it calls `New` again with the same options. The value of a setting is where it
came from. `IInv` adds to the types that what a caller gives has a value of its own
and that what `palm` remembers was read before the environment changed.

### ChatHistory

Six histories under two callers that share a session or have one each; `Add`,
`Save`, `Clear`, `Set` and `Get` with the failures of the service at each
statement, and `Stop`, after which only `saved` is left. `said` is what the
session was told; `unsure` is set where an error or a race leaves open what is
in it, and the properties are about the sessions where nothing was left open.

### TextMerge, TextSplit, MarkdownSplit, MarkdownText

The splitters as algorithms: `TextMerge` splits at separators and merges pieces to
chunks, each loop a function of its rounds and the recursion over separators a
function of the separator it is at; `TextSplit` chooses plain texts, numbers of tokens
and options and states what the chunks must be. `MarkdownSplit` goes through the tree
of blocks with the state of `markdownContext`, `MarkdownText` chooses the documents
and states what their chunks must be. Characters and blocks keep their place in the
text, so losing, repeating and reordering show. A character is a space, a newline or
`x`, which stands for every other one.

### Embeddings

`EmbedderImpl` over ten clients and the four embedders of their own: removing
line breaks (in the caller's slice), batches, one request for each, answers with
too few, too many, empty or reordered vectors.

## What is checked

Runs marked *violation* show a disagreement between the code and what its
comments or tests say; they are described under *Findings*.

| run | bounds | what it shows |
|---|---|---|
| `agents` | 2 plans of at most 2 actions, 2 tools whose names differ in case, 1 unknown name, inputs with 0 or 1 trailing observation, error handler, callbacks | `TypeOK`, `StepsInPlanOrder`, `AgreeOnInput`, `NothingInFlight`, `FinishReported`, `ErrorIsFirstFailure`, `CallReturns`, `ImplementsLoop`, `AbandonedBlock` |
| `chains` | 3 inputs, 2 workers, calls fail, cancellation at any time; 2 keys, up to 3 chains, both kinds, memories; 2 callers with 3 calls that share a window or token buffer over sqlite3 | `TypeOK`, `ResultsComplete`, `EachInputOnce`, `QuietAfterSuccess`, `SendNeverBlocks`, `ApplyReturns`, `NoWorkerLeft`; `KeysHaveOneSource`, `MissingWasSuppliedEarlier`, `PipelineRuns`; `HistoryInOrder` |
| `apply_cancel_results` (violation) | 2 inputs, 1 worker, cancellation | `ResultsComplete` does not survive a cancellation |
| `memory_alone` | 1 caller, 5 calls, 4 memories, 4 stores, window of one exchange, token limit of one exchange and a question, everything may fail | `TypeOK`, `HistoryIsRecent`, `ForgottenByFailure`, `OrphanMeansFailedSave`, `Bounded`, `ChainSeesLastExchange`, `EventsMatchOutcome`, `CallsReturn` |
| `memory_no_overwrite` (violation) | token buffer over a history that ignores `SetMessages` | `PruningShortens` |
| `sequence_inputs` (violation) | 2 keys, up to 2 chains | `CheckedChainsHaveInputs` |
| `openai_streamed` (violation) | every model, 1 candidate with 1 tool call | `StreamedCallsAnswered` |
| `add_ids` (violation) | every store, 1 document | `AddedIdsReturned` |
| `search_filters` (violation) | every store, 2 documents, a default number of 1 | `SearchIsExact` |
| `options_used` (violation) | every package, 1 option more | `DocumentedIsUsed` |
| `models` | streams of 4 lines, conversations of 3 messages, 3 choices with 2 tool calls, 3 requests of the cache, 3 documents, 2 principles, 3 plans, texts of 4 lines, 5 visits, 3 chunks | `TypeOK`, `RequestTellsConversation`, `AnswerIsWhatWasSaid`, `FailuresSurface`, `NothingLeftBehind`, `StreamsEnd` |
| `services` | 2 documents and 2 calls of a store, similarities 0 to 2, 2 options more, 3 calls of 2 callers of a history, texts of 5 characters or tokens, chunks of up to 4, documents of 2 blocks under titles, 3 texts in batches of up to 2 | `TypeOK`, `AddedIsTold`, `KeptIsGiven`, `FoundIsAskedFor`, `SettingsAreTold`, `MarkdownIsKept` |

The invariants of the two suites are conjunctions of what their modules promise:

| invariant | conjuncts |
|---|---|
| `RequestTellsConversation` | conversion: `MessagesInOrder`, `RolesKept`, `PlainChatArrives`, `RolesAlternate`, `CallsArrive`, `AnswersArrive`, `LossesKnown`, `TextNeverPanics`; cache: `KeysTellRequests`, `MessagesSurvive`; documents: `DocumentsAreTold`, `QuestionIsCondensedFirst`; chains: `PrinciplesAreApplied`; agents: `StepsAreTold`, `CallsAreAnswered` |
| `AnswerIsWhatWasSaid` | stream: `StreamedIsReturned`, `AnswerIsComplete`; call: `PromptGetsFirst`, `CallsOnce`, `CallsStayWithChoice`, `ToolsOfferedOrRefused`, `StreamedCallSucceeds`; cache: `CachedIsAnswer`, `HitsWerePut`; documents: `AnswerIsBest`; chains: `QueryIsRun`, `DoneOnce`, `LastIsReturned`; agents: `FinalIsReturned`; site: `PagesOnce`, `TextUnderAddress`, `EveryPageRead`; final answer: `FinalIsSent`, `ThoughtsAreKept` |
| `FailuresSurface` | stream: `FaultReported`, `FunctionErrorReturned`; call: `FailureIsError`, `GarbageIsError`, `ReportsAgree`, `ReportIsOutcome`, `FailureReported`; documents: `FailuresHaveCauses`, `MemoryKeepsAnswered`; chains: `FailureIsTold`; agents: `FailureEnds`; site: `SiteFailureTold` |
| `NothingLeftBehind` | stream: `QuietAfterReturn`, `StrandedOnlyIfAbandoned`; site: `VisitsEnded` |
| `StreamsEnd` (temporal) | stream: `ReaderEnds`, `CallReturns` |
| `AddedIsTold` | `IdsNameAdded`, `SuccessIsComplete`, `IdsOfErrorAreAdded`, `AllOrNothing` |
| `KeptIsGiven` | stores: `OwnIdsOnce`, `RowsAreGiven`, `KnownKeptOut`, `PanicsKnown`; texts: `WordsKept`, `ChunksFit`, `OverlapKept`, `TokensKept` |
| `FoundIsAskedFor` | embedding: `TextsAreSent`, `VectorsOfTexts`, `CountedOrOneByOne`, `EmbedderPanicsKnown`; search: `NoneTooLow`, `FilterKept`, `OthersKeptOut`, `AtMostAsked`, `BestAreFound`, `FilteredBeforeCut`, `FilteredExactly`, `RadiusStays`, `FailureIsError`, `ScoreIsSimilarity`; histories: `TalkIsRead`, `OwnAreRead`, `ReadsAreAnswered` |
| `SettingsAreTold` | `GivenIsUsed`, `EnvironmentIsCurrent`, `CreatedIsComplete` |
| `MarkdownIsKept` | `TitlesTold`, `BlocksKept`, `BlocksInOrder`, `ItemsMarked`, `MarkdownFits`, `LinksAsAsked` |

Why the bounds are enough. In the executor two plans show what one plan leaves
behind for the next, and two goroutines show every order of two tools: one that fails
and one that is unread, or fails as well; that a third changes nothing is proved, for
any number. In `Apply` three inputs for two workers make a worker take a second job
while the other is still at work, and leave a job when the caller has gone; other
numbers, a worker without a job among them, are covered by the proofs. In the memory a
window of one exchange is overfull after the
second call, the token limit makes the token buffer prune once and twice in a
row, and five calls go through growing, pruning, failing and clearing; two
callers with three calls between them give a stale read in one of them at every
statement of the other, without failures, which `memory_alone` has and the proof of
`SharedInOrder` allows. In a sequence two keys suffice for a collision and for a
lost input, and three chains for a key that skips one.

In a stream four lines hold a start, two texts and a line that ends or spoils
it, in every order, and the end of the body is a line more. Three messages are
those before, in and after a change of the role; of three the parts are only
those whose order and grouping matter. Three choices with two calls each show a
call that strays to another choice. Two calls of the cache race for one key and
a third hits. Three documents have a first, a last and one between; three plans
a request with two earlier plans, one of two calls. Five visits of a site of
three pages reach every page on every path to it, and a page twice. Three chunks
split a keyword in two with a chunk after it. Two documents suffice for a batch
that breaks in the middle and two calls for a retry; three similarities for one
below, at and above a threshold. Two options more than the usual ones set a
field twice, and two fields of which only one may be set. Texts of five
characters have a separator between, before and after words and two in a row;
chunks of none to four characters hold one and two of their pieces. Three texts
in batches of two make a full batch and one that is not.

Deadlock is not checked where a run of the system ends: each model stops when
its calls have returned (`CHECK_DEADLOCK FALSE` in every configuration); that
they do return is a liveness property of the models with goroutines.

### Fairness

Liveness is checked under weak fairness of each goroutine: the Go scheduler
runs every goroutine that can run, and the environment's calls (`Plan`,
`Tool.Call`, the chain, the statements of a store) return, with an answer or an
error. Nothing forces a cancellation, a failure, or a choice between two ready
cases of a `select`. `NoWorkerLeft` and `ApplyReturns` need fairness of the
caller, the closer and each worker; `CallReturns` of the main goroutine and each
`doAction`; `CallsReturn` of each caller, not of `Clear`; `StreamsEnd` of the
reader (`Read`), the call that receives from it (`Receive`, `ChannelClosed`) and
the call that reads itself (`Take`): a service sends a next line, ends the body
or breaks the connection.

## What is proved

The proofs are in the eight modules whose names end in `_proofs`, for every value
of the constants that meets the named assumptions: any tools and names, any
inputs, any budget and plan size; any number of inputs and workers; any keys and
any number of chains; any callers, histories and limits; bodies, documents,
visits, requests, choices, chunks and texts of any number. Each component has an inductive
invariant `IInv`, defined in its own module as a conjunction of named parts, and a
theorem `Invariance` whose proof has one lemma or step for each action. TLC
checked each `IInv` before it was proved. The assumptions are those the modules
name: bounds are natural numbers, a pool has a worker, an answer of a service has a
candidate (`MaxChoices`, without which `ModelCall` has nothing to say), and a scraper
makes the visit it is called for (`MaxVisits`).

A function that loops over a list is a recursive function in the models. What is
proved of one for lists of any length is proved by the smallest place at which it
would fail, from the well-foundedness of `<` on the naturals; the prover has no
induction rule to cite.

* **AgentExecutor.** `StepsInPlanOrder` is not inductive: that the next step
  follows the last one depends on where the main goroutine is. `IInv` adds
  `ReadInv` (everything before `next` is done and did not fail, everything from
  `next` on is not done while it is being read), `LatestStep` (the place of the
  last step for each place of the main goroutine) and `GoroutineInv` (what a
  goroutine has told the callbacks and the tools before it sends). From it
  follow `TypeCorrect`, `StepsStayInPlanOrder`, `InputsAgree`,
  `FirstFailureReturned`, `NoStrayGoroutine`, `FinishIsReported`, and
  `Refinement`: `Spec => ImplementsLoop`, by showing for each action that it is
  a step of the loop or leaves `plans`, `steps`, the outstanding actions and the
  outcome alone.
* **Chains** (`Chains_proofs`). `Invariance`: the invariants of the three parts hold
  throughout, and a step is one of a part. The assumptions of `ChainApply`
  (`ApplyAssumption`) and of `SequentialChain` (`SequenceAssumption`) are stated here.
* **ChainApply** (in `Chains_proofs`). `IInv` says that an input is in one place at a
  time: not taken, with one worker, in the channel once, stored, or dropped after an
  error or a cancellation; and that `got` counts the stored answers as long as no zero
  value can have been read. `ApplyIsComplete`, `ApplyCallsOnce` and `ApplyIsQuiet`
  follow by counting. They say `canceled \/ ...` where the code keeps its promise only
  under a live context. `ApplyHasRoom` holds always: the answers in the channel are to
  different inputs and the sender holds another one, so there are fewer than `N`.
* **SequentialChain** (in `Chains_proofs`). `IInv` says what the check has added up
  (`Known`) and what the next chain is sure to be given (`Given`). From it follow
  `SequenceKeysHaveOneSource` and `SequenceMissesEarlier`; and `SequenceRuns`, that
  where each chain gets what it needs from the one before, a checked sequence never
  misses an input.
* **ConversationMemory.** None of its safety properties is inductive. `IInv` says
  who holds a call and at which step it is with its memory; that a message is new
  when it is written; that what a caller read and is about to store is a recent
  part of what was written, as is the history, in the order of the writing; that a
  question without its answer has a failed save to blame, or a save that is still on
  its way; how long the history may be at each step of a save; and where the latest
  exchange of a caller is. From it follow `TypeCorrect`, `KeepsTheLatest`,
  `KeepsTheOrder`, `AnswersFollow`, `StaysBounded`, `LastExchangeSeen` and
  `CallbacksMatch`; and `ForgetsOnlyByFailure`, that a message is forgotten behind an
  older one only by a save that failed, where an insertion stopped half way or a
  transaction was left open. `Chains_proofs` takes the order of a shared history from
  here (`SharedInOrder`). `PruningShortensAlone` is the action property of the second
  finding, proved for one caller over a history whose `SetMessages` replaces: what
  the run `memory_no_overwrite` refutes needs the history that ignores it.
* **ModelStream** (in `Streaming_proofs`). For bodies of any length. `IInv` says
  what has been read of the body and how it ended (`BodyInv`), what the reader is
  about to send (`ReaderInv`), where the call is and what it has been told
  (`CallInv`, `ReturnInv`), and that the text passed on, the text kept and what is on
  its way add up (`TextInv`). From it follow that the call returns what it streamed
  (`ReturnsWhatItStreams`), that a body cut off is reported by the clients that look
  (`CutOffIsReported`), that the error of the streaming function is returned
  (`FunctionErrorSurfaces`), and that nothing goes on after the return
  (`NothingGoesOn`), with the exceptions the properties name.
* **FinalStream** (in `Streaming_proofs`). For any number of chunks. `WindowInv` says
  that the window is the end of what was said, as long as the longest keyword. A
  keyword that is not in what was said before and is in it with the next chunk ends
  in that chunk, so the window with the chunk has it whole: the handler finds exactly
  the keywords that are there, in however many pieces they come. `KeptInv` says that
  nothing is passed on before that, `SentInv` that passed on are the end of the chunk
  that completed the keyword and every chunk after it. Where the cut is clean that
  end is what follows the keyword in all that was said: `FinalAnswerIsPassedOn`.
* **MessageConversion** (in `Streaming_proofs`). For conversations of any length,
  whatever the number of parts of a message (`MaxMessages` and `PartLists` are
  parameters of the proof). `ToldInv` says that what is requested was said and stands
  in its order and under its role, `LossInv` that what is not requested is one of the
  losses, `ChunkInv` what the chunk of bedrock is of the request so far, `SystemInv`
  what googleai has set apart. That the parts of a message are told each once and in
  their order is shown of the loop over them, step by step: `ConversationIsTold`.
* **DocumentChains** (in `AnswerChains_proofs`). For any number of documents.
  `SequenceInv` gives the order of the requests of each chain, `RunningInv` and
  `WaitingInv` which of them wait for an answer and which have failed while the call
  goes on, `AskedInv` and `CondenseInv` the question they are about, `KindInv` what the
  place of a call says of its chain: hence `CallsFailForCauses`, `MemoryHoldsAnswers`,
  `CondensedFirst` and `DocumentsTyped`. `AnswerInv` says which answers a successful
  call chose from; that one of them has the highest score, and that there is one, is
  `BestIsReturned`. `ToldInv` says what was told of the documents by then: so many as
  were given to the workers, in their order, while the map is on; all of them before the
  reduce; in a refinement as many as there were requests, each with the answer before
  it. That a document is the next one is told by a count of the requests of its kind, so
  the proof counts them by their places. Hence `DocumentsTold`.
* **AnswerChains.** For any number of principles and lines. `CritiqueInv` and
  `PrincipleInv` follow the response through the loop over the principles,
  `QueryInv` the query from the answer to the database, `CourseInv` the order of
  requests and deeds: hence `TypeCorrect`, `EachPrincipleIsApplied`, `ActsOnce` and
  `FailuresAreTold`. `WholeQueryIsRun` says that the loop of `extractSQLQuery`, line
  by line, keeps what the definition by places keeps, for any answer.
* **AgentPlans** (in `AnswerChains_proofs`). For any number of plans, of calls in each
  and of steps. `PlanInv` says which request an answer was to and that the last plan, if
  it finishes, is the one that is returned: `AgentReturnsItsFinal`. `StoryInv` says
  what the next request is to tell: the steps that were taken, each after the answer of
  the model it is of, and with functions a message for each plan whose calls were all
  answered before the next plan was asked for. A message and its answers are put
  together from the list of the steps; that a list of such lists has each step once
  and in its order rests on lemmas about `FlattenSeq` and about the part of a list that
  is in a set. Hence `AgentTellsItsSteps`.
* **MCModels.** `PartsInv` is the conjunction of the invariants of the parts, each
  under its part; a step is one of a part and leaves the choice of the part alone.
  The invariants of `ModelCall`, `ResponseCache` and `Scraper` are proved here.
  * `ModelCall`: `ChoiceInv` says what a choice has of the candidate it stands for.
    That a call is given once and stays with its candidate when the calls of all
    candidates are put together rests on lemmas about `FlattenSeq` for any number of
    lists.
  * `ResponseCache`: an answer is kept under the key it was given for, and each
    answer has a call of its own that asked for it, so that a call with a hit cannot
    have put it there itself.
  * `Scraper`, however many visits: `VisitInv` is what a visit may still follow,
    `HomeInv` what became of the first page, `ReturnInv` the place of `Call`;
    `PiecesInv`, `PlaceInv` and `ToldInv` say where each piece of a page is in the
    text while visits mix, `ReadInv` that a link that was seen is read or will be.
    That every page that can be reached is read when no visit is left follows
    because the pages read are closed under links; the sites have three pages.

  From `PartsInv` follow all the invariants of the run: `TypeCorrect`,
  `RequestsTellAll`, `AnswersAreSaid`, `FailuresAlwaysSurface` and
  `NothingStaysBehind`. `ConversationsAreTold`, `CallsAnswerWell` and
  `CachedAnswersStand` are the conjuncts that belong to a conversation, a call and the
  cache, with their types.
* **Services** (`Services_proofs`). `PartsInv` is again the conjunction of the
  invariants of the parts. The assumptions are those of `BoundsAssumption`, that
  bounds are natural numbers and the callers a finite set of at least one, and
  `PackagesAssumption`, which says of the fifty-eight records of `Configuration` what
  TLC finds by going through them: the options are finitely many, nothing is read late
  that has a default, and a constructor that fails has not succeeded.
  * `VectorStoreAdd`, for any number of documents and of calls again: `GivenInv` says
    that what the caller gave is left as it is (but for the metadata of cloudsql),
    `TodoInv` that what is to be written is chosen once a call is begun that is not
    refused, with none the deduplicater knows, `RowsInv` that a row has an id of its
    own: that of its place in the call that wrote it, or the one its document brings.
    That the positions of a finite set can be put in order, in one way, is shown for
    sets of any size. Hence `AddedTold` and `KeptGiven`, store by store.
  * `VectorStoreSearch`, for any number of documents: the documents are ranked by
    similarity, so that the best of a set of positions are its first; what each of the
    thirteen stores asks of its service and does with the answer is such a set of
    positions, and the documents found are those at the positions in order.
  * `ChatHistory`, for any number of callers and calls: `AllSaved` says that
    nothing is written but not saved unless a transaction is open, `ToldIsSaved` that
    what a session was told is what is saved of it, wherever nothing was left open, and
    `HeldIsToCome` that a caller between two steps has in hand all that its session was
    told and a message more, unless another caller made that stale, which `unsure`
    says. Hence `TalkIsRead`, `OwnAreRead` and `ReadsAreAnswered`, history by history.
    That reading the rows of one session keeps their order rests on lemmas about
    `FlattenSeq` and the part of a list that is in a set.
  * `Embeddings`, for any number of texts and any batch size: `Batched` says that the
    batches are the texts one after the other, none empty or too large, `Requested`
    that those sent are the first of them with answers that were no failure, `Counted`
    that each vector stands at the place of its text as long as every answer so far was
    counted or whole. Hence the vectors at the end are those of the texts, and a query
    without a vector was answered with none by a client that does not count.

  * `Configuration`, for every package and any number of options: applied one after
    the other, the options leave in a field what the last of those about it says, which
    is proved by the smallest place in the list where that would fail. Of each field it
    follows whether its value is that of the option, of the environment, early or late,
    or the default; a package overrules only the fields that are listed with their
    reasons. From that, `IInv` and what `Missing` leaves, each call of a constructor
    that succeeds has the three properties: `SettingsTold`.

  * `TextSplit`, for texts of any length, any size of a chunk and any overlap. A text
    is `Flow` when its words come in the order of their places, and `Chunked` says what
    it is to be split well: chunks with all its words, each with words that follow each
    other, short enough or of nothing to split at, in its order, with no more in two of
    them than the overlap. Pieces that are merged are `Grouped`, group by group, and as
    many are popped as it takes for the rest to fit; the chunks of two texts that follow
    each other are those of both, so that short pieces and those that were split again
    may take turns; and a text that has none of the separators tried so far (`Gone`) is
    split well from the next one on, which is shown from the last separator back to the
    first. That the functions of the rounds of a loop exist at all, and so are what their
    equations say, is proved once (`RoundsExist`) for loops of any number of rounds. The
    chunks of tokens are `CutTo` the place where the next one begins. Hence `WordsKept`,
    `ChunksFit`, `OverlapKept` and `TokensKept`, which are part of `KeptGiven`.

  `VectorStoreSearch`, `ChatHistory` and `Embeddings` give `FoundAsked`; the types of
  all six give `TypesKept`. What is proved of `Services` holds of every behaviour of
  `MCServices` whose part is one of `Services`.

## Findings

1. **A cancelled `Apply` may report success** (`chains/chains.go:226`, run
   `apply_cancel_results`). After a cancellation all workers may leave and the
   closer closes the answer channel; the caller's `select` then has two ready
   cases and may take zero values from the closed channel as answers. `Apply`
   returns results with nil maps and no error, where the test of a cancelled
   context expects `context canceled`.
2. **The token buffer never stops pruning a history that ignores `SetMessages`**
   (`memory/sqlite3/sqlite3_history.go:128`, run `memory_no_overwrite`). The
   sqlite3 history ignores `SetMessages` unless `Overwrite` is set; the loop of
   `memory/token_buffer.go:64` then reads, shortens and stores the same messages
   for ever.
3. **A checked sequence may lack an input** (`chains/sequential.go:110`, run
   `sequence_inputs`). The check accepts keys supplied by the call, the memory
   or any chain further up; `Call` gives each chain the outputs of the previous
   one only. What does hold is `MissingWasSuppliedEarlier` and `PipelineRuns`.

4. **A streamed call of openai always fails** (`llms/openai/openaillm.go:274`, run
   `openai_streamed`). The answer put together from a stream has no role, which
   `messageFromMessage` refuses: the call streams its text and then returns an error.
   `TestWithStreaming` (`llms/openai/multicontent_test.go:101-129`) expects it to
   succeed.
5. **Ids of documents that were not added, or none** (run `add_ids`). The comments of
   `AddDocuments` promise "the ids of the added documents". `milvus` ends in `return
   nil, nil` (`vectorstores/milvus/milvus.go:235`); `opensearch`
   (`vectorstores/opensearch/opensearch.go:79`) and `weaviate`
   (`vectorstores/weaviate/weaviate.go:145`) drop the response that says that a
   document was refused and return its id.
6. **A filtered search is not exact** (`vectorstores/alloydb/vectorstore.go:194`, run
   `search_filters`). `vectorstores/options.go:35-36` promises "exactly the number of
   nearest-neighbors results that match the filters". `alloydb` and `cloudsql` ask for
   the number the store was made with, `bedrockknowledgebases` reads all pages,
   `opensearch` sends no filter, and the threshold of a `milvus` search stays for the
   next.
7. **Options that are not used** (run `options_used`). The comments of these options say
   what they set. The handler of `mistral` (`llms/mistral/mistralmodel.go:40`) and the
   URL of `maritaca` (`llms/maritaca/maritacallm.go:38`) are dropped; the key of
   `azureaisearch` (`vectorstores/azureaisearch/options.go:89`) is replaced by that of
   the environment, the batch size of `jina` (`embeddings/jina/options.go:76`) by that of
   a model it knows.

The invariants of the passing runs say what holds besides: `StreamedCallSucceeds`,
`IdsNameAdded`, `FilteredExactly` and `GivenIsUsed` name the clients, stores and options
of the findings 4 to 7 as exceptions, and hold of all others.

## Observations

What the models say beyond the findings, stated as exceptions in the properties
of the module named: a reader of one client or store would expect what the next one
does.

* **ModelStream.** After a stream `cloudflare` returns no text, and `maritaca`
  none if the closing event never came. `anthropicText`, `ernie` and
  `cloudflare` take a broken connection for the end of an answer; the others
  but `anthropic` and `ollama` take a body that is cut off for complete. An error
  of the streaming function ends the stream quietly in `googleai` and `vertex`.
  A reader is left blocked in its send after the streaming function failed or
  `anthropic` reported an error; the reader of `anthropic` may call the
  streaming function after the call has returned.
* **MessageConversion, ModelCall.** `anthropic` sends the first part of each
  message only, so parallel tool calls and their answers are lost; `googleai`
  and `vertex` keep the last system message and send the last message as the
  user's; `openai` leaves out answers outside tool messages, and hands out the calls of
  an answer only where they are the reason for its end. The second candidate of `googleai`
  has the calls of the first too, the first choice of `mistral` has them all. A
  failure status without a body slips by `llamafile` and `cloudflare` and makes
  `ollama` panic.
* **ResponseCache.** Concurrent misses each ask the model; an answer without
  choices is kept; a hit streams its first choice only; a message of one empty
  text comes back without parts, and `ToolCall.UnmarshalJSON` loses its function.
* **DocumentChains.** Refining tells the metadata `page_content` in place of the
  text of a document that has it, and the caller's own `context` with it.
  `map_reduce` with intermediate steps panics when its reduce fails. A
  conversation over a chain with more than one output fails after all requests
  were answered, and its memory may keep the question alone; a custom
  `OutputKey` makes the condensing of the question fail.
* **AnswerChains.** The constitutional chain returns the response it began with:
  the revisions are lost. The status of the API is not looked at. The answer of
  the SQL chain is looked for in the first paragraph.
* **AgentPlans.** The functions agent over a model other than `openai` is never
  told its steps; it drops calls next to a plain text and ignores the output
  key. Broken JSON in arguments is not given to the error handler.
* **Scraper, FinalStream.** The pieces of a page are written without a lock and
  may be mixed with those of another; a site that cannot be reached tells nobody
  by default. Of the final answer the rest of a keyword beyond its colon is
  passed on; the keywords of one handler replace those of the package; the
  handler is never reset; without a reader the model waits for ever, and the
  reader closes the channel itself, which panics if it was closed to end it.
* **VectorStoreAdd, VectorStoreSearch.** The scores of `milvus`, `redis` and the SQL
  stores are distances, those of the others similarities. Of two documents with the
  same id of their own `redis` keeps the later.
* **Configuration.** The key in the environment beats the options behind a blank one
  in `googleai`; the clients of `palm` and `zapier` are dropped or replaced; `palm`
  reads the project from the environment once.
* **ChatHistory.** After any error inside `BEGIN ... COMMIT` sqlite3 keeps a transaction
  open, in which what is added afterwards is gone after a restart; `Limit` returns the
  oldest messages; some types of messages cannot be read back; a replacement in two
  steps can be seen half done; two callers of the in-memory history lose each other's
  messages.
* **Text splitting.** A chunk may be longer than `ChunkSize` by a separator that
  was not counted. The token splitter never ends when the overlap is the chunk
  size and panics when it is more. Markdown in quotes and lists is split without
  the options, of which the comments of `WithCodeBlocks` and `WithReferenceLinks`
  (`textsplitter/options.go:107-122`) say nothing; only paragraphs and lists count in the items of a list; a list
  inside spoils the numbers after it; HTML is dropped.
* **Embeddings.** A batch size of zero panics. Clients that do not count the
  vectors of an answer misalign the texts after a missing one, or panic at an
  empty answer to a query; none reads the index the service gives. The line
  breaks of the caller's texts are removed in its own slice.

## What is only model-checked

* All liveness properties (their proofs need fairness and `ENABLED`, which the
  prover does not support).
* `MarkdownIsKept`: the blocks of a document are a tree, and `MarkdownSplit` and
  `MarkdownText` go through it with recursive operators, which no module with a theorem
  may use.
* What recursive definitions over data compute (the token count of the memory, the
  tree of blocks), but for those named above.

## Not modelled, and the plan

Left out inside what is modelled:

* options of a request (temperature and the like), downloads of images, the
  refresh of ernie's token;
* in `Configuration`, options that append to a list, the constructors of
  duckduckgo, wikipedia and metaphor, the two variables of openai's base URL
  (one here), and one optional system option of cloudflare;
* in the splitters, the copies of metadata in `CreateDocuments`, separators of
  several characters, the blank line before a code block, `TrimSpace` of marks;
* in `DocumentChains`, call options; in `AgentPlans`, tool-call ids that repeat;
  in `Embeddings`, `CombineVectors`; in `Scraper`, the limit on parallel visits;
* of the vector stores, the creation of tables, collections and indexes and the
  ingestion of bedrock knowledge bases; of the chains, the transform chain; of
  the tools, those that are one request whose result is formatted.

Not modelled: prompts, output parsers, document loaders, HTTP utilities and
schemas. They fill in, parse and read, and keep no state between calls; nothing
of them runs concurrently, and a unit test reaches what a model would say.

What is left, in order:

1. the splitter of markdown as functions over the depth of a tree, so that something
   can be proved of it;
2. an abstract history that `ChatHistory` implements where its services do not
   fail, and `AgentPlans` composed with `AgentLoop`;
3. the ingestion of bedrock knowledge bases and the creation of tables and
   indexes of pgvector, both of which several programs may do at a time.
