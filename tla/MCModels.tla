------------------------------ MODULE MCModels ------------------------------
(* The models of llms and what the chains and agents make of their answers, in *)
(* one state space: `part` says whether a behaviour reads a stream             *)
(* (ModelStream), translates a conversation (MessageConversion), makes a whole *)
(* call (ModelCall), keeps answers (ResponseCache), answers from documents     *)
(* (DocumentChains), acts on what the model says (AnswerChains), plans with    *)
(* tools (AgentPlans), reads a site for one (Scraper) or passes on what an     *)
(* agent says (FinalStream). The modules share the names of variables that     *)
(* mean the same; a variable that is not of the part stays None.               *)
EXTENDS Naturals, Sequences

CONSTANTS MaxLines,                 \* of a stream, a query or a first answer
          MaxChoices, MaxCalls,     \* of an answer
          MaxDocs, MaxPrinciples, MaxPlans, MaxRequests, MaxChunks, MaxVisits

ASSUME BoundsAssumption ==
    /\ {MaxLines, MaxChoices, MaxCalls, MaxDocs, MaxPrinciples, MaxPlans, MaxRequests,
        MaxChunks, MaxVisits} \subseteq Nat
    /\ 0 \notin {MaxChoices, MaxVisits}     \* an answer has a candidate, a site a page

VARIABLES part, client, outcome, pc, messages,
          body, reader, offer, main, text, passed, complete, opened, failed, late,
          conversation, chunk, system,
          streaming, tools, offered, reply, candidates, events, choices,
          setup, asked, answers, docs, kept, done,
          calls, entries, given,
          Keywords, DefaultKeywords, LastTokens, PrintOutput, egress, heard, spoken, listener,
          Async, site, canceled, visited, scrapedLinks, visits, siteData

ofStream == <<body, reader, offer, main, text, passed, complete, opened, failed, late>>
ofConversion == <<conversation, chunk, system>>
ofCall == <<streaming, tools, offered, reply, candidates, events, choices>>
ofDocuments == <<docs, kept>>
ofChains == <<setup, asked, answers>>
ofCache == <<calls, entries, given>>
ofFinal == <<Keywords, DefaultKeywords, LastTokens, PrintOutput, egress, heard, spoken,
             listener>>
ofSite == <<Async, site, canceled, visited, scrapedLinks, visits, siteData>>
vars == <<part, client, outcome, pc, messages, ofStream, ofConversion, ofCall,
          ofChains, ofDocuments, done, ofCache, ofFinal, ofSite>>

\* Each kind alone, doubled, and the mixtures that are handled differently.
ManyParts == {<<>>, <<"text">>, <<"binary">>, <<"image">>, <<"call">>, <<"answer">>,
              <<"text", "text">>, <<"call", "call">>, <<"answer", "answer">>,
              <<"text", "call">>, <<"call", "text">>, <<"binary", "text">>}

\* For conversations of three messages.
FewParts == {<<"text">>, <<"call">>, <<"answer">>, <<"call", "call">>}

\* With their proofs, which MCModels_proofs puts together with the others; that of
\* ModelStream has FinalStream as Passing and MessageConversion as Asking, that of
\* AnswerChains has AgentPlans as Planning and DocumentChains as Docs.
Streams == INSTANCE Streaming_proofs WITH MaxMessages <- 3, PartLists <- ManyParts,
    Roles <- {"system", "human", "ai", "generic", "function", "tool"}
Calls == INSTANCE ModelCall
Acting == INSTANCE AnswerChains_proofs
Caching == INSTANCE ResponseCache
Scraping == INSTANCE Scraper

----------------------------------------------------------------------------
None == "none"

NoStream == /\ body = None /\ reader = None /\ offer = None /\ main = None /\ text = None
            /\ passed = None /\ complete = None /\ opened = None /\ failed = None
            /\ late = None
NoConversion == conversation = None /\ chunk = None /\ system = None
NoCall == /\ streaming = None /\ tools = None /\ offered = None
          /\ reply = None /\ candidates = None /\ events = None /\ choices = None
NoDocuments == docs = None /\ kept = None
NoChains == setup = None /\ asked = None /\ answers = None /\ NoDocuments /\ done = None
NoCache == calls = None /\ entries = None /\ given = None
NoFinal == /\ Keywords = None /\ DefaultKeywords = None /\ LastTokens = None
           /\ PrintOutput = None /\ egress = None /\ heard = None /\ spoken = None
           /\ listener = None
NoSite == /\ Async = None /\ site = None /\ canceled = None /\ visited = None
          /\ scrapedLinks = None /\ visits = None /\ siteData = None

InitModel ==
    /\ NoChains /\ NoCache /\ NoFinal /\ NoSite
    /\ \/ /\ part = "stream" /\ Streams!Init /\ NoConversion /\ NoCall
          /\ pc = None /\ messages = None
       \/ /\ part = "conversion" /\ Streams!Asking!Init /\ NoStream /\ NoCall /\ pc = None
       \/ part = "call" /\ Calls!Init /\ NoStream /\ NoConversion /\ messages = None

InitChain ==
    /\ client = None /\ NoStream /\ NoConversion /\ NoCall
    /\ NoCache /\ NoFinal /\ NoSite
    /\ \/ part = "documents" /\ Acting!Docs!Init /\ messages = None /\ done = None
       \/ part = "acts" /\ Acting!Init /\ NoDocuments /\ messages = None
       \/ part = "agent" /\ Acting!Planning!Init /\ NoDocuments

\* What is put around a model or an agent.
InitAround ==
    /\ client = None /\ messages = None
    /\ NoStream /\ NoConversion /\ NoCall /\ NoChains
    /\ \/ part = "cache" /\ Caching!Init /\ outcome = None /\ pc = None /\ NoFinal /\ NoSite
       \/ /\ part = "final" /\ Streams!Passing!Init
          /\ outcome = None /\ pc = None /\ NoCache /\ NoSite
       \/ part = "site" /\ Scraping!Init /\ NoCache /\ NoFinal

Init == InitModel \/ InitChain \/ InitAround

\* Three messages only of the parts and roles whose order and grouping matter.
Short == Len(conversation') = 3 =>
            \A i \in 1..3 : /\ conversation'[i].parts \in FewParts
                            /\ conversation'[i].role # "function"

ofAround == <<ofChains, ofDocuments, done, ofCache, ofFinal, ofSite>>

Stream == /\ part = "stream"
          /\ UNCHANGED <<part, pc, messages, ofConversion, ofCall, ofAround>>
Convert == /\ part = "conversion" /\ Streams!Asking!Next /\ Short
           /\ UNCHANGED <<part, pc, ofStream, ofCall, ofAround>>
Call == /\ part = "call" /\ Calls!Next
        /\ UNCHANGED <<part, messages, ofStream, ofConversion, ofAround>>

ofModels == <<client, ofStream, ofConversion, ofCall, ofCache, ofFinal, ofSite>>
FromTexts == /\ part = "documents" /\ Acting!Docs!Next
             /\ UNCHANGED <<part, ofModels, messages, done>>
ActOn == /\ part = "acts" /\ Acting!Next
         /\ UNCHANGED <<part, ofModels, messages, ofDocuments>>
PlanWith == /\ part = "agent" /\ Acting!Planning!Next /\ UNCHANGED <<part, ofModels, ofDocuments>>

ofOthers == <<client, messages, ofStream, ofConversion, ofCall, ofChains, ofDocuments, done>>
Cache == /\ part = "cache" /\ Caching!Next
         /\ UNCHANGED <<part, outcome, pc, ofOthers, ofFinal, ofSite>>
PassOn == /\ part = "final" /\ Streams!Passing!Next
          /\ UNCHANGED <<part, outcome, pc, ofOthers, ofCache, ofSite>>
Scrape == part = "site" /\ Scraping!Next /\ UNCHANGED <<part, ofOthers, ofCache, ofFinal>>

Read == Stream /\ Streams!Read
Receive == Stream /\ Streams!Receive
ChannelClosed == Stream /\ Streams!ChannelClosed
Take == Stream /\ Streams!Take

Next == \/ Read \/ Receive \/ ChannelClosed \/ Take \/ Convert \/ Call
        \/ FromTexts \/ ActOn \/ PlanWith \/ Cache \/ PassOn \/ Scrape

\* The runtime runs the reader and the call of a stream.
Spec == /\ Init /\ [][Next]_vars
        /\ WF_vars(Read) /\ WF_vars(Receive) /\ WF_vars(ChannelClosed) /\ WF_vars(Take)

----------------------------------------------------------------------------
(* The state of each part keeps its types. *)
TypeOK == /\ part = "stream" => Streams!TypeOK
          /\ part = "conversion" => Streams!Asking!TypeOK
          /\ part = "call" => Calls!TypeOK
          /\ part = "documents" => Acting!Docs!TypeOK
          /\ part = "acts" => Acting!TypeOK
          /\ part = "agent" => Acting!Planning!TypeOK
          /\ part = "cache" => Caching!TypeOK
          /\ part = "final" => Streams!Passing!TypeOK
          /\ part = "site" => Scraping!TypeOK

(* A request tells the conversation: in its order, each part under the role
   that said it, whole, with every tool call and every answer to one, but for
   the losses named in MessageConversion; and no text makes it panic. So do the
   requests of a chain or an agent: each document, once, the response as it was last
   revised, every step so far with the call it answers; and so does the key under
   which the answer is kept. *)
RequestTellsConversation ==
    /\ part = "cache" => Caching!KeysTellRequests /\ Caching!MessagesSurvive
    /\ part = "documents" => /\ Acting!Docs!DocumentsAreTold
                             /\ Acting!Docs!QuestionIsCondensedFirst
    /\ part = "acts" => Acting!PrinciplesAreApplied
    /\ part = "agent" => Acting!Planning!StepsAreTold /\ Acting!Planning!CallsAreAnswered
    /\ part = "conversion" =>
        /\ Streams!Asking!MessagesInOrder /\ Streams!Asking!RolesKept
        /\ Streams!Asking!PlainChatArrives /\ Streams!Asking!RolesAlternate
        /\ Streams!Asking!CallsArrive /\ Streams!Asking!AnswersArrive
        /\ Streams!Asking!LossesKnown /\ Streams!Asking!TextNeverPanics

(* What the caller gets is what the service said: the text that was streamed,
   to its end, the first candidate for a single prompt, every tool call once
   and with its own choice, for the tools that were offered. The answer of a chain
   or an agent is the last or the best of those of its model, and what is run for
   it is what the model wrote for that, once. What comes from the cache had been said
   to the same request; what an agent's listener hears is its final answer; what is told
   of a site is the text of each of its pages, once. *)
AnswerIsWhatWasSaid ==
    /\ part = "cache" => Caching!CachedIsAnswer /\ Caching!HitsWerePut
    /\ part = "site" => /\ Scraping!PagesOnce /\ Scraping!TextUnderAddress
                        /\ Scraping!EveryPageRead
    /\ part = "final" => Streams!Passing!FinalIsSent /\ Streams!Passing!ThoughtsAreKept
    /\ part = "documents" => Acting!Docs!AnswerIsBest
    /\ part = "acts" => Acting!QueryIsRun /\ Acting!DoneOnce /\ Acting!LastIsReturned
    /\ part = "agent" => Acting!Planning!FinalIsReturned
    /\ part = "stream" => Streams!StreamedIsReturned /\ Streams!AnswerIsComplete
    /\ part = "call" =>
          /\ Calls!PromptGetsFirst /\ Calls!CallsOnce /\ Calls!CallsStayWithChoice
          /\ Calls!ToolsOfferedOrRefused /\ Calls!StreamedCallSucceeds

(* A failure is never an answer: of the connection in the middle of a stream, of
   the streaming function, of the service in each of its ways; and what the
   callbacks are told is what the caller gets. A chain or an agent fails when its
   model, its retriever or what it runs does, and its memory keeps none of that. *)
FailuresSurface ==
    /\ part = "site" => Scraping!SiteFailureTold
    /\ part = "documents" => /\ Acting!Docs!FailuresHaveCauses
                             /\ Acting!Docs!MemoryKeepsAnswered
    /\ part = "acts" => Acting!FailureIsTold
    /\ part = "agent" => Acting!Planning!FailureEnds
    /\ part = "stream" => Streams!FaultReported /\ Streams!FunctionErrorReturned
    /\ part = "call" =>
          /\ Calls!FailureIsError /\ Calls!GarbageIsError
          /\ Calls!ReportsAgree /\ Calls!ReportIsOutcome /\ Calls!FailureReported

(* Nothing goes on when the call has returned: the streaming function is not
   called, the reader not blocked in its send, but in the cases ModelStream names; no
   page of a site is being read. *)
NothingLeftBehind ==
    /\ part = "site" => Scraping!VisitsEnded
    /\ part = "stream" => Streams!QuietAfterReturn /\ Streams!StrandedOnlyIfAbandoned

(* The call that reads a stream returns, and its reader ends unless abandoned. *)
StreamsEnd == part = "stream" => Streams!ReaderEnds /\ Streams!CallReturns
=============================================================================
