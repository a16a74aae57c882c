----------------------------- MODULE ModelCall -----------------------------
(***************************************************************************)
(* One call of a model, GenerateContent, from the caller's side: what is   *)
(* reported to the callbacks handler, what an answer, an error or silence  *)
(* of the service becomes, and which choices are returned, for the models  *)
(* under llms/.                                                            *)
(*                                                                         *)
(* The translation of the conversation is MessageConversion's, the reading *)
(* of a stream ModelStream's: here one succeeds, refuses or panics and the *)
(* other delivers its answer.                                              *)
(***************************************************************************)
EXTENDS Naturals, Sequences, SequencesExt

CONSTANTS MaxChoices,   \* candidates in an answer
          MaxCalls      \* tool calls in a candidate

Bedrock == {"bedrockAnthropic", "bedrockAi21", "bedrockAmazon", "bedrockCohere",
            "bedrockMeta"}
Google == {"googleai", "vertex"}
Assuming == {"cohere", "ernie", "huggingface", "local", "palm"}
Models == Bedrock \cup Google \cup Assuming \cup
          {"openai", "anthropic", "anthropicText", "cloudflare", "llamafile",
           "maritaca", "mistral", "ollama", "watsonx"}

Streaming == {"openai", "anthropic", "anthropicText", "bedrockAnthropic",
              "cloudflare", "ernie", "llamafile", "maritaca", "mistral", "ollama"}
               \cup Google

WithTools == {"openai", "anthropic", "mistral"} \cup Google
Several == {"openai", "mistral", "bedrockAi21", "bedrockAmazon", "bedrockCohere",
            "palm"} \cup Google

----------------------------------------------------------------------------
(* What the service may do:                                                *)
(*   answer   it answers                                                   *)
(*   cut      it answers, and gives another reason for its end: the limit  *)
(*   none     a well-formed answer with nothing in it                      *)
(*   apiError an error inside a successful response                        *)
(*   garbage  a response that cannot be decoded                            *)
(*   status   a failure status           bare     and an empty body        *)
(*   network  no response at all, or a local binary that fails             *)
(* and what the client makes of it: the "choices" of the answer, "blank",  *)
(* one choice without text, "nothing", no choice, "error" or "panic".      *)

Answers == {"answer", "cut"}
Broken == {"status", "bare", "network"}
Kinds == Answers \cup Broken \cup {"none", "garbage", "apiError"}

Strict == [kind \in Kinds |-> IF kind \in Answers THEN "choices" ELSE "error"]

\* For each model, the client below it (its name ends in Client) and the model.

\* An answer that is read at once has a role, one put together from a stream has
\* none; messageFromMessage refuses an answer without role.
OpenAIClient == [Strict EXCEPT !["none"] = "nothing"]
OpenAINotEmpty == [OpenAIClient EXCEPT !["none"] = "error"]
OpenAI(streaming) == IF streaming THEN [kind \in Kinds |-> "error"] ELSE OpenAINotEmpty

AnthropicClient == [Strict EXCEPT !["none"] = "nothing"]
Anthropic == AnthropicClient
AnthropicTextClient == [Strict EXCEPT !["none"] = "blank"]
AnthropicText == AnthropicTextClient

BedrockAnthropic(streaming) ==
    IF streaming THEN [Strict EXCEPT !["none"] = "blank"]
    ELSE [Strict EXCEPT !["cut"] = "error"]
BedrockAi21 == [Strict EXCEPT !["none"] = "nothing"]
BedrockAmazon == Strict
BedrockCohere == [Strict EXCEPT !["none"] = "nothing"]
BedrockMeta == [Strict EXCEPT !["none"] = "blank"]

\* The status of a stream is looked at line by line, and the model returns
\* what the client returns at the end of one: no text.
CloudflareClient(streaming) ==
    IF streaming THEN [Strict EXCEPT !["none"] = "blank", !["bare"] = "blank"]
    ELSE [Strict EXCEPT !["none"] = "blank"]
Cloudflare(streaming) ==
    IF streaming THEN [CloudflareClient(TRUE) EXCEPT !["answer"] = "blank", !["cut"] = "blank"]
    ELSE CloudflareClient(FALSE)

\* An error in the body is left to the model to see.
ErnieClient == [Strict EXCEPT !["none"] = "blank", !["apiError"] = "blank"]
Ernie == [ErnieClient EXCEPT !["apiError"] = "error"]

GoogleAI(streaming) == IF streaming THEN [Strict EXCEPT !["none"] = "blank"] ELSE Strict
Vertex(streaming) == IF streaming THEN [Strict EXCEPT !["none"] = "blank"] ELSE Strict

\* Any status: a body without generations is an error.
CohereClient == [Strict EXCEPT !["none"] = "error"]
Cohere == CohereClient

HuggingFaceClient == [Strict EXCEPT !["none"] = "nothing"]
HuggingFaceNotEmpty == [HuggingFaceClient EXCEPT !["none"] = "error"]
HuggingFace == HuggingFaceNotEmpty

\* Deviation: as if no line were an answer, whatever the status.
LlamafileUnchecked == [Strict EXCEPT !["none"] = "blank", !["bare"] = "blank",
                                     !["status"] = "blank"]

\* The status is looked at line by line: there may be no line.
LlamafileClient == [Strict EXCEPT !["none"] = "blank", !["bare"] = "blank"]
Llamafile == LlamafileClient

LocalClient == [Strict EXCEPT !["none"] = "blank"]
Local == LocalClient

\* A line of a stream that is not of an event is skipped.
MaritacaClient(streaming) ==
    [Strict EXCEPT !["none"] = "blank", !["garbage"] = IF streaming THEN "blank" ELSE "error"]
Maritaca(streaming) == MaritacaClient(streaming)

Mistral(streaming) == IF streaming THEN [Strict EXCEPT !["none"] = "blank"] ELSE Strict

\* The client delivers each line, also none; the model dereferences the message
\* of the last.
OllamaClient == [Strict EXCEPT !["none"] = "nothing", !["bare"] = "nothing"]
Ollama == [kind \in Kinds |-> IF OllamaClient[kind] = "nothing" THEN "panic"
                              ELSE OllamaClient[kind]]

PalmClient == Strict
Palm == PalmClient
Watsonx == Strict

FromBedrock(c, streaming) == CASE c = "bedrockAnthropic" -> BedrockAnthropic(streaming)
                               [] c = "bedrockAi21"      -> BedrockAi21
                               [] c = "bedrockAmazon"    -> BedrockAmazon
                               [] c = "bedrockCohere"    -> BedrockCohere
                               [] c = "bedrockMeta"      -> BedrockMeta

Becomes(c, streaming) ==
    CASE c = "openai"           -> OpenAI(streaming)
      [] c = "anthropic"        -> Anthropic
      [] c = "anthropicText"    -> AnthropicText
      [] c \in Bedrock          -> FromBedrock(c, streaming)
      [] c = "cloudflare"       -> Cloudflare(streaming)
      [] c = "cohere"           -> Cohere
      [] c = "ernie"            -> Ernie
      [] c = "googleai"         -> GoogleAI(streaming)
      [] c = "vertex"           -> Vertex(streaming)
      [] c = "huggingface"      -> HuggingFace
      [] c = "llamafile"        -> Llamafile
      [] c = "local"            -> Local
      [] c = "maritaca"         -> Maritaca(streaming)
      [] c = "mistral"          -> Mistral(streaming)
      [] c = "ollama"           -> Ollama
      [] c = "palm"             -> Palm
      [] c = "watsonx"          -> Watsonx

Replies(c) == Kinds \ (IF c = "local" THEN {"garbage", "apiError", "bare"}
                       ELSE IF c \in {"ernie", "cloudflare", "ollama", "llamafile"} THEN {}
                       ELSE {"apiError"})

----------------------------------------------------------------------------
(* Tools: "function" is one with an object schema, "other" is of another type, *)
(* "noSchema" has parameters that are not a map with properties. What a model  *)
(* can offer: the others are refused; models without tools ignore them.        *)

ToolKinds == {"function", "other", "noSchema"}
OpenAITools == ToolKinds \ {"other"}
GoogleAITools == {"function"}
VertexTools == {"function"}
AnthropicTools == ToolKinds
MistralTools == ToolKinds
ToolsOf(c) == CASE c = "openai"    -> OpenAITools
                [] c = "googleai"  -> GoogleAITools
                [] c = "vertex"    -> VertexTools
                [] c = "anthropic" -> AnthropicTools
                [] c = "mistral"   -> MistralTools
                [] OTHER           -> ToolKinds

----------------------------------------------------------------------------
VARIABLES client, streaming,
          tools,     \* the kinds of tools of the call
          offered,   \* those in the request
          pc,        \* "start", "convert", "send", "returned"
          reply,     \* what the service did
          candidates,\* the number of tool calls of each candidate
          events,    \* what the callbacks handler was told
          choices,   \* what is returned
          outcome    \* "none", "ok", "error" or "panic"

vars == <<client, streaming, tools, offered, pc, reply, candidates, events, choices, outcome>>

Init == /\ client \in Models
        /\ streaming \in (IF client \in Streaming THEN BOOLEAN ELSE {FALSE})
        /\ tools \in SUBSET ToolKinds /\ offered = {}
        /\ pc = "start" /\ reply = "none" /\ candidates = <<>>
        /\ events = <<>> /\ choices = <<>> /\ outcome = "none"

Returns(how, what, told) == /\ pc' = "returned"
                            /\ outcome' = how
                            /\ choices' = what
                            /\ events' = events \o told

Start == /\ pc = "start"
         /\ pc' = "convert"
         /\ events' = <<"start">>
         /\ UNCHANGED <<client, streaming, tools, offered, reply, candidates, choices, outcome>>

Offered == IF client \in WithTools THEN tools ELSE {}

Convert == /\ pc = "convert"
           /\ tools \subseteq ToolsOf(client)
           /\ pc' = "send"
           /\ offered' = Offered
           /\ UNCHANGED <<client, streaming, tools, reply, candidates, events, choices, outcome>>

\* Nobody is told of a conversation that cannot be translated.
Refused == Returns("error", <<>>, <<>>)

Refuse == /\ pc = "convert"
          /\ client \notin Assuming \/ ~(tools \subseteq ToolsOf(client))
          /\ Refused
          /\ UNCHANGED <<client, streaming, tools, offered, reply, candidates>>

\* A conversation the model assumes not to happen.
Panic == /\ pc = "convert"
         /\ client \in Assuming \cup Google \cup {"anthropic", "watsonx"}
         /\ Returns("panic", <<>>, <<>>)
         /\ UNCHANGED <<client, streaming, tools, offered, reply, candidates>>

----------------------------------------------------------------------------
(* The choices of an answer: the text of a choice is its candidate (0 if it *)
(* has none), a tool call is <<candidate, call>>.                           *)

CallsOf(k) == [j \in 1..candidates'[k] |-> <<k, j>>]
CallsUpTo(k) == FlattenSeq([l \in 1..k |-> CallsOf(l)])
Choice(text, calls) == [text |-> text, calls |-> calls]

\* Deviation: the calls of a candidate are given to the choice before it.
OwnCallsShifted == [k \in DOMAIN candidates' |->
                      Choice(k, IF k = Len(candidates') \/ reply' = "cut" THEN <<>>
                                ELSE CallsOf(k + 1))]

\* openai hands out the calls of a candidate only if they are the reason it gives
\* for its end.
OwnCalls == [k \in DOMAIN candidates' |->
               Choice(k, IF reply' = "cut" THEN <<>> ELSE CallsOf(k))]

\* googleai collects the calls in a variable outside the loop over candidates.
CollectedCalls == [k \in DOMAIN candidates' |-> Choice(k, CallsUpTo(k))]

\* mistral gives all calls to the first choice.
FirstHasCalls == [k \in DOMAIN candidates' |->
                    Choice(k, IF k = 1 THEN CallsUpTo(Len(candidates')) ELSE <<>>)]

\* anthropic makes a choice of each block of its one answer.
Blocks == <<Choice(1, <<>>)>> \o [j \in 1..candidates'[1] |-> Choice(0, << <<1, j>> >>)]

TextOnly == [k \in DOMAIN candidates' |-> Choice(k, <<>>)]

\* palm returns the first of the completions.
PalmFirst == <<Choice(1, <<>>)>>

ChoicesOf(c) == CASE c = "openai"    -> OwnCalls
                  [] c \in Google    -> CollectedCalls
                  [] c = "mistral"   -> FirstHasCalls
                  [] c = "anthropic" -> Blocks
                  [] c = "palm"      -> PalmFirst
                  [] OTHER           -> TextOnly

----------------------------------------------------------------------------
(* Reports.                                                                *)

ReportsErrors == Bedrock \cup {"anthropic", "anthropicText", "cohere", "ernie",
    "huggingface", "llamafile", "maritaca", "ollama", "palm"}

ReportsEnd == Bedrock \cup Google \cup {"openai", "cloudflare", "ernie",
    "maritaca", "ollama", "local", "palm"}

\* mistral reports an end before it looks at the error; watsonx reports only
\* what its client takes for an error.
OnError(kind) == IF client \in ReportsErrors THEN <<"error">>
                 ELSE IF client = "watsonx" /\ kind # "none" THEN <<"error">>
                 ELSE IF client = "mistral" /\ ~streaming THEN <<"end", "error">>
                 ELSE IF client = "mistral" /\ kind \in Broken THEN <<"error">>
                 ELSE <<>>

OnSuccess == IF client \in ReportsEnd THEN <<"end">>
             ELSE IF client = "mistral" /\ ~streaming THEN <<"end", "end">>
             ELSE <<>>

Serve(kind) ==
    LET made == Becomes(client, streaming)[kind] IN
    /\ pc = "send"
    /\ kind \in Replies(client)
    /\ reply' = kind
    /\ IF kind \in Answers
       THEN candidates' \in
              UNION {[1..n -> 0..(IF offered # {} THEN MaxCalls ELSE 0)] :
                     n \in 1..(IF client \in Several /\ ~streaming THEN MaxChoices ELSE 1)}
       ELSE candidates' = <<>>
    /\ CASE made = "choices" -> Returns("ok", ChoicesOf(client), OnSuccess)
         [] made = "blank"   -> Returns("ok", <<Choice(0, <<>>)>>, OnSuccess)
         [] made = "nothing" -> Returns("ok", <<>>, OnSuccess)
         [] made = "error"   -> Returns("error", <<>>, OnError(kind))
         [] made = "panic"   -> Returns("panic", <<>>, <<>>)
    /\ UNCHANGED <<client, streaming, tools, offered>>

Next == Start \/ Convert \/ Refuse \/ Panic \/ \E kind \in Kinds : Serve(kind)

Spec == Init /\ [][Next]_vars

\* llms.GenerateFromSinglePrompt, through which Call and the chains ask a model:
\* the text of the first choice, if there is one.
SinglePrompt == IF outcome # "ok" THEN [end |-> outcome, text |-> 0]
                ELSE IF choices = <<>> THEN [end |-> "error", text |-> 0]
                ELSE [end |-> "ok", text |-> choices[1].text]

----------------------------------------------------------------------------
Served == pc = "returned" /\ reply # "none"
Succeeded == pc = "returned" /\ outcome = "ok"
Told(event) == \E k \in DOMAIN events : events[k] = event

TypeOK ==
    /\ client \in Models /\ streaming \in BOOLEAN
    /\ tools \subseteq ToolKinds /\ offered \subseteq tools
    /\ pc \in {"start", "convert", "send", "returned"}
    /\ reply \in Kinds
    /\ candidates \in Seq(0..MaxCalls) /\ Len(candidates) <= MaxChoices
    /\ events \in Seq({"start", "end", "error"})
    /\ \A k \in DOMAIN choices :
          /\ choices[k].text \in 0..MaxChoices
          /\ choices[k].calls \in Seq((1..MaxChoices) \X (1..MaxCalls))
    /\ outcome \in {"none", "ok", "error", "panic"}

(* A service that fails never gives an answer: not a status, not an error in
   the body, not a broken connection. A failure status without a body slips by
   llamafile and a streaming cloudflare, which look at the status with each
   line, and makes ollama panic. *)
FailureIsError ==
    Served /\ reply \in Broken \cup {"apiError"} =>
        \/ outcome = "error"
        \/ reply = "bare" /\ client \in {"llamafile", "cloudflare", "ollama"}

(* A body that cannot be read is not an answer; maritaca skips such lines of a
   stream. *)
GarbageIsError ==
    Succeeded => reply # "garbage" \/ (client = "maritaca" /\ streaming)

(* The caller of a model by one prompt gets the text of the first candidate or
   an error, never the text of another; only where nothing was said, or the text
   of a stream was not kept, is it empty. *)
PromptGetsFirst ==
    pc = "returned" /\ reply \in Answers =>
        \/ SinglePrompt \in {[end |-> "ok", text |-> 1], [end |-> "error", text |-> 0]}
        \/ client = "cloudflare" /\ streaming

(* A call is not reported as failed and as ended; mistral reports every call as
   ended. *)
ReportsAgree == ~(Told("end") /\ Told("error")) \/ client = "mistral"

(* What is reported is what the caller gets. *)
ReportIsOutcome ==
    /\ Told("error") => outcome = "error"
    /\ Told("end") /\ client # "mistral" => outcome = "ok"

(* A failure of the service reaches the handler, for the models that report
   failures at all: openai, googleai, vertex, cloudflare and local do not. *)
FailureReported ==
    Served /\ reply \in Broken /\ outcome = "error"
    => Told("error") \/ client \in {"openai", "cloudflare", "local"} \cup Google

(* The model is asked with all the tools of the call, or not at all: none that
   cannot be expressed is left out in silence, by a model that has tools. *)
ToolsOfferedOrRefused == Served /\ client \in WithTools => offered = tools

(* No tool call of an answer is lost by a model that has tools, but by openai in
   an answer that gives another reason for its end (only the message beside the
   choice has them then); and none is asked for twice, but by google when there are
   several candidates. *)
CallsOnce ==
    Succeeded /\ client \in WithTools =>
        LET all == FlattenSeq([k \in DOMAIN choices |-> choices[k].calls])
        IN /\ ~(client = "openai" /\ reply = "cut") =>
              \A k \in DOMAIN candidates : \A j \in 1..candidates[k] :
                 \E x \in DOMAIN all : all[x] = <<k, j>>
           /\ client \notin Google =>
                 \A x, y \in DOMAIN all : all[x] = all[y] => x = y

(* The calls of a choice are those its own candidate asks for, but for google,
   where the second candidate is given the calls of the first as well, and mistral,
   where the first is given them all. *)
CallsStayWithChoice ==
    client \notin Google \cup {"mistral"} => \A k \in DOMAIN choices : \A x \in DOMAIN choices[k].calls :
        choices[k].text # 0 => choices[k].calls[x][1] = choices[k].text

(* A streamed answer is an answer: the call that streams it succeeds, with every
   model that can stream; for openai see StreamedCallsAnswered. *)
StreamedCallSucceeds ==
    streaming /\ reply = "answer" => outcome = "ok" \/ client = "openai"

(* "require.NoError(t, err)" and choices after a streamed call, as
   llms/openai/multicontent_test.go:101-129 expects them of openai. The answer put
   together from a stream has no role, messageFromMessage refuses it, and the call
   fails after the text was streamed. *)
StreamedCallsAnswered ==
    client = "openai" /\ streaming /\ reply = "answer" => outcome = "ok" /\ choices # <<>>
----------------------------------------------------------------------------
(* The inductive invariant of how a call ends and what is told of it, in parts. *)

CallInv ==
    /\ client \in Models /\ streaming \in BOOLEAN
    /\ pc \in {"start", "convert", "send", "returned"}
    /\ pc # "returned" => outcome = "none" /\ reply = "none"

\* Nothing but the start is told before the service was asked.
ReportInv ==
    /\ events \in Seq({"start", "end", "error"})
    /\ pc = "start" => events = <<>>
    /\ pc \in {"convert", "send"} => events = <<"start">>

\* Nothing is chosen before the service has answered, and it is asked with all tools.
ChoiceInv ==
    /\ tools \subseteq ToolKinds /\ offered \subseteq tools
    /\ reply \in Kinds /\ outcome \in {"none", "ok", "error", "panic"}
    /\ pc = "send" => offered = Offered
    /\ pc # "returned" => choices = <<>> /\ candidates = <<>>
    /\ candidates \in Seq(0..MaxCalls) /\ Len(candidates) <= MaxChoices
    /\ choices \in Seq([text : 0..MaxChoices,
                        calls : Seq((1..MaxChoices) \X (1..MaxCalls))])

IInv == /\ CallInv /\ ReportInv /\ ChoiceInv
        /\ FailureIsError /\ GarbageIsError
        /\ ReportsAgree /\ ReportIsOutcome /\ FailureReported
        /\ PromptGetsFirst /\ ToolsOfferedOrRefused /\ StreamedCallSucceeds
        /\ CallsOnce /\ CallsStayWithChoice

=============================================================================
