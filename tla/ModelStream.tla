---------------------------- MODULE ModelStream ----------------------------
(***************************************************************************)
(* One streamed answer of a model: from the open response of the service   *)
(* to the return of the client's call, for the clients under llms/.        *)
(*                                                                         *)
(* The openai, anthropic and ernie clients read the response in a          *)
(* goroutine of their own (the reader) that hands payloads to the call     *)
(* over an unbuffered channel; the other clients read it in the call.      *)
(* Each has its own answer to a payload that cannot be decoded, to an      *)
(* error the service reports inside the stream, to a body that ends early  *)
(* and to a streaming function that fails.                                 *)
(*                                                                         *)
(* A line of the body is what its payload means to the client; the text it *)
(* carries is its position in the body.                                    *)
(***************************************************************************)
EXTENDS Naturals, Sequences, FiniteSets

CONSTANTS MaxLines    \* the length of a body

Pumped == {"openai", "anthropic", "anthropicText", "ernie", "ernieText"}
Direct == {"ollama", "llamafile", "maritaca", "cloudflare", "bedrock",
           "googleai", "vertex", "mistral"}

Clients == Pumped \cup Direct

----------------------------------------------------------------------------
(* What each client does with a line, and with the end of the body:        *)
(*   skip   ignores it              stop   ends the loop                   *)
(*   take   its text is used        last   its text is used, and the loop  *)
(*   final  the answer is complete         ends when it has been           *)
(*   fail   the call fails          report the call fails, the reader goes *)
(*   exit   log.Fatalf                     on                              *)
(*   open   starts a content block  delta  text for an open content block  *)

OpenAI == [text |-> "take", info |-> "pass", end |-> "stop",
           garbage |-> "fail", eof |-> "stop", fault |-> "fail"]

Anthropic == [info |-> "skip", open |-> "open", text |-> "delta",
              arguments |-> "fail", end |-> "final", error |-> "report",
              garbage |-> "fail", eof |-> "stop", fault |-> "fail"]

AnthropicText == [text |-> "take", garbage |-> "fail",
                  eof |-> "stop", fault |-> "stop"]

\* The reader looks for `"is_end": true`, the call for the decoded field: a
\* last payload written without the blank ends the call only.
Ernie == [text |-> "take", end |-> "last", tightEnd |-> "take",
          garbage |-> "exit", eof |-> "stop", fault |-> "stop"]

ErnieText == [text |-> "take", error |-> "pass", garbage |-> "exit",
              eof |-> "stop", fault |-> "stop"]

Ollama == [text |-> "take", end |-> "final", error |-> "fail",
           garbage |-> "fail", eof |-> "stop", fault |-> "stop"]

Llamafile == [text |-> "take", error |-> "fail", garbage |-> "fail",
              eof |-> "stop", fault |-> "fail"]

Maritaca == [text |-> "take", end |-> "final", garbage |-> "skip",
             eof |-> "stop", fault |-> "fail"]

Cloudflare == [text |-> "take", end |-> "stop", garbage |-> "fail",
               eof |-> "stop", fault |-> "stop"]

Bedrock == [text |-> "take", info |-> "skip", garbage |-> "fail",
            eof |-> "stop", fault |-> "fail"]

\* pair: a response of two parts; none: one without content.
GoogleAI == [text |-> "take", pair |-> "take", none |-> "stop",
             garbage |-> "fail", eof |-> "stop", fault |-> "fail"]

Vertex == [text |-> "take", pair |-> "take", none |-> "stop",
           garbage |-> "fail", eof |-> "stop", fault |-> "fail"]

Mistral == [text |-> "take", error |-> "fail", eof |-> "stop"]

Handling(c) == CASE c = "openai"        -> OpenAI
                 [] c = "anthropic"     -> Anthropic
                 [] c = "anthropicText" -> AnthropicText
                 [] c = "ernie"         -> Ernie
                 [] c = "ernieText"     -> ErnieText
                 [] c = "ollama"        -> Ollama
                 [] c = "llamafile"     -> Llamafile
                 [] c = "maritaca"      -> Maritaca
                 [] c = "cloudflare"    -> Cloudflare
                 [] c = "bedrock"       -> Bedrock
                 [] c = "googleai"      -> GoogleAI
                 [] c = "vertex"        -> Vertex
                 [] c = "mistral"       -> Mistral

Ends == {"eof", "fault"}
Kinds == UNION {DOMAIN Handling(c) : c \in Clients}
----------------------------------------------------------------------------
VARIABLES client,   \* which client reads
          body,     \* the lines read so far, and how the body ended
          reader,   \* the reader: "scan", "send", "closed"; "none" if the call reads
          offer,    \* what the reader is sending
          main,     \* the call: "read" or "returned"
          text,     \* the text put together so far
          passed,   \* the text given to the streaming function
          complete, \* the client has seen what it takes for the whole answer
          opened,   \* anthropic: a content block is open
          failed,   \* the streaming function has failed
          late,     \* the streaming function was called after the return
          outcome   \* how the call ended, and with what

vars == <<client, body, reader, offer, main, text, passed, complete, opened,
          failed, late, outcome>>

Nothing == [act |-> "nothing", at |-> <<>>]
Pending == [end |-> "none", text |-> <<>>]

Init == /\ client \in Clients
        /\ body = <<>>
        /\ reader = IF client \in Pumped THEN "scan" ELSE "none"
        /\ offer = Nothing
        /\ main = "read"
        /\ text = <<>> /\ passed = <<>>
        /\ complete = FALSE /\ opened = FALSE /\ failed = FALSE /\ late = FALSE
        /\ outcome = Pending

\* Deviation: positions count from zero.
TextFromZero(kind) == IF kind = "text" THEN <<Len(body)>> ELSE <<>>

\* The text of the line read now. googleai and vertex take two parts at once.
Text(kind) == IF kind = "pair" THEN <<Len(body) + 1, Len(body) + 1>>
              ELSE IF kind \in {"text", "tightEnd"} THEN <<Len(body) + 1>>
              ELSE IF kind = "end" /\ client \in {"ernie", "ollama"}
                   THEN <<Len(body) + 1>> ELSE <<>>

LastLine == IF body = <<>> THEN "none" ELSE body[Len(body)]

\* The service and the network choose the next line, or end the body.
Arrives(kind) == /\ LastLine \notin Ends
                 /\ kind \in DOMAIN Handling(client)
                 /\ kind \notin Ends => Len(body) < MaxLines
                 /\ body' = Append(body, kind)

Act(kind) == Handling(client)[kind]

Return(end, answer) == /\ main' = "returned"
                       /\ outcome' = [end |-> end, text |-> answer]

\* What the call returns when its loop has ended.
Finish ==
    CASE client = "anthropic"  -> IF complete THEN Return("ok", text)
                                  ELSE Return("error", <<>>)
      [] client \in {"anthropicText", "ernieText"} ->
            IF \A i \in 1..Len(body) : body[i] \in Ends THEN Return("panic", <<>>)
            ELSE IF client = "ernieText" /\ body[Len(body) - 1] = "error"
                 THEN Return("error", <<>>) ELSE Return("ok", text)
      [] client = "ernie"      -> IF text = <<>> THEN Return("error", <<>>)
                                  ELSE Return("ok", text)
      [] client = "ollama"     -> IF complete THEN Return("ok", text)
                                  ELSE Return("panic", <<>>)
      [] client = "maritaca"   -> Return("ok", IF complete THEN text ELSE <<>>)
      [] client = "cloudflare" -> Return("ok", <<>>)
      [] OTHER                 -> Return("ok", text)

----------------------------------------------------------------------------
(* The reader.                                                             *)

Offers(act, at, next) == /\ offer' = [act |-> act, at |-> at]
                         /\ reader' = next

\* The streaming function is called with the text `at` and answers `ok`.
Stream(at, ok) == /\ passed' = passed \o at
                  /\ failed' = (failed \/ ~ok)
                  /\ late' = (late \/ main = "returned")

Quiet == UNCHANGED <<passed, failed, late>>

ReadPayload(kind) ==
    /\ Act(kind) \in {"take", "pass", "last"}
    /\ Offers(Act(kind), Text(kind), "send")
    /\ Quiet /\ UNCHANGED <<main, outcome, text, complete, opened>>

\* Deviation: the channel is not closed.
ReadEndWithoutClose(kind) ==
    /\ Act(kind) = "stop"
    /\ reader' = "none"
    /\ Quiet /\ UNCHANGED <<offer, main, outcome, text, complete, opened>>

ReadEnd(kind) ==
    /\ Act(kind) = "stop"
    /\ reader' = "closed"
    /\ Quiet /\ UNCHANGED <<offer, main, outcome, text, complete, opened>>

ReadBad(kind) ==
    /\ Act(kind) \in {"fail", "report"}
    /\ Offers(Act(kind), <<>>, "send")
    /\ Quiet /\ UNCHANGED <<main, outcome, text, complete, opened>>

ReadFatal(kind) ==
    /\ Act(kind) = "exit"
    /\ Return("exit", <<>>)
    /\ reader' = "closed"
    /\ Quiet /\ UNCHANGED <<offer, text, complete, opened>>

ReadSkipped(kind) ==
    /\ Act(kind) = "skip"
    /\ Quiet /\ UNCHANGED <<reader, offer, main, outcome, text, complete, opened>>

\* anthropic puts the answer together and streams it in the reader.
ReadBlock(kind) ==
    /\ Act(kind) = "open"
    /\ opened' = TRUE
    /\ Quiet /\ UNCHANGED <<reader, offer, main, outcome, text, complete>>

ReadDelta(kind) ==
    /\ Act(kind) = "delta"
    /\ \/ /\ ~opened
          /\ Offers("fail", <<>>, "send")
          /\ Quiet /\ UNCHANGED text
       \/ /\ opened
          /\ text' = text \o Text(kind)
          /\ \E ok \in BOOLEAN :
                /\ Stream(Text(kind), ok)
                /\ IF ok THEN UNCHANGED <<reader, offer>>
                   ELSE Offers("fail", <<>>, "send")
    /\ UNCHANGED <<main, outcome, complete, opened>>

ReadAnswer(kind) ==
    /\ Act(kind) = "final"
    /\ Offers("final", <<>>, "send")
    /\ Quiet /\ UNCHANGED <<main, outcome, text, complete, opened>>

Read == /\ reader = "scan"
        /\ outcome.end \notin {"panic", "exit"}
        /\ \E kind \in Kinds :
              /\ Arrives(kind)
              /\ \/ ReadPayload(kind) \/ ReadEnd(kind) \/ ReadBad(kind)
                 \/ ReadFatal(kind) \/ ReadSkipped(kind)
                 \/ ReadBlock(kind) \/ ReadDelta(kind) \/ ReadAnswer(kind)
        /\ UNCHANGED client

----------------------------------------------------------------------------
(* The call, when a goroutine reads.                                       *)

\* Deviation: the reader goes on after an error.
ResumedAlways == "scan"

\* The reader after its send: an error it offers is its last, except after a
\* report; ernie stops at the end it recognises.
Resumed == IF offer.act \in {"fail", "last"} THEN "closed" ELSE "scan"

Receiving == reader = "send" /\ main = "read"

ReceiveText ==
    /\ Receiving
    /\ offer.act \in {"take", "last"}
    /\ text' = text \o offer.at
    /\ \E ok \in BOOLEAN :
          /\ Stream(offer.at, ok)
          /\ IF ~ok THEN Return("error", <<>>)
             ELSE IF client = "ernie" /\ LastLine \in {"end", "tightEnd"}
                  THEN Return("ok", text')
                  ELSE UNCHANGED <<main, outcome>>
    /\ reader' = Resumed /\ offer' = Nothing
    /\ UNCHANGED <<client, body, complete, opened>>

\* A payload without text: usage, for openai; an error code, for ernie, whose
\* empty text is streamed.
ReceivePass ==
    /\ Receiving
    /\ offer.act = "pass"
    /\ IF client = "openai" THEN Quiet /\ UNCHANGED <<main, outcome>>
       ELSE \E ok \in BOOLEAN :
               /\ Stream(<<>>, ok)
               /\ IF ok THEN UNCHANGED <<main, outcome>> ELSE Return("error", <<>>)
    /\ reader' = Resumed /\ offer' = Nothing
    /\ UNCHANGED <<client, body, text, complete, opened>>

ReceiveError ==
    /\ Receiving
    /\ offer.act \in {"fail", "report"}
    /\ Return("error", <<>>)
    /\ reader' = Resumed /\ offer' = Nothing
    /\ Quiet /\ UNCHANGED <<client, body, text, complete, opened>>

ReceiveAnswer ==
    /\ Receiving
    /\ offer.act = "final"
    /\ complete' = TRUE
    /\ reader' = Resumed /\ offer' = Nothing
    /\ Quiet /\ UNCHANGED <<client, body, main, outcome, text, opened>>

ChannelClosed ==
    /\ main = "read" /\ reader = "closed"
    /\ Finish
    /\ Quiet /\ UNCHANGED <<client, body, reader, offer, text, complete, opened>>

----------------------------------------------------------------------------
(* The call, when it reads the body itself.                                *)

\* One line or response at a time. Its parts are streamed one by one until
\* the function fails at the n-th (at none if n is 0); all of them are in the
\* answer.
StreamParts(at, n) == Stream(IF n = 0 THEN at ELSE SubSeq(at, 1, n), n = 0)

Kept(at) == at

FunctionFails == IF client \in {"googleai", "vertex"}
                 THEN Return("ok", text') ELSE Return("error", <<>>)

TakeText(kind) ==
    /\ Act(kind) \in {"take", "final"}
    /\ text' = text \o Kept(Text(kind))
    /\ complete' = (complete \/ Act(kind) = "final")
    /\ \E n \in 0..Len(Text(kind)) :
          /\ StreamParts(Text(kind), n)
          /\ IF n = 0 THEN UNCHANGED <<main, outcome>> ELSE FunctionFails

TakeEnd(kind) == /\ Act(kind) = "stop"
                 /\ Finish
                 /\ Quiet /\ UNCHANGED <<text, complete>>

TakeBad(kind) == /\ Act(kind) = "fail"
                 /\ Return("error", <<>>)
                 /\ Quiet /\ UNCHANGED <<text, complete>>

TakeSkipped(kind) == /\ Act(kind) = "skip"
                     /\ Quiet /\ UNCHANGED <<main, outcome, text, complete>>

Take == /\ client \in Direct /\ main = "read"
        /\ \E kind \in Kinds :
              /\ Arrives(kind)
              /\ \/ TakeText(kind) \/ TakeEnd(kind)
                 \/ TakeBad(kind) \/ TakeSkipped(kind)
        /\ UNCHANGED <<client, reader, offer, opened>>

----------------------------------------------------------------------------
Receive == ReceiveText \/ ReceivePass \/ ReceiveError \/ ReceiveAnswer
Next == Read \/ Receive \/ ChannelClosed \/ Take

Spec == /\ Init /\ [][Next]_vars
        /\ WF_vars(Read) /\ WF_vars(Receive) /\ WF_vars(ChannelClosed)
        /\ WF_vars(Take)

----------------------------------------------------------------------------
Positions == 1..(MaxLines + 1)

TypeOK ==
    /\ client \in Clients
    /\ body \in Seq(Kinds) /\ Len(body) <= MaxLines + 1
    /\ reader \in {"none", "scan", "send", "closed"}
    /\ offer.act \in {"nothing", "take", "pass", "last", "fail", "report", "final"}
    /\ main \in {"read", "returned"}
    /\ {text, passed, offer.at, outcome.text} \subseteq Seq(Positions)
    /\ {complete, opened, failed, late} \subseteq BOOLEAN
    /\ outcome.end \in {"none", "ok", "error", "panic", "exit"}

Seen(kind) == \E i \in 1..Len(body) : body[i] = kind

(* A successful call returns exactly what it gave to the streaming function,
   in that order, whatever came between. It does not hold of cloudflare, which
   returns no text after a stream, nor of maritaca when the closing event never
   came: the text is streamed and an empty answer returned. *)
StreamedIsReturned ==
    outcome.end = "ok" /\ ~failed /\ client # "cloudflare"
        /\ (client = "maritaca" => complete)
    => outcome.text = passed

(* A connection that breaks before the answer is complete makes the call fail,
   except for the clients that only log the error of their scanner or do not
   ask for it. *)
FaultReported ==
    outcome.end = "ok" /\ Seen("fault")
    => complete \/ client \in {"anthropicText", "ernie", "ernieText", "cloudflare"}

(* anthropic and ollama succeed only after the end of the message was seen; a
   body cut off in the middle is never returned as an answer. *)
AnswerIsComplete ==
    outcome.end = "ok" /\ client \in {"anthropic", "ollama"} => Seen("end")

(* When the call has returned the streaming function is called no more. The
   reader of anthropic, which calls it, goes on after it has reported an error
   of the service: that is the only way. *)
QuietAfterReturn == late => client = "anthropic" /\ Seen("error")

(* An error of the streaming function is never mistaken for success, but for
   googleai and vertex, which take it for the end of the stream. *)
FunctionErrorReturned ==
    failed /\ outcome.end = "ok" => client \in {"googleai", "vertex"}

(* Who may leave the reader blocked in a send nobody receives. *)
Abandoned == failed \/ Seen("error") \/ Seen("tightEnd")

(* A reader is left behind, blocked for ever, only after the streaming function
   failed, the service reported an error in the stream, or ernie's last payload
   was not recognised by the reader. *)
StrandedOnlyIfAbandoned ==
    main = "returned" /\ reader = "send" /\ outcome.end # "exit" => Abandoned

(* Unless it is abandoned the goroutine that reads the body ends. *)
ReaderEnds == <>(reader \in {"none", "closed"} \/ Abandoned)

(* The call returns (or the process ends), for every client. *)
CallReturns == <>(main = "returned")

----------------------------------------------------------------------------
(* The inductive invariant, in parts. *)

\* A body ends once, and its lines are such as this client tells apart.
BodyInv ==
    /\ \A i \in 1..Len(body) : body[i] \in DOMAIN Handling(client)
    /\ \A i \in 1..(Len(body) - 1) : body[i] \notin Ends
    /\ LastLine \notin Ends => Len(body) <= MaxLines

\* What is offered was made of the last line, except that a delta without a
\* block, or one whose function failed, is offered as a failure.
ReaderInv ==
    /\ reader = "none" <=> client \in Direct
    /\ reader # "send" => offer = Nothing
    /\ reader = "send" =>
          /\ body # <<>>
          /\ offer.act # "nothing"
          /\ offer.act # "fail" => offer.act = Act(LastLine)

\* A call that goes on has not been told of a failure: either the reader still
\* has to send it or it has closed at a regular end.
CallInv ==
    /\ main = "read" => outcome = Pending
    /\ main = "read" /\ reader = "closed" => body # <<>> /\ Act(LastLine) = "stop"
    /\ main = "read" /\ failed =>
          client = "anthropic" /\ reader = "send" /\ offer.act = "fail"

\* A reader that outlives the call was abandoned; those of openai and anthropic
\* have ended before the call succeeds.
ReturnInv ==
    /\ main = "returned" => reader \in {"none", "closed"} \/ Abandoned
    /\ main = "returned" /\ client = "anthropic" => reader = "closed" \/ Seen("error")
    /\ outcome.end = "ok" /\ client \in {"openai", "anthropic"} => reader = "closed"

TextInv ==
    /\ ~failed => text = passed
    /\ complete /\ client \in {"anthropic", "ollama"} => Seen("end")
    /\ outcome.end = "ok" /\ client \in {"anthropic", "ollama"} => complete

IInv == /\ TypeOK /\ BodyInv /\ ReaderInv /\ CallInv /\ ReturnInv /\ TextInv
        /\ StreamedIsReturned /\ FaultReported /\ AnswerIsComplete
        /\ QuietAfterReturn /\ FunctionErrorReturned

============================================================================
