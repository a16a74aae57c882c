-------------------------- MODULE Streaming_proofs --------------------------
(***************************************************************************)
(* Proofs about one streamed answer (ModelStream), for bodies of any       *)
(* length and every client, and about the handler that passes on the final *)
(* answer of an agent (FinalStream), however many chunks it comes in.      *)
(***************************************************************************)
EXTENDS ModelStream, FiniteSetTheorems, SequenceTheorems, WellFoundedInduction, TLAPS

CONSTANTS MaxChunks,                       \* of FinalStream
          Roles, PartLists, MaxMessages    \* of MessageConversion

VARIABLES Keywords, DefaultKeywords, LastTokens, PrintOutput, egress, heard, spoken, listener,
          conversation, chunk, system, messages

Passing == INSTANCE FinalStream
Asking == INSTANCE MessageConversion

-----------------------------------------------------------------------------
(* ModelStream: what a client does with a line.                            *)

(* What the clients do with a line, as far as the proofs need it: who uses *)
(* which kind of handling, and for which lines.                            *)
LEMMA Table ==
    ASSUME NEW c \in Clients, NEW kind \in DOMAIN Handling(c)
    PROVE  LET act == Handling(c)[kind]
           IN /\ kind \in Kinds
              /\ act \in {"skip", "take", "final", "fail", "exit", "open", "stop", "last",
                          "report", "pass", "delta"}
              /\ kind \in Ends => act \in {"stop", "fail"}
              /\ kind = "fault" /\ act = "stop" =>
                    c \in {"anthropicText", "ernie", "ernieText", "cloudflare", "ollama"}
              /\ act = "report" => c = "anthropic" /\ kind = "error"
              /\ act = "final" => kind = "end"
              /\ act \in {"open", "delta"} => c = "anthropic"
              /\ act = "last" => c = "ernie" /\ kind = "end"
              /\ act = "exit" => c \in {"ernie", "ernieText"}
              /\ c = "anthropic" => act \notin {"take", "pass"}
              /\ c = "ernie" /\ kind = "end" => act = "last"
              /\ c \in Direct => act \in {"skip", "take", "final", "fail", "stop"}
              /\ c = "ollama" /\ act = "final" => kind = "end"
<1>1. kind \in Kinds
  BY DEF Kinds
<1>2. CASE c = "openai"        BY <1>1, <1>2 DEF Handling, OpenAI, Ends, Direct
<1>3. CASE c = "anthropic"     BY <1>1, <1>3 DEF Handling, Anthropic, Ends, Direct
<1>4. CASE c = "anthropicText" BY <1>1, <1>4 DEF Handling, AnthropicText, Ends, Direct
<1>5. CASE c = "ernie"         BY <1>1, <1>5 DEF Handling, Ernie, Ends, Direct
<1>6. CASE c = "ernieText"     BY <1>1, <1>6 DEF Handling, ErnieText, Ends, Direct
<1>7. CASE c = "ollama"        BY <1>1, <1>7 DEF Handling, Ollama, Ends, Direct
<1>8. CASE c = "llamafile"     BY <1>1, <1>8 DEF Handling, Llamafile, Ends, Direct
<1>9. CASE c = "maritaca"      BY <1>1, <1>9 DEF Handling, Maritaca, Ends, Direct
<1>10. CASE c = "cloudflare"   BY <1>1, <1>10 DEF Handling, Cloudflare, Ends, Direct
<1>11. CASE c = "bedrock"      BY <1>1, <1>11 DEF Handling, Bedrock, Ends, Direct
<1>12. CASE c = "googleai"     BY <1>1, <1>12 DEF Handling, GoogleAI, Ends, Direct
<1>13. CASE c = "vertex"       BY <1>1, <1>13 DEF Handling, Vertex, Ends, Direct
<1>14. CASE c = "mistral"      BY <1>1, <1>14 DEF Handling, Mistral, Ends, Direct
<1> QED
  BY <1>2, <1>3, <1>4, <1>5, <1>6, <1>7, <1>8, <1>9, <1>10, <1>11, <1>12, <1>13, <1>14
     DEF Clients, Pumped, Direct

(* The clients with a goroutine of their own are not those without. *)
LEMMA Sides ==
    \A c \in Clients : c \in Pumped <=> c \notin Direct
BY DEF Clients, Pumped, Direct

-----------------------------------------------------------------------------
(* The body.                                                               *)

(* A line that arrives is one the client tells apart; it is the first end  *)
(* of the body if it is one, and its text is a position in the body.       *)
LEMMA Arrival ==
    ASSUME MaxLines \in Nat, IInv, NEW kind, Arrives(kind), UNCHANGED client
    PROVE  /\ kind \in DOMAIN Handling(client)
           /\ BodyInv'
           /\ body' \in Seq(Kinds) /\ Len(body') <= MaxLines + 1
           /\ body' # <<>> /\ LastLine' = kind /\ Act(LastLine)' = Act(kind)
           /\ \A k : Seen(k)' <=> Seen(k) \/ k = kind
           /\ ~Seen("fault")
           /\ Text(kind) \in Seq(Positions)
<1> USE DEF IInv, TypeOK, Arrives
<1>1. kind \in DOMAIN Handling(client) /\ kind \in Kinds
  BY Table
<1>2. /\ body' \in Seq(Kinds) /\ Len(body') = Len(body) + 1 /\ body' # <<>>
      /\ body'[Len(body')] = kind
      /\ \A i \in 1..Len(body) : body'[i] = body[i]
  BY <1>1, AppendProperties
<1>3. LastLine' = kind
  BY <1>2 DEF LastLine
<1>4. Len(body) \in Nat /\ Len(body) <= MaxLines
  BY LenProperties DEF BodyInv
<1>5. \A i \in 1..Len(body) : body[i] \notin Ends
  <2> SUFFICES ASSUME NEW i \in 1..Len(body) PROVE body[i] \notin Ends
    OBVIOUS
  <2>1. CASE i = Len(body)
    BY <2>1 DEF LastLine
  <2>2. CASE i # Len(body)
    BY <1>4, <2>2 DEF BodyInv
  <2> QED BY <2>1, <2>2
<1>6. BodyInv'
  <2>1. \A i \in 1..Len(body') : body'[i] \in DOMAIN Handling(client)
    BY <1>1, <1>2, <1>4 DEF BodyInv
  <2>2. \A i \in 1..(Len(body') - 1) : body'[i] \notin Ends
    BY <1>2, <1>4, <1>5
  <2>3. LastLine' \notin Ends => Len(body') <= MaxLines
    BY <1>2, <1>3, <1>4
  <2> QED BY <2>1, <2>2, <2>3 DEF BodyInv
<1>7. \A k : Seen(k)' <=> Seen(k) \/ k = kind
  BY <1>2, <1>4 DEF Seen
<1>8. ~Seen("fault")
  BY <1>5 DEF Seen, Ends
<1>9. Text(kind) \in Seq(Positions)
  <2>1. CASE kind \in Ends
    BY <2>1 DEF Text, Ends
  <2>2. CASE kind \notin Ends
    <3>1. Len(body) + 1 \in Positions
      BY <1>4 DEF Positions
    <3> DEFINE at == Len(body) + 1
    <3>2. <<at>> \in Seq(Positions) /\ <<at, at>> \in Seq(Positions) /\ <<>> \in Seq(Positions)
      BY <3>1
    <3> QED BY <3>2 DEF Text
  <2> QED BY <2>1, <2>2
<1> QED BY <1>1, <1>2, <1>3, <1>4, <1>6, <1>7, <1>8, <1>9 DEF Act

(* While no line arrives nothing that is said of the body changes.         *)
LEMMA Still ==
    ASSUME UNCHANGED <<client, body>>, IInv
    PROVE  /\ BodyInv' /\ LastLine' = LastLine /\ Act(LastLine)' = Act(LastLine)
           /\ \A k : Seen(k)' <=> Seen(k)
           /\ body' \in Seq(Kinds) /\ Len(body') <= MaxLines + 1
BY DEF IInv, TypeOK, BodyInv, LastLine, Act, Seen


-----------------------------------------------------------------------------
(* The reader.                                                             *)

(* What is known when the reader has read a line.                          *)
LEMMA ReadState ==
    ASSUME IInv, reader = "scan"
    PROVE  /\ client \in Clients \ Direct
           /\ offer = Nothing
           /\ main = "read" => ~failed /\ outcome = Pending
           /\ outcome.end = "ok" => client \in {"anthropicText", "ernie", "ernieText"}
BY DEF IInv, TypeOK, ReaderInv, CallInv, ReturnInv, Clients, Pumped, Direct

(* The reader takes a line with text, or with the part of a call.          *)
LEMMA ReadPayloadStep ==
    ASSUME MaxLines \in Nat, IInv, reader = "scan", NEW kind, Arrives(kind),
           ReadPayload(kind), UNCHANGED client
    PROVE  IInv'
<1> USE Arrival, ReadState, Table DEF IInv, ReadPayload, Quiet, Offers
<1>1. TypeOK'
  BY DEF TypeOK
<1>2. ReaderInv' /\ CallInv' /\ ReturnInv' /\ TextInv'
  BY DEF ReaderInv, CallInv, ReturnInv, TextInv, TypeOK, Abandoned, Ends, Act
<1>3. /\ StreamedIsReturned' /\ FaultReported' /\ AnswerIsComplete'
      /\ QuietAfterReturn' /\ FunctionErrorReturned'
  BY DEF StreamedIsReturned, FaultReported, AnswerIsComplete, QuietAfterReturn,
         FunctionErrorReturned, Ends, Act
<1> QED BY <1>1, <1>2, <1>3

(* It takes the line that ends the answer.                                 *)
LEMMA ReadEndStep ==
    ASSUME MaxLines \in Nat, IInv, reader = "scan", NEW kind, Arrives(kind),
           ReadEnd(kind), UNCHANGED client
    PROVE  IInv'
<1> USE Arrival, ReadState, Table DEF IInv, ReadEnd, Quiet
<1>1. TypeOK'
  BY DEF TypeOK
<1>2. ReaderInv' /\ CallInv' /\ ReturnInv' /\ TextInv'
  BY DEF ReaderInv, CallInv, ReturnInv, TextInv, TypeOK, Abandoned, Ends, Act
<1>3. /\ StreamedIsReturned' /\ FaultReported' /\ AnswerIsComplete'
      /\ QuietAfterReturn' /\ FunctionErrorReturned'
  BY DEF StreamedIsReturned, FaultReported, AnswerIsComplete, QuietAfterReturn,
         FunctionErrorReturned, Ends, Act
<1> QED BY <1>1, <1>2, <1>3

(* It takes a line it cannot parse.                                        *)
LEMMA ReadBadStep ==
    ASSUME MaxLines \in Nat, IInv, reader = "scan", NEW kind, Arrives(kind),
           ReadBad(kind), UNCHANGED client
    PROVE  IInv'
<1> USE Arrival, ReadState, Table DEF IInv, ReadBad, Quiet, Offers
<1>1. TypeOK'
  BY DEF TypeOK
<1>2. ReaderInv' /\ CallInv' /\ ReturnInv' /\ TextInv'
  BY DEF ReaderInv, CallInv, ReturnInv, TextInv, TypeOK, Abandoned, Ends, Act
<1>3. /\ StreamedIsReturned' /\ FaultReported' /\ AnswerIsComplete'
      /\ QuietAfterReturn' /\ FunctionErrorReturned'
  BY DEF StreamedIsReturned, FaultReported, AnswerIsComplete, QuietAfterReturn,
         FunctionErrorReturned, Ends, Act
<1> QED BY <1>1, <1>2, <1>3

(* It takes an event that is an error.                                     *)
LEMMA ReadFatalStep ==
    ASSUME MaxLines \in Nat, IInv, reader = "scan", NEW kind, Arrives(kind),
           ReadFatal(kind), UNCHANGED client
    PROVE  IInv'
<1> USE Arrival, ReadState, Table DEF IInv, ReadFatal, Quiet, Return
<1>1. TypeOK'
  BY DEF TypeOK
<1>2. ReaderInv' /\ CallInv' /\ ReturnInv' /\ TextInv'
  BY DEF ReaderInv, CallInv, ReturnInv, TextInv, TypeOK, Abandoned, Ends, Act
<1>3. /\ StreamedIsReturned' /\ FaultReported' /\ AnswerIsComplete'
      /\ QuietAfterReturn' /\ FunctionErrorReturned'
  BY DEF StreamedIsReturned, FaultReported, AnswerIsComplete, QuietAfterReturn,
         FunctionErrorReturned, Ends, Act
<1> QED BY <1>1, <1>2, <1>3

(* It skips a line that carries nothing.                                   *)
LEMMA ReadSkippedStep ==
    ASSUME MaxLines \in Nat, IInv, reader = "scan", NEW kind, Arrives(kind),
           ReadSkipped(kind), UNCHANGED client
    PROVE  IInv'
<1> USE Arrival, ReadState, Table DEF IInv, ReadSkipped, Quiet
<1>1. TypeOK'
  BY DEF TypeOK
<1>2. ReaderInv' /\ CallInv' /\ ReturnInv' /\ TextInv'
  BY DEF ReaderInv, CallInv, ReturnInv, TextInv, TypeOK, Abandoned, Ends, Act
<1>3. /\ StreamedIsReturned' /\ FaultReported' /\ AnswerIsComplete'
      /\ QuietAfterReturn' /\ FunctionErrorReturned'
  BY DEF StreamedIsReturned, FaultReported, AnswerIsComplete, QuietAfterReturn,
         FunctionErrorReturned, Ends, Act
<1> QED BY <1>1, <1>2, <1>3

(* It takes the start of a block of content.                               *)
LEMMA ReadBlockStep ==
    ASSUME MaxLines \in Nat, IInv, reader = "scan", NEW kind, Arrives(kind),
           ReadBlock(kind), UNCHANGED client
    PROVE  IInv'
<1> USE Arrival, ReadState, Table DEF IInv, ReadBlock, Quiet
<1>1. TypeOK'
  BY DEF TypeOK
<1>2. ReaderInv' /\ CallInv' /\ ReturnInv' /\ TextInv'
  BY DEF ReaderInv, CallInv, ReturnInv, TextInv, TypeOK, Abandoned, Ends, Act
<1>3. /\ StreamedIsReturned' /\ FaultReported' /\ AnswerIsComplete'
      /\ QuietAfterReturn' /\ FunctionErrorReturned'
  BY DEF StreamedIsReturned, FaultReported, AnswerIsComplete, QuietAfterReturn,
         FunctionErrorReturned, Ends, Act
<1> QED BY <1>1, <1>2, <1>3

(* It takes a part of a block.                                             *)
LEMMA ReadDeltaStep ==
    ASSUME MaxLines \in Nat, IInv, reader = "scan", NEW kind, Arrives(kind),
           ReadDelta(kind), UNCHANGED client
    PROVE  IInv'
<1> USE DEF IInv
<1>1. /\ client = "anthropic" /\ kind \notin Ends
      /\ outcome.end # "ok"
      /\ UNCHANGED <<main, outcome, complete, opened>>
  BY Arrival, ReadState, Table DEF ReadDelta, Act
<1>2. \/ /\ offer' = [act |-> "fail", at |-> <<>>] /\ reader' = "send"
         /\ UNCHANGED <<text, passed, failed, late>>
      \/ /\ text' = text \o Text(kind) /\ passed' = passed \o Text(kind)
         /\ late' = (late \/ main = "returned")
         /\ \/ UNCHANGED <<reader, offer, failed>>
            \/ offer' = [act |-> "fail", at |-> <<>>] /\ reader' = "send" /\ failed' = TRUE
  BY DEF ReadDelta, Offers, Stream, Quiet, TypeOK
<1>3. TypeOK'
  <2>1. text \in Seq(Positions) /\ passed \in Seq(Positions) /\ Text(kind) \in Seq(Positions)
    BY Arrival DEF TypeOK
  <2>2. text \o Text(kind) \in Seq(Positions) /\ passed \o Text(kind) \in Seq(Positions)
    BY <2>1, ConcatProperties
  <2>3. text' \in Seq(Positions) /\ passed' \in Seq(Positions)
    BY <1>2, <2>1, <2>2
  <2>4. /\ offer'.act \in {"nothing", "take", "pass", "last", "fail", "report", "final"}
        /\ offer'.at \in Seq(Positions)
        /\ reader' \in {"none", "scan", "send", "closed"}
    <3>1. CASE offer' = offer /\ reader' = reader
      BY <3>1 DEF TypeOK
    <3>2. CASE offer' = [act |-> "fail", at |-> <<>>] /\ reader' = "send"
      BY <3>2
    <3> QED BY <1>2, <3>1, <3>2
  <2>5. failed' \in BOOLEAN /\ late' \in BOOLEAN
    BY <1>2 DEF TypeOK
  <2> QED BY <1>1, <2>3, <2>4, <2>5, Arrival DEF TypeOK
<1>4. ReaderInv' /\ CallInv' /\ ReturnInv'
  BY <1>1, <1>2, Arrival, ReadState DEF ReaderInv, CallInv, ReturnInv, TypeOK, Abandoned, Act
<1>5. TextInv'
  BY <1>1, <1>2, Arrival DEF TextInv, TypeOK
<1>6. QuietAfterReturn'
  BY <1>1, <1>2, Arrival DEF QuietAfterReturn, ReturnInv
<1>7. StreamedIsReturned' /\ FaultReported' /\ AnswerIsComplete' /\ FunctionErrorReturned'
  BY <1>1 DEF StreamedIsReturned, FaultReported, AnswerIsComplete, FunctionErrorReturned
<1> QED BY <1>3, <1>4, <1>5, <1>6, <1>7, Arrival

(* It takes the end of the body, or its breaking off.                      *)
LEMMA ReadAnswerStep ==
    ASSUME MaxLines \in Nat, IInv, reader = "scan", NEW kind, Arrives(kind),
           ReadAnswer(kind), UNCHANGED client
    PROVE  IInv'
<1> USE Arrival, ReadState, Table DEF IInv, ReadAnswer, Quiet, Offers
<1>1. TypeOK'
  BY DEF TypeOK
<1>2. ReaderInv' /\ CallInv' /\ ReturnInv' /\ TextInv'
  BY DEF ReaderInv, CallInv, ReturnInv, TextInv, TypeOK, Abandoned, Ends, Act
<1>3. /\ StreamedIsReturned' /\ FaultReported' /\ AnswerIsComplete'
      /\ QuietAfterReturn' /\ FunctionErrorReturned'
  BY DEF StreamedIsReturned, FaultReported, AnswerIsComplete, QuietAfterReturn,
         FunctionErrorReturned, Ends, Act
<1> QED BY <1>1, <1>2, <1>3

-----------------------------------------------------------------------------
(* The call.                                                               *)

(* How a call ends whose loop has ended: a success has the whole text, but *)
(* for cloudflare and for maritaca without the closing event, and those    *)
(* who look for the end of the answer have seen it.                        *)
LEMMA FinishAnswers ==
    ASSUME client \in Clients, Finish
    PROVE  /\ main' = "returned"
           /\ outcome'.end \in {"ok", "error", "panic"}
           /\ outcome'.text \in {text, <<>>}
           /\ outcome'.end = "ok" =>
                 /\ \/ outcome'.text = text
                    \/ client = "cloudflare"
                    \/ client = "maritaca" /\ ~complete
                 /\ client \in {"anthropic", "ollama"} => complete
BY DEF Finish, Return, Clients, Pumped, Direct

(* What is known when the call receives from the reader.                   *)
LEMMA ReceiveState ==
    ASSUME IInv, Receiving
    PROVE  /\ client \in Clients \ Direct
           /\ outcome = Pending /\ outcome.end = "none"
           /\ LastLine \in DOMAIN Handling(client) /\ Seen(LastLine)
           /\ offer.act # "nothing"
           /\ offer.act # "fail" => offer.act = Act(LastLine) /\ ~failed
<1>1. body # <<>> /\ body \in Seq(Kinds)
  BY DEF IInv, TypeOK, ReaderInv, Receiving
<1>2. Len(body) \in 1..Len(body)
  BY <1>1, EmptySeq, LenProperties
<1>3. LastLine \in DOMAIN Handling(client) /\ Seen(LastLine)
  BY <1>1, <1>2 DEF IInv, BodyInv, LastLine, Seen
<1> QED
  BY <1>3 DEF IInv, TypeOK, ReaderInv, CallInv, Receiving, Pending

(* A fault ends the body.                                                  *)
LEMMA FaultIsLast ==
    ASSUME IInv, Seen("fault")
    PROVE  LastLine = "fault" /\ "fault" \in DOMAIN Handling(client)
<1>1. PICK i \in 1..Len(body) : body[i] = "fault"
  BY DEF Seen
<1>2. Len(body) \in Nat /\ i = Len(body)
  BY <1>1, LenProperties DEF IInv, TypeOK, BodyInv, Ends
<1> QED BY <1>1, <1>2 DEF IInv, BodyInv, LastLine

(* No text is a text.                                                      *)
LEMMA NoText == <<>> \in Seq(Positions)
OBVIOUS

(* What Return says of the outcome.                                        *)
LEMMA Returned ==
    ASSUME NEW end, NEW answer, Return(end, answer)
    PROVE  main' = "returned" /\ outcome'.end = end /\ outcome'.text = answer
BY DEF Return

(* The call receives a text: it streams it and adds it to the answer.      *)
LEMMA ReceiveTextStep ==
    ASSUME IInv, ReceiveText
    PROVE  IInv'
<1> USE DEF IInv
<1>1. /\ Receiving /\ offer.act \in {"take", "last"} /\ UNCHANGED <<client, body, complete, opened>>
      /\ offer' = Nothing /\ reader' = Resumed
      /\ text' = text \o offer.at /\ passed' = passed \o offer.at
      /\ late' = (late \/ main = "returned")
  BY DEF ReceiveText, Stream
<1>2. /\ client \notin Direct /\ client # "anthropic" /\ ~failed /\ outcome = Pending
      /\ client = "ernie" /\ LastLine = "end" <=> offer.act = "last"
      /\ LastLine \in DOMAIN Handling(client) /\ Seen(LastLine)
  BY <1>1, ReceiveState, Table DEF Act
<1>3. \/ /\ failed' = TRUE /\ main' = "returned"
         /\ outcome'.end = "error" /\ outcome'.text = <<>>
      \/ /\ failed' = FALSE /\ main' = "returned"
         /\ client = "ernie" /\ LastLine \in {"end", "tightEnd"}
         /\ outcome'.end = "ok" /\ outcome'.text = text'
      \/ /\ failed' = FALSE /\ main' = "read" /\ outcome' = Pending
         /\ outcome'.end = "none" /\ outcome'.text = <<>>
         /\ offer.act # "last"
  <2>1. PICK ok \in BOOLEAN :
           /\ failed' = (failed \/ ~ok)
           /\ IF ~ok THEN Return("error", <<>>)
              ELSE IF client = "ernie" /\ LastLine \in {"end", "tightEnd"}
                   THEN Return("ok", text')
                   ELSE UNCHANGED <<main, outcome>>
    BY DEF ReceiveText, Stream
  <2>2. CASE ~ok
    BY <1>2, <2>1, <2>2, Returned
  <2>3. CASE ok /\ client = "ernie" /\ LastLine \in {"end", "tightEnd"}
    BY <1>2, <2>1, <2>3, Returned
  <2>4. CASE ok /\ ~(client = "ernie" /\ LastLine \in {"end", "tightEnd"})
    <3>1. failed' = FALSE /\ UNCHANGED <<main, outcome>>
      BY <1>2, <2>1, <2>4
    <3>2. main = "read" /\ offer.act # "last"
      BY <1>1, <1>2, <2>4 DEF Receiving
    <3> QED BY <1>2, <3>1, <3>2 DEF Pending
  <2> QED BY <2>2, <2>3, <2>4
<1>4. reader' = IF offer.act = "last" THEN "closed" ELSE "scan"
  BY <1>1 DEF Resumed
<1>5. TypeOK'
  <2>1. text \in Seq(Positions) /\ passed \in Seq(Positions) /\ offer.at \in Seq(Positions)
        /\ late \in BOOLEAN
    BY DEF TypeOK
  <2>2. text' \in Seq(Positions) /\ passed' \in Seq(Positions)
    BY <1>1, <2>1, ConcatProperties
  <2>3. outcome'.text \in Seq(Positions)
    BY <1>3, <2>2, NoText
  <2>6. /\ main' \in {"read", "returned"}
        /\ outcome'.end \in {"none", "ok", "error", "panic", "exit"}
        /\ failed' \in BOOLEAN
    BY <1>3
  <2>4. late' \in BOOLEAN
    BY <1>1, <2>1
  <2>5. offer'.act = "nothing" /\ offer'.at \in Seq(Positions)
    BY <1>1 DEF Nothing
  <2> QED BY <1>1, <1>4, <2>2, <2>3, <2>4, <2>5, <2>6, Still DEF TypeOK
<1>6. ReaderInv' /\ CallInv'
  BY <1>1, <1>2, <1>3, <1>4 DEF ReaderInv, CallInv, Receiving
<1>7. ReturnInv'
  BY <1>1, <1>2, <1>3, <1>4, Still DEF ReturnInv, Receiving, Abandoned, Pending
<1>8. TextInv'
  BY <1>1, <1>2, <1>3, Still DEF TextInv, Clients, Pumped, Direct
<1>9. /\ StreamedIsReturned' /\ FaultReported' /\ AnswerIsComplete'
      /\ QuietAfterReturn' /\ FunctionErrorReturned'
  <2>1. outcome'.end = "ok" => client = "ernie" /\ ~failed' /\ outcome'.text = text'
    BY <1>2, <1>3 DEF Pending
  <2>2. late' = late
    BY <1>1 DEF Receiving, TypeOK
  <2> QED BY <1>1, <1>2, <1>8, <2>1, <2>2, Still
          DEF StreamedIsReturned, FaultReported, AnswerIsComplete, QuietAfterReturn,
              FunctionErrorReturned, TextInv
<1> QED BY <1>1, <1>5, <1>6, <1>7, <1>8, <1>9, Still

(* It receives what it passes over.                                        *)
LEMMA ReceivePassStep ==
    ASSUME IInv, ReceivePass
    PROVE  IInv'
<1> USE DEF IInv
<1>1. /\ Receiving /\ offer.act = "pass"
      /\ UNCHANGED <<client, body, text, complete, opened>>
      /\ offer' = Nothing /\ reader' = "scan"
  BY DEF ReceivePass, Resumed
<1>2. client \notin Direct /\ client # "anthropic" /\ ~failed /\ outcome = Pending
  BY <1>1, ReceiveState, Table DEF Act
<1>3. /\ passed' = passed /\ late' = late
      /\ \/ UNCHANGED <<failed, main, outcome>>
         \/ /\ failed' = TRUE /\ main' = "returned"
            /\ outcome'.end = "error" /\ outcome'.text = <<>>
  <2>1. passed \o <<>> = passed
    BY ConcatEmptySeq DEF TypeOK
  <2>2. CASE Quiet /\ UNCHANGED <<main, outcome>>
    BY <2>2 DEF Quiet
  <2>3. CASE \E ok \in BOOLEAN :
               /\ Stream(<<>>, ok)
               /\ IF ok THEN UNCHANGED <<main, outcome>> ELSE Return("error", <<>>)
    <3>1. PICK ok \in BOOLEAN :
             /\ Stream(<<>>, ok)
             /\ IF ok THEN UNCHANGED <<main, outcome>> ELSE Return("error", <<>>)
      BY <2>3
    <3>2. passed' = passed /\ failed' = (failed \/ ~ok) /\ late' = (late \/ main = "returned")
      BY <2>1, <3>1 DEF Stream
    <3>3. late' = late
      BY <1>1, <3>2 DEF Receiving, TypeOK
    <3>4. failed \in BOOLEAN
      BY DEF TypeOK
    <3>5. CASE ok
      BY <1>2, <3>1, <3>2, <3>3, <3>4, <3>5
    <3>6. CASE ~ok
      BY <1>2, <3>1, <3>2, <3>3, <3>6, Returned
    <3> QED BY <3>5, <3>6
  <2> QED BY <2>2, <2>3 DEF ReceivePass
<1>4. TypeOK'
  <2>1. outcome'.end \in {"none", "error"} /\ outcome'.text \in Seq(Positions)
    BY <1>1, <1>2, <1>3, ReceiveState, NoText DEF TypeOK
  <2>2. failed' \in BOOLEAN /\ main' \in {"read", "returned"}
    BY <1>3 DEF TypeOK
  <2> QED BY <1>1, <1>3, <2>1, <2>2, Still DEF TypeOK, Nothing
<1>5. ReaderInv' /\ CallInv' /\ ReturnInv'
  BY <1>1, <1>2, <1>3, Still DEF ReaderInv, CallInv, ReturnInv, Receiving, Abandoned, Pending
<1>6. TextInv'
  BY <1>1, <1>2, <1>3, Still DEF TextInv, Pending
<1>7. /\ StreamedIsReturned' /\ FaultReported' /\ AnswerIsComplete'
      /\ QuietAfterReturn' /\ FunctionErrorReturned'
  BY <1>1, <1>2, <1>3, Still DEF StreamedIsReturned, FaultReported, AnswerIsComplete,
     QuietAfterReturn, FunctionErrorReturned, Pending
<1> QED BY <1>1, <1>4, <1>5, <1>6, <1>7, Still

(* It receives an error, and returns it.                                   *)
LEMMA ReceiveErrorStep ==
    ASSUME IInv, ReceiveError
    PROVE  IInv'
<1> USE ReceiveState, Still, Table DEF IInv, ReceiveError, Quiet, Return, Resumed, Receiving, Nothing
<1>1. TypeOK'
  BY DEF TypeOK
<1>2. ReaderInv' /\ CallInv' /\ ReturnInv' /\ TextInv'
  BY DEF ReaderInv, CallInv, ReturnInv, TextInv, TypeOK, Abandoned, Ends, Act
<1>3. /\ StreamedIsReturned' /\ FaultReported' /\ AnswerIsComplete'
      /\ QuietAfterReturn' /\ FunctionErrorReturned'
  BY DEF StreamedIsReturned, FaultReported, AnswerIsComplete, QuietAfterReturn,
         FunctionErrorReturned, Ends, Act
<1> QED BY <1>1, <1>2, <1>3

(* It receives the answer, and returns that.                               *)
LEMMA ReceiveAnswerStep ==
    ASSUME IInv, ReceiveAnswer
    PROVE  IInv'
<1> USE ReceiveState, Still, Table DEF IInv, ReceiveAnswer, Quiet, Resumed, Receiving, Nothing
<1>1. TypeOK'
  BY DEF TypeOK
<1>2. ReaderInv' /\ CallInv' /\ ReturnInv' /\ TextInv'
  BY DEF ReaderInv, CallInv, ReturnInv, TextInv, TypeOK, Abandoned, Ends, Act
<1>3. /\ StreamedIsReturned' /\ FaultReported' /\ AnswerIsComplete'
      /\ QuietAfterReturn' /\ FunctionErrorReturned'
  BY DEF StreamedIsReturned, FaultReported, AnswerIsComplete, QuietAfterReturn,
         FunctionErrorReturned, Ends, Act
<1> QED BY <1>1, <1>2, <1>3

(* It finds the channel closed.                                            *)
LEMMA ChannelClosedStep ==
    ASSUME IInv, ChannelClosed
    PROVE  IInv'
<1> USE DEF IInv
<1>1. /\ client \in Clients \ Direct /\ reader = "closed" /\ ~failed
      /\ Act(LastLine) = "stop" /\ main' = "returned"
      /\ UNCHANGED <<client, body, reader, offer, text, passed, complete, opened, failed, late>>
  BY FinishAnswers DEF ChannelClosed, Quiet, TypeOK, ReaderInv, CallInv
<1>2. TypeOK'
  <2>1. text \in Seq(Positions) /\ <<>> \in Seq(Positions) /\ client \in Clients
    BY DEF TypeOK
  <2>2. outcome'.text \in {text, <<>>}
    BY <2>1, FinishAnswers DEF ChannelClosed
  <2>3. outcome'.text \in Seq(Positions)
    BY <2>1, <2>2
  <2> QED BY <1>1, <2>3, FinishAnswers, Still DEF ChannelClosed, TypeOK
<1>3. ReaderInv' /\ CallInv' /\ ReturnInv'
  BY <1>1, Still DEF ReaderInv, CallInv, ReturnInv
<1>4. /\ outcome'.end = "ok" => /\ client \in {"anthropic", "ollama"} => complete
                                /\ \/ outcome'.text = passed
                                   \/ client = "cloudflare"
                                   \/ client = "maritaca" /\ ~complete
      /\ TextInv'
  BY <1>1, FinishAnswers, Still DEF ChannelClosed, TextInv, TypeOK
<1>5. Seen("fault") => client \in {"anthropicText", "ernie", "ernieText"}
  BY <1>1, FaultIsLast, Table DEF Act, Direct
<1> QED
  BY <1>1, <1>2, <1>3, <1>4, <1>5, Still
     DEF StreamedIsReturned, FaultReported, AnswerIsComplete, QuietAfterReturn,
         FunctionErrorReturned, TextInv

-----------------------------------------------------------------------------
(* The call that reads the body itself.                                    *)

(* What is known when such a call reads a line.                            *)
LEMMA TakeState ==
    ASSUME IInv, client \in Direct, main = "read"
    PROVE  /\ client \in Clients /\ client \notin Pumped
           /\ reader = "none" /\ offer = Nothing
           /\ ~failed /\ outcome = Pending /\ outcome.end = "none"
BY DEF IInv, TypeOK, ReaderInv, CallInv, Pending, Clients, Pumped, Direct

(* A client without a reader takes a line of text itself.                  *)
LEMMA TakeTextStep ==
    ASSUME MaxLines \in Nat, IInv, client \in Direct, main = "read", NEW kind, Arrives(kind),
           TakeText(kind), UNCHANGED <<client, reader, offer, opened>>
    PROVE  IInv'
<1> USE DEF IInv
<1> DEFINE at == Text(kind)
<1>1. /\ Act(kind) \in {"take", "final"} /\ kind \notin Ends
      /\ text' = text \o at
      /\ complete' = (complete \/ Act(kind) = "final")
  BY TakeState, Arrival, Table DEF TakeText, Kept, Act
<1>2. PICK n \in 0..Len(at) :
         /\ StreamParts(at, n)
         /\ IF n = 0 THEN UNCHANGED <<main, outcome>> ELSE FunctionFails
  BY DEF TakeText
<1>3. at \in Seq(Positions) /\ text \in Seq(Positions) /\ passed \in Seq(Positions)
  BY Arrival DEF TypeOK
<1>4. text' \in Seq(Positions)
  BY <1>1, <1>3, ConcatProperties
<1>5. late' = late
  BY <1>2 DEF StreamParts, Stream, TypeOK
<1>6. \/ /\ ~failed' /\ passed' = passed \o at /\ passed' \in Seq(Positions)
         /\ main' = "read" /\ outcome' = Pending
         /\ outcome'.end = "none" /\ outcome'.text = <<>>
      \/ /\ failed' = TRUE /\ passed' \in Seq(Positions)
         /\ main' = "returned"
         /\ \/ outcome'.end = "error" /\ outcome'.text = <<>>
            \/ /\ client \in {"googleai", "vertex"}
               /\ outcome'.end = "ok" /\ outcome'.text = text'
  <2>1. CASE n = 0
    <3>1. passed' = passed \o at /\ ~failed'
      BY <1>2, <2>1, TakeState DEF StreamParts, Stream
    <3>2. passed \o at \in Seq(Positions)
      BY <1>3, ConcatProperties
    <3> QED BY <1>2, <2>1, <3>1, <3>2, TakeState DEF Pending
  <2>2. CASE n # 0
    <3> DEFINE part == SubSeq(at, 1, n)
    <3>1. passed' = passed \o part /\ failed' = TRUE
      BY <1>2, <2>2 DEF StreamParts, Stream
    <3>2. part \in Seq(Positions)
      BY <1>3, <2>2, SubSeqProperties, LenProperties
    <3>3. passed \o part \in Seq(Positions)
      BY <1>3, <3>2, ConcatProperties
    <3>4. FunctionFails
      BY <1>2, <2>2
    <3>5. CASE client \in {"googleai", "vertex"}
      BY <3>1, <3>3, <3>4, <3>5, Returned DEF FunctionFails
    <3>6. CASE client \notin {"googleai", "vertex"}
      BY <3>1, <3>3, <3>4, <3>6, Returned DEF FunctionFails
    <3> QED BY <3>5, <3>6
  <2> QED BY <2>1, <2>2
<1>7. TypeOK'
  <2>1. outcome'.text \in Seq(Positions)
    BY <1>4, <1>6, NoText
  <2>2. /\ outcome'.end \in {"none", "ok", "error", "panic", "exit"}
        /\ main' \in {"read", "returned"} /\ failed' \in BOOLEAN
    <3>1. failed' \in BOOLEAN
      BY <1>2 DEF StreamParts, Stream
    <3> QED BY <1>6, <3>1
  <2>3. complete' \in BOOLEAN
    BY <1>1
  <2>4. offer'.at \in Seq(Positions) /\ offer'.act = "nothing"
    <3>1. offer' = Nothing
      BY TakeState
    <3>2. Nothing.at = <<>> /\ Nothing.act = "nothing"
      BY DEF Nothing
    <3> QED BY <3>1, <3>2, NoText
  <2>5. late' \in BOOLEAN
    BY <1>5 DEF TypeOK
  <2> QED BY <1>4, <1>6, <2>1, <2>2, <2>3, <2>4, <2>5, Arrival DEF TypeOK
<1>8. ReaderInv' /\ CallInv' /\ ReturnInv'
  BY <1>6, TakeState DEF ReaderInv, CallInv, ReturnInv, Clients, Pumped, Direct
<1>9. TextInv'
  <2>1. ~failed' => text' = passed'
    BY <1>1, <1>6, TakeState DEF TextInv
  <2>2. complete' /\ client \in {"anthropic", "ollama"} => Seen("end")'
    BY <1>1, Arrival, TakeState, Table DEF TextInv, Act
  <2>3. outcome'.end = "ok" => client \notin {"anthropic", "ollama"}
    BY <1>6
  <2> QED BY <2>1, <2>2, <2>3 DEF TextInv
<1>10. /\ StreamedIsReturned' /\ FaultReported' /\ AnswerIsComplete'
       /\ QuietAfterReturn' /\ FunctionErrorReturned'
  <2>1. outcome'.end = "ok" => failed' /\ client \in {"googleai", "vertex"} /\ ~Seen("fault")'
    BY <1>1, <1>6, Arrival DEF Ends
  <2> QED BY <1>5, <2>1, Arrival
          DEF StreamedIsReturned, FaultReported, AnswerIsComplete, QuietAfterReturn,
              FunctionErrorReturned
<1> QED BY <1>7, <1>8, <1>9, <1>10, Arrival

(* It takes the end of the body or of the answer.                          *)
LEMMA TakeEndStep ==
    ASSUME MaxLines \in Nat, IInv, client \in Direct, main = "read", NEW kind, Arrives(kind),
           TakeEnd(kind), UNCHANGED <<client, reader, offer, opened>>
    PROVE  IInv'
<1> USE DEF IInv
<1>1. /\ Act(kind) = "stop" /\ main' = "returned"
      /\ UNCHANGED <<passed, failed, late, text, complete>>
      /\ outcome'.end \in {"ok", "error", "panic"} /\ outcome'.text \in {text, <<>>}
  BY TakeState, FinishAnswers DEF TakeEnd, Quiet
<1>2. outcome'.end = "ok" => /\ client \in {"anthropic", "ollama"} => complete
                             /\ \/ outcome'.text = passed
                                \/ client = "cloudflare"
                                \/ client = "maritaca" /\ ~complete
  BY TakeState, FinishAnswers DEF TakeEnd, TextInv
<1>3. TypeOK'
  <2>1. outcome'.text \in Seq(Positions)
    BY <1>1, NoText DEF TypeOK
  <2> QED BY <1>1, <2>1, Arrival DEF TypeOK
<1>4. ReaderInv' /\ CallInv' /\ ReturnInv' /\ TextInv'
  BY <1>1, <1>2, TakeState, Arrival
     DEF ReaderInv, CallInv, ReturnInv, TextInv, Clients, Pumped, Direct
<1>5. Seen("fault")' => client \in {"cloudflare", "ollama"}
  BY <1>1, TakeState, Arrival, Table DEF Act, Pumped
<1> QED
  BY <1>1, <1>2, <1>3, <1>4, <1>5, TakeState, Arrival
     DEF StreamedIsReturned, FaultReported, AnswerIsComplete, QuietAfterReturn,
         FunctionErrorReturned, TextInv

(* It takes any other line.                                                *)
LEMMA TakeOtherStep ==
    ASSUME MaxLines \in Nat, IInv, client \in Direct, main = "read", NEW kind, Arrives(kind),
           TakeBad(kind) \/ TakeSkipped(kind), UNCHANGED <<client, reader, offer, opened>>
    PROVE  IInv'
<1> USE DEF IInv
<1>1. /\ UNCHANGED <<passed, failed, late, text, complete>>
      /\ \/ /\ main' = "returned"
            /\ outcome'.end = "error" /\ outcome'.text = <<>>
         \/ /\ main' = "read" /\ outcome' = Pending
            /\ outcome'.end = "none" /\ outcome'.text = <<>>
  <2>1. CASE TakeBad(kind)
    BY <2>1, Returned DEF TakeBad, Quiet
  <2>2. CASE TakeSkipped(kind)
    BY <2>2, TakeState DEF TakeSkipped, Quiet, Pending
  <2> QED BY <2>1, <2>2
<1>2. TypeOK'
  <2>1. outcome'.text \in Seq(Positions) /\ outcome'.end \in {"none", "error"}
        /\ main' \in {"read", "returned"}
    BY <1>1, NoText
  <2> QED BY <1>1, <2>1, Arrival DEF TypeOK
<1>3. ReaderInv' /\ CallInv' /\ ReturnInv' /\ TextInv'
  BY <1>1, TakeState, Arrival
     DEF ReaderInv, CallInv, ReturnInv, TextInv, Clients, Pumped, Direct
<1> QED
  BY <1>1, <1>2, <1>3, Arrival
     DEF StreamedIsReturned, FaultReported, AnswerIsComplete, QuietAfterReturn,
         FunctionErrorReturned

-----------------------------------------------------------------------------
(* The invariant.                                                          *)

LEMMA Initially ==
    ASSUME MaxLines \in Nat, Init
    PROVE  IInv
<1> USE DEF Init, Nothing, Pending
<1>1. Len(body) = 0 /\ body \in Seq(Kinds)
  OBVIOUS
<1>2. TypeOK
  <2>1. {text, passed, offer.at, outcome.text} \subseteq Seq(Positions)
    BY NoText
  <2>2. Len(body) <= MaxLines + 1
    BY <1>1
  <2> QED BY <1>1, <2>1, <2>2 DEF TypeOK
<1>3. BodyInv
  BY <1>1 DEF BodyInv, LastLine
<1>4. ReaderInv /\ CallInv /\ ReturnInv /\ TextInv
  BY DEF ReaderInv, CallInv, ReturnInv, TextInv, Clients, Pumped, Direct
<1> QED
  BY <1>2, <1>3, <1>4
     DEF IInv, StreamedIsReturned, FaultReported, AnswerIsComplete, QuietAfterReturn,
         FunctionErrorReturned

(* Every step keeps the invariant.                                         *)
LEMMA Induction ==
    ASSUME MaxLines \in Nat, IInv, [Next]_vars
    PROVE  IInv'
<1>1. CASE Read
  <2>1. PICK kind \in Kinds :
           /\ Arrives(kind)
           /\ \/ ReadPayload(kind) \/ ReadEnd(kind) \/ ReadBad(kind)
              \/ ReadFatal(kind) \/ ReadSkipped(kind)
              \/ ReadBlock(kind) \/ ReadDelta(kind) \/ ReadAnswer(kind)
    BY <1>1 DEF Read
  <2>2. reader = "scan" /\ UNCHANGED client
    BY <1>1 DEF Read
  <2> QED
    BY <2>1, <2>2, ReadPayloadStep, ReadEndStep, ReadBadStep, ReadFatalStep,
       ReadSkippedStep, ReadBlockStep, ReadDeltaStep, ReadAnswerStep
<1>2. CASE Receive
  BY <1>2, ReceiveTextStep, ReceivePassStep, ReceiveErrorStep, ReceiveAnswerStep DEF Receive
<1>3. CASE ChannelClosed
  BY <1>3, ChannelClosedStep
<1>4. CASE Take
  <2>1. PICK kind \in Kinds :
           /\ Arrives(kind)
           /\ \/ TakeText(kind) \/ TakeEnd(kind)
              \/ TakeBad(kind) \/ TakeSkipped(kind)
    BY <1>4 DEF Take
  <2>2. client \in Direct /\ main = "read" /\ UNCHANGED <<client, reader, offer, opened>>
    BY <1>4 DEF Take
  <2> QED BY <2>1, <2>2, TakeTextStep, TakeEndStep, TakeOtherStep
<1>5. CASE UNCHANGED vars
  BY <1>5, Still
     DEF vars, IInv, TypeOK, BodyInv, ReaderInv, CallInv, ReturnInv, TextInv, Abandoned,
         StreamedIsReturned, FaultReported, AnswerIsComplete, QuietAfterReturn,
         FunctionErrorReturned
<1> QED BY <1>1, <1>2, <1>3, <1>4, <1>5 DEF Next

(* What the runs check follows from it.                                    *)
LEMMA Consequences ==
    ASSUME IInv
    PROVE  /\ TypeOK /\ StreamedIsReturned /\ FaultReported /\ AnswerIsComplete
           /\ QuietAfterReturn /\ FunctionErrorReturned /\ StrandedOnlyIfAbandoned
BY DEF IInv, ReturnInv, StrandedOnlyIfAbandoned
-----------------------------------------------------------------------------
(* The inductive invariant holds, for bodies of any length: what is known  *)
(* of the body, the reader, the call and the text at every step.           *)
THEOREM Invariance ==
    ASSUME MaxLines \in Nat
    PROVE  Spec => []IInv
<1>1. Init => IInv
  BY Initially
<1>2. IInv /\ [Next]_vars => IInv'
  BY Induction
<1> QED BY <1>1, <1>2, PTL DEF Spec

(* The state of a stream keeps its types.                                  *)
THEOREM TypeCorrect ==
    ASSUME MaxLines \in Nat
    PROVE  Spec => []TypeOK
<1>1. IInv => TypeOK
  BY Consequences
<1> QED BY <1>1, Invariance, PTL

(* What a successful call returns is what it streamed, whatever the order  *)
(* in which reader and call run.                                           *)
THEOREM ReturnsWhatItStreams ==
    ASSUME MaxLines \in Nat
    PROVE  Spec => []StreamedIsReturned
<1>1. IInv => StreamedIsReturned
  BY Consequences
<1> QED BY <1>1, Invariance, PTL

(* An answer that was cut off is an error, and the clients that look for   *)
(* its end return none without it.                                         *)
THEOREM CutOffIsReported ==
    ASSUME MaxLines \in Nat
    PROVE  Spec => [](FaultReported /\ AnswerIsComplete)
<1>1. IInv => FaultReported /\ AnswerIsComplete
  BY Consequences
<1> QED BY <1>1, Invariance, PTL

(* The error of the streaming function is the error of the call.           *)
THEOREM FunctionErrorSurfaces ==
    ASSUME MaxLines \in Nat
    PROVE  Spec => []FunctionErrorReturned
<1>1. IInv => FunctionErrorReturned
  BY Consequences
<1> QED BY <1>1, Invariance, PTL

(* After the return the streaming function is called no more, and no       *)
(* reader stays behind, but in the cases the two properties name.          *)
THEOREM NothingGoesOn ==
    ASSUME MaxLines \in Nat
    PROVE  Spec => [](QuietAfterReturn /\ StrandedOnlyIfAbandoned)
<1>1. IInv => QuietAfterReturn /\ StrandedOnlyIfAbandoned
  BY Consequences
<1> QED BY <1>1, Invariance, PTL

-----------------------------------------------------------------------------
(* Lists of lists.                                                         *)

\* What FlattenSeq has put together when it comes to each list.
Flat(seqs) == CHOOSE f : f = [i \in 1..Len(seqs) |-> IF i = 1 THEN seqs[i]
                                                     ELSE f[i - 1] \o seqs[i]]

(* The sums of the lists exist: a smallest number of lists without them cannot be.  *)
LEMMA SumsExist ==
    ASSUME NEW seqs, NEW n \in Nat
    PROVE  \E f : f = [i \in 1..n |-> IF i = 1 THEN seqs[i] ELSE f[i - 1] \o seqs[i]]
<1> DEFINE Sums(f, m) == f = [i \in 1..m |-> IF i = 1 THEN seqs[i] ELSE f[i - 1] \o seqs[i]]
           bad == {m \in Nat : ~ \E f : Sums(f, m)}
<1>1. SUFFICES ASSUME bad # {} PROVE FALSE
  OBVIOUS
<1>2. PICK m \in bad : \A k \in bad : ~(<<k, m>> \in OpToRel(<, Nat))
  BY <1>1, WFMin, NatLessThanWellFounded
<1>3. m # 0
  <2> DEFINE e == [i \in 1..0 |-> seqs[i]]
  <2>1. e = [i \in 1..0 |-> IF i = 1 THEN seqs[i] ELSE e[i - 1] \o seqs[i]]
    OBVIOUS
  <2>2. \E f : Sums(f, 0)
    BY <2>1
  <2> HIDE DEF Sums
  <2> QED BY <2>2
<1>4. m - 1 \in Nat /\ m - 1 \notin bad
  <2>1. m - 1 \in Nat /\ m \in Nat /\ m - 1 < m
    BY <1>3
  <2>2. <<m - 1, m>> \in OpToRel(<, Nat)
    BY <2>1 DEF OpToRel
  <2> HIDE DEF bad
  <2> QED BY <1>2, <2>1, <2>2
<1>5. PICK f : Sums(f, m - 1)
  BY <1>4
<1> DEFINE g == [i \in 1..m |-> IF i < m THEN f[i]
                                ELSE IF m = 1 THEN seqs[1] ELSE f[m - 1] \o seqs[m]]
<1>6. Sums(g, m)
  <2>1. \A i \in 1..m : g[i] = IF i = 1 THEN seqs[i] ELSE g[i - 1] \o seqs[i]
    <3> TAKE i \in 1..m
    <3>1. CASE i < m
      <4>1. i \in 1..(m - 1) /\ g[i] = f[i]
        BY <3>1, <1>4
      <4>2. f[i] = IF i = 1 THEN seqs[i] ELSE f[i - 1] \o seqs[i]
        BY <4>1, <1>5
      <4>3. i # 1 => i - 1 \in 1..m /\ i - 1 < m /\ g[i - 1] = f[i - 1]
        BY <4>1, <1>4
      <4> QED BY <4>1, <4>2, <4>3
    <3>2. CASE i = m
      <4>1. i # 1 => i - 1 \in 1..m /\ i - 1 < m /\ g[i - 1] = f[i - 1]
        BY <3>2, <1>4
      <4> QED BY <3>2, <4>1
    <3> QED BY <3>1, <3>2, <1>4
  <2> HIDE DEF Sums
  <2>2. g = [i \in 1..m |-> IF i = 1 THEN seqs[i] ELSE g[i - 1] \o seqs[i]]
    BY <2>1
  <2> QED BY <2>2 DEF Sums
<1> QED BY <1>6, <1>2

(* So FlattenSeq puts the lists one after the other.                         *)
LEMMA FlatIs ==
    ASSUME NEW S, NEW seqs \in Seq(Seq(S))
    PROVE  /\ Passing!FlattenSeq(seqs) = IF seqs = <<>> THEN <<>> ELSE Flat(seqs)[Len(seqs)]
           /\ \A i \in 1..Len(seqs) :
                Flat(seqs)[i] = IF i = 1 THEN seqs[i] ELSE Flat(seqs)[i - 1] \o seqs[i]
<1>1. Len(seqs) \in Nat /\ (Len(seqs) = 0 <=> seqs = <<>>)
  BY EmptySeq, LenProperties
<1>2. Flat(seqs) = [i \in 1..Len(seqs) |-> IF i = 1 THEN seqs[i]
                                         ELSE Flat(seqs)[i - 1] \o seqs[i]]
  <2> DEFINE Sums(f) == f = [i \in 1..Len(seqs) |-> IF i = 1 THEN seqs[i]
                                         ELSE f[i - 1] \o seqs[i]]
  <2>1. \E f : Sums(f)
    BY <1>1, SumsExist
  <2>2. Flat(seqs) = CHOOSE f : Sums(f)
    BY DEF Flat
  <2> HIDE DEF Sums
  <2>3. Sums(Flat(seqs))
    BY <2>1, <2>2, Zenon
  <2> QED BY <2>3 DEF Sums
<1>3. Passing!FlattenSeq(seqs) = IF Len(seqs) = 0 THEN seqs ELSE Flat(seqs)[Len(seqs)]
  BY DEF Passing!FlattenSeq, Flat
<1>4. \A i \in 1..Len(seqs) :
                Flat(seqs)[i] = IF i = 1 THEN seqs[i] ELSE Flat(seqs)[i - 1] \o seqs[i]
  <2> DEFINE f == Flat(seqs)
  <2>1. f = [i \in 1..Len(seqs) |-> IF i = 1 THEN seqs[i] ELSE f[i - 1] \o seqs[i]]
    BY <1>2
  <2> HIDE DEF f
  <2>2. \A i \in 1..Len(seqs) : f[i] = IF i = 1 THEN seqs[i] ELSE f[i - 1] \o seqs[i]
    BY <2>1
  <2> QED BY <2>2 DEF f
<1> QED BY <1>1, <1>3, <1>4

\* The elements of a list are those of the first of the lists.
IsOf(flat, seqs, n) ==
    /\ \A x \in DOMAIN flat : \E i \in 1..n : \E j \in DOMAIN seqs[i] :
          flat[x] = seqs[i][j]
    /\ \A i \in 1..n : \A j \in DOMAIN seqs[i] : \E x \in DOMAIN flat :
          flat[x] = seqs[i][j]

(* The elements of the list are those of the lists.                         *)
LEMMA FlatElements ==
    ASSUME NEW S, NEW seqs \in Seq(Seq(S))
    PROVE  \A n \in 1..Len(seqs) :
              Flat(seqs)[n] \in Seq(S) /\ IsOf(Flat(seqs)[n], seqs, n)
<1> DEFINE Good(n) ==
              Flat(seqs)[n] \in Seq(S) /\ IsOf(Flat(seqs)[n], seqs, n)
           bad == {n \in 1..Len(seqs) : ~Good(n)}
<1>1. SUFFICES ASSUME bad # {} PROVE FALSE
  OBVIOUS
<1>2. Len(seqs) \in Nat /\ bad \subseteq Nat
  BY LenProperties
<1>3. PICK n \in bad : \A k \in bad : ~(<<k, n>> \in OpToRel(<, Nat))
  BY <1>1, <1>2, WFMin, NatLessThanWellFounded
<1>4. n \in 1..Len(seqs) /\ ~Good(n) /\ (n # 1 => Good(n - 1))
  <2> HIDE DEF Good
  <2>1. n # 1 => n - 1 \in 1..Len(seqs) /\ n - 1 \in Nat /\ n - 1 < n
    BY <1>2
  <2> QED BY <1>2, <1>3, <2>1 DEF OpToRel
<1>5. seqs[n] \in Seq(S)
  BY <1>4, ElementOfSeq
<1>6. CASE n = 1
  <2>1. Flat(seqs)[1] = seqs[1]
    BY <1>4, <1>6, FlatIs
  <2> QED BY <1>4, <1>5, <1>6, <2>1 DEF IsOf
<1>7. CASE n # 1
  <2> DEFINE before == Flat(seqs)[n - 1]
             flat == Flat(seqs)[n]
  <2>1. flat = before \o seqs[n] /\ before \in Seq(S)
    BY <1>4, <1>7, FlatIs
  <2> HIDE DEF before, flat
  <2>2. /\ flat \in Seq(S) /\ Len(flat) = Len(before) + Len(seqs[n])
        /\ \A x \in 1..Len(before) : flat[x] = before[x]
        /\ \A x \in 1..Len(seqs[n]) : flat[Len(before) + x] = seqs[n][x]
    BY <1>5, <2>1, ConcatProperties
  <2>3. /\ Len(before) \in Nat /\ DOMAIN before = 1..Len(before)
        /\ Len(seqs[n]) \in Nat /\ DOMAIN seqs[n] = 1..Len(seqs[n])
        /\ Len(flat) \in Nat /\ DOMAIN flat = 1..Len(flat)
    BY <1>5, <2>1, <2>2, LenProperties
  <2>4. /\ \A x \in DOMAIN before : \E i \in 1..(n - 1) : \E j \in DOMAIN seqs[i] :
                    before[x] = seqs[i][j]
        /\ \A i \in 1..(n - 1) : \A j \in DOMAIN seqs[i] : \E x \in DOMAIN before :
                    before[x] = seqs[i][j]
    BY <1>4, <1>7 DEF before, IsOf
  <2>5. ASSUME NEW x \in DOMAIN flat
        PROVE  \E i \in 1..n : \E j \in DOMAIN seqs[i] : flat[x] = seqs[i][j]
    <3>1. CASE x <= Len(before)
      <4>1. x \in DOMAIN before /\ flat[x] = before[x]
        BY <2>2, <2>3, <3>1
      <4>2. PICK i \in 1..(n - 1) : \E j \in DOMAIN seqs[i] : before[x] = seqs[i][j]
        BY <2>4, <4>1
      <4>3. i \in 1..n
        BY <1>4, <1>2
      <4> QED BY <4>1, <4>2, <4>3
    <3>2. CASE x > Len(before)
      <4> DEFINE y == x - Len(before)
      <4>0. x \in 1..(Len(before) + Len(seqs[n])) /\ x > Len(before)
        BY <2>2, <2>3, <3>2
      <4>1. y \in 1..Len(seqs[n]) /\ x = Len(before) + y
        BY <2>3, <4>0
      <4> HIDE DEF y
      <4>2. flat[x] = seqs[n][y]
        BY <2>2, <4>1
      <4>3. n \in 1..n /\ y \in DOMAIN seqs[n]
        BY <1>4, <1>2, <2>3, <4>1
      <4>4. \E j \in DOMAIN seqs[n] : flat[x] = seqs[n][j]
        BY <4>2, <4>3
      <4> QED BY <4>3, <4>4, Zenon
    <3>3. x \in Int /\ Len(before) \in Int
      BY <2>3
    <3> QED BY <3>1, <3>2, <3>3
  <2>6. ASSUME NEW i \in 1..n, NEW j \in DOMAIN seqs[i]
        PROVE  \E x \in DOMAIN flat : flat[x] = seqs[i][j]
    <3>1. CASE i = n
      <4>0. j \in 1..Len(seqs[n])
        BY <2>3, <3>1
      <4>2. Len(before) + j \in 1..(Len(before) + Len(seqs[n]))
        BY <2>3, <4>0
      <4>3. Len(before) + j \in DOMAIN flat
        BY <2>2, <2>3, <4>2
      <4>1. Len(before) + j \in DOMAIN flat /\ flat[Len(before) + j] = seqs[n][j]
        BY <2>2, <4>0, <4>3
      <4> QED BY <3>1, <4>1
    <3>2. CASE i # n
      <4>1. i \in 1..(n - 1)
        BY <3>2, <1>4, <1>2
      <4>2. PICK x \in DOMAIN before : before[x] = seqs[i][j]
        BY <2>4, <4>1
      <4>3. x \in DOMAIN flat /\ flat[x] = before[x]
        BY <2>2, <2>3
      <4> QED BY <4>2, <4>3
    <3> QED BY <3>1, <3>2
  <2>7. Good(n)
    BY <2>2, <2>5, <2>6 DEF flat, IsOf
  <2> QED BY <2>7, <1>4
<1> QED BY <1>6, <1>7

-----------------------------------------------------------------------------
(* FinalStream: texts.                                                     *)

(* One notion of counting in both modules.                                 *)
LEMMA SameSize == \A S : Passing!Cardinality(S) = Cardinality(S)
BY DEF Cardinality, Passing!Cardinality

\* A part of a text, sign by sign.
Here(string, word, i) ==
    /\ i \in Nat /\ 1 <= i /\ i + Len(word) - 1 <= Len(string)
    /\ \A j \in 1..Len(word) : string[i + j - 1] = word[j]

\* The blanks a text begins with.
Leads(string, n) ==
    /\ n \in 0..Len(string) /\ \A j \in 1..n : string[j] = "-"
    /\ n < Len(string) => string[n + 1] # "-"

(* A set of numbers has a least one.                                         *)
LEMMA MinIs ==
    ASSUME NEW S, S \subseteq Nat, S # {}
    PROVE  Passing!Min(S) \in S /\ \A y \in S : Passing!Min(S) <= y
<1>1. PICK m \in S : \A k \in S : ~(<<k, m>> \in OpToRel(<, Nat))
  BY WFMin, NatLessThanWellFounded
<1>2. \A k \in S : m <= k
  <2> TAKE k \in S
  <2>1. k \in Nat /\ m \in Nat
    BY <1>1
  <2>2. ~(<<k, m>> \in OpToRel(<, Nat))
    BY <1>1
  <2>3. k < m => <<k, m>> \in OpToRel(<, Nat)
    BY <2>1 DEF OpToRel
  <2>4. ~(k < m)
    BY <2>2, <2>3, Zenon
  <2> QED BY <2>1, <2>4
<1> QED BY <1>1, <1>2 DEF Passing!Min

(* And of two the larger is known.                                           *)
LEMMA MaxIs ==
    ASSUME NEW a \in Int
    PROVE  Passing!Max({0, a}) = IF a >= 0 THEN a ELSE 0
BY DEF Passing!Max

(* A part is at a place if its signs are.                                    *)
LEMMA AtIs ==
    ASSUME NEW string \in Seq(Passing!Signs), NEW word \in Seq(Passing!Signs), Len(word) >= 1,
           NEW i \in 1..(Len(string) - Len(word) + 1)
    PROVE  Passing!At(string, word, i) <=> Here(string, word, i)
<1> DEFINE s == SubSeq(string, i, i + Len(word) - 1)
<1>1. Len(string) \in Nat /\ Len(word) \in Nat /\ i \in Nat
  BY LenProperties
<1>3. /\ s \in Seq(Passing!Signs) /\ Len(s) = Len(word)
      /\ \A j \in 1..Len(word) : s[j] = string[i + j - 1]
  <2> DEFINE last == i + Len(word) - 1
  <2>1. i \in 1..(Len(string) + 1) /\ last \in (i - 1)..Len(string)
    BY <1>1
  <2>2. last - i + 1 = Len(word)
    BY <1>1
  <2> HIDE DEF last
  <2>3. /\ SubSeq(string, i, last) \in Seq(Passing!Signs)
        /\ Len(SubSeq(string, i, last)) = last - i + 1
        /\ \A j \in 1..(last - i + 1) : SubSeq(string, i, last)[j] = string[i + j - 1]
    BY <2>1, SubSeqProperties
  <2> QED BY <2>2, <2>3 DEF last
<1> HIDE DEF s
<1>4. s = word <=> \A j \in 1..Len(word) : s[j] = word[j]
  BY <1>3, SeqEqual
<1>5. Passing!At(string, word, i) <=> s = word
  BY DEF Passing!At, s
<1> QED BY <1>1, <1>3, <1>4, <1>5 DEF Here

(* Index is the first of the places, and 0 if there is none.                 *)
LEMMA IndexIs ==
    ASSUME NEW string \in Seq(Passing!Signs), NEW word \in Seq(Passing!Signs), Len(word) >= 1
    PROVE  /\ Passing!Index(string, word) \in Nat
           /\ Passing!Index(string, word) # 0 <=> \E i : Here(string, word, i)
           /\ Passing!Index(string, word) # 0
                => Here(string, word, Passing!Index(string, word))
           /\ \A i : Here(string, word, i) => Passing!Index(string, word) <= i
<1> DEFINE places == {i \in 1..(Len(string) - Len(word) + 1) : Passing!At(string, word, i)}
<1>1. Len(string) \in Nat /\ Len(word) \in Nat
  BY LenProperties
<1>2. \A i : i \in places <=> Here(string, word, i)
  <2> TAKE i
  <2>1. Here(string, word, i) => i \in 1..(Len(string) - Len(word) + 1)
    BY <1>1 DEF Here
  <2>2. i \in 1..(Len(string) - Len(word) + 1)
        => (Passing!At(string, word, i) <=> Here(string, word, i))
    BY AtIs
  <2> QED BY <2>1, <2>2
<1>3. Passing!Index(string, word) = IF places = {} THEN 0 ELSE Passing!Min(places)
  BY DEF Passing!Index
<1>4. places \subseteq Nat /\ 0 \notin places
  BY <1>1
<1> HIDE DEF places
<1>5. places # {} => Passing!Min(places) \in places
      /\ \A y \in places : Passing!Min(places) <= y
  BY <1>4, MinIs
<1>6. places # {} => Passing!Index(string, word) \in places
  BY <1>3, <1>5
<1>7. (places = {} => Passing!Index(string, word) = 0)
      /\ \A i \in places : Passing!Index(string, word) <= i
  BY <1>3, <1>5
<1>8. Passing!Index(string, word) \in Nat /\ (Passing!Index(string, word) # 0 <=> places # {})
  <2>1. CASE places = {}
    BY <2>1, <1>7
  <2>2. CASE places # {}
    <3>1. Passing!Index(string, word) \in places
      BY <2>2, <1>6
    <3>2. Passing!Index(string, word) \in Nat /\ Passing!Index(string, word) # 0
      BY <3>1, <1>4
    <3> QED BY <2>2, <3>2
  <2> QED BY <2>1, <2>2
<1>9. places # {} <=> \E i : Here(string, word, i)
  BY <1>2
<1> QED BY <1>2, <1>6, <1>7, <1>8, <1>9

(* What is left of a text after its first signs.                             *)
LEMMA AfterIs ==
    ASSUME NEW string \in Seq(Passing!Signs), NEW n \in 0..Len(string)
    PROVE  /\ Passing!After(string, n) \in Seq(Passing!Signs)
           /\ Len(Passing!After(string, n)) = Len(string) - n
           /\ \A j \in 1..(Len(string) - n) : Passing!After(string, n)[j] = string[n + j]
<1>1. Len(string) \in Nat /\ n \in Nat
  BY LenProperties
<1>2. n + 1 \in 1..(Len(string) + 1) /\ Len(string) \in (n + 1 - 1)..Len(string)
  BY <1>1
<1>3. Len(string) - (n + 1) + 1 = Len(string) - n
      /\ \A j \in 1..(Len(string) - n) : n + 1 + j - 1 = n + j
  BY <1>1
<1>4. /\ SubSeq(string, n + 1, Len(string)) \in Seq(Passing!Signs)
      /\ Len(SubSeq(string, n + 1, Len(string))) = Len(string) - (n + 1) + 1
      /\ \A j \in 1..(Len(string) - (n + 1) + 1) :
            SubSeq(string, n + 1, Len(string))[j] = string[n + 1 + j - 1]
  BY <1>2, SubSeqProperties
<1> QED BY <1>3, <1>4 DEF Passing!After

(* Two texts that agree in their signs are the same.                         *)
LEMMA Same ==
    ASSUME NEW s \in Seq(Passing!Signs), NEW t \in Seq(Passing!Signs), Len(s) = Len(t),
           \A j \in 1..Len(s) : s[j] = t[j]
    PROVE  s = t
BY SeqEqual

(* The end of the first of two texts goes before the second.                 *)
LEMMA AfterJoined ==
    ASSUME NEW x \in Seq(Passing!Signs), NEW r \in Seq(Passing!Signs), NEW n \in 0..Len(x)
    PROVE  Passing!After(x \o r, n) = Passing!After(x, n) \o r
<1>1. Len(x) \in Nat /\ Len(r) \in Nat /\ n \in Nat
  BY LenProperties
<1>2. /\ x \o r \in Seq(Passing!Signs) /\ Len(x \o r) = Len(x) + Len(r)
      /\ \A j \in 1..(Len(x) + Len(r)) :
            (x \o r)[j] = IF j <= Len(x) THEN x[j] ELSE r[j - Len(x)]
  BY ConcatProperties
<1>3. /\ Passing!After(x, n) \in Seq(Passing!Signs) /\ Len(Passing!After(x, n)) = Len(x) - n
      /\ \A j \in 1..(Len(x) - n) : Passing!After(x, n)[j] = x[n + j]
  BY AfterIs
<1>4. n \in 0..Len(x \o r)
  BY <1>1, <1>2
<1>5. /\ Passing!After(x \o r, n) \in Seq(Passing!Signs)
      /\ Len(Passing!After(x \o r, n)) = Len(x \o r) - n
      /\ \A j \in 1..(Len(x \o r) - n) : Passing!After(x \o r, n)[j] = (x \o r)[n + j]
  BY <1>2, <1>4, AfterIs
<1>6. /\ Passing!After(x, n) \o r \in Seq(Passing!Signs)
      /\ Len(Passing!After(x, n) \o r) = Len(Passing!After(x, n)) + Len(r)
      /\ \A j \in 1..(Len(Passing!After(x, n)) + Len(r)) : (Passing!After(x, n) \o r)[j] =
            IF j <= Len(Passing!After(x, n)) THEN Passing!After(x, n)[j]
                ELSE r[j - Len(Passing!After(x, n))]
  BY <1>3, ConcatProperties
<1>7. Len(Passing!After(x \o r, n)) = Len(Passing!After(x, n) \o r)
  BY <1>1, <1>2, <1>3, <1>5, <1>6
<1>8. \A j \in 1..Len(Passing!After(x \o r, n)) : Passing!After(x \o r, n)[j]
      = (Passing!After(x, n) \o r)[j]
  <2> TAKE j \in 1..Len(Passing!After(x \o r, n))
  <2>1. j \in 1..(Len(x) + Len(r) - n) /\ n + j \in 1..(Len(x) + Len(r)) /\ j \in Nat
    BY <1>1, <1>2, <1>5
  <2>2. Passing!After(x \o r, n)[j] = IF n + j <= Len(x) THEN x[n + j] ELSE r[n + j - Len(x)]
    BY <1>2, <1>5, <2>1
  <2>3. (Passing!After(x, n) \o r)[j] = IF j <= Len(x) - n THEN Passing!After(x, n)[j]
        ELSE r[j - (Len(x) - n)]
    BY <1>1, <1>3, <1>6, <2>1
  <2>4. n + j - Len(x) = j - (Len(x) - n) /\ (n + j <= Len(x) <=> j <= Len(x) - n)
    BY <1>1, <2>1
  <2>5. ASSUME j <= Len(x) - n PROVE Passing!After(x, n)[j] = x[n + j]
    <3>1. j \in 1..(Len(x) - n)
      BY <1>1, <2>1, <2>5
    <3> QED BY <1>3, <3>1
  <2> QED BY <2>2, <2>3, <2>4, <2>5
<1> QED BY <1>5, <1>6, <1>7, <1>8, Same

(* The end of an end.                                                        *)
LEMMA AfterAfter ==
    ASSUME NEW x \in Seq(Passing!Signs), NEW n \in 0..Len(x), NEW m \in 0..(Len(x) - n)
    PROVE  Passing!After(Passing!After(x, n), m) = Passing!After(x, n + m)
<1>1. Len(x) \in Nat /\ n \in Nat /\ m \in Nat /\ n + m \in 0..Len(x)
  BY LenProperties
<1>2. /\ Passing!After(x, n) \in Seq(Passing!Signs) /\ Len(Passing!After(x, n)) = Len(x) - n
      /\ \A j \in 1..(Len(x) - n) : Passing!After(x, n)[j] = x[n + j]
  BY AfterIs
<1>3. m \in 0..Len(Passing!After(x, n))
  BY <1>2
<1>4. /\ Passing!After(Passing!After(x, n), m) \in Seq(Passing!Signs)
      /\ Len(Passing!After(Passing!After(x, n), m)) = Len(Passing!After(x, n)) - m
      /\ \A j \in 1..(Len(Passing!After(x, n)) - m) : Passing!After(Passing!After(x, n), m)[j]
           = Passing!After(x, n)[m + j]
  BY <1>2, <1>3, AfterIs
<1>5. /\ Passing!After(x, n + m) \in Seq(Passing!Signs)
      /\ Len(Passing!After(x, n + m)) = Len(x) - (n + m)
      /\ \A j \in 1..(Len(x) - (n + m)) : Passing!After(x, n + m)[j] = x[n + m + j]
  BY <1>1, AfterIs
<1>6. Len(Passing!After(Passing!After(x, n), m)) = Len(Passing!After(x, n + m))
  BY <1>1, <1>2, <1>4, <1>5
<1>7. \A j \in 1..Len(Passing!After(x, n + m)) : Passing!After(Passing!After(x, n), m)[j]
      = Passing!After(x, n + m)[j]
  <2> TAKE j \in 1..Len(Passing!After(x, n + m))
  <2>1. j \in 1..(Len(x) - (n + m)) /\ j \in 1..(Len(Passing!After(x, n)) - m)
        /\ m + j \in 1..(Len(x) - n)
    BY <1>1, <1>2, <1>5
  <2>2. n + (m + j) = n + m + j
    BY <1>1, <2>1
  <2> QED BY <1>2, <1>4, <1>5, <2>1, <2>2
<1> QED BY <1>4, <1>5, <1>6, <1>7, Same

(* TrimLeft leaves out the blanks a text begins with.                        *)
LEMMA TrimIs ==
    ASSUME NEW string \in Seq(Passing!Signs)
    PROVE  /\ \E n : Leads(string, n)
           /\ \A n : Leads(string, n) => Passing!TrimLeft(string) = Passing!After(string, n)
<1> DEFINE words == {i \in DOMAIN string : string[i] # "-"}
<1>1. Len(string) \in Nat /\ DOMAIN string = 1..Len(string)
  BY LenProperties
<1>2. Passing!TrimLeft(string) = IF words = {} THEN <<>>
      ELSE Passing!After(string, Passing!Min(words) - 1)
  BY DEF Passing!TrimLeft
<1>3. words \subseteq Nat /\ \A i : i \in words <=> (i \in 1..Len(string) /\ string[i] # "-")
  BY <1>1
<1> HIDE DEF words
<1>4. CASE words = {}
  <2>1. Leads(string, Len(string))
    BY <1>1, <1>3, <1>4 DEF Leads
  <2>2. ASSUME NEW n, Leads(string, n) PROVE n = Len(string)
    <3>1. n \in 0..Len(string) /\ (n < Len(string) => string[n + 1] # "-")
      BY <2>2 DEF Leads
    <3>2. n < Len(string) => n + 1 \in 1..Len(string)
      BY <1>1, <3>1
    <3>3. n < Len(string) => n + 1 \in words
      BY <1>3, <3>1, <3>2
    <3>4. ~(n < Len(string))
      BY <1>4, <3>3
    <3>5. n \in 0..Len(string) /\ Len(string) \in Nat
      BY <1>1, <3>1
    <3>6. n <= Len(string) /\ n \in Nat
      BY <3>5
    <3> QED BY <3>4, <3>5, <3>6
  <2>3. Len(Passing!After(string, Len(string))) = Len(string) - Len(string)
        /\ Passing!After(string, Len(string)) \in Seq(Passing!Signs)
    BY <1>1, AfterIs
  <2>4. Passing!After(string, Len(string)) = <<>>
    BY <1>1, <2>3, EmptySeq
  <2> QED BY <1>2, <1>4, <2>1, <2>2, <2>4
<1>5. CASE words # {}
  <2>1. Passing!Min(words) \in words /\ \A y \in words : Passing!Min(words) <= y
    BY <1>3, <1>5, MinIs
  <2> DEFINE m == Passing!Min(words)
  <2>2. m \in 1..Len(string) /\ string[m] # "-"
        /\ \A j \in 1..Len(string) : j < m => string[j] = "-"
    BY <1>1, <1>3, <2>1
  <2>3. m - 1 + 1 = m /\ m - 1 \in 0..Len(string) /\ m - 1 < Len(string)
    BY <1>1, <2>2
  <2>4. \A j \in 1..(m - 1) : j \in 1..Len(string) /\ j < m
    BY <1>1, <2>2
  <2> HIDE DEF m
  <2>5. Leads(string, m - 1)
    BY <2>2, <2>3, <2>4 DEF Leads
  <2>6. ASSUME NEW n, Leads(string, n) PROVE n = m - 1
    <3>1. n \in Nat /\ n <= Len(string) /\ (\A j \in 1..n : string[j] = "-")
          /\ (n < Len(string) => string[n + 1] # "-")
      BY <2>6, <1>1 DEF Leads
    <3>2. n < m
      BY <2>2, <3>1
    <3>3. n + 1 < m => n < Len(string) /\ n + 1 \in 1..Len(string)
      BY <2>2, <3>1
    <3>4. ~(n + 1 < m)
      BY <2>2, <3>1, <3>3
    <3> QED BY <2>2, <3>1, <3>2, <3>4
  <2> QED BY <1>2, <1>5, <2>5, <2>6 DEF m
<1> QED BY <1>4, <1>5

(* Trimming before what follows makes no difference to trimming after it.    *)
LEMMA TrimJoined ==
    ASSUME NEW x \in Seq(Passing!Signs), NEW r \in Seq(Passing!Signs)
    PROVE  /\ Passing!TrimLeft(x) \in Seq(Passing!Signs)
           /\ Passing!TrimLeft(Passing!TrimLeft(x) \o r) = Passing!TrimLeft(x \o r)
<1>1. PICK n : Leads(x, n)
  BY TrimIs
<1>2. Len(x) \in Nat /\ Len(r) \in Nat /\ n \in 0..Len(x)
  BY <1>1, LenProperties DEF Leads
<1>3. Passing!TrimLeft(x) = Passing!After(x, n) /\ Passing!After(x, n) \in Seq(Passing!Signs)
  BY <1>1, <1>2, TrimIs, AfterIs
<1> DEFINE all == x \o r
           y == Passing!After(all, n)
<1>4. Passing!TrimLeft(x) \o r = y
  BY <1>2, <1>3, AfterJoined
<1>5. /\ all \in Seq(Passing!Signs) /\ Len(all) = Len(x) + Len(r)
      /\ \A j \in 1..(Len(x) + Len(r)) : all[j] = IF j <= Len(x) THEN x[j] ELSE r[j - Len(x)]
  BY ConcatProperties
<1> HIDE DEF all
<1>6. n \in 0..Len(all)
  BY <1>2, <1>5
<1>7. /\ y \in Seq(Passing!Signs) /\ Len(y) = Len(all) - n
      /\ \A j \in 1..(Len(all) - n) : y[j] = all[n + j]
  BY <1>5, <1>6, AfterIs
<1> HIDE DEF y
<1>8. PICK m : Leads(y, m)
  BY <1>7, TrimIs
<1>9. m \in 0..Len(y) /\ m \in 0..(Len(all) - n) /\ n + m \in 0..Len(all)
  BY <1>2, <1>5, <1>7, <1>8 DEF Leads
<1>10. Passing!TrimLeft(y) = Passing!After(all, n + m)
  BY <1>5, <1>6, <1>7, <1>8, <1>9, TrimIs, AfterAfter DEF y
<1>11. Leads(all, n + m)
  <2>1. \A j \in 1..(n + m) : all[j] = "-"
    <3> TAKE j \in 1..(n + m)
    <3>1. CASE j <= n
      <4>1. j \in 1..n /\ j \in 1..(Len(x) + Len(r)) /\ j <= Len(x)
        BY <1>2, <3>1
      <4> QED BY <4>1, <1>1, <1>5 DEF Leads
    <3>2. CASE j > n
      <4>1. j - n \in 1..m /\ j - n \in 1..(Len(all) - n) /\ n + (j - n) = j
        BY <1>2, <1>5, <1>9, <3>2
      <4>2. y[j - n] = "-"
        BY <4>1, <1>8 DEF Leads
      <4> QED BY <4>1, <4>2, <1>7
    <3> QED BY <1>2, <1>9, <3>1, <3>2
  <2>2. n + m < Len(all) => all[n + m + 1] # "-"
    <3> SUFFICES ASSUME n + m < Len(all) PROVE all[n + m + 1] # "-"
      OBVIOUS
    <3>1. m < Len(y) /\ m + 1 \in 1..(Len(all) - n) /\ n + (m + 1) = n + m + 1
      BY <1>2, <1>5, <1>7, <1>9
    <3>2. y[m + 1] # "-"
      BY <3>1, <1>8 DEF Leads
    <3> QED BY <3>1, <3>2, <1>7
  <2> QED BY <1>9, <2>1, <2>2 DEF Leads
<1>12. Passing!TrimLeft(all) = Passing!After(all, n + m)
  BY <1>5, <1>11, TrimIs
<1> QED BY <1>3, <1>4, <1>10, <1>12 DEF all

(* A part that is in a text is in every longer one.                          *)
LEMMA StillThere ==
    ASSUME NEW x \in Seq(Passing!Signs), NEW r \in Seq(Passing!Signs),
           NEW word \in Seq(Passing!Signs), Len(word) >= 1
    PROVE  /\ \A i : Here(x, word, i) => Here(x \o r, word, i)
           /\ \A i : Here(x \o r, word, i) /\ i + Len(word) - 1 <= Len(x) => Here(x, word, i)
           /\ Passing!Index(x, word) # 0 => Passing!Index(x \o r, word) # 0
<1>1. Len(x) \in Nat /\ Len(r) \in Nat /\ Len(word) \in Nat
  BY LenProperties
<1>2. /\ x \o r \in Seq(Passing!Signs) /\ Len(x \o r) = Len(x) + Len(r)
      /\ \A j \in 1..(Len(x) + Len(r)) :
            (x \o r)[j] = IF j <= Len(x) THEN x[j] ELSE r[j - Len(x)]
  BY ConcatProperties
<1>3. ASSUME NEW i, i \in Nat, 1 <= i, i + Len(word) - 1 <= Len(x), NEW j \in 1..Len(word)
      PROVE  (x \o r)[i + j - 1] = x[i + j - 1]
  <2>1. i + j - 1 \in 1..(Len(x) + Len(r)) /\ i + j - 1 <= Len(x)
    BY <1>1, <1>3
  <2> QED BY <1>2, <2>1
<1>4. ASSUME NEW i, i \in Nat, 1 <= i, i + Len(word) - 1 <= Len(x)
      PROVE  Here(x, word, i) <=> Here(x \o r, word, i)
  <2>1. i + Len(word) - 1 <= Len(x \o r)
    BY <1>1, <1>2, <1>4
  <2>2. \A j \in 1..Len(word) : (x \o r)[i + j - 1] = x[i + j - 1]
    BY <1>3, <1>4
  <2> QED BY <1>4, <2>1, <2>2 DEF Here
<1>5. \A i : Here(x, word, i) => Here(x \o r, word, i)
  BY <1>4 DEF Here
<1>6. \A i : Here(x \o r, word, i) /\ i + Len(word) - 1 <= Len(x) => Here(x, word, i)
  BY <1>4 DEF Here
<1>7. Passing!Index(x, word) # 0 => Passing!Index(x \o r, word) # 0
  BY <1>2, <1>5, IndexIs
<1> QED BY <1>5, <1>6, <1>7

(* A part is in the end of a text where it is in the text, but not before.   *)
LEMMA InTheEnd ==
    ASSUME NEW x \in Seq(Passing!Signs), NEW n \in 0..Len(x), NEW word \in Seq(Passing!Signs),
           Len(word) >= 1
    PROVE  \A i \in Nat : i >= 1
           => (Here(Passing!After(x, n), word, i) <=> Here(x, word, n + i))
<1>1. Len(x) \in Nat /\ n \in Nat /\ Len(word) \in Nat
  BY LenProperties
<1>2. /\ Passing!After(x, n) \in Seq(Passing!Signs) /\ Len(Passing!After(x, n)) = Len(x) - n
      /\ \A j \in 1..(Len(x) - n) : Passing!After(x, n)[j] = x[n + j]
  BY AfterIs
<1> TAKE i \in Nat
<1> SUFFICES ASSUME i >= 1
             PROVE  Here(Passing!After(x, n), word, i) <=> Here(x, word, n + i)
  OBVIOUS
<1>3. i + Len(word) - 1 <= Len(Passing!After(x, n)) <=> n + i + Len(word) - 1 <= Len(x)
  BY <1>1, <1>2
<1>4. n + i \in Nat /\ 1 <= n + i /\ 1 <= i
  BY <1>1
<1>5. ASSUME i + Len(word) - 1 <= Len(Passing!After(x, n)), NEW j \in 1..Len(word)
      PROVE  Passing!After(x, n)[i + j - 1] = x[n + i + j - 1]
  <2>1. i + j - 1 \in 1..(Len(x) - n) /\ n + (i + j - 1) = n + i + j - 1
    BY <1>1, <1>2, <1>5
  <2> QED BY <1>2, <2>1
<1> QED BY <1>3, <1>4, <1>5 DEF Here

\* The place after which the window begins.
Begins(string, size) == Passing!Max({0, Len(string) - size})

(* The window sees the same keywords as the whole text, but those that were  *)
(* in it before.                                                             *)
LEMMA WindowSees ==
    ASSUME NEW all \in Seq(Passing!Signs), NEW piece \in Seq(Passing!Signs),
           NEW word \in Seq(Passing!Signs),
           NEW size \in Nat, Len(word) >= 1
    PROVE  LET window == Passing!After(all, Begins(all, size)) \o piece
           IN /\ Passing!Index(window, word) # 0 => Passing!Index(all \o piece, word) # 0
              /\ (/\ Len(word) <= size
                  /\ Passing!Index(all, word) = 0
                  /\ Passing!Index(all \o piece, word) # 0)
                    => Passing!Index(window, word) # 0
<1> DEFINE n == Begins(all, size)
           string == all \o piece
           window == Passing!After(all, n) \o piece
<1>1. Len(all) \in Nat /\ Len(piece) \in Nat /\ Len(word) \in Nat
  BY LenProperties
<1>2. n = IF Len(all) - size >= 0 THEN Len(all) - size ELSE 0
  BY <1>1, MaxIs DEF Begins
<1>3. n \in 0..Len(all) /\ (n = 0 \/ Len(all) - n = size)
  BY <1>1, <1>2
<1>4. window = Passing!After(string, n)
  BY <1>3, AfterJoined
<1>5. string \in Seq(Passing!Signs) /\ Len(string) = Len(all) + Len(piece)
  BY ConcatProperties
<1> HIDE DEF n
<1>6. n \in 0..Len(string)
  BY <1>1, <1>3, <1>5
<1>7. Passing!After(string, n) \in Seq(Passing!Signs)
  BY <1>5, <1>6, AfterIs
<1>8. \A i \in Nat : i >= 1
      => (Here(Passing!After(string, n), word, i) <=> Here(string, word, n + i))
  BY <1>5, <1>6, InTheEnd
<1>9. Passing!Index(Passing!After(string, n), word) # 0 => Passing!Index(string, word) # 0
  <2> SUFFICES ASSUME Passing!Index(Passing!After(string, n), word) # 0
               PROVE Passing!Index(string, word) # 0
    OBVIOUS
  <2>1. PICK i : Here(Passing!After(string, n), word, i)
    BY <1>7, IndexIs
  <2>2. i \in Nat /\ i >= 1
    BY <2>1 DEF Here
  <2>3. Here(string, word, n + i)
    BY <1>8, <2>1, <2>2
  <2> QED BY <1>5, <2>3, IndexIs
<1>10. (/\ Len(word) <= size
        /\ Passing!Index(all, word) = 0
        /\ Passing!Index(string, word) # 0)
          => Passing!Index(Passing!After(string, n), word) # 0
  <2> SUFFICES ASSUME Len(word) <= size, Passing!Index(all, word) = 0,
                      Passing!Index(string, word) # 0
               PROVE  Passing!Index(Passing!After(string, n), word) # 0
    OBVIOUS
  <2>1. PICK k : Here(string, word, k)
    BY <1>5, IndexIs
  <2>2. ~Here(all, word, k)
    BY IndexIs
  <2>6. k \in Nat /\ k >= 1
    BY <2>1 DEF Here
  <2>7. ASSUME k + Len(word) - 1 <= Len(all) PROVE Here(all, word, k)
    BY <2>1, <2>6, <2>7, StillThere
  <2>3. k \in Nat /\ k >= 1 /\ ~(k + Len(word) - 1 <= Len(all))
    BY <2>2, <2>6, <2>7
  <2>4. k - n \in Nat /\ k - n >= 1 /\ n + (k - n) = k
    BY <1>1, <1>3, <2>3
  <2>5. Here(Passing!After(string, n), word, k - n)
    BY <1>8, <2>1, <2>4
  <2> QED BY <1>7, <2>5, IndexIs
<1> QED BY <1>4, <1>9, <1>10 DEF n

(* And the window after the next chunk is the end of all that was said.      *)
LEMMA WindowMoves ==
    ASSUME NEW all \in Seq(Passing!Signs), NEW piece \in Seq(Passing!Signs), NEW size \in Nat
    PROVE  LET window == Passing!After(all, Begins(all, size)) \o piece
           IN /\ Passing!After(window, Begins(window, size))
                   = Passing!After(all \o piece, Begins(all \o piece, size))
              /\ Passing!After(window, Begins(window, size)) \in Seq(Passing!Signs)
              /\ Len(Passing!After(window, Begins(window, size))) <= size
<1> DEFINE n == Begins(all, size)
           string == all \o piece
           window == Passing!After(all, n) \o piece
           m == Begins(window, size)
<1>1. Len(all) \in Nat /\ Len(piece) \in Nat
  BY LenProperties
<1>2. n = IF Len(all) - size >= 0 THEN Len(all) - size ELSE 0
  BY <1>1, MaxIs DEF Begins
<1>3. n \in 0..Len(all)
  BY <1>1, <1>2
<1>4. window = Passing!After(string, n)
  BY <1>3, AfterJoined
<1>5. string \in Seq(Passing!Signs) /\ Len(string) = Len(all) + Len(piece)
  BY ConcatProperties
<1>6. n \in 0..Len(string)
  BY <1>1, <1>3, <1>5
<1>7. window \in Seq(Passing!Signs) /\ Len(window) = Len(string) - n
  BY <1>4, <1>5, <1>6, AfterIs
<1>8. m = IF Len(window) - size >= 0 THEN Len(window) - size ELSE 0
  BY <1>7, LenProperties, MaxIs DEF Begins
<1>9. Begins(string, size) = IF Len(string) - size >= 0 THEN Len(string) - size ELSE 0
  BY <1>5, LenProperties, MaxIs DEF Begins
<1> HIDE DEF n, m, string, window
<1>10. m \in 0..(Len(string) - n) /\ Begins(string, size) = n + m
       /\ Len(string) - (n + m) <= size
  <2>1. CASE Len(all) >= size
    <3>1. n = Len(all) - size
      BY <1>1, <1>2, <2>1
    <3>2. Len(window) = size + Len(piece) /\ Len(string) - size >= 0
      BY <1>1, <1>5, <1>7, <2>1, <3>1
    <3>3. m = Len(piece) /\ Begins(string, size) = Len(string) - size
      BY <1>1, <1>8, <1>9, <3>2
    <3> QED BY <1>1, <1>5, <3>1, <3>3
  <2>2. CASE Len(all) < size
    <3>0. n = 0
      BY <1>1, <1>2, <2>2
    <3>1. Len(window) = Len(string) /\ Len(string) \in Nat
      BY <1>1, <1>5, <1>7, <3>0
    <3>2. m = Begins(string, size)
      BY <1>8, <1>9, <3>1
    <3> QED BY <1>9, <3>0, <3>1, <3>2
  <2> QED BY <1>1, <2>1, <2>2
<1>11. Passing!After(window, m) = Passing!After(string, n + m)
  BY <1>4, <1>5, <1>6, <1>10, AfterAfter
<1>12. n + m \in 0..Len(string)
  BY <1>1, <1>3, <1>5, <1>10
<1>13. Passing!After(string, n + m) \in Seq(Passing!Signs)
       /\ Len(Passing!After(string, n + m)) = Len(string) - (n + m)
  BY <1>5, <1>12, AfterIs
<1> QED BY <1>10, <1>11, <1>13 DEF n, m, string, window

\* What is known of a keyword: it begins with a word and ends with its only colon.
IsKeyword(word) ==
    /\ word \in Seq(Passing!Signs) /\ Len(word) \in 2..4
    /\ word[1] \in {"F", "I"} /\ \A j \in 2..Len(word) : word[j] \notin {"F", "I", "x"}
    /\ \A j \in 1..Len(word) : word[j] = ":" => j = Len(word)

(* The keywords.                                                             *)
LEMMA KeywordsAre ==
    /\ \A k \in DOMAIN Passing!Standard : IsKeyword(Passing!Standard[k])
    /\ \A keywords \in {Passing!Standard, <<Passing!AI>>, <<Passing!Answer>>} :
        \A k \in DOMAIN keywords :
          k \in Nat /\ IsKeyword(keywords[k])
              /\ \E j \in DOMAIN Passing!Standard : keywords[k] = Passing!Standard[j]
    /\ \A keywords \in {Passing!Standard, <<Passing!AI>>} :
          /\ DOMAIN keywords \subseteq 1..3
          /\ Passing!Max({Len(keywords[k]) : k \in DOMAIN keywords}) \in 2..4
          /\ \A k \in DOMAIN keywords : 
                Len(keywords[k]) <= Passing!Max({Len(keywords[i]) : i \in DOMAIN keywords})
<1>1. IsKeyword(Passing!Answer) /\ Len(Passing!Answer) = 4
  BY DEF IsKeyword, Passing!Answer, Passing!Signs
<1>2. IsKeyword(Passing!AI) /\ Len(Passing!AI) = 2
  BY DEF IsKeyword, Passing!AI, Passing!Signs
<1>3. IsKeyword(<<"F", ":">>) /\ Len(<<"F", ":">>) = 2
  BY DEF IsKeyword, Passing!Signs
<1>4. /\ DOMAIN Passing!Standard = {1, 2, 3} /\ Passing!Standard[1] = Passing!Answer
      /\ Passing!Standard[2] = <<"F", ":">>
      /\ Passing!Standard[3] = Passing!AI
  BY DEF Passing!Standard
<1>5. /\ DOMAIN <<Passing!AI>> = {1} /\ <<Passing!AI>>[1] = Passing!AI
      /\ DOMAIN <<Passing!Answer>> = {1} /\ <<Passing!Answer>>[1] = Passing!Answer
  OBVIOUS
<1>6. \A k \in DOMAIN Passing!Standard : IsKeyword(Passing!Standard[k])
  BY <1>1, <1>2, <1>3, <1>4
<1>7. \A keywords \in {Passing!Standard, <<Passing!AI>>, <<Passing!Answer>>} :
        \A k \in DOMAIN keywords :
         k \in Nat /\ IsKeyword(keywords[k])
             /\ \E j \in DOMAIN Passing!Standard : keywords[k] = Passing!Standard[j]
  <2>1. \A k \in DOMAIN Passing!Standard : k \in Nat
    BY <1>4
  <2>2. \A k \in DOMAIN <<Passing!AI>> : k \in Nat /\ IsKeyword(<<Passing!AI>>[k])
        /\ <<Passing!AI>>[k] = Passing!Standard[3]
    BY <1>2, <1>4, <1>5
  <2>3. \A k \in DOMAIN <<Passing!Answer>> :
           k \in Nat /\ IsKeyword(<<Passing!Answer>>[k])
               /\ <<Passing!Answer>>[k] = Passing!Standard[1]
    BY <1>1, <1>4, <1>5
  <2>4. 1 \in DOMAIN Passing!Standard /\ 3 \in DOMAIN Passing!Standard
    BY <1>4
  <2> QED BY <1>6, <2>1, <2>2, <2>3, <2>4
<1>8. /\ DOMAIN Passing!Standard \subseteq 1..3 /\ DOMAIN <<Passing!AI>> \subseteq 1..3
  BY <1>4, <1>5
<1>9. Passing!Max({Len(Passing!Standard[k]) : k \in DOMAIN Passing!Standard}) = 4
  <2> DEFINE S == {Len(Passing!Standard[k]) : k \in DOMAIN Passing!Standard}
  <2>1. 4 \in S /\ \A n \in S : n \in {2, 4}
    BY <1>1, <1>2, <1>3, <1>4
  <2> HIDE DEF S
  <2>2. \A x \in S : (\A y \in S : x >= y) <=> x = 4
    BY <2>1
  <2>3. Passing!Max(S) = CHOOSE x \in S : \A y \in S : x >= y
    BY DEF Passing!Max
  <2>4. Passing!Max(S) = 4
    BY <2>1, <2>2, <2>3
  <2> QED BY <2>4 DEF S
<1>10. Passing!Max({Len(<<Passing!AI>>[k]) : k \in DOMAIN <<Passing!AI>>}) = 2
  <2> DEFINE S == {Len(<<Passing!AI>>[k]) : k \in DOMAIN <<Passing!AI>>}
  <2>1. 2 \in S /\ \A n \in S : n = 2
    BY <1>2, <1>5
  <2> HIDE DEF S
  <2>2. Passing!Max(S) = CHOOSE x \in S : \A y \in S : x >= y
    BY DEF Passing!Max
  <2>3. Passing!Max(S) = 2
    BY <2>1, <2>2
  <2> QED BY <2>3 DEF S
<1>11. \A k \in DOMAIN Passing!Standard : Len(Passing!Standard[k]) <= 4
  BY <1>6 DEF IsKeyword
<1>12. \A k \in DOMAIN <<Passing!AI>> : Len(<<Passing!AI>>[k]) <= 2
  <2> SUFFICES ASSUME NEW k \in DOMAIN <<Passing!AI>> PROVE Len(<<Passing!AI>>[k]) <= 2
    OBVIOUS
  <2>1. Len(<<Passing!AI>>[k]) = 2
    BY <1>2, <1>5
  <2> QED BY <2>1
<1>13. ASSUME NEW keywords \in {Passing!Standard, <<Passing!AI>>}
       PROVE  /\ DOMAIN keywords \subseteq 1..3
              /\ Passing!Max({Len(keywords[k]) : k \in DOMAIN keywords}) \in 2..4
              /\ \A k \in DOMAIN keywords :
                    Len(keywords[k]) <= Passing!Max({Len(keywords[i]) : i \in DOMAIN keywords})
  <2> DEFINE longest == Passing!Max({Len(keywords[k]) : k \in DOMAIN keywords})
  <2>1. CASE keywords = Passing!Standard
    <3>1. longest = 4
      BY <1>9, <2>1
    <3> HIDE DEF longest
    <3>2. \A k \in DOMAIN keywords : Len(keywords[k]) <= longest
      BY <1>11, <2>1, <3>1
    <3> QED BY <1>8, <2>1, <3>1, <3>2 DEF longest
  <2>2. CASE keywords = <<Passing!AI>>
    <3>1. longest = 2
      BY <1>10, <2>2
    <3> HIDE DEF longest
    <3>2. \A k \in DOMAIN keywords : Len(keywords[k]) <= longest
      BY <1>12, <2>2, <3>1
    <3> QED BY <1>8, <2>2, <3>1, <3>2 DEF longest
  <2> QED BY <2>1, <2>2
<1> QED BY <1>6, <1>7, <1>13

(* The chunks: one with a word of a keyword in it begins with a word, and what *)
(* is left of one without its blanks begins with a colon only if there were    *)
(* no blanks.                                                                  *)
LEMMA ChunksAre ==
    ASSUME NEW c \in Passing!Chunks
    PROVE  /\ c \in Seq(Passing!Signs) /\ Len(c) \in 1..7
           /\ (\E j \in 1..Len(c) : c[j] \in {"F", "I"}) => c[1] \in {"F", "I", "x"}
           /\ \A n : Leads(c, n) => n < Len(c) /\ n \in {0, 1}
           /\ c[1] = "-" => Len(c) >= 2 /\ c[2] \notin {"-", ":"}
<1> USE DEF Passing!Signs, Leads
<1>1. CASE c = Passing!Answer
  BY <1>1 DEF Passing!Answer
<1>2. CASE c = <<"F">>
  BY <1>2
<1>3. CASE c = <<"-", "A">>
  BY <1>3
<1>4. CASE c = <<"-", "A", ":", "x">>
  BY <1>4
<1>5. CASE c = <<":", "-", "x">>
  BY <1>5
<1>6. CASE c = <<"x">>
  BY <1>6
<1>7. CASE c = <<"-", "x">>
  BY <1>7
<1>8. CASE c = <<"I", ":", "x">>
  BY <1>8
<1>9. CASE c = <<"x", "F", ":">>
  BY <1>9
<1>10. CASE c = <<"x", "F", "-", "A", ":", "-", "x">>
  BY <1>10
<1>11. CASE c = <<"F", ":", "x", "I", ":", "x">>
  BY <1>11
<1> QED BY <1>1, <1>2, <1>3, <1>4, <1>5, <1>6, <1>7, <1>8, <1>9, <1>10,
    <1>11 DEF Passing!Chunks

\* f adds up the first n lists.
AddsUp(f, seqs, n) ==
    \A i \in 1..n : f[i] = IF i = 1 THEN seqs[i] ELSE f[i - 1] \o seqs[i]

(* There is one way to add up lists.                                         *)
LEMMA SumsAgree ==
    ASSUME NEW seqs, NEW n \in Nat, NEW f, NEW g, AddsUp(f, seqs, n), AddsUp(g, seqs, n)
    PROVE  \A i \in 1..n : f[i] = g[i]
<1> DEFINE bad == {i \in 1..n : f[i] # g[i]}
<1>1. SUFFICES ASSUME bad # {} PROVE FALSE
  OBVIOUS
<1>2. bad \subseteq Nat
  OBVIOUS
<1>3. Passing!Min(bad) \in bad /\ \A y \in bad : Passing!Min(bad) <= y
  <2> HIDE DEF bad
  <2> QED BY <1>1, <1>2, MinIs
<1> DEFINE m == Passing!Min(bad)
<1>4. m \in 1..n /\ f[m] # g[m] /\ \A y \in 1..n : y < m => f[y] = g[y]
  <2>1. m \in 1..n /\ f[m] # g[m]
    BY <1>3
  <2>2. \A y \in 1..n : f[y] # g[y] => m <= y
    BY <1>3
  <2> HIDE DEF m
  <2> QED BY <2>1, <2>2
<1> HIDE DEF m, bad
<1>5. m = 1 \/ (m - 1 \in 1..n /\ m - 1 < m)
  BY <1>4
<1>6. f[m] = (IF m = 1 THEN seqs[m] ELSE f[m - 1] \o seqs[m])
  BY <1>4 DEF AddsUp
<1>7. g[m] = (IF m = 1 THEN seqs[m] ELSE g[m - 1] \o seqs[m])
  BY <1>4 DEF AddsUp
<1> QED BY <1>4, <1>5, <1>6, <1>7

\* What the first chunks of a list say.
Said(list, n) == Passing!FlattenSeq(SubSeq(list, 1, n))

(* What is said grows by one chunk after the other.                          *)
LEMMA SaidIs ==
    ASSUME NEW list \in Seq(Passing!Chunks)
    PROVE  /\ Said(list, 0) = <<>>
           /\ \A n \in 0..Len(list) : Said(list, n) \in Seq(Passing!Signs)
           /\ \A n \in 1..Len(list) : Said(list, n) = Said(list, n - 1) \o list[n]
<1>1. /\ Len(list) \in Nat /\ \A c \in Passing!Chunks : c \in Seq(Passing!Signs)
      /\ list \in Seq(Seq(Passing!Signs))
      /\ \A i \in 1..Len(list) : list[i] \in Seq(Passing!Signs)
  <2>1. \A c \in Passing!Chunks : c \in Seq(Passing!Signs)
    BY ChunksAre
  <2> QED BY <2>1, LenProperties, ElementOfSeq, SeqMonotonic
<1>2. ASSUME NEW n \in 0..Len(list)
      PROVE  /\ SubSeq(list, 1, n) \in Seq(Seq(Passing!Signs)) /\ Len(SubSeq(list, 1, n)) = n
             /\ \A i \in 1..n : SubSeq(list, 1, n)[i] = list[i]
  <2>1. n \in (1 - 1)..Len(list) /\ 1 \in 1..(Len(list) + 1) /\ n - 1 + 1 = n /\ n \in Nat
    BY <1>1
  <2>2. \A i \in 1..n : 1 + i - 1 = i
    BY <2>1
  <2> QED BY <1>1, <2>1, <2>2, SubSeqProperties
<1>3. Said(list, 0) = <<>>
  <2>1. 0 \in 0..Len(list)
    BY <1>1
  <2>2. SubSeq(list, 1, 0) \in Seq(Seq(Passing!Signs)) /\ Len(SubSeq(list, 1, 0)) = 0
    BY <1>2, <2>1
  <2>3. SubSeq(list, 1, 0) = <<>>
    BY <2>2, EmptySeq
  <2>4. Passing!FlattenSeq(SubSeq(list, 1, 0)) = <<>>
    BY <2>2, <2>3, FlatIs
  <2> QED BY <2>4 DEF Said
<1>4. ASSUME NEW n \in 1..Len(list) PROVE Said(list, n) = Flat(list)[n]
  <2> DEFINE s == SubSeq(list, 1, n)
  <2>1. /\ s \in Seq(Seq(Passing!Signs)) /\ Len(s) = n /\ \A i \in 1..n : s[i] = list[i]
    BY <1>1, <1>2
  <2>2. s # <<>> /\ n \in Nat
    <3>1. n \in Nat /\ n # 0 /\ Len(<<>>) = 0
      BY <1>1
    <3> QED BY <2>1, <3>1
  <2> HIDE DEF s
  <2>3. Passing!FlattenSeq(s) = Flat(s)[n]
    BY <2>1, <2>2, FlatIs
  <2>4. \A i \in 1..n : Flat(s)[i] = IF i = 1 THEN list[i] ELSE Flat(s)[i - 1] \o list[i]
    <3>1. \A i \in 1..n : Flat(s)[i] = IF i = 1 THEN s[i] ELSE Flat(s)[i - 1] \o s[i]
      BY <2>1, FlatIs
    <3> QED BY <2>1, <3>1
  <2>5. \A i \in 1..n : Flat(list)[i] = IF i = 1 THEN list[i] ELSE Flat(list)[i - 1] \o list[i]
    <3>1. \A i \in 1..Len(list) :
              Flat(list)[i] = IF i = 1 THEN list[i] ELSE Flat(list)[i - 1] \o list[i]
      BY <1>1, FlatIs
    <3>2. \A i \in 1..n : i \in 1..Len(list)
      BY <1>1
    <3> QED BY <3>1, <3>2
  <2>6. \A i \in 1..n : Flat(s)[i] = Flat(list)[i]
    <3>1. AddsUp(Flat(s), list, n) /\ AddsUp(Flat(list), list, n)
      BY <2>4, <2>5 DEF AddsUp
    <3> QED BY <2>2, <3>1, SumsAgree
  <2>7. n \in 1..n
    BY <1>1
  <2> QED BY <2>3, <2>6, <2>7 DEF Said, s
<1>5. \A n \in 0..Len(list) : Said(list, n) \in Seq(Passing!Signs)
  <2>1. \A n \in 1..Len(list) : Flat(list)[n] \in Seq(Passing!Signs)
    BY <1>1, FlatElements
  <2>2. <<>> \in Seq(Passing!Signs)
    BY EmptySeq
  <2> TAKE n \in 0..Len(list)
  <2>3. n = 0 \/ n \in 1..Len(list)
    BY <1>1
  <2> QED BY <1>3, <1>4, <2>1, <2>2, <2>3
<1>6. ASSUME NEW n \in 1..Len(list) PROVE Said(list, n) = Said(list, n - 1) \o list[n]
  <2>1. Flat(list)[n] = IF n = 1 THEN list[n] ELSE Flat(list)[n - 1] \o list[n]
    BY <1>1, FlatIs
  <2>2. CASE n = 1
    <3>1. <<>> \o list[n] = list[n]
      BY <1>1, ConcatEmptySeq
    <3>2. n - 1 = 0
      BY <2>2
    <3> QED BY <1>3, <1>4, <2>1, <2>2, <3>1, <3>2
  <2>3. CASE n # 1
    <3>1. n - 1 \in 1..Len(list)
      BY <1>1, <2>3
    <3>2. Said(list, n - 1) = Flat(list)[n - 1] /\ Said(list, n) = Flat(list)[n]
      BY <1>4, <3>1
    <3> QED BY <2>1, <2>3, <3>2
  <2> QED BY <2>2, <2>3
<1> QED BY <1>3, <1>5, <1>6

(* The end of two texts is the second.                                       *)
LEMMA AfterFirst ==
    ASSUME NEW x \in Seq(Passing!Signs), NEW r \in Seq(Passing!Signs)
    PROVE  Passing!After(x \o r, Len(x)) = r /\ Passing!After(x, 0) = x
<1>1. Len(x) \in Nat /\ Len(x) \in 0..Len(x) /\ 0 \in 0..Len(x) /\ Len(<<>>) = 0
  BY LenProperties
<1>2. Passing!After(x, Len(x)) \in Seq(Passing!Signs)
      /\ Len(Passing!After(x, Len(x))) = Len(x) - Len(x)
  BY <1>1, AfterIs
<1>3. Passing!After(x, Len(x)) = <<>>
  BY <1>1, <1>2, EmptySeq
<1>4. Passing!After(x \o r, Len(x)) = Passing!After(x, Len(x)) \o r
  BY <1>1, AfterJoined
<1>5. <<>> \o r = r
  BY ConcatEmptySeq
<1>6. /\ Passing!After(x, 0) \in Seq(Passing!Signs) /\ Len(Passing!After(x, 0)) = Len(x) - 0
      /\ \A j \in 1..(Len(x) - 0) : Passing!After(x, 0)[j] = x[0 + j]
  BY <1>1, AfterIs
<1>7. Len(Passing!After(x, 0)) = Len(x) /\ \A j \in 1..Len(x) : Passing!After(x, 0)[j] = x[j]
  BY <1>1, <1>6
<1>8. Passing!After(x, 0) = x
  BY <1>6, <1>7, Same
<1> QED BY <1>3, <1>4, <1>5, <1>8

(* A keyword that was not said before is in what is said now, or begins      *)
(* before it and goes on in it.                                              *)
LEMMA Straddles ==
    ASSUME NEW p \in Seq(Passing!Signs), NEW x \in Seq(Passing!Signs), Len(x) >= 1,
           NEW word, IsKeyword(word), Passing!Index(p, word) = 0, NEW i, Here(p \o x, word, i)
    PROVE  \/ i > Len(p) /\ Here(x, word, i - Len(p))
           \/ /\ i <= Len(p) /\ Len(p) + 2 - i \in 2..Len(word)
              /\ word[Len(p) + 2 - i] = x[1]
<1>1. /\ Len(p) \in Nat /\ Len(x) \in Nat /\ word \in Seq(Passing!Signs) /\ Len(word) \in Nat
      /\ Len(word) >= 1 /\ i \in Nat /\ i >= 1 /\ i + Len(word) - 1 <= Len(p \o x)
  BY LenProperties DEF Here, IsKeyword
<1>2. /\ p \o x \in Seq(Passing!Signs) /\ Len(p \o x) = Len(p) + Len(x)
      /\ \A j \in 1..(Len(p) + Len(x)) :
            (p \o x)[j] = IF j <= Len(p) THEN p[j] ELSE x[j - Len(p)]
  BY ConcatProperties
<1>3. CASE i > Len(p)
  <2>1. i - Len(p) \in Nat /\ i - Len(p) >= 1 /\ Len(p) + (i - Len(p)) = i
    BY <1>1, <1>3
  <2>2. Len(p) \in 0..Len(p \o x)
    BY <1>1, <1>2
  <2>3. Here(Passing!After(p \o x, Len(p)), word, i - Len(p))
        <=> Here(p \o x, word, Len(p) + (i - Len(p)))
    BY <1>1, <1>2, <2>1, <2>2, InTheEnd
  <2>4. Here(x, word, i - Len(p))
    BY <2>1, <2>3, AfterFirst
  <2> QED BY <1>3, <2>4
<1>4. CASE i <= Len(p)
  <2>1. ~Here(p, word, i)
    BY <1>1, IndexIs
  <2>2. ~(i + Len(word) - 1 <= Len(p))
    BY <1>1, <2>1, StillThere
  <2> DEFINE j == Len(p) + 2 - i
  <2>3. j \in 2..Len(word) /\ j \in 1..Len(word) /\ i + j - 1 = Len(p) + 1
    BY <1>1, <1>4, <2>2
  <2>4. (p \o x)[Len(p) + 1] = x[1]
    <3>1. Len(p) + 1 \in 1..(Len(p) + Len(x)) /\ ~(Len(p) + 1 <= Len(p))
          /\ Len(p) + 1 - Len(p) = 1
      BY <1>1
    <3> QED BY <1>2, <3>1
  <2> HIDE DEF j
  <2>5. (p \o x)[i + j - 1] = word[j]
    BY <2>3 DEF Here
  <2>6. word[j] = x[1]
    BY <2>3, <2>4, <2>5
  <2> QED BY <1>4, <2>3, <2>6 DEF j
<1> QED BY <1>1, <1>3, <1>4

(* Where the first place of a part in a text is known, so is Index.          *)
LEMMA FirstPlace ==
    ASSUME NEW string \in Seq(Passing!Signs), NEW word \in Seq(Passing!Signs), Len(word) >= 1,
           NEW n \in Nat, Here(string, word, n), \A i \in Nat : Here(string, word, i) => n <= i
    PROVE  Passing!Index(string, word) = n
<1>1. Passing!Index(string, word) # 0 /\ Passing!Index(string, word) <= n
      /\ Passing!Index(string, word) \in Nat
  BY IndexIs
<1>2. Here(string, word, Passing!Index(string, word))
  BY <1>1, IndexIs
<1>3. n <= Passing!Index(string, word)
  BY <1>1, <1>2
<1> QED BY <1>1, <1>3

\* What is still wanted of the promise, for a chunk that completes a keyword.
Whole(p, c, rest, word) ==
    Passing!TrimLeft(Passing!filterFinalString(c, word) \o rest) =
        Passing!TrimLeft(Passing!After((p \o c) \o rest,
        Passing!Index((p \o c) \o rest, word) + Len(word) - 1))

(* The keyword is whole in the chunk.                                        *)
LEMMA WholeKeyword ==
    ASSUME NEW p \in Seq(Passing!Signs), NEW rest \in Seq(Passing!Signs),
           NEW c \in Passing!Chunks, NEW word,
           IsKeyword(word), Passing!Index(p, word) = 0,
           Passing!Index(Passing!TrimLeft(c), word) # 0
    PROVE  Whole(p, c, rest, word)
<1>1. /\ c \in Seq(Passing!Signs) /\ word \in Seq(Passing!Signs) /\ Len(c) \in Nat
      /\ Len(word) \in Nat
      /\ Len(p) \in Nat /\ Len(rest) \in Nat /\ Len(c) >= 1 /\ Len(word) >= 1
  BY ChunksAre, LenProperties DEF IsKeyword
<1>2. PICK n : Leads(c, n)
  BY <1>1, TrimIs
<1>3. Passing!TrimLeft(c) = Passing!After(c, n) /\ n \in 0..Len(c)
  BY <1>1, <1>2, TrimIs DEF Leads
<1>4. Passing!After(c, n) \in Seq(Passing!Signs)
  BY <1>1, <1>3, AfterIs
<1> DEFINE k == Passing!Index(Passing!TrimLeft(c), word)
<1>5. k \in Nat /\ Here(Passing!After(c, n), word, k)
  BY <1>1, <1>3, <1>4, IndexIs
<1> HIDE DEF k
<1>6. k >= 1 /\ Here(c, word, n + k)
  <2>1. k >= 1
    BY <1>5 DEF Here
  <2> QED BY <1>1, <1>3, <1>5, <2>1, InTheEnd
<1>7. c[1] \in {"F", "I", "x"}
  <2>1. n + k \in 1..Len(c)
    BY <1>1, <1>3, <1>5, <1>6 DEF Here
  <2>2. 1 \in 1..Len(word) /\ n + k + 1 - 1 = n + k
    BY <1>1, <1>3, <1>5
  <2>3. c[n + k + 1 - 1] = word[1]
    BY <1>6, <2>2 DEF Here
  <2>4. c[n + k] \in {"F", "I"}
    BY <2>2, <2>3 DEF IsKeyword
  <2> QED BY <2>1, <2>4, ChunksAre
<1>8. n = 0
  <2>1. n # 0 => 1 \in 1..n
    BY <1>3
  <2>2. n # 0 => c[1] = "-"
    BY <1>2, <2>1 DEF Leads
  <2> QED BY <1>7, <2>2
<1>9. Passing!TrimLeft(c) = c /\ k = Passing!Index(c, word) /\ Here(c, word, k)
  <2>1. Passing!TrimLeft(c) = c
    BY <1>1, <1>3, <1>8, AfterFirst
  <2> QED BY <1>5, <1>6, <1>8, <2>1 DEF k
<1> DEFINE x == c \o rest
           all == (p \o c) \o rest
<1>10. /\ x \in Seq(Passing!Signs) /\ Len(x) = Len(c) + Len(rest) /\ x[1] = c[1]
  <2>1. /\ x \in Seq(Passing!Signs) /\ Len(x) = Len(c) + Len(rest)
        /\ \A j \in 1..(Len(c) + Len(rest)) :
              x[j] = IF j <= Len(c) THEN c[j] ELSE rest[j - Len(c)]
    BY <1>1, ConcatProperties
  <2>2. 1 \in 1..(Len(c) + Len(rest)) /\ 1 <= Len(c)
    BY <1>1
  <2> QED BY <2>1, <2>2
<1>11. all = p \o x /\ all \in Seq(Passing!Signs) /\ Len(all) = Len(p) + Len(x)
  <2>1. (p \o c) \o rest = p \o (c \o rest)
    <3>1. p \in Seq(Passing!Signs) /\ c \in Seq(Passing!Signs) /\ rest \in Seq(Passing!Signs)
      BY <1>1
    <3> QED BY <3>1, ConcatAssociative
  <2> QED BY <1>10, <2>1, ConcatProperties
<1>12. Here(x, word, k) /\ \A i : Here(x, word, i) => k <= i
  <2>1. Here(x, word, k)
    BY <1>1, <1>9, StillThere
  <2>2. ASSUME NEW i, Here(x, word, i) PROVE k <= i
    <3>1. i \in Nat /\ k + Len(word) - 1 <= Len(c)
      BY <1>9, <2>2 DEF Here
    <3>2. CASE i + Len(word) - 1 <= Len(c)
      <4>1. Here(c, word, i)
        BY <1>1, <2>2, <3>2, StillThere
      <4> QED BY <1>1, <1>9, <4>1, IndexIs
    <3>3. CASE ~(i + Len(word) - 1 <= Len(c))
      BY <1>1, <1>5, <3>1, <3>3
    <3> QED BY <3>2, <3>3
  <2> QED BY <2>1, <2>2
<1>13. Passing!Index(all, word) = Len(p) + k
  <2> HIDE DEF x, all
  <2>1. Here(all, word, Len(p) + k)
    <3>1. Len(p) \in 0..Len(all) /\ Passing!After(all, Len(p)) = x
      BY <1>1, <1>10, <1>11, AfterFirst
    <3> QED BY <1>1, <1>5, <1>6, <1>11, <1>12, <3>1, InTheEnd
  <2>2. ASSUME NEW i \in Nat, Here(all, word, i) PROVE Len(p) + k <= i
    <3>1. Len(x) >= 1
      BY <1>1, <1>10
    <3>2. \/ i > Len(p) /\ Here(x, word, i - Len(p))
          \/ i <= Len(p) /\ Len(p) + 2 - i \in 2..Len(word) /\ word[Len(p) + 2 - i] = x[1]
      BY <1>10, <1>11, <2>2, <3>1, Straddles
    <3>3. CASE i > Len(p) /\ Here(x, word, i - Len(p))
      <4>1. k <= i - Len(p)
        BY <1>12, <3>3
      <4> QED BY <1>1, <1>5, <4>1
    <3>4. CASE i <= Len(p) /\ Len(p) + 2 - i \in 2..Len(word) /\ word[Len(p) + 2 - i] = x[1]
      BY <1>7, <1>10, <3>4 DEF IsKeyword
    <3> QED BY <3>2, <3>3, <3>4
  <2>3. Len(p) + k \in Nat
    BY <1>1, <1>5
  <2> QED BY <1>1, <1>11, <2>1, <2>2, <2>3, FirstPlace
<1> DEFINE d == k + Len(word) - 1
<1>14. d \in 0..Len(c) /\ d \in 0..(Len(all) - Len(p))
       /\ Len(p) + k + Len(word) - 1 = Len(p) + d
       /\ Len(p) \in 0..Len(all)
  <2> HIDE DEF all, x
  <2>1. k + Len(word) - 1 <= Len(c)
    BY <1>9 DEF Here
  <2> QED BY <1>1, <1>5, <1>10, <1>11, <2>1
<1>15. Passing!After(all, Len(p) + d) = Passing!After(c, d) \o rest
  <2>1. Passing!After(all, Len(p) + d) = Passing!After(Passing!After(all, Len(p)), d)
    <3> HIDE DEF all, d
    <3> QED BY <1>11, <1>14, AfterAfter
  <2>2. Passing!After(all, Len(p)) = x
    <3> HIDE DEF all, x
    <3> QED BY <1>10, <1>11, AfterFirst
  <2>3. Passing!After(x, d) = Passing!After(c, d) \o rest
    <3> HIDE DEF d
    <3> QED BY <1>1, <1>14, AfterJoined
  <2> QED BY <2>1, <2>2, <2>3
<1>16. Passing!filterFinalString(c, word) = Passing!TrimLeft(Passing!After(c, d))
  BY <1>9, <1>6 DEF Passing!filterFinalString, k
<1>17. Passing!After(c, d) \in Seq(Passing!Signs)
  <2> HIDE DEF d
  <2> QED BY <1>1, <1>14, AfterIs
<1>18. Passing!TrimLeft(Passing!TrimLeft(Passing!After(c, d)) \o rest)
       = Passing!TrimLeft(Passing!After(c, d) \o rest)
  BY <1>17, TrimJoined
<1> QED BY <1>13, <1>14, <1>15, <1>16, <1>18 DEF Whole

HasColon(string) == Passing!At(string, <<":">>, 1)

(* The keyword lacks its colon, with which the chunk begins.                 *)
LEMMA OnlyColon ==
    ASSUME NEW p \in Seq(Passing!Signs), NEW rest \in Seq(Passing!Signs),
           NEW c \in Passing!Chunks, NEW word,
           IsKeyword(word), Passing!Index(p, word) = 0, Passing!Index(p \o c, word) # 0,
           Passing!Index(Passing!TrimLeft(c), word) = 0, HasColon(Passing!TrimLeft(c))
    PROVE  Whole(p, c, rest, word)
<1>1. /\ c \in Seq(Passing!Signs) /\ word \in Seq(Passing!Signs) /\ Len(c) \in Nat
      /\ Len(word) \in Nat
      /\ Len(p) \in Nat /\ Len(rest) \in Nat /\ Len(c) >= 1 /\ Len(word) >= 1
      /\ Len(word) >= 2
  <2>1. word \in Seq(Passing!Signs) /\ Len(word) \in 2..4
    BY DEF IsKeyword
  <2>2. c \in Seq(Passing!Signs) /\ Len(c) \in 1..7
    BY ChunksAre
  <2>3. Len(c) \in Nat /\ Len(word) \in Nat /\ Len(p) \in Nat /\ Len(rest) \in Nat
    BY <2>1, <2>2, LenProperties
  <2>4. \A n : n \in 1..7 => n >= 1
    OBVIOUS
  <2>5. \A n : n \in 2..4 => n >= 1 /\ n >= 2
    OBVIOUS
  <2> QED BY <2>1, <2>2, <2>3, <2>4, <2>5, Zenon
<1>2. PICK n : Leads(c, n)
  BY <1>1, TrimIs
<1>3. Passing!TrimLeft(c) = Passing!After(c, n) /\ n \in 0..Len(c) /\ n < Len(c)
      /\ n \in {0, 1}
  BY <1>1, <1>2, TrimIs, ChunksAre DEF Leads
<1>4. /\ Passing!After(c, n) \in Seq(Passing!Signs) /\ Len(Passing!After(c, n)) = Len(c) - n
      /\ \A j \in 1..(Len(c) - n) : Passing!After(c, n)[j] = c[n + j]
  BY <1>1, <1>3, AfterIs
<1>5. c[n + 1] = ":"
  <2> DEFINE colon == <<":">>
  <2>1. colon \in Seq(Passing!Signs) /\ Len(colon) = 1 /\ colon[1] = ":"
    BY DEF Passing!Signs
  <2> HIDE DEF colon
  <2>2. 1 \in 1..(Len(Passing!After(c, n)) - Len(colon) + 1) /\ 1 \in 1..Len(colon)
        /\ 1 + 1 - 1 = 1
    BY <1>1, <1>3, <1>4, <2>1
  <2>3. Passing!At(Passing!After(c, n), colon, 1)
    BY <1>3 DEF colon, HasColon
  <2>4. Here(Passing!After(c, n), colon, 1)
    <3>1. Len(colon) >= 1
      BY <2>1
    <3> QED BY <1>4, <2>1, <2>2, <2>3, <3>1, AtIs
  <2>5. Passing!After(c, n)[1] = ":"
    BY <2>1, <2>2, <2>4 DEF Here
  <2> QED BY <1>1, <1>3, <1>4, <2>5
<1>6. n = 0
  <2> SUFFICES ASSUME n = 1 PROVE FALSE
    BY <1>3
  <2>1. c[1] = "-"
    BY <1>2 DEF Leads
  <2> QED BY <1>5, <2>1, ChunksAre
<1>7. Passing!TrimLeft(c) = c /\ c[1] = ":"
  BY <1>1, <1>3, <1>5, <1>6, AfterFirst
<1>8. \A j \in 1..Len(c) : c[j] \notin {"F", "I"}
  BY <1>7, ChunksAre
<1> DEFINE x == c \o rest
           all == (p \o c) \o rest
           n1 == Len(p) + 2 - Len(word)
<1>9. /\ x \in Seq(Passing!Signs) /\ Len(x) = Len(c) + Len(rest) /\ x[1] = c[1]
  <2>1. /\ x \in Seq(Passing!Signs) /\ Len(x) = Len(c) + Len(rest)
        /\ \A j \in 1..(Len(c) + Len(rest)) :
              x[j] = IF j <= Len(c) THEN c[j] ELSE rest[j - Len(c)]
    BY <1>1, ConcatProperties
  <2>2. 1 \in 1..(Len(c) + Len(rest)) /\ 1 <= Len(c)
    BY <1>1
  <2> QED BY <2>1, <2>2
<1>10. all = p \o x /\ all \in Seq(Passing!Signs) /\ Len(all) = Len(p) + Len(x)
  <2>1. (p \o c) \o rest = p \o (c \o rest)
    <3>1. p \in Seq(Passing!Signs) /\ c \in Seq(Passing!Signs) /\ rest \in Seq(Passing!Signs)
      BY <1>1
    <3> QED BY <3>1, ConcatAssociative
  <2> QED BY <1>9, <2>1, ConcatProperties
<1>11. p \o c \in Seq(Passing!Signs)
  BY <1>1, ConcatProperties
<1>12. PICK i : Here(p \o c, word, i)
  BY <1>1, <1>11, IndexIs
<1>13. i = n1 /\ n1 \in Nat /\ n1 >= 1
  <2>1. \/ i > Len(p) /\ Here(c, word, i - Len(p))
        \/ i <= Len(p) /\ Len(p) + 2 - i \in 2..Len(word) /\ word[Len(p) + 2 - i] = c[1]
    BY <1>1, <1>12, Straddles
  <2>2. CASE i > Len(p) /\ Here(c, word, i - Len(p))
    <3>1. i - Len(p) \in 1..Len(c) /\ 1 \in 1..Len(word) /\ i - Len(p) + 1 - 1 = i - Len(p)
      BY <1>1, <1>12, <2>2 DEF Here
    <3>2. c[i - Len(p) + 1 - 1] = word[1]
      BY <2>2, <3>1 DEF Here
    <3>3. c[i - Len(p)] \in {"F", "I"}
      BY <3>1, <3>2 DEF IsKeyword
    <3> QED BY <1>8, <3>1, <3>3
  <2>3. CASE i <= Len(p) /\ Len(p) + 2 - i \in 2..Len(word) /\ word[Len(p) + 2 - i] = c[1]
    <3>1. Len(p) + 2 - i \in 1..Len(word) /\ word[Len(p) + 2 - i] = ":"
      BY <1>1, <1>7, <2>3
    <3>2. Len(p) + 2 - i = Len(word)
      BY <3>1 DEF IsKeyword
    <3>3. i \in Nat /\ i >= 1
      BY <1>12 DEF Here
    <3> QED BY <1>1, <3>2, <3>3
  <2> QED BY <2>1, <2>2, <2>3
<1>14. Passing!Index(all, word) = n1
  <2>1. Here(all, word, n1)
    BY <1>1, <1>11, <1>12, <1>13, StillThere
  <2>2. ASSUME NEW k \in Nat, Here(all, word, k) PROVE n1 <= k
    <3> HIDE DEF all, x
    <3>1. Len(x) >= 1
      BY <1>1, <1>9
    <3>2. \/ k > Len(p) /\ Here(x, word, k - Len(p))
          \/ k <= Len(p) /\ Len(p) + 2 - k \in 2..Len(word) /\ word[Len(p) + 2 - k] = x[1]
      <4>1. Here(p \o x, word, k)
        BY <1>10, <2>2
      <4> QED BY <1>9, <3>1, <4>1, Straddles
    <3>3. CASE k > Len(p) /\ Here(x, word, k - Len(p))
      BY <1>1, <3>3
    <3>4. CASE k <= Len(p) /\ Len(p) + 2 - k \in 2..Len(word) /\ word[Len(p) + 2 - k] = x[1]
      <4>1. Len(p) + 2 - k \in 1..Len(word) /\ word[Len(p) + 2 - k] = ":"
        BY <1>1, <1>7, <1>9, <3>4
      <4>2. Len(p) + 2 - k = Len(word)
        BY <4>1 DEF IsKeyword
      <4> QED BY <1>1, <4>2
    <3> QED BY <3>2, <3>3, <3>4
  <2> HIDE DEF all, n1
  <2> QED BY <1>1, <1>10, <1>13, <2>1, <2>2, FirstPlace
<1>15. n1 + Len(word) - 1 = Len(p) + 1 /\ Len(p) \in 0..Len(all)
       /\ 1 \in 0..(Len(all) - Len(p))
       /\ 1 \in 0..Len(c)
  <2> HIDE DEF all, x
  <2> QED BY <1>1, <1>9, <1>10
<1>16. Passing!After(all, Len(p) + 1) = Passing!After(c, 1) \o rest
  <2>1. Passing!After(all, Len(p) + 1) = Passing!After(Passing!After(all, Len(p)), 1)
    <3> HIDE DEF all
    <3> QED BY <1>10, <1>15, AfterAfter
  <2>2. Passing!After(all, Len(p)) = x
    <3> HIDE DEF all, x
    <3> QED BY <1>9, <1>10, AfterFirst
  <2>3. Passing!After(x, 1) = Passing!After(c, 1) \o rest
    BY <1>1, <1>15, AfterJoined
  <2> QED BY <2>1, <2>2, <2>3
<1>17. Passing!filterFinalString(c, word) = Passing!TrimLeft(Passing!After(c, 1))
  <2>1. Passing!Index(c, word) = 0 /\ Passing!At(c, <<":">>, 1)
    BY <1>7 DEF HasColon
  <2>2. c # <<>>
    BY <1>1
  <2>3. Tail(c) = Passing!After(c, 1)
    BY <1>1, <2>2, TailIsSubSeq DEF Passing!After
  <2> QED BY <1>7, <2>1, <2>2, <2>3 DEF Passing!filterFinalString
<1>18. Passing!After(c, 1) \in Seq(Passing!Signs)
  BY <1>1, <1>15, AfterIs
<1>19. Passing!TrimLeft(Passing!TrimLeft(Passing!After(c, 1)) \o rest)
       = Passing!TrimLeft(Passing!After(c, 1) \o rest)
  BY <1>18, TrimJoined
<1>20. Passing!Index(all, word) + Len(word) - 1 = Len(p) + 1
  BY <1>14, <1>15
<1> QED BY <1>16, <1>17, <1>19, <1>20 DEF Whole

(* FlattenSeq of no chunk and of one.                                        *)
LEMMA FlatShort ==
    Passing!FlattenSeq(<<>>) = <<>>
        /\ \A c \in Seq(Passing!Signs) : Passing!FlattenSeq(<<c>>) = c
<1>1. Passing!FlattenSeq(<<>>) = <<>>
  BY EmptySeq, FlatIs
<1>2. ASSUME NEW c \in Seq(Passing!Signs) PROVE Passing!FlattenSeq(<<c>>) = c
  <2> DEFINE one == <<c>>
  <2>1. one \in Seq(Seq(Passing!Signs)) /\ Len(one) = 1 /\ one[1] = c /\ one # <<>>
    OBVIOUS
  <2> HIDE DEF one
  <2>2. 1 \in 1..Len(one)
    BY <2>1
  <2>3. Passing!FlattenSeq(one) = Flat(one)[1] /\ Flat(one)[1] = one[1]
    BY <2>1, <2>2, FlatIs
  <2> QED BY <2>1, <2>3 DEF one
<1> QED BY <1>1, <1>2

(* What is passed on of a chunk is a text.                                   *)
LEMMA FilteredIs ==
    ASSUME NEW c \in Seq(Passing!Signs), NEW word, IsKeyword(word)
    PROVE  Passing!filterFinalString(c, word) \in Seq(Passing!Signs)
<1> DEFINE string == Passing!TrimLeft(c)
           index == Passing!Index(string, word)
           left == CASE index # 0 -> Passing!After(string, index + Len(word) - 1)
                     [] index = 0 /\ string # <<>>
                         /\ Passing!At(string, <<":">>, 1) -> Tail(string)
                     [] OTHER -> string
<1>1. Passing!filterFinalString(c, word) = Passing!TrimLeft(left)
  BY DEF Passing!filterFinalString
<1>2. string \in Seq(Passing!Signs)
  BY EmptySeq, TrimJoined
<1>3. word \in Seq(Passing!Signs) /\ Len(word) \in Nat /\ Len(string) \in Nat
  BY <1>2, LenProperties DEF IsKeyword
<1>4. Len(word) >= 1
  <2>1. Len(word) \in 2..4
    BY DEF IsKeyword
  <2>2. \A n : n \in 2..4 => n >= 1
    OBVIOUS
  <2> QED BY <2>1, <2>2, Zenon
<1> HIDE DEF string
<1>5. index # 0 => Passing!After(string, index + Len(word) - 1) \in Seq(Passing!Signs)
  <2> SUFFICES ASSUME index # 0 PROVE Passing!After(string,
                      index + Len(word) - 1) \in Seq(Passing!Signs)
    OBVIOUS
  <2>1. Here(string, word, index) /\ index \in Nat
    BY <1>2, <1>3, <1>4, IndexIs
  <2> HIDE DEF index
  <2>2. index + Len(word) - 1 \in 0..Len(string)
    BY <1>3, <1>4, <2>1 DEF Here
  <2> QED BY <1>2, <2>2, AfterIs
<1>6. string # <<>> => Tail(string) \in Seq(Passing!Signs)
  BY <1>2, HeadTailProperties
<1>7. left \in Seq(Passing!Signs)
  BY <1>2, <1>5, <1>6
<1> HIDE DEF left
<1> QED BY <1>1, <1>7, EmptySeq, TrimJoined

(* Of some numbers up to three there is a largest.                           *)
LEMMA MaxOf ==
    ASSUME NEW S, S \subseteq 1..3, S # {}
    PROVE  Passing!Max(S) \in S /\ \A y \in S : Passing!Max(S) >= y
<1>1. \E x \in S : \A y \in S : x >= y
  <2>1. CASE 3 \in S
    <3>1. \A y \in S : 3 >= y
      OBVIOUS
    <3> QED BY <2>1, <3>1
  <2>2. CASE 3 \notin S /\ 2 \in S
    <3>1. \A y \in S : 2 >= y
      BY <2>2
    <3> QED BY <2>2, <3>1
  <2>3. CASE 3 \notin S /\ 2 \notin S
    <3>1. \A y \in S : y = 1
      BY <2>3
    <3>2. PICK y \in S : TRUE
      OBVIOUS
    <3>3. 1 \in S
      BY <3>1, <3>2
    <3>4. \A z \in S : 1 >= z
      BY <3>1
    <3> QED BY <3>3, <3>4
  <2> QED BY <2>1, <2>2, <2>3
<1> QED BY <1>1 DEF Passing!Max

(* What was said, chunk by chunk.                                            *)
LEMMA SpokenIs ==
    ASSUME spoken \in Seq(Passing!Chunks)
    PROVE  /\ Len(spoken) \in Nat /\ Passing!Spoken(0) = <<>>
           /\ \A n \in 0..Len(spoken) : Passing!Spoken(n) \in Seq(Passing!Signs)
           /\ \A n \in 1..Len(spoken) : Passing!Spoken(n) = Passing!Spoken(n - 1) \o spoken[n]
<1>1. \A n : Passing!Spoken(n) = Said(spoken, n)
  BY DEF Passing!Spoken, Said
<1> QED BY <1>1, SaidIs, LenProperties

(* The next chunk leaves what was said as it is, and follows it.             *)
LEMMA SaidNext ==
    ASSUME NEW list \in Seq(Passing!Chunks), NEW piece \in Passing!Chunks
    PROVE  /\ Append(list, piece) \in Seq(Passing!Chunks)
           /\ Len(Append(list, piece)) = Len(list) + 1
           /\ Append(list, piece)[Len(list) + 1] = piece
           /\ \A n \in 1..Len(list) : Append(list, piece)[n] = list[n]
           /\ \A n \in 0..Len(list) : Said(Append(list, piece), n) = Said(list, n)
           /\ Said(Append(list, piece), Len(list) + 1) = Said(list, Len(list)) \o piece
<1> DEFINE more == Append(list, piece)
<1>1. /\ Len(list) \in Nat /\ more \in Seq(Passing!Chunks) /\ Len(more) = Len(list) + 1
      /\ \A n \in 1..Len(list) : more[n] = list[n]
      /\ more[Len(list) + 1] = piece
  BY AppendProperties, LenProperties
<1> HIDE DEF more
<1>2. ASSUME NEW n \in 0..Len(list) PROVE SubSeq(more, 1, n) = SubSeq(list, 1, n)
  <2>1. /\ n \in Nat /\ n \in 0..Len(list) /\ n \in 0..Len(more) /\ 1 \in 1..(Len(list) + 1)
        /\ 1 \in 1..(Len(more) + 1) /\ n - 1 + 1 = n /\ 1 - 1 = 0
        /\ \A j \in 1..n : 1 + j - 1 = j
    BY <1>1
  <2>2. /\ SubSeq(list, 1, n) \in Seq(Passing!Chunks) /\ Len(SubSeq(list, 1, n)) = n
        /\ \A j \in 1..n : SubSeq(list, 1, n)[j] = list[j]
    BY <2>1, SubSeqProperties
  <2>3. /\ SubSeq(more, 1, n) \in Seq(Passing!Chunks) /\ Len(SubSeq(more, 1, n)) = n
        /\ \A j \in 1..n : SubSeq(more, 1, n)[j] = more[j]
    BY <1>1, <2>1, SubSeqProperties
  <2>4. \A j \in 1..n : more[j] = list[j]
    BY <1>1, <2>1
  <2> QED BY <2>2, <2>3, <2>4, SeqEqual
<1>3. \A n \in 0..Len(list) : Said(more, n) = Said(list, n)
  BY <1>2 DEF Said
<1>4. Said(more, Len(list) + 1) = Said(list, Len(list)) \o piece
  <2> DEFINE n == Len(list) + 1
  <2>1. n \in 1..Len(more) /\ n - 1 = Len(list) /\ Len(list) \in 0..Len(list)
        /\ more[n] = piece
    BY <1>1
  <2> HIDE DEF n
  <2>2. Said(more, n) = Said(more, n - 1) \o more[n]
    BY <1>1, <2>1, SaidIs
  <2> QED BY <1>3, <2>1, <2>2 DEF n
<1> QED BY <1>1, <1>3, <1>4 DEF more

(* A keyword is in no empty text.                                            *)
LEMMA NoneInNothing ==
    ASSUME NEW word, IsKeyword(word)
    PROVE  Passing!Index(<<>>, word) = 0
<1>1. Len(word) \in 2..4 /\ word \in Seq(Passing!Signs) /\ <<>> \in Seq(Passing!Signs)
      /\ Len(<<>>) = 0
  BY EmptySeq DEF IsKeyword
<1>2. \A n : n \in 2..4 => n >= 1 /\ n \in Nat
  OBVIOUS
<1>3. Len(word) >= 1 /\ Len(word) \in Nat
  BY <1>1, <1>2, Zenon
<1>4. \A i : ~Here(<<>>, word, i)
  BY <1>1, <1>3 DEF Here
<1> QED BY <1>1, <1>3, <1>4, IndexIs

(* What is known of the keywords of a handler.                               *)
LEMMA KeywordsOf ==
    ASSUME Passing!TypeOK
    PROVE  /\ Passing!longestSize \in 2..4 /\ Passing!longestSize \in Nat
           /\ \A k \in DOMAIN Keywords : IsKeyword(Keywords[k])
                /\ Len(Keywords[k]) <= Passing!longestSize
           /\ \A k \in DOMAIN Keywords : Keywords[k] \in Seq(Passing!Signs)
                /\ Len(Keywords[k]) >= 1
           /\ DOMAIN Keywords \subseteq 1..3 /\ DOMAIN DefaultKeywords \subseteq 1..3
           /\ \A k \in DOMAIN DefaultKeywords :
                 /\ IsKeyword(DefaultKeywords[k])
                 /\ DefaultKeywords[k] \in Seq(Passing!Signs) /\ Len(DefaultKeywords[k]) >= 1
                 /\ \E j \in DOMAIN Passing!Standard : DefaultKeywords[k] = Passing!Standard[j]
<1>1. Keywords \in {Passing!Standard, <<Passing!AI>>}
      /\ DefaultKeywords \in {Passing!Standard, <<Passing!AI>>, <<Passing!Answer>>}
  BY DEF Passing!TypeOK
<1>2. Passing!longestSize \in 2..4 /\ DOMAIN Keywords \subseteq 1..3
      /\ \A k \in DOMAIN Keywords : Len(Keywords[k]) <= Passing!longestSize
  BY <1>1, KeywordsAre DEF Passing!longestSize
<1>3. Keywords \in {Passing!Standard, <<Passing!AI>>, <<Passing!Answer>>}
  BY <1>1
<1>4. \A k \in DOMAIN Keywords : IsKeyword(Keywords[k])
  BY <1>3, KeywordsAre
<1>5. \A k \in DOMAIN DefaultKeywords :
         IsKeyword(DefaultKeywords[k])
             /\ \E j \in DOMAIN Passing!Standard : DefaultKeywords[k] = Passing!Standard[j]
  BY <1>1, KeywordsAre
<1>6. \A n : n \in 2..4 => n >= 1 /\ n \in Nat
  OBVIOUS
<1>7. \A word : IsKeyword(word) => word \in Seq(Passing!Signs) /\ Len(word) >= 1
  <2> SUFFICES ASSUME NEW word, IsKeyword(word)
               PROVE word \in Seq(Passing!Signs) /\ Len(word) >= 1
    OBVIOUS
  <2>1. word \in Seq(Passing!Signs) /\ Len(word) \in 2..4
    BY DEF IsKeyword
  <2> QED BY <2>1, <1>6, Zenon
<1>8. DOMAIN DefaultKeywords \subseteq 1..3
  <2>1. DOMAIN <<Passing!Answer>> \subseteq 1..3
    OBVIOUS
  <2> QED BY <1>1, <2>1, KeywordsAre
<1>9. Passing!longestSize \in Nat
  BY <1>2, <1>6, Zenon
<1> QED BY <1>2, <1>4, <1>5, <1>7, <1>8, <1>9

(* It holds at the beginning.                                                *)
LEMMA PassInit == ASSUME Passing!Init PROVE Passing!IInv
<1> USE DEF Passing!Init
<1>1. Passing!TypeOK
  <2>1. Keywords \in {Passing!Standard, <<Passing!AI>>} /\ DefaultKeywords = Keywords
    <3>1. <<Passing!AI>> # <<>>
      OBVIOUS
    <3> QED BY <3>1 DEF Passing!NewFinalStreamHandler
  <2>2. LastTokens \in Seq(Passing!Signs) /\ Len(LastTokens) = 0 /\ Len(egress) = 0
        /\ spoken \in Seq(Passing!Chunks)
    BY EmptySeq
  <2>3. Len(Passing!Answer) = 4
    BY DEF Passing!Answer
  <2>4. Len(LastTokens) <= Len(Passing!Answer) /\ Len(egress) <= 1
    BY <2>2, <2>3
  <2>5. PrintOutput \in BOOLEAN /\ listener \in {"reading", "gone", "panicked"}
    OBVIOUS
  <2>6. DefaultKeywords \in {Passing!Standard, <<Passing!AI>>, <<Passing!Answer>>}
    BY <2>1
  <2> QED BY <2>1, <2>2, <2>4, <2>5, <2>6 DEF Passing!TypeOK
<1>2. spoken \in Seq(Passing!Chunks) /\ Len(spoken) = 0 /\ Passing!Spoken(0) = <<>>
      /\ Len(<<>>) = 0
  BY <1>1, SpokenIs DEF Passing!TypeOK
<1>3. Passing!WindowInv
  <2>1. heard \in Seq(Passing!Signs) /\ egress \in Seq(Seq(Passing!Signs))
        /\ <<>> \in Seq(Passing!Signs)
    BY EmptySeq
  <2>2. Passing!longestSize \in Nat
    BY <1>1, KeywordsOf
  <2>3. 0 - Passing!longestSize \in Int
        /\ (0 - Passing!longestSize >= 0 => 0 - Passing!longestSize = 0)
    BY <2>2
  <2>4. Passing!Max({0, 0 - Passing!longestSize}) = 0
    BY <2>3, MaxIs
  <2>5. Passing!After(<<>>, 0) = <<>>
    BY <2>1, AfterFirst
  <2> QED BY <1>2, <2>1, <2>4, <2>5 DEF Passing!WindowInv
<1>4. Passing!KeptInv
  BY DEF Passing!KeptInv
<1>5. Passing!SentInv
  <2>1. Passing!Found(0) = {}
    BY <1>1, <1>2, KeywordsOf, NoneInNothing DEF Passing!Found
  <2>2. \A n \in 0..Len(spoken) : n = 0
    BY <1>2
  <2> QED BY <2>1, <2>2 DEF Passing!SentInv
<1> QED BY <1>1, <1>3, <1>4, <1>5 DEF Passing!IInv

\* What a step makes of the texts when a chunk was said.
Now == Passing!Spoken(Len(spoken))

(* The chunks that were said stay, and the next one follows.                 *)
LEMMA NextChunk ==
    ASSUME Passing!TypeOK, NEW piece \in Passing!Chunks, spoken' = Append(spoken, piece),
           Keywords' = Keywords
    PROVE  /\ Len(spoken) \in Nat /\ spoken' \in Seq(Passing!Chunks)
           /\ Len(spoken') = Len(spoken) + 1
           /\ spoken'[Len(spoken) + 1] = piece
           /\ \A n \in 1..Len(spoken) : spoken'[n] = spoken[n]
           /\ \A n \in 0..Len(spoken) :
                 /\ Passing!Spoken(n) \in Seq(Passing!Signs)
                 /\ Passing!Spoken(n)' = Passing!Spoken(n)
                 /\ Passing!Found(n)' = Passing!Found(n)
           /\ \A n : n = Len(spoken) + 1 => Passing!Spoken(n)' = Now \o piece
           /\ Now' = Now \o piece
           /\ Now \in Seq(Passing!Signs) /\ piece \in Seq(Passing!Signs)
<1>1. spoken \in Seq(Passing!Chunks)
  BY DEF Passing!TypeOK
<1>2. /\ Len(spoken) \in Nat /\ spoken' \in Seq(Passing!Chunks)
      /\ Len(spoken') = Len(spoken) + 1
      /\ spoken'[Len(spoken) + 1] = piece /\ \A n \in 1..Len(spoken) : spoken'[n] = spoken[n]
  BY <1>1, SaidNext, LenProperties
<1>3. \A n \in 0..Len(spoken) : Passing!Spoken(n) \in Seq(Passing!Signs)
      /\ Passing!Spoken(n)' = Passing!Spoken(n)
  BY <1>1, SaidNext, SpokenIs DEF Passing!Spoken, Said
<1>4. \A n \in 0..Len(spoken) : Passing!Found(n)' = Passing!Found(n)
  BY <1>3 DEF Passing!Found
<1>5. \A n : n = Len(spoken) + 1 => Passing!Spoken(n)' = Now \o piece
  <2> TAKE n
  <2>1. Passing!Spoken(n)' = Said(Append(spoken, piece), n)
    BY DEF Passing!Spoken, Said
  <2>2. Now = Said(spoken, Len(spoken))
    BY DEF Now, Passing!Spoken, Said
  <2> QED BY <1>1, <2>1, <2>2, SaidNext
<1>6. Now' = Now \o piece
  <2>1. Now' = Said(Append(spoken, piece), Len(spoken'))
    BY DEF Now, Passing!Spoken, Said
  <2>2. Now = Said(spoken, Len(spoken))
    BY DEF Now, Passing!Spoken, Said
  <2>3. Said(Append(spoken, piece), Len(spoken) + 1) = Said(spoken, Len(spoken)) \o piece
    BY <1>1, SaidNext
  <2> QED BY <1>2, <2>1, <2>2, <2>3
<1>7. Now \in Seq(Passing!Signs)
  BY <1>2, <1>3 DEF Now
<1>8. piece \in Seq(Passing!Signs)
  BY ChunksAre
<1> QED BY <1>2, <1>3, <1>4, <1>5, <1>6, <1>7, <1>8

(* What is found in a part of what was said is found in all of it.           *)
LEMMA FoundStays ==
    ASSUME NEW x \in Seq(Passing!Signs), NEW r \in Seq(Passing!Signs), NEW word,
           IsKeyword(word),
           Passing!Index(x, word) # 0
    PROVE  Passing!Index(x \o r, word) # 0
<1>1. \A n : n \in 2..4 => n >= 1
  OBVIOUS
<1>2. word \in Seq(Passing!Signs) /\ Len(word) \in 2..4
  BY DEF IsKeyword
<1>3. Len(word) >= 1
  BY <1>1, <1>2, Zenon
<1> QED BY <1>2, <1>3, StillThere

(* The window and the types, when a chunk is said.                           *)
LEMMA WindowStep ==
    ASSUME Passing!IInv, NEW piece \in Passing!Chunks, Passing!HandleStreamingFunc(piece)
    PROVE  Passing!TypeOK' /\ Passing!WindowInv'
<1>1. Passing!TypeOK /\ Passing!WindowInv
  BY DEF Passing!IInv
<1>2. /\ egress = <<>> /\ spoken' = Append(spoken, piece) /\ Keywords' = Keywords
      /\ DefaultKeywords' = DefaultKeywords /\ heard' = heard /\ listener' = listener
  BY DEF Passing!HandleStreamingFunc
<1>3. /\ spoken' \in Seq(Passing!Chunks) /\ Now' = Now \o piece /\ Now \in Seq(Passing!Signs)
      /\ piece \in Seq(Passing!Signs)
  BY <1>1, <1>2, NextChunk
<1> DEFINE string == LastTokens \o piece
           detected == {k \in DOMAIN DefaultKeywords :
                           Passing!Index(string, DefaultKeywords[k]) # 0}
<1>4. Passing!longestSize \in Nat /\ Passing!longestSize' = Passing!longestSize
      /\ Passing!longestSize \in 2..4
  BY <1>1, <1>2, KeywordsOf DEF Passing!longestSize
<1>5. LastTokens = Passing!After(Now, Begins(Now, Passing!longestSize))
  BY <1>1 DEF Passing!WindowInv, Now, Begins
<1>6. LastTokens' = Passing!After(string, Begins(string, Passing!longestSize))
  BY DEF Passing!HandleStreamingFunc, Begins
<1>7. /\ LastTokens' = Passing!After(Now', Begins(Now', Passing!longestSize))
      /\ LastTokens' \in Seq(Passing!Signs) /\ Len(LastTokens') <= Passing!longestSize
  BY <1>3, <1>4, <1>5, <1>6, WindowMoves
<1>8. PrintOutput' \in BOOLEAN
  BY DEF Passing!HandleStreamingFunc
<1>9. egress' \in Seq(Seq(Passing!Signs)) /\ Len(egress') <= 1
  <2>1. CASE PrintOutput
    <3>1. egress' = <<piece>>
      BY <2>1 DEF Passing!HandleStreamingFunc
    <3> QED BY <1>3, <3>1
  <2>2. CASE ~PrintOutput /\ detected # {}
    <3>1. egress' = <<Passing!filterFinalString(piece,
          DefaultKeywords[Passing!Max(detected)])>>
      BY <2>2 DEF Passing!HandleStreamingFunc
    <3>2. detected \subseteq 1..3 /\ \A k \in detected : IsKeyword(DefaultKeywords[k])
      BY <1>1, KeywordsOf
    <3>3. Passing!Max(detected) \in detected
      <4> HIDE DEF detected
      <4> QED BY <2>2, <3>2, MaxOf
    <3>4. Passing!filterFinalString(piece,
          DefaultKeywords[Passing!Max(detected)]) \in Seq(Passing!Signs)
      BY <1>3, <3>2, <3>3, FilteredIs
    <3> HIDE DEF detected
    <3> QED BY <3>1, <3>4
  <2>3. CASE ~PrintOutput /\ detected = {}
    <3>1. egress' = <<>>
      BY <2>3 DEF Passing!HandleStreamingFunc
    <3>2. <<>> \in Seq(Seq(Passing!Signs)) /\ Len(<<>>) = 0
      BY EmptySeq
    <3> QED BY <3>1, <3>2
  <2> QED BY <1>1, <2>1, <2>2, <2>3 DEF Passing!TypeOK
<1>10. Passing!TypeOK'
  <2>1. Len(Passing!Answer) = 4
    BY DEF Passing!Answer
  <2>2. Len(LastTokens') <= Len(Passing!Answer)
    <3>1. \A n, m : m \in 2..4 /\ n \in Nat /\ n <= m => n <= 4
      OBVIOUS
    <3>2. Len(LastTokens') \in Nat
      BY <1>7, LenProperties
    <3> QED BY <1>4, <1>7, <2>1, <3>1, <3>2, Zenon
  <2> QED BY <1>1, <1>2, <1>3, <1>7, <1>8, <1>9, <2>2 DEF Passing!TypeOK
<1>11. Passing!WindowInv'
  <2>1. heard' \in Seq(Passing!Signs)
    BY <1>1, <1>2 DEF Passing!WindowInv
  <2>2. LastTokens' = Passing!After(Now', Begins(Now', Passing!longestSize'))
    BY <1>4, <1>7
  <2> QED BY <1>9, <2>1, <2>2 DEF Passing!WindowInv, Now, Begins
<1> QED BY <1>10, <1>11

(* A keyword of the package in the window is one in what was said.           *)
LEMMA KeptStep ==
    ASSUME Passing!IInv, NEW piece \in Passing!Chunks, Passing!HandleStreamingFunc(piece)
    PROVE  Passing!KeptInv'
<1>1. Passing!TypeOK /\ Passing!WindowInv /\ Passing!KeptInv
  BY DEF Passing!IInv
<1>2. /\ egress = <<>> /\ spoken' = Append(spoken, piece) /\ Keywords' = Keywords
      /\ DefaultKeywords' = DefaultKeywords /\ heard' = heard
  BY DEF Passing!HandleStreamingFunc
<1>3. Now' = Now \o piece /\ Now \in Seq(Passing!Signs) /\ piece \in Seq(Passing!Signs)
  BY <1>1, <1>2, NextChunk
<1> DEFINE string == LastTokens \o piece
           detected == {k \in DOMAIN DefaultKeywords :
                           Passing!Index(string, DefaultKeywords[k]) # 0}
<1>4. PrintOutput' = (PrintOutput \/ detected # {})
  BY DEF Passing!HandleStreamingFunc
<1>5. CASE PrintOutput
  <2>1. PICK k \in DOMAIN Passing!Standard : Passing!Index(Now, Passing!Standard[k]) # 0
    BY <1>1, <1>5 DEF Passing!KeptInv, Now
  <2>2. Passing!Index(Now', Passing!Standard[k]) # 0
    BY <1>3, <2>1, KeywordsAre, FoundStays
  <2> QED BY <1>4, <1>5, <2>1, <2>2 DEF Passing!KeptInv, Now
<1>6. CASE ~PrintOutput /\ detected # {}
  <2>1. PICK k \in DOMAIN DefaultKeywords : Passing!Index(string, DefaultKeywords[k]) # 0
    BY <1>6
  <2>2. LastTokens = Passing!After(Now, Begins(Now, Passing!longestSize))
    BY <1>1 DEF Passing!WindowInv, Now, Begins
  <2>3. /\ DefaultKeywords[k] \in Seq(Passing!Signs) /\ Len(DefaultKeywords[k]) >= 1
        /\ Passing!longestSize \in Nat
        /\ \E j \in DOMAIN Passing!Standard : DefaultKeywords[k] = Passing!Standard[j]
    BY <1>1, <2>1, KeywordsOf
  <2>4. Passing!Index(Now', DefaultKeywords[k]) # 0
    BY <1>3, <2>1, <2>2, <2>3, WindowSees
  <2>5. PrintOutput'
    BY <1>4, <1>6
  <2> QED BY <2>3, <2>4, <2>5 DEF Passing!KeptInv, Now
<1>7. CASE ~PrintOutput /\ detected = {}
  <2>1. egress' = <<>>
    BY <1>7 DEF Passing!HandleStreamingFunc
  <2>2. heard = <<>>
    BY <1>1, <1>7 DEF Passing!KeptInv
  <2> QED BY <1>2, <1>4, <1>7, <2>1, <2>2 DEF Passing!KeptInv
<1> QED BY <1>5, <1>6, <1>7

(* First is the first of the chunks with which something is found.           *)
LEMMA FirstIs ==
    ASSUME NEW n \in DOMAIN spoken, Passing!Found(n) # {}, spoken \in Seq(Passing!Chunks)
    PROVE  /\ Passing!First \in DOMAIN spoken /\ Passing!Found(Passing!First) # {}
           /\ \A m \in DOMAIN spoken : Passing!Found(m) # {} => Passing!First <= m
<1> DEFINE S == {m \in DOMAIN spoken : Passing!Found(m) # {}}
<1>1. S \subseteq Nat /\ S # {}
  BY LenProperties
<1>2. Passing!First = Passing!Min(S)
  BY DEF Passing!First
<1> HIDE DEF S
<1>3. Passing!Min(S) \in S /\ \A m \in S : Passing!Min(S) <= m
  BY <1>1, MinIs
<1> QED BY <1>2, <1>3 DEF S

(* What is sent, when the first keyword was said before.                     *)
LEMMA SentOn ==
    ASSUME Passing!IInv, NEW piece \in Passing!Chunks, Passing!HandleStreamingFunc(piece),
           PrintOutput,
           DefaultKeywords = Keywords
    PROVE  Passing!SentInv'
<1>1. Passing!TypeOK /\ Passing!WindowInv /\ Passing!SentInv
  BY DEF Passing!IInv
<1>2. /\ egress = <<>> /\ spoken' = Append(spoken, piece) /\ Keywords' = Keywords
      /\ heard' = heard /\ egress' = <<piece>> /\ PrintOutput' = TRUE
  BY DEF Passing!HandleStreamingFunc
<1>3. /\ Len(spoken) \in Nat /\ spoken' \in Seq(Passing!Chunks)
      /\ Len(spoken') = Len(spoken) + 1
      /\ \A n \in 1..Len(spoken) : spoken'[n] = spoken[n]
      /\ \A n \in 0..Len(spoken) :
            /\ Passing!Spoken(n) \in Seq(Passing!Signs)
            /\ Passing!Spoken(n)' = Passing!Spoken(n) /\ Passing!Found(n)' = Passing!Found(n)
      /\ Now' = Now \o piece /\ Now \in Seq(Passing!Signs) /\ piece \in Seq(Passing!Signs)
  BY <1>1, <1>2, NextChunk
<1>4. /\ DOMAIN spoken = 1..Len(spoken) /\ DOMAIN spoken' = 1..(Len(spoken) + 1)
      /\ spoken \in Seq(Passing!Chunks)
  BY <1>1, <1>3, LenProperties DEF Passing!TypeOK
<1>5. /\ \E n \in DOMAIN spoken : Passing!Found(n) # {}
      /\ Now = Passing!Spoken(Passing!First) \o Passing!Rest
      /\ heard \o Passing!FlattenSeq(egress) =
            Passing!filterFinalString(spoken[Passing!First],
            Keywords[Passing!Max(Passing!Found(Passing!First))]) \o Passing!Rest
  BY <1>1 DEF Passing!SentInv, Now
<1>6. /\ Passing!First \in 1..Len(spoken) /\ Passing!Found(Passing!First) # {}
      /\ \A m \in 1..Len(spoken) : Passing!Found(m) # {} => Passing!First <= m
  BY <1>4, <1>5, FirstIs
<1>7. Passing!First \in 1..(Len(spoken) + 1) /\ Passing!First \in 0..Len(spoken)
  BY <1>3, <1>6
<1>8. Passing!First' = Passing!First
  <2> DEFINE S == {m \in DOMAIN spoken : Passing!Found(m) # {}}
             T == {m \in 1..(Len(spoken) + 1) : Passing!Found(m)' # {}}
  <2>1. Passing!First' = Passing!Min(T)
    BY <1>4 DEF Passing!First
  <2>2. Passing!First \in T
    BY <1>3, <1>6, <1>7
  <2>3. \A m \in T : Passing!First <= m
    <3> TAKE m \in T
    <3>1. CASE m \in 1..Len(spoken)
      <4>1. Passing!Found(m) # {}
        BY <1>3, <3>1
      <4> QED BY <1>6, <3>1, <4>1
    <3>2. CASE m = Len(spoken) + 1
      BY <1>3, <1>6, <3>2
    <3> QED BY <1>3, <3>1, <3>2
  <2>4. T \subseteq Nat
    OBVIOUS
  <2> HIDE DEF T
  <2>5. Passing!Min(T) \in T /\ \A y \in T : Passing!Min(T) <= y
    BY <2>2, <2>4, MinIs
  <2>6. Passing!Min(T) <= Passing!First /\ Passing!First <= Passing!Min(T)
    BY <2>2, <2>3, <2>5
  <2>7. Passing!Min(T) \in Nat
    BY <2>4, <2>5
  <2>8. Passing!First \in Nat
    BY <1>7
  <2> QED BY <2>1, <2>6, <2>7, <2>8
<1> DEFINE n == Passing!First
           said == Passing!Spoken(n)
<1>9. \A m : m = n => Passing!Spoken(m)' = said
  BY <1>3, <1>7
<1>10. said \in Seq(Passing!Signs)
  BY <1>3, <1>7
<1>11. Passing!Rest = Passing!After(Now, Len(said))
       /\ Passing!Rest' = Passing!After(Now', Len(said))
  <2>1. Passing!Rest' = Passing!After(Now', Len(Passing!Spoken(Passing!First)'))
    BY DEF Passing!Rest, Now
  <2>2. Passing!Spoken(Passing!First)' = said
    BY <1>8, <1>3, <1>7 DEF Passing!Spoken
  <2> QED BY <2>1, <2>2 DEF Passing!Rest, Now
<1> DEFINE word == Keywords[Passing!Max(Passing!Found(n))]
           sent == Passing!filterFinalString(spoken[n], word)
<1>12. sent \in Seq(Passing!Signs)
  <2>1. DOMAIN Keywords \subseteq 1..3 /\ \A k \in DOMAIN Keywords : IsKeyword(Keywords[k])
    BY <1>1, KeywordsOf
  <2>2. Passing!Found(n) \subseteq DOMAIN Keywords
    BY DEF Passing!Found
  <2>3. Passing!Max(Passing!Found(n)) \in Passing!Found(n)
    BY <1>6, <2>1, <2>2, MaxOf
  <2>4. spoken[n] \in Seq(Passing!Signs)
    BY <1>4, <1>6, ElementOfSeq, ChunksAre
  <2>5. IsKeyword(word)
    BY <2>1, <2>2, <2>3
  <2> QED BY <2>4, <2>5, FilteredIs
<1>13. Passing!Rest \in Seq(Passing!Signs) /\ Passing!Rest' = Passing!Rest \o piece
  <2>1. Len(said) \in 0..Len(Now)
    <3>1. Len(said) \in Nat /\ Len(Now) \in Nat
      BY <1>3, <1>10, LenProperties
    <3> DEFINE rest == Passing!After(Now, Len(said))
    <3>2. CASE Len(said) <= Len(Now)
      BY <3>1, <3>2
    <3>3. CASE Len(said) > Len(Now)
      <4>1. rest = <<>>
        BY <1>3, <3>1, <3>3, SubSeqEmpty DEF Passing!After
      <4>2. Now = said \o <<>>
        BY <1>5, <1>11, <4>1
      <4>3. said \o <<>> = said
        BY <1>10, ConcatEmptySeq
      <4> QED BY <3>3, <4>2, <4>3, <3>1
    <3> QED BY <3>1, <3>2, <3>3
  <2>2. Passing!After(Now, Len(said)) \in Seq(Passing!Signs)
    BY <1>3, <2>1, AfterIs
  <2>3. Passing!After(Now \o piece, Len(said)) = Passing!After(Now, Len(said)) \o piece
    BY <1>3, <2>1, AfterJoined
  <2> QED BY <1>3, <1>11, <2>2, <2>3
<1>14. Now' = said \o Passing!Rest'
  <2>1. (said \o Passing!Rest) \o piece = said \o (Passing!Rest \o piece)
    <3>1. said \in Seq(Passing!Signs) /\ Passing!Rest \in Seq(Passing!Signs)
          /\ piece \in Seq(Passing!Signs)
      BY <1>3, <1>10, <1>13
    <3> QED BY <3>1, ConcatAssociative
  <2> QED BY <1>3, <1>5, <1>13, <2>1
<1>15. heard' \o Passing!FlattenSeq(egress') = sent \o Passing!Rest'
  <2>1. heard \o <<>> = heard
    BY <1>1, ConcatEmptySeq DEF Passing!WindowInv
  <2>2. heard = sent \o Passing!Rest
    BY <1>2, <1>5, <2>1, FlatShort
  <2>3. (sent \o Passing!Rest) \o piece = sent \o (Passing!Rest \o piece)
    <3>1. sent \in Seq(Passing!Signs) /\ Passing!Rest \in Seq(Passing!Signs)
          /\ piece \in Seq(Passing!Signs)
      BY <1>3, <1>12, <1>13
    <3> HIDE DEF sent
    <3> QED BY <3>1, ConcatAssociative
  <2>4. Passing!FlattenSeq(egress') = piece
    BY <1>2, <1>3, FlatShort
  <2> QED BY <1>2, <1>13, <2>2, <2>3, <2>4
<1>16. Passing!Spoken(Passing!First)' = said
       /\ Passing!Found(Passing!First)' = Passing!Found(n)
       /\ spoken'[Passing!First'] = spoken[n]
  <2>1. Passing!Spoken(Passing!First)' = said
    BY <1>3, <1>7, <1>8 DEF Passing!Spoken
  <2>2. Passing!Found(Passing!First)' = Passing!Found(n)
    BY <1>2, <2>1 DEF Passing!Found
  <2> QED BY <1>3, <1>6, <1>8, <2>1, <2>2
<1>17. \E m \in DOMAIN spoken' : Passing!Found(m)' # {}
  BY <1>3, <1>4, <1>6, <1>7
<1>18. Passing!filterFinalString(spoken'[Passing!First'],
       Keywords'[Passing!Max(Passing!Found(Passing!First)')]) = sent
  BY <1>2, <1>16
<1> HIDE DEF sent, said, word
<1> QED BY <1>2, <1>14, <1>15, <1>16, <1>17, <1>18 DEF Passing!SentInv, Now

(* What is sent when no keyword was said before.                             *)
LEMMA SentFirst ==
    ASSUME Passing!IInv, NEW piece \in Passing!Chunks, Passing!HandleStreamingFunc(piece),
           ~PrintOutput,
           DefaultKeywords = Keywords
    PROVE  Passing!SentInv'
<1>1. Passing!TypeOK /\ Passing!WindowInv /\ Passing!SentInv /\ Passing!KeptInv
  BY DEF Passing!IInv
<1> DEFINE string == LastTokens \o piece
           detected == {k \in DOMAIN DefaultKeywords :
                           Passing!Index(string, DefaultKeywords[k]) # 0}
           last == Len(spoken) + 1
<1>2. /\ egress = <<>> /\ spoken' = Append(spoken, piece) /\ Keywords' = Keywords
      /\ heard' = heard /\ DefaultKeywords' = Keywords' /\ PrintOutput' = (detected # {})
  BY DEF Passing!HandleStreamingFunc
<1>3. /\ Len(spoken) \in Nat /\ spoken' \in Seq(Passing!Chunks)
      /\ Len(spoken') = Len(spoken) + 1
      /\ spoken'[Len(spoken) + 1] = piece
      /\ \A n \in 0..Len(spoken) :
            /\ Passing!Spoken(n) \in Seq(Passing!Signs)
            /\ Passing!Spoken(n)' = Passing!Spoken(n) /\ Passing!Found(n)' = Passing!Found(n)
      /\ \A n : n = Len(spoken) + 1 => Passing!Spoken(n)' = Now \o piece
      /\ Now' = Now \o piece /\ Now \in Seq(Passing!Signs) /\ piece \in Seq(Passing!Signs)
  BY <1>1, <1>2, NextChunk
<1>4. last \in Nat /\ DOMAIN spoken' = 1..last /\ Len(spoken') = last
  BY <1>3, LenProperties
<1>5. \A n \in 0..Len(spoken) : Passing!Found(n) = {} /\ Passing!Found(n)' = {}
  BY <1>1, <1>3 DEF Passing!SentInv
<1>6. detected = {k \in DOMAIN Keywords : Passing!Index(Now \o piece, Keywords[k]) # 0}
  <2>1. LastTokens = Passing!After(Now, Begins(Now, Passing!longestSize))
    BY <1>1 DEF Passing!WindowInv, Now, Begins
  <2>2. ASSUME NEW k \in DOMAIN Keywords
        PROVE  Passing!Index(string, Keywords[k]) # 0
               <=> Passing!Index(Now \o piece, Keywords[k]) # 0
    <3>1. /\ Keywords[k] \in Seq(Passing!Signs) /\ Len(Keywords[k]) >= 1
          /\ Len(Keywords[k]) <= Passing!longestSize
          /\ Passing!longestSize \in Nat
      BY <1>1, KeywordsOf
    <3>2. Passing!Index(Now, Keywords[k]) = 0
      <4>1. Len(spoken) \in 0..Len(spoken)
        BY <1>3
      <4>2. k \notin Passing!Found(Len(spoken))
        BY <1>5, <4>1
      <4> QED BY <4>2 DEF Passing!Found, Now
    <3> QED BY <1>3, <2>1, <3>1, <3>2, WindowSees
  <2> QED BY <2>2
<1>7. \A n : n = last => Passing!Spoken(n)' = Now \o piece /\ Passing!Found(n)' = detected
  <2> SUFFICES ASSUME NEW n, n = last
               PROVE  Passing!Spoken(n)' = Now \o piece /\ Passing!Found(n)' = detected
    OBVIOUS
  <2>1. Passing!Spoken(n)' = Now \o piece
    BY <1>3
  <2>2. Passing!Found(n)'
        = {k \in DOMAIN Keywords : Passing!Index(Passing!Spoken(n)', Keywords[k]) # 0}
    BY <1>2 DEF Passing!Found
  <2>3. Passing!Found(n)'
        = {k \in DOMAIN Keywords : Passing!Index(Now \o piece, Keywords[k]) # 0}
    BY <2>1, <2>2
  <2> QED BY <1>6, <2>1, <2>3
<1> HIDE DEF last
<1>8. CASE detected = {}
  <2>1. \A n \in 0..last : n = last \/ n \in 0..Len(spoken)
    BY <1>3 DEF last
  <2>2. \A n \in 0..last : Passing!Found(n)' = {}
    BY <1>5, <1>7, <1>8, <2>1
  <2>3. \A n \in 0..Len(spoken') : Passing!Found(n)' = {}
    BY <1>4, <2>2
  <2> QED BY <1>2, <1>8, <2>3 DEF Passing!SentInv
<1>9. CASE detected # {}
  <2>1. Passing!First' = last
    <3> DEFINE T == {m \in 1..last : Passing!Found(m)' # {}}
    <3>1. Passing!First' = Passing!Min(T)
      BY <1>4 DEF Passing!First
    <3>2. last \in T
      BY <1>3, <1>7, <1>9 DEF last
    <3>3. \A m \in T : m = last
      <4> TAKE m \in T
      <4>1. m = last \/ m \in 0..Len(spoken)
        BY <1>3 DEF last
      <4> QED BY <1>5, <4>1
    <3>4. T \subseteq Nat
      OBVIOUS
    <3> HIDE DEF T
    <3>5. Passing!Min(T) \in T
      BY <3>2, <3>4, MinIs
    <3> QED BY <3>1, <3>3, <3>5
  <2>2. Passing!Spoken(Passing!First)' = Now \o piece
        /\ Passing!Found(Passing!First)' = detected
    <3>1. Passing!Spoken(Passing!First)' = Now \o piece
      BY <1>7, <2>1 DEF Passing!Spoken
    <3> QED BY <1>2, <1>6, <3>1 DEF Passing!Found
  <2>3. Passing!Rest' = <<>>
    <3>1. Passing!Rest' = Passing!After(Now', Len(Passing!Spoken(Passing!First)'))
      BY DEF Passing!Rest, Now
    <3>2. Now' \in Seq(Passing!Signs) /\ Now' \o <<>> = Now' /\ <<>> \in Seq(Passing!Signs)
      <4>1. Now' \in Seq(Passing!Signs)
        BY <1>3, ConcatProperties
      <4> QED BY <4>1, ConcatEmptySeq, EmptySeq
    <3>3. Passing!After(Now' \o <<>>, Len(Now')) = <<>>
      BY <3>2, AfterFirst
    <3> QED BY <1>3, <2>2, <3>1, <3>2, <3>3
  <2>4. Now' = Passing!Spoken(Passing!First)' \o Passing!Rest'
    <3>1. Now' \in Seq(Passing!Signs)
      BY <1>3, ConcatProperties
    <3>2. Now' \o <<>> = Now'
      BY <3>1, ConcatEmptySeq
    <3> QED BY <1>3, <2>2, <2>3, <3>2
  <2> DEFINE word == Keywords[Passing!Max(detected)]
             sent == Passing!filterFinalString(piece, word)
  <2>5. sent \in Seq(Passing!Signs)
    <3>1. DOMAIN Keywords \subseteq 1..3 /\ \A k \in DOMAIN Keywords : IsKeyword(Keywords[k])
      BY <1>1, KeywordsOf
    <3>2. detected \subseteq DOMAIN Keywords
      OBVIOUS
    <3>3. Passing!Max(detected) \in detected
      <4> HIDE DEF detected
      <4> QED BY <1>9, <3>1, <3>2, MaxOf
    <3>4. IsKeyword(word)
      BY <3>1, <3>2, <3>3
    <3> HIDE DEF word
    <3> QED BY <1>3, <3>4, FilteredIs
  <2>6. egress' = <<sent>> /\ heard = <<>>
    <3>1. egress' = <<Passing!filterFinalString(piece,
          DefaultKeywords[Passing!Max(detected)])>>
      BY <1>9 DEF Passing!HandleStreamingFunc
    <3>2. heard = <<>>
      BY <1>1 DEF Passing!KeptInv
    <3> QED BY <3>1, <3>2
  <2>7. heard' \o Passing!FlattenSeq(egress') = sent \o Passing!Rest'
    <3> HIDE DEF sent
    <3>1. Passing!FlattenSeq(egress') = sent
      BY <2>5, <2>6, FlatShort
    <3>2. <<>> \o sent = sent /\ sent \o <<>> = sent
      BY <2>5, ConcatEmptySeq
    <3> QED BY <1>2, <2>3, <2>6, <3>1, <3>2
  <2>8. Passing!filterFinalString(spoken'[Passing!First'],
        Keywords'[Passing!Max(Passing!Found(Passing!First)')]) = sent
    BY <1>2, <1>3, <2>1, <2>2 DEF last
  <2>9. \E m \in DOMAIN spoken' : Passing!Found(m)' # {}
    <3>1. last \in DOMAIN spoken'
      BY <1>3, <1>4 DEF last
    <3> QED BY <1>7, <1>9, <3>1
  <2> HIDE DEF sent, detected
  <2> QED BY <1>2, <1>9, <2>4, <2>7, <2>8, <2>9 DEF Passing!SentInv, Now
<1> QED BY <1>8, <1>9

(* Steps that touch nothing of what was said and sent.                       *)
LEMMA Unmoved ==
    ASSUME spoken' = spoken, Keywords' = Keywords, LastTokens' = LastTokens,
           PrintOutput' = PrintOutput, heard' = heard, egress' = egress
    PROVE  /\ Passing!WindowInv => Passing!WindowInv'
           /\ Passing!KeptInv => Passing!KeptInv'
           /\ DefaultKeywords' = DefaultKeywords => (Passing!SentInv => Passing!SentInv')
<1>1. \A n : Passing!Spoken(n)' = Passing!Spoken(n)
  BY DEF Passing!Spoken
<1>2. \A n : Passing!Found(n)' = Passing!Found(n)
  BY <1>1 DEF Passing!Found
<1>3. Passing!First' = Passing!First
  BY <1>2 DEF Passing!First
<1>4. /\ Passing!Spoken(Len(spoken))' = Passing!Spoken(Len(spoken))
      /\ Passing!Spoken(Passing!First)' = Passing!Spoken(Passing!First)
  BY <1>3 DEF Passing!Spoken
<1>5. Passing!Found(Passing!First)' = Passing!Found(Passing!First)
  BY <1>4 DEF Passing!Found
<1>6. Passing!Rest' = Passing!Rest /\ Passing!longestSize' = Passing!longestSize
  BY <1>4 DEF Passing!Rest, Passing!longestSize
<1>7. Passing!WindowInv => Passing!WindowInv'
  BY <1>4, <1>6 DEF Passing!WindowInv
<1>8. Passing!KeptInv => Passing!KeptInv'
  BY <1>4 DEF Passing!KeptInv
<1>9. ASSUME DefaultKeywords' = DefaultKeywords, Passing!SentInv PROVE Passing!SentInv'
  <2> SUFFICES ASSUME DefaultKeywords' = Keywords' PROVE Passing!SentInv'
    BY DEF Passing!SentInv
  <2>1. CASE PrintOutput
    <3>1. /\ \E n \in DOMAIN spoken : Passing!Found(n) # {}
          /\ Passing!Spoken(Len(spoken)) = Passing!Spoken(Passing!First) \o Passing!Rest
          /\ heard \o Passing!FlattenSeq(egress) =
                Passing!filterFinalString(spoken[Passing!First],
                Keywords[Passing!Max(Passing!Found(Passing!First))]) \o Passing!Rest
      BY <1>9, <2>1 DEF Passing!SentInv
    <3>2. \E n \in DOMAIN spoken' : Passing!Found(n)' # {}
      BY <1>2, <3>1
    <3>3. Passing!Spoken(Len(spoken))' = Passing!Spoken(Passing!First)' \o Passing!Rest'
      BY <1>4, <1>6, <3>1
    <3>4. heard' \o Passing!FlattenSeq(egress') =
            Passing!filterFinalString(spoken'[Passing!First'],
            Keywords'[Passing!Max(Passing!Found(Passing!First)')]) \o Passing!Rest'
      BY <1>3, <1>5, <1>6, <3>1
    <3> QED BY <2>1, <3>2, <3>3, <3>4 DEF Passing!SentInv
  <2>2. CASE ~PrintOutput
    <3>1. \A n \in 0..Len(spoken) : Passing!Found(n) = {}
      BY <1>9, <2>2 DEF Passing!SentInv
    <3>2. \A n \in 0..Len(spoken') : Passing!Found(n)' = {}
      BY <1>2, <3>1
    <3> QED BY <2>2, <3>2 DEF Passing!SentInv
  <2> QED BY <2>1, <2>2
<1> QED BY <1>7, <1>8, <1>9

(* Every step of the handler, its reader and its package.                    *)
LEMMA PassSteps == ASSUME Passing!IInv, [Passing!Next]_(Passing!vars) PROVE Passing!IInv'
<1>1. Passing!TypeOK /\ Passing!WindowInv /\ Passing!KeptInv /\ Passing!SentInv
  BY DEF Passing!IInv
<1>2. ASSUME NEW piece \in Passing!Chunks, Passing!HandleStreamingFunc(piece)
      PROVE Passing!IInv'
  <2>1. Passing!TypeOK' /\ Passing!WindowInv' /\ Passing!KeptInv'
    BY <1>2, WindowStep, KeptStep
  <2>2. Passing!SentInv'
    <3>1. CASE DefaultKeywords = Keywords
      BY <1>1, <1>2, <3>1, SentOn, SentFirst
    <3>2. CASE DefaultKeywords # Keywords
      <4>1. DefaultKeywords' # Keywords'
        BY <1>2, <3>2 DEF Passing!HandleStreamingFunc
      <4> QED BY <4>1 DEF Passing!SentInv
    <3> QED BY <3>1, <3>2
  <2> QED BY <2>1, <2>2 DEF Passing!IInv
<1> DEFINE same == /\ spoken' = spoken /\ Keywords' = Keywords /\ LastTokens' = LastTokens
                   /\ PrintOutput' = PrintOutput
<1>3. ASSUME same
      PROVE  /\ \A n : Passing!Spoken(n)' = Passing!Spoken(n)
                  /\ Passing!Found(n)' = Passing!Found(n)
             /\ Passing!First' = Passing!First /\ Passing!Rest' = Passing!Rest
             /\ Passing!longestSize' = Passing!longestSize
  <2>1. \A n : Passing!Spoken(n)' = Passing!Spoken(n)
    BY <1>3 DEF Passing!Spoken
  <2>2. \A n : Passing!Found(n)' = Passing!Found(n)
    BY <1>3, <2>1 DEF Passing!Found
  <2>3. Passing!First' = Passing!First
    BY <1>3, <2>2 DEF Passing!First
  <2>4. Passing!Spoken(Passing!First)' = Passing!Spoken(Passing!First)
    BY <1>3, <2>3 DEF Passing!Spoken
  <2>5. Passing!Rest' = Passing!Rest
    BY <1>3, <2>4 DEF Passing!Rest, Passing!Spoken
  <2>6. Passing!longestSize' = Passing!longestSize
    BY <1>3 DEF Passing!longestSize
  <2> QED BY <2>1, <2>2, <2>3, <2>5, <2>6
<1>4. ASSUME Passing!ReadFromEgress PROVE Passing!IInv'
  <2>1. same /\ heard' = heard \o egress[1] /\ egress' = <<>> /\ egress # <<>>
        /\ DefaultKeywords' = DefaultKeywords /\ listener' = listener
    BY <1>4 DEF Passing!ReadFromEgress
  <2>2. egress \in Seq(Seq(Passing!Signs)) /\ Len(egress) = 1 /\ heard \in Seq(Passing!Signs)
    <3>1. egress \in Seq(Seq(Passing!Signs)) /\ heard \in Seq(Passing!Signs)
          /\ Len(egress) <= 1
      BY <1>1 DEF Passing!WindowInv, Passing!TypeOK
    <3>2. Len(egress) \in Nat
      BY <3>1, LenProperties
    <3>3. Len(egress) # 0
      <4>1. \A seq \in Seq(Seq(Passing!Signs)) : seq = <<>> <=> Len(seq) = 0
        BY EmptySeq, Zenon
      <4>2. egress \in Seq(Seq(Passing!Signs))
        BY <3>1
      <4>3. egress # <<>>
        BY <2>1
      <4> QED BY <4>1, <4>2, <4>3
    <3>4. Len(egress) = 1
      <4>1. \A n : n \in Nat /\ n <= 1 /\ n # 0 => n = 1
        OBVIOUS
      <4>2. Len(egress) <= 1
        BY <3>1
      <4> QED BY <3>2, <3>3, <4>1, <4>2, Zenon
    <3> QED BY <3>1, <3>4
  <2>3. egress[1] \in Seq(Passing!Signs) /\ egress = <<egress[1]>>
    <3>1. 1 \in 1..Len(egress)
      BY <2>2
    <3>2. egress[1] \in Seq(Passing!Signs)
      BY <2>2, <3>1, ElementOfSeq
    <3>3. egress = <<egress[1]>>
      BY <2>2
    <3> QED BY <3>2, <3>3
  <2>4. heard' \in Seq(Passing!Signs) /\ egress' \in Seq(Seq(Passing!Signs))
        /\ Len(egress') = 0
    BY <2>1, <2>2, <2>3, ConcatProperties, EmptySeq
  <2>5. Passing!TypeOK'
    BY <1>1, <2>1, <2>4 DEF Passing!TypeOK
  <2>6. Passing!WindowInv'
    <3>1. LastTokens' = Passing!After(Passing!Spoken(Len(spoken)),
          Passing!Max({0, Len(Passing!Spoken(Len(spoken))) - Passing!longestSize}))
      BY <1>1, <2>1 DEF Passing!WindowInv
    <3>2. Passing!Spoken(Len(spoken))' = Passing!Spoken(Len(spoken))
          /\ Passing!longestSize' = Passing!longestSize
      BY <1>3, <2>1 DEF Passing!Spoken
    <3> QED BY <2>4, <3>1, <3>2 DEF Passing!WindowInv
  <2>7. PrintOutput
    BY <1>1, <2>1 DEF Passing!KeptInv
  <2>8. Passing!KeptInv'
    <3>1. Passing!Spoken(Len(spoken))' = Passing!Spoken(Len(spoken))
      BY <2>1 DEF Passing!Spoken
    <3> QED BY <1>1, <2>1, <2>7, <3>1 DEF Passing!KeptInv
  <2>9. heard' \o Passing!FlattenSeq(egress') = heard \o Passing!FlattenSeq(egress)
    <3>1. heard' \o <<>> = heard'
      BY <2>4, ConcatEmptySeq
    <3>2. Passing!FlattenSeq(<<egress[1]>>) = egress[1]
      BY <2>3, FlatShort
    <3>3. Passing!FlattenSeq(egress) = egress[1]
      BY <2>3, <3>2
    <3> QED BY <2>1, <3>1, <3>3, FlatShort
  <2>10. Passing!SentInv'
    <3> SUFFICES ASSUME DefaultKeywords' = Keywords' PROVE Passing!SentInv'
      BY DEF Passing!SentInv
    <3>1. /\ \E n \in DOMAIN spoken : Passing!Found(n) # {}
          /\ Passing!Spoken(Len(spoken)) = Passing!Spoken(Passing!First) \o Passing!Rest
          /\ heard \o Passing!FlattenSeq(egress) =
                Passing!filterFinalString(spoken[Passing!First],
                Keywords[Passing!Max(Passing!Found(Passing!First))]) \o Passing!Rest
      BY <1>1, <2>1, <2>7 DEF Passing!SentInv
    <3>2. /\ \A n : Passing!Found(n)' = Passing!Found(n)
          /\ Passing!First' = Passing!First /\ Passing!Rest' = Passing!Rest
      BY <1>3, <2>1
    <3>3. /\ Passing!Spoken(Len(spoken))' = Passing!Spoken(Len(spoken))
          /\ Passing!Spoken(Passing!First)' = Passing!Spoken(Passing!First)
          /\ Passing!Found(Passing!First)' = Passing!Found(Passing!First)
      <4>1. Passing!Spoken(Len(spoken))' = Passing!Spoken(Len(spoken))
        BY <2>1 DEF Passing!Spoken
      <4>2. Passing!Spoken(Passing!First)' = Passing!Spoken(Passing!First)
        BY <2>1, <3>2 DEF Passing!Spoken
      <4> QED BY <2>1, <4>1, <4>2 DEF Passing!Found
    <3>4. \E n \in DOMAIN spoken' : Passing!Found(n)' # {}
      BY <2>1, <3>1, <3>2
    <3>5. Passing!Spoken(Len(spoken))' = Passing!Spoken(Passing!First)' \o Passing!Rest'
      BY <3>1, <3>2, <3>3
    <3>6. heard' \o Passing!FlattenSeq(egress') =
            Passing!filterFinalString(spoken'[Passing!First'],
            Keywords'[Passing!Max(Passing!Found(Passing!First)')]) \o Passing!Rest'
      BY <2>1, <2>9, <3>1, <3>2, <3>3
    <3> QED BY <2>1, <2>7, <3>4, <3>5, <3>6 DEF Passing!SentInv
  <2> QED BY <2>5, <2>6, <2>8, <2>10 DEF Passing!IInv
<1>5. ASSUME Passing!CloseEgress PROVE Passing!IInv'
  <2>1. /\ same /\ heard' = heard /\ egress' = egress /\ DefaultKeywords' = DefaultKeywords
        /\ listener' \in {"reading", "gone", "panicked"}
    BY <1>5 DEF Passing!CloseEgress
  <2>2. Passing!TypeOK'
    BY <1>1, <2>1 DEF Passing!TypeOK
  <2> QED BY <1>1, <2>1, <2>2, Unmoved DEF Passing!IInv
<1>6. ASSUME Passing!MakeOther PROVE Passing!IInv'
  <2>1. /\ same /\ heard' = heard /\ egress' = egress /\ DefaultKeywords' = <<Passing!Answer>>
        /\ listener' = listener
    BY <1>6 DEF Passing!MakeOther
  <2>2. Passing!TypeOK'
    BY <1>1, <2>1 DEF Passing!TypeOK
  <2>3. <<Passing!Answer>> # Passing!Standard /\ <<Passing!Answer>> # <<Passing!AI>>
    <3>1. Len(<<Passing!Answer>>) = 1 /\ Len(Passing!Standard) = 3
      BY DEF Passing!Standard
    <3>2. <<Passing!Answer>>[1] = Passing!Answer /\ <<Passing!AI>>[1] = Passing!AI
      OBVIOUS
    <3>3. Len(Passing!Answer) = 4 /\ Len(Passing!AI) = 2
      BY DEF Passing!Answer, Passing!AI
    <3> QED BY <3>1, <3>2, <3>3
  <2>4. DefaultKeywords' # Keywords'
    BY <1>1, <2>1, <2>3 DEF Passing!TypeOK
  <2>5. Passing!SentInv'
    BY <2>4 DEF Passing!SentInv
  <2> QED BY <1>1, <2>1, <2>2, <2>5, Unmoved DEF Passing!IInv
<1>7. ASSUME UNCHANGED Passing!vars PROVE Passing!IInv'
  <2>1. /\ same /\ heard' = heard /\ egress' = egress /\ DefaultKeywords' = DefaultKeywords
        /\ listener' = listener
    BY <1>7 DEF Passing!vars
  <2>2. Passing!TypeOK'
    BY <1>1, <2>1 DEF Passing!TypeOK
  <2> QED BY <1>1, <2>1, <2>2, Unmoved DEF Passing!IInv
<1> QED BY <1>2, <1>4, <1>5, <1>6, <1>7 DEF Passing!Next

(* A text of which a part is the beginning ends in a text.                   *)
LEMMA RestIs ==
    ASSUME NEW x \in Seq(Passing!Signs), NEW now \in Seq(Passing!Signs),
           now = x \o Passing!After(now, Len(x))
    PROVE  Passing!After(now, Len(x)) \in Seq(Passing!Signs) /\ Len(x) \in 0..Len(now)
<1>1. Len(x) \in Nat /\ Len(now) \in Nat
  BY LenProperties
<1>2. CASE Len(x) <= Len(now)
  <2>1. Len(x) \in 0..Len(now)
    BY <1>1, <1>2
  <2> QED BY <2>1, AfterIs
<1>3. CASE Len(x) > Len(now)
  <2>1. Passing!After(now, Len(x)) = <<>>
    BY <1>1, <1>3, SubSeqEmpty DEF Passing!After
  <2>2. now = x \o <<>>
    BY <2>1
  <2>3. x \o <<>> = x
    BY ConcatEmptySeq
  <2> QED BY <1>1, <1>3, <2>2, <2>3
<1> QED BY <1>1, <1>2, <1>3

(* What the invariant promises the reader.                                   *)
LEMMA PassPromises == ASSUME Passing!IInv PROVE Passing!FinalIsSent /\ Passing!ThoughtsAreKept
<1>1. Passing!TypeOK /\ Passing!WindowInv /\ Passing!KeptInv /\ Passing!SentInv
      /\ spoken \in Seq(Passing!Chunks)
  BY DEF Passing!IInv, Passing!TypeOK
<1>2. /\ Len(spoken) \in Nat /\ Len(spoken) \in 0..Len(spoken)
      /\ DOMAIN spoken = 1..Len(spoken)
      /\ Passing!Spoken(0) = <<>>
      /\ \A n \in 0..Len(spoken) : Passing!Spoken(n) \in Seq(Passing!Signs)
      /\ \A n \in 1..Len(spoken) : Passing!Spoken(n) = Passing!Spoken(n - 1) \o spoken[n]
  <2>1. Len(spoken) \in Nat /\ DOMAIN spoken = 1..Len(spoken)
    BY <1>1, LenProperties
  <2>2. Len(spoken) \in 0..Len(spoken)
    BY <2>1
  <2> QED BY <1>1, <2>1, <2>2, SpokenIs
<1>3. Passing!ThoughtsAreKept
  BY <1>1 DEF Passing!KeptInv, Passing!ThoughtsAreKept
<1>4. CASE ~PrintOutput
  <2>1. heard = <<>> /\ egress = <<>>
    BY <1>1, <1>4 DEF Passing!KeptInv
  <2>2. DefaultKeywords = Keywords => Passing!Found(Len(spoken)) = {}
    BY <1>1, <1>2, <1>4 DEF Passing!SentInv
  <2> QED BY <1>3, <2>1, <2>2 DEF Passing!FinalIsSent
<1>5. CASE PrintOutput /\ DefaultKeywords = Keywords
  <2> DEFINE all == Passing!Spoken(Len(spoken))
             p == Passing!Spoken(Passing!First - 1)
             c == spoken[Passing!First]
  <2>1. /\ \E n \in DOMAIN spoken : Passing!Found(n) # {}
        /\ all = Passing!Spoken(Passing!First) \o Passing!Rest
        /\ heard \o Passing!FlattenSeq(egress)
             = Passing!filterFinalString(c,
             Keywords[Passing!Max(Passing!Found(Passing!First))]) \o Passing!Rest
    BY <1>1, <1>5 DEF Passing!SentInv
  <2>2. /\ Passing!First \in DOMAIN spoken /\ Passing!Found(Passing!First) # {}
        /\ \A m \in DOMAIN spoken : Passing!Found(m) # {} => Passing!First <= m
    BY <1>1, <2>1, FirstIs
  <2>3. Passing!First \in 1..Len(spoken) /\ Passing!First - 1 \in 0..Len(spoken)
        /\ Passing!First \in 0..Len(spoken)
    BY <1>2, <2>2
  <2>4. /\ all \in Seq(Passing!Signs) /\ p \in Seq(Passing!Signs)
        /\ Passing!Spoken(Passing!First) \in Seq(Passing!Signs) /\ c \in Passing!Chunks
        /\ Passing!Spoken(Passing!First) = p \o c
    <3>1. c \in Passing!Chunks
      BY <1>1, <2>3, ElementOfSeq
    <3> QED BY <1>2, <2>3, <3>1
  <2>5. Passing!Rest \in Seq(Passing!Signs)
    <3>1. Passing!Rest = Passing!After(all, Len(Passing!Spoken(Passing!First)))
      BY DEF Passing!Rest
    <3> QED BY <2>1, <2>4, <3>1, RestIs
  <2>6. /\ DOMAIN Keywords \subseteq 1..3 /\ \A k \in DOMAIN Keywords : IsKeyword(Keywords[k])
    BY <1>1, KeywordsOf
  <2>7. Passing!Found(Len(spoken)) # {}
    <3>1. PICK k \in Passing!Found(Passing!First) : TRUE
      BY <2>2
    <3>2. k \in DOMAIN Keywords
          /\ Passing!Index(Passing!Spoken(Passing!First), Keywords[k]) # 0
      BY <3>1 DEF Passing!Found
    <3>3. Passing!Index(all, Keywords[k]) # 0
      BY <2>1, <2>4, <2>5, <2>6, <3>2, FoundStays
    <3>4. k \in Passing!Found(Len(spoken))
      BY <3>2, <3>3 DEF Passing!Found
    <3> QED BY <3>4
  <2> DEFINE k == CHOOSE i \in Passing!Found(Passing!First) : TRUE
             word == Keywords[k]
  <2>8. ASSUME Passing!Clean(Passing!First)
        PROVE  Passing!TrimLeft(heard \o Passing!FlattenSeq(egress)) =
                   Passing!TrimLeft(Passing!After(all,
                   Passing!Index(all, word) + Len(word) - 1))
    <3>1. Passing!Found(Passing!First) \subseteq 1..3
      BY <2>6 DEF Passing!Found
    <3>2. \E x : Passing!Found(Passing!First) = {x}
      <4>1. Cardinality(Passing!Found(Passing!First)) = 1
        <5>1. Passing!Cardinality(Passing!Found(Passing!First)) = 1
          BY <2>8, Zenon DEF Passing!Clean
        <5> QED BY <5>1, SameSize, Zenon
      <4>2. IsFiniteSet(1..3)
        <5>1. 1 \in Int /\ 3 \in Int
          OBVIOUS
        <5> QED BY <5>1, FS_Interval, Zenon
      <4>3. IsFiniteSet(Passing!Found(Passing!First))
        BY <3>1, <4>2, FS_Subset
      <4> QED BY <4>1, <4>3, FS_Singleton
    <3>3. Passing!Found(Passing!First) = {k} /\ k \in Passing!Found(Passing!First)
      BY <3>2
    <3>4. Passing!Max(Passing!Found(Passing!First)) = k
      <4>1. Passing!Max(Passing!Found(Passing!First)) \in Passing!Found(Passing!First)
        BY <2>2, <3>1, MaxOf
      <4> QED BY <3>3, <4>1
    <3>5. k \in DOMAIN Keywords /\ IsKeyword(word)
          /\ Passing!Index(Passing!Spoken(Passing!First), word) # 0
      <4>1. k \in DOMAIN Keywords /\ Passing!Index(Passing!Spoken(Passing!First), word) # 0
        BY <3>3 DEF Passing!Found
      <4> QED BY <2>6, <4>1
    <3>6. Passing!Index(p, word) = 0
      <4>1. CASE Passing!First = 1
        <5>1. p = <<>>
          BY <1>2, <4>1
        <5> QED BY <3>5, <5>1, NoneInNothing
      <4>2. CASE Passing!First # 1
        <5>1. Passing!First - 1 \in DOMAIN spoken /\ ~(Passing!First <= Passing!First - 1)
          BY <1>2, <2>3, <4>2
        <5>2. k \notin Passing!Found(Passing!First - 1)
          BY <2>2, <5>1
        <5> QED BY <3>5, <5>2 DEF Passing!Found
      <4> QED BY <4>1, <4>2
    <3>7. Passing!Index(Passing!TrimLeft(c), word) # 0 \/ HasColon(Passing!TrimLeft(c))
      BY <2>8 DEF Passing!Clean, HasColon
    <3>8. Passing!Index(p \o c, word) # 0
      BY <2>4, <3>5
    <3> HIDE DEF word, p, c
    <3>9. Whole(p, c, Passing!Rest, word)
      <4>1. CASE Passing!Index(Passing!TrimLeft(c), word) # 0
        BY <2>4, <2>5, <3>5, <3>6, <4>1, WholeKeyword
      <4>2. CASE Passing!Index(Passing!TrimLeft(c), word) = 0
        BY <2>4, <2>5, <3>5, <3>6, <3>7, <3>8, <4>2, OnlyColon
      <4> QED BY <4>1, <4>2
    <3>10. heard \o Passing!FlattenSeq(egress)
           = Passing!filterFinalString(c, word) \o Passing!Rest
      BY <2>1, <3>4 DEF word
    <3>11. all = (p \o c) \o Passing!Rest
      BY <2>1, <2>4
    <3> HIDE DEF all
    <3> QED BY <3>9, <3>10, <3>11 DEF Whole
  <2> HIDE DEF all
  <2>9. Passing!FinalIsSent
    BY <2>7, <2>8 DEF Passing!FinalIsSent, all
  <2> QED BY <1>3, <2>9
<1>6. CASE DefaultKeywords # Keywords
  BY <1>3, <1>6 DEF Passing!FinalIsSent
<1> QED BY <1>4, <1>5, <1>6

(* The handler keeps its invariant, however many chunks come.               *)
THEOREM HandlerInvariance == Passing!Spec => []Passing!IInv
<1>1. Passing!Init => Passing!IInv
  BY PassInit
<1>2. Passing!IInv /\ [Passing!Next]_(Passing!vars) => Passing!IInv'
  BY PassSteps
<1> QED BY <1>1, <1>2, PTL DEF Passing!Spec

(* What is sent is what the agent says after its keyword, all of it and in  *)
(* order, even if the keyword comes in pieces; and nothing is sent before.  *)
THEOREM FinalAnswerIsPassedOn ==
    Passing!Spec => [](Passing!FinalIsSent /\ Passing!ThoughtsAreKept)
<1>1. Passing!IInv => Passing!FinalIsSent /\ Passing!ThoughtsAreKept
  BY PassPromises
<1> QED BY <1>1, HandlerInvariance, PTL
-----------------------------------------------------------------------------
(* MessageConversion: what a request tells of a conversation.              *)

\* What a conversation may be: parts of the kinds there are, few in each message.
Bounded == /\ MaxMessages \in Nat
           /\ Roles \subseteq {"system", "human", "ai", "generic", "function", "tool"}
           /\ PartLists \subseteq Seq(Asking!Kinds) /\ \A l \in PartLists : Len(l) <= 3

\* The places of the n-th message.
Places(n, m) == {<<n, j>> : j \in DOMAIN m.parts}

(* What is in a list made of others.                                        *)
LEMMA ElementsOf ==
    ASSUME NEW S, NEW s \in Seq(S), NEW r \in Seq(S), NEW e \in S
    PROVE  /\ Asking!Elements(Append(s, e)) = Asking!Elements(s) \cup {e}
           /\ Asking!Elements(s \o r) = Asking!Elements(s) \cup Asking!Elements(r)
           /\ Asking!Elements(s) \subseteq S
<1>1. Asking!Elements(s) \subseteq S
  <2>1. \A k \in DOMAIN s : s[k] \in S
    BY ElementOfSeq, LenProperties
  <2> QED BY <2>1 DEF Asking!Elements
<1>2. /\ Len(s) \in Nat /\ Len(r) \in Nat /\ DOMAIN s = 1..Len(s) /\ DOMAIN r = 1..Len(r)
  BY LenProperties
<1>3. Asking!Elements(Append(s, e)) = Asking!Elements(s) \cup {e}
  <2>1. /\ DOMAIN Append(s, e) = 1..(Len(s) + 1)
        /\ \A k \in 1..Len(s) : Append(s, e)[k] = s[k]
        /\ Append(s, e)[Len(s) + 1] = e
    BY AppendProperties, LenProperties
  <2>2. ASSUME NEW k \in DOMAIN Append(s, e) PROVE Append(s, e)[k] \in Asking!Elements(s) \cup {e}
    <3>1. k \in DOMAIN s \/ k = Len(s) + 1
      BY <1>2, <2>1
    <3> QED BY <1>2, <2>1, <3>1 DEF Asking!Elements
  <2>3. ASSUME NEW k \in DOMAIN s PROVE \E j \in DOMAIN Append(s, e) : Append(s, e)[j] = s[k]
    BY <1>2, <2>1
  <2>4. Len(s) + 1 \in DOMAIN Append(s, e)
    BY <1>2, <2>1
  <2>5. Asking!Elements(Append(s, e)) \subseteq Asking!Elements(s) \cup {e}
    BY <2>2 DEF Asking!Elements
  <2>6. Asking!Elements(s) \subseteq Asking!Elements(Append(s, e))
    BY <2>3 DEF Asking!Elements
  <2>7. e \in Asking!Elements(Append(s, e))
    BY <2>1, <2>4 DEF Asking!Elements
  <2> QED BY <2>5, <2>6, <2>7
<1>4. Asking!Elements(s \o r) = Asking!Elements(s) \cup Asking!Elements(r)
  <2>1. /\ s \o r \in Seq(S) /\ Len(s \o r) = Len(s) + Len(r)
        /\ \A k \in 1..Len(s) : (s \o r)[k] = s[k]
        /\ \A k \in 1..Len(r) : (s \o r)[Len(s) + k] = r[k]
    BY ConcatProperties
  <2>2. DOMAIN (s \o r) = 1..(Len(s) + Len(r))
    BY <2>1, LenProperties
  <2>3. ASSUME NEW k \in DOMAIN (s \o r) PROVE (s \o r)[k] \in Asking!Elements(s) \cup Asking!Elements(r)
    <3>1. CASE k <= Len(s)
      <4>1. k \in DOMAIN s /\ (s \o r)[k] = s[k]
        BY <1>2, <2>1, <2>2, <3>1
      <4> QED BY <4>1 DEF Asking!Elements
    <3>2. CASE k > Len(s)
      <4>1. k - Len(s) \in 1..Len(r) /\ Len(s) + (k - Len(s)) = k
        BY <1>2, <2>2, <3>2
      <4>2. (s \o r)[k] = r[k - Len(s)]
        BY <2>1, <4>1
      <4> QED BY <1>2, <4>1, <4>2 DEF Asking!Elements
    <3> QED BY <1>2, <2>2, <3>1, <3>2
  <2>4. ASSUME NEW k \in DOMAIN s PROVE s[k] \in Asking!Elements(s \o r)
    <3>1. k \in DOMAIN (s \o r) /\ (s \o r)[k] = s[k]
      BY <1>2, <2>1, <2>2
    <3> QED BY <3>1 DEF Asking!Elements
  <2>5. ASSUME NEW k \in DOMAIN r PROVE r[k] \in Asking!Elements(s \o r)
    <3>1. Len(s) + k \in DOMAIN (s \o r) /\ (s \o r)[Len(s) + k] = r[k]
      BY <1>2, <2>1, <2>2
    <3> QED BY <3>1 DEF Asking!Elements
  <2>6. Asking!Elements(s \o r) \subseteq Asking!Elements(s) \cup Asking!Elements(r)
    BY <2>3 DEF Asking!Elements
  <2>7. Asking!Elements(s) \subseteq Asking!Elements(s \o r) /\ Asking!Elements(r) \subseteq Asking!Elements(s \o r)
    BY <2>4, <2>5 DEF Asking!Elements
  <2> QED BY <2>6, <2>7
<1> QED BY <1>1, <1>3, <1>4

(* Nothing is in no list, one thing in a list of one.                       *)
LEMMA ElementsOfFew == /\ Asking!Elements(<<>>) = {}
                       /\ \A e : Asking!Elements(<<e>>) = {e}
<1>1. DOMAIN <<>> = {}
  OBVIOUS
<1>2. \A e : DOMAIN <<e>> = {1} /\ <<e>>[1] = e
  OBVIOUS
<1> QED BY <1>1, <1>2 DEF Asking!Elements

(* What a message has.                                                      *)
LEMMA MessageIs ==
    ASSUME Bounded, NEW m \in Asking!Messages
    PROVE  /\ m.role \in {"system", "human", "ai", "generic", "function", "tool"}
           /\ m.role \in Roles
           /\ m.parts \in Seq(Asking!Kinds) /\ Len(m.parts) \in 0..3
           /\ DOMAIN m.parts = 1..Len(m.parts) /\ DOMAIN m.parts \subseteq 1..3
           /\ \A j \in DOMAIN m.parts : m.parts[j] \in Asking!Kinds
           /\ m.parts # <<>> => 1 \in DOMAIN m.parts
<1>1. m.role \in Roles /\ m.parts \in PartLists
  BY DEF Asking!Messages
<1>2. m.parts \in Seq(Asking!Kinds) /\ Len(m.parts) <= 3
  BY <1>1 DEF Bounded
<1>3. /\ Len(m.parts) \in Nat /\ DOMAIN m.parts = 1..Len(m.parts)
      /\ \A j \in 1..Len(m.parts) : m.parts[j] \in Asking!Kinds
      /\ Len(m.parts) = 0 <=> m.parts = <<>>
  BY <1>2, LenProperties, ElementOfSeq, EmptySeq
<1>4. Len(m.parts) \in 0..3 /\ DOMAIN m.parts \subseteq 1..3
  <2> DEFINE n == Len(m.parts)
  <2>1. n \in Nat /\ n <= 3 /\ DOMAIN m.parts = 1..n
    BY <1>2, <1>3
  <2> HIDE DEF n
  <2>2. n \in 0..3 /\ 1..n \subseteq 1..3
    BY <2>1
  <2> QED BY <2>1, <2>2 DEF n
<1>5. m.parts # <<>> => 1 \in DOMAIN m.parts
  BY <1>3
<1>6. m.role \in {"system", "human", "ai", "generic", "function", "tool"}
  BY <1>1 DEF Bounded
<1> QED BY <1>1, <1>2, <1>3, <1>4, <1>5, <1>6

\* The places of parts of some kinds, part by part.
TellsUpTo(f, n, m, kinds, top) ==
    f = [j \in 0..top |->
            IF j = 0 THEN <<>>
            ELSE IF m.parts[j] \in kinds THEN Append(f[j - 1], <<n, j>>) ELSE f[j - 1]]

(* There is such a list: a smallest number of parts without one cannot be.  *)
LEMMA TellingExists ==
    ASSUME NEW n, NEW m, NEW kinds, NEW top \in Nat
    PROVE  \E f : TellsUpTo(f, n, m, kinds, top)
<1> DEFINE More(f, j) == IF m.parts[j] \in kinds THEN Append(f[j - 1], <<n, j>>) ELSE f[j - 1]
           bad == {t \in Nat : ~ \E f : TellsUpTo(f, n, m, kinds, t)}
<1>1. SUFFICES ASSUME bad # {} PROVE FALSE
  OBVIOUS
<1>2. PICK t \in bad : \A k \in bad : ~(<<k, t>> \in OpToRel(<, Nat))
  BY <1>1, WFMin, NatLessThanWellFounded
<1>3. t # 0
  <2> DEFINE e == [j \in 0..0 |-> <<>>]
  <2>1. e = [j \in 0..0 |-> IF j = 0 THEN <<>> ELSE More(e, j)]
    OBVIOUS
  <2>2. \E f : TellsUpTo(f, n, m, kinds, 0)
    BY <2>1 DEF TellsUpTo
  <2> QED BY <2>2
<1>4. t - 1 \in Nat /\ t - 1 \notin bad
  <2>1. t - 1 \in Nat /\ t \in Nat /\ t - 1 < t
    BY <1>3
  <2>2. <<t - 1, t>> \in OpToRel(<, Nat)
    BY <2>1 DEF OpToRel
  <2> HIDE DEF bad
  <2> QED BY <1>2, <2>1, <2>2
<1>5. PICK f : TellsUpTo(f, n, m, kinds, t - 1)
  BY <1>4
<1> DEFINE g == [j \in 0..t |-> IF j < t THEN f[j] ELSE More(f, t)]
<1>6. \A j \in 0..t : g[j] = IF j = 0 THEN <<>> ELSE More(g, j)
  <2> TAKE j \in 0..t
  <2>1. CASE j < t
    <3>1. j \in 0..(t - 1) /\ g[j] = f[j]
      BY <2>1, <1>4
    <3>2. f[j] = IF j = 0 THEN <<>> ELSE More(f, j)
      BY <3>1, <1>5 DEF TellsUpTo
    <3>3. j # 0 => j - 1 \in 0..t /\ j - 1 < t /\ g[j - 1] = f[j - 1]
      BY <3>1, <1>4
    <3> QED BY <3>1, <3>2, <3>3
  <2>2. CASE j = t
    <3>1. g[j] = More(f, t)
      BY <2>2, <1>4
    <3>2. t - 1 \in 0..t /\ t - 1 < t /\ g[t - 1] = f[t - 1]
      BY <1>4
    <3> QED BY <2>2, <3>1, <3>2, <1>3
  <2> QED BY <2>1, <2>2
<1>7. TellsUpTo(g, n, m, kinds, t)
  <2> DEFINE h == [j \in 0..t |-> IF j = 0 THEN <<>> ELSE More(g, j)]
  <2>1. DOMAIN g = 0..t /\ g = [j \in 0..t |-> g[j]]
    OBVIOUS
  <2> HIDE DEF g
  <2>2. g = h
    BY <1>6, <2>1
  <2> QED BY <2>2 DEF TellsUpTo
<1> QED BY <1>7

(* The places of the parts of some kinds.                                   *)
LEMMA PartsAre ==
    ASSUME Bounded, NEW m \in Asking!Messages, NEW n \in Nat, NEW kinds
    PROVE  /\ Asking!Parts(n, m, kinds) \in Seq(Places(n, m))
           /\ Asking!Elements(Asking!Parts(n, m, kinds)) =
                        {<<n, j>> : j \in {k \in DOMAIN m.parts : m.parts[k] \in kinds}}
<1> DEFINE top == Len(m.parts)
           told == CHOOSE f : TellsUpTo(f, n, m, kinds, top)
           Of(t) == {<<n, j>> : j \in {k \in 1..t : m.parts[k] \in kinds}}
           Good(t) == told[t] \in Seq(Places(n, m)) /\ Asking!Elements(told[t]) = Of(t)
<1>1. top \in Nat /\ DOMAIN m.parts = 1..top
  BY MessageIs
<1>2. Asking!Parts(n, m, kinds) = told[top]
  BY DEF Asking!Parts, TellsUpTo
<1>3. TellsUpTo(told, n, m, kinds, top)
  BY <1>1, TellingExists
<1> HIDE DEF told
<1>4. /\ told[0] = <<>>
      /\ \A j \in 1..top : told[j] = IF m.parts[j] \in kinds THEN Append(told[j - 1], <<n, j>>)
                                     ELSE told[j - 1]
  <2> DEFINE rhs == [j \in 0..top |->
                        IF j = 0 THEN <<>>
                        ELSE IF m.parts[j] \in kinds THEN Append(told[j - 1], <<n, j>>)
                        ELSE told[j - 1]]
  <2>1. told = rhs
    BY <1>3 DEF TellsUpTo
  <2>2. \A j \in 0..top : rhs[j] = IF j = 0 THEN <<>>
                        ELSE IF m.parts[j] \in kinds THEN Append(told[j - 1], <<n, j>>)
                        ELSE told[j - 1]
    OBVIOUS
  <2> HIDE DEF rhs
  <2>3. 0 \in 0..top /\ \A j \in 1..top : j \in 0..top /\ j # 0
    BY <1>1
  <2> QED BY <2>1, <2>2, <2>3
<1>5. Good(top)
  <2> DEFINE bad == {t \in 0..top : ~Good(t)}
  <2>1. SUFFICES ASSUME bad # {} PROVE FALSE
    BY <1>1
  <2>2. bad \in SUBSET Nat
    BY <1>1
  <2>3. PICK t \in bad : \A k \in bad : ~(<<k, t>> \in OpToRel(<, Nat))
    <3> HIDE DEF bad
    <3> QED BY <2>1, <2>2, WFMin, NatLessThanWellFounded
  <2>4. t # 0
    <3>1. 1..0 = {} /\ <<>> \in Seq(Places(n, m))
      OBVIOUS
    <3>2. Of(0) = {}
      BY <3>1
    <3> QED BY <1>4, <3>1, <3>2, ElementsOfFew
  <2>5. t \in 1..top /\ t - 1 \in 0..top /\ t - 1 \in Nat /\ t \in Nat /\ t - 1 < t
    BY <1>1, <2>4
  <2>6. Good(t - 1)
    <3>1. <<t - 1, t>> \in OpToRel(<, Nat)
      BY <2>5 DEF OpToRel
    <3>2. t - 1 \notin bad
      <4> HIDE DEF bad
      <4> QED BY <2>3, <3>1
    <3> QED BY <2>5, <3>2
  <2>7. <<n, t>> \in Places(n, m)
    BY <1>1, <2>5 DEF Places
  <2>8. 1..t = 1..(t - 1) \cup {t}
    BY <2>5
  <2>9. CASE m.parts[t] \in kinds
    <3>1. told[t] = Append(told[t - 1], <<n, t>>)
      BY <1>4, <2>5, <2>9
    <3>2. Asking!Elements(told[t]) = Asking!Elements(told[t - 1]) \cup {<<n, t>>}
      BY <2>6, <2>7, <3>1, ElementsOf
    <3>3. told[t] \in Seq(Places(n, m))
      BY <2>6, <2>7, <3>1, AppendProperties
    <3>4. Of(t) = Of(t - 1) \cup {<<n, t>>}
      BY <2>8, <2>9
    <3> QED BY <2>6, <3>2, <3>3, <3>4
  <2>10. CASE m.parts[t] \notin kinds
    <3>1. told[t] = told[t - 1]
      BY <1>4, <2>5, <2>10
    <3>2. Of(t) = Of(t - 1)
      BY <2>8, <2>10
    <3> QED BY <2>6, <3>1, <3>2
  <2> QED BY <2>9, <2>10
<1> QED BY <1>1, <1>2, <1>5

\* What a client leaves out of a message, whatever comes after it.
Leaves(c, m, j) ==
    \/ c = "anthropic" /\ m.role # "human" /\ j > 1
    \/ c = "bedrockText" /\ m.parts[j] = "binary"
    \/ c = "openai" /\ m.parts[j] = "answer" /\ m.role # "tool"

\* A translation that sends all places of a message but those left out.
Tells(c, n, m, t) ==
    /\ t.parts \in Seq(Places(n, m))
    /\ \A j \in DOMAIN m.parts : <<n, j>> \in Asking!Elements(t.parts) \/ Leaves(c, m, j)

(* A translation that sends at most the first part.                         *)
LEMMA FirstIsTold ==
    ASSUME Bounded, NEW m \in Asking!Messages, NEW n \in Nat, NEW kinds
    PROVE  LET t == Asking!FirstOf(n, m, kinds)
           IN /\ t.verdict = "panic" <=> m.parts = <<>>
              /\ t.verdict = "send" =>
                    /\ t.parts = <<<<n, 1>>>> /\ <<n, 1>> \in Places(n, m)
                    /\ t.parts \in Seq(Places(n, m))
                    /\ Asking!Elements(t.parts) = {<<n, 1>>}
<1>1. CASE m.parts = <<>>
  BY <1>1 DEF Asking!FirstOf, Asking!Panics
<1>2. CASE m.parts # <<>>
  <2>1. Asking!FirstOf(n, m, kinds) = IF Asking!First(m) \in kinds
                                      THEN [verdict |-> "send", parts |-> <<<<n, 1>>>>]
                                      ELSE [verdict |-> "refuse", parts |-> <<>>]
    BY <1>2 DEF Asking!FirstOf, Asking!SendIf, Asking!Sends, Asking!Refuses, Asking!Place
  <2>2. <<n, 1>> \in Places(n, m)
    BY <1>2, MessageIs DEF Places
  <2>3. <<<<n, 1>>>> \in Seq(Places(n, m))
    BY <2>2
  <2>4. Asking!Elements(<<<<n, 1>>>>) = {<<n, 1>>}
    BY ElementsOfFew
  <2>5. Asking!FirstOf(n, m, kinds).verdict # "panic"
    BY <2>1
  <2>6. Asking!FirstOf(n, m, kinds).verdict = "send" => Asking!FirstOf(n, m, kinds).parts = <<<<n, 1>>>>
    BY <2>1
  <2> QED BY <1>2, <2>2, <2>3, <2>4, <2>5, <2>6
<1> QED BY <1>1, <1>2

(* Two lists of places of a message, one after the other.                   *)
LEMMA BothAreTold ==
    ASSUME Bounded, NEW m \in Asking!Messages, NEW n \in Nat, NEW kinds, NEW others
    PROVE  /\ Asking!Parts(n, m, kinds) \o Asking!Parts(n, m, others) \in Seq(Places(n, m))
           /\ \A j \in DOMAIN m.parts : m.parts[j] \in kinds \cup others =>
                 <<n, j>> \in Asking!Elements(Asking!Parts(n, m, kinds) \o Asking!Parts(n, m, others))
<1>1. /\ Asking!Parts(n, m, kinds) \in Seq(Places(n, m))
      /\ Asking!Parts(n, m, others) \in Seq(Places(n, m))
  BY PartsAre
<1>2. /\ Asking!Elements(Asking!Parts(n, m, kinds)) =
                       {<<n, j>> : j \in {k \in DOMAIN m.parts : m.parts[k] \in kinds}}
      /\ Asking!Elements(Asking!Parts(n, m, others)) =
                       {<<n, j>> : j \in {k \in DOMAIN m.parts : m.parts[k] \in others}}
  BY PartsAre
<1>3. Asking!Parts(n, m, kinds) \o Asking!Parts(n, m, others) \in Seq(Places(n, m))
  BY <1>1, ConcatProperties
<1>4. SUFFICES ASSUME NEW j \in DOMAIN m.parts, m.parts[j] \in kinds \cup others
               PROVE  <<n, j>> \in Asking!Elements(Asking!Parts(n, m,
                      kinds) \o Asking!Parts(n, m, others))
  BY <1>3
<1>5. <<n, j>> \in Places(n, m)
  BY DEF Places
<1>6. Asking!Elements(Asking!Parts(n, m, kinds) \o Asking!Parts(n, m, others)) =
                 Asking!Elements(Asking!Parts(n, m, kinds)) \cup Asking!Elements(Asking!Parts(n, m, others))
  BY <1>1, <1>5, ElementsOf
<1> QED BY <1>2, <1>4, <1>6

(* What is sent of a message is what it has, but for what is left out; and only *)
(* a message without parts makes the translation of it panic.                *)
LEMMA TranslationTells ==
    ASSUME Bounded, NEW c \in Asking!Chat, NEW m \in Asking!Messages, NEW n \in Nat
    PROVE  LET t == Asking!Translated(c, n, m)
           IN /\ t.verdict \in {"send", "refuse", "panic"}
              /\ t.verdict = "panic" => m.parts = <<>>
              /\ t.verdict = "send" => Tells(c, n, m, t)
<1> DEFINE t == Asking!Translated(c, n, m)
           Goal == /\ t.verdict \in {"send", "refuse", "panic"}
                   /\ t.verdict = "panic" => m.parts = <<>>
                   /\ t.verdict = "send" => Tells(c, n, m, t)
<1>0. SUFFICES Goal
  OBVIOUS
<1>1. \A j \in DOMAIN m.parts : m.parts[j] \in Asking!Kinds /\ j \in Nat /\ j >= 1
  <2>1. \A j \in 1..3 : j \in Nat /\ j >= 1
    OBVIOUS
  <2> QED BY <2>1, MessageIs
\* A list of all parts of some kinds, sent where there are no others.
<1>2. ASSUME NEW kinds, NEW q, t = Asking!SendIf(q, Asking!Parts(n, m, kinds)),
             q => \A j \in DOMAIN m.parts : m.parts[j] \in kinds \/ Leaves(c, m, j)
      PROVE  Goal
  <2>1. CASE q
    <3>1. t.verdict = "send" /\ t.parts = Asking!Parts(n, m, kinds)
      BY <1>2, <2>1 DEF Asking!SendIf, Asking!Sends
    <3>2. /\ t.parts \in Seq(Places(n, m))
          /\ \A j \in DOMAIN m.parts : m.parts[j] \in kinds => <<n, j>> \in Asking!Elements(t.parts)
      BY <3>1, PartsAre
    <3> QED BY <1>2, <2>1, <3>1, <3>2 DEF Tells
  <2>2. CASE ~q
    <3>1. t.verdict = "refuse"
      BY <1>2, <2>2 DEF Asking!SendIf, Asking!Refuses
    <3> QED BY <3>1
  <2> QED BY <2>1, <2>2
<1>3. ASSUME NEW kinds, NEW others, NEW q,
             t = Asking!SendIf(q, Asking!Parts(n, m, kinds) \o Asking!Parts(n, m, others)),
             q => \A j \in DOMAIN m.parts :
                     m.parts[j] \in kinds \cup others \/ Leaves(c, m, j)
      PROVE  Goal
  <2>1. CASE q
    <3>1. t.verdict = "send" /\ t.parts = Asking!Parts(n, m, kinds) \o Asking!Parts(n, m, others)
      BY <1>3, <2>1 DEF Asking!SendIf, Asking!Sends
    <3>2. /\ t.parts \in Seq(Places(n, m))
          /\ \A j \in DOMAIN m.parts : m.parts[j] \in kinds \cup others
                => <<n, j>> \in Asking!Elements(t.parts)
      BY <3>1, BothAreTold
    <3> QED BY <1>3, <2>1, <3>1, <3>2 DEF Tells
  <2>2. CASE ~q
    <3>1. t.verdict = "refuse"
      BY <1>3, <2>2 DEF Asking!SendIf, Asking!Refuses
    <3> QED BY <3>1
  <2> QED BY <2>1, <2>2
<1>4. CASE c = "openai"
  <2>1. CASE m.role = "tool"
    <3>1. t = Asking!SendIf(m.parts = <<"answer">>, Asking!Place(n))
      BY <1>4, <2>1 DEF Asking!Translated, Asking!OpenAI, Asking!Google, Asking!Single
    <3>2. CASE m.parts = <<"answer">>
      <4>1. t.verdict = "send" /\ t.parts = <<<<n, 1>>>>
        BY <3>1, <3>2 DEF Asking!SendIf, Asking!Sends, Asking!Place
      <4>2. DOMAIN m.parts = {1}
        BY <3>2
      <4>3. <<n, 1>> \in Places(n, m) /\ Asking!Elements(t.parts) = {<<n, 1>>}
        BY <4>1, <4>2, ElementsOfFew DEF Places
      <4>4. t.parts \in Seq(Places(n, m))
        BY <4>1, <4>3
      <4> QED BY <4>1, <4>2, <4>3, <4>4 DEF Tells
    <3>3. CASE m.parts # <<"answer">>
      <4>1. t.verdict = "refuse"
        BY <3>1, <3>3 DEF Asking!SendIf, Asking!Refuses
      <4> QED BY <4>1
    <3> QED BY <3>2, <3>3
  <2>2. CASE m.role # "tool"
    <3>1. t = Asking!SendIf(TRUE, Asking!Parts(n, m, {"text", "image", "binary"}) \o Asking!Parts(n, m, {"call"}))
      BY <1>4, <2>2 DEF Asking!Translated, Asking!OpenAI, Asking!SendIf, Asking!Google,
        Asking!Single
    <3>2. \A j \in DOMAIN m.parts :
             m.parts[j] \in {"text", "image", "binary"} \cup {"call"} \/ Leaves(c, m, j)
      BY <1>1, <1>4, <2>2 DEF Leaves, Asking!Kinds
    <3> QED BY <1>3, <3>1, <3>2
  <2> QED BY <2>1, <2>2
<1>5. CASE c = "anthropic"
  <2>1. CASE m.role = "human"
    <3>1. t = Asking!SendIf(m.parts # <<>> /\ Asking!Only(m, {"text", "binary"}),
                            Asking!Parts(n, m, {"text", "binary"}))
      BY <1>5, <2>1 DEF Asking!Translated, Asking!Anthropic, Asking!Google, Asking!Single
    <3> QED BY <1>2, <3>1 DEF Asking!Only
  <2>2. ASSUME NEW kinds, m.role # "human", t = Asking!FirstOf(n, m, kinds)
        PROVE  Goal
    <3>5. Asking!FirstOf(n, m, kinds).verdict = "panic" => m.parts = <<>>
      BY FirstIsTold
    <3>1. t.verdict = "panic" => m.parts = <<>>
      BY <2>2, <3>5
    <3>2. t.verdict = "send" => /\ t.parts \in Seq(Places(n, m))
                                /\ Asking!Elements(t.parts) = {<<n, 1>>}
      BY <2>2, FirstIsTold
    <3>3. t.verdict \in {"send", "refuse", "panic"}
      BY <2>2 DEF Asking!FirstOf, Asking!SendIf, Asking!Sends, Asking!Refuses, Asking!Panics
    <3>4. \A j \in DOMAIN m.parts : j = 1 \/ Leaves(c, m, j)
      BY <1>1, <1>5, <2>2 DEF Leaves
    <3> QED BY <3>1, <3>2, <3>3, <3>4 DEF Tells
  <2>3. CASE m.role = "system"
    <3>1. t = Asking!FirstOf(n, m, {"text"})
      BY <1>5, <2>3 DEF Asking!Translated, Asking!Anthropic, Asking!Google, Asking!Single
    <3> QED BY <2>2, <2>3, <3>1
  <2>4. CASE m.role = "ai"
    <3>1. t = Asking!FirstOf(n, m, {"call", "text"})
      BY <1>5, <2>4 DEF Asking!Translated, Asking!Anthropic, Asking!Google, Asking!Single
    <3> QED BY <2>2, <2>4, <3>1
  <2>5. CASE m.role = "tool"
    <3>1. t = Asking!FirstOf(n, m, {"answer"})
      BY <1>5, <2>5 DEF Asking!Translated, Asking!Anthropic, Asking!Google, Asking!Single
    <3> QED BY <2>2, <2>5, <3>1
  <2>6. CASE m.role \in {"generic", "function"}
    <3>1. t = Asking!Refuses
      BY <1>5, <2>6 DEF Asking!Translated, Asking!Anthropic, Asking!Google, Asking!Single
    <3>2. t.verdict = "refuse"
      BY <3>1 DEF Asking!Refuses
    <3> QED BY <3>2
  <2> QED BY <2>1, <2>3, <2>4, <2>5, <2>6, MessageIs
<1>6. CASE c = "bedrock"
  <2>1. t = Asking!SendIf(Asking!Only(m, {"text", "binary"}), Asking!Parts(n, m, {"text", "binary"}))
    BY <1>6 DEF Asking!Translated, Asking!Bedrock, Asking!Google, Asking!Single
  <2> QED BY <1>2, <2>1 DEF Asking!Only
<1>7. CASE c = "bedrockText"
  <2>1. t = Asking!SendIf(Asking!Only(m, {"text", "binary"}), Asking!Parts(n, m, {"text"}))
    BY <1>7 DEF Asking!Translated, Asking!BedrockText, Asking!Google, Asking!Single
  <2>2. Asking!Only(m, {"text", "binary"}) =>
                  \A j \in DOMAIN m.parts : m.parts[j] \in {"text"} \/ Leaves(c, m, j)
    BY <1>7 DEF Asking!Only, Leaves
  <2> QED BY <1>2, <2>1, <2>2
<1>8. ASSUME NEW others, t = Asking!SingleText(n, m, others)
      PROVE  Goal
  <2> DEFINE q == Asking!Only(m, {"text"} \cup others) /\ Len(Asking!Parts(n, m, {"text"})) < 2
  <2>1. t = Asking!SendIf(q, Asking!Parts(n, m, {"text"}) \o Asking!Parts(n, m, others))
    BY <1>8 DEF Asking!SingleText
  <2>2. q => \A j \in DOMAIN m.parts : m.parts[j] \in {"text"} \cup others
    BY DEF Asking!Only
  <2> HIDE DEF q
  <2> QED BY <1>3, <2>1, <2>2
<1>9. CASE c \in {"ollama", "llamafile"}
  <2>1. t = Asking!SingleText(n, m, {"binary"})
    BY <1>9 DEF Asking!Translated, Asking!Google, Asking!Single
  <2> QED BY <1>8, <2>1
<1>10. CASE c \in {"maritaca", "cloudflare"}
  <2>1. t = Asking!SingleText(n, m, {})
    BY <1>10 DEF Asking!Translated, Asking!Google, Asking!Single
  <2> QED BY <1>8, <2>1
<1>11. CASE c \in Asking!Google
  <2>1. t = Asking!SendIf(m.role # "function",
                          Asking!Parts(n, m, {"text", "binary", "image", "call", "answer"}))
    BY <1>11 DEF Asking!Translated, Asking!GoogleAI, Asking!Google, Asking!Single
  <2>2. \A j \in DOMAIN m.parts : m.parts[j] \in {"text", "binary", "image", "call", "answer"}
    BY <1>1 DEF Asking!Kinds
  <2> QED BY <1>2, <2>1, <2>2
<1>12. CASE c = "mistral"
  <2>1. t = Asking!SendIf(Asking!Only(m, {"text", "call", "answer"}),
                          Asking!Parts(n, m, {"text", "call", "answer"}))
    BY <1>12 DEF Asking!Translated, Asking!Mistral, Asking!Google, Asking!Single
  <2> QED BY <1>2, <2>1 DEF Asking!Only
<1> QED BY <1>4, <1>5, <1>6, <1>7, <1>9, <1>10, <1>11, <1>12 DEF Asking!Chat, Asking!Google

\* All that is said, and all that is asked in messages.
SaidIn(talk) == UNION {Places(k, talk[k]) : k \in DOMAIN talk}
AskedIn(ms) == UNION {Asking!Elements(ms[k].parts) : k \in DOMAIN ms}

InOrder(ms) ==
    \A k, l \in DOMAIN ms : k < l =>
        \A p \in Asking!Elements(ms[k].parts), q \in Asking!Elements(ms[l].parts) : p[1] <= q[1]

(* The places of a message.                                                 *)
LEMMA PlacesAre ==
    ASSUME Bounded, NEW m \in Asking!Messages, NEW n \in 1..MaxMessages
    PROVE  /\ Places(n, m) \subseteq Asking!Placed
           /\ \A p \in Places(n, m) : p[1] = n /\ p[2] \in DOMAIN m.parts /\ p = <<n, p[2]>>
<1>1. ASSUME NEW j \in DOMAIN m.parts PROVE <<n, j>> \in Asking!Placed
  BY MessageIs DEF Asking!Placed
<1> QED BY <1>1 DEF Places

(* What is said, place by place.                                            *)
LEMMA GivenIs ==
    ASSUME Bounded, NEW talk \in Seq(Asking!Messages), Len(talk) <= MaxMessages
    PROVE  /\ SaidIn(talk) \subseteq Asking!Placed
           /\ \A p : p \in SaidIn(talk) <=>
                 /\ p \in Asking!Placed /\ p[1] \in DOMAIN talk /\ p[2] \in DOMAIN talk[p[1]].parts
           /\ {p \in Asking!Placed : /\ p[1] <= Len(talk) /\ p[2] <= Len(talk[p[1]].parts)
                                     /\ talk[p[1]].parts[p[2]] \in Asking!Kinds
                                     /\ talk[p[1]].role \in Roles} = SaidIn(talk)
<1>1. Len(talk) \in Nat /\ DOMAIN talk = 1..Len(talk) /\ MaxMessages \in Nat
  BY LenProperties DEF Bounded
<1>2. ASSUME NEW k \in DOMAIN talk
      PROVE  /\ k \in 1..MaxMessages /\ talk[k] \in Asking!Messages
             /\ Places(k, talk[k]) \subseteq Asking!Placed
             /\ \A p \in Places(k, talk[k]) : p[1] = k /\ p[2] \in DOMAIN talk[k].parts
  <2>1. k \in 1..MaxMessages /\ talk[k] \in Asking!Messages
    BY <1>1, ElementOfSeq
  <2> QED BY <2>1, PlacesAre
<1>3. ASSUME NEW p \in SaidIn(talk)
      PROVE  p \in Asking!Placed /\ p[1] \in DOMAIN talk /\ p[2] \in DOMAIN talk[p[1]].parts
  <2>1. PICK k \in DOMAIN talk : p \in Places(k, talk[k])
    BY DEF SaidIn
  <2> QED BY <1>2, <2>1
<1>4. ASSUME NEW p \in Asking!Placed, p[1] \in DOMAIN talk, p[2] \in DOMAIN talk[p[1]].parts
      PROVE  p \in SaidIn(talk)
  <2>1. p = <<p[1], p[2]>>
    BY DEF Asking!Placed
  <2>2. p \in Places(p[1], talk[p[1]])
    BY <1>4, <2>1 DEF Places
  <2> QED BY <1>4, <2>2 DEF SaidIn
<1>5. ASSUME NEW p \in Asking!Placed
      PROVE  (/\ p[1] <= Len(talk) /\ p[2] <= Len(talk[p[1]].parts)
              /\ talk[p[1]].parts[p[2]] \in Asking!Kinds
              /\ talk[p[1]].role \in Roles)
             <=> p[1] \in DOMAIN talk /\ p[2] \in DOMAIN talk[p[1]].parts
  <2>1. p[1] \in 1..MaxMessages /\ p[2] \in 1..3
    BY DEF Asking!Placed
  <2>2. p[1] <= Len(talk) <=> p[1] \in DOMAIN talk
    BY <1>1, <2>1
  <2>3. ASSUME p[1] \in DOMAIN talk
        PROVE  /\ p[2] <= Len(talk[p[1]].parts) <=> p[2] \in DOMAIN talk[p[1]].parts
               /\ p[2] \in DOMAIN talk[p[1]].parts => talk[p[1]].parts[p[2]] \in Asking!Kinds
               /\ talk[p[1]].role \in Roles
    <3>1. talk[p[1]] \in Asking!Messages
      BY <1>2, <2>3
    <3>2. /\ Len(talk[p[1]].parts) \in 0..3
          /\ DOMAIN talk[p[1]].parts = 1..Len(talk[p[1]].parts)
          /\ \A j \in DOMAIN talk[p[1]].parts : talk[p[1]].parts[j] \in Asking!Kinds
          /\ talk[p[1]].role \in Roles
      BY <3>1, MessageIs
    <3> QED BY <2>1, <3>2
  <2> QED BY <2>2, <2>3
<1>6. {p \in Asking!Placed : /\ p[1] <= Len(talk) /\ p[2] <= Len(talk[p[1]].parts)
                             /\ talk[p[1]].parts[p[2]] \in Asking!Kinds
                             /\ talk[p[1]].role \in Roles} = SaidIn(talk)
  BY <1>3, <1>4, <1>5
<1>7. SaidIn(talk) \subseteq Asking!Placed
  BY <1>3
<1> QED BY <1>3, <1>4, <1>6, <1>7

(* One message more.                                                        *)
LEMMA SaidGrows ==
    ASSUME Bounded, Asking!TypeOK, NEW m \in Asking!Messages, Asking!Takes(m)
    PROVE  /\ Asking!i \in 1..MaxMessages /\ Asking!i \in Nat /\ Len(conversation) = Asking!i - 1
           /\ conversation' \in Seq(Asking!Messages) /\ Len(conversation') = Asking!i
           /\ Len(conversation) <= MaxMessages /\ Len(conversation') <= MaxMessages
           /\ DOMAIN conversation' = 1..Asking!i /\ DOMAIN conversation = 1..(Asking!i - 1)
           /\ conversation'[Asking!i] = m
           /\ \A k \in DOMAIN conversation :
                 k \in DOMAIN conversation' /\ conversation'[k] = conversation[k]
           /\ SaidIn(conversation') = SaidIn(conversation) \cup Places(Asking!i, m)
<1>1. /\ conversation \in Seq(Asking!Messages) /\ conversation' = Append(conversation, m)
      /\ Len(conversation) < MaxMessages /\ MaxMessages \in Nat
  BY DEF Asking!TypeOK, Asking!Takes, Bounded
<1>2. Len(conversation) \in Nat /\ DOMAIN conversation = 1..Len(conversation)
  BY <1>1, LenProperties
<1>3. Asking!i = Len(conversation) + 1
  BY DEF Asking!i
<1>4. Asking!i \in 1..MaxMessages /\ Asking!i \in Nat /\ Len(conversation) = Asking!i - 1
  BY <1>1, <1>2, <1>3
<1>5. /\ conversation' \in Seq(Asking!Messages) /\ Len(conversation') = Asking!i
      /\ \A k \in 1..Len(conversation) : conversation'[k] = conversation[k]
      /\ conversation'[Asking!i] = m
  BY <1>1, <1>3, AppendProperties
<1>6. DOMAIN conversation' = 1..Asking!i
  BY <1>5, LenProperties
<1>7. \A k : k \in DOMAIN conversation' <=> k \in DOMAIN conversation \/ k = Asking!i
  BY <1>2, <1>4, <1>6
<1>8. SaidIn(conversation') = SaidIn(conversation) \cup Places(Asking!i, m)
  <2>1. \A k \in DOMAIN conversation :
           Places(k, conversation'[k]) = Places(k, conversation[k])
    BY <1>2, <1>5 DEF Places
  <2> QED BY <1>5, <1>7, <2>1 DEF SaidIn
<1> QED BY <1>1, <1>2, <1>4, <1>5, <1>6, <1>7, <1>8

(* What is asked in messages put together.                                  *)
LEMMA AskedGrows ==
    ASSUME NEW ms \in Seq(Asking!Requests), NEW new \in Seq(Asking!Requests)
    PROVE  /\ ms \o new \in Seq(Asking!Requests)
           /\ AskedIn(ms \o new) = AskedIn(ms) \cup AskedIn(new)
           /\ \A k \in DOMAIN (ms \o new) :
                 \/ /\ k \in DOMAIN ms /\ k <= Len(ms) /\ (ms \o new)[k] = ms[k]
                 \/ /\ k > Len(ms) /\ k - Len(ms) \in DOMAIN new
                    /\ (ms \o new)[k] = new[k - Len(ms)]
<1>1. /\ Len(ms) \in Nat /\ Len(new) \in Nat
      /\ DOMAIN ms = 1..Len(ms) /\ DOMAIN new = 1..Len(new)
  BY LenProperties
<1>2. /\ ms \o new \in Seq(Asking!Requests) /\ Len(ms \o new) = Len(ms) + Len(new)
      /\ \A k \in 1..Len(ms) : (ms \o new)[k] = ms[k]
      /\ \A k \in 1..Len(new) : (ms \o new)[Len(ms) + k] = new[k]
  BY ConcatProperties
<1>3. DOMAIN (ms \o new) = 1..(Len(ms) + Len(new))
  BY <1>2, LenProperties
<1>4. ASSUME NEW k \in DOMAIN (ms \o new)
      PROVE  \/ /\ k \in DOMAIN ms /\ k <= Len(ms) /\ (ms \o new)[k] = ms[k]
             \/ /\ k > Len(ms) /\ k - Len(ms) \in DOMAIN new
                /\ (ms \o new)[k] = new[k - Len(ms)]
  <2>1. CASE k <= Len(ms)
    BY <1>1, <1>2, <1>3, <2>1
  <2>2. CASE k > Len(ms)
    <3>1. k - Len(ms) \in 1..Len(new) /\ Len(ms) + (k - Len(ms)) = k
      BY <1>1, <1>3, <2>2
    <3>2. (ms \o new)[k] = new[k - Len(ms)]
      BY <1>2, <3>1
    <3> QED BY <1>1, <2>2, <3>1, <3>2
  <2> QED BY <1>1, <1>3, <2>1, <2>2
<1>5. \A k \in DOMAIN ms : k \in DOMAIN (ms \o new) /\ (ms \o new)[k] = ms[k]
  BY <1>1, <1>2, <1>3
<1>6. \A k \in DOMAIN new :
         Len(ms) + k \in DOMAIN (ms \o new) /\ (ms \o new)[Len(ms) + k] = new[k]
  BY <1>1, <1>2, <1>3
<1>7. AskedIn(ms \o new) \subseteq AskedIn(ms) \cup AskedIn(new)
  BY <1>4 DEF AskedIn
<1>8. AskedIn(ms) \subseteq AskedIn(ms \o new)
  BY <1>5 DEF AskedIn
<1>9. AskedIn(new) \subseteq AskedIn(ms \o new)
  BY <1>6 DEF AskedIn
<1> QED BY <1>2, <1>4, <1>7, <1>8, <1>9


\* The request of a conversation says what was said, each under its role.
NewRequests(c, n, m) == [role : {Asking!RoleOf(c, m.role)}, parts : Seq(Places(n, m))]

KeptIn(c, talk, ms) ==
    \A k \in DOMAIN ms : \A p \in Asking!Elements(ms[k].parts) :
        ms[k].role = Asking!RoleOf(c, talk[p[1]].role)

(* A role of a request.                                                     *)
LEMMA RolesAre ==
    ASSUME NEW c, NEW role \in {"system", "human", "ai", "generic", "function", "tool"}
    PROVE  Asking!RoleOf(c, role) \in {"user", "assistant", "system", "tool", "function",
           "generic"}
<1>1. CASE role = "human" BY <1>1 DEF Asking!RoleOf
<1>2. CASE role = "generic" BY <1>2 DEF Asking!RoleOf
<1>3. CASE role = "ai" BY <1>3 DEF Asking!RoleOf
<1>4. CASE role = "system" BY <1>4 DEF Asking!RoleOf
<1>5. CASE role = "tool" BY <1>5 DEF Asking!RoleOf
<1>6. CASE role = "function" BY <1>6 DEF Asking!RoleOf
<1> QED BY <1>1, <1>2, <1>3, <1>4, <1>5, <1>6

(* What new requests say is of their message.                               *)
LEMMA NewAre ==
    ASSUME Bounded, NEW m \in Asking!Messages, NEW n \in 1..MaxMessages, NEW c,
           NEW new \in Seq(NewRequests(c, n, m))
    PROVE  /\ new \in Seq(Asking!Requests)
           /\ AskedIn(new) \subseteq Places(n, m)
           /\ \A k \in DOMAIN new : new[k].role = Asking!RoleOf(c, m.role)
           /\ \A k \in DOMAIN new : Asking!Elements(new[k].parts) \subseteq Places(n, m)
<1>1. Asking!RoleOf(c, m.role) \in {"user", "assistant", "system", "tool", "function", "generic"}
  BY MessageIs, RolesAre
<1>2. Places(n, m) \subseteq Asking!Placed
  BY PlacesAre
<1>3. Seq(Places(n, m)) \subseteq Seq(Asking!Placed)
  BY <1>2
<1>4. NewRequests(c, n, m) \subseteq Asking!Requests
  BY <1>1, <1>3 DEF NewRequests, Asking!Requests
<1>5. new \in Seq(Asking!Requests)
  BY <1>4
<1>6. ASSUME NEW k \in DOMAIN new
      PROVE  new[k].role = Asking!RoleOf(c,
             m.role) /\ Asking!Elements(new[k].parts) \subseteq Places(n, m)
  <2>1. new[k] \in NewRequests(c, n, m)
    BY ElementOfSeq, LenProperties
  <2>2. new[k].role = Asking!RoleOf(c, m.role) /\ new[k].parts \in Seq(Places(n, m))
    BY <2>1 DEF NewRequests
  <2>3. \A j \in DOMAIN new[k].parts : new[k].parts[j] \in Places(n, m)
    BY <2>2, ElementOfSeq, LenProperties
  <2> QED BY <2>2, <2>3 DEF Asking!Elements
<1>7. AskedIn(new) \subseteq Places(n, m)
  BY <1>6 DEF AskedIn
<1> QED BY <1>5, <1>6, <1>7

(* What is asked later is said later.                                       *)
LEMMA OrderGrows ==
    ASSUME NEW ms \in Seq(Asking!Requests), NEW new \in Seq(Asking!Requests), NEW n \in Nat,
           InOrder(ms),
           \A p \in AskedIn(ms) : p[1] \in Nat /\ p[1] <= n,
           \A p \in AskedIn(new) : p[1] = n
    PROVE  InOrder(ms \o new)
<1>1. SUFFICES ASSUME NEW k \in DOMAIN (ms \o new), NEW l \in DOMAIN (ms \o new), k < l,
                      NEW p \in Asking!Elements((ms \o new)[k].parts),
                      NEW q \in Asking!Elements((ms \o new)[l].parts)
               PROVE  p[1] <= q[1]
  BY DEF InOrder
<1>2. k \in Nat /\ l \in Nat /\ Len(ms) \in Nat
  <2>1. DOMAIN (ms \o new) = 1..Len(ms \o new) /\ Len(ms \o new) \in Nat
    BY AskedGrows, LenProperties
  <2> QED BY <2>1, LenProperties
<1>3. CASE k \in DOMAIN ms /\ k <= Len(ms) /\ (ms \o new)[k] = ms[k]
  <2>1. CASE l \in DOMAIN ms /\ l <= Len(ms) /\ (ms \o new)[l] = ms[l]
    BY <1>1, <1>3, <2>1 DEF InOrder
  <2>2. CASE l - Len(ms) \in DOMAIN new /\ (ms \o new)[l] = new[l - Len(ms)]
    <3>1. q \in AskedIn(new)
      BY <2>2 DEF AskedIn
    <3>2. p \in AskedIn(ms)
      BY <1>3 DEF AskedIn
    <3> QED BY <3>1, <3>2
  <2> QED BY <2>1, <2>2, AskedGrows
<1>4. CASE k > Len(ms) /\ k - Len(ms) \in DOMAIN new /\ (ms \o new)[k] = new[k - Len(ms)]
  <2>1. p \in AskedIn(new)
    BY <1>4 DEF AskedIn
  <2>2. ~(l <= Len(ms))
    BY <1>1, <1>2, <1>4
  <2>3. l - Len(ms) \in DOMAIN new /\ (ms \o new)[l] = new[l - Len(ms)]
    BY <2>2, AskedGrows
  <2>4. q \in AskedIn(new)
    BY <2>3 DEF AskedIn
  <2> QED BY <2>1, <2>4
<1> QED BY <1>3, <1>4, AskedGrows

(* More parts in the last message of a request.                             *)
LEMMA LastGrows ==
    ASSUME NEW ms \in Seq(Asking!Requests), ms # <<>>, NEW more \in Seq(Asking!Placed)
    PROVE  LET grown == [ms EXCEPT ![Len(ms)].parts = @ \o more]
           IN /\ grown \in Seq(Asking!Requests) /\ DOMAIN grown = DOMAIN ms
              /\ Len(grown) = Len(ms)
              /\ Len(ms) \in DOMAIN ms
              /\ \A k \in DOMAIN ms : grown[k].role = ms[k].role
              /\ \A k \in DOMAIN ms : k # Len(ms) => grown[k] = ms[k]
              /\ Asking!Elements(grown[Len(ms)].parts) =
                           Asking!Elements(ms[Len(ms)].parts) \cup Asking!Elements(more)
              /\ AskedIn(grown) = AskedIn(ms) \cup Asking!Elements(more)
<1> DEFINE n == Len(ms)
           grown == [ms EXCEPT ![n].parts = @ \o more]
<1>1. n \in Nat /\ n # 0 /\ DOMAIN ms = 1..n /\ n \in 1..n
  <2>1. n \in Nat /\ DOMAIN ms = 1..n /\ n # 0
    BY LenProperties, EmptySeq
  <2> HIDE DEF n
  <2> QED BY <2>1
<1>2. ms[n] \in Asking!Requests
  BY <1>1, ElementOfSeq
<1>3. ms[n].parts \in Seq(Asking!Placed)
  BY <1>2 DEF Asking!Requests
<1> DEFINE last == [ms[n] EXCEPT !.parts = @ \o more]
<1>4. ms[n].parts \o more \in Seq(Asking!Placed)
  BY <1>3, ConcatProperties
<1>5. /\ last \in Asking!Requests /\ last.role = ms[n].role
      /\ last.parts = ms[n].parts \o more
  BY <1>2, <1>4 DEF Asking!Requests
<1>6. grown = [ms EXCEPT ![n] = last]
  OBVIOUS
<1> HIDE DEF last
<1>7. grown \in Seq(Asking!Requests) /\ Len(grown) = n
  <2> HIDE DEF n, grown
  <2> QED BY <1>1, <1>5, <1>6, ExceptSeq DEF n
<1>8. DOMAIN grown = DOMAIN ms /\ grown[n] = last /\ \A k \in DOMAIN ms : k # n => grown[k] = ms[k]
  BY <1>1, <1>6
<1> HIDE DEF grown, n
<1>9. Asking!Elements(grown[n].parts) = Asking!Elements(ms[n].parts) \cup Asking!Elements(more)
  <2>1. CASE Asking!Placed = {}
    <3>1. more = <<>> /\ ms[n].parts = <<>>
      BY <1>3, <2>1
    <3>2. ms[n].parts \o more = <<>>
      BY <3>1
    <3>3. grown[n].parts = <<>>
      BY <1>5, <1>8, <3>2
    <3>4. /\ Asking!Elements(grown[n].parts) = {} /\ Asking!Elements(ms[n].parts) = {}
          /\ Asking!Elements(more) = {}
      BY <3>1, <3>3, ElementsOfFew
    <3> QED BY <3>4
  <2>2. ASSUME NEW e \in Asking!Placed PROVE Asking!Elements(grown[n].parts) =
                                                      Asking!Elements(ms[n].parts) \cup Asking!Elements(more)
    <3>1. grown[n].parts = ms[n].parts \o more
      BY <1>5, <1>8
    <3>2. Asking!Elements(ms[n].parts \o more) = Asking!Elements(ms[n].parts) \cup Asking!Elements(more)
      BY <1>3, ElementsOf
    <3> QED BY <3>1, <3>2
  <2> QED BY <2>1, <2>2
<1>10. AskedIn(grown) = AskedIn(ms) \cup Asking!Elements(more)
  <2>1. AskedIn(grown) \subseteq AskedIn(ms) \cup Asking!Elements(more)
    BY <1>1, <1>8, <1>9 DEF AskedIn
  <2>2. AskedIn(ms) \subseteq AskedIn(grown)
    BY <1>1, <1>8, <1>9 DEF AskedIn
  <2>3. Asking!Elements(more) \subseteq AskedIn(grown)
    BY <1>1, <1>8, <1>9 DEF AskedIn
  <2> QED BY <2>1, <2>2, <2>3
<1>11. \A k \in DOMAIN ms : grown[k].role = ms[k].role
  BY <1>5, <1>8
<1> QED BY <1>1, <1>7, <1>8, <1>9, <1>10, <1>11 DEF grown, n

(* It is still told in order.                                               *)
LEMMA OrderStays ==
    ASSUME NEW ms \in Seq(Asking!Requests), ms # <<>>, NEW more \in Seq(Asking!Placed),
           NEW n \in Nat,
           InOrder(ms),
           \A p \in AskedIn(ms) : p[1] \in Nat /\ p[1] <= n,
           \A p \in Asking!Elements(more) : p[1] = n
    PROVE  InOrder([ms EXCEPT ![Len(ms)].parts = @ \o more])
<1> DEFINE grown == [ms EXCEPT ![Len(ms)].parts = @ \o more]
<1>1. /\ DOMAIN grown = DOMAIN ms /\ Len(ms) \in DOMAIN ms
      /\ \A k \in DOMAIN ms : k # Len(ms) => grown[k] = ms[k]
      /\ Asking!Elements(grown[Len(ms)].parts) = Asking!Elements(ms[Len(ms)].parts) \cup Asking!Elements(more)
  BY LastGrows
<1> HIDE DEF grown
<1>2. SUFFICES ASSUME NEW k \in DOMAIN ms, NEW l \in DOMAIN ms, k < l,
                      NEW p \in Asking!Elements(grown[k].parts),
                      NEW q \in Asking!Elements(grown[l].parts)
               PROVE  p[1] <= q[1]
  BY <1>1 DEF InOrder, grown
<1>3. k # Len(ms) /\ grown[k] = ms[k] /\ p \in AskedIn(ms)
  <2>1. DOMAIN ms = 1..Len(ms) /\ Len(ms) \in Nat
    BY LenProperties
  <2>2. k # Len(ms)
    BY <1>2, <2>1
  <2> QED BY <1>1, <2>2 DEF AskedIn
<1>4. CASE q \in Asking!Elements(ms[l].parts)
  BY <1>2, <1>3, <1>4 DEF InOrder
<1>5. CASE q \in Asking!Elements(more)
  BY <1>3, <1>5
<1>6. q \in Asking!Elements(ms[l].parts) \/ q \in Asking!Elements(more)
  BY <1>1
<1> QED BY <1>4, <1>5, <1>6

(* What is told, state by state.                                            *)
LEMMA ToldIs ==
    ASSUME Bounded, Asking!TypeOK
    PROVE  /\ Asking!Given(Asking!Kinds, Roles) = SaidIn(conversation)
           /\ Asking!Requested = Asking!Elements(system) \cup AskedIn(messages)
           /\ Asking!MessagesInOrder <=> InOrder(messages)
           /\ Asking!ToldInv => /\ Asking!Requested \subseteq SaidIn(conversation)
                                /\ \A p \in Asking!Requested : /\ p[1] \in DOMAIN conversation
                                                               /\ p[1] \in Nat /\ p[1] <= Len(conversation)
           /\ Asking!ToldInv /\ client \in Asking!Chat /\ outcome # "sent"
                        => KeptIn(client, conversation, messages)
<1>1. conversation \in Seq(Asking!Messages) /\ Len(conversation) <= MaxMessages
  BY DEF Asking!TypeOK
<1>2. Asking!Given(Asking!Kinds, Roles) = SaidIn(conversation)
  BY <1>1, GivenIs DEF Asking!Given
<1>3. Asking!Requested = Asking!Elements(system) \cup AskedIn(messages)
  BY DEF Asking!Requested, AskedIn
<1>4. Asking!MessagesInOrder <=> InOrder(messages)
  BY DEF Asking!MessagesInOrder, InOrder
<1>5. ASSUME Asking!ToldInv
      PROVE  /\ Asking!Requested \subseteq SaidIn(conversation)
             /\ \A p \in Asking!Requested : /\ p[1] \in DOMAIN conversation
                                            /\ p[1] \in Nat /\ p[1] <= Len(conversation)
  <2>1. Asking!Requested \subseteq SaidIn(conversation)
    BY <1>2, <1>5 DEF Asking!ToldInv
  <2>2. DOMAIN conversation = 1..Len(conversation) /\ Len(conversation) \in Nat
    BY <1>1, LenProperties
  <2>3. \A p \in SaidIn(conversation) : p[1] \in DOMAIN conversation
    BY <1>1, GivenIs
  <2> QED BY <2>1, <2>2, <2>3
<1>6. ASSUME Asking!ToldInv, client \in Asking!Chat, outcome # "sent"
      PROVE  KeptIn(client, conversation, messages)
  <2>1. client \notin Asking!Single
    BY <1>6 DEF Asking!Chat, Asking!Single
  <2> QED BY <1>6, <2>1 DEF Asking!ToldInv, Asking!RolesKept, KeptIn
<1> QED BY <1>2, <1>3, <1>4, <1>5, <1>6

(* After a message, what is told was said, in its order and under its role. *)
LEMMA ToldAfter ==
    ASSUME Bounded, Asking!TypeOK, NEW m \in Asking!Messages, Asking!Takes(m),
           client' = client,
           client \in Asking!Clients,
           Asking!Elements(system') \subseteq SaidIn(conversation'),
           AskedIn(messages') \subseteq SaidIn(conversation'),
           InOrder(messages'),
           client \in Asking!Chat => KeptIn(client, conversation', messages')
    PROVE  Asking!ToldInv'
<1>1. conversation' \in Seq(Asking!Messages) /\ Len(conversation') <= MaxMessages
  BY SaidGrows
<1>2. Asking!Given(Asking!Kinds, Roles)' = SaidIn(conversation')
  BY <1>1, GivenIs DEF Asking!Given
<1>3. Asking!Requested' = Asking!Elements(system') \cup AskedIn(messages')
  BY DEF Asking!Requested, AskedIn
<1>4. Asking!MessagesInOrder'
  BY DEF Asking!MessagesInOrder, InOrder
<1>5. Asking!RolesKept'
  <2>1. CASE client \in Asking!Single
    BY <2>1 DEF Asking!RolesKept
  <2>2. CASE client \in Asking!Chat
    BY <2>2 DEF Asking!RolesKept, KeptIn
  <2> QED BY <2>1, <2>2 DEF Asking!Clients
<1>6. Asking!Requested' \subseteq Asking!Given(Asking!Kinds, Roles)'
  BY <1>2, <1>3
<1> QED BY <1>4, <1>5, <1>6 DEF Asking!ToldInv

(* A message makes new messages of the request, or none.                    *)
LEMMA RequestsGrow ==
    ASSUME Bounded, Asking!TypeOK, Asking!ToldInv, NEW m \in Asking!Messages,
           Asking!Takes(m), client' = client,
           NEW new \in Seq(NewRequests(client, Asking!i, m)), messages' = messages \o new,
           Asking!Elements(system') \subseteq SaidIn(conversation')
    PROVE  /\ messages' \in Seq(Asking!Requests)
           /\ AskedIn(messages') = AskedIn(messages) \cup AskedIn(new)
           /\ Asking!ToldInv'
<1>1. /\ Asking!i \in 1..MaxMessages /\ Asking!i \in Nat /\ Len(conversation) = Asking!i - 1
      /\ conversation'[Asking!i] = m
      /\ \A k \in DOMAIN conversation : conversation'[k] = conversation[k]
      /\ SaidIn(conversation') = SaidIn(conversation) \cup Places(Asking!i, m)
  BY SaidGrows
<1>2. /\ new \in Seq(Asking!Requests) /\ AskedIn(new) \subseteq Places(Asking!i, m)
      /\ \A k \in DOMAIN new : new[k].role = Asking!RoleOf(client, m.role)
      /\ \A k \in DOMAIN new : Asking!Elements(new[k].parts) \subseteq Places(Asking!i, m)
  BY <1>1, NewAre
<1>3. \A p \in Places(Asking!i, m) : p[1] = Asking!i
  BY <1>1, PlacesAre
<1>4. /\ messages \in Seq(Asking!Requests) /\ outcome = "open" /\ client \in Asking!Clients
  BY DEF Asking!TypeOK, Asking!Takes
<1>5. /\ messages' \in Seq(Asking!Requests)
      /\ AskedIn(messages') = AskedIn(messages) \cup AskedIn(new)
  BY <1>2, <1>4, AskedGrows
<1>6. /\ AskedIn(messages) \subseteq SaidIn(conversation)
      /\ \A p \in AskedIn(messages) : /\ p[1] \in DOMAIN conversation
                                      /\ p[1] \in Nat /\ p[1] <= Len(conversation)
      /\ InOrder(messages)
      /\ client \in Asking!Chat => KeptIn(client, conversation, messages)
  BY <1>4, ToldIs DEF Asking!ToldInv
<1>7. InOrder(messages')
  <2>1. \A p \in AskedIn(messages) : p[1] \in Nat /\ p[1] <= Asking!i
    BY <1>1, <1>6
  <2>2. \A p \in AskedIn(new) : p[1] = Asking!i
    BY <1>2, <1>3
  <2> HIDE DEF Asking!i
  <2> QED BY <1>1, <1>2, <1>4, <1>6, <2>1, <2>2, OrderGrows
<1>8. ASSUME client \in Asking!Chat PROVE KeptIn(client, conversation', messages')
  <2>1. SUFFICES ASSUME NEW k \in DOMAIN (messages \o new),
                        NEW p \in Asking!Elements((messages \o new)[k].parts)
                 PROVE  (messages \o new)[k].role = Asking!RoleOf(client,
                        conversation'[p[1]].role)
    BY DEF KeptIn
  <2>2. CASE k \in DOMAIN messages /\ (messages \o new)[k] = messages[k]
    <3>1. p \in AskedIn(messages)
      BY <2>1, <2>2 DEF AskedIn
    <3>2. messages[k].role = Asking!RoleOf(client, conversation[p[1]].role)
      BY <1>6, <1>8, <2>1, <2>2 DEF KeptIn
    <3> QED BY <1>1, <1>6, <2>2, <3>1, <3>2
  <2>3. CASE /\ k - Len(messages) \in DOMAIN new
             /\ (messages \o new)[k] = new[k - Len(messages)]
    <3>1. p[1] = Asking!i
      BY <1>2, <1>3, <2>1, <2>3
    <3> QED BY <1>1, <1>2, <2>3, <3>1
  <2> QED BY <1>2, <1>4, <2>2, <2>3, AskedGrows
<1>9. Asking!ToldInv'
  BY <1>1, <1>2, <1>4, <1>5, <1>6, <1>7, <1>8, ToldAfter
<1> QED BY <1>5, <1>9

(* A message goes into the last one of the request, which has its role.     *)
LEMMA RequestsJoin ==
    ASSUME Bounded, Asking!TypeOK, Asking!ToldInv, NEW m \in Asking!Messages,
           Asking!Takes(m), client' = client,
           NEW more \in Seq(Places(Asking!i, m)), messages # <<>>,
           messages' = [messages EXCEPT ![Len(messages)].parts = @ \o more],
           messages[Len(messages)].role = Asking!RoleOf(client, m.role),
           Asking!Elements(system') \subseteq SaidIn(conversation')
    PROVE  /\ messages' \in Seq(Asking!Requests)
           /\ AskedIn(messages') = AskedIn(messages) \cup Asking!Elements(more)
           /\ Asking!ToldInv'
<1>1. /\ Asking!i \in 1..MaxMessages /\ Asking!i \in Nat /\ Len(conversation) = Asking!i - 1
      /\ conversation'[Asking!i] = m
      /\ \A k \in DOMAIN conversation : conversation'[k] = conversation[k]
      /\ SaidIn(conversation') = SaidIn(conversation) \cup Places(Asking!i, m)
  BY SaidGrows
<1>2. Places(Asking!i, m) \subseteq Asking!Placed /\ \A p \in Places(Asking!i, m) : p[1] = Asking!i
  BY <1>1, PlacesAre
<1>3. more \in Seq(Asking!Placed) /\ Asking!Elements(more) \subseteq Places(Asking!i, m)
  <2>1. \A k \in DOMAIN more : more[k] \in Places(Asking!i, m)
    BY ElementOfSeq, LenProperties
  <2> QED BY <1>2, <2>1 DEF Asking!Elements
<1>4. /\ messages \in Seq(Asking!Requests) /\ outcome = "open" /\ client \in Asking!Clients
  BY DEF Asking!TypeOK, Asking!Takes
<1>5. /\ messages' \in Seq(Asking!Requests) /\ DOMAIN messages' = DOMAIN messages
      /\ \A k \in DOMAIN messages : messages'[k].role = messages[k].role
      /\ \A k \in DOMAIN messages : k # Len(messages) => messages'[k] = messages[k]
      /\ Asking!Elements(messages'[Len(messages)].parts) =
                   Asking!Elements(messages[Len(messages)].parts) \cup Asking!Elements(more)
      /\ AskedIn(messages') = AskedIn(messages) \cup Asking!Elements(more)
  BY <1>3, <1>4, LastGrows
<1>6. /\ AskedIn(messages) \subseteq SaidIn(conversation)
      /\ \A p \in AskedIn(messages) : /\ p[1] \in DOMAIN conversation
                                      /\ p[1] \in Nat /\ p[1] <= Len(conversation)
      /\ InOrder(messages)
      /\ client \in Asking!Chat => KeptIn(client, conversation, messages)
  BY <1>4, ToldIs DEF Asking!ToldInv
<1>7. InOrder(messages')
  <2>1. \A p \in AskedIn(messages) : p[1] \in Nat /\ p[1] <= Asking!i
    BY <1>1, <1>6
  <2>2. \A p \in Asking!Elements(more) : p[1] = Asking!i
    BY <1>2, <1>3
  <2> HIDE DEF Asking!i
  <2> QED BY <1>1, <1>3, <1>4, <1>6, <2>1, <2>2, OrderStays
<1>8. ASSUME client \in Asking!Chat PROVE KeptIn(client, conversation', messages')
  <2>1. SUFFICES ASSUME NEW k \in DOMAIN messages, NEW p \in Asking!Elements(messages'[k].parts)
                 PROVE  messages'[k].role = Asking!RoleOf(client, conversation'[p[1]].role)
    BY <1>5 DEF KeptIn
  <2>2. CASE p \in Asking!Elements(messages[k].parts)
    <3>1. p \in AskedIn(messages)
      BY <2>1, <2>2 DEF AskedIn
    <3>2. messages[k].role = Asking!RoleOf(client, conversation[p[1]].role)
      BY <1>6, <1>8, <2>1, <2>2 DEF KeptIn
    <3> QED BY <1>1, <1>5, <1>6, <2>1, <3>1, <3>2
  <2>3. CASE k = Len(messages) /\ p \in Asking!Elements(more)
    <3>1. p[1] = Asking!i
      BY <1>2, <1>3, <2>3
    <3> QED BY <1>1, <1>5, <2>1, <2>3, <3>1
  <2> QED BY <1>5, <2>1, <2>2, <2>3
<1>9. AskedIn(messages') \subseteq SaidIn(conversation')
  BY <1>1, <1>3, <1>5, <1>6
<1>10. Asking!ToldInv'
  BY <1>4, <1>7, <1>8, <1>9, ToldAfter
<1> QED BY <1>5, <1>10

(* What has been lost stays lost.                                           *)
LEMMA LostStays ==
    ASSUME Bounded, Asking!TypeOK, NEW m \in Asking!Messages, Asking!Takes(m),
           client' = client,
           NEW p \in SaidIn(conversation), Asking!Lost(p)
    PROVE  Asking!Lost(p)'
<1>1. /\ Asking!i \in Nat /\ Len(conversation) = Asking!i - 1 /\ Len(conversation') = Asking!i
      /\ DOMAIN conversation = 1..(Asking!i - 1)
      /\ \A k \in DOMAIN conversation : conversation'[k] = conversation[k]
  BY SaidGrows
<1>2. p[1] \in DOMAIN conversation
  BY GivenIs DEF Asking!TypeOK
<1>3. conversation'[p[1]] = conversation[p[1]]
  BY <1>1, <1>2
<1>4. ASSUME NEW k \in p[1]+1..Len(conversation), conversation[k].role = "system"
      PROVE  k \in p[1]+1..Len(conversation') /\ conversation'[k].role = "system"
  <2> HIDE DEF Asking!i
  <2>1. k \in DOMAIN conversation /\ k \in p[1]+1..Len(conversation')
    BY <1>1, <1>2
  <2> QED BY <1>1, <1>4, <2>1
<1> QED BY <1>3, <1>4 DEF Asking!Lost

(* Nothing is lost but what is known.                                       *)
LEMMA LossAfter ==
    ASSUME Bounded, Asking!TypeOK, Asking!ToldInv, Asking!LossInv,
           NEW m \in Asking!Messages, Asking!Takes(m), client' = client,
           client \in Asking!Chat,
           LET t == Asking!Translated(client, Asking!i, m)
           IN /\ t.verdict = "send" /\ Asking!Elements(t.parts) \subseteq Asking!Requested'
              /\ \A p \in Asking!Requested \ Asking!Requested' :
                    client \in Asking!Google /\ m.role = "system" /\ conversation[p[1]].role = "system"
    PROVE  Asking!LossInv'
<1>1. /\ Asking!i \in 1..MaxMessages /\ Asking!i \in Nat /\ Len(conversation) = Asking!i - 1
      /\ Len(conversation') = Asking!i /\ conversation'[Asking!i] = m
      /\ DOMAIN conversation = 1..(Asking!i - 1)
      /\ \A k \in DOMAIN conversation : conversation'[k] = conversation[k]
      /\ SaidIn(conversation') = SaidIn(conversation) \cup Places(Asking!i, m)
      /\ conversation' \in Seq(Asking!Messages) /\ Len(conversation') <= MaxMessages
  BY SaidGrows
<1>2. Asking!Given(Asking!Kinds, Roles)' = SaidIn(conversation')
  BY <1>1, GivenIs DEF Asking!Given
<1>3. SUFFICES ASSUME NEW p \in SaidIn(conversation'), p \notin Asking!Requested'
               PROVE  Asking!Lost(p)'
  BY <1>2 DEF Asking!LossInv
<1>4. CASE p \in Places(Asking!i, m)
  <2>1. p[1] = Asking!i /\ p[2] \in DOMAIN m.parts /\ p = <<Asking!i, p[2]>>
    BY <1>1, <1>4, PlacesAre
  <2>2. Tells(client, Asking!i, m, Asking!Translated(client, Asking!i, m))
    BY <1>1, TranslationTells
  <2>3. Leaves(client, m, p[2])
    <3>1. <<Asking!i, p[2]>> \notin Asking!Elements(Asking!Translated(client, Asking!i, m).parts)
      BY <1>3, <2>1
    <3> QED BY <2>1, <2>2, <3>1 DEF Tells
  <2> QED BY <1>1, <2>1, <2>3 DEF Leaves, Asking!Lost
<1>5. CASE p \in SaidIn(conversation) /\ p \notin Asking!Requested
  <2>1. Asking!Lost(p)
    BY <1>5, ToldIs DEF Asking!LossInv, Asking!Takes
  <2> QED BY <1>5, <2>1, LostStays
<1>6. CASE p \in SaidIn(conversation) /\ p \in Asking!Requested
  <2>1. client \in Asking!Google /\ m.role = "system" /\ conversation[p[1]].role = "system"
    BY <1>3, <1>6
  <2>2. p[1] \in DOMAIN conversation /\ p[1] \in Nat /\ p[1] <= Len(conversation)
    BY <1>6, ToldIs
  <2>3. Asking!i \in p[1]+1..Len(conversation')
    <3> HIDE DEF Asking!i
    <3> QED BY <1>1, <2>2
  <2> QED BY <1>1, <2>1, <2>2, <2>3 DEF Asking!Lost
<1> QED BY <1>1, <1>4, <1>5, <1>6

(* A model that takes one text looks at no message before all are there.    *)
LEMMA SingleSends ==
    ASSUME NEW c \in Asking!Single, NEW n, NEW m
    PROVE  Asking!Translated(c, n, m).verdict = "send" /\ Asking!Translated(c, n,
           m).parts = <<>>
<1>1. Asking!Translated(c, n, m) = Asking!Sends(<<>>)
  BY DEF Asking!Translated, Asking!Single, Asking!Google
<1> QED BY <1>1 DEF Asking!Sends

(* The roles of a request still alternate where they are not changed.       *)
LEMMA AlternateStays ==
    ASSUME Bounded, Asking!TypeOK, Asking!RolesAlternate, NEW m \in Asking!Messages,
           Asking!Takes(m), client' = client,
           Len(messages') = Len(messages),
           \A k \in DOMAIN messages : messages'[k].role = messages[k].role
    PROVE  Asking!RolesAlternate'
<1>1. SUFFICES ASSUME client = "bedrock", NEW k \in 1..Len(messages) - 1
               PROVE  \/ messages'[k].role # messages'[k + 1].role
                      \/ \E l \in DOMAIN conversation' :
                            conversation'[l].role \in {"system", "generic"}
  BY DEF Asking!RolesAlternate
<1>2. k \in DOMAIN messages /\ k + 1 \in DOMAIN messages
  <2> DEFINE n == Len(messages)
  <2>1. n \in Nat /\ DOMAIN messages = 1..n
    BY LenProperties DEF Asking!TypeOK
  <2>2. k \in 1..n - 1
    BY <1>1
  <2> HIDE DEF n
  <2> QED BY <2>1, <2>2
<1>3. \A l \in DOMAIN conversation :
         l \in DOMAIN conversation' /\ conversation'[l] = conversation[l]
  BY SaidGrows
<1> QED BY <1>1, <1>2, <1>3 DEF Asking!RolesAlternate

(* What is apart at googleai is still what system messages say.             *)
LEMMA SystemStays ==
    ASSUME Bounded, Asking!TypeOK, Asking!ToldInv, Asking!SystemInv,
           NEW m \in Asking!Messages, Asking!Takes(m),
           client' = client,
           \A p \in Asking!Elements(system') : p \in Asking!Elements(system)
                                                 \/ (p \in Places(Asking!i, m) /\ m.role = "system"),
           client \in Asking!Google /\ outcome' = "open" /\ messages' = <<>>
              => messages = <<>> /\ m.role = "system"
    PROVE  Asking!SystemInv'
<1>1. /\ Asking!i \in 1..MaxMessages /\ conversation'[Asking!i] = m /\ DOMAIN conversation' = 1..Asking!i
      /\ DOMAIN conversation = 1..(Asking!i - 1) /\ Asking!i \in Nat
      /\ \A k \in DOMAIN conversation : conversation'[k] = conversation[k]
  BY SaidGrows
<1>2. ASSUME client \in Asking!Google, NEW p \in Asking!Elements(system')
      PROVE  conversation'[p[1]].role = "system"
  <2>1. CASE p \in Asking!Elements(system)
    <3>1. conversation[p[1]].role = "system"
      BY <1>2, <2>1 DEF Asking!SystemInv
    <3>2. p[1] \in DOMAIN conversation
      BY <2>1, ToldIs
    <3> QED BY <1>1, <3>1, <3>2
  <2>2. CASE p \in Places(Asking!i, m) /\ m.role = "system"
    BY <1>1, <2>2, PlacesAre
  <2> QED BY <1>2, <2>1, <2>2
<1>3. ASSUME client \in Asking!Google, outcome' = "open", messages' = <<>>,
             NEW k \in DOMAIN conversation'
      PROVE  conversation'[k].role = "system"
  <2>1. k \in DOMAIN conversation \/ k = Asking!i
    <3> HIDE DEF Asking!i
    <3> QED BY <1>1
  <2>2. messages = <<>> /\ m.role = "system" /\ outcome = "open"
    BY <1>3 DEF Asking!Takes
  <2> QED BY <1>1, <1>3, <2>1, <2>2 DEF Asking!SystemInv
<1> QED BY <1>2, <1>3 DEF Asking!SystemInv

(* A message is refused.                                                    *)
LEMMA RefuseStep ==
    ASSUME Bounded, Asking!IInv, NEW m \in Asking!Messages, Asking!Refuse(m)
    PROVE  Asking!IInv'
<1> DEFINE t == Asking!Translated(client, Asking!i, m)
<1>1. /\ Asking!Takes(m) /\ t.verdict # "send" /\ client' = client /\ chunk' = chunk
      /\ system' = system /\ messages' = messages /\ outcome' \in {"panic", "refused"}
      /\ outcome' = "panic" => t.verdict = "panic"
  BY DEF Asking!Refuse
<1>2. /\ Asking!TypeOK /\ Asking!ToldInv /\ Asking!LossInv /\ Asking!ChunkInv /\ Asking!SystemInv /\ Asking!RolesAlternate
      /\ Asking!TextNeverPanics
  BY DEF Asking!IInv
<1>3. client \in Asking!Chat
  BY <1>1, <1>2, SingleSends DEF Asking!TypeOK, Asking!Clients
<1>4. /\ Asking!i \in 1..MaxMessages /\ Asking!i \in Nat /\ conversation'[Asking!i] = m
      /\ DOMAIN conversation' = 1..Asking!i
      /\ conversation' \in Seq(Asking!Messages) /\ Len(conversation') <= MaxMessages
      /\ SaidIn(conversation') = SaidIn(conversation) \cup Places(Asking!i, m)
  BY <1>1, <1>2, SaidGrows
<1>5. Asking!ToldInv'
  <2>1. messages' = messages \o <<>> /\ <<>> \in Seq(NewRequests(client, Asking!i, m))
    <3>1. messages \in Seq(Asking!Requests)
      BY <1>2 DEF Asking!TypeOK
    <3> QED BY <1>1, <3>1
  <2>2. Asking!Elements(system') \subseteq SaidIn(conversation')
    BY <1>1, <1>2, <1>4, ToldIs
  <2> QED BY <1>1, <1>2, <2>1, <2>2, RequestsGrow
<1>6. Asking!TypeOK'
  BY <1>1, <1>2, <1>4 DEF Asking!TypeOK
<1>7. Asking!LossInv' /\ Asking!ChunkInv'
  BY <1>1 DEF Asking!LossInv, Asking!ChunkInv
<1>8. Asking!SystemInv'
  BY <1>1, <1>2, SystemStays
<1>9. Asking!RolesAlternate'
  BY <1>1, <1>2, AlternateStays
<1>10. Asking!TextNeverPanics'
  <2>1. ASSUME outcome' = "panic" PROVE \E k \in DOMAIN conversation' :
                                           conversation'[k].parts = <<>>
    <3>1. m.parts = <<>>
      BY <1>1, <1>3, <1>4, <2>1, TranslationTells
    <3>2. Asking!i \in DOMAIN conversation'
      <4> HIDE DEF Asking!i
      <4> QED BY <1>4
    <3> QED BY <1>4, <3>1, <3>2
  <2> QED BY <2>1 DEF Asking!TextNeverPanics
<1> QED BY <1>5, <1>6, <1>7, <1>8, <1>9, <1>10 DEF Asking!IInv

(* What is sent of a message, as an action finds it.                        *)
LEMMA SentParts ==
    ASSUME Bounded, Asking!TypeOK, NEW m \in Asking!Messages, Asking!Takes(m),
           Asking!Translated(client, Asking!i, m).verdict = "send"
    PROVE  /\ Asking!Translated(client, Asking!i, m).parts \in Seq(Places(Asking!i, m))
           /\ Asking!Translated(client, Asking!i, m).parts \in Seq(Asking!Placed)
           /\ Asking!Elements(Asking!Translated(client, Asking!i, m).parts) \subseteq Places(Asking!i, m)
           /\ client \in Asking!Single => Asking!Translated(client, Asking!i, m).parts = <<>>
<1> DEFINE ps == Asking!Translated(client, Asking!i, m).parts
<1>1. Asking!i \in 1..MaxMessages /\ Asking!i \in Nat
  BY SaidGrows
<1>2. ps \in Seq(Places(Asking!i, m))
  <2>1. CASE client \in Asking!Single
    <3>1. ps = <<>>
      BY <2>1, SingleSends
    <3> HIDE DEF ps
    <3> QED BY <3>1
  <2>2. CASE client \in Asking!Chat
    BY <1>1, <2>2, TranslationTells DEF Tells
  <2> QED BY <2>1, <2>2 DEF Asking!TypeOK, Asking!Clients
<1> HIDE DEF ps
<1>3. Places(Asking!i, m) \subseteq Asking!Placed
  BY <1>1, PlacesAre
<1>4. ps \in Seq(Asking!Placed)
  BY <1>2, <1>3
<1>5. \A k \in DOMAIN ps : ps[k] \in Places(Asking!i, m)
  BY <1>2, ElementOfSeq, LenProperties
<1>6. Asking!Elements(ps) \subseteq Places(Asking!i, m)
  BY <1>5 DEF Asking!Elements
<1> QED BY <1>2, <1>4, <1>6, SingleSends DEF ps

(* What makes an invariant of a message that is translated.                 *)
LEMMA TranslatedStep ==
    ASSUME Bounded, Asking!IInv, NEW m \in Asking!Messages, Asking!Takes(m),
           client' = client,
           client # "bedrock", outcome' = outcome, chunk' = chunk,
           system' \in Seq(Asking!Placed),
           NEW new \in Seq(NewRequests(client, Asking!i, m)), messages' = messages \o new,
           Asking!Translated(client, Asking!i, m).verdict = "send",
           client \in Asking!Chat => Asking!Elements(Asking!Translated(client, Asking!i, m).parts)
                                               \subseteq Asking!Elements(system') \cup AskedIn(messages'),
           \A p \in Asking!Elements(system') : p \in Asking!Elements(system)
                                                 \/ (p \in Places(Asking!i, m) /\ m.role = "system"),
           \A p \in Asking!Elements(system) \ Asking!Elements(system') :
              client \in Asking!Google /\ m.role = "system",
           client \in Asking!Google /\ messages' = <<>> => messages = <<>> /\ m.role = "system"
    PROVE  Asking!IInv'
<1>2. /\ Asking!TypeOK /\ Asking!ToldInv /\ Asking!LossInv /\ Asking!ChunkInv /\ Asking!SystemInv /\ Asking!RolesAlternate
      /\ Asking!TextNeverPanics
  BY DEF Asking!IInv
<1>4. /\ Asking!i \in 1..MaxMessages /\ Asking!i \in Nat /\ conversation'[Asking!i] = m
      /\ DOMAIN conversation' = 1..Asking!i
      /\ conversation' \in Seq(Asking!Messages) /\ Len(conversation') <= MaxMessages
      /\ SaidIn(conversation') = SaidIn(conversation) \cup Places(Asking!i, m)
  BY <1>2, SaidGrows
<1>3. Asking!Elements(system') \subseteq SaidIn(conversation')
  <2>1. Asking!Elements(system) \subseteq SaidIn(conversation)
    BY <1>2, ToldIs
  <2> QED BY <1>4, <2>1
<1>5. /\ messages' \in Seq(Asking!Requests)
      /\ AskedIn(messages') = AskedIn(messages) \cup AskedIn(new)
      /\ Asking!ToldInv'
  BY <1>2, <1>3, RequestsGrow
<1>6. Asking!TypeOK'
  BY <1>2, <1>4, <1>5 DEF Asking!TypeOK
<1>7. Asking!LossInv'
  <2>1. CASE client \in Asking!Chat
    <3>1. /\ Asking!Requested = Asking!Elements(system) \cup AskedIn(messages)
          /\ Asking!Requested' = Asking!Elements(system') \cup AskedIn(messages')
      BY DEF Asking!Requested, AskedIn
    <3>2. \A p \in Asking!Requested \ Asking!Requested' :
             client \in Asking!Google /\ m.role = "system" /\ conversation[p[1]].role = "system"
      BY <1>2, <1>5, <3>1 DEF Asking!SystemInv
    <3> QED BY <1>2, <2>1, <3>1, <3>2, LossAfter
  <2>2. CASE client \notin Asking!Chat
    BY <2>2 DEF Asking!LossInv
  <2> QED BY <2>1, <2>2
<1>8. Asking!ChunkInv' /\ Asking!RolesAlternate'
  BY DEF Asking!ChunkInv, Asking!RolesAlternate
<1>9. Asking!SystemInv'
  BY <1>2, SystemStays
<1>10. Asking!TextNeverPanics'
  BY DEF Asking!TextNeverPanics, Asking!Takes
<1> QED BY <1>5, <1>6, <1>7, <1>8, <1>9, <1>10 DEF Asking!IInv

(* A system message is kept apart.                                          *)
LEMMA SystemStep ==
    ASSUME Bounded, Asking!IInv, NEW m \in Asking!Messages, Asking!TranslateSystem(m)
    PROVE  Asking!IInv'
<1> DEFINE ps == Asking!Translated(client, Asking!i, m).parts
<1>1. /\ m.role = "system" /\ client \in {"anthropic"} \cup Asking!Google /\ Asking!Takes(m)
      /\ Asking!Translated(client, Asking!i, m).verdict = "send"
      /\ system' = IF client = "anthropic" THEN system \o ps ELSE ps
      /\ client' = client /\ chunk' = chunk /\ messages' = messages /\ outcome' = outcome
  BY DEF Asking!TranslateSystem
<1>2. Asking!TypeOK
  BY DEF Asking!IInv
<1>3. ps \in Seq(Asking!Placed) /\ Asking!Elements(ps) \subseteq Places(Asking!i, m)
  BY <1>1, <1>2, SentParts
<1>4. system \in Seq(Asking!Placed) /\ messages \in Seq(Asking!Requests)
  BY <1>2 DEF Asking!TypeOK
<1> HIDE DEF ps
<1>5. /\ system' \in Seq(Asking!Placed) /\ Asking!Elements(ps) \subseteq Asking!Elements(system')
      /\ \A p \in Asking!Elements(system') : p \in Asking!Elements(system) \/ p \in Places(Asking!i, m)
      /\ client = "anthropic" => Asking!Elements(system) \subseteq Asking!Elements(system')
  <2>1. CASE client # "anthropic"
    BY <1>1, <1>3, <2>1
  <2>2. CASE client = "anthropic"
    <3>1. system' = system \o ps
      BY <1>1, <2>2
    <3>2. system' \in Seq(Asking!Placed)
      BY <1>3, <1>4, <3>1, ConcatProperties
    <3>3. CASE ps = <<>>
      <4>1. system' = system
        BY <1>4, <3>1, <3>3
      <4> QED BY <1>4, <3>3, <4>1, ElementsOfFew
    <3>4. CASE ps # <<>>
      <4>1. ps[1] \in Asking!Placed
        BY <1>3, <3>4, EmptySeq, LenProperties, ElementOfSeq
      <4>2. Asking!Elements(system \o ps) = Asking!Elements(system) \cup Asking!Elements(ps)
        BY <1>3, <1>4, <4>1, ElementsOf
      <4> QED BY <1>3, <3>1, <3>2, <4>2
    <3> QED BY <3>3, <3>4
  <2> QED BY <2>1, <2>2
<1>6. messages' = messages \o <<>> /\ <<>> \in Seq(NewRequests(client, Asking!i, m))
  BY <1>1, <1>4
<1>7. client # "bedrock"
  BY <1>1 DEF Asking!Google
<1>8. client \in {"anthropic"} => client \notin Asking!Google
  BY DEF Asking!Google
<1>9. Asking!Elements(Asking!Translated(client, Asking!i, m).parts) \subseteq Asking!Elements(system') \cup AskedIn(messages')
  BY <1>5 DEF ps
<1>10. \A p \in Asking!Elements(system') : p \in Asking!Elements(system)
                                                 \/ (p \in Places(Asking!i, m) /\ m.role = "system")
  BY <1>1, <1>5
<1>11. \A p \in Asking!Elements(system) \ Asking!Elements(system') :
              client \in Asking!Google /\ m.role = "system"
  BY <1>1, <1>5
<1> QED BY <1>1, <1>5, <1>6, <1>7, <1>9, <1>10, <1>11, TranslatedStep

(* What is asked in one new message.                                        *)
LEMMA OneMore ==
    ASSUME Bounded, NEW m \in Asking!Messages, NEW n \in Nat, NEW c,
           NEW ps \in Seq(Places(n, m))
    PROVE  LET new == <<[role |-> Asking!RoleOf(c, m.role), parts |-> ps]>>
           IN /\ new \in Seq(NewRequests(c, n, m))
              /\ AskedIn(new) = Asking!Elements(ps)
<1> DEFINE r == [role |-> Asking!RoleOf(c, m.role), parts |-> ps]
<1>1. r \in NewRequests(c, n, m) /\ r.parts = ps
  BY DEF NewRequests
<1> HIDE DEF r
<1>2. <<r>> \in Seq(NewRequests(c, n, m)) /\ DOMAIN <<r>> = {1} /\ <<r>>[1] = r
  BY <1>1
<1>3. AskedIn(<<r>>) = Asking!Elements(ps)
  BY <1>1, <1>2 DEF AskedIn
<1> QED BY <1>2, <1>3 DEF r

(* A message becomes one of the request.                                    *)
LEMMA TranslateStep ==
    ASSUME Bounded, Asking!IInv, NEW m \in Asking!Messages, Asking!Translate(m)
    PROVE  Asking!IInv'
<1> DEFINE ps == Asking!Translated(client, Asking!i, m).parts
           new == <<[role |-> Asking!RoleOf(client, m.role), parts |-> ps]>>
<1>1. /\ client \notin {"bedrock", "bedrockText", "mistral"} /\ Asking!Takes(m)
      /\ Asking!Translated(client, Asking!i, m).verdict = "send"
      /\ messages' = Append(messages, [role |-> Asking!RoleOf(client, m.role), parts |-> ps])
      /\ client' = client /\ chunk' = chunk /\ system' = system /\ outcome' = outcome
  BY DEF Asking!Translate, Asking!Adds
<1>2. Asking!TypeOK
  BY DEF Asking!IInv
<1>3. ps \in Seq(Places(Asking!i, m)) /\ ps \in Seq(Asking!Placed) /\ Asking!i \in Nat
  BY <1>1, <1>2, SentParts, SaidGrows
<1>4. system \in Seq(Asking!Placed) /\ messages \in Seq(Asking!Requests)
  BY <1>2 DEF Asking!TypeOK
<1>5. new \in Seq(NewRequests(client, Asking!i, m)) /\ AskedIn(new) = Asking!Elements(ps)
  <2> HIDE DEF ps, Asking!i
  <2> QED BY <1>3, OneMore
<1>6. [role |-> Asking!RoleOf(client, m.role), parts |-> ps] \in Asking!Requests
  <2> HIDE DEF ps
  <2> QED BY <1>3, MessageIs, RolesAre DEF Asking!Requests
<1>7. messages' = messages \o new
  <2> DEFINE r == [role |-> Asking!RoleOf(client, m.role), parts |-> ps]
  <2>1. messages' = Append(messages, r) /\ r \in Asking!Requests /\ new = <<r>>
    BY <1>1, <1>6
  <2> HIDE DEF r, new
  <2>2. Append(messages, r) = messages \o <<r>>
    BY <1>4, <2>1, AppendIsConcat
  <2> QED BY <2>1, <2>2
<1>8. new \in Seq(Asking!Requests) /\ messages' \in Seq(Asking!Requests) /\ messages' # <<>>
      /\ AskedIn(messages') = AskedIn(messages) \cup AskedIn(new)
  <2>1. new \in Seq(Asking!Requests)
    BY <1>6
  <2> HIDE DEF new
  <2>2. /\ messages' \in Seq(Asking!Requests)
        /\ AskedIn(messages') = AskedIn(messages) \cup AskedIn(new)
    BY <1>4, <1>7, <2>1, AskedGrows
  <2>3. messages' # <<>>
    BY <1>1, <1>4, <1>6, AppendProperties
  <2> QED BY <2>1, <2>2, <2>3
<1>9. Asking!Elements(Asking!Translated(client, Asking!i, m).parts) \subseteq Asking!Elements(system') \cup AskedIn(messages')
  BY <1>5, <1>8
<1> HIDE DEF new, ps
<1> QED BY <1>1, <1>4, <1>5, <1>7, <1>8, <1>9, TranslatedStep

(* A message becomes one of the request for each part.                      *)
LEMMA PartsStep ==
    ASSUME Bounded, Asking!IInv, NEW m \in Asking!Messages, Asking!TranslateParts(m)
    PROVE  Asking!IInv'
<1> DEFINE ps == Asking!Translated(client, Asking!i, m).parts
           new == [k \in DOMAIN ps |-> [role |-> Asking!RoleOf(client, m.role), parts |-> <<ps[k]>>]]
<1>1. /\ client \in {"bedrockText", "mistral"} /\ Asking!Takes(m)
      /\ Asking!Translated(client, Asking!i, m).verdict = "send"
      /\ messages' = messages \o new
      /\ client' = client /\ chunk' = chunk /\ system' = system /\ outcome' = outcome
  BY DEF Asking!TranslateParts
<1>2. Asking!TypeOK
  BY DEF Asking!IInv
<1>3. ps \in Seq(Places(Asking!i, m)) /\ ps \in Seq(Asking!Placed) /\ Asking!i \in 1..MaxMessages
  BY <1>1, <1>2, SentParts, SaidGrows
<1>4. system \in Seq(Asking!Placed) /\ messages \in Seq(Asking!Requests)
  BY <1>2 DEF Asking!TypeOK
<1> HIDE DEF ps
<1>5. Len(ps) \in Nat /\ DOMAIN ps = 1..Len(ps) /\ \A k \in DOMAIN ps : ps[k] \in Places(Asking!i, m)
  BY <1>3, LenProperties, ElementOfSeq
<1>6. \A k \in DOMAIN ps :
         /\ [role |-> Asking!RoleOf(client, m.role), parts |-> <<ps[k]>>] \in NewRequests(client, Asking!i, m)
         /\ new[k].parts = <<ps[k]>>
  <2> TAKE k \in DOMAIN ps
  <2>1. <<ps[k]>> \in Seq(Places(Asking!i, m))
    BY <1>5
  <2> QED BY <2>1 DEF NewRequests
<1>7. new \in Seq(NewRequests(client, Asking!i, m)) /\ DOMAIN new = DOMAIN ps
  BY <1>5, <1>6
<1>8. \A k \in DOMAIN new : new[k].parts = <<ps[k]>>
  BY <1>6, <1>7
<1> HIDE DEF new
<1>9. Asking!Elements(ps) \subseteq AskedIn(new)
  <2>1. SUFFICES ASSUME NEW k \in DOMAIN ps PROVE ps[k] \in AskedIn(new)
    BY DEF Asking!Elements
  <2>2. ps[k] \in Asking!Elements(new[k].parts)
    <3>1. new[k].parts = <<ps[k]>>
      BY <1>7, <1>8
    <3>2. Asking!Elements(<<ps[k]>>) = {ps[k]}
      BY ElementsOfFew
    <3> QED BY <3>1, <3>2
  <2> QED BY <1>7, <2>2 DEF AskedIn
<1>10. AskedIn(messages') = AskedIn(messages) \cup AskedIn(new)
  <2>1. new \in Seq(Asking!Requests)
    BY <1>3, <1>7, NewAre
  <2> QED BY <1>1, <1>4, <2>1, AskedGrows
<1>11. client # "bedrock" /\ client \notin Asking!Google
  BY <1>1 DEF Asking!Google
<1>12. Asking!Elements(Asking!Translated(client, Asking!i, m).parts) \subseteq Asking!Elements(system') \cup AskedIn(messages')
  BY <1>9, <1>10 DEF ps
<1> QED BY <1>1, <1>4, <1>7, <1>11, <1>12, TranslatedStep

(* bedrock: a message is refused, left out, kept apart, joined to the last one, or *)
(* becomes one of the request.                                              *)
LEMMA ChunkStep ==
    ASSUME Bounded, Asking!IInv, NEW m \in Asking!Messages, Asking!TranslateChunk(m)
    PROVE  Asking!IInv'
<1> DEFINE ps == Asking!Translated(client, Asking!i, m).parts
<1>1. /\ client = "bedrock" /\ Asking!Takes(m) /\ Asking!Translated(client, Asking!i, m).verdict = "send"
      /\ chunk' = IF ps = <<>> THEN chunk ELSE m.role
      /\ client' = client
      /\ \/ /\ ps = <<>>
            /\ system' = system /\ messages' = messages /\ outcome' = outcome
         \/ /\ ps # <<>> /\ outcome' = "refused"
            /\ system' = system /\ messages' = messages
         \/ /\ ps # <<>> /\ m.role = "system"
            /\ system' = system \o ps
            /\ messages' = messages /\ outcome' = outcome
         \/ /\ ps # <<>> /\ Asking!Groups(m) /\ m.role # "system"
            /\ IF Asking!SameChunk(m)
               THEN messages' = [messages EXCEPT ![Len(messages)].parts = @ \o ps]
               ELSE Asking!Adds(Asking!RoleOf(client, m.role), ps)
            /\ system' = system /\ outcome' = outcome
  BY DEF Asking!TranslateChunk
<1>2. /\ Asking!TypeOK /\ Asking!ToldInv /\ Asking!LossInv /\ Asking!ChunkInv /\ Asking!SystemInv /\ Asking!RolesAlternate
      /\ Asking!TextNeverPanics
  BY DEF Asking!IInv
<1>3. ps \in Seq(Places(Asking!i, m)) /\ ps \in Seq(Asking!Placed) /\ Asking!Elements(ps) \subseteq Places(Asking!i, m)
  BY <1>1, <1>2, SentParts
<1>4. /\ Asking!i \in 1..MaxMessages /\ Asking!i \in Nat /\ conversation'[Asking!i] = m
      /\ DOMAIN conversation' = 1..Asking!i /\ DOMAIN conversation = 1..(Asking!i - 1)
      /\ conversation' \in Seq(Asking!Messages) /\ Len(conversation') <= MaxMessages
      /\ SaidIn(conversation') = SaidIn(conversation) \cup Places(Asking!i, m)
      /\ \A k \in DOMAIN conversation :
            k \in DOMAIN conversation' /\ conversation'[k] = conversation[k]
  BY <1>1, <1>2, SaidGrows
<1>5. /\ system \in Seq(Asking!Placed) /\ messages \in Seq(Asking!Requests) /\ client \in Asking!Clients
      /\ chunk \in Roles \cup {"none"} /\ outcome = "open"
  BY <1>1, <1>2 DEF Asking!TypeOK, Asking!Takes
<1>6. /\ client \in Asking!Chat /\ client \notin Asking!Google /\ client \notin Asking!Single
  BY <1>1 DEF Asking!Chat, Asking!Google, Asking!Single
<1>7. /\ m.role \in Roles /\ chunk' \in Roles \cup {"none"}
      /\ m.role \in {"system", "human", "ai", "generic", "function", "tool"}
  BY <1>1, <1>5, MessageIs
<1> HIDE DEF ps
<1>8. Asking!i \in DOMAIN conversation'
  <2> HIDE DEF Asking!i
  <2> QED BY <1>4
<1>9. Asking!SystemInv'
  BY <1>1, <1>6 DEF Asking!SystemInv
<1>10. Asking!TextNeverPanics'
  BY <1>1, <1>5 DEF Asking!TextNeverPanics
<1>11. Asking!Elements(system) \subseteq SaidIn(conversation)
  BY <1>2, ToldIs
<1>12. /\ Asking!Requested = Asking!Elements(system) \cup AskedIn(messages)
       /\ Asking!Requested' = Asking!Elements(system') \cup AskedIn(messages')
  BY DEF Asking!Requested, AskedIn
\* The losses, of what stays and what is new.
<1>13. ASSUME Asking!Elements(system) \subseteq Asking!Elements(system'),
              AskedIn(messages) \subseteq AskedIn(messages'),
              Asking!Elements(ps) \subseteq Asking!Elements(system') \cup AskedIn(messages')
       PROVE  Asking!LossInv'
  <2>1. Asking!Elements(Asking!Translated(client, Asking!i, m).parts) \subseteq Asking!Requested'
    BY <1>12, <1>13 DEF ps
  <2>2. Asking!Requested \ Asking!Requested' = {}
    BY <1>12, <1>13
  <2> QED BY <1>1, <1>2, <1>6, <2>1, <2>2, LossAfter
\* The requests stay.
<1>14. ASSUME messages' = messages,
              Asking!Elements(system') \subseteq SaidIn(conversation'), system' \in Seq(Asking!Placed)
       PROVE  Asking!ToldInv' /\ Asking!RolesAlternate' /\ Asking!TypeOK'
  <2>1. messages' = messages \o <<>> /\ <<>> \in Seq(NewRequests(client, Asking!i, m))
    BY <1>5, <1>14
  <2>2. Asking!ToldInv'
    BY <1>1, <1>2, <1>14, <2>1, RequestsGrow
  <2>3. Asking!RolesAlternate'
    BY <1>1, <1>2, <1>14, AlternateStays
  <2>4. Asking!TypeOK'
    BY <1>1, <1>4, <1>5, <1>7, <1>14 DEF Asking!TypeOK
  <2> QED BY <2>2, <2>3, <2>4
<1>15. CASE ps = <<>>
  <2>1. system' = system /\ messages' = messages /\ outcome' = outcome /\ chunk' = chunk
    BY <1>1, <1>15
  <2>2. Asking!ToldInv' /\ Asking!RolesAlternate' /\ Asking!TypeOK'
    BY <1>4, <1>5, <1>11, <1>14, <2>1
  <2>3. Asking!LossInv'
    <3>1. Asking!Elements(ps) = {}
      BY <1>15, ElementsOfFew
    <3> QED BY <1>13, <2>1, <3>1
  <2>4. Asking!ChunkInv'
    <3>1. ASSUME NEW k \in DOMAIN conversation, conversation[k].role = chunk
          PROVE  \E l \in DOMAIN conversation' : conversation'[l].role = chunk'
      BY <1>4, <2>1, <3>1
    <3> QED BY <1>1, <1>2, <1>5, <2>1, <3>1 DEF Asking!ChunkInv
  <2> QED BY <1>9, <1>10, <2>2, <2>3, <2>4 DEF Asking!IInv
<1>16. CASE ps # <<>> /\ outcome' = "refused" /\ system' = system /\ messages' = messages
  <2>1. Asking!ToldInv' /\ Asking!RolesAlternate' /\ Asking!TypeOK'
    BY <1>4, <1>5, <1>11, <1>14, <1>16
  <2>2. Asking!LossInv' /\ Asking!ChunkInv'
    BY <1>16 DEF Asking!LossInv, Asking!ChunkInv
  <2> QED BY <1>9, <1>10, <2>1, <2>2 DEF Asking!IInv
\* The new chunk is that of the message.
<1>17. ASSUME ps # <<>>,
              m.role # "system" =>
                 messages' # <<>> /\ messages'[Len(messages')].role = Asking!RoleOf(client, m.role)
       PROVE  Asking!ChunkInv'
  <2>1. chunk' = m.role /\ m.role # "none"
    BY <1>1, <1>7, <1>17
  <2>2. \E l \in DOMAIN conversation' : conversation'[l].role = chunk'
    BY <1>4, <1>8, <2>1
  <2> QED BY <1>1, <1>17, <2>1, <2>2 DEF Asking!ChunkInv
<1>18. CASE /\ ps # <<>> /\ m.role = "system" /\ system' = system \o ps
            /\ messages' = messages /\ outcome' = outcome
  <2>1. ps[1] \in Asking!Placed
    BY <1>3, <1>18, EmptySeq, LenProperties, ElementOfSeq
  <2>2. Asking!Elements(system') = Asking!Elements(system) \cup Asking!Elements(ps)
    BY <1>3, <1>5, <1>18, <2>1, ElementsOf
  <2>3. system' \in Seq(Asking!Placed)
    BY <1>3, <1>5, <1>18, ConcatProperties
  <2>4. Asking!ToldInv' /\ Asking!RolesAlternate' /\ Asking!TypeOK'
    BY <1>3, <1>4, <1>11, <1>14, <1>18, <2>2, <2>3
  <2>5. Asking!LossInv'
    BY <1>13, <1>18, <2>2
  <2>6. Asking!ChunkInv'
    BY <1>17, <1>18
  <2> QED BY <1>9, <1>10, <2>4, <2>5, <2>6 DEF Asking!IInv
<1>19. CASE /\ ps # <<>> /\ Asking!Groups(m) /\ m.role # "system"
            /\ IF Asking!SameChunk(m)
               THEN messages' = [messages EXCEPT ![Len(messages)].parts = @ \o ps]
               ELSE Asking!Adds(Asking!RoleOf(client, m.role), ps)
            /\ system' = system /\ outcome' = outcome
  <2>1. m.role \in {"human", "ai", "generic"}
    BY <1>7, <1>19 DEF Asking!Groups
  <2>2. Asking!Elements(system') \subseteq SaidIn(conversation') /\ system' \in Seq(Asking!Placed)
    BY <1>4, <1>5, <1>11, <1>19
  <2>3. CASE Asking!SameChunk(m)
    <3>1. messages' = [messages EXCEPT ![Len(messages)].parts = @ \o ps]
      BY <1>19, <2>3
    <3>2. m.role = chunk
      BY <2>3 DEF Asking!SameChunk
    <3>3. messages # <<>> /\ messages[Len(messages)].role = Asking!RoleOf(client, m.role)
      BY <1>1, <1>2, <1>5, <2>1, <3>2 DEF Asking!ChunkInv
    <3>4. /\ messages' \in Seq(Asking!Requests) /\ Asking!ToldInv'
          /\ AskedIn(messages') = AskedIn(messages) \cup Asking!Elements(ps)
      BY <1>1, <1>2, <1>3, <2>2, <3>1, <3>3, RequestsJoin
    <3>5. /\ Len(messages') = Len(messages) /\ Len(messages) \in DOMAIN messages
          /\ DOMAIN messages' = DOMAIN messages
          /\ \A k \in DOMAIN messages : messages'[k].role = messages[k].role
      BY <1>3, <1>5, <3>1, <3>3, LastGrows
    <3>6. Asking!RolesAlternate'
      BY <1>1, <1>2, <3>5, AlternateStays
    <3>7. messages' # <<>>
      <4>1. DOMAIN messages' # {}
        BY <3>5
      <4> QED BY <4>1
    <3>8. Asking!ChunkInv'
      BY <1>17, <1>19, <3>3, <3>5, <3>7
    <3>9. Asking!LossInv'
      BY <1>13, <1>19, <3>4
    <3>10. Asking!TypeOK'
      BY <1>1, <1>4, <1>5, <1>7, <1>19, <2>2, <3>4 DEF Asking!TypeOK
    <3> QED BY <1>9, <1>10, <3>4, <3>6, <3>8, <3>9, <3>10 DEF Asking!IInv
  <2>4. CASE ~Asking!SameChunk(m)
    <3> DEFINE r == [role |-> Asking!RoleOf(client, m.role), parts |-> ps]
    <3>1. messages' = Append(messages, r)
      BY <1>19, <2>4 DEF Asking!Adds
    <3>2. <<r>> \in Seq(NewRequests(client, Asking!i, m)) /\ AskedIn(<<r>>) = Asking!Elements(ps)
      <4> HIDE DEF Asking!i
      <4> QED BY <1>3, <1>4, OneMore
    <3>3. r \in Asking!Requests /\ r.role = Asking!RoleOf(client, m.role)
      BY <1>3, <1>7, RolesAre DEF Asking!Requests
    <3> HIDE DEF r
    <3>4. messages' = messages \o <<r>>
      BY <1>5, <3>1, <3>3, AppendIsConcat
    <3>5. /\ messages' \in Seq(Asking!Requests) /\ Asking!ToldInv'
          /\ AskedIn(messages') = AskedIn(messages) \cup Asking!Elements(ps)
      BY <1>1, <1>2, <2>2, <3>2, <3>4, RequestsGrow
    <3>6. /\ Len(messages') = Len(messages) + 1 /\ messages' # <<>>
          /\ messages'[Len(messages) + 1] = r
          /\ \A k \in 1..Len(messages) : messages'[k] = messages[k]
      BY <1>5, <3>1, <3>3, AppendProperties
    <3>7. Asking!ChunkInv'
      BY <1>17, <1>19, <3>3, <3>6
    <3>8. Asking!LossInv'
      BY <1>13, <1>19, <3>5
    <3>9. Asking!TypeOK'
      BY <1>1, <1>4, <1>5, <1>7, <1>19, <2>2, <3>5 DEF Asking!TypeOK
    <3>10. Asking!RolesAlternate'
      <4> DEFINE Apart(talk) == \E l \in DOMAIN talk : talk[l].role \in {"system", "generic"}
                 n == Len(messages)
      <4>1. Apart(conversation) => Apart(conversation')
        BY <1>4
      <4>2. n \in Nat /\ DOMAIN messages = 1..n /\ Len(messages') = n + 1
        BY <1>5, <3>6, LenProperties
      <4>3. ASSUME n # 0, ~Apart(conversation')
            PROVE  messages[n].role # Asking!RoleOf(client, m.role)
        <5>1. chunk # "none" /\ \E k \in DOMAIN conversation : conversation[k].role = chunk
          <6>1. messages # <<>>
            BY <1>5, <4>3, EmptySeq
          <6> QED BY <1>1, <1>2, <1>5, <6>1 DEF Asking!ChunkInv
        <5>2. chunk \notin {"system", "generic"}
          BY <4>1, <4>3, <5>1
        <5>3. messages[n].role = Asking!RoleOf(client, chunk)
          BY <1>1, <1>2, <1>5, <5>1, <5>2 DEF Asking!ChunkInv
        <5>4. m.role # "generic"
          BY <1>4, <1>8, <4>3
        <5>5. chunk \in {"human", "ai", "function", "tool"} /\ chunk # m.role
          BY <1>5, <2>4, <5>1, <5>2 DEF Bounded, Asking!SameChunk
        <5>6. m.role \in {"human", "ai"}
          BY <2>1, <5>4
        <5> QED BY <1>1, <5>3, <5>5, <5>6 DEF Asking!RoleOf, Asking!Google
      <4>4. SUFFICES ASSUME NEW k \in 1..(n + 1) - 1, ~Apart(conversation')
                     PROVE  messages'[k].role # messages'[k + 1].role
        BY <4>2 DEF Asking!RolesAlternate
      <4>5. CASE k = n
        <5>1. n # 0 /\ n \in 1..n
          BY <4>2, <4>4, <4>5
        <5>2. messages'[k].role = messages[n].role /\ messages'[k + 1].role = r.role
          BY <3>6, <4>5, <5>1
        <5> QED BY <3>3, <4>3, <4>4, <5>1, <5>2
      <4>6. CASE k # n
        <5> HIDE DEF n
        <5>1. k \in 1..n - 1 /\ k \in 1..n /\ k + 1 \in 1..n
          BY <4>2, <4>4, <4>6
        <5>2. messages'[k] = messages[k] /\ messages'[k + 1] = messages[k + 1]
          BY <3>6, <5>1 DEF n
        <5>3. messages[k].role # messages[k + 1].role
          BY <1>1, <1>2, <4>1, <4>4, <5>1 DEF Asking!RolesAlternate, n
        <5> QED BY <5>2, <5>3
      <4> QED BY <4>5, <4>6
    <3> QED BY <1>9, <1>10, <3>5, <3>7, <3>8, <3>9, <3>10 DEF Asking!IInv
  <2> QED BY <2>3, <2>4
<1> QED BY <1>1, <1>15, <1>16, <1>18, <1>19

(* The request is made of what has been translated.                         *)
LEMMA SendChatStep ==
    ASSUME Bounded, Asking!IInv, Asking!SendChat
    PROVE  Asking!IInv'
<1>1. /\ client \in Asking!Chat \ Asking!Google /\ outcome = "open" /\ outcome' = "sent"
      /\ client' = client /\ conversation' = conversation /\ chunk' = chunk
      /\ system' = system /\ messages' = messages
  BY DEF Asking!SendChat, Asking!Ready
<1>2. /\ Asking!TypeOK /\ Asking!ToldInv /\ Asking!LossInv /\ Asking!ChunkInv /\ Asking!SystemInv /\ Asking!RolesAlternate
      /\ Asking!TextNeverPanics
  BY DEF Asking!IInv
<1>3. Asking!TypeOK'
  BY <1>1, <1>2 DEF Asking!TypeOK
<1>4. Asking!ToldInv'
  BY <1>1, <1>2, ToldIs
     DEF Asking!ToldInv, Asking!Requested, Asking!Given, Asking!MessagesInOrder,
       Asking!RolesKept, KeptIn
<1>5. Asking!LossInv'
  <2>1. \A p : Asking!Lost(p)' <=> Asking!Lost(p)
    BY <1>1 DEF Asking!Lost
  <2>2. Asking!Requested' = Asking!Requested /\ Asking!Given(Asking!Kinds, Roles)' = Asking!Given(Asking!Kinds, Roles)
    BY <1>1 DEF Asking!Requested, Asking!Given
  <2> QED BY <1>1, <1>2, <2>1, <2>2 DEF Asking!LossInv
<1>6. Asking!ChunkInv' /\ Asking!SystemInv' /\ Asking!TextNeverPanics'
  BY <1>1 DEF Asking!ChunkInv, Asking!SystemInv, Asking!TextNeverPanics
<1>7. Asking!RolesAlternate'
  BY <1>1, <1>2 DEF Asking!RolesAlternate
<1> QED BY <1>3, <1>4, <1>5, <1>6, <1>7 DEF Asking!IInv

(* The last message of a request to a Google model is sent as the user's.   *)
LEMMA LastRole ==
    ASSUME NEW ms \in Seq(Asking!Requests), ms # <<>>
    PROVE  LET sent == [ms EXCEPT ![Len(ms)].role = "user"]
           IN /\ sent \in Seq(Asking!Requests) /\ DOMAIN sent = DOMAIN ms /\ Len(sent) = Len(ms)
              /\ \A k \in DOMAIN ms : sent[k].parts = ms[k].parts
              /\ \A k \in DOMAIN ms : k # Len(ms) => sent[k] = ms[k]
<1> DEFINE n == Len(ms)
           last == [ms[n] EXCEPT !.role = "user"]
           sent == [ms EXCEPT ![n].role = "user"]
<1>1. n \in Nat /\ n # 0 /\ DOMAIN ms = 1..n /\ n \in 1..n
  <2>1. n \in Nat /\ DOMAIN ms = 1..n /\ n # 0
    BY LenProperties, EmptySeq
  <2> HIDE DEF n
  <2> QED BY <2>1
<1>2. ms[n] \in Asking!Requests
  BY <1>1, ElementOfSeq
<1>3. last \in Asking!Requests /\ last.parts = ms[n].parts
  BY <1>2 DEF Asking!Requests
<1>4. sent = [ms EXCEPT ![n] = last]
  OBVIOUS
<1> HIDE DEF last
<1>5. sent \in Seq(Asking!Requests) /\ Len(sent) = n
  <2> HIDE DEF n, sent
  <2> QED BY <1>1, <1>3, <1>4, ExceptSeq DEF n
<1>6. DOMAIN sent = DOMAIN ms /\ sent[n] = last /\ \A k \in DOMAIN ms : k # n => sent[k] = ms[k]
  BY <1>1, <1>4
<1>7. \A k \in DOMAIN ms : sent[k].parts = ms[k].parts
  BY <1>3, <1>6
<1> QED BY <1>5, <1>6, <1>7

LEMMA SendGoogleStep ==
    ASSUME Bounded, Asking!IInv, Asking!SendGoogle
    PROVE  Asking!IInv'
<1>1. /\ client \in Asking!Google /\ outcome = "open" /\ outcome' \in {"refused", "panic", "sent"}
      /\ client' = client /\ conversation' = conversation /\ chunk' = chunk
      /\ system' = system
      /\ outcome' = "panic" => messages = <<>>
      /\ \/ outcome' # "sent" /\ messages' = messages
         \/ /\ outcome' = "sent" /\ messages # <<>>
            /\ messages' = [messages EXCEPT ![Len(messages)].role = "user"]
  BY DEF Asking!SendGoogle, Asking!Ready
<1>2. /\ Asking!TypeOK /\ Asking!ToldInv /\ Asking!LossInv /\ Asking!ChunkInv /\ Asking!SystemInv /\ Asking!RolesAlternate
      /\ Asking!TextNeverPanics /\ messages \in Seq(Asking!Requests)
  BY DEF Asking!IInv, Asking!TypeOK
<1>3. client # "bedrock" /\ client \notin Asking!Single /\ client \in Asking!Chat
  BY <1>1 DEF Asking!Google, Asking!Single, Asking!Chat
<1>4. /\ messages' \in Seq(Asking!Requests) /\ DOMAIN messages' = DOMAIN messages
      /\ \A k \in DOMAIN messages : messages'[k].parts = messages[k].parts
      /\ Len(messages') = Len(messages)
      /\ \A k \in DOMAIN messages : (k = Len(messages) /\ outcome' = "sent")
                                       \/ messages'[k].role = messages[k].role
  <2>1. CASE messages' = messages
    BY <1>2, <2>1
  <2>2. CASE /\ outcome' = "sent" /\ messages # <<>>
             /\ messages' = [messages EXCEPT ![Len(messages)].role = "user"]
    BY <1>2, <2>2, LastRole
  <2> QED BY <1>1, <2>1, <2>2
<1>5. Asking!TypeOK'
  BY <1>1, <1>2, <1>4 DEF Asking!TypeOK
<1>6. Asking!Requested' = Asking!Requested /\ Asking!Given(Asking!Kinds, Roles)' = Asking!Given(Asking!Kinds, Roles)
  BY <1>1, <1>4 DEF Asking!Requested, Asking!Given
<1>7. Asking!ToldInv'
  <2>1. Asking!Requested' \subseteq Asking!Given(Asking!Kinds, Roles)'
    BY <1>2, <1>6 DEF Asking!ToldInv
  <2>2. Asking!MessagesInOrder'
    BY <1>2, <1>4 DEF Asking!ToldInv, Asking!MessagesInOrder
  <2>3. Asking!RolesKept'
    <3>1. KeptIn(client, conversation, messages)
      BY <1>1, <1>2, <1>3, ToldIs
    <3> QED BY <1>1, <1>4, <3>1 DEF Asking!RolesKept, KeptIn
  <2> QED BY <2>1, <2>2, <2>3 DEF Asking!ToldInv
<1>8. Asking!LossInv'
  <2>1. \A p : Asking!Lost(p)' <=> Asking!Lost(p)
    BY <1>1 DEF Asking!Lost
  <2> QED BY <1>1, <1>2, <1>3, <1>6, <2>1 DEF Asking!LossInv
<1>9. Asking!ChunkInv' /\ Asking!RolesAlternate'
  BY <1>1, <1>3 DEF Asking!ChunkInv, Asking!RolesAlternate
<1>10. Asking!SystemInv'
  BY <1>1, <1>2 DEF Asking!SystemInv
<1>11. Asking!TextNeverPanics'
  <2>1. ASSUME messages = <<>>, NEW k \in DOMAIN conversation
        PROVE  conversation[k].role # "human"
    BY <1>1, <1>2, <2>1 DEF Asking!SystemInv
  <2> QED BY <1>1, <2>1 DEF Asking!TextNeverPanics
<1> QED BY <1>5, <1>7, <1>8, <1>9, <1>10, <1>11 DEF Asking!IInv

(* Only the first text is the request.                                      *)
LEMMA SendSingleStep ==
    ASSUME Bounded, Asking!IInv, Asking!SendSingle
    PROVE  Asking!IInv'
<1> DEFINE first == IF conversation = <<>> THEN "none" ELSE Asking!First(conversation[1])
           asked == <<[role |-> "user", parts |-> <<<<1, 1>>>>]>>
<1>1. /\ client \in Asking!Single /\ outcome = "open" /\ outcome' \in {"sent", "refused", "panic"}
      /\ client' = client /\ conversation' = conversation /\ chunk' = chunk
      /\ system' = system
      /\ \/ first = "text" /\ outcome' = "sent" /\ messages' = asked
         \/ first # "text" /\ outcome' \in {"refused", "panic"} /\ messages' = <<>>
  BY DEF Asking!SendSingle, Asking!Ready, Asking!Place, Asking!PromptOf
<1>2. Asking!TypeOK /\ Asking!ToldInv
  BY DEF Asking!IInv
<1>3. client # "bedrock" /\ client \notin Asking!Google /\ client \notin Asking!Chat
  BY <1>1 DEF Asking!Google, Asking!Single, Asking!Chat
<1>4. conversation \in Seq(Asking!Messages) /\ Len(conversation) <= MaxMessages
  BY <1>2 DEF Asking!TypeOK
<1>5. /\ messages' \in Seq(Asking!Requests) /\ AskedIn(messages') \subseteq SaidIn(conversation)
      /\ InOrder(messages')
  <2>1. CASE messages' = <<>>
    <3>1. DOMAIN messages' = {}
      BY <2>1
    <3> QED BY <2>1, <3>1 DEF AskedIn, InOrder
  <2>2. CASE first = "text" /\ messages' = asked
    <3>1. conversation # <<>> /\ Asking!First(conversation[1]) = "text"
      BY <2>2
    <3>2. 1 \in DOMAIN conversation /\ conversation[1] \in Asking!Messages
      BY <1>4, <3>1, EmptySeq, LenProperties, ElementOfSeq
    <3>3. 1 \in DOMAIN conversation[1].parts
      BY <3>1, <3>2, MessageIs DEF Asking!First
    <3>4. <<1, 1>> \in Places(1, conversation[1])
      BY <3>3 DEF Places
    <3>5. <<1, 1>> \in SaidIn(conversation)
      BY <3>2, <3>4 DEF SaidIn
    <3>6. <<1, 1>> \in Asking!Placed
      BY <1>4, <3>5, GivenIs
    <3>7. <<<<1, 1>>>> \in Seq(Asking!Placed)
      BY <3>6
    <3>8. messages' \in Seq(Asking!Requests)
      BY <2>2, <3>7 DEF Asking!Requests
    <3>9. DOMAIN messages' = {1} /\ messages'[1].parts = <<<<1, 1>>>>
      BY <2>2
    <3>10. Asking!Elements(<<<<1, 1>>>>) = {<<1, 1>>}
      BY ElementsOfFew
    <3>11. AskedIn(messages') = {<<1, 1>>}
      BY <3>9, <3>10 DEF AskedIn
    <3>12. InOrder(messages')
      BY <3>9 DEF InOrder
    <3> QED BY <3>5, <3>8, <3>11, <3>12
  <2> QED BY <1>1, <2>1, <2>2
<1>6. Asking!TypeOK'
  BY <1>1, <1>2, <1>5 DEF Asking!TypeOK
<1>7. Asking!ToldInv'
  <2>1. Asking!Given(Asking!Kinds, Roles)' = SaidIn(conversation)
    <3>1. Asking!Given(Asking!Kinds, Roles)' = Asking!Given(Asking!Kinds, Roles)
      BY <1>1 DEF Asking!Given
    <3> QED BY <1>2, <3>1, ToldIs
  <2>2. Asking!Requested' = Asking!Elements(system) \cup AskedIn(messages')
    BY <1>1 DEF Asking!Requested, AskedIn
  <2>3. Asking!Elements(system) \subseteq SaidIn(conversation)
    BY <1>2, ToldIs
  <2>4. Asking!MessagesInOrder'
    BY <1>5 DEF Asking!MessagesInOrder, InOrder
  <2>5. Asking!RolesKept'
    BY <1>1 DEF Asking!RolesKept
  <2> QED BY <1>5, <2>1, <2>2, <2>3, <2>4, <2>5 DEF Asking!ToldInv
<1>8. Asking!LossInv' /\ Asking!ChunkInv' /\ Asking!SystemInv' /\ Asking!RolesAlternate'
  BY <1>1, <1>3 DEF Asking!LossInv, Asking!ChunkInv, Asking!SystemInv, Asking!RolesAlternate
<1>9. Asking!TextNeverPanics'
  <2>1. CASE conversation = <<>>
    <3>1. DOMAIN conversation = {}
      BY <2>1
    <3> QED BY <1>1, <3>1 DEF Asking!TextNeverPanics
  <2>2. CASE conversation # <<>>
    BY <1>1, <2>2 DEF Asking!TextNeverPanics
  <2> QED BY <2>1, <2>2
<1> QED BY <1>6, <1>7, <1>8, <1>9 DEF Asking!IInv

(* The invariant, of every step and at the beginning.                       *)
LEMMA ConversionKept ==
    ASSUME Bounded, Asking!IInv, [Asking!Next]_(Asking!vars)
    PROVE  Asking!IInv'
<1>1. CASE Asking!vars' = Asking!vars
  <2>1. /\ client' = client /\ conversation' = conversation /\ chunk' = chunk
        /\ system' = system /\ messages' = messages /\ outcome' = outcome
    BY <1>1 DEF Asking!vars
  <2>2. /\ Asking!TypeOK' = Asking!TypeOK /\ Asking!Requested' = Asking!Requested
        /\ Asking!Given(Asking!Kinds, Roles)' = Asking!Given(Asking!Kinds, Roles)
    BY <2>1 DEF Asking!TypeOK, Asking!Requested, Asking!Given
  <2>3. (Asking!MessagesInOrder' <=> Asking!MessagesInOrder) /\ (Asking!RolesKept' <=> Asking!RolesKept)
    BY <2>1 DEF Asking!MessagesInOrder, Asking!RolesKept
  <2>4. \A p : Asking!Lost(p)' <=> Asking!Lost(p)
    BY <2>1 DEF Asking!Lost
  <2>5. (Asking!LossInv' <=> Asking!LossInv) /\ (Asking!ToldInv' <=> Asking!ToldInv)
    BY <2>1, <2>2, <2>3, <2>4 DEF Asking!LossInv, Asking!ToldInv
  <2>6. /\ Asking!ChunkInv' <=> Asking!ChunkInv
        /\ Asking!SystemInv' <=> Asking!SystemInv
        /\ Asking!RolesAlternate' <=> Asking!RolesAlternate
        /\ Asking!TextNeverPanics' <=> Asking!TextNeverPanics
    BY <2>1 DEF Asking!ChunkInv, Asking!SystemInv, Asking!RolesAlternate,
      Asking!TextNeverPanics
  <2> QED BY <2>2, <2>5, <2>6 DEF Asking!IInv
<1>2. CASE Asking!Next
  BY <1>2, RefuseStep, SystemStep, TranslateStep, PartsStep, ChunkStep, SendChatStep,
     SendGoogleStep, SendSingleStep DEF Asking!Next
<1> QED BY <1>1, <1>2

LEMMA ConversionInit ==
    ASSUME Bounded, Asking!Init
    PROVE  Asking!IInv
<1>1. /\ client \in Asking!Clients /\ conversation = <<>> /\ chunk = "none"
      /\ system = <<>> /\ messages = <<>> /\ outcome = "open"
  BY DEF Asking!Init
<1>2. DOMAIN conversation = {} /\ DOMAIN messages = {} /\ Asking!Elements(system) = {}
  BY <1>1, ElementsOfFew
<1>3. Len(conversation) = 0 /\ Len(messages) = 0
  BY <1>1
<1>4. Asking!TypeOK
  BY <1>1, <1>3 DEF Asking!TypeOK, Bounded
<1>5. Asking!Requested = {}
  BY <1>2 DEF Asking!Requested
<1>6. Asking!Given(Asking!Kinds, Roles) = {}
  <2>1. SaidIn(conversation) = {}
    BY <1>2 DEF SaidIn
  <2> QED BY <1>4, <2>1, ToldIs
<1>7. Asking!ToldInv /\ Asking!LossInv
  BY <1>2, <1>5, <1>6 DEF Asking!ToldInv, Asking!LossInv, Asking!MessagesInOrder,
    Asking!RolesKept
<1>8. Asking!ChunkInv /\ Asking!SystemInv /\ Asking!TextNeverPanics
  BY <1>1, <1>2 DEF Asking!ChunkInv, Asking!SystemInv, Asking!TextNeverPanics
<1>9. Asking!RolesAlternate
  BY <1>3 DEF Asking!RolesAlternate
<1> QED BY <1>4, <1>7, <1>8, <1>9 DEF Asking!IInv

(* What the invariant says of a request: all that TLC checks of it.         *)
LEMMA ConversionTells ==
    ASSUME Bounded, Asking!IInv
    PROVE  /\ Asking!MessagesInOrder /\ Asking!RolesKept /\ Asking!PlainChatArrives /\ Asking!RolesAlternate
           /\ Asking!CallsArrive /\ Asking!AnswersArrive /\ Asking!LossesKnown /\ Asking!TextNeverPanics
<1>1. /\ Asking!TypeOK /\ Asking!ToldInv /\ Asking!LossInv /\ Asking!RolesAlternate /\ Asking!TextNeverPanics
  BY DEF Asking!IInv
<1>2. Asking!MessagesInOrder /\ Asking!RolesKept /\ Asking!Requested \subseteq Asking!Given(Asking!Kinds, Roles)
  BY <1>1 DEF Asking!ToldInv
<1>3. Asking!LossesKnown
  BY <1>1 DEF Asking!LossInv, Asking!LossesKnown
<1>4. \A kinds : \A roles : \A p \in Asking!Given(kinds, roles) :
         /\ p \in Asking!Placed /\ p[1] \in DOMAIN conversation
         /\ p[2] \in Nat /\ p[2] <= Len(conversation[p[1]].parts)
         /\ conversation[p[1]].parts[p[2]] \in kinds
         /\ conversation[p[1]].role \in roles
  <2>1. DOMAIN conversation = 1..Len(conversation) /\ Len(conversation) \in Nat
    BY <1>1, LenProperties DEF Asking!TypeOK
  <2>2. \A p \in Asking!Placed : p[1] \in 1..MaxMessages /\ p[2] \in 1..3
    BY DEF Asking!Placed
  <2> QED BY <2>1, <2>2 DEF Asking!Given, Bounded
<1>5. \A kinds \in SUBSET Asking!Kinds : \A roles \in SUBSET Roles :
         Asking!Given(kinds, roles) \subseteq Asking!Given(Asking!Kinds, Roles)
  BY DEF Asking!Given
<1>6. Asking!CallsArrive
  <2>1. SUFFICES ASSUME outcome = "sent", client \in Asking!Chat \ {"anthropic"},
                        NEW p \in Asking!Given({"call"}, {"ai"}), p \notin Asking!Requested
                 PROVE  FALSE
    BY DEF Asking!CallsArrive
  <2>2. /\ p \in Asking!Placed /\ p[1] \in DOMAIN conversation
        /\ conversation[p[1]].parts[p[2]] = "call" /\ conversation[p[1]].role = "ai"
    BY <1>4, <2>1
  <2>3. p \in Asking!Given(Asking!Kinds, Roles)
    <3>1. conversation[p[1]] \in Asking!Messages
      BY <1>1, <2>2, ElementOfSeq, LenProperties DEF Asking!TypeOK
    <3>2. conversation[p[1]].role \in Roles
      BY <3>1, MessageIs
    <3> QED BY <2>1, <2>2, <3>2 DEF Asking!Given, Asking!Kinds
  <2>4. Asking!Lost(p)
    BY <1>3, <2>1, <2>3 DEF Asking!LossesKnown
  <2> QED BY <2>1, <2>2, <2>4 DEF Asking!Lost
<1>7. Asking!AnswersArrive
  <2>1. SUFFICES ASSUME outcome = "sent", client \in Asking!Chat \ {"anthropic"},
                        NEW p \in Asking!Given({"answer"}, {"tool"}),
                        p \notin Asking!Requested
                 PROVE  FALSE
    BY DEF Asking!AnswersArrive
  <2>2. /\ p \in Asking!Placed /\ p[1] \in DOMAIN conversation
        /\ conversation[p[1]].parts[p[2]] = "answer" /\ conversation[p[1]].role = "tool"
    BY <1>4, <2>1
  <2>3. p \in Asking!Given(Asking!Kinds, Roles)
    <3>1. conversation[p[1]] \in Asking!Messages
      BY <1>1, <2>2, ElementOfSeq, LenProperties DEF Asking!TypeOK
    <3>2. conversation[p[1]].role \in Roles
      BY <3>1, MessageIs
    <3> QED BY <2>1, <2>2, <3>2 DEF Asking!Given, Asking!Kinds
  <2>4. Asking!Lost(p)
    BY <1>3, <2>1, <2>3 DEF Asking!LossesKnown
  <2> QED BY <2>1, <2>2, <2>4 DEF Asking!Lost
<1>8. Asking!PlainChatArrives
  <2>1. SUFFICES ASSUME outcome = "sent", client \in Asking!Chat, Asking!PlainChat
                 PROVE  Asking!Requested = Asking!Given({"text"}, Roles)
    BY DEF Asking!PlainChatArrives
  <2>2. ASSUME NEW p \in Asking!Given(Asking!Kinds, Roles) PROVE /\ p \in Asking!Given({"text"}, Roles)
                                                                 /\ p[2] <= 1 /\ p[2] \in Nat
                                                                 /\ p[1] \in DOMAIN conversation
                                                                 /\ conversation[p[1]].parts[p[2]] = "text"
    <3>1. p[1] \in DOMAIN conversation /\ p[2] \in Nat
      BY <1>4
    <3>2. conversation[p[1]].parts = <<"text">>
      BY <2>1, <3>1 DEF Asking!PlainChat
    <3>3. p[2] \in 1..3 /\ p[2] <= Len(conversation[p[1]].parts)
      BY DEF Asking!Given, Asking!Placed
    <3>4. p[2] = 1
      BY <3>2, <3>3
    <3> QED BY <3>1, <3>2, <3>4 DEF Asking!Given
  <2>3. ASSUME NEW p \in Asking!Given({"text"}, Roles), p \notin Asking!Requested PROVE FALSE
    <3>1. p \in Asking!Given(Asking!Kinds, Roles)
      <4>1. {"text"} \in SUBSET Asking!Kinds /\ Roles \in SUBSET Roles
        BY DEF Asking!Kinds
      <4> QED BY <1>5, <4>1
    <3>2. Asking!Lost(p)
      BY <1>3, <2>1, <2>3, <3>1 DEF Asking!LossesKnown
    <3>3. /\ p[2] <= 1 /\ p[2] \in Nat /\ p[1] \in DOMAIN conversation
          /\ conversation[p[1]].parts[p[2]] = "text"
      BY <2>2, <3>1
    <3>4. PICK k \in p[1]+1..Len(conversation) :
             conversation[p[1]].role = "system" /\ conversation[k].role = "system"
      BY <3>2, <3>3 DEF Asking!Lost
    <3>5. p[1] \in Nat /\ DOMAIN conversation = 1..Len(conversation) /\ Len(conversation) \in Nat
      BY <1>1, <3>3, LenProperties DEF Asking!TypeOK
    <3>6. k \in DOMAIN conversation /\ k # p[1]
      BY <3>3, <3>4, <3>5
    <3> QED BY <2>1, <3>3, <3>4, <3>6 DEF Asking!PlainChat
  <2> QED BY <1>2, <2>2, <2>3
<1> QED BY <1>1, <1>2, <1>3, <1>6, <1>7, <1>8

(* Every conversation is told as far as it is, whatever model takes it.     *)
THEOREM ConversationIsTold ==
    ASSUME Bounded
    PROVE  Asking!Spec => [](/\ Asking!MessagesInOrder /\ Asking!RolesKept /\ Asking!PlainChatArrives /\ Asking!RolesAlternate
                             /\ Asking!CallsArrive /\ Asking!AnswersArrive /\ Asking!LossesKnown /\ Asking!TextNeverPanics)
<1>1. Asking!Init => Asking!IInv
  BY ConversionInit
<1>2. Asking!IInv /\ [Asking!Next]_(Asking!vars) => Asking!IInv'
  BY ConversionKept
<1>3. Asking!IInv => /\ Asking!MessagesInOrder /\ Asking!RolesKept /\ Asking!PlainChatArrives /\ Asking!RolesAlternate
                     /\ Asking!CallsArrive /\ Asking!AnswersArrive /\ Asking!LossesKnown /\ Asking!TextNeverPanics
  BY ConversionTells
<1> QED BY <1>1, <1>2, <1>3, PTL DEF Asking!Spec
=============================================================================
