--------------------------- MODULE ResponseCache ---------------------------
(***************************************************************************)
(* Cacher: a model whose answers are kept under a hash of the messages and *)
(* the options, asked by several callers at a time, over a backend whose   *)
(* entries expire. The hash is taken of the JSON of messages (marshaling), *)
(* which is modelled with its way back.                                    *)
(***************************************************************************)
EXTENDS Integers, Sequences, FiniteSets

CONSTANTS MaxRequests    \* bound on the calls

VARIABLES
    calls,     \* the calls of GenerateContent, in the order they began
    entries,   \* the backend: the response under each key
    given      \* the answers of the model: under which key, in how many choices

vars == <<calls, entries, given>>
----------------------------------------------------------------------------
(* Messages and their JSON.                                                *)

\* The value is the text, the detail of an image, the data, the function of a call
\* ("nil" for none, "blank" for one without a name), the content of an answer.
Part == [type : {"text"}, value : {"", "x"}] \cup [type : {"image_url"}, value : {"", "low"}]
        \cup [type : {"binary", "tool_response"}, value : {"x"}]
        \cup [type : {"tool_call"}, value : {"nil", "f"}]
Messages == [role : {"human", "ai"},
             parts : {<<>>} \cup {<<p>> : p \in Part} \cup (Part \X Part)]

\* A single text is written as a text, without its type.
MarshalJSON(message) ==
    IF Len(message.parts) = 1 /\ message.parts[1].type = "text"
    THEN [role |-> message.role, text |-> message.parts[1].value]
    ELSE message

UnmarshalJSON(json) ==
    IF "parts" \in DOMAIN json THEN json
    ELSE [role |-> json.role,
          parts |-> IF json.text = "" THEN <<>>
                    ELSE <<[type |-> "text", value |-> json.text]>>]

\* The functions of the types themselves: that of ToolCall looks for the raw JSON of
\* the function where there is a decoded one.
UnmarshalPart(part) ==
    IF part.type = "tool_call" THEN [part EXCEPT !.value = "blank"] ELSE part
----------------------------------------------------------------------------
(* The calls.                                                              *)

\* "two" asks for two candidates, the metadata of "function" cannot be encoded.
Options == {"plain", "two", "function"}
Image(detail) == [role |-> "human", parts |-> <<[type |-> "image_url", value |-> detail]>>]
Requests == [message : {Image("low")}, options : {"plain"}, streams : BOOLEAN]
            \cup [message : {Image("")}, options : Options, streams : {FALSE}]

\* StreamingFunc is no part of the JSON of the options.
hashKeyForCache(r) == [message |-> MarshalJSON(r.message), options |-> r.options]
Keys == {hashKeyForCache(r) : r \in {q \in Requests : q.options # "function"}}

\* A response is told by its place in given, 0 for nil.
Calls == [request : Requests, response : 0..MaxRequests,
          step : {"get", "stream", "ask", "put", "ok", "error"},
          streamed : 0..MaxRequests,   \* the response whose first choice was streamed
          hit : BOOLEAN]

TypeOK ==
    /\ calls \in Seq(Calls) /\ Len(calls) <= MaxRequests
    /\ entries \in [Keys -> 0..MaxRequests]
    /\ given \in Seq([key : Keys, choices : {0, 2}]) /\ Len(given) <= MaxRequests

Init == calls = <<>> /\ entries = [k \in Keys |-> 0] /\ given = <<>>

\* The options are encoded before anything else is done.
Begin(r) ==
    /\ Len(calls) < MaxRequests
    /\ calls' = Append(calls,
           [request |-> r, response |-> 0, streamed |-> 0, hit |-> FALSE,
            step |-> IF r.options = "function" THEN "error" ELSE "get"])
    /\ UNCHANGED <<entries, given>>

Becomes(i, call) == calls' = [calls EXCEPT ![i] = call]

Get(i) ==
    LET c == calls[i]
        entry == entries[hashKeyForCache(c.request)]
        streams == c.request.streams /\ given[entry].choices > 0
    IN /\ c.step = "get"
       /\ Becomes(i, [c EXCEPT !.response = entry, !.hit = entry # 0,
                               !.step = CASE entry = 0 -> "ask"
                                          [] entry # 0 /\ streams -> "stream"
                                          [] OTHER -> "ok"])
       /\ UNCHANGED <<entries, given>>

\* Only the first choice is streamed; the function may fail.
Stream(i) ==
    LET c == calls[i]
    IN /\ c.step = "stream"
       /\ \/ Becomes(i, [c EXCEPT !.streamed = c.response, !.step = "ok"])
          \/ Becomes(i, [c EXCEPT !.step = "error", !.response = 0])
       /\ UNCHANGED <<entries, given>>

\* The model streams its answer itself; it may fail.
Ask(i) ==
    LET c == calls[i]
    IN /\ c.step = "ask"
       /\ \/ \E n \in {0, 2} :
                /\ given' = Append(given, [key |-> hashKeyForCache(c.request), choices |-> n])
                /\ Becomes(i, [c EXCEPT
                       !.response = Len(given) + 1, !.step = "put",
                       !.streamed = IF c.request.streams /\ n > 0 THEN Len(given) + 1 ELSE 0])
          \/ Becomes(i, [c EXCEPT !.step = "error"]) /\ UNCHANGED given
       /\ UNCHANGED entries

Put(i) ==
    LET c == calls[i]
    IN /\ c.step = "put"
       /\ entries' = [entries EXCEPT ![hashKeyForCache(c.request)] = c.response]
       /\ Becomes(i, [c EXCEPT !.step = "ok"])
       /\ UNCHANGED given

\* The backend evicts what has expired.
Expire == /\ \E k \in Keys : entries[k] # 0 /\ entries' = [entries EXCEPT ![k] = 0]
          /\ UNCHANGED <<calls, given>>

Next == \/ \E r \in Requests : Begin(r)
        \/ \E i \in DOMAIN calls : Get(i) \/ Stream(i) \/ Ask(i) \/ Put(i)
        \/ Expire

Spec == Init /\ [][Next]_vars
----------------------------------------------------------------------------
(* A call gets an answer the model gave to the same messages and options, with the
   first choice streamed if it asked for that, whoever's call it was given to, and
   however the calls that ask for the same at a time interleave. *)
CachedIsAnswer ==
    \A i \in DOMAIN calls :
        LET c == calls[i]
        IN c.step = "ok" =>
               /\ c.response # 0
               /\ given[c.response].key = [message |-> MarshalJSON(c.request.message),
                                           options |-> c.request.options]
               /\ c.streamed = IF c.request.streams /\ given[c.response].choices > 0
                               THEN c.response ELSE 0

(* Different requests have different keys: an image with another detail is another
   question, another number of candidates too. *)
KeysTellRequests ==
    \A i, j \in DOMAIN calls :
        hashKeyForCache(calls[i].request) = hashKeyForCache(calls[j].request) =>
            /\ calls[i].request.message = calls[j].request.message
            /\ calls[i].request.options = calls[j].request.options

(* What was got from the cache had been put there by a call that asked the model: a
   failure is never kept, an answer without choices is. *)
HitsWerePut ==
    \A i \in DOMAIN calls :
        calls[i].hit /\ calls[i].response # 0 =>
            \E j \in DOMAIN calls : /\ j # i /\ ~calls[j].hit /\ calls[j].step = "ok"
                                    /\ calls[j].response = calls[i].response

(* A message survives its JSON, but for a single text that is empty, which comes back
   without parts. A part that is read by itself survives too, but for the function
   of a tool call. *)
MessagesSurvive ==
    calls = <<>> =>
        /\ \A m \in Messages :
               \/ UnmarshalJSON(MarshalJSON(m)) = m
               \/ m.parts = <<[type |-> "text", value |-> ""]>>
        /\ \A p \in Part : UnmarshalPart(p) = p \/ p.type = "tool_call"
----------------------------------------------------------------------------
(* The inductive invariant of what is kept and what a call was given, in parts. *)

Key(c) == hashKeyForCache(c.request)

CallsInv ==
    /\ calls \in Seq([request : Requests, response : Nat, streamed : Nat, hit : BOOLEAN,
                      step : {"get", "stream", "ask", "put", "ok", "error"}])
    /\ \A i \in DOMAIN calls : calls[i].step # "error" => calls[i].request.options # "function"

\* Answers of the model are kept under the key they were given for.
GivenInv ==
    /\ given \in Seq([key : Keys, choices : {0, 2}])
    /\ entries \in [Keys -> 0..Len(given)]
    /\ \A k \in Keys : entries[k] # 0 => given[entries[k]].key = k

\* What a call knows at each of its steps: before its look into the cache nothing, then
\* an answer under its key, which it streams if it was asked to.
StepInv ==
    \A i \in DOMAIN calls :
        LET c == calls[i]
        IN /\ c.response <= Len(given)
           /\ c.step \in {"get", "ask", "stream", "error"} => c.streamed = 0
           /\ c.step = "get" => c.response = 0 /\ ~c.hit
           /\ c.step = "ask" => c.response = 0 /\ ~c.hit
           /\ c.step = "put" => ~c.hit
           /\ c.step \in {"stream", "put", "ok"} => /\ c.response # 0
                                                   /\ given[c.response].key = Key(c)
           /\ c.step = "stream" => c.hit /\ c.request.streams /\ given[c.response].choices > 0
           /\ c.step \in {"put", "ok"} =>
                 c.streamed = IF c.request.streams /\ given[c.response].choices > 0
                              THEN c.response ELSE 0

\* What is kept was put there by a call that asked for it and has ended.
KeptInv == \A k \in Keys : entries[k] # 0 =>
               \E j \in DOMAIN calls : /\ ~calls[j].hit /\ calls[j].step = "ok"
                                       /\ calls[j].response = entries[k]

\* Each answer was given to a call of its own.
Askers == {i \in DOMAIN calls : ~calls[i].hit /\ calls[i].response # 0}
SizeInv == Len(calls) <= MaxRequests /\ Len(given) <= Cardinality(Askers)

IInv == CallsInv /\ GivenInv /\ StepInv /\ KeptInv /\ HitsWerePut /\ SizeInv
=============================================================================
