------------------------- MODULE MessageConversion -------------------------
(***************************************************************************)
(* From a conversation to the request of a model's service: how each model *)
(* under llms/ translates a sequence of llms.MessageContent.               *)
(*                                                                         *)
(* A message is a role and a sequence of parts; a part is its kind, and is *)
(* known in the request by its place <<message, part>> in the conversation.*)
(* The conversation is chosen message by message while it is translated,   *)
(* which gives the same requests as translating any conversation.          *)
(***************************************************************************)
EXTENDS Naturals, Sequences

CONSTANTS Roles,        \* the roles of messages
          PartLists,    \* the parts a message may have
          MaxMessages   \* the length of a conversation

Chat == {"openai", "anthropic", "bedrock", "bedrockText", "ollama", "llamafile",
         "maritaca", "cloudflare", "googleai", "vertex", "mistral"}

\* These use the first part of the first message and nothing else.
Single == {"anthropicText", "cohere", "ernie", "huggingface", "local", "palm",
           "watsonx"}

Google == {"googleai", "vertex"}

Clients == Chat \cup Single

Kinds == {"text", "image", "binary", "call", "answer"}

Messages == [role : Roles, parts : PartLists]

----------------------------------------------------------------------------
(* Parts.                                                                  *)

\* The parts of the i-th message m that are of these kinds, in order.
Parts(i, m, kinds) ==
    LET told[j \in 0..Len(m.parts)] ==
            IF j = 0 THEN <<>>
            ELSE IF m.parts[j] \in kinds THEN Append(told[j - 1], <<i, j>>)
            ELSE told[j - 1]
    IN told[Len(m.parts)]

Only(m, kinds) == \A j \in DOMAIN m.parts : m.parts[j] \in kinds

First(m) == IF m.parts = <<>> THEN "none" ELSE m.parts[1]

Place(i) == << <<i, 1>> >>

----------------------------------------------------------------------------
(* What becomes of the i-th message: it is sent (with these parts), it is  *)
(* refused, or the translation panics.                                     *)

Sends(parts)   == [verdict |-> "send", parts |-> parts]
Refuses        == [verdict |-> "refuse", parts |-> <<>>]
Panics         == [verdict |-> "panic", parts |-> <<>>]
SendIf(c, parts) == IF c THEN Sends(parts) ELSE Refuses

\* Deviation: tool calls are not taken out of the content.
OpenAIWithoutCalls(i, m) ==
    IF m.role = "tool" THEN SendIf(m.parts = <<"answer">>, Place(i))
    ELSE Sends(Parts(i, m, {"text", "image", "binary"}))

\* Tool calls go into a field of their own; an answer outside a tool message
\* is not kept.
OpenAI(i, m) ==
    IF m.role = "tool" THEN SendIf(m.parts = <<"answer">>, Place(i))
    ELSE Sends(Parts(i, m, {"text", "image", "binary"}) \o Parts(i, m, {"call"}))

FirstOf(i, m, kinds) == IF m.parts = <<>> THEN Panics
                        ELSE SendIf(First(m) \in kinds, Place(i))

Anthropic(i, m) ==
    CASE m.role = "system" -> FirstOf(i, m, {"text"})
      [] m.role = "human"  -> SendIf(m.parts # <<>> /\ Only(m, {"text", "binary"}),
                                     Parts(i, m, {"text", "binary"}))
      [] m.role = "ai"     -> FirstOf(i, m, {"call", "text"})
      [] m.role = "tool"   -> FirstOf(i, m, {"answer"})
      [] OTHER             -> Refuses

Bedrock(i, m) == SendIf(Only(m, {"text", "binary"}),
                        Parts(i, m, {"text", "binary"}))

\* The prompt of the other bedrock models leaves images out.
BedrockText(i, m) == SendIf(Only(m, {"text", "binary"}), Parts(i, m, {"text"}))

\* One text and, where there are `others`, images.
SingleText(i, m, others) ==
    SendIf(Only(m, {"text"} \cup others) /\ Len(Parts(i, m, {"text"})) < 2,
           Parts(i, m, {"text"}) \o Parts(i, m, others))

GoogleAI(i, m) == SendIf(m.role # "function",
                         Parts(i, m, {"text", "binary", "image", "call", "answer"}))

Mistral(i, m) == SendIf(Only(m, {"text", "call", "answer"}),
                        Parts(i, m, {"text", "call", "answer"}))

Translated(c, i, m) ==
    CASE c = "openai"      -> OpenAI(i, m)
      [] c = "anthropic"   -> Anthropic(i, m)
      [] c = "bedrock"     -> Bedrock(i, m)
      [] c = "bedrockText" -> BedrockText(i, m)
      [] c \in {"ollama", "llamafile"}    -> SingleText(i, m, {"binary"})
      [] c \in {"maritaca", "cloudflare"} -> SingleText(i, m, {})
      [] c \in Google      -> GoogleAI(i, m)
      [] c = "mistral"     -> Mistral(i, m)
      [] c \in Single      -> Sends(<<>>)    \* looked at in Send

\* The role a message has in the request.
RoleOf(c, role) ==
    CASE role = "human"   -> "user"
      [] role = "generic" -> IF c = "bedrockText" THEN "generic" ELSE "user"
      [] role = "ai"      -> "assistant"
      [] role = "system"  -> "system"
      [] role = "tool"    -> IF c \in {"anthropic"} \cup Google THEN "user" ELSE "tool"
      [] role = "function" -> IF c = "mistral" THEN "tool" ELSE "function"

----------------------------------------------------------------------------
VARIABLES client,
          conversation,  \* the messages translated so far
          chunk,         \* bedrock: the role of the last message that had parts
          system,        \* the parts of the system prompt, where it is apart
          messages,      \* the messages of the request: role and parts
          outcome        \* "open", "sent", "refused" or "panic"

vars == <<client, conversation, chunk, system, messages, outcome>>

Init == /\ client \in Clients
        /\ conversation = <<>> /\ chunk = "none"
        /\ system = <<>> /\ messages = <<>>
        /\ outcome = "open"

i == Len(conversation) + 1

Takes(m) == /\ outcome = "open"
            /\ Len(conversation) < MaxMessages
            /\ conversation' = Append(conversation, m)

Adds(role, parts) == messages' = Append(messages, [role |-> role, parts |-> parts])

Refuse(m) == LET t == Translated(client, i, m) IN
    /\ Takes(m)
    /\ t.verdict # "send"
    /\ outcome' = IF t.verdict = "panic" THEN "panic" ELSE "refused"
    /\ UNCHANGED <<client, chunk, system, messages>>

\* System messages kept apart: anthropic joins them, googleai keeps the last.
TranslateSystem(m) == LET t == Translated(client, i, m) IN
    /\ m.role = "system" /\ client \in {"anthropic"} \cup Google
    /\ Takes(m)
    /\ t.verdict = "send"
    /\ system' = IF client = "anthropic" THEN system \o t.parts ELSE t.parts
    /\ UNCHANGED <<client, chunk, messages, outcome>>

Translate(m) == LET t == Translated(client, i, m) IN
    /\ client \notin {"bedrock", "bedrockText", "mistral"}
    /\ ~(m.role = "system" /\ client \in {"anthropic"} \cup Google)
    /\ Takes(m)
    /\ t.verdict = "send"
    /\ Adds(RoleOf(client, m.role), t.parts)
    /\ UNCHANGED <<client, chunk, system, outcome>>

\* One message for each part.
TranslateParts(m) == LET t == Translated(client, i, m) IN
    /\ client \in {"bedrockText", "mistral"}
    /\ Takes(m)
    /\ t.verdict = "send"
    /\ messages' = messages \o [k \in DOMAIN t.parts |->
                                  [role |-> RoleOf(client, m.role), parts |-> <<t.parts[k]>>]]
    /\ UNCHANGED <<client, chunk, system, outcome>>

SameChunk(m) == m.role = chunk

Groups(m) == CASE m.role = "system" -> /\ Only(m, {"text"})
                                       /\ SameChunk(m) \/ system = <<>>
               [] m.role \in {"function", "tool"} -> FALSE
               [] OTHER -> TRUE

\* bedrock joins the parts of consecutive messages of one role; the system
\* prompt is one such chunk, of text.
TranslateChunk(m) == LET t == Translated(client, i, m) IN
    /\ client = "bedrock"
    /\ Takes(m)
    /\ t.verdict = "send"
    /\ chunk' = IF t.parts = <<>> THEN chunk ELSE m.role
    /\ \/ /\ t.parts = <<>>
          /\ UNCHANGED <<system, messages, outcome>>
       \/ /\ t.parts # <<>> /\ ~Groups(m)
          /\ outcome' = "refused"
          /\ UNCHANGED <<system, messages>>
       \/ /\ t.parts # <<>> /\ Groups(m) /\ m.role = "system"
          /\ system' = system \o t.parts
          /\ UNCHANGED <<messages, outcome>>
       \/ /\ t.parts # <<>> /\ Groups(m) /\ m.role # "system"
          /\ IF SameChunk(m)
             THEN messages' = [messages EXCEPT ![Len(messages)].parts = @ \o t.parts]
             ELSE Adds(RoleOf(client, m.role), t.parts)
          /\ UNCHANGED <<system, outcome>>
    /\ UNCHANGED client

(* The conversation is complete and the request is made.                   *)

Ready == outcome = "open" /\ UNCHANGED <<client, conversation, chunk, system>>

SendChat ==
    /\ client \in Chat \ Google
    /\ Ready
    /\ outcome' = "sent"
    /\ UNCHANGED messages

\* A single message must be the human's; otherwise the last one is the request,
\* which is always the user's, and the others its history.
SendGoogle ==
    /\ client \in Google
    /\ Ready
    /\ IF Len(conversation) = 1 /\ conversation[1].role # "human"
       THEN outcome' = "refused" /\ UNCHANGED messages
       ELSE IF messages = <<>> THEN outcome' = "panic" /\ UNCHANGED messages
       ELSE /\ outcome' = "sent"
            /\ messages' = [messages EXCEPT ![Len(messages)].role = "user"]

PromptOf == 1

SendSingle ==
    /\ client \in Single
    /\ Ready
    /\ LET first == IF conversation = <<>> THEN "none" ELSE First(conversation[PromptOf])
       IN \/ /\ first = "text"
             /\ outcome' = "sent"
             /\ messages' = <<[role |-> "user", parts |-> Place(PromptOf)]>>
          \/ /\ first # "text"
             /\ outcome' = IF client = "anthropicText"
                              \/ (client = "watsonx" /\ first # "none")
                           THEN "refused" ELSE "panic"
             /\ messages' = <<>>

Next == \/ \E m \in Messages : \/ Refuse(m) \/ TranslateSystem(m) \/ Translate(m)
                               \/ TranslateParts(m) \/ TranslateChunk(m)
        \/ SendChat \/ SendGoogle \/ SendSingle

Spec == Init /\ [][Next]_vars

----------------------------------------------------------------------------
Placed == {<<k, j>> : k \in 1..MaxMessages, j \in 1..3}
Requests == [role : {"user", "assistant", "system", "tool", "function", "generic"},
             parts : Seq(Placed)]

TypeOK ==
    /\ client \in Clients
    /\ conversation \in Seq(Messages) /\ Len(conversation) <= MaxMessages
    /\ chunk \in Roles \cup {"none"}
    /\ system \in Seq(Placed)
    /\ messages \in Seq(Requests)
    /\ outcome \in {"open", "sent", "refused", "panic"}

Elements(s) == {s[k] : k \in DOMAIN s}
Requested == Elements(system)
               \cup UNION {Elements(messages[k].parts) : k \in DOMAIN messages}

Given(kinds, roles) == {p \in Placed : /\ p[1] <= Len(conversation)
                                       /\ p[2] <= Len(conversation[p[1]].parts)
                                       /\ conversation[p[1]].parts[p[2]] \in kinds
                                       /\ conversation[p[1]].role \in roles}

(* The request tells the conversation in its order: what a later message of
   the request says was never said before what an earlier one says. *)
MessagesInOrder ==
    \A k, l \in DOMAIN messages : k < l =>
        \A p \in Elements(messages[k].parts), q \in Elements(messages[l].parts) :
            p[1] <= q[1]

(* Nothing is said in the name of another: a part is sent under the role of
   the message it came from, grouping or not. Google's last message is the
   exception: it is sent as the user's, whoever spoke. *)
RolesKept ==
    \A k \in DOMAIN messages : \A p \in Elements(messages[k].parts) :
        \/ messages[k].role = RoleOf(client, conversation[p[1]].role)
        \/ client \in Google /\ k = Len(messages) /\ outcome = "sent"
        \/ client \in Single

(* A chat of text messages, one part each, with a system message at most at
   the start, arrives whole at every model that takes a conversation, unless it
   is refused. *)
PlainChat ==
    \A k \in DOMAIN conversation :
        /\ conversation[k].parts = <<"text">>
        /\ conversation[k].role = "system" => k = 1

PlainChatArrives ==
    outcome = "sent" /\ client \in Chat /\ PlainChat
    => Requested = Given({"text"}, Roles)

(* Parallel tool calls: every call an AI message makes is sent back to the
   service, which otherwise refuses the answers to it. anthropic sends the first
   part of such a message only. *)
CallsArrive ==
    outcome = "sent" /\ client \in Chat \ {"anthropic"}
    => Given({"call"}, {"ai"}) \subseteq Requested

(* Every answer in a tool message is sent; anthropic sends the first of each
   message. *)
AnswersArrive ==
    outcome = "sent" /\ client \in Chat \ {"anthropic"}
    => Given({"answer"}, {"tool"}) \subseteq Requested

\* The losses: the second part and those after it for anthropic, every system message
\* but the last for googleai, images in a text prompt, answers outside tool messages
\* for openai.
Lost(p) ==
    LET m == conversation[p[1]] IN
    \/ client = "anthropic" /\ m.role # "human" /\ p[2] > 1
    \/ /\ client \in Google /\ m.role = "system"
       /\ \E k \in p[1]+1..Len(conversation) : conversation[k].role = "system"
    \/ client = "bedrockText" /\ m.parts[p[2]] = "binary"
    \/ client = "openai" /\ m.parts[p[2]] = "answer" /\ m.role # "tool"

(* What is left out of a request is one of the losses named, and nothing else. *)
LossesKnown ==
    outcome = "sent" /\ client \in Chat =>
        \A p \in Given(Kinds, Roles) \ Requested : Lost(p)

(* Roles alternate in a request to an anthropic model on bedrock, as its service
   demands, unless a system or generic message stands between. *)
RolesAlternate ==
    client = "bedrock" =>
        \A k \in 1..Len(messages) - 1 :
            \/ messages[k].role # messages[k + 1].role
            \/ \E l \in DOMAIN conversation : conversation[l].role \in {"system", "generic"}

(* No text conversation in which a human speaks makes the translation panic. *)
TextNeverPanics ==
    outcome = "panic" =>
        \/ \E k \in DOMAIN conversation : conversation[k].parts = <<>>
        \/ \A k \in DOMAIN conversation : conversation[k].role # "human"
        \/ client \in Single /\ First(conversation[1]) # "text"

----------------------------------------------------------------------------
(* The inductive invariant of a translation.                               *)

\* What is requested was said, and is told in its order and under its role.
ToldInv == Requested \subseteq Given(Kinds, Roles) /\ MessagesInOrder /\ RolesKept

\* What was said is requested or one of the losses, while the conversation is
\* translated as when it has been sent.
LossInv ==
    outcome \in {"open", "sent"} /\ client \in Chat =>
        \A p \in Given(Kinds, Roles) \ Requested : Lost(p)

\* bedrock's chunk is the role of a message, and of the last of the request unless
\* that is apart.
ChunkInv ==
    client = "bedrock" /\ outcome = "open" =>
        /\ IF chunk = "none" THEN messages = <<>>
           ELSE \E k \in DOMAIN conversation : conversation[k].role = chunk
        /\ chunk \notin {"none", "system"} =>
              messages # <<>> /\ messages[Len(messages)].role = RoleOf(client, chunk)

\* What googleai has apart are system messages, and only these.
SystemInv ==
    client \in Google =>
        /\ \A p \in Elements(system) : conversation[p[1]].role = "system"
        /\ outcome = "open" /\ messages = <<>> =>
              \A k \in DOMAIN conversation : conversation[k].role = "system"

IInv == /\ TypeOK /\ ToldInv /\ LossInv /\ ChunkInv /\ SystemInv
        /\ RolesAlternate /\ TextNeverPanics

=============================================================================
