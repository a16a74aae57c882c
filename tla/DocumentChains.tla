--------------------------- MODULE DocumentChains ---------------------------
(***************************************************************************)
(* The chains that answer from documents: stuff, refine, map_reduce and    *)
(* map_rerank, called by themselves, over a retriever (RetrievalQA) or in  *)
(* a conversation (ConversationalRetrievalQA, with a ConversationBuffer).  *)
(*                                                                         *)
(* A text is told by where it comes from: a document, its metadata, the    *)
(* caller, or the request to the model that it answers. chains.Apply runs  *)
(* the requests of the map chains: it starts them in order, at most so     *)
(* many at a time, and returns at the first that fails (ChainApply).       *)
(***************************************************************************)
EXTENDS Integers, SequencesExt

CONSTANTS MaxDocs   \* bound on the documents

VARIABLES
    setup,      \* the chain, what calls it, and their options
    pc,         \* "begin", "retrieve", "combine", "map", "ask" or "returned"
    docs,       \* the documents
    asked,      \* the requests to the model, in the order they are made
    answers,    \* and the answers to them
    kept,       \* what the memory of the conversation was given
    outcome     \* how the call ended, with which answer

vars == <<setup, pc, docs, asked, answers, kept, outcome>>
calling == <<setup, kept>>

Setup == [chain : {"stuff", "refine", "map_reduce", "map_rerank"},
          over : {"caller", "retrieval", "conversation"},
          history : {"none", "missing", "unreadable", "some"},
          typed : BOOLEAN,      \* the documents are given as documents
          context : BOOLEAN,    \* a value is given in the variable of the documents
          workers : {1, 2},
          steps : BOOLEAN,      \* ReturnIntermediateSteps
          rephrase : BOOLEAN,   \* RephraseQuestion
          extra : BOOLEAN,      \* ReturnSourceDocuments or ReturnGeneratedQuestion
          keyed : BOOLEAN,      \* the memory knows which output to keep
          renamed : BOOLEAN]    \* OutputKey is not that of the question's chain

\* Options of other chains and callers are not varied.
Possible(s) ==
    /\ s.over # "caller" => s.typed /\ ~s.context
    /\ s.chain \notin {"map_reduce", "map_rerank"} => s.workers = 1 /\ ~s.steps
    /\ s.over # "conversation" =>
          /\ s.history = "none"
          /\ ~s.rephrase /\ ~s.extra /\ ~s.keyed /\ ~s.renamed

Document == [place : 1..MaxDocs, own : BOOLEAN]  \* own: metadata has a page_content
DocumentLists ==
    {d \in UNION {[1..n -> Document] : n \in 0..MaxDocs} : \A k \in DOMAIN d : d[k].place = k}

Origins == {"document", "metadata", "caller", "answer"}
From(origin, k) == [of |-> origin, at |-> k]
Request == [to : {"condense", "stuff", "initial", "refine", "map", "reduce"},
            texts : Seq([of : Origins, at : Nat]),
            question : {"asked", "generated"},
            existing : Nat]     \* the answer to refine

Hows == {"pending", "text", "scored", "unscored", "failed"}
Answer == [how : Hows, score : 0..1]
Pending == [how |-> "pending", score |-> 0]
Plain(how) == [how |-> how, score |-> 0]

\* What the model may say: with map_rerank a text in another form than the
\* expression of its parser is an error of the chain.
Says(request) ==
    {Plain("failed")} \cup
    IF request.to = "map" /\ setup.chain = "map_rerank"
    THEN {Plain("unscored")} \cup {[how |-> "scored", score |-> s] : s \in 0..1}
    ELSE {Plain("text")}

Outcome == [how : {"none", "ok", "error", "panic"}, answer : Nat]
Ended(how, n) == pc' = "returned" /\ outcome' = [how |-> how, answer |-> n]
Failed == Ended("error", 0)

TypeOK ==
    /\ setup \in Setup /\ Possible(setup)
    /\ pc \in {"begin", "retrieve", "combine", "map", "ask", "returned"}
    /\ docs \in DocumentLists
    /\ asked \in Seq(Request) /\ answers \in Seq(Answer) /\ Len(answers) = Len(asked)
    /\ kept \in {<<>>, <<"question">>, <<"question", "answer">>}
    /\ outcome \in Outcome
----------------------------------------------------------------------------
Init ==
    /\ setup \in {s \in Setup : Possible(s)}
    /\ docs \in IF setup.over = "caller" THEN DocumentLists ELSE {<<>>}
    /\ asked = <<>> /\ answers = <<>> /\ kept = <<>>
    /\ outcome = [how |-> "none", answer |-> 0]
    /\ pc = IF setup.over = "conversation" THEN "begin"
            ELSE IF setup.over = "retrieval" THEN "retrieve" ELSE "combine"

\* What the chain of the documents is asked: the question of the caller or the
\* one that was generated from it.
rephraseQuestion ==
    IF setup.rephrase /\ setup.history = "some" THEN "generated" ELSE "asked"

Ask(to, texts, existing) ==
    /\ asked' = Append(asked, [to |-> to, texts |-> texts, question |-> rephraseQuestion,
                               existing |-> existing])
    /\ answers' = Append(answers, Pending)

\* A history is written down and, if there is any, told with the question.
getQuestion ==
    /\ pc = "begin"
    /\ \/ setup.history \in {"missing", "unreadable"} /\ Failed
          /\ UNCHANGED <<asked, answers>>
       \/ setup.history = "none" /\ pc' = "retrieve" /\ UNCHANGED <<asked, answers, outcome>>
       \/ /\ setup.history = "some" /\ pc' = "ask"
          /\ asked' = Append(asked, [to |-> "condense", texts |-> <<>>,
                                     question |-> "asked", existing |-> 0])
          /\ answers' = Append(answers, Pending)
          /\ UNCHANGED outcome
    /\ UNCHANGED <<calling, docs>>

GetRelevantDocuments ==
    /\ pc = "retrieve"
    /\ \/ Failed /\ UNCHANGED docs
       \/ docs' \in DocumentLists /\ pc' = "combine" /\ UNCHANGED outcome
    /\ UNCHANGED <<calling, asked, answers>>

\* Refining formats a document with its metadata, which wins over its content,
\* and the values of the caller win over that.
getBaseInputs(doc) ==
    IF setup.context THEN <<From("caller", 0)>>
    ELSE <<From(IF doc.own THEN "metadata" ELSE "document", doc.place)>>

joinDocuments(origin) == [k \in DOMAIN docs |-> From(origin, k)]

Combine ==
    /\ pc = "combine"
    /\ IF \/ ~setup.typed
          \/ docs = <<>> /\ setup.chain \in {"refine", "map_rerank"}
       THEN Failed /\ UNCHANGED <<asked, answers>>
       ELSE /\ UNCHANGED outcome
            /\ \/ setup.chain = "stuff" /\ Ask("stuff", joinDocuments("document"), 0)
               \/ setup.chain = "refine" /\ Ask("initial", getBaseInputs(docs[1]), 0)
               \/ setup.chain = "map_reduce" /\ docs = <<>> /\ Ask("reduce", <<>>, 0)
               \/ /\ setup.chain \in {"map_reduce", "map_rerank"} /\ docs # <<>>
                  /\ UNCHANGED <<asked, answers>>
            /\ pc' = IF setup.chain \in {"map_reduce", "map_rerank"} /\ docs # <<>>
                     THEN "map" ELSE "ask"
    /\ UNCHANGED <<calling, docs>>

Maps == {n \in DOMAIN asked : asked[n].to = "map"}
Waiting == {n \in DOMAIN asked : answers[n].how = "pending"}

\* A worker takes the next document.
AskNext ==
    /\ pc = "map"
    /\ Cardinality(Maps) < Len(docs) /\ Cardinality(Waiting) < setup.workers
    /\ Ask("map", <<From("document", Cardinality(Maps) + 1)>>, 0)
    /\ UNCHANGED <<calling, pc, docs, outcome>>
----------------------------------------------------------------------------
(* What is returned.                                                       *)

\* A conversation wants one output of its chain, and its memory one of it; by
\* then the question is in the memory.
SaveContext(n) ==
    IF setup.steps THEN Failed /\ UNCHANGED kept
    ELSE IF setup.extra /\ ~setup.keyed THEN Failed /\ kept' = <<"question">>
    ELSE Ended("ok", n) /\ kept' = <<"question", "answer">>

Return(n) ==
    IF setup.over = "conversation" THEN SaveContext(n)
    ELSE Ended("ok", n) /\ UNCHANGED kept

\* The highest score; an answer without one comes after all that have it. Answers
\* of one score keep their order, as the sort leaves so few of them.
Ranked(heard) ==
    LET before(m, n) ==
            /\ heard[m].how = "scored"
            /\ heard[n].how = "scored" => heard[m].score > heard[n].score
        first(m) == \A n \in Maps \ {m} : ~before(n, m)
    IN CHOOSE m \in Maps : first(m) /\ \A n \in Maps : first(n) => m <= n

\* The last of the answers of the documents is there.
Reduce(heard) ==
    IF setup.chain = "map_rerank"
    THEN Return(Ranked(heard)) /\ answers' = heard /\ UNCHANGED asked
    ELSE LET all == [to |-> "reduce", question |-> rephraseQuestion, existing |-> 0,
                     texts |-> [k \in DOMAIN docs |->
                                   From("answer", Len(asked) - Len(docs) + k)]]
         IN /\ asked' = Append(asked, all) /\ answers' = Append(heard, Pending)
            /\ pc' = "ask" /\ UNCHANGED <<outcome, kept>>

AnswerOfDocument(n) ==
    /\ pc = "map" /\ n \in Waiting
    /\ \E answer \in Says(asked[n]) :
          LET heard == [answers EXCEPT ![n] = answer]
              waits == \E m \in Maps : heard[m].how = "pending"
          IN IF answer.how = "failed"
             THEN Failed /\ answers' = heard /\ UNCHANGED <<asked, kept>>
             ELSE IF waits \/ Cardinality(Maps) < Len(docs)
                  THEN answers' = heard /\ UNCHANGED <<asked, pc, kept, outcome>>
                  ELSE Reduce(heard)
    /\ UNCHANGED <<setup, docs>>

\* Adding the intermediate steps to the result of a reduce that failed panics.
maybeAddIntermediateSteps ==
    IF setup.steps THEN Ended("panic", 0) ELSE Failed

Refined == {n \in DOMAIN asked : asked[n].to \in {"initial", "refine"}}

AnswerOf(n) ==
    /\ pc = "ask" /\ n = Len(asked)
    /\ \E answer \in Says(asked[n]) :
          LET heard == [answers EXCEPT ![n] = answer]
              done == Cardinality(Refined)
          IN \/ /\ answer.how = "failed" /\ answers' = heard
                /\ IF asked[n].to = "reduce" THEN maybeAddIntermediateSteps ELSE Failed
                /\ UNCHANGED <<asked, kept>>
             \/ /\ answer.how = "text" /\ asked[n].to = "condense" /\ answers' = heard
                /\ IF setup.renamed THEN Failed ELSE pc' = "retrieve" /\ UNCHANGED outcome
                /\ UNCHANGED <<asked, kept>>
             \/ /\ answer.how = "text" /\ asked[n].to \in {"initial", "refine"}
                /\ done < Len(docs)
                /\ asked' = Append(asked, [to |-> "refine", existing |-> n,
                                           texts |-> getBaseInputs(docs[done + 1]),
                                           question |-> rephraseQuestion])
                /\ answers' = Append(heard, Pending)
                /\ UNCHANGED <<pc, kept, outcome>>
             \/ /\ answer.how = "text" /\ answers' = heard /\ UNCHANGED asked
                /\ \/ asked[n].to \in {"stuff", "reduce"}
                   \/ asked[n].to \in {"initial", "refine"} /\ done = Len(docs)
                /\ Return(n)
    /\ UNCHANGED <<setup, docs>>

Next == \/ getQuestion \/ GetRelevantDocuments \/ Combine \/ AskNext
        \/ \E n \in DOMAIN asked : AnswerOfDocument(n) \/ AnswerOf(n)

Spec == Init /\ [][Next]_vars
----------------------------------------------------------------------------
Ok == outcome.how = "ok"

\* The requests before those about the documents: the one that condenses.
Before == IF setup.history = "some" THEN 1 ELSE 0

MapTells(k) == LET request == asked[Before + k]
               IN request.to = "map" /\ request.texts = <<From("document", k)>>

\* It has the answer so far. What else stands for a document is its metadata, and
\* nothing of it is told if the caller gives a context.
RefineTells(k) ==
    LET request == asked[Before + k]
    IN /\ request.to \in {"initial", "refine"}
       /\ request.existing = IF k = 1 THEN 0 ELSE Before + k - 1
       /\ ~setup.context => /\ Len(request.texts) = 1 /\ request.texts[1].at = k
                            /\ request.texts[1].of = "metadata" <=> docs[k].own

StuffTells == /\ Len(asked) = Before + 1
              /\ asked[Before + 1].texts = joinDocuments("document")
ReduceTells == /\ Len(asked) = Before + Len(docs) + 1
               /\ asked[Len(asked)].texts = [k \in DOMAIN docs |-> From("answer", Before + k)]

(* Whatever order the answers come in, an answer was made of every document, once
   and in their order: told together, one after the other with the answer so far,
   or each by itself and then all that was said of them; and nothing else was asked. *)
DocumentsAreTold ==
    Ok =>
        /\ setup.chain = "stuff" => StuffTells
        /\ setup.chain = "refine" =>
              Len(asked) = Before + Len(docs) /\ \A k \in DOMAIN docs : RefineTells(k)
        /\ setup.chain \in {"map_reduce", "map_rerank"} => \A k \in DOMAIN docs : MapTells(k)
        /\ setup.chain = "map_rerank" => Len(asked) = Before + Len(docs)
        /\ setup.chain = "map_reduce" => ReduceTells

(* The answer is the last that was said, and with map_rerank the one that was
   scored highest, one without a score only if no other has one. *)
AnswerIsBest ==
    Ok => LET last == answers[outcome.answer] IN
        IF setup.chain # "map_rerank" THEN outcome.answer = Len(asked)
        ELSE \A n \in Maps : /\ answers[n].score <= last.score
                             /\ answers[n].how = "scored" => last.how = "scored"

(* A call fails when a request or the retriever does, and else only for what its
   arguments are; some of that is found after every request was made. It panics
   only where intermediate steps are added to no result. *)
FailuresHaveCauses ==
    LET failed == \E n \in DOMAIN answers : answers[n].how = "failed"
    IN /\ failed => ~Ok
       /\ outcome.how = "panic" => failed /\ setup.chain = "map_reduce" /\ setup.steps
       /\ outcome.how = "error" =>
             \/ failed
             \/ setup.over # "caller" /\ \A n \in DOMAIN asked : asked[n].to = "condense"
             \/ ~setup.typed
             \/ docs = <<>> /\ setup.chain \in {"refine", "map_rerank"}
             \/ setup.history \in {"missing", "unreadable"}
             \/ setup.renamed /\ setup.history = "some"
             \/ setup.over = "conversation" /\ (setup.steps \/ (setup.extra /\ ~setup.keyed))

(* The memory is given what was asked and answered of a call that succeeds, and
   nothing of one that fails, but for the question of a call that was answered with
   outputs it cannot choose from. *)
MemoryKeepsAnswered ==
    pc = "returned" /\ setup.over = "conversation" =>
        /\ Ok => kept = <<"question", "answer">>
        /\ ~Ok /\ kept # <<>> =>
              /\ kept = <<"question">> /\ setup.extra /\ ~setup.keyed
              /\ \A n \in DOMAIN answers : answers[n].how \notin {"failed", "pending"}

(* The history is told only with the question, which the model then words anew
   before any document is looked for; without history nothing is generated. *)
QuestionIsCondensedFirst ==
    /\ \A n \in DOMAIN asked : asked[n].to = "condense" => n = 1 /\ setup.history = "some"
    /\ \A n \in DOMAIN asked : asked[n].question = "generated" =>
           n > 1 /\ asked[1].to = "condense" /\ answers[1].how = "text"
----------------------------------------------------------------------------
(* The inductive invariant of how a call ends, in parts. *)

\* The requests, without what is known of the places their texts are from.
Questions == [to : {"condense", "stuff", "initial", "refine", "map", "reduce"},
              texts : Seq([of : Origins, at : Int]),
              question : {"asked", "generated"}, existing : Nat]

SequenceInv ==
    /\ setup \in Setup /\ Possible(setup) /\ docs \in DocumentLists
    /\ asked \in Seq(Questions) /\ answers \in Seq(Answer) /\ Len(answers) = Len(asked)

\* Nothing is kept, and nothing has failed, while the call goes on.
RunningInv ==
    pc # "returned" =>
        /\ kept = <<>> /\ outcome.how = "none"
        /\ \A n \in DOMAIN answers : answers[n].how # "failed"

\* Which answers are outstanding: those of documents, or the last one.
WaitingInv ==
    /\ pc \in {"begin", "retrieve", "combine", "map", "ask", "returned"}
    /\ \A n \in DOMAIN answers : answers[n].how = "pending" =>
          \/ pc = "map" /\ asked[n].to = "map"
          \/ pc = "ask" /\ n = Len(answers)
          \/ pc = "returned" /\ kept = <<>>

\* What was asked by the time the call is here.
AskedInv ==
    /\ pc = "begin" => asked = <<>> /\ setup.over = "conversation"
    /\ pc = "retrieve" => /\ setup.over # "caller"
                          /\ \A n \in DOMAIN asked : asked[n].to = "condense"
    /\ pc = "map" => setup.chain \in {"map_reduce", "map_rerank"}
    /\ \A n \in DOMAIN asked : /\ asked[n].to = "condense" => n = 1 /\ setup.history = "some"
                               /\ asked[n].to = "reduce" => setup.chain = "map_reduce"

IInv == /\ SequenceInv /\ RunningInv /\ WaitingInv /\ AskedInv
        /\ FailuresHaveCauses /\ MemoryKeepsAnswered

\* The requests are those of the chain, and only what is scored has a score.
KindInv ==
    /\ \A n \in DOMAIN asked :
          \/ asked[n].to = "condense"
          \/ setup.chain = "stuff" /\ asked[n].to = "stuff"
          \/ setup.chain = "refine" /\ asked[n].to \in {"initial", "refine"}
          \/ setup.chain \in {"map_reduce", "map_rerank"} /\ asked[n].to = "map"
          \/ setup.chain = "map_reduce" /\ asked[n].to = "reduce"
    /\ \A n \in DOMAIN answers : answers[n].how # "scored" => answers[n].score = 0

\* A question is condensed first, and answered when anything else is asked.
CondenseInv ==
    setup.history = "some" =>
        /\ pc \notin {"begin", "returned"} => asked # <<>> /\ asked[1].to = "condense"
        /\ pc \in {"retrieve", "combine", "map"} \/ Len(asked) > 1 =>
              asked[1].to = "condense" /\ answers[1].how = "text"

\* What of the documents was told while their answers are waited for,
MappingTells == /\ Len(asked) \in Before..(Before + Len(docs))
                /\ \A k \in 1..(Len(asked) - Before) : MapTells(k)

\* and while the answer to the last request is.
AskingTells ==
    /\ asked # <<>>
    /\ asked[Len(asked)].to = "condense" => Len(asked) = Before
    /\ asked[Len(asked)].to # "condense" =>
          /\ setup.chain = "stuff" => StuffTells
          /\ setup.chain = "refine" =>
                /\ Len(asked) \in (Before + 1)..(Before + Len(docs))
                /\ \A k \in 1..(Len(asked) - Before) : RefineTells(k)
          /\ setup.chain = "map_reduce" => ReduceTells /\ \A k \in DOMAIN docs : MapTells(k)
          /\ setup.chain # "map_rerank"

TellInv == /\ pc \in {"retrieve", "combine"} => Len(asked) = Before
           /\ pc = "map" => MappingTells
           /\ pc = "ask" => AskingTells

AnswerInv == /\ TypeOK /\ KindInv /\ CondenseInv
             /\ AnswerIsBest /\ QuestionIsCondensedFirst

ToldInv == TellInv /\ DocumentsAreTold

=============================================================================
