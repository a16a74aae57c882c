----------------------------- MODULE Embeddings -----------------------------
(***************************************************************************)
(* The vectors of texts: EmbedDocuments and EmbedQuery of EmbedderImpl     *)
(* over the models that have embeddings, and of the embedders of their own *)
(* (jina, voyageai, huggingface, bedrock). Texts are sent in batches and   *)
(* the vectors of the answers put one behind the other.                    *)
(*                                                                         *)
(* A vector is the place of the text it was made of, 0 if it is empty.     *)
(***************************************************************************)
EXTENDS Integers, SequencesExt

CONSTANTS MaxTexts,   \* texts of one call
          MaxSize     \* bound on the batch size

VARIABLES
    embedder,   \* the client, StripNewLines, BatchSize, and which of the two methods
    given,      \* the texts of the caller, as they are now in its slice
    batches,    \* batchedTexts, or the one text of a query
    sent,       \* the texts of each request so far
    answers,    \* the answers to them
    vectors,    \* emb
    pc, outcome

vars == <<embedder, given, batches, sent, answers, vectors, pc, outcome>>

Checked == {"openai", "cloudflare", "palm", "vertex", "huggingface"}
Unchecked == {"googleai", "llamafile", "ernie", "mistral", "jina", "voyageai", "cohere"}
OneByOne == {"ollama", "amazon", "cybertron"}     \* a request for each text
Clients == Checked \cup Unchecked \cup OneByOne \cup {"unsupported"}

\* For these a vector without numbers is an error.
RefusesEmpty == {"ollama", "mistral"}

Embedder == [client : Clients, strip : BOOLEAN, size : -1..MaxSize,
             method : {"documents", "query"}]

\* A text with line breaks in it or without; the embedded one is told its place.
Text == {"plain", "lines"}
Sent == [place : 1..MaxTexts, text : Text]

\* The service fails; or says a vector for each text, one less, none, one more, an
\* empty one for the last, or those of the texts in another order.
Answers == {"failure", "each", "less", "none", "more", "empty", "reordered"}

TypeOK ==
    /\ embedder \in Embedder
    /\ given \in Seq(Text) /\ Len(given) <= MaxTexts
    /\ batches \in Seq(Seq(Sent)) /\ sent \in Seq(Seq(Sent))
    /\ answers \in Seq(Answers)
    /\ vectors \in Seq(0..MaxTexts)
    /\ pc \in {"called", "request", "returned"}
    /\ outcome \in {"none", "ok", "error", "panic"}

Init ==
    /\ embedder \in Embedder
    /\ given \in UNION {[1..n -> Text] : n \in 0..MaxTexts}
    /\ embedder.method = "query" => Len(given) = 1 /\ embedder.size = 1
    /\ batches = <<>> /\ sent = <<>> /\ answers = <<>> /\ vectors = <<>>
    /\ pc = "called" /\ outcome = "none"

Ended(how) == pc' = "returned" /\ outcome' = how
----------------------------------------------------------------------------
(* The batches.                                                            *)

\* MaybeRemoveNewLines writes the texts back to the slice it was given.
MaybeRemoveNewLines(texts, strip) ==
    [i \in DOMAIN texts |-> IF strip THEN "plain" ELSE texts[i]]

\* The capacity is len(texts) / batchSize + 1.
BatchPanics(texts, size) == size = 0 \/ (size < 0 /\ texts # <<>>)

BatchTexts(texts, size) ==
    LET Batch(n) == [k \in 1..Min({size, Len(texts) - (n - 1) * size}) |->
                        [place |-> (n - 1) * size + k, text |-> texts[(n - 1) * size + k]]]
    IN IF texts = <<>> THEN <<>>
       ELSE [n \in 1..((Len(texts) + size - 1) \div size) |-> Batch(n)]

EmbedDocuments ==
    /\ pc = "called" /\ embedder.method = "documents"
    /\ LET texts == MaybeRemoveNewLines(given, embedder.strip)
       IN /\ given' = texts
          /\ IF BatchPanics(texts, embedder.size) THEN Ended("panic") /\ UNCHANGED batches
             ELSE /\ batches' = BatchTexts(texts, embedder.size)
                  /\ pc' = "request" /\ UNCHANGED outcome
    /\ UNCHANGED <<embedder, sent, answers, vectors>>

\* voyageai and bedrock leave the line breaks of a query.
KeepsLines == embedder.client \in {"voyageai", "amazon", "cohere", "unsupported"}

EmbedQuery ==
    /\ pc = "called" /\ embedder.method = "query"
    /\ LET stripped == embedder.strip /\ ~KeepsLines
           text == [place |-> 1, text |-> IF stripped THEN "plain" ELSE given[1]]
       IN batches' = <<<<text>>>>
    /\ pc' = "request"
    /\ UNCHANGED <<embedder, given, sent, answers, vectors, outcome>>
----------------------------------------------------------------------------
(* The requests.                                                           *)

\* What a client may be answered for this batch.
Possible(answer, batch) ==
    CASE answer \in {"less", "reordered"} -> Len(batch) > 1 /\ embedder.client \notin OneByOne
      [] answer \in {"none", "more"} -> embedder.client \notin OneByOne
      [] answer = "empty" -> embedder.client # "cybertron"
      [] OTHER -> TRUE

Vectors(answer, batch) ==
    LET each == [k \in DOMAIN batch |-> batch[k].place]
    IN CASE answer = "less" -> Front(each)
         [] answer = "none" -> <<>>
         [] answer = "more" -> Append(each, each[Len(each)])
         [] answer = "empty" -> Append(Front(each), 0)
         [] answer = "reordered" -> Reverse(each)
         [] OTHER -> each

\* Why CreateEmbedding returns an error; the clients of Checked count the vectors.
CreateEmbeddingFails(client, answer, batch) ==
    \/ client = "unsupported" \/ answer = "failure"
    \/ client \in Checked /\ Len(Vectors(answer, batch)) # Len(batch)
    \/ client \in RefusesEmpty /\ answer = "empty"

\* An error loses what was answered before; a query takes the first vector.
CreateEmbedding(answer) ==
    LET batch == batches[Len(sent) + 1]
    IN /\ pc = "request" /\ Len(sent) < Len(batches) /\ Possible(answer, batch)
       /\ answers' = Append(answers, answer)
       /\ sent' = Append(sent, batch)
       /\ IF CreateEmbeddingFails(embedder.client, answer, batch)
          THEN vectors' = <<>> /\ Ended("error")
          ELSE /\ vectors' = vectors \o Vectors(answer, batch)
               /\ UNCHANGED <<pc, outcome>>
       /\ UNCHANGED <<embedder, given, batches>>

Return ==
    /\ pc = "request" /\ Len(sent) = Len(batches)
    /\ IF embedder.method = "query" /\ vectors = <<>> THEN Ended("panic") ELSE Ended("ok")
    /\ vectors' = IF embedder.method = "query" /\ vectors # <<>>
                  THEN <<vectors[1]>> ELSE vectors
    /\ UNCHANGED <<embedder, given, batches, sent, answers>>

Next == EmbedDocuments \/ EmbedQuery \/ (\E a \in Answers : CreateEmbedding(a)) \/ Return

Spec == Init /\ [][Next]_vars
----------------------------------------------------------------------------
InAnswers(answer) == \E n \in DOMAIN answers : answers[n] = answer

(* The vectors are those of the texts, each at the place of its text, when the
   service says them in order, and the client counts them or there is one for
   each. No client reads the index its service gives to a vector. *)
VectorsOfTexts ==
    (outcome = "ok" /\ ~InAnswers("reordered")
        /\ (\A n \in DOMAIN answers :
               embedder.client \in Checked \/ answers[n] \in {"each", "empty"})) =>
        /\ Len(vectors) = Len(given)
        /\ \A i \in DOMAIN vectors : vectors[i] \in {0, i}

(* With a client that counts, or asks for each text, there are never more or fewer
   vectors than texts, whatever the service answers. *)
CountedOrOneByOne ==
    outcome = "ok" /\ embedder.client \notin Unchecked => Len(vectors) = Len(given)

(* Every text is sent once, in order, in batches no larger than they may be, without
   line breaks when they are to be removed; which also removes them from the texts of
   the caller. Queries of voyageai and bedrock keep them. *)
TextsAreSent ==
    outcome = "ok" =>
        LET all == FlattenSeq(sent)
        IN /\ Len(all) = Len(given)
           /\ \A i \in DOMAIN all : all[i].place = i
           /\ \A n \in DOMAIN sent : Len(sent[n]) <= embedder.size
           /\ (embedder.strip /\ (embedder.method = "documents" \/ ~KeepsLines)) =>
                 \A i \in DOMAIN all : all[i].text = "plain"
           /\ embedder.method = "documents" => \A i \in DOMAIN all : all[i].text = given[i]

(* An embedder panics only for a batch size that is none, or when a client that does
   not count them gets no vector for a query. *)
EmbedderPanicsKnown ==
    outcome = "panic" =>
        \/ embedder.size <= 0
        \/ (embedder.client \in Unchecked /\ answers = <<"none">>)
=============================================================================
