--------------------------- MODULE MCModels_proofs ---------------------------
(***************************************************************************)
(* That failures surface, that nothing is left behind, that an answer is   *)
(* what was said and whole and that what comes from the cache was answered *)
(* to the same request, for the models and what is built on them, however  *)
(* long their streams, answers, calls and lists are. Streaming_proofs has  *)
(* the invariants of ModelStream, FinalStream and MessageConversion,       *)
(* AnswerChains_proofs those of AnswerChains, AgentPlans and               *)
(* DocumentChains; those of ModelCall, Scraper and ResponseCache are       *)
(* proved here, and then all are put together: a step is one of a part and *)
(* leaves it.                                                              *)
(***************************************************************************)
EXTENDS MCModels, FiniteSetTheorems, SequenceTheorems, WellFoundedInduction, TLAPS

-----------------------------------------------------------------------------
(* Lists of lists.                                                         *)

(* FlattenSeq is the same wherever it is instantiated; Streaming_proofs says what *)
(* it does.                                                                  *)
LEMMA SameFlat == \A seqs : Calls!FlattenSeq(seqs) = Streams!Passing!FlattenSeq(seqs)
BY DEF Calls!FlattenSeq, Streams!Passing!FlattenSeq

Once(list) == \A x, y \in DOMAIN list : list[x] = list[y] => x = y

(* Where no element is in two lists or twice in one, none is twice in the list. *)
LEMMA FlatOnce ==
    ASSUME NEW S, NEW seqs \in Seq(Seq(S)),
           \A i, k \in 1..Len(seqs) : \A j \in DOMAIN seqs[i] : \A l \in DOMAIN seqs[k] :
              seqs[i][j] = seqs[k][l] => i = k /\ j = l
    PROVE  \A n \in 1..Len(seqs) : Once(Streams!Flat(seqs)[n])
<1> DEFINE Good(n) == Once(Streams!Flat(seqs)[n])
           bad == {n \in 1..Len(seqs) : ~Good(n)}
<1>1. SUFFICES ASSUME bad # {} PROVE FALSE
  OBVIOUS
<1>2. Len(seqs) \in Nat /\ bad \subseteq Nat
  BY LenProperties
<1>3. PICK n \in bad : \A k \in bad : ~(<<k, n>> \in OpToRel(<, Nat))
  <2> HIDE DEF bad
  <2> QED BY <1>1, <1>2, WFMin, NatLessThanWellFounded
<1>4. n \in 1..Len(seqs) /\ ~Good(n) /\ (n # 1 => Good(n - 1))
  <2> HIDE DEF Good
  <2>1. n # 1 => n - 1 \in 1..Len(seqs) /\ n - 1 \in Nat /\ n - 1 < n
    BY <1>2
  <2> QED BY <1>2, <1>3, <2>1 DEF OpToRel
<1>5. seqs[n] \in Seq(S)
  BY <1>4, ElementOfSeq
<1>6. CASE n = 1
  <2>1. Streams!Flat(seqs)[1] = seqs[1]
    BY <1>4, <1>6, Streams!FlatIs
  <2> QED BY <1>4, <1>5, <1>6, <2>1 DEF Once
<1>7. CASE n # 1
  <2> DEFINE before == Streams!Flat(seqs)[n - 1]
             flat == Streams!Flat(seqs)[n]
  <2>0. n - 1 \in 1..Len(seqs)
    BY <1>4, <1>7, <1>2
  <2>1. flat = before \o seqs[n] /\ before \in Seq(S)
    <3>1. before \in Seq(S)
      BY <2>0, Streams!FlatElements
    <3>2. flat = before \o seqs[n]
      BY <1>4, <1>7, Streams!FlatIs
    <3> QED BY <3>1, <3>2
  <2> HIDE DEF before, flat
  <2>2. /\ flat \in Seq(S) /\ Len(flat) = Len(before) + Len(seqs[n])
        /\ \A x \in 1..Len(before) : flat[x] = before[x]
        /\ \A x \in 1..Len(seqs[n]) : flat[Len(before) + x] = seqs[n][x]
    BY <1>5, <2>1, ConcatProperties
  <2>3. /\ Len(before) \in Nat /\ DOMAIN before = 1..Len(before)
        /\ Len(seqs[n]) \in Nat /\ DOMAIN seqs[n] = 1..Len(seqs[n])
        /\ Len(flat) \in Nat /\ DOMAIN flat = 1..Len(flat)
    BY <1>5, <2>1, <2>2, LenProperties
  <2>4. /\ \A x \in DOMAIN before : \E i \in 1..(n - 1) : \E j \in DOMAIN seqs[i] :
                    before[x] = seqs[i][j]
        /\ \A x, y \in DOMAIN before : before[x] = before[y] => x = y
    <3>1. \A x, y \in DOMAIN before : before[x] = before[y] => x = y
      BY <1>4, <1>7 DEF before, Once
    <3>2. \A x \in DOMAIN before : \E i \in 1..(n - 1) : \E j \in DOMAIN seqs[i] :
                    before[x] = seqs[i][j]
      <4>1. Streams!IsOf(Streams!Flat(seqs)[n - 1], seqs, n - 1)
        BY <2>0, Streams!FlatElements
      <4> QED BY <4>1 DEF before, Streams!IsOf
    <3> QED BY <3>1, <3>2
  <2>5. \A x \in DOMAIN flat :
           \/ x \in DOMAIN before /\ flat[x] = before[x]
           \/ /\ x - Len(before) \in DOMAIN seqs[n] /\ x \notin DOMAIN before
              /\ flat[x] = seqs[n][x - Len(before)]
    <3> TAKE x \in DOMAIN flat
    <3>1. CASE x <= Len(before)
      BY <2>2, <2>3, <3>1
    <3>2. CASE x > Len(before)
      <4>1. x - Len(before) \in DOMAIN seqs[n] /\ x = Len(before) + (x - Len(before))
        BY <2>2, <2>3, <3>2
      <4> QED BY <2>2, <2>3, <3>2, <4>1
    <3> QED BY <2>3, <3>1, <3>2
  <2>6. \A x \in DOMAIN before : \A l \in DOMAIN seqs[n] : before[x] # seqs[n][l]
    <3> SUFFICES ASSUME NEW x \in DOMAIN before, NEW l \in DOMAIN seqs[n],
                        before[x] = seqs[n][l]
                 PROVE FALSE
      OBVIOUS
    <3>1. PICK i \in 1..(n - 1) : \E j \in DOMAIN seqs[i] : before[x] = seqs[i][j]
      BY <2>4
    <3>2. i \in 1..Len(seqs) /\ i # n
      BY <1>4, <1>2
    <3> QED BY <3>1, <3>2, <1>4
  <2>7. ASSUME NEW x \in DOMAIN flat, NEW y \in DOMAIN flat, flat[x] = flat[y]
        PROVE  x = y
    <3>1. CASE x \in DOMAIN before /\ y \in DOMAIN before
      BY <2>4, <2>5, <2>7, <3>1
    <3>2. CASE x \notin DOMAIN before /\ y \notin DOMAIN before
      <4>1. x - Len(before) = y - Len(before)
        BY <2>5, <2>7, <3>2, <1>4
      <4> QED BY <4>1, <2>3
    <3>3. CASE x \in DOMAIN before /\ y \notin DOMAIN before
      BY <2>5, <2>6, <2>7, <3>3
    <3>4. CASE x \notin DOMAIN before /\ y \in DOMAIN before
      BY <2>5, <2>6, <2>7, <3>4
    <3> QED BY <3>1, <3>2, <3>3, <3>4
  <2>8. Good(n)
    BY <2>7 DEF flat, Once
  <2> QED BY <2>8, <1>4
<1> QED BY <1>6, <1>7

(* The list of all lists.                                                   *)
LEMMA Flattened ==
    ASSUME NEW S, NEW seqs \in Seq(Seq(S))
    PROVE  /\ Calls!FlattenSeq(seqs) \in Seq(S)
           /\ Streams!IsOf(Calls!FlattenSeq(seqs), seqs, Len(seqs))
           /\ (\A i, k \in 1..Len(seqs) :
                 \A j \in DOMAIN seqs[i] : \A l \in DOMAIN seqs[k] :
                    seqs[i][j] = seqs[k][l] => i = k /\ j = l)
              => Once(Calls!FlattenSeq(seqs))
<1>1. Len(seqs) \in Nat /\ (seqs # <<>> => Len(seqs) \in 1..Len(seqs))
  BY EmptySeq, LenProperties
<1>2. CASE seqs = <<>>
  <2>1. Calls!FlattenSeq(seqs) = <<>>
    BY <1>2, SameFlat, Streams!FlatIs
  <2>2. Len(seqs) = 0 /\ <<>> \in Seq(S) /\ DOMAIN <<>> = {}
    BY <1>1, <1>2
  <2> QED BY <2>1, <2>2 DEF Streams!IsOf, Once
<1>3. CASE seqs # <<>>
  <2>1. Calls!FlattenSeq(seqs) = Streams!Flat(seqs)[Len(seqs)]
    BY <1>3, SameFlat, Streams!FlatIs
  <2>2. /\ Streams!Flat(seqs)[Len(seqs)] \in Seq(S)
        /\ Streams!IsOf(Streams!Flat(seqs)[Len(seqs)], seqs, Len(seqs))
    BY <1>1, <1>3, Streams!FlatElements
  <2>3. (\A i, k \in 1..Len(seqs) :
                 \A j \in DOMAIN seqs[i] : \A l \in DOMAIN seqs[k] :
                    seqs[i][j] = seqs[k][l] => i = k /\ j = l)
        => Once(Streams!Flat(seqs)[Len(seqs)])
    BY <1>1, <1>3, FlatOnce
  <2> QED BY <2>1, <2>2, <2>3
<1> QED BY <1>2, <1>3

-----------------------------------------------------------------------------
(* ModelCall.                                                              *)

\* What a handler may be told, and what it is told of an answer.
Events == {"start", "end", "error"}

(* What a client makes of a failure and of garbage, read off its table.    *)
LEMMA Table ==
    ASSUME NEW c \in Calls!Models, NEW s \in BOOLEAN, NEW kind \in Calls!Replies(c)
    PROVE  /\ Calls!Becomes(c, s)[kind] \in {"choices", "blank", "nothing", "error", "panic"}
           /\ kind \in Calls!Broken \cup {"apiError"} =>
                 \/ Calls!Becomes(c, s)[kind] = "error"
                 \/ kind = "bare" /\ c \in {"llamafile", "cloudflare", "ollama"}
           /\ kind = "garbage" =>
                 Calls!Becomes(c, s)[kind] = "error" \/ (c = "maritaca" /\ s)
           /\ Calls!Becomes(c, s)[kind] = "choices" => kind \in Calls!Answers
           /\ kind \in Calls!Answers =>
                 \/ Calls!Becomes(c, s)[kind] \in {"choices", "error"}
                 \/ Calls!Becomes(c, s)[kind] = "blank" /\ c = "cloudflare" /\ s
           /\ kind = "answer" => Calls!Becomes(c, s)[kind] # "error" \/ (c = "openai" /\ s)
<1>1. /\ kind \in Calls!Kinds
      /\ kind = "apiError" => c \in {"ernie", "cloudflare", "ollama", "llamafile"}
  BY DEF Calls!Replies
<1> QED BY <1>1 DEF Calls!Models, Calls!Bedrock, Calls!Google, Calls!Assuming,
    Calls!Becomes, Calls!OpenAI, Calls!OpenAINotEmpty, Calls!OpenAIClient,
  Calls!Strict, Calls!Kinds, Calls!Answers, Calls!Broken, Calls!Anthropic,
  Calls!AnthropicClient, Calls!AnthropicText, Calls!AnthropicTextClient,
  Calls!FromBedrock, Calls!BedrockAnthropic, Calls!BedrockAi21, Calls!BedrockAmazon,
  Calls!BedrockCohere, Calls!BedrockMeta,
  Calls!Cloudflare, Calls!CloudflareClient, Calls!Cohere, Calls!CohereClient, Calls!Ernie,
  Calls!ErnieClient, Calls!GoogleAI, Calls!Vertex,
  Calls!HuggingFace, Calls!HuggingFaceNotEmpty, Calls!HuggingFaceClient, Calls!Llamafile,
  Calls!LlamafileClient, Calls!Local, Calls!LocalClient,
  Calls!Maritaca, Calls!MaritacaClient, Calls!Mistral, Calls!Ollama, Calls!OllamaClient,
  Calls!Palm, Calls!PalmClient, Calls!Watsonx

Reports == {<<>>, <<"error">>, <<"end">>, <<"end", "error">>, <<"end", "end">>}

(* The lists of events are lists.                                          *)
LEMMA Lists ==
    /\ <<>> \in Seq(Events) /\ <<"start">> \in Seq(Events)
    /\ Reports \subseteq Seq(Events)
<1>1. <<>> \in Seq(Events)
  OBVIOUS
<1>2. /\ <<"start">> \in Seq(Events) /\ <<"error">> \in Seq(Events)
      /\ <<"end">> \in Seq(Events) /\ <<"end", "error">> \in Seq(Events)
      /\ <<"end", "end">> \in Seq(Events)
  BY DEF Events
<1> QED BY <1>1, <1>2 DEF Reports

(* What is told of a call whose start was told.                            *)
LEMMA Reported ==
    ASSUME NEW told \in Reports
    PROVE  LET all == <<"start">> \o told
               has(event) == \E k \in DOMAIN all : all[k] = event
           IN /\ all \in Seq(Events)
              /\ has("error") <=> told \in {<<"error">>, <<"end", "error">>}
              /\ has("end") <=> told \notin {<<>>, <<"error">>}
<1> DEFINE all == <<"start">> \o told
           has(event) == \E k \in DOMAIN all : all[k] = event
<1>1. told \in Seq(Events) /\ <<"start">> \in Seq(Events)
  BY Lists
<1>2. /\ all \in Seq(Events) /\ Len(all) = 1 + Len(told)
      /\ all[1] = "start" /\ \A i \in 1..Len(told) : all[1 + i] = told[i]
  BY <1>1, ConcatProperties
<1>3. Len(told) \in Nat /\ DOMAIN told = 1..Len(told) /\ DOMAIN all = 1..(1 + Len(told))
  BY <1>1, <1>2, LenProperties
<1> HIDE DEF all
<1>4. \A event : event # "start" => (has(event) <=> \E i \in DOMAIN told : told[i] = event)
  <2>1. \A i \in DOMAIN told : 1 + i \in DOMAIN all
    BY <1>3
  <2>2. \A k \in DOMAIN all : k = 1 \/ (k - 1 \in DOMAIN told /\ k = 1 + (k - 1))
    BY <1>3
  <2>3. \A k \in DOMAIN all :
           all[k] = "start" \/ (k - 1 \in DOMAIN told /\ all[k] = told[k - 1])
    BY <1>2, <1>3, <2>2
  <2> QED BY <1>2, <1>3, <2>1, <2>3
<1>5. /\ (\E i \in DOMAIN told : told[i] = "error") <=>
            told \in {<<"error">>, <<"end", "error">>}
      /\ (\E i \in DOMAIN told : told[i] = "end") <=> told \notin {<<>>, <<"error">>}
  BY DEF Reports
<1> QED BY <1>2, <1>4, <1>5 DEF all

Pairs == (1..MaxChoices) \X (1..MaxCalls)

\* The candidates of an answer, as many as its client can have.
Candidates == /\ candidates' \in Seq(0..MaxCalls) /\ Len(candidates') \in 1..MaxChoices
              /\ client \in Calls!Models
              /\ client = "anthropic" => Len(candidates') = 1

\* openai does not hand out the calls of such an answer.
CallsLost == client = "openai" /\ reply' = "cut"

(* The calls of one candidate.                                             *)
LEMMA OwnList ==
    ASSUME MaxChoices \in Nat, MaxCalls \in Nat, Candidates, NEW k \in 1..Len(candidates')
    PROVE  /\ Calls!CallsOf(k) \in Seq(Pairs) /\ candidates'[k] \in 0..MaxCalls
           /\ DOMAIN Calls!CallsOf(k) = 1..candidates'[k]
           /\ \A j \in 1..candidates'[k] : Calls!CallsOf(k)[j] = <<k, j>>
<1>1. candidates'[k] \in 0..MaxCalls /\ k \in 1..MaxChoices
  BY ElementOfSeq DEF Candidates
<1>2. \A j \in 1..candidates'[k] : <<k, j>> \in Pairs
  BY <1>1 DEF Pairs
<1>3. Calls!CallsOf(k) = [j \in 1..candidates'[k] |-> <<k, j>>]
  BY DEF Calls!CallsOf
<1>4. Calls!CallsOf(k) \in Seq(Pairs)
  BY <1>1, <1>2, <1>3, IsASeq
<1> QED BY <1>1, <1>3, <1>4

(* Those of the first candidates: each once.                                *)
LEMMA ListUpTo ==
    ASSUME MaxChoices \in Nat, MaxCalls \in Nat, Candidates, NEW k \in 1..Len(candidates')
    PROVE  /\ Calls!CallsUpTo(k) \in Seq(Pairs) /\ Once(Calls!CallsUpTo(k))
           /\ \A l \in 1..k : \A j \in 1..candidates'[l] :
                 \E x \in DOMAIN Calls!CallsUpTo(k) : Calls!CallsUpTo(k)[x] = <<l, j>>
<1> DEFINE seqs == [l \in 1..k |-> Calls!CallsOf(l)]
<1>1. Len(candidates') \in Nat /\ k \in Nat /\ \A l \in 1..k : l \in 1..Len(candidates')
  BY LenProperties DEF Candidates
<1>2. \A l \in 1..k : /\ Calls!CallsOf(l) \in Seq(Pairs)
                      /\ DOMAIN Calls!CallsOf(l) = 1..candidates'[l]
                      /\ \A j \in 1..candidates'[l] : Calls!CallsOf(l)[j] = <<l, j>>
  BY <1>1, OwnList
<1>3. seqs \in Seq(Seq(Pairs)) /\ Len(seqs) = k
  BY <1>1, <1>2, IsASeq
<1>4. \A l \in 1..k : seqs[l] = Calls!CallsOf(l)
  OBVIOUS
<1>5. Calls!CallsUpTo(k) = Calls!FlattenSeq(seqs)
  BY DEF Calls!CallsUpTo
<1> HIDE DEF seqs
<1>6. \A i, l \in 1..Len(seqs) : \A j \in DOMAIN seqs[i] : \A m \in DOMAIN seqs[l] :
         seqs[i][j] = seqs[l][m] => i = l /\ j = m
  <2> SUFFICES ASSUME NEW i \in 1..Len(seqs), NEW l \in 1..Len(seqs),
                      NEW j \in DOMAIN seqs[i], NEW m \in DOMAIN seqs[l],
                      seqs[i][j] = seqs[l][m]
               PROVE  i = l /\ j = m
    OBVIOUS
  <2>1. seqs[i][j] = <<i, j>> /\ seqs[l][m] = <<l, m>>
    BY <1>2, <1>3, <1>4
  <2>2. <<i, j>> = <<l, m>>
    BY <2>1
  <2> QED BY <2>2, Zenon
<1>7. Once(Calls!FlattenSeq(seqs))
  BY <1>3, <1>6, Flattened
<1>8. Calls!FlattenSeq(seqs) \in Seq(Pairs) /\ Streams!IsOf(Calls!FlattenSeq(seqs), seqs, k)
  BY <1>3, Flattened
<1>9. ASSUME NEW l \in 1..k, NEW j \in 1..candidates'[l]
      PROVE  \E x \in DOMAIN Calls!FlattenSeq(seqs) : Calls!FlattenSeq(seqs)[x] = <<l, j>>
  <2>1. j \in DOMAIN seqs[l] /\ seqs[l][j] = <<l, j>>
    BY <1>2, <1>4
  <2>2. PICK x \in DOMAIN Calls!FlattenSeq(seqs) : Calls!FlattenSeq(seqs)[x] = seqs[l][j]
    BY <2>1, <1>8 DEF Streams!IsOf
  <2> QED BY <2>1, <2>2
<1> QED BY <1>5, <1>7, <1>8, <1>9

Chosen == [text : 0..MaxChoices, calls : Seq(Pairs)]

\* Every call of the candidates is in one of the lists, or in none twice.
AllIn(cs, cands) == \A k \in DOMAIN cands : \A j \in 1..cands[k] :
    \E i \in DOMAIN cs : \E x \in DOMAIN cs[i].calls : cs[i].calls[x] = <<k, j>>
NoneTwice(cs) == \A i, k \in DOMAIN cs : \A j \in DOMAIN cs[i].calls : \A l \in DOMAIN cs[k].calls :
    cs[i].calls[j] = cs[k].calls[l] => i = k /\ j = l
OwnOnly(cs) == \A k \in DOMAIN cs : \A x \in DOMAIN cs[k].calls :
    cs[k].text # 0 => cs[k].calls[x][1] = cs[k].text

(* What is made of the candidates: the first has its text, no call is lost, and none   *)
(* is doubled or with another but in the clients that do so.                     *)
LEMMA ChosenWell ==
    ASSUME MaxChoices \in Nat, MaxCalls \in Nat, Candidates,
           NEW cs, cs = Calls!ChoicesOf(client)
    PROVE  /\ cs \in Seq(Chosen) /\ cs # <<>> /\ cs[1].text = 1
           /\ client \in Calls!WithTools /\ ~CallsLost => AllIn(cs, candidates')
           /\ client \notin Calls!Google => NoneTwice(cs)
           /\ client \notin Calls!Google \cup {"mistral"} => OwnOnly(cs)
<1> DEFINE n == Len(candidates')
<1>1. /\ n \in Nat /\ n \in 1..MaxChoices /\ DOMAIN candidates' = 1..n /\ 1 \in 1..n
      /\ 1 \in 0..MaxChoices /\ 0 \in 0..MaxChoices /\ \A k \in 1..n : k \in 0..MaxChoices
  BY LenProperties DEF Candidates
<1>2. \A k \in 1..n : /\ Calls!CallsOf(k) \in Seq(Pairs)
                      /\ DOMAIN Calls!CallsOf(k) = 1..candidates'[k]
                      /\ \A j \in 1..candidates'[k] : Calls!CallsOf(k)[j] = <<k, j>>
  BY OwnList
<1>3. \A k \in 1..n :
         /\ Calls!CallsUpTo(k) \in Seq(Pairs) /\ Once(Calls!CallsUpTo(k))
         /\ \A l \in 1..k : \A j \in 1..candidates'[l] :
                 \E x \in DOMAIN Calls!CallsUpTo(k) : Calls!CallsUpTo(k)[x] = <<l, j>>
  BY ListUpTo
<1>4. <<>> \in Seq(Pairs) /\ DOMAIN <<>> = {}
  OBVIOUS
<1> HIDE DEF n
<1>5. CASE client = "openai"
  <2>1. cs = [k \in 1..n |-> [text |-> k, calls |-> IF reply' = "cut" THEN <<>>
                                                  ELSE Calls!CallsOf(k)]]
    BY <1>1, <1>5 DEF Calls!ChoicesOf, Calls!OwnCalls, Calls!Choice, Calls!Google
  <2>2. /\ DOMAIN cs = 1..n
        /\ \A k \in 1..n : cs[k].text = k /\ cs[k] \in Chosen
                         /\ cs[k].calls = IF reply' = "cut" THEN <<>> ELSE Calls!CallsOf(k)
    BY <2>1, <1>1, <1>2, <1>4 DEF Chosen
  <2>3. cs \in Seq(Chosen) /\ cs # <<>>
    BY <2>1, <2>2, <1>1, IsASeq
  <2>4. ~CallsLost => \A i \in 1..n :
            /\ DOMAIN cs[i].calls = 1..candidates'[i]
            /\ \A j \in 1..candidates'[i] : cs[i].calls[j] = <<i, j>>
    BY <1>2, <1>5, <2>2 DEF CallsLost
  <2>8. \A i \in 1..n : \A j : j \in DOMAIN cs[i].calls => j \in 1..candidates'[i]
                           /\ cs[i].calls[j] = <<i, j>>
    BY <1>2, <1>4, <2>2
  <2>5. ~CallsLost => AllIn(cs, candidates')
    <3> SUFFICES ASSUME ~CallsLost, NEW k \in 1..n, NEW j \in 1..candidates'[k]
                 PROVE  \E i \in DOMAIN cs : \E x \in DOMAIN cs[i].calls :
                            cs[i].calls[x] = <<k, j>>
      BY <1>1 DEF AllIn
    <3>1. k \in DOMAIN cs /\ j \in DOMAIN cs[k].calls /\ cs[k].calls[j] = <<k, j>>
      BY <2>2, <2>4
    <3> QED BY <3>1
  <2>6. NoneTwice(cs)
    <3> SUFFICES ASSUME NEW i \in DOMAIN cs, NEW k \in DOMAIN cs,
                        NEW j \in DOMAIN cs[i].calls, NEW l \in DOMAIN cs[k].calls,
                        cs[i].calls[j] = cs[k].calls[l]
                 PROVE  i = k /\ j = l
      BY DEF NoneTwice
    <3>1. cs[i].calls[j] = <<i, j>> /\ cs[k].calls[l] = <<k, l>>
      BY <2>2, <2>8
    <3>2. <<i, j>> = <<k, l>>
      BY <3>1
    <3> QED BY <3>2, Zenon
  <2>7. OwnOnly(cs)
    <3> SUFFICES ASSUME NEW k \in DOMAIN cs, NEW x \in DOMAIN cs[k].calls
                 PROVE  cs[k].calls[x][1] = cs[k].text
      BY DEF OwnOnly
    <3>1. cs[k].calls[x] = <<k, x>> /\ cs[k].text = k
      BY <2>2, <2>8
    <3> QED BY <3>1
  <2> QED BY <1>1, <1>5, <2>2, <2>3, <2>5, <2>6, <2>7
<1>6. CASE client \in Calls!Google
  <2>1. cs = [k \in 1..n |-> [text |-> k, calls |-> Calls!CallsUpTo(k)]]
    BY <1>1, <1>6 DEF Calls!ChoicesOf, Calls!CollectedCalls, Calls!Choice, Calls!Google
  <2>2. /\ DOMAIN cs = 1..n
        /\ \A k \in 1..n : cs[k].text = k /\ cs[k].calls = Calls!CallsUpTo(k) /\ cs[k] \in Chosen
    BY <2>1, <1>1, <1>3 DEF Chosen
  <2>3. cs \in Seq(Chosen) /\ cs # <<>>
    BY <2>1, <2>2, <1>1, IsASeq
  <2>4. AllIn(cs, candidates')
    <3>1. \A k \in 1..n : k \in 1..k
      BY <1>1
    <3>2. ASSUME NEW k \in 1..n, NEW j \in 1..candidates'[k]
          PROVE  \E i \in DOMAIN cs : \E x \in DOMAIN cs[i].calls : cs[i].calls[x] = <<k, j>>
      <4>1. PICK x \in DOMAIN Calls!CallsUpTo(k) : Calls!CallsUpTo(k)[x] = <<k, j>>
        BY <1>3, <3>1
      <4>2. k \in DOMAIN cs /\ cs[k].calls = Calls!CallsUpTo(k)
        BY <2>2
      <4> QED BY <4>1, <4>2
    <3> QED BY <1>1, <3>2 DEF AllIn
  <2> QED BY <1>1, <1>6, <2>2, <2>3, <2>4
<1>7. CASE client = "mistral"
  <2>1. cs = [k \in 1..n |-> [text |-> k,
      calls |-> IF k = 1 THEN Calls!CallsUpTo(n) ELSE <<>>]]
    BY <1>1, <1>7 DEF Calls!ChoicesOf, Calls!FirstHasCalls, Calls!Choice, Calls!Google
  <2>5. n \in 1..n
    BY <1>1
  <2>2. /\ DOMAIN cs = 1..n
        /\ \A k \in 1..n : cs[k].text = k /\ cs[k] \in Chosen
        /\ cs[1].calls = Calls!CallsUpTo(n)
        /\ \A k \in 1..n : k # 1 => cs[k].calls = <<>>
    BY <2>1, <2>5, <1>1, <1>3, <1>4 DEF Chosen
  <2>3. cs \in Seq(Chosen) /\ cs # <<>>
    BY <2>1, <2>2, <1>1, IsASeq
  <2>4. AllIn(cs, candidates')
    <3>1. ASSUME NEW k \in 1..n, NEW j \in 1..candidates'[k]
          PROVE  \E i \in DOMAIN cs : \E x \in DOMAIN cs[i].calls : cs[i].calls[x] = <<k, j>>
      <4>1. PICK x \in DOMAIN Calls!CallsUpTo(n) : Calls!CallsUpTo(n)[x] = <<k, j>>
        BY <1>3, <2>5
      <4>2. 1 \in DOMAIN cs /\ cs[1].calls = Calls!CallsUpTo(n)
        BY <1>1, <2>2
      <4> QED BY <4>1, <4>2
    <3> QED BY <1>1, <3>1 DEF AllIn
  <2>6. NoneTwice(cs)
    <3>1. \A i \in DOMAIN cs : DOMAIN cs[i].calls # {} => i = 1
      BY <1>4, <2>2
    <3>2. \A x, y \in DOMAIN cs[1].calls : cs[1].calls[x] = cs[1].calls[y] => x = y
      BY <1>3, <2>2, <2>5 DEF Once
    <3>3. ASSUME NEW i \in DOMAIN cs, NEW k \in DOMAIN cs, NEW j \in DOMAIN cs[i].calls,
                 NEW l \in DOMAIN cs[k].calls, cs[i].calls[j] = cs[k].calls[l]
          PROVE  i = k /\ j = l
      <4>1. i = 1 /\ k = 1
        BY <3>1
      <4> QED BY <3>2, <3>3, <4>1
    <3> QED BY <3>3 DEF NoneTwice
  <2> QED BY <1>1, <1>7, <2>2, <2>3, <2>4, <2>6
<1>8. CASE client = "anthropic"
  <2> DEFINE m == candidates'[1]
             blocks == [j \in 1..m |-> [text |-> 0, calls |-> << <<1, j>> >>]]
             said == <<[text |-> 1, calls |-> <<>>]>>
  <2>0. n = 1
    BY <1>8 DEF Candidates, n
  <2>1. cs = said \o blocks
    <3>1. cs = Calls!Blocks
      BY <1>8 DEF Calls!ChoicesOf, Calls!Google
    <3> QED BY <3>1 DEF Calls!Blocks, Calls!Choice
  <2>2. m \in 0..MaxCalls /\ m \in Nat
    BY <1>1, ElementOfSeq DEF Candidates
  <2>3. \A j \in 1..m : <<1, j>> \in Pairs /\ << <<1, j>> >> \in Seq(Pairs)
    BY <1>1, <2>2 DEF Pairs
  <2>4. said \in Seq(Chosen) /\ Len(said) = 1 /\ said[1] = [text |-> 1, calls |-> <<>>]
    BY <1>1, <1>4 DEF Chosen
  <2>5. blocks \in Seq(Chosen) /\ Len(blocks) = m
    <3>1. \A j \in 1..m : [text |-> 0, calls |-> << <<1, j>> >>] \in Chosen
      BY <1>1, <2>3 DEF Chosen
    <3> QED BY <2>2, <3>1, IsASeq
  <2>6. \A j \in 1..m : blocks[j] = [text |-> 0, calls |-> << <<1, j>> >>]
    OBVIOUS
  <2>16. /\ said[1].text = 1 /\ said[1].calls = <<>>
         /\ \A j \in 1..m : blocks[j].text = 0 /\ blocks[j].calls = << <<1, j>> >>
    OBVIOUS
  <2> HIDE DEF blocks, said, m
  <2>7. /\ cs \in Seq(Chosen) /\ Len(cs) = 1 + m /\ cs[1] = said[1]
        /\ \A j \in 1..m : cs[1 + j] = blocks[j]
    <3>1. /\ cs \in Seq(Chosen) /\ Len(cs) = Len(said) + Len(blocks)
          /\ \A i \in 1..Len(said) : cs[i] = said[i]
          /\ \A i \in 1..Len(blocks) : cs[Len(said) + i] = blocks[i]
      <4>1. \A s, t \in Seq(Chosen) :
               /\ s \o t \in Seq(Chosen) /\ Len(s \o t) = Len(s) + Len(t)
               /\ \A i \in 1..Len(s) : (s \o t)[i] = s[i]
               /\ \A i \in 1..Len(t) : (s \o t)[Len(s) + i] = t[i]
        BY ConcatProperties
      <4>2. said \in Seq(Chosen) /\ blocks \in Seq(Chosen)
        BY <2>4, <2>5
      <4> QED BY <2>1, <4>1, <4>2
    <3>2. 1 \in 1..Len(said)
      BY <2>4
    <3> QED BY <3>1, <3>2, <2>4, <2>5
  <2>8. DOMAIN cs = 1..(1 + m) /\ cs # <<>>
    BY <2>2, <2>7, LenProperties, EmptySeq
  <2>9. /\ cs[1].text = 1 /\ cs[1].calls = <<>>
        /\ \A j \in 1..m : cs[1 + j].text = 0 /\ cs[1 + j].calls = << <<1, j>> >>
    BY <2>7, <2>16
  <2>10. /\ \A i \in DOMAIN cs : i = 1 \/ (i - 1 \in 1..m /\ i = 1 + (i - 1))
         /\ \A j \in 1..m : 1 + j \in DOMAIN cs
    BY <2>2, <2>8
  <2>11. \A i \in DOMAIN cs : i # 1 => cs[i].text = 0 /\ cs[i].calls = << <<1, i - 1>> >>
    BY <2>9, <2>10
  <2>12. AllIn(cs, candidates')
    <3> SUFFICES ASSUME NEW k \in DOMAIN candidates', NEW j \in 1..candidates'[k]
                 PROVE  \E i \in DOMAIN cs : \E x \in DOMAIN cs[i].calls :
                            cs[i].calls[x] = <<k, j>>
      BY DEF AllIn
    <3>1. k = 1 /\ j \in 1..m
      BY <1>1, <2>0 DEF m
    <3>2. 1 \in DOMAIN << <<1, j>> >> /\ << <<1, j>> >>[1] = <<1, j>>
      OBVIOUS
    <3>3. 1 + j \in DOMAIN cs /\ cs[1 + j].calls = << <<1, j>> >>
      BY <3>1, <2>9, <2>10
    <3> QED BY <3>1, <3>2, <3>3
  <2>13. NoneTwice(cs)
    <3>1. \A i \in DOMAIN cs : \A j \in DOMAIN cs[i].calls :
             i # 1 /\ j = 1 /\ cs[i].calls[j] = <<1, i - 1>>
      BY <2>9, <2>11
    <3>2. \A i \in DOMAIN cs : i \in Int
      BY <2>2, <2>8
    <3> QED BY <3>1, <3>2 DEF NoneTwice
  <2>14. OwnOnly(cs)
    BY <2>9, <2>11 DEF OwnOnly
  <2> QED BY <1>8, <2>7, <2>8, <2>9, <2>12, <2>13, <2>14
<1>9. CASE client \notin Calls!WithTools
  <2>1. cs = [k \in 1..n |-> [text |-> k, calls |-> <<>>]]
           \/ cs = <<[text |-> 1, calls |-> <<>>]>>
    BY <1>1, <1>9 DEF Calls!ChoicesOf, Calls!TextOnly, Calls!PalmFirst, Calls!Choice,
        Calls!Google, Calls!WithTools
  <2>2. \A k \in 1..n : [text |-> k, calls |-> <<>>] \in Chosen
    BY <1>1, <1>4 DEF Chosen
  <2>3. [k \in 1..n |-> [text |-> k, calls |-> <<>>]] \in Seq(Chosen)
    BY <1>1, <2>2, IsASeq
  <2>4. <<[text |-> 1, calls |-> <<>>]>> \in Seq(Chosen)
    BY <2>2, <1>1
  <2>5. /\ cs \in Seq(Chosen) /\ cs # <<>> /\ cs[1].text = 1
        /\ \A k \in DOMAIN cs : cs[k].calls = <<>>
    <3>1. CASE cs = [k \in 1..n |-> [text |-> k, calls |-> <<>>]]
      BY <3>1, <2>3, <1>1
    <3>2. CASE cs = <<[text |-> 1, calls |-> <<>>]>>
      BY <3>2, <2>4
    <3> QED BY <2>1, <3>1, <3>2
  <2>6. NoneTwice(cs) /\ OwnOnly(cs)
    BY <2>5, <1>4 DEF NoneTwice, OwnOnly
  <2> QED BY <1>9, <2>5, <2>6
<1> QED BY <1>5, <1>6, <1>7, <1>8, <1>9 DEF Calls!WithTools

(* A call without an answer has no candidates and no choices.              *)
LEMMA Nothing ==
    /\ <<>> \in Seq(0..MaxCalls) /\ Len(<<>>) = 0
    /\ <<>> \in Seq([text : 0..MaxChoices,
                      calls : Seq((1..MaxChoices) \X (1..MaxCalls))])
  OBVIOUS

Together(cs) == Calls!FlattenSeq([k \in DOMAIN cs |-> cs[k].calls])

(* The calls of all choices in one list.                                   *)
LEMMA AllTogether ==
    ASSUME MaxChoices \in Nat, NEW cs \in Seq(Chosen), NEW cands
    PROVE  /\ AllIn(cs, cands) =>
              \A k \in DOMAIN cands : \A j \in 1..cands[k] :
                 \E x \in DOMAIN Together(cs) : Together(cs)[x] = <<k, j>>
           /\ NoneTwice(cs) => Once(Together(cs))
<1> DEFINE all == Together(cs)
<1> DEFINE seqs == [k \in DOMAIN cs |-> cs[k].calls]
<1>1. Len(cs) \in Nat /\ DOMAIN cs = 1..Len(cs)
  BY LenProperties
<1>2. \A k \in 1..Len(cs) : cs[k].calls \in Seq(Pairs)
  <2> TAKE k \in 1..Len(cs)
  <2>1. cs[k] \in Chosen
    BY ElementOfSeq
  <2> QED BY <2>1 DEF Chosen
<1>3. seqs \in Seq(Seq(Pairs)) /\ Len(seqs) = Len(cs)
  BY <1>1, <1>2, IsASeq
<1>4. \A k \in 1..Len(cs) : seqs[k] = cs[k].calls
  BY <1>1
<1>5. all = Calls!FlattenSeq(seqs)
  BY DEF Together
<1> HIDE DEF seqs, all
<1>6. Streams!IsOf(all, seqs, Len(cs))
  BY <1>3, <1>5, Flattened
<1>7. ASSUME AllIn(cs, cands), NEW k \in DOMAIN cands, NEW j \in 1..cands[k]
      PROVE  \E x \in DOMAIN all : all[x] = <<k, j>>
  <2>1. PICK i \in DOMAIN cs : \E x \in DOMAIN cs[i].calls : cs[i].calls[x] = <<k, j>>
    BY <1>7 DEF AllIn
  <2>2. PICK y \in DOMAIN seqs[i] : seqs[i][y] = <<k, j>>
    BY <1>1, <1>4, <2>1
  <2>3. i \in 1..Len(cs)
    BY <1>1
  <2>4. \E x \in DOMAIN all : all[x] = seqs[i][y]
    BY <1>6, <2>2, <2>3 DEF Streams!IsOf
  <2> QED BY <2>2, <2>4
<1>8. ASSUME NoneTwice(cs)
      PROVE  Once(all)
  <2>1. ASSUME NEW i \in 1..Len(seqs), NEW k \in 1..Len(seqs),
               NEW j \in DOMAIN seqs[i], NEW l \in DOMAIN seqs[k], seqs[i][j] = seqs[k][l]
        PROVE  i = k /\ j = l
    <3>1. i \in DOMAIN cs /\ k \in DOMAIN cs /\ seqs[i] = cs[i].calls /\ seqs[k] = cs[k].calls
      BY <1>1, <1>3, <1>4
    <3> QED BY <3>1, <2>1, <1>8 DEF NoneTwice
  <2> QED BY <2>1, <1>3, <1>5, Flattened
<1> QED BY <1>7, <1>8 DEF all

(* A call begins with the invariant.                                       *)
LEMMA CallInit ==
    ASSUME MaxChoices \in Nat \ {0}, MaxCalls \in Nat, Calls!Init
    PROVE  Calls!IInv
<1>1. Calls!CallInv /\ Calls!ReportInv
  BY Lists DEF Calls!Init, Calls!CallInv, Calls!ReportInv, Calls!Streaming, Events
<1>2. events = <<>> /\ pc = "start" /\ outcome = "none"
  BY DEF Calls!Init
<1>3. ~Calls!Told("end") /\ ~Calls!Told("error")
  BY <1>2 DEF Calls!Told
<1>4. /\ choices = <<>> /\ candidates = <<>> /\ reply = "none" /\ offered = {}
      /\ tools \subseteq Calls!ToolKinds
  BY DEF Calls!Init
<1>5. Calls!ChoiceInv
  BY <1>2, <1>4, Nothing DEF Calls!ChoiceInv, Calls!Kinds
<1>6. /\ Calls!PromptGetsFirst /\ Calls!ToolsOfferedOrRefused
      /\ Calls!StreamedCallSucceeds /\ Calls!CallsOnce
  BY <1>2, <1>4 DEF Calls!PromptGetsFirst, Calls!ToolsOfferedOrRefused,
      Calls!StreamedCallSucceeds, Calls!CallsOnce, Calls!Served, Calls!Succeeded
<1>7. Calls!CallsStayWithChoice
  BY <1>4 DEF Calls!CallsStayWithChoice
<1> QED BY <1>1, <1>2, <1>3, <1>5, <1>6, <1>7 DEF Calls!IInv, Calls!FailureIsError,
    Calls!GarbageIsError, Calls!ReportsAgree, Calls!ReportIsOutcome,
    Calls!FailureReported, Calls!Served, Calls!Succeeded

(* The answer of the service, or its failure, keeps the invariant.         *)
LEMMA ServeStep ==
    ASSUME MaxChoices \in Nat \ {0}, MaxCalls \in Nat,
           Calls!IInv, NEW kind \in Calls!Kinds, Calls!Serve(kind)
    PROVE  Calls!IInv'
<1> DEFINE made == Calls!Becomes(client, streaming)[kind]
<1>1. /\ client \in Calls!Models /\ streaming \in BOOLEAN /\ events = <<"start">>
      /\ kind \in Calls!Replies(client) /\ reply' = kind
      /\ UNCHANGED <<client, streaming>>
  BY DEF Calls!IInv, Calls!CallInv, Calls!ReportInv, Calls!Serve
<1>2. /\ made = "choices" => Calls!Returns("ok", Calls!ChoicesOf(client), Calls!OnSuccess)
      /\ made = "blank"   => Calls!Returns("ok", <<Calls!Choice(0, <<>>)>>, Calls!OnSuccess)
      /\ made = "nothing" => Calls!Returns("ok", <<>>, Calls!OnSuccess)
      /\ made = "error"   => Calls!Returns("error", <<>>, Calls!OnError(kind))
      /\ made = "panic"   => Calls!Returns("panic", <<>>, <<>>)
  BY Zenon DEF Calls!Serve
<1>3. made \in {"choices", "blank", "nothing", "error", "panic"}
  BY <1>1, Table
<1>4. PICK told \in Reports :
         /\ events' = <<"start">> \o told /\ pc' = "returned"
         /\ \/ outcome' = "ok" /\ told = Calls!OnSuccess /\ made # "error"
            \/ outcome' = "error" /\ told = Calls!OnError(kind) /\ made = "error"
            \/ outcome' = "panic" /\ told = <<>> /\ made # "error"
  <2>1. Calls!OnSuccess \in Reports /\ Calls!OnError(kind) \in Reports /\ <<>> \in Reports
    BY DEF Calls!OnSuccess, Calls!OnError, Reports
  <2> HIDE DEF made
  <2>2. CASE made \in {"choices", "blank", "nothing"}
    BY <1>1, <1>2, <2>1, <2>2 DEF Calls!Returns
  <2>3. CASE made = "error"
    BY <1>1, <1>2, <2>1, <2>3 DEF Calls!Returns
  <2>4. CASE made = "panic"
    BY <1>1, <1>2, <2>1, <2>4 DEF Calls!Returns
  <2> QED BY <1>3, <2>2, <2>3, <2>4
<1>5. /\ kind \in Calls!Broken \cup {"apiError"} =>
            \/ made = "error"
            \/ kind = "bare" /\ client \in {"llamafile", "cloudflare", "ollama"}
      /\ kind = "garbage" => made = "error" \/ (client = "maritaca" /\ streaming)
  BY <1>1, Table
<1> HIDE DEF made
<1>6. /\ Calls!Told("error")' <=> told \in {<<"error">>, <<"end", "error">>}
      /\ Calls!Told("end")' <=> told \notin {<<>>, <<"error">>}
      /\ events' \in Seq(Events)
  BY <1>4, Reported DEF Calls!Told
<1>7. /\ told = Calls!OnSuccess =>
            told \in {<<>>, <<"end">>} \/ (client = "mistral" /\ told = <<"end", "end">>)
      /\ told = Calls!OnError(kind) =>
            \/ told = <<"error">>
            \/ client = "mistral" /\ told = <<"end", "error">>
            \/ /\ told = <<>>
               /\ kind \in Calls!Broken =>
                     client \in {"openai", "cloudflare", "local"} \cup Calls!Google
  <2>1. \/ client \in Calls!ReportsErrors
        \/ client \in {"watsonx", "mistral", "openai", "cloudflare", "local"}
                     \cup Calls!Google
    BY <1>1 DEF Calls!ReportsErrors, Calls!Models, Calls!Assuming
  <2> QED BY <2>1 DEF Calls!OnSuccess, Calls!OnError, Calls!Broken
<1>8. Calls!CallInv' /\ Calls!ReportInv'
  BY <1>1, <1>4, <1>6 DEF Calls!CallInv, Calls!ReportInv, Events
<1>9. Calls!FailureIsError' /\ Calls!GarbageIsError'
  BY <1>1, <1>4, <1>5 DEF Calls!FailureIsError, Calls!GarbageIsError, Calls!Served,
      Calls!Succeeded
<1>10. Calls!ReportsAgree' /\ Calls!ReportIsOutcome' /\ Calls!FailureReported'
  BY <1>1, <1>4, <1>6, <1>7 DEF Calls!ReportsAgree, Calls!ReportIsOutcome,
      Calls!FailureReported, Calls!Served
<1>11. /\ UNCHANGED <<tools, offered>> /\ tools \subseteq Calls!ToolKinds
       /\ offered = Calls!Offered
       /\ kind \in Calls!Answers => candidates' \in
              UNION {[1..n -> 0..(IF offered # {} THEN MaxCalls ELSE 0)] :
                     n \in 1..(IF client \in Calls!Several /\ ~streaming THEN MaxChoices ELSE 1)}
       /\ kind \notin Calls!Answers => candidates' = <<>>
  BY DEF Calls!Serve, Calls!IInv, Calls!ChoiceInv
<1>12. kind \in Calls!Answers => Candidates
  <2> SUFFICES ASSUME kind \in Calls!Answers PROVE Candidates
    OBVIOUS
  <2>1. PICK n \in 1..(IF client \in Calls!Several /\ ~streaming THEN MaxChoices ELSE 1) :
           candidates' \in [1..n -> 0..(IF offered # {} THEN MaxCalls ELSE 0)]
    BY <1>11
  <2>2. n \in 1..MaxChoices /\ n \in Nat /\ (client = "anthropic" => n = 1)
    BY DEF Calls!Several, Calls!Google
  <2>3. candidates' \in [1..n -> 0..MaxCalls]
    BY <2>1
  <2>4. candidates' \in Seq(0..MaxCalls) /\ Len(candidates') = n
    BY <2>2, <2>3, IsASeq
  <2> QED BY <1>1, <2>2, <2>4 DEF Candidates
<1>13. /\ candidates' \in Seq(0..MaxCalls) /\ Len(candidates') <= MaxChoices
       /\ Len(candidates') \in Nat
  <2>1. CASE kind \in Calls!Answers
    BY <2>1, <1>12, LenProperties DEF Candidates
  <2>2. CASE kind \notin Calls!Answers
    BY <2>2, <1>11, Nothing
  <2> QED BY <2>1, <2>2
<1>14. /\ made = "choices" => kind \in Calls!Answers
       /\ kind \in Calls!Answers =>
             \/ made \in {"choices", "error"}
             \/ made = "blank" /\ client = "cloudflare" /\ streaming
       /\ kind = "answer" => made # "error" \/ (client = "openai" /\ streaming)
  BY <1>1, Table DEF made
<1>15. /\ choices' = IF made = "choices" THEN Calls!ChoicesOf(client)
                     ELSE IF made = "blank" THEN <<[text |-> 0, calls |-> <<>>]>> ELSE <<>>
       /\ outcome' = IF made \in {"choices", "blank", "nothing"} THEN "ok" ELSE made
  BY <1>2, <1>3 DEF Calls!Returns, Calls!Choice
<1>16. /\ choices' \in Seq(Chosen)
       /\ made = "choices" => choices' # <<>> /\ choices'[1].text = 1
       /\ made \in {"choices", "blank", "nothing"} /\ client \in Calls!WithTools
          /\ ~CallsLost => AllIn(choices', candidates')
       /\ client \notin Calls!Google => NoneTwice(choices')
       /\ client \notin Calls!Google \cup {"mistral"} => OwnOnly(choices')
  <2>1. CASE made = "choices"
    BY <2>1, <1>12, <1>14, <1>15, ChosenWell
  <2>2. CASE made = "blank"
    <3>1. choices' = <<[text |-> 0, calls |-> <<>>]>>
      BY <2>2, <1>15
    <3>2. /\ [text |-> 0, calls |-> <<>>] \in Chosen
          /\ \A k \in DOMAIN choices' : choices'[k].calls = <<>>
      BY <3>1 DEF Chosen
    <3>3. choices' \in Seq(Chosen)
      BY <3>1, <3>2
    <3>4. NoneTwice(choices') /\ OwnOnly(choices')
      BY <3>2 DEF NoneTwice, OwnOnly
    <3>5. client \in Calls!WithTools => candidates' = <<>>
      BY <2>2, <1>11, <1>14 DEF Calls!WithTools, Calls!Google
    <3>6. client \in Calls!WithTools => AllIn(choices', candidates')
      BY <3>5 DEF AllIn
    <3> QED BY <2>2, <3>3, <3>4, <3>6
  <2>3. CASE made \in {"nothing", "error", "panic"}
    <3>1. choices' = <<>>
      BY <2>3, <1>15
    <3>2. choices' \in Seq(Chosen) /\ NoneTwice(choices') /\ OwnOnly(choices')
      BY <3>1 DEF NoneTwice, OwnOnly
    <3>3. made = "nothing" => candidates' = <<>>
      BY <1>11, <1>14
    <3>4. made = "nothing" => AllIn(choices', candidates')
      BY <3>3 DEF AllIn
    <3> QED BY <2>3, <3>2, <3>4
  <2> QED BY <1>3, <2>1, <2>2, <2>3 DEF made
<1>17. Calls!ChoiceInv'
  <2>1. tools' \subseteq Calls!ToolKinds /\ offered' \subseteq tools'
    BY <1>11 DEF Calls!Offered
  <2>2. reply' \in Calls!Kinds /\ outcome' \in {"none", "ok", "error", "panic"}
    BY <1>1, <1>4
  <2>3. choices' \in Seq([text : 0..MaxChoices,
                          calls : Seq((1..MaxChoices) \X (1..MaxCalls))])
    BY <1>16 DEF Chosen, Pairs
  <2> QED BY <1>4, <1>13, <2>1, <2>2, <2>3 DEF Calls!ChoiceInv
<1>18. Calls!PromptGetsFirst'
  <2>1. made = "choices" => Calls!SinglePrompt' = [end |-> "ok", text |-> 1]
    BY <1>15, <1>16 DEF Calls!SinglePrompt
  <2>2. made = "error" => Calls!SinglePrompt' = [end |-> "error", text |-> 0]
    BY <1>15 DEF Calls!SinglePrompt
  <2> QED BY <1>1, <1>14, <2>1, <2>2 DEF Calls!PromptGetsFirst
<1>19. Calls!ToolsOfferedOrRefused' /\ Calls!StreamedCallSucceeds'
  BY <1>1, <1>11, <1>14, <1>15 DEF Calls!ToolsOfferedOrRefused, Calls!Offered,
      Calls!StreamedCallSucceeds, Calls!Answers
<1>20. Calls!CallsOnce'
  <2> SUFFICES ASSUME Calls!Succeeded', client \in Calls!WithTools
               PROVE  Calls!CallsOnce'
    BY <1>1 DEF Calls!CallsOnce
  <2>1. ~CallsLost => AllIn(choices', candidates')
    BY <1>3, <1>15, <1>16 DEF Calls!Succeeded
  <2>2. /\ ~CallsLost => \A k \in DOMAIN candidates' : \A j \in 1..candidates'[k] :
              \E x \in DOMAIN Together(choices') : Together(choices')[x] = <<k, j>>
        /\ NoneTwice(choices') => Once(Together(choices'))
    BY <1>16, <2>1, AllTogether
  <2>3. client \notin Calls!Google =>
            \A x, y \in DOMAIN Together(choices') :
               Together(choices')[x] = Together(choices')[y] => x = y
    BY <1>16, <2>2 DEF Once
  <2> QED BY <1>1, <2>2, <2>3 DEF Calls!CallsOnce, Together, CallsLost
<1>21. Calls!CallsStayWithChoice'
  BY <1>1, <1>16 DEF Calls!CallsStayWithChoice, OwnOnly
<1> QED BY <1>8, <1>9, <1>10, <1>17, <1>18, <1>19, <1>20, <1>21 DEF Calls!IInv

(* So do the steps before it, and those that end the call without it.      *)
LEMMA OtherSteps ==
    ASSUME MaxChoices \in Nat \ {0}, Calls!IInv,
           Calls!Start \/ Calls!Convert \/ Calls!Refuse \/ Calls!Panic
    PROVE  Calls!IInv'
<1> USE DEF Calls!CallInv, Calls!ReportInv
<1>0. Calls!CallInv /\ Calls!ReportInv /\ Calls!ChoiceInv
  BY DEF Calls!IInv
<1>1. /\ UNCHANGED <<client, streaming, reply>> /\ pc # "returned"
      /\ pc' \in {"convert", "send", "returned"} /\ outcome' \in {"none", "error", "panic"}
      /\ pc' # "returned" => outcome' = "none"
      /\ events' = <<"start">>
  <2>1. CASE Calls!Start \/ Calls!Convert
    BY <1>0, <2>1 DEF Calls!Start, Calls!Convert
  <2>2. CASE Calls!Refuse \/ Calls!Panic
    BY <1>0, <2>2, Lists DEF Calls!Refuse, Calls!Panic, Calls!Refused, Calls!Returns
  <2> QED BY <2>1, <2>2
<1>2. reply = "none"
  BY <1>0, <1>1
<1>3. ~Calls!Told("end")' /\ ~Calls!Told("error")'
  BY <1>1 DEF Calls!Told
<1>4. Calls!CallInv' /\ Calls!ReportInv'
  BY <1>0, <1>1, <1>2, Lists DEF Events
<1>5. /\ choices' = <<>> /\ candidates' = <<>> /\ tools' = tools
      /\ offered' \subseteq tools /\ (pc' = "send" => offered' = Calls!Offered)
  <2>1. CASE Calls!Start
    BY <1>0, <2>1 DEF Calls!Start, Calls!ChoiceInv
  <2>2. CASE Calls!Convert
    BY <1>0, <2>2 DEF Calls!Convert, Calls!ChoiceInv, Calls!Offered
  <2>3. CASE Calls!Refuse \/ Calls!Panic
    BY <1>0, <2>3 DEF Calls!Refuse, Calls!Panic, Calls!Refused, Calls!Returns,
        Calls!ChoiceInv
  <2> QED BY <2>1, <2>2, <2>3
<1>6. Calls!ChoiceInv'
  BY <1>0, <1>1, <1>5, Nothing DEF Calls!ChoiceInv, Calls!Offered
<1>7. /\ Calls!PromptGetsFirst' /\ Calls!ToolsOfferedOrRefused'
      /\ Calls!StreamedCallSucceeds' /\ Calls!CallsOnce'
  BY <1>1, <1>2 DEF Calls!PromptGetsFirst, Calls!ToolsOfferedOrRefused,
      Calls!StreamedCallSucceeds, Calls!CallsOnce, Calls!Served, Calls!Succeeded,
      Calls!Answers
<1>8. Calls!CallsStayWithChoice'
  BY <1>5 DEF Calls!CallsStayWithChoice
<1> QED BY <1>1, <1>2, <1>3, <1>4, <1>6, <1>7, <1>8 DEF Calls!IInv, Calls!FailureIsError,
    Calls!GarbageIsError,
    Calls!ReportsAgree,
          Calls!ReportIsOutcome, Calls!FailureReported, Calls!Served, Calls!Succeeded

(* Every step of a call keeps the invariant.                               *)
LEMMA CallSteps ==
    ASSUME MaxChoices \in Nat \ {0}, MaxCalls \in Nat,
           Calls!IInv, [Calls!Next]_(Calls!vars)
    PROVE  Calls!IInv'
<1>1. CASE UNCHANGED Calls!vars
  <2>1. UNCHANGED <<client, streaming, tools, offered, pc, reply, candidates, events,
                    choices, outcome>>
    BY <1>1 DEF Calls!vars
  <2>2. Calls!CallInv' /\ Calls!ReportInv' /\ Calls!ChoiceInv'
    BY <2>1 DEF Calls!IInv, Calls!CallInv, Calls!ReportInv, Calls!ChoiceInv, Calls!Offered
  <2>3. /\ Calls!FailureIsError' /\ Calls!GarbageIsError' /\ Calls!ReportsAgree'
        /\ Calls!ReportIsOutcome' /\ Calls!FailureReported'
    BY <2>1 DEF Calls!IInv, Calls!FailureIsError, Calls!GarbageIsError, Calls!ReportsAgree,
        Calls!ReportIsOutcome, Calls!FailureReported, Calls!Served, Calls!Succeeded,
        Calls!Told
  <2>4. /\ Calls!PromptGetsFirst' /\ Calls!ToolsOfferedOrRefused'
        /\ Calls!StreamedCallSucceeds'
    BY <2>1 DEF Calls!IInv, Calls!PromptGetsFirst, Calls!ToolsOfferedOrRefused,
        Calls!StreamedCallSucceeds, Calls!SinglePrompt, Calls!Served
  <2>5. Calls!CallsOnce' /\ Calls!CallsStayWithChoice'
    BY <2>1 DEF Calls!IInv, Calls!CallsOnce, Calls!CallsStayWithChoice, Calls!Succeeded
  <2> QED BY <2>2, <2>3, <2>4, <2>5 DEF Calls!IInv
<1>2. CASE Calls!Next
  BY <1>2, ServeStep, OtherSteps DEF Calls!Next
<1> QED BY <1>1, <1>2

(* The types of a call.                                                    *)
LEMMA CallTypes == ASSUME Calls!IInv PROVE Calls!TypeOK
<1>1. Calls!CallInv /\ Calls!ReportInv /\ Calls!ChoiceInv
  BY DEF Calls!IInv
<1>2. \A k \in DOMAIN choices :
         choices[k] \in [text : 0..MaxChoices, calls : Seq((1..MaxChoices) \X (1..MaxCalls))]
  BY <1>1, ElementOfSeq, LenProperties DEF Calls!ChoiceInv
<1>3. \A k \in DOMAIN choices :
          /\ choices[k].text \in 0..MaxChoices
          /\ choices[k].calls \in Seq((1..MaxChoices) \X (1..MaxCalls))
  BY <1>2
<1> QED BY <1>1, <1>3 DEF Calls!TypeOK, Calls!CallInv, Calls!ReportInv, Calls!ChoiceInv

-----------------------------------------------------------------------------
(* Scraper.                                                                *)

(* Lists of up to three links.                                             *)
LEMMA SmallLists ==
    /\ <<>> \in Seq(Scraping!Targets)
    /\ \A a, b, c \in Scraping!Targets :
          /\ <<a>> \in Seq(Scraping!Targets) /\ <<a, b>> \in Seq(Scraping!Targets)
          /\ <<a, b, c>> \in Seq(Scraping!Targets)
OBVIOUS

(* The links of a page are a list of targets.                              *)
LEMMA LinksOfPage ==
    ASSUME site \in Scraping!Sites, NEW page \in Scraping!Pages
    PROVE  site[page] \in Seq(Scraping!Targets)
<1>1. {"home", "p", "q", "index", "other", "login"} = Scraping!Targets
  BY DEF Scraping!Targets, Scraping!Pages
<1>2. page \in {"home", "p", "q"}
  BY DEF Scraping!Pages
<1>3. \/ site = [home |-> <<"p", "q">>, p |-> <<"q">>, q |-> <<"p">>]
      \/ site = [home |-> <<"p", "p">>, p |-> <<"index", "q">>, q |-> <<>>]
      \/ site = [home |-> <<"other", "q", "login">>, p |-> <<>>, q |-> <<"home">>]
  BY DEF Scraping!Sites
<1>4. site[page] \in {<<>>, <<"p">>, <<"q">>, <<"home">>, <<"p", "q">>, <<"p", "p">>,
                      <<"index", "q">>, <<"other", "q", "login">>}
  BY <1>2, <1>3
<1> QED BY <1>1, <1>4, SmallLists

\* The visits, with any list of links.
VisitRecords == [page : Scraping!Pages,
                 step : {"fetch", "html", "text", "follow", "visit", "done"},
                 links : Seq(Scraping!Targets), failed : BOOLEAN]

(* A visit that begins is to be fetched and has not failed.                *)
LEMMA BegunIs ==
    ASSUME site \in Scraping!Sites, NEW page \in Scraping!Pages
    PROVE  /\ Scraping!Begun(page) \in VisitRecords /\ Scraping!Begun(page).step = "fetch"
           /\ Scraping!Begun(page).page = page /\ ~Scraping!Begun(page).failed
BY LinksOfPage DEF VisitRecords, Scraping!Begun

(* What a page links to, one by one.                                       *)
LEMMA LinkedIs ==
    ASSUME site \in Scraping!Sites
    PROVE  /\ \A S, x : x \in Scraping!Linked(S) <=>
                  \E p \in S : \E t \in Scraping!Range(site[p]) :
                      Scraping!Follows(t) /\ x = Scraping!Normal(t)
           /\ \A p \in Scraping!Pages : \A t \in Scraping!Range(site[p]) :
                  Scraping!Follows(t) => Scraping!Normal(t) \in Scraping!Pages
<1>1. \A S, x : x \in Scraping!Linked(S) <=>
          \E p \in S : \E t \in Scraping!Range(site[p]) :
              Scraping!Follows(t) /\ x = Scraping!Normal(t)
  BY DEF Scraping!Linked
<1>2. ASSUME NEW p \in Scraping!Pages, NEW t \in Scraping!Range(site[p]),
             Scraping!Follows(t)
      PROVE  Scraping!Normal(t) \in Scraping!Pages
  <2>1. site[p] \in Seq(Scraping!Targets)
    BY LinksOfPage
  <2>2. t \in Scraping!Targets
    BY <2>1, ElementOfSeq, LenProperties DEF Scraping!Range
  <2> QED BY <1>2, <2>2 DEF Scraping!Normal, Scraping!Follows, Scraping!Targets, Scraping!Pages
<1> QED BY <1>1, <1>2

(* The pages that can be reached in three steps are all that can: a fourth *)
(* step cannot add one, as there are no more than three.                   *)
LEMMA ReachedIs ==
    ASSUME site \in Scraping!Sites
    PROVE  /\ "home" \in Scraping!Reached /\ Scraping!Reached \subseteq Scraping!Pages
           /\ Scraping!Linked(Scraping!Reached) \subseteq Scraping!Reached
           /\ \A S : "home" \in S /\ Scraping!Linked(S) \subseteq S => Scraping!Reached \subseteq S
<1> DEFINE More(S) == S \cup Scraping!Linked(S)
           a0 == {"home"}
           a1 == More(a0)
           a2 == More(a1)
           a3 == More(a2)
<1>1. Scraping!Reached = a3
  <2> DEFINE F(f) == [n \in 0..3 |-> IF n = 0 THEN a0 ELSE More(f[n - 1])]
             g == [n \in 0..3 |-> IF n = 0 THEN a0 ELSE IF n = 1 THEN a1
                                  ELSE IF n = 2 THEN a2 ELSE a3]
             after == CHOOSE f : f = F(f)
  <2> HIDE DEF More
  <2>1. g = F(g)
    <3>1. \A n \in 0..3 : n # 0 => n - 1 \in 0..3
      OBVIOUS
    <3>2. \A n \in 0..3 : g[n] = IF n = 0 THEN a0 ELSE More(g[n - 1])
      <4> SUFFICES ASSUME NEW n \in 0..3
                   PROVE  g[n] = IF n = 0 THEN a0 ELSE More(g[n - 1])
        OBVIOUS
      <4>1. n = 0 \/ n = 1 \/ n = 2 \/ n = 3
        OBVIOUS
      <4>2. g[0] = a0 /\ g[1] = a1 /\ g[2] = a2 /\ g[3] = a3
        OBVIOUS
      <4> HIDE DEF g
      <4>3. CASE n = 0
        BY <4>2, <4>3
      <4>4. CASE n = 1
        BY <4>2, <4>4
      <4>5. CASE n = 2
        BY <4>2, <4>5
      <4>6. CASE n = 3
        BY <4>2, <4>6
      <4> QED BY <4>1, <4>3, <4>4, <4>5, <4>6
    <3> QED BY <3>2
  <2> HIDE DEF g
  <2>2. after = F(after)
    <3> HIDE DEF F
    <3> QED BY <2>1
  <2>3. Scraping!Reached = after[3]
    BY DEF Scraping!Reached, More
  <2> HIDE DEF after
  <2>4. after[0] = a0
    BY <2>2
  <2>5. after[1] = More(after[0]) /\ after[2] = More(after[1]) /\ after[3] = More(after[2])
    BY <2>2
  <2> QED BY <2>3, <2>4, <2>5
<1>2. \A S, T : S \subseteq T => Scraping!Linked(S) \subseteq Scraping!Linked(T)
  BY LinkedIs
<1>3. \A S : S \subseteq Scraping!Pages => More(S) \subseteq Scraping!Pages
  BY LinkedIs
<1>4. a0 \subseteq Scraping!Pages
  BY DEF Scraping!Pages
<1>5. \A S : S \subseteq More(S)
  OBVIOUS
<1>6. \A S : "home" \in S /\ Scraping!Linked(S) \subseteq S => a3 \subseteq S
  <2> SUFFICES ASSUME NEW S, "home" \in S, Scraping!Linked(S) \subseteq S
               PROVE  a3 \subseteq S
    OBVIOUS
  <2>1. \A T : T \subseteq S => More(T) \subseteq S
    BY <1>2
  <2>2. a0 \subseteq S
    OBVIOUS
  <2> HIDE DEF More
  <2> QED BY <2>1, <2>2
<1>7. Scraping!Linked(a3) \subseteq a3
  <2>1. CASE a1 = a0 \/ a2 = a1 \/ a3 = a2
    <3> HIDE DEF More
    <3>1. a3 = More(a3)
      BY <2>1
    <3> QED BY <3>1 DEF More
  <2>2. CASE a1 # a0 /\ a2 # a1 /\ a3 # a2
    <3> HIDE DEF More
    <3>1. PICK x \in a1 : x \notin a0
      BY <1>5, <2>2
    <3>2. PICK y \in a2 : y \notin a1
      BY <1>5, <2>2
    <3>3. PICK z \in a3 : z \notin a2
      BY <1>5, <2>2
    <3>4. a0 \subseteq a1 /\ a1 \subseteq a2 /\ a2 \subseteq a3 /\ a3 \subseteq Scraping!Pages
      BY <1>3, <1>4, <1>5
    <3>5. {"home", x, y, z} \subseteq Scraping!Pages /\ x # "home" /\ y # "home" /\ z # "home"
          /\ x # y /\ x # z /\ y # z
      BY <3>1, <3>2, <3>3, <3>4
    <3> QED BY <3>5 DEF Scraping!Pages
  <2> QED BY <2>1, <2>2
<1>8. "home" \in a3 /\ a3 \subseteq Scraping!Pages
  BY <1>3, <1>4, <1>5
<1> HIDE DEF a3
<1> QED BY <1>1, <1>6, <1>7, <1>8

(* The first visit begins with the invariant.                              *)
LEMMA SiteInit == ASSUME Scraping!Init PROVE Scraping!IInv
<1>1. /\ visits = <<Scraping!Begun("home")>> /\ Scraping!Begun("home") \in VisitRecords
      /\ Scraping!Begun("home").step = "fetch" /\ Scraping!Begun("home").page = "home"
      /\ ~Scraping!Begun("home").failed
  BY BegunIs DEF Scraping!Init, Scraping!Pages
<1>2. /\ visits \in Seq(VisitRecords) /\ visits[1] = Scraping!Begun("home")
      /\ visits # <<>> /\ DOMAIN visits = {1}
  BY <1>1
<1>3. Scraping!VisitInv
  BY <1>1, <1>2 DEF Scraping!Init, Scraping!VisitInv, VisitRecords
<1>4. Scraping!HomeInv
  BY <1>1, <1>2 DEF Scraping!Init, Scraping!HomeInv
<1>5. siteData \in Seq(Scraping!Pieces) /\ DOMAIN siteData = {}
  BY EmptySeq DEF Scraping!Init
<1>6. Scraping!PiecesInv /\ Scraping!PlaceInv
  BY <1>1, <1>2, <1>5 DEF Scraping!Init, Scraping!PiecesInv, Scraping!PlaceInv,
      Scraping!TextUnderAddress
<1>7. /\ site \in Scraping!Sites /\ "home" \in Scraping!Pages
      /\ visited = {"home"} /\ scrapedLinks = {}
      /\ Scraping!Begun("home").links = site["home"]
  BY DEF Scraping!Init, Scraping!Begun, Scraping!Pages
<1>8. "home" \in Scraping!Reached
  BY <1>7, ReachedIs
<1>9. Scraping!ReadInv
  BY <1>1, <1>2, <1>7, <1>8 DEF Scraping!ReadInv
<1>10. Scraping!ToldInv
  BY <1>7 DEF Scraping!ToldInv
<1> QED
  BY <1>3, <1>4, <1>6, <1>9, <1>10 DEF Scraping!Init, Scraping!IInv, Scraping!ReturnInv,
      Scraping!VisitsEnded, Scraping!SiteFailureTold

(* One visit changes, the others stay.                                     *)
LEMMA VisitChanged ==
    ASSUME NEW s \in Seq(VisitRecords), NEW i \in DOMAIN s, NEW v \in VisitRecords
    PROVE  LET t == [s EXCEPT ![i] = v]
           IN /\ t \in Seq(VisitRecords) /\ DOMAIN t = DOMAIN s /\ Len(t) = Len(s) /\ t[i] = v
              /\ \A k \in DOMAIN s : k # i => t[k] = s[k]
BY ExceptSeq

(* A visit goes on to another step.                                        *)
LEMMA VisitGoesOn ==
    ASSUME NEW v \in VisitRecords,
           NEW step \in {"fetch", "html", "text", "follow", "visit", "done"}
    PROVE  LET w == [v EXCEPT !.step = step]
           IN /\ w \in VisitRecords /\ w.step = step /\ w.page = v.page
              /\ w.failed = v.failed /\ w.links = v.links
BY DEF VisitRecords

(* The same, for the visits as they are.                                   *)
LEMMA VisitMoves ==
    ASSUME visits \in Seq(VisitRecords), NEW i \in DOMAIN visits,
           NEW step \in {"fetch", "html", "text", "follow", "visit", "done"},
           Scraping!Becomes(i, step)
    PROVE  /\ visits' \in Seq(VisitRecords) /\ DOMAIN visits' = DOMAIN visits
           /\ \A k \in DOMAIN visits : k # i => visits'[k] = visits[k]
           /\ visits'[i].step = step /\ visits'[i].page = visits[i].page
           /\ visits'[i].failed = visits[i].failed /\ visits'[i].links = visits[i].links
<1>1. visits[i] \in VisitRecords
  BY ElementOfSeq, LenProperties
<1> DEFINE w == [visits[i] EXCEPT !.step = step]
<1>2. visits' = [visits EXCEPT ![i] = w]
  BY DEF Scraping!Becomes
<1>3. /\ w \in VisitRecords /\ w.step = step /\ w.page = visits[i].page
      /\ w.failed = visits[i].failed /\ w.links = visits[i].links
  BY <1>1, VisitGoesOn
<1> HIDE DEF w
<1> QED BY <1>2, <1>3, VisitChanged

(* A visit leaves a link behind.                                           *)
LEMMA RestMoves ==
    ASSUME visits \in Seq(VisitRecords), NEW i \in DOMAIN visits, visits[i].links # <<>>,
           NEW step \in {"fetch", "html", "text", "follow", "visit", "done"}
    PROVE  LET s == Scraping!Rest(i, step) IN
           /\ s \in Seq(VisitRecords) /\ DOMAIN s = DOMAIN visits
           /\ \A k \in DOMAIN visits : k # i => s[k] = visits[k]
           /\ s[i].step = step /\ s[i].page = visits[i].page
           /\ s[i].failed = visits[i].failed /\ s[i].links = Tail(visits[i].links)
<1>1. visits[i] \in VisitRecords
  BY ElementOfSeq, LenProperties
<1>2. Tail(visits[i].links) \in Seq(Scraping!Targets)
  BY <1>1, HeadTailProperties DEF VisitRecords
<1> DEFINE v == [visits[i] EXCEPT !.links = Tail(visits[i].links), !.step = step]
<1>3. /\ v \in VisitRecords /\ v.step = step
      /\ v.page = visits[i].page /\ v.failed = visits[i].failed
      /\ v.links = Tail(visits[i].links)
  BY <1>1, <1>2 DEF VisitRecords
<1>4. Scraping!Rest(i, step) = [visits EXCEPT ![i] = v]
  BY DEF Scraping!Rest
<1> HIDE DEF v
<1> QED BY <1>3, <1>4, VisitChanged

(* What a step of a visit does to the visits: this holds for each of the   *)
(* steps and is all that most parts of the invariant need of them.         *)
LEMMA VisitFacts ==
    ASSUME Scraping!IInv, NEW i \in DOMAIN visits,
           \/ Scraping!Fetch(i) \/ Scraping!OnHTML(i) \/ Scraping!WriteText(i)
           \/ Scraping!FollowLink(i) \/ Scraping!VisitLink(i) \/ Scraping!EndVisit(i)
    PROVE  LET old == visits[i]
               new == visits'[i]
           IN
           /\ visits \in Seq(VisitRecords) /\ visits # <<>> /\ old \in VisitRecords
           /\ Len(visits) \in Nat /\ DOMAIN visits = 1..Len(visits) /\ 1 \in DOMAIN visits
           /\ ~Scraping!Done(i) /\ Scraping!Runs(i)
           /\ UNCHANGED <<Async, site, canceled, pc, outcome>>
           /\ scrapedLinks \subseteq scrapedLinks'
           /\ visits' \in Seq(VisitRecords) /\ DOMAIN visits \subseteq DOMAIN visits'
           /\ \A k \in DOMAIN visits : k # i => visits'[k] = visits[k]
           /\ \A k \in DOMAIN visits' : k \notin DOMAIN visits => visits'[k].step = "fetch"
           /\ new.page = old.page
           /\ new.step \in {"text", "follow", "visit"} =>
                 old.step \in {"text", "follow", "visit"} \/ old.page \in scrapedLinks'
           /\ new.step = "done" => new.failed \/ canceled \/ old.step = "follow"
           /\ new.failed => new.step = "done" \/ old.failed
           /\ new.step = "visit" =>
                 new.links # <<>> /\ Scraping!Normal(Head(new.links)) \in Scraping!Pages
<1> USE DEF Scraping!IInv
<1>1. /\ visits \in Seq(VisitRecords) /\ visits # <<>> /\ visits[i] \in VisitRecords
      /\ Len(visits) \in Nat /\ DOMAIN visits = 1..Len(visits) /\ 1 \in DOMAIN visits
  <2>1. visits \in Seq(VisitRecords) /\ visits # <<>>
    BY DEF Scraping!VisitInv, Scraping!HomeInv, VisitRecords
  <2> QED BY <2>1, EmptySeq, LenProperties, ElementOfSeq
<1>2. /\ ~Scraping!Done(i) /\ Scraping!Runs(i)
      /\ UNCHANGED <<Async, site, canceled, pc, outcome>>
      /\ scrapedLinks \subseteq scrapedLinks'
  BY DEF Scraping!Fetch, Scraping!OnHTML, Scraping!WriteText, Scraping!FollowLink,
      Scraping!VisitLink, Scraping!EndVisit, Scraping!Done
<1> DEFINE old == visits[i]
           new == visits'[i]
<1>3. /\ visits' \in Seq(VisitRecords) /\ DOMAIN visits \subseteq DOMAIN visits'
      /\ \A k \in DOMAIN visits : k # i => visits'[k] = visits[k]
      /\ \A k \in DOMAIN visits' : k \notin DOMAIN visits => visits'[k].step = "fetch"
      /\ new.page = old.page
      /\ new.step \in {"text", "follow", "visit"} =>
            old.step \in {"text", "follow", "visit"} \/ old.page \in scrapedLinks'
      /\ new.step = "done" => new.failed \/ canceled \/ old.step = "follow"
      /\ new.failed => new.step = "done" \/ old.failed
      /\ new.step = "visit" =>
            new.links # <<>> /\ Scraping!Normal(Head(new.links)) \in Scraping!Pages
  <2>1. CASE Scraping!Fetch(i)
    <3>1. CASE Scraping!Becomes(i, "done") /\ canceled
      BY <1>1, <3>1, VisitMoves
    <3>3. CASE Scraping!Becomes(i, "html")
      BY <1>1, <3>3, VisitMoves
    <3>2. CASE visits' = [visits EXCEPT ![i].step = "done", ![i].failed = TRUE]
      <4> DEFINE v == [visits[i] EXCEPT !.step = "done", !.failed = TRUE]
      <4>1. v \in VisitRecords /\ v.step = "done" /\ v.page = old.page /\ v.failed = TRUE
        BY <1>1 DEF VisitRecords
      <4>2. visits' = [visits EXCEPT ![i] = v]
        BY <1>1, <3>2 DEF VisitRecords
      <4> HIDE DEF v
      <4> QED BY <1>1, <4>1, <4>2, VisitChanged
    <3> QED BY <2>1, <3>1, <3>2, <3>3 DEF Scraping!Fetch
  <2>2. CASE Scraping!OnHTML(i)
    <3>1. CASE Scraping!Becomes(i, "follow") /\ old.page \in scrapedLinks'
      BY <1>1, <3>1, VisitMoves
    <3>2. CASE Scraping!Becomes(i, "text") /\ old.page \in scrapedLinks'
      BY <1>1, <3>2, VisitMoves
    <3> QED BY <2>2, <3>1, <3>2 DEF Scraping!OnHTML
  <2>3. CASE Scraping!WriteText(i)
    BY <1>1, <2>3, VisitMoves DEF Scraping!WriteText
  <2>4. CASE Scraping!FollowLink(i)
    <3>1. old.step = "follow" /\ old.links # <<>>
      BY <2>4 DEF Scraping!FollowLink
    <3>2. CASE visits' = Scraping!Rest(i, "follow")
      BY <1>1, <3>1, <3>2, RestMoves
    <3>3. CASE /\ Scraping!Becomes(i, "visit")
               /\ Scraping!Follows(Scraping!Normal(Head(old.links)))
      <4>1. Scraping!Normal(Head(old.links)) \in Scraping!Pages
        BY <1>1, <3>1, <3>3, HeadTailProperties DEF VisitRecords, Scraping!Normal,
            Scraping!Follows, Scraping!Targets, Scraping!Pages
      <4> QED BY <1>1, <3>1, <3>3, <4>1, VisitMoves
    <3> QED BY <2>4, <3>2, <3>3 DEF Scraping!FollowLink
  <2>5. CASE Scraping!VisitLink(i)
    <3> DEFINE target == Scraping!Normal(Head(old.links))
    <3>1. old.step = "visit" /\ old.links # <<>> /\ target \in Scraping!Pages
      BY <2>5 DEF Scraping!VisitLink, Scraping!VisitInv
    <3>2. Scraping!Begun(target) \in VisitRecords /\ Scraping!Begun(target).step = "fetch"
      BY <3>1, BegunIs DEF Scraping!VisitInv
    <3>3. visits' = Append(Scraping!Rest(i, "follow"), Scraping!Begun(target))
      BY <2>5 DEF Scraping!VisitLink
    <3> HIDE DEF target
    <3>4. /\ visits' \in Seq(VisitRecords) /\ DOMAIN visits \subseteq DOMAIN visits'
          /\ \A k \in DOMAIN visits : visits'[k] = Scraping!Rest(i, "follow")[k]
          /\ \A k \in DOMAIN visits' :
                k \notin DOMAIN visits => visits'[k] = Scraping!Begun(target)
      BY <1>1, <3>1, <3>2, <3>3, RestMoves, AppendProperties, LenProperties
    <3> QED BY <1>1, <3>1, <3>2, <3>4, RestMoves
  <2>6. CASE Scraping!EndVisit(i)
    BY <1>1, <2>6, VisitMoves DEF Scraping!EndVisit
  <2> QED BY <2>1, <2>2, <2>3, <2>4, <2>5, <2>6
<1> HIDE DEF old, new
<1> QED BY <1>1, <1>2, <1>3 DEF old, new

(* Writing, or losing what is written where another goroutine writes too.  *)
Written(page, what) ==
    \/ siteData' = Append(siteData, [page |-> page, what |-> what])
    \/ Async /\ UNCHANGED siteData

(* What a step of a visit does to the text: its address is told once its   *)
(* page is noted as read, then its text; the other steps tell at most an   *)
(* error.                                                                  *)
LEMMA VisitTells ==
    ASSUME Scraping!IInv, NEW i \in DOMAIN visits,
           \/ Scraping!Fetch(i) \/ Scraping!OnHTML(i) \/ Scraping!WriteText(i)
           \/ Scraping!FollowLink(i) \/ Scraping!VisitLink(i) \/ Scraping!EndVisit(i)
    PROVE  LET old == visits[i]
               new == visits'[i]
           IN \/ /\ old.step = "html" /\ new.step = "text" /\ old.page \notin scrapedLinks
                 /\ scrapedLinks' = scrapedLinks \cup {old.page} /\ Written(old.page, "url")
                 /\ DOMAIN visits' = DOMAIN visits
              \/ /\ old.step = "text" /\ new.step # "text" /\ UNCHANGED scrapedLinks
                 /\ Written(old.page, "text")
              \/ /\ old.step # "text" /\ new.step # "text" /\ UNCHANGED scrapedLinks
                 /\ \/ UNCHANGED siteData
                    \/ \E page \in Scraping!Pages : Written(page, "error")
<1> DEFINE old == visits[i]
           new == visits'[i]
<1>1. /\ visits \in Seq(VisitRecords) /\ old \in VisitRecords /\ old.page \in Scraping!Pages
      /\ \A page, what : Scraping!WriteString(i, page, what) => Written(page, what)
  <2>1. /\ visits \in Seq(VisitRecords) /\ old \in VisitRecords
    BY VisitFacts
  <2> QED BY <2>1 DEF VisitRecords, Scraping!WriteString, Scraping!Races, Written
<1>2. CASE Scraping!Fetch(i)
  <2>1. old.step = "fetch" /\ UNCHANGED scrapedLinks
    BY <1>2 DEF Scraping!Fetch
  <2>2. \/ UNCHANGED siteData
        \/ siteData' = Append(siteData, [page |-> old.page, what |-> "error"])
    BY <1>2 DEF Scraping!Fetch
  <2>3. new.step # "text"
    <3>1. CASE Scraping!Becomes(i, "done")
      BY <1>1, <3>1, VisitMoves
    <3>2. CASE Scraping!Becomes(i, "html")
      BY <1>1, <3>2, VisitMoves
    <3>3. CASE visits' = [visits EXCEPT ![i].step = "done", ![i].failed = TRUE]
      BY <1>1, <3>3 DEF VisitRecords
    <3> QED BY <1>2, <3>1, <3>2, <3>3 DEF Scraping!Fetch
  <2> QED BY <1>1, <2>1, <2>2, <2>3 DEF Written
<1>3. CASE Scraping!OnHTML(i)
  <2>1. CASE Scraping!Becomes(i, "follow") /\ UNCHANGED <<scrapedLinks, siteData>>
    <3>1. new.step = "follow"
      BY <1>1, <2>1, VisitMoves
    <3> QED BY <1>3, <2>1, <3>1 DEF Scraping!OnHTML
  <2>2. CASE /\ Scraping!Becomes(i, "text") /\ old.page \notin scrapedLinks
             /\ scrapedLinks' = scrapedLinks \cup {old.page}
             /\ Scraping!WriteString(i, old.page, "url")
    <3>1. new.step = "text" /\ DOMAIN visits' = DOMAIN visits
      BY <1>1, <2>2, VisitMoves
    <3> QED BY <1>1, <1>3, <2>2, <3>1 DEF Scraping!OnHTML
  <2> QED BY <1>3, <2>1, <2>2 DEF Scraping!OnHTML
<1>4. CASE Scraping!WriteText(i)
  <2>1. new.step = "follow"
    BY <1>1, <1>4, VisitMoves DEF Scraping!WriteText
  <2> QED BY <1>1, <1>4, <2>1 DEF Scraping!WriteText
<1>5. CASE Scraping!FollowLink(i)
  <2>1. old.step = "follow" /\ old.links # <<>> /\ UNCHANGED scrapedLinks
    BY <1>5 DEF Scraping!FollowLink
  <2> DEFINE target == Scraping!Normal(Head(old.links))
  <2>2. Scraping!Follows(target) => target \in Scraping!Pages
    BY <1>1, <2>1, HeadTailProperties DEF VisitRecords, Scraping!Normal,
        Scraping!Follows, Scraping!Targets, Scraping!Pages
  <2>3. CASE visits' = Scraping!Rest(i, "follow")
    <3>1. new.step = "follow"
      BY <1>1, <2>1, <2>3, RestMoves
    <3>2. \/ UNCHANGED siteData
          \/ Scraping!Follows(target) /\ Scraping!WriteString(i, target, "error")
      BY <1>5 DEF Scraping!FollowLink
    <3> HIDE DEF target
    <3> QED BY <1>1, <2>1, <2>2, <3>1, <3>2
  <2>4. CASE Scraping!Becomes(i, "visit")
    <3>1. new.step = "visit"
      BY <1>1, <2>4, VisitMoves
    <3>2. \/ UNCHANGED siteData
          \/ Scraping!Follows(target) /\ Scraping!WriteString(i, target, "error")
      BY <1>5 DEF Scraping!FollowLink
    <3> HIDE DEF target
    <3> QED BY <1>1, <2>1, <2>2, <3>1, <3>2
  <2> QED BY <1>5, <2>3, <2>4 DEF Scraping!FollowLink
<1>6. CASE Scraping!VisitLink(i)
  <2> DEFINE target == Scraping!Normal(Head(old.links))
  <2>1. old.step = "visit" /\ old.links # <<>> /\ target \in Scraping!Pages
    BY <1>6 DEF Scraping!VisitLink, Scraping!IInv, Scraping!VisitInv
  <2>2. Scraping!Begun(target) \in VisitRecords
    BY <2>1, BegunIs DEF Scraping!IInv, Scraping!VisitInv
  <2>3. /\ visits' = Append(Scraping!Rest(i, "follow"), Scraping!Begun(target))
        /\ UNCHANGED <<scrapedLinks, siteData>>
    BY <1>6 DEF Scraping!VisitLink
  <2> HIDE DEF target
  <2>4. new.step = "follow"
    BY <1>1, <2>1, <2>2, <2>3, RestMoves, AppendProperties, LenProperties
  <2> QED BY <2>1, <2>3, <2>4
<1>7. CASE Scraping!EndVisit(i)
  <2>1. new.step = "done"
    BY <1>1, <1>7, VisitMoves DEF Scraping!EndVisit
  <2> QED BY <1>7, <2>1 DEF Scraping!EndVisit
<1> QED BY <1>2, <1>3, <1>4, <1>5, <1>6, <1>7

(* What is written comes after what was written, or is lost.               *)
LEMMA WrittenIs ==
    ASSUME siteData \in Seq(Scraping!Pieces), NEW page \in Scraping!Pages,
           NEW what \in {"url", "text", "error"}, Written(page, what)
    PROVE  /\ siteData' \in Seq(Scraping!Pieces)
           /\ DOMAIN siteData \subseteq DOMAIN siteData'
           /\ \A k \in DOMAIN siteData : siteData'[k] = siteData[k]
           /\ \A k, m \in DOMAIN siteData' \ DOMAIN siteData : k = m
           /\ \A k \in DOMAIN siteData' \ DOMAIN siteData :
                 siteData'[k] = [page |-> page, what |-> what]
           /\ ~Async => /\ Len(siteData') = Len(siteData) + 1 /\ siteData' # <<>>
                        /\ Len(siteData') \in DOMAIN siteData'
                        /\ Len(siteData') \notin DOMAIN siteData
                        /\ \A k \in DOMAIN siteData' : k \notin DOMAIN siteData =>
                              k = Len(siteData) + 1
<1> DEFINE piece == [page |-> page, what |-> what]
<1>1. piece \in Scraping!Pieces
  BY DEF Scraping!Pieces
<1> HIDE DEF piece
<1>2. CASE siteData' = Append(siteData, piece)
  <2>1. /\ siteData' \in Seq(Scraping!Pieces) /\ Len(siteData') = Len(siteData) + 1
        /\ Len(siteData) \in Nat /\ DOMAIN siteData = 1..Len(siteData)
        /\ DOMAIN siteData' = 1..(Len(siteData) + 1)
        /\ \A k \in 1..Len(siteData) : siteData'[k] = siteData[k]
        /\ siteData'[Len(siteData) + 1] = piece
    BY <1>1, <1>2, AppendProperties, LenProperties
  <2>2. siteData' # <<>>
    BY <2>1
  <2> QED BY <2>1, <2>2 DEF piece
<1>3. CASE Async /\ UNCHANGED siteData
  BY <1>3
<1> QED BY <1>2, <1>3 DEF Written, piece

(* The pieces of the text stay apart: a page's address is told when the    *)
(* page becomes one that was read, its text by the visit that did that.    *)
LEMMA PiecesStep ==
    ASSUME Scraping!IInv, NEW i \in DOMAIN visits,
           \/ Scraping!Fetch(i) \/ Scraping!OnHTML(i) \/ Scraping!WriteText(i)
           \/ Scraping!FollowLink(i) \/ Scraping!VisitLink(i) \/ Scraping!EndVisit(i)
    PROVE  Scraping!PiecesInv'
<1> DEFINE old == visits[i]
           new == visits'[i]
<1>1. /\ siteData \in Seq(Scraping!Pieces) /\ scrapedLinks \subseteq Scraping!Pages
      /\ \A k \in DOMAIN siteData : siteData[k] \in Scraping!Pieces
      /\ \A k \in DOMAIN siteData :
            siteData[k].what # "error" => siteData[k].page \in scrapedLinks
      /\ \A k, m \in DOMAIN siteData :
            siteData[k] = siteData[m] /\ siteData[k].what # "error" => k = m
      /\ \A j \in DOMAIN visits : visits[j].step = "text" =>
            /\ visits[j].page \in scrapedLinks
            /\ \A k \in DOMAIN siteData :
                  siteData[k] # [page |-> visits[j].page, what |-> "text"]
            /\ \A n \in DOMAIN visits :
                  visits[n].step = "text" /\ visits[n].page = visits[j].page => n = j
  BY ElementOfSeq, LenProperties DEF Scraping!IInv, Scraping!PiecesInv
<1>2. /\ old.page \in Scraping!Pages /\ new.page = old.page
      /\ \A j \in DOMAIN visits' : visits'[j].step = "text" =>
            j \in DOMAIN visits /\ (j # i => visits'[j] = visits[j])
  BY VisitFacts DEF VisitRecords
<1>3. CASE /\ old.step = "html" /\ new.step = "text" /\ old.page \notin scrapedLinks
           /\ scrapedLinks' = scrapedLinks \cup {old.page} /\ Written(old.page, "url")
  <2> HIDE DEF old, new
  <2>1. /\ siteData' \in Seq(Scraping!Pieces)
        /\ DOMAIN siteData \subseteq DOMAIN siteData'
        /\ \A k \in DOMAIN siteData : siteData'[k] = siteData[k]
        /\ \A k, m \in DOMAIN siteData' \ DOMAIN siteData : k = m
        /\ \A k \in DOMAIN siteData' \ DOMAIN siteData :
              siteData'[k] = [page |-> old.page, what |-> "url"]
    BY <1>1, <1>2, <1>3, WrittenIs
  <2>2. \A k \in DOMAIN siteData' :
            siteData'[k].what # "error" => siteData'[k].page \in scrapedLinks'
    BY <1>1, <1>3, <2>1
  <2>3. \A k, m \in DOMAIN siteData' :
            siteData'[k] = siteData'[m] /\ siteData'[k].what # "error" => k = m
    <3>1. \A k \in DOMAIN siteData : siteData[k] # [page |-> old.page, what |-> "url"]
      BY <1>1, <1>3
    <3> QED BY <1>1, <2>1, <3>1
  <2>4. \A j \in DOMAIN visits' : visits'[j].step = "text" =>
            /\ visits'[j].page \in scrapedLinks'
            /\ \A k \in DOMAIN siteData' :
                  siteData'[k] # [page |-> visits'[j].page, what |-> "text"]
            /\ \A n \in DOMAIN visits' :
                  visits'[n].step = "text" /\ visits'[n].page = visits'[j].page => n = j
    <3> SUFFICES ASSUME NEW j \in DOMAIN visits', visits'[j].step = "text"
                 PROVE  /\ visits'[j].page \in scrapedLinks'
                        /\ \A k \in DOMAIN siteData' :
                              siteData'[k] # [page |-> visits'[j].page, what |-> "text"]
                        /\ \A n \in DOMAIN visits' : visits'[n].step = "text"
                              /\ visits'[n].page = visits'[j].page => n = j
      OBVIOUS
    <3>1. \A k \in DOMAIN siteData' \ DOMAIN siteData : siteData'[k].what = "url"
      BY <2>1
    <3>2. CASE j = i
      <4>1. /\ visits'[j].page = old.page /\ old.page \in scrapedLinks'
        BY <1>2, <1>3, <3>2 DEF old, new
      <4>2. \A k \in DOMAIN siteData : siteData[k].what = "text" => siteData[k].page # old.page
        BY <1>1, <1>3
      <4>3. \A n \in DOMAIN visits' : n # i /\ visits'[n].step = "text" =>
                visits'[n].page # old.page
        BY <1>1, <1>2, <1>3
      <4>4. \A k \in DOMAIN siteData' :
                siteData'[k] # [page |-> visits'[j].page, what |-> "text"]
        BY <2>1, <3>1, <4>1, <4>2
      <4> QED BY <3>2, <4>1, <4>3, <4>4
    <3>3. CASE j # i
      <4>1. visits'[j] = visits[j] /\ j \in DOMAIN visits /\ visits[j].step = "text"
        BY <1>2, <3>3
      <4>2. visits[j].page # old.page /\ visits[j].page \in scrapedLinks'
        BY <1>1, <1>3, <4>1
      <4>3. \A n \in DOMAIN visits' : visits'[n].step = "text"
                /\ visits'[n].page = visits'[j].page => n = j
        BY <1>1, <1>2, <4>1, <4>2 DEF old, new
      <4>4. \A k \in DOMAIN siteData' :
                siteData'[k] # [page |-> visits'[j].page, what |-> "text"]
        BY <1>1, <2>1, <3>1, <4>1
      <4> QED BY <4>1, <4>2, <4>3, <4>4
    <3> QED BY <3>2, <3>3
  <2>5. scrapedLinks' \subseteq Scraping!Pages
    BY <1>1, <1>2, <1>3
  <2> QED BY <2>1, <2>2, <2>3, <2>4, <2>5 DEF Scraping!PiecesInv
<1>4. CASE /\ old.step = "text" /\ new.step # "text" /\ UNCHANGED scrapedLinks
           /\ Written(old.page, "text")
  <2>0. /\ old.page \in scrapedLinks
        /\ \A k \in DOMAIN siteData : siteData[k] # [page |-> old.page, what |-> "text"]
        /\ \A n \in DOMAIN visits :
              visits[n].step = "text" /\ visits[n].page = old.page => n = i
    BY <1>1, <1>4
  <2>6. \A j \in DOMAIN visits' : visits'[j].step = "text" =>
            j \in DOMAIN visits /\ j # i /\ visits'[j] = visits[j] /\ visits[j].page # old.page
    BY <1>2, <1>4, <2>0
  <2> HIDE DEF old, new
  <2>1. /\ siteData' \in Seq(Scraping!Pieces)
        /\ DOMAIN siteData \subseteq DOMAIN siteData'
        /\ \A k \in DOMAIN siteData : siteData'[k] = siteData[k]
        /\ \A k, m \in DOMAIN siteData' \ DOMAIN siteData : k = m
        /\ \A k \in DOMAIN siteData' \ DOMAIN siteData :
              siteData'[k] = [page |-> old.page, what |-> "text"]
    BY <1>1, <1>2, <1>4, WrittenIs
  <2>2. \A k \in DOMAIN siteData' :
            siteData'[k].what # "error" => siteData'[k].page \in scrapedLinks'
    BY <1>1, <1>4, <2>0, <2>1
  <2>3. \A k, m \in DOMAIN siteData' :
            siteData'[k] = siteData'[m] /\ siteData'[k].what # "error" => k = m
    BY <1>1, <2>0, <2>1
  <2>4. \A j \in DOMAIN visits' : visits'[j].step = "text" =>
            /\ visits'[j].page \in scrapedLinks'
            /\ \A k \in DOMAIN siteData' :
                  siteData'[k] # [page |-> visits'[j].page, what |-> "text"]
            /\ \A n \in DOMAIN visits' :
                  visits'[n].step = "text" /\ visits'[n].page = visits'[j].page => n = j
    <3> SUFFICES ASSUME NEW j \in DOMAIN visits', visits'[j].step = "text"
                 PROVE  /\ visits'[j].page \in scrapedLinks'
                        /\ \A k \in DOMAIN siteData' :
                              siteData'[k] # [page |-> visits'[j].page, what |-> "text"]
                        /\ \A n \in DOMAIN visits' : visits'[n].step = "text"
                              /\ visits'[n].page = visits'[j].page => n = j
      OBVIOUS
    <3>1. /\ j \in DOMAIN visits /\ visits'[j] = visits[j] /\ visits[j].page # old.page
          /\ visits[j].step = "text"
      BY <2>6
    <3>2. \A k \in DOMAIN siteData' \ DOMAIN siteData : siteData'[k].page = old.page
      BY <2>1
    <3>3. \A k \in DOMAIN siteData' :
              siteData'[k] # [page |-> visits'[j].page, what |-> "text"]
      BY <1>1, <2>1, <3>1, <3>2
    <3>4. \A n \in DOMAIN visits' : visits'[n].step = "text"
              /\ visits'[n].page = visits'[j].page => n = j
      BY <1>1, <2>6, <3>1
    <3> QED BY <1>1, <1>4, <3>1, <3>3, <3>4
  <2> QED BY <1>1, <1>4, <2>1, <2>2, <2>3, <2>4 DEF Scraping!PiecesInv
<1>5. CASE /\ old.step # "text" /\ new.step # "text" /\ UNCHANGED scrapedLinks
           /\ \/ UNCHANGED siteData
              \/ \E page \in Scraping!Pages : Written(page, "error")
  <2>6. \A j \in DOMAIN visits' : visits'[j].step = "text" =>
            j \in DOMAIN visits /\ visits'[j] = visits[j]
    BY <1>2, <1>5
  <2> HIDE DEF old, new
  <2>1. /\ siteData' \in Seq(Scraping!Pieces)
        /\ DOMAIN siteData \subseteq DOMAIN siteData'
        /\ \A k \in DOMAIN siteData : siteData'[k] = siteData[k]
        /\ \A k \in DOMAIN siteData' \ DOMAIN siteData : siteData'[k].what = "error"
    <3>1. CASE UNCHANGED siteData
      BY <1>1, <3>1
    <3>2. CASE \E page \in Scraping!Pages : Written(page, "error")
      <4>1. PICK page \in Scraping!Pages : Written(page, "error")
        BY <3>2
      <4>2. /\ siteData' \in Seq(Scraping!Pieces)
            /\ DOMAIN siteData \subseteq DOMAIN siteData'
            /\ \A k \in DOMAIN siteData : siteData'[k] = siteData[k]
            /\ \A k \in DOMAIN siteData' \ DOMAIN siteData :
                  siteData'[k] = [page |-> page, what |-> "error"]
        BY <1>1, <4>1, WrittenIs
      <4> QED BY <4>2
    <3> QED BY <1>5, <3>1, <3>2
  <2>2. \A k \in DOMAIN siteData' :
            siteData'[k].what # "error" => siteData'[k].page \in scrapedLinks'
    BY <1>1, <1>5, <2>1
  <2>3. \A k, m \in DOMAIN siteData' :
            siteData'[k] = siteData'[m] /\ siteData'[k].what # "error" => k = m
    BY <1>1, <2>1
  <2>4. \A j \in DOMAIN visits' : visits'[j].step = "text" =>
            /\ visits'[j].page \in scrapedLinks'
            /\ \A k \in DOMAIN siteData' :
                  siteData'[k] # [page |-> visits'[j].page, what |-> "text"]
            /\ \A n \in DOMAIN visits' :
                  visits'[n].step = "text" /\ visits'[n].page = visits'[j].page => n = j
    BY <1>1, <1>5, <2>1, <2>6
  <2> QED BY <1>1, <1>5, <2>1, <2>2, <2>3, <2>4 DEF Scraping!PiecesInv
<1> HIDE DEF old, new
<1>6. \/ /\ old.step = "html" /\ new.step = "text" /\ old.page \notin scrapedLinks
         /\ scrapedLinks' = scrapedLinks \cup {old.page} /\ Written(old.page, "url")
      \/ /\ old.step = "text" /\ new.step # "text" /\ UNCHANGED scrapedLinks
         /\ Written(old.page, "text")
      \/ /\ old.step # "text" /\ new.step # "text" /\ UNCHANGED scrapedLinks
         /\ \/ UNCHANGED siteData
            \/ \E page \in Scraping!Pages : Written(page, "error")
  BY VisitTells DEF old, new
<1> QED BY <1>3, <1>4, <1>5, <1>6

(* Without goroutines only the last visit that has not ended takes a step, *)
(* so that nothing is written between an address and its text.             *)
LEMMA PlaceStep ==
    ASSUME Scraping!IInv, NEW i \in DOMAIN visits,
           \/ Scraping!Fetch(i) \/ Scraping!OnHTML(i) \/ Scraping!WriteText(i)
           \/ Scraping!FollowLink(i) \/ Scraping!VisitLink(i) \/ Scraping!EndVisit(i)
    PROVE  Scraping!PlaceInv'
<1> DEFINE old == visits[i]
           new == visits'[i]
<1> SUFFICES ASSUME ~Async, ~Async'
             PROVE  Scraping!PlaceInv'
  BY VisitFacts DEF Scraping!PlaceInv
<1>1. /\ siteData \in Seq(Scraping!Pieces)
      /\ Len(siteData) \in Nat /\ DOMAIN siteData = 1..Len(siteData)
      /\ \A k \in DOMAIN siteData : siteData[k].what = "text" =>
            k > 1 /\ siteData[k - 1] = [siteData[k] EXCEPT !.what = "url"]
      /\ \A j \in DOMAIN visits : visits[j].step = "text" =>
            /\ \A k \in DOMAIN visits : k > j => Scraping!Done(k)
            /\ siteData # <<>>
            /\ siteData[Len(siteData)] = [page |-> visits[j].page, what |-> "url"]
  BY LenProperties DEF Scraping!IInv, Scraping!PiecesInv, Scraping!PlaceInv,
     Scraping!TextUnderAddress
<1>2. /\ old.page \in Scraping!Pages /\ new.page = old.page
      /\ DOMAIN visits = 1..Len(visits) /\ Len(visits) \in Nat
      /\ \A j \in DOMAIN visits' : visits'[j].step = "text" =>
            j \in DOMAIN visits /\ (j # i => visits'[j] = visits[j])
      /\ \A k \in DOMAIN visits : k > i => Scraping!Done(k)
      /\ ~Scraping!Done(i)
  <2>1. Scraping!Runs(i) /\ ~Scraping!Done(i)
    BY VisitFacts
  <2>2. /\ old \in VisitRecords /\ new.page = old.page
        /\ DOMAIN visits = 1..Len(visits) /\ Len(visits) \in Nat
        /\ \A j \in DOMAIN visits' : visits'[j].step = "text" =>
              j \in DOMAIN visits /\ (j # i => visits'[j] = visits[j])
    BY VisitFacts
  <2>3. \A k \in DOMAIN visits : k > i => Scraping!Done(k)
    BY <2>1 DEF Scraping!Runs
  <2>4. old.page \in Scraping!Pages
    BY <2>2 DEF VisitRecords
  <2> HIDE DEF old, new
  <2> QED BY <2>1, <2>2, <2>3, <2>4
<1>3. \A j \in DOMAIN visits : visits[j].step = "text" => j = i
  <2> SUFFICES ASSUME NEW j \in DOMAIN visits, visits[j].step = "text" PROVE j = i
    OBVIOUS
  <2>1. ~Scraping!Done(j)
    BY DEF Scraping!Done
  <2>2. ~(j > i)
    BY <1>2, <2>1
  <2>3. ~(i > j)
    BY <1>1, <1>2
  <2>4. i \in Nat /\ j \in Nat
    BY <1>2
  <2> QED BY <2>2, <2>3, <2>4
<1>4. \A j \in DOMAIN visits' : visits'[j].step = "text" => j = i /\ new.step = "text"
  BY <1>2, <1>3
<1> HIDE DEF old, new
<1>5. CASE /\ old.step = "html" /\ new.step = "text" /\ Written(old.page, "url")
           /\ DOMAIN visits' = DOMAIN visits
  <2>1. /\ DOMAIN siteData \subseteq DOMAIN siteData'
        /\ \A k \in DOMAIN siteData : siteData'[k] = siteData[k]
        /\ \A k \in DOMAIN siteData' \ DOMAIN siteData :
              siteData'[k] = [page |-> old.page, what |-> "url"]
        /\ siteData' # <<>> /\ Len(siteData') \in DOMAIN siteData' \ DOMAIN siteData
    BY <1>1, <1>2, <1>5, WrittenIs
  <2>2. Scraping!TextUnderAddress'
    BY <1>1, <2>1 DEF Scraping!TextUnderAddress
  <2>3. \A k \in DOMAIN visits' : k > i => Scraping!Done(k)'
    <3> SUFFICES ASSUME NEW k \in DOMAIN visits', k > i PROVE Scraping!Done(k)'
      OBVIOUS
    <3>1. k \in DOMAIN visits /\ k # i
      BY <1>2, <1>5
    <3>2. visits'[k] = visits[k]
      BY <3>1, VisitFacts
    <3> QED BY <1>2, <3>1, <3>2 DEF Scraping!Done
  <2> QED BY <1>2, <1>4, <2>1, <2>2, <2>3 DEF Scraping!PlaceInv, old, new
<1>6. CASE old.step = "text" /\ new.step # "text" /\ Written(old.page, "text")
  <2>1. /\ DOMAIN siteData \subseteq DOMAIN siteData'
        /\ \A k \in DOMAIN siteData : siteData'[k] = siteData[k]
        /\ \A k \in DOMAIN siteData' \ DOMAIN siteData :
              siteData'[k] = [page |-> old.page, what |-> "text"] /\ k = Len(siteData) + 1
    BY <1>1, <1>2, <1>6, WrittenIs
  <2>2. siteData # <<>> /\ siteData[Len(siteData)] = [page |-> old.page, what |-> "url"]
    BY <1>1, <1>6 DEF old
  <2>3. Len(siteData) > 0 /\ Len(siteData) \in DOMAIN siteData
    BY <1>1, <2>2, EmptySeq, LenProperties
  <2>4. Scraping!TextUnderAddress'
    <3> SUFFICES ASSUME NEW k \in DOMAIN siteData', siteData'[k].what = "text"
                 PROVE  k > 1 /\ siteData'[k - 1] = [siteData'[k] EXCEPT !.what = "url"]
      BY DEF Scraping!TextUnderAddress
    <3>1. CASE k \in DOMAIN siteData
      <4>1. k > 1 /\ siteData[k - 1] = [siteData[k] EXCEPT !.what = "url"]
        BY <1>1, <2>1, <3>1
      <4>2. k - 1 \in DOMAIN siteData
        BY <1>1, <3>1, <4>1
      <4> QED BY <2>1, <3>1, <4>1, <4>2
    <3>2. CASE k \notin DOMAIN siteData
      <4>1. k = Len(siteData) + 1 /\ siteData'[k] = [page |-> old.page, what |-> "text"]
        BY <2>1, <3>2
      <4>2. k - 1 = Len(siteData)
        BY <1>1, <4>1
      <4>3. [siteData'[k] EXCEPT !.what = "url"] = [page |-> old.page, what |-> "url"]
        BY <4>1
      <4> QED BY <1>1, <2>1, <2>2, <2>3, <4>1, <4>2, <4>3
    <3> QED BY <3>1, <3>2
  <2> QED BY <1>4, <1>6, <2>4 DEF Scraping!PlaceInv
<1>7. CASE /\ new.step # "text"
           /\ \/ UNCHANGED siteData
              \/ \E page \in Scraping!Pages : Written(page, "error")
  <2>1. /\ DOMAIN siteData \subseteq DOMAIN siteData'
        /\ \A k \in DOMAIN siteData : siteData'[k] = siteData[k]
        /\ \A k \in DOMAIN siteData' \ DOMAIN siteData : siteData'[k].what = "error"
    <3>1. CASE UNCHANGED siteData
      BY <1>1, <3>1
    <3>2. CASE \E page \in Scraping!Pages : Written(page, "error")
      <4>1. PICK page \in Scraping!Pages : Written(page, "error")
        BY <3>2
      <4>2. /\ DOMAIN siteData \subseteq DOMAIN siteData'
            /\ \A k \in DOMAIN siteData : siteData'[k] = siteData[k]
            /\ \A k \in DOMAIN siteData' \ DOMAIN siteData :
                  siteData'[k] = [page |-> page, what |-> "error"]
        BY <1>1, <4>1, WrittenIs
      <4> QED BY <4>2
    <3> QED BY <1>7, <3>1, <3>2
  <2>2. Scraping!TextUnderAddress'
    BY <1>1, <2>1 DEF Scraping!TextUnderAddress
  <2> QED BY <1>4, <1>7, <2>2 DEF Scraping!PlaceInv
<1>8. \/ /\ old.step = "html" /\ new.step = "text" /\ Written(old.page, "url")
         /\ DOMAIN visits' = DOMAIN visits
      \/ old.step = "text" /\ new.step # "text" /\ Written(old.page, "text")
      \/ /\ new.step # "text"
         /\ \/ UNCHANGED siteData
            \/ \E page \in Scraping!Pages : Written(page, "error")
  BY VisitTells DEF old, new
<1> QED BY <1>5, <1>6, <1>7, <1>8

(* What a step of a visit does to its links and to the visited pages: most *)
(* leave both alone; a link that is not followed is dropped; one that is   *)
(* begins a visit of its own.                                              *)
LEMMA VisitReads ==
    ASSUME Scraping!IInv, NEW i \in DOMAIN visits,
           \/ Scraping!Fetch(i) \/ Scraping!OnHTML(i) \/ Scraping!WriteText(i)
           \/ Scraping!FollowLink(i) \/ Scraping!VisitLink(i) \/ Scraping!EndVisit(i)
    PROVE  LET old == visits[i]
               new == visits'[i]
               link == Head(old.links)
           IN /\ new.step = "done" =>
                    new.failed \/ canceled \/ (old.step = "follow" /\ new.links = <<>>)
              /\ new.step \in {"text", "follow", "visit"} =>
                    old.step \in {"text", "follow", "visit"} \/ old.page \in scrapedLinks'
              /\ \/ /\ DOMAIN visits' = DOMAIN visits /\ UNCHANGED visited
                    /\ new.links = old.links
                 \/ /\ DOMAIN visits' = DOMAIN visits /\ UNCHANGED visited
                    /\ old.links # <<>> /\ new.links = Tail(old.links)
                    /\ Scraping!Follows(link) => Scraping!Normal(link) \in visited \cup scrapedLinks
                 \/ /\ visits' = Append(Scraping!Rest(i, "follow"),
                                        Scraping!Begun(Scraping!Normal(link)))
                    /\ visited' = visited \cup {Scraping!Normal(link)}
                    /\ old.links # <<>> /\ new.links = Tail(old.links)
                    /\ Scraping!Normal(link) \in Scraping!Pages
<1> DEFINE old == visits[i]
           new == visits'[i]
           link == Head(old.links)
<1>1. visits \in Seq(VisitRecords) /\ old \in VisitRecords
  BY VisitFacts
<1>2. new.step \in {"text", "follow", "visit"} =>
          old.step \in {"text", "follow", "visit"} \/ old.page \in scrapedLinks'
  BY VisitFacts
<1>3. CASE Scraping!Fetch(i)
  <2>1. CASE Scraping!Becomes(i, "done") /\ canceled
    BY <1>1, <1>2, <1>3, <2>1, VisitMoves DEF Scraping!Fetch
  <2>2. CASE Scraping!Becomes(i, "html")
    BY <1>1, <1>2, <1>3, <2>2, VisitMoves DEF Scraping!Fetch
  <2>3. CASE visits' = [visits EXCEPT ![i].step = "done", ![i].failed = TRUE]
    <3> DEFINE v == [visits[i] EXCEPT !.step = "done", !.failed = TRUE]
    <3>1. v \in VisitRecords /\ v.failed = TRUE /\ v.links = old.links
      BY <1>1 DEF VisitRecords
    <3>2. visits' = [visits EXCEPT ![i] = v]
      BY <1>1, <2>3 DEF VisitRecords
    <3> HIDE DEF v
    <3>3. DOMAIN visits' = DOMAIN visits /\ visits'[i] = v
      BY <1>1, <3>1, <3>2, VisitChanged
    <3>4. UNCHANGED visited
      BY <1>3 DEF Scraping!Fetch
    <3> QED BY <1>2, <3>1, <3>3, <3>4
  <2> QED BY <1>3, <2>1, <2>2, <2>3 DEF Scraping!Fetch
<1>4. CASE Scraping!OnHTML(i)
  <2>1. CASE Scraping!Becomes(i, "follow")
    BY <1>1, <1>2, <1>4, <2>1, VisitMoves DEF Scraping!OnHTML
  <2>2. CASE Scraping!Becomes(i, "text")
    BY <1>1, <1>2, <1>4, <2>2, VisitMoves DEF Scraping!OnHTML
  <2> QED BY <1>4, <2>1, <2>2 DEF Scraping!OnHTML
<1>5. CASE Scraping!WriteText(i)
  BY <1>1, <1>2, <1>5, VisitMoves DEF Scraping!WriteText
<1>6. CASE Scraping!FollowLink(i)
  <2>1. old.step = "follow" /\ old.links # <<>> /\ UNCHANGED visited
    BY <1>6 DEF Scraping!FollowLink
  <2>2. CASE /\ visits' = Scraping!Rest(i, "follow")
             /\ \/ ~Scraping!Follows(Scraping!Normal(link))
                \/ Scraping!Normal(link) \in visited \cup scrapedLinks
    <3>1. /\ DOMAIN visits' = DOMAIN visits /\ new.step = "follow"
          /\ new.links = Tail(old.links)
      BY <1>1, <2>1, <2>2, RestMoves
    <3>2. Scraping!Follows(link) => Scraping!Follows(Scraping!Normal(link))
      BY DEF Scraping!Follows, Scraping!Normal
    <3> QED BY <1>2, <2>1, <2>2, <3>1, <3>2
  <2>3. CASE Scraping!Becomes(i, "visit")
    BY <1>1, <1>2, <2>1, <2>3, VisitMoves
  <2> QED BY <1>6, <2>2, <2>3 DEF Scraping!FollowLink
<1>7. CASE Scraping!VisitLink(i)
  <2> DEFINE target == Scraping!Normal(link)
  <2>1. old.step = "visit" /\ old.links # <<>> /\ target \in Scraping!Pages
    BY <1>7 DEF Scraping!VisitLink, Scraping!IInv, Scraping!VisitInv
  <2>2. Scraping!Begun(target) \in VisitRecords
    BY <2>1, BegunIs DEF Scraping!IInv, Scraping!VisitInv
  <2>3. /\ visits' = Append(Scraping!Rest(i, "follow"), Scraping!Begun(target))
        /\ visited' = visited \cup {target}
    BY <1>7 DEF Scraping!VisitLink
  <2>4. new = Scraping!Rest(i, "follow")[i]
    <3> HIDE DEF target
    <3> QED BY <1>1, <2>1, <2>2, <2>3, RestMoves, AppendProperties, LenProperties
  <2>5. new.step = "follow" /\ new.links = Tail(old.links)
    BY <1>1, <2>1, <2>4, RestMoves
  <2> QED BY <1>2, <2>1, <2>3, <2>5
<1>8. CASE Scraping!EndVisit(i)
  BY <1>1, <1>2, <1>8, VisitMoves DEF Scraping!EndVisit
<1> QED BY <1>3, <1>4, <1>5, <1>6, <1>7, <1>8

(* The links of a page that are not followed yet, less the first.          *)
LEMMA LinksLeft ==
    ASSUME NEW s \in Seq(Scraping!Targets), s # <<>>
    PROVE  /\ Scraping!Range(Tail(s)) \subseteq Scraping!Range(s)
           /\ \A t \in Scraping!Range(s) : t \in Scraping!Range(Tail(s)) \/ t = Head(s)
           /\ Head(s) \in Scraping!Range(s)
<1>1. /\ Len(s) \in Nat \ {0} /\ DOMAIN s = 1..Len(s) /\ Head(s) = s[1]
      /\ Tail(s) \in Seq(Scraping!Targets) /\ Len(Tail(s)) = Len(s) - 1
      /\ DOMAIN Tail(s) = 1..(Len(s) - 1)
      /\ \A k \in 1..(Len(s) - 1) : Tail(s)[k] = s[k + 1]
  BY HeadTailProperties, LenProperties, EmptySeq
<1>2. \A k \in DOMAIN Tail(s) : k + 1 \in DOMAIN s /\ Tail(s)[k] = s[k + 1]
  BY <1>1
<1>3. \A k \in DOMAIN s : k = 1 \/ (k - 1 \in DOMAIN Tail(s) /\ Tail(s)[k - 1] = s[k])
  <2> SUFFICES ASSUME NEW k \in DOMAIN s, k # 1
               PROVE  k - 1 \in DOMAIN Tail(s) /\ Tail(s)[k - 1] = s[k]
    OBVIOUS
  <2>1. k - 1 \in 1..(Len(s) - 1) /\ (k - 1) + 1 = k
    BY <1>1
  <2> QED BY <1>1, <2>1
<1>4. Scraping!Range(Tail(s)) \subseteq Scraping!Range(s)
  BY <1>2 DEF Scraping!Range
<1>5. ASSUME NEW t \in Scraping!Range(s)
      PROVE  t \in Scraping!Range(Tail(s)) \/ t = Head(s)
  <2>1. PICK k \in DOMAIN s : t = s[k]
    BY DEF Scraping!Range
  <2>2. CASE k = 1
    BY <1>1, <2>1, <2>2
  <2>3. CASE k # 1
    BY <1>3, <2>1, <2>3 DEF Scraping!Range
  <2> QED BY <2>2, <2>3
<1>6. Head(s) \in Scraping!Range(s)
  BY <1>1 DEF Scraping!Range
<1> QED BY <1>4, <1>5, <1>6

\* What is known of the reading of a visit, of its page and links.
Reading(v) ==
    /\ v.page \in Scraping!Reached /\ Scraping!Range(v.links) \subseteq Scraping!Range(site[v.page])
    /\ \A t \in Scraping!Range(site[v.page]) : Scraping!Follows(t) =>
          t \in Scraping!Range(v.links) \/ Scraping!Normal(t) \in visited
    /\ v.step \in {"text", "follow", "visit"} => v.page \in scrapedLinks
    /\ v.step = "done" => v.failed \/ canceled \/ (v.page \in scrapedLinks /\ v.links = <<>>)

(* What is to be followed still is among the links of the visits.          *)
LEMMA ReadStep ==
    ASSUME Scraping!IInv, NEW i \in DOMAIN visits,
           \/ Scraping!Fetch(i) \/ Scraping!OnHTML(i) \/ Scraping!WriteText(i)
           \/ Scraping!FollowLink(i) \/ Scraping!VisitLink(i) \/ Scraping!EndVisit(i)
    PROVE  Scraping!ReadInv'
<1> DEFINE old == visits[i]
           new == visits'[i]
           link == Head(old.links)
<1>1. /\ scrapedLinks \subseteq visited /\ visited = {visits[k].page : k \in DOMAIN visits}
      /\ \A k \in DOMAIN visits : Reading(visits[k])
      /\ site \in Scraping!Sites
  BY DEF Scraping!IInv, Scraping!ReadInv, Reading, Scraping!VisitInv
<1>2. /\ visits \in Seq(VisitRecords) /\ old \in VisitRecords
      /\ old.page \in Scraping!Pages /\ old.links \in Seq(Scraping!Targets)
      /\ UNCHANGED <<site, canceled>> /\ scrapedLinks \subseteq scrapedLinks'
      /\ \A k \in DOMAIN visits : k # i => visits'[k] = visits[k]
      /\ new.page = old.page /\ DOMAIN visits \subseteq DOMAIN visits'
  <2>1. /\ visits \in Seq(VisitRecords) /\ old \in VisitRecords
        /\ UNCHANGED <<site, canceled>> /\ scrapedLinks \subseteq scrapedLinks'
        /\ \A k \in DOMAIN visits : k # i => visits'[k] = visits[k]
        /\ new.page = old.page /\ DOMAIN visits \subseteq DOMAIN visits'
    BY VisitFacts
  <2> QED BY <2>1 DEF VisitRecords
<1>3. /\ new.step = "done" =>
            new.failed \/ canceled \/ (old.step = "follow" /\ new.links = <<>>)
      /\ new.step \in {"text", "follow", "visit"} =>
            old.step \in {"text", "follow", "visit"} \/ old.page \in scrapedLinks'
      /\ \/ /\ DOMAIN visits' = DOMAIN visits /\ UNCHANGED visited
            /\ new.links = old.links
         \/ /\ DOMAIN visits' = DOMAIN visits /\ UNCHANGED visited
            /\ old.links # <<>> /\ new.links = Tail(old.links)
            /\ Scraping!Follows(link) => Scraping!Normal(link) \in visited \cup scrapedLinks
         \/ /\ visits' = Append(Scraping!Rest(i, "follow"), Scraping!Begun(Scraping!Normal(link)))
            /\ visited' = visited \cup {Scraping!Normal(link)}
            /\ old.links # <<>> /\ new.links = Tail(old.links)
            /\ Scraping!Normal(link) \in Scraping!Pages
  BY VisitReads
<1>4. scrapedLinks' \subseteq scrapedLinks \cup {old.page}
  BY VisitTells
<1>5. old.page \in visited /\ scrapedLinks' \subseteq visited /\ visited \subseteq visited'
  BY <1>1, <1>3, <1>4
<1>6. Reading(old)
  BY <1>1
<1> HIDE DEF new, old, link
<1>7. Scraping!Reached' = Scraping!Reached
  BY <1>2 DEF Scraping!Reached, Scraping!Linked
<1>8. Reading(visits[i])'
  <2>1. /\ new.page \in Scraping!Reached
        /\ Scraping!Range(new.links) \subseteq Scraping!Range(site[new.page])
        /\ \A t \in Scraping!Range(site[new.page]) : Scraping!Follows(t) =>
              t \in Scraping!Range(new.links) \/ Scraping!Normal(t) \in visited'
    <3>1. CASE new.links = old.links
      BY <1>2, <1>5, <1>6, <3>1 DEF Reading
    <3>2. CASE /\ old.links # <<>> /\ new.links = Tail(old.links)
               /\ Scraping!Follows(link) => Scraping!Normal(link) \in visited'
      <4>1. /\ Scraping!Range(Tail(old.links)) \subseteq Scraping!Range(old.links)
            /\ \A t \in Scraping!Range(old.links) :
                  t \in Scraping!Range(Tail(old.links)) \/ t = link
        BY <1>2, <3>2, LinksLeft DEF link
      <4> QED BY <1>2, <1>5, <1>6, <3>2, <4>1 DEF Reading
    <3> QED BY <1>1, <1>3, <1>5, <3>1, <3>2
  <2>2. new.step \in {"text", "follow", "visit"} => new.page \in scrapedLinks'
    BY <1>2, <1>3, <1>6 DEF Reading
  <2>3. new.step = "done" =>
            new.failed \/ canceled \/ (new.page \in scrapedLinks' /\ new.links = <<>>)
    BY <1>2, <1>3, <1>6 DEF Reading
  <2> QED BY <1>2, <1>7, <2>1, <2>2, <2>3 DEF Reading, new
<1>9. \A k \in DOMAIN visits : k # i => Reading(visits[k])'
  BY <1>1, <1>2, <1>5, <1>7 DEF Reading
<1>10. CASE DOMAIN visits' = DOMAIN visits /\ UNCHANGED visited
  <2>1. \A k \in DOMAIN visits' : Reading(visits[k])'
    BY <1>8, <1>9, <1>10
  <2>2. \A k \in DOMAIN visits : visits'[k].page = visits[k].page
    BY <1>2 DEF new, old
  <2>3. visited' = {visits'[k].page : k \in DOMAIN visits'}
    BY <1>1, <1>10, <2>2
  <2>4. scrapedLinks' \subseteq visited'
    BY <1>5
  <2> QED BY <2>1, <2>3, <2>4 DEF Scraping!ReadInv, Reading
<1>11. CASE /\ visits' = Append(Scraping!Rest(i, "follow"), Scraping!Begun(Scraping!Normal(link)))
            /\ visited' = visited \cup {Scraping!Normal(link)}
            /\ old.links # <<>> /\ Scraping!Normal(link) \in Scraping!Pages
  <2> DEFINE target == Scraping!Normal(link)
  <2>1. target \in Scraping!Reached
    <3>1. link \in Scraping!Range(site[old.page])
      BY <1>2, <1>6, <1>11, LinksLeft DEF Reading, link
    <3>2. Scraping!Follows(link)
      BY <1>11 DEF Scraping!Normal, Scraping!Follows, Scraping!Pages
    <3>3. target \in Scraping!Linked(Scraping!Reached)
      BY <1>1, <1>6, <3>1, <3>2, LinkedIs DEF Reading
    <3> QED BY <1>1, <3>3, ReachedIs
  <2>2. /\ Scraping!Begun(target) \in VisitRecords
        /\ Scraping!Begun(target).page = target /\ Scraping!Begun(target).step = "fetch"
        /\ Scraping!Begun(target).links = site[target]
    BY <1>1, <1>11, BegunIs DEF Scraping!Begun
  <2>3. visits' = Append(Scraping!Rest(i, "follow"), Scraping!Begun(target))
    BY <1>11
  <2> HIDE DEF target
  <2>4. PICK n \in DOMAIN visits' : /\ DOMAIN visits' = DOMAIN visits \cup {n}
                                    /\ visits'[n] = Scraping!Begun(target)
    <3> DEFINE rest == Scraping!Rest(i, "follow")
    <3>1. /\ rest \in Seq(VisitRecords) /\ DOMAIN rest = DOMAIN visits
      BY <1>2, <1>11, RestMoves DEF old
    <3> HIDE DEF rest
    <3>2. /\ DOMAIN visits' = 1..(Len(rest) + 1) /\ DOMAIN rest = 1..Len(rest)
          /\ visits'[Len(rest) + 1] = Scraping!Begun(target) /\ Len(rest) \in Nat
      BY <2>2, <2>3, <3>1, AppendProperties, LenProperties DEF rest
    <3> QED BY <3>1, <3>2
  <2>5. Reading(visits[n])'
    BY <1>2, <1>7, <2>1, <2>2, <2>4 DEF Reading
  <2>6. \A k \in DOMAIN visits' : Reading(visits[k])'
    BY <1>8, <1>9, <2>4, <2>5
  <2>7. \A k \in DOMAIN visits : visits'[k].page = visits[k].page
    BY <1>2 DEF new, old
  <2>8. visited' = {visits'[k].page : k \in DOMAIN visits'}
    <3>1. visited' = visited \cup {target}
      BY <1>11 DEF target
    <3>2. visits'[n].page = target
      BY <2>2, <2>4
    <3> QED BY <1>1, <2>4, <2>7, <3>1, <3>2
  <2>9. scrapedLinks' \subseteq visited'
    BY <1>5
  <2> QED BY <2>6, <2>8, <2>9 DEF Scraping!ReadInv, Reading
<1> QED BY <1>3, <1>10, <1>11

(* Without goroutines what is to be written is written.                    *)
LEMMA ToldStep ==
    ASSUME Scraping!IInv, NEW i \in DOMAIN visits,
           \/ Scraping!Fetch(i) \/ Scraping!OnHTML(i) \/ Scraping!WriteText(i)
           \/ Scraping!FollowLink(i) \/ Scraping!VisitLink(i) \/ Scraping!EndVisit(i)
    PROVE  Scraping!ToldInv'
<1> DEFINE old == visits[i]
           new == visits'[i]
           Told(p, what) == \E k \in DOMAIN siteData : siteData[k] = [page |-> p, what |-> what]
           ToldNow(p, what) == \E k \in DOMAIN siteData' :
                                   siteData'[k] = [page |-> p, what |-> what]
<1> SUFFICES ASSUME ~Async, ~Async' PROVE Scraping!ToldInv'
  BY VisitFacts DEF Scraping!ToldInv
<1>1. /\ siteData \in Seq(Scraping!Pieces)
      /\ \A p \in scrapedLinks : /\ Told(p, "url")
                                 /\ Told(p, "text") \/ \E k \in DOMAIN visits :
                                       visits[k].step = "text" /\ visits[k].page = p
  BY DEF Scraping!IInv, Scraping!PiecesInv, Scraping!ToldInv
<1>2. /\ old.page \in Scraping!Pages /\ new.page = old.page
      /\ \A k \in DOMAIN visits : k # i => visits'[k] = visits[k]
      /\ DOMAIN visits \subseteq DOMAIN visits'
  <2>1. /\ old \in VisitRecords /\ new.page = old.page
        /\ \A k \in DOMAIN visits : k # i => visits'[k] = visits[k]
        /\ DOMAIN visits \subseteq DOMAIN visits'
    BY VisitFacts
  <2> QED BY <2>1 DEF VisitRecords
<1>3. \/ /\ old.step = "html" /\ new.step = "text" /\ old.page \notin scrapedLinks
         /\ scrapedLinks' = scrapedLinks \cup {old.page} /\ Written(old.page, "url")
      \/ /\ old.step = "text" /\ new.step # "text" /\ UNCHANGED scrapedLinks
         /\ Written(old.page, "text")
      \/ /\ old.step # "text" /\ new.step # "text" /\ UNCHANGED scrapedLinks
         /\ \/ UNCHANGED siteData
            \/ \E page \in Scraping!Pages : Written(page, "error")
  BY VisitTells
<1>4. \A p \in Scraping!Pages : \A what \in {"url", "text", "error"} :
          Written(p, what) =>
              /\ DOMAIN siteData \subseteq DOMAIN siteData'
              /\ \A k \in DOMAIN siteData : siteData'[k] = siteData[k]
              /\ ToldNow(p, what)
  BY <1>1, WrittenIs
<1>5. /\ DOMAIN siteData \subseteq DOMAIN siteData'
      /\ \A k \in DOMAIN siteData : siteData'[k] = siteData[k]
  BY <1>2, <1>3, <1>4
<1>6. \A p, what : Told(p, what) => ToldNow(p, what)
  BY <1>5
<1>7. \A p \in scrapedLinks' :
          /\ ToldNow(p, "url")
          /\ ToldNow(p, "text") \/ \E k \in DOMAIN visits' :
                visits'[k].step = "text" /\ visits'[k].page = p
  <2> SUFFICES ASSUME NEW p \in scrapedLinks'
               PROVE  /\ ToldNow(p, "url")
                      /\ ToldNow(p, "text") \/ \E k \in DOMAIN visits' :
                            visits'[k].step = "text" /\ visits'[k].page = p
    OBVIOUS
  <2> HIDE DEF Told, ToldNow
  <2>1. CASE p \notin scrapedLinks
    <3>1. /\ p = old.page /\ new.step = "text" /\ Written(old.page, "url")
      BY <1>3, <2>1
    <3>2. visits'[i].step = "text" /\ visits'[i].page = p /\ i \in DOMAIN visits'
      BY <1>2, <3>1
    <3> QED BY <1>2, <1>4, <3>1, <3>2
  <2>2. CASE p \in scrapedLinks
    <3>1. ToldNow(p, "url")
      BY <1>1, <1>6, <2>2
    <3>2. CASE Told(p, "text")
      BY <1>6, <3>1, <3>2
    <3>3. CASE \E k \in DOMAIN visits : visits[k].step = "text" /\ visits[k].page = p
      <4>1. PICK k \in DOMAIN visits : visits[k].step = "text" /\ visits[k].page = p
        BY <3>3
      <4>2. CASE k # i
        <5>1. k \in DOMAIN visits' /\ visits'[k].step = "text" /\ visits'[k].page = p
          BY <1>2, <4>1, <4>2
        <5> QED BY <3>1, <5>1
      <4>3. CASE k = i
        <5>1. Written(p, "text") /\ p \in Scraping!Pages
          BY <1>2, <1>3, <4>1, <4>3
        <5> QED BY <1>4, <3>1, <5>1
      <4> QED BY <4>2, <4>3
    <3> QED BY <1>1, <2>2, <3>2, <3>3
  <2> QED BY <2>1, <2>2
<1> QED BY <1>7 DEF Scraping!ToldInv

(* A step of a visit keeps the invariant.                                  *)
LEMMA VisitStep ==
    ASSUME Scraping!IInv, NEW i \in DOMAIN visits,
           \/ Scraping!Fetch(i) \/ Scraping!OnHTML(i) \/ Scraping!WriteText(i)
           \/ Scraping!FollowLink(i) \/ Scraping!VisitLink(i) \/ Scraping!EndVisit(i)
    PROVE  Scraping!IInv'
<1> USE DEF Scraping!IInv
<1> DEFINE old == visits[i]
           new == visits'[i]
<1>1. /\ visits \in Seq(VisitRecords) /\ visits # <<>> /\ old \in VisitRecords
      /\ Len(visits) \in Nat /\ DOMAIN visits = 1..Len(visits) /\ 1 \in DOMAIN visits
  BY VisitFacts
<1>2. /\ ~Scraping!Done(i) /\ Scraping!Runs(i)
      /\ UNCHANGED <<Async, site, canceled, pc, outcome>>
      /\ scrapedLinks \subseteq scrapedLinks'
  BY VisitFacts
<1>3. ~Scraping!AllDone
  BY <1>2 DEF Scraping!AllDone
<1>4. /\ visits' \in Seq(VisitRecords) /\ DOMAIN visits \subseteq DOMAIN visits'
      /\ \A k \in DOMAIN visits : k # i => visits'[k] = visits[k]
      /\ \A k \in DOMAIN visits' : k \notin DOMAIN visits => visits'[k].step = "fetch"
      /\ new.page = old.page
      /\ new.step \in {"text", "follow", "visit"} =>
            old.step \in {"text", "follow", "visit"} \/ old.page \in scrapedLinks'
      /\ new.step = "done" => new.failed \/ canceled \/ old.step = "follow"
      /\ new.failed => new.step = "done" \/ old.failed
      /\ new.step = "visit" =>
            new.links # <<>> /\ Scraping!Normal(Head(new.links)) \in Scraping!Pages
  BY VisitFacts
<1> HIDE DEF old, new
<1>5. Scraping!VisitInv'
  BY <1>1, <1>2, <1>4 DEF Scraping!VisitInv, VisitRecords, old, new
<1>6. Scraping!HomeInv'
  BY <1>1, <1>2, <1>4 DEF Scraping!HomeInv, Scraping!Done, old, new
<1>7. Scraping!ReturnInv' /\ Scraping!VisitsEnded' /\ Scraping!SiteFailureTold'
  BY <1>2, <1>3 DEF Scraping!ReturnInv, Scraping!VisitsEnded, Scraping!SiteFailureTold
<1>8. Scraping!PiecesInv'
  BY PiecesStep
<1>9. Scraping!PlaceInv'
  BY PlaceStep
<1>10. Scraping!ReadInv' /\ Scraping!ToldInv'
  BY ReadStep, ToldStep
<1> QED BY <1>5, <1>6, <1>7, <1>8, <1>9, <1>10

(* So do those of Call, and a cancellation.                                *)
LEMMA CallStep ==
    ASSUME Scraping!IInv, Scraping!AfterVisit \/ Scraping!Wait \/ Scraping!Cancel
    PROVE  Scraping!IInv'
<1> USE DEF Scraping!IInv
<1>1. UNCHANGED <<Async, site, visited, scrapedLinks, visits, siteData>>
  BY DEF Scraping!AfterVisit, Scraping!Wait, Scraping!Cancel
<1>2. 1 \in DOMAIN visits
  BY EmptySeq, LenProperties DEF Scraping!VisitInv, Scraping!HomeInv
<1>3. /\ Scraping!VisitInv' /\ Scraping!HomeInv' /\ Scraping!ReturnInv'
      /\ Scraping!VisitsEnded' /\ Scraping!SiteFailureTold'
  BY <1>1, <1>2 DEF Scraping!AfterVisit, Scraping!Wait, Scraping!Cancel, Scraping!VisitInv,
      Scraping!HomeInv, Scraping!ReturnInv,
         Scraping!VisitsEnded, Scraping!SiteFailureTold, Scraping!AllDone, Scraping!Done
<1>4. Scraping!PiecesInv' /\ Scraping!PlaceInv'
  BY <1>1 DEF Scraping!AfterVisit, Scraping!Wait, Scraping!Cancel, Scraping!PiecesInv,
      Scraping!PlaceInv, Scraping!TextUnderAddress, Scraping!Done
<1>5. Scraping!ToldInv'
  BY <1>1 DEF Scraping!ToldInv, Scraping!AfterVisit, Scraping!Wait, Scraping!Cancel
<1>6. Scraping!ReadInv'
  <2>1. Scraping!Reached' = Scraping!Reached
    BY <1>1 DEF Scraping!Reached, Scraping!Linked
  <2>2. canceled => canceled'
    BY DEF Scraping!AfterVisit, Scraping!Wait, Scraping!Cancel
  <2> QED BY <1>1, <2>1, <2>2 DEF Scraping!ReadInv
<1> QED BY <1>3, <1>4, <1>5, <1>6

(* Every step keeps the invariant.                                         *)
LEMMA SiteSteps ==
    ASSUME Scraping!IInv, [Scraping!Next]_(Scraping!vars)
    PROVE  Scraping!IInv'
<1>1. CASE UNCHANGED Scraping!vars
  <2>1. UNCHANGED <<Async, site, canceled, visited, scrapedLinks, visits, siteData, pc, outcome>>
    BY <1>1 DEF Scraping!vars
  <2>2. Scraping!Reached' = Scraping!Reached
    BY <2>1 DEF Scraping!Reached, Scraping!Linked
  <2>3. /\ Scraping!VisitInv' /\ Scraping!HomeInv' /\ Scraping!ReturnInv'
        /\ Scraping!VisitsEnded' /\ Scraping!SiteFailureTold'
    BY <2>1 DEF Scraping!IInv, Scraping!VisitInv, Scraping!HomeInv, Scraping!ReturnInv,
        Scraping!VisitsEnded, Scraping!SiteFailureTold, Scraping!AllDone, Scraping!Done
  <2>4. Scraping!PiecesInv' /\ Scraping!PlaceInv'
    BY <2>1 DEF Scraping!IInv, Scraping!PiecesInv, Scraping!PlaceInv, Scraping!TextUnderAddress,
        Scraping!Done
  <2>5. Scraping!ReadInv' /\ Scraping!ToldInv'
    BY <2>1, <2>2 DEF Scraping!IInv, Scraping!ReadInv, Scraping!ToldInv
  <2> QED BY <2>3, <2>4, <2>5 DEF Scraping!IInv
<1>2. CASE Scraping!Next
  BY <1>2, VisitStep, CallStep DEF Scraping!Next
<1> QED BY <1>1, <1>2

(* A step of a visit begins one more at most, while there may be more.     *)
LEMMA VisitFits ==
    ASSUME Scraping!IInv, Scraping!SizeInv, MaxVisits \in Nat, NEW i \in DOMAIN visits,
           \/ Scraping!Fetch(i) \/ Scraping!OnHTML(i) \/ Scraping!WriteText(i)
           \/ Scraping!FollowLink(i) \/ Scraping!VisitLink(i) \/ Scraping!EndVisit(i)
    PROVE  Len(visits') <= MaxVisits
<1>1. /\ visits \in Seq(VisitRecords) /\ Len(visits) \in Nat /\ DOMAIN visits = 1..Len(visits)
      /\ visits[i] \in VisitRecords /\ visits' \in Seq(VisitRecords)
      /\ site \in Scraping!Sites
  BY VisitFacts DEF Scraping!IInv, Scraping!VisitInv
<1>2. Len(visits) <= MaxVisits
  BY DEF Scraping!SizeInv
<1>3. ASSUME NEW s \in Seq(VisitRecords), DOMAIN s = DOMAIN visits
      PROVE  Len(s) = Len(visits)
  <2>1. Len(s) \in Nat /\ DOMAIN s = 1..Len(s)
    BY LenProperties
  <2> QED BY <1>1, <1>3, <2>1
<1>4. CASE Scraping!VisitLink(i)
  <2> DEFINE rest == Scraping!Rest(i, "follow")
             target == Scraping!Normal(Head(visits[i].links))
  <2>1. /\ visits[i].step = "visit" /\ visits[i].links # <<>> /\ target \in Scraping!Pages
        /\ visits' = Append(rest, Scraping!Begun(target)) /\ Len(visits) < MaxVisits
    BY <1>4 DEF Scraping!VisitLink, Scraping!IInv, Scraping!VisitInv
  <2>2. rest \in Seq(VisitRecords) /\ DOMAIN rest = DOMAIN visits
    BY <1>1, <2>1, RestMoves
  <2> HIDE DEF rest, target
  <2>3. Len(rest) = Len(visits)
    BY <1>3, <2>2
  <2>4. Scraping!Begun(target) \in VisitRecords
    BY <1>1, <2>1, BegunIs
  <2>5. Len(visits') = Len(rest) + 1
    BY <2>1, <2>2, <2>4, AppendProperties
  <2> QED BY <1>1, <2>1, <2>3, <2>5
<1>5. CASE \E step \in {"done", "html", "follow", "text", "visit"} : Scraping!Becomes(i, step)
  <2>1. DOMAIN visits' = DOMAIN visits
    BY <1>1, <1>5, VisitMoves
  <2> QED BY <1>1, <1>2, <1>3, <2>1
<1>6. CASE visits' = Scraping!Rest(i, "follow") /\ visits[i].links # <<>>
  <2>1. DOMAIN visits' = DOMAIN visits
    BY <1>1, <1>6, RestMoves
  <2> QED BY <1>1, <1>2, <1>3, <2>1
<1>7. CASE visits' = [visits EXCEPT ![i].step = "done", ![i].failed = TRUE]
  <2>1. DOMAIN visits' = DOMAIN visits
    BY <1>7
  <2> QED BY <1>1, <1>2, <1>3, <2>1
<1>8. Scraping!FollowLink(i) =>
          \/ visits' = Scraping!Rest(i, "follow") /\ visits[i].links # <<>>
          \/ Scraping!Becomes(i, "visit")
  BY DEF Scraping!FollowLink
<1>9. Scraping!Fetch(i) =>
          \/ visits' = [visits EXCEPT ![i].step = "done", ![i].failed = TRUE]
          \/ Scraping!Becomes(i, "done") \/ Scraping!Becomes(i, "html")
  BY DEF Scraping!Fetch
<1>10. Scraping!OnHTML(i) \/ Scraping!WriteText(i) \/ Scraping!EndVisit(i) =>
          \E step \in {"follow", "text", "done"} : Scraping!Becomes(i, step)
  BY DEF Scraping!OnHTML, Scraping!WriteText, Scraping!EndVisit
<1> QED BY <1>4, <1>5, <1>6, <1>7, <1>8, <1>9, <1>10

(* So the visits fit, and Call ends in one of its ways.                    *)
LEMMA SiteFits ==
    ASSUME Scraping!IInv, Scraping!SizeInv, MaxVisits \in Nat,
           [Scraping!Next]_(Scraping!vars)
    PROVE  Scraping!SizeInv'
<1>1. CASE UNCHANGED <<visits, outcome>>
  BY <1>1 DEF Scraping!SizeInv
<1>2. CASE Scraping!AfterVisit \/ Scraping!Wait \/ Scraping!Cancel
  BY <1>2 DEF Scraping!SizeInv, Scraping!AfterVisit, Scraping!Wait, Scraping!Cancel
<1>3. ASSUME NEW i \in DOMAIN visits,
             \/ Scraping!Fetch(i) \/ Scraping!OnHTML(i) \/ Scraping!WriteText(i)
             \/ Scraping!FollowLink(i) \/ Scraping!VisitLink(i) \/ Scraping!EndVisit(i)
      PROVE  Scraping!SizeInv'
  <2>1. outcome' = outcome
    BY <1>3, VisitFacts
  <2>2. Len(visits') <= MaxVisits
    BY <1>3, VisitFits
  <2> QED BY <2>1, <2>2 DEF Scraping!SizeInv
<1> QED BY <1>1, <1>2, <1>3 DEF Scraping!Next, Scraping!vars

(* The state of a scraper keeps its types.                                 *)
LEMMA SiteTypes == ASSUME Scraping!IInv, Scraping!SizeInv PROVE Scraping!TypeOK
<1> USE DEF Scraping!IInv
<1>1. /\ visits \in Seq(Scraping!Visit) /\ site \in Scraping!Sites
      /\ Async \in BOOLEAN /\ canceled \in BOOLEAN
  BY DEF Scraping!VisitInv, Scraping!Visit
<1>2. \A i \in DOMAIN visits : visits[i].page \in Scraping!Pages
  <2>1. \A i \in 1..Len(visits) : visits[i] \in Scraping!Visit
    BY <1>1, ElementOfSeq
  <2> QED BY <1>1, <2>1, LenProperties DEF Scraping!Visit
<1>3. visited \subseteq Scraping!Pages /\ scrapedLinks \subseteq visited
  BY <1>2 DEF Scraping!ReadInv
<1>4. siteData \in Seq(Scraping!Pieces) /\ pc \in {"visit", "wait", "returned"}
  BY DEF Scraping!PiecesInv, Scraping!ReturnInv
<1> QED BY <1>1, <1>3, <1>4 DEF Scraping!TypeOK, Scraping!SizeInv

(* The address and the text of a page are told once.                       *)
LEMMA PagesToldOnce == ASSUME Scraping!IInv PROVE Scraping!PagesOnce
<1> SUFFICES ASSUME NEW p \in Scraping!Pages, NEW what \in {"url", "text"}
             PROVE  Scraping!Count(p, what) <= 1
  BY DEF Scraping!PagesOnce
<1> DEFINE piece == [page |-> p, what |-> what]
           places == {k \in DOMAIN siteData : siteData[k] = piece}
<1>1. \A k, m \in DOMAIN siteData : siteData[k] = piece /\ siteData[m] = piece => k = m
  BY DEF Scraping!IInv, Scraping!PiecesInv
<1>2. places = {} \/ \E k : places = {k}
  BY <1>1
<1>3. \A S : Scraping!Cardinality(S) = Cardinality(S)
  BY DEF Scraping!Cardinality, Cardinality
<1> HIDE DEF places
<1>4. Cardinality(places) <= 1
  <2>1. CASE places = {}
    BY <2>1, FS_EmptySet
  <2>2. CASE \E k : places = {k}
    <3>1. PICK k : places = {k}
      BY <2>2
    <3>2. Cardinality({k}) = 1
      BY FS_Singleton
    <3> QED BY <3>1, <3>2
  <2> QED BY <1>2, <2>1, <2>2
<1> QED BY <1>3, <1>4 DEF Scraping!Count, places

(* Every page the site links to is read when nothing fails, and told when  *)
(* there are no goroutines.                                                *)
LEMMA PagesAreRead == ASSUME Scraping!IInv PROVE Scraping!EveryPageRead
<1> SUFFICES ASSUME outcome = "ok", ~canceled, \A i \in DOMAIN visits : ~visits[i].failed
             PROVE  /\ scrapedLinks = Scraping!Reached
                    /\ ~Async => \A p \in scrapedLinks :
                          Scraping!Count(p, "url") = 1 /\ Scraping!Count(p, "text") = 1
  BY DEF Scraping!EveryPageRead
<1>1. /\ site \in Scraping!Sites /\ scrapedLinks \subseteq visited
      /\ visited = {visits[k].page : k \in DOMAIN visits}
      /\ visits # <<>> /\ visits[1].page = "home" /\ visits \in Seq(VisitRecords)
      /\ \A k \in DOMAIN visits : Reading(visits[k]) /\ visits[k].step = "done"
      /\ scrapedLinks \subseteq Scraping!Pages
  BY DEF Scraping!IInv, Scraping!VisitInv, Scraping!HomeInv, Scraping!ReadInv, Reading,
     Scraping!VisitsEnded, Scraping!AllDone, Scraping!Done, Scraping!PiecesInv, VisitRecords
<1>2. \A k \in DOMAIN visits : visits[k].page \in scrapedLinks /\ visits[k].links = <<>>
  BY <1>1 DEF Reading
<1>3. scrapedLinks = visited
  BY <1>1, <1>2
<1>4. "home" \in visited
  BY <1>1, EmptySeq, LenProperties
<1>5. Scraping!Linked(visited) \subseteq visited
  <2> SUFFICES ASSUME NEW x \in Scraping!Linked(visited) PROVE x \in visited
    OBVIOUS
  <2>1. PICK p \in visited : \E t \in Scraping!Range(site[p]) :
            Scraping!Follows(t) /\ x = Scraping!Normal(t)
    BY <1>1, LinkedIs
  <2>2. PICK t \in Scraping!Range(site[p]) : Scraping!Follows(t) /\ x = Scraping!Normal(t)
    BY <2>1
  <2>3. PICK k \in DOMAIN visits : visits[k].page = p
    BY <1>1
  <2>4. Scraping!Range(visits[k].links) = {}
    BY <1>2 DEF Scraping!Range
  <2> QED BY <1>1, <2>2, <2>3, <2>4 DEF Reading
<1>6. visited \subseteq Scraping!Reached
  BY <1>1 DEF Reading
<1>7. scrapedLinks = Scraping!Reached
  BY <1>1, <1>3, <1>4, <1>5, <1>6, ReachedIs
<1>8. ASSUME ~Async, NEW p \in scrapedLinks, NEW what \in {"url", "text"}
      PROVE  Scraping!Count(p, what) = 1
  <2> DEFINE piece == [page |-> p, what |-> what]
             places == {k \in DOMAIN siteData : siteData[k] = piece}
  <2>1. \A k, m \in DOMAIN siteData : siteData[k] = piece /\ siteData[m] = piece => k = m
    BY DEF Scraping!IInv, Scraping!PiecesInv
  <2>2. \E k \in DOMAIN siteData : siteData[k] = piece
    BY <1>1, <1>8 DEF Scraping!IInv, Scraping!ToldInv
  <2>3. \E k : places = {k}
    BY <2>1, <2>2
  <2>4. \A S : Scraping!Cardinality(S) = Cardinality(S)
    BY DEF Scraping!Cardinality, Cardinality
  <2> HIDE DEF places
  <2>5. Cardinality(places) = 1
    <3>1. PICK k : places = {k}
      BY <2>3
    <3>2. Cardinality({k}) = 1
      BY FS_Singleton
    <3> QED BY <3>1, <3>2
  <2> QED BY <2>4, <2>5 DEF Scraping!Count, places
<1> QED BY <1>7, <1>8

-----------------------------------------------------------------------------
(* ResponseCache.                                                          *)

(* One notion of counting in both modules.                                 *)
LEMMA SameCount == \A S : Caching!Cardinality(S) = Cardinality(S)
BY DEF Cardinality, Caching!Cardinality

(* The cache begins with the invariant. *)
LEMMA CacheInit ==
    ASSUME MaxRequests \in Nat, Caching!Init
    PROVE  Caching!IInv
<1>1. /\ calls = <<>> /\ DOMAIN calls = {} /\ given = <<>> /\ Len(given) = 0
      /\ entries = [k \in Caching!Keys |-> 0]
  BY DEF Caching!Init
<1>2. Caching!CallsInv
  BY <1>1, EmptySeq DEF Caching!CallsInv
<1>3. Caching!GivenInv
  <2>1. given \in Seq([key : Caching!Keys, choices : {0, 2}])
    BY <1>1, EmptySeq
  <2>2. /\ entries \in [Caching!Keys -> 0..Len(given)]
        /\ \A k \in Caching!Keys : entries[k] = 0
    BY <1>1
  <2> QED BY <2>1, <2>2 DEF Caching!GivenInv
<1>4. Caching!StepInv /\ Caching!KeptInv /\ Caching!HitsWerePut
  BY <1>1 DEF Caching!StepInv, Caching!KeptInv, Caching!HitsWerePut
<1>5. Caching!SizeInv
  <2>1. Caching!Askers = {}
    BY <1>1 DEF Caching!Askers
  <2>2. Caching!Cardinality({}) = 0
    BY FS_EmptySet, SameCount
  <2> QED BY <1>1, <2>1, <2>2 DEF Caching!SizeInv
<1> QED BY <1>2, <1>3, <1>4, <1>5 DEF Caching!IInv

\* A call, for any number of answers.
Called == [request : Caching!Requests, response : Nat, streamed : Nat, hit : BOOLEAN,
           step : {"get", "stream", "ask", "put", "ok", "error"}]

\* What is known of one call.
Fits(c, told) ==
    /\ c.response <= Len(told)
    /\ c.step \in {"get", "ask", "stream", "error"} => c.streamed = 0
    /\ c.step = "get" => c.response = 0 /\ ~c.hit
    /\ c.step = "ask" => c.response = 0 /\ ~c.hit
    /\ c.step = "put" => ~c.hit
    /\ c.step \in {"stream", "put", "ok"} => /\ c.response # 0
                                            /\ told[c.response].key = Caching!Key(c)
    /\ c.step = "stream" => c.hit /\ c.request.streams /\ told[c.response].choices > 0
    /\ c.step \in {"put", "ok"} =>
          c.streamed = IF c.request.streams /\ told[c.response].choices > 0
                       THEN c.response ELSE 0

(* A request tells whether it streams; without functions it has a key. *)
LEMMA RequestHasKey ==
    ASSUME NEW r \in Caching!Requests
    PROVE  /\ r.streams \in BOOLEAN /\ r.options \in Caching!Options
           /\ r.options # "function" => Caching!hashKeyForCache(r) \in Caching!Keys
<1>1. r.streams \in BOOLEAN /\ r.options \in Caching!Options
  BY DEF Caching!Requests, Caching!Options
<1>2. r.options # "function" => Caching!hashKeyForCache(r) \in Caching!Keys
  BY DEF Caching!Keys
<1> QED BY <1>1, <1>2

(* What a step of one call has to show: its new state, and that what it kept goes on
   to be kept. *)
LEMMA OneCall ==
    ASSUME Caching!CallsInv, Caching!GivenInv, Caching!StepInv, Caching!HitsWerePut,
           NEW i \in DOMAIN calls, NEW c \in Called,
           calls' = [calls EXCEPT ![i] = c],
           given' \in Seq([key : Caching!Keys, choices : {0, 2}]), Len(given) <= Len(given'),
           \A n \in DOMAIN given : given'[n] = given[n],
           c.request = calls[i].request, calls[i].request.options # "function",
           calls[i].step # "ok", Fits(c, given'),
           c.hit /\ c.response # 0 =>
              \E j \in DOMAIN calls : /\ ~calls[j].hit /\ calls[j].step = "ok"
                                      /\ calls[j].response = c.response
    PROVE  /\ Caching!CallsInv' /\ Caching!StepInv' /\ Caching!HitsWerePut'
           /\ DOMAIN calls' = DOMAIN calls /\ calls'[i] = c
           /\ \A j \in DOMAIN calls : j # i => calls'[j] = calls[j]
<1>1. calls \in Seq(Called)
  BY DEF Caching!CallsInv, Called
<1>2. /\ DOMAIN calls' = DOMAIN calls /\ calls'[i] = c
      /\ \A j \in DOMAIN calls : j # i => calls'[j] = calls[j]
  BY <1>1
<1>3. calls' \in Seq(Called)
  BY <1>1, ExceptSeq
<1>4. Caching!CallsInv'
  BY <1>2, <1>3 DEF Caching!CallsInv, Called
<1>5. Caching!StepInv'
  <2>1. ASSUME NEW j \in DOMAIN calls PROVE Fits(calls[j], given)
    BY DEF Caching!StepInv, Fits
  <2>2. ASSUME NEW j \in DOMAIN calls, j # i PROVE Fits(calls[j], given')
    <3>1. calls[j] \in Called /\ Fits(calls[j], given)
      BY <1>1, <2>1, ElementOfSeq
    <3> DEFINE d == calls[j]
    <3> HIDE DEF d
    <3>2. /\ d.response \in Nat /\ Len(given) \in Nat /\ Len(given') \in Nat
          /\ d.response <= Len(given)
      BY <3>1, LenProperties DEF d, Called, Fits, Caching!GivenInv
    <3>3. d.response <= Len(given')
      BY <3>2
    <3>4. d.response # 0 => given'[d.response] = given[d.response]
      <4>1. DOMAIN given = 1..Len(given)
        BY LenProperties DEF Caching!GivenInv
      <4> QED BY <3>2, <4>1
    <3>5. Fits(d, given)
      BY <3>1 DEF d
    <3> QED
      <4>1. d.step \in {"stream", "put", "ok"} => given'[d.response] = given[d.response]
        BY <3>4, <3>5 DEF Fits
      <4>2. Fits(d, given')
        BY <3>3, <3>5, <4>1 DEF Fits
      <4> QED BY <4>2 DEF d
  <2>3. \A j \in DOMAIN calls' : Fits(calls'[j], given')
    BY <1>2, <2>2
  <2> QED BY <2>3 DEF Caching!StepInv, Fits, Caching!Key
<1>6. Caching!HitsWerePut'
  <2> SUFFICES ASSUME NEW k \in DOMAIN calls', calls'[k].hit, calls'[k].response # 0
               PROVE  \E j \in DOMAIN calls' :
                         /\ j # k /\ ~calls'[j].hit /\ calls'[j].step = "ok"
                         /\ calls'[j].response = calls'[k].response
    BY DEF Caching!HitsWerePut
  <2>1. \E j \in DOMAIN calls : /\ ~calls[j].hit /\ calls[j].step = "ok"
                                /\ calls[j].response = calls'[k].response
    <3>1. CASE k = i
      BY <1>2, <3>1
    <3>2. CASE k # i
      BY <1>2, <3>2 DEF Caching!HitsWerePut
    <3> QED BY <3>1, <3>2
  <2>2. PICK j \in DOMAIN calls : /\ ~calls[j].hit /\ calls[j].step = "ok"
                                  /\ calls[j].response = calls'[k].response
    BY <2>1
  <2>3. j # i /\ calls'[j] = calls[j] /\ j # k
    BY <1>2, <2>2
  <2> QED BY <1>2, <2>2, <2>3
<1> QED BY <1>2, <1>4, <1>5, <1>6

(* What is kept stays so when the calls that have ended do. *)
LEMMA KeptStays ==
    ASSUME Caching!GivenInv, Caching!KeptInv, UNCHANGED entries, Len(given) <= Len(given'),
           given' \in Seq([key : Caching!Keys, choices : {0, 2}]),
           \A n \in DOMAIN given : given'[n] = given[n],
           \A j \in DOMAIN calls :
              calls[j].step = "ok" => j \in DOMAIN calls' /\ calls'[j] = calls[j]
    PROVE  Caching!GivenInv' /\ Caching!KeptInv'
<1>1. Len(given) \in Nat /\ Len(given') \in Nat /\ DOMAIN given = 1..Len(given)
  BY LenProperties DEF Caching!GivenInv
<1>2. \A k \in Caching!Keys : entries[k] \in 0..Len(given)
  BY DEF Caching!GivenInv
<1>3. entries \in [Caching!Keys -> 0..Len(given')]
  BY <1>1 DEF Caching!GivenInv
<1>4. \A k \in Caching!Keys : entries[k] # 0 => given'[entries[k]].key = k
  BY <1>1, <1>2 DEF Caching!GivenInv
<1>5. Caching!GivenInv'
  BY <1>3, <1>4 DEF Caching!GivenInv
<1>6. Caching!KeptInv'
  BY DEF Caching!KeptInv
<1> QED BY <1>5, <1>6

(* An answer is given to a call that had none. *)
LEMMA SizeStays ==
    ASSUME MaxRequests \in Nat, Caching!IInv, [Caching!Next]_(Caching!vars)
    PROVE  Caching!SizeInv'
<1>0. /\ calls \in Seq(Called) /\ Len(calls) \in Nat /\ DOMAIN calls = 1..Len(calls)
      /\ given \in Seq([key : Caching!Keys, choices : {0, 2}]) /\ Len(given) \in Nat
  BY LenProperties DEF Caching!IInv, Caching!CallsInv, Called, Caching!GivenInv
<1>1. IsFiniteSet(Caching!Askers) /\ Caching!Cardinality(Caching!Askers) \in Nat
  <2>1. IsFiniteSet(1..Len(calls))
    BY <1>0, FS_Interval, SameCount
  <2>2. Caching!Askers \subseteq 1..Len(calls)
    BY <1>0 DEF Caching!Askers
  <2>3. IsFiniteSet(Caching!Askers)
    BY <2>1, <2>2, FS_Subset, SameCount
  <2> QED BY <2>3, FS_CardinalityType, SameCount
<1>2. ASSUME Caching!Askers' = Caching!Askers, UNCHANGED given, Len(calls') <= MaxRequests
      PROVE  Caching!SizeInv'
  BY <1>2 DEF Caching!SizeInv, Caching!IInv
<1>3. ASSUME NEW r \in Caching!Requests, Caching!Begin(r) PROVE Caching!SizeInv'
  <2> DEFINE c == [request |-> r, response |-> 0, streamed |-> 0, hit |-> FALSE,
                   step |-> IF r.options = "function" THEN "error" ELSE "get"]
  <2>1. /\ calls' = Append(calls, c) /\ UNCHANGED given /\ Len(calls) < MaxRequests
        /\ c \in Called /\ c.response = 0
    BY <1>3 DEF Caching!Begin, Called
  <2> HIDE DEF c
  <2>2. /\ DOMAIN calls' = 1..(Len(calls) + 1) /\ calls'[Len(calls) + 1] = c
        /\ Len(calls') = Len(calls) + 1
        /\ \A j \in DOMAIN calls : calls'[j] = calls[j]
    BY <1>0, <2>1, AppendProperties
  <2>3. \A j : j \in DOMAIN calls' <=> j \in DOMAIN calls \/ j = Len(calls) + 1
    BY <1>0, <2>2
  <2>4. Caching!Askers' = Caching!Askers
    BY <2>1, <2>2, <2>3 DEF Caching!Askers
  <2>5. Len(calls') <= MaxRequests
    BY <1>0, <2>1, <2>2
  <2> QED BY <1>2, <2>1, <2>4, <2>5
<1>4. ASSUME NEW i \in DOMAIN calls, NEW c, calls' = [calls EXCEPT ![i] = c]
      PROVE  /\ DOMAIN calls' = DOMAIN calls /\ calls'[i] = c /\ Len(calls') <= MaxRequests
             /\ \A j \in DOMAIN calls : j # i => calls'[j] = calls[j]
  <2>1. Len(calls) <= MaxRequests
    BY DEF Caching!IInv, Caching!SizeInv
  <2>2. DOMAIN calls' = DOMAIN calls /\ calls'[i] = c
        /\ \A j \in DOMAIN calls : j # i => calls'[j] = calls[j]
    BY <1>0, <1>4
  <2>3. Len(calls') = Len(calls)
    BY <1>0, <1>4
  <2> QED BY <2>1, <2>2, <2>3
<1>5. ASSUME NEW i \in DOMAIN calls, NEW c, calls' = [calls EXCEPT ![i] = c], UNCHANGED given,
             (~c.hit /\ c.response # 0) <=> (~calls[i].hit /\ calls[i].response # 0)
      PROVE  Caching!SizeInv'
  <2>1. /\ DOMAIN calls' = DOMAIN calls /\ calls'[i] = c /\ Len(calls') <= MaxRequests
        /\ \A j \in DOMAIN calls : j # i => calls'[j] = calls[j]
    BY <1>4, <1>5
  <2>2. Caching!Askers' = Caching!Askers
    BY <1>5, <2>1 DEF Caching!Askers
  <2> QED BY <1>2, <1>5, <2>1, <2>2
<1>6. ASSUME NEW i \in DOMAIN calls,
             Caching!Get(i) \/ Caching!Stream(i) \/ Caching!Ask(i) \/ Caching!Put(i)
      PROVE  Caching!SizeInv'
  <2> DEFINE c == calls[i]
             entry == entries[Caching!hashKeyForCache(c.request)]
  <2>1. c \in Called /\ Fits(c, given)
    BY <1>0, ElementOfSeq DEF Caching!IInv, Caching!StepInv, Fits
  <2>2. CASE Caching!Get(i)
    <3> DEFINE streams == c.request.streams /\ given[entry].choices > 0
               d == [c EXCEPT !.response = entry, !.hit = entry # 0,
                              !.step = CASE entry = 0 -> "ask"
                                         [] entry # 0 /\ streams -> "stream"
                                         [] OTHER -> "ok"]
    <3>1. c.step = "get" /\ calls' = [calls EXCEPT ![i] = d] /\ UNCHANGED given
      BY <2>2 DEF Caching!Get, Caching!Becomes
    <3>2. d.response = entry /\ d.hit = (entry # 0)
      BY <2>1 DEF Called
    <3> HIDE DEF d
    <3>3. c.response = 0 /\ ~(~d.hit /\ d.response # 0)
      BY <2>1, <3>1, <3>2 DEF Fits
    <3> QED BY <1>5, <3>1, <3>3
  <2>3. CASE Caching!Stream(i)
    <3>1. /\ c.step = "stream" /\ UNCHANGED given
          /\ \/ calls' = [calls EXCEPT ![i] =
                            [c EXCEPT !.streamed = c.response, !.step = "ok"]]
             \/ calls' = [calls EXCEPT ![i] = [c EXCEPT !.step = "error", !.response = 0]]
      BY <2>3 DEF Caching!Stream, Caching!Becomes
    <3>2. PICK d \in {[c EXCEPT !.streamed = c.response, !.step = "ok"],
                      [c EXCEPT !.step = "error", !.response = 0]} :
             calls' = [calls EXCEPT ![i] = d]
      BY <3>1
    <3>3. d.hit = c.hit
      BY <2>1, <3>2 DEF Called
    <3>4. c.hit
      BY <2>1, <3>1 DEF Fits
    <3> QED BY <1>5, <3>1, <3>2, <3>3, <3>4
  <2>4. CASE Caching!Ask(i)
    <3>1. c.step = "ask" /\ c.response = 0 /\ ~c.hit
      BY <2>1, <2>4 DEF Caching!Ask, Fits
    <3>2. ASSUME NEW n \in {0, 2},
                 given' = Append(given, [key |-> Caching!hashKeyForCache(c.request),
                                         choices |-> n]),
                 Caching!Becomes(i, [c EXCEPT
                     !.response = Len(given) + 1, !.step = "put",
                     !.streamed = IF c.request.streams /\ n > 0 THEN Len(given) + 1 ELSE 0])
          PROVE  Caching!SizeInv'
      <4> DEFINE d == [c EXCEPT
                     !.response = Len(given) + 1, !.step = "put",
                     !.streamed = IF c.request.streams /\ n > 0 THEN Len(given) + 1 ELSE 0]
                 told == [key |-> Caching!hashKeyForCache(c.request), choices |-> n]
      <4>1. d.hit = c.hit /\ d.response = Len(given) + 1
        BY <2>1 DEF Called
      <4>2. told \in [key : Caching!Keys, choices : {0, 2}]
        <5>1. c.request.options # "function" /\ c.request \in Caching!Requests
          BY <2>1, <3>1 DEF Caching!IInv, Caching!CallsInv, Called
        <5> QED BY <5>1, RequestHasKey
      <4> HIDE DEF d, told
      <4>3. calls' = [calls EXCEPT ![i] = d] /\ given' = Append(given, told)
        BY <3>2 DEF Caching!Becomes, d, told
      <4>4. Len(given') = Len(given) + 1
        BY <1>0, <4>2, <4>3, AppendProperties
      <4>5. /\ DOMAIN calls' = DOMAIN calls /\ calls'[i] = d /\ Len(calls') <= MaxRequests
            /\ \A j \in DOMAIN calls : j # i => calls'[j] = calls[j]
        BY <1>4, <4>3
      <4>6. i \notin Caching!Askers /\ ~d.hit /\ d.response # 0
        BY <1>0, <3>1, <4>1 DEF Caching!Askers
      <4>7. Caching!Askers' = Caching!Askers \cup {i}
        BY <4>5, <4>6 DEF Caching!Askers
      <4>8. Caching!Cardinality(Caching!Askers') = Caching!Cardinality(Caching!Askers) + 1
        BY <1>1, <4>6, <4>7, FS_AddElement, SameCount
      <4>9. Len(given) <= Caching!Cardinality(Caching!Askers)
        BY DEF Caching!IInv, Caching!SizeInv
      <4>10. Len(given') <= Caching!Cardinality(Caching!Askers')
        BY <1>0, <1>1, <4>4, <4>8, <4>9
      <4> QED BY <4>5, <4>10 DEF Caching!SizeInv
    <3>3. CASE Caching!Becomes(i, [c EXCEPT !.step = "error"]) /\ UNCHANGED given
      <4>1. [c EXCEPT !.step = "error"].response = c.response
        BY <2>1 DEF Called
      <4>2. [c EXCEPT !.step = "error"].hit = c.hit
        BY <2>1 DEF Called
      <4> QED BY <1>5, <3>3, <4>1, <4>2 DEF Caching!Becomes
    <3> QED BY <2>4, <3>2, <3>3 DEF Caching!Ask
  <2>5. CASE Caching!Put(i)
    <3> DEFINE d == [c EXCEPT !.step = "ok"]
    <3>1. UNCHANGED given /\ calls' = [calls EXCEPT ![i] = d]
      BY <2>5 DEF Caching!Put, Caching!Becomes
    <3>2. d.hit = c.hit /\ d.response = c.response
      BY <2>1 DEF Called
    <3> QED BY <1>5, <3>1, <3>2
  <2> QED BY <1>6, <2>2, <2>3, <2>4, <2>5
<1>7. CASE Caching!Expire \/ UNCHANGED Caching!vars
  <2>1. UNCHANGED <<calls, given>>
    BY <1>7 DEF Caching!Expire, Caching!vars
  <2> QED BY <2>1 DEF Caching!IInv, Caching!SizeInv, Caching!Askers
<1> QED BY <1>3, <1>6, <1>7 DEF Caching!Next

(* Each step keeps the invariant. *)
LEMMA CacheSteps ==
    ASSUME MaxRequests \in Nat, Caching!IInv, [Caching!Next]_(Caching!vars)
    PROVE  Caching!IInv'
<1>5. Caching!SizeInv'
  BY SizeStays
<1> USE DEF Caching!IInv
<1>0. /\ calls \in Seq(Called) /\ Len(calls) \in Nat /\ DOMAIN calls = 1..Len(calls)
      /\ Len(given) \in Nat /\ DOMAIN given = 1..Len(given)
      /\ given \in Seq([key : Caching!Keys, choices : {0, 2}])
  BY LenProperties DEF Caching!CallsInv, Called, Caching!GivenInv
<1>1. ASSUME NEW r \in Caching!Requests, Caching!Begin(r) PROVE Caching!IInv'
  <2> DEFINE c == [request |-> r, response |-> 0, streamed |-> 0, hit |-> FALSE,
                   step |-> IF r.options = "function" THEN "error" ELSE "get"]
  <2>1. c \in Called
    BY DEF Called
  <2>2. calls' = Append(calls, c) /\ UNCHANGED <<entries, given>>
    BY <1>1 DEF Caching!Begin
  <2>3. c.response = 0 /\ c.request = r /\ c.streamed = 0 /\ ~c.hit
        /\ c.step \in {"error", "get"} /\ (c.step = "get" => r.options # "function")
    OBVIOUS
  <2> HIDE DEF c
  <2>4. /\ calls' \in Seq(Called) /\ DOMAIN calls' = 1..(Len(calls) + 1)
        /\ calls'[Len(calls) + 1] = c
        /\ \A j \in DOMAIN calls : calls'[j] = calls[j] /\ j \in DOMAIN calls'
    BY <1>0, <2>1, <2>2, AppendProperties
  <2>5. \A j \in DOMAIN calls' : j \in DOMAIN calls \/ j = Len(calls) + 1
    BY <1>0, <2>4
  <2>6. Caching!CallsInv'
    BY <2>3, <2>4, <2>5 DEF Caching!CallsInv, Called
  <2>7. Caching!GivenInv' /\ Caching!KeptInv'
    BY <1>0, <2>2, <2>4, KeptStays
  <2>8. Caching!StepInv'
    <3>1. Fits(c, given)
      BY <1>0, <2>3 DEF Fits
    <3>2. \A j \in DOMAIN calls : Fits(calls[j], given)
      BY DEF Caching!StepInv, Fits
    <3>3. \A j \in DOMAIN calls' : Fits(calls'[j], given')
      BY <2>2, <2>4, <2>5, <3>1, <3>2
    <3> QED BY <3>3 DEF Caching!StepInv, Fits, Caching!Key
  <2>9. Caching!HitsWerePut'
    <3> SUFFICES ASSUME NEW k \in DOMAIN calls', calls'[k].hit, calls'[k].response # 0
                 PROVE  \E j \in DOMAIN calls' :
                           /\ j # k /\ ~calls'[j].hit /\ calls'[j].step = "ok"
                           /\ calls'[j].response = calls'[k].response
      BY DEF Caching!HitsWerePut
    <3>1. k \in DOMAIN calls /\ calls'[k] = calls[k]
      BY <2>3, <2>4, <2>5
    <3>2. PICK j \in DOMAIN calls : /\ j # k /\ ~calls[j].hit /\ calls[j].step = "ok"
                                    /\ calls[j].response = calls[k].response
      BY <3>1 DEF Caching!HitsWerePut
    <3> QED BY <2>4, <3>1, <3>2
  <2> QED BY <1>5, <2>6, <2>7, <2>8, <2>9
<1>6. UNCHANGED given => /\ given' \in Seq([key : Caching!Keys, choices : {0, 2}])
                         /\ Len(given) <= Len(given')
                         /\ \A n \in DOMAIN given : given'[n] = given[n]
  BY <1>0
<1>7. /\ Caching!CallsInv /\ Caching!GivenInv /\ Caching!StepInv /\ Caching!HitsWerePut
      /\ Caching!KeptInv
  OBVIOUS
<1>2. ASSUME NEW i \in DOMAIN calls,
             Caching!Get(i) \/ Caching!Stream(i) \/ Caching!Ask(i) \/ Caching!Put(i)
      PROVE  Caching!IInv'
  <2> DEFINE c == calls[i]
             entry == entries[Caching!hashKeyForCache(c.request)]
  <2>1. c \in Called /\ Fits(c, given)
    BY <1>0, ElementOfSeq DEF Caching!StepInv, Fits
  <2>2. c.step # "error" => /\ c.request.options # "function"
                            /\ Caching!hashKeyForCache(c.request) \in Caching!Keys
    BY <2>1, RequestHasKey DEF Caching!CallsInv, Called
  <2>3. c.step # "error" => /\ entry \in 0..Len(given)
                            /\ entry # 0 => /\ given[entry].key = Caching!Key(c)
                                            /\ entry \in DOMAIN given
                                            /\ given[entry].choices \in {0, 2}
    <3> SUFFICES ASSUME c.step # "error"
                 PROVE  /\ entry \in 0..Len(given)
                        /\ entry # 0 => /\ given[entry].key = Caching!Key(c)
                                        /\ entry \in DOMAIN given
                                        /\ given[entry].choices \in {0, 2}
      OBVIOUS
    <3>1. entry \in 0..Len(given) /\ (entry # 0 => given[entry].key = Caching!Key(c))
      BY <2>2 DEF Caching!GivenInv, Caching!Key
    <3> HIDE DEF entry
    <3>2. entry # 0 => entry \in DOMAIN given
      BY <1>0, <3>1
    <3>3. entry # 0 => given[entry].choices \in {0, 2}
      <4>1. ASSUME entry # 0 PROVE given[entry] \in [key : Caching!Keys, choices : {0, 2}]
        BY <1>0, <3>2, <4>1, ElementOfSeq
      <4> QED BY <4>1
    <3> QED BY <3>1, <3>2, <3>3
  <2>4. CASE Caching!Get(i)
    <3> DEFINE streams == c.request.streams /\ given[entry].choices > 0
               d == [c EXCEPT !.response = entry, !.hit = entry # 0,
                              !.step = CASE entry = 0 -> "ask"
                                         [] entry # 0 /\ streams -> "stream"
                                         [] OTHER -> "ok"]
    <3>1. c.step = "get" /\ calls' = [calls EXCEPT ![i] = d] /\ UNCHANGED <<entries, given>>
      BY <2>4 DEF Caching!Get, Caching!Becomes
    <3>2. /\ c.response = 0 /\ c.streamed = 0 /\ ~c.hit /\ entry \in Nat
          /\ c.request.streams \in BOOLEAN /\ entry <= Len(given)
      BY <1>0, <2>1, <2>3, <3>1, RequestHasKey DEF Fits, Called
    <3>3. /\ d.request = c.request /\ d.response = entry /\ d.streamed = 0
          /\ d.hit = (entry # 0) /\ d \in Called
          /\ d.step = CASE entry = 0 -> "ask"
                        [] entry # 0 /\ streams -> "stream"
                        [] OTHER -> "ok"
      BY <2>1, <3>2 DEF Called
    <3> HIDE DEF d
    <3>4. d.hit \in BOOLEAN /\ Caching!Key(d) = Caching!Key(c)
      BY <3>3 DEF Called, Caching!Key
    <3>5. CASE entry = 0
      <4>1. Fits(d, given)
        BY <1>0, <3>2, <3>3, <3>4, <3>5 DEF Fits
      <4>4. Fits(d, given')
        BY <3>1, <4>1
      <4>2. /\ Caching!CallsInv' /\ Caching!StepInv' /\ Caching!HitsWerePut'
            /\ DOMAIN calls' = DOMAIN calls
            /\ \A j \in DOMAIN calls : j # i => calls'[j] = calls[j]
        BY <1>6, <1>7, <2>2, <3>1, <3>3, <3>5, <4>1, <4>4, OneCall
      <4>3. Caching!GivenInv' /\ Caching!KeptInv'
        BY <1>0, <3>1, <4>2, KeptStays
      <4> QED BY <1>5, <4>2, <4>3
    <3>6. CASE entry # 0
      <4>1. /\ given[entry].key = Caching!Key(c) /\ given[entry].choices \in {0, 2}
            /\ d.hit /\ d.response # 0
            /\ d.step = IF streams THEN "stream" ELSE "ok"
        BY <2>3, <3>1, <3>3, <3>6
      <4> HIDE DEF entry
      <4>2. Fits(d, given)
        <5>1. CASE streams
          BY <1>0, <3>2, <3>3, <3>4, <3>6, <4>1, <5>1 DEF Fits
        <5>2. CASE ~streams
          BY <1>0, <3>2, <3>3, <3>4, <3>6, <4>1, <5>2 DEF Fits
        <5> QED BY <5>1, <5>2
      <4>3. \E j \in DOMAIN calls : /\ ~calls[j].hit /\ calls[j].step = "ok"
                                    /\ calls[j].response = d.response
        BY <2>2, <3>1, <3>3, <3>6 DEF Caching!KeptInv, entry
      <4>4. /\ Caching!CallsInv' /\ Caching!StepInv' /\ Caching!HitsWerePut'
            /\ DOMAIN calls' = DOMAIN calls
            /\ \A j \in DOMAIN calls : j # i => calls'[j] = calls[j]
        <5>1. Fits(d, given')
          BY <3>1, <4>2
        <5> QED BY <1>6, <1>7, <2>2, <3>1, <3>3, <4>3, <5>1, OneCall
      <4>5. Caching!GivenInv' /\ Caching!KeptInv'
        BY <1>0, <3>1, <4>4, KeptStays
      <4> QED BY <1>5, <4>4, <4>5
    <3> QED BY <3>5, <3>6
  <2>5. CASE Caching!Stream(i)
    <3>1. /\ c.step = "stream" /\ UNCHANGED <<entries, given>>
          /\ \/ calls' = [calls EXCEPT ![i] =
                            [c EXCEPT !.streamed = c.response, !.step = "ok"]]
             \/ calls' = [calls EXCEPT ![i] = [c EXCEPT !.step = "error", !.response = 0]]
      BY <2>5 DEF Caching!Stream, Caching!Becomes
    <3>2. PICK d \in {[c EXCEPT !.streamed = c.response, !.step = "ok"],
                      [c EXCEPT !.step = "error", !.response = 0]} :
             calls' = [calls EXCEPT ![i] = d]
      BY <3>1
    <3>3. /\ d \in Called /\ d.request = c.request /\ d.hit = c.hit
          /\ \/ d.step = "ok" /\ d.response = c.response /\ d.streamed = c.response
             \/ d.step = "error" /\ d.response = 0 /\ d.streamed = c.streamed
      <4> HIDE DEF c
      <4>1. c \in Called /\ 0 \in Nat
        BY <2>1
      <4>2. CASE d = [c EXCEPT !.streamed = c.response, !.step = "ok"]
        BY <4>1, <4>2 DEF Called
      <4>3. CASE d = [c EXCEPT !.step = "error", !.response = 0]
        BY <4>1, <4>3 DEF Called
      <4> QED BY <1>5, <4>2, <4>3
    <3>4. /\ c.hit /\ c.request.streams /\ given[c.response].choices > 0 /\ c.response # 0
          /\ c.streamed = 0
          /\ given[c.response].key = Caching!Key(c) /\ c.response <= Len(given)
      BY <2>1, <3>1 DEF Fits
    <3>5. Fits(d, given)
      BY <1>0, <3>3, <3>4 DEF Fits, Caching!Key
    <3>6. d.hit /\ d.response # 0 =>
              \E j \in DOMAIN calls : /\ ~calls[j].hit /\ calls[j].step = "ok"
                                      /\ calls[j].response = d.response
      BY <3>3, <3>4 DEF Caching!HitsWerePut
    <3>7. /\ Caching!CallsInv' /\ Caching!StepInv' /\ Caching!HitsWerePut'
          /\ DOMAIN calls' = DOMAIN calls
          /\ \A j \in DOMAIN calls : j # i => calls'[j] = calls[j]
      <4>1. Fits(d, given')
        BY <3>1, <3>5
      <4> HIDE DEF c
      <4>2. c = calls[i]
        BY DEF c
      <4>3. c.step # "ok" /\ c.request.options # "function"
        BY <2>2, <3>1
      <4> QED BY <1>6, <1>7, <3>1, <3>2, <3>3, <3>6, <4>1, <4>2, <4>3, OneCall
    <3>8. Caching!GivenInv' /\ Caching!KeptInv'
      BY <1>0, <3>1, <3>7, KeptStays
    <3> QED BY <1>5, <3>7, <3>8
  <2>6. CASE Caching!Ask(i)
    <3>1. c.step = "ask" /\ UNCHANGED entries /\ c.response = 0 /\ ~c.hit /\ c.streamed = 0
      BY <2>1, <2>6 DEF Caching!Ask, Fits
    <3>2. ASSUME NEW n \in {0, 2},
                 given' = Append(given, [key |-> Caching!hashKeyForCache(c.request),
                                         choices |-> n]),
                 Caching!Becomes(i, [c EXCEPT
                     !.response = Len(given) + 1, !.step = "put",
                     !.streamed = IF c.request.streams /\ n > 0 THEN Len(given) + 1 ELSE 0])
          PROVE  Caching!IInv'
      <4> DEFINE d == [c EXCEPT
                     !.response = Len(given) + 1, !.step = "put",
                     !.streamed = IF c.request.streams /\ n > 0 THEN Len(given) + 1 ELSE 0]
                 told == [key |-> Caching!hashKeyForCache(c.request), choices |-> n]
      <4>1. /\ told \in [key : Caching!Keys, choices : {0, 2}] /\ told.key = Caching!Key(c)
            /\ told.choices = n
        BY <2>2, <3>1 DEF Caching!Key
      <4>2. /\ d \in Called /\ d.request = c.request /\ d.hit = c.hit /\ d.step = "put"
            /\ d.response = Len(given) + 1
            /\ d.streamed = IF c.request.streams /\ n > 0 THEN Len(given) + 1 ELSE 0
        <5>1. /\ Len(given) + 1 \in Nat
              /\ (IF c.request.streams /\ n > 0 THEN Len(given) + 1 ELSE 0) \in Nat
          BY <1>0
        <5> QED BY <2>1, <5>1 DEF Called
      <4> HIDE DEF d, told
      <4>3. calls' = [calls EXCEPT ![i] = d] /\ given' = Append(given, told)
        BY <3>2 DEF Caching!Becomes, d, told
      <4>4. /\ given' \in Seq([key : Caching!Keys, choices : {0, 2}])
            /\ Len(given') = Len(given) + 1
            /\ given'[Len(given) + 1] = told
            /\ \A k \in DOMAIN given : given'[k] = given[k]
        BY <1>0, <4>1, <4>3, AppendProperties
      <4>5. Fits(d, given')
        BY <1>0, <3>1, <4>1, <4>2, <4>4 DEF Fits, Caching!Key
      <4>6. /\ Caching!CallsInv' /\ Caching!StepInv' /\ Caching!HitsWerePut'
            /\ DOMAIN calls' = DOMAIN calls
            /\ \A j \in DOMAIN calls : j # i => calls'[j] = calls[j]
        <5>1. Len(given) <= Len(given')
          BY <1>0, <4>4
        <5>2. d.hit = FALSE /\ c.step # "ok" /\ c.request.options # "function"
          BY <2>1, <2>2, <3>1, <4>2 DEF Called
        <5> QED BY <1>7, <4>2, <4>3, <4>4, <4>5, <5>1, <5>2, OneCall
      <4>7. Caching!GivenInv' /\ Caching!KeptInv'
        BY <1>0, <3>1, <4>4, <4>6, KeptStays
      <4> QED BY <1>5, <4>6, <4>7
    <3>3. CASE Caching!Becomes(i, [c EXCEPT !.step = "error"]) /\ UNCHANGED given
      <4> DEFINE d == [c EXCEPT !.step = "error"]
      <4>1. /\ d \in Called /\ d.request = c.request /\ d.hit = c.hit /\ d.step = "error"
            /\ d.response = 0 /\ d.streamed = 0
        BY <2>1, <3>1 DEF Called
      <4> HIDE DEF d
      <4>2. calls' = [calls EXCEPT ![i] = d]
        BY <3>3 DEF Caching!Becomes, d
      <4>3. Fits(d, given)
        BY <1>0, <4>1 DEF Fits
      <4>4. /\ Caching!CallsInv' /\ Caching!StepInv' /\ Caching!HitsWerePut'
            /\ DOMAIN calls' = DOMAIN calls
            /\ \A j \in DOMAIN calls : j # i => calls'[j] = calls[j]
        <5>1. Fits(d, given')
          BY <3>3, <4>3
        <5>2. d.response = 0 /\ c.step # "ok" /\ c.request.options # "function"
          BY <2>2, <3>1, <4>1
        <5> QED BY <1>6, <1>7, <3>3, <4>1, <4>2, <5>1, <5>2, OneCall
      <4>5. Caching!GivenInv' /\ Caching!KeptInv'
        BY <1>0, <3>1, <3>3, <4>4, KeptStays
      <4> QED BY <1>5, <4>4, <4>5
    <3> QED BY <2>6, <3>2, <3>3 DEF Caching!Ask
  <2>7. CASE Caching!Put(i)
    <3> DEFINE d == [c EXCEPT !.step = "ok"]
    <3>1. c.step = "put" /\ UNCHANGED given /\ calls' = [calls EXCEPT ![i] = d]
      BY <2>7 DEF Caching!Put, Caching!Becomes
    <3>2. entries' = [entries EXCEPT ![Caching!hashKeyForCache(c.request)] = c.response]
      BY <2>7 DEF Caching!Put
    <3>3. /\ d \in Called /\ d.request = c.request /\ d.hit = c.hit /\ d.step = "ok"
          /\ d.response = c.response /\ d.streamed = c.streamed
      BY <2>1 DEF Called
    <3> HIDE DEF d
    <3>4. /\ ~c.hit /\ c.response # 0 /\ given[c.response].key = Caching!Key(c)
          /\ c.response \in Nat
          /\ c.response <= Len(given)
          /\ c.streamed = IF c.request.streams /\ given[c.response].choices > 0
                          THEN c.response ELSE 0
      BY <2>1, <3>1 DEF Fits, Called
    <3>5. Fits(d, given)
      BY <1>0, <3>3, <3>4 DEF Fits, Caching!Key
    <3>6. /\ Caching!CallsInv' /\ Caching!StepInv' /\ Caching!HitsWerePut'
          /\ DOMAIN calls' = DOMAIN calls
          /\ calls'[i] = d
          /\ \A j \in DOMAIN calls : j # i => calls'[j] = calls[j]
      <4>1. Fits(d, given')
        BY <3>1, <3>5
      <4>2. ~d.hit /\ c.step # "ok" /\ c.request.options # "function"
        BY <2>2, <3>1, <3>3, <3>4
      <4> QED BY <1>6, <1>7, <3>1, <3>3, <4>1, <4>2, OneCall
    <3>7. /\ entries' \in [Caching!Keys -> 0..Len(given)]
          /\ \A k \in Caching!Keys :
                entries'[k] = IF k = Caching!Key(c) THEN c.response ELSE entries[k]
      BY <1>0, <2>2, <3>1, <3>2, <3>4 DEF Caching!GivenInv, Caching!Key
    <3>8. Caching!GivenInv'
      BY <3>1, <3>4, <3>7 DEF Caching!GivenInv
    <3>9. Caching!KeptInv'
      <4> SUFFICES ASSUME NEW k \in Caching!Keys, entries'[k] # 0
                   PROVE  \E j \in DOMAIN calls' : /\ ~calls'[j].hit /\ calls'[j].step = "ok"
                                                   /\ calls'[j].response = entries'[k]
        BY DEF Caching!KeptInv
      <4>1. CASE k = Caching!Key(c)
        BY <3>3, <3>4, <3>6, <3>7, <4>1
      <4>2. CASE k # Caching!Key(c)
        <5>1. PICK j \in DOMAIN calls : /\ ~calls[j].hit /\ calls[j].step = "ok"
                                        /\ calls[j].response = entries[k]
          BY <3>7, <4>2 DEF Caching!KeptInv
        <5>2. j # i
          BY <3>1, <5>1
        <5> QED BY <3>6, <3>7, <4>2, <5>1, <5>2
      <4> QED BY <4>1, <4>2
    <3> QED BY <1>5, <3>6, <3>8, <3>9
  <2> QED BY <1>2, <2>4, <2>5, <2>6, <2>7
<1>3. CASE Caching!Expire
  <2>1. PICK k \in Caching!Keys :
           entries' = [entries EXCEPT ![k] = 0] /\ UNCHANGED <<calls, given>>
    BY <1>3 DEF Caching!Expire
  <2>2. /\ entries' \in [Caching!Keys -> 0..Len(given)]
        /\ \A l \in Caching!Keys : entries'[l] = entries[l] \/ entries'[l] = 0
    BY <1>0, <2>1 DEF Caching!GivenInv
  <2>3. Caching!GivenInv'
    BY <2>1, <2>2 DEF Caching!GivenInv
  <2>4. Caching!CallsInv' /\ Caching!StepInv' /\ Caching!HitsWerePut'
    BY <2>1 DEF Caching!CallsInv, Caching!StepInv, Caching!HitsWerePut, Caching!Key
  <2>5. Caching!KeptInv'
    BY <2>1, <2>2 DEF Caching!KeptInv
  <2> QED BY <1>5, <2>3, <2>4, <2>5
<1>4. CASE UNCHANGED Caching!vars
  BY <1>4, <1>5 DEF Caching!vars, Caching!CallsInv, Caching!GivenInv, Caching!StepInv,
      Caching!KeptInv, Caching!HitsWerePut, Caching!Key
<1> QED BY <1>1, <1>2, <1>3, <1>4 DEF Caching!Next

(* The promises follow. *)
LEMMA CachePromises ==
    ASSUME MaxRequests \in Nat, Caching!IInv
    PROVE  Caching!CachedIsAnswer /\ Caching!TypeOK
<1>1. \A i \in DOMAIN calls : calls[i].step = "ok" => calls[i].request.options # "function"
  BY DEF Caching!IInv, Caching!CallsInv
<1>2. Caching!CachedIsAnswer
  BY DEF Caching!IInv, Caching!CachedIsAnswer, Caching!StepInv, Caching!Key,
      Caching!hashKeyForCache
<1>3. /\ calls \in Seq(Called) /\ Len(calls) \in Nat /\ DOMAIN calls = 1..Len(calls)
      /\ given \in Seq([key : Caching!Keys, choices : {0, 2}]) /\ Len(given) \in Nat
  BY LenProperties DEF Caching!IInv, Caching!CallsInv, Called, Caching!GivenInv
<1>4. Len(given) <= MaxRequests
  <2>1. IsFiniteSet(1..Len(calls)) /\ Caching!Cardinality(1..Len(calls)) = Len(calls)
    <3> DEFINE n == Len(calls)
    <3>1. n \in Nat /\ n \in Int /\ 1 \in Int
      BY <1>3
    <3> HIDE DEF n
    <3>2. IsFiniteSet(1..n) /\ Caching!Cardinality(1..n) = IF 1 > n THEN 0 ELSE n - 1 + 1
      BY <3>1, FS_Interval, SameCount
    <3>3. Caching!Cardinality(1..n) = n
      BY <3>1, <3>2
    <3> QED BY <3>2, <3>3 DEF n
  <2>2. Caching!Askers \subseteq 1..Len(calls)
    BY <1>3 DEF Caching!Askers
  <2>3. /\ Caching!Cardinality(Caching!Askers) <= Caching!Cardinality(1..Len(calls))
        /\ IsFiniteSet(Caching!Askers)
    BY <2>1, <2>2, FS_Subset, SameCount
  <2>4. Caching!Cardinality(Caching!Askers) \in Nat
    BY <2>3, FS_CardinalityType, SameCount
  <2>5. Len(given) <= Caching!Cardinality(Caching!Askers) /\ Len(calls) <= MaxRequests
    BY DEF Caching!IInv, Caching!SizeInv
  <2> QED BY <1>3, <2>1, <2>3, <2>4, <2>5
<1>5. calls \in Seq(Caching!Calls)
  <2>1. ASSUME NEW i \in 1..Len(calls) PROVE calls[i] \in Caching!Calls
    <3> DEFINE c == calls[i]
    <3>1. c \in Called /\ Fits(c, given)
      BY <1>3, ElementOfSeq DEF Caching!IInv, Caching!StepInv, Fits
    <3> HIDE DEF c
    <3>2. c.response \in 0..MaxRequests
      BY <1>3, <1>4, <3>1 DEF Called, Fits
    <3>3. c.streamed \in {0, c.response}
      BY <3>1 DEF Called, Fits
    <3>4. c \in Caching!Calls
      <4>1. c.streamed \in 0..MaxRequests
        BY <3>2, <3>3
      <4> QED BY <3>1, <3>2, <4>1 DEF Called, Caching!Calls
    <3> QED BY <3>4 DEF c
  <2> QED BY <1>3, <2>1, SeqDef
<1>6. entries \in [Caching!Keys -> 0..MaxRequests]
  BY <1>3, <1>4 DEF Caching!IInv, Caching!GivenInv
<1> QED BY <1>2, <1>3, <1>4, <1>5, <1>6 DEF Caching!TypeOK, Caching!IInv, Caching!SizeInv

(* A message of an image is its own JSON, so that the key tells the request. *)
LEMMA KeysAreApart ==
    ASSUME Caching!IInv
    PROVE  Caching!KeysTellRequests
<1>1. ASSUME NEW r \in Caching!Requests
      PROVE  Caching!hashKeyForCache(r) = [message |-> r.message, options |-> r.options]
  <2>1. PICK detail \in {"", "low"} : r.message = Caching!Image(detail)
    BY DEF Caching!Requests
  <2>2. Caching!Image(detail).parts[1].type = "image_url"
    BY DEF Caching!Image
  <2>3. Caching!MarshalJSON(r.message) = r.message
    BY <2>1, <2>2 DEF Caching!MarshalJSON
  <2> QED BY <2>3 DEF Caching!hashKeyForCache
<1>2. \A i \in DOMAIN calls : calls[i].request \in Caching!Requests
  <2>1. calls \in Seq(Called) /\ DOMAIN calls = 1..Len(calls)
    BY LenProperties DEF Caching!IInv, Caching!CallsInv, Called
  <2>2. \A i \in DOMAIN calls : calls[i] \in Called
    BY <2>1, ElementOfSeq
  <2> QED BY <2>2 DEF Called
<1>3. ASSUME NEW r \in Caching!Requests, NEW q \in Caching!Requests,
             Caching!hashKeyForCache(r) = Caching!hashKeyForCache(q)
      PROVE  r.message = q.message /\ r.options = q.options
  <2>1. [message |-> r.message, options |-> r.options] =
           [message |-> q.message, options |-> q.options]
    BY <1>1, <1>3
  <2> QED BY <2>1
<1> QED BY <1>2, <1>3 DEF Caching!KeysTellRequests

(* Caching!Messages come back from their JSON. *)
LEMMA MessagesComeBack == Caching!MessagesSurvive
<1>1. ASSUME NEW m \in Caching!Messages
      PROVE  \/ Caching!UnmarshalJSON(Caching!MarshalJSON(m)) = m
             \/ m.parts = <<[type |-> "text", value |-> ""]>>
  <2>1. /\ m = [role |-> m.role, parts |-> m.parts] /\ "parts" \in DOMAIN m
        /\ \/ m.parts \in {<<>>} \cup {<<p>> : p \in Caching!Part}
           \/ m.parts \in Caching!Part \X Caching!Part
    BY DEF Caching!Messages
  <2>2. CASE Caching!MarshalJSON(m) = m
    BY <2>1, <2>2 DEF Caching!UnmarshalJSON
  <2>3. CASE Caching!MarshalJSON(m) # m
    <3>1. /\ Len(m.parts) = 1 /\ m.parts[1].type = "text"
          /\ Caching!MarshalJSON(m) = [role |-> m.role, text |-> m.parts[1].value]
      BY <2>3 DEF Caching!MarshalJSON
    <3>2. PICK p \in Caching!Part : m.parts = <<p>>
      BY <2>1, <3>1
    <3>3. p = [type |-> "text", value |-> p.value]
      <4>1. m.parts[1] = p
        BY <3>2
      <4>2. p.type = "text"
        BY <3>1, <4>1
      <4>3. p \in [type : {"text"}, value : {"", "x"}]
        BY <4>2 DEF Caching!Part
      <4> QED BY <4>3
    <3> DEFINE json == [role |-> m.role, text |-> p.value]
    <3>4. /\ Caching!MarshalJSON(m) = json /\ json.role = m.role /\ json.text = p.value
          /\ "parts" \notin DOMAIN json
      <4>1. m.parts[1].value = p.value
        BY <3>2
      <4> QED BY <3>1, <4>1
    <3> HIDE DEF json
    <3>5. CASE p.value = ""
      BY <3>2, <3>3, <3>5
    <3>6. CASE p.value # ""
      <4>1. Caching!UnmarshalJSON(json) =
               [role |-> m.role, parts |-> <<[type |-> "text", value |-> p.value]>>]
        BY <3>4, <3>6 DEF Caching!UnmarshalJSON
      <4> QED BY <2>1, <3>2, <3>3, <3>4, <4>1
    <3> QED BY <3>5, <3>6
  <2> QED BY <2>2, <2>3
<1>2. \A p \in Caching!Part : Caching!UnmarshalPart(p) = p \/ p.type = "tool_call"
  BY DEF Caching!UnmarshalPart
<1> QED BY <1>1, <1>2 DEF Caching!MessagesSurvive

-----------------------------------------------------------------------------
(* All of them.                                                            *)

\* The state of a part has the invariant of that part.
PartsInv ==
    /\ part = "stream" => Streams!IInv
    /\ part = "conversion" => Streams!Asking!IInv
    /\ part = "call" => Calls!IInv
    /\ part = "documents" =>
          Acting!Docs!IInv /\ Acting!Docs!AnswerInv /\ Acting!Docs!ToldInv
    /\ part = "acts" => Acting!IInv
    /\ part = "agent" => Acting!Planning!IInv
    /\ part = "cache" => Caching!IInv
    /\ part = "final" => Streams!Passing!IInv
    /\ part = "site" => Scraping!IInv /\ Scraping!SizeInv

(* The bounds are natural numbers. *)
LEMMA Bounds == /\ MaxLines \in Nat /\ MaxDocs \in Nat /\ MaxPrinciples \in Nat
                /\ MaxPlans \in Nat /\ MaxVisits \in Nat \ {0}
                /\ MaxRequests \in Nat /\ MaxChoices \in Nat \ {0} /\ MaxCalls \in Nat
BY BoundsAssumption

(* What a conversation may be.                                             *)
LEMMA Conversations == Streams!Bounded
<1>1. 3 \in Nat
  OBVIOUS
<1>2. ASSUME NEW l \in ManyParts PROVE l \in Seq(Streams!Asking!Kinds) /\ Len(l) <= 3
  <2>1. <<>> \in Seq(Streams!Asking!Kinds) /\ Len(<<>>) <= 3
    OBVIOUS
  <2>2. \A a \in Streams!Asking!Kinds : /\ <<a>> \in Seq(Streams!Asking!Kinds)
                                        /\ Len(<<a>>) <= 3
    OBVIOUS
  <2>3. \A a, b \in Streams!Asking!Kinds : /\ <<a, b>> \in Seq(Streams!Asking!Kinds)
                                           /\ Len(<<a, b>>) <= 3
    OBVIOUS
  <2>4. {"text", "binary", "image", "call", "answer"} \subseteq Streams!Asking!Kinds
    BY DEF Streams!Asking!Kinds
  <2>5. \/ l = <<>> \/ \E a \in Streams!Asking!Kinds : l = <<a>>
        \/ \E a, b \in Streams!Asking!Kinds : l = <<a, b>>
    BY <2>4 DEF ManyParts
  <2> QED BY <2>1, <2>2, <2>3, <2>5
<1> QED BY <1>1, <1>2 DEF Streams!Bounded

(* Each part begins with its invariant.                                    *)
LEMMA PartsInit == ASSUME Init PROVE PartsInv
<1>1. CASE InitModel
  <2>1. CASE part = "stream" /\ Streams!Init
    BY <2>1, Bounds, Streams!Initially DEF PartsInv
  <2>2. CASE part = "conversion" /\ Streams!Asking!Init
    BY <2>2, Conversations, Streams!ConversionInit DEF PartsInv
  <2>3. CASE part = "call" /\ Calls!Init
    BY <2>3, Bounds, CallInit DEF PartsInv
  <2> QED BY <1>1, <2>1, <2>2, <2>3 DEF InitModel
<1>2. CASE InitChain
  <2>1. CASE part = "documents" /\ Acting!Docs!Init
    BY <2>1, Bounds, Acting!DocumentsInit, Acting!AnswersInit,
       Acting!ToldInit DEF PartsInv
  <2>2. CASE part = "acts" /\ Acting!Init
    BY <2>2, Bounds, Acting!ActsInit DEF PartsInv
  <2>3. CASE part = "agent" /\ Acting!Planning!Init
    BY <2>3, Bounds, Acting!PlansBegin DEF PartsInv
  <2> QED BY <1>2, <2>1, <2>2, <2>3 DEF InitChain
<1>3. CASE InitAround
  <2>1. CASE part = "final" /\ Streams!Passing!Init
    BY <2>1, Streams!PassInit DEF PartsInv
  <2>2. CASE part = "site" /\ Scraping!Init
    <3>1. visits = <<Scraping!Begun("home")>> /\ outcome = "none"
      BY <2>2 DEF Scraping!Init
    <3>2. 1 <= MaxVisits
      BY Bounds
    <3>3. Scraping!SizeInv
      BY <3>1, <3>2 DEF Scraping!SizeInv
    <3> QED BY <2>2, <3>3, SiteInit DEF PartsInv
  <2>3. CASE part = "cache" /\ Caching!Init
    BY <2>3, Bounds, CacheInit DEF PartsInv
  <2> QED BY <1>3, <2>1, <2>2, <2>3 DEF InitAround
<1> QED BY <1>1, <1>2, <1>3 DEF Init

(* Every step is one of a part, which stays the same, or changes nothing.  *)
LEMMA PartsSteps ==
    ASSUME PartsInv, [Next]_vars
    PROVE  PartsInv'
<1>1. CASE Read \/ Receive \/ ChannelClosed \/ Take
  <2>1. part = "stream" /\ part' = part /\ Streams!Next
    BY <1>1 DEF Read, Receive, ChannelClosed, Take, Stream, Streams!Next
  <2> QED BY <2>1, Bounds, Streams!Induction DEF PartsInv
<1>2. CASE Call
  BY <1>2, Bounds, CallSteps DEF Call, PartsInv
<1>3. CASE FromTexts
  BY <1>3, Acting!DocumentsSteps, Acting!AnswersSteps,
     Acting!ToldSteps DEF FromTexts, PartsInv
<1>4. CASE ActOn
  BY <1>4, Bounds, Acting!ActsSteps DEF ActOn, PartsInv
<1>5. CASE PlanWith
  BY <1>5, Bounds, Acting!PlansKept DEF PlanWith, PartsInv
<1>6. CASE Scrape
  BY <1>6, Bounds, SiteSteps, SiteFits DEF Scrape, PartsInv
<1>7. CASE Convert
  BY <1>7, Conversations, Streams!ConversionKept DEF Convert, PartsInv
<1>10. CASE PassOn
  BY <1>10, Streams!PassSteps DEF PassOn, PartsInv
<1>8. CASE Cache
  BY <1>8, Bounds, CacheSteps DEF Cache, PartsInv
<1>9. CASE UNCHANGED vars
  <2>1. /\ UNCHANGED Streams!vars /\ UNCHANGED Calls!vars /\ UNCHANGED Acting!Docs!vars
        /\ UNCHANGED Acting!vars /\ UNCHANGED Acting!Planning!vars
        /\ UNCHANGED Scraping!vars
        /\ UNCHANGED Caching!vars /\ UNCHANGED Streams!Passing!vars
        /\ UNCHANGED Streams!Asking!vars /\ part' = part
    BY <1>9 DEF vars, ofStream, ofCall, ofDocuments, ofChains, ofSite, ofCache, ofFinal,
                ofConversion, Streams!Asking!vars,
                Streams!vars, Calls!vars, Acting!Docs!vars, Acting!vars, Acting!Planning!vars,
                Scraping!vars, Caching!vars, Streams!Passing!vars
  <2> QED BY <2>1, Bounds, Streams!Induction, CallSteps, Acting!DocumentsSteps,
             Acting!AnswersSteps, Acting!ToldSteps, Acting!ActsSteps,
             Acting!PlansKept, CacheSteps, SiteSteps, SiteFits, Streams!PassSteps, Conversations, Streams!ConversionKept
          DEF PartsInv
<1> QED BY <1>1, <1>2, <1>3, <1>4, <1>5, <1>6, <1>7, <1>8, <1>9, <1>10 DEF Next

(* The invariants of the parts hold throughout.                            *)
THEOREM PartsInvariance == Spec => []PartsInv
<1>1. Init => PartsInv
  BY PartsInit
<1>2. PartsInv /\ [Next]_vars => PartsInv'
  BY PartsSteps
<1> QED BY <1>1, <1>2, PTL DEF Spec

(* A failure is never an answer, in any part: of the connection that carries a   *)
(* stream, of the streaming function, of the service, of a retriever, of what a  *)
(* chain or an agent runs, of a site; and what callbacks are told agrees.        *)
THEOREM FailuresAlwaysSurface == Spec => []FailuresSurface
<1>1. PartsInv => FailuresSurface
  <2> SUFFICES ASSUME PartsInv PROVE FailuresSurface
    OBVIOUS
  <2>1. part = "stream" => Streams!FaultReported /\ Streams!FunctionErrorReturned
    BY Streams!Consequences DEF PartsInv
  <2>2. part = "call" => /\ Calls!FailureIsError /\ Calls!GarbageIsError
                         /\ Calls!ReportsAgree /\ Calls!ReportIsOutcome /\ Calls!FailureReported
    BY DEF PartsInv, Calls!IInv
  <2>3. part = "documents" =>
            Acting!Docs!FailuresHaveCauses /\ Acting!Docs!MemoryKeepsAnswered
    BY DEF PartsInv, Acting!Docs!IInv
  <2>4. part = "acts" => Acting!FailureIsTold
    BY DEF PartsInv, Acting!IInv, Acting!CourseInv
  <2>5. part = "agent" => Acting!Planning!FailureEnds
    BY DEF PartsInv, Acting!Planning!IInv
  <2>6. part = "site" => Scraping!SiteFailureTold
    BY DEF PartsInv, Scraping!IInv
  <2> QED BY <2>1, <2>2, <2>3, <2>4, <2>5, <2>6 DEF FailuresSurface
<1> QED BY <1>1, PartsInvariance, PTL

(* When a call has returned its reader ends, its streaming function is called no *)
(* more and no page is being read, but in the cases the properties name.         *)
THEOREM NothingStaysBehind == Spec => []NothingLeftBehind
<1>1. PartsInv => NothingLeftBehind
  <2> SUFFICES ASSUME PartsInv PROVE NothingLeftBehind
    OBVIOUS
  <2>1. part = "stream" => Streams!QuietAfterReturn /\ Streams!StrandedOnlyIfAbandoned
    BY Streams!Consequences DEF PartsInv
  <2>2. part = "site" => Scraping!VisitsEnded
    BY DEF PartsInv, Scraping!IInv
  <2> QED BY <2>1, <2>2 DEF NothingLeftBehind
<1> QED BY <1>1, PartsInvariance, PTL

(* What the cache gives to a request had been answered to the same messages and *)
(* options and put there by a call that asked the model; keys tell requests     *)
(* apart, messages come back from their JSON, and the calls and answers keep    *)
(* their types: however many ask at a time.                                     *)
THEOREM CachedAnswersStand ==
    Spec => [](part = "cache" => /\ Caching!CachedIsAnswer /\ Caching!HitsWerePut
                                 /\ Caching!KeysTellRequests /\ Caching!MessagesSurvive
                                 /\ Caching!TypeOK)
<1>1. PartsInv => (part = "cache" => /\ Caching!CachedIsAnswer /\ Caching!HitsWerePut
                                     /\ Caching!KeysTellRequests /\ Caching!MessagesSurvive
                                     /\ Caching!TypeOK)
  <2> SUFFICES ASSUME PartsInv, part = "cache"
               PROVE  /\ Caching!CachedIsAnswer /\ Caching!HitsWerePut
                      /\ Caching!KeysTellRequests /\ Caching!MessagesSurvive
                      /\ Caching!TypeOK
    OBVIOUS
  <2>1. Caching!IInv
    BY DEF PartsInv
  <2>2. Caching!HitsWerePut
    BY <2>1 DEF Caching!IInv
  <2> QED BY <2>1, <2>2, Bounds, CachePromises, KeysAreApart, MessagesComeBack
<1> QED BY <1>1, PartsInvariance, PTL

(* A prompt gets the first answer and never fewer than one; tools are told to    *)
(* the service or refused; what was streamed succeeds; a call the model asks for *)
(* reaches the answer once and stays with the candidate that asks for it: for    *)
(* any number of candidates and of calls in each.                                *)
THEOREM CallsAnswerWell ==
    Spec => [](part = "call" => /\ Calls!TypeOK /\ Calls!PromptGetsFirst
                                /\ Calls!CallsOnce /\ Calls!CallsStayWithChoice
                                /\ Calls!ToolsOfferedOrRefused /\ Calls!StreamedCallSucceeds)
<1>1. PartsInv => (part = "call" => /\ Calls!TypeOK /\ Calls!PromptGetsFirst
                                    /\ Calls!CallsOnce /\ Calls!CallsStayWithChoice
                                    /\ Calls!ToolsOfferedOrRefused
                                    /\ Calls!StreamedCallSucceeds)
  <2> SUFFICES ASSUME PartsInv, part = "call"
               PROVE  /\ Calls!TypeOK /\ Calls!PromptGetsFirst
                      /\ Calls!CallsOnce /\ Calls!CallsStayWithChoice
                      /\ Calls!ToolsOfferedOrRefused /\ Calls!StreamedCallSucceeds
    OBVIOUS
  <2>1. Calls!IInv
    BY DEF PartsInv
  <2>2. Calls!TypeOK
    BY <2>1, CallTypes
  <2> QED BY <2>1, <2>2 DEF Calls!IInv
<1> QED BY <1>1, PartsInvariance, PTL

(* A request tells the conversation, whichever model takes it: in its order, each  *)
(* part under the role that said it, whole, with every call and every answer to  *)
(* one, but for the losses that are named; and no text makes it panic.            *)
THEOREM ConversationsAreTold ==
    Spec => [](part = "conversion" =>
                  /\ Streams!Asking!TypeOK
                  /\ Streams!Asking!MessagesInOrder /\ Streams!Asking!RolesKept
                  /\ Streams!Asking!PlainChatArrives /\ Streams!Asking!RolesAlternate
                  /\ Streams!Asking!CallsArrive /\ Streams!Asking!AnswersArrive
                  /\ Streams!Asking!LossesKnown /\ Streams!Asking!TextNeverPanics)
<1>1. PartsInv => (part = "conversion" =>
                      /\ Streams!Asking!TypeOK
                      /\ Streams!Asking!MessagesInOrder /\ Streams!Asking!RolesKept
                      /\ Streams!Asking!PlainChatArrives /\ Streams!Asking!RolesAlternate
                      /\ Streams!Asking!CallsArrive /\ Streams!Asking!AnswersArrive
                      /\ Streams!Asking!LossesKnown /\ Streams!Asking!TextNeverPanics)
  <2>1. PartsInv /\ part = "conversion" => Streams!Asking!IInv
    BY DEF PartsInv
  <2>2. Streams!Asking!IInv => Streams!Asking!TypeOK
    BY DEF Streams!Asking!IInv
  <2> QED BY <2>1, <2>2, Conversations, Streams!ConversionTells
<1> QED BY <1>1, PartsInvariance, PTL

(* A request tells all it is about, in each part: the conversation, in its order  *)
(* and under its roles; the documents, each once; the response as it was last    *)
(* revised; every step of an agent with the call it answers; and the key of the   *)
(* cache tells the request.                                                      *)
THEOREM RequestsTellAll == Spec => []RequestTellsConversation
<1>1. PartsInv => RequestTellsConversation
  <2> SUFFICES ASSUME PartsInv PROVE RequestTellsConversation
    OBVIOUS
  <2>1. part = "cache" => Caching!KeysTellRequests /\ Caching!MessagesSurvive
    BY KeysAreApart, MessagesComeBack DEF PartsInv
  <2>2. part = "documents" => /\ Acting!Docs!DocumentsAreTold
                              /\ Acting!Docs!QuestionIsCondensedFirst
    BY DEF PartsInv, Acting!Docs!ToldInv, Acting!Docs!AnswerInv
  <2>3. part = "acts" => Acting!PrinciplesAreApplied
    BY Bounds, Acting!ActsPromise DEF PartsInv
  <2>4. part = "agent" => Acting!Planning!StepsAreTold /\ Acting!Planning!CallsAreAnswered
    BY DEF PartsInv, Acting!Planning!IInv
  <2>5. part = "conversion" =>
            /\ Streams!Asking!MessagesInOrder /\ Streams!Asking!RolesKept
            /\ Streams!Asking!PlainChatArrives /\ Streams!Asking!RolesAlternate
            /\ Streams!Asking!CallsArrive /\ Streams!Asking!AnswersArrive
            /\ Streams!Asking!LossesKnown /\ Streams!Asking!TextNeverPanics
    BY Conversations, Streams!ConversionTells DEF PartsInv
  <2> QED BY <2>1, <2>2, <2>3, <2>4, <2>5 DEF RequestTellsConversation
<1> QED BY <1>1, PartsInvariance, PTL

(* The state of every part keeps its types.                                      *)
THEOREM TypeCorrect == Spec => []TypeOK
<1>1. PartsInv => TypeOK
  <2> SUFFICES ASSUME PartsInv PROVE TypeOK
    OBVIOUS
  <2>1. part = "stream" => Streams!TypeOK
    BY Streams!Consequences DEF PartsInv
  <2>2. part = "conversion" => Streams!Asking!TypeOK
    BY DEF PartsInv, Streams!Asking!IInv
  <2>3. part = "call" => Calls!TypeOK
    BY CallTypes DEF PartsInv
  <2>4. part = "documents" => Acting!Docs!TypeOK
    BY DEF PartsInv, Acting!Docs!AnswerInv
  <2>5. part = "acts" => Acting!TypeOK
    BY DEF PartsInv, Acting!IInv
  <2>6. part = "agent" => Acting!Planning!TypeOK
    BY DEF PartsInv, Acting!Planning!IInv, Acting!Planning!StoryInv
  <2>7. part = "cache" => Caching!TypeOK
    BY Bounds, CachePromises DEF PartsInv
  <2>8. part = "final" => Streams!Passing!TypeOK
    BY DEF PartsInv, Streams!Passing!IInv
  <2>9. part = "site" => Scraping!TypeOK
    BY SiteTypes DEF PartsInv
  <2> QED BY <2>1, <2>2, <2>3, <2>4, <2>5, <2>6, <2>7, <2>8, <2>9 DEF TypeOK
<1> QED BY <1>1, PartsInvariance, PTL

(* What is given is what the model, the service or the site said, in each part:  *)
(* the text that was streamed, whole; the first answer for a prompt, and each   *)
(* call once where its client gives the calls of such an answer at all; the     *)
(* same answer as before from the cache; the last or the best answer of a chain, *)
(* whose query is run whole and once; the final answer of an agent, and to its  *)
(* listener that alone; each page of a site once, under its address.            *)
THEOREM AnswersAreSaid == Spec => []AnswerIsWhatWasSaid
<1>1. PartsInv => AnswerIsWhatWasSaid
  <2> SUFFICES ASSUME PartsInv PROVE AnswerIsWhatWasSaid
    OBVIOUS
  <2>1. part = "cache" => Caching!CachedIsAnswer /\ Caching!HitsWerePut
    BY Bounds, CachePromises DEF PartsInv, Caching!IInv
  <2>2. part = "site" => /\ Scraping!PagesOnce /\ Scraping!TextUnderAddress
                         /\ Scraping!EveryPageRead
    <3> SUFFICES ASSUME part = "site"
                 PROVE  /\ Scraping!PagesOnce /\ Scraping!TextUnderAddress
                        /\ Scraping!EveryPageRead
      OBVIOUS
    <3>1. Scraping!IInv
      BY DEF PartsInv
    <3>2. Scraping!TextUnderAddress
      BY <3>1 DEF Scraping!IInv, Scraping!PlaceInv, Scraping!TextUnderAddress
    <3> QED BY <3>1, <3>2, PagesToldOnce, PagesAreRead
  <2>3. part = "documents" => Acting!Docs!AnswerIsBest
    BY DEF PartsInv, Acting!Docs!AnswerInv
  <2>4. part = "acts" => Acting!QueryIsRun /\ Acting!DoneOnce /\ Acting!LastIsReturned
    BY Bounds, Acting!ActsPromise DEF PartsInv
  <2>5. part = "agent" => Acting!Planning!FinalIsReturned
    BY DEF PartsInv, Acting!Planning!IInv
  <2>6. part = "stream" => Streams!StreamedIsReturned /\ Streams!AnswerIsComplete
    BY Streams!Consequences DEF PartsInv
  <2>7. part = "call" => /\ Calls!PromptGetsFirst /\ Calls!CallsOnce
                         /\ Calls!CallsStayWithChoice /\ Calls!ToolsOfferedOrRefused
                         /\ Calls!StreamedCallSucceeds
    BY DEF PartsInv, Calls!IInv
  <2>8. part = "final" => Streams!Passing!FinalIsSent /\ Streams!Passing!ThoughtsAreKept
    BY Streams!PassPromises DEF PartsInv
  <2> QED BY <2>1, <2>2, <2>3, <2>4, <2>5, <2>6, <2>7, <2>8 DEF AnswerIsWhatWasSaid
<1> QED BY <1>1, PartsInvariance, PTL
=============================================================================
