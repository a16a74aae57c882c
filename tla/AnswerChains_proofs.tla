------------------------- MODULE AnswerChains_proofs -------------------------
(***************************************************************************)
(* What the chains that act on their model's answers promise, for any      *)
(* number of principles and of lines of an answer: each principle is       *)
(* applied once, to the response as it was last revised; the query that is *)
(* run is the one the model wrote, and all of it; what is to be done is    *)
(* done once; a failure is told. What an agent plans from is what it did   *)
(* and saw. A chain over documents fails only for the causes the code      *)
(* knows, is answered only if no request failed, with the best of the      *)
(* answers, and the memory of a conversation keeps what was answered: for  *)
(* any number of documents, whatever the order in which they are answered. *)
(***************************************************************************)
EXTENDS AnswerChains, FiniteSetTheorems, SequenceTheorems, WellFoundedInduction, TLAPS

\* AgentPlans has the variables of these chains and one of its own, DocumentChains
\* some of them and two.
CONSTANTS MaxPlans, MaxDocs
VARIABLES messages, docs, kept

Planning == INSTANCE AgentPlans
Docs == INSTANCE DocumentChains

(* A set of positions has a greatest one.                                  *)
LEMMA Greatest ==
    ASSUME NEW m \in Nat, NEW S \in SUBSET (1..m), S # {}
    PROVE  Max(S) \in S /\ \A n \in S : n <= Max(S)
<1> DEFINE T == {m - n : n \in S}
<1>1. T \in SUBSET Nat /\ T # {}
  <2>1. \A n \in S : n \in 1..m /\ m - n \in Nat
    OBVIOUS
  <2> QED BY <2>1
<1>2. PICK x \in T : \A y \in T : ~(<<y, x>> \in OpToRel(<, Nat))
  BY <1>1, WFMin, NatLessThanWellFounded
<1>3. PICK k \in S : x = m - k
  OBVIOUS
<1>4. \A n \in S : n <= k
  <2> SUFFICES ASSUME NEW n \in S PROVE n <= k
    OBVIOUS
  <2>1. m - n \in T /\ m - n \in Nat /\ x \in Nat
    BY <1>1
  <2>2. ~(m - n < x)
    BY <1>2, <2>1 DEF OpToRel
  <2> QED BY <1>3, <2>2
<1> QED BY <1>4 DEF Max

\* The answers to come and those heard.
Replied == [how : {"pending", "failed", "text"}, form : Forms]

(* What the model may say; it says no answer in place of a query or a request. *)
LEMMA Sayable ==
    ASSUME NEW request \in Request, setup \in Setup,
           NEW answer \in Says(request)
    PROVE  /\ answer \in Replied /\ answer.how \in {"failed", "text"}
           /\ (answer.form = <<"Answer:">> /\ request.to = "act")
                => setup.chain \in {"math", "constitutional"}
<1>1. \/ answer = Said("failed", <<>>)
      \/ \E form \in Forms : answer = Said("text", form)
  BY DEF Says, Forms
<1>2. answer \in Replied /\ answer.how \in {"failed", "text"}
  BY <1>1 DEF Said, Replied, Forms
<1>3. ASSUME answer.form = <<"Answer:">>, request.to = "act"
      PROVE  setup.chain \in {"math", "constitutional"}
  <2>1. CASE setup.chain = "api"
    <3>1. Says(request) =
            {Said("failed", <<>>)} \cup
            {Said("text", form) : form \in {<<c>> : c \in Calls}}
      BY <1>3, <2>1 DEF Says
    <3>2. \/ answer = Said("failed", <<>>)
          \/ \E c \in Calls : answer = Said("text", <<c>>)
      BY <3>1
    <3> QED BY <1>3, <3>2 DEF Said, Calls
  <2>2. CASE setup.chain = "sql"
    <3>1. Says(request) =
            {Said("failed", <<>>)} \cup
            {Said("text", form) : form \in Queries}
      BY <1>3, <2>2 DEF Says
    <3>2. \/ answer = Said("failed", <<>>)
          \/ \E form \in Queries : answer = Said("text", form)
      BY <3>1
    <3>3. <<"Answer:">> \notin Queries
      <4> SUFFICES ASSUME NEW n \in 0..MaxLines, <<"Answer:">> \in [1..n -> Lines]
                   PROVE  FALSE
        BY DEF Queries
      <4> DEFINE lone == <<"Answer:">>
      <4>1. DOMAIN lone = 1..1 /\ lone[1] = "Answer:"
        OBVIOUS
      <4>2. DOMAIN lone = 1..n /\ \A k \in 1..n : lone[k] \in Lines
        OBVIOUS
      <4> HIDE DEF lone
      <4>3. 1 \in 1..n
        BY <4>1, <4>2
      <4> QED BY <4>1, <4>2, <4>3 DEF Lines
    <3> QED BY <1>3, <3>2, <3>3 DEF Said
  <2> QED BY <2>1, <2>2 DEF Setup, Chains
<1> QED BY <1>2, <1>3

(* There is always a latest request, with its answer.                      *)
LEMMA RequestsAreRequests ==
    ASSUME CourseInv
    PROVE  /\ Len(asked) \in Nat /\ Len(asked) >= 1 /\ Latest \in DOMAIN asked
           /\ Latest \in DOMAIN answers /\ 1 \in DOMAIN asked /\ 1 \in DOMAIN answers
           /\ DOMAIN asked = 1..Len(asked) /\ DOMAIN answers = 1..Len(asked)
           /\ asked[Latest] \in Request /\ asked[1] \in Request
           /\ answers \in Seq(Replied) /\ setup \in Setup
           /\ asked \in Seq(Request)
<1>1. /\ asked \in Seq(Request) /\ asked # <<>> /\ answers \in Seq(Replied)
      /\ Len(answers) = Len(asked)
      /\ setup \in Setup
  BY DEF CourseInv, AskedInv, Replied
<1>2. /\ Len(asked) \in Nat /\ Len(asked) # 0 /\ DOMAIN asked = 1..Len(asked)
      /\ DOMAIN answers = 1..Len(answers)
  BY <1>1, EmptySeq, LenProperties
<1> QED BY <1>1, <1>2, ElementOfSeq DEF Latest

(* The latest answer is heard, the others stay.                            *)
LEMMA HeardIs ==
    ASSUME CourseInv, NEW answer \in Replied
    PROVE  LET settled == Heard(answer)
           IN /\ settled \in Seq(Replied) /\ Len(settled) = Len(asked)
              /\ DOMAIN settled = DOMAIN answers /\ settled[Latest] = answer
              /\ \A n \in DOMAIN answers : n # Latest => settled[n] = answers[n]
<1>1. /\ answers \in Seq(Replied) /\ Latest \in 1..Len(answers)
      /\ Len(answers) = Len(asked)
  BY RequestsAreRequests DEF CourseInv, AskedInv
<1> QED BY <1>1, ExceptSeq, LenProperties DEF Heard

(* A request is added, with an answer to come.                             *)
LEMMA AskForIs ==
    ASSUME asked \in Seq(Request), NEW settled \in Seq(Replied),
           Len(settled) = Len(asked),
           NEW to \in {"initial", "critique", "revise", "act", "answer"},
           NEW principle \in 0..MaxPrinciples, NEW about \in Nat,
           AskFor(settled, to, principle, about)
    PROVE  /\ asked' \in Seq(Request) /\ asked' # <<>>
           /\ Len(asked') = Len(asked) + 1
           /\ answers' \in Seq(Replied) /\ Len(answers') = Len(asked')
           /\ DOMAIN asked' = 1..Len(asked') /\ DOMAIN answers' = 1..Len(asked')
           /\ asked'[Len(asked')].to = to /\ answers'[Len(asked')].how = "pending"
           /\ asked'[Len(asked')].principle = principle
           /\ asked'[Len(asked')].about = about /\ answers'[Len(asked')] = Pending
           /\ \A n \in DOMAIN asked : asked'[n] = asked[n]
           /\ \A n \in DOMAIN settled : answers'[n] = settled[n]
<1> DEFINE request == [to |-> to, principle |-> principle, about |-> about]
<1>1. /\ request \in Request /\ request.to = to
      /\ request.principle = principle /\ request.about = about
  BY DEF Request
<1>2. Pending \in Replied /\ Pending.how = "pending"
  BY DEF Pending, Said, Replied, Forms
<1>3. asked' = Append(asked, request) /\ answers' = Append(settled, Pending)
  BY DEF AskFor
<1> HIDE DEF request
<1>4. Len(asked) \in Nat /\ DOMAIN asked = 1..Len(asked) /\ DOMAIN settled = 1..Len(asked)
  BY LenProperties
<1>5. /\ asked' \in Seq(Request) /\ asked' # <<>> /\ Len(asked') = Len(asked) + 1
      /\ asked'[Len(asked) + 1] = request /\ \A n \in 1..Len(asked) : asked'[n] = asked[n]
  BY <1>1, <1>3, AppendProperties
<1>6. /\ answers' \in Seq(Replied) /\ Len(answers') = Len(asked) + 1
      /\ answers'[Len(asked) + 1] = Pending
      /\ \A n \in 1..Len(asked) : answers'[n] = settled[n]
  BY <1>2, <1>3, AppendProperties
<1> QED BY <1>1, <1>2, <1>4, <1>5, <1>6, LenProperties

-----------------------------------------------------------------------------
(* The course of a call: one request after the other, until one fails.     *)

(* A chain that acts begins with the invariant.                            *)
LEMMA CourseInit == ASSUME MaxPrinciples \in Nat, Init PROVE CourseInv
<1>1. /\ FirstOf(setup.chain) \in Request /\ Pending \in Replied
      /\ Pending.how = "pending"
  BY DEF Init, FirstOf, Request, Pending, Said, Replied,
      Forms
<1>2. /\ asked = <<FirstOf(setup.chain)>> /\ answers = <<Pending>>
      /\ done = <<>> /\ pc = "ask"
      /\ setup \in Setup /\ outcome.how = "none"
  BY DEF Init
<1>3. /\ asked \in Seq(Request) /\ asked # <<>> /\ answers \in Seq(Replied)
      /\ Len(asked) = 1 /\ Len(answers) = 1 /\ DOMAIN asked = {1} /\ DOMAIN answers = {1}
      /\ answers[1] = Pending /\ asked[1] = FirstOf(setup.chain)
  BY <1>1, <1>2
<1>5. AskedInv /\ RunningInv
  BY <1>1, <1>2, <1>3 DEF AskedInv, RunningInv, Replied
<1>6. DoneInv
  BY <1>2, <1>3 DEF DoneInv, FirstOf, Setup, Chains
<1>7. FailureIsTold
  BY <1>2 DEF FailureIsTold, Ok
<1> QED BY <1>5, <1>6, <1>7 DEF CourseInv

(* The response is the answer to one of the requests.                      *)
LEMMA ResponseIs == ASSUME CourseInv PROVE Response \in Nat
<1> DEFINE S == {1} \cup {n \in 1..Latest : asked[n].to = "revise"}
<1>1. Latest \in Nat /\ S \in SUBSET (1..Latest) /\ S # {}
  BY RequestsAreRequests DEF Latest
<1> HIDE DEF S
<1>2. Max(S) \in S
  BY <1>1, Greatest
<1>3. Max(S) \in 1..Latest
  BY <1>1, <1>2
<1> QED BY <1>1, <1>3 DEF Response, S

(* A critique or a revision keeps the invariant.                           *)
LEMMA CritiqueStep ==
    ASSUME MaxPrinciples \in Nat, CourseInv, processCritiquesAndRevisions
    PROVE CourseInv'
<1>1. /\ setup.chain = "constitutional" /\ pc = "ask" /\ UNCHANGED <<setup, done>>
      /\ setup \in Setup /\ outcome.how = "none"
      /\ \A n \in DOMAIN answers : answers[n].how # "failed"
  BY DEF CourseInv, AskedInv, RunningInv, DoneInv,
      processCritiquesAndRevisions
<1>2. PICK answer \in Says(asked[Latest]) :
        LET settled == Heard(answer)
            request == asked[Latest]
            next == request.principle + 1
            revise == request.to = "critique" /\ answer.form = <<"needed">>
        IN \/ answer.how = "failed" /\ Failed /\ answers' = settled /\ UNCHANGED asked
           \/ /\ answer.how = "text" /\ revise /\ UNCHANGED <<pc, outcome>>
              /\ AskFor(settled, "revise", request.principle, Response)
           \/ /\ answer.how = "text" /\ ~revise /\ next <= setup.principles
              /\ AskFor(settled, "critique", next, Response)
              /\ UNCHANGED <<pc, outcome>>
           \/ /\ answer.how = "text" /\ ~revise /\ next > setup.principles
              /\ Call /\ answers' = settled /\ UNCHANGED asked
  BY DEF processCritiquesAndRevisions
<1> DEFINE settled == Heard(answer)
           request == asked[Latest]
<1>3. request \in Request /\ answer \in Replied
  BY <1>1, RequestsAreRequests, Sayable
<1>4. /\ settled \in Seq(Replied) /\ Len(settled) = Len(asked)
      /\ DOMAIN settled = DOMAIN answers /\ settled[Latest] = answer
      /\ \A n \in DOMAIN answers : n # Latest => settled[n] = answers[n]
  BY <1>3, HeardIs
<1>5. CASE answer.how = "failed" /\ Failed /\ answers' = settled /\ UNCHANGED asked
  <2>1. AskedInv' /\ RunningInv' /\ DoneInv' /\ FailureIsTold'
    BY <1>1, <1>4, <1>5, RequestsAreRequests
    DEF CourseInv, AskedInv, RunningInv, DoneInv,
        FailureIsTold, Ok, Failed, Ended, Replied
  <2> QED BY <2>1 DEF CourseInv
<1>6. CASE /\ answer.how = "text" /\ UNCHANGED <<pc, outcome>>
           /\ \E to \in {"critique", "revise"}, principle \in 0..MaxPrinciples :
                 AskFor(settled, to, principle, Response)
  <2>1. PICK to \in {"critique", "revise"}, principle \in 0..MaxPrinciples :
                 AskFor(settled, to, principle, Response)
    BY <1>6
  <2> HIDE DEF settled
  <2>2. /\ asked' \in Seq(Request) /\ asked' # <<>> /\ Len(asked') = Len(asked) + 1
        /\ answers' \in Seq(Replied) /\ Len(answers') = Len(asked')
        /\ DOMAIN asked' = 1..Len(asked') /\ DOMAIN answers' = 1..Len(asked')
        /\ asked'[Len(asked')].to = to /\ answers'[Len(asked')].how = "pending"
        /\ \A n \in DOMAIN asked : asked'[n] = asked[n]
        /\ \A n \in DOMAIN settled : answers'[n] = settled[n]
    BY <2>1, <1>4, ResponseIs, RequestsAreRequests, AskForIs
  <2>3. \A n \in DOMAIN answers' : answers'[n].how # "failed"
    <3>1. \A n \in DOMAIN settled : settled[n].how # "failed"
      BY <1>1, <1>4, <1>6
    <3>2. DOMAIN settled = 1..Len(asked) /\ Len(asked) \in Nat
      BY <1>4, RequestsAreRequests
    <3>3. \A n \in DOMAIN answers' : n = Len(asked') \/ n \in DOMAIN settled
      BY <2>2, <3>2
    <3> QED BY <2>2, <3>1, <3>3
  <2>4. AskedInv' /\ RunningInv' /\ DoneInv' /\ FailureIsTold'
    BY <1>1, <1>6, <2>2, <2>3
    DEF CourseInv, AskedInv, RunningInv, DoneInv,
        FailureIsTold, Ok, Replied
  <2> QED BY <2>4 DEF CourseInv
<1>7. CASE answer.how = "text" /\ Call /\ answers' = settled /\ UNCHANGED asked
  <2> HIDE DEF settled
  <2>3. \A n \in DOMAIN answers' : answers'[n].how # "failed"
    BY <1>1, <1>4, <1>7
  <2>1. AskedInv' /\ RunningInv' /\ DoneInv' /\ FailureIsTold'
    BY <1>1, <1>4, <1>7, <2>3, RequestsAreRequests
    DEF CourseInv, AskedInv, RunningInv, DoneInv,
        FailureIsTold, Ok, Call, Ended, Replied
  <2> QED BY <2>1 DEF CourseInv
<1>8. \/ request.principle + 1 \in 0..MaxPrinciples
      \/ ~(request.principle + 1 <= setup.principles)
  BY <1>1, <1>3 DEF Request, Setup
<1>9. request.principle \in 0..MaxPrinciples
  BY <1>3 DEF Request
<1> QED BY <1>2, <1>5, <1>6, <1>7, <1>8, <1>9

(* So does what the model says is to be done,                              *)
LEMMA UnderstandStep == ASSUME CourseInv, Understand PROVE CourseInv'
<1>1. /\ setup.chain # "constitutional" /\ pc = "ask" /\ UNCHANGED <<setup, asked>>
      /\ setup \in Setup /\ outcome.how = "none"
      /\ asked[Latest].to = "act" /\ Len(asked) \in Nat /\ Latest = Len(asked)
      /\ \A n \in DOMAIN answers : answers[n].how # "failed"
  BY RequestsAreRequests DEF CourseInv, AskedInv, RunningInv,
      DoneInv, Understand, Latest
<1>2. Len(asked) = 1 /\ done = <<>> /\ Latest = 1 /\ DOMAIN answers = {1}
  <2>1. Latest \in DOMAIN asked
    BY RequestsAreRequests
  <2>2. Latest = 1
    BY <1>1, <2>1 DEF CourseInv, DoneInv
  <2> QED BY <1>1, <2>2, RequestsAreRequests DEF CourseInv, DoneInv
<1>3. PICK answer \in Says(asked[Latest]) :
        /\ answers' = Heard(answer)
        /\ \/ /\ answer.how = "failed" /\ Failed /\ UNCHANGED done
           \/ /\ answer.how = "text" /\ ToDo(answer.form) = {} /\ UNCHANGED done
              /\ IF answer.form = <<"Answer:">>
                 THEN Ended("ok", Latest, {1}, FALSE) ELSE Failed
           \/ /\ answer.how = "text" /\ ToDo(answer.form) # {}
              /\ done' = Append(done, ToDo(answer.form))
              /\ pc' = "act" /\ UNCHANGED outcome
  BY DEF Understand
<1>4. /\ answer \in Replied
      /\ answer.form = <<"Answer:">> => setup.chain = "math"
  BY <1>1, RequestsAreRequests, Sayable
<1>5. /\ answers' \in Seq(Replied) /\ Len(answers') = Len(asked)
      /\ DOMAIN answers' = {1} /\ answers'[1] = answer
  BY <1>2, <1>3, <1>4, HeardIs
<1>6. AskedInv'
  BY <1>1, <1>3, <1>5 DEF CourseInv, AskedInv, Failed, Ended, Replied
<1>7. CASE answer.how = "failed" /\ Failed /\ UNCHANGED done
  <2>1. RunningInv' /\ DoneInv' /\ FailureIsTold'
    BY <1>1, <1>2, <1>5, <1>7 DEF CourseInv, RunningInv, DoneInv,
        FailureIsTold, Ok, Failed, Ended
  <2> QED BY <1>6, <2>1 DEF CourseInv
<1>8. CASE /\ answer.how = "text" /\ UNCHANGED done
           /\ IF answer.form = <<"Answer:">>
              THEN Ended("ok", Latest, {1}, FALSE) ELSE Failed
  <2>1. RunningInv' /\ DoneInv' /\ FailureIsTold'
    BY <1>1, <1>2, <1>4, <1>5, <1>8
    DEF CourseInv, RunningInv, DoneInv, FailureIsTold, Ok,
        Failed, Ended
  <2> QED BY <1>6, <2>1 DEF CourseInv
<1>9. CASE /\ answer.how = "text" /\ done' = Append(done, ToDo(answer.form))
           /\ pc' = "act" /\ UNCHANGED outcome
  <2> DEFINE S == {ToDo(answer.form)}
  <2>1. done \in Seq(S) /\ Len(done) = 0
    BY <1>2, EmptySeq
  <2>2. Len(done') = 1
    BY <1>9, <2>1, AppendProperties
  <2>3. RunningInv' /\ DoneInv' /\ FailureIsTold'
    BY <1>1, <1>2, <1>5, <1>9, <2>2 DEF CourseInv, RunningInv, DoneInv,
        FailureIsTold, Ok
  <2> QED BY <1>6, <2>3 DEF CourseInv
<1> QED BY <1>3, <1>7, <1>8, <1>9

(* doing it,                                                               *)
LEMMA ActStep == ASSUME MaxPrinciples \in Nat, CourseInv, Act PROVE CourseInv'
<1>1. /\ pc = "act" /\ UNCHANGED <<setup, done>>
      /\ setup \in Setup /\ outcome.how = "none"
      /\ Len(asked) \in Nat /\ Latest = Len(asked)
      /\ \A n \in DOMAIN answers : answers[n].how # "failed"
  BY RequestsAreRequests DEF CourseInv, AskedInv, RunningInv,
      DoneInv, Act, Latest
<1>2. CASE Failed /\ UNCHANGED <<asked, answers>>
  <2>1. AskedInv' /\ RunningInv' /\ DoneInv' /\ FailureIsTold'
    BY <1>1, <1>2 DEF CourseInv, AskedInv, RunningInv, DoneInv,
        FailureIsTold, Ok, Failed, Ended
  <2> QED BY <2>1 DEF CourseInv
<1>3. CASE /\ setup.chain = "math" /\ answers[Latest].form = <<"block">>
           /\ Ended("ok", Latest, {}, TRUE) /\ UNCHANGED <<asked, answers>>
  <2>1. Latest = 1
    BY <1>1, <1>3 DEF CourseInv, DoneInv
  <2>2. AskedInv' /\ RunningInv' /\ DoneInv' /\ FailureIsTold'
    BY <1>1, <1>3, <2>1 DEF CourseInv, AskedInv, RunningInv,
        DoneInv, FailureIsTold, Ok, Ended
  <2> QED BY <2>2 DEF CourseInv
<1>4. CASE /\ setup.chain # "math" /\ pc' = "ask" /\ UNCHANGED outcome
           /\ AskFor(answers, "answer", 0, Latest)
  <2>1. /\ asked' \in Seq(Request) /\ asked' # <<>> /\ Len(asked') = Len(asked) + 1
        /\ answers' \in Seq(Replied) /\ Len(answers') = Len(asked')
        /\ DOMAIN asked' = 1..Len(asked') /\ DOMAIN answers' = 1..Len(asked')
        /\ asked'[Len(asked')].to = "answer" /\ answers'[Len(asked')].how = "pending"
        /\ \A n \in DOMAIN asked : asked'[n] = asked[n]
        /\ \A n \in DOMAIN answers : answers'[n] = answers[n]
    <3>1. Len(answers) = Len(asked)
      BY DEF CourseInv, AskedInv
    <3>2. 0 \in 0..MaxPrinciples /\ Latest \in Nat
      BY <1>1
    <3>3. asked \in Seq(Request) /\ answers \in Seq(Replied)
      BY RequestsAreRequests
    <3> QED BY <1>4, <3>1, <3>2, <3>3, AskForIs
  <2>2. DOMAIN asked = 1..Len(asked) /\ DOMAIN answers = 1..Len(asked)
    BY RequestsAreRequests
  <2>3. \A n \in DOMAIN answers' : answers'[n].how # "failed"
    BY <1>1, <2>1, <2>2
  <2>4. AskedInv' /\ RunningInv' /\ FailureIsTold'
    BY <1>1, <1>4, <2>1, <2>3 DEF CourseInv, AskedInv, RunningInv,
        FailureIsTold, Ok, Replied
  <2>5. ASSUME setup.chain # "constitutional" PROVE Len(asked) = 1 /\ Len(done) = 1
    BY <1>1, <2>5 DEF CourseInv, DoneInv
  <2>6. ASSUME setup.chain # "constitutional", NEW n \in DOMAIN asked'
        PROVE  asked'[n].to = IF n = 1 THEN "act" ELSE "answer"
    <3>1. n = 2 \/ (n = 1 /\ n \in DOMAIN asked /\ asked[n].to = "act")
      <4>1. n \in 1..2 /\ 1 \in DOMAIN asked
        BY <2>1, <2>2, <2>5, <2>6
      <4>2. asked[1].to = "act"
        BY <2>6, <4>1 DEF CourseInv, DoneInv
      <4>3. n = 1 \/ n = 2
        BY <4>1
      <4> QED BY <4>1, <4>2, <4>3
    <3>2. Len(asked') = 2 /\ asked'[2].to = "answer"
      <4>1. Len(asked) = 1
        BY <2>5, <2>6
      <4>2. Len(asked') = Len(asked) + 1 /\ asked'[Len(asked')].to = "answer"
        BY <2>1
      <4>3. Len(asked') = 2
        BY <4>1, <4>2
      <4> QED BY <4>2, <4>3
    <3>3. CASE n = 2
      BY <3>2, <3>3
    <3>4. CASE n = 1
      BY <2>1, <3>1, <3>4
    <3> QED BY <3>1, <3>3, <3>4
  <2>7. DoneInv'
    BY <1>1, <1>4, <2>1, <2>5, <2>6 DEF DoneInv
  <2> QED BY <2>4, <2>7 DEF CourseInv
<1> QED BY <1>2, <1>3, <1>4 DEF Act

(* and what the model answers then.                                        *)
LEMMA TellStep == ASSUME CourseInv, Tell PROVE CourseInv'
<1>1. /\ setup.chain # "constitutional" /\ pc = "ask" /\ UNCHANGED <<setup, asked, done>>
      /\ setup \in Setup /\ outcome.how = "none"
      /\ asked[Latest].to = "answer" /\ Len(asked) \in Nat
      /\ Latest = Len(asked)
      /\ \A n \in DOMAIN answers : answers[n].how # "failed"
  BY RequestsAreRequests DEF CourseInv, AskedInv, RunningInv,
      DoneInv, Tell, Latest
<1>2. Len(asked) = 2 /\ Len(done) = 1 /\ setup.chain # "math"
  <2>1. Latest \in DOMAIN asked /\ Len(asked) >= 1
    BY RequestsAreRequests
  <2>2. Latest # 1
    BY <1>1, <2>1 DEF CourseInv, DoneInv
  <2>3. Len(asked) <= IF setup.chain = "math" THEN 1 ELSE 2
    BY <1>1 DEF CourseInv, DoneInv
  <2>4. Len(asked) = 2 /\ setup.chain # "math"
    BY <1>1, <2>1, <2>2, <2>3
  <2> QED BY <1>1, <2>4 DEF CourseInv, DoneInv
<1>3. PICK answer \in Says(asked[Latest]) :
        /\ answers' = Heard(answer)
        /\ IF answer.how = "failed" THEN Failed
           ELSE Ended("ok", Latest,
                      IF setup.chain = "sql" THEN Answer(answer.form) ELSE {1}, FALSE)
  BY DEF Tell
<1>4. answer \in Replied
  BY <1>1, RequestsAreRequests, Sayable
<1>5. /\ answers' \in Seq(Replied) /\ Len(answers') = Len(asked)
      /\ DOMAIN answers' = DOMAIN answers /\ answers'[Latest] = answer
      /\ \A n \in DOMAIN answers : n # Latest => answers'[n] = answers[n]
  BY <1>3, <1>4, HeardIs
<1>6. /\ pc' = "returned" /\ outcome'.how \in {"ok", "error"}
      /\ outcome'.how = "ok" => answer.how # "failed"
  BY <1>3 DEF Failed, Ended
<1>7. AskedInv' /\ RunningInv' /\ DoneInv'
  BY <1>1, <1>5, <1>6 DEF CourseInv, AskedInv, RunningInv, DoneInv,
      Replied
<1>8. FailureIsTold'
  BY <1>1, <1>2, <1>5, <1>6 DEF FailureIsTold, Ok
<1> QED BY <1>7, <1>8 DEF CourseInv

(* Every step of a chain that acts keeps the invariant.                    *)
LEMMA CourseSteps ==
    ASSUME MaxPrinciples \in Nat, CourseInv, [Next]_vars
    PROVE  CourseInv'
<1>1. CASE UNCHANGED vars
  BY <1>1 DEF vars, CourseInv, AskedInv, RunningInv, DoneInv,
      FailureIsTold, Ok
<1>2. CASE Next
  BY <1>2, CritiqueStep, UnderstandStep, ActStep, TellStep DEF Next
<1> QED BY <1>1, <1>2


-----------------------------------------------------------------------------
(* The lines of a reply: its answer, and its query.                        *)

(* A set of positions has a least one.                                     *)
LEMMA Least ==
    ASSUME NEW S \in SUBSET Nat, S # {}
    PROVE  Min(S) \in S /\ \A n \in S : Min(S) <= n
<1>1. PICK k \in S : \A n \in S : ~(<<n, k>> \in OpToRel(<, Nat))
  BY WFMin, NatLessThanWellFounded
<1>2. \A n \in S : k <= n
  <2> SUFFICES ASSUME NEW n \in S PROVE k <= n
    OBVIOUS
  <2>1. n \in Nat /\ k \in Nat
    OBVIOUS
  <2>2. ~(n < k)
    BY <1>1, <2>1 DEF OpToRel
  <2> QED BY <2>1, <2>2
<1> QED BY <1>2 DEF Min

(* The part of a reply that is the answer: of its first paragraph, what is marked  *)
(* as the answer, or all of it.                                                    *)
LEMMA AnswerIsMarked ==
    ASSUME NEW reply \in Replies
    PROVE  /\ Answer(reply) \subseteq DOMAIN reply
           /\ \A k \in Answer(reply) :
                 reply[k] = "text" /\ \A j \in 1..k : reply[j] # "paragraph"
           /\ \A k \in DOMAIN reply \ Answer(reply) :
                 (\A j \in 1..k : reply[j] # "paragraph") =>
                     \E j \in DOMAIN reply : /\ reply[j] = "Answer:"
                                             /\ \A i \in 1..j : reply[i] # "paragraph"
<1>1. PICK n \in 1..3 : reply \in [1..n -> {"text", "paragraph", "Answer:"}]
  BY DEF Replies
<1>2. DOMAIN reply = 1..n /\ n \in Nat /\ Len(reply) = n
  <2>1. reply \in Seq({"text", "paragraph", "Answer:"}) /\ DOMAIN reply = 1..n /\ n \in Nat
    BY <1>1
  <2> QED BY <2>1, LenProperties
<1> DEFINE before(mark, from) == {k \in from..n : reply[k] = mark}
           end(mark, from) == Min({n + 1} \cup before(mark, from))
           par == end("paragraph", 1)
           mark == end("Answer:", 1)
           second == end("Answer:", mark + 1)
<1>3. \A word \in {"paragraph", "Answer:"}, from \in 1..(n + 2) :
          /\ end(word, from) \in from..n \/ end(word, from) = n + 1
          /\ end(word, from) # n + 1 => reply[end(word, from)] = word
          /\ \A k \in from..n : reply[k] = word => end(word, from) <= k
  <2> SUFFICES ASSUME NEW word \in {"paragraph", "Answer:"}, NEW from \in 1..(n + 2)
      PROVE    /\ end(word, from) \in from..n \/ end(word, from) = n + 1
               /\ end(word, from) # n + 1 => reply[end(word, from)] = word
               /\ \A k \in from..n : reply[k] = word => end(word, from) <= k
    OBVIOUS
  <2> DEFINE S == {n + 1} \cup before(word, from)
  <2>1. S \in SUBSET Nat /\ S # {}
    BY <1>2
  <2>2. Min(S) \in S /\ \A k \in S : Min(S) <= k
    <3> HIDE DEF S
    <3> QED BY <2>1, Least
  <2> QED BY <2>2
<1>4. /\ par \in 1..(n + 1) /\ (par # n + 1 => reply[par] = "paragraph")
      /\ \A k \in 1..n : reply[k] = "paragraph" => par <= k
      /\ mark \in 1..(n + 1) /\ (mark # n + 1 => reply[mark] = "Answer:")
      /\ \A k \in 1..n : reply[k] = "Answer:" => mark <= k
  <2> HIDE DEF end
  <2> QED BY <1>2, <1>3
<1>5. /\ second \in (mark + 1)..n \/ second = n + 1
      /\ \A k \in (mark + 1)..n : reply[k] = "Answer:" => second <= k
  <2> HIDE DEF end
  <2>1. mark + 1 \in 1..(n + 2)
    BY <1>2, <1>4
  <2> QED BY <1>3, <2>1
<1>6. Answer(reply) = IF mark > par - 1 THEN 1..(par - 1)
                             ELSE (mark + 1)..Min({par - 1, second - 1})
  BY <1>2 DEF Answer
<1> HIDE DEF end
<1>7. \A k \in 1..n : (\A j \in 1..k : reply[j] # "paragraph") <=> k < par
  <2> SUFFICES ASSUME NEW k \in 1..n
               PROVE  (\A j \in 1..k : reply[j] # "paragraph") <=> k < par
    OBVIOUS
  <2>1. ASSUME \A j \in 1..k : reply[j] # "paragraph" PROVE k < par
    BY <1>2, <1>4, <2>1
  <2>2. ASSUME k < par, NEW j \in 1..k PROVE reply[j] # "paragraph"
    BY <1>2, <1>4, <2>2
  <2> QED BY <2>1, <2>2
<1>8. \A k \in 1..n : reply[k] \in {"text", "paragraph", "Answer:"}
  BY <1>1
<1>9. CASE mark > par - 1
  <2> DEFINE told == 1..(par - 1)
  <2>1. Answer(reply) = told
    BY <1>6, <1>9
  <2>2. \A k \in told : k \in 1..n /\ k < par /\ k < mark
    BY <1>2, <1>4, <1>9
  <2>3. \A k \in told : reply[k] = "text"
    BY <2>2, <1>2, <1>4, <1>8
  <2>4. \A k \in 1..n : k < par => k \in told
    BY <1>2, <1>4
  <2> HIDE DEF told
  <2>5. told \subseteq DOMAIN reply
    BY <1>2, <2>2
  <2>6. \A k \in told : reply[k] = "text" /\ \A j \in 1..k : reply[j] # "paragraph"
    BY <2>2, <2>3, <1>7
  <2>7. \A k \in DOMAIN reply \ told : ~ \A j \in 1..k : reply[j] # "paragraph"
    BY <1>2, <2>4, <1>7
  <2> QED BY <2>1, <2>5, <2>6, <2>7
<1>10. CASE ~(mark > par - 1)
  <2> DEFINE told == (mark + 1)..Min({par - 1, second - 1})
  <2>1. Answer(reply) = told
    BY <1>6, <1>10
  <2>2. /\ Min({par - 1, second - 1}) \in Nat
        /\ Min({par - 1, second - 1}) <= par - 1
        /\ Min({par - 1, second - 1}) <= second - 1
    <3>1. par - 1 \in Nat /\ second - 1 \in Nat
      BY <1>2, <1>4, <1>5
    <3>2. {par - 1, second - 1} \in SUBSET Nat /\ {par - 1, second - 1} # {}
      BY <3>1
    <3> QED BY <3>2, Least
  <2>3. \A k \in told : k \in 1..n /\ k < par /\ k < second /\ k \in (mark + 1)..n
    BY <1>2, <1>4, <1>5, <2>2
  <2>4. \A k \in told : reply[k] = "text"
    <3> SUFFICES ASSUME NEW k \in told PROVE reply[k] = "text"
      OBVIOUS
    <3>1. k \in 1..n /\ k < par /\ k < second /\ k \in (mark + 1)..n
      BY <2>3
    <3>2. reply[k] # "Answer:"
      BY <3>1, <1>2, <1>4, <1>5
    <3>3. reply[k] # "paragraph"
      BY <3>1, <1>2, <1>4
    <3> QED BY <3>1, <3>2, <3>3, <1>8
  <2>5. mark \in 1..n /\ mark < par /\ reply[mark] = "Answer:"
    BY <1>2, <1>4, <1>10
  <2> HIDE DEF told
  <2>6. told \subseteq DOMAIN reply
    BY <1>2, <2>3
  <2>7. \A k \in told : reply[k] = "text" /\ \A j \in 1..k : reply[j] # "paragraph"
    BY <2>3, <2>4, <1>7
  <2>8. \E j \in DOMAIN reply : /\ reply[j] = "Answer:"
                                /\ \A i \in 1..j : reply[i] # "paragraph"
    BY <2>5, <1>2, <1>7
  <2> QED BY <2>1, <2>6, <2>7, <2>8
<1> QED BY <1>9, <1>10

\* What is known of the lines, line by line.
ReadsLines(f, lines, n) ==
    f = [k \in 0..n |-> IF k = 0 THEN Unread
                        ELSE ReadLine(lines, f[k - 1], k)]

(* There is such a function: a smallest number of lines without one cannot be. *)
LEMMA ReadingExists ==
    ASSUME NEW lines, NEW n \in Nat
    PROVE  \E f : ReadsLines(f, lines, n)
<1> DEFINE bad == {m \in Nat : ~ \E f : ReadsLines(f, lines, m)}
<1>1. SUFFICES ASSUME bad # {} PROVE FALSE
  OBVIOUS
<1>2. PICK m \in bad : \A k \in bad : ~(<<k, m>> \in OpToRel(<, Nat))
  BY <1>1, WFMin, NatLessThanWellFounded
<1>3. m # 0
  <2> DEFINE e == [k \in 0..0 |-> Unread]
  <2>1. e = [k \in 0..0 |-> IF k = 0 THEN Unread
                            ELSE ReadLine(lines, e[k - 1], k)]
    OBVIOUS
  <2>2. \E f : ReadsLines(f, lines, 0)
    BY <2>1 DEF ReadsLines
  <2> QED BY <2>2
<1>4. m - 1 \in Nat /\ m - 1 \notin bad
  <2>1. m - 1 \in Nat /\ m \in Nat /\ m - 1 < m
    BY <1>3
  <2>2. <<m - 1, m>> \in OpToRel(<, Nat)
    BY <2>1 DEF OpToRel
  <2> HIDE DEF bad
  <2> QED BY <1>2, <2>1, <2>2
<1>5. PICK f : ReadsLines(f, lines, m - 1)
  BY <1>4
<1> DEFINE g == [k \in 0..m |-> IF k < m THEN f[k] ELSE ReadLine(lines, f[m - 1], m)]
<1>6. \A k \in 0..m : g[k] = IF k = 0 THEN Unread
                             ELSE ReadLine(lines, g[k - 1], k)
  <2> TAKE k \in 0..m
  <2>1. CASE k < m
    <3>1. k \in 0..(m - 1) /\ g[k] = f[k]
      BY <2>1, <1>4
    <3>2. f[k] = IF k = 0 THEN Unread ELSE ReadLine(lines, f[k - 1], k)
      BY <3>1, <1>5 DEF ReadsLines
    <3>3. k # 0 => k - 1 \in 0..m /\ k - 1 < m /\ g[k - 1] = f[k - 1]
      BY <3>1, <1>4
    <3> QED BY <3>1, <3>2, <3>3
  <2>2. CASE k = m
    <3>1. g[k] = ReadLine(lines, f[m - 1], m)
      BY <2>2, <1>4
    <3>2. m - 1 \in 0..m /\ m - 1 < m /\ g[m - 1] = f[m - 1]
      BY <1>4
    <3> QED BY <2>2, <3>1, <3>2, <1>3
  <2> QED BY <2>1, <2>2
<1>7. ReadsLines(g, lines, m)
  <2> DEFINE h == [k \in 0..m |-> IF k = 0 THEN Unread
                                  ELSE ReadLine(lines, g[k - 1], k)]
  <2>1. DOMAIN g = 0..m /\ g = [k \in 0..m |-> g[k]]
    OBVIOUS
  <2> HIDE DEF g
  <2>2. g = h
    BY <1>6, <2>1
  <2> QED BY <2>2 DEF ReadsLines
<1> QED BY <1>7

\* What is to be known after n lines.
KnowsOf(m, lines, n) ==
    LET marks == {k \in DOMAIN lines : Marked(lines[k])}
        results == {k \in 1..n : lines[k] = "SQLResult:"}
    IN /\ DOMAIN m = {"query", "found", "stopped"}
       /\ m = [query |-> m.query, found |-> m.found, stopped |-> m.stopped]
       /\ m.found \in BOOLEAN /\ m.stopped \in BOOLEAN
       /\ m.stopped <=> results # {}
       /\ ~m.stopped => (m.found <=> \E k \in 1..n : Marked(lines[k]))
       /\ m.query = {k \in 1..n : /\ lines[k] \in {"query", "SQLQuery: query"}
                                  /\ \A r \in results : k < r
                                  /\ marks = {} \/ \E j \in marks : j <= k}

(* One more line. *)
LEMMA OneMoreLine ==
    ASSUME NEW n \in Nat, NEW lines, lines \in [1..n -> Lines],
           NEW k \in 1..n, NEW m, KnowsOf(m, lines, k - 1)
    PROVE  KnowsOf(ReadLine(lines, m, k), lines, k)
<1> DEFINE marks == {j \in DOMAIN lines : Marked(lines[j])}
           results(i) == {j \in 1..i : lines[j] = "SQLResult:"}
           next == ReadLine(lines, m, k)
           found(i) == {j \in 1..i : /\ lines[j] \in {"query", "SQLQuery: query"}
                                     /\ \A r \in results(i) : j < r
                                     /\ marks = {} \/ \E l \in marks : l <= j}
<1>1. /\ DOMAIN lines = 1..n /\ lines[k] \in Lines /\ k - 1 \in Nat /\ k \in Nat
      /\ 1..k = (1..(k - 1)) \cup {k} /\ k \notin 1..(k - 1) /\ k \in 1..k
      /\ \A j \in 1..(k - 1) : j \in 1..n /\ j \in 1..k /\ j < k
  OBVIOUS
<1>2. /\ m = [query |-> m.query, found |-> m.found, stopped |-> m.stopped]
      /\ m.found \in BOOLEAN /\ m.stopped \in BOOLEAN
      /\ m.stopped <=> results(k - 1) # {}
      /\ ~m.stopped => (m.found <=> \E j \in 1..(k - 1) : Marked(lines[j]))
      /\ m.query = found(k - 1)
  BY DEF KnowsOf
<1>3. Marked(lines[k]) <=> lines[k] \in {"SQLQuery: query", "SQLQuery:"}
  BY DEF Marked
<1>4. (\E j \in DOMAIN lines : Marked(lines[j])) <=> marks # {}
  OBVIOUS
<1>5. results(k) = results(k - 1) \cup (IF lines[k] = "SQLResult:" THEN {k} ELSE {})
  BY <1>1
<1>6. (\E j \in 1..k : Marked(lines[j]))
        <=> (\E j \in 1..(k - 1) : Marked(lines[j])) \/ Marked(lines[k])
  BY <1>1
<1>7. next = IF m.stopped \/ lines[k] = "fence" THEN m
             ELSE IF lines[k] = "SQLResult:" THEN [m EXCEPT !.stopped = TRUE]
             ELSE IF lines[k] = "SQLQuery:" THEN [m EXCEPT !.found = TRUE]
             ELSE IF lines[k] = "SQLQuery: query"
                  THEN [m EXCEPT !.found = TRUE, !.query = @ \cup {k}]
             ELSE IF marks # {} /\ ~m.found THEN m
             ELSE [m EXCEPT !.query = @ \cup {k}]
  BY <1>4 DEF ReadLine
<1>8. /\ next = [query |-> next.query, found |-> next.found, stopped |-> next.stopped]
      /\ DOMAIN next = {"query", "found", "stopped"}
      /\ next.stopped = (m.stopped \/ lines[k] = "SQLResult:")
      /\ next.found = (m.found \/ (~m.stopped /\ Marked(lines[k])))
      /\ next.query = IF /\ ~m.stopped
                         /\ \/ lines[k] = "SQLQuery: query"
                            \/ lines[k] = "query" /\ (marks = {} \/ m.found)
                      THEN m.query \cup {k} ELSE m.query
  <2> DEFINE q == m.query
             f == m.found
             s == m.stopped
  <2>1. m = [query |-> q, found |-> f, stopped |-> s] /\ f \in BOOLEAN /\ s \in BOOLEAN
    BY <1>2
  <2> HIDE DEF q, f, s, next, marks
  <2> QED BY <1>1, <1>3, <1>7, <2>1 DEF Lines
<1> HIDE DEF next
<1>9. next.stopped <=> results(k) # {}
  BY <1>2, <1>5, <1>8
<1>10. ~next.stopped => (next.found <=> \E j \in 1..k : Marked(lines[j]))
  BY <1>2, <1>6, <1>8
<1>11. next.query = found(k)
  <2>1. CASE results(k - 1) # {}
    <3>1. next.query = found(k - 1)
      BY <1>2, <1>8, <2>1
    <3>2. PICK r \in 1..(k - 1) : r \in results(k - 1)
      BY <2>1
    <3>3. \A j \in 1..(k - 1) :
            (\A i \in results(k - 1) : j < i) <=> (\A i \in results(k) : j < i)
      BY <1>1, <1>5
    <3>4. ~ \A i \in results(k) : k < i
      BY <1>1, <1>5, <3>2
    <3> HIDE DEF results
    <3> QED BY <1>1, <3>1, <3>3, <3>4
  <2>2. CASE results(k - 1) = {} /\ lines[k] = "SQLResult:"
    <3>1. next.query = found(k - 1) /\ results(k) = {k}
      BY <1>2, <1>8, <1>5, <2>2
    <3> HIDE DEF results
    <3> QED BY <1>1, <3>1, <2>2
  <2>3. CASE results(k - 1) = {} /\ lines[k] # "SQLResult:"
    <3>1. results(k) = {} /\ results(k - 1) = {}
      BY <1>5, <2>3
    <3>2. next.query = IF \/ lines[k] = "SQLQuery: query"
                          \/ lines[k] = "query" /\ (marks = {} \/ m.found)
                       THEN found(k - 1) \cup {k} ELSE found(k - 1)
      BY <1>2, <1>8, <2>3
    <3>3. m.found <=> \E j \in marks : j <= k - 1
      <4>1. m.found <=> \E j \in 1..(k - 1) : Marked(lines[j])
        BY <1>2, <2>3
      <4>2. \A j : j \in 1..(k - 1) <=> j \in 1..n /\ j <= k - 1
        BY <1>1
      <4> QED BY <1>1, <4>1, <4>2
    <3>4. lines[k] = "query" => ((\E j \in marks : j <= k) <=> (\E j \in marks : j <= k - 1))
      <4> SUFFICES ASSUME lines[k] = "query", NEW j \in marks, j <= k PROVE j <= k - 1
        BY <1>1
      <4>1. j # k /\ j \in 1..n
        BY <1>3, <1>1
      <4> QED BY <4>1, <1>1
    <3>5. lines[k] = "SQLQuery: query" => \E j \in marks : j <= k
      <4>1. lines[k] = "SQLQuery: query" => k \in marks
        BY <1>1, <1>3
      <4>2. k <= k
        BY <1>1
      <4> HIDE DEF marks
      <4> QED BY <4>1, <4>2
    <3>6. k \in found(k) <=> \/ lines[k] = "SQLQuery: query"
                             \/ lines[k] = "query" /\ (marks = {} \/ m.found)
      <4> HIDE DEF results, marks
      <4> QED BY <1>1, <3>1, <3>3, <3>4, <3>5
    <3>7. \A j \in 1..(k - 1) : j \in found(k) <=> j \in found(k - 1)
      <4> HIDE DEF results, marks
      <4> QED BY <1>1, <3>1
    <3>8. found(k) \subseteq 1..k /\ found(k - 1) \subseteq 1..(k - 1)
      OBVIOUS
    <3> HIDE DEF found
    <3> QED BY <1>1, <3>2, <3>6, <3>7, <3>8
  <2> QED BY <2>1, <2>2, <2>3
<1>12. next.found \in BOOLEAN /\ next.stopped \in BOOLEAN
  BY <1>2, <1>8
<1>13. KnowsOf(next, lines, k)
  BY <1>8, <1>9, <1>10, <1>11, <1>12 DEF KnowsOf
<1> QED BY <1>13 DEF next

(* The lines that are run are the query and all of it. *)
LEMMA QueryIsAllOfIt ==
    ASSUME MaxLines \in Nat, NEW lines \in Queries
    PROVE  LET marks == {k \in DOMAIN lines : Marked(lines[k])}
               results == {k \in DOMAIN lines : lines[k] = "SQLResult:"}
           IN /\ DOMAIN lines \subseteq 1..MaxLines
              /\ extractSQLQuery(lines) =
                    {k \in DOMAIN lines :
                         /\ lines[k] \in {"query", "SQLQuery: query"}
                         /\ \A r \in results : k < r
                         /\ marks = {} \/ \E m \in marks : m <= k}
<1>1. PICK n \in 0..MaxLines : lines \in [1..n -> Lines]
  BY DEF Queries
<1>2. DOMAIN lines = 1..n /\ n \in Nat /\ Len(lines) = n /\ 1..n \subseteq 1..MaxLines
  <2>1. lines \in Seq(Lines) /\ DOMAIN lines = 1..n /\ n \in Nat
    BY <1>1
  <2> QED BY <2>1, <1>1, LenProperties
<1> DEFINE read == CHOOSE f : ReadsLines(f, lines, n)
<1>3. extractSQLQuery(lines) = read[n].query
  BY <1>2 DEF extractSQLQuery, ReadsLines
<1>4. ReadsLines(read, lines, n)
  BY <1>2, ReadingExists
<1> HIDE DEF read
<1>5. read[0] = Unread /\ \A k \in 1..n : read[k] = ReadLine(lines, read[k - 1], k)
  <2> DEFINE rhs == [k \in 0..n |-> IF k = 0 THEN Unread
                                    ELSE ReadLine(lines, read[k - 1], k)]
  <2>1. read = rhs
    BY <1>4 DEF ReadsLines
  <2>2. \A k \in 0..n : rhs[k] = IF k = 0 THEN Unread
                                  ELSE ReadLine(lines, read[k - 1], k)
    OBVIOUS
  <2> HIDE DEF rhs
  <2>3. 0 \in 0..n /\ \A k \in 1..n : k \in 0..n /\ k # 0
    BY <1>2
  <2> QED BY <2>1, <2>2, <2>3
<1>6. KnowsOf(read[n], lines, n)
  <2> DEFINE bad == {k \in 0..n : ~KnowsOf(read[k], lines, k)}
  <2>1. SUFFICES ASSUME bad # {} PROVE FALSE
    BY <1>2
  <2>2. bad \in SUBSET Nat
    BY <1>2
  <2>3. Min(bad) \in bad /\ \A k \in bad : Min(bad) <= k
    <3> HIDE DEF bad
    <3> QED BY <2>1, <2>2, Least
  <2>4. PICK k \in bad : \A j \in bad : k <= j
    BY <2>3
  <2>5. k # 0
    <3>1. KnowsOf(Unread, lines, 0)
      <4>1. 1..0 = {}
        OBVIOUS
      <4> QED BY <4>1 DEF KnowsOf, Unread
    <3> QED BY <3>1, <1>5
  <2>6. k \in 1..n /\ k - 1 \in 0..n /\ k - 1 < k
    BY <1>2, <2>5
  <2>7. KnowsOf(read[k - 1], lines, k - 1)
    <3>1. k - 1 \notin bad
      <4> HIDE DEF bad
      <4>1. k - 1 \in Int /\ k \in Int /\ ~(k <= k - 1)
        BY <2>6
      <4> QED BY <2>4, <4>1
    <3> QED BY <2>6, <3>1
  <2>8. KnowsOf(read[k], lines, k)
    BY <1>1, <1>2, <1>5, <2>6, <2>7, OneMoreLine
  <2> QED BY <2>8
<1>7. extractSQLQuery(lines) =
        {k \in 1..n : /\ lines[k] \in {"query", "SQLQuery: query"}
                      /\ \A r \in {j \in 1..n : lines[j] = "SQLResult:"} : k < r
                      /\ \/ {j \in DOMAIN lines : Marked(lines[j])} = {}
                         \/ \E m \in {j \in DOMAIN lines : Marked(lines[j])} : m <= k}
  BY <1>3, <1>6 DEF KnowsOf
<1> QED BY <1>2, <1>7

-----------------------------------------------------------------------------
(* Types, and what is done.                                                *)

(* An answer that is heard is one that may be said.                        *)
LEMMA HeardIsSaid ==
    ASSUME CourseInv, TypeOK, NEW answer \in Says(asked[Latest])
    PROVE  \A n \in DOMAIN Heard(answer) :
               \/ Heard(answer)[n] = Pending
               \/ Heard(answer)[n] \in Says(asked[n])
<1>1. answer \in Replied
  BY RequestsAreRequests, Sayable
<1> DEFINE settled == Heard(answer)
<1>2. /\ DOMAIN settled = DOMAIN answers /\ settled[Latest] = answer
      /\ \A n \in DOMAIN answers : n # Latest => settled[n] = answers[n]
  BY <1>1, HeardIs
<1>3. \A n \in DOMAIN answers : answers[n] = Pending \/ answers[n] \in Says(asked[n])
  BY DEF TypeOK
<1> HIDE DEF settled
<1>4. \A n \in DOMAIN settled : settled[n] = Pending \/ settled[n] \in Says(asked[n])
  BY <1>2, <1>3
<1> QED BY <1>4 DEF settled

(* What the model may say depends on the chain alone.                      *)
LEMMA SaysStays ==
    ASSUME setup' = setup, NEW n, answers'[n] \in Says(asked'[n])
    PROVE  (answers[n] \in Says(asked[n]))'
BY DEF Says

(* The types of a step, from those of what is asked, answered and done.    *)
LEMMA TypesOfStep ==
    ASSUME CourseInv', UNCHANGED setup, setup \in Setup,
           done' \in Seq(SUBSET (1..MaxLines \cup {1})), outcome' \in Outcome,
           \A n \in DOMAIN answers' :
              answers'[n] = Pending \/ answers'[n] \in Says(asked'[n])
    PROVE  TypeOK'
<1>1. \A n \in DOMAIN answers' : \/ answers'[n] = Pending'
                                 \/ (answers[n] \in Says(asked[n]))'
  BY SaysStays DEF Pending, Said
<1>2. /\ setup' \in Setup /\ pc' \in {"ask", "act", "told", "returned"}
      /\ asked' \in Seq(Request) /\ Len(answers') = Len(asked')
  BY DEF CourseInv, AskedInv
<1> QED BY <1>1, <1>2 DEF TypeOK, Pending, Said

(* What the model writes has the form its request is for; what is done of it is *)
(* in it.                                                                       *)
LEMMA WhatIsSaid ==
    ASSUME MaxLines \in Nat, setup \in Setup, setup.chain # "constitutional",
           NEW request \in Request, NEW answer \in Says(request),
           answer.how = "text"
    PROVE  /\ (request.to = "act" /\ setup.chain = "sql") => answer.form \in Queries
           /\ (request.to = "answer" /\ setup.chain = "sql") => answer.form \in Replies
           /\ request.to = "act" =>
                 ToDo(answer.form) \in SUBSET (1..MaxLines \cup {1})
<1>1. ASSUME request.to = "act", setup.chain = "sql" PROVE answer.form \in Queries
  <2>1. Says(request) = {Said("failed", <<>>)} \cup
                               {Said("text", form) : form \in Queries}
    BY <1>1 DEF Says
  <2>2. \E form \in Queries : answer = Said("text", form)
    BY <2>1 DEF Said
  <2> QED BY <2>2 DEF Said
<1>2. ASSUME request.to = "answer", setup.chain = "sql" PROVE answer.form \in Replies
  <2>1. Says(request) = {Said("failed", <<>>)} \cup
                               {Said("text", form) : form \in Replies}
    BY <1>2 DEF Says
  <2>2. \E form \in Replies : answer = Said("text", form)
    BY <2>1 DEF Said
  <2> QED BY <2>2 DEF Said
<1>3. ASSUME request.to = "act"
      PROVE  ToDo(answer.form) \in SUBSET (1..MaxLines \cup {1})
  <2>1. CASE setup.chain = "sql"
    <3>1. extractSQLQuery(answer.form) \subseteq DOMAIN answer.form
          /\ DOMAIN answer.form \subseteq 1..MaxLines
      BY <1>1, <1>3, <2>1, QueryIsAllOfIt
    <3> QED BY <2>1, <3>1 DEF ToDo
  <2>2. CASE setup.chain # "sql"
    BY <2>2 DEF ToDo
  <2> QED BY <2>1, <2>2
<1> QED BY <1>1, <1>2, <1>3

(* How a call ends has its type.                                           *)
LEMMA EndIs ==
    ASSUME NEW how \in {"ok", "error"}, NEW n \in Nat, NEW tokens \in SUBSET (1..3),
           NEW value \in BOOLEAN, Ended(how, n, tokens, value)
    PROVE  /\ outcome' \in Outcome /\ outcome'.how = how /\ outcome'.answer = n
           /\ outcome'.tokens = tokens /\ outcome'.value = value
<1>1. outcome' = [how |-> how, answer |-> n, tokens |-> tokens, value |-> value]
  BY DEF Ended
<1> QED BY <1>1 DEF Outcome

(* So it has when it fails.                                                *)
LEMMA FailureIs ==
    ASSUME Failed
    PROVE  outcome' \in Outcome /\ outcome'.how = "error"
<1>1. 0 \in Nat /\ {} \in SUBSET (1..3) /\ FALSE \in BOOLEAN
  OBVIOUS
<1>2. Ended("error", 0, {}, FALSE)
  BY DEF Failed
<1> QED BY <1>1, <1>2, EndIs

(* Understanding what is to be done keeps the rest of the invariant,       *)
LEMMA UnderstandKeeps ==
    ASSUME MaxLines \in Nat, IInv, CourseInv', Understand
    PROVE  IInv'
<1>1. /\ setup.chain # "constitutional" /\ pc = "ask" /\ setup' = setup /\ asked' = asked
      /\ setup \in Setup /\ outcome.how = "none"
      /\ asked[Latest].to = "act" /\ Latest' = Latest
      /\ CourseInv /\ TypeOK
  BY DEF IInv, CourseInv, AskedInv, RunningInv,
      Understand, Latest
<1>2. Len(asked) = 1 /\ done = <<>> /\ Latest = 1 /\ DOMAIN answers = {1}
  <2>1. Latest \in DOMAIN asked
    BY <1>1, RequestsAreRequests
  <2>2. Latest = 1
    BY <1>1, <2>1 DEF CourseInv, DoneInv
  <2> QED BY <1>1, <2>2, RequestsAreRequests
          DEF CourseInv, DoneInv, Latest
<1>3. PICK answer \in Says(asked[Latest]) :
        /\ answers' = Heard(answer)
        /\ \/ /\ answer.how = "failed" /\ Failed /\ UNCHANGED done
           \/ /\ answer.how = "text" /\ ToDo(answer.form) = {} /\ UNCHANGED done
              /\ IF answer.form = <<"Answer:">>
                 THEN Ended("ok", Latest, {1}, FALSE) ELSE Failed
           \/ /\ answer.how = "text" /\ ToDo(answer.form) # {}
              /\ done' = Append(done, ToDo(answer.form))
              /\ pc' = "act" /\ UNCHANGED outcome
  BY DEF Understand
<1>4. /\ answer \in Replied /\ asked[1] \in Request /\ asked[1].to = "act"
      /\ answer.form = <<"Answer:">> => setup.chain = "math"
      /\ answer \in Says(asked[1])
  BY <1>1, <1>2, <1>3, RequestsAreRequests, Sayable
<1>5. DOMAIN answers' = {1} /\ answers'[1] = answer
  BY <1>1, <1>2, <1>3, <1>4, HeardIs
<1>6. /\ \A n \in DOMAIN answers' :
            answers'[n] = Pending \/ answers'[n] \in Says(asked'[n])
      /\ (answers[1] \in Says(asked[1]))'
  BY <1>1, <1>4, <1>5, SaysStays
<1>7. /\ done' \in Seq(SUBSET (1..MaxLines \cup {1}))
      /\ done' = <<>> \/ done' = <<ToDo(answer.form)>>
      /\ done' # <<>> => answer.how = "text"
  <2> DEFINE S == SUBSET (1..MaxLines \cup {1})
             todo == ToDo(answer.form)
  <2>1. CASE done' = done
    BY <1>2, <2>1, EmptySeq
  <2>2. CASE answer.how = "text" /\ done' = Append(done, todo)
    <3>1. todo \in S
      BY <1>1, <1>4, <2>2, WhatIsSaid
    <3> HIDE DEF S, todo
    <3>2. done' = <<todo>>
      BY <1>2, <2>2
    <3> QED BY <3>1, <3>2, <2>2 DEF S, todo
  <2> QED BY <1>3, <2>1, <2>2
<1>8. (ToDo(answers[1].form))' = ToDo(answer.form)
  BY <1>1, <1>5 DEF ToDo
<1>9. QueryInv'
  BY <1>1, <1>2, <1>5, <1>6, <1>7, <1>8 DEF QueryInv
<1>10. CritiqueInv' /\ PrincipleInv'
  BY <1>1 DEF CritiqueInv, PrincipleInv
<1>11. outcome' \in Outcome /\ LastIsReturned'
  <2>1. CASE Failed
    BY <2>1, FailureIs DEF LastIsReturned, Ok
  <2>2. CASE answer.form = <<"Answer:">> /\ Ended("ok", Latest, {1}, FALSE)
    <3>1. /\ outcome' \in Outcome /\ outcome'.answer = 1 /\ outcome'.value = FALSE
      <4>1. 1 \in Nat /\ {1} \in SUBSET (1..3) /\ FALSE \in BOOLEAN
        OBVIOUS
      <4>2. Ended("ok", 1, {1}, FALSE)
        BY <1>2, <2>2
      <4> QED BY <4>1, <4>2, EndIs
    <3>2. /\ (answers[Latest].form)' # <<"block">>
      BY <1>1, <1>2, <1>5, <2>2
    <3> QED BY <1>1, <1>2, <1>4, <2>2, <3>1, <3>2 DEF LastIsReturned
  <2>3. CASE UNCHANGED outcome
    BY <1>1, <2>3 DEF LastIsReturned, Ok, IInv, TypeOK
  <2> QED BY <1>3, <2>1, <2>2, <2>3
<1>12. TypeOK'
  BY <1>1, <1>6, <1>7, <1>11, TypesOfStep
<1> QED BY <1>9, <1>10, <1>11, <1>12 DEF IInv

(* doing it too,                                                           *)
LEMMA ActKeeps ==
    ASSUME MaxPrinciples \in Nat, IInv, CourseInv', Act
    PROVE  IInv'
<1>1. /\ setup.chain # "constitutional" /\ pc = "act" /\ setup' = setup /\ done' = done
      /\ setup \in Setup /\ outcome.how = "none" /\ outcome \in Outcome
      /\ CourseInv /\ TypeOK /\ done \in Seq(SUBSET (1..MaxLines \cup {1}))
  BY DEF IInv, CourseInv, AskedInv, RunningInv, TypeOK,
      CritiqueInv, Act
<1>2. /\ Len(asked) \in Nat /\ Len(asked) = 1 /\ Latest = 1
      /\ DOMAIN asked = {1} /\ DOMAIN answers = {1}
      /\ asked \in Seq(Request) /\ answers \in Seq(Replied)
      /\ Len(answers) = Len(asked)
  BY <1>1, RequestsAreRequests
  DEF CourseInv, DoneInv, Latest, AskedInv
<1>3. CASE Failed /\ UNCHANGED <<asked, answers>>
  <2>1. outcome' \in Outcome /\ LastIsReturned'
    BY <1>3, FailureIs DEF LastIsReturned, Ok
  <2>2. \A n \in DOMAIN answers' :
            answers'[n] = Pending \/ answers'[n] \in Says(asked'[n])
    BY <1>1, <1>3 DEF TypeOK
  <2>3. TypeOK'
    BY <1>1, <2>1, <2>2, TypesOfStep
  <2>4. QueryInv' /\ CritiqueInv' /\ PrincipleInv'
    BY <1>1, <1>3 DEF IInv, QueryInv, CritiqueInv, PrincipleInv,
        ToDo, Says
  <2> QED BY <2>1, <2>3, <2>4 DEF IInv
<1>4. CASE /\ setup.chain = "math" /\ answers[Latest].form = <<"block">>
           /\ Ended("ok", Latest, {}, TRUE) /\ UNCHANGED <<asked, answers>>
  <2>1. /\ outcome' \in Outcome /\ outcome'.answer = 1 /\ outcome'.value = TRUE
    <3>1. {} \in SUBSET (1..3) /\ 1 \in Nat /\ TRUE \in BOOLEAN
      OBVIOUS
    <3> QED BY <1>2, <1>4, <3>1, EndIs
  <2>2. LastIsReturned'
    BY <1>1, <1>2, <1>4, <2>1 DEF LastIsReturned, Latest
  <2>3. \A n \in DOMAIN answers' :
            answers'[n] = Pending \/ answers'[n] \in Says(asked'[n])
    BY <1>1, <1>4 DEF TypeOK
  <2>4. TypeOK'
    BY <1>1, <2>1, <2>3, TypesOfStep
  <2>5. QueryInv' /\ CritiqueInv' /\ PrincipleInv'
    BY <1>1, <1>4 DEF IInv, QueryInv, CritiqueInv, PrincipleInv,
        ToDo, Says
  <2> QED BY <2>2, <2>4, <2>5 DEF IInv
<1>5. CASE /\ setup.chain # "math" /\ pc' = "ask" /\ UNCHANGED outcome
           /\ AskFor(answers, "answer", 0, Latest)
  <2>1. /\ Len(asked') = Len(asked) + 1
        /\ DOMAIN asked' = 1..Len(asked') /\ DOMAIN answers' = 1..Len(asked')
        /\ answers'[Len(asked')] = Pending
        /\ \A n \in DOMAIN asked : asked'[n] = asked[n]
        /\ \A n \in DOMAIN answers : answers'[n] = answers[n]
    <3>1. 0 \in 0..MaxPrinciples /\ Latest \in Nat
      BY <1>2
    <3> QED BY <1>2, <1>5, <3>1, AskForIs
  <2>2. Len(asked') = 2 /\ DOMAIN answers' = {1, 2} /\ answers'[1] = answers[1]
        /\ asked'[1] = asked[1] /\ answers'[2] = Pending
    BY <1>2, <2>1
  <2>3. \A n \in DOMAIN answers' :
            answers'[n] = Pending \/ answers'[n] \in Says(asked'[n])
    BY <1>1, <1>2, <2>2 DEF TypeOK
  <2>4. TypeOK'
    BY <1>1, <1>5, <2>3, TypesOfStep
  <2>5. LastIsReturned'
    BY <1>1, <1>5 DEF LastIsReturned, Ok
  <2>6. done # <<>>
    <3>1. Len(done) = 1
      BY <1>1 DEF CourseInv, DoneInv
    <3>2. Len(<<>>) = 0
      OBVIOUS
    <3> QED BY <3>1, <3>2
  <2>7. QueryInv' /\ CritiqueInv' /\ PrincipleInv'
    BY <1>1, <2>2, <2>6 DEF IInv, QueryInv, CritiqueInv, PrincipleInv,
        ToDo, Says
  <2> QED BY <2>4, <2>5, <2>7 DEF IInv
<1> QED BY <1>3, <1>4, <1>5 DEF Act

(* and what the model answers then.                                        *)
LEMMA TellKeeps ==
    ASSUME MaxLines \in Nat, IInv, CourseInv', Tell
    PROVE  IInv'
<1>1. /\ setup.chain # "constitutional" /\ pc = "ask" /\ setup' = setup /\ asked' = asked
      /\ done' = done /\ done \in Seq(SUBSET (1..MaxLines \cup {1}))
      /\ setup \in Setup /\ outcome.how = "none"
      /\ asked[Latest].to = "answer" /\ Latest' = Latest
      /\ CourseInv /\ TypeOK
  BY DEF IInv, CourseInv, AskedInv, RunningInv, TypeOK,
      Tell, Latest
<1>2. /\ Latest = 2 /\ setup.chain # "math" /\ DOMAIN answers = {1, 2}
      /\ asked[Latest] \in Request
  <2>1. /\ Latest \in DOMAIN asked /\ Len(asked) >= 1 /\ Len(asked) \in Nat
        /\ DOMAIN answers = 1..Len(asked) /\ asked[Latest] \in Request
    BY <1>1, RequestsAreRequests
  <2>2. Latest # 1
    BY <1>1, <2>1 DEF CourseInv, DoneInv
  <2>3. Len(asked) <= 2 /\ (setup.chain = "math" => Len(asked) <= 1)
    <3>1. Len(asked) <= IF setup.chain = "math" THEN 1 ELSE 2
      BY <1>1 DEF CourseInv, DoneInv
    <3> QED BY <2>1, <3>1
  <2>4. Len(asked) = 2 /\ setup.chain # "math"
    <3>1. Len(asked) \in Nat /\ Len(asked) >= 1
      BY <2>1
    <3>2. Len(asked) # 1
      BY <2>2 DEF Latest
    <3>3. \A n \in Nat : (n >= 1 /\ n # 1 /\ n <= 2) => n = 2
      OBVIOUS
    <3>4. Len(asked) = 2
      BY <3>1, <3>2, <3>3, <2>3
    <3> QED BY <2>3, <3>4
  <2>5. 1..2 = {1, 2}
    OBVIOUS
  <2> QED BY <2>1, <2>4, <2>5 DEF Latest
<1>3. PICK answer \in Says(asked[Latest]) :
        /\ answers' = Heard(answer)
        /\ IF answer.how = "failed" THEN Failed
           ELSE Ended("ok", Latest,
                      IF setup.chain = "sql" THEN Answer(answer.form) ELSE {1}, FALSE)
  BY DEF Tell
<1>4. answer \in Replied /\ answer.how \in {"failed", "text"}
  BY <1>1, <1>2, Sayable
<1>5. /\ DOMAIN answers' = {1, 2} /\ answers'[2] = answer /\ answers'[1] = answers[1]
  BY <1>1, <1>2, <1>3, <1>4, HeardIs
<1>6. \A n \in DOMAIN answers' :
            answers'[n] = Pending \/ answers'[n] \in Says(asked'[n])
  BY <1>1, <1>3, HeardIsSaid
<1>7. QueryInv' /\ CritiqueInv' /\ PrincipleInv'
  BY <1>1, <1>5 DEF IInv, QueryInv, CritiqueInv, PrincipleInv,
      ToDo, Says
<1>8. outcome' \in Outcome /\ LastIsReturned'
  <2>1. CASE Failed
    BY <2>1, FailureIs DEF LastIsReturned, Ok
  <2>2. CASE answer.how # "failed"
    <3> DEFINE tokens == IF setup.chain = "sql" THEN Answer(answer.form) ELSE {1}
    <3>1. setup.chain = "sql" => answer.form \in Replies
      BY <1>1, <1>2, <1>4, <2>2, WhatIsSaid
    <3>2. tokens \in SUBSET (1..3)
      <4>1. CASE setup.chain = "sql"
        <5>1. DOMAIN answer.form \subseteq 1..3
          <6>1. PICK n \in 1..3 : answer.form \in [1..n -> {"text", "paragraph", "Answer:"}]
            BY <3>1, <4>1 DEF Replies
          <6> QED BY <6>1
        <5> QED BY <3>1, <4>1, <5>1, AnswerIsMarked
      <4> QED BY <4>1
    <3>3. Ended("ok", 2, tokens, FALSE)
      BY <1>2, <1>3, <2>2
    <3> HIDE DEF tokens
    <3>4. /\ outcome' \in Outcome /\ outcome'.answer = 2 /\ outcome'.value = FALSE
          /\ outcome'.tokens = tokens
      BY <3>2, <3>3, EndIs
    <3>5. ASSUME setup.chain = "sql"
          PROVE  LET reply == answer.form
                     inFirst(k) == \A j \in 1..k : reply[j] # "paragraph"
                 IN /\ \A k \in outcome'.tokens : inFirst(k) /\ reply[k] = "text"
                    /\ \A k \in DOMAIN reply :
                         reply[k] = "text" /\ inFirst(k) /\ k \notin outcome'.tokens =>
                           \E j \in DOMAIN reply : inFirst(j) /\ reply[j] = "Answer:"
      <4>1. outcome'.tokens = Answer(answer.form) /\ answer.form \in Replies
        BY <3>1, <3>4, <3>5 DEF tokens
      <4> QED BY <4>1, AnswerIsMarked
    <3> QED BY <1>1, <1>2, <1>5, <3>4, <3>5 DEF LastIsReturned
  <2> QED BY <1>3, <2>1, <2>2
<1>9. TypeOK'
  BY <1>1, <1>6, <1>8, TypesOfStep
<1> QED BY <1>7, <1>8, <1>9 DEF IInv

-----------------------------------------------------------------------------
(* Critiques and revisions.                                                *)

(* A step of Constitutional hears the latest answer and ends the call, or asks for a *)
(* revision of the response, or for its critique by the next principle.              *)
LEMMA CritiqueIs ==
    ASSUME MaxPrinciples \in Nat, CourseInv, TypeOK, CritiqueInv,
           PrincipleInv, processCritiquesAndRevisions
    PROVE  \E answer \in Says(asked[Latest]) :
             /\ DOMAIN answers' = DOMAIN asked' /\ DOMAIN asked = 1..Len(asked)
             /\ \A n \in DOMAIN asked : asked'[n] = asked[n]
             /\ \A n \in DOMAIN asked : n # Latest => answers'[n] = answers[n]
             /\ answers'[Latest] = answer
             /\ \/ /\ Failed /\ asked' = asked
                \/ /\ Call /\ asked' = asked
                   /\ asked[Latest].principle >= setup.principles
                \/ /\ outcome' = outcome /\ pc' = pc /\ DOMAIN asked' = 1..(Len(asked) + 1)
                   /\ Len(asked') = Len(asked) + 1
                   /\ answers'[Len(asked) + 1] = Pending
                   /\ asked'[Len(asked) + 1].about = Response
                   /\ \/ /\ asked'[Len(asked) + 1].to = "revise"
                         /\ asked[Latest].to = "critique"
                         /\ answer.form = <<"needed">>
                         /\ asked'[Len(asked) + 1].principle
                              = asked[Latest].principle
                      \/ /\ asked'[Len(asked) + 1].to = "critique"
                         /\ asked'[Len(asked) + 1].principle
                              = asked[Latest].principle + 1
                         /\ asked[Latest].principle + 1 <= setup.principles
<1>1. PICK answer \in Says(asked[Latest]) :
        LET settled == Heard(answer)
            request == asked[Latest]
            next == request.principle + 1
            revise == request.to = "critique" /\ answer.form = <<"needed">>
        IN \/ answer.how = "failed" /\ Failed /\ answers' = settled /\ UNCHANGED asked
           \/ /\ answer.how = "text" /\ revise /\ UNCHANGED <<pc, outcome>>
              /\ AskFor(settled, "revise", request.principle, Response)
           \/ /\ answer.how = "text" /\ ~revise /\ next <= setup.principles
              /\ AskFor(settled, "critique", next, Response)
              /\ UNCHANGED <<pc, outcome>>
           \/ /\ answer.how = "text" /\ ~revise /\ next > setup.principles
              /\ Call /\ answers' = settled /\ UNCHANGED asked
  BY DEF processCritiquesAndRevisions
<1> DEFINE settled == Heard(answer)
           request == asked[Latest]
<1>2. request \in Request /\ answer \in Replied /\ setup \in Setup
  BY RequestsAreRequests, Sayable
<1>3. /\ settled \in Seq(Replied) /\ Len(settled) = Len(asked)
      /\ DOMAIN settled = DOMAIN answers /\ settled[Latest] = answer
      /\ \A n \in DOMAIN answers : n # Latest => settled[n] = answers[n]
  BY <1>2, HeardIs
<1>4. /\ DOMAIN asked = 1..Len(asked) /\ DOMAIN answers = 1..Len(asked) /\ Len(asked) \in Nat
      /\ Latest \in 1..Len(asked) /\ asked \in Seq(Request)
      /\ Latest = Len(asked)
  BY RequestsAreRequests DEF Latest
<1>5. /\ request.principle \in Nat /\ setup.principles \in Nat
      /\ request.principle \in 0..MaxPrinciples /\ setup.principles \in 0..MaxPrinciples
  BY <1>2 DEF Request, Setup
<1>6. Response \in Nat
  BY ResponseIs
<1> HIDE DEF settled
<1>7. ASSUME answers' = settled, asked' = asked
      PROVE  /\ DOMAIN answers' = DOMAIN asked'
             /\ \A n \in DOMAIN asked : asked'[n] = asked[n]
             /\ \A n \in DOMAIN asked : n # Latest => answers'[n] = answers[n]
             /\ answers'[Latest] = answer
  BY <1>3, <1>4, <1>7
<1>8. ASSUME NEW to \in {"critique", "revise"}, NEW principle \in 0..MaxPrinciples,
             AskFor(settled, to, principle, Response)
      PROVE  /\ DOMAIN answers' = DOMAIN asked'
             /\ \A n \in DOMAIN asked : asked'[n] = asked[n]
             /\ \A n \in DOMAIN asked : n # Latest => answers'[n] = answers[n]
             /\ answers'[Latest] = answer
             /\ DOMAIN asked' = 1..(Len(asked) + 1) /\ Len(asked') = Len(asked) + 1
             /\ answers'[Len(asked) + 1] = Pending
             /\ asked'[Len(asked) + 1].about = Response
             /\ asked'[Len(asked) + 1].to = to
             /\ asked'[Len(asked) + 1].principle = principle
  <2>1. /\ Len(asked') = Len(asked) + 1
        /\ DOMAIN asked' = 1..Len(asked') /\ DOMAIN answers' = 1..Len(asked')
        /\ asked'[Len(asked')].to = to /\ asked'[Len(asked')].principle = principle
        /\ asked'[Len(asked')].about = Response
        /\ answers'[Len(asked')] = Pending
        /\ \A n \in DOMAIN asked : asked'[n] = asked[n]
        /\ \A n \in DOMAIN settled : answers'[n] = settled[n]
    BY <1>3, <1>4, <1>6, <1>8, AskForIs
  <2> QED BY <1>3, <1>4, <2>1
<1>9. CASE answer.how = "failed" /\ Failed /\ answers' = settled /\ UNCHANGED asked
  BY <1>4, <1>7, <1>9
<1>10. CASE /\ request.to = "critique" /\ answer.form = <<"needed">>
            /\ UNCHANGED <<pc, outcome>>
            /\ AskFor(settled, "revise", request.principle, Response)
  <2>1. "revise" \in {"critique", "revise"}
    OBVIOUS
  <2> QED BY <1>4, <1>5, <1>8, <1>10, <2>1
<1>11. CASE /\ request.principle + 1 <= setup.principles
            /\ AskFor(settled, "critique", request.principle + 1, Response)
            /\ UNCHANGED <<pc, outcome>>
  <2>1. "critique" \in {"critique", "revise"} /\ request.principle + 1 \in 0..MaxPrinciples
    BY <1>5, <1>11
  <2> QED BY <1>4, <1>8, <1>11, <2>1
<1>12. CASE /\ request.principle + 1 > setup.principles
            /\ Call /\ answers' = settled /\ UNCHANGED asked
  <2>1. request.principle >= setup.principles
    BY <1>5, <1>12
  <2> QED BY <1>4, <1>7, <1>12, <2>1
<1> QED BY <1>1, <1>9, <1>10, <1>11, <1>12 DEF settled

(* The response is the latest answer that is one: the first or a revision. *)
LEMMA ResponseIsLatest ==
    ASSUME CourseInv, CritiqueInv, setup.chain = "constitutional"
    PROVE  Response = Max({m \in 1..Len(asked) :
                                            asked[m].to \in {"initial", "revise"}})
<1>1. /\ DOMAIN asked = 1..Len(asked) /\ 1 \in DOMAIN asked /\ Latest = Len(asked)
  BY RequestsAreRequests DEF Latest
<1>2. /\ asked[1].to = "initial"
      /\ \A n \in 1..Len(asked) : n # 1 => asked[n].to \in {"critique", "revise"}
  BY <1>1 DEF CritiqueInv
<1>3. {1} \cup {n \in 1..Len(asked) : asked[n].to = "revise"}
        = {m \in 1..Len(asked) : asked[m].to \in {"initial", "revise"}}
  BY <1>1, <1>2
<1> QED BY <1>1, <1>3 DEF Response

(* A critique or a revision is of the response, and follows what asks for it.    *)
LEMMA CritiqueFollows ==
    ASSUME MaxPrinciples \in Nat, IInv, CourseInv',
           processCritiquesAndRevisions
    PROVE  CritiqueInv'
<1>1. /\ setup.chain = "constitutional" /\ setup' = setup /\ done' = done
      /\ CourseInv /\ TypeOK /\ CritiqueInv /\ PrincipleInv
  BY DEF IInv, processCritiquesAndRevisions
<1>2. /\ done = <<>> /\ asked[1].to = "initial" /\ asked[1].principle = 0
      /\ \A n \in DOMAIN asked \ {1} :
              \/ /\ asked[n].to = "critique"
                 /\ asked[n].principle = asked[n - 1].principle + 1
              \/ /\ asked[n].to = "revise" /\ asked[n - 1].to = "critique"
                 /\ asked[n].principle = asked[n - 1].principle
                 /\ answers[n - 1].form = <<"needed">>
      /\ \A n \in DOMAIN asked \ {1} :
              asked[n].about =
                Max({m \in 1..(n - 1) : asked[m].to \in {"initial", "revise"}})
  BY <1>1 DEF CritiqueInv
<1>3. /\ DOMAIN asked = 1..Len(asked) /\ 1 \in DOMAIN asked /\ Latest = Len(asked)
      /\ Len(asked) \in Nat /\ Len(asked) >= 1
  BY <1>1, RequestsAreRequests DEF Latest
<1>4. PICK answer \in Says(asked[Latest]) :
             /\ DOMAIN answers' = DOMAIN asked' /\ DOMAIN asked = 1..Len(asked)
             /\ \A n \in DOMAIN asked : asked'[n] = asked[n]
             /\ \A n \in DOMAIN asked : n # Latest => answers'[n] = answers[n]
             /\ answers'[Latest] = answer
             /\ \/ /\ Failed /\ asked' = asked
                \/ /\ Call /\ asked' = asked
                   /\ asked[Latest].principle >= setup.principles
                \/ /\ outcome' = outcome /\ pc' = pc /\ DOMAIN asked' = 1..(Len(asked) + 1)
                   /\ Len(asked') = Len(asked) + 1
                   /\ answers'[Len(asked) + 1] = Pending
                   /\ asked'[Len(asked) + 1].about = Response
                   /\ \/ /\ asked'[Len(asked) + 1].to = "revise"
                         /\ asked[Latest].to = "critique"
                         /\ answer.form = <<"needed">>
                         /\ asked'[Len(asked) + 1].principle
                              = asked[Latest].principle
                      \/ /\ asked'[Len(asked) + 1].to = "critique"
                         /\ asked'[Len(asked) + 1].principle
                              = asked[Latest].principle + 1
                         /\ asked[Latest].principle + 1 <= setup.principles
  BY <1>1, CritiqueIs
<1>5. pc' # "act"
  BY DEF processCritiquesAndRevisions, Failed, Call, Ended
<1>6. asked'[1].to = "initial" /\ asked'[1].principle = 0
  BY <1>2, <1>3, <1>4
<1>7. \A n \in DOMAIN asked \ {1} :
         /\ n \in 1..Len(asked) /\ n - 1 \in 1..Len(asked) /\ n - 1 # Latest
         /\ asked'[n] = asked[n] /\ asked'[n - 1] = asked[n - 1]
         /\ answers'[n - 1] = answers[n - 1]
         /\ {m \in 1..(n - 1) : asked'[m].to \in {"initial", "revise"}}
              = {m \in 1..(n - 1) : asked[m].to \in {"initial", "revise"}}
  <2> SUFFICES ASSUME NEW n \in DOMAIN asked \ {1}
      PROVE /\ n \in 1..Len(asked) /\ n - 1 \in 1..Len(asked) /\ n - 1 # Latest
            /\ asked'[n] = asked[n] /\ asked'[n - 1] = asked[n - 1]
            /\ answers'[n - 1] = answers[n - 1]
            /\ {m \in 1..(n - 1) : asked'[m].to \in {"initial", "revise"}}
                 = {m \in 1..(n - 1) : asked[m].to \in {"initial", "revise"}}
    OBVIOUS
  <2>1. n \in 1..Len(asked) /\ n - 1 \in 1..Len(asked) /\ n - 1 # Latest
    BY <1>3
  <2>2. \A m \in 1..(n - 1) : asked'[m] = asked[m]
    BY <1>3, <1>4, <2>1
  <2> QED BY <1>3, <1>4, <2>1, <2>2
<1> DEFINE Follows(q, a, n) ==
              \/ /\ q[n].to = "critique"
                 /\ q[n].principle = q[n - 1].principle + 1
              \/ /\ q[n].to = "revise" /\ q[n - 1].to = "critique"
                 /\ q[n].principle = q[n - 1].principle
                 /\ a[n - 1].form = <<"needed">>
           About(q, n) == q[n].about =
                Max({m \in 1..(n - 1) : q[m].to \in {"initial", "revise"}})
<1>8. \A n \in DOMAIN asked \ {1} : Follows(asked', answers', n) /\ About(asked', n)
  <2> SUFFICES ASSUME NEW n \in DOMAIN asked \ {1}
               PROVE  Follows(asked', answers', n) /\ About(asked', n)
    OBVIOUS
  <2>1. Follows(asked, answers, n) /\ About(asked, n)
    BY <1>2
  <2>2. Follows(asked', answers', n)
    BY <1>7, <2>1
  <2>3. About(asked', n)
    BY <1>7, <2>1
  <2> QED BY <2>2, <2>3
<1>9. CASE asked' = asked
  <2>1. \A n \in DOMAIN asked' \ {1} : Follows(asked', answers', n) /\ About(asked', n)
    BY <1>8, <1>9
  <2> QED BY <1>1, <1>2, <1>5, <1>6, <2>1 DEF CritiqueInv
<1>10. CASE /\ DOMAIN asked' = 1..(Len(asked) + 1)
            /\ asked'[Len(asked) + 1].about = Response
            /\ \/ /\ asked'[Len(asked) + 1].to = "revise"
                  /\ asked[Latest].to = "critique"
                  /\ answer.form = <<"needed">>
                  /\ asked'[Len(asked) + 1].principle = asked[Latest].principle
               \/ /\ asked'[Len(asked) + 1].to = "critique"
                  /\ asked'[Len(asked) + 1].principle = asked[Latest].principle + 1
  <2> DEFINE new == Len(asked) + 1
  <2>1. /\ new - 1 = Latest /\ new - 1 = Len(asked)
        /\ asked'[new - 1] = asked[Latest] /\ answers'[new - 1] = answer
    BY <1>3, <1>4
  <2>2. Follows(asked', answers', new)
    BY <1>10, <2>1
  <2>3. About(asked', new)
    <3>1. {m \in 1..(new - 1) : asked'[m].to \in {"initial", "revise"}}
            = {m \in 1..Len(asked) : asked[m].to \in {"initial", "revise"}}
      BY <1>3, <1>4, <2>1
    <3>2. asked'[new].about = Max({m \in 1..Len(asked) :
                                             asked[m].to \in {"initial", "revise"}})
      BY <1>1, <1>10, ResponseIsLatest
    <3> QED BY <3>1, <3>2
  <2>4. \A n \in DOMAIN asked' \ {1} : n = new \/ n \in DOMAIN asked \ {1}
    BY <1>3, <1>10
  <2> HIDE DEF new, Follows, About
  <2>5. \A n \in DOMAIN asked' \ {1} : Follows(asked', answers', n) /\ About(asked', n)
    BY <1>8, <2>2, <2>3, <2>4
  <2> QED BY <1>1, <1>2, <1>5, <1>6, <2>5 DEF CritiqueInv, Follows, About
<1> QED BY <1>4, <1>9, <1>10

(* Each principle that was come to has one critique, then as before.       *)
LEMMA PrinciplesFollow ==
    ASSUME MaxPrinciples \in Nat, IInv, CourseInv',
           processCritiquesAndRevisions
    PROVE  PrincipleInv'
<1>1. /\ setup.chain = "constitutional" /\ setup' = setup
      /\ CourseInv /\ TypeOK /\ CritiqueInv /\ PrincipleInv
      /\ outcome.how = "none" /\ setup.principles \in Nat
  BY DEF IInv, processCritiquesAndRevisions, CourseInv,
      RunningInv, AskedInv, Setup
<1> DEFINE reached == asked[Latest].principle
<1>2. /\ reached <= setup.principles
      /\ \A n \in DOMAIN asked : asked[n].principle <= reached
      /\ \A p \in 1..reached : \E n \in DOMAIN asked : /\ asked[n].to = "critique"
                                                       /\ asked[n].principle = p
      /\ \A n, m \in DOMAIN asked :
            asked[n].to = "critique" /\ asked[m].to = "critique"
            /\ asked[n].principle = asked[m].principle => n = m
  BY <1>1 DEF PrincipleInv, Asked
<1>3. /\ DOMAIN asked = 1..Len(asked) /\ Latest = Len(asked)
      /\ Latest \in DOMAIN asked
      /\ Len(asked) \in Nat /\ asked \in Seq(Request)
  BY <1>1, RequestsAreRequests DEF Latest
<1>4. PICK answer \in Says(asked[Latest]) :
             /\ DOMAIN answers' = DOMAIN asked' /\ DOMAIN asked = 1..Len(asked)
             /\ \A n \in DOMAIN asked : asked'[n] = asked[n]
             /\ \A n \in DOMAIN asked : n # Latest => answers'[n] = answers[n]
             /\ answers'[Latest] = answer
             /\ \/ /\ Failed /\ asked' = asked
                \/ /\ Call /\ asked' = asked
                   /\ asked[Latest].principle >= setup.principles
                \/ /\ outcome' = outcome /\ pc' = pc /\ DOMAIN asked' = 1..(Len(asked) + 1)
                   /\ Len(asked') = Len(asked) + 1
                   /\ answers'[Len(asked) + 1] = Pending
                   /\ asked'[Len(asked) + 1].about = Response
                   /\ \/ /\ asked'[Len(asked) + 1].to = "revise"
                         /\ asked[Latest].to = "critique"
                         /\ answer.form = <<"needed">>
                         /\ asked'[Len(asked) + 1].principle
                              = asked[Latest].principle
                      \/ /\ asked'[Len(asked) + 1].to = "critique"
                         /\ asked'[Len(asked) + 1].principle
                              = asked[Latest].principle + 1
                         /\ asked[Latest].principle + 1 <= setup.principles
  BY <1>1, CritiqueIs
<1>5. \A n \in DOMAIN asked : asked[n].principle \in Nat
  <2> SUFFICES ASSUME NEW n \in DOMAIN asked PROVE asked[n].principle \in Nat
    OBVIOUS
  <2>1. asked[n] \in Request
    BY <1>3, ElementOfSeq
  <2> QED BY <2>1 DEF Request
<1>6. reached \in Nat
  BY <1>3, <1>5
<1>7. CASE asked' = asked
  <2>1. Latest' = Latest
    BY <1>7 DEF Latest
  <2>2. Ok' => reached = setup.principles
    <3>1. CASE Failed
      BY <3>1, FailureIs DEF Ok
    <3>2. CASE asked[Latest].principle >= setup.principles
      BY <1>1, <1>2, <1>6, <3>2
    <3>3. CASE outcome' = outcome
      BY <1>1, <3>3 DEF Ok
    <3> QED BY <1>4, <3>1, <3>2, <3>3
  <2> HIDE DEF reached
  <2>3. asked'[Latest'].principle = reached
    BY <1>7, <2>1 DEF reached
  <2> QED BY <1>1, <1>2, <1>7, <2>2, <2>3 DEF PrincipleInv, Asked
<1>8. CASE /\ DOMAIN asked' = 1..(Len(asked) + 1) /\ Len(asked') = Len(asked) + 1
           /\ outcome' = outcome
           /\ \/ /\ asked'[Len(asked) + 1].to = "revise"
                 /\ asked'[Len(asked) + 1].principle = asked[Latest].principle
              \/ /\ asked'[Len(asked) + 1].to = "critique"
                 /\ asked'[Len(asked) + 1].principle = asked[Latest].principle + 1
                 /\ asked[Latest].principle + 1 <= setup.principles
  <2> DEFINE new == Len(asked) + 1
             now == asked'[new].principle
  <2>1. Latest' = new /\ ~Ok'
    BY <1>1, <1>8 DEF Latest, Ok
  <2>2. /\ \A n \in DOMAIN asked' : n = new \/ n \in DOMAIN asked
        /\ new \in DOMAIN asked' /\ \A n \in DOMAIN asked : n \in DOMAIN asked' /\ n # new
    BY <1>3, <1>8
  <2>3. /\ now \in Nat /\ now <= setup.principles /\ reached <= now
    BY <1>1, <1>2, <1>6, <1>8
  <2>4. \/ asked'[new].to = "revise" /\ now = reached
        \/ asked'[new].to = "critique" /\ now = reached + 1
    BY <1>8
  <2> HIDE DEF new, now, reached
  <2>5. \A n \in DOMAIN asked' : asked'[n].principle <= now
    <3> SUFFICES ASSUME NEW n \in DOMAIN asked' PROVE asked'[n].principle <= now
      OBVIOUS
    <3>1. CASE n = new
      BY <2>3, <3>1 DEF now
    <3>2. CASE n \in DOMAIN asked
      <4>1. /\ asked'[n].principle = asked[n].principle /\ asked[n].principle <= reached
            /\ asked[n].principle \in Nat
        BY <1>2, <1>4, <1>5, <3>2
      <4> QED BY <1>6, <2>3, <4>1
    <3> QED BY <2>2, <3>1, <3>2
  <2>6. \A p \in 1..now : \E n \in DOMAIN asked' : /\ asked'[n].to = "critique"
                                                   /\ asked'[n].principle = p
    <3> SUFFICES ASSUME NEW p \in 1..now
                 PROVE  \E n \in DOMAIN asked' : /\ asked'[n].to = "critique"
                                                 /\ asked'[n].principle = p
      OBVIOUS
    <3>1. CASE p \in 1..reached
      <4>1. PICK n \in DOMAIN asked : asked[n].to = "critique" /\ asked[n].principle = p
        BY <1>2, <3>1
      <4> QED BY <1>4, <2>2, <4>1
    <3>2. CASE p \notin 1..reached
      <4>1. p = now /\ asked'[new].to = "critique"
        BY <1>6, <2>3, <2>4, <3>2
      <4> QED BY <2>2, <4>1 DEF now
    <3> QED BY <3>1, <3>2
  <2>7. \A n, m \in DOMAIN asked' :
            asked'[n].to = "critique" /\ asked'[m].to = "critique"
            /\ asked'[n].principle = asked'[m].principle => n = m
    <3>1. \A n \in DOMAIN asked :
              asked'[new].to = "critique" => asked'[n].principle # asked'[new].principle
      <4> SUFFICES ASSUME NEW n \in DOMAIN asked, asked'[new].to = "critique"
                   PROVE  asked'[n].principle # now
        BY DEF now
      <4>1. /\ asked'[n].principle = asked[n].principle /\ asked[n].principle <= reached
            /\ asked[n].principle \in Nat
        BY <1>2, <1>4, <1>5
      <4> QED BY <1>6, <2>4, <4>1
    <3> QED BY <1>2, <1>4, <2>2, <3>1
  <2>8. /\ asked'[Latest'].principle = now
        /\ setup'.principles = setup.principles
    BY <1>1, <2>1 DEF now
  <2> QED BY <2>1, <2>3, <2>5, <2>6, <2>7, <2>8 DEF PrincipleInv, Asked
<1> QED BY <1>4, <1>7, <1>8

(* Constitutional keeps the rest of the invariant.                         *)
LEMMA CritiqueKeeps ==
    ASSUME MaxPrinciples \in Nat, IInv, CourseInv',
           processCritiquesAndRevisions
    PROVE  IInv'
<1>1. /\ setup.chain = "constitutional" /\ setup' = setup /\ done' = done
      /\ CourseInv /\ TypeOK /\ outcome.how = "none"
      /\ CritiqueInv /\ PrincipleInv
      /\ setup \in Setup /\ outcome \in Outcome
      /\ done \in Seq(SUBSET (1..MaxLines \cup {1}))
  BY DEF IInv, processCritiquesAndRevisions, CourseInv,
      RunningInv, TypeOK
<1>2. CritiqueInv' /\ PrincipleInv'
  BY CritiqueFollows, PrinciplesFollow
<1>3. PICK answer \in Says(asked[Latest]) :
             /\ DOMAIN answers' = DOMAIN asked' /\ DOMAIN asked = 1..Len(asked)
             /\ \A n \in DOMAIN asked : asked'[n] = asked[n]
             /\ \A n \in DOMAIN asked : n # Latest => answers'[n] = answers[n]
             /\ answers'[Latest] = answer
             /\ \/ /\ Failed /\ asked' = asked
                \/ /\ Call /\ asked' = asked
                   /\ asked[Latest].principle >= setup.principles
                \/ /\ outcome' = outcome /\ pc' = pc /\ DOMAIN asked' = 1..(Len(asked) + 1)
                   /\ Len(asked') = Len(asked) + 1
                   /\ answers'[Len(asked) + 1] = Pending
                   /\ asked'[Len(asked) + 1].about = Response
                   /\ \/ /\ asked'[Len(asked) + 1].to = "revise"
                         /\ asked[Latest].to = "critique"
                         /\ answer.form = <<"needed">>
                         /\ asked'[Len(asked) + 1].principle
                              = asked[Latest].principle
                      \/ /\ asked'[Len(asked) + 1].to = "critique"
                         /\ asked'[Len(asked) + 1].principle
                              = asked[Latest].principle + 1
                         /\ asked[Latest].principle + 1 <= setup.principles
  BY <1>1, CritiqueIs
<1>4. /\ DOMAIN asked = DOMAIN answers /\ DOMAIN asked = 1..Len(asked) /\ Len(asked) \in Nat
      /\ \A n \in DOMAIN answers :
            answers[n] = Pending \/ answers[n] \in Says(asked[n])
  BY <1>1, RequestsAreRequests DEF TypeOK
<1>5. \A n \in DOMAIN answers' :
            answers'[n] = Pending \/ answers'[n] \in Says(asked'[n])
  <2>1. \A n \in DOMAIN asked :
            answers'[n] = Pending \/ answers'[n] \in Says(asked'[n])
    BY <1>3, <1>4
  <2>2. \A n \in DOMAIN asked' :
            n \in DOMAIN asked \/ answers'[n] = Pending
    BY <1>3, <1>4
  <2> QED BY <1>3, <2>1, <2>2
<1>6. outcome' \in Outcome /\ LastIsReturned'
  <2>1. CASE Failed
    BY <2>1, FailureIs DEF LastIsReturned, Ok
  <2>2. CASE Call
    <3>1. 1 \in Nat /\ {1} \in SUBSET (1..3) /\ FALSE \in BOOLEAN
      OBVIOUS
    <3>2. outcome' \in Outcome /\ outcome'.answer = 1
      BY <2>2, <3>1, EndIs DEF Call
    <3> QED BY <1>1, <3>2 DEF LastIsReturned
  <2>3. CASE outcome' = outcome
    BY <1>1, <2>3 DEF LastIsReturned, Ok
  <2> QED BY <1>3, <2>1, <2>2, <2>3
<1>7. TypeOK'
  BY <1>1, <1>5, <1>6, TypesOfStep
<1>8. QueryInv'
  BY <1>1 DEF QueryInv
<1> QED BY <1>2, <1>6, <1>7, <1>8 DEF IInv

-----------------------------------------------------------------------------
(* All of it.                                                              *)

(* A chain that acts begins with the whole invariant.                      *)
LEMMA ActsInit == ASSUME MaxPrinciples \in Nat, Init PROVE IInv
<1>1. CourseInv
  BY CourseInit
<1>2. /\ asked = <<FirstOf(setup.chain)>> /\ answers = <<Pending>>
      /\ done = <<>> /\ pc = "ask" /\ setup \in Setup
      /\ outcome = [how |-> "none", answer |-> 0, tokens |-> {}, value |-> FALSE]
      /\ asked[1] = FirstOf(setup.chain) /\ answers[1] = Pending
  BY DEF Init
<1>3. Len(asked) = 1 /\ Len(answers) = 1 /\ DOMAIN asked = {1} /\ DOMAIN answers = {1}
  BY <1>2
<1>4. TypeOK
  <2>1. outcome \in Outcome /\ ~Ok
    BY <1>2 DEF Outcome, Ok
  <2>2. done \in Seq(SUBSET (1..MaxLines \cup {1}))
    BY <1>2, EmptySeq
  <2>3. asked \in Seq(Request) /\ setup \in Setup
    BY <1>1 DEF CourseInv, AskedInv
  <2> QED BY <1>2, <1>3, <2>1, <2>2, <2>3 DEF TypeOK
<1>5. CritiqueInv
  BY <1>2, <1>3 DEF CritiqueInv, FirstOf
<1>6. PrincipleInv
  <2>1. Latest = 1 /\ ~Ok
    BY <1>2, <1>3 DEF Latest, Ok
  <2>2. asked[1].principle = 0 /\ (setup.chain = "constitutional" => asked[1].to = "initial")
    BY <1>2 DEF FirstOf
  <2>3. setup.principles \in Nat
    BY <1>2 DEF Setup
  <2> QED BY <1>3, <2>1, <2>2, <2>3 DEF PrincipleInv, Asked
<1>7. QueryInv /\ LastIsReturned
  BY <1>2 DEF QueryInv, LastIsReturned, Ok
<1> QED BY <1>1, <1>4, <1>5, <1>6, <1>7 DEF IInv

(* Every step keeps it.                                                    *)
LEMMA ActsSteps ==
    ASSUME MaxPrinciples \in Nat, MaxLines \in Nat,
           IInv, [Next]_vars
    PROVE  IInv'
<1>1. CourseInv'
  BY CourseSteps DEF IInv
<1>2. CASE UNCHANGED vars
  <2>1. UNCHANGED <<setup, pc, asked, answers, done, outcome>>
    BY <1>2 DEF vars
  <2>2. CritiqueInv' /\ PrincipleInv' /\ LastIsReturned'
    BY <2>1 DEF IInv, CritiqueInv, PrincipleInv, Asked,
        LastIsReturned, Ok, Latest
  <2>3. QueryInv'
    BY <2>1 DEF IInv, QueryInv, Says, ToDo
  <2>4. /\ setup \in Setup /\ done' \in Seq(SUBSET (1..MaxLines \cup {1}))
        /\ outcome' \in Outcome
        /\ \A n \in DOMAIN answers' :
              answers'[n] = Pending \/ answers'[n] \in Says(asked'[n])
    BY <2>1 DEF IInv, TypeOK
  <2>5. TypeOK'
    BY <1>1, <2>1, <2>4, TypesOfStep
  <2> QED BY <1>1, <2>2, <2>3, <2>5 DEF IInv
<1>3. CASE Next
  BY <1>1, <1>3, CritiqueKeeps, UnderstandKeeps, ActKeeps, TellKeeps DEF Next
<1> QED BY <1>2, <1>3

(* What the invariant says of what is asked, run and done.                 *)
LEMMA ActsPromise ==
    ASSUME MaxLines \in Nat, IInv
    PROVE  /\ PrinciplesAreApplied /\ QueryIsRun /\ DoneOnce
           /\ LastIsReturned /\ TypeOK /\ FailureIsTold
<1>1. /\ CourseInv /\ CritiqueInv /\ PrincipleInv /\ QueryInv
      /\ LastIsReturned /\ TypeOK /\ FailureIsTold
  BY DEF IInv, CourseInv
<1>2. /\ DOMAIN asked = 1..Len(asked) /\ Latest = Len(asked) /\ 1 \in DOMAIN asked
      /\ Len(asked) \in Nat /\ asked[1] \in Request /\ setup \in Setup
  BY <1>1, RequestsAreRequests DEF Latest
<1>3. PrinciplesAreApplied
  <2> SUFFICES ASSUME setup.chain = "constitutional" PROVE PrinciplesAreApplied
    BY DEF PrinciplesAreApplied
  <2>1. Asked("critique") \cup Asked("revise") \subseteq DOMAIN asked \ {1}
    BY <1>1 DEF CritiqueInv, Asked
  <2>2. \A n \in Asked("critique") \cup Asked("revise") :
           asked[n].about =
             Max({m \in 1..(n - 1) : asked[m].to \in {"initial", "revise"}})
    BY <1>1, <2>1 DEF CritiqueInv
  <2>3. \A n \in Asked("revise") :
           /\ asked[n - 1].to = "critique" /\ asked[n - 1].principle = asked[n].principle
           /\ answers[n - 1].form = <<"needed">>
    <3> SUFFICES ASSUME NEW n \in Asked("revise")
                 PROVE  /\ asked[n - 1].to = "critique"
                        /\ asked[n - 1].principle = asked[n].principle
                        /\ answers[n - 1].form = <<"needed">>
      OBVIOUS
    <3>1. n \in DOMAIN asked \ {1} /\ asked[n].to = "revise"
      BY <2>1 DEF Asked
    <3> QED BY <1>1, <3>1 DEF CritiqueInv
  <2>4. Ok => \A p \in 1..setup.principles :
           Cardinality({n \in Asked("critique") : asked[n].principle = p}) = 1
    <3> SUFFICES ASSUME Ok, NEW p \in 1..setup.principles
        PROVE Cardinality({n \in Asked("critique") : asked[n].principle = p}) = 1
      OBVIOUS
    <3>1. p \in 1..asked[Latest].principle
      BY <1>1 DEF PrincipleInv
    <3>2. PICK n \in Asked("critique") : asked[n].principle = p
      BY <1>1, <3>1 DEF PrincipleInv
    <3>3. \A m \in Asked("critique") : asked[m].principle = p => m = n
      BY <1>1, <3>2 DEF PrincipleInv
    <3>4. {m \in Asked("critique") : asked[m].principle = p} = {n}
      BY <3>2, <3>3
    <3>5. Cardinality({n}) = 1
      BY FS_Singleton
    <3> QED BY <3>4, <3>5
  <2> QED BY <2>2, <2>3, <2>4 DEF PrinciplesAreApplied
<1>4. QueryIsRun
  <2> SUFFICES ASSUME setup.chain = "sql", done # <<>> PROVE QueryIsRun
    BY DEF QueryIsRun
  <2>1. /\ answers[1] \in Says(asked[1]) /\ answers[1].how = "text"
        /\ done[1] = ToDo(answers[1].form) /\ asked[1].to = "act"
    BY <1>1, <1>2 DEF QueryInv, CourseInv, DoneInv
  <2>2. answers[1].form \in Queries
    BY <1>2, <2>1, WhatIsSaid
  <2>3. done[1] = extractSQLQuery(answers[1].form)
    BY <2>1 DEF ToDo
  <2> QED BY <2>2, <2>3, QueryIsAllOfIt DEF QueryIsRun
<1>5. DoneOnce
  <2>1. CASE setup.chain = "constitutional"
    <3>1. done = <<>> /\ Asked("answer") = {}
      BY <1>1, <2>1 DEF CritiqueInv, Asked
    <3> QED BY <3>1 DEF DoneOnce
  <2>2. CASE setup.chain # "constitutional"
    <3>1. done = <<>> \/ done = <<ToDo(answers[1].form)>>
      BY <1>1, <2>2 DEF QueryInv
    <3>2. ASSUME Asked("answer") # {} PROVE done # <<>>
      <4>1. PICK n \in DOMAIN asked : asked[n].to = "answer"
        BY <3>2 DEF Asked
      <4>2. n # 1 /\ n \in 1..Len(asked)
        BY <1>1, <1>2, <2>2, <4>1 DEF CourseInv, DoneInv
      <4>3. Len(asked) > 1
        BY <1>2, <4>2
      <4> QED BY <1>1, <2>2, <4>3 DEF QueryInv
    <3>3. Len(done) = 0 \/ Len(done) = 1
      BY <3>1
    <3>4. done # <<>> => Len(done) = 1
      BY <3>1
    <3>5. Len(done) <= 1
      <4>1. \A n \in {0, 1} : n <= 1
        OBVIOUS
      <4> QED BY <3>3, <4>1
    <3> QED BY <3>2, <3>4, <3>5 DEF DoneOnce
  <2> QED BY <2>1, <2>2
<1> QED BY <1>1, <1>3, <1>4, <1>5

-----------------------------------------------------------------------------
(* The inductive invariant holds.                                          *)
THEOREM Invariance ==
    ASSUME MaxPrinciples \in Nat, MaxLines \in Nat
    PROVE  Spec => []IInv
<1>1. Init => IInv
  BY ActsInit
<1>2. IInv /\ [Next]_vars => IInv'
  BY ActsSteps
<1> QED BY <1>1, <1>2, PTL DEF Spec

(* The state of a chain that acts keeps its types.                         *)
THEOREM TypeCorrect ==
    ASSUME MaxPrinciples \in Nat, MaxLines \in Nat
    PROVE  Spec => []TypeOK
<1>1. IInv => TypeOK
  BY DEF IInv
<1> QED BY <1>1, Invariance, PTL

(* Constitutional has the response, as it was last revised, critiqued once *)
(* by each principle and revised where a critique asks for it.             *)
THEOREM EachPrincipleIsApplied ==
    ASSUME MaxPrinciples \in Nat, MaxLines \in Nat
    PROVE  Spec => []PrinciplesAreApplied
<1>1. IInv => PrinciplesAreApplied
  BY ActsPromise
<1> QED BY <1>1, Invariance, PTL

(* The query that SQLDatabaseChain runs is what the model wrote as its     *)
(* query, every line of it and nothing of its explanations.                *)
THEOREM WholeQueryIsRun ==
    ASSUME MaxPrinciples \in Nat, MaxLines \in Nat
    PROVE  Spec => []QueryIsRun
<1>1. IInv => QueryIsRun
  BY ActsPromise
<1> QED BY <1>1, Invariance, PTL

(* What the model says is to be done is done once, before the answer about *)
(* it is asked for.                                                        *)
THEOREM ActsOnce ==
    ASSUME MaxPrinciples \in Nat, MaxLines \in Nat
    PROVE  Spec => []DoneOnce
<1>1. IInv => DoneOnce
  BY ActsPromise
<1> QED BY <1>1, Invariance, PTL

(* A request that fails, and what cannot be done, is an error.             *)
THEOREM FailuresAreTold ==
    ASSUME MaxPrinciples \in Nat, MaxLines \in Nat
    PROVE  Spec => []FailureIsTold
<1>1. IInv => FailureIsTold
  BY ActsPromise
<1> QED BY <1>1, Invariance, PTL

-----------------------------------------------------------------------------
(* AgentPlans.                                                              *)

(* A position that is the greatest here is so there.                        *)
LEMMA SameMax == \A S : Planning!Max(S) = Max(S)
BY DEF Planning!Max, Max

\* What FlattenSeq has put together when it comes to each list.
Flat(seqs) == CHOOSE f : f = [i \in 1..Len(seqs) |-> IF i = 1 THEN seqs[i]
                                                     ELSE f[i - 1] \o seqs[i]]

(* The sums of the lists exist: a smallest number of lists without them cannot be.  *)
LEMMA SumsExist ==
    ASSUME NEW seqs, NEW n \in Nat
    PROVE  \E f : f = [i \in 1..n |-> IF i = 1 THEN seqs[i] ELSE f[i - 1] \o seqs[i]]
<1> DEFINE Adds(f, m) == f = [i \in 1..m |-> IF i = 1 THEN seqs[i] ELSE f[i - 1] \o seqs[i]]
           bad == {m \in Nat : ~ \E f : Adds(f, m)}
<1>1. SUFFICES ASSUME bad # {} PROVE FALSE
  OBVIOUS
<1>2. PICK m \in bad : \A k \in bad : ~(<<k, m>> \in OpToRel(<, Nat))
  BY <1>1, WFMin, NatLessThanWellFounded
<1>3. m # 0
  <2> DEFINE e == [i \in 1..0 |-> seqs[i]]
  <2>1. e = [i \in 1..0 |-> IF i = 1 THEN seqs[i] ELSE e[i - 1] \o seqs[i]]
    OBVIOUS
  <2>2. \E f : Adds(f, 0)
    BY <2>1
  <2> HIDE DEF Adds
  <2> QED BY <2>2
<1>4. m - 1 \in Nat /\ m - 1 \notin bad
  <2>1. m - 1 \in Nat /\ m \in Nat /\ m - 1 < m
    BY <1>3
  <2>2. <<m - 1, m>> \in OpToRel(<, Nat)
    BY <2>1 DEF OpToRel
  <2> HIDE DEF bad
  <2> QED BY <1>2, <2>1, <2>2
<1>5. PICK f : Adds(f, m - 1)
  BY <1>4
<1> DEFINE g == [i \in 1..m |-> IF i < m THEN f[i]
                                ELSE IF m = 1 THEN seqs[1] ELSE f[m - 1] \o seqs[m]]
<1>6. Adds(g, m)
  <2>1. \A i \in 1..m : g[i] = IF i = 1 THEN seqs[i] ELSE g[i - 1] \o seqs[i]
    <3> TAKE i \in 1..m
    <3>1. CASE i < m
      <4>1. i \in 1..(m - 1) /\ g[i] = f[i]
        BY <3>1, <1>4
      <4>2. f[i] = IF i = 1 THEN seqs[i] ELSE f[i - 1] \o seqs[i]
        BY <4>1, <1>5
      <4>3. i # 1 => i - 1 \in 1..m /\ i - 1 < m /\ g[i - 1] = f[i - 1]
        BY <4>1, <1>4
      <4> QED BY <4>1, <4>2, <4>3
    <3>2. CASE i = m
      <4>1. i # 1 => i - 1 \in 1..m /\ i - 1 < m /\ g[i - 1] = f[i - 1]
        BY <3>2, <1>4
      <4> QED BY <3>2, <4>1
    <3> QED BY <3>1, <3>2, <1>4
  <2> HIDE DEF Adds
  <2>2. g = [i \in 1..m |-> IF i = 1 THEN seqs[i] ELSE g[i - 1] \o seqs[i]]
    BY <2>1
  <2> QED BY <2>2 DEF Adds
<1> QED BY <1>6, <1>2

(* So FlattenSeq puts the lists one after the other.                         *)
LEMMA FlatIs ==
    ASSUME NEW S, NEW seqs \in Seq(Seq(S))
    PROVE  /\ Planning!FlattenSeq(seqs) = IF seqs = <<>> THEN <<>> ELSE Flat(seqs)[Len(seqs)]
           /\ \A i \in 1..Len(seqs) :
                Flat(seqs)[i] = IF i = 1 THEN seqs[i] ELSE Flat(seqs)[i - 1] \o seqs[i]
<1>1. Len(seqs) \in Nat /\ (Len(seqs) = 0 <=> seqs = <<>>)
  BY EmptySeq, LenProperties
<1>2. Flat(seqs) = [i \in 1..Len(seqs) |-> IF i = 1 THEN seqs[i]
                                         ELSE Flat(seqs)[i - 1] \o seqs[i]]
  <2> DEFINE Adds(f) == f = [i \in 1..Len(seqs) |-> IF i = 1 THEN seqs[i]
                                         ELSE f[i - 1] \o seqs[i]]
  <2>1. \E f : Adds(f)
    BY <1>1, SumsExist
  <2>2. Flat(seqs) = CHOOSE f : Adds(f)
    BY DEF Flat
  <2> HIDE DEF Adds
  <2>3. Adds(Flat(seqs))
    BY <2>1, <2>2, Zenon
  <2> QED BY <2>3 DEF Adds
<1>3. Planning!FlattenSeq(seqs) = IF Len(seqs) = 0 THEN seqs ELSE Flat(seqs)[Len(seqs)]
  BY DEF Planning!FlattenSeq, Flat
<1>4. \A i \in 1..Len(seqs) :
                Flat(seqs)[i] = IF i = 1 THEN seqs[i] ELSE Flat(seqs)[i - 1] \o seqs[i]
  <2> DEFINE f == Flat(seqs)
  <2>1. f = [i \in 1..Len(seqs) |-> IF i = 1 THEN seqs[i] ELSE f[i - 1] \o seqs[i]]
    BY <1>2
  <2> HIDE DEF f
  <2>2. \A i \in 1..Len(seqs) : f[i] = IF i = 1 THEN seqs[i] ELSE f[i - 1] \o seqs[i]
    BY <2>1
  <2> QED BY <2>2 DEF f
<1> QED BY <1>1, <1>3, <1>4

\* The elements of a list are those of the first of the lists.
IsOf(flat, seqs, n) ==
    /\ \A x \in DOMAIN flat : \E i \in 1..n : \E j \in DOMAIN seqs[i] :
          flat[x] = seqs[i][j]
    /\ \A i \in 1..n : \A j \in DOMAIN seqs[i] : \E x \in DOMAIN flat :
          flat[x] = seqs[i][j]

(* The lists of two lists of lists, one after the other.                    *)
LEMMA FlatConcat ==
    ASSUME NEW S, NEW ss \in Seq(Seq(S)), NEW tt \in Seq(Seq(S))
    PROVE  /\ Planning!FlattenSeq(ss) \in Seq(S)
           /\ Planning!FlattenSeq(ss \o tt) = Planning!FlattenSeq(ss) \o Planning!FlattenSeq(tt)
<1> DEFINE all == ss \o tt
           m == Len(ss)
           l == Len(tt)
           sum == Planning!FlattenSeq(ss)
<1>1. /\ m \in Nat /\ l \in Nat /\ all \in Seq(Seq(S)) /\ Len(all) = m + l
      /\ \A k \in 1..m : all[k] = ss[k]
      /\ \A k \in 1..l : all[m + k] = tt[k]
      /\ m = 0 <=> ss = <<>>
      /\ l = 0 <=> tt = <<>>
      /\ m + l = 0 <=> all = <<>>
      /\ \A k \in 1..m : ss[k] \in Seq(S)
      /\ \A k \in 1..l : tt[k] \in Seq(S)
  <2>1. /\ m \in Nat /\ l \in Nat /\ all \in Seq(Seq(S)) /\ Len(all) = m + l
        /\ \A k \in 1..m : all[k] = ss[k]
        /\ \A k \in 1..l : all[m + k] = tt[k]
    BY LenProperties, ConcatProperties
  <2>2. (m = 0 <=> ss = <<>>) /\ (l = 0 <=> tt = <<>>)
    BY EmptySeq
  <2>3. Len(all) = 0 <=> all = <<>>
    BY <2>1, EmptySeq
  <2>4. \A k \in 1..m : ss[k] \in Seq(S)
    BY ElementOfSeq
  <2>5. \A k \in 1..l : tt[k] \in Seq(S)
    BY ElementOfSeq
  <2> QED BY <2>1, <2>2, <2>3, <2>4, <2>5
<1>2. /\ sum = IF m = 0 THEN <<>> ELSE Flat(ss)[m]
      /\ Planning!FlattenSeq(tt) = IF l = 0 THEN <<>> ELSE Flat(tt)[l]
      /\ Planning!FlattenSeq(all) = IF m + l = 0 THEN <<>> ELSE Flat(all)[m + l]
      /\ \A i \in 1..m : Flat(ss)[i] = IF i = 1 THEN ss[i] ELSE Flat(ss)[i - 1] \o ss[i]
      /\ \A i \in 1..l : Flat(tt)[i] = IF i = 1 THEN tt[i] ELSE Flat(tt)[i - 1] \o tt[i]
      /\ \A i \in 1..(m + l) : Flat(all)[i] = IF i = 1 THEN all[i]
                                              ELSE Flat(all)[i - 1] \o all[i]
  <2>1. /\ Planning!FlattenSeq(all) = IF all = <<>> THEN <<>> ELSE Flat(all)[Len(all)]
        /\ \A i \in 1..Len(all) : Flat(all)[i] = IF i = 1 THEN all[i]
                                              ELSE Flat(all)[i - 1] \o all[i]
    <3> HIDE DEF all
    <3> QED BY <1>1, FlatIs
  <2> QED BY <1>1, <2>1, FlatIs
<1> HIDE DEF all, m, l, sum
\* What there is after so many of the lists.
<1> DEFINE Good(n) == IF n <= m THEN /\ n = 0 \/ (Flat(ss)[n] \in Seq(S) /\ Flat(all)[n] = Flat(ss)[n])
                      ELSE /\ sum \in Seq(S) /\ Flat(tt)[n - m] \in Seq(S)
                           /\ Flat(all)[n] = sum \o Flat(tt)[n - m]
           bad == {n \in 0..(m + l) : ~Good(n)}
<1>3. bad = {}
  <2>1. SUFFICES ASSUME bad # {} PROVE FALSE
    OBVIOUS
  <2>2. PICK n \in bad : \A k \in bad : ~(<<k, n>> \in OpToRel(<, Nat))
    <3>1. bad \subseteq Nat
      BY <1>1
    <3> HIDE DEF bad
    <3> QED BY <2>1, <3>1, WFMin, NatLessThanWellFounded
  <2>3. n \in 1..(m + l) /\ n - 1 \in 0..(m + l) /\ Good(n - 1) /\ n \in Nat
    <3>1. n # 0
      BY <1>1
    <3>2. n \in 1..(m + l) /\ n - 1 \in Nat /\ n \in Nat /\ n - 1 < n /\ n - 1 \in 0..(m + l)
      BY <1>1, <3>1
    <3>3. <<n - 1, n>> \in OpToRel(<, Nat)
      BY <3>2 DEF OpToRel
    <3>4. n - 1 \notin bad
      <4> HIDE DEF bad
      <4> QED BY <2>2, <3>3
    <3> HIDE DEF Good
    <3> QED BY <3>2, <3>4
  <2>4. CASE n <= m
    <3>1. n \in 1..m /\ n - 1 <= m
      BY <1>1, <2>3, <2>4
    <3>2. CASE n = 1
      BY <1>1, <1>2, <2>3, <3>1, <3>2
    <3>3. CASE n # 1
      <4>1. /\ Flat(ss)[n - 1] \in Seq(S) /\ Flat(all)[n - 1] = Flat(ss)[n - 1]
        BY <1>1, <2>3, <3>1, <3>3
      <4>2. Flat(ss)[n] = Flat(ss)[n - 1] \o ss[n] /\ Flat(all)[n] = Flat(ss)[n - 1] \o ss[n]
        BY <1>1, <1>2, <2>3, <3>1, <3>3, <4>1
      <4>3. Flat(ss)[n - 1] \o ss[n] \in Seq(S)
        BY <1>1, <3>1, <4>1, ConcatProperties
      <4> QED BY <2>4, <4>2, <4>3
    <3> QED BY <3>2, <3>3
  <2>5. CASE n > m
    <3> DEFINE j == n - m
    <3>1. j \in 1..l /\ n = m + j /\ ~(n <= m)
      BY <1>1, <2>3, <2>5
    <3>2. sum \in Seq(S)
      <4>1. CASE m = 0
        BY <1>2, <4>1
      <4>2. CASE m # 0 /\ n - 1 <= m
        <5>1. n - 1 = m
          BY <1>1, <2>3, <2>5, <4>2
        <5> QED BY <1>2, <2>3, <4>2, <5>1
      <4>3. CASE ~(n - 1 <= m)
        BY <2>3, <4>3
      <4> QED BY <4>1, <4>2, <4>3
    <3>3. all[n] = tt[j] /\ tt[j] \in Seq(S)
      BY <1>1, <3>1
    <3>4. CASE j = 1
      <4>1. Flat(tt)[j] = tt[j]
        BY <1>2, <3>1, <3>4
      <4>2. Flat(all)[n] = sum \o tt[j]
        <5>1. CASE m = 0
          <6>1. n = 1 /\ sum = <<>> /\ Flat(all)[n] = all[n]
            BY <1>2, <2>3, <3>1, <3>4, <5>1
          <6>2. <<>> \o tt[j] = tt[j]
            BY <3>3, ConcatEmptySeq
          <6> QED BY <3>3, <6>1, <6>2
        <5>2. CASE m # 0
          <6>1. n # 1 /\ n - 1 = m
            BY <1>1, <3>1, <3>4, <5>2
          <6>2. Flat(all)[n] = Flat(all)[n - 1] \o all[n]
            BY <1>2, <2>3, <6>1
          <6>3. Flat(all)[n - 1] = sum
            BY <1>1, <1>2, <2>3, <5>2, <6>1
          <6> QED BY <3>3, <6>2, <6>3
        <5> QED BY <5>1, <5>2
      <4> HIDE DEF j
      <4>3. Flat(tt)[n - m] = tt[j]
        BY <4>1 DEF j
      <4> QED BY <3>1, <3>2, <3>3, <4>2, <4>3
    <3>5. CASE j # 1
      <4>1. ~(n - 1 <= m) /\ (n - 1) - m = j - 1 /\ n # 1 /\ j - 1 \in 1..l
        BY <1>1, <2>3, <3>1, <3>5
      <4>2. Flat(tt)[j - 1] \in Seq(S) /\ Flat(all)[n - 1] = sum \o Flat(tt)[j - 1]
        BY <2>3, <4>1
      <4>3. Flat(tt)[j] = Flat(tt)[j - 1] \o tt[j] /\ Flat(all)[n] = Flat(all)[n - 1] \o all[n]
        BY <1>2, <2>3, <3>1, <3>5, <4>1
      <4>4. Flat(tt)[j - 1] \o tt[j] \in Seq(S)
        BY <3>3, <4>2, ConcatProperties
      <4>5. (sum \o Flat(tt)[j - 1]) \o tt[j] = sum \o (Flat(tt)[j - 1] \o tt[j])
        <5> DEFINE u == Flat(tt)[j - 1]
                   v == tt[j]
        <5>1. sum \in Seq(S) /\ u \in Seq(S) /\ v \in Seq(S)
          BY <3>2, <3>3, <4>2
        <5> HIDE DEF u, v, sum
        <5>2. (sum \o u) \o v = sum \o (u \o v)
          BY <5>1, ConcatAssociative
        <5> QED BY <5>2 DEF u, v
      <4>6. Flat(all)[n] = sum \o Flat(tt)[j] /\ Flat(tt)[j] \in Seq(S)
        BY <3>3, <4>2, <4>3, <4>4, <4>5
      <4> QED BY <3>1, <3>2, <4>6
    <3> QED BY <3>4, <3>5
  <2> QED BY <1>1, <2>3, <2>4, <2>5
<1>4. Good(m) /\ Good(m + l)
  <2>1. m \in 0..(m + l) /\ m + l \in 0..(m + l)
    BY <1>1
  <2> HIDE DEF Good
  <2> QED BY <1>3, <2>1
<1>5. sum \in Seq(S)
  <2>1. CASE m = 0
    BY <1>2, <2>1
  <2>2. CASE m # 0
    BY <1>1, <1>2, <1>4, <2>2
  <2> QED BY <2>1, <2>2
<1>6. Planning!FlattenSeq(all) = sum \o Planning!FlattenSeq(tt)
  <2>1. CASE l = 0
    <3>1. Planning!FlattenSeq(tt) = <<>> /\ m + l = m
      BY <1>1, <1>2, <2>1
    <3>2. Planning!FlattenSeq(all) = sum
      BY <1>1, <1>2, <1>4, <3>1
    <3>3. sum \o <<>> = sum
      BY <1>5, ConcatEmptySeq
    <3> QED BY <3>1, <3>2, <3>3
  <2>2. CASE l # 0
    <3>1. ~(m + l <= m) /\ (m + l) - m = l /\ m + l # 0
      BY <1>1, <2>2
    <3> QED BY <1>2, <1>4, <2>2, <3>1
  <2> QED BY <2>1, <2>2
<1> QED BY <1>5, <1>6 DEF all, sum

(* A list of none and of one.                                               *)
LEMMA FlatFew ==
    ASSUME NEW S, NEW s \in Seq(S)
    PROVE  Planning!FlattenSeq(<<>>) = <<>> /\ Planning!FlattenSeq(<<s>>) = s
<1>1. Planning!FlattenSeq(<<>>) = <<>>
  <2>1. <<>> \in Seq(Seq({}))
    OBVIOUS
  <2> QED BY <2>1, FlatIs
<1> DEFINE one == <<s>>
<1>2. one \in Seq(Seq(S)) /\ Len(one) = 1 /\ one # <<>> /\ one[1] = s
  OBVIOUS
<1> HIDE DEF one
<1>3. Planning!FlattenSeq(one) = Flat(one)[1] /\ Flat(one)[1] = one[1]
  BY <1>2, FlatIs
<1> QED BY <1>1, <1>2, <1>3 DEF one

(* One list more.                                                           *)
LEMMA FlatMore ==
    ASSUME NEW S, NEW ss \in Seq(Seq(S)), NEW s \in Seq(S)
    PROVE  Planning!FlattenSeq(Append(ss, s)) = Planning!FlattenSeq(ss) \o s
<1>1. Append(ss, s) = ss \o <<s>> /\ <<s>> \in Seq(Seq(S))
  BY AppendIsConcat
<1>2. Planning!FlattenSeq(ss \o <<s>>) = Planning!FlattenSeq(ss) \o Planning!FlattenSeq(<<s>>)
  BY <1>1, FlatConcat
<1> QED BY <1>1, <1>2, FlatFew

\* Each of a list alone, or nothing.
Sifted(l, set) == [k \in DOMAIN l |-> Planning!Only(l[k], l[k] \in set)]

(* A list is sifted one by one.                                             *)
LEMMA SiftedIs ==
    ASSUME NEW S, NEW l \in Seq(S), NEW set
    PROVE  /\ Sifted(l, set) \in Seq(Seq(S)) /\ Len(Sifted(l, set)) = Len(l)
           /\ \A k \in 1..Len(l) : Sifted(l, set)[k] = Planning!Only(l[k], l[k] \in set)
           /\ Planning!Those(l, set) = Planning!FlattenSeq(Sifted(l, set))
<1>1. DOMAIN l = 1..Len(l) /\ Len(l) \in Nat /\ \A k \in 1..Len(l) : l[k] \in S
  BY LenProperties, ElementOfSeq
<1>2. \A k \in 1..Len(l) : Planning!Only(l[k], l[k] \in set) \in Seq(S)
  BY <1>1 DEF Planning!Only
<1> QED BY <1>1, <1>2 DEF Sifted, Planning!Those

(* Those of a list are of that list.                                        *)
LEMMA ThoseTyped ==
    ASSUME NEW S, NEW s \in Seq(S), NEW set
    PROVE  Planning!Those(s, set) \in Seq(S)
<1> DEFINE l == Sifted(s, set)
<1>1. l \in Seq(Seq(S)) /\ Planning!Those(s, set) = Planning!FlattenSeq(l) /\ <<>> \in Seq(Seq(S))
  BY SiftedIs
<1> HIDE DEF l
<1>2. Planning!FlattenSeq(l) \in Seq(S)
  BY <1>1, FlatConcat
<1> QED BY <1>1, <1>2

(* Those of two lists are those of each.                                    *)
LEMMA ThoseIs ==
    ASSUME NEW S, NEW s \in Seq(S), NEW t \in Seq(S), NEW set
    PROVE  Planning!Those(s \o t, set) = Planning!Those(s, set) \o Planning!Those(t, set)
<1> DEFINE lists(l) == Sifted(l, set)
<1>1. ASSUME NEW l \in Seq(S)
      PROVE  /\ lists(l) \in Seq(Seq(S)) /\ Len(lists(l)) = Len(l)
             /\ \A k \in 1..Len(l) : lists(l)[k] = Planning!Only(l[k], l[k] \in set)
             /\ Planning!Those(l, set) = Planning!FlattenSeq(lists(l))
  BY SiftedIs
<1>2. s \o t \in Seq(S)
  BY ConcatProperties
<1>3. lists(s \o t) = lists(s) \o lists(t)
  <2> DEFINE a == lists(s)
             b == lists(t)
             c == lists(s \o t)
             m == Len(s)
             n == Len(t)
  <2>1. m \in Nat /\ n \in Nat
    BY LenProperties
  <2>2. /\ Len(s \o t) = m + n
        /\ \A k \in 1..(m + n) : (s \o t)[k] = IF k <= m THEN s[k] ELSE t[k - m]
    BY ConcatProperties
  <2>3. /\ a \in Seq(Seq(S)) /\ b \in Seq(Seq(S)) /\ c \in Seq(Seq(S))
        /\ Len(a) = m /\ Len(b) = n /\ Len(c) = m + n
        /\ \A k \in 1..m : a[k] = Planning!Only(s[k], s[k] \in set)
        /\ \A k \in 1..n : b[k] = Planning!Only(t[k], t[k] \in set)
        /\ \A k \in 1..(m + n) : c[k] = Planning!Only((s \o t)[k], (s \o t)[k] \in set)
    BY <1>1, <1>2, <2>2
  <2> HIDE DEF a, b, c, m, n, lists
  <2>4. /\ a \o b \in Seq(Seq(S)) /\ Len(a \o b) = m + n
        /\ \A k \in 1..(m + n) : (a \o b)[k] = IF k <= m THEN a[k] ELSE b[k - m]
    BY <2>3, ConcatProperties
  <2>5. ASSUME NEW k \in 1..(m + n) PROVE c[k] = (a \o b)[k]
    <3>1. CASE k <= m
      <4>1. k \in 1..m
        BY <2>1, <3>1
      <4>2. (s \o t)[k] = s[k] /\ (a \o b)[k] = a[k]
        BY <2>2, <2>4, <3>1
      <4> QED BY <2>3, <4>1, <4>2
    <3>2. CASE ~(k <= m)
      <4> DEFINE j == k - m
      <4>1. j \in 1..n
        BY <2>1, <3>2
      <4>2. (s \o t)[k] = t[j] /\ (a \o b)[k] = b[j]
        BY <2>2, <2>4, <3>2
      <4> HIDE DEF j
      <4> QED BY <2>3, <4>1, <4>2
    <3> QED BY <3>1, <3>2
  <2>6. c = a \o b
    BY <2>3, <2>4, <2>5, SeqEqual
  <2> QED BY <2>6 DEF a, b, c
<1>4. /\ lists(s) \in Seq(Seq(S)) /\ lists(t) \in Seq(Seq(S))
      /\ Planning!Those(s, set) = Planning!FlattenSeq(lists(s)) /\ Planning!Those(t, set) = Planning!FlattenSeq(lists(t))
      /\ Planning!Those(s \o t, set) = Planning!FlattenSeq(lists(s \o t))
  BY <1>1, <1>2
<1> HIDE DEF lists
<1>5. Planning!FlattenSeq(lists(s) \o lists(t)) = Planning!FlattenSeq(lists(s)) \o Planning!FlattenSeq(lists(t))
  BY <1>4, FlatConcat
<1> QED BY <1>3, <1>4, <1>5

(* Those of one thing.                                                      *)
LEMMA ThoseOfOne ==
    ASSUME NEW e, NEW set
    PROVE  Planning!Those(<<e>>, set) = Planning!Only(e, e \in set) /\ Planning!Those(<<>>, set) = <<>>
<1>1. [k \in DOMAIN <<e>> |-> Planning!Only(<<e>>[k], <<e>>[k] \in set)] = <<Planning!Only(e, e \in set)>>
  OBVIOUS
<1>2. [k \in DOMAIN <<>> |-> Planning!Only(<<>>[k], <<>>[k] \in set)] = <<>>
  OBVIOUS
<1>3. Planning!Only(e, e \in set) \in Seq({e})
  <2>1. <<e>> \in Seq({e}) /\ <<>> \in Seq({e})
    OBVIOUS
  <2> QED BY <2>1 DEF Planning!Only
<1> DEFINE one == Planning!Only(e, e \in set)
<1>4. one \in Seq({e})
  BY <1>3
<1> HIDE DEF one
<1>5. Planning!FlattenSeq(<<one>>) = one /\ Planning!FlattenSeq(<<>>) = <<>>
  BY <1>4, FlatFew
<1>6. Planning!Those(<<e>>, set) = Planning!FlattenSeq(<<one>>)
  BY <1>1 DEF Planning!Those, one
<1>7. Planning!Those(<<>>, set) = Planning!FlattenSeq(<<>>)
  BY <1>2 DEF Planning!Those
<1> QED BY <1>5, <1>6, <1>7 DEF one

(* All of a list that is in the set, and none of one that is not.           *)
LEMMA ThoseAllOrNone ==
    ASSUME NEW S, NEW s \in Seq(S), NEW set
    PROVE  /\ S \subseteq set => Planning!Those(s, set) = s
           /\ S \cap set = {} => Planning!Those(s, set) = <<>>
<1> DEFINE Good(l) == /\ S \subseteq set => Planning!Those(l, set) = l
                      /\ S \cap set = {} => Planning!Those(l, set) = <<>>
           bad == {n \in Nat : \E l \in Seq(S) : Len(l) = n /\ ~Good(l)}
<1>0. \A x, y \in Seq(S) : Planning!Those(x \o y, set) = Planning!Those(x, set) \o Planning!Those(y, set)
  <2> SUFFICES ASSUME NEW x \in Seq(S), NEW y \in Seq(S)
               PROVE  Planning!Those(x \o y, set) = Planning!Those(x, set) \o Planning!Those(y, set)
    OBVIOUS
  <2> QED BY ThoseIs
<1>1. SUFFICES ASSUME bad # {} PROVE FALSE
  <2>1. Len(s) \in Nat
    BY LenProperties
  <2> QED BY <2>1
<1>2. PICK n \in bad : \A k \in bad : ~(<<k, n>> \in OpToRel(<, Nat))
  BY <1>1, WFMin, NatLessThanWellFounded
<1>3. PICK l \in Seq(S) : Len(l) = n /\ ~Good(l) /\ n \in Nat
  BY <1>2
<1>4. l # <<>>
  BY <1>3, ThoseOfOne
<1>5. PICK r \in Seq(S), e \in S : l = Append(r, e)
  BY <1>4, SequenceEmptyOrAppend
<1>6. Good(r)
  <2>1. Len(r) \in Nat /\ Len(l) = Len(r) + 1
    BY <1>5, LenProperties, AppendProperties
  <2>2. <<Len(r), n>> \in OpToRel(<, Nat)
    BY <1>3, <2>1 DEF OpToRel
  <2> QED BY <1>2, <2>1, <2>2
<1>7. l = r \o <<e>> /\ <<e>> \in Seq(S)
  BY <1>5, AppendIsConcat
<1>8. Planning!Those(l, set) = Planning!Those(r, set) \o Planning!Only(e, e \in set)
  <2>1. Planning!Those(r \o <<e>>, set) = Planning!Those(r, set) \o Planning!Those(<<e>>, set)
    <3> DEFINE one == <<e>>
    <3>1. one \in Seq(S) /\ r \in Seq(S)
      BY <1>7
    <3> HIDE DEF one, Good, bad
    <3>2. Planning!Those(r \o one, set) = Planning!Those(r, set) \o Planning!Those(one, set)
      BY <1>0, <3>1
    <3> QED BY <3>2 DEF one
  <2>2. Planning!Those(<<e>>, set) = Planning!Only(e, e \in set)
    BY ThoseOfOne
  <2> QED BY <1>7, <2>1, <2>2
<1>9. Good(l)
  <2>1. S \subseteq set => Planning!Those(l, set) = l
    BY <1>6, <1>7, <1>8 DEF Planning!Only
  <2>2. S \cap set = {} => Planning!Those(l, set) = <<>>
    BY <1>6, <1>8 DEF Planning!Only
  <2> QED BY <2>1, <2>2
<1> QED BY <1>3, <1>9

\* What a request may tell, and what may be done, of these plans.
Items(plans, places) == [what : {"model", "tool"}, plan : plans, place : places]
Done(plans, places) == [plan : plans, place : places]

(* Steps are told one by one.                                               *)
LEMMA AsToldIs ==
    ASSUME NEW P, NEW Q, NEW s \in Seq(Done(P, Q))
    PROVE  /\ Planning!AsTold(s) \in Seq(Items(P, Q)) /\ Len(Planning!AsTold(s)) = Len(s)
           /\ \A k \in 1..Len(s) : Planning!AsTold(s)[k] = Planning!Item("tool", s[k].plan, s[k].place)
<1>1. DOMAIN s = 1..Len(s) /\ Len(s) \in Nat /\ \A k \in 1..Len(s) : s[k] \in Done(P, Q)
  BY LenProperties, ElementOfSeq
<1>2. \A e \in Done(P, Q) : e.plan \in P /\ e.place \in Q
  BY DEF Done
<1>3. \A p \in P, q \in Q : Planning!Item("tool", p, q) \in Items(P, Q)
  BY DEF Planning!Item, Items
<1>4. ASSUME NEW k \in 1..Len(s) PROVE Planning!Item("tool", s[k].plan, s[k].place) \in Items(P, Q)
  BY <1>1, <1>2, <1>3
<1>5. Planning!AsTold(s) = [k \in 1..Len(s) |-> Planning!Item("tool", s[k].plan, s[k].place)]
  BY <1>1 DEF Planning!AsTold
<1> QED BY <1>1, <1>4, <1>5

(* Two lists of steps are told one after the other.                         *)
LEMMA AsToldBoth ==
    ASSUME NEW P, NEW Q, NEW s \in Seq(Done(P, Q)), NEW t \in Seq(Done(P, Q))
    PROVE  Planning!AsTold(s \o t) = Planning!AsTold(s) \o Planning!AsTold(t)
<1> DEFINE a == Planning!AsTold(s)
           b == Planning!AsTold(t)
           c == Planning!AsTold(s \o t)
           m == Len(s)
           n == Len(t)
           S == Items(P, Q)
           Told1(e) == Planning!Item("tool", e.plan, e.place)
<1>1. m \in Nat /\ n \in Nat
  BY LenProperties
<1>2. /\ s \o t \in Seq(Done(P, Q)) /\ Len(s \o t) = m + n
      /\ \A k \in 1..(m + n) : (s \o t)[k] = IF k <= m THEN s[k] ELSE t[k - m]
  BY ConcatProperties
<1>3. /\ a \in Seq(S) /\ b \in Seq(S) /\ c \in Seq(S)
      /\ Len(a) = m /\ Len(b) = n /\ Len(c) = m + n
      /\ \A k \in 1..m : a[k] = Told1(s[k])
      /\ \A k \in 1..n : b[k] = Told1(t[k])
      /\ \A k \in 1..(m + n) : c[k] = Told1((s \o t)[k])
  <2>1. ASSUME NEW l \in Seq(Done(P, Q))
        PROVE  /\ Planning!AsTold(l) \in Seq(S) /\ Len(Planning!AsTold(l)) = Len(l)
               /\ \A k \in 1..Len(l) : Planning!AsTold(l)[k] = Told1(l[k])
    BY AsToldIs
  <2> HIDE DEF S, Told1
  <2>2. \A k \in 1..Len(s) : Planning!AsTold(s)[k] = Told1(s[k])
    BY <2>1
  <2>3. \A k \in 1..Len(t) : Planning!AsTold(t)[k] = Told1(t[k])
    BY <2>1
  <2>4. \A k \in 1..Len(s \o t) : Planning!AsTold(s \o t)[k] = Told1((s \o t)[k])
    BY <1>2, <2>1
  <2> QED BY <1>2, <2>1, <2>2, <2>3, <2>4
<1> HIDE DEF a, b, c, m, n, S, Told1
<1>4. /\ a \o b \in Seq(S) /\ Len(a \o b) = m + n
      /\ \A k \in 1..(m + n) : (a \o b)[k] = IF k <= m THEN a[k] ELSE b[k - m]
  BY <1>3, ConcatProperties
<1>5. ASSUME NEW k \in 1..(m + n) PROVE c[k] = (a \o b)[k]
  <2>1. CASE k <= m
    <3>1. k \in 1..m
      BY <1>1, <2>1
    <3> QED BY <1>2, <1>3, <1>4, <2>1, <3>1
  <2>2. CASE ~(k <= m)
    <3> DEFINE j == k - m
    <3>1. j \in 1..n
      BY <1>1, <2>2
    <3>2. (s \o t)[k] = t[j] /\ (a \o b)[k] = b[j]
      BY <1>2, <1>4, <2>2
    <3> HIDE DEF j
    <3> QED BY <1>3, <3>1, <3>2
  <2> QED BY <2>1, <2>2
<1>6. c = a \o b
  BY <1>3, <1>4, <1>5, SeqEqual
<1> QED BY <1>6 DEF a, b, c

(* What is told of some steps and then of others.                           *)
LEMMA ToolsIs ==
    ASSUME NEW r \in Seq(Items(Nat, Nat)), NEW q \in Seq(Items(Nat, Nat))
    PROVE  Planning!Tools(r \o q) = Planning!Tools(r) \o Planning!Tools(q)
BY ThoseIs DEF Planning!Tools

(* Steps are all told, the model's answers none of them.                    *)
LEMMA ToolsOf ==
    /\ \A s \in Seq(Done(Nat, Nat)) : Planning!Tools(Planning!AsTold(s)) = Planning!AsTold(s)
    /\ \A p \in Nat : Planning!Tools(<<Planning!Item("model", p, 0)>>) = <<>>
    /\ Planning!Tools(<<>>) = <<>>
<1> DEFINE T == [what : {"tool"}, plan : Nat, place : Nat]
<1>1. ASSUME NEW s \in Seq(Done(Nat, Nat)) PROVE Planning!Tools(Planning!AsTold(s)) = Planning!AsTold(s)
  <2> DEFINE a == Planning!AsTold(s)
  <2>1. a \in Seq(T)
    <3>1. /\ Len(a) = Len(s) /\ a \in Seq(Items(Nat, Nat)) /\ Len(s) \in Nat
          /\ \A k \in 1..Len(s) : a[k] = Planning!Item("tool", s[k].plan, s[k].place)
      BY AsToldIs, LenProperties
    <3>2. \A k \in 1..Len(s) : s[k].plan \in Nat /\ s[k].place \in Nat
      <4>1. \A k \in 1..Len(s) : s[k] \in Done(Nat, Nat)
        BY ElementOfSeq
      <4>2. \A e \in Done(Nat, Nat) : e.plan \in Nat /\ e.place \in Nat
        BY DEF Done
      <4> QED BY <4>1, <4>2
    <3>3. \A k \in 1..Len(s) : a[k] \in T
      <4>1. \A p, q \in Nat : Planning!Item("tool", p, q) \in T
        BY DEF Planning!Item
      <4> HIDE DEF T, a
      <4> QED BY <3>1, <3>2, <4>1
    <3>4. a = [k \in 1..Len(s) |-> a[k]]
      BY <3>1, LenProperties
    <3> HIDE DEF a, T
    <3> QED BY <3>1, <3>3, <3>4
  <2> HIDE DEF a, T
  <2>2. Planning!Those(a, T) = a
    BY <2>1, ThoseAllOrNone
  <2> QED BY <2>2 DEF a, T, Planning!Tools
<1>2. ASSUME NEW p \in Nat PROVE Planning!Tools(<<Planning!Item("model", p, 0)>>) = <<>>
  <2>1. Planning!Item("model", p, 0) \notin T
    BY DEF Planning!Item
  <2> HIDE DEF T
  <2>2. Planning!Those(<<Planning!Item("model", p, 0)>>, T) = Planning!Only(Planning!Item("model", p, 0), Planning!Item("model", p, 0) \in T)
    BY ThoseOfOne
  <2> QED BY <2>1, <2>2 DEF T, Planning!Tools, Planning!Only
<1>3. Planning!Tools(<<>>) = <<>>
  BY ThoseOfOne DEF Planning!Tools
<1> QED BY <1>1, <1>2, <1>3

(* A list after another: where each element of it is.                       *)
LEMMA PartsOf ==
    ASSUME NEW S, NEW r \in Seq(S), NEW t \in Seq(S)
    PROVE  /\ r \o t \in Seq(S) /\ Len(r \o t) = Len(r) + Len(t)
           /\ Len(r) \in Nat /\ Len(t) \in Nat
           /\ DOMAIN (r \o t) = 1..(Len(r) + Len(t))
           /\ DOMAIN r = 1..Len(r) /\ DOMAIN t = 1..Len(t)
           /\ \A k \in 1..Len(r) : (r \o t)[k] = r[k]
           /\ \A k \in 1..Len(t) : (r \o t)[Len(r) + k] = t[k]
           /\ \A k \in 1..(Len(r) + Len(t)) :
                 k \in 1..Len(r) \/ \E j \in 1..Len(t) : k = Len(r) + j
<1> DEFINE q == r \o t
           m == Len(r)
           n == Len(t)
<1>1. m \in Nat /\ n \in Nat /\ DOMAIN r = 1..m /\ DOMAIN t = 1..n
  BY LenProperties
<1>2. /\ q \in Seq(S) /\ Len(q) = m + n
      /\ \A k \in 1..(m + n) : q[k] = IF k <= m THEN r[k] ELSE t[k - m]
  BY ConcatProperties
<1>3. DOMAIN q = 1..(m + n)
  BY <1>2, LenProperties
<1> HIDE DEF q, m, n
<1>4. \A k \in 1..m : q[k] = r[k]
  BY <1>1, <1>2
<1>5. ASSUME NEW k \in 1..n PROVE q[m + k] = t[k]
  <2>1. m + k \in 1..(m + n) /\ ~(m + k <= m) /\ (m + k) - m = k
    BY <1>1
  <2> QED BY <1>2, <2>1
<1>6. ASSUME NEW k \in 1..(m + n) PROVE k \in 1..m \/ \E j \in 1..n : k = m + j
  <2>1. CASE k <= m
    BY <1>1, <2>1
  <2>2. CASE ~(k <= m)
    <3>1. k - m \in 1..n /\ k = m + (k - m)
      BY <1>1, <2>2
    <3> QED BY <3>1
  <2> QED BY <2>1, <2>2
<1> QED BY <1>1, <1>2, <1>3, <1>4, <1>5, <1>6 DEF q, m, n

(* A message of the model and steps of that plan.                           *)
LEMMA AnswerAndSteps ==
    ASSUME NEW n \in Nat, NEW new \in Seq(Done({n}, Nat)),
           NEW said \in {<<>>, <<Planning!Item("model", n, 0)>>}
    PROVE  /\ said \in Seq(Items(Nat, Nat)) /\ Planning!AsTold(new) \in Seq(Items(Nat, Nat))
           /\ new \in Seq(Done(Nat, Nat))
           /\ DOMAIN new = 1..Len(new) /\ Len(Planning!AsTold(new)) = Len(new) /\ Len(new) \in Nat
           /\ \A k \in 1..Len(new) : Planning!AsTold(new)[k] = Planning!Item("tool", n, new[k].place)
           /\ Len(said) \in Nat
           /\ \A k \in 1..Len(said) : k = 1 /\ Len(said) = 1 /\ said[k] = Planning!Item("model", n, 0)
<1>1. \A e \in Done({n}, Nat) : e.plan = n /\ e \in Done(Nat, Nat)
  BY DEF Done
<1>2. /\ new \in Seq(Done(Nat, Nat)) /\ DOMAIN new = 1..Len(new) /\ Len(new) \in Nat
      /\ \A k \in 1..Len(new) : new[k].plan = n
  <2>1. Done({n}, Nat) \subseteq Done(Nat, Nat)
    BY <1>1
  <2>2. new \in Seq(Done(Nat, Nat))
    BY <2>1, SeqMonotonic
  <2>3. \A k \in 1..Len(new) : new[k] \in Done({n}, Nat)
    BY ElementOfSeq
  <2>4. DOMAIN new = 1..Len(new) /\ Len(new) \in Nat
    BY LenProperties
  <2> QED BY <1>1, <2>2, <2>3, <2>4
<1>3. /\ Len(Planning!AsTold(new)) = Len(new) /\ Planning!AsTold(new) \in Seq(Items(Nat, Nat))
      /\ \A k \in 1..Len(new) : Planning!AsTold(new)[k] = Planning!Item("tool", new[k].plan, new[k].place)
  BY <1>2, AsToldIs
<1> DEFINE m == Planning!Item("model", n, 0)
<1>4. m \in Items(Nat, Nat)
  BY DEF Planning!Item, Items
<1>6. said = <<>> \/ said = <<m>>
  OBVIOUS
<1> HIDE DEF m
<1>5. /\ \A e \in Items(Nat, Nat) : <<e>> \in Seq(Items(Nat, Nat))
      /\ <<>> \in Seq(Items(Nat, Nat)) /\ Len(<<>>) = 0 /\ Len(<<m>>) = 1 /\ <<m>>[1] = m
  OBVIOUS
<1>7. /\ said \in Seq(Items(Nat, Nat)) /\ Len(said) \in Nat
      /\ \A k \in 1..Len(said) : k = 1 /\ Len(said) = 1 /\ said[k] = m
  <2>1. CASE said = <<>>
    BY <1>5, <2>1
  <2>2. CASE said = <<m>>
    <3>1. said \in Seq(Items(Nat, Nat)) /\ Len(said) = 1 /\ said[1] = m
      BY <1>4, <1>5, <2>2
    <3> QED BY <3>1
  <2> QED BY <1>6, <2>1, <2>2
<1> QED BY <1>2, <1>3, <1>7 DEF m

(* A request that goes on with an answer of the model and the steps of it still     *)
(* tells all, each step after its answer.                                           *)
LEMMA ToldOn ==
    ASSUME NEW n \in Nat, NEW r \in Seq(Items(Nat, Nat)), NEW d \in Seq(Done(Nat, Nat)),
           NEW new \in Seq(Done({n}, Nat)), NEW said \in {<<>>, <<Planning!Item("model",
           n, 0)>>},
           said = <<>> => \A k \in DOMAIN new : new[k].place = 0,
           Planning!Tools(r) = Planning!AsTold(d), Planning!AfterAnswers(r)
    PROVE  /\ Planning!Tools(r \o (said \o Planning!AsTold(new))) = Planning!AsTold(d \o new)
           /\ Planning!AfterAnswers(r \o (said \o Planning!AsTold(new)))
<1> DEFINE S == Items(Nat, Nat)
           a == Planning!AsTold(new)
           t == said \o a
           q == r \o t
<1>1. /\ said \in Seq(S) /\ a \in Seq(S) /\ new \in Seq(Done(Nat, Nat))
      /\ DOMAIN new = 1..Len(new) /\ Len(a) = Len(new) /\ Len(new) \in Nat
      /\ \A k \in 1..Len(new) : a[k] = Planning!Item("tool", n, new[k].place)
      /\ Len(said) \in Nat
      /\ \A k \in 1..Len(said) : k = 1 /\ Len(said) = 1 /\ said[k] = Planning!Item("model", n, 0)
  BY AnswerAndSteps
<1>2. t \in Seq(S) /\ r \in Seq(S)
  BY <1>1, PartsOf
<1>3. Planning!Tools(q) = Planning!AsTold(d \o new)
  <2>1. Planning!Tools(q) = Planning!Tools(r) \o Planning!Tools(t)
    BY <1>2, ToolsIs
  <2>2. Planning!Tools(t) = Planning!Tools(said) \o Planning!Tools(a)
    BY <1>1, ToolsIs
  <2>3. Planning!Tools(said) = <<>> /\ Planning!Tools(a) = a
    BY <1>1, ToolsOf
  <2>4. Planning!Tools(t) = a
    BY <1>1, <2>2, <2>3, ConcatEmptySeq
  <2>5. Planning!AsTold(d \o new) = Planning!AsTold(d) \o a
    BY <1>1, AsToldBoth
  <2> QED BY <2>1, <2>4, <2>5
<1>4. /\ Len(q) = Len(r) + Len(t) /\ DOMAIN q = 1..(Len(r) + Len(t))
      /\ Len(r) \in Nat /\ Len(t) \in Nat /\ DOMAIN r = 1..Len(r)
      /\ \A k \in 1..Len(r) : q[k] = r[k]
      /\ \A k \in 1..Len(t) : q[Len(r) + k] = t[k]
      /\ \A k \in 1..(Len(r) + Len(t)) :
            k \in 1..Len(r) \/ \E j \in 1..Len(t) : k = Len(r) + j
  <2> HIDE DEF S, a, t
  <2> QED BY <1>2, PartsOf
<1>5. /\ Len(t) = Len(said) + Len(a)
      /\ \A k \in 1..Len(said) : t[k] = said[k]
      /\ \A k \in 1..Len(a) : t[Len(said) + k] = a[k]
      /\ \A k \in 1..(Len(said) + Len(a)) :
            k \in 1..Len(said) \/ \E j \in 1..Len(a) : k = Len(said) + j
  BY <1>1, PartsOf
<1> HIDE DEF S, a, t, q
<1>6. Planning!AfterAnswers(q)
  <2> SUFFICES ASSUME NEW k \in DOMAIN q, q[k].place > 0
               PROVE  \E j \in 1..(k - 1) : q[j].what = "model" /\ q[j].plan = q[k].plan
    BY DEF Planning!AfterAnswers
  <2>1. CASE k \in 1..Len(r)
    <3>1. q[k] = r[k] /\ r[k].place > 0 /\ k \in DOMAIN r
      BY <1>4, <2>1
    <3>2. PICK j \in 1..(k - 1) : r[j].what = "model" /\ r[j].plan = r[k].plan
      BY <3>1 DEF Planning!AfterAnswers
    <3>3. q[j] = r[j]
      BY <1>4, <2>1
    <3> QED BY <3>1, <3>2, <3>3
  <2>2. CASE k \notin 1..Len(r)
    <3>1. PICK i \in 1..Len(t) : k = Len(r) + i
      BY <1>4, <2>2
    <3>2. q[k] = t[i] /\ t[i].place > 0
      BY <1>4, <3>1
    <3>3. i \notin 1..Len(said)
      BY <1>1, <1>5, <3>2 DEF Planning!Item
    <3>4. PICK j \in 1..Len(a) : i = Len(said) + j
      BY <1>5, <3>1, <3>3
    <3>5. t[i] = Planning!Item("tool", n, new[j].place) /\ j \in DOMAIN new
      BY <1>1, <1>5, <3>4
    <3>6. t[i].plan = n /\ new[j].place > 0
      BY <3>2, <3>5 DEF Planning!Item
    <3>7. said # <<>>
      <4>1. \A e \in {0} : ~(e > 0)
        OBVIOUS
      <4> QED BY <3>5, <3>6, <4>1
    <3>8. Len(said) = 1 /\ said[1] = Planning!Item("model", n, 0)
      BY <3>7
    <3>9. t[1] = Planning!Item("model", n, 0) /\ 1 \in 1..Len(t)
      BY <1>1, <1>5, <3>8
    <3>10. q[Len(r) + 1].what = "model" /\ q[Len(r) + 1].plan = n
      BY <1>4, <3>9 DEF Planning!Item
    <3>11. Len(r) + 1 \in 1..(k - 1)
      BY <1>1, <1>4, <3>1, <3>4, <3>8
    <3> QED BY <3>2, <3>6, <3>10, <3>11
  <2> QED BY <2>1, <2>2
<1> QED BY <1>3, <1>6 DEF q, t, a

\* CallsAnswered, of any answers.
AnsweredBy(r, given) ==
    \A k \in DOMAIN r : r[k].what = "model" =>
        \A i \in DOMAIN given[r[k].plan][1] :
            k + i <= Len(r) /\ r[k + i] = Planning!Item("tool", r[k].plan, i)

(* CallsAnswered is of the answers of the state.                            *)
LEMMA AnsweredIs == \A r : Planning!CallsAnswered(r) <=> AnsweredBy(r, answers)
BY DEF Planning!CallsAnswered, AnsweredBy

(* Answers to later plans change nothing.                                   *)
LEMMA AnsweredStill ==
    ASSUME NEW P, NEW r \in Seq(Items(P, Nat)), NEW old, NEW given, AnsweredBy(r, old),
           \A p \in P : given[p] = old[p]
    PROVE  AnsweredBy(r, given)
<1>1. \A k \in DOMAIN r : r[k].plan \in P
  <2>1. \A k \in DOMAIN r : r[k] \in Items(P, Nat)
    BY LenProperties, ElementOfSeq
  <2>2. \A e \in Items(P, Nat) : e.plan \in P
    BY DEF Items
  <2> QED BY <2>1, <2>2
<1> QED BY <1>1 DEF AnsweredBy

(* A request that goes on with a message of calls and their answers has them all.   *)
LEMMA AnsweredOn ==
    ASSUME NEW n \in Nat, NEW r \in Seq(Items(1..(n - 1), Nat)), NEW given,
           AnsweredBy(r, given), \A p \in 1..n : DOMAIN given[p][1] \subseteq Nat \ {0},
           NEW new \in Seq(Done({n}, Nat)),
           \A k \in 1..Len(new) : new[k].place = k,
           DOMAIN given[n][1] \subseteq 1..Len(new)
    PROVE  AnsweredBy(r \o (<<Planning!Item("model", n, 0)>> \o Planning!AsTold(new)), given)
<1> DEFINE S == Items(Nat, Nat)
           said == <<Planning!Item("model", n, 0)>>
           a == Planning!AsTold(new)
           t == said \o a
           q == r \o t
<1>1. /\ said \in Seq(S) /\ a \in Seq(S) /\ Len(a) = Len(new) /\ Len(new) \in Nat
      /\ \A k \in 1..Len(new) : a[k] = Planning!Item("tool", n, k)
  <2>1. said \in {<<>>, <<Planning!Item("model", n, 0)>>}
    OBVIOUS
  <2> HIDE DEF said, a
  <2>2. /\ said \in Seq(S) /\ Planning!AsTold(new) \in Seq(S) /\ Len(Planning!AsTold(new)) = Len(new)
        /\ Len(new) \in Nat
        /\ \A k \in 1..Len(new) : Planning!AsTold(new)[k] = Planning!Item("tool", n, new[k].place)
    BY <2>1, AnswerAndSteps
  <2> QED BY <2>2 DEF a
<1>2. Len(said) = 1 /\ said[1] = Planning!Item("model", n, 0)
  OBVIOUS
<1> HIDE DEF S, said, a, t, q
<1>3. /\ t \in Seq(S) /\ r \in Seq(S)
      /\ Len(t) = 1 + Len(a)
      /\ t[1] = Planning!Item("model", n, 0)
      /\ \A k \in 1..Len(a) : t[1 + k] = a[k]
      /\ \A k \in 1..(1 + Len(a)) : k = 1 \/ \E j \in 1..Len(a) : k = 1 + j
  <2>1. /\ t \in Seq(S) /\ Len(t) = Len(said) + Len(a)
        /\ \A k \in 1..Len(said) : t[k] = said[k]
        /\ \A k \in 1..Len(a) : t[Len(said) + k] = a[k]
        /\ \A k \in 1..(Len(said) + Len(a)) :
              k \in 1..Len(said) \/ \E j \in 1..Len(a) : k = Len(said) + j
    <3>1. said \in Seq(S) /\ a \in Seq(S)
      BY <1>1
    <3> QED BY <3>1, PartsOf DEF t
  <2>2. r \in Seq(S)
    <3>1. Items(1..(n - 1), Nat) \subseteq S
      BY DEF Items, S
    <3> QED BY <3>1, SeqMonotonic
  <2> QED BY <1>2, <2>1, <2>2
<1>4. /\ Len(q) = Len(r) + Len(t) /\ DOMAIN q = 1..(Len(r) + Len(t))
      /\ Len(r) \in Nat /\ Len(t) \in Nat /\ DOMAIN r = 1..Len(r)
      /\ \A k \in 1..Len(r) : q[k] = r[k]
      /\ \A k \in 1..Len(t) : q[Len(r) + k] = t[k]
      /\ \A k \in 1..(Len(r) + Len(t)) :
            k \in 1..Len(r) \/ \E j \in 1..Len(t) : k = Len(r) + j
  <2>1. t \in Seq(S) /\ r \in Seq(S)
    BY <1>3
  <2> QED BY <2>1, PartsOf DEF q
<1>5. AnsweredBy(q, given)
  <2> SUFFICES ASSUME NEW k \in DOMAIN q, q[k].what = "model",
                      NEW i \in DOMAIN given[q[k].plan][1]
               PROVE  k + i <= Len(q) /\ q[k + i] = Planning!Item("tool", q[k].plan, i)
    BY DEF AnsweredBy
  <2>1. CASE k \in 1..Len(r)
    <3>1. q[k] = r[k] /\ k \in DOMAIN r
      BY <1>4, <2>1
    <3>2. i \in Nat /\ i # 0
      <4>1. r[k] \in Items(1..(n - 1), Nat)
        BY <2>1, ElementOfSeq
      <4>2. r[k].plan \in 1..n
        BY <4>1 DEF Items
      <4> QED BY <3>1, <4>2
    <3>3. k + i <= Len(r) /\ r[k + i] = Planning!Item("tool", q[k].plan, i)
      BY <3>1 DEF AnsweredBy
    <3>4. k + i \in 1..Len(r) /\ k + i <= Len(q)
      BY <1>4, <2>1, <3>2, <3>3
    <3> QED BY <1>4, <3>3, <3>4
  <2>2. CASE k \notin 1..Len(r)
    <3>1. PICK j \in 1..Len(t) : k = Len(r) + j
      BY <1>4, <2>2
    <3>2. q[k] = t[j]
      BY <1>4, <3>1
    <3>3. j = 1
      <4>1. SUFFICES ASSUME NEW l \in 1..Len(a), j = 1 + l PROVE FALSE
        BY <1>3, <3>1
      <4>2. t[j] = Planning!Item("tool", n, l)
        BY <1>1, <1>3, <4>1
      <4> QED BY <3>2, <4>2 DEF Planning!Item
    <3>4. q[k].plan = n
      BY <1>3, <3>2, <3>3 DEF Planning!Item
    <3>5. i \in 1..Len(new)
      BY <3>4
    <3>6. t[1 + i] = Planning!Item("tool", n, i) /\ 1 + i \in 1..Len(t)
      <4>1. i \in 1..Len(a) /\ Len(a) \in Nat /\ i \in Nat
        BY <1>1, <3>5
      <4>2. t[1 + i] = a[i] /\ a[i] = Planning!Item("tool", n, i)
        BY <1>1, <1>3, <3>5, <4>1
      <4>3. 1 + i \in 1..(1 + Len(a))
        BY <4>1
      <4> QED BY <1>3, <4>2, <4>3
    <3>7. q[Len(r) + (1 + i)] = t[1 + i]
      BY <1>4, <3>6
    <3>8. k + i = Len(r) + (1 + i) /\ k + i <= Len(q)
      <4>1. i \in 1..Len(a) /\ Len(a) \in Nat /\ i \in Nat
        BY <1>1, <3>5
      <4>2. k = Len(r) + 1 /\ Len(q) = Len(r) + (1 + Len(a)) /\ Len(r) \in Nat
        BY <1>3, <1>4, <3>1, <3>3
      <4> QED BY <4>1, <4>2
    <3> QED BY <3>4, <3>6, <3>7, <3>8
  <2> QED BY <2>1, <2>2
<1> QED BY <1>5 DEF q, t, said, a

----------------------------------------------------------------------------
(* The scratchpads.                                                         *)

\* constructMrklScratchPad, of any steps, and what it tells of one.
MrklStep(e) == Planning!Only(Planning!Item("model", e.plan, 0), e.place > 0) \o Planning!AsTold(<<e>>)
MrklOf(d) == Planning!FlattenSeq([k \in DOMAIN d |-> MrklStep(d[k])])

\* constructScratchPad when there are steps, of any steps and the first n messages.
Answered(d, p) == <<Planning!Item("model", p, 0)>> \o Planning!AsTold(Planning!Those(d, Planning!Steps({p})))
ChatOf(d, n) == Planning!FlattenSeq([k \in 1..n |-> Answered(d, k)])

(* The two requests are of the steps of the state.                          *)
LEMMA PadsAre ==
    /\ Planning!constructMrklScratchPad = MrklOf(done)
    /\ \A n : Planning!FlattenSeq([k \in 1..n |-> Planning!WithAnswers(k)]) = ChatOf(done, n)
<1>1. Planning!constructMrklScratchPad = MrklOf(done)
  BY DEF Planning!constructMrklScratchPad, MrklOf, MrklStep
<1>2. \A k : Planning!WithAnswers(k) = Answered(done, k)
  BY DEF Planning!WithAnswers, Answered
<1> QED BY <1>1, <1>2 DEF ChatOf

(* What is told of one step.                                                *)
LEMMA MrklStepIs ==
    ASSUME NEW P, NEW Q, 0 \in Q, NEW e \in Done(P, Q)
    PROVE  MrklStep(e) \in Seq(Items(P, Q))
<1>1. Planning!Only(Planning!Item("model", e.plan, 0), e.place > 0) \in Seq(Items(P, Q))
  <2> DEFINE m == Planning!Item("model", e.plan, 0)
  <2>1. m \in Items(P, Q)
    BY DEF Planning!Item, Items, Done
  <2> HIDE DEF m
  <2>2. <<m>> \in Seq(Items(P, Q)) /\ <<>> \in Seq(Items(P, Q))
    BY <2>1
  <2>3. Planning!Only(m, e.place > 0) \in Seq(Items(P, Q))
    BY <2>2 DEF Planning!Only
  <2> QED BY <2>3 DEF m
<1>2. Planning!AsTold(<<e>>) \in Seq(Items(P, Q))
  <2> DEFINE one == <<e>>
  <2>1. one \in Seq(Done(P, Q))
    OBVIOUS
  <2> HIDE DEF one
  <2>2. Planning!AsTold(one) \in Seq(Items(P, Q))
    BY <2>1, AsToldIs
  <2> QED BY <2>2 DEF one
<1> QED BY <1>1, <1>2, ConcatProperties DEF MrklStep

(* All of them.                                                             *)
LEMMA MrklTyped ==
    ASSUME NEW P, NEW Q, 0 \in Q, NEW d \in Seq(Done(P, Q))
    PROVE  MrklOf(d) \in Seq(Items(P, Q))
<1> DEFINE l == [k \in DOMAIN d |-> MrklStep(d[k])]
<1>1. DOMAIN d = 1..Len(d) /\ Len(d) \in Nat /\ \A k \in 1..Len(d) : d[k] \in Done(P, Q)
  BY LenProperties, ElementOfSeq
<1>2. \A k \in 1..Len(d) : MrklStep(d[k]) \in Seq(Items(P, Q))
  BY <1>1, MrklStepIs
<1>3. l \in Seq(Seq(Items(P, Q))) /\ <<>> \in Seq(Seq(Items(P, Q)))
  BY <1>1, <1>2
<1> HIDE DEF l
<1>4. Planning!FlattenSeq(l) \in Seq(Items(P, Q))
  BY <1>3, FlatConcat
<1> QED BY <1>4 DEF MrklOf, l

(* One step more.                                                           *)
LEMMA MrklMore ==
    ASSUME NEW d \in Seq(Done(Nat, Nat)), NEW e \in Done(Nat, Nat)
    PROVE  MrklOf(Append(d, e)) = MrklOf(d) \o MrklStep(e)
<1> DEFINE S == Seq(Items(Nat, Nat))
           more == Append(d, e)
           l == [k \in DOMAIN d |-> MrklStep(d[k])]
           m == [k \in DOMAIN more |-> MrklStep(more[k])]
           n == Len(d)
<1>1. n \in Nat /\ DOMAIN d = 1..n /\ \A k \in 1..n : d[k] \in Done(Nat, Nat)
  BY LenProperties, ElementOfSeq
<1>2. /\ DOMAIN more = 1..(n + 1) /\ more[n + 1] = e
      /\ \A k \in 1..n : more[k] = d[k]
  BY AppendProperties, LenProperties
<1>3. \A x \in Done(Nat, Nat) : MrklStep(x) \in S
  BY MrklStepIs
<1> HIDE DEF S, more, n
<1>4. l \in Seq(S) /\ Len(l) = n /\ MrklStep(e) \in S
  BY <1>1, <1>3
<1>5. m = Append(l, MrklStep(e))
  <2> DEFINE s == MrklStep(e)
  <2>1. /\ Append(l, s) \in Seq(S) /\ Len(Append(l, s)) = n + 1
        /\ \A k \in 1..n : Append(l, s)[k] = l[k]
        /\ Append(l, s)[n + 1] = s
    <3>1. l \in Seq(S) /\ s \in S
      BY <1>4
    <3> HIDE DEF l, s
    <3>2. /\ Append(l, s) \in Seq(S) /\ Len(Append(l, s)) = Len(l) + 1
          /\ \A k \in 1..Len(l) : Append(l, s)[k] = l[k]
          /\ Append(l, s)[Len(l) + 1] = s
      BY <3>1, AppendProperties
    <3> QED BY <1>4, <3>2
  <2>2. \A k \in 1..(n + 1) : MrklStep(more[k]) \in S
    <3>1. \A k \in 1..(n + 1) : k \in 1..n \/ k = n + 1
      BY <1>1
    <3> QED BY <1>1, <1>2, <1>3, <3>1
  <2>3. m \in Seq(S) /\ Len(m) = n + 1
    BY <1>1, <1>2, <2>2
  <2>4. ASSUME NEW k \in 1..(n + 1) PROVE m[k] = Append(l, s)[k]
    <3>1. CASE k = n + 1
      BY <1>2, <2>1, <3>1
    <3>2. CASE k # n + 1
      <4>1. k \in 1..n
        BY <1>1, <3>2
      <4>2. m[k] = MrklStep(d[k]) /\ l[k] = MrklStep(d[k])
        BY <1>1, <1>2, <4>1
      <4> QED BY <2>1, <4>1, <4>2
    <3> QED BY <3>1, <3>2
  <2> DEFINE x == Append(l, s)
  <2>5. x \in Seq(S) /\ Len(x) = n + 1 /\ \A k \in 1..(n + 1) : m[k] = x[k]
    BY <2>1, <2>4
  <2> HIDE DEF x, m, s, l
  <2>6. m = x
    BY <2>3, <2>5, SeqEqual
  <2> QED BY <2>6 DEF x, s
<1> HIDE DEF l, m
<1>6. Planning!FlattenSeq(Append(l, MrklStep(e))) = Planning!FlattenSeq(l) \o MrklStep(e)
  BY <1>4, FlatMore DEF S
<1>7. MrklOf(more) = Planning!FlattenSeq(m) /\ MrklOf(d) = Planning!FlattenSeq(l)
  BY DEF MrklOf, m, l
<1> QED BY <1>5, <1>6, <1>7 DEF more

(* A message of the model and its steps.                                    *)
LEMMA AnsweredTyped ==
    ASSUME NEW P, NEW Q, 0 \in Q, NEW d \in Seq(Done(P, Q)), NEW p \in P
    PROVE  Answered(d, p) \in Seq(Items(P, Q))
<1> DEFINE those == Planning!Those(d, Planning!Steps({p}))
           m == Planning!Item("model", p, 0)
<1>1. those \in Seq(Done(P, Q))
  BY ThoseTyped
<1>2. m \in Items(P, Q)
  BY DEF Planning!Item, Items
<1> HIDE DEF those, m
<1>3. Planning!AsTold(those) \in Seq(Items(P, Q))
  BY <1>1, AsToldIs
<1>4. <<m>> \in Seq(Items(P, Q))
  BY <1>2
<1>5. <<m>> \o Planning!AsTold(those) \in Seq(Items(P, Q))
  BY <1>3, <1>4, ConcatProperties
<1> QED BY <1>5 DEF Answered, those, m

(* All of them.                                                             *)
LEMMA ChatTyped ==
    ASSUME NEW P, NEW Q, 0 \in Q, NEW d \in Seq(Done(P, Q)), NEW n \in Nat, 1..n \subseteq P
    PROVE  ChatOf(d, n) \in Seq(Items(P, Q))
<1> DEFINE l == [k \in 1..n |-> Answered(d, k)]
<1>1. \A k \in 1..n : Answered(d, k) \in Seq(Items(P, Q))
  BY AnsweredTyped
<1>2. l \in Seq(Seq(Items(P, Q))) /\ <<>> \in Seq(Seq(Items(P, Q)))
  BY <1>1
<1> HIDE DEF l
<1>3. Planning!FlattenSeq(l) \in Seq(Items(P, Q))
  BY <1>2, FlatConcat
<1> QED BY <1>3 DEF ChatOf, l

(* Those of a plan that was before are the same when more is done.          *)
LEMMA ThoseBefore ==
    ASSUME NEW n \in Nat, NEW d \in Seq(Done(Nat, Nat)), NEW new \in Seq(Done({n}, Nat)),
           NEW plans, n \notin plans
    PROVE  Planning!Those(d \o new, Planning!Steps(plans)) = Planning!Those(d, Planning!Steps(plans))
<1>1. Done({n}, Nat) \subseteq Done(Nat, Nat) /\ Done({n}, Nat) \cap Planning!Steps(plans) = {}
  BY DEF Done, Planning!Steps
<1>2. new \in Seq(Done(Nat, Nat))
  BY <1>1, SeqMonotonic
<1>3. Planning!Those(new, Planning!Steps(plans)) = <<>>
  BY <1>1, ThoseAllOrNone
<1>4. Planning!Those(d \o new, Planning!Steps(plans)) = Planning!Those(d, Planning!Steps(plans)) \o Planning!Those(new, Planning!Steps(plans))
  BY <1>2, ThoseIs
<1>5. Planning!Those(d, Planning!Steps(plans)) \in Seq(Done(Nat, Nat))
  BY ThoseTyped
<1> QED BY <1>3, <1>4, <1>5, ConcatEmptySeq

(* Those of a plan are its steps.                                           *)
LEMMA ThoseOfPlan ==
    ASSUME NEW n \in Nat, NEW d \in Seq(Done(1..(n - 1), Nat)), NEW new \in Seq(Done({n},
           Nat))
    PROVE  Planning!Those(d \o new, Planning!Steps({n})) = new
<1> DEFINE A == Done({n}, Nat)
           B == Done(1..(n - 1), Nat)
           T == Planning!Steps({n})
<1>1. /\ A \subseteq Done(Nat, Nat) /\ A \subseteq T
      /\ B \subseteq Done(Nat, Nat) /\ B \cap T = {}
      /\ new \in Seq(A) /\ d \in Seq(B)
  BY DEF Done, Planning!Steps
<1> HIDE DEF A, B, T
<1>2. new \in Seq(Done(Nat, Nat)) /\ d \in Seq(Done(Nat, Nat))
  <2>1. new \in Seq(Done(Nat, Nat))
    BY <1>1, SeqMonotonic
  <2>2. d \in Seq(Done(Nat, Nat))
    BY <1>1, SeqMonotonic
  <2> QED BY <2>1, <2>2
<1>3. Planning!Those(new, T) = new
  <2>1. A \subseteq T /\ new \in Seq(A)
    BY <1>1
  <2> QED BY <2>1, ThoseAllOrNone
<1>4. Planning!Those(d, T) = <<>>
  <2>1. B \cap T = {} /\ d \in Seq(B)
    BY <1>1
  <2> QED BY <2>1, ThoseAllOrNone
<1>5. Planning!Those(d \o new, T) = Planning!Those(d, T) \o Planning!Those(new, T)
  BY <1>2, ThoseIs
<1>6. <<>> \o new = new
  BY <1>2, ConcatEmptySeq
<1> QED BY <1>3, <1>4, <1>5, <1>6 DEF T

(* What is told when the calls of one more message have been answered.      *)
LEMMA ChatMore ==
    ASSUME NEW n \in Nat, n # 0, NEW d \in Seq(Done(1..(n - 1), Nat)),
           NEW new \in Seq(Done({n}, Nat))
    PROVE  ChatOf(d \o new, n)
               = ChatOf(d, n - 1) \o (<<Planning!Item("model", n, 0)>> \o Planning!AsTold(new))
<1> DEFINE S == Seq(Items(Nat, Nat))
           l == [k \in 1..(n - 1) |-> Answered(d, k)]
           m == [k \in 1..n |-> Answered(d \o new, k)]
           s == <<Planning!Item("model", n, 0)>> \o Planning!AsTold(new)
<1>1. d \in Seq(Done(Nat, Nat)) /\ new \in Seq(Done(Nat, Nat)) /\ n - 1 \in Nat
  <2> DEFINE A == Done({n}, Nat)
             B == Done(1..(n - 1), Nat)
  <2>1. A \subseteq Done(Nat, Nat) /\ B \subseteq Done(Nat, Nat)
        /\ new \in Seq(A) /\ d \in Seq(B)
    BY DEF Done
  <2> HIDE DEF A, B
  <2>2. new \in Seq(Done(Nat, Nat))
    BY <2>1, SeqMonotonic
  <2>3. d \in Seq(Done(Nat, Nat))
    BY <2>1, SeqMonotonic
  <2> QED BY <2>2, <2>3
<1>2. d \o new \in Seq(Done(Nat, Nat))
  BY <1>1, ConcatProperties
<1>3. ASSUME NEW k \in 1..(n - 1) PROVE Answered(d \o new, k) = Answered(d, k)
  <2>1. n \notin {k}
    OBVIOUS
  <2>2. Planning!Those(d \o new, Planning!Steps({k})) = Planning!Those(d, Planning!Steps({k}))
    BY <1>1, <2>1, ThoseBefore
  <2> QED BY <2>2 DEF Answered
<1>4. Answered(d \o new, n) = s
  BY ThoseOfPlan DEF Answered
<1>5. \A k \in 1..n : Answered(d \o new, k) \in S
  <2>1. 0 \in Nat /\ \A k \in 1..n : k \in Nat
    OBVIOUS
  <2> QED BY <1>2, <2>1, AnsweredTyped
<1>6. \A k \in 1..(n - 1) : Answered(d, k) \in S
  BY <1>1, AnsweredTyped
<1> HIDE DEF S, s
<1>7. l \in Seq(S) /\ Len(l) = n - 1 /\ m \in Seq(S) /\ Len(m) = n /\ s \in S
  BY <1>1, <1>4, <1>5, <1>6
<1>8. \A k \in 1..(n - 1) : m[k] = l[k]
  BY <1>3
<1>9. m[n] = s
  BY <1>4
<1> HIDE DEF l, m
<1>10. m = Append(l, s)
  <2> DEFINE x == Append(l, s)
  <2>1. /\ x \in Seq(S) /\ Len(x) = Len(l) + 1
        /\ \A k \in 1..Len(l) : x[k] = l[k]
        /\ x[Len(l) + 1] = s
    BY <1>7, AppendProperties
  <2>2. Len(x) = n /\ x[n] = s /\ \A k \in 1..(n - 1) : x[k] = l[k]
    BY <1>7, <2>1
  <2> HIDE DEF x
  <2>3. \A k \in 1..n : k = n \/ k \in 1..(n - 1)
    BY <1>1
  <2>4. \A k \in 1..n : m[k] = x[k]
    BY <1>8, <1>9, <2>2, <2>3
  <2>5. m = x
    BY <1>7, <2>1, <2>2, <2>4, SeqEqual
  <2> QED BY <2>5 DEF x
<1>11. Planning!FlattenSeq(Append(l, s)) = Planning!FlattenSeq(l) \o s
  BY <1>7, FlatMore DEF S
<1>12. ChatOf(d \o new, n) = Planning!FlattenSeq(m) /\ ChatOf(d, n - 1) = Planning!FlattenSeq(l)
  BY DEF ChatOf, l, m
<1> QED BY <1>10, <1>11, <1>12 DEF s

\* The answers of the models of an agent, and those that are failures.
Answers == {Planning!Failure} \cup IF setup.agent \in Planning!Functions
                                   THEN {<<c>> : c \in Planning!CallLists} \cup Planning!Several
                                   ELSE Planning!TextsOf(MaxLines) \cup Planning!TextsOf(2)

\* How a call of an agent ends.
Ends == Planning!PlanInv /\ Planning!FailureEnds /\ Planning!FinalIsReturned

(* An agent begins with the invariant.                                     *)
LEMMA EndsInit == ASSUME Planning!Init PROVE Ends
<1>1. <<>> \in Seq(Answers)
  BY EmptySeq
<1> QED BY <1>1 DEF Planning!Init, Ends, Planning!PlanInv, Planning!FailureEnds,
  Planning!FinalIsReturned, Answers

Fails(answer) == \/ Planning!Parsed(answer).how = "error"
                 \/ Planning!Parsed(answer).how = "unreadable" /\ ~setup.handler

(* The last final answer of a text is one, and none comes after it.       *)
LEMMA LastFinal ==
    ASSUME NEW m \in Nat, NEW answer \in [1..m -> Planning!Lines],
           Planning!parseOutput(answer).how = "finish"
    PROVE  LET from == Planning!parseOutput(answer).from
           IN /\ answer[from] = "final"
              /\ \A k \in DOMAIN answer : k > from => answer[k] # "final"
<1> DEFINE final == {k \in DOMAIN answer : answer[k] = "final"}
<1>1. DOMAIN answer = 1..m /\ final \in SUBSET (1..m)
  OBVIOUS
<1>2. final # {}
  BY DEF Planning!parseOutput, Planning!Read
<1>3. Planning!parseOutput(answer).from = Planning!Max(final)
  BY <1>2 DEF Planning!parseOutput, Planning!Read
<1>5. Planning!Max(final) \in final /\ \A k \in final : k <= Planning!Max(final)
  BY <1>1, <1>2, Greatest, SameMax
<1> DEFINE from == Planning!parseOutput(answer).from
<1>6. from \in final /\ \A k \in final : k <= from
  BY <1>3, <1>5
<1>7. answer[from] = "final" /\ from \in Nat
  BY <1>1, <1>6
<1>8. \A k \in DOMAIN answer : k \in Nat /\ (answer[k] = "final" => k <= from)
  BY <1>1, <1>6
<1> HIDE DEF from, final
<1>9. \A k \in DOMAIN answer : k > from => answer[k] # "final"
  BY <1>7, <1>8
<1> QED BY <1>7, <1>9 DEF from

(* The choice that is returned has no calls.                               *)
LEMMA PlainChoice ==
    ASSUME NEW answer, Planning!ParseOutput(answer).how = "finish"
    PROVE  answer[Planning!ParseOutput(answer).from] = <<>>
<1> DEFINE broken == {c \in DOMAIN answer : \E k \in DOMAIN answer[c] :
                                              answer[c][k] = "broken"}
           plain == {c \in DOMAIN answer : answer[c] = <<>>}
           first == Planning!Min({Len(answer) + 1} \cup broken \cup plain)
<1>1. first \in plain /\ Planning!ParseOutput(answer).from = first
  BY DEF Planning!ParseOutput, Planning!Read
<1>2. \A c \in plain : answer[c] = <<>>
  OBVIOUS
<1> HIDE DEF first, plain
<1> QED BY <1>1, <1>2

(* What a plan returns is the last final part of its answer.               *)
LEMMA PlanReturns ==
    ASSUME MaxLines \in Nat, NEW answer \in Planning!Says,
           Planning!Parsed(answer).how = "finish"
    PROVE  LET from == Planning!Parsed(answer).from
           IN IF setup.agent \in Planning!Functions
              THEN answer[from] = <<>> /\ (setup.agent = "openai" => Len(answer) = 1)
              ELSE /\ answer[from] = "final"
                   /\ \A k \in DOMAIN answer : k > from => answer[k] # "final"
<1>1. answer # Planning!Failure
  BY DEF Planning!Parsed, Planning!Read
<1>2. CASE setup.agent \in Planning!Functions
  <2>1. Planning!Parsed(answer) = Planning!ParseOutput(answer)
    BY <1>1, <1>2 DEF Planning!Parsed
  <2>2. setup.agent = "openai" => \E c \in Planning!CallLists : answer = <<c>>
    BY <1>1, <1>2 DEF Planning!Says
  <2> QED BY <1>2, <2>1, <2>2, PlainChoice
<1>3. CASE setup.agent \notin Planning!Functions
  <2>1. Planning!Parsed(answer) = Planning!parseOutput(answer)
    BY <1>1, <1>3 DEF Planning!Parsed
  <2>2. \A max \in Nat : answer \in Planning!TextsOf(max) =>
                             \E m \in Nat : answer \in [1..m -> Planning!Lines]
    BY DEF Planning!TextsOf
  <2>3. answer \in Planning!TextsOf(MaxLines) \/ answer \in Planning!TextsOf(2)
    BY <1>1, <1>3 DEF Planning!Says, Planning!Texts
  <2>4. PICK m \in Nat : answer \in [1..m -> Planning!Lines]
    BY <2>2, <2>3
  <2> QED BY <1>3, <2>1, <2>4, LastFinal
<1> QED BY <1>2, <1>3

(* A plan keeps it: no other answer failed, and if this one does the call ends. *)
LEMMA EndsPlan ==
    ASSUME MaxLines \in Nat, Ends, Planning!Plan
    PROVE  Ends'
<1>1. /\ answers \in Seq(Answers) /\ Len(answers) \in Nat
      /\ outcome.how = "none" /\ pc = "plan"
  BY LenProperties DEF Ends, Planning!PlanInv, Answers, Planning!Plan
<1>2. \A n \in DOMAIN answers : ~Fails(answers[n])
  BY <1>1 DEF Ends, Planning!FailureEnds, Fails
<1>3. PICK answer \in Planning!Says :
         LET read == Planning!Parsed(answer)
             n == Len(asked) + 1
         IN /\ answers' = Append(answers, answer)
            /\ \/ /\ read.how = "finish" /\ UNCHANGED <<messages, done>>
                  /\ IF setup.renamed /\ setup.agent \in Planning!Functions
                     THEN Planning!Failed
                     ELSE Planning!Ended("ok", read.from)
               \/ /\ read.how = "act" /\ pc' = "act" /\ UNCHANGED <<done, outcome>>
                  /\ messages' = IF setup.agent = "openai" THEN Append(messages, n)
                                 ELSE messages
               \/ /\ read.how = "unreadable" /\ setup.handler
                  /\ done' = Append(done, [plan |-> n, place |-> 0])
                  /\ UNCHANGED <<pc, messages, outcome>>
               \/ /\ read.how = "error" \/ (read.how = "unreadable" /\ ~setup.handler)
                  /\ Planning!Failed /\ UNCHANGED <<messages, done>>
  BY DEF Planning!Plan
<1>4. answer \in Answers
  BY DEF Planning!Says, Planning!Texts, Answers
<1>5. answers' = Append(answers, answer) /\ setup' = setup
  BY <1>3 DEF Planning!Plan
<1>6. /\ pc' # "returned" => outcome'.how = "none"
      /\ Fails(answer) => outcome'.how = "error"
  <2>1. pc' # "returned" => outcome'.how = "none"
    BY <1>1, <1>3 DEF Planning!Failed, Planning!Ended
  <2>2. CASE Fails(answer)
    BY <1>3, <2>2 DEF Planning!Failed, Planning!Ended, Fails
  <2> QED BY <2>1, <2>2
<1>7. /\ answers' \in Seq(Answers) /\ Len(answers') \in Nat
      /\ DOMAIN answers' = 1..Len(answers')
      /\ answers'[Len(answers')] = answer
      /\ \A n \in DOMAIN answers' :
            n # Len(answers') => answers'[n] = answers[n] /\ n \in DOMAIN answers
  BY <1>1, <1>4, <1>5, AppendProperties, LenProperties
<1>8. \A a : Fails(a)' <=> Fails(a)
  BY <1>5 DEF Fails, Planning!Parsed
<1>9. Planning!FailureEnds'
  BY <1>2, <1>6, <1>7, <1>8 DEF Planning!FailureEnds, Fails
<1>10. Planning!PlanInv'
  BY <1>5, <1>6, <1>7 DEF Planning!PlanInv, Answers
<1>11. Planning!FinalIsReturned'
  <2> SUFFICES ASSUME outcome'.how = "ok" PROVE Planning!FinalIsReturned'
    BY DEF Planning!FinalIsReturned
  <2>1. Planning!Parsed(answer).how = "finish" /\ outcome'.from = Planning!Parsed(answer).from
    BY <1>1, <1>3 DEF Planning!Failed, Planning!Ended
  <2> QED BY <1>5, <1>7, <2>1, PlanReturns DEF Planning!FinalIsReturned
<1> QED BY <1>9, <1>10, <1>11 DEF Ends

(* So does running the tools, or giving up.                                *)
LEMMA EndsLoop == ASSUME Ends, Planning!Act \/ Planning!GiveUp PROVE Ends'
<1>1. /\ UNCHANGED <<setup, answers>> /\ outcome.how = "none"
      /\ pc' # "returned" => outcome'.how = "none"
      /\ outcome'.how # "ok"
  BY DEF Planning!Act, Planning!GiveUp, Ends, Planning!PlanInv, Planning!Failed,
      Planning!Ended
<1>2. \A n \in DOMAIN answers : ~Fails(answers[n])
  BY <1>1 DEF Ends, Planning!FailureEnds, Fails
<1>3. \A a : Fails(a)' <=> Fails(a)
  BY <1>1 DEF Fails, Planning!Parsed
<1>4. Planning!FailureEnds'
  BY <1>1, <1>2, <1>3 DEF Planning!FailureEnds, Fails
<1> QED BY <1>1, <1>4 DEF Ends, Planning!PlanInv, Planning!FinalIsReturned

(* Every step of an agent keeps the invariant.                             *)
LEMMA EndsSteps ==
    ASSUME MaxLines \in Nat, Ends, [Planning!Next]_(Planning!vars)
    PROVE  Ends'
<1>1. CASE UNCHANGED Planning!vars
  <2>1. \A a : Planning!Parsed(a)' = Planning!Parsed(a)
    BY <1>1 DEF Planning!vars, Planning!Parsed
  <2> QED BY <1>1, <2>1 DEF Planning!vars, Ends, Planning!PlanInv,
      Planning!FailureEnds, Planning!FinalIsReturned
<1>2. CASE Planning!Next
  BY <1>2, EndsPlan, EndsLoop DEF Planning!Next
<1> QED BY <1>1, <1>2

----------------------------------------------------------------------------
(* What is read of an answer.                                               *)

(* What a choice of calls is, and two of them one after the other.          *)
LEMMA CallListIs ==
    ASSUME NEW c \in Planning!CallLists
    PROVE  /\ c \in Seq(Planning!Arguments) /\ Len(c) \in 0..2 /\ DOMAIN c = 1..Len(c)
           /\ c # <<>> => Len(c) # 0
<1>1. PICK n \in 0..2 : c \in [1..n -> Planning!Arguments]
  BY DEF Planning!CallLists
<1>2. c \in Seq(Planning!Arguments) /\ Len(c) = n /\ DOMAIN c = 1..n
  BY <1>1
<1>3. n = 0 => c = <<>>
  BY <1>2, EmptySeq
<1> QED BY <1>2, <1>3

(* A text has at most one action, one of several choices up to four calls; the only *)
(* choice of openai is of the calls it asks for.                                    *)
LEMMA ReadIs ==
    ASSUME MaxLines \in Nat, NEW answer \in Answers
    PROVE  LET read == Planning!Parsed(answer)
           IN /\ read.how \in {"error", "unreadable", "finish", "act"}
              /\ read.how = "finish" => read.from \in Nat
              /\ read.how = "act" => read.actions \in 0..4
              /\ setup.agent \in Planning!Functions => read.how # "unreadable"
              /\ setup.agent \notin Planning!Functions /\ read.how = "act" => read.actions = 1
              /\ \A c \in Planning!CallLists :
                    /\ answer = <<c>> /\ setup.agent \in Planning!Functions
                    /\ read.how = "act"
                    => c # <<>> /\ read.actions = Len(c)
<1>1. CASE answer = Planning!Failure
  BY <1>1 DEF Planning!Parsed, Planning!Read, Planning!Failure
<1>2. CASE answer # Planning!Failure /\ setup.agent \notin Planning!Functions
  <2>1. Planning!Parsed(answer) = Planning!parseOutput(answer)
    BY <1>2 DEF Planning!Parsed
  <2>2. \A max \in Nat : answer \in Planning!TextsOf(max) => \E m \in Nat : answer \in [1..m -> Planning!Lines]
    BY DEF Planning!TextsOf
  <2>3. answer \in Planning!TextsOf(MaxLines) \/ answer \in Planning!TextsOf(2)
    BY <1>2 DEF Answers
  <2>4. PICK m \in Nat : answer \in [1..m -> Planning!Lines]
    BY <2>2, <2>3
  <2> DEFINE final == {k \in DOMAIN answer : answer[k] = "final"}
  <2>5. final # {} => Planning!Max(final) \in Nat
    <3>1. final \in SUBSET (1..m) /\ \A k \in final : k \in Nat
      BY <2>4
    <3> HIDE DEF final
    <3>2. final # {} => Planning!Max(final) \in final
      BY <3>1, Greatest, SameMax
    <3> QED BY <3>1, <3>2
  <2>6. /\ Planning!parseOutput(answer).how \in {"unreadable", "finish", "act"}
        /\ Planning!parseOutput(answer).how = "act" => Planning!parseOutput(answer).actions = 1
        /\ Planning!parseOutput(answer).how = "finish" =>
                       final # {} /\ Planning!parseOutput(answer).from = Planning!Max(final)
    BY DEF Planning!parseOutput, Planning!Read
  <2> HIDE DEF final
  <2>7. 1 \in 0..4
    OBVIOUS
  <2> QED BY <1>2, <2>1, <2>5, <2>6, <2>7
<1>3. CASE answer # Planning!Failure /\ setup.agent \in Planning!Functions
  <2> DEFINE broken == {c \in DOMAIN answer : \E k \in DOMAIN answer[c] :
                                                answer[c][k] = "broken"}
             plain == {c \in DOMAIN answer : answer[c] = <<>>}
             first == Planning!Min({Len(answer) + 1} \cup broken \cup plain)
  <2>1. Planning!Parsed(answer) = Planning!ParseOutput(answer)
    BY <1>3 DEF Planning!Parsed
  <2>2. /\ Planning!ParseOutput(answer).how \in {"error", "finish", "act"}
        /\ Planning!ParseOutput(answer).how = "finish" =>
                       first \in plain /\ Planning!ParseOutput(answer).from = first
        /\ Planning!ParseOutput(answer).how = "act" =>
                       /\ first \notin broken /\ first \notin plain
                       /\ Planning!ParseOutput(answer).actions = Len(Planning!FlattenSeq(answer))
    BY DEF Planning!ParseOutput, Planning!Read
  <2>3. CASE \E c \in Planning!CallLists : answer = <<c>>
    <3>1. PICK c \in Planning!CallLists : answer = <<c>>
      BY <2>3
    <3>2. /\ c \in Seq(Planning!Arguments) /\ Len(c) \in 0..2
      BY CallListIs
    <3>3. Planning!FlattenSeq(answer) = c
      BY <3>1, <3>2, FlatFew
    <3>4. DOMAIN answer = {1} /\ Len(answer) = 1 /\ answer[1] = c
      BY <3>1
    <3>5. first \in plain => first \in Nat
      BY <3>4
    <3>6. c = <<>> => first \in plain
      <4>1. SUFFICES ASSUME c = <<>> PROVE first = 1
        BY <3>4
      <4>2. plain = {1} /\ broken \in SUBSET {1}
        BY <3>4, <4>1
      <4>3. {Len(answer) + 1} \cup broken \cup plain = {2, 1}
        BY <3>4, <4>2
      <4>4. \A x \in {2, 1} : (\A y \in {2, 1} : x <= y) => x = 1
        OBVIOUS
      <4>5. \A y \in {2, 1} : 1 <= y
        OBVIOUS
      <4>6. Planning!Min({2, 1}) = 1
        BY <4>4, <4>5 DEF Planning!Min
      <4> QED BY <4>3, <4>6
    <3>7. \A d \in Planning!CallLists : answer = <<d>> => d = c
      BY <3>1
    <3>8. \A n \in 0..2 : n \in 0..4
      OBVIOUS
    <3> HIDE DEF first, plain, broken
    <3> QED BY <1>3, <2>1, <2>2, <3>2, <3>3, <3>5, <3>6, <3>7, <3>8
  <2>4. CASE answer \in Planning!Several
    <3>1. DOMAIN answer = 1..2 /\ answer[1] \in Planning!CallLists /\ answer[2] \in Planning!CallLists
      BY <2>4 DEF Planning!Several
    <3> DEFINE a == answer[1]
               b == answer[2]
    <3>2. answer = <<a, b>>
      BY <2>4 DEF Planning!Several
    <3>3. /\ a \in Seq(Planning!Arguments) /\ Len(a) \in 0..2
          /\ b \in Seq(Planning!Arguments) /\ Len(b) \in 0..2
      BY <3>1, CallListIs
    <3>4. Len(Planning!FlattenSeq(answer)) \in 0..4
      <4> HIDE DEF a, b
      <4>1. <<a>> \in Seq(Seq(Planning!Arguments)) /\ answer = Append(<<a>>, b)
        BY <3>2, <3>3
      <4>2. Planning!FlattenSeq(<<a>>) = a
        BY <3>3, FlatFew
      <4> DEFINE one == <<a>>
      <4> HIDE DEF one
      <4>3. Planning!FlattenSeq(Append(one, b)) = Planning!FlattenSeq(one) \o b
        BY <3>3, <4>1, FlatMore DEF one
      <4>4. Planning!FlattenSeq(answer) = a \o b
        BY <4>1, <4>2, <4>3 DEF one
      <4>5. Len(a \o b) = Len(a) + Len(b)
        BY <3>3, ConcatProperties
      <4>6. \A m, n \in 0..2 : m + n \in 0..4
        OBVIOUS
      <4> QED BY <3>3, <4>4, <4>5, <4>6
    <3>5. first \in plain => first \in Nat
      BY <3>1
    <3>6. \A c : answer # <<c>>
      <4>1. \A c : Len(<<c>>) = 1
        OBVIOUS
      <4>2. Len(answer) = 2
        BY <3>2
      <4> QED BY <4>1, <4>2
    <3> HIDE DEF first, plain, broken
    <3> QED BY <1>3, <2>1, <2>2, <3>4, <3>5, <3>6
  <2>5. answer \in Planning!Several \/ \E c \in Planning!CallLists : answer = <<c>>
    BY <1>3 DEF Answers
  <2> QED BY <2>3, <2>4, <2>5
<1> QED BY <1>1, <1>2, <1>3

----------------------------------------------------------------------------
(* What the requests of an agent tell.                                      *)

(* Items and steps of some plans are of all.                                *)
LEMMA Within ==
    ASSUME NEW P, NEW Q, NEW R, NEW W, Q \subseteq W
    PROVE  /\ \A r \in Seq(Items(P, Q)) :
                 (\A k \in DOMAIN r : r[k].plan \in R) => r \in Seq(Items(R, W))
           /\ \A d \in Seq(Done(P, Q)) :
                 (\A k \in DOMAIN d : d[k].plan \in R) => d \in Seq(Done(R, W))
<1>1. ASSUME NEW r \in Seq(Items(P, Q)), \A k \in DOMAIN r : r[k].plan \in R
      PROVE  r \in Seq(Items(R, W))
  <2>1. r \in [1..Len(r) -> Items(P, Q)] /\ Len(r) \in Nat
    BY <1>1, LenProperties
  <2>2. ASSUME NEW k \in 1..Len(r) PROVE r[k] \in Items(R, W)
    <3>1. r[k] \in Items(P, Q) /\ r[k].plan \in R
      BY <1>1, <2>1
    <3> QED BY <3>1 DEF Items
  <2>3. r \in [1..Len(r) -> Items(R, W)]
    BY <2>1, <2>2
  <2> QED BY <2>1, <2>3
<1>2. ASSUME NEW d \in Seq(Done(P, Q)), \A k \in DOMAIN d : d[k].plan \in R
      PROVE  d \in Seq(Done(R, W))
  <2>1. d \in [1..Len(d) -> Done(P, Q)] /\ Len(d) \in Nat
    BY <1>2, LenProperties
  <2>2. ASSUME NEW k \in 1..Len(d) PROVE d[k] \in Done(R, W)
    <3>1. d[k] \in Done(P, Q) /\ d[k].plan \in R
      BY <1>2, <2>1
    <3> QED BY <3>1 DEF Done
  <2>3. d \in [1..Len(d) -> Done(R, W)]
    BY <2>1, <2>2
  <2> QED BY <2>1, <2>3
<1> QED BY <1>1, <1>2

(* The steps are of the plans so far, and a request tells of those before it. *)
LEMMA StoryIs ==
    ASSUME MaxPlans \in Nat, Planning!StoryInv
    PROVE  /\ Len(asked) \in Nat /\ DOMAIN asked = 1..Len(asked)
           /\ done \in Seq(Done(1..Len(asked), 0..4)) /\ done \in Seq(Done(Nat, Nat))
           /\ \A i \in 1..Len(asked) :
                 /\ asked[i] \in Seq(Items(1..(i - 1), 0..4))
                 /\ asked[i] \in Seq(Items(1..(i - 1), Nat))
                 /\ asked[i] \in Seq(Items(Nat, Nat))
<1>1. /\ Planning!Step = Done(1..MaxPlans, 0..4) /\ Planning!Told = Items(1..MaxPlans, 0..4)
      /\ 0..4 \subseteq 0..4 /\ 0..4 \subseteq Nat
  BY DEF Planning!Step, Planning!Told, Done, Items
<1>2. asked \in Seq(Seq(Planning!Told)) /\ done \in Seq(Planning!Step)
  BY DEF Planning!StoryInv, Planning!TypeOK
<1>3. Len(asked) \in Nat /\ DOMAIN asked = 1..Len(asked)
  BY <1>2, LenProperties
<1>4. \A k \in DOMAIN done : done[k].plan \in 1..Len(asked) /\ done[k].plan \in Nat
  BY <1>3 DEF Planning!StoryInv
<1>5. done \in Seq(Done(1..Len(asked), 0..4)) /\ done \in Seq(Done(Nat, Nat))
  <2>1. done \in Seq(Done(1..MaxPlans, 0..4))
    BY <1>1, <1>2
  <2> DEFINE P == 1..MaxPlans
             R == 1..Len(asked)
             Q == 0..4
  <2>2. /\ done \in Seq(Done(P, Q)) /\ Q \subseteq Q /\ Q \subseteq Nat
        /\ \A k \in DOMAIN done : done[k].plan \in R /\ done[k].plan \in Nat
    BY <1>1, <1>4, <2>1
  <2> HIDE DEF P, Q, R
  <2>3. done \in Seq(Done(R, Q))
    BY <2>2, Within
  <2>4. done \in Seq(Done(Nat, Nat))
    BY <2>2, Within
  <2> QED BY <2>3, <2>4 DEF R, Q
<1>6. ASSUME NEW i \in 1..Len(asked)
      PROVE  /\ asked[i] \in Seq(Items(1..(i - 1), 0..4))
             /\ asked[i] \in Seq(Items(1..(i - 1), Nat))
             /\ asked[i] \in Seq(Items(Nat, Nat))
  <2> DEFINE r == asked[i]
  <2>1. r \in Seq(Items(1..MaxPlans, 0..4))
    BY <1>1, <1>2, <1>3, ElementOfSeq
  <2>2. \A k \in DOMAIN r : r[k].plan \in 1..(i - 1) /\ r[k].plan \in Nat
    BY <1>3 DEF Planning!StoryInv
  <2> HIDE DEF r
  <2>3. r \in Seq(Items(1..(i - 1), 0..4))
    BY <1>1, <2>1, <2>2, Within
  <2>4. r \in Seq(Items(1..(i - 1), Nat))
    BY <1>1, <2>1, <2>2, Within
  <2>5. r \in Seq(Items(Nat, Nat))
    BY <1>1, <2>1, <2>2, Within
  <2> QED BY <2>3, <2>4, <2>5 DEF r
<1> QED BY <1>3, <1>5, <1>6

(* What a request told stays so when there are more steps and answers.      *)
LEMMA ToldStill ==
    ASSUME MaxPlans \in Nat, Planning!StoryInv, Planning!StepsAreTold,
           Planning!CallsAreAnswered,
           NEW i \in 1..Len(asked), NEW n \in Nat, n >= i,
           NEW new \in Seq(Done({n}, Nat)),
           NEW given, \A p \in 1..(i - 1) : given[p] = answers[p]
    PROVE  /\ setup.agent = "functions" => asked[i] = <<>>
           /\ setup.agent # "functions" =>
                 /\ Planning!Tools(asked[i]) = Planning!AsTold(Planning!Those(done \o new, Planning!Steps(1..(i - 1))))
                 /\ Planning!AfterAnswers(asked[i])
           /\ setup.agent = "openai" => AnsweredBy(asked[i], given)
<1>1. /\ done \in Seq(Done(Nat, Nat)) /\ DOMAIN asked = 1..Len(asked)
      /\ asked[i] \in Seq(Items(1..(i - 1), Nat)) /\ Len(asked) \in Nat
  BY StoryIs
<1>2. n \notin 1..(i - 1)
  BY <1>1
<1> DEFINE plans == 1..(i - 1)
<1> HIDE DEF plans
<1>3. Planning!Those(done \o new, Planning!Steps(plans)) = Planning!Those(done, Planning!Steps(plans))
  BY <1>1, <1>2, ThoseBefore DEF plans
<1>4. setup.agent = "openai" => AnsweredBy(asked[i], answers)
  BY <1>1, AnsweredIs DEF Planning!CallsAreAnswered
<1>5. setup.agent = "openai" => AnsweredBy(asked[i], given)
  <2> DEFINE r == asked[i]
  <2>1. r \in Seq(Items(plans, Nat)) /\ \A p \in plans : given[p] = answers[p]
    BY <1>1 DEF plans
  <2> HIDE DEF r
  <2>2. AnsweredBy(r, answers) => AnsweredBy(r, given)
    BY <2>1, AnsweredStill
  <2> QED BY <1>4, <2>2 DEF r
<1> QED BY <1>1, <1>3, <1>5 DEF Planning!StepsAreTold, plans

(* The messages between the requests are of the plans that those told.      *)
LEMMA PadIs ==
    ASSUME MaxPlans \in Nat, Planning!StoryInv, pc = "plan"
    PROVE  /\ Planning!Scratchpad = IF setup.agent = "functions" THEN <<>>
                                    ELSE IF setup.agent = "openai" THEN ChatOf(done, Len(asked))
                                    ELSE MrklOf(done)
           /\ Planning!Scratchpad \in Seq(Items(1..Len(asked), 0..4))
<1> DEFINE m == Len(asked)
<1>1. m \in Nat /\ done \in Seq(Done(1..m, 0..4))
  BY StoryIs
<1>2. CASE setup.agent = "functions"
  <2>1. messages = <<>>
    BY <1>2 DEF Planning!StoryInv
  <2>2. [k \in DOMAIN messages |-> Planning!WithAnswers(messages[k])] = <<>>
    BY <2>1
  <2>3. <<>> \in Seq(Items(1..m, 0..4)) /\ <<>> \in Seq(Nat)
    BY EmptySeq
  <2>4. Planning!FlattenSeq(<<>>) = <<>>
    BY <2>3, FlatFew
  <2>5. Planning!Scratchpad = <<>>
    BY <1>2, <2>2, <2>4 DEF Planning!Scratchpad, Planning!constructScratchPad,
      Planning!Functions
  <2> QED BY <1>2, <2>3, <2>5
<1>3. CASE setup.agent = "openai"
  <2>1. messages = [k \in 1..m |-> k] /\ (done = <<>> <=> asked = <<>>)
    BY <1>3 DEF Planning!StoryInv
  <2>2. [k \in DOMAIN messages |-> Planning!WithAnswers(messages[k])] = [k \in 1..m |-> Planning!WithAnswers(k)]
    BY <2>1
  <2>3. done # <<>> => Planning!Scratchpad = ChatOf(done, m)
    BY <1>3, <2>2, PadsAre DEF Planning!Scratchpad, Planning!constructScratchPad,
      Planning!Functions
  <2>4. done = <<>> => Planning!Scratchpad = <<>> /\ ChatOf(done, m) = <<>>
    <3>1. SUFFICES ASSUME done = <<>> PROVE Planning!Scratchpad = <<>> /\ ChatOf(done, m) = <<>>
      OBVIOUS
    <3>2. m = 0
      BY <2>1, <3>1
    <3>3. [k \in 1..0 |-> Answered(done, k)] = <<>>
      OBVIOUS
    <3>4. <<>> \in Seq(Nat)
      BY EmptySeq
    <3>5. Planning!FlattenSeq(<<>>) = <<>>
      BY <3>4, FlatFew
    <3>6. ChatOf(done, 0) = <<>>
      BY <3>3, <3>5 DEF ChatOf
    <3> QED BY <1>3, <3>1, <3>2, <3>6 DEF Planning!Scratchpad,
      Planning!constructScratchPad, Planning!Functions
  <2>5. ChatOf(done, m) \in Seq(Items(1..m, 0..4))
    <3>1. 0 \in 0..4 /\ 1..m \subseteq 1..m
      OBVIOUS
    <3> DEFINE P == 1..m
               Q == 0..4
    <3>2. done \in Seq(Done(P, Q)) /\ 0 \in Q /\ 1..m \subseteq P
      BY <1>1, <3>1
    <3> HIDE DEF P, Q, m
    <3>3. ChatOf(done, m) \in Seq(Items(P, Q))
      BY <1>1, <3>2, ChatTyped
    <3> QED BY <3>3 DEF P, Q
  <2> QED BY <1>3, <2>3, <2>4, <2>5
<1>4. CASE setup.agent \notin {"functions", "openai"}
  <2>1. Planning!Scratchpad = MrklOf(done)
    BY <1>4, PadsAre DEF Planning!Scratchpad, Planning!Functions
  <2>2. MrklOf(done) \in Seq(Items(1..m, 0..4))
    <3> DEFINE P == 1..m
               Q == 0..4
    <3>1. done \in Seq(Done(P, Q)) /\ 0 \in Q
      BY <1>1
    <3> HIDE DEF P, Q, m
    <3>2. MrklOf(done) \in Seq(Items(P, Q))
      BY <3>1, MrklTyped
    <3> QED BY <3>2 DEF P, Q
  <2> QED BY <1>4, <2>1, <2>2
<1> QED BY <1>2, <1>3, <1>4

(* The request of one step more tells that too.                             *)
LEMMA MrklTells ==
    ASSUME NEW n \in Nat, NEW d \in Seq(Done(Nat, Nat)), NEW e \in Done({n}, Nat),
           Planning!Tools(MrklOf(d)) = Planning!AsTold(d), Planning!AfterAnswers(MrklOf(d))
    PROVE  /\ Planning!Tools(MrklOf(Append(d, e))) = Planning!AsTold(Append(d, e))
           /\ Planning!AfterAnswers(MrklOf(Append(d, e)))
<1> DEFINE q == MrklOf(d)
           one == <<e>>
           said == IF e.place > 0 THEN <<Planning!Item("model", n, 0)>> ELSE <<>>
<1>1. e \in Done(Nat, Nat) /\ e.plan = n /\ e.place \in Nat
  BY DEF Done
<1>2. one \in Seq(Done({n}, Nat)) /\ DOMAIN one = {1} /\ one[1] = e
  OBVIOUS
<1>3. said \in {<<>>, <<Planning!Item("model", n, 0)>>}
  OBVIOUS
<1>4. said = <<>> => \A k \in DOMAIN one : one[k].place = 0
  <2>1. Len(<<Planning!Item("model", n, 0)>>) = 1 /\ Len(<<>>) = 0
    OBVIOUS
  <2>2. said = <<>> => ~(e.place > 0)
    BY <2>1
  <2> HIDE DEF said, one
  <2> QED BY <1>1, <1>2, <2>2
<1>5. MrklStep(e) = said \o Planning!AsTold(one)
  BY <1>1 DEF MrklStep, Planning!Only
<1>6. Append(d, e) = d \o one
  BY <1>1, AppendIsConcat
<1>7. q \in Seq(Items(Nat, Nat))
  <2>1. 0 \in Nat
    OBVIOUS
  <2> QED BY <2>1, MrklTyped
<1>8. MrklOf(Append(d, e)) = q \o MrklStep(e)
  BY <1>1, MrklMore
<1>9. Planning!Tools(q) = Planning!AsTold(d) /\ Planning!AfterAnswers(q)
  OBVIOUS
<1> HIDE DEF q, one, said
<1>10. /\ Planning!Tools(q \o (said \o Planning!AsTold(one))) = Planning!AsTold(d \o one)
       /\ Planning!AfterAnswers(q \o (said \o Planning!AsTold(one)))
  BY <1>2, <1>3, <1>4, <1>7, <1>9, ToldOn
<1> QED BY <1>5, <1>6, <1>8, <1>10

(* So does the next message with the answers to its calls.                  *)
LEMMA ChatTells ==
    ASSUME NEW n \in Nat, NEW r \in Seq(Items(Nat, Nat)), NEW d \in Seq(Done(Nat, Nat)),
           NEW new \in Seq(Done({n}, Nat)), Planning!Tools(r) = Planning!AsTold(d),
           Planning!AfterAnswers(r)
    PROVE  /\ Planning!Tools(r \o (<<Planning!Item("model", n, 0)>> \o Planning!AsTold(new))) = Planning!AsTold(d \o new)
           /\ Planning!AfterAnswers(r \o (<<Planning!Item("model", n, 0)>> \o Planning!AsTold(new)))
<1>1. ASSUME NEW said \in {<<>>, <<Planning!Item("model", n, 0)>>}, said # <<>>
      PROVE  /\ Planning!Tools(r \o (said \o Planning!AsTold(new))) = Planning!AsTold(d \o new)
             /\ Planning!AfterAnswers(r \o (said \o Planning!AsTold(new)))
  BY <1>1, ToldOn
<1>2. Len(<<Planning!Item("model", n, 0)>>) = 1 /\ Len(<<>>) = 0
  OBVIOUS
<1>3. <<Planning!Item("model", n, 0)>> # <<>>
  BY <1>2
<1> QED BY <1>1, <1>3

(* A plan keeps what the requests tell: its own has the steps so far.       *)
LEMMA StoryPlan ==
    ASSUME MaxPlans \in Nat, MaxLines \in Nat, Planning!IInv, Planning!Plan
    PROVE  Planning!StoryInv' /\ Planning!StepsAreTold' /\ Planning!CallsAreAnswered'
<1> DEFINE m == Len(asked)
           n == m + 1
           r == Planning!Scratchpad
<1>1. /\ Planning!StoryInv /\ Planning!StepsAreTold /\ Planning!CallsAreAnswered /\ pc = "plan" /\ Planning!TypeOK
      /\ setup' = setup /\ outcome.how = "none" /\ answers \in Seq(Answers)
      /\ asked' = Append(asked, r) /\ m < MaxPlans /\ MaxPlans \in Nat
  BY DEF Planning!IInv, Planning!Plan, Planning!StoryInv, Planning!PlanInv, Answers
<1>2. /\ m \in Nat /\ DOMAIN asked = 1..m
      /\ done \in Seq(Done(1..m, 0..4)) /\ done \in Seq(Done(Nat, Nat))
  BY <1>1, StoryIs
<1>3. PICK answer \in Planning!Says :
         LET read == Planning!Parsed(answer)
         IN /\ answers' = Append(answers, answer)
            /\ \/ /\ read.how = "finish" /\ UNCHANGED <<messages, done>>
                  /\ IF setup.renamed /\ setup.agent \in Planning!Functions
                     THEN Planning!Failed
                     ELSE Planning!Ended("ok", read.from)
               \/ /\ read.how = "act" /\ pc' = "act" /\ UNCHANGED <<done, outcome>>
                  /\ messages' = IF setup.agent = "openai" THEN Append(messages, n)
                                 ELSE messages
               \/ /\ read.how = "unreadable" /\ setup.handler
                  /\ done' = Append(done, [plan |-> n, place |-> 0])
                  /\ UNCHANGED <<pc, messages, outcome>>
               \/ /\ read.how = "error" \/ (read.how = "unreadable" /\ ~setup.handler)
                  /\ Planning!Failed /\ UNCHANGED <<messages, done>>
  BY DEF Planning!Plan
<1> DEFINE read == Planning!Parsed(answer)
           e == [plan |-> n, place |-> 0]
<1>4. /\ answer \in Answers
      /\ setup.agent \in Planning!Functions => read.how # "unreadable"
      /\ read.how = "finish" => read.from \in Nat
  <2>1. answer \in Answers
    BY DEF Planning!Says, Planning!Texts, Answers
  <2> QED BY <2>1, ReadIs
<1>5. /\ Len(answers) = m /\ answers' = Append(answers, answer)
      /\ Len(answers') = n /\ DOMAIN answers' = 1..n /\ answers'[n] = answer
      /\ \A k \in 1..m : answers'[k] = answers[k]
  <2>1. Len(answers) = m
    BY <1>1 DEF Planning!TypeOK
  <2> QED BY <1>1, <1>3, <2>1, AppendProperties
<1>6. /\ Len(asked') = n /\ DOMAIN asked' = 1..n /\ asked'[n] = r
      /\ \A k \in 1..m : asked'[k] = asked[k]
      /\ n \in 1..MaxPlans /\ n \in Nat
  <2>1. asked \in Seq(Seq(Planning!Told))
    BY <1>1 DEF Planning!TypeOK
  <2>2. n \in 1..MaxPlans /\ n \in Nat
    BY <1>1, <1>2
  <2> HIDE DEF r
  <2>3. /\ Len(asked') = n /\ DOMAIN asked' = 1..n /\ asked'[n] = r
        /\ \A k \in 1..m : asked'[k] = asked[k]
    BY <1>1, <1>2, <2>1, AppendProperties
  <2> QED BY <2>2, <2>3
<1>7. /\ r = IF setup.agent = "functions" THEN <<>>
             ELSE IF setup.agent = "openai" THEN ChatOf(done, m) ELSE MrklOf(done)
      /\ r \in Seq(Items(1..m, 0..4))
  BY <1>1, PadIs
<1>8. \/ done' = done
      \/ done' = Append(done, e) /\ pc' = pc /\ setup.agent \notin Planning!Functions
  BY <1>3, <1>4
<1>9. \E new \in Seq(Done({n}, Nat)) : done' = done \o new
  <2>1. <<>> \in Seq(Done({n}, Nat)) /\ done \o <<>> = done
    BY <1>2, EmptySeq, ConcatEmptySeq
  <2>2. e \in Done({n}, Nat) /\ e \in Done(Nat, Nat)
    BY <1>6 DEF Done
  <2> HIDE DEF e
  <2>3. Append(done, e) = done \o <<e>>
    BY <1>2, <2>2, AppendIsConcat
  <2>4. <<e>> \in Seq(Done({n}, Nat))
    BY <2>2
  <2> QED BY <1>8, <2>1, <2>3, <2>4
<1>10. PICK new \in Seq(Done({n}, Nat)) : done' = done \o new
  BY <1>9
<1>11. ASSUME NEW i \in 1..m
       PROVE  /\ setup.agent = "functions" => asked[i] = <<>>
              /\ setup.agent # "functions" =>
                    /\ Planning!Tools(asked[i]) = Planning!AsTold(Planning!Those(done', Planning!Steps(1..(i - 1))))
                    /\ Planning!AfterAnswers(asked[i])
              /\ setup.agent = "openai" => AnsweredBy(asked[i], answers')
  <2>1. n >= i /\ \A p \in 1..(i - 1) : answers'[p] = answers[p]
    BY <1>2, <1>5
  <2> DEFINE given == answers'
  <2> HIDE DEF given, n
  <2>2. i \in 1..Len(asked) /\ n \in Nat /\ n >= i
    BY <1>6, <2>1
  <2>3. \A p \in 1..(i - 1) : given[p] = answers[p]
    BY <2>1 DEF given
  <2>4. /\ setup.agent = "functions" => asked[i] = <<>>
        /\ setup.agent # "functions" =>
              /\ Planning!Tools(asked[i]) = Planning!AsTold(Planning!Those(done \o new, Planning!Steps(1..(i - 1))))
              /\ Planning!AfterAnswers(asked[i])
        /\ setup.agent = "openai" => AnsweredBy(asked[i], given)
    BY <1>1, <2>2, <2>3, ToldStill
  <2> QED BY <1>10, <2>4 DEF given
<1>12. Planning!Those(done', Planning!Steps(1..(n - 1))) = done
  <2> DEFINE plans == 1..m
  <2>1. n - 1 = m /\ n \notin plans
    BY <1>2
  <2>2. done \in Seq(Done(plans, 0..4)) /\ Done(plans, 0..4) \subseteq Planning!Steps(plans)
    BY <1>2 DEF Done, Planning!Steps
  <2> HIDE DEF plans, n
  <2>3. Planning!Those(done \o new, Planning!Steps(plans)) = Planning!Those(done, Planning!Steps(plans))
    BY <1>2, <1>6, <2>1, ThoseBefore
  <2>4. Planning!Those(done, Planning!Steps(plans)) = done
    BY <2>2, ThoseAllOrNone
  <2> QED BY <1>10, <2>1, <2>3, <2>4 DEF plans
<1>13. setup.agent # "functions" => Planning!Tells(r)
  BY <1>1 DEF Planning!StoryInv
<1>14. Planning!StepsAreTold'
  <2>1. ASSUME NEW i \in 1..n
        PROVE  IF setup.agent = "functions" THEN asked'[i] = <<>>
               ELSE /\ Planning!Tools(asked'[i]) = Planning!AsTold(Planning!Those(done', Planning!Steps(1..(i - 1))))
                    /\ Planning!AfterAnswers(asked'[i])
    <3>1. CASE i = n
      BY <1>6, <1>7, <1>12, <1>13, <3>1 DEF Planning!Tells
    <3>2. CASE i \in 1..m
      BY <1>6, <1>11, <3>2
    <3> QED BY <1>2, <3>1, <3>2
  <2>2. \A i \in DOMAIN asked' :
           IF setup'.agent = "functions" THEN asked'[i] = <<>>
           ELSE /\ Planning!Tools(asked'[i]) = Planning!AsTold(Planning!Those(done', Planning!Steps(1..(i - 1))))
                /\ Planning!AfterAnswers(asked'[i])
    BY <1>1, <1>6, <2>1
  <2> QED BY <2>2 DEF Planning!StepsAreTold
<1>15. Planning!CallsAreAnswered'
  <2>1. setup.agent = "openai" => AnsweredBy(r, answers')
    <3> DEFINE plans == 1..m
    <3>1. setup.agent = "openai" => AnsweredBy(r, answers)
      BY <1>13, AnsweredIs DEF Planning!Tells
    <3>2. r \in Seq(Items(plans, 0..4)) /\ \A p \in plans : answers'[p] = answers[p]
      BY <1>5, <1>7
    <3>3. Seq(Items(plans, 0..4)) \subseteq Seq(Items(plans, Nat))
      <4>1. Items(plans, 0..4) \subseteq Items(plans, Nat)
        BY DEF Items
      <4> QED BY <4>1, SeqMonotonic
    <3> DEFINE given == answers'
    <3> HIDE DEF given, plans, r
    <3>4. r \in Seq(Items(plans, Nat)) /\ \A p \in plans : given[p] = answers[p]
      BY <3>2, <3>3 DEF given
    <3>5. AnsweredBy(r, answers) => AnsweredBy(r, given)
      BY <3>4, AnsweredStill
    <3> QED BY <3>1, <3>5 DEF given
  <2>2. ASSUME setup.agent = "openai", NEW i \in 1..n PROVE AnsweredBy(asked'[i], answers')
    BY <1>2, <1>6, <1>11, <2>1, <2>2
  <2> QED BY <1>1, <1>6, <2>2 DEF Planning!CallsAreAnswered, Planning!CallsAnswered,
    AnsweredBy
<1>16. Planning!TypeOK'
  <2>1. asked' \in Seq(Seq(Planning!Told)) /\ Len(asked') <= MaxPlans
    <3>1. asked \in Seq(Seq(Planning!Told))
      BY <1>1 DEF Planning!TypeOK
    <3>2. Items(1..m, 0..4) \subseteq Planning!Told
      BY <1>2, <1>1 DEF Planning!Told, Items
    <3>3. r \in Seq(Planning!Told)
      BY <1>7, <3>2, SeqMonotonic
    <3> HIDE DEF r
    <3>4. Append(asked, r) \in Seq(Seq(Planning!Told))
      BY <3>1, <3>3, AppendProperties
    <3> QED BY <1>1, <1>6, <3>4
  <2>2. Len(answers') = Len(asked') /\ \A k \in DOMAIN answers' :
            (IF setup.agent \in Planning!Functions THEN answers[k] \in Planning!Says
             ELSE answers[k] \in {Planning!Failure} \cup Planning!TextsOf(MaxLines) \cup Planning!TextsOf(2))'
    <3>1. ASSUME NEW k \in 1..m
          PROVE  IF setup.agent \in Planning!Functions THEN answers[k] \in Planning!Says
                 ELSE answers[k] \in {Planning!Failure} \cup Planning!TextsOf(MaxLines) \cup Planning!TextsOf(2)
      <4>1. k \in DOMAIN answers
        BY <1>1, <1>5, LenProperties
      <4> QED BY <1>1, <4>1 DEF Planning!TypeOK
    <3>2. IF setup.agent \in Planning!Functions THEN answer \in Planning!Says
          ELSE answer \in {Planning!Failure} \cup Planning!TextsOf(MaxLines) \cup Planning!TextsOf(2)
      BY <1>4 DEF Answers
    <3>3. setup.agent \in Planning!Functions => \A a : a \in Planning!Says => a \in Planning!Says'
      BY <1>1 DEF Planning!Says
    <3>4. ASSUME NEW k \in 1..n
          PROVE  IF setup'.agent \in Planning!Functions THEN answers'[k] \in Planning!Says'
                 ELSE answers'[k] \in {Planning!Failure} \cup Planning!TextsOf(MaxLines) \cup Planning!TextsOf(2)
      <4>1. k = n \/ k \in 1..m
        BY <1>2
      <4> QED BY <1>1, <1>5, <3>1, <3>2, <3>3, <4>1
    <3> QED BY <1>5, <1>6, <3>4 DEF Planning!TextsOf, Planning!Lines, Planning!Failure,
      Planning!Functions
  <2>3. messages' \in Seq(1..MaxPlans)
    <3>1. messages \in Seq(1..MaxPlans)
      BY <1>1 DEF Planning!TypeOK
    <3>2. messages' = messages \/ messages' = Append(messages, n)
      BY <1>3
    <3> DEFINE S == 1..MaxPlans
    <3>3. n \in S /\ messages \in Seq(S)
      BY <1>6, <3>1
    <3> HIDE DEF S, n
    <3>4. Append(messages, n) \in Seq(S)
      BY <3>3, AppendProperties
    <3> QED BY <3>2, <3>3, <3>4 DEF S
  <2>4. done' \in Seq(Planning!Step)
    <3>1. done \in Seq(Planning!Step) /\ e \in Planning!Step
      BY <1>1, <1>6 DEF Planning!TypeOK, Planning!Step
    <3> HIDE DEF e
    <3> QED BY <1>8, <3>1, AppendProperties
  <2>5. outcome' \in Planning!Outcome /\ pc' \in {"plan", "act", "returned"}
    BY <1>1, <1>3, <1>4 DEF Planning!TypeOK, Planning!Ended, Planning!Failed,
      Planning!Outcome
  <2>6. setup' \in Planning!Setup
    BY <1>1 DEF Planning!TypeOK
  <2> QED BY <2>1, <2>2, <2>3, <2>4, <2>5, <2>6 DEF Planning!TypeOK
<1>17. \A k \in DOMAIN done : done[k].plan \in 1..m
  BY <1>1 DEF Planning!StoryInv
<1>18. \A k \in DOMAIN done' : done'[k].plan \in 1..n
  <2>1. DOMAIN done = 1..Len(done) /\ Len(done) \in Nat
    BY <1>2, LenProperties
  <2>2. e.plan = n
    OBVIOUS
  <2> HIDE DEF e
  <2>3. /\ DOMAIN Append(done, e) = 1..(Len(done) + 1)
        /\ Append(done, e)[Len(done) + 1] = e
        /\ \A k \in 1..Len(done) : Append(done, e)[k] = done[k]
    BY <1>2, AppendProperties
  <2>4. \A k \in 1..(Len(done) + 1) : k = Len(done) + 1 \/ k \in DOMAIN done
    BY <2>1
  <2>5. n \in 1..n /\ \A p \in 1..m : p \in 1..n
    BY <1>2
  <2> HIDE DEF n, m
  <2> QED BY <1>8, <1>17, <2>1, <2>2, <2>3, <2>4, <2>5
<1>19. \A i \in DOMAIN asked' : \A k \in DOMAIN asked'[i] : asked'[i][k].plan \in 1..(i - 1)
  <2>1. \A k \in DOMAIN r : r[k].plan \in 1..m
    <3> HIDE DEF r, m
    <3>1. \A k \in DOMAIN r : r[k] \in Items(1..m, 0..4)
      BY <1>7, LenProperties, ElementOfSeq
    <3> QED BY <3>1 DEF Items
  <2>2. \A i \in 1..m : \A k \in DOMAIN asked[i] : asked[i][k].plan \in 1..(i - 1)
    BY <1>1, <1>2 DEF Planning!StoryInv
  <2>3. ASSUME NEW i \in 1..n
        PROVE  \A k \in DOMAIN asked'[i] : asked'[i][k].plan \in 1..(i - 1)
    <3>1. CASE i = n
      <4>1. i - 1 = m
        BY <1>2, <3>1
      <4> HIDE DEF r
      <4> QED BY <1>6, <2>1, <3>1, <4>1
    <3>2. CASE i \in 1..m
      BY <1>6, <2>2, <3>2
    <3> QED BY <1>2, <3>1, <3>2
  <2> QED BY <1>6, <2>3
<1>20. setup.agent = "functions" => messages' = <<>>
  BY <1>1, <1>3 DEF Planning!StoryInv
<1>21. pc' # "returned" /\ setup.agent = "openai" => messages' = [k \in 1..n |-> k]
  <2>1. SUFFICES ASSUME pc' # "returned", setup.agent = "openai"
                 PROVE  messages' = [k \in 1..n |-> k]
    OBVIOUS
  <2>2. messages = [k \in 1..m |-> k]
    BY <1>1, <2>1 DEF Planning!StoryInv
  <2>3. messages' = Append(messages, n)
    BY <1>3, <1>4, <2>1 DEF Planning!Failed, Planning!Ended, Planning!Functions
  <2>4. Append([k \in 1..m |-> k], n) = [k \in 1..n |-> k]
    BY <1>2
  <2> QED BY <2>2, <2>3, <2>4
<1>22. pc' = "plan" => (Planning!Tells(Planning!Scratchpad)' /\ setup.agent # "openai")
  <2> SUFFICES ASSUME pc' = "plan" PROVE Planning!Tells(Planning!Scratchpad)' /\ setup.agent # "openai"
    OBVIOUS
  <2>1. /\ done' = Append(done, e) /\ setup.agent \notin Planning!Functions
    BY <1>3, <1>4 DEF Planning!Failed, Planning!Ended
  <2>2. /\ e \in Done({n}, Nat) /\ e \in Done(Nat, Nat) /\ e.place = 0 /\ e.plan = n
        /\ ~(e.place > 0)
    BY <1>6 DEF Done
  <2>3. r = MrklOf(done) /\ Planning!Tools(r) = Planning!AsTold(done) /\ Planning!AfterAnswers(r)
    BY <1>7, <1>13, <2>1 DEF Planning!Functions, Planning!Tells
  <2>4. Planning!Scratchpad' = MrklOf(done')
    BY <1>1, <2>1 DEF Planning!Scratchpad, Planning!constructMrklScratchPad, MrklOf,
      MrklStep
  <2> DEFINE q == MrklOf(done)
  <2>5. q \in Seq(Items(Nat, Nat)) /\ Planning!Tools(q) = Planning!AsTold(done) /\ Planning!AfterAnswers(q)
    <3>1. 0 \in Nat
      OBVIOUS
    <3> QED BY <1>2, <2>3, <3>1, MrklTyped
  <2> HIDE DEF q, e, n
  <2>6. n \in Nat /\ done \in Seq(Done(Nat, Nat)) /\ e \in Done({n}, Nat)
    BY <1>2, <1>6, <2>2
  <2>7. /\ Planning!Tools(MrklOf(Append(done, e))) = Planning!AsTold(Append(done, e))
        /\ Planning!AfterAnswers(MrklOf(Append(done, e)))
    BY <2>5, <2>6, MrklTells DEF q
  <2>14. Planning!Tools(Planning!Scratchpad') = Planning!AsTold(done') /\ Planning!AfterAnswers(Planning!Scratchpad')
    BY <2>1, <2>4, <2>7
  <2> QED BY <1>1, <2>1, <2>14 DEF Planning!Tells, Planning!Tools, Planning!AfterAnswers,
    Planning!Functions
<1>23. pc' = "act" =>
          /\ asked' # <<>> /\ (Planning!Parsed(answers[Len(asked)]).how = "act")'
          /\ \A k \in DOMAIN done' : done'[k].plan < Len(asked')
          /\ setup.agent # "functions" =>
                (asked[Len(asked)] =
                    IF setup.agent # "openai" THEN Planning!constructMrklScratchPad
                    ELSE Planning!FlattenSeq([k \in 1..(Len(asked) - 1) |-> Planning!WithAnswers(k)]))'
  <2> SUFFICES ASSUME pc' = "act"
               PROVE  /\ asked' # <<>> /\ (Planning!Parsed(answers[Len(asked)]).how = "act")'
                      /\ \A k \in DOMAIN done' : done'[k].plan < Len(asked')
                      /\ setup.agent # "functions" =>
                            (asked[Len(asked)] =
                                IF setup.agent # "openai" THEN Planning!constructMrklScratchPad
                                ELSE Planning!FlattenSeq([k \in 1..(Len(asked) - 1)
                                                              |-> Planning!WithAnswers(k)]))'
    OBVIOUS
  <2>1. read.how = "act" /\ done' = done
    BY <1>1, <1>3 DEF Planning!Failed, Planning!Ended
  <2>2. asked' # <<>>
    <3>1. Len(<<>>) = 0 /\ n # 0
      BY <1>2
    <3> HIDE DEF n
    <3> QED BY <1>6, <3>1
  <2>3. (Planning!Parsed(answers[Len(asked)]).how = "act")'
    <3>1. \A a : Planning!Parsed(a)' = Planning!Parsed(a)
      BY <1>1 DEF Planning!Parsed
    <3>2. answers'[Len(asked')] = answer
      BY <1>5, <1>6
    <3> QED BY <1>1, <2>1, <3>2 DEF Planning!Parsed
  <2>4. \A k \in DOMAIN done' : done'[k].plan < Len(asked')
    <3>1. \A p \in 1..m : p < n
      BY <1>2
    <3> HIDE DEF n, m
    <3> QED BY <1>6, <1>17, <2>1, <3>1
  <2>5. ASSUME setup.agent \notin {"functions", "openai"}
        PROVE  asked'[Len(asked')] = Planning!constructMrklScratchPad'
    <3>1. Planning!constructMrklScratchPad' = MrklOf(done)
      BY <2>1 DEF Planning!constructMrklScratchPad, MrklOf, MrklStep
    <3> QED BY <1>6, <1>7, <2>5, <3>1
  <2>6. ASSUME setup.agent = "openai"
        PROVE  asked'[Len(asked')]
                   = Planning!FlattenSeq([k \in 1..(Len(asked) - 1) |-> Planning!WithAnswers(k)])'
    <3>1. Planning!FlattenSeq([k \in 1..(Len(asked) - 1) |-> Planning!WithAnswers(k)])' = ChatOf(done', n - 1)
      BY <1>6 DEF ChatOf, Answered, Planning!WithAnswers
    <3>2. n - 1 = m
      BY <1>2
    <3> QED BY <1>6, <1>7, <2>1, <2>6, <3>1, <3>2
  <2> QED BY <1>1, <2>2, <2>3, <2>4, <2>5, <2>6
<1>24. Planning!StoryInv'
  <2> HIDE DEF n, m, r
  <2> QED BY <1>1, <1>6, <1>16, <1>18, <1>19, <1>20, <1>21, <1>22, <1>23
    DEF Planning!StoryInv
<1> QED BY <1>14, <1>15, <1>24

(* The tools keep it: the request was told of all but the steps they add.   *)
LEMMA StoryAct ==
    ASSUME MaxPlans \in Nat, MaxLines \in Nat, Planning!IInv, Planning!Act
    PROVE  Planning!StoryInv' /\ Planning!StepsAreTold' /\ Planning!CallsAreAnswered'
<1> DEFINE m == Len(asked)
           r == asked[m]
           read == Planning!Parsed(answers[m])
<1>1. /\ Planning!StoryInv /\ Planning!StepsAreTold /\ Planning!CallsAreAnswered /\ pc = "act" /\ Planning!TypeOK
      /\ UNCHANGED <<setup, asked, answers, messages>>
      /\ outcome.how = "none" /\ answers \in Seq(Answers) /\ Planning!FailureEnds
  BY DEF Planning!IInv, Planning!Act, Planning!StoryInv, Planning!PlanInv, Answers
<1>2. /\ m \in Nat /\ DOMAIN asked = 1..m /\ asked # <<>>
      /\ done \in Seq(Done(1..m, 0..4)) /\ done \in Seq(Done(Nat, Nat))
  BY <1>1, StoryIs DEF Planning!StoryInv
<1>3. m \in 1..m /\ m \in 1..MaxPlans /\ Len(answers) = m /\ answers[m] \in Answers
      /\ DOMAIN answers = 1..m
  <2>1. m # 0 /\ asked \in Seq(Seq(Planning!Told)) /\ m <= MaxPlans /\ Len(answers) = m
    BY <1>1, <1>2, EmptySeq DEF Planning!TypeOK
  <2>2. m \in 1..m /\ m \in 1..MaxPlans
    BY <1>2, <2>1
  <2> QED BY <1>1, <2>1, <2>2, LenProperties, ElementOfSeq
<1>4. /\ read.how = "act" /\ read.actions \in 0..4
      /\ setup.agent \notin Planning!Functions => read.actions = 1
      /\ \A c \in Planning!CallLists : answers[m] = <<c>> /\ setup.agent \in Planning!Functions
                                       => c # <<>> /\ read.actions = Len(c)
  <2>1. read.how = "act"
    BY <1>1 DEF Planning!StoryInv
  <2> QED BY <1>3, <2>1, ReadIs
<1>5. \A k \in DOMAIN done : done[k].plan \in 1..(m - 1)
  <2>1. \A k \in DOMAIN done : done[k].plan \in 1..m /\ done[k].plan < m
    BY <1>1 DEF Planning!StoryInv
  <2> QED BY <1>2, <2>1
<1> DEFINE new == [k \in 1..read.actions |-> [plan |-> m, place |-> k]]
<1>6. \/ Planning!Failed /\ done' = done
      \/ done' = done \o new /\ pc' = "plan" /\ outcome' = outcome
  BY DEF Planning!Act
<1>7. /\ new \in Seq(Done({m}, Nat)) /\ new \in Seq(Planning!Step) /\ Len(new) = read.actions
      /\ DOMAIN new = 1..Len(new)
      /\ \A k \in 1..Len(new) : new[k].place = k /\ new[k].plan = m
  <2> DEFINE a == read.actions
  <2>1. a \in 0..4
    BY <1>4
  <2> HIDE DEF read, a
  <2>2. \A k \in 1..a : /\ [plan |-> m, place |-> k] \in Done({m}, Nat)
                        /\ [plan |-> m, place |-> k] \in Planning!Step
    BY <1>3, <2>1 DEF Done, Planning!Step
  <2> DEFINE f == [k \in 1..a |-> [plan |-> m, place |-> k]]
             S == Done({m}, Nat)
  <2>3. /\ f \in Seq(S) /\ f \in Seq(Planning!Step) /\ Len(f) = a
        /\ DOMAIN f = 1..a /\ \A k \in 1..a : f[k].place = k /\ f[k].plan = m
    <3>1. a \in Nat /\ DOMAIN f = 1..a
      BY <2>1
    <3>2. \A k \in 1..a : /\ f[k] \in S /\ f[k] \in Planning!Step
                          /\ f[k].place = k /\ f[k].plan = m
      BY <2>2
    <3>3. f = [k \in 1..a |-> f[k]]
      OBVIOUS
    <3> HIDE DEF f, S
    <3>4. f \in [1..a -> S] /\ f \in [1..a -> Planning!Step]
      BY <3>2, <3>3
    <3>5. f \in Seq(S) /\ f \in Seq(Planning!Step)
      BY <3>1, <3>4
    <3>6. Len(f) = a
      BY <3>1, <3>5, LenProperties
    <3> QED BY <3>1, <3>2, <3>5, <3>6
  <2>4. f = new
    BY DEF a
  <2> HIDE DEF f, new
  <2>5. Len(new) = a
    BY <2>3, <2>4
  <2> HIDE DEF m
  <2> QED BY <2>3, <2>4, <2>5 DEF a, S
<1> HIDE DEF new
<1>8. PICK more \in Seq(Done({m}, Nat)) : done' = done \o more
  <2>1. <<>> \in Seq(Done({m}, Nat)) /\ done \o <<>> = done
    BY <1>2, EmptySeq, ConcatEmptySeq
  <2> QED BY <1>6, <1>7, <2>1
<1>9. ASSUME NEW i \in 1..m
      PROVE  /\ setup.agent = "functions" => asked[i] = <<>>
             /\ setup.agent # "functions" =>
                   /\ Planning!Tools(asked[i]) = Planning!AsTold(Planning!Those(done', Planning!Steps(1..(i - 1))))
                   /\ Planning!AfterAnswers(asked[i])
             /\ setup.agent = "openai" => AnsweredBy(asked[i], answers)
  <2>1. i \in 1..Len(asked) /\ m \in Nat /\ m >= i
    BY <1>2
  <2>2. \A p \in 1..(i - 1) : answers[p] = answers[p]
    OBVIOUS
  <2> HIDE DEF m
  <2>3. /\ setup.agent = "functions" => asked[i] = <<>>
        /\ setup.agent # "functions" =>
              /\ Planning!Tools(asked[i]) = Planning!AsTold(Planning!Those(done \o more, Planning!Steps(1..(i - 1))))
              /\ Planning!AfterAnswers(asked[i])
        /\ setup.agent = "openai" => AnsweredBy(asked[i], answers)
    BY <1>1, <2>1, <2>2, ToldStill
  <2> QED BY <1>8, <2>3
<1>10. Planning!StepsAreTold'
  <2>1. \A i \in DOMAIN asked' :
           IF setup'.agent = "functions" THEN asked'[i] = <<>>
           ELSE /\ Planning!Tools(asked'[i]) = Planning!AsTold(Planning!Those(done', Planning!Steps(1..(i - 1))))
                /\ Planning!AfterAnswers(asked'[i])
    BY <1>1, <1>2, <1>9
  <2> QED BY <2>1 DEF Planning!StepsAreTold
<1>11. Planning!CallsAreAnswered'
  <2>1. ASSUME setup.agent = "openai", NEW i \in 1..m
        PROVE  AnsweredBy(asked'[i], answers')
    BY <1>1, <1>9, <2>1
  <2> QED BY <1>1, <1>2, <2>1 DEF Planning!CallsAreAnswered, Planning!CallsAnswered,
    AnsweredBy
<1>12. done' \in Seq(Planning!Step)
  BY <1>1, <1>6, <1>7, ConcatProperties DEF Planning!TypeOK
<1>13. Planning!TypeOK'
  <2>1. outcome' \in Planning!Outcome /\ pc' \in {"plan", "act", "returned"}
    BY <1>1, <1>6 DEF Planning!TypeOK, Planning!Failed, Planning!Ended, Planning!Outcome
  <2>2. /\ setup' \in Planning!Setup /\ asked' \in Seq(Seq(Planning!Told)) /\ Len(asked') <= MaxPlans
        /\ Len(answers') = Len(asked') /\ messages' \in Seq(1..MaxPlans)
    BY <1>1 DEF Planning!TypeOK
  <2>3. Planning!Says' = Planning!Says
    BY <1>1 DEF Planning!Says, Planning!Texts
  <2>4. ASSUME NEW k \in DOMAIN answers
        PROVE  IF setup'.agent \in Planning!Functions THEN answers'[k] \in Planning!Says'
               ELSE answers'[k] \in {Planning!Failure} \cup Planning!TextsOf(MaxLines) \cup Planning!TextsOf(2)
    BY <1>1, <2>3 DEF Planning!TypeOK
  <2> QED BY <1>1, <1>12, <2>1, <2>2, <2>4
        DEF Planning!TypeOK, Planning!TextsOf, Planning!Lines, Planning!Failure,
          Planning!Functions
<1>14. \A k \in DOMAIN done' : done'[k].plan \in 1..m
  <2>1. \A k \in DOMAIN done : done[k].plan \in 1..m
    BY <1>1 DEF Planning!StoryInv
  <2> DEFINE P == 1..m
             S == Done(P, Nat)
  <2>2. done \in Seq(S) /\ more \in Seq(S)
    <3>1. Done(1..m, 0..4) \subseteq S /\ Done({m}, Nat) \subseteq S
      BY <1>3 DEF Done
    <3> HIDE DEF S, P
    <3> QED BY <1>2, <1>8, <3>1, SeqMonotonic
  <2> HIDE DEF S, P
  <2>3. done' \in Seq(S)
    BY <1>8, <2>2, ConcatProperties
  <2>4. \A k \in DOMAIN done' : done'[k] \in S
    BY <2>3, LenProperties, ElementOfSeq
  <2> QED BY <2>4 DEF S, P, Done
<1>15. pc' # "returned" => pc' = "plan" /\ done' = done \o new
  BY <1>6 DEF Planning!Failed, Planning!Ended
<1>16. Planning!Those(done, Planning!Steps(1..(m - 1))) = done
  <2> DEFINE plans == 1..(m - 1)
  <2>1. plans \subseteq plans /\ 0..4 \subseteq Nat
    OBVIOUS
  <2> DEFINE P == 1..m
             Q == 0..4
  <2>2. done \in Seq(Done(P, Q)) /\ Q \subseteq Nat
        /\ \A k \in DOMAIN done : done[k].plan \in plans
    BY <1>2, <1>5
  <2> HIDE DEF P, Q, plans
  <2>3. done \in Seq(Done(plans, Nat))
    BY <2>2, Within
  <2>4. Done(plans, Nat) \subseteq Planning!Steps(plans)
    BY DEF Done, Planning!Steps
  <2>5. Planning!Those(done, Planning!Steps(plans)) = done
    BY <2>3, <2>4, ThoseAllOrNone
  <2> QED BY <2>5 DEF plans
<1>17. setup.agent # "functions" => Planning!Tools(r) = Planning!AsTold(done) /\ Planning!AfterAnswers(r)
  <2>1. setup.agent # "functions" =>
            /\ Planning!Tools(asked[m]) = Planning!AsTold(Planning!Those(done, Planning!Steps(1..(m - 1))))
            /\ Planning!AfterAnswers(asked[m])
    BY <1>1, <1>2, <1>3 DEF Planning!StepsAreTold
  <2> QED BY <1>16, <2>1
<1>18. ASSUME pc' = "plan", setup.agent \notin {"functions", "openai"}
       PROVE  Planning!Tools(Planning!Scratchpad') = Planning!AsTold(done') /\ Planning!AfterAnswers(Planning!Scratchpad')
  <2> DEFINE e == [plan |-> m, place |-> 1]
  <2>1. done' = done \o new /\ setup.agent \notin Planning!Functions
    BY <1>15, <1>18 DEF Planning!Functions
  <2>2. e \in Done({m}, Nat) /\ e \in Done(Nat, Nat)
    BY <1>2 DEF Done
  <2>3. new = <<e>>
    <3>1. read.actions = 1
      BY <1>4, <2>1
    <3> HIDE DEF read
    <3> QED BY <3>1 DEF new
  <2> HIDE DEF e
  <2>4. done' = Append(done, e)
    BY <1>2, <2>1, <2>2, <2>3, AppendIsConcat
  <2>5. r = MrklOf(done)
    BY <1>1, <1>18, PadsAre DEF Planning!StoryInv
  <2>6. Planning!Scratchpad' = MrklOf(done')
    BY <1>1, <2>1 DEF Planning!Scratchpad, Planning!constructMrklScratchPad, MrklOf,
      MrklStep
  <2>7. Planning!Tools(MrklOf(done)) = Planning!AsTold(done) /\ Planning!AfterAnswers(MrklOf(done))
    BY <1>17, <1>18, <2>5
  <2>8. m \in Nat /\ done \in Seq(Done(Nat, Nat))
    BY <1>2
  <2> HIDE DEF m
  <2>9. /\ Planning!Tools(MrklOf(Append(done, e))) = Planning!AsTold(Append(done, e))
        /\ Planning!AfterAnswers(MrklOf(Append(done, e)))
    BY <2>2, <2>7, <2>8, MrklTells
  <2> QED BY <2>4, <2>6, <2>9
<1>19. ASSUME pc' = "plan", setup.agent = "openai"
       PROVE  /\ Planning!Tools(Planning!Scratchpad') = Planning!AsTold(done') /\ Planning!AfterAnswers(Planning!Scratchpad')
              /\ AnsweredBy(Planning!Scratchpad', answers') /\ done' # <<>>
  <2>1. done' = done \o new /\ setup.agent \in Planning!Functions
    BY <1>15, <1>19 DEF Planning!Functions
  <2>2. ASSUME NEW p \in 1..m PROVE \E c \in Planning!CallLists : answers[p] = <<c>>
    <3>1. answers[p] \in Planning!Says
      BY <1>1, <1>3, <2>1, <2>2 DEF Planning!TypeOK
    <3>2. answers[p] # Planning!Failure
      <4>1. Planning!Parsed(answers[p]).how # "error"
        BY <1>1, <1>3, <2>2 DEF Planning!FailureEnds
      <4> QED BY <4>1 DEF Planning!Parsed, Planning!Read
    <3> QED BY <1>19, <3>1, <3>2, <2>1 DEF Planning!Says
  <2>3. PICK c \in Planning!CallLists : answers[m] = <<c>>
    BY <1>3, <2>2
  <2>4. c # <<>> /\ read.actions = Len(c) /\ Len(c) # 0 /\ DOMAIN c = 1..Len(c)
    BY <1>4, <2>1, <2>3, CallListIs
  <2>5. answers[m][1] = c
    BY <2>3
  <2>6. \A p \in 1..m : DOMAIN answers[p][1] \subseteq Nat \ {0}
    <3>1. ASSUME NEW p \in 1..m PROVE DOMAIN answers[p][1] \subseteq Nat \ {0}
      <4>1. PICK d \in Planning!CallLists : answers[p] = <<d>>
        BY <2>2
      <4>2. answers[p][1] = d /\ DOMAIN d = 1..Len(d) /\ Len(d) \in Nat
        BY <4>1, CallListIs
      <4> QED BY <4>2
    <3> QED BY <3>1
  <2>7. done \in Seq(Done(1..(m - 1), Nat))
    <3> DEFINE plans == 1..(m - 1)
               P == 1..m
               Q == 0..4
    <3>1. done \in Seq(Done(P, Q)) /\ Q \subseteq Nat
          /\ \A k \in DOMAIN done : done[k].plan \in plans
      BY <1>2, <1>5
    <3> HIDE DEF P, Q, plans
    <3>2. done \in Seq(Done(plans, Nat))
      BY <3>1, Within
    <3> QED BY <3>2 DEF plans
  <2>8. r = ChatOf(done, m - 1)
    BY <1>1, <1>19, PadsAre DEF Planning!StoryInv
  <2>9. done' # <<>>
    <3>1. Len(done') = Len(done) + Len(new) /\ Len(done) \in Nat /\ Len(new) \in Nat
      <4>1. done \in Seq(Planning!Step) /\ new \in Seq(Planning!Step)
        BY <1>1, <1>7 DEF Planning!TypeOK
      <4>2. /\ Len(done) \in Nat /\ Len(new) \in Nat
            /\ Len(done \o new) = Len(done) + Len(new)
        BY <4>1, LenProperties, ConcatProperties
      <4> QED BY <2>1, <4>2
    <3>2. Len(new) # 0
      BY <1>7, <2>4
    <3>3. Len(<<>>) = 0
      OBVIOUS
    <3> QED BY <3>1, <3>2, <3>3
  <2>10. Planning!Scratchpad' = ChatOf(done', m)
    <3>1. messages' = [k \in 1..m |-> k]
      BY <1>1, <1>19 DEF Planning!StoryInv
    <3>2. [k \in DOMAIN messages' |-> Answered(done', messages'[k])]
              = [k \in 1..m |-> Answered(done', k)]
      BY <3>1
    <3>3. Planning!Scratchpad' = Planning!FlattenSeq([k \in DOMAIN messages' |->
                                                          Answered(done', messages'[k])])
      BY <1>1, <2>1, <2>9 DEF Planning!Scratchpad, Planning!constructScratchPad,
        Planning!WithAnswers, Answered
    <3> QED BY <3>2, <3>3 DEF ChatOf
  <2>11. ChatOf(done \o new, m) = r \o (<<Planning!Item("model", m, 0)>> \o Planning!AsTold(new))
    <3>1. m \in Nat /\ m # 0 /\ new \in Seq(Done({m}, Nat))
      BY <1>2, <1>3, <1>7
    <3> HIDE DEF m
    <3>2. ChatOf(done \o new, m)
              = ChatOf(done, m - 1) \o (<<Planning!Item("model", m, 0)>> \o Planning!AsTold(new))
      BY <2>7, <3>1, ChatMore
    <3> QED BY <2>8, <3>2
  <2>12. r \in Seq(Items(Nat, Nat)) /\ r \in Seq(Items(1..(m - 1), Nat))
    BY <1>1, <1>3, StoryIs
  <2>14. /\ Planning!Tools(r) = Planning!AsTold(done) /\ Planning!AfterAnswers(r) /\ AnsweredBy(r, answers)
    BY <1>3, <1>9, <1>17, <1>19
  <2>15. /\ m \in Nat /\ done \in Seq(Done(Nat, Nat)) /\ new \in Seq(Done({m}, Nat))
         /\ \A k \in 1..Len(new) : new[k].place = k
         /\ DOMAIN answers[m][1] \subseteq 1..Len(new)
    BY <1>2, <1>7, <2>4, <2>5
  <2>17. r \in Seq(Items(Nat, Nat)) /\ Planning!Tools(r) = Planning!AsTold(done) /\ Planning!AfterAnswers(r)
    BY <2>12, <2>14
  <2>18. m \in Nat /\ done \in Seq(Done(Nat, Nat)) /\ new \in Seq(Done({m}, Nat))
    BY <2>15
  <2> HIDE DEF r, m
  <2>21. /\ Planning!Tools(r \o (<<Planning!Item("model", m, 0)>> \o Planning!AsTold(new))) = Planning!AsTold(done \o new)
         /\ Planning!AfterAnswers(r \o (<<Planning!Item("model", m, 0)>> \o Planning!AsTold(new)))
    BY <2>17, <2>18, ChatTells
  <2>22. r \in Seq(Items(1..(m - 1), Nat)) /\ AnsweredBy(r, answers)
    BY <2>12, <2>14
  <2>23. AnsweredBy(r \o (<<Planning!Item("model", m, 0)>> \o Planning!AsTold(new)), answers)
    BY <2>6, <2>15, <2>22, AnsweredOn
  <2> QED BY <1>1, <2>1, <2>9, <2>10, <2>11, <2>21, <2>23
<1>20. pc' = "plan" => /\ setup.agent # "functions" => Planning!Tells(Planning!Scratchpad)'
                       /\ setup.agent = "openai" => done' # <<>>
  <2>1. ASSUME pc' = "plan", setup.agent \notin {"functions", "openai"}
        PROVE  Planning!Tells(Planning!Scratchpad)'
    BY <1>1, <1>18, <2>1 DEF Planning!Tells, Planning!Tools, Planning!AfterAnswers
  <2>2. ASSUME pc' = "plan", setup.agent = "openai"
        PROVE  Planning!Tells(Planning!Scratchpad)' /\ done' # <<>>
    BY <1>1, <1>19, <2>2 DEF Planning!Tells, Planning!Tools, Planning!AfterAnswers,
      Planning!CallsAnswered, AnsweredBy
  <2> QED BY <2>1, <2>2
<1>21. Planning!StoryInv'
  <2>1. \A k \in DOMAIN done' : done'[k].plan \in 1..Len(asked')
    BY <1>1, <1>14
  <2>2. \A i \in DOMAIN asked' : \A k \in DOMAIN asked'[i] : asked'[i][k].plan \in 1..(i - 1)
    BY <1>1 DEF Planning!StoryInv
  <2>3. /\ setup'.agent = "functions" => messages' = <<>>
        /\ pc' # "returned" /\ setup'.agent = "openai" =>
              messages' = [k \in 1..Len(asked') |-> k]
    BY <1>1 DEF Planning!StoryInv
  <2>4. pc' # "act" /\ asked' # <<>>
    BY <1>1, <1>2, <1>6 DEF Planning!Failed, Planning!Ended
  <2> QED BY <1>1, <1>13, <1>20, <2>1, <2>2, <2>3, <2>4 DEF Planning!StoryInv
<1> QED BY <1>10, <1>11, <1>21

(* Nothing is told before the first request.                                *)
LEMMA StoryInit ==
    ASSUME MaxPlans \in Nat, Planning!Init
    PROVE  Planning!StoryInv /\ Planning!StepsAreTold /\ Planning!CallsAreAnswered
<1>1. /\ asked = <<>> /\ answers = <<>> /\ messages = <<>> /\ done = <<>> /\ pc = "plan"
      /\ outcome = [how |-> "none", from |-> 0] /\ setup \in Planning!Setup
  BY DEF Planning!Init
<1>2. /\ DOMAIN asked = {} /\ Len(asked) = 0 /\ DOMAIN done = {} /\ DOMAIN answers = {}
      /\ Len(answers) = 0
  BY <1>1
<1>3. Planning!TypeOK
  <2>1. <<>> \in Seq(Seq(Planning!Told)) /\ <<>> \in Seq(1..MaxPlans) /\ <<>> \in Seq(Planning!Step)
    BY EmptySeq
  <2> QED BY <1>1, <1>2, <2>1 DEF Planning!TypeOK, Planning!Outcome
<1>4. Planning!Scratchpad = <<>>
  <2>1. <<>> \in Seq(Nat)
    BY EmptySeq
  <2>2. Planning!FlattenSeq(<<>>) = <<>>
    BY <2>1, FlatFew
  <2>3. Planning!constructMrklScratchPad = MrklOf(<<>>)
    BY <1>1, PadsAre
  <2>4. MrklOf(<<>>) = <<>>
    <3>1. [k \in DOMAIN <<>> |-> MrklStep(<<>>[k])] = <<>>
      OBVIOUS
    <3> QED BY <2>2, <3>1 DEF MrklOf
  <2> QED BY <1>1, <2>3, <2>4 DEF Planning!Scratchpad, Planning!constructScratchPad
<1>5. Planning!Tells(<<>>)
  <2>1. Planning!Tools(<<>>) = <<>>
    BY ToolsOf
  <2>2. Planning!AsTold(<<>>) = <<>>
    BY DEF Planning!AsTold
  <2> QED BY <1>1, <2>1, <2>2 DEF Planning!Tells, Planning!AfterAnswers,
    Planning!CallsAnswered
<1>6. messages = [k \in 1..Len(asked) |-> k]
  BY <1>1, <1>2
<1>7. Planning!StoryInv
  BY <1>1, <1>2, <1>3, <1>4, <1>5, <1>6 DEF Planning!StoryInv
<1> QED BY <1>2, <1>7 DEF Planning!StepsAreTold, Planning!CallsAreAnswered

(* Giving up, or doing nothing, tells nothing more.                         *)
LEMMA StoryRest ==
    ASSUME Planning!IInv, Planning!GiveUp \/ UNCHANGED Planning!vars
    PROVE  Planning!StoryInv' /\ Planning!StepsAreTold' /\ Planning!CallsAreAnswered'
<1>1. /\ UNCHANGED <<setup, asked, answers, messages, done>>
      /\ \/ pc' = "returned" /\ outcome' = [how |-> "unfinished", from |-> 0]
         \/ pc' = pc /\ outcome' = outcome
  BY DEF Planning!GiveUp, Planning!Ended, Planning!vars
<1>2. /\ Planning!StoryInv /\ Planning!TypeOK /\ Planning!StepsAreTold /\ Planning!CallsAreAnswered
  BY DEF Planning!IInv, Planning!StoryInv
<1>3. Planning!TypeOK'
  <2>1. outcome' \in Planning!Outcome /\ pc' \in {"plan", "act", "returned"}
    BY <1>1, <1>2 DEF Planning!TypeOK, Planning!Outcome
  <2>2. Planning!Says' = Planning!Says
    BY <1>1 DEF Planning!Says, Planning!Texts
  <2>3. ASSUME NEW k \in DOMAIN answers
        PROVE  IF setup'.agent \in Planning!Functions THEN answers'[k] \in Planning!Says'
               ELSE answers'[k] \in {Planning!Failure} \cup Planning!TextsOf(MaxLines) \cup Planning!TextsOf(2)
    BY <1>1, <1>2, <2>2 DEF Planning!TypeOK
  <2>4. /\ setup' \in Planning!Setup /\ asked' \in Seq(Seq(Planning!Told)) /\ Len(asked') <= MaxPlans
        /\ Len(answers') = Len(asked') /\ messages' \in Seq(1..MaxPlans) /\ done' \in Seq(Planning!Step)
    BY <1>1, <1>2 DEF Planning!TypeOK
  <2> QED BY <1>1, <2>1, <2>3, <2>4 DEF Planning!TypeOK, Planning!TextsOf, Planning!Lines,
    Planning!Failure, Planning!Functions
<1>4. /\ Planning!constructMrklScratchPad' = Planning!constructMrklScratchPad
      /\ Planning!FlattenSeq([k \in 1..(Len(asked) - 1) |-> Planning!WithAnswers(k)])'
                      = Planning!FlattenSeq([k \in 1..(Len(asked) - 1) |-> Planning!WithAnswers(k)])
      /\ Planning!constructScratchPad' = Planning!constructScratchPad
  BY <1>1 DEF Planning!constructMrklScratchPad, Planning!constructScratchPad,
    Planning!WithAnswers
<1>5. Planning!Scratchpad' = Planning!Scratchpad
  BY <1>1, <1>4 DEF Planning!Scratchpad
<1>6. pc' = "plan" => /\ setup.agent # "functions" => Planning!Tells(Planning!Scratchpad)'
                      /\ setup.agent = "openai" => (done' = <<>> <=> asked' = <<>>)
  <2>1. pc' = "plan" => /\ setup.agent # "functions" => Planning!Tells(Planning!Scratchpad)
                        /\ setup.agent = "openai" => (done = <<>> <=> asked = <<>>)
    BY <1>1, <1>2 DEF Planning!StoryInv
  <2>2. Planning!Tells(Planning!Scratchpad) => Planning!Tells(Planning!Scratchpad)'
    BY <1>1, <1>5 DEF Planning!Tells, Planning!Tools, Planning!AfterAnswers,
      Planning!CallsAnswered
  <2> QED BY <1>1, <2>1, <2>2
<1>7. pc' = "act" =>
          /\ asked' # <<>> /\ (Planning!Parsed(answers[Len(asked)]).how = "act")'
          /\ \A k \in DOMAIN done' : done'[k].plan < Len(asked')
          /\ setup.agent # "functions" =>
                (asked[Len(asked)] =
                    IF setup.agent # "openai" THEN Planning!constructMrklScratchPad
                    ELSE Planning!FlattenSeq([k \in 1..(Len(asked) - 1) |-> Planning!WithAnswers(k)]))'
  <2>1. (Planning!Parsed(answers[Len(asked)]).how = "act")' <=> Planning!Parsed(answers[Len(asked)]).how = "act"
    BY <1>1 DEF Planning!Parsed
  <2> QED BY <1>1, <1>2, <1>4, <2>1 DEF Planning!StoryInv
<1>8. Planning!StoryInv'
  <2>1. /\ \A k \in DOMAIN done' : done'[k].plan \in 1..Len(asked')
        /\ \A n \in DOMAIN asked' :
              \A k \in DOMAIN asked'[n] : asked'[n][k].plan \in 1..(n - 1)
        /\ setup'.agent = "functions" => messages' = <<>>
        /\ pc' # "returned" /\ setup'.agent = "openai" =>
              messages' = [k \in 1..Len(asked') |-> k]
    BY <1>1, <1>2 DEF Planning!StoryInv
  <2> QED BY <1>1, <1>3, <1>6, <1>7, <2>1 DEF Planning!StoryInv
<1> QED BY <1>1, <1>2, <1>8 DEF Planning!StepsAreTold, Planning!CallsAreAnswered,
  Planning!CallsAnswered

(* The agent begins with its invariant, and every step keeps it.            *)
LEMMA PlansBegin == ASSUME MaxPlans \in Nat, Planning!Init PROVE Planning!IInv
BY StoryInit, EndsInit DEF Planning!IInv, Ends

(* Every step of the agent keeps it.                                        *)
LEMMA PlansKept ==
    ASSUME MaxPlans \in Nat, MaxLines \in Nat, Planning!IInv,
           [Planning!Next]_(Planning!vars)
    PROVE  Planning!IInv'
<1>1. Ends'
  BY EndsSteps DEF Planning!IInv, Ends
<1>2. Planning!StoryInv' /\ Planning!StepsAreTold' /\ Planning!CallsAreAnswered'
  BY StoryPlan, StoryAct, StoryRest DEF Planning!Next
<1> QED BY <1>1, <1>2 DEF Planning!IInv, Ends

-----------------------------------------------------------------------------
(* Each request of an agent tells every step so far, once and in order, each *)
(* after the answer of the model that it is of; with functions every call of *)
(* a message is answered before the next one. Over another model than openai *)
(* none is told.                                                             *)
THEOREM AgentTellsItsSteps ==
    ASSUME MaxPlans \in Nat, MaxLines \in Nat
    PROVE  Planning!Spec => [](Planning!StepsAreTold /\ Planning!CallsAreAnswered)
<1>1. Planning!Init => Planning!IInv
  BY PlansBegin
<1>2. Planning!IInv /\ [Planning!Next]_(Planning!vars) => Planning!IInv'
  BY PlansKept
<1>3. Planning!IInv => Planning!StepsAreTold /\ Planning!CallsAreAnswered
  BY DEF Planning!IInv
<1> QED BY <1>1, <1>2, <1>3, PTL DEF Planning!Spec

(* What an agent returns is the last part of its last answer that is marked  *)
(* as final, and a failure of its model ends the call with an error.         *)
THEOREM AgentReturnsItsFinal ==
    ASSUME MaxPlans \in Nat, MaxLines \in Nat
    PROVE  Planning!Spec => [](Planning!FinalIsReturned /\ Planning!FailureEnds)
<1>1. Planning!Init => Planning!IInv
  BY PlansBegin
<1>2. Planning!IInv /\ [Planning!Next]_(Planning!vars) => Planning!IInv'
  BY PlansKept
<1>3. Planning!IInv => Planning!FinalIsReturned /\ Planning!FailureEnds
  BY DEF Planning!IInv
<1> QED BY <1>1, <1>2, <1>3, PTL DEF Planning!Spec

-----------------------------------------------------------------------------
(* The chains over documents.                                              *)

(* Sets are counted the same wherever that is instantiated.                *)
LEMMA SameCount == \A S : Docs!Cardinality(S) = Cardinality(S)
BY DEF Docs!Cardinality, Cardinality

(* The documents are a list.                                               *)
LEMMA DocsAre ==
    ASSUME NEW d \in Docs!DocumentLists
    PROVE  \E n \in Nat : d \in [1..n -> Docs!Document] /\ DOMAIN d = 1..n /\ Len(d) = n
<1>1. PICK n \in 0..MaxDocs : d \in [1..n -> Docs!Document]
  BY DEF Docs!DocumentLists
<1>2. n \in Nat /\ d \in Seq(Docs!Document)
  BY <1>1
<1> QED BY <1>1, <1>2, LenProperties

(* There is an answer to each request, to come or heard.                   *)
LEMMA SequencesAre ==
    ASSUME Docs!SequenceInv
    PROVE  /\ Len(asked) \in Nat /\ Len(answers) = Len(asked)
           /\ DOMAIN asked = 1..Len(asked) /\ DOMAIN answers = 1..Len(asked)
           /\ asked \in Seq(Docs!Questions) /\ answers \in Seq(Docs!Answer)
           /\ \A n \in DOMAIN asked : asked[n] \in Docs!Questions /\ answers[n] \in Docs!Answer
BY LenProperties, ElementOfSeq DEF Docs!SequenceInv

(* The requests of a kind can be counted.                                  *)
LEMMA Counted ==
    ASSUME Docs!SequenceInv, NEW S \in SUBSET (DOMAIN asked)
    PROVE  Cardinality(S) \in Nat
<1>1. Len(asked) \in Nat /\ DOMAIN asked = 1..Len(asked)
  BY SequencesAre
<1>2. IsFiniteSet(1..Len(asked))
  BY <1>1, FS_Interval
<1> QED BY <1>1, <1>2, FS_Subset, FS_CardinalityType

(* What the model may say.                                                 *)
LEMMA SayableIs ==
    ASSUME NEW request, NEW answer \in Docs!Says(request)
    PROVE  answer \in Docs!Answer /\ answer.how \in {"failed", "text", "scored", "unscored"}
BY DEF Docs!Says, Docs!Plain, Docs!Answer, Docs!Hows

(* An answer is heard, the others stay.                                    *)
LEMMA ReplyHeard ==
    ASSUME Docs!SequenceInv, NEW n \in DOMAIN asked, NEW answer \in Docs!Answer
    PROVE  LET heard == [answers EXCEPT ![n] = answer]
           IN /\ heard \in Seq(Docs!Answer) /\ Len(heard) = Len(asked)
              /\ DOMAIN heard = DOMAIN answers /\ heard[n] = answer
              /\ \A k \in DOMAIN answers : k # n => heard[k] = answers[k]
BY SequencesAre, ExceptSeq, LenProperties

(* A request is added, with an answer to come.                             *)
LEMMA Added ==
    ASSUME Docs!SequenceInv, NEW heard \in Seq(Docs!Answer), Len(heard) = Len(asked),
           NEW request \in Docs!Questions,
           asked' = Append(asked, request), answers' = Append(heard, Docs!Pending)
    PROVE  /\ asked' \in Seq(Docs!Questions) /\ answers' \in Seq(Docs!Answer)
           /\ Len(answers') = Len(asked')
           /\ Len(asked') = Len(asked) + 1
           /\ DOMAIN asked' = 1..Len(asked') /\ DOMAIN answers' = 1..Len(asked')
           /\ asked'[Len(asked')] = request /\ answers'[Len(asked')].how = "pending"
           /\ \A n \in DOMAIN asked : asked'[n] = asked[n]
           /\ \A n \in DOMAIN heard : answers'[n] = heard[n]
<1>1. Docs!Pending \in Docs!Answer /\ Docs!Pending.how = "pending"
  BY DEF Docs!Pending, Docs!Answer, Docs!Hows
<1>2. /\ asked \in Seq(Docs!Questions) /\ Len(asked) \in Nat /\ DOMAIN asked = 1..Len(asked)
      /\ DOMAIN heard = 1..Len(asked)
  BY SequencesAre, LenProperties
<1>3. /\ asked' \in Seq(Docs!Questions) /\ Len(asked') = Len(asked) + 1
      /\ asked'[Len(asked) + 1] = request /\ \A n \in 1..Len(asked) : asked'[n] = asked[n]
  BY <1>2, AppendProperties
<1>4. /\ answers' \in Seq(Docs!Answer) /\ Len(answers') = Len(asked) + 1
      /\ answers'[Len(asked) + 1] = Docs!Pending
      /\ \A n \in 1..Len(asked) : answers'[n] = heard[n]
  BY <1>1, <1>2, AppendProperties
<1> QED BY <1>1, <1>2, <1>3, <1>4, LenProperties

(* A call begins with the invariant.                                       *)
LEMMA DocumentsInit == ASSUME MaxDocs \in Nat, Docs!Init PROVE Docs!IInv
<1>1. docs \in Docs!DocumentLists
  <2>1. <<>> \in [1..0 -> Docs!Document] /\ 0 \in 0..MaxDocs
    OBVIOUS
  <2>2. <<>> \in Docs!DocumentLists
    BY <2>1 DEF Docs!DocumentLists
  <2> QED BY <2>2 DEF Docs!Init
<1>2. /\ setup \in Docs!Setup /\ Docs!Possible(setup)
      /\ asked = <<>> /\ answers = <<>> /\ kept = <<>> /\ outcome.how = "none"
      /\ pc = IF setup.over = "conversation" THEN "begin"
              ELSE IF setup.over = "retrieval" THEN "retrieve" ELSE "combine"
  BY DEF Docs!Init
<1>3. /\ asked \in Seq(Docs!Questions) /\ answers \in Seq(Docs!Answer) /\ Len(answers) = Len(asked)
      /\ DOMAIN asked = {} /\ DOMAIN answers = {}
  BY <1>2, EmptySeq
<1>4. Docs!SequenceInv /\ Docs!RunningInv
  BY <1>1, <1>2, <1>3 DEF Docs!SequenceInv, Docs!RunningInv
<1>5. Docs!WaitingInv /\ Docs!AskedInv
  BY <1>2, <1>3 DEF Docs!WaitingInv, Docs!AskedInv
<1>6. Docs!FailuresHaveCauses /\ Docs!MemoryKeepsAnswered
  BY <1>2, <1>3 DEF Docs!FailuresHaveCauses, Docs!MemoryKeepsAnswered, Docs!Ok
<1> QED BY <1>4, <1>5, <1>6 DEF Docs!IInv

(* A step after which the call goes on keeps what is said of its end.      *)
LEMMA GoesOn ==
    ASSUME Docs!IInv, pc # "returned", pc' # "returned", UNCHANGED <<setup, kept, outcome>>,
           \A n \in DOMAIN answers' : answers'[n].how # "failed"
    PROVE  Docs!RunningInv' /\ Docs!FailuresHaveCauses' /\ Docs!MemoryKeepsAnswered'
BY DEF Docs!IInv, Docs!RunningInv, Docs!FailuresHaveCauses, Docs!MemoryKeepsAnswered, Docs!Ok

(* A step that asks nothing keeps the lists.                               *)
LEMMA SequencesStay ==
    ASSUME Docs!IInv, UNCHANGED <<setup, asked>>, docs' \in Docs!DocumentLists,
           answers' \in Seq(Docs!Answer), Len(answers') = Len(asked)
    PROVE  Docs!SequenceInv'
BY DEF Docs!IInv, Docs!SequenceInv

\* What a call may fail for, but for a request that failed.
Cause == \/ setup.over # "caller" /\ \A n \in DOMAIN asked : asked[n].to = "condense"
         \/ ~setup.typed
         \/ docs = <<>> /\ setup.chain \in {"refine", "map_rerank"}
         \/ setup.history \in {"missing", "unreadable"}
         \/ setup.renamed /\ setup.history = "some"
         \/ setup.over = "conversation" /\ (setup.steps \/ (setup.extra /\ ~setup.keyed))

(* A call ends with an error that has a cause,                             *)
LEMMA EndsFailed ==
    ASSUME Docs!IInv, pc # "returned", UNCHANGED <<setup, docs, asked, kept>>, Docs!Failed,
           answers' \in Seq(Docs!Answer), Len(answers') = Len(asked),
           Cause \/ \E n \in DOMAIN answers' : answers'[n].how = "failed"
    PROVE  Docs!IInv'
<1>1. kept = <<>>
  BY DEF Docs!IInv, Docs!RunningInv
<1>2. Docs!SequenceInv' /\ Docs!RunningInv' /\ Docs!AskedInv'
  BY SequencesStay DEF Docs!IInv, Docs!SequenceInv, Docs!RunningInv, Docs!AskedInv,
     Docs!Failed, Docs!Ended
<1>3. Docs!WaitingInv' /\ Docs!MemoryKeepsAnswered'
  BY <1>1 DEF Docs!WaitingInv, Docs!MemoryKeepsAnswered, Docs!Ok, Docs!Failed, Docs!Ended
<1>4. Docs!FailuresHaveCauses'
  BY DEF Docs!FailuresHaveCauses, Cause, Docs!Ok, Docs!Failed, Docs!Ended
<1> QED BY <1>2, <1>3, <1>4 DEF Docs!IInv

(* with the panic that adds intermediate steps to no result,               *)
LEMMA EndsInPanic ==
    ASSUME Docs!IInv, pc # "returned", UNCHANGED <<setup, docs, asked, kept>>, Docs!Ended("panic", 0),
           answers' \in Seq(Docs!Answer), Len(answers') = Len(asked),
           \E n \in DOMAIN answers' : answers'[n].how = "failed",
           setup.chain = "map_reduce", setup.steps
    PROVE  Docs!IInv'
<1>1. kept = <<>>
  BY DEF Docs!IInv, Docs!RunningInv
<1>2. Docs!SequenceInv' /\ Docs!RunningInv' /\ Docs!AskedInv'
  BY SequencesStay DEF Docs!IInv, Docs!SequenceInv, Docs!RunningInv, Docs!AskedInv, Docs!Ended
<1>3. Docs!WaitingInv' /\ Docs!MemoryKeepsAnswered'
  BY <1>1 DEF Docs!WaitingInv, Docs!MemoryKeepsAnswered, Docs!Ok, Docs!Ended
<1>4. Docs!FailuresHaveCauses'
  BY DEF Docs!FailuresHaveCauses, Docs!Ok, Docs!Ended
<1> QED BY <1>2, <1>3, <1>4 DEF Docs!IInv

(* or with an answer, when no request has failed and none is open.         *)
LEMMA EndsReturned ==
    ASSUME Docs!IInv, pc # "returned", UNCHANGED <<setup, docs, asked>>, NEW n, Docs!Return(n),
           answers' \in Seq(Docs!Answer), Len(answers') = Len(asked),
           \A k \in DOMAIN answers' : answers'[k].how \notin {"failed", "pending"}
    PROVE  Docs!IInv'
<1>1. kept = <<>> /\ setup \in Docs!Setup
  BY DEF Docs!IInv, Docs!RunningInv, Docs!SequenceInv
<1>2. /\ pc' = "returned" /\ outcome'.how \in {"ok", "error"}
      /\ setup.over = "conversation" =>
            \/ setup.steps /\ outcome'.how = "error" /\ kept' = <<>>
            \/ setup.extra /\ ~setup.keyed /\ outcome'.how = "error" /\ kept' = <<"question">>
            \/ outcome'.how = "ok" /\ kept' = <<"question", "answer">>
      /\ setup.over # "conversation" => outcome'.how = "ok" /\ kept' = <<>>
  BY <1>1 DEF Docs!Return, Docs!SaveContext, Docs!Failed, Docs!Ended
<1>3. Docs!SequenceInv' /\ Docs!RunningInv' /\ Docs!AskedInv'
  BY <1>2, SequencesStay DEF Docs!IInv, Docs!SequenceInv, Docs!RunningInv, Docs!AskedInv
<1>4. Docs!WaitingInv' /\ Docs!MemoryKeepsAnswered'
  BY <1>2 DEF Docs!WaitingInv, Docs!MemoryKeepsAnswered, Docs!Ok
<1>5. Docs!FailuresHaveCauses'
  BY <1>2 DEF Docs!FailuresHaveCauses, Docs!Ok
<1> QED BY <1>3, <1>4, <1>5 DEF Docs!IInv

(* While a call goes on none of its requests has failed.                   *)
LEMMA Unfailed ==
    ASSUME Docs!IInv, pc # "returned"
    PROVE  \A n \in DOMAIN answers : answers[n].how # "failed"
BY DEF Docs!IInv, Docs!RunningInv

(* The history is read.                                                    *)
LEMMA Begins == ASSUME Docs!IInv, Docs!getQuestion PROVE Docs!IInv'
<1>1. /\ pc = "begin" /\ UNCHANGED <<setup, kept, docs>>
      /\ setup.over = "conversation" /\ asked = <<>>
      /\ docs \in Docs!DocumentLists /\ Docs!SequenceInv
  BY DEF Docs!IInv, Docs!SequenceInv, Docs!AskedInv, Docs!getQuestion, Docs!calling
<1>2. /\ answers \in Seq(Docs!Answer) /\ Len(answers) = Len(asked) /\ Len(asked) = 0
      /\ DOMAIN asked = {}
  BY <1>1, SequencesAre, EmptySeq
<1>3. CASE /\ setup.history \in {"missing", "unreadable"} /\ Docs!Failed
           /\ UNCHANGED <<asked, answers>>
  BY <1>1, <1>2, <1>3, EndsFailed DEF Cause
<1>4. CASE /\ setup.history = "none" /\ pc' = "retrieve"
           /\ UNCHANGED <<asked, answers, outcome>>
  <2>1. Docs!RunningInv' /\ Docs!FailuresHaveCauses' /\ Docs!MemoryKeepsAnswered'
    BY <1>1, <1>4, Unfailed, GoesOn
  <2>2. Docs!SequenceInv'
    BY <1>1, <1>2, <1>4, SequencesStay
  <2>3. Docs!WaitingInv' /\ Docs!AskedInv'
    BY <1>1, <1>2, <1>4, SequencesAre DEF Docs!WaitingInv, Docs!AskedInv
  <2> QED BY <2>1, <2>2, <2>3 DEF Docs!IInv
<1>5. CASE /\ setup.history = "some" /\ pc' = "ask"
           /\ asked' = Append(asked, [to |-> "condense", texts |-> <<>>,
                                      question |-> "asked", existing |-> 0])
           /\ answers' = Append(answers, Docs!Pending)
           /\ UNCHANGED outcome
  <2> DEFINE request == [to |-> "condense", texts |-> <<>>, question |-> "asked",
                         existing |-> 0]
  <2>1. request \in Docs!Questions /\ request.to = "condense"
    <3>1. <<>> \in Seq([of : Docs!Origins, at : Int])
      BY EmptySeq
    <3> QED BY <3>1 DEF Docs!Questions
  <2>2. asked' = Append(asked, request) /\ answers' = Append(answers, Docs!Pending)
    BY <1>5
  <2> HIDE DEF request
  <2>3. /\ asked' \in Seq(Docs!Questions) /\ answers' \in Seq(Docs!Answer)
        /\ Len(answers') = Len(asked')
        /\ Len(asked') = 1
        /\ DOMAIN asked' = 1..1 /\ DOMAIN answers' = 1..1
        /\ asked'[1] = request /\ answers'[1].how = "pending"
    <3>1. /\ asked' \in Seq(Docs!Questions) /\ answers' \in Seq(Docs!Answer)
          /\ Len(answers') = Len(asked')
          /\ Len(asked') = Len(asked) + 1
          /\ DOMAIN asked' = 1..Len(asked') /\ DOMAIN answers' = 1..Len(asked')
          /\ asked'[Len(asked')] = request /\ answers'[Len(asked')].how = "pending"
      BY <1>1, <1>2, <2>1, <2>2, Added
    <3>2. Len(asked') = 1
      BY <1>2, <3>1
    <3> QED BY <3>1, <3>2
  <2>4. Docs!RunningInv' /\ Docs!FailuresHaveCauses' /\ Docs!MemoryKeepsAnswered'
    BY <1>1, <1>5, <2>3, GoesOn
  <2>5. Docs!SequenceInv'
    BY <1>1, <2>3 DEF Docs!SequenceInv
  <2>6. Docs!WaitingInv' /\ Docs!AskedInv'
    BY <1>1, <1>5, <2>1, <2>3 DEF Docs!WaitingInv, Docs!AskedInv
  <2> QED BY <2>4, <2>5, <2>6 DEF Docs!IInv
<1> QED BY <1>3, <1>4, <1>5 DEF Docs!getQuestion

(* The documents are found.                                                *)
LEMMA Retrieves == ASSUME Docs!IInv, Docs!GetRelevantDocuments PROVE Docs!IInv'
<1>1. /\ pc = "retrieve" /\ UNCHANGED <<setup, kept, asked, answers>>
      /\ setup.over # "caller" /\ \A n \in DOMAIN asked : asked[n].to = "condense"
      /\ Docs!SequenceInv
  BY DEF Docs!IInv, Docs!AskedInv, Docs!GetRelevantDocuments, Docs!calling
<1>2. answers \in Seq(Docs!Answer) /\ Len(answers) = Len(asked)
  BY <1>1, SequencesAre
<1>3. CASE Docs!Failed /\ UNCHANGED docs
  BY <1>1, <1>2, <1>3, EndsFailed DEF Cause
<1>4. CASE docs' \in Docs!DocumentLists /\ pc' = "combine" /\ UNCHANGED outcome
  <2>1. Docs!RunningInv' /\ Docs!FailuresHaveCauses' /\ Docs!MemoryKeepsAnswered'
    BY <1>1, <1>4, Unfailed, GoesOn
  <2>2. Docs!SequenceInv'
    BY <1>1, <1>2, <1>4, SequencesStay
  <2>3. Docs!WaitingInv' /\ Docs!AskedInv'
    BY <1>1, <1>2, <1>4 DEF Docs!IInv, Docs!WaitingInv, Docs!AskedInv
  <2> QED BY <2>1, <2>2, <2>3 DEF Docs!IInv
<1> QED BY <1>3, <1>4 DEF Docs!GetRelevantDocuments

(* What requests are made of.                                              *)
LEMMA TextsAre ==
    ASSUME Docs!SequenceInv
    PROVE  /\ Docs!rephraseQuestion \in {"asked", "generated"}
           /\ Docs!joinDocuments("document") \in Seq([of : Docs!Origins, at : Int])
           /\ \A k \in DOMAIN docs : Docs!getBaseInputs(docs[k]) \in Seq([of : Docs!Origins, at : Int])
           /\ \A k \in Int : <<Docs!From("document", k)>> \in Seq([of : Docs!Origins, at : Int])
           /\ [k \in DOMAIN docs |-> Docs!From("answer", Len(asked) - Len(docs) + k)]
                  \in Seq([of : Docs!Origins, at : Int])
           /\ <<>> \in Seq([of : Docs!Origins, at : Int])
<1> DEFINE Text == [of : Docs!Origins, at : Int]
<1>1. PICK m \in Nat : docs \in [1..m -> Docs!Document] /\ DOMAIN docs = 1..m /\ Len(docs) = m
  BY DocsAre DEF Docs!SequenceInv
<1>2. \A origin \in Docs!Origins, k \in Int : Docs!From(origin, k) \in Text
  BY DEF Docs!From
<1>3. \A origin \in Docs!Origins, k \in Int : <<Docs!From(origin, k)>> \in Seq(Text)
  BY <1>2
<1>4. Docs!rephraseQuestion \in {"asked", "generated"}
  BY DEF Docs!rephraseQuestion
<1>5. Docs!joinDocuments("document") \in Seq(Text)
  <2>1. \A k \in 1..m : Docs!From("document", k) \in Text
    BY <1>2 DEF Docs!Origins
  <2>2. [k \in 1..m |-> Docs!From("document", k)] \in [1..m -> Text]
    BY <2>1
  <2> QED BY <1>1, <2>2 DEF Docs!joinDocuments
<1>6. ASSUME NEW k \in DOMAIN docs PROVE Docs!getBaseInputs(docs[k]) \in Seq(Text)
  <2>1. docs[k].place \in Int
    BY <1>1 DEF Docs!Document
  <2>2. Docs!getBaseInputs(docs[k]) \in {<<Docs!From("caller", 0)>>,
                                    <<Docs!From("metadata", docs[k].place)>>,
                                    <<Docs!From("document", docs[k].place)>>}
    BY DEF Docs!getBaseInputs
  <2>3. /\ "caller" \in Docs!Origins /\ "metadata" \in Docs!Origins /\ "document" \in Docs!Origins
        /\ 0 \in Int
    BY DEF Docs!Origins
  <2> HIDE DEF Text
  <2>4. /\ <<Docs!From("caller", 0)>> \in Seq(Text)
        /\ <<Docs!From("metadata", docs[k].place)>> \in Seq(Text)
        /\ <<Docs!From("document", docs[k].place)>> \in Seq(Text)
    BY <1>3, <2>1, <2>3
  <2> QED BY <2>2, <2>4
<1>7. [k \in DOMAIN docs |-> Docs!From("answer", Len(asked) - Len(docs) + k)] \in Seq(Text)
  <2> DEFINE first == Len(asked) - Len(docs)
  <2>1. first \in Int
    BY <1>1, SequencesAre
  <2> HIDE DEF first
  <2>2. \A k \in 1..m : Docs!From("answer", first + k) \in Text
    BY <1>2, <2>1 DEF Docs!Origins
  <2>3. [k \in 1..m |-> Docs!From("answer", first + k)] \in [1..m -> Text]
    BY <2>2
  <2>4. [k \in DOMAIN docs |-> Docs!From("answer", first + k)] \in Seq(Text)
    BY <1>1, <2>3
  <2> QED BY <2>4 DEF first
<1>8. <<>> \in Seq(Text)
  BY EmptySeq
<1> QED BY <1>3, <1>4, <1>5, <1>6, <1>7, <1>8 DEF Docs!Origins

(* A step that asks something keeps the invariant.                         *)
LEMMA Asks ==
    ASSUME Docs!IInv, pc # "returned", NEW heard \in Seq(Docs!Answer), Len(heard) = Len(asked),
           NEW request \in Docs!Questions, request.to # "condense",
           request.to = "reduce" => setup.chain = "map_reduce",
           asked' = Append(asked, request), answers' = Append(heard, Docs!Pending),
           UNCHANGED <<setup, docs, kept, outcome>>,
           \A n \in DOMAIN heard : heard[n].how # "failed",
           pc' \in {"ask", "map"},
           pc' = "map" => /\ pc = "map" /\ request.to = "map"
                          /\ \A n \in DOMAIN heard :
                                heard[n].how = "pending" => asked[n].to = "map",
           pc' = "ask" => \A n \in DOMAIN heard : heard[n].how # "pending"
    PROVE  Docs!IInv'
<1>1. /\ Docs!SequenceInv /\ Len(asked) \in Nat /\ DOMAIN asked = 1..Len(asked)
      /\ DOMAIN heard = 1..Len(asked)
  BY SequencesAre, LenProperties DEF Docs!IInv
<1>2. /\ asked' \in Seq(Docs!Questions) /\ answers' \in Seq(Docs!Answer)
      /\ Len(answers') = Len(asked')
      /\ Len(asked') = Len(asked) + 1
      /\ DOMAIN asked' = 1..Len(asked') /\ DOMAIN answers' = 1..Len(asked')
      /\ asked'[Len(asked')] = request /\ answers'[Len(asked')].how = "pending"
      /\ \A n \in DOMAIN asked : asked'[n] = asked[n]
      /\ \A n \in DOMAIN heard : answers'[n] = heard[n]
  BY <1>1, Added
<1>3. \A n \in DOMAIN asked' : n = Len(asked') \/ (n \in DOMAIN asked /\ n \in DOMAIN heard)
  BY <1>1, <1>2
<1>4. \A n \in DOMAIN answers' : answers'[n].how # "failed"
  BY <1>2, <1>3
<1>5. Docs!RunningInv' /\ Docs!FailuresHaveCauses' /\ Docs!MemoryKeepsAnswered'
  BY <1>4, GoesOn
<1>6. Docs!SequenceInv'
  BY <1>1, <1>2 DEF Docs!SequenceInv
<1>7. Docs!WaitingInv'
  BY <1>2, <1>3 DEF Docs!WaitingInv
<1>8. Docs!AskedInv'
  BY <1>2, <1>3 DEF Docs!IInv, Docs!AskedInv
<1> QED BY <1>5, <1>6, <1>7, <1>8 DEF Docs!IInv

(* The first request of the documents is made.                             *)
LEMMA Combines == ASSUME Docs!IInv, Docs!Combine PROVE Docs!IInv'
<1>1. pc = "combine" /\ UNCHANGED <<setup, kept, docs>> /\ Docs!SequenceInv
  BY DEF Docs!IInv, Docs!Combine, Docs!calling
<1>2. answers \in Seq(Docs!Answer) /\ Len(answers) = Len(asked) /\ DOMAIN asked = DOMAIN answers
  BY <1>1, SequencesAre
<1>3. \A n \in DOMAIN answers : answers[n].how \notin {"failed", "pending"}
  BY <1>1, Unfailed DEF Docs!IInv, Docs!WaitingInv
<1>4. CASE ~setup.typed \/ (docs = <<>> /\ setup.chain \in {"refine", "map_rerank"})
  <2>1. Docs!Failed /\ UNCHANGED <<asked, answers>>
    BY <1>4 DEF Docs!Combine
  <2> QED BY <1>1, <1>2, <1>4, <2>1, EndsFailed DEF Cause
<1>5. CASE ~(~setup.typed \/ (docs = <<>> /\ setup.chain \in {"refine", "map_rerank"}))
  <2>1. UNCHANGED outcome /\ pc' \in {"map", "ask"}
    BY <1>5 DEF Docs!Combine
  <2>2. CASE /\ setup.chain \in {"map_reduce", "map_rerank"} /\ docs # <<>>
             /\ UNCHANGED <<asked, answers>>
    <3>1. Docs!RunningInv' /\ Docs!FailuresHaveCauses' /\ Docs!MemoryKeepsAnswered'
      BY <1>1, <2>1, <2>2, Unfailed, GoesOn
    <3>2. Docs!SequenceInv'
      BY <1>1, <1>2, <2>2, SequencesStay DEF Docs!SequenceInv
    <3>3. Docs!WaitingInv' /\ Docs!AskedInv'
      BY <1>1, <1>3, <2>1, <2>2 DEF Docs!IInv, Docs!WaitingInv, Docs!AskedInv
    <3> QED BY <3>1, <3>2, <3>3 DEF Docs!IInv
  <2>3. ASSUME NEW to \in {"stuff", "initial", "reduce"},
               NEW texts \in Seq([of : Docs!Origins, at : Int]),
               Docs!Ask(to, texts, 0), pc' = "ask", to = "reduce" => setup.chain = "map_reduce"
        PROVE  Docs!IInv'
    <3> DEFINE request == [to |-> to, texts |-> texts, question |-> Docs!rephraseQuestion,
                           existing |-> 0]
    <3>1. request \in Docs!Questions /\ request.to = to
      BY <1>1, TextsAre DEF Docs!Questions
    <3>2. asked' = Append(asked, request) /\ answers' = Append(answers, Docs!Pending)
      BY <2>3 DEF Docs!Ask
    <3> HIDE DEF request
    <3> QED BY <1>1, <1>2, <1>3, <2>1, <2>3, <3>1, <3>2, Asks
  <2>4. CASE setup.chain = "stuff" /\ Docs!Ask("stuff", Docs!joinDocuments("document"), 0)
    BY <1>1, <1>5, <2>3, <2>4, TextsAre DEF Docs!Combine
  <2>5. CASE setup.chain = "refine" /\ Docs!Ask("initial", Docs!getBaseInputs(docs[1]), 0)
    <3>1. 1 \in DOMAIN docs
      <4>1. PICK m \in Nat : docs \in [1..m -> Docs!Document] /\ DOMAIN docs = 1..m /\ Len(docs) = m
        BY <1>1, DocsAre DEF Docs!SequenceInv
      <4>2. docs \in Seq(Docs!Document) /\ docs # <<>>
        BY <1>5, <2>5, <4>1
      <4> QED BY <4>1, <4>2, EmptySeq
    <3> QED BY <1>1, <1>5, <2>3, <2>5, <3>1, TextsAre DEF Docs!Combine
  <2>6. CASE setup.chain = "map_reduce" /\ docs = <<>> /\ Docs!Ask("reduce", <<>>, 0)
    BY <1>1, <1>5, <2>3, <2>6, TextsAre DEF Docs!Combine
  <2> QED BY <1>5, <2>2, <2>4, <2>5, <2>6 DEF Docs!Combine
<1> QED BY <1>4, <1>5

(* A worker takes the next document.                                       *)
LEMMA AsksNext == ASSUME Docs!IInv, Docs!AskNext PROVE Docs!IInv'
<1> DEFINE k == Cardinality(Docs!Maps) + 1
<1>1. /\ pc = "map" /\ UNCHANGED <<setup, kept, docs, pc, outcome>> /\ Docs!SequenceInv
      /\ Docs!Ask("map", <<Docs!From("document", k)>>, 0)
  BY SameCount DEF Docs!IInv, Docs!AskNext, Docs!calling
<1>2. k \in Int
  <2>1. Cardinality(Docs!Maps) \in Nat
    BY <1>1, Counted DEF Docs!Maps
  <2> QED BY <2>1
<1> HIDE DEF k
<1> DEFINE request == [to |-> "map", texts |-> <<Docs!From("document", k)>>,
                       question |-> Docs!rephraseQuestion, existing |-> 0]
<1>3. request \in Docs!Questions /\ request.to = "map"
  BY <1>1, <1>2, TextsAre DEF Docs!Questions
<1>4. asked' = Append(asked, request) /\ answers' = Append(answers, Docs!Pending)
  BY <1>1 DEF Docs!Ask
<1> HIDE DEF request
<1>5. \A n \in DOMAIN answers : answers[n].how = "pending" => asked[n].to = "map"
  BY <1>1 DEF Docs!IInv, Docs!WaitingInv
<1> QED BY <1>1, <1>3, <1>4, <1>5, Unfailed, SequencesAre, Asks

(* A document is answered, in whatever order.                              *)
LEMMA DocumentAnswered == ASSUME Docs!IInv, NEW n \in DOMAIN asked, Docs!AnswerOfDocument(n)
    PROVE Docs!IInv'
<1>1. /\ pc = "map" /\ UNCHANGED <<setup, docs>> /\ Docs!SequenceInv
      /\ \A m \in DOMAIN answers : answers[m].how # "failed"
      /\ \A m \in DOMAIN answers : answers[m].how = "pending" => asked[m].to = "map"
      /\ DOMAIN asked = DOMAIN answers /\ kept = <<>> /\ docs \in Docs!DocumentLists
  BY SequencesAre DEF Docs!IInv, Docs!SequenceInv, Docs!RunningInv, Docs!WaitingInv,
     Docs!AnswerOfDocument
<1>2. PICK answer \in Docs!Says(asked[n]) :
        LET heard == [answers EXCEPT ![n] = answer]
            waits == \E m \in Docs!Maps : heard[m].how = "pending"
        IN IF answer.how = "failed"
           THEN Docs!Failed /\ answers' = heard /\ UNCHANGED <<asked, kept>>
           ELSE IF waits \/ Cardinality(Docs!Maps) < Len(docs)
                THEN answers' = heard /\ UNCHANGED <<asked, pc, kept, outcome>>
                ELSE Docs!Reduce(heard)
  BY SameCount DEF Docs!AnswerOfDocument
<1> DEFINE heard == [answers EXCEPT ![n] = answer]
           waits == \E m \in Docs!Maps : heard[m].how = "pending"
<1>3. answer \in Docs!Answer /\ answer.how \in {"failed", "text", "scored", "unscored"}
  BY SayableIs
<1>4. /\ heard \in Seq(Docs!Answer) /\ Len(heard) = Len(asked)
      /\ DOMAIN heard = DOMAIN answers /\ heard[n] = answer
      /\ \A k \in DOMAIN answers : k # n => heard[k] = answers[k]
  BY <1>1, <1>3, ReplyHeard
<1>5. \/ answer.how = "failed" /\ Docs!Failed /\ answers' = heard /\ UNCHANGED <<asked, kept>>
      \/ answer.how # "failed" /\ answers' = heard /\ UNCHANGED <<asked, pc, kept, outcome>>
      \/ answer.how # "failed" /\ ~waits /\ Docs!Reduce(heard)
  BY <1>2
<1> HIDE DEF heard
<1>6. CASE answer.how = "failed" /\ Docs!Failed /\ answers' = heard /\ UNCHANGED <<asked, kept>>
  BY <1>1, <1>4, <1>6, EndsFailed
<1>7. CASE /\ answer.how # "failed" /\ answers' = heard
           /\ UNCHANGED <<asked, pc, kept, outcome>>
  <2>1. Docs!RunningInv' /\ Docs!FailuresHaveCauses' /\ Docs!MemoryKeepsAnswered'
    BY <1>1, <1>4, <1>7, GoesOn
  <2>2. Docs!SequenceInv'
    BY <1>1, <1>4, <1>7, SequencesStay
  <2>3. Docs!WaitingInv' /\ Docs!AskedInv'
    BY <1>1, <1>3, <1>4, <1>7 DEF Docs!IInv, Docs!WaitingInv, Docs!AskedInv
  <2> QED BY <2>1, <2>2, <2>3 DEF Docs!IInv
<1>8. CASE answer.how # "failed" /\ ~waits /\ Docs!Reduce(heard)
  <2>1. \A m \in DOMAIN heard : heard[m].how \notin {"failed", "pending"}
    BY <1>1, <1>3, <1>4, <1>8 DEF Docs!Maps
  <2>2. CASE setup.chain = "map_rerank"
    <3>1. Docs!Return(Docs!Ranked(heard)) /\ answers' = heard /\ UNCHANGED asked
      BY <1>8, <2>2 DEF Docs!Reduce
    <3> QED BY <1>1, <1>4, <2>1, <3>1, EndsReturned
  <2>3. CASE setup.chain # "map_rerank"
    <3> DEFINE all == [to |-> "reduce", question |-> Docs!rephraseQuestion, existing |-> 0,
                       texts |-> [k \in DOMAIN docs |->
                                     Docs!From("answer", Len(asked) - Len(docs) + k)]]
    <3>1. all \in Docs!Questions /\ all.to = "reduce"
      BY <1>1, TextsAre DEF Docs!Questions
    <3>2. /\ asked' = Append(asked, all) /\ answers' = Append(heard, Docs!Pending)
          /\ pc' = "ask" /\ UNCHANGED <<outcome, kept>>
      BY <1>8, <2>3 DEF Docs!Reduce
    <3>3. setup.chain = "map_reduce"
      BY <1>1, <2>3 DEF Docs!IInv, Docs!AskedInv
    <3> HIDE DEF all
    <3> QED BY <1>1, <1>4, <2>1, <3>1, <3>2, <3>3, Asks
  <2> QED BY <2>2, <2>3
<1> QED BY <1>5, <1>6, <1>7, <1>8

(* The one open request is answered.                                       *)
LEMMA LastAnswered == ASSUME Docs!IInv, NEW n \in DOMAIN asked, Docs!AnswerOf(n)
    PROVE Docs!IInv'
<1>1. /\ pc = "ask" /\ n = Len(asked) /\ UNCHANGED <<setup, docs>> /\ Docs!SequenceInv
      /\ \A m \in DOMAIN answers : answers[m].how # "failed"
      /\ \A m \in DOMAIN answers : answers[m].how = "pending" => m = n
      /\ DOMAIN asked = DOMAIN answers /\ kept = <<>> /\ docs \in Docs!DocumentLists
  BY SequencesAre DEF Docs!IInv, Docs!SequenceInv, Docs!RunningInv, Docs!WaitingInv,
     Docs!AnswerOf
<1>2. PICK answer \in Docs!Says(asked[n]) :
          LET heard == [answers EXCEPT ![n] = answer]
              made == Cardinality(Docs!Refined)
          IN \/ /\ answer.how = "failed" /\ answers' = heard
                /\ IF asked[n].to = "reduce" THEN Docs!maybeAddIntermediateSteps ELSE Docs!Failed
                /\ UNCHANGED <<asked, kept>>
             \/ /\ answer.how = "text" /\ asked[n].to = "condense" /\ answers' = heard
                /\ IF setup.renamed THEN Docs!Failed ELSE pc' = "retrieve" /\ UNCHANGED outcome
                /\ UNCHANGED <<asked, kept>>
             \/ /\ answer.how = "text" /\ asked[n].to \in {"initial", "refine"}
                /\ made < Len(docs)
                /\ asked' = Append(asked, [to |-> "refine", existing |-> n,
                                           texts |-> Docs!getBaseInputs(docs[made + 1]),
                                           question |-> Docs!rephraseQuestion])
                /\ answers' = Append(heard, Docs!Pending)
                /\ UNCHANGED <<pc, kept, outcome>>
             \/ /\ answer.how = "text" /\ answers' = heard /\ UNCHANGED asked
                /\ \/ asked[n].to \in {"stuff", "reduce"}
                   \/ asked[n].to \in {"initial", "refine"} /\ made = Len(docs)
                /\ Docs!Return(n)
  BY SameCount DEF Docs!AnswerOf
<1> DEFINE heard == [answers EXCEPT ![n] = answer]
           made == Cardinality(Docs!Refined)
<1>3. answer \in Docs!Answer /\ answer.how \in {"failed", "text", "scored", "unscored"}
  BY SayableIs
<1>4. /\ heard \in Seq(Docs!Answer) /\ Len(heard) = Len(asked)
      /\ DOMAIN heard = DOMAIN answers /\ heard[n] = answer
      /\ \A k \in DOMAIN answers : k # n => heard[k] = answers[k]
      /\ \A k \in DOMAIN heard : heard[k].how # "pending"
  BY <1>1, <1>3, ReplyHeard
<1> HIDE DEF heard
<1>5. CASE /\ answer.how = "failed" /\ answers' = heard
           /\ IF asked[n].to = "reduce" THEN Docs!maybeAddIntermediateSteps ELSE Docs!Failed
           /\ UNCHANGED <<asked, kept>>
  <2>1. CASE Docs!Failed
    BY <1>1, <1>4, <1>5, <2>1, EndsFailed
  <2>2. CASE Docs!Ended("panic", 0) /\ setup.steps /\ asked[n].to = "reduce"
    <3>1. setup.chain = "map_reduce"
      BY <2>2 DEF Docs!IInv, Docs!AskedInv
    <3> QED BY <1>1, <1>4, <1>5, <2>2, <3>1, EndsInPanic
  <2> QED BY <1>5, <2>1, <2>2 DEF Docs!maybeAddIntermediateSteps
<1>6. CASE /\ answer.how = "text" /\ asked[n].to = "condense" /\ answers' = heard
           /\ IF setup.renamed THEN Docs!Failed ELSE pc' = "retrieve" /\ UNCHANGED outcome
           /\ UNCHANGED <<asked, kept>>
  <2>1. n = 1 /\ setup.history = "some" /\ \A m \in DOMAIN asked : m = n
    BY <1>1, <1>6, SequencesAre DEF Docs!IInv, Docs!AskedInv
  <2>2. setup.over # "caller"
    BY <1>1, <2>1 DEF Docs!SequenceInv, Docs!Possible
  <2>3. CASE Docs!Failed /\ setup.renamed
    BY <1>1, <1>4, <1>6, <2>1, <2>3, EndsFailed DEF Cause
  <2>4. CASE pc' = "retrieve" /\ UNCHANGED outcome
    <3>1. Docs!RunningInv' /\ Docs!FailuresHaveCauses' /\ Docs!MemoryKeepsAnswered'
      BY <1>1, <1>4, <1>6, <2>4, GoesOn
    <3>2. Docs!SequenceInv'
      BY <1>1, <1>4, <1>6, SequencesStay
    <3>3. Docs!WaitingInv' /\ Docs!AskedInv'
      BY <1>1, <1>4, <1>6, <2>1, <2>2, <2>4 DEF Docs!IInv, Docs!WaitingInv, Docs!AskedInv
    <3> QED BY <3>1, <3>2, <3>3 DEF Docs!IInv
  <2> QED BY <1>6, <2>3, <2>4
<1>7. CASE /\ answer.how = "text" /\ asked[n].to \in {"initial", "refine"}
           /\ made < Len(docs)
           /\ asked' = Append(asked, [to |-> "refine", existing |-> n,
                                      texts |-> Docs!getBaseInputs(docs[made + 1]),
                                      question |-> Docs!rephraseQuestion])
           /\ answers' = Append(heard, Docs!Pending)
           /\ UNCHANGED <<pc, kept, outcome>>
  <2>1. made + 1 \in DOMAIN docs
    <3>1. made \in Nat
      BY <1>1, Counted DEF Docs!Refined
    <3>2. PICK m \in Nat : DOMAIN docs = 1..m /\ Len(docs) = m
      BY <1>1, DocsAre
    <3> QED BY <1>7, <3>1, <3>2
  <2> HIDE DEF made
  <2> DEFINE request == [to |-> "refine", existing |-> n,
                         texts |-> Docs!getBaseInputs(docs[made + 1]),
                         question |-> Docs!rephraseQuestion]
  <2>2. request \in Docs!Questions /\ request.to = "refine"
    BY <1>1, <2>1, SequencesAre, TextsAre DEF Docs!Questions
  <2>3. asked' = Append(asked, request) /\ answers' = Append(heard, Docs!Pending)
    BY <1>7
  <2> HIDE DEF request
  <2>4. \A k \in DOMAIN heard : heard[k].how # "failed"
    BY <1>1, <1>4, <1>7
  <2> QED BY <1>1, <1>4, <1>7, <2>2, <2>3, <2>4, Asks
<1>8. CASE answer.how = "text" /\ answers' = heard /\ UNCHANGED asked /\ Docs!Return(n)
  <2>1. \A k \in DOMAIN heard : heard[k].how \notin {"failed", "pending"}
    BY <1>1, <1>4, <1>8
  <2> QED BY <1>1, <1>4, <1>8, <2>1, EndsReturned
<1> QED BY <1>2, <1>5, <1>6, <1>7, <1>8 DEF heard

(* Every step keeps the invariant.                                         *)
LEMMA DocumentsSteps ==
    ASSUME Docs!IInv, [Docs!Next]_(Docs!vars)
    PROVE  Docs!IInv'
<1>1. CASE UNCHANGED Docs!vars
  BY <1>1 DEF Docs!vars, Docs!IInv, Docs!SequenceInv, Docs!RunningInv, Docs!WaitingInv,
     Docs!AskedInv, Docs!FailuresHaveCauses,
              Docs!MemoryKeepsAnswered, Docs!Ok
<1>2. CASE Docs!Next
  BY <1>2, Begins, Retrieves, Combines, AsksNext, DocumentAnswered, LastAnswered DEF Docs!Next
<1> QED BY <1>1, <1>2
-----------------------------------------------------------------------------
(* What is asked and which answer is returned.                             *)

(* The outcomes of a call.                                                 *)
LEMMA OutcomesAre ==
    ASSUME NEW how \in {"none", "ok", "error", "panic"}, NEW n \in Nat
    PROVE  /\ Docs!Ended(how, n) => /\ outcome' \in Docs!Outcome /\ pc' = "returned"
                                    /\ outcome'.how = how /\ outcome'.answer = n
           /\ Docs!Failed => /\ outcome' \in Docs!Outcome /\ pc' = "returned" /\ outcome'.how = "error"
BY DEF Docs!Ended, Docs!Failed, Docs!Outcome

(* A step that asks nothing keeps types and kinds, and the order of the    *)
(* questions if the answer to the first stays.                             *)
LEMMA KindsStay ==
    ASSUME Docs!IInv, Docs!IInv', Docs!TypeOK, Docs!KindInv, Docs!CondenseInv, Docs!QuestionIsCondensedFirst,
           UNCHANGED <<setup, asked>>, outcome' \in Docs!Outcome,
           kept' \in {<<>>, <<"question">>, <<"question", "answer">>},
           \A k \in DOMAIN answers' : answers'[k].how # "scored" => answers'[k].score = 0,
           Len(asked) > 1 /\ answers[1].how = "text" => answers'[1].how = "text",
           setup.history = "some" /\ pc' \notin {"begin", "returned"} =>
               asked # <<>> /\ asked[1].to = "condense",
           setup.history = "some" /\ pc' \in {"retrieve", "combine", "map"} =>
               answers'[1].how = "text"
    PROVE  Docs!TypeOK' /\ Docs!KindInv' /\ Docs!CondenseInv' /\ Docs!QuestionIsCondensedFirst'
<1>1. /\ Docs!SequenceInv' /\ asked \in Seq(Docs!Request)
      /\ pc' \in {"begin", "retrieve", "combine", "map", "ask", "returned"}
  BY DEF Docs!IInv, Docs!WaitingInv, Docs!TypeOK
<1>2. Docs!TypeOK'
  BY <1>1 DEF Docs!TypeOK, Docs!SequenceInv
<1>3. Docs!KindInv'
  BY DEF Docs!KindInv
<1>4. Docs!CondenseInv'
  BY DEF Docs!CondenseInv
<1>5. Docs!QuestionIsCondensedFirst'
  <2> SUFFICES ASSUME NEW n \in DOMAIN asked, asked[n].question = "generated"
               PROVE  n > 1 /\ asked[1].to = "condense" /\ answers'[1].how = "text"
    BY DEF Docs!QuestionIsCondensedFirst
  <2>1. n > 1 /\ asked[1].to = "condense" /\ answers[1].how = "text"
    BY DEF Docs!QuestionIsCondensedFirst
  <2>2. n \in 1..Len(asked) /\ Len(asked) \in Nat
    BY SequencesAre DEF Docs!IInv
  <2>3. Len(asked) > 1
    BY <2>1, <2>2
  <2> QED BY <2>1, <2>3
<1> QED BY <1>2, <1>3, <1>4, <1>5

\* A request of the chain, as KindInv has them.
OfChain(request) ==
    \/ request.to = "condense"
    \/ setup.chain = "stuff" /\ request.to = "stuff"
    \/ setup.chain = "refine" /\ request.to \in {"initial", "refine"}
    \/ setup.chain \in {"map_reduce", "map_rerank"} /\ request.to = "map"
    \/ setup.chain = "map_reduce" /\ request.to = "reduce"

(* A step that asks something does so when the history has been condensed, *)
(* and generates no question before.                                       *)
LEMMA KindsGrow ==
    ASSUME Docs!IInv, Docs!IInv', Docs!TypeOK, Docs!KindInv, Docs!CondenseInv, Docs!QuestionIsCondensedFirst,
           NEW request \in Docs!Request, OfChain(request), NEW heard \in Seq(Docs!Answer),
           Len(heard) = Len(asked),
           asked' = Append(asked, request), answers' = Append(heard, Docs!Pending),
           UNCHANGED <<setup, outcome, kept>>,
           \A k \in DOMAIN heard : heard[k].how # "scored" => heard[k].score = 0,
           setup.history = "some" /\ pc # "begin" =>
               asked # <<>> /\ asked[1].to = "condense" /\ heard[1].how = "text",
           request.question = "generated" => setup.history = "some" /\ pc # "begin",
           pc = "begin" => request.to = "condense",
           pc' \in {"ask", "map"}, pc' = "map" => pc # "begin"
    PROVE  Docs!TypeOK' /\ Docs!KindInv' /\ Docs!CondenseInv' /\ Docs!QuestionIsCondensedFirst'
<1>1. /\ Docs!SequenceInv /\ Docs!SequenceInv' /\ Len(asked) \in Nat /\ DOMAIN asked = 1..Len(asked)
      /\ DOMAIN heard = 1..Len(asked) /\ asked \in Seq(Docs!Request)
  BY SequencesAre, LenProperties DEF Docs!IInv, Docs!TypeOK
<1>2. Docs!Pending \in Docs!Answer /\ Docs!Pending.how = "pending" /\ Docs!Pending.score = 0
  BY DEF Docs!Pending, Docs!Answer, Docs!Hows
<1>3. /\ asked' \in Seq(Docs!Request) /\ Len(asked') = Len(asked) + 1
      /\ asked'[Len(asked) + 1] = request
      /\ \A n \in 1..Len(asked) : asked'[n] = asked[n]
  BY <1>1, AppendProperties
<1>4. /\ Len(answers') = Len(asked) + 1
      /\ answers'[Len(asked) + 1] = Docs!Pending
      /\ \A n \in 1..Len(asked) : answers'[n] = heard[n]
  BY <1>1, <1>2, AppendProperties
<1>5. /\ DOMAIN asked' = 1..(Len(asked) + 1) /\ DOMAIN answers' = 1..(Len(asked) + 1)
  BY <1>1, <1>3, <1>4, LenProperties DEF Docs!SequenceInv
<1>6. Docs!TypeOK'
  BY <1>1, <1>3 DEF Docs!TypeOK, Docs!SequenceInv
<1>7. Docs!KindInv'
  <2>1. \A n \in DOMAIN asked' : n = Len(asked) + 1 \/ n \in 1..Len(asked)
    BY <1>1, <1>5
  <2>2. \A n \in 1..Len(asked) : OfChain(asked[n])
    BY <1>1 DEF Docs!KindInv, OfChain
  <2>3. \A n \in DOMAIN asked' : OfChain(asked'[n])
    BY <1>3, <2>1, <2>2
  <2>4. \A n \in DOMAIN answers' : answers'[n].how # "scored" => answers'[n].score = 0
    BY <1>1, <1>2, <1>4, <1>5, <2>1
  <2> QED BY <2>3, <2>4 DEF Docs!KindInv, OfChain
<1>8. CASE asked = <<>>
  <2>1. Len(asked) = 0 /\ Len(asked) + 1 = 1
    BY <1>1, <1>8, EmptySeq
  <2>2. asked'[1] = request /\ DOMAIN asked' = 1..1 /\ Len(asked') = 1
    BY <1>3, <1>5, <2>1
  <2>3. setup.history = "some" => pc = "begin"
    BY <1>8
  <2>4. Docs!CondenseInv'
    <3>1. setup'.history = "some" => request.to = "condense" /\ pc' = "ask"
      BY <2>3
    <3>2. asked' # <<>>
      BY <1>3, <2>2, EmptySeq
    <3> QED BY <2>2, <3>1, <3>2 DEF Docs!CondenseInv
  <2>5. Docs!QuestionIsCondensedFirst'
    <3>1. \A n \in DOMAIN asked' :
              asked'[n].to = "condense" => n = 1 /\ setup'.history = "some"
      BY DEF Docs!IInv, Docs!AskedInv
    <3>2. \A n \in DOMAIN asked' : asked'[n] = request /\ request.question # "generated"
      BY <2>2, <2>3
    <3> QED BY <3>1, <3>2 DEF Docs!QuestionIsCondensedFirst
  <2> QED BY <1>6, <1>7, <2>4, <2>5
<1>9. CASE asked # <<>>
  <2>1. 1 \in 1..Len(asked) /\ asked'[1] = asked[1] /\ answers'[1] = heard[1] /\ pc # "begin"
    <3>1. Len(asked) # 0
      BY <1>1, <1>9, EmptySeq
    <3>2. 1 \in 1..Len(asked)
      BY <1>1, <3>1
    <3> QED BY <1>3, <1>4, <1>9, <3>2 DEF Docs!IInv, Docs!AskedInv
  <2>2. asked' # <<>>
    BY <1>1, <1>3, EmptySeq
  <2>3. Docs!CondenseInv'
    BY <2>1, <2>2 DEF Docs!CondenseInv
  <2>4. Docs!QuestionIsCondensedFirst'
    <3>1. \A n \in DOMAIN asked' :
              asked'[n].to = "condense" => n = 1 /\ setup'.history = "some"
      BY DEF Docs!IInv, Docs!AskedInv
    <3>2. ASSUME NEW n \in DOMAIN asked', asked'[n].question = "generated"
          PROVE  n > 1 /\ asked[1].to = "condense" /\ heard[1].how = "text"
      <4>1. CASE n \in 1..Len(asked)
        <5>1. asked[n].question = "generated"
          BY <1>3, <3>2, <4>1
        <5>2. n > 1 /\ asked[1].to = "condense"
          BY <1>1, <4>1, <5>1 DEF Docs!QuestionIsCondensedFirst
        <5>3. setup.history = "some"
          BY <1>1, <2>1, <5>2 DEF Docs!IInv, Docs!AskedInv
        <5> QED BY <2>1, <5>2, <5>3
      <4>2. CASE n = Len(asked) + 1
        <5>1. request.question = "generated"
          BY <1>3, <3>2, <4>2
        <5> QED BY <1>1, <2>1, <4>2, <5>1
      <4> QED BY <1>1, <1>5, <4>1, <4>2
    <3> QED BY <2>1, <3>1, <3>2 DEF Docs!QuestionIsCondensedFirst
  <2> QED BY <1>6, <1>7, <2>3, <2>4
<1> QED BY <1>8, <1>9

(* A step after which the call is not answered says nothing of its answer. *)
LEMMA NotYetBest == ASSUME outcome'.how # "ok" PROVE Docs!AnswerIsBest'
BY DEF Docs!AnswerIsBest, Docs!Ok

(* While the call goes on it has no outcome and no answer is an error.     *)
LEMMA Running ==
    ASSUME Docs!IInv, Docs!AnswerInv, pc # "returned"
    PROVE  /\ outcome.how = "none" /\ outcome \in Docs!Outcome /\ kept = <<>> /\ Docs!SequenceInv
           /\ \A n \in DOMAIN answers : answers[n].how # "scored" => answers[n].score = 0
BY DEF Docs!IInv, Docs!RunningInv, Docs!AnswerInv, Docs!TypeOK, Docs!KindInv

(* The history is read.                                                    *)
LEMMA BeginsWell == ASSUME Docs!IInv, Docs!IInv', Docs!AnswerInv, Docs!getQuestion
    PROVE Docs!AnswerInv'
<1> USE DEF Docs!AnswerInv
<1>1. /\ pc = "begin" /\ UNCHANGED <<setup, kept>> /\ asked = <<>>
      /\ Len(asked) = 0 /\ answers \in Seq(Docs!Answer) /\ Len(answers) = Len(asked)
      /\ kept = <<>> /\ outcome \in Docs!Outcome /\ outcome.how = "none"
      /\ \A n \in DOMAIN answers : answers[n].how # "scored" => answers[n].score = 0
  BY Running, EmptySeq, SequencesAre DEF Docs!IInv, Docs!AskedInv, Docs!getQuestion,
     Docs!calling
<1>2. CASE UNCHANGED <<asked, answers>> /\ Docs!Failed
  <2>1. outcome' \in Docs!Outcome /\ outcome'.how = "error" /\ pc' = "returned"
    BY <1>2, OutcomesAre
  <2>2. Docs!TypeOK' /\ Docs!KindInv' /\ Docs!CondenseInv' /\ Docs!QuestionIsCondensedFirst'
    BY <1>1, <1>2, <2>1, KindsStay
  <2> QED BY <2>1, <2>2, NotYetBest
<1>3. CASE /\ setup.history = "none" /\ pc' = "retrieve"
           /\ UNCHANGED <<asked, answers, outcome>>
  <2>2. Docs!TypeOK' /\ Docs!KindInv' /\ Docs!CondenseInv' /\ Docs!QuestionIsCondensedFirst'
    BY <1>1, <1>3, KindsStay
  <2> QED BY <1>1, <1>3, <2>2, NotYetBest
<1>4. CASE /\ setup.history = "some" /\ pc' = "ask"
           /\ asked' = Append(asked, [to |-> "condense", texts |-> <<>>,
                                      question |-> "asked", existing |-> 0])
           /\ answers' = Append(answers, Docs!Pending)
           /\ UNCHANGED outcome
  <2> DEFINE request == [to |-> "condense", texts |-> <<>>, question |-> "asked",
                         existing |-> 0]
  <2>1. /\ request \in Docs!Request /\ request.to = "condense" /\ request.question = "asked"
        /\ OfChain(request)
    <3>1. <<>> \in Seq([of : Docs!Origins, at : Nat])
      BY EmptySeq
    <3> QED BY <3>1 DEF Docs!Request, OfChain
  <2>2. asked' = Append(asked, request) /\ answers' = Append(answers, Docs!Pending)
    BY <1>4
  <2> HIDE DEF request
  <2>3. Docs!TypeOK' /\ Docs!KindInv' /\ Docs!CondenseInv' /\ Docs!QuestionIsCondensedFirst'
    BY <1>1, <1>4, <2>1, <2>2, KindsGrow
  <2> QED BY <1>1, <1>4, <2>3, NotYetBest
<1> QED BY <1>2, <1>3, <1>4 DEF Docs!getQuestion

(* The documents are found.                                                *)
LEMMA RetrievesWell == ASSUME Docs!IInv, Docs!IInv', Docs!AnswerInv, Docs!GetRelevantDocuments
    PROVE Docs!AnswerInv'
<1> USE DEF Docs!AnswerInv
<1>1. /\ pc = "retrieve" /\ UNCHANGED <<setup, kept, asked, answers>>
      /\ kept = <<>> /\ outcome \in Docs!Outcome /\ outcome.how = "none"
      /\ \A n \in DOMAIN answers : answers[n].how # "scored" => answers[n].score = 0
  BY Running DEF Docs!GetRelevantDocuments, Docs!calling
<1>2. outcome' \in Docs!Outcome /\ outcome'.how # "ok" /\ pc' \in {"combine", "returned"}
  BY <1>1, OutcomesAre DEF Docs!GetRelevantDocuments
<1>3. Docs!TypeOK' /\ Docs!KindInv' /\ Docs!CondenseInv' /\ Docs!QuestionIsCondensedFirst'
  BY <1>1, <1>2, KindsStay DEF Docs!CondenseInv
<1> QED BY <1>2, <1>3, NotYetBest

(* The texts of a request are from places that are.                        *)
LEMMA TextsOfRequests ==
    ASSUME Docs!SequenceInv
    PROVE  /\ Docs!rephraseQuestion \in {"asked", "generated"}
           /\ Docs!rephraseQuestion = "generated" => setup.history = "some"
           /\ Docs!joinDocuments("document") \in Seq([of : Docs!Origins, at : Nat])
           /\ \A k \in DOMAIN docs : Docs!getBaseInputs(docs[k]) \in Seq([of : Docs!Origins, at : Nat])
           /\ \A k \in Nat : <<Docs!From("document", k)>> \in Seq([of : Docs!Origins, at : Nat])
           /\ Len(asked) >= Len(docs) =>
                 [k \in DOMAIN docs |-> Docs!From("answer", Len(asked) - Len(docs) + k)]
                     \in Seq([of : Docs!Origins, at : Nat])
           /\ <<>> \in Seq([of : Docs!Origins, at : Nat])
<1> DEFINE Text == [of : Docs!Origins, at : Nat]
<1>1. PICK m \in Nat : docs \in [1..m -> Docs!Document] /\ DOMAIN docs = 1..m /\ Len(docs) = m
  BY DocsAre DEF Docs!SequenceInv
<1>2. \A origin \in Docs!Origins, k \in Nat : Docs!From(origin, k) \in Text
  BY DEF Docs!From
<1>3. \A origin \in Docs!Origins, k \in Nat : <<Docs!From(origin, k)>> \in Seq(Text)
  BY <1>2
<1>4. /\ Docs!rephraseQuestion \in {"asked", "generated"}
      /\ Docs!rephraseQuestion = "generated" => setup.history = "some"
  BY DEF Docs!rephraseQuestion
<1>5. Docs!joinDocuments("document") \in Seq(Text)
  <2>1. \A k \in 1..m : Docs!From("document", k) \in Text
    BY <1>2 DEF Docs!Origins
  <2>2. [k \in 1..m |-> Docs!From("document", k)] \in [1..m -> Text]
    BY <2>1
  <2> QED BY <1>1, <2>2 DEF Docs!joinDocuments
<1>6. ASSUME NEW k \in DOMAIN docs PROVE Docs!getBaseInputs(docs[k]) \in Seq(Text)
  <2>1. docs[k].place \in Nat
    <3>1. docs[k] \in Docs!Document
      BY <1>1
    <3>2. docs[k].place \in 1..MaxDocs
      BY <3>1 DEF Docs!Document
    <3> QED BY <3>2
  <2>2. Docs!getBaseInputs(docs[k]) \in {<<Docs!From("caller", 0)>>,
                                    <<Docs!From("metadata", docs[k].place)>>,
                                    <<Docs!From("document", docs[k].place)>>}
    BY DEF Docs!getBaseInputs
  <2>3. /\ "caller" \in Docs!Origins /\ "metadata" \in Docs!Origins /\ "document" \in Docs!Origins
        /\ 0 \in Nat
    BY DEF Docs!Origins
  <2> HIDE DEF Text
  <2>4. /\ <<Docs!From("caller", 0)>> \in Seq(Text)
        /\ <<Docs!From("metadata", docs[k].place)>> \in Seq(Text)
        /\ <<Docs!From("document", docs[k].place)>> \in Seq(Text)
    BY <1>3, <2>1, <2>3
  <2> QED BY <2>2, <2>4
<1>7. ASSUME Len(asked) >= Len(docs)
      PROVE  [k \in DOMAIN docs |-> Docs!From("answer", Len(asked) - Len(docs) + k)] \in Seq(Text)
  <2> DEFINE first == Len(asked) - Len(docs)
  <2>1. first \in Nat
    BY <1>1, <1>7, SequencesAre
  <2> HIDE DEF first
  <2>2. \A k \in 1..m : Docs!From("answer", first + k) \in Text
    BY <1>2, <2>1 DEF Docs!Origins
  <2>3. [k \in 1..m |-> Docs!From("answer", first + k)] \in [1..m -> Text]
    BY <2>2
  <2>4. [k \in DOMAIN docs |-> Docs!From("answer", first + k)] \in Seq(Text)
    BY <1>1, <2>3
  <2> QED BY <2>4 DEF first
<1>8. <<>> \in Seq(Text)
  BY EmptySeq
<1> QED BY <1>3, <1>4, <1>5, <1>6, <1>7, <1>8 DEF Docs!Origins

(* The first request of the documents is made.                             *)
LEMMA CombinesWell == ASSUME Docs!IInv, Docs!IInv', Docs!AnswerInv, Docs!Combine
    PROVE Docs!AnswerInv'
<1> USE DEF Docs!AnswerInv
<1>1. /\ pc = "combine" /\ UNCHANGED <<setup, kept, docs>> /\ Docs!SequenceInv
      /\ kept = <<>> /\ outcome \in Docs!Outcome /\ outcome.how = "none"
      /\ answers \in Seq(Docs!Answer) /\ Len(answers) = Len(asked)
      /\ \A n \in DOMAIN answers : answers[n].how # "scored" => answers[n].score = 0
  BY Running, SequencesAre DEF Docs!Combine, Docs!calling
<1>2. setup.history = "some" =>
          asked # <<>> /\ asked[1].to = "condense" /\ answers[1].how = "text"
  BY <1>1 DEF Docs!CondenseInv
<1>3. CASE /\ UNCHANGED <<asked, answers>> /\ outcome' \in Docs!Outcome /\ outcome'.how # "ok"
           /\ pc' \in {"map", "returned"}
  <2>1. Docs!TypeOK' /\ Docs!KindInv' /\ Docs!CondenseInv' /\ Docs!QuestionIsCondensedFirst'
    BY <1>1, <1>2, <1>3, KindsStay
  <2> QED BY <1>3, <2>1, NotYetBest
<1>4. ASSUME NEW to \in {"stuff", "initial", "reduce"},
             NEW texts \in Seq([of : Docs!Origins, at : Nat]),
             Docs!Ask(to, texts, 0), pc' = "ask", UNCHANGED outcome,
             \/ setup.chain = "stuff" /\ to = "stuff"
             \/ setup.chain = "refine" /\ to = "initial"
             \/ setup.chain = "map_reduce" /\ to = "reduce"
      PROVE  Docs!AnswerInv'
  <2> DEFINE request == [to |-> to, texts |-> texts, question |-> Docs!rephraseQuestion,
                         existing |-> 0]
  <2>1. /\ request \in Docs!Request /\ OfChain(request)
        /\ request.question = "generated" => setup.history = "some"
    BY <1>1, <1>4, TextsOfRequests DEF Docs!Request, OfChain
  <2>2. asked' = Append(asked, request) /\ answers' = Append(answers, Docs!Pending)
    BY <1>4 DEF Docs!Ask
  <2> HIDE DEF request
  <2>3. Docs!TypeOK' /\ Docs!KindInv' /\ Docs!CondenseInv' /\ Docs!QuestionIsCondensedFirst'
    BY <1>1, <1>2, <1>4, <2>1, <2>2, KindsGrow
  <2> QED BY <1>1, <1>4, <2>3, NotYetBest
<1>5. CASE ~setup.typed \/ (docs = <<>> /\ setup.chain \in {"refine", "map_rerank"})
  <2>1. Docs!Failed /\ UNCHANGED <<asked, answers>>
    BY <1>5 DEF Docs!Combine
  <2> QED BY <1>3, <2>1, OutcomesAre
<1>6. CASE ~(~setup.typed \/ (docs = <<>> /\ setup.chain \in {"refine", "map_rerank"}))
  <2>1. UNCHANGED outcome
    BY <1>6 DEF Docs!Combine
  <2>2. CASE /\ setup.chain \in {"map_reduce", "map_rerank"} /\ docs # <<>>
             /\ UNCHANGED <<asked, answers>>
    BY <1>1, <1>3, <1>6, <2>1, <2>2 DEF Docs!Combine
  <2>4. CASE setup.chain = "stuff" /\ Docs!Ask("stuff", Docs!joinDocuments("document"), 0)
    BY <1>1, <1>4, <1>6, <2>1, <2>4, TextsOfRequests DEF Docs!Combine
  <2>5. CASE setup.chain = "refine" /\ Docs!Ask("initial", Docs!getBaseInputs(docs[1]), 0)
    <3>1. 1 \in DOMAIN docs
      <4>1. PICK m \in Nat : docs \in [1..m -> Docs!Document] /\ DOMAIN docs = 1..m /\ Len(docs) = m
        BY <1>1, DocsAre DEF Docs!SequenceInv
      <4>2. docs \in Seq(Docs!Document) /\ docs # <<>>
        BY <1>6, <2>5, <4>1
      <4> QED BY <4>1, <4>2, EmptySeq
    <3> QED BY <1>1, <1>4, <1>6, <2>1, <2>5, <3>1, TextsOfRequests DEF Docs!Combine
  <2>6. CASE setup.chain = "map_reduce" /\ docs = <<>> /\ Docs!Ask("reduce", <<>>, 0)
    BY <1>1, <1>4, <1>6, <2>1, <2>6, TextsOfRequests DEF Docs!Combine
  <2> QED BY <1>6, <2>2, <2>4, <2>5, <2>6 DEF Docs!Combine
<1> QED BY <1>5, <1>6

(* A worker takes the next document.                                       *)
LEMMA AsksNextWell == ASSUME Docs!IInv, Docs!IInv', Docs!AnswerInv, Docs!AskNext
    PROVE Docs!AnswerInv'
<1> USE DEF Docs!AnswerInv
<1> DEFINE k == Cardinality(Docs!Maps) + 1
<1>1. /\ pc = "map" /\ UNCHANGED <<setup, kept, docs, pc, outcome>> /\ Docs!SequenceInv
      /\ Docs!Ask("map", <<Docs!From("document", k)>>, 0)
      /\ outcome.how = "none" /\ setup.chain \in {"map_reduce", "map_rerank"}
      /\ answers \in Seq(Docs!Answer) /\ Len(answers) = Len(asked)
      /\ \A n \in DOMAIN answers : answers[n].how # "scored" => answers[n].score = 0
  BY SameCount, Running, SequencesAre DEF Docs!IInv, Docs!AskedInv, Docs!AskNext, Docs!calling
<1>2. k \in Nat
  <2>1. Cardinality(Docs!Maps) \in Nat
    BY <1>1, Counted DEF Docs!Maps
  <2> QED BY <2>1
<1> HIDE DEF k
<1> DEFINE request == [to |-> "map", texts |-> <<Docs!From("document", k)>>,
                       question |-> Docs!rephraseQuestion, existing |-> 0]
<1>3. /\ request \in Docs!Request /\ OfChain(request)
      /\ request.question = "generated" => setup.history = "some"
  BY <1>1, <1>2, TextsOfRequests DEF Docs!Request, OfChain
<1>4. asked' = Append(asked, request) /\ answers' = Append(answers, Docs!Pending)
  BY <1>1 DEF Docs!Ask
<1> HIDE DEF request
<1>5. setup.history = "some" =>
          asked # <<>> /\ asked[1].to = "condense" /\ answers[1].how = "text"
  BY <1>1 DEF Docs!CondenseInv
<1>6. Docs!TypeOK' /\ Docs!KindInv' /\ Docs!CondenseInv' /\ Docs!QuestionIsCondensedFirst'
  BY <1>1, <1>3, <1>4, <1>5, KindsGrow
<1> QED BY <1>1, <1>6, NotYetBest

(* A set of requests has a first one.                                      *)
LEMMA FirstOne ==
    ASSUME NEW S \in SUBSET Nat, S # {}
    PROVE  \E m \in S : \A n \in S : m <= n
<1>1. PICK m \in S : \A n \in S : ~(<<n, m>> \in OpToRel(<, Nat))
  BY WFMin, NatLessThanWellFounded
<1>2. ASSUME NEW n \in S PROVE m <= n
  <2>1. ~(n < m) /\ n \in Nat /\ m \in Nat
    BY <1>1 DEF OpToRel
  <2> QED BY <2>1
<1> QED BY <1>2

(* When all are heard the answer that is ranked first has the highest score, *)
(* and one without a score is first only if no answer has one.             *)
LEMMA RankedIsBest ==
    ASSUME Docs!SequenceInv, NEW heard \in Seq(Docs!Answer), Len(heard) = Len(asked), Docs!Maps # {},
           \A n \in DOMAIN heard : heard[n].how # "scored" => heard[n].score = 0
    PROVE  /\ Docs!Ranked(heard) \in Docs!Maps
           /\ \A n \in Docs!Maps :
                 /\ heard[n].score <= heard[Docs!Ranked(heard)].score
                 /\ heard[n].how = "scored" => heard[Docs!Ranked(heard)].how = "scored"
<1> DEFINE before(m, n) == /\ heard[m].how = "scored"
                           /\ heard[n].how = "scored" => heard[m].score > heard[n].score
           first(m) == \A n \in Docs!Maps \ {m} : ~before(n, m)
<1>1. /\ DOMAIN heard = 1..Len(asked) /\ Docs!Maps \subseteq 1..Len(asked) /\ Len(asked) \in Nat
  BY SequencesAre, LenProperties DEF Docs!Maps
<1>2. \A n \in Docs!Maps : heard[n].score \in {0, 1} /\ n \in DOMAIN heard
  <2> SUFFICES ASSUME NEW n \in Docs!Maps PROVE heard[n].score \in {0, 1} /\ n \in DOMAIN heard
    OBVIOUS
  <2>1. n \in DOMAIN heard /\ heard[n] \in Docs!Answer
    BY <1>1, ElementOfSeq
  <2>2. heard[n].score \in 0..1
    BY <2>1 DEF Docs!Answer
  <2> QED BY <2>1, <2>2
<1>3. \E m \in Docs!Maps : first(m)
  <2>1. CASE \E m \in Docs!Maps : heard[m].how = "scored" /\ heard[m].score = 1
    <3>1. PICK m \in Docs!Maps : heard[m].how = "scored" /\ heard[m].score = 1
      BY <2>1
    <3>2. \A n \in Docs!Maps : ~(heard[n].score > 1)
      BY <1>2
    <3> QED BY <3>1, <3>2
  <2>2. CASE /\ ~\E m \in Docs!Maps : heard[m].how = "scored" /\ heard[m].score = 1
             /\ \E m \in Docs!Maps : heard[m].how = "scored"
    <3>1. PICK m \in Docs!Maps : heard[m].how = "scored" /\ heard[m].score = 0
      BY <1>2, <2>2
    <3>2. \A n \in Docs!Maps : heard[n].how = "scored" => ~(heard[n].score > 0)
      BY <1>2, <2>2
    <3> QED BY <3>1, <3>2
  <2>3. CASE ~\E m \in Docs!Maps : heard[m].how = "scored"
    BY <2>3
  <2> QED BY <2>1, <2>2, <2>3
<1> DEFINE S == {m \in Docs!Maps : first(m)}
<1>4. PICK m \in S : \A n \in S : m <= n
  <2>1. S \in SUBSET Nat
    <3>1. S \subseteq Docs!Maps
      OBVIOUS
    <3>2. \A m \in Docs!Maps : m \in Nat
      BY <1>1
    <3> HIDE DEF S
    <3> QED BY <3>1, <3>2
  <2>2. S # {}
    <3>1. PICK m \in Docs!Maps : first(m)
      BY <1>3
    <3>2. m \in S
      BY <3>1
    <3> QED BY <3>2
  <2> HIDE DEF S
  <2> QED BY <2>1, <2>2, FirstOne
<1>5. Docs!Ranked(heard) \in Docs!Maps /\ first(Docs!Ranked(heard))
  <2>1. \E k \in Docs!Maps : first(k) /\ \A n \in Docs!Maps : first(n) => k <= n
    BY <1>4
  <2>2. Docs!Ranked(heard) = CHOOSE k \in Docs!Maps : first(k) /\ \A n \in Docs!Maps : first(n) => k <= n
    BY DEF Docs!Ranked
  <2> HIDE DEF first
  <2> QED BY <2>1, <2>2
<1> DEFINE best == Docs!Ranked(heard)
<1>6. ASSUME NEW n \in Docs!Maps
      PROVE  /\ heard[n].score <= heard[best].score
             /\ heard[n].how = "scored" => heard[best].how = "scored"
  <2> HIDE DEF best
  <2>1. best \in Docs!Maps /\ (n # best => ~before(n, best))
    BY <1>5 DEF best
  <2>2. heard[n].score \in {0, 1} /\ heard[best].score \in {0, 1}
    BY <1>2, <2>1
  <2>3. heard[n].how # "scored" => heard[n].score = 0
    BY <1>2
  <2>4. CASE n = best
    BY <2>2, <2>4
  <2>5. CASE n # best /\ heard[n].how = "scored"
    BY <2>1, <2>2, <2>5
  <2>6. CASE heard[n].how # "scored"
    BY <2>2, <2>3, <2>6
  <2> QED BY <2>4, <2>5, <2>6
<1> QED BY <1>5, <1>6

(* What the model says to a request: a score only to that of a document.   *)
LEMMA SaidWith ==
    ASSUME NEW request, NEW answer \in Docs!Says(request)
    PROVE  /\ answer \in Docs!Answer /\ answer.how \in {"failed", "text", "scored", "unscored"}
           /\ answer.how # "scored" => answer.score = 0
           /\ answer.how # "text" /\ answer.how # "failed" => request.to = "map"
BY DEF Docs!Says, Docs!Plain, Docs!Answer, Docs!Hows

(* A call returns this answer, or an error.                                *)
LEMMA ReturnIs ==
    ASSUME NEW n \in Nat, Docs!Return(n), kept = <<>>
    PROVE  /\ outcome' \in Docs!Outcome /\ pc' = "returned"
           /\ outcome'.how # "ok" \/ outcome'.answer = n
           /\ kept' \in {<<>>, <<"question">>, <<"question", "answer">>}
<1>1. /\ Docs!Ended("ok", n) => outcome' \in Docs!Outcome /\ pc' = "returned" /\ outcome'.answer = n
      /\ Docs!Failed => outcome' \in Docs!Outcome /\ pc' = "returned" /\ outcome'.how = "error"
  BY OutcomesAre
<1> QED BY <1>1 DEF Docs!Return, Docs!SaveContext

(* A document is answered, in whatever order.                              *)
LEMMA DocumentAnsweredWell ==
    ASSUME Docs!IInv, Docs!IInv', Docs!AnswerInv, NEW n \in DOMAIN asked, Docs!AnswerOfDocument(n)
    PROVE  Docs!AnswerInv'
<1> USE DEF Docs!AnswerInv
<1>1. /\ pc = "map" /\ UNCHANGED <<setup, docs>> /\ Docs!SequenceInv
      /\ answers[n].how = "pending" /\ asked[n].to = "map"
      /\ DOMAIN asked = DOMAIN answers /\ DOMAIN asked = 1..Len(asked) /\ Len(asked) \in Nat
      /\ setup.chain \in {"map_reduce", "map_rerank"} /\ docs \in Docs!DocumentLists
  BY SequencesAre DEF Docs!IInv, Docs!SequenceInv, Docs!WaitingInv, Docs!AskedInv,
     Docs!AnswerOfDocument, Docs!Waiting
<1>2. /\ outcome.how = "none" /\ outcome \in Docs!Outcome /\ kept = <<>>
      /\ \A m \in DOMAIN answers : answers[m].how # "scored" => answers[m].score = 0
  BY <1>1, Running
<1>3. PICK answer \in Docs!Says(asked[n]) :
        LET heard == [answers EXCEPT ![n] = answer]
            waits == \E m \in Docs!Maps : heard[m].how = "pending"
        IN IF answer.how = "failed"
           THEN Docs!Failed /\ answers' = heard /\ UNCHANGED <<asked, kept>>
           ELSE IF waits \/ Cardinality(Docs!Maps) < Len(docs)
                THEN answers' = heard /\ UNCHANGED <<asked, pc, kept, outcome>>
                ELSE Docs!Reduce(heard)
  BY SameCount DEF Docs!AnswerOfDocument
<1> DEFINE heard == [answers EXCEPT ![n] = answer]
           waits == \E m \in Docs!Maps : heard[m].how = "pending"
<1>4. answer \in Docs!Answer /\ (answer.how # "scored" => answer.score = 0)
  BY SaidWith
<1>5. /\ heard \in Seq(Docs!Answer) /\ Len(heard) = Len(asked)
      /\ DOMAIN heard = DOMAIN answers /\ heard[n] = answer
      /\ \A k \in DOMAIN answers : k # n => heard[k] = answers[k]
  BY <1>1, <1>4, ReplyHeard
<1>6. \/ Docs!Failed /\ answers' = heard /\ UNCHANGED <<asked, kept>>
      \/ answers' = heard /\ UNCHANGED <<asked, pc, kept, outcome>>
      \/ ~(Cardinality(Docs!Maps) < Len(docs)) /\ Docs!Reduce(heard)
  BY <1>3
<1> HIDE DEF heard
<1>7. \A k \in DOMAIN heard : heard[k].how # "scored" => heard[k].score = 0
  BY <1>2, <1>4, <1>5
<1>8. setup.history = "some" =>
          asked # <<>> /\ asked[1].to = "condense" /\ heard[1].how = "text"
  <2> SUFFICES ASSUME setup.history = "some"
               PROVE  asked # <<>> /\ asked[1].to = "condense" /\ heard[1].how = "text"
    OBVIOUS
  <2>1. asked # <<>> /\ asked[1].to = "condense" /\ answers[1].how = "text"
    BY <1>1 DEF Docs!CondenseInv
  <2>2. 1 \in DOMAIN answers /\ 1 # n
    BY <1>1, <2>1
  <2> QED BY <1>5, <2>1, <2>2
<1>9. Len(asked) > 1 /\ answers[1].how = "text" => heard[1].how = "text"
  <2>1. Len(asked) > 1 => 1 \in DOMAIN answers
    BY <1>1
  <2> QED BY <1>1, <1>5, <2>1
<1>10. CASE /\ answers' = heard /\ UNCHANGED <<asked, kept>>
            /\ \/ Docs!Failed
               \/ UNCHANGED <<pc, outcome>>
  <2>1. outcome' \in Docs!Outcome /\ outcome'.how # "ok" /\ pc' \in {"map", "returned"}
    BY <1>1, <1>2, <1>10, OutcomesAre
  <2>2. Docs!TypeOK' /\ Docs!KindInv' /\ Docs!CondenseInv' /\ Docs!QuestionIsCondensedFirst'
    BY <1>1, <1>2, <1>7, <1>8, <1>9, <1>10, <2>1, KindsStay
  <2> QED BY <2>1, <2>2, NotYetBest
<1>11. CASE ~(Cardinality(Docs!Maps) < Len(docs)) /\ Docs!Reduce(heard)
  <2>1. CASE setup.chain = "map_rerank"
    <3>1. Docs!Return(Docs!Ranked(heard)) /\ answers' = heard /\ UNCHANGED asked
      BY <1>11, <2>1 DEF Docs!Reduce
    <3>2. n \in Docs!Maps
      BY <1>1 DEF Docs!Maps
    <3>3. /\ Docs!Ranked(heard) \in Docs!Maps
          /\ \A m \in Docs!Maps : /\ heard[m].score <= heard[Docs!Ranked(heard)].score
                                  /\ heard[m].how = "scored" => heard[Docs!Ranked(heard)].how = "scored"
      BY <1>1, <1>5, <1>7, <3>2, RankedIsBest
    <3>4. Docs!Ranked(heard) \in Nat
      BY <1>1, <3>3 DEF Docs!Maps
    <3>5. /\ outcome' \in Docs!Outcome /\ pc' = "returned"
          /\ outcome'.how # "ok" \/ outcome'.answer = Docs!Ranked(heard)
          /\ kept' \in {<<>>, <<"question">>, <<"question", "answer">>}
      BY <1>2, <3>1, <3>4, ReturnIs
    <3>6. Docs!TypeOK' /\ Docs!KindInv' /\ Docs!CondenseInv' /\ Docs!QuestionIsCondensedFirst'
      BY <1>1, <1>2, <1>7, <1>8, <1>9, <3>1, <3>5, KindsStay
    <3>7. Docs!AnswerIsBest'
      <4>1. Docs!Maps' = Docs!Maps
        BY <3>1 DEF Docs!Maps
      <4> QED BY <1>1, <2>1, <3>1, <3>3, <3>5, <4>1 DEF Docs!AnswerIsBest, Docs!Ok
    <3> QED BY <3>6, <3>7
  <2>2. CASE setup.chain = "map_reduce"
    <3> DEFINE all == [to |-> "reduce", question |-> Docs!rephraseQuestion, existing |-> 0,
                       texts |-> [k \in DOMAIN docs |->
                                     Docs!From("answer", Len(asked) - Len(docs) + k)]]
    <3>1. Len(asked) >= Len(docs)
      <4>1. IsFiniteSet(1..Len(asked)) /\ Cardinality(1..Len(asked)) = Len(asked)
        <5>1. \A m \in Nat : IsFiniteSet(1..m) /\ Cardinality(1..m) = m
          BY FS_Interval
        <5> QED BY <1>1, <5>1
      <4>2. Docs!Maps \subseteq 1..Len(asked)
        BY <1>1 DEF Docs!Maps
      <4>3. Cardinality(Docs!Maps) <= Len(asked)
        BY <4>1, <4>2, FS_Subset
      <4>4. Cardinality(Docs!Maps) \in Nat
        BY <1>1, Counted DEF Docs!Maps
      <4>5. Len(docs) \in Nat
        BY <1>1, DocsAre
      <4> QED BY <1>1, <1>11, <4>3, <4>4, <4>5
    <3>2. /\ all \in Docs!Request /\ OfChain(all)
          /\ all.question = "generated" => setup.history = "some"
      BY <1>1, <2>2, <3>1, TextsOfRequests DEF Docs!Request, OfChain
    <3>3. /\ asked' = Append(asked, all) /\ answers' = Append(heard, Docs!Pending)
          /\ pc' = "ask" /\ UNCHANGED <<outcome, kept>>
      BY <1>11, <2>2 DEF Docs!Reduce
    <3> HIDE DEF all
    <3>4. Docs!TypeOK' /\ Docs!KindInv' /\ Docs!CondenseInv' /\ Docs!QuestionIsCondensedFirst'
      BY <1>1, <1>5, <1>7, <1>8, <3>2, <3>3, KindsGrow
    <3> QED BY <1>2, <3>3, <3>4, NotYetBest
  <2> QED BY <1>1, <2>1, <2>2
<1> QED BY <1>6, <1>10, <1>11

(* The one open request is answered.                                       *)
LEMMA LastAnsweredWell ==
    ASSUME Docs!IInv, Docs!IInv', Docs!AnswerInv, NEW n \in DOMAIN asked, Docs!AnswerOf(n)
    PROVE  Docs!AnswerInv'
<1> USE DEF Docs!AnswerInv
<1>1. /\ pc = "ask" /\ n = Len(asked) /\ UNCHANGED <<setup, docs>> /\ Docs!SequenceInv
      /\ DOMAIN asked = DOMAIN answers /\ DOMAIN asked = 1..Len(asked) /\ Len(asked) \in Nat
      /\ docs \in Docs!DocumentLists /\ n \in Nat
  BY SequencesAre DEF Docs!IInv, Docs!SequenceInv, Docs!AnswerOf
<1>2. /\ outcome.how = "none" /\ outcome \in Docs!Outcome /\ kept = <<>>
      /\ \A m \in DOMAIN answers : answers[m].how # "scored" => answers[m].score = 0
  BY <1>1, Running
<1>3. PICK answer \in Docs!Says(asked[n]) :
          LET heard == [answers EXCEPT ![n] = answer]
              made == Cardinality(Docs!Refined)
          IN \/ /\ answer.how = "failed" /\ answers' = heard
                /\ IF asked[n].to = "reduce" THEN Docs!maybeAddIntermediateSteps ELSE Docs!Failed
                /\ UNCHANGED <<asked, kept>>
             \/ /\ answer.how = "text" /\ asked[n].to = "condense" /\ answers' = heard
                /\ IF setup.renamed THEN Docs!Failed ELSE pc' = "retrieve" /\ UNCHANGED outcome
                /\ UNCHANGED <<asked, kept>>
             \/ /\ answer.how = "text" /\ asked[n].to \in {"initial", "refine"}
                /\ made < Len(docs)
                /\ asked' = Append(asked, [to |-> "refine", existing |-> n,
                                           texts |-> Docs!getBaseInputs(docs[made + 1]),
                                           question |-> Docs!rephraseQuestion])
                /\ answers' = Append(heard, Docs!Pending)
                /\ UNCHANGED <<pc, kept, outcome>>
             \/ /\ answer.how = "text" /\ answers' = heard /\ UNCHANGED asked
                /\ \/ asked[n].to \in {"stuff", "reduce"}
                   \/ asked[n].to \in {"initial", "refine"} /\ made = Len(docs)
                /\ Docs!Return(n)
  BY SameCount DEF Docs!AnswerOf
<1> DEFINE heard == [answers EXCEPT ![n] = answer]
           made == Cardinality(Docs!Refined)
<1>4. answer \in Docs!Answer /\ (answer.how # "scored" => answer.score = 0)
  BY SaidWith
<1>5. /\ heard \in Seq(Docs!Answer) /\ Len(heard) = Len(asked)
      /\ DOMAIN heard = DOMAIN answers /\ heard[n] = answer
      /\ \A k \in DOMAIN answers : k # n => heard[k] = answers[k]
  BY <1>1, <1>4, ReplyHeard
<1> HIDE DEF heard
<1>7. \A k \in DOMAIN heard : heard[k].how # "scored" => heard[k].score = 0
  BY <1>2, <1>4, <1>5
<1>8. setup.history = "some" => asked # <<>> /\ asked[1].to = "condense"
  BY <1>1 DEF Docs!CondenseInv
<1>9. Len(asked) > 1 /\ answers[1].how = "text" => heard[1].how = "text"
  <2>1. Len(asked) > 1 => 1 \in DOMAIN answers /\ 1 # n
    BY <1>1
  <2> QED BY <1>5, <2>1
<1>10. CASE /\ answer.how = "failed" /\ answers' = heard
            /\ IF asked[n].to = "reduce" THEN Docs!maybeAddIntermediateSteps ELSE Docs!Failed
            /\ UNCHANGED <<asked, kept>>
  <2>1. outcome' \in Docs!Outcome /\ outcome'.how # "ok" /\ pc' = "returned"
    BY <1>10, OutcomesAre DEF Docs!maybeAddIntermediateSteps
  <2>2. Docs!TypeOK' /\ Docs!KindInv' /\ Docs!CondenseInv' /\ Docs!QuestionIsCondensedFirst'
    BY <1>1, <1>2, <1>7, <1>9, <1>10, <2>1, KindsStay
  <2> QED BY <2>1, <2>2, NotYetBest
<1>11. CASE /\ answer.how = "text" /\ asked[n].to = "condense" /\ answers' = heard
            /\ IF setup.renamed THEN Docs!Failed ELSE pc' = "retrieve" /\ UNCHANGED outcome
            /\ UNCHANGED <<asked, kept>>
  <2>1. outcome' \in Docs!Outcome /\ outcome'.how # "ok" /\ pc' \in {"retrieve", "returned"}
    BY <1>2, <1>11, OutcomesAre
  <2>2. heard[1].how = "text"
    <3>1. n = 1
      BY <1>1, <1>11 DEF Docs!IInv, Docs!AskedInv
    <3> QED BY <1>5, <1>11, <3>1
  <2>3. Docs!TypeOK' /\ Docs!KindInv' /\ Docs!CondenseInv' /\ Docs!QuestionIsCondensedFirst'
    BY <1>1, <1>2, <1>7, <1>8, <1>9, <1>11, <2>1, <2>2, KindsStay
  <2> QED BY <2>1, <2>3, NotYetBest
<1>12. CASE /\ answer.how = "text" /\ asked[n].to \in {"initial", "refine"}
            /\ made < Len(docs)
            /\ asked' = Append(asked, [to |-> "refine", existing |-> n,
                                       texts |-> Docs!getBaseInputs(docs[made + 1]),
                                       question |-> Docs!rephraseQuestion])
            /\ answers' = Append(heard, Docs!Pending)
            /\ UNCHANGED <<pc, kept, outcome>>
  <2>1. made + 1 \in DOMAIN docs
    <3>1. made \in Nat
      BY <1>1, Counted DEF Docs!Refined
    <3>2. PICK m \in Nat : DOMAIN docs = 1..m /\ Len(docs) = m
      BY <1>1, DocsAre
    <3> QED BY <1>12, <3>1, <3>2
  <2> HIDE DEF made
  <2> DEFINE request == [to |-> "refine", existing |-> n,
                         texts |-> Docs!getBaseInputs(docs[made + 1]),
                         question |-> Docs!rephraseQuestion]
  <2>2. /\ request \in Docs!Request /\ OfChain(request)
        /\ request.question = "generated" => setup.history = "some"
    <3>1. setup.chain = "refine"
      BY <1>12 DEF Docs!KindInv
    <3> QED BY <1>1, <2>1, <3>1, TextsOfRequests DEF Docs!Request, OfChain
  <2>3. asked' = Append(asked, request) /\ answers' = Append(heard, Docs!Pending)
    BY <1>12
  <2> HIDE DEF request
  <2>4. setup.history = "some" => heard[1].how = "text"
    <3> SUFFICES ASSUME setup.history = "some" PROVE heard[1].how = "text"
      OBVIOUS
    <3>1. n # 1
      BY <1>8, <1>12
    <3>2. Len(asked) > 1
      BY <1>1, <3>1
    <3> QED BY <1>9, <3>2 DEF Docs!CondenseInv
  <2>5. Docs!TypeOK' /\ Docs!KindInv' /\ Docs!CondenseInv' /\ Docs!QuestionIsCondensedFirst'
    BY <1>1, <1>5, <1>7, <1>8, <1>12, <2>2, <2>3, <2>4, KindsGrow
  <2> QED BY <1>2, <1>12, <2>5, NotYetBest
<1>13. CASE /\ answer.how = "text" /\ answers' = heard /\ UNCHANGED asked
            /\ asked[n].to \in {"stuff", "reduce", "initial", "refine"}
            /\ Docs!Return(n)
  <2>1. /\ outcome' \in Docs!Outcome /\ pc' = "returned"
        /\ outcome'.how # "ok" \/ outcome'.answer = n
        /\ kept' \in {<<>>, <<"question">>, <<"question", "answer">>}
    BY <1>1, <1>2, <1>13, ReturnIs
  <2>2. Docs!TypeOK' /\ Docs!KindInv' /\ Docs!CondenseInv' /\ Docs!QuestionIsCondensedFirst'
    BY <1>1, <1>2, <1>7, <1>9, <1>13, <2>1, KindsStay
  <2>3. setup.chain # "map_rerank"
    BY <1>13 DEF Docs!KindInv
  <2>4. Docs!AnswerIsBest'
    BY <1>1, <1>13, <2>1, <2>3 DEF Docs!AnswerIsBest, Docs!Ok
  <2> QED BY <2>2, <2>4
<1> QED BY <1>3, <1>10, <1>11, <1>12, <1>13 DEF heard

(* A call begins so,                                                       *)
LEMMA AnswersInit == ASSUME MaxDocs \in Nat, Docs!Init PROVE Docs!AnswerInv
<1>1. Docs!IInv
  BY DocumentsInit
<1>2. /\ asked = <<>> /\ answers = <<>> /\ kept = <<>> /\ setup \in Docs!Setup /\ Docs!Possible(setup)
      /\ outcome = [how |-> "none", answer |-> 0]
      /\ pc = IF setup.over = "conversation" THEN "begin"
              ELSE IF setup.over = "retrieval" THEN "retrieve" ELSE "combine"
  BY DEF Docs!Init
<1>3. /\ asked \in Seq(Docs!Request) /\ DOMAIN asked = {} /\ DOMAIN answers = {} /\ Len(asked) = 0
  BY <1>2, EmptySeq
<1>4. outcome \in Docs!Outcome /\ outcome.how = "none"
  BY <1>2 DEF Docs!Outcome
<1>5. Docs!TypeOK
  BY <1>1, <1>2, <1>3, <1>4 DEF Docs!TypeOK, Docs!IInv, Docs!SequenceInv
<1>6. Docs!KindInv /\ Docs!QuestionIsCondensedFirst
  BY <1>3 DEF Docs!KindInv, Docs!QuestionIsCondensedFirst
<1>7. Docs!CondenseInv
  <2>1. setup.history = "some" => pc = "begin"
    BY <1>2 DEF Docs!Possible
  <2> QED BY <1>3, <2>1 DEF Docs!CondenseInv
<1>8. Docs!AnswerIsBest
  BY <1>4 DEF Docs!AnswerIsBest, Docs!Ok
<1> QED BY <1>5, <1>6, <1>7, <1>8 DEF Docs!AnswerInv

(* and every step keeps it.                                                *)
LEMMA AnswersSteps ==
    ASSUME Docs!IInv, Docs!AnswerInv, [Docs!Next]_(Docs!vars)
    PROVE  Docs!AnswerInv'
<1>1. Docs!IInv'
  BY DocumentsSteps
<1>2. CASE UNCHANGED Docs!vars
  <2>1. UNCHANGED <<setup, pc, docs, asked, answers, kept, outcome>>
    BY <1>2 DEF Docs!vars
  <2>2. Docs!TypeOK' /\ Docs!KindInv' /\ Docs!CondenseInv'
    BY <2>1 DEF Docs!AnswerInv, Docs!TypeOK, Docs!KindInv, Docs!CondenseInv
  <2>3. Docs!AnswerIsBest' /\ Docs!QuestionIsCondensedFirst'
    BY <2>1 DEF Docs!AnswerInv, Docs!AnswerIsBest, Docs!QuestionIsCondensedFirst, Docs!Ok,
       Docs!Maps
  <2> QED BY <2>2, <2>3 DEF Docs!AnswerInv
<1>3. CASE Docs!Next
  BY <1>1, <1>3, BeginsWell, RetrievesWell, CombinesWell, AsksNextWell, DocumentAnsweredWell,
     LastAnsweredWell DEF Docs!Next
<1> QED BY <1>2, <1>3
-----------------------------------------------------------------------------
(* What is told of the documents.                                          *)

(* A request more leaves what the others tell as it is.                    *)
LEMMA TellsStay ==
    ASSUME Docs!SequenceInv, UNCHANGED <<setup, docs>>,
           asked' = asked \/ \E request : asked' = Append(asked, request)
    PROVE  /\ Docs!Before' = Docs!Before /\ Docs!Before \in 0..1
           /\ \A k \in 1..(Len(asked) - Docs!Before) :
                 /\ asked'[Docs!Before + k] = asked[Docs!Before + k]
                 /\ Docs!MapTells(k) => Docs!MapTells(k)'
                 /\ Docs!RefineTells(k) => Docs!RefineTells(k)'
<1>1. Len(asked) \in Nat /\ asked \in Seq(Docs!Questions)
  BY SequencesAre
<1>2. Docs!Before' = Docs!Before /\ Docs!Before \in 0..1
  BY DEF Docs!Before
<1>3. ASSUME NEW n \in 1..Len(asked) PROVE asked'[n] = asked[n]
  <2>1. CASE \E request : asked' = Append(asked, request)
    <3>1. PICK request : asked' = Append(asked, request)
      BY <2>1
    <3> DEFINE S == Docs!Questions \cup {request}
    <3>2. asked \in Seq(S) /\ request \in S
      <4>1. Docs!Questions \subseteq S
        OBVIOUS
      <4> QED BY <1>1, <4>1, SeqMonotonic
    <3> HIDE DEF S
    <3> QED BY <1>1, <3>1, <3>2, AppendProperties
  <2> QED BY <2>1
<1>4. ASSUME NEW k \in 1..(Len(asked) - Docs!Before)
      PROVE  /\ asked'[Docs!Before + k] = asked[Docs!Before + k]
             /\ Docs!MapTells(k) => Docs!MapTells(k)'
             /\ Docs!RefineTells(k) => Docs!RefineTells(k)'
  <2>1. Docs!Before + k \in 1..Len(asked)
    BY <1>1, <1>2
  <2>2. asked'[Docs!Before + k] = asked[Docs!Before + k]
    BY <1>3, <2>1
  <2> QED BY <1>2, <2>2 DEF Docs!MapTells, Docs!RefineTells
<1> QED BY <1>2, <1>4

(* The new request is the last.                                            *)
LEMMA LastIs ==
    ASSUME Docs!SequenceInv, NEW request, asked' = Append(asked, request)
    PROVE  Len(asked') = Len(asked) + 1 /\ asked'[Len(asked) + 1] = request
<1> DEFINE S == Docs!Questions \cup {request}
<1>1. asked \in Seq(S) /\ request \in S /\ Len(asked) \in Nat
  <2>1. Docs!Questions \subseteq S
    OBVIOUS
  <2> QED BY <2>1, SequencesAre, SeqMonotonic
<1> HIDE DEF S
<1> QED BY <1>1, AppendProperties

(* Before any document is told only the question may have been condensed.   *)
LEMMA CondensedOnly ==
    ASSUME Docs!IInv, Docs!AnswerInv, pc \notin {"begin", "returned"}, NEW n \in DOMAIN asked,
           n <= Docs!Before
    PROVE  asked[n].to = "condense"
<1>1. n \in 1..Len(asked) /\ Len(asked) \in Nat
  BY SequencesAre DEF Docs!IInv
<1>2. Docs!Before = 1 /\ n = 1 /\ setup.history = "some"
  BY <1>1 DEF Docs!Before
<1> QED BY <1>2 DEF Docs!AnswerInv, Docs!CondenseInv

(* So many requests are of a kind as came since.                           *)
LEMMA CountedSince ==
    ASSUME Docs!IInv, Docs!AnswerInv, pc \notin {"begin", "returned"}, NEW kinds,
           "condense" \notin kinds, Docs!Before <= Len(asked),
           \A k \in 1..(Len(asked) - Docs!Before) : asked[Docs!Before + k].to \in kinds
    PROVE  Cardinality({n \in DOMAIN asked : asked[n].to \in kinds}) = Len(asked) - Docs!Before
<1>1. Len(asked) \in Nat /\ DOMAIN asked = 1..Len(asked) /\ Docs!Before \in 0..1
  BY SequencesAre DEF Docs!IInv, Docs!Before
<1>2. {n \in DOMAIN asked : asked[n].to \in kinds} = (Docs!Before + 1)..Len(asked)
  <2>1. ASSUME NEW n \in DOMAIN asked, asked[n].to \in kinds
        PROVE  n \in (Docs!Before + 1)..Len(asked)
    <3>1. ~(n <= Docs!Before)
      BY <2>1, CondensedOnly
    <3> QED BY <1>1, <3>1
  <2>2. ASSUME NEW n \in (Docs!Before + 1)..Len(asked)
        PROVE  n \in DOMAIN asked /\ asked[n].to \in kinds
    <3>1. n - Docs!Before \in 1..(Len(asked) - Docs!Before) /\ Docs!Before + (n - Docs!Before) = n
      BY <1>1
    <3>2. asked[Docs!Before + (n - Docs!Before)].to \in kinds
      BY <3>1
    <3>3. n \in DOMAIN asked
      BY <1>1
    <3> QED BY <3>1, <3>2, <3>3
  <2> QED BY <2>1, <2>2
<1>3. Cardinality((Docs!Before + 1)..Len(asked)) = Len(asked) - Docs!Before
  <2>1. \A a, b \in Int : Cardinality(a..b) = IF a > b THEN 0 ELSE b - a + 1
    BY FS_Interval
  <2>2. Docs!Before + 1 \in Int /\ Len(asked) \in Int
    BY <1>1
  <2>3. Cardinality((Docs!Before + 1)..Len(asked))
            = IF Docs!Before + 1 > Len(asked) THEN 0 ELSE Len(asked) - (Docs!Before + 1) + 1
    BY <2>1, <2>2
  <2> QED BY <1>1, <2>3
<1> QED BY <1>2, <1>3

(* Nothing is promised of the documents until the call succeeds.           *)
LEMMA NotYetTold == ASSUME outcome'.how # "ok" PROVE Docs!DocumentsAreTold'
BY DEF Docs!DocumentsAreTold, Docs!Ok

(* The question is condensed, or there is none to condense.                *)
LEMMA BeginsTold ==
    ASSUME Docs!IInv, Docs!AnswerInv, Docs!getQuestion
    PROVE  Docs!TellInv' /\ Docs!DocumentsAreTold'
<1>1. /\ pc = "begin" /\ asked = <<>> /\ Docs!SequenceInv /\ outcome.how = "none"
      /\ setup' = setup
  BY DEF Docs!IInv, Docs!AskedInv, Docs!RunningInv, Docs!getQuestion, Docs!calling
<1>2. outcome'.how # "ok"
  BY <1>1 DEF Docs!getQuestion, Docs!Failed, Docs!Ended
<1> SUFFICES Docs!TellInv'
  BY <1>2, NotYetTold
<1>3. CASE pc' = "returned"
  BY <1>3 DEF Docs!TellInv
<1>4. CASE setup.history = "none" /\ pc' = "retrieve" /\ asked' = asked
  <2>1. Len(asked') = 0 /\ Docs!Before' = 0
    BY <1>1, <1>4 DEF Docs!Before
  <2> QED BY <1>4, <2>1 DEF Docs!TellInv
<1>5. CASE /\ setup.history = "some" /\ pc' = "ask"
           /\ asked' = Append(asked, [to |-> "condense", texts |-> <<>>,
                                      question |-> "asked", existing |-> 0])
  <2>1. Len(asked) = 0
    BY <1>1
  <2>2. Len(asked') = 1 /\ asked'[1].to = "condense"
    BY <1>1, <1>5, <2>1, LastIs
  <2>3. asked' # <<>> /\ Docs!Before' = 1
    BY <1>1, <1>5, <2>2 DEF Docs!Before
  <2>4. Docs!AskingTells'
    BY <2>2, <2>3 DEF Docs!AskingTells
  <2> QED BY <1>5, <2>4 DEF Docs!TellInv
<1> QED BY <1>3, <1>4, <1>5 DEF Docs!getQuestion, Docs!Failed, Docs!Ended

(* The documents are found.                                                *)
LEMMA RetrievesTold ==
    ASSUME Docs!IInv, Docs!TellInv, Docs!GetRelevantDocuments
    PROVE  Docs!TellInv' /\ Docs!DocumentsAreTold'
<1>1. /\ pc = "retrieve" /\ outcome.how = "none" /\ setup' = setup /\ asked' = asked
      /\ pc' \in {"combine", "returned"} /\ outcome'.how # "ok"
  BY DEF Docs!IInv, Docs!RunningInv, Docs!GetRelevantDocuments, Docs!calling, Docs!Failed,
     Docs!Ended
<1>2. Docs!TellInv'
  BY <1>1 DEF Docs!TellInv, Docs!Before
<1> QED BY <1>1, <1>2, NotYetTold

(* What is told of one document by refining.                               *)
LEMMA BaseTells ==
    ASSUME Docs!SequenceInv, NEW k \in DOMAIN docs
    PROVE  ~setup.context => /\ Len(Docs!getBaseInputs(docs[k])) = 1
                             /\ Docs!getBaseInputs(docs[k])[1].at = k
                             /\ Docs!getBaseInputs(docs[k])[1].of = "metadata" <=> docs[k].own
<1>1. docs[k].place = k
  BY DEF Docs!SequenceInv, Docs!DocumentLists
<1>2. Docs!From("metadata", k).of = "metadata" /\ Docs!From("document", k).of # "metadata"
      /\ Docs!From("metadata", k).at = k /\ Docs!From("document", k).at = k
  BY DEF Docs!From
<1> QED BY <1>1, <1>2 DEF Docs!getBaseInputs

(* The first request about the documents.                                  *)
LEMMA CombinesTold ==
    ASSUME Docs!IInv, Docs!TellInv, Docs!Combine
    PROVE  Docs!TellInv' /\ Docs!DocumentsAreTold'
<1>1. /\ pc = "combine" /\ outcome.how = "none" /\ UNCHANGED <<setup, docs>>
      /\ Len(asked) = Docs!Before /\ Docs!SequenceInv /\ Docs!Before \in 0..1 /\ docs \in Docs!DocumentLists
  BY DEF Docs!IInv, Docs!RunningInv, Docs!Combine, Docs!calling, Docs!TellInv,
     Docs!SequenceInv, Docs!Before
<1>2. Docs!Before' = Docs!Before /\ Docs!joinDocuments("document")' = Docs!joinDocuments("document")
  BY <1>1 DEF Docs!Before, Docs!joinDocuments
<1>3. PICK d \in Nat : d = Len(docs) /\ DOMAIN docs = 1..d
  <2>1. docs \in Docs!DocumentLists
    BY <1>1
  <2> QED BY <2>1, DocsAre
<1>10. outcome'.how # "ok"
  BY <1>1 DEF Docs!Combine, Docs!Failed, Docs!Ended
<1> SUFFICES Docs!TellInv'
  BY <1>10, NotYetTold
<1>4. CASE pc' = "returned"
  BY <1>4 DEF Docs!TellInv
<1>5. CASE setup.chain = "stuff" /\ pc' = "ask" /\ Docs!Ask("stuff", Docs!joinDocuments("document"), 0)
  <2>1. /\ Len(asked') = Docs!Before + 1 /\ asked'[Docs!Before + 1].texts = Docs!joinDocuments("document")
        /\ asked'[Docs!Before + 1].to = "stuff"
    BY <1>1, <1>5, LastIs DEF Docs!Ask
  <2>2. asked' # <<>>
    BY <1>1, <2>1
  <2>3. setup'.chain = "stuff" /\ Len(asked') = Docs!Before' + 1
        /\ asked'[Docs!Before' + 1].texts = Docs!joinDocuments("document")'
    BY <1>1, <1>2, <1>5, <2>1
  <2>4. Docs!StuffTells'
    BY <2>3 DEF Docs!StuffTells
  <2>5. Docs!AskingTells'
    BY <1>2, <2>1, <2>2, <2>3, <2>4 DEF Docs!AskingTells
  <2> QED BY <1>5, <2>5 DEF Docs!TellInv
<1>6. CASE /\ setup.chain = "refine" /\ docs # <<>> /\ pc' = "ask"
           /\ Docs!Ask("initial", Docs!getBaseInputs(docs[1]), 0)
  <2>1. /\ Len(asked') = Docs!Before + 1 /\ asked'[Docs!Before + 1].texts = Docs!getBaseInputs(docs[1])
        /\ asked'[Docs!Before + 1].to = "initial" /\ asked'[Docs!Before + 1].existing = 0
    BY <1>1, <1>6, LastIs DEF Docs!Ask
  <2>2. 1 \in DOMAIN docs /\ d >= 1
    <3>1. d # 0
      BY <1>1, <1>3, <1>6 DEF Docs!DocumentLists
    <3> QED BY <1>3, <3>1
  <2>3. Docs!RefineTells(1)'
    BY <1>1, <1>2, <2>1, <2>2, BaseTells DEF Docs!RefineTells
  <2>4. asked' # <<>> /\ Docs!Before' + 1 = Len(asked')
    BY <1>1, <1>2, <2>1
  <2>5. Len(asked') \in (Docs!Before' + 1)..(Docs!Before' + Len(docs'))
    BY <1>1, <1>2, <1>3, <2>1, <2>2
  <2>6. \A k \in 1..(Len(asked') - Docs!Before') : k = 1
    BY <1>1, <1>2, <2>1
  <2>7. \A k \in 1..(Len(asked') - Docs!Before') : Docs!RefineTells(k)'
    BY <2>3, <2>6
  <2>8. setup'.chain = "refine" /\ asked'[Len(asked')].to = "initial"
    BY <1>1, <1>6, <2>1
  <2>9. Docs!AskingTells'
    BY <2>4, <2>5, <2>7, <2>8 DEF Docs!AskingTells
  <2> QED BY <1>6, <2>9 DEF Docs!TellInv
<1>7. CASE /\ setup.chain = "map_reduce" /\ docs = <<>> /\ pc' = "ask"
           /\ Docs!Ask("reduce", <<>>, 0)
  <2>1. /\ Len(asked') = Docs!Before + 1 /\ asked'[Docs!Before + 1].texts = <<>>
        /\ asked'[Docs!Before + 1].to = "reduce"
    BY <1>1, <1>7, LastIs DEF Docs!Ask
  <2>2. Len(docs) = 0 /\ DOMAIN docs = {}
    BY <1>7
  <2>3. [k \in DOMAIN docs |-> Docs!From("answer", Docs!Before + k)] = <<>>
    BY <2>2
  <2>4. asked' # <<>> /\ Len(asked') = Docs!Before' + Len(docs') + 1
    BY <1>1, <1>2, <2>1, <2>2
  <2>5. Docs!ReduceTells'
    BY <1>1, <1>2, <2>1, <2>3, <2>4 DEF Docs!ReduceTells
  <2>6. \A k \in DOMAIN docs' : Docs!MapTells(k)'
    BY <1>1, <2>2
  <2>7. setup'.chain = "map_reduce" /\ asked'[Len(asked')].to = "reduce"
    BY <1>1, <1>7, <2>1
  <2>8. Docs!AskingTells'
    BY <2>4, <2>5, <2>6, <2>7 DEF Docs!AskingTells
  <2> QED BY <1>7, <2>8 DEF Docs!TellInv
<1>8. CASE pc' = "map" /\ asked' = asked
  <2>1. PICK b \in 0..1, e \in Nat : Len(asked') = b /\ Docs!Before' = b /\ Len(docs') = e
    BY <1>1, <1>2, <1>3, <1>8
  <2>2. b \in b..(b + e) /\ \A k \in 1..(b - b) : FALSE
    OBVIOUS
  <2>3. Docs!MappingTells'
    BY <2>1, <2>2 DEF Docs!MappingTells
  <2> QED BY <1>8, <2>3 DEF Docs!TellInv
<1> QED BY <1>4, <1>5, <1>6, <1>7, <1>8 DEF Docs!Combine, Docs!Failed, Docs!Ended

(* The next document is told to a worker.                                  *)
LEMMA AsksNextTold ==
    ASSUME Docs!IInv, Docs!AnswerInv, Docs!TellInv, Docs!AskNext
    PROVE  Docs!TellInv' /\ Docs!DocumentsAreTold'
<1>1. /\ pc = "map" /\ pc' = "map" /\ outcome' = outcome /\ outcome.how = "none"
      /\ UNCHANGED <<setup, docs>> /\ Docs!SequenceInv /\ docs \in Docs!DocumentLists
      /\ Cardinality(Docs!Maps) < Len(docs)
      /\ Docs!Ask("map", <<Docs!From("document", Cardinality(Docs!Maps) + 1)>>, 0)
  BY SameCount DEF Docs!IInv, Docs!RunningInv, Docs!AskNext, Docs!calling, Docs!SequenceInv
<1>2. /\ Len(asked) \in Nat /\ Docs!Before \in 0..1 /\ Len(asked) \in Docs!Before..(Docs!Before + Len(docs))
      /\ \A k \in 1..(Len(asked) - Docs!Before) : Docs!MapTells(k)
  BY <1>1, SequencesAre DEF Docs!TellInv, Docs!MappingTells, Docs!Before
<1>3. Len(docs) \in Nat
  BY <1>1, DocsAre
<1> PICK k \in Int : k = Len(asked) - Docs!Before + 1
  <2>1. Len(asked) - Docs!Before + 1 \in Int
    BY <1>2
  <2> QED BY <2>1
<1>4. Cardinality(Docs!Maps) + 1 = k /\ k \in 1..Len(docs) /\ k \in Nat /\ Docs!Before + k = Len(asked) + 1
  <2>1. \A i \in 1..(Len(asked) - Docs!Before) : asked[Docs!Before + i].to \in {"map"}
    BY <1>2 DEF Docs!MapTells
  <2>2. Docs!Before <= Len(asked) /\ "condense" \notin {"map"}
    BY <1>2, <1>3
  <2>3. Cardinality({n \in DOMAIN asked : asked[n].to \in {"map"}}) = Len(asked) - Docs!Before
    BY <1>1, <2>1, <2>2, CountedSince
  <2>4. {n \in DOMAIN asked : asked[n].to \in {"map"}} = Docs!Maps
    BY DEF Docs!Maps
  <2>5. Cardinality(Docs!Maps) = Len(asked) - Docs!Before
    BY <2>3, <2>4
  <2> QED BY <1>1, <1>2, <1>3, <2>5
<1>5. /\ Len(asked') = Docs!Before + k /\ asked'[Docs!Before + k].to = "map"
      /\ asked'[Docs!Before + k].texts = <<Docs!From("document", k)>>
  BY <1>1, <1>4, LastIs DEF Docs!Ask
<1>6. Docs!Before' = Docs!Before /\ \A i \in 1..(Len(asked) - Docs!Before) : Docs!MapTells(i)'
  <2>1. \E request : asked' = Append(asked, request)
    BY <1>1 DEF Docs!Ask
  <2>2. UNCHANGED <<setup, docs>> /\ Docs!SequenceInv
    BY <1>1
  <2>3. /\ Docs!Before' = Docs!Before
        /\ \A i \in 1..(Len(asked) - Docs!Before) : Docs!MapTells(i) => Docs!MapTells(i)'
    BY <2>1, <2>2, TellsStay
  <2> QED BY <1>2, <2>3
<1>7. Docs!MapTells(k)'
  BY <1>5, <1>6 DEF Docs!MapTells
<1>8. Len(asked') \in Docs!Before'..(Docs!Before' + Len(docs'))
  BY <1>1, <1>2, <1>3, <1>4, <1>5, <1>6
<1>9. ASSUME NEW i \in 1..(Len(asked') - Docs!Before') PROVE Docs!MapTells(i)'
  <2>1. i \in 1..k
    BY <1>4, <1>5, <1>6, <1>2
  <2>2. i = k \/ i \in 1..(k - 1)
    BY <1>4, <2>1
  <2>3. k - 1 = Len(asked) - Docs!Before
    BY <1>2, <1>4
  <2>4. CASE i = k
    BY <1>7, <2>4
  <2>5. CASE i \in 1..(k - 1)
    BY <1>6, <2>3, <2>5
  <2> QED BY <2>2, <2>4, <2>5
<1>10. Docs!TellInv'
  <2>1. Docs!MappingTells'
    BY <1>8, <1>9 DEF Docs!MappingTells
  <2> QED BY <1>1, <2>1 DEF Docs!TellInv
<1> QED BY <1>1, <1>10, NotYetTold

(* So many documents were told to the workers.                             *)
LEMMA MapsCounted ==
    ASSUME Docs!IInv, Docs!AnswerInv, Docs!TellInv, pc = "map"
    PROVE  Cardinality(Docs!Maps) = Len(asked) - Docs!Before /\ Docs!MappingTells
<1>1. Docs!MappingTells /\ Docs!SequenceInv
  BY DEF Docs!TellInv, Docs!IInv
<1>2. Len(asked) \in Nat /\ Docs!Before \in 0..1
  BY <1>1, SequencesAre DEF Docs!Before
<1>3. Len(docs) \in Nat
  <2>1. docs \in Docs!DocumentLists
    BY <1>1 DEF Docs!SequenceInv
  <2> QED BY <2>1, DocsAre
<1>4. \A i \in 1..(Len(asked) - Docs!Before) : asked[Docs!Before + i].to \in {"map"}
  BY <1>1 DEF Docs!MapTells, Docs!MappingTells
<1>5. Docs!Before <= Len(asked) /\ "condense" \notin {"map"}
  BY <1>1, <1>2, <1>3 DEF Docs!MappingTells
<1>6. Cardinality({n \in DOMAIN asked : asked[n].to \in {"map"}}) = Len(asked) - Docs!Before
  BY <1>4, <1>5, CountedSince
<1>7. {n \in DOMAIN asked : asked[n].to \in {"map"}} = Docs!Maps
  BY DEF Docs!Maps
<1> QED BY <1>1, <1>6, <1>7

(* Without another request the documents are as told as before.            *)
LEMMA ToldStays ==
    ASSUME Docs!SequenceInv, UNCHANGED <<setup, docs, asked>>
    PROVE  /\ Docs!MappingTells => Docs!MappingTells'
           /\ Docs!StuffTells => Docs!StuffTells'
           /\ Docs!ReduceTells => Docs!ReduceTells'
           /\ \A k : Docs!MapTells(k) => Docs!MapTells(k)'
           /\ \A k : Docs!RefineTells(k) => Docs!RefineTells(k)'
<1>1. Docs!Before' = Docs!Before /\ Len(asked') = Len(asked) /\ Len(docs') = Len(docs)
  BY DEF Docs!Before
<1>2. ASSUME NEW k PROVE /\ Docs!MapTells(k) => Docs!MapTells(k)'
                         /\ Docs!RefineTells(k) => Docs!RefineTells(k)'
  BY <1>1 DEF Docs!MapTells, Docs!RefineTells
<1>3. Docs!MappingTells => Docs!MappingTells'
  BY <1>1, <1>2 DEF Docs!MappingTells
<1>4. Docs!StuffTells => Docs!StuffTells'
  BY <1>1 DEF Docs!StuffTells, Docs!joinDocuments
<1>5. Docs!ReduceTells => Docs!ReduceTells'
  BY <1>1 DEF Docs!ReduceTells
<1> QED BY <1>2, <1>3, <1>4, <1>5

(* A document is answered: by then all were told if it was the last.       *)
LEMMA DocumentAnsweredTold ==
    ASSUME Docs!IInv, Docs!AnswerInv, Docs!TellInv, NEW n \in DOMAIN asked, Docs!AnswerOfDocument(n)
    PROVE  Docs!TellInv' /\ Docs!DocumentsAreTold'
<1>1. /\ pc = "map" /\ UNCHANGED <<setup, docs>> /\ Docs!SequenceInv /\ outcome.how = "none"
      /\ setup.chain \in {"map_reduce", "map_rerank"} /\ docs \in Docs!DocumentLists
  BY DEF Docs!IInv, Docs!SequenceInv, Docs!RunningInv, Docs!AskedInv, Docs!AnswerOfDocument
<1>2. Docs!MappingTells /\ Cardinality(Docs!Maps) = Len(asked) - Docs!Before
  BY <1>1, MapsCounted
<1>3. PICK d \in Nat : d = Len(docs) /\ DOMAIN docs = 1..d
  BY <1>1, DocsAre
<1>4. Len(asked) \in Nat /\ Docs!Before \in 0..1 /\ Docs!Before' = Docs!Before
  BY <1>1, SequencesAre DEF Docs!Before
<1>5. PICK heard :
        \/ Docs!Failed
        \/ UNCHANGED <<asked, pc, outcome>>
        \/ ~(Cardinality(Docs!Maps) < Len(docs)) /\ Docs!Reduce(heard)
  BY SameCount DEF Docs!AnswerOfDocument
<1>6. CASE Docs!Failed
  <2>1. pc' = "returned" /\ outcome'.how # "ok"
    BY <1>6 DEF Docs!Failed, Docs!Ended
  <2>2. Docs!TellInv'
    BY <2>1 DEF Docs!TellInv
  <2> QED BY <2>1, <2>2, NotYetTold
<1>7. CASE UNCHANGED <<asked, pc, outcome>>
  <2>1. Docs!MappingTells'
    BY <1>1, <1>2, <1>7, ToldStays
  <2>2. Docs!TellInv'
    BY <1>1, <1>7, <2>1 DEF Docs!TellInv
  <2> QED BY <1>1, <1>7, <2>2, NotYetTold
<1>8. CASE ~(Cardinality(Docs!Maps) < Len(docs)) /\ Docs!Reduce(heard)
  <2>1. Len(asked) = Docs!Before + d
    BY <1>2, <1>3, <1>4, <1>8 DEF Docs!MappingTells
  <2>2. \A k \in 1..d : Docs!MapTells(k)
    BY <1>2, <1>4, <2>1 DEF Docs!MappingTells
  <2>3. CASE setup.chain = "map_rerank"
    <3>1. Docs!Return(Docs!Ranked(heard)) /\ asked' = asked
      BY <1>8, <2>3 DEF Docs!Reduce
    <3>2. pc' = "returned"
      BY <3>1 DEF Docs!Return, Docs!SaveContext, Docs!Failed, Docs!Ended
    <3>3. \A k \in DOMAIN docs' : Docs!MapTells(k)'
      BY <1>1, <1>3, <2>2, <3>1, ToldStays
    <3>4. setup'.chain = "map_rerank" /\ Len(asked') = Docs!Before' + Len(docs')
      BY <1>1, <1>3, <1>4, <2>1, <2>3, <3>1
    <3>5. Docs!DocumentsAreTold'
      BY <3>3, <3>4 DEF Docs!DocumentsAreTold
    <3> QED BY <3>2, <3>5 DEF Docs!TellInv
  <2>4. CASE setup.chain = "map_reduce"
    <3> DEFINE texts == [k \in DOMAIN docs |-> Docs!From("answer", Docs!Before + k)]
               all == [to |-> "reduce", question |-> Docs!rephraseQuestion, existing |-> 0,
                       texts |-> texts]
    <3>1. Len(asked) - Len(docs) = Docs!Before
      BY <1>3, <1>4, <2>1
    <3>2. asked' = Append(asked, all) /\ pc' = "ask" /\ outcome' = outcome
      BY <1>8, <2>4, <3>1 DEF Docs!Reduce
    <3>3. /\ Len(asked') = Docs!Before + d + 1 /\ asked'[Docs!Before + d + 1].texts = texts
          /\ asked'[Docs!Before + d + 1].to = "reduce"
      BY <1>1, <1>4, <2>1, <3>2, LastIs
    <3>4. texts' = texts
      BY <1>1, <1>4
    <3> HIDE DEF texts, all
    <3>5. Len(asked') = Docs!Before' + Len(docs') + 1 /\ asked'[Len(asked')].texts = texts'
      BY <1>1, <1>3, <1>4, <3>3, <3>4
    <3>6. Docs!ReduceTells'
      BY <3>5 DEF Docs!ReduceTells, texts
    <3>7. \A k \in 1..(Len(asked) - Docs!Before) : Docs!MapTells(k) => Docs!MapTells(k)'
      BY <1>1, <3>2, TellsStay
    <3>8. \A k \in DOMAIN docs' : Docs!MapTells(k)'
      <4>1. Len(asked) - Docs!Before = d
        BY <1>4, <2>1
      <4> QED BY <1>1, <1>3, <2>2, <3>7, <4>1
    <3>9. asked' # <<>>
      <4>1. Len(asked') # 0
        BY <1>4, <3>3
      <4> QED BY <4>1
    <3>10. setup'.chain = "map_reduce" /\ asked'[Len(asked')].to = "reduce"
      BY <1>1, <2>4, <3>3
    <3>11. Docs!AskingTells'
      BY <3>6, <3>8, <3>9, <3>10 DEF Docs!AskingTells
    <3>12. Docs!TellInv'
      BY <3>2, <3>11 DEF Docs!TellInv
    <3> QED BY <1>1, <3>2, <3>12, NotYetTold
  <2> QED BY <1>1, <2>3, <2>4
<1> QED BY <1>5, <1>6, <1>7, <1>8

(* What was told by the time the last request is answered, other than the  *)
(* one that condenses the question; and so many refined.                   *)
LEMMA LastTold ==
    ASSUME Docs!IInv, Docs!AnswerInv, Docs!TellInv, pc = "ask", asked[Len(asked)].to # "condense"
    PROVE  /\ Len(asked) \in DOMAIN asked /\ setup.chain # "map_rerank"
           /\ setup.chain = "stuff" => Docs!StuffTells
           /\ setup.chain = "map_reduce" => Docs!ReduceTells /\ \A k \in DOMAIN docs : Docs!MapTells(k)
           /\ setup.chain = "refine" =>
                 /\ Len(asked) \in (Docs!Before + 1)..(Docs!Before + Len(docs))
                 /\ \A k \in 1..(Len(asked) - Docs!Before) : Docs!RefineTells(k)
                 /\ Cardinality(Docs!Refined) = Len(asked) - Docs!Before
<1>1. Docs!AskingTells /\ Docs!SequenceInv
  BY DEF Docs!TellInv, Docs!IInv
<1>2. Len(asked) \in DOMAIN asked /\ Len(asked) \in Nat /\ Docs!Before \in 0..1
  <2>1. Len(asked) \in Nat /\ DOMAIN asked = 1..Len(asked) /\ asked \in Seq(Docs!Questions)
    BY <1>1, SequencesAre
  <2>2. asked # <<>>
    BY <1>1 DEF Docs!AskingTells
  <2>3. Len(asked) # 0
    BY <2>1, <2>2, EmptySeq
  <2> QED BY <2>1, <2>3 DEF Docs!Before
<1>3. Len(docs) \in Nat
  <2>1. docs \in Docs!DocumentLists
    BY <1>1 DEF Docs!SequenceInv
  <2> QED BY <2>1, DocsAre
<1>4. ASSUME setup.chain = "refine"
      PROVE  Cardinality(Docs!Refined) = Len(asked) - Docs!Before
  <2>1. /\ Len(asked) \in (Docs!Before + 1)..(Docs!Before + Len(docs))
        /\ \A k \in 1..(Len(asked) - Docs!Before) : Docs!RefineTells(k)
    BY <1>1, <1>4 DEF Docs!AskingTells
  <2>2. \A k \in 1..(Len(asked) - Docs!Before) : asked[Docs!Before + k].to \in {"initial", "refine"}
    BY <2>1 DEF Docs!RefineTells
  <2>3. Docs!Before <= Len(asked) /\ "condense" \notin {"initial", "refine"}
    BY <1>2, <1>3, <2>1
  <2>4. Cardinality({n \in DOMAIN asked : asked[n].to \in {"initial", "refine"}})
            = Len(asked) - Docs!Before
    BY <2>2, <2>3, CountedSince
  <2>5. {n \in DOMAIN asked : asked[n].to \in {"initial", "refine"}} = Docs!Refined
    BY DEF Docs!Refined
  <2> QED BY <2>4, <2>5
<1> QED BY <1>1, <1>2, <1>4 DEF Docs!AskingTells

(* The last request is answered: the next is made, or by then all were told. *)
LEMMA LastAnsweredTold ==
    ASSUME Docs!IInv, Docs!AnswerInv, Docs!TellInv, NEW n \in DOMAIN asked, Docs!AnswerOf(n)
    PROVE  Docs!TellInv' /\ Docs!DocumentsAreTold'
<1>1. /\ pc = "ask" /\ n = Len(asked) /\ UNCHANGED <<setup, docs>> /\ Docs!SequenceInv
      /\ outcome.how = "none" /\ docs \in Docs!DocumentLists /\ n \in Nat /\ n >= 1
  BY SequencesAre DEF Docs!IInv, Docs!SequenceInv, Docs!RunningInv, Docs!AnswerOf
<1>2. PICK d \in Nat : d = Len(docs) /\ DOMAIN docs = 1..d
  BY <1>1, DocsAre
<1>3. Docs!Before \in 0..1 /\ Docs!Before' = Docs!Before /\ Docs!AskingTells /\ setup \in Docs!Setup
  BY <1>1 DEF Docs!Before, Docs!TellInv, Docs!SequenceInv
<1>4. \/ setup.chain = "stuff" /\ asked[n].to = "stuff"
      \/ setup.chain = "refine" /\ asked[n].to \in {"initial", "refine"}
      \/ setup.chain \in {"map_reduce", "map_rerank"} /\ asked[n].to = "map"
      \/ setup.chain = "map_reduce" /\ asked[n].to = "reduce"
      \/ asked[n].to = "condense"
  BY DEF Docs!AnswerInv, Docs!KindInv
<1>5. \/ /\ IF asked[n].to = "reduce" THEN Docs!maybeAddIntermediateSteps ELSE Docs!Failed
      \/ /\ asked[n].to = "condense" /\ asked' = asked
         /\ IF setup.renamed THEN Docs!Failed ELSE pc' = "retrieve" /\ UNCHANGED outcome
      \/ /\ asked[n].to \in {"initial", "refine"} /\ Cardinality(Docs!Refined) < Len(docs)
         /\ asked' = Append(asked, [to |-> "refine", existing |-> n,
                                    texts |-> Docs!getBaseInputs(docs[Cardinality(Docs!Refined) + 1]),
                                    question |-> Docs!rephraseQuestion])
         /\ UNCHANGED <<pc, outcome>>
      \/ /\ asked' = asked
         /\ \/ asked[n].to \in {"stuff", "reduce"}
            \/ asked[n].to \in {"initial", "refine"} /\ Cardinality(Docs!Refined) = Len(docs)
         /\ Docs!Return(n)
  BY SameCount DEF Docs!AnswerOf
<1>6. CASE pc' = "returned" /\ outcome'.how # "ok"
  <2>1. Docs!TellInv'
    BY <1>6 DEF Docs!TellInv
  <2> QED BY <1>6, <2>1, NotYetTold
<1>7. CASE IF asked[n].to = "reduce" THEN Docs!maybeAddIntermediateSteps ELSE Docs!Failed
  <2>1. pc' = "returned" /\ outcome'.how # "ok"
    BY <1>7 DEF Docs!maybeAddIntermediateSteps, Docs!Failed, Docs!Ended
  <2> QED BY <1>6, <2>1
<1>8. CASE /\ asked[n].to = "condense" /\ asked' = asked
           /\ IF setup.renamed THEN Docs!Failed ELSE pc' = "retrieve" /\ UNCHANGED outcome
  <2>1. Len(asked) = Docs!Before
    BY <1>1, <1>3, <1>8 DEF Docs!AskingTells
  <2>2. CASE Docs!Failed
    <3>1. pc' = "returned" /\ outcome'.how # "ok"
      BY <2>2 DEF Docs!Failed, Docs!Ended
    <3> QED BY <1>6, <3>1
  <2>3. CASE pc' = "retrieve" /\ outcome' = outcome
    <3>1. Len(asked') = Docs!Before'
      BY <1>3, <1>8, <2>1
    <3>2. Docs!TellInv'
      BY <2>3, <3>1 DEF Docs!TellInv
    <3> QED BY <1>1, <2>3, <3>2, NotYetTold
  <2> QED BY <1>8, <2>2, <2>3
<1>9. CASE /\ asked[n].to \in {"initial", "refine"} /\ Cardinality(Docs!Refined) < Len(docs)
           /\ asked' = Append(asked, [to |-> "refine", existing |-> n,
                                      texts |-> Docs!getBaseInputs(docs[Cardinality(Docs!Refined) + 1]),
                                      question |-> Docs!rephraseQuestion])
           /\ UNCHANGED <<pc, outcome>>
  <2>1. setup.chain = "refine" /\ asked[Len(asked)].to # "condense"
    BY <1>1, <1>4, <1>9
  <2>2. /\ n \in (Docs!Before + 1)..(Docs!Before + d) /\ Cardinality(Docs!Refined) = n - Docs!Before
        /\ \A k \in 1..(n - Docs!Before) : Docs!RefineTells(k)
    BY <1>1, <1>2, <2>1, LastTold
  <2>3. PICK k \in Nat : k = n - Docs!Before + 1
    <3>1. n - Docs!Before + 1 \in Nat
      BY <1>1, <1>3, <2>2
    <3> QED BY <3>1
  <2>4. /\ k \in 1..d /\ k # 1 /\ Cardinality(Docs!Refined) + 1 = k
        /\ Docs!Before + k = n + 1 /\ n = Docs!Before + k - 1
    BY <1>1, <1>2, <1>3, <1>9, <2>2, <2>3
  <2>5. /\ Len(asked') = Docs!Before + k /\ asked'[Docs!Before + k].to = "refine"
        /\ asked'[Docs!Before + k].existing = Docs!Before + k - 1
        /\ asked'[Docs!Before + k].texts = Docs!getBaseInputs(docs[k])
    BY <1>1, <1>9, <2>4, LastIs
  <2>6. Docs!RefineTells(k)'
    <3>1. k \in DOMAIN docs
      BY <1>2, <2>4
    <3>2. ~setup.context => /\ Len(Docs!getBaseInputs(docs[k])) = 1
                            /\ Docs!getBaseInputs(docs[k])[1].at = k
                            /\ Docs!getBaseInputs(docs[k])[1].of = "metadata" <=> docs[k].own
      BY <1>1, <3>1, BaseTells
    <3>3. docs'[k] = docs[k] /\ setup'.context = setup.context
      BY <1>1
    <3> QED BY <1>3, <2>4, <2>5, <3>2, <3>3 DEF Docs!RefineTells
  <2>7. \A i \in 1..(n - Docs!Before) : Docs!RefineTells(i)'
    <3>1. \A i \in 1..(n - Docs!Before) : Docs!RefineTells(i) => Docs!RefineTells(i)'
      BY <1>1, <1>9, TellsStay
    <3> QED BY <2>2, <3>1
  <2>8. ASSUME NEW i \in 1..(Len(asked') - Docs!Before') PROVE Docs!RefineTells(i)'
    <3>1. i \in 1..k
      BY <1>3, <2>3, <2>5
    <3>2. i = k \/ i \in 1..(k - 1)
      BY <2>3, <3>1
    <3>3. k - 1 = n - Docs!Before
      BY <1>1, <1>3, <2>3
    <3>4. CASE i = k
      BY <2>6, <3>4
    <3>5. CASE i \in 1..(k - 1)
      BY <2>7, <3>3, <3>5
    <3> QED BY <3>2, <3>4, <3>5
  <2>9. Len(asked') \in (Docs!Before' + 1)..(Docs!Before' + Len(docs'))
    BY <1>1, <1>2, <1>3, <2>4, <2>5
  <2>10. asked' # <<>>
    <3>1. Len(asked') # 0
      BY <1>1, <2>4, <2>5
    <3> QED BY <3>1
  <2>11. setup'.chain = "refine" /\ asked'[Len(asked')].to = "refine"
    BY <1>1, <2>1, <2>5
  <2>12. Docs!AskingTells'
    BY <2>8, <2>9, <2>10, <2>11 DEF Docs!AskingTells
  <2>13. Docs!TellInv'
    BY <1>1, <1>9, <2>12 DEF Docs!TellInv
  <2> QED BY <1>1, <1>9, <2>13, NotYetTold
<1>10. CASE /\ asked' = asked
            /\ \/ asked[n].to \in {"stuff", "reduce"}
               \/ asked[n].to \in {"initial", "refine"} /\ Cardinality(Docs!Refined) = Len(docs)
            /\ Docs!Return(n)
  <2>1. pc' = "returned"
    BY <1>10 DEF Docs!Return, Docs!SaveContext, Docs!Failed, Docs!Ended
  <2>2. asked[Len(asked)].to # "condense"
    BY <1>1, <1>10
  <2>3. Docs!TellInv'
    BY <2>1 DEF Docs!TellInv
  <2>4. UNCHANGED <<setup, docs, asked>> /\ Docs!SequenceInv
    BY <1>1, <1>10
  <2>5. CASE setup.chain = "stuff"
    <3>1. Docs!StuffTells'
      BY <2>2, <2>4, <2>5, <1>1, LastTold, ToldStays
    <3>2. setup'.chain = "stuff"
      BY <2>4, <2>5
    <3>3. Docs!DocumentsAreTold'
      BY <3>1, <3>2 DEF Docs!DocumentsAreTold
    <3> QED BY <2>3, <3>3
  <2>6. CASE setup.chain = "refine"
    <3>1. asked[n].to \in {"initial", "refine"}
      BY <1>4, <1>10, <2>6
    <3>2. Cardinality(Docs!Refined) = Len(docs)
      BY <1>10, <3>1
    <3>3. /\ n \in (Docs!Before + 1)..(Docs!Before + d) /\ n - Docs!Before = d
          /\ \A k \in 1..(n - Docs!Before) : Docs!RefineTells(k)
      BY <1>1, <1>2, <2>2, <2>6, <3>2, LastTold
    <3>4. \A k \in DOMAIN docs' : Docs!RefineTells(k)'
      BY <1>2, <2>4, <3>3, ToldStays
    <3>5. setup'.chain = "refine" /\ Len(asked') = Docs!Before' + Len(docs')
      BY <1>1, <1>2, <1>3, <2>4, <2>6, <3>3
    <3>6. Docs!DocumentsAreTold'
      BY <3>4, <3>5 DEF Docs!DocumentsAreTold
    <3> QED BY <2>3, <3>6
  <2>7. CASE setup.chain = "map_reduce"
    <3>1. Docs!ReduceTells /\ \A k \in DOMAIN docs : Docs!MapTells(k)
      BY <1>1, <2>2, <2>7, LastTold
    <3>2. Docs!ReduceTells' /\ \A k \in DOMAIN docs' : Docs!MapTells(k)'
      BY <2>4, <3>1, ToldStays
    <3>3. setup'.chain = "map_reduce"
      BY <2>4, <2>7
    <3>4. Docs!DocumentsAreTold'
      BY <3>2, <3>3 DEF Docs!DocumentsAreTold
    <3> QED BY <2>3, <3>4
  <2>8. setup.chain # "map_rerank"
    BY <1>1, <2>2, LastTold
  <2> QED BY <1>3, <2>5, <2>6, <2>7, <2>8 DEF Docs!Setup
<1> QED BY <1>5, <1>7, <1>8, <1>9, <1>10

(* Nothing is told when a call begins,                                     *)
LEMMA ToldInit == ASSUME MaxDocs \in Nat, Docs!Init PROVE Docs!ToldInv
<1>1. /\ asked = <<>> /\ outcome.how = "none" /\ setup \in {s \in Docs!Setup : Docs!Possible(s)}
      /\ pc = IF setup.over = "conversation" THEN "begin"
              ELSE IF setup.over = "retrieval" THEN "retrieve" ELSE "combine"
  BY DEF Docs!Init
<1>2. pc \in {"retrieve", "combine"} => setup.history = "none"
  BY <1>1 DEF Docs!Possible
<1>3. pc \in {"retrieve", "combine"} => Len(asked) = Docs!Before
  BY <1>1, <1>2 DEF Docs!Before
<1>4. Docs!TellInv
  BY <1>1, <1>3 DEF Docs!TellInv
<1>5. Docs!DocumentsAreTold
  BY <1>1 DEF Docs!DocumentsAreTold, Docs!Ok
<1> QED BY <1>4, <1>5 DEF Docs!ToldInv

(* and every step keeps what is told.                                      *)
LEMMA ToldSteps ==
    ASSUME Docs!IInv, Docs!AnswerInv, Docs!ToldInv, [Docs!Next]_(Docs!vars)
    PROVE  Docs!ToldInv'
<1>1. Docs!TellInv /\ Docs!DocumentsAreTold
  BY DEF Docs!ToldInv
<1>2. CASE UNCHANGED Docs!vars
  <2>1. UNCHANGED <<setup, pc, docs, asked, outcome>> /\ Docs!SequenceInv
    BY <1>2 DEF Docs!vars, Docs!IInv
  <2>2. Docs!Before' = Docs!Before /\ Len(asked') = Len(asked) /\ Len(docs') = Len(docs)
    BY <2>1 DEF Docs!Before
  <2>3. /\ Docs!MappingTells => Docs!MappingTells'
        /\ Docs!StuffTells => Docs!StuffTells'
        /\ Docs!ReduceTells => Docs!ReduceTells'
        /\ \A k : Docs!MapTells(k) => Docs!MapTells(k)'
        /\ \A k : Docs!RefineTells(k) => Docs!RefineTells(k)'
    BY <2>1, ToldStays
  <2>4. Docs!AskingTells => Docs!AskingTells'
    BY <2>1, <2>2, <2>3 DEF Docs!AskingTells
  <2>5. Docs!TellInv'
    BY <1>1, <2>1, <2>2, <2>3, <2>4 DEF Docs!TellInv
  <2>6. Docs!DocumentsAreTold'
    BY <1>1, <2>1, <2>2, <2>3 DEF Docs!DocumentsAreTold, Docs!Ok
  <2> QED BY <2>5, <2>6 DEF Docs!ToldInv
<1>3. CASE Docs!Next
  <2>1. Docs!TellInv' /\ Docs!DocumentsAreTold'
    BY <1>1, <1>3, BeginsTold, RetrievesTold, CombinesTold, AsksNextTold,
       DocumentAnsweredTold, LastAnsweredTold DEF Docs!Next
  <2> QED BY <2>1 DEF Docs!ToldInv
<1> QED BY <1>2, <1>3
-----------------------------------------------------------------------------
(* The inductive invariant holds, for any number of documents.             *)
THEOREM DocumentsInvariance == ASSUME MaxDocs \in Nat PROVE Docs!Spec => []Docs!IInv
<1>1. Docs!Init => Docs!IInv
  BY DocumentsInit
<1>2. Docs!IInv /\ [Docs!Next]_(Docs!vars) => Docs!IInv'
  BY DocumentsSteps
<1> QED BY <1>1, <1>2, PTL DEF Docs!Spec

(* A call that fails has a cause for it, and one with a failed request is  *)
(* never answered.                                                         *)
THEOREM CallsFailForCauses == ASSUME MaxDocs \in Nat
    PROVE Docs!Spec => []Docs!FailuresHaveCauses
<1>1. Docs!IInv => Docs!FailuresHaveCauses
  BY DEF Docs!IInv
<1> QED BY <1>1, DocumentsInvariance, PTL

(* The memory of a conversation is given what was asked and answered, and  *)
(* nothing of a call that fails but the question where it cannot choose    *)
(* an answer.                                                              *)
THEOREM MemoryHoldsAnswers == ASSUME MaxDocs \in Nat
    PROVE Docs!Spec => []Docs!MemoryKeepsAnswered
<1>1. Docs!IInv => Docs!MemoryKeepsAnswered
  BY DEF Docs!IInv
<1> QED BY <1>1, DocumentsInvariance, PTL

(* So does what is known of the kinds of requests and of the first one.    *)
THEOREM AnswersInvariance == ASSUME MaxDocs \in Nat
    PROVE Docs!Spec => [](Docs!IInv /\ Docs!AnswerInv)
<1>1. Docs!Init => Docs!IInv /\ Docs!AnswerInv
  BY DocumentsInit, AnswersInit
<1>2. (Docs!IInv /\ Docs!AnswerInv) /\ [Docs!Next]_(Docs!vars) => (Docs!IInv /\ Docs!AnswerInv)'
  BY DocumentsSteps, AnswersSteps
<1> QED BY <1>1, <1>2, PTL DEF Docs!Spec

(* The state of a chain over documents keeps its types.                    *)
THEOREM DocumentsTyped == ASSUME MaxDocs \in Nat PROVE Docs!Spec => []Docs!TypeOK
<1>1. Docs!IInv /\ Docs!AnswerInv => Docs!TypeOK
  BY DEF Docs!AnswerInv
<1> QED BY <1>1, AnswersInvariance, PTL

(* The answer is the last that was said, and with map_rerank one that was  *)
(* scored highest, whatever the order in which the answers came.           *)
THEOREM BestIsReturned == ASSUME MaxDocs \in Nat PROVE Docs!Spec => []Docs!AnswerIsBest
<1>1. Docs!IInv /\ Docs!AnswerInv => Docs!AnswerIsBest
  BY DEF Docs!AnswerInv
<1> QED BY <1>1, AnswersInvariance, PTL

(* The history is told only with the question, which the model then words  *)
(* anew before any document is looked for.                                 *)
THEOREM CondensedFirst == ASSUME MaxDocs \in Nat
    PROVE Docs!Spec => []Docs!QuestionIsCondensedFirst
<1>1. Docs!IInv /\ Docs!AnswerInv => Docs!QuestionIsCondensedFirst
  BY DEF Docs!AnswerInv
<1> QED BY <1>1, AnswersInvariance, PTL

(* Whatever order the answers come in, an answer was made of every document, *)
(* once and in their order, and nothing else was asked, for any number of    *)
(* documents.                                                                *)
THEOREM DocumentsTold == ASSUME MaxDocs \in Nat PROVE Docs!Spec => []Docs!DocumentsAreTold
<1>1. Docs!Init => Docs!IInv /\ Docs!AnswerInv /\ Docs!ToldInv
  BY DocumentsInit, AnswersInit, ToldInit
<1>2. Docs!IInv /\ Docs!AnswerInv /\ Docs!ToldInv /\ [Docs!Next]_(Docs!vars)
         => (Docs!IInv /\ Docs!AnswerInv /\ Docs!ToldInv)'
  BY DocumentsSteps, AnswersSteps, ToldSteps
<1>3. Docs!ToldInv => Docs!DocumentsAreTold
  BY DEF Docs!ToldInv
<1> QED BY <1>1, <1>2, <1>3, PTL DEF Docs!Spec

=============================================================================
