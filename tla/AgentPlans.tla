----------------------------- MODULE AgentPlans -----------------------------
(***************************************************************************)
(* How the agents put what was done so far into their request and read     *)
(* what is to be done next from the answer: OneShotZeroAgent (mrkl),       *)
(* ConversationalAgent and OpenAIFunctionsAgent, this one over the model   *)
(* of openai and over another that has functions. The executor that runs   *)
(* the tools is reduced here to its loop (AgentExecutor has all of it).    *)
(*                                                                         *)
(* A step is told by the plan it is of and its place in that; the step     *)
(* of an answer that could not be read has no place, 0.                    *)
(***************************************************************************)
EXTENDS Integers, SequencesExt

CONSTANTS MaxPlans,     \* Executor.MaxIterations
          MaxLines      \* bound on the lines of the first answer; later ones have two

VARIABLES
    setup,      \* the agent, its executor's error handler, its output key
    pc,         \* "plan", "act" or "returned"
    asked,      \* what was done so far, as each request told it
    answers,    \* the answers of the model, one to each
    messages,   \* intermediateMessages: the answers that are kept as messages
    done,       \* the steps
    outcome     \* how the call ended, with which part of the last answer

vars == <<setup, pc, asked, answers, messages, done, outcome>>

Functions == {"openai", "functions"}   \* the agent over openai, and over another
Setup == [agent : {"mrkl", "conversational"} \cup Functions,
          handler : BOOLEAN,    \* ErrorHandler
          renamed : BOOLEAN]    \* another output key than "output"

\* The handler matters to texts, the key to functions.
Possible(s) == IF s.agent \in Functions THEN ~s.handler ELSE ~s.renamed

\* A text is a sequence of lines; "final" has the mark of the final answer.
Lines == {"text", "action", "input", "final"}
TextsOf(max) == UNION {[1..n -> Lines] : n \in 1..max}
Texts == IF asked = <<>> THEN TextsOf(MaxLines) ELSE TextsOf(2)

\* An answer with functions is a sequence of choices: the arguments of the calls of
\* each. Only another model than openai has several, one for a text or a call.
Arguments == {"json", "broken"}
CallLists == UNION {[1..n -> Arguments] : n \in 0..2}
Several == [1..2 -> CallLists]

\* The model fails, or gives no choice.
Failure == <<>>
Says == {Failure} \cup IF setup.agent \notin Functions THEN Texts
                       ELSE {<<c>> : c \in CallLists}
                            \cup IF setup.agent = "functions" THEN Several ELSE {}

Step == [plan : 1..MaxPlans, place : 0..4]
Told == [what : {"model", "tool"}, plan : 1..MaxPlans, place : 0..4]

\* The lines or the choice of the last answer that were returned.
Outcome == [how : {"none", "ok", "error", "unfinished"}, from : Nat]
Ended(how, from) == pc' = "returned" /\ outcome' = [how |-> how, from |-> from]
Failed == Ended("error", 0)

TypeOK ==
    /\ setup \in Setup
    /\ pc \in {"plan", "act", "returned"}
    /\ asked \in Seq(Seq(Told)) /\ Len(asked) <= MaxPlans
    /\ Len(answers) = Len(asked) /\ \A n \in DOMAIN answers :
           IF setup.agent \in Functions THEN answers[n] \in Says
           ELSE answers[n] \in {Failure} \cup TextsOf(MaxLines) \cup TextsOf(2)
    /\ messages \in Seq(1..MaxPlans)
    /\ done \in Seq(Step)
    /\ outcome \in Outcome

Init == /\ setup \in {s \in Setup : Possible(s)}
        /\ pc = "plan" /\ asked = <<>> /\ answers = <<>> /\ messages = <<>> /\ done = <<>>
        /\ outcome = [how |-> "none", from |-> 0]
----------------------------------------------------------------------------
(* What was done, as it is told.                                           *)

Item(what, plan, place) == [what |-> what, plan |-> plan, place |-> place]
Only(item, condition) == IF condition THEN <<item>> ELSE <<>>
AsTold(steps) == [k \in DOMAIN steps |-> Item("tool", steps[k].plan, steps[k].place)]

\* Those of a list that are in a set, in order.
Those(list, set) == FlattenSeq([k \in DOMAIN list |-> Only(list[k], list[k] \in set)])

\* Of a plan, and of those before it.
Steps(plans) == [plan : plans, place : Nat]

\* The answer of the model and what came of it; nothing of one not read but the error.
constructMrklScratchPad ==
    FlattenSeq([k \in DOMAIN done |->
        Only(Item("model", done[k].plan, 0), done[k].place > 0) \o AsTold(<<done[k]>>)])

\* A message of the model, and the steps that are of its calls; so each.
WithAnswers(plan) == <<Item("model", plan, 0)>> \o AsTold(Those(done, Steps({plan})))
constructScratchPad ==
    IF done = <<>> THEN <<>>
    ELSE FlattenSeq([k \in DOMAIN messages |-> WithAnswers(messages[k])])

Scratchpad == IF setup.agent \in Functions THEN constructScratchPad
              ELSE constructMrklScratchPad
----------------------------------------------------------------------------
(* What is to be done: a place for each action, a final answer, or neither.  *)

Read(how, actions, from) == [how |-> how, actions |-> actions, from |-> from]

\* The first action that its input follows; a final answer goes before any.
parseOutput(text) ==
    LET final == {k \in DOMAIN text : text[k] = "final"}
        pairs == {k \in 1..(Len(text) - 1) : text[k] = "action" /\ text[k + 1] = "input"}
    IN IF final # {} THEN Read("finish", 0, Max(final))
       ELSE IF pairs = {} THEN Read("unreadable", 0, 0)
       ELSE Read("act", 1, Min(pairs))

\* Choice by choice: one without calls is the final answer, and broken arguments
\* an error, whatever the others are.
ParseOutput(choices) ==
    LET broken == {c \in DOMAIN choices : \E k \in DOMAIN choices[c] :
                                              choices[c][k] = "broken"}
        plain == {c \in DOMAIN choices : choices[c] = <<>>}
        first == Min({Len(choices) + 1} \cup broken \cup plain)
    IN IF first \in broken THEN Read("error", 0, 0)
       ELSE IF first \in plain THEN Read("finish", 0, first)
       ELSE Read("act", Len(FlattenSeq(choices)), 0)

Parsed(answer) ==
    IF answer = Failure THEN Read("error", 0, 0)
    ELSE IF setup.agent \in Functions THEN ParseOutput(answer) ELSE parseOutput(answer)

\* The functions' final answer has the key "output", another that the executor
\* looks for is missing. Only the model of openai gives the message that is kept.
Plan ==
    /\ pc = "plan" /\ Len(asked) < MaxPlans
    /\ asked' = Append(asked, Scratchpad)
    /\ \E answer \in Says :
          LET read == Parsed(answer)
              n == Len(asked) + 1
          IN /\ answers' = Append(answers, answer)
             /\ \/ /\ read.how = "finish" /\ UNCHANGED <<messages, done>>
                   /\ IF setup.renamed /\ setup.agent \in Functions THEN Failed
                      ELSE Ended("ok", read.from)
                \/ /\ read.how = "act" /\ pc' = "act" /\ UNCHANGED <<done, outcome>>
                   /\ messages' = IF setup.agent = "openai" THEN Append(messages, n)
                                  ELSE messages
                \/ /\ read.how = "unreadable" /\ setup.handler
                   /\ done' = Append(done, [plan |-> n, place |-> 0])
                   /\ UNCHANGED <<pc, messages, outcome>>
                \/ /\ read.how = "error" \/ (read.how = "unreadable" /\ ~setup.handler)
                   /\ Failed /\ UNCHANGED <<messages, done>>
    /\ UNCHANGED setup

\* The tools run, and the steps are recorded in the order of the actions; or one
\* fails.
Act ==
    /\ pc = "act"
    /\ LET n == Len(asked)
       IN \/ Failed /\ UNCHANGED done
          \/ /\ done' = done \o [k \in 1..Parsed(answers[n]).actions |->
                                    [plan |-> n, place |-> k]]
             /\ pc' = "plan" /\ UNCHANGED outcome
    /\ UNCHANGED <<setup, asked, answers, messages>>

GiveUp == /\ pc = "plan" /\ Len(asked) = MaxPlans
          /\ Ended("unfinished", 0)
          /\ UNCHANGED <<setup, asked, answers, messages, done>>

Next == Plan \/ Act \/ GiveUp

Spec == Init /\ [][Next]_vars
----------------------------------------------------------------------------
Tools(request) == Those(request, [what : {"tool"}, plan : Nat, place : Nat])

\* Each step after the answer of the model that it is of.
AfterAnswers(request) ==
    \A k \in DOMAIN request : request[k].place > 0 =>
        \E j \in 1..(k - 1) : request[j].what = "model" /\ request[j].plan = request[k].plan

\* Every call of a message has its answer before the next message.
CallsAnswered(request) ==
    \A k \in DOMAIN request : request[k].what = "model" =>
        LET p == request[k].plan
        IN \A i \in DOMAIN answers[p][1] : /\ k + i <= Len(request)
                                           /\ request[k + i] = Item("tool", p, i)

(* Each request tells every step so far, once and in order, each after the answer of
   the model that it is of. Over another model than openai none is told, and the
   agent asks each time as if nothing had been done. *)
StepsAreTold ==
    \A n \in DOMAIN asked :
        IF setup.agent = "functions" THEN asked[n] = <<>>
        ELSE /\ Tools(asked[n]) = AsTold(Those(done, Steps(1..(n - 1))))
             /\ AfterAnswers(asked[n])

(* With functions the calls are answered as the service demands, and no answer is
   there without its call. *)
CallsAreAnswered ==
    setup.agent = "openai" => \A n \in DOMAIN asked : CallsAnswered(asked[n])

(* What is returned is the last part of the last answer that is marked as final or
   calls nothing. No call of openai is dropped for it; another model's are, if a
   choice is a text. *)
FinalIsReturned ==
    outcome.how = "ok" =>
        LET answer == answers[Len(answers)]
            from == outcome.from
        IN IF setup.agent \in Functions
           THEN answer[from] = <<>> /\ (setup.agent = "openai" => Len(answer) = 1)
           ELSE answer[from] = "final" /\ \A k \in DOMAIN answer : k > from => answer[k] # "final"

(* An answer that cannot be read is an error, or told to the model by the handler;
   no failure is an answer, and none goes on to another plan. *)
FailureEnds ==
    \A n \in DOMAIN answers :
        Parsed(answers[n]).how = "error"
        \/ (Parsed(answers[n]).how = "unreadable" /\ ~setup.handler) =>
            n = Len(answers) /\ outcome.how = "error"
----------------------------------------------------------------------------
(* The inductive invariant of how a call ends: no failure is among the answers while
   it goes on. *)

PlanInv ==
    /\ answers \in Seq({Failure} \cup IF setup.agent \in Functions
                                      THEN {<<c>> : c \in CallLists} \cup Several
                                      ELSE TextsOf(MaxLines) \cup TextsOf(2))
    /\ pc # "returned" => outcome.how = "none"

\* What the next request is to tell.
Tells(request) == /\ Tools(request) = AsTold(done) /\ AfterAnswers(request)
                  /\ setup.agent = "openai" => CallsAnswered(request)

\* While the tools run, the last request tells what was done before. A message is
\* kept of each plan of openai, which has done something.
StoryInv ==
    /\ TypeOK
    /\ \A k \in DOMAIN done : done[k].plan \in 1..Len(asked)
    /\ \A n \in DOMAIN asked : \A k \in DOMAIN asked[n] : asked[n][k].plan \in 1..(n - 1)
    /\ setup.agent = "functions" => messages = <<>>
    /\ pc # "returned" /\ setup.agent = "openai" =>
          messages = [k \in 1..Len(asked) |-> k]
    /\ pc = "plan" => /\ setup.agent # "functions" => Tells(Scratchpad)
                      /\ setup.agent = "openai" => (done = <<>> <=> asked = <<>>)
    /\ pc = "act" =>
          /\ asked # <<>> /\ Parsed(answers[Len(asked)]).how = "act"
          /\ \A k \in DOMAIN done : done[k].plan < Len(asked)
          /\ setup.agent # "functions" =>
                asked[Len(asked)] =
                    IF setup.agent # "openai" THEN constructMrklScratchPad
                    ELSE FlattenSeq([k \in 1..(Len(asked) - 1) |-> WithAnswers(k)])

IInv == PlanInv /\ FailureEnds /\ FinalIsReturned /\ StoryInv /\ StepsAreTold /\ CallsAreAnswered

=============================================================================
