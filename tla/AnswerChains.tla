---------------------------- MODULE AnswerChains ----------------------------
(***************************************************************************)
(* The chains that act on what the model says and ask it again: a critique *)
(* of its answer by principles (Constitutional), a request to an API       *)
(* (APIChain), a query of a database (SQLDatabaseChain) and an expression  *)
(* (LLMMathChain). A text of the model is told by the request it answers.  *)
(***************************************************************************)
EXTENDS Integers, Sequences, FiniteSetsExt

CONSTANTS MaxPrinciples,  \* bound on the principles
          MaxLines        \* bound on the lines of a query

VARIABLES
    setup,      \* the chain and, of Constitutional, how many principles
    pc,         \* "ask", "act", "told" or "returned"
    asked,      \* the requests to the model
    answers,    \* and the answers to them
    done,       \* what was sent to the API, the database or the interpreter
    outcome     \* how the call ended, with the answer that was returned

vars == <<setup, pc, asked, answers, done, outcome>>

Chains == {"constitutional", "api", "sql", "math"}
Setup == [chain : Chains, principles : 0..MaxPrinciples]

\* The lines a model writes a query in: of the query itself, the marks of its
\* format (with a query after the first, or without) and a fence of markdown.
Lines == {"query", "SQLQuery: query", "SQLQuery:", "fence", "SQLResult:"}
Queries == UNION {[1..n -> Lines] : n \in 0..MaxLines}

\* The tokens of an answer; the ends of it are trimmed.
Replies == {r \in UNION {[1..n -> {"text", "paragraph", "Answer:"}] : n \in 1..3} :
               r[1] # "paragraph" /\ r[Len(r)] # "paragraph"}

Request == [to : {"initial", "critique", "revise", "act", "answer"},
            principle : 0..MaxPrinciples,
            about : Nat]        \* the answer it is about, 0 for none
Critiques == {"needed", "none", "mentioned"}  \* "no critique needed", or a text with that
Calls == {"call", "prose"}                    \* JSON, or none
Sums == {"block", "broken", "Answer:", "prose"}
Said(how, form) == [how |-> how, form |-> form]
Pending == Said("pending", <<>>)

\* What the model may say.
Says(request) ==
    {Said("failed", <<>>)} \cup
    {Said("text", form) : form \in
        CASE request.to = "critique" -> {<<c>> : c \in Critiques}
          [] request.to = "act" /\ setup.chain = "api" -> {<<c>> : c \in Calls}
          [] request.to = "act" /\ setup.chain = "math" -> {<<s>> : s \in Sums}
          [] request.to = "act" /\ setup.chain = "sql" -> Queries
          [] request.to = "answer" /\ setup.chain = "sql" -> Replies
          [] OTHER -> {<<"text">>}}

\* An answer is told by the request and the tokens of its text that are in it; that
\* of an expression is its value.
Outcome == [how : {"none", "ok", "error"}, answer : Nat, tokens : SUBSET (1..3),
            value : BOOLEAN]
Ended(how, n, tokens, value) ==
    pc' = "returned" /\ outcome' = [how |-> how, answer |-> n, tokens |-> tokens,
                                    value |-> value]
Failed == Ended("error", 0, {}, FALSE)

TypeOK ==
    /\ setup \in Setup
    /\ pc \in {"ask", "act", "told", "returned"}
    /\ asked \in Seq(Request)
    /\ Len(answers) = Len(asked) /\ \A n \in DOMAIN answers :
           answers[n] = Pending \/ answers[n] \in Says(asked[n])
    /\ done \in Seq(SUBSET (1..MaxLines \cup {1}))
    /\ outcome \in Outcome
----------------------------------------------------------------------------
AskFor(heard, to, principle, about) ==
    /\ asked' = Append(asked, [to |-> to, principle |-> principle, about |-> about])
    /\ answers' = Append(heard, Pending)

FirstOf(chain) == [to |-> IF chain = "constitutional" THEN "initial" ELSE "act",
                   principle |-> 0, about |-> 0]

Init ==
    /\ setup \in {s \in Setup : s.chain # "constitutional" => s.principles = 0}
    /\ asked = <<FirstOf(setup.chain)>> /\ answers = <<Pending>>
    /\ done = <<>> /\ pc = "ask"
    /\ outcome = [how |-> "none", answer |-> 0, tokens |-> {}, value |-> FALSE]

Latest == Len(asked)
Heard(answer) == [answers EXCEPT ![Latest] = answer]
----------------------------------------------------------------------------
(* Constitutional.                                                         *)

\* The response after these requests: the latest revision.
Response == Max({1} \cup {n \in 1..Latest : asked[n].to = "revise"})

\* All principles were gone through. The caller's response is the one that was
\* handed over to be critiqued, whatever became of it.
Call == Ended("ok", 1, {1}, FALSE)

\* The next principle has its critique; a revision needs one that says so.
processCritiquesAndRevisions ==
    /\ setup.chain = "constitutional" /\ pc = "ask"
    /\ \E answer \in Says(asked[Latest]) :
         LET heard == Heard(answer)
             request == asked[Latest]
             next == request.principle + 1
             revise == request.to = "critique" /\ answer.form = <<"needed">>
         IN \/ answer.how = "failed" /\ Failed /\ answers' = heard /\ UNCHANGED asked
            \/ /\ answer.how = "text" /\ revise /\ UNCHANGED <<pc, outcome>>
               /\ AskFor(heard, "revise", request.principle, Response)
            \/ /\ answer.how = "text" /\ ~revise /\ next <= setup.principles
               /\ AskFor(heard, "critique", next, Response) /\ UNCHANGED <<pc, outcome>>
            \/ /\ answer.how = "text" /\ ~revise /\ next > setup.principles
               /\ Call /\ answers' = heard /\ UNCHANGED asked
    /\ UNCHANGED <<setup, done>>
----------------------------------------------------------------------------
(* The others.                                                             *)

Marked(line) == line \in {"SQLQuery: query", "SQLQuery:"}

\* What is known of the text before its first line, and after one more.
Unread == [query |-> {}, found |-> FALSE, stopped |-> FALSE]
ReadLine(lines, m, k) ==
    LET contains == \E j \in DOMAIN lines : Marked(lines[j])
    IN IF m.stopped \/ lines[k] = "fence" THEN m
       ELSE IF lines[k] = "SQLResult:" THEN [m EXCEPT !.stopped = TRUE]
       ELSE IF lines[k] = "SQLQuery:" THEN [m EXCEPT !.found = TRUE]
       ELSE IF lines[k] = "SQLQuery: query"
            THEN [m EXCEPT !.found = TRUE, !.query = @ \cup {k}]
       ELSE IF contains /\ ~m.found THEN m
       ELSE [m EXCEPT !.query = @ \cup {k}]

\* The lines that are run.
extractSQLQuery(lines) ==
    LET read[k \in 0..Len(lines)] == IF k = 0 THEN Unread ELSE ReadLine(lines, read[k - 1], k)
    IN read[Len(lines)].query

\* What is to be done: nothing can be, or these lines of it.
ToDo(form) ==
    IF setup.chain = "sql" THEN extractSQLQuery(form)
    ELSE IF form[1] \in {"call", "block", "broken"} THEN {1} ELSE {}

\* The text of the model says what to do. An answer in place of an expression is
\* returned as it is.
Understand ==
    /\ setup.chain # "constitutional" /\ pc = "ask" /\ asked[Latest].to = "act"
    /\ \E answer \in Says(asked[Latest]) :
          /\ answers' = Heard(answer)
          /\ \/ /\ answer.how = "failed" /\ Failed /\ UNCHANGED done
             \/ /\ answer.how = "text" /\ ToDo(answer.form) = {} /\ UNCHANGED done
                /\ IF answer.form = <<"Answer:">>
                   THEN Ended("ok", Latest, {1}, FALSE) ELSE Failed
             \/ /\ answer.how = "text" /\ ToDo(answer.form) # {}
                /\ done' = Append(done, ToDo(answer.form))
                /\ pc' = "act" /\ UNCHANGED outcome
    /\ UNCHANGED <<setup, asked>>

\* It is done or fails. A status of the API that says so is no failure.
Act ==
    /\ pc = "act"
    /\ \/ Failed /\ UNCHANGED <<asked, answers>>
       \/ /\ setup.chain = "math" /\ answers[Latest].form = <<"block">>
          /\ Ended("ok", Latest, {}, TRUE) /\ UNCHANGED <<asked, answers>>
       \/ /\ setup.chain # "math" /\ pc' = "ask" /\ UNCHANGED outcome
          /\ AskFor(answers, "answer", 0, Latest)
    /\ UNCHANGED <<setup, done>>

\* Of the first paragraph, what is after its first mark and before the second.
Answer(reply) ==
    LET before(mark, from) == {k \in from..Len(reply) : reply[k] = mark}
        end(mark, from) == Min({Len(reply) + 1} \cup before(mark, from))
        first == end("paragraph", 1) - 1
        mark == end("Answer:", 1)
    IN IF mark > first THEN 1..first
       ELSE (mark + 1)..Min({first, end("Answer:", mark + 1) - 1})

Tell ==
    /\ setup.chain # "constitutional" /\ pc = "ask" /\ asked[Latest].to = "answer"
    /\ \E answer \in Says(asked[Latest]) :
          /\ answers' = Heard(answer)
          /\ IF answer.how = "failed" THEN Failed
             ELSE Ended("ok", Latest,
                        IF setup.chain = "sql" THEN Answer(answer.form) ELSE {1}, FALSE)
    /\ UNCHANGED <<setup, asked, done>>

Next == processCritiquesAndRevisions \/ Understand \/ Act \/ Tell

Spec == Init /\ [][Next]_vars
----------------------------------------------------------------------------
Ok == outcome.how = "ok"
Asked(to) == {n \in DOMAIN asked : asked[n].to = to}

(* Each principle is put to the response as it was last revised, once and in its
   order, and revised only when its critique asks for it. *)
PrinciplesAreApplied ==
    setup.chain = "constitutional" =>
        /\ \A n \in Asked("critique") \cup Asked("revise") :
              LET before == {m \in 1..(n - 1) : asked[m].to \in {"initial", "revise"}}
              IN asked[n].about = Max(before)
        /\ \A n \in Asked("revise") : /\ asked[n - 1].to = "critique"
                                      /\ asked[n - 1].principle = asked[n].principle
                                      /\ answers[n - 1].form = <<"needed">>
        /\ Ok => \A p \in 1..setup.principles :
              Cardinality({n \in Asked("critique") : asked[n].principle = p}) = 1

(* What is run in the database is the query and all of it: the lines after the mark
   of a query, if there is one, before that of its result, and no more. *)
QueryIsRun ==
    setup.chain = "sql" /\ done # <<>> =>
        LET lines == answers[1].form
            marks == {k \in DOMAIN lines : Marked(lines[k])}
            results == {k \in DOMAIN lines : lines[k] = "SQLResult:"}
        IN done[1] = {k \in DOMAIN lines :
                         /\ lines[k] \in {"query", "SQLQuery: query"}
                         /\ \A r \in results : k < r
                         /\ marks = {} \/ \E m \in marks : m <= k}

(* Nothing is done twice in a call, and the answer is asked for after it is done. *)
DoneOnce == Len(done) <= 1 /\ (Asked("answer") # {} => Len(done) = 1)

(* The answer is the last that was said: of a reply on a query the part marked as
   the answer, if its first paragraph has one, and of an expression its value. That
   of Constitutional is the first: its revisions are not returned. *)
LastIsReturned ==
    Ok =>
        /\ outcome.answer = IF setup.chain = "constitutional" THEN 1 ELSE Latest
        /\ setup.chain = "math" => outcome.value = (answers[Latest].form = <<"block">>)
        /\ setup.chain = "sql" =>
              LET reply == answers[Latest].form
                  inFirst(k) == \A j \in 1..k : reply[j] # "paragraph"
              IN /\ \A k \in outcome.tokens : inFirst(k) /\ reply[k] = "text"
                 /\ \A k \in DOMAIN reply :
                       reply[k] = "text" /\ inFirst(k) /\ k \notin outcome.tokens =>
                           \E j \in DOMAIN reply : inFirst(j) /\ reply[j] = "Answer:"

(* No failure of the model, of what is run or of its format is told as an answer. *)
FailureIsTold ==
    /\ (\E n \in DOMAIN answers : answers[n].how = "failed") => ~Ok
    /\ setup.chain \in {"api", "sql"} /\ Ok => Len(done) = 1
    /\ setup.chain = "math" /\ Ok => answers[1].form \in {<<"block">>, <<"Answer:">>}
----------------------------------------------------------------------------
(* The inductive invariant of what a call has asked and done, in parts. *)

Forms == {<<>>} \cup {<<word>> : word \in Critiques \cup Calls \cup Sums \cup {"text"}}
         \cup Queries \cup Replies

AskedInv ==
    /\ setup \in Setup /\ pc \in {"ask", "act", "returned"}
    /\ asked \in Seq(Request) /\ asked # <<>>
    /\ answers \in Seq([how : {"pending", "failed", "text"}, form : Forms])
    /\ Len(answers) = Len(asked)

\* Nothing has failed while the call goes on.
RunningInv ==
    pc # "returned" => /\ outcome.how = "none"
                       /\ \A n \in DOMAIN answers : answers[n].how # "failed"

\* Other chains than Constitutional ask what to do, do it once, and ask for the answer,
\* but for an expression.
DoneInv ==
    setup.chain # "constitutional" =>
        /\ \A n \in DOMAIN asked : asked[n].to = IF n = 1 THEN "act" ELSE "answer"
        /\ Len(asked) <= IF setup.chain = "math" THEN 1 ELSE 2
        /\ pc = "ask" => IF Len(asked) = 1 THEN done = <<>> ELSE Len(done) = 1
        /\ pc = "act" => Len(done) = 1 /\ Len(asked) = 1

\* The course of a call.
CourseInv == AskedInv /\ RunningInv /\ DoneInv /\ FailureIsTold

\* Constitutional begins with an answer, critiques it by one principle after the other
\* and revises it where a critique asks for it, the response as it is then.
CritiqueInv ==
    setup.chain = "constitutional" =>
        /\ done = <<>> /\ pc # "act"
        /\ asked[1].to = "initial" /\ asked[1].principle = 0
        /\ \A n \in DOMAIN asked \ {1} :
              \/ /\ asked[n].to = "critique"
                 /\ asked[n].principle = asked[n - 1].principle + 1
              \/ /\ asked[n].to = "revise" /\ asked[n - 1].to = "critique"
                 /\ asked[n].principle = asked[n - 1].principle
                 /\ answers[n - 1].form = <<"needed">>
        /\ \A n \in DOMAIN asked \ {1} :
              asked[n].about =
                Max({m \in 1..(n - 1) : asked[m].to \in {"initial", "revise"}})

\* So each principle it has come to has one critique.
PrincipleInv ==
    setup.chain = "constitutional" =>
        LET reached == asked[Latest].principle
        IN /\ reached <= setup.principles /\ (Ok => reached = setup.principles)
           /\ \A n \in DOMAIN asked : asked[n].principle <= reached
           /\ \A p \in 1..reached : \E n \in Asked("critique") : asked[n].principle = p
           /\ \A n, m \in Asked("critique") : asked[n].principle = asked[m].principle => n = m

\* What is done is what the first answer says, and an answer is asked for after it.
QueryInv ==
    setup.chain # "constitutional" =>
        /\ done # <<>> => /\ answers[1] \in Says(asked[1]) /\ answers[1].how = "text"
                          /\ done = <<ToDo(answers[1].form)>>
        /\ Len(asked) > 1 => done # <<>>

IInv == TypeOK /\ CourseInv /\ CritiqueInv /\ PrincipleInv /\ QueryInv /\ LastIsReturned

=============================================================================
