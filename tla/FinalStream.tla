---------------------------- MODULE FinalStream ----------------------------
(***************************************************************************)
(* AgentFinalStreamHandler: of the chunks an agent's model writes, those   *)
(* from the final answer on are sent to a channel. The handler looks for   *)
(* its keywords in a window over the chunks, as a keyword may come in      *)
(* pieces; nothing puts the handler back to its beginning.                 *)
(*                                                                         *)
(* A text is a sequence of signs: "F" for Final, "A" for Answer, "I" for   *)
(* AI, "-" for a blank, ":" and "x" for any other word.                    *)
(***************************************************************************)
EXTENDS Integers, SequencesExt

CONSTANTS MaxChunks    \* bound on the chunks of a behaviour

Answer == <<"F", "-", "A", ":">>
AI == <<"I", ":">>
Standard == <<Answer, <<"F", ":">>, AI>>    \* "Final Answer:", "Final:", "AI:"

Chunks == {Answer, <<"F">>, <<"-", "A">>, <<"-", "A", ":", "x">>, <<":", "-", "x">>,
           <<"x">>, <<"-", "x">>, <<"I", ":", "x">>, <<"x", "F", ":">>,
           <<"x", "F", "-", "A", ":", "-", "x">>, <<"F", ":", "x", "I", ":", "x">>}

Signs == {"F", "A", "I", "-", ":", "x"}

VARIABLES
    Keywords,          \* of the handler
    DefaultKeywords,   \* of the package
    LastTokens,        \* the window
    PrintOutput,
    egress,            \* the chunk that is being sent, if any
    heard,             \* what the reader got
    spoken,            \* the chunks so far
    listener           \* "reading", "gone" (nobody asked to read), "panicked"

vars == <<Keywords, DefaultKeywords, LastTokens, PrintOutput, egress, heard, spoken, listener>>

TypeOK ==
    /\ Keywords \in {Standard, <<AI>>} /\ DefaultKeywords \in {Standard, <<AI>>, <<Answer>>}
    /\ LastTokens \in Seq(Signs) /\ Len(LastTokens) <= Len(Answer)
    /\ PrintOutput \in BOOLEAN
    /\ Len(egress) <= 1 /\ spoken \in Seq(Chunks)
    /\ listener \in {"reading", "gone", "panicked"}

\* NewFinalStreamHandler: its keywords become the defaults of the package.
NewFinalStreamHandler(keywords) ==
    /\ DefaultKeywords = IF keywords # <<>> THEN keywords ELSE Standard
    /\ Keywords = DefaultKeywords

Init == /\ \E keywords \in {<<>>, <<AI>>} : NewFinalStreamHandler(keywords)
        /\ LastTokens = <<>> /\ PrintOutput = FALSE
        /\ egress = <<>> /\ heard = <<>> /\ spoken = <<>>
        /\ listener \in {"reading", "gone"}
----------------------------------------------------------------------------
(* Texts.                                                                  *)

At(text, part, i) == SubSeq(text, i, i + Len(part) - 1) = part

\* strings.Index: the first place, 0 for none.
Index(text, part) ==
    LET places == {i \in 1..(Len(text) - Len(part) + 1) : At(text, part, i)}
    IN IF places = {} THEN 0 ELSE Min(places)

After(text, n) == SubSeq(text, n + 1, Len(text))

TrimLeft(text) ==
    LET words == {i \in DOMAIN text : text[i] # "-"}
    IN IF words = {} THEN <<>> ELSE After(text, Min(words) - 1)

filterFinalString(chunk, keyword) ==
    LET text == TrimLeft(chunk)
        index == Index(text, keyword)
    IN TrimLeft(CASE index # 0 -> After(text, index + Len(keyword) - 1)
                  [] index = 0 /\ text # <<>> /\ At(text, <<":">>, 1) -> Tail(text)
                  [] OTHER -> text)
----------------------------------------------------------------------------
(* The handler and its reader.                                             *)

longestSize == Max({Len(Keywords[k]) : k \in DOMAIN Keywords})

\* The keywords looked for are those of the package, the window is as long as the
\* longest of the handler; of several keywords the last of the list is cut off. Once
\* a keyword was there everything is sent, and the model waits for the reader.
HandleStreamingFunc(chunk) ==
    LET text == LastTokens \o chunk
        detected == {k \in DOMAIN DefaultKeywords : Index(text, DefaultKeywords[k]) # 0}
    IN /\ egress = <<>> /\ listener # "panicked" /\ Len(spoken) < MaxChunks
       /\ spoken' = Append(spoken, chunk)
       /\ LastTokens' = After(text, Max({0, Len(text) - longestSize}))
       /\ PrintOutput' = (PrintOutput \/ detected # {})
       /\ egress' = CASE PrintOutput -> <<chunk>>
                      [] ~PrintOutput /\ detected # {} ->
                            <<filterFinalString(chunk, DefaultKeywords[Max(detected)])>>
                      [] OTHER -> <<>>
       /\ UNCHANGED <<Keywords, DefaultKeywords, heard, listener>>

ReadFromEgress ==
    /\ listener = "reading" /\ egress # <<>>
    /\ heard' = heard \o egress[1] /\ egress' = <<>>
    /\ UNCHANGED <<Keywords, DefaultKeywords, LastTokens, PrintOutput, spoken, listener>>

\* Only a closed channel ends the reader, which then closes it itself.
CloseEgress ==
    /\ listener = "reading" /\ egress = <<>>
    /\ listener' = "panicked"
    /\ UNCHANGED <<Keywords, DefaultKeywords, LastTokens, PrintOutput, egress, heard, spoken>>

\* Somebody makes another handler, with keywords of its own.
MakeOther ==
    /\ DefaultKeywords' = <<Answer>>
    /\ UNCHANGED <<Keywords, LastTokens, PrintOutput, egress, heard, spoken, listener>>

Next == \/ \E chunk \in Chunks : HandleStreamingFunc(chunk)
        \/ ReadFromEgress \/ CloseEgress \/ MakeOther

Spec == Init /\ [][Next]_vars
----------------------------------------------------------------------------
Spoken(n) == FlattenSeq(SubSeq(spoken, 1, n))
Found(n) == {k \in DOMAIN Keywords : Index(Spoken(n), Keywords[k]) # 0}

\* The first chunk with which a keyword is complete.
First == Min({n \in DOMAIN spoken : Found(n) # {}})

\* The keyword is whole in its chunk, or lacks only its colon, and there is no other.
Clean(n) ==
    /\ Cardinality(Found(n)) = 1
    /\ LET keyword == Keywords[CHOOSE k \in Found(n) : TRUE]
           chunk == TrimLeft(spoken[n])
       IN Index(chunk, keyword) # 0 \/ At(chunk, <<":">>, 1)

(* What is sent is what the agent says after the keyword, all of it and in order, even
   if the keyword comes in pieces, as long as nobody else made a handler with other
   keywords. A keyword of which more than the colon is in the last piece is sent in
   part, and of two keywords in one chunk the wrong one may be cut off. *)
FinalIsSent ==
    DefaultKeywords = Keywords =>
        IF Found(Len(spoken)) = {} THEN heard = <<>> /\ egress = <<>>
        ELSE Clean(First) =>
                LET keyword == Keywords[CHOOSE k \in Found(First) : TRUE]
                    all == Spoken(Len(spoken))
                IN TrimLeft(heard \o FlattenSeq(egress)) =
                       TrimLeft(After(all, Index(all, keyword) + Len(keyword) - 1))

(* Nothing is sent before one of the keywords of the package has been said. *)
ThoughtsAreKept ==
    (heard # <<>> \/ egress # <<>>) =>
        \E k \in DOMAIN Standard : Index(Spoken(Len(spoken)), Standard[k]) # 0
----------------------------------------------------------------------------
(* The inductive invariant of the handler.                                 *)

Rest == After(Spoken(Len(spoken)), Len(Spoken(First)))    \* what followed the first chunk

\* The window is the end of what was said.
WindowInv ==
    /\ heard \in Seq(Signs) /\ egress \in Seq(Seq(Signs))
    /\ LET all == Spoken(Len(spoken))
       IN LastTokens = After(all, Max({0, Len(all) - longestSize}))

\* Nothing is passed on before a keyword of the package was said.
KeptInv ==
    IF PrintOutput THEN \E k \in DOMAIN Standard : Index(Spoken(Len(spoken)), Standard[k]) # 0
    ELSE heard = <<>> /\ egress = <<>>

\* Passed on is the end of the chunk that completed a keyword, and all that followed.
SentInv ==
    DefaultKeywords = Keywords =>
        IF PrintOutput
        THEN /\ \E n \in DOMAIN spoken : Found(n) # {}
             /\ Spoken(Len(spoken)) = Spoken(First) \o Rest
             /\ heard \o FlattenSeq(egress) =
                    filterFinalString(spoken[First], Keywords[Max(Found(First))]) \o Rest
        ELSE \A n \in 0..Len(spoken) : Found(n) = {}

IInv == TypeOK /\ WindowInv /\ KeptInv /\ SentInv
=============================================================================
