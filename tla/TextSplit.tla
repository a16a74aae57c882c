----------------------------- MODULE TextSplit -----------------------------
(***************************************************************************)
(* Splitting plain texts to chunks: the recursive splitter and the one by  *)
(* tokens.                                                                 *)
(***************************************************************************)
EXTENDS TextMerge

CONSTANTS MaxCharacters,  \* of a text
          MaxTokens,      \* of a text that is split by tokens
          MaxChunk        \* characters or tokens of a chunk

VARIABLES splitter, options,
          given,     \* the text, or the number of its tokens
          chunks,    \* what it is split to
          pc, outcome

vars == <<splitter, options, given, chunks, pc, outcome>>

Splitters == {"recursive", "token"}

----------------------------------------------------------------------------
Texts == UNION {{[k \in 1..n |-> Char(cs[k], k)] : cs \in [1..n -> {"x"} \cup Blank]} :
                   n \in 0..MaxCharacters}

\* Separators that are not the last one split what the later ones do not.
SeparatorLists == {<<"nl", " ", "">>, <<"nl", " ">>}

Init ==
    /\ chunks = <<>> /\ pc = "split" /\ outcome = "none"
    /\ \/ /\ splitter = "recursive" /\ given \in Texts
          /\ options \in [size : 0..MaxChunk, overlap : 0..MaxChunk, keep : BOOLEAN,
                          separators : SeparatorLists]
       \/ /\ splitter = "token" /\ given \in 0..MaxTokens
          /\ options \in [size : 0..MaxChunk, overlap : 0..MaxChunk]

Ends(how, made) == pc' = "done" /\ outcome' = how /\ chunks' = made

SplitPlain == /\ splitter = "recursive"
              /\ Ends("ok", splitText(given, options.separators, options))
SplitTokens == /\ splitter = "token"
               /\ LET split == TokenSplit(given, options) IN Ends(split.how, split.chunks)

Next == /\ pc = "split"
        /\ SplitPlain \/ SplitTokens
        /\ UNCHANGED <<splitter, options, given>>

----------------------------------------------------------------------------
TypeOK == /\ splitter \in Splitters
          /\ pc \in {"split", "done"}
          /\ outcome \in {"none", "ok", "endless", "panic"}
          /\ Len(chunks) \in Nat

Done(s) == splitter = s /\ outcome = "ok"

(* The words of a plain text are all in the chunks, each chunk has words   *)
(* that follow each other in the text, and the chunks are in its order.    *)
Words(text) == {k \in DOMAIN text : text[k].c \notin Blank}
Places(text) == {text[k].at : k \in Words(text)}
WordsKept ==
    Done("recursive") =>
        /\ UNION {Places(chunks[k]) : k \in DOMAIN chunks} = Places(given)
        /\ \A k \in DOMAIN chunks :
              /\ \A i, j \in Words(chunks[k]) :
                    i < j => chunks[k][i].at < chunks[k][j].at
              /\ \A p \in Places(given), q, r \in Places(chunks[k]) :
                    q <= p /\ p <= r => p \in Places(chunks[k])
              /\ \A j \in 1..(k - 1), p \in Places(chunks[k]) :
                    Places(chunks[j]) # {} => \E q \in Places(chunks[j]) : q <= p

(* A chunk is as long as it may be, unless nothing is left to split at; a  *)
(* separator is let through that was not counted.                          *)
ChunksFit ==
    Done("recursive") =>
        \A k \in DOMAIN chunks :
            \/ Len(chunks[k]) <= options.size + 1
            \/ "" \notin Range(options.separators)
               /\ \A ch \in Range(TrimSpace(chunks[k])) : ch.c = "x"

(* What two chunks share is no longer than the overlap.                    *)
OverlapKept ==
    Done("recursive") =>
        \A k \in 1..(Len(chunks) - 1) :
            Cardinality(Places(chunks[k]) \cap Places(chunks[k + 1])) <= options.overlap

(* The chunks of tokens leave none out, and each is of the size; there is  *)
(* an end where the overlap is smaller than the size.                      *)
TokensKept ==
    splitter = "token" /\ pc = "done" =>
        /\ outcome # "ok" => options.overlap >= options.size
        /\ outcome = "ok" =>
              /\ UNION {chunks[k].from..chunks[k].to : k \in DOMAIN chunks} = 1..given
              /\ \A k \in DOMAIN chunks :
                    chunks[k].to - chunks[k].from < options.size
=============================================================================
