----------------------------- MODULE TextMerge -----------------------------
(***************************************************************************)
(* Splitting a text at separators and merging the pieces to chunks: the    *)
(* recursive splitter and the merging that the splitter of markdown uses   *)
(* too. A text is a sequence of characters that keep the place they have   *)
(* in it, so that a chunk tells what it was made of. A loop is a function  *)
(* of its rounds.                                                          *)
(***************************************************************************)
EXTENDS Naturals, FiniteSets, SequencesExt

Blank == {" ", "nl"}   \* a space and a newline
Char(c, place) == [c |-> c, at |-> place]

\* A separator put back between two pieces has no place of its own.
Separator(c) == IF c = "" THEN <<>> ELSE <<Char(c, 0)>>

Joined(pieces, sep) ==
    LET text[k \in 0..Len(pieces)] ==
            IF k = 0 THEN <<>>
            ELSE text[k - 1] \o (IF k = 1 THEN <<>> ELSE sep) \o pieces[k]
    IN text[Len(pieces)]

TrimSpace(text) ==
    LET solid == {k \in DOMAIN text : text[k].c \notin Blank}
    IN IF solid = {} THEN <<>> ELSE SubSeq(text, Min(solid), Max(solid))

\* strings.Split.
SplitAt(text, c) ==
    IF c = "" THEN [k \in DOMAIN text |-> <<text[k]>>]
    ELSE LET cut[k \in 0..Len(text)] ==
                 IF k = 0 THEN <<<<>>>>
                 ELSE IF text[k].c = c THEN Append(cut[k - 1], <<>>)
                 ELSE [cut[k - 1] EXCEPT ![Len(cut[k - 1])] = Append(@, text[k])]
         IN cut[Len(text)]

----------------------------------------------------------------------------
(* Merging. A piece is told by its length here; pieces are joined with a   *)
(* separator of length sep.                                                *)

SumOf(sizes) ==
    LET sum[k \in 0..Len(sizes)] == IF k = 0 THEN 0 ELSE sum[k - 1] + sizes[k]
    IN sum[Len(sizes)]
LengthOf(sizes, sep) == IF sizes = <<>> THEN 0 ELSE SumOf(sizes) + sep * (Len(sizes) - 1)

shouldPop(overlap, chunkSize, total, split, sep, pieces) ==
    LET more == IF pieces < 2 THEN 0 ELSE sep
    IN pieces > 0 /\ (total > overlap \/ (total + split + more > chunkSize /\ total > 0))

\* How many of the pieces are popped before the split is added to them.
Popped(sizes, split, sep, chunkSize, overlap) ==
    LET rest(k) == SubSeq(sizes, k + 1, Len(sizes))
        enough(k) == ~ shouldPop(overlap, chunkSize, LengthOf(rest(k), sep),
                                 split, sep, Len(rest(k)))
    IN Min({k \in 0..Len(sizes) : enough(k)})

\* The chunks, each as the first and the last of the splits it is joined of.
mergeSplits(sizes, sep, chunkSize, overlap) ==
    LET pieces(from, to) == SubSeq(sizes, from, to)
        after[k \in 0..Len(sizes)] ==
            IF k = 0 THEN [docs |-> <<>>, from |-> 1]
            ELSE LET m == after[k - 1] IN
                 IF LengthOf(pieces(m.from, k), sep) > chunkSize /\ m.from < k
                 THEN [docs |-> Append(m.docs, <<m.from, k - 1>>),
                       from |-> m.from + Popped(pieces(m.from, k - 1), sizes[k], sep,
                                                chunkSize, overlap)]
                 ELSE m
    IN Append(after[Len(sizes)].docs, <<after[Len(sizes)].from, Len(sizes)>>)

joinDocs(pieces, separator) == TrimSpace(Joined(pieces, separator))

\* Blank chunks are left out.
NotBlank(docs) ==
    LET kept[k \in 0..Len(docs)] ==
            IF k = 0 THEN <<>>
            ELSE IF docs[k] = <<>> THEN kept[k - 1] ELSE Append(kept[k - 1], docs[k])
    IN kept[Len(docs)]

Merged(splits, separator, chunkSize, overlap) ==
    LET groups == mergeSplits([k \in DOMAIN splits |-> Len(splits[k])], Len(separator),
                              chunkSize, overlap)
    IN NotBlank([k \in DOMAIN groups |->
                    joinDocs(SubSeq(splits, groups[k][1], groups[k][2]), separator)])

----------------------------------------------------------------------------
(* The recursive splitter; o has its options.                              *)

addSeparatorInSplits(splits, separator) ==
    [k \in DOMAIN splits |-> IF k = 1 THEN splits[k] ELSE separator \o splits[k]]

\* The separators from the i-th on that are in the text, or that split any text.
Usable(text, separators, i) ==
    {k \in i..Len(separators) :
        separators[k] = "" \/ \E j \in DOMAIN text : text[j].c = separators[k]}

\* The splits that are short enough are merged; again has what the others become.
Mixed(splits, again, separator, o) ==
    LET merged(good) == IF good = <<>> THEN <<>>
                        ELSE Merged(good, separator, o.size, o.overlap)
        after[k \in 0..Len(splits)] ==
            IF k = 0 THEN [good |-> <<>>, chunks |-> <<>>]
            ELSE LET m == after[k - 1] IN
                 IF Len(splits[k]) < o.size THEN [m EXCEPT !.good = Append(@, splits[k])]
                 ELSE [good |-> <<>>, chunks |-> m.chunks \o merged(m.good) \o again[k]]
    IN after[Len(splits)].chunks \o merged(after[Len(splits)].good)

\* split[i] uses the separators from the i-th on; a split that is too long is split
\* with those behind the one it was split at, if there are any.
splitText(whole, separators, o) ==
    LET last == Len(separators)
        split[i \in 1..last] ==
            [text \in Seq([c : {"x"} \cup Blank, at : Nat]) |->
                LET usable == Usable(text, separators, i)
                    chosen == IF usable = {} THEN last ELSE Min(usable)
                    cut == SplitAt(text, separators[chosen])
                    splits == IF ~o.keep THEN cut
                              ELSE addSeparatorInSplits(cut, Separator(separators[chosen]))
                    again == [k \in DOMAIN splits |->
                                 IF usable = {} \/ chosen = last THEN <<splits[k]>>
                                 ELSE split[chosen + 1][splits[k]]]
                IN Mixed(splits, again,
                         IF o.keep THEN <<>> ELSE Separator(separators[chosen]), o)]
    IN split[1][whole]

----------------------------------------------------------------------------
(* The splitter by tokens: each chunk has the first token and the last. A  *)
(* round brings it a token further at least. It never ends when a chunk    *)
(* brings it no further, and slices below the first token when it goes     *)
(* back.                                                                   *)
TokenChunks(tokens, o) ==
    LET round[n \in 0..tokens] ==
            IF n = 0 THEN [start |-> 0, chunks |-> <<>>]
            ELSE LET m == round[n - 1] IN
                 IF m.start >= tokens THEN m
                 ELSE [start |-> m.start + o.size - o.overlap,
                       chunks |-> Append(m.chunks, [from |-> m.start + 1,
                                                    to |-> Min({m.start + o.size, tokens})])]
    IN round[tokens].chunks

TokenSplit(tokens, o) ==
    IF tokens = 0 \/ o.overlap < o.size
    THEN [how |-> "ok", chunks |-> TokenChunks(tokens, o)]
    ELSE [how |-> IF o.overlap = o.size THEN "endless" ELSE "panic", chunks |-> <<>>]
=============================================================================
