--------------------------- MODULE MarkdownSplit ---------------------------
(***************************************************************************)
(* The splitter of markdown. A document is the tree that the parser, which *)
(* is external, makes of it; the tokens of a block are its node. A text is *)
(* a sequence of lines; a line tells the block it is of, by its place in   *)
(* the tree, and the marks before it. A line of one mark is as long as two *)
(* characters.                                                             *)
(*                                                                         *)
(* o has the options: size, overlap, code (blocks are rendered), links     *)
(* (references are), hierarchy (of titles), join (table rows).             *)
(***************************************************************************)
EXTENDS TextMerge

Line(place, marks) == [of |-> place, marks |-> marks, raw |-> FALSE]
Size(line) == 1 + Len(line.marks)
Sizes(lines) == [k \in DOMAIN lines |-> Size(lines[k])]
Length(lines) == LengthOf(Sizes(lines), 1)

\* What the helper keeps while it goes through the blocks.
Context(o) == [title |-> <<>>, stack |-> <<>>, prepended |-> FALSE,
               ordered |-> FALSE, bullet |-> FALSE, order |-> 0, indent |-> 0,
               chunks |-> <<>>, snippet |-> <<>>,
               hierarchy |-> o.hierarchy, code |-> o.code, raw |-> ~o.links, join |-> o.join]

\* Sub-blocks are split by a helper of their own, which is given the state and
\* not the options.
clone(mc) == [mc EXCEPT !.chunks = <<>>, !.snippet = <<>>,
                        !.hierarchy = FALSE, !.code = FALSE, !.raw = FALSE, !.join = FALSE]

\* Is the title in these lines, as a text in a text?
HasTitle(lines, title) ==
    \E k \in 0..(Len(lines) - Len(title)) : \A j \in DOMAIN title :
        /\ lines[k + j].of = title[j].of
        /\ j > 1 => lines[k + j].marks = title[j].marks

formatWithIndent(lines, mark) ==
    [k \in DOMAIN lines |-> [lines[k] EXCEPT !.marks = <<mark>> \o @]]

Untitled(mc) == mc.title # <<>> /\ ~mc.prepended

Cut(lines, groups) == [k \in DOMAIN groups |-> SubSeq(lines, groups[k][1], groups[k][2])]

\* A text that is too long is split again.
ChunksOf(lines, o) ==
    IF lines = <<>> THEN <<>>
    ELSE IF Length(lines) <= o.size + o.overlap THEN <<lines>>
    ELSE Cut(lines, mergeSplits(Sizes(lines), 1, o.size, o.overlap))

\* Each chunk is given the title, unless the text has it. A title without text is
\* a chunk.
Titled(mc, chunks) ==
    LET title == IF HasTitle(mc.snippet, mc.title) THEN <<>> ELSE mc.title
    IN IF chunks = <<>> /\ Untitled(mc)
       THEN [mc EXCEPT !.chunks = Append(@, mc.title), !.prepended = TRUE]
       ELSE [mc EXCEPT !.chunks = @ \o [k \in DOMAIN chunks |-> title \o chunks[k]],
                       !.prepended = @ \/ chunks # <<>>, !.snippet = <<>>]

applyToChunks(mc, o) == Titled(mc, ChunksOf(mc.snippet, o))

joinSnippet(mc, lines, o) ==
    IF mc.snippet = <<>> THEN [mc EXCEPT !.snippet = lines]
    ELSE IF Length(mc.snippet) + Length(lines) >= o.size
         THEN [applyToChunks(mc, o) EXCEPT !.snippet = lines]
         ELSE [mc EXCEPT !.snippet = @ \o lines]

JoinAll(mc, texts, o) == FoldLeft(LAMBDA m, text : joinSnippet(m, text, o), mc, texts)

----------------------------------------------------------------------------
(* The blocks. b.at is the place of a block in the document.               *)

splitInline(mc, b) == [k \in 1..b.lines |-> [Line(b.at, <<>>) EXCEPT !.raw = mc.raw]]

\* Deviation: the titles of the same level and below are not forgotten.
EnterTitleBelow(mc, b) ==
    LET own == <<Line(b.at, <<"#">>)>>
        stack == Append(mc.stack, own)
    IN [mc EXCEPT !.prepended = FALSE,
                  !.stack = IF mc.hierarchy THEN stack ELSE @,
                  !.title = IF mc.hierarchy THEN FlattenSeq(stack) ELSE own]

\* A title is that of its level, in a hierarchy with those above it.
EnterTitle(mc, b) ==
    LET own == <<Line(b.at, <<"#">>)>>
        filled == mc.stack \o [k \in 1..Max({0, b.level - Len(mc.stack)}) |-> <<>>]
        stack == Append(SubSeq(filled, 1, b.level - 1), own)
    IN [mc EXCEPT !.prepended = FALSE,
                  !.stack = IF mc.hierarchy THEN stack ELSE filled,
                  !.title = IF mc.hierarchy THEN FlattenSeq(stack) ELSE own]

onMDHeader(mc, b, o) == EnterTitle(applyToChunks(mc, o), b)

onMDParagraph(mc, b, o) == joinSnippet(mc, splitInline(mc, b), o)

onMDCodeBlock(mc, b, o) ==
    IF mc.code THEN joinSnippet(mc, <<Line(b.at, <<"code">>)>>, o) ELSE mc
onMDFence(mc, b, o) == IF mc.code THEN joinSnippet(mc, <<Line(b.at, <<"fence">>)>>, o) ELSE mc

onMDHr(mc, b, o) == joinSnippet(mc, <<Line(b.at, <<>>)>>, o)

Row(b, k) == Line(Append(b.at, k), <<"|">>)
tableHeaderInMarkdown(b, k) == <<Row(b, k), Line(b.at, <<"---">>)>>

\* A row that begins a chunk is given the header; without a header the first row
\* is taken for one.
splitTableRows(mc, b, o) ==
    LET from == IF b.headless /\ b.rows > 0 THEN 1 ELSE 0
        header == tableHeaderInMarkdown(b, from)
        row(m, k) ==
            LET begins == \/ m.snippet = <<>>
                          \/ Length(m.snippet) + Size(Row(b, k)) >= o.size
                joined == joinSnippet(m, (IF begins THEN header ELSE <<>>) \o <<Row(b, k)>>, o)
            IN IF m.join THEN joined ELSE applyToChunks(joined, o)
    IN IF b.rows = from THEN applyToChunks(joinSnippet(mc, header, o), o)
       ELSE FoldLeft(row, mc, [k \in 1..(b.rows - from) |-> from + k])

onMDListItemParagraph(mc, b, o) ==
    LET order == IF mc.ordered THEN mc.order + 1 ELSE mc.order
        mark == (IF mc.bullet THEN <<"-">> ELSE <<>>)
                \o (IF mc.ordered THEN <<order>> ELSE <<>>)
        lines == splitInline(mc, b)
    IN [joinSnippet(mc, <<[lines[1] EXCEPT !.marks = mark]>> \o Tail(lines), o)
            EXCEPT !.order = order, !.title = <<>>]

\* In an item only paragraphs and lists are looked at, those of a quote among
\* them; a list inside leaves what it set in the helper.
RECURSIVE onMDList(_, _, _), onMDListItem(_, _, _), InItem(_, _, _)

onMDListItem(mc, blocks, o) ==
    applyToChunks(FoldLeft(LAMBDA m, b : InItem(m, b, o), mc, blocks), o)

InItem(mc, b, o) ==
    CASE b.kind = "paragraph"           -> onMDListItemParagraph(mc, b, o)
      [] b.kind \in {"bullet", "ordered"} -> onMDList(mc, b, o)
      [] b.kind = "quote"               -> FoldLeft(LAMBDA m, c : InItem(m, c, o), mc, b.blocks)
      [] OTHER                          -> mc

onMDList(mc, b, o) ==
    LET begun == [mc EXCEPT !.bullet = b.kind = "bullet", !.ordered = b.kind = "ordered",
                            !.order = IF b.kind = "ordered" THEN 0 ELSE @,
                            !.indent = @ + 1]
        sub == applyToChunks(FoldLeft(LAMBDA m, item : onMDListItem(m, item, o),
                                      clone(begun), b.items), o)
        chunks == [k \in DOMAIN sub.chunks |->
                      IF sub.indent > 1 THEN formatWithIndent(sub.chunks[k], "  ")
                                        ELSE sub.chunks[k]]
    IN [JoinAll(begun, chunks, o) EXCEPT !.indent = @ - 1]

RECURSIVE splitBlocks(_, _, _), onMDQuote(_, _, _), onBlock(_, _, _)

onMDQuote(mc, b, o) ==
    LET sub == splitBlocks([clone(mc) EXCEPT !.title = <<>>], b.blocks, o)
    IN applyToChunks(JoinAll(mc, [k \in DOMAIN sub.chunks |->
                                     formatWithIndent(sub.chunks[k], ">")], o), o)

\* A block of any other kind is passed over.
onBlock(mc, b, o) ==
    CASE b.kind = "heading"             -> onMDHeader(mc, b, o)
      [] b.kind = "table"               -> splitTableRows(mc, b, o)
      [] b.kind = "paragraph"           -> onMDParagraph(mc, b, o)
      [] b.kind = "quote"               -> onMDQuote(mc, b, o)
      [] b.kind \in {"bullet", "ordered"} -> onMDList(mc, b, o)
      [] b.kind = "code"                -> onMDCodeBlock(mc, b, o)
      [] b.kind = "fence"               -> onMDFence(mc, b, o)
      [] b.kind = "hr"                  -> onMDHr(mc, b, o)
      [] OTHER                          -> mc

splitBlocks(mc, blocks, o) ==
    applyToChunks(FoldLeft(LAMBDA m, b : onBlock(m, b, o), mc, blocks), o)

SplitMarkdown(blocks, o) == splitBlocks(Context(o), blocks, o).chunks
=============================================================================
