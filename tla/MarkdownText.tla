---------------------------- MODULE MarkdownText ----------------------------
(***************************************************************************)
(* Splitting documents of markdown to chunks.                              *)
(***************************************************************************)
EXTENDS MarkdownSplit

CONSTANTS MaxBlocks    \* blocks of a document under its titles

VARIABLES options,
          given,     \* the tree of the blocks
          chunks,    \* what it is split to
          pc, outcome

vars == <<options, given, chunks, pc, outcome>>

----------------------------------------------------------------------------
Block == [kind |-> "html", at |-> <<>>, level |-> 0, lines |-> 0, rows |-> 0,
          headless |-> FALSE, blocks |-> <<>>, items |-> <<>>]

Heading(level) == [Block EXCEPT !.kind = "heading", !.level = level]
Paragraph(lines) == [Block EXCEPT !.kind = "paragraph", !.lines = lines]
Leaf(kind) == [Block EXCEPT !.kind = kind]
Table(rows, headless) ==
    [Block EXCEPT !.kind = "table", !.rows = rows, !.headless = headless]
Quote(blocks) == [Block EXCEPT !.kind = "quote", !.blocks = blocks]
List(kind, items) == [Block EXCEPT !.kind = kind, !.items = items]

P == Paragraph(1)
Blocks == {P, Paragraph(5), Leaf("code"), Leaf("html"), Leaf("hr"),
           Table(2, FALSE), Table(1, TRUE),
           Quote(<<P, P>>), Quote(<<Heading(1), P, Leaf("fence")>>),
           List("bullet", <<<<P>>, <<P, Leaf("code")>>>>),
           List("ordered", <<<<P>>, <<P>>>>),
           List("ordered", <<<<P, List("bullet", <<<<P>>>>)>>, <<P>>>>),
           List("ordered", <<<<P, List("ordered", <<<<P>>, <<P>>>>)>>, <<Quote(<<P>>)>>>>)}
Titles == {<<>>, <<Heading(1)>>, <<Heading(1), Heading(2)>>}

\* Every block is told its place.
RECURSIVE Placed(_, _)
Placed(blocks, at) ==
    [k \in DOMAIN blocks |->
        LET here == Append(at, k)
            b == blocks[k]
        IN [b EXCEPT !.at = here,
                     !.blocks = Placed(b.blocks, here),
                     !.items = [j \in DOMAIN b.items |->
                                   Placed(b.items[j], Append(here, j))]]]

\* Titles, some blocks, and one block more under a title of its own.
Documents ==
    {Placed(top \o body \o below, <<>>) :
        top \in Titles, body \in UNION {[1..n -> Blocks] : n \in 0..MaxBlocks},
        below \in {<<>>, <<Heading(2), P>>}}

Init ==
    /\ chunks = <<>> /\ pc = "split" /\ outcome = "none"
    /\ given \in Documents
    /\ options \in {[size |-> 7, overlap |-> l, code |-> all, links |-> all,
                     hierarchy |-> h, join |-> all] :
                       l \in {0, 2}, all \in BOOLEAN, h \in BOOLEAN}

SplitBlocks == /\ pc = "split" /\ pc' = "done" /\ outcome' = "ok"
               /\ chunks' = SplitMarkdown(given, options)
               /\ UNCHANGED <<options, given>>

Next == SplitBlocks

----------------------------------------------------------------------------
TypeOK == /\ pc \in {"split", "done"}
          /\ outcome \in {"none", "ok"}
          /\ Len(chunks) \in Nat

Done == outcome = "ok"

Tops(chunk) == {line.of[1] : line \in Range(chunk)}
Headings == {k \in DOMAIN given : given[k].kind = "heading"}

\* The titles over a block: the last one, and in a hierarchy those above it.
Over(k) ==
    LET before == {j \in Headings : j <= k}
    IN {j \in before : IF options.hierarchy
                       THEN \A m \in before : m > j => given[m].level > given[j].level
                       ELSE j = Max(before)}

(* Each chunk has the titles of its section, and no chunk has text of two. *)
TitlesTold ==
    Done =>
        \A k \in DOMAIN chunks : \A top \in Tops(chunks[k]) \ Headings :
            Tops(chunks[k]) \cap Headings = Over(top)

RECURSIVE Leaves(_, _)
Leaves(blocks, inside) ==
    UNION {LET b == blocks[k] IN
           CASE b.kind = "quote"  -> Leaves(b.blocks, inside \cup {"quote"})
             [] b.items # <<>>    -> UNION {Leaves(b.items[j], inside \cup {"item"}) :
                                               j \in DOMAIN b.items}
             [] b.kind = "table"  -> {[at |-> Append(b.at, j), kind |-> "row", lines |-> 1,
                                       inside |-> inside] : j \in 1..b.rows}
             [] OTHER             -> {[at |-> b.at, kind |-> b.kind, inside |-> inside,
                                       lines |-> Max({1, b.lines})]} :
              k \in DOMAIN blocks}

\* HTML has no text here. Code is left out where no option asks for it, and in
\* quotes and lists, where the option is lost; in an item only paragraphs count.
Expected == {leaf \in Leaves(given, {}) :
                /\ leaf.kind # "html"
                /\ leaf.kind \in {"code", "fence"} => options.code /\ leaf.inside = {}
                /\ "item" \in leaf.inside => leaf.kind = "paragraph"}

LinesOf(place, chunk) == {k \in DOMAIN chunk : chunk[k].of = place}
FirstWith(place) == Min({k \in DOMAIN chunks : LinesOf(place, chunks[k]) # {}})

(* Every block has all its lines in the chunks, and nothing else is there. *)
BlocksKept ==
    Done =>
        /\ \A leaf \in Expected :
              leaf.lines <= FoldLeft(LAMBDA n, chunk : n + Cardinality(LinesOf(leaf.at, chunk)),
                                     0, chunks)
        /\ \A k \in DOMAIN chunks : \A line \in Range(chunks[k]) :
              \/ line.of \in {leaf.at : leaf \in Expected}
              \/ given[line.of[1]].kind = "table"

(* The blocks are in the chunks in the order they have in the document.    *)
Precedes(a, b) == \E k \in DOMAIN a \cap DOMAIN b :
                      a[k] < b[k] /\ \A j \in 1..(k - 1) : a[j] = b[j]
BlocksInOrder ==
    Done =>
        \A a, b \in {leaf \in Expected : leaf.kind # "heading"} :
            Precedes(a.at, b.at) => FirstWith(a.at) <= FirstWith(b.at)

(* The items of a list have their numbers or bullets, up to the first item *)
(* that has a list inside.                                                 *)
MarkOf(place) ==
    LET chunk == chunks[FirstWith(place)] IN chunk[Min(LinesOf(place, chunk))].marks
HasList(item) == \E k \in DOMAIN item : item[k].items # <<>>
ItemsMarked ==
    Done =>
        \A top \in DOMAIN given : \A i \in DOMAIN given[top].items :
            LET list == given[top] IN
            (\A j \in 1..(i - 1) : ~HasList(list.items[j])) /\ list.items[i][1].kind = "paragraph"
            => LET marks == MarkOf(<<top, i, 1>>)
               IN marks = IF list.kind = "ordered" THEN <<i>> ELSE <<"-">>

(* A chunk without its titles is as long as it may be, or one text.        *)
MarkdownFits ==
    Done =>
        \A k \in DOMAIN chunks :
            LET body == SelectSeq(chunks[k], LAMBDA line : line.of[1] \notin Headings)
            IN Length(body) <= options.size + options.overlap

(* References are written as asked, but for quotes and lists.              *)
LinksAsAsked ==
    Done =>
        \A k \in DOMAIN chunks : \A line \in Range(chunks[k]) :
            given[line.of[1]].kind = "paragraph" => line.raw = ~options.links
=============================================================================
