----------------------------- MODULE MCServices -----------------------------
(* The services and the splitter of markdown, in one state space: a behaviour  *)
(* is one of Services or, where `part` is "markdown", of MarkdownText.         *)
EXTENDS Services

Marking == INSTANCE MarkdownText WITH MaxBlocks <- 2

InitAll ==
    \/ Init
    \/ /\ part = "markdown" /\ Marking!Init /\ splitter = None /\ store = None /\ docs = None
       /\ NoRows /\ NoAdd /\ NoSearch /\ NoSettings /\ NoHistory /\ NoVectors

SplitMarkdown ==
    /\ part = "markdown" /\ Marking!Next
    /\ UNCHANGED <<part, splitter, store, docs, ofRows, ofAdd, ofSearch, ofSettings,
                   ofHistory, ofVectors>>

NextAll == Next \/ SplitMarkdown

SpecAll == InitAll /\ [][NextAll]_vars

----------------------------------------------------------------------------
(* Chunks of markdown have all of its text and nothing else, in its order, under
   the titles of its section, and are no longer than they may be. *)
MarkdownIsKept ==
    part = "markdown" =>
        /\ Marking!TypeOK /\ Marking!TitlesTold /\ Marking!BlocksKept
        /\ Marking!BlocksInOrder /\ Marking!ItemsMarked /\ Marking!MarkdownFits
        /\ Marking!LinksAsAsked
=============================================================================
