------------------------------ MODULE Scraper ------------------------------
(***************************************************************************)
(* Scraper.Call: the pages of a site, visited one inside the other or, as  *)
(* by default, each in a goroutine of its own. The callbacks share the     *)
(* text of the result without a lock, and the set of pages that were read  *)
(* with one. The collector (colly) starts a goroutine for each visit and   *)
(* remembers the visited pages itself; it is modelled from what the        *)
(* callbacks rely on.                                                      *)
(***************************************************************************)
EXTENDS Integers, Sequences, FiniteSets, Functions

CONSTANTS MaxVisits     \* bound on the visits of a call

\* "index" is another name of "home"; "other" is on another host, "login" blacklisted.
Pages == {"home", "p", "q"}
Targets == Pages \cup {"index", "other", "login"}
Sites == {[home |-> <<"p", "q">>, p |-> <<"q">>, q |-> <<"p">>],
          [home |-> <<"p", "p">>, p |-> <<"index", "q">>, q |-> <<>>],
          [home |-> <<"other", "q", "login">>, p |-> <<>>, q |-> <<"home">>]}

VARIABLES
    Async, site, canceled,
    visited,        \* the collector's pages
    scrapedLinks,   \* those whose text was taken
    visits,         \* the visits in the order they began
    siteData,       \* the pieces of the result
    pc, outcome     \* of Call

vars == <<Async, site, canceled, visited, scrapedLinks, visits, siteData, pc, outcome>>

Visit == [page : Pages, step : {"fetch", "html", "text", "follow", "visit", "done"},
          links : Seq(Targets), failed : BOOLEAN]
Pieces == [page : Pages, what : {"url", "text", "error"}]

TypeOK ==
    /\ Async \in BOOLEAN /\ site \in Sites /\ canceled \in BOOLEAN
    /\ visited \subseteq Pages /\ scrapedLinks \subseteq visited
    /\ visits \in Seq(Visit) /\ Len(visits) <= MaxVisits
    /\ siteData \in Seq(Pieces)
    /\ pc \in {"visit", "wait", "returned"} /\ outcome \in {"none", "ok", "error"}

Begun(page) == [page |-> page, step |-> "fetch", links |-> site[page], failed |-> FALSE]

\* Call has made its first visit.
Init == /\ Async \in BOOLEAN /\ site \in Sites /\ canceled = FALSE
        /\ visited = {"home"} /\ scrapedLinks = {}
        /\ visits = <<Begun("home")>>
        /\ siteData = <<>> /\ pc = "visit" /\ outcome = "none"
----------------------------------------------------------------------------
Done(i) == visits[i].step = "done"
AllDone == \A i \in DOMAIN visits : Done(i)

\* Without goroutines a visit goes on when those it made have ended.
Runs(i) == Async \/ \A k \in DOMAIN visits : k > i => Done(k)

Becomes(i, step) == visits' = [visits EXCEPT ![i].step = step]

\* A write that races with another may be lost: both append to the same text.
Races(i) == Async /\ \E k \in DOMAIN visits : k # i /\ visits[k].step \in {"html", "text", "follow"}
WriteString(i, page, what) ==
    \/ siteData' = Append(siteData, [page |-> page, what |-> what])
    \/ Races(i) /\ UNCHANGED siteData

\* OnRequest gives up the visit after a cancellation. A goroutine tells nobody of a
\* failure; without one the page that made the visit writes it down.
Fetch(i) ==
    /\ visits[i].step = "fetch" /\ Runs(i)
    /\ \/ canceled /\ Becomes(i, "done") /\ UNCHANGED siteData
       \/ ~canceled /\ Becomes(i, "html") /\ UNCHANGED siteData
       \/ /\ ~canceled
          /\ visits' = [visits EXCEPT ![i].step = "done", ![i].failed = TRUE]
          /\ siteData' = IF Async \/ i = 1 THEN siteData
                         ELSE Append(siteData, [page |-> visits[i].page, what |-> "error"])
    /\ UNCHANGED <<Async, site, canceled, visited, scrapedLinks, pc, outcome>>

\* OnHTML of a page: its address and its text, if it was not read before.
OnHTML(i) ==
    LET page == visits[i].page
    IN /\ visits[i].step = "html" /\ Runs(i)
       /\ IF page \in scrapedLinks
          THEN Becomes(i, "follow") /\ UNCHANGED <<scrapedLinks, siteData>>
          ELSE /\ scrapedLinks' = scrapedLinks \cup {page}
               /\ WriteString(i, page, "url")
               /\ Becomes(i, "text")
       /\ UNCHANGED <<Async, site, canceled, visited, pc, outcome>>

WriteText(i) ==
    /\ visits[i].step = "text" /\ Runs(i)
    /\ WriteString(i, visits[i].page, "text")
    /\ Becomes(i, "follow")
    /\ UNCHANGED <<Async, site, canceled, visited, scrapedLinks, pc, outcome>>

Normal(target) == IF target = "index" THEN "home" ELSE target
Follows(target) == target \notin {"other", "login"}

Rest(i, step) == [visits EXCEPT ![i].links = Tail(visits[i].links), ![i].step = step]

\* OnHTML of a link: the pages of the site that were not read yet. To visit one that
\* the collector knows is an error, which becomes part of the text.
FollowLink(i) ==
    /\ visits[i].step = "follow" /\ Runs(i) /\ visits[i].links # <<>>
    /\ LET target == Normal(Head(visits[i].links))
       IN CASE ~Follows(target) \/ target \in scrapedLinks ->
                   visits' = Rest(i, "follow") /\ UNCHANGED siteData
            [] Follows(target) /\ target \in visited \ scrapedLinks ->
                   visits' = Rest(i, "follow") /\ WriteString(i, target, "error")
            [] OTHER -> Becomes(i, "visit") /\ UNCHANGED siteData
    /\ UNCHANGED <<Async, site, canceled, visited, scrapedLinks, pc, outcome>>

\* The collector looks whether a page was visited and then notes that it was.
VisitLink(i) ==
    LET target == Normal(Head(visits[i].links))
    IN /\ visits[i].step = "visit" /\ Runs(i) /\ Len(visits) < MaxVisits
       /\ visited' = visited \cup {target}
       /\ visits' = Append(Rest(i, "follow"), Begun(target))
       /\ UNCHANGED <<Async, site, canceled, scrapedLinks, siteData, pc, outcome>>

EndVisit(i) == /\ visits[i].step = "follow" /\ Runs(i) /\ visits[i].links = <<>>
               /\ Becomes(i, "done")
               /\ UNCHANGED <<Async, site, canceled, visited, scrapedLinks, siteData,
                              pc, outcome>>
----------------------------------------------------------------------------
\* The first visit has returned: its error, or that of the context.
AfterVisit ==
    /\ pc = "visit" /\ (Async \/ AllDone)
    /\ IF (~Async /\ visits[1].failed) \/ canceled
       THEN pc' = "returned" /\ outcome' = "error"
       ELSE pc' = "wait" /\ UNCHANGED outcome
    /\ UNCHANGED <<Async, site, canceled, visited, scrapedLinks, visits, siteData>>

Wait ==
    /\ pc = "wait" /\ AllDone
    /\ pc' = "returned" /\ outcome' = "ok"
    /\ UNCHANGED <<Async, site, canceled, visited, scrapedLinks, visits, siteData>>

Cancel == /\ ~canceled /\ pc # "returned" /\ canceled' = TRUE
          /\ UNCHANGED <<Async, site, visited, scrapedLinks, visits, siteData, pc, outcome>>

Next == \/ \E i \in DOMAIN visits : Fetch(i) \/ OnHTML(i) \/ WriteText(i)
                                       \/ FollowLink(i) \/ VisitLink(i) \/ EndVisit(i)
        \/ AfterVisit \/ Wait \/ Cancel

Spec == Init /\ [][Next]_vars
----------------------------------------------------------------------------
Count(page, what) ==
    Cardinality({k \in DOMAIN siteData : siteData[k] = [page |-> page, what |-> what]})

(* The text of a page is told once, also if two goroutines fetched it because both
   looked before either noted the visit. *)
PagesOnce == \A p \in Pages : Count(p, "url") <= 1 /\ Count(p, "text") <= 1

(* The text of a page stands under its address when the pages are read one inside the
   other. With goroutines it may stand under the address of another, or be lost. *)
TextUnderAddress ==
    ~Async => \A k \in DOMAIN siteData :
        siteData[k].what = "text" => k > 1 /\ siteData[k - 1] = [siteData[k] EXCEPT !.what = "url"]

Linked(pages) == {Normal(t) : t \in {u \in UNION {Range(site[p]) : p \in pages} : Follows(u)}}

Reached ==
    LET after[n \in 0..3] ==
            IF n = 0 THEN {"home"} ELSE after[n - 1] \cup Linked(after[n - 1])
    IN after[3]

(* Every page the site links to is read, however the visits interleave, if none fails
   and nobody cancels; one inside the other each is told. *)
EveryPageRead ==
    (outcome = "ok" /\ ~canceled /\ \A i \in DOMAIN visits : ~visits[i].failed) =>
        /\ scrapedLinks = Reached
        /\ ~Async => \A p \in scrapedLinks : Count(p, "url") = 1 /\ Count(p, "text") = 1

(* A text is returned after all visits have ended; a call that fails leaves some only
   when its context was cancelled. *)
VisitsEnded ==
    /\ outcome = "ok" => AllDone
    /\ outcome = "error" => AllDone \/ (Async /\ canceled)

(* A site that cannot be read is an error, and a cancellation, when there are no
   goroutines; with them the one is never told, the other only before the wait. *)
SiteFailureTold ==
    (outcome = "ok" /\ ~Async) => "home" \in scrapedLinks \/ canceled
----------------------------------------------------------------------------
(* The inductive invariant of what ends, fails and is told, in parts. *)

VisitInv ==
    /\ site \in Sites /\ Async \in BOOLEAN /\ canceled \in BOOLEAN
    /\ visits \in Seq([page : Pages, step : {"fetch", "html", "text", "follow", "visit", "done"},
                       links : Seq(Targets), failed : BOOLEAN])
    /\ \A i \in DOMAIN visits : visits[i].step = "visit" =>
          visits[i].links # <<>> /\ Normal(Head(visits[i].links)) \in Pages

\* The first visit is that of the site; it ends with its text taken, a failure or
\* after a cancellation, and a failure keeps Call from going on where it is told.
HomeInv ==
    /\ visits # <<>> /\ visits[1].page = "home"
    /\ visits[1].step \in {"text", "follow", "visit"} => "home" \in scrapedLinks
    /\ visits[1].step = "done" => visits[1].failed \/ canceled \/ "home" \in scrapedLinks
    /\ visits[1].failed => Done(1)
    /\ ~Async /\ (pc = "wait" \/ outcome = "ok") => Done(1) /\ ~visits[1].failed

ReturnInv == /\ pc \in {"visit", "wait", "returned"}
             /\ pc # "returned" => outcome = "none"

\* Addresses and texts are of pages whose text was taken, none twice, and the text of
\* a page is still to be told by one visit at most.
PiecesInv ==
    /\ siteData \in Seq(Pieces) /\ scrapedLinks \subseteq Pages
    /\ \A k \in DOMAIN siteData :
          siteData[k].what # "error" => siteData[k].page \in scrapedLinks
    /\ \A k, m \in DOMAIN siteData :
          siteData[k] = siteData[m] /\ siteData[k].what # "error" => k = m
    /\ \A i \in DOMAIN visits : visits[i].step = "text" =>
          /\ visits[i].page \in scrapedLinks
          /\ \A k \in DOMAIN siteData :
                siteData[k] # [page |-> visits[i].page, what |-> "text"]
          /\ \A j \in DOMAIN visits :
                visits[j].step = "text" /\ visits[j].page = visits[i].page => i = j

\* Without goroutines nothing is told between the address of a page and its text.
PlaceInv ==
    ~Async =>
        /\ TextUnderAddress
        /\ \A i \in DOMAIN visits : visits[i].step = "text" =>
              /\ \A k \in DOMAIN visits : k > i => Done(k)
              /\ siteData # <<>>
              /\ siteData[Len(siteData)] = [page |-> visits[i].page, what |-> "url"]

\* What a visit has not followed yet of its page are its links; the pages that were
\* visited are those of the visits, which the site links to.
ReadInv ==
    /\ scrapedLinks \subseteq visited /\ visited = {visits[i].page : i \in DOMAIN visits}
    /\ \A i \in DOMAIN visits :
          LET v == visits[i]
          IN /\ v.page \in Reached /\ Range(v.links) \subseteq Range(site[v.page])
             /\ \A t \in Range(site[v.page]) :
                   Follows(t) => t \in Range(v.links) \/ Normal(t) \in visited
             /\ v.step \in {"text", "follow", "visit"} => v.page \in scrapedLinks
             /\ v.step = "done" => \/ v.failed \/ canceled
                                   \/ v.page \in scrapedLinks /\ v.links = <<>>

\* Without goroutines no address is lost and no text, but for one that is yet to come.
ToldInv ==
    ~Async => \A p \in scrapedLinks :
        /\ \E k \in DOMAIN siteData : siteData[k] = [page |-> p, what |-> "url"]
        /\ \/ \E k \in DOMAIN siteData : siteData[k] = [page |-> p, what |-> "text"]
           \/ \E i \in DOMAIN visits : visits[i].step = "text" /\ visits[i].page = p

SizeInv == Len(visits) <= MaxVisits /\ outcome \in {"none", "ok", "error"}

IInv == /\ VisitInv /\ HomeInv /\ ReturnInv /\ VisitsEnded /\ SiteFailureTold
        /\ PiecesInv /\ PlaceInv /\ ReadInv /\ ToldInv

=============================================================================
