----------------------------- MODULE SiteCrawl ------------------------------
(***************************************************************************)
(* crawlSite: the breadth-first crawl of one business site with its        *)
(* Frontier and its link filter, as WebCrawlerScraper (depth 3, 15 pages)  *)
(* and CustomUrlsScraper (depth 2, 10 pages) run it.  What a page holds is *)
(* decided when it is read: any of PageLinks, with or without a contact.   *)
(* The links of a page are visited one step each, first the priority links *)
(* and then the others, which is the order sortByPriority puts them in;    *)
(* this loop is synchronous, so no abort comes in between.                 *)
(***************************************************************************)
EXTENDS Naturals, Sequences, FiniteSets

CONSTANTS
    Hosts,      \* host names, with or without "www."
    DomainOf,   \* a host name without its "www."
    Paths,      \* paths with their query, without trailing slashes
    PathClass,  \* what the extension and the patterns say of a path
    PageLinks,  \* the link lists a page may have
    Start,      \* the site's URL
    MaxDepth, MaxPages

(* A link as new URL(href, page) resolves it.                              *)
Links == [scheme : {"http", "https", "mailto"}, host : Hosts, path : Paths,
          slash : BOOLEAN, fragment : BOOLEAN]

Domains == {DomainOf[h] : h \in Hosts}

ASSUME LinksAssumption ==
    /\ Start \in Links /\ PageLinks \subseteq Seq(Links)
    /\ DomainOf \in [Hosts -> Domains]
    /\ PathClass \in [Paths -> {"skip", "priority", "follow"}]

ASSUME LimitsAssumption == MaxDepth \in Nat /\ MaxPages \in Nat \ {0}

VARIABLES
    queue,         \* Frontier.queue
    visited,       \* Frontier.visited
    domainCounts,  \* Frontier.domainCounts
    entry,         \* the entry of the current iteration
    turn,          \* the class of links whose turn it is to be added
    pending,       \* links of its page still to be looked at in this turn
    pagesCrawled,
    contact,       \* allEmails or allPhones has an element
    aborted,       \* the job was killed or timed out
    pc,
    fetched,       \* history: the entries requested, in order
    pageOf         \* history: the links read on the pages that answered

frontierVars == <<queue, visited, domainCounts>>
vars == <<queue, visited, domainCounts, entry, turn, pending, pagesCrawled,
          contact, aborted, pc, fetched, pageOf>>

Entries == [url : Links, depth : Nat]

-----------------------------------------------------------------------------
(* Scheme, "www." and query remain: such variants are different URLs.      *)
Normalize(l) == [l EXCEPT !.slash = FALSE, !.fragment = FALSE]

ExtractDomain(l) == DomainOf[l.host]

BaseDomain == ExtractDomain(Start)

ClassifyLink(l) ==
    IF l.scheme # "mailto" /\ ExtractDomain(l) = BaseDomain
    THEN PathClass[l.path]
    ELSE "skip"

(* Mutants of Accepts: the raw link is looked up; one URL too many.        *)
AcceptsRaw(l, depth) ==
    /\ depth <= MaxDepth
    /\ l \notin visited
    /\ domainCounts[ExtractDomain(l)] < MaxPages

AcceptsOneMore(l, depth) ==
    /\ depth <= MaxDepth
    /\ Normalize(l) \notin visited
    /\ domainCounts[ExtractDomain(l)] <= MaxPages

(* Frontier.add takes a link or leaves the frontier as it is.              *)
Accepts(l, depth) ==
    /\ depth <= MaxDepth
    /\ Normalize(l) \notin visited
    /\ domainCounts[ExtractDomain(l)] < MaxPages

(* Mutant of Add: the link goes to the front of the queue.                 *)
AddFirst(l, depth) ==
    IF Accepts(l, depth)
    THEN /\ visited' = visited \cup {Normalize(l)}
         /\ domainCounts' = [domainCounts EXCEPT ![ExtractDomain(l)] = @ + 1]
         /\ queue' = << [url |-> Normalize(l), depth |-> depth] >> \o queue
    ELSE UNCHANGED frontierVars

Add(l, depth) ==
    IF Accepts(l, depth)
    THEN /\ visited' = visited \cup {Normalize(l)}
         /\ domainCounts' = [domainCounts EXCEPT ![ExtractDomain(l)] = @ + 1]
         /\ queue' = Append(queue, [url |-> Normalize(l), depth |-> depth])
    ELSE UNCHANGED frontierVars

-----------------------------------------------------------------------------
Init ==
    /\ queue = << [url |-> Normalize(Start), depth |-> 0] >>
    /\ visited = {Normalize(Start)}
    /\ domainCounts = [d \in Domains |-> IF d = BaseDomain THEN 1 ELSE 0]
    /\ entry = [url |-> Normalize(Start), depth |-> 0] /\ turn = "follow"
    /\ pending = <<>> /\ pagesCrawled = 0 /\ contact = FALSE /\ aborted = FALSE /\ pc = "loop"
    /\ fetched = <<>> /\ pageOf = [u \in {} |-> <<>>]

Continues == queue # <<>> /\ ~aborted /\ pagesCrawled < MaxPages

NextPage ==
    /\ pc = "loop" /\ Continues
    /\ entry' = Head(queue) /\ queue' = Tail(queue)
    /\ fetched' = Append(fetched, Head(queue))
    /\ pc' = "fetch"
    /\ UNCHANGED <<visited, domainCounts, turn, pending, pagesCrawled, contact,
                   aborted, pageOf>>

(* An aborted request rejects.                                             *)
PageRead(links, some) ==
    /\ pc = "fetch" /\ ~aborted
    /\ pagesCrawled' = pagesCrawled + 1
    /\ contact' = (contact \/ some)
    /\ turn' = "priority" /\ pending' = links
    /\ pageOf' = [u \in DOMAIN pageOf \cup {entry.url} |->
                    IF u = entry.url THEN links ELSE pageOf[u]]
    /\ pc' = "links"
    /\ UNCHANGED <<queue, visited, domainCounts, entry, aborted, fetched>>

(* Mutants of PageFails: the counter is taken back; the crawl stops; the   *)
(* request is repeated at once.                                            *)
PageFailsUncounted ==
    /\ pc = "fetch" /\ pc' = "loop"
    /\ pagesCrawled' = pagesCrawled - 1
    /\ UNCHANGED <<queue, visited, domainCounts, entry, turn, pending, contact,
                   aborted, fetched, pageOf>>

PageFailsAndStops ==
    /\ pc = "fetch" /\ pc' = IF contact THEN "lead" ELSE "none"
    /\ UNCHANGED <<queue, visited, domainCounts, entry, turn, pending,
                   pagesCrawled, contact, aborted, fetched, pageOf>>

PageFailsAndRepeats == pc = "fetch" /\ UNCHANGED vars

(* The page stays counted in domainCounts.                                 *)
PageFails ==
    /\ pc = "fetch" /\ pc' = "loop"
    /\ UNCHANGED <<queue, visited, domainCounts, entry, turn, pending,
                   pagesCrawled, contact, aborted, fetched, pageOf>>

(* Mutant of AddLink: links are added in the order of the page.            *)
AddLinkInPageOrder ==
    /\ pc = "links" /\ pending # <<>>
    /\ IF ClassifyLink(Head(pending)) # "skip"
       THEN Add(Head(pending), entry.depth + 1)
       ELSE UNCHANGED frontierVars
    /\ pending' = Tail(pending)
    /\ UNCHANGED <<entry, turn, pagesCrawled, contact, aborted, pc, fetched,
                   pageOf>>

AddLink ==
    /\ pc = "links" /\ pending # <<>>
    /\ IF ClassifyLink(Head(pending)) = turn
       THEN Add(Head(pending), entry.depth + 1)
       ELSE UNCHANGED frontierVars
    /\ pending' = Tail(pending)
    /\ UNCHANGED <<entry, turn, pagesCrawled, contact, aborted, pc, fetched,
                   pageOf>>

TurnEnds ==
    /\ pc = "links" /\ pending = <<>>
    /\ IF turn = "priority"
       THEN turn' = "follow" /\ pending' = pageOf[entry.url] /\ pc' = "links"
       ELSE pc' = "loop" /\ UNCHANGED <<turn, pending>>
    /\ UNCHANGED <<queue, visited, domainCounts, entry, pagesCrawled, contact,
                   aborted, fetched, pageOf>>

(* Mutant of Finish: an abort discards the contacts.                       *)
FinishDiscards ==
    /\ pc = "loop" /\ ~Continues
    /\ pc' = IF contact /\ ~aborted THEN "lead" ELSE "none"
    /\ UNCHANGED <<queue, visited, domainCounts, entry, turn, pending,
                   pagesCrawled, contact, aborted, fetched, pageOf>>

(* A contact found before an abort still makes the site a lead: neither    *)
(* detectTechStack nor hasSSL rejects.                                     *)
Finish ==
    /\ pc = "loop" /\ ~Continues
    /\ pc' = IF contact THEN "lead" ELSE "none"
    /\ UNCHANGED <<queue, visited, domainCounts, entry, turn, pending,
                   pagesCrawled, contact, aborted, fetched, pageOf>>

(* A kill message or the job's timeout, at any await.                      *)
Abort ==
    /\ pc \in {"loop", "fetch"} /\ ~aborted
    /\ aborted' = TRUE
    /\ UNCHANGED <<queue, visited, domainCounts, entry, turn, pending,
                   pagesCrawled, contact, pc, fetched, pageOf>>

Step ==
    \/ NextPage
    \/ \E links \in PageLinks, some \in BOOLEAN : PageRead(links, some)
    \/ PageFails \/ AddLink \/ TurnEnds \/ Finish

Next == Step \/ Abort

Spec == Init /\ [][Next]_vars

(* Every request has a timeout (10 s) and the rest is the event loop's.    *)
FairSpec == Spec /\ WF_vars(Step)

-----------------------------------------------------------------------------
Ended == pc \in {"lead", "none"}

TypeOK ==
    /\ queue \in Seq(Entries) /\ visited \subseteq Links
    /\ domainCounts \in [Domains -> Nat]
    /\ entry \in Entries /\ turn \in {"priority", "follow"}
    /\ pending \in Seq(Links)
    /\ pagesCrawled \in Nat /\ contact \in BOOLEAN /\ aborted \in BOOLEAN
    /\ pc \in {"loop", "fetch", "links", "lead", "none"}
    /\ fetched \in Seq(Entries)
    /\ DOMAIN pageOf \subseteq Links /\ pageOf \in [DOMAIN pageOf -> Seq(Links)]

(* The entries requested, then those waiting, in the order of the crawl.   *)
Course == fetched \o queue

(* No page is requested twice, however many links to it (with fragments,   *)
(* trailing slashes, from several pages) the site has, and the entries     *)
(* ever queued are exactly the visited URLs (frontier.ts, add and next).   *)
FetchedOnce ==
    /\ \A i, j \in 1..Len(Course) : Course[i].url = Course[j].url => i = j
    /\ visited = {Course[i].url : i \in 1..Len(Course)}

(* A failed page is never given back to the budget: visited URLs, whether  *)
(* read, failed or waiting, are what MAX_PAGES_PER_SITE limits, so the     *)
(* crawl makes at most that many requests and pagesCrawled reaches its own *)
(* limit only when nothing is left to crawl.                               *)
BudgetIsVisited ==
    /\ domainCounts[BaseDomain] = Cardinality(visited)
    /\ Cardinality(visited) <= MaxPages
    /\ \A d \in Domains \ {BaseDomain} : domainCounts[d] = 0
    /\ pagesCrawled = MaxPages => queue = <<>>

(* The crawl is breadth-first: depths never decrease along it, span at     *)
(* most two levels in the queue and stay within MaxDepth.                  *)
BreadthFirst ==
    /\ \A i, j \in 1..Len(Course) : i <= j => Course[i].depth <= Course[j].depth
    /\ \A i \in 1..Len(queue) : queue[i].depth <= entry.depth + 1
    /\ \A i \in 1..Len(Course) : Course[i].depth <= MaxDepth

(* A crawl that ended by itself below its page budget has requested every  *)
(* page that some page it could read, above the depth limit, has a         *)
(* followable link to; a page that fails does not end it.                  *)
CompleteWithinLimits ==
    Ended /\ ~aborted /\ Cardinality(visited) < MaxPages =>
        /\ queue = <<>>
        /\ \A i \in 1..Len(fetched) :
             LET u == fetched[i].url
             IN  u \in DOMAIN pageOf /\ fetched[i].depth < MaxDepth =>
                   \A k \in 1..Len(pageOf[u]) :
                      ClassifyLink(pageOf[u][k]) # "skip" =>
                         Normalize(pageOf[u][k]) \in visited

(* An ordinary link of a page takes a place in the budget only when all    *)
(* the priority links of this page have one (link-filter.ts: "Sort links   *)
(* so priority pages come first").                                         *)
PriorityLinksFirst ==
    [][visited' # visited /\ ClassifyLink(Head(pending)) # "priority" =>
         \A k \in 1..Len(pageOf[entry.url]) :
            ClassifyLink(pageOf[entry.url][k]) = "priority" =>
               Normalize(pageOf[entry.url][k]) \in visited]_vars

(* Every crawl ends, cyclic links, failing pages and aborts or not.        *)
CrawlEnds == <>Ended

SitePages == {Normalize(l) : l \in {k \in Links : ExtractDomain(k) = BaseDomain}}

(* The crawl keeps the promise of SiteSearch.                              *)
Search == INSTANCE SiteSearch WITH
    Pages <- SitePages,
    Start <- Normalize(Start),
    requested <- {fetched[i].url : i \in 1..Len(fetched)},
    requests <- Len(fetched),
    linked <- visited,
    result <- IF Ended THEN pc ELSE "pending"

IsSearch == Search!SearchSpec
=============================================================================
