--------------------------- MODULE SearchScrapers ---------------------------
(***************************************************************************)
(* The scrapers that search: google_maps (in a browser), google_dorks,     *)
(* reddit and new_domains (search results, posts or a CSV), custom_urls    *)
(* and web_crawler (whole sites).  crawlSite is one step here: it finds a  *)
(* contact or not, and after an abort too it may return the contact it has *)
(* found before (SiteCrawl models it).                                     *)
(***************************************************************************)
EXTENDS ScrapeState

UsableLink == Item.usable /\ Item.site # "none"

(* A lead that takes its contact from the site only.                       *)
SiteLead(item) == [LeadOf(item) EXCEPT !.contact = FALSE, !.tried = FALSE]

-----------------------------------------------------------------------------
(* Google Maps *)

(* An error of the browser fails the job, unless it is aborted: then the   *)
(* generator just ends.  Either way batch is lost and the browser closed.  *)
MapsThrows(at) ==
    /\ pc = at /\ pc' = "close"
    /\ outcome' = IF aborted THEN outcome ELSE "failed"
    /\ UNCHANGED <<job, aborted, resume, scan, work, stream, late>>

MapsLaunch ==
    /\ source = "google_maps"
    /\ \/ /\ pc = "launch" /\ pc' = "page"
          /\ UNCHANGED <<job, aborted, resume, outcome, scan, work, stream, late>>
       \/ MapsThrows("launch")

(* Mutant of MapsResults: the abort does not end the loop.                 *)
MapsResultsOnAbort ==
    /\ source = "google_maps"
    /\ \/ /\ pc = "page"
          /\ pc' = IF page < MaxPages THEN "fetch" ELSE "flush"
          /\ UNCHANGED rest
       \/ pc = "fetch" /\ pc' = "items" /\ rest' \in Pages
    /\ UNCHANGED <<job, aborted, resume, outcome, round, page, found, seen, more,
                   work, stream, late>>

(* page counts the scrolls; evaluate does not know of the signal.          *)
MapsResults ==
    /\ source = "google_maps"
    /\ \/ /\ pc = "page"
          /\ pc' = IF page < MaxPages /\ ~aborted THEN "fetch" ELSE "flush"
          /\ UNCHANGED rest
       \/ pc = "fetch" /\ pc' = "items" /\ rest' \in Pages
    /\ UNCHANGED <<job, aborted, resume, outcome, round, page, found, seen, more,
                   work, stream, late>>

(* Mutant of MapsItem: seenNames is not consulted.                         *)
MapsItemSeen ==
    /\ source = "google_maps"
    /\ \/ SkipItem(~Item.usable)
       \/ /\ TakeItem(Item.usable, LeadOf(Item),
                      IF Item.site = "none" THEN "collect" ELSE "visit")
          /\ seen' = seen \cup {Item.key}
       \/ Collect

(* Only items with a name are extracted; key is its lower case.            *)
MapsItem ==
    /\ source = "google_maps"
    /\ \/ SkipItem(~Item.usable \/ Item.key \in seen)
       \/ /\ TakeItem(Item.usable /\ Item.key \notin seen, LeadOf(Item),
                      IF Item.site = "none" THEN "collect" ELSE "visit")
          /\ seen' = seen \cup {Item.key}
       \/ Collect

(* detectTechStack comes first and changes nothing of this state; hasSSL   *)
(* follows the page's answer at once.                                      *)
MapsSite ==
    /\ source = "google_maps"
    /\ \/ \E contact \in BOOLEAN :
             SiteAnswers(contact, IF lead.site = "http" THEN "ssl" ELSE "collect")
       \/ SiteFails("collect")
       \/ HasSSL("collect")

(* Mutant of MapsScroll: the scrolls are not counted.                      *)
MapsScrollUncounted ==
    /\ source = "google_maps"
    /\ \/ /\ pc = "items" /\ (rest = <<>> \/ aborted)
          /\ pc' = "scroll" /\ rest' = <<>> /\ LateIf(TRUE)
       \/ pc = "scroll" /\ pc' \in {"page", "flush"} /\ UNCHANGED <<rest, late>>
    /\ UNCHANGED <<job, aborted, resume, outcome, round, page, found, seen, more,
                   work, stream>>

(* The panel is scrolled once more after an abort between the items.       *)
MapsScroll ==
    /\ source = "google_maps"
    /\ \/ /\ pc = "items" /\ (rest = <<>> \/ aborted)
          /\ pc' = "scroll" /\ rest' = <<>> /\ LateIf(TRUE)
          /\ UNCHANGED page
       \/ /\ pc = "scroll"
          /\ \/ pc' = "page" /\ page' = page + 1
             \/ pc' = "flush" /\ UNCHANGED page
          /\ UNCHANGED <<rest, late>>
    /\ UNCHANGED <<job, aborted, resume, outcome, round, found, seen, more, work,
                   stream>>

MapsError == source = "google_maps" /\ (MapsThrows("fetch") \/ MapsThrows("scroll"))

GoogleMaps == MapsLaunch \/ MapsResults \/ MapsItem \/ MapsSite \/ MapsScroll
              \/ MapsError

-----------------------------------------------------------------------------
(* The next query of a job; the break out of the pages comes here.         *)
NextQuery ==
    /\ pc = "query"
    /\ IF round + 1 < MaxRounds /\ ~aborted
       THEN round' = round + 1 /\ page' = 0 /\ pc' = "page"
       ELSE pc' = "flush" /\ UNCHANGED <<round, page>>
    /\ UNCHANGED <<job, aborted, resume, outcome, rest, found, seen, more, work,
                   stream, late>>

(* Google dorks *)

DorksPage ==
    /\ source = "google_dorks"
    /\ TurnPage("query") \/ FetchPage("query") \/ NextQuery

(* Every domain is visited once, a site that did not answer included.      *)
DorksItem ==
    /\ source = "google_dorks"
    /\ \/ LeaveItems("page")
       \/ SkipItem(~UsableLink \/ Item.key \in seen)
       \/ /\ TakeItem(UsableLink /\ Item.key \notin seen, SiteLead(Item), "visit")
          /\ seen' = seen \cup {Item.key}
       \/ Collect

DorksSite ==
    /\ source = "google_dorks"
    /\ \/ \E contact \in BOOLEAN : SiteAnswers(contact, "tech")
       \/ SiteLost("visit") \/ TechAndSSL("collect")

GoogleDorks == DorksPage \/ DorksItem \/ DorksSite

-----------------------------------------------------------------------------
(* Reddit *)

(* A listing without data.children throws out of the generator.            *)
RedditPage ==
    /\ source = "reddit"
    /\ \/ TurnPage("query") \/ NextQuery
       \/ RequestFails("fetch", "query")
       \/ ~aborted /\ Fails("fetch")
       \/ \E posts \in Pages, after \in BOOLEAN :
             PageHolds(posts, "items", "query") /\ more' = after

(* Posts are leads as they are; the site they link to is not visited.      *)
RedditPost ==
    /\ source = "reddit"
    /\ \/ LeaveItems(IF more THEN "page" ELSE "query")
       \/ SkipItem(Item.key \in seen)
       \/ /\ TakeItem(Item.key \notin seen, LeadOf(Item), "collect")
          /\ seen' = seen \cup {Item.key}
       \/ Collect

Reddit == RedditPage \/ RedditPost

-----------------------------------------------------------------------------
(* New domains *)

FirstOf(domains) ==
    [i \in 1..(IF Len(domains) < MaxSites THEN Len(domains) ELSE MaxSites)
        |-> domains[i]]

(* The first MAX_DOMAINS_TO_CHECK of the CSV's domains that fit the        *)
(* category.                                                               *)
NewDomainsCSV ==
    /\ source = "new_domains"
    /\ \/ RequestFails("csv", "close")
       \/ /\ pc = "csv" /\ ~aborted /\ pc' = "items"
          /\ \E domains \in Pages : rest' = FirstOf(domains)
          /\ UNCHANGED <<job, aborted, resume, outcome, round, page, found, seen,
                         more, work, stream, late>>

(* The URL is https://<domain>, so that hasSSL asks nothing.               *)
NewDomainsItem ==
    /\ source = "new_domains"
    /\ \/ LeaveItems("flush")
       \/ SkipItem(~Item.usable)
       \/ TakeItem(Item.usable, [SiteLead(Item) EXCEPT !.site = "https"], "visit")
          /\ UNCHANGED seen
       \/ Collect

NewDomainsSite ==
    /\ source = "new_domains"
    /\ \/ \E contact \in BOOLEAN : SiteAnswers(contact, "tech")
       \/ SiteLost("visit") \/ TechStack("collect")

NewDomains == NewDomainsCSV \/ NewDomainsItem \/ NewDomainsSite

-----------------------------------------------------------------------------
(* crawlSite found a contact; the tech stack and SSL of the start URL are  *)
(* asked then.                                                             *)
CrawlFinds ==
    /\ pc = "crawl" /\ pc' = "tech"
    /\ lead' = [lead EXCEPT !.contact = TRUE, !.tried = TRUE]
    /\ UNCHANGED <<job, aborted, resume, outcome, scan, enriched, stream, late>>

CrawlSite == CrawlFinds \/ SiteLost("crawl") \/ TechAndSSL("collect")

(* Custom URLs *)

CustomUrlsItem ==
    /\ source = "custom_urls"
    /\ \/ LeaveItems("flush")
       \/ SkipItem(~UsableLink)
       \/ TakeItem(UsableLink, SiteLead(Item), "crawl") /\ UNCHANGED seen
       \/ Collect

CustomUrlsSite == source = "custom_urls" /\ CrawlSite

CustomUrls == CustomUrlsItem \/ CustomUrlsSite

-----------------------------------------------------------------------------
(* Web crawler *)

Discovered == {found[i].key : i \in 1..Len(found)}

(* The sites found so far are checked against MAX_SITES before a seed      *)
(* only; then discoveredDomains starts empty.                              *)
WebCrawlerSeed ==
    /\ source = "web_crawler"
    /\ \/ /\ pc = "seeds"
          /\ IF round < MaxRounds /\ ~aborted /\ Len(found) < MaxSites
             THEN pc' = "seed" /\ round' = round + 1 /\ UNCHANGED rest
             ELSE pc' = "items" /\ rest' = found /\ UNCHANGED round
       \/ pc = "seed" /\ pc' = "seeds" /\ UNCHANGED <<round, rest>>
       \/ /\ pc = "seed" /\ ~aborted /\ pc' = "links"
          /\ rest' \in Pages /\ UNCHANGED round
    /\ UNCHANGED <<job, aborted, resume, outcome, page, found, seen, more, work,
                   stream, late>>

(* A link is a site if it is neither the seed's nor a common one's domain  *)
(* (usable) and its domain is new.                                         *)
WebCrawlerLink ==
    /\ source = "web_crawler" /\ pc = "links"
    /\ IF rest = <<>>
       THEN pc' = "seeds" /\ UNCHANGED <<rest, found>>
       ELSE /\ rest' = Tail(rest) /\ UNCHANGED pc
            /\ found' = IF UsableLink /\ Item.key \notin Discovered
                        THEN Append(found, Item) ELSE found
    /\ UNCHANGED <<job, aborted, resume, outcome, round, page, seen, more, work,
                   stream, late>>

(* discoveredDomains counts the domain that is one too many.               *)
WebCrawlerSite ==
    /\ source = "web_crawler"
    /\ \/ LeaveItems("flush")
       \/ /\ pc = "items" /\ ~aborted /\ rest # <<>>
          /\ rest' = Tail(rest) /\ seen' = seen \cup {Item.key}
          /\ IF Item.key \in seen
             THEN UNCHANGED <<pc, lead>>
             ELSE IF Cardinality(seen) >= MaxSites
             THEN pc' = "flush" /\ UNCHANGED lead
             ELSE pc' = "crawl" /\ lead' = SiteLead(Item)
          /\ UNCHANGED <<job, aborted, resume, outcome, round, page, found, more,
                         enriched, stream, late>>
       \/ Collect

WebCrawlerCrawl == source = "web_crawler" /\ CrawlSite

WebCrawler == WebCrawlerSeed \/ WebCrawlerLink \/ WebCrawlerSite
              \/ WebCrawlerCrawl
=============================================================================
