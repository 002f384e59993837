------------------------------ MODULE Scrapers ------------------------------
(***************************************************************************)
(* Every kind of scrape job, run by the runner until its outcome, with a   *)
(* kill or a timeout at any await: the ten generators against one          *)
(* consumer, and what they promise it.                                     *)
(***************************************************************************)
EXTENDS ListingScrapers, SearchScrapers

(* Where a generator begins.                                               *)
Start ==
    CASE source = "google_maps" -> "launch"
      [] source = "new_domains" -> "csv"
      [] source = "web_crawler" -> "seeds"
      [] source = "custom_urls" -> IF rest = <<>> THEN "close" ELSE "items"
      [] OTHER -> "page"

Init ==
    /\ source \in Sources /\ drop \in BOOLEAN
    /\ rest \in IF source = "custom_urls" THEN Pages ELSE {<<>>}
    /\ aborted = FALSE /\ pc = Start /\ resume = "items" /\ outcome = "running"
    /\ round = 0 /\ page = 0 /\ found = <<>> /\ seen = {} /\ more = FALSE
    /\ lead = NoLead /\ batch = <<>> /\ enriched = 0
    /\ made = <<>> /\ delivered = <<>> /\ late = 0

Step ==
    \/ Yelp \/ YellowPages \/ LinkedIn \/ JustDial
    \/ GoogleMaps \/ GoogleDorks \/ Reddit \/ NewDomains
    \/ CustomUrls \/ WebCrawler
    \/ Consumer

Next == Step \/ Abort

Spec == Init /\ [][Next]_vars

(* Every request, evaluate and launch has a timeout and the rest is the    *)
(* event loop's.                                                           *)
FairSpec == Spec /\ WF_vars(Step)

-----------------------------------------------------------------------------
PCs == {"page", "fetch", "items", "profile", "visit", "tech", "ssl", "collect",
        "flush", "yield", "rpush", "close", "done", "scripts", "probe", "cards",
        "final", "enriched", "launch", "scroll", "query", "csv", "crawl",
        "seeds", "seed", "links"}

TypeOK ==
    /\ source \in Sources /\ drop \in BOOLEAN /\ aborted \in BOOLEAN
    /\ pc \in PCs
    /\ resume \in {"items", "page", "close"}
    /\ outcome \in {"running", "completed", "timeout", "failed"}
    /\ round \in 0..MaxRounds /\ page \in 0..MaxPages
    /\ rest \in Seq(Items) /\ found \in Seq(Items)
    /\ seen \subseteq Keys /\ more \in BOOLEAN
    /\ lead \in Leads \cup {NoLead} /\ enriched \in Nat
    /\ pc = "final" => enriched <= Len(batch)
    /\ batch \in Seq(Leads) /\ made \in Seq(Keys) /\ delivered \in Seq(Leads)
    /\ late \in Nat

(* Between a page and the runner no lead is lost, repeated or reordered:   *)
(* those made are those handed over and then those in batch, through full  *)
(* batches, filtered ones, the rest at the end and JustDial's late         *)
(* enrichment.                                                             *)
StreamAccounted == made = KeysOf(delivered \o batch)

(* A completed job leaves nothing behind.  A job that is aborted or fails  *)
(* loses at most one batch: no generator but JustDial's, which pushes the  *)
(* cards of a page at once, holds more (base.ts: "batch size controlled by *)
(* config.batchSize").                                                     *)
LossBounded ==
    /\ outcome = "completed" => batch = <<>> /\ lead = NoLead
    /\ source # "justdial" => Len(batch) <= BatchSize

(* Sources whose results repeat from page to page and from query to query  *)
(* make one lead of each name, domain or permalink.                        *)
OneLeadPerKey ==
    source \in {"google_maps", "google_dorks", "reddit", "web_crawler"} =>
       \A i, j \in 1..Len(made) : made[i] = made[j] => i = j

(* A lead reaches the contact filter and Redis only when its website was   *)
(* asked for a contact, except Reddit's, which never are, and JustDial's,  *)
(* of which only those left over at the end are (justdial.ts: "Enrich      *)
(* leads that have websites (batched at the end for efficiency)").         *)
VisitedBeforeDelivery ==
    source \notin {"reddit", "justdial"} =>
       \A i \in 1..Len(delivered) : delivered[i].tried

(* After a kill or a timeout at most one more request or scroll begins     *)
(* (base.ts: "Must check signal.aborted periodically and stop"); JustDial  *)
(* goes on asking hasSSL for the items of a script, but its batch is full  *)
(* and refused after BatchSize of them.                                    *)
StopsSoon == late <= IF source = "justdial" THEN BatchSize ELSE 1

(* Every job gets its outcome, whatever fails and whenever it is aborted.  *)
ScrapeEnds == <>(pc = "done")

(* The generators and their consumer keep the promise of LeadStream.       *)
Stream == INSTANCE LeadStream WITH
    found <- made,
    handed <- KeysOf(delivered),
    offered <- pc = "rpush",
    cancelled <- aborted,
    status <- outcome

IsStream == Stream!StreamSpec
=============================================================================
