---------------------------- MODULE ScrapeProofs ----------------------------
(***************************************************************************)
(* What the ten generators and their consumer guarantee for every list of  *)
(* results, batch size and limit: the leads made are handed over in order  *)
(* and once, a completed job leaves none behind, and the scrapers          *)
(* implement LeadStream.  Then what these leads are: one of each key from  *)
(* the sources that keep a set of what they have seen, and none that       *)
(* skipped the visit of its website; and how little a scraper still does   *)
(* after an abort.                                                         *)
(***************************************************************************)
EXTENDS Scrapers, SequenceTheorems, TLAPS

(* A lead is in hand from the result it is built of until it is collected. *)
InHand == {"profile", "visit", "tech", "ssl", "collect", "enriched", "probe",
           "crawl"}

LeadInHand == lead \in Leads <=> pc \in InHand

(* batch is below its limit wherever a lead may join it.                   *)
BatchRoom ==
    /\ pc \notin {"yield", "rpush", "close", "done"} => Len(batch) < BatchSize
    /\ source # "justdial" => Len(batch) <= BatchSize
    /\ pc = "csv" => batch = <<>>

(* JustDial's last pass goes through the batch in place.                   *)
LastPass ==
    /\ source # "justdial" => enriched = 0
    /\ \/ enriched = 0
       \/ pc \in {"final", "visit", "tech", "ssl", "enriched", "flush", "close",
                  "done"}
       \/ pc \in {"yield", "rpush"} /\ resume = "close"
    /\ source = "justdial" /\ pc \in {"visit", "tech", "ssl", "enriched"} =>
          enriched < Len(batch) /\ batch[enriched + 1].key = lead.key

(* The outcome is set by a failure or at the end.                          *)
OutcomeSet ==
    /\ pc \notin {"close", "done"} => outcome = "running"
    /\ pc = "close" => outcome \in {"running", "failed"}
    /\ pc = "close" => batch = <<>> \/ aborted \/ outcome = "failed"
    /\ pc = "done" => outcome # "running"
    /\ outcome = "completed" => batch = <<>>

(* Google Maps scrolls only with scrolls left.                             *)
ScrollRoom ==
    source = "google_maps" =>
       \/ page < MaxPages
       \/ pc \in {"launch", "page", "flush", "close", "done"}
       \/ pc \in {"yield", "rpush"} /\ resume = "close"

Control ==
    TypeOK /\ LeadInHand /\ BatchRoom /\ LastPass /\ OutcomeSet /\ ScrollRoom

ScrapeInv == Control /\ StreamAccounted

-----------------------------------------------------------------------------
(* Steps that leave the stream alone                                       *)

LEMMA TurnPageControl ==
    ASSUME Control, NEW exit \in {"flush", "final", "query"}, TurnPage(exit),
           exit = "final" => source = "justdial", source # "google_maps"
    PROVE  Control'
BY ScrapeAssumption DEF Control, TypeOK, PCs, LeadInHand, InHand, BatchRoom, LastPass,
   OutcomeSet, ScrollRoom, TurnPage, job, work, stream

LEMMA RequestFailsControl ==
    ASSUME Control, NEW at \in {"fetch", "csv"}, NEW exit \in {"flush", "final", "query", "close"},
           RequestFails(at, exit), exit = "close" => at = "csv"
    PROVE  Control'
BY DEF Control, TypeOK, PCs, LeadInHand, InHand, BatchRoom, LastPass,
   OutcomeSet, ScrollRoom, RequestFails, job, scan, work, stream

LEMMA PageHoldsControl ==
    ASSUME Control, NEW items \in Pages, NEW exit \in {"flush", "query"},
           PageHolds(items, "items", exit), more' \in BOOLEAN
    PROVE  Control'
BY ScrapeAssumption DEF Control, TypeOK, PCs, LeadInHand, InHand, BatchRoom,
   LastPass, OutcomeSet, ScrollRoom, PageHolds, job, work, stream

LEMMA LeaveItemsControl ==
    ASSUME Control, NEW next \in {"page", "flush", "query"}, LeaveItems(next)
    PROVE  Control'
BY DEF Control, TypeOK, PCs, LeadInHand, InHand, BatchRoom, LastPass,
   OutcomeSet, ScrollRoom, LeaveItems, job, work, stream

LEMMA SkipItemControl ==
    ASSUME Control, NEW skip, SkipItem(skip)
    PROVE  Control'
BY DEF Control, TypeOK, PCs, LeadInHand, InHand, BatchRoom, LastPass,
   OutcomeSet, ScrollRoom, SkipItem, job, work, stream

LEMMA TakeItemControl ==
    ASSUME Control, NEW take, NEW new \in Leads,
           NEW next \in {"visit", "collect", "profile", "crawl"},
           TakeItem(take, new, next), source # "justdial", seen' \subseteq Keys
    PROVE  Control'
BY ScrapeAssumption DEF Control, TypeOK, PCs, LeadInHand, InHand, BatchRoom,
   LastPass, OutcomeSet, ScrollRoom, TakeItem, job, stream

LEMMA SiteAnswersControl ==
    ASSUME Control, NEW contact \in BOOLEAN, NEW next \in {"tech", "ssl", "collect"},
           SiteAnswers(contact, next), next = "tech" \/ source # "justdial"
    PROVE  Control'
BY ScrapeAssumption DEF Control, TypeOK, PCs, LeadInHand, InHand, BatchRoom,
   LastPass, OutcomeSet, ScrollRoom, SiteAnswers, Leads, job, scan, stream

LEMMA SiteFailsControl ==
    ASSUME Control, NEW next \in {"collect", "enriched"}, SiteFails(next),
           next = "enriched" <=> source = "justdial"
    PROVE  Control'
BY ScrapeAssumption DEF Control, TypeOK, PCs, LeadInHand, InHand, BatchRoom,
   LastPass, OutcomeSet, ScrollRoom, SiteFails, Leads, job, scan, stream

LEMMA SiteLostControl ==
    ASSUME Control, NEW at \in {"visit", "crawl"}, SiteLost(at), source # "justdial"
    PROVE  Control'
BY ScrapeAssumption DEF Control, TypeOK, PCs, LeadInHand, InHand, BatchRoom,
   LastPass, OutcomeSet, ScrollRoom, SiteLost, job, scan, stream

LEMMA TechAndSSLControl ==
    ASSUME Control, NEW next \in {"collect", "enriched"}, TechAndSSL(next),
           next = "enriched" <=> source = "justdial"
    PROVE  Control'
<1>1. CASE TechStack(next)
  BY <1>1, ScrapeAssumption DEF Control, TypeOK, PCs, LeadInHand, InHand, BatchRoom,
   LastPass, OutcomeSet, ScrollRoom, TechStack, LateIf, job, scan, work, stream
<1>2. CASE HasSSL(next)
  BY <1>2, ScrapeAssumption DEF Control, TypeOK, PCs, LeadInHand, InHand, BatchRoom,
   LastPass, OutcomeSet, ScrollRoom, HasSSL, job, scan, work, stream
<1> QED
  BY <1>1, <1>2 DEF TechAndSSL

LEMMA VisitSiteControl ==
    ASSUME Control, NEW next \in {"collect", "enriched"}, VisitSite(next),
           next = "enriched" <=> source = "justdial"
    PROVE  Control'
BY SiteAnswersControl, SiteFailsControl, TechAndSSLControl DEF VisitSite

-----------------------------------------------------------------------------
(* Steps of the stream                                                     *)

LEMMA CollectControl ==
    ASSUME Control, Collect
    PROVE  Control'
<1>1. lead \in Leads /\ batch \in Seq(Leads) /\ made \in Seq(Keys) /\ lead.key \in Keys
  BY DEF Control, TypeOK, PCs, LeadInHand, InHand, BatchRoom,
   LastPass, OutcomeSet, ScrollRoom, Collect, Leads
<1>2. /\ batch' \in Seq(Leads) /\ Len(batch') = Len(batch) + 1
      /\ made' \in Seq(Keys) /\ Len(batch) < BatchSize
  BY <1>1 DEF Control, TypeOK, PCs, LeadInHand, InHand, BatchRoom,
   LastPass, OutcomeSet, ScrollRoom, Collect
<1> QED
  BY <1>1, <1>2, ScrapeAssumption DEF Control, TypeOK, PCs, LeadInHand, InHand, BatchRoom,
   LastPass, OutcomeSet, ScrollRoom, Collect, job, scan

LEMMA FlushControl ==
    ASSUME Control, Flush
    PROVE  Control'
BY DEF Control, TypeOK, PCs, LeadInHand, InHand, BatchRoom,
   LastPass, OutcomeSet, ScrollRoom, Flush, job, scan, work, stream

LEMMA ConsumeControl ==
    ASSUME Control, Consume
    PROVE  Control'
<1>1. batch' \in Seq(Leads) /\ delivered' \in Seq(Leads)
  <2>1. batch \in Seq(Leads) /\ delivered \in Seq(Leads) /\ <<>> \in Seq(Leads)
    BY DEF Control, TypeOK
  <2>2. delivered \o batch \in Seq(Leads)
    BY <2>1
  <2>3. \/ batch' = batch /\ delivered' = delivered
        \/ batch' = <<>> /\ delivered' = delivered \o batch
    BY Zenon DEF Consume
  <2> QED
    BY <2>1, <2>2, <2>3
<1>2. batch' = batch \/ batch' = <<>>
  BY DEF Consume
<1> QED
  BY <1>1, <1>2, ScrapeAssumption DEF Control, TypeOK, PCs, LeadInHand, InHand, BatchRoom,
   LastPass, OutcomeSet, ScrollRoom, Consume, job, scan, work

LEMMA PushedControl ==
    ASSUME Control, Pushed
    PROVE  Control'
<1>1. batch' = <<>> /\ batch' \in Seq(Leads) /\ delivered' \in Seq(Leads)
  BY DEF Control, TypeOK, PCs, LeadInHand, InHand, BatchRoom,
   LastPass, OutcomeSet, ScrollRoom, Pushed
<1> QED
  BY <1>1, ScrapeAssumption DEF Control, TypeOK, PCs, LeadInHand, InHand, BatchRoom,
   LastPass, OutcomeSet, ScrollRoom, Pushed, job, scan, work

LEMMA FailsControl ==
    ASSUME Control, NEW at \in {"rpush", "fetch"}, Fails(at)
    PROVE  Control'
BY DEF Control, TypeOK, PCs, LeadInHand, InHand, BatchRoom,
   LastPass, OutcomeSet, ScrollRoom, Fails, job, scan, work, stream

LEMMA EndsControl ==
    ASSUME Control, Ends
    PROVE  Control'
BY DEF Control, TypeOK, PCs, LeadInHand, InHand, BatchRoom,
   LastPass, OutcomeSet, ScrollRoom, Ends, job, scan, work, stream

LEMMA AbortControl ==
    ASSUME Control, Abort
    PROVE  Control'
<1> USE DEF Abort, Await, job, scan, work, stream
<1>1. TypeOK'
  BY DEF Control, TypeOK
<1>2. LeadInHand' /\ BatchRoom' /\ LastPass' /\ ScrollRoom'
  BY DEF Control, LeadInHand, BatchRoom, LastPass, ScrollRoom
<1>3. OutcomeSet'
  BY DEF Control, OutcomeSet
<1> QED
  BY <1>1, <1>2, <1>3 DEF Control

LEMMA ConsumerControl ==
    ASSUME Control, Consumer
    PROVE  Control'
BY FlushControl, ConsumeControl, PushedControl, FailsControl, EndsControl
   DEF Consumer, PushFails

-----------------------------------------------------------------------------
(* The scrapers that read listings                                         *)

LEMMA LeadOfType ==
    ASSUME NEW item \in Items
    PROVE  LeadOf(item) \in Leads /\ LeadOf(item).key = item.key
BY DEF LeadOf, Leads, Items

LEMMA HeadOfRest ==
    ASSUME Control, rest # <<>>
    PROVE  Item \in Items
BY DEF Control, TypeOK, Item

LEMMA FetchPageControl ==
    ASSUME Control, NEW exit \in {"flush", "query"}, FetchPage(exit)
    PROVE  Control'
<1>1. CASE RequestFails("fetch", exit)
  BY <1>1, RequestFailsControl
<1>2. ASSUME NEW items \in Pages, PageHolds(items, "items", exit), UNCHANGED more
      PROVE  Control'
  BY <1>2, PageHoldsControl DEF Control, TypeOK
<1> QED
  BY <1>1, <1>2 DEF FetchPage

LEMMA ListingItemControl ==
    ASSUME Control, ListingItem, source # "justdial"
    PROVE  Control'
<1>1. CASE LeaveItems("page")
  BY <1>1, LeaveItemsControl
<1>2. CASE SkipItem(~Item.usable)
  BY <1>2, SkipItemControl
<1>3. CASE TakeListing /\ UNCHANGED seen
  <2>1. LeadOf(Item) \in Leads
    BY <1>3, HeadOfRest, LeadOfType DEF TakeListing, TakeItem
  <2>2. seen' \subseteq Keys
    BY <1>3 DEF Control, TypeOK
  <2> QED
    BY <1>3, <2>1, <2>2, TakeItemControl DEF TakeListing
<1> QED
  BY <1>1, <1>2, <1>3 DEF ListingItem

LEMMA YelpControl ==
    ASSUME Control, Yelp
    PROVE  Control'
BY TurnPageControl, FetchPageControl, ListingItemControl, CollectControl,
   VisitSiteControl DEF Yelp, YelpPage, YelpItem, YelpSite

LEMMA YellowPagesControl ==
    ASSUME Control, YellowPages
    PROVE  Control'
BY TurnPageControl, FetchPageControl, ListingItemControl, CollectControl,
   VisitSiteControl
   DEF YellowPages, YellowPagesPage, YellowPagesItem, YellowPagesSite

LEMMA LinkedInControl ==
    ASSUME Control, LinkedIn
    PROVE  Control'
<1> source = "linkedin"
  BY DEF LinkedIn, LinkedInPage, LinkedInItem, LinkedInProfile, LinkedInSite
<1>1. CASE LinkedInPage
  BY <1>1, TurnPageControl, FetchPageControl DEF LinkedInPage
<1>2. CASE TakeItem(Item.usable, LinkedInLead(Item), "profile") /\ UNCHANGED seen
  <2>1. LinkedInLead(Item) \in Leads
    BY <1>2, HeadOfRest DEF TakeItem, LinkedInLead, Leads, Items, Sites
  <2>2. seen' \subseteq Keys
    BY <1>2 DEF Control, TypeOK
  <2> QED
    BY <1>2, <2>1, <2>2, TakeItemControl
<1>3. CASE LinkedInItem
  BY <1>2, <1>3, LeaveItemsControl, SkipItemControl, CollectControl DEF LinkedInItem
<1>4. ASSUME NEW site \in Sites, NEW contact \in BOOLEAN, ProfileAnswers(site, contact)
      PROVE  Control'
  BY <1>4, ScrapeAssumption DEF Control, TypeOK, PCs, LeadInHand, InHand, BatchRoom,
   LastPass, OutcomeSet, ScrollRoom, ProfileAnswers, Leads, job, scan, stream
<1>5. CASE ProfileFails
  BY <1>5, ScrapeAssumption DEF Control, TypeOK, PCs, LeadInHand, InHand, BatchRoom,
   LastPass, OutcomeSet, ScrollRoom, ProfileFails, Leads, job, scan, stream
<1>6. CASE LinkedInSite
  BY <1>6, VisitSiteControl DEF LinkedInSite
<1> QED
  BY <1>1, <1>3, <1>4, <1>5, <1>6 DEF LinkedIn, LinkedInProfile

LEMMA JustDialPageControl ==
    ASSUME Control, JustDialPage
    PROVE  Control'
<1>1. CASE TurnPage("final")
  BY <1>1, TurnPageControl DEF JustDialPage
<1>2. CASE RequestFails("fetch", "final")
  BY <1>2, RequestFailsControl
<1>3. CASE pc = "fetch" /\ pc' = "scripts"
  BY <1>3, ScrapeAssumption DEF Control, TypeOK, PCs, LeadInHand, InHand, BatchRoom,
   LastPass, OutcomeSet, ScrollRoom, JustDialPage, TurnPage, RequestFails, job, work, stream
<1> QED
  BY <1>1, <1>2, <1>3 DEF JustDialPage

LEMMA JustDialScriptControl ==
    ASSUME Control, JustDialScript
    PROVE  Control'
<1>1. round' \in 0..MaxRounds /\ rest' \in Seq(Items)
  BY ScrapeAssumption DEF Control, TypeOK, JustDialScript
<1> QED
  BY <1>1 DEF Control, TypeOK, PCs, LeadInHand, InHand, BatchRoom,
   LastPass, OutcomeSet, ScrollRoom, JustDialScript, job, work, stream

LEMMA JustDialItemControl ==
    ASSUME Control, JustDialItem
    PROVE  Control'
<1>1. rest' \in Seq(Items) /\ late' \in Nat
  <2>1. (rest' = Tail(rest) /\ rest # <<>>) \/ rest' = <<>>
    BY DEF JustDialItem
  <2>2. late' = late \/ LateIf(Item.site = "http")
    BY DEF JustDialItem
  <2>3. rest \in Seq(Items) /\ late \in Nat
    BY DEF Control, TypeOK
  <2>4. late' \in Nat
    BY <2>2, <2>3 DEF LateIf
  <2>5. <<>> \in Seq(Items) /\ (rest # <<>> => Tail(rest) \in Seq(Items))
    BY <2>3
  <2> QED
    BY <2>1, <2>4, <2>5
<1>2. CASE pc' = pc \/ pc' = "scripts"
  BY <1>1, <1>2, HeadOfRest, LeadOfType, ScrapeAssumption DEF Control, TypeOK, PCs,
   LeadInHand, InHand, BatchRoom, LastPass, OutcomeSet, ScrollRoom, JustDialItem, job, stream
<1>3. CASE pc' \in {"probe", "collect"}
  <2>1. lead' \in Leads
    BY <1>3, HeadOfRest, LeadOfType DEF JustDialItem
  <2> QED
    BY <1>1, <1>3, <2>1, ScrapeAssumption DEF Control, TypeOK, PCs,
     LeadInHand, InHand, BatchRoom, LastPass, OutcomeSet, ScrollRoom, JustDialItem, job, stream
<1> QED
  BY <1>2, <1>3 DEF JustDialItem

(* The cards of a page are leads, and their keys those of the leads.       *)
LEMMA CardLeads ==
    ASSUME NEW cards \in Seq(Items)
    PROVE  [i \in 1..Len(cards) |-> LeadOf(cards[i])] \in Seq(Leads)
<1>1. \A i \in 1..Len(cards) : LeadOf(cards[i]) \in Leads
  BY LeadOfType
<1>2. Len(cards) \in Nat
  OBVIOUS
<1> DEFINE f == [i \in 1..Len(cards) |-> LeadOf(cards[i])]
<1>3. f \in [1..Len(cards) -> Leads]
  BY <1>1
<1> QED
  BY <1>2, <1>3

LEMMA KeysType ==
    ASSUME NEW leads \in Seq(Leads)
    PROVE  /\ KeysOf(leads) \in Seq(Keys) /\ Len(KeysOf(leads)) = Len(leads)
           /\ \A i \in 1..Len(leads) : KeysOf(leads)[i] = leads[i].key
<1>1. \A i \in 1..Len(leads) : leads[i].key \in Keys
  <2>1. \A l \in Leads : l.key \in Keys
    BY DEF Leads
  <2>2. \A i \in 1..Len(leads) : leads[i] \in Leads
    OBVIOUS
  <2> QED
    BY <2>1, <2>2
<1>2. Len(leads) \in Nat
  OBVIOUS
<1>3. KeysOf(leads) \in [1..Len(leads) -> Keys]
  BY <1>1 DEF KeysOf
<1> QED
  BY <1>2, <1>3 DEF KeysOf

LEMMA JustDialHTMLControl ==
    ASSUME Control, JustDialHTML
    PROVE  Control'
<1>1. PICK cards \in Pages : JustDialCards(cards)
  BY DEF JustDialHTML
<1>2. PICK leads \in Seq(Leads) :
         batch' = batch \o leads /\ made' = made \o KeysOf(leads)
  <2> DEFINE all == [i \in 1..Len(cards) |-> LeadOf(cards[i])]
  <2>1. all \in Seq(Leads) /\ <<>> \in Seq(Leads)
    BY CardLeads, ScrapeAssumption
  <2>2. (IF aborted THEN <<>> ELSE all) \in Seq(Leads)
    BY <2>1
  <2> QED
    BY <1>1, <2>2, Zenon DEF JustDialCards
<1>3. batch' \in Seq(Leads) /\ made' \in Seq(Keys)
  BY <1>2, KeysType DEF Control, TypeOK
<1> HIDE DEF JustDialCards
<1>4. /\ source = "justdial" /\ pc = "cards"
      /\ IF Len(batch') >= BatchSize
         THEN pc' = "yield" /\ resume' = "page"
         ELSE pc' = "page" /\ UNCHANGED resume
      /\ UNCHANGED <<job, aborted, outcome, scan, work, delivered, late>>
  BY <1>1 DEF JustDialCards
<1> QED
  BY <1>3, <1>4, ScrapeAssumption DEF Control, TypeOK, PCs, LeadInHand, InHand, BatchRoom,
   LastPass, OutcomeSet, ScrollRoom, job, scan, work

LEMMA JustDialFinalControl ==
    ASSUME Control, JustDialFinal
    PROVE  Control'
<1>1. CASE enriched = Len(batch)
  BY <1>1, ScrapeAssumption DEF Control, TypeOK, PCs, LeadInHand, InHand, BatchRoom,
   LastPass, OutcomeSet, ScrollRoom, JustDialFinal, job, scan, work, stream
<1>2. CASE enriched # Len(batch)
  <2>1. enriched \in Nat /\ enriched < Len(batch) /\ batch[enriched + 1] \in Leads
    BY <1>2 DEF Control, TypeOK, JustDialFinal
  <2> QED
    BY <1>2, <2>1, ScrapeAssumption DEF Control, TypeOK, PCs, LeadInHand, InHand, BatchRoom,
     LastPass, OutcomeSet, ScrollRoom, JustDialFinal, job, scan, work, stream
<1> QED
  BY <1>1, <1>2

(* A lead enriched keeps its place and its key.                            *)
LEMMA EnrichedBatch ==
    ASSUME Control, JustDialEnriched
    PROVE  /\ batch' \in Seq(Leads) /\ Len(batch') = Len(batch)
           /\ enriched < Len(batch)
           /\ \A i \in 1..Len(batch) : batch'[i].key = batch[i].key
<1>1. /\ lead \in Leads /\ batch \in Seq(Leads) /\ enriched \in Nat
      /\ enriched < Len(batch) /\ batch[enriched + 1].key = lead.key
      /\ batch' = [batch EXCEPT ![enriched + 1] = lead]
  BY DEF Control, TypeOK, LeadInHand, InHand, LastPass, JustDialEnriched
<1> QED
  BY <1>1

LEMMA JustDialEnrichedControl ==
    ASSUME Control, JustDialEnriched
    PROVE  Control'
BY EnrichedBatch, ScrapeAssumption DEF Control, TypeOK, PCs, LeadInHand, InHand,
   BatchRoom, LastPass, OutcomeSet, ScrollRoom, JustDialEnriched, job, scan

LEMMA JustDialControl ==
    ASSUME Control, JustDial
    PROVE  Control'
<1>1. CASE JustDialProbe
  BY <1>1 DEF Control, TypeOK, PCs, LeadInHand, InHand, BatchRoom, LastPass,
     OutcomeSet, ScrollRoom, JustDialProbe, job, scan, work, stream
<1>2. CASE JustDialSite
  BY <1>2, VisitSiteControl DEF JustDialSite
<1> QED
  BY <1>1, <1>2, JustDialPageControl, JustDialScriptControl, JustDialItemControl,
     CollectControl, JustDialHTMLControl, JustDialFinalControl,
     JustDialEnrichedControl DEF JustDial, JustDialCollect

-----------------------------------------------------------------------------
(* The scrapers that search                                                *)

LEMMA MapsThrowsControl ==
    ASSUME Control, NEW at \in {"launch", "fetch", "scroll"}, MapsThrows(at)
    PROVE  Control'
<1> USE DEF MapsThrows, job, scan, work, stream
<1>1. TypeOK'
  BY DEF Control, TypeOK, PCs
<1>2. LeadInHand' /\ BatchRoom' /\ LastPass' /\ ScrollRoom'
  BY DEF Control, LeadInHand, InHand, BatchRoom, LastPass, ScrollRoom
<1>3. CASE aborted
  BY <1>1, <1>2, <1>3 DEF Control, OutcomeSet
<1>4. CASE ~aborted
  BY <1>1, <1>2, <1>4 DEF Control, OutcomeSet
<1> QED
  BY <1>3, <1>4

(* A lead that is taken of an item.                                        *)
LEMMA SiteLeadType ==
    ASSUME NEW item \in Items
    PROVE  SiteLead(item) \in Leads
BY DEF SiteLead, LeadOf, Leads, Items

LEMMA SeenKeys ==
    ASSUME Control, rest # <<>>
    PROVE  Item.key \in Keys /\ seen \cup {Item.key} \subseteq Keys
BY HeadOfRest DEF Control, TypeOK, Items

LEMMA GoogleMapsControl ==
    ASSUME Control, GoogleMaps
    PROVE  Control'
<1> source = "google_maps"
  BY DEF GoogleMaps, MapsLaunch, MapsResults, MapsItem, MapsSite, MapsScroll,
     MapsError
<1>1. CASE MapsLaunch
  <2>1. CASE pc = "launch" /\ pc' = "page"
    BY <1>1, <2>1 DEF Control, TypeOK, PCs, LeadInHand, InHand, BatchRoom, LastPass,
       OutcomeSet, ScrollRoom, MapsLaunch, MapsThrows, job, scan, work, stream
  <2> QED
    BY <1>1, <2>1, MapsThrowsControl DEF MapsLaunch
<1>2. CASE MapsResults
  <2>1. rest' \in Seq(Items) /\ pc' \in {"fetch", "flush", "items"}
    BY <1>2, ScrapeAssumption DEF Control, TypeOK, MapsResults
  <2> QED
    BY <1>2, <2>1 DEF Control, TypeOK, PCs, LeadInHand, InHand, BatchRoom, LastPass,
       OutcomeSet, ScrollRoom, MapsResults, job, work, stream
<1>3. CASE MapsItem
  <2>1. CASE \E next \in {"visit", "collect"} :
                TakeItem(Item.usable /\ Item.key \notin seen, LeadOf(Item), next)
                /\ seen' = seen \cup {Item.key}
    <3>1. rest # <<>>
      BY <2>1 DEF TakeItem
    <3> QED
      BY <2>1, <3>1, HeadOfRest, LeadOfType, SeenKeys, TakeItemControl
  <2> QED
    BY <1>3, <2>1, SkipItemControl, CollectControl DEF MapsItem
<1>4. CASE MapsSite
  <2>1. CASE HasSSL("collect")
    BY <2>1, TechAndSSLControl DEF TechAndSSL
  <2> QED
    BY <1>4, <2>1, SiteAnswersControl, SiteFailsControl DEF MapsSite
<1>5. CASE MapsScroll
  <2>1. late' \in Nat
    BY <1>5 DEF Control, TypeOK, MapsScroll, LateIf
  <2>2. page' \in 0..MaxPages /\ rest' \in Seq(Items)
    <3>1. page \in 0..MaxPages /\ rest \in Seq(Items) /\ <<>> \in Seq(Items)
      BY DEF Control, TypeOK
    <3>2. rest' = <<>> \/ rest' = rest
      BY <1>5 DEF MapsScroll
    <3>3. page' = page \/ (pc = "scroll" /\ page' = page + 1)
      BY <1>5 DEF MapsScroll
    <3>4. page < MaxPages \/ pc # "scroll"
      BY DEF Control, ScrollRoom
    <3>5. rest' \in Seq(Items)
      BY <3>1, <3>2
    <3>6. page' \in 0..MaxPages
      BY <3>1, <3>3, <3>4, ScrapeAssumption
    <3> QED
      BY <3>5, <3>6
  <2> QED
    BY <1>5, <2>1, <2>2 DEF Control, TypeOK, PCs, LeadInHand, InHand, BatchRoom,
       LastPass, OutcomeSet, ScrollRoom, MapsScroll, job, work, stream
<1>6. CASE MapsError
  BY <1>6, MapsThrowsControl DEF MapsError
<1> QED
  BY <1>1, <1>2, <1>3, <1>4, <1>5, <1>6 DEF GoogleMaps

LEMMA NextQueryControl ==
    ASSUME Control, NextQuery, source # "google_maps"
    PROVE  Control'
<1>1. round' \in 0..MaxRounds /\ page' \in 0..MaxPages
  BY ScrapeAssumption DEF Control, TypeOK, NextQuery
<1> QED
  BY <1>1 DEF Control, TypeOK, PCs, LeadInHand, InHand, BatchRoom, LastPass,
     OutcomeSet, ScrollRoom, NextQuery, job, work, stream

LEMMA GoogleDorksControl ==
    ASSUME Control, GoogleDorks
    PROVE  Control'
<1> source = "google_dorks"
  BY DEF GoogleDorks, DorksPage, DorksItem, DorksSite
<1>1. CASE DorksPage
  BY <1>1, TurnPageControl, FetchPageControl, NextQueryControl DEF DorksPage
<1>2. CASE TakeItem(UsableLink /\ Item.key \notin seen, SiteLead(Item), "visit")
           /\ seen' = seen \cup {Item.key}
  <2>1. rest # <<>>
    BY <1>2 DEF TakeItem
  <2> QED
    BY <1>2, <2>1, HeadOfRest, SiteLeadType, SeenKeys, TakeItemControl
<1>3. CASE DorksItem
  BY <1>2, <1>3, LeaveItemsControl, SkipItemControl, CollectControl DEF DorksItem
<1>4. CASE DorksSite
  BY <1>4, SiteAnswersControl, SiteLostControl, TechAndSSLControl DEF DorksSite
<1> QED
  BY <1>1, <1>3, <1>4 DEF GoogleDorks

LEMMA RedditControl ==
    ASSUME Control, Reddit
    PROVE  Control'
<1> source = "reddit"
  BY DEF Reddit, RedditPage, RedditPost
<1>1. CASE RedditPage
  BY <1>1, TurnPageControl, NextQueryControl, RequestFailsControl, FailsControl,
     PageHoldsControl DEF RedditPage
<1>2. CASE TakeItem(Item.key \notin seen, LeadOf(Item), "collect")
           /\ seen' = seen \cup {Item.key}
  <2>1. rest # <<>>
    BY <1>2 DEF TakeItem
  <2> QED
    BY <1>2, <2>1, HeadOfRest, LeadOfType, SeenKeys, TakeItemControl
<1>3. CASE \E next \in {"page", "query"} : LeaveItems(next)
  BY <1>3, LeaveItemsControl
<1>4. CASE RedditPost
  BY <1>2, <1>3, <1>4, SkipItemControl, CollectControl DEF RedditPost
<1> QED
  BY <1>1, <1>4 DEF Reddit

LEMMA FirstOfType ==
    ASSUME NEW domains \in Seq(Items)
    PROVE  FirstOf(domains) \in Seq(Items)
<1> DEFINE n == IF Len(domains) < MaxSites THEN Len(domains) ELSE MaxSites
<1>1. n \in Nat /\ n <= Len(domains)
  BY ScrapeAssumption
<1>2. \A i \in 1..n : domains[i] \in Items
  BY <1>1
<1>3. FirstOf(domains) \in [1..n -> Items]
  BY <1>2 DEF FirstOf
<1> HIDE DEF n
<1> QED
  BY <1>1, <1>3

LEMMA NewDomainsControl ==
    ASSUME Control, NewDomains
    PROVE  Control'
<1> source = "new_domains"
  BY DEF NewDomains, NewDomainsCSV, NewDomainsItem, NewDomainsSite
<1>1. ASSUME NEW domains \in Pages, rest' = FirstOf(domains), ~aborted, pc = "csv", pc' = "items",
             UNCHANGED <<job, aborted, resume, outcome, round, page, found, seen,
                         more, work, stream, late>>
      PROVE  Control'
  <2>1. rest' \in Seq(Items)
    BY <1>1, FirstOfType, ScrapeAssumption
  <2> QED
    BY <1>1, <2>1, ScrapeAssumption DEF Control, TypeOK, PCs, LeadInHand, InHand, BatchRoom, LastPass,
       OutcomeSet, ScrollRoom, job, work, stream
<1>2. CASE NewDomainsCSV
  BY <1>1, <1>2, RequestFailsControl DEF NewDomainsCSV
<1>3. CASE TakeItem(Item.usable, [SiteLead(Item) EXCEPT !.site = "https"], "visit")
           /\ UNCHANGED seen
  <2>1. rest # <<>> /\ seen' \subseteq Keys
    BY <1>3 DEF TakeItem, Control, TypeOK
  <2>2. [SiteLead(Item) EXCEPT !.site = "https"] \in Leads
    BY <2>1, HeadOfRest, SiteLeadType DEF Leads, Sites
  <2> QED
    BY <1>3, <2>1, <2>2, TakeItemControl
<1>4. CASE NewDomainsItem
  BY <1>3, <1>4, LeaveItemsControl, SkipItemControl, CollectControl DEF NewDomainsItem
<1>5. CASE NewDomainsSite
  BY <1>5, SiteAnswersControl, SiteLostControl, TechAndSSLControl
     DEF NewDomainsSite, TechAndSSL
<1> QED
  BY <1>2, <1>4, <1>5 DEF NewDomains

LEMMA CrawlSiteControl ==
    ASSUME Control, CrawlSite, source # "justdial"
    PROVE  Control'
<1>1. CASE CrawlFinds
  BY <1>1, ScrapeAssumption DEF Control, TypeOK, PCs, LeadInHand, InHand, BatchRoom, LastPass,
     OutcomeSet, ScrollRoom, CrawlFinds, Leads, job, scan, stream
<1> QED
  BY <1>1, SiteLostControl, TechAndSSLControl DEF CrawlSite

LEMMA CustomUrlsControl ==
    ASSUME Control, CustomUrls
    PROVE  Control'
<1> source = "custom_urls"
  BY DEF CustomUrls, CustomUrlsItem, CustomUrlsSite
<1>1. CASE TakeItem(UsableLink, SiteLead(Item), "crawl") /\ UNCHANGED seen
  <2>1. rest # <<>> /\ seen' \subseteq Keys
    BY <1>1 DEF TakeItem, Control, TypeOK
  <2> QED
    BY <1>1, <2>1, HeadOfRest, SiteLeadType, TakeItemControl
<1>2. CASE CustomUrlsItem
  BY <1>1, <1>2, LeaveItemsControl, SkipItemControl, CollectControl DEF CustomUrlsItem
<1> QED
  BY <1>2, CrawlSiteControl DEF CustomUrls, CustomUrlsSite

LEMMA WebCrawlerControl ==
    ASSUME Control, WebCrawler
    PROVE  Control'
<1> source = "web_crawler"
  BY DEF WebCrawler, WebCrawlerSeed, WebCrawlerLink, WebCrawlerSite, WebCrawlerCrawl
<1>1. CASE WebCrawlerSeed
  <2>1. round' \in 0..MaxRounds /\ rest' \in Seq(Items)
    BY <1>1, ScrapeAssumption DEF Control, TypeOK, WebCrawlerSeed
  <2>2. /\ pc \in {"seeds", "seed"} /\ pc' \in {"seeds", "seed", "items", "links"}
        /\ UNCHANGED <<job, aborted, resume, outcome, page, found, seen, more, work,
                       stream, late>>
    BY <1>1 DEF WebCrawlerSeed
  <2> QED
    BY <2>1, <2>2 DEF Control, TypeOK, PCs, LeadInHand, InHand, BatchRoom, LastPass,
       OutcomeSet, ScrollRoom, job, work, stream
<1>2. CASE WebCrawlerLink
  <2>1. rest' \in Seq(Items) /\ found' \in Seq(Items)
    <3>1. CASE rest = <<>>
      BY <1>2, <3>1 DEF Control, TypeOK, WebCrawlerLink
    <3>2. CASE rest # <<>>
      <4>1. rest' = Tail(rest) /\ found' \in {found, Append(found, Item)}
        BY <1>2, <3>2 DEF WebCrawlerLink
      <4>2. rest \in Seq(Items) /\ found \in Seq(Items) /\ Item \in Items
        BY <3>2, HeadOfRest DEF Control, TypeOK
      <4> QED
        BY <3>2, <4>1, <4>2
    <3> QED
      BY <3>1, <3>2
  <2> QED
    BY <1>2, <2>1 DEF Control, TypeOK, PCs, LeadInHand, InHand, BatchRoom, LastPass,
       OutcomeSet, ScrollRoom, WebCrawlerLink, job, work, stream
<1>3. CASE /\ pc = "items" /\ rest # <<>> /\ rest' = Tail(rest)
           /\ seen' = seen \cup {Item.key}
           /\ \/ UNCHANGED <<pc, lead>>
              \/ pc' = "flush" /\ UNCHANGED lead
              \/ pc' = "crawl" /\ lead' = SiteLead(Item)
           /\ UNCHANGED <<job, aborted, resume, outcome, round, page, found, more,
                          enriched, stream, late>>
  <2>1. Item \in Items /\ SiteLead(Item) \in Leads /\ seen' \subseteq Keys
        /\ rest' \in Seq(Items)
    BY <1>3, HeadOfRest, SeenKeys, SiteLeadType DEF Control, TypeOK
  <2> QED
    BY <1>3, <2>1, ScrapeAssumption DEF Control, TypeOK, PCs, LeadInHand, InHand,
       BatchRoom, LastPass, OutcomeSet, ScrollRoom, job, stream
<1>4. CASE WebCrawlerSite
  BY <1>3, <1>4, LeaveItemsControl, CollectControl, Zenon DEF WebCrawlerSite
<1> QED
  BY <1>1, <1>2, <1>4, CrawlSiteControl DEF WebCrawler, WebCrawlerCrawl

-----------------------------------------------------------------------------
(* Every step, and the beginning                                           *)

LEMMA InitControl ==
    ASSUME Init
    PROVE  Control
<1>1. rest \in Seq(Items)
  <2>1. rest \in Pages \/ rest = <<>>
    BY Zenon DEF Init
  <2>2. <<>> \in Seq(Items) /\ Pages \subseteq Seq(Items)
    BY ScrapeAssumption
  <2> QED
    BY <2>1, <2>2
<1>2. pc \in {"launch", "csv", "seeds", "close", "items", "page"}
      /\ (source = "google_maps" => pc = "launch")
      /\ (pc = "csv" => source = "new_domains")
  BY ScrapeAssumption DEF Init, Start
<1>3. TypeOK
  <2>1. pc \in PCs
    BY <1>2 DEF PCs
  <2>2. round \in 0..MaxRounds /\ page \in 0..MaxPages /\ enriched \in Nat /\ late \in Nat
    BY ScrapeAssumption DEF Init
  <2>3. /\ found \in Seq(Items) /\ batch \in Seq(Leads) /\ made \in Seq(Keys)
        /\ delivered \in Seq(Leads) /\ seen \subseteq Keys
        /\ lead \in Leads \cup {NoLead}
    <3>1. /\ found = <<>> /\ batch = <<>> /\ made = <<>> /\ delivered = <<>>
          /\ seen = {} /\ lead = NoLead
      BY DEF Init
    <3> QED
      BY <3>1
  <2>4. source \in Sources /\ drop \in BOOLEAN /\ aborted \in BOOLEAN
        /\ resume = "items" /\ outcome = "running" /\ pc # "final"
        /\ more \in BOOLEAN
    BY <1>2 DEF Init
  <2> QED
    BY <1>1, <2>1, <2>2, <2>3, <2>4 DEF TypeOK
<1>4. LeadInHand
  BY <1>2, ScrapeAssumption DEF Init, LeadInHand, InHand
<1>5. BatchRoom /\ LastPass /\ OutcomeSet /\ ScrollRoom
  BY <1>2, ScrapeAssumption DEF Init, BatchRoom, LastPass, OutcomeSet, ScrollRoom
<1> QED
  BY <1>3, <1>4, <1>5 DEF Control

LEMMA StepControl ==
    ASSUME Control, Next
    PROVE  Control'
<1>1. CASE Abort
  BY <1>1, AbortControl
<1> QED
  BY <1>1, YelpControl, YellowPagesControl, LinkedInControl, JustDialControl,
     GoogleMapsControl, GoogleDorksControl, RedditControl, NewDomainsControl,
     CustomUrlsControl, WebCrawlerControl, ConsumerControl DEF Next, Step

LEMMA StutterControl ==
    ASSUME Control, UNCHANGED vars
    PROVE  Control'
BY DEF Control, TypeOK, PCs, LeadInHand, InHand, BatchRoom, LastPass, OutcomeSet,
   ScrollRoom, vars, job, scan, work, stream

LEMMA ControlHolds == Spec => []Control
<1>1. Init => Control
  BY InitControl
<1>2. Control /\ [Next]_vars => Control'
  BY StepControl, StutterControl
<1> QED
  BY <1>1, <1>2, PTL DEF Spec

(* TypeOK for every list of results, batch size and limit: the scrapers'   *)
(* counters stay within MAX_PAGES and the number of queries, and JustDial  *)
(* never enriches beyond its batch.                                        *)
THEOREM ScrapeTypes == Spec => []TypeOK
<1>1. Control => TypeOK
  BY DEF Control
<1> QED
  BY <1>1, ControlHolds, PTL

(* What base.ts says of config.batchSize: whatever a page shows, only      *)
(* JustDial's batch may outgrow it, and a completed job's batch is empty.  *)
THEOREM LossIsBounded == Spec => []LossBounded
<1>1. Control => LossBounded
  <2> SUFFICES ASSUME Control
               PROVE  LossBounded
    OBVIOUS
  <2>1. outcome = "completed" => batch = <<>> /\ lead = NoLead
    BY DEF Control, TypeOK, OutcomeSet, LeadInHand, InHand
  <2>2. source # "justdial" => Len(batch) <= BatchSize
    BY DEF Control, BatchRoom
  <2> QED
    BY <2>1, <2>2 DEF LossBounded
<1> QED
  BY <1>1, ControlHolds, PTL

-----------------------------------------------------------------------------
(* What each step does to the stream of leads                              *)

(* Nothing the consumer could notice.                                      *)
Quiet ==
    /\ UNCHANGED <<job, batch, made, delivered, aborted, outcome>>
    /\ pc # "rpush" /\ pc' # "rpush"

Throws == \E at \in {"launch", "fetch", "scroll"} : MapsThrows(at)

Failure == \E at \in {"rpush", "fetch"} : Fails(at)

StreamStep ==
    Collect \/ JustDialHTML \/ JustDialEnriched \/ Consume \/ Pushed

Ending == Failure \/ Throws \/ Ends \/ Abort

LEMMA PageQuiet ==
    ASSUME NEW exit \in PCs \ {"rpush"}
    PROVE  /\ TurnPage(exit) => Quiet
           /\ FetchPage(exit) => Quiet
           /\ LeaveItems(exit) => Quiet
           /\ \A at \in {"fetch", "csv"} : RequestFails(at, exit) => Quiet
           /\ \A items \in Pages : PageHolds(items, "items", exit) => Quiet
BY DEF Quiet, PCs, TurnPage, FetchPage, RequestFails, PageHolds, LeaveItems, stream

LEMMA ItemQuiet ==
    ASSUME NEW skip, NEW new, NEW next \in PCs \ {"rpush"}
    PROVE  /\ SkipItem(skip) => Quiet
           /\ TakeItem(skip, new, next) => Quiet
BY DEF Quiet, PCs, SkipItem, TakeItem, stream

LEMMA SiteQuiet ==
    ASSUME NEW next \in PCs \ {"rpush"}
    PROVE  /\ VisitSite(next) => Quiet
           /\ TechAndSSL(next) => Quiet
           /\ \A contact \in BOOLEAN : SiteAnswers(contact, next) => Quiet
           /\ SiteFails(next) => Quiet
           /\ \A at \in {"visit", "crawl"} : SiteLost(at) => Quiet
BY DEF Quiet, PCs, VisitSite, SiteAnswers, SiteFails, SiteLost, TechAndSSL,
   TechStack, HasSSL, stream

LEMMA ListingQuiet ==
    ASSUME Yelp \/ YellowPages \/ LinkedIn
    PROVE  Quiet \/ Collect
<1>1. {"page", "items", "visit", "collect", "profile", "flush"} \subseteq PCs \ {"rpush"}
  BY DEF PCs
<1>2. ListingItem => Quiet
  BY <1>1, PageQuiet, ItemQuiet DEF ListingItem, TakeListing
<1>3. CASE Yelp \/ YellowPages
  BY <1>1, <1>2, <1>3, PageQuiet, SiteQuiet
     DEF Yelp, YelpPage, YelpItem, YelpSite, YellowPages, YellowPagesPage,
         YellowPagesItem, YellowPagesSite
<1>4. LinkedInProfile => Quiet
  BY DEF Quiet, LinkedInProfile, ProfileAnswers, ProfileFails, stream
<1>5. CASE LinkedIn
  BY <1>1, <1>4, <1>5, PageQuiet, ItemQuiet, SiteQuiet
     DEF LinkedIn, LinkedInPage, LinkedInItem, LinkedInSite
<1> QED
  BY <1>3, <1>5

LEMMA JustDialQuiet ==
    ASSUME JustDial
    PROVE  Quiet \/ Collect \/ JustDialHTML \/ JustDialEnriched
<1>1. {"final", "enriched"} \subseteq PCs \ {"rpush"}
  BY DEF PCs
<1>2. JustDialPage => Quiet
  BY <1>1, PageQuiet DEF JustDialPage, Quiet, stream
<1>3. JustDialScript \/ JustDialItem \/ JustDialProbe \/ JustDialFinal => Quiet
  BY DEF JustDialScript, JustDialItem, JustDialProbe, JustDialFinal, Quiet, stream
<1>4. JustDialSite => Quiet
  BY <1>1, SiteQuiet DEF JustDialSite
<1> QED
  BY <1>2, <1>3, <1>4 DEF JustDial, JustDialCollect

LEMMA SearchQuiet ==
    ASSUME GoogleMaps \/ GoogleDorks \/ Reddit
    PROVE  Quiet \/ Collect \/ Throws \/ Failure
<1>1. {"page", "items", "visit", "collect", "query", "ssl", "tech", "flush"}
         \subseteq PCs \ {"rpush"}
  BY DEF PCs
<1>2. CASE GoogleMaps
  <2>1. MapsLaunch \/ MapsError => Quiet \/ Throws
    BY DEF MapsLaunch, MapsError, Throws, Quiet, stream
  <2>2. MapsResults \/ MapsScroll => Quiet
    BY DEF MapsResults, MapsScroll, Quiet, stream
  <2>3. MapsItem => Quiet \/ Collect
    BY <1>1, ItemQuiet DEF MapsItem
  <2>4. MapsSite => Quiet
    BY <1>1, SiteQuiet DEF MapsSite, TechAndSSL
  <2> QED
    BY <1>2, <2>1, <2>2, <2>3, <2>4 DEF GoogleMaps
<1>3. NextQuery => Quiet
  BY DEF NextQuery, Quiet, stream
<1>4. CASE GoogleDorks
  BY <1>1, <1>3, <1>4, PageQuiet, ItemQuiet, SiteQuiet
     DEF GoogleDorks, DorksPage, DorksItem, DorksSite
<1>5. CASE Reddit
  BY <1>1, <1>3, <1>5, PageQuiet, ItemQuiet
     DEF Reddit, RedditPage, RedditPost, Failure
<1> QED
  BY <1>2, <1>4, <1>5

LEMMA CrawlQuiet ==
    ASSUME NewDomains \/ CustomUrls \/ WebCrawler
    PROVE  Quiet \/ Collect
<1>1. {"items", "visit", "collect", "tech", "crawl", "flush", "close"}
         \subseteq PCs \ {"rpush"}
  BY DEF PCs
<1>2. NewDomainsCSV => Quiet
  BY <1>1, PageQuiet DEF NewDomainsCSV, Quiet, stream
<1>3. CASE NewDomains
  BY <1>1, <1>2, <1>3, PageQuiet, ItemQuiet, SiteQuiet
     DEF NewDomains, NewDomainsItem, NewDomainsSite, TechAndSSL
<1>4. CrawlSite => Quiet
  BY <1>1, SiteQuiet DEF CrawlSite, CrawlFinds, Quiet, stream
<1>5. CASE CustomUrls
  BY <1>1, <1>4, <1>5, PageQuiet, ItemQuiet
     DEF CustomUrls, CustomUrlsItem, CustomUrlsSite
<1>6. CASE WebCrawler
  BY <1>1, <1>4, <1>6, PageQuiet
     DEF WebCrawler, WebCrawlerSeed, WebCrawlerLink, WebCrawlerSite,
         WebCrawlerCrawl, Quiet, stream
<1> QED
  BY <1>3, <1>5, <1>6

LEMMA StepKinds ==
    ASSUME Next
    PROVE  Quiet \/ StreamStep \/ Ending
<1>1. Flush => Quiet
  BY DEF Flush, Quiet, stream
<1>2. PushFails => Failure
  BY DEF PushFails, Failure
<1> QED
  BY <1>1, <1>2, ListingQuiet, JustDialQuiet, SearchQuiet, CrawlQuiet
     DEF Next, Step, Consumer, StreamStep, Ending

-----------------------------------------------------------------------------
(* The leads made are those handed over and those in batch                 *)

LEMMA KeysConcat ==
    ASSUME NEW s \in Seq(Leads), NEW t \in Seq(Leads)
    PROVE  KeysOf(s \o t) = KeysOf(s) \o KeysOf(t)
<1>1. s \o t \in Seq(Leads) /\ Len(s \o t) = Len(s) + Len(t)
  OBVIOUS
<1>2. /\ KeysOf(s) \in Seq(Keys) /\ Len(KeysOf(s)) = Len(s)
      /\ KeysOf(t) \in Seq(Keys) /\ Len(KeysOf(t)) = Len(t)
      /\ KeysOf(s \o t) \in Seq(Keys) /\ Len(KeysOf(s \o t)) = Len(s \o t)
  BY <1>1, KeysType
<1>3. ASSUME NEW i \in 1..Len(s \o t)
      PROVE  KeysOf(s \o t)[i] = (KeysOf(s) \o KeysOf(t))[i]
  <2>1. KeysOf(s \o t)[i] = (s \o t)[i].key
    BY <1>1, KeysType
  <2>2. CASE i <= Len(s)
    <3>1. i \in 1..Len(s) /\ (s \o t)[i] = s[i]
      BY <1>1, <2>2
    <3>2. KeysOf(s)[i] = s[i].key
      BY <3>1, KeysType
    <3>3. (KeysOf(s) \o KeysOf(t))[i] = KeysOf(s)[i]
      BY <1>2, <3>1
    <3> QED
      BY <2>1, <3>1, <3>2, <3>3
  <2>3. CASE i > Len(s)
    <3>1. i - Len(s) \in 1..Len(t) /\ (s \o t)[i] = t[i - Len(s)]
      BY <1>1, <2>3
    <3>2. KeysOf(t)[i - Len(s)] = t[i - Len(s)].key
      BY <3>1, KeysType
    <3>3. (KeysOf(s) \o KeysOf(t))[i] = KeysOf(t)[i - Len(s)]
      BY <1>1, <1>2, <2>3
    <3> QED
      BY <2>1, <3>1, <3>2, <3>3
  <2>4. i <= Len(s) \/ i > Len(s)
    BY <1>1
  <2> QED
    BY <2>2, <2>3, <2>4
<1>4. /\ KeysOf(s) \o KeysOf(t) \in Seq(Keys)
      /\ Len(KeysOf(s) \o KeysOf(t)) = Len(KeysOf(s \o t))
  BY <1>1, <1>2, ConcatProperties
<1>5. \A i \in 1..Len(KeysOf(s \o t)) : KeysOf(s \o t)[i] = (KeysOf(s) \o KeysOf(t))[i]
  BY <1>2, <1>3
<1> HIDE DEF KeysOf
<1> QED
  BY <1>2, <1>4, <1>5, SeqEqual

LEMMA KeysOfOne ==
    ASSUME NEW l \in Leads
    PROVE  KeysOf(<<l>>) = <<l.key>>
BY DEF KeysOf

(* Two batches of the same length with the same keys.                      *)
LEMMA KeysSame ==
    ASSUME NEW s \in Seq(Leads), NEW t \in Seq(Leads), Len(s) = Len(t),
           \A i \in 1..Len(s) : s[i].key = t[i].key
    PROVE  KeysOf(s) = KeysOf(t)
BY DEF KeysOf

LEMMA Joined ==
    ASSUME Control, StreamAccounted
    PROVE  /\ batch \in Seq(Leads) /\ delivered \in Seq(Leads)
           /\ made = KeysOf(delivered) \o KeysOf(batch)
BY KeysConcat DEF Control, TypeOK, StreamAccounted

(* JustDial's cards join made and batch together.                          *)
LEMMA CardsJoin ==
    ASSUME Control, JustDialHTML
    PROVE  /\ \E leads \in Seq(Leads) :
                 batch' = batch \o leads /\ made' = made \o KeysOf(leads)
           /\ source = "justdial" /\ pc = "cards" /\ pc' \in {"yield", "page"}
           /\ UNCHANGED <<delivered, aborted, outcome>>
<1>1. PICK cards \in Pages : JustDialCards(cards)
  BY DEF JustDialHTML
<1> DEFINE all == [i \in 1..Len(cards) |-> LeadOf(cards[i])]
<1>2. all \in Seq(Leads) /\ <<>> \in Seq(Leads)
  BY CardLeads, ScrapeAssumption
<1>3. (IF aborted THEN <<>> ELSE all) \in Seq(Leads)
  BY <1>2
<1>4. \E leads \in Seq(Leads) :
         batch' = batch \o leads /\ made' = made \o KeysOf(leads)
  BY <1>1, <1>3, Zenon DEF JustDialCards
<1> QED
  BY <1>1, <1>4 DEF JustDialCards

LEMMA StreamStepAccounts ==
    ASSUME ScrapeInv, StreamStep
    PROVE  StreamAccounted'
<1>1. /\ batch \in Seq(Leads) /\ delivered \in Seq(Leads)
      /\ KeysOf(batch) \in Seq(Keys) /\ KeysOf(delivered) \in Seq(Keys)
      /\ made = KeysOf(delivered) \o KeysOf(batch)
  BY Joined, KeysType DEF ScrapeInv
<1>2. ASSUME NEW leads \in Seq(Leads), batch' = batch \o leads,
             made' = made \o KeysOf(leads), UNCHANGED delivered
      PROVE  StreamAccounted'
  <2>1. KeysOf(leads) \in Seq(Keys)
    BY KeysType
  <2>2. made' = KeysOf(delivered) \o (KeysOf(batch) \o KeysOf(leads))
    BY <1>1, <1>2, <2>1, ConcatAssociative
  <2>3. KeysOf(batch \o leads) = KeysOf(batch) \o KeysOf(leads)
    BY <1>1, KeysConcat
  <2>4. batch \o leads \in Seq(Leads)
    BY <1>1
  <2>5. KeysOf(delivered \o (batch \o leads)) = KeysOf(delivered) \o KeysOf(batch \o leads)
    BY <1>1, <2>4, KeysConcat
  <2> QED
    BY <1>2, <2>2, <2>3, <2>5 DEF StreamAccounted
<1>3. CASE Collect
  <2>1. lead \in Leads /\ made \in Seq(Keys) /\ lead.key \in Keys
    BY <1>3 DEF ScrapeInv, Control, TypeOK, LeadInHand, InHand, Collect, Leads
  <2>2. <<lead>> \in Seq(Leads) /\ Append(batch, lead) = batch \o <<lead>>
    BY <1>1, <2>1
  <2>3. Append(made, lead.key) = made \o <<lead.key>>
    BY <2>1
  <2>4. KeysOf(<<lead>>) = <<lead.key>>
    BY <2>1, KeysOfOne
  <2>5. /\ batch' = Append(batch, lead) /\ made' = Append(made, lead.key)
        /\ UNCHANGED delivered
    BY <1>3 DEF Collect
  <2> QED
    BY <1>2, <2>2, <2>3, <2>4, <2>5
<1>4. CASE JustDialHTML
  BY <1>2, <1>4, CardsJoin DEF ScrapeInv
<1>5. CASE JustDialEnriched
  <2>1. batch' \in Seq(Leads) /\ KeysOf(batch') = KeysOf(batch)
    BY <1>1, <1>5, EnrichedBatch, KeysSame DEF ScrapeInv
  <2>2. UNCHANGED <<made, delivered>>
    BY <1>5 DEF JustDialEnriched
  <2>3. KeysOf(delivered \o batch') = KeysOf(delivered) \o KeysOf(batch')
    BY <1>1, <2>1, KeysConcat
  <2> QED
    BY <1>1, <2>1, <2>2, <2>3 DEF StreamAccounted
<1>6. ASSUME batch' = <<>>, delivered' = delivered \o batch, UNCHANGED made
      PROVE  StreamAccounted'
  <2>1. delivered' \in Seq(Leads)
    BY <1>1, <1>6
  <2>2. delivered' \o batch' = delivered'
    BY <1>6, <2>1
  <2> QED
    BY <1>6, <2>2 DEF ScrapeInv, StreamAccounted
<1>7. CASE Consume
  <2>1. CASE UNCHANGED <<batch, delivered>>
    BY <1>7, <2>1 DEF ScrapeInv, StreamAccounted, Consume
  <2>2. CASE batch' = <<>> /\ delivered' = delivered \o batch
    BY <1>6, <1>7, <2>2 DEF Consume
  <2> QED
    BY <1>7, <2>1, <2>2, Zenon DEF Consume
<1>8. CASE Pushed
  BY <1>6, <1>8 DEF Pushed
<1> QED
  BY <1>3, <1>4, <1>5, <1>7, <1>8 DEF StreamStep

LEMMA NextAccounts ==
    ASSUME ScrapeInv, Next
    PROVE  StreamAccounted'
<1>1. CASE Quiet
  BY <1>1 DEF ScrapeInv, StreamAccounted, Quiet
<1>2. CASE Ending
  BY <1>2 DEF ScrapeInv, StreamAccounted, Ending, Failure, Throws, Fails, MapsThrows,
     Ends, Abort, stream
<1> QED
  BY <1>1, <1>2, StepKinds, StreamStepAccounts

LEMMA ScrapeInvariant == Spec => []ScrapeInv
<1>1. Init => ScrapeInv
  <2> SUFFICES ASSUME Init
               PROVE  ScrapeInv
    OBVIOUS
  <2>1. <<>> \o <<>> = <<>> /\ KeysOf(<<>>) = <<>>
    BY DEF KeysOf
  <2> QED
    BY <2>1, InitControl DEF ScrapeInv, StreamAccounted, Init
<1>2. ScrapeInv /\ [Next]_vars => ScrapeInv'
  <2> SUFFICES ASSUME ScrapeInv, [Next]_vars
               PROVE  ScrapeInv'
    OBVIOUS
  <2>1. CASE Next
    BY <2>1, StepControl, NextAccounts DEF ScrapeInv
  <2>2. CASE UNCHANGED vars
    BY <2>2, StutterControl DEF ScrapeInv, StreamAccounted, vars, stream
  <2> QED
    BY <2>1, <2>2
<1> QED
  BY <1>1, <1>2, PTL DEF Spec

(* Between a page and the runner no lead is lost, repeated or reordered,   *)
(* whatever the pages hold and however large the batches are.              *)
THEOREM Accounted == Spec => []StreamAccounted
<1>1. ScrapeInv => StreamAccounted
  BY DEF ScrapeInv
<1> QED
  BY <1>1, ScrapeInvariant, PTL

-----------------------------------------------------------------------------
(* The generators and their consumer implement LeadStream                  *)

(* What the stream of LeadStream sees of a step that only adds leads.      *)
LEMMA FindStep ==
    ASSUME ScrapeInv, NEW new \in Seq(Keys), made' = made \o new,
           UNCHANGED <<delivered, aborted, outcome>>, outcome = "running",
           pc # "rpush", pc' # "rpush"
    PROVE  Stream!Find
<1>1. made \in Seq(Keys)
  BY DEF ScrapeInv, Control, TypeOK
<1>2. made' \in Seq(Keys) /\ Len(made') >= Len(made)
  BY <1>1, ConcatProperties
<1>3. \A i \in 1..Len(made) : made'[i] = made[i]
  BY <1>1, ConcatProperties
<1> QED
  BY <1>2, <1>3 DEF Stream!Find

LEMMA MadeIsHandedOver ==
    ASSUME ScrapeInv, delivered' = delivered \o batch
    PROVE  KeysOf(delivered') = made
BY DEF ScrapeInv, StreamAccounted

LEMMA RunningUntilClosed ==
    ASSUME ScrapeInv, pc \notin {"close", "done"}
    PROVE  outcome = "running"
BY DEF ScrapeInv, Control, OutcomeSet

LEMMA StreamStepImplements ==
    ASSUME ScrapeInv, StreamStep
    PROVE  Stream!StreamNext \/ UNCHANGED Stream!streamVars
<1>1. CASE Collect
  <2>1. /\ lead \in Leads /\ lead.key \in Keys /\ made \in Seq(Keys)
        /\ made' = Append(made, lead.key) /\ pc = "collect"
        /\ UNCHANGED <<delivered, aborted, outcome>>
    BY <1>1 DEF ScrapeInv, Control, TypeOK, LeadInHand, InHand, Collect, Leads
  <2>2. made' = made \o <<lead.key>> /\ <<lead.key>> \in Seq(Keys)
    BY <2>1
  <2>3. pc' # "rpush"
    BY <1>1 DEF Collect
  <2> QED
    BY <2>1, <2>2, <2>3, FindStep, RunningUntilClosed DEF Stream!StreamNext
<1>2. CASE JustDialHTML
  <2>1. PICK leads \in Seq(Leads) : made' = made \o KeysOf(leads)
    BY <1>2, CardsJoin DEF ScrapeInv
  <2>2. KeysOf(leads) \in Seq(Keys)
    BY KeysType
  <2> QED
    BY <1>2, <2>1, <2>2, CardsJoin, FindStep, RunningUntilClosed
       DEF Stream!StreamNext, ScrapeInv
<1>3. CASE JustDialEnriched
  BY <1>3 DEF JustDialEnriched, Stream!streamVars
<1>4. CASE Consume
  <2>1. /\ pc = "yield" /\ outcome = "running" /\ resume # "rpush"
        /\ UNCHANGED <<made, aborted, outcome>>
    BY <1>4, RunningUntilClosed DEF Consume, ScrapeInv, Control, TypeOK
  <2>2. CASE aborted /\ pc' = "close" /\ UNCHANGED <<batch, delivered>>
    BY <2>1, <2>2 DEF Stream!streamVars
  <2>3. CASE ~aborted /\ pc' = "rpush" /\ UNCHANGED <<batch, delivered>>
    BY <2>1, <2>3 DEF Stream!StreamNext, Stream!Offer
  <2>4. CASE ~aborted /\ pc' = resume /\ delivered' = delivered \o batch
    BY <2>1, <2>4, MadeIsHandedOver DEF Stream!StreamNext, Stream!Discard
  <2> QED
    BY <1>4, <2>2, <2>3, <2>4, Zenon DEF Consume
<1>5. CASE Pushed
  <2>1. /\ pc = "rpush" /\ outcome = "running" /\ pc' = resume /\ resume # "rpush"
        /\ delivered' = delivered \o batch /\ UNCHANGED <<made, aborted, outcome>>
    BY <1>5, RunningUntilClosed DEF Pushed, ScrapeInv, Control, TypeOK
  <2> QED
    BY <2>1, MadeIsHandedOver DEF Stream!StreamNext, Stream!Accept
<1> QED
  BY <1>1, <1>2, <1>3, <1>4, <1>5 DEF StreamStep

LEMMA EndingImplements ==
    ASSUME ScrapeInv, Ending
    PROVE  Stream!StreamNext \/ UNCHANGED Stream!streamVars
<1>1. CASE Failure
  <2>1. /\ pc \in {"rpush", "fetch"} /\ pc' = "close" /\ outcome' = "failed"
        /\ UNCHANGED <<made, delivered, aborted>>
    BY <1>1 DEF Failure, Fails, stream
  <2> QED
    BY <2>1, RunningUntilClosed DEF Stream!StreamNext, Stream!Fail
<1>2. CASE Throws
  <2>1. /\ pc \in {"launch", "fetch", "scroll"} /\ pc' = "close"
        /\ outcome' = IF aborted THEN outcome ELSE "failed"
        /\ UNCHANGED <<made, delivered, aborted>>
    BY <1>2 DEF Throws, MapsThrows, stream
  <2>2. CASE aborted
    BY <2>1, <2>2 DEF Stream!streamVars
  <2>3. CASE ~aborted
    BY <2>1, <2>3, RunningUntilClosed DEF Stream!StreamNext, Stream!Fail
  <2> QED
    BY <2>2, <2>3
<1>3. CASE Ends
  <2>1. /\ pc = "close" /\ pc' = "done" /\ outcome \in {"running", "failed"}
        /\ UNCHANGED <<batch, made, delivered, aborted>>
    BY <1>3 DEF Ends, stream, ScrapeInv, Control, OutcomeSet
  <2>2. CASE outcome = "failed"
    BY <1>3, <2>1, <2>2 DEF Ends, Stream!streamVars
  <2>3. CASE outcome = "running" /\ aborted
    BY <1>3, <2>1, <2>3 DEF Ends, Stream!StreamNext, Stream!Stop
  <2>4. CASE outcome = "running" /\ ~aborted
    <3>1. batch = <<>> /\ delivered \in Seq(Leads)
      BY <2>1, <2>4 DEF ScrapeInv, Control, OutcomeSet, TypeOK
    <3>2. KeysOf(delivered) = made
      BY <3>1 DEF ScrapeInv, StreamAccounted
    <3> QED
      BY <1>3, <2>1, <2>4, <3>2 DEF Ends, Stream!StreamNext, Stream!Stop
  <2> QED
    BY <2>1, <2>2, <2>3, <2>4
<1>4. CASE Abort
  BY <1>4 DEF Abort, stream, Stream!StreamNext, Stream!Cancel
<1> QED
  BY <1>1, <1>2, <1>3, <1>4 DEF Ending

(* The ten generators and the runner keep the promise of LeadStream: each  *)
(* lead is handed over once, in order, with everything found before it; no *)
(* hand-over begins after a kill or a timeout; a completed job leaves      *)
(* nothing behind.                                                         *)
THEOREM ImplementsStream == Spec => IsStream
<1>1. Init => Stream!StreamInit
  <2> SUFFICES ASSUME Init
               PROVE  Stream!StreamInit
    OBVIOUS
  <2>1. KeysOf(<<>>) = <<>>
    BY DEF KeysOf
  <2>2. pc # "rpush"
    BY ScrapeAssumption DEF Init, Start
  <2> QED
    BY <2>1, <2>2 DEF Init, Stream!StreamInit
<1>2. ScrapeInv /\ [Next]_vars => [Stream!StreamNext]_(Stream!streamVars)
  <2> SUFFICES ASSUME ScrapeInv, [Next]_vars
               PROVE  Stream!StreamNext \/ UNCHANGED Stream!streamVars
    OBVIOUS
  <2>1. CASE Quiet
    BY <2>1 DEF Quiet, Stream!streamVars
  <2>2. CASE UNCHANGED vars
    BY <2>2 DEF vars, stream, Stream!streamVars
  <2> QED
    BY <2>1, <2>2, StepKinds, StreamStepImplements, EndingImplements
<1> QED
  BY <1>1, <1>2, ScrapeInvariant, PTL DEF Spec, IsStream, Stream!StreamSpec

-----------------------------------------------------------------------------
(* One lead of each key                                                    *)

Deduplicated == {"google_maps", "google_dorks", "reddit", "web_crawler"}

(* The keys made are in seen, and the key in hand is not among them.       *)
KeysInSeen ==
    source \in Deduplicated =>
       /\ \A i \in 1..Len(made) : made[i] \in seen
       /\ \A i, j \in 1..Len(made) : made[i] = made[j] => i = j
       /\ pc \in InHand =>
             lead.key \in seen /\ \A i \in 1..Len(made) : made[i] # lead.key

(* A step that makes no lead: the lead in hand stays or is a new one.      *)
KeyStep ==
    /\ UNCHANGED <<source, made>> /\ seen \subseteq seen'
    /\ pc' \in InHand =>
          \/ pc \in InHand /\ lead'.key = lead.key
          \/ lead'.key \in seen' \ seen

(* The steps shared by the deduplicated sources.                           *)
LEMMA SharedKeySteps ==
    ASSUME Control, NEW exit \in PCs \ InHand
    PROVE  /\ TurnPage(exit) => KeyStep
           /\ FetchPage(exit) => KeyStep
           /\ LeaveItems(exit) => KeyStep
           /\ \A at \in {"fetch", "csv"} : RequestFails(at, exit) => KeyStep
           /\ \A items \in Pages : PageHolds(items, "items", exit) => KeyStep
           /\ NextQuery => KeyStep
           /\ \A at \in {"visit", "crawl"} : SiteLost(at) => KeyStep
BY DEF KeyStep, PCs, InHand, TurnPage, FetchPage, RequestFails, PageHolds,
   LeaveItems, NextQuery, SiteLost, job, scan, stream, work

LEMMA SiteKeySteps ==
    ASSUME Control, NEW next \in {"tech", "ssl", "collect"}
    PROVE  /\ \A contact \in BOOLEAN : SiteAnswers(contact, next) => KeyStep
           /\ SiteFails(next) => KeyStep
           /\ TechAndSSL(next) => KeyStep
<1>1. pc \in InHand => lead \in Leads
  BY DEF Control, LeadInHand
<1>2. ASSUME NEW contact \in BOOLEAN, SiteAnswers(contact, next)
      PROVE  KeyStep
  BY <1>1, <1>2 DEF KeyStep, InHand, SiteAnswers, Leads, job, scan, stream
<1>3. SiteFails(next) => KeyStep
  BY <1>1 DEF KeyStep, InHand, SiteFails, Leads, job, scan, stream
<1>4. TechAndSSL(next) => KeyStep
  BY DEF KeyStep, InHand, TechAndSSL, TechStack, HasSSL, job, scan, stream, work
<1> QED
  BY <1>2, <1>3, <1>4

LEMMA ItemKeySteps ==
    ASSUME Control, NEW skip, NEW new \in Leads, new.key = Item.key,
           NEW next \in {"visit", "collect", "crawl"}
    PROVE  /\ SkipItem(skip) => KeyStep
           /\ TakeItem(skip /\ Item.key \notin seen, new, next)
              /\ seen' = seen \cup {Item.key} => KeyStep
BY DEF KeyStep, InHand, SkipItem, TakeItem, job, scan, stream, work

LEMMA GoogleMapsKeys ==
    ASSUME Control, GoogleMaps
    PROVE  KeyStep \/ Collect
<1>1. MapsLaunch \/ MapsError => KeyStep
  BY DEF MapsLaunch, MapsError, MapsThrows, KeyStep, InHand, job, scan, stream, work
<1>2. MapsResults \/ MapsScroll => KeyStep
  BY DEF MapsResults, MapsScroll, KeyStep, InHand, job, stream, work
<1>3. ASSUME TakeItem(Item.usable /\ Item.key \notin seen, LeadOf(Item),
                      IF Item.site = "none" THEN "collect" ELSE "visit"),
             seen' = seen \cup {Item.key}
      PROVE  KeyStep
  <2>1. Item \in Items
    BY <1>3, HeadOfRest DEF TakeItem
  <2> QED
    BY <1>3, <2>1, LeadOfType, ItemKeySteps
<1>4. CASE \E skip \in BOOLEAN : SkipItem(skip)
  BY <1>4 DEF SkipItem, KeyStep, InHand, job, stream, work
<1>5. MapsItem => KeyStep \/ Collect
  BY <1>3 DEF MapsItem, SkipItem, KeyStep, InHand, job, stream, work
<1>6. MapsSite => KeyStep
  BY SiteKeySteps DEF MapsSite, TechAndSSL
<1> QED
  BY <1>1, <1>2, <1>5, <1>6 DEF GoogleMaps

LEMMA GoogleDorksKeys ==
    ASSUME Control, GoogleDorks
    PROVE  KeyStep \/ Collect
<1>1. {"page", "items", "query"} \subseteq PCs \ InHand
  BY DEF PCs, InHand
<1>2. DorksPage => KeyStep
  BY <1>1, SharedKeySteps DEF DorksPage
<1>3. ASSUME TakeItem(UsableLink /\ Item.key \notin seen, SiteLead(Item), "visit"),
             seen' = seen \cup {Item.key}
      PROVE  KeyStep
  <2>1. Item \in Items
    BY <1>3, HeadOfRest DEF TakeItem
  <2>2. SiteLead(Item) \in Leads /\ SiteLead(Item).key = Item.key
    BY <2>1, SiteLeadType DEF SiteLead, LeadOf
  <2> QED
    BY <1>3, <2>2, ItemKeySteps
<1>4. DorksItem => KeyStep \/ Collect
  BY <1>1, <1>3, SharedKeySteps DEF DorksItem, SkipItem, KeyStep, InHand, job, stream, work
<1>5. DorksSite => KeyStep
  BY <1>1, SharedKeySteps, SiteKeySteps DEF DorksSite
<1> QED
  BY <1>2, <1>4, <1>5 DEF GoogleDorks

LEMMA RedditKeys ==
    ASSUME Control, Reddit
    PROVE  KeyStep \/ Collect
<1>1. {"page", "items", "query"} \subseteq PCs \ InHand
  BY DEF PCs, InHand
<1>2. Fails("fetch") => KeyStep
  BY DEF Fails, KeyStep, InHand, job, scan, stream, work
<1>3. RedditPage => KeyStep
  BY <1>1, <1>2, SharedKeySteps DEF RedditPage
<1>4. ASSUME TakeItem(Item.key \notin seen, LeadOf(Item), "collect"),
             seen' = seen \cup {Item.key}
      PROVE  KeyStep
  <2>1. Item \in Items
    BY <1>4, HeadOfRest DEF TakeItem
  <2>2. LeadOf(Item) \in Leads /\ LeadOf(Item).key = Item.key
    BY <2>1, LeadOfType
  <2> QED
    BY <1>4, <2>2 DEF TakeItem, KeyStep, InHand, job, stream
<1>5. RedditPost => KeyStep \/ Collect
  BY <1>1, <1>4, SharedKeySteps DEF RedditPost, SkipItem, KeyStep, InHand, job, stream, work
<1> QED
  BY <1>3, <1>5 DEF Reddit

LEMMA WebCrawlerKeys ==
    ASSUME Control, WebCrawler
    PROVE  KeyStep \/ Collect
<1>1. {"flush", "items"} \subseteq PCs \ InHand
  BY DEF PCs, InHand
<1>2. WebCrawlerSeed \/ WebCrawlerLink => KeyStep
  BY DEF WebCrawlerSeed, WebCrawlerLink, KeyStep, InHand, job, stream, work
<1>3. CASE WebCrawlerSite
  <2>1. ASSUME rest # <<>>
        PROVE  SiteLead(Item).key = Item.key
    BY <2>1, HeadOfRest DEF SiteLead, LeadOf
  <2>2. CASE LeaveItems("flush")
    BY <1>1, <2>2, SharedKeySteps
  <2>3. CASE /\ pc = "items" /\ ~aborted /\ rest # <<>>
             /\ rest' = Tail(rest) /\ seen' = seen \cup {Item.key}
             /\ IF Item.key \in seen
                THEN UNCHANGED <<pc, lead>>
                ELSE IF Cardinality(seen) >= MaxSites
                THEN pc' = "flush" /\ UNCHANGED lead
                ELSE pc' = "crawl" /\ lead' = SiteLead(Item)
             /\ UNCHANGED <<job, aborted, resume, outcome, round, page, found, more,
                            enriched, stream, late>>
    <3>1. UNCHANGED <<source, made>> /\ seen \subseteq seen'
      BY <2>3 DEF job, stream
    <3>2. CASE Item.key \in seen
      BY <2>3, <3>1, <3>2 DEF KeyStep, InHand
    <3>3. CASE Item.key \notin seen /\ pc' = "flush"
      BY <3>1, <3>3 DEF KeyStep, InHand
    <3>4. CASE Item.key \notin seen /\ lead' = SiteLead(Item)
      BY <2>1, <2>3, <3>1, <3>4 DEF KeyStep
    <3> QED
      BY <2>3, <3>2, <3>3, <3>4
  <2> QED
    BY <1>3, <2>2, <2>3 DEF WebCrawlerSite
<1>4. CASE WebCrawlerCrawl
  <2>1. lead \in Leads \/ pc # "crawl"
    BY DEF Control, LeadInHand, InHand
  <2>2. CrawlFinds => KeyStep
    BY <2>1 DEF CrawlFinds, KeyStep, InHand, Leads, job, scan, stream
  <2> QED
    BY <1>1, <1>4, <2>2, SharedKeySteps, SiteKeySteps DEF WebCrawlerCrawl, CrawlSite
<1> QED
  BY <1>2, <1>3, <1>4 DEF WebCrawler

LEMMA ConsumerKeys ==
    ASSUME Control, Consumer \/ Abort
    PROVE  KeyStep
<1>1. resume \notin InHand
  BY DEF Control, TypeOK, InHand
<1>2. Flush \/ Pushed \/ PushFails \/ Ends => KeyStep
  BY <1>1 DEF Flush, Pushed, PushFails, Fails, Ends, KeyStep, InHand, job, scan, stream, work
<1>3. CASE Consume
  <2>1. pc' \notin InHand
    BY <1>1, <1>3 DEF Consume, InHand
  <2>2. UNCHANGED <<source, made, seen>>
    BY <1>3 DEF Consume, job, scan
  <2> QED
    BY <2>1, <2>2 DEF KeyStep
<1>4. Abort => KeyStep
  BY DEF Abort, KeyStep, job, scan, stream, work
<1> QED
  BY <1>2, <1>3, <1>4 DEF Consumer

LEMMA DeduplicatedSteps ==
    ASSUME Control, Next, source \in Deduplicated
    PROVE  KeyStep \/ Collect
<1>1. ~Yelp /\ ~YellowPages /\ ~LinkedIn
  BY DEF Deduplicated, Yelp, YelpPage, YelpItem, YelpSite, YellowPages,
     YellowPagesPage, YellowPagesItem, YellowPagesSite, LinkedIn, LinkedInPage,
     LinkedInItem, LinkedInProfile, LinkedInSite
<1>2. ~JustDial
  BY DEF Deduplicated, JustDial, JustDialPage, JustDialScript, JustDialItem,
     JustDialProbe, JustDialCollect, JustDialHTML, JustDialCards, JustDialFinal,
     JustDialSite, JustDialEnriched
<1>3. ~NewDomains /\ ~CustomUrls
  BY DEF Deduplicated, NewDomains, NewDomainsCSV, NewDomainsItem, NewDomainsSite,
     CustomUrls, CustomUrlsItem, CustomUrlsSite
<1> QED
  BY <1>1, <1>2, <1>3, GoogleMapsKeys, GoogleDorksKeys, RedditKeys, WebCrawlerKeys,
     ConsumerKeys DEF Next, Step

LEMMA SourceKept ==
    ASSUME Next
    PROVE  UNCHANGED source
<1>1. StreamStep => UNCHANGED job
  BY DEF StreamStep, Collect, JustDialHTML, JustDialCards, JustDialEnriched, Consume,
     Pushed
<1>2. Ending => UNCHANGED job
  BY DEF Ending, Failure, Throws, Fails, MapsThrows, Ends, Abort
<1> QED
  BY <1>1, <1>2, StepKinds DEF Quiet, job

LEMMA NextKeepsKeys ==
    ASSUME Control, KeysInSeen, Next
    PROVE  KeysInSeen'
<1> SUFFICES ASSUME source \in Deduplicated, source' = source
             PROVE  KeysInSeen'
  BY SourceKept DEF KeysInSeen
<1>1. made \in Seq(Keys)
  BY DEF Control, TypeOK
<1>2. CASE KeyStep
  BY <1>1, <1>2 DEF KeysInSeen, KeyStep
<1>3. CASE Collect
  <2>1. /\ made' = Append(made, lead.key) /\ seen' = seen /\ lead.key \in Keys
        /\ pc = "collect" /\ pc' \notin InHand
    BY <1>3 DEF Collect, scan, InHand, Control, LeadInHand, Leads
  <2>2. /\ Len(made') = Len(made) + 1 /\ made'[Len(made')] = lead.key
        /\ \A i \in 1..Len(made) : made'[i] = made[i]
    BY <1>1, <2>1
  <2>3. lead.key \in seen /\ \A i \in 1..Len(made) : made[i] # lead.key
    BY <2>1 DEF KeysInSeen, InHand
  <2>4. \A i \in 1..Len(made') : made'[i] \in seen'
    BY <1>1, <2>1, <2>2, <2>3 DEF KeysInSeen
  <2>5. \A i, j \in 1..Len(made') : made'[i] = made'[j] => i = j
    BY <1>1, <2>1, <2>2, <2>3 DEF KeysInSeen
  <2> QED
    BY <2>1, <2>4, <2>5 DEF KeysInSeen
<1> QED
  BY <1>2, <1>3, DeduplicatedSteps

(* Google Maps' names, Google's domains, Reddit's permalinks and the       *)
(* crawler's domains make one lead each, however often a result comes      *)
(* again on another page, query or seed.                                   *)
THEOREM KeysOnce == Spec => []OneLeadPerKey
<1>1. Init => KeysInSeen
  BY DEF Init, KeysInSeen, InHand, Start
<1>2. Control /\ KeysInSeen /\ [Next]_vars => KeysInSeen'
  <2> SUFFICES ASSUME Control, KeysInSeen, [Next]_vars
               PROVE  KeysInSeen'
    OBVIOUS
  <2>1. CASE UNCHANGED vars
    BY <2>1 DEF KeysInSeen, InHand, vars, job, scan, work, stream
  <2> QED
    BY <2>1, NextKeepsKeys
<1>3. KeysInSeen => OneLeadPerKey
  BY DEF KeysInSeen, OneLeadPerKey, Deduplicated
<1> QED
  BY <1>1, <1>2, <1>3, ControlHolds, PTL DEF Spec

-----------------------------------------------------------------------------
(* No lead without the visit of its website                                *)

Visiting == source \notin {"reddit", "justdial"}

Visited == {"tech", "ssl", "collect"}

AllTried(leads) == \A i \in 1..Len(leads) : leads[i].tried

(* The website of every lead collected, and of the one about to be.        *)
TriedFirst ==
    Visiting =>
       /\ AllTried(delivered) /\ AllTried(batch)
       /\ pc \in Visited => lead.tried

(* A step that collects nothing.                                           *)
VisitStep ==
    /\ UNCHANGED <<batch, delivered>>
    /\ pc' \in Visited => lead'.tried \/ (pc \in Visited /\ lead' = lead)

LEMMA SharedVisitSteps ==
    ASSUME NEW exit \in PCs \ Visited
    PROVE  /\ TurnPage(exit) => VisitStep
           /\ FetchPage(exit) => VisitStep
           /\ LeaveItems(exit) => VisitStep
           /\ NextQuery => VisitStep
           /\ \A at \in {"fetch", "csv"} : RequestFails(at, exit) => VisitStep
           /\ \A at \in {"visit", "crawl"} : SiteLost(at) => VisitStep
BY DEF VisitStep, PCs, Visited, TurnPage, FetchPage, RequestFails, PageHolds,
   LeaveItems, NextQuery, SiteLost, stream

LEMMA SkipVisitStep ==
    ASSUME NEW skip, SkipItem(skip)
    PROVE  VisitStep
BY DEF VisitStep, Visited, SkipItem, stream

(* A lead goes to its visit or has nothing to visit.                       *)
LEMMA TakeVisitStep ==
    ASSUME NEW take, NEW new, NEW next, TakeItem(take, new, next),
           next \in {"visit", "profile", "crawl"} \/ new.tried
    PROVE  VisitStep
BY DEF VisitStep, Visited, TakeItem, stream

LEMMA SiteVisitSteps ==
    ASSUME Control, NEW next \in Visited
    PROVE  /\ \A contact \in BOOLEAN : SiteAnswers(contact, next) => VisitStep
           /\ SiteFails(next) => VisitStep
           /\ TechAndSSL(next) => VisitStep
           /\ VisitSite("collect") => VisitStep
<1>1. pc \in {"visit", "tech", "ssl"} => lead \in Leads
  BY DEF Control, LeadInHand, InHand
<1>2. ASSUME NEW contact \in BOOLEAN, NEW after, SiteAnswers(contact, after)
      PROVE  VisitStep
  BY <1>1, <1>2 DEF VisitStep, SiteAnswers, Leads, stream
<1>3. ASSUME NEW after, SiteFails(after)
      PROVE  VisitStep
  BY <1>1, <1>3 DEF VisitStep, SiteFails, Leads, stream
<1>4. ASSUME NEW after, TechAndSSL(after)
      PROVE  VisitStep
  BY <1>4 DEF VisitStep, Visited, TechAndSSL, TechStack, HasSSL, stream, work
<1>5. VisitSite("collect") => VisitStep
  BY <1>2, <1>3, <1>4 DEF VisitSite
<1> QED
  BY <1>2, <1>3, <1>4, <1>5

LEMMA TakeListingVisits ==
    ASSUME Control, TakeListing
    PROVE  VisitStep
<1>1. Item \in Items
  BY HeadOfRest DEF TakeListing, TakeItem
<1>2. Item.site = "none" => LeadOf(Item).tried
  BY <1>1 DEF LeadOf
<1> QED
  BY <1>2, TakeVisitStep DEF TakeListing

LEMMA ListingVisits ==
    ASSUME Control, Yelp \/ YellowPages \/ LinkedIn
    PROVE  VisitStep \/ Collect
<1>1. {"page", "flush"} \subseteq PCs \ Visited /\ "collect" \in Visited
  BY DEF PCs, Visited
<1>2. ListingItem => VisitStep
  BY <1>1, SharedVisitSteps, SkipVisitStep, TakeListingVisits DEF ListingItem
<1>3. CASE Yelp \/ YellowPages
  BY <1>1, <1>2, <1>3, SharedVisitSteps, SiteVisitSteps
     DEF Yelp, YelpPage, YelpItem, YelpSite, YellowPages, YellowPagesPage,
         YellowPagesItem, YellowPagesSite
<1>4. CASE LinkedInProfile
  <2>1. pc = "profile" => lead \in Leads
    BY DEF Control, LeadInHand, InHand
  <2> QED
    BY <1>4, <2>1 DEF LinkedInProfile, ProfileAnswers, ProfileFails, VisitStep,
       Visited, Leads, stream
<1>5. CASE LinkedInItem
  BY <1>1, <1>5, SharedVisitSteps, SkipVisitStep, TakeVisitStep DEF LinkedInItem
<1> QED
  BY <1>1, <1>3, <1>4, <1>5, SharedVisitSteps, SiteVisitSteps
     DEF LinkedIn, LinkedInPage, LinkedInSite

LEMMA SearchVisits ==
    ASSUME Control, GoogleMaps \/ GoogleDorks
    PROVE  VisitStep \/ Collect
<1>1. {"page", "flush", "query"} \subseteq PCs \ Visited
      /\ {"collect", "tech", "ssl"} \subseteq Visited
  BY DEF PCs, Visited
<1>2. MapsLaunch \/ MapsError \/ MapsResults \/ MapsScroll => VisitStep
  BY DEF MapsLaunch, MapsError, MapsThrows, MapsResults, MapsScroll, VisitStep,
     Visited, stream
<1>3. ASSUME TakeItem(Item.usable /\ Item.key \notin seen, LeadOf(Item),
                      IF Item.site = "none" THEN "collect" ELSE "visit")
      PROVE  VisitStep
  <2>1. Item \in Items
    BY <1>3, HeadOfRest DEF TakeItem
  <2>2. Item.site = "none" => LeadOf(Item).tried
    BY <2>1 DEF LeadOf
  <2> QED
    BY <1>3, <2>2, TakeVisitStep
<1>4. MapsItem => VisitStep \/ Collect
  BY <1>3, SkipVisitStep DEF MapsItem
<1>5. MapsSite => VisitStep
  BY <1>1, SiteVisitSteps DEF MapsSite, TechAndSSL
<1>6. CASE GoogleMaps
  BY <1>2, <1>4, <1>5, <1>6 DEF GoogleMaps
<1>7. CASE GoogleDorks
  BY <1>1, <1>7, SharedVisitSteps, SkipVisitStep, TakeVisitStep, SiteVisitSteps
     DEF GoogleDorks, DorksPage, DorksItem, DorksSite
<1> QED
  BY <1>6, <1>7

LEMMA CrawlVisits ==
    ASSUME Control, NewDomains \/ CustomUrls \/ WebCrawler
    PROVE  VisitStep \/ Collect
<1>1. {"flush", "close"} \subseteq PCs \ Visited
      /\ {"collect", "tech", "ssl"} \subseteq Visited
  BY DEF PCs, Visited
<1>2. NewDomainsCSV => VisitStep
  BY <1>1, SharedVisitSteps DEF NewDomainsCSV, VisitStep, Visited, stream
<1>3. CASE NewDomains
  BY <1>1, <1>2, <1>3, SharedVisitSteps, SkipVisitStep, TakeVisitStep, SiteVisitSteps
     DEF NewDomains, NewDomainsItem, NewDomainsSite, TechAndSSL
<1>4. CrawlFinds => VisitStep
  <2>1. pc = "crawl" => lead \in Leads
    BY DEF Control, LeadInHand, InHand
  <2> QED
    BY <2>1 DEF CrawlFinds, VisitStep, Leads, stream
<1>5. CrawlSite => VisitStep
  BY <1>1, <1>4, SharedVisitSteps, SiteVisitSteps DEF CrawlSite
<1>6. CASE CustomUrls
  BY <1>1, <1>5, <1>6, SharedVisitSteps, SkipVisitStep, TakeVisitStep
     DEF CustomUrls, CustomUrlsItem, CustomUrlsSite
<1>7. WebCrawlerSeed \/ WebCrawlerLink => VisitStep
  BY DEF WebCrawlerSeed, WebCrawlerLink, VisitStep, Visited, stream
<1>8. WebCrawlerSite => VisitStep \/ Collect
  BY <1>1, SharedVisitSteps DEF WebCrawlerSite, VisitStep, Visited, stream
<1>9. CASE WebCrawler
  BY <1>5, <1>7, <1>8, <1>9 DEF WebCrawler, WebCrawlerCrawl
<1> QED
  BY <1>3, <1>6, <1>9

LEMMA VisitingSteps ==
    ASSUME Control, Next, Visiting
    PROVE  VisitStep \/ Collect \/ Consume \/ Pushed
<1>1. ~JustDial
  BY DEF Visiting, JustDial, JustDialPage, JustDialScript, JustDialItem,
     JustDialProbe, JustDialCollect, JustDialHTML, JustDialCards, JustDialFinal,
     JustDialSite, JustDialEnriched
<1>2. ~Reddit
  BY DEF Visiting, Reddit, RedditPage, RedditPost
<1>3. Flush \/ PushFails \/ Ends \/ Abort => VisitStep
  BY DEF Flush, PushFails, Fails, Ends, Abort, VisitStep, Visited, stream, work
<1> QED
  BY <1>1, <1>2, <1>3, ListingVisits, SearchVisits, CrawlVisits
     DEF Next, Step, Consumer

(* Handing over a batch of leads that were tried.                          *)
LEMMA HandOverTried ==
    ASSUME Control, AllTried(delivered), AllTried(batch)
    PROVE  AllTried(delivered \o batch)
<1>1. delivered \in Seq(Leads) /\ batch \in Seq(Leads)
  BY DEF Control, TypeOK
<1>2. /\ Len(delivered \o batch) = Len(delivered) + Len(batch)
      /\ \A i \in 1..Len(delivered) + Len(batch) : (delivered \o batch)[i] =
            IF i <= Len(delivered) THEN delivered[i] ELSE batch[i - Len(delivered)]
  BY <1>1, ConcatProperties
<1> QED
  BY <1>1, <1>2 DEF AllTried

LEMMA NextTriesFirst ==
    ASSUME Control, TriedFirst, Next
    PROVE  TriedFirst'
<1> SUFFICES ASSUME Visiting, Visiting'
             PROVE  TriedFirst'
  BY SourceKept DEF TriedFirst, Visiting
<1>1. AllTried(delivered) /\ AllTried(batch) /\ (pc \in Visited => lead.tried)
  BY DEF TriedFirst
<1>2. CASE VisitStep
  BY <1>1, <1>2 DEF TriedFirst, VisitStep, AllTried
<1>3. CASE Collect
  <2>1. /\ batch \in Seq(Leads) /\ lead \in Leads /\ lead.tried
        /\ batch' = Append(batch, lead) /\ UNCHANGED delivered
        /\ pc' \notin Visited
    BY <1>1, <1>3 DEF Collect, Control, TypeOK, LeadInHand, InHand, Visited
  <2>2. /\ Len(batch') = Len(batch) + 1 /\ batch'[Len(batch')] = lead
        /\ \A i \in 1..Len(batch) : batch'[i] = batch[i]
    BY <2>1
  <2>3. AllTried(batch')
    BY <1>1, <2>1, <2>2 DEF AllTried
  <2>4. AllTried(delivered')
    BY <1>1, <2>1
  <2> QED
    BY <2>1, <2>3, <2>4 DEF TriedFirst, AllTried
<1>4. ASSUME batch' = <<>>, delivered' = delivered \o batch, pc' \notin Visited
      PROVE  TriedFirst'
  <2>1. AllTried(delivered') /\ AllTried(batch')
    BY <1>1, <1>4, HandOverTried DEF AllTried
  <2> QED
    BY <1>4, <2>1 DEF TriedFirst, AllTried
<1>5. resume \notin Visited
  BY DEF Control, TypeOK, Visited
<1>6. CASE Consume
  <2>1. CASE pc' \in {"close", "rpush"} /\ UNCHANGED <<batch, delivered>>
    BY <1>1, <2>1 DEF TriedFirst, AllTried, Visited
  <2>2. CASE batch' = <<>> /\ delivered' = delivered \o batch /\ pc' = resume
    BY <1>4, <1>5, <2>2
  <2>3. \/ pc' \in {"close", "rpush"} /\ UNCHANGED <<batch, delivered>>
        \/ batch' = <<>> /\ delivered' = delivered \o batch /\ pc' = resume
    BY <1>6, Zenon DEF Consume
  <2> QED
    BY <2>1, <2>2, <2>3
<1>7. CASE Pushed
  BY <1>4, <1>5, <1>7 DEF Pushed
<1> QED
  BY <1>2, <1>3, <1>6, <1>7, VisitingSteps

(* The filter of leads without a contact never judges a lead whose website *)
(* was not asked yet, whichever page, query or seed it came from.          *)
THEOREM VisitsComeFirst == Spec => []VisitedBeforeDelivery
<1>1. Init => TriedFirst
  BY DEF Init, TriedFirst, AllTried, Visited, Start
<1>2. Control /\ TriedFirst /\ [Next]_vars => TriedFirst'
  <2> SUFFICES ASSUME Control, TriedFirst, [Next]_vars
               PROVE  TriedFirst'
    OBVIOUS
  <2>1. CASE UNCHANGED vars
    BY <2>1 DEF TriedFirst, Visiting, AllTried, vars, job, work, stream
  <2> QED
    BY <2>1, NextTriesFirst
<1>3. TriedFirst => VisitedBeforeDelivery
  BY DEF TriedFirst, Visiting, AllTried, VisitedBeforeDelivery
<1> QED
  BY <1>1, <1>2, <1>3, ControlHolds, PTL DEF Spec

-----------------------------------------------------------------------------
(* Little begins after an abort                                            *)

(* Where nothing has begun late yet: these steps are reached before the    *)
(* abort only, or from one another.  Google Maps' items are among them,    *)
(* because each round of them ends with a scroll.                          *)
Timely ==
    {"fetch", "profile", "visit", "crawl", "tech", "rpush"}
        \cup (IF source = "google_maps" THEN {"items", "ssl", "collect"} ELSE {})

(* Where JustDial's late requests are paid for with leads in batch.        *)
Counted ==
    IF source = "justdial" THEN {"scripts", "items", "cards", "probe", "collect"} ELSE {}

InTime ==
    /\ ~aborted \/ pc \in Timely => late = 0
    /\ source # "justdial" => late <= 1
    /\ source = "justdial" =>
          /\ late <= BatchSize
          /\ pc \in {"scripts", "items", "cards"} => late <= Len(batch)
          /\ pc \in {"probe", "collect"} => late <= Len(batch) + 1

(* A step that begins no late request, and comes where the requests are    *)
(* watched only in time.                                                   *)
CalmStep ==
    /\ UNCHANGED <<source, late>> /\ (aborted => aborted')
    /\ pc' \in Timely \cup Counted => ~aborted \/ pc \in Timely

LEMMA CalmKeepsTime ==
    ASSUME Control, Control', InTime, CalmStep
    PROVE  InTime'
<1>1. late' = late /\ source' = source /\ late \in Nat /\ Len(batch') \in Nat
      /\ BatchSize \in Nat \ {0}
  BY ScrapeAssumption DEF CalmStep, Control, TypeOK
<1>2. CASE late = 0
  BY <1>1, <1>2 DEF InTime
<1>3. CASE late # 0
  <2>1. aborted /\ pc \notin Timely
    BY <1>3 DEF InTime
  <2>2. aborted' /\ pc' \notin Timely \cup Counted
    BY <2>1 DEF CalmStep
  <2>3. Timely' = Timely /\ Counted' = Counted
    BY <1>1 DEF Timely, Counted
  <2> QED
    BY <1>1, <2>2, <2>3 DEF InTime, Counted
<1> QED
  BY <1>2, <1>3

(* The stages a step may leave for without a look at the abort.            *)
Idle == {"page", "query", "flush", "final", "close", "done", "seeds", "yield",
         "enriched", "launch", "seed", "links", "csv", "scroll"}

LEMMA SharedCalm ==
    ASSUME NEW exit \in Idle
    PROVE  /\ TurnPage(exit) => CalmStep
           /\ FetchPage(exit) => CalmStep
           /\ LeaveItems(exit) => CalmStep
           /\ NextQuery => CalmStep
           /\ \A at \in {"fetch", "csv"} : RequestFails(at, exit) => CalmStep
           /\ \A items \in Pages : PageHolds(items, "items", exit) => CalmStep
BY DEF CalmStep, Idle, Timely, Counted, TurnPage, FetchPage, RequestFails, PageHolds,
   LeaveItems, NextQuery, job

LEMMA ItemCalm ==
    ASSUME NEW skip, NEW new, NEW next
    PROVE  /\ SkipItem(skip) => CalmStep
           /\ TakeItem(skip, new, next) => CalmStep
BY DEF CalmStep, SkipItem, TakeItem, job

LEMMA SiteCalm ==
    ASSUME source # "justdial", NEW next \in {"collect", "tech", "ssl"}
    PROVE  /\ \A contact \in BOOLEAN : SiteAnswers(contact, next) => CalmStep
           /\ SiteFails(next) => CalmStep
           /\ HasSSL("collect") => CalmStep
           /\ \A at \in {"visit", "crawl"} : SiteLost(at) => CalmStep
<1>1. ASSUME NEW contact \in BOOLEAN, SiteAnswers(contact, next)
      PROVE  CalmStep
  BY <1>1 DEF CalmStep, SiteAnswers, job
<1>2. ASSUME SiteFails(next)
      PROVE  CalmStep
  BY <1>2 DEF CalmStep, SiteFails, Timely, job
<1>3. ASSUME HasSSL("collect")
      PROVE  CalmStep
  BY <1>3 DEF CalmStep, HasSSL, Timely, Counted, job
<1>4. ASSUME NEW at \in {"visit", "crawl"}, SiteLost(at)
      PROVE  CalmStep
  BY <1>4 DEF CalmStep, SiteLost, Timely, job
<1> QED
  BY <1>1, <1>2, <1>3, <1>4

(* The one request of TechStack that may be late.                          *)
LEMMA TechInTime ==
    ASSUME Control, InTime, NEW next \in {"collect", "enriched"}, TechStack(next),
           source # "google_maps", next = "collect" => source # "justdial"
    PROVE  InTime'
<1>1. /\ late = 0 /\ late' \in {0, 1} /\ source' = source /\ BatchSize \in Nat \ {0}
      /\ ~aborted' => late' = 0
  BY ScrapeAssumption DEF InTime, Timely, TechStack, LateIf, job
<1>2. pc' \in {"ssl", "collect", "enriched"} /\ (source = "justdial" => pc' # "collect")
  BY DEF TechStack
<1>3. pc' \notin Timely'
  BY <1>1, <1>2 DEF Timely
<1> QED
  BY <1>1, <1>2, <1>3 DEF InTime

LEMMA CollectCalm ==
    ASSUME Collect, source # "justdial"
    PROVE  CalmStep
BY DEF CalmStep, Collect, Timely, Counted, job

LEMMA ConsumerCalm ==
    ASSUME Control, Consumer \/ Abort
    PROVE  CalmStep
BY DEF CalmStep, Control, TypeOK, Consumer, Flush, Consume, Pushed, PushFails, Fails,
   Ends, Abort, Timely, Counted, job

LEMMA ListingInTime ==
    ASSUME Control, Control', InTime, Yelp \/ YellowPages \/ LinkedIn
    PROVE  InTime'
<1>1. source \notin {"justdial", "google_maps"}
  BY DEF Yelp, YelpPage, YelpItem, YelpSite, YellowPages, YellowPagesPage,
     YellowPagesItem, YellowPagesSite, LinkedIn, LinkedInPage, LinkedInItem,
     LinkedInProfile, LinkedInSite
<1>2. {"page", "flush"} \subseteq Idle
  BY DEF Idle
<1>3. ListingItem => CalmStep
  BY <1>2, SharedCalm, ItemCalm DEF ListingItem, TakeListing
<1>4. VisitSite("collect") => CalmStep \/ TechStack("collect")
  BY <1>1, SiteCalm DEF VisitSite, TechAndSSL
<1>5. LinkedInProfile => CalmStep
  <2>1. ASSUME NEW site \in Sites, NEW contact \in BOOLEAN, ProfileAnswers(site, contact)
        PROVE  CalmStep
    BY <2>1 DEF CalmStep, ProfileAnswers, job
  <2>2. ASSUME ProfileFails
        PROVE  CalmStep
    BY <2>2 DEF CalmStep, ProfileFails, Timely, job
  <2> QED
    BY <2>1, <2>2 DEF LinkedInProfile
<1>6. CASE Yelp
  BY <1>1, <1>2, <1>3, <1>4, <1>6, SharedCalm, CollectCalm, TechInTime, CalmKeepsTime
     DEF Yelp, YelpPage, YelpItem, YelpSite
<1>7. CASE YellowPages
  BY <1>1, <1>2, <1>3, <1>4, <1>7, SharedCalm, CollectCalm, TechInTime, CalmKeepsTime
     DEF YellowPages, YellowPagesPage, YellowPagesItem, YellowPagesSite
<1>8. CASE LinkedIn
  BY <1>1, <1>2, <1>4, <1>5, <1>8, SharedCalm, ItemCalm, CollectCalm, TechInTime,
     CalmKeepsTime
     DEF LinkedIn, LinkedInPage, LinkedInItem, LinkedInSite
<1> QED
  BY <1>6, <1>7, <1>8

LEMMA MapsInTime ==
    ASSUME Control, Control', InTime, GoogleMaps
    PROVE  InTime'
<1>1. source = "google_maps"
  BY DEF GoogleMaps, MapsLaunch, MapsResults, MapsItem, MapsSite, MapsScroll, MapsError
<1>2. MapsLaunch \/ MapsError => CalmStep
  BY DEF CalmStep, Timely, Counted, MapsLaunch, MapsError, MapsThrows, job
<1>3. MapsResults => CalmStep
  BY DEF CalmStep, Timely, Counted, MapsResults, job
<1>4. MapsItem => CalmStep
  BY <1>1, ItemCalm, CollectCalm DEF MapsItem
<1>5. MapsSite => CalmStep
  BY <1>1, SiteCalm DEF MapsSite
<1>6. MapsScroll => CalmStep \/ InTime'
  <2>1. CASE pc = "items" /\ pc' = "scroll" /\ LateIf(TRUE)
            /\ UNCHANGED <<source, aborted>>
    BY <1>1, <2>1 DEF InTime, Timely, LateIf
  <2>2. CASE pc = "scroll" /\ pc' \in {"page", "flush"} /\ UNCHANGED <<source, aborted, late>>
    BY <1>1, <2>2 DEF CalmStep, Timely, Counted
  <2> QED
    BY <2>1, <2>2 DEF MapsScroll, job
<1> QED
  BY <1>2, <1>3, <1>4, <1>5, <1>6, CalmKeepsTime DEF GoogleMaps

LEMMA SearchInTime ==
    ASSUME Control, Control', InTime, GoogleDorks \/ Reddit
    PROVE  InTime'
<1>1. source \notin {"justdial", "google_maps"}
  BY DEF GoogleDorks, DorksPage, DorksItem, DorksSite, Reddit, RedditPage, RedditPost
<1>2. {"page", "query", "flush"} \subseteq Idle
  BY DEF Idle
<1>3. CASE GoogleDorks
  BY <1>1, <1>2, <1>3, SharedCalm, ItemCalm, SiteCalm, CollectCalm, TechInTime,
     CalmKeepsTime
     DEF GoogleDorks, DorksPage, DorksItem, DorksSite, TechAndSSL
<1>4. Fails("fetch") => CalmStep
  BY DEF CalmStep, Fails, Timely, Counted, job
<1>5. CASE Reddit
  BY <1>1, <1>2, <1>4, <1>5, SharedCalm, ItemCalm, CollectCalm, CalmKeepsTime
     DEF Reddit, RedditPage, RedditPost
<1> QED
  BY <1>3, <1>5

LEMMA CrawlInTime ==
    ASSUME Control, Control', InTime, NewDomains \/ CustomUrls \/ WebCrawler
    PROVE  InTime'
<1>1. source \notin {"justdial", "google_maps"}
  BY DEF NewDomains, NewDomainsCSV, NewDomainsItem, NewDomainsSite, CustomUrls,
     CustomUrlsItem, CustomUrlsSite, WebCrawler, WebCrawlerSeed, WebCrawlerLink,
     WebCrawlerSite, WebCrawlerCrawl
<1>2. {"page", "flush", "close"} \subseteq Idle
  BY DEF Idle
<1>3. NewDomainsCSV => CalmStep
  BY <1>2, SharedCalm DEF NewDomainsCSV, CalmStep, job
<1>4. CASE NewDomains
  BY <1>1, <1>2, <1>3, <1>4, SharedCalm, ItemCalm, SiteCalm, CollectCalm, TechInTime,
     CalmKeepsTime
     DEF NewDomains, NewDomainsItem, NewDomainsSite
<1>5. CrawlFinds => CalmStep
  BY DEF CrawlFinds, CalmStep, Timely, job
<1>6. CrawlSite => CalmStep \/ TechStack("collect")
  BY <1>1, <1>5, SiteCalm DEF CrawlSite, TechAndSSL
<1>7. CASE CustomUrls
  BY <1>1, <1>2, <1>6, <1>7, SharedCalm, ItemCalm, CollectCalm, TechInTime, CalmKeepsTime
     DEF CustomUrls, CustomUrlsItem, CustomUrlsSite
<1>8. WebCrawlerSeed => CalmStep
  BY <1>1 DEF WebCrawlerSeed, CalmStep, Timely, Counted, job
<1>9. WebCrawlerLink => CalmStep
  BY <1>1 DEF WebCrawlerLink, CalmStep, Timely, Counted, job
<1>10. WebCrawlerSite => CalmStep
  <2>1. pc = "items" /\ ~aborted /\ UNCHANGED <<source, late, aborted>> => CalmStep
    BY DEF CalmStep
  <2> QED
    BY <1>1, <1>2, <2>1, SharedCalm, CollectCalm DEF WebCrawlerSite, job
<1>11. CASE WebCrawler
  BY <1>1, <1>6, <1>8, <1>9, <1>10, <1>11, TechInTime, CalmKeepsTime
     DEF WebCrawler, WebCrawlerCrawl
<1> QED
  BY <1>4, <1>7, <1>11

(* Every late hasSSL of a script is followed by a lead in batch, and the   *)
(* batch is handed over, and refused, when it is full.                     *)
LEMMA JustDialInTime ==
    ASSUME Control, Control', InTime, JustDial
    PROVE  InTime'
<1>1. /\ source = "justdial" /\ source' = "justdial" /\ aborted' = aborted
      /\ BatchSize \in Nat \ {0} /\ late \in Nat /\ late' \in Nat
      /\ Len(batch) \in Nat /\ Len(batch') \in Nat
      /\ Timely = {"fetch", "profile", "visit", "crawl", "tech", "rpush"}
      /\ Timely' = Timely
  <2>1. source = "justdial" /\ source' = source /\ aborted' = aborted
    BY DEF JustDial, JustDialPage, JustDialScript, JustDialItem, JustDialProbe,
       JustDialCollect, JustDialHTML, JustDialCards, JustDialFinal, JustDialSite,
       JustDialEnriched, TurnPage, RequestFails, Collect, VisitSite, SiteAnswers,
       SiteFails, TechAndSSL, TechStack, HasSSL, job
  <2> QED
    BY <2>1, ScrapeAssumption DEF Control, TypeOK, Timely
<1>2. {"final"} \subseteq Idle
  BY DEF Idle
<1>3. CASE JustDialPage
  <2>1. CalmStep
    BY <1>2, <1>3, SharedCalm DEF JustDialPage, CalmStep, job
  <2> QED
    BY <2>1, CalmKeepsTime
<1>4. CASE JustDialScript
  BY <1>1, <1>4 DEF JustDialScript, InTime, stream
<1>5. CASE JustDialItem
  <2>1. Len(batch) < BatchSize /\ batch' = batch /\ pc = "items" /\ late <= Len(batch)
    BY <1>1, <1>5 DEF JustDialItem, Control, BatchRoom, InTime, stream
  <2>2. \/ pc' \in {"probe", "collect"} /\ late' \in {late, late + 1}
           /\ (late' # late => aborted)
        \/ pc' \in {"items", "scripts"} /\ late' = late
    BY <1>1, <1>5 DEF JustDialItem, LateIf
  <2> QED
    BY <1>1, <2>1, <2>2 DEF InTime
<1>6. CASE JustDialProbe
  BY <1>1, <1>6 DEF JustDialProbe, InTime, stream
<1>7. CASE JustDialCollect
  <2>1. /\ Len(batch') = Len(batch) + 1 /\ late' = late /\ pc = "collect"
        /\ pc' \in {"yield", "items"}
    BY <1>7 DEF JustDialCollect, Collect, Control, TypeOK
  <2> QED
    BY <1>1, <2>1 DEF InTime
<1>8. CASE JustDialHTML
  <2>1. late' = late /\ pc' \in {"yield", "page"}
    BY <1>8 DEF JustDialHTML, JustDialCards
  <2> QED
    BY <1>1, <2>1 DEF InTime
<1>9. CASE JustDialFinal
  <2>1. CalmStep
    BY <1>1, <1>9 DEF JustDialFinal, CalmStep, Counted, job
  <2> QED
    BY <2>1, CalmKeepsTime
<1>10. CASE JustDialSite
  <2>1. ASSUME NEW contact \in BOOLEAN, SiteAnswers(contact, "tech")
        PROVE  CalmStep
    BY <2>1 DEF CalmStep, SiteAnswers, job
  <2>2. SiteFails("enriched") \/ HasSSL("enriched") => CalmStep
    BY <1>1 DEF CalmStep, SiteFails, HasSSL, Counted, job
  <2> QED
    BY <1>1, <1>10, <2>1, <2>2, TechInTime, CalmKeepsTime
       DEF JustDialSite, VisitSite, TechAndSSL
<1>11. CASE JustDialEnriched
  <2>1. CalmStep
    BY <1>1, <1>11 DEF JustDialEnriched, CalmStep, Counted, job
  <2> QED
    BY <2>1, CalmKeepsTime
<1> QED
  BY <1>3, <1>4, <1>5, <1>6, <1>7, <1>8, <1>9, <1>10, <1>11 DEF JustDial

(* After a kill or a timeout a scraper begins one more request or scroll   *)
(* at most, and JustDial's no more than a batch of them, wherever the      *)
(* abort finds it.                                                         *)
THEOREM StopsInTime == Spec => []StopsSoon
<1>1. Init => InTime
  BY ScrapeAssumption DEF Init, InTime
<1>2. Control /\ Control' /\ InTime /\ [Next]_vars => InTime'
  <2> SUFFICES ASSUME Control, Control', InTime, [Next]_vars
               PROVE  InTime'
    OBVIOUS
  <2>1. CASE UNCHANGED vars
    BY <2>1 DEF InTime, Timely, vars
  <2>2. CASE Next
    BY <2>2, ListingInTime, MapsInTime, SearchInTime, CrawlInTime, JustDialInTime,
       ConsumerCalm, CalmKeepsTime DEF Next, Step
  <2> QED
    BY <2>1, <2>2
<1>3. InTime => StopsSoon
  BY DEF InTime, StopsSoon
<1> QED
  BY <1>1, <1>2, <1>3, ControlHolds, PTL DEF Spec
=============================================================================
