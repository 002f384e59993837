--------------------------- MODULE ListingScrapers --------------------------
(***************************************************************************)
(* The scrapers that read business listings and then ask the website of    *)
(* each business: yelp, yellow_pages, linkedin (through a search page and  *)
(* the company's profile) and justdial.                                    *)
(***************************************************************************)
EXTENDS ScrapeState

(* Mutant of TakeListing: the website is not asked.                        *)
TakeListingAsIs == TakeItem(Item.usable, LeadOf(Item), "collect")

(* A named listing is a lead, with or without its website.                 *)
TakeListing == TakeItem(Item.usable, LeadOf(Item),
                        IF Item.site = "none" THEN "collect" ELSE "visit")

ListingItem ==
    \/ LeaveItems("page")
    \/ SkipItem(~Item.usable)
    \/ TakeListing /\ UNCHANGED seen

-----------------------------------------------------------------------------
(* Yelp *)

YelpPage == source = "yelp" /\ (TurnPage("flush") \/ FetchPage("flush"))

YelpItem == source = "yelp" /\ (ListingItem \/ Collect)

YelpSite == source = "yelp" /\ VisitSite("collect")

Yelp == YelpPage \/ YelpItem \/ YelpSite

-----------------------------------------------------------------------------
(* Yellow Pages *)

YellowPagesPage ==
    source = "yellow_pages" /\ (TurnPage("flush") \/ FetchPage("flush"))

YellowPagesItem == source = "yellow_pages" /\ (ListingItem \/ Collect)

YellowPagesSite == source = "yellow_pages" /\ VisitSite("collect")

YellowPages == YellowPagesPage \/ YellowPagesItem \/ YellowPagesSite

-----------------------------------------------------------------------------
(* LinkedIn: the profile is the website until it names another one.        *)

LinkedInPage == source = "linkedin" /\ (TurnPage("flush") \/ FetchPage("flush"))

LinkedInLead(item) == [key |-> item.key, contact |-> FALSE, site |-> "https",
                       tried |-> FALSE]

LinkedInItem ==
    /\ source = "linkedin"
    /\ \/ LeaveItems("page")
       \/ SkipItem(~Item.usable)
       \/ TakeItem(Item.usable, LinkedInLead(Item), "profile") /\ UNCHANGED seen
       \/ Collect

(* contact stands for the profile's own text, which is read last.          *)
ProfileAnswers(site, contact) ==
    /\ pc = "profile" /\ ~aborted
    /\ IF site = "none"
       THEN pc' = "collect" /\ lead' = [lead EXCEPT !.contact = contact, !.tried = TRUE]
       ELSE pc' = "visit" /\ lead' = [lead EXCEPT !.contact = contact, !.site = site]
    /\ UNCHANGED <<job, aborted, resume, outcome, scan, enriched, stream, late>>

ProfileFails ==
    /\ pc = "profile" /\ pc' = "collect"
    /\ lead' = [lead EXCEPT !.tried = TRUE]
    /\ UNCHANGED <<job, aborted, resume, outcome, scan, enriched, stream, late>>

LinkedInProfile ==
    /\ source = "linkedin"
    /\ \/ \E site \in Sites, contact \in BOOLEAN : ProfileAnswers(site, contact)
       \/ ProfileFails

LinkedInSite == source = "linkedin" /\ VisitSite("collect")

LinkedIn == LinkedInPage \/ LinkedInItem \/ LinkedInProfile \/ LinkedInSite

-----------------------------------------------------------------------------
(* JustDial: ld+json scripts, then HTML cards, and the websites of the     *)
(* leads still in batch at the very end.                                   *)

(* Cards or not, a page that is not empty is searched for scripts.         *)
JustDialPage ==
    /\ source = "justdial"
    /\ \/ TurnPage("final")
       \/ RequestFails("fetch", "final")
       \/ /\ pc = "fetch" /\ ~aborted
          /\ pc' = "scripts" /\ round' = 0
          /\ UNCHANGED <<job, aborted, resume, outcome, page, rest, found, seen,
                         more, work, stream, late>>

(* The next script holds any list of items, the empty one if it does not   *)
(* parse.                                                                  *)
JustDialScript ==
    /\ source = "justdial" /\ pc = "scripts"
    /\ \/ /\ round < MaxRounds /\ ~aborted
          /\ \E items \in Pages : rest' = items
          /\ round' = round + 1 /\ pc' = "items"
       \/ pc' = "cards" /\ UNCHANGED <<round, rest>>
    /\ UNCHANGED <<job, aborted, resume, outcome, page, found, seen, more, work,
                   stream, late>>

(* Every item of a script is taken, after an abort too; its hasSSL is      *)
(* asked at once.  An item that throws, such as one that is not an object, *)
(* loses the rest of its script.                                           *)
JustDialItem ==
    /\ source = "justdial" /\ pc = "items"
    /\ \/ /\ rest # <<>> /\ Item.usable
          /\ rest' = Tail(rest) /\ lead' = LeadOf(Item)
          /\ pc' = IF Item.site = "http" THEN "probe" ELSE "collect"
          /\ LateIf(Item.site = "http")
       \/ /\ rest # <<>> /\ ~Item.usable
          /\ rest' = Tail(rest) /\ UNCHANGED <<pc, lead, late>>
       \/ /\ rest' = <<>> /\ pc' = "scripts" /\ UNCHANGED <<lead, late>>
    /\ UNCHANGED <<job, aborted, resume, outcome, round, page, found, seen, more,
                   enriched, stream>>

JustDialProbe ==
    /\ source = "justdial" /\ pc = "probe" /\ pc' = "collect"
    /\ UNCHANGED <<job, aborted, resume, outcome, scan, work, stream, late>>

JustDialCollect == source = "justdial" /\ Collect

(* Cards with a name are pushed all at once, beyond BatchSize if they are  *)
(* many, and none after an abort.                                          *)
JustDialCards(cards) ==
    /\ source = "justdial" /\ pc = "cards"
    /\ LET leads == IF aborted THEN <<>>
                    ELSE [i \in 1..Len(cards) |-> LeadOf(cards[i])]
       IN  batch' = batch \o leads /\ made' = made \o KeysOf(leads)
    /\ IF Len(batch') >= BatchSize
       THEN pc' = "yield" /\ resume' = "page"
       ELSE pc' = "page" /\ UNCHANGED resume
    /\ UNCHANGED <<job, aborted, outcome, scan, work, delivered, late>>

JustDialHTML ==
    \E cards \in Pages :
       /\ \A i \in 1..Len(cards) : cards[i].usable
       /\ JustDialCards(cards)

(* The websites of the leads left over, one after the other; leads of full *)
(* batches are gone by now.                                                *)
JustDialFinal ==
    /\ source = "justdial" /\ pc = "final"
    /\ IF enriched = Len(batch)
       THEN pc' = "flush" /\ UNCHANGED work
       ELSE IF batch[enriched + 1].site # "none" /\ ~aborted
       THEN pc' = "visit" /\ lead' = batch[enriched + 1] /\ UNCHANGED enriched
       ELSE enriched' = enriched + 1 /\ UNCHANGED <<pc, lead>>
    /\ UNCHANGED <<job, aborted, resume, outcome, scan, stream, late>>

JustDialSite == source = "justdial" /\ VisitSite("enriched")

(* Mutant of JustDialEnriched: every other lead is passed over.            *)
JustDialEnrichedTwo ==
    /\ source = "justdial" /\ pc = "enriched" /\ pc' = "final"
    /\ batch' = [batch EXCEPT ![enriched + 1] = lead]
    /\ enriched' = enriched + 2 /\ lead' = NoLead
    /\ UNCHANGED <<job, aborted, resume, outcome, scan, made, delivered, late>>

JustDialEnriched ==
    /\ source = "justdial" /\ pc = "enriched" /\ pc' = "final"
    /\ batch' = [batch EXCEPT ![enriched + 1] = lead]
    /\ enriched' = enriched + 1 /\ lead' = NoLead
    /\ UNCHANGED <<job, aborted, resume, outcome, scan, made, delivered, late>>

JustDial ==
    \/ JustDialPage \/ JustDialScript \/ JustDialItem \/ JustDialProbe
    \/ JustDialCollect \/ JustDialHTML
    \/ JustDialFinal \/ JustDialSite \/ JustDialEnriched
=============================================================================
