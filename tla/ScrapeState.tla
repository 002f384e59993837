---------------------------- MODULE ScrapeState -----------------------------
(***************************************************************************)
(* One scrape job from the first request to its outcome: the state of a    *)
(* scraper's generator, the steps the ten scrapers share, and the runner   *)
(* that consumes the batches.  A generator and its consumer take turns and *)
(* a timer or a kill message is served at an await only; values of pc that *)
(* are not awaits (see Await) admit no abort.                              *)
(***************************************************************************)
EXTENDS Naturals, Sequences, FiniteSets

CONSTANTS
    Sources,    \* sources a job may have
    Keys,       \* what identifies a result: a name, a domain, a permalink
    Pages,      \* the result lists a page, a script, a CSV or a job may hold
    BatchSize,  \* config.batchSize
    MaxPages,   \* MAX_PAGES, maxScrollAttempts
    MaxRounds,  \* queries, ld+json scripts of a page, seeds
    MaxSites,   \* MAX_SITES, MAX_DOMAINS_TO_CHECK
    NoLead

AllSources == {"yelp", "yellow_pages", "linkedin", "justdial", "google_maps",
               "google_dorks", "reddit", "new_domains", "custom_urls",
               "web_crawler"}

(* The scheme of a website's URL, if there is one.                         *)
Sites == {"none", "http", "https"}

(* A result as the page shows it; usable: it has a name or a link that     *)
(* parses and is of the right kind; contact: an e-mail or a phone number.  *)
Items == [key : Keys, usable : BOOLEAN, contact : BOOLEAN, site : Sites]

(* A lead; tried: its website, if it has one, has been asked.              *)
Leads == [key : Keys, contact : BOOLEAN, site : Sites, tried : BOOLEAN]

ASSUME ScrapeAssumption ==
    /\ Sources \subseteq AllSources /\ Pages \subseteq Seq(Items)
    /\ BatchSize \in Nat \ {0} /\ MaxPages \in Nat
    /\ MaxRounds \in Nat /\ MaxSites \in Nat
    /\ NoLead \notin Leads

VARIABLES
    source, drop,  \* of the job: its source, drop_no_contact
    aborted,       \* signal.aborted
    pc, resume,    \* where the job is; where a yield resumes
    outcome,       \* the job's last status
    round, page,   \* loop counters: query, script or seed; page or scroll
    rest,          \* results still to be looked at
    found,         \* discovered (web_crawler)
    seen,          \* visitedUrls, seenUrls, seenNames, discoveredDomains
    more,          \* after (reddit): the listing has another page
    lead,          \* the lead being built
    batch,
    enriched,      \* leads of batch enriched at the end (justdial)
    made,          \* history: keys of the leads put into batch, in order
    delivered,     \* history: the leads the runner pushed or filtered out
    late           \* history: browser and unabortable requests begun after
                   \* the abort

job == <<source, drop>>
scan == <<round, page, rest, found, seen, more>>
work == <<lead, enriched>>
stream == <<batch, made, delivered>>
vars == <<source, drop, aborted, pc, resume, outcome, round, page, rest, found,
          seen, more, lead, batch, enriched, made, delivered, late>>

LeadOf(item) == [key |-> item.key, contact |-> item.contact,
                 site |-> item.site, tried |-> item.site = "none"]

Item == Head(rest)

KeysOf(leads) == [i \in 1..Len(leads) |-> leads[i].key]

LateIf(request) == late' = IF request /\ aborted THEN late + 1 ELSE late

-----------------------------------------------------------------------------
(* Pages of results                                                        *)

TurnPage(exit) ==
    /\ pc = "page"
    /\ IF page < MaxPages /\ ~aborted
       THEN pc' = "fetch" /\ page' = page + 1
       ELSE pc' = exit /\ UNCHANGED page
    /\ UNCHANGED <<job, aborted, resume, outcome, round, rest, found, seen, more,
                   work, stream, late>>

RequestFails(at, exit) ==
    /\ pc = at /\ pc' = exit
    /\ UNCHANGED <<job, aborted, resume, outcome, scan, work, stream, late>>

(* A request that carries the signal has no answer after the abort.        *)
PageHolds(items, next, exit) ==
    /\ pc = "fetch" /\ ~aborted
    /\ pc' = IF items = <<>> THEN exit ELSE next
    /\ rest' = items
    /\ UNCHANGED <<job, aborted, resume, outcome, round, page, found, seen, work,
                   stream, late>>

FetchPage(exit) ==
    \/ RequestFails("fetch", exit)
    \/ \E items \in Pages : PageHolds(items, "items", exit) /\ UNCHANGED more

LeaveItems(next) ==
    /\ pc = "items" /\ (rest = <<>> \/ aborted)
    /\ pc' = next /\ rest' = <<>>
    /\ UNCHANGED <<job, aborted, resume, outcome, round, page, found, seen, more,
                   work, stream, late>>

SkipItem(skip) ==
    /\ pc = "items" /\ ~aborted /\ rest # <<>> /\ skip
    /\ rest' = Tail(rest)
    /\ UNCHANGED <<job, aborted, pc, resume, outcome, round, page, found, seen,
                   more, work, stream, late>>

(* The caller says what becomes of seen.                                   *)
TakeItem(take, new, next) ==
    /\ pc = "items" /\ ~aborted /\ rest # <<>> /\ take
    /\ rest' = Tail(rest) /\ lead' = new /\ pc' = next
    /\ UNCHANGED <<job, aborted, resume, outcome, round, page, found, more,
                   enriched, stream, late>>

-----------------------------------------------------------------------------
(* The website of a result: the page, detectTechStack, hasSSL              *)

SiteAnswers(contact, next) ==
    /\ pc = "visit" /\ ~aborted
    /\ lead' = [lead EXCEPT !.contact = @ \/ contact, !.tried = TRUE]
    /\ pc' = next
    /\ UNCHANGED <<job, aborted, resume, outcome, scan, enriched, stream, late>>

SiteFails(next) ==
    /\ pc = "visit" /\ pc' = next
    /\ lead' = [lead EXCEPT !.tried = TRUE]
    /\ UNCHANGED <<job, aborted, resume, outcome, scan, enriched, stream, late>>

(* No lead without its website.                                            *)
SiteLost(at) ==
    /\ pc = at /\ pc' = "items" /\ lead' = NoLead
    /\ UNCHANGED <<job, aborted, resume, outcome, scan, enriched, stream, late>>

(* detectTechStack resolves to null on any error, an abort included, and   *)
(* hasSSL, which has no signal, asks the site unless its URL says https.   *)
TechStack(next) ==
    /\ pc = "tech"
    /\ pc' = IF lead.site = "http" THEN "ssl" ELSE next
    /\ LateIf(lead.site = "http")
    /\ UNCHANGED <<job, aborted, resume, outcome, scan, work, stream>>

HasSSL(next) ==
    /\ pc = "ssl" /\ pc' = next
    /\ UNCHANGED <<job, aborted, resume, outcome, scan, work, stream, late>>

TechAndSSL(next) == TechStack(next) \/ HasSSL(next)

VisitSite(next) ==
    \/ \E contact \in BOOLEAN : SiteAnswers(contact, "tech")
    \/ SiteFails(next) \/ TechAndSSL(next)

(* batch.push, and the yield when the batch is full.                       *)
Collect ==
    /\ pc = "collect" /\ lead' = NoLead
    /\ batch' = Append(batch, lead) /\ made' = Append(made, lead.key)
    /\ IF Len(batch') >= BatchSize
       THEN pc' = "yield" /\ resume' = "items"
       ELSE pc' = "items" /\ UNCHANGED resume
    /\ UNCHANGED <<job, aborted, outcome, scan, enriched, delivered, late>>

(* Mutant of Flush: the leads left over are forgotten.                     *)
FlushForgets ==
    /\ pc = "flush" /\ pc' = "close"
    /\ UNCHANGED <<job, aborted, resume, outcome, scan, work, stream, late>>

Flush ==
    /\ pc = "flush"
    /\ IF batch # <<>>
       THEN pc' = "yield" /\ resume' = "close"
       ELSE pc' = "close" /\ UNCHANGED resume
    /\ UNCHANGED <<job, aborted, outcome, scan, work, stream, late>>

-----------------------------------------------------------------------------
(* The runner: for await (const rawBatch of scraper.scrape(...))           *)

ToPush == \E i \in 1..Len(batch) : drop => batch[i].contact

(* Mutant of Consume: the abort is not looked at.                          *)
ConsumeAnyway ==
    /\ pc = "yield"
    /\ IF ToPush
       THEN pc' = "rpush" /\ UNCHANGED <<batch, delivered>>
       ELSE pc' = resume /\ batch' = <<>> /\ delivered' = delivered \o batch
    /\ UNCHANGED <<job, aborted, resume, outcome, scan, work, made, late>>

(* An aborted job's batch is discarded and the generator told to return.   *)
Consume ==
    /\ pc = "yield"
    /\ \/ aborted /\ pc' = "close" /\ UNCHANGED <<batch, delivered>>
       \/ ~aborted /\ ToPush /\ pc' = "rpush" /\ UNCHANGED <<batch, delivered>>
       \/ /\ ~aborted /\ ~ToPush /\ pc' = resume
          /\ batch' = <<>> /\ delivered' = delivered \o batch
    /\ UNCHANGED <<job, aborted, resume, outcome, scan, work, made, late>>

(* Mutant of Pushed: batch is not emptied.                                 *)
PushedKeeps ==
    /\ pc = "rpush" /\ pc' = resume
    /\ delivered' = delivered \o batch
    /\ UNCHANGED <<job, aborted, resume, outcome, scan, work, batch, made, late>>

Pushed ==
    /\ pc = "rpush" /\ pc' = resume
    /\ batch' = <<>> /\ delivered' = delivered \o batch
    /\ UNCHANGED <<job, aborted, resume, outcome, scan, work, made, late>>

(* An exception in the loop or from the generator.                         *)
Fails(at) ==
    /\ pc = at /\ pc' = "close" /\ outcome' = "failed"
    /\ UNCHANGED <<job, aborted, resume, scan, work, stream, late>>

PushFails == Fails("rpush")

Ends ==
    /\ pc = "close" /\ pc' = "done"
    /\ outcome' = IF outcome = "failed" THEN "failed"
                  ELSE IF aborted THEN "timeout" ELSE "completed"
    /\ UNCHANGED <<job, aborted, resume, scan, work, stream, late>>

Consumer == Flush \/ Consume \/ Pushed \/ PushFails \/ Ends

(* Where the event loop may serve something else: page stands for the      *)
(* pause before a page and for the status pushed before the first one, as  *)
(* items and seeds do in the scrapers that pause there; browser.close is   *)
(* awaited by the last step of google_maps.                                *)
Await ==
    \/ pc \in {"page", "fetch", "profile", "visit", "tech", "ssl", "probe",
               "rpush", "launch", "scroll", "crawl", "csv", "seeds", "seed"}
    \/ pc = "items" /\ source \in {"new_domains", "custom_urls"}
    \/ pc = "close" /\ source = "google_maps"

(* A kill message or the job's timeout.                                    *)
Abort ==
    /\ Await /\ ~aborted /\ aborted' = TRUE
    /\ UNCHANGED <<job, pc, resume, outcome, scan, work, stream, late>>
=============================================================================
