# Verification of the sales-scraper backend

TLA+ models of the program in `src/`: a Go API (`src/api`) that creates
scraping campaigns and takes in their results, and a TypeScript scraper
(`src/scraper`) that does the scraping. The two share one PostgreSQL database
and one Redis server and never call each other: everything between them goes
through three Redis lists and one pub/sub channel. TLC checks small instances
of the models, TLAPS proves theorems about them for every size.

The system's core is the life of a campaign. `POST /campaigns` splits it into
jobs (source x city x category) and queues them; workers take jobs, push
batches of leads and status messages; a cron job of the API applies the status
messages to the database and closes the campaign; another one finds jobs that
have stalled, kills them and queues them again. Nothing of this runs in a
transaction and every process may stop between any two calls. That is the first
model, `JobPipeline`; the second, `LeadIngest`, is what becomes of the leads.
Between the two stand the scrapers: ten generators that the worker consumes
(`Scrapers`), two of which crawl whole sites (`SiteCrawl`). A row of leads, once
stored, is shared by PATCH requests, later merges, the e-mail validator and a
cache (`LeadRow`).

## 1. Inventory

### Components

| Component | State it keeps | Operations | What makes it correct |
|---|---|---|---|
| `CampaignService`, `CampaignRepo` | table `campaigns`; Redis `campaign:<id>` (read-through cache) and `campaign_limit:<date>` | `Create`, `GetByID`, `IncrementOnJobComplete`, `MarkCompletedIfDone`, `GetAll` | the limit of a day holds; the counters stand for runs that took place; a campaign is completed when its jobs are finished, and then always |
| `JobRepo` | table `scrape_jobs` | `InsertBatch`, `UpdateStatus`, `GetStalledJobs`, `RequeueJob`, `MarkDead` | bounded attempts; a final status stays; no job is forgotten |
| `Runner`, `listenForKill` | per worker loop: the job in hand, its abort signal, its lead count | BLPOP, dispatch, push batches and statuses, abort on kill or timeout | every run reports one final status; unwanted leads are not pushed |
| `LeadRecovery.drainJobStatus` | the message in hand, the retry envelope in `job_status` | dequeue, update row, count, complete, refund | each message is counted once |
| `LeadRecovery.drainLeads`, `LeadService`, `DedupService`, `LeadRepo` | table `leads`, retry envelope in `lead_batches` | `ProcessBatch`, `FindDuplicate`, `InsertBatch`, `Insert`, `MergeSources` | one row per business; no lead lost or doubled by a retry |
| `Watchdog` | the rows read as stalled | query, kill, dead letter, requeue, enqueue | every stalled job is retried or dead in the end |
| `LeadHandler` (GET, PATCH), `EmailValidator` | one row of `leads`, Redis `lead:<id>` | read-through read, write back of the whole row, merge, verdict on an address | nobody but a PATCH takes anything away; an address gets its verdict; the cache catches up with the row |
| `ExportHandler` | page number, rows written | pages of 500 up to the maximum | every row once, at most the maximum |
| `crawlSite`, `Frontier`, link filter | queue, visited set, pages per domain, contact found | add, next, crawl loop | limits on depth and pages; no page twice; nothing reachable left out below the limits |
| Source scrapers | query, page or scroll, what was seen, the batch, the abort signal | paging loops, visits of websites, generators of batches | leads are handed over once, in order and after their visit; they end, and soon when aborted |
| Scoring, phone and e-mail confidence | none | pure functions | results within 0..100, monotone |
| Extractors, delays, user agents, logger; router, auth, progress stream; configuration | none, or fixed at start-up | | |
| `Rescrape` cron, `check-job.cjs` | | never registered; run by hand | |

### How they interact

    POST /campaigns --> CampaignService --rows--> campaigns, scrape_jobs
                              |
                              +--- scrape_queue ---> worker loops (Runner)
                                        ^               |         |
            Watchdog -- requeue --------+   job_status  |         | lead_batches
              |   ^                             v                 v
              |   +-- stalled rows ---- drainJobStatus       drainLeads
              +-- PUBLISH job_kill --> kill listener of the worker

### What is hard

* **Interleaving.** `GetStalledJobs` and `RequeueJob` are two statements, the
  second of them unconditional; the row may have changed in between, also by
  another API instance. A killed run and its retry overlap and report in any
  order. `IncrementOnJobComplete`, `MarkCompletedIfDone`, the read of the
  campaign and the refund are four calls.
* **Crashes.** BLPOP and Dequeue remove a message before it is handled; the
  scraper's shutdown calls `process.exit` at once.
* **Partial failure.** `Create` makes five kinds of calls, each of which may fail
  after the earlier ones took effect; `RequeueJob` may succeed and `Enqueue` fail.
* **Delivery.** The kill is published once to whoever is subscribed; a status
  whose update failed is put behind later ones.
* **Staleness.** A cached campaign may be stored after the row changed; the
  payload of a retry is rebuilt from the job row.
* **Generators.** A scraper and the worker take turns at every `yield`; a kill or
  the job's timeout may come at any `await` of either, and what happens to the
  leads gathered so far depends on where that was. Ten sources each have their
  own loop, their own notion of a repeated result and their own error paths.
* **Limits.** Pages, depths, scrolls, sites and batches are all bounded, by
  counters that failures and repetitions must not upset.
* **Time.** Job timeout, stale threshold, cache TTL and midnight UTC.

`PROJECT.json` lists these hazards one by one, at the line where each bites,
with the properties that cover it.

## 2. Modules

| Module | Models | Code |
|---|---|---|
| `PipelineState` | constants and assumptions, the shared tables, lists and keys, process states, `TypeOK`, `Init` | migrations 001, 002, `models/`, `types/job.ts` |
| `CampaignService` | `POST /campaigns` and readers of the campaign cache | `campaign_service.go`, `campaign_repo.go` |
| `Runner` | the worker loops of the scraper | `runner.ts`, `kill-listener.ts`, `index.ts` |
| `LeadRecovery` | `drainJobStatus` | `lead_recovery.go`, `campaign_repo.go`, `job_repo.go` |
| `Watchdog` | `Watchdog.Run` | `watchdog.go`, `job_repo.go` |
| `JobPipeline` | their composition, fairness, all properties | `main.go` (cron registrations) |
| `MCPipeline` | definitions for TLC's instances | |
| `PipelineProofs` | theorems and proofs: types, attempts | |
| `AccountingProofs` | totals and their lemmas; nothing before acceptance, runs and leads accounted for | |
| `JobProofs` | orphans, dropped contacts, the course of a first run, final statuses, completion | |
| `DailyLimitProofs` | the daily limit and its refunds | |
| `LeadIngest` | `drainLeads`, `ProcessBatch` and the table `leads` | `lead_recovery.go`, `lead_service.go`, `dedup.go`, `lead_repo.go`, migration 003 |
| `MCIngest` | leads, batches and contacts for TLC | |
| `IngestProofs` | theorems and proofs | |
| `SiteSearch` | what crawling a site promises (abstract) | |
| `SiteCrawl` | `crawlSite`, `Frontier`, the link filter | `crawler.ts`, `custom-urls.ts`, `frontier.ts`, `link-filter.ts` |
| `MCSiteCrawl`, `CrawlProofs` | a small site for TLC; theorems and proofs | |
| `LeadStream` | what the runner may expect of a scraper (abstract) | |
| `ScrapeState` | state of a job's generator, the steps scrapers share, the runner's loop | `yelp.ts`, `tech-stack.ts`, `runner.ts`, `base.ts` |
| `ListingScrapers` | yelp, yellow_pages, linkedin, justdial | the scraper of each |
| `SearchScrapers` | google_maps, google_dorks, reddit, new_domains, custom_urls, web_crawler | the scraper of each |
| `Scrapers` | their composition with the runner, fairness, all properties | `runner.ts` (scraperMap) |
| `MCScrapers` | results and pages for TLC | |
| `ScrapeProofs` | theorems and proofs | |
| `LeadRow` | one row, its cached copy, PATCH, merges, validator | `lead_repo.go`, `lead_handler.go`, `email_validator.go` |
| `MCLeadRow`, `LeadRowProofs` | clients and sources for TLC; theorems and proofs | |

### The pipeline

The four component modules extend `PipelineState`, each adds the actions of one
program, and `JobPipeline` is the disjunction of their next-state relations.
An action is one call to Postgres or Redis with the local code up to the next
one; a `pc` says which call a process makes next.

* `request[c]` is the handler that creates campaign `c`: `CheckLimit` (INCR and
  comparison), `RollBack`, `InsertCampaign`, `InsertJobs`, `EnqueueJobs`;
  `InsertJobsFails` leaves any part of the rows, `CreateStops` is any other
  error return and the exit of the process.
* `worker[w]` is one worker loop: `Pop`, `RejectUnknown`, `Start`, `PushBatch`,
  `Finish`, `ScrapeFails`. `aborted` is the AbortSignal, set by `JobTimeout` and
  by the watchdog's `Kill`. `WorkersStop(W)` is the exit of a process with the
  worker loops `W`.
* `drainer[d]` is the drain loop of one API instance: `Dequeue`, `UpdateStatus`,
  `Count`, `MarkCompletedIfDone`, `FetchHit` or `FetchMiss` and `Fill` (the
  read-through cache), `Refund`; `UpdateFails` requeues the message,
  `CountFails` is logged only, `DrainStops` is every other failure.
* `watchdog[g]` is the watchdog of one API instance: `GetStalledJobs`, then per
  job `Kill` and `MarkDead` or `RequeueJob` and `Enqueue`; `spent` keeps which
  rows had used up their attempts *when the query read them*, since the code
  decides on that copy.
* `viewer[v]` is a client of `GET /campaigns/{id}/status`, whose only effect is
  to fill the cache, possibly with an old row.

### Lead ingestion

`LeadIngest` stands alone: the pipeline's runner pushes batches and
`LeadIngest` starts where they are pushed. It shares `MaxRetryAttempts` and the
retry envelope with `LeadRecovery`, but no state: the two drain loops read
different lists and tables.

* `drainer[d]` is the `drainLeads` loop of one API instance. Its `pc` names the
  next call: `find` and `merge` are the first loop of `ProcessBatch`
  (`FindDuplicate`, `MergeSources`), `insert` is `InsertBatch`, one INSERT per
  step as in the code, `fallback` the second loop of single inserts, `settle`
  the decision to requeue. `left` holds the leads the loop has yet to visit, and
  `inserted`, `merged`, `skipped` are the counters the decision is made on.
* `rows[l]` is how many rows lead `l` has become and `sources[l]` their column
  `source`. `Refused` is what the three unique indexes do: it looks at *all*
  contacts of a lead, and a lead without contact is never refused.
* `FindFails`, `MergeFails`, `InsertBatchFails`, `InsertFails` and
  `RequeueFails` are the error returns of these calls, `IngestStops` is the exit
  of the process, which forgets the batch in hand.
* `Unstorable` leads are those no INSERT succeeds with (a NUL character in a
  text, say).
* A contact is a normalised phone, e-mail or domain; normalisation and the
  other columns of the row are left out. `Push` may push a batch more than once,
  as the retry of a job does; the list is first in first out.

### The crawl of a site

`SiteCrawl` is `crawlSite`, which `WebCrawlerScraper` (depth 3, 15 pages) and
`CustomUrlsScraper` (depth 2, 10 pages) run alike. A link is a record of what
its treatment depends on: scheme, host, path, trailing slash, fragment.
`Normalize`, `ExtractDomain`, `ClassifyLink` and `Accepts`/`Add` translate the
functions of the frontier and the filter; patterns and extensions are the
constant `PathClass`. `NextPage` begins a request, `PageRead` or `PageFails` end
it, `AddLink` passes one link of the page, first in the turn of the priority
links and then in that of the others (what `sortByPriority` amounts to),
`Finish` is the end of the loop with or without a lead. `Abort` comes at any
await. What a page holds is decided when it is read: any list of `PageLinks`,
with a contact or without one.

`SiteSearch` says what the callers rely on: at most `MaxPages` requests, each
page once and only with a link to it, and a lead exactly if a contact was read.
`SiteCrawl` implements it with the visited set as the known links (`IsSearch`).

### Scrape jobs

`ScrapeState` holds one job: the position `pc` in its generator or in the
runner's loop, the loop counters (`round`: query, script or seed; `page`: page or
scroll), the results still to be looked at (`rest`), what the generator
remembers (`seen`, `found`), the lead in hand, the `batch`, and the `outcome`
pushed at the end. Three history variables serve the properties: `made`,
`delivered` and `late`. An action is the code from one await (or one decision)
to the next.

The sources differ in their control and share their steps: `TurnPage`,
`FetchPage`, `LeaveItems`, `SkipItem`, `TakeItem`, `VisitSite`, `TechAndSSL`,
`Collect`. Each source is a disjunction of these and of its own actions, for
instance JustDial's scripts, cards and final pass over the batch, Google Maps'
browser and scrolls, Reddit's `after`, the seeds and sites of the web crawler.
`Consumer` is the other side of `for await`: `Flush`, `Consume` (the check of the
abort and of `drop_no_contact`), `Pushed`, `PushFails`, `Ends`.

* A result is its identity (a name, a domain, a permalink), whether it is usable,
  whether it shows a contact, and the scheme of its website. A page is any list
  of the constant `Pages`.
* `crawlSite` is one step here (`CrawlFinds`, `SiteLost`); `SiteCrawl` has its
  detail.
* A request that carries the signal has no answer after the abort; requests
  without it (`hasSSL`, everything in the browser) do.
* `Await` names the positions at which a kill or the timer can be served. Waits
  between pages are part of the step that follows them.
* `Pages` is finite in TLC's instance only; the proofs take any set of lists.

`LeadStream` is what the runner may expect: the leads found are handed over in
order, everything found so far at each hand-over, none begins after the
cancellation, and a completed job leaves nothing behind. `Scrapers` implements
it (`IsStream`): `made` is what was found, the keys of `delivered` what was handed
over, `pc = "rpush"` the offer.

The `Runner` of the pipeline sees the same generators as `PushBatch`, `Finish`
and `ScrapeFails` at any time and in any number; `Scrapers` says which sequences
of them the sources produce.

### A row of leads

`LeadRow` is one row, its cached copy and everybody who reads or writes them. A
GET or PATCH is `GetByID`, on a miss `Load` and `Store` (the read-through fetch,
between whose steps others come), then `Answer` or `UpdateLead`, which writes back
*all* columns of its copy. `MergeSources` and `Validate` write their own columns.
Every write leaves a removal of the cached copy to come (`RemoveCached`), whose
error the code ignores. The validator's verdict comes arbitrarily long after its
query. The columns are the status, the sources and the state of the address;
`pending` is the condition of the validator's query.

### Abstractions

* Message bodies, cities, categories, timestamps and error texts are left out. A
  lead is `"contact"` or `"bare"` (neither phone nor e-mail), the distinction
  `drop_no_contact` makes.
* Time is nondeterministic: any nonempty set of `in_progress` rows may be older
  than the stale threshold, a scrape may time out at any moment, a cache entry
  may expire at any moment.
* `BLPOP` may return any waiting payload: the end of the list at which the
  library (go-starter-kit, not in the repository) pushes is unknown. `job_status`
  is first in first out, as PLAN.md's use of the list and `rpush` say.
* A kill reaches any subset of the workers on the job, none included.
* Inserting the rows of a campaign's jobs, and queueing their payloads, is one
  step each (nothing reads a pending row before its payload is there). An
  update and the removal of the cache entry after it are one step.
* The exit of an API instance is the separate exit of its activities, each of
  which spends a unit of the fault budget, so a run with budget 1 interrupts one
  activity at a time.
* `GetAll` and its list cache are left out, as are the unused methods of the
  repositories.

## 3. Properties and runs

Bounds: `MaxFaults` failed calls or exits, `MaxLeads` leads per scrape,
`MaxDay` days, `MaxAttempts` (3 in production, 1 in the runs so that a job goes
through first run, retry and dead letter), `MaxRetryAttempts` (3 in the code,
1 in most runs, so that with more than one failure a status is dropped).
`CHECK_DEADLOCK FALSE` throughout: the system rests when every
campaign is finished.

| Run | Instance | Properties |
|---|---|---|
| `pipeline_safety` | 1 campaign, 2 jobs, 2 workers, 1 API instance, 1 failure | `TypeOK`, `RunsAccounted`, `CompletedMeansAllFinishedOnce`, `NoOrphans`, `FinalStatusSticks` |
| `two_instances` | 1 job, 2 workers, 2 drainers, 2 watchdogs, 1 failure | `AttemptsBounded`, `AttemptsReserved`, `RunsAccounted` |
| `daily_limit` | 3 campaigns of 1 job, limit 1, 2 days, a reader of the cache | `DailyLimitHoldsUpToCarryOver`, `RefundsAccounted` |
| `pipeline_live` | 1 job with `drop_no_contact`, 2 workers, 1 lead per run, 1 API instance, 2 failures, `FairSpec` | `LeadsAccounted`, `ContactlessDroppedOnce`, `StalledJobsSettle`, `SubmittedJobsSettle`, `CampaignCompletesUnlessFailed` |
| `ingest` | 3 batches, 5 leads, 2 drainers, 2 failures, 1 exit, `FairSpec` | `IngestTypeOK`, `OneRowPerContact`, `LossesBounded`, `LoneSourcesKept`, `BatchesSettle` |
| `site_crawl` | a site of 6 paths and 4 link lists, depth 2, 4 pages, `FairSpec` | `TypeOK`, `FetchedOnce`, `BudgetIsVisited`, `BreadthFirst`, `CompleteWithinLimits`, `PriorityLinksFirst`, `CrawlEnds`, `IsSearch` |
| `scrapers` | 10 sources, 3 results in 4 lists, 2 rounds of 2 pages, batches of 2, at most 2 sites, `FairSpec` | `TypeOK`, `StreamAccounted`, `LossBounded`, `OneLeadPerKey`, `VisitedBeforeDelivery`, `StopsSoon`, `ScrapeEnds`, `IsStream` |
| `lead_row` | 2 PATCHes, 1 reader, 1 validator, 1 merge, 1 failure, `FairSpec` | `RowTypeOK`, `OnlyPatchOverwrites`, `ValidatedInTheEnd`, `CacheCatchesUp` |
| `double_count` | 2 jobs, no failure | refutes `CompletedMeansAllFinished` |
| `lost_job` | 1 job, 1 failure | refutes `CrashLosesNothing` |
| `contactless_retry` | 1 job, no failure | refutes `ContactlessDropped` |
| `failed_job` | 1 job, no failure, `FairSpec` | refutes `FinishedCampaignCompletes` |

What the passing runs show:

* `RunsAccounted`: `jobs_completed` plus every run that may still be counted
  (payload waiting, requeue about to be queued, worker busy, message queued or
  in hand) never exceeds the jobs plus the requeues. So no run is counted twice,
  however kills, retries, lost processes and two API instances interleave; in a
  campaign without a requeue the counter can only fall behind, never run ahead.
* `CompletedMeansAllFinishedOnce` and `FinalStatusSticks`: with one drainer, no
  failure and no requeue, a completed campaign has no unfinished job and a final
  status is never overwritten. Each of the three conditions is needed
  (`double_count` for the requeue, the fault budget and a second drainer for the
  others).
* `NoOrphans`: without failures every pending job of an accepted request is held
  by somebody: a payload, a worker, a message or a watchdog about to queue it.
  Pending rows are never looked for again, so this is what keeps jobs alive.
* `AttemptsBounded`: `attempt_count` exceeds the maximum by at most the number
  of further API instances.
* `LeadsAccounted`: `leads_found` never counts a lead that was not pushed, nor
  one twice. `ContactlessDroppedOnce`: first runs obey `drop_no_contact`.
* `DailyLimitHoldsUpToCarryOver`: the campaigns of a day that are active or have
  leads are at most the limit plus the empty campaigns of earlier days (whose
  refund went to the wrong key, see below). `RefundsAccounted`: at rest the
  Redis counters stand for these campaigns; an empty campaign is refunded at
  most once, and exactly once when nobody else fills the cache.
* `StalledJobsSettle`: once nothing fails any more, a job that is `in_progress`
  ends or is dead. `SubmittedJobsSettle`, `CampaignCompletesUnlessFailed`: the
  same from the request on, unless something failed.
* `OneRowPerContact`: a phone, an e-mail and a domain is in one row at most,
  though both instances may look a lead up before either inserts it, and though
  the fallback inserts again what `InsertBatch` had already inserted.
* `LossesBounded`: a failed call loses at most one lead and an exit at most one
  batch. The fallback, the conflicts between instances and the retries lose none
  by themselves: in particular a lead that Postgres refuses, or one already in
  the table, does not take the rest of its batch with it.
* `LoneSourcesKept`: a batch of one lead that loses the race for a contact comes
  back by requeue and is merged, so its source is recorded. Only for batches of
  one lead: when another lead of the batch was stored, the batch is done with and
  the source of the lead that lost the race is not.
* `BatchesSettle`: no batch circulates for ever; the list empties and the loops
  come to rest.
* `FetchedOnce`, `BudgetIsVisited`, `BreadthFirst`: whatever links its pages have,
  a site is crawled level by level and no page twice, and the URLs ever queued
  are what the page limit bounds. A page that fails is therefore not given back
  to the budget, and the loop's own test of `pagesCrawled` never ends a crawl
  that has something left to do.
* `CompleteWithinLimits`: a crawl that ended by itself below its budget has
  requested everything reachable within the depth. `PriorityLinksFirst`: contact
  and about pages get their place before the other links of the same page.
* `StreamAccounted`, `LossBounded`: between the pages and Redis no lead is lost,
  doubled or reordered by batching, by the last partial batch or by JustDial's
  late enrichment; an abort or an error loses the batch in hand and nothing else.
* `OneLeadPerKey`: the sources whose results repeat make one lead of each.
  `VisitedBeforeDelivery`: the contact filter looks at a lead after its website
  was asked, not before.
* `StopsSoon`: after a kill at most one further request or scroll is begun by
  code that does not look at the signal, for JustDial one per lead of a batch.
* `CrawlEnds`, `ScrapeEnds`: every crawl and every job ends.
* `OnlyPatchOverwrites`: a merge or a validator, however old what it read, takes
  nothing from a row; if a source or a verdict is lost, a PATCH wrote it over
  with its copy. `ValidatedInTheEnd`: such a lost verdict is found again by the
  next run. `CacheCatchesUp`: a stale copy, stored after its removal, is served
  until its time to live ends at most.

Why the bounds are enough: every hazard in the list needs at most two runs of a
job (the killed one and its retry), two workers, two drainers or two watchdogs,
and one failure; the second job is there so that a campaign can be closed too
early. `daily_limit` has one campaign more than two days of limit 1 admit,
among them one whose source is unknown (so that a campaign fails rather than
completes). Jobs, workers, drainers and watchdogs of one kind are
interchangeable; symmetry is used in the safety runs only.

In `ingest` two of three leads of the batch `maps` share a phone (a conflict
inside a batch, hence the fallback) and the third has no contact; the lead of
`dorks` shares its domain with one of them (a race between batches); the lead of
`yelp` is always refused (the retries end). `maps` is pushed twice, as by a
retried job. `MaxRetryAttempts` is 1: one return of a batch and its end. Two
failures suffice to skip a lead and then lose its retry.

The site of `site_crawl` has links back, repeated and foreign ones, variants with
a fragment, a slash and "www.", a skipped file and a mail link; four pages of six
make the budget run out before the depth and the other way round. In `scrapers`
the lists hold a repeated result, an unusable one and websites of all kinds, and
the longest one fills a batch and leaves a rest; two rounds of two pages repeat a
result within and across queries, and two sites are fewer than the results of
the longest list. In `lead_row` two PATCHes overwrite each other's copy with a
merge and a verdict between them. There is one validator; the proved
`OnlyPatchOverwrites` covers any number.

### Fairness

`FairSpec` assumes weak fairness of: the next call of a running request; taking
a waiting job, starting it, and ending a scrape (`Finish` or `ScrapeFails`:
`jobTimeoutMs` aborts every scrape, runner.ts:94-97); dequeuing and every step
of the drain loop (scheduled every 30 s, main.go:123-125); every step of the watchdog,
and its reading a given row that stays `in_progress` with nothing touching it
(such a row does become older than the threshold, and the query runs every
`WATCHDOG_INTERVAL_SEC`). `LeadIngest`'s `FairSpec` assumes the same of each
instance's `drainLeads`: that it dequeues, and that a loop in a batch makes its
next call. `SiteCrawl` and `Scrapers` assume that a job makes its next step: all
requests, launches and evaluations have timeouts. `LeadRow` assumes that a
request that has begun goes on, that removals are made (or lost), that cached
copies expire and that the validator, a cron job, runs; not that anyone sends a
request. Nothing is assumed of failures, of a scraper that
yields leads, of readers, of expiry or of the clock.

### Findings

1. **A retry is counted beside the run it replaces** (`double_count`). A killed
   worker reports `timeout`, which is counted although the watchdog has queued
   the job again; the retry is counted too, and `MarkCompletedIfDone` closes the
   campaign while another job has not run. campaign_repo.go:129 says "if all jobs
   are finished".
2. **A crash of the scraper loses jobs** (`lost_job`). PLAN.md:141 says
   "crash/restart loses nothing"; a job taken by BLPOP whose `in_progress` was
   not pushed stays `pending` for ever, and the watchdog reads `in_progress` only.
3. **A retry ignores `drop_no_contact`** (`contactless_retry`). The watchdog's
   payload does not have the field.
4. **A failed or dead job keeps its campaign active for ever** (`failed_job`).
   Only `completed` and `timeout` reach the counters.
Observed while modelling, and visible in the shape of the properties that do
hold: the refund of an empty campaign goes to the key of the day on which it
ends, so that after midnight a new day admits one campaign more
(`DailyLimitHolds`, without carry-over, is false); a campaign refunded as empty
gets leads from a retry and is not charged again; a stale cached campaign hides
its end from the drainer and the refund is skipped; two drainers may refund the
same campaign twice; when one lead of a batch is refused, the fallback inserts
the contactless leads before it a second time. A lead without phone, e-mail and
domain becomes a row each time its batch arrives, as there is nothing to look up
(dedup.go:25) and no index that refuses; PLAN.md:701 expects that a retried job
stores nothing twice.

Of the scrapers: justdial.ts:185 announces the enrichment of the leads with
websites "batched at the end", but only the leads of the last, partial batch are
enriched; full batches went to the runner before, unvisited, where
`drop_no_contact` may drop them (hence the exception in
`VisitedBeforeDelivery`). google-maps.ts:89 says "always yield partial results
even on abort", but the runner leaves its loop at an abort before it looks at
the batch (runner.ts:108), so that the batch is discarded. The page of the cards
is pushed whole, so a batch of JustDial may exceed `batchSize` (hence the
exception in `LossBounded`). `hasSSL` takes no signal.

Of a row: lead_handler.go:96 says "Only allow updating the status field", but
the handler writes back the whole row it read, possibly from the cache; sources
merged and verdicts reached since then are lost.

### Mutants

Every property of a passing run has a mutant, an operator named beside the
definition it replaces (`GetStalledJobsOneMore`, `PushStatusFirst`,
`RequeueJobOnly`, `AcceptsRaw`, `PushedKeeps`, ...): a plausible slip in that piece of code under which TLC
finds the property violated in the same run. They are part of no specification.

## 4. Theorems

Every safety invariant and action property that a passing run checks is proved,
some under a hypothesis that the theorem states. The pipeline's proofs are four
modules, each extending the one before. They hold for any campaigns and any
values of the limits and bounds, and rest on three assumptions of
`PipelineState`: `JobsAssumption` (finitely many jobs, each of one campaign,
`None` none of them), `ProcessesAssumption` (finitely many workers, drainers and
watchdogs) and `BoundsAssumption` (limits are natural numbers, at least one day).
TLC evaluates them in every run. Campaigns need not be finitely many, readers
neither.

`PipelineProofs`:

* `TypeCorrect`: `Spec => []TypeOK`. Besides types, `TypeOK` says that no process
  stands at a call without the job, message or copy the call needs; this makes
  it inductive. One lemma per component, one step per action.
* `ReserveInvariant`: `Spec => []AttemptsReserved`, and from it
  `AttemptsAreBounded`: `Spec => []AttemptsBounded`.

The bound is not inductive as it stands: it does not say how many watchdogs
still hold a copy of the row on which they will requeue the job.
`AttemptsReserved` adds them: the attempts of a job and the watchdogs holding it
among `stalled \ spent` stay below `MaxAttempts` plus the number of watchdogs. A
watchdog joins them only while the row it reads has attempts left, and then
even all watchdogs together stay within the bound; `RequeueJob` raises the
attempts by one and takes its watchdog off the list; every other step leaves
both alone or makes the list shorter. The cardinality arguments are the lemmas
`RequeuersFinite`, `FewerRequeuers` and `AdvanceRequeuers`.

`AccountingProofs`:

* `NothingRunsBeforeAccepted`: until a campaign's payloads are queued, no worker,
  message, drainer or watchdog knows any of its jobs. It is inductive with the
  types; without it, `InsertJobs` could reset a row somebody works on and
  `EnqueueJobs` could double a run.
* `RunsAreAccounted` and `LeadsAreAccounted`: `RunsAccounted` and `LeadsAccounted`.
  They are inductive next to the types, `NothingBeforeAccepted` and
  `OnlyCountedCount` (a drainer reaches `Count` only with a status that counts),
  because they name every place a run can be: each step moves one run, with its
  leads, from one place to the next, loses it, or comes with a requeue that raises
  an attempt. `RunnerBalanced`, `RecoveryBalanced` and `WatchdogBalanced` go
  through the actions, `ServiceBalanced` shows that a new campaign starts with
  exactly one run per job.

A sum over a set has no induction principle the provers can use. `Total(f)` is
therefore the number of *units* of `f`, the pairs of an `x` and a number up to
`f[x]`: the same number, but a cardinality, for which the library has theorems.
`TotalChange` (one value changes), `TotalMono`, `TotalZero` and `TotalRename` are
all that the proofs need; `WaitingChange`, `ReportedTail`, `ReportedAppend` and
the others say how an action changes one part of the account.

`JobProofs`:

* `NoJobIsOrphaned`: `Spec => []NoOrphans`, inductive next to the types and
  `NothingBeforeAccepted`: each action hands the job from one holder to the next.
* `FirstRunsDropContactless`: `Spec => []ContactlessDroppedOnce`, from
  `FirstRunsDrop` (also the payload and the worker carry the flag) and
  `RetriesCounted` (what a watchdog queues has a positive attempt count, which is
  how the payload without the flag is told from the first).
* `FirstRunsInOrder`: with one drainer, `FirstRunsOrderly`. While nothing failed
  and the job was not requeued, there is one payload, or one worker, or a final
  status behind all others of the job; once that is written, nothing is left.
  From it `FinalStatusesStick` (`FinalStatusSticks`), and, with
  `FirstRunsCounted` (what is counted or about to be are different jobs that have
  ended), `CompletedCampaignsAreFinished` (`CompletedMeansAllFinishedOnce`).
  The last two assume `MaxAttempts # 0` too: with no attempts at all the watchdog
  marks a first run dead, also one that has ended since the query. The default is
  3 (config.go:59).

`DailyLimitProofs`, for one drainer (two may both refund a campaign; see the
hazards) and any readers of the cache:

* `DailyLimitIsKept`: `Spec => [](NoRetries => DailyLimitHoldsUpToCarryOver)`. A
  requeue voids the limit, as TLC shows in a small instance: the first run ends
  without a lead while the watchdog holds the row as stalled, the campaign is
  completed and refunded, and the retry then brings it leads. The run `daily_limit` has no watchdog, so there the hypothesis
  always holds.
* `RefundsAreAccounted`: `Spec => []RefundsAccounted`.

The counters do not say which campaign was refunded on which day. The invariant
`RefundsCovered` says that there is such an assignment `r`: only campaigns that
ended empty, and are no longer in a drainer's hands, are refunded (so none twice);
none before its day; per day the campaigns that took a place number at most the
counter plus that day's refunds, and those admitted at most the limit plus
that day's refunds (`Covered`); and while nothing fails the counters add up to
the places taken less the refunds, and without readers every campaign that ended
empty is refunded or in a drainer's hands (`Exact`). `CheckLimit`, `RollBack` and
`Refund` have a lemma each; `Refund` extends `r` by the day on which it runs,
every other step leaves places and counters alone (`OtherStepsAreCalm`).
Below it stand three more invariants: `RequestsInOrder` (the row comes after the
check; a completed campaign has its jobs counted), `CopiesTrue` (a copy, in the
cache or in hand, that says completed is right for good: by `RunsAccounted` no
message is left that could still be counted) and `CopiesCurrent` (without readers
a drainer's copy is never stale, so that no refund is missed). `Net` is the sum of
counters that may be negative, the total of the positive ones less that of the
negative ones.

`IngestProofs` proves, for any leads, batches, contacts, drainers and bounds
that satisfy `BatchesAssumption` (finitely many leads, no empty batch: the loop
passes over those; some batch is the longest, `MaxBatch` being its length) and
`IngestBoundsAssumption`:

* `IngestTypeCorrect`: `Spec => []IngestTypeOK`, which includes that a loop
  stands at a lead whenever it is to visit one. The lemmas `NextLeadOK` and
  `NextInsertOK` say how the two loops advance, `BecomesOK` that it is enough to
  look at the drainer that moves.
* `OneRow`: `Spec => []OneRowPerContact`. The property is inductive next to the
  types: `InsertKeepsOneRow` shows that a row is only inserted where no row
  shares a contact with it, and the two actions that insert are the only ones
  that change `rows`. That the code looks a lead up first plays no part: the
  indexes carry the property, the lookup serves the merge.
* `LossesAreBounded`: `Spec => []LossesBounded`. `HandsOK` says what a loop has in
  hand: leads of its batch, and in `InsertBatch` only leads the fallback would
  visit. `MissingBounded` counts the leads nobody will store any more instead of
  those lost: a lead becomes missing by a failed call or an exit only, and an
  exit forgets at most the batch in hand.
* `LoneSourcesAreKept`: `Spec => []LoneSourcesKept`, if a batch may be retried at
  all (`MaxRetryAttempts # 0`; it is 3 in the code). `LoneBatchesKept` follows the
  batch of one lead through the loop: the row that refused its INSERT stays, so a
  batch that comes back finds a row to merge into and is never dropped for want
  of attempts.

`CrawlProofs` proves, for any site, any link lists and any limits that satisfy
`LinksAssumption` and `LimitsAssumption`:

* `CrawlInvariant`: `Spec => []CrawlInv`. `FetchedOnce` and `BreadthFirst` speak of
  the *course* of a crawl, the entries requested followed by those queued; taking
  the head of the queue leaves the course as it is, and adding a link appends to
  it. `InHand` ties the entry being worked on to the end of the requested ones
  (so that what is appended is one level deeper than the deepest already done),
  `Counted` the counters to the visited set. From it follow `CrawlTypes`,
  `RequestsOnce`, `GoesBreadthFirst` and `BudgetHolds`.
* `PriorityFirst`: `Spec => PriorityLinksFirst`, from a second invariant
  (`TurnInv`): in a turn, what is no longer pending of the page has been added,
  unless the frontier was full or the depth reached, and then it stays so.
* `CrawlIsComplete`: `Spec => []CompleteWithinLimits`, from `PagesFollowed`: every
  followable link of a page read above the depth limit is visited or the page
  budget is spent, except for the page in hand, for which `TurnInv` tells what has
  been passed at the end of both turns.
* `ImplementsSearch`: `Spec => IsSearch`. `NextPage` is a `Request` (`HeadIsNew`:
  the head of the queue was never requested, and the budget is not used up),
  `PageRead` and `AddLink` are `Read`, `Finish` is `Conclude`, the rest stutters.

`ScrapeProofs` proves, for all ten sources and any lists of results, batch size
and limits (`ScrapeAssumption`):

* `ScrapeTypes`, `LossIsBounded`: `Spec => []Control`, where `Control` is `TypeOK`
  with what the positions of the code imply: a lead in hand where one is used,
  room in the batch before `Collect`, JustDial's last pass inside the batch and on
  the lead it started from, an outcome only after the loop, a scroll left before
  one is made. One lemma per shared step, one per source.
* `Accounted`: `Spec => []StreamAccounted`. Steps are sorted into *quiet* ones,
  which leave batch, `made` and `delivered` alone, the seven *stream steps*, and
  the ending ones (`StepKinds`); only the stream steps need an argument about
  sequences (`KeysConcat`, `CardsJoin`, `EnrichedBatch`).
* `ImplementsStream`: `Spec => IsStream`, by the same sorting: quiet steps stutter,
  a collected lead is `Find`, `Consume` is `Offer`, `Discard` or nothing, `Pushed` is
  `Accept` (`MadeIsHandedOver`, from `StreamAccounted`), `Ends` is `Stop`.
* `KeysOnce`: `Spec => []OneLeadPerKey`, from `KeysInSeen`: keys made are in `seen`,
  and the key in hand is there too but not made yet.
* `VisitsComeFirst`: `Spec => []VisitedBeforeDelivery`, from `TriedFirst`: the leads
  of the batch and the lead about to be collected have been visited.
* `StopsInTime`: `Spec => []StopsSoon`, from `InTime`. The bound alone does not say
  where a late request may begin; `InTime` says that after the abort the positions
  that begin requests under the signal are not reached again once a request was
  late, and that JustDial pays for each late request with a lead in its batch.

`LeadRowProofs` proves, for any clients, validators, sources and statuses
(`RowAssumption`), `RowTypes` and `PatchesOverwrite`: `Spec => OnlyPatchOverwrites`,
by showing that no other action takes anything from the row.

Model-checked only: the liveness properties (`StalledJobsSettle`,
`SubmittedJobsSettle`, `CampaignCompletesUnlessFailed`, `BatchesSettle`,
`CrawlEnds`, `ScrapeEnds`, `ValidatedInTheEnd`, `CacheCatchesUp`), since fairness
and `ENABLED` are out of the prover's reach.

## 5. Not modelled yet, and the plan

In this order, the most important behaviour first:

1. `JobLifecycle`: an abstract specification of a job (pending, running, settled,
   attempts) which `JobPipeline` implements, with the refinement proved as far
   as its safety part goes.
2. `ExportPaging`: pages of the CSV export with their limit and offset. The
   scoring and confidence functions as operators against their point tables.
3. The list of leads and campaigns with their filters and list caches.

Theorems to come: that a batch in `LeadIngest` comes back at most
`MaxRetryAttempts` times, the bound on `LossesBounded` per drainer, and the
safety part of the refinement of `JobLifecycle`.

Left out for good: extractors and page parsing (regular expressions over page
text), delays and user agents, logging, the HTTP edge (wiring of library
middleware), the SMTP and DNS dialogues, the progress stream (nothing publishes
to its channel), the `Rescrape` cron (never registered) and `check-job.cjs`.
