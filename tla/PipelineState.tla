---------------------------- MODULE PipelineState ----------------------------
(***************************************************************************)
(* The state the Go API and the TypeScript scraper share while a campaign  *)
(* runs: the campaigns and scrape_jobs tables, the Redis lists and keys,   *)
(* and the program counters of the code that moves a job along.            *)
(* CampaignService, Runner, LeadRecovery and Watchdog extend this module   *)
(* with the steps of each program; JobPipeline composes them.              *)
(***************************************************************************)
EXTENDS Integers, Sequences, FiniteSets

CONSTANTS
    Campaigns,         \* one per POST /campaigns request
    Jobs,              \* rows of scrape_jobs (source x city x category)
    CampaignOf,        \* scrape_jobs.campaign_id
    DropNoContact,     \* campaigns created with drop_no_contact
    UnknownSource,     \* jobs whose source is not in the runner's scraperMap
    Workers,           \* worker loops of the scraper processes
    Drainers,          \* one drainJobStatus loop per running API instance
    Watchdogs,         \* one watchdog loop per running API instance
    Viewers,           \* clients of GET /campaigns/{id}/status
    MaxAttempts,       \* WATCHDOG_MAX_ATTEMPTS (3 by default)
    MaxRetryAttempts,  \* maxRetryAttempts of lead_recovery.go (3)
    DailyLimit,        \* DAILY_CAMPAIGN_LIMIT (5 by default)
    MaxDay,            \* bound: UTC days the model lets pass
    MaxLeads,          \* bound: leads one scrape pushes
    MaxFaults,         \* bound: failed calls and process exits
    None               \* "no job", "no message", "no cached copy"

ASSUME JobsAssumption ==
    /\ IsFiniteSet(Jobs)
    /\ CampaignOf \in [Jobs -> Campaigns]
    /\ DropNoContact \subseteq Campaigns
    /\ UnknownSource \subseteq Jobs
    /\ None \notin Jobs

ASSUME ProcessesAssumption ==
    IsFiniteSet(Workers) /\ IsFiniteSet(Drainers) /\ IsFiniteSet(Watchdogs)

ASSUME BoundsAssumption ==
    /\ MaxAttempts \in Nat /\ MaxRetryAttempts \in Nat /\ DailyLimit \in Nat
    /\ MaxDay \in Nat \ {0} /\ MaxLeads \in Nat /\ MaxFaults \in Nat

VARIABLES
    campaigns,    \* Postgres table campaigns
    jobs,         \* Postgres table scrape_jobs
    scrapeQueue,  \* Redis list scrape_queue: how often each payload waits
    statusQueue,  \* Redis list job_status, first in first out
    leadBatches,  \* Redis list lead_batches: leads pushed per job and kind
    cache,        \* Redis keys campaign:<id>
    limit,        \* Redis keys campaign_limit:<UTC date>
    today,        \* the UTC date
    request,      \* the handlers of POST /campaigns
    worker, drainer, watchdog, viewer,
    faults        \* failed calls and process exits so far

tables  == <<campaigns, jobs>>
lists   == <<scrapeQueue, statusQueue, leadBatches>>
keys    == <<cache, limit>>
vars    == <<tables, lists, keys, today, request, worker, drainer, watchdog,
             viewer, faults>>

-----------------------------------------------------------------------------
(***************************************************************************)
(* Rows, payloads and process states.                                      *)
(***************************************************************************)
JobsOf(c) == {j \in Jobs : CampaignOf[j] = c}

CampaignStatuses == {"none", "active", "completed"}
CampaignRows == [status : CampaignStatuses, completed : Nat, leads : Nat]

JobStatuses == {"none", "pending", "in_progress", "completed", "timeout",
                "failed", "dead"}
JobRows == [status : JobStatuses, attempt : Nat, leads : Nat]

(* The statuses for which drainJobStatus updates the campaign counters.    *)
CountedStatuses == {"completed", "timeout"}
FinalStatuses == CountedStatuses \cup {"failed"}

Payloads == [job : Jobs, drop : BOOLEAN]
StatusMessages == [job : Jobs, status : {"in_progress"} \cup FinalStatuses,
                   leads : Nat, try : Nat]

(* A lead with a phone or an e-mail, and one with neither.                 *)
LeadKinds == {"contact", "bare"}

RequestPCs == {"new", "over", "counted", "inserted", "batched", "accepted",
               "rejected", "failed"}
WorkerStates == [pc : {"idle", "popped", "scraping"}, job : Jobs \cup {None},
                 drop : BOOLEAN, leads : Nat, aborted : BOOLEAN]
WatchdogStates == [pc : {"idle", "loop", "decide", "enqueue"},
                   job : Jobs \cup {None},
                   stalled : SUBSET Jobs, spent : SUBSET Jobs]

IdleWorker == [pc |-> "idle", job |-> None, drop |-> FALSE, leads |-> 0,
               aborted |-> FALSE]
IdleDrainer == [pc |-> "idle", msg |-> None, copy |-> None]
IdleWatchdog == [pc |-> "idle", job |-> None, stalled |-> {}, spent |-> {}]
IdleViewer == [campaign |-> None, copy |-> None]

Busy(w) == worker[w].pc # "idle"

DrainerStates == [pc : {"idle", "update", "count", "mark", "fetch", "fill", "refund"},
                  msg : StatusMessages \cup {None},
                  copy : CampaignRows \cup {None}]

CampaignsOK == campaigns \in [Campaigns -> CampaignRows]
JobsOK == jobs \in [Jobs -> JobRows]

ListsOK ==
    /\ scrapeQueue \in [Payloads -> Nat]
    /\ statusQueue \in Seq(StatusMessages)
    /\ leadBatches \in [Jobs -> [LeadKinds -> Nat]]

KeysOK ==
    /\ cache \in [Campaigns -> CampaignRows \cup {None}]
    /\ limit \in [1..MaxDay -> Int]
    /\ today \in 1..MaxDay

RequestsOK == request \in [Campaigns -> [pc : RequestPCs, day : 1..MaxDay]]

(* A busy worker has a job, a busy drainer a message, and so on.           *)
WorkersOK ==
    /\ worker \in [Workers -> WorkerStates]
    /\ \A w \in Workers : Busy(w) => worker[w].job \in Jobs

DrainersOK ==
    /\ drainer \in [Drainers -> DrainerStates]
    /\ \A d \in Drainers :
          /\ drainer[d].pc # "idle" => drainer[d].msg \in StatusMessages
          /\ drainer[d].pc = "fill" => drainer[d].copy \in CampaignRows

WatchdogsOK ==
    /\ watchdog \in [Watchdogs -> WatchdogStates]
    /\ \A g \in Watchdogs :
          /\ watchdog[g].pc = "decide" => watchdog[g].job \in watchdog[g].stalled
          /\ watchdog[g].pc = "enqueue" => watchdog[g].job \in Jobs

ViewersOK ==
    /\ viewer \in [Viewers -> [campaign : Campaigns \cup {None},
                               copy : CampaignRows \cup {None}]]
    /\ \A v \in Viewers : viewer[v].campaign # None =>
          viewer[v].campaign \in Campaigns /\ viewer[v].copy \in CampaignRows

(* Every variable has its type, and no step is reached without the data it *)
(* needs.                                                                  *)
TypeOK ==
    /\ CampaignsOK /\ JobsOK /\ ListsOK /\ KeysOK /\ RequestsOK
    /\ WorkersOK /\ DrainersOK /\ WatchdogsOK /\ ViewersOK
    /\ faults \in 0..MaxFaults

Init ==
    /\ campaigns = [c \in Campaigns |->
                        [status |-> "none", completed |-> 0, leads |-> 0]]
    /\ jobs = [j \in Jobs |-> [status |-> "none", attempt |-> 0, leads |-> 0]]
    /\ scrapeQueue = [p \in Payloads |-> 0]
    /\ statusQueue = <<>>
    /\ leadBatches = [j \in Jobs |-> [k \in LeadKinds |-> 0]]
    /\ cache = [c \in Campaigns |-> None]
    /\ limit = [d \in 1..MaxDay |-> 0]
    /\ today = 1
    /\ request = [c \in Campaigns |-> [pc |-> "new", day |-> 1]]
    /\ worker = [w \in Workers |-> IdleWorker]
    /\ drainer = [d \in Drainers |-> IdleDrainer]
    /\ watchdog = [g \in Watchdogs |-> IdleWatchdog]
    /\ viewer = [v \in Viewers |-> IdleViewer]
    /\ faults = 0

(***************************************************************************)
(* Every call to Postgres or Redis may fail and every process may exit; a  *)
(* step that shows such a failure spends one unit of the fault budget.     *)
(***************************************************************************)
Fault == faults < MaxFaults /\ faults' = faults + 1

(* Mutant: the status is pushed in front of the others (lpush).            *)
PushStatusFirst(j, status, leads) ==
    statusQueue' = <<[job |-> j, status |-> status, leads |-> leads, try |-> 0]>>
                   \o statusQueue

(* rpush at the end of job_status, as both the scraper and requeue() do.   *)
PushStatus(j, status, leads) ==
    statusQueue' = Append(statusQueue,
        [job |-> j, status |-> status, leads |-> leads, try |-> 0])
=============================================================================
