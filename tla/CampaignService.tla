--------------------------- MODULE CampaignService ---------------------------
(***************************************************************************)
(* POST /campaigns (CampaignService.Create) and GET /campaigns/{id}/status *)
(* (the read-through cache of CampaignRepo.GetByID), one action per call   *)
(* to Redis or Postgres.  request[c].pc is the place Create has reached.   *)
(***************************************************************************)
EXTENDS PipelineState

RequestStep(c, from, to) ==
    request[c].pc = from /\ request' = [request EXCEPT ![c].pc = to]

serviceUnchanged == <<statusQueue, leadBatches, today, worker, drainer, watchdog>>

(* Mutant: the count before the increment is compared with the limit.      *)
CheckLimitLate(c) ==
    /\ request[c].pc = "new"
    /\ limit' = [limit EXCEPT ![today] = @ + 1]
    /\ request' = [request EXCEPT ![c] =
            [pc |-> IF limit[today] > DailyLimit THEN "over" ELSE "counted",
             day |-> today]]
    /\ UNCHANGED <<tables, scrapeQueue, cache, viewer, faults, serviceUnchanged>>

(* INCR campaign_limit:<today>, then the comparison with the limit.        *)
CheckLimit(c) ==
    /\ request[c].pc = "new"
    /\ limit' = [limit EXCEPT ![today] = @ + 1]
    /\ request' = [request EXCEPT ![c] =
            [pc |-> IF limit'[today] > DailyLimit THEN "over" ELSE "counted",
             day |-> today]]
    /\ UNCHANGED <<tables, scrapeQueue, cache, viewer, faults, serviceUnchanged>>

(* DECR of the same key, then ErrDailyLimitReached.                        *)
RollBack(c) ==
    /\ RequestStep(c, "over", "rejected")
    /\ limit' = [limit EXCEPT ![request[c].day] = @ - 1]
    /\ UNCHANGED <<tables, scrapeQueue, cache, viewer, faults, serviceUnchanged>>

(* campaignRepo.Insert of an active row.                                   *)
InsertCampaign(c) ==
    /\ RequestStep(c, "counted", "inserted")
    /\ campaigns' = [campaigns EXCEPT ![c].status = "active"]
    /\ UNCHANGED <<jobs, scrapeQueue, keys, viewer, faults, serviceUnchanged>>

PendingRows(J) ==
    jobs' = [j \in Jobs |-> IF j \in J THEN [jobs[j] EXCEPT !.status = "pending"]
                                       ELSE jobs[j]]

(* jobRepo.InsertBatch: one INSERT per job.  Nothing reads a pending row   *)
(* before its payload is queued, so the loop is one step.                  *)
InsertJobs(c) ==
    /\ RequestStep(c, "inserted", "batched")
    /\ PendingRows(JobsOf(c))
    /\ UNCHANGED <<campaigns, scrapeQueue, keys, viewer, faults, serviceUnchanged>>

(* Mutant: the payloads lack the campaign's drop_no_contact flag.          *)
EnqueueJobsWithoutFlag(c) ==
    /\ RequestStep(c, "batched", "accepted")
    /\ scrapeQueue' = [p \in Payloads |->
          IF p.job \in JobsOf(c) /\ ~p.drop THEN scrapeQueue[p] + 1 ELSE scrapeQueue[p]]
    /\ UNCHANGED <<tables, keys, viewer, faults, serviceUnchanged>>

(* redis.EnqueueBatch of one payload per job, with the campaign's flag.    *)
EnqueueJobs(c) ==
    /\ RequestStep(c, "batched", "accepted")
    /\ scrapeQueue' = [p \in Payloads |->
          IF p.job \in JobsOf(c) /\ p.drop = (c \in DropNoContact)
          THEN scrapeQueue[p] + 1 ELSE scrapeQueue[p]]
    /\ UNCHANGED <<tables, keys, viewer, faults, serviceUnchanged>>

(* InsertBatch returns at the first error: the rows before it stay.        *)
InsertJobsFails(c) ==
    /\ Fault
    /\ RequestStep(c, "inserted", "failed")
    /\ \E J \in (SUBSET JobsOf(c)) \ {JobsOf(c)} : PendingRows(J)
    /\ UNCHANGED <<campaigns, scrapeQueue, keys, viewer, serviceUnchanged>>

(* Every other error return of Create, and the exit of the API process in  *)
(* the middle of it: what was done stays done, the increment included.     *)
CreateStops(c) ==
    /\ Fault
    /\ request[c].pc \in {"new", "over", "counted", "inserted", "batched"}
    /\ request' = [request EXCEPT ![c].pc =
                       IF @ = "over" THEN "rejected" ELSE "failed"]
    /\ UNCHANGED <<tables, scrapeQueue, keys, viewer, serviceUnchanged>>

-----------------------------------------------------------------------------
(* redis.Fetch on a miss: the row is read from Postgres ...                *)
ViewerLoads(v, c) ==
    /\ viewer[v].campaign = None
    /\ campaigns[c].status # "none"
    /\ cache[c] = None
    /\ viewer' = [viewer EXCEPT ![v] = [campaign |-> c, copy |-> campaigns[c]]]
    /\ UNCHANGED <<tables, scrapeQueue, keys, request, faults, serviceUnchanged>>

(* ... and stored under campaign:<id>, however old it is by then.          *)
ViewerFills(v) ==
    /\ viewer[v].campaign # None
    /\ cache' = [cache EXCEPT ![viewer[v].campaign] = viewer[v].copy]
    /\ viewer' = [viewer EXCEPT ![v] = IdleViewer]
    /\ UNCHANGED <<tables, scrapeQueue, limit, request, faults,
                   serviceUnchanged>>

(* CACHE_CAMPAIGN_TTL_SEC passes.                                          *)
CacheExpires(c) ==
    /\ cache[c] # None
    /\ cache' = [cache EXCEPT ![c] = None]
    /\ UNCHANGED <<tables, scrapeQueue, limit, request, viewer, faults,
                   serviceUnchanged>>

(* Midnight UTC: dailyLimitKey() names a new key.                          *)
NextDay ==
    /\ today < MaxDay
    /\ today' = today + 1
    /\ UNCHANGED <<tables, lists, keys, request, worker, drainer, watchdog,
                   viewer, faults>>

CreateStep(c) ==
    \/ CheckLimit(c) \/ RollBack(c) \/ InsertCampaign(c) \/ InsertJobs(c)
    \/ EnqueueJobs(c)

CampaignServiceNext ==
    \/ \E c \in Campaigns : \/ CreateStep(c)
                            \/ InsertJobsFails(c)
                            \/ CreateStops(c)
                            \/ CacheExpires(c)
    \/ \E v \in Viewers : \/ \E c \in Campaigns : ViewerLoads(v, c)
                          \/ ViewerFills(v)
    \/ NextDay
=============================================================================
