----------------------------- MODULE JobPipeline -----------------------------
(***************************************************************************)
(* The life of a campaign from POST /campaigns to 'completed': the API's   *)
(* handlers, its two cron jobs and the scraper's workers, interleaved.     *)
(* An API instance runs one drainer and one watchdog; the exit of an       *)
(* instance is the exit of each of its activities, in any order.           *)
(***************************************************************************)
EXTENDS CampaignService, Runner, LeadRecovery, Watchdog

Next == CampaignServiceNext \/ RunnerNext \/ LeadRecoveryNext \/ WatchdogNext

Spec == Init /\ [][Next]_vars

(***************************************************************************)
(* Fairness.  A handler that is still running makes its next call, a free  *)
(* worker takes a waiting job and every scrape ends (jobTimeoutMs aborts   *)
(* it), the scheduler starts the drain loop again and again, and a row     *)
(* that nothing touches becomes stale and is found by the watchdog.        *)
(* Nothing is assumed of failures, of viewers or of the clock.             *)
(***************************************************************************)
EndScrape(w) == Finish(w) \/ ScrapeFails(w)

Stalls(g, j) == GetStalledJobs(g) /\ j \in watchdog'[g].stalled

Fairness ==
    /\ \A c \in Campaigns : WF_vars(CreateStep(c))
    /\ \A w \in Workers : /\ WF_vars(Pop(w))
                          /\ WF_vars(RejectUnknown(w))
                          /\ WF_vars(Start(w))
                          /\ WF_vars(EndScrape(w))
    /\ \A d \in Drainers : WF_vars(Dequeue(d)) /\ WF_vars(DrainStep(d))
    /\ \A g \in Watchdogs : /\ WF_vars(WatchdogStep(g))
                            /\ \A j \in Jobs : WF_vars(Stalls(g, j))

FairSpec == Spec /\ Fairness

-----------------------------------------------------------------------------
(***************************************************************************)
(* Attempts.                                                               *)
(***************************************************************************)

(* The watchdogs that still mean to requeue the job they read as stalled.  *)
Requeuers(j) ==
    {g \in Watchdogs : j \in watchdog[g].stalled \ watchdog[g].spent}

(* A job is requeued at most WATCHDOG_MAX_ATTEMPTS times, plus once for    *)
(* every further API instance whose watchdog read the row before another   *)
(* one had requeued it (GetStalledJobs and RequeueJob are two statements   *)
(* and the second is unconditional).                                       *)
AttemptsBounded ==
    \A j \in Jobs : \/ jobs[j].attempt = 0
                    \/ jobs[j].attempt < MaxAttempts + Cardinality(Watchdogs)

(* The inductive form: the requeues still to come are counted as well.     *)
Reserved(j) ==
    \/ jobs[j].attempt = 0 /\ Requeuers(j) = {}
    \/ jobs[j].attempt + Cardinality(Requeuers(j))
           < MaxAttempts + Cardinality(Watchdogs)

AttemptsReserved == \A j \in Jobs : Reserved(j)

-----------------------------------------------------------------------------
(***************************************************************************)
(* What the counters of a campaign stand for.                              *)
(***************************************************************************)

(* The sum of the values of f \in [S -> Nat], as the number of units they  *)
(* are made of.                                                            *)
Units(f) == UNION {{x} \X (1..f[x]) : x \in DOMAIN f}
Total(f) == Cardinality(Units(f))

(* The sum of the values of f \in [S -> Int].                              *)
Net(f) == Total(f) - Total([x \in DOMAIN f |-> -f[x]])

(* Messages a campaign's counters have still to take in.                   *)
CountedMessage(m, c) == m.status \in CountedStatuses /\ CampaignOf[m.job] = c

Reported(c) == {i \in 1..Len(statusQueue) : CountedMessage(statusQueue[i], c)}

Counting(c) == {d \in Drainers : /\ drainer[d].pc \in {"update", "count"}
                                 /\ CountedMessage(drainer[d].msg, c)}

Running(c) == {w \in Workers : Busy(w) /\ worker[w].job \in JobsOf(c)}

Waiting(c) == Total([p \in {q \in Payloads : q.job \in JobsOf(c)} |-> scrapeQueue[p]])

Requeueing(c) == {g \in Watchdogs : /\ watchdog[g].pc = "enqueue"
                                    /\ watchdog[g].job \in JobsOf(c)}

(* Runs of the campaign's jobs that may still be counted.                  *)
OpenRuns(c) == Waiting(c) + Cardinality(Requeueing(c)) + Cardinality(Running(c))
               + Cardinality(Reported(c)) + Cardinality(Counting(c))

Retries(c) == Total([j \in JobsOf(c) |-> jobs[j].attempt])

(* Leads that are still to be added to leads_found, and leads pushed.      *)
RunningLeads(c) == Total([w \in Running(c) |-> worker[w].leads])
ReportedLeads(c) == Total([i \in Reported(c) |-> statusQueue[i].leads])
CountingLeads(c) == Total([d \in Counting(c) |-> drainer[d].msg.leads])

OpenLeads(c) == RunningLeads(c) + ReportedLeads(c) + CountingLeads(c)

PushedLeads(c) ==
    Total([j \in JobsOf(c) |-> leadBatches[j]["contact"] + leadBatches[j]["bare"]])

(* No run is counted twice: jobs_completed and the runs that may still be  *)
(* counted never exceed one per job and one per requeue, whatever is lost, *)
(* late or repeated.  (A campaign without a requeue that is 'completed'    *)
(* therefore has no run left anywhere.)                                    *)
RunsAccounted ==
    \A c \in Campaigns :
        campaigns[c].completed + OpenRuns(c) <= Cardinality(JobsOf(c)) + Retries(c)

(* leads_found counts only leads that were pushed to lead_batches, each at *)
(* most once over all the runs, statuses and drainers of the campaign.     *)
LeadsAccounted ==
    \A c \in Campaigns :
        campaigns[c].leads + OpenLeads(c) <= PushedLeads(c)

NeverRequeued(c) == \A j \in JobsOf(c) : jobs[j].attempt = 0

Unfinished(j) == jobs[j].status \in {"pending", "in_progress"}

(* campaign_repo.go:129: a completed campaign has no unfinished job.       *)
CompletedMeansAllFinished ==
    \A c \in Campaigns :
        campaigns[c].status = "completed" => \A j \in JobsOf(c) : ~Unfinished(j)

(* ... which holds as long as no job of the campaign was requeued and one  *)
(* drainer applies the statuses in the order of the queue.                 *)
CompletedMeansAllFinishedOnce ==
    \A c \in Campaigns :
        campaigns[c].status = "completed" /\ NeverRequeued(c) /\ faults = 0
            => \A j \in JobsOf(c) : ~Unfinished(j)

-----------------------------------------------------------------------------
(***************************************************************************)
(* Jobs.                                                                   *)
(***************************************************************************)

(* Somebody still holds the job: a payload, a worker, a status message or  *)
(* a watchdog about to queue it.                                           *)
Held(j) ==
    \/ \E p \in Payloads : p.job = j /\ scrapeQueue[p] > 0
    \/ \E w \in Workers : Busy(w) /\ worker[w].job = j
    \/ \E i \in 1..Len(statusQueue) : statusQueue[i].job = j
    \/ \E d \in Drainers : drainer[d].pc = "update" /\ drainer[d].msg.job = j
    \/ \E g \in Watchdogs : watchdog[g].pc = "enqueue" /\ watchdog[g].job = j

Submitted(j) == request[CampaignOf[j]].pc = "accepted"

(* A pending row has nobody to find it again (the watchdog reads           *)
(* in_progress rows only), so a pending job must be held by somebody.      *)
Orphan(j) == Submitted(j) /\ jobs[j].status = "pending" /\ ~Held(j)

(* As long as nothing fails, no interleaving of retries, kills and late    *)
(* statuses leaves a job orphaned.                                         *)
NoOrphans == faults = 0 => \A j \in Jobs : ~Orphan(j)

(* PLAN.md:141: a crash of the scraper loses no job.                       *)
CrashLosesNothing == \A j \in Jobs : ~Orphan(j)

(* With one drainer and no failure, a job that was never requeued keeps    *)
(* the final status it reported: no late in_progress overwrites it.        *)
FinalStatusSticks ==
    [][\A j \in Jobs : /\ jobs[j].status \in FinalStatuses
                       /\ jobs'[j].attempt = 0
                       /\ faults' = 0
                       => jobs'[j].status = jobs[j].status]_vars

(* runner.ts:110: leads with neither phone nor e-mail are dropped if the   *)
(* campaign asks for it.                                                   *)
ContactlessDropped ==
    \A j \in Jobs : CampaignOf[j] \in DropNoContact => leadBatches[j]["bare"] = 0

(* ... which holds for the jobs that were never requeued.                  *)
ContactlessDroppedOnce ==
    \A j \in Jobs : CampaignOf[j] \in DropNoContact /\ jobs[j].attempt = 0
                        => leadBatches[j]["bare"] = 0
-----------------------------------------------------------------------------
(***************************************************************************)
(* The daily limit.                                                        *)
(***************************************************************************)

(* campaign_repo.go:142: the campaigns charged to a day that have leads or *)
(* are still active.                                                       *)
ChargedTo(day) ==
    {c \in Campaigns : /\ campaigns[c].status # "none"
                       /\ request[c].day = day
                       /\ campaigns[c].status = "active" \/ campaigns[c].leads > 0}

(* "daily campaign limit reached (5 per day)": campaigns that ended without*)
(* a lead are refunded, the others never exceed the limit, however the     *)
(* creations, the refunds and the readers of the cache interleave.         *)
DailyLimitHolds ==
    \A day \in 1..MaxDay : Cardinality(ChargedTo(day)) <= DailyLimit

(* What remains of that when campaigns outlive midnight: the refund goes   *)
(* to the key of the day on which the campaign ends, so a day may take one *)
(* campaign more for each empty one of an earlier day.  (Without requeues: *)
(* a retry may bring leads to a campaign that was refunded as empty.)      *)
DailyLimitHoldsUpToCarryOver ==
    \A day \in 1..MaxDay :
        Cardinality(ChargedTo(day)) <= DailyLimit
            + Cardinality({c \in Campaigns : /\ request[c].day < day
                                             /\ campaigns[c].status = "completed"
                                             /\ campaigns[c].leads = 0})

(* lead_recovery.go:165: when no handler and no drainer is at work and     *)
(* nothing failed or was retried, the Redis counters stand for the         *)
(* campaigns charged to them: an empty campaign is never refunded twice,   *)
(* and is refunded once unless a stale cached copy hid its end.            *)
RefundsAccounted ==
    (/\ faults = 0
     /\ \A c \in Campaigns : /\ request[c].pc \in {"new", "accepted", "rejected"}
                             /\ NeverRequeued(c)
     /\ \A d \in Drainers : drainer[d].pc = "idle")
    => LET counted == Net(limit)
           charged == Cardinality(UNION {ChargedTo(day) : day \in 1..MaxDay})
       IN  /\ counted >= charged
           /\ Viewers = {} => counted = charged

-----------------------------------------------------------------------------
(***************************************************************************)
(* Progress, under FairSpec.                                               *)
(***************************************************************************)
Settled(j) == jobs[j].status \in FinalStatuses \cup {"dead"}

(* Once nothing fails any more, a job that is in_progress does not stay    *)
(* there: its worker reports, or the watchdog retries it until it ends or  *)
(* is dead.                                                                *)
StalledJobsSettle ==
    \A j \in Jobs :
        (jobs[j].status = "in_progress" /\ faults = MaxFaults) ~> Settled(j)

(* A submitted job settles unless something fails.                         *)
SubmittedJobsSettle ==
    \A j \in Jobs : Submitted(j) ~> (Settled(j) \/ faults > 0)

(* A campaign is marked completed unless something fails, or one of its    *)
(* jobs fails or dies.                                                     *)
CampaignCompletesUnlessFailed ==
    \A c \in Campaigns :
        request[c].pc = "accepted"
            ~> (\/ campaigns[c].status = "completed"
                \/ \E j \in JobsOf(c) : jobs[j].status \in {"failed", "dead"}
                \/ faults > 0)

(* campaign_repo.go:129: when all jobs of a campaign are finished, the     *)
(* campaign is marked completed.                                           *)
FinishedCampaignCompletes ==
    \A c \in Campaigns :
        (request[c].pc = "accepted" /\ \A j \in JobsOf(c) : Settled(j))
            ~> (campaigns[c].status = "completed" \/ faults > 0)
=============================================================================
