---------------------------- MODULE LeadRecovery ----------------------------
(***************************************************************************)
(* LeadRecovery.drainJobStatus, with one action per call to Redis or       *)
(* Postgres.  drainer[d].pc names the call the loop makes next; msg is the *)
(* status message it took from the queue.  The scheduler starts the loop   *)
(* again every 30 s, so a loop that returned is simply "idle".             *)
(***************************************************************************)
EXTENDS PipelineState

drainUnchanged == <<scrapeQueue, leadBatches, today, request, worker, watchdog,
                    viewer>>

DrainTo(d, pc) == drainer' = [drainer EXCEPT ![d].pc = pc]
DrainDone(d) == drainer' = [drainer EXCEPT ![d] = IdleDrainer]
Message(d) == drainer[d].msg
MessageCampaign(d) == CampaignOf[Message(d).job]

Dequeue(d) ==
    /\ drainer[d].pc = "idle" /\ statusQueue # <<>>
    /\ statusQueue' = Tail(statusQueue)
    /\ drainer' = [drainer EXCEPT ![d] =
                      [IdleDrainer EXCEPT !.pc = "update", !.msg = Head(statusQueue)]]
    /\ UNCHANGED <<tables, keys, faults, drainUnchanged>>

(* jobRepo.UpdateStatus: unconditional, whatever the row says.             *)
UpdateStatus(d) ==
    /\ drainer[d].pc = "update"
    /\ jobs' = [jobs EXCEPT ![Message(d).job].status = Message(d).status,
                            ![Message(d).job].leads = Message(d).leads]
    /\ IF Message(d).status \in CountedStatuses THEN DrainTo(d, "count")
                                                ELSE DrainDone(d)
    /\ UNCHANGED <<campaigns, statusQueue, keys, faults, drainUnchanged>>

(* Mutant: no "continue" after the requeue, the message is counted as well.*)
UpdateFailsAndCounts(d) ==
    /\ Fault
    /\ drainer[d].pc = "update" /\ Message(d).status \in CountedStatuses
    /\ statusQueue' = Append(statusQueue, [Message(d) EXCEPT !.try = @ + 1])
    /\ DrainTo(d, "count")
    /\ UNCHANGED <<tables, keys, drainUnchanged>>

(* The update fails: requeue() puts the message behind all the others,     *)
(* unless it was tried too often already, and the loop goes on.            *)
UpdateFails(d) ==
    /\ Fault
    /\ drainer[d].pc = "update"
    /\ statusQueue' =
          IF Message(d).try < MaxRetryAttempts
          THEN Append(statusQueue, [Message(d) EXCEPT !.try = @ + 1])
          ELSE statusQueue
    /\ DrainDone(d)
    /\ UNCHANGED <<tables, keys, drainUnchanged>>

(* campaignRepo.IncrementOnJobComplete, which drops the cached campaign.   *)
(* The GetByID before it reads the job's campaign, which never changes.    *)
Count(d) ==
    /\ drainer[d].pc = "count"
    /\ campaigns' = [campaigns EXCEPT ![MessageCampaign(d)].completed = @ + 1,
                                      ![MessageCampaign(d)].leads = @ + Message(d).leads]
    /\ cache' = [cache EXCEPT ![MessageCampaign(d)] = None]
    /\ DrainTo(d, "mark")
    /\ UNCHANGED <<jobs, statusQueue, limit, faults, drainUnchanged>>

(* The increment fails: logged, and the loop goes on without it.           *)
CountFails(d) ==
    /\ Fault
    /\ drainer[d].pc = "count"
    /\ DrainTo(d, "mark")
    /\ UNCHANGED <<tables, statusQueue, keys, drainUnchanged>>

(* Mutants: the comparison is off by one, either way.                       *)
AllButOneCounted(c) == campaigns[c].completed + 1 >= Cardinality(JobsOf(c))
MoreThanAllCounted(c) == campaigns[c].completed > Cardinality(JobsOf(c))

(* jobs_total is the number of jobs Create built; it is never 0.           *)
AllCounted(c) == campaigns[c].completed >= Cardinality(JobsOf(c))

(* campaignRepo.MarkCompletedIfDone, which drops the cached campaign too.  *)
MarkCompletedIfDone(d) ==
    /\ drainer[d].pc = "mark"
    /\ campaigns' = [campaigns EXCEPT ![MessageCampaign(d)].status =
                        IF @ = "active" /\ AllCounted(MessageCampaign(d))
                        THEN "completed" ELSE @]
    /\ cache' = [cache EXCEPT ![MessageCampaign(d)] = None]
    /\ DrainTo(d, "fetch")
    /\ UNCHANGED <<jobs, statusQueue, limit, faults, drainUnchanged>>

(* Mutant: campaigns with leads are refunded too.                          *)
RefundIfCompleted(d, copy) ==
    IF copy.status = "completed"
    THEN drainer' = [drainer EXCEPT ![d].pc = "refund", ![d].copy = None]
    ELSE DrainDone(d)

(* A campaign that ended without a lead gives its place of the day back.   *)
RefundIfEmpty(d, copy) ==
    IF copy.status = "completed" /\ copy.leads = 0
    THEN drainer' = [drainer EXCEPT ![d].pc = "refund", ![d].copy = None]
    ELSE DrainDone(d)

(* campaignRepo.GetByID: the cached campaign ...                           *)
FetchHit(d) ==
    /\ drainer[d].pc = "fetch" /\ cache[MessageCampaign(d)] # None
    /\ RefundIfEmpty(d, cache[MessageCampaign(d)])
    /\ UNCHANGED <<tables, statusQueue, keys, faults, drainUnchanged>>

(* ... or the row, read from Postgres ...                                  *)
FetchMiss(d) ==
    /\ drainer[d].pc = "fetch" /\ cache[MessageCampaign(d)] = None
    /\ drainer' = [drainer EXCEPT ![d].pc = "fill",
                                  ![d].copy = campaigns[MessageCampaign(d)]]
    /\ UNCHANGED <<tables, statusQueue, keys, faults, drainUnchanged>>

(* ... and stored in the cache.                                            *)
Fill(d) ==
    /\ drainer[d].pc = "fill"
    /\ cache' = [cache EXCEPT ![MessageCampaign(d)] = drainer[d].copy]
    /\ RefundIfEmpty(d, drainer[d].copy)
    /\ UNCHANGED <<tables, statusQueue, limit, faults, drainUnchanged>>

(* DECR of the key of the day on which the drainer runs.                   *)
Refund(d) ==
    /\ drainer[d].pc = "refund"
    /\ limit' = [limit EXCEPT ![today] = @ - 1]
    /\ DrainDone(d)
    /\ UNCHANGED <<tables, statusQueue, cache, faults, drainUnchanged>>

(* Any other failed call ends the handling of the message, and so does the *)
(* exit of the API process: a dequeued message is held in memory only.     *)
DrainStops(d) ==
    /\ Fault
    /\ drainer[d].pc # "idle"
    /\ DrainDone(d)
    /\ UNCHANGED <<tables, statusQueue, keys, drainUnchanged>>

DrainStep(d) ==
    \/ UpdateStatus(d) \/ Count(d) \/ MarkCompletedIfDone(d)
    \/ FetchHit(d) \/ FetchMiss(d) \/ Fill(d) \/ Refund(d)

LeadRecoveryNext ==
    \E d \in Drainers :
        Dequeue(d) \/ DrainStep(d) \/ UpdateFails(d) \/ CountFails(d) \/ DrainStops(d)
=============================================================================
