------------------------------- MODULE Runner -------------------------------
(***************************************************************************)
(* The worker loops of the scraper (runner.ts): BLPOP a job, run its       *)
(* scraper, push its leads and its statuses.  A worker is "popped" from    *)
(* the BLPOP to the in_progress push and "scraping" until its last push.   *)
(***************************************************************************)
EXTENDS PipelineState

runnerUnchanged == <<tables, keys, today, request, drainer, watchdog, viewer>>

Idle(w) == worker' = [worker EXCEPT ![w] = IdleWorker]

(* BLPOP returns any waiting payload: the end of the list at which the     *)
(* API's kit pushes is not part of the repository.                         *)
Pop(w) ==
    /\ worker[w].pc = "idle"
    /\ \E p \in Payloads :
          /\ scrapeQueue[p] > 0
          /\ scrapeQueue' = [scrapeQueue EXCEPT ![p] = @ - 1]
          /\ worker' = [worker EXCEPT ![w] =
                [IdleWorker EXCEPT !.pc = "popped", !.job = p.job, !.drop = p.drop]]
    /\ UNCHANGED <<statusQueue, leadBatches, faults, runnerUnchanged>>

(* No scraper is registered for the job's source.                          *)
RejectUnknown(w) ==
    /\ worker[w].pc = "popped" /\ worker[w].job \in UnknownSource
    /\ PushStatus(worker[w].job, "failed", 0)
    /\ Idle(w)
    /\ UNCHANGED <<scrapeQueue, leadBatches, faults, runnerUnchanged>>

Start(w) ==
    /\ worker[w].pc = "popped" /\ worker[w].job \notin UnknownSource
    /\ PushStatus(worker[w].job, "in_progress", 0)
    /\ worker' = [worker EXCEPT ![w].pc = "scraping"]
    /\ UNCHANGED <<scrapeQueue, leadBatches, faults, runnerUnchanged>>

(* Mutant: the leads of the raw batch are counted, not the pushed ones.     *)
PushBatchCountRaw(w) ==
    /\ worker[w].pc = "scraping" /\ ~worker[w].aborted
    /\ \E rawBatch \in SUBSET LeadKinds :
          LET batch == IF worker[w].drop THEN rawBatch \ {"bare"} ELSE rawBatch
          IN  /\ batch # {}
              /\ worker[w].leads + Cardinality(batch) <= MaxLeads
              /\ leadBatches' = [leadBatches EXCEPT ![worker[w].job] =
                    [k \in LeadKinds |-> IF k \in batch THEN @[k] + 1 ELSE @[k]]]
              /\ worker' = [worker EXCEPT ![w].leads = @ + Cardinality(rawBatch)]
    /\ UNCHANGED <<scrapeQueue, statusQueue, faults, runnerUnchanged>>

(* The scraper yields a batch; leads without contact are dropped if the    *)
(* payload says so, and nothing is pushed for a batch left empty.          *)
PushBatch(w) ==
    /\ worker[w].pc = "scraping" /\ ~worker[w].aborted
    /\ \E rawBatch \in SUBSET LeadKinds :
          LET batch == IF worker[w].drop THEN rawBatch \ {"bare"} ELSE rawBatch
          IN  /\ batch # {}
              /\ worker[w].leads + Cardinality(batch) <= MaxLeads
              /\ leadBatches' = [leadBatches EXCEPT ![worker[w].job] =
                    [k \in LeadKinds |-> IF k \in batch THEN @[k] + 1 ELSE @[k]]]
              /\ worker' = [worker EXCEPT ![w].leads = @ + Cardinality(batch)]
    /\ UNCHANGED <<scrapeQueue, statusQueue, faults, runnerUnchanged>>

(* setTimeout(jobTimeoutMs) aborts the scrape.                             *)
JobTimeout(w) ==
    /\ Busy(w) /\ worker[w].job \notin UnknownSource /\ ~worker[w].aborted
    /\ worker' = [worker EXCEPT ![w].aborted = TRUE]
    /\ UNCHANGED <<lists, faults, runnerUnchanged>>

(* The scraper's generator ends, or the loop is left after an abort.       *)
Finish(w) ==
    /\ worker[w].pc = "scraping"
    /\ PushStatus(worker[w].job,
                  IF worker[w].aborted THEN "timeout" ELSE "completed",
                  worker[w].leads)
    /\ Idle(w)
    /\ UNCHANGED <<scrapeQueue, leadBatches, faults, runnerUnchanged>>

(* The scraper throws, or a push of a batch or of the final status is      *)
(* rejected and the catch block's own push gets through.                   *)
ScrapeFails(w) ==
    /\ worker[w].pc = "scraping"
    /\ PushStatus(worker[w].job, "failed", worker[w].leads)
    /\ Idle(w)
    /\ UNCHANGED <<scrapeQueue, leadBatches, faults, runnerUnchanged>>

(* The in_progress push is rejected: the catch block reports a failure.    *)
StartFails(w) ==
    /\ Fault
    /\ worker[w].pc = "popped" /\ worker[w].job \notin UnknownSource
    /\ PushStatus(worker[w].job, "failed", 0)
    /\ Idle(w)
    /\ UNCHANGED <<scrapeQueue, leadBatches, runnerUnchanged>>

(* The last push is rejected and forgotten (.catch, or the worker loop's   *)
(* own catch), or the process exits: SIGTERM calls process.exit at once,   *)
(* and what its workers hold is gone.                                      *)
WorkersStop(W) ==
    /\ Fault
    /\ \A w \in W : Busy(w)
    /\ worker' = [w \in Workers |-> IF w \in W THEN IdleWorker ELSE worker[w]]
    /\ UNCHANGED <<lists, runnerUnchanged>>

RunnerStep(w) ==
    \/ Pop(w) \/ RejectUnknown(w) \/ Start(w) \/ PushBatch(w)
    \/ JobTimeout(w) \/ Finish(w) \/ ScrapeFails(w)

RunnerNext ==
    \/ \E w \in Workers : RunnerStep(w) \/ StartFails(w)
    \/ \E W \in (SUBSET Workers) \ {{}} : WorkersStop(W)
=============================================================================
