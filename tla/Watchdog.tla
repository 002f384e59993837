------------------------------ MODULE Watchdog ------------------------------
(***************************************************************************)
(* Watchdog.Run: the jobs read as stalled are killed one after the other   *)
(* and put back on the queue, or marked dead.  stalled is what is left of  *)
(* the rows the query returned, and spent those of them whose              *)
(* attempt_count, AS THE QUERY READ IT, had reached the maximum.           *)
(***************************************************************************)
EXTENDS PipelineState

watchUnchanged == <<campaigns, statusQueue, leadBatches, keys, today, request,
                    drainer, viewer>>

(* Mutants: attempt_count > maximum instead of >=, and a query that leaves *)
(* the exhausted jobs out.                                                 *)
GetStalledJobsOneMore(g) ==
    /\ watchdog[g].pc = "idle"
    /\ \E S \in SUBSET {j \in Jobs : jobs[j].status = "in_progress"} :
          /\ S # {}
          /\ watchdog' = [watchdog EXCEPT ![g] =
                [pc |-> "loop", job |-> None, stalled |-> S,
                 spent |-> {j \in S : jobs[j].attempt > MaxAttempts}]]
    /\ UNCHANGED <<jobs, scrapeQueue, worker, faults, watchUnchanged>>

GetStalledJobsToRetry(g) ==
    /\ watchdog[g].pc = "idle"
    /\ \E S \in SUBSET {j \in Jobs : /\ jobs[j].status = "in_progress"
                                     /\ jobs[j].attempt < MaxAttempts} :
          /\ S # {}
          /\ watchdog' = [watchdog EXCEPT ![g] =
                [pc |-> "loop", job |-> None, stalled |-> S, spent |-> {}]]
    /\ UNCHANGED <<jobs, scrapeQueue, worker, faults, watchUnchanged>>

(* GetStalledJobs.  Any nonempty set of in_progress rows may be older than *)
(* WATCHDOG_STALE_THRESHOLD_SEC: a row is touched only when a message for  *)
(* its job is drained, however far the job has come meanwhile.             *)
GetStalledJobs(g) ==
    /\ watchdog[g].pc = "idle"
    /\ \E S \in SUBSET {j \in Jobs : jobs[j].status = "in_progress"} :
          /\ S # {}
          /\ watchdog' = [watchdog EXCEPT ![g] =
                [pc |-> "loop", job |-> None, stalled |-> S,
                 spent |-> {j \in S : jobs[j].attempt >= MaxAttempts}]]
    /\ UNCHANGED <<jobs, scrapeQueue, worker, faults, watchUnchanged>>

(* PUBLISH job_kill reaches the workers subscribed at that moment: any of  *)
(* those on the job, or none (at most once, an error is only logged).      *)
Kill(g) ==
    /\ watchdog[g].pc = "loop"
    /\ \E j \in watchdog[g].stalled :
          /\ \E W \in SUBSET {w \in Workers : worker[w].job = j} :
                worker' = [w \in Workers |->
                    IF w \in W THEN [worker[w] EXCEPT !.aborted = TRUE]
                               ELSE worker[w]]
          /\ watchdog' = [watchdog EXCEPT ![g].pc = "decide", ![g].job = j]
    /\ UNCHANGED <<jobs, scrapeQueue, faults, watchUnchanged>>

(* Mutants: the job to queue is forgotten, and the job is not taken off    *)
(* the list of the stalled ones.                                           *)
AdvanceForgets(g, pc) ==
    watchdog' = [watchdog EXCEPT ![g] =
        [pc |-> pc, job |-> None,
         stalled |-> watchdog[g].stalled \ {watchdog[g].job}, spent |-> {}]]

AdvanceRepeats(g, pc) == watchdog' = [watchdog EXCEPT ![g].pc = pc]

(* The job's part of the loop is over; pc is where the loop goes.          *)
Advance(g, pc) ==
    LET left == watchdog[g].stalled \ {watchdog[g].job}
    IN  watchdog' = [watchdog EXCEPT ![g] =
            IF pc = "loop" /\ left = {} THEN IdleWatchdog
            ELSE [pc |-> pc,
                  job |-> IF pc = "loop" THEN None ELSE watchdog[g].job,
                  stalled |-> left, spent |-> watchdog[g].spent \cap left]]

Exhausted(g) == watchdog[g].job \in watchdog[g].spent

MarkDead(g) ==
    /\ watchdog[g].pc = "decide" /\ Exhausted(g)
    /\ jobs' = [jobs EXCEPT ![watchdog[g].job].status = "dead"]
    /\ Advance(g, "loop")
    /\ UNCHANGED <<scrapeQueue, worker, faults, watchUnchanged>>

(* Mutants: the job is not queued again, or attempt_count not raised.      *)
RequeueJobOnly(g) ==
    /\ watchdog[g].pc = "decide" /\ ~Exhausted(g)
    /\ jobs' = [jobs EXCEPT ![watchdog[g].job].status = "pending",
                            ![watchdog[g].job].attempt = @ + 1]
    /\ Advance(g, "loop")
    /\ UNCHANGED <<scrapeQueue, worker, faults, watchUnchanged>>

RequeueJobUncounted(g) ==
    /\ watchdog[g].pc = "decide" /\ ~Exhausted(g)
    /\ jobs' = [jobs EXCEPT ![watchdog[g].job].status = "pending"]
    /\ Advance(g, "enqueue")
    /\ UNCHANGED <<scrapeQueue, worker, faults, watchUnchanged>>

(* RequeueJob: whatever the row says by now.                               *)
RequeueJob(g) ==
    /\ watchdog[g].pc = "decide" /\ ~Exhausted(g)
    /\ jobs' = [jobs EXCEPT ![watchdog[g].job].status = "pending",
                            ![watchdog[g].job].attempt = @ + 1]
    /\ Advance(g, "enqueue")
    /\ UNCHANGED <<scrapeQueue, worker, faults, watchUnchanged>>

(* The payload of a retry has no drop_no_contact field.                    *)
RequeuePayload(j) == [job |-> j, drop |-> FALSE]

Enqueue(g) ==
    /\ watchdog[g].pc = "enqueue"
    /\ scrapeQueue' = [scrapeQueue EXCEPT ![RequeuePayload(watchdog[g].job)] = @ + 1]
    /\ Advance(g, "loop")
    /\ UNCHANGED <<jobs, worker, faults, watchUnchanged>>

(* MarkDead, RequeueJob or Enqueue fails: logged, next job.                *)
WatchdogCallFails(g) ==
    /\ Fault
    /\ watchdog[g].pc \in {"decide", "enqueue"}
    /\ Advance(g, "loop")
    /\ UNCHANGED <<jobs, scrapeQueue, worker, watchUnchanged>>

(* The API process exits in the middle of the loop.                        *)
WatchdogStops(g) ==
    /\ Fault
    /\ watchdog[g].pc # "idle"
    /\ watchdog' = [watchdog EXCEPT ![g] = IdleWatchdog]
    /\ UNCHANGED <<jobs, scrapeQueue, worker, watchUnchanged>>

WatchdogStep(g) ==
    \/ Kill(g) \/ MarkDead(g) \/ RequeueJob(g) \/ Enqueue(g)

WatchdogNext ==
    \E g \in Watchdogs :
        \/ GetStalledJobs(g) \/ WatchdogStep(g)
        \/ WatchdogCallFails(g) \/ WatchdogStops(g)
=============================================================================
