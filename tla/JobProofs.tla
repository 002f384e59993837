----------------------------- MODULE JobProofs ------------------------------
(***************************************************************************)
(* Theorems about single jobs of JobPipeline, for any number of campaigns, *)
(* jobs, workers and API instances: no job is orphaned, leads without      *)
(* contact stay dropped, and, with one drainer, final statuses stick and a *)
(* completed campaign has no unfinished job.                               *)
(***************************************************************************)
EXTENDS AccountingProofs

-----------------------------------------------------------------------------
(***************************************************************************)
(* No job is orphaned while nothing fails.                                 *)
(***************************************************************************)

(* The fault budget is never refilled.                                     *)
LEMMA FaultsStay ==
    ASSUME TypeOK, [Next]_vars
    PROVE  faults \in Nat /\ (faults' = faults \/ faults' = faults + 1)
<1>1. faults \in Nat
  BY DEF TypeOK
<1>2. CampaignServiceNext => faults' = faults \/ faults' = faults + 1
  BY DEF CampaignServiceNext, CreateStep, CheckLimit, RollBack, InsertCampaign,
         InsertJobs, EnqueueJobs, InsertJobsFails, CreateStops, ViewerLoads,
         ViewerFills, CacheExpires, NextDay, Fault
<1>3. RunnerNext => faults' = faults \/ faults' = faults + 1
  BY DEF RunnerNext, RunnerStep, Pop, RejectUnknown, Start, PushBatch,
         JobTimeout, Finish, ScrapeFails, StartFails, WorkersStop, Fault
<1>4. LeadRecoveryNext => faults' = faults \/ faults' = faults + 1
  BY DEF LeadRecoveryNext, DrainStep, Dequeue, UpdateStatus, UpdateFails,
         Count, CountFails, MarkCompletedIfDone, FetchHit, FetchMiss, Fill,
         Refund, DrainStops, Fault
<1>5. WatchdogNext => faults' = faults \/ faults' = faults + 1
  BY DEF WatchdogNext, WatchdogStep, GetStalledJobs, Kill, MarkDead,
         RequeueJob, Enqueue, WatchdogCallFails, WatchdogStops, Fault
<1>6. UNCHANGED vars => faults' = faults
  BY DEF vars
<1> QED
  BY <1>1, <1>2, <1>3, <1>4, <1>5, <1>6 DEF Next

(* CampaignService touches no row of a submitted campaign, and queues the  *)
(* payloads of one it accepts.                                             *)
LEMMA ServiceNoOrphan ==
    ASSUME TypeOK, TypeOK', CampaignServiceNext, NEW j \in Jobs, ~Orphan(j)
    PROVE  ~Orphan(j)'
<1> SUFFICES ASSUME Submitted(j)', jobs'[j].status = "pending"
             PROVE  Held(j)'
  BY DEF Orphan
<1>1. CampaignOf[j] \in Campaigns /\ request \in [Campaigns -> [pc : RequestPCs, day : 1..MaxDay]]
  BY JobsAssumption DEF TypeOK, RequestsOK
<1>2. UNCHANGED <<worker, statusQueue, drainer, watchdog>>
  BY DEF CampaignServiceNext, CreateStep, CheckLimit, RollBack, InsertCampaign,
         InsertJobs, EnqueueJobs, InsertJobsFails, CreateStops, ViewerLoads,
         ViewerFills, CacheExpires, NextDay, serviceUnchanged, lists
<1>3. CASE EnqueueJobs(CampaignOf[j])
  <2> DEFINE flag == CampaignOf[j] \in DropNoContact
             p == [job |-> j, drop |-> flag]
  <2>1. flag \in BOOLEAN
    OBVIOUS
  <2>2. scrapeQueue'[p] = scrapeQueue[p] + 1 /\ p \in Payloads /\ p.job = j
    <3>1. scrapeQueue' = [q \in Payloads |->
              IF q.job \in JobsOf(CampaignOf[j]) /\ q.drop = flag
              THEN scrapeQueue[q] + 1 ELSE scrapeQueue[q]]
      BY <1>3 DEF EnqueueJobs
    <3> HIDE DEF flag
    <3>2. p \in Payloads /\ p.job = j /\ p.drop = flag
      BY <2>1 DEF Payloads
    <3>3. j \in JobsOf(CampaignOf[j])
      BY DEF JobsOf
    <3> QED
      BY <3>1, <3>2, <3>3
  <2> HIDE DEF p
  <2>3. scrapeQueue'[p] > 0
    BY <2>2 DEF TypeOK, ListsOK
  <2> QED
    BY <2>2, <2>3 DEF Held
<1>4. CASE ~EnqueueJobs(CampaignOf[j])
  <2>1. Submitted(j)
    BY <1>1, <1>4
       DEF Submitted, CampaignServiceNext, CreateStep, CheckLimit, RollBack,
           InsertCampaign, InsertJobs, EnqueueJobs, InsertJobsFails, CreateStops,
           ViewerLoads, ViewerFills, CacheExpires, NextDay, RequestStep
  <2>2. jobs'[j] = jobs[j]
    <3>1. ASSUME NEW c \in Campaigns, InsertJobs(c) \/ InsertJobsFails(c)
          PROVE  jobs'[j] = jobs[j]
      <4>1. j \notin JobsOf(c)
        BY <2>1, <3>1 DEF InsertJobs, InsertJobsFails, RequestStep, Submitted, JobsOf
      <4>2. \E J \in SUBSET JobsOf(c) : PendingRows(J)
        BY <3>1 DEF InsertJobs, InsertJobsFails
      <4> QED
        BY <4>1, <4>2 DEF PendingRows
    <3> QED
      BY <3>1 DEF CampaignServiceNext, CreateStep, CheckLimit, RollBack, InsertCampaign,
         EnqueueJobs, CreateStops, ViewerLoads, ViewerFills, CacheExpires, NextDay, tables
  <2>3. \A p \in Payloads : scrapeQueue'[p] >= scrapeQueue[p]
    <3>1. ASSUME NEW c \in Campaigns, EnqueueJobs(c), NEW p \in Payloads
          PROVE  scrapeQueue'[p] >= scrapeQueue[p]
      BY <3>1 DEF EnqueueJobs, TypeOK, ListsOK
    <3>2. UNCHANGED scrapeQueue \/ \E c \in Campaigns : EnqueueJobs(c)
      BY DEF CampaignServiceNext, CreateStep, CheckLimit, RollBack, InsertCampaign,
             InsertJobs, InsertJobsFails, CreateStops, ViewerLoads,
             ViewerFills, CacheExpires, NextDay, lists
    <3> QED
      BY <3>1, <3>2 DEF TypeOK, ListsOK
  <2>4. Held(j)
    BY <2>1, <2>2 DEF Orphan
  <2> QED
    BY <1>2, <2>3, <2>4 DEF Held, Busy, TypeOK, ListsOK
<1> QED
  BY <1>3, <1>4

(* A worker that takes or reports a job passes it on, unless a call fails. *)
LEMMA RunnerNoOrphan ==
    ASSUME TypeOK, TypeOK', RunnerNext, faults' = 0, NEW j \in Jobs, ~Orphan(j)
    PROVE  ~Orphan(j)'
<1>1. UNCHANGED <<jobs, request, drainer, watchdog>>
  BY DEF RunnerNext, RunnerStep, Pop, RejectUnknown, Start, PushBatch, JobTimeout,
         Finish, ScrapeFails, StartFails, WorkersStop, runnerUnchanged, tables
<1> SUFFICES ASSUME Held(j)
             PROVE  Held(j)'
  BY <1>1 DEF Orphan, Submitted
<1>2. /\ worker \in [Workers -> WorkerStates] /\ scrapeQueue \in [Payloads -> Nat]
      /\ statusQueue \in Seq(StatusMessages) /\ faults \in Nat
  BY DEF TypeOK, WorkersOK, ListsOK
<1>3. ASSUME NEW w \in Workers, Busy(w), NEW status, NEW leads,
             PushStatus(worker[w].job, status, leads)
      PROVE  /\ \A i \in 1..Len(statusQueue) : i \in 1..Len(statusQueue')
                                               /\ statusQueue'[i] = statusQueue[i]
             /\ \E i \in 1..Len(statusQueue') : statusQueue'[i].job = worker[w].job
  <2> DEFINE m == [job |-> worker[w].job, status |-> status, leads |-> leads, try |-> 0]
  <2>1. statusQueue' = Append(statusQueue, m) /\ m.job = worker[w].job
    BY <1>3 DEF PushStatus
  <2> HIDE DEF m
  <2>2. /\ Len(statusQueue) \in Nat /\ Len(statusQueue') = Len(statusQueue) + 1
        /\ statusQueue'[Len(statusQueue) + 1] = m
        /\ \A i \in 1..Len(statusQueue) : statusQueue'[i] = statusQueue[i]
    BY <1>2, <2>1
  <2> QED
    BY <2>1, <2>2
<1>4. ASSUME NEW w \in Workers, Pop(w)
      PROVE  Held(j)'
  <2>1. PICK p \in Payloads :
           /\ scrapeQueue[p] > 0
           /\ scrapeQueue' = [scrapeQueue EXCEPT ![p] = @ - 1]
           /\ worker' = [worker EXCEPT ![w] =
                 [IdleWorker EXCEPT !.pc = "popped", !.job = p.job, !.drop = p.drop]]
    BY <1>4 DEF Pop
  <2>2. Busy(w)' /\ worker'[w].job = p.job /\ ~Busy(w)
    BY <1>2, <1>4, <2>1 DEF Pop, Busy, IdleWorker
  <2>3. \A v \in Workers \ {w} : worker'[v] = worker[v]
    BY <1>2, <2>1
  <2>4. \A q \in Payloads \ {p} : scrapeQueue'[q] = scrapeQueue[q]
    BY <1>2, <2>1
  <2>5. UNCHANGED statusQueue
    BY <1>4 DEF Pop
  <2>6. CASE p.job = j
    BY <2>2, <2>6 DEF Held
  <2>7. CASE p.job # j
    BY <1>1, <2>2, <2>3, <2>4, <2>5, <2>7 DEF Held, Busy
  <2> QED
    BY <2>6, <2>7
<1>5. ASSUME NEW w \in Workers,
             RejectUnknown(w) \/ Finish(w) \/ ScrapeFails(w)
      PROVE  Held(j)'
  <2>1. /\ Busy(w) /\ UNCHANGED scrapeQueue
        /\ \A v \in Workers \ {w} : worker'[v] = worker[v]
    BY <1>2, <1>5 DEF RejectUnknown, Finish, ScrapeFails, Busy, Idle
  <2>2. /\ \A i \in 1..Len(statusQueue) : i \in 1..Len(statusQueue')
                                          /\ statusQueue'[i] = statusQueue[i]
        /\ \E i \in 1..Len(statusQueue') : statusQueue'[i].job = worker[w].job
    BY <1>3, <1>5, <2>1 DEF RejectUnknown, Finish, ScrapeFails
  <2> QED
    BY <1>1, <2>1, <2>2 DEF Held, Busy
<1>6. ASSUME NEW w \in Workers, Start(w) \/ PushBatch(w) \/ JobTimeout(w)
      PROVE  Held(j)'
  <2>1. UNCHANGED scrapeQueue
    BY <1>6 DEF Start, PushBatch, JobTimeout, lists
  <2>3. \A v \in Workers : Busy(v) => Busy(v)' /\ worker'[v].job = worker[v].job
    <3>1. CASE Start(w)
      BY <1>2, <3>1 DEF Start, Busy, WorkerStates
    <3>2. CASE PushBatch(w)
      <4>1. PICK n : worker' = [worker EXCEPT ![w].leads = worker[w].leads + n]
        BY <3>2 DEF PushBatch
      <4> QED
        BY <1>2, <4>1 DEF Busy, WorkerStates
    <3>3. CASE JobTimeout(w)
      BY <1>2, <3>3 DEF JobTimeout, Busy, WorkerStates
    <3> QED
      BY <1>6, <3>1, <3>2, <3>3
  <2>2. \A i \in 1..Len(statusQueue) : i \in 1..Len(statusQueue')
                                       /\ statusQueue'[i] = statusQueue[i]
    BY <1>3, <1>6 DEF Start, PushBatch, JobTimeout, lists, Busy
  <2> QED
    BY <1>1, <2>1, <2>2, <2>3 DEF Held
<1> QED
  BY <1>2, <1>4, <1>5, <1>6 DEF RunnerNext, RunnerStep, StartFails, WorkersStop, Fault

(* A drainer that takes a message writes its status, unless a call fails.  *)
LEMMA RecoveryNoOrphan ==
    ASSUME TypeOK, TypeOK', LeadRecoveryNext, faults' = 0, NEW j \in Jobs, ~Orphan(j)
    PROVE  ~Orphan(j)'
<1>1. UNCHANGED <<scrapeQueue, request, worker, watchdog>>
  BY DEF LeadRecoveryNext, DrainStep, Dequeue, UpdateStatus, UpdateFails, Count,
         CountFails, MarkCompletedIfDone, FetchHit, FetchMiss, Fill, Refund,
         DrainStops, drainUnchanged
<1>2. /\ drainer \in [Drainers -> DrainerStates] /\ jobs \in [Jobs -> JobRows]
      /\ statusQueue \in Seq(StatusMessages) /\ faults \in Nat
  BY DEF TypeOK, DrainersOK, JobsOK, ListsOK
<1>3. ASSUME NEW d \in Drainers, Dequeue(d)
      PROVE  ~Orphan(j)'
  <2>1. /\ statusQueue # <<>> /\ statusQueue' = Tail(statusQueue) /\ UNCHANGED jobs
        /\ \A e \in Drainers \ {d} : drainer'[e] = drainer[e]
        /\ drainer[d].pc = "idle"
        /\ drainer'[d].pc = "update" /\ drainer'[d].msg = statusQueue[1]
    BY <1>2, <1>3 DEF Dequeue, IdleDrainer, tables
  <2>2. \A i \in 1..Len(statusQueue) :
            i # 1 => i - 1 \in 1..Len(statusQueue') /\ statusQueue'[i - 1] = statusQueue[i]
    BY <1>2, <2>1
  <2>3. Held(j) => Held(j)'
    <3>1. CASE \E i \in 1..Len(statusQueue) : statusQueue[i].job = j
      BY <2>1, <2>2, <3>1 DEF Held
    <3>2. CASE ~\E i \in 1..Len(statusQueue) : statusQueue[i].job = j
      BY <1>1, <2>1, <3>2 DEF Held, Busy
    <3> QED
      BY <3>1, <3>2
  <2> QED
    BY <1>1, <2>1, <2>3 DEF Orphan, Submitted
<1>4. ASSUME NEW d \in Drainers, UpdateStatus(d)
      PROVE  ~Orphan(j)'
  <2>1. /\ UNCHANGED statusQueue
        /\ \A e \in Drainers \ {d} : drainer'[e] = drainer[e]
    BY <1>2, <1>4 DEF UpdateStatus, DrainTo, DrainDone
  <2>2. CASE Message(d).job = j
    <3>1. Message(d) \in StatusMessages
      BY <1>4 DEF UpdateStatus, TypeOK, DrainersOK, Message
    <3>2. jobs'[j].status = Message(d).status
      BY <1>2, <1>4, <2>2 DEF UpdateStatus, JobRows
    <3> QED
      BY <3>1, <3>2 DEF StatusMessages, FinalStatuses, CountedStatuses, Orphan
  <2>3. CASE Message(d).job # j
    <3>1. jobs'[j] = jobs[j]
      BY <1>2, <1>4, <2>3 DEF UpdateStatus
    <3>2. Held(j) => Held(j)'
      BY <1>1, <2>1, <2>3 DEF Held, Busy, Message
    <3> QED
      BY <1>1, <3>1, <3>2 DEF Orphan, Submitted
  <2> QED
    BY <2>2, <2>3
<1>5. ASSUME NEW d \in Drainers,
             Count(d) \/ MarkCompletedIfDone(d) \/ FetchHit(d) \/ FetchMiss(d)
             \/ Fill(d) \/ Refund(d)
      PROVE  ~Orphan(j)'
  <2>1. UNCHANGED <<jobs, statusQueue>> /\ drainer[d].pc # "update"
    BY <1>5 DEF Count, MarkCompletedIfDone, FetchHit, FetchMiss, Fill, Refund, tables
  <2>2. \A e \in Drainers \ {d} : drainer'[e] = drainer[e]
    BY <1>2, <1>5 DEF Count, MarkCompletedIfDone, FetchHit, FetchMiss, Fill, Refund,
                      DrainTo, DrainDone, RefundIfEmpty
  <2>3. Held(j) => Held(j)'
    BY <1>1, <2>1, <2>2 DEF Held, Busy
  <2> QED
    BY <1>1, <2>1, <2>3 DEF Orphan, Submitted
<1> QED
  BY <1>2, <1>3, <1>4, <1>5 DEF LeadRecoveryNext, DrainStep, UpdateFails, CountFails,
                                DrainStops, Fault

(* A watchdog that makes a job pending goes on to queue it.                *)
LEMMA WatchdogNoOrphan ==
    ASSUME TypeOK, TypeOK', WatchdogNext, faults' = 0, NEW j \in Jobs, ~Orphan(j)
    PROVE  ~Orphan(j)'
<1>1. UNCHANGED <<statusQueue, request, drainer>>
  BY DEF WatchdogNext, WatchdogStep, GetStalledJobs, Kill, MarkDead,
         RequeueJob, Enqueue, WatchdogCallFails, WatchdogStops, watchUnchanged
<1>2. /\ watchdog \in [Watchdogs -> WatchdogStates] /\ jobs \in [Jobs -> JobRows]
      /\ scrapeQueue \in [Payloads -> Nat] /\ worker \in [Workers -> WorkerStates]
      /\ faults \in Nat
  BY DEF TypeOK, WatchdogsOK, JobsOK, ListsOK, WorkersOK
<1>3. ASSUME NEW g \in Watchdogs, GetStalledJobs(g) \/ Kill(g)
      PROVE  ~Orphan(j)'
  <2>1. /\ UNCHANGED <<jobs, scrapeQueue>> /\ watchdog[g].pc # "enqueue"
        /\ \A h \in Watchdogs \ {g} : watchdog'[h] = watchdog[h]
    BY <1>2, <1>3 DEF GetStalledJobs, Kill
  <2>2. \A w \in Workers : Busy(w) => Busy(w)' /\ worker'[w].job = worker[w].job
    <3>1. CASE GetStalledJobs(g)
      BY <3>1 DEF GetStalledJobs, Busy
    <3>2. CASE Kill(g)
      BY <1>2, <3>2 DEF Kill, Busy, WorkerStates
    <3> QED
      BY <1>3, <3>1, <3>2
  <2>3. Held(j) => Held(j)'
    BY <1>1, <2>1, <2>2 DEF Held
  <2> QED
    BY <1>1, <2>1, <2>3 DEF Orphan, Submitted
<1>4. ASSUME NEW g \in Watchdogs, MarkDead(g) \/ RequeueJob(g)
      PROVE  ~Orphan(j)'
  <2>1. /\ UNCHANGED <<scrapeQueue, worker>> /\ watchdog[g].pc # "enqueue"
        /\ \A h \in Watchdogs \ {g} : watchdog'[h] = watchdog[h]
    BY <1>2, <1>4 DEF MarkDead, RequeueJob, Advance
  <2>2. CASE watchdog[g].job = j
    <3>1. CASE MarkDead(g)
      BY <1>2, <2>2, <3>1 DEF MarkDead, JobRows, Orphan
    <3>2. CASE RequeueJob(g)
      <4>1. watchdog'[g].pc = "enqueue" /\ watchdog'[g].job = j
        BY <1>2, <2>2, <3>2 DEF RequeueJob, Advance
      <4> QED
        BY <4>1 DEF Orphan, Held
    <3> QED
      BY <1>4, <3>1, <3>2
  <2>3. CASE watchdog[g].job # j
    <3>1. jobs'[j] = jobs[j]
      BY <1>2, <1>4, <2>3 DEF MarkDead, RequeueJob
    <3>2. Held(j) => Held(j)'
      BY <1>1, <2>1 DEF Held, Busy
    <3> QED
      BY <1>1, <3>1, <3>2 DEF Orphan, Submitted
  <2> QED
    BY <2>2, <2>3
<1>5. ASSUME NEW g \in Watchdogs, Enqueue(g)
      PROVE  ~Orphan(j)'
  <2> DEFINE p == RequeuePayload(watchdog[g].job)
  <2>1. p \in Payloads /\ p.job = watchdog[g].job
    BY <1>5 DEF Enqueue, TypeOK, WatchdogsOK, RequeuePayload, Payloads
  <2>2. /\ UNCHANGED <<jobs, worker>>
        /\ scrapeQueue' = [scrapeQueue EXCEPT ![p] = @ + 1]
        /\ \A h \in Watchdogs \ {g} : watchdog'[h] = watchdog[h]
    BY <1>2, <1>5 DEF Enqueue, Advance
  <2> HIDE DEF p
  <2>3. scrapeQueue'[p] > 0 /\ \A q \in Payloads \ {p} : scrapeQueue'[q] = scrapeQueue[q]
    BY <1>2, <2>1, <2>2
  <2>4. CASE watchdog[g].job = j
    BY <2>1, <2>3, <2>4 DEF Orphan, Held
  <2>5. CASE watchdog[g].job # j
    <3>1. Held(j) => Held(j)'
      BY <1>1, <2>1, <2>2, <2>3, <2>5 DEF Held, Busy
    <3> QED
      BY <1>1, <2>2, <3>1 DEF Orphan, Submitted
  <2> QED
    BY <2>4, <2>5
<1> QED
  BY <1>2, <1>3, <1>4, <1>5 DEF WatchdogNext, WatchdogStep, WatchdogCallFails,
                                WatchdogStops, Fault

(* As long as no call fails and no process exits, no interleaving of       *)
(* retries, kills and late statuses leaves a pending job that neither a    *)
(* payload, a worker, a status message nor a watchdog holds.               *)
THEOREM NoJobIsOrphaned == Spec => []NoOrphans
<1>1. Init => NoOrphans
  BY JobsAssumption DEF Init, NoOrphans, Orphan, Submitted
<1>2. ASSUME TypeOK, TypeOK', NoOrphans, [Next]_vars
      PROVE  NoOrphans'
  <2> SUFFICES ASSUME faults' = 0, NEW j \in Jobs
               PROVE  ~Orphan(j)'
    BY DEF NoOrphans
  <2>1. faults = 0
    BY <1>2, FaultsStay
  <2>2. ~Orphan(j)
    BY <1>2, <2>1 DEF NoOrphans
  <2>3. CASE UNCHANGED vars
    BY <2>2, <2>3 DEF Orphan, Held, Submitted, Busy, vars, tables, lists
  <2> QED
    BY <1>2, <2>2, <2>3, ServiceNoOrphan, RunnerNoOrphan, RecoveryNoOrphan,
       WatchdogNoOrphan DEF Next
<1> QED
  BY <1>1, <1>2, TypeCorrect, PTL DEF Spec

-----------------------------------------------------------------------------
(***************************************************************************)
(* Requeues raise attempt_count: what the watchdogs hold is evidence of it.*)
(***************************************************************************)

(* The retry about to be queued is counted already, and a job the watchdog *)
(* means to mark dead had used up its attempts.                            *)
RetriesCounted ==
    \A g \in Watchdogs :
        /\ watchdog[g].pc = "enqueue" => jobs[watchdog[g].job].attempt > 0
        /\ \A j \in watchdog[g].spent : jobs[j].attempt >= MaxAttempts

(* Only the watchdog touches an attempt_count, and only to raise it.       *)
LEMMA AttemptStays ==
    ASSUME TypeOK, NEW j \in Jobs,
           \/ CampaignServiceNext \/ RunnerNext \/ LeadRecoveryNext
           \/ UNCHANGED vars
    PROVE  jobs'[j].attempt = jobs[j].attempt
<1>1. ASSUME NEW J, PendingRows(J)
      PROVE  jobs'[j].attempt = jobs[j].attempt
  BY <1>1 DEF PendingRows, TypeOK, JobsOK, JobRows
<1>2. CASE CampaignServiceNext
  BY <1>1, <1>2
     DEF CampaignServiceNext, CreateStep, CheckLimit, RollBack, InsertCampaign,
         InsertJobs, EnqueueJobs, InsertJobsFails, CreateStops, ViewerLoads,
         ViewerFills, CacheExpires, NextDay, tables
<1>3. CASE RunnerNext
  BY <1>3 DEF RunnerNext, RunnerStep, Pop, RejectUnknown, Start, PushBatch,
              JobTimeout, Finish, ScrapeFails, StartFails, WorkersStop,
              runnerUnchanged, tables
<1>4. CASE LeadRecoveryNext
  <2>1. ASSUME NEW d \in Drainers, UpdateStatus(d)
        PROVE  jobs'[j].attempt = jobs[j].attempt
    BY <2>1 DEF UpdateStatus, TypeOK, JobsOK, JobRows
  <2> QED
    BY <1>4, <2>1
       DEF LeadRecoveryNext, DrainStep, Dequeue, UpdateFails, Count, CountFails,
           MarkCompletedIfDone, FetchHit, FetchMiss, Fill, Refund, DrainStops,
           tables
<1>5. CASE UNCHANGED vars
  BY <1>5 DEF vars, tables
<1> QED
  BY <1>2, <1>3, <1>4, <1>5

LEMMA AttemptGrows ==
    ASSUME TypeOK, [Next]_vars, NEW j \in Jobs
    PROVE  /\ jobs[j].attempt \in Nat
           /\ jobs'[j].attempt >= jobs[j].attempt
<1>1. jobs[j].attempt \in Nat
  BY DEF TypeOK, JobsOK, JobRows
<1>2. CASE WatchdogNext
  <2>1. \/ UNCHANGED jobs
        \/ \E g \in Watchdogs : MarkDead(g) \/ RequeueJob(g)
    BY <1>2 DEF WatchdogNext, WatchdogStep, GetStalledJobs, Kill, Enqueue,
                WatchdogCallFails, WatchdogStops
  <2>2. ASSUME NEW g \in Watchdogs, MarkDead(g)
        PROVE  jobs'[j].attempt = jobs[j].attempt
    BY <2>2 DEF MarkDead, TypeOK, JobsOK, JobRows
  <2>3. ASSUME NEW g \in Watchdogs, RequeueJob(g)
        PROVE  \/ jobs'[j].attempt = jobs[j].attempt
               \/ jobs'[j].attempt = jobs[j].attempt + 1
    BY <2>3 DEF RequeueJob, TypeOK, JobsOK, JobRows
  <2> QED
    BY <1>1, <2>1, <2>2, <2>3
<1> QED
  BY <1>1, <1>2, AttemptStays DEF Next

(* The watchdog raises attempt_count before it queues the retry, and reads *)
(* it before it gives a job up.                                            *)
LEMMA RetriesAreCounted == Spec => []RetriesCounted
<1>1. Init => RetriesCounted
  BY DEF Init, RetriesCounted, IdleWatchdog
<1>2. ASSUME TypeOK, TypeOK', RetriesCounted, [Next]_vars
      PROVE  RetriesCounted'
  <2>1. \A j \in Jobs : jobs[j].attempt \in Nat /\ jobs'[j].attempt >= jobs[j].attempt
                        /\ jobs'[j].attempt \in Nat
    BY <1>2, AttemptGrows DEF TypeOK, JobsOK, JobRows
  <2>2. /\ watchdog \in [Watchdogs -> WatchdogStates]
        /\ \A g \in Watchdogs : watchdog[g].pc = "enqueue" => watchdog[g].job \in Jobs
        /\ \A g \in Watchdogs : watchdog[g].spent \subseteq Jobs
    BY <1>2 DEF TypeOK, WatchdogsOK, WatchdogStates
  <2> SUFFICES ASSUME NEW g \in Watchdogs
               PROVE  /\ watchdog'[g].pc = "enqueue" => jobs'[watchdog'[g].job].attempt > 0
                      /\ \A j \in watchdog'[g].spent : jobs'[j].attempt >= MaxAttempts
    BY DEF RetriesCounted
  <2>3. /\ watchdog[g].pc = "enqueue" => jobs'[watchdog[g].job].attempt > 0
        /\ \A j \in watchdog[g].spent : jobs'[j].attempt >= MaxAttempts
    BY <1>2, <2>1, <2>2, BoundsAssumption DEF RetriesCounted
  <2>4. CASE watchdog'[g] = watchdog[g]
    BY <2>3, <2>4
  <2>5. ASSUME GetStalledJobs(g)
        PROVE  /\ watchdog'[g].pc # "enqueue"
               /\ \A j \in watchdog'[g].spent : jobs'[j].attempt >= MaxAttempts
    BY <2>2, <2>5 DEF GetStalledJobs
  <2>6. ASSUME Kill(g)
        PROVE  watchdog'[g].pc # "enqueue" /\ watchdog'[g].spent = watchdog[g].spent
    BY <2>2, <2>6 DEF Kill, WatchdogStates
  <2>7. ASSUME NEW pc \in {"loop", "enqueue"}, Advance(g, pc)
        PROVE  /\ watchdog'[g].spent \subseteq watchdog[g].spent
               /\ watchdog'[g].pc = "enqueue" =>
                      pc = "enqueue" /\ watchdog'[g].job = watchdog[g].job
    BY <2>2, <2>7 DEF Advance, IdleWatchdog, WatchdogStates
  <2>8. ASSUME RequeueJob(g)
        PROVE  jobs'[watchdog[g].job].attempt > 0
    <3>1. watchdog[g].job \in Jobs
      BY <1>2, <2>8 DEF RequeueJob, TypeOK, WatchdogsOK, WatchdogStates
    <3>2. jobs'[watchdog[g].job].attempt = jobs[watchdog[g].job].attempt + 1
      BY <1>2, <2>8, <3>1 DEF RequeueJob, TypeOK, JobsOK, JobRows
    <3> QED
      BY <2>1, <3>1, <3>2
  <2>9. ASSUME WatchdogStops(g)
        PROVE  watchdog'[g].pc # "enqueue" /\ watchdog'[g].spent = {}
    BY <2>2, <2>9 DEF WatchdogStops, IdleWatchdog
  <2>10. \/ watchdog'[g] = watchdog[g]
         \/ GetStalledJobs(g) \/ Kill(g) \/ RequeueJob(g) \/ WatchdogStops(g)
         \/ Advance(g, "loop")
    <3>1. CASE WatchdogNext
      <4>1. ASSUME NEW h \in Watchdogs, NEW pc, Advance(h, pc), h # g
            PROVE  watchdog'[g] = watchdog[g]
        BY <2>2, <4>1 DEF Advance
      <4>2. ASSUME NEW h \in Watchdogs, h # g,
                   GetStalledJobs(h) \/ Kill(h) \/ WatchdogStops(h)
            PROVE  watchdog'[g] = watchdog[g]
        BY <2>2, <4>2 DEF GetStalledJobs, Kill, WatchdogStops
      <4> QED
        BY <3>1, <4>1, <4>2
           DEF WatchdogNext, WatchdogStep, MarkDead, RequeueJob, Enqueue,
               WatchdogCallFails
    <3>2. CASE ~WatchdogNext
      BY <1>2, <3>2
         DEF Next, CampaignServiceNext, CreateStep, CheckLimit, RollBack, InsertCampaign,
             InsertJobs, EnqueueJobs, InsertJobsFails, CreateStops, ViewerLoads,
             ViewerFills, CacheExpires, NextDay, serviceUnchanged,
             RunnerNext, RunnerStep, Pop, RejectUnknown, Start, PushBatch, JobTimeout,
             Finish, ScrapeFails, StartFails, WorkersStop, runnerUnchanged,
             LeadRecoveryNext, DrainStep, Dequeue, UpdateStatus, UpdateFails, Count,
             CountFails, MarkCompletedIfDone, FetchHit, FetchMiss, Fill, Refund,
             DrainStops, drainUnchanged, vars
    <3> QED
      BY <3>1, <3>2
  <2>11. CASE RequeueJob(g)
    BY <2>3, <2>7, <2>8, <2>11 DEF RequeueJob
  <2>12. CASE Advance(g, "loop")
    BY <2>3, <2>7, <2>12
  <2> QED
    BY <2>3, <2>4, <2>5, <2>6, <2>9, <2>10, <2>11, <2>12
<1> QED
  BY <1>1, <1>2, TypeCorrect, PTL DEF Spec

-----------------------------------------------------------------------------
(***************************************************************************)
(* Leads without contact, when the campaign asks to drop them.             *)
(***************************************************************************)

(* Every run of the job drops them, and has dropped them so far.           *)
Dropping(j) ==
    /\ \A p \in Payloads : p.job = j /\ scrapeQueue[p] > 0 => p.drop
    /\ \A w \in Workers : Busy(w) /\ worker[w].job = j => worker[w].drop
    /\ leadBatches[j]["bare"] = 0

FirstRunsDrop ==
    \A j \in Jobs : CampaignOf[j] \in DropNoContact /\ jobs[j].attempt = 0
                        => Dropping(j)

(* The payloads of a new campaign carry its drop_no_contact.               *)
LEMMA ServiceDrops ==
    ASSUME TypeOK, CampaignServiceNext, NEW j \in Jobs,
           CampaignOf[j] \in DropNoContact, Dropping(j)
    PROVE  Dropping(j)'
<1>1. UNCHANGED <<worker, leadBatches>>
  BY DEF CampaignServiceNext, CreateStep, CheckLimit, RollBack, InsertCampaign,
         InsertJobs, EnqueueJobs, InsertJobsFails, CreateStops, ViewerLoads,
         ViewerFills, CacheExpires, NextDay, serviceUnchanged, lists
<1>2. UNCHANGED scrapeQueue \/ \E c \in Campaigns : EnqueueJobs(c)
  BY DEF CampaignServiceNext, CreateStep, CheckLimit, RollBack, InsertCampaign,
         InsertJobs, InsertJobsFails, CreateStops, ViewerLoads, ViewerFills,
         CacheExpires, NextDay, lists
<1>3. ASSUME NEW c \in Campaigns, EnqueueJobs(c),
             NEW p \in Payloads, p.job = j, scrapeQueue'[p] > 0
      PROVE  p.drop
  <2> DEFINE flag == c \in DropNoContact
  <2>1. scrapeQueue' = [q \in Payloads |->
            IF q.job \in JobsOf(c) /\ q.drop = flag
            THEN scrapeQueue[q] + 1 ELSE scrapeQueue[q]]
    BY <1>3 DEF EnqueueJobs
  <2>2. flag \in BOOLEAN /\ p.drop \in BOOLEAN
    BY DEF Payloads
  <2>3. p.job \in JobsOf(c) => flag
    BY <1>3 DEF JobsOf
  <2> HIDE DEF flag
  <2>4. CASE p.job \in JobsOf(c) /\ p.drop = flag
    BY <2>3, <2>4
  <2>5. CASE ~(p.job \in JobsOf(c) /\ p.drop = flag)
    <3>1. scrapeQueue[p] > 0
      BY <1>3, <2>1, <2>5
    <3> QED
      BY <1>3, <3>1 DEF Dropping
  <2> QED
    BY <2>4, <2>5
<1> QED
  BY <1>1, <1>2, <1>3 DEF Dropping, Busy

(* A worker drops leads as its payload says.                               *)
LEMMA RunnerDrops ==
    ASSUME TypeOK, RunnerNext, NEW j \in Jobs, Dropping(j)
    PROVE  Dropping(j)'
<1>1. /\ worker \in [Workers -> WorkerStates] /\ scrapeQueue \in [Payloads -> Nat]
      /\ leadBatches \in [Jobs -> [LeadKinds -> Nat]]
      /\ \A w \in Workers : Busy(w) => worker[w].job \in Jobs
  BY DEF TypeOK, WorkersOK, ListsOK
<1>2. ASSUME NEW w \in Workers, Pop(w)
      PROVE  Dropping(j)'
  <2>1. PICK p \in Payloads :
           /\ scrapeQueue[p] > 0
           /\ scrapeQueue' = [scrapeQueue EXCEPT ![p] = @ - 1]
           /\ worker' = [worker EXCEPT ![w] =
                 [IdleWorker EXCEPT !.pc = "popped", !.job = p.job, !.drop = p.drop]]
    BY <1>2 DEF Pop
  <2>2. \A q \in Payloads : scrapeQueue'[q] > 0 => scrapeQueue[q] > 0
    BY <1>1, <2>1
  <2>3. worker'[w].job = p.job /\ worker'[w].drop = p.drop
    BY <1>1, <2>1 DEF IdleWorker
  <2>4. \A v \in Workers \ {w} : worker'[v] = worker[v]
    BY <1>1, <2>1
  <2>5. ASSUME NEW v \in Workers, Busy(v)', worker'[v].job = j
        PROVE  worker'[v].drop
    <3>1. CASE v = w
      BY <2>1, <2>3, <2>5, <3>1 DEF Dropping
    <3>2. CASE v # w
      BY <2>4, <2>5, <3>2 DEF Dropping, Busy
    <3> QED
      BY <3>1, <3>2
  <2>6. UNCHANGED leadBatches
    BY <1>2 DEF Pop
  <2> QED
    BY <2>2, <2>5, <2>6 DEF Dropping
<1>3. ASSUME UNCHANGED <<scrapeQueue, leadBatches>>,
             \A v \in Workers : Busy(v)' => /\ Busy(v)
                                            /\ worker'[v].job = worker[v].job
                                            /\ worker'[v].drop = worker[v].drop
      PROVE  Dropping(j)'
  BY <1>3 DEF Dropping
<1>4. ASSUME NEW w \in Workers,
             RejectUnknown(w) \/ Finish(w) \/ ScrapeFails(w) \/ StartFails(w)
      PROVE  Dropping(j)'
  <2>1. UNCHANGED <<scrapeQueue, leadBatches>> /\ Idle(w)
    BY <1>4 DEF RejectUnknown, Finish, ScrapeFails, StartFails
  <2>2. \A v \in Workers : Busy(v)' => Busy(v) /\ worker'[v] = worker[v]
    BY <1>1, <2>1 DEF Idle, Busy, IdleWorker
  <2> QED
    BY <1>3, <2>1, <2>2
<1>5. ASSUME NEW w \in Workers, Start(w) \/ JobTimeout(w)
      PROVE  Dropping(j)'
  <2>1. UNCHANGED <<scrapeQueue, leadBatches>>
    BY <1>5 DEF Start, JobTimeout, lists
  <2>2. \A v \in Workers : Busy(v)' => /\ Busy(v)
                                       /\ worker'[v].job = worker[v].job
                                       /\ worker'[v].drop = worker[v].drop
    <3>1. CASE Start(w)
      BY <1>1, <3>1 DEF Start, Busy, WorkerStates
    <3>2. CASE JobTimeout(w)
      BY <1>1, <3>2 DEF JobTimeout, Busy, WorkerStates
    <3> QED
      BY <1>5, <3>1, <3>2
  <2> QED
    BY <1>3, <2>1, <2>2
<1>6. ASSUME NEW w \in Workers, PushBatch(w)
      PROVE  Dropping(j)'
  <2> DEFINE drop == worker[w].drop
  <2>1. PICK rawBatch \in SUBSET LeadKinds :
           LET batch == IF drop THEN rawBatch \ {"bare"} ELSE rawBatch
           IN  /\ leadBatches' = [leadBatches EXCEPT ![worker[w].job] =
                     [k \in LeadKinds |-> IF k \in batch THEN @[k] + 1 ELSE @[k]]]
               /\ worker' = [worker EXCEPT ![w].leads = @ + Cardinality(batch)]
    BY <1>6 DEF PushBatch
  <2>2. UNCHANGED scrapeQueue /\ Busy(w) /\ worker[w].job \in Jobs
    BY <1>1, <1>6 DEF PushBatch, Busy
  <2>3. \A v \in Workers : /\ Busy(v)' = Busy(v)
                           /\ worker'[v].job = worker[v].job
                           /\ worker'[v].drop = worker[v].drop
    BY <1>1, <2>1 DEF Busy, WorkerStates
  <2>4. leadBatches'[j]["bare"] = 0
    <3>1. CASE worker[w].job = j
      <4>1. drop
        BY <2>2, <3>1 DEF Dropping
      <4>2. leadBatches'[j] = [k \in LeadKinds |->
                IF k \in rawBatch \ {"bare"} THEN leadBatches[j][k] + 1
                                             ELSE leadBatches[j][k]]
        BY <1>1, <2>1, <3>1, <4>1
      <4> QED
        BY <4>2 DEF Dropping, LeadKinds
    <3>2. CASE worker[w].job # j
      BY <1>1, <2>1, <3>2 DEF Dropping
    <3> QED
      BY <3>1, <3>2
  <2> QED
    BY <2>2, <2>3, <2>4 DEF Dropping
<1>7. ASSUME NEW W \in SUBSET Workers, WorkersStop(W)
      PROVE  Dropping(j)'
  <2>1. UNCHANGED <<scrapeQueue, leadBatches>>
    BY <1>7 DEF WorkersStop, lists
  <2>2. \A v \in Workers : Busy(v)' => Busy(v) /\ worker'[v] = worker[v]
    BY <1>7 DEF WorkersStop, Busy, IdleWorker
  <2> QED
    BY <1>3, <2>1, <2>2
<1> QED
  BY <1>2, <1>4, <1>5, <1>6, <1>7 DEF RunnerNext, RunnerStep

(* Only the payload of a retry, which is counted, lacks the flag.          *)
LEMMA WatchdogDrops ==
    ASSUME TypeOK, RetriesCounted, WatchdogNext, NEW j \in Jobs,
           jobs'[j].attempt = 0, Dropping(j)
    PROVE  Dropping(j)'
<1>1. UNCHANGED leadBatches
  BY DEF WatchdogNext, WatchdogStep, GetStalledJobs, Kill, MarkDead,
         RequeueJob, Enqueue, WatchdogCallFails, WatchdogStops, watchUnchanged
<1>2. \A w \in Workers : /\ Busy(w)' = Busy(w)
                         /\ worker'[w].job = worker[w].job
                         /\ worker'[w].drop = worker[w].drop
  <2>1. ASSUME NEW g \in Watchdogs, Kill(g), NEW w \in Workers
        PROVE  /\ Busy(w)' = Busy(w)
               /\ worker'[w].job = worker[w].job
               /\ worker'[w].drop = worker[w].drop
    BY <2>1 DEF Kill, Busy, TypeOK, WorkersOK, WorkerStates
  <2>2. UNCHANGED worker \/ \E g \in Watchdogs : Kill(g)
    BY DEF WatchdogNext, WatchdogStep, GetStalledJobs, MarkDead,
           RequeueJob, Enqueue, WatchdogCallFails, WatchdogStops
  <2> QED
    BY <2>1, <2>2 DEF Busy
<1>3. \A p \in Payloads : p.job = j => scrapeQueue'[p] = scrapeQueue[p]
  <2>1. ASSUME NEW g \in Watchdogs, Enqueue(g), NEW p \in Payloads, p.job = j
        PROVE  scrapeQueue'[p] = scrapeQueue[p]
    <3>1. UNCHANGED jobs /\ watchdog[g].job \in Jobs /\ watchdog[g].pc = "enqueue"
      BY <2>1 DEF Enqueue, TypeOK, WatchdogsOK
    <3>2. watchdog[g].job # j
      BY <3>1 DEF RetriesCounted
    <3> QED
      BY <2>1, <3>2 DEF Enqueue, RequeuePayload, TypeOK, ListsOK
  <2>2. UNCHANGED scrapeQueue \/ \E g \in Watchdogs : Enqueue(g)
    BY DEF WatchdogNext, WatchdogStep, GetStalledJobs, Kill, MarkDead,
           RequeueJob, WatchdogCallFails, WatchdogStops
  <2> QED
    BY <2>1, <2>2
<1> QED
  BY <1>1, <1>2, <1>3 DEF Dropping

(* A job that was never requeued runs with the flag of its campaign, from  *)
(* the payload through every worker that takes it, so that none of its     *)
(* leads without contact is pushed.                                        *)
THEOREM FirstRunsDropContactless == Spec => []ContactlessDroppedOnce
<1>1. Init => FirstRunsDrop
  BY DEF Init, FirstRunsDrop, Dropping, Busy, IdleWorker, LeadKinds
<1>2. ASSUME TypeOK, RetriesCounted, FirstRunsDrop, [Next]_vars
      PROVE  FirstRunsDrop'
  <2> SUFFICES ASSUME NEW j \in Jobs, CampaignOf[j] \in DropNoContact,
                      jobs'[j].attempt = 0
               PROVE  Dropping(j)'
    BY DEF FirstRunsDrop
  <2>1. Dropping(j)
    BY <1>2, AttemptGrows DEF FirstRunsDrop
  <2>2. CASE LeadRecoveryNext
    <3>1. UNCHANGED <<scrapeQueue, worker, leadBatches>>
      BY <2>2 DEF LeadRecoveryNext, DrainStep, Dequeue, UpdateStatus, UpdateFails,
                  Count, CountFails, MarkCompletedIfDone, FetchHit, FetchMiss, Fill,
                  Refund, DrainStops, drainUnchanged
    <3> QED
      BY <2>1, <3>1 DEF Dropping, Busy
  <2>3. CASE UNCHANGED vars
    BY <2>1, <2>3 DEF vars, lists, Dropping, Busy
  <2> QED
    BY <1>2, <2>1, <2>2, <2>3, ServiceDrops, RunnerDrops, WatchdogDrops DEF Next
<1>3. FirstRunsDrop => ContactlessDroppedOnce
  BY DEF FirstRunsDrop, ContactlessDroppedOnce, Dropping
<1> QED
  BY <1>1, <1>2, <1>3, TypeCorrect, RetriesAreCounted, PTL DEF Spec

-----------------------------------------------------------------------------
(***************************************************************************)
(* The first run of a job: one payload, one worker, one final status, in   *)
(* this order.                                                             *)
(***************************************************************************)
NoPayload(j) == \A p \in Payloads : p.job = j => scrapeQueue[p] = 0

NoWorker(j) == \A w \in Workers : Busy(w) => worker[w].job # j

NoMessage(j) == \A i \in 1..Len(statusQueue) : statusQueue[i].job # j

NoUpdate(j) ==
    \A d \in Drainers : drainer[d].pc = "update" => drainer[d].msg.job # j

(* A waiting payload is the only one, and nobody has taken it yet.         *)
PayloadFirst(j) ==
    \A p \in Payloads : p.job = j /\ scrapeQueue[p] > 0 =>
        /\ scrapeQueue[p] = 1
        /\ \A q \in Payloads \ {p} : q.job = j => scrapeQueue[q] = 0
        /\ NoWorker(j) /\ NoMessage(j) /\ NoUpdate(j)

(* One worker runs the job, and it reports after it has started.           *)
OneWorker(j) ==
    \A w \in Workers : Busy(w) /\ worker[w].job = j =>
        /\ \A v \in Workers \ {w} : Busy(v) => worker[v].job # j
        /\ worker[w].pc = "popped" => NoMessage(j) /\ NoUpdate(j)

(* A final status is the last message of the job, in the queue ...         *)
FinalMessageLast(j) ==
    \A i \in 1..Len(statusQueue) :
        statusQueue[i].job = j /\ statusQueue[i].status \in FinalStatuses =>
            /\ NoWorker(j)
            /\ \A k \in 1..Len(statusQueue) : k > i => statusQueue[k].job # j

(* ... and out of it, ...                                                  *)
FinalUpdateLast(j) ==
    \A d \in Drainers :
        /\ drainer[d].pc = "update" /\ drainer[d].msg.job = j
        /\ drainer[d].msg.status \in FinalStatuses
        => NoWorker(j) /\ NoMessage(j)

(* ... and once it is written nobody holds the job any more.               *)
FinalStatusLast(j) ==
    jobs[j].status \in FinalStatuses =>
        NoPayload(j) /\ NoWorker(j) /\ NoMessage(j) /\ NoUpdate(j)

Orderly(j) ==
    /\ PayloadFirst(j) /\ OneWorker(j) /\ FinalMessageLast(j) /\ FinalUpdateLast(j)
    /\ FinalStatusLast(j)

FirstRunsOrderly == faults = 0 => \A j \in Jobs : jobs[j].attempt = 0 => Orderly(j)

(* A job of which nothing changed but the order in which the same messages *)
(* wait stays orderly.                                                     *)
LEMMA SameOrder ==
    ASSUME NEW j \in Jobs, Orderly(j),
           jobs'[j].status \in FinalStatuses => jobs[j].status \in FinalStatuses,
           \A p \in Payloads : p.job = j => scrapeQueue'[p] = scrapeQueue[p],
           \A w \in Workers : Busy(w)' /\ worker'[w].job = j =>
                                  /\ Busy(w) /\ worker[w].job = j
                                  /\ worker'[w].pc = worker[w].pc,
           UNCHANGED <<statusQueue, drainer>>
    PROVE  Orderly(j)'
<1>1. NoWorker(j) => NoWorker(j)'
  BY DEF NoWorker
<1>2. /\ NoPayload(j) => NoPayload(j)'
      /\ NoMessage(j) => NoMessage(j)'
      /\ NoUpdate(j) => NoUpdate(j)'
  BY DEF NoPayload, NoMessage, NoUpdate
<1>3. PayloadFirst(j)'
  BY <1>1, <1>2 DEF Orderly, PayloadFirst
<1>4. OneWorker(j)'
  BY <1>1, <1>2 DEF Orderly, OneWorker
<1>5. FinalMessageLast(j)' /\ FinalUpdateLast(j)'
  BY <1>1, <1>2 DEF Orderly, FinalMessageLast, FinalUpdateLast
<1>6. FinalStatusLast(j)'
  BY <1>1, <1>2 DEF Orderly, FinalStatusLast
<1> QED
  BY <1>3, <1>4, <1>5, <1>6 DEF Orderly

(* The payload of a job is queued when nobody knows the job.               *)
LEMMA ServiceOrder ==
    ASSUME TypeOK, TypeOK', NothingBeforeAccepted, CampaignServiceNext,
           NEW j \in Jobs, Orderly(j)
    PROVE  Orderly(j)'
<1>1. UNCHANGED <<worker, statusQueue, drainer>>
  BY DEF CampaignServiceNext, CreateStep, CheckLimit, RollBack, InsertCampaign,
         InsertJobs, EnqueueJobs, InsertJobsFails, CreateStops, ViewerLoads,
         ViewerFills, CacheExpires, NextDay, serviceUnchanged, lists
<1>2. jobs'[j].status \in FinalStatuses => jobs[j].status \in FinalStatuses
  <2>1. ASSUME NEW J, PendingRows(J)
        PROVE  jobs'[j].status \in {jobs[j].status, "pending"}
    BY <2>1 DEF PendingRows, TypeOK, JobsOK, JobRows
  <2>2. UNCHANGED jobs \/ \E J : PendingRows(J)
    BY DEF CampaignServiceNext, CreateStep, CheckLimit, RollBack, InsertCampaign,
           InsertJobs, EnqueueJobs, InsertJobsFails, CreateStops, ViewerLoads,
           ViewerFills, CacheExpires, NextDay, tables
  <2> QED
    BY <2>1, <2>2 DEF FinalStatuses, CountedStatuses
<1>3. CASE \A p \in Payloads : p.job = j => scrapeQueue'[p] = scrapeQueue[p]
  BY <1>1, <1>2, <1>3, SameOrder DEF Busy
<1>4. CASE ~\A p \in Payloads : p.job = j => scrapeQueue'[p] = scrapeQueue[p]
  <2>1. PICK c \in Campaigns : EnqueueJobs(c)
    BY <1>4
       DEF CampaignServiceNext, CreateStep, CheckLimit, RollBack, InsertCampaign,
           InsertJobs, InsertJobsFails, CreateStops, ViewerLoads, ViewerFills,
           CacheExpires, NextDay, lists
  <2> DEFINE flag == c \in DropNoContact
  <2>2. scrapeQueue' = [q \in Payloads |->
            IF q.job \in JobsOf(c) /\ q.drop = flag
            THEN scrapeQueue[q] + 1 ELSE scrapeQueue[q]]
    BY <2>1 DEF EnqueueJobs
  <2>3. flag \in BOOLEAN
    OBVIOUS
  <2> HIDE DEF flag
  <2>4. CampaignOf[j] = c
    BY <1>4, <2>2 DEF JobsOf
  <2>5. NotQueued(j)
    BY <2>1, <2>4 DEF EnqueueJobs, RequestStep, NothingBeforeAccepted, Submitted
  <2>6. jobs'[j] = jobs[j]
    BY <2>1 DEF EnqueueJobs, tables
  <2>7. NoWorker(j)' /\ NoMessage(j)' /\ NoUpdate(j)'
    BY <1>1, <2>5 DEF NotQueued, NoWorker, NoMessage, NoUpdate, Busy
  <2>8. jobs'[j].status \notin FinalStatuses
    BY <2>5, <2>6 DEF NotQueued, FinalStatuses, CountedStatuses
  <2>9. ASSUME NEW p \in Payloads, p.job = j, scrapeQueue'[p] > 0
        PROVE  p.drop = flag /\ scrapeQueue'[p] = 1
    BY <2>2, <2>5, <2>9 DEF NotQueued
  <2>10. \A p \in Payloads : p = [job |-> p.job, drop |-> p.drop]
    BY DEF Payloads
  <2>11. ASSUME NEW p \in Payloads, p.job = j, scrapeQueue'[p] > 0,
                NEW q \in Payloads \ {p}, q.job = j
         PROVE  scrapeQueue'[q] = 0
    <3>1. q.drop # flag
      BY <2>9, <2>10, <2>11
    <3> QED
      BY <2>2, <2>5, <2>11, <3>1 DEF NotQueued
  <2>12. PayloadFirst(j)'
    BY <2>7, <2>9, <2>11 DEF PayloadFirst
  <2> QED
    BY <2>7, <2>8, <2>12
       DEF Orderly, OneWorker, FinalMessageLast, FinalUpdateLast, FinalStatusLast,
           NoWorker, NoMessage, NoUpdate
<1> QED
  BY <1>3, <1>4

(* One worker takes the payload, announces itself and reports once.        *)
LEMMA RunnerOrder ==
    ASSUME TypeOK, TypeOK', RunnerNext, faults' = 0, NEW j \in Jobs, Orderly(j)
    PROVE  Orderly(j)'
<1>1. UNCHANGED <<jobs, drainer>>
  BY DEF RunnerNext, RunnerStep, Pop, RejectUnknown, Start, PushBatch, JobTimeout,
         Finish, ScrapeFails, StartFails, WorkersStop, runnerUnchanged, tables
<1>2. /\ worker \in [Workers -> WorkerStates] /\ scrapeQueue \in [Payloads -> Nat]
      /\ statusQueue \in Seq(StatusMessages) /\ faults \in Nat
  BY DEF TypeOK, WorkersOK, ListsOK
<1>3. ASSUME NEW w \in Workers, Busy(w), NEW status, NEW leads,
             PushStatus(worker[w].job, status, leads)
      PROVE  /\ Len(statusQueue) \in Nat
             /\ Len(statusQueue') = Len(statusQueue) + 1
             /\ \A i \in 1..Len(statusQueue) : statusQueue'[i] = statusQueue[i]
             /\ statusQueue'[Len(statusQueue) + 1].job = worker[w].job
             /\ statusQueue'[Len(statusQueue) + 1].status = status
             /\ worker[w].job # j /\ NoMessage(j) => NoMessage(j)'
  <2> DEFINE m == [job |-> worker[w].job, status |-> status, leads |-> leads, try |-> 0]
  <2>1. statusQueue' = Append(statusQueue, m) /\ m.job = worker[w].job /\ m.status = status
    BY <1>3 DEF PushStatus
  <2> HIDE DEF m
  <2>2. /\ Len(statusQueue) \in Nat
        /\ Len(statusQueue') = Len(statusQueue) + 1
        /\ \A i \in 1..Len(statusQueue) : statusQueue'[i] = statusQueue[i]
        /\ statusQueue'[Len(statusQueue) + 1] = m
    BY <1>2, <2>1
  <2> QED
    BY <2>1, <2>2 DEF NoMessage
<1>4. ASSUME NEW w \in Workers, Pop(w)
      PROVE  Orderly(j)'
  <2>1. PICK p \in Payloads :
           /\ scrapeQueue[p] > 0
           /\ scrapeQueue' = [scrapeQueue EXCEPT ![p] = @ - 1]
           /\ worker' = [worker EXCEPT ![w] =
                 [IdleWorker EXCEPT !.pc = "popped", !.job = p.job, !.drop = p.drop]]
    BY <1>4 DEF Pop
  <2>2. UNCHANGED statusQueue /\ ~Busy(w)
    BY <1>4 DEF Pop, Busy
  <2>3. /\ worker'[w].pc = "popped" /\ worker'[w].job = p.job
        /\ \A v \in Workers \ {w} : worker'[v] = worker[v]
    BY <1>2, <2>1 DEF IdleWorker
  <2>4. /\ scrapeQueue'[p] = scrapeQueue[p] - 1
        /\ \A q \in Payloads \ {p} : scrapeQueue'[q] = scrapeQueue[q]
    BY <1>2, <2>1
  <2>5. CASE p.job # j
    <3>1. \A q \in Payloads : q.job = j => scrapeQueue'[q] = scrapeQueue[q]
      BY <2>4, <2>5
    <3>2. \A v \in Workers : Busy(v)' /\ worker'[v].job = j =>
              Busy(v) /\ worker[v].job = j /\ worker'[v].pc = worker[v].pc
      BY <2>3, <2>5 DEF Busy
    <3> QED
      BY <1>1, <2>2, <3>1, <3>2, SameOrder
  <2>6. CASE p.job = j
    <3>1. /\ scrapeQueue[p] = 1 /\ \A q \in Payloads \ {p} : q.job = j => scrapeQueue[q] = 0
          /\ NoWorker(j) /\ NoMessage(j) /\ NoUpdate(j)
      BY <2>1, <2>6 DEF Orderly, PayloadFirst
    <3>2. NoPayload(j)' /\ NoMessage(j)' /\ NoUpdate(j)'
      BY <1>1, <2>2, <2>4, <3>1 DEF NoPayload, NoMessage, NoUpdate
    <3>3. OneWorker(j)'
      BY <2>3, <3>1, <3>2 DEF OneWorker, NoWorker, Busy
    <3>4. jobs'[j].status \notin FinalStatuses
      BY <1>1, <2>1, <2>6 DEF Orderly, FinalStatusLast, NoPayload
    <3> QED
      BY <3>2, <3>3, <3>4
         DEF Orderly, PayloadFirst, FinalMessageLast, FinalUpdateLast, FinalStatusLast,
             NoPayload, NoMessage, NoUpdate
  <2> QED
    BY <2>5, <2>6
<1>5. ASSUME NEW w \in Workers, Start(w)
      PROVE  Orderly(j)'
  <2>1. /\ Busy(w) /\ worker[w].pc = "popped"
        /\ PushStatus(worker[w].job, "in_progress", 0)
        /\ UNCHANGED scrapeQueue
    BY <1>5 DEF Start, Busy
  <2>2. \A v \in Workers : /\ Busy(v)' = Busy(v) /\ worker'[v].job = worker[v].job
                           /\ v # w => worker'[v].pc = worker[v].pc
    BY <1>2, <1>5 DEF Start, Busy, WorkerStates
  <2>3. worker'[w].pc = "scraping"
    BY <1>2, <1>5 DEF Start, WorkerStates
  <2>4. /\ Len(statusQueue) \in Nat
        /\ Len(statusQueue') = Len(statusQueue) + 1
        /\ \A i \in 1..Len(statusQueue) : statusQueue'[i] = statusQueue[i]
        /\ statusQueue'[Len(statusQueue) + 1].job = worker[w].job
        /\ statusQueue'[Len(statusQueue) + 1].status = "in_progress"
        /\ worker[w].job # j /\ NoMessage(j) => NoMessage(j)'
    BY <1>3, <2>1
  <2>5. /\ NoWorker(j) => NoWorker(j)'
        /\ NoPayload(j) => NoPayload(j)'
        /\ NoUpdate(j) => NoUpdate(j)'
        /\ NoWorker(j) => worker[w].job # j
    BY <1>1, <2>1, <2>2 DEF NoWorker, NoPayload, NoUpdate
  <2>6. PayloadFirst(j)'
    BY <2>1, <2>4, <2>5 DEF Orderly, PayloadFirst
  <2>7. OneWorker(j)'
    BY <2>1, <2>2, <2>3, <2>4, <2>5 DEF Orderly, OneWorker
  <2>8. FinalMessageLast(j)'
    <3>1. ASSUME NEW i \in 1..Len(statusQueue'), statusQueue'[i].job = j,
                 statusQueue'[i].status \in FinalStatuses
          PROVE  /\ NoWorker(j)
                 /\ \A k \in 1..Len(statusQueue') : k > i => statusQueue'[k].job # j
      <4>1. i \in 1..Len(statusQueue) /\ statusQueue'[i] = statusQueue[i]
        BY <2>4, <3>1 DEF FinalStatuses, CountedStatuses
      <4>2. /\ NoWorker(j)
            /\ \A k \in 1..Len(statusQueue) : k > i => statusQueue[k].job # j
        BY <3>1, <4>1 DEF Orderly, FinalMessageLast
      <4> QED
        BY <2>4, <2>5, <4>2
    <3> QED
      BY <2>5, <3>1 DEF FinalMessageLast
  <2>9. FinalUpdateLast(j)'
    BY <1>1, <2>4, <2>5 DEF Orderly, FinalUpdateLast
  <2>10. FinalStatusLast(j)'
    BY <1>1, <2>4, <2>5 DEF Orderly, FinalStatusLast
  <2> QED
    BY <2>6, <2>7, <2>8, <2>9, <2>10 DEF Orderly
<1>6. ASSUME NEW w \in Workers, PushBatch(w) \/ JobTimeout(w)
      PROVE  Orderly(j)'
  <2>1. UNCHANGED <<scrapeQueue, statusQueue>>
    BY <1>6 DEF PushBatch, JobTimeout, lists
  <2>2. \A v \in Workers : worker'[v].pc = worker[v].pc /\ worker'[v].job = worker[v].job
    <3>1. CASE PushBatch(w)
      <4>1. PICK n : worker' = [worker EXCEPT ![w].leads = worker[w].leads + n]
        BY <3>1 DEF PushBatch
      <4> QED
        BY <1>2, <4>1 DEF WorkerStates
    <3>2. CASE JobTimeout(w)
      BY <1>2, <3>2 DEF JobTimeout, WorkerStates
    <3> QED
      BY <1>6, <3>1, <3>2
  <2> QED
    BY <1>1, <2>1, <2>2, SameOrder DEF Busy
<1>7. ASSUME NEW w \in Workers,
             RejectUnknown(w) \/ Finish(w) \/ ScrapeFails(w)
      PROVE  Orderly(j)'
  <2>1. PICK status \in FinalStatuses : \E leads : PushStatus(worker[w].job, status, leads)
    <3>1. CASE RejectUnknown(w)
      BY <3>1 DEF RejectUnknown, FinalStatuses
    <3>2. CASE Finish(w)
      <4>1. (IF worker[w].aborted THEN "timeout" ELSE "completed") \in FinalStatuses
        BY DEF FinalStatuses, CountedStatuses
      <4> QED
        BY <3>2, <4>1 DEF Finish
    <3>3. CASE ScrapeFails(w)
      BY <3>3 DEF ScrapeFails, FinalStatuses
    <3> QED
      BY <1>7, <3>1, <3>2, <3>3
  <2>2. Busy(w) /\ UNCHANGED scrapeQueue /\ Idle(w)
    BY <1>7 DEF RejectUnknown, Finish, ScrapeFails, Busy
  <2>3. /\ ~Busy(w)' /\ \A v \in Workers \ {w} : worker'[v] = worker[v]
    BY <1>2, <2>2 DEF Idle, Busy, IdleWorker
  <2>4. /\ Len(statusQueue) \in Nat
        /\ Len(statusQueue') = Len(statusQueue) + 1
        /\ \A i \in 1..Len(statusQueue) : statusQueue'[i] = statusQueue[i]
        /\ statusQueue'[Len(statusQueue) + 1].job = worker[w].job
        /\ worker[w].job # j /\ NoMessage(j) => NoMessage(j)'
    BY <1>3, <2>1, <2>2
  <2>5. /\ NoWorker(j) => NoWorker(j)'
        /\ NoPayload(j) => NoPayload(j)'
        /\ NoUpdate(j) => NoUpdate(j)'
        /\ NoWorker(j) => worker[w].job # j
    BY <1>1, <2>2, <2>3 DEF NoWorker, NoPayload, NoUpdate, Busy
  <2>6. worker[w].job = j => NoWorker(j)'
    BY <2>2, <2>3 DEF Orderly, OneWorker, NoWorker, Busy
  <2>7. PayloadFirst(j)'
    BY <2>2, <2>4, <2>5 DEF Orderly, PayloadFirst
  <2>8. OneWorker(j)'
    BY <2>2, <2>3, <2>4, <2>5 DEF Orderly, OneWorker, Busy
  <2>9. FinalMessageLast(j)'
    <3>1. ASSUME NEW i \in 1..Len(statusQueue'), statusQueue'[i].job = j,
                 statusQueue'[i].status \in FinalStatuses
          PROVE  /\ NoWorker(j)'
                 /\ \A k \in 1..Len(statusQueue') : k > i => statusQueue'[k].job # j
      <4>1. CASE i = Len(statusQueue) + 1
        BY <2>4, <2>6, <3>1, <4>1
      <4>2. CASE i # Len(statusQueue) + 1
        <5>1. i \in 1..Len(statusQueue) /\ statusQueue'[i] = statusQueue[i]
          BY <2>4, <4>2
        <5>2. /\ NoWorker(j)
              /\ \A k \in 1..Len(statusQueue) : k > i => statusQueue[k].job # j
          BY <3>1, <5>1 DEF Orderly, FinalMessageLast
        <5> QED
          BY <2>4, <2>5, <5>2
      <4> QED
        BY <4>1, <4>2
    <3> QED
      BY <3>1 DEF FinalMessageLast
  <2>10. FinalUpdateLast(j)'
    BY <1>1, <2>4, <2>5 DEF Orderly, FinalUpdateLast
  <2>11. FinalStatusLast(j)'
    BY <1>1, <2>4, <2>5 DEF Orderly, FinalStatusLast
  <2> QED
    BY <2>7, <2>8, <2>9, <2>10, <2>11 DEF Orderly
<1> QED
  BY <1>2, <1>4, <1>5, <1>6, <1>7 DEF RunnerNext, RunnerStep, StartFails, WorkersStop,
                                      Fault

(* A single drainer writes the statuses in the order of the queue.         *)
LEMMA RecoveryOrder ==
    ASSUME \A d, e \in Drainers : d = e,
           TypeOK, TypeOK', LeadRecoveryNext, faults' = 0, NEW j \in Jobs, Orderly(j)
    PROVE  Orderly(j)'
<1>1. UNCHANGED <<scrapeQueue, worker>>
  BY DEF LeadRecoveryNext, DrainStep, Dequeue, UpdateStatus, UpdateFails, Count,
         CountFails, MarkCompletedIfDone, FetchHit, FetchMiss, Fill, Refund,
         DrainStops, drainUnchanged
<1>2. /\ drainer \in [Drainers -> DrainerStates] /\ jobs \in [Jobs -> JobRows]
      /\ statusQueue \in Seq(StatusMessages) /\ faults \in Nat
  BY DEF TypeOK, DrainersOK, JobsOK, ListsOK
<1>3. (NoWorker(j) => NoWorker(j)') /\ (NoPayload(j) => NoPayload(j)')
  BY <1>1 DEF NoWorker, NoPayload, Busy
<1>4. ASSUME NEW d \in Drainers, Dequeue(d)
      PROVE  Orderly(j)'
  <2>1. /\ statusQueue # <<>> /\ statusQueue' = Tail(statusQueue) /\ UNCHANGED jobs
        /\ drainer'[d].pc = "update" /\ drainer'[d].msg = statusQueue[1]
    BY <1>2, <1>4 DEF Dequeue, IdleDrainer, tables
  <2>2. /\ Len(statusQueue) \in Nat /\ Len(statusQueue) > 0
        /\ Len(statusQueue') = Len(statusQueue) - 1
        /\ \A i \in 1..Len(statusQueue') :
              i + 1 \in 1..Len(statusQueue) /\ statusQueue'[i] = statusQueue[i + 1]
    BY <1>2, <2>1
  <2>3. NoMessage(j) => NoMessage(j)' /\ NoUpdate(j)'
    BY <2>1, <2>2 DEF NoMessage, NoUpdate
  <2>4. PayloadFirst(j)'
    BY <1>1, <1>3, <2>3 DEF Orderly, PayloadFirst
  <2>5. OneWorker(j)'
    BY <1>1, <2>3 DEF Orderly, OneWorker, Busy
  <2>6. FinalMessageLast(j)'
    <3>1. ASSUME NEW i \in 1..Len(statusQueue'), statusQueue'[i].job = j,
                 statusQueue'[i].status \in FinalStatuses
          PROVE  /\ NoWorker(j)
                 /\ \A k \in 1..Len(statusQueue') : k > i => statusQueue'[k].job # j
      <4>1. i + 1 \in 1..Len(statusQueue) /\ statusQueue'[i] = statusQueue[i + 1]
        BY <2>2
      <4>2. /\ NoWorker(j)
            /\ \A k \in 1..Len(statusQueue) : k > i + 1 => statusQueue[k].job # j
        BY <3>1, <4>1 DEF Orderly, FinalMessageLast
      <4>3. ASSUME NEW k \in 1..Len(statusQueue'), k > i
            PROVE  statusQueue'[k].job # j
        <5>1. k + 1 \in 1..Len(statusQueue) /\ statusQueue'[k] = statusQueue[k + 1]
          BY <2>2
        <5>2. k + 1 > i + 1
          BY <4>3
        <5> QED
          BY <4>2, <5>1, <5>2
      <4> QED
        BY <4>2, <4>3
    <3> QED
      BY <1>3, <3>1 DEF FinalMessageLast
  <2>7. FinalUpdateLast(j)'
    <3>1. CASE statusQueue[1].job = j /\ statusQueue[1].status \in FinalStatuses
      <4>1. 1 \in 1..Len(statusQueue)
        BY <2>2
      <4>2. /\ NoWorker(j)
            /\ \A k \in 1..Len(statusQueue) : k > 1 => statusQueue[k].job # j
        BY <3>1, <4>1 DEF Orderly, FinalMessageLast
      <4>3. NoMessage(j)'
        BY <2>2, <4>2 DEF NoMessage
      <4> QED
        BY <1>3, <4>2, <4>3 DEF FinalUpdateLast
    <3>2. CASE ~(statusQueue[1].job = j /\ statusQueue[1].status \in FinalStatuses)
      BY <2>1, <3>2 DEF FinalUpdateLast
    <3> QED
      BY <3>1, <3>2
  <2>8. FinalStatusLast(j)'
    BY <1>3, <2>1, <2>3 DEF Orderly, FinalStatusLast
  <2> QED
    BY <2>4, <2>5, <2>6, <2>7, <2>8 DEF Orderly
<1>5. ASSUME NEW d \in Drainers, drainer'[d].pc # "update", UNCHANGED statusQueue
      PROVE  /\ NoUpdate(j)' /\ PayloadFirst(j)' /\ OneWorker(j)'
             /\ FinalMessageLast(j)' /\ FinalUpdateLast(j)'
  <2>1. NoUpdate(j)'
    BY <1>5 DEF NoUpdate
  <2>2. NoMessage(j) => NoMessage(j)'
    BY <1>5 DEF NoMessage
  <2>3. PayloadFirst(j)' /\ OneWorker(j)'
    BY <1>1, <1>3, <2>1, <2>2 DEF Orderly, PayloadFirst, OneWorker, Busy
  <2>4. FinalMessageLast(j)'
    BY <1>3, <1>5 DEF Orderly, FinalMessageLast
  <2>5. FinalUpdateLast(j)'
    BY <1>5 DEF FinalUpdateLast
  <2> QED
    BY <2>1, <2>3, <2>4, <2>5
<1>6. ASSUME NEW d \in Drainers, UpdateStatus(d)
      PROVE  Orderly(j)'
  <2>1. UNCHANGED statusQueue /\ drainer'[d].pc # "update" /\ drainer[d].pc = "update"
    <3>1. UNCHANGED statusQueue /\ drainer[d].pc = "update" /\ (DrainTo(d, "count") \/ DrainDone(d))
      BY <1>6 DEF UpdateStatus
    <3>2. DrainTo(d, "count") => drainer'[d].pc = "count"
      BY <1>2 DEF DrainTo, DrainerStates
    <3>3. DrainDone(d) => drainer'[d].pc = "idle"
      BY <1>2 DEF DrainDone, IdleDrainer
    <3> QED
      BY <3>1, <3>2, <3>3
  <2>2. CASE Message(d).job # j \/ Message(d).status \notin FinalStatuses
    <3>1. jobs'[j].status \in FinalStatuses => jobs[j].status \in FinalStatuses
      BY <1>2, <1>6, <2>2 DEF UpdateStatus, JobRows
    <3>2. FinalStatusLast(j)'
      BY <1>3, <1>5, <2>1, <3>1 DEF Orderly, FinalStatusLast, NoMessage
    <3> QED
      BY <1>5, <2>1, <3>2 DEF Orderly
  <2>3. CASE Message(d).job = j /\ Message(d).status \in FinalStatuses
    <3>1. NoWorker(j) /\ NoMessage(j)
      BY <2>1, <2>3 DEF Orderly, FinalUpdateLast, Message
    <3>2. ~NoUpdate(j)
      BY <2>1, <2>3 DEF NoUpdate, Message
    <3>3. NoPayload(j)
      BY <1>1, <3>2 DEF Orderly, PayloadFirst, NoPayload, TypeOK, ListsOK
    <3>4. FinalStatusLast(j)'
      BY <1>3, <1>5, <2>1, <3>1, <3>3 DEF FinalStatusLast, NoMessage
    <3> QED
      BY <1>5, <2>1, <3>4 DEF Orderly
  <2> QED
    BY <2>2, <2>3
<1>7. ASSUME NEW d \in Drainers,
             Count(d) \/ MarkCompletedIfDone(d) \/ FetchHit(d) \/ FetchMiss(d)
             \/ Fill(d) \/ Refund(d)
      PROVE  Orderly(j)'
  <2>1. UNCHANGED <<jobs, statusQueue>>
    BY <1>7 DEF Count, MarkCompletedIfDone, FetchHit, FetchMiss, Fill, Refund, tables
  <2>2. drainer'[d].pc # "update"
    BY <1>2, <1>7 DEF Count, MarkCompletedIfDone, FetchHit, FetchMiss, Fill, Refund,
                      DrainTo, DrainDone, RefundIfEmpty, IdleDrainer, DrainerStates
  <2>3. FinalStatusLast(j)'
    BY <1>3, <1>5, <2>1, <2>2 DEF Orderly, FinalStatusLast, NoMessage
  <2> QED
    BY <1>5, <2>1, <2>2, <2>3 DEF Orderly
<1> QED
  BY <1>2, <1>4, <1>6, <1>7 DEF LeadRecoveryNext, DrainStep, UpdateFails, CountFails,
                                DrainStops, Fault

(* The watchdog gives a job another run only after it has counted it.      *)
LEMMA WatchdogOrder ==
    ASSUME TypeOK, RetriesCounted, WatchdogNext, NEW j \in Jobs,
           jobs'[j].attempt = 0, Orderly(j)
    PROVE  Orderly(j)'
<1>1. UNCHANGED <<statusQueue, drainer>>
  BY DEF WatchdogNext, WatchdogStep, GetStalledJobs, Kill, MarkDead,
         RequeueJob, Enqueue, WatchdogCallFails, WatchdogStops, watchUnchanged
<1>2. \A w \in Workers : worker'[w].pc = worker[w].pc /\ worker'[w].job = worker[w].job
  <2>1. ASSUME NEW g \in Watchdogs, Kill(g), NEW w \in Workers
        PROVE  worker'[w].pc = worker[w].pc /\ worker'[w].job = worker[w].job
    BY <2>1 DEF Kill, TypeOK, WorkersOK, WorkerStates
  <2>2. UNCHANGED worker \/ \E g \in Watchdogs : Kill(g)
    BY DEF WatchdogNext, WatchdogStep, GetStalledJobs, MarkDead,
           RequeueJob, Enqueue, WatchdogCallFails, WatchdogStops
  <2> QED
    BY <2>1, <2>2
<1>3. \A p \in Payloads : p.job = j => scrapeQueue'[p] = scrapeQueue[p]
  <2>1. ASSUME NEW g \in Watchdogs, Enqueue(g), NEW p \in Payloads, p.job = j
        PROVE  scrapeQueue'[p] = scrapeQueue[p]
    <3>1. UNCHANGED jobs /\ watchdog[g].job \in Jobs /\ watchdog[g].pc = "enqueue"
      BY <2>1 DEF Enqueue, TypeOK, WatchdogsOK
    <3>2. watchdog[g].job # j
      BY <3>1 DEF RetriesCounted
    <3> QED
      BY <2>1, <3>2 DEF Enqueue, RequeuePayload, TypeOK, ListsOK
  <2>2. UNCHANGED scrapeQueue \/ \E g \in Watchdogs : Enqueue(g)
    BY DEF WatchdogNext, WatchdogStep, GetStalledJobs, Kill, MarkDead,
           RequeueJob, WatchdogCallFails, WatchdogStops
  <2> QED
    BY <2>1, <2>2
<1>4. jobs'[j].status \in FinalStatuses => jobs[j].status \in FinalStatuses
  <2>1. UNCHANGED jobs \/ \E g \in Watchdogs : MarkDead(g) \/ RequeueJob(g)
    BY DEF WatchdogNext, WatchdogStep, GetStalledJobs, Kill, Enqueue,
           WatchdogCallFails, WatchdogStops
  <2>2. ASSUME NEW g \in Watchdogs, MarkDead(g) \/ RequeueJob(g)
        PROVE  jobs'[j].status \in {jobs[j].status, "dead", "pending"}
    BY <2>2 DEF MarkDead, RequeueJob, TypeOK, JobsOK, JobRows
  <2> QED
    BY <2>1, <2>2 DEF FinalStatuses, CountedStatuses
<1> QED
  BY <1>1, <1>2, <1>3, <1>4, SameOrder DEF Busy

(* With one drainer, the first run of a job takes its course: at any time  *)
(* one payload, one worker or its last status stands for it.               *)
THEOREM FirstRunsInOrder ==
    ASSUME \A d, e \in Drainers : d = e
    PROVE  Spec => []FirstRunsOrderly
<1>1. Init => FirstRunsOrderly
  <2> SUFFICES ASSUME Init, NEW j \in Jobs
               PROVE  Orderly(j)
    BY DEF FirstRunsOrderly
  <2>1. /\ NoWorker(j) /\ NoMessage(j) /\ NoUpdate(j) /\ NoPayload(j)
        /\ jobs[j].status = "none"
    BY DEF Init, IdleWorker, IdleDrainer, Busy, NoWorker, NoMessage, NoUpdate, NoPayload
  <2> QED
    BY <2>1 DEF Orderly, PayloadFirst, OneWorker, FinalMessageLast, FinalUpdateLast,
                FinalStatusLast, NoWorker, NoMessage, NoUpdate, NoPayload,
                FinalStatuses, CountedStatuses
<1>2. ASSUME TypeOK, TypeOK', NothingBeforeAccepted, RetriesCounted, FirstRunsOrderly,
             [Next]_vars
      PROVE  FirstRunsOrderly'
  <2> SUFFICES ASSUME faults' = 0, NEW j \in Jobs, jobs'[j].attempt = 0
               PROVE  Orderly(j)'
    BY DEF FirstRunsOrderly
  <2>1. faults = 0 /\ jobs[j].attempt = 0
    BY <1>2, FaultsStay, AttemptGrows
  <2>2. Orderly(j)
    BY <1>2, <2>1 DEF FirstRunsOrderly
  <2>3. CASE UNCHANGED vars
    BY <2>2, <2>3, SameOrder DEF vars, tables, lists, Busy
  <2> QED
    BY <1>2, <2>2, <2>3, ServiceOrder, RunnerOrder, RecoveryOrder, WatchdogOrder
       DEF Next
<1> QED
  BY <1>1, <1>2, TypeCorrect, NothingRunsBeforeAccepted, RetriesAreCounted, PTL DEF Spec

(* A step that changes a final status is a retry, a failure, or the work   *)
(* of a second drainer.                                                    *)
LEMMA FinalStatusKept ==
    ASSUME MaxAttempts # 0, TypeOK, TypeOK', NothingBeforeAccepted, RetriesCounted,
           FirstRunsOrderly, [Next]_vars, faults' = 0,
           NEW j \in Jobs, jobs'[j].attempt = 0, jobs[j].status \in FinalStatuses
    PROVE  jobs'[j].status = jobs[j].status
<1>1. faults = 0 /\ jobs[j].attempt = 0 /\ jobs \in [Jobs -> JobRows]
  BY FaultsStay, AttemptGrows DEF TypeOK, JobsOK
<1>2. NoPayload(j) /\ NoWorker(j) /\ NoMessage(j) /\ NoUpdate(j)
  BY <1>1 DEF FirstRunsOrderly, Orderly, FinalStatusLast
<1>3. ASSUME NEW c \in Campaigns, InsertJobs(c) \/ InsertJobsFails(c)
      PROVE  jobs'[j].status = jobs[j].status
  <2>1. j \notin JobsOf(c)
    BY <1>3 DEF InsertJobs, InsertJobsFails, RequestStep, NothingBeforeAccepted,
                Submitted, NotQueued, JobsOf, FinalStatuses, CountedStatuses
  <2>2. \E J \in SUBSET JobsOf(c) : PendingRows(J)
    BY <1>3 DEF InsertJobs, InsertJobsFails
  <2> QED
    BY <2>1, <2>2 DEF PendingRows
<1>4. ASSUME NEW d \in Drainers, UpdateStatus(d)
      PROVE  jobs'[j].status = jobs[j].status
  BY <1>1, <1>2, <1>4 DEF UpdateStatus, NoUpdate, Message, JobRows
<1>5. ASSUME NEW g \in Watchdogs, MarkDead(g) \/ RequeueJob(g)
      PROVE  jobs'[j].status = jobs[j].status
  <2>1. CASE watchdog[g].job = j
    <3>1. ~RequeueJob(g)
      BY <1>1, <2>1 DEF RequeueJob, JobRows
    <3>2. j \notin watchdog[g].spent
      BY <1>1, BoundsAssumption DEF RetriesCounted
    <3> QED
      BY <1>5, <2>1, <3>1, <3>2 DEF MarkDead, Exhausted
  <2>2. CASE watchdog[g].job # j
    BY <1>1, <1>5, <2>2 DEF MarkDead, RequeueJob
  <2> QED
    BY <2>1, <2>2
<1>6. CASE CampaignServiceNext
  BY <1>3, <1>6
     DEF CampaignServiceNext, CreateStep, CheckLimit, RollBack, InsertCampaign,
         EnqueueJobs, CreateStops, ViewerLoads, ViewerFills, CacheExpires, NextDay,
         tables
<1>7. CASE RunnerNext
  BY <1>7 DEF RunnerNext, RunnerStep, Pop, RejectUnknown, Start, PushBatch, JobTimeout,
              Finish, ScrapeFails, StartFails, WorkersStop, runnerUnchanged, tables
<1>8. CASE LeadRecoveryNext
  BY <1>4, <1>8
     DEF LeadRecoveryNext, DrainStep, Dequeue, UpdateFails, Count, CountFails,
         MarkCompletedIfDone, FetchHit, FetchMiss, Fill, Refund, DrainStops, tables
<1>9. CASE WatchdogNext
  BY <1>5, <1>9 DEF WatchdogNext, WatchdogStep, GetStalledJobs, Kill, Enqueue,
                    WatchdogCallFails, WatchdogStops
<1>10. CASE UNCHANGED vars
  BY <1>10 DEF vars, tables
<1> QED
  BY <1>6, <1>7, <1>8, <1>9, <1>10 DEF Next

(* With one drainer and no failure, a job that was never requeued keeps    *)
(* the final status it reported: its in_progress was written before, and   *)
(* no other run of it can report any more.                                 *)
THEOREM FinalStatusesStick ==
    ASSUME \A d, e \in Drainers : d = e, MaxAttempts # 0
    PROVE  Spec => FinalStatusSticks
<1>1. ASSUME TypeOK, TypeOK', NothingBeforeAccepted, RetriesCounted, FirstRunsOrderly,
             [Next]_vars
      PROVE  [\A j \in Jobs : /\ jobs[j].status \in FinalStatuses
                              /\ jobs'[j].attempt = 0
                              /\ faults' = 0
                              => jobs'[j].status = jobs[j].status]_vars
  BY <1>1, FinalStatusKept
<1>2. Spec => []FirstRunsOrderly
  BY FirstRunsInOrder
<1> QED
  BY <1>1, <1>2, TypeCorrect, NothingRunsBeforeAccepted, RetriesAreCounted, PTL
     DEF Spec, FinalStatusSticks

-----------------------------------------------------------------------------
(***************************************************************************)
(* Campaigns marked completed.                                             *)
(***************************************************************************)

(* The jobs of a campaign that ended in a status that counts, and the      *)
(* drainers about to count one of them.                                    *)
Ended(c) == {j \in JobsOf(c) : jobs[j].status \in CountedStatuses}

DueFor(c) == {d \in Drainers : drainer[d].pc = "count" /\ MessageCampaign(d) = c}

(* What is counted, or about to be, are different jobs that have ended.    *)
EndedCounted(c) ==
    /\ campaigns[c].completed + Cardinality(DueFor(c)) <= Cardinality(Ended(c))
    /\ campaigns[c].status = "completed" => Ended(c) = JobsOf(c)

FirstRunsCounted ==
    faults = 0 => \A c \in Campaigns : NeverRequeued(c) => EndedCounted(c)

LEMMA EndedFinite ==
    ASSUME NEW c
    PROVE  /\ IsFiniteSet(JobsOf(c)) /\ Cardinality(JobsOf(c)) \in Nat
           /\ IsFiniteSet(Ended(c)) /\ Cardinality(Ended(c)) \in Nat
           /\ IsFiniteSet(Ended(c)') /\ Cardinality(Ended(c)') \in Nat
           /\ IsFiniteSet(DueFor(c)) /\ Cardinality(DueFor(c)) \in Nat
           /\ IsFiniteSet(DueFor(c)') /\ Cardinality(DueFor(c)') \in Nat
<1>1. /\ JobsOf(c) \subseteq Jobs /\ Ended(c) \subseteq Jobs /\ Ended(c)' \subseteq Jobs
      /\ DueFor(c) \subseteq Drainers /\ DueFor(c)' \subseteq Drainers
  BY DEF JobsOf, Ended, DueFor
<1> QED
  BY <1>1, JobsAssumption, ProcessesAssumption, FS_Subset, FS_CardinalityType

(* A step that neither counts nor completes keeps the account if the ended *)
(* jobs stay ended and no further count falls due.                         *)
LEMMA EndedKept ==
    ASSUME TypeOK, TypeOK', NEW c \in Campaigns, EndedCounted(c),
           campaigns'[c].completed = campaigns[c].completed,
           campaigns'[c].status = "completed" => campaigns[c].status = "completed",
           Ended(c) \subseteq Ended(c)', DueFor(c)' \subseteq DueFor(c)
    PROVE  EndedCounted(c)'
<1>1. /\ Cardinality(Ended(c)) <= Cardinality(Ended(c)')
      /\ Cardinality(DueFor(c)') <= Cardinality(DueFor(c))
  BY EndedFinite, FS_Subset
<1>2. campaigns[c].completed \in Nat
  BY DEF TypeOK, CampaignsOK, CampaignRows
<1>3. campaigns'[c].completed + Cardinality(DueFor(c)') <= Cardinality(Ended(c)')
  BY <1>1, <1>2, EndedFinite DEF EndedCounted
<1>4. Ended(c)' \subseteq JobsOf(c)
  BY DEF Ended, JobsOf
<1> QED
  BY <1>3, <1>4 DEF EndedCounted, JobsOf

(* Without requeue, a drainer that writes a status that counts ends a job  *)
(* that had not ended before.                                              *)
LEMMA UpdateEnds ==
    ASSUME TypeOK, TypeOK', FirstRunsOrderly, faults = 0,
           NEW d \in Drainers, UpdateStatus(d),
           NEW c \in Campaigns, NeverRequeued(c), EndedCounted(c),
           Ended(c) \subseteq Ended(c)'
    PROVE  EndedCounted(c)'
<1>1. /\ drainer \in [Drainers -> DrainerStates] /\ jobs \in [Jobs -> JobRows]
      /\ Message(d) \in StatusMessages /\ Message(d).job \in Jobs
      /\ campaigns[c].completed \in Nat /\ UNCHANGED campaigns
      /\ drainer[d].pc = "update"
  BY DEF UpdateStatus, TypeOK, DrainersOK, JobsOK, CampaignsOK, CampaignRows, Message,
         StatusMessages
<1>2. CASE Message(d).status \in CountedStatuses /\ MessageCampaign(d) = c
  <2>1. DrainTo(d, "count")
    BY <1>2 DEF UpdateStatus
  <2>2. d \notin DueFor(c) /\ DueFor(c)' = DueFor(c) \cup {d}
    BY <1>1, <1>2, <2>1 DEF DrainTo, DueFor, MessageCampaign, Message, DrainerStates
  <2>3. Cardinality(DueFor(c)') = Cardinality(DueFor(c)) + 1
    BY <2>2, EndedFinite, FS_AddElement
  <2>4. Message(d).job \in JobsOf(c)
    BY <1>1, <1>2 DEF MessageCampaign, JobsOf
  <2>5. jobs[Message(d).job].status \notin FinalStatuses
    BY <1>1, <2>4 DEF FirstRunsOrderly, NeverRequeued, Orderly, FinalStatusLast,
                      NoUpdate, Message
  <2>6. jobs'[Message(d).job].status = Message(d).status
    BY <1>1 DEF UpdateStatus, JobRows
  <2>7. Message(d).job \notin Ended(c) /\ Message(d).job \in Ended(c)'
    BY <1>2, <2>4, <2>5, <2>6 DEF Ended, FinalStatuses, JobsOf
  <2>8. Cardinality(Ended(c) \cup {Message(d).job}) = Cardinality(Ended(c)) + 1
    BY <2>7, EndedFinite, FS_AddElement
  <2>9. Ended(c) \cup {Message(d).job} \subseteq Ended(c)'
    BY <2>7
  <2>10. Cardinality(Ended(c)) + 1 <= Cardinality(Ended(c)')
    BY <2>8, <2>9, EndedFinite, FS_Subset
  <2>11. campaigns'[c].completed + Cardinality(DueFor(c)') <= Cardinality(Ended(c)')
    BY <1>1, <2>3, <2>10, EndedFinite DEF EndedCounted
  <2>12. Ended(c)' \subseteq JobsOf(c)
    BY DEF Ended, JobsOf
  <2> QED
    BY <1>1, <2>11, <2>12 DEF EndedCounted, JobsOf
<1>3. CASE ~(Message(d).status \in CountedStatuses /\ MessageCampaign(d) = c)
  <2>1. DueFor(c)' \subseteq DueFor(c)
    <3>1. CASE Message(d).status \in CountedStatuses
      BY <1>1, <1>3, <3>1 DEF UpdateStatus, DrainTo, DueFor, MessageCampaign, Message,
                              DrainerStates
    <3>2. CASE Message(d).status \notin CountedStatuses
      BY <1>1, <3>2 DEF UpdateStatus, DrainDone, IdleDrainer, DueFor, MessageCampaign,
                        Message
    <3> QED
      BY <3>1, <3>2
  <2> QED
    BY <1>1, <2>1, EndedKept
<1> QED
  BY <1>2, <1>3

(* Each step of the drainer moves a job from ended to counted, or marks a  *)
(* campaign all of whose jobs are counted.                                 *)
LEMMA RecoveryCounts ==
    ASSUME TypeOK, TypeOK', FirstRunsOrderly, faults = 0, faults' = 0, LeadRecoveryNext,
           NEW c \in Campaigns, NeverRequeued(c), EndedCounted(c),
           Ended(c) \subseteq Ended(c)'
    PROVE  EndedCounted(c)'
<1>1. /\ drainer \in [Drainers -> DrainerStates]
      /\ campaigns \in [Campaigns -> CampaignRows]
      /\ campaigns[c].completed \in Nat
  BY DEF TypeOK, DrainersOK, CampaignsOK, CampaignRows
<1>2. Ended(c)' \subseteq JobsOf(c)
  BY DEF Ended, JobsOf
<1>3. ASSUME NEW d \in Drainers, Count(d)
      PROVE  EndedCounted(c)'
  <2>1. drainer[d].pc = "count" /\ DrainTo(d, "mark") /\ MessageCampaign(d) \in Campaigns
    BY <1>3, JobsAssumption
       DEF Count, TypeOK, DrainersOK, MessageCampaign, Message, StatusMessages
  <2>2. /\ campaigns'[c].status = campaigns[c].status
        /\ campaigns'[c].completed =
               IF MessageCampaign(d) = c THEN campaigns[c].completed + 1
                                         ELSE campaigns[c].completed
    BY <1>1, <1>3, <2>1 DEF Count, CampaignRows
  <2>3. DueFor(c)' = DueFor(c) \ {d}
    BY <1>1, <2>1 DEF DrainTo, DueFor, MessageCampaign, Message, DrainerStates
  <2>4. CASE MessageCampaign(d) = c
    <3>1. d \in DueFor(c)
      BY <2>1, <2>4 DEF DueFor
    <3>2. Cardinality(DueFor(c)') = Cardinality(DueFor(c)) - 1
      BY <2>3, <3>1, EndedFinite, FS_RemoveElement
    <3>3. Cardinality(Ended(c)) <= Cardinality(Ended(c)')
      BY EndedFinite, FS_Subset
    <3>4. campaigns'[c].completed + Cardinality(DueFor(c)') <= Cardinality(Ended(c)')
      BY <1>1, <2>2, <2>4, <3>2, <3>3, EndedFinite DEF EndedCounted
    <3> QED
      BY <1>2, <2>2, <3>4 DEF EndedCounted, JobsOf
  <2>5. CASE MessageCampaign(d) # c
    BY <2>2, <2>3, <2>5, EndedKept
  <2> QED
    BY <2>4, <2>5
<1>4. ASSUME NEW d \in Drainers, MarkCompletedIfDone(d)
      PROVE  EndedCounted(c)'
  <2>1. /\ DrainTo(d, "fetch") /\ UNCHANGED jobs
        /\ campaigns' = [campaigns EXCEPT ![MessageCampaign(d)].status =
                            IF @ = "active" /\ AllCounted(MessageCampaign(d))
                            THEN "completed" ELSE @]
    BY <1>4 DEF MarkCompletedIfDone
  <2>2. DueFor(c)' \subseteq DueFor(c)
    BY <1>1, <2>1 DEF DrainTo, DueFor, MessageCampaign, Message, DrainerStates
  <2>3. campaigns'[c].completed = campaigns[c].completed
    BY <1>1, <2>1 DEF CampaignRows
  <2>4. CASE campaigns'[c].status = campaigns[c].status
    BY <2>2, <2>3, <2>4, EndedKept
  <2>5. CASE campaigns'[c].status # campaigns[c].status
    <3>1. AllCounted(c)
      BY <1>1, <2>1, <2>5 DEF CampaignRows
    <3>2. Cardinality(JobsOf(c)) <= Cardinality(Ended(c))
      BY <1>1, <3>1, EndedFinite DEF AllCounted, EndedCounted
    <3>3. Ended(c) \subseteq JobsOf(c)
      BY DEF Ended
    <3>4. Ended(c) = JobsOf(c)
      <4>1. Cardinality(Ended(c)) <= Cardinality(JobsOf(c))
        BY <3>3, EndedFinite, FS_Subset
      <4>2. Cardinality(Ended(c)) = Cardinality(JobsOf(c))
        BY <3>2, <4>1, EndedFinite
      <4> QED
        BY <3>3, <4>2, EndedFinite, FS_Subset
    <3>5. Ended(c)' = JobsOf(c)
      BY <1>2, <3>4
    <3>6. campaigns'[c].completed + Cardinality(DueFor(c)') <= Cardinality(Ended(c)')
      <4>1. /\ Cardinality(Ended(c)) <= Cardinality(Ended(c)')
            /\ Cardinality(DueFor(c)') <= Cardinality(DueFor(c))
        BY <2>2, EndedFinite, FS_Subset
      <4> QED
        BY <1>1, <2>3, <4>1, EndedFinite DEF EndedCounted
    <3> QED
      BY <3>5, <3>6 DEF EndedCounted, JobsOf
  <2> QED
    BY <2>4, <2>5
<1>5. ASSUME NEW d \in Drainers,
             Dequeue(d) \/ FetchHit(d) \/ FetchMiss(d) \/ Fill(d) \/ Refund(d)
      PROVE  EndedCounted(c)'
  <2>1. UNCHANGED campaigns /\ drainer'[d].pc # "count"
    <3>1. UNCHANGED campaigns
      BY <1>5 DEF Dequeue, FetchHit, FetchMiss, Fill, Refund, tables
    <3>2. Dequeue(d) => drainer'[d].pc = "update"
      BY <1>1 DEF Dequeue, IdleDrainer, DrainerStates
    <3>3. ASSUME NEW copy, RefundIfEmpty(d, copy)
          PROVE  drainer'[d].pc \in {"refund", "idle"}
      BY <1>1, <3>3 DEF RefundIfEmpty, DrainDone, IdleDrainer, DrainerStates
    <3>4. FetchMiss(d) => drainer'[d].pc = "fill"
      BY <1>1 DEF FetchMiss, DrainerStates
    <3>5. Refund(d) => drainer'[d].pc = "idle"
      BY <1>1 DEF Refund, DrainDone, IdleDrainer, DrainerStates
    <3> QED
      BY <1>5, <3>1, <3>2, <3>3, <3>4, <3>5 DEF FetchHit, Fill
  <2>2. \A e \in Drainers \ {d} : drainer'[e] = drainer[e]
    BY <1>1, <1>5 DEF Dequeue, FetchHit, FetchMiss, Fill, Refund, DrainDone,
                      RefundIfEmpty
  <2>3. DueFor(c)' \subseteq DueFor(c)
    BY <2>1, <2>2 DEF DueFor, MessageCampaign, Message
  <2> QED
    BY <2>1, <2>3, EndedKept
<1> QED
  BY <1>3, <1>4, <1>5, UpdateEnds
     DEF LeadRecoveryNext, DrainStep, UpdateFails, CountFails, DrainStops, Fault,
         TypeOK

(* The other programs neither count nor complete.                          *)
LEMMA OthersCount ==
    ASSUME TypeOK, TypeOK', CampaignServiceNext \/ RunnerNext \/ WatchdogNext,
           NEW c \in Campaigns, EndedCounted(c), Ended(c) \subseteq Ended(c)'
    PROVE  EndedCounted(c)'
<1>1. UNCHANGED drainer
  BY DEF CampaignServiceNext, CreateStep, CheckLimit, RollBack, InsertCampaign,
         InsertJobs, EnqueueJobs, InsertJobsFails, CreateStops, ViewerLoads,
         ViewerFills, CacheExpires, NextDay, serviceUnchanged,
         RunnerNext, RunnerStep, Pop, RejectUnknown, Start, PushBatch, JobTimeout,
         Finish, ScrapeFails, StartFails, WorkersStop, runnerUnchanged,
         WatchdogNext, WatchdogStep, GetStalledJobs, Kill, MarkDead,
         RequeueJob, Enqueue, WatchdogCallFails, WatchdogStops, watchUnchanged
<1>2. UNCHANGED campaigns \/ \E b \in Campaigns : InsertCampaign(b)
  BY DEF CampaignServiceNext, CreateStep, CheckLimit, RollBack,
         InsertJobs, EnqueueJobs, InsertJobsFails, CreateStops, ViewerLoads,
         ViewerFills, CacheExpires, NextDay, tables,
         RunnerNext, RunnerStep, Pop, RejectUnknown, Start, PushBatch, JobTimeout,
         Finish, ScrapeFails, StartFails, WorkersStop, runnerUnchanged,
         WatchdogNext, WatchdogStep, GetStalledJobs, Kill, MarkDead,
         RequeueJob, Enqueue, WatchdogCallFails, WatchdogStops, watchUnchanged
<1>3. /\ campaigns'[c].completed = campaigns[c].completed
      /\ campaigns'[c].status = "completed" => campaigns[c].status = "completed"
  <2>1. ASSUME NEW b \in Campaigns, InsertCampaign(b)
        PROVE  /\ campaigns'[c].completed = campaigns[c].completed
               /\ campaigns'[c].status \in {"active", campaigns[c].status}
    BY <2>1 DEF InsertCampaign, TypeOK, CampaignsOK, CampaignRows
  <2> QED
    BY <1>2, <2>1
<1>4. DueFor(c)' = DueFor(c)
  BY <1>1 DEF DueFor, MessageCampaign, Message
<1> QED
  BY <1>3, <1>4, EndedKept

(* With one drainer and as long as nothing fails and no job of it is       *)
(* requeued, a campaign is marked completed only when all its jobs have    *)
(* ended: none is counted twice, and none starts again.                    *)
THEOREM CompletedCampaignsAreFinished ==
    ASSUME \A d, e \in Drainers : d = e, MaxAttempts # 0
    PROVE  Spec => []CompletedMeansAllFinishedOnce
<1>1. Init => FirstRunsCounted
  <2> SUFFICES ASSUME Init, NEW c \in Campaigns
               PROVE  EndedCounted(c)
    BY DEF FirstRunsCounted
  <2>1. DueFor(c) = {} /\ campaigns[c].completed = 0 /\ campaigns[c].status = "none"
    BY DEF Init, DueFor, IdleDrainer
  <2>2. Cardinality(DueFor(c)) = 0
    BY <2>1, FS_EmptySet
  <2> QED
    BY <2>1, <2>2, EndedFinite DEF EndedCounted
<1>2. ASSUME TypeOK, TypeOK', NothingBeforeAccepted, RetriesCounted, FirstRunsOrderly,
             FirstRunsCounted, [Next]_vars
      PROVE  FirstRunsCounted'
  <2> SUFFICES ASSUME faults' = 0, NEW c \in Campaigns, NeverRequeued(c)'
               PROVE  EndedCounted(c)'
    BY DEF FirstRunsCounted
  <2>1. faults = 0
    BY <1>2, FaultsStay
  <2>2. \A j \in JobsOf(c) : j \in Jobs /\ jobs[j].attempt = 0 /\ jobs'[j].attempt = 0
    BY <1>2, AttemptGrows DEF NeverRequeued, JobsOf
  <2>3. NeverRequeued(c) /\ EndedCounted(c)
    BY <1>2, <2>1, <2>2 DEF FirstRunsCounted, NeverRequeued
  <2>4. Ended(c) \subseteq Ended(c)'
    BY <1>2, <2>2, FinalStatusKept DEF Ended, FinalStatuses, JobsOf
  <2>5. CASE UNCHANGED vars
    BY <2>3, <2>5 DEF vars, tables, EndedCounted, Ended, DueFor, MessageCampaign, Message,
                      JobsOf
  <2> QED
    BY <1>2, <2>1, <2>3, <2>4, <2>5, RecoveryCounts, OthersCount DEF Next
<1>3. FirstRunsCounted => CompletedMeansAllFinishedOnce
  BY DEF FirstRunsCounted, CompletedMeansAllFinishedOnce, EndedCounted, Ended, Unfinished,
         CountedStatuses
<1>4. Spec => []FirstRunsOrderly
  BY FirstRunsInOrder
<1> QED
  BY <1>1, <1>2, <1>3, <1>4, TypeCorrect, NothingRunsBeforeAccepted, RetriesAreCounted,
     PTL DEF Spec
=============================================================================
