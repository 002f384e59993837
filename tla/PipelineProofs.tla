--------------------------- MODULE PipelineProofs ---------------------------
(***************************************************************************)
(* Theorems about JobPipeline, for any number of campaigns, jobs, workers, *)
(* API instances and failures: type correctness, and the bound on the      *)
(* attempts of a job.                                                      *)
(***************************************************************************)
EXTENDS JobPipeline, FiniteSetTheorems, TLAPS

-----------------------------------------------------------------------------
(***************************************************************************)
(* Type correctness.                                                       *)
(***************************************************************************)

(* The initial tables, queues and processes have their types.              *)
LEMMA InitTypeOK == Init => TypeOK
<1> SUFFICES ASSUME Init PROVE TypeOK
  OBVIOUS
<1> USE DEF Init
<1>1. CampaignsOK /\ JobsOK
  BY DEF CampaignsOK, JobsOK, CampaignRows, CampaignStatuses, JobRows, JobStatuses
<1>2. ListsOK
  BY DEF ListsOK, LeadKinds
<1>3. KeysOK /\ RequestsOK
  BY BoundsAssumption DEF KeysOK, RequestsOK, RequestPCs
<1>4. WorkersOK
  BY DEF WorkersOK, WorkerStates, IdleWorker, Busy
<1>5. DrainersOK
  BY DEF DrainersOK, DrainerStates, IdleDrainer
<1>6. WatchdogsOK
  BY DEF WatchdogsOK, WatchdogStates, IdleWatchdog
<1>7. ViewersOK
  BY DEF ViewersOK, IdleViewer
<1>8. faults \in 0..MaxFaults
  BY BoundsAssumption
<1> QED
  BY <1>1, <1>2, <1>3, <1>4, <1>5, <1>6, <1>7, <1>8 DEF TypeOK

(* A spent unit of the fault budget stays within the budget.               *)
LEMMA FaultType ==
    ASSUME faults \in 0..MaxFaults, Fault
    PROVE  faults' \in 0..MaxFaults
  BY BoundsAssumption DEF Fault

(* The steps of CampaignService keep the types.                            *)
LEMMA ServiceTypeOK ==
    ASSUME TypeOK, CampaignServiceNext
    PROVE  TypeOK'
<1> USE DEF TypeOK, serviceUnchanged, tables, keys
<1>1. ASSUME NEW c \in Campaigns, CheckLimit(c)
      PROVE  TypeOK'
  <2> USE <1>1 DEF CheckLimit
  <2>1. KeysOK'
    BY DEF KeysOK
  <2>2. RequestsOK'
    BY DEF RequestsOK, RequestPCs, KeysOK
  <2> QED
    BY <2>1, <2>2 DEF CampaignsOK, JobsOK, ListsOK, WorkersOK, Busy, DrainersOK,
                      WatchdogsOK, ViewersOK
<1>2. ASSUME NEW c \in Campaigns, RollBack(c)
      PROVE  TypeOK'
  <2> USE <1>2 DEF RollBack, RequestStep
  <2>1. KeysOK'
    BY DEF KeysOK, RequestsOK
  <2>2. RequestsOK'
    BY DEF RequestsOK, RequestPCs
  <2> QED
    BY <2>1, <2>2 DEF CampaignsOK, JobsOK, ListsOK, WorkersOK, Busy, DrainersOK,
                      WatchdogsOK, ViewersOK
<1>3. ASSUME NEW c \in Campaigns, InsertCampaign(c)
      PROVE  TypeOK'
  <2> USE <1>3 DEF InsertCampaign, RequestStep
  <2>1. CampaignsOK'
    BY DEF CampaignsOK, CampaignRows, CampaignStatuses
  <2>2. RequestsOK'
    BY DEF RequestsOK, RequestPCs
  <2> QED
    BY <2>1, <2>2 DEF JobsOK, ListsOK, KeysOK, WorkersOK, Busy, DrainersOK,
                      WatchdogsOK, ViewersOK
<1>4. ASSUME NEW J, PendingRows(J)
      PROVE  JobsOK'
  BY <1>4 DEF PendingRows, JobsOK, JobRows, JobStatuses
<1>5. ASSUME NEW c \in Campaigns, InsertJobs(c) \/ InsertJobsFails(c)
      PROVE  TypeOK'
  <2> USE <1>5 DEF InsertJobs, InsertJobsFails, RequestStep
  <2>1. JobsOK'
    BY <1>4
  <2>2. RequestsOK'
    BY DEF RequestsOK, RequestPCs
  <2>3. faults' \in 0..MaxFaults
    BY FaultType
  <2> QED
    BY <2>1, <2>2, <2>3 DEF CampaignsOK, ListsOK, KeysOK, WorkersOK, Busy,
                            DrainersOK, WatchdogsOK, ViewersOK
<1>6. ASSUME NEW c \in Campaigns, EnqueueJobs(c)
      PROVE  TypeOK'
  <2> USE <1>6 DEF EnqueueJobs, RequestStep
  <2>1. ListsOK'
    BY DEF ListsOK
  <2>2. RequestsOK'
    BY DEF RequestsOK, RequestPCs
  <2> QED
    BY <2>1, <2>2 DEF CampaignsOK, JobsOK, KeysOK, WorkersOK, Busy, DrainersOK,
                      WatchdogsOK, ViewersOK
<1>7. ASSUME NEW c \in Campaigns, CreateStops(c)
      PROVE  TypeOK'
  <2> USE <1>7 DEF CreateStops
  <2>1. RequestsOK'
    BY DEF RequestsOK, RequestPCs
  <2>2. faults' \in 0..MaxFaults
    BY FaultType
  <2> QED
    BY <2>1, <2>2 DEF CampaignsOK, JobsOK, ListsOK, KeysOK, WorkersOK, Busy,
                      DrainersOK, WatchdogsOK, ViewersOK
<1>8. ASSUME NEW c \in Campaigns, NEW v \in Viewers, ViewerLoads(v, c)
      PROVE  TypeOK'
  <2> USE <1>8 DEF ViewerLoads
  <2>1. ViewersOK'
    BY DEF ViewersOK, CampaignsOK
  <2> QED
    BY <2>1 DEF CampaignsOK, JobsOK, ListsOK, KeysOK, RequestsOK, WorkersOK, Busy,
                DrainersOK, WatchdogsOK
<1>9. ASSUME NEW v \in Viewers, ViewerFills(v)
      PROVE  TypeOK'
  <2> USE <1>9 DEF ViewerFills
  <2>1. ViewersOK'
    BY DEF ViewersOK, IdleViewer
  <2>2. KeysOK'
    BY DEF KeysOK, ViewersOK
  <2> QED
    BY <2>1, <2>2 DEF CampaignsOK, JobsOK, ListsOK, RequestsOK, WorkersOK, Busy,
                      DrainersOK, WatchdogsOK
<1>10. ASSUME NEW c \in Campaigns, CacheExpires(c)
       PROVE  TypeOK'
  <2> USE <1>10 DEF CacheExpires
  <2>1. KeysOK'
    BY DEF KeysOK
  <2> QED
    BY <2>1 DEF CampaignsOK, JobsOK, ListsOK, RequestsOK, WorkersOK, Busy,
                DrainersOK, WatchdogsOK, ViewersOK
<1>11. ASSUME NextDay
       PROVE  TypeOK'
  <2> USE <1>11 DEF NextDay, lists
  <2>1. KeysOK'
    BY BoundsAssumption DEF KeysOK
  <2> QED
    BY <2>1 DEF CampaignsOK, JobsOK, ListsOK, RequestsOK, WorkersOK, Busy,
                DrainersOK, WatchdogsOK, ViewersOK
<1> QED
  BY <1>1, <1>2, <1>3, <1>5, <1>6, <1>7, <1>8, <1>9, <1>10, <1>11
     DEF CampaignServiceNext, CreateStep

(* The steps of Runner keep the types.                                     *)
LEMMA RunnerTypeOK ==
    ASSUME TypeOK, RunnerNext
    PROVE  TypeOK'
<1> USE DEF TypeOK, runnerUnchanged, tables, keys
<1>1. UNCHANGED runnerUnchanged
      => CampaignsOK' /\ JobsOK' /\ KeysOK' /\ RequestsOK' /\ DrainersOK'
         /\ WatchdogsOK' /\ ViewersOK'
  BY DEF CampaignsOK, JobsOK, KeysOK, RequestsOK, DrainersOK, WatchdogsOK, ViewersOK
<1>2. ASSUME NEW w \in Workers, Idle(w)
      PROVE  WorkersOK'
  BY <1>2 DEF Idle, WorkersOK, WorkerStates, IdleWorker, Busy
<1>3. ASSUME NEW w \in Workers, Busy(w),
             NEW status \in {"in_progress"} \cup FinalStatuses, NEW leads \in Nat,
             PushStatus(worker[w].job, status, leads),
             UNCHANGED <<scrapeQueue, leadBatches>>
      PROVE  ListsOK'
  <2>1. worker[w].job \in Jobs
    BY <1>3 DEF WorkersOK
  <2>2. [job |-> worker[w].job, status |-> status, leads |-> leads, try |-> 0]
            \in StatusMessages
    BY <1>3, <2>1 DEF StatusMessages
  <2> QED
    BY <1>3, <2>2 DEF PushStatus, ListsOK
<1>4. ASSUME NEW w \in Workers, Pop(w)
      PROVE  TypeOK'
  <2>1. PICK p \in Payloads :
           /\ scrapeQueue[p] > 0
           /\ scrapeQueue' = [scrapeQueue EXCEPT ![p] = @ - 1]
           /\ worker' = [worker EXCEPT ![w] =
                 [IdleWorker EXCEPT !.pc = "popped", !.job = p.job, !.drop = p.drop]]
    BY <1>4 DEF Pop
  <2>2. p.job \in Jobs /\ p.drop \in BOOLEAN
    BY DEF Payloads
  <2>3. ListsOK'
    <3>1. scrapeQueue' \in [Payloads -> Nat]
      BY <2>1 DEF ListsOK
    <3> QED
      BY <1>4, <3>1 DEF Pop, ListsOK
  <2>4. WorkersOK'
    BY <2>1, <2>2 DEF WorkersOK, WorkerStates, IdleWorker, Busy
  <2> QED
    BY <1>1, <1>4, <2>3, <2>4 DEF Pop
<1>5. ASSUME NEW w \in Workers, RejectUnknown(w)
      PROVE  TypeOK'
  BY <1>1, <1>2, <1>3, <1>5 DEF RejectUnknown, Busy, FinalStatuses
<1>6. ASSUME NEW w \in Workers, Start(w)
      PROVE  TypeOK'
  <2> USE <1>6 DEF Start
  <2>1. ListsOK'
    BY <1>3 DEF Busy
  <2>2. WorkersOK'
    BY DEF WorkersOK, WorkerStates, Busy
  <2> QED
    BY <1>1, <2>1, <2>2
<1>7. ASSUME NEW w \in Workers, PushBatch(w)
      PROVE  TypeOK'
  <2>1. PICK rawBatch \in SUBSET LeadKinds :
           LET batch == IF worker[w].drop THEN rawBatch \ {"bare"} ELSE rawBatch
           IN  /\ leadBatches' = [leadBatches EXCEPT ![worker[w].job] =
                     [k \in LeadKinds |-> IF k \in batch THEN @[k] + 1 ELSE @[k]]]
               /\ worker' = [worker EXCEPT ![w].leads = @ + Cardinality(batch)]
    BY <1>7 DEF PushBatch
  <2> DEFINE batch == IF worker[w].drop THEN rawBatch \ {"bare"} ELSE rawBatch
  <2>2. Cardinality(batch) \in Nat
    <3>1. IsFiniteSet(LeadKinds)
      <4>1. IsFiniteSet({"contact"}) /\ LeadKinds = {"contact"} \cup {"bare"}
        BY FS_Singleton DEF LeadKinds
      <4> QED
        BY <4>1, FS_AddElement
    <3>2. batch \subseteq LeadKinds
      OBVIOUS
    <3> QED
      BY <3>1, <3>2, FS_Subset, FS_CardinalityType
  <2>3. ListsOK'
    <3>1. worker[w].job \in Jobs
      BY <1>7 DEF PushBatch, WorkersOK, Busy
    <3>2. [k \in LeadKinds |-> IF k \in batch THEN leadBatches[worker[w].job][k] + 1
                                            ELSE leadBatches[worker[w].job][k]]
              \in [LeadKinds -> Nat]
      BY <3>1 DEF ListsOK
    <3>3. leadBatches' \in [Jobs -> [LeadKinds -> Nat]]
      BY <2>1, <3>1, <3>2 DEF ListsOK
    <3> QED
      BY <1>7, <3>3 DEF PushBatch, ListsOK
  <2>4. WorkersOK'
    <3> HIDE DEF batch
    <3>1. worker' = [worker EXCEPT ![w].leads = @ + Cardinality(batch)]
      BY <2>1 DEF batch
    <3> QED
      BY <2>2, <3>1 DEF WorkersOK, WorkerStates, Busy
  <2> QED
    BY <1>1, <1>7, <2>3, <2>4 DEF PushBatch
<1>8. ASSUME NEW w \in Workers, JobTimeout(w)
      PROVE  TypeOK'
  <2>1. WorkersOK'
    BY <1>8 DEF JobTimeout, WorkersOK, WorkerStates, Busy
  <2>2. ListsOK'
    BY <1>8 DEF JobTimeout, ListsOK, lists
  <2> QED
    BY <1>1, <1>8, <2>1, <2>2 DEF JobTimeout
<1>9. ASSUME NEW w \in Workers, Finish(w) \/ ScrapeFails(w)
      PROVE  TypeOK'
  <2>1. worker[w].leads \in Nat
    BY DEF WorkersOK, WorkerStates
  <2>2. CASE Finish(w)
    BY <1>1, <1>2, <1>3, <2>1, <2>2 DEF Finish, Busy, FinalStatuses, CountedStatuses
  <2>3. CASE ScrapeFails(w)
    BY <1>1, <1>2, <1>3, <2>1, <2>3 DEF ScrapeFails, Busy, FinalStatuses
  <2> QED
    BY <1>9, <2>2, <2>3
<1>10. ASSUME NEW w \in Workers, StartFails(w)
       PROVE  TypeOK'
  BY <1>1, <1>2, <1>3, <1>10, FaultType DEF StartFails, Busy, FinalStatuses
<1>11. ASSUME NEW W \in SUBSET Workers, WorkersStop(W)
       PROVE  TypeOK'
  <2>1. WorkersOK'
    BY <1>11 DEF WorkersStop, WorkersOK, WorkerStates, IdleWorker, Busy
  <2>2. ListsOK'
    BY <1>11 DEF WorkersStop, ListsOK, lists
  <2> QED
    BY <1>1, <1>11, <2>1, <2>2, FaultType DEF WorkersStop
<1> QED
  BY <1>4, <1>5, <1>6, <1>7, <1>8, <1>9, <1>10, <1>11 DEF RunnerNext, RunnerStep

(* The steps of LeadRecovery keep the types.                               *)
LEMMA RecoveryTypeOK ==
    ASSUME TypeOK, LeadRecoveryNext
    PROVE  TypeOK'
<1> USE DEF TypeOK, drainUnchanged, tables, keys
<1>1. UNCHANGED drainUnchanged
      => RequestsOK' /\ WorkersOK' /\ WatchdogsOK' /\ ViewersOK'
  BY DEF RequestsOK, WorkersOK, Busy, WatchdogsOK, ViewersOK
<1>2. ASSUME NEW d \in Drainers, DrainDone(d)
      PROVE  DrainersOK'
  BY <1>2 DEF DrainDone, DrainersOK, DrainerStates, IdleDrainer
<1>3. ASSUME NEW d \in Drainers, drainer[d].pc # "idle",
             NEW pc \in {"count", "mark", "fetch"}, DrainTo(d, pc)
      PROVE  DrainersOK'
  BY <1>3 DEF DrainTo, DrainersOK, DrainerStates
<1>4. ASSUME NEW d \in Drainers, drainer[d].pc # "idle", NEW copy \in CampaignRows,
             RefundIfEmpty(d, copy)
      PROVE  DrainersOK'
  BY <1>2, <1>4 DEF RefundIfEmpty, DrainersOK, DrainerStates
<1>5. ASSUME NEW d \in Drainers, drainer[d].pc # "idle"
      PROVE  /\ Message(d) \in StatusMessages
             /\ Message(d).job \in Jobs
             /\ MessageCampaign(d) \in Campaigns
  BY <1>5, JobsAssumption DEF DrainersOK, Message, MessageCampaign, StatusMessages
<1>6. ASSUME NEW d \in Drainers, Dequeue(d)
      PROVE  TypeOK'
  <2> USE <1>6 DEF Dequeue
  <2>1. /\ Head(statusQueue) \in StatusMessages
        /\ Tail(statusQueue) \in Seq(StatusMessages)
    BY DEF ListsOK
  <2>2. DrainersOK'
    BY <2>1 DEF DrainersOK, DrainerStates, IdleDrainer
  <2>3. ListsOK'
    BY <2>1 DEF ListsOK
  <2> QED
    BY <1>1, <2>2, <2>3 DEF CampaignsOK, JobsOK, KeysOK
<1>7. ASSUME NEW d \in Drainers, UpdateStatus(d)
      PROVE  TypeOK'
  <2> USE <1>7 DEF UpdateStatus
  <2>1. JobsOK'
    BY <1>5 DEF JobsOK, JobRows, JobStatuses, StatusMessages, FinalStatuses,
                CountedStatuses
  <2>2. DrainersOK'
    BY <1>2, <1>3
  <2> QED
    BY <1>1, <2>1, <2>2 DEF CampaignsOK, KeysOK, ListsOK
<1>8. ASSUME NEW d \in Drainers, UpdateFails(d)
      PROVE  TypeOK'
  <2> USE <1>8 DEF UpdateFails
  <2>1. [Message(d) EXCEPT !.try = @ + 1] \in StatusMessages
    BY <1>5 DEF StatusMessages
  <2>2. ListsOK'
    BY <2>1 DEF ListsOK
  <2> QED
    BY <1>1, <1>2, <2>2, FaultType DEF CampaignsOK, JobsOK, KeysOK
<1>9. ASSUME NEW d \in Drainers, Count(d)
      PROVE  TypeOK'
  <2> USE <1>9 DEF Count
  <2>1. CampaignsOK'
    BY <1>5 DEF CampaignsOK, CampaignRows, StatusMessages
  <2>2. KeysOK'
    BY <1>5 DEF KeysOK
  <2>3. DrainersOK'
    BY <1>3
  <2> QED
    BY <1>1, <2>1, <2>2, <2>3 DEF JobsOK, ListsOK
<1>10. ASSUME NEW d \in Drainers, CountFails(d)
       PROVE  TypeOK'
  BY <1>1, <1>3, <1>10, FaultType DEF CountFails, CampaignsOK, JobsOK, KeysOK, ListsOK
<1>11. ASSUME NEW d \in Drainers, MarkCompletedIfDone(d)
       PROVE  TypeOK'
  <2> USE <1>11 DEF MarkCompletedIfDone
  <2>1. CampaignsOK'
    BY <1>5 DEF CampaignsOK, CampaignRows, CampaignStatuses
  <2>2. KeysOK'
    BY <1>5 DEF KeysOK
  <2>3. DrainersOK'
    BY <1>3
  <2> QED
    BY <1>1, <2>1, <2>2, <2>3 DEF JobsOK, ListsOK
<1>12. ASSUME NEW d \in Drainers, FetchHit(d)
       PROVE  TypeOK'
  <2> USE <1>12 DEF FetchHit
  <2>1. cache[MessageCampaign(d)] \in CampaignRows
    BY <1>5 DEF KeysOK
  <2> QED
    BY <1>1, <1>4, <2>1 DEF CampaignsOK, JobsOK, KeysOK, ListsOK
<1>13. ASSUME NEW d \in Drainers, FetchMiss(d)
       PROVE  TypeOK'
  <2> USE <1>13 DEF FetchMiss
  <2>1. campaigns[MessageCampaign(d)] \in CampaignRows
    BY <1>5 DEF CampaignsOK
  <2>2. DrainersOK'
    BY <2>1 DEF DrainersOK, DrainerStates
  <2> QED
    BY <1>1, <2>2 DEF CampaignsOK, JobsOK, KeysOK, ListsOK
<1>14. ASSUME NEW d \in Drainers, Fill(d)
       PROVE  TypeOK'
  <2> USE <1>14 DEF Fill
  <2>1. drainer[d].copy \in CampaignRows
    BY DEF DrainersOK
  <2>2. KeysOK'
    BY <1>5, <2>1 DEF KeysOK
  <2> QED
    BY <1>1, <1>4, <2>1, <2>2 DEF CampaignsOK, JobsOK, ListsOK
<1>15. ASSUME NEW d \in Drainers, Refund(d)
       PROVE  TypeOK'
  <2> USE <1>15 DEF Refund
  <2>1. KeysOK'
    BY DEF KeysOK
  <2> QED
    BY <1>1, <1>2, <2>1 DEF CampaignsOK, JobsOK, ListsOK
<1>16. ASSUME NEW d \in Drainers, DrainStops(d)
       PROVE  TypeOK'
  BY <1>1, <1>2, <1>16, FaultType DEF DrainStops, CampaignsOK, JobsOK, KeysOK, ListsOK
<1> QED
  BY <1>6, <1>7, <1>8, <1>9, <1>10, <1>11, <1>12, <1>13, <1>14, <1>15, <1>16
     DEF LeadRecoveryNext, DrainStep

(* The steps of Watchdog keep the types.                                   *)
LEMMA WatchdogTypeOK ==
    ASSUME TypeOK, WatchdogNext
    PROVE  TypeOK'
<1> USE DEF TypeOK, watchUnchanged, keys
<1>1. UNCHANGED watchUnchanged
      => CampaignsOK' /\ KeysOK' /\ RequestsOK' /\ DrainersOK' /\ ViewersOK'
  BY DEF CampaignsOK, KeysOK, RequestsOK, DrainersOK, ViewersOK
<1>2. UNCHANGED watchUnchanged /\ UNCHANGED scrapeQueue => ListsOK'
  BY DEF ListsOK
<1>3. UNCHANGED worker => WorkersOK'
  BY DEF WorkersOK, Busy
<1>4. UNCHANGED jobs => JobsOK'
  BY DEF JobsOK
<1>5. ASSUME NEW g \in Watchdogs, watchdog[g].pc \in {"decide", "enqueue"},
             NEW pc \in {"loop", "enqueue"}, Advance(g, pc)
      PROVE  WatchdogsOK'
  <2>1. watchdog[g].job \in Jobs
    BY <1>5 DEF WatchdogsOK, WatchdogStates
  <2> QED
    BY <1>5, <2>1 DEF Advance, WatchdogsOK, WatchdogStates, IdleWatchdog
<1>6. ASSUME NEW g \in Watchdogs, GetStalledJobs(g)
      PROVE  TypeOK'
  <2> USE <1>6 DEF GetStalledJobs
  <2>1. WatchdogsOK'
    BY DEF WatchdogsOK, WatchdogStates
  <2> QED
    BY <1>1, <1>2, <1>3, <1>4, <2>1
<1>7. ASSUME NEW g \in Watchdogs, Kill(g)
      PROVE  TypeOK'
  <2>1. PICK j \in watchdog[g].stalled :
           /\ watchdog' = [watchdog EXCEPT ![g].pc = "decide", ![g].job = j]
           /\ \E W \in SUBSET Workers :
                 worker' = [w \in Workers |->
                     IF w \in W THEN [worker[w] EXCEPT !.aborted = TRUE]
                                ELSE worker[w]]
    BY <1>7 DEF Kill
  <2>2. WatchdogsOK'
    <3>1. j \in Jobs
      <4>1. watchdog[g].stalled \subseteq Jobs
        BY DEF WatchdogsOK, WatchdogStates
      <4> QED
        BY <2>1, <4>1
    <3>2. watchdog' \in [Watchdogs -> WatchdogStates]
      <4>1. watchdog \in [Watchdogs -> WatchdogStates]
        BY DEF WatchdogsOK
      <4>2. [watchdog[g] EXCEPT !.pc = "decide", !.job = j] \in WatchdogStates
        BY <3>1, <4>1 DEF WatchdogStates
      <4>3. watchdog' = [watchdog EXCEPT
                            ![g] = [watchdog[g] EXCEPT !.pc = "decide", !.job = j]]
        BY <2>1, <4>1
      <4> QED
        BY <4>1, <4>2, <4>3
    <3>3. ASSUME NEW h \in Watchdogs
          PROVE  /\ watchdog'[h].pc = "decide" => watchdog'[h].job \in watchdog'[h].stalled
                 /\ watchdog'[h].pc = "enqueue" => watchdog'[h].job \in Jobs
      BY <2>1, <3>1 DEF WatchdogsOK, WatchdogStates
    <3> QED
      BY <3>2, <3>3 DEF WatchdogsOK
  <2>3. WorkersOK'
    <3>1. PICK W \in SUBSET Workers :
             worker' = [w \in Workers |->
                 IF w \in W THEN [worker[w] EXCEPT !.aborted = TRUE] ELSE worker[w]]
      BY <2>1
    <3>2. worker' \in [Workers -> WorkerStates]
      BY <3>1 DEF WorkersOK, WorkerStates
    <3>3. ASSUME NEW w \in Workers
          PROVE  Busy(w)' => worker'[w].job \in Jobs
      BY <3>1 DEF WorkersOK, WorkerStates, Busy
    <3> QED
      BY <3>2, <3>3 DEF WorkersOK
  <2> QED
    BY <1>1, <1>2, <1>4, <1>7, <2>2, <2>3 DEF Kill
<1>8. ASSUME NEW g \in Watchdogs, MarkDead(g) \/ RequeueJob(g)
      PROVE  TypeOK'
  <2> USE <1>8 DEF MarkDead, RequeueJob
  <2>1. JobsOK'
    BY DEF JobsOK, JobRows, JobStatuses, WatchdogsOK, WatchdogStates
  <2>2. WatchdogsOK'
    BY <1>5
  <2> QED
    BY <1>1, <1>2, <1>3, <2>1, <2>2
<1>9. ASSUME NEW g \in Watchdogs, Enqueue(g)
      PROVE  TypeOK'
  <2> USE <1>9 DEF Enqueue
  <2>1. RequeuePayload(watchdog[g].job) \in Payloads
    BY DEF RequeuePayload, Payloads, WatchdogsOK
  <2>2. ListsOK'
    BY <2>1 DEF ListsOK
  <2> QED
    BY <1>1, <1>3, <1>4, <1>5, <2>2
<1>10. ASSUME NEW g \in Watchdogs, WatchdogCallFails(g)
       PROVE  TypeOK'
  BY <1>1, <1>2, <1>3, <1>4, <1>5, <1>10, FaultType DEF WatchdogCallFails
<1>11. ASSUME NEW g \in Watchdogs, WatchdogStops(g)
       PROVE  TypeOK'
  <2>1. WatchdogsOK'
    BY <1>11 DEF WatchdogStops, WatchdogsOK, WatchdogStates, IdleWatchdog
  <2> QED
    BY <1>1, <1>2, <1>3, <1>4, <1>11, <2>1, FaultType DEF WatchdogStops
<1> QED
  BY <1>6, <1>7, <1>8, <1>9, <1>10, <1>11 DEF WatchdogNext, WatchdogStep

(* Nothing changes in a stuttering step.                                   *)
LEMMA StutterTypeOK ==
    ASSUME TypeOK, UNCHANGED vars
    PROVE  TypeOK'
BY DEF TypeOK, vars, tables, lists, keys, CampaignsOK, JobsOK, ListsOK, KeysOK,
       RequestsOK, WorkersOK, Busy, DrainersOK, WatchdogsOK, ViewersOK

(* Every reachable state is well typed, and no step of the API or of the   *)
(* scraper is reached without the job, message or copy it works on.        *)
THEOREM TypeCorrect == Spec => []TypeOK
<1>1. TypeOK /\ [Next]_vars => TypeOK'
  BY ServiceTypeOK, RunnerTypeOK, RecoveryTypeOK, WatchdogTypeOK, StutterTypeOK
     DEF Next
<1> QED
  BY InitTypeOK, <1>1, PTL DEF Spec

-----------------------------------------------------------------------------
(***************************************************************************)
(* The bound on the attempts of a job.  AttemptsBounded is not inductive:  *)
(* a watchdog that has read the row as stalled will raise attempt_count    *)
(* whatever it is by then.  AttemptsReserved counts those watchdogs too.   *)
(***************************************************************************)

(* The watchdogs that mean to requeue a job are some of the watchdogs.     *)
LEMMA RequeuersFinite ==
    ASSUME NEW j
    PROVE  /\ IsFiniteSet(Requeuers(j))
           /\ Cardinality(Requeuers(j)) \in Nat
           /\ Cardinality(Requeuers(j)) <= Cardinality(Watchdogs)
           /\ Cardinality(Watchdogs) \in Nat
<1>1. Requeuers(j) \subseteq Watchdogs
  BY DEF Requeuers
<1> QED
  BY <1>1, ProcessesAssumption, FS_Subset, FS_CardinalityType

(* The same after the step.                                                *)
LEMMA RequeuersFiniteNext ==
    ASSUME NEW j
    PROVE  /\ IsFiniteSet(Requeuers(j)')
           /\ Cardinality(Requeuers(j)') \in Nat
           /\ Cardinality(Requeuers(j)') <= Cardinality(Watchdogs)
<1>1. Requeuers(j)' \subseteq Watchdogs
  BY DEF Requeuers
<1> QED
  BY <1>1, ProcessesAssumption, FS_Subset, FS_CardinalityType

(* A job whose attempts stay and whose requeuers do not become more keeps  *)
(* its reserve.                                                            *)
LEMMA FewerRequeuers ==
    ASSUME TypeOK, TypeOK', NEW j \in Jobs, Reserved(j),
           jobs'[j].attempt = jobs[j].attempt, Requeuers(j)' \subseteq Requeuers(j)
    PROVE  Reserved(j)'
<1>1. Cardinality(Requeuers(j)') <= Cardinality(Requeuers(j))
  BY RequeuersFinite, FS_Subset
<1>2. jobs[j].attempt \in Nat
  BY DEF TypeOK, JobsOK, JobRows
<1>3. CASE jobs[j].attempt = 0 /\ Requeuers(j) = {}
  BY <1>3 DEF Reserved
<1>4. CASE jobs[j].attempt + Cardinality(Requeuers(j))
               < MaxAttempts + Cardinality(Watchdogs)
  <2>1. jobs'[j].attempt + Cardinality(Requeuers(j)')
            < MaxAttempts + Cardinality(Watchdogs)
    BY <1>1, <1>2, <1>4, RequeuersFinite, RequeuersFiniteNext, BoundsAssumption
  <2> QED
    BY <2>1 DEF Reserved
<1> QED
  BY <1>3, <1>4 DEF Reserved

(* No step of the other programs touches an attempt_count or a watchdog.   *)
LEMMA OthersKeepReserve ==
    ASSUME TypeOK, TypeOK', AttemptsReserved,
           \/ CampaignServiceNext \/ RunnerNext \/ LeadRecoveryNext
           \/ UNCHANGED vars
    PROVE  AttemptsReserved'
<1>1. UNCHANGED watchdog
  BY DEF CampaignServiceNext, CreateStep, CheckLimit, RollBack, InsertCampaign,
         InsertJobs, EnqueueJobs, InsertJobsFails, CreateStops, ViewerLoads,
         ViewerFills, CacheExpires, NextDay, serviceUnchanged,
         RunnerNext, RunnerStep, Pop, RejectUnknown, Start, PushBatch, JobTimeout,
         Finish, ScrapeFails, StartFails, WorkersStop, runnerUnchanged,
         LeadRecoveryNext, DrainStep, Dequeue, UpdateStatus, UpdateFails, Count,
         CountFails, MarkCompletedIfDone, FetchHit, FetchMiss, Fill, Refund,
         DrainStops, drainUnchanged, vars
<1>2. ASSUME NEW j \in Jobs
      PROVE  jobs'[j].attempt = jobs[j].attempt
  <2>1. ASSUME NEW J, PendingRows(J)
        PROVE  jobs'[j].attempt = jobs[j].attempt
    BY <2>1 DEF PendingRows, TypeOK, JobsOK, JobRows
  <2>2. CASE CampaignServiceNext
    BY <2>1, <2>2
       DEF CampaignServiceNext, CreateStep, CheckLimit, RollBack, InsertCampaign,
           InsertJobs, EnqueueJobs, InsertJobsFails, CreateStops, ViewerLoads,
           ViewerFills, CacheExpires, NextDay, tables
  <2>3. CASE RunnerNext
    BY <2>3 DEF RunnerNext, RunnerStep, Pop, RejectUnknown, Start, PushBatch,
                JobTimeout, Finish, ScrapeFails, StartFails, WorkersStop,
                runnerUnchanged, tables
  <2>4. CASE LeadRecoveryNext
    <3>1. ASSUME NEW d \in Drainers, UpdateStatus(d)
          PROVE  jobs'[j].attempt = jobs[j].attempt
      BY <3>1 DEF UpdateStatus, TypeOK, JobsOK, JobRows
    <3> QED
      BY <2>4, <3>1
         DEF LeadRecoveryNext, DrainStep, Dequeue, UpdateFails, Count, CountFails,
             MarkCompletedIfDone, FetchHit, FetchMiss, Fill, Refund, DrainStops,
             tables
  <2>5. CASE UNCHANGED vars
    BY <2>5 DEF vars, tables
  <2> QED
    BY <2>2, <2>3, <2>4, <2>5
<1>3. ASSUME NEW j \in Jobs
      PROVE  Reserved(j)'
  <2>1. Requeuers(j)' \subseteq Requeuers(j)
    BY <1>1 DEF Requeuers
  <2> QED
    BY <1>2, <2>1, FewerRequeuers DEF AttemptsReserved
<1> QED
  BY <1>3 DEF AttemptsReserved

(* The watchdog goes to its next job: it is no requeuer of this one any    *)
(* more, and the requeuers of the other jobs stay.                         *)
LEMMA AdvanceRequeuers ==
    ASSUME TypeOK, NEW g \in Watchdogs, NEW pc \in {"loop", "enqueue"}, Advance(g, pc),
           NEW j \in Jobs
    PROVE  Requeuers(j)' = IF j = watchdog[g].job THEN Requeuers(j) \ {g}
                                                  ELSE Requeuers(j)
<1> DEFINE left == watchdog[g].stalled \ {watchdog[g].job}
<1>1. /\ watchdog \in [Watchdogs -> WatchdogStates]
      /\ watchdog'[g].stalled = left
      /\ watchdog'[g].stalled \ watchdog'[g].spent = left \ watchdog[g].spent
  BY DEF Advance, TypeOK, WatchdogsOK, WatchdogStates, IdleWatchdog
<1>2. \A h \in Watchdogs : h # g => watchdog'[h] = watchdog[h]
  BY <1>1 DEF Advance
<1> QED
  BY <1>1, <1>2 DEF Requeuers

(* The steps of the watchdogs keep every job's reserve.                    *)
LEMMA WatchdogKeepsReserve ==
    ASSUME TypeOK, TypeOK', AttemptsReserved, WatchdogNext, NEW j \in Jobs
    PROVE  Reserved(j)'
<1>1. Reserved(j) /\ jobs[j].attempt \in Nat
  BY DEF AttemptsReserved, TypeOK, JobsOK, JobRows
<1>2. ASSUME NEW g \in Watchdogs, GetStalledJobs(g)
      PROVE  Reserved(j)'
  <2>1. PICK S \in SUBSET Jobs :
           watchdog' = [watchdog EXCEPT ![g] =
               [pc |-> "loop", job |-> None, stalled |-> S,
                spent |-> {i \in S : jobs[i].attempt >= MaxAttempts}]]
    BY <1>2 DEF GetStalledJobs
  <2>2. watchdog \in [Watchdogs -> WatchdogStates] /\ UNCHANGED jobs
    BY <1>2 DEF GetStalledJobs, TypeOK, WatchdogsOK
  <2>3. CASE j \in S /\ ~(jobs[j].attempt >= MaxAttempts)
    <3>1. jobs'[j].attempt + Cardinality(Requeuers(j)')
              < MaxAttempts + Cardinality(Watchdogs)
      <4>1. /\ Cardinality(Requeuers(j)') \in Nat /\ Cardinality(Watchdogs) \in Nat
            /\ Cardinality(Requeuers(j)') <= Cardinality(Watchdogs)
        BY RequeuersFinite, RequeuersFiniteNext
      <4>2. jobs'[j].attempt \in Nat /\ jobs'[j].attempt < MaxAttempts
        BY <1>1, <2>2, <2>3, BoundsAssumption
      <4> QED
        BY <4>1, <4>2, BoundsAssumption
    <3> QED
      BY <3>1 DEF Reserved
  <2>4. CASE ~(j \in S /\ ~(jobs[j].attempt >= MaxAttempts))
    <3>1. Requeuers(j)' \subseteq Requeuers(j)
      BY <2>1, <2>2, <2>4 DEF Requeuers
    <3> QED
      BY <1>1, <2>2, <3>1, FewerRequeuers
  <2> QED
    BY <2>3, <2>4
<1>3. ASSUME NEW g \in Watchdogs, Kill(g)
      PROVE  Reserved(j)'
  <2>1. PICK i : watchdog' = [watchdog EXCEPT ![g].pc = "decide", ![g].job = i]
    BY <1>3 DEF Kill
  <2>2. Requeuers(j)' \subseteq Requeuers(j)
    BY <2>1 DEF Requeuers, TypeOK, WatchdogsOK, WatchdogStates
  <2> QED
    BY <1>1, <1>3, <2>2, FewerRequeuers DEF Kill
<1>4. ASSUME NEW g \in Watchdogs, RequeueJob(g)
      PROVE  Reserved(j)'
  <2>1. CASE j # watchdog[g].job
    <3>1. jobs'[j].attempt = jobs[j].attempt /\ Requeuers(j)' = Requeuers(j)
      BY <1>4, <2>1, AdvanceRequeuers DEF RequeueJob, TypeOK, JobsOK
    <3> QED
      BY <1>1, <3>1, FewerRequeuers
  <2>2. CASE j = watchdog[g].job
    <3>1. g \in Requeuers(j)
      BY <1>4, <2>2 DEF RequeueJob, Exhausted, Requeuers, TypeOK, WatchdogsOK
    <3>2. jobs'[j].attempt = jobs[j].attempt + 1
      BY <1>4, <2>2 DEF RequeueJob, TypeOK, JobsOK, JobRows
    <3>3. Requeuers(j)' = Requeuers(j) \ {g}
      BY <1>4, <2>2, AdvanceRequeuers DEF RequeueJob
    <3>4. Cardinality(Requeuers(j)') = Cardinality(Requeuers(j)) - 1
      BY <3>1, <3>3, RequeuersFinite, FS_RemoveElement
    <3>5. jobs[j].attempt + Cardinality(Requeuers(j))
              < MaxAttempts + Cardinality(Watchdogs)
      BY <1>1, <3>1 DEF Reserved
    <3>6. jobs'[j].attempt + Cardinality(Requeuers(j)')
              < MaxAttempts + Cardinality(Watchdogs)
      BY <1>1, <3>2, <3>4, <3>5, RequeuersFinite, BoundsAssumption
    <3> QED
      BY <3>6 DEF Reserved
  <2> QED
    BY <2>1, <2>2
<1>5. ASSUME NEW g \in Watchdogs,
             MarkDead(g) \/ Enqueue(g) \/ WatchdogCallFails(g)
      PROVE  Reserved(j)'
  <2>1. jobs'[j].attempt = jobs[j].attempt
    BY <1>5 DEF MarkDead, Enqueue, WatchdogCallFails, TypeOK, JobsOK, JobRows
  <2>2. Advance(g, "loop")
    BY <1>5 DEF MarkDead, Enqueue, WatchdogCallFails
  <2>3. Requeuers(j)' \subseteq Requeuers(j)
    BY <2>2, AdvanceRequeuers
  <2> QED
    BY <1>1, <2>1, <2>3, FewerRequeuers
<1>6. ASSUME NEW g \in Watchdogs, WatchdogStops(g)
      PROVE  Reserved(j)'
  <2>1. Requeuers(j)' \subseteq Requeuers(j)
    BY <1>6 DEF WatchdogStops, IdleWatchdog, Requeuers, TypeOK, WatchdogsOK
  <2> QED
    BY <1>1, <1>6, <2>1, FewerRequeuers DEF WatchdogStops
<1> QED
  BY <1>2, <1>3, <1>4, <1>5, <1>6 DEF WatchdogNext, WatchdogStep

(* The reserve is an invariant: every requeue still to come is paid for.   *)
THEOREM ReserveInvariant == Spec => []AttemptsReserved
<1>1. Init => AttemptsReserved
  BY DEF Init, AttemptsReserved, Reserved, Requeuers, IdleWatchdog
<1>2. TypeOK /\ TypeOK' /\ AttemptsReserved /\ [Next]_vars => AttemptsReserved'
  BY OthersKeepReserve, WatchdogKeepsReserve DEF Next, AttemptsReserved
<1> QED
  BY <1>1, <1>2, TypeCorrect, PTL DEF Spec

(* A job is tried again at most WATCHDOG_MAX_ATTEMPTS times, plus once for *)
(* each further API instance, whatever fails and in whatever order the     *)
(* instances, the workers and the queues take their steps.                 *)
THEOREM AttemptsAreBounded == Spec => []AttemptsBounded
<1>1. TypeOK /\ AttemptsReserved => AttemptsBounded
  <2> SUFFICES ASSUME TypeOK, NEW j \in Jobs, Reserved(j)
               PROVE  \/ jobs[j].attempt = 0
                      \/ jobs[j].attempt < MaxAttempts + Cardinality(Watchdogs)
    BY DEF AttemptsReserved, AttemptsBounded
  <2>1. jobs[j].attempt \in Nat
    BY DEF TypeOK, JobsOK, JobRows
  <2> QED
    BY <2>1, RequeuersFinite, BoundsAssumption DEF Reserved
<1> QED
  BY <1>1, TypeCorrect, ReserveInvariant, PTL
=============================================================================
