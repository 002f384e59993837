-------------------------- MODULE AccountingProofs --------------------------
(***************************************************************************)
(* Theorems about what the counters of a campaign stand for, for any       *)
(* number of campaigns, jobs, workers, API instances and failures: no run  *)
(* is counted twice, and no lead.                                          *)
(***************************************************************************)
EXTENDS PipelineProofs

-----------------------------------------------------------------------------
(***************************************************************************)
(* Totals.                                                                 *)
(***************************************************************************)

(* n units of x.                                                           *)
LEMMA UnitsOfOne ==
    ASSUME NEW x, NEW n \in Nat
    PROVE  IsFiniteSet({x} \X (1..n)) /\ Cardinality({x} \X (1..n)) = n
<1>1. IsFiniteSet(1..n) /\ Cardinality(1..n) = n
  BY FS_Interval
<1>2. IsFiniteSet({x}) /\ Cardinality({x}) = 1
  BY FS_Singleton
<1>3. /\ IsFiniteSet({x} \X (1..n))
      /\ Cardinality({x} \X (1..n)) = Cardinality({x}) * Cardinality(1..n)
  BY <1>1, <1>2, FS_Product
<1> QED
  BY <1>1, <1>2, <1>3

(* A total of naturals over a finite set is a natural.                     *)
LEMMA TotalType ==
    ASSUME NEW S, IsFiniteSet(S), NEW f \in [S -> Nat]
    PROVE  IsFiniteSet(Units(f)) /\ Total(f) \in Nat
<1> DEFINE T == {{x} \X (1..f[x]) : x \in S}
           h == [x \in S |-> {x} \X (1..f[x])]
<1>1. h \in Surjection(S, T)
  BY DEF Surjection
<1>2. IsFiniteSet(T)
  BY <1>1, FS_Surjection
<1>3. ASSUME NEW U \in T
      PROVE  IsFiniteSet(U)
  <2>1. PICK x \in S : U = {x} \X (1..f[x])
    OBVIOUS
  <2>2. f[x] \in Nat
    BY <2>1
  <2> QED
    BY <2>1, <2>2, UnitsOfOne
<1>4. IsFiniteSet(UNION T)
  BY <1>2, <1>3, FS_UNION
<1>5. Units(f) = UNION T
  BY DEF Units
<1> QED
  BY <1>4, <1>5, FS_CardinalityType DEF Total

(* The units of f are pairs of a point and a number up to its value.       *)
LEMMA UnitsElements ==
    ASSUME NEW S, NEW f \in [S -> Nat], NEW u
    PROVE  u \in Units(f) <=> \E x \in S : \E n \in 1..f[x] : u = <<x, n>>
  BY DEF Units

(* Of two functions that differ at no other point than x, the totals       *)
(* differ by what they hold at x, which may be outside of a domain.        *)
LEMMA TotalChange ==
    ASSUME NEW S, IsFiniteSet(S), NEW f \in [S -> Nat],
           NEW T, IsFiniteSet(T), NEW g \in [T -> Nat],
           NEW x, S \ {x} = T \ {x}, \A y \in S \ {x} : f[y] = g[y]
    PROVE  Total(g) + (IF x \in S THEN f[x] ELSE 0)
           = Total(f) + (IF x \in T THEN g[x] ELSE 0)
<1> DEFINE At(R, k) == IF x \in R THEN k[x] ELSE 0
           Of(n) == {x} \X (1..n)
           Rest(R, k) == Units([y \in R \ {x} |-> k[y]])
<1>1. ASSUME NEW R, IsFiniteSet(R), NEW k \in [R -> Nat]
      PROVE  /\ Total(k) = Cardinality(Rest(R, k)) + At(R, k)
             /\ Cardinality(Rest(R, k)) \in Nat
             /\ At(R, k) \in Nat
  <2> DEFINE r == [y \in R \ {x} |-> k[y]]
  <2>1. IsFiniteSet(R \ {x}) /\ r \in [R \ {x} -> Nat]
    BY <1>1, FS_RemoveElement
  <2>2. IsFiniteSet(Units(r)) /\ Cardinality(Units(r)) \in Nat
    BY <2>1, TotalType DEF Total
  <2>3. At(R, k) \in Nat
    BY <1>1
  <2>4. IsFiniteSet(Of(At(R, k))) /\ Cardinality(Of(At(R, k))) = At(R, k)
    BY <2>3, UnitsOfOne
  <2>5. Units(k) = Units(r) \cup Of(At(R, k))
    <3> HIDE DEF r
    <3>1. ASSUME NEW u
          PROVE  u \in Units(r) <=> \E y \in R \ {x} : \E n \in 1..k[y] : u = <<y, n>>
      BY <2>1, UnitsElements DEF r
    <3>2. ASSUME NEW u
          PROVE  u \in Units(k) <=> \E y \in R : \E n \in 1..k[y] : u = <<y, n>>
      BY UnitsElements
    <3>3. ASSUME NEW u
          PROVE  u \in Of(At(R, k)) <=> x \in R /\ \E n \in 1..k[x] : u = <<x, n>>
      OBVIOUS
    <3> HIDE DEF Of, At
    <3> QED
      BY <3>1, <3>2, <3>3
  <2>6. Units(r) \cap Of(At(R, k)) = {}
    BY <2>1, UnitsElements
  <2>7. Cardinality(Units(r) \cap Of(At(R, k))) = 0
    BY <2>6, FS_EmptySet
  <2> HIDE DEF Of, At, r
  <2>8. Cardinality(Units(k)) = Cardinality(Units(r)) + At(R, k)
    BY <2>2, <2>3, <2>4, <2>5, <2>7, FS_Union
  <2> QED
    BY <2>2, <2>3, <2>8 DEF Total, r
<1>2. [y \in S \ {x} |-> f[y]] = [y \in T \ {x} |-> g[y]]
  OBVIOUS
<1>3. Rest(S, f) = Rest(T, g)
  BY <1>2
<1>4. /\ Total(f) = Cardinality(Rest(S, f)) + At(S, f)
      /\ Total(g) = Cardinality(Rest(T, g)) + At(T, g)
      /\ Cardinality(Rest(S, f)) \in Nat /\ At(S, f) \in Nat /\ At(T, g) \in Nat
  BY <1>1
<1> HIDE DEF Rest
<1>5. Total(g) + At(S, f) = Total(f) + At(T, g)
  <2> HIDE DEF At
  <2> QED
    BY <1>3, <1>4
<1> QED
  BY <1>5

(* A total over fewer points, or of smaller values, is not larger.         *)
LEMMA TotalMono ==
    ASSUME NEW T, IsFiniteSet(T), NEW g \in [T -> Nat],
           NEW S \in SUBSET T, NEW f \in [S -> Nat], \A x \in S : f[x] <= g[x]
    PROVE  Total(f) <= Total(g)
<1>1. ASSUME NEW u \in Units(f)
      PROVE  u \in Units(g)
  <2>1. PICK x \in S : \E n \in 1..f[x] : u = <<x, n>>
    BY UnitsElements
  <2>2. 1..f[x] \subseteq 1..g[x]
    BY <2>1
  <2> QED
    BY <2>1, <2>2, UnitsElements
<1>2. Units(f) \subseteq Units(g)
  BY <1>1
<1> QED
  BY <1>2, TotalType, FS_Subset DEF Total

(* A total of zeros is zero.                                               *)
LEMMA TotalZero ==
    ASSUME NEW S, NEW f \in [S -> Nat], \A x \in S : f[x] = 0
    PROVE  Total(f) = 0
<1>1. Units(f) = {}
  <2> SUFFICES ASSUME NEW u \in Units(f) PROVE FALSE
    OBVIOUS
  <2> QED
    BY UnitsElements
<1> QED
  BY <1>1, FS_EmptySet DEF Total

(* Renaming the points keeps the total.                                    *)
LEMMA TotalRename ==
    ASSUME NEW S, IsFiniteSet(S), NEW f \in [S -> Nat],
           NEW T, NEW g \in [T -> Nat],
           NEW b \in Bijection(S, T), \A x \in S : g[b[x]] = f[x]
    PROVE  Total(g) = Total(f)
<1> DEFINE h == [u \in Units(f) |-> <<b[u[1]], u[2]>>]
<1>1. \A x \in S : b[x] \in T
  BY DEF Bijection, Injection, Surjection
<1>2. \A x, y \in S : b[x] = b[y] => x = y
  BY DEF Bijection, Injection, IsInjective
<1>3. \A y \in T : \E x \in S : b[x] = y
  BY DEF Bijection, Surjection
<1>4. ASSUME NEW u \in Units(f)
      PROVE  u[1] \in S /\ u[2] \in 1..f[u[1]] /\ u = <<u[1], u[2]>>
  BY UnitsElements
<1>5. ASSUME NEW u \in Units(f)
      PROVE  h[u] \in Units(g)
  BY <1>1, <1>4, UnitsElements
<1>6. ASSUME NEW u \in Units(f), NEW v \in Units(f), h[u] = h[v]
      PROVE  u = v
  BY <1>2, <1>4, <1>6
<1>7. ASSUME NEW v \in Units(g)
      PROVE  \E u \in Units(f) : h[u] = v
  <2>1. PICK y \in T : \E n \in 1..g[y] : v = <<y, n>>
    BY UnitsElements
  <2>2. PICK n \in 1..g[y] : v = <<y, n>>
    BY <2>1
  <2>3. PICK x \in S : b[x] = y
    BY <1>3
  <2>4. <<x, n>> \in Units(f)
    BY <2>2, <2>3, UnitsElements
  <2> QED
    BY <2>2, <2>3, <2>4
<1>8. h \in Bijection(Units(f), Units(g))
  BY <1>5, <1>6, <1>7 DEF Bijection, Injection, Surjection, IsInjective
<1> QED
  BY <1>8, TotalType, FS_Bijection DEF Total, ExistsBijection

-----------------------------------------------------------------------------
(***************************************************************************)
(* Before the payloads of a campaign are queued, nobody works for it.      *)
(***************************************************************************)

(* Nothing has happened to the job but the insertion of its row.           *)
NotQueued(j) ==
    /\ jobs[j].status \in {"none", "pending"}
    /\ jobs[j].attempt = 0
    /\ \A p \in Payloads : p.job = j => scrapeQueue[p] = 0
    /\ \A w \in Workers : Busy(w) => worker[w].job # j
    /\ \A i \in 1..Len(statusQueue) : statusQueue[i].job # j
    /\ \A d \in Drainers : drainer[d].pc # "idle" => drainer[d].msg.job # j
    /\ \A g \in Watchdogs : /\ j \notin watchdog[g].stalled
                            /\ watchdog[g].pc = "enqueue" => watchdog[g].job # j

NothingBeforeAccepted ==
    /\ \A j \in Jobs : ~Submitted(j) => NotQueued(j)
    /\ \A c \in Campaigns : request[c].pc # "accepted" => campaigns[c].completed = 0

(* A request that is answered stays answered.                              *)
LEMMA AcceptedStays ==
    ASSUME TypeOK, [Next]_vars, NEW c \in Campaigns, request[c].pc = "accepted"
    PROVE  request'[c].pc = "accepted"
<1>1. request \in [Campaigns -> [pc : RequestPCs, day : 1..MaxDay]]
  BY DEF TypeOK, RequestsOK
<1>2. CASE CampaignServiceNext
  BY <1>1, <1>2
     DEF CampaignServiceNext, CreateStep, CheckLimit, RollBack, InsertCampaign,
         InsertJobs, EnqueueJobs, InsertJobsFails, CreateStops, ViewerLoads,
         ViewerFills, CacheExpires, NextDay, RequestStep
<1>3. CASE RunnerNext
  BY <1>3 DEF RunnerNext, RunnerStep, Pop, RejectUnknown, Start, PushBatch,
              JobTimeout, Finish, ScrapeFails, StartFails, WorkersStop,
              runnerUnchanged
<1>4. CASE LeadRecoveryNext
  BY <1>4 DEF LeadRecoveryNext, DrainStep, Dequeue, UpdateStatus, UpdateFails,
              Count, CountFails, MarkCompletedIfDone, FetchHit, FetchMiss, Fill,
              Refund, DrainStops, drainUnchanged
<1>5. CASE WatchdogNext
  BY <1>5 DEF WatchdogNext, WatchdogStep, GetStalledJobs, Kill, MarkDead,
              RequeueJob, Enqueue, WatchdogCallFails, WatchdogStops, watchUnchanged
<1>6. CASE UNCHANGED vars
  BY <1>6 DEF vars
<1> QED
  BY <1>2, <1>3, <1>4, <1>5, <1>6 DEF Next

(* The steps of CampaignService queue the payloads of a campaign only when *)
(* they accept it.                                                         *)
LEMMA ServiceQueuesAccepted ==
    ASSUME TypeOK, CampaignServiceNext, NEW j \in Jobs, ~Submitted(j)', NotQueued(j)
    PROVE  NotQueued(j)'
<1>1. UNCHANGED <<worker, statusQueue, drainer, watchdog>>
  BY DEF CampaignServiceNext, CreateStep, CheckLimit, RollBack, InsertCampaign,
         InsertJobs, EnqueueJobs, InsertJobsFails, CreateStops, ViewerLoads,
         ViewerFills, CacheExpires, NextDay, serviceUnchanged, lists
<1>2. jobs'[j].status \in {"none", "pending"} /\ jobs'[j].attempt = 0
  <2>1. ASSUME NEW J, PendingRows(J)
        PROVE  jobs'[j].status \in {"none", "pending"} /\ jobs'[j].attempt = 0
    BY <2>1 DEF PendingRows, TypeOK, JobsOK, JobRows, NotQueued
  <2>2. UNCHANGED jobs \/ \E J : PendingRows(J)
    BY DEF CampaignServiceNext, CreateStep, CheckLimit, RollBack, InsertCampaign,
           InsertJobs, EnqueueJobs, InsertJobsFails, CreateStops, ViewerLoads,
           ViewerFills, CacheExpires, NextDay, tables
  <2> QED
    BY <2>1, <2>2 DEF NotQueued
<1>3. ASSUME NEW p \in Payloads, p.job = j
      PROVE  scrapeQueue'[p] = 0
  <2>1. ASSUME NEW c \in Campaigns, EnqueueJobs(c)
        PROVE  scrapeQueue'[p] = 0
    <3>1. request'[c].pc = "accepted"
      BY <2>1 DEF EnqueueJobs, RequestStep, TypeOK, RequestsOK
    <3>2. p.job \notin JobsOf(c)
      BY <1>3, <3>1 DEF Submitted, JobsOf
    <3> QED
      BY <1>3, <2>1, <3>2 DEF EnqueueJobs, NotQueued
  <2>2. UNCHANGED scrapeQueue \/ \E c \in Campaigns : EnqueueJobs(c)
    BY DEF CampaignServiceNext, CreateStep, CheckLimit, RollBack, InsertCampaign,
           InsertJobs, InsertJobsFails, CreateStops, ViewerLoads,
           ViewerFills, CacheExpires, NextDay, lists
  <2> QED
    BY <1>3, <2>1, <2>2 DEF NotQueued
<1> QED
  BY <1>1, <1>2, <1>3 DEF NotQueued, Busy

(* The workers work for queued jobs only.                                  *)
LEMMA RunnerKeepsQuiet ==
    ASSUME TypeOK, RunnerNext, NEW j \in Jobs, NotQueued(j)
    PROVE  NotQueued(j)'
<1> USE DEF NotQueued
<1>1. UNCHANGED <<jobs, drainer, watchdog>>
  BY DEF RunnerNext, RunnerStep, Pop, RejectUnknown, Start, PushBatch, JobTimeout,
         Finish, ScrapeFails, StartFails, WorkersStop, runnerUnchanged, tables
<1>2. ASSUME NEW w \in Workers, Busy(w), NEW status, NEW leads,
             PushStatus(worker[w].job, status, leads)
      PROVE  \A i \in 1..Len(statusQueue') : statusQueue'[i].job # j
  BY <1>2 DEF PushStatus, TypeOK, ListsOK
<1>3. ASSUME NEW w \in Workers, Pop(w)
      PROVE  NotQueued(j)'
  <2>1. PICK p \in Payloads :
           /\ scrapeQueue[p] > 0
           /\ scrapeQueue' = [scrapeQueue EXCEPT ![p] = @ - 1]
           /\ worker' = [worker EXCEPT ![w] =
                 [IdleWorker EXCEPT !.pc = "popped", !.job = p.job, !.drop = p.drop]]
    BY <1>3 DEF Pop
  <2>2. p.job # j
    BY <2>1
  <2>3. scrapeQueue \in [Payloads -> Nat] /\ worker \in [Workers -> WorkerStates]
    BY DEF TypeOK, ListsOK, WorkersOK
  <2>4. \A q \in Payloads : q.job = j => scrapeQueue'[q] = 0
    BY <2>1, <2>2, <2>3
  <2>5. \A v \in Workers : Busy(v)' => worker'[v].job # j
    BY <2>1, <2>2, <2>3 DEF Busy, IdleWorker
  <2> QED
    BY <1>1, <1>3, <2>4, <2>5 DEF Pop
<1>4. ASSUME NEW w \in Workers, Start(w)
      PROVE  NotQueued(j)'
  <2>1. \A v \in Workers : Busy(v)' => worker'[v].job # j
    BY <1>4 DEF Start, Busy, TypeOK, WorkersOK, WorkerStates
  <2> QED
    BY <1>1, <1>2, <1>4, <2>1 DEF Start, Busy
<1>5. ASSUME NEW w \in Workers, PushBatch(w) \/ JobTimeout(w)
      PROVE  NotQueued(j)'
  <2>1. /\ worker \in [Workers -> WorkerStates]
        /\ \/ \E n : worker' = [worker EXCEPT ![w].leads = n]
           \/ worker' = [worker EXCEPT ![w].aborted = TRUE]
    BY <1>5 DEF PushBatch, JobTimeout, TypeOK, WorkersOK
  <2>2. \A v \in Workers : /\ worker'[v].job = worker[v].job
                           /\ worker'[v].pc = worker[v].pc
    BY <2>1 DEF WorkerStates
  <2>3. \A v \in Workers : Busy(v)' => worker'[v].job # j
    BY <1>1, <2>2 DEF Busy, NotQueued
  <2> QED
    BY <1>1, <1>5, <2>3 DEF PushBatch, JobTimeout, lists
<1>6. ASSUME NEW w \in Workers,
             RejectUnknown(w) \/ Finish(w) \/ ScrapeFails(w) \/ StartFails(w)
      PROVE  NotQueued(j)'
  <2>1. \A v \in Workers : Busy(v)' => worker'[v].job # j
    BY <1>6 DEF RejectUnknown, Finish, ScrapeFails, StartFails, Idle, IdleWorker,
                Busy, TypeOK, WorkersOK, WorkerStates
  <2>2. \A i \in 1..Len(statusQueue') : statusQueue'[i].job # j
    BY <1>2, <1>6 DEF RejectUnknown, Finish, ScrapeFails, StartFails, Busy
  <2>3. UNCHANGED scrapeQueue
    BY <1>6 DEF RejectUnknown, Finish, ScrapeFails, StartFails
  <2> QED
    BY <1>1, <2>1, <2>2, <2>3
<1>7. ASSUME NEW W \in SUBSET Workers, WorkersStop(W)
      PROVE  NotQueued(j)'
  BY <1>1, <1>7 DEF WorkersStop, IdleWorker, Busy, lists
<1> QED
  BY <1>3, <1>4, <1>5, <1>6, <1>7 DEF RunnerNext, RunnerStep

(* A drainer handles messages of queued jobs only.                         *)
LEMMA RecoveryKeepsQuiet ==
    ASSUME TypeOK, LeadRecoveryNext, NEW j \in Jobs, NotQueued(j)
    PROVE  NotQueued(j)'
<1> USE DEF NotQueued
<1>1. UNCHANGED <<scrapeQueue, worker, watchdog>>
  BY DEF LeadRecoveryNext, DrainStep, Dequeue, UpdateStatus, UpdateFails, Count,
         CountFails, MarkCompletedIfDone, FetchHit, FetchMiss, Fill, Refund,
         DrainStops, drainUnchanged
<1>2. /\ drainer \in [Drainers -> DrainerStates]
      /\ statusQueue \in Seq(StatusMessages)
      /\ jobs \in [Jobs -> JobRows]
  BY DEF TypeOK, DrainersOK, ListsOK, JobsOK
<1>3. ASSUME NEW d \in Drainers, Dequeue(d)
      PROVE  NotQueued(j)'
  <2>1. /\ statusQueue' = Tail(statusQueue) /\ statusQueue # <<>>
        /\ UNCHANGED jobs
        /\ drainer' = [drainer EXCEPT ![d] =
               [IdleDrainer EXCEPT !.pc = "update", !.msg = Head(statusQueue)]]
    BY <1>3 DEF Dequeue, tables
  <2>2. Head(statusQueue).job # j
    BY <1>2, <2>1
  <2>3. \A i \in 1..Len(statusQueue') : statusQueue'[i].job # j
    BY <1>2, <2>1, SMTT(30)
  <2>4. \A e \in Drainers : drainer'[e].pc # "idle" => drainer'[e].msg.job # j
    BY <1>2, <2>1, <2>2 DEF IdleDrainer
  <2> QED
    BY <1>1, <2>1, <2>3, <2>4 DEF Busy
<1>4. ASSUME NEW d \in Drainers, DrainStep(d) \/ UpdateFails(d) \/ CountFails(d) \/ DrainStops(d)
      PROVE  NotQueued(j)'
  <2>1. drainer[d].pc # "idle" /\ Message(d).job # j
    BY <1>4 DEF DrainStep, UpdateStatus, UpdateFails, Count, CountFails,
                MarkCompletedIfDone, FetchHit, FetchMiss, Fill, Refund, DrainStops,
                Message
  <2>2. \A e \in Drainers : drainer'[e].pc # "idle" => drainer'[e].msg.job # j
    <3>1. \/ DrainDone(d)
          \/ \E pc : DrainTo(d, pc)
          \/ \E pc, copy : drainer' = [drainer EXCEPT ![d].pc = pc, ![d].copy = copy]
      <4>1. ASSUME NEW copy, RefundIfEmpty(d, copy)
            PROVE  DrainDone(d) \/ drainer' = [drainer EXCEPT ![d].pc = "refund",
                                                              ![d].copy = None]
        BY <4>1 DEF RefundIfEmpty
      <4>2. FetchHit(d) \/ Fill(d) => <3>1
        <5>1. FetchHit(d) \/ Fill(d) =>
                DrainDone(d) \/ drainer' = [drainer EXCEPT ![d].pc = "refund",
                                                          ![d].copy = None]
          BY <4>1, Zenon DEF FetchHit, Fill
        <5>2. drainer' = [drainer EXCEPT ![d].pc = "refund", ![d].copy = None] =>
                \E pc, copy : drainer' = [drainer EXCEPT ![d].pc = pc, ![d].copy = copy]
          BY Zenon
        <5> QED
          BY <5>1, <5>2, Zenon
      <4>3. FetchMiss(d) => <3>1
        BY DEF FetchMiss
      <4>4. UpdateStatus(d) \/ UpdateFails(d) \/ Count(d) \/ CountFails(d)
            \/ MarkCompletedIfDone(d) \/ Refund(d) \/ DrainStops(d) => <3>1
        BY DEF UpdateStatus, UpdateFails, Count, CountFails, MarkCompletedIfDone, Refund,
               DrainStops
      <4> QED
        BY <1>4, <4>2, <4>3, <4>4 DEF DrainStep
    <3>2. CASE DrainDone(d)
      BY <1>2, <3>2 DEF DrainDone, IdleDrainer
    <3>3. CASE ~DrainDone(d)
      <4>1. /\ drainer'[d].msg = drainer[d].msg
            /\ \A e \in Drainers \ {d} : drainer'[e] = drainer[e]
        BY <1>2, <3>1, <3>3 DEF DrainTo, DrainerStates
      <4> QED
        BY <2>1, <4>1 DEF Message
    <3> QED
      BY <3>2, <3>3
  <2>3. jobs'[j] = jobs[j]
    BY <1>2, <1>4, <2>1
       DEF DrainStep, UpdateStatus, UpdateFails, Count, CountFails,
           MarkCompletedIfDone, FetchHit, FetchMiss, Fill, Refund, DrainStops, tables
  <2>4. \A i \in 1..Len(statusQueue') : statusQueue'[i].job # j
    <3>1. CASE UpdateFails(d)
      <4>1. [Message(d) EXCEPT !.try = @ + 1].job # j
        <5>1. Message(d) \in StatusMessages
          BY <2>1 DEF TypeOK, DrainersOK, Message
        <5> QED
          BY <2>1, <5>1 DEF StatusMessages
      <4> QED
        BY <1>2, <3>1, <4>1 DEF UpdateFails
    <3>2. CASE ~UpdateFails(d)
      BY <1>4, <3>2 DEF DrainStep, UpdateStatus, Count, CountFails,
                        MarkCompletedIfDone, FetchHit, FetchMiss, Fill, Refund,
                        DrainStops
    <3> QED
      BY <3>1, <3>2
  <2> QED
    BY <1>1, <2>2, <2>3, <2>4 DEF Busy
<1> QED
  BY <1>3, <1>4 DEF LeadRecoveryNext

(* A watchdog reads no row that is not in_progress.                        *)
LEMMA WatchdogKeepsQuiet ==
    ASSUME TypeOK, WatchdogNext, NEW j \in Jobs, NotQueued(j)
    PROVE  NotQueued(j)'
<1> USE DEF NotQueued
<1>1. UNCHANGED <<statusQueue, drainer>>
  BY DEF WatchdogNext, WatchdogStep, GetStalledJobs, Kill, MarkDead,
         RequeueJob, Enqueue, WatchdogCallFails, WatchdogStops, watchUnchanged
<1>2. /\ watchdog \in [Watchdogs -> WatchdogStates] /\ jobs \in [Jobs -> JobRows]
      /\ scrapeQueue \in [Payloads -> Nat] /\ worker \in [Workers -> WorkerStates]
  BY DEF TypeOK, WatchdogsOK, JobsOK, ListsOK, WorkersOK
<1>3. ASSUME NEW g \in Watchdogs, NEW pc \in {"loop", "enqueue"}, Advance(g, pc),
             watchdog[g].pc \in {"decide", "enqueue"}
      PROVE  /\ watchdog[g].job # j
             /\ \A h \in Watchdogs : /\ j \notin watchdog'[h].stalled
                                     /\ watchdog'[h].pc = "enqueue" => watchdog'[h].job # j
  BY <1>2, <1>3 DEF Advance, IdleWatchdog, TypeOK, WatchdogsOK
<1>4. ASSUME NEW g \in Watchdogs, GetStalledJobs(g)
      PROVE  NotQueued(j)'
  <2>1. PICK S \in SUBSET {i \in Jobs : jobs[i].status = "in_progress"} :
           watchdog' = [watchdog EXCEPT ![g] =
               [pc |-> "loop", job |-> None, stalled |-> S,
                spent |-> {i \in S : jobs[i].attempt >= MaxAttempts}]]
    BY <1>4 DEF GetStalledJobs
  <2>2. j \notin S
    BY <2>1
  <2>3. \A h \in Watchdogs : /\ j \notin watchdog'[h].stalled
                             /\ watchdog'[h].pc = "enqueue" => watchdog'[h].job # j
    BY <1>2, <2>1, <2>2
  <2>4. UNCHANGED <<jobs, scrapeQueue, worker>>
    BY <1>4 DEF GetStalledJobs
  <2> QED
    BY <1>1, <2>3, <2>4 DEF Busy
<1>5. ASSUME NEW g \in Watchdogs, Kill(g)
      PROVE  NotQueued(j)'
  <2>1. \A w \in Workers : Busy(w)' => worker'[w].job # j
    BY <1>2, <1>5 DEF Kill, Busy, WorkerStates
  <2>2. \A h \in Watchdogs : /\ j \notin watchdog'[h].stalled
                             /\ watchdog'[h].pc = "enqueue" => watchdog'[h].job # j
    BY <1>2, <1>5 DEF Kill, WatchdogStates
  <2> QED
    BY <1>1, <1>5, <2>1, <2>2 DEF Kill
<1>6. ASSUME NEW g \in Watchdogs,
             MarkDead(g) \/ RequeueJob(g) \/ Enqueue(g) \/ WatchdogCallFails(g)
      PROVE  NotQueued(j)'
  <2>1. /\ watchdog[g].job # j
        /\ \A h \in Watchdogs : /\ j \notin watchdog'[h].stalled
                                /\ watchdog'[h].pc = "enqueue" => watchdog'[h].job # j
    BY <1>3, <1>6 DEF MarkDead, RequeueJob, Enqueue, WatchdogCallFails
  <2>2. jobs'[j] = jobs[j]
    BY <1>2, <1>6, <2>1 DEF MarkDead, RequeueJob, Enqueue, WatchdogCallFails
  <2>3. \A p \in Payloads : p.job = j => scrapeQueue'[p] = 0
    BY <1>2, <1>6, <2>1 DEF MarkDead, RequeueJob, Enqueue, WatchdogCallFails,
                            RequeuePayload
  <2>4. UNCHANGED worker
    BY <1>6 DEF MarkDead, RequeueJob, Enqueue, WatchdogCallFails
  <2> QED
    BY <1>1, <2>1, <2>2, <2>3, <2>4 DEF Busy
<1>7. ASSUME NEW g \in Watchdogs, WatchdogStops(g)
      PROVE  NotQueued(j)'
  BY <1>1, <1>2, <1>7 DEF WatchdogStops, IdleWatchdog, Busy
<1> QED
  BY <1>4, <1>5, <1>6, <1>7 DEF WatchdogNext, WatchdogStep

(* Only Count adds to a campaign's counters, on behalf of a queued job.    *)
LEMMA CompletedWhenAccepted ==
    ASSUME TypeOK, [Next]_vars, NothingBeforeAccepted, NEW c \in Campaigns,
           request[c].pc # "accepted"
    PROVE  campaigns'[c].completed = 0
<1>1. campaigns \in [Campaigns -> CampaignRows] /\ campaigns[c].completed = 0
  BY DEF TypeOK, CampaignsOK, NothingBeforeAccepted
<1>2. ASSUME NEW d \in Drainers, Count(d)
      PROVE  MessageCampaign(d) # c
  <2>1. Message(d).job \in Jobs /\ drainer[d].pc # "idle"
    BY <1>2 DEF Count, TypeOK, DrainersOK, Message, StatusMessages
  <2>2. Submitted(Message(d).job)
    BY <2>1 DEF NothingBeforeAccepted, NotQueued, Message
  <2> QED
    BY <2>2 DEF Submitted, MessageCampaign
<1>3. CASE CampaignServiceNext
  BY <1>1, <1>3
     DEF CampaignServiceNext, CreateStep, CheckLimit, RollBack, InsertCampaign,
         InsertJobs, EnqueueJobs, InsertJobsFails, CreateStops, ViewerLoads,
         ViewerFills, CacheExpires, NextDay, tables, CampaignRows
<1>4. CASE RunnerNext
  BY <1>1, <1>4 DEF RunnerNext, RunnerStep, Pop, RejectUnknown, Start, PushBatch,
              JobTimeout, Finish, ScrapeFails, StartFails, WorkersStop,
              runnerUnchanged, tables
<1>5. CASE LeadRecoveryNext
  BY <1>1, <1>2, <1>5, SMTT(30)
     DEF LeadRecoveryNext, DrainStep, Dequeue, UpdateStatus, UpdateFails,
         Count, CountFails, MarkCompletedIfDone, FetchHit, FetchMiss, Fill,
         Refund, DrainStops, tables, CampaignRows
<1>6. CASE WatchdogNext
  BY <1>1, <1>6 DEF WatchdogNext, WatchdogStep, GetStalledJobs, Kill, MarkDead,
              RequeueJob, Enqueue, WatchdogCallFails, WatchdogStops, watchUnchanged
<1>7. CASE UNCHANGED vars
  BY <1>1, <1>7 DEF vars, tables
<1> QED
  BY <1>3, <1>4, <1>5, <1>6, <1>7 DEF Next

(* Until POST /campaigns has queued the payloads of a campaign, no worker, *)
(* status message, drainer or watchdog knows one of its jobs, and nothing  *)
(* is counted for it.                                                      *)
THEOREM NothingRunsBeforeAccepted == Spec => []NothingBeforeAccepted
<1>1. Init => NothingBeforeAccepted
  BY JobsAssumption DEF Init, NothingBeforeAccepted, NotQueued, Busy, IdleWorker,
         IdleDrainer, IdleWatchdog
<1>2. ASSUME TypeOK, NothingBeforeAccepted, [Next]_vars
      PROVE  NothingBeforeAccepted'
  <2>1. ASSUME NEW j \in Jobs, ~Submitted(j)'
        PROVE  NotQueued(j)'
    <3>1. CampaignOf[j] \in Campaigns
      BY JobsAssumption
    <3>2. ~Submitted(j)
      BY <1>2, <2>1, <3>1, AcceptedStays DEF Submitted
    <3>3. NotQueued(j)
      BY <1>2, <3>2 DEF NothingBeforeAccepted
    <3>4. CASE UNCHANGED vars
      BY <3>3, <3>4 DEF NotQueued, Busy, vars, tables, lists
    <3> QED
      BY <1>2, <2>1, <3>3, <3>4, ServiceQueuesAccepted, RunnerKeepsQuiet,
         RecoveryKeepsQuiet, WatchdogKeepsQuiet DEF Next
  <2>2. ASSUME NEW c \in Campaigns, request'[c].pc # "accepted"
        PROVE  campaigns'[c].completed = 0
    BY <1>2, <2>2, AcceptedStays, CompletedWhenAccepted
  <2> QED
    BY <2>1, <2>2 DEF NothingBeforeAccepted
<1> QED
  BY <1>1, <1>2, TypeCorrect, PTL DEF Spec

(* A drainer reaches the counters only with a message that counts.         *)
OnlyCountedCount ==
    \A d \in Drainers :
        drainer[d].pc = "count" => drainer[d].msg.status \in CountedStatuses

(* ... because UpdateStatus is the only way to them.                       *)
LEMMA CountOnlyCounted == Spec => []OnlyCountedCount
<1>1. Init => OnlyCountedCount
  BY DEF Init, OnlyCountedCount, IdleDrainer
<1>2. ASSUME TypeOK, OnlyCountedCount, [Next]_vars
      PROVE  OnlyCountedCount'
  <2> USE <1>2 DEF OnlyCountedCount
  <2>1. drainer \in [Drainers -> DrainerStates]
    BY DEF TypeOK, DrainersOK
  <2>2. CASE LeadRecoveryNext
    <3>1. ASSUME NEW d \in Drainers, UpdateStatus(d)
          PROVE  OnlyCountedCount'
      BY <2>1, <3>1 DEF UpdateStatus, DrainTo, DrainDone, IdleDrainer, Message,
                        DrainerStates
    <3>2. ASSUME NEW d \in Drainers,
                 Dequeue(d) \/ UpdateFails(d) \/ Count(d) \/ CountFails(d)
                 \/ MarkCompletedIfDone(d) \/ FetchHit(d) \/ FetchMiss(d) \/ Fill(d)
                 \/ Refund(d) \/ DrainStops(d)
          PROVE  OnlyCountedCount'
      <4>1. CASE Dequeue(d) \/ Count(d) \/ CountFails(d) \/ MarkCompletedIfDone(d)
                 \/ FetchMiss(d)
        <5>1. /\ drainer'[d].pc # "count"
              /\ \A e \in Drainers \ {d} : drainer'[e] = drainer[e]
          <6>1. CASE Dequeue(d)
            BY <2>1, <6>1 DEF Dequeue, IdleDrainer
          <6>2. CASE Count(d) \/ CountFails(d) \/ MarkCompletedIfDone(d) \/ FetchMiss(d)
            BY <2>1, <6>2 DEF Count, CountFails, MarkCompletedIfDone, FetchMiss, DrainTo,
                              DrainerStates
          <6> QED
            BY <4>1, <6>1, <6>2
        <5> QED
          BY <5>1
      <4>2. CASE FetchHit(d) \/ Fill(d)
        BY <2>1, <4>2 DEF FetchHit, Fill, RefundIfEmpty, DrainDone, IdleDrainer,
                          DrainerStates
      <4>3. CASE UpdateFails(d) \/ Refund(d) \/ DrainStops(d)
        BY <2>1, <4>3 DEF UpdateFails, Refund, DrainStops, DrainDone, IdleDrainer
      <4> QED
        BY <3>2, <4>1, <4>2, <4>3
    <3> QED
      BY <2>2, <3>1, <3>2 DEF LeadRecoveryNext, DrainStep
  <2>3. CASE CampaignServiceNext \/ RunnerNext \/ WatchdogNext \/ UNCHANGED vars
    <3>1. UNCHANGED drainer
      BY <2>3
         DEF CampaignServiceNext, CreateStep, CheckLimit, RollBack, InsertCampaign,
             InsertJobs, EnqueueJobs, InsertJobsFails, CreateStops, ViewerLoads,
             ViewerFills, CacheExpires, NextDay, serviceUnchanged,
             RunnerNext, RunnerStep, Pop, RejectUnknown, Start, PushBatch, JobTimeout,
             Finish, ScrapeFails, StartFails, WorkersStop, runnerUnchanged,
             WatchdogNext, WatchdogStep, GetStalledJobs, Kill, MarkDead, RequeueJob,
             Enqueue, WatchdogCallFails, WatchdogStops, watchUnchanged, vars
    <3> QED
      BY <3>1
  <2> QED
    BY <2>2, <2>3 DEF Next
<1> QED
  BY <1>1, <1>2, TypeCorrect, PTL DEF Spec

-----------------------------------------------------------------------------
(***************************************************************************)
(* How a step changes the counts and totals of a campaign.                 *)
(***************************************************************************)

(* Of two sets that differ at no other element than x, the cardinalities   *)
(* differ by that element.                                                 *)
LEMMA CardinalityChange ==
    ASSUME NEW S, IsFiniteSet(S), NEW T, IsFiniteSet(T), NEW x, S \ {x} = T \ {x}
    PROVE  Cardinality(T) + (IF x \in S THEN 1 ELSE 0)
           = Cardinality(S) + (IF x \in T THEN 1 ELSE 0)
<1>1. /\ Cardinality(S \ {x}) = Cardinality(S) - (IF x \in S THEN 1 ELSE 0)
      /\ Cardinality(T \ {x}) = Cardinality(T) - (IF x \in T THEN 1 ELSE 0)
      /\ Cardinality(S) \in Nat /\ Cardinality(T) \in Nat
  BY FS_RemoveElement, FS_CardinalityType
<1> QED
  BY <1>1

(* The payloads of a campaign are finitely many.                           *)
LEMMA PayloadsFinite ==
    ASSUME NEW c
    PROVE  /\ IsFiniteSet(JobsOf(c))
           /\ IsFiniteSet({p \in Payloads : p.job \in JobsOf(c)})
<1>1. IsFiniteSet(JobsOf(c))
  BY JobsAssumption, FS_Subset DEF JobsOf
<1>2. IsFiniteSet(BOOLEAN)
  <2>1. BOOLEAN = {TRUE} \cup {FALSE} /\ IsFiniteSet({TRUE})
    BY FS_Singleton
  <2> QED
    BY <2>1, FS_AddElement
<1>3. IsFiniteSet(Payloads)
  <2> DEFINE f == [u \in Jobs \X BOOLEAN |-> [job |-> u[1], drop |-> u[2]]]
  <2>1. IsFiniteSet(Jobs \X BOOLEAN)
    BY <1>2, JobsAssumption, FS_Product
  <2>2. f \in Surjection(Jobs \X BOOLEAN, Payloads)
    <3>1. ASSUME NEW p \in Payloads
          PROVE  \E u \in Jobs \X BOOLEAN : f[u] = p
      <4>1. <<p.job, p.drop>> \in Jobs \X BOOLEAN /\ p = [job |-> p.job, drop |-> p.drop]
        BY DEF Payloads
      <4> QED
        BY <4>1
    <3>2. f \in [Jobs \X BOOLEAN -> Payloads]
      BY DEF Payloads
    <3> QED
      BY <3>1, <3>2 DEF Surjection
  <2> QED
    BY <2>1, <2>2, FS_Surjection
<1> QED
  BY <1>1, <1>3, FS_Subset

(* The processes and messages of a campaign are finitely many.             *)
LEMMA PartsFinite ==
    ASSUME TypeOK, NEW c
    PROVE  /\ IsFiniteSet(Running(c)) /\ IsFiniteSet(Counting(c))
           /\ IsFiniteSet(Requeueing(c)) /\ IsFiniteSet(Reported(c))
<1>1. Running(c) \subseteq Workers /\ Counting(c) \subseteq Drainers
      /\ Requeueing(c) \subseteq Watchdogs
  BY DEF Running, Counting, Requeueing
<1>2. Reported(c) \subseteq 1..Len(statusQueue) /\ IsFiniteSet(1..Len(statusQueue))
  BY FS_Interval DEF Reported, TypeOK, ListsOK
<1> QED
  BY <1>1, <1>2, ProcessesAssumption, FS_Subset

(* Every count and total of a campaign is a natural.                       *)
CountsTyped ==
    \A c \in Campaigns :
        /\ Waiting(c) \in Nat /\ Retries(c) \in Nat /\ PushedLeads(c) \in Nat
        /\ IsFiniteSet(Running(c)) /\ Cardinality(Running(c)) \in Nat
        /\ IsFiniteSet(Reported(c)) /\ Cardinality(Reported(c)) \in Nat
        /\ IsFiniteSet(Counting(c)) /\ Cardinality(Counting(c)) \in Nat
        /\ IsFiniteSet(Requeueing(c)) /\ Cardinality(Requeueing(c)) \in Nat
        /\ RunningLeads(c) \in Nat /\ ReportedLeads(c) \in Nat
        /\ CountingLeads(c) \in Nat
        /\ campaigns[c].completed \in Nat /\ campaigns[c].leads \in Nat

(* ... as the types of the variables imply.                                *)
LEMMA CountsAreTyped == TypeOK => CountsTyped
<1> SUFFICES ASSUME TypeOK, NEW c \in Campaigns
             PROVE  CountsTyped!(c)
  BY DEF CountsTyped
<1>1. Waiting(c) \in Nat
  <2>1. [p \in {q \in Payloads : q.job \in JobsOf(c)} |-> scrapeQueue[p]]
            \in [{q \in Payloads : q.job \in JobsOf(c)} -> Nat]
    BY DEF TypeOK, ListsOK
  <2> QED
    BY <2>1, PayloadsFinite, TotalType DEF Waiting
<1>2. Retries(c) \in Nat
  <2>1. [j \in JobsOf(c) |-> jobs[j].attempt] \in [JobsOf(c) -> Nat]
    BY DEF TypeOK, JobsOK, JobRows, JobsOf
  <2> QED
    BY <2>1, PayloadsFinite, TotalType DEF Retries
<1>3. PushedLeads(c) \in Nat
  <2>1. [j \in JobsOf(c) |-> leadBatches[j]["contact"] + leadBatches[j]["bare"]]
            \in [JobsOf(c) -> Nat]
    BY DEF TypeOK, ListsOK, LeadKinds, JobsOf
  <2> QED
    BY <2>1, PayloadsFinite, TotalType DEF PushedLeads
<1>4. /\ IsFiniteSet(Running(c)) /\ Cardinality(Running(c)) \in Nat
      /\ IsFiniteSet(Reported(c)) /\ Cardinality(Reported(c)) \in Nat
      /\ IsFiniteSet(Counting(c)) /\ Cardinality(Counting(c)) \in Nat
      /\ IsFiniteSet(Requeueing(c)) /\ Cardinality(Requeueing(c)) \in Nat
  BY PartsFinite, FS_CardinalityType
<1>5. RunningLeads(c) \in Nat
  <2>1. [w \in Running(c) |-> worker[w].leads] \in [Running(c) -> Nat]
    BY DEF TypeOK, WorkersOK, WorkerStates, Running
  <2> QED
    BY <1>4, <2>1, TotalType DEF RunningLeads
<1>6. ReportedLeads(c) \in Nat
  <2>1. ASSUME NEW i \in Reported(c)
        PROVE  statusQueue[i].leads \in Nat
    <3>1. statusQueue[i] \in StatusMessages
      BY DEF TypeOK, ListsOK, Reported
    <3> QED
      BY <3>1 DEF StatusMessages
  <2>2. [i \in Reported(c) |-> statusQueue[i].leads] \in [Reported(c) -> Nat]
    BY <2>1
  <2> QED
    BY <1>4, <2>2, TotalType DEF ReportedLeads
<1>7. CountingLeads(c) \in Nat
  <2>1. [d \in Counting(c) |-> drainer[d].msg.leads] \in [Counting(c) -> Nat]
    BY DEF TypeOK, DrainersOK, StatusMessages, Counting
  <2> QED
    BY <1>4, <2>1, TotalType DEF CountingLeads
<1>8. campaigns[c].completed \in Nat /\ campaigns[c].leads \in Nat
  BY DEF TypeOK, CampaignsOK, CampaignRows
<1> QED
  BY <1>1, <1>2, <1>3, <1>4, <1>5, <1>6, <1>7, <1>8

(* The same after a step.                                                  *)
LEMMA CountsAreTypedNext == TypeOK' => CountsTyped'
  BY CountsAreTyped, PTL

(* What a count or total does not read does not change it.                 *)
LEMMA CountsFrame ==
    ASSUME NEW c
    PROVE  /\ UNCHANGED scrapeQueue => Waiting(c)' = Waiting(c)
           /\ UNCHANGED jobs => Retries(c)' = Retries(c)
           /\ UNCHANGED leadBatches => PushedLeads(c)' = PushedLeads(c)
           /\ UNCHANGED worker => /\ Running(c)' = Running(c)
                                  /\ RunningLeads(c)' = RunningLeads(c)
           /\ UNCHANGED statusQueue => /\ Reported(c)' = Reported(c)
                                       /\ ReportedLeads(c)' = ReportedLeads(c)
           /\ UNCHANGED drainer => /\ Counting(c)' = Counting(c)
                                   /\ CountingLeads(c)' = CountingLeads(c)
           /\ UNCHANGED watchdog => Requeueing(c)' = Requeueing(c)
<1>1. UNCHANGED worker => Running(c)' = Running(c)
  BY DEF Running, Busy
<1>2. UNCHANGED statusQueue => Reported(c)' = Reported(c)
  BY DEF Reported
<1>3. UNCHANGED drainer => Counting(c)' = Counting(c)
  BY DEF Counting
<1>4. UNCHANGED watchdog => Requeueing(c)' = Requeueing(c)
  BY DEF Requeueing
<1> QED
  BY <1>1, <1>2, <1>3, <1>4 DEF Waiting, Retries, PushedLeads, RunningLeads,
     ReportedLeads, CountingLeads

(* One entry of scrape_queue changes.                                      *)
LEMMA WaitingChange ==
    ASSUME TypeOK, TypeOK', NEW c, NEW p \in Payloads,
           \A q \in Payloads \ {p} : scrapeQueue'[q] = scrapeQueue[q]
    PROVE  Waiting(c)' + (IF p.job \in JobsOf(c) THEN scrapeQueue[p] ELSE 0)
           = Waiting(c) + (IF p.job \in JobsOf(c) THEN scrapeQueue'[p] ELSE 0)
<1> DEFINE S == {q \in Payloads : q.job \in JobsOf(c)}
           f == [q \in S |-> scrapeQueue[q]]
           g == [q \in S |-> scrapeQueue'[q]]
<1>1. f \in [S -> Nat] /\ g \in [S -> Nat] /\ IsFiniteSet(S)
  BY PayloadsFinite DEF TypeOK, ListsOK
<1>2. \A q \in S \ {p} : f[q] = g[q]
  OBVIOUS
<1>3. Total(g) + (IF p \in S THEN f[p] ELSE 0) = Total(f) + (IF p \in S THEN g[p] ELSE 0)
  <2> HIDE DEF S, f, g
  <2> QED
    BY <1>1, <1>2, TotalChange
<1>4. Waiting(c) = Total(f) /\ Waiting(c)' = Total(g)
  BY DEF Waiting
<1> QED
  BY <1>3, <1>4

(* One attempt_count changes.                                              *)
LEMMA RetriesChange ==
    ASSUME TypeOK, TypeOK', NEW c, NEW j \in Jobs,
           \A i \in Jobs \ {j} : jobs'[i].attempt = jobs[i].attempt
    PROVE  Retries(c)' + (IF j \in JobsOf(c) THEN jobs[j].attempt ELSE 0)
           = Retries(c) + (IF j \in JobsOf(c) THEN jobs'[j].attempt ELSE 0)
<1> DEFINE S == JobsOf(c)
           f == [i \in S |-> jobs[i].attempt]
           g == [i \in S |-> jobs'[i].attempt]
<1>1. f \in [S -> Nat] /\ g \in [S -> Nat] /\ IsFiniteSet(S)
  BY PayloadsFinite DEF TypeOK, JobsOK, JobRows, JobsOf
<1>2. \A i \in S \ {j} : f[i] = g[i]
  BY DEF JobsOf
<1>3. Total(g) + (IF j \in S THEN f[j] ELSE 0) = Total(f) + (IF j \in S THEN g[j] ELSE 0)
  <2> HIDE DEF S, f, g
  <2> QED
    BY <1>1, <1>2, TotalChange
<1>4. Retries(c) = Total(f) /\ Retries(c)' = Total(g)
  BY DEF Retries
<1> QED
  BY <1>3, <1>4

(* No attempt_count changes.                                               *)
LEMMA RetriesSame ==
    ASSUME NEW c, \A j \in Jobs : jobs'[j].attempt = jobs[j].attempt
    PROVE  Retries(c)' = Retries(c)
<1>1. \A j \in JobsOf(c) : jobs'[j].attempt = jobs[j].attempt
  BY DEF JobsOf
<1>2. [j \in JobsOf(c) |-> jobs'[j].attempt] = [j \in JobsOf(c) |-> jobs[j].attempt]
  BY <1>1
<1> QED
  BY <1>2 DEF Retries

(* One worker steps.                                                       *)
LEMMA RunningChange ==
    ASSUME TypeOK, TypeOK', NEW c, NEW w \in Workers,
           \A v \in Workers \ {w} : worker'[v] = worker[v]
    PROVE  /\ Cardinality(Running(c)') + (IF w \in Running(c) THEN 1 ELSE 0)
              = Cardinality(Running(c)) + (IF w \in Running(c)' THEN 1 ELSE 0)
           /\ RunningLeads(c)' + (IF w \in Running(c) THEN worker[w].leads ELSE 0)
              = RunningLeads(c) + (IF w \in Running(c)' THEN worker'[w].leads ELSE 0)
<1> DEFINE S == Running(c)
           T == Running(c)'
           f == [v \in S |-> worker[v].leads]
           g == [v \in T |-> worker'[v].leads]
<1>1. S \ {w} = T \ {w} /\ \A v \in S \ {w} : f[v] = g[v]
  BY DEF Running, Busy
<1>2. IsFiniteSet(S) /\ IsFiniteSet(T)
  <2>1. S \subseteq Workers /\ T \subseteq Workers
    BY DEF Running
  <2> QED
    BY <2>1, ProcessesAssumption, FS_Subset
<1>3. f \in [S -> Nat] /\ g \in [T -> Nat]
  BY DEF TypeOK, WorkersOK, WorkerStates, Running
<1>4. /\ Cardinality(T) + (IF w \in S THEN 1 ELSE 0)
         = Cardinality(S) + (IF w \in T THEN 1 ELSE 0)
      /\ Total(g) + (IF w \in S THEN f[w] ELSE 0) = Total(f) + (IF w \in T THEN g[w] ELSE 0)
  <2> HIDE DEF S, T, f, g
  <2> QED
    BY <1>1, <1>2, <1>3, CardinalityChange, TotalChange
<1>5. RunningLeads(c) = Total(f) /\ RunningLeads(c)' = Total(g)
  BY DEF RunningLeads
<1> QED
  BY <1>4, <1>5

(* Workers that keep their jobs, or lose them: no run and no lead more.    *)
LEMMA FewerRunning ==
    ASSUME TypeOK, TypeOK', NEW c, Running(c)' \subseteq Running(c),
           \A w \in Running(c)' : worker'[w].leads = worker[w].leads
    PROVE  /\ Cardinality(Running(c)') <= Cardinality(Running(c))
           /\ RunningLeads(c)' <= RunningLeads(c)
<1> DEFINE S == Running(c)
           T == Running(c)'
           f == [w \in S |-> worker[w].leads]
           g == [w \in T |-> worker'[w].leads]
<1>1. IsFiniteSet(S)
  BY PartsFinite
<1>2. f \in [S -> Nat] /\ g \in [T -> Nat]
  BY DEF TypeOK, WorkersOK, WorkerStates, Running
<1>3. \A w \in T : g[w] <= f[w]
  BY <1>2
<1>4. Cardinality(T) <= Cardinality(S) /\ Total(g) <= Total(f)
  <2>1. T \in SUBSET S
    OBVIOUS
  <2> HIDE DEF S, T, f, g
  <2> QED
    BY <1>1, <1>2, <1>3, <2>1, FS_Subset, TotalMono
<1>5. RunningLeads(c) = Total(f) /\ RunningLeads(c)' = Total(g)
  BY DEF RunningLeads
<1> QED
  BY <1>4, <1>5

(* A batch has a lead of each of its kinds.                                *)
LEMMA BatchSize ==
    ASSUME NEW batch \in SUBSET LeadKinds
    PROVE  Cardinality(batch)
           = (IF "contact" \in batch THEN 1 ELSE 0) + (IF "bare" \in batch THEN 1 ELSE 0)
<1>1. /\ IsFiniteSet({}) /\ Cardinality({}) = 0
      /\ \A x : IsFiniteSet({x}) /\ Cardinality({x}) = 1
  BY FS_EmptySet, FS_Singleton
<1>2. Cardinality({"contact"} \cup {"bare"}) = 2
  <2>1. "bare" \notin {"contact"}
    OBVIOUS
  <2>2. Cardinality({"contact"} \cup {"bare"}) = Cardinality({"contact"}) + 1
    BY <1>1, <2>1, FS_AddElement
  <2> QED
    BY <1>1, <2>2
<1>3. ASSUME "contact" \in batch, "bare" \in batch
      PROVE  Cardinality(batch) = 2
  <2>1. batch = {"contact"} \cup {"bare"}
    BY <1>3 DEF LeadKinds
  <2> QED
    BY <1>2, <2>1
<1>4. ASSUME "contact" \in batch, "bare" \notin batch
      PROVE  Cardinality(batch) = 1
  <2>1. batch = {"contact"}
    BY <1>4 DEF LeadKinds
  <2> QED
    BY <1>1, <2>1
<1>5. ASSUME "contact" \notin batch, "bare" \in batch
      PROVE  Cardinality(batch) = 1
  <2>1. batch = {"bare"}
    BY <1>5 DEF LeadKinds
  <2> QED
    BY <1>1, <2>1
<1>6. ASSUME "contact" \notin batch, "bare" \notin batch
      PROVE  Cardinality(batch) = 0
  <2>1. batch = {}
    BY <1>6 DEF LeadKinds
  <2> QED
    BY <1>1, <2>1
<1> QED
  BY <1>3, <1>4, <1>5, <1>6

(* The leads a batch adds to lead_batches of a job.                        *)
LEMMA PushedChange ==
    ASSUME TypeOK, TypeOK', NEW c, NEW j \in Jobs, NEW n \in Nat,
           \A i \in Jobs \ {j} : leadBatches'[i] = leadBatches[i],
           leadBatches'[j]["contact"] + leadBatches'[j]["bare"]
               = leadBatches[j]["contact"] + leadBatches[j]["bare"] + n
    PROVE  PushedLeads(c)' = PushedLeads(c) + (IF j \in JobsOf(c) THEN n ELSE 0)
<1> DEFINE S == JobsOf(c)
           f == [i \in S |-> leadBatches[i]["contact"] + leadBatches[i]["bare"]]
           g == [i \in S |-> leadBatches'[i]["contact"] + leadBatches'[i]["bare"]]
<1>1. f \in [S -> Nat] /\ g \in [S -> Nat] /\ IsFiniteSet(S)
  <2>1. ASSUME NEW i \in Jobs
        PROVE  /\ leadBatches[i]["contact"] + leadBatches[i]["bare"] \in Nat
               /\ leadBatches'[i]["contact"] + leadBatches'[i]["bare"] \in Nat
    BY SMTT(30) DEF TypeOK, ListsOK, LeadKinds
  <2> QED
    BY <2>1, PayloadsFinite DEF JobsOf
<1>2. (\A i \in S \ {j} : f[i] = g[i]) /\ (j \in S => g[j] = f[j] + n /\ f[j] \in Nat)
  BY <1>1 DEF JobsOf
<1>3. Total(g) = Total(f) + (IF j \in S THEN n ELSE 0)
  <2> HIDE DEF S, f, g
  <2>1. Total(g) + (IF j \in S THEN f[j] ELSE 0) = Total(f) + (IF j \in S THEN g[j] ELSE 0)
    BY <1>1, <1>2, TotalChange
  <2>2. Total(f) \in Nat /\ Total(g) \in Nat
    BY <1>1, TotalType
  <2> QED
    BY <1>2, <2>1, <2>2
<1>4. PushedLeads(c) = Total(f) /\ PushedLeads(c)' = Total(g)
  BY DEF PushedLeads
<1> QED
  BY <1>3, <1>4

(* One drainer steps.                                                      *)
LEMMA CountingChange ==
    ASSUME TypeOK, TypeOK', NEW c, NEW d \in Drainers,
           \A e \in Drainers \ {d} : drainer'[e] = drainer[e]
    PROVE  /\ Cardinality(Counting(c)') + (IF d \in Counting(c) THEN 1 ELSE 0)
              = Cardinality(Counting(c)) + (IF d \in Counting(c)' THEN 1 ELSE 0)
           /\ CountingLeads(c)' + (IF d \in Counting(c) THEN drainer[d].msg.leads ELSE 0)
              = CountingLeads(c) + (IF d \in Counting(c)' THEN drainer'[d].msg.leads ELSE 0)
<1> DEFINE S == Counting(c)
           T == Counting(c)'
           f == [e \in S |-> drainer[e].msg.leads]
           g == [e \in T |-> drainer'[e].msg.leads]
<1>1. S \ {d} = T \ {d} /\ \A e \in S \ {d} : f[e] = g[e]
  BY DEF Counting
<1>2. IsFiniteSet(S) /\ IsFiniteSet(T)
  <2>1. S \subseteq Drainers /\ T \subseteq Drainers
    BY DEF Counting
  <2> QED
    BY <2>1, ProcessesAssumption, FS_Subset
<1>3. f \in [S -> Nat] /\ g \in [T -> Nat]
  BY DEF TypeOK, DrainersOK, StatusMessages, Counting
<1>4. /\ Cardinality(T) + (IF d \in S THEN 1 ELSE 0)
         = Cardinality(S) + (IF d \in T THEN 1 ELSE 0)
      /\ Total(g) + (IF d \in S THEN f[d] ELSE 0) = Total(f) + (IF d \in T THEN g[d] ELSE 0)
  <2> HIDE DEF S, T, f, g
  <2> QED
    BY <1>1, <1>2, <1>3, CardinalityChange, TotalChange
<1>5. CountingLeads(c) = Total(f) /\ CountingLeads(c)' = Total(g)
  BY DEF CountingLeads
<1> QED
  BY <1>4, <1>5

(* One watchdog steps.                                                     *)
LEMMA RequeueingChange ==
    ASSUME NEW c, NEW g \in Watchdogs,
           \A h \in Watchdogs \ {g} : watchdog'[h] = watchdog[h]
    PROVE  Cardinality(Requeueing(c)') + (IF g \in Requeueing(c) THEN 1 ELSE 0)
           = Cardinality(Requeueing(c)) + (IF g \in Requeueing(c)' THEN 1 ELSE 0)
<1>1. Requeueing(c) \ {g} = Requeueing(c)' \ {g}
  BY DEF Requeueing
<1>2. Requeueing(c) \subseteq Watchdogs /\ Requeueing(c)' \subseteq Watchdogs
  BY DEF Requeueing
<1>3. IsFiniteSet(Requeueing(c)) /\ IsFiniteSet(Requeueing(c)')
  BY <1>2, ProcessesAssumption, FS_Subset
<1> QED
  BY <1>1, <1>3, CardinalityChange

(* A status message is pushed.                                             *)
LEMMA ReportedAppend ==
    ASSUME TypeOK, TypeOK', NEW c, NEW m \in StatusMessages,
           statusQueue' = Append(statusQueue, m)
    PROVE  /\ Cardinality(Reported(c)')
              = Cardinality(Reported(c)) + (IF CountedMessage(m, c) THEN 1 ELSE 0)
           /\ ReportedLeads(c)'
              = ReportedLeads(c) + (IF CountedMessage(m, c) THEN m.leads ELSE 0)
<1> DEFINE x == Len(statusQueue) + 1
           S == Reported(c)
           T == Reported(c)'
           f == [i \in S |-> statusQueue[i].leads]
           g == [i \in T |-> statusQueue'[i].leads]
<1>1. /\ statusQueue \in Seq(StatusMessages) /\ statusQueue' \in Seq(StatusMessages)
      /\ Len(statusQueue) \in Nat /\ Len(statusQueue') = x
      /\ statusQueue'[x] = m
      /\ \A i \in 1..Len(statusQueue) : statusQueue'[i] = statusQueue[i]
  BY DEF TypeOK, ListsOK
<1>2. S \subseteq 1..Len(statusQueue) /\ T \subseteq 1..x
  BY <1>1 DEF Reported
<1>3. IsFiniteSet(S) /\ IsFiniteSet(T)
  <2>1. IsFiniteSet(1..Len(statusQueue)) /\ IsFiniteSet(1..x)
    BY <1>1, FS_Interval
  <2> HIDE DEF x, S, T
  <2> QED
    BY <1>2, <2>1, FS_Subset
<1>4. /\ x \notin S /\ S \ {x} = T \ {x} /\ (x \in T <=> CountedMessage(m, c))
      /\ \A i \in S \ {x} : f[i] = g[i]
      /\ x \in T => g[x] = m.leads
  BY <1>1 DEF Reported
<1>5. f \in [S -> Nat] /\ g \in [T -> Nat]
  <2>1. ASSUME NEW q \in Seq(StatusMessages), NEW i \in 1..Len(q)
        PROVE  q[i].leads \in Nat
    <3>1. q[i] \in StatusMessages
      OBVIOUS
    <3> QED
      BY <3>1 DEF StatusMessages
  <2> QED
    BY <1>1, <1>2, <2>1
<1>6. /\ Cardinality(T) = Cardinality(S) + (IF CountedMessage(m, c) THEN 1 ELSE 0)
      /\ Total(g) = Total(f) + (IF CountedMessage(m, c) THEN m.leads ELSE 0)
  <2>1. /\ Cardinality(T) + (IF x \in S THEN 1 ELSE 0)
           = Cardinality(S) + (IF x \in T THEN 1 ELSE 0)
        /\ Total(g) + (IF x \in S THEN f[x] ELSE 0) = Total(f) + (IF x \in T THEN g[x] ELSE 0)
    <3> HIDE DEF x, S, T, f, g
    <3> QED
      BY <1>3, <1>4, <1>5, CardinalityChange, TotalChange
  <2>2. Cardinality(T) \in Nat /\ Total(g) \in Nat
    <3> HIDE DEF T, g
    <3> QED
      BY <1>3, <1>5, FS_CardinalityType, TotalType
  <2> HIDE DEF x, S, T, f, g
  <2> QED
    BY <1>4, <2>1, <2>2
<1>7. ReportedLeads(c) = Total(f) /\ ReportedLeads(c)' = Total(g)
  BY DEF ReportedLeads
<1> QED
  BY <1>6, <1>7

(* The first status message is taken.                                      *)
LEMMA ReportedTail ==
    ASSUME TypeOK, TypeOK', NEW c, statusQueue # <<>>, statusQueue' = Tail(statusQueue)
    PROVE  /\ Cardinality(Reported(c)')
              + (IF CountedMessage(Head(statusQueue), c) THEN 1 ELSE 0)
              = Cardinality(Reported(c))
           /\ ReportedLeads(c)'
              + (IF CountedMessage(Head(statusQueue), c) THEN Head(statusQueue).leads ELSE 0)
              = ReportedLeads(c)
<1> DEFINE S == Reported(c)
           T == Reported(c)'
           R == S \ {1}
           f == [i \in S |-> statusQueue[i].leads]
           r == [i \in R |-> statusQueue[i].leads]
           g == [i \in T |-> statusQueue'[i].leads]
           b == [i \in T |-> i + 1]
<1>1. /\ statusQueue \in Seq(StatusMessages) /\ statusQueue' \in Seq(StatusMessages)
      /\ Len(statusQueue) \in Nat \ {0} /\ Len(statusQueue') = Len(statusQueue) - 1
      /\ \A i \in 1..Len(statusQueue') : statusQueue'[i] = statusQueue[i + 1]
      /\ Head(statusQueue) = statusQueue[1]
  BY DEF TypeOK, ListsOK
<1>2. /\ S \subseteq 1..Len(statusQueue) /\ T \subseteq 1..Len(statusQueue')
      /\ R \subseteq 1..Len(statusQueue)
  BY DEF Reported
<1>3. IsFiniteSet(S) /\ IsFiniteSet(T) /\ IsFiniteSet(R)
  <2>1. IsFiniteSet(1..Len(statusQueue)) /\ IsFiniteSet(1..Len(statusQueue'))
    BY <1>1, FS_Interval
  <2> HIDE DEF S, T, R
  <2> QED
    BY <1>2, <2>1, FS_Subset
<1>4. f \in [S -> Nat] /\ g \in [T -> Nat] /\ r \in [R -> Nat]
  <2>1. ASSUME NEW q \in Seq(StatusMessages), NEW i \in 1..Len(q)
        PROVE  q[i].leads \in Nat
    <3>1. q[i] \in StatusMessages
      OBVIOUS
    <3> QED
      BY <3>1 DEF StatusMessages
  <2> QED
    BY <1>1, <1>2, <2>1
<1>5. b \in Bijection(T, R) /\ \A i \in T : r[b[i]] = g[i]
  <2>1. ASSUME NEW i \in T
        PROVE  b[i] \in R /\ r[b[i]] = g[i]
    <3>1. i \in 1..Len(statusQueue') /\ CountedMessage(statusQueue'[i], c)
      BY DEF Reported
    <3>2. /\ i + 1 \in 1..Len(statusQueue) /\ i + 1 # 1
          /\ statusQueue'[i] = statusQueue[i + 1]
      BY <1>1, <3>1
    <3> QED
      BY <3>1, <3>2 DEF Reported
  <2>2. ASSUME NEW k \in R
        PROVE  \E i \in T : b[i] = k
    <3>1. k \in 1..Len(statusQueue) /\ k # 1 /\ CountedMessage(statusQueue[k], c)
      BY DEF Reported
    <3>2. /\ k - 1 \in 1..Len(statusQueue') /\ (k - 1) + 1 = k
          /\ statusQueue'[k - 1] = statusQueue[k]
      BY <1>1, <3>1
    <3>3. k - 1 \in T
      BY <3>1, <3>2 DEF Reported
    <3> QED
      BY <3>2, <3>3
  <2>3. \A i, k \in T : b[i] = b[k] => i = k
    BY <1>1, <1>2
  <2> HIDE DEF T, R
  <2> QED
    BY <2>1, <2>2, <2>3 DEF Bijection, Injection, Surjection, IsInjective
<1>6. Cardinality(T) = Cardinality(R) /\ Total(r) = Total(g)
  <2> HIDE DEF T, R, r, g, b
  <2>1. ExistsBijection(T, R)
    BY <1>5 DEF ExistsBijection
  <2> QED
    BY <1>3, <1>4, <1>5, <2>1, FS_Bijection, TotalRename
<1>7. /\ Cardinality(S) + 0 = Cardinality(R) + (IF 1 \in S THEN 1 ELSE 0)
      /\ Total(f) + 0 = Total(r) + (IF 1 \in S THEN f[1] ELSE 0)
  <2>1. 1 \notin R /\ R \ {1} = S \ {1} /\ \A i \in R \ {1} : r[i] = f[i]
    OBVIOUS
  <2> HIDE DEF S, R, r, f
  <2>2. Cardinality(R) + (IF 1 \in S THEN 1 ELSE 0) = Cardinality(S) + 0
    BY <1>3, <2>1, CardinalityChange
  <2>3. Total(r) + (IF 1 \in S THEN f[1] ELSE 0) = Total(f) + 0
    BY <1>3, <1>4, <2>1, TotalChange, SMTT(30)
  <2> QED
    BY <2>2, <2>3
<1>8. (1 \in S <=> CountedMessage(Head(statusQueue), c))
      /\ (1 \in S => f[1] = Head(statusQueue).leads)
  BY <1>1 DEF Reported
<1>9. Cardinality(S) \in Nat /\ Total(f) \in Nat
  <2> HIDE DEF S, f
  <2> QED
    BY <1>3, <1>4, FS_CardinalityType, TotalType
<1>10. ReportedLeads(c) = Total(f) /\ ReportedLeads(c)' = Total(g)
  BY DEF ReportedLeads
<1> HIDE DEF S, R, T, f, r, g
<1>11. /\ Cardinality(T) + (IF CountedMessage(Head(statusQueue), c) THEN 1 ELSE 0)
          = Cardinality(S)
       /\ Total(g) + (IF CountedMessage(Head(statusQueue), c)
                      THEN Head(statusQueue).leads ELSE 0) = Total(f)
  BY <1>6, <1>7, <1>8, <1>9
<1> QED
  BY <1>10, <1>11 DEF S, T

(* The payloads of an accepted campaign: one for each of its jobs.         *)
LEMMA WaitingWhenAccepted ==
    ASSUME TypeOK', NEW c \in Campaigns, EnqueueJobs(c),
           \A p \in Payloads : p.job \in JobsOf(c) => scrapeQueue[p] = 0
    PROVE  Waiting(c)' = Cardinality(JobsOf(c))
<1> DEFINE S == {p \in Payloads : p.job \in JobsOf(c)}
           g == [p \in S |-> scrapeQueue'[p]]
           flag == c \in DropNoContact
           Payload(j) == [job |-> j, drop |-> flag]
           b == [j \in JobsOf(c) |-> <<Payload(j), 1>>]
<1>1. \A p \in S : g[p] = IF p.drop = flag THEN 1 ELSE 0
  BY DEF EnqueueJobs
<1>2. g \in [S -> Nat]
  BY DEF TypeOK, ListsOK
<1>3. ASSUME NEW p
      PROVE  p \in S /\ p.drop = flag <=> \E j \in JobsOf(c) : p = Payload(j)
  <2>1. flag \in BOOLEAN
    OBVIOUS
  <2> HIDE DEF flag
  <2>2. ASSUME NEW j \in JobsOf(c), p = Payload(j)
        PROVE  p \in S /\ p.drop = flag
    BY <2>1, <2>2 DEF Payloads, JobsOf
  <2>3. ASSUME p \in S, p.drop = flag
        PROVE  p.job \in JobsOf(c) /\ p = Payload(p.job)
    BY <2>3 DEF Payloads
  <2> QED
    BY <2>2, <2>3
<1>4. ASSUME NEW u
      PROVE  u \in Units(g) <=> \E j \in JobsOf(c) : u = <<Payload(j), 1>>
  <2>1. u \in Units(g) <=> \E p \in S : \E n \in 1..g[p] : u = <<p, n>>
    BY <1>2, UnitsElements
  <2>2. ASSUME NEW p \in S, NEW n
        PROVE  n \in 1..g[p] <=> p.drop = flag /\ n = 1
    BY <1>1
  <2> HIDE DEF S, g, Payload, flag
  <2> QED
    BY <1>3, <2>1, <2>2
<1>5. b \in Bijection(JobsOf(c), Units(g))
  <2>1. \A j \in JobsOf(c) : b[j] \in Units(g)
    BY <1>4
  <2>2. \A i, j \in JobsOf(c) : b[i] = b[j] => i = j
    OBVIOUS
  <2>3. \A u \in Units(g) : \E j \in JobsOf(c) : b[j] = u
    BY <1>4
  <2> HIDE DEF g
  <2> QED
    BY <2>1, <2>2, <2>3 DEF Bijection, Injection, Surjection, IsInjective
<1>6. Cardinality(Units(g)) = Cardinality(JobsOf(c))
  BY <1>5, PayloadsFinite, FS_Bijection DEF ExistsBijection
<1> QED
  BY <1>6 DEF Waiting, Total

-----------------------------------------------------------------------------
(***************************************************************************)
(* No run and no lead is counted twice.                                    *)
(***************************************************************************)
RunsBalanced(c) ==
    campaigns[c].completed + OpenRuns(c) <= Cardinality(JobsOf(c)) + Retries(c)
LeadsBalanced(c) == campaigns[c].leads + OpenLeads(c) <= PushedLeads(c)

(* A campaign of which nothing has run yet is balanced once its payloads   *)
(* are queued.                                                             *)
LEMMA AcceptedBalanced ==
    ASSUME TypeOK, TypeOK', NothingBeforeAccepted, NEW c \in Campaigns, EnqueueJobs(c)
    PROVE  RunsBalanced(c)'
<1>1. request[c].pc # "accepted"
  BY DEF EnqueueJobs, RequestStep
<1>2. \A j \in JobsOf(c) : NotQueued(j)
  BY <1>1 DEF NothingBeforeAccepted, JobsOf, Submitted
<1>3. UNCHANGED <<campaigns, jobs, worker, statusQueue, drainer, watchdog>>
  BY DEF EnqueueJobs, serviceUnchanged, tables
<1>4. campaigns'[c].completed = 0
  BY <1>1, <1>3 DEF NothingBeforeAccepted
<1>5. Running(c) = {} /\ Reported(c) = {} /\ Counting(c) = {} /\ Requeueing(c) = {}
  <2>1. Running(c) = {}
    BY <1>2 DEF Running, NotQueued
  <2>2. Reported(c) = {}
    <3> SUFFICES ASSUME NEW i \in 1..Len(statusQueue), CountedMessage(statusQueue[i], c)
                 PROVE  FALSE
      BY DEF Reported
    <3>1. statusQueue[i] \in StatusMessages
      BY DEF TypeOK, ListsOK
    <3>2. statusQueue[i].job \in JobsOf(c)
      BY <3>1 DEF CountedMessage, JobsOf, StatusMessages
    <3> QED
      BY <1>2, <3>2 DEF NotQueued
  <2>3. Counting(c) = {}
    BY <1>2 DEF Counting, NotQueued, CountedMessage, JobsOf, TypeOK, DrainersOK,
                StatusMessages
  <2>4. Requeueing(c) = {}
    BY <1>2 DEF Requeueing, NotQueued
  <2> QED
    BY <2>1, <2>2, <2>3, <2>4
<1>6. Running(c)' = {} /\ Reported(c)' = {} /\ Counting(c)' = {} /\ Requeueing(c)' = {}
  BY <1>3, <1>5, CountsFrame
<1>7. Waiting(c)' = Cardinality(JobsOf(c))
  BY <1>2, WaitingWhenAccepted DEF NotQueued
<1>8. Retries(c)' \in Nat /\ Cardinality(JobsOf(c)) \in Nat
  BY CountsAreTypedNext, PayloadsFinite, FS_CardinalityType DEF CountsTyped
<1> QED
  BY <1>4, <1>6, <1>7, <1>8, FS_EmptySet DEF RunsBalanced, OpenRuns

(* What does not touch the parts of a campaign keeps it balanced.          *)
LEMMA UntouchedBalanced ==
    ASSUME NEW c \in Campaigns, RunsBalanced(c), LeadsBalanced(c),
           UNCHANGED <<scrapeQueue, statusQueue, leadBatches, worker, drainer, watchdog>>,
           /\ campaigns'[c].completed = campaigns[c].completed
           /\ campaigns'[c].leads = campaigns[c].leads
           /\ Retries(c)' = Retries(c)
    PROVE  RunsBalanced(c)' /\ LeadsBalanced(c)'
<1>1. /\ Waiting(c)' = Waiting(c) /\ PushedLeads(c)' = PushedLeads(c)
      /\ Running(c)' = Running(c) /\ RunningLeads(c)' = RunningLeads(c)
      /\ Reported(c)' = Reported(c) /\ ReportedLeads(c)' = ReportedLeads(c)
      /\ Counting(c)' = Counting(c) /\ CountingLeads(c)' = CountingLeads(c)
      /\ Requeueing(c)' = Requeueing(c)
  BY CountsFrame
<1> QED
  BY <1>1 DEF RunsBalanced, LeadsBalanced, OpenRuns, OpenLeads

(* The steps of CampaignService keep every campaign balanced.              *)
LEMMA ServiceBalanced ==
    ASSUME TypeOK, TypeOK', NothingBeforeAccepted, CampaignServiceNext,
           NEW c \in Campaigns, RunsBalanced(c), LeadsBalanced(c)
    PROVE  RunsBalanced(c)' /\ LeadsBalanced(c)'
<1>1. UNCHANGED <<statusQueue, leadBatches, worker, drainer, watchdog>>
  BY DEF CampaignServiceNext, CreateStep, CheckLimit, RollBack, InsertCampaign,
         InsertJobs, EnqueueJobs, InsertJobsFails, CreateStops, ViewerLoads,
         ViewerFills, CacheExpires, NextDay, serviceUnchanged, lists
<1>2. /\ campaigns'[c].completed = campaigns[c].completed
      /\ campaigns'[c].leads = campaigns[c].leads
  BY DEF CampaignServiceNext, CreateStep, CheckLimit, RollBack, InsertCampaign,
         InsertJobs, EnqueueJobs, InsertJobsFails, CreateStops, ViewerLoads,
         ViewerFills, CacheExpires, NextDay, tables, TypeOK, CampaignsOK, CampaignRows
<1>3. Retries(c)' = Retries(c)
  <2>1. ASSUME NEW J, PendingRows(J), NEW j \in Jobs
        PROVE  jobs'[j].attempt = jobs[j].attempt
    BY <2>1 DEF PendingRows, TypeOK, JobsOK, JobRows
  <2>2. UNCHANGED jobs \/ \E J : PendingRows(J)
    BY DEF CampaignServiceNext, CreateStep, CheckLimit, RollBack, InsertCampaign,
           InsertJobs, EnqueueJobs, InsertJobsFails, CreateStops, ViewerLoads,
           ViewerFills, CacheExpires, NextDay, tables
  <2>3. \A j \in Jobs : jobs'[j].attempt = jobs[j].attempt
    BY <2>1, <2>2
  <2> QED
    BY <2>3, RetriesSame
<1>4. ASSUME NEW b \in Campaigns, EnqueueJobs(b), b # c
      PROVE  Waiting(c)' = Waiting(c)
  <2>1. \A p \in {q \in Payloads : q.job \in JobsOf(c)} : scrapeQueue'[p] = scrapeQueue[p]
    BY <1>4 DEF EnqueueJobs, JobsOf
  <2> QED
    BY <2>1 DEF Waiting
<1>5. CASE \E b \in Campaigns : EnqueueJobs(b)
  <2>1. PICK b \in Campaigns : EnqueueJobs(b)
    BY <1>5
  <2>2. /\ PushedLeads(c)' = PushedLeads(c)
        /\ Running(c)' = Running(c) /\ RunningLeads(c)' = RunningLeads(c)
        /\ Reported(c)' = Reported(c) /\ ReportedLeads(c)' = ReportedLeads(c)
        /\ Counting(c)' = Counting(c) /\ CountingLeads(c)' = CountingLeads(c)
        /\ Requeueing(c)' = Requeueing(c)
    BY <1>1, CountsFrame
  <2>3. LeadsBalanced(c)'
    BY <1>2, <2>2 DEF LeadsBalanced, OpenLeads
  <2>4. RunsBalanced(c)'
    <3>1. CASE b = c
      BY <2>1, <3>1, AcceptedBalanced
    <3>2. CASE b # c
      BY <1>2, <1>3, <1>4, <2>1, <2>2, <3>2 DEF RunsBalanced, OpenRuns
    <3> QED
      BY <3>1, <3>2
  <2> QED
    BY <2>3, <2>4
<1>6. CASE ~\E b \in Campaigns : EnqueueJobs(b)
  <2>1. UNCHANGED scrapeQueue
    BY <1>6 DEF CampaignServiceNext, CreateStep, CheckLimit, RollBack, InsertCampaign,
           InsertJobs, InsertJobsFails, CreateStops, ViewerLoads,
           ViewerFills, CacheExpires, NextDay, lists
  <2> QED
    BY <1>1, <1>2, <1>3, <2>1, UntouchedBalanced
<1> QED
  BY <1>5, <1>6

(* The counts and totals of a campaign around a step, as numbers.          *)
LEMMA CountsAround ==
    ASSUME TypeOK, TypeOK', NEW c \in Campaigns
    PROVE  /\ CountsTyped!(c) /\ CountsTyped!(c)'
           /\ Cardinality(JobsOf(c)) \in Nat
  BY CountsAreTyped, CountsAreTypedNext, PayloadsFinite, FS_CardinalityType
     DEF CountsTyped

(* A run ends, and its status is pushed with no more than its leads.       *)
LEMMA ReportBalanced ==
    ASSUME TypeOK, TypeOK', NEW c \in Campaigns, RunsBalanced(c), LeadsBalanced(c),
           NEW w \in Workers, Busy(w), Idle(w),
           NEW status \in FinalStatuses, NEW leads \in Nat, leads <= worker[w].leads,
           PushStatus(worker[w].job, status, leads),
           UNCHANGED <<scrapeQueue, leadBatches, runnerUnchanged>>
    PROVE  RunsBalanced(c)' /\ LeadsBalanced(c)'
<1> DEFINE m == [job |-> worker[w].job, status |-> status, leads |-> leads, try |-> 0]
<1>1. worker[w].job \in Jobs /\ worker[w].leads \in Nat
  BY DEF TypeOK, WorkersOK, WorkerStates
<1>2. m \in StatusMessages /\ m.leads = leads
  BY <1>1 DEF StatusMessages
<1>3. CountedMessage(m, c) => w \in Running(c)
  BY <1>1 DEF CountedMessage, Running, JobsOf
<1>4. w \notin Running(c)'
  BY DEF Idle, IdleWorker, Running, Busy, TypeOK, WorkersOK
<1>5. statusQueue' = Append(statusQueue, m)
  BY DEF PushStatus
<1> HIDE DEF m
<1>6. /\ Cardinality(Reported(c)')
         = Cardinality(Reported(c)) + (IF CountedMessage(m, c) THEN 1 ELSE 0)
      /\ ReportedLeads(c)'
         = ReportedLeads(c) + (IF CountedMessage(m, c) THEN leads ELSE 0)
  BY <1>2, <1>5, ReportedAppend
<1>7. /\ Cardinality(Running(c)') + (IF w \in Running(c) THEN 1 ELSE 0)
         = Cardinality(Running(c))
      /\ RunningLeads(c)' + (IF w \in Running(c) THEN worker[w].leads ELSE 0)
         = RunningLeads(c)
  <2>1. \A v \in Workers \ {w} : worker'[v] = worker[v]
    BY DEF Idle, TypeOK, WorkersOK
  <2> QED
    BY <1>4, <2>1, RunningChange, CountsAround
<1>8. /\ Waiting(c)' = Waiting(c) /\ PushedLeads(c)' = PushedLeads(c)
      /\ Counting(c)' = Counting(c) /\ CountingLeads(c)' = CountingLeads(c)
      /\ Requeueing(c)' = Requeueing(c) /\ Retries(c)' = Retries(c)
      /\ UNCHANGED campaigns
  BY CountsFrame DEF runnerUnchanged, tables
<1>9. /\ Cardinality(Running(c)') + Cardinality(Reported(c)')
         <= Cardinality(Running(c)) + Cardinality(Reported(c))
      /\ RunningLeads(c)' + ReportedLeads(c)' <= RunningLeads(c) + ReportedLeads(c)
  BY <1>1, <1>3, <1>6, <1>7, CountsAround
<1> QED
  BY <1>8, <1>9, CountsAround DEF RunsBalanced, LeadsBalanced, OpenRuns, OpenLeads

(* The steps of Runner keep every campaign balanced.                       *)
LEMMA RunnerBalanced ==
    ASSUME TypeOK, TypeOK', RunnerNext,
           NEW c \in Campaigns, RunsBalanced(c), LeadsBalanced(c)
    PROVE  RunsBalanced(c)' /\ LeadsBalanced(c)'
<1>1. /\ Counting(c)' = Counting(c) /\ CountingLeads(c)' = CountingLeads(c)
      /\ Requeueing(c)' = Requeueing(c) /\ Retries(c)' = Retries(c)
      /\ UNCHANGED campaigns
  <2>1. UNCHANGED runnerUnchanged
    BY DEF RunnerNext, RunnerStep, Pop, RejectUnknown, Start, PushBatch, JobTimeout,
         Finish, ScrapeFails, StartFails, WorkersStop
  <2> QED
    BY <2>1, CountsFrame DEF runnerUnchanged, tables
<1>2. /\ worker \in [Workers -> WorkerStates] /\ scrapeQueue \in [Payloads -> Nat]
      /\ leadBatches \in [Jobs -> [LeadKinds -> Nat]]
  BY DEF TypeOK, WorkersOK, ListsOK
<1>3. ASSUME NEW w \in Workers, Pop(w)
      PROVE  RunsBalanced(c)' /\ LeadsBalanced(c)'
  <2>1. PICK p \in Payloads :
           /\ scrapeQueue[p] > 0
           /\ scrapeQueue' = [scrapeQueue EXCEPT ![p] = @ - 1]
           /\ worker' = [worker EXCEPT ![w] =
                 [IdleWorker EXCEPT !.pc = "popped", !.job = p.job, !.drop = p.drop]]
    BY <1>3 DEF Pop
  <2>2. /\ \A q \in Payloads \ {p} : scrapeQueue'[q] = scrapeQueue[q]
        /\ scrapeQueue'[p] = scrapeQueue[p] - 1
        /\ \A v \in Workers \ {w} : worker'[v] = worker[v]
        /\ worker'[w].leads = 0
    BY <1>2, <2>1 DEF IdleWorker
  <2>3. w \notin Running(c) /\ (w \in Running(c)' <=> p.job \in JobsOf(c))
    BY <1>2, <1>3, <2>1 DEF Pop, Running, Busy, IdleWorker
  <2>4. Waiting(c)' + (IF p.job \in JobsOf(c) THEN 1 ELSE 0) = Waiting(c)
    BY <1>2, <2>1, <2>2, WaitingChange, CountsAround, SMTT(30)
  <2>5. /\ Cardinality(Running(c)')
           = Cardinality(Running(c)) + (IF p.job \in JobsOf(c) THEN 1 ELSE 0)
        /\ RunningLeads(c)' = RunningLeads(c)
    BY <2>2, <2>3, RunningChange, CountsAround
  <2>6. /\ Reported(c)' = Reported(c) /\ ReportedLeads(c)' = ReportedLeads(c)
        /\ PushedLeads(c)' = PushedLeads(c)
    BY <1>3, CountsFrame DEF Pop
  <2> QED
    BY <1>1, <2>4, <2>5, <2>6, CountsAround
       DEF RunsBalanced, LeadsBalanced, OpenRuns, OpenLeads
<1>4. ASSUME NEW w \in Workers, Start(w)
      PROVE  RunsBalanced(c)' /\ LeadsBalanced(c)'
  <2> DEFINE m == [job |-> worker[w].job, status |-> "in_progress", leads |-> 0, try |-> 0]
  <2>1. m \in StatusMessages /\ ~CountedMessage(m, c)
    BY <1>4 DEF Start, Busy, TypeOK, WorkersOK, StatusMessages, CountedMessage,
                CountedStatuses
  <2>2. statusQueue' = Append(statusQueue, m)
    BY <1>4 DEF Start, PushStatus
  <2>3. /\ Cardinality(Reported(c)') = Cardinality(Reported(c))
        /\ ReportedLeads(c)' = ReportedLeads(c)
    <3> HIDE DEF m
    <3>1. /\ Cardinality(Reported(c)') = Cardinality(Reported(c)) + 0
          /\ ReportedLeads(c)' = ReportedLeads(c) + 0
      BY <2>1, <2>2, ReportedAppend
    <3> QED
      BY <3>1, CountsAround
  <2>4. /\ Running(c)' \subseteq Running(c)
        /\ \A v \in Running(c)' : worker'[v].leads = worker[v].leads
    BY <1>2, <1>4 DEF Start, Running, Busy, WorkerStates
  <2>5. /\ Cardinality(Running(c)') <= Cardinality(Running(c))
        /\ RunningLeads(c)' <= RunningLeads(c)
    BY <2>4, FewerRunning
  <2>6. Waiting(c)' = Waiting(c) /\ PushedLeads(c)' = PushedLeads(c)
    BY <1>4, CountsFrame DEF Start
  <2> QED
    BY <1>1, <2>3, <2>5, <2>6, CountsAround
       DEF RunsBalanced, LeadsBalanced, OpenRuns, OpenLeads
<1>5. ASSUME NEW w \in Workers, PushBatch(w)
      PROVE  RunsBalanced(c)' /\ LeadsBalanced(c)'
  <2>1. PICK rawBatch \in SUBSET LeadKinds :
           LET batch == IF worker[w].drop THEN rawBatch \ {"bare"} ELSE rawBatch
           IN  /\ leadBatches' = [leadBatches EXCEPT ![worker[w].job] =
                     [k \in LeadKinds |-> IF k \in batch THEN @[k] + 1 ELSE @[k]]]
               /\ worker' = [worker EXCEPT ![w].leads = @ + Cardinality(batch)]
    BY <1>5 DEF PushBatch
  <2> DEFINE batch == IF worker[w].drop THEN rawBatch \ {"bare"} ELSE rawBatch
             n == Cardinality(batch)
             j == worker[w].job
  <2>2. batch \subseteq LeadKinds
    OBVIOUS
  <2>3. /\ leadBatches' = [leadBatches EXCEPT ![j] =
               [k \in LeadKinds |-> IF k \in batch THEN leadBatches[j][k] + 1
                                                   ELSE leadBatches[j][k]]]
        /\ worker' = [worker EXCEPT ![w].leads = worker[w].leads + n]
    BY <2>1
  <2>4. j \in Jobs /\ worker[w].leads \in Nat /\ Busy(w)
    BY <1>5 DEF PushBatch, TypeOK, WorkersOK, WorkerStates, Busy
  <2>5. n = (IF "contact" \in batch THEN 1 ELSE 0) + (IF "bare" \in batch THEN 1 ELSE 0)
    BY <2>2, BatchSize
  <2> HIDE DEF batch, n, j
  <2>6. n \in Nat
    BY <2>5
  <2>7. /\ \A i \in Jobs \ {j} : leadBatches'[i] = leadBatches[i]
        /\ leadBatches'[j]["contact"] + leadBatches'[j]["bare"]
               = leadBatches[j]["contact"] + leadBatches[j]["bare"] + n
    BY <1>2, <2>3, <2>4, <2>5 DEF LeadKinds
  <2>8. PushedLeads(c)' = PushedLeads(c) + (IF j \in JobsOf(c) THEN n ELSE 0)
    BY <2>4, <2>6, <2>7, PushedChange
  <2>9. /\ \A v \in Workers \ {w} : worker'[v] = worker[v]
        /\ worker'[w].leads = worker[w].leads + n
        /\ w \in Running(c) <=> j \in JobsOf(c)
        /\ w \in Running(c)' <=> j \in JobsOf(c)
    BY <1>2, <2>3, <2>4 DEF Running, Busy, WorkerStates, j
  <2>10. /\ Cardinality(Running(c)') = Cardinality(Running(c))
         /\ RunningLeads(c)' = RunningLeads(c) + (IF j \in JobsOf(c) THEN n ELSE 0)
    BY <2>4, <2>6, <2>9, RunningChange, CountsAround
  <2>11. /\ Reported(c)' = Reported(c) /\ ReportedLeads(c)' = ReportedLeads(c)
         /\ Waiting(c)' = Waiting(c)
    BY <1>5, CountsFrame DEF PushBatch
  <2> QED
    BY <1>1, <2>6, <2>8, <2>10, <2>11, CountsAround
       DEF RunsBalanced, LeadsBalanced, OpenRuns, OpenLeads
<1>6. ASSUME Running(c)' \subseteq Running(c),
             \A v \in Running(c)' : worker'[v].leads = worker[v].leads,
             UNCHANGED lists
      PROVE  RunsBalanced(c)' /\ LeadsBalanced(c)'
  <2>1. /\ Cardinality(Running(c)') <= Cardinality(Running(c))
        /\ RunningLeads(c)' <= RunningLeads(c)
    BY <1>6, FewerRunning
  <2>2. /\ Reported(c)' = Reported(c) /\ ReportedLeads(c)' = ReportedLeads(c)
        /\ Waiting(c)' = Waiting(c) /\ PushedLeads(c)' = PushedLeads(c)
    BY <1>6, CountsFrame DEF lists
  <2> QED
    BY <1>1, <2>1, <2>2, CountsAround
       DEF RunsBalanced, LeadsBalanced, OpenRuns, OpenLeads
<1>7. ASSUME NEW w \in Workers, JobTimeout(w)
      PROVE  RunsBalanced(c)' /\ LeadsBalanced(c)'
  <2>1. /\ Running(c)' \subseteq Running(c)
        /\ \A v \in Running(c)' : worker'[v].leads = worker[v].leads
    BY <1>2, <1>7 DEF JobTimeout, Running, Busy, WorkerStates
  <2> QED
    BY <1>6, <1>7, <2>1 DEF JobTimeout
<1>8. ASSUME NEW W \in SUBSET Workers, WorkersStop(W)
      PROVE  RunsBalanced(c)' /\ LeadsBalanced(c)'
  <2>1. /\ Running(c)' \subseteq Running(c)
        /\ \A v \in Running(c)' : worker'[v].leads = worker[v].leads
    BY <1>8 DEF WorkersStop, Running, Busy, IdleWorker
  <2> QED
    BY <1>6, <1>8, <2>1 DEF WorkersStop
<1>9. ASSUME NEW w \in Workers,
             RejectUnknown(w) \/ StartFails(w) \/ Finish(w) \/ ScrapeFails(w)
      PROVE  RunsBalanced(c)' /\ LeadsBalanced(c)'
  <2>1. worker[w].leads \in Nat
    BY <1>2 DEF WorkerStates
  <2>2. CASE RejectUnknown(w) \/ StartFails(w)
    BY <2>1, <2>2, ReportBalanced DEF RejectUnknown, StartFails, Busy, FinalStatuses
  <2>3. CASE Finish(w)
    BY <2>1, <2>3, ReportBalanced DEF Finish, Busy, FinalStatuses, CountedStatuses
  <2>4. CASE ScrapeFails(w)
    BY <2>1, <2>4, ReportBalanced DEF ScrapeFails, Busy, FinalStatuses
  <2> QED
    BY <1>9, <2>2, <2>3, <2>4
<1> QED
  BY <1>3, <1>4, <1>5, <1>7, <1>8, <1>9 DEF RunnerNext, RunnerStep

(* The steps of LeadRecovery keep every campaign balanced.                 *)
LEMMA RecoveryBalanced ==
    ASSUME TypeOK, TypeOK', OnlyCountedCount, LeadRecoveryNext,
           NEW c \in Campaigns, RunsBalanced(c), LeadsBalanced(c)
    PROVE  RunsBalanced(c)' /\ LeadsBalanced(c)'
<1>1. /\ Waiting(c)' = Waiting(c) /\ PushedLeads(c)' = PushedLeads(c)
      /\ Running(c)' = Running(c) /\ RunningLeads(c)' = RunningLeads(c)
      /\ Requeueing(c)' = Requeueing(c)
  <2>1. UNCHANGED drainUnchanged
    BY DEF LeadRecoveryNext, DrainStep, Dequeue, UpdateStatus, UpdateFails, Count,
           CountFails, MarkCompletedIfDone, FetchHit, FetchMiss, Fill, Refund,
           DrainStops
  <2> QED
    BY <2>1, CountsFrame DEF drainUnchanged
<1>2. Retries(c)' = Retries(c)
  <2>1. ASSUME NEW j \in Jobs
        PROVE  jobs'[j].attempt = jobs[j].attempt
    <3>1. ASSUME NEW d \in Drainers, UpdateStatus(d)
          PROVE  jobs'[j].attempt = jobs[j].attempt
      BY <3>1 DEF UpdateStatus, TypeOK, JobsOK, JobRows
    <3> QED
      BY <3>1
         DEF LeadRecoveryNext, DrainStep, Dequeue, UpdateFails, Count, CountFails,
             MarkCompletedIfDone, FetchHit, FetchMiss, Fill, Refund, DrainStops,
             tables
  <2> QED
    BY <2>1, RetriesSame
<1>3. /\ campaigns \in [Campaigns -> CampaignRows]
      /\ drainer \in [Drainers -> DrainerStates]
      /\ statusQueue \in Seq(StatusMessages)
  BY DEF TypeOK, CampaignsOK, DrainersOK, ListsOK
<1>4. ASSUME NEW d \in Drainers, drainer[d].pc # "idle"
      PROVE  Message(d) \in StatusMessages /\ Message(d).leads \in Nat
  BY <1>4 DEF TypeOK, DrainersOK, Message, StatusMessages
<1>5. ASSUME NEW d \in Drainers, Dequeue(d)
      PROVE  RunsBalanced(c)' /\ LeadsBalanced(c)'
  <2> DEFINE m == Head(statusQueue)
  <2>1. /\ statusQueue # <<>> /\ statusQueue' = Tail(statusQueue)
        /\ UNCHANGED campaigns
        /\ \A e \in Drainers \ {d} : drainer'[e] = drainer[e]
        /\ drainer'[d].msg = m /\ drainer'[d].pc = "update" /\ drainer[d].pc = "idle"
    BY <1>3, <1>5 DEF Dequeue, IdleDrainer, tables
  <2>2. m \in StatusMessages /\ m.leads \in Nat
    <3>1. m \in StatusMessages
      BY <1>3, <2>1
    <3> QED
      BY <3>1 DEF StatusMessages
  <2>3. d \notin Counting(c) /\ (d \in Counting(c)' <=> CountedMessage(m, c))
    BY <2>1 DEF Counting
  <2> HIDE DEF m
  <2>4. /\ Cardinality(Counting(c)')
           = Cardinality(Counting(c)) + (IF CountedMessage(m, c) THEN 1 ELSE 0)
        /\ CountingLeads(c)'
           = CountingLeads(c) + (IF CountedMessage(m, c) THEN m.leads ELSE 0)
    <3>1. /\ Cardinality(Counting(c)') + 0
             = Cardinality(Counting(c)) + (IF d \in Counting(c)' THEN 1 ELSE 0)
          /\ CountingLeads(c)' + 0
             = CountingLeads(c) + (IF d \in Counting(c)' THEN drainer'[d].msg.leads ELSE 0)
      BY <2>1, <2>3, CountingChange
    <3>2. drainer'[d].msg.leads = m.leads
      BY <2>1
    <3> QED
      BY <2>2, <2>3, <3>1, <3>2, CountsAround
  <2>5. /\ Cardinality(Reported(c)') + (IF CountedMessage(m, c) THEN 1 ELSE 0)
           = Cardinality(Reported(c))
        /\ ReportedLeads(c)' + (IF CountedMessage(m, c) THEN m.leads ELSE 0)
           = ReportedLeads(c)
    BY <2>1, ReportedTail DEF m
  <2>6. /\ Cardinality(Counting(c)') + Cardinality(Reported(c)')
           = Cardinality(Counting(c)) + Cardinality(Reported(c))
        /\ CountingLeads(c)' + ReportedLeads(c)' = CountingLeads(c) + ReportedLeads(c)
    BY <2>2, <2>4, <2>5, CountsAround
  <2>7. /\ campaigns'[c].completed = campaigns[c].completed
        /\ campaigns'[c].leads = campaigns[c].leads
    BY <2>1
  <2> QED
    BY <1>1, <1>2, <2>6, <2>7, CountsAround
       DEF RunsBalanced, LeadsBalanced, OpenRuns, OpenLeads
<1>6. ASSUME NEW d \in Drainers, \A e \in Drainers \ {d} : drainer'[e] = drainer[e],
             d \in Counting(c)' => d \in Counting(c) /\ drainer'[d].msg = drainer[d].msg,
             UNCHANGED <<statusQueue>>,
             /\ campaigns'[c].completed = campaigns[c].completed
             /\ campaigns'[c].leads = campaigns[c].leads
      PROVE  RunsBalanced(c)' /\ LeadsBalanced(c)'
  <2>1. /\ Cardinality(Counting(c)') <= Cardinality(Counting(c))
        /\ CountingLeads(c)' <= CountingLeads(c)
    <3>1. d \in Counting(c) => drainer[d].msg.leads \in Nat
      BY <1>4 DEF Counting, Message
    <3> QED
      BY <1>6, <3>1, CountingChange, CountsAround
  <2>2. Reported(c)' = Reported(c) /\ ReportedLeads(c)' = ReportedLeads(c)
    BY <1>6, CountsFrame
  <2> QED
    BY <1>1, <1>2, <1>6, <2>1, <2>2, CountsAround
       DEF RunsBalanced, LeadsBalanced, OpenRuns, OpenLeads
<1>7. ASSUME NEW d \in Drainers, UpdateStatus(d)
      PROVE  RunsBalanced(c)' /\ LeadsBalanced(c)'
  <2>1. \A e \in Drainers \ {d} : drainer'[e] = drainer[e]
    BY <1>3, <1>7 DEF UpdateStatus, DrainTo, DrainDone
  <2>2. d \in Counting(c)' => d \in Counting(c) /\ drainer'[d].msg = drainer[d].msg
    BY <1>3, <1>7 DEF UpdateStatus, DrainTo, DrainDone, Counting, IdleDrainer,
                      DrainerStates
  <2> QED
    BY <1>6, <1>7, <2>1, <2>2 DEF UpdateStatus
<1>8. ASSUME NEW d \in Drainers, UpdateFails(d)
      PROVE  RunsBalanced(c)' /\ LeadsBalanced(c)'
  <2> DEFINE m == [Message(d) EXCEPT !.try = @ + 1]
  <2>1. /\ \A e \in Drainers \ {d} : drainer'[e] = drainer[e]
        /\ drainer[d].pc = "update" /\ drainer'[d].pc = "idle"
        /\ UNCHANGED campaigns
        /\ statusQueue' = Append(statusQueue, m) \/ UNCHANGED statusQueue
    BY <1>3, <1>8 DEF UpdateFails, DrainDone, IdleDrainer, tables
  <2>2. /\ m \in StatusMessages /\ m.leads = Message(d).leads /\ m.leads \in Nat
        /\ CountedMessage(m, c) <=> CountedMessage(Message(d), c)
    BY <1>4, <2>1 DEF StatusMessages, CountedMessage
  <2>3. d \notin Counting(c)' /\ (d \in Counting(c) <=> CountedMessage(m, c))
    BY <2>1, <2>2 DEF Counting, Message
  <2> HIDE DEF m
  <2>4. /\ Cardinality(Counting(c)') + (IF CountedMessage(m, c) THEN 1 ELSE 0)
           = Cardinality(Counting(c))
        /\ CountingLeads(c)' + (IF CountedMessage(m, c) THEN m.leads ELSE 0)
           = CountingLeads(c)
    <3>1. /\ Cardinality(Counting(c)') + (IF d \in Counting(c) THEN 1 ELSE 0)
             = Cardinality(Counting(c)) + 0
          /\ CountingLeads(c)' + (IF d \in Counting(c) THEN drainer[d].msg.leads ELSE 0)
             = CountingLeads(c) + 0
      BY <2>1, <2>3, CountingChange
    <3>2. drainer[d].msg.leads = m.leads
      BY <2>2 DEF Message
    <3> QED
      BY <2>3, <3>1, <3>2, CountsAround
  <2>5. /\ Cardinality(Reported(c)')
           <= Cardinality(Reported(c)) + (IF CountedMessage(m, c) THEN 1 ELSE 0)
        /\ ReportedLeads(c)'
           <= ReportedLeads(c) + (IF CountedMessage(m, c) THEN m.leads ELSE 0)
    <3>1. CASE statusQueue' = Append(statusQueue, m)
      <4>1. /\ Cardinality(Reported(c)')
               = Cardinality(Reported(c)) + (IF CountedMessage(m, c) THEN 1 ELSE 0)
            /\ ReportedLeads(c)'
               = ReportedLeads(c) + (IF CountedMessage(m, c) THEN m.leads ELSE 0)
        BY <2>2, <3>1, ReportedAppend
      <4> QED
        BY <2>2, <4>1, CountsAround
    <3>2. CASE UNCHANGED statusQueue
      <4>1. Reported(c)' = Reported(c) /\ ReportedLeads(c)' = ReportedLeads(c)
        BY <3>2, CountsFrame
      <4> QED
        BY <2>2, <4>1, CountsAround
    <3> QED
      BY <2>1, <3>1, <3>2
  <2>6. /\ Cardinality(Counting(c)') + Cardinality(Reported(c)')
           <= Cardinality(Counting(c)) + Cardinality(Reported(c))
        /\ CountingLeads(c)' + ReportedLeads(c)' <= CountingLeads(c) + ReportedLeads(c)
    BY <2>2, <2>4, <2>5, CountsAround
  <2>7. /\ campaigns'[c].completed = campaigns[c].completed
        /\ campaigns'[c].leads = campaigns[c].leads
    BY <2>1
  <2> QED
    BY <1>1, <1>2, <2>6, <2>7, CountsAround
       DEF RunsBalanced, LeadsBalanced, OpenRuns, OpenLeads
<1>9. ASSUME NEW d \in Drainers, Count(d)
      PROVE  RunsBalanced(c)' /\ LeadsBalanced(c)'
  <2>1. /\ \A e \in Drainers \ {d} : drainer'[e] = drainer[e]
        /\ drainer[d].pc = "count" /\ drainer'[d].pc = "mark"
        /\ UNCHANGED statusQueue
        /\ campaigns' = [campaigns EXCEPT ![MessageCampaign(d)].completed = @ + 1,
                                          ![MessageCampaign(d)].leads = @ + Message(d).leads]
    BY <1>3, <1>9 DEF Count, DrainTo, DrainerStates
  <2>2. CASE MessageCampaign(d) # c
    <3>1. campaigns'[c] = campaigns[c]
      BY <1>3, <2>1, <2>2
    <3>2. d \notin Counting(c)'
      BY <2>1 DEF Counting
    <3> QED
      BY <1>6, <2>1, <3>1, <3>2
  <2>3. CASE MessageCampaign(d) = c
    <3>1. /\ campaigns'[c].completed = campaigns[c].completed + 1
          /\ campaigns'[c].leads = campaigns[c].leads + Message(d).leads
      BY <1>3, <2>1, <2>3 DEF CampaignRows
    <3>2. d \in Counting(c) /\ d \notin Counting(c)'
      BY <2>1, <2>3
         DEF OnlyCountedCount, Counting, CountedMessage, MessageCampaign, Message
    <3>3. /\ Cardinality(Counting(c)') + 1 = Cardinality(Counting(c)) + 0
          /\ CountingLeads(c)' + Message(d).leads = CountingLeads(c) + 0
      BY <2>1, <3>2, CountingChange DEF Message
    <3>4. Reported(c)' = Reported(c) /\ ReportedLeads(c)' = ReportedLeads(c)
      BY <2>1, CountsFrame
    <3>5. Message(d).leads \in Nat
      BY <1>4, <2>1
    <3> QED
      BY <1>1, <1>2, <3>1, <3>3, <3>4, <3>5, CountsAround
         DEF RunsBalanced, LeadsBalanced, OpenRuns, OpenLeads
  <2> QED
    BY <2>2, <2>3
<1>10. ASSUME NEW d \in Drainers, MarkCompletedIfDone(d)
       PROVE  RunsBalanced(c)' /\ LeadsBalanced(c)'
  <2>1. /\ campaigns'[c].completed = campaigns[c].completed
        /\ campaigns'[c].leads = campaigns[c].leads
    BY <1>3, <1>10 DEF MarkCompletedIfDone, CampaignRows
  <2>2. /\ \A e \in Drainers \ {d} : drainer'[e] = drainer[e]
        /\ d \notin Counting(c)'
    BY <1>3, <1>10 DEF MarkCompletedIfDone, DrainTo, Counting, DrainerStates
  <2> QED
    BY <1>6, <1>10, <2>1, <2>2 DEF MarkCompletedIfDone
<1>11. ASSUME NEW d \in Drainers,
              CountFails(d) \/ FetchHit(d) \/ FetchMiss(d) \/ Fill(d) \/ Refund(d)
              \/ DrainStops(d)
       PROVE  RunsBalanced(c)' /\ LeadsBalanced(c)'
  <2>1. UNCHANGED <<campaigns, statusQueue>>
    BY <1>11 DEF CountFails, FetchHit, FetchMiss, Fill, Refund, DrainStops, tables
  <2>2. /\ \A e \in Drainers \ {d} : drainer'[e] = drainer[e]
        /\ d \notin Counting(c)'
    BY <1>3, <1>11 DEF CountFails, FetchHit, FetchMiss, Fill, Refund, DrainStops,
       DrainTo, DrainDone, RefundIfEmpty, IdleDrainer, Counting, DrainerStates
  <2> QED
    BY <1>6, <2>1, <2>2
<1> QED
  BY <1>5, <1>7, <1>8, <1>9, <1>10, <1>11 DEF LeadRecoveryNext, DrainStep

(* The steps of Watchdog keep every campaign balanced.                     *)
LEMMA WatchdogBalanced ==
    ASSUME TypeOK, TypeOK', WatchdogNext,
           NEW c \in Campaigns, RunsBalanced(c), LeadsBalanced(c)
    PROVE  RunsBalanced(c)' /\ LeadsBalanced(c)'
<1>1. /\ Reported(c)' = Reported(c) /\ ReportedLeads(c)' = ReportedLeads(c)
      /\ Counting(c)' = Counting(c) /\ CountingLeads(c)' = CountingLeads(c)
      /\ PushedLeads(c)' = PushedLeads(c) /\ UNCHANGED campaigns
  <2>1. UNCHANGED watchUnchanged
    BY DEF WatchdogNext, WatchdogStep, GetStalledJobs, Kill, MarkDead,
         RequeueJob, Enqueue, WatchdogCallFails, WatchdogStops
  <2> QED
    BY <2>1, CountsFrame DEF watchUnchanged
<1>2. /\ watchdog \in [Watchdogs -> WatchdogStates] /\ jobs \in [Jobs -> JobRows]
      /\ scrapeQueue \in [Payloads -> Nat] /\ worker \in [Workers -> WorkerStates]
  BY DEF TypeOK, WatchdogsOK, JobsOK, ListsOK, WorkersOK
<1>3. /\ Cardinality(Running(c)') <= Cardinality(Running(c))
      /\ RunningLeads(c)' <= RunningLeads(c)
  <2>1. /\ Running(c)' \subseteq Running(c)
        /\ \A w \in Running(c)' : worker'[w].leads = worker[w].leads
    <3>1. ASSUME NEW g \in Watchdogs, Kill(g)
          PROVE  \A w \in Workers : /\ worker'[w].pc = worker[w].pc
                                    /\ worker'[w].job = worker[w].job
                                    /\ worker'[w].leads = worker[w].leads
      BY <1>2, <3>1 DEF Kill, WorkerStates
    <3>2. (\E g \in Watchdogs : Kill(g)) \/ UNCHANGED worker
      BY DEF WatchdogNext, WatchdogStep, GetStalledJobs, MarkDead,
             RequeueJob, Enqueue, WatchdogCallFails, WatchdogStops
    <3>3. \A w \in Workers : /\ worker'[w].pc = worker[w].pc
                             /\ worker'[w].job = worker[w].job
                             /\ worker'[w].leads = worker[w].leads
      BY <3>1, <3>2
    <3> QED
      BY <3>3 DEF Running, Busy
  <2> QED
    BY <2>1, FewerRunning
<1>4. ASSUME NEW g \in Watchdogs, NEW pc \in {"loop", "enqueue"}, Advance(g, pc)
      PROVE  /\ \A h \in Watchdogs \ {g} : watchdog'[h] = watchdog[h]
             /\ g \in Requeueing(c)' <=> pc = "enqueue" /\ watchdog[g].job \in JobsOf(c)
  BY <1>2, <1>4 DEF Advance, IdleWatchdog, Requeueing
<1>5. ASSUME NEW g \in Watchdogs, \A h \in Watchdogs \ {g} : watchdog'[h] = watchdog[h],
             g \in Requeueing(c)' => g \in Requeueing(c),
             UNCHANGED scrapeQueue, Retries(c)' = Retries(c)
      PROVE  RunsBalanced(c)' /\ LeadsBalanced(c)'
  <2>1. Cardinality(Requeueing(c)') <= Cardinality(Requeueing(c))
    BY <1>5, RequeueingChange, CountsAround
  <2>2. Waiting(c)' = Waiting(c)
    BY <1>5, CountsFrame
  <2> QED
    BY <1>1, <1>3, <1>5, <2>1, <2>2, CountsAround
       DEF RunsBalanced, LeadsBalanced, OpenRuns, OpenLeads
<1>6. ASSUME NEW g \in Watchdogs, GetStalledJobs(g) \/ Kill(g) \/ WatchdogStops(g)
      PROVE  RunsBalanced(c)' /\ LeadsBalanced(c)'
  <2>1. \A h \in Watchdogs \ {g} : watchdog'[h] = watchdog[h]
    BY <1>2, <1>6 DEF GetStalledJobs, Kill, WatchdogStops
  <2>2. g \notin Requeueing(c)'
    BY <1>2, <1>6 DEF GetStalledJobs, Kill, WatchdogStops, Requeueing, IdleWatchdog,
                      WatchdogStates
  <2>3. UNCHANGED <<scrapeQueue, jobs>>
    BY <1>6 DEF GetStalledJobs, Kill, WatchdogStops
  <2> QED
    BY <1>5, <2>1, <2>2, <2>3, CountsFrame
<1>7. ASSUME NEW g \in Watchdogs, MarkDead(g) \/ WatchdogCallFails(g)
      PROVE  RunsBalanced(c)' /\ LeadsBalanced(c)'
  <2>1. \A j \in Jobs : jobs'[j].attempt = jobs[j].attempt
    BY <1>2, <1>7 DEF MarkDead, WatchdogCallFails, JobRows
  <2>2. Advance(g, "loop") /\ UNCHANGED scrapeQueue
    BY <1>7 DEF MarkDead, WatchdogCallFails
  <2> QED
    BY <1>4, <1>5, <2>1, <2>2, RetriesSame
<1>8. ASSUME NEW g \in Watchdogs, RequeueJob(g)
      PROVE  RunsBalanced(c)' /\ LeadsBalanced(c)'
  <2> DEFINE j == watchdog[g].job
  <2>1. j \in Jobs /\ g \notin Requeueing(c)
    BY <1>2, <1>8 DEF RequeueJob, TypeOK, WatchdogsOK, WatchdogStates, Requeueing
  <2>2. /\ \A i \in Jobs \ {j} : jobs'[i].attempt = jobs[i].attempt
        /\ jobs'[j].attempt = jobs[j].attempt + 1 /\ jobs[j].attempt \in Nat
    BY <1>2, <1>8, <2>1 DEF RequeueJob, JobRows
  <2>3. Advance(g, "enqueue") /\ UNCHANGED scrapeQueue
    BY <1>8 DEF RequeueJob
  <2>4. /\ \A h \in Watchdogs \ {g} : watchdog'[h] = watchdog[h]
        /\ g \in Requeueing(c)' <=> j \in JobsOf(c)
    BY <1>4, <2>3
  <2> HIDE DEF j
  <2>5. Retries(c)' = Retries(c) + (IF j \in JobsOf(c) THEN 1 ELSE 0)
    BY <2>1, <2>2, RetriesChange, CountsAround
  <2>6. Cardinality(Requeueing(c)')
        = Cardinality(Requeueing(c)) + (IF j \in JobsOf(c) THEN 1 ELSE 0)
    BY <2>1, <2>4, RequeueingChange, CountsAround
  <2>7. Waiting(c)' = Waiting(c)
    BY <2>3, CountsFrame
  <2> QED
    BY <1>1, <1>3, <2>5, <2>6, <2>7, CountsAround
       DEF RunsBalanced, LeadsBalanced, OpenRuns, OpenLeads
<1>9. ASSUME NEW g \in Watchdogs, Enqueue(g)
      PROVE  RunsBalanced(c)' /\ LeadsBalanced(c)'
  <2> DEFINE j == watchdog[g].job
             p == RequeuePayload(j)
  <2>1. j \in Jobs /\ p \in Payloads /\ p.job = j
    BY <1>9 DEF Enqueue, TypeOK, WatchdogsOK, RequeuePayload, Payloads
  <2>2. /\ \A q \in Payloads \ {p} : scrapeQueue'[q] = scrapeQueue[q]
        /\ scrapeQueue'[p] = scrapeQueue[p] + 1 /\ scrapeQueue[p] \in Nat
    BY <1>2, <1>9, <2>1 DEF Enqueue
  <2>3. Advance(g, "loop") /\ UNCHANGED jobs
    BY <1>9 DEF Enqueue
  <2>4. /\ \A h \in Watchdogs \ {g} : watchdog'[h] = watchdog[h]
        /\ g \notin Requeueing(c)' /\ (g \in Requeueing(c) <=> j \in JobsOf(c))
    BY <1>4, <1>9, <2>3 DEF Enqueue, Requeueing
  <2> HIDE DEF j, p
  <2>5. Waiting(c)' = Waiting(c) + (IF j \in JobsOf(c) THEN 1 ELSE 0)
    BY <2>1, <2>2, WaitingChange, CountsAround
  <2>6. Cardinality(Requeueing(c)') + (IF j \in JobsOf(c) THEN 1 ELSE 0)
        = Cardinality(Requeueing(c))
    BY <2>4, RequeueingChange, CountsAround
  <2>7. Retries(c)' = Retries(c)
    BY <2>3, CountsFrame
  <2> QED
    BY <1>1, <1>3, <2>5, <2>6, <2>7, CountsAround
       DEF RunsBalanced, LeadsBalanced, OpenRuns, OpenLeads
<1> QED
  BY <1>6, <1>7, <1>8, <1>9 DEF WatchdogNext, WatchdogStep

(* Every step keeps every campaign balanced.                               *)
LEMMA StepBalanced ==
    ASSUME TypeOK, TypeOK', NothingBeforeAccepted, OnlyCountedCount, RunsAccounted,
           LeadsAccounted, [Next]_vars
    PROVE  RunsAccounted' /\ LeadsAccounted'
<1>1. ASSUME NEW c \in Campaigns
      PROVE  RunsBalanced(c)' /\ LeadsBalanced(c)'
  <2>1. RunsBalanced(c) /\ LeadsBalanced(c)
    BY DEF RunsAccounted, LeadsAccounted, RunsBalanced, LeadsBalanced
  <2>2. CASE UNCHANGED vars
    BY <2>1, <2>2, UntouchedBalanced, CountsFrame DEF vars, tables, lists
  <2> QED
    BY <2>1, <2>2, ServiceBalanced, RunnerBalanced, RecoveryBalanced, WatchdogBalanced
       DEF Next
<1> QED
  BY <1>1 DEF RunsAccounted, LeadsAccounted, RunsBalanced, LeadsBalanced

(* Nothing is counted, waiting or running at the start.                    *)
LEMMA InitBalanced == Init => RunsAccounted /\ LeadsAccounted
<1> SUFFICES ASSUME Init, NEW c \in Campaigns
             PROVE  RunsBalanced(c) /\ LeadsBalanced(c)
  BY DEF RunsAccounted, LeadsAccounted, RunsBalanced, LeadsBalanced
<1>1. TypeOK
  BY InitTypeOK
<1>2. CountsTyped!(c) /\ Cardinality(JobsOf(c)) \in Nat
  BY <1>1, CountsAreTyped, PayloadsFinite, FS_CardinalityType DEF CountsTyped
<1>3. /\ Running(c) = {} /\ Reported(c) = {} /\ Counting(c) = {} /\ Requeueing(c) = {}
      /\ campaigns[c].completed = 0 /\ campaigns[c].leads = 0
  BY DEF Init, Running, Busy, IdleWorker, Reported, Counting, IdleDrainer, Requeueing,
         IdleWatchdog
<1>4. Waiting(c) = 0
  <2> DEFINE S == {q \in Payloads : q.job \in JobsOf(c)}
             f == [p \in S |-> scrapeQueue[p]]
  <2>1. f \in [S -> Nat] /\ \A p \in S : f[p] = 0
    BY DEF Init
  <2>2. Total(f) = 0
    <3> HIDE DEF S, f
    <3> QED
      BY <2>1, TotalZero
  <2> QED
    BY <2>2 DEF Waiting
<1>5. RunningLeads(c) = 0 /\ ReportedLeads(c) = 0 /\ CountingLeads(c) = 0
  <2>1. ASSUME NEW f \in [{} -> Nat]
        PROVE  Total(f) = 0
    BY TotalZero
  <2> QED
    BY <1>3, <2>1 DEF RunningLeads, ReportedLeads, CountingLeads
<1> QED
  BY <1>2, <1>3, <1>4, <1>5, FS_EmptySet
     DEF RunsBalanced, LeadsBalanced, OpenRuns, OpenLeads

(* The runs and leads of every campaign are accounted for in every state.  *)
LEMMA CampaignsAreBalanced == Spec => [](RunsAccounted /\ LeadsAccounted)
<1>1. /\ TypeOK /\ TypeOK' /\ NothingBeforeAccepted /\ OnlyCountedCount
      /\ RunsAccounted /\ LeadsAccounted /\ [Next]_vars
      => RunsAccounted' /\ LeadsAccounted'
  BY StepBalanced
<1> QED
  BY InitBalanced, <1>1, TypeCorrect, NothingRunsBeforeAccepted, CountOnlyCounted, PTL
     DEF Spec

(* No run is counted twice: jobs_completed and the runs that may still be  *)
(* counted never exceed one per job and one per requeue, whatever is lost, *)
(* late or repeated, with any number of workers and of API instances.      *)
THEOREM RunsAreAccounted == Spec => []RunsAccounted
  BY CampaignsAreBalanced, PTL

(* leads_found never exceeds the leads that were pushed to lead_batches:   *)
(* no lead count is added twice over all runs, statuses and drainers.      *)
THEOREM LeadsAreAccounted == Spec => []LeadsAccounted
  BY CampaignsAreBalanced, PTL
=============================================================================
